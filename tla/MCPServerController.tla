------------------------- MODULE MCPServerController -------------------------
(***************************************************************************)
(* MCPServerReconciler.Reconcile for one MCPServer (one namespaced name).  *)
(* controller-runtime never runs two reconciles of the same key at once,   *)
(* so one worker suffices.  A reconcile is cut at its reads and writes:    *)
(*                                                                         *)
(*   Fetch -> Deployment -> Resources -> Binding -> Hash -> Handshake      *)
(*         -> GatewayCondition -> Apply                                    *)
(*                                                                         *)
(* and everything else (user, API server, informers, Deployment            *)
(* controller, gateway provider, MCP endpoint) may move between two of     *)
(* these steps.  r.Get reads an informer cache that lags the API server    *)
(* (cache, cdeploy, cbinding); r.APIReader reads the API server itself.    *)
(*                                                                         *)
(* "disturbances" counts the faults and the unforced changes of the        *)
(* environment: each is possible at any time, at most MaxDisturbances in   *)
(* a behaviour.                                                            *)
(***************************************************************************)
EXTENDS StatusConditions, Integers, FiniteSets

CONSTANTS
    Images,           \* the container images (and pod settings) of a spec
    Specs,            \* the specs the user may write
    FirstSpecs,       \* those an MCPServer may be created with
    ProviderOf,       \* the provider a gateway value names
    CABundles,        \* the contents the CA bundle Secret may have (spec.tls
                      \* stands for TLS with a CA bundle Secret)
    Endpoints,        \* the ways the MCP endpoint may answer a handshake
    Foreign,          \* resource kinds whose name may be taken by another owner
    MaxRetries,       \* maxMCPHandshakeRetries
    MaxGen,           \* bound: generations of one MCPServer
    MaxUid,           \* bound: incarnations of the MCPServer
    MaxDisturbances   \* bound: faults and unforced changes

ASSUME ControllerAssumption ==
    /\ FirstSpecs # {} /\ FirstSpecs \subseteq Specs
    /\ Specs \subseteq [image : Images, replicas : {0, 1},
                        gateway : Gateways \cup {None}, tls : BOOLEAN]
    /\ ProviderOf \in [Gateways -> Providers]
    /\ None \notin Gateways \cup Providers \cup Urls \cup CABundles
    /\ Foreign \subseteq {"nothing", "Deployment", "Service", "NetworkPolicy",
                          "MCPGatewayBinding"}
    /\ Endpoints \subseteq {"up", "auth", "down"}
    /\ MaxRetries \in Nat \ {0}
    /\ MaxGen \in Nat \ {0}
    /\ MaxUid \in Nat \ {0}
    /\ MaxDisturbances \in Nat

VARIABLES
    server,       \* the MCPServer in the API server; uid 0 when it is absent
    lastUid,      \* the uid of the latest incarnation
    deploy,       \* the Deployment named after the MCPServer
    binding,      \* the MCPGatewayBinding of the MCPServer
    foreign,      \* the kind of resource another owner holds, or "nothing"
    ca,           \* the content of the CA bundle Secret
    refs,         \* whether the resources the spec refers to are all there
    endpoint,     \* how the MCP endpoint answers a handshake now
    cache,        \* the informer's MCPServer
    cdeploy,      \* the informer's Deployment
    cbinding,     \* the informer's MCPGatewayBinding
    queued,       \* the key is in the workqueue
    timer,        \* the key is to be added to the workqueue later
    pc,           \* the next step of the reconcile in progress
    snap,         \* the MCPServer the reconcile works on
    draft,        \* the status apply configuration it builds
    hash,         \* the CA bundle hash it computed
    result,       \* what it returns after the status is applied
    retries,      \* handshakeRetries, in memory
    caHash,       \* tlsCABundleHashes, in memory
    disturbances, \* faults and unforced changes so far
    dialled       \* history: <<uid, gen, ca>> of every handshake that passed

apiVars    == <<server, lastUid, deploy, binding, foreign>>
envVars    == <<ca, refs, endpoint>>
cacheVars  == <<cache, cdeploy, cbinding>>
queueVars  == <<queued, timer>>
workVars   == <<pc, snap, draft, hash, result>>
memoryVars == <<retries, caHash>>
vars == <<apiVars, envVars, cacheVars, queueVars, workVars, memoryVars,
          disturbances, dialled>>

-----------------------------------------------------------------------------
(* Objects.                                                                *)

Servers ==
    [uid : Nat, gen : Nat, spec : Specs, deleting : BOOLEAN, status : Status]

Deployments ==
    [owner : Nat, image : Images, replicas : {0, 1},
     phase : {"absent", "new", "stale", "current"}, ready : BOOLEAN]

\* registered is the observedGeneration of a Registered=True condition, 0 when
\* the condition is absent or not True; url is status.url.
Bindings ==
    [owner : Nat, gateway : Gateways \cup {None}, gen : Nat, registered : Nat,
     url : Urls \cup {None}]

AnySpec == CHOOSE s \in Specs : TRUE

NoServer ==
    [uid |-> 0, gen |-> 0, spec |-> AnySpec, deleting |-> FALSE, status |-> NoStatus]

NoDeployment ==
    [owner |-> 0, image |-> AnySpec.image, replicas |-> AnySpec.replicas,
     phase |-> "absent", ready |-> FALSE]

NoBinding == [owner |-> 0, gateway |-> None, gen |-> 0, registered |-> 0, url |-> None]

NoRetries == [gen |-> 0, count |-> 0]

\* The reconcile's locals go out of scope.
Return ==
    /\ pc' = "idle"
    /\ snap' = NoServer
    /\ draft' = NoStatus
    /\ hash' = None
    /\ result' = "done"

Calm == UNCHANGED disturbances

Disturb ==
    /\ disturbances < MaxDisturbances
    /\ disturbances' = disturbances + 1

Init ==
    /\ \E s \in FirstSpecs : server = [NoServer EXCEPT !.uid = 1, !.gen = 1, !.spec = s]
    /\ lastUid = 1
    /\ deploy = NoDeployment
    /\ binding = NoBinding
    /\ foreign \in Foreign
    /\ ca \in CABundles
    /\ refs = "present"
    /\ endpoint \in Endpoints
    /\ cache = NoServer
    /\ cdeploy = NoDeployment
    /\ cbinding = NoBinding
    /\ queued = FALSE
    /\ timer = FALSE
    /\ pc = "idle"
    /\ snap = NoServer
    /\ draft = NoStatus
    /\ hash = None
    /\ result = "done"
    /\ retries = NoRetries
    /\ caHash = None
    /\ disturbances = 0
    /\ dialled = {}

-----------------------------------------------------------------------------
(* The environment: the user, the garbage collector, the Deployment        *)
(* controller, the gateway provider, the endpoint and the informers.       *)

\* The user writes another spec; the API server bumps the generation and
\* leaves the status alone.
EditSpec ==
    /\ server.uid # 0 /\ ~server.deleting /\ server.gen < MaxGen
    /\ \E s \in Specs \ {server.spec} :
          server' = [server EXCEPT !.spec = s, !.gen = @ + 1]
    /\ UNCHANGED <<lastUid, deploy, binding, foreign, envVars, cacheVars, queueVars,
                   workVars, memoryVars, disturbances, dialled>>

\* A deletion that waits for dependents (or for the namespace's contents):
\* the object, or its namespace, carries a deletion timestamp.
BeginDeletion ==
    /\ server.uid # 0 /\ ~server.deleting
    /\ server' = [server EXCEPT !.deleting = TRUE]
    /\ Disturb
    /\ UNCHANGED <<lastUid, deploy, binding, foreign, envVars, cacheVars, queueVars,
                   workVars, memoryVars, dialled>>

DeleteServer ==
    /\ server.uid # 0
    /\ server' = NoServer
    /\ server.deleting \/ lastUid < MaxUid
    /\ UNCHANGED <<lastUid, deploy, binding, foreign, envVars, cacheVars, queueVars,
                   workVars, memoryVars, disturbances, dialled>>

\* The user creates an MCPServer of the same name again.
RecreateServer ==
    /\ server.uid = 0 /\ lastUid < MaxUid
    /\ \E s \in FirstSpecs :
          server' = [NoServer EXCEPT !.uid = lastUid + 1, !.gen = 1, !.spec = s]
    /\ lastUid' = lastUid + 1
    /\ UNCHANGED <<deploy, binding, foreign, envVars, cacheVars, queueVars, workVars,
                   memoryVars, disturbances, dialled>>

\* The garbage collector deletes dependents whose owner is gone.
CollectGarbage ==
    /\ \/ /\ deploy.phase # "absent" /\ deploy.owner # server.uid
          /\ deploy' = NoDeployment
          /\ UNCHANGED binding
       \/ /\ binding.gateway # None /\ binding.owner # server.uid
          /\ binding' = NoBinding
          /\ UNCHANGED deploy
    /\ UNCHANGED <<server, lastUid, foreign, envVars, cacheVars, queueVars, workVars,
                   memoryVars, disturbances, dialled>>

\* The Deployment controller observes the latest Deployment generation; pods
\* of the previous template keep it ready while the new ones roll out.
ObserveDeployment ==
    /\ deploy.phase \in {"new", "stale"}
    /\ deploy' = [deploy EXCEPT !.phase = "current",
                                !.ready = @ /\ deploy.replicas # 0]
    /\ UNCHANGED <<server, lastUid, binding, foreign, envVars, cacheVars, queueVars,
                   workVars, memoryVars, disturbances, dialled>>

DeploymentReady ==
    /\ deploy.phase = "current" /\ deploy.replicas # 0 /\ ~deploy.ready
    /\ deploy' = [deploy EXCEPT !.ready = TRUE]
    /\ UNCHANGED <<server, lastUid, binding, foreign, envVars, cacheVars, queueVars,
                   workVars, memoryVars, disturbances, dialled>>

DeploymentUnready ==
    /\ deploy.phase = "current" /\ deploy.ready
    /\ deploy' = [deploy EXCEPT !.ready = FALSE]
    /\ Disturb
    /\ UNCHANGED <<server, lastUid, binding, foreign, envVars, cacheVars, queueVars,
                   workVars, memoryVars, dialled>>

\* The gateway integration controller registers the binding it sees, with an
\* address or with none, and may change the address later.
RegisterBinding ==
    /\ binding.gateway # None
    /\ \E url \in Urls \cup {None} :
          /\ \/ binding.registered < binding.gen /\ Calm
             \/ binding.registered = binding.gen /\ url # binding.url /\ Disturb
          /\ binding' = [binding EXCEPT !.registered = binding.gen, !.url = url]
    /\ UNCHANGED <<server, lastUid, deploy, foreign, envVars, cacheVars, queueVars,
                   workVars, memoryVars, dialled>>

UnregisterBinding ==
    /\ binding.gateway # None /\ binding.registered # 0
    /\ binding' = [binding EXCEPT !.registered = 0, !.url = None]
    /\ Disturb
    /\ UNCHANGED <<server, lastUid, deploy, foreign, envVars, cacheVars, queueVars,
                   workVars, memoryVars, dialled>>

EndpointChanges ==
    /\ \E e \in Endpoints \ {endpoint} : endpoint' = e
    /\ Disturb
    /\ UNCHANGED <<apiVars, ca, refs, cacheVars, queueVars, workVars, memoryVars,
                   dialled>>

\* The CA bundle Secret, or a resource the spec refers to, changes; the
\* metadata watches on Secrets and ConfigMaps enqueue the MCPServer.
ReferencedResourceChanges ==
    /\ \/ (\E c \in CABundles \ {ca} : ca' = c) /\ UNCHANGED refs
       \/ (\E f \in {"present", "missing"} \ {refs} : refs' = f) /\ UNCHANGED ca
    /\ Disturb
    /\ queued' = TRUE
    /\ UNCHANGED <<apiVars, endpoint, cacheVars, timer, workVars, memoryVars, dialled>>

\* An event that changes nothing modelled here but enqueues the MCPServer: a
\* label or annotation edit, a Pod diagnostics change, a Service event.
UnrelatedEvent ==
    /\ ~queued /\ cache.uid # 0
    /\ queued' = TRUE
    /\ Disturb
    /\ UNCHANGED <<apiVars, envVars, cacheVars, timer, workVars, memoryVars, dialled>>

\* Variant: recreations are mistaken for status updates.
SyncServerByGeneration ==
    /\ cache # server
    /\ cache' = server
    /\ queued' = (queued \/ cache.gen # server.gen \/ cache.deleting # server.deleting)
    /\ UNCHANGED <<apiVars, envVars, cdeploy, cbinding, timer, workVars, memoryVars,
                   disturbances, dialled>>

\* For(MCPServer) lets an update through only when the generation (or a label
\* or annotation) changed, which a spec edit and the start of a deletion do: a
\* status update enqueues nothing.
SyncServer ==
    /\ cache # server
    /\ cache' = server
    /\ queued' = (\/ queued
                   \/ cache.uid # server.uid
                   \/ cache.gen # server.gen
                   \/ cache.deleting # server.deleting)
    /\ UNCHANGED <<apiVars, envVars, cdeploy, cbinding, timer, workVars, memoryVars,
                   disturbances, dialled>>

\* Owns(Deployment) and Owns(MCPGatewayBinding): every event of an object whose
\* controller owner is an MCPServer of this name enqueues it.
SyncOwned ==
    /\ \/ cdeploy # deploy /\ cdeploy' = deploy /\ UNCHANGED cbinding
       \/ cbinding # binding /\ cbinding' = binding /\ UNCHANGED cdeploy
    /\ queued' = TRUE
    /\ UNCHANGED <<apiVars, envVars, cache, timer, workVars, memoryVars, disturbances,
                   dialled>>

\* A RequeueAfter expires.
TimerFires ==
    /\ timer
    /\ timer' = FALSE
    /\ queued' = TRUE
    /\ UNCHANGED <<apiVars, envVars, cacheVars, workVars, memoryVars, disturbances,
                   dialled>>

\* The operator process ends at any point of a reconcile and starts again:
\* its memory is empty, its caches are listed afresh and every MCPServer is
\* enqueued.
RestartOperator ==
    /\ Disturb
    /\ cache' = server /\ cdeploy' = deploy /\ cbinding' = binding
    /\ queued' = (server.uid # 0)
    /\ timer' = FALSE
    /\ Return
    /\ retries' = NoRetries
    /\ caHash' = None
    /\ UNCHANGED <<apiVars, envVars, dialled>>

-----------------------------------------------------------------------------
(* The reconcile.                                                          *)

\* Variant: an error is logged and swallowed.
FinishQuietly(outcome) ==
    /\ Return
    /\ timer' = (timer \/ outcome = "later")
    /\ UNCHANGED queued

\* What the workqueue does with what Reconcile returns: nothing ("done"), add
\* the key again with back-off ("error"), or after a delay ("later").
Finish(outcome) ==
    /\ Return
    /\ queued' = (queued \/ outcome = "error")
    /\ timer' = (timer \/ outcome = "later")

\* A step succeeded and has nothing to add to the status.
Proceed(next) ==
    /\ pc' = next
    /\ UNCHANGED <<snap, draft, hash, result, queueVars>>

\* Variant: what is tried again is not observed yet.
FailUnobserved(accepted, reason, outcome) ==
    /\ pc' = "apply"
    /\ draft' = [FailureStatus(snap, accepted, reason) EXCEPT
          !.observedGeneration = IF outcome = "error"
                                 THEN snap.status.observedGeneration ELSE @]
    /\ result' = outcome
    /\ UNCHANGED <<snap, hash>>

\* A step failed: the failure status is applied next, and the reconcile then
\* returns the error, or nil when a retry could not help.
Fail(accepted, reason, outcome) ==
    /\ pc' = "apply"
    /\ draft' = FailureStatus(snap, accepted, reason)
    /\ result' = outcome
    /\ UNCHANGED <<snap, hash>>

\* Reconcile finds no MCPServer: it forgets what it kept in memory.
FetchNotFound ==
    /\ pc = "idle" /\ queued /\ cache.uid = 0
    /\ queued' = FALSE
    /\ retries' = NoRetries
    /\ caHash' = None
    /\ UNCHANGED <<apiVars, envVars, cacheVars, timer, workVars, disturbances, dialled>>

\* shouldSkipReconciliation.
FetchSkipped ==
    /\ pc = "idle" /\ queued /\ cache.uid # 0 /\ cache.deleting
    /\ queued' = FALSE
    /\ UNCHANGED <<apiVars, envVars, cacheVars, timer, workVars, memoryVars,
                   disturbances, dialled>>

\* cleanupGatewayBindingIfRemoved deletes by name what the cache shows; its
\* failure is only logged.
CleanupGatewayBindingIfRemoved(s, failed) ==
    IF s.spec.gateway = None /\ cbinding.gateway # None
         /\ foreign # "MCPGatewayBinding" /\ ~failed
    THEN binding' = NoBinding
    ELSE UNCHANGED binding

\* Reconcile up to and including the validation of the configuration.  A
\* transient error ends it with no change of the status.
Fetch ==
    /\ pc = "idle" /\ queued /\ cache.uid # 0 /\ ~cache.deleting
    /\ \E failed, transient \in BOOLEAN :
          /\ IF failed \/ transient THEN Disturb ELSE Calm
          /\ CleanupGatewayBindingIfRemoved(cache, failed)
          /\ \/ /\ transient
                /\ UNCHANGED <<pc, snap, queued, draft, result>>
             \/ /\ ~transient /\ refs = "missing"
                /\ pc' = "apply"
                /\ snap' = cache
                /\ queued' = FALSE
                /\ draft' = FailureStatus(cache, "False", "ConfigurationInvalid")
                /\ result' = "done"
             \/ /\ ~transient /\ refs = "present"
                /\ pc' = "deployment"
                /\ snap' = cache
                /\ queued' = FALSE
                /\ draft' = [NoStatus EXCEPT !.observedGeneration = cache.gen,
                                             !.accepted = "True"]
                /\ UNCHANGED result
    /\ UNCHANGED <<server, lastUid, deploy, foreign, envVars, cacheVars, timer, hash,
                   memoryVars, dialled>>

\* createDeployment and SetControllerReference: the Deployment the MCPServer s
\* asks for, as the API server stores it on creation.
DesiredDeployment(s) ==
    [owner |-> s.uid, image |-> s.spec.image, replicas |-> s.spec.replicas,
     phase |-> "new", ready |-> FALSE]

\* Variants: another image, and adoption, are overlooked.
NeedsUpdateOfScale(s, d) == d.replicas # s.spec.replicas \/ d.owner # s.uid
NeedsUpdateOfSpec(s, d) == d.image # s.spec.image \/ d.replicas # s.spec.replicas

\* deploymentNeedsUpdate, adoption of an orphan included.
DeploymentNeedsUpdate(s, d) ==
    \/ d.image # s.spec.image
    \/ d.replicas # s.spec.replicas
    \/ d.owner # s.uid

\* Update bumps the Deployment's generation if it changes the spec (adoption does
\* not); its status stays as it was.
UpdatedDeployment(s, d) ==
    [DesiredDeployment(s) EXCEPT
        !.phase = IF /\ d.phase = "current"
                     /\ <<d.image, d.replicas>> # <<s.spec.image, s.spec.replicas>>
                  THEN "stale" ELSE d.phase,
        !.ready = d.ready]

Deployed(d) ==
    /\ pc' = "resources"
    /\ draft' = [draft EXCEPT !.available = DeploymentAvailability(d)]
    /\ UNCHANGED <<snap, hash, result>>

ReconcileDeployment ==
    /\ pc = "deployment"
    /\ \/ \* another owner holds the name
          /\ foreign = "Deployment" /\ Calm
          /\ Fail("True", "WorkloadUnavailable", "done")
          /\ UNCHANGED <<deploy, cdeploy, queueVars>>
       \/ \* an API call fails
          /\ Disturb
          /\ Fail("True", "WorkloadUnavailable", "error")
          /\ UNCHANGED <<deploy, cdeploy, queueVars>>
       \/ \* the cache has none: create, AlreadyExists when the cache is behind
          /\ foreign # "Deployment" /\ cdeploy.phase = "absent" /\ Calm
          /\ IF deploy.phase = "absent"
             THEN /\ deploy' = DesiredDeployment(snap)
                  /\ Deployed(DesiredDeployment(snap))
             ELSE /\ Fail("True", "WorkloadUnavailable", "error")
                  /\ UNCHANGED deploy
          /\ UNCHANGED <<cdeploy, queueVars>>
       \/ \* up to date
          /\ foreign # "Deployment" /\ cdeploy.phase # "absent" /\ Calm
          /\ ~DeploymentNeedsUpdate(snap, cdeploy)
          /\ Deployed(cdeploy)
          /\ UNCHANGED <<deploy, cdeploy, queueVars>>
       \/ \* update; the read that follows it may still return the old object
          /\ foreign # "Deployment" /\ cdeploy.phase # "absent" /\ Calm
          /\ DeploymentNeedsUpdate(snap, cdeploy) /\ deploy = cdeploy
          /\ deploy' = UpdatedDeployment(snap, cdeploy)
          /\ \E synced \in BOOLEAN :
                /\ cdeploy' = IF synced THEN deploy' ELSE cdeploy
                /\ queued' = (queued \/ synced)
                /\ Deployed(cdeploy')
          /\ UNCHANGED timer
       \/ \* the update goes through and the read that follows it fails
          /\ foreign # "Deployment" /\ cdeploy.phase # "absent" /\ Disturb
          /\ DeploymentNeedsUpdate(snap, cdeploy) /\ deploy = cdeploy
          /\ deploy' = UpdatedDeployment(snap, cdeploy)
          /\ Fail("True", "WorkloadUnavailable", "error")
          /\ UNCHANGED <<cdeploy, queueVars>>
       \/ \* the object to update is gone, or newer than the cache's: a conflict
          \* is retried later with no change of the status
          /\ foreign # "Deployment" /\ cdeploy.phase # "absent" /\ Calm
          /\ DeploymentNeedsUpdate(snap, cdeploy) /\ deploy # cdeploy
          /\ IF deploy.phase = "absent"
             THEN /\ Fail("True", "WorkloadUnavailable", "error")
                  /\ UNCHANGED queueVars
             ELSE Finish("later")
          /\ UNCHANGED <<deploy, cdeploy>>
    /\ UNCHANGED <<server, lastUid, binding, foreign, envVars, cache, cbinding,
                   memoryVars, dialled>>

\* reconcileServiceOrBYO and ensureNetworkPolicy, in that order.
ReconcileResources ==
    /\ pc = "resources"
    /\ \/ /\ foreign \notin {"Service", "NetworkPolicy"} /\ Calm
          /\ Proceed("binding")
       \/ /\ Calm
          /\ \/ foreign = "Service" /\ Fail("True", "ServiceUnavailable", "done")
             \/ /\ foreign = "NetworkPolicy"
                /\ Fail("True", "NetworkPolicyUnavailable", "done")
          /\ UNCHANGED queueVars
       \/ /\ Disturb
          /\ \/ Fail("True", "ServiceUnavailable", "error")
             \/ foreign # "Service" /\ Fail("True", "NetworkPolicyUnavailable", "error")
          /\ UNCHANGED queueVars
       \/ Disturb /\ Finish("later") \* an update conflict
    /\ UNCHANGED <<apiVars, envVars, cacheVars, memoryVars, dialled>>

\* The CA bundle hash is only computed for a server with TLS settings.
AfterBinding == IF snap.spec.tls THEN "hash" ELSE "handshake"

\* The binding the cache shows cannot be deleted twice: the second Delete
\* returns NotFound, which is an error like any other here.
DeleteBinding ==
    IF binding.gateway # None
    THEN /\ binding' = NoBinding
         /\ Proceed(AfterBinding)
    ELSE /\ Fail("True", "GatewayNotRegistered", "error")
         /\ UNCHANGED <<binding, queueVars>>

ReconcileGatewayBinding ==
    /\ pc = "binding"
    /\ \/ /\ foreign = "MCPGatewayBinding" /\ Calm
          /\ Fail("True", "GatewayNotRegistered", "done")
          /\ UNCHANGED <<binding, queueVars>>
       \/ /\ Disturb
          /\ Fail("True", "GatewayNotRegistered", "error")
          /\ UNCHANGED <<binding, queueVars>>
       \/ \* nothing to do
          /\ foreign # "MCPGatewayBinding" /\ Calm
          /\ cbinding.gateway = snap.spec.gateway
          /\ Proceed(AfterBinding)
          /\ UNCHANGED binding
       \/ \* the gateway was removed, or its provider changed
          /\ foreign # "MCPGatewayBinding" /\ Calm
          /\ cbinding.gateway # None
          /\ \/ snap.spec.gateway = None
             \/ /\ snap.spec.gateway # None
                /\ ProviderOf[cbinding.gateway] # ProviderOf[snap.spec.gateway]
          /\ DeleteBinding
       \/ \* create
          /\ foreign # "MCPGatewayBinding" /\ Calm
          /\ cbinding.gateway = None /\ snap.spec.gateway # None
          /\ IF binding.gateway = None
             THEN /\ binding' = [NoBinding EXCEPT !.owner = snap.uid, !.gen = 1,
                                                   !.gateway = snap.spec.gateway]
                  /\ Proceed(AfterBinding)
             ELSE /\ Fail("True", "GatewayNotRegistered", "error")
                  /\ UNCHANGED <<binding, queueVars>>
       \/ \* same provider, another configRef: update
          /\ foreign # "MCPGatewayBinding" /\ Calm
          /\ cbinding.gateway # None /\ snap.spec.gateway # None
          /\ cbinding.gateway # snap.spec.gateway
          /\ ProviderOf[cbinding.gateway] = ProviderOf[snap.spec.gateway]
          /\ \/ /\ binding = cbinding
                /\ binding' = [binding EXCEPT !.gateway = snap.spec.gateway,
                                              !.gen = @ + 1]
                /\ Proceed(AfterBinding)
             \/ /\ binding # cbinding /\ binding.gateway # None
                /\ Finish("later")
                /\ UNCHANGED binding
             \/ /\ binding # cbinding /\ binding.gateway = None
                /\ Fail("True", "GatewayNotRegistered", "error")
                /\ UNCHANGED <<binding, queueVars>>
    /\ UNCHANGED <<server, lastUid, deploy, foreign, envVars, cacheVars, memoryVars,
                   dialled>>

\* computeTLSCABundleHash: the empty hash when the read fails.
ComputeCABundleHash ==
    /\ pc = "hash"
    /\ pc' = "handshake"
    /\ \/ hash' = ca /\ Calm
       \/ hash' = None /\ Disturb
    /\ UNCHANGED <<apiVars, envVars, cacheVars, queueVars, snap, draft, result,
                   memoryVars, dialled>>

\* Variant: the generation of the earlier verdict is not compared.
VerifiedAtSomeGeneration(s, previousHash, h) ==
    /\ s.status.verified \in VerifiedTrue
    /\ s.status.serverInfo
    /\ previousHash = h

\* The endpoint was verified by an earlier reconcile of this generation, and
\* the CA bundle is the one recorded then.
AlreadyVerified(s, previousHash, h) ==
    /\ s.status.verified \in VerifiedTrue
    /\ s.status.observedGeneration = s.gen
    /\ s.status.serverInfo
    /\ previousHash = h

\* reconcileHandshakeEventsAndRetryCount after a failed handshake.  The count
\* stops at MaxRetries, beyond which the code tells no two values apart.
NextRetries(prev, gen) ==
    LET count == IF prev.gen = gen THEN prev.count ELSE 0
    IN  [gen |-> gen, count |-> IF count < MaxRetries THEN count + 1 ELSE count]

Verdict(verified, exhausted, serverInfo) ==
    draft' = [draft EXCEPT !.verified = verified, !.exhausted = exhausted,
                           !.serverInfo = serverInfo]

Answer(e) ==
    CASE e = "up" -> "Verified" [] e = "auth" -> "AuthSkipped"
      [] OTHER -> "EndpointUnavailable"

\* reconcileHandshake and the retry count.
Handshake ==
    /\ pc = "handshake"
    /\ pc' = "gateway"
    /\ \/ /\ draft.available # "Available" /\ Calm
          /\ Verdict("NotVerified", FALSE, FALSE)
          /\ retries' = NoRetries
          /\ UNCHANGED dialled
       \/ /\ draft.available = "Available" /\ AlreadyVerified(snap, caHash, hash) /\ Calm
          /\ Verdict(snap.status.verified, FALSE, TRUE)
          /\ retries' = NoRetries
          /\ UNCHANGED dialled
       \/ /\ draft.available = "Available" /\ ~AlreadyVerified(snap, caHash, hash)
          /\ \E e \in {endpoint, "down"} :
                /\ IF e = endpoint THEN Calm ELSE Disturb
                /\ IF e = "down"
                   THEN /\ retries' = NextRetries(retries, snap.gen)
                        /\ Verdict(Answer(e), retries'.count >= MaxRetries, FALSE)
                        /\ UNCHANGED dialled
                   ELSE /\ retries' = NoRetries
                        /\ Verdict(Answer(e), FALSE, TRUE)
                        /\ dialled' = dialled \cup {<<snap.uid, snap.gen, ca>>}
    /\ UNCHANGED <<apiVars, envVars, cacheVars, queueVars, snap, hash, result, caHash>>

\* Variant: a registration of an older binding generation counts.
StaleGatewayCondition(gateway, b) ==
    CASE gateway = None -> "none"
      [] gateway # None /\ b.gateway = None -> "GatewayBindingNotFound"
      [] gateway # None /\ b.gateway # None /\ b.registered = 0 -> "GatewayNotRegistered"
      [] OTHER -> "GatewayRegistered"

\* reconcileGatewayCondition as seen in the cached binding b.
GatewayCondition(gateway, b) ==
    CASE gateway = None -> "none"
      [] gateway # None /\ b.gateway = None -> "GatewayBindingNotFound"
      [] gateway # None /\ b.gateway # None /\ b.registered < b.gen ->
            "GatewayNotRegistered"
      [] OTHER -> "GatewayRegistered"

\* reconcileGatewayCondition, applyGatewayStatus and the rest of the status.
ReconcileGatewayCondition ==
    /\ pc = "gateway"
    /\ pc' = "apply"
    /\ \E failed \in {FALSE, snap.spec.gateway # None} :
          LET b == IF failed THEN NoBinding ELSE cbinding
              condition == IF failed THEN "GatewayNotRegistered"
                           ELSE GatewayCondition(snap.spec.gateway, b)
              url == IF condition = "GatewayRegistered" THEN b.url ELSE None
          IN  /\ IF failed THEN Disturb ELSE Calm
              /\ result' = IF failed THEN "endpointError" ELSE "endpoint"
              /\ draft' = [draft EXCEPT
                    !.available = GatewayAvailability(@, condition),
                    !.gateway = condition,
                    !.binding = IF snap.spec.gateway # None /\ b.gateway # None
                                THEN ProviderOf[b.gateway] ELSE None,
                    !.address = PublishedAddress(draft.verified, url)]
    /\ UNCHANGED <<apiVars, envVars, cacheVars, queueVars, snap, hash, memoryVars,
                   dialled>>

\* Variant: the hash recorded first is kept.
FirstCAHash(old, h, verified) ==
    CASE h = None -> None
      [] h # None /\ verified \in VerifiedTrue /\ old = None -> h
      [] OTHER -> old

\* updateTLSCABundleHash.
UpdatedCAHash(old, h, verified) ==
    CASE h = None -> None
      [] h # None /\ verified \in VerifiedTrue -> h
      [] OTHER -> old

\* Variants: the last retry is not made; the retries have no limit; the error of
\* the gateway lookup is dropped.
OutcomeOneRetryShort ==
    IF result \in {"done", "error"} THEN result
    ELSE IF draft.verified = "EndpointUnavailable"
         THEN IF retries.count + 1 >= MaxRetries THEN "done" ELSE "later"
         ELSE IF result = "endpointError" THEN "error" ELSE "done"
OutcomeUnlimited ==
    IF result \in {"done", "error"} THEN result
    ELSE IF draft.verified = "EndpointUnavailable" THEN "later"
         ELSE IF result = "endpointError" THEN "error" ELSE "done"
OutcomeWithoutGateway ==
    IF result \in {"done", "error"} THEN result
    ELSE IF draft.verified = "EndpointUnavailable" /\ retries.count < MaxRetries
         THEN "later" ELSE "done"

\* What a reconcile returns once its status is applied: handshakeRequeue, then
\* the error of the gateway lookup; on a failure path, the error of the step.
Outcome ==
    IF result \in {"done", "error"} THEN result
    ELSE IF draft.verified = "EndpointUnavailable"
         THEN IF retries.count >= MaxRetries THEN "done" ELSE "later"
         ELSE IF result = "endpointError" THEN "error" ELSE "done"

\* Server-side apply of the status, by name, with ForceOwnership: it replaces
\* everything the operator owns of the status, whatever the resourceVersion,
\* the generation or the uid of the object is by now.
ApplyStatus ==
    /\ pc = "apply"
    /\ \/ /\ server.uid # 0 /\ Calm
          /\ server' = [server EXCEPT !.status = draft]
          /\ caHash' = IF result \in {"endpoint", "endpointError"}
                       THEN UpdatedCAHash(caHash, hash, draft.verified)
                       ELSE caHash
          /\ Finish(Outcome)
       \/ /\ IF server.uid = 0 THEN Calm ELSE Disturb
          /\ Finish("error")
          /\ UNCHANGED <<server, caHash>>
    /\ UNCHANGED <<lastUid, deploy, binding, foreign, envVars, cacheVars, retries,
                   dialled>>

-----------------------------------------------------------------------------

Environment ==
    \/ EditSpec \/ BeginDeletion \/ DeleteServer \/ RecreateServer \/ CollectGarbage
    \/ ObserveDeployment \/ DeploymentReady \/ DeploymentUnready
    \/ RegisterBinding \/ UnregisterBinding
    \/ EndpointChanges \/ ReferencedResourceChanges \/ UnrelatedEvent

Informers == SyncServer \/ SyncOwned

Reconcile ==
    \/ FetchNotFound \/ FetchSkipped \/ Fetch
    \/ ReconcileDeployment \/ ReconcileResources \/ ReconcileGatewayBinding
    \/ ComputeCABundleHash \/ Handshake \/ ReconcileGatewayCondition
    \/ ApplyStatus

Next ==
    \/ Environment
    \/ Informers
    \/ TimerFires
    \/ Reconcile
    \/ RestartOperator

Spec == Init /\ [][Next]_vars

\* The operator's own scheduling: the informers deliver, the timers fire, the
\* worker takes what is queued and every reconcile comes to its end.
FairSpec ==
    /\ Spec
    /\ WF_vars(SyncServer) /\ WF_vars(SyncOwned)
    /\ WF_vars(TimerFires) /\ WF_vars(Reconcile)

-----------------------------------------------------------------------------
(* Properties.                                                             *)

APITypeOK ==
    /\ server \in Servers /\ lastUid \in Nat
    /\ deploy \in Deployments /\ binding \in Bindings
    /\ foreign \in Foreign

EnvTypeOK == ca \in CABundles /\ refs \in {"present", "missing"} /\ endpoint \in Endpoints

CacheTypeOK == cache \in Servers /\ cdeploy \in Deployments /\ cbinding \in Bindings

QueueTypeOK == queued \in BOOLEAN /\ timer \in BOOLEAN

WorkTypeOK ==
    /\ pc \in {"idle", "deployment", "resources", "binding", "hash", "handshake",
               "gateway", "apply"}
    /\ snap \in Servers
    /\ draft \in Status
    /\ hash \in CABundles \cup {None}
    /\ result \in {"done", "error", "endpoint", "endpointError"}

MemoryTypeOK ==
    /\ retries \in [gen : Nat, count : 0..MaxRetries]
    /\ caHash \in CABundles \cup {None}

\* Every variable has its type; in particular the retry count stays within its
\* limit across generations.
TypeOK ==
    /\ APITypeOK /\ EnvTypeOK /\ CacheTypeOK /\ QueueTypeOK /\ WorkTypeOK /\ MemoryTypeOK
    /\ disturbances \in 0..MaxDisturbances
    /\ dialled \subseteq Nat \X Nat \X CABundles

\* An address is published (status.address) only with Verified=True and the
\* serverInfo of the handshake behind it: whichever path wrote the status last,
\* an endpoint whose handshake did not pass leaks no address.
AddressOnlyWhenVerified ==
    server.status.address # None =>
        /\ server.status.verified \in VerifiedTrue
        /\ server.status.serverInfo

\* Verified=True in a status with observedGeneration g means that a handshake
\* with an MCPServer of this name passed at generation g: the already-verified
\* shortcut of reconcileHandshake never carries a verdict across a spec change,
\* however stale the status it reads is.
VerifiedBackedByHandshake ==
    server.status.verified \in VerifiedTrue =>
        \E u \in 1..lastUid, c \in CABundles :
            <<u, server.status.observedGeneration, c>> \in dialled

\* The strengthening of the two invariants above that every step preserves.  A
\* verdict travels from a status through the cache and the snapshot of the
\* reconcile into the draft and back into a status, so each of these copies
\* must be backed; the draft belongs to the generation of the snapshot and
\* holds no address before the handshake is decided.
Backed(status) ==
    status.verified \in VerifiedTrue =>
        \E u \in 1..lastUid, c \in CABundles : <<u, status.observedGeneration, c>> \in dialled

Shown(status) ==
    status.address # None => status.verified \in VerifiedTrue /\ status.serverInfo

UidsKnown ==
    /\ server.uid <= lastUid /\ cache.uid <= lastUid /\ snap.uid <= lastUid
    /\ pc # "idle" => snap.uid >= 1

DraftInv ==
    /\ Backed(draft) /\ Shown(draft)
    /\ draft.verified \in VerifiedTrue => draft.serverInfo
    /\ pc # "idle" => draft.observedGeneration = snap.gen
    /\ pc \notin {"idle", "apply"} => draft.address = None

VerificationInv ==
    /\ UidsKnown
    /\ Backed(server.status) /\ Shown(server.status)
    /\ Backed(cache.status) /\ Backed(snap.status)
    /\ DraftInv

\* Nothing is pending: no reconcile runs, is queued or scheduled, and the
\* informers have delivered everything (a status update they still hold back
\* would enqueue nothing).
AtRest ==
    /\ pc = "idle" /\ ~queued /\ ~timer
    /\ cdeploy = deploy /\ cbinding = binding
    /\ [cache EXCEPT !.status = server.status] = server

Live == server.uid # 0 /\ ~server.deleting

Unobstructed == Live /\ refs = "present" /\ foreign = "nothing"

\* The Available reason that the state of the cluster calls for.
ExpectedAvailable ==
    CASE refs = "missing" -> "ConfigurationInvalid"
      [] refs = "present" /\ foreign = "Deployment" -> "WorkloadUnavailable"
      [] refs = "present" /\ foreign = "Service" -> "ServiceUnavailable"
      [] refs = "present" /\ foreign = "NetworkPolicy" -> "NetworkPolicyUnavailable"
      [] refs = "present" /\ foreign = "MCPGatewayBinding" -> "GatewayNotRegistered"
      [] OTHER -> GatewayAvailability(DeploymentAvailability(deploy),
                                      GatewayCondition(server.spec.gateway, binding))

\* No update is lost: when nothing is pending, the status is of the latest
\* generation and Available is what the cluster's state calls for.  This is
\* the level-triggered contract of Reconcile: every early return that leaves
\* the status behind (a conflict, a transient error, a failed apply, a crash)
\* leaves an event, a requeue or a timer behind as well.
RestingStatusIsCurrent ==
    AtRest /\ Live =>
        /\ server.status.observedGeneration = server.gen
        /\ server.status.available = ExpectedAvailable

\* When nothing is pending the Deployment is the one the spec asks for, and
\* belongs to this incarnation of the MCPServer.
RestingDeploymentIsCurrent ==
    AtRest /\ Unobstructed =>
        /\ deploy.phase # "absent"
        /\ deploy.owner = server.uid
        /\ deploy.image = server.spec.image /\ deploy.replicas = server.spec.replicas

\* When nothing is pending and the workload is available, the handshake has
\* been decided: it passed, or it failed and the status says that the retries
\* are exhausted.  A failing handshake never just stops being retried.
RestingHandshakeIsDecided ==
    AtRest /\ Unobstructed /\ DeploymentAvailability(deploy) = "Available" =>
        \/ server.status.verified \in VerifiedTrue
        \/ server.status.verified = "EndpointUnavailable" /\ server.status.exhausted

\* When nothing is pending, the binding is the one spec.gateway asks for (none
\* when it is unset), GatewayRegistered is True exactly when the provider has
\* registered this very binding, and the address of a verified server is the
\* gateway's if it gave one.
RestingGatewayIsCurrent ==
    AtRest /\ Unobstructed =>
        LET status == server.status
            registered == server.spec.gateway # None /\ binding.registered = binding.gen
        IN
        /\ binding.gateway = server.spec.gateway
        /\ status.gateway = "none" <=> server.spec.gateway = None
        /\ status.gateway = "GatewayRegistered" <=> registered
        /\ status.binding =
              IF server.spec.gateway = None THEN None ELSE ProviderOf[server.spec.gateway]
        /\ status.verified \in VerifiedTrue =>
              status.address = IF registered /\ binding.url # None
                               THEN binding.url ELSE "internal"

\* When nothing is pending, a CA bundle hash kept in memory for a verified
\* server is that of the Secret's content: a change of the bundle, which bumps
\* no generation, has led to another handshake.
RestingCAHashIsCurrent ==
    AtRest /\ Unobstructed /\ server.status.verified \in VerifiedTrue =>
        caHash \in IF server.spec.tls THEN {ca, None} ELSE {None}

\* The first incarnation's observedGeneration never goes backwards: the
\* informer cache is ordered and one worker at a time writes the status.
ObservedGenerationMonotone ==
    [][lastUid = 1 /\ server'.uid = 1 =>
          server'.status.observedGeneration >= server.status.observedGeneration]_server

\* The controller comes to rest once the environment leaves it alone: no
\* error, conflict, missing binding or failing handshake is retried for ever.
ComesToRest == <>[]AtRest
=============================================================================
