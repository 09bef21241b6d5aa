------------------------------ MODULE Workload ------------------------------
(***************************************************************************)
(* Accepted and Available of one MCPServer: the references of its spec,    *)
(* the workload (the operator's Deployment, or a Deployment, DaemonSet or  *)
(* StatefulSet the user brings), its pods, and the events that make the    *)
(* controller look again.                                                  *)
(*                                                                         *)
(* A reconcile is cut at its reads and writes:                             *)
(*                                                                         *)
(*   Fetch -> Resolve -> Validate -> Deployment -> Observe -> Service      *)
(*         -> Apply                                                        *)
(*                                                                         *)
(* r.APIReader reads the API server (objects, workload); r.Get and r.List  *)
(* read informers that lag it (cserver, cdeploy, cpods).  The endpoint     *)
(* and its handshake, the gateway and NetworkPolicy steps, and the         *)
(* ownership of what the operator manages have modules of their own.       *)
(***************************************************************************)
EXTENDS Validation

CONSTANTS
    Pods,
    Objects,       \* ConfigMaps, Secrets and the Service of the user
    Worlds         \* initial states, what may change in them, and how often

INSTANCE WorkloadStatus

ManagedLabels == "managed"

TheWorkload == <<"Workload", "">>

IsManaged(s) == s.workloadRef = None

\* What a workload is: a status that its controller writes as a whole, about a
\* generation that there has been.
IsWorkload(w) ==
    /\ w \in [kind : {"Deployment", "DaemonSet", "StatefulSet"}, hash : {w.hash},
              selector : [labels : {w.selector.labels}, expressions : {w.selector.expressions}],
              generation : Nat \ {0}, replicas : Nat, observed : Nat,
              conditions : {w.conditions}, ready : Nat, available : Nat]
    /\ w.observed <= w.generation
    /\ w.observed = 0 => w.conditions = None

\* The Deployment of a server without a workloadRef is the operator's.
IsOperators(w) ==
    w.kind = "Deployment" /\ w.selector = [labels |-> ManagedLabels, expressions |-> None]

\* The objects whose names the checks read.
Read(spec) == {o \in IndexedObjects(spec) : o[2] # ""} \cup EnvReferences(spec)

ASSUME ObjectsAssumption ==
    /\ None \notin Objects /\ TheWorkload \notin Objects /\ None # TheWorkload
    /\ \A D \in SUBSET Objects : None \notin [D -> STRING]

ASSUME WorldsAssumption == \A w \in Worlds :
    /\ \A s \in w.choices.specs : IsSpec(s) /\ Read(s) \subseteq Objects
    /\ \A s \in w.choices.specs : IsManaged(s) => w.workload = None \/ IsOperators(w.workload)
    /\ w.workload # None => IsWorkload(w.workload)
    /\ \A d \in w.choices.workloads : d # None /\ IsWorkload(d)
    /\ \A r \in w.choices.reports : r.ready \in Nat /\ r.available \in Nat
    /\ \A p \in w.choices.pods : Fails(p) => Signature(FirstFailure(p)) # None
    /\ w.objects \in [Objects -> STRING]
    /\ w.choices.objects \subseteq Objects \X STRING

VARIABLES
    world,         \* the sets the user and the cluster choose from
    budget,        \* bounds: edits, objects, workloads, reports, pods, faults
    server,        \* the MCPServer: generation and spec
    status,        \* its status: Accepted, Available and their generation
    objects,       \* the content of each object, or "NotFound"
    workload,      \* the workload, or None
    pods,          \* the pods of the workload, None where there is none
    service,       \* labels selected by the operator's Service, None without it
    cserver, cdeploy, cpods,
    changed,       \* objects, and the workload, with an event still to be delivered
    queued,        \* the MCPServer is in the workqueue, or will be added to it
    pc, work       \* the next step of the running reconcile, and its locals

clusterVars == <<server, objects, workload, pods>>
cacheVars == <<cserver, cdeploy, cpods, changed>>
vars == <<world, budget, clusterVars, status, service, cacheVars, queued, pc, work>>

NoWork == [server |-> None, workload |-> None, hash |-> None, draft |-> None, again |-> FALSE]

Verdict(accepted, available, generation) ==
    [accepted |-> accepted, available |-> available, generation |-> generation]

\* CacheOptions: the informer keeps pods with the operator's label only.
Visible(pod) == IF pod # None /\ pod.labelled THEN pod ELSE None

Init ==
    /\ \E w \in Worlds :
          /\ world = w.choices /\ budget = w.budget
          /\ \E s \in w.choices.specs : server = [generation |-> 1, spec |-> s]
          /\ objects = w.objects
          /\ workload = w.workload
    /\ pods = [p \in Pods |-> None] /\ cpods = pods
    /\ status = Verdict("none", Condition("none", <<"none">>), 0)
    /\ service = None
    /\ cserver = server /\ cdeploy = workload
    /\ changed = {} /\ queued = TRUE
    /\ pc = "idle" /\ work = NoWork

Spend(what) == budget[what] > 0 /\ budget' = [budget EXCEPT ![what] = @ - 1]

-----------------------------------------------------------------------------
(* The user and the cluster. *)

\* A workloadRef is neither added nor removed.
EditSpec ==
    /\ Spend("edits")
    /\ \E s \in world.specs :
          /\ s # server.spec /\ IsManaged(s) = IsManaged(server.spec)
          /\ server' = [generation |-> server.generation + 1, spec |-> s]
    /\ UNCHANGED <<world, objects, workload, pods, status, service, cacheVars, queued, pc, work>>

ChangeObject ==
    /\ Spend("objects")
    /\ \E change \in world.objects :
          /\ objects[change[1]] # change[2]
          /\ objects' = [objects EXCEPT ![change[1]] = change[2]]
          /\ changed' = changed \cup {change[1]}
    /\ UNCHANGED <<world, server, workload, pods, status, service, cserver, cdeploy, cpods,
                   queued, pc, work>>

\* The workload is deleted, created, or scaled by the user.
ChangeWorkload ==
    /\ Spend("workloads")
    /\ \/ workload = None /\ ~IsManaged(server.spec) /\ workload' \in world.workloads
       \/ workload # None /\ workload' = None
       \/ /\ workload # None /\ ~IsManaged(server.spec)
          /\ \E n \in 0..2 \ {workload.replicas} :
                workload' = [workload EXCEPT !.generation = @ + 1, !.replicas = n]
    /\ changed' = changed \cup {TheWorkload}
    /\ UNCHANGED <<world, server, objects, pods, status, service, cserver, cdeploy, cpods,
                   queued, pc, work>>

\* The workload's own controller reports on the latest generation.
ReportWorkload ==
    /\ Spend("reports")
    /\ workload # None
    /\ \E r \in world.reports :
          workload' = [workload EXCEPT !.observed = workload.generation,
                                       !.conditions = r.conditions,
                                       !.ready = r.ready, !.available = r.available]
    /\ workload' # workload
    /\ changed' = changed \cup {TheWorkload}
    /\ UNCHANGED <<world, server, objects, pods, status, service, cserver, cdeploy, cpods,
                   queued, pc, work>>

ChangePod ==
    /\ Spend("pods")
    /\ workload # None
    /\ \E p \in Pods, q \in world.pods \cup {None} :
          pods[p] # q /\ pods' = [pods EXCEPT ![p] = q]
    /\ UNCHANGED <<world, server, objects, workload, status, service, cacheVars, queued, pc, work>>

-----------------------------------------------------------------------------
(* Informers and watches. *)

\* For(MCPServer): only the spec changes here, and with it the generation.
SyncServer ==
    /\ cserver # server
    /\ cserver' = server
    /\ queued' = TRUE
    /\ UNCHANGED <<world, budget, clusterVars, status, service, cdeploy, cpods, changed, pc, work>>

\* Owns(Deployment), or the metadata watch that findMCPServersForWorkload maps
\* by the workload's name.
SyncWorkload ==
    /\ TheWorkload \in changed
    /\ cdeploy' = workload
    /\ changed' = changed \ {TheWorkload}
    /\ queued' = TRUE
    /\ UNCHANGED <<world, budget, clusterVars, status, service, cserver, cpods, pc, work>>

\* findMCPServersForResource: by the index of the MCPServers in the cache.
DeliverObject(o) ==
    /\ o \in changed
    /\ changed' = changed \ {o}
    /\ queued' = (queued \/ o \in IndexedObjects(cserver.spec))
    /\ UNCHANGED <<world, budget, clusterVars, status, service, cserver, cdeploy, cpods, pc, work>>

\* findMCPServersForPod, behind the predicate.
SyncPod(p) ==
    /\ cpods[p] # Visible(pods[p])
    /\ cpods' = [cpods EXCEPT ![p] = Visible(pods[p])]
    /\ \E missed \in BOOLEAN :
          queued' = (queued \/ PodDiagnosticsChanged(cpods[p], Visible(pods[p]), missed))
    /\ UNCHANGED <<world, budget, clusterVars, status, service, cserver, cdeploy, changed, pc, work>>

\* A new process lists everything before its workers start.
Restart ==
    /\ Spend("faults")
    /\ cserver' = server /\ cdeploy' = workload
    /\ cpods' = [p \in Pods |-> Visible(pods[p])]
    /\ changed' = {} /\ queued' = TRUE
    /\ pc' = "idle" /\ work' = NoWork
    /\ UNCHANGED <<world, clusterVars, status, service>>

-----------------------------------------------------------------------------
(* The reconcile. *)

Step(from) == pc = from /\ UNCHANGED <<world, cserver, cdeploy, cpods, server, objects, pods>>
NoWrite == UNCHANGED <<workload, changed>>
Write(w) == workload' = w /\ changed' = changed \cup {TheWorkload}

Finish(again) ==
    /\ pc' = "idle" /\ work' = NoWork
    /\ queued' = (queued \/ again)

Goto(next) == pc' = next /\ UNCHANGED queued

\* The status to write, and whether an error is returned after it is written.
Draft(accepted, available, again) ==
    /\ Goto("apply")
    /\ work' = [work EXCEPT !.draft = Verdict(accepted, available, work.server.generation),
                            !.again = again]

\* reconcilePermanentValidationError: reported, and not retried.
Reject == Draft("False", Condition("ConfigurationInvalid", <<"none">>), FALSE)

\* The answers of the API server while one kind of read fails, or none does.
Answers(failing) == [o \in Objects |-> IF o = failing THEN "error" ELSE objects[o]]

\* The read that fails, if one does.
Failing == Objects \cup {TheWorkload, None}

\* What becomes of a reconcile whose checks have an outcome for each such failure.
Validated(outcome, next, held) ==
    \E f \in Failing :
        /\ IF f = None THEN UNCHANGED budget ELSE Spend("faults") /\ outcome[f] = "transient"
        /\ \/ /\ outcome[f] = "ok"
              /\ Goto(next)
              /\ work' = [work EXCEPT !.workload = held]
           \/ outcome[f] = "Invalid" /\ Reject
           \/ outcome[f] = "transient" /\ Finish(TRUE)

Fetch ==
    /\ Step("idle") /\ queued
    /\ queued' = FALSE
    /\ pc' = "resolve"
    /\ work' = [NoWork EXCEPT !.server = cserver]
    /\ UNCHANGED <<budget, workload, changed, status, service>>

\* validateWorkloadRef and validateServiceRef; the workload read is kept.
Resolve ==
    LET spec == work.server.spec
        checked == [f \in Failing |->
            FirstFailed(<<IF IsManaged(spec) THEN "ok"
                          ELSE ValidateWorkloadRef(spec, workload, f = TheWorkload),
                          ValidateServiceRef(spec, Answers(f))>>)]
    IN /\ Step("resolve")
       /\ Validated(checked, "validate", IF IsManaged(spec) THEN None ELSE workload)
       /\ UNCHANGED <<workload, changed, status, service>>

ValidateRest ==
    LET spec == work.server.spec
        checked == [f \in Failing |-> ValidateConfig(spec, Answers(f))]
    IN /\ Step("validate")
       /\ Validated(checked, IF IsManaged(spec) THEN "hash" ELSE "observe", work.workload)
       /\ UNCHANGED <<workload, changed, status, service>>

\* handleDeploymentReconcileError
DeploymentFails == Draft("True", Unavailable(<<"deployment">>), TRUE)

ApplyConfigHash ==
    /\ Step("hash")
    /\ \/ /\ Goto("deployment")
          /\ work' = [work EXCEPT !.hash = ComputeConfigHash(work.server.spec, objects)]
          /\ UNCHANGED budget
       \/ /\ Spend("faults") /\ PodReferences(work.server.spec) # {}
          /\ DeploymentFails
    /\ UNCHANGED <<workload, changed, status, service>>

NewDeployment(hash) ==
    [kind |-> "Deployment", selector |-> [labels |-> ManagedLabels, expressions |-> None],
     hash |-> hash, generation |-> 1, replicas |-> 1, observed |-> 0, conditions |-> None,
     ready |-> 0, available |-> 0]

\* reconcileDeployment: what is created is used as it was sent; what is updated
\* is read back from the informer, which may not have it yet; a conflict is
\* tried again without a report.
ReconcileDeployment ==
    LET updated == [workload EXCEPT !.hash = work.hash, !.generation = @ + 1]
        differs == cdeploy # None /\ cdeploy.hash # work.hash
        Holding(w) == Goto("observe") /\ work' = [work EXCEPT !.workload = w]
    IN
    /\ Step("deployment")
    /\ \/ /\ cdeploy = None /\ workload = None
          /\ Write(NewDeployment(work.hash))
          /\ Holding(NewDeployment(work.hash))
          /\ UNCHANGED budget
       \/ /\ cdeploy # None /\ ~differs
          /\ Holding(cdeploy)
          /\ NoWrite /\ UNCHANGED budget
       \/ /\ differs /\ TheWorkload \notin changed
          /\ Write(updated)
          /\ Holding(cdeploy) \/ Holding(updated)
          /\ UNCHANGED budget
       \/ /\ differs /\ workload # None /\ TheWorkload \in changed
          /\ Finish(TRUE)
          /\ NoWrite /\ UNCHANGED budget
       \/ /\ IF cdeploy = None THEN workload # None ELSE differs /\ workload = None
          /\ DeploymentFails
          /\ NoWrite /\ UNCHANGED budget
       \/ Spend("faults") /\ DeploymentFails /\ NoWrite
    /\ UNCHANGED <<status, service>>

Observe ==
    /\ Step("observe")
    /\ \E c \in ObserveWorkload(work.workload, cpods) :
          work' = [work EXCEPT !.draft = Verdict("True", c, work.server.generation)]
    /\ Goto("service")
    /\ UNCHANGED <<budget, workload, changed, status, service>>

\* handleResourceFailure
ServiceFails == Draft("True", Condition("ServiceUnavailable", <<"none">>), TRUE)

\* reconcileServiceOrBYO: the operator's Service goes once the user's is there.
ReconcileService ==
    LET spec == work.server.spec IN
    /\ Step("service")
    /\ \/ /\ ~spec.serviceRef
          /\ service' = IF IsManaged(spec) THEN ManagedLabels ELSE work.workload.selector.labels
          /\ Goto("apply") /\ UNCHANGED <<budget, work>>
       \/ /\ spec.serviceRef /\ objects[ExternalService] # "NotFound"
          /\ service' = None
          /\ Goto("apply") /\ UNCHANGED <<budget, work>>
       \/ /\ spec.serviceRef /\ objects[ExternalService] = "NotFound"
          /\ ServiceFails
          /\ UNCHANGED <<budget, service>>
       \/ /\ Spend("faults")
          /\ ServiceFails
          /\ UNCHANGED service
    /\ UNCHANGED <<workload, changed, status>>

ApplyStatus ==
    /\ Step("apply")
    /\ \/ status' = work.draft /\ Finish(work.again) /\ UNCHANGED budget
       \/ Spend("faults") /\ Finish(TRUE) /\ UNCHANGED status
    /\ UNCHANGED <<workload, changed, service>>

Reconcile ==
    \/ Fetch \/ Resolve \/ ValidateRest \/ ApplyConfigHash \/ ReconcileDeployment
    \/ Observe \/ ReconcileService \/ ApplyStatus

Deliver ==
    \/ SyncServer \/ SyncWorkload
    \/ \E o \in Objects : DeliverObject(o)
    \/ \E p \in Pods : SyncPod(p)

Environment == EditSpec \/ ChangeObject \/ ChangeWorkload \/ ReportWorkload \/ ChangePod

Next == Reconcile \/ Deliver \/ Environment \/ Restart

\* Workers and informers do not stop; nothing else is promised.
Fairness ==
    /\ WF_vars(Reconcile)
    /\ WF_vars(SyncServer) /\ WF_vars(SyncWorkload)
    /\ \A o \in Objects : WF_vars(DeliverObject(o))
    /\ \A p \in Pods : WF_vars(SyncPod(p))

Spec == Init /\ [][Next]_vars /\ Fairness

-----------------------------------------------------------------------------
(* Properties. *)

\* Every variable has its type.
TypeOK ==
    /\ server.generation \in Nat \ {0} /\ server.spec \in world.specs
    /\ status.accepted \in {"none", "True", "False"}
    /\ DOMAIN objects = Objects /\ DOMAIN pods = Pods /\ DOMAIN cpods = Pods
    /\ changed \subseteq Objects \cup {TheWorkload} /\ queued \in BOOLEAN
    /\ pc \in {"idle", "resolve", "validate", "hash", "deployment", "observe", "service", "apply"}

\* Nothing is due: no event, no request, no reconcile.
Quiet ==
    /\ pc = "idle" /\ ~queued /\ changed = {}
    /\ cserver = server
    /\ \A p \in Pods : cpods[p] = Visible(pods[p])

\* Reference: every reference that is not optional can be followed.
There(object) == objects[object] \notin {"NotFound", "BadRequest"}

Mounted(spec) ==
    {<<m.type, m.ref.name>> : m \in {m \in Range(spec.storage) :
                                        m.type # "EmptyDir" /\ ~m.ref.optional}}
    \cup {ConfigMap(e.configMap.name) : e \in {e \in Range(spec.env) :
                                        e.configMap # None /\ ~e.configMap.optional}}
    \cup {Secret(e.secret.name) : e \in {e \in Range(spec.env) :
                                        e.secret # None /\ ~e.secret.optional}}

Followed(spec) ==
    /\ \A o \in Mounted(spec) : There(o)
    /\ spec.serviceRef => There(ExternalService)
    /\ (spec.tls # None /\ spec.tls.enabled /\ spec.tls.ca # None) =>
          There(Secret(spec.tls.ca)) /\ objects[Secret(spec.tls.ca)] \notin {"no key", "no PEM"}
    /\ ~IsManaged(spec) => workload # None /\ workload.kind = spec.workloadRef

\* Reference: nothing is wrong with the spec itself, or with the selector that
\* its Service would have.
WellFormed(spec) ==
    /\ \A m \in Range(spec.storage) : m.type # "EmptyDir" => m.ref.name # ""
    /\ spec.tls # None => ~(spec.tls.enabled /\ spec.tls.skip /\ spec.tls.ca # None)
    /\ ValidateNetwork(spec.network)
    /\ (~IsManaged(spec) /\ ~spec.serviceRef) =>
          workload.selector.labels # None /\ workload.selector.expressions = None

\* At rest, Accepted is about the current generation, and it is True if and only
\* if the spec is well formed and everything it refers to is there now
\* (classifyAPIError, which takes NotFound for permanent, and the watches of
\* ConfigMaps, Secrets, Services and workloads).
QuietAcceptedIsCurrent ==
    Quiet => /\ status.generation = server.generation
             /\ (status.accepted = "True") = (Followed(server.spec) /\ WellFormed(server.spec))

\* At rest, an accepted server is Available if and only if its workload has an
\* available instance of the current generation or is scaled to zero on purpose
\* (reconcileAvailableCondition, daemonSetAvailability, statefulSetAvailability).
QuietAvailabilityIsCurrent ==
    (Quiet /\ status.accepted = "True") =>
        /\ workload # None
        /\ (status.available.reason = "ScaledToZero") =
              (workload.replicas = 0 /\ workload.kind # "DaemonSet")
        /\ (status.available.reason = "Available") =
              /\ workload.replicas > 0
              /\ workload.observed = workload.generation
              /\ IF workload.kind # "Deployment" THEN workload.available > 0
                 ELSE workload.ready > 0 /\ workload.conditions # None
                      /\ workload.conditions.available

\* At rest, a message that names a pod names one that still fails that way (but
\* for the number of restarts), and without a ready instance the failure of a
\* pod that the informer sees is named (podDiagnosticsChangedPredicate,
\* Signature, getPodFailureMessage).  Left out is a Deployment that says it is
\* available and does not progress without a ready pod: the code gives it the
\* generic message.
QuietDiagnosisIsCurrent ==
    LET message == status.available.message
        c == workload.conditions
    IN (Quiet /\ status.accepted = "True") =>
        /\ message[1] = "pod" =>
              /\ pods[message[2]] # None /\ pods[message[2]].labelled
              /\ [FirstFailure(pods[message[2]]) EXCEPT !.restarts = 0]
                    = [message[3] EXCEPT !.restarts = 0]
        /\ (/\ workload.kind = "Deployment" /\ workload.replicas > 0
            /\ workload.observed = workload.generation
            /\ c # None /\ workload.ready = 0 /\ (c.progressing \/ ~c.available)
            /\ \E p \in Pods : Fails(Visible(pods[p]))) => message[1] = "pod"

\* At rest, the Service of an accepted server selects the pods of its workload,
\* all of them and no others (validateWorkloadRef, reconcileService).
QuietServiceSelectsWorkload ==
    (Quiet /\ status.accepted = "True") =>
        IF server.spec.serviceRef THEN service = None
        ELSE workload.selector = [labels |-> service, expressions |-> None]

\* At rest, the pod template of an accepted server with a managed Deployment
\* carries what its ConfigMaps and Secrets hold now, the optional ones
\* included (computeConfigHash, extractConfigMapNames, extractPodSecretNames).
QuietTemplateIsCurrent ==
    (Quiet /\ status.accepted = "True" /\ IsManaged(server.spec)) =>
        LET given == {o \in {<<m.type, m.ref.name>> :
                                 m \in {m \in Range(server.spec.storage) : m.type # "EmptyDir"}}
                            \cup EnvReferences(server.spec) : objects[o] # "NotFound"}
        IN IF given = {} THEN workload.hash = None
           ELSE /\ workload.hash # None
                /\ DOMAIN workload.hash = {o \in given : objects[o] # "empty"}
                /\ \A o \in DOMAIN workload.hash : workload.hash[o] = objects[o]

\* What Accepted lets through to the NetworkPolicy is meaningful: a range of
\* ports is not empty and within bounds, and only addresses of a block are
\* excepted from it (validateNetworkPolicyPort, validateNetworkPolicyPeer).
AcceptedNetworkIsMeaningful ==
    (work.draft # None /\ work.draft.accepted = "True" /\ work.server.spec.network # None) =>
        Meaningful(work.server.spec.network)

\* The controller comes to rest again and again: a configuration error is
\* reported once and not retried, and what is retried succeeds once the failures
\* end (ValidationError against other errors in Reconcile).
ComesToRest == []<>Quiet

=============================================================================
