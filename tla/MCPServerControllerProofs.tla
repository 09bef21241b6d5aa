---------------------- MODULE MCPServerControllerProofs ----------------------
(***************************************************************************)
(* Theorems about MCPServerController, for every value of its constants:   *)
(* its types, what a published Verified=True and a published address rest  *)
(* on, and that no update is lost.                                         *)
(***************************************************************************)
EXTENDS MCPServerController, TLAPS

\* A leaf is left to Zenon unless it names another prover.
USE ZenonT(60)

-----------------------------------------------------------------------------
(* Types.                                                                  *)

\* The objects that stand for "absent" are well typed.
LEMMA AbsentTypes ==
    /\ AnySpec \in Specs
    /\ NoStatus \in Status
    /\ NoServer \in Servers
    /\ NoDeployment \in Deployments
    /\ NoBinding \in Bindings
    /\ NoRetries \in [gen : Nat, count : 0..MaxRetries]
<1>1. AnySpec \in Specs
  BY ControllerAssumption DEF AnySpec
<1>2. NoStatus \in Status
  BY DEF NoStatus, Status, AvailableReasons, VerifiedReasons, GatewayReasons
<1>3. NoServer \in Servers
  BY <1>1, <1>2 DEF NoServer, Servers
<1>4. NoDeployment \in Deployments
  BY <1>1, ControllerAssumption DEF NoDeployment, Deployments
<1>5. NoBinding \in Bindings
  BY DEF NoBinding, Bindings
<1>6. NoRetries \in [gen : Nat, count : 0..MaxRetries]
  BY ControllerAssumption, SMTT(60) DEF NoRetries
<1> QED
  BY <1>1, <1>2, <1>3, <1>4, <1>5, <1>6

\* What a failing step writes is a status.
LEMMA FailureStatusType ==
    ASSUME NEW s \in Servers, NEW accepted \in {"True", "False"},
           NEW reason \in AvailableReasons
    PROVE  FailureStatus(s, accepted, reason) \in Status
<1>1. /\ s.gen \in Nat
      /\ s.status.gateway \in GatewayReasons
      /\ s.status.binding \in Providers \cup {None}
  BY DEF Servers, Status
<1>2. "NotVerified" \in VerifiedReasons
  BY DEF VerifiedReasons
<1> QED
  BY <1>1, <1>2 DEF FailureStatus, Status

\* The Available reason of a Deployment, and its override by the gateway.
LEMMA AvailabilityTypes ==
    /\ \A d \in Deployments : DeploymentAvailability(d) \in AvailableReasons
    /\ \A a \in AvailableReasons, g \in GatewayReasons :
          GatewayAvailability(a, g) \in AvailableReasons
BY DEF DeploymentAvailability, GatewayAvailability, AvailableReasons, AvailableTrue,
       AvailableFalse

\* The Deployments a reconcile writes are Deployments.
LEMMA DeploymentTypes ==
    ASSUME NEW s \in Servers, NEW d \in Deployments
    PROVE  /\ DesiredDeployment(s) \in Deployments
           /\ UpdatedDeployment(s, d) \in Deployments
<1>1. s.uid \in Nat /\ s.spec.image \in Images /\ s.spec.replicas \in {0, 1}
  BY ControllerAssumption DEF Servers
<1>2. DesiredDeployment(s) \in Deployments
  BY <1>1 DEF DesiredDeployment, Deployments
<1>3. UpdatedDeployment(s, d) \in Deployments
  BY <1>2 DEF UpdatedDeployment, DesiredDeployment, Deployments
<1> QED
  BY <1>2, <1>3

\* Updates of the fields of an object.
LEMMA ServerUpdates ==
    ASSUME NEW s \in Servers
    PROVE  /\ \A sp \in Specs, n \in Nat : [s EXCEPT !.spec = sp, !.gen = n] \in Servers
           /\ [s EXCEPT !.deleting = TRUE] \in Servers
           /\ \A st \in Status : [s EXCEPT !.status = st] \in Servers
BY DEF Servers

\* A new MCPServer is a Server.
LEMMA FirstServer ==
    ASSUME NEW sp \in Specs, NEW u \in Nat
    PROVE  [NoServer EXCEPT !.uid = u, !.gen = 1, !.spec = sp] \in Servers
BY AbsentTypes DEF Servers

\* What the Deployment controller does to a Deployment leaves it one.
LEMMA DeploymentUpdates ==
    ASSUME NEW d \in Deployments, NEW b \in BOOLEAN
    PROVE  /\ [d EXCEPT !.ready = b] \in Deployments
           /\ [d EXCEPT !.phase = "current", !.ready = b] \in Deployments
BY DEF Deployments

\* So do the provider and the reconcile to an MCPGatewayBinding.
LEMMA BindingUpdates ==
    ASSUME NEW b \in Bindings, NEW g \in Gateways \cup {None}, NEW u \in Urls \cup {None},
           NEW n \in Nat, NEW m \in Nat
    PROVE  /\ [b EXCEPT !.registered = n, !.url = u] \in Bindings
           /\ [b EXCEPT !.gateway = g, !.gen = n] \in Bindings
           /\ [b EXCEPT !.owner = n, !.gen = m, !.gateway = g] \in Bindings
BY DEF Bindings

\* The count of disturbances stays within its bound.
LEMMA DisturbType ==
    ASSUME disturbances \in 0..MaxDisturbances, Disturb \/ Calm
    PROVE  disturbances' \in 0..MaxDisturbances
BY ControllerAssumption, SMTT(60) DEF Disturb, Calm

\* What a step leaves unchanged keeps its type.
LEMMA UnchangedTypes ==
    ASSUME TypeOK
    PROVE  /\ UNCHANGED apiVars => APITypeOK'
           /\ UNCHANGED envVars => EnvTypeOK'
           /\ UNCHANGED cacheVars => CacheTypeOK'
           /\ UNCHANGED queueVars => QueueTypeOK'
           /\ UNCHANGED workVars => WorkTypeOK'
           /\ UNCHANGED memoryVars => MemoryTypeOK'
           /\ UNCHANGED dialled => (dialled \subseteq Nat \X Nat \X CABundles)'
           /\ Disturb \/ Calm => disturbances' \in 0..MaxDisturbances
<1>1. Disturb \/ Calm => disturbances' \in 0..MaxDisturbances
  BY DisturbType DEF TypeOK
<1> QED
  BY <1>1 DEF TypeOK, APITypeOK, EnvTypeOK, CacheTypeOK, QueueTypeOK, WorkTypeOK, MemoryTypeOK,
         apiVars, envVars, cacheVars, queueVars, workVars, memoryVars

\* The environment keeps the types.
LEMMA EnvironmentTypes == TypeOK /\ Environment => TypeOK'
<1> SUFFICES ASSUME TypeOK, Environment PROVE TypeOK'
  OBVIOUS
<1> USE UnchangedTypes
<1>1. CASE EditSpec
  <2>1. server \in Servers /\ server.gen + 1 \in Nat
    BY SMTT(60) DEF TypeOK, APITypeOK, Servers
  <2>2. PICK s \in Specs : server' = [server EXCEPT !.spec = s, !.gen = server.gen + 1]
    BY <1>1 DEF EditSpec
  <2>3. server' \in Servers
    BY <2>1, <2>2, ServerUpdates
  <2> QED
    BY <1>1, <2>3 DEF EditSpec, Calm, TypeOK, APITypeOK
<1>2. CASE BeginDeletion
  <2>1. server' \in Servers
    BY <1>2, ServerUpdates DEF BeginDeletion, TypeOK, APITypeOK
  <2> QED
    BY <1>2, <2>1 DEF BeginDeletion, TypeOK, APITypeOK
<1>3. CASE DeleteServer
  BY <1>3, AbsentTypes DEF DeleteServer, Calm, TypeOK, APITypeOK
<1>4. CASE RecreateServer
  <2>1. lastUid' \in Nat /\ lastUid + 1 \in Nat
    BY <1>4, SMTT(60) DEF RecreateServer, TypeOK, APITypeOK
  <2>2. PICK s \in FirstSpecs :
           server' = [NoServer EXCEPT !.uid = lastUid + 1, !.gen = 1, !.spec = s]
    BY <1>4 DEF RecreateServer
  <2>3. server' \in Servers
    BY <2>1, <2>2, FirstServer, ControllerAssumption
  <2> QED
    BY <1>4, <2>1, <2>3 DEF RecreateServer, Calm, TypeOK, APITypeOK
<1>5. CASE CollectGarbage
  BY <1>5, AbsentTypes DEF CollectGarbage, Calm, TypeOK, APITypeOK
<1>6. CASE ObserveDeployment
  <2>1. deploy' \in Deployments
    <3>1. deploy \in Deployments /\ (deploy.ready /\ deploy.replicas # 0) \in BOOLEAN
      BY DEF TypeOK, APITypeOK
    <3> QED
      BY <1>6, <3>1, DeploymentUpdates DEF ObserveDeployment
  <2> QED
    BY <1>6, <2>1 DEF ObserveDeployment, Calm, TypeOK, APITypeOK
<1>7. CASE DeploymentReady
  <2>1. deploy' \in Deployments
    BY <1>7, DeploymentUpdates DEF DeploymentReady, TypeOK, APITypeOK
  <2> QED
    BY <1>7, <2>1 DEF DeploymentReady, Calm, TypeOK, APITypeOK
<1>8. CASE DeploymentUnready
  <2>1. deploy' \in Deployments
    BY <1>8, DeploymentUpdates DEF DeploymentUnready, TypeOK, APITypeOK
  <2> QED
    BY <1>8, <2>1 DEF DeploymentUnready, TypeOK, APITypeOK
<1>9. CASE RegisterBinding
  <2>1. binding \in Bindings /\ binding.gen \in Nat
    BY DEF TypeOK, APITypeOK, Bindings
  <2>2. PICK url \in Urls \cup {None} :
           binding' = [binding EXCEPT !.registered = binding.gen, !.url = url]
    BY <1>9, <2>1 DEF RegisterBinding
  <2>3. binding' \in Bindings
    BY <2>1, <2>2, BindingUpdates
  <2> QED
    BY <1>9, <2>3 DEF RegisterBinding, TypeOK, APITypeOK
<1>10. CASE UnregisterBinding
  <2>1. binding' \in Bindings
    BY <1>10, BindingUpdates DEF UnregisterBinding, TypeOK, APITypeOK
  <2> QED
    BY <1>10, <2>1 DEF UnregisterBinding, TypeOK, APITypeOK
<1>11. CASE EndpointChanges
  BY <1>11 DEF EndpointChanges, TypeOK, EnvTypeOK
<1>12. CASE ReferencedResourceChanges
  BY <1>12 DEF ReferencedResourceChanges, TypeOK, EnvTypeOK, QueueTypeOK
<1>13. CASE UnrelatedEvent
  BY <1>13 DEF UnrelatedEvent, TypeOK, QueueTypeOK
<1> QED
  BY <1>1, <1>2, <1>3, <1>4, <1>5, <1>6, <1>7, <1>8, <1>9, <1>10, <1>11, <1>12, <1>13
     DEF Environment

\* The informers, the timers and a restart keep the types.
LEMMA RuntimeTypes == TypeOK /\ (Informers \/ TimerFires \/ RestartOperator) => TypeOK'
<1> SUFFICES ASSUME TypeOK, Informers \/ TimerFires \/ RestartOperator PROVE TypeOK'
  OBVIOUS
<1> USE UnchangedTypes
<1>1. CASE SyncServer
  BY <1>1 DEF SyncServer, Calm, TypeOK, APITypeOK, CacheTypeOK, QueueTypeOK
<1>2. CASE SyncOwned
  BY <1>2 DEF SyncOwned, Calm, TypeOK, APITypeOK, CacheTypeOK, QueueTypeOK
<1>3. CASE TimerFires
  BY <1>3 DEF TimerFires, Calm, TypeOK, QueueTypeOK
<1>4. CASE RestartOperator
  BY <1>4, AbsentTypes
     DEF RestartOperator, Return, TypeOK, APITypeOK, CacheTypeOK, QueueTypeOK, WorkTypeOK,
         MemoryTypeOK
<1> QED
  BY <1>1, <1>2, <1>3, <1>4 DEF Informers

\* The ways a step of the reconcile ends keep the types.
LEMMA ReturnTypes ==
    ASSUME TypeOK
    PROVE  /\ Return => WorkTypeOK'
           /\ \A o \in {"done", "error", "later"} : Finish(o) => WorkTypeOK' /\ QueueTypeOK'
           /\ \A n \in {"binding", "hash", "handshake"} :
                 Proceed(n) => WorkTypeOK' /\ QueueTypeOK'
           /\ \A a \in {"True", "False"}, r \in AvailableReasons, o \in {"done", "error"} :
                 Fail(a, r, o) => WorkTypeOK'
<1>1. Return => WorkTypeOK'
  BY AbsentTypes DEF Return, WorkTypeOK
<1>2. \A o \in {"done", "error", "later"} : Finish(o) => WorkTypeOK' /\ QueueTypeOK'
  BY <1>1 DEF Finish, TypeOK, QueueTypeOK
<1>3. \A n \in {"binding", "hash", "handshake"} : Proceed(n) => WorkTypeOK' /\ QueueTypeOK'
  BY UnchangedTypes DEF Proceed, TypeOK, WorkTypeOK
<1>4. ASSUME NEW a \in {"True", "False"}, NEW r \in AvailableReasons,
             NEW o \in {"done", "error"}, Fail(a, r, o)
      PROVE  WorkTypeOK'
  <2>1. FailureStatus(snap, a, r) \in Status
    BY FailureStatusType DEF TypeOK, WorkTypeOK
  <2> QED
    BY <1>4, <2>1 DEF Fail, TypeOK, WorkTypeOK
<1> QED
  BY <1>1, <1>2, <1>3, <1>4

\* A field of the status apply configuration is set.
LEMMA DraftUpdates ==
    ASSUME NEW d \in Status
    PROVE  /\ \A a \in AvailableReasons : [d EXCEPT !.available = a] \in Status
           /\ \A v \in VerifiedReasons, x \in BOOLEAN, i \in BOOLEAN :
                 [d EXCEPT !.verified = v, !.exhausted = x, !.serverInfo = i] \in Status
           /\ \A a \in AvailableReasons, g \in GatewayReasons, b \in Providers \cup {None},
                 u \in Urls \cup {"internal", None} :
                 [d EXCEPT !.available = a, !.gateway = g, !.binding = b, !.address = u]
                    \in Status
BY DEF Status

\* Fetch keeps the types.
LEMMA FetchTypes == TypeOK /\ (FetchNotFound \/ FetchSkipped \/ Fetch) => TypeOK'
<1> SUFFICES ASSUME TypeOK, FetchNotFound \/ FetchSkipped \/ Fetch PROVE TypeOK'
  OBVIOUS
<1> USE UnchangedTypes
<1>1. CASE FetchNotFound
  BY <1>1, AbsentTypes DEF FetchNotFound, Calm, TypeOK, QueueTypeOK, MemoryTypeOK
<1>2. CASE FetchSkipped
  BY <1>2 DEF FetchSkipped, Calm, TypeOK, QueueTypeOK
<1>3. CASE Fetch
  <2>1. cache \in Servers
    BY DEF TypeOK, CacheTypeOK
  <2>2. FailureStatus(cache, "False", "ConfigurationInvalid") \in Status
    BY <2>1, FailureStatusType DEF AvailableReasons, AvailableFalse
  <2>3. [NoStatus EXCEPT !.observedGeneration = cache.gen, !.accepted = "True"] \in Status
    BY <2>1, AbsentTypes DEF Servers, Status
  <2>4. WorkTypeOK' /\ QueueTypeOK'
    BY <1>3, <2>1, <2>2, <2>3 DEF Fetch, TypeOK, WorkTypeOK, QueueTypeOK
  <2>5. binding' \in Bindings
    BY <1>3, AbsentTypes DEF Fetch, CleanupGatewayBindingIfRemoved, TypeOK, APITypeOK
  <2>6. disturbances' \in 0..MaxDisturbances
    BY <1>3 DEF Fetch
  <2> QED
    BY <1>3, <2>4, <2>5, <2>6 DEF Fetch, TypeOK, APITypeOK
<1> QED
  BY <1>1, <1>2, <1>3

\* The steps that reconcile the Deployment, the Service and the NetworkPolicy
\* keep the types.
LEMMA ResourceTypes == TypeOK /\ (ReconcileDeployment \/ ReconcileResources) => TypeOK'
<1> SUFFICES ASSUME TypeOK, ReconcileDeployment \/ ReconcileResources PROVE TypeOK'
  OBVIOUS
<1> USE UnchangedTypes
<1>0. {"WorkloadUnavailable", "ServiceUnavailable", "NetworkPolicyUnavailable"}
         \subseteq AvailableReasons
  BY DEF AvailableReasons, AvailableFalse
<1>1. CASE ReconcileDeployment
  <2>1. /\ snap \in Servers /\ cdeploy \in Deployments /\ deploy \in Deployments
        /\ DesiredDeployment(snap) \in Deployments
        /\ UpdatedDeployment(snap, cdeploy) \in Deployments
    BY DeploymentTypes DEF TypeOK, WorkTypeOK, CacheTypeOK, APITypeOK
  <2>2. \A d \in Deployments : Deployed(d) => WorkTypeOK'
    BY DraftUpdates, AvailabilityTypes DEF Deployed, TypeOK, WorkTypeOK
  <2>3. \A o \in {"done", "error"} : Fail("True", "WorkloadUnavailable", o) => WorkTypeOK'
    BY <1>0, ReturnTypes
  <2>4. Finish("later") => WorkTypeOK' /\ QueueTypeOK'
    BY ReturnTypes
  <2>5. /\ deploy' \in Deployments /\ cdeploy' \in Deployments /\ QueueTypeOK'
        /\ WorkTypeOK' /\ disturbances' \in 0..MaxDisturbances
    BY <1>1, <2>1, <2>2, <2>3, <2>4 DEF ReconcileDeployment, TypeOK, QueueTypeOK, queueVars
  <2> QED
    BY <1>1, <2>5 DEF ReconcileDeployment, TypeOK, APITypeOK, CacheTypeOK
<1>2. CASE ReconcileResources
  <2>1. \A r \in {"ServiceUnavailable", "NetworkPolicyUnavailable"}, o \in {"done", "error"} :
           Fail("True", r, o) => WorkTypeOK'
    BY <1>0, ReturnTypes
  <2>2. /\ Finish("later") => WorkTypeOK' /\ QueueTypeOK'
        /\ Proceed("binding") => WorkTypeOK' /\ QueueTypeOK'
    BY ReturnTypes
  <2> QED
    BY <1>2, <2>1, <2>2 DEF ReconcileResources, TypeOK
<1> QED
  BY <1>1, <1>2

\* The step that reconciles the MCPGatewayBinding keeps the types.
LEMMA BindingTypes == TypeOK /\ ReconcileGatewayBinding => TypeOK'
<1> SUFFICES ASSUME TypeOK, ReconcileGatewayBinding PROVE TypeOK'
  OBVIOUS
<1> USE UnchangedTypes
<1>1. "GatewayNotRegistered" \in AvailableReasons
  BY DEF AvailableReasons, AvailableFalse
<1>2. \A o \in {"done", "error"} : Fail("True", "GatewayNotRegistered", o) => WorkTypeOK'
  BY <1>1, ReturnTypes
<1>3. /\ Finish("later") => WorkTypeOK' /\ QueueTypeOK'
      /\ Proceed(AfterBinding) => WorkTypeOK' /\ QueueTypeOK'
  BY ReturnTypes DEF AfterBinding
<1>4. DeleteBinding => WorkTypeOK' /\ QueueTypeOK' /\ binding' \in Bindings
  BY <1>2, <1>3, AbsentTypes DEF DeleteBinding, TypeOK, APITypeOK
<1>5. /\ snap.uid \in Nat /\ snap.spec.gateway \in Gateways \cup {None}
      /\ binding \in Bindings /\ binding.gen + 1 \in Nat
  BY ControllerAssumption, SMTT(60) DEF TypeOK, WorkTypeOK, APITypeOK, Servers, Bindings
<1>6. /\ [NoBinding EXCEPT !.owner = snap.uid, !.gen = 1, !.gateway = snap.spec.gateway]
            \in Bindings
      /\ [binding EXCEPT !.gateway = snap.spec.gateway, !.gen = @ + 1] \in Bindings
  BY <1>5, AbsentTypes, BindingUpdates
<1>7. WorkTypeOK' /\ QueueTypeOK' /\ binding' \in Bindings
      /\ disturbances' \in 0..MaxDisturbances
  BY <1>2, <1>3, <1>4, <1>5, <1>6 DEF ReconcileGatewayBinding
<1> QED
  BY <1>7 DEF ReconcileGatewayBinding, TypeOK, APITypeOK

\* What the handshake decides is well typed.
LEMMA HandshakeTypes == TypeOK /\ (ComputeCABundleHash \/ Handshake) => TypeOK'
<1> SUFFICES ASSUME TypeOK, ComputeCABundleHash \/ Handshake PROVE TypeOK'
  OBVIOUS
<1> USE UnchangedTypes
<1>1. CASE ComputeCABundleHash
  BY <1>1 DEF ComputeCABundleHash, TypeOK, WorkTypeOK, EnvTypeOK
<1>2. CASE Handshake
  <2>1. /\ draft \in Status /\ snap.gen \in Nat /\ snap.uid \in Nat
        /\ snap.status.verified \in VerifiedReasons
        /\ retries \in [gen : Nat, count : 0..MaxRetries]
        /\ ca \in CABundles
    BY DEF TypeOK, WorkTypeOK, MemoryTypeOK, EnvTypeOK, Servers, Status
  <2>2. /\ "NotVerified" \in VerifiedReasons
        /\ \A e : Answer(e) \in VerifiedReasons
    BY DEF VerifiedReasons, VerifiedTrue, Answer
  <2>3. ASSUME NEW v \in VerifiedReasons, NEW x \in BOOLEAN, NEW i \in BOOLEAN,
               Verdict(v, x, i)
        PROVE  draft' \in Status
    BY <2>1, <2>3, DraftUpdates DEF Verdict
  <2>4. NextRetries(retries, snap.gen) \in [gen : Nat, count : 0..MaxRetries]
    BY <2>1, ControllerAssumption, SMTT(60) DEF NextRetries
  <2>5. dialled \cup {<<snap.uid, snap.gen, ca>>} \subseteq Nat \X Nat \X CABundles
    BY <2>1, SMTT(60) DEF TypeOK
  <2>6. draft' \in Status
    <3>1. (retries'.count >= MaxRetries) \in BOOLEAN
      BY SMTT(60)
    <3> QED
      BY <1>2, <2>1, <2>2, <2>3, <3>1 DEF Handshake
  <2>7. /\ retries' \in [gen : Nat, count : 0..MaxRetries]
        /\ dialled' \subseteq Nat \X Nat \X CABundles
        /\ disturbances' \in 0..MaxDisturbances
    BY <1>2, <2>1, <2>4, <2>5, AbsentTypes DEF Handshake, TypeOK
  <2> QED
    BY <1>2, <2>6, <2>7 DEF Handshake, TypeOK, WorkTypeOK, MemoryTypeOK
<1> QED
  BY <1>1, <1>2

\* The last two steps of the reconcile keep the types.
LEMMA StatusTypes == TypeOK /\ (ReconcileGatewayCondition \/ ApplyStatus) => TypeOK'
<1> SUFFICES ASSUME TypeOK, ReconcileGatewayCondition \/ ApplyStatus PROVE TypeOK'
  OBVIOUS
<1> USE UnchangedTypes
<1>1. CASE ReconcileGatewayCondition
  <2> DEFINE B(failed) == IF failed THEN NoBinding ELSE cbinding
             Condition(failed) == IF failed THEN "GatewayNotRegistered"
                                  ELSE GatewayCondition(snap.spec.gateway, B(failed))
             Url(failed) == IF Condition(failed) = "GatewayRegistered"
                            THEN B(failed).url ELSE None
             Provider(failed) == IF snap.spec.gateway # None /\ B(failed).gateway # None
                                 THEN ProviderOf[B(failed).gateway] ELSE None
  <2>1. PICK failed \in BOOLEAN :
           /\ IF failed THEN Disturb ELSE Calm
           /\ result' = IF failed THEN "endpointError" ELSE "endpoint"
           /\ draft' = [draft EXCEPT
                 !.available = GatewayAvailability(draft.available, Condition(failed)),
                 !.gateway = Condition(failed),
                 !.binding = Provider(failed),
                 !.address = PublishedAddress(draft.verified, Url(failed))]
    BY <1>1 DEF ReconcileGatewayCondition
  <2>2. /\ B(failed) \in Bindings /\ draft \in Status /\ draft.available \in AvailableReasons
    BY AbsentTypes DEF TypeOK, CacheTypeOK, WorkTypeOK, Status
  <2>3. Condition(failed) \in GatewayReasons
    BY DEF GatewayCondition, GatewayReasons
  <2>4. Provider(failed) \in Providers \cup {None}
    BY <2>2, ControllerAssumption DEF Bindings
  <2>5. Url(failed) \in Urls \cup {None}
    BY <2>2 DEF Bindings
  <2>6. PublishedAddress(draft.verified, Url(failed)) \in Urls \cup {"internal", None}
    BY <2>5 DEF PublishedAddress
  <2>7. GatewayAvailability(draft.available, Condition(failed)) \in AvailableReasons
    BY <2>2, <2>3, AvailabilityTypes
  <2> HIDE DEF Condition, Url, Provider
  <2>8. draft' \in Status
    BY <2>1, <2>2, <2>3, <2>4, <2>6, <2>7, DraftUpdates
  <2>9. result' \in {"done", "error", "endpoint", "endpointError"}
        /\ disturbances' \in 0..MaxDisturbances
    BY <2>1
  <2> QED
    BY <1>1, <2>8, <2>9 DEF ReconcileGatewayCondition, TypeOK, WorkTypeOK
<1>2. CASE ApplyStatus
  <2>1. Outcome \in {"done", "error", "later"}
    BY DEF Outcome
  <2>2. WorkTypeOK' /\ QueueTypeOK'
    BY <1>2, <2>1, ReturnTypes DEF ApplyStatus
  <2>3. server' \in Servers
    BY <1>2, ServerUpdates DEF ApplyStatus, TypeOK, APITypeOK, WorkTypeOK
  <2>4. caHash' \in CABundles \cup {None}
    BY <1>2 DEF ApplyStatus, UpdatedCAHash, TypeOK, WorkTypeOK, MemoryTypeOK
  <2>5. disturbances' \in 0..MaxDisturbances
    BY <1>2 DEF ApplyStatus
  <2> QED
    BY <1>2, <2>2, <2>3, <2>4, <2>5 DEF ApplyStatus, TypeOK, APITypeOK, MemoryTypeOK
<1> QED
  BY <1>1, <1>2

\* The types hold initially.
LEMMA TypeInit == Init => TypeOK
<1> SUFFICES ASSUME Init PROVE TypeOK
  OBVIOUS
<1>1. PICK s \in FirstSpecs : server = [NoServer EXCEPT !.uid = 1, !.gen = 1, !.spec = s]
  BY DEF Init
<1>2. server \in Servers
  BY <1>1, FirstServer, ControllerAssumption
<1>3. APITypeOK /\ CacheTypeOK
  BY <1>2, AbsentTypes DEF Init, APITypeOK, CacheTypeOK
<1>4. EnvTypeOK /\ QueueTypeOK /\ WorkTypeOK /\ MemoryTypeOK
  BY AbsentTypes DEF Init, EnvTypeOK, QueueTypeOK, WorkTypeOK, MemoryTypeOK
<1>5. disturbances \in 0..MaxDisturbances /\ dialled \subseteq Nat \X Nat \X CABundles
  BY ControllerAssumption, SMTT(60) DEF Init
<1> QED
  BY <1>3, <1>4, <1>5 DEF TypeOK

\* Every step keeps the types.
LEMMA TypeStep == TypeOK /\ [Next]_vars => TypeOK'
<1> SUFFICES ASSUME TypeOK, [Next]_vars PROVE TypeOK'
  OBVIOUS
<1>1. CASE UNCHANGED vars
  BY <1>1, UnchangedTypes DEF vars, Calm, TypeOK
<1>2. CASE Next
  BY <1>2, EnvironmentTypes, RuntimeTypes, FetchTypes, ResourceTypes, BindingTypes,
     HandshakeTypes, StatusTypes DEF Next, Reconcile
<1> QED
  BY <1>1, <1>2

\* Every variable keeps its type for ever, whatever the environment does: the
\* retry count never passes its limit, and every write of the status subresource
\* writes a well-formed status.
THEOREM TypeCorrectness == Spec => []TypeOK
BY TypeInit, TypeStep, PTL DEF Spec

-----------------------------------------------------------------------------
(* Verification: what a published Verified=True and a published address    *)
(* rest on, and that observedGeneration never goes backwards.              *)

\* No verdict is part of the objects that stand for "absent".
LEMMA AbsentUnverified ==
    /\ NoStatus.verified = "none" /\ NoStatus.address = None
    /\ NoServer.uid = 0 /\ NoServer.status = NoStatus
    /\ "none" \notin VerifiedTrue /\ "NotVerified" \notin VerifiedTrue
BY DEF NoStatus, NoServer, VerifiedTrue

\* The invariant holds initially.
LEMMA VerificationInit == Init => VerificationInv
<1> SUFFICES ASSUME Init PROVE VerificationInv
  OBVIOUS
<1>1. PICK s \in FirstSpecs : server = [NoServer EXCEPT !.uid = 1, !.gen = 1, !.spec = s]
  BY DEF Init
<1>2. server.uid = 1 /\ server.status = NoStatus
  BY <1>1 DEF NoServer
<1> QED
  BY <1>2, AbsentUnverified, SMTT(60)
     DEF Init, VerificationInv, UidsKnown, Backed, Shown, DraftInv

\* Steps that leave the reconcile alone: a status is kept or reset, the cache is
\* kept or refreshed, and no handshake or incarnation is forgotten.
LEMMA VerificationKept ==
    ASSUME TypeOK, VerificationInv, TypeOK',
           UNCHANGED <<pc, snap, draft, dialled>>,
           lastUid <= lastUid', server'.uid <= lastUid',
           server'.status \in {server.status, NoStatus},
           cache' \in {cache, server}
    PROVE  VerificationInv'
<1>1. lastUid \in Nat /\ lastUid' \in Nat /\ 1..lastUid \subseteq 1..lastUid'
  BY SMTT(60) DEF TypeOK, APITypeOK
<1>2. UidsKnown'
  <2>1. /\ server.uid \in Nat /\ cache.uid \in Nat /\ snap.uid \in Nat /\ cache'.uid \in Nat
        /\ server.uid <= lastUid /\ cache.uid <= lastUid /\ snap.uid <= lastUid
    BY DEF VerificationInv, UidsKnown, TypeOK, APITypeOK, CacheTypeOK, WorkTypeOK, Servers
  <2>2. cache'.uid <= lastUid' /\ snap'.uid <= lastUid'
    BY <1>1, <2>1, SMTT(60)
  <2> QED
    BY <2>2 DEF VerificationInv, UidsKnown
<1>3. Backed(server.status)' /\ Shown(server.status)'
  BY <1>1, AbsentUnverified DEF VerificationInv, Backed, Shown
<1>4. Backed(cache.status)' /\ Backed(snap.status)'
  BY <1>1 DEF VerificationInv, Backed
<1>5. DraftInv'
  BY <1>1 DEF VerificationInv, DraftInv, Backed, Shown
<1> QED
  BY <1>2, <1>3, <1>4, <1>5 DEF VerificationInv

\* The environment and the informers keep the invariant.
LEMMA VerificationOutside ==
    TypeOK /\ TypeOK' /\ VerificationInv /\ (Environment \/ Informers \/ TimerFires)
        => VerificationInv'
<1> SUFFICES ASSUME TypeOK, TypeOK', VerificationInv, Environment \/ Informers \/ TimerFires
             PROVE  VerificationInv'
  OBVIOUS
<1>0. server \in Servers /\ lastUid \in Nat /\ server.uid \in Nat /\ server.uid <= lastUid
  BY DEF TypeOK, APITypeOK, Servers, VerificationInv, UidsKnown
<1>1. UNCHANGED <<pc, snap, draft, dialled>>
  BY DEF Environment, Informers, EditSpec, BeginDeletion, DeleteServer, RecreateServer,
         CollectGarbage, ObserveDeployment, DeploymentReady, DeploymentUnready,
         RegisterBinding, UnregisterBinding, EndpointChanges, ReferencedResourceChanges,
         UnrelatedEvent, SyncServer, SyncOwned, TimerFires, workVars
<1>2. cache' \in {cache, server}
  BY DEF Environment, Informers, EditSpec, BeginDeletion, DeleteServer, RecreateServer,
         CollectGarbage, ObserveDeployment, DeploymentReady, DeploymentUnready,
         RegisterBinding, UnregisterBinding, EndpointChanges, ReferencedResourceChanges,
         UnrelatedEvent, SyncServer, SyncOwned, TimerFires, cacheVars
<1>3. /\ lastUid <= lastUid' /\ server'.uid <= lastUid'
      /\ server'.status \in {server.status, NoStatus}
  <2>1. CASE EditSpec
    <3>1. PICK s \in Specs : server' = [server EXCEPT !.spec = s, !.gen = server.gen + 1]
      BY <2>1 DEF EditSpec
    <3> QED
      BY <1>0, <2>1, <3>1, SMTT(60) DEF EditSpec, Servers
  <2>2. CASE BeginDeletion
    BY <1>0, <2>2, SMTT(60) DEF BeginDeletion, Servers
  <2>3. CASE DeleteServer
    BY <1>0, <2>3, AbsentUnverified, SMTT(60) DEF DeleteServer
  <2>4. CASE RecreateServer
    <3>1. PICK s \in FirstSpecs :
             server' = [NoServer EXCEPT !.uid = lastUid + 1, !.gen = 1, !.spec = s]
      BY <2>4 DEF RecreateServer
    <3>2. server'.uid = lastUid + 1 /\ server'.status = NoStatus
      BY <3>1 DEF NoServer
    <3> QED
      BY <1>0, <2>4, <3>2, SMTT(60) DEF RecreateServer
  <2>5. CASE UNCHANGED <<server, lastUid>>
    BY <1>0, <2>5, SMTT(60)
  <2> QED
    BY <2>1, <2>2, <2>3, <2>4, <2>5
       DEF Environment, Informers, CollectGarbage, ObserveDeployment, DeploymentReady,
           DeploymentUnready, RegisterBinding, UnregisterBinding, EndpointChanges,
           ReferencedResourceChanges, UnrelatedEvent, SyncServer, SyncOwned, TimerFires,
           apiVars
<1> QED
  BY <1>1, <1>2, <1>3, VerificationKept

\* Steps of the reconcile before the status is applied: the snapshot is kept,
\* taken or dropped, and a draft that satisfies its part is all that is needed.
LEMMA VerificationWork ==
    ASSUME TypeOK, VerificationInv,
           UNCHANGED <<server, lastUid, dialled, cache>>,
           snap' \in {snap, cache, NoServer}, pc' # "idle" => snap'.uid >= 1,
           DraftInv'
    PROVE  VerificationInv'
<1>1. UidsKnown'
  BY AbsentUnverified, SMTT(60) DEF VerificationInv, UidsKnown, TypeOK, APITypeOK
<1>2. Backed(server.status)' /\ Shown(server.status)' /\ Backed(cache.status)'
  BY DEF VerificationInv, Backed, Shown
<1>3. Backed(snap.status)'
  BY AbsentUnverified DEF VerificationInv, Backed
<1> QED
  BY <1>1, <1>2, <1>3 DEF VerificationInv

\* The ways a step ends establish the draft's part.
LEMMA DraftEnds ==
    ASSUME TypeOK, VerificationInv, UNCHANGED <<lastUid, dialled>>
    PROVE  /\ Return => DraftInv'
           /\ \A o : Finish(o) => DraftInv'
           /\ \A n : pc \notin {"idle", "apply"} /\ Proceed(n) => DraftInv'
           /\ \A a, r, o : Fail(a, r, o) => DraftInv'
<1>1. Return => DraftInv'
  BY AbsentUnverified DEF Return, DraftInv, Backed, Shown
<1>2. \A o : Finish(o) => DraftInv'
  BY <1>1 DEF Finish
<1>3. \A n : pc \notin {"idle", "apply"} /\ Proceed(n) => DraftInv'
  BY DEF Proceed, VerificationInv, DraftInv, Backed, Shown
<1>4. ASSUME NEW a, NEW r, NEW o, Fail(a, r, o)
      PROVE  DraftInv'
  <2>1. /\ draft'.verified = "NotVerified" /\ draft'.address = None
        /\ draft'.observedGeneration = snap.gen /\ snap' = snap
    BY <1>4 DEF Fail, FailureStatus
  <2> QED
    BY <2>1, AbsentUnverified DEF DraftInv, Backed, Shown
<1> QED
  BY <1>1, <1>2, <1>3, <1>4

\* Fetch keeps the invariant: the draft is of the generation just read.
LEMMA VerificationFetch ==
    TypeOK /\ VerificationInv /\ (FetchNotFound \/ FetchSkipped \/ Fetch) => VerificationInv'
<1> SUFFICES ASSUME TypeOK, VerificationInv, FetchNotFound \/ FetchSkipped \/ Fetch
             PROVE  VerificationInv'
  OBVIOUS
<1>1. CASE FetchNotFound \/ FetchSkipped
  <2>1. UNCHANGED <<server, lastUid, dialled, cache, pc, snap, draft>>
    BY <1>1 DEF FetchNotFound, FetchSkipped, apiVars, cacheVars, workVars
  <2>2. DraftInv'
    BY <2>1 DEF VerificationInv, DraftInv, Backed, Shown
  <2> QED
    BY <2>1, <2>2, VerificationWork DEF VerificationInv, UidsKnown
<1>2. CASE Fetch
  <2>1. /\ UNCHANGED <<server, lastUid, dialled, cache>> /\ cache.uid # 0 /\ pc = "idle"
        /\ \/ UNCHANGED <<pc, snap, draft>>
           \/ /\ snap' = cache
              /\ \/ draft' = FailureStatus(cache, "False", "ConfigurationInvalid")
                 \/ draft' = [NoStatus EXCEPT !.observedGeneration = cache.gen,
                                              !.accepted = "True"]
    BY <1>2 DEF Fetch, cacheVars
  <2>2. cache.uid \in Nat
    BY DEF TypeOK, CacheTypeOK, Servers
  <2>3. CASE UNCHANGED <<pc, snap, draft>>
    <3>1. DraftInv'
      BY <2>1, <2>3 DEF VerificationInv, DraftInv, Backed, Shown
    <3> QED
      BY <2>1, <2>3, <3>1, VerificationWork
  <2>4. CASE /\ snap' = cache
             /\ \/ draft' = FailureStatus(cache, "False", "ConfigurationInvalid")
                \/ draft' = [NoStatus EXCEPT !.observedGeneration = cache.gen,
                                             !.accepted = "True"]
    <3>1. /\ draft'.verified \in {"none", "NotVerified"} /\ draft'.address = None
          /\ draft'.observedGeneration = snap'.gen
      <4>1. CASE draft' = FailureStatus(cache, "False", "ConfigurationInvalid")
        BY <2>4, <4>1 DEF FailureStatus
      <4>2. CASE draft' = [NoStatus EXCEPT !.observedGeneration = cache.gen,
                                           !.accepted = "True"]
        BY <2>4, <4>2, AbsentTypes, AbsentUnverified DEF Status
      <4> QED
        BY <2>4, <4>1, <4>2
    <3>2. DraftInv'
      BY <3>1, AbsentUnverified DEF DraftInv, Backed, Shown
    <3> QED
      BY <2>1, <2>2, <2>4, <3>2, VerificationWork, SMTT(60)
  <2> QED
    BY <2>1, <2>3, <2>4
<1> QED
  BY <1>1, <1>2

\* The steps that reconcile the resources keep the invariant: they only set the
\* Available reason of the draft, or replace it by a failure status.
LEMMA VerificationResources ==
    TypeOK /\ VerificationInv /\
    (ReconcileDeployment \/ ReconcileResources \/ ReconcileGatewayBinding
        \/ ComputeCABundleHash) => VerificationInv'
<1> SUFFICES ASSUME TypeOK, VerificationInv,
                    \/ ReconcileDeployment \/ ReconcileResources
                    \/ ReconcileGatewayBinding \/ ComputeCABundleHash
             PROVE  VerificationInv'
  OBVIOUS
<1>1. /\ UNCHANGED <<server, lastUid, dialled, cache>>
      /\ pc \in {"deployment", "resources", "binding", "hash"}
  BY DEF ReconcileDeployment, ReconcileResources, ReconcileGatewayBinding,
         ComputeCABundleHash, apiVars, cacheVars
<1>2. snap.uid >= 1
  BY <1>1 DEF VerificationInv, UidsKnown
<1>3. \A d : Deployed(d) => DraftInv'
  <2> SUFFICES ASSUME NEW d, Deployed(d) PROVE DraftInv'
    OBVIOUS
  <2>1. draft \in Status
    BY DEF TypeOK, WorkTypeOK
  <2>2. /\ draft'.verified = draft.verified /\ draft'.address = draft.address
        /\ draft'.observedGeneration = draft.observedGeneration
        /\ draft'.serverInfo = draft.serverInfo /\ snap' = snap
    BY <2>1 DEF Deployed, Status
  <2> QED
    BY <1>1, <2>2 DEF VerificationInv, DraftInv, Backed, Shown
<1>4. CASE ReconcileDeployment
  <2>1. \/ \E d : Deployed(d)
        \/ \E a, r, o : Fail(a, r, o)
        \/ \E o : Finish(o)
    BY <1>4 DEF ReconcileDeployment
  <2>2. DraftInv'
    BY <1>1, <1>3, <2>1, DraftEnds
  <2>3. snap' \in {snap, NoServer} /\ (pc' # "idle" => snap' = snap)
    BY <2>1 DEF Deployed, Fail, Finish, Return
  <2> QED
    BY <1>1, <1>2, <2>2, <2>3, VerificationWork
<1>5. CASE ReconcileResources \/ ReconcileGatewayBinding
  <2>1. \/ \E n : Proceed(n)
        \/ \E a, r, o : Fail(a, r, o)
        \/ \E o : Finish(o)
    BY <1>5 DEF ReconcileResources, ReconcileGatewayBinding, DeleteBinding
  <2>2. DraftInv'
    BY <1>1, <2>1, DraftEnds
  <2>3. snap' \in {snap, NoServer} /\ (pc' # "idle" => snap' = snap)
    BY <2>1 DEF Proceed, Fail, Finish, Return
  <2> QED
    BY <1>1, <1>2, <2>2, <2>3, VerificationWork
<1>6. CASE ComputeCABundleHash
  <2>1. UNCHANGED <<snap, draft>> /\ pc' = "handshake"
    BY <1>6 DEF ComputeCABundleHash
  <2>2. DraftInv'
    BY <1>1, <2>1 DEF VerificationInv, DraftInv, Backed, Shown
  <2> QED
    BY <1>1, <1>2, <2>1, <2>2, VerificationWork
<1> QED
  BY <1>4, <1>5, <1>6

\* The handshake keeps the invariant.  A verdict carried over is backed because
\* the status it comes from is of the generation at hand; a fresh one because
\* the handshake is recorded in the same step.
LEMMA VerificationHandshake == TypeOK /\ VerificationInv /\ Handshake => VerificationInv'
<1> SUFFICES ASSUME TypeOK, VerificationInv, Handshake PROVE VerificationInv'
  OBVIOUS
<1>1. /\ UNCHANGED <<server, lastUid, cache, snap>> /\ pc = "handshake" /\ pc' = "gateway"
      /\ dialled \subseteq dialled'
  BY DEF Handshake, apiVars, cacheVars
<1>2. /\ snap.uid \in 1..lastUid /\ ca \in CABundles /\ draft \in Status
      /\ draft.observedGeneration = snap.gen /\ draft.address = None
  BY <1>1, SMTT(60) DEF VerificationInv, UidsKnown, DraftInv, TypeOK, WorkTypeOK, APITypeOK,
              EnvTypeOK, Servers
<1>3. Backed(server.status)' /\ Shown(server.status)' /\ Backed(cache.status)'
      /\ Backed(snap.status)' /\ UidsKnown'
  BY <1>1, <1>2 DEF VerificationInv, Backed, Shown, UidsKnown
<1>4. ASSUME NEW v, NEW x, NEW i, Verdict(v, x, i)
      PROVE  /\ draft'.verified = v /\ draft'.serverInfo = i
             /\ draft'.observedGeneration = snap.gen /\ draft'.address = None
  BY <1>2, <1>4 DEF Verdict, Status
<1>5. \/ \E x : Verdict("NotVerified", x, FALSE)
      \/ AlreadyVerified(snap, caHash, hash) /\ Verdict(snap.status.verified, FALSE, TRUE)
      \/ \E x : Verdict("EndpointUnavailable", x, FALSE)
      \/ \E v : Verdict(v, FALSE, TRUE) /\ <<snap.uid, snap.gen, ca>> \in dialled'
  BY DEF Handshake, Answer
<1>6. draft'.observedGeneration = snap.gen /\ draft'.address = None
  BY <1>4, <1>5
<1>7. draft'.verified \in VerifiedTrue =>
         /\ draft'.serverInfo
         /\ \E u \in 1..lastUid', c \in CABundles :
               <<u, draft'.observedGeneration, c>> \in dialled'
  <2>1. CASE \E x : Verdict("NotVerified", x, FALSE) \/ Verdict("EndpointUnavailable", x, FALSE)
    <3>1. draft'.verified \in {"NotVerified", "EndpointUnavailable"}
      BY <1>4, <2>1
    <3> QED
      BY <3>1 DEF VerifiedTrue
  <2>2. CASE AlreadyVerified(snap, caHash, hash) /\ Verdict(snap.status.verified, FALSE, TRUE)
    <3>1. draft'.verified = snap.status.verified /\ draft'.serverInfo = TRUE
      BY <1>4, <2>2
    <3>2. snap.status.observedGeneration = snap.gen
      BY <2>2 DEF AlreadyVerified
    <3> QED
      BY <1>1, <1>3, <1>6, <3>1, <3>2 DEF Backed
  <2>3. CASE \E v : Verdict(v, FALSE, TRUE) /\ <<snap.uid, snap.gen, ca>> \in dialled'
    <3>1. draft'.serverInfo = TRUE
      BY <1>4, <2>3
    <3> QED
      BY <1>1, <1>2, <1>6, <2>3, <3>1
  <2> QED
    BY <1>5, <2>1, <2>2, <2>3
<1>8. DraftInv'
  BY <1>1, <1>6, <1>7 DEF DraftInv, Backed, Shown
<1> QED
  BY <1>3, <1>8 DEF VerificationInv

\* reconcileGatewayCondition keeps the invariant: it is the only step that sets
\* the address, and withAddressWhenVerified gives one to a verified draft only.
LEMMA VerificationGateway ==
    TypeOK /\ VerificationInv /\ ReconcileGatewayCondition => VerificationInv'
<1> SUFFICES ASSUME TypeOK, VerificationInv, ReconcileGatewayCondition
             PROVE  VerificationInv'
  OBVIOUS
<1>1. /\ UNCHANGED <<server, lastUid, dialled, cache, snap>>
      /\ pc = "gateway" /\ pc' = "apply"
  BY DEF ReconcileGatewayCondition, apiVars, cacheVars
<1> DEFINE B(failed) == IF failed THEN NoBinding ELSE cbinding
           Condition(failed) == IF failed THEN "GatewayNotRegistered"
                                ELSE GatewayCondition(snap.spec.gateway, B(failed))
           Url(failed) == IF Condition(failed) = "GatewayRegistered"
                          THEN B(failed).url ELSE None
           Provider(failed) == IF snap.spec.gateway # None /\ B(failed).gateway # None
                               THEN ProviderOf[B(failed).gateway] ELSE None
           Available(failed) == GatewayAvailability(draft.available, Condition(failed))
<1>3. PICK failed \in BOOLEAN :
         draft' = [draft EXCEPT
               !.available = Available(failed), !.gateway = Condition(failed),
               !.binding = Provider(failed),
               !.address = PublishedAddress(draft.verified, Url(failed))]
  BY DEF ReconcileGatewayCondition
<1> HIDE DEF Condition, Url, Provider, Available
<1>4. draft \in Status
  BY DEF TypeOK, WorkTypeOK
<1>5. /\ draft'.verified = draft.verified /\ draft'.serverInfo = draft.serverInfo
      /\ draft'.observedGeneration = draft.observedGeneration
      /\ draft'.address = PublishedAddress(draft.verified, Url(failed))
  BY <1>3, <1>4 DEF Status
<1>6. draft'.address # None => draft.verified \in VerifiedTrue
  BY <1>5 DEF PublishedAddress
<1>7. DraftInv'
  BY <1>1, <1>5, <1>6 DEF VerificationInv, DraftInv, Backed, Shown
<1>8. snap'.uid >= 1
  BY <1>1 DEF VerificationInv, UidsKnown
<1> QED
  BY <1>1, <1>7, <1>8, VerificationWork

\* Applying the status keeps the invariant: the draft has all that a published
\* status needs, whichever incarnation of the MCPServer it lands on.
LEMMA VerificationApply == TypeOK /\ VerificationInv /\ ApplyStatus => VerificationInv'
<1> SUFFICES ASSUME TypeOK, VerificationInv, ApplyStatus PROVE VerificationInv'
  OBVIOUS
<1>1. /\ UNCHANGED <<lastUid, dialled, cache>> /\ Return
      /\ \/ server' = [server EXCEPT !.status = draft]
         \/ server' = server
  BY DEF ApplyStatus, Finish, cacheVars
<1>2. server'.uid = server.uid /\ server'.status \in {server.status, draft}
  BY <1>1 DEF TypeOK, APITypeOK, Servers
<1>3. DraftInv'
  BY <1>1, DraftEnds
<1>4. UidsKnown'
  BY <1>1, <1>2, AbsentUnverified, SMTT(60)
     DEF VerificationInv, UidsKnown, Return, TypeOK, APITypeOK
<1>5. Backed(server.status)' /\ Shown(server.status)'
  BY <1>1, <1>2 DEF VerificationInv, DraftInv, Backed, Shown
<1>6. Backed(cache.status)' /\ Backed(snap.status)'
  BY <1>1, AbsentUnverified DEF VerificationInv, Backed, Return
<1> QED
  BY <1>3, <1>4, <1>5, <1>6 DEF VerificationInv

\* A restart keeps the invariant: it drops the draft and reads the cache anew.
LEMMA VerificationRestart == TypeOK /\ VerificationInv /\ RestartOperator => VerificationInv'
<1> SUFFICES ASSUME TypeOK, VerificationInv, RestartOperator PROVE VerificationInv'
  OBVIOUS
<1>1. UNCHANGED <<server, lastUid, dialled>> /\ Return /\ cache' = server
  BY DEF RestartOperator, apiVars
<1>2. DraftInv'
  BY <1>1, DraftEnds
<1>3. UidsKnown'
  BY <1>1, AbsentUnverified, SMTT(60) DEF VerificationInv, UidsKnown, Return, TypeOK, APITypeOK
<1>4. /\ Backed(server.status)' /\ Shown(server.status)'
      /\ Backed(cache.status)' /\ Backed(snap.status)'
  BY <1>1, AbsentUnverified DEF VerificationInv, Backed, Shown, Return
<1> QED
  BY <1>2, <1>3, <1>4 DEF VerificationInv

\* Every step keeps the invariant.
LEMMA VerificationStep ==
    TypeOK /\ TypeOK' /\ VerificationInv /\ [Next]_vars => VerificationInv'
<1> SUFFICES ASSUME TypeOK, TypeOK', VerificationInv, [Next]_vars PROVE VerificationInv'
  OBVIOUS
<1>1. CASE Next
  BY <1>1, VerificationOutside, VerificationFetch, VerificationResources,
     VerificationHandshake, VerificationGateway, VerificationApply, VerificationRestart
     DEF Next, Reconcile
<1>2. CASE UNCHANGED vars
  BY <1>2 DEF vars, apiVars, cacheVars, workVars, VerificationInv, UidsKnown, DraftInv,
              Backed, Shown
<1> QED
  BY <1>1, <1>2

\* The strengthened invariant holds in every reachable state.
THEOREM Verification == Spec => []VerificationInv
BY VerificationInit, VerificationStep, TypeCorrectness, PTL DEF Spec

\* Whatever the user, the informers, the gateway and a restart do between two
\* steps of Reconcile, Verified=True in a status with observedGeneration g rests
\* on a handshake that passed at generation g.
THEOREM BackedByHandshake == Spec => []VerifiedBackedByHandshake
<1>1. VerificationInv => VerifiedBackedByHandshake
  BY DEF VerificationInv, Backed, VerifiedBackedByHandshake
<1> QED
  BY <1>1, Verification, PTL

\* No status ever publishes an address without Verified=True and a serverInfo.
THEOREM AddressSafety == Spec => []AddressOnlyWhenVerified
<1>1. VerificationInv => AddressOnlyWhenVerified
  BY DEF VerificationInv, Shown, AddressOnlyWhenVerified
<1> QED
  BY <1>1, Verification, PTL

-----------------------------------------------------------------------------
(* The observedGeneration that an MCPServer shows never goes backwards,    *)
(* although applyStatus writes by name and never conflicts.                *)

\* The generations that an MCPServer has gone through reach its status by way
\* of the cache and of the snapshot of a reconcile, each of which is at least as
\* new as what comes after it.  Only the first incarnation is spoken of: a status
\* computed for a deleted MCPServer may land on its namesake.
GenerationsOrdered ==
    /\ lastUid >= 1
    /\ lastUid = 1 /\ server.uid = 1 =>
          /\ server.status.observedGeneration <= cache.gen
          /\ cache.gen <= server.gen
          /\ pc # "idle" => /\ server.status.observedGeneration <= snap.gen
                            /\ snap.gen <= cache.gen

\* What ObservedGenerationMonotone says of a step.
Forward ==
    lastUid = 1 /\ server'.uid = 1 =>
        server'.status.observedGeneration >= server.status.observedGeneration

\* The generations compared are natural numbers.
LEMMA GenerationTypes ==
    ASSUME TypeOK
    PROVE  /\ server.gen \in Nat /\ cache.gen \in Nat /\ snap.gen \in Nat
           /\ server.status.observedGeneration \in Nat /\ draft.observedGeneration \in Nat
           /\ server.uid \in Nat /\ lastUid \in Nat
BY DEF TypeOK, APITypeOK, CacheTypeOK, WorkTypeOK, Servers, Status

-----------------------------------------------------------------------------
(* Steps, by what they do to the copies of the MCPServer.                  *)

\* The user edits, deletes and creates; a generation only grows, and a new
\* incarnation is not the first.
LEMMA ServerWrites ==
    ASSUME TypeOK, VerificationInv, Environment \/ Informers \/ TimerFires
    PROVE  /\ UNCHANGED <<pc, snap>> /\ cache' \in {cache, server}
           /\ \/ /\ server'.uid = server.uid /\ server'.status = server.status
                 /\ server'.gen >= server.gen /\ lastUid' = lastUid
                 /\ cache' = cache \/ server' = server
              \/ server'.uid = 0 /\ lastUid' = lastUid
              \/ server'.uid = lastUid + 1 /\ lastUid' = lastUid + 1
<1>0. server \in Servers /\ server.gen \in Nat
  BY DEF TypeOK, APITypeOK, Servers
<1>1. UNCHANGED <<pc, snap>>
  BY DEF Environment, Informers, EditSpec, BeginDeletion, DeleteServer, RecreateServer,
         CollectGarbage, ObserveDeployment, DeploymentReady, DeploymentUnready,
         RegisterBinding, UnregisterBinding, EndpointChanges, ReferencedResourceChanges,
         UnrelatedEvent, SyncServer, SyncOwned, TimerFires, workVars
<1>2. cache' \in {cache, server} /\ (cache' = cache \/ server' = server)
  BY DEF Environment, Informers, EditSpec, BeginDeletion, DeleteServer, RecreateServer,
         CollectGarbage, ObserveDeployment, DeploymentReady, DeploymentUnready,
         RegisterBinding, UnregisterBinding, EndpointChanges, ReferencedResourceChanges,
         UnrelatedEvent, SyncServer, SyncOwned, TimerFires, cacheVars, apiVars
<1>3. \/ /\ server'.uid = server.uid /\ server'.status = server.status
         /\ server'.gen >= server.gen /\ lastUid' = lastUid
      \/ server'.uid = 0 /\ lastUid' = lastUid
      \/ server'.uid = lastUid + 1 /\ lastUid' = lastUid + 1
  <2>1. CASE EditSpec
    <3>1. PICK s \in Specs : server' = [server EXCEPT !.spec = s, !.gen = server.gen + 1]
      BY <2>1 DEF EditSpec
    <3>2. server'.uid = server.uid /\ server'.status = server.status
          /\ server'.gen = server.gen + 1
      BY <1>0, <3>1 DEF Servers
    <3>3. QED
      BY <1>0, <2>1, <3>2, SMTT(60) DEF EditSpec
  <2>2. CASE BeginDeletion
    BY <1>0, <2>2, SMTT(60) DEF BeginDeletion, Servers
  <2>3. CASE DeleteServer
    BY <2>3, AbsentUnverified DEF DeleteServer
  <2>4. CASE RecreateServer
    <3>1. PICK s \in FirstSpecs :
             server' = [NoServer EXCEPT !.uid = lastUid + 1, !.gen = 1, !.spec = s]
      BY <2>4 DEF RecreateServer
    <3>2. QED
      BY <2>4, <3>1 DEF RecreateServer, NoServer
  <2>5. CASE UNCHANGED <<server, lastUid>>
    BY <1>0, <2>5, SMTT(60)
  <2>6. QED
    BY <2>1, <2>2, <2>3, <2>4, <2>5
       DEF Environment, Informers, CollectGarbage, ObserveDeployment, DeploymentReady,
           DeploymentUnready, RegisterBinding, UnregisterBinding, EndpointChanges,
           ReferencedResourceChanges, UnrelatedEvent, SyncServer, SyncOwned, TimerFires,
           apiVars
<1>4. QED
  BY <1>1, <1>2, <1>3

\* The reconcile up to the status: it starts from the cache and keeps what it has.
LEMMA WorkKeeps ==
    ASSUME \/ FetchNotFound \/ FetchSkipped \/ Fetch
           \/ ReconcileDeployment \/ ReconcileResources \/ ReconcileGatewayBinding
           \/ ComputeCABundleHash \/ Handshake \/ ReconcileGatewayCondition
    PROVE  /\ UNCHANGED <<server, lastUid, cache>>
           /\ \/ pc' = "idle"
              \/ pc = "idle" /\ snap' = cache
              \/ pc # "idle" /\ snap' = snap
<1>1. CASE FetchNotFound \/ FetchSkipped \/ Fetch
  BY <1>1 DEF FetchNotFound, FetchSkipped, Fetch, apiVars, cacheVars, workVars
<1>2. CASE ReconcileDeployment
  <2>1. /\ UNCHANGED <<server, lastUid, cache>> /\ pc = "deployment"
        /\ \/ \E d : Deployed(d)
           \/ \E a, r, o : Fail(a, r, o)
           \/ \E o : Finish(o)
    BY <1>2 DEF ReconcileDeployment
  <2>2. QED
    BY <2>1 DEF Deployed, Fail, Finish, Return
<1>3. CASE ReconcileResources \/ ReconcileGatewayBinding
  <2>1. /\ UNCHANGED <<server, lastUid, cache>> /\ pc # "idle"
        /\ \/ \E n : Proceed(n)
           \/ \E a, r, o : Fail(a, r, o)
           \/ \E o : Finish(o)
    BY <1>3 DEF ReconcileResources, ReconcileGatewayBinding, DeleteBinding, apiVars, cacheVars
  <2>2. QED
    BY <2>1 DEF Proceed, Fail, Finish, Return
<1>4. CASE ComputeCABundleHash \/ Handshake \/ ReconcileGatewayCondition
  BY <1>4 DEF ComputeCABundleHash, Handshake, ReconcileGatewayCondition, apiVars, cacheVars
<1>5. QED
  BY <1>1, <1>2, <1>3, <1>4

-----------------------------------------------------------------------------

\* Every step keeps the order and goes forward.  The step that matters is
\* ApplyStatus: the draft is of the snapshot's generation, and no status of a
\* newer one was written since the snapshot was taken.
LEMMA OrderedStep ==
    ASSUME TypeOK, TypeOK', VerificationInv, GenerationsOrdered, [Next]_vars
    PROVE  GenerationsOrdered' /\ Forward
<1>0. /\ server.uid <= lastUid
      /\ pc # "idle" => draft.observedGeneration = snap.gen
  BY DEF VerificationInv, UidsKnown, DraftInv
<1>1. CASE Environment \/ Informers \/ TimerFires
  <2>1. CASE /\ server'.uid = server.uid /\ server'.status = server.status
             /\ server'.gen >= server.gen /\ lastUid' = lastUid
             /\ cache' = cache \/ (cache' = server /\ server' = server)
             /\ UNCHANGED <<pc, snap>>
    <3>1. server'.gen \in Nat
      BY DEF TypeOK, APITypeOK, Servers
    <3>2. QED
      BY <2>1, <3>1, GenerationTypes, SMTT(60) DEF GenerationsOrdered, Forward
  <2>2. CASE server'.uid = 0 /\ lastUid' = lastUid
    BY <2>2, SMTT(60) DEF GenerationsOrdered, Forward
  <2>3. CASE server'.uid = lastUid + 1 /\ lastUid' = lastUid + 1
    BY <2>3, GenerationTypes, SMTT(60) DEF GenerationsOrdered, Forward
  <2>4. /\ UNCHANGED <<pc, snap>> /\ cache' \in {cache, server}
        /\ \/ /\ server'.uid = server.uid /\ server'.status = server.status
              /\ server'.gen >= server.gen /\ lastUid' = lastUid
              /\ cache' = cache \/ server' = server
           \/ server'.uid = 0 /\ lastUid' = lastUid
           \/ server'.uid = lastUid + 1 /\ lastUid' = lastUid + 1
    BY <1>1, ServerWrites
  <2>5. QED
    BY <2>1, <2>2, <2>3, <2>4
<1>2. CASE \/ FetchNotFound \/ FetchSkipped \/ Fetch
           \/ ReconcileDeployment \/ ReconcileResources \/ ReconcileGatewayBinding
           \/ ComputeCABundleHash \/ Handshake \/ ReconcileGatewayCondition
  <2>1. /\ UNCHANGED <<server, lastUid, cache>>
        /\ \/ pc' = "idle"
           \/ pc = "idle" /\ snap' = cache
           \/ pc # "idle" /\ snap' = snap
    BY <1>2, WorkKeeps
  <2>2. QED
    BY <2>1, GenerationTypes, SMTT(60) DEF GenerationsOrdered, Forward
<1>3. CASE ApplyStatus
  <2>1. /\ UNCHANGED <<lastUid, cache>> /\ pc = "apply" /\ pc' = "idle"
        /\ \/ server' = [server EXCEPT !.status = draft]
           \/ server' = server
    BY <1>3 DEF ApplyStatus, Finish, Return, cacheVars
  <2>2. /\ server'.uid = server.uid /\ server'.gen = server.gen
        /\ server'.status \in {server.status, draft}
    BY <2>1 DEF TypeOK, APITypeOK, Servers
  <2>3. QED
    BY <1>0, <2>1, <2>2, GenerationTypes, SMTT(60) DEF GenerationsOrdered, Forward
<1>4. CASE RestartOperator
  <2>1. UNCHANGED <<server, lastUid>> /\ cache' = server /\ pc' = "idle"
    BY <1>4 DEF RestartOperator, Return, apiVars
  <2>2. QED
    BY <2>1, GenerationTypes, SMTT(60) DEF GenerationsOrdered, Forward
<1>5. CASE UNCHANGED vars
  BY <1>5, GenerationTypes, SMTT(60)
     DEF vars, apiVars, cacheVars, workVars, GenerationsOrdered, Forward
<1>6. QED
  BY <1>1, <1>2, <1>3, <1>4, <1>5 DEF Next, Reconcile

\* The observedGeneration of the first incarnation never goes backwards: a
\* reconcile that started from an old cache never overwrites the status of a
\* newer generation (applyStatus), whatever fails or restarts in between.
THEOREM ObservedGenerationForward == Spec => ObservedGenerationMonotone
<1>1. Init => GenerationsOrdered
  <2> SUFFICES ASSUME Init PROVE GenerationsOrdered
    OBVIOUS
  <2>1. PICK s \in FirstSpecs : server = [NoServer EXCEPT !.uid = 1, !.gen = 1, !.spec = s]
    BY DEF Init
  <2>2. server.gen = 1 /\ server.status.observedGeneration = 0 /\ cache.gen = 0 /\ pc = "idle"
        /\ lastUid = 1
    BY <2>1 DEF Init, NoServer, NoStatus
  <2>3. QED
    BY <2>2, SMTT(60) DEF GenerationsOrdered
<1>2. Spec => []TypeOK /\ []VerificationInv
  BY TypeCorrectness, Verification, PTL
<1>3. TypeOK /\ TypeOK' /\ VerificationInv /\ GenerationsOrdered /\ [Next]_vars
         => GenerationsOrdered' /\ [Forward]_server
  BY OrderedStep
<1>4. QED
  BY <1>1, <1>2, <1>3, PTL DEF Spec, ObservedGenerationMonotone, Forward

-----------------------------------------------------------------------------
(* Convergence: when nothing is pending, the Deployment, the binding, the  *)
(* status and the hash kept in memory are those that the spec and the      *)
(* cluster call for.                                                       *)

\* Two copies of an MCPServer that differ in their status alone.
SameServer(s, t) ==
    s.uid = t.uid /\ s.gen = t.gen /\ s.spec = t.spec /\ s.deleting = t.deleting

\* The copy c of s is behind in a way that the predicate of For(MCPServer) notices.
Behind(c, s) == c.uid # s.uid \/ c.gen # s.gen \/ c.deleting # s.deleting

\* The cached MCPServer is one there has been, and its generation settles its
\* spec; a provider registers generations of the binding that there have been.
Ordered ==
    /\ server.uid <= lastUid /\ cache.uid <= lastUid
    /\ cache.uid = server.uid /\ server.uid # 0 =>
          /\ cache.gen <= server.gen
          /\ cache.gen = server.gen => cache.spec = server.spec
    /\ binding.registered <= binding.gen /\ cbinding.registered <= cbinding.gen

\* The Deployment d is the one that the MCPServer s asks for.
DeployRight(s, d) == d.phase # "absent" /\ ~DeploymentNeedsUpdate(s, d)

\* A reconcile of s wrote the Deployment d, or the binding b, of which the cache
\* has an older version c, and that will not come to look like c again.
DeployAhead(s, d, c) == DeployRight(s, d) /\ ~DeployRight(s, c)

BindingAhead(s, b, c) ==
    /\ b.gateway # c.gateway
    /\ c.gateway = None => b.owner = s.uid

\* Something is on its way that will queue the MCPServer s.
Awaited(s) ==
    \/ queued
    \/ Behind(cache, server)
    \/ DeployAhead(s, deploy, cdeploy)
    \/ BindingAhead(s, binding, cbinding)

\* What Available says where a resource is missing or somebody else's.
Obstructed == refs = "missing" \/ foreign # "nothing"

ObstructedAvailable ==
    CASE refs = "missing" -> "ConfigurationInvalid"
      [] refs # "missing" /\ foreign = "Deployment" -> "WorkloadUnavailable"
      [] refs # "missing" /\ foreign = "Service" -> "ServiceUnavailable"
      [] refs # "missing" /\ foreign = "NetworkPolicy" -> "NetworkPolicyUnavailable"
      [] OTHER -> "GatewayNotRegistered"

\* The hash h of a CA bundle with the content c, which only TLS has.
HashRight(spec, h, c) == h \in IF spec.tls THEN {c, None} ELSE {None}

\* What the Deployment d and the binding b make of the status of s.
GatewayShown(s, status, d, b) ==
    /\ status.available = GatewayAvailability(DeploymentAvailability(d),
                                              GatewayCondition(s.spec.gateway, b))
    /\ status.gateway = GatewayCondition(s.spec.gateway, b)
    /\ status.binding = IF s.spec.gateway = None THEN None ELSE ProviderOf[s.spec.gateway]
    /\ status.address =
          PublishedAddress(status.verified,
              IF GatewayCondition(s.spec.gateway, b) = "GatewayRegistered" THEN b.url ELSE None)

\* The lookup of the binding failed in a reconcile that made the last handshake
\* retry: reconcileEndpoint returns nil for the exhausted handshake before it
\* gets to the error of the lookup, so that nothing repeats the lookup.
GatewayErrorDropped(s, status) ==
    /\ s.spec.gateway # None /\ status.gateway = "GatewayNotRegistered"
    /\ status.verified = "EndpointUnavailable" /\ status.exhausted

\* A handshake was made if the Deployment d is available.
Decided(status, d) ==
    DeploymentAvailability(d) = "Available" =>
        status.verified \in VerifiedTrue \cup {"EndpointUnavailable"}

\* What each step of a reconcile did, and found out about what does not change.
Done ==
    /\ pc = "idle" => hash = None
    /\ pc # "idle" =>
          /\ snap.uid # 0 /\ ~snap.deleting
          /\ draft.observedGeneration = snap.gen
          /\ queued \/ SameServer(cache, snap)
    /\ pc = "hash" => snap.spec.tls
    /\ pc \in {"deployment", "resources", "binding", "hash"} => hash = None
    /\ pc \in {"resources", "binding", "hash", "handshake", "gateway"} => foreign # "Deployment"
    /\ pc \in {"binding", "hash", "handshake", "gateway"} =>
          foreign # "Service" /\ foreign # "NetworkPolicy"
    /\ pc \in {"hash", "handshake", "gateway"} => foreign # "MCPGatewayBinding"
    /\ pc = "gateway" \/ (pc = "apply" /\ result \in {"endpoint", "endpointError"}) =>
          (draft.verified = "EndpointUnavailable" =>
              draft.exhausted = (retries.count >= MaxRetries))
    /\ pc = "apply" /\ result = "endpointError" =>
          snap.spec.gateway # None /\ draft.gateway = "GatewayNotRegistered"

\* What each step of a reconcile found out about what may change.
Knows ==
    /\ HashRight(snap.spec, hash, ca)
    /\ pc \notin {"idle", "apply"} => refs = "present"
    /\ pc \in {"resources", "binding", "hash", "handshake", "gateway"} =>
          /\ DeployRight(snap, cdeploy)
          /\ draft.available = DeploymentAvailability(cdeploy)
    /\ pc \in {"hash", "handshake", "gateway"} => cbinding.gateway = snap.spec.gateway
    /\ pc = "gateway" => Decided(draft, cdeploy)
    /\ pc = "apply" /\ result = "done" =>
          Obstructed /\ draft.available = ObstructedAvailable
    /\ pc = "apply" /\ result \in {"endpoint", "endpointError"} =>
          /\ ~Obstructed /\ DeployRight(snap, cdeploy) /\ cbinding.gateway = snap.spec.gateway
          /\ Decided(draft, cdeploy)
          /\ result = "endpoint" => GatewayShown(snap, draft, cdeploy, cbinding)

\* What a reconcile found out is still so, or it will be repeated.
Informed == pc # "idle" => Awaited(snap) \/ Knows

\* The status of s, and the hash h kept in memory, are what the caches call for.
Right(s, status, h) ==
    /\ status.observedGeneration = s.gen
    /\ Obstructed => status.available = ObstructedAvailable
    /\ ~Obstructed =>
          /\ DeployRight(s, cdeploy) /\ cbinding.gateway = s.spec.gateway
          /\ Decided(status, cdeploy)
          /\ status.verified = "EndpointUnavailable" => status.exhausted
          /\ status.verified \in VerifiedTrue => HashRight(s.spec, h, ca)
          /\ GatewayErrorDropped(s, status) \/ GatewayShown(s, status, cdeploy, cbinding)

\* Between two reconciles all is right, or another one will follow.
Settled ==
    pc = "idle" /\ Live => timer \/ Awaited(server) \/ Right(server, server.status, caHash)

ConvergenceInv == Ordered /\ Done /\ Informed /\ Settled

-----------------------------------------------------------------------------
(* The environment, the informers and the workqueue.                       *)

\* Initially the cache is behind.
LEMMA ConvergenceInit == Init => ConvergenceInv
<1> SUFFICES ASSUME Init PROVE ConvergenceInv
  OBVIOUS
<1>1. PICK s \in FirstSpecs : server = [NoServer EXCEPT !.uid = 1, !.gen = 1, !.spec = s]
  BY DEF Init
<1>2. server.uid = 1 /\ cache.uid = 0 /\ lastUid = 1
  BY <1>1, AbsentTypes DEF Init, NoServer, Servers
<1>3. Ordered
  BY <1>2, SMTT(60) DEF Init, Ordered, NoBinding
<1>4. Done /\ Informed
  BY DEF Init, Done, Informed
<1>5. Settled
  BY <1>2, SMTT(60) DEF Settled, Awaited, Behind
<1> QED
  BY <1>3, <1>4, <1>5 DEF ConvergenceInv

\* What the environment leaves alone; a change of what the spec refers to queues
\* the MCPServer.
LEMMA EnvironmentFrame ==
    ASSUME TypeOK, Environment
    PROVE  /\ UNCHANGED <<cache, cdeploy, cbinding, foreign, timer>>
           /\ UNCHANGED <<pc, snap, draft, hash, result, retries, caHash>>
           /\ queued => queued'
           /\ queued' \/ (refs' = refs /\ ca' = ca)
<1>1. CASE EditSpec \/ BeginDeletion \/ DeleteServer \/ RecreateServer \/ CollectGarbage
           \/ ObserveDeployment \/ DeploymentReady \/ DeploymentUnready
           \/ RegisterBinding \/ UnregisterBinding
  <2>1. UNCHANGED <<foreign, envVars, cacheVars, queueVars, workVars, memoryVars>>
    BY <1>1 DEF EditSpec, BeginDeletion, DeleteServer, RecreateServer, CollectGarbage,
       ObserveDeployment, DeploymentReady, DeploymentUnready, RegisterBinding, UnregisterBinding
  <2> QED
    BY <2>1 DEF envVars, cacheVars, queueVars, workVars, memoryVars
<1>2. CASE EndpointChanges \/ ReferencedResourceChanges \/ UnrelatedEvent
  BY <1>2, SMTT(60) DEF EndpointChanges, ReferencedResourceChanges, UnrelatedEvent, apiVars, envVars,
     cacheVars, queueVars, workVars, memoryVars
<1> QED
  BY <1>1, <1>2 DEF Environment

\* Who writes the MCPServer leaves the cache behind, unless it is deleted.
LEMMA ServerMoves ==
    ASSUME TypeOK, Ordered, Environment
    PROVE  /\ server'.uid <= lastUid' /\ cache.uid <= lastUid'
           /\ cache.uid = server'.uid /\ server'.uid # 0 =>
                 /\ cache.gen <= server'.gen
                 /\ cache.gen = server'.gen => cache.spec = server'.spec
           /\ \/ server' = server
              \/ Behind(cache, server')
              \/ /\ cache.uid = 0 \/ cache.deleting
                 /\ ~Live'
<1>1. /\ server \in Servers /\ cache \in Servers /\ lastUid \in Nat
      /\ server.uid \in Nat /\ server.gen \in Nat /\ cache.uid \in Nat /\ cache.gen \in Nat
      /\ server.deleting \in BOOLEAN /\ cache.deleting \in BOOLEAN
  BY DEF TypeOK, APITypeOK, CacheTypeOK, Servers
<1>2. CASE EditSpec
  <2>1. /\ lastUid' = lastUid /\ server'.uid = server.uid /\ server'.gen = server.gen + 1
        /\ server.uid # 0
    BY <1>1, <1>2 DEF EditSpec, Servers
  <2> QED
    BY <1>1, <2>1, SMTT(60) DEF Ordered, Behind
<1>3. CASE BeginDeletion
  <2>1. /\ lastUid' = lastUid /\ server'.uid = server.uid /\ server'.gen = server.gen
        /\ server'.spec = server.spec /\ server'.deleting
    BY <1>1, <1>3 DEF BeginDeletion, Servers
  <2> QED
    BY <1>1, <2>1 DEF Ordered, Behind, Live
<1>4. CASE DeleteServer
  <2>1. lastUid' = lastUid /\ server' = NoServer
    BY <1>4 DEF DeleteServer
  <2>2. server'.uid = 0
    BY <2>1 DEF NoServer
  <2> QED
    BY <1>1, <2>1, <2>2, SMTT(60) DEF Ordered, Behind, Live
<1>5. CASE RecreateServer
  <2>1. lastUid' = lastUid + 1 /\ server'.uid = lastUid + 1
    BY <1>1, <1>5, AbsentTypes DEF RecreateServer, Servers
  <2> QED
    BY <1>1, <2>1, SMTT(60) DEF Ordered, Behind
<1>6. CASE server' = server /\ lastUid' = lastUid
  BY <1>6 DEF Ordered
<1>7. \/ EditSpec \/ BeginDeletion \/ DeleteServer \/ RecreateServer
      \/ (server' = server /\ lastUid' = lastUid)
  BY DEF Environment, CollectGarbage, ObserveDeployment, DeploymentReady, DeploymentUnready,
     RegisterBinding, UnregisterBinding, EndpointChanges, ReferencedResourceChanges,
     UnrelatedEvent, apiVars
<1> QED
  BY <1>2, <1>3, <1>4, <1>5, <1>6, <1>7

\* What was written for s is not undone while s is there.
LEMMA AheadKept ==
    ASSUME TypeOK, Environment, NEW s, s.uid = server.uid
    PROVE  /\ DeployAhead(s, deploy, cdeploy) => DeployAhead(s, deploy', cdeploy)
           /\ BindingAhead(s, binding, cbinding) => BindingAhead(s, binding', cbinding)
           /\ binding.registered <= binding.gen => binding'.registered <= binding'.gen
<1>1. deploy \in Deployments /\ binding \in Bindings /\ binding.gen \in Nat
  BY DEF TypeOK, APITypeOK, Bindings
<1>2. CASE CollectGarbage
  <2>1. \/ deploy' = deploy
        \/ deploy.owner # s.uid
    BY <1>2 DEF CollectGarbage
  <2>2. \/ binding' = binding
        \/ binding' = NoBinding /\ binding.gateway # None /\ binding.owner # s.uid
    BY <1>2 DEF CollectGarbage
  <2>3. DeployAhead(s, deploy, cdeploy) => DeployAhead(s, deploy', cdeploy)
    BY <2>1 DEF DeployAhead, DeployRight, DeploymentNeedsUpdate
  <2> QED
    BY <2>2, <2>3, SMTT(60) DEF BindingAhead, NoBinding
<1>3. CASE ObserveDeployment \/ DeploymentReady \/ DeploymentUnready
  <2>1. /\ binding' = binding /\ deploy'.phase = "current"
        /\ deploy'.owner = deploy.owner /\ deploy'.image = deploy.image
        /\ deploy'.replicas = deploy.replicas
    BY <1>1, <1>3 DEF ObserveDeployment, DeploymentReady, DeploymentUnready, Deployments
  <2> QED
    BY <2>1 DEF DeployAhead, DeployRight, DeploymentNeedsUpdate
<1>4. CASE RegisterBinding \/ UnregisterBinding
  <2>1. /\ deploy' = deploy /\ binding'.gateway = binding.gateway
        /\ binding'.owner = binding.owner /\ binding'.gen = binding.gen
        /\ binding'.registered \in {0, binding.gen}
    BY <1>1, <1>4 DEF RegisterBinding, UnregisterBinding, Bindings
  <2> QED
    BY <1>1, <2>1, SMTT(60) DEF BindingAhead
<1>5. CASE deploy' = deploy /\ binding' = binding
  BY <1>5
<1> QED
  BY <1>2, <1>3, <1>4, <1>5 DEF Environment, EditSpec, BeginDeletion, DeleteServer,
     RecreateServer, EndpointChanges, ReferencedResourceChanges, UnrelatedEvent, apiVars

\* What a reconcile knows, and what is right between two, depends on the caches
\* and on what the spec refers to.
LEMMA KnowsKept ==
    ASSUME UNCHANGED <<refs, ca, foreign, cdeploy, cbinding, pc, snap, draft, hash, result>>
    PROVE  Knows => Knows'
BY DEF Knows, Obstructed, ObstructedAvailable

\* What is right for the caches and the references stays so while they do.
LEMMA RightKept ==
    ASSUME UNCHANGED <<refs, ca, foreign, cdeploy, cbinding>>, NEW s, NEW status, NEW h
    PROVE  Right(s, status, h) => Right(s, status, h)'
BY DEF Right, Obstructed, ObstructedAvailable

\* The environment keeps the invariant: what it changes, the informers have yet
\* to deliver.
LEMMA EnvironmentConverges ==
    ASSUME TypeOK, ConvergenceInv, Environment
    PROVE  ConvergenceInv'
<1> USE EnvironmentFrame
<1>1. Ordered'
  <2>1. PICK s : s = server
    OBVIOUS
  <2>2. binding'.registered <= binding'.gen
    BY <2>1, AheadKept DEF ConvergenceInv, Ordered
  <2> QED
    BY <2>2, ServerMoves DEF ConvergenceInv, Ordered
<1>2. Done'
  BY DEF ConvergenceInv, Done
<1>3. CASE server' = server
  <2>1. Informed'
    <3>1. CASE pc # "idle" /\ Awaited(snap)
      <4>1. CASE queued \/ Behind(cache, server)
        BY <1>3, <3>1, <4>1 DEF Informed, Awaited
      <4>2. CASE ~queued /\ ~Behind(cache, server)
        <5>1. snap.uid = server.uid
          BY <3>1, <4>2 DEF ConvergenceInv, Done, SameServer, Behind
        <5> QED
          BY <3>1, <4>2, <5>1, AheadKept DEF Informed, Awaited
      <4> QED
        BY <4>1, <4>2
    <3>2. CASE pc # "idle" /\ Knows
      BY <3>2, KnowsKept DEF Informed, Awaited
    <3> QED
      BY <3>1, <3>2 DEF ConvergenceInv, Informed
  <2>2. Settled'
    <3>1. CASE Awaited(server)
      BY <1>3, <3>1, AheadKept DEF Settled, Awaited
    <3>2. CASE pc = "idle" /\ Live /\ Right(server, server.status, caHash)
      <4>1. queued' \/ Right(server, server.status, caHash)'
        BY <1>3, <3>2, RightKept DEF Right, Obstructed, ObstructedAvailable
      <4> QED
        BY <4>1 DEF Settled, Awaited
    <3> QED
      BY <1>3, <3>1, <3>2 DEF ConvergenceInv, Settled, Live
  <2> QED
    BY <1>1, <1>2, <2>1, <2>2 DEF ConvergenceInv
<1>4. CASE server' # server
  <2>1. \/ Behind(cache, server')
        \/ /\ cache.uid = 0 \/ cache.deleting
           /\ ~Live'
    BY <1>4, ServerMoves DEF ConvergenceInv
  <2>2. Informed'
    BY <2>1 DEF ConvergenceInv, Done, Informed, Awaited, SameServer
  <2>3. Settled'
    BY <2>1 DEF Settled, Awaited
  <2> QED
    BY <1>1, <1>2, <2>2, <2>3 DEF ConvergenceInv
<1> QED
  BY <1>3, <1>4

\* An informer that delivers a change queues the MCPServer, unless only its
\* status changed, which nothing here depends on.
LEMMA RuntimeConverges ==
    ASSUME TypeOK, ConvergenceInv, Informers \/ TimerFires \/ RestartOperator
    PROVE  ConvergenceInv'
<1>0. /\ server.uid \in Nat /\ server.gen \in Nat /\ lastUid \in Nat
      /\ cache.uid \in Nat /\ cache.gen \in Nat
  BY DEF TypeOK, APITypeOK, CacheTypeOK, Servers
<1> USE DEF apiVars, envVars, cacheVars, queueVars, workVars, memoryVars
<1>1. CASE SyncServer
  <2>1. /\ UNCHANGED <<server, lastUid, deploy, binding, foreign, ca, refs, cdeploy, cbinding>>
        /\ UNCHANGED <<timer, pc, snap, draft, hash, result, retries, caHash>>
        /\ cache' = server /\ queued' = (queued \/ Behind(cache, server))
    BY <1>1 DEF SyncServer, Behind
  <2>2. Ordered'
    BY <1>0, <2>1, SMTT(60) DEF ConvergenceInv, Ordered
  <2>3. CASE queued \/ Behind(cache, server)
    <3>1. queued'
      BY <2>1, <2>3
    <3>2. Done'
      BY <2>1, <3>1 DEF ConvergenceInv, Done
    <3> QED
      BY <2>2, <3>1, <3>2 DEF ConvergenceInv, Informed, Settled, Awaited
  <2>4. CASE ~queued /\ ~Behind(cache, server)
    <3>1. pc # "idle" => SameServer(server, snap)
      BY <2>4 DEF ConvergenceInv, Done, SameServer, Behind, Ordered
    <3>2. Done'
      BY <2>1, <3>1 DEF ConvergenceInv, Done
    <3>3. Informed'
      <4>1. Awaited(snap) => Awaited(snap)'
        BY <2>1, <2>4 DEF Awaited
      <4> QED
        BY <2>1, <4>1, KnowsKept DEF ConvergenceInv, Informed
    <3>4. Settled'
      <4>1. Awaited(server) => Awaited(server)'
        BY <2>1, <2>4 DEF Awaited
      <4>2. Right(server, server.status, caHash) => Right(server, server.status, caHash)'
        BY <2>1 DEF Right, Obstructed, ObstructedAvailable
      <4> QED
        BY <2>1, <4>1, <4>2 DEF ConvergenceInv, Settled, Live
    <3> QED
      BY <2>2, <3>2, <3>3, <3>4 DEF ConvergenceInv
  <2> QED
    BY <2>3, <2>4
<1>2. CASE SyncOwned \/ TimerFires
  <2>1. /\ UNCHANGED <<server, lastUid, binding, cache, foreign>>
        /\ UNCHANGED <<pc, snap, draft, hash, result, retries>>
        /\ cbinding' \in {cbinding, binding} /\ queued'
    BY <1>2 DEF SyncOwned, TimerFires
  <2>2. Ordered'
    BY <2>1 DEF ConvergenceInv, Ordered
  <2>3. Done'
    BY <2>1 DEF ConvergenceInv, Done
  <2> QED
    BY <2>1, <2>2, <2>3 DEF ConvergenceInv, Informed, Settled, Awaited
<1>3. CASE RestartOperator
  <2>1. /\ server' = server /\ lastUid' = lastUid /\ binding' = binding
        /\ cache' = server /\ cbinding' = binding /\ queued' = (server.uid # 0)
        /\ pc' = "idle" /\ hash' = None
    BY <1>3 DEF RestartOperator, Return
  <2>2. Ordered' /\ Done'
    BY <1>0, <2>1, SMTT(60) DEF ConvergenceInv, Ordered, Done
  <2>3. Informed' /\ Settled'
    BY <2>1 DEF Informed, Settled, Awaited, Live
  <2> QED
    BY <2>2, <2>3 DEF ConvergenceInv
<1> QED
  BY <1>1, <1>2, <1>3 DEF Informers

-----------------------------------------------------------------------------
(* The reconcile.                                                          *)

\* A new reconcile starts from what the cache shows, or finds nothing to do.
LEMMA FetchConverges ==
    ASSUME TypeOK, ConvergenceInv, FetchNotFound \/ FetchSkipped \/ Fetch
    PROVE  ConvergenceInv'
<1> USE DEF apiVars, envVars, cacheVars, queueVars, workVars, memoryVars
<1>1. CASE FetchNotFound \/ FetchSkipped
  <2>1. /\ UNCHANGED <<server, lastUid, binding, cache, cbinding, pc, hash>> /\ pc = "idle"
        /\ cache.uid = 0 \/ cache.deleting
    BY <1>1 DEF FetchNotFound, FetchSkipped
  <2>2. Ordered' /\ Done' /\ Informed'
    BY <2>1 DEF ConvergenceInv, Ordered, Done, Informed
  <2>3. Settled'
    BY <2>1 DEF Settled, Live, Awaited, Behind
  <2> QED
    BY <2>2, <2>3 DEF ConvergenceInv
<1>2. CASE Fetch
  <2>1. /\ pc = "idle" /\ queued /\ cache.uid # 0 /\ ~cache.deleting
        /\ UNCHANGED <<server, lastUid, cache, cbinding, foreign, refs, ca, hash>>
        /\ binding' \in {binding, NoBinding}
    BY <1>2 DEF Fetch, CleanupGatewayBindingIfRemoved
  <2>2. Ordered'
    BY <2>1, SMTT(60) DEF ConvergenceInv, Ordered, NoBinding
  <2>3. hash = None /\ HashRight(cache.spec, None, ca)
    BY <2>1 DEF ConvergenceInv, Done, HashRight
  <2>4. CASE pc' = pc /\ queued' = queued
    BY <2>1, <2>2, <2>3, <2>4 DEF ConvergenceInv, Done, Informed, Settled, Awaited
  <2>5. CASE /\ refs = "missing" /\ pc' = "apply" /\ snap' = cache /\ result' = "done"
             /\ draft' = FailureStatus(cache, "False", "ConfigurationInvalid")
    <3>1. draft'.observedGeneration = cache.gen /\ draft'.available = "ConfigurationInvalid"
      BY <2>5 DEF FailureStatus
    <3>2. Done'
      BY <2>1, <2>5, <3>1 DEF Done, SameServer
    <3>3. Knows'
      BY <2>1, <2>3, <2>5, <3>1 DEF Knows, Obstructed, ObstructedAvailable
    <3> QED
      BY <2>2, <2>5, <3>2, <3>3 DEF ConvergenceInv, Informed, Settled
  <2>6. CASE /\ refs = "present" /\ pc' = "deployment" /\ snap' = cache
             /\ draft' = [NoStatus EXCEPT !.observedGeneration = cache.gen,
                                          !.accepted = "True"]
    <3>1. draft'.observedGeneration = cache.gen
      BY <2>6, AbsentTypes DEF Status
    <3>2. Done'
      BY <2>1, <2>3, <2>6, <3>1 DEF Done, SameServer
    <3>3. Knows'
      BY <2>1, <2>3, <2>6 DEF Knows
    <3> QED
      BY <2>2, <2>6, <3>2, <3>3 DEF ConvergenceInv, Informed, Settled
  <2> QED
    BY <1>2, <2>4, <2>5, <2>6 DEF Fetch
<1> QED
  BY <1>1, <1>2

\* A step that fails for good names what obstructs it; one that may go well the
\* next time returns an error.
LEMMA FailConverges ==
    ASSUME ConvergenceInv, pc \notin {"idle", "apply"}, NEW reason, NEW outcome,
           Fail("True", reason, outcome), outcome \in {"done", "error"},
           UNCHANGED <<server, lastUid, deploy, binding, cache, cdeploy, cbinding, foreign,
                       refs, ca, queued>>,
           outcome = "done" /\ refs = "present" => Obstructed /\ reason = ObstructedAvailable
    PROVE  ConvergenceInv'
<1>1. /\ pc' = "apply" /\ snap' = snap /\ hash' = hash /\ result' = outcome
      /\ draft'.observedGeneration = snap.gen /\ draft'.available = reason
  BY DEF Fail, FailureStatus
<1>2. Ordered'
  BY DEF ConvergenceInv, Ordered
<1>3. Done'
  BY <1>1 DEF ConvergenceInv, Done
<1>4. Knows => Knows'
  BY <1>1 DEF Knows, Obstructed, ObstructedAvailable
<1>5. Informed'
  BY <1>1, <1>4 DEF ConvergenceInv, Informed, Awaited
<1>6. Settled'
  BY <1>1 DEF Settled
<1> QED
  BY <1>2, <1>3, <1>5, <1>6 DEF ConvergenceInv

\* A conflict is retried after a while.
LEMMA LaterConverges ==
    ASSUME ConvergenceInv, Finish("later"),
           UNCHANGED <<server, lastUid, binding, cache, cbinding>>
    PROVE  ConvergenceInv'
<1>1. pc' = "idle" /\ hash' = None /\ timer'
  BY DEF Finish, Return
<1>2. Ordered' /\ Done'
  BY <1>1 DEF ConvergenceInv, Ordered, Done
<1>3. Informed' /\ Settled'
  BY <1>1 DEF Informed, Settled
<1> QED
  BY <1>2, <1>3 DEF ConvergenceInv

\* The Deployment is the one asked for, or it is written and the informer will
\* deliver it.
LEMMA DeploymentConverges ==
    ASSUME TypeOK, ConvergenceInv, ReconcileDeployment
    PROVE  ConvergenceInv'
<1> USE DEF apiVars, envVars, cacheVars, queueVars, workVars, memoryVars
<1>1. /\ pc = "deployment" /\ snap \in Servers /\ cdeploy \in Deployments
      /\ UNCHANGED <<server, lastUid, binding, foreign, refs, ca, cache, cbinding>>
  BY DEF ReconcileDeployment, TypeOK, WorkTypeOK, CacheTypeOK
<1>2. Ordered'
  BY <1>1 DEF ConvergenceInv, Ordered
<1>3. ASSUME NEW d, Deployed(d), foreign # "Deployment",
             \/ Awaited(snap)'
             \/ cdeploy' = cdeploy /\ d = cdeploy /\ DeployRight(snap, cdeploy) /\ Informed
                  /\ (Awaited(snap) => Awaited(snap)'),
             queued => queued'
      PROVE  ConvergenceInv'
  <2>1. /\ pc' = "resources" /\ UNCHANGED <<snap, hash, result>>
        /\ draft'.observedGeneration = draft.observedGeneration
        /\ draft'.available = DeploymentAvailability(d)
    BY <1>3 DEF Deployed, TypeOK, WorkTypeOK, Status
  <2>2. Done'
    BY <1>1, <1>3, <2>1 DEF ConvergenceInv, Done
  <2>3. cdeploy' = cdeploy /\ d = cdeploy /\ DeployRight(snap, cdeploy) /\ Knows => Knows'
    BY <1>1, <2>1 DEF Knows
  <2>4. Informed'
    BY <1>1, <1>3, <2>1, <2>3 DEF Informed
  <2>5. Settled'
    BY <2>1 DEF Settled
  <2> QED
    BY <1>2, <2>2, <2>4, <2>5 DEF ConvergenceInv
<1>4. CASE /\ foreign = "Deployment" /\ Fail("True", "WorkloadUnavailable", "done")
           /\ UNCHANGED <<deploy, cdeploy, queueVars>>
  BY <1>1, <1>4, FailConverges DEF Obstructed, ObstructedAvailable
<1>5. CASE /\ Fail("True", "WorkloadUnavailable", "error")
           /\ UNCHANGED <<deploy, cdeploy, queueVars>>
  BY <1>1, <1>5, FailConverges
<1>6. CASE /\ foreign # "Deployment" /\ cdeploy.phase = "absent" /\ UNCHANGED <<cdeploy, queueVars>>
           /\ deploy' = DesiredDeployment(snap) /\ Deployed(DesiredDeployment(snap))
  <2>1. DeployAhead(snap, deploy', cdeploy)
    BY <1>6 DEF DeployAhead, DeployRight, DeploymentNeedsUpdate, DesiredDeployment
  <2>2. snap' = snap
    BY <1>6 DEF Deployed
  <2> QED
    BY <1>3, <1>6, <2>1, <2>2 DEF Awaited
<1>7. CASE /\ foreign # "Deployment" /\ cdeploy.phase # "absent"
           /\ ~DeploymentNeedsUpdate(snap, cdeploy) /\ Deployed(cdeploy)
           /\ UNCHANGED <<deploy, cdeploy, queueVars>>
  <2>1. DeployRight(snap, cdeploy) /\ snap' = snap
    BY <1>7 DEF DeployRight, Deployed
  <2>2. Awaited(snap) => Awaited(snap)'
    BY <1>1, <1>7, <2>1 DEF Awaited
  <2> QED
    BY <1>3, <1>7, <2>1, <2>2 DEF ConvergenceInv
<1>8. CASE /\ foreign # "Deployment" /\ cdeploy.phase # "absent"
           /\ DeploymentNeedsUpdate(snap, cdeploy)
           /\ deploy' = UpdatedDeployment(snap, cdeploy)
           /\ \E synced \in BOOLEAN :
                 /\ cdeploy' = IF synced THEN deploy' ELSE cdeploy
                 /\ queued' = (queued \/ synced)
                 /\ Deployed(cdeploy')
  <2>1. deploy'.phase # "absent" /\ ~DeploymentNeedsUpdate(snap, deploy')
    BY <1>8 DEF UpdatedDeployment, DesiredDeployment, DeploymentNeedsUpdate
  <2>2. DeployAhead(snap, deploy', cdeploy)
    BY <1>8, <2>1 DEF DeployAhead, DeployRight
  <2>3. snap' = snap /\ (queued' \/ cdeploy' = cdeploy) /\ Deployed(cdeploy') /\ (queued => queued')
    BY <1>8 DEF Deployed
  <2>4. Awaited(snap)'
    BY <2>2, <2>3 DEF Awaited
  <2> QED
    BY <1>3, <1>8, <2>3, <2>4
<1>9. CASE Finish("later")
  BY <1>1, <1>9, LaterConverges
<1>10. CASE /\ foreign # "Deployment" /\ cdeploy.phase # "absent"
            /\ DeploymentNeedsUpdate(snap, cdeploy)
            /\ deploy' = UpdatedDeployment(snap, cdeploy)
            /\ Fail("True", "WorkloadUnavailable", "error")
            /\ UNCHANGED <<cdeploy, queueVars>>
  <2>1. deploy'.phase # "absent" /\ ~DeploymentNeedsUpdate(snap, deploy')
    BY <1>10 DEF UpdatedDeployment, DesiredDeployment, DeploymentNeedsUpdate
  <2>2. DeployAhead(snap, deploy', cdeploy)
    BY <1>10, <2>1 DEF DeployAhead, DeployRight
  <2>3. /\ pc' = "apply" /\ snap' = snap /\ hash' = hash /\ result' = "error"
        /\ draft'.observedGeneration = snap.gen /\ draft'.available = "WorkloadUnavailable"
    BY <1>10 DEF Fail, FailureStatus
  <2>4. Informed'
    BY <1>10, <2>2, <2>3 DEF Informed, Awaited
  <2>5. Done'
    BY <1>1, <1>10, <2>3 DEF ConvergenceInv, Done
  <2>6. Settled'
    BY <2>3 DEF Settled
  <2> QED
    BY <1>2, <2>4, <2>5, <2>6 DEF ConvergenceInv
<1> QED
  BY <1>4, <1>5, <1>6, <1>7, <1>8, <1>9, <1>10 DEF ReconcileDeployment

\* Service, NetworkPolicy and binding are as they should be, or somebody else's;
\* a binding that was written differs from the cached one until it is delivered.
LEMMA ResourcesConverge ==
    ASSUME TypeOK, ConvergenceInv, ReconcileResources
    PROVE  ConvergenceInv'
<1> USE DEF apiVars, envVars, cacheVars, queueVars, workVars, memoryVars
<1>1. /\ pc = "resources"
      /\ UNCHANGED <<server, lastUid, deploy, binding, foreign, refs, ca, cache, cdeploy,
                     cbinding, retries>>
  BY DEF ReconcileResources
<1>2. Ordered'
  BY <1>1 DEF ConvergenceInv, Ordered
<1>3. CASE foreign \notin {"Service", "NetworkPolicy"} /\ Proceed("binding")
  <2>1. pc' = "binding" /\ UNCHANGED <<snap, draft, hash, result, queued>>
    BY <1>3 DEF Proceed
  <2>2. Done'
    BY <1>1, <1>3, <2>1 DEF ConvergenceInv, Done
  <2>3. Knows => Knows'
    BY <1>1, <2>1 DEF Knows
  <2>4. Informed'
    BY <1>1, <2>1, <2>3 DEF ConvergenceInv, Informed, Awaited
  <2>5. Settled'
    BY <2>1 DEF Settled
  <2> QED
    BY <1>2, <2>2, <2>4, <2>5 DEF ConvergenceInv
<1>4. CASE foreign = "Service" /\ Fail("True", "ServiceUnavailable", "done") /\ UNCHANGED queueVars
  BY <1>1, <1>4, FailConverges DEF Obstructed, ObstructedAvailable
<1>5. CASE foreign = "NetworkPolicy" /\ Fail("True", "NetworkPolicyUnavailable", "done")
             /\ UNCHANGED queueVars
  BY <1>1, <1>5, FailConverges DEF Obstructed, ObstructedAvailable
<1>6. CASE (\/ Fail("True", "ServiceUnavailable", "error")
            \/ Fail("True", "NetworkPolicyUnavailable", "error")) /\ UNCHANGED queueVars
  BY <1>1, <1>6, FailConverges
<1>7. CASE Finish("later")
  BY <1>1, <1>7, LaterConverges
<1> QED
  BY <1>3, <1>4, <1>5, <1>6, <1>7 DEF ReconcileResources

\* The binding in the cache is the one the spec asks for, or the one written is
\* ahead of it.
LEMMA BindingConverges ==
    ASSUME TypeOK, ConvergenceInv, ReconcileGatewayBinding
    PROVE  ConvergenceInv'
<1> USE DEF apiVars, envVars, cacheVars, queueVars, workVars, memoryVars
<1>1. /\ pc = "binding" /\ binding \in Bindings
      /\ UNCHANGED <<server, lastUid, deploy, foreign, refs, ca, cache, cdeploy, cbinding, retries>>
  BY DEF ReconcileGatewayBinding, TypeOK, APITypeOK
<1>2. ASSUME Proceed(AfterBinding), foreign # "MCPGatewayBinding",
             binding'.registered <= binding'.gen,
             \/ binding' = binding /\ cbinding.gateway = snap.spec.gateway
             \/ BindingAhead(snap, binding', cbinding)
      PROVE  ConvergenceInv'
  <2>1. /\ pc' \in {"hash", "handshake"} /\ (pc' = "hash" => snap.spec.tls)
        /\ UNCHANGED <<snap, draft, hash, result, queued>>
    BY <1>2 DEF Proceed, AfterBinding
  <2>2. Ordered'
    BY <1>1, <1>2 DEF ConvergenceInv, Ordered
  <2>3. Done'
    BY <1>1, <1>2, <2>1 DEF ConvergenceInv, Done
  <2>4. binding' = binding /\ cbinding.gateway = snap.spec.gateway /\ Knows => Knows'
    BY <1>1, <2>1 DEF Knows
  <2>5. Informed'
    BY <1>1, <1>2, <2>1, <2>4 DEF ConvergenceInv, Informed, Awaited
  <2>6. Settled'
    BY <2>1 DEF Settled
  <2> QED
    BY <2>2, <2>3, <2>5, <2>6 DEF ConvergenceInv
<1>3. CASE foreign = "MCPGatewayBinding" /\ Fail("True", "GatewayNotRegistered", "done")
             /\ UNCHANGED <<binding, queueVars>>
  BY <1>1, <1>3, FailConverges DEF Obstructed, ObstructedAvailable
<1>4. CASE Fail("True", "GatewayNotRegistered", "error") /\ UNCHANGED <<binding, queueVars>>
  BY <1>1, <1>4, FailConverges
<1>5. CASE foreign # "MCPGatewayBinding" /\ cbinding.gateway = snap.spec.gateway
             /\ Proceed(AfterBinding) /\ UNCHANGED binding
  BY <1>2, <1>5 DEF ConvergenceInv, Ordered
<1>6. CASE foreign # "MCPGatewayBinding" /\ cbinding.gateway # None
             /\ binding' = NoBinding /\ Proceed(AfterBinding)
  BY <1>2, <1>6, SMTT(60) DEF BindingAhead, NoBinding
<1>7. CASE /\ foreign # "MCPGatewayBinding" /\ cbinding.gateway = None /\ snap.spec.gateway # None
           /\ binding' = [NoBinding EXCEPT !.owner = snap.uid, !.gen = 1,
                                           !.gateway = snap.spec.gateway]
           /\ Proceed(AfterBinding)
  <2>1. /\ binding'.gateway = snap.spec.gateway /\ binding'.owner = snap.uid
        /\ binding'.registered = 0 /\ binding'.gen = 1
    BY <1>7 DEF NoBinding
  <2> QED
    BY <1>2, <1>7, <2>1, SMTT(60) DEF BindingAhead
<1>8. CASE /\ foreign # "MCPGatewayBinding" /\ cbinding.gateway # None
           /\ cbinding.gateway # snap.spec.gateway
           /\ binding' = [binding EXCEPT !.gateway = snap.spec.gateway, !.gen = @ + 1]
           /\ Proceed(AfterBinding)
  <2>1. /\ binding'.gateway = snap.spec.gateway /\ binding'.registered = binding.registered
        /\ binding'.gen = binding.gen + 1 /\ binding.gen \in Nat /\ binding.registered \in Nat
    BY <1>1, <1>8 DEF Bindings
  <2>2. binding'.registered <= binding'.gen
    BY <2>1, SMTT(60) DEF ConvergenceInv, Ordered
  <2> QED
    BY <1>2, <1>8, <2>1, <2>2 DEF BindingAhead
<1>9. CASE Finish("later") /\ UNCHANGED binding
  BY <1>1, <1>9, LaterConverges
<1> QED
  BY <1>3, <1>4, <1>5, <1>6, <1>7, <1>8, <1>9 DEF ReconcileGatewayBinding, DeleteBinding

\* The hash is that of the bundle, or none, and the handshake is decided.
LEMMA HandshakeConverges ==
    ASSUME TypeOK, ConvergenceInv, ComputeCABundleHash \/ Handshake
    PROVE  ConvergenceInv'
<1> USE DEF apiVars, envVars, cacheVars, queueVars, workVars, memoryVars
<1>1. UNCHANGED <<server, lastUid, deploy, binding, foreign, refs, ca, cache, cdeploy,
                  cbinding, queued, snap, result>>
  BY DEF ComputeCABundleHash, Handshake
<1>2. Ordered'
  BY <1>1 DEF ConvergenceInv, Ordered
<1>3. CASE ComputeCABundleHash
  <2>1. pc = "hash" /\ pc' = "handshake" /\ draft' = draft /\ hash' \in {ca, None}
    BY <1>3 DEF ComputeCABundleHash
  <2>2. Done'
    BY <1>1, <2>1 DEF ConvergenceInv, Done
  <2>3. Knows => Knows'
    BY <1>1, <2>1 DEF Knows, ConvergenceInv, Done, HashRight
  <2>4. Informed'
    BY <1>1, <2>1, <2>3 DEF ConvergenceInv, Informed, Awaited
  <2>5. Settled'
    BY <2>1 DEF Settled
  <2> QED
    BY <1>2, <2>2, <2>4, <2>5 DEF ConvergenceInv
<1>4. CASE Handshake
  <2>1. pc = "handshake" /\ pc' = "gateway" /\ hash' = hash
    BY <1>4 DEF Handshake
  <2>2. /\ draft'.available = draft.available
        /\ draft'.observedGeneration = draft.observedGeneration
        /\ \/ draft.available # "Available" /\ draft'.verified = "NotVerified"
           \/ draft'.verified \in VerifiedTrue
           \/ /\ draft'.verified = "EndpointUnavailable"
              /\ draft'.exhausted = (retries'.count >= MaxRetries)
    <3>1. ASSUME NEW v, NEW x, NEW i, Verdict(v, x, i)
          PROVE  /\ draft'.available = draft.available
                 /\ draft'.observedGeneration = draft.observedGeneration
                 /\ draft'.verified = v /\ draft'.exhausted = x
      BY <3>1 DEF Verdict, TypeOK, WorkTypeOK, Status
    <3>2. CASE draft.available # "Available" /\ Verdict("NotVerified", FALSE, FALSE)
      BY <3>1, <3>2
    <3>3. CASE AlreadyVerified(snap, caHash, hash) /\ Verdict(snap.status.verified, FALSE, TRUE)
      BY <3>1, <3>3 DEF AlreadyVerified
    <3>4. CASE \E e \in {endpoint, "down"} :
                  IF e = "down"
                  THEN Verdict(Answer(e), retries'.count >= MaxRetries, FALSE)
                  ELSE Verdict(Answer(e), FALSE, TRUE)
      <4>1. PICK e \in {endpoint, "down"} :
                  IF e = "down"
                  THEN Verdict(Answer(e), retries'.count >= MaxRetries, FALSE)
                  ELSE Verdict(Answer(e), FALSE, TRUE)
        BY <3>4
      <4>2. e \in {"up", "auth", "down"}
        BY ControllerAssumption DEF TypeOK, EnvTypeOK
      <4>3. CASE e = "down"
        BY <3>1, <4>1, <4>3 DEF Answer
      <4>4. CASE e # "down"
        BY <3>1, <4>1, <4>2, <4>4 DEF Answer, VerifiedTrue
      <4> QED
        BY <4>3, <4>4
    <3> QED
      BY <1>4, <3>2, <3>3, <3>4 DEF Handshake
  <2>3. "EndpointUnavailable" \notin VerifiedTrue
    BY DEF VerifiedTrue
  <2>4. Done'
    BY <1>1, <2>1, <2>2, <2>3 DEF ConvergenceInv, Done
  <2>5. Knows => Knows'
    BY <1>1, <2>1, <2>2 DEF Knows, Decided
  <2>6. Informed'
    BY <1>1, <2>1, <2>5 DEF ConvergenceInv, Informed, Awaited
  <2>7. Settled'
    BY <2>1 DEF Settled
  <2> QED
    BY <1>2, <2>4, <2>6, <2>7 DEF ConvergenceInv
<1> QED
  BY <1>3, <1>4

\* The gateway's part of the status is what the cached binding shows, unless the
\* lookup fails.
LEMMA GatewayConverges ==
    ASSUME TypeOK, ConvergenceInv, ReconcileGatewayCondition
    PROVE  ConvergenceInv'
<1> USE DEF apiVars, envVars, cacheVars, queueVars, workVars, memoryVars
<1> DEFINE Condition(failed) == IF failed THEN "GatewayNotRegistered"
                                ELSE GatewayCondition(snap.spec.gateway, cbinding)
           Url(failed) == IF Condition(failed) = "GatewayRegistered"
                          THEN (IF failed THEN NoBinding ELSE cbinding).url ELSE None
           Provider(failed) ==
              IF snap.spec.gateway # None /\ (IF failed THEN NoBinding ELSE cbinding).gateway # None
              THEN ProviderOf[(IF failed THEN NoBinding ELSE cbinding).gateway] ELSE None
<1>1. /\ pc = "gateway" /\ pc' = "apply"
      /\ UNCHANGED <<server, lastUid, deploy, binding, foreign, refs, ca, cache, cdeploy,
                     cbinding, queued, snap, hash, retries>>
  BY DEF ReconcileGatewayCondition
<1>2. PICK failed \in {FALSE, snap.spec.gateway # None} :
           /\ result' = IF failed THEN "endpointError" ELSE "endpoint"
           /\ draft' = [draft EXCEPT
                 !.available = GatewayAvailability(draft.available, Condition(failed)),
                 !.gateway = Condition(failed),
                 !.binding = Provider(failed),
                 !.address = PublishedAddress(draft.verified, Url(failed))]
  BY DEF ReconcileGatewayCondition
<1>3. failed => snap.spec.gateway # None
  BY <1>2
<1> HIDE DEF Condition, Url, Provider
<1>4. /\ draft'.observedGeneration = draft.observedGeneration
      /\ draft'.verified = draft.verified /\ draft'.exhausted = draft.exhausted
      /\ draft'.available = GatewayAvailability(draft.available, Condition(failed))
      /\ draft'.gateway = Condition(failed) /\ draft'.binding = Provider(failed)
      /\ draft'.address = PublishedAddress(draft.verified, Url(failed))
  BY <1>2 DEF TypeOK, WorkTypeOK, Status
<1>5. Ordered'
  BY <1>1 DEF ConvergenceInv, Ordered
<1>6. Done'
  <2>1. failed => draft'.gateway = "GatewayNotRegistered"
    BY <1>4 DEF Condition
  <2>2. result' = "endpointError" => failed
    BY <1>2
  <2> QED
    BY <1>1, <1>3, <1>4, <2>1, <2>2 DEF ConvergenceInv, Done
<1>7. ASSUME Knows PROVE Knows'
  <2>1. foreign = "nothing" /\ refs = "present"
    BY <1>1, <1>7, ControllerAssumption DEF ConvergenceInv, Done, Knows, TypeOK, APITypeOK
  <2>2. Decided(draft', cdeploy)
    BY <1>1, <1>4, <1>7 DEF Knows, Decided
  <2>3. ASSUME ~failed PROVE GatewayShown(snap, draft', cdeploy, cbinding)
    <3>1. /\ draft.available = DeploymentAvailability(cdeploy)
          /\ cbinding.gateway = snap.spec.gateway
      BY <1>1, <1>7 DEF Knows
    <3>2. Condition(failed) = GatewayCondition(snap.spec.gateway, cbinding)
      BY <2>3 DEF Condition
    <3>3. Url(failed) = IF GatewayCondition(snap.spec.gateway, cbinding) = "GatewayRegistered"
                        THEN cbinding.url ELSE None
      BY <2>3, <3>2 DEF Url
    <3>4. Provider(failed) = IF snap.spec.gateway = None THEN None
                             ELSE ProviderOf[snap.spec.gateway]
      BY <2>3, <3>1 DEF Provider
    <3> QED
      BY <1>4, <3>1, <3>2, <3>3, <3>4 DEF GatewayShown
  <2>4. result' = "endpoint" => ~failed
    BY <1>2
  <2> QED
    BY <1>1, <1>2, <1>7, <2>1, <2>2, <2>3, <2>4 DEF Knows, Obstructed
<1>8. Informed'
  BY <1>1, <1>7 DEF ConvergenceInv, Informed, Awaited
<1>9. Settled'
  BY <1>1 DEF Settled
<1> QED
  BY <1>5, <1>6, <1>8, <1>9 DEF ConvergenceInv

\* What is applied is right for the MCPServer that it was computed for, and
\* another reconcile follows if that is not the MCPServer there is.
LEMMA ApplyConverges ==
    ASSUME TypeOK, ConvergenceInv, ApplyStatus
    PROVE  ConvergenceInv'
<1> USE DEF apiVars, envVars, cacheVars, queueVars, workVars, memoryVars
<1>1. /\ pc = "apply" /\ pc' = "idle" /\ hash' = None
      /\ UNCHANGED <<lastUid, deploy, binding, foreign, refs, ca, cache, cdeploy, cbinding>>
  BY DEF ApplyStatus, Finish, Return
<1>2. /\ SameServer(server, server') /\ server'.status \in {server.status, draft}
  BY DEF ApplyStatus, SameServer, TypeOK, APITypeOK, Servers
<1>3. Ordered'
  BY <1>1, <1>2 DEF ConvergenceInv, Ordered, SameServer
<1>4. Done' /\ Informed'
  BY <1>1 DEF Done, Informed
<1>5. Settled'
  <2>1. CASE Finish("error")
    BY <2>1 DEF Finish, Settled, Awaited
  <2>2. CASE /\ server' = [server EXCEPT !.status = draft]
             /\ caHash' = IF result \in {"endpoint", "endpointError"}
                          THEN UpdatedCAHash(caHash, hash, draft.verified)
                          ELSE caHash
             /\ Finish(Outcome)
    <3>1. server'.status = draft
      BY <2>2 DEF TypeOK, APITypeOK, Servers
    <3>2. queued' = (queued \/ Outcome = "error") /\ timer' = (timer \/ Outcome = "later")
      BY <2>2 DEF Finish
    <3>3. CASE Outcome # "done"
      <4>1. queued' \/ timer'
        BY <3>2, <3>3 DEF Outcome, TypeOK, WorkTypeOK
      <4> QED
        BY <4>1 DEF Settled, Awaited
    <3>4. CASE queued \/ Behind(cache, server)
      BY <1>1, <1>2, <3>2, <3>4 DEF Settled, Awaited, Behind, SameServer
    <3>5. CASE ~queued /\ ~Behind(cache, server) /\ Outcome = "done"
      <4>1. SameServer(snap, server')
        BY <1>1, <1>2, <3>5 DEF ConvergenceInv, Done, SameServer, Behind, Ordered
      <4>2. CASE Awaited(snap)
        <5>1. \/ DeployAhead(server', deploy, cdeploy)
              \/ BindingAhead(server', binding, cbinding)
          BY <3>5, <4>1, <4>2 DEF Awaited, SameServer, DeployAhead, DeployRight,
             DeploymentNeedsUpdate, BindingAhead
        <5> QED
          BY <1>1, <5>1 DEF Settled, Awaited
      <4>3. CASE Knows
        <5>1. draft.observedGeneration = server'.gen
          BY <1>1, <4>1 DEF ConvergenceInv, Done, SameServer
        <5>2. CASE result = "done"
          <6>1. Right(server, server.status, caHash)'
            BY <1>1, <3>1, <4>3, <5>1, <5>2 DEF Knows, Right, Obstructed, ObstructedAvailable
          <6> QED
            BY <6>1 DEF Settled
        <5>3. CASE result \in {"endpoint", "endpointError"}
          <6>1. /\ ~Obstructed /\ DeployRight(snap, cdeploy)
                /\ cbinding.gateway = snap.spec.gateway /\ Decided(draft, cdeploy)
                /\ HashRight(snap.spec, hash, ca)
                /\ result = "endpoint" => GatewayShown(snap, draft, cdeploy, cbinding)
            BY <1>1, <4>3, <5>3 DEF Knows
          <6>2. /\ draft.verified = "EndpointUnavailable" =>
                      retries.count >= MaxRetries /\ draft.exhausted
                /\ result = "endpointError" => draft.verified = "EndpointUnavailable"
            BY <1>1, <3>5, <5>3 DEF Outcome, ConvergenceInv, Done, TypeOK, WorkTypeOK, Status
          <6>3. /\ DeployRight(server', cdeploy) /\ cbinding.gateway = server'.spec.gateway
                /\ GatewayShown(snap, draft, cdeploy, cbinding) =>
                      GatewayShown(server', draft, cdeploy, cbinding)
            BY <4>1, <6>1 DEF SameServer, DeployRight, DeploymentNeedsUpdate, GatewayShown
          <6>4. result = "endpointError" => GatewayErrorDropped(server', draft)
            BY <1>1, <4>1, <6>2 DEF ConvergenceInv, Done, SameServer, GatewayErrorDropped
          <6>5. draft.verified \in VerifiedTrue => HashRight(server'.spec, caHash', ca)
            <7>1. draft.verified \in VerifiedTrue => caHash' = hash
              BY <2>2, <5>3 DEF UpdatedCAHash
            <7> QED
              BY <4>1, <6>1, <7>1 DEF SameServer
          <6>6. ~Obstructed'
            BY <1>1, <6>1 DEF Obstructed
          <6>7. Right(server, server.status, caHash)'
            BY <1>1, <3>1, <5>1, <5>3, <6>1, <6>2, <6>3, <6>4, <6>5, <6>6 DEF Right
          <6> QED
            BY <6>7 DEF Settled
        <5> QED
          BY <3>5, <5>2, <5>3 DEF Outcome, TypeOK, WorkTypeOK
      <4> QED
        BY <1>1, <4>2, <4>3 DEF ConvergenceInv, Informed
    <3> QED
      BY <3>3, <3>4, <3>5
  <2> QED
    BY <2>1, <2>2 DEF ApplyStatus
<1> QED
  BY <1>3, <1>4, <1>5 DEF ConvergenceInv

\* Every step keeps the invariant.
LEMMA ConvergenceStep == TypeOK /\ ConvergenceInv /\ [Next]_vars => ConvergenceInv'
<1> SUFFICES ASSUME TypeOK, ConvergenceInv, [Next]_vars PROVE ConvergenceInv'
  OBVIOUS
<1>1. CASE Next
  BY <1>1, EnvironmentConverges, RuntimeConverges, FetchConverges, DeploymentConverges,
     ResourcesConverge, BindingConverges, HandshakeConverges, GatewayConverges, ApplyConverges DEF Next, Reconcile
<1>2. CASE UNCHANGED vars
  <2> USE <1>2 DEF vars, apiVars, envVars, cacheVars, queueVars, workVars, memoryVars
  <2>1. Ordered' /\ Done'
    BY DEF ConvergenceInv, Ordered, Done
  <2>2. Informed'
    BY KnowsKept DEF ConvergenceInv, Informed, Awaited
  <2>3. Settled'
    BY DEF ConvergenceInv, Settled, Awaited, Live, Right, Obstructed, ObstructedAvailable
  <2> QED
    BY <2>1, <2>2, <2>3 DEF ConvergenceInv
<1> QED
  BY <1>1, <1>2

\* What Reconcile found out is still so, or an informer, a timer or the workqueue
\* will have it repeated, in every reachable state.
THEOREM Convergence == Spec => []ConvergenceInv
BY ConvergenceInit, ConvergenceStep, TypeCorrectness, PTL DEF Spec

-----------------------------------------------------------------------------
(* At rest.                                                                *)

\* The status that may stay behind its gateway, see GatewayErrorDropped.
ErrorDropped == GatewayErrorDropped(server, server.status)

\* At rest nothing is on its way, so all is right.
LEMMA RestingIsRight ==
    ASSUME TypeOK, ConvergenceInv, AtRest, Live
    PROVE  Right(server, server.status, caHash)
<1>1. /\ cache \in Servers /\ server \in Servers
      /\ server = [cache EXCEPT !.status = server.status]
  BY DEF TypeOK, APITypeOK, CacheTypeOK, AtRest
<1>2. ~Behind(cache, server)
  BY <1>1 DEF Behind, Servers
<1>3. /\ pc = "idle" /\ ~queued /\ ~timer /\ cdeploy = deploy /\ cbinding = binding
  BY DEF AtRest
<1>4. ~Awaited(server)
  BY <1>2, <1>3 DEF Awaited, DeployAhead, BindingAhead
<1> QED
  BY <1>3, <1>4 DEF ConvergenceInv, Settled

\* What Available says where something obstructs is what is expected.
LEMMA ObstructedIsExpected ==
    ASSUME TypeOK, Obstructed
    PROVE  ObstructedAvailable = ExpectedAvailable
BY ControllerAssumption
   DEF Obstructed, ObstructedAvailable, ExpectedAvailable, TypeOK, APITypeOK, EnvTypeOK

\* When nothing is pending, the status is of the latest generation and Available
\* says what the cluster calls for, whatever was edited, deleted, created anew,
\* refused or restarted before: Reconcile leaves an event, an error or a timer
\* behind whenever it leaves the status behind.  The exception is the lookup of
\* the binding that failed together with the last handshake retry.
THEOREM StatusAtRest ==
    Spec => [](\/ RestingStatusIsCurrent
               \/ ErrorDropped /\ server.status.observedGeneration = server.gen)
<1>1. TypeOK /\ ConvergenceInv =>
         \/ RestingStatusIsCurrent
         \/ ErrorDropped /\ server.status.observedGeneration = server.gen
  <2> SUFFICES ASSUME TypeOK, ConvergenceInv, AtRest, Live
               PROVE  /\ server.status.observedGeneration = server.gen
                      /\ ErrorDropped \/ server.status.available = ExpectedAvailable
    BY DEF RestingStatusIsCurrent
  <2>1. Right(server, server.status, caHash)
    BY RestingIsRight
  <2>2. CASE Obstructed
    BY <2>1, <2>2, ObstructedIsExpected DEF Right
  <2>3. CASE ~Obstructed
    <3>1. ExpectedAvailable = GatewayAvailability(DeploymentAvailability(deploy),
                                  GatewayCondition(server.spec.gateway, binding))
      BY <2>3 DEF Obstructed, ExpectedAvailable
    <3>2. cdeploy = deploy /\ cbinding = binding
      BY DEF AtRest
    <3> QED
      BY <2>1, <2>3, <3>1, <3>2 DEF Right, GatewayShown, ErrorDropped
  <2> QED
    BY <2>2, <2>3
<1> QED
  BY <1>1, Convergence, TypeCorrectness, PTL

\* When nothing is pending the Deployment is the one that the spec asks for and
\* belongs to this incarnation of the MCPServer, whatever the cache showed when
\* it was written (reconcileDeployment, adoption and conflicts included).
THEOREM DeploymentAtRest == Spec => []RestingDeploymentIsCurrent
<1>1. TypeOK /\ ConvergenceInv => RestingDeploymentIsCurrent
  <2> SUFFICES ASSUME TypeOK, ConvergenceInv, AtRest, Unobstructed
               PROVE  /\ deploy.phase # "absent"
                      /\ deploy.owner = server.uid
                      /\ deploy.image = server.spec.image
                      /\ deploy.replicas = server.spec.replicas
    BY DEF RestingDeploymentIsCurrent
  <2>1. Right(server, server.status, caHash) /\ ~Obstructed
    BY RestingIsRight DEF Unobstructed, Obstructed
  <2> QED
    BY <2>1 DEF Right, AtRest, DeployRight, DeploymentNeedsUpdate
<1> QED
  BY <1>1, Convergence, TypeCorrectness, PTL

\* When nothing is pending and the workload is available, the handshake passed,
\* or it failed and the status says that the retries are exhausted: a failing
\* handshake never just stops being retried (reconcileHandshake, handshakeRequeue).
THEOREM HandshakeAtRest == Spec => []RestingHandshakeIsDecided
<1>1. TypeOK /\ ConvergenceInv => RestingHandshakeIsDecided
  <2> SUFFICES ASSUME TypeOK, ConvergenceInv, AtRest, Unobstructed,
                      DeploymentAvailability(deploy) = "Available"
               PROVE  \/ server.status.verified \in VerifiedTrue
                      \/ server.status.verified = "EndpointUnavailable" /\ server.status.exhausted
    BY DEF RestingHandshakeIsDecided
  <2>1. Right(server, server.status, caHash) /\ ~Obstructed /\ cdeploy = deploy
    BY RestingIsRight DEF Unobstructed, Obstructed, AtRest
  <2> QED
    BY <2>1 DEF Right, Decided
<1> QED
  BY <1>1, Convergence, TypeCorrectness, PTL

\* When nothing is pending, the binding is the one that spec.gateway asks for,
\* GatewayRegistered is True exactly when the provider has registered this very
\* generation of it, and a verified server shows the gateway's address if it
\* gave one (reconcileGatewayBinding, reconcileGatewayCondition).  The exception
\* is again the failed lookup that is not repeated.
THEOREM GatewayAtRest ==
    Spec => [](\/ RestingGatewayIsCurrent
               \/ ErrorDropped /\ binding.gateway = server.spec.gateway)
<1>1. TypeOK /\ ConvergenceInv =>
         \/ RestingGatewayIsCurrent
         \/ ErrorDropped /\ binding.gateway = server.spec.gateway
  <2> SUFFICES ASSUME TypeOK, ConvergenceInv, AtRest, Unobstructed
               PROVE  /\ binding.gateway = server.spec.gateway
                      /\ ErrorDropped \/ RestingGatewayIsCurrent
    BY DEF RestingGatewayIsCurrent
  <2>1. Right(server, server.status, caHash) /\ ~Obstructed
    BY RestingIsRight DEF Unobstructed, Obstructed
  <2>2. /\ binding.gateway = server.spec.gateway
        /\ ErrorDropped \/ GatewayShown(server, server.status, deploy, binding)
    BY <2>1 DEF Right, AtRest, ErrorDropped
  <2>3. /\ binding.registered \in Nat /\ binding.gen \in Nat
        /\ binding.registered <= binding.gen
    BY DEF TypeOK, APITypeOK, Bindings, ConvergenceInv, Ordered
  <2>4. /\ GatewayCondition(server.spec.gateway, binding) = "none"
             <=> server.spec.gateway = None
        /\ GatewayCondition(server.spec.gateway, binding) = "GatewayRegistered"
             <=> server.spec.gateway # None /\ binding.registered = binding.gen
    BY <2>2, <2>3, SMTT(60) DEF GatewayCondition
  <2> QED
    BY <2>2, <2>4 DEF GatewayShown, PublishedAddress, RestingGatewayIsCurrent
<1> QED
  BY <1>1, Convergence, TypeCorrectness, PTL

\* When nothing is pending, the CA bundle hash kept for a verified server is that
\* of the Secret's present content, or none (computeTLSCABundleHash,
\* updateTLSCABundleHash and the watch of Secrets).
THEOREM CAHashAtRest == Spec => []RestingCAHashIsCurrent
<1>1. TypeOK /\ ConvergenceInv => RestingCAHashIsCurrent
  <2> SUFFICES ASSUME TypeOK, ConvergenceInv, AtRest, Unobstructed,
                      server.status.verified \in VerifiedTrue
               PROVE  caHash \in IF server.spec.tls THEN {ca, None} ELSE {None}
    BY DEF RestingCAHashIsCurrent
  <2>1. Right(server, server.status, caHash) /\ ~Obstructed
    BY RestingIsRight DEF Unobstructed, Obstructed
  <2> QED
    BY <2>1 DEF Right, HashRight
<1> QED
  BY <1>1, Convergence, TypeCorrectness, PTL
=============================================================================
