------------------------ MODULE ManagedServiceProofs ------------------------
(***************************************************************************)
(* The Service step never writes or deletes a Service it may not touch,    *)
(* whatever the ports, and however many edits, recreations, faults and     *)
(* foreign writes there are.  And it converges: at rest the Service and    *)
(* the endpoint in the status are those the spec asks for.                 *)
(***************************************************************************)
EXTENDS ManagedService, TLAPS

\* A leaf is left to Zenon unless it names another prover.
USE ZenonT(60)

\* What the cleanup holds while it confirms the external Service: a copy of a
\* Service that the MCPServer it works for controlled when the copy was made.
HeldIsOwn ==
    /\ pc # "idle" => work.server.uid > 0
    /\ pc \in {"external", "delete"} =>
         work.held.exists /\ work.held.owner = work.server.uid

IInv == TypeOK /\ HeldIsOwn

\* An absent MCPServer and an absent Service are values of their types.
LEMMA NothingTyped == NoServer \in Servers /\ NoService \in ServiceObjects
  BY SMTT(60) DEF NoServer, Servers, Refs, NoService, ServiceObjects, Unowned

\* A Service with an owner and a port is a Service object.
LEMMA ServiceTyped ==
  ASSUME NEW o \in Int, NEW p \in Ports \cup {None}
  PROVE  Service(o, p) \in ServiceObjects
  BY DEF Service, ServiceObjects

\* So is every Service of a set of owners.
LEMMA OwnedTyped ==
  ASSUME NEW owners \in SUBSET Int
  PROVE  OwnedBy(owners) \subseteq ServiceObjects
  BY DEF OwnedBy, ServiceObjects

\* An endpoint that failed is an endpoint.
LEMMA FailedTyped ==
  ASSUME NEW v \in Verdicts
  PROVE  Failed(v) \in Endpoints
  BY DEF Failed, Endpoints

\* So is one that was resolved.
LEMMA ResolvedTyped ==
  ASSUME NEW n \in Refs, NEW p \in Ports \cup {None}
  PROVE  Resolved(n, p) \in Endpoints
  BY DEF Resolved, Endpoints, Refs, Verdicts

\* A reconcile that has not begun holds no copy that counts as fresh.
LEMMA NoWorkTyped == NoWork \in Locals /\ ~NoWork.fresh
  <1>1. Failed("none") \in Endpoints
    BY FailedTyped DEF Verdicts
  <1> QED
    BY <1>1, NothingTyped DEF NoWork, Locals

\* What is created or edited is an MCPServer again.
LEMMA WrittenTyped ==
  ASSUME NEW id \in Nat, NEW s \in Servers
  PROVE  Created(id) \subseteq Servers /\ Edited(s) \subseteq Servers
  <1>1. ASSUME NEW t \in Created(id) PROVE t \in Servers
    <2>1. t \in [uid : {id}, gen : {1}, mode : Modes, ref : Refs, port : Ports \cup {None}]
      BY <1>1 DEF Created
    <2>2. Modes \subseteq {"managed", "byo"}
      BY ServiceAssumption
    <2>3. t.mode \in {"managed", "byo"}
      BY <2>1, <2>2
    <2>4. t.uid \in Nat /\ t.gen \in Nat /\ t.ref \in Refs /\ t.port \in Ports \cup {None}
      BY <2>1, SMTT(60)
    <2> QED
      BY <2>1, <2>3, <2>4 DEF Servers
  <1>2. ASSUME NEW t \in Edited(s) PROVE t \in Servers
    <2>1. t \in [uid : {s.uid}, gen : {s.gen + 1}, mode : {s.mode}, ref : Refs,
                 port : Ports \cup {None}]
      BY <1>2 DEF Edited
    <2> QED
      BY <2>1, SMTT(60) DEF Servers
  <1> QED
    BY <1>1, <1>2

\* The ports that are looked up are ports or none.
LEMMA PortTyped ==
  ASSUME TypeOK, NEW s \in Servers
  PROVE  /\ PortOf(s.ref) \in Ports \cup {None}
         /\ ServicePort(s) \in Ports \cup {None}
  BY DEF TypeOK, PortOf, ServicePort, Servers, ServiceObjects

\* A report ends the Service step and gives up the copy of the Service.
LEMMA ReportTyped ==
  ASSUME TypeOK, NEW e \in Endpoints, NEW again \in BOOLEAN, Report(e, again)
  PROVE  /\ work' \in Locals /\ ~work'.fresh
         /\ pc' = "report" /\ pc' \in Steps
         /\ work'.server = work.server
  BY DEF TypeOK, Report, Locals, Steps

\* The initial states satisfy the invariant.
LEMMA InitInv == Init => IInv
  <1> SUFFICES ASSUME Init PROVE IInv
    OBVIOUS
  <1>1. server \in Servers
    BY WrittenTyped, NothingTyped DEF Init
  <1>2. svc \in ServiceObjects
    BY OwnedTyped, NothingTyped, SMTT(60) DEF Init, Unowned, Another
  <1>3. endpoint \in Endpoints
    BY FailedTyped DEF Init, Verdicts
  <1>4. pc \in Steps /\ work \in Locals /\ ~work.fresh
    BY NoWorkTyped DEF Init, Steps
  <1>5. cserver \in Servers /\ csvc \in ServiceObjects /\ csvc = svc
    BY <1>1, <1>2 DEF Init
  <1>6. /\ lastUid = 1 /\ ext \in Ports \cup {None} /\ csvcFresh = TRUE
        /\ owned = FALSE /\ changed = {} /\ queued = TRUE /\ pc = "idle"
        /\ disturbances = 0
    BY DEF Init
  <1> QED
    <2>1. TypeOK
      BY <1>1, <1>2, <1>3, <1>4, <1>5, <1>6 DEF TypeOK
    <2> QED
      BY <1>6, <2>1 DEF IInv, HeldIsOwn

-----------------------------------------------------------------------------
(* The environment: what is written outdates the copies. *)
LEMMA EnvironmentInv ==
  ASSUME IInv, Environment
  PROVE  IInv'
  <1> USE DEF IInv, HeldIsOwn
  <1>0. Outdated \in Locals /\ ~Outdated.fresh
        /\ Outdated.held = work.held /\ Outdated.server = work.server
    BY DEF Outdated, Locals, TypeOK
  <1>d. disturbances' \in Nat
    BY SMTT(60) DEF Environment, EditServer, DeleteServer, CreateServer, CollectGarbage,
           ServiceChanges, ExternalChanges, RestartOperator, Disturb, TypeOK
  <1>1. CASE EditServer
    <2>1. server' \in Servers
      BY <1>1, WrittenTyped DEF EditServer, TypeOK
    <2> QED
      BY <1>1, <2>1 DEF EditServer, TypeOK
  <1>2. CASE DeleteServer
    <2>1. Failed("none") \in Endpoints
      BY FailedTyped DEF Verdicts
    <2> QED
      BY <1>2, <2>1, NothingTyped DEF DeleteServer, TypeOK
  <1>3. CASE CreateServer
    <2>1. server' \in Servers /\ lastUid' \in Nat
      BY <1>3, WrittenTyped, NothingTyped, SMTT(60) DEF CreateServer, TypeOK
    <2> QED
      BY <1>3, <2>1 DEF CreateServer, TypeOK
  <1>4. CASE CollectGarbage
    BY <1>4, <1>0, NothingTyped DEF CollectGarbage, WriteService, TypeOK
  <1>5. CASE ServiceChanges
    <2>1. svc.owner \in Int
      BY DEF TypeOK, ServiceObjects
    <2>3. {NoService} \cup OwnedBy({Unowned, Another, svc.owner}) \subseteq ServiceObjects
      BY <2>1, OwnedTyped, NothingTyped, SMTT(60) DEF Unowned, Another
    <2>2. PICK s \in ServiceObjects : WriteService(s)
      BY <1>5, <2>3 DEF ServiceChanges
    <2>4. /\ work' = Outdated
          /\ UNCHANGED <<server, lastUid, ext, endpoint, cserver, csvc, queued, pc>>
      BY <1>5 DEF ServiceChanges
    <2>5. svc' \in ServiceObjects /\ csvcFresh' = FALSE /\ changed' \subseteq {"self", "ext"}
      BY <2>2 DEF WriteService, TypeOK
    <2>6. owned' \in BOOLEAN
      BY <2>2 DEF WriteService
    <2>7. work' \in Locals /\ ~work'.fresh
      BY <1>0, <2>4
    <2>8. TypeOK'
      BY <1>d, <2>4, <2>5, <2>6, <2>7 DEF TypeOK
    <2> QED
      BY <1>0, <2>4, <2>8
  <1>6. CASE ExternalChanges
    BY <1>6, <1>d DEF ExternalChanges, TypeOK
  <1>7. CASE RestartOperator
    BY <1>7, <1>d, NoWorkTyped DEF RestartOperator, TypeOK, Steps
  <1> QED
    BY <1>1, <1>2, <1>3, <1>4, <1>5, <1>6, <1>7 DEF Environment

(* Informers copy what the API server has. *)
LEMMA InformersInv ==
  ASSUME IInv, Informers
  PROVE  IInv'
  <1> USE DEF IInv, HeldIsOwn
  <1>1. CASE SyncServer
    BY <1>1 DEF SyncServer, TypeOK
  <1>2. CASE SyncService
    BY <1>2 DEF SyncService, TypeOK
  <1>3. ASSUME NEW n \in {"self", "ext"}, MetadataEvent(n) PROVE IInv'
    BY <1>3 DEF MetadataEvent, TypeOK
  <1> QED
    BY <1>1, <1>2, <1>3 DEF Informers

-----------------------------------------------------------------------------(* The worker. *)

\* Reading the MCPServer from the cache keeps the invariant.
LEMMA FetchInv ==
  ASSUME IInv, Fetch
  PROVE  IInv'
  <1> USE DEF IInv, HeldIsOwn
  <1>1. Failed("invalid") \in Endpoints
    BY FailedTyped DEF Verdicts
  <1>2. work' \in Locals /\ pc' \in Steps /\ pc' \notin {"external", "delete"}
    BY <1>1, NoWorkTyped DEF Fetch, TypeOK, Locals, Steps, NoWork
  <1>3. work'.fresh => work'.held = svc
    BY DEF Fetch, TypeOK, NoWork, Locals
  <1>4. pc' # "idle" => work'.server.uid > 0
    <2>1. cserver.uid # 0 => cserver.uid > 0
      BY SMTT(60) DEF TypeOK, Servers
    <2> QED
      BY <2>1 DEF Fetch, NoWork
  <1> QED
    BY <1>2, <1>3, <1>4 DEF Fetch, TypeOK

\* So does the lookup of the Service that spec.serviceRef or the name gives.
LEMMA ResolveInv ==
  ASSUME IInv, ResolveServiceEndpoint
  PROVE  IInv'
  <1> USE DEF IInv, HeldIsOwn
  <1> DEFINE s == work.server
  <1>0. s \in Servers /\ s.ref \in Refs /\ ServicePort(s) \in Ports \cup {None}
    BY PortTyped DEF TypeOK, Locals, Servers
  <1>1. /\ Failed("unavailable") \in Endpoints
        /\ Resolved(s.ref, ServicePort(s)) \in Endpoints
        /\ Resolved("ext", ServicePort(s)) \in Endpoints
    BY <1>0, FailedTyped, ResolvedTyped DEF Verdicts, Refs
  <1>2. /\ UNCHANGED <<server, lastUid, svc, ext, endpoint, cserver, csvc, csvcFresh,
                       owned, changed, queued, disturbances>>
        /\ \/ Report(Failed("unavailable"), TRUE)
           \/ LeftBehind(s) /\ Hold(s)
           \/ Report(Resolved(s.ref, ServicePort(s)), FALSE)
    BY DEF ResolveServiceEndpoint
  <1>3. CASE LeftBehind(s) /\ Hold(s)
    <2>1. /\ work' \in Locals /\ pc' = "external" /\ work'.held = csvc
          /\ work'.fresh = csvcFresh /\ work'.server = s
      BY <1>1, <1>3 DEF Hold, TypeOK, Locals
    <2>2. csvc.exists /\ csvc.owner = s.uid
      BY <1>3 DEF LeftBehind
    <2>3. s.uid > 0
      BY DEF ResolveServiceEndpoint
    <2> QED
      BY <1>2, <2>1, <2>2, <2>3 DEF TypeOK, Steps
  <1>4. CASE \/ Report(Failed("unavailable"), TRUE)
             \/ Report(Resolved(s.ref, ServicePort(s)), FALSE)
    <2>1. /\ work' \in Locals /\ ~work'.fresh /\ work'.server = s
          /\ pc' = "report" /\ pc' \in Steps
      BY <1>1, <1>4, ReportTyped
    <2>2. s.uid > 0
      BY DEF ResolveServiceEndpoint
    <2> QED
      BY <1>2, <2>1, <2>2 DEF TypeOK
  <1> QED
    BY <1>2, <1>3, <1>4

\* So does the second look at the Service that spec.serviceRef names.
LEMMA ConfirmInv ==
  ASSUME IInv, ConfirmExternal
  PROVE  IInv'
  <1> USE DEF IInv, HeldIsOwn
  <1>1. Failed("unavailable") \in Endpoints
    BY FailedTyped DEF Verdicts
  <1>2. CASE ext = None
    <2>1. Report(Failed("unavailable"), TRUE)
      BY <1>2 DEF ConfirmExternal
    <2>2. /\ work' \in Locals /\ ~work'.fresh /\ work'.server = work.server
          /\ pc' = "report" /\ pc' \in Steps
      BY <1>1, <2>1, ReportTyped
    <2> QED
      BY <2>2 DEF ConfirmExternal, TypeOK
  <1>3. CASE ext # None
    BY <1>3 DEF ConfirmExternal, TypeOK, Steps
  <1> QED
    BY <1>2, <1>3

\* So does the deletion of the managed one, which goes through for a fresh copy
\* only.
LEMMA DeleteInv ==
  ASSUME IInv, DeleteManagedService
  PROVE  IInv'
  <1> USE DEF IInv, HeldIsOwn
  <1>1. work.endpoint \in Endpoints
    BY DEF TypeOK, Locals
  <1>2. /\ work' \in Locals /\ ~work'.fresh /\ work'.server = work.server
        /\ pc' = "report" /\ pc' \in Steps
    BY <1>1, ReportTyped DEF DeleteManagedService
  <1>3. /\ svc' \in ServiceObjects /\ csvcFresh' \in BOOLEAN /\ owned' \in BOOLEAN
        /\ changed' \subseteq {"self", "ext"} /\ (csvcFresh' => csvc = svc')
    BY NothingTyped DEF DeleteManagedService, WriteService, TypeOK
  <1> QED
    BY <1>2, <1>3 DEF DeleteManagedService, TypeOK

\* So does the creation or update of the managed Service.
LEMMA ReconcileInv ==
  ASSUME IInv, ReconcileService
  PROVE  IInv'
  <1> USE DEF IInv, HeldIsOwn
  <1> DEFINE s == work.server
  <1>0. s \in Servers /\ s.uid \in Int /\ s.port \in Ports \cup {None} /\ s.uid > 0
    BY SMTT(60) DEF ReconcileService, TypeOK, Locals, Servers
  <1>1. /\ Failed("unavailable") \in Endpoints /\ Failed("conflict") \in Endpoints
        /\ Resolved("self", s.port) \in Endpoints
    BY <1>0, FailedTyped, ResolvedTyped DEF Verdicts, Refs
  <1>2. Service(s.uid, s.port) \in ServiceObjects
    BY <1>0, ServiceTyped
  <1>3. /\ work' \in Locals /\ ~work'.fresh /\ pc' \in {"report", "idle"}
        /\ pc' = "report" => work'.server = s
        /\ queued' \in BOOLEAN
    <2>1. ASSUME NEW e \in Endpoints, NEW again \in BOOLEAN, Report(e, again)
          PROVE  /\ work' \in Locals /\ ~work'.fresh /\ pc' = "report"
                 /\ work'.server = s
      BY <2>1, ReportTyped
    <2>2. CASE UpdateStale(s)
      BY <1>1, <2>1, <2>2, NoWorkTyped DEF UpdateStale, TypeOK
    <2>3. CASE CreateService(s)
      BY <1>1, <2>1, <2>3 DEF CreateService, TypeOK
    <2>4. CASE OwnershipConflict(s) \/ UpToDate(s) \/ UpdateService(s)
      BY <1>1, <2>1, <2>4 DEF OwnershipConflict, UpToDate, UpdateService, TypeOK
    <2> QED
      BY <2>2, <2>3, <2>4 DEF ReconcileService
  <1>4. /\ svc' \in ServiceObjects /\ csvcFresh' \in BOOLEAN /\ owned' \in BOOLEAN
        /\ changed' \subseteq {"self", "ext"} /\ (csvcFresh' => csvc = svc')
    <2>1. ASSUME WriteService(Service(s.uid, s.port))
          PROVE  /\ svc' \in ServiceObjects /\ csvcFresh' = FALSE /\ owned' \in BOOLEAN
                 /\ changed' \subseteq {"self", "ext"}
      BY <1>2, <2>1 DEF WriteService, TypeOK
    <2>2. \/ WriteService(Service(s.uid, s.port))
          \/ UNCHANGED <<svc, csvcFresh, owned, changed>>
      <3>1. CASE CreateService(s)
        BY <3>1 DEF CreateService
      <3>2. CASE UpdateService(s)
        BY <3>2 DEF UpdateService
      <3>3. CASE OwnershipConflict(s) \/ UpToDate(s) \/ UpdateStale(s)
        BY <3>3 DEF OwnershipConflict, UpToDate, UpdateStale
      <3> QED
        BY <3>1, <3>2, <3>3 DEF ReconcileService
    <2>3. CASE WriteService(Service(s.uid, s.port))
      BY <2>1, <2>3
    <2>4. CASE UNCHANGED <<svc, csvcFresh, owned, changed>>
      BY <2>4 DEF TypeOK
    <2> QED
      BY <2>2, <2>3, <2>4
  <1> QED
    BY <1>0, <1>3, <1>4 DEF ReconcileService, TypeOK, Steps

\* So does the application of the status.
LEMMA ApplyInv ==
  ASSUME IInv, ApplyStatus
  PROVE  IInv'
  <1>1. endpoint' \in Endpoints
    BY DEF ApplyStatus, IInv, TypeOK, Locals
  <1>2. queued' \in BOOLEAN
    BY DEF ApplyStatus
  <1> QED
    BY <1>1, <1>2, NoWorkTyped DEF ApplyStatus, IInv, HeldIsOwn, TypeOK, Steps

\* So does a call that fails.
LEMMA CallFailsInv ==
  ASSUME IInv, CallFails
  PROVE  IInv'
  <1> USE DEF IInv, HeldIsOwn
  <1>1. disturbances' \in Nat
    BY SMTT(60) DEF CallFails, Disturb, TypeOK
  <1>2. CASE pc = "report"
    BY <1>1, <1>2, NoWorkTyped DEF CallFails, TypeOK, Steps
  <1>3. CASE pc # "report"
    <2>1. Failed("unavailable") \in Endpoints
      BY FailedTyped DEF Verdicts
    <2>2. /\ work' \in Locals /\ ~work'.fresh /\ work'.server = work.server
          /\ pc' = "report" /\ pc' \in Steps
      BY <1>3, <2>1, ReportTyped DEF CallFails
    <2> QED
      BY <1>1, <1>3, <2>2 DEF CallFails, TypeOK
  <1> QED
    BY <1>2, <1>3

\* Every step keeps the invariant.
LEMMA StepInv == IInv /\ [Next]_vars => IInv'
  <1> SUFFICES ASSUME IInv, [Next]_vars PROVE IInv'
    OBVIOUS
  <1>1. CASE Worker
    BY <1>1, FetchInv, ResolveInv, ConfirmInv, DeleteInv, ReconcileInv, ApplyInv,
       CallFailsInv DEF Worker
  <1>2. CASE UNCHANGED vars
    BY <1>2 DEF vars, IInv, HeldIsOwn, TypeOK
  <1> QED
    BY <1>1, <1>2, EnvironmentInv, InformersInv DEF Next

-----------------------------------------------------------------------------
\* Every variable keeps its type, and a copy of the managed Service that counts
\* as the last version really is (cleanupManagedServiceForBYO, reconcileService).
THEOREM ServiceTypeCorrectness == Spec => []TypeOK
  <1>1. IInv => TypeOK
    BY DEF IInv
  <1> QED
    BY <1>1, InitInv, StepInv, PTL DEF Spec

\* Only the worker both moves on and writes the Service.
LEMMA WritersOnly ==
  ASSUME IInv, [Next]_vars, pc' # pc, svc' # svc
  PROVE  DeleteManagedService \/ ReconcileService
  BY DEF Next, Environment, Informers, Worker, EditServer, DeleteServer, CreateServer,
         CollectGarbage, ServiceChanges, ExternalChanges, RestartOperator, SyncServer,
         SyncService, MetadataEvent, Fetch, ResolveServiceEndpoint, ConfirmExternal,
         ApplyStatus, CallFails, vars

\* The operator writes a Service of its own only, and deletes one of this
\* incarnation only.
LEMMA TouchesOwn ==
  ASSUME IInv, [Next]_vars, pc' # pc, svc' # svc, svc.exists
  PROVE  svc.owner > 0 /\ (~svc'.exists => svc.owner = work.server.uid)
  <1>1. CASE DeleteManagedService
    <2>1. work.fresh /\ work.held = svc
      BY <1>1 DEF DeleteManagedService, IInv, TypeOK
    <2>2. work.held.owner = work.server.uid /\ work.server.uid > 0
      BY <1>1 DEF DeleteManagedService, IInv, HeldIsOwn
    <2> QED
      BY <2>1, <2>2
  <1>2. CASE ReconcileService
    <2>1. UpdateService(work.server)
      BY <1>2 DEF ReconcileService, CreateService, OwnershipConflict, UpToDate, UpdateStale
    <2>2. csvc = svc /\ csvc.owner > 0
      BY <2>1 DEF UpdateService, IInv, TypeOK
    <2>3. svc'.exists
      BY <2>1 DEF UpdateService, WriteService, Service
    <2> QED
      BY <2>2, <2>3
  <1> QED
    BY <1>1, <1>2, WritersOnly

\* The reconcile writes a Service only if an MCPServer of this name controls it,
\* and deletes it only for the incarnation that controls it, whatever others did
\* since it was read (validateOwnership, cleanupManagedServiceForBYO).
THEOREM ServiceSafety == Spec => OnlyOwnServicesTouched
  <1>1. IInv /\ [Next]_vars =>
          [pc' # pc /\ svc' # svc /\ svc.exists =>
             svc.owner > 0 /\ (~svc'.exists => svc.owner = work.server.uid)]_vars
    BY TouchesOwn
  <1> QED
    BY <1>1, InitInv, StepInv, PTL DEF Spec, OnlyOwnServicesTouched

-----------------------------------------------------------------------------
(* Convergence: a reconcile that is not to be followed by another one has   *)
(* seen, or made, the state as it is.                                       *)

\* Something will have the controller look again: a request, a newer MCPServer,
\* an event of its Service, or one of the Service it refers to.
Coming ==
    \/ queued
    \/ cserver # server
    \/ owned
    \/ server.ref \in changed

\* The endpoints that may be reported, the Services being what they are.
Right ==
    IF server.ref = "none"
    THEN {Failed("conflict")} \cup
         {e \in {Resolved("self", server.port)} : svc = Service(server.uid, server.port)}
    ELSE IF PortOf(server.ref) = None THEN {Failed("invalid")}
    ELSE {e \in {Resolved(server.ref, ServicePort(server))} :
            server.ref = "ext" => svc.owner # server.uid}

\* The informer is behind the API server, never ahead of it.
Ordered ==
    /\ server.uid <= lastUid /\ cserver.uid <= lastUid
    /\ cserver.uid = server.uid /\ server.uid # 0 => cserver.gen <= server.gen

\* The informer lacks a version of a Service of this MCPServer exactly as long as
\* an event is on its way; only a Service that exists has an owner.
Announced ==
    /\ svc.owner > 0 => svc.exists
    /\ owned => ~csvcFresh
    /\ ~csvcFresh /\ (csvc.owner > 0 \/ svc.owner > 0) => owned

\* What a reconcile has found out is so, unless something is coming.
Informed ==
    /\ pc # "idle" => queued \/ work.server = cserver
    /\ pc = "service" => work.server.ref = "none"
    /\ pc = "resolve" => work.server.ref # "none" /\ (Coming \/ PortOf(work.server.ref) # None)
    /\ pc \in {"external", "delete"} => work.fresh \/ Coming
    /\ pc = "report" => Coming \/ work.again \/ work.endpoint \in Right
    /\ pc = "idle" /\ server.uid # 0 => Coming \/ endpoint \in Right

ConvergenceInv == IInv /\ Ordered /\ Announced /\ Informed

\* A Service with an owner is there.
LEMMA OwnedExists ==
  ASSUME NEW owners, NEW t \in {NoService} \cup OwnedBy(owners)
  PROVE  t.owner > 0 => t.exists
  <1>1. CASE t = NoService
    BY <1>1, SMTT(60) DEF NoService, Unowned
  <1>2. CASE t \in OwnedBy(owners)
    BY <1>2 DEF OwnedBy
  <1> QED
    BY <1>1, <1>2

\* Initially the MCPServer is queued.
LEMMA ConvergenceInit == Init => ConvergenceInv
  <1> SUFFICES ASSUME Init PROVE ConvergenceInv
    OBVIOUS
  <1>1. server.uid = 1
    BY DEF Init, Created
  <1>2. svc.owner > 0 => svc.exists
    BY OwnedExists DEF Init
  <1> QED
    BY <1>1, <1>2, InitInv, SMTT(60) DEF Init, ConvergenceInv, Ordered, Announced, Informed, Coming, IInv,
       TypeOK, Servers

\* A reconcile works for the MCPServer there is, unless something is coming.
LEMMA Current ==
  ASSUME ConvergenceInv, pc # "idle", ~Coming
  PROVE  work.server = server /\ cserver = server /\ server.uid > 0
  BY DEF ConvergenceInv, Informed, Coming, IInv, HeldIsOwn

\* A write of the MCPServer is news to the informer.
LEMMA NewServer ==
  ASSUME ConvergenceInv, EditServer \/ DeleteServer \/ CreateServer
  PROVE  Ordered' /\ (cserver' # server' \/ server'.uid = 0)
  <1> USE DEF ConvergenceInv, IInv, TypeOK, Servers, Ordered
  <1>1. CASE EditServer
    <2>1. /\ server'.uid = server.uid /\ server'.gen = server.gen + 1
          /\ UNCHANGED <<cserver, lastUid>>
      BY <1>1 DEF EditServer, Edited
    <2> QED
      BY <2>1, SMTT(60)
  <1>2. CASE DeleteServer
    BY <1>2, SMTT(60) DEF DeleteServer, NoServer
  <1>3. CASE CreateServer
    BY <1>3, SMTT(60) DEF CreateServer, Created
  <1> QED
    BY <1>1, <1>2, <1>3

\* A write of the MCPServer leaves the cache behind.
LEMMA ServerWritten ==
  ASSUME ConvergenceInv, EditServer \/ DeleteServer \/ CreateServer
  PROVE  Announced' /\ Informed'
  <1>1. UNCHANGED <<svc, ext, cserver, csvc, csvcFresh, owned, changed, queued, pc, work>>
    BY DEF EditServer, DeleteServer, CreateServer
  <1>2. Announced'
    BY <1>1 DEF ConvergenceInv, Announced
  <1>3. pc # "idle" => Coming'
    <2>1. CASE server'.uid # 0
      BY <2>1, NewServer DEF Coming
    <2>2. CASE server'.uid = 0
      <3>1. server' = NoServer \/ server'.uid > 0
        BY <2>2, NewServer, SMTT(60) DEF EditServer, DeleteServer, CreateServer, Edited, Created,
           ConvergenceInv, IInv, TypeOK, Servers
      <3> QED
        BY <1>1, <2>2, <3>1, SMTT(60) DEF Coming, ConvergenceInv, Informed, IInv, HeldIsOwn
    <2> QED
      BY <2>1, <2>2
  <1>4. server'.uid # 0 => Coming'
    BY NewServer DEF Coming
  <1>5. PortOf(work.server.ref)' = PortOf(work.server.ref)
    BY <1>1 DEF PortOf
  <1> QED
    BY <1>1, <1>2, <1>3, <1>4 DEF ConvergenceInv, Informed

\* A write of the Service by somebody else: either it is announced, or the Service
\* was not and is not one of this MCPServer, and no right answer depended on it.
LEMMA ServiceWritten ==
  ASSUME ConvergenceInv, CollectGarbage \/ ServiceChanges
  PROVE  Ordered' /\ Announced' /\ Informed'
  <1>1. /\ UNCHANGED <<server, lastUid, ext, endpoint, cserver, csvc, queued, pc>>
        /\ work' = Outdated
    BY DEF CollectGarbage, ServiceChanges
  <1>2. /\ csvcFresh' = FALSE
        /\ owned' = (owned \/ svc.owner > 0 \/ svc'.owner > 0)
        /\ changed' = changed \cup {"self"}
    BY DEF CollectGarbage, ServiceChanges, WriteService
  <1>3. /\ work'.server = work.server /\ work'.again = work.again
        /\ work'.endpoint = work.endpoint
    BY <1>1 DEF Outdated, ConvergenceInv, IInv, TypeOK, Locals
  <1>4. /\ Ordered'
        /\ Coming => Coming'
        /\ server.ref = "self" => Coming'
        /\ svc.owner > 0 \/ svc'.owner > 0 => Coming'
    BY <1>1, <1>2 DEF ConvergenceInv, Ordered, Coming
  <1>5. Announced'
    <2>1. svc'.owner > 0 => svc'.exists
      BY OwnedExists DEF CollectGarbage, ServiceChanges, WriteService
    <2> QED
      BY <1>1, <1>2, <2>1 DEF ConvergenceInv, Announced, IInv, TypeOK
  <1>6. ASSUME server.uid > 0, ~Coming' PROVE Right \subseteq Right'
    <2>1. svc.owner # server.uid /\ svc'.owner # server.uid /\ server.ref # "self"
      BY <1>4, <1>6
    <2>2. svc # Service(server.uid, server.port)
      BY <2>1, SMTT(60) DEF Service
    <2>3. server.ref = "ext" => /\ PortOf(server.ref)' = PortOf(server.ref)
                                /\ ServicePort(server)' = ServicePort(server)
      BY <1>1 DEF PortOf, ServicePort
    <2>4. server.ref \in {"none", "ext"}
      BY <2>1 DEF ConvergenceInv, IInv, TypeOK, Servers, Refs
    <2> QED
      BY <1>1, <2>1, <2>2, <2>3, <2>4 DEF Right
  <1>7. pc = "report" => Coming' \/ work'.again \/ work.endpoint \in Right'
    BY <1>3, <1>4, <1>6, Current DEF ConvergenceInv, Informed
  <1>8. pc = "idle" /\ server.uid # 0 => Coming' \/ endpoint \in Right'
    <2>1. server.uid # 0 => server.uid > 0
      BY SMTT(60) DEF ConvergenceInv, IInv, TypeOK, Servers
    <2> QED
      BY <1>4, <1>6, <2>1 DEF ConvergenceInv, Informed
  <1>9. pc = "resolve" => Coming' \/ PortOf(work.server.ref)' # None
    <2>1. CASE Coming \/ server.ref = "self"
      BY <1>4, <2>1
    <2>2. CASE ~Coming /\ server.ref # "self" /\ pc = "resolve"
      <3>1. server.ref = "ext"
        BY <2>2, Current DEF ConvergenceInv, Informed, IInv, TypeOK, Servers, Refs
      <3> QED
        BY <1>1, <1>3, <2>2, <3>1, Current DEF ConvergenceInv, Informed, PortOf
    <2> QED
      BY <2>1, <2>2
  <1>10. pc \in {"external", "delete"} => Coming'
    <2>1. work.fresh /\ pc \in {"external", "delete"} => svc.owner > 0
      BY DEF ConvergenceInv, IInv, TypeOK, HeldIsOwn
    <2> QED
      BY <1>4, <2>1 DEF ConvergenceInv, Informed
  <1> QED
    BY <1>1, <1>3, <1>4, <1>5, <1>7, <1>8, <1>9, <1>10 DEF ConvergenceInv, Informed

\* The Service the user brings matters to those that refer to it.
LEMMA ExternalWritten ==
  ASSUME ConvergenceInv, ExternalChanges
  PROVE  Ordered' /\ Announced' /\ Informed'
  <1>1. /\ UNCHANGED <<server, lastUid, svc, endpoint, cserver, csvc, csvcFresh, owned,
                       queued, pc, work>>
        /\ changed' = changed \cup {"ext"}
    BY DEF ExternalChanges
  <1>2. Ordered' /\ Announced' /\ (Coming => Coming') /\ (server.ref = "ext" => Coming')
    BY <1>1 DEF ConvergenceInv, Ordered, Announced, Coming
  <1>3. ASSUME server.ref # "ext" PROVE Right' = Right
    BY <1>1, <1>3 DEF Right, PortOf, ServicePort
  <1>4. pc = "resolve" => Coming' \/ PortOf(work.server.ref)' # None
    BY <1>1, <1>2, Current DEF ConvergenceInv, Informed, PortOf
  <1> QED
    BY <1>1, <1>2, <1>3, <1>4 DEF ConvergenceInv, Informed

\* After a restart everything that is there is queued.
LEMMA Restarted ==
  ASSUME ConvergenceInv, RestartOperator
  PROVE  Ordered' /\ Announced' /\ Informed'
  <1>1. /\ UNCHANGED <<server, lastUid>> /\ cserver' = server /\ pc' = "idle"
        /\ csvcFresh' = TRUE /\ owned' = FALSE /\ svc' = svc
        /\ server.uid # 0 => queued'
    BY DEF RestartOperator
  <1>2. Ordered'
    BY <1>1, SMTT(60) DEF ConvergenceInv, Ordered, IInv, TypeOK, Servers
  <1> QED
    BY <1>1, <1>2 DEF ConvergenceInv, Announced, Informed, Coming

\* Informers pass on what they were waiting for.
LEMMA Delivered ==
  ASSUME ConvergenceInv, Informers
  PROVE  Ordered' /\ Announced' /\ Informed'
  <1>1. CASE SyncServer
    BY <1>1, SMTT(60) DEF SyncServer, ConvergenceInv, Ordered, Announced, Informed, Coming, IInv, TypeOK,
       Servers, PortOf
  <1>2. CASE SyncService
    <2>1. /\ UNCHANGED <<server, lastUid, svc, ext, endpoint, cserver, changed, pc, work>>
          /\ queued' = (queued \/ owned) /\ owned' = FALSE /\ csvcFresh' = TRUE
      BY <1>2 DEF SyncService
    <2>2. Ordered' /\ Announced' /\ (Coming => Coming')
      BY <2>1 DEF ConvergenceInv, Ordered, Announced, Coming
    <2>3. Right' = Right
      BY <2>1 DEF Right, PortOf, ServicePort
    <2> QED
      BY <2>1, <2>2, <2>3 DEF ConvergenceInv, Informed, PortOf
  <1>3. ASSUME NEW n \in {"self", "ext"}, MetadataEvent(n)
        PROVE  Ordered' /\ Announced' /\ Informed'
    <2>1. /\ UNCHANGED <<server, lastUid, svc, ext, endpoint, cserver, csvc, csvcFresh, owned,
                         pc, work>>
          /\ changed' = changed \ {n}
          /\ queued' = (queued \/ (cserver.uid # 0 /\ cserver.ref = n))
      BY <1>3 DEF MetadataEvent
    <2>2. Ordered' /\ Announced'
      BY <2>1 DEF ConvergenceInv, Ordered, Announced
    <2>3. Coming /\ server.uid # 0 => Coming'
      BY <2>1 DEF Coming
    <2>4. pc # "idle" => work.server.uid > 0 /\ (queued \/ work.server = cserver)
      BY DEF ConvergenceInv, Informed, IInv, HeldIsOwn
    <2>5. pc # "idle" /\ Coming => Coming'
      <3>1. queued => Coming'
        BY <2>1 DEF Coming
      <3>2. cserver # server => Coming'
        BY <2>1 DEF Coming
      <3> QED
        BY <2>3, <2>4, <3>1, <3>2, SMTT(60)
    <2>6. Right' = Right
      BY <2>1 DEF Right, PortOf, ServicePort
    <2> QED
      BY <2>1, <2>2, <2>3, <2>5, <2>6 DEF ConvergenceInv, Informed, PortOf
  <1> QED
    BY <1>1, <1>2, <1>3 DEF Informers

-----------------------------------------------------------------------------
\* A report that does not come back says what is right, unless something is
\* coming; then so does every state between it and the next reconcile.
LEMMA Reported ==
  ASSUME ConvergenceInv, pc # "idle",
         NEW e \in Endpoints, NEW again \in BOOLEAN, Report(e, again),
         UNCHANGED <<server, cserver, queued>>,
         again \/ Coming' \/ e \in Right'
  PROVE  Informed'
  <1>1. /\ pc' = "report" /\ work'.server = work.server
        /\ work'.endpoint = e /\ work'.again = again
    BY DEF Report, ConvergenceInv, IInv, TypeOK, Locals
  <1>2. queued' \/ work'.server = cserver'
    BY <1>1 DEF ConvergenceInv, Informed
  <1> QED
    BY <1>1, <1>2 DEF Informed

\* What is read is the MCPServer there is, or its event is on its way.
LEMMA FetchConverges ==
  ASSUME ConvergenceInv, Fetch
  PROVE  Ordered' /\ Announced' /\ Informed'
  <1>1. /\ UNCHANGED <<server, lastUid, svc, ext, endpoint, cserver, csvc, csvcFresh, owned,
                       changed>>
        /\ pc = "idle" /\ queued' = FALSE
    BY DEF Fetch
  <1>2. Ordered' /\ Announced'
    BY <1>1 DEF ConvergenceInv, Ordered, Announced
  <1>3. CASE cserver.uid = 0
    BY <1>1, <1>2, <1>3 DEF Fetch, Informed, Coming
  <1>4. CASE cserver.uid # 0 /\ cserver.ref # "none" /\ PortOf(cserver.ref) = None
    <2>1. pc' = "report" /\ work'.server = cserver /\ work'.endpoint = Failed("invalid")
      BY <1>4 DEF Fetch, NoWork
    <2>2. cserver = server => work'.endpoint \in Right'
      BY <1>1, <1>4, <2>1 DEF Right, PortOf
    <2> QED
      BY <1>1, <1>2, <2>1, <2>2 DEF Informed, Coming
  <1>5. CASE cserver.uid # 0 /\ ~(cserver.ref # "none" /\ PortOf(cserver.ref) = None)
    <2>1. /\ pc' = IF cserver.ref = "none" THEN "service" ELSE "resolve"
          /\ work'.server = cserver
      BY <1>5 DEF Fetch, NoWork
    <2>2. cserver.ref # "none" => PortOf(cserver.ref)' # None
      BY <1>1, <1>5 DEF PortOf
    <2> QED
      BY <1>1, <1>2, <2>1, <2>2 DEF Informed, PortOf
  <1> QED
    BY <1>3, <1>4, <1>5

\* What is found out about the Service is so, or its event is on its way.
LEMMA ResolveConverges ==
  ASSUME ConvergenceInv, ResolveServiceEndpoint
  PROVE  Ordered' /\ Announced' /\ Informed'
  <1> DEFINE s == work.server
  <1>1. /\ UNCHANGED <<server, lastUid, svc, ext, endpoint, cserver, csvc, csvcFresh, owned,
                       changed, queued>>
        /\ pc = "resolve"
    BY DEF ResolveServiceEndpoint
  <1>2. Ordered' /\ Announced' /\ Coming' = Coming /\ Right' = Right
    BY <1>1 DEF ConvergenceInv, Ordered, Announced, Coming, Right, PortOf, ServicePort
  <1>3. /\ Failed("unavailable") \in Endpoints
        /\ Resolved(s.ref, ServicePort(s)) \in Endpoints
    BY FailedTyped, ResolvedTyped, PortTyped
       DEF Verdicts, ConvergenceInv, IInv, TypeOK, Locals, Servers
  <1>4. CASE ServicePort(s) = None
    BY <1>1, <1>2, <1>3, <1>4, Reported DEF ResolveServiceEndpoint
  <1>5. CASE ServicePort(s) # None /\ LeftBehind(s)
    <2>1. pc' = "external" /\ work'.server = s /\ work'.fresh = csvcFresh
      BY <1>5 DEF ResolveServiceEndpoint, Hold, ConvergenceInv, IInv, TypeOK, Locals
    <2>2. csvc.owner > 0
      BY <1>1, <1>5 DEF LeftBehind, ConvergenceInv, IInv, HeldIsOwn
    <2>3. csvcFresh \/ Coming
      BY <2>2 DEF ConvergenceInv, Announced, Coming, IInv, TypeOK
    <2> QED
      BY <1>1, <1>2, <2>1, <2>3 DEF ConvergenceInv, Informed
  <1>6. CASE ServicePort(s) # None /\ ~LeftBehind(s)
    <2>1. Report(Resolved(s.ref, ServicePort(s)), FALSE)
      BY <1>6 DEF ResolveServiceEndpoint
    <2>2. Coming \/ Resolved(s.ref, ServicePort(s)) \in Right
      <3> SUFFICES ASSUME ~Coming PROVE Resolved(s.ref, ServicePort(s)) \in Right
        OBVIOUS
      <3>1. s = server /\ server.uid > 0 /\ server.ref # "none" /\ PortOf(server.ref) # None
        BY <1>1, Current DEF ConvergenceInv, Informed
      <3>2. server.ref = "ext" => svc.owner # server.uid
        <4>1. server.ref = "ext" => ~csvc.exists \/ csvc.owner # server.uid
          BY <1>6, <3>1 DEF LeftBehind
        <4>2. svc.owner = server.uid => csvc = svc
          BY <3>1 DEF ConvergenceInv, Announced, Coming, IInv, TypeOK
        <4>3. svc.owner = server.uid => svc.exists
          BY <3>1 DEF ConvergenceInv, Announced
        <4> QED
          BY <4>1, <4>2, <4>3
      <3> QED
        BY <3>1, <3>2 DEF Right
    <2> QED
      BY <1>1, <1>2, <1>3, <2>1, <2>2, Reported
  <1> QED
    BY <1>4, <1>5, <1>6

\* The Service that spec.serviceRef names is there, or the reconcile is
\* repeated.
LEMMA ConfirmConverges ==
  ASSUME ConvergenceInv, ConfirmExternal
  PROVE  Ordered' /\ Announced' /\ Informed'
  <1>1. /\ UNCHANGED <<server, lastUid, svc, ext, endpoint, cserver, csvc, csvcFresh, owned,
                       changed, queued>>
        /\ pc = "external"
    BY DEF ConfirmExternal
  <1>2. Ordered' /\ Announced' /\ Coming' = Coming
    BY <1>1 DEF ConvergenceInv, Ordered, Announced, Coming
  <1>3. CASE ext = None
    <2>1. Failed("unavailable") \in Endpoints
      BY FailedTyped DEF Verdicts
    <2> QED
      BY <1>1, <1>2, <1>3, <2>1, Reported DEF ConfirmExternal
  <1>4. CASE ext # None
    BY <1>1, <1>2, <1>4, SMTT(60) DEF ConfirmExternal, ConvergenceInv, Informed
  <1> QED
    BY <1>3, <1>4

\* A write of the managed Service is announced, and so brings the worker back.
LEMMA OwnWritten ==
  ASSUME ConvergenceInv, NEW s, WriteService(s), svc.owner > 0 \/ s.owner > 0,
         s.owner > 0 => s.exists, csvc' = csvc
  PROVE  Announced' /\ Coming'
  BY DEF WriteService, ConvergenceInv, Announced, Coming

\* No managed Service is left behind, or the reconcile is repeated.
LEMMA DeleteConverges ==
  ASSUME ConvergenceInv, DeleteManagedService
  PROVE  Ordered' /\ Announced' /\ Informed'
  <1>1. /\ UNCHANGED <<server, lastUid, ext, endpoint, cserver, csvc, queued>>
        /\ pc = "delete" /\ Report(work.endpoint, FALSE)
    BY DEF DeleteManagedService
  <1>2. Ordered'
    BY <1>1 DEF ConvergenceInv, Ordered
  <1>3. Announced' /\ Coming'
    <2>1. CASE work.fresh
      <3>1. svc.owner > 0
        BY <1>1, <2>1 DEF ConvergenceInv, IInv, TypeOK, HeldIsOwn
      <3>2. WriteService(NoService) /\ ~(NoService.owner > 0)
        BY <2>1, SMTT(60) DEF DeleteManagedService, NoService, Unowned
      <3> QED
        BY <1>1, <3>1, <3>2, OwnWritten
    <2>2. CASE ~work.fresh
      <3>1. UNCHANGED <<svc, csvcFresh, owned, changed>>
        BY <2>2 DEF DeleteManagedService
      <3> QED
        BY <1>1, <2>2, <3>1 DEF ConvergenceInv, Announced, Informed, Coming
    <2> QED
      BY <2>1, <2>2
  <1>4. work.endpoint \in Endpoints
    BY DEF ConvergenceInv, IInv, TypeOK, Locals
  <1> QED
    BY <1>1, <1>2, <1>3, <1>4, Reported

\* The managed Service is right afterwards, or the reconcile is repeated.
LEMMA ReconcileConverges ==
  ASSUME ConvergenceInv, ReconcileService
  PROVE  Ordered' /\ Announced' /\ Informed'
  <1> DEFINE s == work.server
  <1>1. /\ UNCHANGED <<server, lastUid, ext, endpoint, cserver, csvc>>
        /\ pc = "service" /\ s.ref = "none" /\ s.uid > 0
    BY DEF ReconcileService, ConvergenceInv, Informed, IInv, HeldIsOwn
  <1>2. Ordered'
    BY <1>1 DEF ConvergenceInv, Ordered
  <1>3. /\ Failed("unavailable") \in Endpoints /\ Failed("conflict") \in Endpoints
        /\ Resolved("self", s.port) \in Endpoints
    BY FailedTyped, ResolvedTyped DEF Verdicts, Refs, ConvergenceInv, IInv, TypeOK, Locals, Servers
  <1>4. CASE WriteService(Service(s.uid, s.port)) /\ Report(Resolved("self", s.port), FALSE)
             /\ UNCHANGED queued
    <2>1. Service(s.uid, s.port).owner > 0 /\ Service(s.uid, s.port).exists
      BY <1>1 DEF Service
    <2>2. Announced' /\ Coming'
      BY <1>1, <1>4, <2>1, OwnWritten
    <2> QED
      BY <1>1, <1>2, <1>3, <1>4, <2>2, Reported
  <1>5. ASSUME UNCHANGED <<svc, csvcFresh, owned, changed, queued>>
        PROVE  Announced' /\ Coming' = Coming /\ Right' = Right
    BY <1>1, <1>5 DEF ConvergenceInv, Announced, Coming, Right, PortOf, ServicePort
  <1>6. CASE OwnershipConflict(s)
    <2>1. Coming \/ Failed("conflict") \in Right
      BY <1>1, Current DEF Right
    <2>2. /\ Report(Failed("conflict"), FALSE)
          /\ UNCHANGED <<svc, csvcFresh, owned, changed, queued>>
      BY <1>6 DEF OwnershipConflict
    <2>3. Announced' /\ (Coming' \/ Failed("conflict") \in Right')
      BY <1>5, <2>1, <2>2, SMTT(60)
    <2> QED
      BY <1>1, <1>2, <1>3, <2>2, <2>3, Reported
  <1>7. CASE UpToDate(s)
    <2>1. Coming \/ Resolved("self", s.port) \in Right
      <3> SUFFICES ASSUME ~Coming PROVE Resolved("self", s.port) \in Right
        OBVIOUS
      <3>1. s = server
        BY <1>1, Current
      <3>2. csvc.exists /\ csvc.owner = s.uid /\ csvc.port = s.port
        BY <1>7 DEF UpToDate, NeedsUpdate
      <3>3. svc = csvc
        BY <1>1, <3>2 DEF ConvergenceInv, Announced, Coming, IInv, TypeOK
      <3>4. svc = Service(server.uid, server.port)
        BY <3>1, <3>2, <3>3 DEF Service, ConvergenceInv, IInv, TypeOK, ServiceObjects
      <3> QED
        BY <1>1, <3>1, <3>4 DEF Right
    <2>2. /\ Report(Resolved("self", s.port), FALSE)
          /\ UNCHANGED <<svc, csvcFresh, owned, changed, queued>>
      BY <1>7 DEF UpToDate
    <2>3. Announced' /\ (Coming' \/ Resolved("self", s.port) \in Right')
      BY <1>5, <2>1, <2>2, SMTT(60)
    <2> QED
      BY <1>1, <1>2, <1>3, <2>2, <2>3, Reported
  <1>8. CASE /\ UNCHANGED <<svc, csvcFresh, owned, changed, queued>>
             /\ Report(Failed("unavailable"), TRUE)
    BY <1>1, <1>2, <1>3, <1>5, <1>8, Reported
  <1>9. CASE pc' = "idle" /\ queued' = TRUE /\ UNCHANGED <<svc, csvcFresh, owned, changed>>
    BY <1>1, <1>2, <1>9 DEF ConvergenceInv, Announced, Informed, Coming
  <1>10. \/ /\ WriteService(Service(s.uid, s.port)) /\ Report(Resolved("self", s.port), FALSE)
            /\ UNCHANGED queued
         \/ OwnershipConflict(s) \/ UpToDate(s)
         \/ /\ UNCHANGED <<svc, csvcFresh, owned, changed, queued>>
            /\ Report(Failed("unavailable"), TRUE)
         \/ pc' = "idle" /\ queued' = TRUE /\ UNCHANGED <<svc, csvcFresh, owned, changed>>
    <2>1. CASE CreateService(s)
      BY <2>1 DEF CreateService
    <2>2. CASE UpdateService(s)
      BY <2>2 DEF UpdateService
    <2>3. CASE UpdateStale(s)
      BY <2>3 DEF UpdateStale
    <2> QED
      BY <2>1, <2>2, <2>3 DEF ReconcileService
  <1> QED
    BY <1>4, <1>6, <1>7, <1>8, <1>9, <1>10

\* The endpoint that is reported is right, or the reconcile is repeated.
LEMMA ApplyConverges ==
  ASSUME ConvergenceInv, ApplyStatus
  PROVE  Ordered' /\ Announced' /\ Informed'
  <1>1. /\ UNCHANGED <<server, lastUid, svc, ext, cserver, csvc, csvcFresh, owned, changed>>
        /\ pc = "report" /\ pc' = "idle"
        /\ queued' = (queued \/ work.again \/ server.uid = 0)
        /\ server.uid # 0 => endpoint' = work.endpoint
    BY DEF ApplyStatus
  <1>2. Ordered' /\ Announced' /\ Right' = Right /\ (Coming \/ work.again => Coming')
    BY <1>1 DEF ConvergenceInv, Ordered, Announced, Coming, Right, PortOf, ServicePort
  <1> QED
    BY <1>1, <1>2 DEF ConvergenceInv, Informed

\* A call that fails repeats the reconcile.
LEMMA CallFailsConverges ==
  ASSUME ConvergenceInv, CallFails
  PROVE  Ordered' /\ Announced' /\ Informed'
  <1>1. /\ UNCHANGED <<server, lastUid, svc, ext, endpoint, cserver, csvc, csvcFresh, owned,
                       changed>>
        /\ pc # "idle"
    BY DEF CallFails
  <1>2. Ordered' /\ Announced'
    BY <1>1 DEF ConvergenceInv, Ordered, Announced
  <1>3. CASE pc = "report"
    BY <1>1, <1>2, <1>3 DEF CallFails, Informed, Coming
  <1>4. CASE pc # "report"
    <2>1. Failed("unavailable") \in Endpoints
      BY FailedTyped DEF Verdicts
    <2> QED
      BY <1>1, <1>2, <1>4, <2>1, Reported DEF CallFails
  <1> QED
    BY <1>3, <1>4

\* Every step keeps the invariant.
LEMMA ConvergenceStep == ConvergenceInv /\ [Next]_vars => ConvergenceInv'
  <1> SUFFICES ASSUME ConvergenceInv, [Next]_vars PROVE ConvergenceInv'
    OBVIOUS
  <1>1. IInv'
    BY StepInv DEF ConvergenceInv
  <1>2. CASE EditServer \/ DeleteServer \/ CreateServer
    BY <1>1, <1>2, NewServer, ServerWritten DEF ConvergenceInv
  <1>3. CASE CollectGarbage \/ ServiceChanges
    BY <1>1, <1>3, ServiceWritten DEF ConvergenceInv
  <1>4. CASE ExternalChanges
    BY <1>1, <1>4, ExternalWritten DEF ConvergenceInv
  <1>5. CASE RestartOperator
    BY <1>1, <1>5, Restarted DEF ConvergenceInv
  <1>6. CASE Informers
    BY <1>1, <1>6, Delivered DEF ConvergenceInv
  <1>7. CASE Fetch \/ ResolveServiceEndpoint \/ ConfirmExternal
    BY <1>1, <1>7, FetchConverges, ResolveConverges, ConfirmConverges DEF ConvergenceInv
  <1>8. CASE DeleteManagedService \/ ReconcileService \/ ApplyStatus
    BY <1>1, <1>8, DeleteConverges, ReconcileConverges, ApplyConverges DEF ConvergenceInv
  <1>9. CASE CallFails
    BY <1>1, <1>9, CallFailsConverges DEF ConvergenceInv
  <1>10. CASE UNCHANGED vars
    <2>1. Ordered' /\ Announced' /\ Coming' = Coming /\ Right' = Right
      BY <1>10 DEF vars, ConvergenceInv, Ordered, Announced, Coming, Right, PortOf, ServicePort
    <2>2. Informed'
      BY <1>10, <2>1 DEF vars, ConvergenceInv, Informed, PortOf
    <2> QED
      BY <1>1, <2>1, <2>2 DEF ConvergenceInv
  <1> QED
    BY <1>2, <1>3, <1>4, <1>5, <1>6, <1>7, <1>8, <1>9, <1>10 DEF Next, Environment, Worker

\* The invariant holds in every reachable state, for every set of ports and every
\* number of edits, recreations and disturbances.
THEOREM ServiceConvergence == Spec => []ConvergenceInv
  BY ConvergenceInit, ConvergenceStep, PTL DEF Spec

\* At rest the MCPServer has the Service its spec asks for and no other, unless an
\* ownership conflict is reported (reconcileServiceOrBYO).
THEOREM ServiceAtRest == Spec => []RestingServiceIsCurrent
  <1>1. ConvergenceInv => RestingServiceIsCurrent
    <2> SUFFICES ASSUME ConvergenceInv, AtRest
                 PROVE  /\ server.ref = "none" => \/ svc = Service(server.uid, server.port)
                                                  \/ endpoint.verdict = "conflict"
                        /\ server.ref = "ext" /\ ext # None => svc.owner # server.uid
      BY DEF RestingServiceIsCurrent
    <2>1. ~Coming
      BY DEF AtRest, Coming, ConvergenceInv, Announced
    <2>2. endpoint \in Right
      BY <2>1 DEF AtRest, ConvergenceInv, Informed
    <2>3. Failed("conflict").verdict = "conflict"
      BY DEF Failed
    <2> QED
      BY <2>2, <2>3 DEF Right, PortOf
  <1> QED
    BY <1>1, ServiceConvergence, PTL

\* At rest the status speaks of the Service the spec names and of the port it has
\* (ResolveServiceEndpoint, validateServiceRef, findMCPServersForBYOService).
THEOREM EndpointAtRest == Spec => []RestingEndpointIsCurrent
  <1>1. ConvergenceInv => RestingEndpointIsCurrent
    <2> SUFFICES ASSUME ConvergenceInv, AtRest
                 PROVE  RestingEndpointIsCurrent
      BY DEF RestingEndpointIsCurrent
    <2>1. ~Coming
      BY DEF AtRest, Coming, ConvergenceInv, Announced
    <2>2. endpoint \in Right
      BY <2>1 DEF AtRest, ConvergenceInv, Informed
    <2> QED
      BY <2>2 DEF Right, RestingEndpointIsCurrent
  <1> QED
    BY <1>1, ServiceConvergence, PTL
=============================================================================
