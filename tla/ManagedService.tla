--------------------------- MODULE ManagedService ---------------------------
(***************************************************************************)
(* The Service step of the MCPServer controller: the Service it creates,   *)
(* updates and adopts under the MCPServer's name, and what becomes of it   *)
(* when spec.serviceRef points at a Service the user brings.               *)
(*                                                                         *)
(* Two Services matter: "self", named after the MCPServer, and "ext", the  *)
(* one a user may bring.  The API server checks a resourceVersion on every *)
(* Update and, by precondition, on the cleanup's Delete; a copy therefore  *)
(* remembers whether it still is the last version (fresh).  Ports stand    *)
(* for everything the operator sets on a Service.                          *)
(***************************************************************************)
EXTENDS Integers

CONSTANTS
    None,            \* no port, for an absent Service or one not resolved
    Ports,
    Modes,           \* which of "managed" and "byo" workloads are considered
    MaxWrites,       \* creations and edits of the MCPServer
    MaxDisturbances  \* failed calls, restarts and what other users do

ASSUME ServiceAssumption ==
    /\ None \notin Ports
    /\ Modes \subseteq {"managed", "byo"}
    /\ MaxWrites \in Nat /\ MaxDisturbances \in Nat

VARIABLES
    server,       \* the MCPServer, as the API server has it
    lastUid,
    svc,          \* the Service named after it
    ext,          \* the port of the Service the user brings, None when absent
    endpoint,     \* what the status says about the Service step
    cserver,      \* the informers' copies
    csvc,
    csvcFresh,
    owned,        \* an event of Owns(Service) is on its way
    changed,      \* Services whose metadata event is still to be delivered
    queued,       \* the MCPServer is in the workqueue, or will be added to it
    pc,           \* the next API call of the running reconcile
    work,         \* its locals
    disturbances

vars == <<server, lastUid, svc, ext, endpoint, cserver, csvc, csvcFresh,
          owned, changed, queued, pc, work, disturbances>>

-----------------------------------------------------------------------------
(* Owners are uids of MCPServers; two numbers stand for everything else. *)
Unowned == 0
Another == -1

Refs == {"none", "self", "ext"}

Servers == [uid : Nat, gen : Nat, mode : {"managed", "byo"},
            ref : Refs, port : Ports \cup {None}]

NoServer == [uid |-> 0, gen |-> 0, mode |-> "managed", ref |-> "none", port |-> None]

ServiceObjects == [exists : BOOLEAN, owner : Int, port : Ports \cup {None}]

NoService == [exists |-> FALSE, owner |-> Unowned, port |-> None]

Service(o, p) == [exists |-> TRUE, owner |-> o, port |-> p]

OwnedBy(owners) == [exists : {TRUE}, owner : owners, port : Ports]

Verdicts == {"none", "invalid", "unavailable", "conflict", "resolved"}

Endpoints == [verdict : Verdicts, name : {"none", "self", "ext"},
              port : Ports \cup {None}]

Failed(v) == [verdict |-> v, name |-> "none", port |-> None]

Resolved(n, p) == [verdict |-> "resolved", name |-> n, port |-> p]

Steps == {"idle", "resolve", "service", "external", "delete", "report"}

\* The locals: the MCPServer read, the copy of its Service, the endpoint found,
\* and whether the request comes back.
Locals == [server : Servers, held : ServiceObjects, fresh : BOOLEAN,
           endpoint : Endpoints, again : BOOLEAN]

NoWork == [server |-> NoServer, held |-> NoService, fresh |-> FALSE,
           endpoint |-> Failed("none"), again |-> FALSE]

\* Only a server whose workload and Service are both the user's may leave
\* config.port out, and no edit changes whose the workload is.
Admitted(s) == s.port = None => s.mode = "byo" /\ s.ref # "none"

Created(id) == {s \in [uid : {id}, gen : {1}, mode : Modes, ref : Refs,
                        port : Ports \cup {None}] : Admitted(s)}

Edited(s) == {t \in [uid : {s.uid}, gen : {s.gen + 1}, mode : {s.mode}, ref : Refs,
                      port : Ports \cup {None}] :
                Admitted(t) /\ <<t.ref, t.port>> # <<s.ref, s.port>>}

Init ==
    /\ server \in Created(1)
    /\ lastUid = 1
    /\ svc \in {NoService} \cup OwnedBy({Unowned, Another})
    /\ ext \in Ports \cup {None}
    /\ endpoint = Failed("none")
    /\ cserver = server /\ csvc = svc /\ csvcFresh = TRUE
    /\ owned = FALSE /\ changed = {} /\ queued = TRUE
    /\ pc = "idle" /\ work = NoWork
    /\ disturbances = 0

Disturb == disturbances < MaxDisturbances /\ disturbances' = disturbances + 1

-----------------------------------------------------------------------------
(* The API server and its other users. *)

\* A write of the Service outdates every copy of it.  It is announced to both
\* informers; Owns(Service) maps the old and the new object to a controlling
\* MCPServer, by name.
WriteService(s) ==
    /\ svc' = s
    /\ csvcFresh' = FALSE
    /\ owned' = (owned \/ svc.owner > 0 \/ s.owner > 0)
    /\ changed' = changed \cup {"self"}

Outdated == [work EXCEPT !.fresh = FALSE]

EditServer ==
    /\ server.uid # 0 /\ lastUid + server.gen <= MaxWrites
    /\ server' \in Edited(server)
    /\ UNCHANGED <<lastUid, svc, ext, endpoint, cserver, csvc, csvcFresh, owned,
                   changed, queued, pc, work, disturbances>>

DeleteServer ==
    /\ server.uid # 0 /\ lastUid < MaxWrites
    /\ server' = NoServer /\ endpoint' = Failed("none")
    /\ UNCHANGED <<lastUid, svc, ext, cserver, csvc, csvcFresh, owned, changed,
                   queued, pc, work, disturbances>>

CreateServer ==
    /\ server.uid = 0 /\ lastUid < MaxWrites
    /\ server' \in Created(lastUid + 1)
    /\ lastUid' = lastUid + 1
    /\ UNCHANGED <<svc, ext, endpoint, cserver, csvc, csvcFresh, owned, changed,
                   queued, pc, work, disturbances>>

\* A Service whose owner is gone is collected.
CollectGarbage ==
    /\ svc.owner > 0 /\ svc.owner # server.uid
    /\ WriteService(NoService) /\ work' = Outdated
    /\ UNCHANGED <<server, lastUid, ext, endpoint, cserver, csvc, queued, pc,
                   disturbances>>

\* Somebody creates, edits, takes over, releases or deletes the Service that
\* bears the MCPServer's name.
ServiceChanges ==
    /\ Disturb
    /\ \E s \in {NoService} \cup OwnedBy({Unowned, Another, svc.owner}) :
         s # svc /\ WriteService(s)
    /\ work' = Outdated
    /\ UNCHANGED <<server, lastUid, ext, endpoint, cserver, csvc, queued, pc>>

ExternalChanges ==
    /\ Disturb
    /\ ext' \in (Ports \cup {None}) \ {ext}
    /\ changed' = changed \cup {"ext"}
    /\ UNCHANGED <<server, lastUid, svc, endpoint, cserver, csvc, csvcFresh, owned,
                   queued, pc, work>>

\* A new process lists everything and starts from an empty workqueue.
RestartOperator ==
    /\ Disturb
    /\ cserver' = server /\ csvc' = svc /\ csvcFresh' = TRUE
    /\ owned' = FALSE /\ changed' = {}
    /\ queued' = (server.uid # 0)
    /\ pc' = "idle" /\ work' = NoWork
    /\ UNCHANGED <<server, lastUid, svc, ext, endpoint>>

-----------------------------------------------------------------------------
(* Informers. *)

SyncServer ==
    /\ cserver # server
    /\ cserver' = server
    /\ queued' = TRUE
    /\ UNCHANGED <<server, lastUid, svc, ext, endpoint, csvc, csvcFresh, owned,
                   changed, pc, work, disturbances>>

SyncService ==
    /\ ~csvcFresh
    /\ csvc' = svc /\ csvcFresh' = TRUE
    /\ queued' = (queued \/ owned) /\ owned' = FALSE
    /\ UNCHANGED <<server, lastUid, svc, ext, endpoint, cserver, changed, pc,
                   work, disturbances>>

\* Variant: the metadata of referenced Services is not watched.
MetadataUnwatched(n) ==
    /\ n \in changed
    /\ changed' = changed \ {n}
    /\ UNCHANGED <<server, lastUid, svc, ext, endpoint, cserver, csvc, csvcFresh, owned,
                   queued, pc, work, disturbances>>

\* The metadata watch looks up, in the cache, who references the Service.
MetadataEvent(n) ==
    /\ n \in changed
    /\ changed' = changed \ {n}
    /\ queued' = (queued \/ (cserver.uid # 0 /\ cserver.ref = n))
    /\ UNCHANGED <<server, lastUid, svc, ext, endpoint, cserver, csvc, csvcFresh, owned,
                   pc, work, disturbances>>

-----------------------------------------------------------------------------
(* The reconcile.  A read of the cache is one step with the API call next   *)
(* to it: no other process can tell the two orders apart.                   *)

\* The port of a Service, as the API server has it.
PortOf(n) == IF n = "ext" THEN ext ELSE svc.port

\* The status is all that is left to write.
Report(e, again) ==
    /\ pc' = "report"
    /\ work' = [work EXCEPT !.endpoint = e, !.again = again, !.fresh = FALSE]

Fetch ==
    /\ pc = "idle" /\ queued
    /\ queued' = FALSE
    /\ IF cserver.uid = 0 THEN UNCHANGED <<pc, work>>
       ELSE IF cserver.ref # "none" /\ PortOf(cserver.ref) = None
            THEN /\ pc' = "report"
                 /\ work' = [NoWork EXCEPT !.server = cserver, !.endpoint = Failed("invalid")]
            ELSE /\ pc' = IF cserver.ref = "none" THEN "service" ELSE "resolve"
                 /\ work' = [NoWork EXCEPT !.server = cserver]
    /\ UNCHANGED <<server, lastUid, svc, ext, endpoint, cserver, csvc, csvcFresh, owned,
                   changed, disturbances>>

\* A port the user configured for a workload of their own is taken as it is;
\* any other is read off the Service.
ServicePort(s) ==
    IF s.mode = "byo" /\ s.port # None THEN s.port ELSE PortOf(s.ref)

\* The managed Service, if this MCPServer controls it, is to be deleted.
Hold(s) ==
    /\ pc' = "external"
    /\ work' = [work EXCEPT !.held = csvc, !.fresh = csvcFresh,
                           !.endpoint = Resolved("ext", ServicePort(s))]

LeftBehind(s) == s.ref = "ext" /\ csvc.exists /\ csvc.owner = s.uid

ResolveServiceEndpoint ==
    /\ pc = "resolve"
    /\ LET s == work.server IN
         IF ServicePort(s) = None THEN Report(Failed("unavailable"), TRUE)
         ELSE IF LeftBehind(s) THEN Hold(s)
         ELSE Report(Resolved(s.ref, ServicePort(s)), FALSE)
    /\ UNCHANGED <<server, lastUid, svc, ext, endpoint, cserver, csvc, csvcFresh, owned,
                   changed, queued, disturbances>>

ConfirmExternal ==
    /\ pc = "external"
    /\ IF ext = None THEN Report(Failed("unavailable"), TRUE)
       ELSE pc' = "delete" /\ UNCHANGED work
    /\ UNCHANGED <<server, lastUid, svc, ext, endpoint, cserver, csvc, csvcFresh, owned,
                   changed, queued, disturbances>>

\* Variant: deletion by name, without preconditions.
DeleteByName ==
    /\ pc = "delete"
    /\ IF svc.exists THEN WriteService(NoService)
       ELSE UNCHANGED <<svc, csvcFresh, owned, changed>>
    /\ Report(work.endpoint, FALSE)
    /\ UNCHANGED <<server, lastUid, ext, endpoint, cserver, csvc, queued, disturbances>>

\* Deletes the version that was read; if there is a newer one, or none, that
\* is somebody else's doing and not an error.
DeleteManagedService ==
    /\ pc = "delete"
    /\ IF work.fresh THEN WriteService(NoService)
       ELSE UNCHANGED <<svc, csvcFresh, owned, changed>>
    /\ Report(work.endpoint, FALSE)
    /\ UNCHANGED <<server, lastUid, ext, endpoint, cserver, csvc, queued, disturbances>>

\* The Service is missing in the cache: create it.  The name may be taken.
CreateService(s) ==
    /\ ~csvc.exists
    /\ IF svc.exists
       THEN /\ UNCHANGED <<svc, csvcFresh, owned, changed>>
            /\ Report(Failed("unavailable"), TRUE)
       ELSE /\ WriteService(Service(s.uid, s.port))
            /\ Report(Resolved("self", s.port), FALSE)
    /\ UNCHANGED queued

\* An owner of the same name is this MCPServer or an earlier one; nothing else
\* is touched, and an unowned Service is not adopted silently.
OwnershipConflict(s) ==
    /\ csvc.exists /\ csvc.owner \in {Unowned, Another}
    /\ Report(Failed("conflict"), FALSE)
    /\ UNCHANGED <<svc, csvcFresh, owned, changed, queued>>

\* Variant: the fields of the Service are not compared.
NeedsAdoption(s) == csvc.owner # s.uid

NeedsUpdate(s) == csvc.port # s.port \/ csvc.owner # s.uid

UpToDate(s) ==
    /\ csvc.exists /\ csvc.owner > 0 /\ ~NeedsUpdate(s)
    /\ Report(Resolved("self", s.port), FALSE)
    /\ UNCHANGED <<svc, csvcFresh, owned, changed, queued>>

UpdateService(s) ==
    /\ csvc.exists /\ csvc.owner > 0 /\ NeedsUpdate(s) /\ csvcFresh
    /\ WriteService(Service(s.uid, s.port))
    /\ Report(Resolved("self", s.port), FALSE)
    /\ UNCHANGED queued

\* A conflict comes back later and leaves the status alone; a Service deleted
\* meanwhile may also be reported as not found, an error like any other.
UpdateStale(s) ==
    /\ csvc.exists /\ csvc.owner > 0 /\ NeedsUpdate(s) /\ ~csvcFresh
    /\ \/ pc' = "idle" /\ work' = NoWork /\ queued' = TRUE
       \/ ~svc.exists /\ Report(Failed("unavailable"), TRUE) /\ UNCHANGED queued
    /\ UNCHANGED <<svc, csvcFresh, owned, changed>>

ReconcileService ==
    /\ pc = "service"
    /\ \/ CreateService(work.server)
       \/ OwnershipConflict(work.server)
       \/ UpToDate(work.server)
       \/ UpdateService(work.server)
       \/ UpdateStale(work.server)
    /\ UNCHANGED <<server, lastUid, ext, endpoint, cserver, csvc, disturbances>>

\* The status is applied by name, to whatever incarnation is there.
ApplyStatus ==
    /\ pc = "report"
    /\ endpoint' = IF server.uid = 0 THEN endpoint ELSE work.endpoint
    /\ queued' = (queued \/ work.again \/ server.uid = 0)
    /\ pc' = "idle" /\ work' = NoWork
    /\ UNCHANGED <<server, lastUid, svc, ext, cserver, csvc, csvcFresh, owned, changed,
                   disturbances>>

\* Any call may fail; the failure is reported, a failed report is retried.
CallFails ==
    /\ pc # "idle" /\ Disturb
    /\ IF pc = "report"
       THEN pc' = "idle" /\ work' = NoWork /\ queued' = TRUE
       ELSE Report(Failed("unavailable"), TRUE) /\ UNCHANGED queued
    /\ UNCHANGED <<server, lastUid, svc, ext, endpoint, cserver, csvc, csvcFresh, owned,
                   changed>>

Environment ==
    \/ EditServer \/ DeleteServer \/ CreateServer \/ CollectGarbage
    \/ ServiceChanges \/ ExternalChanges \/ RestartOperator

Informers ==
    \/ SyncServer \/ SyncService
    \/ MetadataEvent("self") \/ MetadataEvent("ext")

Worker ==
    \/ Fetch \/ ResolveServiceEndpoint \/ ConfirmExternal
    \/ DeleteManagedService \/ ReconcileService \/ ApplyStatus \/ CallFails

Next == Environment \/ Informers \/ Worker

Spec == Init /\ [][Next]_vars

-----------------------------------------------------------------------------
(* Types, and what makes a copy worth a precondition: one that is marked    *)
(* fresh is the object the API server has, and only copies of Services this *)
(* MCPServer controls are held for deletion                                 *)
(* (cleanupManagedServiceForBYO).                                           *)
TypeOK ==
    /\ server \in Servers /\ cserver \in Servers /\ lastUid \in Nat
    /\ svc \in ServiceObjects /\ csvc \in ServiceObjects
    /\ ext \in Ports \cup {None}
    /\ endpoint \in Endpoints
    /\ csvcFresh \in BOOLEAN /\ owned \in BOOLEAN /\ queued \in BOOLEAN
    /\ changed \subseteq {"self", "ext"}
    /\ pc \in Steps /\ work \in Locals
    /\ disturbances \in Nat
    /\ csvcFresh => csvc = svc
    /\ work.fresh => work.held = svc

\* The reconcile writes or deletes a Service only if an MCPServer of this name
\* controls it, and deletes it only for the incarnation that controls it,
\* whatever happened since the Service was read (guards 2 and 4 of
\* cleanupManagedServiceForBYO, validateOwnership and Update's conflict check).
OnlyOwnServicesTouched ==
    [][pc' # pc /\ svc' # svc /\ svc.exists =>
         /\ svc.owner > 0
         /\ ~svc'.exists => svc.owner = work.server.uid]_vars

\* Nothing is left to do: no request, no event on its way, nothing to collect.
AtRest ==
    /\ pc = "idle" /\ ~queued
    /\ cserver = server /\ csvcFresh /\ changed = {}
    /\ server.uid # 0
    /\ svc.owner > 0 => svc.owner = server.uid

\* At rest an MCPServer without serviceRef controls a Service with its port,
\* unless an ownership conflict is reported, and one that refers to an existing
\* Service of the user has no Service of its own left behind
\* (reconcileServiceOrBYO).
RestingServiceIsCurrent ==
    AtRest =>
      /\ server.ref = "none" =>
           \/ svc = Service(server.uid, server.port)
           \/ endpoint.verdict = "conflict"
      /\ server.ref = "ext" /\ ext # None => svc.owner # server.uid

\* At rest the status speaks of the Service the spec names, with the port that
\* Service has now, or says that it is missing (ResolveServiceEndpoint,
\* validateServiceRef, findMCPServersForBYOService).
RestingEndpointIsCurrent ==
    AtRest =>
      IF server.ref = "none"
      THEN endpoint \in {Resolved("self", server.port), Failed("conflict")}
      ELSE IF PortOf(server.ref) = None THEN endpoint = Failed("invalid")
      ELSE endpoint = Resolved(server.ref, ServicePort(server))

\* "Cleanup is guarded so the operator never deletes a Service it does not own
\* or still relies on": the Service deleted is not the one the MCPServer that
\* controls it asks for (reconcileServiceOrBYO).
NeverDeletesReliedOnService ==
    [][pc = "delete" /\ pc' # pc /\ svc.exists /\ ~svc'.exists =>
         ~(server.uid = svc.owner /\ server.ref \in {"none", "self"})]_vars
=============================================================================
