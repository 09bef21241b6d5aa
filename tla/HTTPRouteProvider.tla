-------------------------- MODULE HTTPRouteProvider --------------------------
(***************************************************************************)
(* The reference gateway integration: Reconciler.Reconcile of the          *)
(* "httproute" provider for one MCPGatewayBinding, and the helpers it      *)
(* shares with the other providers.  A reconcile is cut at its writes and  *)
(* its uncached reads:                                                     *)
(*                                                                         *)
(*   Fetch -> Stamp -> Backend -> Record -> ApplyHTTPRoute -> Judge        *)
(*       \______________________________________\-> DeleteStaleHTTPRoute   *)
(*                                                      -> Unregister      *)
(*                                                                         *)
(* Informer caches (the c... variables) lag the API server.  ConfigMaps    *)
(* and Services are watched by their metadata only and read uncached; what *)
(* a Gateway or a Service event concerns is looked up in the annotations   *)
(* the reconcile stamped on the cached binding.                            *)
(*                                                                         *)
(* "disturbances" counts faults and unforced changes of the environment,   *)
(* at most MaxDisturbances in a behaviour.                                 *)
(***************************************************************************)
EXTENDS Integers, FiniteSets

CONSTANTS
    None,            \* no value
    Gateways,        \* the Gateways a ConfigMap may name
    Hosts,           \* host names
    ConfigMaps,      \* the ConfigMaps spec.configRef may name
    Contents,        \* what a ConfigMap may say
    Services,        \* the Services of other owners a spec may refer to
    Ports,           \* the ports of those Services
    ServerSpecs,     \* the MCPServer specs: path and backend Service
    Schemes,         \* http, https
    Worlds,          \* the surroundings a binding may be created in
    MaxWrites,       \* bound: edits of the binding and recreations before an edit
    MaxUid,          \* bound: incarnations of the binding
    MaxDisturbances  \* bound: faults and unforced changes

Malformed == "malformed"

\* gateway is None when gateway-name or gateway-namespace is missing, malformed
\* or outside the operator's allowlist.
ASSUME ProviderAssumption ==
    /\ Contents \subseteq [gateway : Gateways \cup {None},
                           routeHost : Hosts \cup {None, Malformed},
                           publicHost : Hosts \cup {None}]
    /\ ServerSpecs \subseteq [path : STRING, service : Services \cup {"managed"}]
    /\ None \notin Gateways \cup Hosts \cup ConfigMaps \cup Services \cup Ports
    /\ None \notin Contents \cup ServerSpecs
    /\ Malformed \notin Hosts
    /\ Worlds \subseteq
          [server   : ServerSpecs,
           config   : [ConfigMaps -> Contents \cup {None}],
           services : [Services -> Ports \cup {None}],
           gateways : [Gateways -> [address : Hosts \cup {None}, scheme : Schemes]],
           foreign  : BOOLEAN]
    /\ "managed" \notin Services
    /\ ConfigMaps \cap (Services \cup {"managed"}) = {}
    /\ MaxWrites \in Nat \ {0} /\ MaxUid \in Nat \ {0} /\ MaxDisturbances \in Nat

VARIABLES
    server,      \* the spec of the MCPServer, None when it is absent
    binding,     \* the MCPGatewayBinding; uid 0 when it is absent
    lastUid,     \* the uid of the latest incarnation of the binding
    route,       \* the HTTPRoute named after the binding; owner 0 when absent
    config,      \* the content of each ConfigMap, None when it is absent
    services,    \* the MCP port of each Service, None when absent or portless
    gateways,    \* each Gateway's status address and listener scheme
    cserver, cbinding, croute, cgateways,  \* the informer caches
    changed,     \* ConfigMaps and Services with an undelivered metadata event
    queued,      \* the key is in the workqueue
    timer,       \* the key is to be added to the workqueue later
    pc,          \* the next step of the reconcile in progress
    work,        \* its locals
    disturbances

apiVars   == <<server, binding, lastUid, route, config, services, gateways>>
cacheVars == <<cserver, cbinding, croute, cgateways>>
queueVars == <<queued, timer>>
vars == <<apiVars, cacheVars, changed, queueVars, pc, work, disturbances>>

-----------------------------------------------------------------------------
(* Objects.                                                                *)

Url == [scheme : Schemes, host : Hosts, path : {s.path : s \in ServerSpecs}]

Reasons == {"none", "NotRegistered", "RouteNotAccepted", "PublicAddressPending",
            "Registered"}

\* reason, observed and url are the Registered condition (True for the reason
\* Registered only) and status.url; gatewayRef and serviceRef the annotations.
NoBinding ==
    [uid |-> 0, gen |-> 0, provider |-> "httproute", config |-> None,
     gatewayRef |-> None, serviceRef |-> None,
     reason |-> "none", observed |-> 0, url |-> None]

NewBinding(u, p, c) ==
    [NoBinding EXCEPT !.uid = u, !.gen = 1, !.provider = p, !.config = c]

\* accepted is what the Gateway's controller wrote to status.parents: by which
\* Gateway and for which generation of the route.
Foreign == -1
NotAccepted == [by |-> None, gen |-> 0]
NoRoute == [owner |-> 0, gen |-> 0, spec |-> None, accepted |-> NotAccepted]
ForeignRoute == [NoRoute EXCEPT !.owner = Foreign, !.gen = 1]

NoWork == [binding |-> NoBinding, spec |-> None, content |-> None, port |-> None]

\* MatchesProvider: the reconciler ignores the bindings of other providers.
Ours(b) == b.uid # 0 /\ b.provider = "httproute"

Disturb ==
    /\ disturbances < MaxDisturbances
    /\ disturbances' = disturbances + 1

Init ==
    /\ \E c \in ConfigMaps \cup {None} : binding = NewBinding(1, "httproute", c)
    /\ lastUid = 1
    /\ \E w \in Worlds :
          /\ server = w.server
          /\ config = w.config /\ services = w.services /\ gateways = w.gateways
          /\ route = IF w.foreign THEN ForeignRoute ELSE NoRoute
    /\ cserver = server /\ cbinding = NoBinding /\ croute = route
    /\ cgateways = gateways
    /\ changed = {}
    /\ queued = FALSE /\ timer = FALSE
    /\ pc = "idle" /\ work = NoWork
    /\ disturbances = 0

-----------------------------------------------------------------------------
(* The environment.                                                        *)

\* The MCPServer controller writes another configRef.
EditBinding ==
    /\ binding.uid # 0 /\ lastUid + binding.gen <= MaxWrites
    /\ \E c \in (ConfigMaps \cup {None}) \ {binding.config} :
          binding' = [binding EXCEPT !.config = c, !.gen = @ + 1]
    /\ UNCHANGED <<server, lastUid, route, config, services, gateways, cacheVars,
                   changed, queueVars, pc, work, disturbances>>

\* It deletes the binding when spec.gateway is removed or names another
\* provider, and creates the next one.
DeleteBinding ==
    /\ binding.uid # 0 /\ lastUid < MaxUid
    /\ binding' = NoBinding
    /\ Disturb
    /\ UNCHANGED <<server, lastUid, route, config, services, gateways, cacheVars,
                   changed, queueVars, pc, work>>

CreateBinding ==
    /\ binding.uid = 0 /\ lastUid < MaxUid
    /\ \E p \in {"httproute", "other"}, c \in ConfigMaps \cup {None} :
          binding' = NewBinding(lastUid + 1, p, c)
    /\ lastUid' = lastUid + 1
    /\ UNCHANGED <<server, route, config, services, gateways, cacheVars, changed,
                   queueVars, pc, work, disturbances>>

\* The MCPServer is edited, deleted or created again.
ServerChanges ==
    /\ \E s \in (ServerSpecs \cup {None}) \ {server} : server' = s
    /\ Disturb
    /\ UNCHANGED <<binding, lastUid, route, config, services, gateways, cacheVars,
                   changed, queueVars, pc, work>>

CollectGarbage ==
    /\ route.owner \notin {0, Foreign, binding.uid}
    /\ route' = NoRoute
    /\ UNCHANGED <<server, binding, lastUid, config, services, gateways, cacheVars,
                   changed, queueVars, pc, work, disturbances>>

ConfigMapChanges ==
    /\ \E c \in ConfigMaps : \E v \in (Contents \cup {None}) \ {config[c]} :
          /\ config' = [config EXCEPT ![c] = v]
          /\ changed' = changed \cup {c}
    /\ Disturb
    /\ UNCHANGED <<server, binding, lastUid, route, services, gateways, cacheVars,
                   queueVars, pc, work>>

ServiceChanges ==
    /\ \E s \in Services : \E p \in (Ports \cup {None}) \ {services[s]} :
          /\ services' = [services EXCEPT ![s] = p]
          /\ changed' = changed \cup {s}
    /\ Disturb
    /\ UNCHANGED <<server, binding, lastUid, route, config, gateways, cacheVars,
                   queueVars, pc, work>>

GatewayChanges ==
    /\ \E g \in Gateways : \E v \in [address : Hosts \cup {None}, scheme : Schemes] :
          v # gateways[g] /\ gateways' = [gateways EXCEPT ![g] = v]
    /\ Disturb
    /\ UNCHANGED <<server, binding, lastUid, route, config, services, cacheVars,
                   changed, queueVars, pc, work>>

\* The Gateway's controller judges the current generation of the route.
RouteAccepted ==
    /\ route.owner \notin {0, Foreign}
    /\ route.accepted # [by |-> route.spec.gateway, gen |-> route.gen]
    /\ route' = [route EXCEPT !.accepted = [by |-> route.spec.gateway, gen |-> route.gen]]
    /\ UNCHANGED <<server, binding, lastUid, config, services, gateways, cacheVars,
                   changed, queueVars, pc, work, disturbances>>

RouteRejected ==
    /\ route.accepted # NotAccepted
    /\ route' = [route EXCEPT !.accepted = NotAccepted]
    /\ Disturb
    /\ UNCHANGED <<server, binding, lastUid, config, services, gateways, cacheVars,
                   changed, queueVars, pc, work>>

-----------------------------------------------------------------------------
(* Watches: each event updates a cache and enqueues the bindings it maps   *)
(* to, looked up in the cached binding.                                    *)

SyncBinding ==
    /\ cbinding # binding
    /\ cbinding' = binding
    /\ queued' = (\/ queued
                  \/ Ours(binding)
                  \/ binding.uid # cbinding.uid /\ Ours(cbinding))
    /\ UNCHANGED <<apiVars, cserver, croute, cgateways, changed, timer, pc, work,
                   disturbances>>

\* Owns(HTTPRoute): the owner's name is enqueued whatever its provider.
SyncRoute ==
    /\ croute # route
    /\ croute' = route
    /\ queued' = TRUE
    /\ UNCHANGED <<apiVars, cserver, cbinding, cgateways, changed, timer, pc, work,
                   disturbances>>

\* findBindingsForMCPServer.
SyncServer ==
    /\ cserver # server
    /\ cserver' = server
    /\ queued' = (queued \/ Ours(cbinding))
    /\ UNCHANGED <<apiVars, cbinding, croute, cgateways, changed, timer, pc, work,
                   disturbances>>

\* findBindingsForGateway.
SyncGateway ==
    /\ \E g \in Gateways :
          /\ cgateways[g] # gateways[g]
          /\ cgateways' = [cgateways EXCEPT ![g] = gateways[g]]
          /\ queued' = (queued \/ (Ours(cbinding) /\ cbinding.gatewayRef = g))
    /\ UNCHANGED <<apiVars, cserver, cbinding, croute, changed, timer, pc, work,
                   disturbances>>

\* Variant: Services are not mapped to the bindings that route to them.
ConfigMapEvent ==
    /\ \E n \in changed :
          /\ changed' = changed \ {n}
          /\ queued' = (queued \/ (Ours(cbinding) /\ n = cbinding.config))
    /\ UNCHANGED <<apiVars, cacheVars, timer, pc, work, disturbances>>

\* findBindingsForConfigMap and FindBindingsForService.
MetadataEvent ==
    /\ \E n \in changed :
          /\ changed' = changed \ {n}
          /\ queued' = (\/ queued
                        \/ Ours(cbinding) /\ n \in {cbinding.config, cbinding.serviceRef})
    /\ UNCHANGED <<apiVars, cacheVars, timer, pc, work, disturbances>>

TimerFires ==
    /\ timer
    /\ timer' = FALSE /\ queued' = TRUE
    /\ UNCHANGED <<apiVars, cacheVars, changed, pc, work, disturbances>>

\* The operator restarts: caches are listed afresh and bindings enqueued.
RestartOperator ==
    /\ Disturb
    /\ cserver' = server /\ cbinding' = binding /\ croute' = route
    /\ cgateways' = gateways
    /\ changed' = {}
    /\ queued' = (Ours(binding) \/ route.owner > 0) /\ timer' = FALSE
    /\ pc' = "idle" /\ work' = NoWork
    /\ UNCHANGED apiVars
-----------------------------------------------------------------------------
(* The reconcile.                                                          *)

Finish(outcome) ==
    /\ pc' = "idle" /\ work' = NoWork
    /\ queued' = (queued \/ outcome = "error")
    /\ timer' = (timer \/ outcome = "later")

Goto(step) == pc' = step /\ UNCHANGED queueVars

\* Any read or write of the reconcile fails.
CallFails ==
    /\ pc # "idle"
    /\ Disturb
    /\ Finish("error")
    /\ UNCHANGED <<apiVars, cacheVars, changed>>

\* The binding and the MCPServer come from the caches, the ConfigMap from the
\* API server.
Fetch ==
    /\ pc = "idle" /\ queued
    /\ queued' = FALSE
    /\ IF ~Ours(cbinding) \/ cserver = None
       THEN UNCHANGED <<pc, work>>
       ELSE LET c == cbinding.config
                content == IF c = None THEN None ELSE config[c]
                fetched == [NoWork EXCEPT !.binding = cbinding, !.spec = cserver,
                                          !.content = content]
            IN IF content = None \/ content.gateway = None
               THEN work' = fetched /\ pc' = "delete"
               ELSE work' = fetched /\ pc' = "stamp"
    /\ UNCHANGED <<apiVars, cacheVars, changed, timer, disturbances>>

\* EnsureBindingAnnotations: a merge patch by name, without a resourceVersion,
\* that reads the whole binding back into the reconcile's copy.
EnsureAnnotation(key, value, next) ==
    /\ IF work.binding[key] = value
       THEN Goto(next) /\ UNCHANGED <<binding, work>>
       ELSE IF binding.uid = 0
       THEN Finish("error") /\ UNCHANGED binding
       ELSE /\ binding' = [binding EXCEPT ![key] = value]
            /\ work' = [work EXCEPT !.binding = binding']
            /\ Goto(next)
    /\ UNCHANGED <<server, lastUid, route, config, services, gateways, cacheVars,
                   changed, disturbances>>

\* Variant: the Gateway is not recorded.
StampNothing ==
    /\ pc = "stamp"
    /\ Goto("backend")
    /\ UNCHANGED <<apiVars, cacheVars, changed, work, disturbances>>

Stamp == pc = "stamp" /\ EnsureAnnotation("gatewayRef", work.content.gateway, "backend")

\* ResolveServiceEndpoint: the port of a managed Service is in the spec; the
\* one of any other Service is read from it.
Backend ==
    /\ pc = "backend"
    /\ work' = [work EXCEPT !.port = IF work.spec.service = "managed" THEN "managed"
                                     ELSE services[work.spec.service]]
    /\ Goto("record")
    /\ UNCHANGED <<apiVars, cacheVars, changed, disturbances>>

\* ResolveAndRecordBackendService records the Service also when it could not
\* be resolved.
Record == pc = "record" /\ EnsureAnnotation("serviceRef", work.spec.service, "apply")

DesiredRoute(content, spec, port) ==
    [gateway |-> content.gateway, host |-> content.routeHost,
     service |-> spec.service, port |-> port, path |-> spec.path]

\* An unresolved Service is an error; a malformed route-hostname unregisters.
\* SetControllerReference takes over a route controlled by an earlier binding
\* of this name and refuses any other controller.  Create and Update fail when
\* the cache is behind the API server.
ApplyHTTPRoute ==
    /\ pc = "apply"
    /\ LET desired == DesiredRoute(work.content, work.spec, work.port)
           updated == [croute EXCEPT !.owner = work.binding.uid, !.spec = desired,
                                     !.gen = IF croute.spec = desired THEN @ ELSE @ + 1]
       IN IF work.port = None
          THEN Finish("error") /\ UNCHANGED route
          ELSE IF work.content.routeHost = Malformed
          THEN Goto("delete") /\ UNCHANGED <<route, work>>
          ELSE IF croute.owner = 0 /\ route.owner = 0
          THEN /\ route' = [NoRoute EXCEPT !.owner = work.binding.uid, !.gen = 1,
                                           !.spec = desired]
               /\ Goto("judge") /\ UNCHANGED work
          ELSE IF croute.owner > 0 /\ (updated = croute \/ croute = route)
          THEN /\ route' = IF updated = croute THEN route ELSE updated
               /\ Goto("judge") /\ UNCHANGED work
          ELSE Finish("error") /\ UNCHANGED route
    /\ UNCHANGED <<server, binding, lastUid, config, services, gateways, cacheVars,
                   changed, disturbances>>

\* IsHTTPRouteAccepted: by the Gateway the ConfigMap names, and for the
\* generation of the route that was read.
IsHTTPRouteAccepted(r, g) == r.accepted.by = g /\ r.accepted.gen >= r.gen

PublicHost(content, gws) ==
    IF content.publicHost # None THEN content.publicHost
    ELSE IF content.routeHost # None THEN content.routeHost
    ELSE gws[content.gateway].address

PublicUrl(content, spec, gws) ==
    [scheme |-> gws[content.gateway].scheme, host |-> PublicHost(content, gws),
     path |-> spec.path]

\* Variant: the status is applied by name, whatever the binding is by now.
ForceBindingStatus(reason, url, outcome) ==
    /\ binding' = IF binding.uid = 0 THEN binding
                  ELSE [binding EXCEPT !.reason = reason, !.url = url,
                                       !.observed = work.binding.gen]
    /\ Finish(outcome)
    /\ UNCHANGED <<server, lastUid, route, config, services, gateways, cacheVars,
                   changed, disturbances>>

\* UpdateBindingStatus writes nothing when nothing changed; its Update fails
\* when the binding is not the one the reconcile holds any more.
UpdateBindingStatus(reason, url, outcome) ==
    /\ LET held == work.binding
           reported == [held EXCEPT !.reason = reason, !.observed = held.gen, !.url = url]
       IN /\ binding' = IF held = binding THEN reported ELSE binding
          /\ Finish(IF reported # held /\ held # binding THEN "error" ELSE outcome)
    /\ UNCHANGED <<server, lastUid, route, config, services, gateways, cacheVars,
                   changed, disturbances>>

\* The route is read back from the cache and judged; the report follows.
Judge ==
    /\ pc = "judge"
    /\ IF croute.owner = 0
       THEN Finish("error") /\ UNCHANGED <<apiVars, cacheVars, changed, disturbances>>
       ELSE IF ~IsHTTPRouteAccepted(croute, work.content.gateway)
       THEN UpdateBindingStatus("RouteNotAccepted", None, "later")
       ELSE IF PublicHost(work.content, cgateways) = None
       THEN UpdateBindingStatus("PublicAddressPending", None, "later")
       ELSE UpdateBindingStatus("Registered",
                PublicUrl(work.content, work.spec, cgateways), "done")

\* deleteStaleHTTPRoute: a route controlled by this very binding, as far as the
\* cache knows, is deleted by name.
DeleteStaleHTTPRoute ==
    /\ pc = "delete"
    /\ route' = IF croute.owner = work.binding.uid THEN NoRoute ELSE route
    /\ Goto("unregister")
    /\ UNCHANGED <<server, binding, lastUid, config, services, gateways, cacheVars,
                   changed, work, disturbances>>

Unregister == pc = "unregister" /\ UpdateBindingStatus("NotRegistered", None, "done")

Environment ==
    \/ EditBinding \/ DeleteBinding \/ CreateBinding \/ ServerChanges
    \/ CollectGarbage \/ ConfigMapChanges \/ ServiceChanges \/ GatewayChanges
    \/ RouteAccepted \/ RouteRejected \/ RestartOperator

Informers ==
    SyncBinding \/ SyncRoute \/ SyncServer \/ SyncGateway \/ MetadataEvent \/ TimerFires

Worker ==
    \/ Fetch \/ Stamp \/ Backend \/ Record \/ ApplyHTTPRoute \/ Judge
    \/ DeleteStaleHTTPRoute \/ Unregister \/ CallFails

Next == Environment \/ Informers \/ Worker

Spec == Init /\ [][Next]_vars

-----------------------------------------------------------------------------
(* Properties.                                                             *)

\* Types of what the API server stores and of the control state; a published
\* URL always has a host.
TypeOK ==
    /\ server \in ServerSpecs \cup {None}
    /\ binding.gen \in 0..MaxWrites /\ binding.reason \in Reasons
    /\ binding.url \in Url \cup {None}
    /\ route.owner \in (0..lastUid) \cup {Foreign}
    /\ pc \in {"idle", "stamp", "backend", "record", "apply", "judge", "delete",
               "unregister"}

\* Everything the environment did has reached the controller and the
\* controller has nothing queued.  A pending timer does not count: the
\* watches alone must be enough.
Quiet ==
    /\ pc = "idle" /\ ~queued /\ changed = {}
    /\ cserver = server /\ cbinding = binding /\ croute = route /\ cgateways = gateways

Content == IF binding.config = None THEN None ELSE config[binding.config]

Routable ==
    /\ Content # None
    /\ Content.gateway # None
    /\ Content.routeHost # Malformed

\* No update is lost between Gateway, ConfigMap, Service, MCPServer and
\* binding: when the provider is quiet, the HTTPRoute is the one the current
\* ConfigMap, MCPServer and Service ask for, and a binding whose ConfigMap is
\* missing or invalid controls no HTTPRoute.
QuietRouteIsCurrent ==
    Quiet /\ Ours(binding) /\ server # None =>
        IF Routable
        THEN /\ route.owner = binding.uid
             /\ route.spec = DesiredRoute(Content, server,
                                 IF server.service = "managed" THEN "managed"
                                 ELSE services[server.service])
        ELSE route.owner # binding.uid

\* And then the Registered condition says, for the current generation, what
\* is the case: True with the public URL exactly when the Gateway accepted
\* the current route and a public host is known.
QuietStatusIsCurrent ==
    Quiet /\ Ours(binding) /\ server # None =>
        /\ binding.observed = binding.gen
        /\ binding.reason =
              IF ~Routable THEN "NotRegistered"
              ELSE IF route.accepted # [by |-> Content.gateway, gen |-> route.gen]
              THEN "RouteNotAccepted"
              ELSE IF PublicHost(Content, gateways) = None
              THEN "PublicAddressPending" ELSE "Registered"
        /\ binding.url = IF binding.reason = "Registered"
                         THEN PublicUrl(Content, server, gateways) ELSE None

\* The provider keeps the contract the MCPServer controller counts on.
Binding == INSTANCE GatewayBinding WITH
    Urls <- Url, NoUrl <- None,
    uid <- binding.uid, gen <- binding.gen, url <- binding.url,
    registered <- IF binding.reason = "Registered" THEN binding.observed ELSE 0

\* What the API server shows of the binding changes only as the contract
\* allows: every report is about the generation the binding then has, a
\* registered binding has a URL and no report outlives its incarnation.
KeepsContract == Binding!Contract
=============================================================================
