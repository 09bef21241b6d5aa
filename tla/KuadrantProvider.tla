--------------------------- MODULE KuadrantProvider ---------------------------
(***************************************************************************)
(* The "kuadrant" gateway integration: Reconciler.Reconcile over all the   *)
(* MCPGatewayBindings it serves.  It keeps two objects per binding, an     *)
(* HTTPRoute and an MCPServerRegistration, and the registrations of the    *)
(* whole cluster must not share a tool prefix.  One worker takes the       *)
(* bindings in turn; a reconcile is cut at its writes and uncached reads:  *)
(*                                                                         *)
(*   Fetch -> StampExtension -> StampGateway -> Resolve -> Record          *)
(*         -> ReconcileHTTPRoute -> ReconcileRegistration -> Judge         *)
(*                                                                         *)
(* and what cannot be registered goes to                                   *)
(*                                                                         *)
(*   DeleteStaleRoute -> DeleteStaleRegistration -> Unregister             *)
(*                                                                         *)
(* Informer caches (the c... variables) lag the API server; ConfigMaps and *)
(* Services are watched by their metadata only and read uncached.          *)
(*                                                                         *)
(* Each world an execution starts in allows a number of faults and         *)
(* unforced changes of the environment ("budget").                         *)
(***************************************************************************)
EXTENDS Integers

CONSTANTS
    None,            \* no value
    Names,           \* the namespaced names of the bindings
    Gateways,        \* the Gateways an extension may target
    Sections,        \* listener names
    Hosts,           \* host names
    Exts,            \* the MCPGatewayExtensions a ConfigMap may name
    ConfigMaps,      \* the ConfigMaps spec.configRef may name
    Contents,        \* what a ConfigMap may say
    Services,        \* the Services of other owners a spec may refer to
    Ports,           \* the ports of those Services
    ServerSpecs,     \* the MCPServer specs: path and backend Service
    Prefixes,        \* tool prefixes
    AutoPrefix,      \* the prefix derived from the MCPServer's identity (a hash)
    ExtStates,       \* what an MCPGatewayExtension may look like
    GatewayStates,   \* the listeners a Gateway may have
    Worlds,          \* the surroundings the bindings are created in
    MaxUid           \* bound: incarnations of a binding

Malformed == "malformed"
Wildcard == "*"

Listeners == [host : Hosts \cup {None, Wildcard}, tls : BOOLEAN]

\* ext is None when extension-name or extension-namespace is missing, malformed
\* or outside the operator's allowlist.
ASSUME KuadrantAssumption ==
    /\ Contents \subseteq [ext : Exts \cup {None}, section : Sections \cup {None},
                           host : Hosts \cup {None, Malformed},
                           prefix : Prefixes \cup {None}]
    /\ ServerSpecs \subseteq [path : STRING, service : Services \cup {"managed"}]
    /\ AutoPrefix \in [Names -> Prefixes]
    /\ ExtStates \subseteq [gateway : Gateways, section : Sections \cup {None},
                            publicHost : Hosts \cup {None}, ready : BOOLEAN]
    /\ GatewayStates \subseteq [Sections -> Listeners \cup {None}]
    /\ Ports # {}
    /\ \A w \in Worlds :
          /\ w.servers \in [Names -> ServerSpecs \cup {None}]
          /\ w.config \in [ConfigMaps -> Contents \cup {None}]
          /\ w.exts \in [Exts -> ExtStates \cup {None}]
          /\ w.gateways \in [Gateways -> GatewayStates \cup {None}]
          /\ w.foreign \subseteq {"route", "registration"}
          /\ w.rivals \subseteq Prefixes
          /\ w.judged \in BOOLEAN
          /\ w.budget \in Nat
    /\ MaxUid \in Nat \ {0}

VARIABLES
    server,      \* the spec of each MCPServer, None when it is absent
    binding,     \* each MCPGatewayBinding; uid 0 when it is absent
    lastUid,     \* the uid of its latest incarnation, 0 when there was none
    route,       \* the HTTPRoute named after it; owner 0 when absent
    reg,         \* the MCPServerRegistration named after it; owner 0 when absent
    rivals,      \* the prefixes of the registrations this operator does not make
    config,      \* the content of each ConfigMap, None when it is absent
    services,    \* the MCP port of each Service, None when absent or portless
    exts,        \* each MCPGatewayExtension, None when it is absent
    gateways,    \* each Gateway's listeners, None when it is absent
    judged,      \* whether the Gateway and Kuadrant controllers are running
    cserver, cbinding, croute, creg, crivals, cexts, cgateways,  \* the caches
    changed,     \* ConfigMaps and Services with an undelivered metadata event
    queued,      \* the names in the workqueue
    timer,       \* the names the workqueue holds back until a delay is over
    pc,          \* the next step of the reconcile in progress
    work,        \* its locals
    budget       \* the faults and unforced changes still to come

objectVars == <<binding, lastUid, route, reg>>
worldVars  == <<server, rivals, config, services, exts, gateways, judged>>
cacheVars  == <<cserver, cbinding, croute, creg, crivals, cexts, cgateways>>
queueVars  == <<queued, timer>>
workVars   == <<pc, work>>
vars == <<objectVars, worldVars, cacheVars, changed, queueVars, workVars, budget>>

-----------------------------------------------------------------------------
(* Objects.                                                                *)

Url == [scheme : {"http", "https"}, host : Hosts, path : {s.path : s \in ServerSpecs}]

\* Why a binding is NotRegistered: each has a message of its own.
Unregistrable == {"InvalidConfig", "NoExtension", "NoListener", "PrefixConflict"}

Reasons == Unregistrable \cup {"none", "ExtensionNotReady", "RouteNotAccepted",
                               "RegistrationNotReady", "PublicAddressPending",
                               "Registered"}

\* reason, observed and url are the Registered condition (True for the reason
\* Registered only) and status.url; the ...Ref fields are the annotations.
NoBinding ==
    [uid |-> 0, gen |-> 0, provider |-> "kuadrant", config |-> None,
     extensionRef |-> None, gatewayRef |-> None, serviceRef |-> None,
     reason |-> "none", observed |-> 0, url |-> None]

NewBinding(u, p, c) ==
    [NoBinding EXCEPT !.uid = u, !.gen = 1, !.provider = p, !.config = c]

Providers == {"kuadrant", "other"}

\* A binding as the provider may find it when it starts: not reported on yet,
\* and perhaps annotated by an earlier run of the operator.
FoundBindings ==
    [uid : {1}, gen : {1}, provider : Providers, config : ConfigMaps \cup {None},
     extensionRef : Exts \cup {None}, gatewayRef : Gateways \cup {None},
     serviceRef : Services \cup {"managed", None},
     reason : {"none"}, observed : {0}, url : {None}]

ASSUME BindingsAssumption ==
    \A w \in Worlds : w.bindings \in [Names -> FoundBindings \cup {NoBinding}]

Foreign == -1
NotAccepted == [by |-> None, gen |-> 0]
NoRoute == [owner |-> 0, gen |-> 0, spec |-> None, accepted |-> NotAccepted]
NoReg == [owner |-> 0, spec |-> None, ready |-> FALSE]

NoWork == [name |-> None, binding |-> NoBinding, spec |-> None, content |-> None,
           ext |-> None, section |-> None, host |-> None, port |-> None,
           why |-> "none"]

\* MatchesProvider: the reconciler ignores the bindings of other providers.
Ours(b) == b.uid # 0 /\ b.provider = "kuadrant"

OursIn(bindings) == {n \in Names : Ours(bindings[n])}

\* The workqueue has one entry per name: to add a name now ends its delay.
Enqueue(names) == queued' = queued \cup names /\ timer' = timer \ names

Calm == UNCHANGED budget

Disturb == budget > 0 /\ budget' = budget - 1

Init ==
    \E w \in Worlds :
       /\ server = w.servers
       /\ binding = w.bindings
       /\ lastUid = [n \in Names |-> binding[n].uid]
       /\ route = [n \in Names |-> IF "route" \notin w.foreign THEN NoRoute
                                   ELSE [NoRoute EXCEPT !.owner = Foreign, !.gen = 1]]
       /\ reg = [n \in Names |-> IF "registration" \notin w.foreign THEN NoReg
                                 ELSE [NoReg EXCEPT !.owner = Foreign]]
       /\ rivals = w.rivals /\ config = w.config
       /\ services = [s \in Services |-> CHOOSE p \in Ports : TRUE]
       /\ exts = w.exts /\ gateways = w.gateways /\ judged = w.judged
       /\ cserver = server /\ cbinding = [n \in Names |-> NoBinding]
       /\ croute = route /\ creg = reg /\ crivals = rivals
       /\ cexts = exts /\ cgateways = gateways
       /\ changed = {} /\ queued = {} /\ timer = {}
       /\ pc = "idle" /\ work = NoWork
       /\ budget = w.budget
-----------------------------------------------------------------------------
(* The environment.                                                        *)

\* The MCPServer controller writes another configRef, deletes the binding when
\* spec.gateway is removed or names another provider, and creates the next one.
EditBinding(n) ==
    /\ binding[n].uid # 0 /\ Disturb
    /\ \E c \in (ConfigMaps \cup {None}) \ {binding[n].config} :
          binding' = [binding EXCEPT ![n].config = c, ![n].gen = @ + 1]
    /\ UNCHANGED <<lastUid, route, reg, worldVars, cacheVars, changed, queueVars, workVars>>

DeleteBinding(n) ==
    /\ binding[n].uid # 0 /\ lastUid[n] < MaxUid /\ Disturb
    /\ binding' = [binding EXCEPT ![n] = NoBinding]
    /\ UNCHANGED <<lastUid, route, reg, worldVars, cacheVars, changed, queueVars, workVars>>

CreateBinding(n) ==
    /\ binding[n].uid = 0 /\ lastUid[n] \in 1..(MaxUid - 1)
    /\ lastUid' = [lastUid EXCEPT ![n] = @ + 1]
    /\ \E p \in Providers, c \in ConfigMaps :
          binding' = [binding EXCEPT ![n] = NewBinding(lastUid'[n], p, c)]
    /\ Calm
    /\ UNCHANGED <<route, reg, worldVars, cacheVars, changed, queueVars, workVars>>

CollectGarbage(n) ==
    /\ \/ /\ route[n].owner \notin {0, Foreign, binding[n].uid}
          /\ route' = [route EXCEPT ![n] = NoRoute] /\ UNCHANGED reg
       \/ /\ reg[n].owner \notin {0, Foreign, binding[n].uid}
          /\ reg' = [reg EXCEPT ![n] = NoReg] /\ UNCHANGED route
    /\ Calm
    /\ UNCHANGED <<binding, lastUid, worldVars, cacheVars, changed, queueVars, workVars>>

\* The bindings that are there; what only concerns others may not change.
Concerned == {n \in Names : binding[n].uid # 0}

\* The MCPServer, a ConfigMap, a Service, an extension or a Gateway is edited,
\* deleted or created, or somebody else's registration comes or goes.  The
\* Ready condition of an extension follows an edit of its spec when its own
\* controller gets to it, so any combination of the two may be seen.
WorldChanges ==
    /\ Disturb
    /\ \/ /\ \E n \in Concerned : \E s \in (ServerSpecs \cup {None}) \ {server[n]} :
                server' = [server EXCEPT ![n] = s]
          /\ UNCHANGED <<rivals, config, services, exts, gateways, changed>>
       \/ /\ \E c \in {binding[n].config : n \in Concerned} \ {None} : \E v \in (Contents \cup {None}) \ {config[c]} :
                config' = [config EXCEPT ![c] = v] /\ changed' = changed \cup {c}
          /\ UNCHANGED <<server, rivals, services, exts, gateways>>
       \/ /\ \E s \in Services : \E p \in (Ports \cup {None}) \ {services[s]} :
                services' = [services EXCEPT ![s] = p] /\ changed' = changed \cup {s}
          /\ UNCHANGED <<server, rivals, config, exts, gateways>>
       \/ /\ \E e \in Exts : \E v \in (ExtStates \cup {None}) \ {exts[e]} :
                exts' = [exts EXCEPT ![e] = v]
          /\ UNCHANGED <<server, rivals, config, services, gateways, changed>>
       \/ /\ \E g \in Gateways : \E v \in (GatewayStates \cup {None}) \ {gateways[g]} :
                gateways' = [gateways EXCEPT ![g] = v]
          /\ UNCHANGED <<server, rivals, config, services, exts, changed>>
       \/ /\ \E p \in Prefixes : rivals' = IF p \in rivals THEN rivals \ {p}
                                           ELSE rivals \cup {p}
          /\ UNCHANGED <<server, config, services, exts, gateways, changed>>
    /\ UNCHANGED <<judged, objectVars, cacheVars, queueVars, workVars>>

\* The Gateway's controller judges the current generation of a route.
RouteJudged(n) ==
    /\ judged /\ route[n].owner \notin {0, Foreign}
    /\ LET accepted == [by |-> route[n].spec.gateway, gen |-> route[n].gen]
       IN \/ /\ route[n].accepted # accepted /\ Calm
             /\ route' = [route EXCEPT ![n].accepted = accepted]
          \/ /\ route[n].accepted = accepted /\ Disturb
             /\ route' = [route EXCEPT ![n].accepted = NotAccepted]
    /\ UNCHANGED <<binding, lastUid, reg, worldVars, cacheVars, changed, queueVars, workVars>>

\* The Kuadrant controller reports on a registration.
RegistrationJudged(n) ==
    /\ judged /\ reg[n].owner \notin {0, Foreign}
    /\ reg' = [reg EXCEPT ![n].ready = ~@]
    /\ IF reg[n].ready THEN Disturb ELSE Calm
    /\ UNCHANGED <<binding, lastUid, route, worldVars, cacheVars, changed, queueVars, workVars>>

-----------------------------------------------------------------------------
(* Watches: each event updates a cache and enqueues the bindings it maps   *)
(* to, looked up in the cached bindings.                                   *)

SyncBinding(n) ==
    /\ cbinding[n] # binding[n]
    /\ cbinding' = [cbinding EXCEPT ![n] = binding[n]]
    /\ Enqueue(IF \/ Ours(binding[n])
                  \/ binding[n].uid # cbinding[n].uid /\ Ours(cbinding[n])
               THEN {n} ELSE {})
    /\ Calm
    /\ UNCHANGED <<objectVars, worldVars, cserver, croute, creg, crivals, cexts, cgateways,
                   changed, workVars>>

\* Owns(HTTPRoute) and Owns(MCPServerRegistration): the owner's name is
\* enqueued.  A registration of another owner enqueues nobody.
SyncOwned ==
    /\ \/ \E n \in Names :
             /\ croute[n] # route[n] /\ croute' = [croute EXCEPT ![n] = route[n]]
             /\ Enqueue({n}) /\ UNCHANGED <<creg, crivals>>
       \/ \E n \in Names :
             /\ creg[n] # reg[n] /\ creg' = [creg EXCEPT ![n] = reg[n]]
             /\ Enqueue({n}) /\ UNCHANGED <<croute, crivals>>
       \/ crivals # rivals /\ crivals' = rivals /\ UNCHANGED <<croute, creg, queueVars>>
    /\ Calm
    /\ UNCHANGED <<objectVars, worldVars, cserver, cbinding, cexts, cgateways, changed,
                   workVars>>

\* findBindingsForMCPServer, findBindingsForGateway and
\* findBindingsForGatewayExtension.
SyncWorld ==
    /\ \/ \E n \in Names :
             /\ cserver[n] # server[n] /\ cserver' = [cserver EXCEPT ![n] = server[n]]
             /\ Enqueue(OursIn(cbinding) \cap {n})
             /\ UNCHANGED <<cexts, cgateways>>
       \/ \E g \in Gateways :
             /\ cgateways[g] # gateways[g]
             /\ cgateways' = [cgateways EXCEPT ![g] = gateways[g]]
             /\ Enqueue({n \in OursIn(cbinding) : cbinding[n].gatewayRef = g})
             /\ UNCHANGED <<cserver, cexts>>
       \/ \E e \in Exts :
             /\ cexts[e] # exts[e] /\ cexts' = [cexts EXCEPT ![e] = exts[e]]
             /\ Enqueue({n \in OursIn(cbinding) : cbinding[n].extensionRef = e})
             /\ UNCHANGED <<cserver, cgateways>>
    /\ Calm
    /\ UNCHANGED <<objectVars, worldVars, cbinding, croute, creg, crivals, changed, workVars>>

\* findBindingsForConfigMap and FindBindingsForService.
MetadataEvent ==
    /\ \E x \in changed :
          /\ changed' = changed \ {x}
          /\ Enqueue({n \in OursIn(cbinding) :
                         x \in {cbinding[n].config, cbinding[n].serviceRef}})
    /\ Calm
    /\ UNCHANGED <<objectVars, worldVars, cacheVars, workVars>>

\* A RequeueAfter expires.
TimerFires ==
    /\ \E n \in timer : Enqueue({n})
    /\ Calm
    /\ UNCHANGED <<objectVars, worldVars, cacheVars, changed, workVars>>

\* The operator restarts: caches are listed afresh, bindings and the owners of
\* routes and registrations enqueued.
RestartOperator ==
    /\ Disturb
    /\ cserver' = server /\ cbinding' = binding /\ croute' = route /\ creg' = reg
    /\ crivals' = rivals /\ cexts' = exts /\ cgateways' = gateways
    /\ changed' = {} /\ timer' = {}
    /\ queued' = OursIn(binding) \cup {n \in Names : route[n].owner > 0 \/ reg[n].owner > 0}
    /\ pc' = "idle" /\ work' = NoWork
    /\ UNCHANGED <<objectVars, worldVars>>
-----------------------------------------------------------------------------
(* The reconcile.                                                          *)

Finish(outcome) ==
    /\ pc' = "idle" /\ work' = NoWork
    /\ IF outcome = "error" THEN Enqueue({work.name})
       ELSE /\ timer' = timer \cup (IF outcome = "later" THEN {work.name} \ queued ELSE {})
            /\ UNCHANGED queued

Goto(step) == pc' = step /\ UNCHANGED queueVars

\* setNotRegistered begins: first the resources, then the status.
GiveUp(why) == Goto("deleteRoute") /\ work' = [work EXCEPT !.why = why]

\* Any call of the reconcile to the API server fails; reads of a cache do not.
CallFails ==
    /\ pc # "idle"
    /\ Disturb
    /\ Finish("error")
    /\ UNCHANGED <<objectVars, worldVars, cacheVars, changed>>

\* parseConfig: there is no ConfigMap, or its extension cannot be used.
ConfigInvalid(content) == content = None \/ content.ext = None

\* The binding and the MCPServer come from the caches; parseConfig reads the
\* ConfigMap from the API server.
Fetch(n) ==
    /\ pc = "idle" /\ n \in queued
    /\ queued' = queued \ {n}
    /\ IF ~Ours(cbinding[n]) \/ cserver[n] = None
       THEN UNCHANGED workVars
       ELSE LET c == cbinding[n].config
                content == IF c = None THEN None ELSE config[c]
                invalid == ConfigInvalid(content)
            IN /\ work' = [NoWork EXCEPT !.name = n, !.binding = cbinding[n],
                              !.spec = cserver[n], !.content = content,
                              !.why = IF invalid THEN "InvalidConfig" ELSE "none"]
               /\ pc' = IF invalid THEN "deleteRoute"
                        ELSE IF cbinding[n].extensionRef = content.ext THEN "gatewayRef"
                        ELSE "extensionRef"
    /\ Calm
    /\ UNCHANGED <<objectVars, worldVars, cacheVars, changed, timer>>

\* EnsureBindingAnnotations: a merge patch by name, without a resourceVersion,
\* that reads the whole binding back into the reconcile's copy.
EnsureAnnotation(held, key, value, next) ==
    LET n == held.name
    IN  IF held.binding[key] = value
        THEN Goto(next) /\ work' = held /\ UNCHANGED binding
        ELSE IF binding[n].uid = 0
        THEN Finish("error") /\ UNCHANGED binding
        ELSE /\ binding' = [binding EXCEPT ![n] = [@ EXCEPT ![key] = value]]
             /\ work' = [held EXCEPT !.binding = binding'[n]]
             /\ Goto(next)

StampExtension ==
    /\ pc = "extensionRef"
    /\ EnsureAnnotation(work, "extensionRef", work.content.ext, "gatewayRef")
    /\ Calm
    /\ UNCHANGED <<lastUid, route, reg, worldVars, cacheVars, changed>>

\* The extension leads to the Gateway, which is recorded in turn.
StampGateway ==
    /\ pc = "gatewayRef"
    /\ LET ext == cexts[work.content.ext]
       IN IF ext = None THEN GiveUp("NoExtension") /\ UNCHANGED binding
          ELSE EnsureAnnotation([work EXCEPT !.ext = ext], "gatewayRef", ext.gateway,
                                "resolve")
    /\ Calm
    /\ UNCHANGED <<lastUid, route, reg, worldVars, cacheVars, changed>>

\* Variant: the status is applied by name, whatever the binding is by now.
ForceBindingStatus(reason, url, outcome) ==
    /\ binding' = [binding EXCEPT ![work.name] = IF @.uid = 0 THEN @
          ELSE [@ EXCEPT !.reason = reason, !.url = url, !.observed = work.binding.gen]]
    /\ Finish(outcome)
    /\ Calm
    /\ UNCHANGED <<lastUid, route, reg, worldVars, cacheVars, changed>>

\* UpdateBindingStatus writes nothing when nothing changed; its Update fails
\* when the binding is not the one the reconcile holds any more.
UpdateBindingStatus(reason, url, outcome) ==
    /\ LET held == work.binding
           n == work.name
           reported == [held EXCEPT !.reason = reason, !.observed = held.gen, !.url = url]
       IN /\ binding' = [binding EXCEPT ![n] = IF held = @ THEN reported ELSE @]
          /\ Finish(IF reported # held /\ held # binding[n] THEN "error" ELSE outcome)
    /\ Calm
    /\ UNCHANGED <<lastUid, route, reg, worldVars, cacheVars, changed>>

HasListener(gws, g, s) == s # None /\ gws[g] # None /\ gws[g][s] # None

WildcardListeners(gws, g) ==
    {s \in Sections : HasListener(gws, g, s) /\ gws[g][s].host = Wildcard}

\* The ConfigMap's section-name, or the only wildcard listener
\* (discoverWildcardListener); None when there is no such choice.
SectionFor(content, gws, g) ==
    IF content.section # None THEN content.section
    ELSE IF \E s \in Sections : WildcardListeners(gws, g) = {s}
         THEN CHOOSE s \in Sections : WildcardListeners(gws, g) = {s}
         ELSE None

\* guardDirectHostnameListener: an HTTPS or TLS listener bound to one hostname
\* cannot route per server.
Guarded(listener) == listener.tls /\ listener.host \notin {None, Wildcard}

\* resolveRouteHostname; None stands for its errors.  A missing Gateway or
\* listener is no error when the ConfigMap gives the hostname.
RouteHostname(content, gws, g, s) ==
    IF content.host # None
    THEN IF \/ content.host = Malformed
            \/ HasListener(gws, g, s) /\ Guarded(gws[g][s])
         THEN None ELSE content.host
    ELSE IF ~HasListener(gws, g, s) \/ Guarded(gws[g][s]) THEN None
    ELSE IF gws[g][s].host = Wildcard THEN "perServer" ELSE gws[g][s].host

\* The extension must be ready and the listener and the hostname of the route
\* known; ResolveServiceEndpoint then reads the port of a Service that is not
\* managed from the API server.
Resolve ==
    /\ pc = "resolve"
    /\ LET s == SectionFor(work.content, cgateways, work.ext.gateway)
           h == RouteHostname(work.content, cgateways, work.ext.gateway, s)
       IN IF ~work.ext.ready
          THEN UpdateBindingStatus("ExtensionNotReady", None, "later")
          ELSE /\ IF s = None \/ h = None
                  THEN GiveUp("NoListener")
                  ELSE /\ work' = [work EXCEPT
                             !.section = s, !.host = h,
                             !.port = IF work.spec.service = "managed" THEN "managed"
                                      ELSE services[work.spec.service]]
                       /\ Goto(IF work.binding.serviceRef = work.spec.service
                               THEN "route" ELSE "record")
               /\ Calm
               /\ UNCHANGED <<objectVars, worldVars, cacheVars, changed>>

\* ResolveAndRecordBackendService records the Service also when it could not
\* be resolved.
Record ==
    /\ pc = "record"
    /\ EnsureAnnotation(work, "serviceRef", work.spec.service, "route")
    /\ Calm
    /\ UNCHANGED <<lastUid, route, reg, worldVars, cacheVars, changed>>

DesiredRoute(w) ==
    [gateway |-> w.ext.gateway, section |-> w.section, host |-> w.host,
     service |-> w.spec.service, port |-> w.port, path |-> w.spec.path]

\* SetControllerReference takes over a route controlled by an earlier binding
\* of this name and refuses any other controller.  Create and Update fail when
\* the cache is behind the API server.
ReconcileHTTPRoute ==
    /\ pc = "route"
    /\ LET n == work.name
           desired == DesiredRoute(work)
           cached == croute[n]
           updated == [cached EXCEPT !.owner = work.binding.uid, !.spec = desired,
                                     !.gen = IF cached.spec = desired THEN @ ELSE @ + 1]
       IN IF work.port = None
          THEN Finish("error") /\ UNCHANGED route
          ELSE IF cached.owner = 0 /\ route[n].owner = 0
          THEN /\ route' = [route EXCEPT ![n] = [NoRoute EXCEPT
                               !.owner = work.binding.uid, !.gen = 1, !.spec = desired]]
               /\ Goto("registration") /\ UNCHANGED work
          ELSE IF cached.owner > 0 /\ (updated = cached \/ cached = route[n])
          THEN /\ route' = [route EXCEPT ![n] = IF updated = cached THEN @ ELSE updated]
               /\ Goto("registration") /\ UNCHANGED work
          ELSE Finish("error") /\ UNCHANGED route
    /\ Calm
    /\ UNCHANGED <<binding, lastUid, reg, worldVars, cacheVars, changed>>

\* parseConfig: the ConfigMap's prefix or the one generated for the server.
PrefixFor(n, content) == IF content.prefix # None THEN content.prefix ELSE AutoPrefix[n]

\* Variant: only registrations made by others are compared.
PrefixTakenByOthers(n, prefix) == prefix \in crivals

\* checkPrefixConflict: another registration in the cache has the prefix.
PrefixTaken(n, prefix) ==
    \/ prefix \in crivals
    \/ \E m \in Names \ {n} : creg[m].owner > 0 /\ creg[m].spec.prefix = prefix

\* reconcileMCPServerRegistration.  An update leaves the Ready condition of the
\* registration as it was.
ReconcileRegistration ==
    /\ pc = "registration"
    /\ LET n == work.name
           prefix == PrefixFor(n, work.content)
           desired == [path |-> work.spec.path, prefix |-> prefix]
           cached == creg[n]
           updated == [cached EXCEPT !.owner = work.binding.uid, !.spec = desired]
       IN IF PrefixTaken(n, prefix)
          THEN GiveUp("PrefixConflict") /\ UNCHANGED reg
          ELSE IF cached.owner = 0 /\ reg[n].owner = 0
          THEN /\ reg' = [reg EXCEPT ![n] = [NoReg EXCEPT !.owner = work.binding.uid,
                                                          !.spec = desired]]
               /\ Goto("judge") /\ UNCHANGED work
          ELSE IF cached.owner > 0 /\ (updated = cached \/ cached = reg[n])
          THEN /\ reg' = [reg EXCEPT ![n] = IF updated = cached THEN @ ELSE updated]
               /\ Goto("judge") /\ UNCHANGED work
          ELSE Finish("error") /\ UNCHANGED reg
    /\ Calm
    /\ UNCHANGED <<binding, lastUid, route, worldVars, cacheVars, changed>>

\* IsHTTPRouteAccepted: by the Gateway of the extension, and for the
\* generation of the route that was read.
IsHTTPRouteAccepted(r, g) == r.accepted.by = g /\ r.accepted.gen >= r.gen

\* resolvePublicEndpoint: the extension's publicHost, or the hostname of the
\* listener it targets when that is no wildcard.
PublicHost(ext, gws) ==
    IF ext.publicHost # None THEN ext.publicHost
    ELSE IF /\ HasListener(gws, ext.gateway, ext.section)
            /\ gws[ext.gateway][ext.section].host # Wildcard
    THEN gws[ext.gateway][ext.section].host
    ELSE None

PublicUrl(ext, spec, gws) ==
    [scheme |-> IF /\ HasListener(gws, ext.gateway, ext.section)
                   /\ gws[ext.gateway][ext.section].tls
                THEN "https" ELSE "http",
     host |-> PublicHost(ext, gws), path |-> spec.path]

\* What is reported of route r and registration g.
Verdict(ext, r, g, gws) ==
    IF ~IsHTTPRouteAccepted(r, ext.gateway) THEN "RouteNotAccepted"
    ELSE IF ~g.ready THEN "RegistrationNotReady"
    ELSE IF PublicHost(ext, gws) = None THEN "PublicAddressPending"
    ELSE "Registered"

\* Variant: an accepted route is enough.
JudgeRouteOnly ==
    /\ pc = "judge"
    /\ LET r == croute[work.name]
           verdict == Verdict(work.ext, r, [ready |-> TRUE], cgateways)
       IN IF r.owner = 0 \/ creg[work.name].owner = 0
          THEN /\ Finish("error") /\ Calm
               /\ UNCHANGED <<objectVars, worldVars, cacheVars, changed>>
          ELSE IF verdict = "Registered"
          THEN UpdateBindingStatus(verdict, PublicUrl(work.ext, work.spec, cgateways), "done")
          ELSE UpdateBindingStatus(verdict, None, "later")

\* The two objects are read back from the caches and judged; a route that is
\* not accepted is reported before the registration is looked up.
Judge ==
    /\ pc = "judge"
    /\ LET r == croute[work.name]
           g == creg[work.name]
           verdict == Verdict(work.ext, r, g, cgateways)
       IN IF r.owner = 0 \/ (IsHTTPRouteAccepted(r, work.ext.gateway) /\ g.owner = 0)
          THEN /\ Finish("error") /\ Calm
               /\ UNCHANGED <<objectVars, worldVars, cacheVars, changed>>
          ELSE IF verdict = "Registered"
          THEN UpdateBindingStatus(verdict, PublicUrl(work.ext, work.spec, cgateways), "done")
          ELSE UpdateBindingStatus(verdict, None, "later")

\* deleteStaleResources: what is controlled by this very binding, as far as the
\* cache knows, is deleted by name; the route first.
DeleteStaleRoute ==
    /\ pc = "deleteRoute"
    /\ route' = [route EXCEPT ![work.name] =
          IF croute[work.name].owner = work.binding.uid THEN NoRoute ELSE @]
    /\ Goto("deleteRegistration")
    /\ Calm
    /\ UNCHANGED <<binding, lastUid, reg, worldVars, cacheVars, changed, work>>

\* Variant: without a route there is nothing left to delete.
DeleteWithRoute ==
    /\ pc = "deleteRegistration"
    /\ reg' = [reg EXCEPT ![work.name] =
          IF creg[work.name].owner = work.binding.uid /\ croute[work.name].owner # 0
          THEN NoReg ELSE @]
    /\ Goto("unregister")
    /\ Calm
    /\ UNCHANGED <<binding, lastUid, route, worldVars, cacheVars, changed, work>>

DeleteStaleRegistration ==
    /\ pc = "deleteRegistration"
    /\ reg' = [reg EXCEPT ![work.name] =
          IF creg[work.name].owner = work.binding.uid THEN NoReg ELSE @]
    /\ Goto("unregister")
    /\ Calm
    /\ UNCHANGED <<binding, lastUid, route, worldVars, cacheVars, changed, work>>

\* The end of setNotRegistered; a prefix conflict is looked at again later.
Unregister ==
    /\ pc = "unregister"
    /\ UpdateBindingStatus(work.why, None,
                           IF work.why = "PrefixConflict" THEN "later" ELSE "done")

Environment ==
    \/ \E n \in Names :
          \/ EditBinding(n) \/ DeleteBinding(n) \/ CreateBinding(n) \/ CollectGarbage(n)
          \/ RouteJudged(n) \/ RegistrationJudged(n)
    \/ WorldChanges

Informers == (\E n \in Names : SyncBinding(n)) \/ SyncOwned \/ SyncWorld \/ MetadataEvent

Worker ==
    \/ \E n \in Names : Fetch(n)
    \/ StampExtension \/ StampGateway \/ Resolve \/ Record
    \/ ReconcileHTTPRoute \/ ReconcileRegistration \/ Judge
    \/ DeleteStaleRoute \/ DeleteStaleRegistration \/ Unregister

Next == Environment \/ Informers \/ TimerFires \/ Worker \/ CallFails \/ RestartOperator

Spec == Init /\ [][Next]_vars

\* The operator's own scheduling: informers deliver and the worker goes on.
FairSpec == Spec /\ WF_vars(Informers) /\ WF_vars(Worker)

-----------------------------------------------------------------------------
(* Properties.                                                             *)

\* Types of what the API server stores and of the control state; a published
\* URL always has a host.
TypeOK ==
    /\ server \in [Names -> ServerSpecs \cup {None}]
    /\ \A n \in Names :
          /\ binding[n].reason \in Reasons /\ binding[n].url \in Url \cup {None}
          /\ {route[n].owner, reg[n].owner} \subseteq (0..lastUid[n]) \cup {Foreign}
    /\ queued \subseteq Names /\ timer \subseteq Names
    /\ pc \in {"idle", "extensionRef", "gatewayRef", "resolve", "record", "route",
               "registration", "judge", "deleteRoute", "deleteRegistration", "unregister"}

\* Everything the environment did has reached the controller and the
\* controller has nothing queued.  A pending timer does not count: the
\* watches alone must be enough.
Quiet ==
    /\ pc = "idle" /\ queued = {} /\ changed = {}
    /\ cserver = server /\ cbinding = binding /\ croute = route /\ creg = reg
    /\ crivals = rivals /\ cexts = exts /\ cgateways = gateways

Served(n) == Ours(binding[n]) /\ server[n] # None

Content(n) == IF binding[n].config = None THEN None ELSE config[binding[n].config]

\* Why a binding cannot be registered as things are, "none" when it can.
Obstacle(n) ==
    IF ConfigInvalid(Content(n)) THEN "InvalidConfig"
    ELSE IF exts[Content(n).ext] = None THEN "NoExtension"
    ELSE LET ext == exts[Content(n).ext]
             s == SectionFor(Content(n), gateways, ext.gateway)
         IN IF ~ext.ready THEN "ExtensionNotReady"
            ELSE IF s = None \/ RouteHostname(Content(n), gateways, ext.gateway, s) = None
            THEN "NoListener" ELSE "none"

\* Nothing is forgotten in one of the two objects: when the provider is quiet,
\* both the HTTPRoute and the registration are those the ConfigMap, the
\* extension, the Gateway, the Service and the MCPServer ask for, and a binding
\* that cannot be registered controls neither, however often its clean-up was
\* interrupted between the two deletions.
QuietObjectsAreCurrent ==
    Quiet => \A n \in Names : Served(n) =>
        /\ Obstacle(n) = "none" /\ binding[n].reason # "PrefixConflict" =>
              LET ext == exts[Content(n).ext]
                  s == SectionFor(Content(n), gateways, ext.gateway)
                  service == server[n].service
              IN /\ route[n].owner = binding[n].uid /\ reg[n].owner = binding[n].uid
                 /\ route[n].spec = DesiredRoute(
                       [ext |-> ext, section |-> s, spec |-> server[n],
                        host |-> RouteHostname(Content(n), gateways, ext.gateway, s),
                        port |-> IF service = "managed" THEN "managed"
                                 ELSE services[service]])
                 /\ reg[n].spec = [path |-> server[n].path,
                                   prefix |-> PrefixFor(n, Content(n))]
        /\ Obstacle(n) \in Unregistrable =>
              binding[n].uid \notin {route[n].owner, reg[n].owner}

\* And then the Registered condition says, for the current generation, what is
\* the case, although events are matched against annotations in a lagging
\* cache and neither Ready condition is compared with a generation.
QuietStatusIsCurrent ==
    Quiet => \A n \in Names : Served(n) /\ binding[n].reason # "PrefixConflict" =>
        LET ext == exts[Content(n).ext]
        IN /\ binding[n].observed = binding[n].gen
           /\ binding[n].reason = IF Obstacle(n) # "none" THEN Obstacle(n)
                                  ELSE Verdict(ext, route[n], reg[n], gateways)
           /\ binding[n].url = IF binding[n].reason = "Registered"
                               THEN PublicUrl(ext, server[n], gateways) ELSE None

\* The binding controls its registration, and nothing keeps the provider from
\* comparing its prefix with those of the others.
Comparable(n) ==
    Served(n) /\ reg[n].owner = binding[n].uid /\ Obstacle(n) = "none"

\* checkPrefixConflict reads a cache that may not show yet what the previous
\* reconcile created; still, when the provider is quiet, no two bindings that
\* can be registered have registrations of the same prefix.  A registration
\* that awaits garbage collection, or that is kept while its extension is not
\* ready, is not compared again and may share the prefix of another.
QuietPrefixesAreDistinct ==
    Quiet => \A m, n \in Names :
        m # n /\ Comparable(m) /\ Comparable(n) =>
            reg[m].spec.prefix # reg[n].spec.prefix

\* observedGeneration of Registered=True, 0 when it is not True.
RegisteredGeneration(b) == IF b.reason = "Registered" THEN b.observed ELSE 0

Binding(n) == INSTANCE GatewayBinding WITH
    Urls <- Url, NoUrl <- None, uid <- binding[n].uid, gen <- binding[n].gen,
    url <- binding[n].url, registered <- RegisteredGeneration(binding[n])

\* The provider implements GatewayBinding for each of its bindings: what the
\* API server shows of one starts and changes only as the MCPServer controller
\* counts on.
KeepsContract ==
    /\ \A n \in Names : Binding(n)!Start
    /\ [][\A n \in Names : [Binding(n)!Step]_(Binding(n)!bindingVars)]_vars

\* A binding whose prefix is taken is looked at again after the delay that
\* Reconcile asks for: with its timers held back the provider comes to rest.
\* Refuted, for FairSpec, under Kuadrant with ConflictWorlds: the status update
\* wakes the provider at once.
WaitsForItsTimers == <>[](pc = "idle" /\ queued = {}) \/ []<><<TimerFires>>_vars
=============================================================================
