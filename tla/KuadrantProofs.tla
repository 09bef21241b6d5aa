--------------------------- MODULE KuadrantProofs ---------------------------
(***************************************************************************)
(* The kuadrant provider implements the contract of GatewayBinding for     *)
(* each of its bindings, for every set of names, extensions, Gateways,     *)
(* ConfigMaps, Services and specs and every bound.  And the invariants of  *)
(* KuadrantConvergenceProofs: what they say, that events which tell a      *)
(* binding nothing keep them, and that prefixes stay apart.                *)
(***************************************************************************)
EXTENDS KuadrantProvider, TLAPS

\* A leaf is left to Zenon unless it names another prover.
USE ZenonT(60)

-----------------------------------------------------------------------------
(* Types.                                                                  *)

Paths == {s.path : s \in ServerSpecs}

BindingType ==
    [uid : Nat, gen : Nat, provider : Providers, config : ConfigMaps \cup {None},
     extensionRef : Exts \cup {None}, gatewayRef : Gateways \cup {None},
     serviceRef : Services \cup {"managed", None},
     reason : Reasons, observed : Nat, url : Url \cup {None}]

RouteSpecs ==
    [gateway : Gateways, section : Sections \cup {None}, host : Hosts \cup {"perServer", None},
     service : Services \cup {"managed"}, port : Ports \cup {"managed", None}, path : Paths]

RouteType ==
    [owner : Int, gen : Nat, spec : RouteSpecs \cup {None},
     accepted : [by : Gateways \cup {None}, gen : Nat]]

RegSpecs == [path : Paths, prefix : Prefixes]

RegType == [owner : Int, spec : RegSpecs \cup {None}, ready : BOOLEAN]

WorkType ==
    [name : Names \cup {None}, binding : BindingType, spec : ServerSpecs \cup {None},
     content : Contents \cup {None}, ext : ExtStates \cup {None},
     section : Sections \cup {None}, host : Hosts \cup {"perServer", None},
     port : Ports \cup {"managed", None}, why : Unregistrable \cup {"none"}]

\* Every object of the API server and every copy of one has its type.
WorldOK ==
    /\ server \in [Names -> ServerSpecs \cup {None}]
    /\ config \in [ConfigMaps -> Contents \cup {None}]
    /\ services \in [Services -> Ports \cup {None}]
    /\ exts \in [Exts -> ExtStates \cup {None}]
    /\ gateways \in [Gateways -> GatewayStates \cup {None}]
    /\ cserver \in [Names -> ServerSpecs \cup {None}]
    /\ cexts \in [Exts -> ExtStates \cup {None}]
    /\ cgateways \in [Gateways -> GatewayStates \cup {None}]

\* A route and a registration that the operator controls have a spec.
ObjectsOK ==
    /\ binding \in [Names -> BindingType] /\ cbinding \in [Names -> BindingType]
    /\ lastUid \in [Names -> Nat]
    /\ route \in [Names -> RouteType] /\ croute \in [Names -> RouteType]
    /\ reg \in [Names -> RegType] /\ creg \in [Names -> RegType]
    /\ \A n \in Names : route[n].owner \notin {0, -1} => route[n].spec \in RouteSpecs

Steps == {"extensionRef", "gatewayRef", "resolve", "record", "route", "registration", "judge",
          "deleteRoute", "deleteRegistration", "unregister"}

\* setNotRegistered is under way.
Giving == pc \in {"deleteRoute", "deleteRegistration", "unregister"}

\* How far the reconcile came before it went on or gave up.
PastExtension ==
    \/ pc \in {"gatewayRef", "resolve", "record", "route", "registration", "judge"}
    \/ Giving /\ work.why # "InvalidConfig"

PastGateway ==
    \/ pc \in {"resolve", "record", "route", "registration", "judge"}
    \/ Giving /\ work.why \in {"NoListener", "PrefixConflict"}

PastResolve ==
    \/ pc \in {"record", "route", "registration", "judge"}
    \/ Giving /\ work.why = "PrefixConflict"

PastRecord ==
    \/ pc \in {"route", "registration", "judge"}
    \/ Giving /\ work.why = "PrefixConflict"

\* What a reconcile knows at each of its steps.
Known ==
    /\ pc \in Steps \cup {"idle"} /\ work \in WorkType
    /\ pc # "idle" =>
          /\ work.name \in Names /\ work.binding.uid # 0 /\ work.spec # None
          /\ Giving <=> work.why # "none"
          /\ ConfigInvalid(work.content) <=> work.why = "InvalidConfig"
    /\ PastGateway => work.ext # None
    /\ PastResolve => work.ext.ready /\ work.section # None /\ work.host # None

Typed == WorldOK /\ ObjectsOK /\ Known
-----------------------------------------------------------------------------
(* What should be, given copies v of the ConfigMap, the extension and the  *)
(* specs: v is a reconcile's locals or what they would be now.             *)

Hurdle(v, gws) ==
    IF ConfigInvalid(v.content) THEN "InvalidConfig"
    ELSE IF v.ext = None THEN "NoExtension"
    ELSE IF ~v.ext.ready THEN "ExtensionNotReady"
    ELSE LET s == SectionFor(v.content, gws, v.ext.gateway)
         IN IF s = None \/ RouteHostname(v.content, gws, v.ext.gateway, s) = None
            THEN "NoListener" ELSE "none"

RouteOf(v, gws) ==
    LET s == SectionFor(v.content, gws, v.ext.gateway)
    IN DesiredRoute([ext |-> v.ext, section |-> s, spec |-> v.spec,
                     host |-> RouteHostname(v.content, gws, v.ext.gateway, s),
                     port |-> v.port])

RegistrationOf(n, v) == [path |-> v.spec.path, prefix |-> PrefixFor(n, v.content)]

\* The prefix of a binding that can be registered may be taken.
Wanted(b, v, gws) == Hurdle(v, gws) = "none" /\ b.reason # "PrefixConflict"

Refused(b, v, gws) ==
    \/ Hurdle(v, gws) \in Unregistrable
    \/ Hurdle(v, gws) = "none" /\ b.reason = "PrefixConflict"

\* Object r, a route, is as it should be for binding b; so is g, a registration.
RouteRight(b, r, v, gws) ==
    /\ Wanted(b, v, gws) => r.owner = b.uid /\ r.spec = RouteOf(v, gws)
    /\ Refused(b, v, gws) => r.owner # b.uid

RegRight(n, b, g, v, gws) ==
    /\ Wanted(b, v, gws) => g.owner = b.uid /\ g.spec = RegistrationOf(n, v)
    /\ Refused(b, v, gws) => g.owner # b.uid

\* The report is right for route r and registration g.
StatusRight(b, r, g, v, gws) ==
    /\ b.observed = b.gen
    /\ Hurdle(v, gws) # "none" => b.reason = Hurdle(v, gws)
    /\ Wanted(b, v, gws) => b.reason = Verdict(v.ext, r, g, gws)
    /\ b.url = IF b.reason = "Registered" THEN PublicUrl(v.ext, v.spec, gws) ELSE None

\* The events of whatever was looked at find the binding.
RefsRight(b, v, gws) ==
    /\ Hurdle(v, gws) # "InvalidConfig" => b.extensionRef = v.content.ext
    /\ Hurdle(v, gws) \notin {"InvalidConfig", "NoExtension"} => b.gatewayRef = v.ext.gateway
    /\ Hurdle(v, gws) = "none" => b.serviceRef = v.spec.service

\* All is well, or the event of an object that is right by now will come;
\* r and g are in the API server, cr and cg in the cache.
Fine(n, b, r, cr, g, cg, v, gws) ==
    \/ RouteRight(b, r, v, gws) /\ ~RouteRight(b, cr, v, gws)
    \/ RegRight(n, b, g, v, gws) /\ ~RegRight(n, b, cg, v, gws)
    \/ RouteRight(b, cr, v, gws) /\ RegRight(n, b, cg, v, gws) /\ StatusRight(b, cr, cg, v, gws)

-----------------------------------------------------------------------------
(* The inductive invariant.                                                *)

BackendPort(spec) == IF spec.service = "managed" THEN "managed" ELSE services[spec.service]

ExtFor(content) == IF ConfigInvalid(content) THEN None ELSE cexts[content.ext]

\* What a reconcile of n would read now.
View(n) ==
    [content |-> Content(n), ext |-> ExtFor(Content(n)), spec |-> cserver[n],
     port |-> BackendPort(cserver[n])]

\* The cached binding is one that there has been, and an incarnation and its
\* generation settle the spec.
Ordered(n) ==
    /\ binding[n].uid <= lastUid[n] /\ cbinding[n].uid <= lastUid[n]
    /\ binding[n].uid # 0 /\ cbinding[n].uid = binding[n].uid =>
          /\ cbinding[n].gen <= binding[n].gen
          /\ cbinding[n].provider = binding[n].provider
          /\ cbinding[n].gen = binding[n].gen => cbinding[n].config = binding[n].config

\* A reconcile is due, or will be once the cache has the binding's spec.
Coming(n) ==
    \/ n \in queued
    \/ cbinding[n].uid # binding[n].uid
    \/ cbinding[n].gen # binding[n].gen

Busy(n) == pc # "idle" /\ work.name = n

\* An annotation has its value, or the cache does not show it yet.
Marked(n, key, value) == cbinding[n][key] = binding[n][key] => binding[n][key] = value

RouteFor(r) == r.owner = work.binding.uid /\ r.spec = DesiredRoute(work)

RegFor(g) == g.owner = work.binding.uid /\ g.spec = RegistrationOf(work.name, work)

\* What a reconcile read is still so, if the event of a change would have found
\* the binding in the cache.
ReadConfig(n) ==
    /\ work.spec = cserver[n]
    /\ binding[n].config \in changed \/ work.content = Content(n)
    /\ work.binding \in {binding[n], cbinding[n]}

ReadExtension(n) ==
    PastExtension =>
       /\ Marked(n, "extensionRef", work.content.ext)
       /\ cbinding[n].extensionRef = work.content.ext =>
             /\ PastGateway => work.ext = cexts[work.content.ext]
             /\ Giving /\ work.why = "NoExtension" => cexts[work.content.ext] = None

ReadGateway(n) ==
    PastGateway =>
       /\ Marked(n, "gatewayRef", work.ext.gateway)
       /\ cbinding[n].gatewayRef = work.ext.gateway =>
             LET s == SectionFor(work.content, cgateways, work.ext.gateway)
                 h == RouteHostname(work.content, cgateways, work.ext.gateway, s)
             IN /\ PastResolve => work.section = s /\ work.host = h
                /\ Giving /\ work.why = "NoListener" =>
                      work.ext.ready /\ (s = None \/ h = None)

ReadService(n) ==
    /\ PastResolve /\ cbinding[n].serviceRef = work.spec.service =>
          work.port = BackendPort(work.spec) \/ work.spec.service \in changed
    /\ PastRecord => Marked(n, "serviceRef", work.spec.service)

\* What a reconcile wrote is there, or was already there as the cache has it.
Wrote(n) ==
    /\ pc \in {"registration", "judge"} => RouteFor(croute[n]) \/ RouteFor(route[n])
    /\ pc = "judge" => RegFor(creg[n]) \/ RegFor(reg[n])
    /\ pc \in {"deleteRegistration", "unregister"} =>
          croute[n].owner # work.binding.uid \/ route[n].owner # work.binding.uid
    /\ pc = "unregister" =>
          creg[n].owner # work.binding.uid \/ reg[n].owner # work.binding.uid

Informed(n) ==
    Busy(n) /\ Ours(binding[n]) /\ ~Coming(n) =>
       ReadConfig(n) /\ ReadExtension(n) /\ ReadGateway(n) /\ ReadService(n) /\ Wrote(n)

\* Between reconciles: all is well, or an event is on its way.
Settled(n) ==
    ~Busy(n) /\ Ours(binding[n]) /\ cserver[n] # None =>
       \/ n \in queued \/ cbinding[n] # binding[n] \/ binding[n].config \in changed
       \/ /\ RefsRight(binding[n], View(n), cgateways)
          /\ \/ Hurdle(View(n), cgateways) = "none" /\ cserver[n].service \in changed
             \/ Fine(n, binding[n], route[n], croute[n], reg[n], creg[n], View(n), cgateways)

NameInv(n) == Ordered(n) /\ Informed(n) /\ Settled(n)

ConvergenceInv == Typed /\ \A n \in Names : NameInv(n)

-----------------------------------------------------------------------------
(* Prefixes.                                                               *)

\* As the cache has it, two registrations share a prefix.
Clash(m, n) ==
    creg[m].owner > 0 /\ creg[n].owner > 0 /\ creg[m].spec.prefix = creg[n].spec.prefix

\* The reasons of a binding whose prefix was compared and was not taken.
Compared == {"RouteNotAccepted", "RegistrationNotReady", "PublicAddressPending", "Registered"}

\* The prefix of n will be compared before it is reported on as registrable.
Due(n) ==
    \/ n \in queued
    \/ creg[n].owner # reg[n].owner
    \/ creg[n].spec # reg[n].spec
    \/ Busy(n) /\ pc # "judge"
    \/ ~Busy(n) /\ \/ cbinding[n] # binding[n] \/ ~Ours(cbinding[n]) \/ cserver[n] = None
                   \/ binding[n].reason \notin Compared

PrefixInv == \A m, n \in Names : m # n /\ Clash(m, n) => Due(m) \/ Due(n)

-----------------------------------------------------------------------------
(* Types of the operations.                                                *)

\* Nothing, no binding and no object have their types.
LEMMA NothingTyped ==
    /\ NoBinding \in BindingType /\ NoBinding.uid = 0
    /\ NoWork \in WorkType
    /\ NoRoute \in RouteType /\ NoRoute.owner = 0
    /\ NoReg \in RegType /\ NoReg.owner = 0
<1>1. NoBinding \in BindingType /\ NoBinding.uid = 0
  BY DEF NoBinding, BindingType, Reasons, Providers
<1>2. NoWork \in WorkType
  BY <1>1 DEF NoWork, WorkType
<1>3. NotAccepted \in [by : Gateways \cup {None}, gen : Nat]
  BY DEF NotAccepted
<1>4. NoRoute \in RouteType /\ NoRoute.owner = 0
  BY <1>3, SMTT(60) DEF NoRoute, RouteType
<1>5. NoReg \in RegType /\ NoReg.owner = 0
  BY SMTT(60) DEF NoReg, RegType
<1>6. QED
  BY <1>1, <1>2, <1>4, <1>5

\* The binding with another configRef.
Edited(b, c) == [b EXCEPT !.config = c, !.gen = @ + 1]

\* Its generation is the next one and its report the same.
LEMMA EditedTyped ==
    ASSUME NEW b \in BindingType, NEW c \in ConfigMaps \cup {None}
    PROVE  /\ Edited(b, c) \in BindingType
           /\ Edited(b, c).uid = b.uid /\ Edited(b, c).gen = b.gen + 1
           /\ Edited(b, c).provider = b.provider
           /\ Edited(b, c).reason = b.reason /\ Edited(b, c).observed = b.observed
           /\ Edited(b, c).url = b.url
<1> DEFINE n == b.gen + 1
<1>1. n \in Nat
  BY SMTT(60) DEF BindingType
<1>2. Edited(b, c) = [b EXCEPT !.config = c, !.gen = n]
  BY DEF Edited, BindingType
<1> HIDE DEF n
<1>3. /\ Edited(b, c) \in BindingType
      /\ Edited(b, c).uid = b.uid /\ Edited(b, c).gen = n
      /\ Edited(b, c).provider = b.provider
      /\ Edited(b, c).reason = b.reason /\ Edited(b, c).observed = b.observed
      /\ Edited(b, c).url = b.url
  BY <1>1, <1>2, ZenonT(60) DEF BindingType
<1>4. QED
  BY <1>3 DEF n

\* A new binding has no report.
LEMMA CreatedTyped ==
    ASSUME NEW u \in Nat, NEW p \in Providers, NEW c \in ConfigMaps
    PROVE  /\ NewBinding(u, p, c) \in BindingType
           /\ NewBinding(u, p, c).uid = u /\ NewBinding(u, p, c).gen = 1
           /\ NewBinding(u, p, c).reason = "none" /\ NewBinding(u, p, c).url = None
<1>1. 0 \in Nat /\ 1 \in Nat
  OBVIOUS
<1>2. QED
  BY <1>1 DEF NewBinding, NoBinding, BindingType, Reasons

\* The binding with the report that UpdateBindingStatus makes.
Reported(b, r, u) == [b EXCEPT !.reason = r, !.observed = b.gen, !.url = u]

\* A report is a binding whose condition and URL alone differ.
LEMMA ReportTyped ==
    ASSUME NEW b \in BindingType, NEW r \in Reasons, NEW u \in Url \cup {None}
    PROVE  /\ Reported(b, r, u) \in BindingType
           /\ Reported(b, r, u).uid = b.uid /\ Reported(b, r, u).gen = b.gen
           /\ Reported(b, r, u).provider = b.provider /\ Reported(b, r, u).config = b.config
           /\ Reported(b, r, u).extensionRef = b.extensionRef
           /\ Reported(b, r, u).gatewayRef = b.gatewayRef
           /\ Reported(b, r, u).serviceRef = b.serviceRef
           /\ Reported(b, r, u).reason = r /\ Reported(b, r, u).observed = b.gen
           /\ Reported(b, r, u).url = u
BY DEF BindingType, Reported

AnnotationKeys == {"extensionRef", "gatewayRef", "serviceRef"}

AnnotationValues(key) ==
    CASE key = "extensionRef" -> Exts
      [] key = "gatewayRef" -> Gateways
      [] key = "serviceRef" -> Services \cup {"managed"}

\* EnsureBindingAnnotations changes one annotation and nothing else.
LEMMA AnnotationTyped ==
    ASSUME NEW b \in BindingType, NEW key \in AnnotationKeys, NEW value \in AnnotationValues(key)
    PROVE  /\ [b EXCEPT ![key] = value] \in BindingType
           /\ [b EXCEPT ![key] = value].uid = b.uid /\ [b EXCEPT ![key] = value].gen = b.gen
           /\ [b EXCEPT ![key] = value].provider = b.provider
           /\ [b EXCEPT ![key] = value].config = b.config
           /\ [b EXCEPT ![key] = value].reason = b.reason
           /\ [b EXCEPT ![key] = value].observed = b.observed
           /\ [b EXCEPT ![key] = value].url = b.url
           /\ [b EXCEPT ![key] = value][key] = value
           /\ \A k \in AnnotationKeys \ {key} : [b EXCEPT ![key] = value][k] = b[k]
<1>1. CASE key = "extensionRef"
  <2>1. value \in Exts
    BY <1>1 DEF AnnotationValues
  <2>2. QED
    BY <1>1, <2>1 DEF BindingType, AnnotationKeys
<1>2. CASE key = "gatewayRef"
  <2>1. value \in Gateways
    BY <1>2 DEF AnnotationValues
  <2>2. QED
    BY <1>2, <2>1 DEF BindingType, AnnotationKeys
<1>3. CASE key = "serviceRef"
  <2>1. value \in Services \cup {"managed"}
    BY <1>3 DEF AnnotationValues
  <2>2. QED
    BY <1>3, <2>1 DEF BindingType, AnnotationKeys
<1>4. QED
  BY <1>1, <1>2, <1>3 DEF AnnotationKeys

-----------------------------------------------------------------------------
(* The contract: steps of the environment.                                 *)

\* What GatewayBinding allows to happen to the binding of n.
StepOf(n) == [Binding(n)!Step]_(Binding(n)!bindingVars)

\* Kept is what every step has to show.
Kept == Typed' /\ \A n \in Names : StepOf(n)

\* The binding is untouched, or only an annotation of it changes.
LEMMA SameReport ==
    ASSUME NEW n \in Names,
           UNCHANGED <<binding[n].uid, binding[n].gen, binding[n].reason,
                       binding[n].observed, binding[n].url>>
    PROVE  StepOf(n)
BY DEF StepOf, Binding!bindingVars, RegisteredGeneration

\* A step that writes one binding.
LEMMA OneBinding ==
    ASSUME NEW n \in Names, ObjectsOK, NEW b \in BindingType,
           binding' = [binding EXCEPT ![n] = b],
           UNCHANGED <<route, reg, cbinding, croute, creg>>,
           lastUid' \in [Names -> Nat]
    PROVE  /\ ObjectsOK' /\ binding'[n] = b
           /\ \A m \in Names \ {n} : binding'[m] = binding[m] /\ StepOf(m)
<1>1. /\ binding' \in [Names -> BindingType] /\ binding'[n] = b
      /\ \A m \in Names \ {n} : binding'[m] = binding[m]
  BY DEF ObjectsOK
<1>2. ObjectsOK'
  BY <1>1 DEF ObjectsOK
<1>3. \A m \in Names \ {n} : StepOf(m)
  BY <1>1, SameReport
<1>4. QED
  BY <1>1, <1>2, <1>3

\* A verdict on a route leaves its owner and its spec alone.
LEMMA RouteJudgedEffect ==
    ASSUME ObjectsOK, NEW n \in Names, RouteJudged(n)
    PROVE  /\ route' \in [Names -> RouteType]
           /\ \A m \in Names : route'[m].owner = route[m].owner /\ route'[m].spec = route[m].spec
           /\ \A m \in Names \ {n} : route'[m] = route[m]
<1>1. /\ route \in [Names -> RouteType] /\ route[n] \in RouteType
      /\ route[n].owner \notin {0, -1} /\ route[n].spec \in RouteSpecs
  BY DEF ObjectsOK, RouteJudged, Foreign
<1>2. PICK a : /\ route' = [route EXCEPT ![n].accepted = a]
               /\ a \in {NotAccepted, [by |-> route[n].spec.gateway, gen |-> route[n].gen]}
  BY DEF RouteJudged
<1>3. a \in [by : Gateways \cup {None}, gen : Nat]
  BY <1>1, <1>2, SMTT(60) DEF NotAccepted, RouteSpecs, RouteType
<1>4. /\ [route[n] EXCEPT !.accepted = a] \in RouteType
      /\ [route[n] EXCEPT !.accepted = a].owner = route[n].owner
      /\ [route[n] EXCEPT !.accepted = a].spec = route[n].spec
  BY <1>1, <1>3 DEF RouteType
<1>5. route' = [route EXCEPT ![n] = [route[n] EXCEPT !.accepted = a]]
  BY <1>1, <1>2
<1>6. QED
  BY <1>1, <1>4, <1>5

\* So does a report on a registration.
LEMMA RegistrationJudgedEffect ==
    ASSUME ObjectsOK, NEW n \in Names, RegistrationJudged(n)
    PROVE  /\ reg' \in [Names -> RegType]
           /\ \A m \in Names : reg'[m].owner = reg[m].owner /\ reg'[m].spec = reg[m].spec
           /\ \A m \in Names \ {n} : reg'[m] = reg[m]
<1>1. reg \in [Names -> RegType] /\ reg[n] \in RegType
  BY DEF ObjectsOK
<1>2. reg' = [reg EXCEPT ![n] = [reg[n] EXCEPT !.ready = ~reg[n].ready]]
  BY <1>1 DEF RegistrationJudged
<1> DEFINE x == ~reg[n].ready
<1>3. x \in BOOLEAN
  OBVIOUS
<1>4. reg' = [reg EXCEPT ![n] = [reg[n] EXCEPT !.ready = x]]
  BY <1>2
<1> HIDE DEF x
<1>5. /\ [reg[n] EXCEPT !.ready = x] \in RegType
      /\ [reg[n] EXCEPT !.ready = x].owner = reg[n].owner
      /\ [reg[n] EXCEPT !.ready = x].spec = reg[n].spec
  BY <1>1, <1>3 DEF RegType
<1>6. QED
  BY <1>1, <1>4, <1>5

\* Garbage collection takes one object that is not the binding's.
LEMMA GarbageEffect ==
    ASSUME ObjectsOK, NEW n \in Names, CollectGarbage(n)
    PROVE  /\ route' \in [Names -> RouteType] /\ reg' \in [Names -> RegType]
           /\ \A m \in Names \ {n} : route'[m] = route[m] /\ reg'[m] = reg[m]
           /\ route'[n] = route[n] \/ (route'[n] = NoRoute /\ route[n].owner # binding[n].uid)
           /\ reg'[n] = reg[n] \/ (reg'[n] = NoReg /\ reg[n].owner # binding[n].uid)
<1>1. route \in [Names -> RouteType] /\ reg \in [Names -> RegType]
  BY DEF ObjectsOK
<1>2. \/ /\ route[n].owner # binding[n].uid
         /\ route' = [route EXCEPT ![n] = NoRoute] /\ reg' = reg
      \/ /\ reg[n].owner # binding[n].uid
         /\ reg' = [reg EXCEPT ![n] = NoReg] /\ route' = route
  BY DEF CollectGarbage
<1>3. QED
  BY <1>1, <1>2, NothingTyped

\* Of what changes elsewhere in the cluster only ConfigMaps and Services are
\* read without a cache, and they are announced.
LEMMA WorldEffect ==
    ASSUME Typed, WorldChanges
    PROVE  /\ WorldOK'
           /\ UNCHANGED <<objectVars, cacheVars, queueVars, workVars>>
           /\ changed \subseteq changed'
           /\ \A c \in ConfigMaps : config'[c] = config[c] \/ c \in changed'
           /\ \A s \in Services : services'[s] = services[s] \/ s \in changed'
<1>1. UNCHANGED <<objectVars, cacheVars, queueVars, workVars>>
  BY DEF WorldChanges
<1> DEFINE Types == /\ server' \in [Names -> ServerSpecs \cup {None}]
                    /\ config' \in [ConfigMaps -> Contents \cup {None}]
                    /\ services' \in [Services -> Ports \cup {None}]
                    /\ exts' \in [Exts -> ExtStates \cup {None}]
                    /\ gateways' \in [Gateways -> GatewayStates \cup {None}]
           Announced == /\ changed \subseteq changed'
                        /\ \A c \in ConfigMaps : config'[c] = config[c] \/ c \in changed'
                        /\ \A s \in Services : services'[s] = services[s] \/ s \in changed'
<1>2. /\ server \in [Names -> ServerSpecs \cup {None}]
      /\ config \in [ConfigMaps -> Contents \cup {None}]
      /\ services \in [Services -> Ports \cup {None}]
      /\ exts \in [Exts -> ExtStates \cup {None}]
      /\ gateways \in [Gateways -> GatewayStates \cup {None}]
      /\ binding \in [Names -> BindingType]
  BY DEF Typed, WorldOK, ObjectsOK
<1>3. ASSUME /\ \E n \in Concerned : \E s \in (ServerSpecs \cup {None}) \ {server[n]} :
                  server' = [server EXCEPT ![n] = s]
             /\ UNCHANGED <<rivals, config, services, exts, gateways, changed>>
      PROVE  Types /\ Announced
  BY <1>2, <1>3 DEF Concerned
<1>4. ASSUME /\ \E c \in {binding[n].config : n \in Concerned} \ {None} :
                  \E v \in (Contents \cup {None}) \ {config[c]} :
                     config' = [config EXCEPT ![c] = v] /\ changed' = changed \cup {c}
             /\ UNCHANGED <<server, rivals, services, exts, gateways>>
      PROVE  Types /\ Announced
  <2>1. PICK c \in {binding[n].config : n \in Concerned} \ {None}, v \in Contents \cup {None} :
               config' = [config EXCEPT ![c] = v] /\ changed' = changed \cup {c}
    BY <1>4
  <2>2. Types
    BY <1>2, <1>4, <2>1
  <2>3. Announced
    BY <1>2, <1>4, <2>1
  <2>4. QED
    BY <2>2, <2>3
<1>5. ASSUME /\ \E s \in Services : \E p \in (Ports \cup {None}) \ {services[s]} :
                  services' = [services EXCEPT ![s] = p] /\ changed' = changed \cup {s}
             /\ UNCHANGED <<server, rivals, config, exts, gateways>>
      PROVE  Types /\ Announced
  BY <1>2, <1>5
<1>6. ASSUME /\ \E e \in Exts : \E v \in (ExtStates \cup {None}) \ {exts[e]} :
                  exts' = [exts EXCEPT ![e] = v]
             /\ UNCHANGED <<server, rivals, config, services, gateways, changed>>
      PROVE  Types /\ Announced
  BY <1>2, <1>6
<1>7. ASSUME /\ \E g \in Gateways : \E v \in (GatewayStates \cup {None}) \ {gateways[g]} :
                  gateways' = [gateways EXCEPT ![g] = v]
             /\ UNCHANGED <<server, rivals, config, services, exts, changed>>
      PROVE  Types /\ Announced
  BY <1>2, <1>7
<1>8. ASSUME UNCHANGED <<server, config, services, exts, gateways, changed>>
      PROVE  Types /\ Announced
  BY <1>2, <1>8
<1>9. Types /\ Announced
  <2> HIDE DEF Types, Announced
  <2>1. QED
    BY <1>3, <1>4, <1>5, <1>6, <1>7, <1>8 DEF WorldChanges
<1>10. WorldOK'
  BY <1>1, <1>9 DEF Typed, WorldOK, cacheVars
<1>11. QED
  BY <1>1, <1>9, <1>10

-----------------------------------------------------------------------------
(* The contract: caches and timers.                                        *)

-----------------------------------------------------------------------------
(* The contract: the worker.                                               *)

\* What a reconcile in progress has.
LEMMA WorkTyped ==
    ASSUME Typed, pc # "idle"
    PROVE  /\ work \in WorkType /\ work.name \in Names /\ work.binding \in BindingType
           /\ work.binding.uid # 0 /\ work.spec \in ServerSpecs
           /\ work.spec.service \in Services \cup {"managed"} /\ work.spec.path \in Paths
           /\ work.content \in Contents \cup {None}
           /\ work.ext \in ExtStates \cup {None}
           /\ binding[work.name] \in BindingType /\ cbinding[work.name] \in BindingType
           /\ croute[work.name] \in RouteType /\ creg[work.name] \in RegType
<1>1. /\ work \in WorkType /\ work.name \in Names /\ work.binding \in BindingType
      /\ work.binding.uid # 0 /\ work.spec \in ServerSpecs
      /\ work.content \in Contents \cup {None} /\ work.ext \in ExtStates \cup {None}
  BY DEF Typed, Known, WorkType
<1>2. work.spec.service \in Services \cup {"managed"} /\ work.spec.path \in Paths
  BY <1>1, KuadrantAssumption DEF Paths
<1>3. /\ binding[work.name] \in BindingType /\ cbinding[work.name] \in BindingType
      /\ croute[work.name] \in RouteType /\ creg[work.name] \in RegType
  BY <1>1 DEF Typed, ObjectsOK
<1>4. QED
  BY <1>1, <1>2, <1>3

\* A ConfigMap that can be used names an extension.
LEMMA ContentTyped ==
    ASSUME NEW content \in Contents \cup {None}, ~ConfigInvalid(content)
    PROVE  /\ content \in Contents /\ content.ext \in Exts
           /\ content.section \in Sections \cup {None}
           /\ content.host \in Hosts \cup {None, Malformed}
           /\ content.prefix \in Prefixes \cup {None}
BY KuadrantAssumption DEF ConfigInvalid

\* An extension names a Gateway.
LEMMA ExtTyped ==
    ASSUME NEW ext \in ExtStates
    PROVE  /\ ext.gateway \in Gateways /\ ext.section \in Sections \cup {None}
           /\ ext.publicHost \in Hosts \cup {None} /\ ext.ready \in BOOLEAN
BY KuadrantAssumption

\* EnsureBindingAnnotations writes an annotation of the binding.
Annotated(held, key, value) ==
    /\ binding[held.name].uid # 0
    /\ binding' = [binding EXCEPT ![held.name] = [binding[held.name] EXCEPT ![key] = value]]
    /\ work' = [held EXCEPT !.binding = binding'[held.name]]

\* EnsureBindingAnnotations finds the annotation, or no binding, or writes it.
LEMMA AnnotateCases ==
    ASSUME NEW held, NEW key, NEW value, NEW next,
           held.name \in Names, binding \in [Names -> BindingType],
           EnsureAnnotation(held, key, value, next)
    PROVE  \/ /\ held.binding[key] = value /\ pc' = next /\ work' = held
              /\ UNCHANGED <<binding, queued, timer>>
           \/ pc' = "idle" /\ work' = NoWork /\ work.name \in queued' /\ UNCHANGED binding
              /\ queued \subseteq queued' /\ queued' \subseteq queued \cup {work.name}
           \/ /\ held.binding[key] # value /\ pc' = next /\ Annotated(held, key, value)
              /\ UNCHANGED <<queued, timer>>
<1>1. CASE held.binding[key] = value
  BY <1>1 DEF EnsureAnnotation, Goto, queueVars
<1>2. CASE held.binding[key] # value /\ binding[held.name].uid = 0
  BY <1>2 DEF EnsureAnnotation, Finish, Enqueue
<1>3. CASE held.binding[key] # value /\ binding[held.name].uid # 0
  BY <1>3 DEF EnsureAnnotation, Goto, queueVars, Annotated
<1>4. QED
  BY <1>1, <1>2, <1>3

\* The patched binding is read back; its report stays as it was.
LEMMA AnnotatedEffect ==
    ASSUME NEW held \in WorkType, NEW key \in AnnotationKeys,
           NEW value \in AnnotationValues(key), ObjectsOK, held.name \in Names,
           Annotated(held, key, value),
           UNCHANGED <<route, reg, cbinding, croute, creg, lastUid>>
    PROVE  /\ ObjectsOK'
           /\ \A n \in Names : StepOf(n)
           /\ \A n \in Names \ {held.name} : binding'[n] = binding[n]
           /\ work' \in WorkType /\ work'.binding = binding'[held.name]
           /\ work'.name = held.name /\ work'.spec = held.spec /\ work'.content = held.content
           /\ work'.ext = held.ext /\ work'.section = held.section /\ work'.host = held.host
           /\ work'.port = held.port /\ work'.why = held.why
           /\ binding'[held.name].uid = binding[held.name].uid
           /\ binding'[held.name].gen = binding[held.name].gen
           /\ binding'[held.name].provider = binding[held.name].provider
           /\ binding'[held.name].config = binding[held.name].config
           /\ binding'[held.name].reason = binding[held.name].reason
           /\ binding'[held.name][key] = value
           /\ \A k \in AnnotationKeys \ {key} : binding'[held.name][k] = binding[held.name][k]
           /\ binding[held.name].uid # 0
<1> DEFINE n == held.name
           b == [binding[n] EXCEPT ![key] = value]
<1>1. binding \in [Names -> BindingType] /\ binding[n] \in BindingType /\ lastUid \in [Names -> Nat]
  BY DEF ObjectsOK
<1>2. /\ b \in BindingType /\ b.uid = binding[n].uid /\ b.gen = binding[n].gen
      /\ b.provider = binding[n].provider /\ b.config = binding[n].config
      /\ b.reason = binding[n].reason /\ b.observed = binding[n].observed
      /\ b.url = binding[n].url /\ b[key] = value
      /\ \A k \in AnnotationKeys \ {key} : b[k] = binding[n][k]
  BY <1>1, AnnotationTyped, SMTT(60)
<1>3. binding' = [binding EXCEPT ![n] = b] /\ work' = [held EXCEPT !.binding = binding'[n]]
  BY DEF Annotated
<1> HIDE DEF n, b
<1>4. /\ ObjectsOK' /\ binding'[n] = b
      /\ \A m \in Names \ {n} : binding'[m] = binding[m] /\ StepOf(m)
  BY <1>1, <1>2, <1>3, OneBinding DEF n
<1>5. StepOf(n)
  BY <1>2, <1>4, SameReport DEF n
<1>6. /\ work' \in WorkType /\ work'.binding = b
      /\ work'.name = held.name /\ work'.spec = held.spec /\ work'.content = held.content
      /\ work'.ext = held.ext /\ work'.section = held.section /\ work'.host = held.host
      /\ work'.port = held.port /\ work'.why = held.why
  BY <1>2, <1>3, <1>4 DEF WorkType
<1>7. QED
  BY <1>2, <1>4, <1>5, <1>6 DEF Annotated, n

\* The ConfigMap that the cached binding refers to.
FetchedContent(n) == IF cbinding[n].config = None THEN None ELSE config[cbinding[n].config]

\* Reconcile starts from cached copies and the ConfigMap.
Fetched(n) ==
    /\ Ours(cbinding[n]) /\ cserver[n] # None
    /\ work' \in WorkType
    /\ work'.name = n /\ work'.binding = cbinding[n] /\ work'.spec = cserver[n]
    /\ work'.content = FetchedContent(n)
    /\ work'.why = IF ConfigInvalid(FetchedContent(n)) THEN "InvalidConfig" ELSE "none"
    /\ pc' = IF ConfigInvalid(FetchedContent(n)) THEN "deleteRoute"
             ELSE IF cbinding[n].extensionRef = FetchedContent(n).ext THEN "gatewayRef"
             ELSE "extensionRef"

\* A binding of another class, or a server that the cache does not have, ends
\* Reconcile at once.
LEMMA FetchCases ==
    ASSUME Typed, NEW n \in Names, Fetch(n)
    PROVE  /\ pc = "idle" /\ n \in queued /\ queued' = queued \ {n}
           /\ UNCHANGED <<objectVars, worldVars, cacheVars, changed>>
           /\ \/ (~Ours(cbinding[n]) \/ cserver[n] = None) /\ UNCHANGED <<pc, work>>
              \/ Fetched(n)
<1> DEFINE content == FetchedContent(n)
           why == IF ConfigInvalid(content) THEN "InvalidConfig" ELSE "none"
           fetched == [NoWork EXCEPT !.name = n, !.binding = cbinding[n], !.spec = cserver[n],
                                     !.content = content, !.why = why]
<1>1. /\ pc = "idle" /\ n \in queued /\ queued' = queued \ {n}
      /\ UNCHANGED <<objectVars, worldVars, cacheVars, changed>>
  BY DEF Fetch
<1>2. CASE ~Ours(cbinding[n]) \/ cserver[n] = None
  BY <1>1, <1>2 DEF Fetch, workVars
<1>3. CASE ~(~Ours(cbinding[n]) \/ cserver[n] = None)
  <2>1. /\ work' = fetched
        /\ pc' = IF ConfigInvalid(content) THEN "deleteRoute"
                 ELSE IF cbinding[n].extensionRef = content.ext THEN "gatewayRef"
                 ELSE "extensionRef"
    BY <1>3 DEF Fetch, FetchedContent
  <2>2. /\ cbinding[n] \in BindingType /\ cserver[n] \in ServerSpecs \cup {None}
        /\ content \in Contents \cup {None}
    BY DEF Typed, ObjectsOK, WorldOK, BindingType, FetchedContent
  <2>3. why \in Unregistrable \cup {"none"}
    BY DEF Unregistrable
  <2> HIDE DEF content, why
  <2>4. /\ fetched \in WorkType
        /\ fetched.name = n /\ fetched.binding = cbinding[n] /\ fetched.spec = cserver[n]
        /\ fetched.content = content /\ fetched.why = why
    BY <2>2, <2>3, NothingTyped DEF NoWork, WorkType
  <2>5. QED
    BY <1>1, <1>3, <2>1, <2>4 DEF Fetched, content, why
<1>4. QED
  BY <1>2, <1>3

\* The values that are recorded.
LEMMA ValuesTyped ==
    /\ \A e \in Exts : e \in AnnotationValues("extensionRef")
    /\ \A g \in Gateways : g \in AnnotationValues("gatewayRef")
    /\ \A s \in Services \cup {"managed"} : s \in AnnotationValues("serviceRef")
    /\ AnnotationKeys = {"extensionRef", "gatewayRef", "serviceRef"}
BY DEF AnnotationValues, AnnotationKeys

\* The reconcile with the extension it looked up.
LEMMA WithExtTyped ==
    ASSUME NEW w \in WorkType, NEW ext \in ExtStates
    PROVE  /\ [w EXCEPT !.ext = ext] \in WorkType /\ [w EXCEPT !.ext = ext].ext = ext
           /\ [w EXCEPT !.ext = ext].name = w.name /\ [w EXCEPT !.ext = ext].binding = w.binding
           /\ [w EXCEPT !.ext = ext].spec = w.spec /\ [w EXCEPT !.ext = ext].content = w.content
           /\ [w EXCEPT !.ext = ext].why = w.why
BY DEF WorkType

\* The reconcile that gives up.
LEMMA GivenUpTyped ==
    ASSUME NEW w \in WorkType, NEW why \in Unregistrable
    PROVE  /\ [w EXCEPT !.why = why] \in WorkType /\ [w EXCEPT !.why = why].why = why
           /\ [w EXCEPT !.why = why].name = w.name /\ [w EXCEPT !.why = why].binding = w.binding
           /\ [w EXCEPT !.why = why].spec = w.spec /\ [w EXCEPT !.why = why].content = w.content
           /\ [w EXCEPT !.why = why].ext = w.ext /\ [w EXCEPT !.why = why].section = w.section
           /\ [w EXCEPT !.why = why].host = w.host /\ [w EXCEPT !.why = why].port = w.port
BY DEF WorkType

\* A listener that a Gateway has.
LEMMA ListenerTyped ==
    ASSUME NEW gws \in [Gateways -> GatewayStates \cup {None}], NEW g \in Gateways,
           NEW s \in Sections \cup {None}, HasListener(gws, g, s)
    PROVE  gws[g][s].host \in Hosts \cup {None, Wildcard} /\ gws[g][s].tls \in BOOLEAN
<1>1. /\ s \in Sections /\ gws[g] \in GatewayStates /\ gws[g][s] # None
  BY DEF HasListener
<1>2. gws[g] \in [Sections -> Listeners \cup {None}]
  BY <1>1, KuadrantAssumption
<1>3. gws[g][s] \in Listeners
  BY <1>1, <1>2
<1>4. QED
  BY <1>3 DEF Listeners

\* A binding is registered with a URL.
LEMMA UrlTyped ==
    ASSUME NEW ext \in ExtStates, NEW spec \in ServerSpecs,
           NEW gws \in [Gateways -> GatewayStates \cup {None}], PublicHost(ext, gws) # None
    PROVE  PublicUrl(ext, spec, gws) \in Url
<1>1. /\ ext.gateway \in Gateways /\ ext.section \in Sections \cup {None}
      /\ ext.publicHost \in Hosts \cup {None}
  BY ExtTyped
<1>2. HasListener(gws, ext.gateway, ext.section) =>
         gws[ext.gateway][ext.section].host \in Hosts \cup {None, Wildcard}
  BY <1>1, ListenerTyped
<1>3. PublicHost(ext, gws) \in Hosts
  BY <1>1, <1>2 DEF PublicHost
<1>4. spec.path \in {s.path : s \in ServerSpecs}
  OBVIOUS
<1>5. QED
  BY <1>3, <1>4 DEF PublicUrl, Url

\* The reconcile with all that it resolved.
WithTarget(w, s, h, p) == [w EXCEPT !.section = s, !.host = h, !.port = p]

\* What Resolve computes.
ResolvedSection == SectionFor(work.content, cgateways, work.ext.gateway)
ResolvedHost == RouteHostname(work.content, cgateways, work.ext.gateway, ResolvedSection)

Resolved ==
    /\ ResolvedSection # None /\ ResolvedHost # None
    /\ work' \in WorkType /\ work'.section = ResolvedSection /\ work'.host = ResolvedHost
    /\ work'.port = BackendPort(work.spec)
    /\ work'.name = work.name /\ work'.binding = work.binding /\ work'.spec = work.spec
    /\ work'.content = work.content /\ work'.ext = work.ext /\ work'.why = work.why
    /\ pc' = IF work.binding.serviceRef = work.spec.service THEN "route" ELSE "record"
    /\ UNCHANGED <<queued, timer>>

\* Resolve reports that the extension is not ready, gives up or goes on with
\* what it computed.
LEMMA ResolveCases ==
    ASSUME Typed, Resolve
    PROVE  /\ pc = "resolve" /\ work.ext \in ExtStates /\ ~Giving
           /\ work.content \in Contents /\ ~ConfigInvalid(work.content) /\ work.why = "none"
           /\ \/ ~work.ext.ready /\ UpdateBindingStatus("ExtensionNotReady", None, "later")
              \/ /\ work.ext.ready /\ UNCHANGED <<objectVars, worldVars, cacheVars, changed>>
                 /\ \/ (ResolvedSection = None \/ ResolvedHost = None) /\ GiveUp("NoListener")
                    \/ Resolved
\* discoverWildcardListener finds a listener of the Gateway.
<1>SectionTyped.
    ASSUME NEW content \in Contents, NEW gws, NEW g
    PROVE  SectionFor(content, gws, g) \in Sections \cup {None}
  <2> USE <1>SectionTyped
  <2>1. content.section \in Sections \cup {None}
    BY KuadrantAssumption
  <2>2. QED
    BY <2>1 DEF SectionFor
\* resolveRouteHostname gives a host name.
<1>HostTyped.
    ASSUME NEW content \in Contents, NEW gws \in [Gateways -> GatewayStates \cup {None}],
           NEW g \in Gateways, NEW s \in Sections \cup {None}
    PROVE  RouteHostname(content, gws, g, s) \in Hosts \cup {"perServer", None}
  <2> USE <1>HostTyped
  <2>1. content.host \in Hosts \cup {None, Malformed}
    BY KuadrantAssumption
  <2>2. HasListener(gws, g, s) => gws[g][s].host \in Hosts \cup {None, Wildcard}
    BY ListenerTyped
  <2>3. QED
    BY <2>1, <2>2 DEF RouteHostname
\* The reconcile with one thing it resolved.
<1>WithFieldTyped.
    ASSUME NEW w \in WorkType
    PROVE  /\ \A s \in Sections \cup {None} : [w EXCEPT !.section = s] \in WorkType
           /\ \A h \in Hosts \cup {"perServer", None} : [w EXCEPT !.host = h] \in WorkType
           /\ \A p \in Ports \cup {"managed", None} : [w EXCEPT !.port = p] \in WorkType
  <2> USE <1>WithFieldTyped
  <2>1. \A s \in Sections \cup {None} : [w EXCEPT !.section = s] \in WorkType
    BY DEF WorkType
  <2>2. \A h \in Hosts \cup {"perServer", None} : [w EXCEPT !.host = h] \in WorkType
    BY DEF WorkType
  <2>3. \A p \in Ports \cup {"managed", None} : [w EXCEPT !.port = p] \in WorkType
    BY DEF WorkType
  <2>4. QED
    BY <2>1, <2>2, <2>3
\* Resolving changes the section, the hostname and the port only.
<1>WithTargetTyped.
    ASSUME NEW w \in WorkType, NEW s \in Sections \cup {None},
           NEW h \in Hosts \cup {"perServer", None}, NEW p \in Ports \cup {"managed", None}
    PROVE  /\ WithTarget(w, s, h, p) \in WorkType
           /\ WithTarget(w, s, h, p).section = s /\ WithTarget(w, s, h, p).host = h
           /\ WithTarget(w, s, h, p).port = p
           /\ WithTarget(w, s, h, p).name = w.name /\ WithTarget(w, s, h, p).binding = w.binding
           /\ WithTarget(w, s, h, p).spec = w.spec /\ WithTarget(w, s, h, p).content = w.content
           /\ WithTarget(w, s, h, p).ext = w.ext /\ WithTarget(w, s, h, p).why = w.why
  <2> USE <1>WithTargetTyped
  <2>1. WithTarget(w, s, h, p) \in WorkType
    <3>1. [w EXCEPT !.section = s] \in WorkType
      BY <1>WithFieldTyped
    <3>2. [[w EXCEPT !.section = s] EXCEPT !.host = h] \in WorkType
      BY <3>1, <1>WithFieldTyped
    <3>3. [[[w EXCEPT !.section = s] EXCEPT !.host = h] EXCEPT !.port = p] \in WorkType
      BY <3>2, <1>WithFieldTyped
    <3>4. QED
      BY <3>3 DEF WithTarget
  <2>2. /\ WithTarget(w, s, h, p).section = s /\ WithTarget(w, s, h, p).host = h
        /\ WithTarget(w, s, h, p).port = p
    BY DEF WorkType, WithTarget
  <2>3. /\ WithTarget(w, s, h, p).name = w.name /\ WithTarget(w, s, h, p).binding = w.binding
        /\ WithTarget(w, s, h, p).spec = w.spec /\ WithTarget(w, s, h, p).content = w.content
        /\ WithTarget(w, s, h, p).ext = w.ext /\ WithTarget(w, s, h, p).why = w.why
    BY DEF WorkType, WithTarget
  <2>4. QED
    BY <2>1, <2>2, <2>3
<1>1. pc = "resolve" /\ work.ext # None /\ work.why = "none" /\ ~ConfigInvalid(work.content) /\ ~Giving
  BY DEF Resolve, Typed, Known, Giving, PastGateway
<1>2. /\ work \in WorkType /\ work.ext \in ExtStates /\ work.content \in Contents
      /\ work.spec \in ServerSpecs /\ work.spec.service \in Services \cup {"managed"}
  BY <1>1, WorkTyped, ContentTyped
<1>3. work.ext.gateway \in Gateways /\ cgateways \in [Gateways -> GatewayStates \cup {None}]
  BY <1>2, ExtTyped DEF Typed, WorldOK
<1>4. ResolvedSection \in Sections \cup {None}
  BY <1>2, <1>SectionTyped DEF ResolvedSection
<1>5. ResolvedHost \in Hosts \cup {"perServer", None}
  BY <1>2, <1>3, <1>4, <1>HostTyped DEF ResolvedHost
<1>6. BackendPort(work.spec) \in Ports \cup {"managed", None}
  BY <1>2 DEF BackendPort, Typed, WorldOK
<1>7. CASE ~work.ext.ready
  BY <1>1, <1>2, <1>7 DEF Resolve
<1>8. CASE work.ext.ready /\ (ResolvedSection = None \/ ResolvedHost = None)
  BY <1>1, <1>2, <1>8 DEF Resolve, ResolvedSection, ResolvedHost
<1>9. CASE work.ext.ready /\ ~(ResolvedSection = None \/ ResolvedHost = None)
  <2>1. /\ work' = WithTarget(work, ResolvedSection, ResolvedHost, BackendPort(work.spec))
        /\ Goto(IF work.binding.serviceRef = work.spec.service THEN "route" ELSE "record")
        /\ UNCHANGED <<objectVars, worldVars, cacheVars, changed>>
    BY <1>9 DEF Resolve, ResolvedSection, ResolvedHost, BackendPort, WithTarget
  <2>2. /\ work' \in WorkType /\ work'.section = ResolvedSection /\ work'.host = ResolvedHost
        /\ work'.port = BackendPort(work.spec)
        /\ work'.name = work.name /\ work'.binding = work.binding /\ work'.spec = work.spec
        /\ work'.content = work.content /\ work'.ext = work.ext /\ work'.why = work.why
    BY <1>2, <1>4, <1>5, <1>6, <2>1, <1>WithTargetTyped, SMTT(60)
  <2>3. QED
    BY <1>1, <1>2, <1>9, <2>1, <2>2 DEF Resolved, Goto, queueVars
<1>10. QED
  BY <1>7, <1>8, <1>9

\* A route with another owner, spec and generation.
RouteWith(r, u, spec, k) == [r EXCEPT !.owner = u, !.spec = spec, !.gen = k]

\* The route is written, found as it should be, or the reconcile fails.
RouteDone(n) ==
    /\ pc' = "registration" /\ UNCHANGED <<work, queued, timer>>
    /\ \/ RouteFor(croute[n]) /\ route' = route
       \/ \E r \in RouteType :
             route' = [route EXCEPT ![n] = r] /\ RouteFor(r) /\ r.spec \in RouteSpecs

\* reconcileHTTPRoute has no other outcome.
LEMMA RouteCases ==
    ASSUME Typed, ReconcileHTTPRoute
    PROVE  /\ pc = "route" /\ UNCHANGED <<binding, lastUid, reg, worldVars, cacheVars, changed>>
           /\ \/ /\ pc' = "idle" /\ work' = NoWork /\ UNCHANGED route
                 /\ queued' = queued \cup {work.name}
              \/ RouteDone(work.name)
\* The route that a reconcile wants.
<1>DesiredTyped.
    ASSUME Typed, pc # "idle", work.ext # None
    PROVE  DesiredRoute(work) \in RouteSpecs
  <2> USE <1>DesiredTyped
  <2>1. /\ work \in WorkType /\ work.ext \in ExtStates
        /\ work.spec.service \in Services \cup {"managed"} /\ work.spec.path \in Paths
    BY WorkTyped
  <2>2. work.ext.gateway \in Gateways
    BY <2>1, ExtTyped
  <2>3. /\ work.section \in Sections \cup {None} /\ work.host \in Hosts \cup {"perServer", None}
        /\ work.port \in Ports \cup {"managed", None}
    BY <2>1 DEF WorkType
  <2>4. QED
    BY <2>1, <2>2, <2>3 DEF DesiredRoute, RouteSpecs
\* It is a route, whichever order its fields are written in.
<1>RouteWithTyped.
    ASSUME NEW r \in RouteType, NEW u \in Int, NEW spec \in RouteSpecs, NEW k \in Nat
    PROVE  /\ RouteWith(r, u, spec, k) \in RouteType
           /\ RouteWith(r, u, spec, k).owner = u /\ RouteWith(r, u, spec, k).spec = spec
  BY <1>RouteWithTyped DEF RouteType, RouteWith
<1> DEFINE n == work.name
           desired == DesiredRoute(work)
           cached == croute[n]
           k == IF cached.spec = desired THEN cached.gen ELSE cached.gen + 1
           updated == RouteWith(cached, work.binding.uid, desired, k)
           created == RouteWith(NoRoute, work.binding.uid, desired, 1)
<1>1. pc = "route" /\ UNCHANGED <<binding, lastUid, reg, worldVars, cacheVars, changed>>
  BY DEF ReconcileHTTPRoute
<1>2. work.ext # None
  BY <1>1 DEF Typed, Known, PastGateway
<1>3. /\ n \in Names /\ cached \in RouteType /\ work.binding \in BindingType
      /\ desired \in RouteSpecs
  BY <1>1, <1>2, WorkTyped, <1>DesiredTyped
<1>4. k \in Nat /\ work.binding.uid \in Int /\ 1 \in Nat
  BY <1>3, SMTT(60) DEF RouteType, BindingType
<1>5. \/ Finish("error") /\ UNCHANGED route
      \/ route' = [route EXCEPT ![n] = created] /\ Goto("registration") /\ UNCHANGED work
      \/ /\ route' = [route EXCEPT ![n] = IF updated = cached THEN @ ELSE updated]
         /\ Goto("registration") /\ UNCHANGED work
  <2>1. updated = [cached EXCEPT !.owner = work.binding.uid, !.spec = desired,
                                 !.gen = IF cached.spec = desired THEN @ ELSE @ + 1]
    BY <1>3 DEF RouteType, RouteWith
  <2>2. created = [NoRoute EXCEPT !.owner = work.binding.uid, !.gen = 1, !.spec = desired]
    BY DEF RouteWith, NoRoute
  <2> HIDE DEF updated, created
  <2>3. QED
    BY <2>1, <2>2 DEF ReconcileHTTPRoute
<1> HIDE DEF desired, k
<1>6. /\ updated \in RouteType /\ updated.owner = work.binding.uid /\ updated.spec = desired
      /\ created \in RouteType /\ created.owner = work.binding.uid /\ created.spec = desired
  <2>1. updated \in RouteType /\ updated.owner = work.binding.uid /\ updated.spec = desired
    BY <1>3, <1>4, <1>RouteWithTyped, SMTT(30)
  <2>2. NoRoute \in RouteType
    BY NothingTyped
  <2>3. created \in RouteType /\ created.owner = work.binding.uid /\ created.spec = desired
    BY <1>3, <1>4, <2>2, <1>RouteWithTyped, SMTT(30)
  <2>4. QED
    BY <2>1, <2>3
<1> HIDE DEF updated, created
<1>7. CASE Finish("error") /\ UNCHANGED route
  BY <1>1, <1>7 DEF Finish, Enqueue
<1>8. CASE route' = [route EXCEPT ![n] = created] /\ Goto("registration") /\ UNCHANGED work
  BY <1>1, <1>3, <1>6, <1>8 DEF RouteDone, RouteFor, Goto, queueVars, desired
<1>9. CASE /\ route' = [route EXCEPT ![n] = IF updated = cached THEN @ ELSE updated]
           /\ Goto("registration") /\ UNCHANGED work
  <2>1. CASE updated = cached
    <3>1. route' = route
      BY <1>3, <1>9, <2>1 DEF Typed, ObjectsOK
    <3>2. RouteFor(croute[n])
      BY <1>6, <2>1 DEF RouteFor, desired
    <3>3. QED
      BY <1>1, <1>9, <3>1, <3>2 DEF RouteDone, Goto, queueVars
  <2>2. CASE updated # cached
    <3>1. route' = [route EXCEPT ![n] = updated]
      BY <1>9, <2>2
    <3>2. QED
      BY <1>1, <1>3, <1>6, <1>9, <3>1 DEF RouteDone, RouteFor, Goto, queueVars, desired
  <2>3. QED
    BY <2>1, <2>2
<1>10. QED
  BY <1>5, <1>7, <1>8, <1>9

\* Only the route of the reconcile's own name is written.
LEMMA RouteDoneEffect ==
    ASSUME ObjectsOK, NEW n \in Names, RouteDone(n)
    PROVE  /\ route' \in [Names -> RouteType]
           /\ \A m \in Names : route'[m].owner \notin {0, -1} => route'[m].spec \in RouteSpecs
           /\ \A m \in Names \ {n} : route'[m] = route[m]
           /\ RouteFor(croute[n]) \/ RouteFor(route'[n])
<1>1. route \in [Names -> RouteType]
  BY DEF ObjectsOK
<1>2. CASE RouteFor(croute[n]) /\ route' = route
  BY <1>1, <1>2 DEF ObjectsOK
<1>3. CASE \E r \in RouteType :
             route' = [route EXCEPT ![n] = r] /\ RouteFor(r) /\ r.spec \in RouteSpecs
  BY <1>1, <1>3 DEF ObjectsOK
<1>4. QED
  BY <1>2, <1>3 DEF RouteDone

\* A registration with another owner and spec.
RegWith(g, u, spec) == [g EXCEPT !.owner = u, !.spec = spec]

\* The registration is written, found as it should be, refused, or the
\* reconcile fails.
RegistrationDone(n) ==
    /\ pc' = "judge" /\ UNCHANGED <<work, queued, timer>>
    /\ ~PrefixTaken(n, PrefixFor(n, work.content))
    /\ \/ RegFor(creg[n]) /\ reg' = reg
       \/ \E g \in RegType : reg' = [reg EXCEPT ![n] = g] /\ RegFor(g)

\* reconcileMCPServerRegistration has no other outcome.
LEMMA RegistrationCases ==
    ASSUME Typed, ReconcileRegistration
    PROVE  /\ pc = "registration" /\ UNCHANGED <<binding, lastUid, route, worldVars, cacheVars, changed>>
           /\ \/ /\ pc' = "idle" /\ work' = NoWork /\ UNCHANGED reg
                 /\ queued' = queued \cup {work.name}
              \/ GiveUp("PrefixConflict") /\ UNCHANGED reg
              \/ RegistrationDone(work.name)
\* It is a registration.
<1>RegWithTyped.
    ASSUME NEW g \in RegType, NEW u \in Int, NEW spec \in RegSpecs
    PROVE  /\ RegWith(g, u, spec) \in RegType
           /\ RegWith(g, u, spec).owner = u /\ RegWith(g, u, spec).spec = spec
  BY <1>RegWithTyped DEF RegType, RegWith
\* The registration that a reconcile wants.
<1>RegistrationTyped.
    ASSUME Typed, pc # "idle", ~ConfigInvalid(work.content)
    PROVE  RegistrationOf(work.name, work) \in RegSpecs
  <2> USE <1>RegistrationTyped
  <2>1. /\ work.name \in Names /\ work.spec.path \in Paths
        /\ work.content \in Contents \cup {None}
    BY WorkTyped
  <2>2. work.content.prefix \in Prefixes \cup {None}
    BY <2>1, ContentTyped
  <2>3. AutoPrefix[work.name] \in Prefixes
    BY <2>1, KuadrantAssumption
  <2>4. QED
    BY <2>1, <2>2, <2>3 DEF RegistrationOf, RegSpecs, PrefixFor
<1> DEFINE n == work.name
           desired == RegistrationOf(n, work)
           cached == creg[n]
           updated == RegWith(cached, work.binding.uid, desired)
           created == RegWith(NoReg, work.binding.uid, desired)
           prefix == PrefixFor(n, work.content)
<1>1. pc = "registration" /\ UNCHANGED <<binding, lastUid, route, worldVars, cacheVars, changed>>
  BY DEF ReconcileRegistration
<1>2. ~ConfigInvalid(work.content)
  BY <1>1 DEF Typed, Known, Giving
<1>3. /\ n \in Names /\ cached \in RegType /\ work.binding \in BindingType
      /\ desired \in RegSpecs
  BY <1>1, <1>2, WorkTyped, <1>RegistrationTyped
<1>4. work.binding.uid \in Int
  BY <1>3, SMTT(60) DEF BindingType
<1>5. \/ Finish("error") /\ UNCHANGED reg
      \/ GiveUp("PrefixConflict") /\ UNCHANGED reg
      \/ /\ ~PrefixTaken(n, prefix)
         /\ reg' = [reg EXCEPT ![n] = created] /\ Goto("judge") /\ UNCHANGED work
      \/ /\ ~PrefixTaken(n, prefix)
         /\ reg' = [reg EXCEPT ![n] = IF updated = cached THEN @ ELSE updated]
         /\ Goto("judge") /\ UNCHANGED work
  BY DEF ReconcileRegistration, RegistrationOf, RegWith
<1>6. updated \in RegType /\ updated.owner = work.binding.uid /\ updated.spec = desired
  BY <1>3, <1>4, <1>RegWithTyped, SMTT(30)
<1>7. created \in RegType /\ created.owner = work.binding.uid /\ created.spec = desired
  BY <1>3, <1>4, NothingTyped, <1>RegWithTyped, SMTT(30)
<1> HIDE DEF updated, created, desired, prefix
<1>8. CASE Finish("error") /\ UNCHANGED reg
  BY <1>1, <1>8 DEF Finish, Enqueue
<1>9. CASE GiveUp("PrefixConflict") /\ UNCHANGED reg
  BY <1>1, <1>9
<1>10. CASE /\ ~PrefixTaken(n, prefix)
            /\ reg' = [reg EXCEPT ![n] = created] /\ Goto("judge") /\ UNCHANGED work
  BY <1>1, <1>3, <1>7, <1>10 DEF RegistrationDone, RegFor, Goto, queueVars, desired, prefix
<1>11. CASE /\ ~PrefixTaken(n, prefix)
            /\ reg' = [reg EXCEPT ![n] = IF updated = cached THEN @ ELSE updated]
            /\ Goto("judge") /\ UNCHANGED work
  <2>1. CASE updated = cached
    <3>1. reg' = reg
      BY <1>3, <1>11, <2>1 DEF Typed, ObjectsOK
    <3>2. RegFor(creg[n])
      BY <1>6, <2>1 DEF RegFor, desired
    <3>3. QED
      BY <1>1, <1>11, <3>1, <3>2 DEF RegistrationDone, Goto, queueVars, prefix
  <2>2. CASE updated # cached
    <3>1. reg' = [reg EXCEPT ![n] = updated]
      BY <1>11, <2>2
    <3>2. QED
      BY <1>1, <1>3, <1>6, <1>11, <3>1
         DEF RegistrationDone, RegFor, Goto, queueVars, desired, prefix
  <2>3. QED
    BY <2>1, <2>2
<1>12. QED
  BY <1>5, <1>8, <1>9, <1>10, <1>11

\* Only the registration of the reconcile's own name is written.
LEMMA RegistrationDoneEffect ==
    ASSUME ObjectsOK, NEW n \in Names, RegistrationDone(n)
    PROVE  /\ reg' \in [Names -> RegType]
           /\ \A m \in Names \ {n} : reg'[m] = reg[m]
           /\ (RegFor(creg[n]) /\ reg'[n] = reg[n]) \/ RegFor(reg'[n])
<1>1. reg \in [Names -> RegType]
  BY DEF ObjectsOK
<1>2. QED
  BY <1>1 DEF RegistrationDone

\* What deleteStaleResources takes is gone.
LEMMA DeletedEffect ==
    ASSUME Typed, DeleteStaleRoute \/ DeleteStaleRegistration
    PROVE  /\ \/ /\ pc = "deleteRoute" /\ pc' = "deleteRegistration" /\ UNCHANGED reg
                 /\ route' = [route EXCEPT ![work.name] =
                                 IF croute[work.name].owner = work.binding.uid THEN NoRoute ELSE @]
              \/ /\ pc = "deleteRegistration" /\ pc' = "unregister" /\ UNCHANGED route
                 /\ reg' = [reg EXCEPT ![work.name] =
                               IF creg[work.name].owner = work.binding.uid THEN NoReg ELSE @]
           /\ UNCHANGED <<binding, lastUid, worldVars, cacheVars, changed, work, queued, timer>>
           /\ route' \in [Names -> RouteType] /\ reg' \in [Names -> RegType]
           /\ \A m \in Names : route'[m] = route[m] \/ route'[m] = NoRoute
           /\ \A m \in Names : reg'[m] = reg[m] \/ reg'[m] = NoReg
           /\ \A m \in Names \ {work.name} : route'[m] = route[m] /\ reg'[m] = reg[m]
<1>1. route \in [Names -> RouteType] /\ reg \in [Names -> RegType]
  BY DEF Typed, ObjectsOK
<1>2. CASE DeleteStaleRoute
  <2>1. /\ pc = "deleteRoute" /\ pc' = "deleteRegistration" /\ UNCHANGED reg
        /\ route' = [route EXCEPT ![work.name] =
                        IF croute[work.name].owner = work.binding.uid THEN NoRoute ELSE @]
        /\ UNCHANGED <<binding, lastUid, worldVars, cacheVars, changed, work, queued, timer>>
    BY <1>2 DEF DeleteStaleRoute, Goto, queueVars
  <2>2. QED
    BY <1>1, <2>1, NothingTyped
<1>3. CASE DeleteStaleRegistration
  <2>1. /\ pc = "deleteRegistration" /\ pc' = "unregister" /\ UNCHANGED route
        /\ reg' = [reg EXCEPT ![work.name] =
                      IF creg[work.name].owner = work.binding.uid THEN NoReg ELSE @]
        /\ UNCHANGED <<binding, lastUid, worldVars, cacheVars, changed, work, queued, timer>>
    BY <1>3 DEF DeleteStaleRegistration, Goto, queueVars
  <2>2. QED
    BY <1>1, <2>1, NothingTyped
<1>4. QED
  BY <1>2, <1>3

\* What Judge does: it fails, or reports the verdict on what the caches hold.
LEMMA JudgeCases ==
    ASSUME Typed, Judge
    PROVE  /\ pc = "judge" /\ work.ext \in ExtStates
           /\ \/ /\ pc' = "idle" /\ work' = NoWork /\ queued' = queued \cup {work.name}
                 /\ UNCHANGED <<objectVars, worldVars, cacheVars, changed>>
              \/ \E outcome : UpdateBindingStatus(
                    Verdict(work.ext, croute[work.name], creg[work.name], cgateways),
                    IF Verdict(work.ext, croute[work.name], creg[work.name], cgateways)
                          = "Registered"
                    THEN PublicUrl(work.ext, work.spec, cgateways) ELSE None, outcome)
<1> DEFINE r == croute[work.name]
           g == creg[work.name]
           verdict == Verdict(work.ext, r, g, cgateways)
<1>1. pc = "judge" /\ work.ext # None
  BY DEF Judge, Typed, Known, PastGateway
<1>2. work.ext \in ExtStates
  BY <1>1, WorkTyped
<1> HIDE DEF verdict
<1>3. CASE r.owner = 0 \/ (IsHTTPRouteAccepted(r, work.ext.gateway) /\ g.owner = 0)
  <2>1. Finish("error") /\ UNCHANGED <<objectVars, worldVars, cacheVars, changed>>
    BY <1>3 DEF Judge
  <2>2. QED
    BY <1>1, <1>2, <2>1 DEF Finish, Enqueue
<1>4. CASE ~(r.owner = 0 \/ (IsHTTPRouteAccepted(r, work.ext.gateway) /\ g.owner = 0))
  <2>1. IF verdict = "Registered"
        THEN UpdateBindingStatus(verdict, PublicUrl(work.ext, work.spec, cgateways), "done")
        ELSE UpdateBindingStatus(verdict, None, "later")
    BY <1>4 DEF Judge, verdict
  <2>2. \E outcome : UpdateBindingStatus(verdict,
           IF verdict = "Registered" THEN PublicUrl(work.ext, work.spec, cgateways) ELSE None,
           outcome)
    <3>1. CASE verdict = "Registered"
      <4>1. UpdateBindingStatus(verdict, IF verdict = "Registered"
               THEN PublicUrl(work.ext, work.spec, cgateways) ELSE None, "done")
        BY <2>1, <3>1
      <4>2. QED
        BY <4>1
    <3>2. CASE verdict # "Registered"
      <4>1. UpdateBindingStatus(verdict, IF verdict = "Registered"
               THEN PublicUrl(work.ext, work.spec, cgateways) ELSE None, "later")
        BY <2>1, <3>2
      <4>2. QED
        BY <4>1
    <3>3. QED
      BY <3>1, <3>2
  <2>3. QED
    BY <1>1, <1>2, <2>2 DEF verdict
<1>5. QED
  BY <1>3, <1>4

\* A verdict is a reason of the condition; Registered needs a host name.
LEMMA VerdictTyped ==
    ASSUME NEW ext, NEW r, NEW g, NEW gws
    PROVE  /\ Verdict(ext, r, g, gws) \in Reasons
           /\ Verdict(ext, r, g, gws) \in {"RouteNotAccepted", "RegistrationNotReady",
                                           "PublicAddressPending", "Registered"}
           /\ Verdict(ext, r, g, gws) = "Registered" => PublicHost(ext, gws) # None
BY DEF Verdict, Reasons

-----------------------------------------------------------------------------
(* The contract holds.                                                     *)

\* Every world the provider may start in has its types.
LEMMA InitTyped ==
    ASSUME Init
    PROVE  Typed /\ \A n \in Names : Binding(n)!Start
\* A binding that the provider finds when it starts.
<1>FoundTyped.
    ASSUME NEW b \in FoundBindings \cup {NoBinding}
    PROVE  /\ b \in BindingType
           /\ b.reason = "none" /\ b.url = None
           /\ \/ b.uid = 0 /\ b.gen = 0
              \/ b.uid = 1 /\ b.gen = 1
  <2> USE <1>FoundTyped
  <2>1. CASE b \in FoundBindings
    BY <2>1, SMTT(60) DEF FoundBindings, BindingType, Reasons
  <2>2. CASE b = NoBinding
    BY <2>2, NothingTyped DEF NoBinding
  <2>3. QED
    BY <2>1, <2>2
<1>1. PICK w \in Worlds :
       /\ server = w.servers
       /\ binding = w.bindings
       /\ lastUid = [n \in Names |-> binding[n].uid]
       /\ route = [n \in Names |-> IF "route" \notin w.foreign THEN NoRoute
                                   ELSE [NoRoute EXCEPT !.owner = Foreign, !.gen = 1]]
       /\ reg = [n \in Names |-> IF "registration" \notin w.foreign THEN NoReg
                                 ELSE [NoReg EXCEPT !.owner = Foreign]]
       /\ config = w.config
       /\ services = [s \in Services |-> CHOOSE p \in Ports : TRUE]
       /\ exts = w.exts /\ gateways = w.gateways
       /\ cserver = server /\ cbinding = [n \in Names |-> NoBinding]
       /\ croute = route /\ creg = reg
       /\ cexts = exts /\ cgateways = gateways
       /\ pc = "idle" /\ work = NoWork
  BY DEF Init
<1>2. /\ w.servers \in [Names -> ServerSpecs \cup {None}]
      /\ w.config \in [ConfigMaps -> Contents \cup {None}]
      /\ w.exts \in [Exts -> ExtStates \cup {None}]
      /\ w.gateways \in [Gateways -> GatewayStates \cup {None}]
      /\ Ports # {}
      /\ w.bindings \in [Names -> FoundBindings \cup {NoBinding}]
  BY KuadrantAssumption, BindingsAssumption
<1>3. (CHOOSE p \in Ports : TRUE) \in Ports
  BY <1>2
<1>4. WorldOK
  BY <1>1, <1>2, <1>3 DEF WorldOK
<1>5. \A n \in Names : /\ binding[n] \in BindingType
                       /\ binding[n].reason = "none" /\ binding[n].url = None
                       /\ \/ binding[n].uid = 0 /\ binding[n].gen = 0
                          \/ binding[n].uid = 1 /\ binding[n].gen = 1
  BY <1>1, <1>2, <1>FoundTyped
<1>6. \A n \in Names : binding[n].uid \in Nat
  BY <1>5, SMTT(60)
<1>7. /\ binding \in [Names -> BindingType] /\ cbinding \in [Names -> BindingType]
      /\ lastUid \in [Names -> Nat]
  BY <1>1, <1>2, <1>5, <1>6, NothingTyped
<1>8. /\ [NoRoute EXCEPT !.owner = Foreign, !.gen = 1] \in RouteType
      /\ [NoRoute EXCEPT !.owner = Foreign, !.gen = 1].owner = -1
      /\ [NoReg EXCEPT !.owner = Foreign] \in RegType
  <2>1. -1 \in Int /\ 1 \in Nat
    BY SMTT(60)
  <2>2. /\ [NoRoute EXCEPT !.owner = Foreign, !.gen = 1] \in RouteType
        /\ [NoRoute EXCEPT !.owner = Foreign, !.gen = 1].owner = -1
    BY <2>1, NothingTyped DEF RouteType, Foreign
  <2>3. [NoReg EXCEPT !.owner = Foreign] \in RegType
    BY <2>1, NothingTyped DEF RegType, Foreign
  <2>4. QED
    BY <2>2, <2>3
<1>9. /\ route \in [Names -> RouteType] /\ reg \in [Names -> RegType]
      /\ \A n \in Names : route[n].owner \in {0, -1}
  BY <1>1, <1>8, NothingTyped
<1>10. ObjectsOK
  BY <1>1, <1>7, <1>9 DEF ObjectsOK
<1>11. Known
  BY <1>1, NothingTyped DEF Known, Giving, PastGateway, PastResolve
<1>12. \A n \in Names : Binding(n)!Start
  BY <1>5 DEF Binding!Start, Binding!Absent, RegisteredGeneration
<1>13. QED
  BY <1>4, <1>10, <1>11, <1>12 DEF Typed

\* Every step keeps the types and the contract.
LEMMA NextKept == ASSUME Typed, [Next]_vars PROVE Kept
\* A step that leaves all bindings alone.
<1>SameBindings. ASSUME UNCHANGED binding PROVE \A n \in Names : StepOf(n)
  BY <1>SameBindings, SameReport
\* What the environment does to bindings is not seen by a reconcile.
<1>UnseenKnown.
    ASSUME Typed, UNCHANGED <<worldVars, cacheVars, workVars>>
    PROVE  WorldOK' /\ Known'
  BY <1>UnseenKnown DEF Typed, WorldOK, Known, worldVars, cacheVars, workVars, Giving, PastGateway, PastResolve
\* The MCPServer controller's three writes are the contract's.
<1>EditKept. ASSUME Typed, NEW n \in Names, EditBinding(n) PROVE Kept
  <2> USE <1>EditKept
  <2>1. PICK c \in ConfigMaps \cup {None} :
           binding' = [binding EXCEPT ![n].config = c, ![n].gen = @ + 1]
    BY DEF EditBinding
  <2>2. /\ binding \in [Names -> BindingType] /\ binding[n] \in BindingType /\ binding[n].uid # 0
        /\ lastUid \in [Names -> Nat]
        /\ UNCHANGED <<lastUid, route, reg, worldVars, cacheVars, workVars>>
    BY DEF Typed, ObjectsOK, EditBinding
  <2>3. binding' = [binding EXCEPT ![n] = Edited(binding[n], c)]
    BY <2>1, <2>2 DEF Edited
  <2>4. /\ Edited(binding[n], c) \in BindingType
        /\ Edited(binding[n], c).uid = binding[n].uid
        /\ Edited(binding[n], c).gen = binding[n].gen + 1
        /\ Edited(binding[n], c).reason = binding[n].reason
        /\ Edited(binding[n], c).observed = binding[n].observed
        /\ Edited(binding[n], c).url = binding[n].url
    BY <2>2, EditedTyped
  <2>5. /\ ObjectsOK' /\ binding'[n] = Edited(binding[n], c)
        /\ \A m \in Names \ {n} : StepOf(m)
    BY <2>2, <2>3, <2>4, OneBinding DEF Typed, cacheVars
  <2>6. WorldOK' /\ Known'
    BY <2>2, <1>UnseenKnown
  <2>7. Binding(n)!Edit
    BY <2>2, <2>4, <2>5 DEF Binding!Edit, RegisteredGeneration
  <2>8. QED
    BY <2>5, <2>6, <2>7 DEF Kept, Typed, StepOf, Binding!Step
\* A binding that is deleted takes its report with it.
<1>DeleteKept. ASSUME Typed, NEW n \in Names, DeleteBinding(n) PROVE Kept
  <2> USE <1>DeleteKept
  <2>1. /\ binding' = [binding EXCEPT ![n] = NoBinding] /\ binding[n].uid # 0
        /\ lastUid \in [Names -> Nat]
        /\ UNCHANGED <<lastUid, route, reg, worldVars, cacheVars, workVars>>
    BY DEF Typed, ObjectsOK, DeleteBinding
  <2>2. /\ ObjectsOK' /\ binding'[n] = NoBinding
        /\ \A m \in Names \ {n} : StepOf(m)
    BY <2>1, NothingTyped, OneBinding DEF Typed, cacheVars
  <2>3. WorldOK' /\ Known'
    BY <2>1, <1>UnseenKnown
  <2>4. Binding(n)!Delete
    BY <2>1, <2>2, SMTT(60) DEF Binding!Delete, NoBinding, RegisteredGeneration
  <2>5. QED
    BY <2>2, <2>3, <2>4 DEF Kept, Typed, StepOf, Binding!Step
\* A binding that is created has a uid of its own and no report.
<1>CreateKept. ASSUME Typed, NEW n \in Names, CreateBinding(n) PROVE Kept
  <2> USE <1>CreateKept
  <2>1. PICK p \in Providers, c \in ConfigMaps :
           binding' = [binding EXCEPT ![n] = NewBinding(lastUid'[n], p, c)]
    BY DEF CreateBinding
  <2>2. /\ lastUid \in [Names -> Nat] /\ lastUid' = [lastUid EXCEPT ![n] = @ + 1]
        /\ binding[n].uid = 0
        /\ UNCHANGED <<route, reg, worldVars, cacheVars, workVars>>
    BY DEF Typed, ObjectsOK, CreateBinding
  <2>3. lastUid' \in [Names -> Nat] /\ lastUid'[n] \in Nat /\ lastUid'[n] > 0
    BY <2>2, SMTT(60)
  <2> DEFINE b == NewBinding(lastUid'[n], p, c)
  <2>4. /\ b \in BindingType /\ b.uid = lastUid'[n] /\ b.gen = 1
        /\ b.reason = "none" /\ b.url = None
    BY <2>3, CreatedTyped
  <2>5. binding' = [binding EXCEPT ![n] = b]
    BY <2>1
  <2> HIDE DEF b
  <2>6. /\ ObjectsOK' /\ binding'[n] = b
        /\ \A m \in Names \ {n} : StepOf(m)
    BY <2>2, <2>3, <2>4, <2>5, OneBinding DEF Typed, cacheVars
  <2>7. WorldOK' /\ Known'
    BY <2>2, <1>UnseenKnown
  <2>8. Binding(n)!Create
    BY <2>2, <2>3, <2>4, <2>6 DEF Binding!Create, RegisteredGeneration
  <2>9. QED
    BY <2>6, <2>7, <2>8 DEF Kept, Typed, StepOf, Binding!Step
\* The controllers of routes and registrations and the garbage collector leave
\* the bindings alone.
<1>OwnedKept.
    ASSUME Typed, NEW n \in Names, CollectGarbage(n) \/ RouteJudged(n) \/ RegistrationJudged(n)
    PROVE  Kept
  <2> USE <1>OwnedKept
  <2>1. UNCHANGED <<binding, lastUid, worldVars, cacheVars, workVars>>
    BY DEF CollectGarbage, RouteJudged, RegistrationJudged
  <2>2. WorldOK' /\ Known'
    BY <2>1, <1>UnseenKnown
  <2>3. /\ route' \in [Names -> RouteType] /\ reg' \in [Names -> RegType]
        /\ \A m \in Names : \/ route'[m].owner = route[m].owner /\ route'[m].spec = route[m].spec
                            \/ route'[m].owner = 0
    <3>1. CASE CollectGarbage(n)
      BY <3>1, GarbageEffect, NothingTyped DEF Typed
    <3>2. CASE RouteJudged(n)
      BY <3>2, RouteJudgedEffect DEF Typed, ObjectsOK, RouteJudged
    <3>3. CASE RegistrationJudged(n)
      BY <3>3, RegistrationJudgedEffect DEF Typed, ObjectsOK, RegistrationJudged
    <3>4. QED
      BY <3>1, <3>2, <3>3
  <2>4. ObjectsOK'
    BY <2>1, <2>3 DEF Typed, ObjectsOK, cacheVars
  <2>5. QED
    BY <2>1, <2>2, <2>4, <1>SameBindings DEF Kept, Typed
\* So none of it touches a binding.
<1>WorldKept. ASSUME Typed, WorldChanges PROVE Kept
  <2> USE <1>WorldKept
  <2>1. WorldOK' /\ UNCHANGED <<objectVars, cacheVars, workVars>>
    BY WorldEffect
  <2>2. ObjectsOK' /\ Known'
    BY <2>1 DEF Typed, ObjectsOK, Known, objectVars, cacheVars, workVars, Giving, PastGateway,
       PastResolve
  <2>3. QED
    BY <2>1, <2>2, <1>SameBindings DEF Kept, Typed, objectVars
\* Watches, timers and restarts change copies, and copy from the API server.
<1>CachesKept. ASSUME Typed, Informers \/ TimerFires \/ RestartOperator PROVE Kept
  <2> USE <1>CachesKept
  <2>1. UNCHANGED <<objectVars, worldVars>>
    BY DEF Informers, SyncBinding, SyncOwned, SyncWorld, MetadataEvent, TimerFires,
       RestartOperator
  <2>2. /\ cbinding' \in [Names -> BindingType]
        /\ croute' \in [Names -> RouteType] /\ creg' \in [Names -> RegType]
    BY DEF Informers, SyncBinding, SyncOwned, SyncWorld, MetadataEvent, TimerFires,
       RestartOperator, cacheVars, Typed, ObjectsOK
  <2>3. /\ cserver' \in [Names -> ServerSpecs \cup {None}]
        /\ cexts' \in [Exts -> ExtStates \cup {None}]
        /\ cgateways' \in [Gateways -> GatewayStates \cup {None}]
    BY DEF Informers, SyncBinding, SyncOwned, SyncWorld, MetadataEvent, TimerFires,
       RestartOperator, cacheVars, Typed, WorldOK
  <2>4. UNCHANGED <<pc, work>> \/ (pc' = "idle" /\ work' = NoWork)
    BY DEF Informers, SyncBinding, SyncOwned, SyncWorld, MetadataEvent, TimerFires,
       RestartOperator, workVars
  <2>5. WorldOK' /\ ObjectsOK'
    BY <2>1, <2>2, <2>3 DEF Typed, WorldOK, ObjectsOK, objectVars, worldVars
  <2>6. Known'
    <3>1. CASE UNCHANGED <<pc, work>>
      BY <3>1 DEF Typed, Known, Giving, PastGateway, PastResolve
    <3>2. CASE pc' = "idle" /\ work' = NoWork
      BY <3>2, NothingTyped DEF Known, Giving, PastGateway, PastResolve
    <3>3. QED
      BY <2>4, <3>1, <3>2
  <2>7. QED
    BY <2>1, <2>5, <2>6, <1>SameBindings DEF Kept, Typed, objectVars
\* A reconcile that ends knows nothing.
<1>IdleKnown. ASSUME pc' = "idle", work' = NoWork PROVE Known'
  BY <1>IdleKnown, NothingTyped DEF Known, Giving, PastGateway, PastResolve
\* UpdateBindingStatus: a report on the copy held goes through only when that
\* copy is the binding, so its generation is the one the report is about.
<1>ReportKept.
    ASSUME NEW reason \in Reasons, NEW url, NEW outcome,
           UpdateBindingStatus(reason, url, outcome),
           url \in (IF reason = "Registered" THEN Url ELSE {None}),
           Typed, pc # "idle"
    PROVE  Kept
  <2> USE <1>ReportKept
  <2>0. PICK n \in Names : work.name = n
    BY WorkTyped
  <2> DEFINE held == work.binding
             reported == Reported(held, reason, url)
             b == IF held = binding[n] THEN reported ELSE binding[n]
  <2>1. /\ held \in BindingType /\ held.uid # 0 /\ url \in Url \cup {None}
        /\ binding[n] \in BindingType /\ binding \in [Names -> BindingType]
        /\ lastUid \in [Names -> Nat]
    BY <2>0, WorkTyped DEF Typed, ObjectsOK
  <2>2. /\ reported \in BindingType
        /\ reported.uid = held.uid /\ reported.gen = held.gen
        /\ reported.reason = reason /\ reported.observed = held.gen /\ reported.url = url
    BY <2>1, ReportTyped, SMTT(60)
  <2>3. /\ binding' = [binding EXCEPT ![n] = b]
        /\ pc' = "idle" /\ work' = NoWork
        /\ UNCHANGED <<lastUid, route, reg, worldVars, cacheVars>>
    BY <2>0 DEF UpdateBindingStatus, Reported, Finish
  <2>4. b \in BindingType
    BY <2>1, <2>2
  <2>5. b = IF held = binding[n] THEN reported ELSE binding[n]
    OBVIOUS
  <2> HIDE DEF held, reported, b
  <2>6. /\ ObjectsOK' /\ binding'[n] = b
        /\ \A m \in Names \ {n} : StepOf(m)
    BY <2>1, <2>3, <2>4, OneBinding DEF Typed, cacheVars
  <2>7. WorldOK' /\ Known'
    BY <2>3, <1>IdleKnown DEF Typed, WorldOK, worldVars, cacheVars
  <2>8. StepOf(n)
    <3>1. CASE held = binding[n] /\ reason = "Registered"
      <4>1. /\ binding[n].uid # 0 /\ binding'[n].uid = binding[n].uid
            /\ binding'[n].gen = binding[n].gen /\ binding'[n].reason = "Registered"
            /\ binding'[n].observed = binding[n].gen /\ binding'[n].url \in Url
        BY <2>1, <2>2, <2>5, <2>6, <3>1
      <4>2. Binding(n)!Register
        BY <4>1 DEF Binding!Register, RegisteredGeneration
      <4>3. QED
        BY <4>2 DEF StepOf, Binding!Step
    <3>2. CASE held = binding[n] /\ reason # "Registered"
      <4>1. /\ binding[n].uid # 0 /\ binding'[n].uid = binding[n].uid
            /\ binding'[n].gen = binding[n].gen /\ binding'[n].reason # "Registered"
            /\ binding'[n].url = None
        BY <2>1, <2>2, <2>5, <2>6, <3>2
      <4>2. Binding(n)!Unregister
        BY <4>1 DEF Binding!Unregister, RegisteredGeneration
      <4>3. QED
        BY <4>2 DEF StepOf, Binding!Step
    <3>3. CASE held # binding[n]
      BY <2>1, <2>5, <2>6, <3>3, SameReport
    <3>4. QED
      BY <3>1, <3>2, <3>3
  <2>9. QED
    BY <2>6, <2>7, <2>8 DEF Kept, Typed
\* Reconcile's first reads keep every binding as it is.
<1>FetchKept. ASSUME Typed, NEW n \in Names, Fetch(n) PROVE Kept
  <2> USE <1>FetchKept
  <2>1. /\ pc = "idle" /\ UNCHANGED <<objectVars, worldVars, cacheVars>>
        /\ UNCHANGED <<pc, work>> \/ Fetched(n)
    BY FetchCases
  <2>2. WorldOK' /\ ObjectsOK'
    BY <2>1 DEF Typed, WorldOK, ObjectsOK, objectVars, worldVars, cacheVars
  <2>3. Known'
    <3>1. CASE UNCHANGED <<pc, work>>
      BY <3>1 DEF Typed, Known, Giving, PastGateway, PastResolve
    <3>2. CASE Fetched(n)
      <4>1. /\ work' \in WorkType /\ work'.name \in Names /\ work'.binding.uid # 0
            /\ work'.spec # None
        BY <3>2 DEF Fetched, Ours
      <4>2. CASE ConfigInvalid(FetchedContent(n))
        <5>1. pc' = "deleteRoute" /\ work'.why = "InvalidConfig" /\ ConfigInvalid(work'.content)
          BY <3>2, <4>2 DEF Fetched
        <5>2. QED
          BY <4>1, <5>1 DEF Known, Steps, Giving, PastGateway, PastResolve
      <4>3. CASE ~ConfigInvalid(FetchedContent(n))
        <5>1. /\ pc' \in {"gatewayRef", "extensionRef"} /\ work'.why = "none"
              /\ ~ConfigInvalid(work'.content)
          BY <3>2, <4>3 DEF Fetched
        <5>2. QED
          BY <4>1, <5>1 DEF Known, Steps, Giving, PastGateway, PastResolve
      <4>4. QED
        BY <4>2, <4>3
    <3>3. QED
      BY <2>1, <3>1, <3>2
  <2>4. QED
    BY <2>1, <2>2, <2>3, <1>SameBindings DEF Kept, Typed, objectVars
\* A step of EnsureBindingAnnotations, given that what follows knows enough.
<1>AnnotateKept.
    ASSUME Typed, pc # "idle", NEW held \in WorkType, held.name = work.name,
           NEW key \in AnnotationKeys, NEW value \in AnnotationValues(key),
           NEW next \in {"gatewayRef", "resolve", "route"},
           EnsureAnnotation(held, key, value, next),
           UNCHANGED <<lastUid, route, reg, worldVars, cacheVars, changed>>,
           held.spec # None, held.why = "none", ~ConfigInvalid(held.content),
           held.binding.uid # 0,
           next # "gatewayRef" => held.ext # None,
           next = "route" => held.ext.ready /\ held.section # None /\ held.host # None
    PROVE  Kept
  <2> USE <1>AnnotateKept
  <2>1. held.name \in Names /\ ObjectsOK /\ binding \in [Names -> BindingType]
    BY WorkTyped DEF Typed, ObjectsOK
  <2>2. WorldOK' /\ UNCHANGED <<route, reg, cbinding, croute, creg, lastUid>>
    BY DEF Typed, WorldOK, worldVars, cacheVars
  <2>3. CASE pc' = next /\ work' = held /\ UNCHANGED binding
    <3>1. ObjectsOK'
      BY <2>2, <2>3 DEF Typed, ObjectsOK
    <3>2. Known'
      BY <2>1, <2>3 DEF Known, Steps, Giving, PastGateway, PastResolve
    <3>3. QED
      BY <2>2, <2>3, <3>1, <3>2, <1>SameBindings DEF Kept, Typed
  <2>4. CASE pc' = "idle" /\ work' = NoWork /\ UNCHANGED binding
    <3>1. ObjectsOK'
      BY <2>2, <2>4 DEF Typed, ObjectsOK
    <3>2. QED
      BY <2>2, <2>4, <3>1, <1>IdleKnown, <1>SameBindings DEF Kept, Typed
  <2>5. CASE pc' = next /\ Annotated(held, key, value)
    <3>1. /\ ObjectsOK' /\ \A n \in Names : StepOf(n)
          /\ work' \in WorkType /\ work'.binding = binding'[held.name]
          /\ work'.name = held.name /\ work'.spec = held.spec /\ work'.content = held.content
          /\ work'.ext = held.ext /\ work'.section = held.section /\ work'.host = held.host
          /\ work'.why = held.why
          /\ binding'[held.name].uid = binding[held.name].uid /\ binding[held.name].uid # 0
      BY <2>1, <2>2, <2>5, AnnotatedEffect
    <3>2. Known'
      BY <2>1, <2>5, <3>1 DEF Known, Steps, Giving, PastGateway, PastResolve
    <3>3. QED
      BY <2>2, <3>1, <3>2 DEF Kept, Typed
  <2>6. QED
    BY <2>1, <2>3, <2>4, <2>5, AnnotateCases
\* The extension of the ConfigMap is recorded.
<1>StampExtensionKept. ASSUME Typed, StampExtension PROVE Kept
  <2> USE <1>StampExtensionKept
  <2>1. /\ pc = "extensionRef" /\ EnsureAnnotation(work, "extensionRef", work.content.ext, "gatewayRef")
        /\ UNCHANGED <<lastUid, route, reg, worldVars, cacheVars, changed>>
    BY DEF StampExtension
  <2>2. /\ work \in WorkType /\ work.spec # None /\ work.binding.uid # 0
        /\ work.content \in Contents \cup {None}
    BY <2>1, WorkTyped DEF Typed, Known
  <2>3. work.why = "none" /\ ~ConfigInvalid(work.content)
    BY <2>1 DEF Typed, Known, Giving
  <2>4. work.content.ext \in AnnotationValues("extensionRef") /\ "extensionRef" \in AnnotationKeys
    BY <2>2, <2>3, ContentTyped, ValuesTyped
  <2>5. QED
    BY <2>1, <2>2, <2>3, <2>4, <1>AnnotateKept
\* setNotRegistered begins.
<1>GiveUpKept.
    ASSUME Typed, pc # "idle", ~Giving,
           NEW why \in Unregistrable \ {"InvalidConfig"}, GiveUp(why),
           UNCHANGED <<objectVars, worldVars, cacheVars, changed>>,
           why \in {"NoListener", "PrefixConflict"} => work.ext # None,
           why = "PrefixConflict" =>
              work.ext.ready /\ work.section # None /\ work.host # None
    PROVE  Kept
  <2> USE <1>GiveUpKept
  <2>1. /\ WorldOK' /\ ObjectsOK' /\ work \in WorkType /\ UNCHANGED binding
        /\ work.name \in Names /\ work.spec # None /\ work.binding.uid # 0
    BY WorkTyped DEF Typed, WorldOK, ObjectsOK, Known, objectVars, worldVars, cacheVars
  <2>2. ~ConfigInvalid(work.content)
    BY DEF Typed, Known
  <2>3. /\ pc' = "deleteRoute" /\ work' \in WorkType /\ work'.why = why
        /\ work'.name = work.name /\ work'.binding = work.binding /\ work'.spec = work.spec
        /\ work'.content = work.content /\ work'.ext = work.ext
        /\ work'.section = work.section /\ work'.host = work.host
    BY <2>1, GivenUpTyped DEF GiveUp, Goto
  <2>4. Known'
    BY <2>1, <2>2, <2>3 DEF Known, Steps, Giving, PastGateway, PastResolve, Unregistrable
  <2>5. QED
    BY <2>1, <2>4, <1>SameBindings DEF Kept, Typed
\* The extension leads to a Gateway, or there is none.
<1>StampGatewayKept. ASSUME Typed, StampGateway PROVE Kept
  <2> USE <1>StampGatewayKept
  <2> DEFINE ext == cexts[work.content.ext]
  <2>1. /\ pc = "gatewayRef"
        /\ UNCHANGED <<lastUid, route, reg, worldVars, cacheVars, changed>>
    BY DEF StampGateway
  <2>2. /\ work \in WorkType /\ work.spec # None /\ work.binding.uid # 0
        /\ work.content \in Contents \cup {None}
    BY <2>1, WorkTyped DEF Typed, Known
  <2>3. work.why = "none" /\ ~ConfigInvalid(work.content) /\ ~Giving
    BY <2>1 DEF Typed, Known, Giving
  <2>4. ext \in ExtStates \cup {None}
    BY <2>2, <2>3, ContentTyped DEF Typed, WorldOK
  <2>5. CASE ext = None
    <3>1. GiveUp("NoExtension") /\ UNCHANGED binding
      BY <2>5 DEF StampGateway
    <3>2. QED
      BY <2>1, <2>3, <3>1, <1>GiveUpKept DEF Unregistrable, objectVars
  <2>6. CASE ext # None
    <3>1. ext \in ExtStates /\ ext.gateway \in AnnotationValues("gatewayRef")
          /\ "gatewayRef" \in AnnotationKeys
      BY <2>4, <2>6, ExtTyped, ValuesTyped
    <3>2. EnsureAnnotation([work EXCEPT !.ext = ext], "gatewayRef", ext.gateway, "resolve")
      BY <2>6 DEF StampGateway
    <3> HIDE DEF ext
    <3> DEFINE held == [work EXCEPT !.ext = ext]
    <3>3. /\ held \in WorkType /\ held.ext = ext /\ held.name = work.name
          /\ held.binding = work.binding /\ held.spec = work.spec
          /\ held.content = work.content /\ held.why = work.why
      BY <2>2, <3>1, WithExtTyped
    <3> HIDE DEF held
    <3>4. EnsureAnnotation(held, "gatewayRef", ext.gateway, "resolve")
      BY <3>2 DEF held
    <3>5. QED
      BY <2>1, <2>2, <2>3, <2>6, <3>1, <3>3, <3>4, <1>AnnotateKept
  <2>7. QED
    BY <2>5, <2>6
\* The listener and the host name of the route are known when it is written.
<1>ResolveKept. ASSUME Typed, Resolve PROVE Kept
  <2> USE <1>ResolveKept
  <2>1. /\ pc = "resolve" /\ work.ext \in ExtStates /\ work.ext # None /\ ~Giving
        /\ ~ConfigInvalid(work.content) /\ work.why = "none"
    BY ResolveCases DEF Typed, Known, PastGateway
  <2>2. CASE UpdateBindingStatus("ExtensionNotReady", None, "later")
    BY <2>1, <2>2, <1>ReportKept DEF Reasons
  <2>3. CASE GiveUp("NoListener") /\ UNCHANGED <<objectVars, worldVars, cacheVars, changed>>
    BY <2>1, <2>3, <1>GiveUpKept DEF Unregistrable
  <2>4. CASE work.ext.ready /\ Resolved /\ UNCHANGED <<objectVars, worldVars, cacheVars, changed>>
    <3>1. WorldOK' /\ ObjectsOK' /\ UNCHANGED binding
      BY <2>4 DEF Typed, WorldOK, ObjectsOK, objectVars, worldVars, cacheVars
    <3>2. work.name \in Names /\ work.spec # None /\ work.binding.uid # 0
      BY <2>1 DEF Typed, Known
    <3>3. Known'
      BY <2>1, <2>4, <3>2 DEF Resolved, Known, Steps, Giving, PastGateway, PastResolve
    <3>4. QED
      BY <3>1, <3>3, <1>SameBindings DEF Kept, Typed
  <2>5. QED
    BY <2>2, <2>3, <2>4, ResolveCases
\* The Service of the spec is recorded.
<1>RecordKept. ASSUME Typed, Record PROVE Kept
  <2> USE <1>RecordKept
  <2>1. /\ pc = "record" /\ EnsureAnnotation(work, "serviceRef", work.spec.service, "route")
        /\ UNCHANGED <<lastUid, route, reg, worldVars, cacheVars, changed>>
    BY DEF Record
  <2>2. /\ work \in WorkType /\ work.spec # None /\ work.binding.uid # 0
        /\ work.spec.service \in Services \cup {"managed"}
    BY <2>1, WorkTyped DEF Typed, Known
  <2>3. /\ work.why = "none" /\ ~ConfigInvalid(work.content) /\ work.ext # None
        /\ work.ext.ready /\ work.section # None /\ work.host # None
    BY <2>1 DEF Typed, Known, Giving, PastGateway, PastResolve
  <2>4. work.spec.service \in AnnotationValues("serviceRef") /\ "serviceRef" \in AnnotationKeys
    BY <2>2, ValuesTyped
  <2>5. QED
    BY <2>1, <2>2, <2>3, <2>4, <1>AnnotateKept
\* A route that is written belongs to the binding that the reconcile holds.
<1>RouteKept. ASSUME Typed, ReconcileHTTPRoute PROVE Kept
  <2> USE <1>RouteKept
  <2>1. pc = "route" /\ UNCHANGED <<binding, lastUid, reg, worldVars, cacheVars>>
    BY RouteCases
  <2>2. WorldOK'
    BY <2>1 DEF Typed, WorldOK, worldVars, cacheVars
  <2>3. CASE pc' = "idle" /\ work' = NoWork /\ UNCHANGED route
    <3>1. ObjectsOK'
      BY <2>1, <2>3 DEF Typed, ObjectsOK, cacheVars
    <3>2. QED
      BY <2>1, <2>2, <2>3, <3>1, <1>IdleKnown, <1>SameBindings DEF Kept, Typed
  <2>4. CASE RouteDone(work.name)
    <3>1. /\ route' \in [Names -> RouteType]
          /\ \A m \in Names : route'[m].owner \notin {0, -1} => route'[m].spec \in RouteSpecs
      BY <2>1, <2>4, WorkTyped, RouteDoneEffect DEF Typed
    <3>2. ObjectsOK'
      BY <2>1, <3>1 DEF Typed, ObjectsOK, cacheVars
    <3>3. Known'
      BY <2>1, <2>4 DEF RouteDone, Typed, Known, Steps, Giving, PastGateway, PastResolve
    <3>4. QED
      BY <2>1, <2>2, <3>2, <3>3, <1>SameBindings DEF Kept, Typed
  <2>5. QED
    BY <2>3, <2>4, RouteCases
\* A registration that is written belongs to the binding that the reconcile holds.
<1>RegistrationKept. ASSUME Typed, ReconcileRegistration PROVE Kept
  <2> USE <1>RegistrationKept
  <2>1. pc = "registration" /\ UNCHANGED <<binding, lastUid, route, worldVars, cacheVars, changed>>
    BY RegistrationCases
  <2>2. WorldOK'
    BY <2>1 DEF Typed, WorldOK, worldVars, cacheVars
  <2>3. CASE pc' = "idle" /\ work' = NoWork /\ UNCHANGED reg
    <3>1. ObjectsOK'
      BY <2>1, <2>3 DEF Typed, ObjectsOK, cacheVars
    <3>2. QED
      BY <2>1, <2>2, <2>3, <3>1, <1>IdleKnown, <1>SameBindings DEF Kept, Typed
  <2>4. CASE GiveUp("PrefixConflict") /\ UNCHANGED reg
    <3>1. ~Giving /\ work.ext # None /\ work.ext.ready /\ work.section # None /\ work.host # None
      BY <2>1 DEF Typed, Known, Giving, PastGateway, PastResolve
    <3>2. QED
      BY <2>1, <2>4, <3>1, <1>GiveUpKept DEF Unregistrable, objectVars
  <2>5. CASE RegistrationDone(work.name)
    <3>1. reg' \in [Names -> RegType]
      BY <2>1, <2>5, WorkTyped, RegistrationDoneEffect DEF Typed
    <3>2. ObjectsOK'
      BY <2>1, <3>1 DEF Typed, ObjectsOK, cacheVars
    <3>3. Known'
      BY <2>1, <2>5 DEF RegistrationDone, Typed, Known, Steps, Giving, PastGateway, PastResolve
    <3>4. QED
      BY <2>1, <2>2, <3>2, <3>3, <1>SameBindings DEF Kept, Typed
  <2>6. QED
    BY <2>3, <2>4, <2>5, RegistrationCases
\* Nothing is reported while resources are deleted.
<1>DeletedKept. ASSUME Typed, DeleteStaleRoute \/ DeleteStaleRegistration PROVE Kept
  <2> USE <1>DeletedKept
  <2>1. /\ pc \in {"deleteRoute", "deleteRegistration"} /\ pc' \in {"deleteRegistration", "unregister"}
        /\ UNCHANGED <<binding, lastUid, worldVars, cacheVars, changed, work, queued, timer>>
        /\ route' \in [Names -> RouteType] /\ reg' \in [Names -> RegType]
        /\ \A m \in Names : route'[m] = route[m] \/ route'[m] = NoRoute
    BY DeletedEffect
  <2>2. WorldOK'
    BY <2>1 DEF Typed, WorldOK, worldVars, cacheVars
  <2>3. \A m \in Names : route'[m].owner \notin {0, -1} => route'[m].spec \in RouteSpecs
    BY <2>1, NothingTyped DEF Typed, ObjectsOK
  <2>4. ObjectsOK'
    BY <2>1, <2>3 DEF Typed, ObjectsOK, cacheVars
  <2>5. Known'
    BY <2>1 DEF Typed, Known, Steps, Giving, PastGateway, PastResolve
  <2>6. QED
    BY <2>1, <2>2, <2>4, <2>5, <1>SameBindings DEF Kept, Typed
\* A step that ends the reconcile and touches nothing else.
<1>EndKept.
    ASSUME Typed, pc' = "idle", work' = NoWork, UNCHANGED <<objectVars, worldVars, cacheVars>>
    PROVE  Kept
  <2> USE <1>EndKept
  <2>1. WorldOK' /\ ObjectsOK' /\ UNCHANGED binding
    BY DEF Typed, WorldOK, ObjectsOK, objectVars, worldVars, cacheVars
  <2>2. QED
    BY <2>1, <1>IdleKnown, <1>SameBindings DEF Kept, Typed
\* A binding is reported as registered with the URL of its listener.
<1>JudgeKept. ASSUME Typed, Judge PROVE Kept
  <2> USE <1>JudgeKept
  <2> DEFINE verdict == Verdict(work.ext, croute[work.name], creg[work.name], cgateways)
             url == IF verdict = "Registered" THEN PublicUrl(work.ext, work.spec, cgateways)
                    ELSE None
  <2>1. pc # "idle" /\ work.ext \in ExtStates
    BY JudgeCases
  <2>2. CASE pc' = "idle" /\ work' = NoWork /\ UNCHANGED <<objectVars, worldVars, cacheVars>>
    BY <2>2, <1>EndKept
  <2>3. ASSUME NEW outcome, UpdateBindingStatus(verdict, url, outcome)
        PROVE  Kept
    <3>1. cgateways \in [Gateways -> GatewayStates \cup {None}] /\ work.spec \in ServerSpecs
      BY <2>1, WorkTyped DEF Typed, WorldOK
    <3>2. verdict \in Reasons /\ (verdict = "Registered" => PublicHost(work.ext, cgateways) # None)
      BY VerdictTyped
    <3> HIDE DEF verdict
    <3>3. url \in (IF verdict = "Registered" THEN Url ELSE {None})
      BY <2>1, <3>1, <3>2, UrlTyped
    <3> HIDE DEF url
    <3>4. QED
      BY <2>1, <2>3, <3>2, <3>3, <1>ReportKept
  <2>4. QED
    <3> HIDE DEF verdict
    <3>1. QED
      BY <2>2, <2>3, JudgeCases DEF verdict
\* A binding that cannot be registered has no URL.
<1>UnregisterKept. ASSUME Typed, Unregister PROVE Kept
  <2> USE <1>UnregisterKept
  <2>1. /\ pc = "unregister"
        /\ UpdateBindingStatus(work.why, None,
                               IF work.why = "PrefixConflict" THEN "later" ELSE "done")
    BY DEF Unregister
  <2>2. work.why \in Unregistrable
    BY <2>1 DEF Typed, Known, Giving, WorkType
  <2>3. work.why \in Reasons /\ work.why # "Registered" /\ pc # "idle"
    BY <2>1, <2>2 DEF Reasons, Unregistrable
  <2>4. None \in (IF work.why = "Registered" THEN Url ELSE {None})
    BY <2>3
  <2>5. QED
    BY <2>1, <2>3, <2>4, <1>ReportKept
\* A reconcile whose call fails leaves everything as it is.
<1>FailureKept. ASSUME Typed, CallFails PROVE Kept
  BY <1>FailureKept, <1>EndKept DEF CallFails, Finish
<1>1. CASE UNCHANGED vars
  <2>1. UNCHANGED <<objectVars, worldVars, cacheVars, workVars>>
    BY <1>1 DEF vars
  <2>2. WorldOK' /\ Known'
    BY <2>1, <1>UnseenKnown
  <2>3. ObjectsOK' /\ UNCHANGED binding
    BY <2>1 DEF Typed, ObjectsOK, objectVars, cacheVars
  <2>4. QED
    BY <2>2, <2>3, <1>SameBindings DEF Kept, Typed
<1>2. CASE Environment
  BY <1>2, <1>EditKept, <1>DeleteKept, <1>CreateKept, <1>OwnedKept, <1>WorldKept DEF Environment
<1>3. CASE Informers \/ TimerFires \/ RestartOperator
  BY <1>3, <1>CachesKept
<1>4. CASE Worker
  BY <1>4, <1>FetchKept, <1>StampExtensionKept, <1>StampGatewayKept, <1>ResolveKept, <1>RecordKept, <1>RouteKept,
     <1>RegistrationKept, <1>JudgeKept, <1>DeletedKept, <1>UnregisterKept, Zenon DEF Worker
<1>5. CASE CallFails
  BY <1>5, <1>FailureKept
<1>6. QED
  BY <1>1, <1>2, <1>3, <1>4, <1>5 DEF Next

\* The kuadrant provider implements GatewayBinding for each of its bindings:
\* whatever it writes, and whatever happens to the copies it works with, the
\* MCPServer controller sees a binding created, edited, deleted, registered at
\* its generation with a URL, or not registered and without one.
THEOREM KuadrantContract == Spec => KeepsContract
<1>1. Init => Typed /\ \A n \in Names : Binding(n)!Start
  BY InitTyped
<1>2. Typed /\ [Next]_vars => Typed' /\ [\A n \in Names : StepOf(n)]_vars
  BY NextKept DEF Kept
<1>3. Spec => []Typed
  BY <1>1, <1>2, PTL DEF Spec
<1>4. Spec => [][\A n \in Names : StepOf(n)]_vars
  BY <1>2, <1>3, PTL DEF Spec
<1>5. QED
  BY <1>1, <1>4, PTL DEF Spec, KeepsContract, StepOf

-----------------------------------------------------------------------------
(* What a verdict depends on.                                              *)

\* Two sets of Gateways are the same for view v.
SameGateway(v, gws, gws2) ==
    ~ConfigInvalid(v.content) /\ v.ext # None => gws[v.ext.gateway] = gws2[v.ext.gateway]

\* So are two views, the port apart.
SameView(v, w) ==
    /\ v.content = w.content /\ v.ext = w.ext /\ v.spec = w.spec

\* Two states of a route, or of a registration, that are the same to binding b.
Alike(b, x, y) ==
    \/ x.owner = y.owner /\ x.spec = y.spec
    \/ x.owner # b.uid /\ y.owner # b.uid

-----------------------------------------------------------------------------
(* Steps that a binding does not see.                                      *)

\* What the workqueue entries and the copies of n show is the same, and of the
\* rest only what no event for n would tell of has changed.
Unmoved(n) ==
    /\ UNCHANGED <<binding[n], lastUid[n], cbinding[n], croute[n], creg[n], cserver[n]>>
    /\ Alike(binding[n], route[n], route'[n]) /\ Alike(binding[n], reg[n], reg'[n])
    /\ n \in queued => n \in queued'

Unheard(n) ==
    /\ \A x \in {cbinding[n].config, cbinding[n].serviceRef} : x \in changed => x \in changed'
    /\ \A c \in ConfigMaps : config'[c] = config[c] \/ c \in changed'
    /\ \A s \in Services : services'[s] = services[s] \/ s \in changed'
    /\ cexts'[cbinding[n].extensionRef] = cexts[cbinding[n].extensionRef]
    /\ cgateways'[cbinding[n].gatewayRef] = cgateways[cbinding[n].gatewayRef]

\* A reconcile of n goes on, or there is none before and after.
SameWork(n) ==
    \/ UNCHANGED <<pc, work>>
    \/ ~Busy(n) /\ ~Busy(n)'

\* The fields of a view.
LEMMA ViewFields ==
    ASSUME NEW n
    PROVE  /\ View(n).content = Content(n) /\ View(n).ext = ExtFor(Content(n))
           /\ View(n).spec = cserver[n] /\ View(n).port = BackendPort(cserver[n])
BY DEF View

\* A step that no event for n would tell of keeps the invariant of n.
LEMMA UnmovedInv ==
    \A n \in Names :
       Typed /\ NameInv(n) /\ Unmoved(n) /\ Unheard(n) /\ SameWork(n) => NameInv(n)'
\* Of the Gateways only the one that the extension targets matters.
<1>GatewayAlone.
    ASSUME NEW g, NEW gws, NEW gws2, gws[g] = gws2[g]
    PROVE  /\ \A s : HasListener(gws, g, s) <=> HasListener(gws2, g, s)
           /\ \A c : SectionFor(c, gws, g) = SectionFor(c, gws2, g)
           /\ \A c, s : RouteHostname(c, gws, g, s) = RouteHostname(c, gws2, g, s)
           /\ \A ext : ext.gateway = g =>
                 /\ PublicHost(ext, gws) = PublicHost(ext, gws2)
                 /\ \A spec : PublicUrl(ext, spec, gws) = PublicUrl(ext, spec, gws2)
                 /\ \A r, x : Verdict(ext, r, x, gws) = Verdict(ext, r, x, gws2)
  <2> USE <1>GatewayAlone
  <2>1. \A s : HasListener(gws, g, s) <=> HasListener(gws2, g, s)
    BY DEF HasListener
  <2>2. WildcardListeners(gws, g) = WildcardListeners(gws2, g)
    BY <2>1 DEF WildcardListeners
  <2>3. \A c : SectionFor(c, gws, g) = SectionFor(c, gws2, g)
    BY <2>2 DEF SectionFor
  <2>4. \A c, s : RouteHostname(c, gws, g, s) = RouteHostname(c, gws2, g, s)
    BY <2>1, SMT DEF RouteHostname
  <2>5. ASSUME NEW ext, ext.gateway = g
        PROVE  /\ PublicHost(ext, gws) = PublicHost(ext, gws2)
               /\ \A spec : PublicUrl(ext, spec, gws) = PublicUrl(ext, spec, gws2)
               /\ \A r, x : Verdict(ext, r, x, gws) = Verdict(ext, r, x, gws2)
    <3>1. HasListener(gws, ext.gateway, ext.section) <=> HasListener(gws2, ext.gateway, ext.section)
      BY <2>1, <2>5
    <3>2. gws[ext.gateway] = gws2[ext.gateway]
      BY <2>5
    <3>3. PublicHost(ext, gws) = PublicHost(ext, gws2)
      BY <3>1, <3>2, SMT DEF PublicHost
    <3>4. \A spec : PublicUrl(ext, spec, gws) = PublicUrl(ext, spec, gws2)
      BY <3>1, <3>2, <3>3, SMT DEF PublicUrl
    <3>5. \A r, x : Verdict(ext, r, x, gws) = Verdict(ext, r, x, gws2)
      BY <3>3, SMT DEF Verdict
    <3>6. QED
      BY <3>3, <3>4, <3>5
  <2>6. QED
    BY <2>1, <2>3, <2>4, <2>5
\* Hurdles and annotations do not depend on the port.
<1>HurdleAlone.
    ASSUME NEW v, NEW w, SameView(v, w), NEW gws, NEW gws2, SameGateway(v, gws, gws2)
    PROVE  /\ Hurdle(v, gws) = Hurdle(w, gws2)
           /\ \A b : RefsRight(b, v, gws) <=> RefsRight(b, w, gws2)
           /\ \A b : Wanted(b, v, gws) <=> Wanted(b, w, gws2)
           /\ \A b : Refused(b, v, gws) <=> Refused(b, w, gws2)
           /\ \A n : RegistrationOf(n, v) = RegistrationOf(n, w)
  <2> USE <1>HurdleAlone
  <2>1. Hurdle(v, gws) = Hurdle(w, gws2)
    <3>1. CASE ConfigInvalid(v.content) \/ v.ext = None
      BY <3>1 DEF SameView, Hurdle
    <3>2. CASE ~ConfigInvalid(v.content) /\ v.ext # None
      <4> DEFINE g == v.ext.gateway
      <4>1. gws[g] = gws2[g]
        BY <3>2 DEF SameGateway
      <4>2. /\ SectionFor(v.content, gws, g) = SectionFor(v.content, gws2, g)
            /\ \A s : RouteHostname(v.content, gws, g, s) = RouteHostname(v.content, gws2, g, s)
        BY <4>1, <1>GatewayAlone, SMTT(60)
      <4>3. QED
        BY <4>2 DEF Hurdle, SameView
    <3>3. QED
      BY <3>1, <3>2
  <2>2. QED
    BY <2>1 DEF SameView, RefsRight, Wanted, Refused, RegistrationOf
\* What is asked of the objects and of the report.
<1>RightAlone.
    ASSUME NEW v, NEW w, SameView(v, w), NEW gws, NEW gws2, SameGateway(v, gws, gws2)
    PROVE  /\ Hurdle(v, gws) # "none" \/ v.port = w.port =>
                 \A b, r : RouteRight(b, r, v, gws) <=> RouteRight(b, r, w, gws2)
           /\ \A n, b, x : RegRight(n, b, x, v, gws) <=> RegRight(n, b, x, w, gws2)
           /\ \A b, r, x : StatusRight(b, r, x, v, gws) <=> StatusRight(b, r, x, w, gws2)
  <2> USE <1>RightAlone
  <2> DEFINE g == v.ext.gateway
  <2>1. /\ Hurdle(v, gws) = Hurdle(w, gws2)
        /\ \A b : Wanted(b, v, gws) <=> Wanted(b, w, gws2)
        /\ \A b : Refused(b, v, gws) <=> Refused(b, w, gws2)
        /\ \A n : RegistrationOf(n, v) = RegistrationOf(n, w)
    BY <1>HurdleAlone, SMTT(60)
  <2>2. \A n, b, x : RegRight(n, b, x, v, gws) <=> RegRight(n, b, x, w, gws2)
    BY <2>1 DEF RegRight
  <2>3. CASE Hurdle(v, gws) # "none"
    <3>1. \A b : ~Wanted(b, v, gws)
      BY <2>3 DEF Wanted
    <3>2. Hurdle(v, gws) # "Registered"
      BY DEF Hurdle
    <3>3. \A b, r, x : StatusRight(b, r, x, v, gws) <=> StatusRight(b, r, x, w, gws2)
      BY <2>1, <2>3, <3>1, <3>2 DEF StatusRight
    <3>4. \A b, r : RouteRight(b, r, v, gws) <=> RouteRight(b, r, w, gws2)
      BY <2>1, <3>1 DEF RouteRight
    <3>5. QED
      BY <2>2, <3>3, <3>4
  <2>4. CASE Hurdle(v, gws) = "none"
    <3>1. gws[g] = gws2[g]
      BY <2>4 DEF Hurdle, SameGateway
    <3>2. /\ SectionFor(v.content, gws, g) = SectionFor(v.content, gws2, g)
          /\ \A s : RouteHostname(v.content, gws, g, s) = RouteHostname(v.content, gws2, g, s)
          /\ \A spec : PublicUrl(v.ext, spec, gws) = PublicUrl(v.ext, spec, gws2)
          /\ \A r, x : Verdict(v.ext, r, x, gws) = Verdict(v.ext, r, x, gws2)
      BY <3>1, <1>GatewayAlone, SMTT(60)
    <3>3. v.port = w.port => RouteOf(v, gws) = RouteOf(w, gws2)
      BY <3>2 DEF RouteOf, SameView
    <3>4. v.port = w.port => \A b, r : RouteRight(b, r, v, gws) <=> RouteRight(b, r, w, gws2)
      BY <2>1, <3>3 DEF RouteRight
    <3>5. \A b, r, x : StatusRight(b, r, x, v, gws) <=> StatusRight(b, r, x, w, gws2)
      BY <2>1, <2>4, <3>2 DEF StatusRight, SameView
    <3>6. QED
      BY <2>2, <2>4, <3>4, <3>5
  <2>5. QED
    BY <2>3, <2>4
\* Objects that are alike are right alike.
<1>AlikeRight.
    ASSUME NEW n, NEW b, NEW x, NEW y, Alike(b, x, y), NEW v, NEW gws
    PROVE  /\ RouteRight(b, x, v, gws) <=> RouteRight(b, y, v, gws)
           /\ RegRight(n, b, x, v, gws) <=> RegRight(n, b, y, v, gws)
  BY <1>AlikeRight DEF Alike, RouteRight, RegRight
\* The ConfigMap of n is the same or its event is on its way.
<1>UnheardContent.
    ASSUME Typed, NEW n \in Names, Unmoved(n), Unheard(n)
    PROVE  Content(n)' = Content(n) \/ binding[n].config \in changed'
  <2> USE <1>UnheardContent
  <2>1. binding[n].config \in ConfigMaps \cup {None} /\ binding'[n] = binding[n]
    BY DEF Typed, ObjectsOK, BindingType, Unmoved
  <2>2. QED
    BY <2>1 DEF Unheard, Content
\* So are the Services.
<1>UnheardPort.
    ASSUME Typed, NEW n \in Names, Unheard(n),
           NEW spec, spec.service \in Services \cup {"managed"}
    PROVE  BackendPort(spec)' = BackendPort(spec) \/ spec.service \in changed'
  <2> USE <1>UnheardPort
  <2>1. CASE spec.service = "managed"
    BY <2>1 DEF BackendPort
  <2>2. CASE spec.service # "managed"
    <3>1. services'[spec.service] = services[spec.service] \/ spec.service \in changed'
      BY <2>2 DEF Unheard
    <3>2. QED
      BY <2>2, <3>1 DEF BackendPort
  <2>3. QED
    BY <2>1, <2>2
\* A reconcile that is under way stays informed.
<1>UnmovedInformed.
    ASSUME Typed, NEW n \in Names, NameInv(n), Unmoved(n), Unheard(n), SameWork(n)
    PROVE  Informed(n)'
  <2> USE <1>UnmovedInformed
  <2> SUFFICES ASSUME Busy(n)', Ours(binding'[n]), ~Coming(n)'
               PROVE  /\ ReadConfig(n)' /\ ReadExtension(n)' /\ ReadGateway(n)' /\ ReadService(n)'
                      /\ Wrote(n)'
    BY DEF Informed
  <2>1. /\ UNCHANGED <<pc, work, binding[n], cbinding[n], croute[n], creg[n], cserver[n]>>
        /\ Busy(n) /\ ~Coming(n) /\ Ours(binding[n])
    <3>1. UNCHANGED <<binding[n], cbinding[n], croute[n], creg[n], cserver[n]>>
      BY DEF Unmoved
    <3>2. UNCHANGED <<pc, work>>
      BY DEF SameWork
    <3>3. n \notin queued
      BY DEF Unmoved, Coming
    <3>4. QED
      BY <3>1, <3>2, <3>3 DEF Coming, Busy
  <2>2. ReadConfig(n) /\ ReadExtension(n) /\ ReadGateway(n) /\ ReadService(n) /\ Wrote(n)
    BY <2>1 DEF NameInv, Informed
  <2>3. /\ work.name = n /\ pc # "idle" /\ binding[n].uid # 0
        /\ cbinding[n].uid = binding[n].uid /\ cbinding[n].gen = binding[n].gen
        /\ cbinding[n].config = binding[n].config
        /\ work.binding.uid = binding[n].uid
    <3>1. /\ work.name = n /\ pc # "idle" /\ binding[n].uid # 0
          /\ cbinding[n].uid = binding[n].uid /\ cbinding[n].gen = binding[n].gen
          /\ work.binding \in {binding[n], cbinding[n]} /\ Ordered(n)
      BY <2>1, <2>2 DEF Busy, Coming, Ours, ReadConfig, NameInv
    <3>2. QED
      BY <3>1 DEF Ordered
  <2>4. /\ PastExtension' = PastExtension /\ PastGateway' = PastGateway /\ PastResolve' = PastResolve
        /\ PastRecord' = PastRecord /\ Giving' = Giving
    BY <2>1 DEF PastExtension, PastGateway, PastResolve, PastRecord, Giving
  <2>5. ReadConfig(n)'
    <3>1. binding[n].config \in changed => binding[n].config \in changed'
      BY <2>3 DEF Unheard
    <3>2. Content(n)' = Content(n) \/ binding[n].config \in changed'
      BY <1>UnheardContent
    <3>3. QED
      BY <2>1, <2>2, <3>1, <3>2 DEF ReadConfig
  <2>6. ReadExtension(n)'
    BY <2>1, <2>2, <2>4 DEF ReadExtension, Marked, Unheard
  <2>7. ReadGateway(n)'
    <3> DEFINE g == work.ext.gateway
    <3>1. CASE PastGateway /\ cbinding[n].gatewayRef = g
      <4>1. cgateways'[g] = cgateways[g]
        BY <3>1 DEF Unheard
      <4>2. /\ SectionFor(work.content, cgateways', g) = SectionFor(work.content, cgateways, g)
            /\ \A s : RouteHostname(work.content, cgateways', g, s)
                         = RouteHostname(work.content, cgateways, g, s)
        BY <4>1, <1>GatewayAlone, SMTT(60)
      <4>3. QED
        BY <2>1, <2>2, <2>4, <4>2 DEF ReadGateway, Marked
    <3>2. CASE ~(PastGateway /\ cbinding[n].gatewayRef = g)
      BY <2>1, <2>2, <2>4, <3>2 DEF ReadGateway, Marked
    <3>3. QED
      BY <3>1, <3>2
  <2>8. ReadService(n)'
    <3>1. work.spec.service \in Services \cup {"managed"}
      BY <2>3, WorkTyped
    <3>2. BackendPort(work.spec)' = BackendPort(work.spec) \/ work.spec.service \in changed'
      <4>1. \A spec : spec.service \in Services \cup {"managed"} =>
               BackendPort(spec)' = BackendPort(spec) \/ spec.service \in changed'
        BY <1>UnheardPort
      <4>2. QED
        BY <2>1, <3>1, <4>1 DEF BackendPort
    <3>3. cbinding[n].serviceRef \in changed => cbinding[n].serviceRef \in changed'
      BY DEF Unheard
    <3>4. QED
      BY <2>1, <2>2, <2>4, <3>2, <3>3 DEF ReadService, Marked
  <2>9. Wrote(n)'
    <3>1. /\ RouteFor(route[n]) => RouteFor(route'[n])
          /\ RegFor(reg[n]) => RegFor(reg'[n])
          /\ route[n].owner # work.binding.uid => route'[n].owner # work.binding.uid
          /\ reg[n].owner # work.binding.uid => reg'[n].owner # work.binding.uid
      BY <2>3 DEF Unmoved, Alike, RouteFor, RegFor
    <3>2. QED
      BY <2>1, <2>2, <3>1 DEF Wrote, RouteFor, RegFor
  <2>10. QED
    BY <2>5, <2>6, <2>7, <2>8, <2>9
\* A spec of the cache refers to a Service.
<1>SpecTyped.
    ASSUME Typed, NEW n \in Names, cserver[n] # None
    PROVE  cserver[n] \in ServerSpecs /\ cserver[n].service \in Services \cup {"managed"}
  <2> USE <1>SpecTyped
  <2>1. cserver[n] \in ServerSpecs
    BY DEF Typed, WorldOK
  <2>2. QED
    BY <2>1, KuadrantAssumption
\* A binding that is at rest stays so.
<1>UnmovedSettled.
    ASSUME Typed, NEW n \in Names, NameInv(n), Unmoved(n), Unheard(n), SameWork(n)
    PROVE  Settled(n)'
  <2> USE <1>UnmovedSettled
  <2> DEFINE b == binding[n]
             v == View(n)
             w == View(n)'
  <2> SUFFICES ASSUME ~Busy(n)', Ours(binding'[n]), cserver'[n] # None,
                      n \notin queued', cbinding'[n] = binding'[n], binding'[n].config \notin changed'
               PROVE  /\ RefsRight(b, w, cgateways')
                      /\ \/ Hurdle(w, cgateways') = "none" /\ cserver[n].service \in changed'
                         \/ Fine(n, b, route'[n], croute[n], reg'[n], creg[n], w, cgateways')
    BY DEF Settled, Unmoved
  <2>1. /\ UNCHANGED <<binding[n], cbinding[n], croute[n], creg[n], cserver[n]>>
        /\ cbinding[n] = b /\ n \notin queued /\ cserver[n] # None /\ Ours(b)
        /\ Alike(b, route[n], route'[n]) /\ Alike(b, reg[n], reg'[n])
    BY DEF Unmoved
  <2>2. ~Busy(n)
    BY DEF SameWork, Busy
  <2>3. b.config \notin changed
    BY <2>1 DEF Unheard
  <2>4. /\ RefsRight(b, v, cgateways)
        /\ \/ Hurdle(v, cgateways) = "none" /\ cserver[n].service \in changed
           \/ Fine(n, b, route[n], croute[n], reg[n], creg[n], v, cgateways)
    BY <2>1, <2>2, <2>3 DEF NameInv, Settled
  <2>5. Content(n)' = Content(n)
    BY <2>1, <1>UnheardContent
  <2>6. /\ v.content = Content(n) /\ v.ext = ExtFor(Content(n)) /\ v.spec = cserver[n]
        /\ v.port = BackendPort(cserver[n])
    BY ViewFields
  <2>7. /\ w.content = Content(n) /\ w.ext = ExtFor(Content(n))' /\ w.spec = cserver[n]
        /\ w.port = BackendPort(cserver[n])'
    BY <2>1, <2>5 DEF View
  <2>8. ExtFor(Content(n))' = ExtFor(Content(n))
    <3>1. CASE ConfigInvalid(Content(n))
      BY <2>5, <3>1 DEF ExtFor
    <3>2. CASE ~ConfigInvalid(Content(n))
      <4>1. Hurdle(v, cgateways) # "InvalidConfig"
        BY <2>6, <3>2 DEF Hurdle
      <4>2. b.extensionRef = Content(n).ext
        BY <2>4, <2>6, <4>1 DEF RefsRight
      <4>3. cexts'[Content(n).ext] = cexts[Content(n).ext]
        BY <2>1, <4>2 DEF Unheard
      <4>4. QED
        BY <2>5, <3>2, <4>3 DEF ExtFor
    <3>3. QED
      BY <3>1, <3>2
  <2>9. SameView(v, w)
    BY <2>6, <2>7, <2>8 DEF SameView
  <2>10. SameGateway(v, cgateways, cgateways')
    <3> SUFFICES ASSUME ~ConfigInvalid(v.content), v.ext # None
                 PROVE  cgateways[v.ext.gateway] = cgateways'[v.ext.gateway]
      BY DEF SameGateway
    <3>1. Hurdle(v, cgateways) \notin {"InvalidConfig", "NoExtension"}
      BY DEF Hurdle
    <3>2. b.gatewayRef = v.ext.gateway
      BY <2>4, <3>1 DEF RefsRight
    <3>3. QED
      BY <2>1, <3>2 DEF Unheard
  <2>11. v.port = w.port \/ cserver[n].service \in changed'
    <3>1. cserver[n].service \in Services \cup {"managed"}
      BY <2>1, <1>SpecTyped
    <3>2. \A spec : spec.service \in Services \cup {"managed"} =>
             BackendPort(spec)' = BackendPort(spec) \/ spec.service \in changed'
      BY <1>UnheardPort
    <3>3. QED
      BY <2>1, <2>6, <2>7, <3>1, <3>2 DEF BackendPort
  <2> HIDE DEF v, w
  <2>12. RefsRight(b, w, cgateways') /\ Hurdle(w, cgateways') = Hurdle(v, cgateways)
    BY <2>4, <2>9, <2>10, <1>HurdleAlone, SMTT(60)
  <2>13. CASE Hurdle(v, cgateways) = "none" /\ cserver[n].service \in changed
    <3>1. b.serviceRef = cserver[n].service
      BY <2>4, <2>6, <2>13 DEF RefsRight
    <3>2. cserver[n].service \in changed'
      BY <2>1, <2>13, <3>1 DEF Unheard
    <3>3. QED
      BY <2>12, <2>13, <3>2
  <2>14. CASE Fine(n, b, route[n], croute[n], reg[n], creg[n], v, cgateways)
    <3>1. CASE Hurdle(v, cgateways) = "none" /\ cserver[n].service \in changed'
      BY <2>12, <3>1
    <3>2. CASE ~(Hurdle(v, cgateways) = "none" /\ cserver[n].service \in changed')
      <4>1. Hurdle(v, cgateways) # "none" \/ v.port = w.port
        BY <2>11, <3>2
      <4>2. /\ \A r : RouteRight(b, r, v, cgateways) <=> RouteRight(b, r, w, cgateways')
            /\ \A x : RegRight(n, b, x, v, cgateways) <=> RegRight(n, b, x, w, cgateways')
            /\ \A r, x : StatusRight(b, r, x, v, cgateways) <=> StatusRight(b, r, x, w, cgateways')
        BY <2>9, <2>10, <4>1, <1>RightAlone
      <4>3. /\ RouteRight(b, route[n], v, cgateways) <=> RouteRight(b, route'[n], v, cgateways)
            /\ RegRight(n, b, reg[n], v, cgateways) <=> RegRight(n, b, reg'[n], v, cgateways)
        BY <2>1, <1>AlikeRight
      <4>4. Fine(n, b, route'[n], croute[n], reg'[n], creg[n], w, cgateways')
        BY <2>14, <4>2, <4>3 DEF Fine
      <4>5. QED
        BY <2>12, <4>4
    <3>3. QED
      BY <3>1, <3>2
  <2>15. QED
    BY <2>4, <2>13, <2>14
<1> SUFFICES ASSUME Typed, NEW n \in Names, NameInv(n), Unmoved(n), Unheard(n), SameWork(n)
             PROVE  NameInv(n)'
  OBVIOUS
<1>1. Ordered(n)'
  BY DEF NameInv, Ordered, Unmoved
<1>2. QED
  BY <1>1, <1>UnmovedInformed, <1>UnmovedSettled DEF NameInv

-----------------------------------------------------------------------------
(* Steps that the invariant's parts share.                                 *)

\* The spec of a binding changes in a new generation, which the cache lacks.
LEMMA EditEffect ==
    ASSUME ConvergenceInv, NEW n \in Names, EditBinding(n)
    PROVE  /\ UNCHANGED <<lastUid, route, reg, worldVars, cacheVars, changed, queueVars, workVars>>
           /\ \A m \in Names \ {n} : binding'[m] = binding[m]
           /\ Ordered(n)'
           /\ cbinding'[n].uid # binding'[n].uid \/ cbinding'[n].gen # binding'[n].gen
<1>1. PICK c \in ConfigMaps \cup {None} :
         binding' = [binding EXCEPT ![n].config = c, ![n].gen = @ + 1]
  BY DEF EditBinding
<1>2. /\ binding \in [Names -> BindingType] /\ binding[n] \in BindingType /\ binding[n].uid # 0
      /\ UNCHANGED <<lastUid, route, reg, worldVars, cacheVars, changed, queueVars, workVars>>
  BY DEF ConvergenceInv, Typed, ObjectsOK, EditBinding
<1>3. binding' = [binding EXCEPT ![n] = Edited(binding[n], c)]
  BY <1>1, <1>2 DEF Edited
<1>4. /\ Edited(binding[n], c).uid = binding[n].uid
      /\ Edited(binding[n], c).gen = binding[n].gen + 1
      /\ Edited(binding[n], c).provider = binding[n].provider
  BY <1>2, EditedTyped
<1>5. /\ binding'[n].uid = binding[n].uid /\ binding'[n].gen = binding[n].gen + 1
      /\ binding'[n].provider = binding[n].provider
      /\ \A m \in Names \ {n} : binding'[m] = binding[m]
  BY <1>2, <1>3, <1>4
<1>6. /\ Ordered(n) /\ UNCHANGED <<cbinding, lastUid>>
      /\ binding[n].gen \in Nat /\ cbinding[n].gen \in Nat
  BY <1>2 DEF ConvergenceInv, NameInv, cacheVars, Typed, ObjectsOK, BindingType
<1>7. Ordered(n)'
  BY <1>2, <1>5, <1>6, SMTT(60) DEF Ordered
<1>8. cbinding'[n].uid # binding'[n].uid \/ cbinding'[n].gen # binding'[n].gen
  BY <1>2, <1>5, <1>6, SMTT(60) DEF Ordered
<1>9. QED
  BY <1>2, <1>5, <1>7, <1>8

\* A binding that is gone needs no reconcile, and a new one is not in the cache.
LEMMA ReplaceEffect ==
    ASSUME ConvergenceInv, NEW n \in Names, DeleteBinding(n) \/ CreateBinding(n)
    PROVE  /\ UNCHANGED <<route, reg, worldVars, cacheVars, changed, queueVars, workVars>>
           /\ \A m \in Names \ {n} : binding'[m] = binding[m] /\ lastUid'[m] = lastUid[m]
           /\ Ordered(n)'
           /\ binding'[n].uid = 0 \/ cbinding'[n].uid # binding'[n].uid
<1>1. /\ binding \in [Names -> BindingType] /\ lastUid \in [Names -> Nat]
      /\ cbinding[n] \in BindingType /\ cbinding[n].uid \in Nat
      /\ UNCHANGED <<route, reg, worldVars, cacheVars, changed, queueVars, workVars>>
  BY DEF ConvergenceInv, Typed, ObjectsOK, BindingType, DeleteBinding, CreateBinding
<1>2. /\ \A m \in Names \ {n} : binding'[m] = binding[m] /\ lastUid'[m] = lastUid[m]
      /\ lastUid'[n] \in Nat /\ lastUid'[n] >= lastUid[n]
      /\ \/ binding'[n].uid = 0
         \/ binding'[n].uid = lastUid'[n] /\ lastUid'[n] > lastUid[n]
  <2>1. CASE DeleteBinding(n)
    <3>1. binding' = [binding EXCEPT ![n] = NoBinding] /\ lastUid' = lastUid
      BY <2>1 DEF DeleteBinding
    <3>2. binding'[n] = NoBinding /\ \A m \in Names \ {n} : binding'[m] = binding[m]
      BY <1>1, <3>1
    <3>3. QED
      BY <1>1, <3>1, <3>2, NothingTyped, SMTT(60)
  <2>2. CASE CreateBinding(n)
    <3>1. PICK p \in Providers, c \in ConfigMaps :
            binding' = [binding EXCEPT ![n] = NewBinding(lastUid'[n], p, c)]
      BY <2>2 DEF CreateBinding
    <3>2. lastUid' = [lastUid EXCEPT ![n] = @ + 1]
      BY <2>2 DEF CreateBinding
    <3>3. /\ lastUid'[n] \in Nat /\ lastUid'[n] > lastUid[n]
          /\ \A m \in Names \ {n} : lastUid'[m] = lastUid[m]
      BY <1>1, <3>2, SMTT(60)
    <3>4. NewBinding(lastUid'[n], p, c).uid = lastUid'[n]
      BY <3>3, CreatedTyped
    <3>5. /\ binding'[n].uid = lastUid'[n]
          /\ \A m \in Names \ {n} : binding'[m] = binding[m]
      BY <1>1, <3>1, <3>4
    <3>6. QED
      BY <1>1, <3>3, <3>5, SMTT(60)
  <2>3. QED
    BY <2>1, <2>2
<1>3. Ordered(n) /\ cbinding' = cbinding /\ lastUid[n] \in Nat
  BY <1>1 DEF ConvergenceInv, NameInv, cacheVars
<1>4. Ordered(n)'
  BY <1>1, <1>2, <1>3, SMTT(60) DEF Ordered
<1>5. binding'[n].uid = 0 \/ cbinding'[n].uid # binding'[n].uid
  BY <1>1, <1>2, <1>3, SMTT(60) DEF Ordered
<1>6. QED
  BY <1>1, <1>2, <1>4, <1>5

\* What a reconcile of n still knows when its next step begins.
LEMMA StillInformed ==
    ASSUME NEW n \in Names, NameInv(n), work.name = n, pc # "idle",
           Ours(binding[n]), ~Coming(n)
    PROVE  ReadConfig(n) /\ ReadExtension(n) /\ ReadGateway(n) /\ ReadService(n) /\ Wrote(n)
BY DEF NameInv, Informed, Busy

\* UpdateBindingStatus reports on the binding that the reconcile holds, has
\* nothing to report on it or fails.
LEMMA ReportCases ==
    ASSUME Typed, pc # "idle", NEW n \in Names, work.name = n, NEW reason \in Reasons,
           NEW url \in Url \cup {None}, NEW outcome, UpdateBindingStatus(reason, url, outcome)
    PROVE  /\ pc' = "idle" /\ UNCHANGED <<lastUid, route, reg, worldVars, cacheVars, changed>>
           /\ \A m \in Names \ {n} : binding'[m] = binding[m]
           /\ queued \subseteq queued' /\ binding'[n] \in BindingType
           /\ binding'[n].uid = binding[n].uid /\ binding'[n].gen = binding[n].gen
           /\ binding'[n].provider = binding[n].provider /\ binding'[n].config = binding[n].config
           /\ \A k \in AnnotationKeys : binding'[n][k] = binding[n][k]
           /\ \/ n \in queued'
              \/ /\ work.binding = binding[n] /\ binding'[n].reason = reason
                 /\ binding'[n].observed = binding'[n].gen /\ binding'[n].url = url
              \/ /\ work.binding # binding[n] /\ binding'[n] = binding[n]
                 /\ work.binding.reason = reason
<1> DEFINE held == work.binding
           reported == Reported(held, reason, url)
<1>1. /\ held \in BindingType /\ binding[n] \in BindingType /\ binding \in [Names -> BindingType]
  BY WorkTyped DEF Typed, ObjectsOK
<1>2. /\ reported \in BindingType
      /\ reported.uid = held.uid /\ reported.gen = held.gen
      /\ reported.provider = held.provider /\ reported.config = held.config
      /\ \A k \in AnnotationKeys : reported[k] = held[k]
      /\ reported.reason = reason /\ reported.observed = held.gen /\ reported.url = url
  <2>1. /\ reported \in BindingType
        /\ reported.uid = held.uid /\ reported.gen = held.gen
        /\ reported.provider = held.provider /\ reported.config = held.config
        /\ reported.extensionRef = held.extensionRef /\ reported.gatewayRef = held.gatewayRef
        /\ reported.serviceRef = held.serviceRef
        /\ reported.reason = reason /\ reported.observed = held.gen /\ reported.url = url
    BY <1>1, ReportTyped, SMTT(60)
  <2> HIDE DEF held, reported
  <2>2. QED
    BY <2>1 DEF AnnotationKeys
<1>3. /\ binding' = [binding EXCEPT ![n] = IF held = @ THEN reported ELSE @]
      /\ pc' = "idle" /\ queued \subseteq queued'
      /\ reported # held /\ held # binding[n] => n \in queued'
      /\ UNCHANGED <<lastUid, route, reg, worldVars, cacheVars, changed>>
  BY DEF UpdateBindingStatus, Reported, Finish, Enqueue
<1> HIDE DEF held, reported
<1>4. /\ \A m \in Names \ {n} : binding'[m] = binding[m]
      /\ binding'[n] = IF held = binding[n] THEN reported ELSE binding[n]
  BY <1>1, <1>3
<1>5. CASE held = binding[n]
  BY <1>1, <1>2, <1>3, <1>4, <1>5 DEF held
<1>6. CASE held # binding[n]
  BY <1>1, <1>2, <1>3, <1>4, <1>6 DEF held
<1>7. QED
  BY <1>5, <1>6

-----------------------------------------------------------------------------
(* Prefixes are told apart.                                                *)

\* The worker works on n only.
Alone(n) ==
    /\ pc = "idle" \/ work.name = n
    /\ pc' = "idle" \/ work'.name = n
    /\ UNCHANGED cacheVars
    /\ \A m \in Names \ {n} :
          binding'[m] = binding[m] /\ reg'[m] = reg[m] /\ (m \in queued => m \in queued')

\* Init: the provider has no registration yet.
LEMMA InitDue == ASSUME Init PROVE PrefixInv
<1>1. PICK w \in Worlds :
         creg = [n \in Names |-> IF "registration" \notin w.foreign THEN NoReg
                                 ELSE [NoReg EXCEPT !.owner = Foreign]]
  BY DEF Init
<1>2. NoReg.owner = 0 /\ [NoReg EXCEPT !.owner = Foreign].owner = -1
  BY DEF NoReg, Foreign
<1>3. \A n \in Names : ~(creg[n].owner > 0)
  BY <1>1, <1>2, SMTT(60)
<1>4. QED
  BY <1>3 DEF PrefixInv, Clash

\* Every step keeps it.
LEMMA NextDue == ASSUME ConvergenceInv, PrefixInv, [Next]_vars PROVE PrefixInv'
\* What makes a name due stays so.
<1>StillDue.
    ASSUME NEW m, Due(m), UNCHANGED <<binding[m], cbinding[m], creg[m], cserver[m]>>,
           reg'[m].owner = reg[m].owner, reg'[m].spec = reg[m].spec,
           m \in queued => m \in queued', SameWork(m)
    PROVE  Due(m)'
  BY <1>StillDue DEF Due, SameWork, Busy
\* A reconcile that has yet to come to its verdict.
<1>GoesOnDue.
    ASSUME NEW n, pc' \notin {"idle", "judge"}, work'.name = n
    PROVE  Due(n)'
  BY <1>GoesOnDue DEF Due, Busy
\* A step that changes no cached registration and that leaves every name due.
<1>AllDue.
    ASSUME PrefixInv, UNCHANGED creg, \A m \in Names : Due(m) => Due(m)'
    PROVE  PrefixInv'
  BY <1>AllDue DEF PrefixInv, Clash
\* One that may not leave n due, unless n shares its prefix.
<1>ButOneDue.
    ASSUME PrefixInv, UNCHANGED creg, NEW n \in Names,
           \A m \in Names \ {n} : Due(m) => Due(m)',
           \A m \in Names \ {n} : Clash(m, n) /\ Due(n) => Due(n)'
    PROVE  PrefixInv'
  <2> USE <1>ButOneDue
  <2> SUFFICES ASSUME NEW k \in Names, NEW m \in Names, k # m, Clash(k, m)'
               PROVE  Due(k)' \/ Due(m)'
    BY DEF PrefixInv
  <2>1. Clash(k, m) /\ Clash(m, k)
    BY DEF Clash
  <2>2. Due(k) \/ Due(m)
    BY <2>1 DEF PrefixInv
  <2>3. QED
    BY <2>1, <2>2
\* Then only n may cease to be due.
<1>AloneDue.
    ASSUME PrefixInv, NEW n \in Names, Alone(n),
           \A m \in Names \ {n} : Clash(m, n) /\ Due(n) => Due(n)'
    PROVE  PrefixInv'
  <2> USE <1>AloneDue
  <2>1. UNCHANGED <<cbinding, creg, cserver>>
    BY DEF Alone, cacheVars
  <2>2. ASSUME NEW m \in Names \ {n}, Due(m) PROVE Due(m)'
    <3>1. SameWork(m)
      BY DEF Alone, SameWork, Busy
    <3>2. QED
      BY <2>1, <2>2, <3>1, <1>StillDue DEF Alone
  <2>3. QED
    BY <2>1, <2>2, <1>ButOneDue
\* A binding that is edited, deleted or created is not in the cache yet.
<1>BindingDue.
    ASSUME ConvergenceInv, PrefixInv, NEW n \in Names,
           EditBinding(n) \/ DeleteBinding(n) \/ CreateBinding(n)
    PROVE  PrefixInv'
  <2> USE <1>BindingDue
  <2>0. /\ UNCHANGED <<reg, cacheVars, queueVars, workVars>>
        /\ \A m \in Names \ {n} : binding'[m] = binding[m]
        /\ \/ binding'[n].uid = 0
           \/ cbinding'[n].uid # binding'[n].uid \/ cbinding'[n].gen # binding'[n].gen
    BY EditEffect, ReplaceEffect
  <2>1. /\ UNCHANGED <<reg, cacheVars, queued, workVars>>
        /\ \A m \in Names \ {n} : binding'[m] = binding[m]
        /\ cbinding'[n] # binding'[n] \/ ~Ours(cbinding'[n])
    BY <2>0 DEF Ours, queueVars
  <2>2. UNCHANGED <<pc, work, creg, cbinding, cserver>>
    BY <2>1 DEF workVars, cacheVars
  <2>3. ASSUME NEW m \in Names \ {n}, Due(m) PROVE Due(m)'
    BY <2>1, <2>2, <2>3, <1>StillDue DEF SameWork
  <2>4. Due(n) => Due(n)'
    BY <2>1, <2>2 DEF Due, Busy
  <2>5. QED
    BY <2>2, <2>3, <2>4, <1>ButOneDue
\* A registration that is collected is still in the cache.
<1>OwnedDue.
    ASSUME ConvergenceInv, PrefixInv, NEW n \in Names,
           CollectGarbage(n) \/ RouteJudged(n) \/ RegistrationJudged(n)
    PROVE  PrefixInv'
  <2> USE <1>OwnedDue
  <2>1. UNCHANGED <<binding, cacheVars, queueVars, workVars>> /\ ObjectsOK
    BY DEF CollectGarbage, RouteJudged, RegistrationJudged, ConvergenceInv, Typed
  <2>2. UNCHANGED <<pc, work, binding, creg, cbinding, cserver, queued>>
    BY <2>1 DEF workVars, cacheVars, queueVars
  <2>3. ASSUME NEW m \in Names, Due(m), reg'[m].owner = reg[m].owner, reg'[m].spec = reg[m].spec
        PROVE  Due(m)'
    BY <2>2, <2>3, <1>StillDue DEF SameWork
  <2>4. CASE CollectGarbage(n)
    <3>1. /\ \A m \in Names \ {n} : reg'[m] = reg[m]
          /\ reg'[n] = reg[n] \/ reg'[n] = NoReg
      BY <2>1, <2>4, GarbageEffect
    <3>2. ASSUME NEW m \in Names \ {n}, Clash(m, n), Due(n) PROVE Due(n)'
      <4>1. CASE reg'[n] = reg[n]
        BY <2>3, <3>2, <4>1
      <4>2. CASE reg'[n] = NoReg
        <5>1. creg'[n].owner # reg'[n].owner
          <6>1. creg'[n].owner = creg[n].owner /\ creg[n].owner > 0
            BY <2>2, <3>2 DEF Clash
          <6>2. reg'[n].owner = 0
            BY <4>2, NothingTyped
          <6>3. QED
            BY <6>1, <6>2, SMTT(60)
        <5>2. QED
          BY <5>1 DEF Due
      <4>3. QED
        BY <3>1, <4>1, <4>2
    <3>3. QED
      BY <2>2, <2>3, <3>1, <3>2, <1>ButOneDue
  <2>5. CASE RouteJudged(n)
    BY <2>2, <2>3, <2>5, <1>AllDue DEF RouteJudged
  <2>6. CASE RegistrationJudged(n)
    <3>1. \A m \in Names : reg'[m].owner = reg[m].owner /\ reg'[m].spec = reg[m].spec
      BY <2>1, <2>6, RegistrationJudgedEffect
    <3>2. QED
      BY <2>2, <2>3, <3>1, <1>AllDue
  <2>7. QED
    BY <2>4, <2>5, <2>6
\* A binding whose event the informer delivers is queued, or not the provider's.
<1>SyncBindingDue.
    ASSUME ConvergenceInv, PrefixInv, NEW n \in Names, SyncBinding(n) PROVE PrefixInv'
  <2> USE <1>SyncBindingDue
  <2>1. /\ cbinding \in [Names -> BindingType]
        /\ cbinding' = [cbinding EXCEPT ![n] = binding[n]]
        /\ UNCHANGED <<objectVars, cserver, creg, workVars>>
        /\ queued \subseteq queued' /\ (Ours(binding[n]) => n \in queued')
    BY DEF ConvergenceInv, Typed, ObjectsOK, SyncBinding, Enqueue
  <2>2. /\ cbinding'[n] = binding[n] /\ \A m \in Names \ {n} : cbinding'[m] = cbinding[m]
        /\ UNCHANGED <<binding, reg, pc, work>>
    BY <2>1 DEF objectVars, workVars
  <2>3. ASSUME NEW m \in Names \ {n}, Due(m) PROVE Due(m)'
    BY <2>1, <2>2, <2>3, <1>StillDue DEF SameWork
  <2>4. Due(n) => Due(n)'
    <3>1. n \in queued' \/ ~Ours(cbinding'[n])
      BY <2>1, <2>2
    <3>2. QED
      BY <2>1, <2>2, <3>1 DEF Due, Busy
  <2>5. QED
    BY <2>1, <2>3, <2>4, <1>ButOneDue
\* A registration that the informer delivers has its owner reconciled.
<1>SyncOwnedDue. ASSUME ConvergenceInv, PrefixInv, SyncOwned PROVE PrefixInv'
  <2> USE <1>SyncOwnedDue
  <2>1. /\ creg \in [Names -> RegType]
        /\ UNCHANGED <<objectVars, cserver, cbinding, workVars>> /\ queued \subseteq queued'
    BY DEF ConvergenceInv, Typed, ObjectsOK, SyncOwned, Enqueue, queueVars
  <2>2. \A m \in Names : m \in queued' \/ creg'[m] = creg[m]
    BY <2>1 DEF SyncOwned, Enqueue
  <2>3. UNCHANGED <<binding, reg, pc, work>>
    BY <2>1 DEF objectVars, workVars
  <2>4. ASSUME NEW m \in Names, creg'[m] = creg[m], Due(m) PROVE Due(m)'
    BY <2>1, <2>3, <2>4, <1>StillDue DEF SameWork
  <2>5. \A m \in Names : m \in queued' => Due(m)'
    BY DEF Due
  <2>6. ASSUME NEW k \in Names, NEW m \in Names, k # m, Clash(k, m)' PROVE Due(k)' \/ Due(m)'
    <3>1. CASE k \in queued' \/ m \in queued'
      BY <2>5, <3>1
    <3>2. CASE creg'[k] = creg[k] /\ creg'[m] = creg[m]
      <4>1. Due(k) \/ Due(m)
        BY <2>6, <3>2 DEF Clash, PrefixInv
      <4>2. QED
        BY <2>4, <3>2, <4>1
    <3>3. QED
      BY <2>2, <3>1, <3>2
  <2>7. QED
    BY <2>6 DEF PrefixInv
\* An MCPServer that the informer delivers has its binding reconciled.
<1>SyncWorldDue. ASSUME ConvergenceInv, PrefixInv, SyncWorld PROVE PrefixInv'
  <2> USE <1>SyncWorldDue
  <2>1. /\ cserver \in [Names -> ServerSpecs \cup {None}]
        /\ UNCHANGED <<objectVars, cbinding, creg, workVars>> /\ queued \subseteq queued'
    BY DEF ConvergenceInv, Typed, WorldOK, SyncWorld, Enqueue
  <2>2. \A m \in Names : m \in queued' \/ ~Ours(cbinding[m]) \/ cserver'[m] = cserver[m]
    BY <2>1 DEF SyncWorld, Enqueue, OursIn
  <2>3. UNCHANGED <<binding, reg, pc, work>>
    BY <2>1 DEF objectVars, workVars
  <2>4. ASSUME NEW m \in Names, Due(m) PROVE Due(m)'
    BY <2>1, <2>2, <2>3, <2>4 DEF Due, Busy
  <2>5. QED
    BY <2>1, <2>4, <1>AllDue
\* A restart has the owners of all registrations reconciled.
<1>RestartDue. ASSUME PrefixInv, RestartOperator PROVE PrefixInv'
  <2> USE <1>RestartDue
  <2>1. /\ creg' = reg
        /\ \A m \in Names : reg[m].owner > 0 => m \in queued'
    BY DEF RestartOperator
  <2>2. QED
    BY <2>1 DEF PrefixInv, Clash, Due
\* What only adds to the workqueue.
<1>QuietlyDue.
    ASSUME PrefixInv, UNCHANGED <<objectVars, cacheVars, workVars>>, queued \subseteq queued'
    PROVE  PrefixInv'
  <2> USE <1>QuietlyDue
  <2>1. UNCHANGED <<binding, reg, pc, work, cbinding, creg, cserver>>
    BY DEF objectVars, workVars, cacheVars
  <2>2. ASSUME NEW m \in Names, Due(m) PROVE Due(m)'
    BY <2>1, <2>2, <1>StillDue DEF SameWork
  <2>3. QED
    BY <2>1, <2>2, <1>AllDue
\* Reconcile takes a name from the workqueue and works on it, or it has no
\* binding or no MCPServer to work on.
<1>FetchDue.
    ASSUME ConvergenceInv, PrefixInv, NEW n \in Names, Fetch(n) PROVE PrefixInv'
  <2> USE <1>FetchDue
  <2>1. /\ pc = "idle" /\ queued' = queued \ {n}
        /\ UNCHANGED <<objectVars, cacheVars>>
        /\ \/ (~Ours(cbinding[n]) \/ cserver[n] = None) /\ UNCHANGED <<pc, work>>
           \/ Fetched(n)
    BY FetchCases DEF ConvergenceInv
  <2>2. UNCHANGED <<binding, reg, cbinding, cserver>>
    BY <2>1 DEF objectVars, cacheVars
  <2>3. CASE (~Ours(cbinding[n]) \/ cserver[n] = None) /\ UNCHANGED <<pc, work>>
    <3>1. Alone(n)
      BY <2>1, <2>2, <2>3 DEF Alone
    <3>2. Due(n)'
      BY <2>1, <2>2, <2>3 DEF Due, Busy
    <3>3. QED
      BY <3>1, <3>2, <1>AloneDue
  <2>4. CASE Fetched(n)
    <3>1. pc' \notin {"idle", "judge"} /\ work'.name = n
      BY <2>4 DEF Fetched
    <3>2. Alone(n)
      BY <2>1, <2>2, <3>1 DEF Alone
    <3>3. QED
      BY <3>1, <3>2, <1>AloneDue, <1>GoesOnDue
  <2>5. QED
    BY <2>1, <2>3, <2>4
\* A reconcile that fails is repeated, and one that goes on is not at its end.
<1>WorkDue.
    ASSUME PrefixInv, NEW n \in Names, work.name = n,
           pc' = "idle" \/ work'.name = n, UNCHANGED cacheVars,
           \A m \in Names \ {n} : binding'[m] = binding[m] /\ reg'[m] = reg[m],
           queued \subseteq queued',
           n \in queued' \/ (pc' \notin {"idle", "judge"} /\ work'.name = n)
    PROVE  PrefixInv'
  <2> USE <1>WorkDue
  <2>1. Alone(n)
    BY DEF Alone
  <2>2. CASE n \in queued'
    <3>1. Due(n)'
      BY <2>2 DEF Due
    <3>2. QED
      BY <2>1, <3>1, <1>AloneDue
  <2>3. CASE pc' \notin {"idle", "judge"} /\ work'.name = n
    BY <2>1, <2>3, <1>AloneDue, <1>GoesOnDue
  <2>4. QED
    BY <2>2, <2>3
\* Annotations come before the verdict.
<1>AnnotateDue.
    ASSUME ConvergenceInv, PrefixInv, NEW n \in Names, work.name = n, pc # "idle",
           NEW held \in WorkType, held.name = n,
           NEW key \in AnnotationKeys, NEW value \in AnnotationValues(key),
           NEW next \in Steps \ {"judge"}, EnsureAnnotation(held, key, value, next),
           UNCHANGED <<lastUid, route, reg, worldVars, cacheVars, changed>>
    PROVE  PrefixInv'
  <2> USE <1>AnnotateDue
  <2>1. /\ ObjectsOK /\ binding \in [Names -> BindingType]
        /\ UNCHANGED <<cbinding, croute, creg>> /\ next \notin {"idle", "judge"}
    BY DEF ConvergenceInv, Typed, ObjectsOK, cacheVars, Steps
  <2>2. CASE pc' = next /\ work' = held /\ UNCHANGED <<binding, queued, timer>>
    BY <2>1, <2>2, <1>WorkDue
  <2>3. CASE pc' = "idle" /\ work.name \in queued' /\ UNCHANGED binding /\ queued \subseteq queued'
    BY <2>1, <2>3, <1>WorkDue
  <2>4. CASE pc' = next /\ Annotated(held, key, value) /\ UNCHANGED <<queued, timer>>
    <3>1. /\ \A m \in Names \ {n} : binding'[m] = binding[m]
          /\ work'.name = n
      BY <2>1, <2>4, AnnotatedEffect
    <3>2. QED
      BY <2>1, <2>4, <3>1, <1>WorkDue
  <2>5. QED
    BY <2>1, <2>2, <2>3, <2>4, AnnotateCases
\* setNotRegistered begins.
<1>GiveUpDue.
    ASSUME ConvergenceInv, PrefixInv, pc # "idle", NEW why \in Unregistrable, GiveUp(why),
           UNCHANGED <<binding, reg, cacheVars>>
    PROVE  PrefixInv'
  <2> USE <1>GiveUpDue
  <2>0. PICK n \in Names : work.name = n
    BY WorkTyped DEF ConvergenceInv
  <2>1. /\ pc' = "deleteRoute" /\ UNCHANGED queued /\ work' = [work EXCEPT !.why = why]
        /\ work \in WorkType
    BY WorkTyped DEF GiveUp, Goto, queueVars, ConvergenceInv
  <2>2. work'.name = n
    BY <2>0, <2>1, GivenUpTyped
  <2>3. pc' \notin {"idle", "judge"}
    BY <2>1
  <2>4. QED
    BY <2>0, <2>1, <2>2, <2>3, <1>WorkDue
\* The three steps that annotate.
<1>StampsDue.
    ASSUME ConvergenceInv, PrefixInv, StampExtension \/ StampGateway \/ Record PROVE PrefixInv'
  <2> USE <1>StampsDue
  <2>0. PICK n \in Names : work.name = n
    BY WorkTyped DEF ConvergenceInv, StampExtension, StampGateway, Record
  <2>1. /\ pc # "idle" /\ Typed
        /\ UNCHANGED <<lastUid, route, reg, worldVars, cacheVars, changed>>
    BY DEF ConvergenceInv, StampExtension, StampGateway, Record
  <2>2. /\ work \in WorkType /\ work.content \in Contents \cup {None}
        /\ work.spec.service \in Services \cup {"managed"}
    BY <2>1, WorkTyped
  <2>3. {"gatewayRef", "resolve", "route"} \subseteq Steps \ {"judge"}
    BY DEF Steps
  <2>4. pc \in {"extensionRef", "gatewayRef"} => ~ConfigInvalid(work.content)
    BY <2>1 DEF Typed, Known, Giving
  <2>5. CASE StampExtension
    <3>1. pc = "extensionRef"
      BY <2>5 DEF StampExtension
    <3>2. PICK e \in AnnotationValues("extensionRef") : work.content.ext = e
      BY <2>2, <2>4, <3>1, ContentTyped, ValuesTyped
    <3>3. PICK held \in WorkType : work = held
      BY <2>2
    <3>4. EnsureAnnotation(held, "extensionRef", e, "gatewayRef")
      BY <2>5, <3>2, <3>3 DEF StampExtension
    <3>5. QED
      BY <2>0, <2>1, <2>3, <3>3, <3>4, <1>AnnotateDue, ValuesTyped
  <2>6. CASE StampGateway
    <3>1. pc = "gatewayRef"
      BY <2>6 DEF StampGateway
    <3>2. PICK ext \in ExtStates \cup {None} : cexts[work.content.ext] = ext
      BY <2>1, <2>2, <2>4, <3>1, ContentTyped DEF Typed, WorldOK
    <3>3. CASE ext = None
      <4>1. GiveUp("NoExtension") /\ UNCHANGED <<binding, reg, cacheVars>>
        BY <2>1, <2>6, <3>2, <3>3 DEF StampGateway
      <4>2. QED
        BY <2>1, <4>1, <1>GiveUpDue DEF Unregistrable
    <3>4. CASE ext # None
      <4>1. PICK g \in AnnotationValues("gatewayRef") : ext.gateway = g
        BY <3>4, ExtTyped, ValuesTyped
      <4>2. PICK held \in WorkType : held = [work EXCEPT !.ext = ext] /\ held.name = work.name
        BY <2>2, <3>4, WithExtTyped
      <4>3. EnsureAnnotation(held, "gatewayRef", g, "resolve")
        BY <2>6, <3>2, <3>4, <4>1, <4>2 DEF StampGateway
      <4>4. QED
        BY <2>0, <2>1, <2>3, <4>2, <4>3, <1>AnnotateDue, ValuesTyped
    <3>5. QED
      BY <3>3, <3>4
  <2>7. CASE Record
    <3>1. PICK s \in AnnotationValues("serviceRef") : work.spec.service = s
      BY <2>2, ValuesTyped
    <3>2. PICK held \in WorkType : work = held
      BY <2>2
    <3>3. EnsureAnnotation(held, "serviceRef", s, "route")
      BY <2>7, <3>1, <3>2 DEF Record
    <3>4. QED
      BY <2>0, <2>1, <2>3, <3>2, <3>3, <1>AnnotateDue, ValuesTyped
  <2>8. QED
    BY <2>5, <2>6, <2>7
\* A binding that is reported on without a comparison of its prefix will be
\* compared before it is reported on as registrable.
<1>ReportDue.
    ASSUME ConvergenceInv, PrefixInv, pc # "idle", NEW reason \in Reasons \ Compared,
           NEW outcome, UpdateBindingStatus(reason, None, outcome)
    PROVE  PrefixInv'
  <2> USE <1>ReportDue
  <2>0. PICK n \in Names : work.name = n
    BY WorkTyped DEF ConvergenceInv
  <2>1. /\ pc' = "idle" /\ UNCHANGED <<reg, cacheVars>>
        /\ \A m \in Names \ {n} : binding'[m] = binding[m]
        /\ queued \subseteq queued'
        /\ \/ n \in queued' \/ binding'[n].reason = reason
           \/ work.binding # binding[n] /\ binding'[n] = binding[n]
    BY <2>0, ReportCases DEF ConvergenceInv
  <2>2. Alone(n)
    BY <2>0, <2>1 DEF Alone
  <2>3. UNCHANGED cbinding
    BY <2>1 DEF cacheVars
  <2>4. Due(n)'
    <3>1. ~Busy(n)'
      BY <2>1 DEF Busy
    <3>2. CASE n \in queued' \/ binding'[n].reason = reason
      BY <3>1, <3>2 DEF Due
    <3>3. CASE work.binding # binding[n] /\ binding'[n] = binding[n] /\ cbinding[n] = binding[n]
      <4>1. CASE Ours(binding[n]) /\ ~Coming(n)
        <5>1. work.binding \in {binding[n], cbinding[n]}
          BY <2>0, <4>1, StillInformed DEF ConvergenceInv, ReadConfig
        <5>2. QED
          BY <3>3, <5>1
      <4>2. CASE ~Ours(binding[n])
        BY <2>3, <3>1, <3>3, <4>2 DEF Due
      <4>3. CASE Coming(n)
        BY <2>1, <3>1, <3>3, <4>3 DEF Coming, Due
      <4>4. QED
        BY <4>1, <4>2, <4>3
    <3>4. CASE binding'[n] = binding[n] /\ cbinding[n] # binding[n]
      BY <2>3, <3>1, <3>4 DEF Due
    <3>5. QED
      BY <2>1, <3>2, <3>3, <3>4
  <2>5. QED
    BY <2>2, <2>4, <1>AloneDue
\* A listener is found, or setNotRegistered begins, or the extension is not ready.
<1>ResolveDue. ASSUME ConvergenceInv, PrefixInv, Resolve PROVE PrefixInv'
  <2> USE <1>ResolveDue
  <2>0. PICK n \in Names : work.name = n
    BY WorkTyped DEF ConvergenceInv, Resolve
  <2>1. /\ pc = "resolve"
        /\ \/ UpdateBindingStatus("ExtensionNotReady", None, "later")
           \/ /\ UNCHANGED <<objectVars, cacheVars>>
              /\ GiveUp("NoListener") \/ Resolved
    BY ResolveCases DEF ConvergenceInv
  <2>2. CASE UpdateBindingStatus("ExtensionNotReady", None, "later")
    <3>1. "ExtensionNotReady" \in Reasons \ Compared /\ pc # "idle"
      BY <2>1 DEF Reasons, Compared
    <3>2. QED
      BY <2>2, <3>1, <1>ReportDue
  <2>3. CASE UNCHANGED <<objectVars, cacheVars>> /\ GiveUp("NoListener")
    BY <2>1, <2>3, <1>GiveUpDue DEF objectVars, Unregistrable
  <2>4. CASE UNCHANGED <<objectVars, cacheVars>> /\ Resolved
    <3>1. pc' \notin {"idle", "judge"} /\ work'.name = n /\ UNCHANGED <<binding, reg, queued>>
      BY <2>0, <2>4 DEF Resolved, objectVars
    <3>2. QED
      BY <2>0, <2>4, <3>1, <1>WorkDue
  <2>5. QED
    BY <2>1, <2>2, <2>3, <2>4
\* A reconcile fails, or goes on with the registration.
<1>RouteDue. ASSUME ConvergenceInv, PrefixInv, ReconcileHTTPRoute PROVE PrefixInv'
  <2> USE <1>RouteDue
  <2>0. PICK n \in Names : work.name = n
    BY WorkTyped DEF ConvergenceInv, ReconcileHTTPRoute
  <2>1. /\ UNCHANGED <<binding, reg, cacheVars>>
        /\ \/ pc' = "idle" /\ queued' = queued \cup {n}
           \/ pc' = "registration" /\ UNCHANGED <<work, queued>>
    BY <2>0, RouteCases DEF ConvergenceInv, RouteDone
  <2>2. queued \subseteq queued' /\ (n \in queued' \/ pc' \notin {"idle", "judge"})
    BY <2>1
  <2>3. QED
    BY <2>0, <2>1, <2>2, <1>WorkDue
\* A prefix is taken, or the registration that shares it is written anew.
<1>RegistrationDue. ASSUME ConvergenceInv, PrefixInv, ReconcileRegistration PROVE PrefixInv'
  <2> USE <1>RegistrationDue
  <2>0. PICK n \in Names : work.name = n
    BY WorkTyped DEF ConvergenceInv, ReconcileRegistration
  <2>1. /\ pc = "registration" /\ UNCHANGED <<binding, cacheVars>> /\ Typed
        /\ \/ pc' = "idle" /\ UNCHANGED reg /\ queued' = queued \cup {n}
           \/ GiveUp("PrefixConflict") /\ UNCHANGED reg
           \/ RegistrationDone(n)
    BY <2>0, RegistrationCases DEF ConvergenceInv
  <2>2. CASE pc' = "idle" /\ UNCHANGED reg /\ queued' = queued \cup {n}
    <3>1. n \in queued' /\ queued \subseteq queued'
      BY <2>2
    <3>2. QED
      BY <2>0, <2>1, <2>2, <3>1, <1>WorkDue
  <2>3. CASE GiveUp("PrefixConflict") /\ UNCHANGED reg
    BY <2>1, <2>3, <1>GiveUpDue DEF Unregistrable
  <2>4. CASE RegistrationDone(n)
    <3>1. /\ \A m \in Names \ {n} : reg'[m] = reg[m]
          /\ RegFor(creg[n]) \/ RegFor(reg'[n])
      BY <2>1, <2>4, RegistrationDoneEffect DEF Typed
    <3>2. /\ UNCHANGED <<work, queued, creg>> /\ ~PrefixTaken(n, PrefixFor(n, work.content))
      BY <2>1, <2>4 DEF RegistrationDone, cacheVars
    <3>3. Alone(n)
      BY <2>0, <2>1, <3>1, <3>2 DEF Alone
    <3>4. ASSUME NEW m \in Names \ {n}, Clash(m, n) PROVE Due(n)'
      <4> DEFINE desired == RegistrationOf(n, work)
      <4>1. desired.prefix = PrefixFor(n, work.content)
        BY DEF RegistrationOf
      <4> HIDE DEF desired
      <4>2. creg[m].spec.prefix # desired.prefix
        BY <3>2, <3>4, <4>1 DEF Clash, PrefixTaken
      <4>3. creg[n].spec # desired
        BY <3>4, <4>2 DEF Clash
      <4>4. reg'[n].spec = desired
        BY <2>0, <3>1, <4>3 DEF RegFor, desired
      <4>5. QED
        BY <3>2, <4>3, <4>4 DEF Due
    <3>5. QED
      BY <3>3, <3>4, <1>AloneDue
  <2>5. QED
    BY <2>1, <2>2, <2>3, <2>4
\* The clean-up goes on.
<1>DeletedDue.
    ASSUME ConvergenceInv, PrefixInv, DeleteStaleRoute \/ DeleteStaleRegistration PROVE PrefixInv'
  <2> USE <1>DeletedDue
  <2>0. PICK n \in Names : work.name = n
    BY WorkTyped DEF ConvergenceInv, DeleteStaleRoute, DeleteStaleRegistration
  <2>1. /\ pc' \notin {"idle", "judge"} /\ UNCHANGED <<binding, cacheVars, work, queued>>
        /\ \A m \in Names \ {n} : reg'[m] = reg[m]
    BY <2>0, DeletedEffect DEF ConvergenceInv
  <2>2. QED
    BY <2>0, <2>1, <1>WorkDue
\* A reconcile ends without a comparison of the prefix.
<1>UnregisterDue. ASSUME ConvergenceInv, PrefixInv, Unregister PROVE PrefixInv'
  <2> USE <1>UnregisterDue
  <2>1. pc = "unregister" /\ Typed
    BY DEF ConvergenceInv, Unregister
  <2>2. PICK why \in Unregistrable : work.why = why
    BY <2>1 DEF Typed, Known, Giving, WorkType
  <2>3. why \in Reasons \ Compared /\ pc # "idle"
    BY <2>1 DEF Reasons, Compared, Unregistrable
  <2>4. PICK outcome : UpdateBindingStatus(why, None, outcome)
    BY <2>2 DEF Unregister
  <2>5. QED
    BY <2>3, <2>4, <1>ReportDue
\* A verdict does not make up for a registration that is not in the cache yet.
<1>JudgeDue. ASSUME ConvergenceInv, PrefixInv, Judge PROVE PrefixInv'
  <2> USE <1>JudgeDue
  <2>0. PICK n \in Names : work.name = n
    BY WorkTyped DEF ConvergenceInv, Judge
  <2>1. /\ pc = "judge" /\ pc' = "idle" /\ UNCHANGED <<reg, cacheVars>>
        /\ queued \subseteq queued'
        /\ \A m \in Names \ {n} : binding'[m] = binding[m]
    <3>1. /\ pc = "judge" /\ binding \in [Names -> BindingType]
          /\ \/ /\ pc' = "idle" /\ queued' = queued \cup {n}
                /\ UNCHANGED <<objectVars, cacheVars>>
             \/ \E reason, url, outcome : UpdateBindingStatus(reason, url, outcome)
      BY <2>0, JudgeCases DEF ConvergenceInv, Typed, ObjectsOK
    <3>2. QED
      BY <2>0, <3>1 DEF objectVars, UpdateBindingStatus, Finish, Enqueue
  <2>2. Alone(n)
    BY <2>0, <2>1 DEF Alone
  <2>3. UNCHANGED creg
    BY <2>1 DEF cacheVars
  <2>4. Due(n) => Due(n)'
    <3>1. Busy(n)
      BY <2>0, <2>1 DEF Busy
    <3>2. QED
      BY <2>1, <2>3, <3>1 DEF Due
  <2>5. QED
    BY <2>2, <2>4, <1>AloneDue
\* A call that fails has the reconcile repeated.
<1>CallFailsDue. ASSUME ConvergenceInv, PrefixInv, CallFails PROVE PrefixInv'
  <2> USE <1>CallFailsDue
  <2>0. PICK n \in Names : work.name = n
    BY WorkTyped DEF ConvergenceInv, CallFails
  <2>1. pc' = "idle" /\ queued' = queued \cup {n} /\ UNCHANGED <<binding, reg, cacheVars>>
    BY <2>0 DEF CallFails, Finish, Enqueue, objectVars
  <2>2. n \in queued' /\ queued \subseteq queued'
    BY <2>1
  <2>3. QED
    BY <2>0, <2>1, <2>2, <1>WorkDue
<1>1. CASE UNCHANGED vars
  BY <1>1, <1>QuietlyDue DEF vars, queueVars
<1>2. CASE Environment
  <2>1. CASE WorldChanges
    BY <2>1, <1>QuietlyDue DEF WorldChanges, queueVars
  <2>2. QED
    BY <1>2, <2>1, <1>BindingDue, <1>OwnedDue DEF Environment
<1>3. CASE MetadataEvent \/ TimerFires
  BY <1>3, <1>QuietlyDue DEF MetadataEvent, TimerFires, Enqueue
<1>4. CASE Informers
  BY <1>3, <1>4, <1>SyncBindingDue, <1>SyncOwnedDue, <1>SyncWorldDue DEF Informers
<1>5. CASE Worker
  BY <1>5, <1>FetchDue, <1>StampsDue, <1>ResolveDue, <1>RouteDue, <1>RegistrationDue, <1>JudgeDue, <1>DeletedDue,
     <1>UnregisterDue, Zenon DEF Worker
<1>6. CASE CallFails \/ RestartOperator
  BY <1>6, <1>CallFailsDue, <1>RestartDue
<1>7. QED
  BY <1>1, <1>2, <1>3, <1>4, <1>5, <1>6 DEF Next

=============================================================================
