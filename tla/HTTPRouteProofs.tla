-------------------------- MODULE HTTPRouteProofs --------------------------
(***************************************************************************)
(* The httproute provider implements the contract of GatewayBinding and    *)
(* loses no update, for every set of Gateways, ConfigMaps, Services and    *)
(* specs and every bound.                                                  *)
(***************************************************************************)
EXTENDS HTTPRouteProvider, TLAPS

\* A leaf is left to Zenon unless it names another prover.
USE ZenonT(60)

-----------------------------------------------------------------------------
(* The inductive invariant.                                                *)

BindingType ==
    [uid : Nat, gen : Nat, provider : {"httproute", "other"},
     config : ConfigMaps \cup {None},
     gatewayRef : Gateways \cup {None}, serviceRef : Services \cup {"managed", None},
     reason : Reasons, observed : Nat, url : Url \cup {None}]

GatewayStatus == [address : Hosts \cup {None}, scheme : Schemes]

WorkType ==
    [binding : BindingType, spec : ServerSpecs \cup {None},
     content : Contents \cup {None}, port : Ports \cup {"managed", None}]

\* Every copy of a binding, of a ConfigMap and of a spec has its type.
CopiesOK ==
    /\ server \in ServerSpecs \cup {None} /\ cserver \in ServerSpecs \cup {None}
    /\ binding \in BindingType /\ cbinding \in BindingType
    /\ lastUid \in Nat
    /\ config \in [ConfigMaps -> Contents \cup {None}]
    /\ services \in [Services -> Ports \cup {None}]
    /\ gateways \in [Gateways -> GatewayStatus] /\ cgateways \in [Gateways -> GatewayStatus]
    /\ work \in WorkType

\* What a reconcile knows at each of its steps: a binding that existed, a spec,
\* a ConfigMap that names a Gateway and, once it judges, a host name.
Known ==
    /\ pc # "idle" => work.binding.uid # 0 /\ work.spec # None
    /\ pc \in {"stamp", "backend", "record", "apply", "judge"} =>
          work.content # None /\ work.content.gateway # None
    /\ pc = "judge" => work.content.routeHost # Malformed

ProviderInv == CopiesOK /\ Known

-----------------------------------------------------------------------------
(* The reconcile.                                                          *)

\* A reconcile that ends knows nothing.
LEMMA NoWorkType == NoBinding \in BindingType /\ NoWork \in WorkType
BY ProviderAssumption DEF NoBinding, BindingType, NoWork, WorkType, Reasons

\* The copy that EnsureBindingAnnotations reads back is a binding.
LEMMA AnnotationType ==
    ASSUME NEW b \in BindingType, NEW g \in Gateways \cup {None},
           NEW s \in Services \cup {"managed", None}
    PROVE  /\ [b EXCEPT !["gatewayRef"] = g] \in BindingType
           /\ [b EXCEPT !["serviceRef"] = s] \in BindingType
BY DEF BindingType

\* The binding with another configRef.
Edited(b, c) == [b EXCEPT !.config = c, !.gen = @ + 1]

\* Its generation is the next one and its report the same.
LEMMA EditedType ==
    ASSUME NEW b \in BindingType, NEW c \in ConfigMaps \cup {None}
    PROVE  /\ Edited(b, c) \in BindingType
           /\ Edited(b, c).uid = b.uid /\ Edited(b, c).gen = b.gen + 1
           /\ Edited(b, c).reason = b.reason /\ Edited(b, c).observed = b.observed
           /\ Edited(b, c).url = b.url
<1>1. b.gen \in Nat /\ b.gen + 1 \in Nat
  BY SMTT(60) DEF BindingType
<1>2. Edited(b, c) = [b EXCEPT !.config = c, !.gen = b.gen + 1]
  BY DEF Edited, BindingType
<1> DEFINE n == b.gen + 1
<1> HIDE DEF n
<1>3. n \in Nat /\ Edited(b, c) = [b EXCEPT !.config = c, !.gen = n]
  BY <1>1, <1>2 DEF n
<1>4. /\ Edited(b, c) \in BindingType
      /\ Edited(b, c).uid = b.uid /\ Edited(b, c).gen = n
      /\ Edited(b, c).reason = b.reason /\ Edited(b, c).observed = b.observed
      /\ Edited(b, c).url = b.url
  BY <1>3 DEF BindingType
<1>5. QED
  BY <1>4 DEF n

\* A new binding is a binding.
LEMMA CreatedType ==
    ASSUME NEW u \in Nat, NEW p \in {"httproute", "other"}, NEW c \in ConfigMaps \cup {None}
    PROVE  NewBinding(u, p, c) \in BindingType
<1>1. 0 \in Nat /\ 1 \in Nat
  OBVIOUS
<1>2. QED
  BY <1>1 DEF NewBinding, NoBinding, BindingType, Reasons

\* The binding with the report that UpdateBindingStatus makes.
Reported(b, r, u) == [b EXCEPT !.reason = r, !.observed = b.gen, !.url = u]

\* A report is a binding whose condition and URL alone differ.
LEMMA ReportType ==
    ASSUME NEW b \in BindingType, NEW r \in Reasons, NEW u \in Url \cup {None}
    PROVE  /\ Reported(b, r, u) \in BindingType
           /\ Reported(b, r, u).uid = b.uid /\ Reported(b, r, u).gen = b.gen
           /\ Reported(b, r, u).reason = r /\ Reported(b, r, u).observed = b.gen
           /\ Reported(b, r, u).url = u
BY DEF BindingType, Reported

\* A ConfigMap that names a Gateway and whose route host name is well formed
\* gives a URL as soon as there is a public host.
LEMMA UrlType ==
    ASSUME NEW content \in Contents, NEW spec \in ServerSpecs,
           NEW gws \in [Gateways -> GatewayStatus],
           content.gateway # None, content.routeHost # Malformed,
           PublicHost(content, gws) # None
    PROVE  PublicUrl(content, spec, gws) \in Url
<1>1. /\ content.gateway \in Gateways
      /\ content.routeHost \in Hosts \cup {None}
      /\ content.publicHost \in Hosts \cup {None}
  BY ProviderAssumption
<1>2. gws[content.gateway].address \in Hosts \cup {None} /\ gws[content.gateway].scheme \in Schemes
  BY <1>1 DEF GatewayStatus
<1>3. PublicHost(content, gws) \in Hosts
  BY <1>1, <1>2 DEF PublicHost
<1>4. spec.path \in {s.path : s \in ServerSpecs}
  OBVIOUS
<1>5. QED
  BY <1>2, <1>3, <1>4 DEF PublicUrl, Url
-----------------------------------------------------------------------------
(* Steps that leave what the contract is about alone.                      *)

\* The binding is untouched, or only an annotation of it changes.
LEMMA SameReport ==
    ASSUME UNCHANGED <<binding.uid, binding.gen, binding.reason, binding.observed, binding.url>>
    PROVE  [Binding!Step]_Binding!bindingVars
BY DEF Binding!bindingVars

\* A reconcile that ends, whatever its outcome.
LEMMA FinishStep ==
    ASSUME NEW outcome, Finish(outcome), CopiesOK,
           UNCHANGED <<apiVars, cacheVars>>
    PROVE  CopiesOK' /\ Known'
BY NoWorkType DEF Finish, CopiesOK, Known, apiVars, cacheVars

\* UpdateBindingStatus: a report on the copy held goes through only when that
\* copy is the binding, so its generation is the one the report is about.
LEMMA ReportStep ==
    ASSUME NEW reason \in Reasons, NEW url, NEW outcome,
           UpdateBindingStatus(reason, url, outcome),
           url \in (IF reason = "Registered" THEN Url ELSE {None}),
           CopiesOK, work.binding.uid # 0
    PROVE  CopiesOK' /\ Known' /\ [Binding!Step]_Binding!bindingVars
<1> DEFINE held == work.binding
           reported == Reported(held, reason, url)
<1>1. held \in BindingType /\ url \in Url \cup {None}
  BY DEF CopiesOK, WorkType
<1>2. /\ reported \in BindingType
      /\ reported.uid = held.uid /\ reported.gen = held.gen
      /\ reported.reason = reason /\ reported.observed = held.gen /\ reported.url = url
  BY <1>1, ReportType
<1>3. /\ binding' = IF held = binding THEN reported ELSE binding
      /\ pc' = "idle" /\ work' = NoWork
      /\ UNCHANGED <<server, lastUid, config, services, gateways, cacheVars>>
  BY DEF UpdateBindingStatus, Reported, Finish
<1> HIDE DEF held, reported
<1>4. binding' \in BindingType
  BY <1>2, <1>3 DEF CopiesOK
<1>5. CopiesOK' /\ Known'
  BY <1>3, <1>4, NoWorkType DEF CopiesOK, Known, cacheVars
<1>6. [Binding!Step]_Binding!bindingVars
  <2>1. CASE held = binding /\ reason = "Registered"
    <3>1. /\ binding.uid # 0 /\ binding'.uid = binding.uid /\ binding'.gen = binding.gen
          /\ binding'.reason = "Registered" /\ binding'.observed = binding.gen
          /\ binding'.url \in Url
      BY <1>2, <1>3, <2>1 DEF held
    <3>2. Binding!Register
      BY <3>1 DEF Binding!Register
    <3>3. QED
      BY <3>2 DEF Binding!Step
  <2>2. CASE held = binding /\ reason # "Registered"
    <3>1. /\ binding.uid # 0 /\ binding'.uid = binding.uid /\ binding'.gen = binding.gen
          /\ binding'.reason # "Registered" /\ binding'.url = None
      BY <1>2, <1>3, <2>2 DEF held
    <3>2. Binding!Unregister
      BY <3>1 DEF Binding!Unregister
    <3>3. QED
      BY <3>2 DEF Binding!Step
  <2>3. CASE held # binding
    BY <1>3, <2>3, SameReport
  <2>4. QED
    BY <2>1, <2>2, <2>3
<1>7. QED
  BY <1>5, <1>6
-----------------------------------------------------------------------------
(* The environment.                                                        *)

\* Kept is what every step has to show.
Kept == ProviderInv' /\ [Binding!Step]_Binding!bindingVars

\* The MCPServer controller's three writes are the contract's.
LEMMA EditStep == ProviderInv /\ EditBinding => Kept
<1> SUFFICES ASSUME ProviderInv, EditBinding PROVE Kept
  OBVIOUS
<1>1. PICK c \in ConfigMaps \cup {None} :
         binding' = Edited(binding, c)
  BY DEF EditBinding, Edited
<1>2. binding \in BindingType /\ binding.uid # 0
  BY DEF ProviderInv, CopiesOK, EditBinding
<1>3. /\ binding' \in BindingType
      /\ binding'.uid = binding.uid /\ binding'.gen = binding.gen + 1
      /\ binding'.reason = binding.reason /\ binding'.observed = binding.observed
      /\ binding'.url = binding.url
  BY <1>1, <1>2, EditedType
<1>4. ProviderInv'
  BY <1>3 DEF EditBinding, ProviderInv, CopiesOK, Known, cacheVars
<1>5. Binding!Edit
  BY <1>2, <1>3 DEF Binding!Edit
<1>6. QED
  BY <1>4, <1>5 DEF Kept, Binding!Step

\* A binding that is deleted takes its report with it.
LEMMA DeleteStep == ProviderInv /\ DeleteBinding => Kept
<1> SUFFICES ASSUME ProviderInv, DeleteBinding PROVE Kept
  OBVIOUS
<1>1. binding.uid # 0 /\ binding' = NoBinding
  BY DEF DeleteBinding
<1>2. ProviderInv'
  BY <1>1, NoWorkType DEF DeleteBinding, ProviderInv, CopiesOK, Known, cacheVars
<1>3. Binding!Delete
  BY <1>1 DEF Binding!Delete, NoBinding
<1>4. QED
  BY <1>2, <1>3 DEF Kept, Binding!Step

\* A binding that is created has a uid of its own and no report.
LEMMA CreateStep == ProviderInv /\ CreateBinding => Kept
<1> SUFFICES ASSUME ProviderInv, CreateBinding PROVE Kept
  OBVIOUS
<1>1. PICK p \in {"httproute", "other"} : \E c \in ConfigMaps \cup {None} :
         binding' = NewBinding(lastUid + 1, p, c)
  BY DEF CreateBinding
<1>2. PICK c \in ConfigMaps \cup {None} : binding' = NewBinding(lastUid + 1, p, c)
  BY <1>1
<1>3. binding.uid = 0 /\ lastUid \in Nat /\ lastUid' = lastUid + 1
  BY DEF CreateBinding, ProviderInv, CopiesOK
<1>4. /\ binding'.uid = lastUid + 1 /\ binding'.gen = 1
      /\ binding'.reason = "none" /\ binding'.url = None
  BY <1>2 DEF NewBinding, NoBinding
<1>5. binding' \in BindingType
  <2>1. lastUid + 1 \in Nat
    BY <1>3, SMTT(60)
  <2>2. QED
    BY <1>2, <2>1, CreatedType
<1>6. ProviderInv'
  BY <1>3, <1>5, SMTT(60) DEF CreateBinding, ProviderInv, CopiesOK, Known, cacheVars
<1>7. Binding!Create
  BY <1>3, <1>4, SMTT(60) DEF Binding!Create
<1>8. QED
  BY <1>6, <1>7 DEF Kept, Binding!Step

\* Everybody else in the cluster leaves the binding alone.
LEMMA ClusterStep ==
    ProviderInv /\ (\/ ServerChanges \/ CollectGarbage \/ ConfigMapChanges \/ ServiceChanges
                    \/ GatewayChanges \/ RouteAccepted \/ RouteRejected) => Kept
<1> SUFFICES ASSUME ProviderInv,
                    \/ ServerChanges \/ CollectGarbage \/ ConfigMapChanges \/ ServiceChanges
                    \/ GatewayChanges \/ RouteAccepted \/ RouteRejected
             PROVE  Kept
  OBVIOUS
<1>1. UNCHANGED <<binding, cserver, cbinding, cgateways, lastUid, work, pc>>
  BY DEF ServerChanges, CollectGarbage, ConfigMapChanges, ServiceChanges, GatewayChanges,
         RouteAccepted, RouteRejected, cacheVars
<1>2. server' \in ServerSpecs \cup {None}
  BY DEF ServerChanges, CollectGarbage, ConfigMapChanges, ServiceChanges, GatewayChanges,
         RouteAccepted, RouteRejected, ProviderInv, CopiesOK
<1>3. config' \in [ConfigMaps -> Contents \cup {None}]
  BY DEF ServerChanges, CollectGarbage, ConfigMapChanges, ServiceChanges, GatewayChanges,
         RouteAccepted, RouteRejected, ProviderInv, CopiesOK
<1>4. services' \in [Services -> Ports \cup {None}]
  BY DEF ServerChanges, CollectGarbage, ConfigMapChanges, ServiceChanges, GatewayChanges,
         RouteAccepted, RouteRejected, ProviderInv, CopiesOK
<1>5. gateways' \in [Gateways -> GatewayStatus]
  BY DEF ServerChanges, CollectGarbage, ConfigMapChanges, ServiceChanges, GatewayChanges,
         RouteAccepted, RouteRejected, ProviderInv, CopiesOK, GatewayStatus
<1>6. ProviderInv'
  BY <1>1, <1>2, <1>3, <1>4, <1>5 DEF ProviderInv, CopiesOK, Known
<1>7. QED
  BY <1>1, <1>6, SameReport DEF Kept

\* Watches, timers and restarts change copies, and copy from the API server.
LEMMA CacheStep ==
    ProviderInv /\ (Informers \/ RestartOperator) => Kept
<1> SUFFICES ASSUME ProviderInv, Informers \/ RestartOperator PROVE Kept
  OBVIOUS
<1>1. UNCHANGED apiVars
  BY DEF Informers, SyncBinding, SyncRoute, SyncServer, SyncGateway, MetadataEvent, TimerFires,
         RestartOperator
<1>2. cbinding' \in {cbinding, binding} /\ cserver' \in {cserver, server}
  BY DEF Informers, SyncBinding, SyncRoute, SyncServer, SyncGateway, MetadataEvent, TimerFires,
         RestartOperator, cacheVars
<1>3. cgateways' \in [Gateways -> GatewayStatus]
  BY DEF Informers, SyncBinding, SyncRoute, SyncServer, SyncGateway, MetadataEvent, TimerFires,
         RestartOperator, cacheVars, ProviderInv, CopiesOK
<1>4. UNCHANGED <<pc, work>> \/ (pc' = "idle" /\ work' = NoWork)
  BY DEF Informers, SyncBinding, SyncRoute, SyncServer, SyncGateway, MetadataEvent, TimerFires,
         RestartOperator
<1>5. CopiesOK'
  BY <1>1, <1>2, <1>3, <1>4, NoWorkType DEF ProviderInv, CopiesOK, apiVars
<1>6. Known'
  BY <1>4 DEF ProviderInv, Known
<1>7. QED
  BY <1>1, <1>5, <1>6, SameReport DEF Kept, ProviderInv, apiVars
-----------------------------------------------------------------------------
(* The worker.                                                             *)

\* Reconcile starts from cached copies and the ConfigMap.
LEMMA FetchStep == ProviderInv /\ Fetch => Kept
<1> SUFFICES ASSUME ProviderInv, Fetch PROVE Kept
  OBVIOUS
<1> DEFINE c == cbinding.config
           content == IF c = None THEN None ELSE config[c]
           fetched == [NoWork EXCEPT !.binding = cbinding, !.spec = cserver, !.content = content]
<1>1. UNCHANGED <<apiVars, cacheVars>>
  BY DEF Fetch
<1>2. CASE UNCHANGED <<pc, work>>
  BY <1>1, <1>2, SameReport DEF Kept, ProviderInv, CopiesOK, Known, apiVars, cacheVars
<1>3. CASE /\ cbinding.uid # 0 /\ cserver # None /\ work' = fetched
           /\ pc' = IF content = None \/ content.gateway = None THEN "delete" ELSE "stamp"
  <2>1. cbinding \in BindingType /\ cserver \in ServerSpecs \cup {None}
    BY DEF ProviderInv, CopiesOK
  <2>2. content \in Contents \cup {None}
    BY <2>1 DEF BindingType, ProviderInv, CopiesOK
  <2>3. /\ fetched \in WorkType
        /\ fetched.binding = cbinding /\ fetched.spec = cserver /\ fetched.content = content
    BY <2>1, <2>2 DEF NoWork, WorkType
  <2> HIDE DEF c, content, fetched
  <2>4. CopiesOK'
    BY <1>1, <1>3, <2>3 DEF ProviderInv, CopiesOK, apiVars, cacheVars
  <2>5. Known'
    BY <1>3, <2>3 DEF Known
  <2>6. QED
    BY <1>1, <2>4, <2>5, SameReport DEF Kept, ProviderInv, apiVars
<1>4. QED
  BY <1>2, <1>3 DEF Fetch, Ours

\* EnsureBindingAnnotations patches an annotation and reads the binding back.
LEMMA AnnotateStep ==
    ASSUME ProviderInv,
           NEW key \in {"gatewayRef", "serviceRef"}, NEW value, NEW next,
           EnsureAnnotation(key, value, next),
           key = "gatewayRef" => value \in Gateways,
           key = "serviceRef" => value \in Services \cup {"managed"},
           pc \in {"stamp", "record"}, next \in {"backend", "apply"}
    PROVE  Kept
<1>1. UNCHANGED <<server, lastUid, config, services, gateways, cacheVars>>
  BY DEF EnsureAnnotation
<1>2. /\ binding \in BindingType /\ work \in WorkType
      /\ work.binding.uid # 0 /\ work.spec # None
      /\ work.content # None /\ work.content.gateway # None
  BY DEF ProviderInv, CopiesOK, Known
<1>3. CASE Goto(next) /\ UNCHANGED <<binding, work>>
  <2>1. CopiesOK'
    BY <1>1, <1>3 DEF ProviderInv, CopiesOK, cacheVars
  <2>2. Known'
    BY <1>2, <1>3 DEF Goto, Known
  <2>3. QED
    BY <1>3, <2>1, <2>2, SameReport DEF Kept, ProviderInv
<1>4. CASE Finish("error") /\ UNCHANGED binding
  <2>1. CopiesOK' /\ Known'
    BY <1>1, <1>4, NoWorkType DEF Finish, ProviderInv, CopiesOK, Known, cacheVars
  <2>2. QED
    BY <1>4, <2>1, SameReport DEF Kept, ProviderInv
<1>5. CASE /\ binding.uid # 0 /\ Goto(next)
           /\ binding' = [binding EXCEPT ![key] = value]
           /\ work' = [work EXCEPT !.binding = binding']
  <2>1. binding' \in BindingType
    BY <1>2, <1>5, AnnotationType
  <2>2. /\ binding'.uid = binding.uid /\ binding'.gen = binding.gen
        /\ binding'.reason = binding.reason /\ binding'.observed = binding.observed
        /\ binding'.url = binding.url
    BY <1>2, <1>5 DEF BindingType
  <2>3. /\ work' \in WorkType /\ work'.binding = binding'
        /\ work'.spec = work.spec /\ work'.content = work.content
    BY <1>2, <1>5, <2>1 DEF WorkType
  <2>4. CopiesOK'
    BY <1>1, <2>1, <2>3 DEF ProviderInv, CopiesOK, cacheVars
  <2>5. Known'
    BY <1>2, <1>5, <2>2, <2>3 DEF Goto, Known
  <2>6. QED
    BY <2>2, <2>4, <2>5, SameReport DEF Kept, ProviderInv
<1>6. QED
  BY <1>3, <1>4, <1>5 DEF EnsureAnnotation

\* The Gateway of the ConfigMap is recorded.
LEMMA StampStep == ProviderInv /\ Stamp => Kept
<1> SUFFICES ASSUME ProviderInv, Stamp PROVE Kept
  OBVIOUS
<1>1. work.content \in Contents /\ work.content.gateway # None /\ pc = "stamp"
  BY DEF ProviderInv, CopiesOK, Known, WorkType, Stamp
<1>2. work.content.gateway \in Gateways
  BY <1>1, ProviderAssumption
<1>3. QED
  BY <1>1, <1>2, AnnotateStep DEF Stamp

\* The Service of the spec is recorded.
LEMMA RecordStep == ProviderInv /\ Record => Kept
<1> SUFFICES ASSUME ProviderInv, Record PROVE Kept
  OBVIOUS
<1>1. work.spec \in ServerSpecs /\ pc = "record"
  BY DEF ProviderInv, CopiesOK, Known, WorkType, Record
<1>2. work.spec.service \in Services \cup {"managed"}
  BY <1>1, ProviderAssumption
<1>3. QED
  BY <1>1, <1>2, AnnotateStep DEF Record

\* ResolveServiceEndpoint only fills in the port.
LEMMA BackendStep == ProviderInv /\ Backend => Kept
<1> SUFFICES ASSUME ProviderInv, Backend PROVE Kept
  OBVIOUS
<1> DEFINE port == IF work.spec.service = "managed" THEN "managed"
                   ELSE services[work.spec.service]
<1>1. /\ work \in WorkType /\ pc = "backend" /\ work.spec \in ServerSpecs
      /\ services \in [Services -> Ports \cup {None}]
  BY DEF ProviderInv, CopiesOK, Known, WorkType, Backend
<1>2. port \in Ports \cup {"managed", None}
  <2>1. work.spec.service \in Services \cup {"managed"}
    BY <1>1, ProviderAssumption
  <2>2. QED
    BY <1>1, <2>1
<1>3. /\ work' = [work EXCEPT !.port = port] /\ pc' = "record"
      /\ UNCHANGED <<apiVars, cacheVars>>
  BY DEF Backend, Goto
<1> HIDE DEF port
<1>4. /\ work' \in WorkType /\ work'.binding = work.binding
      /\ work'.spec = work.spec /\ work'.content = work.content
  BY <1>1, <1>2, <1>3 DEF WorkType
<1>5. CopiesOK'
  BY <1>3, <1>4 DEF ProviderInv, CopiesOK, apiVars, cacheVars
<1>6. Known'
  BY <1>1, <1>3, <1>4 DEF ProviderInv, Known
<1>7. QED
  BY <1>3, <1>5, <1>6, SameReport DEF Kept, ProviderInv, apiVars

\* A route whose host name is malformed is not judged.
LEMMA ApplyStep == ProviderInv /\ ApplyHTTPRoute => Kept
<1> SUFFICES ASSUME ProviderInv, ApplyHTTPRoute PROVE Kept
  OBVIOUS
<1>1. /\ pc = "apply"
      /\ UNCHANGED <<server, binding, lastUid, config, services, gateways, cacheVars>>
  BY DEF ApplyHTTPRoute
<1>2. \/ Finish("error")
      \/ Goto("delete") /\ UNCHANGED work
      \/ work.content.routeHost # Malformed /\ Goto("judge") /\ UNCHANGED work
  BY DEF ApplyHTTPRoute
<1>3. CopiesOK'
  BY <1>1, <1>2, NoWorkType DEF Finish, ProviderInv, CopiesOK, cacheVars
<1>4. Known'
  BY <1>1, <1>2 DEF Finish, Goto, ProviderInv, Known
<1>5. QED
  BY <1>1, <1>3, <1>4, SameReport DEF Kept, ProviderInv

\* The report after the route was judged: a URL goes with Registered alone.
LEMMA JudgeStep == ProviderInv /\ Judge => Kept
<1> SUFFICES ASSUME ProviderInv, Judge PROVE Kept
  OBVIOUS
<1>1. /\ pc = "judge" /\ CopiesOK /\ work.binding.uid # 0
      /\ work.content \in Contents /\ work.spec \in ServerSpecs
      /\ work.content.gateway # None /\ work.content.routeHost # Malformed
      /\ cgateways \in [Gateways -> GatewayStatus]
  BY DEF ProviderInv, CopiesOK, Known, WorkType, Judge
<1>2. CASE Finish("error") /\ UNCHANGED <<apiVars, cacheVars>>
  BY <1>1, <1>2, FinishStep, SameReport DEF Kept, ProviderInv, apiVars
<1>3. CASE UpdateBindingStatus("RouteNotAccepted", None, "later")
  BY <1>1, <1>3, ReportStep DEF Kept, ProviderInv, Reasons
<1>4. CASE UpdateBindingStatus("PublicAddressPending", None, "later")
  BY <1>1, <1>4, ReportStep DEF Kept, ProviderInv, Reasons
<1>5. CASE /\ PublicHost(work.content, cgateways) # None
           /\ UpdateBindingStatus("Registered", PublicUrl(work.content, work.spec, cgateways),
                                  "done")
  <2>1. PublicUrl(work.content, work.spec, cgateways) \in Url
    BY <1>1, <1>5, UrlType
  <2>2. QED
    BY <1>1, <1>5, <2>1, ReportStep DEF Kept, ProviderInv, Reasons
<1>6. QED
  BY <1>2, <1>3, <1>4, <1>5 DEF Judge

\* The other ends of a reconcile.
LEMMA UnregisterStep == ProviderInv /\ (DeleteStaleHTTPRoute \/ Unregister \/ CallFails) => Kept
<1> SUFFICES ASSUME ProviderInv, DeleteStaleHTTPRoute \/ Unregister \/ CallFails PROVE Kept
  OBVIOUS
<1>1. CASE DeleteStaleHTTPRoute
  <2>1. /\ pc = "delete" /\ pc' = "unregister"
        /\ UNCHANGED <<server, binding, lastUid, config, services, gateways, cacheVars, work>>
    BY <1>1 DEF DeleteStaleHTTPRoute, Goto
  <2>2. QED
    BY <2>1, SameReport DEF Kept, ProviderInv, CopiesOK, Known, cacheVars
<1>2. CASE Unregister
  BY <1>2, ReportStep DEF Unregister, Kept, ProviderInv, Known, Reasons
<1>3. CASE CallFails
  BY <1>3, FinishStep, SameReport DEF CallFails, Kept, ProviderInv, apiVars
<1>4. QED
  BY <1>1, <1>2, <1>3

-----------------------------------------------------------------------------
(* The implementation.                                                     *)

\* The initial states are those of the contract.
LEMMA InitStep == Init => ProviderInv /\ Binding!Start
<1> SUFFICES ASSUME Init PROVE ProviderInv /\ Binding!Start
  OBVIOUS
<1>1. PICK c \in ConfigMaps \cup {None} : binding = NewBinding(1, "httproute", c)
  BY DEF Init
<1>2. PICK w \in Worlds : /\ server = w.server /\ config = w.config
                          /\ services = w.services /\ gateways = w.gateways
  BY DEF Init
<1>3. binding \in BindingType
  BY <1>1, CreatedType
<1>4. /\ server \in ServerSpecs /\ config \in [ConfigMaps -> Contents \cup {None}]
      /\ services \in [Services -> Ports \cup {None}] /\ gateways \in [Gateways -> GatewayStatus]
  BY <1>2, ProviderAssumption DEF GatewayStatus
<1>5. ProviderInv
  BY <1>3, <1>4, NoWorkType DEF Init, ProviderInv, CopiesOK, Known
<1>6. binding.uid = 1 /\ binding.gen = 1 /\ binding.reason = "none" /\ binding.url = None
  BY <1>1 DEF NewBinding, NoBinding
<1>7. QED
  BY <1>5, <1>6 DEF Binding!Start

\* Every step is one of the contract or leaves the report alone.
LEMMA NextStep == ProviderInv /\ [Next]_vars => Kept
<1>1. ASSUME ProviderInv, UNCHANGED vars PROVE Kept
  BY <1>1, SameReport DEF vars, apiVars, cacheVars, Kept, ProviderInv, CopiesOK, Known
<1>2. QED
  BY <1>1, EditStep, DeleteStep, CreateStep, ClusterStep, CacheStep, FetchStep, StampStep,
     BackendStep, RecordStep, ApplyStep, JudgeStep, UnregisterStep
     DEF Next, Environment, Worker

\* The httproute provider and whoever writes its binding keep the contract of
\* GatewayBinding: every report (UpdateBindingStatus) is about the generation the
\* binding has when it is written, a registered binding has a URL, and no report
\* outlives its incarnation.
THEOREM ProviderKeepsContract == Spec => KeepsContract
<1>1. Spec => []ProviderInv
  <2>1. Init => ProviderInv
    BY InitStep
  <2>2. ProviderInv /\ [Next]_vars => ProviderInv'
    BY NextStep DEF Kept
  <2>3. QED
    BY <2>1, <2>2, PTL DEF Spec
<1>2. Init => Binding!Start
  BY InitStep
<1>3. ProviderInv /\ [Next]_vars => [Binding!Step]_Binding!bindingVars
  BY NextStep DEF Kept
<1>4. QED
  BY <1>1, <1>2, <1>3, PTL DEF Spec, KeepsContract, Binding!Contract

-----------------------------------------------------------------------------
(* Convergence: when the provider is quiet, route and report are those the *)
(* Gateway, the ConfigMap, the Service, the MCPServer and the binding now  *)
(* call for.                                                               *)

RouteSpecs ==
    [gateway : Gateways, host : Hosts \cup {None}, service : Services \cup {"managed"},
     port : Ports \cup {"managed"}, path : {s.path : s \in ServerSpecs}]

RouteType ==
    [owner : Nat \cup {-1}, gen : Nat, spec : RouteSpecs \cup {None},
     accepted : [by : Gateways \cup {None}, gen : Nat]]

\* A Gateway judges generations of the route that there have been.
RoutesOK ==
    /\ route \in RouteType /\ croute \in RouteType
    /\ route.accepted.gen <= route.gen /\ croute.accepted.gen <= croute.gen
    /\ route.owner > 0 => route.spec \in RouteSpecs

\* The cached binding is one that there has been, and an incarnation and its
\* generation settle the spec.
Ordered ==
    /\ binding.uid <= lastUid /\ cbinding.uid <= lastUid
    /\ binding.uid # 0 /\ cbinding.uid = binding.uid =>
          /\ cbinding.gen <= binding.gen
          /\ cbinding.provider = binding.provider
          /\ cbinding.gen = binding.gen => cbinding.config = binding.config

\* A reconcile is due, or will be once the cache has the binding's spec.
Coming == queued \/ <<cbinding.uid, cbinding.gen>> # <<binding.uid, binding.gen>>

BackendPort(spec) == IF spec.service = "managed" THEN "managed" ELSE services[spec.service]

RoutableContent(content) ==
    content # None /\ content.gateway # None /\ content.routeHost # Malformed

\* What a reconcile wrote itself.
Stamped ==
    /\ pc \in {"backend", "record"} => work.binding.gatewayRef = work.content.gateway
    /\ pc \in {"apply", "judge"} => work.binding.serviceRef = work.spec.service
    /\ pc \in {"delete", "unregister"} => ~RoutableContent(work.content)
    /\ pc = "judge" => work.port # None

RouteFor(r) ==
    /\ r.owner = work.binding.uid
    /\ r.spec = DesiredRoute(work.content, work.spec, work.port)

\* What a reconcile read is still so, or it will be repeated.
Informed ==
    Ours(binding) /\ pc # "idle" =>
       \/ Coming
       \/ /\ work.spec = cserver
          /\ binding.config \in changed \/ work.content = Content
          /\ work.binding \in {binding, cbinding}
          /\ pc \in {"apply", "judge"} =>
                \/ work.binding.gatewayRef = work.content.gateway
                \/ cbinding.gatewayRef # binding.gatewayRef
          /\ pc \in {"record", "apply", "judge"} =>
                \/ work.port = BackendPort(work.spec)
                \/ work.spec.service \in changed
                \/ cbinding.serviceRef # work.spec.service
          /\ pc = "judge" => RouteFor(croute) \/ RouteFor(route)
          /\ pc = "unregister" =>
                croute.owner # work.binding.uid \/ route.owner # work.binding.uid

\* The HTTPRoute r is as it should be for the MCPServer in the cache.
RouteRight(r) ==
    IF Routable THEN /\ r.owner = binding.uid
                     /\ r.spec = DesiredRoute(Content, cserver, BackendPort(cserver))
    ELSE r.owner # binding.uid

\* The report is right, as far as the caches know.
StatusRight ==
    /\ binding.observed = binding.gen
    /\ binding.reason =
          IF ~Routable THEN "NotRegistered"
          ELSE IF croute.accepted # [by |-> Content.gateway, gen |-> croute.gen]
          THEN "RouteNotAccepted"
          ELSE IF PublicHost(Content, cgateways) = None
          THEN "PublicAddressPending" ELSE "Registered"
    /\ binding.url = IF binding.reason = "Registered"
                     THEN PublicUrl(Content, cserver, cgateways) ELSE None

\* The events of the Gateway and of the Service find the binding.
RefsRight ==
    Routable => binding.gatewayRef = Content.gateway /\ binding.serviceRef = cserver.service

\* Between reconciles: all is well, or an event is on its way.
Settled ==
    pc = "idle" /\ Ours(binding) /\ cserver # None =>
       \/ queued \/ cbinding # binding \/ binding.config \in changed
       \/ /\ RefsRight
          /\ \/ Routable /\ cserver.service \in changed
             \/ RouteRight(route) /\ ~RouteRight(croute)
             \/ RouteRight(croute) /\ StatusRight

ConvergenceInv == ProviderInv /\ RoutesOK /\ Ordered /\ Stamped /\ Informed /\ Settled

\* Unless a reconcile is coming, the cache has the spec of the binding.
LEMMA InStep ==
    ASSUME Ordered, Ours(binding), ~Coming
    PROVE  /\ Ours(cbinding) /\ ~queued
           /\ cbinding.uid = binding.uid /\ cbinding.gen = binding.gen
           /\ cbinding.config = binding.config
BY DEF Ordered, Ours, Coming

\* No route and a foreign route are routes that nobody has accepted.
LEMMA RouteTyped ==
    /\ NoRoute \in RouteType /\ NoRoute.owner = 0 /\ NoRoute.accepted.gen = 0
    /\ NoRoute.gen = 0
    /\ ForeignRoute \in RouteType /\ ForeignRoute.owner = -1 /\ ForeignRoute.accepted.gen = 0
    /\ ForeignRoute.gen = 1
<1>1. NotAccepted \in [by : Gateways \cup {None}, gen : Nat] /\ NotAccepted.gen = 0
  BY DEF NotAccepted
<1>2. /\ NoRoute \in RouteType /\ NoRoute.owner = 0 /\ NoRoute.gen = 0
      /\ NoRoute.accepted = NotAccepted
  BY <1>1 DEF NoRoute, RouteType
<1>3. Foreign \in Nat \cup {-1} /\ Foreign = -1
  BY DEF Foreign
<1>4. /\ ForeignRoute \in RouteType /\ ForeignRoute.owner = Foreign /\ ForeignRoute.gen = 1
      /\ ForeignRoute.accepted = NotAccepted
  BY <1>2, <1>3 DEF ForeignRoute, RouteType
<1>5. QED
  BY <1>1, <1>2, <1>3, <1>4

\* Initially the cache does not know the binding, which will queue it.
LEMMA ConvergenceInit == Init => ConvergenceInv
<1> SUFFICES ASSUME Init PROVE ConvergenceInv
  OBVIOUS
<1>1. PICK c \in ConfigMaps \cup {None} : binding = NewBinding(1, "httproute", c)
  BY DEF Init
<1>2. binding.uid = 1 /\ cbinding.uid = 0 /\ lastUid = 1
  BY <1>1 DEF Init, NewBinding, NoBinding
<1>3. route \in {NoRoute, ForeignRoute} /\ croute = route
  BY DEF Init
<1>4. RoutesOK
  BY <1>3, RouteTyped, SMTT(60) DEF RoutesOK
<1>5. Ordered
  BY <1>2, SMTT(60) DEF Ordered
<1>6. Stamped /\ Informed /\ Settled
  BY <1>2, SMTT(60) DEF Init, Stamped, Informed, Settled
<1>7. QED
  BY <1>4, <1>5, <1>6, InitStep DEF ConvergenceInv

-----------------------------------------------------------------------------
(* Steps of the environment. *)

\* Another configRef is a generation that the cache does not have.
LEMMA EditConverges == ASSUME ConvergenceInv, EditBinding PROVE ConvergenceInv'
<1>1. PICK c \in ConfigMaps \cup {None} : binding' = Edited(binding, c)
  BY DEF EditBinding, Edited
<1>2. /\ binding \in BindingType /\ cbinding \in BindingType
      /\ binding.gen \in Nat /\ cbinding.gen \in Nat /\ lastUid \in Nat
      /\ UNCHANGED <<cbinding, lastUid, route, croute, pc, work>>
  BY DEF EditBinding, ConvergenceInv, ProviderInv, CopiesOK, BindingType, cacheVars
<1>3. /\ binding'.uid = binding.uid /\ binding'.gen = binding.gen + 1
      /\ binding'.provider = binding.provider
  BY <1>1, <1>2, EditedType DEF Edited, BindingType
<1>4. cbinding'.uid # binding'.uid \/ cbinding'.gen # binding'.gen
  BY <1>2, <1>3, SMTT(60) DEF ConvergenceInv, Ordered, EditBinding
<1>5. Coming'
  BY <1>4 DEF Coming
<1>6. Ordered'
  BY <1>2, <1>3, <1>4, SMTT(60) DEF ConvergenceInv, Ordered
<1>7. Stamped' /\ RoutesOK'
  BY <1>2 DEF ConvergenceInv, Stamped, RoutesOK
<1>8. Informed' /\ Settled'
  BY <1>4, <1>5 DEF Informed, Settled
<1>9. ProviderInv'
  BY EditStep DEF Kept, ConvergenceInv
<1>10. QED
  BY <1>6, <1>7, <1>8, <1>9 DEF ConvergenceInv

\* A binding that is deleted or created anew is one that the cache does not
\* have.
LEMMA ReplacedConverges == ASSUME ConvergenceInv, DeleteBinding \/ CreateBinding
                           PROVE  ConvergenceInv'
<1>1. /\ lastUid \in Nat /\ cbinding.uid \in Nat /\ cbinding.uid <= lastUid
      /\ UNCHANGED <<cbinding, route, croute, pc, work>>
  BY DEF DeleteBinding, CreateBinding, ConvergenceInv, ProviderInv, CopiesOK, BindingType,
         Ordered, cacheVars
<1>2. Stamped' /\ RoutesOK'
  BY <1>1 DEF ConvergenceInv, Stamped, RoutesOK
<1>3. ProviderInv'
  BY DeleteStep, CreateStep DEF Kept, ConvergenceInv
<1>4. CASE DeleteBinding
  <2>1. binding'.uid = 0 /\ lastUid' = lastUid
    BY <1>4 DEF DeleteBinding, NoBinding
  <2>2. ~Ours(binding)'
    BY <2>1 DEF Ours
  <2>3. Informed' /\ Settled'
    BY <2>2 DEF Informed, Settled
  <2>4. Ordered'
    BY <1>1, <2>1, SMTT(60) DEF Ordered
  <2>5. QED
    BY <1>2, <1>3, <2>3, <2>4 DEF ConvergenceInv
<1>5. CASE CreateBinding
  <2>1. lastUid' = lastUid + 1 /\ binding'.uid = lastUid + 1
    BY <1>5 DEF CreateBinding, NewBinding, NoBinding
  <2>2. cbinding'.uid # binding'.uid /\ cbinding'.uid <= lastUid' /\ binding'.uid <= lastUid'
    BY <1>1, <2>1, SMTT(60)
  <2>3. Informed' /\ Settled' /\ Ordered'
    BY <2>2 DEF Informed, Settled, Ordered, Coming
  <2>4. QED
    BY <1>2, <1>3, <2>3 DEF ConvergenceInv
<1>6. QED
  BY <1>4, <1>5

\* What the controller knows does not depend on the objects it has not read.
LEMMA UnreadConverges == ASSUME ConvergenceInv, ServerChanges \/ GatewayChanges
                         PROVE  ConvergenceInv'
<1>1. UNCHANGED <<binding, cbinding, lastUid, route, croute, pc, work, cserver, cgateways, config,
                  services, changed, queued>>
  BY DEF ServerChanges, GatewayChanges, cacheVars, queueVars
<1>2. ProviderInv'
  BY ClusterStep DEF Kept, ConvergenceInv
<1>3. Stamped' /\ RoutesOK' /\ Ordered'
  BY <1>1 DEF ConvergenceInv, Stamped, RoutesOK, Ordered
<1>4. Content' = Content
  BY <1>1 DEF Content
<1>5. Informed'
  BY <1>1, <1>4 DEF ConvergenceInv, Informed, Coming, RouteFor, BackendPort
<1>6. /\ Routable' = Routable /\ RefsRight' = RefsRight /\ StatusRight' = StatusRight
      /\ RouteRight(route)' = RouteRight(route) /\ RouteRight(croute)' = RouteRight(croute)
  BY <1>1, <1>4 DEF Routable, RefsRight, StatusRight, RouteRight, BackendPort
<1>7. Settled'
  BY <1>1, <1>6 DEF ConvergenceInv, Settled
<1>8. QED
  BY <1>2, <1>3, <1>5, <1>7 DEF ConvergenceInv

\* A ConfigMap that the binding refers to is announced when it changes.
LEMMA ConfigConverges == ASSUME ConvergenceInv, ConfigMapChanges PROVE ConvergenceInv'
<1>1. PICK c \in ConfigMaps : \E v : config' = [config EXCEPT ![c] = v] /\ changed' = changed \cup {c}
  BY DEF ConfigMapChanges
<1>2. UNCHANGED <<binding, cbinding, lastUid, route, croute, pc, work, cserver, cgateways,
                  services, queued>>
  BY DEF ConfigMapChanges, cacheVars, queueVars
<1>3. ProviderInv'
  BY ClusterStep DEF Kept, ConvergenceInv
<1>4. Stamped' /\ RoutesOK' /\ Ordered'
  BY <1>2 DEF ConvergenceInv, Stamped, RoutesOK, Ordered
<1>5. changed \subseteq changed' /\ (binding.config \in changed' \/ Content' = Content)
  <2>1. binding.config # c => Content' = Content
    BY <1>1, <1>2 DEF Content, ConvergenceInv, ProviderInv, CopiesOK, BindingType
  <2>2. QED
    BY <1>1, <2>1
<1>6. Informed'
  BY <1>2, <1>5 DEF ConvergenceInv, Informed, Coming, RouteFor, BackendPort
<1>7. CASE Content' = Content
  <2>1. /\ Routable' = Routable /\ RefsRight' = RefsRight /\ StatusRight' = StatusRight
        /\ RouteRight(route)' = RouteRight(route) /\ RouteRight(croute)' = RouteRight(croute)
    BY <1>2, <1>7 DEF Routable, RefsRight, StatusRight, RouteRight, BackendPort
  <2>2. Settled'
    BY <1>2, <1>5, <2>1 DEF ConvergenceInv, Settled
  <2>3. QED
    BY <1>3, <1>4, <1>6, <2>2 DEF ConvergenceInv
<1>8. CASE binding.config \in changed'
  <2>1. Settled'
    BY <1>2, <1>8 DEF Settled
  <2>2. QED
    BY <1>3, <1>4, <1>6, <2>1 DEF ConvergenceInv
<1>9. QED
  BY <1>5, <1>7, <1>8

\* So is a Service, and the annotation is there when its event comes.
LEMMA ServiceConverges == ASSUME ConvergenceInv, ServiceChanges PROVE ConvergenceInv'
<1>1. PICK s \in Services : \E p : services' = [services EXCEPT ![s] = p] /\ changed' = changed \cup {s}
  BY DEF ServiceChanges
<1>2. UNCHANGED <<binding, cbinding, lastUid, route, croute, pc, work, cserver, cgateways,
                  config, queued>>
  BY DEF ServiceChanges, cacheVars, queueVars
<1>3. ProviderInv'
  BY ClusterStep DEF Kept, ConvergenceInv
<1>4. Stamped' /\ RoutesOK' /\ Ordered'
  BY <1>2 DEF ConvergenceInv, Stamped, RoutesOK, Ordered
<1>5. Content' = Content /\ changed \subseteq changed' /\ s \in changed'
  BY <1>1, <1>2 DEF Content
<1>6. services \in [Services -> Ports \cup {None}]
  BY DEF ConvergenceInv, ProviderInv, CopiesOK
<1>7. work.spec.service \in changed' \/ BackendPort(work.spec)' = BackendPort(work.spec)
  BY <1>1, <1>2, <1>5, <1>6, SMTT(60) DEF BackendPort
<1>8. cserver.service \in changed' \/ BackendPort(cserver)' = BackendPort(cserver)
  BY <1>1, <1>2, <1>5, <1>6, SMTT(60) DEF BackendPort
<1>9. Informed'
  BY <1>2, <1>5, <1>7 DEF ConvergenceInv, Informed, Coming, RouteFor
<1>10. Routable' = Routable /\ RefsRight' = RefsRight /\ StatusRight' = StatusRight
  BY <1>2, <1>5 DEF Routable, RefsRight, StatusRight
<1>11. Settled'
  <2>1. CASE Routable /\ cserver.service \in changed'
    BY <1>2, <1>5, <1>10, <2>1 DEF ConvergenceInv, Settled
  <2>2. CASE ~(Routable /\ cserver.service \in changed')
    <3>1. /\ RouteRight(route)' = RouteRight(route) /\ RouteRight(croute)' = RouteRight(croute)
      BY <1>2, <1>5, <1>8, <1>10, <2>2 DEF RouteRight
    <3>2. QED
      BY <1>2, <1>5, <1>10, <3>1 DEF ConvergenceInv, Settled
  <2>3. QED
    BY <2>1, <2>2
<1>12. QED
  BY <1>3, <1>4, <1>9, <1>11 DEF ConvergenceInv

\* When a reconcile is due there is nothing else to show.
LEMMA QueuedConverges ==
    ASSUME ProviderInv', RoutesOK', Ordered', Stamped', Ours(binding)' => queued'
    PROVE  ConvergenceInv'
BY DEF ConvergenceInv, Informed, Settled, Coming

\* The Gateway's verdict is not part of what the route should be.
LEMMA VerdictConverges == ASSUME ConvergenceInv, RouteAccepted \/ RouteRejected
                          PROVE  ConvergenceInv'
<1>1. UNCHANGED <<binding, cbinding, lastUid, croute, pc, work, cserver, cgateways, config,
                  services, changed, queued>>
  BY DEF RouteAccepted, RouteRejected, cacheVars, queueVars
<1>2. ProviderInv'
  BY ClusterStep DEF Kept, ConvergenceInv
<1>3. route \in RouteType /\ route.gen \in Nat /\ (route.owner > 0 => route.spec \in RouteSpecs)
  BY DEF ConvergenceInv, RoutesOK, RouteType
<1>4. PICK a : /\ route' = [route EXCEPT !.accepted = a]
               /\ \/ a = NotAccepted
                  \/ /\ route.owner \notin {0, -1}
                     /\ a = [by |-> route.spec.gateway, gen |-> route.gen]
  BY DEF RouteAccepted, RouteRejected, Foreign
<1>5. a \in [by : Gateways \cup {None}, gen : Nat] /\ a.gen <= route.gen
  <2>1. CASE a = NotAccepted
    BY <1>3, <2>1, SMTT(60) DEF NotAccepted
  <2>2. CASE route.owner \notin {0, -1} /\ a = [by |-> route.spec.gateway, gen |-> route.gen]
    <3>1. route.owner > 0 /\ route.spec \in RouteSpecs
      BY <1>3, <2>2, SMTT(60) DEF RouteType
    <3>2. route.spec.gateway \in Gateways
      BY <3>1 DEF RouteSpecs
    <3>3. QED
      BY <1>3, <2>2, <3>2, SMTT(60)
  <2>3. QED
    BY <1>4, <2>1, <2>2
<1>6. /\ route' \in RouteType /\ route'.accepted = a
      /\ route'.owner = route.owner /\ route'.spec = route.spec /\ route'.gen = route.gen
  BY <1>3, <1>4, <1>5 DEF RouteType
<1>7. RoutesOK'
  BY <1>1, <1>3, <1>5, <1>6 DEF ConvergenceInv, RoutesOK
<1>8. Stamped' /\ Ordered'
  BY <1>1 DEF ConvergenceInv, Stamped, Ordered
<1>9. Content' = Content
  BY <1>1 DEF Content
<1>10. RouteFor(route)' = RouteFor(route) /\ RouteFor(croute)' = RouteFor(croute)
  BY <1>1, <1>6 DEF RouteFor
<1>11. Informed'
  BY <1>1, <1>6, <1>9, <1>10 DEF ConvergenceInv, Informed, Coming, BackendPort
<1>12. /\ Routable' = Routable /\ RefsRight' = RefsRight /\ StatusRight' = StatusRight
       /\ RouteRight(route)' = RouteRight(route) /\ RouteRight(croute)' = RouteRight(croute)
  BY <1>1, <1>6, <1>9 DEF Routable, RefsRight, StatusRight, RouteRight, BackendPort
<1>13. Settled'
  BY <1>1, <1>12 DEF ConvergenceInv, Settled
<1>14. QED
  BY <1>2, <1>7, <1>8, <1>11, <1>13 DEF ConvergenceInv

\* Garbage collection takes only routes that are not the binding's.
LEMMA GarbageConverges == ASSUME ConvergenceInv, CollectGarbage PROVE ConvergenceInv'
<1>1. /\ UNCHANGED <<binding, cbinding, lastUid, croute, pc, work, cserver, cgateways, config,
                     services, changed, queued>>
      /\ route' = NoRoute /\ route'.owner = 0 /\ route.owner # binding.uid
  BY RouteTyped DEF CollectGarbage, cacheVars, queueVars
<1>2. ProviderInv'
  BY ClusterStep DEF Kept, ConvergenceInv
<1>3. RoutesOK' /\ Stamped' /\ Ordered'
  BY <1>1, RouteTyped, SMTT(60) DEF ConvergenceInv, RoutesOK, Stamped, Ordered
<1>4. Content' = Content
  BY <1>1 DEF Content
<1>5. Informed'
  <2> SUFFICES ASSUME Ours(binding)', (pc # "idle")', ~Coming'
               PROVE  Informed'
    BY DEF Informed
  <2>1. Ours(binding) /\ pc # "idle" /\ ~Coming /\ cbinding.uid = binding.uid
    BY <1>1 DEF Ours, Coming
  <2>2. work.binding.uid = binding.uid /\ work.binding.uid # 0
    BY <2>1 DEF ConvergenceInv, Informed, ProviderInv, Known
  <2>3. ~RouteFor(route) /\ RouteFor(croute)' = RouteFor(croute)
    BY <1>1, <2>2 DEF RouteFor
  <2>4. QED
    BY <1>1, <1>4, <2>1, <2>2, <2>3 DEF ConvergenceInv, Informed, Coming, BackendPort
<1>6. /\ Routable' = Routable /\ RefsRight' = RefsRight /\ StatusRight' = StatusRight
      /\ RouteRight(croute)' = RouteRight(croute)
  BY <1>1, <1>4 DEF Routable, RefsRight, StatusRight, RouteRight, BackendPort
<1>7. Settled'
  <2>1. Ours(binding) /\ RouteRight(route) => RouteRight(route)'
    BY <1>1, <1>6 DEF RouteRight, Ours
  <2>2. QED
    BY <1>1, <1>6, <2>1 DEF ConvergenceInv, Settled, Ours
<1>8. QED
  BY <1>2, <1>3, <1>5, <1>7 DEF ConvergenceInv

-----------------------------------------------------------------------------
(* Events.                                                                 *)

\* An event that is delivered, a delay that is over and a restart queue the
\* binding.
LEMMA EventsConverge ==
    ASSUME ConvergenceInv, SyncBinding \/ SyncRoute \/ TimerFires \/ RestartOperator
    PROVE  ConvergenceInv'
<1>1. ProviderInv'
  <2>1. CASE SyncBinding \/ SyncRoute \/ TimerFires
    BY <2>1, NextStep DEF Kept, ConvergenceInv, Next, Informers
  <2>2. CASE RestartOperator
    BY <2>2, NextStep DEF Kept, ConvergenceInv, Next, Environment
  <2>3. QED
    BY <2>1, <2>2
<1>2. /\ UNCHANGED <<binding, lastUid, route>>
      /\ croute' \in {route, croute} /\ cbinding' \in {binding, cbinding}
      /\ \/ UNCHANGED <<pc, work>>
         \/ pc' = "idle"
      /\ Ours(binding) => queued'
  BY DEF SyncBinding, SyncRoute, TimerFires, RestartOperator, apiVars, cacheVars
<1>3. RoutesOK'
  BY <1>2 DEF ConvergenceInv, RoutesOK
<1>4. Ordered'
  <2>1. binding.gen \in Nat /\ lastUid \in Nat
    BY DEF ConvergenceInv, ProviderInv, CopiesOK, BindingType
  <2>2. QED
    BY <1>2, <2>1, SMTT(60) DEF ConvergenceInv, Ordered
<1>5. Stamped'
  BY <1>2 DEF ConvergenceInv, Stamped
<1>6. QED
  BY <1>1, <1>2, <1>3, <1>4, <1>5, QueuedConverges DEF Ours

\* Every edit of the MCPServer finds the binding.
LEMMA ServerEventConverges == ASSUME ConvergenceInv, SyncServer PROVE ConvergenceInv'
<1>1. /\ UNCHANGED <<binding, cbinding, lastUid, route, croute, pc, work>>
      /\ queued' = (queued \/ Ours(cbinding))
  BY DEF SyncServer, apiVars
<1>2. ProviderInv'
  BY NextStep DEF Kept, ConvergenceInv, Next, Informers
<1>3. RoutesOK' /\ Ordered' /\ Stamped'
  BY <1>1 DEF ConvergenceInv, RoutesOK, Ordered, Stamped
<1>4. Ours(binding)' => Coming'
  BY <1>1, InStep DEF ConvergenceInv, Coming, Ours
<1>5. Informed'
  BY <1>4 DEF Informed
<1>6. Settled'
  <2>1. Ours(binding)' => queued' \/ cbinding' # binding'
    BY <1>4 DEF Coming
  <2>2. QED
    BY <2>1 DEF Settled
<1>7. QED
  BY <1>2, <1>3, <1>5, <1>6 DEF ConvergenceInv

\* What a ConfigMap that is routable says.
LEMMA RoutableType ==
    ASSUME CopiesOK, Routable
    PROVE  Content \in Contents /\ Content.gateway \in Gateways
<1>1. Content \in Contents
  BY DEF CopiesOK, Routable, Content, BindingType
<1>2. QED
  BY <1>1, ProviderAssumption DEF Routable

\* The Gateway that the route names finds the binding by its annotation.
LEMMA GatewayEventConverges == ASSUME ConvergenceInv, SyncGateway PROVE ConvergenceInv'
<1>1. PICK g \in Gateways : /\ cgateways' = [cgateways EXCEPT ![g] = gateways[g]]
                            /\ queued' = (queued \/ (Ours(cbinding) /\ cbinding.gatewayRef = g))
  BY DEF SyncGateway
<1>2. UNCHANGED <<binding, cbinding, lastUid, route, croute, pc, work, cserver, config,
                  services, changed>>
  BY DEF SyncGateway, apiVars
<1>3. ProviderInv'
  BY NextStep DEF Kept, ConvergenceInv, Next, Informers
<1>4. RoutesOK' /\ Ordered' /\ Stamped'
  BY <1>2 DEF ConvergenceInv, RoutesOK, Ordered, Stamped
<1>5. CASE queued'
  BY <1>3, <1>4, <1>5, QueuedConverges
<1>6. CASE ~queued'
  <2>1. ~queued
    BY <1>1, <1>6
  <2>2. Content' = Content
    BY <1>2 DEF Content
  <2>3. Informed'
    BY <1>2, <1>6, <2>1, <2>2 DEF ConvergenceInv, Informed, Coming, RouteFor, BackendPort
  <2>4. Settled'
    <3> SUFFICES ASSUME (pc = "idle" /\ Ours(binding) /\ cserver # None)', (cbinding = binding)'
                 PROVE  Settled'
      BY DEF Settled
    <3>1. pc = "idle" /\ Ours(binding) /\ cserver # None /\ cbinding = binding
      BY <1>2 DEF Ours
    <3>2. /\ Routable' = Routable /\ RefsRight' = RefsRight
          /\ RouteRight(route)' = RouteRight(route) /\ RouteRight(croute)' = RouteRight(croute)
      BY <1>2, <2>2 DEF Routable, RefsRight, RouteRight, BackendPort
    <3>3. RefsRight => StatusRight' = StatusRight
      <4>1. CASE ~Routable
        BY <1>2, <2>2, <3>2, <4>1 DEF StatusRight
      <4>2. CASE Routable /\ RefsRight
        <5>1. Content.gateway # g /\ Content.gateway \in Gateways
          BY <1>1, <1>6, <3>1, <4>2, RoutableType DEF RefsRight, ConvergenceInv, ProviderInv
        <5>2. cgateways'[Content.gateway] = cgateways[Content.gateway]
          BY <1>1, <5>1 DEF ConvergenceInv, ProviderInv, CopiesOK
        <5>3. /\ PublicHost(Content, cgateways)' = PublicHost(Content, cgateways)
              /\ PublicUrl(Content, cserver, cgateways)' = PublicUrl(Content, cserver, cgateways)
          BY <1>2, <2>2, <5>2 DEF PublicHost, PublicUrl
        <5>4. QED
          BY <1>2, <2>2, <3>2, <5>3 DEF StatusRight
      <4>3. QED
        BY <4>1, <4>2
    <3>4. QED
      BY <1>2, <2>1, <3>1, <3>2, <3>3 DEF ConvergenceInv, Settled
  <2>5. QED
    BY <1>3, <1>4, <2>3, <2>4 DEF ConvergenceInv
<1>7. QED
  BY <1>5, <1>6

\* So do the ConfigMap, by the spec, and the Service, by its annotation.
LEMMA MetadataEventConverges == ASSUME ConvergenceInv, MetadataEvent PROVE ConvergenceInv'
<1>1. PICK n \in changed :
         /\ changed' = changed \ {n}
         /\ queued' = (\/ queued
                       \/ Ours(cbinding) /\ n \in {cbinding.config, cbinding.serviceRef})
  BY DEF MetadataEvent
<1>2. UNCHANGED <<binding, cbinding, lastUid, route, croute, pc, work, cserver, config,
                  services, cgateways>>
  BY DEF MetadataEvent, apiVars, cacheVars
<1>3. ProviderInv'
  BY NextStep DEF Kept, ConvergenceInv, Next, Informers
<1>4. RoutesOK' /\ Ordered' /\ Stamped'
  BY <1>2 DEF ConvergenceInv, RoutesOK, Ordered, Stamped
<1>5. CASE queued'
  BY <1>3, <1>4, <1>5, QueuedConverges
<1>6. CASE ~queued'
  <2>1. ~queued
    BY <1>1, <1>6
  <2>2. Content' = Content
    BY <1>2 DEF Content
  <2>3. Ours(binding) /\ ~Coming => n \notin {binding.config, cbinding.serviceRef}
    BY <1>1, <1>6, InStep DEF ConvergenceInv
  <2>4. Informed'
    <3> SUFFICES ASSUME Ours(binding)', (pc # "idle")', ~Coming'
                 PROVE  Informed'
      BY DEF Informed
    <3>1. Ours(binding) /\ pc # "idle" /\ ~Coming
      BY <1>2, <2>1 DEF Ours, Coming
    <3>2. /\ binding.config \in changed => binding.config \in changed'
          /\ work.spec.service \in changed =>
                work.spec.service \in changed' \/ cbinding.serviceRef # work.spec.service
      BY <1>1, <2>3, <3>1
    <3>3. RouteFor(route)' = RouteFor(route) /\ RouteFor(croute)' = RouteFor(croute)
      BY <1>2 DEF RouteFor
    <3>4. QED
      BY <1>2, <2>2, <3>1, <3>2, <3>3 DEF ConvergenceInv, Informed, Coming, BackendPort
  <2>5. Settled'
    <3> SUFFICES ASSUME (pc = "idle" /\ Ours(binding) /\ cserver # None)', (cbinding = binding)'
                 PROVE  Settled'
      BY DEF Settled
    <3>1. pc = "idle" /\ Ours(binding) /\ cserver # None /\ cbinding = binding /\ ~Coming
      BY <1>2, <2>1 DEF Ours, Coming
    <3>2. /\ Routable' = Routable /\ RefsRight' = RefsRight /\ StatusRight' = StatusRight
          /\ RouteRight(route)' = RouteRight(route) /\ RouteRight(croute)' = RouteRight(croute)
      BY <1>2, <2>2 DEF Routable, RefsRight, StatusRight, RouteRight, BackendPort
    <3>3. /\ binding.config \in changed => binding.config \in changed'
          /\ RefsRight /\ Routable /\ cserver.service \in changed => cserver.service \in changed'
      BY <1>1, <2>3, <3>1 DEF RefsRight
    <3>4. QED
      BY <1>2, <2>1, <3>1, <3>2, <3>3 DEF ConvergenceInv, Settled
  <2>6. QED
    BY <1>3, <1>4, <2>4, <2>5 DEF ConvergenceInv
<1>7. QED
  BY <1>5, <1>6

-----------------------------------------------------------------------------
(* The reconcile.                                                          *)

\* A reconcile that fails is repeated.
LEMMA FailureConverges ==
    ASSUME ConvergenceInv, Next, Finish("error"), UNCHANGED <<apiVars, cacheVars>>
    PROVE  ConvergenceInv'
<1>1. ProviderInv'
  BY NextStep DEF Kept, ConvergenceInv
<1>2. RoutesOK' /\ Ordered' /\ Stamped'
  BY DEF Finish, apiVars, cacheVars, ConvergenceInv, RoutesOK, Ordered, Stamped
<1>3. QED
  BY <1>1, <1>2, QueuedConverges DEF Finish

\* A reconcile starts from what the caches have; it is not needed again as
\* long as they keep it.
LEMMA FetchConverges == ASSUME ConvergenceInv, Fetch PROVE ConvergenceInv'
<1> DEFINE c == cbinding.config
           content == IF c = None THEN None ELSE config[c]
           fetched == [NoWork EXCEPT !.binding = cbinding, !.spec = cserver, !.content = content]
<1>1. ProviderInv'
  BY NextStep DEF Kept, ConvergenceInv, Next, Worker
<1>2. pc = "idle" /\ UNCHANGED <<binding, cbinding, lastUid, route, croute, cserver, config, changed>>
  BY DEF Fetch, apiVars, cacheVars
<1>3. RoutesOK' /\ Ordered'
  BY <1>2 DEF ConvergenceInv, RoutesOK, Ordered
<1>4. CASE (~Ours(cbinding) \/ cserver = None) /\ UNCHANGED <<pc, work>>
  <2>1. Stamped' /\ Informed'
    BY <1>2, <1>4 DEF ConvergenceInv, Stamped, Informed
  <2>2. Settled'
    BY <1>2, <1>4 DEF Settled, Ours
  <2>3. QED
    BY <1>1, <1>3, <2>1, <2>2 DEF ConvergenceInv
<1>5. CASE /\ work' = fetched
           /\ pc' = IF content = None \/ content.gateway = None THEN "delete" ELSE "stamp"
  <2>1. /\ work'.binding = cbinding /\ work'.spec = cserver /\ work'.content = content
    <3>1. /\ cbinding \in BindingType /\ cserver \in ServerSpecs \cup {None}
          /\ content \in Contents \cup {None}
      BY DEF ConvergenceInv, ProviderInv, CopiesOK, BindingType
    <3> HIDE DEF content
    <3>2. QED
      BY <1>5, <3>1, NoWorkType DEF NoWork, WorkType
  <2>2. Stamped'
    BY <1>5, <2>1 DEF Stamped, RoutableContent
  <2>3. Settled'
    BY <1>5 DEF Settled
  <2>4. Informed'
    <3> SUFFICES ASSUME Ours(binding)', ~Coming'
                 PROVE  Informed'
      BY DEF Informed
    <3>1. cbinding.config = binding.config
      BY <1>2 DEF ConvergenceInv, Ordered, Coming, Ours
    <3>2. content = Content' /\ pc' \in {"delete", "stamp"}
      BY <1>2, <1>5, <3>1 DEF Content
    <3>3. QED
      BY <1>2, <2>1, <3>2 DEF Informed
  <2>5. QED
    BY <1>1, <1>3, <2>2, <2>3, <2>4 DEF ConvergenceInv
<1>6. QED
  BY <1>4, <1>5 DEF Fetch

\* EnsureBindingAnnotations leaves the spec alone, and the copy it reads back
\* is the binding.
LEMMA AnnotationConverges ==
    ASSUME ConvergenceInv, NEW key \in {"gatewayRef", "serviceRef"}, NEW value,
           binding.uid # 0, binding' = [binding EXCEPT ![key] = value],
           work' = [work EXCEPT !.binding = binding'],
           UNCHANGED <<cbinding, lastUid, config>>
    PROVE  /\ Ordered' /\ Content' = Content
           /\ work'.binding = binding' /\ work'.spec = work.spec
           /\ work'.content = work.content /\ work'.port = work.port
           /\ binding'.uid = binding.uid /\ binding'.gen = binding.gen
           /\ binding'.config = binding.config /\ binding'.provider = binding.provider
           /\ binding'[key] = value
           /\ key = "serviceRef" => binding'.gatewayRef = binding.gatewayRef
<1>1. binding \in BindingType /\ work \in WorkType
  BY DEF ConvergenceInv, ProviderInv, CopiesOK
<1>2. /\ binding'.uid = binding.uid /\ binding'.gen = binding.gen
      /\ binding'.config = binding.config /\ binding'.provider = binding.provider
      /\ binding'[key] = value
      /\ key = "serviceRef" => binding'.gatewayRef = binding.gatewayRef
  BY <1>1 DEF BindingType
<1>3. /\ work'.binding = binding' /\ work'.spec = work.spec
      /\ work'.content = work.content /\ work'.port = work.port
  BY <1>1 DEF WorkType
<1>4. Ordered'
  BY <1>2 DEF ConvergenceInv, Ordered
<1>5. Content' = Content
  BY <1>2, SMTT(60) DEF Content
<1>6. QED
  BY <1>2, <1>3, <1>4, <1>5

\* The annotation names the Gateway of the ConfigMap that the reconcile read.
LEMMA StampConverges == ASSUME ConvergenceInv, Stamp PROVE ConvergenceInv'
<1>1. ProviderInv'
  BY NextStep DEF Kept, ConvergenceInv, Next, Worker
<1>2. pc = "stamp" /\ UNCHANGED <<cbinding, lastUid, route, croute, cserver, config, changed,
                                  services>>
  BY DEF Stamp, EnsureAnnotation, cacheVars
<1>3. RoutesOK'
  BY <1>2 DEF ConvergenceInv, RoutesOK
<1>4. CASE /\ work.binding["gatewayRef"] = work.content.gateway
           /\ Goto("backend") /\ UNCHANGED <<binding, work>>
  <2>1. pc' = "backend" /\ queued' = queued /\ work' = work /\ binding' = binding
    BY <1>4 DEF Goto, queueVars
  <2>2. Ordered' /\ Stamped' /\ Settled'
    BY <1>2, <1>4, <2>1 DEF ConvergenceInv, Ordered, Stamped, Settled
  <2>3. Content' = Content
    BY <1>2, <2>1 DEF Content
  <2>4. Informed'
    BY <1>2, <2>1, <2>3 DEF ConvergenceInv, Informed, Coming
  <2>5. QED
    BY <1>1, <1>3, <2>2, <2>4 DEF ConvergenceInv
<1>5. CASE binding.uid = 0 /\ Finish("error") /\ UNCHANGED binding
  BY <1>2, <1>5, FailureConverges DEF Stamp, EnsureAnnotation, Next, Worker, apiVars
<1>6. CASE /\ binding.uid # 0
           /\ binding' = [binding EXCEPT !["gatewayRef"] = work.content.gateway]
           /\ work' = [work EXCEPT !.binding = binding']
           /\ Goto("backend")
  <2>1. pc' = "backend" /\ queued' = queued
    BY <1>6 DEF Goto, queueVars
  <2>2. /\ Ordered' /\ Content' = Content
        /\ work'.binding = binding' /\ work'.spec = work.spec /\ work'.content = work.content
        /\ binding'.uid = binding.uid /\ binding'.gen = binding.gen
        /\ binding'.config = binding.config /\ binding'.provider = binding.provider
        /\ binding'["gatewayRef"] = work.content.gateway
    BY <1>2, <1>6, AnnotationConverges
  <2>3. Stamped' /\ Settled'
    BY <2>1, <2>2 DEF Stamped, Settled
  <2>4. Informed'
    BY <1>2, <2>1, <2>2 DEF ConvergenceInv, Informed, Coming, Ours
  <2>5. QED
    BY <1>1, <1>3, <2>2, <2>3, <2>4 DEF ConvergenceInv
<1>7. QED
  BY <1>4, <1>5, <1>6 DEF Stamp, EnsureAnnotation

\* The port is that of the Service now, or the Service's event is on its way.
LEMMA BackendConverges == ASSUME ConvergenceInv, Backend PROVE ConvergenceInv'
<1>1. ProviderInv'
  BY NextStep DEF Kept, ConvergenceInv, Next, Worker
<1>2. /\ pc = "backend" /\ pc' = "record" /\ queued' = queued
      /\ UNCHANGED <<binding, cbinding, lastUid, route, croute, cserver, config, changed, services>>
  BY DEF Backend, Goto, cacheVars, apiVars, queueVars
<1>3. work' = [work EXCEPT !.port = BackendPort(work.spec)] /\ work \in WorkType
  BY DEF Backend, BackendPort, ConvergenceInv, ProviderInv, CopiesOK
<1>4. /\ work'.binding = work.binding /\ work'.spec = work.spec
      /\ work'.content = work.content /\ work'.port = BackendPort(work.spec)
  BY <1>3 DEF WorkType
<1>5. RoutesOK' /\ Ordered' /\ Settled'
  BY <1>2 DEF ConvergenceInv, RoutesOK, Ordered, Settled
<1>6. Stamped'
  BY <1>2, <1>4 DEF ConvergenceInv, Stamped
<1>7. Content' = Content /\ BackendPort(work.spec)' = BackendPort(work.spec)
  BY <1>2, <1>4 DEF Content, BackendPort
<1>8. Informed'
  BY <1>2, <1>4, <1>7 DEF ConvergenceInv, Informed, Coming
<1>9. QED
  BY <1>1, <1>5, <1>6, <1>8 DEF ConvergenceInv

\* From here on an event of the Service finds the binding.
LEMMA RecordConverges == ASSUME ConvergenceInv, Record PROVE ConvergenceInv'
<1>1. ProviderInv'
  BY NextStep DEF Kept, ConvergenceInv, Next, Worker
<1>2. pc = "record" /\ UNCHANGED <<cbinding, lastUid, route, croute, cserver, config, changed,
                                   services>>
  BY DEF Record, EnsureAnnotation, cacheVars
<1>3. RoutesOK'
  BY <1>2 DEF ConvergenceInv, RoutesOK
<1>4. work.binding.gatewayRef = work.content.gateway
  BY <1>2 DEF ConvergenceInv, Stamped
<1>5. CASE /\ work.binding["serviceRef"] = work.spec.service
           /\ Goto("apply") /\ UNCHANGED <<binding, work>>
  <2>1. pc' = "apply" /\ queued' = queued /\ work' = work /\ binding' = binding
    BY <1>5 DEF Goto, queueVars
  <2>2. Ordered' /\ Stamped' /\ Settled'
    BY <1>2, <1>5, <2>1 DEF ConvergenceInv, Ordered, Stamped, Settled
  <2>3. Content' = Content /\ BackendPort(work.spec)' = BackendPort(work.spec)
    BY <1>2, <2>1 DEF Content, BackendPort
  <2>4. Informed'
    BY <1>2, <1>4, <2>1, <2>3 DEF ConvergenceInv, Informed, Coming
  <2>5. QED
    BY <1>1, <1>3, <2>2, <2>4 DEF ConvergenceInv
<1>6. CASE binding.uid = 0 /\ Finish("error") /\ UNCHANGED binding
  BY <1>2, <1>6, FailureConverges DEF Record, EnsureAnnotation, Next, Worker, apiVars
<1>7. CASE /\ binding.uid # 0
           /\ binding' = [binding EXCEPT !["serviceRef"] = work.spec.service]
           /\ work' = [work EXCEPT !.binding = binding']
           /\ Goto("apply")
  <2>1. pc' = "apply" /\ queued' = queued
    BY <1>7 DEF Goto, queueVars
  <2>2. /\ Ordered' /\ Content' = Content
        /\ work'.binding = binding' /\ work'.spec = work.spec
        /\ work'.content = work.content /\ work'.port = work.port
        /\ binding'.uid = binding.uid /\ binding'.gen = binding.gen
        /\ binding'.config = binding.config /\ binding'.provider = binding.provider
        /\ binding'["serviceRef"] = work.spec.service
        /\ binding'.gatewayRef = binding.gatewayRef
    BY <1>2, <1>7, AnnotationConverges
  <2>3. Stamped' /\ Settled'
    BY <2>1, <2>2 DEF Stamped, Settled
  <2>4. BackendPort(work.spec)' = BackendPort(work.spec)
    BY <1>2, <2>2 DEF BackendPort
  <2>5. Informed'
    BY <1>2, <1>4, <2>1, <2>2, <2>4 DEF ConvergenceInv, Informed, Coming, Ours
  <2>6. QED
    BY <1>1, <1>3, <2>2, <2>3, <2>5 DEF ConvergenceInv
<1>8. QED
  BY <1>5, <1>6, <1>7 DEF Record, EnsureAnnotation

\* The route that ApplyHTTPRoute asks for.
LEMMA DesiredType ==
    ASSUME ProviderInv, pc = "apply", work.port # None, work.content.routeHost # Malformed
    PROVE  DesiredRoute(work.content, work.spec, work.port) \in RouteSpecs
<1>1. work \in WorkType /\ work.content \in Contents /\ work.spec \in ServerSpecs
  BY DEF ProviderInv, CopiesOK, Known, WorkType
<1>2. /\ work.content.gateway \in Gateways /\ work.content.routeHost \in Hosts \cup {None}
  BY <1>1, ProviderAssumption DEF ProviderInv, Known
<1>3. work.spec.service \in Services \cup {"managed"} /\ work.port \in Ports \cup {"managed"}
  BY <1>1, ProviderAssumption DEF WorkType
<1>4. work.spec.path \in {s.path : s \in ServerSpecs}
  BY <1>1
<1>5. QED
  BY <1>2, <1>3, <1>4 DEF DesiredRoute, RouteSpecs

\* After ApplyHTTPRoute the API server has the desired route, or the cache had.
LEMMA ApplyConverges == ASSUME ConvergenceInv, ApplyHTTPRoute PROVE ConvergenceInv'
<1> DEFINE desired == DesiredRoute(work.content, work.spec, work.port)
           updated == [croute EXCEPT !.owner = work.binding.uid, !.spec = desired,
                                     !.gen = IF croute.spec = desired THEN croute.gen
                                             ELSE croute.gen + 1]
           created == [NoRoute EXCEPT !.owner = work.binding.uid, !.gen = 1, !.spec = desired]
<1>1. ProviderInv'
  BY NextStep DEF Kept, ConvergenceInv, Next, Worker
<1>2. pc = "apply" /\ UNCHANGED <<binding, cbinding, lastUid, croute, cserver, config, changed,
                                  services>>
  BY DEF ApplyHTTPRoute, cacheVars
<1>3. Ordered'
  BY <1>2 DEF ConvergenceInv, Ordered
<1>4. Content' = Content
  BY <1>2 DEF Content
<1>5. CASE Finish("error") /\ UNCHANGED route
  BY <1>2, <1>5, FailureConverges DEF ApplyHTTPRoute, Next, Worker, apiVars
<1>6. CASE work.content.routeHost = Malformed /\ Goto("delete") /\ UNCHANGED <<route, work>>
  <2>1. pc' = "delete" /\ queued' = queued /\ work' = work /\ route' = route
    BY <1>6 DEF Goto, queueVars
  <2>2. RoutesOK' /\ Stamped' /\ Settled'
    BY <1>2, <1>6, <2>1 DEF ConvergenceInv, RoutesOK, Stamped, Settled, RoutableContent
  <2>3. Informed'
    BY <1>2, <1>4, <2>1 DEF ConvergenceInv, Informed, Coming
  <2>4. QED
    BY <1>1, <1>3, <2>2, <2>3 DEF ConvergenceInv
<1>7. CASE /\ work.port # None /\ work.content.routeHost # Malformed
           /\ route' \in {created, updated} \/ (updated = croute /\ route' = route)
           /\ Goto("judge") /\ UNCHANGED work
  <2>1. pc' = "judge" /\ queued' = queued /\ work' = work
    BY <1>7 DEF Goto, queueVars
  <2>2. desired \in RouteSpecs
    BY <1>2, <1>7, DesiredType DEF ConvergenceInv
  <2>3. work.binding.uid \in Nat
    BY DEF ConvergenceInv, ProviderInv, CopiesOK, WorkType, BindingType
  <2> HIDE DEF desired
  <2>4. /\ created \in RouteType /\ created.owner = work.binding.uid /\ created.spec = desired
        /\ created.accepted.gen <= created.gen
    <3>1. 1 \in Nat /\ NoRoute \in RouteType /\ NoRoute.accepted.gen = 0
      BY RouteTyped
    <3>2. /\ created \in RouteType /\ created.owner = work.binding.uid /\ created.spec = desired
          /\ created.gen = 1 /\ created.accepted = NoRoute.accepted
      BY <2>2, <2>3, <3>1 DEF RouteType
    <3>3. QED
      BY <3>1, <3>2, SMTT(60)
  <2>5. /\ updated \in RouteType /\ updated.owner = work.binding.uid /\ updated.spec = desired
        /\ updated.accepted.gen <= updated.gen
    <3> DEFINE n == IF croute.spec = desired THEN croute.gen ELSE croute.gen + 1
    <3>1. /\ croute \in RouteType /\ croute.gen \in Nat /\ croute.accepted.gen \in Nat
          /\ croute.accepted.gen <= croute.gen
      BY DEF ConvergenceInv, RoutesOK, RouteType
    <3>2. n \in Nat /\ croute.accepted.gen <= n
      BY <3>1, SMTT(60)
    <3> HIDE DEF n
    <3>3. updated = [croute EXCEPT !.owner = work.binding.uid, !.spec = desired, !.gen = n]
      BY DEF n
    <3>4. /\ updated \in RouteType /\ updated.owner = work.binding.uid /\ updated.spec = desired
          /\ updated.gen = n /\ updated.accepted = croute.accepted
      BY <2>2, <2>3, <3>1, <3>2, <3>3 DEF RouteType
    <3>5. QED
      BY <3>2, <3>4
  <2> HIDE DEF created, updated
  <2>6. RoutesOK'
    BY <1>2, <1>7, <2>2, <2>4, <2>5 DEF ConvergenceInv, RoutesOK
  <2>7. Stamped' /\ Settled'
    BY <1>2, <1>7, <2>1 DEF ConvergenceInv, Stamped, Settled
  <2>8. RouteFor(croute)' \/ RouteFor(route)'
    BY <1>2, <1>7, <2>1, <2>4, <2>5 DEF RouteFor, desired
  <2>9. BackendPort(work.spec)' = BackendPort(work.spec)
    BY <1>2, <2>1 DEF BackendPort
  <2>10. Informed'
    BY <1>2, <1>4, <2>1, <2>8, <2>9 DEF ConvergenceInv, Informed, Coming
  <2>11. QED
    BY <1>1, <1>3, <2>6, <2>7, <2>10 DEF ConvergenceInv
<1>8. QED
  BY <1>5, <1>6, <1>7 DEF ApplyHTTPRoute

\* A stale route is gone from the API server, or the cache had none.
LEMMA DeleteConverges == ASSUME ConvergenceInv, DeleteStaleHTTPRoute PROVE ConvergenceInv'
<1>1. ProviderInv'
  BY NextStep DEF Kept, ConvergenceInv, Next, Worker
<1>2. /\ pc = "delete" /\ pc' = "unregister" /\ queued' = queued
      /\ UNCHANGED <<binding, cbinding, lastUid, croute, cserver, config, changed, services, work>>
      /\ route' = IF croute.owner = work.binding.uid THEN NoRoute ELSE route
  BY DEF DeleteStaleHTTPRoute, Goto, cacheVars, queueVars
<1>3. RoutesOK' /\ Ordered' /\ Stamped' /\ Settled'
  BY <1>2, RouteTyped, SMTT(60) DEF ConvergenceInv, RoutesOK, Ordered, Stamped, Settled
<1>4. Content' = Content
  BY <1>2 DEF Content
<1>5. croute'.owner # work'.binding.uid \/ route'.owner # work'.binding.uid
  BY <1>2, RouteTyped DEF ConvergenceInv, ProviderInv, Known
<1>6. Informed'
  BY <1>2, <1>4, <1>5 DEF ConvergenceInv, Informed, Coming
<1>7. QED
  BY <1>1, <1>3, <1>6 DEF ConvergenceInv

\* A report that is not repeated and that the cache has was made on the binding
\* as it is and from what the cluster still says.
LEMMA ReportConverges ==
    ASSUME ConvergenceInv, NEW reason \in Reasons, NEW url \in Url \cup {None}, NEW outcome,
           UpdateBindingStatus(reason, url, outcome), pc # "idle",
           Ours(binding)', ~queued', cbinding = binding', binding.config \notin changed
    PROVE  /\ work.binding = binding /\ binding' = Reported(binding, reason, url)
           /\ Ours(binding) /\ ~Coming /\ Content' = Content
           /\ binding'.config = binding.config /\ binding'.gen = binding.gen
           /\ binding'.uid = binding.uid /\ binding'.observed = binding.gen
           /\ binding'.reason = reason /\ binding'.url = url
           /\ binding'.gatewayRef = binding.gatewayRef
           /\ binding'.serviceRef = binding.serviceRef
           /\ work.spec = cserver /\ (binding.config \in changed \/ work.content = Content)
<1> DEFINE held == work.binding
           reported == Reported(held, reason, url)
<1>1. /\ binding' = IF held = binding THEN reported ELSE binding
      /\ queued' = (queued \/ (IF reported # held /\ held # binding THEN "error" ELSE outcome) = "error")
      /\ UNCHANGED <<config, cbinding>>
  BY DEF UpdateBindingStatus, Reported, Finish, cacheVars
<1>2. held = binding
  <2> SUFFICES ASSUME held # binding PROVE FALSE
    OBVIOUS
  <2>1. binding' = binding /\ ~queued /\ cbinding = binding
    BY <1>1
  <2>2. ~Coming /\ Ours(binding)
    BY <2>1 DEF Coming, Ours
  <2>3. work.binding \in {binding, cbinding}
    BY <2>2 DEF ConvergenceInv, Informed
  <2>4. QED
    BY <2>1, <2>3
<1>3. binding' = Reported(binding, reason, url) /\ binding \in BindingType
  BY <1>1, <1>2 DEF ConvergenceInv, ProviderInv, CopiesOK
<1>4. /\ binding'.config = binding.config /\ binding'.gen = binding.gen
      /\ binding'.uid = binding.uid /\ binding'.observed = binding.gen
      /\ binding'.reason = reason /\ binding'.url = url
      /\ binding'.provider = binding.provider
      /\ binding'.gatewayRef = binding.gatewayRef /\ binding'.serviceRef = binding.serviceRef
  BY <1>3 DEF Reported, BindingType
<1>5. ~Coming /\ Ours(binding)
  BY <1>1, <1>4 DEF Coming, Ours
<1>6. Content' = Content
  BY <1>1, <1>4 DEF Content
<1>7. QED
  BY <1>2, <1>3, <1>4, <1>5, <1>6 DEF ConvergenceInv, Informed

\* UpdateBindingStatus ends the reconcile and leaves everything else alone.
LEMMA ReportFrame ==
    ASSUME ConvergenceInv, NEW reason, NEW url, NEW outcome, Next,
           UpdateBindingStatus(reason, url, outcome)
    PROVE  /\ ProviderInv' /\ RoutesOK' /\ Ordered' /\ Stamped' /\ Informed'
           /\ UNCHANGED <<route, config, services, cserver, cbinding, croute, cgateways, changed>>
<1>1. /\ UNCHANGED <<route, config, services, cserver, cbinding, croute, cgateways, changed, lastUid>>
      /\ pc' = "idle"
      /\ binding' = IF work.binding = binding THEN Reported(binding, reason, url) ELSE binding
  BY DEF UpdateBindingStatus, Reported, Finish, cacheVars
<1>2. ProviderInv'
  BY NextStep DEF Kept, ConvergenceInv
<1>3. RoutesOK' /\ Stamped' /\ Informed'
  BY <1>1 DEF ConvergenceInv, RoutesOK, Stamped, Informed
<1>4. /\ binding'.uid = binding.uid /\ binding'.gen = binding.gen
      /\ binding'.provider = binding.provider /\ binding'.config = binding.config
  BY <1>1 DEF ConvergenceInv, ProviderInv, CopiesOK, BindingType, Reported
<1>5. Ordered'
  BY <1>1, <1>4 DEF ConvergenceInv, Ordered
<1>6. QED
  BY <1>1, <1>2, <1>3, <1>5

\* The report of a binding that is not routable.
LEMMA UnregisterConverges == ASSUME ConvergenceInv, Unregister PROVE ConvergenceInv'
<1>1. pc = "unregister" /\ UpdateBindingStatus("NotRegistered", None, "done") /\ Next
  BY DEF Unregister, Next, Worker
<1>2. /\ ProviderInv' /\ RoutesOK' /\ Ordered' /\ Stamped' /\ Informed'
      /\ UNCHANGED <<route, config, services, cserver, cbinding, croute, cgateways, changed>>
  BY <1>1, ReportFrame
<1>3. Settled'
  <2> SUFFICES ASSUME Ours(binding)', ~queued', (cbinding = binding)',
                      (binding.config \notin changed)'
               PROVE  Settled'
    BY DEF Settled
  <2>1. binding'.config = binding.config
    BY <1>1 DEF UpdateBindingStatus, ConvergenceInv, ProviderInv, CopiesOK, BindingType
  <2>2. "NotRegistered" \in Reasons /\ None \in Url \cup {None} /\ binding.config \notin changed
    BY <1>2, <2>1 DEF Reasons
  <2>3. /\ work.binding = binding /\ Ours(binding) /\ ~Coming /\ Content' = Content
        /\ binding'.gen = binding.gen
        /\ binding'.uid = binding.uid /\ binding'.observed = binding.gen
        /\ binding'.reason = "NotRegistered" /\ binding'.url = None
        /\ work.content = Content
    BY <1>1, <1>2, <2>2, ReportConverges
  <2>4. ~Routable'
    BY <1>1, <2>3 DEF ConvergenceInv, Stamped, RoutableContent, Routable
  <2>5. croute.owner # binding.uid \/ route.owner # binding.uid
    BY <1>1, <2>3 DEF ConvergenceInv, Informed
  <2>6. RouteRight(croute)' \/ RouteRight(route)'
    BY <1>2, <2>3, <2>4, <2>5 DEF RouteRight
  <2>7. RefsRight' /\ StatusRight'
    BY <2>3, <2>4 DEF RefsRight, StatusRight
  <2>8. QED
    BY <2>6, <2>7 DEF Settled
<1>4. QED
  BY <1>2, <1>3 DEF ConvergenceInv

\* The verdict that Judge reaches on the cached route.
Verdict ==
    IF ~IsHTTPRouteAccepted(croute, work.content.gateway) THEN "RouteNotAccepted"
    ELSE IF PublicHost(work.content, cgateways) = None THEN "PublicAddressPending"
    ELSE "Registered"

VerdictUrl ==
    IF Verdict = "Registered" THEN PublicUrl(work.content, work.spec, cgateways) ELSE None

\* It is one of the reasons, and comes with a URL when it is Registered.
LEMMA VerdictType ==
    ASSUME ProviderInv, pc = "judge"
    PROVE  Verdict \in Reasons /\ VerdictUrl \in Url \cup {None}
<1>1. /\ work.content \in Contents /\ work.spec \in ServerSpecs
      /\ cgateways \in [Gateways -> GatewayStatus]
      /\ work.content.gateway # None /\ work.content.routeHost # Malformed
  BY DEF ProviderInv, CopiesOK, Known, WorkType
<1>2. Verdict \in Reasons
  BY DEF Verdict, Reasons
<1>3. CASE Verdict = "Registered"
  <2>1. PublicHost(work.content, cgateways) # None
    BY <1>3 DEF Verdict
  <2>2. PublicUrl(work.content, work.spec, cgateways) \in Url
    BY <1>1, <2>1, UrlType
  <2>3. QED
    BY <1>2, <1>3, <2>2 DEF VerdictUrl
<1>4. CASE Verdict # "Registered"
  BY <1>2, <1>4 DEF VerdictUrl
<1>5. QED
  BY <1>3, <1>4

\* Judge reports it, or fails.
LEMMA JudgeReports ==
    ASSUME Judge
    PROVE  \/ Finish("error") /\ UNCHANGED <<apiVars, cacheVars, changed, disturbances>>
           \/ \E outcome : UpdateBindingStatus(Verdict, VerdictUrl, outcome)
<1>1. CASE croute.owner = 0
  BY <1>1 DEF Judge
<1>2. CASE croute.owner # 0 /\ ~IsHTTPRouteAccepted(croute, work.content.gateway)
  <2>1. Verdict = "RouteNotAccepted" /\ VerdictUrl = None
    BY <1>2 DEF Verdict, VerdictUrl
  <2>2. UpdateBindingStatus(Verdict, VerdictUrl, "later")
    BY <1>2, <2>1 DEF Judge
  <2>3. QED
    BY <2>2
<1>3. CASE /\ croute.owner # 0 /\ IsHTTPRouteAccepted(croute, work.content.gateway)
           /\ PublicHost(work.content, cgateways) = None
  <2>1. Verdict = "PublicAddressPending" /\ VerdictUrl = None
    BY <1>3 DEF Verdict, VerdictUrl
  <2>2. UpdateBindingStatus(Verdict, VerdictUrl, "later")
    BY <1>3, <2>1 DEF Judge
  <2>3. QED
    BY <2>2
<1>4. CASE /\ croute.owner # 0 /\ IsHTTPRouteAccepted(croute, work.content.gateway)
           /\ PublicHost(work.content, cgateways) # None
  <2>1. Verdict = "Registered" /\ VerdictUrl = PublicUrl(work.content, work.spec, cgateways)
    BY <1>4 DEF Verdict, VerdictUrl
  <2>2. UpdateBindingStatus(Verdict, VerdictUrl, "done")
    BY <1>4, <2>1 DEF Judge
  <2>3. QED
    BY <2>2
<1>5. QED
  BY <1>1, <1>2, <1>3, <1>4

\* The report of a binding that is routable.
LEMMA JudgeConverges == ASSUME ConvergenceInv, Judge PROVE ConvergenceInv'
<1>1. pc = "judge" /\ Next
  BY DEF Judge, Next, Worker
<1>2. CASE Finish("error") /\ UNCHANGED <<apiVars, cacheVars, changed, disturbances>>
  BY <1>1, <1>2, FailureConverges
<1>3. CASE \E outcome : UpdateBindingStatus(Verdict, VerdictUrl, outcome)
  <2>1. PICK outcome : UpdateBindingStatus(Verdict, VerdictUrl, outcome)
    BY <1>3
  <2>2. Verdict \in Reasons /\ VerdictUrl \in Url \cup {None}
    BY <1>1, VerdictType DEF ConvergenceInv
  <2>3. /\ ProviderInv' /\ RoutesOK' /\ Ordered' /\ Stamped' /\ Informed'
        /\ UNCHANGED <<route, config, services, cserver, cbinding, croute, cgateways, changed>>
    BY <1>1, <2>1, ReportFrame
  <2>4. Settled'
    <3> SUFFICES ASSUME Ours(binding)', ~queued', (cbinding = binding)',
                        (binding.config \notin changed)'
                 PROVE  Settled'
      BY DEF Settled
    <3>1. binding'.config = binding.config
      BY <2>1 DEF UpdateBindingStatus, ConvergenceInv, ProviderInv, CopiesOK, BindingType
    <3>2. binding.config \notin changed
      BY <2>3, <3>1
    <3>3. /\ work.binding = binding /\ Ours(binding) /\ ~Coming /\ Content' = Content
          /\ binding'.gen = binding.gen
          /\ binding'.uid = binding.uid /\ binding'.observed = binding.gen
          /\ binding'.reason = Verdict /\ binding'.url = VerdictUrl
          /\ binding'.gatewayRef = binding.gatewayRef /\ binding'.serviceRef = binding.serviceRef
          /\ work.spec = cserver /\ work.content = Content
      BY <1>1, <2>1, <2>2, <2>3, <3>2, ReportConverges
    <3>4. Routable' /\ Routable
      BY <1>1, <3>3 DEF ConvergenceInv, ProviderInv, Known, Routable
    <3>5. /\ binding.gatewayRef = Content.gateway /\ binding.serviceRef = cserver.service
      BY <1>1, <2>3, <3>3 DEF ConvergenceInv, Informed, Stamped
    <3>6. RefsRight'
      BY <2>3, <3>3, <3>5 DEF RefsRight
    <3>7. \/ work.port = BackendPort(cserver)
          \/ cserver.service \in changed
      BY <1>1, <2>3, <3>3, <3>5 DEF ConvergenceInv, Informed
    <3>8. CASE cserver.service \in changed
      BY <2>3, <3>4, <3>6, <3>8 DEF Settled
    <3>9. CASE work.port = BackendPort(cserver)
      <4>1. RouteFor(croute) \/ RouteFor(route)
        BY <1>1, <3>3 DEF ConvergenceInv, Informed
      <4>2. RouteRight(croute)' \/ RouteRight(route)'
        BY <2>3, <3>3, <3>4, <3>9, <4>1 DEF RouteFor, RouteRight, BackendPort
      <4>3. IsHTTPRouteAccepted(croute, Content.gateway)
               <=> croute.accepted = [by |-> Content.gateway, gen |-> croute.gen]
        BY SMTT(60) DEF IsHTTPRouteAccepted, ConvergenceInv, RoutesOK, RouteType
      <4>4. StatusRight'
        BY <2>3, <3>3, <3>4, <4>3 DEF StatusRight, Verdict, VerdictUrl
      <4>5. QED
        BY <3>6, <4>2, <4>4 DEF Settled
    <3>10. QED
      BY <3>7, <3>8, <3>9
  <2>5. QED
    BY <2>3, <2>4 DEF ConvergenceInv
<1>4. QED
  BY <1>2, <1>3, JudgeReports

-----------------------------------------------------------------------------
(* The theorems.                                                           *)

\* Every step keeps the invariant.
LEMMA ConvergenceStep == ConvergenceInv /\ [Next]_vars => ConvergenceInv'
<1> SUFFICES ASSUME ConvergenceInv, [Next]_vars PROVE ConvergenceInv'
  OBVIOUS
<1>1. CASE Environment
  BY <1>1, EditConverges, ReplacedConverges, UnreadConverges, ConfigConverges, ServiceConverges,
     VerdictConverges, GarbageConverges, EventsConverge DEF Environment
<1>2. CASE Informers
  BY <1>2, EventsConverge, ServerEventConverges, GatewayEventConverges, MetadataEventConverges
     DEF Informers
<1>3. CASE Worker
  <2>1. CASE CallFails
    BY <2>1, FailureConverges DEF CallFails, Next, Worker
  <2>2. CASE ~CallFails
    BY <1>3, <2>2, FetchConverges, StampConverges, BackendConverges, RecordConverges,
       ApplyConverges, JudgeConverges, DeleteConverges, UnregisterConverges DEF Worker
  <2>3. QED
    BY <2>1, <2>2
<1>4. CASE UNCHANGED vars
  <2>1. UNCHANGED <<binding, cbinding, lastUid, route, croute, pc, work, cserver, cgateways,
                    config, services, changed, queued>>
    BY <1>4 DEF vars, apiVars, cacheVars, queueVars
  <2>2. ProviderInv'
    BY NextStep DEF Kept, ConvergenceInv
  <2>3. RoutesOK' /\ Ordered' /\ Stamped'
    BY <2>1 DEF ConvergenceInv, RoutesOK, Ordered, Stamped
  <2>4. Content' = Content
    BY <2>1 DEF Content
  <2>5. Informed'
    BY <2>1, <2>4 DEF ConvergenceInv, Informed, Coming, RouteFor, BackendPort
  <2>6. /\ Routable' = Routable /\ RefsRight' = RefsRight /\ StatusRight' = StatusRight
        /\ RouteRight(route)' = RouteRight(route) /\ RouteRight(croute)' = RouteRight(croute)
    BY <2>1, <2>4 DEF Routable, RefsRight, StatusRight, RouteRight, BackendPort
  <2>7. Settled'
    BY <2>1, <2>6 DEF ConvergenceInv, Settled
  <2>8. QED
    BY <2>2, <2>3, <2>5, <2>7 DEF ConvergenceInv
<1>5. QED
  BY <1>1, <1>2, <1>3, <1>4 DEF Next

\* Whatever the order of edits, events, conflicts, failures and restarts, the
\* provider has converged or a reconcile that knows better is on its way:
\* Reconcile and its watches lose no update.
THEOREM ProviderConvergence == Spec => []ConvergenceInv
<1>1. QED
  BY ConvergenceInit, ConvergenceStep, PTL DEF Spec

\* A quiet provider satisfies what is Settled with nothing on its way.
LEMMA QuietSettled ==
    ASSUME ConvergenceInv, Quiet, Ours(binding), server # None
    PROVE  RouteRight(route) /\ StatusRight
BY DEF ConvergenceInv, Settled, Quiet

\* When the provider is quiet the HTTPRoute is the one that ApplyHTTPRoute
\* would write now, and a binding that is not routable controls none.
THEOREM RouteAtRest == Spec => []QuietRouteIsCurrent
<1>1. ConvergenceInv => QuietRouteIsCurrent
  BY QuietSettled DEF QuietRouteIsCurrent, RouteRight, BackendPort, Quiet
<1>2. QED
  BY <1>1, ProviderConvergence, PTL

\* When the provider is quiet the Registered condition and the URL are those
\* that Judge, or Unregister, would report now, for the current generation.
THEOREM StatusAtRest == Spec => []QuietStatusIsCurrent
<1>1. ConvergenceInv => QuietStatusIsCurrent
  BY QuietSettled DEF QuietStatusIsCurrent, StatusRight, Quiet
<1>2. QED
  BY <1>1, ProviderConvergence, PTL
=============================================================================
