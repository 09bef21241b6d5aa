---------------------- MODULE KuadrantConvergenceProofs ----------------------
(***************************************************************************)
(* The kuadrant provider loses no update: when it is quiet the HTTPRoute,  *)
(* the MCPServerRegistration and the status of each binding are what the   *)
(* objects it reads ask for, and no two registrable bindings share a tool  *)
(* prefix.                                                                 *)
(***************************************************************************)
EXTENDS KuadrantProofs

\* A leaf is left to Zenon unless it names another prover.
USE ZenonT(60)

-----------------------------------------------------------------------------
(* Nothing is lost: the environment and the caches.                        *)

Everywhere == \A m \in Names : NameInv(m)'

\* Whatever happened, a reconcile will look at n again.
LEMMA ComingInv ==
    ASSUME NEW n \in Names, Ordered(n)',
           \/ n \in queued' \/ ~Ours(binding'[n])
           \/ cbinding'[n].uid # binding'[n].uid \/ cbinding'[n].gen # binding'[n].gen
    PROVE  NameInv(n)'
BY DEF NameInv, Informed, Settled, Coming

\* Nothing that events tell of changes.
LEMMA StillUnheard ==
    ASSUME UNCHANGED <<config, services, cexts, cgateways, changed>>, NEW n
    PROVE  Unheard(n)
BY DEF Unheard

\* A name whose objects, copies and workqueue entry stay as they are.
LEMMA StillUnmoved ==
    ASSUME NEW n, UNCHANGED <<binding[n], lastUid[n], cbinding[n], croute[n], creg[n], cserver[n],
                              route[n], reg[n]>>,
           n \in queued => n \in queued'
    PROVE  Unmoved(n)
BY DEF Unmoved, Alike

\* Whatever becomes of a binding, the reconcile of its new state is to come.
LEMMA BindingInv ==
    ASSUME ConvergenceInv, NEW n \in Names, EditBinding(n) \/ DeleteBinding(n) \/ CreateBinding(n)
    PROVE  Everywhere
<1>1. /\ UNCHANGED <<route, reg, worldVars, cacheVars, changed, queueVars, workVars>>
      /\ \A m \in Names \ {n} : binding'[m] = binding[m] /\ lastUid'[m] = lastUid[m]
      /\ Ordered(n)'
      /\ \/ binding'[n].uid = 0
         \/ cbinding'[n].uid # binding'[n].uid \/ cbinding'[n].gen # binding'[n].gen
  BY EditEffect, ReplaceEffect
<1>2. ASSUME NEW m \in Names \ {n} PROVE NameInv(m)'
  <2>1. Unmoved(m)
    BY <1>1, StillUnmoved DEF cacheVars, queueVars
  <2>2. Unheard(m) /\ SameWork(m)
    BY <1>1, StillUnheard DEF worldVars, cacheVars, workVars, SameWork
  <2>3. QED
    BY <2>1, <2>2, UnmovedInv DEF ConvergenceInv
<1>3. NameInv(n)'
  BY <1>1, ComingInv DEF Ours
<1>4. QED
  BY <1>2, <1>3 DEF Everywhere

\* Garbage collection and the verdicts of other controllers change nothing
\* that the provider asks of its objects.
LEMMA OwnedInv ==
    ASSUME ConvergenceInv, NEW n \in Names,
           CollectGarbage(n) \/ RouteJudged(n) \/ RegistrationJudged(n)
    PROVE  Everywhere
<1>1. UNCHANGED <<binding, lastUid, worldVars, cacheVars, changed, queueVars, workVars>>
  BY DEF CollectGarbage, RouteJudged, RegistrationJudged
<1>2. /\ ObjectsOK /\ NoRoute.owner = 0 /\ NoReg.owner = 0
  BY NothingTyped DEF ConvergenceInv, Typed
<1>3. ASSUME NEW m \in Names, binding[m].uid # 0
      PROVE  Alike(binding[m], route[m], route'[m]) /\ Alike(binding[m], reg[m], reg'[m])
  <2>1. CASE CollectGarbage(n)
    <3>1. /\ \A k \in Names \ {n} : route'[k] = route[k] /\ reg'[k] = reg[k]
          /\ route'[n] = route[n] \/ (route'[n] = NoRoute /\ route[n].owner # binding[n].uid)
          /\ reg'[n] = reg[n] \/ (reg'[n] = NoReg /\ reg[n].owner # binding[n].uid)
      BY <1>2, <2>1, GarbageEffect
    <3>2. QED
      BY <1>2, <1>3, <3>1 DEF Alike
  <2>2. CASE RouteJudged(n)
    BY <1>2, <2>2, RouteJudgedEffect DEF Alike, RouteJudged
  <2>3. CASE RegistrationJudged(n)
    BY <1>2, <2>3, RegistrationJudgedEffect DEF Alike, RegistrationJudged
  <2>4. QED
    BY <2>1, <2>2, <2>3
<1>4. ASSUME NEW m \in Names, binding[m].uid # 0 PROVE NameInv(m)'
  <2>1. Unmoved(m)
    BY <1>1, <1>3, <1>4 DEF Unmoved, cacheVars, queueVars
  <2>2. Unheard(m) /\ SameWork(m)
    BY <1>1, StillUnheard DEF worldVars, cacheVars, workVars, SameWork
  <2>3. QED
    BY <2>1, <2>2, UnmovedInv DEF ConvergenceInv
<1>5. ASSUME NEW m \in Names, binding[m].uid = 0 PROVE NameInv(m)'
  <2>1. Ordered(m)' /\ ~Ours(binding'[m])
    BY <1>1, <1>5 DEF ConvergenceInv, NameInv, Ordered, Ours, cacheVars
  <2>2. QED
    BY <2>1, ComingInv
<1>6. QED
  BY <1>4, <1>5 DEF Everywhere

\* Of what changes elsewhere, what is read without a cache is announced.
LEMMA WorldInv == ASSUME ConvergenceInv, WorldChanges PROVE Everywhere
<1>1. /\ UNCHANGED <<objectVars, cacheVars, queueVars, workVars>>
      /\ changed \subseteq changed'
      /\ \A c \in ConfigMaps : config'[c] = config[c] \/ c \in changed'
      /\ \A s \in Services : services'[s] = services[s] \/ s \in changed'
  BY WorldEffect DEF ConvergenceInv
<1>2. ASSUME NEW m \in Names PROVE NameInv(m)'
  <2>1. Unmoved(m) /\ SameWork(m)
    BY <1>1, StillUnmoved DEF objectVars, cacheVars, queueVars, workVars, SameWork
  <2>2. Unheard(m)
    BY <1>1 DEF Unheard, cacheVars
  <2>3. QED
    BY <2>1, <2>2, UnmovedInv DEF ConvergenceInv
<1>3. QED
  BY <1>2 DEF Everywhere

\* A binding that the cache does not take for the provider's own.
LEMMA NotOursInv ==
    ASSUME NEW n \in Names, Ordered(n), ~Ours(cbinding[n]),
           UNCHANGED <<binding[n], lastUid[n], cbinding[n]>>
    PROVE  NameInv(n)'
<1>1. Ordered(n)'
  BY DEF Ordered
<1>2. ~Ours(binding'[n]) \/ cbinding'[n].uid # binding'[n].uid
  BY DEF Ordered, Ours
<1>3. QED
  BY <1>1, <1>2, ComingInv

\* The event of a binding has it reconciled.
LEMMA SyncBindingInv == ASSUME ConvergenceInv, NEW n \in Names, SyncBinding(n) PROVE Everywhere
<1>1. /\ cbinding \in [Names -> BindingType] /\ binding[n] \in BindingType
      /\ cbinding' = [cbinding EXCEPT ![n] = binding[n]]
      /\ UNCHANGED <<objectVars, worldVars, cserver, croute, creg, cexts, cgateways,
                     changed, workVars>>
      /\ queued \subseteq queued' /\ (Ours(binding[n]) => n \in queued')
  BY DEF ConvergenceInv, Typed, ObjectsOK, SyncBinding, Enqueue
<1>2. cbinding'[n] = binding[n] /\ \A m \in Names \ {n} : cbinding'[m] = cbinding[m]
  BY <1>1
<1>3. ASSUME NEW m \in Names \ {n} PROVE NameInv(m)'
  <2>1. Unmoved(m) /\ SameWork(m)
    BY <1>1, <1>2, StillUnmoved DEF objectVars, workVars, SameWork
  <2>2. Unheard(m)
    BY <1>1, StillUnheard DEF worldVars
  <2>3. QED
    BY <2>1, <2>2, UnmovedInv DEF ConvergenceInv
<1>4. NameInv(n)'
  <2>1. /\ binding'[n] = binding[n] /\ lastUid'[n] = lastUid[n] /\ binding[n].gen \in Nat
        /\ Ordered(n)
    BY <1>1 DEF ConvergenceInv, NameInv, objectVars, BindingType
  <2>2. binding[n].gen <= binding[n].gen
    BY <2>1, SMTT(60)
  <2>3. Ordered(n)'
    BY <1>2, <2>1, <2>2 DEF Ordered
  <2>4. QED
    BY <1>1, <2>1, <2>3, ComingInv
<1>5. QED
  BY <1>3, <1>4 DEF Everywhere

\* So has the event of a route or a registration.
LEMMA SyncOwnedInv == ASSUME ConvergenceInv, SyncOwned PROVE Everywhere
<1>1. /\ croute \in [Names -> RouteType] /\ creg \in [Names -> RegType]
      /\ UNCHANGED <<objectVars, worldVars, cserver, cbinding, cexts, cgateways, changed,
                     workVars>>
      /\ queued \subseteq queued'
  BY DEF ConvergenceInv, Typed, ObjectsOK, SyncOwned, Enqueue, queueVars
<1>2. \A m \in Names : m \in queued' \/ (croute'[m] = croute[m] /\ creg'[m] = creg[m])
  BY <1>1 DEF SyncOwned, Enqueue
<1>3. ASSUME NEW m \in Names PROVE NameInv(m)'
  <2>1. CASE m \in queued'
    <3>1. Ordered(m)'
      BY <1>1 DEF ConvergenceInv, NameInv, Ordered, objectVars
    <3>2. QED
      BY <2>1, <3>1, ComingInv
  <2>2. CASE croute'[m] = croute[m] /\ creg'[m] = creg[m]
    <3>1. Unmoved(m) /\ SameWork(m)
      BY <1>1, <2>2, StillUnmoved DEF objectVars, workVars, SameWork
    <3>2. Unheard(m)
      BY <1>1, StillUnheard DEF worldVars
    <3>3. QED
      BY <3>1, <3>2, UnmovedInv DEF ConvergenceInv
  <2>3. QED
    BY <1>2, <2>1, <2>2
<1>4. QED
  BY <1>3 DEF Everywhere

\* The event of an MCPServer, an extension or a Gateway reaches the bindings
\* whose cached annotations name it; the others have not looked at it.
LEMMA SyncWorldInv == ASSUME ConvergenceInv, SyncWorld PROVE Everywhere
<1>1. /\ WorldOK
      /\ UNCHANGED <<objectVars, worldVars, cbinding, croute, creg, changed, workVars>>
      /\ queued \subseteq queued'
  BY DEF ConvergenceInv, Typed, SyncWorld, Enqueue
<1>2. ASSUME NEW m \in Names, Ours(cbinding[m])
      PROVE  m \in queued' \/ /\ cserver'[m] = cserver[m]
                              /\ cexts'[cbinding[m].extensionRef] = cexts[cbinding[m].extensionRef]
                              /\ cgateways'[cbinding[m].gatewayRef]
                                    = cgateways[cbinding[m].gatewayRef]
  <2>1. CASE \E n \in Names :
                /\ cserver' = [cserver EXCEPT ![n] = server[n]]
                /\ Enqueue(OursIn(cbinding) \cap {n}) /\ UNCHANGED <<cexts, cgateways>>
    BY <1>1, <1>2, <2>1 DEF WorldOK, Enqueue, OursIn
  <2>2. CASE \E g \in Gateways :
                /\ cgateways' = [cgateways EXCEPT ![g] = gateways[g]]
                /\ Enqueue({n \in OursIn(cbinding) : cbinding[n].gatewayRef = g})
                /\ UNCHANGED <<cserver, cexts>>
    <3>1. PICK g \in Gateways :
                /\ cgateways' = [cgateways EXCEPT ![g] = gateways[g]]
                /\ Enqueue({n \in OursIn(cbinding) : cbinding[n].gatewayRef = g})
      BY <2>2
    <3>2. CASE cbinding[m].gatewayRef = g
      BY <1>2, <3>1, <3>2 DEF Enqueue, OursIn
    <3>3. CASE cbinding[m].gatewayRef # g
      <4>1. cgateways'[cbinding[m].gatewayRef] = cgateways[cbinding[m].gatewayRef]
        BY <1>1, <3>1, <3>3, SMTT(60) DEF WorldOK
      <4>2. QED
        BY <2>2, <4>1
    <3>4. QED
      BY <3>2, <3>3
  <2>3. CASE \E e \in Exts :
                /\ cexts' = [cexts EXCEPT ![e] = exts[e]]
                /\ Enqueue({n \in OursIn(cbinding) : cbinding[n].extensionRef = e})
                /\ UNCHANGED <<cserver, cgateways>>
    <3>1. PICK e \in Exts :
                /\ cexts' = [cexts EXCEPT ![e] = exts[e]]
                /\ Enqueue({n \in OursIn(cbinding) : cbinding[n].extensionRef = e})
      BY <2>3
    <3>2. CASE cbinding[m].extensionRef = e
      BY <1>2, <3>1, <3>2 DEF Enqueue, OursIn
    <3>3. CASE cbinding[m].extensionRef # e
      <4>1. cexts'[cbinding[m].extensionRef] = cexts[cbinding[m].extensionRef]
        BY <1>1, <3>1, <3>3, SMTT(60) DEF WorldOK
      <4>2. QED
        BY <2>3, <4>1
    <3>4. QED
      BY <3>2, <3>3
  <2>4. QED
    BY <2>1, <2>2, <2>3 DEF SyncWorld
<1>3. ASSUME NEW m \in Names PROVE NameInv(m)'
  <2>1. CASE ~Ours(cbinding[m])
    BY <1>1, <2>1, NotOursInv DEF ConvergenceInv, NameInv, objectVars
  <2>2. CASE m \in queued'
    <3>1. Ordered(m)'
      BY <1>1 DEF ConvergenceInv, NameInv, Ordered, objectVars
    <3>2. QED
      BY <2>2, <3>1, ComingInv
  <2>3. CASE Ours(cbinding[m]) /\ m \notin queued'
    <3>1. /\ cserver'[m] = cserver[m]
          /\ cexts'[cbinding[m].extensionRef] = cexts[cbinding[m].extensionRef]
          /\ cgateways'[cbinding[m].gatewayRef] = cgateways[cbinding[m].gatewayRef]
      BY <1>2, <2>3
    <3>2. Unmoved(m) /\ SameWork(m)
      BY <1>1, <3>1, StillUnmoved DEF objectVars, workVars, SameWork
    <3>3. Unheard(m)
      BY <1>1, <3>1 DEF Unheard, worldVars
    <3>4. QED
      BY <3>2, <3>3, UnmovedInv DEF ConvergenceInv
  <2>4. QED
    BY <2>1, <2>2, <2>3
<1>4. QED
  BY <1>3 DEF Everywhere

\* The event of a ConfigMap or a Service, likewise.
LEMMA MetadataInv == ASSUME ConvergenceInv, MetadataEvent PROVE Everywhere
<1>1. PICK x \in changed :
         /\ changed' = changed \ {x}
         /\ Enqueue({n \in OursIn(cbinding) :
                       x \in {cbinding[n].config, cbinding[n].serviceRef}})
  BY DEF MetadataEvent
<1>2. UNCHANGED <<objectVars, worldVars, cacheVars, workVars>> /\ queued \subseteq queued'
  BY <1>1 DEF MetadataEvent, Enqueue
<1>3. ASSUME NEW m \in Names PROVE NameInv(m)'
  <2>1. CASE ~Ours(cbinding[m])
    BY <1>2, <2>1, NotOursInv DEF ConvergenceInv, NameInv, objectVars, cacheVars
  <2>2. CASE Ours(cbinding[m]) /\ x \in {cbinding[m].config, cbinding[m].serviceRef}
    <3>1. m \in queued'
      BY <1>1, <2>2 DEF Enqueue, OursIn
    <3>2. Ordered(m)'
      BY <1>2 DEF ConvergenceInv, NameInv, Ordered, objectVars, cacheVars
    <3>3. QED
      BY <3>1, <3>2, ComingInv
  <2>3. CASE x \notin {cbinding[m].config, cbinding[m].serviceRef}
    <3>1. Unmoved(m) /\ SameWork(m)
      BY <1>2, StillUnmoved DEF objectVars, cacheVars, workVars, SameWork
    <3>2. Unheard(m)
      BY <1>1, <1>2, <2>3 DEF Unheard, worldVars, cacheVars
    <3>3. QED
      BY <3>1, <3>2, UnmovedInv DEF ConvergenceInv
  <2>4. QED
    BY <2>1, <2>2, <2>3
<1>4. QED
  BY <1>3 DEF Everywhere

\* A timer only adds to the workqueue.
LEMMA TimerInv == ASSUME ConvergenceInv, TimerFires PROVE Everywhere
<1>1. /\ UNCHANGED <<objectVars, worldVars, cacheVars, changed, workVars>>
      /\ queued \subseteq queued'
  BY DEF TimerFires, Enqueue
<1>2. ASSUME NEW m \in Names PROVE NameInv(m)'
  <2>1. Unmoved(m) /\ SameWork(m)
    BY <1>1, StillUnmoved DEF objectVars, cacheVars, workVars, SameWork
  <2>2. Unheard(m)
    BY <1>1, StillUnheard DEF worldVars, cacheVars
  <2>3. QED
    BY <2>1, <2>2, UnmovedInv DEF ConvergenceInv
<1>3. QED
  BY <1>2 DEF Everywhere

\* A restart has every binding of the provider reconciled.
LEMMA RestartInv == ASSUME ConvergenceInv, RestartOperator PROVE Everywhere
<1>1. /\ UNCHANGED objectVars /\ cbinding' = binding
      /\ \A m \in Names : Ours(binding[m]) => m \in queued'
  BY DEF RestartOperator, OursIn
<1>2. ASSUME NEW m \in Names PROVE NameInv(m)'
  <2>1. /\ Ordered(m) /\ binding[m].gen \in Nat
        /\ binding'[m] = binding[m] /\ lastUid'[m] = lastUid[m] /\ cbinding'[m] = binding[m]
    BY <1>1 DEF ConvergenceInv, NameInv, Typed, ObjectsOK, BindingType, objectVars
  <2>2. binding[m].gen <= binding[m].gen
    BY <2>1, SMTT(60)
  <2>3. Ordered(m)'
    BY <2>1, <2>2 DEF Ordered
  <2>4. QED
    BY <1>1, <2>1, <2>3, ComingInv
<1>3. QED
  BY <1>2 DEF Everywhere

-----------------------------------------------------------------------------
(* Nothing is lost: the worker.                                            *)

\* The worker leaves the names alone that it does not work on.
LEMMA OthersInv ==
    ASSUME ConvergenceInv, NEW n \in Names, NEW m \in Names \ {n},
           pc = "idle" \/ work.name = n, pc' = "idle" \/ work'.name = n,
           UNCHANGED <<lastUid, worldVars, cacheVars, changed>>,
           UNCHANGED <<binding[m], route[m], reg[m]>>,
           m \in queued => m \in queued'
    PROVE  NameInv(m)'
<1>1. Unmoved(m)
  BY StillUnmoved DEF cacheVars
<1>2. Unheard(m)
  BY StillUnheard DEF worldVars, cacheVars
<1>3. SameWork(m)
  BY DEF SameWork, Busy
<1>4. QED
  BY <1>1, <1>2, <1>3, UnmovedInv DEF ConvergenceInv

\* A reconcile that fails is repeated.
LEMMA FailedInv ==
    ASSUME ConvergenceInv, pc # "idle", pc' = "idle", queued' = queued \cup {work.name},
           UNCHANGED <<objectVars, worldVars, cacheVars, changed>>
    PROVE  Everywhere
<1>1. PICK n \in Names : work.name = n
  BY WorkTyped DEF ConvergenceInv
<1>2. ASSUME NEW m \in Names \ {n} PROVE NameInv(m)'
  BY <1>1, OthersInv DEF objectVars
<1>3. NameInv(n)'
  <2>1. Ordered(n)' /\ n \in queued'
    BY <1>1 DEF ConvergenceInv, NameInv, Ordered, objectVars, cacheVars
  <2>2. QED
    BY <2>1, ComingInv
<1>4. QED
  BY <1>2, <1>3 DEF Everywhere

\* So is one whose call fails.
LEMMA CallFailsInv == ASSUME ConvergenceInv, CallFails PROVE Everywhere
BY FailedInv DEF CallFails, Finish, Enqueue

\* A cached binding of the provider's own that is not out of date is the
\* binding's spec.
LEMMA CachedSpec ==
    ASSUME NEW n \in Names, Ordered(n), Ours(binding[n]),
           cbinding[n].uid = binding[n].uid, cbinding[n].gen = binding[n].gen
    PROVE  cbinding[n].config = binding[n].config
BY DEF Ordered, Ours

\* A step of a reconcile of n that goes on.
LEMMA GoesOnInv ==
    ASSUME ConvergenceInv, NEW n \in Names, pc' # "idle", work'.name = n,
           Ordered(n)',
           Ours(binding'[n]) /\ ~Coming(n)' =>
              /\ ReadConfig(n)' /\ ReadExtension(n)' /\ ReadGateway(n)' /\ ReadService(n)'
              /\ Wrote(n)'
    PROVE  NameInv(n)'
BY DEF NameInv, Informed, Settled, Busy

\* Reconcile starts from what the caches hold and what the ConfigMap says now.
LEMMA FetchInv == ASSUME ConvergenceInv, NEW n \in Names, Fetch(n) PROVE Everywhere
<1>1. /\ pc = "idle" /\ queued' = queued \ {n} /\ Typed
      /\ UNCHANGED <<objectVars, worldVars, cacheVars, changed>>
      /\ \/ (~Ours(cbinding[n]) \/ cserver[n] = None) /\ UNCHANGED <<pc, work>>
         \/ Fetched(n)
  BY FetchCases DEF ConvergenceInv
<1>2. UNCHANGED <<binding, lastUid, route, reg, config, cbinding, croute, creg, cserver, cexts,
                  cgateways>>
  BY <1>1 DEF objectVars, worldVars, cacheVars
<1>3. Ordered(n) /\ Ordered(n)'
  BY <1>2 DEF ConvergenceInv, NameInv, Ordered
<1>4. ASSUME NEW m \in Names \ {n} PROVE NameInv(m)'
  <2>1. pc' = "idle" \/ work'.name = n
    BY <1>1 DEF Fetched
  <2>2. QED
    BY <1>1, <1>2, <2>1, OthersInv
<1>5. NameInv(n)'
  <2>1. CASE ~Ours(cbinding[n])
    BY <1>2, <1>3, <2>1, NotOursInv
  <2>2. CASE cserver[n] = None /\ UNCHANGED <<pc, work>>
    BY <1>1, <1>2, <1>3, <2>2 DEF NameInv, Informed, Settled, Busy
  <2>3. CASE Fetched(n)
    <3> SUFFICES ASSUME Ours(binding'[n]), ~Coming(n)'
                 PROVE  /\ ReadConfig(n)' /\ ReadExtension(n)' /\ ReadGateway(n)'
                        /\ ReadService(n)' /\ Wrote(n)'
      <4>1. pc' # "idle" /\ work'.name = n
        BY <2>3 DEF Fetched
      <4>2. QED
        BY <1>3, <4>1, GoesOnInv
    <3>1. cbinding[n].config = binding[n].config
      BY <1>2, <1>3, CachedSpec DEF Coming
    <3>2. /\ work'.spec = cserver[n] /\ work'.content = Content(n) /\ work'.binding = cbinding[n]
      BY <2>3, <3>1 DEF Fetched, FetchedContent, Content
    <3>3. ReadConfig(n)'
      BY <1>2, <3>2 DEF ReadConfig, Content
    <3>4. CASE ConfigInvalid(FetchedContent(n))
      <4>1. pc' = "deleteRoute" /\ work'.why = "InvalidConfig"
        BY <2>3, <3>4 DEF Fetched
      <4>2. QED
        BY <3>3, <4>1 DEF ReadExtension, ReadGateway, ReadService, Wrote, PastExtension,
           PastGateway, PastResolve, PastRecord, Giving
    <3>5. CASE ~ConfigInvalid(FetchedContent(n))
      <4>1. /\ pc' \in {"gatewayRef", "extensionRef"} /\ work'.content = FetchedContent(n)
            /\ pc' = "gatewayRef" => cbinding[n].extensionRef = FetchedContent(n).ext
        BY <2>3, <3>5 DEF Fetched
      <4>2. /\ ~Giving' /\ ~PastGateway' /\ ~PastResolve' /\ ~PastRecord' /\ Wrote(n)'
            /\ PastExtension' => pc' = "gatewayRef"
        BY <4>1 DEF PastExtension, PastGateway, PastResolve, PastRecord, Giving, Wrote
      <4>3. ReadExtension(n)'
        BY <1>2, <4>1, <4>2 DEF ReadExtension, Marked
      <4>4. QED
        BY <3>3, <4>2, <4>3 DEF ReadGateway, ReadService
    <3>6. QED
      BY <3>4, <3>5
  <2>4. QED
    BY <1>1, <2>1, <2>2, <2>3
<1>6. QED
  BY <1>4, <1>5 DEF Everywhere

\* EnsureBindingAnnotations leaves n with the annotation, in the binding or in
\* the cache, and nothing that the reconcile read is lost.
AnnotationHolds(n, held, key, value, next) ==
    /\ pc' = next /\ work'.name = n
    /\ work'.spec = held.spec /\ work'.content = held.content /\ work'.ext = held.ext
    /\ work'.section = held.section /\ work'.host = held.host /\ work'.port = held.port
    /\ work'.why = held.why
    /\ Ours(binding'[n]) /\ ~Coming(n)' =>
          /\ Ours(binding[n]) /\ ~Coming(n)
          /\ ReadConfig(n)' /\ Marked(n, key, value)'
          /\ \A k \in AnnotationKeys \ {key} : \A x : Marked(n, k, x) => Marked(n, k, x)'

\* It does so, or the reconcile is repeated.
LEMMA AnnotateInv ==
    ASSUME ConvergenceInv, NEW n \in Names, work.name = n, pc # "idle",
           NEW held \in WorkType, held.name = n, held.binding = work.binding,
           held.spec = work.spec, held.content = work.content,
           NEW key \in AnnotationKeys, NEW value \in AnnotationValues(key),
           NEW next, EnsureAnnotation(held, key, value, next),
           UNCHANGED <<lastUid, route, reg, worldVars, cacheVars, changed>>
    PROVE  /\ \A m \in Names \ {n} : NameInv(m)'
           /\ Ordered(n)'
           /\ n \in queued' \/ AnnotationHolds(n, held, key, value, next)
<1>1. /\ ObjectsOK /\ binding \in [Names -> BindingType] /\ Ordered(n) /\ Informed(n)
      /\ UNCHANGED <<cbinding, croute, creg, config, cserver>>
  BY DEF ConvergenceInv, Typed, ObjectsOK, NameInv, worldVars, cacheVars
<1>2. CASE /\ held.binding[key] = value /\ pc' = next /\ work' = held
           /\ UNCHANGED <<binding, queued, timer>>
  <2>1. \A m \in Names \ {n} : NameInv(m)'
    BY <1>1, <1>2, OthersInv
  <2>2. Ordered(n)'
    BY <1>1, <1>2 DEF Ordered
  <2>3. ASSUME Ours(binding'[n]), ~Coming(n)'
        PROVE  /\ Ours(binding[n]) /\ ~Coming(n)
               /\ ReadConfig(n)' /\ Marked(n, key, value)'
               /\ \A k \in AnnotationKeys \ {key} : \A x : Marked(n, k, x) => Marked(n, k, x)'
    <3>1. Ours(binding[n]) /\ ~Coming(n)
      BY <1>1, <1>2, <2>3 DEF Coming
    <3>2. ReadConfig(n)
      BY <1>1, <3>1 DEF Informed, Busy
    <3>3. ReadConfig(n)'
      BY <1>1, <1>2, <3>2 DEF ReadConfig, Content
    <3>4. Marked(n, key, value)'
      BY <1>1, <1>2, <3>2 DEF ReadConfig, Marked
    <3>5. QED
      BY <1>1, <1>2, <3>1, <3>3, <3>4 DEF Marked
  <2>4. QED
    BY <1>2, <2>1, <2>2, <2>3 DEF AnnotationHolds
<1>3. CASE /\ pc' = "idle" /\ work.name \in queued' /\ UNCHANGED binding
           /\ queued \subseteq queued'
  <2>1. \A m \in Names \ {n} : NameInv(m)'
    BY <1>1, <1>3, OthersInv
  <2>2. Ordered(n)'
    BY <1>1, <1>3 DEF Ordered
  <2>3. QED
    BY <1>3, <2>1, <2>2
<1>4. CASE pc' = next /\ Annotated(held, key, value) /\ UNCHANGED <<queued, timer>>
  <2>1. /\ \A m \in Names \ {n} : binding'[m] = binding[m]
        /\ work'.binding = binding'[n] /\ work'.name = n
        /\ work'.spec = held.spec /\ work'.content = held.content /\ work'.ext = held.ext
        /\ work'.section = held.section /\ work'.host = held.host /\ work'.port = held.port
        /\ work'.why = held.why
        /\ binding'[n].uid = binding[n].uid /\ binding'[n].gen = binding[n].gen
        /\ binding'[n].provider = binding[n].provider /\ binding'[n].config = binding[n].config
        /\ binding'[n][key] = value
        /\ \A k \in AnnotationKeys \ {key} : binding'[n][k] = binding[n][k]
    BY <1>1, <1>4, AnnotatedEffect, SMTT(60)
  <2>2. \A m \in Names \ {n} : NameInv(m)'
    BY <1>4, <2>1, OthersInv
  <2>3. Ordered(n)'
    BY <1>1, <2>1 DEF Ordered
  <2>4. ASSUME Ours(binding'[n]), ~Coming(n)'
        PROVE  /\ Ours(binding[n]) /\ ~Coming(n)
               /\ ReadConfig(n)' /\ Marked(n, key, value)'
               /\ \A k \in AnnotationKeys \ {key} : \A x : Marked(n, k, x) => Marked(n, k, x)'
    <3>1. Ours(binding[n]) /\ ~Coming(n)
      BY <1>1, <1>4, <2>1, <2>4 DEF Coming, Ours
    <3>2. ReadConfig(n)
      BY <1>1, <3>1 DEF Informed, Busy
    <3>3. ReadConfig(n)'
      BY <1>1, <2>1, <3>2 DEF ReadConfig, Content
    <3>4. Marked(n, key, value)'
      BY <2>1 DEF Marked
    <3>5. \A k \in AnnotationKeys \ {key} : \A x : Marked(n, k, x) => Marked(n, k, x)'
      BY <1>1, <2>1 DEF Marked
    <3>6. QED
      BY <3>1, <3>3, <3>4, <3>5
  <2>5. QED
    BY <1>4, <2>1, <2>2, <2>3, <2>4 DEF AnnotationHolds
<1>5. QED
  BY <1>1, <1>2, <1>3, <1>4, AnnotateCases

\* The extension is recorded before it is looked up.
LEMMA StampExtensionInv == ASSUME ConvergenceInv, StampExtension PROVE Everywhere
<1>0. PICK n \in Names : work.name = n
  BY WorkTyped DEF ConvergenceInv, StampExtension
<1>1. /\ pc = "extensionRef" /\ EnsureAnnotation(work, "extensionRef", work.content.ext, "gatewayRef")
      /\ UNCHANGED <<lastUid, route, reg, worldVars, cacheVars, changed>> /\ Typed
  BY DEF StampExtension, ConvergenceInv
<1>2. work \in WorkType /\ work.content \in Contents \cup {None}
  BY <1>1, WorkTyped
<1>3. work.why = "none" /\ ~ConfigInvalid(work.content)
  BY <1>1 DEF Typed, Known, Giving
<1>4. "extensionRef" \in AnnotationKeys
  BY ValuesTyped
<1>e. PICK e \in AnnotationValues("extensionRef") : work.content.ext = e
  BY <1>2, <1>3, ContentTyped, ValuesTyped
<1>h. PICK held \in WorkType : work = held
  BY <1>2
<1>5. /\ \A m \in Names \ {n} : NameInv(m)'
      /\ Ordered(n)'
      /\ n \in queued' \/ AnnotationHolds(n, held, "extensionRef", e, "gatewayRef")
  BY <1>0, <1>1, <1>4, <1>e, <1>h, AnnotateInv
<1>6. NameInv(n)'
  <2>1. CASE n \in queued'
    BY <1>5, <2>1, ComingInv
  <2>2. CASE AnnotationHolds(n, held, "extensionRef", e, "gatewayRef")
    <3>1. pc' = "gatewayRef" /\ work'.name = n /\ work'.content.ext = e
      BY <1>e, <1>h, <2>2 DEF AnnotationHolds
    <3>2. ~Giving' /\ ~PastGateway' /\ ~PastResolve' /\ ~PastRecord' /\ Wrote(n)' /\ pc' # "idle"
      BY <3>1 DEF Giving, PastGateway, PastResolve, PastRecord, Wrote
    <3> SUFFICES ASSUME Ours(binding'[n]), ~Coming(n)'
                 PROVE  /\ ReadConfig(n)' /\ ReadExtension(n)' /\ ReadGateway(n)'
                        /\ ReadService(n)' /\ Wrote(n)'
      BY <1>5, <3>1, <3>2, GoesOnInv
    <3>3. ReadConfig(n)' /\ Marked(n, "extensionRef", e)'
      BY <2>2 DEF AnnotationHolds
    <3>4. ReadExtension(n)'
      BY <3>1, <3>2, <3>3 DEF ReadExtension, Marked
    <3>5. QED
      BY <3>2, <3>3, <3>4 DEF ReadGateway, ReadService
  <2>3. QED
    BY <1>5, <2>1, <2>2
<1>7. QED
  BY <1>5, <1>6 DEF Everywhere

\* A reconcile of n that gives up and changes nothing but its own state.
LEMMA GivesUpInv ==
    ASSUME ConvergenceInv, NEW n \in Names, work.name = n, pc # "idle", ~Giving,
           NEW why \in Unregistrable, GiveUp(why),
           UNCHANGED <<objectVars, worldVars, cacheVars, changed>>
    PROVE  /\ \A m \in Names \ {n} : NameInv(m)'
           /\ Ordered(n)'
           /\ pc' = "deleteRoute" /\ work'.name = n /\ work'.why = why /\ Wrote(n)'
           /\ Giving' /\ work'.content = work.content /\ work'.ext = work.ext
           /\ work'.spec = work.spec /\ work'.binding = work.binding
           /\ work'.section = work.section /\ work'.host = work.host /\ work'.port = work.port
           /\ UNCHANGED <<binding, queued, cbinding, cserver, cexts, cgateways, config, services,
                          changed>>
           /\ Ours(binding'[n]) /\ ~Coming(n)' =>
                 /\ ReadConfig(n)'
                 /\ ReadConfig(n) /\ ReadExtension(n) /\ ReadGateway(n) /\ ReadService(n)
<1>1. work \in WorkType
  BY WorkTyped DEF ConvergenceInv
<1>2. /\ pc' = "deleteRoute" /\ UNCHANGED <<queued, timer>>
      /\ work' = [work EXCEPT !.why = why]
  BY DEF GiveUp, Goto, queueVars
<1>3. /\ work'.why = why /\ work'.name = n /\ work'.binding = work.binding
      /\ work'.spec = work.spec /\ work'.content = work.content /\ work'.ext = work.ext
      /\ work'.section = work.section /\ work'.host = work.host /\ work'.port = work.port
  BY <1>1, <1>2, GivenUpTyped
<1>4. UNCHANGED <<binding, lastUid, route, reg, cbinding, cserver, cexts, cgateways, config, services,
                  changed>>
  BY DEF objectVars, worldVars, cacheVars
<1>5. \A m \in Names \ {n} : NameInv(m)'
  BY <1>2, <1>3, <1>4, OthersInv
<1>6. Ordered(n)'
  BY <1>4 DEF ConvergenceInv, NameInv, Ordered
<1>7. Giving' /\ Wrote(n)'
  BY <1>2 DEF Giving, Wrote
<1>8. ASSUME Ours(binding'[n]), ~Coming(n)'
      PROVE  /\ ReadConfig(n)'
             /\ ReadConfig(n) /\ ReadExtension(n) /\ ReadGateway(n) /\ ReadService(n)
  <2>1. ReadConfig(n) /\ ReadExtension(n) /\ ReadGateway(n) /\ ReadService(n)
    BY <1>2, <1>4, <1>8, StillInformed DEF Coming, ConvergenceInv
  <2>2. QED
    BY <1>3, <1>4, <2>1 DEF ReadConfig, Content
<1>9. QED
  BY <1>2, <1>3, <1>4, <1>5, <1>6, <1>7, <1>8

\* The extension that was recorded is looked up, and its Gateway recorded.
LEMMA StampGatewayInv == ASSUME ConvergenceInv, StampGateway PROVE Everywhere
<1>0. PICK n \in Names : work.name = n
  BY WorkTyped DEF ConvergenceInv, StampGateway
<1>1. /\ pc = "gatewayRef" /\ Typed
      /\ UNCHANGED <<lastUid, route, reg, worldVars, cacheVars, changed>>
  BY DEF StampGateway, ConvergenceInv
<1>2. work \in WorkType /\ work.content \in Contents \cup {None}
  BY <1>1, WorkTyped
<1>3. work.why = "none" /\ ~ConfigInvalid(work.content) /\ ~Giving /\ PastExtension
  BY <1>1 DEF Typed, Known, Giving, PastExtension
<1>4. PICK ext \in ExtStates \cup {None} : cexts[work.content.ext] = ext
  BY <1>1, <1>2, <1>3, ContentTyped DEF Typed, WorldOK
<1>5. UNCHANGED <<cbinding, cexts, cgateways, changed>>
  BY <1>1 DEF cacheVars
<1>6. CASE ext = None
  <2>1. GiveUp("NoExtension") /\ UNCHANGED <<objectVars, worldVars, cacheVars, changed>>
    BY <1>1, <1>4, <1>6 DEF StampGateway, objectVars
  <2>2. /\ \A m \in Names \ {n} : NameInv(m)'
        /\ Ordered(n)' /\ Wrote(n)' /\ UNCHANGED binding
        /\ pc' = "deleteRoute" /\ work'.name = n /\ work'.why = "NoExtension"
        /\ work'.content = work.content
        /\ Ours(binding'[n]) /\ ~Coming(n)' => ReadConfig(n)' /\ ReadExtension(n)
    BY <1>0, <1>1, <1>3, <2>1, GivesUpInv DEF Unregistrable
  <2>3. NameInv(n)'
    <3>1. ~PastGateway' /\ ~PastResolve' /\ ~PastRecord' /\ pc' # "idle"
      BY <2>2 DEF Giving, PastGateway, PastResolve, PastRecord
    <3> SUFFICES ASSUME Ours(binding'[n]), ~Coming(n)'
                 PROVE  /\ ReadConfig(n)' /\ ReadExtension(n)' /\ ReadGateway(n)'
                        /\ ReadService(n)' /\ Wrote(n)'
      BY <2>2, <3>1, GoesOnInv
    <3>2. ReadConfig(n)' /\ ReadExtension(n)
      BY <2>2
    <3>3. ReadExtension(n)'
      BY <1>3, <1>4, <1>5, <1>6, <2>2, <3>1, <3>2 DEF ReadExtension, Marked
    <3>4. QED
      BY <2>2, <3>1, <3>2, <3>3 DEF ReadGateway, ReadService
  <2>4. QED
    BY <2>2, <2>3 DEF Everywhere
<1>7. CASE ext # None
  <2>1. PICK g \in AnnotationValues("gatewayRef") : ext.gateway = g
    BY <1>7, ExtTyped, ValuesTyped
  <2>2. PICK held \in WorkType : /\ held = [work EXCEPT !.ext = ext]
                                 /\ held.ext = ext /\ held.name = work.name
                                 /\ held.binding = work.binding /\ held.spec = work.spec
                                 /\ held.content = work.content /\ held.why = work.why
    BY <1>2, <1>7, WithExtTyped
  <2>3. EnsureAnnotation(held, "gatewayRef", g, "resolve")
    BY <1>4, <1>7, <2>1, <2>2 DEF StampGateway
  <2>4. /\ \A m \in Names \ {n} : NameInv(m)'
        /\ Ordered(n)'
        /\ n \in queued' \/ AnnotationHolds(n, held, "gatewayRef", g, "resolve")
    BY <1>0, <1>1, <2>2, <2>3, AnnotateInv, ValuesTyped
  <2>5. CASE n \in queued'
    BY <2>4, <2>5, ComingInv DEF Everywhere
  <2>6. CASE AnnotationHolds(n, held, "gatewayRef", g, "resolve")
    <3>1. /\ pc' = "resolve" /\ work'.name = n /\ work'.content = work.content
          /\ work'.ext = ext /\ work'.spec = work.spec
      BY <2>2, <2>6 DEF AnnotationHolds
    <3>2. ~Giving' /\ ~PastResolve' /\ ~PastRecord' /\ Wrote(n)' /\ pc' # "idle"
      BY <3>1 DEF Giving, PastResolve, PastRecord, Wrote
    <3>3. NameInv(n)'
      <4> SUFFICES ASSUME Ours(binding'[n]), ~Coming(n)'
                   PROVE  /\ ReadConfig(n)' /\ ReadExtension(n)' /\ ReadGateway(n)'
                          /\ ReadService(n)' /\ Wrote(n)'
        BY <2>4, <3>1, <3>2, GoesOnInv
      <4>1. /\ ReadConfig(n)' /\ Marked(n, "gatewayRef", g)'
            /\ \A x : Marked(n, "extensionRef", x) => Marked(n, "extensionRef", x)'
            /\ Ours(binding[n]) /\ ~Coming(n)
        BY <2>6, ValuesTyped DEF AnnotationHolds
      <4>2. ReadExtension(n)
        BY <1>0, <1>1, <4>1, StillInformed DEF ConvergenceInv
      <4>3. PICK e : work.content.ext = e
        OBVIOUS
      <4>4. Marked(n, "extensionRef", e)'
        BY <1>3, <4>1, <4>2, <4>3 DEF ReadExtension
      <4>5. ReadExtension(n)'
        BY <1>4, <1>5, <3>1, <3>2, <4>3, <4>4 DEF ReadExtension, Marked
      <4>6. ReadGateway(n)'
        BY <2>1, <3>1, <3>2, <4>1 DEF ReadGateway, Marked
      <4>7. QED
        BY <3>2, <4>1, <4>5, <4>6 DEF ReadService
    <3>4. QED
      BY <2>4, <3>3 DEF Everywhere
  <2>7. QED
    BY <2>4, <2>5, <2>6
<1>8. QED
  BY <1>6, <1>7

\* No listener, or none that may be used: recorded are the extension and the
\* Gateway, so their events find the binding.
LEMMA NoListenerInv ==
    ASSUME ConvergenceInv, pc = "resolve", work.ext.ready,
           ResolvedSection = None \/ ResolvedHost = None, GiveUp("NoListener"),
           UNCHANGED <<objectVars, worldVars, cacheVars, changed>>
    PROVE  Everywhere
<1>0. PICK n \in Names : work.name = n
  BY WorkTyped DEF ConvergenceInv
<1>1. ~Giving /\ PastExtension /\ PastGateway
  BY DEF Giving, PastExtension, PastGateway
<1>2. /\ \A m \in Names \ {n} : NameInv(m)'
      /\ Ordered(n)' /\ Wrote(n)'
      /\ pc' = "deleteRoute" /\ work'.name = n /\ work'.why = "NoListener"
      /\ work'.content = work.content /\ work'.ext = work.ext
      /\ UNCHANGED <<binding, cbinding, cexts, cgateways>>
      /\ Ours(binding'[n]) /\ ~Coming(n)' => ReadConfig(n)' /\ ReadExtension(n) /\ ReadGateway(n)
  BY <1>0, <1>1, GivesUpInv DEF Unregistrable
<1>3. ~PastResolve' /\ ~PastRecord' /\ pc' # "idle"
  BY <1>2 DEF Giving, PastResolve, PastRecord
<1>4. NameInv(n)'
  <2> SUFFICES ASSUME Ours(binding'[n]), ~Coming(n)'
               PROVE  /\ ReadConfig(n)' /\ ReadExtension(n)' /\ ReadGateway(n)'
                      /\ ReadService(n)' /\ Wrote(n)'
    BY <1>2, <1>3, GoesOnInv
  <2>1. ReadConfig(n)' /\ ReadExtension(n) /\ ReadGateway(n)
    BY <1>2
  <2>2. ReadExtension(n)'
    <3>1. work'.why # "NoExtension"
      BY <1>2
    <3>2. QED
      BY <1>1, <1>2, <2>1, <3>1 DEF ReadExtension, Marked
  <2>3. ReadGateway(n)'
    BY <1>1, <1>2, <1>3, <2>1 DEF ReadGateway, Marked, ResolvedSection, ResolvedHost
  <2>4. QED
    BY <1>2, <1>3, <2>1, <2>2, <2>3 DEF ReadService
<1>5. QED
  BY <1>2, <1>4 DEF Everywhere

\* The listener, the hostname and the port of the backend are known.
LEMMA ResolvedInv ==
    ASSUME ConvergenceInv, pc = "resolve", Resolved,
           UNCHANGED <<objectVars, worldVars, cacheVars, changed>>
    PROVE  Everywhere
<1>0. PICK n \in Names : work.name = n
  BY WorkTyped DEF ConvergenceInv
<1>1. ~Giving /\ PastExtension /\ PastGateway
  BY DEF Giving, PastExtension, PastGateway
<1>2. /\ work'.section = ResolvedSection /\ work'.host = ResolvedHost
      /\ work'.port = BackendPort(work.spec)
      /\ work'.name = n /\ work'.binding = work.binding /\ work'.spec = work.spec
      /\ work'.content = work.content /\ work'.ext = work.ext
      /\ pc' = IF work.binding.serviceRef = work.spec.service THEN "route" ELSE "record"
      /\ UNCHANGED queued
  BY <1>0 DEF Resolved
<1>3. UNCHANGED <<binding, lastUid, route, reg, cbinding, cserver, cexts, cgateways, config, services,
                  changed>>
  BY DEF objectVars, worldVars, cacheVars
<1>4. ~Giving' /\ pc' # "idle" /\ Wrote(n)' /\ (PastRecord' => pc' = "route")
  BY <1>2 DEF Giving, PastRecord, Wrote
<1>5. \A m \in Names \ {n} : NameInv(m)'
  BY <1>0, <1>2, <1>3, OthersInv
<1>6. Ordered(n)'
  BY <1>3 DEF ConvergenceInv, NameInv, Ordered
<1>7. NameInv(n)'
  <2> SUFFICES ASSUME Ours(binding'[n]), ~Coming(n)'
               PROVE  /\ ReadConfig(n)' /\ ReadExtension(n)' /\ ReadGateway(n)'
                      /\ ReadService(n)' /\ Wrote(n)'
    BY <1>2, <1>4, <1>6, GoesOnInv
  <2>1. ReadConfig(n) /\ ReadExtension(n) /\ ReadGateway(n)
    BY <1>0, <1>2, <1>3, StillInformed DEF Coming, ConvergenceInv
  <2>2. ReadConfig(n)'
    BY <1>2, <1>3, <2>1 DEF ReadConfig, Content
  <2>3. ReadExtension(n)'
    BY <1>1, <1>2, <1>3, <1>4, <2>1 DEF ReadExtension, Marked
  <2>4. ReadGateway(n)'
    BY <1>1, <1>2, <1>3, <1>4, <2>1 DEF ReadGateway, Marked, ResolvedSection, ResolvedHost
  <2>5. ReadService(n)'
    <3>1. work'.port = BackendPort(work.spec)'
      BY <1>2, <1>3 DEF BackendPort
    <3>2. PastRecord' => work.binding.serviceRef = work.spec.service
      BY <1>2, <1>4
    <3>3. PastRecord' => Marked(n, "serviceRef", work.spec.service)'
      BY <1>2, <1>3, <2>1, <3>2 DEF ReadConfig, Marked
    <3>4. QED
      BY <3>1, <3>3 DEF ReadService
  <2>6. QED
    BY <1>4, <2>2, <2>3, <2>4, <2>5
<1>8. QED
  BY <1>5, <1>7 DEF Everywhere

\* The Service is recorded after it was read: a change since then is still to
\* be announced, or was announced to a cache with the same annotation.
LEMMA RecordInv == ASSUME ConvergenceInv, Record PROVE Everywhere
<1>0. PICK n \in Names : work.name = n
  BY WorkTyped DEF ConvergenceInv, Record
<1>1. /\ pc = "record" /\ EnsureAnnotation(work, "serviceRef", work.spec.service, "route")
      /\ UNCHANGED <<lastUid, route, reg, worldVars, cacheVars, changed>> /\ Typed
  BY DEF Record, ConvergenceInv
<1>2. /\ UNCHANGED <<cbinding, cexts, cgateways, services>>
      /\ ~Giving /\ PastExtension /\ PastGateway /\ PastResolve
  BY <1>1 DEF worldVars, cacheVars, Giving, PastExtension, PastGateway, PastResolve
<1>3. "serviceRef" \in AnnotationKeys
  BY ValuesTyped
<1>4. PICK s \in AnnotationValues("serviceRef") : work.spec.service = s
  BY <1>1, WorkTyped, ValuesTyped
<1>5. PICK held \in WorkType : work = held
  BY <1>1, WorkTyped
<1>6. /\ \A m \in Names \ {n} : NameInv(m)'
      /\ Ordered(n)'
      /\ n \in queued' \/ AnnotationHolds(n, held, "serviceRef", s, "route")
  BY <1>0, <1>1, <1>3, <1>4, <1>5, AnnotateInv
<1>7. NameInv(n)'
  <2>1. CASE n \in queued'
    BY <1>6, <2>1, ComingInv
  <2>2. CASE AnnotationHolds(n, held, "serviceRef", s, "route")
    <3>1. /\ pc' = "route" /\ work'.name = n /\ work'.spec = work.spec
          /\ work'.content = work.content /\ work'.ext = work.ext /\ work'.section = work.section
          /\ work'.host = work.host /\ work'.port = work.port
      BY <1>5, <2>2 DEF AnnotationHolds
    <3>2. ~Giving' /\ Wrote(n)' /\ pc' # "idle"
      BY <3>1 DEF Giving, Wrote
    <3> SUFFICES ASSUME Ours(binding'[n]), ~Coming(n)'
                 PROVE  /\ ReadConfig(n)' /\ ReadExtension(n)' /\ ReadGateway(n)'
                        /\ ReadService(n)' /\ Wrote(n)'
      BY <1>6, <3>1, <3>2, GoesOnInv
    <3>3. /\ ReadConfig(n)' /\ Marked(n, "serviceRef", s)' /\ Ours(binding[n]) /\ ~Coming(n)
          /\ \A x : Marked(n, "extensionRef", x) => Marked(n, "extensionRef", x)'
          /\ \A x : Marked(n, "gatewayRef", x) => Marked(n, "gatewayRef", x)'
      BY <2>2, ValuesTyped DEF AnnotationHolds
    <3>4. ReadExtension(n) /\ ReadGateway(n) /\ ReadService(n)
      BY <1>0, <1>1, <3>3, StillInformed DEF ConvergenceInv
    <3>5. PICK e : work.content.ext = e
      OBVIOUS
    <3>6. PICK g : work.ext.gateway = g
      OBVIOUS
    <3>7. Marked(n, "extensionRef", e)' /\ Marked(n, "gatewayRef", g)'
      BY <1>2, <3>3, <3>4, <3>5, <3>6 DEF ReadExtension, ReadGateway
    <3>8. ReadExtension(n)'
      BY <1>2, <3>1, <3>2, <3>4, <3>5, <3>7 DEF ReadExtension, Marked
    <3>9. ReadGateway(n)'
      BY <1>2, <3>1, <3>2, <3>4, <3>6, <3>7 DEF ReadGateway, Marked
    <3>10. ReadService(n)'
      <4>1. BackendPort(work.spec)' = BackendPort(work.spec) /\ UNCHANGED changed
        BY <1>1, <1>2, <3>1 DEF BackendPort
      <4>2. QED
        BY <1>2, <1>4, <3>1, <3>3, <3>4, <4>1 DEF ReadService, Marked
    <3>11. QED
      BY <3>2, <3>3, <3>8, <3>9, <3>10
  <2>3. QED
    BY <1>6, <2>1, <2>2
<1>8. QED
  BY <1>6, <1>7 DEF Everywhere

\* A step of a reconcile of n that leaves all it read as it was.
LEMMA WritesInv ==
    ASSUME ConvergenceInv, NEW n \in Names, work.name = n, pc # "idle", pc' # "idle",
           UNCHANGED <<binding, lastUid, worldVars, cacheVars, changed, work, queued>>,
           \A m \in Names \ {n} : route'[m] = route[m] /\ reg'[m] = reg[m],
           \/ {pc, pc'} \subseteq {"route", "registration", "judge"}
           \/ {pc, pc'} \subseteq {"deleteRoute", "deleteRegistration", "unregister"},
           Ours(binding[n]) /\ ReadConfig(n) /\ Wrote(n) => Wrote(n)'
    PROVE  Everywhere
<1>1. UNCHANGED <<cbinding, cserver, cexts, cgateways, config, services>>
  BY DEF worldVars, cacheVars
<1>2. \A m \in Names \ {n} : NameInv(m)'
  BY OthersInv
<1>3. Ordered(n)'
  BY <1>1 DEF ConvergenceInv, NameInv, Ordered
<1>4. /\ Giving' = Giving /\ PastExtension' = PastExtension /\ PastGateway' = PastGateway
      /\ PastResolve' = PastResolve /\ PastRecord' = PastRecord
  BY SMTT(60) DEF Giving, PastExtension, PastGateway, PastResolve, PastRecord
<1>5. NameInv(n)'
  <2> SUFFICES ASSUME Ours(binding'[n]), ~Coming(n)'
               PROVE  /\ ReadConfig(n)' /\ ReadExtension(n)' /\ ReadGateway(n)'
                      /\ ReadService(n)' /\ Wrote(n)'
    BY <1>3, GoesOnInv
  <2>1. ReadConfig(n) /\ ReadExtension(n) /\ ReadGateway(n) /\ ReadService(n) /\ Wrote(n)
    BY <1>1, StillInformed DEF Coming, ConvergenceInv
  <2>2. ReadConfig(n)'
    BY <1>1, <2>1 DEF ReadConfig, Content
  <2>3. ReadExtension(n)'
    BY <1>1, <1>4, <2>1 DEF ReadExtension, Marked
  <2>4. ReadGateway(n)'
    BY <1>1, <1>4, <2>1 DEF ReadGateway, Marked
  <2>5. ReadService(n)'
    BY <1>1, <1>4, <2>1 DEF ReadService, Marked, BackendPort
  <2>6. QED
    BY <2>1, <2>2, <2>3, <2>4, <2>5
<1>6. QED
  BY <1>2, <1>5 DEF Everywhere

\* reconcileHTTPRoute fails or leaves the route that was resolved.
LEMMA RouteInv == ASSUME ConvergenceInv, ReconcileHTTPRoute PROVE Everywhere
<1>0. PICK n \in Names : work.name = n
  BY WorkTyped DEF ConvergenceInv, ReconcileHTTPRoute
<1>1. /\ pc = "route" /\ UNCHANGED <<binding, lastUid, reg, worldVars, cacheVars, changed>>
      /\ \/ pc' = "idle" /\ UNCHANGED route /\ queued' = queued \cup {work.name}
         \/ RouteDone(n)
  BY <1>0, RouteCases DEF ConvergenceInv
<1>2. CASE pc' = "idle" /\ UNCHANGED route /\ queued' = queued \cup {work.name}
  BY <1>1, <1>2, FailedInv DEF objectVars
<1>3. CASE RouteDone(n)
  <2>1. /\ \A m \in Names \ {n} : route'[m] = route[m]
        /\ RouteFor(croute[n]) \/ RouteFor(route'[n])
    BY <1>3, RouteDoneEffect DEF ConvergenceInv, Typed
  <2>2. pc' = "registration" /\ UNCHANGED <<work, queued, croute>>
    BY <1>1, <1>3 DEF RouteDone, cacheVars
  <2>3. RouteFor(croute[n])' \/ RouteFor(route[n])'
    BY <2>1, <2>2 DEF RouteFor
  <2>4. Wrote(n)'
    BY <2>2, <2>3 DEF Wrote
  <2>5. \A m \in Names \ {n} : route'[m] = route[m] /\ reg'[m] = reg[m]
    BY <1>1, <2>1
  <2>6. /\ pc # "idle" /\ pc' # "idle" /\ {pc, pc'} \subseteq {"route", "registration", "judge"}
    BY <1>1, <2>2
  <2>7. QED
    BY <1>0, <1>1, <2>2, <2>4, <2>5, <2>6, WritesInv
<1>4. QED
  BY <1>1, <1>2, <1>3

\* reconcileMCPServerRegistration fails, finds the prefix taken or leaves the
\* registration that was resolved.
LEMMA RegistrationInv == ASSUME ConvergenceInv, ReconcileRegistration PROVE Everywhere
<1>0. PICK n \in Names : work.name = n
  BY WorkTyped DEF ConvergenceInv, ReconcileRegistration
<1>1. /\ pc = "registration" /\ UNCHANGED <<binding, lastUid, route, worldVars, cacheVars, changed>>
      /\ \/ pc' = "idle" /\ UNCHANGED reg /\ queued' = queued \cup {work.name}
         \/ GiveUp("PrefixConflict") /\ UNCHANGED reg
         \/ RegistrationDone(n)
  BY <1>0, RegistrationCases DEF ConvergenceInv
<1>2. CASE pc' = "idle" /\ UNCHANGED reg /\ queued' = queued \cup {work.name}
  BY <1>1, <1>2, FailedInv DEF objectVars
<1>3. CASE GiveUp("PrefixConflict") /\ UNCHANGED reg
  <2>1. ~Giving /\ PastExtension /\ PastGateway /\ PastResolve /\ PastRecord
    BY <1>1 DEF Giving, PastExtension, PastGateway, PastResolve, PastRecord
  <2>2. UNCHANGED <<objectVars, worldVars, cacheVars, changed>>
    BY <1>1, <1>3 DEF objectVars
  <2>3. /\ \A m \in Names \ {n} : NameInv(m)'
        /\ Ordered(n)' /\ Wrote(n)'
        /\ pc' = "deleteRoute" /\ work'.name = n /\ work'.why = "PrefixConflict"
        /\ work'.content = work.content /\ work'.ext = work.ext /\ work'.spec = work.spec
        /\ work'.section = work.section /\ work'.host = work.host /\ work'.port = work.port
        /\ UNCHANGED <<binding, cbinding, cexts, cgateways, services, changed>>
        /\ Ours(binding'[n]) /\ ~Coming(n)' =>
              ReadConfig(n)' /\ ReadExtension(n) /\ ReadGateway(n) /\ ReadService(n)
    BY <1>0, <1>1, <1>3, <2>1, <2>2, GivesUpInv DEF Unregistrable
  <2>4. pc' # "idle" /\ work'.why \notin {"NoExtension", "NoListener"}
    BY <2>3
  <2>5. NameInv(n)'
    <3> SUFFICES ASSUME Ours(binding'[n]), ~Coming(n)'
                 PROVE  /\ ReadConfig(n)' /\ ReadExtension(n)' /\ ReadGateway(n)'
                        /\ ReadService(n)' /\ Wrote(n)'
      BY <2>3, <2>4, GoesOnInv
    <3>1. ReadConfig(n)' /\ ReadExtension(n) /\ ReadGateway(n) /\ ReadService(n)
      BY <2>3
    <3>2. ReadExtension(n)'
      BY <2>1, <2>3, <2>4, <3>1 DEF ReadExtension, Marked
    <3>3. ReadGateway(n)'
      BY <2>1, <2>3, <2>4, <3>1 DEF ReadGateway, Marked
    <3>4. ReadService(n)'
      BY <2>1, <2>3, <3>1 DEF ReadService, Marked, BackendPort
    <3>5. QED
      BY <2>3, <3>1, <3>2, <3>3, <3>4
  <2>6. QED
    BY <2>3, <2>5 DEF Everywhere
<1>4. CASE RegistrationDone(n)
  <2>1. /\ \A m \in Names \ {n} : reg'[m] = reg[m]
        /\ RegFor(creg[n]) \/ RegFor(reg'[n])
    BY <1>4, RegistrationDoneEffect DEF ConvergenceInv, Typed
  <2>2. pc' = "judge" /\ UNCHANGED <<work, queued, route, croute, creg>>
    BY <1>1, <1>4 DEF RegistrationDone, cacheVars
  <2>3. RegFor(creg[n])' \/ RegFor(reg[n])'
    BY <2>1, <2>2 DEF RegFor
  <2>4. Wrote(n) => Wrote(n)'
    <3>1. Wrote(n) => RouteFor(croute[n]) \/ RouteFor(route[n])
      BY <1>1 DEF Wrote
    <3>2. Wrote(n) => RouteFor(croute[n])' \/ RouteFor(route[n])'
      BY <2>2, <3>1 DEF RouteFor
    <3>3. QED
      BY <2>2, <2>3, <3>2 DEF Wrote
  <2>5. \A m \in Names \ {n} : route'[m] = route[m] /\ reg'[m] = reg[m]
    BY <1>1, <2>1
  <2>6. /\ pc # "idle" /\ pc' # "idle" /\ {pc, pc'} \subseteq {"route", "registration", "judge"}
    BY <1>1, <2>2
  <2>7. QED
    BY <1>0, <1>1, <2>2, <2>4, <2>5, <2>6, WritesInv
<1>5. QED
  BY <1>1, <1>2, <1>3, <1>4

\* deleteStaleResources removes what the cache says is the binding's own.
LEMMA DeletedInv == ASSUME ConvergenceInv, DeleteStaleRoute \/ DeleteStaleRegistration PROVE Everywhere
<1>0. PICK n \in Names : work.name = n
  BY WorkTyped DEF ConvergenceInv, DeleteStaleRoute, DeleteStaleRegistration
<1>1. /\ \/ /\ pc = "deleteRoute" /\ pc' = "deleteRegistration" /\ UNCHANGED reg
            /\ route' = [route EXCEPT ![n] = IF croute[n].owner = work.binding.uid
                                             THEN NoRoute ELSE @]
         \/ /\ pc = "deleteRegistration" /\ pc' = "unregister" /\ UNCHANGED route
            /\ reg' = [reg EXCEPT ![n] = IF creg[n].owner = work.binding.uid THEN NoReg ELSE @]
      /\ UNCHANGED <<binding, lastUid, worldVars, cacheVars, changed, work, queued>>
      /\ \A m \in Names \ {n} : route'[m] = route[m] /\ reg'[m] = reg[m]
  BY <1>0, DeletedEffect DEF ConvergenceInv
<1>2. /\ pc # "idle" /\ pc' # "idle"
      /\ {pc, pc'} \subseteq {"deleteRoute", "deleteRegistration", "unregister"}
  BY <1>1
<1>3. /\ work.binding.uid # 0 /\ NoRoute.owner = 0 /\ NoReg.owner = 0 /\ UNCHANGED <<croute, creg>>
      /\ route \in [Names -> RouteType] /\ reg \in [Names -> RegType]
  BY <1>1, <1>2, WorkTyped
     DEF ConvergenceInv, Typed, ObjectsOK, NoRoute, NoReg, cacheVars
<1>4. Wrote(n) => Wrote(n)'
  <2>1. CASE pc = "deleteRoute"
    <3>1. pc' = "deleteRegistration"
      BY <1>1, <2>1
    <3>2. route'[n] = IF croute[n].owner = work.binding.uid THEN NoRoute ELSE route[n]
      BY <1>1, <1>3, <2>1
    <3>3. croute'[n].owner # work'.binding.uid \/ route'[n].owner # work'.binding.uid
      BY <1>1, <1>3, <3>2
    <3>4. QED
      BY <3>1, <3>3 DEF Wrote
  <2>2. CASE pc = "deleteRegistration"
    <3>1. pc' = "unregister" /\ UNCHANGED route
      BY <1>1, <2>2
    <3>2. reg'[n] = IF creg[n].owner = work.binding.uid THEN NoReg ELSE reg[n]
      BY <1>1, <1>3, <2>2
    <3>3. creg'[n].owner # work'.binding.uid \/ reg'[n].owner # work'.binding.uid
      BY <1>1, <1>3, <3>2
    <3>4. Wrote(n) => croute[n].owner # work.binding.uid \/ route[n].owner # work.binding.uid
      BY <2>2 DEF Wrote
    <3>5. Wrote(n) => croute'[n].owner # work'.binding.uid \/ route'[n].owner # work'.binding.uid
      BY <1>1, <1>3, <3>1, <3>4
    <3>6. QED
      BY <3>1, <3>3, <3>5 DEF Wrote
  <2>3. QED
    BY <1>1, <2>1, <2>2
<1>5. QED
  BY <1>0, <1>1, <1>2, <1>4, WritesInv

-----------------------------------------------------------------------------
(* Nothing is lost: the reports that end a reconcile.                      *)

\* What a report on binding b of n is based on, if no event is on its way: the
\* events that came since were matched against annotations b has.
Basis(n, b) ==
    LET s == SectionFor(work.content, cgateways, work.ext.gateway)
        h == RouteHostname(work.content, cgateways, work.ext.gateway, s)
    IN /\ b.uid = work.binding.uid /\ b.observed = b.gen
       /\ work.content = Content(n) /\ work.spec = cserver[n]
       /\ PastExtension => b.extensionRef = work.content.ext
       /\ PastGateway => b.gatewayRef = work.ext.gateway /\ work.ext = cexts[work.content.ext]
       /\ PastResolve => work.section = s /\ work.host = h
       /\ PastRecord =>
             /\ b.serviceRef = work.spec.service
             /\ work.port = BackendPort(work.spec) \/ work.spec.service \in changed
       /\ Giving /\ work.why = "NoExtension" => cexts[work.content.ext] = None
       /\ Giving /\ work.why = "NoListener" => work.ext.ready /\ (s = None \/ h = None)
       /\ Wrote(n)

\* Between reconciles n rests with binding b.
Rests(n, b) ==
    /\ RefsRight(b, View(n), cgateways)
    /\ \/ Hurdle(View(n), cgateways) = "none" /\ cserver[n].service \in changed
       \/ Fine(n, b, route[n], croute[n], reg[n], creg[n], View(n), cgateways)

\* What the reconcile read holds of the binding that is reported on.
LEMMA InformedBasis ==
    ASSUME NEW n \in Names, NEW b, ReadConfig(n), ReadExtension(n), ReadGateway(n), ReadService(n),
           Wrote(n), work.binding = binding[n] \/ work.binding = cbinding[n],
           b.uid = work.binding.uid, b.observed = b.gen, binding[n].config \notin changed,
           \A k \in AnnotationKeys : binding[n][k] = b[k] /\ cbinding[n][k] = b[k]
    PROVE  Basis(n, b)
<1>1. /\ binding[n].extensionRef = b.extensionRef /\ cbinding[n].extensionRef = b.extensionRef
      /\ binding[n].gatewayRef = b.gatewayRef /\ cbinding[n].gatewayRef = b.gatewayRef
      /\ binding[n].serviceRef = b.serviceRef /\ cbinding[n].serviceRef = b.serviceRef
  BY ValuesTyped
<1>2. work.content = Content(n) /\ work.spec = cserver[n]
  BY DEF ReadConfig
<1>3. /\ PastExtension => b.extensionRef = work.content.ext
      /\ PastGateway => PastExtension
      /\ PastGateway => b.gatewayRef = work.ext.gateway
      /\ PastRecord => b.serviceRef = work.spec.service
  <2>1. PastGateway => PastExtension
    BY DEF PastGateway, PastExtension
  <2>2. QED
    BY <1>1, <2>1 DEF ReadExtension, ReadGateway, ReadService, Marked
<1>4. /\ PastGateway => work.ext = cexts[work.content.ext]
      /\ Giving /\ work.why = "NoExtension" => cexts[work.content.ext] = None
  <2>1. Giving /\ work.why = "NoExtension" => PastExtension
    BY DEF PastExtension
  <2>2. QED
    BY <1>1, <1>3, <2>1 DEF ReadExtension
<1>5. LET s == SectionFor(work.content, cgateways, work.ext.gateway)
          h == RouteHostname(work.content, cgateways, work.ext.gateway, s)
      IN /\ PastResolve => work.section = s /\ work.host = h
         /\ Giving /\ work.why = "NoListener" => work.ext.ready /\ (s = None \/ h = None)
  <2>1. (PastResolve => PastGateway) /\ (Giving /\ work.why = "NoListener" => PastGateway)
    BY DEF PastResolve, PastGateway
  <2>2. QED
    BY <1>1, <1>3, <2>1 DEF ReadGateway
<1>6. PastRecord => work.port = BackendPort(work.spec) \/ work.spec.service \in changed
  <2>1. PastRecord => PastResolve
    BY DEF PastRecord, PastResolve
  <2>2. QED
    BY <1>1, <1>3, <2>1 DEF ReadService
<1>7. QED
  BY <1>2, <1>3, <1>4, <1>5, <1>6 DEF Basis

\* A report that rests keeps the invariant.
LEMMA ReportInv ==
    ASSUME ConvergenceInv, pc # "idle", NEW n \in Names, work.name = n, NEW reason \in Reasons,
           NEW url \in Url \cup {None}, NEW outcome, UpdateBindingStatus(reason, url, outcome),
           \A b \in BindingType :
              Basis(n, b) /\ b.reason = reason /\ b.url = url => Rests(n, b)
    PROVE  Everywhere
<1>1. PICK b \in BindingType : binding'[n] = b
  BY ReportCases DEF ConvergenceInv
<1>2. /\ pc' = "idle" /\ UNCHANGED <<lastUid, route, reg, worldVars, cacheVars, changed>>
      /\ \A m \in Names \ {n} : binding'[m] = binding[m]
      /\ queued \subseteq queued'
      /\ b.uid = binding[n].uid /\ b.gen = binding[n].gen
      /\ b.provider = binding[n].provider /\ b.config = binding[n].config
      /\ \A k \in AnnotationKeys : b[k] = binding[n][k]
      /\ \/ n \in queued'
         \/ /\ work.binding = binding[n] /\ b.reason = reason
            /\ b.observed = b.gen /\ b.url = url
         \/ work.binding # binding[n] /\ b = binding[n]
  BY <1>1, ReportCases DEF ConvergenceInv
<1>3. UNCHANGED <<cbinding, croute, creg, cserver, cexts, cgateways, config, services>>
  BY <1>2 DEF worldVars, cacheVars
<1>4. \A m \in Names \ {n} : NameInv(m)'
  BY <1>2, OthersInv
<1>5. Ordered(n)'
  BY <1>1, <1>2, <1>3 DEF ConvergenceInv, NameInv, Ordered
<1>6. NameInv(n)'
  <2>1. ~Busy(n)'
    BY <1>2 DEF Busy
  <2>2. View(n)' = View(n)
    BY <1>1, <1>2, <1>3 DEF View, Content, ExtFor, BackendPort
  <2>3. ASSUME Ours(b), cserver[n] # None, n \notin queued', cbinding[n] = b,
               b.config \notin changed
        PROVE  Rests(n, b)
    <3>1. Ours(binding[n]) /\ ~Coming(n)
      BY <1>2, <2>3 DEF Ours, Coming
    <3>2. ReadConfig(n) /\ ReadExtension(n) /\ ReadGateway(n) /\ ReadService(n) /\ Wrote(n)
      BY <3>1, StillInformed DEF ConvergenceInv
    <3>3. work.binding \in {binding[n], b}
      BY <2>3, <3>2 DEF ReadConfig
    <3>4. /\ work.binding = binding[n] /\ b.reason = reason /\ b.observed = b.gen /\ b.url = url
      BY <1>2, <2>3, <3>3
    <3>5. Basis(n, b)
      <4>1. /\ b.uid = work.binding.uid /\ b.observed = b.gen /\ binding[n].config \notin changed
        BY <1>2, <2>3, <3>4
      <4>2. \A k \in AnnotationKeys : binding[n][k] = b[k] /\ cbinding[n][k] = b[k]
        BY <1>2, <2>3
      <4>3. QED
        BY <3>2, <3>4, <4>1, <4>2, InformedBasis, SMTT(60)
    <3>6. QED
      BY <3>4, <3>5
  <2>4. Settled(n)'
    BY <1>1, <1>2, <1>3, <2>2, <2>3 DEF Settled, Rests
  <2>5. QED
    BY <1>5, <2>1, <2>4 DEF NameInv, Informed
<1>7. QED
  BY <1>4, <1>6 DEF Everywhere

\* An extension that is not ready: the objects stay as they are.
LEMMA NotReadyRests ==
    ASSUME Typed, pc = "resolve", NEW n \in Names, work.name = n, ~work.ext.ready,
           NEW b \in BindingType, Basis(n, b), b.reason = "ExtensionNotReady", b.url = None
    PROVE  Rests(n, b)
<1> DEFINE v == View(n)
<1>1. PastExtension /\ PastGateway
  BY DEF PastExtension, PastGateway
<1>2. work.why = "none" /\ ~ConfigInvalid(work.content) /\ work.ext # None
  BY <1>1 DEF Typed, Known, Giving
<1>v. /\ v.content = Content(n) /\ v.ext = ExtFor(Content(n)) /\ v.spec = cserver[n]
      /\ v.port = BackendPort(cserver[n])
  BY ViewFields
<1> HIDE DEF v
<1>3. /\ v.content = work.content /\ v.ext = work.ext
      /\ b.extensionRef = v.content.ext /\ b.gatewayRef = v.ext.gateway /\ b.observed = b.gen
  BY <1>1, <1>2, <1>v DEF Basis, ExtFor
<1>4. Hurdle(v, cgateways) = "ExtensionNotReady"
  BY <1>2, <1>3 DEF Hurdle
<1>5. /\ Hurdle(v, cgateways) # "none" /\ Hurdle(v, cgateways) \notin Unregistrable
      /\ b.reason # "Registered"
  BY <1>4 DEF Unregistrable
<1>6. ~Wanted(b, v, cgateways) /\ ~Refused(b, v, cgateways)
  BY <1>5 DEF Wanted, Refused
<1>7. RefsRight(b, v, cgateways)
  BY <1>3, <1>5 DEF RefsRight
<1>8. Fine(n, b, route[n], croute[n], reg[n], creg[n], v, cgateways)
  BY <1>3, <1>4, <1>5, <1>6 DEF Fine, RouteRight, RegRight, StatusRight
<1>9. QED
  BY <1>7, <1>8 DEF Rests, v

\* What setNotRegistered gave up for is so.
LEMMA GivenUpHurdle ==
    ASSUME Typed, pc = "unregister", NEW n \in Names, work.name = n,
           NEW b \in BindingType, Basis(n, b), b.reason = work.why
    PROVE  /\ work.why \in Unregistrable
           /\ Hurdle(View(n), cgateways) = IF work.why = "PrefixConflict" THEN "none" ELSE work.why
           /\ RefsRight(b, View(n), cgateways)
<1> DEFINE v == View(n)
           s == SectionFor(work.content, cgateways, work.ext.gateway)
           h == RouteHostname(work.content, cgateways, work.ext.gateway, s)
<1>1. Giving /\ work.why \in Unregistrable /\ work.why # "none" /\ work \in WorkType
  BY DEF Giving, Typed, Known, WorkType, Unregistrable
<1>2. ConfigInvalid(work.content) <=> work.why = "InvalidConfig"
  BY DEF Typed, Known
<1>v. /\ v.content = Content(n) /\ v.ext = ExtFor(Content(n)) /\ v.spec = cserver[n]
      /\ v.port = BackendPort(cserver[n])
  BY ViewFields
<1> HIDE DEF v
<1>3. /\ v.content = work.content /\ v.spec = work.spec
      /\ v.ext = IF ConfigInvalid(work.content) THEN None ELSE cexts[work.content.ext]
  BY <1>v DEF Basis, ExtFor
<1>4. CASE work.why = "InvalidConfig"
  <2>1. Hurdle(v, cgateways) = "InvalidConfig"
    BY <1>2, <1>3, <1>4 DEF Hurdle
  <2>2. RefsRight(b, v, cgateways)
    BY <2>1 DEF RefsRight
  <2>3. QED
    BY <1>1, <1>4, <2>1, <2>2 DEF v
<1>5. CASE work.why = "NoExtension"
  <2>1. PastExtension /\ v.ext = None /\ ~ConfigInvalid(v.content)
    BY <1>1, <1>2, <1>3, <1>5 DEF PastExtension, Basis
  <2>2. Hurdle(v, cgateways) = "NoExtension"
    BY <2>1 DEF Hurdle
  <2>3. b.extensionRef = v.content.ext
    BY <1>3, <2>1 DEF Basis
  <2>4. RefsRight(b, v, cgateways)
    BY <2>2, <2>3 DEF RefsRight
  <2>5. QED
    BY <1>1, <1>5, <2>2, <2>4 DEF v
<1>6. CASE work.why \in {"NoListener", "PrefixConflict"}
  <2>1. PastExtension /\ PastGateway /\ ~ConfigInvalid(work.content)
    BY <1>1, <1>2, <1>6 DEF PastExtension, PastGateway
  <2>2. work.ext # None
    BY <2>1 DEF Typed, Known
  <2>3. /\ v.ext = work.ext /\ b.extensionRef = v.content.ext /\ b.gatewayRef = v.ext.gateway
    BY <1>3, <2>1 DEF Basis
  <2>4. CASE work.why = "NoListener"
    <3>1. work.ext.ready /\ (s = None \/ h = None)
      BY <1>1, <2>4 DEF Basis
    <3>2. Hurdle(v, cgateways) = "NoListener"
      BY <1>3, <2>1, <2>2, <2>3, <3>1 DEF Hurdle
    <3>3. RefsRight(b, v, cgateways)
      BY <2>3, <3>2 DEF RefsRight
    <3>4. QED
      BY <1>1, <2>4, <3>2, <3>3 DEF v
  <2>5. CASE work.why = "PrefixConflict"
    <3>1. PastResolve /\ PastRecord
      BY <1>1, <2>5 DEF PastResolve, PastRecord
    <3>2. work.ext.ready /\ s # None /\ h # None
      BY <3>1 DEF Basis, Typed, Known
    <3>3. Hurdle(v, cgateways) = "none"
      BY <1>3, <2>1, <2>2, <2>3, <3>2 DEF Hurdle
    <3>4. b.serviceRef = v.spec.service
      BY <1>3, <3>1 DEF Basis
    <3>5. RefsRight(b, v, cgateways)
      BY <2>3, <3>4 DEF RefsRight
    <3>6. QED
      BY <1>1, <2>5, <3>3, <3>5 DEF v
  <2>6. QED
    BY <1>6, <2>4, <2>5
<1>7. QED
  BY <1>1, <1>4, <1>5, <1>6 DEF Unregistrable

\* A binding that is not registered has neither object, or the event of a
\* deletion is on its way.
LEMMA UnregisterRests ==
    ASSUME Typed, pc = "unregister", NEW n \in Names, work.name = n,
           NEW b \in BindingType, Basis(n, b), b.reason = work.why, b.url = None
    PROVE  Rests(n, b)
<1> DEFINE v == View(n)
<1>1. /\ work.why \in Unregistrable /\ RefsRight(b, v, cgateways)
      /\ Hurdle(v, cgateways) = IF work.why = "PrefixConflict" THEN "none" ELSE work.why
  BY GivenUpHurdle
<1> HIDE DEF v
<1>2. work.why # "Registered" /\ work.why # "none"
  BY <1>1 DEF Unregistrable
<1>3. ~Wanted(b, v, cgateways) /\ Refused(b, v, cgateways)
  BY <1>1, <1>2 DEF Wanted, Refused
<1>4. /\ \A x : RouteRight(b, x, v, cgateways) <=> x.owner # b.uid
      /\ \A x : RegRight(n, b, x, v, cgateways) <=> x.owner # b.uid
  BY <1>3 DEF RouteRight, RegRight
<1>5. \A x, y : StatusRight(b, x, y, v, cgateways)
  BY <1>1, <1>2, <1>3 DEF StatusRight, Basis
<1>6. /\ croute[n].owner # b.uid \/ route[n].owner # b.uid
      /\ creg[n].owner # b.uid \/ reg[n].owner # b.uid
  BY DEF Basis, Wrote
<1>7. Fine(n, b, route[n], croute[n], reg[n], creg[n], v, cgateways)
  BY <1>4, <1>5, <1>6 DEF Fine
<1>8. QED
  BY <1>1, <1>7 DEF Rests, v

\* A verdict is about the objects that were resolved, or the event of one that
\* was written since is on its way.
LEMMA JudgeRests ==
    ASSUME Typed, pc = "judge", NEW n \in Names, work.name = n,
           NEW b \in BindingType, Basis(n, b),
           b.reason = Verdict(work.ext, croute[n], creg[n], cgateways),
           b.url = IF b.reason = "Registered" THEN PublicUrl(work.ext, work.spec, cgateways)
                   ELSE None
    PROVE  Rests(n, b)
<1> DEFINE v == View(n)
           s == SectionFor(work.content, cgateways, work.ext.gateway)
           h == RouteHostname(work.content, cgateways, work.ext.gateway, s)
<1>1. PastExtension /\ PastGateway /\ PastResolve /\ PastRecord
  BY DEF PastExtension, PastGateway, PastResolve, PastRecord
<1>2. /\ work.why = "none" /\ ~ConfigInvalid(work.content) /\ work.ext # None
      /\ work.ext.ready /\ work.section # None /\ work.host # None
  BY <1>1 DEF Typed, Known, Giving
<1>v. /\ v.content = Content(n) /\ v.ext = ExtFor(Content(n)) /\ v.spec = cserver[n]
      /\ v.port = BackendPort(cserver[n])
  BY ViewFields
<1> HIDE DEF v
<1>3. /\ v.content = work.content /\ v.spec = work.spec /\ v.spec = cserver[n]
      /\ v.port = BackendPort(work.spec) /\ v.ext = work.ext
  BY <1>1, <1>2, <1>v DEF Basis, ExtFor
<1>4. /\ work.section = s /\ work.host = h /\ b.extensionRef = v.content.ext
      /\ b.gatewayRef = v.ext.gateway /\ b.serviceRef = v.spec.service /\ b.observed = b.gen
      /\ v.port = work.port \/ cserver[n].service \in changed
      /\ b.uid = work.binding.uid
  BY <1>1, <1>3 DEF Basis
<1>5. Hurdle(v, cgateways) = "none"
  BY <1>2, <1>3, <1>4 DEF Hurdle
<1>6. RefsRight(b, v, cgateways)
  BY <1>4 DEF RefsRight
<1>7. b.reason \in Compared /\ b.reason # "PrefixConflict"
  BY VerdictTyped, SMTT(60) DEF Compared
<1>8. Wanted(b, v, cgateways) /\ ~Refused(b, v, cgateways)
  BY <1>5, <1>7 DEF Wanted, Refused, Unregistrable
<1>9. CASE v.port = work.port
  <2>1. RouteOf(v, cgateways) = DesiredRoute(work)
    BY <1>3, <1>4, <1>9 DEF RouteOf, DesiredRoute
  <2>2. RegistrationOf(n, v) = RegistrationOf(n, work)
    BY <1>3 DEF RegistrationOf
  <2>3. /\ \A x : RouteRight(b, x, v, cgateways) <=> RouteFor(x)
        /\ \A x : RegRight(n, b, x, v, cgateways) <=> RegFor(x)
    BY <1>4, <1>8, <2>1, <2>2 DEF RouteRight, RegRight, RouteFor, RegFor
  <2>4. /\ RouteFor(croute[n]) \/ RouteFor(route[n])
        /\ RegFor(creg[n]) \/ RegFor(reg[n])
    BY DEF Basis, Wrote
  <2>5. StatusRight(b, croute[n], creg[n], v, cgateways)
    BY <1>3, <1>4, <1>5 DEF StatusRight
  <2>6. Fine(n, b, route[n], croute[n], reg[n], creg[n], v, cgateways)
    BY <2>3, <2>4, <2>5 DEF Fine
  <2>7. QED
    BY <1>6, <2>6 DEF Rests, v
<1>10. QED
  BY <1>4, <1>5, <1>6, <1>9 DEF Rests, v

\* The three reports, and what else the steps that make them do.
LEMMA ResolveInv == ASSUME ConvergenceInv, Resolve PROVE Everywhere
<1>0. PICK n \in Names : work.name = n
  BY WorkTyped DEF ConvergenceInv, Resolve
<1>1. /\ pc = "resolve" /\ Typed
      /\ \/ ~work.ext.ready /\ UpdateBindingStatus("ExtensionNotReady", None, "later")
         \/ /\ work.ext.ready /\ UNCHANGED <<objectVars, worldVars, cacheVars, changed>>
            /\ \/ (ResolvedSection = None \/ ResolvedHost = None) /\ GiveUp("NoListener")
               \/ Resolved
  BY ResolveCases DEF ConvergenceInv
<1>2. CASE ~work.ext.ready /\ UpdateBindingStatus("ExtensionNotReady", None, "later")
  <2>1. "ExtensionNotReady" \in Reasons /\ None \in Url \cup {None} /\ pc # "idle"
    BY <1>1 DEF Reasons
  <2>2. \A b \in BindingType :
           Basis(n, b) /\ b.reason = "ExtensionNotReady" /\ b.url = None => Rests(n, b)
    BY <1>0, <1>1, <1>2, NotReadyRests
  <2>3. QED
    BY <1>0, <1>2, <2>1, <2>2, ReportInv, SMTT(60)
<1>3. QED
  BY <1>1, <1>2, NoListenerInv, ResolvedInv

\* So for setNotRegistered.
LEMMA UnregisterInv == ASSUME ConvergenceInv, Unregister PROVE Everywhere
<1>0. PICK n \in Names : work.name = n
  BY WorkTyped DEF ConvergenceInv, Unregister
<1>1. pc = "unregister" /\ Typed
  BY DEF ConvergenceInv, Unregister
<1>2. PICK why \in Unregistrable : work.why = why
  BY <1>1 DEF Typed, Known, Giving, WorkType
<1>3. why \in Reasons /\ None \in Url \cup {None} /\ pc # "idle"
  BY <1>1 DEF Reasons
<1>4. PICK outcome : UpdateBindingStatus(why, None, outcome)
  BY <1>2 DEF Unregister
<1>5. \A b \in BindingType : Basis(n, b) /\ b.reason = why /\ b.url = None => Rests(n, b)
  BY <1>0, <1>1, <1>2, UnregisterRests
<1>6. QED
  BY <1>0, <1>3, <1>4, <1>5, ReportInv, SMTT(60)

\* So for the verdict on the two objects.
LEMMA JudgeInv == ASSUME ConvergenceInv, Judge PROVE Everywhere
<1>0. PICK n \in Names : work.name = n
  BY WorkTyped DEF ConvergenceInv, Judge
<1> DEFINE verdict == Verdict(work.ext, croute[n], creg[n], cgateways)
<1>1. /\ pc = "judge" /\ Typed /\ work.ext \in ExtStates
      /\ \/ /\ pc' = "idle" /\ queued' = queued \cup {work.name}
            /\ UNCHANGED <<objectVars, worldVars, cacheVars, changed>>
         \/ \E outcome : UpdateBindingStatus(verdict,
               IF verdict = "Registered" THEN PublicUrl(work.ext, work.spec, cgateways) ELSE None,
               outcome)
  BY <1>0, JudgeCases DEF ConvergenceInv
<1>2. CASE /\ pc' = "idle" /\ queued' = queued \cup {work.name}
           /\ UNCHANGED <<objectVars, worldVars, cacheVars, changed>>
  BY <1>1, <1>2, FailedInv
<1>3. CASE \E outcome : UpdateBindingStatus(verdict,
              IF verdict = "Registered" THEN PublicUrl(work.ext, work.spec, cgateways) ELSE None,
              outcome)
  <2>1. PICK reason \in Reasons : verdict = reason
    BY VerdictTyped
  <2>2. PICK url \in Url \cup {None} :
           url = IF verdict = "Registered" THEN PublicUrl(work.ext, work.spec, cgateways) ELSE None
    <3>1. CASE verdict = "Registered"
      <4>1. PublicHost(work.ext, cgateways) # None
        BY <3>1, VerdictTyped
      <4>2. /\ work.spec \in ServerSpecs /\ cgateways \in [Gateways -> GatewayStates \cup {None}]
        BY <1>1, WorkTyped DEF Typed, WorldOK
      <4>3. PublicUrl(work.ext, work.spec, cgateways) \in Url
        BY <1>1, <4>1, <4>2, UrlTyped
      <4>4. QED
        BY <3>1, <4>3
    <3>2. CASE verdict # "Registered"
      BY <3>2
    <3>3. QED
      BY <3>1, <3>2
  <2>3. PICK outcome : UpdateBindingStatus(reason, url, outcome)
    BY <1>3, <2>1, <2>2
  <2>4. \A b \in BindingType : Basis(n, b) /\ b.reason = reason /\ b.url = url => Rests(n, b)
    BY <1>0, <1>1, <2>1, <2>2, JudgeRests
  <2>5. pc # "idle"
    BY <1>1
  <2>6. QED
    BY <1>0, <2>3, <2>4, <2>5, ReportInv, SMTT(60)
<1>4. QED
  BY <1>1, <1>2, <1>3

-----------------------------------------------------------------------------
(* The provider converges.                                                 *)

\* Init: no binding is in the cache yet.
LEMMA InitInv == ASSUME Init PROVE ConvergenceInv
<1>1. Typed
  BY InitTyped
<1>2. /\ pc = "idle" /\ lastUid = [n \in Names |-> binding[n].uid]
      /\ cbinding = [n \in Names |-> NoBinding]
  BY DEF Init
<1>3. ASSUME NEW n \in Names PROVE NameInv(n)
  <2>1. /\ binding[n].uid \in Nat /\ lastUid[n] = binding[n].uid /\ cbinding[n].uid = 0
    BY <1>1, <1>2 DEF Typed, ObjectsOK, BindingType, NoBinding
  <2>2. /\ binding[n].uid <= lastUid[n] /\ cbinding[n].uid <= lastUid[n]
        /\ binding[n].uid # 0 => cbinding[n].uid # binding[n].uid
    BY <2>1, SMTT(60)
  <2>3. Ordered(n)
    BY <2>2 DEF Ordered
  <2>4. Informed(n) /\ Settled(n)
    BY <1>2, <2>2 DEF Informed, Settled, Busy, Ours
  <2>5. QED
    BY <2>3, <2>4 DEF NameInv
<1>4. QED
  BY <1>1, <1>3 DEF ConvergenceInv

\* Every step of the environment, of the informers and of the worker keeps it.
LEMMA NextInv == ASSUME ConvergenceInv, [Next]_vars PROVE ConvergenceInv'
<1>1. Typed'
  BY NextKept DEF ConvergenceInv, Kept
<1> SUFFICES Everywhere
  BY <1>1 DEF ConvergenceInv, Everywhere
<1>2. CASE UNCHANGED vars
  <2>1. UNCHANGED <<objectVars, worldVars, cacheVars, changed, queued, workVars>>
    BY <1>2 DEF vars, queueVars
  <2>2. ASSUME NEW m \in Names PROVE NameInv(m)'
    <3>1. Unmoved(m) /\ SameWork(m)
      BY <2>1, StillUnmoved DEF objectVars, cacheVars, workVars, SameWork
    <3>2. Unheard(m)
      BY <2>1, StillUnheard DEF worldVars, cacheVars
    <3>3. QED
      BY <3>1, <3>2, UnmovedInv DEF ConvergenceInv
  <2>3. QED
    BY <2>2 DEF Everywhere
<1>3. CASE Environment
  BY <1>3, BindingInv, OwnedInv, WorldInv DEF Environment
<1>4. CASE Informers
  BY <1>4, SyncBindingInv, SyncOwnedInv, SyncWorldInv, MetadataInv DEF Informers
<1>5. CASE Worker
  BY <1>5, FetchInv, StampExtensionInv, StampGatewayInv, ResolveInv, RecordInv, RouteInv,
     RegistrationInv, JudgeInv, DeletedInv, UnregisterInv DEF Worker
<1>6. CASE TimerFires \/ CallFails \/ RestartOperator
  BY <1>6, TimerInv, CallFailsInv, RestartInv
<1>7. QED
  BY <1>2, <1>3, <1>4, <1>5, <1>6 DEF Next

\* No event that a binding needs is lost: for each of them all is as it should
\* be, or a reconcile is under way that read what is still so, or a reconcile
\* or an event that brings one is due.
THEOREM KuadrantInvariant == Spec => []ConvergenceInv
<1>1. Init => ConvergenceInv
  BY InitInv
<1>2. ConvergenceInv /\ [Next]_vars => ConvergenceInv'
  BY NextInv
<1>3. QED
  BY <1>1, <1>2, PTL DEF Spec

\* When everything is delivered and done, what the caches say is what there is.
LEMMA QuietView ==
    ASSUME ConvergenceInv, Quiet, NEW n \in Names, Served(n)
    PROVE  LET v == View(n)
           IN /\ v.content = Content(n) /\ v.spec = server[n] /\ v.port = BackendPort(server[n])
              /\ ~ConfigInvalid(Content(n)) => v.ext = exts[Content(n).ext]
              /\ Hurdle(v, gateways) = Obstacle(n)
              /\ RouteRight(binding[n], route[n], v, gateways)
              /\ RegRight(n, binding[n], reg[n], v, gateways)
              /\ StatusRight(binding[n], route[n], reg[n], v, gateways)
<1> DEFINE v == View(n)
<1>1. /\ pc = "idle" /\ queued = {} /\ changed = {}
      /\ cserver = server /\ cbinding = binding /\ croute = route /\ creg = reg
      /\ cexts = exts /\ cgateways = gateways
  BY DEF Quiet
<1>2. /\ v.content = Content(n) /\ v.ext = ExtFor(Content(n)) /\ v.spec = server[n]
      /\ v.port = BackendPort(server[n])
  BY <1>1, ViewFields
<1>3. Settled(n) /\ Ours(binding[n]) /\ cserver[n] # None /\ ~Busy(n)
  BY <1>1 DEF ConvergenceInv, NameInv, Served, Busy
<1>4. Fine(n, binding[n], route[n], route[n], reg[n], reg[n], v, gateways)
  <2>1. n \notin queued /\ cbinding[n] = binding[n] /\ binding[n].config \notin changed
        /\ cserver[n].service \notin changed
    BY <1>1
  <2>2. Fine(n, binding[n], route[n], croute[n], reg[n], creg[n], v, cgateways)
    BY <1>3, <2>1 DEF Settled
  <2>3. QED
    BY <1>1, <2>2
<1> HIDE DEF v
<1>5. ~ConfigInvalid(Content(n)) => v.ext = exts[Content(n).ext]
  BY <1>1, <1>2 DEF ExtFor
<1>6. Hurdle(v, gateways) = Obstacle(n)
  <2>1. CASE ConfigInvalid(Content(n))
    BY <1>2, <2>1 DEF Hurdle, Obstacle
  <2>2. CASE ~ConfigInvalid(Content(n))
    BY <1>2, <1>5, <2>2 DEF Hurdle, Obstacle
  <2>3. QED
    BY <2>1, <2>2
<1>7. QED
  BY <1>2, <1>4, <1>5, <1>6 DEF Fine, v

\* When the provider is quiet the HTTPRoute and the registration of every
\* binding are those that the ConfigMap, the extension, the Gateway, the
\* Service and the MCPServer ask for, and one that cannot be registered has
\* neither: whatever was lost, repeated or restarted on the way.
THEOREM KuadrantObjects == Spec => []QuietObjectsAreCurrent
<1>1. ConvergenceInv => QuietObjectsAreCurrent
  <2> SUFFICES ASSUME ConvergenceInv, Quiet, NEW n \in Names, Served(n)
               PROVE  /\ Obstacle(n) = "none" /\ binding[n].reason # "PrefixConflict" =>
                            LET ext == exts[Content(n).ext]
                                s == SectionFor(Content(n), gateways, ext.gateway)
                                service == server[n].service
                            IN /\ route[n].owner = binding[n].uid /\ reg[n].owner = binding[n].uid
                               /\ route[n].spec = DesiredRoute(
                                     [ext |-> ext, section |-> s, spec |-> server[n],
                                      host |-> RouteHostname(Content(n), gateways, ext.gateway, s),
                                      port |-> IF service = "managed" THEN "managed"
                                               ELSE services[service]])
                               /\ reg[n].spec = [path |-> server[n].path,
                                                 prefix |-> PrefixFor(n, Content(n))]
                      /\ Obstacle(n) \in Unregistrable =>
                            binding[n].uid \notin {route[n].owner, reg[n].owner}
    BY DEF QuietObjectsAreCurrent
  <2> DEFINE v == View(n)
  <2>1. /\ v.content = Content(n) /\ v.spec = server[n] /\ v.port = BackendPort(server[n])
        /\ ~ConfigInvalid(Content(n)) => v.ext = exts[Content(n).ext]
        /\ Hurdle(v, gateways) = Obstacle(n)
        /\ RouteRight(binding[n], route[n], v, gateways)
        /\ RegRight(n, binding[n], reg[n], v, gateways)
    BY QuietView
  <2> HIDE DEF v
  <2>2. ASSUME Obstacle(n) = "none", binding[n].reason # "PrefixConflict"
        PROVE  LET ext == exts[Content(n).ext]
                   s == SectionFor(Content(n), gateways, ext.gateway)
                   service == server[n].service
               IN /\ route[n].owner = binding[n].uid /\ reg[n].owner = binding[n].uid
                  /\ route[n].spec = DesiredRoute(
                        [ext |-> ext, section |-> s, spec |-> server[n],
                         host |-> RouteHostname(Content(n), gateways, ext.gateway, s),
                         port |-> IF service = "managed" THEN "managed" ELSE services[service]])
                  /\ reg[n].spec = [path |-> server[n].path, prefix |-> PrefixFor(n, Content(n))]
    <3>1. ~ConfigInvalid(Content(n))
      BY <2>2 DEF Obstacle
    <3>2. Wanted(binding[n], v, gateways)
      BY <2>1, <2>2 DEF Wanted
    <3>3. /\ route[n].owner = binding[n].uid /\ route[n].spec = RouteOf(v, gateways)
          /\ reg[n].owner = binding[n].uid /\ reg[n].spec = RegistrationOf(n, v)
      BY <2>1, <3>2 DEF RouteRight, RegRight
    <3>4. QED
      BY <2>1, <3>1, <3>3 DEF RouteOf, RegistrationOf, BackendPort
  <2>3. ASSUME Obstacle(n) \in Unregistrable
        PROVE  binding[n].uid \notin {route[n].owner, reg[n].owner}
    BY <2>1, <2>3 DEF Refused, RouteRight, RegRight
  <2>4. QED
    BY <2>2, <2>3
<1>2. QED
  BY <1>1, KuadrantInvariant, PTL

\* And its report says, for the current generation, what is the case.
THEOREM KuadrantStatus == Spec => []QuietStatusIsCurrent
<1>1. ConvergenceInv => QuietStatusIsCurrent
  <2> SUFFICES ASSUME ConvergenceInv, Quiet, NEW n \in Names, Served(n),
                      binding[n].reason # "PrefixConflict"
               PROVE  LET ext == exts[Content(n).ext]
                      IN /\ binding[n].observed = binding[n].gen
                         /\ binding[n].reason = IF Obstacle(n) # "none" THEN Obstacle(n)
                                                ELSE Verdict(ext, route[n], reg[n], gateways)
                         /\ binding[n].url = IF binding[n].reason = "Registered"
                                             THEN PublicUrl(ext, server[n], gateways) ELSE None
    BY DEF QuietStatusIsCurrent
  <2> DEFINE v == View(n)
  <2>1. /\ v.content = Content(n) /\ v.spec = server[n]
        /\ ~ConfigInvalid(Content(n)) => v.ext = exts[Content(n).ext]
        /\ Hurdle(v, gateways) = Obstacle(n)
        /\ StatusRight(binding[n], route[n], reg[n], v, gateways)
    BY QuietView
  <2> HIDE DEF v
  <2>2. CASE Obstacle(n) = "none"
    <3>1. ~ConfigInvalid(Content(n))
      BY <2>2 DEF Obstacle
    <3>2. Wanted(binding[n], v, gateways)
      BY <2>1, <2>2 DEF Wanted
    <3>3. QED
      BY <2>1, <2>2, <3>1, <3>2 DEF StatusRight
  <2>3. CASE Obstacle(n) # "none"
    <3>1. Obstacle(n) # "Registered"
      BY DEF Obstacle
    <3>2. QED
      BY <2>1, <2>3, <3>1 DEF StatusRight
  <2>4. QED
    BY <2>2, <2>3
<1>2. QED
  BY <1>1, KuadrantInvariant, PTL

\* No two bindings that can be registered keep registrations of one prefix,
\* although checkPrefixConflict reads a cache that may lack what the previous
\* reconcile created: when the provider is quiet each of the two was compared
\* with the other.
THEOREM KuadrantPrefixes == Spec => []QuietPrefixesAreDistinct
<1>1. Init => ConvergenceInv /\ PrefixInv
  BY InitInv, InitDue
<1>2. ConvergenceInv /\ PrefixInv /\ [Next]_vars => (ConvergenceInv /\ PrefixInv)'
  BY NextInv, NextDue
<1>3. ConvergenceInv /\ PrefixInv => QuietPrefixesAreDistinct
  <2> SUFFICES ASSUME ConvergenceInv, PrefixInv, Quiet, NEW m \in Names, NEW n \in Names, m # n,
                      Comparable(m), Comparable(n)
               PROVE  reg[m].spec.prefix # reg[n].spec.prefix
    BY DEF QuietPrefixesAreDistinct
  <2>1. ASSUME NEW k \in Names, Comparable(k) PROVE ~Due(k) /\ reg[k].owner > 0
    <3> DEFINE v == View(k)
               b == binding[k]
    <3>1. Served(k) /\ reg[k].owner = b.uid /\ Obstacle(k) = "none"
      BY <2>1 DEF Comparable
    <3>2. /\ Hurdle(v, gateways) = Obstacle(k)
          /\ RegRight(k, b, reg[k], v, gateways)
          /\ StatusRight(b, route[k], reg[k], v, gateways)
      BY <3>1, QuietView
    <3> HIDE DEF v
    <3>3. b.reason # "PrefixConflict"
      BY <3>1, <3>2 DEF RegRight, Refused
    <3>4. b.reason \in Compared
      <4>1. b.reason = Verdict(v.ext, route[k], reg[k], gateways)
        BY <3>1, <3>2, <3>3 DEF StatusRight, Wanted
      <4>2. QED
        BY <4>1, VerdictTyped DEF Compared
    <3>5. /\ pc = "idle" /\ k \notin queued /\ cbinding[k] = b /\ creg[k] = reg[k]
          /\ Ours(b) /\ cserver[k] # None
      BY <3>1 DEF Quiet, Served
    <3>6. ~Due(k)
      BY <3>4, <3>5 DEF Due, Busy
    <3>7. b.uid \in Nat /\ b.uid # 0
      BY <3>5 DEF ConvergenceInv, Typed, ObjectsOK, BindingType, Ours
    <3>8. QED
      BY <3>1, <3>6, <3>7, SMTT(60)
  <2>2. creg = reg
    BY DEF Quiet
  <2>3. QED
    BY <2>1, <2>2 DEF PrefixInv, Clash
<1>4. QED
  BY <1>1, <1>2, <1>3, PTL DEF Spec
=============================================================================
