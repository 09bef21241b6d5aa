--------------------------- MODULE OperatorProofs ---------------------------
(***************************************************************************)
(* The registry of providers and its watcher, for every registry and every *)
(* set of CRDs: first that each step of the registry keeps its invariant,  *)
(* then that every step of the process, of its clients and of the cluster  *)
(* is a step of the registry or leaves it alone.                           *)
(***************************************************************************)
EXTENDS Operator, WellFoundedInduction, TLAPS

\* A leaf is left to Zenon unless it names another prover.
USE ZenonT(60)

-----------------------------------------------------------------------------
(* The order of the registry.                                              *)

\* A set of natural numbers that is not empty has a least element.
LEMMA LeastNatural ==
    ASSUME NEW S, S \subseteq Nat, S # {}
    PROVE  \E n \in S : \A m \in S : n <= m
<1> DEFINE R == OpToRel(<, Nat)
<1>1. IsWellFoundedOn(R, Nat)
  BY NatLessThanWellFounded
<1>2. \A x, y \in Nat : x < y => <<x, y>> \in R
  BY DEF OpToRel
<1> HIDE DEF R
<1>3. PICK n \in S : \A m \in S : ~(<<m, n>> \in R)
  BY <1>1, WFMin
<1>4. \A m \in S : ~(m < n)
  BY <1>2, <1>3
<1>5. QED
  BY <1>4, SMTT(60)

\* The provider the watcher's loop looks at next is one it has still to look at.
LEMMA FirstIsMember ==
    ASSUME NEW ps, ps \subseteq Providers, ps # {}
    PROVE  First(ps) \in ps
<1> DEFINE S == {i \in DOMAIN Registry : Registry[i] \in ps}
<1>1. DOMAIN Registry = 1..Len(Registry) /\ Len(Registry) \in Nat
  BY RegistryAssumption, SMTT(60)
<1>2. S \subseteq Nat
  BY <1>1, SMTT(60)
<1>3. S # {}
  BY DEF Providers
<1>4. PICK n \in S : \A m \in S : n <= m
  BY <1>2, <1>3, LeastNatural
<1>5. \A j \in 1..(n - 1) : Registry[j] \notin ps
  BY <1>1, <1>4, SMTT(60)
<1>6. QED
  BY <1>4, <1>5 DEF First

\* The providers that the loop of SetupAll has left behind at index i.
Seen(i) == {Registry[j] : j \in 1..(i - 1)}

\* What the loop has left behind grows by one provider that is new to it, up to all.
LEMMA SeenFacts ==
    /\ Seen(1) = {}
    /\ Seen(Len(Registry) + 1) = Providers
    /\ \A i \in DOMAIN Registry :
          /\ i \in 1..Len(Registry) /\ i + 1 \in 1..(Len(Registry) + 1)
          /\ Registry[i] \in Providers
          /\ Seen(i + 1) = Seen(i) \cup {Registry[i]}
          /\ Registry[i] \notin Seen(i)
    /\ 1 \in 1..(Len(Registry) + 1)
<1>1. DOMAIN Registry = 1..Len(Registry) /\ Len(Registry) \in Nat
  BY RegistryAssumption, SMTT(60)
<1>2. Seen(1) = {} /\ Seen(Len(Registry) + 1) = Providers
  BY <1>1, SMTT(60) DEF Seen, Providers
<1>3. ASSUME NEW i \in DOMAIN Registry
      PROVE  /\ i \in 1..Len(Registry) /\ i + 1 \in 1..(Len(Registry) + 1)
             /\ Registry[i] \in Providers
             /\ Seen(i + 1) = Seen(i) \cup {Registry[i]}
             /\ Registry[i] \notin Seen(i)
  <2>1. i \in 1..Len(Registry) /\ i + 1 \in 1..(Len(Registry) + 1) /\ Registry[i] \in Providers
    BY <1>1, SMTT(60) DEF Providers
  <2>2. \A j : j \in 1..(i + 1 - 1) <=> (j \in 1..(i - 1) \/ j = i)
    BY <2>1, <1>1, SMTT(60)
  <2>3. Seen(i + 1) = Seen(i) \cup {Registry[i]}
    BY <2>2, SMTT(60) DEF Seen
  <2>4. \A j \in 1..(i - 1) : j \in DOMAIN Registry /\ j # i
    BY <2>1, <1>1, SMTT(60)
  <2>5. Registry[i] \notin Seen(i)
    BY <2>4, RegistryAssumption DEF Seen
  <2>6. QED
    BY <2>1, <2>3, <2>5
<1>4. QED
  BY <1>1, <1>2, <1>3, SMTT(60)

-----------------------------------------------------------------------------
(* The inductive invariant.                                                *)

\* Of a provider, the loop of SetupAll has passed it exactly when it is pending
\* or started; it has a controller exactly when it is started; the watcher only
\* looks at pending ones; and while one is pending, the watcher has a request, a
\* timer or a reconcile in progress.
RegistryInv ==
    /\ OwnCRDs \subseteq crds
    /\ phase \in {"down", "setup", "running"}
    /\ index \in 1..(Len(Registry) + 1)
    /\ phase = "down" => index = 1
    /\ phase = "running" => index = Len(Registry) + 1
    /\ pending \cup started = Seen(index)
    /\ pending \cap started = {}
    /\ controllers = [p \in Providers |-> IF p \in started THEN 1 ELSE 0]
    /\ todo \subseteq pending
    /\ phase # "running" => ~watching /\ queued = {} /\ delayed = {} /\ request = {} /\ todo = {}
    /\ phase = "running" /\ pending # {} =>
          watching /\ (queued # {} \/ delayed # {} \/ request # {})

\* The invariant says at least what the two properties say.
LEMMA InvImplies == RegistryInv => OneControllerEach /\ NoneForgotten
<1> SUFFICES ASSUME RegistryInv PROVE OneControllerEach /\ NoneForgotten
  OBVIOUS
<1>1. OneControllerEach
  BY DEF RegistryInv, OneControllerEach
<1>2. NoneForgotten
  <2>1. CASE phase = "running"
    <3>1. pending \cup started = Providers
      BY <2>1, SeenFacts DEF RegistryInv
    <3>2. QED
      BY <2>1, <3>1 DEF RegistryInv, NoneForgotten
  <2>2. QED
    BY <2>1 DEF NoneForgotten
<1>3. QED
  BY <1>1, <1>2

\* A process that is down has nothing pending and nothing started.
LEMMA InvInit == RegistryInit => RegistryInv
BY SeenFacts, RegistryAssumption DEF RegistryInit, RegistryInv
-----------------------------------------------------------------------------
(* One lemma per step.                                                     *)

\* What the process held in memory is gone with it.
LEMMA InvExit ==
    ASSUME Exit, UNCHANGED crds, RegistryInv
    PROVE  RegistryInv'
BY SeenFacts DEF Exit, RegistryInv

\* A step that leaves the registry and the watcher alone.
LEMMA InvStutter ==
    ASSUME UNCHANGED <<crds, phase, index, pending, started, controllers, watcherVars>>,
           RegistryInv
    PROVE  RegistryInv'
BY DEF watcherVars, RegistryInv, Seen

\* An event of a CRD brings the watcher a request, or there is no watcher.
LEMMA InvNotify ==
    ASSUME NEW c, Notify(c), OwnCRDs \subseteq crds', RegistryInv,
           UNCHANGED <<phase, registryVars, watching, request, todo>>
    PROVE  RegistryInv'
<1>1. UNCHANGED <<phase, index, pending, started, controllers, watching, request, todo>>
  BY DEF registryVars
<1>2. phase # "running" => queued' = {} /\ delayed' = {}
  BY DEF Notify, RegistryInv
<1>3. watching => queued' # {}
  BY DEF Notify
<1>4. QED
  BY <1>1, <1>2, <1>3, SMTT(60) DEF RegistryInv, Seen

\* main gets to SetupAll.
LEMMA InvBeginSetup ==
    ASSUME BeginSetup, RegistryInv,
           UNCHANGED <<crds, pending, started, controllers, watcherVars>>
    PROVE  RegistryInv'
BY SeenFacts DEF BeginSetup, watcherVars, RegistryInv

\* One round of the loop of SetupAll: the provider at index is new, so it is
\* neither pending nor started before.
LEMMA InvSetupProvider ==
    ASSUME SetupProvider, RegistryInv
    PROVE  RegistryInv'
<1> DEFINE p == Registry[index]
<1>1. /\ phase = "setup" /\ index \in DOMAIN Registry
      /\ UNCHANGED crds
  BY DEF SetupProvider, clusterVars
<1>2. /\ p \in Providers /\ p \notin pending /\ p \notin started
      /\ Seen(index + 1) = pending \cup started \cup {p}
      /\ index + 1 \in 1..(Len(Registry) + 1)
  BY <1>1, SeenFacts DEF RegistryInv
<1>3. CASE /\ pending' = pending \cup {p} /\ index' = index + 1
           /\ UNCHANGED <<phase, started, controllers, watcherVars>>
  <2>1. pending' \cup started' = Seen(index')
    BY <1>2, <1>3
  <2>2. QED
    BY <1>1, <1>2, <1>3, <2>1 DEF RegistryInv, watcherVars
<1>4. CASE /\ started' = started \cup {p} /\ index' = index + 1 /\ AddController(p)
           /\ UNCHANGED <<phase, pending, watcherVars>>
  <2>1. pending' \cup started' = Seen(index')
    BY <1>2, <1>4
  <2>2. controllers' = [q \in Providers |-> IF q \in started' THEN 1 ELSE 0]
    BY <1>2, <1>4, SMTT(60) DEF AddController, RegistryInv
  <2>3. QED
    BY <1>1, <1>2, <1>4, <2>1, <2>2 DEF RegistryInv, watcherVars
<1>5. CASE Exit
  BY <1>1, <1>5, InvExit
<1>6. QED
  BY <1>3, <1>4, <1>5 DEF SetupProvider

\* The watcher starts with a request: the CRDs of the operator itself are there.
LEMMA InvStartManager ==
    ASSUME StartManager, RegistryInv
    PROVE  RegistryInv'
BY RegistryAssumption DEF StartManager, clusterVars, registryVars, RegistryInv, Seen

\* The watcher takes a request.
LEMMA InvBeginWatch ==
    ASSUME NEW c, BeginWatch(c), RegistryInv
    PROVE  RegistryInv'
BY DEF BeginWatch, clusterVars, registryVars, RegistryInv, Seen

\* One round of the watcher's loop: what it starts was pending, hence not started.
LEMMA InvWatchProvider ==
    ASSUME WatchProvider, RegistryInv
    PROVE  RegistryInv'
<1> DEFINE p == First(todo)
<1>1. /\ request # {} /\ todo # {} /\ todo' = todo \ {p}
      /\ UNCHANGED <<crds, phase, index, watching, queued, delayed, request>>
  BY DEF WatchProvider, clusterVars
<1>2. phase = "running"
  BY <1>1 DEF RegistryInv
<1>3. todo \subseteq Providers
  BY <1>2, SeenFacts DEF RegistryInv
<1>4. p \in todo /\ p \in pending /\ p \in Providers /\ p \notin started
  BY <1>1, <1>3, FirstIsMember DEF RegistryInv
<1>5. CASE UNCHANGED <<pending, started, controllers>>
  BY <1>1, <1>5 DEF RegistryInv, Seen
<1>6. CASE AddController(p) /\ started' = started \cup {p} /\ pending' = pending \ {p}
  <2>1. pending' \cup started' = Seen(index')
    BY <1>1, <1>4, <1>6 DEF RegistryInv, Seen
  <2>2. controllers' = [q \in Providers |-> IF q \in started' THEN 1 ELSE 0]
    BY <1>4, <1>6, SMTT(60) DEF AddController, RegistryInv
  <2>3. todo' \subseteq pending' /\ pending' \cap started' = {}
    BY <1>1, <1>6 DEF RegistryInv
  <2>4. QED
    BY <1>1, <1>2, <2>1, <2>2, <2>3, <1>6 DEF RegistryInv
<1>7. QED
  BY <1>5, <1>6 DEF WatchProvider

\* The request is repeated later as long as a provider is pending.
LEMMA InvEndWatch ==
    ASSUME EndWatch, RegistryInv
    PROVE  RegistryInv'
BY DEF EndWatch, clusterVars, registryVars, RegistryInv, Seen

\* A delayed request becomes due.
LEMMA InvTimerFires ==
    ASSUME NEW c, TimerFires(c), RegistryInv
    PROVE  RegistryInv'
BY DEF TimerFires, clusterVars, registryVars, RegistryInv, Seen

\* A step of the process.
LEMMA InvRegistryStep ==
    ASSUME RegistryStep, RegistryInv
    PROVE  RegistryInv'
<1>1. ASSUME NEW p \in Providers, InformersSync(p) PROVE RegistryInv'
  BY <1>1, InvStutter DEF InformersSync, clusterVars
<1>2. ASSUME NEW p \in Providers, SyncTimesOut(p) PROVE RegistryInv'
  BY <1>2, InvExit DEF SyncTimesOut, clusterVars
<1>3. QED
  BY <1>1, <1>2, InvSetupProvider, InvWatchProvider, InvEndWatch, InvBeginWatch,
     InvTimerFires DEF RegistryStep

\* CRDs are installed, served and removed.
LEMMA InvCRDStep ==
    ASSUME NEW c, InstallCRD(c) \/ RemoveCRD(c) \/ ServeCRD(c), RegistryInv
    PROVE  RegistryInv'
<1>1. CASE InstallCRD(c)
  BY <1>1, InvNotify DEF InstallCRD, RegistryInv
<1>2. CASE RemoveCRD(c)
  BY <1>2, InvNotify DEF RemoveCRD, RegistryInv
<1>3. CASE ServeCRD(c)
  BY <1>3, InvStutter DEF ServeCRD, registryVars
<1>4. QED
  BY <1>1, <1>2, <1>3

\* Steps of other parts of the operator and of its surroundings.
LEMMA InvOtherStep ==
    ASSUME UNCHANGED <<clusterVars, phase, registryVars, watcherVars>>, RegistryInv
    PROVE  RegistryInv'
BY InvStutter DEF clusterVars, registryVars

-----------------------------------------------------------------------------
(* The registry within the operator. *)

\* One step per action of the operator.
LEMMA InvNext ==
    ASSUME Next, RegistryInv
    PROVE  RegistryInv'
<1>1. CASE Launch
  BY <1>1, InvBeginSetup DEF Launch, clusterVars
<1>2. CASE Start
  BY <1>2, InvExit, InvStartManager DEF Start, clusterVars
<1>3. CASE ProviderStep
  BY <1>3, InvRegistryStep DEF ProviderStep
<1>4. CASE Crashes
  BY <1>4, InvExit DEF Crashes, Crash, clusterVars
<1>5. CASE ClusterStep
  BY <1>5, InvCRDStep DEF ClusterStep
<1>6. CASE Replace
  BY <1>6, InvExit DEF Replace, clusterVars
<1>7. ASSUME NEW c \in Configs, Deploy(c) PROVE RegistryInv'
  BY <1>7, InvOtherStep DEF Deploy, providerVars
<1>8. ASSUME NEW c \in Clients, NEW v \in Versions, SendCreate(c, v) \/ SendUpdate(c, v)
      PROVE  RegistryInv'
  BY <1>8, InvOtherStep DEF SendCreate, SendUpdate, providerVars
<1>9. ASSUME NEW c \in Clients, Admit(c) \/ Reject(c) \/ Commit(c) PROVE RegistryInv'
  BY <1>9, InvOtherStep DEF Admit, Reject, Commit, providerVars
<1>10. CASE Delete \/ Report
  BY <1>10, InvOtherStep DEF Delete, Report, providerVars
<1>11. ASSUME NEW t \in Texts, WriteConfigMap(t) PROVE RegistryInv'
  BY <1>11, InvOtherStep DEF WriteConfigMap, providerVars
<1>12. CASE LogLevelReconcile
  BY <1>12, InvOtherStep DEF LogLevelReconcile
<1>13. QED
  BY <1>1, <1>2, <1>3, <1>4, <1>5, <1>6, <1>7, <1>8, <1>9, <1>10, <1>11, <1>12 DEF Next

\* The invariant holds of the whole operator.
THEOREM RegistryInvariance == Spec => []RegistryInv
<1>1. Init => RegistryInv
  BY InvInit DEF Init
<1>2. RegistryInv /\ [Next]_vars => RegistryInv'
  <2>1. ASSUME RegistryInv, UNCHANGED vars PROVE RegistryInv'
    BY <2>1, InvOtherStep DEF vars, providerVars
  <2>2. QED
    BY <2>1, InvNext
<1>3. QED
  BY <1>1, <1>2, PTL DEF Spec

\* Whatever fails and in whatever order CRDs come and go, SetupAll and the
\* watcher add the controller of a provider to a manager at most once, and while
\* the manager runs a provider that is not started is pending and the watcher has
\* a request, a timer or a reconcile in progress that looks at it.
THEOREM ProvidersAccountedFor == Spec => []EachProviderOnce
<1>1. RegistryInv => EachProviderOnce
  BY InvImplies DEF EachProviderOnce
<1>2. QED
  BY <1>1, RegistryInvariance, PTL
=============================================================================
