-------------------------- MODULE ProviderRegistry --------------------------
(***************************************************************************)
(* The registry of gateway providers: SetupAll starts, while the operator  *)
(* comes up, the providers whose CRDs are served, and leaves the others to *)
(* a watcher of CustomResourceDefinitions, which starts them later.        *)
(*                                                                         *)
(* A provider's Factory adds its controller to the manager.  The manager   *)
(* (external) starts the informers of a controller; when they cannot sync  *)
(* in time, because a kind is not served, it ends the process, which is    *)
(* then restarted.  The REST mapper (external) asks the API server for a   *)
(* kind it does not know and remembers every kind it has found.            *)
(***************************************************************************)
EXTENDS Naturals, Sequences

CONSTANTS
    Registry,          \* the registered providers, a sequence
    CRDs,              \* CustomResourceDefinitions
    OwnCRDs,           \* those installed with the operator
    RequiredCRDs,      \* of each provider
    MaxFaults          \* bound: faults and removed CRDs

Providers == {Registry[i] : i \in DOMAIN Registry}

ASSUME RegistryAssumption ==
    /\ Registry \in Seq(Providers)
    /\ \A i, j \in DOMAIN Registry : Registry[i] = Registry[j] => i = j
    /\ OwnCRDs \subseteq CRDs /\ OwnCRDs # {}
    /\ RequiredCRDs \in [Providers -> SUBSET CRDs]
    /\ MaxFaults \in Nat

VARIABLES
    crds, served,      \* CRDs that exist, and those that are served
    faults,
    phase,             \* of the process: "down", "setup", "running"
    mapped,            \* CRDs the REST mapper has found
    index,             \* position of SetupAll in the registry
    pending, started,  \* of the watcher
    watching,          \* the watcher is set up
    controllers,       \* how often each provider's controller was added
    synced,            \* providers whose informers have synced
    queued, delayed,   \* requests of the watcher: due, and after a delay
    request, todo      \* the request being reconciled, providers still to look at

clusterVars == <<crds, served>>
watcherVars == <<watching, queued, delayed, request, todo>>
registryVars == <<mapped, index, pending, started, controllers, synced>>
providerVars == <<clusterVars, faults, phase, registryVars, watcherVars>>

Fault == faults < MaxFaults /\ faults' = faults + 1
NoFault == UNCHANGED faults

RegistryInit ==
    /\ crds \in SUBSET CRDs /\ OwnCRDs \subseteq crds
    /\ served = crds
    /\ faults \in 0..MaxFaults
    /\ phase = "down"
    /\ mapped = {} /\ index = 1 /\ pending = {} /\ started = {} /\ synced = {}
    /\ controllers = [p \in Providers |-> 0]
    /\ watching = FALSE /\ queued = {} /\ delayed = {} /\ request = {} /\ todo = {}

-----------------------------------------------------------------------------
(* The cluster. *)

\* For(CustomResourceDefinition): any event of a CRD is a request.
\* It takes the place of a delayed one.
Notify(c) ==
    /\ queued' = IF watching THEN queued \cup {c} ELSE queued
    /\ delayed' = delayed \ {c}

\* A CRD appears; its kinds are served a little later.
InstallCRD(c) ==
    /\ c \notin crds
    /\ crds' = crds \cup {c}
    /\ Notify(c)
    /\ UNCHANGED <<served, faults, phase, registryVars, watching, request, todo>>

ServeCRD(c) ==
    /\ c \in crds \ served
    /\ served' = served \cup {c}
    /\ UNCHANGED <<crds, faults, phase, registryVars, watcherVars>>

RemoveCRD(c) ==
    /\ Fault
    /\ c \in crds \ OwnCRDs
    /\ crds' = crds \ {c} /\ served' = served \ {c}
    /\ Notify(c)
    /\ UNCHANGED <<phase, registryVars, watching, request, todo>>

-----------------------------------------------------------------------------
(* Discovery and factories. *)

\* missingCRDs, when discovery answers.
MissingCRDs(p) == RequiredCRDs[p] \ (mapped \cup served)

Discover(p) == mapped' = mapped \cup (RequiredCRDs[p] \cap served)

\* Factory: the controller is added to the manager.
AddController(p) == controllers' = [controllers EXCEPT ![p] = @ + 1]

\* The process ends; what it held in memory is gone.
Exit ==
    /\ phase' = "down"
    /\ mapped' = {} /\ index' = 1 /\ pending' = {} /\ started' = {} /\ synced' = {}
    /\ controllers' = [p \in Providers |-> 0]
    /\ watching' = FALSE /\ queued' = {} /\ delayed' = {} /\ request' = {} /\ todo' = {}

-----------------------------------------------------------------------------
(* SetupAll *)

\* The providers below are looked at one after the other.
BeginSetup == phase = "down" /\ phase' = "setup" /\ index' = 1

\* One round of the loop of SetupAll.
SetupProvider ==
    /\ phase = "setup" /\ index \in DOMAIN Registry
    /\ LET p == Registry[index] IN
       \/ /\ NoFault                            \* CRDs missing: left to the watcher
          /\ MissingCRDs(p) # {}
          /\ Discover(p)
          /\ pending' = pending \cup {p} /\ index' = index + 1
          /\ UNCHANGED <<phase, started, controllers, synced, watcherVars>>
       \/ /\ Fault                              \* discovery failed: likewise
          /\ RequiredCRDs[p] # {}
          /\ pending' = pending \cup {p} /\ index' = index + 1
          /\ UNCHANGED <<phase, mapped, started, controllers, synced, watcherVars>>
       \/ /\ NoFault                            \* started at once
          /\ MissingCRDs(p) = {}
          /\ Discover(p)
          /\ AddController(p)
          /\ started' = started \cup {p} /\ index' = index + 1
          /\ UNCHANGED <<phase, pending, synced, watcherVars>>
       \/ /\ Fault                              \* its Factory failed: main gives up
          /\ MissingCRDs(p) = {}
          /\ Exit
    /\ UNCHANGED clusterVars

\* SetupAll returns and the manager starts: with a provider pending, the watcher
\* is set up and its informer lists the CRDs there are.
StartManager ==
    /\ phase = "setup" /\ index = Len(Registry) + 1
    /\ phase' = "running"
    /\ watching' = (pending # {})
    /\ queued' = IF pending # {} THEN crds ELSE {}
    /\ UNCHANGED <<clusterVars, faults, registryVars, delayed, request, todo>>

-----------------------------------------------------------------------------
(* crdWatcher.Reconcile, under the watcher's lock. *)

\* Variant: only the providers that need nothing but this CRD are looked at.
BeginWatchSingle(c) ==
    /\ phase = "running" /\ request = {} /\ c \in queued
    /\ queued' = queued \ {c} /\ request' = {c}
    /\ todo' = {p \in pending : RequiredCRDs[p] = {c}}
    /\ UNCHANGED <<clusterVars, faults, phase, registryVars, watching, delayed>>

BeginWatch(c) ==
    /\ phase = "running" /\ request = {} /\ c \in queued
    /\ queued' = queued \ {c} /\ request' = {c} /\ todo' = pending
    /\ UNCHANGED <<clusterVars, faults, phase, registryVars, watching, delayed>>

\* The providers are looked at in the order of the registry.
First(ps) ==
    Registry[CHOOSE i \in DOMAIN Registry :
                 Registry[i] \in ps /\ \A j \in 1..(i - 1) : Registry[j] \notin ps]

\* One round of the loop: the provider stays pending, or is started.  Names are
\* registered once, so no pending provider is already started.
WatchProvider ==
    /\ request # {} /\ todo # {}
    /\ LET p == First(todo) IN
       /\ todo' = todo \ {p}
       /\ \/ /\ NoFault /\ MissingCRDs(p) # {}
             /\ Discover(p)
             /\ UNCHANGED <<pending, started, controllers>>
          \/ /\ Fault                           \* discovery failed
             /\ UNCHANGED <<mapped, pending, started, controllers>>
          \/ /\ Fault /\ MissingCRDs(p) = {}     \* Factory failed
             /\ Discover(p)
             /\ UNCHANGED <<pending, started, controllers>>
          \/ /\ NoFault /\ MissingCRDs(p) = {}
             /\ Discover(p)
             /\ AddController(p)
             /\ started' = started \cup {p} /\ pending' = pending \ {p}
    /\ UNCHANGED <<clusterVars, phase, index, synced, watching, queued, delayed, request>>

\* Variant: the request is not repeated.
DoneWithoutRequeue ==
    /\ request # {} /\ todo = {}
    /\ request' = {}
    /\ UNCHANGED <<clusterVars, faults, phase, registryVars, watching, queued, delayed, todo>>

\* RequeueAfter five seconds while a provider is pending; an event in the
\* meantime takes the place of the delayed request.
EndWatch ==
    /\ request # {} /\ todo = {}
    /\ request' = {}
    /\ delayed' = IF pending # {} THEN delayed \cup (request \ queued) ELSE delayed
    /\ UNCHANGED <<clusterVars, faults, phase, registryVars, watching, queued, todo>>

TimerFires(c) ==
    /\ c \in delayed
    /\ delayed' = delayed \ {c} /\ queued' = queued \cup {c}
    /\ UNCHANGED <<clusterVars, faults, phase, registryVars, watching, request, todo>>

-----------------------------------------------------------------------------
(* The manager and the machine. *)

InformersSync(p) ==
    /\ phase = "running" /\ controllers[p] > 0 /\ p \notin synced
    /\ RequiredCRDs[p] \subseteq served
    /\ synced' = synced \cup {p}
    /\ UNCHANGED <<clusterVars, faults, phase, mapped, index, pending, started, controllers,
                   watcherVars>>

SyncTimesOut(p) ==
    /\ phase = "running" /\ controllers[p] > 0 /\ p \notin synced
    /\ ~(RequiredCRDs[p] \subseteq served)
    /\ Exit
    /\ UNCHANGED <<clusterVars, faults>>

Crash ==
    /\ phase # "down" /\ Fault
    /\ Exit
    /\ UNCHANGED clusterVars

\* What a process does of itself while it sets up and runs its watcher.
RegistryStep ==
    \/ SetupProvider \/ WatchProvider \/ EndWatch
    \/ \E c \in CRDs : BeginWatch(c) \/ TimerFires(c)
    \/ \E p \in Providers : InformersSync(p) \/ SyncTimesOut(p)

-----------------------------------------------------------------------------
(* Properties *)

\* Whatever fails and in whatever order CRDs come and go, SetupAll and the
\* watcher add the controller of a provider to a manager at most once, and a
\* provider whose controller was added is no longer pending.
OneControllerEach ==
    \A p \in Providers :
        /\ controllers[p] = IF p \in started THEN 1 ELSE 0
        /\ p \in pending => p \notin started

\* No provider is forgotten: while the manager runs, one that is not started is
\* pending, and the watcher is looking at it, has a request or waits for its timer.
NoneForgotten ==
    phase = "running" =>
        /\ Providers \ started = pending
        /\ pending # {} => watching /\ (queued \cup delayed # {} \/ request # {})

\* The two together: through start-up, the watcher's rounds, failures and restarts, each
\* provider is started once or is still being seen to (SetupAll, crdWatcher).
EachProviderOnce == OneControllerEach /\ NoneForgotten
=============================================================================
