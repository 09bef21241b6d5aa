--------------------------- MODULE WorkloadStatus ---------------------------
(***************************************************************************)
(* The Available condition as it is derived from a workload and its pods.  *)
(* A condition is its reason and its message; a message is a tag, or the   *)
(* failure of a container of some pod.  Pods, as the informer keeps them   *)
(* (CacheOptions, stripPodForDiagnostics), are their container statuses:   *)
(* one init container and one main container here.                         *)
(***************************************************************************)
EXTENDS Integers

CONSTANTS None, Pods

Condition(reason, message) == [reason |-> reason, message |-> message]

-----------------------------------------------------------------------------
(* Failures of containers. *)

Failure(cs, init, kind, detail, exit) ==
    [kind |-> kind, init |-> init, image |-> cs.image, detail |-> detail, exit |-> exit,
     restarts |-> cs.restarts]

ClassifyContainer(cs, init) ==
    CASE cs.waiting \in {"ImagePullBackOff", "ErrImagePull"} ->
             Failure(cs, init, "ImagePull", cs.detail, None)
      [] cs.waiting = "CrashLoopBackOff" -> Failure(cs, init, "CrashLoop", None, cs.lastExit)
      [] cs.waiting = "CreateContainerConfigError" ->
             Failure(cs, init, "ConfigError", cs.detail, None)
      [] cs.terminated = "OOMKilled" -> Failure(cs, init, "OOMKilled", None, cs.exit)
      [] cs.running /\ ~cs.ready /\ cs.restarts > 0 -> Failure(cs, init, "NotReady", None, None)
      [] OTHER -> None

\* Init containers come first.
FirstFailure(pod) ==
    IF ClassifyContainer(pod.init, TRUE) # None THEN ClassifyContainer(pod.init, TRUE)
    ELSE ClassifyContainer(pod.main, FALSE)

\* Variant: what failed, but not how.
KindOfFailure(f) == [kind |-> f.kind, init |-> f.init, image |-> f.image]

\* Everything but the restarts.
Signature(f) ==
    [kind |-> f.kind, init |-> f.init, image |-> f.image, detail |-> f.detail, exit |-> f.exit]

Fails(pod) == pod # None /\ FirstFailure(pod) # None

PodFailureSignature(pod) == IF Fails(pod) THEN Signature(FirstFailure(pod)) ELSE None

\* podDiagnosticsChangedPredicate, of the pod before and after an event (None
\* where there is none); a deletion may have been missed and found out later.
PodDiagnosticsChanged(old, new, missed) ==
    CASE old = None -> Fails(new)
      [] new = None -> missed \/ Fails(old)
      [] OTHER      -> PodFailureSignature(old) # PodFailureSignature(new)

\* getPodFailureMessage and analyzePodFailures: a failing pod of the list,
\* which is in no particular order; no message if there is none.
PodFailureMessages(pods) ==
    IF \E p \in Pods : Fails(pods[p])
    THEN {<<"pod", p, FirstFailure(pods[p])>> : p \in {p \in Pods : Fails(pods[p])}}
    ELSE {<<"none">>}

-----------------------------------------------------------------------------
(* Availability by kind of workload. *)

Unavailable(message) == Condition("WorkloadUnavailable", message)

\* workloadProgressCondition: the status is missing or of an older generation.
Pending(w) == w.observed < w.generation

WorkloadProgressCondition(w) ==
    IF w.observed = 0 THEN Condition("Initializing", <<"none">>) ELSE Unavailable(<<"processing">>)

Instances(w) ==
    IF w.available > 0 THEN Condition("Available", <<"none">>) ELSE Unavailable(<<"instances">>)

DaemonSetAvailability(w) ==
    IF Pending(w) THEN WorkloadProgressCondition(w)
    ELSE IF w.replicas = 0 THEN Unavailable(<<"no nodes">>)
    ELSE Instances(w)

\* Variant: a status is believed whatever generation it is of.
StatefulSetOfAnyGeneration(w) ==
    IF w.replicas = 0 THEN Condition("ScaledToZero", <<"none">>)
    ELSE IF w.observed = 0 THEN WorkloadProgressCondition(w)
    ELSE Instances(w)

StatefulSetAvailability(w) ==
    IF w.replicas = 0 THEN Condition("ScaledToZero", <<"none">>)
    ELSE IF Pending(w) THEN WorkloadProgressCondition(w)
    ELSE Instances(w)

\* extractDeploymentState: no conditions at all, or the status of three types.
Unreported(w) == w.conditions = None /\ w.ready = 0

DeploymentState(w) ==
    IF w.conditions = None THEN [available |-> FALSE, progressing |-> FALSE, failure |-> FALSE]
    ELSE w.conditions

FailurePath(state, w, message) ==
    \/ state.failure
    \/ ~state.progressing /\ ~state.available
    \/ state.progressing /\ w.ready = 0 /\ message # <<"none">>

\* reconcileAvailableCondition, of an accepted server: the conditions it may
\* come to, one for each message the pods may give.
ReconcileAvailableCondition(w, pods) ==
    LET state == DeploymentState(w) IN
    IF w.replicas = 0 THEN {Condition("ScaledToZero", <<"none">>)}
    ELSE IF Unreported(w) THEN {Condition("Initializing", <<"none">>)}
    ELSE IF w.observed > 0 /\ Pending(w) THEN {Unavailable(<<"processing">>)}
    ELSE IF state.available /\ w.ready > 0 THEN {Condition("Available", <<"none">>)}
    ELSE {IF ~FailurePath(state, w, m) THEN Unavailable(<<"waiting">>)
          ELSE IF m = <<"none">> THEN Unavailable(<<"no details">>)
          ELSE Unavailable(m) : m \in PodFailureMessages(pods)}

\* observeWorkload
ObserveWorkload(w, pods) ==
    CASE w.kind = "Deployment"  -> ReconcileAvailableCondition(w, pods)
      [] w.kind = "DaemonSet"   -> {DaemonSetAvailability(w)}
      [] w.kind = "StatefulSet" -> {StatefulSetAvailability(w)}

=============================================================================
