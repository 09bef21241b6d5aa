----------------------------- MODULE MCWorkload -----------------------------
(***************************************************************************)
(* Small instances of Workload.  A world spends its budget on references,  *)
(* on a workload the user brings, on pods, or on the network of a spec.    *)
(***************************************************************************)
EXTENDS Workload

MCObjects == {ConfigMap("a"), Secret("b"), Secret("ca"), ExternalService}

Absent == [o \in MCObjects |-> "NotFound"]
Present == [Absent EXCEPT ![ConfigMap("a")] = "v1"]

Plain ==
    [workloadRef |-> None, serviceRef |-> FALSE, storage |-> <<>>, env |-> <<>>,
     network |-> None, tls |-> None]

Ref(name, optional) == [name |-> name, optional |-> optional]
Mount(type, ref) == [type |-> type, ref |-> ref]
Env(configMap, secret) == [configMap |-> configMap, secret |-> secret]

-----------------------------------------------------------------------------
(* References. *)

Mounts == [Plain EXCEPT !.storage = <<Mount("EmptyDir", "set"),
                                      Mount("ConfigMap", Ref("a", FALSE)),
                                      Mount("Secret", Ref("b", TRUE))>>]
Envs == [Plain EXCEPT !.env = <<Env(Ref("a", TRUE), Ref("b", FALSE))>>]
Secured == [Plain EXCEPT !.tls = [enabled |-> TRUE, skip |-> FALSE, ca |-> "ca"]]
Served == [Plain EXCEPT !.serviceRef = TRUE]

OddSpecs ==
    {[Secured EXCEPT !.tls.skip = TRUE],
     [Secured EXCEPT !.tls.enabled = FALSE],
     [Plain EXCEPT !.storage = <<Mount("ConfigMap", Ref("", TRUE))>>]}

Changes(o, contents) == {<<o, c>> : c \in contents}

NoChoice == [specs |-> {}, objects |-> {}, workloads |-> {}, reports |-> {}, pods |-> {}]
NoBudget == [edits |-> 0, objects |-> 0, workloads |-> 0, reports |-> 0, pods |-> 0, faults |-> 0]

Referring(specs, changes, edits, n, faults) ==
    [choices |-> [NoChoice EXCEPT !.specs = specs, !.objects = changes],
     budget |-> [NoBudget EXCEPT !.edits = edits, !.objects = n, !.faults = faults],
     objects |-> Present, workload |-> None]

References ==
    {Referring({Mounts, Envs},
               Changes(ConfigMap("a"), {"v2", "NotFound"}) \cup Changes(Secret("b"), {"v1"}), 1, 2, 0),
     Referring({Envs}, Changes(ConfigMap("a"), {"v2"})
                       \cup Changes(Secret("b"), {"v1", "empty", "BadRequest"}), 0, 2, 1),
     Referring({Secured}, Changes(Secret("ca"), {"bundle", "no key", "no PEM"}), 0, 2, 1),
     Referring({Plain, Served}, Changes(ExternalService, {"svc", "NotFound"}), 1, 2, 1),
     [Referring({Mounts}, Changes(ConfigMap("a"), {"v2"}), 0, 1, 0) EXCEPT !.budget.workloads = 1],
     Referring(OddSpecs, {}, 0, 0, 0)}

-----------------------------------------------------------------------------
(* Workloads the user brings. *)

Selector(labels, expressions) == [labels |-> labels, expressions |-> expressions]

Brought(kind, selector) ==
    [NewDeployment(None) EXCEPT !.kind = kind, !.selector = selector]

Kinds == {"Deployment", "DaemonSet", "StatefulSet"}

BroughtWorkloads ==
    {Brought(k, Selector("app", None)) : k \in Kinds}
    \cup {Brought("Deployment", s) :
             s \in {Selector("other", None), Selector("app", "tier"), Selector(None, "tier")}}

Report(conditions, n) == [conditions |-> conditions, ready |-> n, available |-> n]
Conditions(available, progressing, failure) ==
    [available |-> available, progressing |-> progressing, failure |-> failure]

Healthy == Report(Conditions(TRUE, TRUE, FALSE), 1)
Starting == Report(Conditions(FALSE, TRUE, FALSE), 0)
Stuck == Report(Conditions(FALSE, FALSE, FALSE), 0)
Quota == Report(Conditions(FALSE, TRUE, TRUE), 0)

Bringing(specs, w, spent) ==
    [choices |-> [NoChoice EXCEPT !.specs = specs, !.objects = {<<ExternalService, "svc">>},
                                  !.workloads = BroughtWorkloads,
                                  !.reports = {Healthy, Starting}],
     budget |-> spent, objects |-> Absent, workload |-> w]

BroughtSpec(kind, s) == [Plain EXCEPT !.workloadRef = kind, !.serviceRef = s]

\* Replaced, scaled and reported on, referred to in another way.
Brings ==
    {Bringing({BroughtSpec("Deployment", FALSE)}, Brought("Deployment", Selector("app", None)),
              [NoBudget EXCEPT !.workloads = 2, !.faults = 1]),
     Bringing({BroughtSpec(k, s) : k \in {"Deployment", "DaemonSet"}, s \in BOOLEAN}, None,
              [NoBudget EXCEPT !.edits = 1, !.objects = 1, !.workloads = 1])}
    \cup {Bringing({BroughtSpec(k, FALSE)}, Brought(k, Selector("app", None)),
                   [NoBudget EXCEPT !.workloads = 1, !.reports = 2]) : k \in Kinds}

-----------------------------------------------------------------------------
(* Pods. *)

Container ==
    [waiting |-> None, detail |-> None, lastExit |-> None, terminated |-> None, exit |-> None,
     running |-> FALSE, ready |-> FALSE, restarts |-> 0, image |-> "i"]

Running == [Container EXCEPT !.running = TRUE, !.ready = TRUE]
Done == [Container EXCEPT !.terminated = "Completed", !.exit = 0]
Waits(reason, detail) == [Container EXCEPT !.waiting = reason, !.detail = detail]
Crashes(exit, n) ==
    [Waits("CrashLoopBackOff", "back-off") EXCEPT !.lastExit = exit, !.restarts = n]

Pod(init, main, labelled) == [init |-> init, main |-> main, labelled |-> labelled]

Broken(n) == [Running EXCEPT !.ready = FALSE, !.restarts = n]

Watched(mains) == {Pod(Done, m, TRUE) : m \in mains}

\* What the pods of one world go through.
Courses ==
    {Watched({Running, Waits("ErrImagePull", "unknown"), Waits("ImagePullBackOff", "denied")}),
     Watched({Crashes(1, 1), Crashes(1, 2), Crashes(2, 2)}),
     Watched({Broken(0), Broken(1), [Container EXCEPT !.terminated = "OOMKilled", !.exit = 137]}),
     {Pod(Waits("CreateContainerConfigError", "no key"), Container, TRUE),
      Pod(Crashes(1, 1), Running, TRUE), Pod(Done, Crashes(1, 1), TRUE)}}

Diagnosed(spec, w, states, pod, report) ==
    [choices |-> [NoChoice EXCEPT !.specs = {spec}, !.pods = states,
                                  !.reports = {Healthy, Starting, Stuck, Quota}],
     budget |-> [NoBudget EXCEPT !.pods = pod, !.reports = report],
     objects |-> Absent, workload |-> w]

Reported(report) ==
    [Brought("Deployment", Selector("app", None)) EXCEPT
        !.observed = 1, !.conditions = report.conditions]

Diagnoses ==
    {Diagnosed(BroughtSpec("Deployment", FALSE), Reported(Starting), c, 3, 0) : c \in Courses}
    \cup {Diagnosed(Plain, None, c, 1, 1) : c \in Courses}
    \cup {Diagnosed(BroughtSpec("Deployment", FALSE), Reported(Stuck),
                    {Pod(Done, Crashes(1, 1), l) : l \in BOOLEAN}, 2, 1)}

-----------------------------------------------------------------------------
(* Networks. *)

Number(n) == [name |-> None, number |-> n]
Named(name) == [name |-> name, number |-> 0]
Port(protocol, port, end) == [protocol |-> protocol, port |-> port, endPort |-> end]

NetworkPorts ==
    {Port(None, None, None), Port("ICMP", None, None), Port("TCP", Named("http"), None),
     Port("TCP", Named("-bad-"), None), Port("TCP", Named("http"), 80), Port("TCP", None, 80)}
    \cup {Port("TCP", Number(n), e) : n \in {0, 1, 2, MaxPort, MaxPort + 1},
                                      e \in {None, 0, 1, 2, MaxPort, MaxPort + 1}}

Net(address, ones) == [address |-> address, ones |-> ones]
Nets == {Net(a, n) : a \in [1..2 -> {0, 1}], n \in 0..2}
        \cup {Net(<<0, 0, 0>>, n) : n \in {0, 3}} \cup {None}

NetworkPeers ==
    {[selects |-> s, block |-> None] : s \in BOOLEAN}
    \cup {[selects |-> TRUE, block |-> [cidr |-> Net(<<0, 0>>, 1), except |-> {}]]}
    \cup {[selects |-> FALSE, block |-> [cidr |-> c, except |-> {e}]] : c \in Nets, e \in Nets}

Network(peers, ports) == [Plain EXCEPT !.network = [peers |-> peers, ports |-> ports]]

Networks ==
    [choices |-> [NoChoice EXCEPT !.specs = {Network({}, {p}) : p \in NetworkPorts}
                                            \cup {Network({p}, {}) : p \in NetworkPeers}],
     budget |-> NoBudget, objects |-> Absent, workload |-> None]

MCWorlds == References \cup Brings \cup Diagnoses \cup {Networks}

=============================================================================
