--------------------------- MODULE WorkloadProofs ---------------------------
(***************************************************************************)
(* What validation promises about spec.network, for ports and for          *)
(* addresses of every length, and that the reconcile relies on it only     *)
(* where it was established; and convergence: when nothing is pending, the *)
(* status, the Service and the pod template are those that the spec and    *)
(* what it refers to call for.                                             *)
(***************************************************************************)
EXTENDS Workload, WellFoundedInduction, TLAPS

\* A leaf is left to Zenon unless it names another prover.
USE ZenonT(60)

-----------------------------------------------------------------------------
(* Validation. *)

\* A set of natural numbers that is not empty has a least element.
LEMMA LeastNatural ==
    ASSUME NEW S, S \subseteq Nat, S # {}
    PROVE  \E n \in S : \A m \in S : n <= m
<1> DEFINE R == OpToRel(<, Nat)
<1>1. IsWellFoundedOn(R, Nat)
  BY NatLessThanWellFounded
<1>2. \A x, y \in Nat : x < y => <<x, y>> \in R
  BY DEF OpToRel
<1> HIDE DEF R
<1>3. PICK n \in S : \A m \in S : ~(<<m, n>> \in R)
  BY <1>1, WFMin
<1>4. \A m \in S : ~(m < n)
  BY <1>2, <1>3
<1>5. QED
  BY <1>4, SMTT(60)

\* A validation that ends well has passed each of its checks.
LEMMA NoneFailed ==
    ASSUME NEW checks, Len(checks) \in Nat, FirstFailed(checks) = "ok"
    PROVE  \A i \in 1..Len(checks) : checks[i] = "ok"
<1> DEFINE failed == {i \in 1..Len(checks) : checks[i] # "ok"}
<1>1. SUFFICES ASSUME failed # {} PROVE FALSE
  OBVIOUS
<1>2. \E n \in failed : \A m \in failed : n <= m
  <2>1. failed \subseteq Nat
    BY SMTT(60)
  <2>2. QED
    BY <1>1, <2>1, LeastNatural
<1>3. Min(failed) \in failed
  BY <1>2 DEF Min
<1>4. checks[Min(failed)] = "ok"
  BY <1>1 DEF FirstFailed
<1>5. QED
  BY <1>3, <1>4

\* A function on the first n positive numbers is a sequence.
LEMMA FunctionIsSeq ==
    ASSUME NEW S, NEW n \in Nat, NEW f \in [1..n -> S]
    PROVE  f \in Seq(S)
  BY SMTT(60)

\* The outcome of a validation is that of one of its checks, or all went well.
LEMMA OutcomeOfChecks ==
    ASSUME NEW S, NEW checks \in Seq(S)
    PROVE  /\ FirstFailed(checks) = "ok" => \A x \in Range(checks) : x = "ok"
           /\ FirstFailed(checks) # "ok" => FirstFailed(checks) \in Range(checks)
<1> DEFINE failed == {i \in 1..Len(checks) : checks[i] # "ok"}
<1>1. Len(checks) \in Nat /\ DOMAIN checks = 1..Len(checks)
  BY SMTT(60)
<1>2. FirstFailed(checks) = "ok" => \A x \in Range(checks) : x = "ok"
  BY <1>1, NoneFailed DEF Range
<1>3. ASSUME FirstFailed(checks) # "ok" PROVE FirstFailed(checks) \in Range(checks)
  <2>1. failed # {} /\ failed \subseteq Nat
    BY <1>1, <1>3, SMTT(60) DEF FirstFailed
  <2>2. \E n \in failed : \A m \in failed : n <= m
    BY <2>1, LeastNatural
  <2>3. Min(failed) \in failed
    BY <2>2 DEF Min
  <2>4. FirstFailed(checks) = checks[Min(failed)]
    BY <2>1 DEF FirstFailed
  <2>5. QED
    BY <1>1, <2>3, <2>4 DEF Range
<1>4. QED
  BY <1>2, <1>3

\* Of two checks.
LEMMA OutcomeOfTwo ==
    ASSUME NEW a, NEW b
    PROVE  /\ FirstFailed(<<a, b>>) = "ok" => a = "ok" /\ b = "ok"
           /\ FirstFailed(<<a, b>>) = "Invalid" => a = "Invalid" \/ b = "Invalid"
<1>1. <<a, b>> \in Seq({a, b}) /\ Range(<<a, b>>) = {a, b}
  BY SMTT(60) DEF Range
<1>2. QED
  BY <1>1, OutcomeOfChecks

\* Of two lists of checks.
LEMMA ConcatenatedChecks ==
    ASSUME NEW S, NEW s \in Seq(S), NEW t \in Seq(S)
    PROVE  s \o t \in Seq(S) /\ Range(s \o t) = Range(s) \cup Range(t)
<1>1. /\ s \o t \in Seq(S) /\ Len(s \o t) = Len(s) + Len(t)
      /\ \A i \in 1 .. Len(s) + Len(t) : (s \o t)[i] =
            IF i <= Len(s) THEN s[i] ELSE t[i - Len(s)]
  BY SMTT(60)
<1>2. /\ Len(s) \in Nat /\ Len(t) \in Nat
      /\ DOMAIN s = 1..Len(s) /\ DOMAIN t = 1..Len(t) /\ DOMAIN (s \o t) = 1..Len(s \o t)
  BY <1>1, SMTT(60)
<1>3. ASSUME NEW i \in 1..Len(s) PROVE s[i] \in Range(s \o t)
  <2>1. i \in 1 .. Len(s) + Len(t) /\ i <= Len(s)
    BY <1>2, SMTT(60)
  <2>2. (s \o t)[i] = s[i]
    BY <1>1, <2>1
  <2>3. QED
    BY <1>1, <1>2, <2>1, <2>2 DEF Range
<1>4. ASSUME NEW i \in 1..Len(t) PROVE t[i] \in Range(s \o t)
  <2>1. i + Len(s) \in 1 .. Len(s) + Len(t) /\ ~(i + Len(s) <= Len(s)) /\ (i + Len(s)) - Len(s) = i
    BY <1>2, SMTT(60)
  <2>2. (s \o t)[i + Len(s)] = t[i]
    BY <1>1, <2>1
  <2>3. QED
    BY <1>1, <1>2, <2>1, <2>2 DEF Range
<1>5. ASSUME NEW i \in 1 .. Len(s) + Len(t) PROVE (s \o t)[i] \in Range(s) \cup Range(t)
  <2>1. CASE i <= Len(s)
    <3>1. i \in 1..Len(s) /\ (s \o t)[i] = s[i]
      BY <1>1, <1>2, <2>1, SMTT(60)
    <3>2. QED
      BY <1>2, <3>1 DEF Range
  <2>2. CASE ~(i <= Len(s))
    <3>1. i - Len(s) \in 1..Len(t) /\ (s \o t)[i] = t[i - Len(s)]
      BY <1>1, <1>2, <2>2, SMTT(60)
    <3>2. QED
      BY <1>2, <3>1 DEF Range
  <2>3. QED
    BY <2>1, <2>2
<1>6. QED
  BY <1>1, <1>2, <1>3, <1>4, <1>5 DEF Range

\* validateConfigAndResolveWorkload, without the order of its checks.
LEMMA ConfigChecks ==
    ASSUME NEW spec, NEW answers, IsSpec(spec)
    PROVE  /\ ValidateConfig(spec, answers) = "ok" =>
                 /\ IsManaged(spec) =>
                       /\ \A m \in Range(spec.storage) : ValidateStorageMount(m, answers) = "ok"
                       /\ \A e \in Range(spec.env) : ValidateEnv(e, answers) = "ok"
                 /\ ValidateNetwork(spec.network) /\ ValidateTLS(spec.tls, answers) = "ok"
           /\ ValidateConfig(spec, answers) = "Invalid" =>
                 \/ \E m \in Range(spec.storage) : ValidateStorageMount(m, answers) = "Invalid"
                 \/ \E e \in Range(spec.env) : ValidateEnv(e, answers) = "Invalid"
                 \/ ~ValidateNetwork(spec.network) \/ ValidateTLS(spec.tls, answers) = "Invalid"
<1> DEFINE mounts == [i \in 1..Len(spec.storage) |->
                        ValidateStorageMount(spec.storage[i], answers)]
           envs == [i \in 1..Len(spec.env) |-> ValidateEnv(spec.env[i], answers)]
           first == IF spec.workloadRef # None THEN <<>> ELSE mounts \o envs
           net == Check(ValidateNetwork(spec.network))
           tls == ValidateTLS(spec.tls, answers)
           last == <<net, tls>>
           MountChecks == {ValidateStorageMount(m, answers) : m \in Range(spec.storage)}
           EnvChecks == {ValidateEnv(e, answers) : e \in Range(spec.env)}
           S == MountChecks \cup EnvChecks \cup {net, tls}
<1>1. /\ Len(spec.storage) \in Nat /\ DOMAIN spec.storage = 1..Len(spec.storage)
      /\ Len(spec.env) \in Nat /\ DOMAIN spec.env = 1..Len(spec.env)
  <2>1. spec.storage \in Seq(Range(spec.storage)) /\ spec.env \in Seq(Range(spec.env))
    BY DEF IsSpec
  <2>2. QED
    BY <2>1, SMTT(60)
<1>2. mounts \in Seq(S) /\ Range(mounts) = MountChecks
  <2>1. mounts \in [1..Len(spec.storage) -> S]
    BY <1>1 DEF Range
  <2>2. Range(mounts) = MountChecks
    BY <1>1 DEF Range
  <2> HIDE DEF mounts, S, MountChecks
  <2>3. QED
    BY <1>1, <2>1, <2>2, FunctionIsSeq
<1>3. envs \in Seq(S) /\ Range(envs) = EnvChecks
  <2>1. envs \in [1..Len(spec.env) -> S]
    BY <1>1 DEF Range
  <2>2. Range(envs) = EnvChecks
    BY <1>1 DEF Range
  <2> HIDE DEF envs, S, EnvChecks
  <2>3. QED
    BY <1>1, <2>1, <2>2, FunctionIsSeq
<1>4. ValidateConfig(spec, answers) = FirstFailed(first \o last)
  BY DEF ValidateConfig
<1>5. last \in Seq(S) /\ Range(last) = {net, tls}
  <2> HIDE DEF net, tls, MountChecks, EnvChecks
  <2>1. QED
    BY SMTT(60) DEF Range
<1> HIDE DEF mounts, envs, S, MountChecks, EnvChecks, net, tls, last
<1>6. /\ first \in Seq(S)
      /\ Range(first) = IF IsManaged(spec) THEN MountChecks \cup EnvChecks ELSE {}
  <2>1. CASE IsManaged(spec)
    BY <1>2, <1>3, <2>1, ConcatenatedChecks DEF IsManaged
  <2>2. CASE ~IsManaged(spec)
    BY <2>2, SMTT(60) DEF IsManaged, Range
  <2>3. QED
    BY <2>1, <2>2
<1> HIDE DEF first
<1>7. /\ first \o last \in Seq(S)
      /\ Range(first \o last) = Range(first) \cup {net, tls}
  BY <1>5, <1>6, ConcatenatedChecks, SMTT(60)
<1>8. /\ ValidateConfig(spec, answers) = "ok" => \A x \in Range(first) \cup {net, tls} : x = "ok"
      /\ ValidateConfig(spec, answers) = "Invalid" => "Invalid" \in Range(first) \cup {net, tls}
  <2>1. /\ FirstFailed(first \o last) = "ok" => \A x \in Range(first \o last) : x = "ok"
        /\ FirstFailed(first \o last) # "ok" => FirstFailed(first \o last) \in Range(first \o last)
    BY <1>7, OutcomeOfChecks
  <2>2. QED
    BY <1>4, <1>7, <2>1
<1>9. ASSUME ValidateConfig(spec, answers) = "ok"
      PROVE  /\ IsManaged(spec) =>
                   /\ \A m \in Range(spec.storage) : ValidateStorageMount(m, answers) = "ok"
                   /\ \A e \in Range(spec.env) : ValidateEnv(e, answers) = "ok"
             /\ ValidateNetwork(spec.network) /\ ValidateTLS(spec.tls, answers) = "ok"
  <2>1. net = "ok" /\ tls = "ok" /\ (IsManaged(spec) => \A x \in MountChecks \cup EnvChecks : x = "ok")
    BY <1>6, <1>8, <1>9
  <2>2. ValidateNetwork(spec.network) /\ ValidateTLS(spec.tls, answers) = "ok"
    BY <2>1 DEF net, tls, Check
  <2>3. QED
    BY <2>1, <2>2 DEF MountChecks, EnvChecks
<1>10. ASSUME ValidateConfig(spec, answers) = "Invalid"
      PROVE  \/ \E m \in Range(spec.storage) : ValidateStorageMount(m, answers) = "Invalid"
             \/ \E e \in Range(spec.env) : ValidateEnv(e, answers) = "Invalid"
             \/ ~ValidateNetwork(spec.network) \/ ValidateTLS(spec.tls, answers) = "Invalid"
  <2>1. net = "Invalid" \/ tls = "Invalid" \/ "Invalid" \in MountChecks \cup EnvChecks
    BY <1>6, <1>8, <1>10
  <2>2. net = "Invalid" => ~ValidateNetwork(spec.network)
    BY DEF net, Check
  <2>3. QED
    BY <2>1, <2>2 DEF tls, MountChecks, EnvChecks
<1>11. QED
  BY <1>9, <1>10

\* validateNetworkPolicyPort: the ports that are meant are some, and are ports.
LEMMA PortsAreMeaningful ==
    ASSUME NEW p, ValidateNetworkPolicyPort(p), p.port # None, IsNumber(p.port)
    PROVE  PortsOf(p) # {} /\ PortsOf(p) \subseteq 1..MaxPort
<1>1. p.port.number \in 1..MaxPort
  BY DEF ValidateNetworkPolicyPort, IsNumber
<1>2. p.endPort # None => p.endPort \in 1..MaxPort /\ p.endPort >= p.port.number
  BY DEF ValidateNetworkPolicyPort
<1>3. MaxPort \in Nat
  BY SMTT(60) DEF MaxPort
<1>4. QED
  BY <1>1, <1>2, <1>3, SMTT(60) DEF PortsOf

\* net.ParseCIDR keeps the prefix, its length and the family.
LEMMA ParsedCIDR ==
    ASSUME NEW c, c # None, IsCIDR(c)
    PROVE  /\ ParseCIDR(c).ones = c.ones /\ c.ones \in Nat
           /\ Len(ParseCIDR(c).address) = Len(c.address) /\ c.ones <= Len(c.address)
           /\ Len(c.address) \in Nat
           /\ \A i \in 1..c.ones : ParseCIDR(c).address[i] = c.address[i]
<1> DEFINE cleared == [i \in 1..Len(c.address) |-> IF i <= c.ones THEN c.address[i] ELSE 0]
<1>1. c \in [address : Seq({0, 1}), ones : Nat] /\ c.ones <= Len(c.address)
  BY DEF IsCIDR
<1>2. Len(c.address) \in Nat /\ c.ones \in Nat
  BY <1>1, SMTT(60)
<1>3. cleared \in Seq({0, 1} \cup {c.address[i] : i \in 1..Len(c.address)})
  BY <1>2, SMTT(60)
<1>4. Len(cleared) = Len(c.address) /\ \A i \in 1..c.ones : cleared[i] = c.address[i]
  BY <1>1, <1>2, <1>3, SMTT(60)
<1>5. ParseCIDR(c) = [c EXCEPT !.address = cleared]
  BY DEF ParseCIDR
<1> HIDE DEF cleared
<1>6. ParseCIDR(c).ones = c.ones /\ ParseCIDR(c).address = cleared
  BY <1>1, <1>5
<1>7. QED
  BY <1>1, <1>2, <1>4, <1>6

\* validateNetworkPolicyPeer: an excepted block lies within its block.
LEMMA ExceptedIsWithin ==
    ASSUME NEW c, NEW e, c # None, e # None, IsCIDR(c), IsCIDR(e),
           ExceptWithin(ParseCIDR(c), ParseCIDR(e))
    PROVE  AddressesOf(e) \subseteq AddressesOf(c)
<1>1. /\ Len(c.address) = Len(e.address) /\ c.ones <= e.ones
      /\ c.ones \in Nat /\ e.ones \in Nat
  BY ParsedCIDR DEF ExceptWithin
<1>2. \A i \in 1..c.ones : c.address[i] = e.address[i]
  <2> TAKE i \in 1..c.ones
  <2>1. i \in 1..e.ones
    BY <1>1, SMTT(60)
  <2>2. ParseCIDR(c).address[i] = ParseCIDR(e).address[i]
    BY ParsedCIDR DEF ExceptWithin, NetContains
  <2>3. QED
    BY <2>1, <2>2, ParsedCIDR
<1>3. \A i \in 1..c.ones : i \in 1..e.ones
  BY <1>1, SMTT(60)
<1>4. QED
  BY <1>1, <1>2, <1>3 DEF AddressesOf

\* What validation lets through is meaningful.
LEMMA ValidNetworkIsMeaningful ==
    ASSUME NEW spec, IsSpec(spec), spec.network # None, ValidateNetwork(spec.network)
    PROVE  Meaningful(spec.network)
<1>1. ASSUME NEW p \in spec.network.peers, p.block # None, NEW e \in p.block.except
      PROVE  AddressesOf(e) \subseteq AddressesOf(p.block.cidr)
  <2>1. /\ ParseCIDR(p.block.cidr) # None /\ ParseCIDR(e) # None
        /\ ExceptWithin(ParseCIDR(p.block.cidr), ParseCIDR(e))
    BY <1>1 DEF ValidateNetwork, ValidateNetworkPolicyPeer
  <2>2. p.block.cidr # None /\ e # None
    BY <2>1 DEF ParseCIDR
  <2>3. IsCIDR(p.block.cidr) /\ IsCIDR(e)
    BY <1>1 DEF IsSpec
  <2>4. QED
    BY <2>1, <2>2, <2>3, ExceptedIsWithin
<1>2. ASSUME NEW p \in spec.network.ports, p.port # None, IsNumber(p.port)
      PROVE  PortsOf(p) # {} /\ PortsOf(p) \subseteq 1..MaxPort
  <2>1. ValidateNetworkPolicyPort(p)
    BY DEF ValidateNetwork
  <2>2. QED
    BY <1>2, <2>1, PortsAreMeaningful
<1>3. QED
  BY <1>1, <1>2 DEF Meaningful

-----------------------------------------------------------------------------
(* The locals of a reconcile. *)

\* They are a record of the five fields of NoWork.
IsWork(w) ==
    w \in [server : {w.server}, workload : {w.workload}, hash : {w.hash}, draft : {w.draft},
           again : {w.again}]

WithDraft(w, d, a) == [w EXCEPT !.draft = d, !.again = a]
WithVerdict(w, d) == [w EXCEPT !.draft = d]
WithWorkload(w, h) == [w EXCEPT !.workload = h]
WithHash(w, k) == [w EXCEPT !.hash = k]
WithServer(s) == [NoWork EXCEPT !.server = s]

\* A field is set and the others stay.
LEMMA WorkFields ==
    ASSUME NEW w, IsWork(w), NEW d, NEW a, NEW h, NEW k
    PROVE  /\ IsWork(WithDraft(w, d, a))
           /\ WithDraft(w, d, a).server = w.server /\ WithDraft(w, d, a).draft = d
           /\ IsWork(WithVerdict(w, d))
           /\ WithVerdict(w, d).server = w.server /\ WithVerdict(w, d).draft = d
           /\ IsWork(WithWorkload(w, h))
           /\ WithWorkload(w, h).server = w.server /\ WithWorkload(w, h).draft = w.draft
           /\ IsWork(WithHash(w, k))
           /\ WithHash(w, k).server = w.server /\ WithHash(w, k).draft = w.draft
<1>1. /\ IsWork(WithDraft(w, d, a))
      /\ WithDraft(w, d, a).server = w.server /\ WithDraft(w, d, a).draft = d
  BY DEF IsWork, WithDraft
<1>2. /\ IsWork(WithVerdict(w, d))
      /\ WithVerdict(w, d).server = w.server /\ WithVerdict(w, d).draft = d
  BY DEF IsWork, WithVerdict
<1>3. /\ IsWork(WithWorkload(w, h))
      /\ WithWorkload(w, h).server = w.server /\ WithWorkload(w, h).draft = w.draft
  BY DEF IsWork, WithWorkload
<1>4. /\ IsWork(WithHash(w, k))
      /\ WithHash(w, k).server = w.server /\ WithHash(w, k).draft = w.draft
  BY DEF IsWork, WithHash
<1>5. QED
  BY <1>1, <1>2, <1>3, <1>4

\* Before the first step, and after the last, nothing is held.
LEMMA FreshWork ==
    ASSUME NEW s
    PROVE  /\ IsWork(NoWork) /\ NoWork.draft = None
           /\ IsWork(WithServer(s)) /\ WithServer(s).server = s /\ WithServer(s).draft = None
  BY DEF IsWork, NoWork, WithServer

-----------------------------------------------------------------------------
(* The invariant. *)

\* The steps that are taken only after the whole validation.
PastValidation == {"hash", "deployment", "observe", "service"}

\* The spec a reconcile works on is the one it fetched, whatever the user makes
\* of the server meanwhile; past validation, and in a verdict that accepts it,
\* its network has been validated.
NetworkInv ==
    /\ \A s \in world.specs : IsSpec(s)
    /\ server.spec \in world.specs /\ cserver.spec \in world.specs
    /\ IsWork(work)
    /\ pc # "idle" => work.server.spec \in world.specs
    /\ pc \in PastValidation => ValidateNetwork(work.server.spec.network)
    /\ (work.draft # None /\ work.draft.accepted = "True") =>
          pc # "idle" /\ ValidateNetwork(work.server.spec.network)

\* It implies what the run checks.
LEMMA InvImplies == NetworkInv => AcceptedNetworkIsMeaningful
  BY ValidNetworkIsMeaningful DEF NetworkInv, AcceptedNetworkIsMeaningful

\* It holds at the start.
LEMMA InvInit == Init => NetworkInv
<1> SUFFICES ASSUME Init PROVE NetworkInv
  OBVIOUS
<1>1. /\ \A s \in world.specs : IsSpec(s)
      /\ server.spec \in world.specs
  BY WorldsAssumption, SMTT(60) DEF Init
<1>2. cserver = server /\ pc = "idle" /\ work = NoWork
  BY DEF Init
<1>3. QED
  BY <1>1, <1>2, FreshWork DEF NetworkInv, PastValidation

\* A reconcile that ends holds nothing.
LEMMA Finished ==
    ASSUME NetworkInv, UNCHANGED <<world, server>>, cserver' \in {cserver, server},
           pc' = "idle", work' = NoWork
    PROVE  NetworkInv'
<1>1. IsWork(work') /\ work'.draft = None
  BY FreshWork
<1>2. QED
  BY <1>1 DEF NetworkInv, PastValidation

\* A reconcile that goes on works on the same spec.
LEMMA Advanced ==
    ASSUME NetworkInv, UNCHANGED <<world, server, cserver>>, pc # "idle", pc' # "idle",
           IsWork(work'), work'.server = work.server,
           pc' \in PastValidation => ValidateNetwork(work.server.spec.network),
           \/ work'.draft = work.draft
           \/ work'.draft.accepted # "True"
           \/ ValidateNetwork(work.server.spec.network)
    PROVE  NetworkInv'
  BY DEF NetworkInv

\* A verdict accepts what has been validated only.
LEMMA Drafted ==
    ASSUME NetworkInv, UNCHANGED <<world, server, cserver>>, pc # "idle",
           NEW accepted, NEW available, NEW again, Draft(accepted, available, again),
           accepted # "True" \/ ValidateNetwork(work.server.spec.network)
    PROVE  NetworkInv'
<1> DEFINE d == Verdict(accepted, available, work.server.generation)
<1>1. pc' = "apply" /\ work' = WithDraft(work, d, again)
  BY DEF Draft, Goto, WithDraft
<1>2. d.accepted = accepted
  BY DEF Verdict
<1> HIDE DEF d
<1>3. IsWork(work') /\ work'.server = work.server /\ work'.draft = d
  BY <1>1, WorkFields, SMTT(60) DEF NetworkInv
<1>4. QED
  BY <1>1, <1>2, <1>3, Advanced DEF PastValidation

-----------------------------------------------------------------------------
(* Each step keeps it. *)

\* What a step of the reconcile leaves alone.
LEMMA StepFrame ==
    ASSUME NEW from, Step(from)
    PROVE  pc = from /\ UNCHANGED <<world, server, cserver>>
  BY DEF Step

\* Reading the MCPServer from the cache keeps the invariant.
LEMMA InvFetch == NetworkInv /\ Fetch => NetworkInv'
<1> SUFFICES ASSUME NetworkInv, Fetch PROVE NetworkInv'
  OBVIOUS
<1>1. UNCHANGED <<world, server, cserver>>
  BY StepFrame DEF Fetch
<1>2. pc' = "resolve" /\ work' = WithServer(cserver)
  BY DEF Fetch, WithServer
<1>3. IsWork(work') /\ work'.server = cserver /\ work'.draft = None
  BY <1>2, FreshWork
<1>4. QED
  BY <1>1, <1>2, <1>3 DEF NetworkInv, PastValidation

\* So does the resolution of the workload.
LEMMA InvResolve == NetworkInv /\ Resolve => NetworkInv'
<1> SUFFICES ASSUME NetworkInv, Resolve PROVE NetworkInv'
  OBVIOUS
<1>1. pc = "resolve" /\ UNCHANGED <<world, server, cserver>>
  BY StepFrame DEF Resolve
<1>2. \/ \E h : pc' = "validate" /\ work' = WithWorkload(work, h)
      \/ Reject
      \/ pc' = "idle" /\ work' = NoWork
  BY DEF Resolve, Validated, Goto, Finish, WithWorkload
<1>3. ASSUME NEW h, pc' = "validate", work' = WithWorkload(work, h) PROVE NetworkInv'
  <2>1. IsWork(work') /\ work'.server = work.server /\ work'.draft = work.draft
    BY <1>3, WorkFields DEF NetworkInv
  <2>2. QED
    BY <1>1, <1>3, <2>1, Advanced DEF PastValidation
<1>4. CASE Reject
  BY <1>1, <1>4, Drafted DEF Reject
<1>5. CASE pc' = "idle" /\ work' = NoWork
  BY <1>1, <1>5, Finished
<1>6. QED
  BY <1>2, <1>3, <1>4, <1>5

\* Past validation the network of the spec at hand was validated.
LEMMA InvValidateRest == NetworkInv /\ ValidateRest => NetworkInv'
<1> SUFFICES ASSUME NetworkInv, ValidateRest PROVE NetworkInv'
  OBVIOUS
<1> DEFINE spec == work.server.spec
<1>1. pc = "validate" /\ UNCHANGED <<world, server, cserver>>
  BY StepFrame DEF ValidateRest
<1>2. \/ \E f, h : /\ ValidateConfig(spec, Answers(f)) = "ok"
                   /\ pc' \in PastValidation /\ work' = WithWorkload(work, h)
      \/ Reject
      \/ pc' = "idle" /\ work' = NoWork
  BY DEF ValidateRest, Validated, Goto, Finish, WithWorkload, PastValidation
<1>3. ASSUME NEW f, NEW h, ValidateConfig(spec, Answers(f)) = "ok",
             pc' \in PastValidation, work' = WithWorkload(work, h)
      PROVE  NetworkInv'
  <2>1. IsWork(work') /\ work'.server = work.server /\ work'.draft = work.draft
    BY <1>3, WorkFields DEF NetworkInv
  <2>2. IsSpec(spec)
    BY <1>1 DEF NetworkInv
  <2>3. ValidateNetwork(spec.network)
    BY <1>3, <2>2, ConfigChecks
  <2>4. pc' # "idle"
    BY <1>3 DEF PastValidation
  <2>5. QED
    BY <1>1, <2>1, <2>3, <2>4, Advanced
<1>4. CASE Reject
  BY <1>1, <1>4, Drafted DEF Reject
<1>5. CASE pc' = "idle" /\ work' = NoWork
  BY <1>1, <1>5, Finished
<1>6. QED
  BY <1>2, <1>3, <1>4, <1>5

\* The config hash leaves the spec at hand alone.
LEMMA InvApplyConfigHash == NetworkInv /\ ApplyConfigHash => NetworkInv'
<1> SUFFICES ASSUME NetworkInv, ApplyConfigHash PROVE NetworkInv'
  OBVIOUS
<1>1. pc = "hash" /\ UNCHANGED <<world, server, cserver>>
  BY StepFrame DEF ApplyConfigHash
<1>2. ValidateNetwork(work.server.spec.network)
  BY <1>1 DEF NetworkInv, PastValidation
<1>3. \/ \E k : pc' = "deployment" /\ work' = WithHash(work, k)
      \/ DeploymentFails
  BY DEF ApplyConfigHash, Goto, WithHash
<1>4. ASSUME NEW k, pc' = "deployment", work' = WithHash(work, k) PROVE NetworkInv'
  <2>1. IsWork(work') /\ work'.server = work.server /\ work'.draft = work.draft
    BY <1>4, WorkFields DEF NetworkInv
  <2>2. QED
    BY <1>1, <1>2, <1>4, <2>1, Advanced
<1>5. CASE DeploymentFails
  BY <1>1, <1>2, <1>5, Drafted DEF DeploymentFails
<1>6. QED
  BY <1>3, <1>4, <1>5

\* So does the Deployment step.
LEMMA InvReconcileDeployment == NetworkInv /\ ReconcileDeployment => NetworkInv'
<1> SUFFICES ASSUME NetworkInv, ReconcileDeployment PROVE NetworkInv'
  OBVIOUS
<1>1. pc = "deployment" /\ UNCHANGED <<world, server, cserver>>
  BY StepFrame DEF ReconcileDeployment
<1>2. ValidateNetwork(work.server.spec.network)
  BY <1>1 DEF NetworkInv, PastValidation
<1>3. \/ \E h : pc' = "observe" /\ work' = WithWorkload(work, h)
      \/ pc' = "idle" /\ work' = NoWork
      \/ DeploymentFails
  BY DEF ReconcileDeployment, Goto, Finish, WithWorkload
<1>4. ASSUME NEW h, pc' = "observe", work' = WithWorkload(work, h) PROVE NetworkInv'
  <2>1. IsWork(work') /\ work'.server = work.server /\ work'.draft = work.draft
    BY <1>4, WorkFields DEF NetworkInv
  <2>2. QED
    BY <1>1, <1>2, <1>4, <2>1, Advanced
<1>5. CASE pc' = "idle" /\ work' = NoWork
  BY <1>1, <1>5, Finished
<1>6. CASE DeploymentFails
  BY <1>1, <1>2, <1>6, Drafted DEF DeploymentFails
<1>7. QED
  BY <1>3, <1>4, <1>5, <1>6

\* So does the observation of the workload, whose draft accepts a validated
\* spec.
LEMMA InvObserve == NetworkInv /\ Observe => NetworkInv'
<1> SUFFICES ASSUME NetworkInv, Observe PROVE NetworkInv'
  OBVIOUS
<1>1. pc = "observe" /\ UNCHANGED <<world, server, cserver>>
  BY StepFrame DEF Observe
<1>2. ValidateNetwork(work.server.spec.network)
  BY <1>1 DEF NetworkInv, PastValidation
<1>3. pc' = "service" /\ \E d : work' = WithVerdict(work, d)
  BY DEF Observe, Goto, WithVerdict
<1>4. IsWork(work') /\ work'.server = work.server
  BY <1>3, WorkFields, SMTT(60) DEF NetworkInv
<1>5. QED
  BY <1>1, <1>2, <1>3, <1>4, Advanced

\* So does the Service step.
LEMMA InvReconcileService == NetworkInv /\ ReconcileService => NetworkInv'
<1> SUFFICES ASSUME NetworkInv, ReconcileService PROVE NetworkInv'
  OBVIOUS
<1>1. pc = "service" /\ UNCHANGED <<world, server, cserver>>
  BY StepFrame DEF ReconcileService
<1>2. ValidateNetwork(work.server.spec.network)
  BY <1>1 DEF NetworkInv, PastValidation
<1>3. (pc' = "apply" /\ work' = work) \/ ServiceFails
  BY DEF ReconcileService, Goto
<1>4. CASE pc' = "apply" /\ work' = work
  BY <1>1, <1>2, <1>4 DEF NetworkInv, PastValidation
<1>5. CASE ServiceFails
  BY <1>1, <1>2, <1>5, Drafted DEF ServiceFails
<1>6. QED
  BY <1>3, <1>4, <1>5

\* What is applied is the draft.
LEMMA InvApplyStatus == NetworkInv /\ ApplyStatus => NetworkInv'
<1> SUFFICES ASSUME NetworkInv, ApplyStatus PROVE NetworkInv'
  OBVIOUS
<1>1. UNCHANGED <<world, server, cserver>>
  BY StepFrame DEF ApplyStatus
<1>2. pc' = "idle" /\ work' = NoWork
  BY DEF ApplyStatus, Finish
<1>3. QED
  BY <1>1, <1>2, Finished

\* The informers, the watches, the user and the cluster do not touch the locals
\* of a reconcile; a restart drops them.
LEMMA InvOther == NetworkInv /\ (Deliver \/ Environment \/ Restart) => NetworkInv'
<1> SUFFICES ASSUME NetworkInv, Deliver \/ Environment \/ Restart PROVE NetworkInv'
  OBVIOUS
<1>1. CASE Restart
  BY <1>1, Finished DEF Restart, clusterVars
<1>2. CASE EditSpec
  <2>1. UNCHANGED <<world, cserver, pc, work>>
    BY <1>2 DEF EditSpec, cacheVars
  <2>2. server'.spec \in world.specs
    BY <1>2, SMTT(60) DEF EditSpec
  <2>3. QED
    BY <2>1, <2>2 DEF NetworkInv
<1>3. CASE SyncServer
  <2>1. UNCHANGED <<world, server, pc, work>> /\ cserver' = server
    BY <1>3 DEF SyncServer, clusterVars
  <2>2. QED
    BY <2>1 DEF NetworkInv
<1>4. CASE UNCHANGED <<world, server, cserver, pc, work>>
  BY <1>4 DEF NetworkInv
<1>5. CASE ChangeObject \/ ChangeWorkload \/ ReportWorkload \/ ChangePod
  BY <1>4, <1>5 DEF ChangeObject, ChangeWorkload, ReportWorkload, ChangePod, cacheVars
<1>6. CASE SyncWorkload \/ (\E o \in Objects : DeliverObject(o)) \/ (\E p \in Pods : SyncPod(p))
  BY <1>4, <1>6 DEF SyncWorkload, DeliverObject, SyncPod, clusterVars
<1>7. QED
  BY <1>1, <1>2, <1>3, <1>5, <1>6 DEF Deliver, Environment

\* Every step keeps the invariant.
LEMMA InvNext == NetworkInv /\ [Next]_vars => NetworkInv'
<1>1. NetworkInv /\ UNCHANGED vars => NetworkInv'
  BY DEF NetworkInv, vars, clusterVars, cacheVars
<1>2. NetworkInv /\ Reconcile => NetworkInv'
  BY InvFetch, InvResolve, InvValidateRest, InvApplyConfigHash, InvReconcileDeployment,
     InvObserve, InvReconcileService, InvApplyStatus DEF Reconcile
<1>3. QED
  BY <1>1, <1>2, InvOther DEF Next

\* In every behaviour, whatever changes between the steps of a reconcile, a
\* verdict that accepts a spec is about ports that exist and exceptions that
\* lie within their block (AcceptedNetworkIsMeaningful).
THEOREM AcceptedIsMeaningful == Spec => []AcceptedNetworkIsMeaningful
<1>1. Init => NetworkInv
  BY InvInit
<1>2. NetworkInv /\ [Next]_vars => NetworkInv'
  BY InvNext
<1>3. NetworkInv => AcceptedNetworkIsMeaningful
  BY InvImplies
<1>4. QED
  BY <1>1, <1>2, <1>3, PTL DEF Spec

-----------------------------------------------------------------------------
(* Convergence: at rest, the status, the Service and the pod template are  *)
(* those that the spec and what it refers to now call for.                 *)

\* What the world may bring, and the types of what it has brought.
WorldOK ==
    /\ \A s \in world.specs : IsSpec(s) /\ Read(s) \subseteq Objects
    /\ \A d \in world.workloads : d # None /\ IsWorkload(d)
    /\ \A r \in world.reports : r.ready \in Nat /\ r.available \in Nat
    /\ \A p \in world.pods : Fails(p) => Signature(FirstFailure(p)) # None
    /\ world.objects \subseteq Objects \X STRING

ClusterOK ==
    /\ server \in [generation : Nat, spec : world.specs]
    /\ cserver \in [generation : Nat, spec : world.specs]
    /\ cserver.generation <= server.generation
    /\ IsManaged(cserver.spec) = IsManaged(server.spec)
    /\ objects \in [Objects -> STRING]
    /\ workload # None => IsWorkload(workload)
    /\ IsManaged(server.spec) => workload = None \/ IsOperators(workload)
    /\ TheWorkload \in changed \/ cdeploy = workload
    /\ pods \in [Pods -> world.pods \cup {None}] /\ cpods \in [Pods -> world.pods \cup {None}]

\* A reconcile is due, or the event that makes it due is on its way.
Coming ==
    \/ queued \/ cserver # server \/ TheWorkload \in changed
    \/ changed \cap IndexedObjects(server.spec) # {}

\* What the two parts of the validation establish.
RefsGood(spec) ==
    /\ spec.serviceRef => There(ExternalService)
    /\ ~IsManaged(spec) => workload # None /\ workload.kind = spec.workloadRef
    /\ (~IsManaged(spec) /\ ~spec.serviceRef) =>
          workload.selector.labels # None /\ workload.selector.expressions = None

MountGood(m) ==
    m.type # "EmptyDir" =>
        m.ref.name # "" /\ (~m.ref.optional => There(<<m.type, m.ref.name>>))

EnvGood(e) ==
    /\ (e.configMap # None /\ ~e.configMap.optional) => There(ConfigMap(e.configMap.name))
    /\ (e.secret # None /\ ~e.secret.optional) => There(Secret(e.secret.name))

TLSGood(tls) ==
    (tls # None /\ tls.enabled /\ tls.ca # None) =>
        /\ ~tls.skip
        /\ There(Secret(tls.ca)) /\ objects[Secret(tls.ca)] \notin {"no key", "no PEM"}

ConfigGood(spec) ==
    /\ \A m \in Range(spec.storage) : MountGood(m)
    /\ \A e \in Range(spec.env) : EnvGood(e)
    /\ TLSGood(spec.tls) /\ ValidateNetwork(spec.network)

\* What the last steps of a reconcile establish.
TemplateRight(spec) == IsManaged(spec) => workload.hash = ComputeConfigHash(spec, objects)

ServiceRight(spec) ==
    IF spec.serviceRef THEN service = None
    ELSE workload.selector = [labels |-> service, expressions |-> None]

AvailabilityRight(condition) ==
    /\ (condition.reason = "ScaledToZero") =
          (workload.replicas = 0 /\ workload.kind # "DaemonSet")
    /\ (condition.reason = "Available") =
          /\ workload.replicas > 0
          /\ workload.observed = workload.generation
          /\ IF workload.kind # "Deployment" THEN workload.available > 0
             ELSE workload.ready > 0 /\ workload.conditions # None
                  /\ workload.conditions.available

\* A failure is a record of six fields.
IsFailure(f) ==
    f \in [kind : {f.kind}, init : {f.init}, image : {f.image}, detail : {f.detail},
           exit : {f.exit}, restarts : {f.restarts}]

\* As far as the informer of pods knows.
DiagnosisRight(message) ==
    LET c == workload.conditions IN
    /\ message[1] = "pod" =>
          /\ message[2] \in Pods /\ IsFailure(message[3]) /\ Fails(cpods[message[2]])
          /\ Signature(FirstFailure(cpods[message[2]])) = Signature(message[3])
    /\ (/\ workload.kind = "Deployment" /\ workload.replicas > 0
        /\ workload.observed = workload.generation
        /\ c # None /\ workload.ready = 0 /\ (c.progressing \/ ~c.available)
        /\ \E p \in Pods : Fails(cpods[p])) => message[1] = "pod"

Observed(verdict) ==
    /\ workload # None /\ TemplateRight(server.spec)
    /\ AvailabilityRight(verdict.available) /\ DiagnosisRight(verdict.available.message)

Right(verdict) ==
    /\ verdict.generation = server.generation
    /\ (verdict.accepted = "True") = (RefsGood(server.spec) /\ ConfigGood(server.spec))
    /\ verdict.accepted = "True" => Observed(verdict) /\ ServiceRight(server.spec)

\* What a reconcile has found out is still so, or it will be repeated.
Informed ==
    pc # "idle" =>
       \/ Coming
       \/ /\ work.server = server
          /\ pc \in {"validate", "hash", "deployment", "observe", "service"} =>
                RefsGood(server.spec)
          /\ pc = "validate" =>
                work.workload = IF IsManaged(server.spec) THEN None ELSE workload
          /\ pc \in {"hash", "deployment", "observe", "service"} => ConfigGood(server.spec)
          /\ pc = "deployment" => work.hash = ComputeConfigHash(server.spec, objects)
          /\ pc \in {"hash", "deployment"} => IsManaged(server.spec)
          /\ pc \in {"observe", "service"} =>
                work.workload = workload /\ workload # None /\ TemplateRight(server.spec)
          /\ pc = "service" =>
                /\ work.draft.accepted = "True" /\ work.draft.generation = server.generation
                /\ Observed(work.draft)
          /\ pc = "apply" => work.again \/ Right(work.draft)

Settled == pc = "idle" => Coming \/ Right(status)

ConvergenceInv == NetworkInv /\ WorldOK /\ ClusterOK /\ Informed /\ Settled

-----------------------------------------------------------------------------
(* Validation is sound and complete. *)

\* A call that does not fail answers with what is there.
LEMMA AnswersAreObjects ==
    ASSUME objects \in [Objects -> STRING] PROVE Answers(None) = objects
BY ObjectsAssumption DEF Answers

\* What is found is there, and what is reported as a configuration error is not.
LEMMA Classified ==
    ASSUME NEW o
    PROVE  /\ ClassifyAPIError(objects[o]) = "ok" => There(o)
           /\ ClassifyAPIError(objects[o]) = "Invalid" => ~There(o)
BY DEF ClassifyAPIError, There

\* The check of a storage mount is right in both directions.
LEMMA MountChecked ==
    ASSUME NEW m, m.ref # None
    PROVE  /\ ValidateStorageMount(m, objects) = "ok" => MountGood(m)
           /\ ValidateStorageMount(m, objects) = "Invalid" => ~MountGood(m)
BY Classified DEF ValidateStorageMount, ValidateReference, MountGood, Check

\* So is that of an entry of env or envFrom.
LEMMA EnvChecked ==
    ASSUME NEW e
    PROVE  /\ ValidateEnv(e, objects) = "ok" => EnvGood(e)
           /\ ValidateEnv(e, objects) = "Invalid" => ~EnvGood(e)
<1> DEFINE c == ValidateReference(e.configMap, ConfigMap(e.configMap.name), objects)
           s == ValidateReference(e.secret, Secret(e.secret.name), objects)
<1>1. /\ c = "ok" => e.configMap = None \/ e.configMap.optional \/ There(ConfigMap(e.configMap.name))
      /\ c = "Invalid" => /\ e.configMap # None /\ ~e.configMap.optional
                          /\ ~There(ConfigMap(e.configMap.name))
  BY Classified DEF ValidateReference
<1>2. /\ s = "ok" => e.secret = None \/ e.secret.optional \/ There(Secret(e.secret.name))
      /\ s = "Invalid" => e.secret # None /\ ~e.secret.optional /\ ~There(Secret(e.secret.name))
  BY Classified DEF ValidateReference
<1>3. ValidateEnv(e, objects) = FirstFailed(<<c, s>>)
  BY DEF ValidateEnv
<1> HIDE DEF c, s
<1>4. QED
  BY <1>1, <1>2, <1>3, OutcomeOfTwo DEF EnvGood

\* So is that of the CA bundle.
LEMMA TLSChecked ==
    ASSUME NEW tls
    PROVE  /\ ValidateTLS(tls, objects) = "ok" => TLSGood(tls)
           /\ ValidateTLS(tls, objects) = "Invalid" => ~TLSGood(tls)
<1> DEFINE o == Secret(tls.ca)
           a == ClassifyAPIError(objects[o])
           b == Check(objects[o] \notin {"no key", "no PEM"})
<1>1. /\ b = "ok" => objects[o] \notin {"no key", "no PEM"}
      /\ b = "Invalid" => objects[o] \in {"no key", "no PEM"}
  BY DEF Check
<1>2. (a = "ok" => There(o)) /\ (a = "Invalid" => ~There(o))
  BY Classified
<1>3. ValidateCABundleSecret(tls.ca, objects) = FirstFailed(<<a, b>>)
  BY DEF ValidateCABundleSecret
<1> HIDE DEF a, b
<1>4. QED
  BY <1>1, <1>2, <1>3, OutcomeOfTwo DEF ValidateTLS, TLSGood

\* The checks of the rest of the spec pass if and only if it is as it should be,
\* where all reads are answered.
LEMMA ConfigChecked ==
    ASSUME NEW spec, IsSpec(spec)
    PROVE  /\ ValidateConfig(spec, objects) = "ok" => ConfigGood(spec)
           /\ ValidateConfig(spec, objects) = "Invalid" => ~ConfigGood(spec)
<1>1. \A m \in Range(spec.storage) : m.ref # None
  BY DEF IsSpec
<1>2. ~IsManaged(spec) => Range(spec.storage) = {} /\ Range(spec.env) = {}
  <2>1. ~IsManaged(spec) => spec.storage = <<>> /\ spec.env = <<>>
    BY DEF IsSpec, IsManaged
  <2>2. QED
    BY <2>1, SMTT(60) DEF Range
<1>3. ASSUME ValidateConfig(spec, objects) = "ok" PROVE ConfigGood(spec)
  <2>1. /\ IsManaged(spec) =>
              /\ \A m \in Range(spec.storage) : ValidateStorageMount(m, objects) = "ok"
              /\ \A e \in Range(spec.env) : ValidateEnv(e, objects) = "ok"
        /\ ValidateNetwork(spec.network) /\ ValidateTLS(spec.tls, objects) = "ok"
    BY <1>3, ConfigChecks
  <2>2. QED
    BY <1>1, <1>2, <2>1, MountChecked, EnvChecked, TLSChecked DEF ConfigGood
<1>4. ASSUME ValidateConfig(spec, objects) = "Invalid" PROVE ~ConfigGood(spec)
  <2>1. \/ \E m \in Range(spec.storage) : ValidateStorageMount(m, objects) = "Invalid"
        \/ \E e \in Range(spec.env) : ValidateEnv(e, objects) = "Invalid"
        \/ ~ValidateNetwork(spec.network) \/ ValidateTLS(spec.tls, objects) = "Invalid"
    BY <1>4, ConfigChecks
  <2>2. QED
    BY <1>1, <2>1, MountChecked, EnvChecked, TLSChecked DEF ConfigGood
<1>5. QED
  BY <1>3, <1>4

\* So do those of its workload and its Service.
LEMMA RefsChecked ==
    ASSUME NEW spec,
           NEW checked, checked = FirstFailed(<<
               IF IsManaged(spec) THEN "ok" ELSE ValidateWorkloadRef(spec, workload, FALSE),
               ValidateServiceRef(spec, objects)>>)
    PROVE  (checked = "ok" => RefsGood(spec)) /\ (checked = "Invalid" => ~RefsGood(spec))
<1> DEFINE a == IF IsManaged(spec) THEN "ok" ELSE ValidateWorkloadRef(spec, workload, FALSE)
           b == ValidateServiceRef(spec, objects)
           found == workload # None /\ workload.kind = spec.workloadRef
           plain == workload.selector.labels # None /\ workload.selector.expressions = None
<1>1. /\ a = "ok" => IsManaged(spec) \/ (found /\ (spec.serviceRef \/ plain))
      /\ a = "Invalid" => ~IsManaged(spec) /\ ~(found /\ (spec.serviceRef \/ plain))
  BY DEF ValidateWorkloadRef, Check
<1>2. /\ b = "ok" => (spec.serviceRef => There(ExternalService))
      /\ b = "Invalid" => spec.serviceRef /\ ~There(ExternalService)
  BY Classified DEF ValidateServiceRef
<1>3. checked = FirstFailed(<<a, b>>)
  OBVIOUS
<1> HIDE DEF a, b
<1>4. QED
  BY <1>1, <1>2, <1>3, OutcomeOfTwo DEF RefsGood

\* Together they are what Accepted is about.
LEMMA GoodIsAcceptable ==
    ASSUME NEW spec
    PROVE  (RefsGood(spec) /\ ConfigGood(spec)) <=> (Followed(spec) /\ WellFormed(spec))
<1>1. (\A o \in Mounted(spec) : There(o)) <=>
        /\ \A m \in Range(spec.storage) :
              (m.type # "EmptyDir" /\ ~m.ref.optional) => There(<<m.type, m.ref.name>>)
        /\ \A e \in Range(spec.env) : EnvGood(e)
  BY DEF Mounted, EnvGood
<1>2. QED
  BY <1>1 DEF RefsGood, ConfigGood, Followed, WellFormed, MountGood, TLSGood

-----------------------------------------------------------------------------
(* What a change that finds no MCPServer leaves as it was. *)

\* The config hash depends on what the pods read only.
LEMMA SameHash ==
    ASSUME NEW spec, NEW a, NEW b, \A o \in PodReferences(spec) : a[o] = b[o]
    PROVE  ComputeConfigHash(spec, a) = ComputeConfigHash(spec, b)
<1> DEFINE Found(c) == {o \in PodReferences(spec) : c[o] # "NotFound"}
           Given(c) == {o \in Found(c) : c[o] # "empty"}
<1>1. Found(a) = Found(b) /\ Given(a) = Given(b)
  OBVIOUS
<1>2. [o \in Given(a) |-> a[o]] = [o \in Given(b) |-> b[o]]
  BY <1>1
<1>3. QED
  BY <1>1, <1>2 DEF ComputeConfigHash

\* Where each reference of the spec is found.
LEMMA ReferencesOf ==
    ASSUME NEW spec, IsSpec(spec)
    PROVE  /\ \A m \in Range(spec.storage) : m.type # "EmptyDir" =>
                 /\ <<m.type, m.ref.name>> \in PodReferences(spec)
                 /\ m.ref.name # "" => <<m.type, m.ref.name>> \in Read(spec)
           /\ \A e \in Range(spec.env) :
                 /\ e.configMap # None => ConfigMap(e.configMap.name) \in Read(spec)
                 /\ e.secret # None => Secret(e.secret.name) \in Read(spec)
           /\ (spec.tls # None /\ spec.tls.ca # None) => Secret(spec.tls.ca) \in Read(spec)
           /\ spec.serviceRef => ExternalService \in Read(spec)
<1>1. ASSUME NEW m \in Range(spec.storage), m.type # "EmptyDir"
      PROVE  <<m.type, m.ref.name>> \in PodReferences(spec)
  BY <1>1 DEF IsSpec, PodReferences
<1>2. ASSUME NEW o \in IndexedObjects(spec), o[2] # "" PROVE o \in Read(spec)
  BY <1>2 DEF Read
<1>3. PodReferences(spec) \subseteq IndexedObjects(spec)
  BY DEF IndexedObjects
<1>4. ASSUME NEW m \in Range(spec.storage), m.type # "EmptyDir", m.ref.name # ""
      PROVE  <<m.type, m.ref.name>> \in Read(spec)
  BY <1>1, <1>2, <1>3, <1>4
<1>5. \A e \in Range(spec.env) :
                 /\ e.configMap # None => ConfigMap(e.configMap.name) \in Read(spec)
                 /\ e.secret # None => Secret(e.secret.name) \in Read(spec)
  BY DEF Read, EnvReferences
<1>6. ASSUME spec.tls # None, spec.tls.ca # None PROVE Secret(spec.tls.ca) \in Read(spec)
  <2>1. Secret(spec.tls.ca) \in IndexedObjects(spec) /\ Secret(spec.tls.ca)[2] # ""
    BY <1>6 DEF IndexedObjects, IsSpec, Secret
  <2>2. QED
    BY <1>2, <2>1
<1>7. ASSUME spec.serviceRef PROVE ExternalService \in Read(spec)
  <2>1. ExternalService \in IndexedObjects(spec) /\ ExternalService[2] # ""
    BY <1>7 DEF IndexedObjects, ExternalService
  <2>2. QED
    BY <1>2, <2>1
<1>8. QED
  BY <1>1, <1>4, <1>5, <1>6, <1>7

\* The objects that the spec refers to have not changed.
SameObjects == \A o \in Read(server.spec) : objects'[o] = objects[o]

\* Validation depends on what the spec refers to only.
LEMMA SameGood ==
    ASSUME UNCHANGED <<server, workload>>, IsSpec(server.spec), SameObjects
    PROVE  /\ RefsGood(server.spec)' <=> RefsGood(server.spec)
           /\ ConfigGood(server.spec)' <=> ConfigGood(server.spec)
           /\ ConfigGood(server.spec) =>
                 ComputeConfigHash(server.spec, objects)' = ComputeConfigHash(server.spec, objects)
<1> DEFINE spec == server.spec
<1>1. \A o \in Read(spec) : There(o)' <=> There(o)
  BY DEF SameObjects, There
<1>2. \A m \in Range(spec.storage) : MountGood(m)' <=> MountGood(m)
  BY <1>1, ReferencesOf DEF MountGood
<1>3. \A e \in Range(spec.env) : EnvGood(e)' <=> EnvGood(e)
  BY <1>1, ReferencesOf DEF EnvGood
<1>4. TLSGood(spec.tls)' <=> TLSGood(spec.tls)
  BY <1>1, ReferencesOf DEF TLSGood, SameObjects
<1>5. ConfigGood(spec)' <=> ConfigGood(spec)
  BY <1>2, <1>3, <1>4 DEF ConfigGood
<1>6. RefsGood(spec)' <=> RefsGood(spec)
  BY <1>1, ReferencesOf DEF RefsGood
<1>7. ASSUME ConfigGood(spec)
      PROVE  ComputeConfigHash(spec, objects)' = ComputeConfigHash(spec, objects)
  <2>1. PodReferences(spec) \subseteq Read(spec)
    <3>1. \A m \in Range(spec.storage) : m.type # "EmptyDir" => <<m.type, m.ref.name>> \in Read(spec)
      BY <1>7, ReferencesOf DEF ConfigGood, MountGood
    <3>2. EnvReferences(spec) \subseteq Read(spec)
      BY DEF Read
    <3>3. QED
      BY <3>1, <3>2 DEF PodReferences
  <2>2. \A o \in PodReferences(spec) : objects'[o] = objects[o]
    BY <2>1 DEF SameObjects
  <2>3. ComputeConfigHash(spec, objects') = ComputeConfigHash(spec, objects)
    BY <2>2, SameHash
  <2>4. QED
    BY <2>3 DEF ComputeConfigHash, PodReferences, EnvReferences
<1>8. QED
  BY <1>5, <1>6, <1>7

\* The pods in the cache fail as before.
SamePods ==
    \A p \in Pods :
        /\ Fails(cpods'[p]) <=> Fails(cpods[p])
        /\ Fails(cpods[p]) =>
              Signature(FirstFailure(cpods'[p])) = Signature(FirstFailure(cpods[p]))

\* A diagnosis stays right while workload and failures do.
LEMMA SameDiagnosis ==
    ASSUME UNCHANGED workload, SamePods, NEW message, DiagnosisRight(message)
    PROVE  DiagnosisRight(message)'
<1>1. ASSUME message[1] = "pod"
      PROVE  /\ message[2] \in Pods /\ IsFailure(message[3]) /\ Fails(cpods'[message[2]])
             /\ Signature(FirstFailure(cpods'[message[2]])) = Signature(message[3])
  BY <1>1 DEF DiagnosisRight, SamePods
<1>2. (\E p \in Pods : Fails(cpods'[p])) => \E p \in Pods : Fails(cpods[p])
  BY DEF SamePods
<1>3. QED
  BY <1>1, <1>2 DEF DiagnosisRight

\* Availability depends on the workload only.
LEMMA SameAvailability ==
    ASSUME UNCHANGED workload, NEW condition, AvailabilityRight(condition)
    PROVE  AvailabilityRight(condition)'
BY DEF AvailabilityRight

\* What was observed stays right while everything it depends on does.
LEMMA SameObserved ==
    ASSUME UNCHANGED <<server, workload>>, IsSpec(server.spec), SameObjects, SamePods,
           ConfigGood(server.spec), NEW verdict, Observed(verdict)
    PROVE  Observed(verdict)'
<1>1. DiagnosisRight(verdict.available.message)' /\ AvailabilityRight(verdict.available)'
  BY SameDiagnosis, SameAvailability DEF Observed
<1>2. TemplateRight(server.spec)'
  BY SameGood DEF Observed, TemplateRight
<1>3. QED
  BY <1>1, <1>2 DEF Observed

\* So does a whole verdict.
LEMMA SameRight ==
    ASSUME UNCHANGED <<server, workload, service>>, IsSpec(server.spec), SameObjects, SamePods,
           NEW verdict, Right(verdict)
    PROVE  Right(verdict)'
<1>1. (verdict.accepted = "True") <=> RefsGood(server.spec)' /\ ConfigGood(server.spec)'
  BY SameGood DEF Right
<1>2. verdict.accepted = "True" => Observed(verdict)'
  BY SameObserved DEF Right
<1>3. verdict.accepted = "True" => ServiceRight(server.spec)'
  BY DEF Right, ServiceRight
<1>4. QED
  BY <1>1, <1>2, <1>3 DEF Right

\* What a step leaves alone that no reconcile has to know of.
LEMMA Undisturbed ==
    ASSUME NetworkInv, Informed, Settled, SameObjects, SamePods, Coming => Coming',
           UNCHANGED <<server, workload, service, status, pc, work>>
    PROVE  Informed' /\ Settled'
<1>1. IsSpec(server.spec)
  BY DEF NetworkInv
<1>2. Settled'
  <2>1. Right(status) => Right(status)'
    BY <1>1, SameRight
  <2>2. QED
    BY <2>1 DEF Settled
<1>3. SUFFICES ASSUME pc # "idle", ~Coming PROVE Informed'
  BY <1>2 DEF Informed
<1>4. /\ RefsGood(server.spec)' <=> RefsGood(server.spec)
      /\ ConfigGood(server.spec)' <=> ConfigGood(server.spec)
      /\ ConfigGood(server.spec) =>
            ComputeConfigHash(server.spec, objects)' = ComputeConfigHash(server.spec, objects)
  BY <1>1, SameGood
<1>5. pc = "apply" => work.again \/ Right(work.draft)'
  BY <1>1, <1>3, SameRight DEF Informed
<1>6. pc = "service" => Observed(work.draft)'
  BY <1>1, <1>3, SameObserved DEF Informed
<1>7. TemplateRight(server.spec) /\ ConfigGood(server.spec) => TemplateRight(server.spec)'
  BY <1>4 DEF TemplateRight
<1>8. QED
  BY <1>3, <1>4, <1>5, <1>6, <1>7 DEF Informed

\* With a reconcile on its way nothing else is asked for.
LEMMA Repeated == ASSUME Coming' PROVE Informed' /\ Settled'
BY DEF Informed, Settled

-----------------------------------------------------------------------------
(* Workloads. *)

Scaled(w, n) == [w EXCEPT !.generation = @ + 1, !.replicas = n]
Reported(w, r) == [w EXCEPT !.observed = w.generation, !.conditions = r.conditions,
                            !.ready = r.ready, !.available = r.available]
Updated(w, h) == [w EXCEPT !.hash = h, !.generation = @ + 1]

\* The record with these fields, as a set.
WorkloadWith(k, h, s, g, n, o, c, r, a) ==
    [kind : {k}, hash : {h}, selector : {s}, generation : {g}, replicas : {n}, observed : {o},
     conditions : {c}, ready : {r}, available : {a}]

\* The fields of a workload.
LEMMA WorkloadParts ==
    ASSUME NEW w, IsWorkload(w)
    PROVE  /\ w \in WorkloadWith(w.kind, w.hash, w.selector, w.generation, w.replicas,
                                 w.observed, w.conditions, w.ready, w.available)
           /\ w.kind \in {"Deployment", "DaemonSet", "StatefulSet"}
           /\ w.selector \in [labels : {w.selector.labels}, expressions : {w.selector.expressions}]
           /\ w.generation \in Nat \ {0} /\ w.replicas \in Nat /\ w.observed \in Nat
           /\ w.ready \in Nat /\ w.available \in Nat
BY DEF IsWorkload, WorkloadWith

\* Fields that fit make a workload.
LEMMA WorkloadOf ==
    ASSUME NEW k \in {"Deployment", "DaemonSet", "StatefulSet"}, NEW h, NEW s,
           s \in [labels : {s.labels}, expressions : {s.expressions}],
           NEW g \in Nat \ {0}, NEW n \in Nat, NEW o \in Nat, NEW c, NEW r \in Nat,
           NEW a \in Nat, o <= g, o = 0 => c = None,
           NEW w \in WorkloadWith(k, h, s, g, n, o, c, r, a)
    PROVE  IsWorkload(w) /\ w.kind = k /\ w.selector = s
<1>1. /\ w.kind = k /\ w.hash = h /\ w.selector = s /\ w.generation = g /\ w.replicas = n
      /\ w.observed = o /\ w.conditions = c /\ w.ready = r /\ w.available = a
  BY DEF WorkloadWith
<1>2. QED
  BY <1>1 DEF IsWorkload, WorkloadWith

\* A status is written as a whole.
LEMMA StatusOf ==
    ASSUME NEW k, NEW h, NEW s, NEW g, NEW n, NEW o, NEW c, NEW r, NEW a,
           NEW w \in WorkloadWith(k, h, s, g, n, o, c, r, a),
           NEW o2, NEW c2, NEW r2, NEW a2
    PROVE  [w EXCEPT !.observed = o2, !.conditions = c2, !.ready = r2, !.available = a2]
              \in WorkloadWith(k, h, s, g, n, o2, c2, r2, a2)
BY DEF WorkloadWith

\* A status stays what it was about, or is about the latest generation.
LEMMA ScaledWorkload ==
    ASSUME NEW w, IsWorkload(w), NEW n \in Nat
    PROVE  /\ IsWorkload(Scaled(w, n))
           /\ Scaled(w, n).kind = w.kind /\ Scaled(w, n).selector = w.selector
<1>1. Scaled(w, n) \in WorkloadWith(w.kind, w.hash, w.selector, w.generation + 1, n,
                                    w.observed, w.conditions, w.ready, w.available)
  BY WorkloadParts DEF WorkloadWith, Scaled
<1>2. /\ w.generation + 1 \in Nat \ {0} /\ w.observed <= w.generation + 1
      /\ w.observed = 0 => w.conditions = None
  BY WorkloadParts, SMTT(60) DEF IsWorkload
<1>3. QED
  BY <1>1, <1>2, WorkloadParts, WorkloadOf, SMTT(60)

\* A report of the workload's controller makes a workload of the same kind and
\* selector.
LEMMA ReportedWorkload ==
    ASSUME NEW w, IsWorkload(w), NEW r, r.ready \in Nat, r.available \in Nat
    PROVE  /\ IsWorkload(Reported(w, r))
           /\ Reported(w, r).kind = w.kind /\ Reported(w, r).selector = w.selector
<1>1. Reported(w, r) \in WorkloadWith(w.kind, w.hash, w.selector, w.generation, w.replicas,
                                      w.generation, r.conditions, r.ready, r.available)
  <2>1. w \in WorkloadWith(w.kind, w.hash, w.selector, w.generation, w.replicas,
                           w.observed, w.conditions, w.ready, w.available)
    BY WorkloadParts
  <2>2. QED
    BY <2>1, StatusOf DEF Reported
<1>2. w.generation \in Nat /\ w.generation <= w.generation /\ w.generation # 0
  BY WorkloadParts, SMTT(60)
<1>3. QED
  BY <1>1, <1>2, WorkloadParts, WorkloadOf, SMTT(60)

\* So does an update of the pod template.
LEMMA UpdatedWorkload ==
    ASSUME NEW w, IsWorkload(w), NEW h
    PROVE  /\ IsWorkload(Updated(w, h))
           /\ Updated(w, h).kind = w.kind /\ Updated(w, h).selector = w.selector
<1>1. Updated(w, h) \in WorkloadWith(w.kind, h, w.selector, w.generation + 1, w.replicas,
                                     w.observed, w.conditions, w.ready, w.available)
  BY WorkloadParts DEF WorkloadWith, Updated
<1>2. /\ w.generation + 1 \in Nat \ {0} /\ w.observed <= w.generation + 1
      /\ w.observed = 0 => w.conditions = None
  BY WorkloadParts, SMTT(60) DEF IsWorkload
<1>3. QED
  BY <1>1, <1>2, WorkloadParts, WorkloadOf, SMTT(60)

\* The Deployment that the operator creates is a workload of its own.
LEMMA CreatedWorkload ==
    ASSUME NEW h PROVE IsWorkload(NewDeployment(h)) /\ IsOperators(NewDeployment(h))
BY SMTT(60) DEF NewDeployment, IsWorkload, IsOperators

-----------------------------------------------------------------------------
(* The user, the cluster, the informers and the watches. *)

\* What the world may bring does not change.
LEMMA WorldKept == ASSUME WorldOK, UNCHANGED world PROVE WorldOK'
BY DEF WorldOK

\* Initially the MCPServer is queued.
LEMMA ConvergenceInit == Init => ConvergenceInv
<1> SUFFICES ASSUME Init PROVE ConvergenceInv
  OBVIOUS
<1>1. PICK w \in Worlds :
        /\ world = w.choices /\ objects = w.objects /\ workload = w.workload
        /\ \E s \in w.choices.specs : server = [generation |-> 1, spec |-> s]
  BY DEF Init
<1>2. PICK s \in world.specs : server = [generation |-> 1, spec |-> s]
  BY <1>1
<1>3. /\ cserver = server /\ cdeploy = workload /\ queued = TRUE /\ pc = "idle"
      /\ pods = [p \in Pods |-> None] /\ cpods = pods
  BY DEF Init
<1>4. WorldOK
  BY <1>1, WorldsAssumption DEF WorldOK
<1>5. server.spec = s /\ server \in [generation : Nat, spec : world.specs] /\ server.generation = 1
  BY <1>2
<1>6. ClusterOK
  <2>1. pods \in [Pods -> world.pods \cup {None}] /\ cpods \in [Pods -> world.pods \cup {None}]
    BY <1>3
  <2>2. /\ objects \in [Objects -> STRING] /\ (workload # None => IsWorkload(workload))
        /\ IsManaged(server.spec) => workload = None \/ IsOperators(workload)
    BY <1>1, <1>5, WorldsAssumption
  <2>3. cserver.generation <= server.generation
    BY <1>3, <1>5, SMTT(60)
  <2>4. QED
    BY <1>3, <1>5, <2>1, <2>2, <2>3 DEF ClusterOK
<1>7. Informed /\ Settled
  BY <1>3 DEF Informed, Settled, Coming
<1>8. QED
  BY <1>4, <1>6, <1>7, InvInit DEF ConvergenceInv

\* Another spec leaves the cache behind.
LEMMA EditConverges == ASSUME ConvergenceInv, EditSpec PROVE ClusterOK' /\ Coming'
<1>1. PICK s \in world.specs : /\ IsManaged(s) = IsManaged(server.spec)
                               /\ server' = [generation |-> server.generation + 1, spec |-> s]
  BY DEF EditSpec
<1>2. UNCHANGED <<world, objects, workload, pods, cserver, cdeploy, cpods, changed>>
  BY DEF EditSpec, cacheVars
<1>3. /\ server'.spec = s /\ server' \in [generation : Nat, spec : world.specs]
      /\ cserver.generation < server'.generation /\ cserver.generation <= server'.generation
  BY <1>1, SMTT(60) DEF ConvergenceInv, ClusterOK
<1>4. Coming'
  BY <1>2, <1>3, SMTT(60) DEF Coming
<1>5. ClusterOK'
  BY <1>1, <1>2, <1>3 DEF ConvergenceInv, ClusterOK
<1>6. QED
  BY <1>4, <1>5

\* A workload that is kept as the operator's or the user's is, with an event.
LEMMA WorkloadChanges ==
    ASSUME ConvergenceInv, UNCHANGED <<world, server, cserver, objects, pods, cpods>>,
           TheWorkload \in changed', workload' # None => IsWorkload(workload'),
           IsManaged(server.spec) => workload' = None \/ IsOperators(workload')
    PROVE  ClusterOK' /\ Coming'
<1>1. Coming'
  BY DEF Coming
<1>2. ClusterOK'
  BY DEF ConvergenceInv, ClusterOK
<1>3. QED
  BY <1>1, <1>2

\* Another workload has its event on the way.
LEMMA ChangeWorkloadConverges ==
    ASSUME ConvergenceInv, ChangeWorkload PROVE ClusterOK' /\ Coming'
<1>1. /\ UNCHANGED <<world, server, cserver, objects, pods, cpods>>
      /\ TheWorkload \in changed'
  BY DEF ChangeWorkload
<1>2. CASE workload = None /\ ~IsManaged(server.spec) /\ workload' \in world.workloads
  BY <1>1, <1>2, WorkloadChanges DEF ConvergenceInv, WorldOK
<1>3. CASE workload' = None
  BY <1>1, <1>3, WorkloadChanges
<1>4. ASSUME workload # None, ~IsManaged(server.spec), NEW n \in 0..2,
             workload' = [workload EXCEPT !.generation = @ + 1, !.replicas = n]
      PROVE  ClusterOK' /\ Coming'
  <2>1. IsWorkload(workload) /\ n \in Nat
    BY <1>4, SMTT(60) DEF ConvergenceInv, ClusterOK
  <2>2. IsWorkload(workload')
    BY <1>4, <2>1, ScaledWorkload DEF Scaled
  <2>3. QED
    BY <1>1, <1>4, <2>2, WorkloadChanges
<1>5. QED
  BY <1>2, <1>3, <1>4 DEF ChangeWorkload

\* So has a report of the workload's controller.
LEMMA ReportConverges == ASSUME ConvergenceInv, ReportWorkload PROVE ClusterOK' /\ Coming'
<1>1. /\ UNCHANGED <<world, server, cserver, objects, pods, cpods>>
      /\ TheWorkload \in changed' /\ workload # None
  BY DEF ReportWorkload
<1>2. PICK r \in world.reports : workload' = Reported(workload, r)
  BY DEF ReportWorkload, Reported
<1>3. IsWorkload(workload) /\ r.ready \in Nat /\ r.available \in Nat
  BY <1>1 DEF ConvergenceInv, ClusterOK, WorldOK
<1>4. /\ IsWorkload(workload')
      /\ workload'.kind = workload.kind /\ workload'.selector = workload.selector
  BY <1>2, <1>3, ReportedWorkload
<1>5. IsManaged(server.spec) => IsOperators(workload')
  BY <1>1, <1>4 DEF ConvergenceInv, ClusterOK, IsOperators
<1>6. QED
  BY <1>1, <1>4, <1>5, WorkloadChanges

\* Objects that do not change are the same to every spec.
LEMMA Unchanging == UNCHANGED objects => SameObjects
BY DEF SameObjects

\* Pods that do not change fail as before.
LEMMA UnchangingPods == UNCHANGED cpods => SamePods
BY DEF SamePods

\* The field index holds everything that a reconcile reads.
LEMMA ReadIsIndexed == ASSUME NEW spec PROVE Read(spec) \subseteq IndexedObjects(spec)
BY DEF Read, IndexedObjects, PodReferences

\* A change of what the spec reads has its event on the way.
LEMMA ChangeObjectConverges ==
    ASSUME ConvergenceInv, ChangeObject PROVE ClusterOK' /\ Informed' /\ Settled'
<1>1. PICK change \in world.objects :
        /\ objects' = [objects EXCEPT ![change[1]] = change[2]]
        /\ changed' = changed \cup {change[1]}
  BY DEF ChangeObject
<1>2. UNCHANGED <<world, server, workload, pods, status, service, cserver, cdeploy, cpods,
                  queued, pc, work>>
  BY DEF ChangeObject
<1>3. change[1] \in Objects /\ change[2] \in STRING
  BY DEF ConvergenceInv, WorldOK
<1>4. objects' \in [Objects -> STRING]
  BY <1>1, <1>3 DEF ConvergenceInv, ClusterOK
<1>5. ClusterOK'
  BY <1>1, <1>2, <1>4 DEF ConvergenceInv, ClusterOK
<1>6. CASE change[1] \in IndexedObjects(server.spec)
  <2>1. changed' \cap IndexedObjects(server'.spec) # {}
    BY <1>1, <1>2, <1>6
  <2>2. Coming'
    BY <2>1 DEF Coming
  <2>3. QED
    BY <1>5, <2>2, Repeated
<1>7. CASE change[1] \notin IndexedObjects(server.spec)
  <2>1. Read(server.spec) \subseteq Objects
    BY DEF ConvergenceInv, WorldOK, NetworkInv
  <2>2. SameObjects
    BY <1>1, <1>7, <2>1, ReadIsIndexed DEF SameObjects, ConvergenceInv, ClusterOK
  <2>3. Coming => Coming'
    BY <1>1, <1>2 DEF Coming
  <2>4. QED
    BY <1>2, <1>5, <2>2, <2>3, UnchangingPods, Undisturbed DEF ConvergenceInv
<1>8. QED
  BY <1>6, <1>7

\* A change of a pod is not seen before its event.
LEMMA ChangePodConverges ==
    ASSUME ConvergenceInv, ChangePod PROVE ClusterOK' /\ Informed' /\ Settled'
<1>1. UNCHANGED <<world, server, objects, workload, status, service, cserver, cdeploy, cpods,
                  changed, queued, pc, work>>
  BY DEF ChangePod, cacheVars
<1>2. PICK p \in Pods, q \in world.pods \cup {None} : pods' = [pods EXCEPT ![p] = q]
  BY DEF ChangePod
<1>3. pods' \in [Pods -> world.pods \cup {None}]
  BY <1>2 DEF ConvergenceInv, ClusterOK
<1>4. ClusterOK'
  BY <1>1, <1>3 DEF ConvergenceInv, ClusterOK
<1>5. Coming => Coming'
  BY <1>1 DEF Coming
<1>6. QED
  BY <1>1, <1>4, <1>5, Unchanging, UnchangingPods, Undisturbed DEF ConvergenceInv

\* The event of the MCPServer queues it.
LEMMA SyncServerConverges == ASSUME ConvergenceInv, SyncServer PROVE ClusterOK' /\ Coming'
<1>1. /\ UNCHANGED <<world, server, objects, workload, pods, cdeploy, cpods, changed>>
      /\ cserver' = server /\ queued' = TRUE
  BY DEF SyncServer, clusterVars
<1>2. server.generation <= server.generation
  BY SMTT(60) DEF ConvergenceInv, ClusterOK
<1>3. QED
  BY <1>1, <1>2 DEF ConvergenceInv, ClusterOK, Coming

\* So does the event of its workload.
LEMMA SyncWorkloadConverges == ASSUME ConvergenceInv, SyncWorkload PROVE ClusterOK' /\ Coming'
<1>1. /\ UNCHANGED <<world, server, objects, workload, pods, cserver, cpods>>
      /\ cdeploy' = workload /\ queued' = TRUE
  BY DEF SyncWorkload, clusterVars
<1>2. QED
  BY <1>1 DEF ConvergenceInv, ClusterOK, Coming

\* The event of an object queues the MCPServer that the index gives, and matters
\* to no other.
LEMMA DeliverConverges ==
    ASSUME ConvergenceInv, NEW o \in Objects, DeliverObject(o)
    PROVE  ClusterOK' /\ Informed' /\ Settled'
<1>1. /\ UNCHANGED <<world, server, objects, workload, pods, status, service, cserver, cdeploy,
                     cpods, pc, work>>
      /\ changed' = changed \ {o}
      /\ queued' = (queued \/ o \in IndexedObjects(cserver.spec))
  BY DEF DeliverObject, clusterVars
<1>2. TheWorkload \in changed <=> TheWorkload \in changed'
  BY <1>1, ObjectsAssumption
<1>3. ClusterOK'
  BY <1>1, <1>2 DEF ConvergenceInv, ClusterOK
<1>4. Coming => Coming'
  BY <1>1, <1>2 DEF Coming
<1>5. QED
  BY <1>1, <1>3, <1>4, Unchanging, UnchangingPods, Undisturbed DEF ConvergenceInv

\* A pod whose event is filtered out fails as before.
LEMMA SameFailure ==
    ASSUME NEW old, NEW new, NEW missed \in BOOLEAN, ~PodDiagnosticsChanged(old, new, missed),
           Fails(old) => Signature(FirstFailure(old)) # None,
           Fails(new) => Signature(FirstFailure(new)) # None
    PROVE  /\ Fails(new) <=> Fails(old)
           /\ Fails(old) => Signature(FirstFailure(new)) = Signature(FirstFailure(old))
BY DEF PodDiagnosticsChanged, PodFailureSignature, Fails

\* The event of a pod queues its MCPServer, or it fails as before.
LEMMA SyncPodConverges ==
    ASSUME ConvergenceInv, NEW p \in Pods, SyncPod(p)
    PROVE  ClusterOK' /\ Informed' /\ Settled'
<1> DEFINE new == Visible(pods[p])
<1>1. /\ UNCHANGED <<world, server, objects, workload, pods, status, service, cserver, cdeploy,
                     changed, pc, work>>
      /\ cpods' = [cpods EXCEPT ![p] = new]
  BY DEF SyncPod, clusterVars
<1>2. PICK missed \in BOOLEAN :
        queued' = (queued \/ PodDiagnosticsChanged(cpods[p], new, missed))
  BY DEF SyncPod
<1>3. /\ cpods \in [Pods -> world.pods \cup {None}] /\ new \in world.pods \cup {None}
      /\ cpods[p] \in world.pods \cup {None}
  BY DEF ConvergenceInv, ClusterOK, Visible
<1> HIDE DEF new
<1>4. cpods' \in [Pods -> world.pods \cup {None}]
  BY <1>1, <1>3
<1>5. ClusterOK'
  BY <1>1, <1>4 DEF ConvergenceInv, ClusterOK
<1>6. Coming => Coming'
  BY <1>1, <1>2 DEF Coming
<1>7. CASE PodDiagnosticsChanged(cpods[p], new, missed)
  <2>1. Coming'
    BY <1>2, <1>7 DEF Coming
  <2>2. QED
    BY <1>5, <2>1, Repeated
<1>8. CASE ~PodDiagnosticsChanged(cpods[p], new, missed)
  <2>1. \A x \in world.pods \cup {None} : Fails(x) => Signature(FirstFailure(x)) # None
    BY DEF ConvergenceInv, WorldOK, Fails
  <2>2. /\ Fails(new) <=> Fails(cpods[p])
        /\ Fails(cpods[p]) => Signature(FirstFailure(new)) = Signature(FirstFailure(cpods[p]))
    BY <1>3, <1>8, <2>1, SameFailure
  <2>3. cpods'[p] = new /\ \A r \in Pods : r # p => cpods'[r] = cpods[r]
    BY <1>1, <1>3
  <2>4. SamePods
    BY <2>2, <2>3 DEF SamePods
  <2>5. QED
    BY <1>1, <1>5, <1>6, <2>4, Unchanging, Undisturbed DEF ConvergenceInv
<1>9. QED
  BY <1>7, <1>8

\* A restart queues the MCPServer.
LEMMA RestartConverges == ASSUME ConvergenceInv, Restart PROVE ClusterOK' /\ Coming'
<1>1. /\ UNCHANGED <<world, server, objects, workload, pods>>
      /\ cserver' = server /\ cdeploy' = workload /\ queued' = TRUE
      /\ cpods' = [q \in Pods |-> Visible(pods[q])]
  BY DEF Restart, clusterVars
<1>2. server.generation <= server.generation
  BY SMTT(60) DEF ConvergenceInv, ClusterOK
<1>3. cpods' \in [Pods -> world.pods \cup {None}]
  BY <1>1 DEF ConvergenceInv, ClusterOK, Visible
<1>4. QED
  BY <1>1, <1>2, <1>3 DEF ConvergenceInv, ClusterOK, Coming

-----------------------------------------------------------------------------
(* The steps of a reconcile. *)

\* A step that writes nothing to the cluster.
LEMMA StepKeeps ==
    ASSUME ConvergenceInv, NEW from, Step(from), NoWrite
    PROVE  /\ ClusterOK' /\ SameObjects /\ SamePods /\ pc = from
           /\ UNCHANGED <<server, workload, objects, cpods, cserver>>
           /\ Coming /\ (queued => queued') => Coming'
<1>1. /\ pc = from
      /\ UNCHANGED <<world, server, cserver, cdeploy, cpods, objects, pods, workload, changed>>
  BY DEF Step, NoWrite
<1>2. ClusterOK'
  BY <1>1 DEF ConvergenceInv, ClusterOK
<1>3. Coming /\ (queued => queued') => Coming'
  BY <1>1 DEF Coming
<1>4. QED
  BY <1>1, <1>2, <1>3, Unchanging, UnchangingPods

\* The spec is one of those the world offers.
LEMMA SpecOK == ConvergenceInv => IsSpec(server.spec)
BY DEF ConvergenceInv, NetworkInv

\* An error repeats the reconcile.
LEMMA Retried == ASSUME Finish(TRUE) PROVE Informed' /\ Settled'
<1>1. Coming'
  BY DEF Finish, Coming
<1>2. QED
  BY <1>1, Repeated

\* What a reconcile holds after it has been given one more part.
LEMMA HeldFields ==
    ASSUME NEW w, IsWork(w), NEW d, NEW a, NEW h, NEW k
    PROVE  /\ WithDraft(w, d, a).again = a
           /\ WithVerdict(w, d).workload = w.workload
           /\ WithWorkload(w, h).workload = h
           /\ WithHash(w, k).hash = k
<1>1. WithDraft(w, d, a).again = a /\ WithVerdict(w, d).workload = w.workload
  BY DEF IsWork, WithDraft, WithVerdict
<1>2. WithWorkload(w, h).workload = h /\ WithHash(w, k).hash = k
  BY DEF IsWork, WithWorkload, WithHash
<1>3. QED
  BY <1>1, <1>2

\* A draft goes with the MCPServer at hand.
LEMMA DraftFields ==
    ASSUME NetworkInv, NEW accepted, NEW available, NEW again, Draft(accepted, available, again)
    PROVE  /\ pc' = "apply" /\ queued' = queued
           /\ work'.server = work.server /\ work'.again = again
           /\ work'.draft.accepted = accepted /\ work'.draft.available = available
           /\ work'.draft.generation = work.server.generation
<1> DEFINE d == Verdict(accepted, available, work.server.generation)
<1>1. pc' = "apply" /\ queued' = queued /\ work' = WithDraft(work, d, again)
  BY DEF Draft, Goto, WithDraft
<1>2. d.accepted = accepted /\ d.available = available /\ d.generation = work.server.generation
  BY DEF Verdict
<1> HIDE DEF d
<1>3. work'.server = work.server /\ work'.draft = d /\ work'.again = again
  BY <1>1, WorkFields, HeldFields, SMTT(60) DEF NetworkInv
<1>4. QED
  BY <1>1, <1>2, <1>3

\* A failure that is reported and retried.
LEMMA ReportedAndRetried ==
    ASSUME ConvergenceInv, NEW from, Step(from), NoWrite, from # "idle",
           NEW accepted, NEW available, Draft(accepted, available, TRUE)
    PROVE  Informed' /\ Settled'
<1>1. /\ pc' = "apply" /\ queued' = queued
      /\ work'.server = work.server /\ work'.again = TRUE
  BY DraftFields DEF ConvergenceInv
<1>2. CASE Coming
  BY <1>1, <1>2, StepKeeps, Repeated
<1>3. CASE ~Coming
  <2>1. work.server = server
    BY <1>3, StepKeeps DEF ConvergenceInv, Informed
  <2>2. work'.server = server'
    BY <1>1, <2>1, StepKeeps
  <2>3. QED
    BY <1>1, <2>2 DEF Informed, Settled
<1>4. QED
  BY <1>2, <1>3

\* A permanent error that is reported, and not retried.
LEMMA Rejected ==
    ASSUME ConvergenceInv, NEW from, Step(from), NoWrite, from # "idle", UNCHANGED service,
           Coming \/ ~(RefsGood(server.spec) /\ ConfigGood(server.spec)), Reject
    PROVE  Informed' /\ Settled'
<1>1. /\ pc' = "apply" /\ queued' = queued /\ work'.server = work.server
      /\ work'.draft.accepted = "False" /\ work'.draft.generation = work.server.generation
  BY DraftFields DEF ConvergenceInv, Reject
<1>2. CASE Coming
  BY <1>1, <1>2, StepKeeps, Repeated
<1>3. CASE ~Coming
  <2>1. work.server = server /\ IsSpec(server.spec)
    BY <1>3, StepKeeps DEF ConvergenceInv, Informed, NetworkInv
  <2>2. ~(RefsGood(server.spec)' /\ ConfigGood(server.spec)')
    BY <1>3, <2>1, StepKeeps, SameGood
  <2>3. work'.server = server' /\ work'.draft.generation = server'.generation
    BY <1>1, <2>1, StepKeeps
  <2>4. Right(work.draft)'
    BY <1>1, <2>2, <2>3 DEF Right
  <2>5. QED
    BY <1>1, <2>3, <2>4 DEF Informed, Settled
<1>4. QED
  BY <1>2, <1>3

\* Without a failing read, the outcome is that of the reads; otherwise the
\* reconcile is tried again.
LEMMA ValidatedCases ==
    ASSUME NEW outcome, NEW next, NEW held, Validated(outcome, next, held)
    PROVE  \/ outcome[None] = "ok" /\ Goto(next) /\ work' = WithWorkload(work, held)
           \/ outcome[None] = "Invalid" /\ Reject
           \/ Finish(TRUE)
BY DEF Validated, WithWorkload

\* The reconcile begins with the MCPServer there is, or its event is on its way.
LEMMA FetchConverges == ASSUME ConvergenceInv, Fetch PROVE ClusterOK' /\ Informed' /\ Settled'
<1>1. /\ pc' = "resolve" /\ work' = WithServer(cserver) /\ ClusterOK'
      /\ UNCHANGED <<server, cserver>>
  BY StepKeeps DEF Fetch, NoWrite, WithServer
<1>2. work'.server = cserver
  BY <1>1, FreshWork
<1>3. Informed'
  BY <1>1, <1>2 DEF Informed, Coming
<1>4. QED
  BY <1>1, <1>3 DEF Settled

\* What is resolved is what the spec refers to, or an event is on its way.
LEMMA ResolveConverges ==
    ASSUME ConvergenceInv, Resolve PROVE ClusterOK' /\ Informed' /\ Settled'
<1> DEFINE spec == work.server.spec
           Checked(f) == FirstFailed(<<IF IsManaged(spec) THEN "ok"
                                       ELSE ValidateWorkloadRef(spec, workload, f = TheWorkload),
                                       ValidateServiceRef(spec, Answers(f))>>)
           held == IF IsManaged(spec) THEN None ELSE workload
<1>1. Step("resolve") /\ NoWrite /\ UNCHANGED <<status, service>>
  BY DEF Resolve, NoWrite
<1>2. ClusterOK'
  BY <1>1, StepKeeps
<1>3. Validated([f \in Failing |-> Checked(f)], "validate", held)
  BY DEF Resolve
<1>4. Checked(None) = FirstFailed(<<IF IsManaged(spec) THEN "ok"
                                    ELSE ValidateWorkloadRef(spec, workload, FALSE),
                                    ValidateServiceRef(spec, objects)>>)
  BY AnswersAreObjects, ObjectsAssumption DEF ConvergenceInv, ClusterOK
<1>5. (Checked(None) = "ok" => RefsGood(spec)) /\ (Checked(None) = "Invalid" => ~RefsGood(spec))
  <2> HIDE DEF spec, Checked
  <2>1. QED
    BY <1>4, RefsChecked
<1>6. [f \in Failing |-> Checked(f)][None] = Checked(None)
  BY DEF Failing
<1> HIDE DEF Checked
<1>7. \/ Checked(None) = "ok" /\ Goto("validate") /\ work' = WithWorkload(work, held)
      \/ Checked(None) = "Invalid" /\ Reject
      \/ Finish(TRUE)
  BY <1>3, <1>6, ValidatedCases
<1>8. CASE Finish(TRUE)
  BY <1>2, <1>8, Retried
<1>9. ~Coming => work.server = server /\ IsSpec(server.spec)
  BY <1>1, SpecOK DEF Step, ConvergenceInv, Informed
<1>10. CASE Checked(None) = "Invalid" /\ Reject
  BY <1>1, <1>2, <1>5, <1>9, <1>10, Rejected
<1>11. CASE Checked(None) = "ok" /\ Goto("validate") /\ work' = WithWorkload(work, held)
  <2>1. pc' = "validate" /\ queued' = queued
    BY <1>11 DEF Goto
  <2>2. CASE Coming
    BY <1>1, <1>2, <2>1, <2>2, StepKeeps, Repeated
  <2>3. CASE ~Coming
    <3>1. work'.server = work.server /\ work'.workload = held
      <4> HIDE DEF held
      <4>1. QED
        BY <1>11, WorkFields, HeldFields, SMTT(60) DEF NetworkInv, ConvergenceInv
    <3>2. work'.server = server' /\ RefsGood(server.spec)'
      BY <1>1, <1>5, <1>9, <1>11, <2>3, <3>1, StepKeeps, SameGood
    <3>3. work'.workload = IF IsManaged(server'.spec) THEN None ELSE workload'
      BY <1>1, <1>9, <2>3, <3>1, StepKeeps
    <3>4. QED
      BY <1>2, <2>1, <3>2, <3>3 DEF Informed, Settled
  <2>4. QED
    BY <2>2, <2>3
<1>12. QED
  BY <1>7, <1>8, <1>10, <1>11

\* Validation goes on exactly when the configuration is good, or it is repeated.
LEMMA ValidateConverges ==
    ASSUME ConvergenceInv, ValidateRest PROVE ClusterOK' /\ Informed' /\ Settled'
<1> DEFINE spec == work.server.spec
           next == IF IsManaged(spec) THEN "hash" ELSE "observe"
           checked == [f \in Failing |-> ValidateConfig(spec, Answers(f))]
<1>1. Step("validate") /\ NoWrite /\ UNCHANGED <<status, service>>
  BY DEF ValidateRest, NoWrite
<1>2. ClusterOK'
  BY <1>1, StepKeeps
<1>3. Validated(checked, next, work.workload)
  BY DEF ValidateRest
<1>4. checked[None] = ValidateConfig(spec, objects)
  BY AnswersAreObjects DEF ConvergenceInv, ClusterOK, Failing
<1> HIDE DEF checked
<1>5. \/ checked[None] = "ok" /\ Goto(next) /\ work' = WithWorkload(work, work.workload)
      \/ checked[None] = "Invalid" /\ Reject
      \/ Finish(TRUE)
  BY <1>3, ValidatedCases
<1>6. ~Coming =>
        /\ work.server = server /\ IsSpec(server.spec) /\ RefsGood(server.spec)
        /\ work.workload = IF IsManaged(server.spec) THEN None ELSE workload
  BY <1>1, SpecOK DEF Step, ConvergenceInv, Informed
<1>7. ~Coming => /\ checked[None] = "ok" => ConfigGood(server.spec)
                 /\ checked[None] = "Invalid" => ~ConfigGood(server.spec)
  BY <1>4, <1>6, ConfigChecked
<1>8. CASE Finish(TRUE)
  BY <1>2, <1>8, Retried
<1>9. CASE checked[None] = "Invalid" /\ Reject
  BY <1>1, <1>2, <1>7, <1>9, Rejected
<1>10. CASE checked[None] = "ok" /\ Goto(next) /\ work' = WithWorkload(work, work.workload)
  <2>1. pc' = next /\ queued' = queued
    BY <1>10 DEF Goto
  <2>2. CASE Coming
    BY <1>1, <1>2, <2>1, <2>2, StepKeeps, Repeated
  <2>3. CASE ~Coming
    <3>1. work'.server = work.server /\ work'.workload = work.workload
      BY <1>10, WorkFields, HeldFields DEF NetworkInv, ConvergenceInv
    <3>2. work'.server = server' /\ RefsGood(server.spec)' /\ ConfigGood(server.spec)'
      BY <1>1, <1>6, <1>7, <1>10, <2>3, <3>1, StepKeeps, SameGood
    <3>3. IF IsManaged(server'.spec) THEN pc' = "hash"
          ELSE pc' = "observe" /\ work'.workload = workload'
      BY <1>1, <1>6, <2>1, <2>3, <3>1, StepKeeps
    <3>4. ~IsManaged(server'.spec) => workload' # None /\ TemplateRight(server.spec)'
      BY <3>2 DEF RefsGood, TemplateRight
    <3>5. QED
      BY <1>2, <3>2, <3>3, <3>4 DEF Informed, Settled
  <2>4. QED
    BY <2>2, <2>3
<1>11. QED
  BY <1>5, <1>8, <1>9, <1>10

\* The hash is that of what the pods read now, or an event is on its way.
LEMMA HashConverges ==
    ASSUME ConvergenceInv, ApplyConfigHash PROVE ClusterOK' /\ Informed' /\ Settled'
<1> DEFINE hash == ComputeConfigHash(work.server.spec, objects)
<1>1. Step("hash") /\ NoWrite /\ UNCHANGED <<status, service>>
  BY DEF ApplyConfigHash, NoWrite
<1>2. ClusterOK'
  BY <1>1, StepKeeps
<1>3. (Goto("deployment") /\ work' = WithHash(work, hash)) \/ DeploymentFails
  BY DEF ApplyConfigHash, WithHash
<1>4. CASE DeploymentFails
  BY <1>1, <1>2, <1>4, ReportedAndRetried DEF DeploymentFails
<1>5. CASE Goto("deployment") /\ work' = WithHash(work, hash)
  <2>1. pc' = "deployment" /\ queued' = queued
    BY <1>5 DEF Goto
  <2>2. CASE Coming
    BY <1>1, <1>2, <2>1, <2>2, StepKeeps, Repeated
  <2>3. CASE ~Coming
    <3>1. work'.server = work.server /\ work'.hash = hash
      <4> HIDE DEF hash
      <4>1. QED
        BY <1>5, WorkFields, HeldFields, SMTT(60) DEF NetworkInv, ConvergenceInv
    <3>2. /\ work.server = server /\ IsSpec(server.spec) /\ IsManaged(server.spec)
          /\ RefsGood(server.spec) /\ ConfigGood(server.spec)
      BY <1>1, <2>3, SpecOK DEF Step, ConvergenceInv, Informed
    <3>3. /\ work'.server = server' /\ RefsGood(server.spec)' /\ ConfigGood(server.spec)'
          /\ work'.hash = ComputeConfigHash(server.spec, objects)'
      BY <1>1, <3>1, <3>2, StepKeeps, SameGood
    <3>4. IsManaged(server.spec)'
      BY <1>1, <3>2, StepKeeps DEF IsManaged
    <3>5. QED
      BY <1>2, <2>1, <3>3, <3>4 DEF Informed, Settled
  <2>4. QED
    BY <2>2, <2>3
<1>6. QED
  BY <1>3, <1>4, <1>5

\* The pod template has that hash afterwards, or the reconcile is repeated.
LEMMA DeploymentConverges ==
    ASSUME ConvergenceInv, ReconcileDeployment PROVE ClusterOK' /\ Informed' /\ Settled'
<1>1. /\ Step("deployment") /\ UNCHANGED service
      /\ UNCHANGED <<world, server, cserver, objects, pods, cpods>>
  BY DEF ReconcileDeployment, Step
<1>2. CASE Write(NewDeployment(work.hash))
  <2>1. workload' = NewDeployment(work.hash) /\ TheWorkload \in changed'
    BY <1>2 DEF Write
  <2>2. IsWorkload(workload') /\ IsOperators(workload')
    BY <2>1, CreatedWorkload
  <2>3. QED
    BY <1>1, <2>1, <2>2, WorkloadChanges, Repeated
<1>3. CASE /\ cdeploy # None /\ TheWorkload \notin changed
           /\ Write(Updated(workload, work.hash))
  <2>1. workload' = Updated(workload, work.hash) /\ TheWorkload \in changed'
    BY <1>3 DEF Write
  <2>2. workload # None /\ IsWorkload(workload)
    BY <1>3 DEF ConvergenceInv, ClusterOK
  <2>3. /\ IsWorkload(workload')
        /\ workload'.kind = workload.kind /\ workload'.selector = workload.selector
    BY <2>1, <2>2, UpdatedWorkload
  <2>4. IsManaged(server.spec) => IsOperators(workload')
    BY <2>2, <2>3 DEF ConvergenceInv, ClusterOK, IsOperators
  <2>5. QED
    BY <1>1, <2>1, <2>3, <2>4, WorkloadChanges, Repeated
<1>4. CASE NoWrite /\ Finish(TRUE)
  BY <1>1, <1>4, StepKeeps, Retried
<1>5. CASE NoWrite /\ DeploymentFails
  BY <1>1, <1>5, StepKeeps, ReportedAndRetried DEF DeploymentFails
<1>6. CASE /\ cdeploy # None /\ cdeploy.hash = work.hash /\ NoWrite
           /\ Goto("observe") /\ work' = WithWorkload(work, cdeploy)
  <2>1. pc' = "observe" /\ queued' = queued /\ ClusterOK'
    BY <1>1, <1>6, StepKeeps DEF Goto
  <2>2. CASE Coming
    BY <1>1, <1>6, <2>1, <2>2, StepKeeps, Repeated
  <2>3. CASE ~Coming
    <3>1. work'.server = work.server /\ work'.workload = cdeploy
      BY <1>6, WorkFields, HeldFields, SMTT(60) DEF NetworkInv, ConvergenceInv
    <3>2. /\ work.server = server /\ IsSpec(server.spec) /\ RefsGood(server.spec)
          /\ ConfigGood(server.spec) /\ work.hash = ComputeConfigHash(server.spec, objects)
      BY <1>1, <2>3, SpecOK DEF Step, ConvergenceInv, Informed
    <3>3. cdeploy = workload
      BY <2>3 DEF ConvergenceInv, ClusterOK, Coming
    <3>4. /\ work'.server = server' /\ work'.workload = workload' /\ workload' # None
          /\ workload'.hash = ComputeConfigHash(server.spec, objects)'
          /\ RefsGood(server.spec)' /\ ConfigGood(server.spec)'
      BY <1>1, <1>6, <3>1, <3>2, <3>3, StepKeeps, SameGood
    <3>5. TemplateRight(server.spec)'
      BY <3>4 DEF TemplateRight
    <3>6. QED
      BY <2>1, <3>4, <3>5 DEF Informed, Settled
  <2>4. QED
    BY <2>2, <2>3
<1>7. QED
  BY <1>2, <1>3, <1>4, <1>5, <1>6 DEF ReconcileDeployment, Updated, WithWorkload

-----------------------------------------------------------------------------
(* What is observed of the workload. *)

\* A condition has the reason and the message it is given.
LEMMA ConditionFields ==
    ASSUME NEW reason, NEW message
    PROVE  /\ Condition(reason, message).reason = reason
           /\ Condition(reason, message).message = message
BY DEF Condition

\* The first failure of a failing pod is a failure.
LEMMA FailureRecord == ASSUME NEW pod, Fails(pod) PROVE IsFailure(FirstFailure(pod))
<1>1. ASSUME NEW cs, NEW init, ClassifyContainer(cs, init) # None
      PROVE  IsFailure(ClassifyContainer(cs, init))
  <2>1. ClassifyContainer(cs, init) \in
          {Failure(cs, init, "ImagePull", cs.detail, None),
           Failure(cs, init, "CrashLoop", None, cs.lastExit),
           Failure(cs, init, "ConfigError", cs.detail, None),
           Failure(cs, init, "OOMKilled", None, cs.exit),
           Failure(cs, init, "NotReady", None, None)}
    BY <1>1 DEF ClassifyContainer
  <2>2. \A k, d, e : IsFailure(Failure(cs, init, k, d, e))
    BY DEF IsFailure, Failure
  <2>3. QED
    BY <2>1, <2>2
<1>2. QED
  BY <1>1 DEF Fails, FirstFailure

\* A message about pods names one that fails so, or there is none that fails.
LEMMA Messages ==
    ASSUME NEW m \in PodFailureMessages(cpods)
    PROVE  \/ m = <<"none">> /\ ~\E p \in Pods : Fails(cpods[p])
           \/ /\ m[1] = "pod" /\ m # <<"none">> /\ m[2] \in Pods /\ IsFailure(m[3])
              /\ Fails(cpods[m[2]])
              /\ Signature(FirstFailure(cpods[m[2]])) = Signature(m[3])
<1>1. CASE ~\E p \in Pods : Fails(cpods[p])
  BY <1>1 DEF PodFailureMessages
<1>2. CASE \E p \in Pods : Fails(cpods[p])
  <2>1. PICK p \in Pods : Fails(cpods[p]) /\ m = <<"pod", p, FirstFailure(cpods[p])>>
    BY <1>2 DEF PodFailureMessages
  <2>2. m[1] = "pod" /\ m[2] = p /\ m[3] = FirstFailure(cpods[p]) /\ m # <<"none">>
    BY <2>1
  <2>3. QED
    BY <2>1, <2>2, FailureRecord
<1>3. QED
  BY <1>1, <1>2

\* A message that names no pod is right where no failure has to be named.
LEMMA OtherMessage ==
    ASSUME NEW m, m[1] # "pod",
           \/ workload.kind # "Deployment" \/ ~(workload.replicas > 0)
           \/ workload.observed # workload.generation
           \/ workload.conditions = None \/ workload.ready # 0
           \/ ~(workload.conditions.progressing \/ ~workload.conditions.available)
           \/ ~\E p \in Pods : Fails(cpods[p])
    PROVE  DiagnosisRight(m)
BY DEF DiagnosisRight

\* What is concluded of a Deployment and its pods is right.
LEMMA ObservedDeployment ==
    ASSUME IsWorkload(workload), workload.kind = "Deployment",
           NEW c \in ReconcileAvailableCondition(workload, cpods)
    PROVE  AvailabilityRight(c) /\ DiagnosisRight(c.message)
<1> DEFINE w == workload
           state == DeploymentState(w)
<1>1. /\ w.replicas = 0 <=> ~(w.replicas > 0)
      /\ w.ready = 0 <=> ~(w.ready > 0)
      /\ w.observed = 0 <=> ~(w.observed > 0)
      /\ w.observed = w.generation <=> ~(w.observed < w.generation)
      /\ w.observed = 0 => w.observed # w.generation /\ w.conditions = None
  BY WorkloadParts, SMTT(60) DEF IsWorkload
<1>2. /\ <<"none">>[1] # "pod" /\ <<"processing">>[1] # "pod" /\ <<"waiting">>[1] # "pod"
      /\ <<"no details">>[1] # "pod"
  OBVIOUS
<1>3. IF w.conditions = None THEN state.available = FALSE /\ state.progressing = FALSE
      ELSE state = w.conditions
  BY DEF DeploymentState
<1>4. CASE w.replicas = 0
  <2>1. c = Condition("ScaledToZero", <<"none">>)
    BY <1>4 DEF ReconcileAvailableCondition
  <2>2. c.reason = "ScaledToZero" /\ c.message = <<"none">>
    BY <2>1, ConditionFields
  <2>3. QED
    BY <1>1, <1>2, <1>4, <2>2, OtherMessage DEF AvailabilityRight
<1>5. CASE w.replicas # 0 /\ Unreported(w)
  <2>1. c = Condition("Initializing", <<"none">>)
    BY <1>5 DEF ReconcileAvailableCondition
  <2>2. c.reason = "Initializing" /\ c.message = <<"none">>
    BY <2>1, ConditionFields
  <2>3. QED
    BY <1>2, <1>5, <2>2, OtherMessage DEF AvailabilityRight, Unreported
<1>6. CASE w.replicas # 0 /\ ~Unreported(w) /\ w.observed > 0 /\ Pending(w)
  <2>1. c = Unavailable(<<"processing">>)
    BY <1>6 DEF ReconcileAvailableCondition
  <2>2. c.reason = "WorkloadUnavailable" /\ c.message = <<"processing">>
    BY <2>1, ConditionFields DEF Unavailable
  <2>3. QED
    BY <1>1, <1>2, <1>6, <2>2, OtherMessage DEF AvailabilityRight, Pending
<1>7. CASE /\ w.replicas # 0 /\ ~Unreported(w) /\ ~(w.observed > 0 /\ Pending(w))
           /\ state.available /\ w.ready > 0
  <2>1. c = Condition("Available", <<"none">>)
    BY <1>7 DEF ReconcileAvailableCondition
  <2>2. c.reason = "Available" /\ c.message = <<"none">>
    BY <2>1, ConditionFields
  <2>3. w.conditions # None /\ w.conditions.available /\ w.observed = w.generation /\ w.ready # 0
    BY <1>1, <1>3, <1>7 DEF Pending
  <2>4. DiagnosisRight(c.message)
    BY <1>2, <2>2, <2>3, OtherMessage
  <2>5. AvailabilityRight(c)
    BY <1>1, <1>7, <2>2, <2>3 DEF AvailabilityRight
  <2>6. QED
    BY <2>4, <2>5
<1>8. CASE /\ w.replicas # 0 /\ ~Unreported(w) /\ ~(w.observed > 0 /\ Pending(w))
           /\ ~(state.available /\ w.ready > 0)
  <2>1. PICK m \in PodFailureMessages(cpods) :
          c = IF ~FailurePath(state, w, m) THEN Unavailable(<<"waiting">>)
              ELSE IF m = <<"none">> THEN Unavailable(<<"no details">>)
              ELSE Unavailable(m)
    BY <1>8 DEF ReconcileAvailableCondition
  <2>2. c.reason = "WorkloadUnavailable"
    BY <2>1, ConditionFields DEF Unavailable
  <2>3. c.message = IF ~FailurePath(state, w, m) THEN <<"waiting">>
                    ELSE IF m = <<"none">> THEN <<"no details">> ELSE m
    BY <2>1, ConditionFields DEF Unavailable
  <2>4. AvailabilityRight(c)
    BY <1>1, <1>3, <1>8, <2>2 DEF AvailabilityRight
  <2>5. CASE ~FailurePath(state, w, m)
    <3>1. \/ w.conditions = None \/ w.ready # 0
          \/ ~(w.conditions.progressing \/ ~w.conditions.available)
          \/ ~\E p \in Pods : Fails(cpods[p])
      BY <1>3, <2>5, Messages DEF FailurePath
    <3>2. QED
      BY <1>2, <2>3, <2>4, <2>5, <3>1, OtherMessage
  <2>6. CASE FailurePath(state, w, m) /\ m = <<"none">>
    <3>1. ~\E p \in Pods : Fails(cpods[p])
      BY <2>6, Messages
    <3>2. QED
      BY <1>2, <2>3, <2>4, <2>6, <3>1, OtherMessage
  <2>7. CASE FailurePath(state, w, m) /\ m # <<"none">>
    BY <2>3, <2>4, <2>7, Messages DEF DiagnosisRight
  <2>8. QED
    BY <2>5, <2>6, <2>7
<1>9. QED
  BY <1>4, <1>5, <1>6, <1>7, <1>8

\* So is what is concluded of a DaemonSet or a StatefulSet.
LEMMA ObservedOther ==
    ASSUME IsWorkload(workload), workload.kind # "Deployment",
           NEW c, c = IF workload.kind = "DaemonSet" THEN DaemonSetAvailability(workload)
                      ELSE StatefulSetAvailability(workload)
    PROVE  AvailabilityRight(c) /\ DiagnosisRight(c.message)
<1> DEFINE w == workload
<1>1. /\ w.replicas = 0 <=> ~(w.replicas > 0)
      /\ w.observed = w.generation <=> ~(w.observed < w.generation)
  BY WorkloadParts, SMTT(60) DEF IsWorkload
<1>2. /\ Instances(w).reason = IF w.available > 0 THEN "Available" ELSE "WorkloadUnavailable"
      /\ Instances(w).message[1] # "pod"
  BY DEF Instances, Unavailable, Condition
<1>3. /\ WorkloadProgressCondition(w).reason \notin {"Available", "ScaledToZero"}
      /\ WorkloadProgressCondition(w).message[1] # "pod"
  BY DEF WorkloadProgressCondition, Unavailable, Condition
<1>4. CASE w.kind = "DaemonSet"
  <2>1. /\ (c.reason = "Available") <=>
              w.replicas > 0 /\ w.observed = w.generation /\ w.available > 0
        /\ c.reason # "ScaledToZero" /\ c.message[1] # "pod"
    BY <1>1, <1>2, <1>3, <1>4 DEF DaemonSetAvailability, Pending, Unavailable, Condition
  <2>2. QED
    BY <1>4, <2>1, OtherMessage DEF AvailabilityRight
<1>5. CASE w.kind # "DaemonSet"
  <2>1. /\ (c.reason = "Available") <=>
              w.replicas > 0 /\ w.observed = w.generation /\ w.available > 0
        /\ (c.reason = "ScaledToZero") <=> w.replicas = 0
        /\ c.message[1] # "pod"
    BY <1>1, <1>2, <1>3, <1>5 DEF StatefulSetAvailability, Pending, Condition
  <2>2. QED
    BY <1>5, <2>1, OtherMessage DEF AvailabilityRight
<1>6. QED
  BY <1>4, <1>5

\* So is what is concluded of any workload.
LEMMA ObservationIsRight ==
    ASSUME IsWorkload(workload), NEW c \in ObserveWorkload(workload, cpods)
    PROVE  AvailabilityRight(c) /\ DiagnosisRight(c.message)
<1>1. CASE workload.kind = "Deployment"
  <2>1. ObserveWorkload(workload, cpods) = ReconcileAvailableCondition(workload, cpods)
    BY <1>1 DEF ObserveWorkload
  <2>2. QED
    BY <1>1, <2>1, ObservedDeployment
<1>2. CASE workload.kind = "DaemonSet"
  <2>1. c = DaemonSetAvailability(workload)
    BY <1>2 DEF ObserveWorkload
  <2>2. QED
    BY <1>2, <2>1, ObservedOther
<1>3. CASE workload.kind = "StatefulSet"
  <2>1. c = StatefulSetAvailability(workload)
    BY <1>3 DEF ObserveWorkload
  <2>2. QED
    BY <1>3, <2>1, ObservedOther
<1>4. QED
  BY <1>1, <1>2, <1>3, WorkloadParts

\* The draft says what is so, or an event is on its way.
LEMMA ObserveConverges ==
    ASSUME ConvergenceInv, Observe PROVE ClusterOK' /\ Informed' /\ Settled'
<1>1. /\ Step("observe") /\ NoWrite /\ UNCHANGED <<status, service>>
      /\ pc' = "service" /\ queued' = queued
  BY DEF Observe, NoWrite, Goto
<1>2. PICK c \in ObserveWorkload(work.workload, cpods) :
        work' = WithVerdict(work, Verdict("True", c, work.server.generation))
  BY DEF Observe, WithVerdict
<1>3. ClusterOK'
  BY <1>1, StepKeeps
<1>4. CASE Coming
  BY <1>1, <1>3, <1>4, StepKeeps, Repeated
<1>5. CASE ~Coming
  <2> DEFINE d == Verdict("True", c, work.server.generation)
  <2>1. d.accepted = "True" /\ d.available = c /\ d.generation = work.server.generation
    BY DEF Verdict
  <2> HIDE DEF d
  <2>2. work'.server = work.server /\ work'.workload = work.workload /\ work'.draft = d
    BY <1>2, WorkFields, HeldFields, SMTT(60) DEF NetworkInv, ConvergenceInv, d
  <2>3. /\ work.server = server /\ IsSpec(server.spec) /\ RefsGood(server.spec)
        /\ ConfigGood(server.spec) /\ work.workload = workload /\ workload # None
        /\ TemplateRight(server.spec)
    BY <1>1, <1>5, SpecOK DEF Step, ConvergenceInv, Informed
  <2>4. AvailabilityRight(c) /\ DiagnosisRight(c.message)
    BY <1>2, <2>3, ObservationIsRight DEF ConvergenceInv, ClusterOK
  <2>5. PICK e : e = d
    OBVIOUS
  <2>6. Observed(e)
    BY <2>1, <2>3, <2>4, <2>5 DEF Observed
  <2>7. Observed(e)'
    BY <1>1, <2>3, <2>6, StepKeeps, SameObserved
  <2>8. Observed(work.draft)'
    BY <2>2, <2>5, <2>7 DEF Observed
  <2>9. work'.server = server' /\ work'.workload = workload' /\ workload' # None
    BY <1>1, <2>2, <2>3, StepKeeps
  <2>10. work'.draft.accepted = "True" /\ work'.draft.generation = server'.generation
    BY <2>1, <2>2, <2>9
  <2>11. RefsGood(server.spec)' /\ ConfigGood(server.spec)' /\ TemplateRight(server.spec)'
    BY <1>1, <2>3, <2>8, StepKeeps, SameGood DEF Observed
  <2>12. QED
    BY <1>1, <1>3, <2>8, <2>9, <2>10, <2>11 DEF Informed, Settled
<1>6. QED
  BY <1>4, <1>5

\* The Service selects what the selector of the workload does.
LEMMA ServiceConverges ==
    ASSUME ConvergenceInv, ReconcileService PROVE ClusterOK' /\ Informed' /\ Settled'
<1> DEFINE spec == work.server.spec
<1>1. Step("service") /\ NoWrite
  BY DEF ReconcileService, NoWrite
<1>2. ClusterOK'
  BY <1>1, StepKeeps
<1>3. CASE ServiceFails
  BY <1>1, <1>2, <1>3, ReportedAndRetried DEF ServiceFails
<1>4. CASE /\ IF spec.serviceRef THEN service' = None
              ELSE service' = IF IsManaged(spec) THEN ManagedLabels
                              ELSE work.workload.selector.labels
           /\ Goto("apply") /\ work' = work
  <2>1. pc' = "apply" /\ queued' = queued /\ work' = work
    BY <1>4 DEF Goto
  <2>2. CASE Coming
    BY <1>1, <1>2, <2>1, <2>2, StepKeeps, Repeated
  <2>3. CASE ~Coming
    <3>1. /\ work.server = server /\ IsSpec(server.spec) /\ RefsGood(server.spec)
          /\ ConfigGood(server.spec) /\ work.workload = workload /\ workload # None
      BY <1>1, <2>3, SpecOK DEF Step, ConvergenceInv, Informed
    <3>2. /\ work.draft.accepted = "True" /\ work.draft.generation = server.generation
          /\ Observed(work.draft)
      BY <1>1, <2>3 DEF Step, ConvergenceInv, Informed
    <3>3. ASSUME ~server.spec.serviceRef
          PROVE  workload.selector = [labels |-> service', expressions |-> None]
      <4>1. CASE IsManaged(server.spec)
        BY <1>4, <3>1, <3>3, <4>1 DEF ConvergenceInv, ClusterOK, IsOperators
      <4>2. CASE ~IsManaged(server.spec)
        <5>1. service' = workload.selector.labels /\ workload.selector.expressions = None
          BY <1>4, <3>1, <3>3, <4>2 DEF RefsGood
        <5>2. workload.selector \in [labels : {workload.selector.labels},
                                     expressions : {workload.selector.expressions}]
          BY <3>1, WorkloadParts DEF ConvergenceInv, ClusterOK
        <5>3. QED
          BY <5>1, <5>2
      <4>3. QED
        BY <4>1, <4>2
    <3>4. ServiceRight(server.spec)'
      BY <1>1, <1>4, <3>1, <3>3, StepKeeps DEF ServiceRight
    <3>5. PICK e : e = work.draft
      OBVIOUS
    <3>6. Observed(e)'
      BY <1>1, <3>1, <3>2, <3>5, StepKeeps, SameObserved
    <3>7. Observed(work.draft)'
      BY <2>1, <3>5, <3>6 DEF Observed
    <3>8. RefsGood(server.spec)' /\ ConfigGood(server.spec)' /\ UNCHANGED server
      BY <1>1, <3>1, StepKeeps, SameGood
    <3>9. Right(work.draft)'
      BY <2>1, <3>2, <3>4, <3>7, <3>8 DEF Right
    <3>10. QED
      BY <1>2, <2>1, <3>1, <3>8, <3>9 DEF Informed, Settled
  <2>4. QED
    BY <2>2, <2>3
<1>5. QED
  BY <1>3, <1>4 DEF ReconcileService

\* The status that is applied is right, or the reconcile is repeated.
LEMMA ApplyConverges ==
    ASSUME ConvergenceInv, ApplyStatus PROVE ClusterOK' /\ Informed' /\ Settled'
<1>1. Step("apply") /\ NoWrite /\ UNCHANGED service
  BY DEF ApplyStatus, NoWrite
<1>2. ClusterOK'
  BY <1>1, StepKeeps
<1>3. CASE Finish(TRUE)
  BY <1>2, <1>3, Retried
<1>4. CASE status' = work.draft /\ Finish(work.again)
  <2>1. pc' = "idle" /\ queued' = (queued \/ work.again)
    BY <1>4 DEF Finish
  <2>2. CASE Coming
    BY <1>1, <1>2, <2>1, <2>2, StepKeeps, Repeated
  <2>3. CASE work.again
    <3>1. Coming'
      BY <2>1, <2>3 DEF Coming
    <3>2. QED
      BY <1>2, <3>1, Repeated
  <2>4. CASE ~Coming /\ ~work.again
    <3>1. Right(work.draft) /\ IsSpec(server.spec)
      BY <1>1, <2>4, SpecOK DEF Step, ConvergenceInv, Informed
    <3>2. PICK e : e = work.draft
      OBVIOUS
    <3>3. Right(e)'
      BY <1>1, <3>1, <3>2, StepKeeps, SameRight
    <3>4. Right(status)'
      BY <1>4, <3>2, <3>3 DEF Right, Observed
    <3>5. QED
      BY <1>2, <2>1, <3>4 DEF Informed, Settled
  <2>5. QED
    BY <2>2, <2>3, <2>4
<1>5. QED
  BY <1>3, <1>4 DEF ApplyStatus

\* Every step keeps the invariant.
LEMMA ConvergenceStep == ConvergenceInv /\ [Next]_vars => ConvergenceInv'
<1> SUFFICES ASSUME ConvergenceInv, [Next]_vars PROVE ConvergenceInv'
  OBVIOUS
<1>1. NetworkInv'
  BY InvNext DEF ConvergenceInv
<1>2. UNCHANGED world
  BY DEF Next, Reconcile, Deliver, Environment, Fetch, Resolve, ValidateRest,
     ApplyConfigHash, ReconcileDeployment, Observe, ReconcileService, ApplyStatus, Step,
     SyncServer, SyncWorkload, DeliverObject, SyncPod, EditSpec, ChangeObject, ChangeWorkload,
     ReportWorkload, ChangePod, Restart, vars
<1>3. WorldOK'
  BY <1>2, WorldKept DEF ConvergenceInv
<1>4. ClusterOK' /\ Informed' /\ Settled'
  <2>1. CASE Reconcile
    BY <2>1, FetchConverges, ResolveConverges, ValidateConverges, HashConverges,
       DeploymentConverges, ObserveConverges, ServiceConverges, ApplyConverges DEF Reconcile
  <2>2. CASE Deliver
    BY <2>2, SyncServerConverges, SyncWorkloadConverges, DeliverConverges, SyncPodConverges,
       Repeated DEF Deliver
  <2>3. CASE Environment
    BY <2>3, EditConverges, ChangeObjectConverges, ChangeWorkloadConverges, ReportConverges,
       ChangePodConverges, Repeated DEF Environment
  <2>4. CASE Restart
    BY <2>4, RestartConverges, Repeated
  <2>5. CASE UNCHANGED vars
    <3>1. UNCHANGED <<world, server, objects, workload, pods, status, service, cserver, cdeploy,
                      cpods, changed, queued, pc, work>>
      BY <2>5 DEF vars, clusterVars, cacheVars
    <3>2. ClusterOK'
      BY <3>1 DEF ConvergenceInv, ClusterOK
    <3>3. Coming => Coming'
      BY <3>1 DEF Coming
    <3>4. QED
      BY <3>1, <3>2, <3>3, Unchanging, UnchangingPods, Undisturbed DEF ConvergenceInv
  <2>6. QED
    BY <2>1, <2>2, <2>3, <2>4, <2>5 DEF Next
<1>5. QED
  BY <1>1, <1>3, <1>4 DEF ConvergenceInv

-----------------------------------------------------------------------------
(* The controller at rest. *)

\* At rest the status is right for a spec the world offers.
LEMMA AtRest == ASSUME ConvergenceInv, Quiet PROVE Right(status) /\ IsSpec(server.spec)
<1>1. ~Coming
  BY DEF Quiet, Coming
<1>2. QED
  BY <1>1, SpecOK DEF Quiet, ConvergenceInv, Settled

\* A right status says truly whether the spec is accepted.
LEMMA RestingAccepted == ConvergenceInv => QuietAcceptedIsCurrent
BY AtRest, GoodIsAcceptable DEF QuietAcceptedIsCurrent, Right

\* It says truly whether the workload is available.
LEMMA RestingAvailability == ConvergenceInv => QuietAvailabilityIsCurrent
BY AtRest DEF QuietAvailabilityIsCurrent, Right, Observed, AvailabilityRight

\* With it the Service selects the workload.
LEMMA RestingService == ConvergenceInv => QuietServiceSelectsWorkload
BY AtRest DEF QuietServiceSelectsWorkload, Right, ServiceRight

\* The same signature is the same failure, but for the restarts.
LEMMA SameButRestarts ==
    ASSUME NEW f, NEW g, IsFailure(f), IsFailure(g), Signature(f) = Signature(g)
    PROVE  [f EXCEPT !.restarts = 0] = [g EXCEPT !.restarts = 0]
<1> DEFINE R == [kind : {f.kind}, init : {f.init}, image : {f.image}, detail : {f.detail},
                 exit : {f.exit}, restarts : {0}]
<1>1. /\ f.kind = g.kind /\ f.init = g.init /\ f.image = g.image /\ f.detail = g.detail
      /\ f.exit = g.exit
  BY DEF Signature
<1>2. [f EXCEPT !.restarts = 0] \in R
  BY DEF IsFailure
<1>3. [g EXCEPT !.restarts = 0] \in R
  BY <1>1 DEF IsFailure
<1>4. \A x, y \in R : x = y
  BY SMTT(60)
<1>5. QED
  BY <1>2, <1>3, <1>4

\* The pod that it names fails as it says.
LEMMA RestingDiagnosis == ConvergenceInv => QuietDiagnosisIsCurrent
<1> SUFFICES ASSUME ConvergenceInv, Quiet, status.accepted = "True" PROVE QuietDiagnosisIsCurrent
  BY DEF QuietDiagnosisIsCurrent
<1> DEFINE m == status.available.message
<1>1. DiagnosisRight(m) /\ \A p \in Pods : cpods[p] = Visible(pods[p])
  BY AtRest DEF Right, Observed, Quiet
<1>2. ASSUME m[1] = "pod"
      PROVE  /\ pods[m[2]] # None /\ pods[m[2]].labelled
             /\ [FirstFailure(pods[m[2]]) EXCEPT !.restarts = 0] = [m[3] EXCEPT !.restarts = 0]
  <2>1. /\ m[2] \in Pods /\ IsFailure(m[3]) /\ Fails(Visible(pods[m[2]]))
        /\ Signature(FirstFailure(Visible(pods[m[2]]))) = Signature(m[3])
    BY <1>1, <1>2 DEF DiagnosisRight
  <2>2. pods[m[2]] # None /\ pods[m[2]].labelled /\ Visible(pods[m[2]]) = pods[m[2]]
    BY <2>1 DEF Visible, Fails
  <2>3. IsFailure(FirstFailure(pods[m[2]]))
    BY <2>1, <2>2, FailureRecord
  <2>4. QED
    BY <2>1, <2>2, <2>3, SameButRestarts
<1>3. (\E p \in Pods : Fails(Visible(pods[p]))) => \E p \in Pods : Fails(cpods[p])
  BY <1>1
<1>4. QED
  BY <1>1, <1>2, <1>3 DEF QuietDiagnosisIsCurrent, DiagnosisRight

\* With it the pod template has the hash of what the pods read.
LEMMA RestingTemplate == ConvergenceInv => QuietTemplateIsCurrent
<1> SUFFICES ASSUME ConvergenceInv, Quiet, status.accepted = "True", IsManaged(server.spec)
             PROVE  QuietTemplateIsCurrent
  BY DEF QuietTemplateIsCurrent
<1> DEFINE spec == server.spec
           refs == {<<m.type, m.ref.name>> : m \in {m \in Range(spec.storage) :
                                                       m.type # "EmptyDir"}}
                   \cup EnvReferences(spec)
           found == {o \in PodReferences(spec) : objects[o] # "NotFound"}
           D == {o \in found : objects[o] # "empty"}
<1>1. /\ IsSpec(spec) /\ ConfigGood(spec)
      /\ workload.hash = ComputeConfigHash(spec, objects)
  BY AtRest DEF Right, Observed, TemplateRight
<1>2. refs = PodReferences(spec)
  <2>1. {m \in Range(spec.storage) : m.type # "EmptyDir"}
           = {m \in Range(spec.storage) : m.type # "EmptyDir" /\ m.ref # None}
    BY <1>1 DEF IsSpec
  <2>2. QED
    BY <2>1 DEF PodReferences
<1>3. PodReferences(spec) \subseteq Objects
  <2>1. \A m \in Range(spec.storage) : m.type # "EmptyDir" => <<m.type, m.ref.name>> \in Read(spec)
    BY <1>1, ReferencesOf DEF ConfigGood, MountGood
  <2>2. EnvReferences(spec) \subseteq Read(spec)
    BY DEF Read
  <2>3. Read(spec) \subseteq Objects
    BY DEF ConvergenceInv, WorldOK, NetworkInv
  <2>4. QED
    BY <1>2, <2>1, <2>2, <2>3
<1>4. D \in SUBSET Objects
  BY <1>3
<1>5. CASE found = {}
  <2>1. workload.hash = None
    BY <1>1, <1>5 DEF ComputeConfigHash
  <2>2. QED
    BY <1>2, <1>5, <2>1 DEF QuietTemplateIsCurrent
<1>6. CASE found # {}
  <2>1. workload.hash = [o \in D |-> objects[o]]
    BY <1>1, <1>6 DEF ComputeConfigHash
  <2>2. [o \in D |-> objects[o]] \in [D -> STRING]
    BY <1>4 DEF ConvergenceInv, ClusterOK
  <2>3. workload.hash # None
    BY <1>4, <2>1, <2>2, ObjectsAssumption
  <2>4. DOMAIN workload.hash = D /\ \A o \in D : workload.hash[o] = objects[o]
    BY <2>1
  <2>5. QED
    BY <1>2, <1>6, <2>3, <2>4 DEF QuietTemplateIsCurrent
<1>7. QED
  BY <1>5, <1>6

\* In every behaviour, whatever the user and the cluster change and whenever the
\* operator is restarted: unless a reconcile is due or an event that makes one
\* due is on its way, a reconcile knows what it goes by, and the status that was
\* written is that of the spec, of what it refers to and of the workload as they
\* now are (the order of the reads and writes of Reconcile, and the watches of
\* SetupWithManager).
THEOREM WorkloadConvergence == Spec => []ConvergenceInv
<1>1. Init => ConvergenceInv
  BY ConvergenceInit
<1>2. ConvergenceInv /\ [Next]_vars => ConvergenceInv'
  BY ConvergenceStep
<1>3. QED
  BY <1>1, <1>2, PTL DEF Spec

\* At rest, Accepted is True if and only if the spec is well formed and what it
\* refers to is there (classifyAPIError and the watches of what is referred to).
THEOREM AcceptedAtRest == Spec => []QuietAcceptedIsCurrent
  BY WorkloadConvergence, RestingAccepted, PTL

\* At rest, Available is that of the workload (reconcileAvailableCondition and
\* the availability of the other kinds).
THEOREM AvailabilityAtRest == Spec => []QuietAvailabilityIsCurrent
  BY WorkloadConvergence, RestingAvailability, PTL

\* At rest, a pod that is named fails as it is said to, and one that has to be
\* named is (podDiagnosticsChangedPredicate, getPodFailureMessage).
THEOREM DiagnosisAtRest == Spec => []QuietDiagnosisIsCurrent
  BY WorkloadConvergence, RestingDiagnosis, PTL

\* At rest, the Service selects the pods of the workload (validateWorkloadRef and
\* reconcileService).
THEOREM ServiceAtRest == Spec => []QuietServiceSelectsWorkload
  BY WorkloadConvergence, RestingService, PTL

\* At rest, the pod template has the hash of what its ConfigMaps and Secrets now
\* hold (computeConfigHash and the field index).
THEOREM TemplateAtRest == Spec => []QuietTemplateIsCurrent
  BY WorkloadConvergence, RestingTemplate, PTL
=============================================================================
