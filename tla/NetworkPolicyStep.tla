-------------------------- MODULE NetworkPolicyStep --------------------------
(***************************************************************************)
(* The NetworkPolicy step of the MCPServer controller: the policy it       *)
(* derives from spec.network, from the operator's startup flags and from   *)
(* the gateway ConfigMap, the custom labels it carries, and the condition  *)
(* NetworkPolicyRestricted that tells an administrator what it does.       *)
(*                                                                         *)
(* A peer is described by what it selects: the addresses of an IP block,   *)
(* without those of its exceptions; pods, all or some; namespaces, all or  *)
(* one by its name.  Rules are sets: their order has no meaning.           *)
(* Annotations are treated as labels are and are not modelled apart.       *)
(***************************************************************************)
EXTENDS Integers

CONSTANTS
    None,
    Namespaces,      \* namespaces a gateway ConfigMap may name
    Addresses, Ports,
    Blocks,          \* the sets of addresses that one CIDR spans
    Families,        \* those of prefix length zero: IPv4 and IPv6
    Keys, Reserved,  \* label keys, and those the operator keeps to itself
    Values,
    Specs,           \* specs of the MCPServer
    Flags,           \* startup flags of the operator
    Configs,         \* contents of the gateway ConfigMap
    MaxWrites, MaxDisturbances

Selected == {None, "all", "some"}

Peers == [block : Blocks \cup {None}, except : SUBSET Addresses, pods : Selected,
          ns : {None, "all", "operator"} \cup Namespaces]

Labels(keys) == [keys -> Values \cup {None}]

SpecType == [ingressFrom : SUBSET Peers, egressTo : SUBSET Peers,
             egressPorts : SUBSET Ports, dns : Peers \cup {None},
             provider : {None, "httproute", "kuadrant", "other"},
             extra : Labels(Keys)]

ConfigKeys == {"gateway-namespace", "extension-namespace"}

\* A CIDR spans some address, and none spans a family and more.
ASSUME AddressAssumption ==
    /\ None \notin Blocks /\ Blocks \subseteq (SUBSET Addresses) \ {{}}
    /\ Families \subseteq Blocks /\ Families # {}
    /\ \A family \in Families, b \in Blocks : family \subseteq b => b = family
    /\ {"server", "dns"} \subseteq Ports

ASSUME PolicyAssumption ==
    /\ Reserved \subseteq Keys /\ None \notin Values
    /\ {None, "all", "elsewhere"} \cap Namespaces = {}
    /\ None \notin {"all", "some", "own", "operator", "elsewhere", "httproute", "kuadrant"}
    /\ Specs \subseteq SpecType
    /\ Flags \subseteq [posture : {"open", "restricted"}, identity : BOOLEAN]
    /\ Configs \subseteq [ConfigKeys -> Namespaces \cup {None}]
    /\ MaxWrites \in Nat \ {0} /\ MaxDisturbances \in Nat

VARIABLES
    server,       \* the MCPServer: generation, spec, condition, last outcome
    config,       \* the gateway ConfigMap; an absent one has no keys
    policy,       \* the NetworkPolicy
    touched,      \* its labels that somebody else wrote
    flags,        \* of the running operator
    cserver, cpolicy, cpolicyFresh,
    changed,      \* a ConfigMap event is still to be delivered
    owned,        \* so is one of Owns(NetworkPolicy)
    queued, pc, work, disturbances

vars == <<server, config, policy, touched, flags, cserver, cpolicy,
          cpolicyFresh, changed, owned, queued, pc, work, disturbances>>

-----------------------------------------------------------------------------
(* The policy an MCPServer calls for. *)

Peer(pods, ns) == [block |-> None, except |-> {}, pods |-> pods, ns |-> ns]

NamespaceNamePeer(ns) == Peer(None, ns)

\* validateNetworkPolicyPeer: something is selected, and not in two ways, and
\* exceptions are within their block.
ValidPeer(p) ==
    /\ <<p.block, p.pods, p.ns>> # <<None, None, None>>
    /\ p.block # None => p.pods = None /\ p.ns = None /\ p.except \subseteq p.block

ValidSpec(s) ==
    \A p \in s.ingressFrom \cup s.egressTo \cup ({s.dns} \ {None}) : ValidPeer(p)

DerivesPeers(s, f) == f.posture = "restricted" /\ s.ingressFrom = {}

\* Variant: every pod of the operator's namespace is let in.
OperatorNamespacePeers(s, f) ==
    IF DerivesPeers(s, f) /\ f.identity THEN {NamespaceNamePeer("operator")} ELSE {}

\* The operator's own pods, told apart by namespace and labels; nobody if
\* either is unknown.
OperatorIngressPeers(s, f) ==
    IF DerivesPeers(s, f) /\ f.identity THEN {Peer("some", "operator")} ELSE {}

\* The namespace of the gateway's data plane, where the ConfigMap names it.
GatewayNamespace(s, c) ==
    CASE s.provider = "httproute" -> c["gateway-namespace"]
      [] s.provider = "kuadrant"  -> c["extension-namespace"]
      [] OTHER                    -> None

GatewayIngressPeers(s, f, c) ==
    IF DerivesPeers(s, f) /\ GatewayNamespace(s, c) # None
    THEN {NamespaceNamePeer(GatewayNamespace(s, c))} ELSE {}

\* No ports are all ports, and no peers everybody.
Rule(ports, peers) == [ports |-> ports, peers |-> peers]

DefaultIngressRules(s, f, derived) ==
    IF s.ingressFrom # {} THEN {Rule({"server"}, s.ingressFrom)}
    ELSE IF f.posture = "restricted"
         THEN IF derived = {} THEN {} ELSE {Rule({"server"}, derived)}
         ELSE {Rule({"server"}, {})}

BuildEgressRules(s) ==
    IF s.egressTo = {} /\ s.egressPorts = {} THEN {Rule({}, {})}
    ELSE {Rule({"dns"}, {s.dns} \ {None}), Rule(s.egressPorts, s.egressTo)}

Derived(s, f, c) == OperatorIngressPeers(s, f) \cup GatewayIngressPeers(s, f, c)

-----------------------------------------------------------------------------
(* What the condition says of a policy. *)

PeerRestrictsSource(p) ==
    IF p.block # None THEN p.except # {} \/ p.block \notin Families
    ELSE \/ p.pods = "some"
         \/ p.ns \notin {None, "all"}
         \/ p.pods = "all" /\ p.ns = None

\* Variant: one narrow peer is enough.
HasSomeSourceRestriction(ingress) ==
    \/ ingress = {}
    \/ \E r \in ingress : r.ports # {} /\ \E p \in r.peers : PeerRestrictsSource(p)

HasIngressSourceRestriction(ingress) ==
    \/ ingress = {}
    \/ \E r \in ingress :
         /\ r.ports # {}
         /\ r.peers # {} /\ \A p \in r.peers : PeerRestrictsSource(p)

HasEgressDestinationRestriction(egress) ==
    \E r \in egress : r.peers # {} \/ r.ports # {}

Posture(ingress, egress) ==
    CASE HasIngressSourceRestriction(ingress) /\ HasEgressDestinationRestriction(egress)
           -> "Restricted"
      [] HasIngressSourceRestriction(ingress) /\ ~HasEgressDestinationRestriction(egress)
           -> "EgressUnrestricted"
      [] ~HasIngressSourceRestriction(ingress) /\ HasEgressDestinationRestriction(egress)
           -> "IngressUnrestricted"
      [] OTHER -> "Unrestricted"

Postures == {"Restricted", "EgressUnrestricted", "IngressUnrestricted", "Unrestricted"}

-----------------------------------------------------------------------------
(* Custom labels.  The keys set for the user are recorded on the object. *)

NoLabels(keys) == [k \in keys |-> None]

FilterReservedKeys(extra) == [k \in Keys \ Reserved |-> extra[k]]

\* Values are compared in the record, keys in the labels.
ObjectLabelsChanged(s, obj) ==
    LET eff == FilterReservedKeys(s.extra) IN
    \/ eff # obj.tracked
    \/ \E k \in Keys \ Reserved : obj.tracked[k] # None /\ obj.labels[k] = None

\* Variant: keys that are no longer wanted stay.
MergeLabels(s, obj) ==
    LET eff == FilterReservedKeys(s.extra) IN
    [obj EXCEPT !.labels = [k \in Keys |-> IF k \in DOMAIN eff /\ eff[k] # None THEN eff[k]
                                           ELSE obj.labels[k]],
                !.tracked = eff]

ApplyCustomObjectMetadata(s, obj) ==
    LET eff == FilterReservedKeys(s.extra)
        Stale(k) == eff # obj.tracked /\ k \in DOMAIN obj.tracked /\ obj.tracked[k] # None
    IN  [obj EXCEPT !.labels = [k \in Keys |->
                                  IF k \in DOMAIN eff /\ eff[k] # None THEN eff[k]
                                  ELSE IF Stale(k) THEN None ELSE obj.labels[k]],
                    !.tracked = eff]

ManagedLabels == [k \in Keys |-> IF k \in Reserved THEN "operator" ELSE None]

RelabelManaged(obj) ==
    [obj EXCEPT !.labels = [k \in Keys |-> IF k \in Reserved THEN "operator" ELSE @[k]]]

-----------------------------------------------------------------------------
(* State. *)

Rules == [ports : SUBSET Ports, peers : SUBSET Peers]

Policies == [exists : BOOLEAN, ours : BOOLEAN, ingress : SUBSET Rules,
             egress : SUBSET Rules, labels : [Keys -> Values \cup {None, "operator"}],
             tracked : Labels(Keys \ Reserved)]

NoPolicy == [exists |-> FALSE, ours |-> FALSE, ingress |-> {}, egress |-> {},
             labels |-> NoLabels(Keys), tracked |-> NoLabels(Keys \ Reserved)]

CreateNetworkPolicy(s, derived, f) ==
    [exists |-> TRUE, ours |-> TRUE,
     ingress |-> DefaultIngressRules(s, f, derived), egress |-> BuildEgressRules(s),
     labels |-> ManagedLabels, tracked |-> NoLabels(Keys \ Reserved)]

Outcomes == {"none", "invalid", "conflict", "failed", "applied"}

Servers == [gen : Nat, spec : Specs, condition : Postures \cup {"none"}, outcome : Outcomes]

\* The locals: the spec read, the derived peers, the condition to report, how
\* the pass went, and whether it returns an error.
NoWork == [spec |-> None, derived |-> {}, condition |-> "none",
           outcome |-> "none", again |-> FALSE]

Works == [spec : Specs \cup {None}, derived : SUBSET Peers,
          condition : Postures \cup {"none"}, outcome : Outcomes, again : BOOLEAN]

Init ==
    /\ \E s \in Specs :
         server = [gen |-> 1, spec |-> s, condition |-> "none", outcome |-> "none"]
    /\ config \in Configs
    /\ policy = NoPolicy /\ touched = {}
    /\ flags \in Flags
    /\ cserver = server /\ cpolicy = policy /\ cpolicyFresh = TRUE
    /\ changed = FALSE /\ owned = FALSE /\ queued = TRUE
    /\ pc = "idle" /\ work = NoWork
    /\ disturbances = 0

Disturb == disturbances < MaxDisturbances /\ disturbances' = disturbances + 1

-----------------------------------------------------------------------------
(* The API server, its other users, and the informers. *)

EditServer ==
    /\ server.gen < MaxWrites
    /\ \E s \in Specs \ {server.spec} :
         server' = [server EXCEPT !.gen = @ + 1, !.spec = s]
    /\ UNCHANGED <<config, policy, touched, flags, cserver, cpolicy, cpolicyFresh,
                   changed, owned, queued, pc, work, disturbances>>

ConfigMapChanges ==
    /\ Disturb
    /\ config' \in Configs \ {config}
    /\ changed' = TRUE
    /\ UNCHANGED <<server, policy, touched, flags, cserver, cpolicy, cpolicyFresh,
                   owned, queued, pc, work>>

WritePolicy(p) ==
    /\ policy' = p
    /\ cpolicyFresh' = FALSE
    /\ owned' = (owned \/ policy.ours \/ p.ours)

\* Somebody deletes the policy, takes it over, opens it, or writes or removes a
\* label.
PolicyChanges ==
    /\ Disturb /\ policy.exists
    /\ \/ WritePolicy(NoPolicy) /\ touched' = {}
       \/ WritePolicy([policy EXCEPT !.ours = FALSE]) /\ UNCHANGED touched
       \/ WritePolicy([policy EXCEPT !.ingress = {Rule({}, {})}]) /\ UNCHANGED touched
       \/ \E k \in Keys, v \in Values \cup {None} :
            /\ k \in Reserved \/ v # None
            /\ WritePolicy([policy EXCEPT !.labels[k] = v])
            /\ touched' = touched \cup {k}
       \/ \E k \in Keys \ Reserved :
            /\ WritePolicy([policy EXCEPT !.labels[k] = None])
            /\ UNCHANGED touched
    /\ UNCHANGED <<server, config, flags, cserver, cpolicy, changed, queued, pc, work>>

\* The next process may run with other flags.
RestartOperator ==
    /\ Disturb
    /\ flags' \in Flags
    /\ cserver' = server /\ cpolicy' = policy /\ cpolicyFresh' = TRUE
    /\ changed' = FALSE /\ owned' = FALSE /\ queued' = TRUE
    /\ pc' = "idle" /\ work' = NoWork
    /\ UNCHANGED <<server, config, policy, touched>>

\* A change of the status alone does not pass the generation predicate.
SyncServer ==
    /\ cserver # server
    /\ cserver' = server
    /\ queued' = (queued \/ cserver.gen # server.gen)
    /\ UNCHANGED <<server, config, policy, touched, flags, cpolicy, cpolicyFresh,
                   changed, owned, pc, work, disturbances>>

SyncPolicy ==
    /\ ~cpolicyFresh
    /\ cpolicy' = policy /\ cpolicyFresh' = TRUE
    /\ queued' = (queued \/ owned) /\ owned' = FALSE
    /\ UNCHANGED <<server, config, policy, touched, flags, cserver, changed, pc,
                   work, disturbances>>

\* Variant: the gateway ConfigMap is not indexed.
ConfigMapIgnored ==
    /\ changed
    /\ changed' = FALSE
    /\ UNCHANGED <<server, config, policy, touched, flags, cserver, cpolicy,
                   cpolicyFresh, owned, queued, pc, work, disturbances>>

\* The index lists the ConfigMap for every MCPServer with a gateway.
ConfigMapEvent ==
    /\ changed
    /\ changed' = FALSE
    /\ queued' = (queued \/ cserver.spec.provider # None)
    /\ UNCHANGED <<server, config, policy, touched, flags, cserver, cpolicy,
                   cpolicyFresh, owned, pc, work, disturbances>>

-----------------------------------------------------------------------------
(* The worker. *)

Fetch ==
    /\ pc = "idle" /\ queued
    /\ queued' = FALSE
    /\ LET s == cserver.spec
           read == [NoWork EXCEPT !.spec = s, !.condition = cserver.condition]
       IN  IF ValidSpec(s)
           THEN /\ pc' = "apply"
                /\ work' = [read EXCEPT !.derived = Derived(s, flags, config)]
           ELSE /\ pc' = "report"
                /\ work' = [read EXCEPT !.outcome = "invalid"]
    /\ UNCHANGED <<server, config, policy, touched, flags, cserver, cpolicy,
                   cpolicyFresh, changed, owned, disturbances>>

\* handleResourceFailure: the posture read with the MCPServer is carried along.
Fail(outcome) ==
    /\ pc' = "report"
    /\ work' = [work EXCEPT !.outcome = outcome, !.again = (outcome = "failed")]
    /\ UNCHANGED <<policy, touched, cpolicyFresh, owned, queued>>

Applied(netpol) ==
    /\ pc' = "report"
    /\ work' = [work EXCEPT !.outcome = "applied",
                            !.condition = Posture(netpol.ingress, netpol.egress)]
    /\ UNCHANGED queued

UpdatedPolicy(s, netpol) ==
    ApplyCustomObjectMetadata(s, [RelabelManaged(cpolicy) EXCEPT
                                    !.ingress = netpol.ingress, !.egress = netpol.egress])

EnsureNetworkPolicy ==
    /\ pc = "apply"
    /\ LET s == work.spec
           netpol == CreateNetworkPolicy(s, work.derived, flags)
           needsUpdate == \/ cpolicy.ingress # netpol.ingress \/ cpolicy.egress # netpol.egress
                          \/ ObjectLabelsChanged(s, cpolicy)
       IN  \/ /\ ~cpolicy.exists /\ ~policy.exists
              /\ WritePolicy(ApplyCustomObjectMetadata(s, netpol)) /\ touched' = {}
              /\ Applied(netpol)
           \/ ~cpolicy.exists /\ policy.exists /\ Fail("failed")
           \/ cpolicy.exists /\ ~cpolicy.ours /\ Fail("conflict")
           \/ /\ cpolicy.ours /\ ~needsUpdate
              /\ Applied(netpol)
              /\ UNCHANGED <<policy, touched, cpolicyFresh, owned>>
           \/ /\ cpolicy.ours /\ needsUpdate /\ cpolicyFresh
              /\ WritePolicy(UpdatedPolicy(s, netpol))
              /\ touched' = {k \in touched \ Reserved : s.extra[k] = None}
              /\ Applied(netpol)
           \/ cpolicy.ours /\ needsUpdate /\ ~policy.exists /\ Fail("failed")
           \/ /\ cpolicy.ours /\ needsUpdate /\ policy.exists /\ ~cpolicyFresh
              /\ pc' = "idle" /\ work' = NoWork /\ queued' = TRUE
              /\ UNCHANGED <<policy, touched, cpolicyFresh, owned>>
    /\ UNCHANGED <<server, config, flags, cserver, cpolicy, changed, disturbances>>

\* The ConfigMap cannot be read, or the policy not written.
CallFails ==
    /\ Disturb
    /\ pc = "apply" /\ Fail("failed")
    /\ UNCHANGED <<server, config, flags, cserver, cpolicy, changed>>

ApplyStatus ==
    /\ pc = "report"
    /\ server' = [server EXCEPT !.condition = work.condition, !.outcome = work.outcome]
    /\ queued' = (queued \/ work.again)
    /\ pc' = "idle" /\ work' = NoWork
    /\ UNCHANGED <<config, policy, touched, flags, cserver, cpolicy, cpolicyFresh,
                   changed, owned, disturbances>>

ApplyStatusFails ==
    /\ Disturb
    /\ pc = "report"
    /\ pc' = "idle" /\ work' = NoWork /\ queued' = TRUE
    /\ UNCHANGED <<server, config, policy, touched, flags, cserver, cpolicy,
                   cpolicyFresh, changed, owned>>

Next ==
    \/ EditServer \/ ConfigMapChanges \/ PolicyChanges \/ RestartOperator
    \/ SyncServer \/ SyncPolicy \/ ConfigMapEvent
    \/ Fetch \/ EnsureNetworkPolicy \/ CallFails \/ ApplyStatus \/ ApplyStatusFails

Spec == Init /\ [][Next]_vars

-----------------------------------------------------------------------------
(* What rules let through, by the meaning of a NetworkPolicy: the pods and  *)
(* ports, of this server for ingress and of others for egress.  A pod is in  *)
(* the MCPServer's namespace, the operator's, a gateway's or one nobody      *)
(* names; it may bear the labels a selector asks for.                        *)

Pods == [ns : {"own", "operator", "elsewhere"} \cup Namespaces, labelled : BOOLEAN,
         addr : Addresses]

PeerAdmits(p, pod) ==
    IF p.block # None
    THEN pod.addr \in p.block \ p.except
    ELSE /\ p.pods = "some" => pod.labelled
         /\ CASE p.ns = None  -> pod.ns = "own"
              [] p.ns = "all" -> TRUE
              [] OTHER        -> pod.ns = p.ns

RuleAdmits(r, pod, port) ==
    /\ r.ports = {} \/ port \in r.ports
    /\ r.peers = {} \/ \E p \in r.peers : PeerAdmits(p, pod)

Admitted(rules) == {c \in Pods \X Ports : \E r \in rules : RuleAdmits(r, c[1], c[2])}

-----------------------------------------------------------------------------
(* Properties. *)

\* A copy marked fresh is the NetworkPolicy as it is, and the record of custom
\* labels never lists a key of the operator (filterReservedKeys).
TypeOK ==
    /\ server \in Servers /\ cserver \in Servers
    /\ server.gen <= MaxWrites /\ cserver.gen <= server.gen
    /\ config \in Configs /\ flags \in Flags
    /\ policy \in Policies /\ cpolicy \in Policies
    /\ touched \subseteq Keys
    /\ cpolicyFresh \in BOOLEAN /\ (cpolicyFresh => cpolicy = policy)
    /\ {changed, owned, queued} \subseteq BOOLEAN
    /\ pc \in {"idle", "apply", "report"} /\ work \in Works
    /\ IF pc = "idle" THEN work = NoWork ELSE work.spec \in Specs
    /\ disturbances \in 0..MaxDisturbances

AtRest ==
    /\ pc = "idle" /\ ~queued /\ ~changed
    /\ cserver = server /\ cpolicyFresh

AppliedAtRest == AtRest /\ server.outcome = "applied"

\* At rest after a pass that went well, the NetworkPolicy has the rules that the
\* spec, the flags of the running operator and the gateway ConfigMap call for,
\* whatever changed in between and in whatever order it was noticed.
RestingPolicyIsCurrent ==
    AppliedAtRest =>
        LET wanted == CreateNetworkPolicy(server.spec, Derived(server.spec, flags, config), flags)
        IN  policy.ours /\ policy.ingress = wanted.ingress /\ policy.egress = wanted.egress

\* Under the restricted posture, a server that names no source is reached on its
\* port by the operator's own pods, if they can be told apart, by the pods of its
\* gateway's namespace, and by nobody else (operatorIngressPeers,
\* gatewayIngressPeers).
RestingReachability ==
    AppliedAtRest /\ flags.posture = "restricted" /\ server.spec.ingressFrom = {} =>
        LET gateway == IF server.spec.provider = "httproute" THEN config["gateway-namespace"]
                       ELSE IF server.spec.provider = "kuadrant"
                            THEN config["extension-namespace"] ELSE None
        IN  Admitted(policy.ingress) =
                {c \in Pods \X {"server"} : \/ /\ flags.identity
                                              /\ c[1].ns = "operator" /\ c[1].labelled
                                           \/ c[1].ns = gateway}

AdmitsFamily(p) ==
    \E family \in Families : \A pod \in Pods : pod.addr \in family => PeerAdmits(p, pod)

\* The rule asks for no peer, or one of its peers lets in everybody who has an
\* address of some family.
OpensFamily(r) == r.peers = {} \/ \E p \in r.peers : AdmitsFamily(p)

\* What the condition NetworkPolicyRestricted goes by.  It says that ingress is
\* unrestricted exactly when some rule asks for no peer, or has one that lets a
\* whole address family in by itself (hasIngressSourceRestriction); it says that
\* egress is unrestricted exactly when everything is let out and the spec names
\* neither destinations nor ports (hasEgressDestinationRestriction).
RestingPostureIsHonest ==
    AppliedAtRest =>
        /\ (server.condition \in {"IngressUnrestricted", "Unrestricted"})
             <=> (\E r \in policy.ingress : OpensFamily(r))
        /\ (server.condition \in {"EgressUnrestricted", "Unrestricted"})
             <=> /\ Admitted(policy.egress) = Pods \X Ports
                 /\ server.spec.egressTo = {} /\ server.spec.egressPorts = {}

\* At rest after a pass that went well, the labels nobody else wrote are those of
\* the operator and those of spec.extraLabels: labels taken out of the spec are
\* gone, and none of the user's hides one of the operator's.
RestingLabelsAreCurrent ==
    AppliedAtRest =>
        \A k \in Keys \ touched :
            policy.labels[k] = IF k \in Reserved THEN "operator" ELSE server.spec.extra[k]
=============================================================================
