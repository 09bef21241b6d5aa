------------------------ MODULE NetworkPolicyProofs ------------------------
(***************************************************************************)
(* The NetworkPolicy step converges: at rest after a pass that went well   *)
(* the policy, what it lets in, its labels and the condition that speaks   *)
(* of it are those the spec, the flags and the gateway ConfigMap call for, *)
(* for every set of specs, flags, ConfigMaps, label keys and namespaces.   *)
(***************************************************************************)
EXTENDS NetworkPolicyStep, TLAPS

\* A leaf is left to Zenon unless it names another prover.
USE ZenonT(60)

\* Something is on its way that will make the controller look again.
Coming ==
    \/ queued \/ owned \/ cserver.gen # server.gen
    \/ changed /\ server.spec.provider # None

\* The rules and the metadata of the policy are those of spec s, and c is the
\* condition that describes them.
RightFor(s, c) ==
    LET wanted == CreateNetworkPolicy(s, Derived(s, flags, config), flags)
    IN  /\ policy.ours /\ ValidSpec(s)
        /\ policy.ingress = wanted.ingress /\ policy.egress = wanted.egress
        /\ policy.tracked = FilterReservedKeys(s.extra)
        /\ \A k \in Keys \ Reserved : s.extra[k] # None => policy.labels[k] # None
        /\ c = Posture(wanted.ingress, wanted.egress)

Right == {c \in Postures : RightFor(server.spec, c)}

\* Two copies of one generation have one spec.
Ordered ==
    /\ cserver.gen = server.gen => cserver.spec = server.spec

\* A copy of the policy that is stale is announced, unless no MCPServer controls
\* or controlled it.
Announced ==
    /\ owned => ~cpolicyFresh
    /\ ~cpolicyFresh /\ (cpolicy.ours \/ policy.ours) => owned
    /\ policy.ours => policy.exists

\* Labels that nobody else wrote are the operator's, or those on record.
LabelsOnRecord ==
    policy.exists =>
        \A k \in Keys \ touched :
            IF k \in Reserved THEN policy.labels[k] = "operator"
            ELSE policy.labels[k] \in {policy.tracked[k], None}

\* What the worker knows is so, or it will look again.
Informed ==
    /\ pc = "apply" =>
         /\ ValidSpec(work.spec)
         /\ Coming \/ /\ work.spec = server.spec
                      /\ work.derived = Derived(work.spec, flags, config)
    /\ pc = "report" /\ work.outcome = "applied" => Coming \/ work.condition \in Right
    /\ pc = "report" /\ work.outcome = "failed" => work.again
    /\ pc = "idle" /\ server.outcome = "applied" => Coming \/ server.condition \in Right

IInv == TypeOK /\ Ordered /\ Announced /\ LabelsOnRecord /\ Informed

-----------------------------------------------------------------------------
(* What the operators of the model return. *)

\* The server's port and that of DNS are ports; a family has addresses.
LEMMA AddressFacts ==
    /\ {"server"} \in SUBSET Ports /\ {"dns"} \in SUBSET Ports
    /\ Families # {} /\ \A family \in Families : family \subseteq Addresses /\ family # {}
  BY AddressAssumption, SMTT(60)

\* What a selector and a namespace make is a peer.
LEMMA PeerTyped ==
    ASSUME NEW pods \in Selected, NEW ns \in {None, "all", "operator"} \cup Namespaces
    PROVE  Peer(pods, ns) \in Peers
  BY DEF Peer, Peers, Selected

\* The peers that the operator adds for itself and for the gateway are peers.
LEMMA DerivedTyped ==
    ASSUME NEW s \in Specs, NEW f \in Flags, NEW c \in Configs
    PROVE  Derived(s, f, c) \in SUBSET Peers
<1>1. OperatorIngressPeers(s, f) \subseteq Peers
  BY PeerTyped DEF OperatorIngressPeers, Selected
<1>2. GatewayNamespace(s, c) \in Namespaces \cup {None}
  <2>1. c \in [ConfigKeys -> Namespaces \cup {None}]
    BY PolicyAssumption
  <2>2. QED
    BY <2>1 DEF GatewayNamespace, ConfigKeys
<1>3. GatewayIngressPeers(s, f, c) \subseteq Peers
  BY <1>2, PeerTyped DEF GatewayIngressPeers, NamespaceNamePeer, Selected
<1>4. QED
  BY <1>1, <1>3 DEF Derived

\* The parts of a spec have their types, and filtering takes reserved keys away
\* only.
LEMMA SpecTyped ==
    ASSUME NEW s \in Specs
    PROVE  /\ s \in SpecType
           /\ s.ingressFrom \in SUBSET Peers /\ s.egressTo \in SUBSET Peers
           /\ s.egressPorts \in SUBSET Ports
           /\ s.dns \in Peers \cup {None} /\ s.extra \in [Keys -> Values \cup {None}]
           /\ FilterReservedKeys(s.extra) \in [Keys \ Reserved -> Values \cup {None}]
           /\ \A k \in Keys \ Reserved : FilterReservedKeys(s.extra)[k] = s.extra[k]
  BY PolicyAssumption DEF SpecType, Labels, FilterReservedKeys

\* Ports and peers make a rule.
LEMMA RuleTyped ==
    ASSUME NEW ports \in SUBSET Ports, NEW peers \in SUBSET Peers
    PROVE  Rule(ports, peers) \in Rules
  BY DEF Rule, Rules

\* A policy that is built anew has the rules built for it and the operator's
\* labels alone.
LEMMA CreateTyped ==
    ASSUME NEW s \in Specs, NEW d \in SUBSET Peers, NEW f \in Flags
    PROVE  /\ CreateNetworkPolicy(s, d, f) \in Policies
           /\ DefaultIngressRules(s, f, d) \in SUBSET Rules
           /\ BuildEgressRules(s) \in SUBSET Rules
           /\ CreateNetworkPolicy(s, d, f).exists /\ CreateNetworkPolicy(s, d, f).ours
           /\ CreateNetworkPolicy(s, d, f).ingress = DefaultIngressRules(s, f, d)
           /\ CreateNetworkPolicy(s, d, f).egress = BuildEgressRules(s)
           /\ CreateNetworkPolicy(s, d, f).labels = ManagedLabels
           /\ CreateNetworkPolicy(s, d, f).tracked = NoLabels(Keys \ Reserved)
<1>1. DefaultIngressRules(s, f, d) \in SUBSET Rules
  <2>1. \A peers \in {{}, d, s.ingressFrom} : Rule({"server"}, peers) \in Rules
    BY AddressFacts, SpecTyped, RuleTyped
  <2>2. QED
    BY <2>1 DEF DefaultIngressRules
<1>2. BuildEgressRules(s) \in SUBSET Rules
  <2>1. Rule({}, {}) \in Rules /\ Rule({"dns"}, {s.dns} \ {None}) \in Rules
    BY AddressFacts, SpecTyped, RuleTyped
  <2>2. Rule(s.egressPorts, s.egressTo) \in Rules
    BY SpecTyped, RuleTyped
  <2>3. QED
    BY <2>1, <2>2 DEF BuildEgressRules
<1>3. ManagedLabels \in [Keys -> Values \cup {None, "operator"}]
  BY DEF ManagedLabels
<1>4. NoLabels(Keys \ Reserved) \in Labels(Keys \ Reserved)
  BY DEF NoLabels, Labels
<1>5. QED
  BY <1>1, <1>2, <1>3, <1>4 DEF CreateNetworkPolicy, Policies

\* There is nothing of the operator's in an absent policy.
LEMMA NoPolicyTyped == NoPolicy \in Policies /\ ~NoPolicy.exists /\ ~NoPolicy.ours
<1>1. NoLabels(Keys) \in [Keys -> Values \cup {None, "operator"}]
  BY DEF NoLabels
<1>2. NoLabels(Keys \ Reserved) \in Labels(Keys \ Reserved)
  BY DEF NoLabels, Labels
<1>3. QED
  BY <1>1, <1>2 DEF NoPolicy, Policies

\* applyCustomObjectMetadata touches the labels and their record alone: what the
\* spec asks for is there, what the record lists and the spec does not ask for
\* any more is gone, and other labels stay.
LEMMA MetadataApplied ==
    ASSUME NEW s \in Specs, NEW o \in Policies
    PROVE  LET a == ApplyCustomObjectMetadata(s, o) IN
           /\ a \in Policies
           /\ a.exists = o.exists /\ a.ours = o.ours
           /\ a.ingress = o.ingress /\ a.egress = o.egress
           /\ a.tracked = FilterReservedKeys(s.extra)
           /\ \A k \in Reserved : a.labels[k] = o.labels[k]
           /\ \A k \in Keys \ Reserved :
                IF s.extra[k] # None THEN a.labels[k] = s.extra[k]
                ELSE IF FilterReservedKeys(s.extra) # o.tracked /\ o.tracked[k] # None
                     THEN a.labels[k] = None ELSE a.labels[k] = o.labels[k]
<1> DEFINE eff == FilterReservedKeys(s.extra)
           new == [k \in Keys |->
                     IF k \in DOMAIN eff /\ eff[k] # None THEN eff[k]
                     ELSE IF eff # o.tracked /\ k \in DOMAIN o.tracked /\ o.tracked[k] # None
                          THEN None ELSE o.labels[k]]
<1>1. ApplyCustomObjectMetadata(s, o) = [o EXCEPT !.labels = new, !.tracked = eff]
  BY DEF ApplyCustomObjectMetadata
<1>2. /\ eff \in [Keys \ Reserved -> Values \cup {None}] /\ DOMAIN eff = Keys \ Reserved
      /\ \A k \in Keys \ Reserved : eff[k] = s.extra[k]
  BY SpecTyped
<1>3. /\ o.labels \in [Keys -> Values \cup {None, "operator"}]
      /\ o.tracked \in [Keys \ Reserved -> Values \cup {None}]
      /\ DOMAIN o.tracked = Keys \ Reserved
  BY DEF Policies, Labels
<1>4. new \in [Keys -> Values \cup {None, "operator"}]
  BY <1>2, <1>3
<1>5. \A k \in Keys : new[k] =
        IF k \in Keys \ Reserved /\ eff[k] # None THEN eff[k]
        ELSE IF eff # o.tracked /\ k \in Keys \ Reserved /\ o.tracked[k] # None
             THEN None ELSE o.labels[k]
  BY <1>2, <1>3
<1>6. Reserved \subseteq Keys
  BY PolicyAssumption
<1> HIDE DEF eff, new
<1>7. [o EXCEPT !.labels = new, !.tracked = eff] \in Policies
  BY <1>2, <1>4 DEF Policies, Labels
<1>8. /\ [o EXCEPT !.labels = new, !.tracked = eff].labels = new
      /\ [o EXCEPT !.labels = new, !.tracked = eff].tracked = eff
      /\ [o EXCEPT !.labels = new, !.tracked = eff].exists = o.exists
      /\ [o EXCEPT !.labels = new, !.tracked = eff].ours = o.ours
      /\ [o EXCEPT !.labels = new, !.tracked = eff].ingress = o.ingress
      /\ [o EXCEPT !.labels = new, !.tracked = eff].egress = o.egress
  BY DEF Policies
<1>9. \A k \in Reserved : new[k] = o.labels[k]
  BY <1>5, <1>6
<1>10. \A k \in Keys \ Reserved :
          IF s.extra[k] # None THEN new[k] = s.extra[k]
          ELSE IF eff # o.tracked /\ o.tracked[k] # None
               THEN new[k] = None ELSE new[k] = o.labels[k]
  BY <1>2, <1>5
<1>11. eff = FilterReservedKeys(s.extra)
  BY DEF eff
<1>12. QED
  BY <1>1, <1>7, <1>8, <1>9, <1>10, <1>11, SMTT(60)

\* Putting the operator's labels back changes the reserved keys only.
LEMMA RelabelledTyped ==
    ASSUME NEW o \in Policies
    PROVE  /\ RelabelManaged(o) \in Policies
           /\ RelabelManaged(o).exists = o.exists /\ RelabelManaged(o).ours = o.ours
           /\ RelabelManaged(o).tracked = o.tracked
           /\ \A k \in Keys : RelabelManaged(o).labels[k] =
                IF k \in Reserved THEN "operator" ELSE o.labels[k]
<1> DEFINE new == [k \in Keys |-> IF k \in Reserved THEN "operator" ELSE o.labels[k]]
<1>1. o.labels \in [Keys -> Values \cup {None, "operator"}]
  BY DEF Policies
<1>2. RelabelManaged(o) = [o EXCEPT !.labels = new]
  BY DEF RelabelManaged, Policies
<1>3. new \in [Keys -> Values \cup {None, "operator"}]
  BY <1>1
<1>4. \A k \in Keys : new[k] = IF k \in Reserved THEN "operator" ELSE o.labels[k]
  OBVIOUS
<1> HIDE DEF new
<1>5. QED
  BY <1>2, <1>3, <1>4 DEF Policies

\* What an update writes over the copy that the worker holds.
LEMMA Updated ==
    ASSUME NEW s \in Specs, NEW n \in Policies, cpolicy \in Policies
    PROVE  LET u == UpdatedPolicy(s, n) IN
           /\ u \in Policies
           /\ u.exists = cpolicy.exists /\ u.ours = cpolicy.ours
           /\ u.ingress = n.ingress /\ u.egress = n.egress
           /\ u.tracked = FilterReservedKeys(s.extra)
           /\ \A k \in Reserved : u.labels[k] = "operator"
           /\ \A k \in Keys \ Reserved :
                IF s.extra[k] # None THEN u.labels[k] = s.extra[k]
                ELSE IF FilterReservedKeys(s.extra) # cpolicy.tracked /\ cpolicy.tracked[k] # None
                     THEN u.labels[k] = None ELSE u.labels[k] = cpolicy.labels[k]
<1> DEFINE r == RelabelManaged(cpolicy)
           o == [r EXCEPT !.ingress = n.ingress, !.egress = n.egress]
<1>1. /\ r \in Policies /\ r.exists = cpolicy.exists /\ r.ours = cpolicy.ours
      /\ r.tracked = cpolicy.tracked
      /\ \A k \in Keys : r.labels[k] = IF k \in Reserved THEN "operator" ELSE cpolicy.labels[k]
  BY RelabelledTyped
<1> HIDE DEF r
<1>2. n.ingress \in SUBSET Rules /\ n.egress \in SUBSET Rules
  BY DEF Policies
<1>3. /\ o \in Policies /\ o.exists = cpolicy.exists /\ o.ours = cpolicy.ours
      /\ o.tracked = cpolicy.tracked /\ o.labels = r.labels
      /\ o.ingress = n.ingress /\ o.egress = n.egress
  BY <1>1, <1>2 DEF Policies
<1>4. UpdatedPolicy(s, n) = ApplyCustomObjectMetadata(s, o)
  BY DEF UpdatedPolicy, r
<1> HIDE DEF o
<1>5. Reserved \subseteq Keys
  BY PolicyAssumption
<1>6. QED
  BY <1>1, <1>3, <1>4, <1>5, MetadataApplied, SMTT(60)

\* What is reported of the rules is a posture.
LEMMA PostureTyped ==
    ASSUME NEW i, NEW e
    PROVE  Posture(i, e) \in Postures
<1> DEFINE I == HasIngressSourceRestriction(i)
           E == HasEgressDestinationRestriction(e)
<1>1. I \in BOOLEAN /\ E \in BOOLEAN
  BY DEF HasIngressSourceRestriction, HasEgressDestinationRestriction
<1>2. Posture(i, e) = CASE I /\ E -> "Restricted" [] I /\ ~E -> "EgressUnrestricted"
                        [] ~I /\ E -> "IngressUnrestricted" [] OTHER -> "Unrestricted"
  BY DEF Posture
<1> HIDE DEF I, E
<1>3. QED
  BY <1>1, <1>2 DEF Postures

\* An MCPServer without gateway does not depend on the gateway ConfigMap.
LEMMA NoGateway ==
    ASSUME NEW s, s.provider = None, NEW f, NEW c, NEW d
    PROVE  Derived(s, f, c) = Derived(s, f, d)
<1>1. GatewayNamespace(s, c) = None /\ GatewayNamespace(s, d) = None
  BY PolicyAssumption DEF GatewayNamespace
<1>2. QED
  BY <1>1 DEF Derived, GatewayIngressPeers

-----------------------------------------------------------------------------
(* The invariant is inductive. *)

\* The initial states satisfy the invariant.
LEMMA InvInit == Init => IInv
<1> SUFFICES ASSUME Init PROVE IInv
  OBVIOUS
<1>1. PICK s \in Specs :
        server = [gen |-> 1, spec |-> s, condition |-> "none", outcome |-> "none"]
  BY DEF Init
<1>2. server \in Servers
  BY <1>1 DEF Servers, Outcomes
<1>3. server.gen = 1 /\ server.outcome = "none"
  BY <1>1
<1>4. NoWork \in Works
  BY DEF NoWork, Works, Outcomes
<1>5. TypeOK
  <2>1. server.gen <= MaxWrites /\ 0 \in 0..MaxDisturbances
    BY <1>3, PolicyAssumption, SMTT(60)
  <2>2. cserver.gen <= server.gen
    BY <1>3, SMTT(60) DEF Init
  <2>3. QED
    BY <1>2, <1>4, <2>1, <2>2, NoPolicyTyped DEF Init, TypeOK
<1>6. Ordered /\ Announced /\ LabelsOnRecord /\ Informed
  BY <1>3, NoPolicyTyped DEF Init, Ordered, Announced, LabelsOnRecord, Informed
<1>7. QED
  BY <1>5, <1>6 DEF IInv

\* Nothing that Right speaks of has changed.
LEMMA SameRight ==
    ASSUME UNCHANGED <<policy, flags, config>>, server'.spec = server.spec
    PROVE  Right' = Right
  BY DEF Right, RightFor

\* An edit of the spec is a generation that the cache does not have.
LEMMA EditServerKeeps == ASSUME IInv, EditServer PROVE IInv'
<1>1. PICK s \in Specs : server' = [server EXCEPT !.gen = @ + 1, !.spec = s]
  BY DEF EditServer
<1>2. server \in Servers /\ cserver \in Servers /\ cserver.gen <= server.gen
  BY DEF IInv, TypeOK
<1>3. server' \in Servers /\ server'.gen = server.gen + 1
  <2>1. server.gen + 1 \in Nat
    BY <1>2, SMTT(60) DEF Servers
  <2>2. QED
    BY <1>1, <1>2, <2>1 DEF Servers
<1>4. cserver'.gen # server'.gen /\ cserver'.gen <= server'.gen
  BY <1>2, <1>3, SMTT(60) DEF EditServer, Servers
<1>5. server'.gen <= MaxWrites
  BY <1>2, <1>3, PolicyAssumption, SMTT(60) DEF EditServer, Servers
<1>6. Coming'
  BY <1>4 DEF Coming
<1>7. TypeOK'
  BY <1>3, <1>4, <1>5 DEF IInv, TypeOK, EditServer
<1>8. Informed'
  BY <1>6 DEF IInv, Informed, EditServer
<1>9. QED
  BY <1>4, <1>7, <1>8 DEF IInv, Ordered, Announced, LabelsOnRecord, EditServer

\* A change of the gateway's ConfigMap has its event on the way.
LEMMA ConfigMapChangesKeeps == ASSUME IInv, ConfigMapChanges PROVE IInv'
<1>1. TypeOK'
  BY PolicyAssumption, SMTT(60) DEF IInv, TypeOK, ConfigMapChanges, Disturb
<1>2. server' = server /\ changed' /\ UNCHANGED <<policy, flags, pc, work>>
  BY DEF ConfigMapChanges
<1>3. Coming => Coming'
  BY DEF Coming, ConfigMapChanges
<1>4. CASE server.spec.provider = None
  <2>1. \A f : Derived(server.spec, f, config) = Derived(server.spec, f, config')
    BY <1>4, NoGateway
  <2>2. Right' = Right
    BY <1>2, <2>1, SMTT(60) DEF Right, RightFor
  <2>3. Informed'
    BY <1>2, <1>3, <2>1, <2>2 DEF IInv, Informed
  <2>4. QED
    BY <1>1, <2>3 DEF IInv, Ordered, Announced, LabelsOnRecord, ConfigMapChanges
<1>5. CASE server.spec.provider # None
  <2>1. Coming'
    BY <1>2, <1>5 DEF Coming
  <2>2. Informed'
    BY <1>2, <2>1 DEF IInv, Informed
  <2>3. QED
    BY <1>1, <2>2 DEF IInv, Ordered, Announced, LabelsOnRecord, ConfigMapChanges
<1>6. QED
  BY <1>4, <1>5

\* A write to a policy that an MCPServer controls or controlled is announced,
\* whoever makes it; one to another's policy cannot spoil an answer that is right.
LEMMA PolicyWritten ==
    ASSUME IInv, NEW p \in Policies, WritePolicy(p), p.ours => p.exists,
           UNCHANGED <<server, config, flags, cserver, cpolicy, changed, queued>>
    PROVE  /\ Announced' /\ Ordered' /\ (Coming => Coming')
           /\ owned' \in BOOLEAN /\ policy' \in Policies
           /\ policy.ours \/ p.ours => Coming'
           /\ UNCHANGED <<pc, work>> => Informed'
<1>1. owned \in BOOLEAN /\ policy \in Policies /\ policy.ours \in BOOLEAN /\ p.ours \in BOOLEAN
  BY DEF IInv, TypeOK, Policies
<1>2. /\ policy' = p /\ cpolicyFresh' = FALSE /\ owned' = (owned \/ policy.ours \/ p.ours)
  BY DEF WritePolicy
<1>3. Coming => Coming'
  BY <1>2 DEF Coming
<1>4. policy.ours \/ p.ours => Coming'
  BY <1>2 DEF Coming
<1>5. Announced'
  <2>1. cpolicyFresh => cpolicy = policy
    BY DEF IInv, TypeOK
  <2>2. ~cpolicyFresh /\ cpolicy.ours => owned
    BY DEF IInv, Announced
  <2>3. cpolicyFresh \in BOOLEAN
    BY DEF IInv, TypeOK
  <2>4. cpolicy.ours => owned'
    BY <1>2, <2>1, <2>2, <2>3
  <2>5. policy'.ours => owned'
    BY <1>2
  <2>6. QED
    BY <1>2, <2>4, <2>5 DEF Announced
<1>6. ~policy.ours => Right = {}
  BY DEF Right, RightFor
<1>7. UNCHANGED <<pc, work>> => Informed'
  <2> SUFFICES ASSUME UNCHANGED <<pc, work>> PROVE Informed'
    OBVIOUS
  <2>1. CASE policy.ours
    BY <1>4, <2>1 DEF IInv, Informed
  <2>2. CASE ~policy.ours
    BY <1>3, <1>6, <2>2 DEF IInv, Informed
  <2>3. QED
    BY <2>1, <2>2
<1>8. QED
  BY <1>1, <1>2, <1>3, <1>4, <1>5, <1>7 DEF IInv, Ordered

\* Somebody else's write has its event on the way, and the labels they wrote are
\* theirs.
LEMMA PolicyChangesKeeps == ASSUME IInv, PolicyChanges PROVE IInv'
<1>1. /\ policy \in Policies /\ policy.exists /\ touched \subseteq Keys
      /\ Reserved \subseteq Keys
      /\ policy.labels \in [Keys -> Values \cup {None, "operator"}]
  BY PolicyAssumption DEF IInv, TypeOK, PolicyChanges, Policies
<1>2. UNCHANGED <<server, config, flags, cserver, cpolicy, changed, queued, pc, work>>
  BY DEF PolicyChanges
<1> DEFINE recorded(p, t) ==
        p.exists =>
            \A k \in Keys \ t : IF k \in Reserved THEN p.labels[k] = "operator"
                                ELSE p.labels[k] \in {p.tracked[k], None}
<1>3. recorded(policy, touched)
  BY DEF IInv, LabelsOnRecord
<1>4. ASSUME NEW p \in Policies, NEW t \in SUBSET Keys, WritePolicy(p), touched' = t,
             p.ours => p.exists, recorded(p, t)
      PROVE  IInv'
  <2>1. /\ Announced' /\ Ordered' /\ Informed' /\ owned' \in BOOLEAN /\ policy' = p
    BY <1>2, <1>4, PolicyWritten DEF WritePolicy
  <2>2. LabelsOnRecord'
    BY <1>4, <2>1 DEF LabelsOnRecord
  <2>3. TypeOK'
    <3>1. disturbances' \in 0..MaxDisturbances
      BY PolicyAssumption, SMTT(60) DEF IInv, TypeOK, PolicyChanges, Disturb
    <3>2. cpolicyFresh' = FALSE
      BY <1>4 DEF WritePolicy
    <3>3. QED
      BY <1>2, <1>4, <2>1, <3>1, <3>2 DEF IInv, TypeOK
  <2>4. QED
    BY <2>1, <2>2, <2>3 DEF IInv
<1>5. policy.ours => policy.exists
  BY DEF IInv, Announced
<1>6. CASE WritePolicy(NoPolicy) /\ touched' = {}
  BY <1>4, <1>6, NoPolicyTyped
<1>7. CASE WritePolicy([policy EXCEPT !.ours = FALSE]) /\ UNCHANGED touched
  <2> DEFINE p == [policy EXCEPT !.ours = FALSE]
  <2>1. p \in Policies /\ ~p.ours /\ p.labels = policy.labels /\ p.tracked = policy.tracked
        /\ p.exists = policy.exists
    BY <1>1 DEF Policies
  <2>2. recorded(p, touched)
    BY <1>3, <2>1
  <2> HIDE DEF p, recorded
  <2>3. QED
    BY <1>1, <1>4, <1>7, <2>1, <2>2 DEF p
<1>8. CASE WritePolicy([policy EXCEPT !.ingress = {Rule({}, {})}]) /\ UNCHANGED touched
  <2> DEFINE p == [policy EXCEPT !.ingress = {Rule({}, {})}]
  <2>1. Rule({}, {}) \in Rules
    BY RuleTyped
  <2>2. p \in Policies /\ p.ours = policy.ours /\ p.labels = policy.labels
        /\ p.tracked = policy.tracked /\ p.exists = policy.exists
    BY <1>1, <2>1 DEF Policies
  <2>3. recorded(p, touched)
    BY <1>3, <2>2
  <2> HIDE DEF p, recorded
  <2>4. QED
    BY <1>1, <1>4, <1>5, <1>8, <2>2, <2>3 DEF p
<1>9. ASSUME NEW k \in Keys, NEW v \in Values \cup {None},
             WritePolicy([policy EXCEPT !.labels[k] = v]), touched' = touched \cup {k}
      PROVE  IInv'
  <2> DEFINE p == [policy EXCEPT !.labels[k] = v]
  <2>1. p \in Policies /\ p.ours = policy.ours /\ p.labels = [policy.labels EXCEPT ![k] = v]
        /\ p.tracked = policy.tracked /\ p.exists = policy.exists
    BY <1>1 DEF Policies
  <2>2. recorded(p, touched \cup {k})
    BY <1>1, <1>3, <2>1, SMTT(60)
  <2> HIDE DEF p, recorded
  <2>3. touched \cup {k} \in SUBSET Keys /\ (p.ours => p.exists)
    BY <1>1, <1>5, <2>1
  <2>4. QED
    BY <1>4, <1>9, <2>1, <2>2, <2>3 DEF p
<1>10. ASSUME NEW k \in Keys \ Reserved, WritePolicy([policy EXCEPT !.labels[k] = None]),
              UNCHANGED touched
       PROVE  IInv'
  <2> DEFINE p == [policy EXCEPT !.labels[k] = None]
  <2>1. p \in Policies /\ p.ours = policy.ours /\ p.labels = [policy.labels EXCEPT ![k] = None]
        /\ p.tracked = policy.tracked /\ p.exists = policy.exists
    BY <1>1 DEF Policies
  <2>2. recorded(p, touched)
    BY <1>1, <1>3, <2>1, SMTT(60)
  <2> HIDE DEF p, recorded
  <2>3. QED
    BY <1>1, <1>4, <1>5, <1>10, <2>1, <2>2 DEF p
<1>11. QED
  BY <1>6, <1>7, <1>8, <1>9, <1>10 DEF PolicyChanges

\* A restart, with whatever flags, queues the MCPServer.
LEMMA RestartKeeps == ASSUME IInv, RestartOperator PROVE IInv'
<1>1. TypeOK'
  <2>1. disturbances' \in 0..MaxDisturbances
    BY PolicyAssumption, SMTT(60) DEF IInv, TypeOK, RestartOperator, Disturb
  <2>2. NoWork \in Works
    BY DEF NoWork, Works, Outcomes
  <2>3. server.gen <= server.gen
    BY SMTT(60) DEF IInv, TypeOK, Servers
  <2>4. QED
    BY <2>1, <2>2, <2>3 DEF IInv, TypeOK, RestartOperator
<1>2. Informed'
  BY DEF Informed, Coming, RestartOperator
<1>3. QED
  BY <1>1, <1>2 DEF IInv, Ordered, Announced, LabelsOnRecord, RestartOperator

\* The event of the MCPServer queues it.
LEMMA SyncServerKeeps == ASSUME IInv, SyncServer PROVE IInv'
<1>1. UNCHANGED <<server, config, policy, flags, changed, owned, pc, work>>
  BY DEF SyncServer
<1>2. Right' = Right
  BY <1>1, SameRight
<1>3. Coming => Coming'
  BY DEF Coming, SyncServer
<1>4. Informed'
  BY <1>1, <1>2, <1>3 DEF IInv, Informed
<1>5. TypeOK'
  <2>1. queued' \in BOOLEAN /\ server.gen <= server.gen
    BY SMTT(60) DEF IInv, TypeOK, SyncServer, Servers
  <2>2. QED
    BY <2>1 DEF IInv, TypeOK, SyncServer
<1>6. QED
  BY <1>4, <1>5 DEF IInv, Ordered, Announced, LabelsOnRecord, SyncServer

\* So does the event of a policy of its own.
LEMMA SyncPolicyKeeps == ASSUME IInv, SyncPolicy PROVE IInv'
<1>1. UNCHANGED <<server, config, policy, flags, changed, cserver, pc, work>>
  BY DEF SyncPolicy
<1>2. Right' = Right
  BY <1>1, SameRight
<1>3. Coming => Coming'
  BY DEF Coming, SyncPolicy
<1>4. Informed'
  BY <1>1, <1>2, <1>3 DEF IInv, Informed
<1>5. TypeOK'
  BY DEF IInv, TypeOK, SyncPolicy
<1>6. QED
  BY <1>4, <1>5 DEF IInv, Ordered, Announced, LabelsOnRecord, SyncPolicy

\* So does the event of the ConfigMap that its gateway is configured by.
LEMMA ConfigMapEventKeeps == ASSUME IInv, ConfigMapEvent PROVE IInv'
<1>1. UNCHANGED <<server, config, policy, flags, owned, cserver, pc, work>>
  BY DEF ConfigMapEvent
<1>2. Right' = Right
  BY <1>1, SameRight
<1>3. Coming => Coming'
  <2>1. cserver.gen = server.gen => cserver.spec = server.spec
    BY DEF IInv, Ordered
  <2>2. CASE cserver.gen = server.gen /\ server.spec.provider # None
    BY <2>1, <2>2 DEF Coming, ConfigMapEvent
  <2>3. CASE cserver.gen # server.gen
    BY <2>3 DEF Coming, ConfigMapEvent
  <2>4. CASE server.spec.provider = None
    BY <2>4 DEF Coming, ConfigMapEvent
  <2>5. QED
    BY <2>2, <2>3, <2>4
<1>4. Informed'
  BY <1>1, <1>2, <1>3 DEF IInv, Informed
<1>5. TypeOK'
  BY DEF IInv, TypeOK, ConfigMapEvent
<1>6. QED
  BY <1>4, <1>5 DEF IInv, Ordered, Announced, LabelsOnRecord, ConfigMapEvent

\* The reconcile begins with what the cache has, and with the peers of the
\* ConfigMap now.
LEMMA FetchKeeps == ASSUME IInv, Fetch PROVE IInv'
<1> DEFINE s == cserver.spec
           read == [NoWork EXCEPT !.spec = s, !.condition = cserver.condition]
<1>1. /\ UNCHANGED <<server, config, policy, touched, flags, cserver, cpolicy,
                     cpolicyFresh, changed, owned, disturbances>>
      /\ queued' = FALSE
  BY DEF Fetch
<1>2. s \in Specs /\ cserver.condition \in Postures \cup {"none"} /\ flags \in Flags
      /\ config \in Configs
  BY DEF IInv, TypeOK, Servers
<1>3. read \in Works /\ read.spec = s
  BY <1>2 DEF Works, NoWork, Outcomes
<1>4. cserver.gen = server.gen => s = server.spec
  BY DEF IInv, Ordered
<1>5. CASE ValidSpec(s)
  <2>1. pc' = "apply" /\ work' = [read EXCEPT !.derived = Derived(s, flags, config)]
    BY <1>5 DEF Fetch
  <2>2. Derived(s, flags, config) \in SUBSET Peers
    BY <1>2, DerivedTyped
  <2> HIDE DEF s, read
  <2>3. work' \in Works /\ work'.spec = s /\ work'.derived = Derived(s, flags, config)
    BY <1>3, <2>1, <2>2 DEF Works
  <2>4. TypeOK'
    BY <1>1, <1>2, <2>1, <2>3 DEF IInv, TypeOK
  <2>5. Informed'
    BY <1>1, <1>4, <1>5, <2>1, <2>3 DEF Informed, Coming
  <2>6. QED
    BY <1>1, <2>4, <2>5 DEF IInv, Ordered, Announced, LabelsOnRecord
<1>6. CASE ~ValidSpec(s)
  <2>1. pc' = "report" /\ work' = [read EXCEPT !.outcome = "invalid"]
    BY <1>6 DEF Fetch
  <2> HIDE DEF s, read
  <2>2. work' \in Works /\ work'.spec = s /\ work'.outcome = "invalid"
    BY <1>3, <2>1 DEF Works, Outcomes
  <2>3. TypeOK'
    BY <1>1, <1>2, <2>1, <2>2 DEF IInv, TypeOK
  <2>4. Informed'
    BY <2>1, <2>2 DEF Informed
  <2>5. QED
    BY <1>1, <2>3, <2>4 DEF IInv, Ordered, Announced, LabelsOnRecord
<1>7. QED
  BY <1>5, <1>6

\* A step that fails or meets a conflict reports it or is repeated.
LEMMA FailKeeps ==
    ASSUME IInv, pc = "apply", NEW outcome \in {"failed", "conflict"}, Fail(outcome),
           UNCHANGED <<server, config, flags, cserver, cpolicy, changed>>,
           disturbances' \in 0..MaxDisturbances
    PROVE  IInv'
<1>1. work \in Works /\ work.spec \in Specs
  BY DEF IInv, TypeOK
<1>2. work' \in Works /\ work'.spec = work.spec /\ work'.outcome = outcome
      /\ work'.again = (outcome = "failed")
  BY <1>1 DEF Fail, Works, Outcomes
<1>3. TypeOK'
  BY <1>1, <1>2 DEF IInv, TypeOK, Fail
<1>4. Informed'
  BY <1>2 DEF Informed, Fail
<1>5. QED
  BY <1>3, <1>4 DEF IInv, Ordered, Announced, LabelsOnRecord, Fail

\* A pass that wrote the policy hears of its own write.
LEMMA WrittenKeeps ==
    ASSUME IInv, pc = "apply", NEW p \in Policies, p.exists, p.ours, WritePolicy(p),
           NEW n, Applied(n), touched' \subseteq Keys,
           \A k \in Keys \ touched' : IF k \in Reserved THEN p.labels[k] = "operator"
                                      ELSE p.labels[k] \in {p.tracked[k], None},
           UNCHANGED <<server, config, flags, cserver, cpolicy, changed, disturbances>>
    PROVE  IInv'
<1>1. work \in Works /\ work.spec \in Specs
  BY DEF IInv, TypeOK
<1>2. work' \in Works /\ work'.spec = work.spec /\ work'.outcome = "applied" /\ pc' = "report"
  BY <1>1, PostureTyped DEF Applied, Works, Outcomes
<1>3. UNCHANGED queued /\ policy' = p /\ cpolicyFresh' = FALSE
  BY DEF Applied, WritePolicy
<1>4. Announced' /\ Ordered' /\ Coming' /\ owned' \in BOOLEAN
  BY <1>3, PolicyWritten
<1>5. TypeOK'
  BY <1>1, <1>2, <1>3, <1>4 DEF IInv, TypeOK
<1>6. Informed'
  BY <1>2, <1>4 DEF Informed
<1>7. LabelsOnRecord'
  BY <1>3 DEF LabelsOnRecord
<1>8. QED
  BY <1>4, <1>5, <1>6, <1>7 DEF IInv

\* The policy is right after EnsureNetworkPolicy, or the reconcile is repeated.
LEMMA EnsureKeeps == ASSUME IInv, EnsureNetworkPolicy PROVE IInv'
<1> DEFINE s == work.spec
           netpol == CreateNetworkPolicy(s, work.derived, flags)
           needsUpdate == \/ cpolicy.ingress # netpol.ingress \/ cpolicy.egress # netpol.egress
                          \/ ObjectLabelsChanged(s, cpolicy)
<1>1. /\ pc = "apply"
      /\ UNCHANGED <<server, config, flags, cserver, cpolicy, changed, disturbances>>
  BY DEF EnsureNetworkPolicy
<1>2. /\ work \in Works /\ s \in Specs /\ work.derived \in SUBSET Peers /\ flags \in Flags
      /\ cpolicy \in Policies /\ policy \in Policies /\ Reserved \subseteq Keys
      /\ touched \subseteq Keys /\ disturbances \in 0..MaxDisturbances
  BY <1>1, PolicyAssumption DEF IInv, TypeOK, Works
<1>3. /\ netpol \in Policies /\ netpol.exists /\ netpol.ours
      /\ netpol.ingress = DefaultIngressRules(s, flags, work.derived)
      /\ netpol.egress = BuildEgressRules(s)
      /\ netpol.labels = ManagedLabels /\ netpol.tracked = NoLabels(Keys \ Reserved)
  BY <1>2, CreateTyped
<1>4. /\ \A k \in Reserved : netpol.labels[k] = "operator"
      /\ \A k \in Keys \ Reserved : netpol.labels[k] = None /\ netpol.tracked[k] = None
  BY <1>2, <1>3 DEF ManagedLabels, NoLabels
<1>5. /\ FilterReservedKeys(s.extra) \in [Keys \ Reserved -> Values \cup {None}]
      /\ \A k \in Keys \ Reserved : FilterReservedKeys(s.extra)[k] = s.extra[k]
  BY <1>2, SpecTyped
<1>6. ASSUME WritePolicy(ApplyCustomObjectMetadata(s, netpol)), touched' = {}, Applied(netpol)
      PROVE  IInv'
  <2> DEFINE p == ApplyCustomObjectMetadata(s, netpol)
  <2>1. /\ p \in Policies /\ p.exists /\ p.ours /\ p.tracked = FilterReservedKeys(s.extra)
        /\ \A k \in Reserved : p.labels[k] = netpol.labels[k]
        /\ \A k \in Keys \ Reserved :
             IF s.extra[k] # None THEN p.labels[k] = s.extra[k]
             ELSE IF FilterReservedKeys(s.extra) # netpol.tracked /\ netpol.tracked[k] # None
                  THEN p.labels[k] = None ELSE p.labels[k] = netpol.labels[k]
    BY <1>2, <1>3, MetadataApplied, SMTT(60)
  <2> HIDE DEF p, s, netpol
  <2>2. \A k \in Keys : IF k \in Reserved THEN p.labels[k] = "operator"
                        ELSE p.labels[k] \in {p.tracked[k], None}
    BY <1>4, <1>5, <2>1
  <2>3. QED
    BY <1>1, <1>6, <2>1, <2>2, WrittenKeeps DEF p
<1>7. ASSUME Fail("failed") \/ Fail("conflict") PROVE IInv'
  BY <1>1, <1>2, <1>7, FailKeeps
<1>8. ASSUME cpolicy.ours, ~needsUpdate, Applied(netpol),
             UNCHANGED <<policy, touched, cpolicyFresh, owned>>
      PROVE  IInv'
  <2>1. /\ work' \in Works /\ work'.spec = s /\ work'.outcome = "applied" /\ pc' = "report"
        /\ work'.condition = Posture(netpol.ingress, netpol.egress) /\ UNCHANGED queued
    BY <1>2, <1>8, PostureTyped DEF Applied, Works, Outcomes
  <2>2. TypeOK'
    BY <1>1, <1>2, <1>8, <2>1 DEF IInv, TypeOK
  <2>3. Coming' = Coming
    BY <1>1, <1>8, <2>1 DEF Coming
  <2>4. Right' = Right
    BY <1>1, <1>8, SameRight
  <2>5. ASSUME ~Coming PROVE work'.condition \in Right
    <3>1. s = server.spec /\ work.derived = Derived(s, flags, config) /\ ValidSpec(s)
      BY <1>1, <2>5 DEF IInv, Informed
    <3>2. cpolicy = policy
      BY <1>8, <2>5 DEF IInv, TypeOK, Announced, Coming
    <3>3. ~ObjectLabelsChanged(s, policy)
      BY <1>8, <3>2
    <3>4. /\ policy.tracked = FilterReservedKeys(s.extra)
          /\ \A k \in Keys \ Reserved : policy.tracked[k] # None => policy.labels[k] # None
      BY <3>3 DEF ObjectLabelsChanged
    <3>5. policy.ingress = netpol.ingress /\ policy.egress = netpol.egress /\ policy.ours
      BY <1>8, <3>2
    <3>6. work'.condition \in Postures
      BY <2>1, PostureTyped
    <3>7. netpol = CreateNetworkPolicy(server.spec, Derived(server.spec, flags, config), flags)
      BY <3>1
    <3> HIDE DEF netpol, s
    <3>8. QED
      BY <1>5, <2>1, <3>1, <3>4, <3>5, <3>6, <3>7, SMTT(60) DEF Right, RightFor
  <2>6. Informed'
    BY <2>1, <2>3, <2>4, <2>5 DEF Informed
  <2>7. QED
    BY <1>1, <1>8, <2>2, <2>6 DEF IInv, Ordered, Announced, LabelsOnRecord
<1>9. ASSUME cpolicy.ours, cpolicyFresh, WritePolicy(UpdatedPolicy(s, netpol)),
             touched' = {k \in touched \ Reserved : s.extra[k] = None}, Applied(netpol)
      PROVE  IInv'
  <2> DEFINE u == UpdatedPolicy(s, netpol)
  <2>1. /\ u \in Policies /\ u.exists = cpolicy.exists /\ u.ours = cpolicy.ours
        /\ u.tracked = FilterReservedKeys(s.extra)
        /\ \A k \in Reserved : u.labels[k] = "operator"
        /\ \A k \in Keys \ Reserved :
             IF s.extra[k] # None THEN u.labels[k] = s.extra[k]
             ELSE IF FilterReservedKeys(s.extra) # cpolicy.tracked /\ cpolicy.tracked[k] # None
                  THEN u.labels[k] = None ELSE u.labels[k] = cpolicy.labels[k]
    BY <1>2, <1>3, Updated
  <2> HIDE DEF u, s, netpol
  <2>2. cpolicy = policy /\ policy.exists
    BY <1>9 DEF IInv, TypeOK, Announced
  <2>3. \A k \in Keys \ touched :
          k \notin Reserved => cpolicy.labels[k] \in {cpolicy.tracked[k], None}
    BY <2>2 DEF IInv, LabelsOnRecord
  <2>4. ASSUME NEW k \in Keys \ touched'
        PROVE  IF k \in Reserved THEN u.labels[k] = "operator"
               ELSE u.labels[k] \in {u.tracked[k], None}
    <3>1. CASE k \in Reserved
      BY <2>1, <3>1
    <3>2. CASE k \notin Reserved /\ s.extra[k] # None
      BY <1>5, <2>1, <3>2
    <3>3. CASE k \notin Reserved /\ s.extra[k] = None
      <4>1. k \notin touched
        BY <1>9, <2>4, <3>3
      <4>2. cpolicy.labels[k] \in {cpolicy.tracked[k], None}
        BY <2>3, <3>3, <4>1
      <4>3. FilterReservedKeys(s.extra)[k] = None
        BY <1>5, <3>3
      <4>4. u.labels[k] = None
        BY <2>1, <3>3, <4>2, <4>3
      <4>5. QED
        BY <3>3, <4>4
    <3>4. QED
      BY <3>1, <3>2, <3>3
  <2>5. touched' \subseteq Keys /\ u.exists /\ u.ours
    BY <1>2, <1>9, <2>1, <2>2
  <2>6. QED
    BY <1>1, <1>9, <2>1, <2>4, <2>5, WrittenKeeps DEF u
<1>10. ASSUME pc' = "idle", work' = NoWork, queued' = TRUE,
              UNCHANGED <<policy, touched, cpolicyFresh, owned>>
       PROVE  IInv'
  <2>1. NoWork \in Works
    BY DEF NoWork, Works, Outcomes
  <2>2. TypeOK'
    BY <1>1, <1>10, <2>1 DEF IInv, TypeOK
  <2>3. Informed'
    BY <1>10 DEF Informed, Coming
  <2>4. QED
    BY <1>1, <1>10, <2>2, <2>3 DEF IInv, Ordered, Announced, LabelsOnRecord
<1>11. QED
  BY <1>6, <1>7, <1>8, <1>9, <1>10 DEF EnsureNetworkPolicy

\* A call that fails repeats the reconcile.
LEMMA CallFailsKeeps == ASSUME IInv, CallFails PROVE IInv'
<1>1. disturbances' \in 0..MaxDisturbances
  BY PolicyAssumption, SMTT(60) DEF IInv, TypeOK, CallFails, Disturb
<1>2. QED
  BY <1>1, FailKeeps DEF CallFails

\* The posture that is reported is that of the policy written.
LEMMA ApplyStatusKeeps == ASSUME IInv, ApplyStatus PROVE IInv'
<1>1. /\ pc = "report" /\ UNCHANGED <<config, policy, flags, cserver, changed, owned>>
      /\ pc' = "idle" /\ work' = NoWork /\ queued' = (queued \/ work.again)
  BY DEF ApplyStatus
<1>2. server \in Servers /\ work \in Works /\ work.again \in BOOLEAN
  BY DEF IInv, TypeOK, Works
<1>3. /\ server' \in Servers /\ server'.spec = server.spec /\ server'.gen = server.gen
      /\ server'.condition = work.condition /\ server'.outcome = work.outcome
  BY <1>2 DEF ApplyStatus, Servers, Works
<1>4. Right' = Right
  BY <1>1, <1>3, SameRight
<1>5. Coming => Coming'
  BY <1>1, <1>3 DEF Coming
<1>6. Informed'
  BY <1>1, <1>3, <1>4, <1>5 DEF IInv, Informed
<1>7. NoWork \in Works
  BY DEF NoWork, Works, Outcomes
<1>8. TypeOK'
  BY <1>1, <1>2, <1>3, <1>7 DEF IInv, TypeOK, ApplyStatus
<1>9. QED
  BY <1>3, <1>6, <1>8 DEF IInv, Ordered, Announced, LabelsOnRecord, ApplyStatus

\* A status that cannot be applied repeats the reconcile.
LEMMA ApplyStatusFailsKeeps == ASSUME IInv, ApplyStatusFails PROVE IInv'
<1>1. NoWork \in Works
  BY DEF NoWork, Works, Outcomes
<1>2. disturbances' \in 0..MaxDisturbances
  BY PolicyAssumption, SMTT(60) DEF IInv, TypeOK, ApplyStatusFails, Disturb
<1>3. TypeOK'
  BY <1>1, <1>2 DEF IInv, TypeOK, ApplyStatusFails
<1>4. Informed'
  BY DEF Informed, Coming, ApplyStatusFails
<1>5. QED
  BY <1>3, <1>4 DEF IInv, Ordered, Announced, LabelsOnRecord, ApplyStatusFails

\* The inductive invariant: what the worker read is still so, or it will look
\* again, for every interleaving of edits, ConfigMap events, foreign writes,
\* conflicts, failing calls and restarts with the steps of a pass.
THEOREM PolicyConvergence == Spec => []IInv
<1>1. IInv /\ [Next]_vars => IInv'
  <2> SUFFICES ASSUME IInv, [Next]_vars PROVE IInv'
    OBVIOUS
  <2>1. CASE EditServer \/ ConfigMapChanges \/ PolicyChanges \/ RestartOperator
    BY <2>1, EditServerKeeps, ConfigMapChangesKeeps, PolicyChangesKeeps, RestartKeeps
  <2>2. CASE SyncServer \/ SyncPolicy \/ ConfigMapEvent
    BY <2>2, SyncServerKeeps, SyncPolicyKeeps, ConfigMapEventKeeps
  <2>3. CASE Fetch \/ EnsureNetworkPolicy \/ CallFails
    BY <2>3, FetchKeeps, EnsureKeeps, CallFailsKeeps
  <2>4. CASE ApplyStatus \/ ApplyStatusFails
    BY <2>4, ApplyStatusKeeps, ApplyStatusFailsKeeps
  <2>5. CASE UNCHANGED vars
    <3>1. UNCHANGED <<server, config, policy, touched, flags, cserver, cpolicy,
                      cpolicyFresh, changed, owned, queued, pc, work, disturbances>>
      BY <2>5 DEF vars
    <3>2. Right' = Right /\ Coming' = Coming
      BY <3>1, SameRight DEF Coming
    <3>3. Informed'
      BY <3>1, <3>2 DEF IInv, Informed
    <3>4. TypeOK' /\ Ordered' /\ Announced' /\ LabelsOnRecord'
      BY <3>1 DEF IInv, TypeOK, Ordered, Announced, LabelsOnRecord
    <3>5. QED
      BY <3>3, <3>4 DEF IInv
  <2>6. QED
    BY <2>1, <2>2, <2>3, <2>4, <2>5 DEF Next
<1>2. QED
  BY <1>1, InvInit, PTL DEF Spec

-----------------------------------------------------------------------------
(* What the invariant says at rest. *)

\* At rest after a pass that went well, policy, posture and labels are right for
\* the spec.
LEMMA RestIsRight ==
    ASSUME IInv, AppliedAtRest
    PROVE  RightFor(server.spec, server.condition)
<1>1. ~Coming
  BY DEF IInv, TypeOK, Announced, Coming, AppliedAtRest, AtRest
<1>2. server.condition \in Right
  BY <1>1 DEF IInv, Informed, AppliedAtRest, AtRest
<1>3. QED
  BY <1>2 DEF Right

\* At rest after a pass that went well the NetworkPolicy has the rules that the
\* spec, the flags of the running operator and the gateway ConfigMap call for
\* (reconcileNetworkPolicy).
THEOREM PolicyAtRest == Spec => []RestingPolicyIsCurrent
<1>1. IInv => RestingPolicyIsCurrent
  BY RestIsRight DEF RestingPolicyIsCurrent, RightFor
<1>2. QED
  BY <1>1, PolicyConvergence, PTL

\* At rest the labels that nobody else wrote are the operator's and those of
\* spec.extraLabels (applyCustomObjectMetadata, filterReservedKeys).
THEOREM LabelsAtRest == Spec => []RestingLabelsAreCurrent
<1>1. ASSUME IInv, AppliedAtRest, NEW k \in Keys \ touched
      PROVE  policy.labels[k] = IF k \in Reserved THEN "operator" ELSE server.spec.extra[k]
  <2>1. /\ policy.ours /\ policy.tracked = FilterReservedKeys(server.spec.extra)
        /\ \A j \in Keys \ Reserved : server.spec.extra[j] # None => policy.labels[j] # None
    BY <1>1, RestIsRight DEF RightFor
  <2>2. IF k \in Reserved THEN policy.labels[k] = "operator"
        ELSE policy.labels[k] \in {policy.tracked[k], None}
    BY <1>1, <2>1 DEF IInv, Announced, LabelsOnRecord
  <2>3. k \notin Reserved => policy.tracked[k] = server.spec.extra[k]
    BY <1>1, <2>1, SpecTyped, SMTT(60) DEF IInv, TypeOK, Servers
  <2>4. QED
    BY <2>1, <2>2, <2>3
<1>2. IInv => RestingLabelsAreCurrent
  BY <1>1 DEF RestingLabelsAreCurrent
<1>3. QED
  BY <1>2, PolicyConvergence, PTL

\* A rule for the server's port and some peers admits whom one of the peers does.
LEMMA ServerRule ==
    ASSUME NEW peers, peers # {}, NEW pod, NEW port
    PROVE  /\ Rule({"server"}, peers).peers = peers
           /\ RuleAdmits(Rule({"server"}, peers), pod, port)
                <=> port = "server" /\ \E p \in peers : PeerAdmits(p, pod)
<1>1. Rule({"server"}, peers).peers = peers /\ Rule({"server"}, peers).ports = {"server"}
  BY DEF Rule
<1>2. QED
  BY <1>1 DEF RuleAdmits

\* Under the restricted posture, a server that names no source is reached at rest
\* by the operator's own pods and by those of its gateway's namespace, on its own
\* port, and by nobody else (operatorIngressPeers, gatewayIngressPeers).
THEOREM ReachabilityAtRest == Spec => []RestingReachability
<1> DEFINE g == GatewayNamespace(server.spec, config)
           meant(pod) == \/ flags.identity /\ pod.ns = "operator" /\ pod.labelled
                         \/ pod.ns = g
<1>1. ASSUME IInv, AppliedAtRest, flags.posture = "restricted", server.spec.ingressFrom = {}
      PROVE  Admitted(policy.ingress) = {c \in Pods \X {"server"} : meant(c[1])}
  <2> DEFINE derived == Derived(server.spec, flags, config)
             op == Peer("some", "operator")
             gw == Peer(None, g)
  <2>1. /\ server.spec \in Specs /\ config \in Configs /\ flags \in Flags
    BY <1>1 DEF IInv, TypeOK, Servers
  <2>2. g \in Namespaces \cup {None}
    <3>1. config \in [ConfigKeys -> Namespaces \cup {None}]
      BY <2>1, PolicyAssumption
    <3>2. QED
      BY <3>1 DEF GatewayNamespace, ConfigKeys
  <2>3. derived = (IF flags.identity THEN {op} ELSE {}) \cup (IF g # None THEN {gw} ELSE {})
    BY <1>1 DEF Derived, OperatorIngressPeers, GatewayIngressPeers, DerivesPeers,
                NamespaceNamePeer
  <2>4. policy.ingress = IF derived = {} THEN {} ELSE {Rule({"server"}, derived)}
    <3>1. derived \in SUBSET Peers
      BY <2>1, DerivedTyped
    <3>2. policy.ingress = CreateNetworkPolicy(server.spec, derived, flags).ingress
      BY <1>1, RestIsRight DEF RightFor
    <3> HIDE DEF derived
    <3>3. policy.ingress = DefaultIngressRules(server.spec, flags, derived)
      BY <2>1, <3>1, <3>2, CreateTyped
    <3>4. QED
      BY <1>1, <3>3 DEF DefaultIngressRules
  <2>5. \A pod \in Pods : PeerAdmits(op, pod) <=> pod.ns = "operator" /\ pod.labelled
    BY PolicyAssumption DEF Peer, PeerAdmits, Pods
  <2>6. \A pod \in Pods : g # None => (PeerAdmits(gw, pod) <=> pod.ns = g)
    BY <2>2, PolicyAssumption DEF Peer, PeerAdmits, Pods
  <2>7. \A pod \in Pods : pod.ns # None
    BY PolicyAssumption DEF Pods
  <2> HIDE DEF derived, op, gw, g
  <2>8. \A pod, port : (\E r \in policy.ingress : RuleAdmits(r, pod, port))
                         <=> port = "server" /\ \E p \in derived : PeerAdmits(p, pod)
    <3>1. CASE derived = {}
      BY <2>4, <3>1
    <3>2. CASE derived # {}
      <4>1. policy.ingress = {Rule({"server"}, derived)}
        BY <2>4, <3>2
      <4>2. \A pod, port : RuleAdmits(Rule({"server"}, derived), pod, port)
                             <=> port = "server" /\ \E p \in derived : PeerAdmits(p, pod)
        BY <3>2, ServerRule
      <4>3. QED
        BY <4>1, <4>2
    <3>3. QED
      BY <3>1, <3>2
  <2>9. \A pod \in Pods : (\E p \in derived : PeerAdmits(p, pod)) <=> meant(pod)
    <3>1. flags.identity \in BOOLEAN
      BY <2>1, PolicyAssumption
    <3>2. CASE flags.identity /\ g # None
      BY <2>3, <2>5, <2>6, <3>2
    <3>3. CASE flags.identity /\ g = None
      BY <2>3, <2>5, <2>7, <3>3
    <3>4. CASE ~flags.identity /\ g # None
      BY <2>3, <2>6, <3>4
    <3>5. CASE ~flags.identity /\ g = None
      BY <2>3, <2>7, <3>5
    <3>6. QED
      BY <3>1, <3>2, <3>3, <3>4, <3>5
  <2> HIDE DEF meant
  <2>10. \A c \in Pods \X Ports :
           (\E r \in policy.ingress : RuleAdmits(r, c[1], c[2])) <=> c[2] = "server" /\ meant(c[1])
    <3> TAKE c \in Pods \X Ports
    <3>1. c[1] \in Pods
      BY SMTT(60)
    <3>2. (\E p \in derived : PeerAdmits(p, c[1])) <=> meant(c[1])
      BY <2>9, <3>1
    <3>3. (\E r \in policy.ingress : RuleAdmits(r, c[1], c[2]))
            <=> c[2] = "server" /\ \E p \in derived : PeerAdmits(p, c[1])
      BY <2>8
    <3>4. QED
      BY <3>2, <3>3
  <2>11. Admitted(policy.ingress) = {c \in Pods \X Ports : c[2] = "server" /\ meant(c[1])}
    BY <2>10 DEF Admitted
  <2>12. QED
    BY <2>11, AddressAssumption, SMTT(60)
<1>2. IInv => RestingReachability
  <2>1. g = IF server.spec.provider = "httproute" THEN config["gateway-namespace"]
            ELSE IF server.spec.provider = "kuadrant"
                 THEN config["extension-namespace"] ELSE None
    BY DEF GatewayNamespace
  <2> HIDE DEF g
  <2>2. QED
    BY <1>1, <2>1 DEF RestingReachability
<1>3. QED
  BY <1>2, PolicyConvergence, PTL

\* A valid peer restricts its sources exactly when, in each address family, some
\* pod is kept out: one that nobody names, without labels, at an address outside
\* the block or in its exceptions (peerRestrictsSource).
LEMMA SourceRestricted ==
    ASSUME NEW p \in Peers, ValidPeer(p)
    PROVE  PeerRestrictsSource(p) <=> ~AdmitsFamily(p)
<1>1. /\ p.block \in Blocks \cup {None} /\ p.except \in SUBSET Addresses
      /\ p.pods \in {None, "all", "some"}
      /\ p.ns \in {None, "all", "operator"} \cup Namespaces
  BY DEF Peers, Selected
<1> DEFINE stranger(a) == [ns |-> "elsewhere", labelled |-> FALSE, addr |-> a]
<1>2. \A a \in Addresses : /\ stranger(a) \in Pods /\ stranger(a).addr = a
                           /\ stranger(a).ns = "elsewhere" /\ ~stranger(a).labelled
  BY DEF Pods
<1> HIDE DEF stranger
<1>3. ASSUME PeerRestrictsSource(p), NEW family \in Families
      PROVE  \E pod \in Pods : pod.addr \in family /\ ~PeerAdmits(p, pod)
  <2>1. CASE p.block # None
    <3>1. p.block \in Blocks /\ p.except \subseteq p.block
      BY <1>1, <2>1 DEF ValidPeer
    <3>2. p.except # {} \/ p.block \notin Families
      BY <1>3, <2>1 DEF PeerRestrictsSource
    <3>3. PICK a \in family : a \notin p.block \ p.except
      BY <3>1, <3>2, AddressAssumption, SMTT(60)
    <3>4. a \in Addresses
      BY AddressFacts
    <3>5. ~PeerAdmits(p, stranger(a))
      BY <1>2, <2>1, <3>3, <3>4 DEF PeerAdmits
    <3>6. QED
      BY <1>2, <3>4, <3>5
  <2>2. CASE p.block = None
    <3>1. PICK a \in family : TRUE
      BY AddressFacts
    <3>2. a \in Addresses
      BY AddressFacts
    <3>3. p.ns # "elsewhere"
      BY <1>1, PolicyAssumption
    <3>4. ~PeerAdmits(p, stranger(a))
      <4>1. CASE p.pods = "some"
        BY <1>2, <2>2, <3>2, <4>1 DEF PeerAdmits
      <4>2. CASE p.ns = None
        BY <1>2, <2>2, <3>2, <4>2, PolicyAssumption DEF PeerAdmits
      <4>3. CASE p.ns \notin {None, "all"}
        BY <1>2, <2>2, <3>2, <3>3, <4>3 DEF PeerAdmits
      <4>4. QED
        BY <1>3, <2>2, <4>1, <4>2, <4>3 DEF PeerRestrictsSource
    <3>5. QED
      BY <1>2, <3>2, <3>4
  <2>3. QED
    BY <2>1, <2>2
<1>4. ASSUME ~PeerRestrictsSource(p) PROVE AdmitsFamily(p)
  <2>1. CASE p.block # None
    <3>1. p.block \in Families /\ p.except = {}
      BY <1>4, <2>1 DEF PeerRestrictsSource
    <3>2. QED
      BY <2>1, <3>1 DEF AdmitsFamily, PeerAdmits
  <2>2. CASE p.block = None
    <3>1. p.pods # "some" /\ p.ns \in {None, "all"} /\ ~(p.pods = "all" /\ p.ns = None)
      BY <1>4, <2>2 DEF PeerRestrictsSource
    <3>2. p.ns = "all"
      BY <1>1, <2>2, <3>1 DEF ValidPeer
    <3>3. \A pod \in Pods : PeerAdmits(p, pod)
      BY <2>2, <3>1, <3>2, PolicyAssumption DEF PeerAdmits
    <3>4. QED
      BY <3>3, AddressFacts DEF AdmitsFamily
  <2>3. QED
    BY <2>1, <2>2
<1>5. QED
  BY <1>3, <1>4 DEF AdmitsFamily

\* The condition says that ingress is unrestricted exactly when one of the rules
\* built for the spec opens the server to an address family.
LEMMA IngressHonest ==
    ASSUME NEW s \in Specs, ValidSpec(s), NEW f \in Flags, NEW c \in Configs
    PROVE  LET ingress == DefaultIngressRules(s, f, Derived(s, f, c))
           IN  HasIngressSourceRestriction(ingress) <=> ~\E r \in ingress : OpensFamily(r)
<1> DEFINE d == Derived(s, f, c)
           ingress == DefaultIngressRules(s, f, d)
<1>1. /\ s.ingressFrom \in SUBSET Peers /\ \A p \in s.ingressFrom : ValidPeer(p)
  BY SpecTyped DEF ValidSpec
<1>2. d \in SUBSET Peers
  BY DerivedTyped
<1>3. \A p \in d : ValidPeer(p)
  <2>1. ValidPeer(Peer("some", "operator"))
    BY PolicyAssumption DEF ValidPeer, Peer
  <2>2. \A n : n # None => ValidPeer(Peer(None, n))
    BY DEF ValidPeer, Peer
  <2>3. QED
    BY <2>1, <2>2 DEF Derived, OperatorIngressPeers, GatewayIngressPeers, NamespaceNamePeer
<1>4. \A peers : /\ Rule({"server"}, peers).peers = peers
                 /\ Rule({"server"}, peers).ports = {"server"}
  BY DEF Rule
<1>5. ASSUME NEW peers \in SUBSET Peers, \A p \in peers : ValidPeer(p)
      PROVE  HasIngressSourceRestriction({Rule({"server"}, peers)})
               <=> ~OpensFamily(Rule({"server"}, peers))
  <2>1. HasIngressSourceRestriction({Rule({"server"}, peers)})
          <=> peers # {} /\ \A p \in peers : PeerRestrictsSource(p)
    BY <1>4 DEF HasIngressSourceRestriction
  <2>2. OpensFamily(Rule({"server"}, peers))
          <=> peers = {} \/ \E p \in peers : AdmitsFamily(p)
    BY <1>4 DEF OpensFamily
  <2>3. QED
    BY <1>5, <2>1, <2>2, SourceRestricted
<1>6. HasIngressSourceRestriction({})
  BY DEF HasIngressSourceRestriction
<1>7. ingress = {} \/ \E peers \in {{}, s.ingressFrom, d} : ingress = {Rule({"server"}, peers)}
  BY DEF DefaultIngressRules
<1> HIDE DEF d, ingress
<1>8. HasIngressSourceRestriction(ingress) <=> ~\E r \in ingress : OpensFamily(r)
  BY <1>1, <1>2, <1>3, <1>5, <1>6, <1>7
<1>9. QED
  BY <1>8 DEF d, ingress

\* The rules that the operator builds restrict egress unless the spec names neither
\* destinations nor ports, and then they let everything out.
LEMMA EgressHonest ==
    ASSUME NEW s \in Specs
    PROVE  ~HasEgressDestinationRestriction(BuildEgressRules(s))
             <=> /\ Admitted(BuildEgressRules(s)) = Pods \X Ports
                 /\ s.egressTo = {} /\ s.egressPorts = {}
<1>1. \A ports, peers : Rule(ports, peers).ports = ports /\ Rule(ports, peers).peers = peers
  BY DEF Rule
<1>2. CASE s.egressTo = {} /\ s.egressPorts = {}
  <2>1. BuildEgressRules(s) = {Rule({}, {})}
    BY <1>2 DEF BuildEgressRules
  <2>2. \A pod, port : RuleAdmits(Rule({}, {}), pod, port)
    BY <1>1 DEF RuleAdmits
  <2>3. Admitted({Rule({}, {})}) = Pods \X Ports
    BY <2>2 DEF Admitted
  <2>4. ~HasEgressDestinationRestriction({Rule({}, {})})
    BY <1>1 DEF HasEgressDestinationRestriction
  <2>5. QED
    BY <1>2, <2>1, <2>3, <2>4
<1>3. CASE ~(s.egressTo = {} /\ s.egressPorts = {})
  <2>1. Rule(s.egressPorts, s.egressTo) \in BuildEgressRules(s)
    BY <1>3 DEF BuildEgressRules
  <2>2. QED
    BY <1>1, <1>3, <2>1 DEF HasEgressDestinationRestriction
<1>4. QED
  BY <1>2, <1>3

\* The posture says of either direction whether it is restricted.
LEMMA PostureMeans ==
    ASSUME NEW i, NEW e
    PROVE  /\ Posture(i, e) \in {"IngressUnrestricted", "Unrestricted"}
                <=> ~HasIngressSourceRestriction(i)
           /\ Posture(i, e) \in {"EgressUnrestricted", "Unrestricted"}
                <=> ~HasEgressDestinationRestriction(e)
<1> DEFINE I == HasIngressSourceRestriction(i)
           E == HasEgressDestinationRestriction(e)
<1>1. I \in BOOLEAN /\ E \in BOOLEAN
  BY DEF HasIngressSourceRestriction, HasEgressDestinationRestriction
<1>2. Posture(i, e) = CASE I /\ E -> "Restricted" [] I /\ ~E -> "EgressUnrestricted"
                        [] ~I /\ E -> "IngressUnrestricted" [] OTHER -> "Unrestricted"
  BY DEF Posture
<1> HIDE DEF I, E
<1>3. /\ Posture(i, e) \in {"IngressUnrestricted", "Unrestricted"} <=> ~I
      /\ Posture(i, e) \in {"EgressUnrestricted", "Unrestricted"} <=> ~E
  BY <1>1, <1>2
<1>4. QED
  BY <1>3 DEF I, E

\* What the condition NetworkPolicyRestricted says at rest: it calls ingress
\* unrestricted exactly when a rule, or one peer of a rule by itself, lets a whole
\* address family in (hasIngressSourceRestriction), and egress unrestricted exactly
\* when everything is let out and the spec names neither destinations nor ports
\* (hasEgressDestinationRestriction).
THEOREM PostureAtRest == Spec => []RestingPostureIsHonest
<1>1. ASSUME IInv, AppliedAtRest
      PROVE  /\ (server.condition \in {"IngressUnrestricted", "Unrestricted"})
                  <=> (\E r \in policy.ingress : OpensFamily(r))
             /\ (server.condition \in {"EgressUnrestricted", "Unrestricted"})
                  <=> /\ Admitted(policy.egress) = Pods \X Ports
                      /\ server.spec.egressTo = {} /\ server.spec.egressPorts = {}
  <2> DEFINE s == server.spec
             d == Derived(s, flags, config)
  <2>1. s \in Specs /\ flags \in Flags /\ config \in Configs
    BY <1>1 DEF IInv, TypeOK, Servers
  <2>2. d \in SUBSET Peers
    BY <2>1, DerivedTyped
  <2>3. /\ ValidSpec(s) /\ server.condition = Posture(policy.ingress, policy.egress)
        /\ policy.ingress = CreateNetworkPolicy(s, d, flags).ingress
        /\ policy.egress = CreateNetworkPolicy(s, d, flags).egress
    BY <1>1, RestIsRight DEF RightFor
  <2>4. policy.ingress = DefaultIngressRules(s, flags, d) /\ policy.egress = BuildEgressRules(s)
    <3> HIDE DEF s, d
    <3>1. QED
      BY <2>1, <2>2, <2>3, CreateTyped
  <2>5. HasIngressSourceRestriction(policy.ingress) <=> ~\E r \in policy.ingress : OpensFamily(r)
    BY <2>1, <2>3, <2>4, IngressHonest
  <2>6. ~HasEgressDestinationRestriction(policy.egress)
          <=> Admitted(policy.egress) = Pods \X Ports /\ s.egressTo = {} /\ s.egressPorts = {}
    BY <2>1, <2>4, EgressHonest
  <2>7. /\ server.condition \in {"IngressUnrestricted", "Unrestricted"}
             <=> ~HasIngressSourceRestriction(policy.ingress)
        /\ server.condition \in {"EgressUnrestricted", "Unrestricted"}
             <=> ~HasEgressDestinationRestriction(policy.egress)
    BY <2>3, PostureMeans
  <2>8. QED
    BY <2>5, <2>6, <2>7
<1>2. IInv => RestingPostureIsHonest
  BY <1>1 DEF RestingPostureIsHonest
<1>3. QED
  BY <1>2, PolicyConvergence, PTL
=============================================================================
