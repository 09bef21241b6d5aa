--------------------------- MODULE MCNetworkPolicy ---------------------------
(* Instances of NetworkPolicyStep for model checking. *)
EXTENDS NetworkPolicyStep

PodPeer == Peer("some", None)
EveryNamespace == Peer(None, "all")
Block(cidr, except) == [block |-> cidr, except |-> except, pods |-> None, ns |-> None]

\* Two families, each with its two halves.
IPv4 == {"4low", "4high"}
IPv6 == {"6low", "6high"}
MCFamilies == {IPv4, IPv6}
MCAddresses == UNION MCFamilies
MCBlocks == MCFamilies \cup {{a} : a \in MCAddresses}

\* "app" is a key of the operator; the user sets it in vain.
Plain == [ingressFrom |-> {}, egressTo |-> {}, egressPorts |-> {}, dns |-> None,
          provider |-> None, extra |-> [k \in {"app", "team"} |-> None]]

Labelled(s, v) == [s EXCEPT !.extra = [k \in {"app", "team"} |-> v]]

\* No network section with and without a gateway, sources of every form, a block
\* with an exception that another block gives back, and a peer that selects
\* nothing.
MCSpecs ==
    {Plain, Labelled([Plain EXCEPT !.provider = "other"], "a"),
     Labelled([Plain EXCEPT !.provider = "httproute"], "b"),
     [Plain EXCEPT !.provider = "kuadrant", !.egressPorts = {"web"}],
     [Plain EXCEPT !.ingressFrom = {PodPeer, EveryNamespace}],
     [Plain EXCEPT !.ingressFrom = {Block(IPv4, {"4low"}), Peer("all", None)},
                   !.egressTo = {Block({"4low"}, {})}, !.dns = NamespaceNamePeer("n1")],
     [Plain EXCEPT !.ingressFrom = {Block(IPv4, {}), PodPeer}, !.egressTo = {PodPeer}],
     [Plain EXCEPT !.ingressFrom = {Block(IPv4, {"4low"}), Block({"4low"}, {}),
                                    Block({"6low"}, {}), Block({"6high"}, {})},
                   !.egressTo = {Block(IPv4, {}), Block(IPv6, {})}],
     [Plain EXCEPT !.ingressFrom = {Peer("some", "all"), NamespaceNamePeer("n1")}],
     [Plain EXCEPT !.egressTo = {Peer(None, None)}]}

MCFlags ==
    {[posture |-> "open", identity |-> TRUE], [posture |-> "restricted", identity |-> TRUE],
     [posture |-> "restricted", identity |-> FALSE]}

Keyed(gateway, extension) ==
    [k \in ConfigKeys |-> IF k = "gateway-namespace" THEN gateway ELSE extension]

MCConfigs == {Keyed(None, None), Keyed("n1", "n2"), Keyed("n2", "n2")}

-----------------------------------------------------------------------------
(* What documents, comments and flag texts say of the policy and the code  *)
(* does not keep. No configuration lists these; NetworkPolicy refutes both *)
(* when they are added.                                                    *)

\* "gets a **deny-all** ingress policy" (production guide, of the restricted
\* default posture and a spec without ingressFrom): at rest, nobody is let in.
DenyAllByDefault ==
    AppliedAtRest /\ flags.posture = "restricted" /\ server.spec.ingressFrom = {} =>
        Admitted(policy.ingress) = {}

\* "Restricted (status True): both ingress source and egress destination are
\* restricted (least-privilege)" (NetworkPolicyRestricted): at rest, somebody is
\* kept from the server, and the server from somewhere.
RestrictedIsRestricted ==
    AppliedAtRest /\ server.condition = "Restricted" =>
        /\ ~(Pods \X {"server"} \subseteq Admitted(policy.ingress))
        /\ Admitted(policy.egress) # Pods \X Ports
=============================================================================
