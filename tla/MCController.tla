---------------------------- MODULE MCController ----------------------------
(* Small instances of MCPServerController.                                 *)
EXTENDS MCPServerController

CONSTANTS g1, g2, g3

\* Two providers; g1 and g2 are two configRefs of the first.
MCProviderOf == [g \in Gateways |-> IF g = g3 THEN "kuadrant" ELSE "httproute"]

SpecOf(image, replicas, gateway, tls) ==
    [image |-> image, replicas |-> replicas, gateway |-> gateway, tls |-> tls]

\* A first spec, and the changes the user may make to it.
Plain == SpecOf("a", 1, None, FALSE)
WithGateway == SpecOf("a", 1, g1, FALSE)
WithTLS == SpecOf("a", 1, None, TRUE)

PlainFirst == {Plain}
GatewayFirst == {WithGateway}
TLSFirst == {WithTLS}

\* Rolling out another image and scaling to zero.
WorkloadSpecs == {Plain, SpecOf("b", 1, None, FALSE), SpecOf("a", 0, None, FALSE)}
TwoImages == {Plain, SpecOf("b", 1, None, FALSE)}

\* Removing a gateway and setting it again.
GatewayOnOff == {WithGateway, Plain}

\* Removing a gateway, giving it another configRef, changing its provider; scaled
\* to zero, so that the workload plays no part and there is room for two edits.
IdleGateway == {SpecOf("a", 0, g1, FALSE)}
IdleGatewaySpecs == {SpecOf("a", 0, g, FALSE) : g \in Gateways \cup {None}}

-----------------------------------------------------------------------------
(* What comments and documents say of the status and the code does not     *)
(* keep. No configuration lists these; the comment of each says which one  *)
(* refutes it when it is added.                                            *)

\* The handshake is skipped "because the endpoint was already verified for the
\* current generation" (metrics reference): an up-to-date Verified=True comes
\* from a handshake with this MCPServer at this generation. Refuted under
\* ControllerRecreate.
VerifiedAtCurrentGeneration ==
    server.status.verified \in VerifiedTrue /\ server.status.observedGeneration = server.gen =>
        \E c \in CABundles : <<server.uid, server.gen, c>> \in dialled

\* "the handshake is re-verified when the CA bundle Secret content changes"
\* (reconcileEndpoint): when nothing is pending, a verified server has passed a
\* handshake with the bundle it has now. Refuted under ControllerRecreate with
\* two disturbances.
VerifiedWithCurrentCA ==
    AtRest /\ Unobstructed /\ server.spec.tls /\ server.status.verified \in VerifiedTrue =>
        <<server.uid, server.gen, ca>> \in dialled

\* "When observedGeneration matches metadata.generation, the status is
\* up-to-date" (MCPServerStatus), when nothing is pending. Refuted under
\* ControllerGatewayFaults with an endpoint that is down.
UpToDateWhenObserved ==
    AtRest /\ Unobstructed /\ server.status.observedGeneration = server.gen =>
        (server.status.gateway = "GatewayRegistered" <=>
            binding.gateway # None /\ binding.registered = binding.gen)
=============================================================================
