----------------------------- MODULE MCHTTPRoute -----------------------------
(* Small instances of the httproute provider. *)
EXTENDS HTTPRouteProvider

Said(g, r, p) == [gateway |-> g, routeHost |-> r, publicHost |-> p]

\* A Gateway whose address is needed, another with a host of its own, and a
\* host that does not validate.
MCContents == {Said("gw1", None, None), Said("gw2", "host1", None),
               Said("gw1", Malformed, None)}

Runs(p, s) == [path |-> p, service |-> s]

MCServerSpecs == {Runs("p", "byo"), Runs("q", "managed")}

\* The first ConfigMap names a Gateway without an address, the second one with
\* a host; the Service is there; the route's name may be taken.
MCWorlds ==
    {[server   |-> Runs("p", "byo"),
      config   |-> [c \in ConfigMaps |-> IF c = "cm1" THEN Said("gw1", None, None)
                                         ELSE Said("gw2", "host1", None)],
      services |-> [s \in Services |-> "port1"],
      gateways |-> [g \in Gateways |-> [address |-> None, scheme |-> "http"]],
      foreign  |-> f] : f \in BOOLEAN}
=============================================================================
