------------------------------ MODULE MCKuadrant ------------------------------
(* Small instances of the kuadrant provider. *)
EXTENDS KuadrantProvider

CONSTANTS a, b

Said(s, h, p) == [ext |-> "ext", section |-> s, host |-> h, prefix |-> p]

\* Everything discovered; a listener and a hostname of its own; a prefix of its
\* own; a hostname that does not validate.
MCContents == {Said(None, None, None), Said("direct", "host2", None),
               Said(None, None, "p2"), Said(None, Malformed, None)}

MCServerSpecs == {[path |-> "p", service |-> "byo"], [path |-> "q", service |-> "managed"]}

\* Both generated prefixes are the same.
MCAutoPrefix == [n \in Names |-> "p1"]

Ext(g, s, h, r) == [gateway |-> g, section |-> s, publicHost |-> h, ready |-> r]
MCExtStates == {Ext("gw1", "direct", None, TRUE), Ext("gw1", "direct", "host2", FALSE),
                Ext("gw1", "wild", None, TRUE), Ext("gw2", "direct", None, TRUE)}

Listener(h, t) == [host |-> h, tls |-> t]
TwoListeners(d, t) == [s \in Sections |-> IF s = "wild" THEN Listener(Wildcard, FALSE)
                                          ELSE Listener(d, t)]
MCGatewayStates == {TwoListeners("host1", FALSE), TwoListeners("host1", TRUE),
                    TwoListeners(Wildcard, FALSE)}

World(bindings, foreign, rivals_, judged_, budget_) ==
    [bindings |-> bindings,
     servers |-> [n \in Names |-> IF n = a THEN [path |-> "p", service |-> "byo"]
                                  ELSE [path |-> "q", service |-> "managed"]],
     config |-> [c \in ConfigMaps |-> Said(None, None, None)],
     exts |-> [e \in Exts |-> Ext("gw1", "direct", None, TRUE)],
     gateways |-> [g \in Gateways |-> TwoListeners("host1", FALSE)],
     foreign |-> foreign, rivals |-> rivals_, judged |-> judged_, budget |-> budget_]

OneBinding == [n \in Names |-> IF n = a THEN NewBinding(1, "kuadrant", "cm1") ELSE NoBinding]

\* Two bindings that an earlier run of the operator has annotated.
TwoBindings ==
    [n \in Names |-> [NewBinding(1, "kuadrant", "cm1") EXCEPT
        !.extensionRef = "ext", !.gatewayRef = "gw1",
        !.serviceRef = IF n = a THEN "byo" ELSE "managed"]]

\* One binding and a disturbance; one whose name is taken; two bindings whose
\* prefixes conflict.
MCWorlds == {World(OneBinding, {}, {}, TRUE, 1), World(TwoBindings, {}, {}, FALSE, 0)}
               \cup {World(OneBinding, {k}, {}, TRUE, 0) : k \in {"route", "registration"}}

\* One binding, whose prefix somebody else has.
ConflictWorlds == {World(OneBinding, {}, {"p1"}, FALSE, 0)}
=============================================================================
