----------------------------- MODULE MCOperator -----------------------------
(***************************************************************************)
(* Small instances of Operator.  A world spends its budget on requests, on *)
(* CRDs, on configurations or on the log level.                            *)
(***************************************************************************)
EXTENDS Operator

TwoProviders == <<"httproute", "kuadrant">>

Required == [p \in {"httproute", "kuadrant"} |->
                IF p = "httproute" THEN {"routes"} ELSE {"routes", "extensions"}]

-----------------------------------------------------------------------------
(* Configurations *)

Image(host, path, tag, digest) == [host |-> host, path |-> path, tag |-> tag, digest |-> digest]
Prefix(host, path, slash) == [host |-> host, path |-> path, slash |-> slash]

Unset == [flag |-> <<>>, env |-> <<>>]

NoRules ==
    [imageAllowlist |-> Unset, requireImageDigest |-> [flag |-> FALSE, env |-> ""],
     maxStorageMounts |-> [flag |-> -1, env |-> -1], requiredLabels |-> Unset,
     disallowPrivileged |-> [flag |-> FALSE, env |-> ""]]

DefaultRules == [NoRules EXCEPT !.disallowPrivileged.flag = None]

TeamRules ==
    [NoRules EXCEPT !.imageAllowlist.env = <<Prefix("ghcr", <<"team">>, FALSE)>>,
                    !.maxStorageMounts.env = 1,
                    !.requiredLabels.flag = <<"owner">>]

HostRules ==
    [NoRules EXCEPT !.imageAllowlist.flag = <<Prefix("ghcr", <<>>, FALSE),
                                              Prefix("ghcr5000", <<"team">>, TRUE)>>,
                    !.requireImageDigest.env = "true",
                    !.disallowPrivileged.flag = TRUE]

NoTLS == [min |-> None, suites |-> <<>>, groups |-> <<>>]
List(flag, env) == [flag |-> flag, env |-> env]

Plain ==
    [webhook |-> FALSE, policy |-> DefaultRules, posture |-> "", tls |-> NoTLS,
     propagate |-> FALSE, httproute |-> List(None, <<>>), kuadrant |-> List(None, <<>>),
     log |-> [watched |-> TRUE, key |-> TRUE], level |-> 0]

Reviewing(rules) == [Plain EXCEPT !.webhook = TRUE, !.policy = rules]

Startups ==
    {[Plain EXCEPT !.posture = "closed"],
     [Plain EXCEPT !.log = [watched |-> TRUE, key |-> FALSE]],
     [Plain EXCEPT !.log = [watched |-> FALSE, key |-> FALSE], !.posture = "restricted"],
     [Plain EXCEPT !.httproute = List(None, <<"Not_A_Label">>)],
     [Plain EXCEPT !.httproute = List(<<>>, <<"Not_A_Label">>),
                   !.kuadrant = List(None, <<"Not_A_Label", "infra">>)],
     [Plain EXCEPT !.kuadrant = List(<<"Not_A_Label">>, <<"infra">>)]}
    \cup {[Plain EXCEPT !.propagate = TRUE,
                        !.tls = [min |-> m, suites |-> <<"ECDHE-RSA", "OTHER">>, groups |-> g]] :
             m \in {"VersionTLS12", "VersionTLS13", "Unknown"},
             g \in {<<>>, <<"secp256r1", "x25519", "p256">>, <<"unknown">>}}

Policies == {Plain} \cup {Reviewing(r) : r \in {NoRules, DefaultRules, TeamRules, HostRules}}

MCConfigs == Policies \cup Startups

-----------------------------------------------------------------------------
(* Objects *)

NoStatus ==
    [address |-> None, serverInfo |-> None,
     conditions |-> [accepted |-> None, enforced |-> None, available |-> None, verified |-> None]]

Server(image, labels) ==
    [labels |-> labels,
     spec |-> [source |-> [image |-> image],
               config |-> [port |-> 8080, storage |-> 0],
               runtime |-> [replicas |-> 1, pod |-> {}, container |-> {}, probes |-> None],
               mcp |-> [stateless |-> None], network |-> None, transport |-> None,
               workloadRef |-> None, serviceRef |-> None, gateway |-> None],
     status |-> NoStatus]

Tagged == Image("ghcr", <<"team", "app">>, TRUE, None)
Pinned == Image("ghcr", <<"team">>, FALSE, "sha256")
Images == {Tagged, Pinned, Image("ghcr", <<"team">>, TRUE, None),
           Image("ghcr", <<"teamx", "app">>, TRUE, None),
           Image("ghcr5000", <<"team", "app">>, TRUE, "sha256"),
           Image("ghcr5000", <<"app">>, FALSE, "short")}

Own == Server(Tagged, {"owner"})

Referring == [Own EXCEPT !.spec.serviceRef = "svc", !.spec.gateway = "gw",
                         !.spec.network = [ingressFrom |-> "peers", egressTo |-> None],
                         !.spec.transport = [tls |-> TRUE, caBundle |-> "ca"]]

Existing == [Server(None, {"owner"}) EXCEPT !.spec.workloadRef = "app", !.spec.serviceRef = "svc"]

Creations ==
    {Own, Existing, Server(Tagged, {}), Server(None, {"owner"}),
     [Own EXCEPT !.spec.config.storage = 2], [Own EXCEPT !.spec.runtime.pod = {"runAsUser=0"}],
     [Own EXCEPT !.spec.runtime.container = {"add:SYS_ADMIN"}]}
    \cup {Server(i, {"owner"}) : i \in Images}

MCChanges ==
    {<<"none">>, <<"labels", {}>>, <<"storage", 2>>, <<"pod", {"runAsNonRoot=false"}>>,
     <<"image", Pinned>>}

Statuses ==
    {<<Condition("True", "Available"), Condition("True", "Verified")>>,
     <<Condition("True", "Available"), Condition("True", "AuthSkipped")>>,
     <<Condition("True", "Available"), Condition("False", "EndpointUnavailable")>>,
     <<Condition("False", "GatewayNotRegistered"), Condition("True", "Verified")>>,
     <<Condition("False", "WorkloadUnavailable"), Condition("Unknown", "NotVerified")>>,
     <<Condition("Unknown", "Initializing"), Condition("Unknown", "NotVerified")>>,
     <<Condition("True", "ScaledToZero"), Condition("Unknown", "NotVerified")>>}

MCReported == {s \in Statuses : s[1].status = "True" /\ s[2].status # "Unknown"}

\* What a release before v1beta1 stored.
Old(ready) ==
    [ConvertFrom(Own) EXCEPT !.status = [address |-> [url |-> "url"],
                                         serverInfo |-> [name |-> "n", capabilities |-> None],
                                         conditions |-> [accepted |-> Condition("True", "Valid"),
                                                         enforced |-> None, ready |-> ready]]]

Readies == {None, Condition("True", "Available"), Condition("False", "MCPEndpointUnavailable"),
            Condition("False", "DeploymentUnavailable"), Condition("Unknown", "Initializing"),
            Condition("True", "ScaledToZero")}

Stored(version, object) == [version |-> version, object |-> object, rv |-> 1, policy |-> None]

-----------------------------------------------------------------------------
(* Worlds *)

Budget(requests, crd, texts, deploys) ==
    [requests |-> requests, crds |-> crd, texts |-> texts, deploys |-> deploys]

World(c, s, map, b, installed, failed) ==
    [config |-> c, stored |-> s, configMap |-> map, budget |-> b, crds |-> installed,
     faults |-> failed]

Everything == {{"mcpservers", "routes", "extensions"}}
Some == {{"mcpservers"}, {"mcpservers", "routes"}}

MCTexts == {None, <<"no key">>, <<"name", "debug">>, <<"name", "loud">>, <<"number", 1>>,
            <<"number", 128>>, <<"number", 129>>, <<"number", 0>>}

Reports(pair, o) ==
    [o EXCEPT !.status.conditions = [accepted |-> Condition("True", "Valid"),
                                     enforced |-> Condition("True", "WebhookEnabled"),
                                     available |-> pair[1], verified |-> pair[2]]]

Creating ==
    {World(c, None, None, Budget(1, 0, 0, {Reviewing(HostRules)} \ {c}), Everything, 2) :
        c \in Policies}

Updating ==
    {World(Reviewing(TeamRules), Stored("v1beta1", Referring), None, Budget(1, 0, 0, {}),
           Everything, 1),
     World(Reviewing(TeamRules), Stored("v1beta1", Referring), None,
           Budget(1, 0, 0, {Reviewing(HostRules)}), Everything, 2)}
    \cup {World(Reviewing(TeamRules), Stored("v1beta1", Reports(pair, Referring)), None,
                Budget(1, 0, 0, {}), Everything, 2) : pair \in Statuses}
    \cup {World(Plain, Stored("v1alpha1", Old(r)), None, Budget(1, 0, 0, {}), Everything, 2) :
             r \in Readies}

Racing ==
    {World(Reviewing(TeamRules), Stored("v1beta1", o), None, Budget(2, 0, 0, {}), Everything, 2) :
        o \in {Referring, Existing}}

Installing == {World(Plain, None, None, Budget(0, 3, 0, {}), Some, 0)}

Logging == {World(Plain, None, t, Budget(0, 0, 2, {}), Everything, 1) : t \in MCTexts}

Starting == {World(c, None, None, Budget(0, 0, 0, {Plain}), {{"mcpservers"}}, 2) : c \in Startups}

MCWorlds == Creating \cup Updating \cup Racing \cup Installing \cup Logging \cup Starting

-----------------------------------------------------------------------------
(* What guides say of the operator and the code does not keep. No          *)
(* configuration lists it; Operator refutes it when it is added, with the  *)
(* worlds InstalledLater.                                                  *)

\* Nothing fails; CRDs are installed while the operator runs.
InstalledLater == {World(Plain, None, None, Budget(0, 2, 0, {}), Some, 2)}

\* "If you install them after starting it, restart the operator to enable the
\* provider" (Kuadrant architecture guide, of the CRDs a provider needs): while the
\* process runs, a provider that was left out at its start is not started.
SkippedUntilRestart ==
    [][\A p \in Providers :
          (phase = "running" /\ phase' = "running" /\ p \in pending) => p \notin started']_vars
=============================================================================
