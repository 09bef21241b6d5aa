----------------------------- MODULE Validation -----------------------------
(***************************************************************************)
(* What validateConfigAndResolveWorkload makes of a spec and of the        *)
(* objects it refers to.  A check is "ok", "Invalid" (a ValidationError,   *)
(* which is reported and not retried) or "transient" (retried, and not     *)
(* reported).  The API server's answer to a read is the object's content,  *)
(* "NotFound", "BadRequest" or "error".                                    *)
(*                                                                         *)
(* An address is a sequence of bits, whose length tells its family;        *)
(* spec.env stands for config.envFrom followed by config.env.              *)
(***************************************************************************)
EXTENDS Integers, Sequences, FiniteSetsExt

CONSTANT None

MaxPort == 65535

Check(valid) == IF valid THEN "ok" ELSE "Invalid"

\* The first check that fails ends the validation.
FirstFailed(checks) ==
    LET failed == {i \in 1..Len(checks) : checks[i] # "ok"}
    IN IF failed = {} THEN "ok" ELSE checks[Min(failed)]

-----------------------------------------------------------------------------
(* References to ConfigMaps and Secrets. *)

ConfigMap(name) == <<"ConfigMap", name>>
Secret(name) == <<"Secret", name>>
ExternalService == <<"Service", "ext">>

\* Variant: an object that is not there may turn up, so it is waited for.
NotFoundIsTransient(answer) ==
    CASE answer = "BadRequest"             -> "Invalid"
      [] answer \in {"NotFound", "error"}  -> "transient"
      [] OTHER                             -> "ok"

ClassifyAPIError(answer) ==
    CASE answer \in {"NotFound", "BadRequest"} -> "Invalid"
      [] answer = "error"                      -> "transient"
      [] OTHER                                 -> "ok"

\* validateReferencedConfigMap and validateReferencedSecret, of a reference
\* that may be absent or optional.
ValidateReference(ref, object, answers) ==
    IF ref = None \/ ref.optional THEN "ok" ELSE ClassifyAPIError(answers[object])

\* A mount without the source its type names, or without a name in it, is
\* invalid whether optional or not.
ValidateStorageMount(mount, answers) ==
    IF mount.type = "EmptyDir" THEN Check(mount.ref # None)
    ELSE IF mount.ref = None \/ mount.ref.name = "" THEN "Invalid"
         ELSE ValidateReference(mount.ref, <<mount.type, mount.ref.name>>, answers)

\* validateEnvFrom and validateEnvValueFrom.
ValidateEnv(env, answers) ==
    FirstFailed(<<ValidateReference(env.configMap, ConfigMap(env.configMap.name), answers),
                  ValidateReference(env.secret, Secret(env.secret.name), answers)>>)

\* The content of a CA bundle Secret is "no key", "no PEM" or a bundle.
ValidateCABundleSecret(name, answers) ==
    FirstFailed(<<ClassifyAPIError(answers[Secret(name)]),
                  Check(answers[Secret(name)] \notin {"no key", "no PEM"})>>)

ValidateTLS(tls, answers) ==
    IF tls = None \/ ~tls.enabled \/ tls.ca = None THEN "ok"
    ELSE IF tls.skip THEN "Invalid" ELSE ValidateCABundleSecret(tls.ca, answers)

-----------------------------------------------------------------------------
(* spec.network *)

IsNumber(port) == port.name = None
ValidPortName(name) == name # "-bad-"

\* Variant: the end of a range is held against the range of ports only.
PortWithoutOrder(p) ==
    /\ p.protocol \in {None, "TCP", "UDP", "SCTP"}
    /\ p.port # None =>
          IF IsNumber(p.port) THEN p.port.number \in 1..MaxPort ELSE ValidPortName(p.port.name)
    /\ p.endPort # None => p.port # None /\ IsNumber(p.port) /\ p.endPort \in 1..MaxPort

ValidateNetworkPolicyPort(p) ==
    /\ p.protocol \in {None, "TCP", "UDP", "SCTP"}
    /\ p.port # None =>
          IF IsNumber(p.port) THEN p.port.number \in 1..MaxPort ELSE ValidPortName(p.port.name)
    /\ p.endPort # None =>
          /\ p.port # None /\ IsNumber(p.port)
          /\ p.endPort >= p.port.number
          /\ p.endPort \in 1..MaxPort

\* net.ParseCIDR: None for a text that is none, or else the network, the bits
\* after its prefix cleared.
ParseCIDR(cidr) ==
    IF cidr = None THEN None
    ELSE [cidr EXCEPT !.address = [i \in 1..Len(@) |-> IF i <= cidr.ones THEN @[i] ELSE 0]]

NetContains(net, address) ==
    Len(net.address) = Len(address) /\ \A i \in 1..net.ones : net.address[i] = address[i]

\* An excepted block has the same family, at least as long a prefix, and its
\* first address in the block.
ExceptWithin(net, except) ==
    /\ Len(net.address) = Len(except.address)
    /\ net.ones <= except.ones
    /\ NetContains(net, except.address)

ValidateNetworkPolicyPeer(p) ==
    /\ p.selects \/ p.block # None
    /\ p.block # None =>
          /\ ~p.selects
          /\ ParseCIDR(p.block.cidr) # None
          /\ \A e \in p.block.except :
                ParseCIDR(e) # None /\ ExceptWithin(ParseCIDR(p.block.cidr), ParseCIDR(e))

\* ingressFrom, egressTo and dnsEgressPeer are one list of peers here.
ValidateNetwork(network) ==
    network = None \/ /\ \A p \in network.peers : ValidateNetworkPolicyPeer(p)
                      /\ \A p \in network.ports : ValidateNetworkPolicyPort(p)

\* Reference definitions: the ports and the addresses that are meant.
PortsOf(p) == p.port.number .. (IF p.endPort = None THEN p.port.number ELSE p.endPort)
AddressesOf(cidr) ==
    {a \in [1..Len(cidr.address) -> {0, 1}] : \A i \in 1..cidr.ones : a[i] = cidr.address[i]}

Meaningful(network) ==
    /\ \A p \in network.ports :
          (p.port # None /\ IsNumber(p.port)) =>
              PortsOf(p) # {} /\ PortsOf(p) \subseteq 1..MaxPort
    /\ \A p \in network.peers :
          p.block # None =>
              \A e \in p.block.except : AddressesOf(e) \subseteq AddressesOf(p.block.cidr)

\* What the schema of the CRD leaves to validation: lists of references, none
\* beside a workloadRef, mounts with the source of their type, CA bundles with a
\* name, and texts that are CIDRs or not.
IsCIDR(cidr) ==
    cidr # None => /\ cidr \in [address : Seq({0, 1}), ones : Nat]
                   /\ cidr.ones <= Len(cidr.address)

IsSpec(spec) ==
    /\ spec.storage \in Seq(Range(spec.storage)) /\ spec.env \in Seq(Range(spec.env))
    /\ spec.workloadRef # None => spec.storage = <<>> /\ spec.env = <<>>
    /\ \A m \in Range(spec.storage) : m.ref # None
    /\ spec.tls # None => spec.tls.ca # ""
    /\ spec.network # None =>
          \A p \in spec.network.peers :
              p.block # None => IsCIDR(p.block.cidr) /\ \A e \in p.block.except : IsCIDR(e)

-----------------------------------------------------------------------------
(* References to a workload and to a Service. *)

\* Variant: expressions of the selector are passed over.
WorkloadWithLabels(spec, workload, fails) ==
    IF fails THEN "transient"
    ELSE IF workload = None \/ workload.kind # spec.workloadRef THEN "Invalid"
    ELSE Check(spec.serviceRef \/ workload.selector.labels # None)

\* getWorkload and validateWorkloadRef.  A Service of the operator's cannot
\* express more than the labels of the selector.
ValidateWorkloadRef(spec, workload, fails) ==
    IF fails THEN "transient"
    ELSE IF workload = None \/ workload.kind # spec.workloadRef THEN "Invalid"
    ELSE Check(spec.serviceRef \/ (/\ workload.selector.labels # None
                                   /\ workload.selector.expressions = None))

ValidateServiceRef(spec, answers) ==
    IF spec.serviceRef THEN ClassifyAPIError(answers[ExternalService]) ELSE "ok"

\* The rest of validateConfigAndResolveWorkload.
ValidateConfig(spec, answers) ==
    FirstFailed(
        (IF spec.workloadRef # None THEN <<>>
         ELSE [i \in 1..Len(spec.storage) |-> ValidateStorageMount(spec.storage[i], answers)]
              \o [i \in 1..Len(spec.env) |-> ValidateEnv(spec.env[i], answers)])
        \o <<Check(ValidateNetwork(spec.network)), ValidateTLS(spec.tls, answers)>>)

-----------------------------------------------------------------------------
(* The field index, by which the event of an object finds the MCPServer. *)

EnvReferences(spec) ==
    {ConfigMap(e.configMap.name) : e \in {e \in Range(spec.env) : e.configMap # None}}
    \cup {Secret(e.secret.name) : e \in {e \in Range(spec.env) : e.secret # None}}

\* Variant: what is optional is not looked for.
RequiredReferences(spec) ==
    {<<m.type, m.ref.name>> : m \in {m \in Range(spec.storage) :
                                        m.type # "EmptyDir" /\ m.ref # None /\ ~m.ref.optional}}
    \cup EnvReferences(spec)

\* extractConfigMapNames and extractPodSecretNames: optional references too.
PodReferences(spec) ==
    {<<m.type, m.ref.name>> : m \in {m \in Range(spec.storage) :
                                        m.type # "EmptyDir" /\ m.ref # None}}
    \cup EnvReferences(spec)

\* Variant: only what the pods are given is looked for.
IndexOfPods(spec) == PodReferences(spec) \cup (IF spec.serviceRef THEN {ExternalService} ELSE {})

\* With extractSecretNames, which adds the CA bundle, and extractServiceRefNames.
IndexedObjects(spec) ==
    PodReferences(spec)
    \cup (IF spec.tls # None /\ spec.tls.ca # None THEN {Secret(spec.tls.ca)} ELSE {})
    \cup (IF spec.serviceRef THEN {ExternalService} ELSE {})

\* computeConfigHash, as what it is computed from; None when nothing is found.
ComputeConfigHash(spec, answers) ==
    LET found == {o \in PodReferences(spec) : answers[o] # "NotFound"}
    IN IF found = {} THEN None
       ELSE [o \in {o \in found : answers[o] # "empty"} |-> answers[o]]

=============================================================================
