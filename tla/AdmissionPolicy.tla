--------------------------- MODULE AdmissionPolicy ---------------------------
(***************************************************************************)
(* The admission policy: how it is parsed at startup and how the webhook   *)
(* judges an MCPServer by it.                                              *)
(*                                                                         *)
(* An image reference is a host (with or without a port), a path and a tag *)
(* or digest.  Its text is a sequence of tokens, fine enough for a prefix  *)
(* to end inside a name.  A security context is the set of settings it     *)
(* makes.                                                                  *)
(***************************************************************************)
EXTENDS OperatorConfig

-----------------------------------------------------------------------------
(* Parsing: ParseAdmissionPolicy and HasActiveRules. *)

FlagOrEnv(list) == IF list.flag # <<>> THEN list.flag ELSE list.env

ParseAdmissionPolicy(c) ==
    [imageAllowlist |-> ToSet(FlagOrEnv(c.imageAllowlist)),
     requireImageDigest |-> c.requireImageDigest.flag \/ c.requireImageDigest.env = "true",
     maxStorageMounts |->
        IF c.maxStorageMounts.flag >= 0 THEN c.maxStorageMounts.flag
        ELSE IF c.maxStorageMounts.env >= 0 THEN c.maxStorageMounts.env ELSE -1,
     requiredLabels |-> ToSet(FlagOrEnv(c.requiredLabels)),
     disallowPrivileged |->
        IF c.disallowPrivileged.flag # None THEN c.disallowPrivileged.flag
        ELSE c.disallowPrivileged.env # "false"]

\* Variant: the rule that is on by default is forgotten.
HasConfiguredRules(policy) ==
    \/ policy.imageAllowlist # {} \/ policy.requireImageDigest
    \/ policy.maxStorageMounts >= 0 \/ policy.requiredLabels # {}

HasActiveRules(policy) ==
    \/ policy.imageAllowlist # {} \/ policy.requireImageDigest
    \/ policy.maxStorageMounts >= 0 \/ policy.requiredLabels # {}
    \/ policy.disallowPrivileged

-----------------------------------------------------------------------------
(* Judging: the rules of policy.go. *)

\* The tokens of a name, of which one is a prefix of another.
Tokens == [ghcr |-> <<"ghcr">>, ghcr5000 |-> <<"ghcr", ":", "5000">>,
           team |-> <<"team">>, teamx |-> <<"team", "-x">>, app |-> <<"app">>]

Hosts == {"ghcr", "ghcr5000"}
Components == {"team", "teamx", "app"}

ImageRefs ==
    [host : Hosts, path : Seq(Components), tag : BOOLEAN, digest : {None} \cup STRING]

\* An entry of the allowlist; trailing slashes do not matter beyond the first.
ImagePrefixes == [host : Hosts, path : Seq(Components), slash : BOOLEAN]

\* host/component/component
PathText(host, path) ==
    LET text[i \in 0..Len(path)] ==
            IF i = 0 THEN Tokens[host] ELSE text[i - 1] \o <<"/">> \o Tokens[path[i]]
    IN  text[Len(path)]

ImageText(image) ==
    PathText(image.host, image.path)
        \o (IF image.tag THEN <<":", "tag">> ELSE <<>>)
        \o (IF image.digest # None THEN <<"@", "digest">> ELSE <<>>)

PrefixText(prefix) ==
    PathText(prefix.host, prefix.path) \o (IF prefix.slash THEN <<"/">> ELSE <<>>)

\* Variant: any text that begins with the prefix.
PrefixOfText(policy, image) ==
    policy.imageAllowlist = {} \/
        \E prefix \in policy.imageAllowlist : IsPrefix(PrefixText(prefix), ImageText(image))

\* ValidateImageAllowlist: the text begins with a prefix that ends at a boundary.
\* A colon after a host alone would be a port.
ValidateImageAllowlist(policy, image) ==
    policy.imageAllowlist = {} \/
        \E prefix \in policy.imageAllowlist :
            LET p == PrefixText(prefix)
                text == ImageText(image)
            IN  /\ IsPrefix(p, text)
                /\ \/ Len(text) = Len(p)
                   \/ text[Len(p) + 1] \in {"/", "@"}
                   \/ text[Len(p) + 1] = ":" /\ Contains(p, "/")
                   \/ Last(p) = "/"

ValidateImageDigest(policy, image) ==
    policy.requireImageDigest => image.digest = "sha256"

ValidateRuntimePolicy(policy, storage, labels) ==
    /\ policy.maxStorageMounts >= 0 => storage <= policy.maxStorageMounts
    /\ policy.requiredLabels \subseteq labels

PodForbidden == {"runAsNonRoot=false", "runAsUser=0"}

ContainerForbidden ==
    {"privileged", "allowPrivilegeEscalation", "runAsNonRoot=false", "runAsUser=0",
     "add:SYS_ADMIN"}

ValidateSecurityContext(policy, pod, container) ==
    policy.disallowPrivileged =>
        pod \cap PodForbidden = {} /\ container \cap ContainerForbidden = {}

\* MCPServerCustomValidator.validate, of a v1alpha1 object; without a policy
\* everything is admitted.
Validate(policy, o) ==
    policy # None =>
        /\ o.spec.source.image # None =>
              /\ ValidateImageAllowlist(policy, o.spec.source.image)
              /\ ValidateImageDigest(policy, o.spec.source.image)
        /\ ValidateRuntimePolicy(policy, o.spec.config.storage, o.labels)
        /\ ValidateSecurityContext(policy, o.spec.runtime.pod, o.spec.runtime.container)

-----------------------------------------------------------------------------
(* What the rules are meant to say, of a v1beta1 object. *)

\* The image comes from the host and from beneath the path the prefix names.
From(prefix, image) ==
    image.host = prefix.host /\ IsPrefix(prefix.path, image.path)

Complies(o, policy) ==
    /\ o.spec.source.image # None =>
          /\ policy.imageAllowlist # {} =>
                \E prefix \in policy.imageAllowlist : From(prefix, o.spec.source.image)
          /\ policy.requireImageDigest => o.spec.source.image.digest = "sha256"
    /\ \A l \in policy.requiredLabels : l \in o.labels
    /\ policy.maxStorageMounts \in 0..(o.spec.config.storage - 1) => FALSE
    /\ policy.disallowPrivileged =>
          \A setting \in o.spec.runtime.pod \cup o.spec.runtime.container :
              setting \notin ContainerForbidden
=============================================================================
