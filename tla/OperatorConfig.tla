--------------------------- MODULE OperatorConfig ---------------------------
(***************************************************************************)
(* What the operator makes of its command line and environment: posture,   *)
(* TLS settings, provider allowlists and log level.                        *)
(*                                                                         *)
(* A comma-separated list is a sequence of trimmed entries, empty when the *)
(* flag or variable is; None is an unset value.                            *)
(***************************************************************************)
EXTENDS Integers, SequencesExt

CONSTANT None

-----------------------------------------------------------------------------
(* cmd/tlsconfig.go *)

TLSVersion == [VersionTLS10 |-> 10, VersionTLS11 |-> 11, VersionTLS12 |-> 12,
               VersionTLS13 |-> 13]

ParseTLSVersion(raw) == IF raw \in DOMAIN TLSVersion THEN TLSVersion[raw] ELSE 0

KnownSuites == {"ECDHE-RSA", "ECDHE-ECDSA"}

\* Aliases and the name that crypto/tls prints; case is already folded.
Group == [x25519 |-> "x25519", p256 |-> "curvep256", secp256r1 |-> "curvep256",
          curvep256 |-> "curvep256"]

\* Unknown names are skipped.
ParseCipherSuites(raw) ==
    LET suites[i \in 0..Len(raw)] ==
            IF i = 0 THEN <<>>
            ELSE IF raw[i] \in KnownSuites THEN Append(suites[i - 1], raw[i])
            ELSE suites[i - 1]
    IN  suites[Len(raw)]

\* Unknown names are skipped, aliases made canonical, duplicates dropped.
ParseTLSGroups(raw) ==
    LET groups[i \in 0..Len(raw)] ==
            IF i = 0 THEN <<>>
            ELSE IF raw[i] \in DOMAIN Group /\ ~Contains(groups[i - 1], Group[raw[i]])
                 THEN Append(groups[i - 1], Group[raw[i]])
            ELSE groups[i - 1]
    IN  groups[Len(raw)]

\* parseTLSSettings: only a list of groups with none that is known is an error.
TLSRefused(env) == env.groups # <<>> /\ ParseTLSGroups(env.groups) = <<>>

ParseTLSSettings(env) ==
    [min |-> IF ParseTLSVersion(env.min) > 0 THEN env.min ELSE None,
     suites |-> ParseCipherSuites(env.suites),
     groups |-> ParseTLSGroups(env.groups)]

\* Variant: the groups are not handed on.
EnvVarsWithoutGroups(tls) == [min |-> tls.min, suites |-> tls.suites, groups |-> <<>>]

\* tlsSettings.envVars: what an operand finds in its environment.
EnvVars(tls) == [min |-> tls.min, suites |-> tls.suites, groups |-> tls.groups]

\* tlsConfigFunc: what the operator's own servers and clients negotiate.  TLS
\* 1.3 chooses its own suites.
TLSConfigFunc(tls) ==
    [min |-> ParseTLSVersion(tls.min),
     suites |-> IF ParseTLSVersion(tls.min) < 13 THEN tls.suites ELSE <<>>,
     groups |-> tls.groups]

-----------------------------------------------------------------------------
(* Startup checks of main. *)

\* ParseDefaultPosture; an unknown value is None.
ParseDefaultPosture(value) ==
    CASE value \in {"", "open"} -> "open"
      [] value = "restricted"   -> "restricted"
      [] OTHER                  -> None

\* The allowlist entries that are not RFC 1123 labels.
InvalidNamespace == {"Not_A_Label"}

\* ParseAllowedGatewayNamespaces, ParseAllowedExtensionNamespaces: a flag that
\* was given wins even when it is empty.
ParseAllowedNamespaces(list) == ToSet(IF list.flag # None THEN list.flag ELSE list.env)

\* ResolveAllowedGatewayNamespaces, ResolveAllowedExtensionNamespaces: invalid
\* entries are dropped, and nothing being left of a list is an error.
ResolveRefused(list) ==
    /\ ParseAllowedNamespaces(list) # {}
    /\ ParseAllowedNamespaces(list) \subseteq InvalidNamespace

ResolveAllowedNamespaces(list) == ParseAllowedNamespaces(list) \ InvalidNamespace

-----------------------------------------------------------------------------
(* cmd/loglevel.go *)

\* A text is a pair: a name, or a number.
LevelName == [debug |-> -1, info |-> 0, error |-> 2, panic |-> 4]

Int8(n) == ((n + 128) % 256) - 128

\* parseLogLevel: verbosity N is the int8 -N; None is an error.
ParseLogLevel(text) ==
    IF text[1] = "name"
    THEN IF text[2] \in DOMAIN LevelName THEN LevelName[text[2]] ELSE None
    ELSE IF text[2] \in 1..128 THEN Int8(-text[2]) ELSE None

\* setupLogLevelFromConfigMap: no name or namespace switches the watch off, a
\* watch without a key is an error.
LoggingRefused(log) == log.watched /\ ~log.key
=============================================================================
