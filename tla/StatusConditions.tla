-------------------------- MODULE StatusConditions --------------------------
(***************************************************************************)
(* The status of an MCPServer and the pure functions that compute parts of *)
(* it.  A condition is represented by its reason alone: in this operator a *)
(* reason is only ever used with one condition status, so the reason fixes *)
(* the status (AvailableTrue, AvailableFalse, VerifiedTrue below).         *)
(* "none" is an absent condition.  Messages and timestamps are left out,   *)
(* except for one bit of the Verified message, "exhausted", which tells    *)
(* the user that automatic handshake retries have stopped.                 *)
(***************************************************************************)
EXTENDS Naturals

CONSTANTS
    Gateways,    \* the values spec.gateway may take (provider and configRef)
    Providers,   \* the gateway providers a spec.gateway may name
    Urls,        \* the addresses a gateway may give
    None         \* an absent value: no gateway, no address, the empty hash

AvailableTrue == {"Available", "ScaledToZero"}

AvailableFalse ==
    {"WorkloadUnavailable", "ConfigurationInvalid", "ServiceUnavailable",
     "NetworkPolicyUnavailable", "GatewayNotRegistered"}

AvailableReasons == AvailableTrue \cup AvailableFalse \cup {"Initializing", "none"}

VerifiedTrue == {"Verified", "AuthSkipped"}

VerifiedReasons == VerifiedTrue \cup {"NotVerified", "EndpointUnavailable", "none"}

GatewayReasons ==
    {"GatewayRegistered", "GatewayNotRegistered", "GatewayBindingNotFound", "none"}

\* MCPServerStatus: observedGeneration, the four conditions that gate traffic,
\* the provider of status.gatewayBinding, status.address and whether
\* status.serverInfo is present.
Status ==
    [observedGeneration : Nat,
     accepted  : {"True", "False", "none"},
     available : AvailableReasons,
     verified  : VerifiedReasons,
     exhausted : BOOLEAN,
     gateway   : GatewayReasons,
     binding   : Providers \cup {None},
     address   : Urls \cup {"internal", None},
     serverInfo : BOOLEAN]

\* The status of an MCPServer no reconcile has written to yet.
NoStatus ==
    [observedGeneration |-> 0, accepted |-> "none", available |-> "none",
     verified |-> "none", exhausted |-> FALSE, gateway |-> "none",
     binding |-> None, address |-> None, serverInfo |-> FALSE]

\* The status built when a reconcile fails before the endpoint is verified:
\* the gateway condition and the gatewayBinding are carried forward from the
\* status the reconcile read; the address and the serverInfo are not part of
\* the apply, so server-side apply prunes them.
FailureStatus(server, accepted, reason) ==
    [observedGeneration |-> server.gen, accepted |-> accepted,
     available |-> reason, verified |-> "NotVerified", exhausted |-> FALSE,
     gateway |-> server.status.gateway, binding |-> server.status.binding,
     address |-> None, serverInfo |-> FALSE]

\* The Available reason of an Accepted server whose Deployment is d.  The phase
\* is "new" when the Deployment reports no conditions yet, "stale" when its
\* status is of an older Deployment generation, "current" otherwise; ready
\* says that it is Available with at least one ready replica.
DeploymentAvailability(d) ==
    IF d.replicas = 0 THEN "ScaledToZero"
    ELSE IF d.phase = "new" THEN "Initializing"
    ELSE IF d.phase = "current" /\ d.ready THEN "Available"
    ELSE "WorkloadUnavailable"

\* applyGatewayStatus: a server that is not registered at its gateway is not
\* Available, unless it is unavailable for another reason already.
GatewayAvailability(available, gateway) ==
    IF gateway \in {"GatewayNotRegistered", "GatewayBindingNotFound"}
         /\ available \notin AvailableFalse
    THEN "GatewayNotRegistered"
    ELSE available

\* Variant: the address does not wait for the handshake.
AddressAnyway(verified, url) == IF url # None THEN url ELSE "internal"

\* withAddressWhenVerified, after applyGatewayStatus chose the URL.
PublishedAddress(verified, url) ==
    IF verified \notin VerifiedTrue THEN None
    ELSE IF url # None THEN url ELSE "internal"
=============================================================================
