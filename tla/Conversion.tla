----------------------------- MODULE Conversion -----------------------------
(***************************************************************************)
(* Conversion of an MCPServer between v1alpha1 and the hub v1beta1.        *)
(*                                                                         *)
(* Objects hold the fields that admission reads or that show what becomes  *)
(* of a group of fields; None is a nil pointer or a condition that is not  *)
(* set.  A condition has a status and a reason.                            *)
(***************************************************************************)

CONSTANT None

-----------------------------------------------------------------------------
(* The groups that both versions have; the two directions copy alike. *)

ConvertSource(in) == [image |-> in.image]

\* convertServerConfig, with each storage mount in turn.
ConvertServerConfig(in) == [port |-> in.port, storage |-> in.storage]

\* convertRuntimeConfig, convertSecurityConfig, convertHealthConfig.
ConvertRuntimeConfig(in) ==
    [replicas |-> in.replicas, pod |-> in.pod, container |-> in.container,
     probes |-> in.probes]

ConvertMCPConfig(in) == [stateless |-> in.stateless]

ConvertNetworkConfig(in) ==
    IF in = None THEN None ELSE [ingressFrom |-> in.ingressFrom, egressTo |-> in.egressTo]

ConvertTransportConfig(in) ==
    IF in = None THEN None ELSE [tls |-> in.tls, caBundle |-> in.caBundle]

ConvertAddress(in) == IF in = None THEN None ELSE [url |-> in.url]

ConvertServerInfo(in) ==
    IF in = None THEN None ELSE [name |-> in.name, capabilities |-> in.capabilities]

-----------------------------------------------------------------------------
(* Ready of v1alpha1 is Available and Verified of v1beta1. *)

Condition(status, reason) == [status |-> status, reason |-> reason]

\* splitReadyToAvailableAndVerified
SplitReady(ready) ==
    IF ready.reason = "MCPEndpointUnavailable"
    THEN [available |-> Condition("True", "Available"),
          verified |-> Condition(ready.status, "EndpointUnavailable")]
    ELSE IF ready = Condition("True", "Available")
         THEN [available |-> ready, verified |-> Condition("True", "Verified")]
         ELSE [available |-> ready, verified |-> Condition("Unknown", "NotVerified")]

\* Variant: what is available is ready.
MergeAvailableOnly(available, verified) ==
    IF available # None THEN Condition(available.status, available.reason)
    ELSE Condition("Unknown", verified.reason)

\* mergeAvailableAndVerifiedToReady
MergeReady(available, verified) ==
    IF available # None /\ available.status # "True" THEN available
    ELSE IF verified # None /\ verified.status = "False"
         THEN Condition("False", "MCPEndpointUnavailable")
    ELSE IF verified # None /\ verified.status = "True"
         THEN Condition("True", "Available")
    ELSE IF available # None THEN Condition("True", available.reason)
    ELSE Condition("Unknown", verified.reason)

\* convertConditionsTo
ConvertConditionsTo(c) ==
    [accepted |-> c.accepted, enforced |-> c.enforced,
     available |-> IF c.ready = None THEN None ELSE SplitReady(c.ready).available,
     verified |-> IF c.ready = None THEN None ELSE SplitReady(c.ready).verified]

\* convertConditionsFrom
ConvertConditionsFrom(c) ==
    [accepted |-> c.accepted, enforced |-> c.enforced,
     ready |-> IF c.available = None /\ c.verified = None THEN None
               ELSE MergeReady(c.available, c.verified)]

-----------------------------------------------------------------------------
(* Whole objects.  What the hub alone has (workloadRef, serviceRef, gateway) *)
(* is lost on the way to v1alpha1 and unset on the way back.                *)

ConvertTo(o) ==
    [labels |-> o.labels,
     spec |-> [source |-> ConvertSource(o.spec.source),
               config |-> ConvertServerConfig(o.spec.config),
               runtime |-> ConvertRuntimeConfig(o.spec.runtime),
               mcp |-> ConvertMCPConfig(o.spec.mcp),
               network |-> ConvertNetworkConfig(o.spec.network),
               transport |-> ConvertTransportConfig(o.spec.transport),
               workloadRef |-> None, serviceRef |-> None, gateway |-> None],
     status |-> [address |-> ConvertAddress(o.status.address),
                 serverInfo |-> ConvertServerInfo(o.status.serverInfo),
                 conditions |-> ConvertConditionsTo(o.status.conditions)]]

ConvertFrom(o) ==
    [labels |-> o.labels,
     spec |-> [source |-> ConvertSource(o.spec.source),
               config |-> ConvertServerConfig(o.spec.config),
               runtime |-> ConvertRuntimeConfig(o.spec.runtime),
               mcp |-> ConvertMCPConfig(o.spec.mcp),
               network |-> ConvertNetworkConfig(o.spec.network),
               transport |-> ConvertTransportConfig(o.spec.transport)],
     status |-> [address |-> ConvertAddress(o.status.address),
                 serverInfo |-> ConvertServerInfo(o.status.serverInfo),
                 conditions |-> ConvertConditionsFrom(o.status.conditions)]]
=============================================================================
