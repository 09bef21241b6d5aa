----------------------------- MODULE APIObjects -----------------------------
(***************************************************************************)
(* The values that the API types, the schemas and the flags allow: objects *)
(* of both versions, and configurations of the operator.  A field whose    *)
(* value matters to no rule may have any.                                  *)
(***************************************************************************)
EXTENDS AdmissionPolicy

IsCondition(c) ==
    c # None /\ c \in [status : {"True", "False", "Unknown"}, reason : {c.reason}]

\* Available and Verified as a reconcile leaves them: the handshake is tried if
\* and only if the workload is Available, and a gateway may then make it False.
IsReported(available, verified) ==
    \/ available = None /\ verified = None
    \/ /\ IsCondition(available) /\ IsCondition(verified)
       /\ available.reason # "MCPEndpointUnavailable"
       /\ available.status = "True" =>
             (available.reason = "Available" <=> verified.status # "Unknown")

\* The groups of fields that both versions have.
HasGroups(o) ==
    /\ o \in [labels : {o.labels}, spec : {o.spec}, status : {o.status}]
    /\ o.spec.source \in [image : {None} \cup ImageRefs]
    /\ o.spec.config \in [port : {o.spec.config.port}, storage : Nat]
    /\ o.spec.runtime \in [replicas : {o.spec.runtime.replicas}, pod : {o.spec.runtime.pod},
                            container : {o.spec.runtime.container},
                            probes : {o.spec.runtime.probes}]
    /\ o.spec.runtime.pod \cap ContainerForbidden \subseteq PodForbidden
    /\ o.spec.mcp \in [stateless : {o.spec.mcp.stateless}]
    /\ o.spec.network # None =>
          o.spec.network \in [ingressFrom : {o.spec.network.ingressFrom},
                              egressTo : {o.spec.network.egressTo}]
    /\ o.spec.transport # None =>
          o.spec.transport \in [tls : {o.spec.transport.tls},
                                caBundle : {o.spec.transport.caBundle}]
    /\ o.status \in [address : {o.status.address}, serverInfo : {o.status.serverInfo},
                      conditions : {o.status.conditions}]
    /\ o.status.address # None => o.status.address \in [url : {o.status.address.url}]
    /\ o.status.serverInfo # None =>
          o.status.serverInfo \in [name : {o.status.serverInfo.name},
                                   capabilities : {o.status.serverInfo.capabilities}]

\* MCPServer of v1beta1; pod security contexts have no field for privileges.
IsV1beta1(o) ==
    /\ HasGroups(o)
    /\ o.spec \in [source : {o.spec.source}, config : {o.spec.config},
                    runtime : {o.spec.runtime}, mcp : {o.spec.mcp}, network : {o.spec.network},
                    transport : {o.spec.transport}, workloadRef : {o.spec.workloadRef},
                    serviceRef : {o.spec.serviceRef}, gateway : {o.spec.gateway}]
    /\ LET c == o.status.conditions IN
       /\ c \in [accepted : {c.accepted}, enforced : {c.enforced}, available : {c.available},
                  verified : {c.verified}]
       /\ IsReported(c.available, c.verified)

\* MCPServer of v1alpha1; Ready is False when the endpoint does not answer.
IsV1alpha1(o) ==
    /\ HasGroups(o)
    /\ o.spec \in [source : {o.spec.source}, config : {o.spec.config},
                    runtime : {o.spec.runtime}, mcp : {o.spec.mcp}, network : {o.spec.network},
                    transport : {o.spec.transport}]
    /\ LET c == o.status.conditions IN
       /\ c \in [accepted : {c.accepted}, enforced : {c.enforced}, ready : {c.ready}]
       /\ c.ready # None =>
             /\ IsCondition(c.ready)
             /\ c.ready.reason = "MCPEndpointUnavailable" => c.ready.status = "False"

\* A comma-separated list: the flag, if it was given, and the variable.
IsList(list, entries) ==
    (list.flag = None \/ list.flag \in Seq(entries)) /\ list.env \in Seq(entries)

IsConfig(c) ==
    /\ c.tls.suites \in Seq(STRING) /\ c.tls.groups \in Seq(STRING)
    /\ IsList(c.httproute, STRING) /\ IsList(c.kuadrant, STRING)
    /\ IsList(c.policy.imageAllowlist, ImagePrefixes) /\ c.policy.imageAllowlist.flag # None
    /\ IsList(c.policy.requiredLabels, STRING) /\ c.policy.requiredLabels.flag # None
    /\ c.policy.maxStorageMounts.flag \in Int /\ c.policy.maxStorageMounts.env \in Int
    /\ c.level \in -128..5

\* The field a client changes, and its new value.
IsChange(change) ==
    \/ change[1] \in {"none", "labels", "container"}
    \/ change[1] = "image" /\ change[2] \in {None} \cup ImageRefs
    \/ change[1] = "storage" /\ change[2] \in Nat
    \/ change[1] = "pod" /\ change[2] \cap ContainerForbidden \subseteq PodForbidden
=============================================================================
