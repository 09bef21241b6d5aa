# Verification of the MCP lifecycle operator

TLA+ models of the operator, TLC configurations that check them on small
instances, and TLAPS proofs of the results that matter most for every value of
the constants. The reference is the Go source; `PROJECT.json` maps every
definition to the lines it models and lists the hazards the properties are about.

## The system

The operator turns an `MCPServer` resource into a running, verified and
reachable MCP endpoint. It is a set of controller-runtime controllers and
webhooks that share little but the Kubernetes API.

| Component | State it keeps | Operations | Correct when |
|---|---|---|---|
| MCPServer reconcile loop (`mcpserver_controller*.go`) | two in-memory maps: handshake retries, CA bundle hashes | `Reconcile`: validate, Deployment, Service, NetworkPolicy, gateway binding, handshake, status apply | every change is noticed; at rest cluster and status agree with the spec; Verified and the address rest on a real handshake |
| Validation, references, existing workloads | field index, config hash | judge the spec and what it refers to; resolve `workloadRef`; map events to MCPServers | at rest Accepted is about the references as they are; what was accepted makes sense |
| Availability and its diagnosis | none | judge a workload and its pods | at rest Available and its message are those of the workload and pods as they are |
| Deployment step | Deployment | create, adopt, update, read back | at rest the Deployment is that of this incarnation and this spec |
| Handshake, TLS | retry count per generation, hash of the CA bundle | skip if verified, dial, retry, give up | a verdict never crosses a generation; retries end; another bundle means another handshake |
| Service step | managed Service, or a referenced one | create, update, resolve the endpoint, clean up after a switch | only Services of this MCPServer are touched; none is left behind; the endpoint is the one the spec names |
| NetworkPolicy step, custom metadata | NetworkPolicy, tracking annotation | derive peers, create, update, report the posture, set and remove labels | the policy admits whom it should and the condition tells the truth |
| Gateway binding | `MCPGatewayBinding` | create, edit, delete; read Registered | at rest binding, condition and address match `spec.gateway` |
| httproute provider | HTTPRoute, annotations on the binding | stamp, resolve the backend, apply the route, judge, report | every report is about the current binding; at rest route and report are current |
| kuadrant provider | HTTPRoute and MCPServerRegistration | as above, with discovery through an MCPGatewayExtension and a tool prefix | as above; no two bindings that can be registered share a prefix at rest |
| Provider registry, CRD watcher | pending and started providers | start a provider when its CRDs are served | each starts once, and does start |
| Conversion and admission webhooks | none | convert between versions, judge by the policy | an update changes what it says; what is stored was admitted; losses are announced |
| Manager process, log level | settings from flags and environment, log level | refuse or start, hand on the settings, follow the ConfigMap | fails closed; settings keep their meaning; report and level follow |
| Audit log, metrics, events | counters | output | not part of the control flow |

Interaction: the MCPServer controller writes the spec of the binding, the
provider reports in its status, and the MCPServer controller is woken by that
status. Deployments, Services and NetworkPolicies are owned and their events wake
the MCPServer controller; ConfigMaps, Secrets and referenced Services are watched
by metadata, mapped to MCPServers through an index on the cached specs, and read
uncached. Every write of an MCPServer by a client passes conversion and admission
in the operator process, which is configured once, when it starts.

What is hard here: every `r.Get` reads a cache that lags; status is written by
server-side apply that never conflicts; events are filtered, so an early return
that leaves the status behind must leave an event, an error or a timer; objects
are deleted and recreated under the same name; the process restarts between any
two calls, forgets its maps and may come back with other flags; other users write
the same objects; CRDs come and go while the registry looks at them.

## Modules

| Module | Models |
|---|---|
| `StatusConditions` | conditions, their reasons, failure status, published address |
| `MCPServerController` | `Reconcile` for one name with user, API server, garbage collector, Deployment controller, provider, endpoint, informers, queue, timers and restarts |
| `Validation` | the checks of a spec and of what it refers to, the field index and the config hash, as operators; `Meaningful` is the reference definition for networks |
| `WorkloadStatus` | Available and its diagnosis as a function of workload and pods |
| `Workload` | the reconcile seen from references, workloads and pods: Accepted, Available, the Service in front of a brought workload, the watches |
| `ManagedService` | the Service step alone, with a second Service, other writers and recreation |
| `NetworkPolicyStep` | the NetworkPolicy step alone, with flags, gateway ConfigMap, drift and custom labels |
| `GatewayBinding` | abstract: what the two sides of a binding owe each other |
| `HTTPRouteProvider`, `KuadrantProvider` | the two providers; each implements `GatewayBinding` by a refinement mapping |
| `ProviderRegistry` | `SetupAll`, the CRD watcher, the manager's informers, the REST mapper |
| `OperatorConfig`, `AdmissionPolicy`, `Conversion` | flags and environment, the policy, the two directions of conversion, as operators |
| `APIObjects` | the objects that schemas and flags allow: what the assumptions of `Operator` are stated with |
| `Operator` | the process: composes the modules above with clients, API server, redeployments and the log level |
| `MCController`, `MCManagedService`, `MCNetworkPolicy`, `MCHTTPRoute`, `MCKuadrant`, `MCOperator`, `MCWorkload` | instances for TLC |
| `MCPServerControllerProofs`, `WorkloadProofs`, `ManagedServiceProofs`, `NetworkPolicyProofs`, `HTTPRouteProofs`, `KuadrantProofs`, `KuadrantConvergenceProofs`, `OperatorProofs` | theorems |

How code becomes a model, the same in every module:

- A reconcile is cut at its writes and at its uncached reads; a cached read is
  merged with the call next to it, which loses nothing: it commutes with
  everything but the informer that fills the cache, and that informer may run
  earlier or later. In `Workload` the uncached reads of one phase (the references
  that a check follows, the objects that are hashed) are one step. An object that
  changes between two of them queues the server again, and the properties speak of
  the state in which nothing is queued.
- One worker: controller-runtime never runs one key twice at a time.
- `pc` is the next step, and `snap`/`draft` or `work` are the locals.
- Informer caches are the `c...` variables; a `Sync...` action copies the
  present object, collapsing versions in between as a slow informer does, and
  queues what the predicate lets through. A resourceVersion is a flag: the copy
  is fresh as long as nobody has written the object since. `owned` keeps the
  event of a collapsed version; a relist after a broken watch could lose that
  event in reality, and that is not modelled.
- Every API call may fail, and a restart may come between any two steps.
- Data is abstracted to what the properties tell apart: a pod template is an
  image and a replica count, or the config hash it carries; a peer is what it
  selects; an address is a sequence of bits where prefixes matter, and a point of
  a family where only coverage does (then a block is a set of points); an image reference is a host, a path
  and a tag or digest; a ConfigMap is the values read from it.
- `foreign` is a resource name held by another owner; `disturbances`, `faults` and
  `budget` count faults and unforced changes.

In `MCPServerController` validation and the Service and NetworkPolicy steps are
steps that succeed, fail or meet an ownership conflict. What happens inside is the
subject of `Workload`, `ManagedService` and `NetworkPolicyStep`, in which what
comes after the step is one status report. `Workload` in turn leaves to the other
modules the gateway, the handshake, ownership and the numbers of replicas.

## Runs

Deadlock is not checked: a controller with nothing to do stops.

| Run | Distinct states | Shows |
|---|---|---|
| `ControllerRollout` | 2.2 M | one edit (another image), any two faults: no update lost, no status going back, Verified and address backed by a handshake, handshake decided |
| `ControllerGatewayEdits` | 2.9 M | two edits of `spec.gateway` in a row over stale caches (removed, another configRef, another provider): binding and status converge |
| `ControllerGatewayFaults` | 2.9 M | gateway switched on or off around one fault: likewise, with the address |
| `ControllerRecreate` | 1.4 M | delete and recreate with a CA bundle, one fault, possibly a name held by another owner: status, Deployment and bundle hash converge |
| `ControllerRest` | 0.29 M | liveness: with an endpoint that never answers, one edit (image, scale to zero) and one fault, the controller comes to rest |
| `Workload` | 0.16 M | references, brought workloads, pods and networks that change between two reads: Accepted, Available, its diagnosis, the selector and the config hash are right when quiet, accepted networks are meaningful, and the controller comes to rest |
| `ManagedService` | 2.9 M | one edit or recreation, one fault or foreign write: only own Services touched, none left behind, endpoint current |
| `NetworkPolicy` | 2.2 M | ten specs, three flag settings, three ConfigMaps, one edit and one fault, drift, ConfigMap change or restart with other flags: rules, reachability, condition and labels are right at rest |
| `HTTPRoute` | 1.9 M | one edit or recreation of the binding and one fault or change around it: route and report current when quiet; contract kept |
| `Kuadrant` | 1.2 M | the same for route and registration; two bindings race for one prefix: none is shared when quiet; contract kept for each |
| `Operator` | 0.14 M | start-up, crashes, redeployment with other flags, requests in both versions, CRDs that come and go, log level: what is stored was admitted, what both versions have survives conversion, settings keep their meaning, providers start once and in the end |
| `ClaimReliedOnService` | violation | see findings |

**Bounds.** `MaxGen`/`MaxWrites` and `MaxUid` bound edits and incarnations: two of
each let a stale copy meet a newer object, and three generations of a gateway let
two stale deletes meet (there the server is scaled to zero, so that the workload
plays no part). `MaxDisturbances` bounds faults: one puts a fault between any two
steps, two let a fault hit the recovery from another. `MaxRetries` is 2 (the code
has 10): the first retry, the last one and exhaustion are told apart.
`ManagedService` also passes with two disturbances (11.0 M states). Ports of
`ManagedService` are symmetric: nothing compares them but for equality.

`KuadrantProvider`, `HTTPRouteProvider`, `Operator` and `Workload` start in one of
several *worlds*, each with its own objects and a budget for what may change. The
worlds keep apart questions that do not interact, and their states add up instead
of multiplying:

- `Kuadrant`: one binding and one fault or change of its surroundings; one binding
  whose route or registration name is taken; two bindings that generate the same
  prefix.
- `Operator`: creation under each policy, with a redeployment under another one;
  updates of stored objects of either version, with Available and Verified absent
  and in the combinations a reconcile reports (available and verified, available
  behind authentication, endpoint down, not available, scaled to zero, no gateway);
  two requests that race; three changes of CRDs with two providers that share one; two
  edits of the log level; every start-up configuration followed by a redeployment
  with the plain one. Up to two faults (crash, failed discovery or factory).
- `Workload`: up to two changes of the objects a spec refers to, with an edit or a
  fault; a brought workload of each kind that is replaced by one with another
  selector, scaled and reported on; pods that go through image pull errors, crash
  loops, failing init containers and lost readiness; networks at the edges of
  ports and of prefixes.

**Resting and quiet properties** speak of states with nothing queued, scheduled or
undelivered. They are the safety half of convergence: every path that leaves work
undone also leaves something that brings the controller back.

**Fairness.** Weak, and only of what the libraries promise. `MCPServerController`
(`FairSpec`) and `Workload`: the informers, the timers and the worker, since
watches are re-established and replayed by client-go, `RequeueAfter` always fires
and the worker takes what is queued. `Operator`: a process that ended is started
again by its Deployment and a redeployment replaces it; `SetupAll` goes on to the
next provider, the watcher takes its requests and its timers fire; a CRD that
exists comes to be served; informers sync, or time out and end the process. Users,
endpoint, workload controllers, clients and providers get none.

**Type invariants.** Each module has a `TypeOK`. For `MCPServerController` and
`ManagedService` it is proved; for the others TLC finds no violation when it is
added to the configuration of the run. The configurations do not list it.

**Mutants.** Every property has a variant of a modelled operator (a dropped guard,
a missing reset, an unindexed watch) under which its run reports a violation; the
variants stand beside the operators they vary.

## Findings

`ClaimReliedOnService` checks one sentence of the code and refutes it. "Cleanup is
guarded so the operator never deletes a Service it does not own or still relies
on": the cleanup after a switch to `serviceRef` decides from the cached spec. If
the switch is taken back before the Delete, the Service the current spec relies on
goes; if the spec then names that Service itself, nothing recreates it.

Three findings are about documents: the code does, as a passing run shows, what they
exclude. The documents' sentences are formulas of the MC modules, which TLC refutes
when they are added to the configuration.

- The restricted posture does not deny everything. `RestingReachability` shows that
  a server without `ingressFrom` is reached by the operator's pods and by its
  gateway's namespace. `site-src/operating/production.md:65-66` speaks of a
  "deny-all" policy that "also blocks the operator itself (and any gateway)" and
  says that "the operator never adds an implicit peer for itself"; the help of
  `--network-policy-default-posture` (`cmd/main.go:146-152`) says that the server
  "never becomes Verified". (`MCNetworkPolicy!DenyAllByDefault`)
- `NetworkPolicyRestricted` may say Restricted although everybody is let in or
  everything is let out. `RestingPostureIsHonest` shows what it goes by: each source
  is judged by itself, so blocks that cover a family together, or a block whose
  exception another block gives back, count as a restriction; and any destination
  does, `0.0.0.0/0` too. `constants.go:72-78` says "both ingress source and egress
  destination are restricted", `production.md:69` "once both ingress sources and
  egress are constrained". (`MCNetworkPolicy!RestrictedIsRestricted`)
- A provider whose CRDs come later needs no restart. `ProvidersStart` shows that the
  watcher starts it; `site-src/guides/gateway.md:125` and `:200` and
  `site-src/guides/kuadrant-architecture.md:72` ask to restart the operator.
  (`MCOperator!SkippedUntilRestart`, with the worlds `InstalledLater`)

Refuted by TLC too, as formulas of `MCController` that no configuration lists
(each says which configuration refutes it):

- `VerifiedAtCurrentGeneration`: `applyStatus` applies by name. A status computed
  for a deleted MCPServer lands on its namesake, and the already-verified shortcut
  keeps the verdict although no handshake with the new one took place
  (`metrics.md:121` says "already verified for the current generation").
- `VerifiedWithCurrentCA`: hash and transport read the CA bundle separately. A
  bundle changed and changed back in between leaves a server verified with the
  other one (`mcpserver_controller_endpoint.go:87`).
- `UpToDateWhenObserved`: with the handshake retries exhausted, the error of a
  failed binding lookup is dropped, and `GatewayRegistered=False` stays with
  `observedGeneration` current (`mcpserver_types.go:646` says "the status is
  up-to-date").
- A kuadrant binding whose prefix is taken never waits for its 30 seconds
  (`kuadrant/controller.go:385`): each status update wakes the provider at once.
  `KuadrantProvider!WaitsForItsTimers`
  is refuted under `FairSpec` with `MCKuadrant!ConflictWorlds`.

Met while modelling:

- Conversion calls the two schemas identical (`mcpserver_conversion.go:37`, `:71`),
  but an update through v1alpha1 drops `spec.gateway`. The webhook warns of a lost
  `workloadRef` or `serviceRef` only, and `LossIsAnnounced` is about these.
- "Flag values take precedence over env vars" (`policy.go:91`) fails for
  `--require-image-digest=false`, `--max-storage-mounts=-1` and empty lists: the
  variable then decides.
- A server behind authentication is Verified with the reason AuthSkipped. A write
  through v1alpha1 turns the reason into Verified, and the message into "MCP handshake
  succeeded"; it also loses what Verified says of a server that is not Available.
  `ChangesOnlyItsField` is about what is kept: Available, and whether an available
  server is verified.
- Pods of a brought workload are neither cached nor watched unless they carry the
  operator's label, and then Available has no diagnosis. With the label of another
  MCPServer their events wake only that one.
- A reference with an empty name in `env` or `envFrom` is retried for ever and
  never reported, although "configuration errors are ValidationErrors"
  (`mcpserver_controller_validation.go:264`). The models give every reference a name.
- A brought Deployment that is available, not progressing and without ready pods
  gets the generic message although its pods fail; `QuietDiagnosisIsCurrent`
  leaves this case out.
- The ConfigMap of `gateway.configRef` is part of the config hash, so an edit of
  it rolls pods that do not mount it; the CA bundle, "an operator-only concern"
  (`mcpserver_controller_confighash.go:309`), is kept out of the hash.
- `appendPersistentConditions` carries conditions "that must survive every apply"
  from the cached status. A failing pass that read a status older than the last
  apply removes or reverts them until the next pass that goes well.
- The providers judge a route read back from the cache, so the old route may
  answer for the new spec until the cache catches up.
- `validateOwnership` asks to delete the conflicting resource first; its deletion
  wakes no reconcile, since the resource was not owned.
- A custom label whose value somebody else changes is not noticed: the record is
  compared by value, the labels by key.

## Proofs

The assumptions are the named `ASSUME`s of the modules: types of the constants,
bounds that are natural numbers, a None that is no value, names that do not
collide, for the registry that its providers are distinct and know what they
require, for `Workload` that ports are integers, addresses sequences of bits, and
specs, workloads and pods records of the shape the CRDs give them. Nothing else is
assumed, in particular no finiteness. TLC evaluates each assumption on the
instances of the runs.

| Theorem | States |
|---|---|
| `MCPServerControllerProofs!TypeCorrectness` | `Spec => []TypeOK`, with the retry count within its limit |
| `MCPServerControllerProofs!Verification` | the inductive invariant `VerificationInv` |
| `MCPServerControllerProofs!BackedByHandshake` | `Verified=True` with `observedGeneration` g rests on a handshake passed at g |
| `MCPServerControllerProofs!AddressSafety` | no address without `Verified=True` and `serverInfo` |
| `MCPServerControllerProofs!ObservedGenerationForward` | `observedGeneration` never goes backwards |
| `MCPServerControllerProofs!Convergence` | the inductive invariant `ConvergenceInv` |
| `…!StatusAtRest`, `…!DeploymentAtRest`, `…!HandshakeAtRest`, `…!GatewayAtRest`, `…!CAHashAtRest` | the five `Resting…` properties of `MCPServerController`, two of them with the exception below |
| `ManagedServiceProofs!ServiceTypeCorrectness` | `Spec => []TypeOK` of the Service step |
| `ManagedServiceProofs!ServiceSafety` | no step of the operator writes or deletes a Service that another owner controls |
| `ManagedServiceProofs!ServiceConvergence`, `…!ServiceAtRest`, `…!EndpointAtRest` | its inductive invariant; the Service and the endpoint reported are current at rest |
| `NetworkPolicyProofs!PolicyConvergence`, `…!PolicyAtRest`, `…!ReachabilityAtRest`, `…!PostureAtRest`, `…!LabelsAtRest` | its inductive invariant; rules, reachability, condition and labels are right at rest |
| `HTTPRouteProofs!ProviderKeepsContract` | the httproute provider implements `GatewayBinding` |
| `HTTPRouteProofs!ProviderConvergence`, `…!RouteAtRest`, `…!StatusAtRest` | its inductive invariant; route and report are current when quiet |
| `KuadrantProofs!KuadrantContract` | the kuadrant provider implements `GatewayBinding` for each of its bindings |
| `KuadrantConvergenceProofs!KuadrantInvariant`, `…!KuadrantObjects`, `…!KuadrantStatus` | its inductive invariant; HTTPRoute, registration and report of every binding are current when quiet |
| `KuadrantConvergenceProofs!KuadrantPrefixes` | when quiet, no two bindings that can be registered share a tool prefix |
| `OperatorProofs!RegistryInvariance` | the inductive invariant `RegistryInv`, in the composed `Operator` |
| `OperatorProofs!ProvidersAccountedFor` | a provider's controller is added at most once, and a provider not started is watched for |
| `WorkloadProofs!AcceptedIsMeaningful` | an accepted spec has port ranges that are not empty and within bounds, and exceptions within their blocks |
| `WorkloadProofs!WorkloadConvergence`, `…!AcceptedAtRest`, `…!AvailabilityAtRest`, `…!DiagnosisAtRest`, `…!ServiceAtRest`, `…!TemplateAtRest` | its inductive invariant; the five `Quiet…` properties of `Workload` |

*Verification.* The two properties are about the stored status alone and are not
inductive: a verdict travels from a status to the cache, to the snapshot of a
reconcile, into the draft and back. `VerificationInv` says that each of these
copies is backed by a handshake at its own generation, that the draft has the
generation of the snapshot, that it has no address before the handshake is
decided, and that no copy knows a uid not yet given out. The proof has one lemma
per group of actions; the interesting ones are `VerificationHandshake` (the
shortcut takes a verdict over only within a generation) and `VerificationApply`.

*ObservedGenerationForward.* An apply never conflicts, so nothing but the order of
reads keeps an older generation from being applied. `GenerationsOrdered` says that
status, snapshot, cache and spec carry generations in this order. It is restricted
to the first incarnation, because a status of the deleted one may land on its
namesake.

*ServiceSafety.* The property is about a step; what makes it hold is knowledge
from an earlier one. `HeldIsOwn` says that, at the step that deletes, the Service
held was controlled by this incarnation when it was read, and `TypeOK` that a
copy marked fresh is the Service as it is. A conditional Delete or an Update goes
through only with a fresh copy, so what was read is what is written.

*ProviderKeepsContract, KuadrantContract.* Initial states map to initial states and every step to a
step of the contract or to a stutter. A report needs to know what the reconcile
holds when it gets there: `ProviderInv` types every copy of binding, spec and
ConfigMap, and says at each `pc` what has been established (a binding that
existed, a Gateway, a valid host). `Typed` of `KuadrantProofs` does this for any
number of bindings; `NextKept` has one step per action.

*ProvidersAccountedFor.* `RegistryInv` places every provider: `SetupAll` has not
reached it, or it is pending, or started; it has a controller exactly when
started; and while one is pending the watcher has a request, a timer or a
reconcile in progress. Each step of the registry keeps it, and no other part of
the process disturbs it.

*AcceptedIsMeaningful.* `ValidNetworkIsMeaningful` relates the checks of the code
(the first failing one ends them, masks are compared bit by bit) to `Meaningful`,
which speaks of the ports and addresses admitted. `NetworkInv` carries it through
the reconcile: past validation, and in every accepting draft, the spec at hand is
one whose network was validated, whatever the user makes of the stored one.

*Convergence.* The resting and quiet properties say what is so once nothing is
queued, stale or on its way; they hold in no intermediate state and are far from
inductive. The six convergence invariants (of `MCPServerController`, `Workload`,
`ManagedService`, `NetworkPolicyStep`, `HTTPRouteProvider` and `KuadrantProvider`,
where it is a conjunction over the bindings) have the same four parts.

- `Ordered` (in `Workload` part of `ClusterOK`): caches hold nothing that was never
  there, and a generation settles the spec. So an informer that has nothing to
  deliver has the object as it is.
- `Coming`, or `Awaited`: something is on its way that will queue the name: the
  queue itself, an event not delivered, a cache that is behind in a way the
  predicate of its watch notices.
- `Informed`: at each step of a reconcile, what it has found out so far is still
  so, or something is coming. This is where every cached read, every write that may
  conflict and every filtered event is accounted for.
- `Settled`: between two reconciles the objects and the status are right, or
  something is coming or a timer is running.

The delicate part is a write of the controller itself, which the cache shows
later. While the cache is behind, the next reconcile may decide on the older copy;
that is harmless only because the event of the write is still to come. But a cache
that differs from the object is no promise of an event: somebody else may bring
the object back to what the cache shows. `DeployAhead` and `BindingAhead` of
`MCPServerControllerProofs` therefore say more, that the object is right and the
cached copy is not, and that nobody but a reconcile undoes this. For objects that
others write freely (Services, NetworkPolicies) the models keep the event itself.
`Stamped` of `HTTPRouteProofs` does the same for the annotations that map an event
of a Gateway or Service back to the binding; `Marked` of `KuadrantProofs` for those
that name extension, Gateway and Service.

*KuadrantPrefixes.* `checkPrefixConflict` compares with a cache in which the
registration that another reconcile has just created may be missing, so two
bindings can both pass the check. What saves them is the second look: the event of
its own registration queues each binding again. `PrefixInv` says that of two
bindings whose cached registrations clash one is due: it is queued, the cache is
behind in a way that queues it, it is in a reconcile that has not yet come to its
verdict, or it was not reported as registrable. `KuadrantPrefixes` needs it together
with the convergence invariant. The property is about bindings that can be registered: the
registration of a binding that was deleted, or whose extension is not ready any
more, is not compared again until it is collected or the extension is back, and may
share its prefix with a newer one. The proof attempt showed this; the property
first said it of every two registrations.

*The exception of StatusAtRest and GatewayAtRest.* `RestingStatusIsCurrent` and
`RestingGatewayIsCurrent` do not hold for all constants, and the attempt to prove
them shows where. When the handshake fails for the last time allowed and the
lookup of the binding fails in the same reconcile, `reconcileEndpoint` returns nil
for the exhausted handshake before it gets to the error of the lookup
(`mcpserver_controller_endpoint.go:165`). Nothing repeats the lookup, and the status
says GatewayNotRegistered until the next event. `ErrorDropped` describes exactly
this state, and the theorems say that it is the only exception; the runs check the
properties as they stand where it cannot occur.

*ReachabilityAtRest, PostureAtRest.* Both go from the rules at rest to the pods and
ports they admit, by the meaning of a NetworkPolicy (`PeerAdmits`, `RuleAdmits`), for
every set of addresses, families and blocks of which `AddressAssumption` holds: a
block has an address, the families are blocks, and no other block contains one.
`SourceRestricted` says of one valid peer that the code's test agrees with whether it
lets a whole family in; `IngressHonest` and `EgressHonest` lift this to the rules the
operator builds. That the verdict is about single peers, and not about what all of them
admit together, is the second finding above.

*AvailabilityAtRest, DiagnosisAtRest.* `ObservationIsRight` says of every workload
and every set of pods that the conditions computed are right; `SameFailure` that a
pod event that the predicate filters out changes nothing in the diagnosis.

Only model-checked: of `Operator`
`StoredComplies`, `SettingsKeepMeaning`, `QuietProcessIsCurrent`,
`ChangesOnlyItsField` and `LossIsAnnounced` (the first two rest on what folds over
lists of tokens compute for every list, which is induction over data); and
liveness, which is out of the prover's reach.

## Not modelled

- Events, metrics, audit log: nothing in the control flow reads them back. Wording
  of messages, and warnings about host names.
- Leader election and two overlapping operator pods, probes, certificates, memory
  limits of the caches.
- A provider's factory that fails half-way: it is one step that succeeds or does
  nothing.
- Content of the pod template other than image, replicas and config hash; custom
  labels of it (those of the NetworkPolicy are modelled); TLS transport; the MCP
  exchange itself.
- An explicit `config.port` of an MCPServer that brings workload and Service: the
  model leaves it out, and the port is inferred. `handshakeRetryCount`, which
  conversion drops on purpose.
- Adoption from an earlier incarnation, for NetworkPolicies (for Deployments and
  Services it is modelled). An HTTPRoute or MCPServerRegistration of the right name
  and without any owner: the providers would adopt it (`httproute/controller.go:409`,
  `kuadrant/controller.go:526`, `:583`); in the models what is not theirs has another
  owner and is refused.
- In `Workload` a managed workload is judged before the Service step, in the code
  after it; `DesiredNumberScheduled` of a DaemonSet, which its controller reports, is
  its replica count.
- Several MCPServers at once: they share no object, except for the prefix of
  kuadrant registrations, which is modelled with two bindings.
- Clocks: a timer fires at any time after it is set; backoff lengths and
  `lastTransitionTime` are left out.
- Generated code.

## Plan

1. `ServerLifecycle`: an abstract specification of the published status (pending,
   available, verified, failed) that `MCPServerController` implements.
2. Custom metadata of pod templates, and adoption in `NetworkPolicyStep`.
3. Proofs about admission and conversion in `Operator`.
