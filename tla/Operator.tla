------------------------------ MODULE Operator ------------------------------
(***************************************************************************)
(* The operator process, from its deployed configuration to a running      *)
(* manager: startup, gateway providers, the conversion and validating      *)
(* webhooks, the policy report and the log level watch.                    *)
(*                                                                         *)
(* One MCPServer is stored.  A request of a client takes three steps: the  *)
(* client reads the object in its version and changes one thing, the API   *)
(* server has it reviewed, and the result is written if nothing else was   *)
(* written since.  The API server (external) converts through the          *)
(* operator, admits nothing a registered webhook does not answer for, and  *)
(* stores what it writes as v1beta1.                                       *)
(***************************************************************************)
EXTENDS ProviderRegistry, APIObjects

INSTANCE Conversion

CONSTANTS
    Configs,           \* configurations the operator is deployed with
    Worlds,            \* initial states: configuration, object, ConfigMap, budget
    Clients,
    Versions,          \* of requests
    NewObjects,        \* v1beta1 objects that clients create
    Changes,           \* pairs: the field a client changes, and the new value
    Texts,             \* contents of the logging ConfigMap
    Reported           \* Available and Verified as the controller reports them

ASSUME OperatorAssumption ==
    /\ \A c \in Configs : IsConfig(c)
    /\ \A w \in Worlds :
          /\ w.config \in Configs
          /\ w.stored # None =>
                /\ w.stored \in [version : {"v1alpha1", "v1beta1"}, object : {w.stored.object},
                                 rv : {1}, policy : {None}]
                /\ IF w.stored.version = "v1alpha1" THEN IsV1alpha1(w.stored.object)
                   ELSE IsV1beta1(w.stored.object)
    /\ \A o \in NewObjects : IsV1beta1(o)
    /\ \A change \in Changes : IsChange(change)
    /\ \A pair \in Reported : IsReported(pair[1], pair[2])

\* None is not mistaken for a level or for a condition that conversion sets.
ASSUME NoneAssumption ==
    /\ None \notin -128..5
    /\ None \notin {Condition("True", "Available"), Condition("False", "MCPEndpointUnavailable"),
                    Condition("True", "Verified"), Condition("False", "EndpointUnavailable"),
                    Condition("Unknown", "NotVerified")}

\* Clients create objects that break each of the rules.
ASSUME RulesAssumption ==
    \A c \in Configs :
        LET p == ParseAdmissionPolicy(c.policy) IN
        /\ p.imageAllowlist # {} =>
              \E o \in NewObjects :
                  /\ o.spec.source.image # None
                  /\ \A prefix \in p.imageAllowlist : ~From(prefix, o.spec.source.image)
        /\ \E o \in NewObjects :
              o.spec.source.image # None /\ o.spec.source.image.digest # "sha256"
        /\ \E o \in NewObjects : o.spec.config.storage > p.maxStorageMounts
        /\ p.requiredLabels # {} => \E o \in NewObjects : ~(p.requiredLabels \subseteq o.labels)
        /\ \E o \in NewObjects : o.spec.runtime.container \cap ContainerForbidden # {}

VARIABLES
    config,            \* deployed with its webhook registration
    settings,          \* what main made of it, None while the process is down
    stored, revision,  \* the MCPServer in the store, or None; writes so far
    updates,           \* the request of each client, or None
    unreported,        \* a reconcile of the MCPServer is due
    configMap,         \* logging ConfigMap: None, or its text
    level, logQueued,  \* of the logger; a request of the log level controller
    budget             \* bounds: requests, changes of CRDs and texts, deployments

requestVars == <<stored, revision, updates>>
memoryVars == <<settings, unreported, level, logQueued>>
operatorVars == <<config, memoryVars, requestVars, configMap, budget>>
vars == <<providerVars, operatorVars>>

Spend(what) == budget[what] > 0 /\ budget' = [budget EXCEPT ![what] = @ - 1]

-----------------------------------------------------------------------------
(* main *)

\* What main stops at before it builds the manager's parts.
Refused(c) ==
    \/ ParseDefaultPosture(c.posture) = None
    \/ TLSRefused(c.tls)
    \/ ResolveRefused(c.httproute)
    \/ ResolveRefused(c.kuadrant)

\* The reconciler and webhook as main configures them.
Settings(c) ==
    [config |-> c,
     posture |-> ParseDefaultPosture(c.posture),
     tls |-> TLSConfigFunc(ParseTLSSettings(c.tls)),
     operandTLS |-> IF c.propagate THEN EnvVars(ParseTLSSettings(c.tls)) ELSE None,
     httproute |-> ResolveAllowedNamespaces(c.httproute),
     kuadrant |-> ResolveAllowedNamespaces(c.kuadrant),
     policy |-> IF c.webhook THEN ParseAdmissionPolicy(c.policy) ELSE None]

\* policyEnforcedCondition, a function of the startup configuration.
PolicyEnforcedCondition ==
    IF settings.policy = None THEN Condition("False", "WebhookDisabled")
    ELSE IF ~HasActiveRules(settings.policy) THEN Condition("False", "NoPolicyConfigured")
         ELSE Condition("True", "WebhookEnabled")

\* A process that ended has no memory.
Forget ==
    IF phase' = "down"
    THEN settings' = None /\ unreported' = FALSE /\ level' = 0 /\ logQueued' = FALSE
    ELSE UNCHANGED memoryVars

\* main up to SetupAll.
Launch ==
    /\ ~Refused(config)
    /\ BeginSetup
    /\ settings' = Settings(config)
    /\ level' = config.level
    /\ UNCHANGED <<clusterVars, faults, mapped, pending, started, controllers, synced,
                   watcherVars, config, requestVars, unreported, configMap, logQueued, budget>>

\* main from SetupAll on: the log level watch is refused, or the manager starts
\* and its informers list what there is.
Start ==
    /\ phase = "setup" /\ index = Len(Registry) + 1
    /\ \/ /\ LoggingRefused(settings.config.log)
          /\ Exit
          /\ Forget
          /\ UNCHANGED <<clusterVars, faults>>
       \/ /\ ~LoggingRefused(settings.config.log)
          /\ StartManager
          /\ unreported' = (stored # None)
          /\ logQueued' = (settings.config.log.watched /\ configMap # None)
          /\ UNCHANGED <<settings, level>>
    /\ UNCHANGED <<config, requestVars, configMap, budget>>

\* A step of the providers within the process.
ProviderStep ==
    /\ RegistryStep
    /\ Forget
    /\ UNCHANGED <<config, requestVars, configMap, budget>>

Crashes ==
    /\ Crash
    /\ Forget
    /\ UNCHANGED <<config, requestVars, configMap, budget>>

\* The cluster's own CRD changes.
ClusterStep ==
    /\ \E c \in CRDs :
          \/ Spend("crds") /\ (InstallCRD(c) \/ RemoveCRD(c))
          \/ ServeCRD(c) /\ UNCHANGED budget
    /\ UNCHANGED <<config, memoryVars, requestVars, configMap>>

\* A new configuration is deployed; the process started with the old one ends.
Deploy(c) ==
    /\ c \in budget.deploys
    /\ budget' = [budget EXCEPT !.deploys = {}]
    /\ config' = c
    /\ UNCHANGED <<providerVars, memoryVars, requestVars, configMap>>

Replace ==
    /\ phase # "down" /\ settings.config # config
    /\ Exit
    /\ Forget
    /\ UNCHANGED <<clusterVars, faults, config, requestVars, configMap, budget>>

-----------------------------------------------------------------------------
(* The API server. *)

Converts == phase = "running"

\* The stored object in one version or the other.
Hub(s) == IF s.version = "v1alpha1" THEN ConvertTo(s.object) ELSE s.object
Alpha(s) == IF s.version = "v1alpha1" THEN s.object ELSE ConvertFrom(s.object)
View(s, version) == IF version = "v1alpha1" THEN Alpha(s) ELSE Hub(s)

\* The request with one field changed.
Change(o, change) ==
    CASE change[1] = "none"      -> o
      [] change[1] = "labels"    -> [o EXCEPT !.labels = change[2]]
      [] change[1] = "image"     -> [o EXCEPT !.spec.source.image = change[2]]
      [] change[1] = "storage"   -> [o EXCEPT !.spec.config.storage = change[2]]
      [] change[1] = "pod"       -> [o EXCEPT !.spec.runtime.pod = change[2]]
      [] change[1] = "container" -> [o EXCEPT !.spec.runtime.container = change[2]]

\* The schema of the request's own version: v1alpha1 requires a source, v1beta1
\* a source or a workloadRef, which is neither added nor removed.
SchemaValid(r) ==
    IF r.version = "v1alpha1" THEN r.object.spec.source.image # None
    ELSE LET spec == r.object.spec IN
         /\ (spec.workloadRef = None) = (spec.source.image # None)
         /\ spec.workloadRef # None =>
               /\ spec.config.storage = 0 /\ spec.network = None
               /\ spec.runtime.pod = {} /\ spec.runtime.container = {}
         /\ r.base > 0 =>
               (spec.workloadRef = None) = (Hub(stored).spec.workloadRef = None)

Sends(c, r) == updates' = [updates EXCEPT ![c] = r]

Request(version, base, change, object) ==
    [version |-> version, base |-> base, change |-> change, object |-> object,
     step |-> "sent", policy |-> None, warned |-> FALSE, unread |-> FALSE]

SendCreate(c, version) ==
    /\ Spend("requests")
    /\ updates[c] = None /\ stored = None
    /\ \E o \in NewObjects :
          Sends(c, Request(version, 0, "all", IF version = "v1alpha1" THEN ConvertFrom(o) ELSE o))
    /\ UNCHANGED <<providerVars, config, memoryVars, stored, revision, configMap>>

SendUpdate(c, version) ==
    /\ Spend("requests")
    /\ updates[c] = None /\ stored # None
    /\ stored.version = version \/ Converts
    /\ \E change \in Changes :
          Sends(c, Request(version, stored.rv, change[1], Change(View(stored, version), change)))
    /\ UNCHANGED <<providerVars, config, memoryVars, stored, revision, configMap>>

\* Nothing is written over what the client did not read.
Current(r) == IF r.base = 0 THEN stored = None ELSE stored # None /\ stored.rv = r.base

NeedsConversion(r) ==
    r.version = "v1alpha1" \/ (stored # None /\ stored.version = "v1alpha1")

-----------------------------------------------------------------------------
(* The validating webhook, whose object is v1alpha1 whatever was sent. *)

Reviewed(r) == IF r.version = "v1alpha1" THEN r.object ELSE ConvertFrom(r.object)

Answers == phase = "running" /\ settings.policy # None

\* Variant: every request that reached the webhook in v1alpha1 is warned of.
WarnConverted(r) == r.base > 0 /\ Hub(stored).spec.workloadRef # None

\* alphaReferenceLossWarnings, when the stored object can be read.
AlphaReferenceLossWarnings(r) ==
    /\ r.base > 0 /\ r.version = "v1alpha1"
    /\ \/ Hub(stored).spec.workloadRef # None
       \/ Hub(stored).spec.serviceRef # None

\* ValidateCreate and ValidateUpdate; without a registered webhook a request is
\* not reviewed.  The lookup of the stored object may fail, which costs the warning.
Admit(c) ==
    LET r == updates[c] IN
    /\ r # None /\ r.step = "sent"
    /\ Current(r) /\ SchemaValid(r)
    /\ \/ /\ ~config.webhook
          /\ NoFault
          /\ Sends(c, [r EXCEPT !.step = "admitted"])
       \/ /\ config.webhook
          /\ Answers /\ Validate(settings.policy, Reviewed(r))
          /\ NoFault
          /\ Sends(c, [r EXCEPT !.step = "admitted", !.policy = settings.policy,
                                !.warned = AlphaReferenceLossWarnings(r)])
       \/ /\ config.webhook
          /\ Answers /\ Validate(settings.policy, Reviewed(r))
          /\ r.base > 0 /\ r.version = "v1alpha1"
          /\ Fault
          /\ Sends(c, [r EXCEPT !.step = "admitted", !.policy = settings.policy,
                                !.unread = TRUE])
    /\ UNCHANGED <<clusterVars, phase, registryVars, watcherVars, config, memoryVars, stored,
                   revision, configMap, budget>>

\* A conflict, an invalid object, a verdict against it, or no answer.
Reject(c) ==
    LET r == updates[c] IN
    /\ r # None
    /\ \/ ~Current(r)
       \/ r.step = "sent" /\ Current(r) /\ ~SchemaValid(r)
       \/ /\ r.step = "sent" /\ config.webhook
          /\ Answers => ~Validate(settings.policy, Reviewed(r))
       \/ r.step = "admitted" /\ NeedsConversion(r) /\ ~Converts
    /\ Sends(c, None)
    /\ UNCHANGED <<providerVars, config, memoryVars, stored, revision, configMap, budget>>

\* The write.  The status is the one the request's version shows of the stored
\* object, and goes with the rest through conversion.
Written(r) ==
    LET o == IF r.base = 0 THEN r.object
             ELSE [r.object EXCEPT !.status = View(stored, r.version).status]
    IN  IF r.version = "v1alpha1" THEN ConvertTo(o) ELSE o

Commit(c) ==
    LET r == updates[c] IN
    /\ r # None /\ r.step = "admitted"
    /\ Current(r)
    /\ NeedsConversion(r) => Converts
    /\ stored' = [version |-> "v1beta1", object |-> Written(r), rv |-> revision + 1,
                  policy |-> r.policy]
    /\ revision' = revision + 1
    /\ Sends(c, None)
    /\ unreported' = (phase = "running"
                       /\ (unreported \/ r.base = 0
                           \/ Written(r).spec # Hub(stored).spec
                           \/ Written(r).labels # Hub(stored).labels))
    /\ UNCHANGED <<providerVars, config, settings, configMap, level, logQueued, budget>>

Delete ==
    /\ Spend("requests")
    /\ stored # None
    /\ stored' = None /\ unreported' = FALSE
    /\ UNCHANGED <<providerVars, config, settings, revision, updates, configMap, level,
                   logQueued>>

-----------------------------------------------------------------------------
(* Controllers of the running manager. *)

\* The status write at the end of a reconcile of the MCPServer; the webhook does
\* not see writes of the status.
Report ==
    /\ phase = "running" /\ unreported /\ stored # None
    /\ \E pair \in Reported :
          stored' = [stored EXCEPT
                        !.version = "v1beta1", !.rv = revision + 1,
                        !.object = [Hub(stored) EXCEPT
                            !.status.conditions.available = pair[1],
                            !.status.conditions.verified = pair[2],
                            !.status.conditions.enforced = PolicyEnforcedCondition]]
    /\ revision' = revision + 1
    /\ unreported' = FALSE
    /\ UNCHANGED <<providerVars, config, settings, updates, configMap, level, logQueued, budget>>

\* The logging ConfigMap changes, appears or goes; the metadata watch sees it.
WriteConfigMap(text) ==
    /\ Spend("texts")
    /\ text # configMap
    /\ configMap' = text
    /\ logQueued' = (phase = "running" /\ settings.config.log.watched)
    /\ UNCHANGED <<providerVars, config, settings, unreported, level, requestVars>>

\* logLevelReconciler.Reconcile reads past the cache; an error is retried, and a
\* ConfigMap that is gone, has no key or no level leaves the level as it is.
LogLevelReconcile ==
    /\ phase = "running" /\ logQueued
    /\ \/ Fault /\ UNCHANGED <<level, logQueued>>
       \/ /\ NoFault /\ logQueued' = FALSE
          /\ level' = IF configMap = None \/ configMap = <<"no key">> THEN level
                      ELSE IF ParseLogLevel(configMap) = None THEN level
                      ELSE ParseLogLevel(configMap)
    /\ UNCHANGED <<clusterVars, phase, registryVars, watcherVars, config, settings, unreported,
                   requestVars, configMap, budget>>

-----------------------------------------------------------------------------

Init ==
    /\ RegistryInit
    /\ \E w \in Worlds :
          /\ crds \in w.crds /\ faults = w.faults
          /\ config = w.config /\ stored = w.stored /\ configMap = w.configMap
          /\ budget = w.budget
    /\ revision = 1 /\ updates = [c \in Clients |-> None]
    /\ settings = None /\ unreported = FALSE /\ level = 0 /\ logQueued = FALSE

Next ==
    \/ Launch \/ Start \/ ProviderStep \/ Crashes \/ ClusterStep \/ Replace
    \/ \E c \in Configs : Deploy(c)
    \/ \E c \in Clients, v \in Versions : SendCreate(c, v) \/ SendUpdate(c, v)
    \/ \E c \in Clients : Admit(c) \/ Reject(c) \/ Commit(c)
    \/ Delete \/ Report
    \/ \E t \in Texts : WriteConfigMap(t)
    \/ LogLevelReconcile

\* A process that ended is started again; its goroutines each get on with their
\* work, timers fire, and CRDs that exist come to be served.
Fairness ==
    /\ WF_vars(Launch) /\ WF_vars(Start) /\ WF_vars(Replace)
    /\ WF_vars(SetupProvider /\ ProviderStep)
    /\ WF_vars((WatchProvider \/ EndWatch \/ \E c \in CRDs : BeginWatch(c)) /\ ProviderStep)
    /\ \A c \in CRDs : WF_vars(TimerFires(c) /\ ProviderStep)
    /\ \A c \in CRDs : WF_vars(ServeCRD(c) /\ ClusterStep)
    /\ \A p \in Providers : WF_vars((InformersSync(p) \/ SyncTimesOut(p)) /\ ProviderStep)

Spec == Init /\ [][Next]_vars /\ Fairness

-----------------------------------------------------------------------------
(* Properties *)

\* Types of the configuration, the process and what is stored; a process that is
\* down has no settings.
TypeOK ==
    /\ crds \subseteq CRDs /\ served \subseteq crds /\ mapped \subseteq CRDs
    /\ phase \in {"down", "setup", "running"}
    /\ config \in Configs
    /\ phase = "down" <=> settings = None
    /\ settings # None => settings.config \in Configs
    /\ \A c \in Clients : updates[c] # None => updates[c].step \in {"sent", "admitted"}
    /\ stored # None => stored.version \in {"v1alpha1", "v1beta1"} /\ stored.rv <= revision
    /\ level \in -128..127

\* Whatever version a client writes in, and whatever is deployed or fails
\* meanwhile, an object that was stored after a review complies, as a v1beta1
\* object, with the policy it was reviewed under (webhook validate and the rules
\* of policy.go, through conversion).
StoredComplies ==
    (stored # None /\ stored.policy # None) => Complies(Hub(stored), stored.policy)

\* The fields both versions have, and what the controllers said of the server:
\* Available, and Verified as long as the workload is Available.
Shared(o) ==
    LET c == o.status.conditions
        available == c.available # None /\ c.available.status = "True"
    IN  [labels |-> o.labels, image |-> o.spec.source.image, storage |-> o.spec.config.storage,
         pod |-> o.spec.runtime.pod, container |-> o.spec.runtime.container,
         rest |-> <<o.spec.config.port, o.spec.runtime.replicas, o.spec.runtime.probes,
                    o.spec.mcp, o.spec.network, o.spec.transport>>,
         status |-> <<o.status.address, o.status.serverInfo, c.accepted, c.enforced,
                      c.available, IF available THEN c.verified.status ELSE None>>]

\* An update through either version changes, of what both versions have, the
\* field its client changed and nothing else: neither the migration of a stored
\* object nor the way through v1alpha1 and back alters a field, what Available
\* says, or whether a server that is Available is Verified (ConvertTo, ConvertFrom).
ChangesOnlyItsField ==
    [][\A c \in Clients :
          (updates[c] # None /\ updates[c].base > 0 /\ Commit(c)) =>
              \A f \in DOMAIN Shared(Hub(stored)) \ {updates[c].change} :
                  Shared(Hub(stored'))[f] = Shared(Hub(stored))[f]]_vars

\* A client that drops a reference by writing v1alpha1 was warned, unless the
\* webhook could not read the stored object; nobody else is (alphaReferenceLossWarnings).
LossIsAnnounced ==
    [][\A c \in Clients :
          (updates[c] # None /\ updates[c].policy # None /\ updates[c].base > 0 /\ Commit(c)) =>
              LET lost(ref) == Hub(stored).spec[ref] # None /\ Hub(stored').spec[ref] = None
              IN  /\ lost("workloadRef") \/ lost("serviceRef")
                        => updates[c].warned \/ updates[c].unread
                  /\ updates[c].warned => updates[c].version = "v1alpha1"]_vars

\* When no reconcile is due, the PolicyEnforced condition says of the running
\* operator whether some object would be refused (policyEnforcedCondition,
\* HasActiveRules).
QuietReport ==
    (phase = "running" /\ ~unreported /\ stored # None) =>
        (Hub(stored).status.conditions.enforced.status = "True"
            <=> settings.policy # None /\ \E o \in NewObjects : ~Complies(o, settings.policy))

\* A server that is handed the operator's TLS settings reads from its
\* environment what the operator itself negotiates (envVars, parseTLSGroups).
OperandTLSMatches ==
    (settings # None /\ settings.operandTLS # None) =>
        /\ ~TLSRefused(settings.operandTLS)
        /\ TLSConfigFunc(ParseTLSSettings(settings.operandTLS)) = settings.tls

\* An allowlist that was configured is never taken for "unrestricted"
\* (configureHTTPRouteProvider, configureKuadrantProvider fail closed).
FailsClosed ==
    settings # None =>
        \A p \in {"httproute", "kuadrant"} :
            LET list == settings.config[p] IN
            (IF list.flag # None THEN list.flag ELSE list.env) # <<>> => settings[p] # {}

\* The two together: what main hands on means what the process was configured with.
SettingsKeepMeaning == OperandTLSMatches /\ FailsClosed

\* When no request is due, a ConfigMap that names a level has been followed, and
\* a verbosity that no level holds has not (logLevelReconciler, parseLogLevel).
QuietLogLevel ==
    (phase = "running" /\ settings.config.log.watched /\ ~logQueued /\ configMap # None) =>
        CASE configMap[1] = "name"   -> configMap[2] \in DOMAIN LevelName
                                            => level = LevelName[configMap[2]]
          [] configMap[1] = "number" -> /\ configMap[2] \in 1..128 => level = -configMap[2]
                                        /\ configMap[2] \notin 1..128 => level <= 5
          [] OTHER -> TRUE

\* The two together: at rest a process reports and logs as what is deployed and stored asks
\* for, whatever was deployed, written or crashed before (policyEnforcedCondition,
\* logLevelReconciler).
QuietProcessIsCurrent == QuietReport /\ QuietLogLevel

\* Once a provider's CRDs are served for good and the configuration is sound, its
\* controller comes to run for good, whatever failed before (SetupAll, crdWatcher).
ProvidersStart ==
    \A p \in Providers :
        <>[](RequiredCRDs[p] \subseteq served /\ ~Refused(config) /\ ~LoggingRefused(config.log))
            => <>[](p \in synced)
=============================================================================
