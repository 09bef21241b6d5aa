SPECIFICATION Spec
CONSTANTS
    None = None
    Registry <- TwoProviders
    CRDs = {"mcpservers", "routes", "extensions"}
    OwnCRDs = {"mcpservers"}
    RequiredCRDs <- Required
    MaxFaults = 2
    Configs <- MCConfigs
    Worlds <- MCWorlds
    Clients = {"c1", "c2"}
    Versions = {"v1alpha1", "v1beta1"}
    NewObjects <- Creations
    Changes <- MCChanges
    Texts <- MCTexts
    Reported <- MCReported
INVARIANTS
    StoredComplies
    QuietProcessIsCurrent
    SettingsKeepMeaning
    EachProviderOnce
PROPERTIES
    ChangesOnlyItsField
    LossIsAnnounced
    ProvidersStart
CHECK_DEADLOCK FALSE
