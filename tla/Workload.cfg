SPECIFICATION Spec
CONSTANTS
    None = None
    Pods = {p1, p2}
    Objects <- MCObjects
    Worlds <- MCWorlds
INVARIANTS
    QuietServiceSelectsWorkload
    QuietAcceptedIsCurrent
    QuietAvailabilityIsCurrent
    QuietDiagnosisIsCurrent
    QuietTemplateIsCurrent
    AcceptedNetworkIsMeaningful
PROPERTIES
    ComesToRest
CHECK_DEADLOCK FALSE
