SPECIFICATION Spec
CONSTANTS
  None = None
  Namespaces = {"n1", "n2"}
  Addresses <- MCAddresses
  Ports = {"server", "dns", "web"}
  Blocks <- MCBlocks
  Families <- MCFamilies
  Keys = {"app", "team"}
  Reserved = {"app"}
  Values = {"a", "b"}
  Specs <- MCSpecs
  Flags <- MCFlags
  Configs <- MCConfigs
  MaxWrites = 2
  MaxDisturbances = 1
INVARIANTS
  RestingPolicyIsCurrent
  RestingReachability
  RestingPostureIsHonest
  RestingLabelsAreCurrent
CHECK_DEADLOCK FALSE
