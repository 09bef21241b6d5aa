SPECIFICATION Spec
CONSTANTS
  None = None
  g1 = g1
  g2 = g2
  g3 = g3
  Gateways = {}
  Providers = {"httproute", "kuadrant"}
  Urls = {"url"}
  ProviderOf <- MCProviderOf
  Images = {"a", "b"}
  Specs <- TwoImages
  FirstSpecs <- PlainFirst
  CABundles = {"ca1"}
  Foreign = {"nothing"}
  Endpoints = {"up", "down"}
  MaxRetries = 2
  MaxGen = 2
  MaxUid = 1
  MaxDisturbances = 2
INVARIANTS
  VerifiedBackedByHandshake
  AddressOnlyWhenVerified
  RestingStatusIsCurrent
  RestingDeploymentIsCurrent
  RestingHandshakeIsDecided
PROPERTIES
  ObservedGenerationMonotone
CHECK_DEADLOCK FALSE
