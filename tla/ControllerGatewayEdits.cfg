SPECIFICATION Spec
CONSTANTS
  None = None
  g1 = g1
  g2 = g2
  g3 = g3
  Gateways = {g1, g2, g3}
  Providers = {"httproute", "kuadrant"}
  Urls = {"url"}
  ProviderOf <- MCProviderOf
  Images = {"a", "b"}
  Specs <- IdleGatewaySpecs
  FirstSpecs <- IdleGateway
  CABundles = {"ca1"}
  Foreign = {"nothing"}
  Endpoints = {"up"}
  MaxRetries = 2
  MaxGen = 3
  MaxUid = 1
  MaxDisturbances = 0
INVARIANTS
  RestingGatewayIsCurrent
CHECK_DEADLOCK FALSE
