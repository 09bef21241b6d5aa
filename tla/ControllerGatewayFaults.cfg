SPECIFICATION Spec
CONSTANTS
  None = None
  g1 = g1
  g2 = g2
  g3 = g3
  Gateways = {g1, g2, g3}
  Providers = {"httproute", "kuadrant"}
  Urls = {"url"}
  ProviderOf <- MCProviderOf
  Images = {"a", "b"}
  Specs <- GatewayOnOff
  FirstSpecs <- GatewayFirst
  CABundles = {"ca1"}
  Foreign = {"nothing"}
  Endpoints = {"up"}
  MaxRetries = 2
  MaxGen = 2
  MaxUid = 1
  MaxDisturbances = 1
INVARIANTS
  RestingGatewayIsCurrent
CHECK_DEADLOCK FALSE
