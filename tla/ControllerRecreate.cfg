SPECIFICATION Spec
CONSTANTS
  None = None
  g1 = g1
  g2 = g2
  g3 = g3
  Gateways = {}
  Providers = {"httproute", "kuadrant"}
  Urls = {"url"}
  ProviderOf <- MCProviderOf
  Images = {"a", "b"}
  Specs <- TLSFirst
  FirstSpecs <- TLSFirst
  CABundles = {"ca1", "ca2"}
  Foreign = {"nothing", "Deployment", "Service", "NetworkPolicy", "MCPGatewayBinding"}
  Endpoints = {"auth"}
  MaxRetries = 2
  MaxGen = 1
  MaxUid = 2
  MaxDisturbances = 1
INVARIANTS
  RestingStatusIsCurrent
  RestingDeploymentIsCurrent
  RestingCAHashIsCurrent
CHECK_DEADLOCK FALSE
