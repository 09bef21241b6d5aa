SPECIFICATION FairSpec
CONSTANTS
  None = None
  g1 = g1
  g2 = g2
  g3 = g3
  Gateways = {}
  Providers = {"httproute", "kuadrant"}
  Urls = {"url"}
  ProviderOf <- MCProviderOf
  Images = {"a", "b"}
  Specs <- WorkloadSpecs
  FirstSpecs <- PlainFirst
  CABundles = {"ca1"}
  Foreign = {"nothing"}
  Endpoints = {"down"}
  MaxRetries = 2
  MaxGen = 2
  MaxUid = 1
  MaxDisturbances = 1
PROPERTIES
  ComesToRest
CHECK_DEADLOCK FALSE
