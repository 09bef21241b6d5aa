SPECIFICATION Spec
CONSTANTS
  None = None
  Gateways = {"gw1", "gw2"}
  Hosts = {"host1"}
  ConfigMaps = {"cm1", "cm2"}
  Contents <- MCContents
  Services = {"byo"}
  Ports = {"port1"}
  ServerSpecs <- MCServerSpecs
  Schemes = {"http", "https"}
  Worlds <- MCWorlds
  MaxWrites = 2
  MaxUid = 2
  MaxDisturbances = 1
INVARIANTS
  QuietRouteIsCurrent
  QuietStatusIsCurrent
PROPERTIES
  KeepsContract
CHECK_DEADLOCK FALSE
