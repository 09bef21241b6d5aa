SPECIFICATION Spec
CONSTANTS
  None = None
  a = a
  b = b
  Names = {a, b}
  Gateways = {"gw1", "gw2"}
  Sections = {"wild", "direct"}
  Hosts = {"host1", "host2"}
  Exts = {"ext"}
  ConfigMaps = {"cm1"}
  Contents <- MCContents
  Services = {"byo"}
  Ports = {"port1"}
  ServerSpecs <- MCServerSpecs
  Prefixes = {"p1", "p2"}
  AutoPrefix <- MCAutoPrefix
  ExtStates <- MCExtStates
  GatewayStates <- MCGatewayStates
  Worlds <- MCWorlds
  MaxUid = 2
INVARIANTS
  QuietObjectsAreCurrent
  QuietStatusIsCurrent
  QuietPrefixesAreDistinct
PROPERTIES
  KeepsContract
CHECK_DEADLOCK FALSE
