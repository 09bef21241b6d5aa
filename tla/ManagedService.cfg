SPECIFICATION Spec
CONSTANTS
  None = None
  Ports = {p1, p2}
  Modes = {"managed", "byo"}
  MaxWrites = 2
  MaxDisturbances = 1
SYMMETRY PortSymmetry
INVARIANTS
  RestingServiceIsCurrent
  RestingEndpointIsCurrent
PROPERTIES
  OnlyOwnServicesTouched
CHECK_DEADLOCK FALSE
