SPECIFICATION Spec
CONSTANTS
  None = None
  Ports = {p1, p2}
  Modes = {"managed"}
  MaxWrites = 3
  MaxDisturbances = 0
PROPERTIES
  NeverDeletesReliedOnService
CHECK_DEADLOCK FALSE
