CONSTANTS
  Items = {"e1", "e2", "e3"}
  Sources <- MCSources
  SameFiles = {TRUE}
SPECIFICATION Spec
INVARIANTS RepairKeepsRecovered
CHECK_DEADLOCK FALSE
