SPECIFICATION Spec
CONSTANTS
  Runs = {r1}
  Boxes = {b1}
  NULL = NULL
  Slots = {w1, w2}
  Clients = {c1}
  Idle = Idle
  Unused = Unused
  Deleted = Deleted
  MaxCrashes = 0
CHECK_DEADLOCK FALSE
PROPERTIES
  TerminalIsFinal
