SPECIFICATION Spec
CONSTANTS
  Missions = {m1}
  Operators = {c1, c2}
  Pollers = {}
  Idle = Idle
  Verdicts = {}
  Params = {p1}
  Points = {t1}
  Drones = {}
  DeletableDrones = {}
  NoDrone = NoDrone
  Perpendicular = {TRUE}
  Inspections = {i1, i2}
  MaxInspections = 1
  HandEdits = {}
  NoPath = NoPath
  NoPlan = NoPlan
  Absent = Absent
SYMMETRY RequestSymmetry
INVARIANTS
  TypeOK
  InspectionLimit
  PlanBehindStatus
