SPECIFICATION Spec
CONSTANTS
  Missions = {m1}
  Operators = {c1}
  Pollers = {c1}
  Idle = Idle
  Verdicts = {TRUE, FALSE}
  Params = {p1, p2}
  Points = {t1, t2}
  Drones = {d1}
  DeletableDrones = {d1}
  NoDrone = NoDrone
  Perpendicular = {TRUE}
  Inspections = {i1}
  MaxInspections = 1
  HandEdits = {e1}
  NoPath = NoPath
  NoPlan = NoPlan
  Absent = Absent
PROPERTIES
  SerialSpec
