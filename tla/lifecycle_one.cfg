SPECIFICATION Spec
CONSTANTS
  Missions = {m1}
  Params = {p1, p2}
  Points = {t1, t2}
  Drones = {d1}
  NoDrone = NoDrone
  Perpendicular = {TRUE, FALSE}
  Inspections = {i1, i2}
  MaxInspections = 2
  HandEdits = {e1, e2}
  NoPath = NoPath
  NoPlan = NoPlan
  Absent = Absent
  Clonable = {"DRAFT", "PLANNED", "VALIDATED", "EXPORTED", "MEASURED", "COMPLETED", "CANCELLED"}
  DeletableDrones = {d1}
INVARIANTS
  TypeOK
  PlanBehindStatus
  AcceptedPlan
  DeliveredPlan
  StaleIsFlagged
PROPERTIES
  LockedMissions
