SPECIFICATION Spec
CONSTANTS
  Missions = {m1, m2}
  Params = {p1}
  Points = {t1, t2}
  Drones = {}
  NoDrone = NoDrone
  Perpendicular = {TRUE}
  Inspections = {i1}
  MaxInspections = 1
  HandEdits = {e1}
  NoPath = NoPath
  NoPlan = NoPlan
  Absent = Absent
  Clonable = {"DRAFT", "PLANNED", "VALIDATED", "EXPORTED", "MEASURED", "COMPLETED"}
  DeletableDrones = {}
INVARIANTS
  CurrentTrajectory
