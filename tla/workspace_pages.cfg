CONSTANTS
  Missions = {m1, m2, m3}
  Airports = {a1, a2}
  Located = {{m1, a1}, {m2, a1}, {m3, a2}}
  None = none
  MaxAwaited = 2
  MaxReadings = 1
  MaxRequested = 1
  Media = {f1}
  FieldMissions = {m1, m2}
  FieldInspections = {i1, i2, i3}
  Belonging = {{i1, m1}, {i2, m1}, {i3, m2}}
  NoLink = nolink
  MaxChains = 2
  Routes = {w1}
  NoRoute = noroute
  MaxChecks = 2
  Groups = {g1}
  Videos = {v1, v2}
  Unassigned = unassigned
  MaxCalls = 2
  Checked = {c1, c2}
  NoCheck = nocheck
  MaxRuns = 2
  Forms = {x1, x2}
  NoForm = noform
  CameraPresets = {p1}
  DefaultPreset = p1
  Own = own
  Turns = 3
  MaxZoom = 3
  Null = null
  Absent = absent
  MaxEdits = 2
SPECIFICATION Spec
INVARIANTS TypeOK TabsFollow MissionShown FootageShown ReviewFits
SYMMETRY Interchangeable
