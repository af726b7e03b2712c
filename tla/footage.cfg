SPECIFICATION FairSpec
CONSTANTS
  Runs = {r1}
  Boxes = {b1, b2}
  NULL = NULL
  Slots = {w1, w2}
  Clients = {c1}
  Idle = Idle
  Unused = Unused
  Deleted = Deleted
  MaxCrashes = 2
  HubFiles = {h1}
  ManualFiles = {u1, u2}
  m1 = m1
  i1 = i1
  i2 = i2
  Missions = {m1, m2}
  Inspections = {i1, i2}
  MissionOf <- MCMissionOf
  NoMission = NoMission
  NoInspection = NoInspection
  Absent = Absent
  QrCases <- MCQrCases
  utf8Bytes <- MCBytes
CHECK_DEADLOCK FALSE
INVARIANTS
  TypeOK
  PointersResolve
  ResultsOfConfirmedBoxes
  ProcessOnlyConfirmed
  FirstFrameOwned
  DenseOrder
  RenumberSafe
  CodeIsRead
PROPERTIES
  RunResolves
  OthersKeepOrder
