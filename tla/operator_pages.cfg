CONSTANTS
  Waypoints = {a, b}
  Positions = {p, q}
  Saved = saved
  MaxSteps = 2
  MaxRequests = 1
  NoWaypoint = none
  MaxPoints = 2
  MaxPlacements = 2
  Inspections = {i1}
  Fields = {field}
  Points = {pt}
  NoPoint = nopoint
  MaxOps = 2
  MAX_INSPECTIONS = 1
  Axes = {lat, alt}
  Numbers = {0, 1}
  Default = 0
  MaxPicks = 2
  Unset = unset
  CheckKinds = {k1, k2}
  WARNING_AUTO_COLLAPSE_THRESHOLD = 1
  MaxRows = 2
  MaxResults = 2
SPECIFICATION Spec
INVARIANTS TypeOK MovesAreShown PanelsInPhase EntriesKept
SYMMETRY Interchangeable
