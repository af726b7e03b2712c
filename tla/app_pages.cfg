CONSTANTS
  i1 = i1
  i2 = i2
  ann = ann
  bob = bob
  MapPlans <- MCMapPlans
  Inventory <- MCInventory
  Inspected = {i1, i2}
  NoInspection = noinspection
  NoWaypoint = nowaypoint
  MaxMapActs = 2
  Sights = {"sa", "sb"}
  MaxSwitchActs = 5
  SceneAirports <- MCSceneAirports
  ScenePlans <- MCScenePlans
  SceneLayers <- MCSceneLayers
  SceneIds <- MCSceneIds
  crowdAt <- MCCrowdAt
  NoSight = nosight
  MaxSceneActs = 2
  MaxSamplings = 2
  People = {ann, bob}
  SuperAdmins = {ann}
  NoPerson = noperson
  MaxTokens = 3
  MaxSessionActs = 4
  Fields = {f1, f2}
  NoField = nofield
  MaxNavActs = 4
  NoAccount = noaccount
  MaxCalls = 2
  MaxAccountActs = 4
  MaxSettingsActs = 4
  MaxOpeningActs = 8
  Drones = {d1, d2, d3}
  NoDrone = nodrone
  Flights = {m1, m2}
  Presets = {p1, p2}
  Systems = {s1, s2}
  NoSystem = nosystem
  Catalogs <- MCCatalogs
  NoChoice = nochoice
  MaxPanelCalls = 2
  MaxPanelActs = 4
SPECIFICATION Spec
INVARIANTS TypeOK DrawnFits PersonFits FormsStand
PROPERTY CameraKept
CHECK_DEADLOCK FALSE
