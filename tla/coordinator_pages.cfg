CONSTANTS
  r1 = r1
  r2 = r2
  u1 = u1
  u2 = u2
  u3 = u3
  p1 = p1
  p2 = p2
  p3 = p3
  g1 = g1
  g2 = g2
  Shapes = {r1, r2}
  Units = {u1, u2}
  parentOf <- MCParentOf
  NoFeature = nofeature
  Inventories <- MCInventories
  historyLimit <- MCHistoryLimit
  MaxVersion = 3
  MaxAttempts = 1
  MaxDisturbed = 1
  Spots = {s1}
  PhotoSets <- MCPhotoSets
  NoPlace = noplace
  MaxCreating = 2
  MaxMade = 2
  Drones = {d1, d2}
  NewDrone = dn
  NoDrone = nodrone
  List = dronelist
  MaxTyped = 2
  Templates = {t1, t2}
  NewTemplate = tn
  NoTemplate = notemplate
  Agls = {g1, g2}
  NoAgl = noagl
  kindOf <- MCKindOf
  unitsOf <- MCUnitsOf
  TemplateList = templatelist
  MaxTemplateEdits = 2
  Rows = {1, 2, 3}
  scopeOf <- MCScopeOf
  classOf <- MCClassOf
  Names = {1, 2}
  Sizes = {1, 2}
  MaxListActs = 2
SPECIFICATION Spec
INVARIANTS TypeOK InfraFollows CreationFits 
PROPERTY NothingDropped
CHECK_DEADLOCK FALSE
