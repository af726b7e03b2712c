------------------------------ MODULE FlightView3D ------------------------------
(***************************************************************************)
(* The scene of the 3D view (components/map/CesiumMapViewer and the files  *)
(* of cesium/), once the viewer is there: the terrain that heights are     *)
(* sampled from, the entities, the labels that are left where they would   *)
(* overlap, what is picked, and the flight of the drone's model along the  *)
(* plan.  Cesium is external: its terrain arrives, and answers, when it    *)
(* does.  Colours, sizes and coordinates are left out.                     *)
(***************************************************************************)
EXTENDS Naturals, Sequences, FiniteSets
LOCAL INSTANCE SequencesExt

CONSTANTS
  SceneAirports,  \* the features of the airport, in each of its states
  ScenePlans,     \* flight plans: waypoints and the durations of the legs
  SceneLayers,    \* the sets of layers that are switched on together
  SceneIds,       \* the sets of inspections that are shown
  Sights,         \* places that a camera looks at
  crowdAt,        \* the labels that overlap in a view of each place
  NoSight,        \* nothing picked
  MaxSceneActs,   \* bound: what the page and the operator do
  MaxSamplings    \* bound: samplings on their way at once

VARIABLES
  scene,          \* what the map hands to the viewer
  look,           \* what the camera looks at
  terrain,        \* [provider, settled, fallback]
  samplings,      \* samplings of the terrain on their way
  sampledHeights, \* the ground with a height, from which provider, and history: that without one
  sampledOf,      \* the sampling that is shown, or the one that has failed, is the last one
  labels,         \* labels whose show is set
  lastPass,       \* what the last pass over the labels has seen
  rebuilt,        \* labels were built since
  selectedFeatureKey, panel,
  sceneActs

sceneVars == <<scene, look, terrain, samplings, sampledHeights, sampledOf, labels, lastPass,
               rebuilt, selectedFeatureKey, panel, sceneActs>>

VALID_FEATURE_TYPES == {"surface", "obstacle", "safety_zone", "agl", "lha", "waypoint"}

SceneAssumption ==
  /\ \A a \in 1..Len(SceneAirports) : \A f \in SceneAirports[a] :
       f.kind \in VALID_FEATURE_TYPES \ {"waypoint"} /\ f.at \in Sights /\ f.whole \in BOOLEAN
  /\ \A p \in 1..Len(ScenePlans) : \A i \in 1..Len(ScenePlans[p].way) :
       /\ ScenePlans[p].way[i].at \in Sights /\ ScenePlans[p].way[i].hover \in Nat
       /\ ScenePlans[p].way[i].target \in Sights \cup {NoSight}
  /\ MaxSceneActs \in Nat /\ MaxSamplings \in Nat \ {0}

Waypts(p) == ToSet(ScenePlans[p].way)

-----------------------------------------------------------------------------
(* The infrastructure *)

Entity(f, what) == [kind |-> f.kind, id |-> f.id, what |-> what, at |-> f.at]

\* Polygons and lines, with a label for those that have one.
buildSurfaceEntities(features, on) ==
  LET shown == {f \in features : f.layer \in {"runways", "taxiways"} \cap on /\ f.whole}
  IN  {Entity(f, w) : f \in shown, w \in {"polygon", "label", "centerline"}}

\* An inactive zone is not whole.
buildSafetyZoneEntities(features, on) ==
  LET shown == {f \in features : f.layer = "safetyZones" /\ f.whole}
  IN  IF "safetyZones" \in on THEN {Entity(f, w) : f \in shown, w \in {"polygon", "label"}} ELSE {}

buildAirportBoundaryEntities(features, on) ==
  {Entity(f, "outline") : f \in {g \in features :
                                   g.layer = "airportBoundary" /\ g.layer \in on /\ g.whole}}

buildObstacleEntities(features, on) ==
  LET shown == {f \in features : f.layer = "obstacles" /\ f.whole}
  IN  IF "obstacles" \in on THEN {Entity(f, w) : f \in shown, w \in {"polygon", "label"}} ELSE {}

buildBufferZoneEntities(features, on) ==
  {[Entity(f, "buffer") EXCEPT !.kind = "none"] :
     f \in {g \in features : g.kind \in {"surface", "obstacle"} /\ g.whole
                                     /\ "bufferZones" \in on}}

\* Systems and units are clamped to the ground: they wait for the terrain.
buildAglSystemEntities(features, on, settled) ==
  {Entity(f, "label") : f \in {g \in features :
     g.kind \in {"agl", "lha"} /\ "aglSystems" \in on /\ settled /\ g.whole}}

BuiltFrom(features, on, settled) ==
  buildSurfaceEntities(features, on) \cup buildSafetyZoneEntities(features, on)
  \cup buildAirportBoundaryEntities(features, on) \cup buildObstacleEntities(features, on)
  \cup buildBufferZoneEntities(features, on) \cup buildAglSystemEntities(features, on, settled)

Infrastructure(a, on, settled) ==
  UNION {BuiltFrom(features, on, settled) : features \in {SceneAirports[a]}}

\* Mutant of lookupFeature: the units are looked for among the systems.
lookupFeature_units(a, p, kind, id) ==
  IF kind = "waypoint" THEN id \in {w.id : w \in Waypts(p)}
  ELSE \E f \in SceneAirports[a] : f.id = id /\ f.kind = kind /\ kind # "lha"

\* Whether what is picked is found in the data of the page.
lookupFeature(a, p, kind, id) ==
  IF kind = "waypoint" THEN id \in {w.id : w \in Waypts(p)}
  ELSE \E f \in SceneAirports[a] : f.id = id /\ f.kind = kind

-----------------------------------------------------------------------------
(* The trajectory *)

Simplified(s) == "simplifiedTrajectory" \in s.layers

visibleWaypoints(s) ==
  IF s.layers \cap {"trajectory", "simplifiedTrajectory"} = {} THEN <<>>
  ELSE SelectSeq(ScenePlans[s.plan].way, LAMBDA w :
         CASE w.kind = "TRANSIT" -> Simplified(s) \/ "transitWaypoints" \in s.layers
           [] w.kind = "MEASUREMENT" ->
                /\ Simplified(s) \/ "measurementWaypoints" \in s.layers
                /\ w.inspection \in s.ids
           [] OTHER -> TRUE)

\* The ground below the visible waypoints, and below what their cameras look at.
Grounds(s) ==
  LET way == ToSet(visibleWaypoints(s))
  IN  ({w.at : w \in way} \cup {w.target : w \in way}) \ {NoSight}

Point(w, what) == [kind |-> "waypoint", id |-> w.id, what |-> what, at |-> w.at]

\* The waypoints whose ground has a height; the others are left out.
Placed(way, heights) == SelectSeq(way, LAMBDA w : w.at \in heights.at)

\* collapseWaypointStacks: of those over one ground, the lowest carries the label.
Lowest(way, w) ==
  \A v \in ToSet(way) :
    v.at = w.at /\ v.kind \notin {"TAKEOFF", "LANDING"} => w.alt <= v.alt

\* Mutant of addWaypointDots: each waypoint of a column carries the label.
addWaypointDots_all(way, s, heights) ==
  LET dots == {w \in ToSet(Placed(way, heights)) : w.kind \notin {"TAKEOFF", "LANDING"}} IN
  {Point(w, "dot") : w \in dots}
  \cup {Point(w, "label") : w \in {v \in dots :
          \E m \in ToSet(way) : m.kind = "MEASUREMENT" /\ m.at = v.at}}
  \cup {Point(w, "warning") : w \in {v \in dots : v.id \in s.warned}}

\* The dots, the label of each column with a measurement, and the rings of the warnings.
addWaypointDots(way, s, heights) ==
  LET dots == {w \in ToSet(Placed(way, heights)) : w.kind \notin {"TAKEOFF", "LANDING"}} IN
  {Point(w, "dot") : w \in dots}
  \cup {Point(w, "label") : w \in {v \in dots : Lowest(way, v) /\
          \E m \in ToSet(way) : m.kind = "MEASUREMENT" /\ m.at = v.at}}
  \cup {Point(w, "warning") : w \in {v \in dots : v.id \in s.warned}}

\* The legs between two that follow each other over sampled ground.
Legs(way, heights) ==
  {i \in 1..(Len(way) - 1) : way[i].at \in heights.at /\ way[i + 1].at \in heights.at}

addPathSegments(way, heights) ==
  {[Point(way[i], "segment") EXCEPT !.kind = "none"] : i \in Legs(way, heights)}

\* Arrows along the legs, where they are long enough; they can be picked, and are no feature.
addPathArrows(way, heights) ==
  {[Point(way[i], "arrow") EXCEPT !.kind = "path_arrow"] :
     i \in {j \in Legs(way, heights) : way[j].at # way[j + 1].at}}

addCameraHeadingLines(way, heights) ==
  {[Point(w, "gaze") EXCEPT !.kind = "none"] :
     w \in {v \in ToSet(Placed(way, heights)) : v.kind = "MEASUREMENT" /\ v.target \in heights.at}}

addCornerDots(way, heights) ==
  {[Point(w, "corner") EXCEPT !.kind = "none"] :
     w \in {v \in ToSet(Placed(way, heights)) : v.kind = "TRANSIT"}}

\* One dot, not to be picked, for the measurements and hovers over one ground.
addStackedMeasurementDots(way, heights) ==
  LET placed == ToSet(Placed(way, heights))
      Column(g) == {w \in placed : w.at = g /\ w.kind \in {"MEASUREMENT", "HOVER"}}
  IN  {[kind |-> "none", id |-> "column", what |-> "column", at |-> g] :
         g \in {h \in {w.at : w \in ToSet(way)} : Cardinality(Column(h)) > 1}}

\* The entities of the trajectory.  Takeoff and landing are in no scope that remains.
DrawnAlong(way, s, heights) ==
  IF Simplified(s)
  THEN addPathSegments(way, heights) \cup addCornerDots(way, heights)
       \cup addStackedMeasurementDots(way, heights)
  ELSE (IF "cameraHeading" \in s.layers THEN addCameraHeadingLines(way, heights) ELSE {})
       \cup (IF "path" \in s.layers THEN addPathSegments(way, heights) ELSE {})
       \cup (IF "pathHeading" \in s.layers THEN addPathArrows(way, heights) ELSE {})
       \cup addWaypointDots(way, s, heights)

Trajectory(s, heights) == UNION {DrawnAlong(way, s, heights) : way \in {visibleWaypoints(s)}}

Entities == Infrastructure(scene.airport, scene.layers, terrain.settled)
            \cup Trajectory(scene, sampledHeights)

-----------------------------------------------------------------------------
(* The labels *)

LabelsOf(entities) == {[kind |-> e.kind, id |-> e.id] : e \in {d \in entities : d.what = "label"}}
Key(l) == <<l.kind, l.id>>

DECLUTTER_PRIORITY ==
  [surface |-> 100, safety_zone |-> 80, agl |-> 60, lha |-> 50, obstacle |-> 40, waypoint |-> 30]

\* Mutant of priority: the selection gives no boost.
priority_plain(l) == DECLUTTER_PRIORITY[l.kind]

priority(l) ==
  DECLUTTER_PRIORITY[l.kind] + (IF selectedFeatureKey = Key(l) THEN 1000 ELSE 0)

Overlap(l, m, place) == {l.id, m.id} \in crowdAt[place]

\* applyDeclutter: first fit, the highest priority first: the lowest is tried after all others.
applyDeclutter(ls, place) ==
  LET Lowliest(S) == CHOOSE l \in S : \A m \in S : priority(l) <= priority(m)
      Fit(l, accepted) == IF \E m \in accepted : Overlap(l, m, place) THEN accepted
                          ELSE accepted \cup {l}
      Itself(l) == l
  IN  MapThenFoldSet(Fit, {}, Itself, Lowliest, ls)

NoPass == [look |-> NoSight, count |-> 0]

\* A frame: a pass, if the camera or the number of entities is another.
runDeclutterPass ==
  LET there == Entities
      now   == [look |-> look, count |-> Cardinality(there)]
  IN
  /\ lastPass # now
  /\ lastPass' = now /\ rebuilt' = FALSE
  /\ labels' = applyDeclutter(LabelsOf(there), look)
  /\ UNCHANGED <<scene, look, terrain, samplings, sampledHeights, sampledOf, selectedFeatureKey,
                 panel, sceneActs>>

\* What has been built anew shows its labels; what has not keeps them as they are.
Relabel(infra, path) ==
  /\ labels' = (IF infra THEN LabelsOf(Infrastructure(scene'.airport, scene'.layers,
                                                      terrain'.settled))
                ELSE {l \in labels : l.kind # "waypoint"})
               \cup (IF path THEN LabelsOf(Trajectory(scene', sampledHeights'))
                     ELSE {l \in labels : l.kind = "waypoint"})
  /\ rebuilt' = (rebuilt \/ infra \/ path)

-----------------------------------------------------------------------------
(* The terrain *)

Nowhere    == [from |-> "none", at |-> {}, missing |-> {}]
NotSampled == [from |-> "failed", at |-> {}, missing |-> {}]

\* The effect that samples: what is on its way no longer counts.  Without a point, nothing is
\* asked, and no height is known.
Sample(s, provider) ==
  LET late == [i \in 1..Len(samplings) |-> [samplings[i] EXCEPT !.live = FALSE]] IN
  IF Grounds(s) = {}
  THEN samplings' = late /\ sampledHeights' = Nowhere /\ sampledOf' = TRUE
  ELSE /\ Len(samplings) < MaxSamplings
       /\ samplings' = Append(late, [at |-> Grounds(s), from |-> provider, live |-> TRUE])
       /\ sampledOf' = FALSE /\ UNCHANGED sampledHeights

\* Mutant of Sampled: a sampling that was superseded is shown.
Sampled_late(q, heights) == IF heights = NotSampled THEN sampledHeights ELSE heights

\* What a sampling brings: nothing if it failed or was superseded.
Sampled(q, heights) == IF heights = NotSampled \/ ~q.live THEN sampledHeights ELSE heights

\* A sampling ends: with heights for some of the ground, for none or for all of it, or it fails.
\* resolveWaypointHeights leaves out what has no height, and what is left takes the place of all
\* there was.
SamplingEnds(i) ==
  LET q == samplings[i] IN
  /\ i \in 1..Len(samplings)
  /\ samplings' = RemoveAt(samplings, i)
  /\ UNCHANGED <<scene, terrain>>
  /\ \E heights \in {[from |-> q.from, at |-> g, missing |-> q.at \ g] : g \in SUBSET q.at}
                   \cup {NotSampled} :
       /\ sampledHeights' = Sampled(q, heights)
       /\ sampledOf' = IF q.live THEN heights # NotSampled ELSE sampledOf
       /\ Relabel(FALSE, q.live /\ heights # NotSampled)
  /\ UNCHANGED <<look, lastPass, selectedFeatureKey, panel, sceneActs>>

\* setTerrain has loaded the world's terrain: it takes the place of the ellipsoid.
terrainProviderChanged ==
  /\ terrain.provider = "ellipsoid"
  /\ terrain' = [terrain EXCEPT !.provider = "world", !.settled = TRUE]
  /\ Sample(scene, "world") /\ UNCHANGED scene
  /\ Relabel(~terrain.settled, sampledHeights' # sampledHeights)
  /\ UNCHANGED <<look, lastPass, selectedFeatureKey, panel, sceneActs>>

\* Mutant of Settle: without terrain, the markers never appear.
Settle_never(t) == [t EXCEPT !.fallback = FALSE]

Settle(t) == [t EXCEPT !.fallback = FALSE, !.settled = TRUE]

\* TERRAIN_SETTLE_FALLBACK_MS later.
TerrainFallback ==
  /\ terrain.fallback
  /\ terrain' = Settle(terrain)
  /\ UNCHANGED <<scene, samplings, sampledHeights, sampledOf>>
  /\ Relabel(~terrain.settled, FALSE)
  /\ UNCHANGED <<look, lastPass, selectedFeatureKey, panel, sceneActs>>

-----------------------------------------------------------------------------
(* The page and the picks *)

SceneAct == sceneActs < MaxSceneActs /\ sceneActs' = sceneActs + 1

\* The camera is moved: by hand, to what is located, or with the map's.
MoveCamera(place) ==
  /\ SceneAct /\ place # look /\ look' = place
  /\ UNCHANGED <<scene, terrain, samplings, sampledHeights, sampledOf, labels, lastPass, rebuilt,
                 selectedFeatureKey, panel>>

\* The page hands over another airport, plan, set of layers or inspections, or other warnings.
SceneChanges(s) ==
  LET waypoints == s.plan # scene.plan \/ s.layers # scene.layers \/ s.ids # scene.ids IN
  /\ SceneAct /\ s # scene /\ scene' = s
  /\ UNCHANGED terrain
  /\ IF waypoints THEN Sample(s, terrain.provider)
     ELSE UNCHANGED <<samplings, sampledHeights, sampledOf>>
  /\ Relabel(s.airport # scene.airport \/ s.layers # scene.layers,
             waypoints \/ s.warned # scene.warned \/ s.selected # scene.selected)
  /\ UNCHANGED <<look, lastPass, selectedFeatureKey, panel>>

Unpicked == <<NoSight, NoSight>>

\* What is drawn under a kind and an id; the decorations have none.
Pickable == {<<d.kind, d.id>> : d \in {e \in Entities : e.kind # "none"}}

\* The selection decides which labels stay: every label is built anew, and the next frame has
\* a pass.
Selects(key) ==
  /\ selectedFeatureKey' = key
  /\ IF key = selectedFeatureKey THEN UNCHANGED lastPass ELSE lastPass' = NoPass

\* A click in the 3D view: what is drawn there is selected, and shown if it is found; a click
\* beside everything selects nothing.
pickAndSelect(e) ==
  /\ SceneAct
  /\ Selects(e)
  /\ scene' = IF e = Unpicked THEN [scene EXCEPT !.selected = NoSight]
              ELSE IF e[1] = "waypoint" THEN [scene EXCEPT !.selected = e[2]] ELSE scene
  /\ panel' = IF e = Unpicked THEN Unpicked
              ELSE IF e[1] \in VALID_FEATURE_TYPES
                      /\ lookupFeature(scene.airport, scene.plan, e[1], e[2]) THEN e
              ELSE panel
  /\ UNCHANGED <<terrain, sampledHeights, samplings, sampledOf>>
  /\ Relabel(e # selectedFeatureKey, scene'.selected # scene.selected)
  /\ UNCHANGED look

\* A row of the list of waypoints: selected and shown, but not the key of the 3D view.
ListSelect(w) ==
  /\ SceneAct /\ w # scene.selected
  /\ w = NoSight \/ w \in {v.id : v \in Waypts(scene.plan)}
  /\ scene' = [scene EXCEPT !.selected = w]
  /\ panel' = IF w = NoSight THEN Unpicked ELSE <<"waypoint", w>>
  /\ UNCHANGED <<terrain, sampledHeights, samplings, sampledOf>>
  /\ Relabel(FALSE, TRUE)
  /\ UNCHANGED <<look, lastPass, selectedFeatureKey>>

\* The page focuses a feature.
FocusScene(key) ==
  /\ SceneAct /\ key # selectedFeatureKey
  /\ key = Unpicked \/ \E f \in SceneAirports[scene.airport] : key = <<f.kind, f.id>>
  /\ Selects(key)
  /\ UNCHANGED <<scene, terrain, sampledHeights, samplings, sampledOf>>
  /\ Relabel(TRUE, FALSE)
  /\ UNCHANGED <<look, panel>>

-----------------------------------------------------------------------------
(* The flight *)

\* Mutant of Arrivals: a hover is flown on top of its leg.
Arrivals_hover(p) ==
  LET way == ScenePlans[p].way  legs == ScenePlans[p].legs
      at[i \in 1..Len(way)] == IF i = 1 THEN 0 ELSE at[i - 1] + way[i - 1].hover + legs[i - 1]
  IN  at

\* When the drone arrives at each waypoint: a leg holds the hover before it, and is never
\* shorter.
Arrivals(p) ==
  LET way == ScenePlans[p].way  legs == ScenePlans[p].legs
      Travel(i) == IF legs[i] > way[i].hover THEN legs[i] - way[i].hover ELSE 0
      at[i \in 1..Len(way)] ==
        IF i = 1 THEN 0 ELSE at[i - 1] + way[i - 1].hover + Travel(i - 1)
  IN  at

bodyTracksTarget(w) == w.target # NoSight /\ w.heading # "row"
Inspects(w) == w.kind \in {"MEASUREMENT", "HOVER"}

\* Mutant of Facing: the drone still faces the target on its way out.
Facing_out(p, t) ==
  LET way == ScenePlans[p].way  at == Arrivals(p)
      i   == CHOOSE j \in 1..Len(way) : at[j] <= t /\ \A k \in (j + 1)..Len(way) : at[k] > t
  IN  IF bodyTracksTarget(way[i]) THEN "target" ELSE "travel"

\* Which way the model faces, t seconds after the start.
Facing(p, t) ==
  LET way  == ScenePlans[p].way  at == Arrivals(p)
      i    == CHOOSE j \in 1..Len(way) : at[j] <= t /\ \A k \in (j + 1)..Len(way) : at[k] > t
      last == i = Len(way)
      tracks == bodyTracksTarget(way[i])
                /\ \/ t <= at[i] + way[i].hover
                   \/ ~last /\ Inspects(way[i + 1]) /\ bodyTracksTarget(way[i + 1])
  IN  IF tracks THEN "target"
      ELSE IF ~last /\ Inspects(way[i]) /\ Inspects(way[i + 1]) /\ way[i].heading # "none"
      THEN "heading"
      ELSE "travel"

-----------------------------------------------------------------------------

Init ==
  /\ scene = [airport |-> 1, plan |-> 1, layers |-> SceneLayers[1], ids |-> SceneIds[1],
              warned |-> {}, selected |-> NoSight]
  /\ look = CHOOSE place \in Sights : TRUE
  /\ terrain = [provider |-> "ellipsoid", settled |-> FALSE, fallback |-> TRUE]
  /\ samplings = <<[at |-> Grounds(scene), from |-> "ellipsoid", live |-> TRUE]>>
  /\ sampledHeights = Nowhere /\ sampledOf = FALSE
  /\ labels = LabelsOf(Entities) /\ lastPass = NoPass /\ rebuilt = TRUE
  /\ selectedFeatureKey = Unpicked /\ panel = Unpicked /\ sceneActs = 0

Scenes ==
  {[scene EXCEPT !.airport = a] : a \in 1..Len(SceneAirports)}
  \cup {[scene EXCEPT !.plan = p] : p \in 1..Len(ScenePlans)}
  \cup {[scene EXCEPT !.layers = SceneLayers[n]] : n \in 1..Len(SceneLayers)}
  \cup {[scene EXCEPT !.ids = SceneIds[n]] : n \in 1..Len(SceneIds)}
  \cup {[scene EXCEPT !.warned = {w.id : w \in {v \in Waypts(scene.plan) : v.kind = "MEASUREMENT"}}]}

Next ==
  \/ runDeclutterPass \/ terrainProviderChanged \/ TerrainFallback
  \/ \E i \in 1..MaxSamplings : SamplingEnds(i)
  \/ \E place \in Sights : MoveCamera(place)
  \/ sceneActs < MaxSceneActs /\ \E s \in Scenes : SceneChanges(s)
  \/ sceneActs < MaxSceneActs /\ \E e \in {Unpicked} \cup Pickable : pickAndSelect(e)
  \/ \E w \in {NoSight} \cup {v.id : v \in Waypts(scene.plan)} : ListSelect(w)
  \/ sceneActs < MaxSceneActs /\
       \E k \in {Unpicked} \cup {<<f.kind, f.id>> : f \in SceneAirports[scene.airport]} :
         FocusScene(k)

Spec == Init /\ [][Next]_sceneVars

-----------------------------------------------------------------------------
(* Properties *)

\* Every variable of the 3D view stays in its range.
TypeOK ==
  /\ scene.airport \in 1..Len(SceneAirports) /\ scene.plan \in 1..Len(ScenePlans)
  /\ look \in Sights
  /\ terrain \in [provider : {"ellipsoid", "world"}, settled : BOOLEAN, fallback : BOOLEAN]
  /\ sampledHeights.at \subseteq Sights /\ sampledOf \in BOOLEAN /\ rebuilt \in BOOLEAN
  /\ \A l \in labels : l.kind \in VALID_FEATURE_TYPES
  /\ sceneActs \in 0..MaxSceneActs

\* useTrajectoryTerrainSampling: once the last sampling has not failed, the heights are those of the
\* terrain there is, and all the ground below the visible waypoints and their targets has one but
\* for what this terrain gave none for; markers on the ground do not wait for a terrain forever;
\* and of the samplings on their way only the last can count.
HeightsOfTerrain ==
  /\ sampledOf /\ Grounds(scene) # {} =>
       /\ sampledHeights.from = terrain.provider
       /\ sampledHeights.at = Grounds(scene) \ sampledHeights.missing
  /\ terrain.settled \/ terrain.fallback
  /\ \A i \in 1..Len(samplings) : samplings[i].live => i = Len(samplings) /\ ~sampledOf

\* runDeclutterPass: after a pass over what there is, no two labels overlap, a label is hidden
\* only behind another, the label of the selection is shown, and a column has one label.
LabelsFit ==
  LET there == Entities
      named == LabelsOf(there)
      columns == {d \in Trajectory(scene, sampledHeights) : d.what = "label"}
  IN  /\ ~rebuilt /\ lastPass = [look |-> look, count |-> Cardinality(there)] =>
           /\ \A l, m \in labels : l # m => ~Overlap(l, m, look)
           /\ \A l \in named \ labels : \E m \in labels : Overlap(l, m, look)
           /\ \A l \in named : selectedFeatureKey = Key(l) => l \in labels
      /\ \A d, e \in columns : d.at = e.at => d = e

\* pickAndSelect: everything that can be picked is found, and a waypoint in the panel is the one
\* that is selected.
PicksResolve ==
  /\ panel[1] = "waypoint" => scene.selected = panel[2]
  /\ \A e \in Pickable : e[1] \in VALID_FEATURE_TYPES =>
       lookupFeature(scene.airport, scene.plan, e[1], e[2])

\* buildFlyAlongTimeline: the flight takes no less than its legs, and exactly that where no hover
\* outlasts its leg; the model faces a target only where it inspects, and all the while it hovers
\* there; and it faces ahead on its way out.  It is about the plans alone, and asked before
\* anything is done.
FlightFits ==
  sceneActs = 0 => \A p \in 1..Len(ScenePlans) :
    LET way == ScenePlans[p].way  legs == ScenePlans[p].legs  at == Arrivals(p)
        Inspection(t) == {i \in 1..Len(way) : at[i] <= t /\ (i < Len(way) => t <= at[i + 1])}
    IN
    /\ \A i \in 1..(Len(way) - 1) :
         /\ at[i + 1] - at[i] >= legs[i] /\ at[i + 1] - at[i] >= way[i].hover
         /\ way[i].hover <= legs[i] => at[i + 1] - at[i] = legs[i]
    /\ \A t \in 0..at[Len(way)] :
         /\ Facing(p, t) = "target" => \E i \in Inspection(t) : way[i].target # NoSight
         /\ \A i \in Inspection(t) :
              bodyTracksTarget(way[i]) /\ t <= at[i] + way[i].hover /\ (i < Len(way) => t < at[i + 1]) =>
                Facing(p, t) = "target"
         /\ \A i \in 1..(Len(way) - 1) :
              at[i] + way[i].hover < t /\ t < at[i + 1] /\ ~Inspects(way[i + 1]) =>
                Facing(p, t) = "travel"

=============================================================================
