------------------------------- MODULE MapCanvas -------------------------------
(***************************************************************************)
(* The 2D map (components/map/AirportMap with useMapBootstrap,             *)
(* useMapLayerSync, useMapHighlightLayers and the modules of its layers):  *)
(* what the page hands to the map and what is painted on the canvas.  The  *)
(* canvas takes changes only while its style is loaded: an effect that     *)
(* finds it busy polls once a frame, and a change of the background drops  *)
(* every layer until its own poll adds them again.  Colours, geometry and  *)
(* the camera are left out.                                                *)
(***************************************************************************)
EXTENDS Naturals, Sequences, FiniteSets

CONSTANTS
  MapPlans,       \* the flight plans a page may show; plan 0 is none
  Inventory,      \* what the airport has in each of its states
  Inspected,      \* inspections
  NoInspection,
  NoWaypoint,
  MaxMapActs      \* bound: what the page and the operator do

VARIABLES
  shown,          \* what the page hands to the map: airport, plan, markers, selection, rings
  layers,         \* layerConfig: the keys that are switched on
  savedLayers,    \* localStorage
  canvas,         \* what is painted
  collided,       \* a source has been added that was there
  styleLoaded,    \* isStyleLoaded()
  polls,          \* the effects that wait for the style, in the order of their frames
  excused,        \* the canvas was rebuilt without the rings of the waypoints
  mapActs

mapVars == <<shown, layers, savedLayers, canvas, collided, styleLoaded, polls, excused, mapActs>>

Base     == {"runways"}
Children == {"transitWaypoints", "measurementWaypoints", "path", "takeoffLanding",
             "cameraHeading", "pathHeading"}
Family   == Children \cup {"trajectory"}
Keys     == Base \cup Family \cup {"simplifiedTrajectory"}
Marks    == {"takeoff", "landing"}

Revisions == 1..Len(Inventory)
PlanOf(n) == IF n = 0 THEN <<>> ELSE MapPlans[n]
IdsOf(plan) == {plan[i].id : i \in 1..Len(plan)}
MapIds == UNION {IdsOf(MapPlans[n]) : n \in 1..Len(MapPlans)}

Kinds == {"TAKEOFF", "LANDING", "TRANSIT", "MEASUREMENT", "HOVER"}
Traits == {"lights", "edge", "boundary", "touchpoint", "threshold", "end"}

CanvasAssumption ==
  /\ \A n \in 1..Len(MapPlans) : \A i \in 1..Len(MapPlans[n]) :
       /\ MapPlans[n][i].kind \in Kinds /\ MapPlans[n][i].id \notin Marks \cup {NoWaypoint}
       /\ MapPlans[n][i].inspection \in Inspected \cup {NoInspection}
       /\ MapPlans[n][i].recording \in BOOLEAN
  /\ Inventory # <<>> /\ \A r \in Revisions : Inventory[r] \subseteq Traits
  /\ NoInspection \notin Inspected /\ MaxMapActs \in Nat

-----------------------------------------------------------------------------
(* The points of a plan *)

\* Recording hovers are left out of the map; the other waypoints are points of their own, or
\* are collapsed with those over the same ground.
Skipped(w)   == w.kind = "HOVER" /\ w.recording
Alone(w)     == w.kind \in {"TAKEOFF", "LANDING", "TRANSIT"}
Stackable(w) == ~Alone(w) /\ ~Skipped(w)
Waypoints(plan) == {plan[i] : i \in 1..Len(plan)}
Over(plan, p)   == {w \in Waypoints(plan) : Stackable(w) /\ w.place = p}

\* Mutant of Stacks: a hover over the measurements is a point of its own.
Stacks_kinds(plan) ==
  {[ids |-> {w.id : w \in {v \in Over(plan, p) : v.kind = k}}, kind |-> k, at |-> p] :
    <<p, k>> \in {<<w.place, w.kind>> : w \in {v \in Waypoints(plan) : Stackable(v)}}}

\* One point for the waypoints over a place: a measurement if there is one.
Stacks(plan) ==
  {[ids |-> {w.id : w \in Over(plan, p)},
    kind |-> IF \E w \in Over(plan, p) : w.kind = "MEASUREMENT" THEN "MEASUREMENT" ELSE "HOVER",
    at |-> p] : p \in {w.place : w \in {v \in Waypoints(plan) : Stackable(v)}}}

\* Mutant of Marker: a marker that is cleared stays where the plan had it.
Marker_stale(plan, marks, mark, kind) ==
  LET planned == {w \in Waypoints(plan) : w.kind = kind} IN
  IF mark \in marks THEN {[ids |-> IF planned = {} THEN {mark} ELSE {w.id : w \in planned},
                           kind |-> kind, at |-> "mission"]}
  ELSE {[ids |-> {w.id}, kind |-> kind, at |-> w.place] : w \in planned}

\* The takeoff or landing point: at the mission's coordinate, whatever the plan has.
Marker(plan, marks, mark, kind) ==
  LET planned == {w \in Waypoints(plan) : w.kind = kind} IN
  IF mark \in marks THEN {[ids |-> IF planned = {} THEN {mark} ELSE {w.id : w \in planned},
                           kind |-> kind, at |-> "mission"]}
  ELSE {}

\* waypointsToGeoJSON.
Points(plan, marks) ==
  {[ids |-> {w.id}, kind |-> "TRANSIT", at |-> w.place] :
    w \in {v \in Waypoints(plan) : v.kind = "TRANSIT"}}
  \cup Stacks(plan)
  \cup Marker(plan, marks, "takeoff", "TAKEOFF") \cup Marker(plan, marks, "landing", "LANDING")

\* The simplified trajectory has a dot for every column of measurements and hovers.
Columns(plan) ==
  LET Column(p) == {w \in Waypoints(plan) : w.kind \in {"MEASUREMENT", "HOVER"} /\ w.place = p}
  IN  {{w.id : w \in Column(p)} : p \in {q \in {w.place : w \in Waypoints(plan)} :
                                           Cardinality(Column(q)) > 1}}

\* Mutant of Joins: the measurements of two inspections are one bundle.
Joins_kinds(first, next) ==
  \/ next.kind = first.kind /\ first.kind \notin {"TAKEOFF", "LANDING"}
  \/ first.kind = "MEASUREMENT" /\ next.kind = "HOVER" /\ ~next.recording

\* A row of the list of waypoints joins the bundle that a waypoint has begun.
Joins(first, next) ==
  \/ next.kind = first.kind /\ first.kind \notin {"TAKEOFF", "LANDING"}
     /\ (first.kind = "MEASUREMENT" => next.inspection = first.inspection)
  \/ first.kind = "MEASUREMENT" /\ next.kind = "HOVER" /\ ~next.recording

\* buildGroups: where the bundle of each waypoint begins.
Begins(plan) ==
  LET begin[i \in 1..Len(plan)] ==
        IF i > 1 /\ Joins(plan[begin[i - 1]], plan[i]) THEN begin[i - 1] ELSE i
  IN  begin

\* The list shows the waypoints of the visible inspections.
Listed(plan, ids) ==
  SelectSeq(plan, LAMBDA w : w.inspection = NoInspection \/ w.inspection \in ids)

\* The rows of the list, alone or in their bundles; without a plan, the markers.
Rows(plan, ids, marks) == IF plan = <<>> THEN marks ELSE IdsOf(Listed(plan, ids))

-----------------------------------------------------------------------------
(* The sources of the infrastructure *)

SurfaceSources(inv) ==
  {"runways", "runways-polygon", "taxiways", "taxiways-polygon"}
  \cup (IF "touchpoint" \in inv THEN {"runway-touchpoints"} ELSE {})
  \cup (IF "threshold" \in inv THEN {"runway-thresholds"} ELSE {})
  \cup (IF "end" \in inv THEN {"runway-end-positions"} ELSE {})

ObstacleSources == {"obstacles", "obstacles-boundary"}
BufferSources   == {"obstacles-buffer", "surfaces-buffer"}

ZoneSources(inv) ==
  {"safety-zones"} \cup (IF "boundary" \in inv THEN {"airport-boundary"} ELSE {})

AglSources(inv) ==
  {"agls"} \cup (IF "lights" \in inv THEN {"lhas"} ELSE {})
           \cup (IF "edge" \in inv THEN {"edge-lights-line"} ELSE {})

SourcesOf(inv) ==
  ZoneSources(inv) \cup SurfaceSources(inv) \cup ObstacleSources \cup BufferSources
  \cup AglSources(inv)

\* Mutant of INFRA_SOURCES: the line of edge lights is not torn down.
INFRA_SOURCES_edge == SourcesOf(Traits) \ {"edge-lights-line"}

\* What is torn down before the infrastructure is painted again.
INFRA_SOURCES ==
  {"safety-zones", "airport-boundary", "runways", "runways-polygon", "taxiways",
   "taxiways-polygon", "obstacles", "obstacles-boundary", "obstacles-buffer",
   "surfaces-buffer", "agls", "lhas", "edge-lights-line", "runway-touchpoints",
   "runway-thresholds", "runway-end-positions"}

-----------------------------------------------------------------------------
(* Painting *)

Blank == [infra |-> 0, sources |-> {}, points |-> <<>>, simple |-> <<>>, visible |-> {}, ring |-> NoWaypoint,
          warned |-> {}, ringed |-> NoInspection, ids |-> Inspected, focus |-> 0, preview |-> 0]

\* The groups of layers that are on a canvas; the ring of the warnings is one of its own.
Groups(c) ==
  (IF c.infra = 0 THEN {} ELSE Base)
  \cup (IF c.points = <<>> THEN {} ELSE Family \cup {"warning"})
  \cup (IF c.simple = <<>> THEN {} ELSE {"simplifiedTrajectory"})

\* layerGroupMap: the rings belong to the trajectory.
SwitchedOn(cfg) == cfg \cup (IF "trajectory" \in cfg THEN {"warning"} ELSE {})

\* Mutant of syncLayerVisibility: a group is switched off, and never on again.
syncLayerVisibility_off(c, cfg) == [c EXCEPT !.visible = @ \cap SwitchedOn(cfg)]

syncLayerVisibility(c, cfg) == [c EXCEPT !.visible = Groups(c) \cap SwitchedOn(cfg)]

\* The measurements of the other inspections are filtered out.
syncInspectionFilters(c, s) == IF c.points = <<>> THEN c ELSE [c EXCEPT !.ids = s.ids]

updateSelectedFilter(c, w) == IF c.points = <<>> THEN c ELSE [c EXCEPT !.ring = w]

updateInspectionHighlightFilter(c, s) ==
  IF c.points = <<>> THEN c ELSE [c EXCEPT !.ringed = s.ringed]

\* The ring of the warnings is hidden in the simplified view, and shown in the other.
updateWarningHighlightFilter(c, s, cfg) ==
  IF c.points = <<>> THEN c
  ELSE [c EXCEPT !.warned = s.warned,
                 !.visible = IF "simplifiedTrajectory" \in cfg THEN @ \ {"warning"}
                             ELSE @ \cup {"warning"}]

syncHighlight(c, s) == IF c.infra = 0 THEN c ELSE [c EXCEPT !.focus = s.focus]

\* The preview of what is drawn has its layers from the first time the infrastructure is painted.
PaintPreview(c, s) == IF c.infra = 0 THEN c ELSE [c EXCEPT !.preview = s.preview]

removeInfraLayers(c) == [c EXCEPT !.sources = @ \ INFRA_SOURCES, !.infra = 0]

removeWaypointLayers(c) ==
  [c EXCEPT !.points = <<>>, !.ring = NoWaypoint, !.warned = {}, !.ringed = NoInspection,
            !.ids = Inspected, !.visible = @ \ (Family \cup {"warning"})]

removeSimplifiedTrajectoryLayers(c) ==
  [c EXCEPT !.simple = <<>>, !.visible = @ \ {"simplifiedTrajectory"}]

\* The layers of the waypoints: taken away without any, fed anew where they are, and otherwise
\* added, all of them visible.
AddPoints(c, s, w) ==
  IF s.plan = 0 /\ s.marks = {} THEN removeWaypointLayers(c)
  ELSE IF c.points # <<>> THEN [c EXCEPT !.points = <<s.plan, s.marks>>, !.ring = w]
  ELSE [c EXCEPT !.points = <<s.plan, s.marks>>, !.ring = w,
                 !.visible = @ \cup Family \cup {"warning"}]

\* Likewise those of the simplified view.
addSimplifiedTrajectoryLayers(c, s) ==
  IF s.plan = 0 /\ s.marks = {} THEN removeSimplifiedTrajectoryLayers(c)
  ELSE [c EXCEPT !.simple = <<s.plan, s.marks>>,
                 !.visible = IF c.simple # <<>> THEN @ ELSE @ \cup {"simplifiedTrajectory"}]

\* addAllLayers: nothing where the infrastructure is painted.
addAllLayers(c, s, cfg, rev) ==
  IF c.infra # 0 THEN c
  ELSE syncLayerVisibility(
         syncHighlight([c EXCEPT !.infra = rev, !.visible = @ \cup Base,
                                 !.sources = @ \cup SourcesOf(Inventory[rev])], s), cfg)

\* Mutant of addWaypointLayers: the filter of the inspections is not applied again.
addWaypointLayers_unfiltered(c, s, cfg, w) ==
  updateInspectionHighlightFilter(
    updateWarningHighlightFilter(
      syncLayerVisibility(addSimplifiedTrajectoryLayers(AddPoints(c, s, w), s), cfg), s, cfg), s)

addWaypointLayers(c, s, cfg, w) ==
  updateInspectionHighlightFilter(
    updateWarningHighlightFilter(
      syncInspectionFilters(
        syncLayerVisibility(addSimplifiedTrajectoryLayers(AddPoints(c, s, w), s), cfg), s),
      s, cfg), s)

\* The effect of the airport: the infrastructure anew, and over it the waypoints without rings.
addLayers(c, s, cfg) ==
  LET below == addAllLayers(removeInfraLayers(c), s, cfg, s.airport)
      clear == removeSimplifiedTrajectoryLayers(removeWaypointLayers(below))
  IN  syncLayerVisibility(addSimplifiedTrajectoryLayers(AddPoints(clear, s, NoWaypoint), s), cfg)

\* Whether the painting adds a source that is there.
Collides(c, rev) == c.sources \cap SourcesOf(Inventory[rev]) # {}

-----------------------------------------------------------------------------
(* The effects *)

\* An effect that is asked for again is taken out of its place and waits behind the others.
Queue(ps, effect) == Append(SelectSeq(ps, LAMBDA p : p.effect # effect.effect), effect)

Poll(name) == [effect |-> name, airport |-> 0, selected |-> NoWaypoint]

\* The layers of the waypoints are painted, at once or when the style has loaded.
PaintPoints(s, ps, busy) ==
  IF styleLoaded
  THEN /\ canvas' = addWaypointLayers(busy, s, layers, s.selected)
       /\ excused' = FALSE /\ styleLoaded' = FALSE
       /\ polls' = SelectSeq(ps, LAMBDA p : p.effect # "waypoints")
  ELSE /\ canvas' = busy /\ polls' = Queue(ps, Poll("waypoints"))
       /\ UNCHANGED <<excused, styleLoaded>>

\* The infrastructure is painted, at once or when the style has loaded.
PaintInfra(s) ==
  IF styleLoaded
  THEN /\ canvas' = addLayers(syncLayerVisibility(canvas, layers), s, layers)
       /\ collided' = (collided \/ Collides(removeInfraLayers(canvas), s.airport))
       /\ excused' = TRUE /\ styleLoaded' = FALSE
       /\ polls' = SelectSeq(polls, LAMBDA p : p.effect \notin {"layers", "infra"})
  ELSE /\ polls' = Queue(Queue(polls, Poll("layers")), Poll("infra"))
       /\ UNCHANGED <<canvas, collided, excused, styleLoaded>>

Act == mapActs < MaxMapActs /\ mapActs' = mapActs + 1

\* The page reads the airport again.
AirportRead(r) ==
  /\ Act /\ r # shown.airport
  /\ shown' = [shown EXCEPT !.airport = r]
  /\ PaintInfra(shown')
  /\ UNCHANGED <<layers, savedLayers>>

\* The page reads the flight plan, or a marker is placed or taken away.
PlanRead(n, marks) ==
  /\ Act /\ <<n, marks>> # <<shown.plan, shown.marks>>
  /\ shown' = [shown EXCEPT !.plan = n, !.marks = marks]
  /\ PaintPoints(shown', polls, canvas)
  /\ UNCHANGED <<layers, savedLayers, collided>>

\* A waypoint is selected, or no longer: the ring, and the waypoints once more.
handleWaypointListSelect(w) ==
  /\ Act /\ w # shown.selected
  /\ w \in Rows(PlanOf(shown.plan), shown.ids, shown.marks) \cup {NoWaypoint}
  /\ "trajectory" \in layers
  /\ shown' = [shown EXCEPT !.selected = w]
  /\ PaintPoints(shown', polls, updateSelectedFilter(canvas, w))
  /\ UNCHANGED <<layers, savedLayers, collided>>

\* Effects that only filter what is on the canvas.
Filter(s, c) ==
  /\ Act /\ s # shown /\ shown' = s /\ canvas' = c
  /\ UNCHANGED <<layers, savedLayers, collided, styleLoaded, polls, excused>>

Warn(ids) ==
  LET s == [shown EXCEPT !.warned = ids] IN
  Filter(s, updateWarningHighlightFilter(canvas, s, layers))

Ring(i) ==
  LET s == [shown EXCEPT !.ringed = i] IN Filter(s, updateInspectionHighlightFilter(canvas, s))

ShowInspections(ids) ==
  LET s == [shown EXCEPT !.ids = ids] IN Filter(s, syncInspectionFilters(canvas, s))

Focus(f) == LET s == [shown EXCEPT !.focus = f] IN Filter(s, syncHighlight(canvas, s))

Preview(p) == LET s == [shown EXCEPT !.preview = p] IN Filter(s, PaintPreview(canvas, s))

\* Mutant of Cascade: a child that is switched on leaves the simplified view on.
Cascade_both(cfg, key) ==
  LET on == key \notin cfg IN
  CASE key = "simplifiedTrajectory" ->
         IF on THEN (cfg \ Family) \cup {key} ELSE cfg \ {key}
    [] key = "trajectory" ->
         IF on THEN ((cfg \cup Family) \ {"simplifiedTrajectory", "cameraHeading"})
         ELSE cfg \ Family
    [] key = "waypoints" ->
         IF {"transitWaypoints", "measurementWaypoints"} \subseteq cfg
         THEN cfg \ {"transitWaypoints", "measurementWaypoints"}
         ELSE (cfg \cup {"transitWaypoints", "measurementWaypoints", "trajectory"})
              \ {"simplifiedTrajectory"}
    [] key \in Base -> IF on THEN cfg \cup {key} ELSE cfg \ {key}
    [] OTHER -> IF on THEN cfg \cup {key, "trajectory"} ELSE cfg \ {key}

\* handleLayerToggle: the simplified view and the trajectory exclude each other, and the
\* trajectory is on while one of its parts is.
Cascade(cfg, key) ==
  LET on    == key \notin cfg
      child == IF on THEN cfg \cup {key} ELSE cfg \ {key}
  IN
  CASE key = "simplifiedTrajectory" ->
         IF on THEN (cfg \ Family) \cup {key} ELSE cfg \ {key}
    [] key = "trajectory" ->
         IF on THEN ((cfg \cup Family) \ {"simplifiedTrajectory", "cameraHeading"})
         ELSE cfg \ Family
    [] key = "waypoints" ->
         IF {"transitWaypoints", "measurementWaypoints"} \subseteq cfg
         THEN cfg \ {"transitWaypoints", "measurementWaypoints"}
         ELSE (cfg \cup {"transitWaypoints", "measurementWaypoints", "trajectory"})
              \ {"simplifiedTrajectory"}
    [] key \in Base -> child
    [] OTHER ->
         IF child \cap Children = {} THEN child \ {"trajectory"}
         ELSE (child \cup {"trajectory"}) \ {"simplifiedTrajectory"}

\* The switches that the panel of layers offers.  Those of the parts are folded away while the
\* trajectory is off, and can be unfolded.
Switches ==
  Base \cup (IF shown.plan # 0
             THEN {"simplifiedTrajectory", "trajectory", "waypoints"} \cup Children
             ELSE IF shown.marks # {} THEN {"takeoffLanding"} ELSE {})

\* A switch of the panel: the configuration is stored, and the layers follow.
handleLayerToggle(key) ==
  LET cfg == Cascade(layers, key)
      simplified == "simplifiedTrajectory" \in layers
      c == IF simplified = ("simplifiedTrajectory" \in cfg) THEN canvas
           ELSE updateWarningHighlightFilter(canvas, shown, cfg)
  IN
  /\ Act /\ key \in Switches
  /\ layers' = cfg /\ savedLayers' = cfg
  /\ canvas' = syncLayerVisibility(c, cfg)
  /\ UNCHANGED <<shown, collided, styleLoaded, polls, excused>>

\* The scope of the flight plan changes: the symbols of takeoff and landing are hidden, if the
\* style is loaded.  The next switch of a layer shows them again.
ScopeChanged ==
  /\ Act
  /\ canvas' = IF styleLoaded THEN [canvas EXCEPT !.visible = @ \ {"takeoffLanding"}] ELSE canvas
  /\ UNCHANGED <<shown, layers, savedLayers, collided, styleLoaded, polls, excused>>

\* Another background: every layer is gone, and a poll that knows the airport and the selection
\* of now adds them when the new style has loaded.
handleTerrainChange ==
  /\ Act
  /\ canvas' = Blank /\ styleLoaded' = FALSE
  /\ polls' = Queue(polls, [effect |-> "terrain", airport |-> shown.airport,
                            selected |-> shown.selected])
  /\ UNCHANGED <<shown, layers, savedLayers, collided, excused>>

\* Mutant of buildInitialLayerConfig: what the simplified view had switched off stays off.
buildInitialLayerConfig_stale(saved) == saved \ {"simplifiedTrajectory"}

DEFAULT_LAYER_CONFIG == Keys \ {"simplifiedTrajectory", "cameraHeading"}

\* The simplified view does not outlive a reload; what it had switched off comes back.
buildInitialLayerConfig(saved) ==
  IF "simplifiedTrajectory" \in saved
  THEN (saved \ (Family \cup {"simplifiedTrajectory"})) \cup (DEFAULT_LAYER_CONFIG \cap Family)
  ELSE saved

\* The page is opened: the three effects wait for the style.
Opened == <<Poll("layers"), Poll("infra"), Poll("waypoints")>>

Reload ==
  /\ Act
  /\ layers' = buildInitialLayerConfig(savedLayers) /\ savedLayers' = layers'
  /\ canvas' = Blank /\ styleLoaded' = FALSE /\ polls' = Opened /\ excused' = FALSE
  /\ shown' = [shown EXCEPT !.selected = NoWaypoint, !.warned = {}, !.ringed = NoInspection,
                            !.ids = Inspected, !.focus = 0, !.preview = 0]
  /\ UNCHANGED collided

\* The style has loaded; or tiles or data are on their way again.
StyleLoads == styleLoaded' = ~styleLoaded
              /\ UNCHANGED <<shown, layers, savedLayers, canvas, collided, polls, excused, mapActs>>

\* Mutant of Ran: the poll of the background paints the airport of then over the one of now.
Ran_again(p) ==
  CASE p.effect = "layers" -> syncLayerVisibility(canvas, layers)
    [] p.effect = "infra" -> addLayers(canvas, shown, layers)
    [] p.effect = "waypoints" -> addWaypointLayers(canvas, shown, layers, shown.selected)
    [] p.effect = "terrain" ->
         addWaypointLayers(addAllLayers(removeInfraLayers(canvas), shown, layers, p.airport),
                           shown, layers, p.selected)

\* What a poll paints when its turn comes.
Ran(p) ==
  CASE p.effect = "layers" -> syncLayerVisibility(canvas, layers)
    [] p.effect = "infra" -> addLayers(canvas, shown, layers)
    [] p.effect = "waypoints" -> addWaypointLayers(canvas, shown, layers, shown.selected)
    [] p.effect = "terrain" ->
         addWaypointLayers(addAllLayers(canvas, shown, layers, p.airport),
                           shown, layers, p.selected)

\* A frame with a loaded style: the first poll paints, and the others find the style busy.
Frame ==
  LET p == Head(polls) IN
  /\ styleLoaded /\ polls # <<>>
  /\ canvas' = Ran(p) /\ polls' = Tail(polls) /\ styleLoaded' = FALSE
  /\ collided' = (collided \/ \/ p.effect = "infra"
                                 /\ Collides(removeInfraLayers(canvas), shown.airport)
                              \/ p.effect = "terrain" /\ canvas.infra = 0
                                 /\ Collides(canvas, p.airport))
  /\ excused' = CASE p.effect = "infra" -> TRUE
                  [] p.effect = "waypoints" -> FALSE
                  [] p.effect = "terrain" -> p.selected # shown.selected
                  [] OTHER -> excused
  /\ UNCHANGED <<shown, layers, savedLayers, mapActs>>

Init ==
  /\ shown = [airport |-> 1, plan |-> 1, marks |-> {}, selected |-> NoWaypoint, warned |-> {},
              ringed |-> NoInspection, ids |-> Inspected, focus |-> 0, preview |-> 0]
  /\ savedLayers \in {DEFAULT_LAYER_CONFIG, Cascade(DEFAULT_LAYER_CONFIG, "simplifiedTrajectory")}
  /\ layers = buildInitialLayerConfig(savedLayers)
  /\ canvas = Blank /\ collided = FALSE /\ styleLoaded = FALSE
  /\ polls = Opened /\ excused = FALSE /\ mapActs = 0

Next ==
  \/ \E r \in Revisions : AirportRead(r)
  \/ \E n \in 0..Len(MapPlans), marks \in SUBSET Marks : PlanRead(n, marks)
  \/ \E w \in MapIds \cup Marks \cup {NoWaypoint} : handleWaypointListSelect(w)
  \/ \E ids \in SUBSET IdsOf(PlanOf(shown.plan)) : Warn(ids)
  \/ \E i \in Inspected \cup {NoInspection} : Ring(i)
  \/ \E ids \in SUBSET Inspected : ShowInspections(ids)
  \/ \E f \in 0..1 : Focus(f) \/ Preview(f)
  \/ \E key \in Keys \cup {"waypoints"} : handleLayerToggle(key)
  \/ ScopeChanged \/ handleTerrainChange \/ Reload
  \/ StyleLoads \/ Frame

Spec == Init /\ [][Next]_mapVars

-----------------------------------------------------------------------------
(* Properties *)

\* Every variable of the map stays in its range.
TypeOK ==
  /\ shown \in [airport : Revisions, plan : 0..Len(MapPlans), marks : SUBSET Marks,
                selected : MapIds \cup Marks \cup {NoWaypoint}, warned : SUBSET MapIds,
                ringed : Inspected \cup {NoInspection}, ids : SUBSET Inspected,
                focus : 0..1, preview : 0..1]
  /\ layers \subseteq Keys /\ savedLayers \subseteq Keys
  /\ canvas.infra \in Revisions \cup {0} /\ canvas.sources \subseteq INFRA_SOURCES
  /\ canvas.visible \subseteq Keys \cup {"warning"}
  /\ collided \in BOOLEAN /\ styleLoaded \in BOOLEAN /\ excused \in BOOLEAN
  /\ \A i \in 1..Len(polls) : polls[i].effect \in {"layers", "infra", "waypoints", "terrain"}
  /\ mapActs \in 0..MaxMapActs

Waits(effects) == \E i \in 1..Len(polls) : polls[i].effect \in effects

\* useMapBootstrap: with no effect waiting, the canvas shows the airport, the plan, the markers
\* and the layers of now, and an infrastructure is never added over another.
CanvasFollows ==
  /\ ~collided
  /\ ~Waits({"infra", "terrain"}) =>
       canvas.infra = shown.airport /\ canvas.sources = SourcesOf(Inventory[shown.airport])
  /\ polls = <<>> =>
       /\ canvas.points = IF shown.plan = 0 /\ shown.marks = {} THEN <<>>
                          ELSE <<shown.plan, shown.marks>>
       /\ canvas.simple = canvas.points
  /\ Groups(canvas) \cap layers \subseteq canvas.visible \cup {"takeoffLanding"}
  /\ canvas.visible \ {"warning"} \subseteq Groups(canvas) \cap layers

\* useMapHighlightLayers: unless the canvas was rebuilt without them, the rings and filters of
\* the waypoints are those that the page asks for; the focus always is.
RingsFollow ==
  /\ canvas.infra # 0 => canvas.focus = shown.focus
  /\ canvas.preview \in {0, shown.preview}
  /\ canvas.points # <<>> /\ ~excused /\ ~Waits({"waypoints"}) =>
       /\ canvas.ring = shown.selected /\ canvas.warned = shown.warned
       /\ canvas.ringed = shown.ringed /\ canvas.ids = shown.ids

\* useMapLayerSync: the simplified view is never over the trajectory, a part is shown only with
\* the trajectory, and a reload never leaves both views off that were not switched off.
LayersExclude ==
  /\ ~("simplifiedTrajectory" \in layers /\ layers \cap Family # {})
  /\ layers \cap Children # {} => "trajectory" \in layers
  /\ mapActs = 0 => "trajectory" \in layers

\* waypointsToGeoJSON: each waypoint that is drawn is in one point, a marker is where the mission
\* has it and only then, a collapsed column is one in the simplified view, and a bundle of the
\* list is of one inspection.
PointsOfPlan ==
  LET plan == PlanOf(shown.plan)
      points == Points(plan, shown.marks)
      rows == Listed(plan, shown.ids)
  IN
  /\ \A w \in Waypoints(plan) :
       ~Skipped(w) /\ w.kind \notin {"TAKEOFF", "LANDING"} =>
         Cardinality({p \in points : w.id \in p.ids}) = 1
  /\ \A p \in points : p.kind \in {"TAKEOFF", "LANDING"} => p.at = "mission"
  /\ Cardinality({p \in points : p.kind \in {"TAKEOFF", "LANDING"}}) = Cardinality(shown.marks)
  /\ \A p \in points : Cardinality(p.ids) > 1 => \E c \in Columns(plan) : p.ids \subseteq c
  /\ \A p, q \in points : p.at = q.at /\ p # q => "TRANSIT" \in {p.kind, q.kind} \/ p.at = "mission"
  /\ \A i, j \in 1..Len(rows) :
       Begins(rows)[i] = Begins(rows)[j] /\ rows[i].kind = "MEASUREMENT"
         /\ rows[j].kind = "MEASUREMENT" => rows[i].inspection = rows[j].inspection
=============================================================================
