------------------------- MODULE OperatorPages_proofs -------------------------
(***************************************************************************)
(* Theorems about the pages of an operator, for every set of waypoints,    *)
(* positions, fields, inspections and checks, and every limit.             *)
(***************************************************************************)
EXTENDS OperatorPages, FiniteSetTheorems, TLAPS

-----------------------------------------------------------------------------
(* Induction over the numbers in a set *)

\* A set that has 0 and with every number the next one has them all.
LEMMA NumbersReached ==
  ASSUME NEW S, 0 \in S, \A n \in Nat : n \in S => n + 1 \in S
  PROVE  Nat \subseteq S
<1> SUFFICES ASSUME NEW k \in Nat, k \notin S
             PROVE  FALSE
  OBVIOUS
<1> DEFINE T == {0..n : n \in Nat \ S}
           Below == StrictSubsetOrdering(Nat)
<1>1. T \subseteq FiniteSubsetsOf(Nat)
  <2> SUFFICES ASSUME NEW n \in Nat
               PROVE  0..n \in FiniteSubsetsOf(Nat)
    OBVIOUS
  <2>1. IsFiniteSet(0..n)
    BY FS_Interval
  <2> QED BY <2>1 DEF FiniteSubsetsOf
<1>2. T # {}
  OBVIOUS
<1>3. \E x \in T : \A y \in T : ~ (<<y, x>> \in Below)
  <2>1. IsWellFoundedOn(Below, FiniteSubsetsOf(Nat))
    BY FS_StrictSubsetOrderingWellFounded
  <2> HIDE DEF T, Below
  <2> QED BY <1>1, <1>2, <2>1, WFMin
<1>4. PICK m \in Nat \ S : \A n \in Nat \ S : ~ (<<0..n, 0..m>> \in Below)
  BY <1>3
<1>5. m - 1 \in Nat /\ m - 1 \notin S
  BY <1>4
<1>6. <<0..(m - 1), 0..m>> \in Below
  BY <1>4, <1>5 DEF StrictSubsetOrdering
<1> QED BY <1>4, <1>5, <1>6

\* A set of numbers has a smallest one, unless it is empty.
LEMMA SmallestNumber ==
  ASSUME NEW S, S \subseteq Nat, S # {}
  PROVE  \E i \in S : \A j \in S : i <= j
<1> SUFFICES ASSUME \A i \in S : \E j \in S : j < i
             PROVE  FALSE
  OBVIOUS
<1> DEFINE Absent == {n \in Nat : \A k \in 0..n : k \notin S}
<1>1. 0 \in Absent
  OBVIOUS
<1>2. \A n \in Nat : n \in Absent => n + 1 \in Absent
  OBVIOUS
<1>3. Nat \subseteq Absent
  <2> HIDE DEF Absent
  <2> QED BY <1>1, <1>2, NumbersReached
<1>4. PICK i \in S : TRUE
  OBVIOUS
<1>5. i \in Nat /\ i \in 0..i
  OBVIOUS
<1> QED BY <1>3, <1>4, <1>5

-----------------------------------------------------------------------------
(* Takeoff and landing *)

\* The form is well formed, and on a round trip the landing follows the takeoff.
CoordInv == Coord!TypeOK /\ Coord!LandingFollows

LEMMA CoordStarts == ASSUME Coord!Init PROVE CoordInv
BY DEF CoordInv, Coord!Init, Coord!TypeOK, Coord!LandingFollows, Coord!Targets

\* Setting some coordinates to one value.
LEMMA CoordinatesSet ==
  ASSUME Coord!TypeOK, NEW T, NEW v \in Coord!Coordinates \cup {Unset}, Coord!Set(T, v)
  PROVE  /\ coordinate' \in [Coord!Targets -> Coord!Coordinates \cup {Unset}]
         /\ \A t \in Coord!Targets : coordinate'[t] = IF t \in T THEN v ELSE coordinate[t]
BY DEF Coord!Set, Coord!TypeOK

\* A committed value of an input keeps the invariant: on a round trip it sets both.
LEMMA TypedKeeps ==
  ASSUME CoordInv, NEW t \in Coord!Targets, NEW v \in Coord!Coordinates \cup {Unset},
         Coord!Typed(t, v)
  PROVE  CoordInv'
<1> USE DEF Coord!Typed
<1>1. Coord!TypeOK'
  BY CoordinatesSet DEF CoordInv, Coord!TypeOK
<1>2. ASSUME roundTrip, ~crossed
      PROVE  coordinate'["landing"] = coordinate'["takeoff"]
  BY <1>2, CoordinatesSet DEF CoordInv, Coord!Followers, Coord!Targets
<1> QED BY <1>1, <1>2 DEF CoordInv, Coord!LandingFollows

LEMMA CoordKeeps == ASSUME CoordInv, Coord!Next PROVE CoordInv'
<1> USE DEF CoordInv
<1>1. ASSUME NEW t \in Coord!Targets, NEW a \in Axes, NEW n \in Numbers,
             Coord!CoordinateInput(t, a, n)
      PROVE  CoordInv'
  <2>1. Coord!commitValue(coordinate[t], a, n) \in Coord!Coordinates
    BY PagesAssumption DEF Coord!CoordinateAssumption, Coord!commitValue, Coord!Coordinates,
                           Coord!TypeOK
  <2> QED BY <1>1, <2>1, TypedKeeps DEF Coord!CoordinateInput
<1>2. ASSUME NEW t \in Coord!Targets, Coord!handleBlur(t)
      PROVE  CoordInv'
  BY <1>2, TypedKeeps DEF Coord!handleBlur, Coord!TypeOK
<1>3. CASE Coord!ToggleRoundTrip
  <2>1. CASE ~roundTrip /\ coordinate["takeoff"] # Unset
    <3>1. coordinate["takeoff"] \in Coord!Coordinates \cup {Unset}
      BY DEF Coord!TypeOK, Coord!Targets
    <3> QED BY <1>3, <2>1, <3>1, CoordinatesSet
               DEF Coord!ToggleRoundTrip, Coord!TypeOK, Coord!LandingFollows, Coord!Targets
  <2>2. CASE ~ (~roundTrip /\ coordinate["takeoff"] # Unset)
    BY <1>3, <2>2 DEF Coord!ToggleRoundTrip, Coord!TypeOK, Coord!LandingFollows
  <2> QED BY <2>1, <2>2
<1>4. ASSUME NEW t \in Coord!Targets, Coord!onPickCoord(t)
      PROVE  CoordInv'
  BY <1>4 DEF Coord!onPickCoord, Coord!TypeOK, Coord!LandingFollows
<1>5. ASSUME NEW p \in Coord!Coordinates, Coord!handleMapClick(p)
      PROVE  CoordInv'
  BY <1>5 DEF Coord!handleMapClick, Coord!TypeOK, Coord!LandingFollows, Coord!Pick
<1>6. ASSUME NEW k \in picks, Coord!Picked(k)
      PROVE  CoordInv'
  <2>1. k \in Coord!Pick
    BY DEF Coord!TypeOK
  <2>2. k.target \in Coord!Targets /\ k.mirror \in BOOLEAN /\ k.point \in Coord!Coordinates
    BY <2>1 DEF Coord!Pick
  <2>3. Coord!TypeOK'
    BY <1>6, <2>2, CoordinatesSet DEF Coord!Picked, Coord!TypeOK
  <2>4. ASSUME roundTrip', ~crossed'
        PROVE  coordinate'["landing"] = coordinate'["takeoff"]
    <3>1. ~crossed /\ roundTrip /\ k.target = "takeoff" /\ k.mirror
      BY <1>6, <2>2, <2>4 DEF Coord!Picked, Coord!Targets
    <3> QED BY <1>6, <2>2, <3>1, CoordinatesSet
               DEF Coord!Picked, Coord!Followers, Coord!Targets
  <2> QED BY <2>3, <2>4 DEF Coord!LandingFollows
<1> QED BY <1>1, <1>2, <1>3, <1>4, <1>5, <1>6 DEF Coord!Next

-----------------------------------------------------------------------------
(* The tools of the map *)

ToolInv == Tool!TypeOK /\ Tool!MeasureShape /\ Tool!PlaysIn3D /\ Tool!IndicatorEnds

\* A path is being drawn or finished, and a finished one has a segment.
PathOK(m) == /\ m.isComplete => ~m.isDrawing /\ m.points >= 2
             /\ m.points > 0 <=> m.isDrawing \/ m.isComplete

LEMMA NoPathOK ==
  /\ Tool!NoPath \in [points : 0..MaxPoints, isDrawing : BOOLEAN, isComplete : BOOLEAN]
  /\ PathOK(Tool!NoPath)
BY PagesAssumption DEF Tool!NoPath, PathOK, Tool!ToolsAssumption

LEMMA ToolStarts == ASSUME Tool!Init PROVE ToolInv
<1> USE DEF Tool!Init
<1>1. Tool!TypeOK
  BY NoPathOK DEF Tool!TypeOK, Tool!MapTool, Tool!Markers
<1>2. Tool!MeasureShape
  BY NoPathOK DEF Tool!MeasureShape, PathOK
<1> QED BY <1>1, <1>2 DEF ToolInv, Tool!PlaysIn3D, Tool!IndicatorEnds

\* What a step does to the measured path: nothing, clear it, go on with it or finish it.
PathStep ==
  \/ measure' = measure
  \/ measure' = Tool!NoPath
  \/ /\ measure.isDrawing \/ measure.points = 0
     /\ measure' = [measure EXCEPT !.points = IF @ >= MaxPoints THEN @ ELSE @ + 1,
                                   !.isDrawing = TRUE]
  \/ /\ measure.isDrawing /\ measure.points >= 2
     /\ measure' = [measure EXCEPT !.isDrawing = FALSE, !.isComplete = TRUE]

LEMMA PathKeeps ==
  ASSUME ToolInv, PathStep
  PROVE  /\ measure' \in [points : 0..MaxPoints, isDrawing : BOOLEAN, isComplete : BOOLEAN]
         /\ Tool!MeasureShape'
<1> DEFINE P == [points : 0..MaxPoints, isDrawing : BOOLEAN, isComplete : BOOLEAN]
<1>1. measure \in P /\ PathOK(measure) /\ MaxPoints \in Nat \ {0, 1}
  BY PagesAssumption DEF ToolInv, Tool!TypeOK, Tool!MeasureShape, PathOK, Tool!ToolsAssumption
<1>2. CASE measure' = measure
  BY <1>1, <1>2 DEF PathOK, Tool!MeasureShape
<1>3. CASE measure' = Tool!NoPath
  BY <1>3, NoPathOK DEF PathOK, Tool!MeasureShape
<1>4. ASSUME measure.isDrawing \/ measure.points = 0,
             measure' = [measure EXCEPT !.points = IF @ >= MaxPoints THEN @ ELSE @ + 1,
                                        !.isDrawing = TRUE]
      PROVE  measure' \in P /\ PathOK(measure')
  <2> DEFINE n == IF measure.points >= MaxPoints THEN measure.points ELSE measure.points + 1
  <2>0. measure' = [measure EXCEPT !.points = n, !.isDrawing = TRUE]
    BY <1>4
  <2>1. measure' \in P
    <3>1. n \in 0..MaxPoints
      BY <1>1
    <3> HIDE DEF n
    <3> QED BY <1>1, <2>0, <3>1
  <2>2. measure'.isDrawing /\ measure'.points > 0
    BY <1>1, <1>4
  <2>3. ~ measure.isComplete /\ measure'.isComplete = measure.isComplete
    BY <1>1, <1>4 DEF PathOK
  <2> QED BY <2>1, <2>2, <2>3 DEF PathOK
<1>5. ASSUME measure.isDrawing, measure.points >= 2,
             measure' = [measure EXCEPT !.isDrawing = FALSE, !.isComplete = TRUE]
      PROVE  measure' \in P /\ PathOK(measure')
  BY <1>1, <1>5 DEF PathOK
<1> QED BY <1>2, <1>3, <1>4, <1>5 DEF PathStep, PathOK, Tool!MeasureShape

\* The tools, the playback and the drawings leave the placements alone.
LEMMA ToolsKeep ==
  ASSUME ToolInv, Tool!Tools \/ Tool!Drawing \/ Tool!Playback
  PROVE  /\ PathStep
         /\ UNCHANGED <<mirror, markers, placements, pending>>
         /\ activeTool' \in Tool!MapTool /\ is3D' \in BOOLEAN
         /\ heading' \in {"none", "origin", "locked"}
         /\ flight' \in {"idle", "playing", "paused"} /\ playable' \in BOOLEAN
         /\ Tool!PlaysIn3D'
<1> USE DEF ToolInv, Tool!TypeOK, Tool!PlaysIn3D, Tool!placing, Tool!drawings, Tool!trajectory
<1>1. ASSUME Tool!Tools
      PROVE  /\ PathStep /\ UNCHANGED <<mirror, markers, placements, pending>>
             /\ activeTool' \in Tool!MapTool /\ is3D' \in BOOLEAN
             /\ heading' \in {"none", "origin", "locked"}
             /\ flight' \in {"idle", "playing", "paused"} /\ playable' \in BOOLEAN
             /\ Tool!PlaysIn3D'
  BY <1>1 DEF Tool!Tools, Tool!setIs3D, Tool!Shortcut, Tool!handleToolChange, Tool!handlePlace,
              Tool!Escape, PathStep, Tool!MapTool, Tool!EDITING_TOOLS, Tool!PlacementTools
<1>2. ASSUME Tool!Drawing
      PROVE  /\ PathStep /\ UNCHANGED <<mirror, markers, placements, pending, activeTool, is3D>>
             /\ UNCHANGED <<flight, playable>> /\ heading' \in {"none", "origin", "locked"}
  <2>1. CASE Tool!addMeasurePoint
    BY <2>1 DEF Tool!addMeasurePoint, PathStep
  <2>2. CASE Tool!MeasureContextMenu
    BY <2>2 DEF Tool!MeasureContextMenu, Tool!finishDrawing, PathStep
  <2>3. CASE Tool!dismissMeasure \/ Tool!addHeadingPoint \/ Tool!clearHeading
    BY <2>3 DEF Tool!dismissMeasure, Tool!addHeadingPoint, Tool!clearHeading, PathStep
  <2> QED BY <1>2, <2>1, <2>2, <2>3 DEF Tool!Drawing
<1>3. ASSUME Tool!Playback
      PROVE  /\ UNCHANGED <<mirror, markers, placements, pending, activeTool, is3D, measure, heading>>
             /\ flight' \in {"idle", "playing", "paused"} /\ playable' \in BOOLEAN
             /\ Tool!PlaysIn3D'
  BY <1>3 DEF Tool!Playback, Tool!play, Tool!pause, Tool!stop, Tool!NewPlan, Tool!PlanEdited
<1> QED BY <1>1, <1>2, <1>3 DEF PathStep

\* Placements keep what is shown as not saved with a placement under way.
LEMMA PlacingKeeps ==
  ASSUME ToolInv, Tool!Placing
  PROVE  /\ UNCHANGED <<is3D, measure, heading, flight, playable>>
         /\ activeTool' \in Tool!MapTool /\ mirror' \in BOOLEAN
         /\ markers' \subseteq Tool!Markers /\ pending' \subseteq Tool!Markers
         /\ placements' \subseteq Tool!Placement
         /\ Tool!IndicatorEnds'
<1> USE DEF ToolInv, Tool!TypeOK, Tool!IndicatorEnds, Tool!drawings, Tool!trajectory
<1>1. CASE Tool!PlaceClick
  <2>1. PICK i \in Tool!FreeIds :
          placements' = placements \cup
            {[id |-> i, keys |-> Tool!computePlacementUpdates(activeTool), step |-> "elevation"]}
    <3>1. \E i \in Tool!FreeIds : \A j \in Tool!FreeIds : i <= j
      <4>1. Tool!FreeIds \subseteq Nat /\ Tool!FreeIds # {}
        BY <1>1, PagesAssumption DEF Tool!PlaceClick, Tool!FreeIds, Tool!ToolsAssumption
      <4> QED BY <4>1, SmallestNumber
    <3> QED BY <1>1, <3>1 DEF Tool!PlaceClick
  <2>2. Tool!computePlacementUpdates(activeTool) \subseteq Tool!Markers
    BY DEF Tool!computePlacementUpdates, Tool!Markers
  <2>3. placements' \subseteq Tool!Placement
    BY <2>1, <2>2 DEF Tool!Placement, Tool!FreeIds
  <2> QED BY <1>1, <2>1, <2>3 DEF Tool!PlaceClick
<1>2. ASSUME NEW o \in placements, Tool!Resolved(o)
      PROVE  /\ placements' \subseteq Tool!Placement /\ pending' \subseteq Tool!Markers
             /\ Tool!IndicatorEnds'
             /\ UNCHANGED <<is3D, measure, heading, flight, playable, mirror, markers>>
             /\ activeTool' \in Tool!MapTool
  <2> DEFINE sent == [o EXCEPT !.step = "server"]
  <2>1. o \in Tool!Placement /\ sent \in Tool!Placement /\ sent.keys = o.keys
        /\ o.keys \subseteq Tool!Markers
    BY DEF Tool!Placement
  <2>2. placements' = (placements \ {o}) \cup {sent} /\ pending' = pending \cup o.keys
        /\ UNCHANGED <<is3D, measure, heading, flight, playable, mirror, markers>>
        /\ activeTool' = "SELECT"
    BY <1>2 DEF Tool!Resolved
  <2> HIDE DEF sent
  <2>3. Tool!IndicatorEnds'
    BY <2>1, <2>2
  <2> QED BY <2>1, <2>2, <2>3 DEF Tool!MapTool
<1>3. ASSUME NEW o \in placements, Tool!Placed(o)
      PROVE  /\ placements' \subseteq placements /\ pending' \subseteq pending
             /\ Tool!IndicatorEnds'
             /\ UNCHANGED <<is3D, measure, heading, flight, playable, activeTool>>
             /\ mirror' \in BOOLEAN /\ markers' \subseteq Tool!Markers
  BY <1>3 DEF Tool!Placed, Tool!Placement
<1>4. ASSUME NEW m \in Tool!Markers, Tool!handleDeleteTakeoffLanding(m)
      PROVE  /\ UNCHANGED <<is3D, measure, heading, flight, playable, activeTool, placements, pending>>
             /\ mirror' \in BOOLEAN /\ markers' \subseteq Tool!Markers
  BY <1>4 DEF Tool!handleDeleteTakeoffLanding
<1> QED BY <1>1, <1>2, <1>3, <1>4 DEF Tool!Placing

LEMMA ToolKeeps == ASSUME ToolInv, Tool!Next PROVE ToolInv'
<1>1. CASE Tool!Tools \/ Tool!Drawing \/ Tool!Playback
  BY <1>1, ToolsKeep, PathKeeps DEF ToolInv, Tool!TypeOK, Tool!IndicatorEnds
<1>2. CASE Tool!Placing
  BY <1>2, PlacingKeeps DEF ToolInv, Tool!TypeOK, Tool!MeasureShape, Tool!PlaysIn3D
<1> QED BY <1>1, <1>2 DEF Tool!Next

-----------------------------------------------------------------------------
(* The configuration page *)

\* The page counts as everybody does.
LEMMA SameCardinality == ASSUME NEW S PROVE Config!Cardinality(S) = Cardinality(S)
BY DEF Config!Cardinality, Cardinality

\* Partial functions and what becomes of them.
LEMMA PartialSays ==
  ASSUME NEW S, NEW T, NEW f
  PROVE  f \in Config!Partial(S, T) <=>
           f = [x \in DOMAIN f |-> f[x]] /\ DOMAIN f \subseteq S /\ \A x \in DOMAIN f : f[x] \in T
BY DEF Config!Partial

\* What a function has after an entry is set, with another over it, without an entry.
IsWith(g, f, x, v) ==
  DOMAIN g = DOMAIN f \cup {x} /\ \A y \in DOMAIN g : g[y] = IF y = x THEN v ELSE f[y]
IsOver(h, f, g) ==
  /\ DOMAIN h = DOMAIN f \cup DOMAIN g
  /\ \A y \in DOMAIN h : h[y] = IF y \in DOMAIN f THEN f[y] ELSE g[y]
IsWithout(g, f, x) == DOMAIN g = DOMAIN f \ {x} /\ \A y \in DOMAIN g : g[y] = f[y]

LEMMA PartialWith ==
  ASSUME NEW S, NEW T, NEW f \in Config!Partial(S, T), NEW x \in S, NEW v \in T,
         NEW g, g = Config!With(f, x, v)
  PROVE  g \in Config!Partial(S, T) /\ IsWith(g, f, x, v)
BY PartialSays DEF Config!With, IsWith

LEMMA PartialOver ==
  ASSUME NEW S, NEW T, NEW f \in Config!Partial(S, T), NEW g \in Config!Partial(S, T),
         NEW h, h = Config!Over(f, g)
  PROVE  h \in Config!Partial(S, T) /\ IsOver(h, f, g)
BY PartialSays DEF Config!Over, IsOver

LEMMA PartialWithout ==
  ASSUME NEW S, NEW T, NEW f \in Config!Partial(S, T), NEW x,
         NEW g, g = Config!Without(f, x)
  PROVE  g \in Config!Partial(S, T) /\ IsWithout(g, f, x)
BY PartialSays DEF Config!Without, IsWithout

LEMMA PartialNothing ==
  ASSUME NEW S, NEW T
  PROVE  /\ Config!Nothing \in Config!Partial(S, T)
         /\ DOMAIN Config!Nothing = {}
         /\ \A f \in Config!Partial(S, T) : DOMAIN f = {} => f = Config!Nothing
<1>1. Config!Nothing \in [{} -> T] /\ DOMAIN Config!Nothing = {}
  BY DEF Config!Nothing
<1>2. Config!Nothing \in Config!Partial(S, T)
  BY <1>1, {} \in SUBSET S, Zenon DEF Config!Partial
<1>3. ASSUME NEW f \in Config!Partial(S, T), DOMAIN f = {}
      PROVE  f = Config!Nothing
  <2>1. f \in [{} -> T]
    BY <1>3, PartialSays
  <2>2. \A x \in {} : f[x] = Config!Nothing[x]
    OBVIOUS
  <2> HIDE DEF Config!Nothing
  <2> QED BY <1>1, <2>1, <2>2
<1> QED BY <1>1, <1>2, <1>3

\* What a field and an inspection have once everything unsaved is saved.
FieldHas(k) == IF k \in DOMAIN missionDirty THEN missionDirty[k] ELSE storedFields[k]
ConfigHas(i) == IF i \in DOMAIN inspectionDirty THEN inspectionDirty[i] ELSE storedConfigs[i]

\* EditsKept and SelectionIsReal, spelled out.
FieldsKept ==
  \A k \in (DOMAIN wanted \cap Fields) \ raced : FieldHas(k) = wanted[k]
ConfigsKept ==
  \A i \in (DOMAIN wanted \cap DOMAIN storedConfigs) \ raced : ConfigHas(i) = wanted[i]
SelectionHas ==
  \A i \in (DOMAIN selectedLhas \cap DOMAIN storedConfigs) \ raced :
    selectedLhas[i] = ConfigHas(i) \/ (i \in DOMAIN wanted /\ wanted[i] = "none")

LEMMA KeptSays ==
  ASSUME Config!TypeOK
  PROVE  /\ Config!EditsKept <=> FieldsKept /\ ConfigsKept
         /\ Config!SelectionIsReal <=> SelectionHas
<1>1. /\ DOMAIN storedFields = Fields /\ DOMAIN missionDirty \subseteq Fields
      /\ DOMAIN storedConfigs \subseteq Inspections /\ DOMAIN inspectionDirty \subseteq Inspections
      /\ DOMAIN wanted \subseteq Fields \cup Inspections
  BY PartialSays DEF Config!TypeOK
<1>2. Fields \cap Inspections = {}
  BY PagesAssumption DEF Config!ConfigAssumption
<1>3. \A k \in Fields : Config!Over(missionDirty, storedFields)[k] = FieldHas(k)
  BY <1>1 DEF Config!Over, FieldHas
<1>4. \A i \in DOMAIN storedConfigs : Config!Over(inspectionDirty, storedConfigs)[i] = ConfigHas(i)
  BY <1>1 DEF Config!Over, ConfigHas
<1>5. Config!EditsKept <=> FieldsKept /\ ConfigsKept
  BY <1>1, <1>2, <1>3, <1>4 DEF Config!EditsKept, FieldsKept, ConfigsKept
<1>6. Config!SelectionIsReal <=> SelectionHas
  BY <1>1, <1>4 DEF Config!SelectionIsReal, SelectionHas, Config!Emptied
<1> QED BY <1>5, <1>6

\* What a save has taken of the edits is what they still are, but for those made since.
FieldsAgree(o) ==
  \A k \in Fields \ raced :
    /\ k \in DOMAIN missionDirty <=> k \in DOMAIN o.fields
    /\ k \in DOMAIN o.fields => missionDirty[k] = o.fields[k]
ConfigsAgree(o) ==
  \A i \in DOMAIN storedConfigs \ raced :
    /\ i \in DOMAIN o.todo => i \in DOMAIN inspectionDirty /\ inspectionDirty[i] = o.todo[i]
    /\ i \in DOMAIN o.failed => i \in DOMAIN inspectionDirty /\ inspectionDirty[i] = o.failed[i]
    /\ i \in DOMAIN inspectionDirty \ (DOMAIN o.todo \cup DOMAIN o.failed)
         => storedConfigs[i] = inspectionDirty[i]

\* A request under way: whose it is, and what it knows of the page.
OpOK(o) ==
  /\ o.step \in {"fields", "inspections"} => o.kind = "save"
  /\ o.kind = "remove" => o.inspection \in Inspections
  /\ o.step = "lhas" \/ (o.kind = "add" /\ o.step = "read") => o.inspection \in Inspections
  /\ \A i \in DOMAIN o.todo \cup DOMAIN o.failed :
       /\ i \in DOMAIN selectedLhas
       /\ i \in DOMAIN storedConfigs => i \in DOMAIN wanted
  /\ o.step = "fields" => FieldsAgree(o)
  /\ o.step \in {"fields", "inspections"} => ConfigsAgree(o)

\* What is unsaved has been entered, and for an inspection whose selection is shown.
EditsKnown ==
  /\ DOMAIN inspectionDirty \subseteq DOMAIN selectedLhas
  /\ DOMAIN wanted \cap Inspections \subseteq DOMAIN selectedLhas
  /\ DOMAIN inspectionDirty \cap DOMAIN storedConfigs \subseteq DOMAIN wanted

OneSave == \A o, p \in ops : o.kind = "save" /\ p.kind = "save" => o = p

ConfigInv ==
  /\ Config!TypeOK /\ IsFiniteSet(ops)
  /\ FieldsKept /\ ConfigsKept /\ SelectionHas
  /\ EditsKnown /\ OneSave
  /\ \A o \in ops : OpOK(o)

LEMMA ConfigStarts == ASSUME Config!Init PROVE ConfigInv
<1> USE DEF Config!Init
<1>1. storedConfigs \in Config!Partial(Inspections, Config!Selections)
  <2>1. CASE storedConfigs = Config!Nothing
    BY <2>1, PartialNothing
  <2>2. ASSUME NEW i \in Inspections, storedConfigs \in [{i} -> {"all"}]
        PROVE  storedConfigs \in Config!Partial(Inspections, Config!Selections)
    BY <2>2, PartialSays DEF Config!Selections
  <2> QED BY <2>1, <2>2
<1>2. IsFiniteSet(ops) /\ Cardinality(ops) = 0
  BY FS_EmptySet
<1>3. Config!TypeOK
  <2>1. MaxOps \in Nat
    BY PagesAssumption DEF Config!ConfigAssumption
  <2>2. shown \subseteq Inspections
    <3>1. DOMAIN storedConfigs \subseteq Inspections
      BY <1>1, PartialSays
    <3> QED BY <3>1
  <2> QED BY <1>1, <1>2, <2>1, <2>2, PartialNothing, SameCardinality DEF Config!TypeOK
<1>4. DOMAIN wanted = {} /\ DOMAIN inspectionDirty = {} /\ selectedLhas = storedConfigs
  BY DEF Config!Nothing
<1> QED BY <1>2, <1>3, <1>4
        DEF ConfigInv, FieldsKept, ConfigsKept, SelectionHas, ConfigHas, EditsKnown, OneSave

\* Where the fields and inspections the page and its requests speak of come from.
LEMMA Domains ==
  ASSUME Config!TypeOK
  PROVE  /\ DOMAIN storedFields = Fields /\ DOMAIN missionDirty \subseteq Fields
         /\ DOMAIN storedConfigs \subseteq Inspections
         /\ DOMAIN inspectionDirty \subseteq Inspections
         /\ DOMAIN selectedLhas \subseteq Inspections
         /\ DOMAIN wanted \subseteq Fields \cup Inspections
         /\ Fields \cap Inspections = {}
BY PartialSays, PagesAssumption DEF Config!TypeOK, Config!ConfigAssumption

\* A request is a record: what it is made of, and what a request made of it is.
LEMMA OpSays ==
  ASSUME NEW o \in Config!Op
  PROVE  /\ o.fields \in Config!Partial(Fields, Config!Values)
         /\ o.todo \in Config!Partial(Inspections, Config!Selections)
         /\ o.failed \in Config!Partial(Inspections, Config!Selections)
         /\ DOMAIN o.fields \subseteq Fields
         /\ DOMAIN o.todo \subseteq Inspections /\ DOMAIN o.failed \subseteq Inspections
<1>1. /\ o.fields \in Config!Partial(Fields, Config!Values)
      /\ o.todo \in Config!Partial(Inspections, Config!Selections)
      /\ o.failed \in Config!Partial(Inspections, Config!Selections)
  BY DEF Config!Op
<1> QED BY <1>1, PartialSays

LEMMA NextStep ==
  ASSUME NEW o \in Config!Op,
         NEW step \in {"fields", "inspections", "send", "lhas", "read"}
  PROVE  LET q == [o EXCEPT !.step = step]
         IN  /\ q \in Config!Op
             /\ q.step = step /\ q.kind = o.kind /\ q.inspection = o.inspection
             /\ q.fields = o.fields /\ q.todo = o.todo /\ q.failed = o.failed
BY DEF Config!Op

\* A request that ends or goes on leaves as many under way, and at most one save.
LEMMA Replaced ==
  ASSUME ConfigInv, NEW o \in ops, NEW q \in Config!Op, q.kind = o.kind,
         ops' = ops \ {o} \/ ops' = (ops \ {o}) \cup {q}
  PROVE  /\ ops' \subseteq Config!Op /\ IsFiniteSet(ops')
         /\ Config!Cardinality(ops') <= MaxOps
         /\ OneSave'
<1>1. /\ ops \subseteq Config!Op /\ IsFiniteSet(ops) /\ Cardinality(ops) <= MaxOps
      /\ MaxOps \in Nat
  BY SameCardinality, PagesAssumption DEF ConfigInv, Config!TypeOK, Config!ConfigAssumption
<1>2. /\ IsFiniteSet(ops \ {o}) /\ Cardinality(ops \ {o}) = Cardinality(ops) - 1
      /\ Cardinality(ops) \in Nat
  BY <1>1, FS_RemoveElement, FS_CardinalityType
<1>3. /\ IsFiniteSet((ops \ {o}) \cup {q})
      /\ \/ Cardinality((ops \ {o}) \cup {q}) = Cardinality(ops \ {o})
         \/ Cardinality((ops \ {o}) \cup {q}) = Cardinality(ops \ {o}) + 1
  BY <1>2, FS_AddElement
<1>4. IsFiniteSet(ops') /\ Cardinality(ops') <= MaxOps
  <2>1. CASE ops' = ops \ {o}
    <3>1. IsFiniteSet(ops') /\ Cardinality(ops') = Cardinality(ops) - 1
      BY <1>2, <2>1
    <3> QED BY <1>1, <1>2, <3>1
  <2>2. CASE ops' = (ops \ {o}) \cup {q}
    <3>1. /\ IsFiniteSet(ops')
          /\ \/ Cardinality(ops') = Cardinality(ops) - 1
             \/ Cardinality(ops') = Cardinality(ops) - 1 + 1
      BY <1>2, <1>3, <2>2
    <3> QED BY <1>1, <1>2, <3>1
  <2> QED BY <2>1, <2>2
<1>5. ASSUME NEW a \in ops', NEW b \in ops', a.kind = "save", b.kind = "save"
      PROVE  a = b
  <2>1. \A p \in ops : p.kind = "save" /\ o.kind = "save" => p = o
    BY DEF ConfigInv, OneSave
  <2>2. CASE a \in ops \ {o} /\ b \in ops \ {o}
    BY <1>5, <2>2 DEF ConfigInv, OneSave
  <2>3. CASE a = q \/ b = q
    BY <1>5, <2>1, <2>3
  <2> QED BY <2>2, <2>3
<1> QED BY <1>1, <1>4, <1>5, SameCardinality DEF OneSave

\* A step of a request that changes nothing but the requests, and what is shown.
LEMMA QuietKeeps ==
  ASSUME ConfigInv, NEW o \in ops, NEW q \in Config!Op,
         q.kind = o.kind, OpOK(q),
         ops' = ops \ {o} \/ ops' = (ops \ {o}) \cup {q},
         shown' \subseteq Inspections,
         UNCHANGED <<storedFields, storedConfigs, missionDirty, inspectionDirty, selectedLhas,
                     wanted, raced>>
  PROVE  ConfigInv'
<1>1. Config!TypeOK' /\ IsFiniteSet(ops') /\ OneSave'
  BY Replaced DEF ConfigInv, Config!TypeOK
<1>2. /\ FieldsKept' /\ ConfigsKept' /\ SelectionHas' /\ EditsKnown'
  BY DEF ConfigInv, FieldsKept, FieldHas, ConfigsKept, ConfigHas, SelectionHas, EditsKnown
<1>3. ASSUME NEW p \in ops' PROVE OpOK(p)'
  <2>1. OpOK(p)
    BY DEF ConfigInv
  <2> QED BY <2>1 DEF OpOK, FieldsAgree, ConfigsAgree
<1> QED BY <1>1, <1>2, <1>3 DEF ConfigInv

\* What is entered while a save runs is not what the save takes; else no save runs.
LEMMA Noted ==
  ASSUME ConfigInv, NEW key, Config!Note({key})
  PROVE  /\ raced' \subseteq raced \cup {key} /\ raced \subseteq raced' \cup {key}
         /\ \A o \in ops : o.step \in {"fields", "inspections"} => raced' = raced \cup {key}
BY DEF Config!Note, Config!Saving, ConfigInv, OpOK

LEMMA FieldInputKeeps ==
  ASSUME ConfigInv, NEW field \in Fields, NEW value \in Config!Values,
         Config!FieldInput(field, value)
  PROVE  ConfigInv'
<1>d. /\ missionDirty' = Config!With(missionDirty, field, value)
      /\ wanted' = Config!With(wanted, field, value)
      /\ Config!Note({field})
      /\ UNCHANGED <<storedFields, storedConfigs, shown, inspectionDirty, selectedLhas, ops>>
  BY DEF Config!FieldInput, Config!handleMissionChange, Config!server
<1>0. Config!TypeOK
  BY DEF ConfigInv
<1>n. /\ raced' \subseteq raced \cup {field} /\ raced \subseteq raced' \cup {field}
      /\ \A o \in ops : o.step \in {"fields", "inspections"} => raced' = raced \cup {field}
  BY <1>d, Noted
<1>1. /\ missionDirty' \in Config!Partial(Fields, Config!Values)
      /\ IsWith(missionDirty', missionDirty, field, value)
  <2>1. missionDirty \in Config!Partial(Fields, Config!Values)
    BY <1>0 DEF Config!TypeOK
  <2> QED BY <1>d, <2>1, PartialWith, Zenon
<1>2. /\ wanted' \in Config!Partial(Fields \cup Inspections, Config!Values \cup Config!Selections)
      /\ IsWith(wanted', wanted, field, value)
  <2>1. /\ wanted \in Config!Partial(Fields \cup Inspections, Config!Values \cup Config!Selections)
        /\ field \in Fields \cup Inspections /\ value \in Config!Values \cup Config!Selections
    BY <1>0 DEF Config!TypeOK
  <2> QED BY <1>d, <2>1, PartialWith, Zenon
<1>3. Config!TypeOK' /\ IsFiniteSet(ops')
  BY <1>d, <1>0, <1>1, <1>2, <1>n DEF IsWith, ConfigInv, Config!TypeOK
<1>4. FieldsKept'
  BY <1>d, <1>0, <1>1, <1>2, Domains, <1>n DEF IsWith, ConfigInv, FieldsKept, FieldHas
<1>5. \A i \in Inspections : /\ i \in raced' <=> i \in raced
                             /\ i \in DOMAIN wanted' <=> i \in DOMAIN wanted
                             /\ i \in DOMAIN wanted => wanted'[i] = wanted[i]
  BY <1>0, <1>2, Domains, <1>n DEF IsWith
<1>6. ConfigsKept' /\ SelectionHas' /\ EditsKnown' /\ OneSave'
  BY <1>d, <1>0, <1>5, Domains DEF IsWith, ConfigInv, ConfigsKept, ConfigHas, SelectionHas, EditsKnown, OneSave
<1>7. ASSUME NEW o \in ops PROVE OpOK(o)'
  <2>1. OpOK(o) /\ DOMAIN o.todo \subseteq Inspections /\ DOMAIN o.failed \subseteq Inspections
    BY <1>d, <1>0, OpSays DEF IsWith, ConfigInv, Config!TypeOK
  <2>2. o.step = "fields" => FieldsAgree(o)'
    BY <1>d, <1>1, <2>1, <1>n DEF IsWith, OpOK, FieldsAgree
  <2>3. o.step \in {"fields", "inspections"} => ConfigsAgree(o)'
    BY <1>d, <1>0, <1>5, <2>1, Domains DEF IsWith, OpOK, ConfigsAgree
  <2> QED BY <1>d, <1>0, <1>5, <2>1, <2>2, <2>3, Domains DEF IsWith, OpOK
<1> QED BY <1>d, <1>3, <1>4, <1>6, <1>7 DEF IsWith, ConfigInv

LEMMA handleToggleLhaKeeps ==
  ASSUME ConfigInv, NEW i \in Inspections, NEW s \in Config!Selections,
         Config!handleToggleLha(i, s)
  PROVE  ConfigInv'
<1>d. /\ selectedLhas' = Config!With(selectedLhas, i, s)
      /\ inspectionDirty' = Config!With(inspectionDirty, i, s)
      /\ wanted' = Config!With(wanted, i, s)
      /\ Config!Note({i})
      /\ UNCHANGED <<storedFields, storedConfigs, shown, missionDirty, ops>>
  BY DEF Config!handleToggleLha, Config!server
<1>0. Config!TypeOK
  BY DEF ConfigInv
<1>n. /\ raced' \subseteq raced \cup {i} /\ raced \subseteq raced' \cup {i}
      /\ \A o \in ops : o.step \in {"fields", "inspections"} => raced' = raced \cup {i}
  BY <1>d, Noted
<1>1. /\ inspectionDirty' \in Config!Partial(Inspections, Config!Selections)
      /\ IsWith(inspectionDirty', inspectionDirty, i, s)
  <2>1. inspectionDirty \in Config!Partial(Inspections, Config!Selections)
    BY <1>0 DEF Config!TypeOK
  <2> QED BY <1>d, <2>1, PartialWith, Zenon
<1>2. /\ selectedLhas' \in Config!Partial(Inspections, Config!Selections)
      /\ IsWith(selectedLhas', selectedLhas, i, s)
  <2>1. selectedLhas \in Config!Partial(Inspections, Config!Selections)
    BY <1>0 DEF Config!TypeOK
  <2> QED BY <1>d, <2>1, PartialWith, Zenon
<1>3. /\ wanted' \in Config!Partial(Fields \cup Inspections, Config!Values \cup Config!Selections)
      /\ IsWith(wanted', wanted, i, s)
  <2>1. /\ wanted \in Config!Partial(Fields \cup Inspections, Config!Values \cup Config!Selections)
        /\ i \in Fields \cup Inspections /\ s \in Config!Values \cup Config!Selections
    BY <1>0 DEF Config!TypeOK
  <2> QED BY <1>d, <2>1, PartialWith, Zenon
<1>4. Config!TypeOK' /\ IsFiniteSet(ops')
  BY <1>d, <1>0, <1>1, <1>2, <1>3, <1>n DEF IsWith, ConfigInv, Config!TypeOK
<1>5. \A k \in Fields : /\ k \in raced' <=> k \in raced
                        /\ k \in DOMAIN wanted' <=> k \in DOMAIN wanted
                        /\ k \in DOMAIN wanted => wanted'[k] = wanted[k]
  BY <1>0, <1>3, Domains, <1>n DEF IsWith
<1>6. FieldsKept'
  BY <1>d, <1>5 DEF IsWith, ConfigInv, FieldsKept, FieldHas
<1>7. ConfigsKept' /\ SelectionHas' /\ EditsKnown' /\ OneSave'
  <2>1. ConfigsKept'
    BY <1>d, <1>1, <1>3, <1>n DEF IsWith, ConfigInv, ConfigsKept, ConfigHas
  <2>2. SelectionHas'
    BY <1>d, <1>1, <1>2, <1>3, <1>n DEF IsWith, ConfigInv, SelectionHas, ConfigHas
  <2> QED BY <1>d, <1>1, <1>2, <1>3, <2>1, <2>2 DEF IsWith, ConfigInv, EditsKnown, OneSave
<1>8. ASSUME NEW o \in ops PROVE OpOK(o)'
  <2>1. OpOK(o)
    BY DEF ConfigInv
  <2>2. o.step = "fields" => FieldsAgree(o)'
    BY <1>d, <1>5, <2>1 DEF IsWith, OpOK, FieldsAgree
  <2>3. o.step \in {"fields", "inspections"} => ConfigsAgree(o)'
    BY <1>d, <1>1, <2>1, <1>n DEF IsWith, OpOK, ConfigsAgree
  <2> QED BY <1>d, <1>2, <1>3, <2>1, <2>2, <2>3 DEF IsWith, OpOK
<1> QED BY <1>d, <1>4, <1>6, <1>7, <1>8 DEF IsWith, ConfigInv

LEMMA confirmDiscardKeeps == ASSUME ConfigInv, Config!confirmDiscard PROVE ConfigInv'
<1>d. /\ ops = {} /\ ops' = {}
      /\ missionDirty' = Config!Nothing /\ inspectionDirty' = Config!Nothing
      /\ wanted' = Config!Nothing /\ raced' = {}
      /\ selectedLhas' = storedConfigs /\ shown' = DOMAIN storedConfigs
      /\ UNCHANGED <<storedFields, storedConfigs>>
  BY DEF Config!confirmDiscard, Config!server
<1>1. Config!TypeOK /\ DOMAIN storedConfigs \subseteq Inspections /\ IsFiniteSet(ops)
  BY Domains DEF ConfigInv
<1>2. Config!TypeOK'
  BY <1>d, <1>1, PartialNothing DEF Config!TypeOK
<1>3. DOMAIN wanted' = {} /\ DOMAIN inspectionDirty' = {} /\ selectedLhas' = storedConfigs'
  BY <1>d, PartialNothing
<1>4. FieldsKept' /\ ConfigsKept' /\ SelectionHas' /\ EditsKnown'
  BY <1>3 DEF FieldsKept, ConfigsKept, SelectionHas, ConfigHas, EditsKnown
<1> QED BY <1>d, <1>1, <1>2, <1>4 DEF ConfigInv, OneSave

\* An unsaved selection is kept unless it is empty, and the rest is read anew.
LEMMA fetchDataKeeps == ASSUME ConfigInv, Config!fetchData PROVE ConfigInv'
<1> DEFINE kept == {i \in DOMAIN inspectionDirty : inspectionDirty[i] = "all"}
           seen == {i \in DOMAIN storedConfigs : i \in kept \/ storedConfigs[i] = "all"}
           read == [i \in seen |-> "all"]
<1>d. /\ selectedLhas' = Config!Over(read, selectedLhas) /\ shown' = DOMAIN storedConfigs
      /\ UNCHANGED <<storedFields, storedConfigs, missionDirty, inspectionDirty, ops, wanted, raced>>
  BY DEF Config!fetchData, Config!restoreLhaSelections, Config!server, Config!history
<1>0. Config!TypeOK /\ DOMAIN storedConfigs \subseteq Inspections
  BY Domains DEF ConfigInv
<1>1. /\ selectedLhas' \in Config!Partial(Inspections, Config!Selections)
      /\ IsOver(selectedLhas', read, selectedLhas)
  <2>1. /\ selectedLhas \in Config!Partial(Inspections, Config!Selections)
        /\ read \in Config!Partial(Inspections, Config!Selections)
    BY <1>0, PartialSays DEF Config!TypeOK, Config!Selections
  <2> HIDE DEF read
  <2> QED BY <1>d, <2>1, PartialOver, Zenon
<1>2. Config!TypeOK'
  BY <1>d, <1>0, <1>1 DEF Config!TypeOK
<1>3. \A i \in DOMAIN selectedLhas \cup seen :
        /\ i \in DOMAIN selectedLhas'
        /\ selectedLhas'[i] = IF i \in seen THEN "all" ELSE selectedLhas[i]
  BY <1>1 DEF IsOver
<1>4. SelectionHas'
  <2> SUFFICES ASSUME NEW i \in (DOMAIN selectedLhas' \cap DOMAIN storedConfigs) \ raced
               PROVE  \/ selectedLhas'[i] = ConfigHas(i)
                      \/ i \in DOMAIN wanted /\ wanted[i] = "none"
    BY <1>d DEF SelectionHas, ConfigHas
  <2>0. i \in DOMAIN selectedLhas \/ i \in seen
    BY <1>1 DEF IsOver
  <2>1. CASE i \notin seen
    BY <1>3, <2>0, <2>1 DEF ConfigInv, SelectionHas
  <2>2. CASE i \in seen /\ i \in DOMAIN inspectionDirty
    <3>1. i \in DOMAIN wanted /\ wanted[i] = inspectionDirty[i]
      BY <2>2 DEF ConfigInv, EditsKnown, ConfigsKept, ConfigHas
    <3>2. inspectionDirty[i] \in {"all", "none"}
      BY <1>0, <2>2, PartialSays DEF Config!TypeOK, Config!Selections
    <3> QED BY <1>3, <2>0, <2>2, <3>1, <3>2 DEF ConfigHas
  <2>3. CASE i \in seen /\ i \notin DOMAIN inspectionDirty
    BY <1>3, <2>0, <2>3 DEF ConfigHas
  <2> QED BY <2>1, <2>2, <2>3
<1>5. FieldsKept' /\ ConfigsKept' /\ EditsKnown' /\ OneSave'
  BY <1>d, <1>3 DEF ConfigInv, FieldsKept, FieldHas, ConfigsKept, ConfigHas, EditsKnown, OneSave
<1>6. ASSUME NEW o \in ops PROVE OpOK(o)'
  BY <1>d, <1>3 DEF ConfigInv, OpOK, FieldsAgree, ConfigsAgree
<1> QED BY <1>d, <1>2, <1>4, <1>5, <1>6 DEF ConfigInv

\* A click sends one more request, and a save only while no other one runs.
LEMMA SendKeeps ==
  ASSUME ConfigInv, NEW op \in Config!Op, OpOK(op), op.kind = "save" => ~Config!Saving,
         Config!Send(op)
  PROVE  ConfigInv'
<1>d. /\ Cardinality(ops) < MaxOps /\ op \notin ops /\ ops' = ops \cup {op}
      /\ UNCHANGED <<storedFields, storedConfigs, shown, missionDirty, inspectionDirty,
                     selectedLhas, wanted, raced>>
  BY SameCardinality DEF Config!Send, Config!server, Config!edits, Config!history
<1>1. IsFiniteSet(ops') /\ Cardinality(ops') <= MaxOps
  <2>1. IsFiniteSet(ops) /\ Cardinality(ops) \in Nat
    BY FS_CardinalityType DEF ConfigInv
  <2>2. IsFiniteSet(ops \cup {op}) /\ Cardinality(ops \cup {op}) = Cardinality(ops) + 1
    BY <1>d, <2>1, FS_AddElement
  <2> QED BY <1>d, <2>1, <2>2, PagesAssumption DEF Config!ConfigAssumption
<1>2. Config!TypeOK'
  BY <1>d, <1>1, SameCardinality DEF ConfigInv, Config!TypeOK
<1>3. FieldsKept' /\ ConfigsKept' /\ SelectionHas' /\ EditsKnown'
  BY <1>d DEF ConfigInv, FieldsKept, FieldHas, ConfigsKept, ConfigHas, SelectionHas, EditsKnown
<1>4. OneSave'
  BY <1>d DEF ConfigInv, OneSave, Config!Saving
<1>5. ASSUME NEW o \in ops' PROVE OpOK(o)'
  <2>1. OpOK(o)
    BY <1>d DEF ConfigInv
  <2> QED BY <1>d, <2>1 DEF OpOK, FieldsAgree, ConfigsAgree
<1> QED BY <1>1, <1>2, <1>3, <1>4, <1>5 DEF ConfigInv

LEMMA ClickKeeps == ASSUME ConfigInv, Config!Click PROVE ConfigInv'
<1>0. ASSUME NEW kind \in {"add", "change", "remove"}, NEW i \in Inspections \cup {NoPoint},
             kind = "remove" => i \in Inspections, Config!Send(Config!Request(kind, i))
      PROVE  ConfigInv'
  <2> DEFINE op == Config!Request(kind, i)
  <2>1. op \in Config!Op
    BY PartialNothing, Zenon DEF Config!Request, Config!Op, Config!Kinds
  <2>2. OpOK(op)
    BY <1>0, PartialNothing DEF Config!Request, OpOK
  <2>3. op.kind # "save"
    BY DEF Config!Request
  <2> HIDE DEF op
  <2> QED BY <1>0, <2>1, <2>2, <2>3, SendKeeps DEF op
<1>1. CASE Config!handleSave
  <2> DEFINE step == IF missionDirty = Config!Nothing THEN "inspections" ELSE "fields"
             op == [Config!Request("save", NoPoint) EXCEPT
                      !.fields = missionDirty, !.todo = inspectionDirty, !.step = step]
  <2>1. ~Config!Saving /\ Config!Send(op)
    BY <1>1 DEF Config!handleSave
  <2>2. /\ op.kind = "save" /\ op.inspection = NoPoint /\ op.fields = missionDirty
        /\ op.todo = inspectionDirty /\ op.failed = Config!Nothing /\ op.step = step
    BY DEF Config!Request
  <2>3. op \in Config!Op
    <3>1. /\ missionDirty \in Config!Partial(Fields, Config!Values)
          /\ inspectionDirty \in Config!Partial(Inspections, Config!Selections)
          /\ Config!Nothing \in Config!Partial(Inspections, Config!Selections)
      BY PartialNothing DEF ConfigInv, Config!TypeOK
    <3> QED BY <3>1 DEF Config!Request, Config!Op, Config!Kinds
  <2>4. OpOK(op)
    <3> HIDE DEF op
    <3>1. step \in {"fields", "inspections"} /\ DOMAIN op.failed = {}
      BY <2>2, PartialNothing
    <3>2. FieldsAgree(op) /\ ConfigsAgree(op)
      BY <2>2, <3>1 DEF FieldsAgree, ConfigsAgree
    <3> QED BY <2>2, <3>1, <3>2 DEF OpOK, ConfigInv, EditsKnown
  <2> HIDE DEF op
  <2> QED BY <2>1, <2>3, <2>4, SendKeeps
<1>2. CASE Config!handleAddInspection
  BY <1>0, <1>2 DEF Config!handleAddInspection
<1>3. ASSUME NEW i \in Inspections, Config!handleRemoveInspection(i) PROVE ConfigInv'
  BY <1>0, <1>3 DEF Config!handleRemoveInspection
<1>4. CASE Config!handleChange
  BY <1>0, <1>4 DEF Config!handleChange
<1> QED BY <1>1, <1>2, <1>3, <1>4 DEF Config!Click

LEMMA GiveUpKeeps == ASSUME ConfigInv, NEW o \in ops, Config!GiveUp(o) PROVE ConfigInv'
<1>1. o \in Config!Op /\ OpOK(o) /\ shown \subseteq Inspections
  BY DEF ConfigInv, Config!TypeOK
<1>2. /\ ops' = ops \ {o} /\ shown' = shown
      /\ UNCHANGED <<storedFields, storedConfigs, missionDirty, inspectionDirty, selectedLhas,
                     wanted, raced>>
  BY DEF Config!GiveUp, Config!server, Config!edits, Config!history
<1> QED BY <1>1, <1>2, QuietKeeps

\* A request that goes on to another step.
LEMMA QuietSteps ==
  ASSUME ConfigInv, NEW o \in ops
  PROVE  /\ Config!ChangeServed(o) => ConfigInv'
         /\ Config!updateMissionState(o) => ConfigInv'
<1>0. o \in Config!Op /\ OpOK(o) /\ shown \subseteq Inspections
      /\ DOMAIN storedConfigs \subseteq Inspections
  BY Domains DEF ConfigInv, Config!TypeOK
<1>1. ASSUME NEW step \in {"lhas", "read"}, Config!Continue(o, step),
             step = "lhas" => o.kind = "add" /\ o.step = "read",
             o.kind = "add" => o.step = "read",
             shown' \subseteq Inspections,
             UNCHANGED <<storedFields, storedConfigs, missionDirty, inspectionDirty, selectedLhas,
                         wanted, raced>>
      PROVE  ConfigInv'
  <2> DEFINE q == [o EXCEPT !.step = step]
  <2>0. step \in {"fields", "inspections", "send", "lhas", "read"}
    OBVIOUS
  <2>1. /\ q \in Config!Op
        /\ q.step = step /\ q.kind = o.kind /\ q.inspection = o.inspection
        /\ q.fields = o.fields /\ q.todo = o.todo /\ q.failed = o.failed
    BY <1>0, <2>0, NextStep
  <2>2. ops' = (ops \ {o}) \cup {q}
    BY <1>1 DEF Config!Continue
  <2> HIDE DEF q
  <2>3. OpOK(q)
    BY <1>0, <1>1, <2>1 DEF OpOK
  <2> QED BY <1>1, <2>1, <2>2, <2>3, QuietKeeps
<1>2. ASSUME Config!ChangeServed(o) PROVE ConfigInv'
  <2>1. CASE Config!GiveUp(o)
    BY <2>1, GiveUpKeeps
  <2>2. CASE ~Config!GiveUp(o)
    BY <1>0, <1>1, <1>2, <2>2
       DEF Config!ChangeServed, Config!server, Config!edits, Config!history
  <2> QED BY <2>1, <2>2
<1>3. ASSUME Config!updateMissionState(o) PROVE ConfigInv'
  <2>1. CASE Config!GiveUp(o)
    BY <2>1, GiveUpKeeps
  <2>2. CASE ~Config!GiveUp(o)
    <3>1. /\ o.step = "read" /\ shown' = DOMAIN storedConfigs
          /\ IF o.kind = "add" THEN Config!Continue(o, "lhas") ELSE ops' = ops \ {o}
          /\ UNCHANGED <<storedFields, storedConfigs, missionDirty, inspectionDirty, selectedLhas,
                         wanted, raced>>
      BY <1>3, <2>2 DEF Config!updateMissionState, Config!server, Config!edits, Config!history
    <3>2. CASE o.kind = "add"
      BY <1>0, <1>1, <3>1, <3>2
    <3>3. CASE o.kind # "add"
      BY <1>0, <3>1, <3>3, QuietKeeps
    <3> QED BY <3>2, <3>3
  <2> QED BY <2>1, <2>2
<1> QED BY <1>2, <1>3

\* The answer clears the fields: a save has sent all of them but those entered since.
LEMMA SaveFieldsKeeps ==
  ASSUME ConfigInv, NEW o \in ops, Config!SaveFields(o) PROVE ConfigInv'
<1> DEFINE q == [o EXCEPT !.step = "inspections"]
<1>0. o \in Config!Op /\ OpOK(o) /\ o.step = "fields" /\ o.kind = "save" /\ Config!TypeOK
  BY DEF ConfigInv, Config!TypeOK, OpOK, Config!SaveFields
<1>1. CASE Config!GiveUp(o)
  BY <1>1, GiveUpKeeps
<1>2. CASE ~Config!GiveUp(o)
  <2>1. /\ storedFields' = Config!Over(o.fields, storedFields)
        /\ \/ missionDirty' = Config!Nothing /\ ops' = (ops \ {o}) \cup {q}
           \/ missionDirty' = missionDirty /\ ops' = ops \ {o}
        /\ UNCHANGED <<storedConfigs, shown, inspectionDirty, selectedLhas, wanted, raced>>
    BY <1>2 DEF Config!SaveFields, Config!Continue, Config!history
  <2>2. /\ q \in Config!Op /\ q.step = "inspections" /\ q.kind = o.kind
        /\ q.fields = o.fields /\ q.todo = o.todo /\ q.failed = o.failed
        /\ q.inspection = o.inspection
    BY <1>0, NextStep
  <2> HIDE DEF q
  <2>3. /\ storedFields' \in Config!Partial(Fields, Config!Values)
        /\ IsOver(storedFields', o.fields, storedFields)
    <3>1. /\ o.fields \in Config!Partial(Fields, Config!Values)
          /\ storedFields \in Config!Partial(Fields, Config!Values)
      BY <1>0, OpSays, PartialSays DEF Config!TypeOK
    <3> QED BY <2>1, <3>1, PartialOver, Zenon
  <2>4. storedFields' \in [Fields -> Config!Values] /\ DOMAIN o.fields \subseteq Fields
    BY <1>0, <2>3, PartialSays, OpSays DEF IsOver, Config!TypeOK
  <2>5. /\ missionDirty' \in Config!Partial(Fields, Config!Values)
        /\ missionDirty' = missionDirty \/ DOMAIN missionDirty' = {}
    BY <1>0, <2>1, PartialNothing DEF Config!TypeOK
  <2>6. Config!TypeOK' /\ IsFiniteSet(ops') /\ OneSave'
    <3>1. ops' \subseteq Config!Op /\ IsFiniteSet(ops') /\ Config!Cardinality(ops') <= MaxOps
          /\ OneSave'
      BY <2>1, <2>2, Replaced
    <3> QED BY <1>0, <2>1, <2>4, <2>5, <3>1 DEF Config!TypeOK
  <2>7. FieldsKept'
    BY <1>0, <2>1, <2>3, <2>4, <2>5, Domains
       DEF ConfigInv, OpOK, FieldsAgree, FieldsKept, FieldHas, IsOver
  <2>8. ConfigsKept' /\ SelectionHas' /\ EditsKnown'
    BY <2>1 DEF ConfigInv, ConfigsKept, ConfigHas, SelectionHas, EditsKnown
  <2>9. ASSUME NEW p \in ops' PROVE OpOK(p)'
    <3>1. CASE p = q
      BY <1>0, <2>1, <2>2, <3>1 DEF OpOK, ConfigsAgree
    <3>2. CASE p \in ops \ {o}
      <4>1. OpOK(p) /\ p.kind # "save"
        BY <1>0, <3>2 DEF ConfigInv, OneSave
      <4> QED BY <2>1, <4>1 DEF OpOK
    <3> QED BY <2>1, <3>1, <3>2
  <2> QED BY <2>6, <2>7, <2>8, <2>9 DEF ConfigInv
<1> QED BY <1>1, <1>2

\* What failed stays unsaved, and what is dropped is what the server has.
LEMMA SavedInspectionsKeeps ==
  ASSUME ConfigInv, NEW o \in ops, Config!SavedInspections(o) PROVE ConfigInv'
<1> DEFINE q == [o EXCEPT !.step = "read"]
<1>0. /\ o \in Config!Op /\ OpOK(o) /\ o.step = "inspections" /\ o.kind = "save"
      /\ Config!TypeOK /\ o.todo = Config!Nothing
  BY DEF ConfigInv, Config!TypeOK, OpOK, Config!SavedInspections
<1>1. /\ inspectionDirty' = o.failed /\ ops' = (ops \ {o}) \cup {q}
      /\ UNCHANGED <<storedFields, storedConfigs, shown, missionDirty, selectedLhas, wanted, raced>>
  BY DEF Config!SavedInspections, Config!Continue, Config!server, Config!history
<1>2. /\ q \in Config!Op /\ q.step = "read" /\ q.kind = o.kind /\ q.inspection = o.inspection
      /\ q.fields = o.fields /\ q.todo = o.todo /\ q.failed = o.failed
  BY <1>0, NextStep
<1> HIDE DEF q
<1>3. /\ DOMAIN o.todo = {} /\ DOMAIN o.failed \subseteq Inspections
      /\ o.failed \in Config!Partial(Inspections, Config!Selections)
  BY <1>0, PartialNothing, OpSays
<1>4. Config!TypeOK' /\ IsFiniteSet(ops') /\ OneSave'
  <2>1. ops' \subseteq Config!Op /\ IsFiniteSet(ops') /\ Config!Cardinality(ops') <= MaxOps
        /\ OneSave'
    BY <1>1, <1>2, Replaced
  <2> QED BY <1>0, <1>1, <1>3, <2>1 DEF Config!TypeOK
<1>5. \A i \in DOMAIN storedConfigs \ raced : ConfigHas(i)' = ConfigHas(i)
  BY <1>0, <1>1, <1>3 DEF OpOK, ConfigsAgree, ConfigHas
<1>6. FieldsKept' /\ ConfigsKept' /\ SelectionHas'
  BY <1>1, <1>5 DEF ConfigInv, FieldsKept, FieldHas, ConfigsKept, SelectionHas
<1>7. EditsKnown'
  BY <1>0, <1>1 DEF ConfigInv, OpOK, EditsKnown
<1>8. ASSUME NEW p \in ops' PROVE OpOK(p)'
  <2>1. CASE p = q
    BY <1>0, <1>1, <1>2, <2>1 DEF OpOK
  <2>2. CASE p \in ops \ {o}
    <3>1. OpOK(p) /\ p.kind # "save"
      BY <1>0, <2>2 DEF ConfigInv, OneSave
    <3> QED BY <1>1, <3>1 DEF OpOK
  <2> QED BY <1>1, <2>1, <2>2
<1> QED BY <1>4, <1>6, <1>7, <1>8 DEF ConfigInv

\* A save that has sent one inspection more, without and with its failure.
LEMMA OneLess ==
  ASSUME NEW o \in Config!Op, NEW i \in DOMAIN o.todo
  PROVE  LET rest == [o EXCEPT !.todo = Config!Without(o.todo, i)]
             kept == [rest EXCEPT !.failed = Config!With(o.failed, i, o.todo[i])]
         IN  /\ rest \in Config!Op /\ kept \in Config!Op
             /\ rest.step = o.step /\ rest.kind = o.kind /\ rest.inspection = o.inspection
             /\ IsWithout(rest.todo, o.todo, i) /\ rest.failed = o.failed
             /\ kept.step = o.step /\ kept.kind = o.kind /\ kept.inspection = o.inspection
             /\ IsWithout(kept.todo, o.todo, i) /\ IsWith(kept.failed, o.failed, i, o.todo[i])
<1> DEFINE less == Config!Without(o.todo, i)
           more == Config!With(o.failed, i, o.todo[i])
<1>1. /\ o.todo \in Config!Partial(Inspections, Config!Selections)
      /\ o.failed \in Config!Partial(Inspections, Config!Selections)
      /\ i \in Inspections /\ o.todo[i] \in Config!Selections
  BY OpSays, PartialSays
<1>2. less \in Config!Partial(Inspections, Config!Selections) /\ IsWithout(less, o.todo, i)
  BY <1>1, PartialWithout, Zenon
<1>3. /\ more \in Config!Partial(Inspections, Config!Selections)
      /\ IsWith(more, o.failed, i, o.todo[i])
  BY <1>1, PartialWith
<1> HIDE DEF less, more
<1> DEFINE rest == [o EXCEPT !.todo = less]
           kept == [rest EXCEPT !.failed = more]
<1>4. /\ rest \in Config!Op
      /\ rest.step = o.step /\ rest.kind = o.kind /\ rest.inspection = o.inspection
      /\ rest.todo = less /\ rest.failed = o.failed
  BY <1>2 DEF Config!Op
<1>5. /\ kept \in Config!Op
      /\ kept.step = o.step /\ kept.kind = o.kind /\ kept.inspection = o.inspection
      /\ kept.todo = less /\ kept.failed = more
  <2> HIDE DEF rest
  <2> QED BY <1>3, <1>4 DEF Config!Op
<1> QED BY <1>2, <1>3, <1>4, <1>5 DEF less, more

\* The server gets what is unsaved here, or keeps it with the page.
LEMMA SaveInspectionKeeps ==
  ASSUME ConfigInv, NEW o \in ops, Config!SaveInspection(o) PROVE ConfigInv'
<1>0. /\ o \in Config!Op /\ OpOK(o) /\ o.step = "inspections" /\ o.kind = "save"
      /\ Config!TypeOK /\ ConfigsAgree(o)
  BY DEF ConfigInv, Config!TypeOK, OpOK, Config!SaveInspection
<1> DEFINE rest(i) == [o EXCEPT !.todo = Config!Without(o.todo, i)]
           kept(i) == [rest(i) EXCEPT !.failed = Config!With(o.failed, i, o.todo[i])]
<1>1. PICK i \in DOMAIN o.todo :
        \/ /\ i \in DOMAIN storedConfigs
           /\ storedConfigs' = Config!With(storedConfigs, i, o.todo[i])
           /\ ops' = (ops \ {o}) \cup {rest(i)} \/ ops' = (ops \ {o}) \cup {kept(i)}
           /\ UNCHANGED storedFields
        \/ ops' = (ops \ {o}) \cup {kept(i)} /\ UNCHANGED Config!server
  BY DEF Config!SaveInspection
<1>2. UNCHANGED <<storedFields, shown, missionDirty, inspectionDirty, selectedLhas, wanted, raced>>
  BY <1>1 DEF Config!SaveInspection, Config!server, Config!edits, Config!history
<1> DEFINE r == rest(i)
           k == kept(i)
<1>3. /\ r \in Config!Op /\ k \in Config!Op
      /\ r.step = o.step /\ r.kind = o.kind /\ r.inspection = o.inspection
      /\ IsWithout(r.todo, o.todo, i) /\ r.failed = o.failed
      /\ k.step = o.step /\ k.kind = o.kind /\ k.inspection = o.inspection
      /\ IsWithout(k.todo, o.todo, i) /\ IsWith(k.failed, o.failed, i, o.todo[i])
  BY <1>0, OneLess
<1>4. PICK q \in {r, k} :
        /\ ops' = (ops \ {o}) \cup {q}
        /\ \/ /\ i \in DOMAIN storedConfigs
              /\ storedConfigs' = Config!With(storedConfigs, i, o.todo[i])
           \/ q = k /\ storedConfigs' = storedConfigs
  BY <1>1 DEF Config!server
<1> HIDE DEF r, k
<1>5. /\ storedConfigs' \in Config!Partial(Inspections, Config!Selections)
      /\ \/ i \in DOMAIN storedConfigs /\ IsWith(storedConfigs', storedConfigs, i, o.todo[i])
         \/ q = k /\ storedConfigs' = storedConfigs
  <2>1. /\ storedConfigs \in Config!Partial(Inspections, Config!Selections)
        /\ i \in Inspections /\ o.todo[i] \in Config!Selections
    BY <1>0, OpSays, PartialSays DEF Config!TypeOK
  <2>2. CASE storedConfigs' = Config!With(storedConfigs, i, o.todo[i])
    <3>1. /\ storedConfigs' \in Config!Partial(Inspections, Config!Selections)
          /\ IsWith(storedConfigs', storedConfigs, i, o.todo[i])
      BY <2>1, <2>2, PartialWith
    <3> QED BY <1>4, <3>1
  <2> QED BY <1>4, <2>1, <2>2
<1>6. Config!TypeOK' /\ IsFiniteSet(ops') /\ OneSave'
  <2>1. ops' \subseteq Config!Op /\ IsFiniteSet(ops') /\ Config!Cardinality(ops') <= MaxOps
        /\ OneSave'
    BY <1>3, <1>4, Replaced
  <2> QED BY <1>0, <1>2, <1>5, <2>1 DEF Config!TypeOK
<1>7. /\ DOMAIN storedConfigs' = DOMAIN storedConfigs
      /\ \A j \in DOMAIN storedConfigs : j # i => storedConfigs'[j] = storedConfigs[j]
      /\ i \in DOMAIN storedConfigs => storedConfigs'[i] \in {storedConfigs[i], o.todo[i]}
  BY <1>5 DEF IsWith
<1>8. i \in DOMAIN storedConfigs \ raced =>
        i \in DOMAIN inspectionDirty /\ inspectionDirty[i] = o.todo[i]
  BY <1>0 DEF ConfigsAgree
<1>9. \A j \in DOMAIN storedConfigs \ raced : ConfigHas(j)' = ConfigHas(j)
  BY <1>2, <1>7, <1>8 DEF ConfigHas
<1>10. FieldsKept' /\ ConfigsKept' /\ SelectionHas' /\ EditsKnown'
  BY <1>2, <1>7, <1>9
     DEF ConfigInv, FieldsKept, FieldHas, ConfigsKept, SelectionHas, EditsKnown
<1>11. DOMAIN q.todo \subseteq DOMAIN o.todo /\ DOMAIN q.failed \subseteq DOMAIN o.failed \cup {i}
  BY <1>3 DEF IsWith, IsWithout
<1>12. ConfigsAgree(q)'
  <2> SUFFICES ASSUME NEW j \in DOMAIN storedConfigs \ raced
               PROVE  /\ j \in DOMAIN q.todo =>
                           j \in DOMAIN inspectionDirty /\ inspectionDirty[j] = q.todo[j]
                      /\ j \in DOMAIN q.failed =>
                           j \in DOMAIN inspectionDirty /\ inspectionDirty[j] = q.failed[j]
                      /\ j \in DOMAIN inspectionDirty \ (DOMAIN q.todo \cup DOMAIN q.failed)
                           => storedConfigs'[j] = inspectionDirty[j]
    BY <1>2, <1>7 DEF ConfigsAgree
  <2>1. CASE j # i
    BY <1>0, <1>3, <1>7, <2>1 DEF ConfigsAgree, IsWith, IsWithout
  <2>2. CASE j = i /\ q = k
    BY <1>3, <1>8, <2>2 DEF IsWith, IsWithout
  <2>3. CASE j = i /\ q # k
    BY <1>0, <1>3, <1>5, <1>8, <2>3 DEF ConfigsAgree, IsWith, IsWithout
  <2> QED BY <2>1, <2>2, <2>3
<1>13. ASSUME NEW p \in ops' PROVE OpOK(p)'
  <2>1. CASE p = q
    BY <1>0, <1>2, <1>3, <1>7, <1>11, <1>12, <2>1 DEF OpOK
  <2>2. CASE p \in ops \ {o}
    <3>1. OpOK(p) /\ p.kind # "save"
      BY <1>0, <2>2 DEF ConfigInv, OneSave
    <3> QED BY <1>2, <1>7, <3>1 DEF OpOK
  <2> QED BY <1>4, <2>1, <2>2
<1> QED BY <1>6, <1>10, <1>13 DEF ConfigInv

\* The id of a new inspection is one the page has never shown.
LEMMA AddServedKeeps ==
  ASSUME ConfigInv, NEW o \in ops, Config!AddServed(o) PROVE ConfigInv'
<1>0. /\ o \in Config!Op /\ OpOK(o) /\ o.step = "send" /\ o.kind = "add" /\ Config!TypeOK
  BY DEF ConfigInv, Config!TypeOK, Config!AddServed
<1>1. CASE Config!GiveUp(o)
  BY <1>1, GiveUpKeeps
<1>2. CASE ~Config!GiveUp(o)
  <2>1. PICK i \in Inspections \ (DOMAIN storedConfigs \cup DOMAIN selectedLhas) :
          /\ storedConfigs' = Config!With(storedConfigs, i, "none")
          /\ \/ ops' = (ops \ {o}) \cup {[o EXCEPT !.inspection = i, !.step = "read"]}
             \/ ops' = ops \ {o}
    BY <1>2 DEF Config!AddServed
  <2>2. UNCHANGED <<storedFields, shown, missionDirty, inspectionDirty, selectedLhas, wanted, raced>>
    BY <1>2 DEF Config!AddServed, Config!edits, Config!history
  <2> DEFINE q == [o EXCEPT !.inspection = i, !.step = "read"]
  <2>3. /\ q \in Config!Op /\ q.step = "read" /\ q.kind = "add" /\ q.inspection = i
        /\ q.todo = o.todo /\ q.failed = o.failed
    BY <1>0 DEF Config!Op
  <2>4. ops' = ops \ {o} \/ ops' = (ops \ {o}) \cup {q}
    BY <2>1
  <2> HIDE DEF q
  <2>5. /\ storedConfigs' \in Config!Partial(Inspections, Config!Selections)
        /\ IsWith(storedConfigs', storedConfigs, i, "none")
    <3>1. /\ storedConfigs \in Config!Partial(Inspections, Config!Selections)
          /\ "none" \in Config!Selections
      BY <1>0 DEF Config!TypeOK, Config!Selections
    <3> QED BY <2>1, <3>1, PartialWith
  <2>6. Config!TypeOK' /\ IsFiniteSet(ops') /\ OneSave'
    <3>1. ops' \subseteq Config!Op /\ IsFiniteSet(ops') /\ Config!Cardinality(ops') <= MaxOps
          /\ OneSave'
      BY <1>0, <2>3, <2>4, Replaced
    <3> QED BY <1>0, <2>2, <2>5, <3>1 DEF Config!TypeOK
  <2>7. /\ i \notin DOMAIN wanted /\ i \notin DOMAIN inspectionDirty
        /\ i \notin DOMAIN selectedLhas /\ i \notin DOMAIN storedConfigs
    BY <2>1 DEF ConfigInv, EditsKnown
  <2>8. /\ DOMAIN storedConfigs' = DOMAIN storedConfigs \cup {i}
        /\ \A j \in DOMAIN storedConfigs : storedConfigs'[j] = storedConfigs[j]
    BY <2>5, <2>7 DEF IsWith
  <2>9. FieldsKept' /\ ConfigsKept' /\ SelectionHas' /\ EditsKnown'
    BY <2>2, <2>7, <2>8
       DEF ConfigInv, FieldsKept, FieldHas, ConfigsKept, ConfigHas, SelectionHas, EditsKnown
  <2>10. ASSUME NEW p \in ops' PROVE OpOK(p)'
    <3>1. CASE p = q
      BY <1>0, <2>2, <2>3, <2>7, <2>8, <3>1 DEF OpOK
    <3>2. CASE p \in ops \ {o}
      <4>1. OpOK(p)
        BY <3>2 DEF ConfigInv
      <4>2. p.step = "fields" => FieldsAgree(p)'
        BY <2>2, <4>1 DEF OpOK, FieldsAgree
      <4>3. p.step \in {"fields", "inspections"} => ConfigsAgree(p)'
        BY <2>2, <2>7, <2>8, <4>1 DEF OpOK, ConfigsAgree
      <4> QED BY <2>2, <2>7, <2>8, <4>1, <4>2, <4>3 DEF OpOK
    <3> QED BY <2>4, <3>1, <3>2
  <2> QED BY <2>6, <2>9, <2>10 DEF ConfigInv
<1> QED BY <1>1, <1>2

\* The default selection of a new inspection, unless the operator was faster.
LEMMA AddSelectsKeeps ==
  ASSUME ConfigInv, NEW o \in ops, Config!AddSelects(o) PROVE ConfigInv'
<1> DEFINE i == o.inspection
<1>0. /\ o \in Config!Op /\ OpOK(o) /\ o.step = "lhas" /\ Config!TypeOK
      /\ i \in Inspections
  BY DEF ConfigInv, Config!TypeOK, Config!AddSelects, OpOK
<1>1. /\ \/ /\ i \in DOMAIN storedConfigs
            /\ storedConfigs' = Config!With(storedConfigs, i, "all")
            /\ raced' = raced \cup ({i} \cap DOMAIN wanted)
         \/ storedConfigs' = storedConfigs /\ raced' = raced \cup {i}
      /\ selectedLhas' = Config!With(selectedLhas, i, "all")
      /\ ops' = ops \ {o}
      /\ UNCHANGED <<storedFields, shown, missionDirty, inspectionDirty, wanted>>
  BY DEF Config!AddSelects, Config!server
<1> HIDE DEF i
<1>2. /\ storedConfigs' \in Config!Partial(Inspections, Config!Selections)
      /\ selectedLhas' \in Config!Partial(Inspections, Config!Selections)
      /\ IsWith(selectedLhas', selectedLhas, i, "all")
      /\ \/ /\ i \in DOMAIN storedConfigs /\ IsWith(storedConfigs', storedConfigs, i, "all")
            /\ raced' = raced \cup ({i} \cap DOMAIN wanted)
         \/ storedConfigs' = storedConfigs /\ raced' = raced \cup {i}
  <2>1. /\ storedConfigs \in Config!Partial(Inspections, Config!Selections)
        /\ selectedLhas \in Config!Partial(Inspections, Config!Selections)
        /\ "all" \in Config!Selections
    BY <1>0 DEF Config!TypeOK, Config!Selections
  <2>2. /\ selectedLhas' \in Config!Partial(Inspections, Config!Selections)
        /\ IsWith(selectedLhas', selectedLhas, i, "all")
    BY <1>0, <1>1, <2>1, PartialWith
  <2>3. CASE storedConfigs' = storedConfigs /\ raced' = raced \cup {i}
    BY <2>1, <2>2, <2>3
  <2>4. CASE /\ i \in DOMAIN storedConfigs
             /\ storedConfigs' = Config!With(storedConfigs, i, "all")
             /\ raced' = raced \cup ({i} \cap DOMAIN wanted)
    <3>1. /\ storedConfigs' \in Config!Partial(Inspections, Config!Selections)
          /\ IsWith(storedConfigs', storedConfigs, i, "all")
      BY <1>0, <2>1, <2>4, PartialWith
    <3> QED BY <2>2, <2>4, <3>1
  <2> QED BY <1>1, <2>3, <2>4
<1>3. Config!TypeOK' /\ IsFiniteSet(ops') /\ OneSave'
  <2>1. ops' \subseteq Config!Op /\ IsFiniteSet(ops') /\ Config!Cardinality(ops') <= MaxOps
        /\ OneSave'
    BY <1>0, <1>1, Replaced
  <2>2. raced' \subseteq Fields \cup Inspections
    BY <1>0, <1>2 DEF Config!TypeOK
  <2> QED BY <1>0, <1>1, <1>2, <2>1, <2>2 DEF Config!TypeOK
<1>4. /\ DOMAIN storedConfigs' = DOMAIN storedConfigs
      /\ \A j \in DOMAIN storedConfigs : j # i => storedConfigs'[j] = storedConfigs[j]
      /\ DOMAIN selectedLhas' = DOMAIN selectedLhas \cup {i}
      /\ \A j \in DOMAIN selectedLhas : j # i => selectedLhas'[j] = selectedLhas[j]
      /\ selectedLhas'[i] = "all"
      /\ \A j : j # i => (j \in raced' <=> j \in raced)
      /\ i \in DOMAIN wanted => i \in raced'
      /\ i \notin raced' => i \in DOMAIN storedConfigs /\ storedConfigs'[i] = "all"
  BY <1>2 DEF IsWith
<1>5. i \in DOMAIN storedConfigs \ raced' => i \notin DOMAIN wanted /\ i \notin DOMAIN inspectionDirty
  BY <1>4 DEF ConfigInv, EditsKnown
<1>6. \A k \in Fields : k \in raced' <=> k \in raced
  BY <1>0, <1>4, Domains
<1>7. FieldsKept'
  BY <1>1, <1>6 DEF ConfigInv, FieldsKept, FieldHas
<1>8. ConfigsKept' /\ SelectionHas' /\ EditsKnown'
  <2>1. ConfigsKept'
    BY <1>1, <1>4, <1>5 DEF ConfigInv, ConfigsKept, ConfigHas
  <2>2. SelectionHas'
    BY <1>1, <1>4, <1>5 DEF ConfigInv, SelectionHas, ConfigHas
  <2> QED BY <1>1, <1>4, <2>1, <2>2 DEF ConfigInv, EditsKnown
<1>9. ASSUME NEW p \in ops' PROVE OpOK(p)'
  <2>1. OpOK(p)
    BY <1>1 DEF ConfigInv
  <2>2. p.step = "fields" => FieldsAgree(p)'
    BY <1>1, <1>6, <2>1 DEF OpOK, FieldsAgree
  <2>3. p.step \in {"fields", "inspections"} => ConfigsAgree(p)'
    BY <1>1, <1>4, <1>5, <2>1 DEF OpOK, ConfigsAgree
  <2> QED BY <1>1, <1>4, <2>1, <2>2, <2>3 DEF OpOK
<1> QED BY <1>3, <1>7, <1>8, <1>9 DEF ConfigInv

\* What is entered for an inspection goes with it.
LEMMA RemoveServedKeeps ==
  ASSUME ConfigInv, NEW o \in ops, Config!RemoveServed(o) PROVE ConfigInv'
<1> DEFINE i == o.inspection
           q == [o EXCEPT !.step = "read"]
<1>0. /\ o \in Config!Op /\ OpOK(o) /\ o.step = "send" /\ o.kind = "remove" /\ Config!TypeOK
  BY DEF ConfigInv, Config!TypeOK, Config!RemoveServed
<1>1. CASE Config!GiveUp(o)
  BY <1>1, GiveUpKeeps
<1>2. CASE ~Config!GiveUp(o)
  <2>1. /\ i \in DOMAIN storedConfigs
        /\ storedConfigs' = Config!Without(storedConfigs, i)
        /\ \/ inspectionDirty' = Config!Without(inspectionDirty, i) /\ ops' = (ops \ {o}) \cup {q}
           \/ inspectionDirty' = inspectionDirty /\ ops' = ops \ {o}
        /\ wanted' = Config!Without(wanted, i)
        /\ UNCHANGED <<storedFields, shown, missionDirty, selectedLhas, raced>>
    BY <1>2 DEF Config!RemoveServed, Config!Continue
  <2>2. /\ q \in Config!Op /\ q.step = "read" /\ q.kind = o.kind /\ q.inspection = o.inspection
        /\ q.todo = o.todo /\ q.failed = o.failed
    BY <1>0, NextStep
  <2> HIDE DEF i, q
  <2>3. /\ storedConfigs \in Config!Partial(Inspections, Config!Selections)
        /\ inspectionDirty \in Config!Partial(Inspections, Config!Selections)
        /\ wanted \in Config!Partial(Fields \cup Inspections, Config!Values \cup Config!Selections)
    BY <1>0 DEF Config!TypeOK
  <2>4. /\ storedConfigs' \in Config!Partial(Inspections, Config!Selections)
        /\ IsWithout(storedConfigs', storedConfigs, i)
    BY <2>1, <2>3, PartialWithout
  <2>5. /\ wanted' \in Config!Partial(Fields \cup Inspections, Config!Values \cup Config!Selections)
        /\ IsWithout(wanted', wanted, i)
    BY <2>1, <2>3, PartialWithout, Zenon
  <2>6. /\ inspectionDirty' \in Config!Partial(Inspections, Config!Selections)
        /\ \/ inspectionDirty' = inspectionDirty
           \/ IsWithout(inspectionDirty', inspectionDirty, i)
    <3>1. CASE inspectionDirty' = inspectionDirty
      BY <2>3, <3>1
    <3>2. CASE inspectionDirty' = Config!Without(inspectionDirty, i)
      BY <2>3, <3>2, PartialWithout
    <3> QED BY <2>1, <3>1, <3>2
  <2>7. Config!TypeOK' /\ IsFiniteSet(ops') /\ OneSave'
    <3>1. ops' \subseteq Config!Op /\ IsFiniteSet(ops') /\ Config!Cardinality(ops') <= MaxOps
          /\ OneSave'
      BY <2>1, <2>2, Replaced
    <3> QED BY <1>0, <2>1, <2>4, <2>5, <2>6, <3>1 DEF Config!TypeOK
  <2>8. i \in Inspections /\ i \notin Fields
    BY <1>0, <2>1, Domains
  <2>9. /\ DOMAIN storedConfigs' = DOMAIN storedConfigs \ {i}
        /\ \A j \in DOMAIN storedConfigs' : storedConfigs'[j] = storedConfigs[j]
        /\ DOMAIN wanted' = DOMAIN wanted \ {i}
        /\ \A j \in DOMAIN wanted' : wanted'[j] = wanted[j]
        /\ DOMAIN inspectionDirty' \subseteq DOMAIN inspectionDirty
        /\ \A j \in DOMAIN inspectionDirty \ {i} :
             j \in DOMAIN inspectionDirty' /\ inspectionDirty'[j] = inspectionDirty[j]
    BY <2>4, <2>5, <2>6 DEF IsWithout
  <2>10. FieldsKept'
    BY <2>1, <2>8, <2>9 DEF ConfigInv, FieldsKept, FieldHas
  <2>11. ConfigsKept' /\ SelectionHas' /\ EditsKnown'
    <3>1. \A j \in DOMAIN storedConfigs' : ConfigHas(j)' = ConfigHas(j) /\ j # i
      BY <2>9 DEF ConfigHas
    <3> QED BY <2>1, <2>9, <3>1 DEF ConfigInv, ConfigsKept, SelectionHas, EditsKnown
  <2>12. ASSUME NEW p \in ops' PROVE OpOK(p)'
    <3>1. CASE p = q
      BY <1>0, <2>1, <2>2, <2>9, <3>1 DEF OpOK
    <3>2. CASE p \in ops \ {o}
      <4>1. OpOK(p)
        BY <3>2 DEF ConfigInv
      <4>2. p.step = "fields" => FieldsAgree(p)'
        BY <2>1, <4>1 DEF OpOK, FieldsAgree
      <4>3. p.step \in {"fields", "inspections"} => ConfigsAgree(p)'
        BY <2>1, <2>9, <4>1 DEF OpOK, ConfigsAgree
      <4> QED BY <2>1, <2>9, <4>1, <4>2, <4>3 DEF OpOK
    <3> QED BY <2>1, <3>1, <3>2
  <2> QED BY <2>7, <2>10, <2>11, <2>12 DEF ConfigInv
<1> QED BY <1>1, <1>2

LEMMA ConfigKeeps == ASSUME ConfigInv, Config!Next PROVE ConfigInv'
<1>1. CASE Config!Edit
  BY <1>1, FieldInputKeeps, handleToggleLhaKeeps, confirmDiscardKeeps, fetchDataKeeps
     DEF Config!Edit
<1>2. CASE Config!Click
  BY <1>2, ClickKeeps
<1>3. ASSUME NEW o \in ops, Config!Step(o) PROVE ConfigInv'
  BY <1>3, SaveFieldsKeeps, SaveInspectionKeeps, SavedInspectionsKeeps, AddServedKeeps,
     AddSelectsKeeps, RemoveServedKeeps, QuietSteps DEF Config!Step
<1> QED BY <1>1, <1>2, <1>3 DEF Config!Next

-----------------------------------------------------------------------------
(* Waypoints on the map *)

\* A move leads from one set of unsaved positions to another, and its undo back.
Leads(d, move, e) ==
  e = Waypoint!With(d, move.waypoint, move.new) /\ d = Waypoint!applyWaypointUndo(e, move)

\* The unsaved positions before and after every move of the two stacks.
IsHistory(h) ==
  /\ h \in [0..(Len(past) + Len(future)) -> Waypoint!Unsaved]
  /\ h[Len(past)] = dirty
  /\ \A n \in 1..Len(past) : Leads(h[n - 1], past[n], h[n])
  /\ \A n \in 1..Len(future) : Leads(h[Len(past) + n - 1], future[n], h[Len(past) + n])
  /\ ~truncated => h[0] = Waypoint!Nothing

\* The plan on the page, the unsaved moves and their history, and nothing else.
EditsInv ==
  /\ plan \subseteq Waypoints /\ planFrom \in Waypoint!Kinds \cup {"load"}
  /\ dirty \in Waypoint!Unsaved
  /\ past \in Seq(Waypoint!Move) /\ future \in Seq(Waypoint!Move)
  /\ Len(past) + Len(future) <= MaxSteps
  /\ truncated \in BOOLEAN
  /\ Waypoint!EditsWithinPlan
  /\ \E h : IsHistory(h)

\* Where the mouse is, and what is on its way to the server and back.
RequestsInv ==
  /\ stored \subseteq Waypoints /\ issued \subseteq Waypoints
  /\ button \in BOOLEAN /\ pan \in BOOLEAN /\ dragged \in Waypoints \cup {NoWaypoint}
  /\ requests \subseteq Waypoint!Request

WaypointInv == EditsInv /\ RequestsInv

LEMMA WaypointsTyped == ASSUME WaypointInv PROVE Waypoint!TypeOK
<1>1. Len(past) \in Nat /\ Len(future) \in Nat /\ MaxSteps \in Nat
  BY PagesAssumption DEF WaypointInv, EditsInv, Waypoint!EditingAssumption
<1>2. Len(past) <= MaxSteps /\ Len(future) <= MaxSteps
  BY <1>1 DEF WaypointInv, EditsInv
<1> QED BY <1>2 DEF WaypointInv, EditsInv, RequestsInv, Waypoint!TypeOK

LEMMA UnsavedSays ==
  ASSUME NEW d
  PROVE  d \in Waypoint!Unsaved <=>
           /\ d = [w \in DOMAIN d |-> d[w]] /\ DOMAIN d \subseteq Waypoints
           /\ \A w \in DOMAIN d : d[w] \in Positions \cup {Saved}
BY DEF Waypoint!Unsaved

LEMMA NothingUnsaved ==
  /\ Waypoint!Nothing \in Waypoint!Unsaved /\ DOMAIN Waypoint!Nothing = {}
  /\ \A d \in Waypoint!Unsaved : DOMAIN d = {} => d = Waypoint!Nothing
<1>1. DOMAIN Waypoint!Nothing = {} /\ Waypoint!Nothing = [w \in {} |-> Waypoint!Nothing[w]]
  BY DEF Waypoint!Nothing
<1>2. Waypoint!Nothing \in Waypoint!Unsaved
  BY <1>1, UnsavedSays
<1>3. ASSUME NEW d \in Waypoint!Unsaved, DOMAIN d = {}
      PROVE  d = Waypoint!Nothing
  <2>1. d = [w \in {} |-> d[w]]
    BY <1>3, UnsavedSays
  <2> QED BY <2>1 DEF Waypoint!Nothing
<1> QED BY <1>1, <1>2, <1>3

\* A waypoint set to a position, and taken out again or put back where it was.
LEMMA DragLeads ==
  ASSUME NEW d \in Waypoint!Unsaved, NEW w \in Waypoints, NEW p \in Positions,
         NEW had \in BOOLEAN, had <=> w \in DOMAIN d,
         NEW old, old = IF w \in DOMAIN d THEN d[w] ELSE Saved
  PROVE  LET move == [waypoint |-> w, old |-> old, new |-> p, hadDirtyBefore |-> had]
         IN  /\ move \in Waypoint!Move /\ Waypoint!With(d, w, p) \in Waypoint!Unsaved
             /\ DOMAIN Waypoint!With(d, w, p) = DOMAIN d \cup {w}
             /\ Leads(d, move, Waypoint!With(d, w, p))
<1> DEFINE move == [waypoint |-> w, old |-> old, new |-> p, hadDirtyBefore |-> had]
           e == Waypoint!With(d, w, p)
<1>1. /\ d = [x \in DOMAIN d |-> d[x]] /\ DOMAIN d \subseteq Waypoints
      /\ \A x \in DOMAIN d : d[x] \in Positions \cup {Saved}
  BY UnsavedSays
<1>2. /\ e \in Waypoint!Unsaved /\ DOMAIN e = DOMAIN d \cup {w}
      /\ \A x \in DOMAIN e : e[x] = IF x = w THEN p ELSE d[x]
  BY <1>1, UnsavedSays DEF Waypoint!With
<1>3. move \in Waypoint!Move
  <2>1. old \in Positions \cup {Saved}
    BY <1>1
  <2> QED BY <2>1 DEF Waypoint!Move
<1>4. d = Waypoint!applyWaypointUndo(e, move)
  <2> HIDE DEF e
  <2>1. CASE had
    <3>1. d = Waypoint!With(e, w, old)
      BY <1>1, <1>2, <2>1 DEF Waypoint!With
    <3> QED BY <2>1, <3>1 DEF Waypoint!applyWaypointUndo
  <2>2. CASE ~had
    <3>1. d = Waypoint!Without(e, w)
      BY <1>1, <1>2, <2>2 DEF Waypoint!Without
    <3> QED BY <2>2, <3>1 DEF Waypoint!applyWaypointUndo
  <2> QED BY <2>1, <2>2
<1> QED BY <1>2, <1>3, <1>4 DEF Leads

LEMMA WaypointsStart == ASSUME Waypoint!Init PROVE WaypointInv
<1> USE DEF Waypoint!Init
<1>0. MaxSteps \in Nat /\ DOMAIN dirty = {}
  BY PagesAssumption, NothingUnsaved DEF Waypoint!EditingAssumption
<1>1. Waypoint!TypeOK
  <2>1. past \in Seq(Waypoint!Move) /\ future \in Seq(Waypoint!Move)
    OBVIOUS
  <2>2. Len(past) <= MaxSteps /\ Len(future) <= MaxSteps
    BY <1>0
  <2>3. dirty \in Waypoint!Unsaved /\ requests \subseteq Waypoint!Request
    BY NothingUnsaved
  <2>4. truncated \in BOOLEAN /\ button \in BOOLEAN /\ pan \in BOOLEAN
    OBVIOUS
  <2> QED BY <2>1, <2>2, <2>3, <2>4 DEF Waypoint!TypeOK
<1>2. Waypoint!EditsWithinPlan
  BY <1>0 DEF Waypoint!EditsWithinPlan
<1>3. IsHistory([n \in 0..0 |-> Waypoint!Nothing])
  BY NothingUnsaved DEF IsHistory
<1>4. Len(past) + Len(future) <= MaxSteps
  BY <1>0
<1> QED BY <1>1, <1>2, <1>3, <1>4 DEF WaypointInv, EditsInv, RequestsInv, Waypoint!TypeOK

\* The stacks are short enough to take a move from one to the other.
LEMMA StacksTyped ==
  ASSUME WaypointInv
  PROVE  /\ past \in Seq(Waypoint!Move) /\ future \in Seq(Waypoint!Move)
         /\ Len(past) \in Nat /\ Len(future) \in Nat /\ MaxSteps \in Nat \ {0}
         /\ Len(past) <= MaxSteps /\ Len(past) + Len(future) <= MaxSteps
         /\ truncated \in BOOLEAN /\ plan \subseteq Waypoints /\ dirty \in Waypoint!Unsaved
         /\ DOMAIN dirty \subseteq Waypoints
BY WaypointsTyped, PagesAssumption, UnsavedSays
   DEF WaypointInv, EditsInv, Waypoint!TypeOK, Waypoint!EditingAssumption

\* Undo takes the last move from one stack to the other and the positions back before it.
LEMMA handleUndoKeeps ==
  ASSUME WaypointInv, Waypoint!handleUndo
  PROVE  /\ past' \in Seq(Waypoint!Move) /\ future' \in Seq(Waypoint!Move)
         /\ Len(past') + Len(future') <= MaxSteps /\ dirty' \in Waypoint!Unsaved
         /\ Waypoint!EditsWithinPlan'
         /\ (\E h : IsHistory(h))'
<1> DEFINE L == Len(past)
           move == past[L]
           popped == SubSeq(past, 1, L - 1)
           pushed == <<move>> \o future
<1>1. PICK h : IsHistory(h)
  BY DEF WaypointInv, EditsInv
<1>2. /\ past # <<>> /\ past' = popped /\ future' = Waypoint!FirstSteps(pushed)
      /\ dirty' = Waypoint!applyWaypointUndo(dirty, move)
      /\ UNCHANGED <<plan, planFrom, truncated>>
  BY DEF Waypoint!handleUndo
<1>3. /\ L \in Nat \ {0} /\ move \in Waypoint!Move
      /\ popped \in Seq(Waypoint!Move) /\ Len(popped) = L - 1
      /\ \A n \in 1..(L - 1) : popped[n] = past[n]
  BY <1>2, StacksTyped
<1>4. /\ pushed \in Seq(Waypoint!Move) /\ Len(pushed) = Len(future) + 1
      /\ pushed[1] = move /\ \A n \in 2..(Len(future) + 1) : pushed[n] = future[n - 1]
  BY <1>3, StacksTyped
<1>5. future' = pushed
  BY <1>2, <1>3, <1>4, StacksTyped DEF Waypoint!FirstSteps
<1> HIDE DEF popped, pushed
<1>6. Leads(h[L - 1], move, dirty)
  <2>1. L \in 1..L
    BY <1>3
  <2>2. Leads(h[L - 1], past[L], h[L]) /\ h[L] = dirty
    BY <1>1, <2>1 DEF IsHistory
  <2> QED BY <2>2
<1>7. dirty' = h[L - 1]
  BY <1>2, <1>6 DEF Leads
<1>8. h \in [0..(Len(past') + Len(future')) -> Waypoint!Unsaved] /\ dirty' \in Waypoint!Unsaved
  <2>1. h \in [0..(L + Len(future)) -> Waypoint!Unsaved]
    BY <1>1 DEF IsHistory
  <2>2. Len(past') + Len(future') = L + Len(future) /\ L - 1 \in 0..(L + Len(future))
    <3>1. Len(past') = L - 1 /\ Len(future') = Len(future) + 1
      BY <1>2, <1>3, <1>4, <1>5
    <3>2. L \in Nat \ {0} /\ Len(future) \in Nat
      BY <1>3, StacksTyped
    <3> QED BY <3>1, <3>2
  <2> QED BY <1>7, <2>1, <2>2
<1>9. IsHistory(h)'
  <2>1. \A n \in 1..Len(past') : Leads(h[n - 1], past'[n], h[n])
    BY <1>1, <1>2, <1>3 DEF IsHistory
  <2>2. ASSUME NEW n \in 1..Len(future')
        PROVE  Leads(h[Len(past') + n - 1], future'[n], h[Len(past') + n])
    <3>1. CASE n = 1
      BY <1>1, <1>2, <1>3, <1>4, <1>5, <1>6, <3>1 DEF IsHistory
    <3>2. CASE n # 1
      <4>1. /\ n - 1 \in 1..Len(future) /\ Len(past') = L - 1
            /\ future'[n] = future[n - 1]
        BY <1>2, <1>3, <1>4, <1>5, <2>2, <3>2, StacksTyped
      <4>2. Leads(h[L + (n - 1) - 1], future[n - 1], h[L + (n - 1)])
        BY <1>1, <4>1 DEF IsHistory
      <4>3. L + (n - 1) - 1 = Len(past') + n - 1 /\ L + (n - 1) = Len(past') + n
        BY <1>3, <4>1
      <4> QED BY <4>1, <4>2, <4>3
    <3> QED BY <3>1, <3>2
  <2>3. h[Len(past')] = dirty' /\ (~truncated' => h[0] = Waypoint!Nothing)
    BY <1>1, <1>2, <1>3, <1>7 DEF IsHistory
  <2> QED BY <1>8, <2>1, <2>2, <2>3 DEF IsHistory
<1>10. Waypoint!EditsWithinPlan'
  <2> SUFFICES ASSUME planFrom # "revalidate"
               PROVE  /\ DOMAIN dirty' \subseteq plan
                      /\ \A i \in 1..Len(past') : past'[i].waypoint \in plan
                      /\ \A i \in 1..Len(future') : future'[i].waypoint \in plan
    BY <1>2 DEF Waypoint!EditsWithinPlan
  <2>1. /\ DOMAIN dirty \subseteq plan
        /\ \A i \in 1..L : past[i].waypoint \in plan
        /\ \A i \in 1..Len(future) : future[i].waypoint \in plan
    BY DEF WaypointInv, EditsInv, Waypoint!EditsWithinPlan
  <2>2. DOMAIN dirty' \subseteq DOMAIN dirty \cup {move.waypoint}
    BY <1>2 DEF Waypoint!applyWaypointUndo, Waypoint!With, Waypoint!Without
  <2>3. move.waypoint \in plan
    BY <1>3, <2>1
  <2>4. \A i \in 1..Len(past') : past'[i].waypoint \in plan
    BY <1>2, <1>3, <2>1
  <2>5. ASSUME NEW i \in 1..Len(future') PROVE future'[i].waypoint \in plan
    <3>1. CASE i = 1
      BY <1>4, <1>5, <2>3, <3>1
    <3>2. CASE i # 1
      <4>1. i - 1 \in 1..Len(future) /\ future'[i] = future[i - 1]
        BY <1>4, <1>5, <3>2, StacksTyped
      <4> QED BY <2>1, <4>1
    <3> QED BY <3>1, <3>2
  <2> QED BY <2>1, <2>2, <2>3, <2>4, <2>5
<1>11. Len(past') + Len(future') <= MaxSteps
  BY <1>2, <1>3, <1>4, <1>5, StacksTyped
<1> QED BY <1>2, <1>3, <1>4, <1>5, <1>8, <1>9, <1>10, <1>11

\* Redo takes the next move back, the stack of past moves having room for it.
LEMMA handleRedoKeeps ==
  ASSUME WaypointInv, Waypoint!handleRedo
  PROVE  /\ past' \in Seq(Waypoint!Move) /\ future' \in Seq(Waypoint!Move)
         /\ Len(past') + Len(future') <= MaxSteps /\ dirty' \in Waypoint!Unsaved
         /\ truncated' \in BOOLEAN
         /\ Waypoint!EditsWithinPlan'
         /\ (\E h : IsHistory(h))'
<1> DEFINE L == Len(past)
           move == Head(future)
           pushed == Append(past, move)
           popped == Tail(future)
<1>1. PICK h : IsHistory(h)
  BY DEF WaypointInv, EditsInv
<1>2. /\ future # <<>> /\ past' = Waypoint!LastSteps(pushed) /\ future' = popped
      /\ truncated' = (truncated \/ L = MaxSteps)
      /\ dirty' = Waypoint!With(dirty, move.waypoint, move.new)
      /\ UNCHANGED <<plan, planFrom>>
  BY DEF Waypoint!handleRedo, Waypoint!Push, Waypoint!applyWaypointRedo
<1>3. /\ Len(future) \in Nat \ {0} /\ move = future[1] /\ move \in Waypoint!Move
      /\ popped \in Seq(Waypoint!Move) /\ Len(popped) = Len(future) - 1
      /\ \A n \in 1..(Len(future) - 1) : popped[n] = future[n + 1]
  BY <1>2, StacksTyped
<1>4. /\ pushed \in Seq(Waypoint!Move) /\ Len(pushed) = L + 1
      /\ pushed[L + 1] = move /\ \A n \in 1..L : pushed[n] = past[n]
  BY <1>3, StacksTyped
<1>5. L \in Nat /\ L < MaxSteps /\ past' = pushed
  BY <1>2, <1>3, <1>4, StacksTyped DEF Waypoint!LastSteps
<1>6. truncated' \in BOOLEAN /\ (~truncated' => ~truncated)
  BY <1>2
<1> HIDE DEF popped, pushed
<1>7. Leads(dirty, move, h[L + 1])
  BY <1>1, <1>3, <1>5 DEF IsHistory
<1>8. dirty' = h[L + 1]
  BY <1>2, <1>7 DEF Leads
<1>9. h \in [0..(Len(past') + Len(future')) -> Waypoint!Unsaved] /\ dirty' \in Waypoint!Unsaved
  <2>1. h \in [0..(L + Len(future)) -> Waypoint!Unsaved]
    BY <1>1 DEF IsHistory
  <2>2. Len(past') + Len(future') = L + Len(future) /\ L + 1 \in 0..(L + Len(future))
    <3>1. Len(past') = L + 1 /\ Len(future') = Len(future) - 1
      BY <1>2, <1>3, <1>4, <1>5
    <3> QED BY <1>3, <1>5, <3>1
  <2> QED BY <1>8, <2>1, <2>2
<1>10. IsHistory(h)'
  <2>1. ASSUME NEW n \in 1..Len(past') PROVE Leads(h[n - 1], past'[n], h[n])
    <3>1. CASE n = L + 1
      <4>1. Leads(h[L], move, h[L + 1]) /\ (L + 1) - 1 = L
        BY <1>1, <1>5, <1>7 DEF IsHistory
      <4> QED BY <1>4, <1>5, <3>1, <4>1
    <3>2. CASE n # L + 1
      BY <1>1, <1>4, <1>5, <3>2 DEF IsHistory
    <3> QED BY <3>1, <3>2
  <2>2. ASSUME NEW n \in 1..Len(future')
        PROVE  Leads(h[Len(past') + n - 1], future'[n], h[Len(past') + n])
    <3>1. n + 1 \in 1..Len(future) /\ Len(past') = L + 1 /\ future'[n] = future[n + 1]
      BY <1>2, <1>3, <1>4, <1>5
    <3>2. Leads(h[L + (n + 1) - 1], future[n + 1], h[L + (n + 1)])
      BY <1>1, <3>1 DEF IsHistory
    <3>3. L + (n + 1) - 1 = Len(past') + n - 1 /\ L + (n + 1) = Len(past') + n
      BY <1>5, <3>1
    <3> QED BY <3>1, <3>2, <3>3
  <2>3. h[Len(past')] = dirty' /\ (~truncated' => h[0] = Waypoint!Nothing)
    BY <1>1, <1>4, <1>5, <1>6, <1>8 DEF IsHistory
  <2> QED BY <1>9, <2>1, <2>2, <2>3 DEF IsHistory
<1>11. Waypoint!EditsWithinPlan'
  <2> SUFFICES ASSUME planFrom # "revalidate"
               PROVE  /\ DOMAIN dirty' \subseteq plan
                      /\ \A i \in 1..Len(past') : past'[i].waypoint \in plan
                      /\ \A i \in 1..Len(future') : future'[i].waypoint \in plan
    BY <1>2 DEF Waypoint!EditsWithinPlan
  <2>1. /\ DOMAIN dirty \subseteq plan
        /\ \A i \in 1..L : past[i].waypoint \in plan
        /\ \A i \in 1..Len(future) : future[i].waypoint \in plan
    BY DEF WaypointInv, EditsInv, Waypoint!EditsWithinPlan
  <2>2. DOMAIN dirty' \subseteq DOMAIN dirty \cup {move.waypoint}
    BY <1>2 DEF Waypoint!With
  <2>3. move.waypoint \in plan
    BY <1>3, <2>1
  <2>4. \A i \in 1..Len(past') : past'[i].waypoint \in plan
    BY <1>4, <1>5, <2>1, <2>3
  <2>5. \A i \in 1..Len(future') : future'[i].waypoint \in plan
    BY <1>2, <1>3, <2>1
  <2> QED BY <2>1, <2>2, <2>3, <2>4, <2>5
<1> QED BY <1>2, <1>3, <1>4, <1>5, <1>6, <1>9, <1>10, <1>11, StacksTyped

\* A drag adds its move to the stack, which may forget the oldest one, and starts a new future.
LEMMA MouseUpKeeps ==
  ASSUME WaypointInv, NEW p \in Positions, Waypoint!MouseUp(p)
  PROVE  /\ past' \in Seq(Waypoint!Move) /\ future' \in Seq(Waypoint!Move)
         /\ Len(past') + Len(future') <= MaxSteps /\ dirty' \in Waypoint!Unsaved
         /\ truncated' \in BOOLEAN
         /\ Waypoint!EditsWithinPlan'
         /\ (\E h : IsHistory(h))'
<1> DEFINE L == Len(past)
           w == dragged
           old == Waypoint!effectiveWaypoints[w]
           had == w \in DOMAIN dirty
           move == [waypoint |-> w, old |-> old, new |-> p, hadDirtyBefore |-> had]
           e == Waypoint!With(dirty, w, p)
           all == Append(past, move)
           k == IF L = MaxSteps THEN 1 ELSE 0
<1>1. PICK h : IsHistory(h)
  BY DEF WaypointInv, EditsInv
<1>2. /\ w \in plan /\ past' = Waypoint!LastSteps(all) /\ future' = <<>>
      /\ truncated' = (truncated \/ L = MaxSteps)
      /\ dirty' = e /\ UNCHANGED <<plan, planFrom>>
  BY DEF Waypoint!MouseUp, Waypoint!handleWaypointDrag, Waypoint!Push
<1>3. /\ w \in Waypoints /\ had \in BOOLEAN
      /\ old = IF w \in DOMAIN dirty THEN dirty[w] ELSE Saved
  BY <1>2, StacksTyped DEF Waypoint!effectiveWaypoints
<1>4. /\ move \in Waypoint!Move /\ e \in Waypoint!Unsaved /\ DOMAIN e = DOMAIN dirty \cup {w}
      /\ Leads(dirty, move, e)
  <2>1. dirty \in Waypoint!Unsaved /\ (had <=> w \in DOMAIN dirty)
    BY StacksTyped
  <2> HIDE DEF old, had
  <2> QED BY <1>3, <2>1, DragLeads
<1>5. move.waypoint = w
  OBVIOUS
<1>6. truncated' \in BOOLEAN /\ (~truncated' => ~truncated /\ L # MaxSteps)
  BY <1>2
<1> HIDE DEF old, had, move, e
<1>7. /\ L \in Nat /\ L <= MaxSteps /\ MaxSteps \in Nat \ {0} /\ k \in {0, 1}
      /\ k = 1 <=> L = MaxSteps
  BY StacksTyped
<1>8. /\ all \in Seq(Waypoint!Move) /\ Len(all) = L + 1
      /\ all[L + 1] = move /\ \A n \in 1..L : all[n] = past[n]
  BY <1>4, StacksTyped
<1>9. /\ past' \in Seq(Waypoint!Move) /\ Len(past') = L + 1 - k
      /\ \A n \in 1..(L + 1 - k) : past'[n] = all[n + k]
  <2> HIDE DEF all
  <2>1. CASE L = MaxSteps
    <3>1. past' = SubSeq(all, 2, L + 1)
      BY <1>2, <1>7, <1>8, <2>1 DEF Waypoint!LastSteps
    <3>2. /\ past' \in Seq(Waypoint!Move) /\ Len(past') = L
          /\ \A n \in 1..L : past'[n] = all[n + 1]
      BY <1>7, <1>8, <3>1
    <3> QED BY <1>7, <2>1, <3>2
  <2>2. CASE L # MaxSteps
    <3>1. past' = all /\ k = 0
      BY <1>2, <1>7, <1>8, <2>2 DEF Waypoint!LastSteps
    <3> QED BY <1>7, <1>8, <3>1
  <2> QED BY <2>1, <2>2
<1> HIDE DEF all, k
<1>10. h[L] = dirty /\ h \in [0..(L + Len(future)) -> Waypoint!Unsaved] /\ Len(future) \in Nat
  BY <1>1, StacksTyped DEF IsHistory
<1>11. PICK g \in [0..(L + 1 - k) -> Waypoint!Unsaved] :
         g[L + 1 - k] = e /\ \A n \in 0..(L - k) : g[n] = h[n + k]
  <2> DEFINE f == [n \in 0..(L + 1 - k) |-> IF n = L + 1 - k THEN e ELSE h[n + k]]
  <2>1. /\ f \in [0..(L + 1 - k) -> Waypoint!Unsaved] /\ f[L + 1 - k] = e
        /\ \A n \in 0..(L - k) : f[n] = h[n + k]
    BY <1>4, <1>7, <1>10
  <2> HIDE DEF f
  <2> QED BY <2>1
<1>12. IsHistory(g)'
  <2>1. Len(future') = 0 /\ Len(past') + Len(future') = L + 1 - k
    BY <1>2, <1>7, <1>9
  <2>2. ASSUME NEW n \in 1..Len(past') PROVE Leads(g[n - 1], past'[n], g[n])
    <3>1. CASE n = L + 1 - k
      <4>1. n - 1 \in 0..(L - k) /\ (n - 1) + k = L /\ n + k = L + 1
        BY <1>7, <1>9, <2>2, <3>1
      <4>2. g[n - 1] = dirty /\ g[n] = e
        BY <1>10, <1>11, <3>1, <4>1
      <4>3. past'[n] = move
        BY <1>8, <1>9, <4>1
      <4> QED BY <1>4, <4>2, <4>3
    <3>2. CASE n # L + 1 - k
      <4>1. /\ n - 1 \in 0..(L - k) /\ n \in 0..(L - k) /\ n + k \in 1..L
            /\ (n - 1) + k = (n + k) - 1
        BY <1>7, <1>9, <2>2, <3>2
      <4>2. g[n - 1] = h[(n + k) - 1] /\ g[n] = h[n + k]
        BY <1>11, <4>1
      <4>3. past'[n] = past[n + k]
        BY <1>8, <1>9, <4>1
      <4>4. Leads(h[(n + k) - 1], past[n + k], h[n + k])
        BY <1>1, <4>1 DEF IsHistory
      <4> QED BY <4>2, <4>3, <4>4
    <3> QED BY <3>1, <3>2
  <2>3. ~truncated' => g[0] = Waypoint!Nothing
    <3>1. ASSUME ~truncated' PROVE g[0] = h[0] /\ ~truncated
      BY <1>6, <1>7, <1>11, <3>1
    <3> QED BY <1>1, <3>1 DEF IsHistory
  <2>4. g \in [0..(Len(past') + Len(future')) -> Waypoint!Unsaved] /\ g[Len(past')] = dirty'
    BY <1>2, <1>9, <1>11, <2>1
  <2>5. \A n \in 1..Len(future') : Leads(g[Len(past') + n - 1], future'[n], g[Len(past') + n])
    BY <2>1
  <2> QED BY <2>2, <2>3, <2>4, <2>5 DEF IsHistory
<1>13. Waypoint!EditsWithinPlan'
  <2> SUFFICES ASSUME planFrom # "revalidate"
               PROVE  /\ DOMAIN dirty' \subseteq plan
                      /\ \A i \in 1..Len(past') : past'[i].waypoint \in plan
    BY <1>2 DEF Waypoint!EditsWithinPlan
  <2>1. DOMAIN dirty \subseteq plan /\ \A i \in 1..L : past[i].waypoint \in plan
    BY DEF WaypointInv, EditsInv, Waypoint!EditsWithinPlan
  <2>2. \A n \in 1..(L + 1) : all[n].waypoint \in plan
    BY <1>2, <1>5, <1>7, <1>8, <2>1
  <2>3. \A i \in 1..Len(past') : i + k \in 1..(L + 1)
    BY <1>7, <1>9
  <2> QED BY <1>2, <1>4, <1>9, <2>1, <2>2, <2>3
<1>14. future' \in Seq(Waypoint!Move) /\ Len(past') + Len(future') <= MaxSteps
  BY <1>2, <1>7, <1>9
<1> QED BY <1>2, <1>4, <1>6, <1>9, <1>12, <1>13, <1>14

LEMMA EditsStay ==
  ASSUME EditsInv, UNCHANGED <<plan, planFrom, dirty, past, future, truncated>>
  PROVE  EditsInv'
<1>1. (\E h : IsHistory(h))'
  BY DEF EditsInv, IsHistory
<1>2. Waypoint!EditsWithinPlan'
  BY DEF EditsInv, Waypoint!EditsWithinPlan
<1> QED BY <1>1, <1>2 DEF EditsInv

LEMMA OperatorKeeps == ASSUME WaypointInv, Waypoint!Operator PROVE WaypointInv'
<1>0. EditsInv /\ RequestsInv
  BY DEF WaypointInv
<1>1. ASSUME NEW w \in Waypoints, Waypoint!MouseDown(w) PROVE WaypointInv'
  <2>1. EditsInv'
    BY <1>0, <1>1, EditsStay DEF Waypoint!MouseDown, Waypoint!editing
  <2> QED BY <1>0, <1>1, <2>1 DEF WaypointInv, Waypoint!MouseDown, RequestsInv
<1>2. ASSUME NEW p \in Positions, Waypoint!MouseUp(p) PROVE WaypointInv'
  <2>1. EditsInv'
    <3>1. UNCHANGED <<plan, planFrom>>
      BY <1>2 DEF Waypoint!MouseUp
    <3> QED BY <1>0, <1>2, <3>1, MouseUpKeeps DEF EditsInv
  <2> QED BY <1>0, <1>2, <2>1 DEF WaypointInv, Waypoint!MouseUp, RequestsInv
<1>3. CASE Waypoint!MouseUpUnheard \/ Waypoint!SelectTool
  <2>1. EditsInv'
    BY <1>0, <1>3, EditsStay DEF Waypoint!MouseUpUnheard, Waypoint!SelectTool, Waypoint!editing
  <2> QED BY <1>0, <1>3, <2>1
          DEF WaypointInv, Waypoint!MouseUpUnheard, Waypoint!SelectTool, RequestsInv
<1>4. CASE Waypoint!handleUndo
  <2>1. EditsInv'
    <3>1. UNCHANGED <<plan, planFrom, truncated>>
      BY <1>4 DEF Waypoint!handleUndo
    <3> QED BY <1>0, <1>4, <3>1, handleUndoKeeps DEF EditsInv
  <2> QED BY <1>0, <1>4, <2>1
          DEF WaypointInv, Waypoint!handleUndo, Waypoint!Resubscribe, RequestsInv
<1>5. CASE Waypoint!handleRedo
  <2>1. EditsInv'
    <3>1. UNCHANGED <<plan, planFrom>>
      BY <1>5 DEF Waypoint!handleRedo
    <3> QED BY <1>0, <1>5, <3>1, handleRedoKeeps DEF EditsInv
  <2> QED BY <1>0, <1>5, <2>1
          DEF WaypointInv, Waypoint!handleRedo, Waypoint!Resubscribe, RequestsInv
<1> QED BY <1>1, <1>2, <1>3, <1>4, <1>5 DEF Waypoint!Operator

\* A click and the server leave the page to itself.
LEMMA RequestsKeep ==
  ASSUME WaypointInv, Waypoint!Click \/ Waypoint!Server
  PROVE  WaypointInv'
<1>0. EditsInv /\ RequestsInv
  BY DEF WaypointInv
<1>1. ASSUME NEW kind \in Waypoint!Kinds, NEW batch \in SUBSET Waypoints,
             Waypoint!Send(kind, batch)
      PROVE  WaypointInv'
  <2>1. EditsInv'
    BY <1>0, <1>1, EditsStay DEF Waypoint!Send, Waypoint!editing
  <2>2. [kind |-> kind, batch |-> batch, status |-> "pending", answer |-> {}] \in Waypoint!Request
    BY DEF Waypoint!Request
  <2> QED BY <1>0, <1>1, <2>1, <2>2 DEF WaypointInv, Waypoint!Send, Waypoint!mouse, RequestsInv
<1>2. CASE Waypoint!Click
  <2>1. DOMAIN dirty \in SUBSET Waypoints
    BY StacksTyped
  <2> QED BY <1>1, <1>2, <2>1
          DEF Waypoint!Click, Waypoint!handleSave, Waypoint!handleTransitInsert,
              Waypoint!handleTransitDelete, Waypoint!handleRevalidate,
              Waypoint!startComputation, Waypoint!Kinds
<1>3. ASSUME NEW r \in requests, NEW status \in {"answered", "failed"},
             NEW answer \in SUBSET Waypoints, Waypoint!Serve(r, status, answer),
             stored' \subseteq Waypoints, issued' \subseteq Waypoints
      PROVE  WaypointInv'
  <2>1. EditsInv'
    BY <1>0, <1>3, EditsStay DEF Waypoint!Serve, Waypoint!editing
  <2>2. [r EXCEPT !.status = status, !.answer = answer] \in Waypoint!Request
    BY <1>0 DEF RequestsInv, Waypoint!Request
  <2> QED BY <1>0, <1>3, <2>1, <2>2 DEF WaypointInv, Waypoint!Serve, Waypoint!mouse, RequestsInv
<1>4. ASSUME NEW r \in requests, NEW new \in SUBSET Waypoints, Waypoint!Store(r, new),
             issued' \subseteq Waypoints
      PROVE  WaypointInv'
  BY <1>3, <1>4 DEF Waypoint!Store
<1>5. ASSUME NEW r \in requests,
             \/ Waypoint!batch_update_waypoints(r) \/ Waypoint!insert_transit_waypoint(r)
             \/ Waypoint!delete_transit_waypoint(r) \/ Waypoint!revalidate_flight_plan(r)
             \/ Waypoint!generate_trajectory(r) \/ Waypoint!Refuse(r)
      PROVE  WaypointInv'
  <2>0. stored \subseteq Waypoints /\ issued \subseteq Waypoints
    BY <1>0 DEF RequestsInv
  <2>1. CASE Waypoint!batch_update_waypoints(r) \/ Waypoint!revalidate_flight_plan(r)
    BY <1>4, <2>0, <2>1 DEF Waypoint!batch_update_waypoints, Waypoint!revalidate_flight_plan
  <2>2. CASE Waypoint!delete_transit_waypoint(r)
    <3>1. stored \ r.batch \in SUBSET Waypoints
      BY <2>0
    <3> QED BY <1>4, <2>0, <2>2, <3>1 DEF Waypoint!delete_transit_waypoint
  <2>3. CASE Waypoint!insert_transit_waypoint(r)
    <3>1. PICK w \in Waypoints \ issued :
            Waypoint!Store(r, stored \cup {w}) /\ issued' = issued \cup {w}
      BY <2>3 DEF Waypoint!insert_transit_waypoint
    <3>2. stored \cup {w} \in SUBSET Waypoints /\ issued' \subseteq Waypoints
      BY <2>0, <3>1
    <3> QED BY <1>4, <3>1, <3>2
  <2>4. CASE Waypoint!generate_trajectory(r)
    <3>1. PICK w \in Waypoints \ issued : Waypoint!Store(r, {w}) /\ issued' = issued \cup {w}
      BY <2>4 DEF Waypoint!generate_trajectory
    <3>2. {w} \in SUBSET Waypoints /\ issued' \subseteq Waypoints
      BY <2>0, <3>1
    <3> QED BY <1>4, <3>1, <3>2
  <2>5. CASE Waypoint!Refuse(r)
    BY <1>3, <2>0, <2>5 DEF Waypoint!Refuse
  <2> QED BY <1>5, <2>1, <2>2, <2>3, <2>4, <2>5
<1> QED BY <1>2, <1>5 DEF Waypoint!Server

\* An answer brings a plan, and takes the unsaved moves and their history with it
\* unless it is one to a revalidation.
LEMMA AnswerKeeps == ASSUME WaypointInv, Waypoint!Answer PROVE WaypointInv'
<1>0. EditsInv /\ RequestsInv
  BY DEF WaypointInv
<1>1. PICK r \in requests : Waypoint!Answered(r) \/ Waypoint!Revalidated(r) \/ Waypoint!SaveError(r)
  BY DEF Waypoint!Answer
<1>2. r.answer \subseteq Waypoints /\ r.kind \in Waypoint!Kinds
  BY <1>0 DEF RequestsInv, Waypoint!Request
<1>3. CASE Waypoint!Answered(r)
  <2>1. /\ plan' = r.answer /\ planFrom' = r.kind /\ dirty' = Waypoint!Nothing
        /\ past' = <<>> /\ future' = <<>> /\ truncated' = FALSE
    BY <1>3 DEF Waypoint!Answered, Waypoint!applyPlan, Waypoint!Forget
  <2>2. /\ Len(past') = 0 /\ Len(future') = 0 /\ MaxSteps \in Nat
        /\ past' \in Seq(Waypoint!Move) /\ future' \in Seq(Waypoint!Move)
    BY <2>1, PagesAssumption DEF Waypoint!EditingAssumption
  <2>3. Waypoint!EditsWithinPlan'
    BY <2>1, <2>2, NothingUnsaved DEF Waypoint!EditsWithinPlan
  <2>4. IsHistory([n \in 0..0 |-> Waypoint!Nothing])'
    BY <2>1, <2>2, NothingUnsaved DEF IsHistory
  <2>5. EditsInv'
    BY <1>2, <2>1, <2>2, <2>3, <2>4, NothingUnsaved DEF EditsInv
  <2> QED BY <1>0, <1>3, <2>5
          DEF WaypointInv, Waypoint!Answered, Waypoint!Resubscribe, RequestsInv
<1>4. CASE Waypoint!Revalidated(r)
  <2>1. /\ plan' = r.answer /\ planFrom' = "revalidate"
        /\ UNCHANGED <<dirty, past, future, truncated>>
    BY <1>4 DEF Waypoint!Revalidated
  <2>2. (\E h : IsHistory(h))'
    BY <1>0, <2>1 DEF EditsInv, IsHistory
  <2>3. EditsInv'
    BY <1>0, <1>2, <2>1, <2>2 DEF EditsInv, Waypoint!EditsWithinPlan, Waypoint!Kinds
  <2> QED BY <1>0, <1>4, <2>3
          DEF WaypointInv, Waypoint!Revalidated, Waypoint!Resubscribe, RequestsInv
<1>5. CASE Waypoint!SaveError(r)
  <2>1. EditsInv'
    BY <1>0, <1>5, EditsStay DEF Waypoint!SaveError, Waypoint!editing
  <2> QED BY <1>0, <1>5, <2>1 DEF WaypointInv, Waypoint!SaveError, Waypoint!mouse, RequestsInv
<1> QED BY <1>1, <1>3, <1>4, <1>5

LEMMA WaypointsKeep == ASSUME WaypointInv, Waypoint!Next PROVE WaypointInv'
BY OperatorKeeps, RequestsKeep, AnswerKeeps DEF Waypoint!Next

LEMMA UndoIsTheMap == ASSUME WaypointInv PROVE Waypoint!UndoMatchesMap
<1> SUFFICES ASSUME past # <<>>
             PROVE  LET move == past[Len(past)]
                    IN  move.waypoint \in DOMAIN dirty /\ dirty[move.waypoint] = move.new
  BY DEF Waypoint!UndoMatchesMap
<1>1. PICK h : IsHistory(h)
  BY DEF WaypointInv, EditsInv
<1>2. Len(past) \in 1..Len(past)
  BY StacksTyped
<1>3. Leads(h[Len(past) - 1], past[Len(past)], h[Len(past)]) /\ h[Len(past)] = dirty
  BY <1>1, <1>2 DEF IsHistory
<1> QED BY <1>3 DEF Leads, Waypoint!With

\* Undoing move by move goes back through the history, to its beginning.
LEMMA UndoneIsBeginning == ASSUME WaypointInv PROVE Waypoint!UndoneIsClean
<1> DEFINE L == Len(past)
           Undoes(u) == u = [n \in 0..L |->
              IF n = 0 THEN dirty
              ELSE Waypoint!applyWaypointUndo(u[n - 1], past[L - n + 1])]
           undone == CHOOSE u : Undoes(u)
<1>1. PICK h : IsHistory(h)
  BY DEF WaypointInv, EditsInv
<1>2. L \in Nat
  BY StacksTyped
<1>3. Undoes([n \in 0..L |-> h[L - n]])
  <2> DEFINE g == [n \in 0..L |-> h[L - n]]
  <2>1. ASSUME NEW n \in 0..L, n # 0
        PROVE  g[n] = Waypoint!applyWaypointUndo(g[n - 1], past[L - n + 1])
    <3>1. L - n + 1 \in 1..L /\ L - n + 1 - 1 = L - n /\ L - (n - 1) = L - n + 1
          /\ n - 1 \in 0..L
      BY <1>2, <2>1
    <3>2. Leads(h[L - n], past[L - n + 1], h[L - n + 1])
      BY <1>1, <3>1 DEF IsHistory
    <3>3. g[n] = h[L - n] /\ g[n - 1] = h[L - n + 1]
      BY <3>1
    <3> QED BY <3>2, <3>3 DEF Leads
  <2>2. g[0] = dirty
    BY <1>1, <1>2 DEF IsHistory
  <2>3. g = [n \in 0..L |-> g[n]]
    OBVIOUS
  <2> HIDE DEF g
  <2>4. \A n \in 0..L : g[n] = IF n = 0 THEN dirty
                               ELSE Waypoint!applyWaypointUndo(g[n - 1], past[L - n + 1])
    BY <2>1, <2>2
  <2> QED BY <2>3, <2>4
<1>4. Undoes(undone)
  <2> HIDE DEF Undoes
  <2> QED BY <1>3, Zenon
<1>5. \A n \in 0..L : undone[n] = IF n = 0 THEN dirty
                      ELSE Waypoint!applyWaypointUndo(undone[n - 1], past[L - n + 1])
  <2> HIDE DEF undone
  <2> QED BY <1>4
<1> HIDE DEF undone
<1>6. \A n \in 0..L : undone[n] = h[L - n]
  <2> DEFINE S == {n \in Nat : n <= L => undone[n] = h[L - n]}
  <2>1. 0 \in S
    BY <1>1, <1>2, <1>5 DEF IsHistory
  <2>2. ASSUME NEW n \in Nat, n \in S PROVE n + 1 \in S
    <3> SUFFICES ASSUME n + 1 <= L PROVE undone[n + 1] = h[L - (n + 1)]
      OBVIOUS
    <3>1. L - n \in 1..L /\ (n + 1) - 1 = n /\ L - (n + 1) + 1 = L - n /\ L - (n + 1) = L - n - 1
          /\ n + 1 \in 0..L /\ n <= L
      BY <1>2
    <3>2. undone[n + 1] = Waypoint!applyWaypointUndo(h[L - n], past[L - n])
      BY <1>5, <2>2, <3>1
    <3>3. Leads(h[L - n - 1], past[L - n], h[L - n])
      BY <1>1, <3>1 DEF IsHistory
    <3> QED BY <3>1, <3>2, <3>3 DEF Leads
  <2>3. Nat \subseteq S
    <3> HIDE DEF S
    <3> QED BY <2>1, <2>2, NumbersReached
  <2> QED BY <1>2, <2>3
<1>7. ~truncated => undone[L] = Waypoint!Nothing
  <2>1. undone[L] = h[0]
    BY <1>2, <1>6
  <2> QED BY <1>1, <2>1 DEF IsHistory
<1> QED BY <1>7 DEF Waypoint!UndoneIsClean, undone

-----------------------------------------------------------------------------
(* The violations of a plan *)

LEMMA SameCount == ASSUME NEW S PROVE Review!Cardinality(S) = Cardinality(S)
BY DEF Review!Cardinality, Cardinality

LEMMA RowsOfResult ==
  ASSUME NEW rows \in Review!Results
  PROVE  /\ Len(rows) \in 0..MaxRows /\ Len(rows) \in Nat /\ DOMAIN rows = 1..Len(rows)
         /\ \A i \in 1..Len(rows) : /\ rows[i].severity \in Review!Severities
                                    /\ rows[i].kind \in CheckKinds
<1>1. PICK n \in 0..MaxRows : rows \in [1..n -> Review!Row]
  BY DEF Review!Results
<1>2. n \in Nat
  BY PagesAssumption DEF Review!PanelsAssumption
<1>3. rows \in Seq(Review!Row) /\ Len(rows) = n
  BY <1>1, <1>2
<1> QED BY <1>1, <1>2, <1>3 DEF Review!Row

\* The first n rows of a severity and a kind, and groups that say where they are.
OfKind(rows, s, n, k) == {i \in 1..n : rows[i].severity = s /\ rows[i].kind = k}

Group == [key : CheckKinds, first : Nat, ids : SUBSET Nat, affected : SUBSET Nat]

GroupsOK(groups, rows, s, n) ==
  /\ groups \in Seq(Group)
  /\ \A g \in DOMAIN groups :
       /\ groups[g].ids = OfKind(rows, s, n, groups[g].key)
       /\ groups[g].affected = OfKind(rows, s, n, groups[g].key)
       /\ groups[g].first \in OfKind(rows, s, n, groups[g].key)
  /\ \A g, h \in DOMAIN groups : g # h => groups[g].key # groups[h].key
  /\ \A i \in 1..n : rows[i].severity = s => \E g \in DOMAIN groups : groups[g].key = rows[i].kind

\* A row of another severity changes no group.
LEMMA OthersPass ==
  ASSUME NEW rows, NEW s, NEW n \in Nat, NEW groups,
         GroupsOK(groups, rows, s, n), rows[n + 1].severity # s
  PROVE  GroupsOK(groups, rows, s, n + 1)
<1>1. \A k : OfKind(rows, s, n + 1, k) = OfKind(rows, s, n, k)
  BY DEF OfKind
<1> QED BY <1>1 DEF GroupsOK

\* A row joins the one group of its kind or starts it, and the group has all rows of its kind.
LEMMA GroupedKeeps ==
  ASSUME NEW rows, NEW s, NEW n \in Nat, NEW groups,
         GroupsOK(groups, rows, s, n), rows[n + 1].severity = s, rows[n + 1].kind \in CheckKinds
  PROVE  GroupsOK(Review!Grouped(rows, groups, n + 1), rows, s, n + 1)
<1> DEFINE kind == rows[n + 1].kind
           next == Review!Grouped(rows, groups, n + 1)
<1>1. /\ OfKind(rows, s, n + 1, kind) = OfKind(rows, s, n, kind) \cup {n + 1}
      /\ \A k : k # kind => OfKind(rows, s, n + 1, k) = OfKind(rows, s, n, k)
  BY DEF OfKind
<1>2. \A k : OfKind(rows, s, n, k) \subseteq Nat
  BY DEF OfKind
<1>3. groups \in Seq(Group) /\ DOMAIN groups = 1..Len(groups) /\ Len(groups) \in Nat
  BY DEF GroupsOK
<1>4. CASE \E g \in DOMAIN groups : groups[g].key = kind
  <2> DEFINE more(g) == [groups[g] EXCEPT !.ids = @ \cup {n + 1}, !.affected = @ \cup {n + 1}]
  <2>1. next = [g \in DOMAIN groups |-> IF groups[g].key = kind THEN more(g) ELSE groups[g]]
    BY <1>4 DEF Review!Grouped
  <2>2. ASSUME NEW g \in DOMAIN groups
        PROVE  /\ groups[g] \in Group
               /\ more(g) \in Group /\ more(g).key = groups[g].key
               /\ more(g).first = groups[g].first
               /\ more(g).ids = groups[g].ids \cup {n + 1}
               /\ more(g).affected = groups[g].affected \cup {n + 1}
    <3>1. PICK G \in Group : G = groups[g]
      BY <1>3
    <3> DEFINE ids == G.ids \cup {n + 1}
               affected == G.affected \cup {n + 1}
    <3>2. ids \in SUBSET Nat /\ affected \in SUBSET Nat
      BY DEF Group
    <3>3. more(g) = [G EXCEPT !.ids = ids, !.affected = affected]
      BY <3>1
    <3> HIDE DEF ids, affected, more
    <3>4. more(g) \in Group /\ more(g).key = G.key /\ more(g).first = G.first
          /\ more(g).ids = ids /\ more(g).affected = affected
      BY <3>2, <3>3 DEF Group
    <3> QED BY <3>1, <3>4 DEF ids, affected
  <2> HIDE DEF more, next
  <2>3. next \in Seq(Group) /\ DOMAIN next = DOMAIN groups
    <3>1. next \in [1..Len(groups) -> Group]
      BY <1>3, <2>1, <2>2
    <3> QED BY <1>3, <3>1
  <2>4. \A g \in DOMAIN groups : next[g].key = groups[g].key
    BY <2>1, <2>2
  <2>5. ASSUME NEW g \in DOMAIN next
        PROVE  /\ next[g].ids = OfKind(rows, s, n + 1, next[g].key)
               /\ next[g].affected = OfKind(rows, s, n + 1, next[g].key)
               /\ next[g].first \in OfKind(rows, s, n + 1, next[g].key)
    <3>1. /\ groups[g].ids = OfKind(rows, s, n, groups[g].key)
          /\ groups[g].affected = OfKind(rows, s, n, groups[g].key)
          /\ groups[g].first \in OfKind(rows, s, n, groups[g].key)
      BY <2>3 DEF GroupsOK
    <3>2. CASE groups[g].key = kind
      BY <1>1, <2>1, <2>2, <2>3, <3>1, <3>2
    <3>3. CASE groups[g].key # kind
      BY <1>1, <2>1, <2>2, <2>3, <3>1, <3>3
    <3> QED BY <3>2, <3>3
  <2>6. \A g, h \in DOMAIN next : g # h => next[g].key # next[h].key
    BY <2>3, <2>4 DEF GroupsOK
  <2>7. ASSUME NEW i \in 1..(n + 1), rows[i].severity = s
        PROVE  \E g \in DOMAIN next : next[g].key = rows[i].kind
    <3>1. CASE i = n + 1
      BY <1>4, <2>3, <2>4, <3>1
    <3>2. CASE i # n + 1
      <4>1. \E g \in DOMAIN groups : groups[g].key = rows[i].kind
        BY <2>7, <3>2 DEF GroupsOK
      <4> QED BY <2>3, <2>4, <4>1
    <3> QED BY <3>1, <3>2
  <2> QED BY <2>3, <2>5, <2>6, <2>7 DEF GroupsOK, next
<1>5. CASE ~ \E g \in DOMAIN groups : groups[g].key = kind
  <2> DEFINE new == [key |-> kind, first |-> n + 1, ids |-> {n + 1}, affected |-> {n + 1}]
             L == Len(groups) + 1
  <2>1. next = Append(groups, new)
    BY <1>5 DEF Review!Grouped
  <2>2. /\ new \in Group /\ new.key = kind /\ new.first = n + 1
        /\ new.ids = {n + 1} /\ new.affected = {n + 1}
    BY DEF Group
  <2> HIDE DEF new, next
  <2>3. /\ next \in Seq(Group) /\ DOMAIN next = DOMAIN groups \cup {L} /\ L \notin DOMAIN groups
        /\ next[L] = new /\ \A g \in DOMAIN groups : next[g] = groups[g]
    BY <1>3, <2>1, <2>2
  <2>4. OfKind(rows, s, n, kind) = {}
    BY <1>5 DEF GroupsOK, OfKind
  <2>5. ASSUME NEW g \in DOMAIN next
        PROVE  /\ next[g].ids = OfKind(rows, s, n + 1, next[g].key)
               /\ next[g].affected = OfKind(rows, s, n + 1, next[g].key)
               /\ next[g].first \in OfKind(rows, s, n + 1, next[g].key)
    <3>1. CASE g = L
      BY <1>1, <2>2, <2>3, <2>4, <3>1
    <3>2. CASE g # L
      <4>1. g \in DOMAIN groups /\ next[g] = groups[g] /\ groups[g].key # kind
        BY <1>5, <2>3, <3>2
      <4> QED BY <1>1, <4>1 DEF GroupsOK
    <3> QED BY <3>1, <3>2
  <2>6. ASSUME NEW g \in DOMAIN next, NEW h \in DOMAIN next, g # h
        PROVE  next[g].key # next[h].key
    <3>1. CASE g \in DOMAIN groups /\ h \in DOMAIN groups
      BY <2>3, <2>6, <3>1 DEF GroupsOK
    <3>2. CASE g = L \/ h = L
      BY <1>5, <2>2, <2>3, <2>6, <3>2
    <3> QED BY <2>3, <3>1, <3>2
  <2>7. ASSUME NEW i \in 1..(n + 1), rows[i].severity = s
        PROVE  \E g \in DOMAIN next : next[g].key = rows[i].kind
    <3>1. CASE i = n + 1
      BY <2>2, <2>3, <3>1
    <3>2. CASE i # n + 1
      <4>1. PICK g \in DOMAIN groups : groups[g].key = rows[i].kind
        BY <2>7, <3>2 DEF GroupsOK
      <4> QED BY <2>3, <4>1
    <3> QED BY <3>1, <3>2
  <2> QED BY <2>3, <2>5, <2>6, <2>7 DEF GroupsOK, next
<1> QED BY <1>4, <1>5

\* The list of groups is what its rule says of one row after the other.
LEMMA GroupsAre ==
  ASSUME NEW rows \in Review!Results, NEW s
  PROVE  GroupsOK(Review!groupViolations(rows, s), rows, s, Len(rows))
<1> DEFINE N == Len(rows)
           After(groups, n) == IF rows[n].severity = s THEN Review!Grouped(rows, groups, n)
                               ELSE groups
           Groups(f) == f = [n \in 0..N |-> IF n = 0 THEN <<>>
              ELSE IF rows[n].severity = s THEN Review!Grouped(rows, f[n - 1], n) ELSE f[n - 1]]
           grouped == CHOOSE f : Groups(f)
           Follows(f, n) == f[0] = <<>> /\ \A i \in 1..n : f[i] = After(f[i - 1], i)
<1>1. N \in Nat /\ \A i \in 1..N : rows[i].kind \in CheckKinds
  BY RowsOfResult
<1>2. \A n \in Nat : \E f : DOMAIN f = 0..n /\ Follows(f, n)
  <2> DEFINE S == {n \in Nat : \E f : DOMAIN f = 0..n /\ Follows(f, n)}
  <2> HIDE DEF After
  <2>1. 0 \in S
    <3> DEFINE f == [i \in 0..0 |-> <<>>]
    <3>1. DOMAIN f = 0..0 /\ Follows(f, 0)
      OBVIOUS
    <3> QED BY <3>1
  <2>2. ASSUME NEW n \in Nat, n \in S PROVE n + 1 \in S
    <3>1. PICK f : DOMAIN f = 0..n /\ Follows(f, n)
      BY <2>2
    <3> DEFINE last == After(f[n], n + 1)
               g == [i \in 0..(n + 1) |-> IF i = n + 1 THEN last ELSE f[i]]
    <3>2. /\ DOMAIN g = 0..(n + 1) /\ g[n + 1] = last /\ \A i \in 0..n : g[i] = f[i]
      BY <3>1
    <3> HIDE DEF g
    <3>3. g[0] = <<>>
      BY <3>1, <3>2
    <3>4. ASSUME NEW i \in 1..(n + 1) PROVE g[i] = After(g[i - 1], i)
      <4>1. CASE i = n + 1
        BY <3>2, <4>1
      <4>2. CASE i # n + 1
        <5>1. i \in 1..n /\ i \in 0..n /\ i - 1 \in 0..n
          BY <4>2
        <5> QED BY <3>1, <3>2, <5>1
      <4> QED BY <4>1, <4>2
    <3>5. DOMAIN g = 0..(n + 1) /\ Follows(g, n + 1)
      BY <3>2, <3>3, <3>4
    <3> QED BY <3>5
  <2>3. Nat \subseteq S
    <3> HIDE DEF S
    <3> QED BY <2>1, <2>2, NumbersReached
  <2> QED BY <2>3
<1>3. PICK f : DOMAIN f = 0..N /\ Follows(f, N)
  BY <1>1, <1>2
<1>4. Groups([n \in 0..N |-> f[n]])
  <2> DEFINE g == [n \in 0..N |-> f[n]]
  <2>1. ASSUME NEW n \in 0..N
        PROVE  g[n] = IF n = 0 THEN <<>>
                      ELSE IF rows[n].severity = s THEN Review!Grouped(rows, g[n - 1], n) ELSE g[n - 1]
    <3>1. CASE n = 0
      BY <1>3, <3>1
    <3>2. CASE n # 0
      <4>1. n \in 1..N /\ n - 1 \in 0..N
        BY <1>1, <3>2
      <4>2. f[n] = After(f[n - 1], n) /\ g[n] = f[n] /\ g[n - 1] = f[n - 1]
        BY <1>3, <4>1
      <4> QED BY <3>2, <4>2
    <3> QED BY <3>1, <3>2
  <2>2. g = [n \in 0..N |-> g[n]]
    OBVIOUS
  <2> HIDE DEF g
  <2>3. \A n \in 0..N : g[n] = IF n = 0 THEN <<>>
                               ELSE IF rows[n].severity = s THEN Review!Grouped(rows, g[n - 1], n)
                               ELSE g[n - 1]
    BY <2>1
  <2> QED BY <2>2, <2>3
<1>5. Groups(grouped)
  <2> HIDE DEF Groups
  <2> QED BY <1>4, Zenon
<1>6. \A n \in 0..N : grouped[n] = IF n = 0 THEN <<>> ELSE After(grouped[n - 1], n)
  <2> HIDE DEF grouped
  <2> QED BY <1>5
<1> HIDE DEF grouped, Groups
<1>7. \A n \in 0..N : GroupsOK(grouped[n], rows, s, n)
  <2> DEFINE S == {n \in Nat : n <= N => GroupsOK(grouped[n], rows, s, n)}
  <2>1. 0 \in S
    <3>1. grouped[0] = <<>>
      BY <1>1, <1>6
    <3>2. GroupsOK(<<>>, rows, s, 0)
      BY DEF GroupsOK
    <3> QED BY <3>1, <3>2
  <2>2. ASSUME NEW n \in Nat, n \in S PROVE n + 1 \in S
    <3> SUFFICES ASSUME n + 1 <= N PROVE GroupsOK(grouped[n + 1], rows, s, n + 1)
      OBVIOUS
    <3>1. n <= N /\ n + 1 \in 0..N /\ n + 1 \in 1..N /\ (n + 1) - 1 = n /\ n + 1 # 0
      BY <1>1
    <3>2. GroupsOK(grouped[n], rows, s, n) /\ rows[n + 1].kind \in CheckKinds
      BY <1>1, <2>2, <3>1
    <3>3. grouped[n + 1] = After(grouped[n], n + 1)
      BY <1>6, <3>1
    <3> QED BY <3>2, <3>3, OthersPass, GroupedKeeps
  <2>3. Nat \subseteq S
    <3> HIDE DEF S
    <3> QED BY <2>1, <2>2, NumbersReached
  <2> QED BY <1>1, <2>3
<1>8. GroupsOK(grouped[N], rows, s, N)
  BY <1>1, <1>7
<1> QED BY <1>8 DEF Review!groupViolations, grouped, Groups

\* Every row is in one group of its severity and in no other.
LEMMA GroupsArePartition == ASSUME listed.rows \in Review!Results PROVE Review!GroupsPartition
<1> SUFFICES ASSUME NEW s \in Review!Severities
             PROVE  LET groups == Review!groupViolations(listed.rows, s)
                    IN  /\ \A i \in DOMAIN listed.rows : listed.rows[i].severity = s =>
                             \E g \in DOMAIN groups : groups[g].ids = Review!Kin(i)
                        /\ \A g, h \in DOMAIN groups :
                             g # h => groups[g].ids \cap groups[h].ids = {}
  BY DEF Review!GroupsPartition
<1> DEFINE groups == Review!groupViolations(listed.rows, s)
<1>1. GroupsOK(groups, listed.rows, s, Len(listed.rows))
  BY GroupsAre
<1>2. DOMAIN listed.rows = 1..Len(listed.rows)
  BY RowsOfResult
<1> HIDE DEF groups
<1>3. ASSUME NEW i \in DOMAIN listed.rows, listed.rows[i].severity = s
      PROVE  \E g \in DOMAIN groups : groups[g].ids = Review!Kin(i)
  <2>1. PICK g \in DOMAIN groups : groups[g].key = listed.rows[i].kind
    BY <1>1, <1>2, <1>3 DEF GroupsOK
  <2> QED BY <1>1, <1>2, <1>3, <2>1 DEF GroupsOK, OfKind, Review!Kin
<1>4. \A g, h \in DOMAIN groups : g # h => groups[g].ids \cap groups[h].ids = {}
  BY <1>1 DEF GroupsOK, OfKind
<1> QED BY <1>3, <1>4 DEF groups

\* The verdicts of the two panels on one list: a check that fails has a violation as first row.
LEMMA VerdictsAgreeOnRows == ASSUME listed.rows \in Review!Results PROVE Review!VerdictsAgree
<1> DEFINE rows == listed.rows
           hard == {i \in DOMAIN rows : rows[i].severity = "violation"}
           total == Review!totalCount(rows, "violation")
<1>1. DOMAIN rows = 1..Len(rows) /\ Len(rows) \in Nat
  BY RowsOfResult
<1>2. total \in Nat /\ (total = 0 <=> hard = {})
  <2>1. IsFiniteSet(hard)
    <3>1. IsFiniteSet(1..Len(rows)) /\ hard \subseteq 1..Len(rows)
      BY <1>1, FS_Interval
    <3> QED BY <3>1, FS_Subset
  <2>2. total = Cardinality(hard)
    BY SameCount DEF Review!totalCount
  <2> QED BY <2>1, <2>2, FS_CardinalityType, FS_EmptySet
<1> HIDE DEF total
<1>3. ASSUME NEW k \in CheckKinds
      PROVE  /\ Review!getCheckResult(rows, k) = "pass" <=> k \notin Review!failedChecks(rows)
             /\ Review!getCheckResult(rows, k) = "fail" => total > 0
  <2> DEFINE ofKind == {i \in DOMAIN rows : rows[i].kind = k}
             first == CHOOSE i \in ofKind : \A j \in ofKind : i <= j
  <2>1. ofKind = {} <=> k \notin Review!failedChecks(rows)
    BY DEF Review!failedChecks
  <2>2. ofKind # {} => first \in ofKind
    <3>1. ofKind \subseteq Nat
      BY <1>1
    <3> HIDE DEF ofKind
    <3> QED BY <3>1, SmallestNumber
  <2>3. Review!getCheckResult(rows, k) = IF ofKind = {} THEN "pass"
          ELSE IF rows[first].severity = "violation" THEN "fail" ELSE "warn"
    BY DEF Review!getCheckResult
  <2> HIDE DEF first
  <2>4. Review!getCheckResult(rows, k) = "fail" => hard # {}
    BY <2>2, <2>3
  <2> QED BY <1>2, <2>1, <2>3, <2>4
<1>4. ASSUME NEW status \in Review!Statuses
      PROVE  /\ (Review!resultsVerdict(rows, status) = "failed")
                  <=> (Review!statusVerdict(rows, status) = "failed")
             /\ total > 0 => Review!statusVerdict(rows, status) \in {"failed", "approved"}
  BY <1>2 DEF Review!resultsVerdict, Review!statusVerdict, total
<1> QED BY <1>3, <1>4 DEF Review!VerdictsAgree, Review!ResultsPanel, Review!StatusPanel

\* What is listed, what is picked of it, and what the panel shows.
PanelInv ==
  /\ Review!TypeOK
  /\ listed.result <= landed /\ (listed.result = 0 => listed.rows = <<>>)
  /\ selectedWarning # Review!NoWarning => selectedWarning.result >= 1
  /\ Review!PickedGroupIsRinged /\ Review!HardFailuresOpen /\ Review!ApprovalFolds

LEMMA NoRowsAreResult == <<>> \in Review!Results
<1>1. <<>> \in [1..0 -> Review!Row] /\ 0 \in 0..MaxRows
  BY PagesAssumption DEF Review!PanelsAssumption
<1> QED BY <1>1, Zenon DEF Review!Results

LEMMA PanelsStart == ASSUME Review!Init PROVE PanelInv
<1> USE DEF Review!Init
<1>1. /\ listed.result = 0 /\ listed.rows = <<>> /\ landed = 0
      /\ selectedWarning = Review!NoWarning
      /\ selectedWarning.result = 0 /\ selectedWarning.waypoints = {}
  BY DEF Review!NoRows, Review!NoWarning
<1>2. expanded \in [Review!Severities -> BOOLEAN]
  BY Zenon DEF Review!buildInitialExpanded, Review!defaultExpandFor
<1>3. Review!TypeOK
  <2>1. place \in Review!Places /\ missionStatus \in Review!Statuses \cup {Review!NoStatus}
    OBVIOUS
  <2>2. loading \in BOOLEAN /\ failed \in BOOLEAN /\ hasPlan \in BOOLEAN /\ collapsed \in BOOLEAN
    OBVIOUS
  <2>3. listed.result \in 0..MaxResults /\ landed \in 0..MaxResults /\ selectedWarning.result \in 0..landed
    BY <1>1, PagesAssumption DEF Review!PanelsAssumption
  <2>4. listed.rows \in Review!Results /\ selectedWarning.waypoints \subseteq 1..MaxRows
        /\ byHand \subseteq Review!Severities \cup {"panel"}
    BY <1>1, NoRowsAreResult
  <2> QED BY <1>2, <2>1, <2>2, <2>3, <2>4 DEF Review!TypeOK
<1>4. ~Review!mounted
  BY DEF Review!mounted, Review!pageShown
<1> QED BY <1>1, <1>3, <1>4
        DEF PanelInv, Review!PickedGroupIsRinged, Review!HardFailuresOpen, Review!ApprovalFolds

\* A rendering opens the violations when their number has changed, folds the panel with the
\* approval, and otherwise leaves what the operator has done.
LEMMA RenderedKeeps ==
  ASSUME PanelInv, Review!Rendered, place' = place, listed'.rows \in Review!Results
  PROVE  /\ expanded' \in [Review!Severities -> BOOLEAN] /\ collapsed' \in BOOLEAN
         /\ byHand' \subseteq Review!Severities \cup {"panel"}
         /\ Review!HardFailuresOpen' /\ Review!ApprovalFolds'
<1> DEFINE changed == Review!Totals(listed'.rows) # Review!Totals(listed.rows)
           hard(rows) == Review!totalCount(rows, "violation")
<1>0. /\ expanded \in [Review!Severities -> BOOLEAN] /\ collapsed \in BOOLEAN
      /\ byHand \subseteq Review!Severities \cup {"panel"}
      /\ Review!HardFailuresOpen /\ Review!ApprovalFolds
  BY DEF PanelInv, Review!TypeOK
<1>1. \A rows : Review!buildInitialExpanded(rows) \in [Review!Severities -> BOOLEAN]
  BY Zenon DEF Review!buildInitialExpanded, Review!defaultExpandFor
<1>2. \A rows : hard(rows) > 0 => Review!buildInitialExpanded(rows)["violation"]
  BY DEF Review!buildInitialExpanded, Review!defaultExpandFor, Review!Severities
<1>3. ~changed => hard(listed'.rows) = hard(listed.rows)
  BY DEF Review!Totals, Review!Severities
<1>4. /\ expanded' = IF ~Review!mounted' THEN Review!buildInitialExpanded(<<>>)
                     ELSE IF ~Review!mounted \/ changed
                     THEN Review!buildInitialExpanded(listed'.rows) ELSE expanded
      /\ collapsed' = IF ~Review!mounted' THEN FALSE
                      ELSE IF ~Review!mounted THEN Review!StartsCollapsed(missionStatus')
                      ELSE IF Review!approved THEN TRUE ELSE collapsed
      /\ byHand' = IF ~Review!mounted' \/ ~Review!mounted THEN {}
                   ELSE byHand \ ((IF changed THEN Review!Severities ELSE {})
                                    \cup (IF Review!approved THEN {"panel"} ELSE {}))
  BY DEF Review!Rendered, Review!expandedAfter, Review!collapsedAfter, Review!byHandAfter
<1>5. Review!StartsCollapsed(missionStatus') \in BOOLEAN
  BY Zenon DEF Review!StartsCollapsed
<1> HIDE DEF changed, hard
<1>6. expanded' \in [Review!Severities -> BOOLEAN] /\ collapsed' \in BOOLEAN
  BY <1>0, <1>1, <1>4, <1>5
<1>7. byHand' \subseteq Review!Severities \cup {"panel"}
  BY <1>0, <1>4
<1>8. ASSUME Review!mounted', hard(listed'.rows) > 0
      PROVE  expanded'["violation"] \/ "violation" \in byHand'
  <2>1. CASE ~Review!mounted \/ changed
    BY <1>2, <1>4, <1>8, <2>1
  <2>2. CASE Review!mounted /\ ~changed
    <3>1. expanded["violation"] \/ "violation" \in byHand
      BY <1>0, <1>3, <1>8, <2>2 DEF Review!HardFailuresOpen, hard
    <3> QED BY <1>4, <1>8, <2>2, <3>1
  <2> QED BY <2>1, <2>2
<1>9. ASSUME place = "validation", Review!mounted', missionStatus' # "PLANNED"
      PROVE  collapsed' \/ "panel" \in byHand'
  <2>1. CASE ~Review!mounted
    BY <1>4, <1>9, <2>1 DEF Review!StartsCollapsed
  <2>2. CASE Review!mounted /\ Review!approved
    BY <1>4, <1>9, <2>2
  <2>3. CASE Review!mounted /\ ~Review!approved
    <3>1. collapsed \/ "panel" \in byHand
      BY <1>0, <1>9, <2>3 DEF Review!ApprovalFolds, Review!approved
    <3> QED BY <1>4, <1>9, <2>3, <3>1 DEF Review!Severities
  <2> QED BY <2>1, <2>2, <2>3
<1> QED BY <1>6, <1>7, <1>8, <1>9 DEF Review!HardFailuresOpen, Review!ApprovalFolds, hard

\* A landing keeps the picked warning: the rows it was picked from are still the ones listed, or
\* the list is empty or of a later result.
LEMMA LandingKeeps ==
  ASSUME PanelInv, Review!Rendered, place' = place, selectedWarning' = selectedWarning,
         loading' \in BOOLEAN, failed' \in BOOLEAN, hasPlan' \in BOOLEAN,
         missionStatus' \in Review!Statuses \cup {Review!NoStatus},
         \/ listed' = listed /\ landed' = landed
         \/ listed' = Review!NoRows /\ landed' = landed
         \/ /\ listed'.result = landed + 1 /\ listed'.rows \in Review!Results
            /\ landed' = landed + 1 /\ landed < MaxResults
  PROVE  PanelInv'
<1>0. /\ Review!TypeOK /\ Review!PickedGroupIsRinged /\ listed.result <= landed
      /\ listed.result = 0 => listed.rows = <<>>
      /\ selectedWarning # Review!NoWarning => selectedWarning.result >= 1
      /\ MaxResults \in Nat
  BY PagesAssumption DEF PanelInv, Review!PanelsAssumption
<1>1. /\ place \in Review!Places /\ listed.rows \in Review!Results
      /\ listed.result \in 0..MaxResults /\ landed \in 0..MaxResults
      /\ selectedWarning.result \in 0..landed /\ selectedWarning.waypoints \subseteq 1..MaxRows
  BY <1>0 DEF Review!TypeOK
<1>2. Review!NoRows.result = 0 /\ Review!NoRows.rows = <<>>
  BY DEF Review!NoRows
<1>3. listed'.rows \in Review!Results
  BY <1>1, <1>2, NoRowsAreResult
<1>4. /\ listed'.result \in 0..MaxResults /\ landed' \in 0..MaxResults
      /\ selectedWarning.result \in 0..landed' /\ listed'.result <= landed'
      /\ listed'.result = 0 => listed'.rows = <<>>
  BY <1>0, <1>1, <1>2
<1>5. Review!TypeOK'
  BY <1>1, <1>3, <1>4, RenderedKeeps DEF Review!TypeOK
<1>6. Review!PickedGroupIsRinged'
  <2>1. CASE listed' = listed
    BY <1>0, <2>1 DEF Review!PickedGroupIsRinged, Review!ringed, Review!Kin, Review!NoWarning
  <2>2. CASE listed'.result = 0 \/ listed'.result = landed + 1
    BY <1>0, <1>1, <2>2 DEF Review!PickedGroupIsRinged, Review!NoWarning
  <2> QED BY <1>2, <2>1, <2>2
<1>7. Review!HardFailuresOpen' /\ Review!ApprovalFolds'
  BY <1>3, RenderedKeeps
<1> QED BY <1>0, <1>4, <1>5, <1>6, <1>7 DEF PanelInv, Review!NoWarning

LEMMA LandsKeep ==
  ASSUME PanelInv, Review!OpenMission \/ Review!fetchData \/ Review!Lands
  PROVE  PanelInv'
<1>0. /\ loading \in BOOLEAN /\ failed \in BOOLEAN /\ hasPlan \in BOOLEAN
      /\ missionStatus \in Review!Statuses \cup {Review!NoStatus}
  BY DEF PanelInv, Review!TypeOK
<1>1. CASE Review!OpenMission
  BY <1>0, <1>1, LandingKeeps DEF Review!OpenMission
<1>2. CASE Review!fetchData
  <2>1. loading' \in BOOLEAN
    BY <1>2, Zenon DEF Review!fetchData
  <2> QED BY <1>0, <1>2, <2>1, LandingKeeps DEF Review!fetchData
<1>3. ASSUME NEW status \in Review!Statuses, Review!MissionLands(status)
      PROVE  PanelInv'
  BY <1>0, <1>3, LandingKeeps DEF Review!MissionLands
<1>4. ASSUME NEW rows \in Review!Results, Review!PlanLands(rows)
      PROVE  PanelInv'
  <2>1. listed'.result = landed + 1 /\ listed'.rows = rows
    BY <1>4 DEF Review!PlanLands
  <2>2. loading' \in BOOLEAN
    BY <1>0, <1>4 DEF Review!PlanLands
  <2> QED BY <1>0, <1>4, <2>1, <2>2, LandingKeeps DEF Review!PlanLands
<1>5. CASE Review!PlanAgain
  BY <1>0, <1>5, LandingKeeps DEF Review!PlanAgain
<1>6. CASE Review!NoPlanLands
  BY <1>0, <1>6, LandingKeeps DEF Review!NoPlanLands
<1>7. CASE Review!MissionFails
  BY <1>0, <1>7, LandingKeeps DEF Review!MissionFails
<1> QED BY <1>1, <1>2, <1>3, <1>4, <1>5, <1>6, <1>7 DEF Review!Lands

\* Opening and closing the panel or a section: what the operator opens or closes by hand is noted.
LEMMA TogglesKeep ==
  ASSUME PanelInv, Review!togglePanel \/ \E s \in Review!Severities : Review!toggleSection(s)
  PROVE  PanelInv'
<1>0. /\ Review!TypeOK /\ Review!HardFailuresOpen /\ Review!ApprovalFolds
      /\ expanded \in [Review!Severities -> BOOLEAN] /\ collapsed \in BOOLEAN
      /\ byHand \subseteq Review!Severities \cup {"panel"}
  BY DEF PanelInv, Review!TypeOK
<1>1. UNCHANGED <<place, loading, failed, missionStatus, hasPlan, listed, selectedWarning, landed>>
  BY DEF Review!togglePanel, Review!toggleSection
<1>2. Review!mounted' = Review!mounted
  BY <1>1 DEF Review!mounted, Review!pageShown
<1> SUFFICES /\ expanded' \in [Review!Severities -> BOOLEAN] /\ collapsed' \in BOOLEAN
             /\ byHand' \subseteq Review!Severities \cup {"panel"}
             /\ Review!HardFailuresOpen' /\ Review!ApprovalFolds'
  <2>1. Review!PickedGroupIsRinged'
    BY <1>1 DEF PanelInv, Review!PickedGroupIsRinged, Review!ringed, Review!Kin
  <2>2. Review!TypeOK' <=> /\ expanded' \in [Review!Severities -> BOOLEAN] /\ collapsed' \in BOOLEAN
                           /\ byHand' \subseteq Review!Severities \cup {"panel"}
    BY <1>0, <1>1 DEF Review!TypeOK
  <2> QED BY <1>1, <2>1, <2>2 DEF PanelInv
<1>3. CASE Review!togglePanel
  <2>1. /\ expanded' = expanded /\ collapsed' = ~collapsed
        /\ byHand' = IF place = "validation" /\ missionStatus # "PLANNED" /\ collapsed
                     THEN byHand \cup {"panel"} ELSE byHand \ {"panel"}
    BY <1>3 DEF Review!togglePanel
  <2>2. collapsed' \in BOOLEAN
    BY <2>1, Zenon
  <2>3. byHand' \subseteq Review!Severities \cup {"panel"}
        /\ ("violation" \in byHand' <=> "violation" \in byHand)
    BY <1>0, <2>1
  <2>4. Review!HardFailuresOpen'
    BY <1>0, <1>1, <1>2, <2>1, <2>3 DEF Review!HardFailuresOpen
  <2>5. Review!ApprovalFolds'
    BY <1>1, <2>1 DEF Review!ApprovalFolds
  <2> QED BY <1>0, <2>1, <2>2, <2>3, <2>4, <2>5
<1>4. ASSUME NEW s \in Review!Severities, Review!toggleSection(s)
      PROVE  /\ expanded' \in [Review!Severities -> BOOLEAN] /\ collapsed' \in BOOLEAN
             /\ byHand' \subseteq Review!Severities \cup {"panel"}
             /\ Review!HardFailuresOpen' /\ Review!ApprovalFolds'
  <2>1. /\ expanded' = [expanded EXCEPT ![s] = ~@] /\ collapsed' = collapsed
        /\ byHand' = IF expanded[s] THEN byHand \cup {s} ELSE byHand \ {s}
    BY <1>4 DEF Review!toggleSection
  <2>2. expanded' \in [Review!Severities -> BOOLEAN]
    <3> DEFINE other == ~expanded[s]
    <3>1. other \in BOOLEAN
      BY Zenon
    <3> HIDE DEF other
    <3> QED BY <1>0, <2>1, <3>1 DEF other
  <2>3. expanded'[s] = ~expanded[s] /\ \A t \in Review!Severities \ {s} : expanded'[t] = expanded[t]
    BY <1>0, <2>1, Zenon
  <2>4. "violation" \in Review!Severities /\ "panel" \notin Review!Severities
    BY DEF Review!Severities
  <2>5. byHand' \subseteq Review!Severities \cup {"panel"}
        /\ ("panel" \in byHand' <=> "panel" \in byHand)
    BY <1>0, <2>1, <2>4
  <2>6. expanded["violation"] \/ "violation" \in byHand
          => expanded'["violation"] \/ "violation" \in byHand'
    <3>1. CASE s = "violation"
      BY <2>1, <2>3, <3>1
    <3>2. CASE s # "violation"
      BY <2>1, <2>3, <2>4, <3>2
    <3> QED BY <3>1, <3>2
  <2>7. Review!HardFailuresOpen'
    BY <1>0, <1>1, <1>2, <2>6 DEF Review!HardFailuresOpen
  <2>8. Review!ApprovalFolds'
    BY <1>0, <1>1, <1>2, <2>1, <2>5 DEF Review!ApprovalFolds
  <2> QED BY <1>0, <2>1, <2>2, <2>5, <2>7, <2>8
<1> QED BY <1>3, <1>4

\* Only the picked warning changes.
LEMMA PickKeeps ==
  ASSUME PanelInv,
         UNCHANGED <<place, loading, failed, missionStatus, hasPlan, listed, collapsed, expanded,
                     landed, byHand>>,
         selectedWarning'.result \in 0..landed, selectedWarning'.waypoints \subseteq 1..MaxRows,
         selectedWarning' # Review!NoWarning => selectedWarning'.result >= 1,
         Review!PickedGroupIsRinged'
  PROVE  PanelInv'
<1>1. Review!TypeOK'
  BY DEF PanelInv, Review!TypeOK
<1>2. Review!HardFailuresOpen' /\ Review!ApprovalFolds'
  BY DEF PanelInv, Review!HardFailuresOpen, Review!ApprovalFolds, Review!mounted, Review!pageShown
<1> QED BY <1>1, <1>2 DEF PanelInv, Review!NoWarning

\* A picked group has a row and all rows like it.
LEMMA handleGroupClickKeeps ==
  ASSUME PanelInv, NEW s \in Review!Severities,
         NEW n \in DOMAIN Review!groupViolations(listed.rows, s),
         Review!handleGroupClick(s, Review!groupViolations(listed.rows, s)[n])
  PROVE  PanelInv'
<1> DEFINE groups == Review!groupViolations(listed.rows, s)
           g == groups[n]
           rows == listed.rows
<1>1. rows \in Review!Results /\ listed.result \in Nat /\ listed.result <= landed /\ landed \in Nat
      /\ (listed.result = 0 => rows = <<>>)
  BY PagesAssumption DEF PanelInv, Review!TypeOK, Review!PanelsAssumption
<1>2. Len(rows) \in 0..MaxRows /\ Len(rows) \in Nat /\ DOMAIN rows = 1..Len(rows) /\ MaxRows \in Nat
  BY <1>1, RowsOfResult, PagesAssumption DEF Review!PanelsAssumption
<1>3. /\ g.affected = OfKind(rows, s, Len(rows), g.key)
      /\ g.first \in OfKind(rows, s, Len(rows), g.key)
  BY <1>1, GroupsAre DEF GroupsOK
<1>4. UNCHANGED <<place, loading, failed, missionStatus, hasPlan, listed, collapsed, expanded,
                  landed, byHand>>
  BY DEF Review!handleGroupClick, Review!panelVars
<1>5. \/ selectedWarning' = Review!NoWarning
      \/ selectedWarning' = [result |-> listed.result, row |-> g.first, severity |-> s,
                             waypoints |-> g.affected]
  BY DEF Review!handleGroupClick, Review!pickGroupForSelection
<1> HIDE DEF groups, g
<1>6. CASE selectedWarning' = Review!NoWarning
  <2>1. selectedWarning'.result = 0 /\ selectedWarning'.waypoints = {}
    BY <1>6 DEF Review!NoWarning
  <2>2. Review!PickedGroupIsRinged'
    BY <1>6 DEF Review!PickedGroupIsRinged, Review!NoWarning
  <2> QED BY <1>1, <1>4, <1>6, <2>1, <2>2, PickKeeps
<1>7. CASE selectedWarning' = [result |-> listed.result, row |-> g.first, severity |-> s,
                               waypoints |-> g.affected]
  <2>1. /\ selectedWarning'.result = listed.result /\ selectedWarning'.row = g.first
        /\ selectedWarning'.severity = s /\ selectedWarning'.waypoints = g.affected
    BY <1>7
  <2>2. g.first \in 1..Len(rows) /\ rows[g.first].severity = s /\ rows[g.first].kind = g.key
    BY <1>3 DEF OfKind
  <2>3. g.affected \subseteq 1..MaxRows
    BY <1>2, <1>3 DEF OfKind
  <2>4. listed.result >= 1
    BY <1>1, <1>2, <2>2
  <2>5. Review!Kin(g.first) = g.affected
    BY <1>2, <1>3, <2>2 DEF Review!Kin, OfKind
  <2>6. Review!PickedGroupIsRinged'
    BY <1>4, <2>1, <2>2, <2>5 DEF Review!PickedGroupIsRinged, Review!ringed, Review!Kin
  <2> QED BY <1>1, <1>4, <2>1, <2>3, <2>4, <2>6, PickKeeps
<1> QED BY <1>5, <1>6, <1>7

LEMMA PanelsKeep == ASSUME PanelInv, Review!Next PROVE PanelInv'
<1>1. CASE Review!OpenMission \/ Review!fetchData \/ Review!Lands
  BY <1>1, LandsKeep
<1>2. CASE Review!togglePanel \/ \E s \in Review!Severities : Review!toggleSection(s)
  BY <1>2, TogglesKeep
<1>3. ASSUME NEW s \in Review!Severities,
             NEW n \in DOMAIN Review!groupViolations(listed.rows, s),
             Review!handleGroupClick(s, Review!groupViolations(listed.rows, s)[n])
      PROVE  PanelInv'
  BY <1>3, handleGroupClickKeeps
<1>4. CASE Review!onWarningClose
  <2>1. selectedWarning' = Review!NoWarning /\ selectedWarning'.result = 0
        /\ selectedWarning'.waypoints = {}
    BY <1>4 DEF Review!onWarningClose, Review!NoWarning
  <2>2. Review!PickedGroupIsRinged'
    BY <2>1 DEF Review!PickedGroupIsRinged, Review!NoWarning
  <2>3. landed \in Nat
    BY PagesAssumption DEF PanelInv, Review!TypeOK, Review!PanelsAssumption
  <2> QED BY <1>4, <2>1, <2>2, <2>3, PickKeeps DEF Review!onWarningClose, Review!panelVars
<1> QED BY <1>1, <1>2, <1>3, <1>4 DEF Review!Next, Review!Operator

-----------------------------------------------------------------------------
(* The pages together *)

\* The page that is explored has its invariant.
EntriesInv == (page = "config" => ConfigInv) /\ (page = "coordinates" => CoordInv)

LEMMA EntriesHold == Spec => []EntriesInv
<1>1. Init => EntriesInv
  BY ConfigStarts, CoordStarts DEF Init, EntriesInv
<1>2. EntriesInv /\ [Next]_<<page, waypointVars, toolVars, configVars, coordinateVars, reviewVars>>
        => EntriesInv'
  <2> SUFFICES ASSUME EntriesInv,
                      [Next]_<<page, waypointVars, toolVars, configVars, coordinateVars, reviewVars>>
               PROVE  EntriesInv'
    OBVIOUS
  <2>1. ASSUME Next, page = "config" PROVE ConfigInv'
    BY <2>1, ConfigKeeps DEF Next, EntriesInv
  <2>2. ASSUME Next, page = "coordinates" PROVE CoordInv'
    BY <2>2, CoordKeeps DEF Next, EntriesInv
  <2>3. CASE UNCHANGED <<page, waypointVars, toolVars, configVars, coordinateVars, reviewVars>>
    <3>1. UNCHANGED <<page, configVars, coordinateVars>>
      BY <2>3
    <3>2. ASSUME ConfigInv PROVE ConfigInv'
      <4>1. Config!TypeOK' /\ IsFiniteSet(ops')
        BY <3>1, <3>2 DEF ConfigInv, configVars, Config!TypeOK
      <4>2. FieldsKept' /\ ConfigsKept' /\ SelectionHas' /\ EditsKnown' /\ OneSave'
        BY <3>1, <3>2 DEF ConfigInv, configVars, FieldsKept, FieldHas, ConfigsKept, ConfigHas,
                          SelectionHas, EditsKnown, OneSave
      <4>3. ASSUME NEW o \in ops' PROVE OpOK(o)'
        <5>1. OpOK(o)
          BY <3>1, <3>2 DEF ConfigInv, configVars
        <5> QED BY <3>1, <5>1 DEF configVars, OpOK, FieldsAgree, ConfigsAgree
      <4> QED BY <4>1, <4>2, <4>3 DEF ConfigInv
    <3>3. ASSUME CoordInv PROVE CoordInv'
      BY <3>1, <3>3 DEF coordinateVars, CoordInv, Coord!TypeOK, Coord!LandingFollows
    <3> QED BY <3>1, <3>2, <3>3 DEF EntriesInv
  <2>4. Next => page' = page
    BY DEF Next
  <2> QED BY <2>1, <2>2, <2>3, <2>4 DEF EntriesInv
<1> QED BY <1>1, <1>2, PTL DEF Spec

\* EntriesKept: whatever part of a save fails and whichever answer is lost, what the
\* operator entered last on the configuration page is unsaved or stored and the selection
\* shown is a real one, and on a round trip the landing follows the takeoff; for every set
\* of fields, inspections and axes, any limit, and any number of requests under way.
THEOREM EntriesAreKept == Spec => []EntriesKept
<1>1. EntriesInv => EntriesKept
  BY KeptSays DEF EntriesInv, ConfigInv, CoordInv, EntriesKept
<1> QED BY <1>1, EntriesHold, PTL

\* The map with the moves, likewise.
MovesInv == page = "waypoints" => WaypointInv

LEMMA MovesHold == Spec => []MovesInv
<1>1. Init => MovesInv
  BY WaypointsStart DEF Init, MovesInv
<1>2. MovesInv /\ [Next]_<<page, waypointVars, toolVars, configVars, coordinateVars, reviewVars>>
        => MovesInv'
  <2> SUFFICES ASSUME MovesInv,
                      [Next]_<<page, waypointVars, toolVars, configVars, coordinateVars, reviewVars>>
               PROVE  MovesInv'
    OBVIOUS
  <2>1. ASSUME Next, page = "waypoints" PROVE WaypointInv'
    BY <2>1, WaypointsKeep DEF Next, MovesInv
  <2>2. CASE UNCHANGED <<page, waypointVars, toolVars, configVars, coordinateVars, reviewVars>>
    <3>1. ASSUME WaypointInv PROVE WaypointInv'
      <4>1. EditsInv'
        BY <2>2, <3>1, EditsStay DEF WaypointInv, waypointVars
      <4> QED BY <2>2, <3>1, <4>1 DEF WaypointInv, RequestsInv, waypointVars
    <3> QED BY <2>2, <3>1 DEF MovesInv
  <2>3. Next => page' = page
    BY DEF Next
  <2> QED BY <2>1, <2>2, <2>3 DEF MovesInv
<1> QED BY <1>1, <1>2, PTL DEF Spec

\* MovesAreShown: unsaved moves are of waypoints of the plan on the map, undo takes back the
\* move the map shows, and with every move undone nothing is left to save; for every plan,
\* depth of the undo stack and number of requests under way.
THEOREM MovesAreAlwaysShown == Spec => []MovesAreShown
<1>1. MovesInv => MovesAreShown
  BY UndoIsTheMap, UndoneIsBeginning DEF MovesInv, WaypointInv, EditsInv, MovesAreShown
<1> QED BY <1>1, MovesHold, PTL

\* The tools and the panels, likewise.
PhaseInv == (page = "tools" => ToolInv) /\ (page = "violations" => PanelInv)

LEMMA PhaseHolds == Spec => []PhaseInv
<1>1. Init => PhaseInv
  BY ToolStarts, PanelsStart DEF Init, PhaseInv
<1>2. PhaseInv /\ [Next]_<<page, waypointVars, toolVars, configVars, coordinateVars, reviewVars>>
        => PhaseInv'
  <2> SUFFICES ASSUME PhaseInv,
                      [Next]_<<page, waypointVars, toolVars, configVars, coordinateVars, reviewVars>>
               PROVE  PhaseInv'
    OBVIOUS
  <2>1. ASSUME Next, page = "tools" PROVE ToolInv'
    BY <2>1, ToolKeeps DEF Next, PhaseInv
  <2>2. ASSUME Next, page = "violations" PROVE PanelInv'
    BY <2>2, PanelsKeep DEF Next, PhaseInv
  <2>3. CASE UNCHANGED <<page, waypointVars, toolVars, configVars, coordinateVars, reviewVars>>
    <3>1. UNCHANGED <<page, toolVars, reviewVars>>
      BY <2>3
    <3>2. ASSUME ToolInv PROVE ToolInv'
      <4>1. UNCHANGED <<activeTool, is3D, measure, heading, flight, playable, mirror, markers,
                        placements, pending>>
        BY <3>1 DEF toolVars
      <4>2. Tool!TypeOK' /\ Tool!MeasureShape'
        BY <3>2, <4>1 DEF ToolInv, Tool!TypeOK, Tool!MeasureShape
      <4>3. Tool!PlaysIn3D' /\ Tool!IndicatorEnds'
        BY <3>2, <4>1 DEF ToolInv, Tool!PlaysIn3D, Tool!IndicatorEnds
      <4> QED BY <4>2, <4>3 DEF ToolInv
    <3>3. ASSUME PanelInv PROVE PanelInv'
      <4>1. UNCHANGED <<place, loading, failed, missionStatus, hasPlan, listed, collapsed, expanded,
                        selectedWarning, landed, byHand>>
        BY <3>1 DEF reviewVars
      <4>2. Review!PickedGroupIsRinged'
        BY <3>3, <4>1 DEF PanelInv, Review!PickedGroupIsRinged, Review!ringed, Review!Kin,
                          Review!NoWarning
      <4>3. /\ selectedWarning'.result \in 0..landed /\ selectedWarning'.waypoints \subseteq 1..MaxRows
            /\ selectedWarning' # Review!NoWarning => selectedWarning'.result >= 1
        BY <3>3, <4>1 DEF PanelInv, Review!TypeOK
      <4> QED BY <3>3, <4>1, <4>2, <4>3, PickKeeps
    <3> QED BY <3>1, <3>2, <3>3 DEF PhaseInv
  <2>4. Next => page' = page
    BY DEF Next
  <2> QED BY <2>1, <2>2, <2>3, <2>4 DEF PhaseInv
<1> QED BY <1>1, <1>2, PTL DEF Spec

\* PanelsInPhase: the tools leave the map as their phase says; the rows of a result are grouped
\* without loss, the picked group rings all its waypoints, violations stay in view, the panel
\* folds with the approval, and the panels agree; for every list of rows, any number of results
\* in any order, and any limit of a measured path.
THEOREM PanelsAlwaysInPhase == Spec => []PanelsInPhase
<1>1. PhaseInv => PanelsInPhase
  <2>1. PanelInv => Review!GroupsPartition /\ Review!VerdictsAgree
    BY GroupsArePartition, VerdictsAgreeOnRows DEF PanelInv, Review!TypeOK
  <2> QED BY <2>1 DEF PhaseInv, ToolInv, PanelInv, PanelsInPhase
<1> QED BY <1>1, PhaseHolds, PTL

\* TypeOK: every variable of the page that is explored stays in its range.
THEOREM PagesTyped == Spec => []TypeOK
<1>1. Init => page \in Pages
  BY DEF Init
<1>2. page \in Pages
        /\ [Next]_<<page, waypointVars, toolVars, configVars, coordinateVars, reviewVars>>
        => (page \in Pages)'
  BY DEF Next
<1>3. EntriesInv /\ MovesInv /\ PhaseInv /\ page \in Pages => TypeOK
  <2>1. /\ ConfigInv => Config!TypeOK
        /\ CoordInv => Coord!TypeOK
        /\ ToolInv => Tool!TypeOK
        /\ PanelInv => Review!TypeOK
    BY DEF ConfigInv, CoordInv, ToolInv, PanelInv
  <2> QED BY <2>1, WaypointsTyped DEF EntriesInv, MovesInv, PhaseInv, Pages, TypeOK
<1> QED BY <1>1, <1>2, <1>3, EntriesHold, MovesHold, PhaseHolds, PTL DEF Spec
=============================================================================
