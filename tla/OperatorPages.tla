----------------------------- MODULE OperatorPages -----------------------------
(***************************************************************************)
(* The pages of an operator side by side.  TLC explores one page at a      *)
(* time: the others stay as they are loaded.                               *)
(***************************************************************************)
EXTENDS Integers, Sequences, FiniteSets, TLC

CONSTANTS Waypoints, Positions, Saved, MaxSteps, MaxRequests, NoWaypoint,
          MaxPoints, MaxPlacements,
          Inspections, Fields, Points, NoPoint, MaxOps, MAX_INSPECTIONS,
          Axes, Numbers, Default, Unset, MaxPicks,
          CheckKinds, WARNING_AUTO_COLLAPSE_THRESHOLD, MaxRows, MaxResults

VARIABLES page,
  stored, issued, plan, planFrom, dirty, past, future, truncated, dragged,
  button, pan, requests,
  activeTool, is3D, measure, heading, flight, playable, mirror, markers,
  placements, pending,
  storedFields, storedConfigs, shown, missionDirty, inspectionDirty, selectedLhas,
  ops, wanted, raced,
  coordinate, roundTrip, pickingCoord, picks, crossed,
  place, loading, failed, missionStatus, hasPlan, listed, collapsed, expanded,
  selectedWarning, landed, byHand

Waypoint == INSTANCE WaypointEditing
Tool     == INSTANCE MapTools
Config   == INSTANCE MissionConfigEditing
Coord    == INSTANCE CoordinateForm
Review   == INSTANCE ViolationPanels

waypointVars == <<stored, issued, plan, planFrom, dirty, past, future, truncated, dragged,
                  button, pan, requests>>
toolVars == <<activeTool, is3D, measure, heading, flight, playable, mirror, markers,
              placements, pending>>
configVars == <<storedFields, storedConfigs, shown, missionDirty, inspectionDirty,
                selectedLhas, ops, wanted, raced>>
coordinateVars == <<coordinate, roundTrip, pickingCoord, picks, crossed>>
reviewVars == <<place, loading, failed, missionStatus, hasPlan, listed, collapsed, expanded,
                selectedWarning, landed, byHand>>

ASSUME PagesAssumption ==
  /\ Waypoint!EditingAssumption
  /\ Tool!ToolsAssumption
  /\ Config!ConfigAssumption
  /\ Coord!CoordinateAssumption
  /\ Review!PanelsAssumption

Pages == {"waypoints", "tools", "config", "coordinates", "violations"}

\* Where a page stays while another one is explored.
WaypointsAtRest == Waypoint!Init /\ stored = Waypoints
ToolsAtRest == Tool!Init /\ ~playable /\ markers = {} /\ ~mirror
ConfigAtRest == Config!Init /\ shown = {} /\ \A f \in Fields : storedFields[f] = NoPoint
CoordinatesAtRest == Coord!Init /\ \A t \in Coord!Targets : coordinate[t] = Unset
ReviewAtRest == Review!Init /\ place = "overview"

Init ==
  /\ page \in Pages
  /\ IF page = "waypoints" THEN Waypoint!Init ELSE WaypointsAtRest
  /\ IF page = "tools" THEN Tool!Init ELSE ToolsAtRest
  /\ IF page = "config" THEN Config!Init ELSE ConfigAtRest
  /\ IF page = "coordinates" THEN Coord!Init ELSE CoordinatesAtRest
  /\ IF page = "violations" THEN Review!Init ELSE ReviewAtRest

Next ==
  /\ UNCHANGED page
  /\ IF page = "waypoints" THEN Waypoint!Next ELSE UNCHANGED waypointVars
  /\ IF page = "tools" THEN Tool!Next ELSE UNCHANGED toolVars
  /\ IF page = "config" THEN Config!Next ELSE UNCHANGED configVars
  /\ IF page = "coordinates" THEN Coord!Next ELSE UNCHANGED coordinateVars
  /\ IF page = "violations" THEN Review!Next ELSE UNCHANGED reviewVars

Spec == Init /\ [][Next]_<<page, waypointVars, toolVars, configVars, coordinateVars, reviewVars>>

Interchangeable == Permutations(Waypoints) \cup Permutations(Positions) \cup
                   Permutations(Inspections) \cup Permutations(CheckKinds)

-----------------------------------------------------------------------------
(* Properties of the pages, stated in their modules *)

\* Every variable of the page that is explored stays in its range.
TypeOK ==
  CASE page = "waypoints" -> Waypoint!TypeOK
    [] page = "tools" -> Tool!TypeOK
    [] page = "config" -> Config!TypeOK
    [] page = "coordinates" -> Coord!TypeOK
    [] page = "violations" -> Review!TypeOK

\* Unsaved moves are of waypoints of the plan on the map, undo and redo leave on the map what
\* their steps say, and with every move undone nothing is left to save.
MovesAreShown ==
  page = "waypoints" =>
    Waypoint!EditsWithinPlan /\ Waypoint!UndoneIsClean /\ Waypoint!UndoMatchesMap

\* The tools leave the map as their phase says: points of a measured path, the flight played in
\* the 3D view only, the indicator of a placement gone with it.  The violations of a plan are
\* grouped without loss, the picked group rings all its waypoints, violations are in view until
\* the operator folds them away and folded with the approval, and the panels agree on a plan.
PanelsInPhase ==
  /\ page = "tools" => Tool!MeasureShape /\ Tool!PlaysIn3D /\ Tool!IndicatorEnds
  /\ page = "violations" =>
       /\ Review!GroupsPartition /\ Review!PickedGroupIsRinged
       /\ Review!HardFailuresOpen /\ Review!ApprovalFolds /\ Review!VerdictsAgree

\* What the operator entered last on the configuration page is unsaved or stored, the selection
\* of light units is the unsaved one or the server's, and on a round trip the landing follows
\* the takeoff.
EntriesKept ==
  /\ page = "config" => Config!EditsKept /\ Config!SelectionIsReal
  /\ page = "coordinates" => Coord!LandingFollows
=============================================================================
