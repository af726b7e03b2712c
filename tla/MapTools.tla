------------------------------- MODULE MapTools -------------------------------
(***************************************************************************)
(* The tools of the map page (hooks/useMapTools, useMapInteractionTools,   *)
(* useMeasureDistance, useHeadingTool, useFlyAlong,                        *)
(* utils/takeoffLandingPlacement): one active tool, the 2D or 3D map, the  *)
(* measured path, the heading arrow, the playback of the trajectory, and   *)
(* the takeoff and landing markers, which a click places through the       *)
(* elevation service and the server while the operator goes on.  What a    *)
(* tool is and in which states of the map a click or a key means what is   *)
(* kept; coordinates are left out.                                         *)
(***************************************************************************)
EXTENDS Integers, FiniteSets

CONSTANTS
  MaxPoints,      \* points of a measured path (25 in the code)
  MaxPlacements   \* bound: marker placements under way

ToolsAssumption == MaxPoints \in Nat \ {0, 1} /\ MaxPlacements \in Nat

VARIABLES
  activeTool,
  is3D,
  measure,       \* the measured path: points, isDrawing, isComplete
  heading,       \* the arrow: nothing, its origin, or locked at its end
  flight,        \* the status of the playback
  playable,      \* the trajectory has two waypoints or more
  mirror,        \* useTakeoffAsLanding: the markers coincide
  markers,       \* the markers the mission has, as the page shows them
  placements,    \* placements under way
  pending        \* pendingPlacement: the markers shown as not saved

vars == <<activeTool, is3D, measure, heading, flight, playable, mirror,
          markers, placements, pending>>

trajectory == <<flight, playable>>
drawings   == <<measure, heading>>
placing    == <<mirror, markers, placements, pending>>

PlacementTools == {"PLACE_TAKEOFF", "PLACE_LANDING"}
EDITING_TOOLS  == {"MOVE_WAYPOINT", "MEASURE", "HEADING"} \cup PlacementTools
MapTool        == EDITING_TOOLS \cup {"SELECT", "ZOOM"}

Markers == {"takeoff", "landing"}

\* A placement waits for the elevation, then for the server.
Placement == [id : 1..MaxPlacements, keys : SUBSET Markers, step : {"elevation", "server"}]

\* Every variable of the map stays in its range.
TypeOK ==
  /\ activeTool \in MapTool /\ is3D \in BOOLEAN
  /\ measure \in [points : 0..MaxPoints, isDrawing : BOOLEAN, isComplete : BOOLEAN]
  /\ heading \in {"none", "origin", "locked"}
  /\ flight \in {"idle", "playing", "paused"}
  /\ playable \in BOOLEAN /\ mirror \in BOOLEAN
  /\ markers \subseteq Markers /\ pending \subseteq Markers
  /\ placements \subseteq Placement

NoPath == [points |-> 0, isDrawing |-> FALSE, isComplete |-> FALSE]

Init ==
  /\ activeTool = "SELECT" /\ is3D = FALSE
  /\ measure = NoPath /\ heading = "none"
  /\ flight = "idle" /\ playable \in BOOLEAN
  /\ markers \in SUBSET Markers
  /\ mirror \in BOOLEAN /\ (mirror => markers = Markers)
  /\ placements = {} /\ pending = {}

-----------------------------------------------------------------------------
(* Choosing a tool *)

\* Mutant of setIs3D: the playback goes on when the map turns to 2D.
setIs3D_plays(val) ==
  /\ is3D' = val
  /\ activeTool' = IF val /\ activeTool \in EDITING_TOOLS THEN "SELECT" ELSE activeTool
  /\ UNCHANGED <<trajectory, drawings, placing>>

\* To 3D: an editing tool gives way to SELECT.  To 2D: the playback ends.
setIs3D(val) ==
  /\ is3D' = val
  /\ activeTool' = IF val /\ activeTool \in EDITING_TOOLS THEN "SELECT" ELSE activeTool
  /\ flight' = IF val THEN flight ELSE "idle"
  /\ UNCHANGED <<playable, drawings, placing>>

\* A shortcut of the keyboard: S, W, M, H or Z.  A drawing stays as it is.
Shortcut(tool) ==
  /\ tool \in MapTool \ PlacementTools
  /\ ~(is3D /\ tool \in EDITING_TOOLS)
  /\ activeTool' = tool
  /\ UNCHANGED <<is3D, trajectory, drawings, placing>>

\* A button of the toolbar: leaving MEASURE or HEADING drops its drawing.
handleToolChange(tool) ==
  /\ tool \in MapTool \ PlacementTools
  /\ ~(is3D /\ tool \in EDITING_TOOLS)
  /\ activeTool' = tool
  /\ measure' = IF activeTool = "MEASURE" /\ tool # "MEASURE" THEN NoPath ELSE measure
  /\ heading' = IF activeTool = "HEADING" /\ tool # "HEADING" THEN "none" ELSE heading
  /\ UNCHANGED <<is3D, trajectory, placing>>

\* The buttons of the left panel that place a missing marker.
handlePlace(tool) ==
  /\ \/ tool = "PLACE_TAKEOFF" /\ "takeoff" \notin markers
     \/ tool = "PLACE_LANDING" /\ "landing" \notin markers /\ ~mirror
  /\ activeTool' = tool
  /\ UNCHANGED <<is3D, trajectory, drawings, placing>>

\* Escape takes away a finished drawing, and otherwise the tool and its drawing.
\* The listener of the measure tool clears the path under MEASURE in any case.
Escape ==
  /\ measure' = IF measure.isComplete \/ activeTool = "MEASURE" THEN NoPath ELSE measure
  /\ heading' = IF activeTool = "HEADING" \/ (heading = "locked" /\ ~measure.isComplete)
                THEN "none" ELSE heading
  /\ activeTool' = IF measure.isComplete \/ heading = "locked" THEN activeTool ELSE "SELECT"
  /\ UNCHANGED <<is3D, trajectory, placing>>

-----------------------------------------------------------------------------
(* Drawing *)

\* Mutant of addMeasurePoint: a click adds to a path that is finished.
addMeasurePoint_always ==
  /\ ~is3D /\ activeTool = "MEASURE"
  /\ measure' = [measure EXCEPT !.points = IF @ >= MaxPoints THEN @ ELSE @ + 1,
                                !.isDrawing = TRUE]
  /\ UNCHANGED <<activeTool, is3D, heading, trajectory, placing>>

\* A click under MEASURE: the next point of the path, unless it is finished.
addMeasurePoint ==
  /\ ~is3D /\ activeTool = "MEASURE"
  /\ measure.isDrawing \/ measure.points = 0
  /\ measure' = [measure EXCEPT !.points = IF @ >= MaxPoints THEN @ ELSE @ + 1,
                                !.isDrawing = TRUE]
  /\ UNCHANGED <<activeTool, is3D, heading, trajectory, placing>>

\* Mutant of finishDrawing: a path of one point is finished as well.
finishDrawing_short ==
  measure' = [measure EXCEPT !.isDrawing = FALSE, !.isComplete = TRUE]

\* A path of less than two points has no segment and is dropped.
finishDrawing ==
  measure' = IF measure.points < 2 THEN NoPath
             ELSE [measure EXCEPT !.isDrawing = FALSE, !.isComplete = TRUE]

\* The right button under MEASURE finishes the path, or clears a finished one.
MeasureContextMenu ==
  /\ ~is3D /\ activeTool = "MEASURE"
  /\ IF measure.isDrawing THEN finishDrawing ELSE measure' = NoPath
  /\ UNCHANGED <<activeTool, is3D, heading, trajectory, placing>>

\* The close button of the card of a finished path.
dismissMeasure ==
  /\ measure.isComplete
  /\ measure' = NoPath
  /\ UNCHANGED <<activeTool, is3D, heading, trajectory, placing>>

\* A click under HEADING: the origin, the end, and again an origin.
addHeadingPoint ==
  /\ ~is3D /\ activeTool = "HEADING"
  /\ heading' = IF heading = "origin" THEN "locked" ELSE "origin"
  /\ UNCHANGED <<activeTool, is3D, measure, trajectory, placing>>

\* The right button under HEADING, or the close button of the arrow's card.
clearHeading ==
  /\ heading = "locked" \/ (~is3D /\ activeTool = "HEADING")
  /\ heading' = "none"
  /\ UNCHANGED <<activeTool, is3D, measure, trajectory, placing>>

-----------------------------------------------------------------------------
(* The playback of the trajectory *)

play ==
  /\ is3D /\ playable /\ flight # "playing"
  /\ flight' = "playing"
  /\ UNCHANGED <<activeTool, is3D, playable, drawings, placing>>

pause ==
  /\ flight = "playing"
  /\ flight' = "paused"
  /\ UNCHANGED <<activeTool, is3D, playable, drawings, placing>>

\* The stop button, and the last frame of the playback.
stop ==
  /\ flight # "idle"
  /\ flight' = "idle"
  /\ UNCHANGED <<activeTool, is3D, playable, drawings, placing>>

\* Another computed plan reaches the page and ends the playback of the old one.
NewPlan ==
  /\ playable' \in BOOLEAN
  /\ flight' = "idle"
  /\ UNCHANGED <<activeTool, is3D, drawings, placing>>

\* Mutant of PlanEdited: the playback ignores that waypoints are deleted.
PlanEdited_plays ==
  /\ playable' \in BOOLEAN
  /\ UNCHANGED <<flight, activeTool, is3D, drawings, placing>>

\* The plan is the same with waypoints moved, inserted or deleted: the playback
\* goes on while there are two of them.
PlanEdited ==
  /\ playable' \in BOOLEAN
  /\ flight' = IF playable' THEN flight ELSE "idle"
  /\ UNCHANGED <<activeTool, is3D, drawings, placing>>

-----------------------------------------------------------------------------
(* Takeoff and landing markers *)

\* computePlacementUpdates: the landing follows the takeoff of a round trip.
computePlacementUpdates(tool) ==
  IF tool = "PLACE_LANDING" THEN {"landing"}
  ELSE IF mirror THEN Markers ELSE {"takeoff"}

FreeIds == 1..MaxPlacements \ {o.id : o \in placements}

\* A click under a placement tool asks for the elevation first; the tool stays.
PlaceClick ==
  /\ ~is3D /\ activeTool \in PlacementTools
  /\ FreeIds # {}
  /\ placements' = placements \cup
       {[id |-> CHOOSE i \in FreeIds : \A j \in FreeIds : i <= j,
         keys |-> computePlacementUpdates(activeTool), step |-> "elevation"]}
  /\ UNCHANGED <<activeTool, is3D, trajectory, drawings, mirror, markers, pending>>

\* The elevation is known, or the marker's or the airport's is taken: the
\* markers are shown as not saved, the tool is put away, the update is sent.
Resolved(o) ==
  /\ o.step = "elevation"
  /\ placements' = (placements \ {o}) \cup {[o EXCEPT !.step = "server"]}
  /\ pending' = pending \cup o.keys
  /\ activeTool' = "SELECT"
  /\ UNCHANGED <<is3D, trajectory, drawings, mirror, markers>>

\* Mutant of Placed: the indicator is cleared when the placement succeeds only.
Placed_kept(o) ==
  /\ o.step = "server"
  /\ placements' = placements \ {o}
  /\ \/ /\ markers' = markers \cup o.keys
        /\ mirror' \in {TRUE, FALSE}
        /\ (mirror' => markers' = Markers)
        /\ pending' = pending \ o.keys
     \/ UNCHANGED <<mirror, markers, pending>>
  /\ UNCHANGED <<activeTool, is3D, trajectory, drawings>>

\* The mission was updated and read again, or the update failed; the indicator
\* is cleared either way.
Placed(o) ==
  /\ o.step = "server"
  /\ placements' = placements \ {o}
  /\ pending' = pending \ o.keys
  /\ \/ /\ markers' = markers \cup o.keys
        /\ mirror' \in BOOLEAN
        /\ (mirror' => markers' = Markers)
     \/ UNCHANGED <<mirror, markers>>
  /\ UNCHANGED <<activeTool, is3D, trajectory, drawings>>

\* The delete button of a marker's panel, answered by the mission without it.
handleDeleteTakeoffLanding(m) ==
  /\ m \in markers
  /\ markers' = markers \ {m}
  /\ mirror' = FALSE
  /\ UNCHANGED <<activeTool, is3D, trajectory, drawings, placements, pending>>

Tools ==
  \/ \E val \in BOOLEAN : setIs3D(val)
  \/ \E tool \in MapTool : Shortcut(tool)
  \/ \E tool \in MapTool : handleToolChange(tool)
  \/ \E tool \in PlacementTools : handlePlace(tool)
  \/ Escape

Drawing ==
  \/ addMeasurePoint
  \/ MeasureContextMenu
  \/ dismissMeasure
  \/ addHeadingPoint
  \/ clearHeading

Playback == play \/ pause \/ stop \/ NewPlan \/ PlanEdited

Placing ==
  \/ PlaceClick
  \/ \E o \in placements : Resolved(o) \/ Placed(o)
  \/ \E m \in Markers : handleDeleteTakeoffLanding(m)

Next == Tools \/ Drawing \/ Playback \/ Placing

Spec == Init /\ [][Next]_vars

-----------------------------------------------------------------------------
(* Properties *)

\* A measured path is being drawn or finished, never both, and a finished one
\* has a segment: the card of a result is shown for a path that has a length.
MeasureShape ==
  /\ measure.isComplete => ~measure.isDrawing /\ measure.points >= 2
  /\ measure.points > 0 <=> measure.isDrawing \/ measure.isComplete

\* The trajectory plays on the 3D map only, and only while there is one to fly:
\* whatever replaces the plan or turns the map to 2D ends the playback.
PlaysIn3D == flight # "idle" => is3D /\ playable

\* A marker is shown as not saved only while a placement of it is under way:
\* a failed placement does not leave the warning behind.
IndicatorEnds == \A m \in pending : \E o \in placements : m \in o.keys
=============================================================================
