------------------------------- MODULE ViewSwitch -------------------------------
(***************************************************************************)
(* Between the two views of the map (AirportMap, useCesiumSync,            *)
(* MapViewportControls and the parts of CesiumMapViewer that set the       *)
(* viewer up): the cameras, which are handed over when the view is         *)
(* switched, the compass, and the background.  Cesium is external: its     *)
(* viewer and its imagery arrive when they do.  A bearing is a number of   *)
(* quarters of a turn, a position and a zoom are one place, and a camera   *)
(* is tilted or not: the map's has a place in its centre, the viewer's     *)
(* stands above a place or back from it, along some bearing.               *)
(***************************************************************************)
EXTENDS Naturals, Sequences
LOCAL INSTANCE SequencesExt

CONSTANTS
  Sights,         \* places that a camera looks at
  MaxSwitchActs   \* bound: what the page and the operator do

VARIABLES
  is3D,
  viewer3D,       \* "none", "loading" or "ready"
  cam2, cam3,     \* the camera of the map, and of the viewer
  leveling,       \* the map is on its way to its MAP_PITCH_2D
  lent,           \* history: the camera that was handed over, if nothing has moved it since
  lastBearing,    \* the heading that the viewer has reported
  bearing,        \* what the compass shows
  northAsked,     \* bearingResetKey is not 0
  synced,         \* the directions in which the cameras were synced less than 100 ms ago
  terrainMode,    \* "map" or "satellite"
  imagery,        \* [layers, asked, failed]
  switchActs

switchVars == <<is3D, viewer3D, cam2, cam3, leveling, lent, lastBearing, bearing, northAsked,
                synced, terrainMode, imagery, switchActs>>

\* What a camera looks at that stands where another bearing has put it.
Astray == "astray"

SwitchAssumption == Sights # {} /\ Astray \notin Sights /\ MaxSwitchActs \in Nat

backgroundVars == <<terrainMode, imagery>>
cameraVars     == <<is3D, cam2, cam3, leveling, lent, lastBearing, bearing, northAsked, synced>>

SwitchAct == switchActs < MaxSwitchActs /\ switchActs' = switchActs + 1

-----------------------------------------------------------------------------
(* The cameras *)

Above   == 4
NoLoan  == [place |-> Astray, turn |-> Above]
Mirrored(turn) == (4 - turn) % 4

\* A tilted camera is moved back along the bearing, and looks along the mirrored one.
maplibreToCesiumCamera(c) ==
  [place |-> c.place, back |-> IF c.tilted THEN c.turn ELSE Above, turn |-> Mirrored(c.turn)]

\* Mutant of cesiumToMaplibreCamera: the centre is what is below the camera.
cesiumToMaplibreCamera_foot(c) ==
  [place |-> IF c.back = Above THEN c.place ELSE Astray, turn |-> Mirrored(c.turn),
   tilted |-> c.back # Above]

\* The bearing is the mirrored heading, and the centre of a tilted camera lies ahead along it.
cesiumToMaplibreCamera(c) ==
  [place |-> IF c.back \in {Above, Mirrored(c.turn)} THEN c.place ELSE Astray,
   turn |-> Mirrored(c.turn), tilted |-> c.back # Above]

\* The viewer reports the heading of its camera when it is another than it has reported.
Report(c) ==
  /\ lastBearing' = c.turn
  /\ bearing' = IF c.turn # lastBearing THEN c.turn ELSE bearing

Loan(c) == [place |-> c.place, turn |-> c.turn]

\* The viewer is there: it gets the camera of the map, and north once that was asked for; the map
\* behind it is tilted.
EnterCesium ==
  LET arrived == IF "to3D" \in synced THEN cam3 ELSE maplibreToCesiumCamera(cam2) IN
  /\ cam3' = IF northAsked THEN [arrived EXCEPT !.turn = 0] ELSE arrived
  /\ lent' = IF "to3D" \in synced \/ northAsked THEN NoLoan ELSE Loan(cam2)
  /\ synced' = synced \cup {"to3D"} /\ Report(cam3')
  /\ cam2' = [cam2 EXCEPT !.tilted = TRUE] /\ leveling' = FALSE

\* The map gets the camera of the viewer, and is leveled - unless it is turned north, which stops
\* that.  The compass follows it where it turns.
EnterMaplibre ==
  LET arrived == IF "to2D" \in synced THEN cam2 ELSE cesiumToMaplibreCamera(cam3) IN
  /\ cam2' = IF northAsked THEN [arrived EXCEPT !.turn = 0] ELSE arrived
  /\ lent' = IF "to2D" \in synced \/ northAsked THEN NoLoan ELSE Loan(cam3)
  /\ synced' = synced \cup {"to2D"}
  /\ bearing' = IF {arrived.turn, cam2'.turn} # {cam2.turn} THEN cam2'.turn ELSE bearing
  /\ leveling' = (arrived.tilted /\ ~northAsked)
  /\ UNCHANGED <<cam3, lastBearing>>

\* To 3D the viewer is loaded the first time.  North, once asked for, is asked for each time.
setIs3D ==
  /\ SwitchAct /\ is3D' = ~is3D
  /\ IF viewer3D = "ready"
     THEN (IF is3D THEN EnterMaplibre ELSE EnterCesium) /\ UNCHANGED viewer3D
     ELSE /\ viewer3D' = "loading"
          /\ cam2' = IF northAsked THEN [cam2 EXCEPT !.turn = 0]
                     ELSE [cam2 EXCEPT !.tilted = @ \/ is3D']
          /\ leveling' = (is3D /\ cam2.tilted /\ ~northAsked)
          /\ bearing' = cam2'.turn
          /\ UNCHANGED <<cam3, lent, lastBearing, synced>>
  /\ UNCHANGED backgroundVars /\ UNCHANGED northAsked

\* MAP_PITCH_TOGGLE_DURATION_MS later.
Leveled ==
  /\ leveling /\ leveling' = FALSE /\ cam2' = [cam2 EXCEPT !.tilted = FALSE]
  /\ UNCHANGED backgroundVars
  /\ UNCHANGED <<viewer3D, is3D, cam3, lent, lastBearing, bearing, northAsked, synced, switchActs>>

\* The viewer is there: it reports north, and gets the camera of the map.
\* Whether the effect of the background has found it is React's and Cesium's to decide.
onViewerReady ==
  /\ viewer3D = "loading" /\ viewer3D' = "ready"
  /\ cam3' = maplibreToCesiumCamera(cam2) /\ lent' = IF is3D THEN Loan(cam2) ELSE NoLoan
  /\ lastBearing' = cam3'.turn /\ bearing' = cam3'.turn
  /\ synced' = synced \cup {"to3D"}
  /\ \E found \in BOOLEAN :
       imagery' = IF ~found THEN [imagery EXCEPT !.layers = <<"default">>]
                  ELSE IF terrainMode = "map" THEN [imagery EXCEPT !.layers = <<"map">>]
                  ELSE [imagery EXCEPT !.asked = <<TRUE>>]
  /\ UNCHANGED <<is3D, cam2, leveling, northAsked, terrainMode, switchActs>>

SyncWindowEnds ==
  /\ synced # {} /\ synced' = {}
  /\ UNCHANGED backgroundVars
  /\ UNCHANGED <<viewer3D, is3D, cam2, cam3, leveling, lent, lastBearing, bearing, northAsked,
                 switchActs>>

\* A camera is moved: what was handed over is not what is there.  A move of the map ends its
\* leveling.
MapMoves(c) ==
  cam2' = c /\ leveling' = FALSE /\ lent' = NoLoan /\ UNCHANGED <<cam3, lastBearing>>

ViewerMoves(c) == cam3' = c /\ lent' = NoLoan /\ Report(c) /\ UNCHANGED <<cam2, leveling>>

\* The camera of the view that is shown is moved by hand, and looks at a place.
Move(place, turn, tilted) ==
  /\ SwitchAct
  /\ IF is3D
     THEN /\ viewer3D = "ready"
          /\ ViewerMoves([place |-> place, back |-> IF tilted THEN turn ELSE Above, turn |-> turn])
     ELSE MapMoves([place |-> place, turn |-> turn, tilted |-> tilted]) /\ bearing' = turn
  /\ UNCHANGED backgroundVars /\ UNCHANGED <<viewer3D, is3D, northAsked, synced>>

\* North, by the compass beside the map or by the page's: the camera turns where it stands.
bearingReset(byPage) ==
  /\ SwitchAct /\ northAsked' = (northAsked \/ byPage)
  /\ IF is3D /\ viewer3D = "ready"
     THEN ViewerMoves([cam3 EXCEPT !.turn = 0])
     ELSE MapMoves([cam2 EXCEPT !.turn = 0]) /\ bearing' = 0
  /\ UNCHANGED backgroundVars /\ UNCHANGED <<viewer3D, is3D, synced>>

\* locateFeature: the view that is shown flies to the feature, the viewer from the south; while
\* the viewer is loaded, the map behind it.
locateFeature(place) ==
  /\ SwitchAct
  /\ IF is3D /\ viewer3D = "ready"
     THEN ViewerMoves([place |-> place, back |-> 0, turn |-> 0])
     ELSE MapMoves([cam2 EXCEPT !.place = place]) /\ UNCHANGED bearing
  /\ UNCHANGED backgroundVars /\ UNCHANGED <<viewer3D, is3D, northAsked, synced>>

-----------------------------------------------------------------------------
(* The background *)

\* Mutant of Superseded: the answer for the old background counts.
Superseded_not(asked) == asked

Superseded(asked) == [i \in 1..Len(asked) |-> FALSE]

\* The background is another: what there was is removed; the satellite's is asked for, and the
\* map's is there at once.
handleTerrainChange ==
  /\ SwitchAct
  /\ terrainMode' = IF terrainMode = "map" THEN "satellite" ELSE "map"
  /\ imagery' =
       IF viewer3D # "ready" THEN imagery
       ELSE IF terrainMode' = "map"
       THEN [layers |-> <<"map">>, asked |-> Superseded(imagery.asked), failed |-> FALSE]
       ELSE [layers |-> <<>>, asked |-> Append(Superseded(imagery.asked), TRUE), failed |-> FALSE]
  /\ UNCHANGED cameraVars /\ UNCHANGED viewer3D

\* The provider of the satellite's imagery is there, or has failed.
ImageryArrives(i) ==
  /\ i \in 1..Len(imagery.asked)
  /\ LET live == imagery.asked[i]
         left == [imagery EXCEPT !.asked = RemoveAt(@, i)]
     IN  imagery' \in {IF live THEN [left EXCEPT !.layers = Append(@, "satellite")] ELSE left,
                       IF live THEN [left EXCEPT !.failed = TRUE] ELSE left}
  /\ UNCHANGED cameraVars /\ UNCHANGED <<viewer3D, terrainMode, switchActs>>

-----------------------------------------------------------------------------

Init ==
  /\ is3D = FALSE /\ viewer3D = "none"
  /\ \E place \in Sights, turn \in {0, 1}, tilted \in BOOLEAN :
       cam2 = [place |-> place, turn |-> turn, tilted |-> tilted]
  /\ cam3 = [place |-> CHOOSE p \in Sights : TRUE, back |-> 0, turn |-> 0]
  /\ leveling = FALSE /\ lent = NoLoan
  /\ lastBearing = 4 /\ bearing = cam2.turn /\ northAsked = FALSE /\ synced = {}
  /\ terrainMode = "satellite"
  /\ imagery = [layers |-> <<>>, asked |-> <<>>, failed |-> FALSE]
  /\ switchActs = 0

Next ==
  \/ setIs3D \/ Leveled \/ onViewerReady \/ SyncWindowEnds \/ handleTerrainChange
  \/ \E byPage \in BOOLEAN : bearingReset(byPage)
  \/ \E place \in Sights : locateFeature(place) \/ \E tilted \in BOOLEAN : Move(place, 1, tilted)
  \/ \E i \in 1..(MaxSwitchActs + 1) : ImageryArrives(i)

Spec == Init /\ [][Next]_switchVars

-----------------------------------------------------------------------------
(* Properties *)

\* Every variable of the two views stays in its range.
TypeOK ==
  /\ is3D \in BOOLEAN /\ viewer3D \in {"none", "loading", "ready"}
  /\ cam2 \in [place : Sights \cup {Astray}, turn : 0..3, tilted : BOOLEAN]
  /\ cam3 \in [place : Sights \cup {Astray}, back : 0..Above, turn : 0..3]
  /\ lent \in [place : Sights \cup {Astray}, turn : 0..Above] /\ leveling \in BOOLEAN
  /\ lastBearing \in 0..4 /\ bearing \in 0..3 /\ northAsked \in BOOLEAN
  /\ synced \subseteq {"to3D", "to2D"} /\ terrainMode \in {"map", "satellite"}
  /\ \A i \in 1..Len(imagery.asked) : imagery.asked[i] \in BOOLEAN
  /\ switchActs \in 0..MaxSwitchActs

\* The background: never two of them, that of the mode once it was changed, and none only while
\* one is asked for or has failed.
OneBackground ==
  viewer3D = "ready" =>
    /\ Len(imagery.layers) <= 1
    /\ imagery.layers # <<>> => imagery.layers[1] \in {terrainMode, "default"}
    /\ imagery.layers = <<>> =>
         imagery.failed \/ \E i \in 1..Len(imagery.asked) : imagery.asked[i]

\* syncToCesium, syncToMaplibre: a camera that was handed to the other view and not moved there
\* comes back as it went - the map's to its place and its turn, however it is tilted, and the
\* viewer's to its turn; unless the views were switched within 100 ms or north was asked for.
CameraKept ==
  [][is3D' # is3D /\ viewer3D = "ready" /\ synced = {} /\ lent # NoLoan /\ ~northAsked =>
       IF is3D' THEN cam3'.turn = lent.turn
       ELSE cam2'.place = lent.place /\ cam2'.turn = lent.turn]_switchVars
=============================================================================
