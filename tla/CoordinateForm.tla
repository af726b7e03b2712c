---------------------------- MODULE CoordinateForm ----------------------------
(***************************************************************************)
(* Takeoff and landing on the configuration page of a mission              *)
(* (hooks/useTakeoffLandingPicker, MissionConfigForm and                   *)
(* MissionTogglesSection of frontend/src/components/mission): the inputs,  *)
(* a click on the map that waits for its elevation, and the round trip,    *)
(* whose landing follows the takeoff.                                      *)
(***************************************************************************)
EXTENDS Naturals, FiniteSets

CONSTANTS
  Axes,          \* latitude, longitude, altitude
  Numbers,       \* what an operator can enter for one of them
  Default,       \* what stands for one that was never entered
  Unset,         \* a coordinate that is not set
  MaxPicks       \* bound: clicks that wait

CoordinateAssumption == Default \in Numbers /\ MaxPicks \in Nat

VARIABLES
  coordinate,    \* takeoff and landing as the form shows them
  roundTrip,     \* useTakeoffAsLanding
  pickingCoord,  \* the coordinate the next click on the map sets
  picks,         \* clicks that wait for the elevation
  crossed        \* history: a click made before the toggle was carried out after it

coordinateVars == <<coordinate, roundTrip, pickingCoord, picks, crossed>>

Targets == {"takeoff", "landing"}

Coordinates == [Axes -> Numbers]

Pick == [target : Targets, point : Coordinates, mirror : BOOLEAN]

\* Every variable of the form stays in its range.
TypeOK ==
  /\ coordinate \in [Targets -> Coordinates \cup {Unset}]
  /\ roundTrip \in BOOLEAN
  /\ pickingCoord \in Targets \cup {"none"}
  /\ picks \subseteq Pick
  /\ crossed \in BOOLEAN

\* On load the round trip is derived from the mission's coordinates.
Init ==
  /\ coordinate \in [Targets -> Coordinates \cup {Unset}]
  /\ roundTrip = (coordinate["takeoff"] = coordinate["landing"] /\ coordinate["takeoff"] # Unset)
  /\ pickingCoord = "none"
  /\ picks = {}
  /\ crossed = FALSE

\* What a takeoff sets: the landing as well on a round trip.
Followers(target, mirror) == IF mirror /\ target = "takeoff" THEN Targets ELSE {target}

Set(targets, value) == coordinate' = [t \in Targets |-> IF t \in targets THEN value ELSE coordinate[t]]

\* What a keystroke in one field commits: the other fields of the coordinate as
\* they are, or the default if none was entered.  A field that is emptied falls
\* back to its number, so a coordinate once set is never unset here.
commitValue(value, axis, n) ==
  IF value = Unset THEN [a \in Axes |-> IF a = axis THEN n ELSE Default]
  ELSE [value EXCEPT ![axis] = n]

\* Mutant of Typed: the landing is left behind.
Typed_alone(target, value) ==
  /\ roundTrip => target = "takeoff"
  /\ Set({target}, value)
  /\ UNCHANGED <<roundTrip, pickingCoord, picks, crossed>>

\* The form's handler of a committed value; on a round trip there is one input.
Typed(target, value) ==
  /\ roundTrip => target = "takeoff"
  /\ Set(Followers(target, roundTrip), value)
  /\ UNCHANGED <<roundTrip, pickingCoord, picks, crossed>>

\* A number in one of the fields.
CoordinateInput(target, axis, n) == Typed(target, commitValue(coordinate[target], axis, n))

\* A field is emptied or left: the coordinate is committed as it is.
handleBlur(target) == Typed(target, coordinate[target])

\* The toggle: turning it on copies the takeoff, if one is set.
ToggleRoundTrip ==
  /\ roundTrip' = ~roundTrip
  /\ IF ~roundTrip /\ coordinate["takeoff"] # Unset
     THEN Set({"landing"}, coordinate["takeoff"])
     ELSE UNCHANGED coordinate
  /\ crossed' = FALSE
  /\ UNCHANGED <<pickingCoord, picks>>

\* The pick button of a coordinate arms or disarms the next click on the map.
onPickCoord(target) ==
  /\ roundTrip => target = "takeoff"
  /\ pickingCoord' = IF pickingCoord = target THEN "none" ELSE target
  /\ UNCHANGED <<coordinate, roundTrip, picks, crossed>>

\* The click reads the target and the round trip and asks for the elevation.
handleMapClick(p) ==
  /\ pickingCoord # "none"
  /\ Cardinality(picks) < MaxPicks
  /\ picks' = picks \cup {[target |-> pickingCoord, point |-> p, mirror |-> roundTrip]}
  /\ UNCHANGED <<coordinate, roundTrip, pickingCoord, crossed>>

\* The elevation is there, or a default is taken: the coordinate is set as it was
\* clicked, whatever the toggle says now.
Picked(k) ==
  /\ picks' = picks \ {k}
  /\ Set(Followers(k.target, k.mirror), k.point)
  /\ pickingCoord' = "none"
  /\ crossed' = (crossed \/ (roundTrip /\ (k.target = "landing" \/ ~k.mirror)))
  /\ UNCHANGED roundTrip

Next ==
  \/ \E t \in Targets, a \in Axes, n \in Numbers : CoordinateInput(t, a, n)
  \/ \E t \in Targets : handleBlur(t)
  \/ ToggleRoundTrip
  \/ \E t \in Targets : onPickCoord(t)
  \/ \E p \in Coordinates : handleMapClick(p)
  \/ \E k \in picks : Picked(k)

Spec == Init /\ [][Next]_coordinateVars

-----------------------------------------------------------------------------
(* Properties *)

\* On a round trip the landing is where the takeoff is, however inputs, toggle
\* and clicks follow one another, unless a click crossed the toggle.
LandingFollows ==
  roundTrip /\ ~crossed /\ coordinate["takeoff"] # Unset =>
    coordinate["landing"] = coordinate["takeoff"]

\* en.json:356 says of the round trip: "Landing will match the takeoff point".
\* A click that was armed before the toggle sets one coordinate only.
LandingMatches ==
  roundTrip /\ coordinate["takeoff"] # Unset => coordinate["landing"] = coordinate["takeoff"]
=============================================================================
