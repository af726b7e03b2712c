------------------------------ MODULE MissionTabs ------------------------------
(***************************************************************************)
(* The workspace around the pages of a mission in frontend/src: the        *)
(* airport an operator has chosen (contexts/AirportContext), the list of   *)
(* its missions (contexts/MissionContext), the guard that opens a mission  *)
(* by its address (components/Auth/RequireMissionAirportMatch), what the   *)
(* tabs do with a mission (hooks/useMissionTabActions) and the computation *)
(* of a flight plan (contexts/ComputationContext).  Answers arrive in any  *)
(* order; a request whose answer nobody takes any more is dropped at once. *)
(***************************************************************************)
EXTENDS Naturals, FiniteSets

CONSTANTS
  Missions, Airports,
  airportOf,     \* the airport of a mission
  None,
  MaxAwaited     \* bound: answers awaited when the operator acts

TabsAssumption ==
  /\ airportOf \in [Missions -> Airports] /\ MaxAwaited \in Nat
  /\ None \notin Missions \cup Airports

VARIABLES
  selectedAirport, airportDetail,
  listed,        \* the airport whose missions the list shows
  route,         \* the mission in the address
  guard,         \* RequireMissionAirportMatch: the verdict on the address
  guarded,       \* the mission the guard has opened
  planOf,        \* the mission whose plan the open page shows
  renaming,      \* the mission whose name is in the rename field
  status, running, dismissTimer,   \* ComputationContext
  requests,
  chosen,        \* history: the airport the operator chose last
  unasked,       \* history: an airport was cleared while its details were on the way
  foreign        \* history: the plan shown came from the computation of another mission

tabsVars == <<selectedAirport, airportDetail, listed, route, guard, guarded, planOf, renaming,
              status, running, dismissTimer, requests, chosen, unasked, foreign>>
airportVars == <<selectedAirport, airportDetail, chosen, unasked>>
pageVars    == <<guarded, planOf, renaming, foreign>>
computation == <<status, running, dismissTimer>>

Kinds == {"detail", "list", "guard", "page", "duplicate", "delete"}

Request == [kind : Kinds, of : Missions \cup Airports]

\* Every variable of the workspace stays in its range.
TypeOK ==
  /\ selectedAirport \in Airports \cup {None} /\ airportDetail \in Airports \cup {None}
  /\ listed \in Airports \cup {None}
  /\ route \in Missions \cup {None} /\ guarded \in Missions \cup {None}
  /\ guard \in {"idle", "loading", "match"}
  /\ planOf \in Missions \cup {None} /\ renaming \in Missions \cup {None}
  /\ status \in {"IDLE", "COMPUTING", "COMPLETED", "FAILED"}
  /\ running \in Missions \cup {None} /\ dismissTimer \in BOOLEAN
  /\ requests \subseteq Request
  /\ chosen \in Airports \cup {None} /\ unasked \in BOOLEAN /\ foreign \in BOOLEAN

Init ==
  /\ selectedAirport = None /\ airportDetail = None /\ listed = None
  /\ route = None /\ guard = "idle" /\ guarded = None
  /\ planOf = None /\ renaming = None
  /\ status = "IDLE" /\ running = None /\ dismissTimer = FALSE
  /\ requests = {}
  /\ chosen = None /\ unasked = FALSE /\ foreign = FALSE

-----------------------------------------------------------------------------
(* What changes together *)

Ask(kind, x) == IF x = None THEN {} ELSE {[kind |-> kind, of |-> x]}

\* Mutant of Awaited: answers are taken whatever has happened since.
Awaited_all(dropped) == requests

\* The requests that are still awaited when those of some kinds are not.
Awaited(dropped) == {r \in requests : r.kind \notin dropped}

\* Mutant of ClosePage: the plan stays.
ClosePage_keeps == guarded' = None /\ renaming' = None /\ foreign' = FALSE /\ UNCHANGED planOf

\* The page of a mission is closed, with the tabs around it.
ClosePage == guarded' = None /\ planOf' = None /\ renaming' = None /\ foreign' = FALSE

\* The guard closes the page and reads the mission in the address.
Load(m) ==
  /\ route' = m
  /\ guard' = IF m = None THEN "idle" ELSE "loading"
  /\ ClosePage

\* The selected airport is another object: the list and the guard read again.
Reselect(a, m, kept) ==
  /\ selectedAirport' = a
  /\ Load(m)
  /\ requests' = kept \cup Ask("list", a) \cup Ask("guard", m)

OperatorActs == Cardinality(requests) < MaxAwaited

-----------------------------------------------------------------------------
(* The airport *)

\* A choice in the navigation bar; a mission of another airport is left.
selectAirport(a) ==
  /\ OperatorActs
  /\ Reselect(a, IF selectedAirport = a THEN route ELSE None,
              Awaited({"detail", "guard", "page"}) \cup Ask("detail", a))
  /\ airportDetail' = None
  /\ chosen' = a /\ unasked' = FALSE
  /\ UNCHANGED <<listed, computation>>

\* The airport is cleared; an answer with its details is still awaited.
clearAirport ==
  /\ OperatorActs /\ selectedAirport # None
  /\ selectedAirport' = None /\ airportDetail' = None
  /\ listed' = None
  /\ Load(None)
  /\ requests' = Awaited({"guard", "page"})
  /\ chosen' = None
  /\ unasked' = (\E r \in requests : r.kind = "detail")
  /\ UNCHANGED computation

\* The details select their airport if it is not selected, and replace it if the
\* default drone differs.
DetailAnswered(r) ==
  /\ r.kind = "detail"
  /\ airportDetail' = r.of
  /\ \/ Reselect(r.of, route, Awaited({"guard", "page"}) \ {r})
     \/ /\ selectedAirport = r.of
        /\ requests' = requests \ {r}
        /\ UNCHANGED <<selectedAirport, route, guard, pageVars>>
  /\ UNCHANGED <<listed, computation, chosen, unasked>>

ListAnswered(r) ==
  /\ r.kind = "list"
  /\ listed' = r.of
  /\ requests' = requests \ {r}
  /\ UNCHANGED <<airportVars, route, guard, pageVars, computation>>

-----------------------------------------------------------------------------
(* The mission in the address *)

\* An address of a mission, from the list or typed; without an airport the
\* guard turns to the dashboard.
handleMissionSwitch(m) ==
  /\ OperatorActs /\ selectedAirport # None /\ m # route
  /\ Load(m)
  /\ requests' = Awaited({"guard", "page"}) \cup Ask("guard", m)
  /\ UNCHANGED <<airportVars, listed, computation>>

handleDeselect ==
  /\ route # None
  /\ Load(None)
  /\ requests' = Awaited({"guard", "page"})
  /\ UNCHANGED <<airportVars, listed, computation>>

\* Mutant of GuardAnswered: any mission is opened.
GuardAnswered_any(r) ==
  /\ r.kind = "guard"
  /\ guard' = "match" /\ guarded' = r.of
  /\ requests' = (requests \ {r}) \cup Ask("page", r.of)
  /\ UNCHANGED <<route, planOf, renaming, foreign, airportVars, listed, computation>>

\* A mission of the airport is opened and its page reads it; any other leaves.
GuardAnswered(r) ==
  /\ r.kind = "guard"
  /\ IF airportOf[r.of] = selectedAirport
     THEN /\ guard' = "match" /\ guarded' = r.of
          /\ requests' = (requests \ {r}) \cup Ask("page", r.of)
          /\ UNCHANGED <<route, planOf, renaming, foreign>>
     ELSE Load(None) /\ requests' = requests \ {r}
  /\ UNCHANGED <<airportVars, listed, computation>>

\* fetchData of a page: its plan, or none if there is none yet.
PageAnswered(r) ==
  /\ r.kind = "page"
  /\ planOf' \in {r.of, None}
  /\ foreign' = FALSE
  /\ requests' = (requests \ {r}) \cup Ask("list", selectedAirport)
  /\ UNCHANGED <<airportVars, listed, route, guard, guarded, renaming, computation>>

startRename ==
  /\ guard = "match"
  /\ renaming' = guarded
  /\ UNCHANGED <<airportVars, listed, route, guard, guarded, planOf, foreign, computation, requests>>

\* The name is sent to the mission in the address.
confirmRename ==
  /\ renaming # None
  /\ renaming' = None
  /\ requests' = requests \cup Ask("list", selectedAirport)
  /\ UNCHANGED <<airportVars, listed, route, guard, guarded, planOf, foreign, computation>>

handleDuplicate ==
  /\ OperatorActs /\ guard = "match"
  /\ requests' = requests \cup Ask("duplicate", route)
  /\ UNCHANGED <<airportVars, listed, route, guard, pageVars, computation>>

handleDeleteMission ==
  /\ OperatorActs /\ guard = "match"
  /\ requests' = requests \cup Ask("delete", route)
  /\ UNCHANGED <<airportVars, listed, route, guard, pageVars, computation>>

\* The copy is opened, wherever the operator is by now.
Duplicated(r, copy) ==
  /\ r.kind = "duplicate" /\ airportOf[copy] = airportOf[r.of]
  /\ IF selectedAirport = None THEN Load(None) ELSE Load(copy)
  /\ requests' = (Awaited({"guard", "page"}) \ {r}) \cup Ask("list", selectedAirport)
                   \cup (IF selectedAirport = None THEN {} ELSE Ask("guard", copy))
  /\ UNCHANGED <<airportVars, listed, computation>>

\* The list of missions is opened, wherever the operator is by now.
Deleted(r) ==
  /\ r.kind = "delete"
  /\ Load(None)
  /\ requests' = (Awaited({"guard", "page"}) \ {r}) \cup Ask("list", selectedAirport)
  /\ UNCHANGED <<airportVars, listed, computation>>

\* A request fails: the guard leaves, the details are not shown, the others log it.
Failed(r) ==
  /\ requests' = (IF r.kind = "guard" THEN Awaited({"guard", "page"}) ELSE requests) \ {r}
  /\ airportDetail' = IF r.kind = "detail" THEN None ELSE airportDetail
  /\ IF r.kind = "guard" THEN Load(None) ELSE UNCHANGED <<route, guard, pageVars>>
  /\ UNCHANGED <<selectedAirport, listed, computation, chosen, unasked>>

-----------------------------------------------------------------------------
(* The computation of a flight plan *)

\* Mutant of startComputation: the timer of the last result is left running.
startComputation_timer ==
  /\ guard = "match" /\ running = None
  /\ status' = "COMPUTING" /\ running' = route
  /\ UNCHANGED <<dismissTimer, airportVars, listed, route, guard, pageVars, requests>>

\* The compute button of a page; one computation at a time.
startComputation ==
  /\ guard = "match" /\ running = None
  /\ status' = "COMPUTING" /\ running' = route
  /\ dismissTimer' = FALSE
  /\ UNCHANGED <<airportVars, listed, route, guard, pageVars, requests>>

\* The result is shown by the page that is open, whichever mission it is of.
ComputationAnswered ==
  /\ running # None
  /\ running' = None /\ dismissTimer' = TRUE
  /\ requests' = requests \cup Ask("list", selectedAirport)
  /\ \/ /\ status' = "COMPLETED"
        /\ IF guard = "match"
           THEN planOf' = running /\ foreign' = (running # route)
           ELSE UNCHANGED <<planOf, foreign>>
     \/ status' = "FAILED" /\ UNCHANGED <<planOf, foreign>>
  /\ UNCHANGED <<airportVars, listed, route, guard, guarded, renaming>>

\* By its button or by the timer.
dismiss ==
  /\ dismissTimer
  /\ status' = "IDLE" /\ dismissTimer' = FALSE
  /\ UNCHANGED <<running, airportVars, listed, route, guard, pageVars, requests>>

\* The browser reloads: the airport is restored from its storage, and a
\* computation that was running is forgotten.
Reload ==
  /\ Reselect(selectedAirport, IF selectedAirport = None THEN None ELSE route,
              Ask("detail", selectedAirport))
  /\ airportDetail' = None /\ listed' = None
  /\ status' = "IDLE" /\ running' = None /\ dismissTimer' = FALSE
  /\ chosen' = selectedAirport /\ unasked' = FALSE

-----------------------------------------------------------------------------
Operator ==
  \/ \E a \in Airports : selectAirport(a)
  \/ clearAirport
  \/ \E m \in Missions : handleMissionSwitch(m)
  \/ handleDeselect
  \/ startRename \/ confirmRename
  \/ handleDuplicate \/ handleDeleteMission
  \/ startComputation
  \/ Reload

Answer(r) ==
  \/ DetailAnswered(r)
  \/ ListAnswered(r)
  \/ GuardAnswered(r)
  \/ PageAnswered(r)
  \/ \E copy \in Missions : Duplicated(r, copy)
  \/ Deleted(r)
  \/ Failed(r)

Next == Operator \/ (\E r \in requests : Answer(r)) \/ ComputationAnswered \/ dismiss

Spec == Init /\ [][Next]_tabsVars

-----------------------------------------------------------------------------
(* Properties *)

\* An open page, and the name being edited on it, is of the mission in the
\* address, and that mission is of the selected airport: whatever lists, guards
\* and details answer late, an operator never works on another airport's mission.
PageOfAddress ==
  guard = "match" =>
    /\ guarded = route /\ airportOf[route] = selectedAirport
    /\ renaming \in {None, route}

\* A page shows the plan of its own mission, but for one computed for another
\* mission while the page was open.
PlanOfPage == planOf \in {None, route} \/ foreign

\* The airport stays the one the operator chose, unless its details were on the
\* way when it was cleared.
ChosenStays == selectedAirport = chosen \/ unasked

\* A running computation is shown as running: the notice of the one before does
\* not take it away.
RunningShown == running # None => status = "COMPUTING"
=============================================================================
