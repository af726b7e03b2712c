--------------------------- MODULE WaypointEditing ---------------------------
(***************************************************************************)
(* The waypoints on the map page of one mission                            *)
(* (frontend/src/pages/operator-center/MissionMapPage.tsx with the hooks   *)
(* useWaypointEditing, useUndoRedo, waypointHistory and                    *)
(* useWaypointDragTool).  Waypoints are dragged in the browser, undone and *)
(* redone, and saved as one batch; transit waypoints are inserted and      *)
(* deleted on the server at once; a computation replaces the whole plan.   *)
(* A request is three steps, the click that sends it, the server that      *)
(* serves it and the answer that reaches the page, and the operator goes   *)
(* on working in between.  An answer that never arrives is a failure to    *)
(* the page whether or not the server did the work.                        *)
(***************************************************************************)
EXTENDS Integers, Sequences, FiniteSets

CONSTANTS
  Waypoints,    \* waypoint ids; an insertion and a computation use new ones
  Positions,    \* positions an operator can drag a waypoint to
  Saved,        \* the position a waypoint has in the plan
  MaxSteps,     \* depth of the undo stack (10 in the code)
  MaxRequests,  \* bound: requests in flight
  NoWaypoint    \* nothing is being dragged

EditingAssumption ==
  /\ MaxSteps \in Nat \ {0} /\ MaxRequests \in Nat
  /\ NoWaypoint \notin Waypoints /\ Saved \notin Positions

VARIABLES
  stored,     \* the waypoints of the server's plan
  issued,     \* waypoint ids the server has used
  plan,       \* flightPlan, as the page got it last
  planFrom,   \* history: the kind of request plan came from
  dirty,      \* dirtyWaypoints: positions not saved yet
  past,       \* the undo stack, oldest move first
  future,     \* the redo stack, next move first
  truncated,  \* history: the undo stack lost a move since it was cleared
  dragged,    \* dragState of the listeners that are subscribed now
  button,     \* the mouse button is down
  pan,        \* map.dragPan is enabled
  requests    \* requests in flight

editing == <<plan, planFrom, dirty, past, future, truncated>>
mouse   == <<dragged, button, pan>>
vars    == <<stored, issued, editing, mouse, requests>>

Unsaved == UNION {[S -> Positions \cup {Saved}] : S \in SUBSET Waypoints}

Nothing == [w \in {} |-> 0]

Move == [waypoint : Waypoints, old : Positions \cup {Saved}, new : Positions, hadDirtyBefore : BOOLEAN]

Kinds == {"save", "insert", "delete", "revalidate", "compute"}

Request == [kind : Kinds, batch : SUBSET Waypoints,
            status : {"pending", "answered", "failed"}, answer : SUBSET Waypoints]

\* Every variable of the page and of the server's plan stays in its range.
TypeOK ==
  /\ stored \subseteq Waypoints /\ issued \subseteq Waypoints
  /\ plan \subseteq Waypoints /\ planFrom \in Kinds \cup {"load"}
  /\ dirty \in Unsaved
  /\ past \in Seq(Move) /\ Len(past) <= MaxSteps
  /\ future \in Seq(Move) /\ Len(future) <= MaxSteps
  /\ truncated \in BOOLEAN /\ button \in BOOLEAN /\ pan \in BOOLEAN
  /\ dragged \in Waypoints \cup {NoWaypoint}
  /\ requests \subseteq Request

\* The page has just loaded the mission and its plan.
Init ==
  /\ stored \in (SUBSET Waypoints) \ {{}}
  /\ issued = stored
  /\ plan = stored /\ planFrom = "load"
  /\ dirty = Nothing
  /\ past = <<>> /\ future = <<>> /\ truncated = FALSE
  /\ dragged = NoWaypoint /\ button = FALSE /\ pan = TRUE
  /\ requests = {}

-----------------------------------------------------------------------------
(* Plans and the undo history *)

With(f, w, p) == [x \in DOMAIN f \cup {w} |-> IF x = w THEN p ELSE f[x]]

Without(f, w) == [x \in DOMAIN f \ {w} |-> f[x]]

\* What the map shows: the plan with the unsaved positions over it.
effectiveWaypoints ==
  [w \in plan |-> IF w \in DOMAIN dirty THEN dirty[w] ELSE Saved]

\* Mutant of LastSteps: the stack grows without a limit.
LastSteps_all(s) == s

LastSteps(s) == IF Len(s) > MaxSteps THEN SubSeq(s, Len(s) - MaxSteps + 1, Len(s)) ELSE s

FirstSteps(s) == IF Len(s) > MaxSteps THEN SubSeq(s, 1, MaxSteps) ELSE s

\* Mutant of applyWaypointUndo: the first move of a waypoint is undone to its
\* old position like any other, and the waypoint stays dirty.
applyWaypointUndo_keeps(d, move) == With(d, move.waypoint, move.old)

\* Undoing the first unsaved move of a waypoint takes its entry away.
applyWaypointUndo(d, move) ==
  IF move.hadDirtyBefore THEN With(d, move.waypoint, move.old) ELSE Without(d, move.waypoint)

applyWaypointRedo(d, move) == With(d, move.waypoint, move.new)

Push(move) ==
  /\ past' = LastSteps(Append(past, move))
  /\ truncated' = (truncated \/ Len(past) = MaxSteps)

Forget == past' = <<>> /\ future' = <<>> /\ truncated' = FALSE

-----------------------------------------------------------------------------
(* The mouse, the undo and redo buttons and keys *)

\* A change of the plan or of the unsaved positions makes a new handler of
\* drags, and the listeners are subscribed again with a fresh dragState.
Resubscribe == dragged' = NoWaypoint /\ UNCHANGED <<button, pan>>

MouseDown(w) ==
  /\ ~button
  /\ button' = TRUE
  /\ w \in plan
  /\ dragged' = w
  /\ pan' = FALSE
  /\ UNCHANGED <<stored, issued, editing, requests>>

\* Mutant of handleWaypointDrag: hadDirtyBefore is read after the new entry is
\* in place.
handleWaypointDrag_late(w, p) ==
  /\ Push([waypoint |-> w, old |-> effectiveWaypoints[w], new |-> p, hadDirtyBefore |-> TRUE])
  /\ future' = <<>>
  /\ dirty' = With(dirty, w, p)

handleWaypointDrag(w, p) ==
  /\ Push([waypoint |-> w, old |-> effectiveWaypoints[w], new |-> p,
           hadDirtyBefore |-> w \in DOMAIN dirty])
  /\ future' = <<>>
  /\ dirty' = With(dirty, w, p)

\* The button goes up over position p: the drag ends, and moves its waypoint.
MouseUp(p) ==
  /\ button
  /\ button' = FALSE
  /\ dragged # NoWaypoint
  /\ dragged \in plan
  /\ handleWaypointDrag(dragged, p)
  /\ pan' = TRUE
  /\ dragged' = NoWaypoint
  /\ UNCHANGED <<stored, issued, plan, planFrom, requests>>

\* The button goes up after the listeners were replaced: nobody hears the drag.
MouseUpUnheard ==
  /\ button
  /\ button' = FALSE
  /\ dragged = NoWaypoint
  /\ UNCHANGED <<stored, issued, editing, dragged, pan, requests>>

\* Choosing another tool enables the pan again.
SelectTool ==
  /\ ~button
  /\ ~pan
  /\ pan' = TRUE
  /\ UNCHANGED <<stored, issued, editing, dragged, button, requests>>

handleUndo ==
  /\ past # <<>>
  /\ past' = SubSeq(past, 1, Len(past) - 1)
  /\ future' = FirstSteps(<<past[Len(past)]>> \o future)
  /\ dirty' = applyWaypointUndo(dirty, past[Len(past)])
  /\ Resubscribe
  /\ UNCHANGED <<stored, issued, plan, planFrom, truncated, requests>>

\* Mutant of handleRedo: the move is replayed but not put back on the undo stack.
handleRedo_unpushed ==
  /\ future # <<>>
  /\ UNCHANGED <<past, truncated>>
  /\ future' = Tail(future)
  /\ dirty' = applyWaypointRedo(dirty, Head(future))
  /\ Resubscribe
  /\ UNCHANGED <<stored, issued, plan, planFrom, requests>>

handleRedo ==
  /\ future # <<>>
  /\ Push(Head(future))
  /\ future' = Tail(future)
  /\ dirty' = applyWaypointRedo(dirty, Head(future))
  /\ Resubscribe
  /\ UNCHANGED <<stored, issued, plan, planFrom, requests>>

-----------------------------------------------------------------------------
(* Requests of the page *)

InFlight(kind) == \E r \in requests : r.kind = kind

Send(kind, batch) ==
  LET r == [kind |-> kind, batch |-> batch, status |-> "pending", answer |-> {}]
  IN  /\ \A q \in requests : ~(q.kind = kind /\ q.batch = batch)
      /\ requests' = requests \cup {r}
      /\ UNCHANGED <<stored, issued, editing, mouse>>

\* The save button is enabled for unsaved moves and while no save runs.
handleSave ==
  /\ dirty # Nothing
  /\ ~InFlight("save")
  /\ Send("save", DOMAIN dirty)

\* A click on a transit path, a double click on a transit waypoint.
handleTransitInsert == Send("insert", {})

handleTransitDelete(w) ==
  /\ w \in plan
  /\ Send("delete", {w})

handleRevalidate ==
  /\ dirty = Nothing
  /\ ~InFlight("revalidate")
  /\ Send("revalidate", {})

\* One computation at a time (computingRef); unsaved moves do not disable it.
startComputation ==
  /\ ~InFlight("compute")
  /\ Send("compute", {})

(* The server *)

Serve(r, status, answer) ==
  /\ r.status = "pending"
  /\ requests' = (requests \ {r}) \cup {[r EXCEPT !.status = status, !.answer = answer]}
  /\ UNCHANGED <<editing, mouse>>

\* Served, and the answer either travels back or is lost on its way.
Store(r, new) ==
  /\ stored' = new
  /\ Serve(r, "answered", new) \/ Serve(r, "failed", {})

batch_update_waypoints(r) ==
  /\ r.kind = "save"
  /\ r.batch \subseteq stored
  /\ Store(r, stored)
  /\ UNCHANGED issued

insert_transit_waypoint(r) ==
  /\ r.kind = "insert"
  /\ \E w \in Waypoints \ issued :
       /\ Store(r, stored \cup {w})
       /\ issued' = issued \cup {w}

delete_transit_waypoint(r) ==
  /\ r.kind = "delete"
  /\ r.batch \subseteq stored
  /\ Store(r, stored \ r.batch)
  /\ UNCHANGED issued

revalidate_flight_plan(r) ==
  /\ r.kind = "revalidate"
  /\ Store(r, stored)
  /\ UNCHANGED issued

generate_trajectory(r) ==
  /\ r.kind = "compute"
  /\ \E w \in Waypoints \ issued :
       /\ Store(r, {w})
       /\ issued' = issued \cup {w}

\* A refusal: the plan or a waypoint is gone, the status forbids the change.
Refuse(r) ==
  /\ Serve(r, "failed", {})
  /\ UNCHANGED <<stored, issued>>

(* Answers *)

\* Mutant of applyPlan: the answer replaces the plan, the unsaved moves stay.
applyPlan_keeps(r) ==
  /\ plan' = r.answer /\ planFrom' = r.kind
  /\ UNCHANGED <<dirty, past, future, truncated>>

\* Mutant of applyPlan: the undo history outlives the moves it belongs to.
applyPlan_history(r) ==
  /\ plan' = r.answer /\ planFrom' = r.kind
  /\ dirty' = Nothing
  /\ UNCHANGED <<past, future, truncated>>

\* The plan of the answer; the unsaved moves and their history are dropped,
\* those made since the request was sent as well.
applyPlan(r) ==
  /\ plan' = r.answer /\ planFrom' = r.kind
  /\ dirty' = Nothing
  /\ Forget

Answered(r) ==
  /\ r \in requests
  /\ r.status = "answered"
  /\ r.kind # "revalidate"
  /\ applyPlan(r)
  /\ Resubscribe
  /\ requests' = requests \ {r}
  /\ UNCHANGED <<stored, issued>>

\* A revalidation brings the plan with it and leaves the unsaved moves alone.
Revalidated(r) ==
  /\ r \in requests
  /\ r.status = "answered"
  /\ r.kind = "revalidate"
  /\ plan' = r.answer /\ planFrom' = r.kind
  /\ UNCHANGED <<dirty, past, future, truncated>>
  /\ Resubscribe
  /\ requests' = requests \ {r}
  /\ UNCHANGED <<stored, issued>>

\* A failure is shown to the operator and changes nothing.
SaveError(r) ==
  /\ r \in requests
  /\ r.status = "failed"
  /\ requests' = requests \ {r}
  /\ UNCHANGED <<stored, issued, editing, mouse>>

Operator ==
  \/ \E w \in Waypoints : MouseDown(w)
  \/ \E p \in Positions : MouseUp(p)
  \/ MouseUpUnheard
  \/ SelectTool
  \/ handleUndo
  \/ handleRedo

Click ==
  /\ Cardinality(requests) < MaxRequests
  /\ \/ handleSave
     \/ handleTransitInsert
     \/ \E w \in Waypoints : handleTransitDelete(w)
     \/ handleRevalidate
     \/ startComputation

Server ==
  \E r \in requests :
    \/ batch_update_waypoints(r)
    \/ insert_transit_waypoint(r)
    \/ delete_transit_waypoint(r)
    \/ revalidate_flight_plan(r)
    \/ generate_trajectory(r)
    \/ Refuse(r)

Answer == \E r \in requests : Answered(r) \/ Revalidated(r) \/ SaveError(r)

Next == Operator \/ Click \/ Server \/ Answer

Spec == Init /\ [][Next]_vars

-----------------------------------------------------------------------------
(* Properties *)

\* What is unsaved, and what undo and redo would bring back, belongs to the plan
\* the page shows: a save names waypoints the operator sees.  A revalidation
\* may swap the plan under the unsaved moves (handleRevalidate does not drop
\* them), and is left out.
EditsWithinPlan ==
  planFrom # "revalidate" =>
    /\ DOMAIN dirty \subseteq plan
    /\ \A i \in 1..Len(past) : past[i].waypoint \in plan
    /\ \A i \in 1..Len(future) : future[i].waypoint \in plan

\* Undoing every move leaves nothing to save, unless the oldest moves have left
\* the stack of MaxSteps: the page never asks to save a plan it did not change.
UndoneIsClean ==
  LET undone[n \in 0..Len(past)] ==
        IF n = 0 THEN dirty
        ELSE applyWaypointUndo(undone[n - 1], past[Len(past) - n + 1])
  IN  ~truncated => undone[Len(past)] = Nothing

\* The move that undo would take back is the one the map shows: what is unsaved
\* and the undo stack never drift apart.
UndoMatchesMap ==
  past # <<>> =>
    LET move == past[Len(past)]
    IN  move.waypoint \in DOMAIN dirty /\ dirty[move.waypoint] = move.new

\* AirportMap.tsx:341 says of the pan of the map: "disabled on mousedown over a
\* draggable feature, re-enabled on mouseup".  An answer that arrives during a
\* drag replaces the listeners, and the button then goes up unheard.
PanAfterDrag == ~button => pan
=============================================================================
