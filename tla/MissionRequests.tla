-------------------------- MODULE MissionRequests --------------------------
(***************************************************************************)
(* The missions of MissionLifecycle under concurrent requests.  A request  *)
(* is a database session at READ COMMITTED: it loads the mission row into  *)
(* the session's identity map, decides on that copy and, at its commit,    *)
(* updates the columns it changed (Merge), whatever the row has become in  *)
(* the meantime.  There is no version column; only add_inspection takes a  *)
(* row lock.  A trajectory generation commits COMPUTING, loads the mission *)
(* again, deletes the old flight plan (and holds that lock while it        *)
(* computes) and commits the new one.                                      *)
(*                                                                         *)
(* Missions are not duplicated here, and a bulk drone change is an update  *)
(* of each mission.                                                        *)
(***************************************************************************)
EXTENDS MissionAggregate, TLC

CONSTANTS
  Missions, Absent, DeletableDrones,   \* as in MissionLifecycle
  Operators,   \* clients that work on missions
  Pollers,     \* clients that poll computation-status; may be operators, too
  Verdicts,    \* the results revalidations have
  Idle         \* a client without a request

(* `old` is the row as loaded, `new` the row as the session will flush it, *)
(* `replaced` says that the flight plan row loaded has been deleted since. *)
Steps == {"save", "add", "remove", "edit", "accept", "export", "delete", "poll",
          "load", "loaded", "compute"}

Request == [step : Steps, mission : Missions, old : Row, new : Row, replaced : BOOLEAN]

ASSUME ClientAssumption ==
  /\ Idle \notin Request
  /\ Absent \notin Row
  /\ DeletableDrones \subseteq Drones
  /\ Verdicts \subseteq BOOLEAN

Clients == Operators \cup Pollers

VARIABLES
  mission, drones, accepted, delivered,   \* as in MissionLifecycle
  request                                 \* what each client has in flight

table == <<mission, drones, accepted, delivered>>

vars == <<mission, drones, accepted, delivered, request>>

Serial == INSTANCE MissionLifecycle WITH Clonable <- {}

Exists(m) == mission[m] # Absent

TypeOK ==
  /\ Serial!TypeOK
  /\ request \in [Clients -> Request \cup {Idle}]

Init ==
  /\ Serial!Init
  /\ request = [c \in Clients |-> Idle]

-----------------------------------------------------------------------------
(* Sessions *)

InFlight(c, steps) == request[c] # Idle /\ request[c].step \in steps

(* SELECT ... FOR UPDATE of add_inspection, until its commit. *)
RowLocked(m, c) ==
  \E d \in Clients \ {c} : InFlight(d, {"add"}) /\ request[d].mission = m

(* A generation has deleted the flight plan and not committed yet. *)
PlanLocked(m, c) ==
  \E d \in Clients \ {c} : /\ InFlight(d, {"compute"})
                           /\ request[d].mission = m
                           /\ ~request[d].replaced
                           /\ request[d].old.plan # NoPlan

(* UPDATE of the columns in which the session's copy has changed. *)
Column(cur, old, new) == IF new = old THEN cur ELSE new

MergedConfig(cur, old, new) ==
  [params        |-> Column(cur.params, old.params, new.params),
   takeoff       |-> Column(cur.takeoff, old.takeoff, new.takeoff),
   drone         |-> Column(cur.drone, old.drone, new.drone),
   perpendicular |-> Column(cur.perpendicular, old.perpendicular, new.perpendicular),
   inspections   |-> (cur.inspections \cup (new.inspections \ old.inspections))
                       \ (old.inspections \ new.inspections)]

MergedPlan(cur, old, new) ==
  IF new = old THEN cur
  ELSE [path |-> [config |-> MergedConfig(cur.path.config, old.path.config, new.path.config),
                  shape  |-> Column(cur.path.shape, old.path.shape, new.path.shape)],
        validated |-> Column(cur.validated, old.validated, new.validated)]

Merge(cur, old, new) ==
  [status      |-> Column(cur.status, old.status, new.status),
   config      |-> MergedConfig(cur.config, old.config, new.config),
   plan        |-> MergedPlan(cur.plan, old.plan, new.plan),
   unsaved     |-> Column(cur.unsaved, old.unsaved, new.unsaved),
   computation |-> Column(cur.computation, old.computation, new.computation)]

Start(c, step, m, new) ==
  /\ request[c] = Idle
  /\ request' = [request EXCEPT ![c] = [step |-> step, mission |-> m, old |-> mission[m],
                                        new |-> new, replaced |-> FALSE]]
  /\ UNCHANGED table

End(c) == request' = [request EXCEPT ![c] = Idle]

(* The table with the changes of client c's session. *)
Flushed(c) ==
  LET q == request[c]
  IN  [mission EXCEPT ![q.mission] = Merge(@, q.old, q.new)]

Committable(c, steps) ==
  /\ InFlight(c, steps)
  /\ Exists(request[c].mission)
  /\ ~RowLocked(request[c].mission, c)

-----------------------------------------------------------------------------
(* First half of a request: load the row, check the guards, change the copy *)

(* Ids are fresh: no request has the id of a mission yet to be created. *)
CreateMission(m) ==
  /\ \A c \in Clients : request[c] # Idle => request[c].mission # m
  /\ Serial!CreateMission(m)
  /\ UNCHANGED request

(* ON DELETE SET NULL locks the rows it writes. *)
DeleteDrone(o, d) ==
  /\ request[o] = Idle
  /\ \A c \in Clients, m \in Missions : ~RowLocked(m, c)
  /\ Serial!DeleteDrone(d)
  /\ UNCHANGED request

ReadUpdate(c, m) ==
  /\ Exists(m)
  /\ CanInvalidate(mission[m])
  /\ \E cfg \in Serial!Choices(mission[m].config.inspections) :
       Start(c, "save", m, Reconfigure(mission[m], cfg))

\* Mutant of LockForAdd: the row is read without FOR UPDATE.
LockForAdd_unlocked(c, m, i) ==
  /\ Exists(m)
  /\ CanAddInspection(mission[m])
  /\ i \notin mission[m].config.inspections
  /\ Start(c, "save", m,
           Reconfigure(mission[m], [mission[m].config EXCEPT !.inspections = @ \cup {i}]))

LockForAdd(c, m, i) ==
  /\ Exists(m)
  /\ ~RowLocked(m, c)
  /\ CanAddInspection(mission[m])
  /\ i \notin mission[m].config.inspections
  /\ Start(c, "add", m,
           Reconfigure(mission[m], [mission[m].config EXCEPT !.inspections = @ \cup {i}]))

ReadDeleteInspection(c, m, i) ==
  /\ Exists(m)
  /\ CanInvalidate(mission[m])
  /\ i \in mission[m].config.inspections
  /\ Start(c, "remove", m,
           Reconfigure(mission[m], [mission[m].config EXCEPT !.inspections = @ \ {i}]))

ReadRenormalize(c, m, p) ==
  /\ Exists(m)
  /\ CanRenormalize(mission[m], p)
  /\ Start(c, "save", m, Renormalize(mission[m], p))

ReadEdit(c, m) ==
  /\ Exists(m)
  /\ CanEditWaypoints(mission[m])
  /\ \E s \in HandEdits :
       \/ Start(c, "edit", m, EditWaypoints(mission[m], s))
       \/ \E p \in Points : Start(c, "edit", m, MoveEndpoint(mission[m], s, p))

ReadRevalidate(c, m) ==
  /\ Exists(m)
  /\ mission[m].plan # NoPlan
  /\ \E ok \in Verdicts : Start(c, "edit", m, [mission[m] EXCEPT !.plan.validated = ok])

ReadValidate(c, m) ==
  /\ Exists(m)
  /\ CanTransition(mission[m], "VALIDATED")
  /\ Start(c, "accept", m, TransitionTo(mission[m], "VALIDATED"))

ReadExport(c, m) ==
  /\ Exists(m)
  /\ CanExport(mission[m])
  /\ Start(c, "export", m, Exported(mission[m]))

ReadMeasure(c, m) ==
  /\ Exists(m)
  /\ Start(c, "save", m, MarkMeasured(mission[m]))

ReadFinal(c, m) ==
  /\ Exists(m)
  /\ \E target \in TERMINAL_STATUSES :
       /\ CanTransition(mission[m], target)
       /\ Start(c, "save", m, TransitionTo(mission[m], target))

ReadDelete(c, m) ==
  /\ Exists(m)
  /\ Start(c, "delete", m, mission[m])

(* A poll more than five minutes after mark_computing(). *)
ReadPoll(c, m) ==
  /\ Exists(m)
  /\ mission[m].computation = "COMPUTING"
  /\ Start(c, "poll", m, [mission[m] EXCEPT !.computation = "FAILED"])

-----------------------------------------------------------------------------
(* Second half: flush and commit *)

(* The foreign key on drone_profile_id must hold.                          *)
(* Deleting an inspection clears waypoint.inspection_id (ON DELETE SET     *)
(* NULL) and waits for a generation that has deleted those waypoints.      *)
CommitSave(c) ==
  /\ Committable(c, {"save", "add", "remove", "poll"})
  /\ request[c].step = "remove" => ~PlanLocked(request[c].mission, c)
  /\ Flushed(c)[request[c].mission].config.drone \in drones \cup {NoDrone}
  /\ Serial!Commit(Flushed(c))
  /\ UNCHANGED drones
  /\ End(c)

(* Waypoints and validation result are written by primary key: the flush   *)
(* waits for a generation that has deleted them and fails once it commits. *)
CommitEdit(c) ==
  /\ Committable(c, {"edit"})
  /\ ~PlanLocked(request[c].mission, c)
  /\ ~request[c].replaced
  /\ Serial!Commit(Flushed(c))
  /\ UNCHANGED drones
  /\ End(c)

(* The operator has accepted the plan this request loaded. *)
CommitValidate(c) ==
  /\ Committable(c, {"accept"})
  /\ mission' = Flushed(c)
  /\ accepted' = [accepted EXCEPT ![request[c].mission] =
                    IF request[c].old.plan = NoPlan THEN NoPath
                    ELSE request[c].old.plan.path]
  /\ UNCHANGED <<drones, delivered>>
  /\ End(c)

CommitExport(c) ==
  LET q == request[c]
  IN  /\ Committable(c, {"export"})
      /\ mission' = Flushed(c)
      /\ accepted' = Serial!Kept(accepted, Flushed(c))
      /\ delivered' = Serial!Kept([delivered EXCEPT ![q.mission] = q.old.plan.path], Flushed(c))
      /\ UNCHANGED drones
      /\ End(c)

CommitDelete(c) ==
  /\ Committable(c, {"delete"})
  /\ ~PlanLocked(request[c].mission, c)
  /\ Serial!Save(request[c].mission, Absent)
  /\ End(c)

(* An error or a refusal rolls the session back; so does the death of the  *)
(* process, which in a generation leaves COMPUTING behind.  A poll sets    *)
(* one column of one row: it fails only when the row is gone.              *)
Abort(c) ==
  /\ request[c] # Idle
  /\ InFlight(c, {"poll"}) => ~Exists(request[c].mission)
  /\ End(c)
  /\ UNCHANGED table

-----------------------------------------------------------------------------
(* POST generate-trajectory *)

MarkComputing(c, m) ==
  /\ Exists(m)
  /\ ~RowLocked(m, c)
  /\ request[c] = Idle
  /\ request' = [request EXCEPT ![c] = [step |-> "load", mission |-> m, old |-> mission[m],
                                        new |-> mission[m], replaced |-> FALSE]]
  /\ Serial!Save(m, [mission[m] EXCEPT !.computation = "COMPUTING"])

(* The commit has expired the session's copy: _load_mission_data reads anew. *)
LoadMission(c) ==
  LET m == request[c].mission
  IN  /\ InFlight(c, {"load"})
      /\ Exists(m)
      /\ CanGenerate(mission[m])
      /\ request' = [request EXCEPT ![c].step = "loaded",
                                    ![c].old = mission[m],
                                    ![c].new = Generated(mission[m]),
                                    ![c].replaced = FALSE]
      /\ UNCHANGED table

\* Mutant of DeletePlan: the deletion is committed before the computation.
DeletePlan_committed(c) ==
  /\ Committable(c, {"loaded"})
  /\ ~PlanLocked(request[c].mission, c)
  /\ Serial!Save(request[c].mission, [mission[request[c].mission] EXCEPT !.plan = NoPlan])
  /\ request' = [request EXCEPT ![c].step = "compute"]

(* DELETE of the loaded flight plan, if any, waits for whoever holds it. *)
DeletePlan(c) ==
  /\ InFlight(c, {"loaded"})
  /\ ~PlanLocked(request[c].mission, c)
  /\ request' = [request EXCEPT ![c].step = "compute"]
  /\ UNCHANGED table

\* Mutant of FinishedRow: the flag of the old plan survives.
FinishedRow_flagged(cur, old) ==
  [cur EXCEPT !.status = IF old.status = "PLANNED" THEN @ ELSE "PLANNED",
              !.plan = Generated(old).plan,
              !.computation = "COMPLETED"]

\* Mutant of FinishedRow: the plan's own flag is taken for the status.
FinishedRow_done(cur, old) ==
  [cur EXCEPT !.status = IF old.status = "PLANNED" THEN @ ELSE "PLANNED",
              !.plan = Generated(old).plan,
              !.computation = "VALIDATED"]

(* status and has_unsaved_map_changes are in the UPDATE when they differ   *)
(* from the loaded copy; from VALIDATED and EXPORTED they always do, since *)
(* invalidate_trajectory() is flushed first.                               *)
FinishedRow(cur, old) ==
  [cur EXCEPT !.status = IF old.status = "PLANNED" THEN @ ELSE "PLANNED",
              !.unsaved = IF old.unsaved \/ old.status \in POST_PLAN_STATUSES
                          THEN FALSE ELSE @,
              !.plan = Generated(old).plan,
              !.computation = "COMPLETED"]

(* The new plan meets the unique key on flight_plan.mission_id and, in its *)
(* waypoints, the foreign keys of the inspections it was computed for.     *)
FinishGenerate(c) ==
  LET q == request[c]
      m == q.mission
  IN  /\ Committable(c, {"compute"})
      /\ ~q.replaced
      /\ q.old.config.inspections \subseteq mission[m].config.inspections
      /\ Serial!Save(m, FinishedRow(mission[m], q.old))
      /\ request' = [d \in Clients |->
                       IF d = c THEN Idle
                       ELSE IF request[d] # Idle /\ request[d].mission = m
                            THEN [request[d] EXCEPT !.replaced = TRUE]
                            ELSE request[d]]

(* Rollback, reload, FAILED. *)
GenerateFails(c) ==
  /\ Committable(c, {"load", "loaded", "compute"})
  /\ Serial!Save(request[c].mission,
                  [mission[request[c].mission] EXCEPT !.computation = "FAILED"])
  /\ End(c)

-----------------------------------------------------------------------------
Work(c) ==
  \/ \E m \in Missions :
       \/ ReadUpdate(c, m) \/ ReadEdit(c, m) \/ ReadRevalidate(c, m)
       \/ \E i \in Inspections : LockForAdd(c, m, i) \/ ReadDeleteInspection(c, m, i)
       \/ \E p \in Points : ReadRenormalize(c, m, p)
       \/ ReadValidate(c, m) \/ ReadExport(c, m) \/ ReadMeasure(c, m)
       \/ ReadFinal(c, m) \/ ReadDelete(c, m)
       \/ MarkComputing(c, m)
  \/ LoadMission(c) \/ DeletePlan(c) \/ FinishGenerate(c) \/ GenerateFails(c)

Finish(c) ==
  \/ CommitSave(c) \/ CommitEdit(c) \/ CommitValidate(c)
  \/ CommitExport(c) \/ CommitDelete(c)

Next ==
  \/ \E m \in Missions : CreateMission(m)
  \/ \E o \in Operators, d \in Drones : DeleteDrone(o, d)
  \/ \E c \in Operators : Work(c)
  \/ \E c \in Pollers, m \in Missions : ReadPoll(c, m)
  \/ \E c \in Clients : Finish(c) \/ Abort(c)

Spec == Init /\ [][Next]_vars

\* Operators are interchangeable, and so are inspections.
RequestSymmetry == Permutations(Operators) \cup Permutations(Inspections)

-----------------------------------------------------------------------------
(* Properties *)

(* Two clients that each see room for one more inspection do not exceed    *)
(* MAX_INSPECTIONS together (the FOR UPDATE of add_inspection).            *)
InspectionLimit ==
  \A m \in Missions :
    Exists(m) => Cardinality(mission[m].config.inspections) <= MaxInspections

(* No interleaving leaves a mission past DRAFT without a flight plan,      *)
(* although a generation deletes the old one long before the new one is    *)
(* there.                                                                  *)
PlanBehindStatus == Serial!PlanBehindStatus

(* With a single client the sessions are the requests of MissionLifecycle: *)
(* splitting a request in two halves adds nothing but concurrency.         *)
SerialSpec == Serial!Spec

(* PLANNED => current trajectory: the status the pipeline commits after a  *)
(* long computation is never put on a plan of another configuration.       *)
CurrentTrajectory == Serial!CurrentTrajectory
=============================================================================
