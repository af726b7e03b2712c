-------------------------- MODULE MissionLifecycle --------------------------
(***************************************************************************)
(* The missions of one airport when every request runs alone, from its     *)
(* first read to its commit: what the backend promises if operators take   *)
(* turns.  MissionRequests drops that assumption.  One action per endpoint *)
(* (routes/missions, routes/flight_plans, routes/measurements,             *)
(* routes/airports, routes/drone_profiles); a refused request (404, 409,   *)
(* 422) commits nothing and is no step.                                    *)
(*                                                                         *)
(* `accepted` and `delivered` are history variables: the path of the plan  *)
(* the operator accepted, and the path that last left the server as an     *)
(* export or as a dispatch to the field hub; both are forgotten when the   *)
(* mission falls back to DRAFT or PLANNED.                                 *)
(***************************************************************************)
EXTENDS MissionAggregate

CONSTANTS
  Missions,         \* mission ids
  Absent,           \* no row with this id
  Clonable,         \* the statuses operators duplicate missions in
  DeletableDrones   \* the drone profiles operators delete

ASSUME LifecycleAssumption ==
  /\ Absent \notin Row
  /\ Clonable \subseteq Statuses
  /\ DeletableDrones \subseteq Drones

VARIABLES
  mission,    \* table mission, each row with its flight plan and inspections
  drones,     \* table drone_profile
  accepted,   \* history: the path accepted last
  delivered   \* history: the path exported or dispatched last

vars == <<mission, drones, accepted, delivered>>

Exists(m) == mission[m] # Absent

Kept(history, rows) ==
  [m \in Missions |->
     IF rows[m] = Absent \/ rows[m].status \in PRE_PLAN_STATUSES
     THEN NoPath ELSE history[m]]

(* The request commits the table `rows`. *)
Commit(rows) ==
  /\ mission' = rows
  /\ accepted' = Kept(accepted, rows)
  /\ delivered' = Kept(delivered, rows)

(* The request leaves row r behind for mission m and nothing else. *)
Save(m, r) ==
  /\ Commit([mission EXCEPT ![m] = r])
  /\ UNCHANGED drones

TypeOK ==
  /\ mission \in [Missions -> Row \cup {Absent}]
  /\ drones \subseteq Drones
  /\ accepted \in [Missions -> Path \cup {NoPath}]
  /\ delivered \in [Missions -> Path \cup {NoPath}]

Init ==
  /\ mission = [m \in Missions |-> Absent]
  /\ drones = Drones
  /\ accepted = [m \in Missions |-> NoPath]
  /\ delivered = [m \in Missions |-> NoPath]

-----------------------------------------------------------------------------
(* Configuration *)

(* The configurations a request can ask for: foreign keys hold, and only   *)
(* add_inspection and delete_inspection change the set of inspections.     *)
Choices(insps) ==
  {c \in Config : /\ c.drone \in drones \cup {NoDrone}
                  /\ c.perpendicular \in Perpendicular
                  /\ c.inspections = insps}

CreateMission(m) ==
  /\ ~Exists(m)
  /\ \E c \in Choices({}) : Save(m, NewMission(c))

(* PUT with at least one trajectory field; also update_inspection and      *)
(* reorder_inspections, whose data are in `params`.  Names, notes and the  *)
(* other columns are not in the model: a PUT of those alone is no step.    *)
UpdateMission(m) ==
  /\ Exists(m)
  /\ CanInvalidate(mission[m])
  /\ \E c \in Choices(mission[m].config.inspections) :
       Save(m, Reconfigure(mission[m], c))

AddInspection(m, i) ==
  /\ Exists(m)
  /\ CanAddInspection(mission[m])
  /\ i \notin mission[m].config.inspections
  /\ Save(m, Reconfigure(mission[m], [mission[m].config EXCEPT !.inspections = @ \cup {i}]))

DeleteInspection(m, i) ==
  /\ Exists(m)
  /\ CanInvalidate(mission[m])
  /\ i \in mission[m].config.inspections
  /\ Save(m, Reconfigure(mission[m], [mission[m].config EXCEPT !.inspections = @ \ {i}]))

(* One request for a set of missions; those past PLANNED are left out by   *)
(* the query.                                                              *)
BulkChangeDrone(S, d) ==
  LET Picked(m) == Exists(m) /\ m \in S /\ mission[m].status \in PRE_PLAN_STATUSES
  IN  /\ d \in drones
      /\ Commit([m \in Missions |->
                   IF Picked(m)
                   THEN Reconfigure(mission[m], [mission[m].config EXCEPT !.drone = d])
                   ELSE mission[m]])
      /\ UNCHANGED drones

(* ON DELETE SET NULL on mission.drone_profile_id, whatever the status.    *)
DeleteDrone(d) ==
  /\ d \in drones \cap DeletableDrones
  /\ drones' = drones \ {d}
  /\ Commit([m \in Missions |->
               IF Exists(m) /\ mission[m].config.drone = d
               THEN [mission[m] EXCEPT !.config.drone = NoDrone]
               ELSE mission[m]])

(* renormalize_airport_altitudes: ground[m] is the terrain resampled below *)
(* the mission's coordinates; MEASURED and terminal missions are skipped.  *)
RenormalizeAltitudes(ground) ==
  /\ Commit([m \in Missions |->
               IF Exists(m) /\ CanRenormalize(mission[m], ground[m])
               THEN Renormalize(mission[m], ground[m])
               ELSE mission[m]])
  /\ UNCHANGED drones

-----------------------------------------------------------------------------
(* Trajectory: POST generate-trajectory and its three ways to end *)

Generate(m) ==
  /\ Exists(m)
  /\ CanGenerate(mission[m])
  /\ Save(m, [Generated(mission[m]) EXCEPT !.computation = "COMPLETED"])

\* Mutant of GenerateFails: the new status survives the rollback.
GenerateFails_planned(m) ==
  /\ Exists(m)
  /\ Save(m, [mission[m] EXCEPT !.status = IF @ = "DRAFT" THEN "PLANNED" ELSE @,
                                !.computation = "FAILED"])

(* Any error rolls back the pipeline and keeps only the failure. *)
GenerateFails(m) ==
  /\ Exists(m)
  /\ Save(m, [mission[m] EXCEPT !.computation = "FAILED"])

(* The worker process dies after the commit of mark_computing(). *)
GenerateDies(m) ==
  /\ Exists(m)
  /\ Save(m, [mission[m] EXCEPT !.computation = "COMPUTING"])

\* Mutant of ResolveStaleness: a status that ComputationStatus does not have.
ResolveStaleness_timeout(m) ==
  /\ Exists(m)
  /\ mission[m].computation = "COMPUTING"
  /\ Save(m, [mission[m] EXCEPT !.computation = "TIMED_OUT"])

(* A poll of computation-status later than the timeout. *)
ResolveStaleness(m) ==
  /\ Exists(m)
  /\ mission[m].computation = "COMPUTING"
  /\ Save(m, [mission[m] EXCEPT !.computation = "FAILED"])

Revalidate(m) ==
  /\ Exists(m)
  /\ mission[m].plan # NoPlan
  /\ \E ok \in BOOLEAN : Save(m, [mission[m] EXCEPT !.plan.validated = ok])

BatchUpdateWaypoints(m) ==
  /\ Exists(m)
  /\ CanEditWaypoints(mission[m])
  /\ \E s \in HandEdits :
       \/ Save(m, EditWaypoints(mission[m], s))
       \/ \E p \in Points : Save(m, MoveEndpoint(mission[m], s, p))

-----------------------------------------------------------------------------
(* Status transitions *)

ValidateMission(m) ==
  /\ Exists(m)
  /\ CanTransition(mission[m], "VALIDATED")
  /\ mission' = [mission EXCEPT ![m] = TransitionTo(@, "VALIDATED")]
  /\ accepted' = [accepted EXCEPT ![m] = IF mission[m].plan = NoPlan
                                         THEN NoPath ELSE mission[m].plan.path]
  /\ UNCHANGED <<drones, delivered>>

(* POST export, and POST dispatch, which exports first. *)
ExportMission(m) ==
  /\ Exists(m)
  /\ CanExport(mission[m])
  /\ mission' = [mission EXCEPT ![m] = Exported(@)]
  /\ delivered' = [delivered EXCEPT ![m] = mission[m].plan.path]
  /\ UNCHANGED <<drones, accepted>>

(* create_measurement accepts a mission in any status. *)
CreateMeasurement(m) ==
  /\ Exists(m)
  /\ Save(m, MarkMeasured(mission[m]))

CompleteMission(m) ==
  /\ Exists(m)
  /\ CanTransition(mission[m], "COMPLETED")
  /\ Save(m, TransitionTo(mission[m], "COMPLETED"))

CancelMission(m) ==
  /\ Exists(m)
  /\ CanTransition(mission[m], "CANCELLED")
  /\ Save(m, TransitionTo(mission[m], "CANCELLED"))

DuplicateMission(m, copy) ==
  /\ Exists(m) /\ ~Exists(copy)
  /\ mission[m].status \in Clonable
  /\ Save(copy, Duplicated(mission[m]))

(* Inspections and the flight plan go with the row (ON DELETE CASCADE). *)
DeleteMission(m) ==
  /\ Exists(m)
  /\ Save(m, Absent)

-----------------------------------------------------------------------------
Next ==
  \/ \E m \in Missions :
       \/ CreateMission(m) \/ UpdateMission(m) \/ DeleteMission(m)
       \/ \E i \in Inspections : AddInspection(m, i) \/ DeleteInspection(m, i)
       \/ Generate(m) \/ GenerateFails(m) \/ GenerateDies(m) \/ ResolveStaleness(m)
       \/ Revalidate(m) \/ BatchUpdateWaypoints(m)
       \/ ValidateMission(m) \/ ExportMission(m) \/ CreateMeasurement(m)
       \/ CompleteMission(m) \/ CancelMission(m)
       \/ \E copy \in Missions : DuplicateMission(m, copy)
  \/ \E S \in SUBSET Missions, d \in Drones : BulkChangeDrone(S, d)
  \/ \E d \in Drones : DeleteDrone(d)
  \/ \E ground \in [Missions -> Points] : RenormalizeAltitudes(ground)

Spec == Init /\ [][Next]_vars

-----------------------------------------------------------------------------
(* Properties *)

(* From PLANNED on, except for an abandoned mission, there is a flight plan  *)
(* row: no sequence of requests reaches a status whose screens and exports *)
(* need a plan without one (NON_DRAFT_WITH_PLAN_STATUSES, export_mission). *)
PlanBehindStatus ==
  \A m \in Missions :
    Exists(m) /\ mission[m].status \notin {"DRAFT", "CANCELLED"}
      => mission[m].plan # NoPlan

(* What is exported, flown and measured is, waypoint for waypoint, what the *)
(* operator accepted: every edit or recomputation of the plan after the    *)
(* PLANNED -> VALIDATED step takes the acceptance back (regress_to_planned,*)
(* invalidate_trajectory) or is refused.                                   *)
AcceptedPlan ==
  \A m \in Missions :
    Exists(m) /\ mission[m].status \in {"VALIDATED", "EXPORTED", "MEASURED", "COMPLETED"}
      => mission[m].plan # NoPlan /\ accepted[m] = mission[m].plan.path

(* While a mission says EXPORTED, the file that left the server last is    *)
(* the plan in the database: the aircraft does not fly an older one.       *)
DeliveredPlan ==
  \A m \in Missions :
    Exists(m) /\ mission[m].status = "EXPORTED"
      => mission[m].plan # NoPlan /\ delivered[m] = mission[m].plan.path

(* "PLANNED => current trajectory" (Mission.duplicate, SPEC.md): from      *)
(* PLANNED on, the stored plan was computed from the configuration the     *)
(* mission has now.  True when operators neither duplicate CANCELLED       *)
(* missions, nor delete drone profiles, nor turn                           *)
(* require_perpendicular_runway_crossing off; false otherwise.             *)
CurrentTrajectory ==
  \A m \in Missions :
    Exists(m) /\ mission[m].status \notin {"DRAFT", "CANCELLED"}
      => mission[m].plan # NoPlan /\ mission[m].plan.path.config = mission[m].config

(* A plan kept as a stale reference is always announced as stale:          *)
(* has_unsaved_map_changes stays set until the next recompute              *)
(* (invalidate_trajectory).                                                *)
StaleIsFlagged ==
  \A m \in Missions :
    Exists(m) /\ mission[m].status = "DRAFT" /\ mission[m].plan # NoPlan
      => mission[m].unsaved

(* A measured or finished mission keeps the configuration and the path its *)
(* footage was scored against, whatever is requested of it or of the whole *)
(* airport; its drone profile may disappear.  It never gets back to an     *)
(* earlier status.                                                         *)
Locked(r) == r.status \in TERMINAL_STATUSES \cup {"MEASURED"}

LockedStep(r, s) ==
  /\ [s.config EXCEPT !.drone = r.config.drone] = r.config
  /\ IF r.plan = NoPlan THEN s.plan = NoPlan
     ELSE s.plan # NoPlan /\ s.plan.path = r.plan.path
  /\ s.status # r.status => s.status \in TRANSITIONS[r.status]

LockedMissions ==
  [][\A m \in Missions :
       Exists(m) /\ Locked(mission[m]) /\ mission'[m] # Absent
         => LockedStep(mission[m], mission'[m])]_vars
=============================================================================
