-------------------------- MODULE MissionAggregate --------------------------
(***************************************************************************)
(* The Mission aggregate root of the backend (models/mission.py): what one *)
(* call of a service does to the mission row, as operators on rows.  The   *)
(* modules that schedule the calls (MissionLifecycle: one request after    *)
(* the other, MissionRequests: concurrent requests) share them, so that a  *)
(* business rule is written once.                                          *)
(*                                                                         *)
(* A row keeps the columns the lifecycle depends on.  `config` stands for  *)
(* the trajectory-affecting data of the mission (TRAJECTORY_FIELDS and the *)
(* inspections with their configuration): the columns some operation       *)
(* treats in a way of its own have a field, all others are `params`.  A    *)
(* flight plan is the path it stores and the is_validated flag; the path   *)
(* remembers the configuration the pipeline computed it from and whether   *)
(* its waypoints were moved by hand since.                                 *)
(***************************************************************************)
EXTENDS FiniteSets, Integers, TLAPS

CONSTANTS
  Params,          \* values of the trajectory fields without a field below
  Points,          \* takeoff / landing coordinates
  Drones,          \* ids of drone profiles
  NoDrone,         \* drone_profile_id IS NULL
  Perpendicular,   \* values chosen for require_perpendicular_runway_crossing
  Inspections,     \* ids of inspections
  MaxInspections,  \* MAX_INSPECTIONS
  HandEdits,       \* geometries an operator can drag the waypoints to
  NoPath, NoPlan   \* no geometry; no row in flight_plan

Statuses == {"DRAFT", "PLANNED", "VALIDATED", "EXPORTED", "MEASURED",
             "COMPLETED", "CANCELLED"}

Computations == {"IDLE", "COMPUTING", "COMPLETED", "FAILED"}

Config == [params        : Params,
           takeoff       : Points,
           drone         : Drones \cup {NoDrone},
           perpendicular : BOOLEAN,
           inspections   : SUBSET Inspections]

Shapes == HandEdits \cup {"computed"}

Path == [config : Config, shape : Shapes]

Plan == [path : Path, validated : BOOLEAN]

Row == [status      : Statuses,
        config      : Config,
        plan        : Plan \cup {NoPlan},
        unsaved     : BOOLEAN,
        computation : Computations]

ASSUME SentinelAssumption ==
  /\ NoDrone \notin Drones
  /\ NoPath \notin Path
  /\ NoPlan \notin Plan

ASSUME ValueAssumption ==
  /\ Perpendicular \subseteq BOOLEAN
  /\ MaxInspections \in Nat

-----------------------------------------------------------------------------
(* The status machine and the status sets the guards are written with. *)

TRANSITIONS ==
  [DRAFT     |-> {"PLANNED", "CANCELLED"},
   PLANNED   |-> {"VALIDATED", "CANCELLED"},
   VALIDATED |-> {"EXPORTED", "MEASURED", "CANCELLED"},
   EXPORTED  |-> {"MEASURED", "CANCELLED"},
   MEASURED  |-> {"COMPLETED", "CANCELLED"},
   COMPLETED |-> {},
   CANCELLED |-> {}]

TERMINAL_STATUSES            == {"COMPLETED", "CANCELLED"}
NON_DRAFT_WITH_PLAN_STATUSES == {"PLANNED", "VALIDATED", "EXPORTED"}
POST_PLAN_STATUSES           == {"VALIDATED", "EXPORTED"}
EXPORT_ELIGIBLE_STATUSES     == {"VALIDATED", "EXPORTED", "MEASURED"}
PRE_EXPORT_EDITABLE_STATUSES == {"DRAFT", "PLANNED", "VALIDATED"}
PRE_PLAN_STATUSES            == {"DRAFT", "PLANNED"}

CanTransition(r, target) == target \in TRANSITIONS[r.status]

TransitionTo(r, target) == [r EXCEPT !.status = target]

MarkMeasured(r) ==
  IF r.status \in POST_PLAN_STATUSES THEN TransitionTo(r, "MEASURED") ELSE r

\* Mutant of CanInvalidate: only the terminal statuses are locked.
CanInvalidate_measured(r) == r.status \notin TERMINAL_STATUSES

CanInvalidate(r) == r.status \notin TERMINAL_STATUSES \cup {"MEASURED"}

\* Mutant of InvalidateTrajectory: the stale plan is not announced.
InvalidateTrajectory_unflagged(r) ==
  [r EXCEPT !.status = IF @ \in NON_DRAFT_WITH_PLAN_STATUSES THEN "DRAFT" ELSE @,
            !.computation = "IDLE"]

InvalidateTrajectory(r) ==
  [r EXCEPT !.status = IF @ \in NON_DRAFT_WITH_PLAN_STATUSES THEN "DRAFT" ELSE @,
            !.unsaved = TRUE,
            !.computation = "IDLE"]

\* Mutant of RegressToPlanned: an acceptance not yet exported survives edits.
RegressToPlanned_validated(r) ==
  [r EXCEPT !.status = IF @ = "EXPORTED" THEN "PLANNED" ELSE @]

RegressToPlanned(r) ==
  [r EXCEPT !.status = IF @ \in POST_PLAN_STATUSES THEN "PLANNED" ELSE @]

-----------------------------------------------------------------------------
(* Service operations.  Each has a guard CanX (the early returns, negated) *)
(* and the row it leaves behind.                                           *)

NewMission(c) ==
  [status |-> "DRAFT", config |-> c, plan |-> NoPlan,
   unsaved |-> FALSE, computation |-> "IDLE"]

(* update_mission, change_drone_profile, update / reorder / delete of      *)
(* inspections: trajectory-affecting data become c.                        *)
Reconfigure(r, c) == [InvalidateTrajectory(r) EXCEPT !.config = c]

CanAddInspection(r) ==
  /\ CanInvalidate(r)
  /\ Cardinality(r.config.inspections) < MaxInspections

(* A DEM or elevation change moves the coordinates to the new ground.  A   *)
(* DRAFT row is rewritten without invalidate_trajectory().                 *)
CanRenormalize(r, p) == CanInvalidate(r) /\ r.config.takeoff # p

Renormalize(r, p) ==
  LET moved == [r EXCEPT !.config.takeoff = p]
  IN  IF r.status \in NON_DRAFT_WITH_PLAN_STATUSES
      THEN InvalidateTrajectory(moved)
      ELSE moved

(* generate_trajectory: the stored plan is replaced by one for the row's   *)
(* configuration; VALIDATED and EXPORTED pass through DRAFT.               *)
CanGenerate(r) ==
  /\ r.config.inspections # {}
  /\ r.status \in PRE_PLAN_STATUSES \cup POST_PLAN_STATUSES

Computed(c) == [config |-> c, shape |-> "computed"]

\* Mutant of Generated: a recompute of an accepted mission keeps its status.
Generated_in_place(r) ==
  [r EXCEPT !.status = IF r.status \in POST_PLAN_STATUSES THEN @ ELSE "PLANNED",
            !.plan = [path |-> Computed(r.config), validated |-> TRUE],
            !.unsaved = FALSE]

Generated(r) ==
  LET draft == IF r.status \in POST_PLAN_STATUSES THEN InvalidateTrajectory(r) ELSE r
  IN  [draft EXCEPT !.status = "PLANNED",
                    !.plan = [path |-> Computed(r.config), validated |-> TRUE],
                    !.unsaved = FALSE]

CanEditWaypoints(r) ==
  /\ r.status \in PRE_EXPORT_EDITABLE_STATUSES
  /\ r.plan # NoPlan

(* batch_update_waypoints, insert_transit_waypoint, delete_transit_waypoint *)
EditWaypoints(r, s) ==
  [RegressToPlanned(r) EXCEPT !.plan.path.shape = s, !.unsaved = TRUE]

(* A batch that moves the TAKEOFF or LANDING waypoint writes the new point *)
(* to the mission's coordinate as well.                                    *)
MoveEndpoint(r, s, p) ==
  [EditWaypoints(r, s) EXCEPT !.config.takeoff = p,
                              !.plan.path.config.takeoff = p]

CanExport(r) ==
  /\ r.status \in EXPORT_ELIGIBLE_STATUSES
  /\ r.plan # NoPlan

Exported(r) ==
  IF r.status = "VALIDATED" THEN TransitionTo(r, "EXPORTED") ELSE r

(* duplicate(): a non-DRAFT original with a plan yields a PLANNED copy of   *)
(* it.  The copy takes every trajectory field but                          *)
(* require_perpendicular_runway_crossing, which falls back to its default, *)
(* TRUE.                                                                   *)
CopiedConfig(c) == [c EXCEPT !.perpendicular = TRUE]

\* Mutant of Duplicated: the plan a DRAFT keeps for reference is cloned, too.
Duplicated_draft(r) ==
  LET draft == NewMission(CopiedConfig(r.config))
  IN  IF r.plan # NoPlan
      THEN [draft EXCEPT !.status = "PLANNED", !.plan = r.plan]
      ELSE draft

Duplicated(r) ==
  LET draft == NewMission(CopiedConfig(r.config))
  IN  IF r.plan # NoPlan /\ r.status # "DRAFT"
      THEN [draft EXCEPT !.status = "PLANNED", !.plan = r.plan]
      ELSE draft

-----------------------------------------------------------------------------
(* Lemmas: each of these operators turns a row into a row.  The proofs     *)
(* about requests cite them by name.                                       *)

(* A fresh mission is a row. *)
LEMMA NewMissionRow ==
  ASSUME NEW c \in Config
  PROVE  NewMission(c) \in Row
BY DEF NewMission, Row, Statuses, Computations

(* The transitions of the status machine lead to statuses (TRANSITIONS). *)
LEMMA TransitionRow ==
  ASSUME NEW r \in Row, NEW t \in Statuses
  PROVE  TransitionTo(r, t) \in Row
BY DEF TransitionTo, Row

(* Entering a measurement (mark_measured) leaves a row. *)
LEMMA MarkMeasuredRow ==
  ASSUME NEW r \in Row
  PROVE  MarkMeasured(r) \in Row
BY DEF MarkMeasured, TransitionTo, Row, Statuses

(* So does losing the trajectory (invalidate_trajectory) ... *)
LEMMA InvalidateRow ==
  ASSUME NEW r \in Row
  PROVE  InvalidateTrajectory(r) \in Row
BY DEF InvalidateTrajectory, Row, Statuses, Computations

(* ... losing the validation (regress_to_planned) ... *)
LEMMA RegressRow ==
  ASSUME NEW r \in Row
  PROVE  RegressToPlanned(r) \in Row
BY DEF RegressToPlanned, Row, Statuses

(* ... a new configuration (update_mission) ... *)
LEMMA ReconfigureRow ==
  ASSUME NEW r \in Row, NEW c \in Config
  PROVE  Reconfigure(r, c) \in Row
BY InvalidateRow DEF Reconfigure, Row

(* ... a renormalized takeoff or landing point ... *)
LEMMA RenormalizeRow ==
  ASSUME NEW r \in Row, NEW p \in Points
  PROVE  Renormalize(r, p) \in Row
<1>1. [r EXCEPT !.config.takeoff = p] \in Row
  BY DEF Row, Config
<1> QED BY <1>1, InvalidateRow DEF Renormalize

(* ... a generated flight plan ... *)
LEMMA GeneratedRow ==
  ASSUME NEW r \in Row
  PROVE  Generated(r) \in Row
<1>1. [path |-> Computed(r.config), validated |-> TRUE] \in Plan
  BY DEF Plan, Path, Computed, Shapes, Row
<1>2. \A d \in Row : [d EXCEPT !.status = "PLANNED",
                               !.plan = [path |-> Computed(r.config), validated |-> TRUE],
                               !.unsaved = FALSE] \in Row
  BY <1>1 DEF Row, Statuses
<1> QED BY <1>2, InvalidateRow DEF Generated

(* ... moved waypoints ... *)
LEMMA EditWaypointsRow ==
  ASSUME NEW r \in Row, NEW s \in HandEdits, r.plan # NoPlan
  PROVE  /\ EditWaypoints(r, s) \in Row
         /\ EditWaypoints(r, s).plan \in Plan
<1>1. RegressToPlanned(r) \in Row /\ RegressToPlanned(r).plan \in Plan
  BY RegressRow DEF RegressToPlanned, Row
<1>2. \A q \in Plan : [q EXCEPT !.path.shape = s] \in Plan
  BY DEF Plan, Path, Shapes
<1> QED BY <1>1, <1>2 DEF EditWaypoints, Row

(* ... a moved takeoff or landing waypoint ... *)
LEMMA MoveEndpointRow ==
  ASSUME NEW r \in Row, NEW s \in HandEdits, NEW p \in Points, r.plan # NoPlan
  PROVE  /\ MoveEndpoint(r, s, p) \in Row
         /\ MoveEndpoint(r, s, p).plan \in Plan
<1>1. \A q \in Plan : [q EXCEPT !.path.config.takeoff = p] \in Plan
  BY DEF Plan, Path, Config
<1>2. \A c \in Config : [c EXCEPT !.takeoff = p] \in Config
  BY DEF Config
<1> QED BY <1>1, <1>2, EditWaypointsRow DEF MoveEndpoint, Row

(* ... an export ... *)
LEMMA ExportedRow ==
  ASSUME NEW r \in Row
  PROVE  Exported(r) \in Row
BY DEF Exported, TransitionTo, Row, Statuses

(* ... and the copy of a mission is a row, too (Mission.duplicate). *)
LEMMA DuplicatedRow ==
  ASSUME NEW r \in Row
  PROVE  Duplicated(r) \in Row
<1>1. CopiedConfig(r.config) \in Config
  BY DEF CopiedConfig, Config, Row
<1>2. NewMission(CopiedConfig(r.config)) \in Row
  BY <1>1, NewMissionRow
<1>3. \A d \in Row : [d EXCEPT !.status = "PLANNED", !.plan = r.plan] \in Row
  BY DEF Row, Statuses
<1> QED BY <1>2, <1>3 DEF Duplicated
=============================================================================
