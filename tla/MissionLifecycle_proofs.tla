---------------------- MODULE MissionLifecycle_proofs ----------------------
(***************************************************************************)
(* Theorems about MissionLifecycle for every set of missions, drones,      *)
(* coordinates, inspections and every limit.                               *)
(***************************************************************************)
EXTENDS MissionLifecycle, TLAPS

-----------------------------------------------------------------------------
(* Type correctness *)

(* Committing well-formed rows keeps the history variables well formed. *)
LEMMA CommitType ==
  ASSUME TypeOK, NEW rows \in [Missions -> Row \cup {Absent}], Commit(rows)
  PROVE  /\ mission' \in [Missions -> Row \cup {Absent}]
         /\ accepted' \in [Missions -> Path \cup {NoPath}]
         /\ delivered' \in [Missions -> Path \cup {NoPath}]
BY DEF TypeOK, Commit, Kept

(* A request that changes one row keeps the state well formed. *)
LEMMA SaveType ==
  ASSUME TypeOK, NEW m \in Missions, NEW r \in Row \cup {Absent}, Save(m, r)
  PROVE  TypeOK'
<1>1. [mission EXCEPT ![m] = r] \in [Missions -> Row \cup {Absent}]
  BY DEF TypeOK
<1> QED BY <1>1, CommitType DEF Save, TypeOK

LEMMA ExistingRow ==
  ASSUME TypeOK, NEW m \in Missions, Exists(m)
  PROVE  mission[m] \in Row
BY DEF TypeOK, Exists

(* The requests for one mission. *)
MissionNext(m) ==
  \/ CreateMission(m) \/ UpdateMission(m) \/ DeleteMission(m)
  \/ \E i \in Inspections : AddInspection(m, i) \/ DeleteInspection(m, i)
  \/ Generate(m) \/ GenerateFails(m) \/ GenerateDies(m) \/ ResolveStaleness(m)
  \/ Revalidate(m) \/ BatchUpdateWaypoints(m)
  \/ ValidateMission(m) \/ ExportMission(m) \/ CreateMeasurement(m)
  \/ CompleteMission(m) \/ CancelMission(m)
  \/ \E copy \in Missions : DuplicateMission(m, copy)

(* The requests of one mission keep the state well formed. *)
LEMMA MissionNextType ==
  ASSUME TypeOK, NEW m \in Missions, MissionNext(m)
  PROVE  TypeOK'
<1>1. CASE CreateMission(m)
  <2>1. PICK c \in Choices({}) : Save(m, NewMission(c))
    BY <1>1 DEF CreateMission
  <2> QED BY <2>1, NewMissionRow, SaveType DEF Choices
<1>2. CASE UpdateMission(m)
  <2>1. PICK c \in Choices(mission[m].config.inspections) :
               Save(m, Reconfigure(mission[m], c))
    BY <1>2 DEF UpdateMission
  <2> QED BY <1>2, <2>1, ExistingRow, ReconfigureRow, SaveType DEF Choices, UpdateMission
<1>3. CASE DeleteMission(m)
  BY <1>3, SaveType DEF DeleteMission
<1>4. ASSUME NEW i \in Inspections, AddInspection(m, i) PROVE TypeOK'
  <2>1. [mission[m].config EXCEPT !.inspections = @ \cup {i}] \in Config
    BY <1>4, ExistingRow DEF AddInspection, Row, Config
  <2> QED BY <1>4, <2>1, ExistingRow, ReconfigureRow, SaveType DEF AddInspection
<1>5. ASSUME NEW i \in Inspections, DeleteInspection(m, i) PROVE TypeOK'
  <2>1. [mission[m].config EXCEPT !.inspections = @ \ {i}] \in Config
    BY <1>5, ExistingRow DEF DeleteInspection, Row, Config
  <2> QED BY <1>5, <2>1, ExistingRow, ReconfigureRow, SaveType DEF DeleteInspection
<1>6. CASE Generate(m)
  <2>1. [Generated(mission[m]) EXCEPT !.computation = "COMPLETED"] \in Row
    BY <1>6, ExistingRow, GeneratedRow DEF Generate, Row, Computations
  <2> QED BY <1>6, <2>1, SaveType DEF Generate
<1>7. CASE GenerateFails(m) \/ GenerateDies(m) \/ ResolveStaleness(m)
  <2>1. \A c \in Computations : Exists(m) => [mission[m] EXCEPT !.computation = c] \in Row
    BY ExistingRow DEF Row
  <2> QED BY <1>7, <2>1, SaveType
          DEF GenerateFails, GenerateDies, ResolveStaleness, Computations
<1>8. CASE Revalidate(m)
  <2>1. PICK ok \in BOOLEAN : Save(m, [mission[m] EXCEPT !.plan.validated = ok])
    BY <1>8 DEF Revalidate
  <2>2. [mission[m] EXCEPT !.plan.validated = ok] \in Row
    BY <1>8, ExistingRow DEF Revalidate, Row, Plan
  <2> QED BY <2>1, <2>2, SaveType
<1>9. CASE BatchUpdateWaypoints(m)
  <2>1. PICK s \in HandEdits :
          \/ Save(m, EditWaypoints(mission[m], s))
          \/ \E p \in Points : Save(m, MoveEndpoint(mission[m], s, p))
    BY <1>9 DEF BatchUpdateWaypoints
  <2>2. mission[m] \in Row /\ mission[m].plan # NoPlan
    BY <1>9, ExistingRow DEF BatchUpdateWaypoints, CanEditWaypoints
  <2> QED BY <2>1, <2>2, EditWaypointsRow, MoveEndpointRow, SaveType
<1>10. CASE ValidateMission(m)
  <2>1. TransitionTo(mission[m], "VALIDATED") \in Row
    BY <1>10, ExistingRow, TransitionRow DEF ValidateMission, Statuses
  <2>2. mission[m].plan # NoPlan => mission[m].plan.path \in Path
    BY <1>10, ExistingRow DEF ValidateMission, Row, Plan
  <2> QED BY <1>10, <2>1, <2>2 DEF ValidateMission, TypeOK
<1>11. CASE ExportMission(m)
  <2>1. Exported(mission[m]) \in Row /\ mission[m].plan.path \in Path
    BY <1>11, ExistingRow, ExportedRow DEF ExportMission, CanExport, Row, Plan
  <2> QED BY <1>11, <2>1 DEF ExportMission, TypeOK
<1>12. CASE CreateMeasurement(m)
  BY <1>12, ExistingRow, MarkMeasuredRow, SaveType DEF CreateMeasurement
<1>13. CASE CompleteMission(m)
  BY <1>13, ExistingRow, TransitionRow, SaveType DEF CompleteMission, Statuses
<1>14. CASE CancelMission(m)
  BY <1>14, ExistingRow, TransitionRow, SaveType DEF CancelMission, Statuses
<1>15. ASSUME NEW copy \in Missions, DuplicateMission(m, copy) PROVE TypeOK'
  BY <1>15, ExistingRow, DuplicatedRow, SaveType DEF DuplicateMission
<1> QED
  BY <1>1, <1>2, <1>3, <1>4, <1>5, <1>6, <1>7, <1>8, <1>9, <1>10, <1>11, <1>12,
     <1>13, <1>14, <1>15 DEF MissionNext

(* The requests that touch every mission of the airport. *)
LEMMA BulkType ==
  ASSUME TypeOK
  PROVE  /\ \A S \in SUBSET Missions, d \in Drones : BulkChangeDrone(S, d) => TypeOK'
         /\ \A d \in Drones : DeleteDrone(d) => TypeOK'
         /\ \A ground \in [Missions -> Points] : RenormalizeAltitudes(ground) => TypeOK'
<1>1. ASSUME NEW S \in SUBSET Missions, NEW d \in Drones, BulkChangeDrone(S, d)
      PROVE  TypeOK'
  <2> DEFINE Picked(m) == Exists(m) /\ m \in S /\ mission[m].status \in PRE_PLAN_STATUSES
             row(m) == IF Picked(m)
                       THEN Reconfigure(mission[m], [mission[m].config EXCEPT !.drone = d])
                       ELSE mission[m]
  <2>1. ASSUME NEW m \in Missions PROVE row(m) \in Row \cup {Absent}
    <3>1. CASE Picked(m)
      <4>1. [mission[m].config EXCEPT !.drone = d] \in Config
        BY <3>1, ExistingRow DEF Row, Config
      <4> QED BY <3>1, <4>1, ExistingRow, ReconfigureRow
    <3>2. CASE ~Picked(m)
      BY <3>2 DEF TypeOK
    <3> QED BY <3>1, <3>2
  <2>2. [m \in Missions |-> row(m)] \in [Missions -> Row \cup {Absent}]
    BY <2>1
  <2>3. Commit([m \in Missions |-> row(m)]) /\ drones' = drones
    BY <1>1 DEF BulkChangeDrone
  <2> HIDE DEF row
  <2> QED BY <2>2, <2>3, CommitType DEF TypeOK
<1>2. ASSUME NEW d \in Drones, DeleteDrone(d) PROVE TypeOK'
  <2> DEFINE row(m) == IF Exists(m) /\ mission[m].config.drone = d
                       THEN [mission[m] EXCEPT !.config.drone = NoDrone]
                       ELSE mission[m]
  <2>1. ASSUME NEW m \in Missions PROVE row(m) \in Row \cup {Absent}
    <3>1. CASE Exists(m)
      BY <3>1, ExistingRow DEF Row, Config
    <3>2. CASE ~Exists(m)
      BY <3>2 DEF TypeOK
    <3> QED BY <3>1, <3>2
  <2>2. [m \in Missions |-> row(m)] \in [Missions -> Row \cup {Absent}]
    BY <2>1
  <2>3. Commit([m \in Missions |-> row(m)]) /\ drones' = drones \ {d}
    BY <1>2 DEF DeleteDrone
  <2> HIDE DEF row
  <2> QED BY <2>2, <2>3, CommitType DEF TypeOK
<1>3. ASSUME NEW ground \in [Missions -> Points], RenormalizeAltitudes(ground)
      PROVE  TypeOK'
  <2> DEFINE row(m) == IF Exists(m) /\ CanRenormalize(mission[m], ground[m])
                       THEN Renormalize(mission[m], ground[m])
                       ELSE mission[m]
  <2>1. ASSUME NEW m \in Missions PROVE row(m) \in Row \cup {Absent}
    BY ExistingRow, RenormalizeRow DEF TypeOK
  <2>2. [m \in Missions |-> row(m)] \in [Missions -> Row \cup {Absent}]
    BY <2>1
  <2>3. Commit([m \in Missions |-> row(m)]) /\ drones' = drones
    BY <1>3 DEF RenormalizeAltitudes
  <2> HIDE DEF row
  <2> QED BY <2>2, <2>3, CommitType DEF TypeOK
<1> QED BY <1>1, <1>2, <1>3

(* Every reachable state is well typed. *)
THEOREM TypeCorrect == Spec => []TypeOK
<1>1. Init => TypeOK
  BY DEF Init, TypeOK
<1>2. TypeOK /\ [Next]_vars => TypeOK'
  <2> SUFFICES ASSUME TypeOK, [Next]_vars PROVE TypeOK'
    OBVIOUS
  <2>1. CASE Next
    <3>1. CASE \E m \in Missions : MissionNext(m)
      BY <3>1, MissionNextType
    <3>2. CASE ~ \E m \in Missions : MissionNext(m)
      BY <2>1, <3>2, BulkType DEF Next, MissionNext
    <3> QED BY <3>1, <3>2
  <2>2. CASE UNCHANGED vars
    BY <2>2 DEF vars, TypeOK
  <2> QED BY <2>1, <2>2
<1> QED BY <1>1, <1>2, PTL DEF Spec

-----------------------------------------------------------------------------
(* What is flown is what was accepted *)

Approved == {"VALIDATED", "EXPORTED", "MEASURED", "COMPLETED"}

(* The inductive invariant: the four properties, mission by mission.  None *)
(* is inductive alone: an acceptance concerns a plan that must exist       *)
(* (PlanBehindStatus), and an export delivers the accepted path.           *)
Sound(m) ==
  Exists(m) =>
    /\ mission[m].status \notin {"DRAFT", "CANCELLED"} => mission[m].plan # NoPlan
    /\ mission[m].status \in Approved => accepted[m] = mission[m].plan.path
    /\ mission[m].status = "EXPORTED" => delivered[m] = mission[m].plan.path
    /\ mission[m].status = "DRAFT" /\ mission[m].plan # NoPlan => mission[m].unsaved

FlownInv == TypeOK /\ \A m \in Missions : Sound(m)

(* A change of one row that cannot break the invariant: it does not enter  *)
(* an approved status, and keeps the path while it stays in one.           *)
Harmless(r, s) ==
  s # Absent =>
    /\ s.status \notin {"DRAFT", "CANCELLED"} => s.plan # NoPlan
    /\ s.status = "DRAFT" /\ s.plan # NoPlan => s.unsaved
    /\ s.status \in Approved =>
         /\ r # Absent /\ r.status \in Approved
         /\ s.plan.path = r.plan.path
         /\ s.status = "EXPORTED" => r.status = "EXPORTED"

(* A request all of whose row changes are harmless keeps the invariant. *)
LEMMA HarmlessCommit ==
  ASSUME FlownInv, TypeOK',
         NEW rows \in [Missions -> Row \cup {Absent}], Commit(rows),
         \A m \in Missions : Harmless(mission[m], rows[m])
  PROVE  FlownInv'
<1>1. ASSUME NEW m \in Missions PROVE Sound(m)'
  <2>1. mission'[m] = rows[m]
    BY DEF Commit
  <2>2. CASE rows[m] = Absent \/ rows[m].status \notin Approved
    BY <2>1, <2>2 DEF Sound, Exists, Harmless, Approved
  <2>3. CASE rows[m] # Absent /\ rows[m].status \in Approved
    <3>1. accepted'[m] = accepted[m] /\ delivered'[m] = delivered[m]
      BY <2>3 DEF Commit, Kept, Approved, PRE_PLAN_STATUSES
    <3>2. Sound(m) /\ Harmless(mission[m], rows[m])
      BY DEF FlownInv
    <3> QED BY <2>1, <2>3, <3>1, <3>2 DEF Sound, Exists, Harmless, Approved
  <2> QED BY <2>2, <2>3
<1> QED BY <1>1 DEF FlownInv

(* A request that changes one row harmlessly keeps the invariant. *)
LEMMA HarmlessSave ==
  ASSUME FlownInv, TypeOK', NEW m \in Missions, NEW r \in Row \cup {Absent},
         Save(m, r), Harmless(mission[m], r)
  PROVE  FlownInv'
<1> DEFINE rows == [mission EXCEPT ![m] = r]
<1>1. rows \in [Missions -> Row \cup {Absent}]
  BY DEF FlownInv, TypeOK
<1>2. Commit(rows)
  BY DEF Save
<1>3. ASSUME NEW n \in Missions, n # m PROVE Harmless(mission[n], mission[n])
  BY DEF FlownInv, Sound, Exists, Harmless
<1>4. \A n \in Missions : Harmless(mission[n], rows[n])
  BY <1>3 DEF FlownInv, TypeOK
<1> HIDE DEF rows
<1> QED BY <1>1, <1>2, <1>4, HarmlessCommit

(* The facts about one row the steps below start from. *)
LEMMA SoundRow ==
  ASSUME FlownInv, NEW m \in Missions, Exists(m)
  PROVE  /\ mission[m] \in Row
         /\ mission[m] # Absent
         /\ Harmless(mission[m], mission[m])
BY ExistingRow DEF FlownInv, Sound, Exists, Harmless

(* The operators of the aggregate root are harmless. *)
LEMMA HarmlessOperators ==
  ASSUME NEW r \in Row, r # Absent, Harmless(r, r)
  PROVE  /\ \A c \in Config : CanInvalidate(r) => Harmless(r, Reconfigure(r, c))
         /\ \A p \in Points : CanRenormalize(r, p) => Harmless(r, Renormalize(r, p))
         /\ \A s \in HandEdits : CanEditWaypoints(r) => Harmless(r, EditWaypoints(r, s))
         /\ \A s \in HandEdits, p \in Points :
              CanEditWaypoints(r) => Harmless(r, MoveEndpoint(r, s, p))
         /\ \A d \in Drones \cup {NoDrone} : Harmless(r, [r EXCEPT !.config.drone = d])
         /\ \A c \in Computations : Harmless(r, [r EXCEPT !.computation = c])
         /\ Harmless(r, MarkMeasured(r))
<1> USE DEF Harmless, Approved, Statuses
<1>1. \A c \in Config : CanInvalidate(r) => Harmless(r, Reconfigure(r, c))
  BY DEF CanInvalidate, Reconfigure, InvalidateTrajectory, Row,
         NON_DRAFT_WITH_PLAN_STATUSES, TERMINAL_STATUSES
<1>2. \A p \in Points : CanRenormalize(r, p) => Harmless(r, Renormalize(r, p))
  BY DEF CanRenormalize, CanInvalidate, Renormalize, InvalidateTrajectory, Row,
         NON_DRAFT_WITH_PLAN_STATUSES, TERMINAL_STATUSES
<1>3. \A s \in HandEdits : CanEditWaypoints(r) =>
        /\ EditWaypoints(r, s).status \notin Approved
        /\ EditWaypoints(r, s).status \in {"DRAFT", "PLANNED"}
        /\ EditWaypoints(r, s).plan \in Plan
        /\ EditWaypoints(r, s).unsaved = TRUE
  BY EditWaypointsRow DEF CanEditWaypoints, EditWaypoints, RegressToPlanned, Row,
         PRE_EXPORT_EDITABLE_STATUSES, POST_PLAN_STATUSES
<1>4. \A s \in HandEdits : CanEditWaypoints(r) => Harmless(r, EditWaypoints(r, s))
  BY <1>3, SentinelAssumption
<1>5. ASSUME NEW s \in HandEdits, NEW p \in Points, CanEditWaypoints(r)
      PROVE  Harmless(r, MoveEndpoint(r, s, p))
  <2> DEFINE e == EditWaypoints(r, s)
             v == MoveEndpoint(r, s, p)
  <2>1. e \in Row /\ v \in Row /\ v.plan \in Plan
    BY <1>5, EditWaypointsRow, MoveEndpointRow DEF CanEditWaypoints
  <2>2. v = [e EXCEPT !.config.takeoff = p, !.plan.path.config.takeoff = p]
    BY DEF MoveEndpoint
  <2>3. e.status \in {"DRAFT", "PLANNED"} /\ e.unsaved = TRUE
    BY <1>3, <1>5
  <2> HIDE DEF e, v
  <2>4. v.status = e.status /\ v.unsaved = e.unsaved
    BY <2>1, <2>2 DEF Row
  <2>5. Harmless(r, v)
    BY <2>1, <2>3, <2>4, SentinelAssumption
  <2> QED BY <2>5 DEF v
<1>6. \A s \in HandEdits, p \in Points :
        CanEditWaypoints(r) => Harmless(r, MoveEndpoint(r, s, p))
  BY <1>5
<1>7. \A d \in Drones \cup {NoDrone} : Harmless(r, [r EXCEPT !.config.drone = d])
  BY DEF Row
<1>8. \A c \in Computations : Harmless(r, [r EXCEPT !.computation = c])
  BY DEF Row
<1>9. Harmless(r, MarkMeasured(r))
  BY DEF MarkMeasured, TransitionTo, POST_PLAN_STATUSES, Row
<1> QED BY <1>1, <1>2, <1>4, <1>6, <1>7, <1>8, <1>9

(* The requests of one mission keep the invariant. *)
LEMMA MissionNextFlown ==
  ASSUME FlownInv, NEW m \in Missions, MissionNext(m), TypeOK'
  PROVE  FlownInv'
<1> USE DEF Approved
<1>1. CASE CreateMission(m)
  <2>1. PICK c \in Choices({}) : Save(m, NewMission(c))
    BY <1>1 DEF CreateMission
  <2>2. Harmless(mission[m], NewMission(c))
    BY DEF Harmless, NewMission
  <2> QED BY <2>1, <2>2, NewMissionRow, HarmlessSave DEF Choices
<1>2. CASE UpdateMission(m)
  <2>1. PICK c \in Choices(mission[m].config.inspections) :
               Save(m, Reconfigure(mission[m], c))
    BY <1>2 DEF UpdateMission
  <2>2. Exists(m) /\ CanInvalidate(mission[m]) /\ c \in Config
    BY <1>2, <2>1 DEF UpdateMission, Choices
  <2> QED BY <2>1, <2>2, SoundRow, HarmlessOperators, ReconfigureRow, HarmlessSave
<1>3. CASE DeleteMission(m)
  BY <1>3, HarmlessSave DEF DeleteMission, Harmless
<1>4. ASSUME NEW i \in Inspections, AddInspection(m, i) \/ DeleteInspection(m, i)
      PROVE  FlownInv'
  <2>1. Exists(m) /\ CanInvalidate(mission[m])
    BY <1>4 DEF AddInspection, DeleteInspection, CanAddInspection
  <2>2. PICK S \in SUBSET Inspections :
               Save(m, Reconfigure(mission[m], [mission[m].config EXCEPT !.inspections = S]))
    BY <1>4, <2>1, SoundRow DEF AddInspection, DeleteInspection, Row, Config
  <2>3. [mission[m].config EXCEPT !.inspections = S] \in Config
    BY <2>1, SoundRow DEF Row, Config
  <2> QED BY <2>1, <2>2, <2>3, SoundRow, HarmlessOperators, ReconfigureRow, HarmlessSave
<1>5. CASE Generate(m)
  <2> DEFINE g == [Generated(mission[m]) EXCEPT !.computation = "COMPLETED"]
  <2>1. Generated(mission[m]) \in Row
    BY <1>5, SoundRow, GeneratedRow DEF Generate
  <2>2. /\ Generated(mission[m]).status = "PLANNED"
        /\ Generated(mission[m]).plan =
             [path |-> Computed(mission[m].config), validated |-> TRUE]
    BY <1>5, SoundRow, InvalidateRow DEF Generate, Generated, Row
  <2>3. g \in Row /\ g.status = "PLANNED" /\ g.plan = Generated(mission[m]).plan
    BY <2>1, <2>2 DEF Row, Computations
  <2>4. Save(m, g)
    BY <1>5 DEF Generate
  <2> HIDE DEF g
  <2>5. [path |-> Computed(mission[m].config), validated |-> TRUE] \in Plan
    BY <1>5, SoundRow DEF Generate, Plan, Path, Computed, Shapes, Row
  <2>6. Harmless(mission[m], g)
    BY <2>2, <2>3, <2>5, SentinelAssumption DEF Harmless
  <2> QED BY <2>3, <2>4, <2>6, HarmlessSave
<1>6. CASE GenerateFails(m) \/ GenerateDies(m) \/ ResolveStaleness(m)
  <2>1. PICK c \in Computations : Exists(m) /\ Save(m, [mission[m] EXCEPT !.computation = c])
    BY <1>6 DEF GenerateFails, GenerateDies, ResolveStaleness, Computations
  <2>2. [mission[m] EXCEPT !.computation = c] \in Row
    BY <2>1, SoundRow DEF Row
  <2> QED BY <2>1, <2>2, SoundRow, HarmlessOperators, HarmlessSave
<1>7. CASE Revalidate(m)
  <2>1. PICK ok \in BOOLEAN : Save(m, [mission[m] EXCEPT !.plan.validated = ok])
    BY <1>7 DEF Revalidate
  <2> DEFINE r == mission[m]
             s == [r EXCEPT !.plan.validated = ok]
  <2>2. r \in Row /\ r # Absent /\ Harmless(r, r) /\ r.plan \in Plan
    BY <1>7, SoundRow DEF Revalidate, Row
  <2>3. /\ s \in Row /\ s.status = r.status /\ s.unsaved = r.unsaved
        /\ s.plan \in Plan /\ s.plan.path = r.plan.path
    BY <2>2 DEF Row, Plan
  <2>4. Save(m, s)
    BY <2>1
  <2>5. Harmless(r, s)
    <3> HIDE DEF r, s
    <3> QED BY <2>2, <2>3, SentinelAssumption DEF Harmless
  <2> HIDE DEF s
  <2> QED BY <2>3, <2>4, <2>5, HarmlessSave
<1>8. CASE BatchUpdateWaypoints(m)
  <2>1. PICK s \in HandEdits :
          \/ Save(m, EditWaypoints(mission[m], s))
          \/ \E p \in Points : Save(m, MoveEndpoint(mission[m], s, p))
    BY <1>8 DEF BatchUpdateWaypoints
  <2>2. Exists(m) /\ CanEditWaypoints(mission[m]) /\ mission[m].plan # NoPlan
    BY <1>8 DEF BatchUpdateWaypoints, CanEditWaypoints
  <2> QED BY <2>1, <2>2, SoundRow, HarmlessOperators, EditWaypointsRow, MoveEndpointRow,
             HarmlessSave
<1>9. CASE ValidateMission(m)
  <2>1. /\ mission[m] \in Row /\ Exists(m)
        /\ mission[m].status = "PLANNED" /\ mission[m].plan # NoPlan
    BY <1>9, SoundRow
       DEF ValidateMission, CanTransition, TRANSITIONS, Row, Statuses, FlownInv, Sound
  <2>2. /\ mission' = [mission EXCEPT ![m] = TransitionTo(mission[m], "VALIDATED")]
        /\ accepted' = [accepted EXCEPT ![m] = mission[m].plan.path]
        /\ delivered' = delivered
    BY <1>9, <2>1 DEF ValidateMission
  <2>3. /\ TransitionTo(mission[m], "VALIDATED").status = "VALIDATED"
        /\ TransitionTo(mission[m], "VALIDATED").plan = mission[m].plan
    BY <2>1 DEF TransitionTo, Row
  <2>4. ASSUME NEW n \in Missions PROVE Sound(n)'
    <3>1. CASE n = m
      BY <2>1, <2>2, <2>3, <3>1 DEF Sound, Exists, FlownInv, TypeOK
    <3>2. CASE n # m
      BY <2>2, <3>2 DEF Sound, Exists, FlownInv, TypeOK
    <3> QED BY <3>1, <3>2
  <2> QED BY <2>4 DEF FlownInv
<1>10. CASE ExportMission(m)
  <2>1. mission[m] \in Row /\ Exists(m) /\ CanExport(mission[m]) /\ Sound(m)
    BY <1>10, SoundRow DEF ExportMission, FlownInv
  <2>2. /\ Exported(mission[m]).plan = mission[m].plan
        /\ Exported(mission[m]).status \in Approved
        /\ mission[m].status \in Approved
    BY <2>1 DEF Exported, TransitionTo, Row, CanExport, EXPORT_ELIGIBLE_STATUSES
  <2>3. /\ mission' = [mission EXCEPT ![m] = Exported(mission[m])]
        /\ delivered' = [delivered EXCEPT ![m] = mission[m].plan.path]
        /\ accepted' = accepted
    BY <1>10 DEF ExportMission
  <2>4. ASSUME NEW n \in Missions PROVE Sound(n)'
    <3>1. CASE n = m
      BY <2>1, <2>2, <2>3, <3>1 DEF Sound, Exists, FlownInv, TypeOK, CanExport
    <3>2. CASE n # m
      BY <2>3, <3>2 DEF Sound, Exists, FlownInv, TypeOK
    <3> QED BY <3>1, <3>2
  <2> QED BY <2>4 DEF FlownInv
<1>11. CASE CreateMeasurement(m)
  BY <1>11, SoundRow, MarkMeasuredRow, HarmlessOperators, HarmlessSave DEF CreateMeasurement
<1>12. CASE CompleteMission(m) \/ CancelMission(m)
  <2>1. PICK t \in {"COMPLETED", "CANCELLED"} :
          /\ Exists(m) /\ CanTransition(mission[m], t)
          /\ Save(m, TransitionTo(mission[m], t))
    BY <1>12 DEF CompleteMission, CancelMission
  <2>2. mission[m] \in Row /\ Harmless(mission[m], mission[m]) /\ mission[m] # Absent
    BY <2>1, SoundRow
  <2>3. t = "COMPLETED" => mission[m].status = "MEASURED"
    BY <2>1, <2>2 DEF CanTransition, TRANSITIONS, Row, Statuses
  <2>4. /\ TransitionTo(mission[m], t) \in Row
        /\ Harmless(mission[m], TransitionTo(mission[m], t))
    BY <2>2, <2>3, TransitionRow DEF Harmless, TransitionTo, Row, Statuses
  <2> QED BY <2>1, <2>4, HarmlessSave
<1>13. ASSUME NEW copy \in Missions, DuplicateMission(m, copy) PROVE FlownInv'
  <2>1. mission[m] \in Row /\ Save(copy, Duplicated(mission[m]))
    BY <1>13, SoundRow DEF DuplicateMission
  <2> DEFINE draft == NewMission(CopiedConfig(mission[m].config))
  <2>2. draft.status = "DRAFT" /\ draft.plan = NoPlan /\ draft \in Row
    BY <2>1, NewMissionRow DEF NewMission, CopiedConfig, Row, Config
  <2>3. Duplicated(mission[m]) =
          IF mission[m].plan # NoPlan /\ mission[m].status # "DRAFT"
          THEN [draft EXCEPT !.status = "PLANNED", !.plan = mission[m].plan]
          ELSE draft
    BY DEF Duplicated
  <2> HIDE DEF draft
  <2>4. Harmless(mission[copy], Duplicated(mission[m]))
    BY <2>2, <2>3 DEF Harmless, Row
  <2> QED BY <2>1, <2>4, DuplicatedRow, HarmlessSave
<1> QED
  BY <1>1, <1>2, <1>3, <1>4, <1>5, <1>6, <1>7, <1>8, <1>9, <1>10, <1>11, <1>12, <1>13
  DEF MissionNext

(* So do those that touch every mission of the airport. *)
LEMMA BulkFlown ==
  ASSUME FlownInv, TypeOK'
  PROVE  /\ \A S \in SUBSET Missions, d \in Drones : BulkChangeDrone(S, d) => FlownInv'
         /\ \A d \in Drones : DeleteDrone(d) => FlownInv'
         /\ \A ground \in [Missions -> Points] : RenormalizeAltitudes(ground) => FlownInv'
<1>0. \A m \in Missions : ~Exists(m) => Harmless(mission[m], mission[m])
  BY DEF Exists, Harmless
<1>1. ASSUME NEW S \in SUBSET Missions, NEW d \in Drones, BulkChangeDrone(S, d)
      PROVE  FlownInv'
  <2> DEFINE Picked(m) == Exists(m) /\ m \in S /\ mission[m].status \in PRE_PLAN_STATUSES
             row(m) == IF Picked(m)
                       THEN Reconfigure(mission[m], [mission[m].config EXCEPT !.drone = d])
                       ELSE mission[m]
  <2>1. ASSUME NEW m \in Missions
        PROVE  row(m) \in Row \cup {Absent} /\ Harmless(mission[m], row(m))
    <3>1. CASE Picked(m)
      <4>1. [mission[m].config EXCEPT !.drone = d] \in Config
        BY <3>1, SoundRow DEF Row, Config
      <4>2. CanInvalidate(mission[m])
        BY <3>1 DEF CanInvalidate, PRE_PLAN_STATUSES, TERMINAL_STATUSES
      <4> QED BY <3>1, <4>1, <4>2, SoundRow, ReconfigureRow, HarmlessOperators DEF Exists
    <3>2. CASE ~Picked(m)
      BY <1>0, <3>2, SoundRow DEF FlownInv, TypeOK
    <3> QED BY <3>1, <3>2
  <2>2. Commit([m \in Missions |-> row(m)])
    BY <1>1 DEF BulkChangeDrone
  <2> HIDE DEF row
  <2> QED BY <2>1, <2>2, HarmlessCommit
<1>2. ASSUME NEW d \in Drones, DeleteDrone(d) PROVE FlownInv'
  <2> DEFINE row(m) == IF Exists(m) /\ mission[m].config.drone = d
                       THEN [mission[m] EXCEPT !.config.drone = NoDrone]
                       ELSE mission[m]
  <2>1. ASSUME NEW m \in Missions
        PROVE  row(m) \in Row \cup {Absent} /\ Harmless(mission[m], row(m))
    <3>1. CASE Exists(m)
      <4>1. [mission[m] EXCEPT !.config.drone = NoDrone] \in Row
        BY <3>1, SoundRow DEF Row, Config
      <4> QED BY <3>1, <4>1, SoundRow, HarmlessOperators
    <3>2. CASE ~Exists(m)
      BY <1>0, <3>2 DEF FlownInv, TypeOK
    <3> QED BY <3>1, <3>2
  <2>2. Commit([m \in Missions |-> row(m)])
    BY <1>2 DEF DeleteDrone
  <2> HIDE DEF row
  <2> QED BY <2>1, <2>2, HarmlessCommit
<1>3. ASSUME NEW ground \in [Missions -> Points], RenormalizeAltitudes(ground)
      PROVE  FlownInv'
  <2> DEFINE row(m) == IF Exists(m) /\ CanRenormalize(mission[m], ground[m])
                       THEN Renormalize(mission[m], ground[m])
                       ELSE mission[m]
  <2>1. ASSUME NEW m \in Missions
        PROVE  row(m) \in Row \cup {Absent} /\ Harmless(mission[m], row(m))
    BY <1>0, SoundRow, RenormalizeRow, HarmlessOperators DEF FlownInv, TypeOK
  <2>2. Commit([m \in Missions |-> row(m)])
    BY <1>3 DEF RenormalizeAltitudes
  <2> HIDE DEF row
  <2> QED BY <2>1, <2>2, HarmlessCommit
<1> QED BY <1>1, <1>2, <1>3

(* In every reachable state and for every mission: what is exported, flown, *)
(* measured and completed is the path the operator accepted, the file that *)
(* left last is the stored plan, and a stale plan is flagged.              *)
THEOREM FlownIsAccepted ==
  Spec => [](PlanBehindStatus /\ AcceptedPlan /\ DeliveredPlan /\ StaleIsFlagged)
<1>1. Init => FlownInv
  BY DEF Init, FlownInv, TypeOK, Sound, Exists
<1>2. FlownInv /\ TypeOK' /\ [Next]_vars => FlownInv'
  <2> SUFFICES ASSUME FlownInv, TypeOK', [Next]_vars PROVE FlownInv'
    OBVIOUS
  <2>1. CASE Next
    <3>1. CASE \E m \in Missions : MissionNext(m)
      BY <3>1, MissionNextFlown
    <3>2. CASE ~ \E m \in Missions : MissionNext(m)
      BY <2>1, <3>2, BulkFlown DEF Next, MissionNext
    <3> QED BY <3>1, <3>2
  <2>2. CASE UNCHANGED vars
    BY <2>2 DEF vars, FlownInv, TypeOK, Sound, Exists
  <2> QED BY <2>1, <2>2
<1>3. FlownInv => PlanBehindStatus /\ AcceptedPlan /\ DeliveredPlan /\ StaleIsFlagged
  BY DEF FlownInv, Sound, Approved, PlanBehindStatus, AcceptedPlan, DeliveredPlan,
         StaleIsFlagged
<1> QED BY <1>1, <1>2, <1>3, TypeCorrect, PTL DEF Spec

(* No mission reaches a status whose screens and exports need a flight     *)
(* plan without having one (export_mission, NON_DRAFT_WITH_PLAN_STATUSES). *)
THEOREM PlanIsThere == Spec => []PlanBehindStatus
BY FlownIsAccepted, PTL

(* While a mission says EXPORTED, the aircraft flies the stored plan: no   *)
(* edit or recomputation leaves an older file behind that status.          *)
THEOREM ExportIsCurrent == Spec => []DeliveredPlan
BY FlownIsAccepted, PTL

(* A plan kept as a reference is announced as stale until the next         *)
(* recompute (invalidate_trajectory).                                      *)
THEOREM StaleIsAnnounced == Spec => []StaleIsFlagged
BY FlownIsAccepted, PTL

-----------------------------------------------------------------------------
(* PLANNED => current trajectory *)

(* The inductive invariant, row by row: besides the property itself, no    *)
(* mission has require_perpendicular_runway_crossing off, or a copy would  *)
(* not have its original's configuration.                                  *)
Faithful(r) ==
  /\ r.config.perpendicular = TRUE
  /\ r.status \notin {"DRAFT", "CANCELLED"} =>
       r.plan # NoPlan /\ r.plan.path.config = r.config

CurrentInv == TypeOK /\ \A m \in Missions : Exists(m) => Faithful(mission[m])

(* The operators of the aggregate root keep a faithful row faithful. *)
LEMMA FaithfulOperators ==
  ASSUME NEW r \in Row, Faithful(r)
  PROVE  /\ \A c \in Config : CanInvalidate(r) /\ c.perpendicular = TRUE
              => Faithful(Reconfigure(r, c))
         /\ \A p \in Points : CanRenormalize(r, p) => Faithful(Renormalize(r, p))
         /\ CanGenerate(r) =>
              Faithful([Generated(r) EXCEPT !.computation = "COMPLETED"])
         /\ \A s \in HandEdits : CanEditWaypoints(r) => Faithful(EditWaypoints(r, s))
         /\ \A s \in HandEdits, p \in Points :
              CanEditWaypoints(r) => Faithful(MoveEndpoint(r, s, p))
         /\ r.status # "CANCELLED" => Faithful(Duplicated(r))
<1> USE DEF Faithful
<1>1. ASSUME NEW c \in Config, CanInvalidate(r), c.perpendicular = TRUE
      PROVE  Faithful(Reconfigure(r, c))
  BY <1>1 DEF CanInvalidate, Reconfigure, InvalidateTrajectory, Row, Statuses,
              NON_DRAFT_WITH_PLAN_STATUSES, TERMINAL_STATUSES
<1>2. ASSUME NEW p \in Points, CanRenormalize(r, p) PROVE Faithful(Renormalize(r, p))
  <2>1. Renormalize(r, p).status = "DRAFT"
    BY <1>2 DEF CanRenormalize, CanInvalidate, Renormalize, InvalidateTrajectory, Row,
                Statuses, NON_DRAFT_WITH_PLAN_STATUSES, TERMINAL_STATUSES
  <2>2. Renormalize(r, p).config.perpendicular = r.config.perpendicular
    BY DEF Renormalize, InvalidateTrajectory, Row, Config
  <2> QED BY <2>1, <2>2
<1>3. ASSUME CanGenerate(r)
      PROVE  Faithful([Generated(r) EXCEPT !.computation = "COMPLETED"])
  <2> DEFINE pl == [path |-> Computed(r.config), validated |-> TRUE]
             g  == Generated(r)
             f  == [g EXCEPT !.computation = "COMPLETED"]
  <2>1. pl \in Plan /\ pl.path.config = r.config
    BY DEF Plan, Path, Computed, Shapes, Row
  <2>2. g \in Row /\ g.config = r.config /\ g.plan = pl
    BY GeneratedRow DEF Generated, InvalidateTrajectory, Row
  <2> HIDE DEF pl, g
  <2>3. f.config = r.config /\ f.plan = pl
    BY <2>2 DEF Row
  <2>4. Faithful(f)
    <3> HIDE DEF f
    <3> QED BY <2>1, <2>3, SentinelAssumption
  <2> QED BY <2>4 DEF f, g
<1>4. ASSUME NEW s \in HandEdits, CanEditWaypoints(r)
      PROVE  /\ Faithful(EditWaypoints(r, s))
             /\ \A p \in Points : Faithful(MoveEndpoint(r, s, p))
  <2> DEFINE e == EditWaypoints(r, s)
  <2>1. r.plan \in Plan /\ e \in Row /\ e.plan \in Plan
    BY <1>4, EditWaypointsRow DEF CanEditWaypoints, Row
  <2>2. e.config = r.config /\ e.status = RegressToPlanned(r).status
    BY DEF EditWaypoints, RegressToPlanned, Row
  <2>3. e.plan = [r.plan EXCEPT !.path.shape = s]
    BY DEF EditWaypoints, RegressToPlanned, Row
  <2>4. e.plan.path.config = r.plan.path.config
    BY <2>1, <2>3 DEF Plan, Path
  <2>5. e.status \notin {"DRAFT", "CANCELLED"} => r.status \notin {"DRAFT", "CANCELLED"}
    BY <2>2 DEF RegressToPlanned, Row, POST_PLAN_STATUSES
  <2>6. Faithful(e)
    <3> HIDE DEF e
    <3> QED BY <2>1, <2>2, <2>4, <2>5, SentinelAssumption
  <2>7. ASSUME NEW p \in Points PROVE Faithful(MoveEndpoint(r, s, p))
    <3> DEFINE v == MoveEndpoint(r, s, p)
    <3>1. v = [e EXCEPT !.config.takeoff = p, !.plan.path.config.takeoff = p]
      BY DEF MoveEndpoint
    <3>2. v.plan \in Plan
      BY <1>4, MoveEndpointRow DEF CanEditWaypoints
    <3> HIDE DEF e, v
    <3>3. /\ v.status = e.status
          /\ v.config = [e.config EXCEPT !.takeoff = p]
          /\ v.plan.path.config = [e.plan.path.config EXCEPT !.takeoff = p]
      BY <2>1, <3>1 DEF Row, Plan, Path
    <3>4. v.config.perpendicular = TRUE
      BY <2>1, <2>6, <3>3 DEF Row, Config
    <3>5. Faithful(v)
      BY <2>6, <3>2, <3>3, <3>4, SentinelAssumption
    <3> QED BY <3>5 DEF v
  <2> QED BY <2>6, <2>7
<1>5. ASSUME r.status # "CANCELLED" PROVE Faithful(Duplicated(r))
  <2>1. CopiedConfig(r.config) = r.config
    BY DEF CopiedConfig, Row, Config
  <2> QED BY <1>5, <2>1 DEF Duplicated, NewMission, Row
<1> QED BY <1>1, <1>2, <1>3, <1>4, <1>5

(* A table of faithful rows may be committed, in one row or as a whole. *)
LEMMA FaithfulTable ==
  ASSUME TypeOK', NEW rows, mission' = rows,
         \A m \in Missions : rows[m] # Absent => Faithful(rows[m])
  PROVE  CurrentInv'
BY DEF CurrentInv, Exists

(* A faithful row may be saved. *)
LEMMA FaithfulSave ==
  ASSUME CurrentInv, TypeOK', NEW m \in Missions, NEW r,
         mission' = [mission EXCEPT ![m] = r], r = Absent \/ Faithful(r)
  PROVE  CurrentInv'
BY DEF CurrentInv, TypeOK, Exists

(* What operators must not do for the property to hold. *)
Undisturbed ==
  /\ Clonable \subseteq Statuses \ {"CANCELLED"}
  /\ DeletableDrones = {}
  /\ Perpendicular \subseteq {TRUE}

(* The requests of one mission keep the rows faithful. *)
LEMMA MissionNextCurrent ==
  ASSUME Undisturbed, CurrentInv, TypeOK', NEW m \in Missions, MissionNext(m)
  PROVE  CurrentInv'
<1>0. Exists(m) => mission[m] \in Row /\ mission[m] # Absent /\ Faithful(mission[m])
  BY ExistingRow DEF CurrentInv, Exists
<1>1. CASE CreateMission(m)
  <2>1. PICK c \in Choices({}) : Save(m, NewMission(c))
    BY <1>1 DEF CreateMission
  <2>2. Faithful(NewMission(c))
    BY DEF Choices, Undisturbed, NewMission, Faithful
  <2> QED BY <2>1, <2>2, FaithfulSave DEF Save, Commit
<1>2. CASE UpdateMission(m)
  <2>1. PICK c \in Choices(mission[m].config.inspections) :
               Save(m, Reconfigure(mission[m], c))
    BY <1>2 DEF UpdateMission
  <2>2. /\ Exists(m) /\ CanInvalidate(mission[m])
        /\ c \in Config /\ c.perpendicular = TRUE
    BY <1>2, <2>1 DEF UpdateMission, Choices, Undisturbed
  <2>3. Faithful(Reconfigure(mission[m], c))
    BY <1>0, <2>2, FaithfulOperators
  <2> QED BY <2>1, <2>3, FaithfulSave DEF Save, Commit
<1>3. CASE DeleteMission(m)
  BY <1>3, FaithfulSave DEF DeleteMission, Save, Commit
<1>4. ASSUME NEW i \in Inspections, AddInspection(m, i) \/ DeleteInspection(m, i)
      PROVE  CurrentInv'
  <2>1. Exists(m) /\ CanInvalidate(mission[m])
    BY <1>4 DEF AddInspection, DeleteInspection, CanAddInspection
  <2>2. PICK S \in SUBSET Inspections :
               Save(m, Reconfigure(mission[m], [mission[m].config EXCEPT !.inspections = S]))
    BY <1>0, <1>4, <2>1 DEF AddInspection, DeleteInspection, Row, Config
  <2> DEFINE c == [mission[m].config EXCEPT !.inspections = S]
  <2>3. c \in Config /\ c.perpendicular = TRUE
    BY <1>0, <2>1 DEF Row, Config, Faithful
  <2>4. Faithful(Reconfigure(mission[m], c))
    BY <1>0, <2>1, <2>3, FaithfulOperators
  <2> QED BY <2>2, <2>4, FaithfulSave DEF Save, Commit
<1>5. CASE Generate(m)
  BY <1>0, <1>5, FaithfulOperators, FaithfulSave DEF Generate, Save, Commit
<1>6. CASE GenerateFails(m) \/ GenerateDies(m) \/ ResolveStaleness(m)
  <2>1. PICK c \in Computations : Exists(m) /\ Save(m, [mission[m] EXCEPT !.computation = c])
    BY <1>6 DEF GenerateFails, GenerateDies, ResolveStaleness, Computations
  <2>2. Faithful([mission[m] EXCEPT !.computation = c])
    BY <1>0, <2>1 DEF Row, Faithful
  <2> QED BY <2>1, <2>2, FaithfulSave DEF Save, Commit
<1>7. CASE Revalidate(m)
  <2>1. PICK ok \in BOOLEAN : Save(m, [mission[m] EXCEPT !.plan.validated = ok])
    BY <1>7 DEF Revalidate
  <2> DEFINE r == mission[m]
             s == [r EXCEPT !.plan.validated = ok]
  <2>2. r \in Row /\ Faithful(r) /\ r.plan \in Plan
    BY <1>0, <1>7 DEF Revalidate, Row
  <2>3. /\ s.status = r.status /\ s.config = r.config
        /\ s.plan \in Plan /\ s.plan.path = r.plan.path
    BY <2>2 DEF Row, Plan
  <2>4. Faithful(s)
    <3> HIDE DEF r, s
    <3> QED BY <2>2, <2>3, SentinelAssumption DEF Faithful
  <2>5. mission' = [mission EXCEPT ![m] = s]
    BY <2>1 DEF Save, Commit
  <2> HIDE DEF s
  <2> QED BY <2>4, <2>5, FaithfulSave
<1>8. CASE BatchUpdateWaypoints(m)
  BY <1>0, <1>8, FaithfulOperators, FaithfulSave DEF BatchUpdateWaypoints, Save, Commit
<1>9. ASSUME NEW t \in Statuses, Exists(m), CanTransition(mission[m], t), t # "PLANNED",
             mission' = [mission EXCEPT ![m] = TransitionTo(@, t)]
      PROVE  CurrentInv'
  <2>1. t = "CANCELLED" \/ mission[m].status \notin {"DRAFT", "CANCELLED"}
    BY <1>0, <1>9 DEF CanTransition, TRANSITIONS, Row, Statuses
  <2>2. Faithful(TransitionTo(mission[m], t))
    BY <1>0, <1>9, <2>1 DEF TransitionTo, Row, Statuses, Faithful
  <2> QED BY <1>9, <2>2, FaithfulSave
<1>10. CASE ValidateMission(m) \/ CompleteMission(m) \/ CancelMission(m)
  <2>1. PICK t \in {"VALIDATED", "COMPLETED", "CANCELLED"} :
          /\ Exists(m) /\ CanTransition(mission[m], t)
          /\ mission' = [mission EXCEPT ![m] = TransitionTo(mission[m], t)]
    BY <1>10 DEF ValidateMission, CompleteMission, CancelMission, Save, Commit
  <2> QED BY <1>9, <2>1 DEF Statuses
<1>11. CASE ExportMission(m)
  <2>1. Faithful(Exported(mission[m]))
    BY <1>0, <1>11
       DEF ExportMission, CanExport, EXPORT_ELIGIBLE_STATUSES, Exported, TransitionTo,
           Row, Statuses, Faithful
  <2> QED BY <1>11, <2>1, FaithfulSave DEF ExportMission
<1>12. CASE CreateMeasurement(m)
  <2>1. Faithful(MarkMeasured(mission[m]))
    BY <1>0, <1>12
       DEF CreateMeasurement, MarkMeasured, POST_PLAN_STATUSES, TransitionTo, Row,
           Statuses, Faithful
  <2> QED BY <1>12, <2>1, FaithfulSave DEF CreateMeasurement, Save, Commit
<1>13. ASSUME NEW copy \in Missions, DuplicateMission(m, copy) PROVE CurrentInv'
  <2>1. Faithful(Duplicated(mission[m]))
    BY <1>0, <1>13, FaithfulOperators DEF DuplicateMission, Undisturbed
  <2> QED BY <1>13, <2>1, FaithfulSave DEF DuplicateMission, Save, Commit
<1> QED
  BY <1>1, <1>2, <1>3, <1>4, <1>5, <1>6, <1>7, <1>8, <1>10, <1>11, <1>12, <1>13
  DEF MissionNext

(* So do those that touch every mission of the airport. *)
LEMMA BulkCurrent ==
  ASSUME Undisturbed, CurrentInv, TypeOK',
         \/ \E S \in SUBSET Missions, d \in Drones : BulkChangeDrone(S, d)
         \/ \E d \in Drones : DeleteDrone(d)
         \/ \E ground \in [Missions -> Points] : RenormalizeAltitudes(ground)
  PROVE  CurrentInv'
<1>0. ASSUME NEW m \in Missions, mission[m] # Absent
      PROVE  mission[m] \in Row /\ Faithful(mission[m])
  BY <1>0, ExistingRow DEF CurrentInv, Exists
<1>1. ASSUME NEW S \in SUBSET Missions, NEW d \in Drones, BulkChangeDrone(S, d)
      PROVE  CurrentInv'
  <2> DEFINE Picked(m) == Exists(m) /\ m \in S /\ mission[m].status \in PRE_PLAN_STATUSES
             new(m) == Reconfigure(mission[m], [mission[m].config EXCEPT !.drone = d])
             rows == [m \in Missions |-> IF Picked(m) THEN new(m) ELSE mission[m]]
  <2>1. ASSUME NEW m \in Missions, Picked(m) PROVE Faithful(new(m))
    <3> DEFINE c == [mission[m].config EXCEPT !.drone = d]
    <3>1. mission[m] \in Row /\ Faithful(mission[m]) /\ CanInvalidate(mission[m])
      BY <1>0, <2>1 DEF Exists, CanInvalidate, PRE_PLAN_STATUSES, TERMINAL_STATUSES
    <3>2. c \in Config /\ c.perpendicular = TRUE
      BY <3>1 DEF Row, Config, Faithful
    <3> QED BY <3>1, <3>2, FaithfulOperators
  <2>2. mission' = rows
    BY <1>1 DEF BulkChangeDrone, Commit
  <2> HIDE DEF Picked, new
  <2>3. \A m \in Missions : rows[m] # Absent => Faithful(rows[m])
    BY <1>0, <2>1
  <2> HIDE DEF rows
  <2> QED BY <2>2, <2>3, FaithfulTable
<1>2. ASSUME NEW d \in Drones, DeleteDrone(d) PROVE CurrentInv'
  BY <1>2 DEF DeleteDrone, Undisturbed
<1>3. ASSUME NEW ground \in [Missions -> Points], RenormalizeAltitudes(ground)
      PROVE  CurrentInv'
  <2> DEFINE Moved(m) == Exists(m) /\ CanRenormalize(mission[m], ground[m])
             new(m) == Renormalize(mission[m], ground[m])
             rows == [m \in Missions |-> IF Moved(m) THEN new(m) ELSE mission[m]]
  <2>1. ASSUME NEW m \in Missions, Moved(m) PROVE Faithful(new(m))
    BY <1>0, <2>1, FaithfulOperators DEF Exists
  <2>2. mission' = rows
    BY <1>3 DEF RenormalizeAltitudes, Commit
  <2> HIDE DEF Moved, new
  <2>3. \A m \in Missions : rows[m] # Absent => Faithful(rows[m])
    BY <1>0, <2>1
  <2> HIDE DEF rows
  <2> QED BY <2>2, <2>3, FaithfulTable
<1> QED BY <1>1, <1>2, <1>3

(* "PLANNED => current trajectory" for missions of any number and size, as *)
(* long as operators duplicate no CANCELLED mission, delete no drone       *)
(* profile and leave require_perpendicular_runway_crossing on.  None of    *)
(* the three can be dropped: the copy of a cancelled draft is PLANNED with *)
(* its stale plan (Duplicated), a deleted profile is taken out of the row  *)
(* but not out of the plan (run drone_deleted), and a copy is made with    *)
(* the switch on (CopiedConfig).                                           *)
THEOREM PlannedIsCurrent ==
  ASSUME Undisturbed
  PROVE  Spec => []CurrentTrajectory
<1>1. Init => CurrentInv
  BY DEF Init, CurrentInv, TypeOK, Exists
<1>2. CurrentInv /\ TypeOK' /\ [Next]_vars => CurrentInv'
  <2> SUFFICES ASSUME CurrentInv, TypeOK', [Next]_vars PROVE CurrentInv'
    OBVIOUS
  <2>1. CASE Next
    <3>1. CASE \E m \in Missions : MissionNext(m)
      BY <3>1, MissionNextCurrent
    <3>2. CASE ~ \E m \in Missions : MissionNext(m)
      BY <2>1, <3>2, BulkCurrent DEF Next, MissionNext
    <3> QED BY <3>1, <3>2
  <2>2. CASE UNCHANGED vars
    BY <2>2 DEF vars, CurrentInv, TypeOK, Exists
  <2> QED BY <2>1, <2>2
<1>3. CurrentInv => CurrentTrajectory
  BY DEF CurrentInv, Faithful, CurrentTrajectory
<1> QED BY <1>1, <1>2, <1>3, TypeCorrect, PTL DEF Spec

-----------------------------------------------------------------------------
(* Measured and finished missions are locked *)

(* What a request can still do to a locked row. *)
LEMMA LockedRow ==
  ASSUME NEW r \in Row, Locked(r)
  PROVE  /\ ~CanInvalidate(r) /\ ~CanGenerate(r) /\ ~CanEditWaypoints(r)
         /\ r.status \notin PRE_PLAN_STATUSES
         /\ \A p \in Points : ~CanRenormalize(r, p)
         /\ LockedStep(r, r)
         /\ \A c \in Computations : LockedStep(r, [r EXCEPT !.computation = c])
         /\ \A d \in Drones \cup {NoDrone} : LockedStep(r, [r EXCEPT !.config.drone = d])
         /\ LockedStep(r, Exported(r))
         /\ LockedStep(r, MarkMeasured(r))
         /\ \A t \in Statuses : CanTransition(r, t) => LockedStep(r, TransitionTo(r, t))
<1> USE DEF Locked, TERMINAL_STATUSES
<1>1. /\ ~CanInvalidate(r) /\ ~CanGenerate(r) /\ ~CanEditWaypoints(r)
      /\ r.status \notin PRE_PLAN_STATUSES
      /\ \A p \in Points : ~CanRenormalize(r, p)
  BY DEF CanInvalidate, CanGenerate, CanEditWaypoints, CanRenormalize,
         PRE_PLAN_STATUSES, POST_PLAN_STATUSES, PRE_EXPORT_EDITABLE_STATUSES
<1>2. \A s \in Row :
        /\ \E d \in Drones \cup {NoDrone} : s.config = [r.config EXCEPT !.drone = d]
        /\ s.plan = r.plan
        /\ s.status # r.status => s.status \in TRANSITIONS[r.status]
        => LockedStep(r, s)
  BY DEF LockedStep, Row, Config
<1>3. \E d \in Drones \cup {NoDrone} : r.config = [r.config EXCEPT !.drone = d]
  BY DEF Row, Config
<1>4. LockedStep(r, r)
  BY <1>2, <1>3
<1>5. ASSUME NEW c \in Computations PROVE LockedStep(r, [r EXCEPT !.computation = c])
  <2>1. [r EXCEPT !.computation = c] \in Row
    BY DEF Row
  <2> QED BY <1>2, <1>3, <2>1 DEF Row
<1>6. ASSUME NEW d \in Drones \cup {NoDrone}
      PROVE  LockedStep(r, [r EXCEPT !.config.drone = d])
  <2>1. [r EXCEPT !.config.drone = d] \in Row
    BY DEF Row, Config
  <2> QED BY <1>2, <2>1 DEF Row
<1>7. Exported(r) = r /\ MarkMeasured(r) = r
  BY DEF Exported, MarkMeasured, POST_PLAN_STATUSES
<1>8. ASSUME NEW t \in Statuses, CanTransition(r, t) PROVE LockedStep(r, TransitionTo(r, t))
  <2>1. TransitionTo(r, t) \in Row
    BY TransitionRow
  <2> QED BY <1>2, <1>3, <1>8, <2>1 DEF TransitionTo, CanTransition, Row
<1> QED BY <1>1, <1>4, <1>5, <1>6, <1>7, <1>8

(* No request changes the configuration or the path of a locked mission. *)
LEMMA LockedNext ==
  ASSUME TypeOK, Next, NEW m \in Missions, Exists(m), Locked(mission[m]), mission'[m] # Absent
  PROVE  LockedStep(mission[m], mission'[m])
<1> DEFINE r == mission[m]
<1>0. r \in Row /\ Locked(r)
  BY ExistingRow
<1>1. ASSUME NEW n \in Missions, MissionNext(n), n # m PROVE LockedStep(r, mission'[m])
  <2>1. mission'[m] = r
    <3>1. CASE \E copy \in Missions : DuplicateMission(n, copy)
      BY <3>1 DEF DuplicateMission, Save, Commit, TypeOK, Exists
    <3>2. CASE ~ \E copy \in Missions : DuplicateMission(n, copy)
      BY <1>1, <3>2
         DEF MissionNext, CreateMission, UpdateMission, DeleteMission, AddInspection,
             DeleteInspection, Generate, GenerateFails, GenerateDies, ResolveStaleness,
             Revalidate, BatchUpdateWaypoints, ValidateMission, ExportMission,
             CreateMeasurement, CompleteMission, CancelMission, Save, Commit, TypeOK
    <3> QED BY <3>1, <3>2
  <2> QED BY <1>0, <2>1, LockedRow
<1>2. ASSUME MissionNext(m) PROVE LockedStep(r, mission'[m])
  <2>1. CASE CreateMission(m) \/ UpdateMission(m)
             \/ (\E i \in Inspections : AddInspection(m, i) \/ DeleteInspection(m, i))
             \/ Generate(m) \/ BatchUpdateWaypoints(m)
    BY <1>0, <2>1, LockedRow
       DEF CreateMission, UpdateMission, AddInspection, DeleteInspection,
           CanAddInspection, Generate, BatchUpdateWaypoints
  <2>2. CASE DeleteMission(m)
    BY <2>2 DEF DeleteMission, Save, Commit, TypeOK
  <2>3. CASE GenerateFails(m) \/ GenerateDies(m) \/ ResolveStaleness(m)
    <3>1. PICK c \in Computations : mission'[m] = [r EXCEPT !.computation = c]
      BY <2>3
         DEF GenerateFails, GenerateDies, ResolveStaleness, Computations, Save, Commit, TypeOK
    <3> QED BY <1>0, <3>1, LockedRow
  <2>4. CASE Revalidate(m)
    <3>1. PICK ok \in BOOLEAN : mission'[m] = [r EXCEPT !.plan.validated = ok]
      BY <2>4 DEF Revalidate, Save, Commit, TypeOK
    <3>2. r.plan \in Plan
      BY <1>0, <2>4 DEF Revalidate, Row
    <3>3. /\ mission'[m].config = r.config /\ mission'[m].status = r.status
          /\ mission'[m].plan \in Plan /\ mission'[m].plan.path = r.plan.path
      BY <1>0, <3>1, <3>2 DEF Row, Plan
    <3>4. [mission'[m].config EXCEPT !.drone = r.config.drone] = r.config
      BY <1>0, <3>3 DEF Row, Config
    <3> HIDE DEF r
    <3> QED BY <3>2, <3>3, <3>4, SentinelAssumption DEF LockedStep
  <2>5. CASE ExportMission(m) \/ CreateMeasurement(m)
    BY <1>0, <2>5, LockedRow DEF ExportMission, CreateMeasurement, Save, Commit, TypeOK
  <2>6. CASE ValidateMission(m) \/ CompleteMission(m) \/ CancelMission(m)
    <3>1. PICK t \in Statuses : CanTransition(r, t) /\ mission'[m] = TransitionTo(r, t)
      BY <2>6
         DEF ValidateMission, CompleteMission, CancelMission, Statuses, Save, Commit, TypeOK
    <3> QED BY <1>0, <3>1, LockedRow
  <2>7. CASE \E copy \in Missions : DuplicateMission(m, copy)
    <3>1. mission'[m] = r
      BY <2>7 DEF DuplicateMission, Save, Commit, TypeOK, Exists
    <3> QED BY <1>0, <3>1, LockedRow
  <2> QED BY <1>2, <2>1, <2>2, <2>3, <2>4, <2>5, <2>6, <2>7 DEF MissionNext
<1>3. ASSUME NEW S \in SUBSET Missions, NEW d \in Drones, BulkChangeDrone(S, d)
      PROVE  LockedStep(r, mission'[m])
  <2>1. mission'[m] = r
    BY <1>0, <1>3, LockedRow DEF BulkChangeDrone, Commit
  <2> QED BY <1>0, <2>1, LockedRow
<1>4. ASSUME NEW d \in Drones, DeleteDrone(d) PROVE LockedStep(r, mission'[m])
  <2>1. mission'[m] \in {r, [r EXCEPT !.config.drone = NoDrone]}
    BY <1>4 DEF DeleteDrone, Commit
  <2> QED BY <1>0, <2>1, LockedRow
<1>5. ASSUME NEW ground \in [Missions -> Points], RenormalizeAltitudes(ground)
      PROVE  LockedStep(r, mission'[m])
  <2>1. mission'[m] = r
    BY <1>0, <1>5, LockedRow DEF RenormalizeAltitudes, Commit
  <2> QED BY <1>0, <2>1, LockedRow
<1> QED BY <1>1, <1>2, <1>3, <1>4, <1>5 DEF Next, MissionNext

(* The configuration and the path of a measured or finished mission are     *)
(* never rewritten, by no request of any operator.                         *)
THEOREM MeasuredIsLocked == Spec => LockedMissions
<1>1. TypeOK /\ [Next]_vars
        => [\A m \in Missions :
              Exists(m) /\ Locked(mission[m]) /\ mission'[m] # Absent
                => LockedStep(mission[m], mission'[m])]_vars
  BY LockedNext
<1> QED BY <1>1, TypeCorrect, PTL DEF Spec, LockedMissions
=============================================================================
