------------------------------- MODULE Footage -------------------------------
(***************************************************************************)
(* What happens to footage after the flight: the files that come back are  *)
(* matched and put in order (DroneMedia), and measured (MeasurementRun).   *)
(* They come back through the field hub, which the pilot's controller      *)
(* finds by the QR code of its address (QrCode).  The three share no row a *)
(* request of another one changes, so TLC explores one of them at a time   *)
(* while the others stay as they start.                                    *)
(***************************************************************************)
EXTENDS Integers, FiniteSets, TLC

CONSTANTS
  Runs, Boxes, NULL, Slots, Clients, Idle, Unused, Deleted, MaxCrashes,
  HubFiles, ManualFiles, Missions, Inspections, MissionOf, NoMission, NoInspection, Absent,
  QrCases, utf8Bytes

VARIABLES
  side,        \* "media", "measurement" or "code": the part that is explored
  run, object, broker, worker, job, stale, missed, crashes, request,
  media, missions, inspections, sweep,
  text, eclIdx, version, codewords, modules, tried, bestMask, minPenalty, stage

Measurement == INSTANCE MeasurementRun
Media       == INSTANCE DroneMedia
Code        == INSTANCE QrCode

runVars == <<run, object, broker, worker, job, stale, missed, crashes, request>>
mediaVars == <<media, missions, inspections, sweep>>
codeVars == <<text, eclIdx, version, codewords, modules, tried, bestMask, minPenalty, stage>>

ASSUME FootageAssumption == Measurement!RunAssumption /\ Media!MediaAssumption /\ Code!QrAssumption

Init ==
  /\ side \in {"media", "measurement", "code"}
  /\ Measurement!Init /\ Media!Init /\ Code!Init
  /\ side # "code" => <<text, eclIdx>> = CHOOSE c \in QrCases : TRUE

Next ==
  /\ UNCHANGED side
  /\ IF side = "measurement" THEN Measurement!Next ELSE UNCHANGED runVars
  /\ IF side = "media" THEN Media!Next ELSE UNCHANGED mediaVars
  /\ IF side = "code" THEN Code!Next ELSE UNCHANGED codeVars

\* Nothing of a measurement is under way while it is not explored: its fairness is idle then.
FairSpec == Init /\ [][Next]_<<side, runVars, mediaVars, codeVars>> /\ Measurement!Fairness

-----------------------------------------------------------------------------
(* Properties, stated in the three modules *)

\* Every row, task and object stays in its range.
TypeOK == Measurement!TypeOK /\ Media!TypeOK /\ Code!TypeOK

\* A key in the row of a measurement leads to an object in the store, whatever crashes.
PointersResolve == Measurement!PointersResolve

\* A finished run reports the boxes the operator confirmed, also when its task ran twice.
ResultsOfConfirmedBoxes == Measurement!ResultsOfConfirmedBoxes

\* No processing task meets a run that is not confirmed.
ProcessOnlyConfirmed == Measurement!ProcessOnlyConfirmed

\* A run waits in FIRST_FRAME only while a process works on it or a boot is about to clear it,
\* except for those a boot missed because another run was deleted during its commit.
FirstFrameOwned == Measurement!FirstFrameOwned

\* A run in progress some task is to work on, or a dead worker left behind, ends (or was missed).
RunResolves == Measurement!RunResolves

\* The files of an inspection are numbered 1..N without a gap after any requests.
DenseOrder == side = "media" => Media!DenseOrder

\* No renumbering a request may ask for meets the unique key half way.
RenumberSafe == side = "media" => Media!RenumberSafe

\* The QR code of the hub's address can be read: its patterns fit, in every block a reader finds no
\* more wrong codewords than its error correction mends, and its mask is the standard's choice.
CodeIsRead == side = "code" => Code!PatternsFit /\ Code!CodeReads /\ Code!MaskIsLightest

\* Adding or taking away a file of an inspection leaves the others in their order.
OthersKeepOrder == Media!OthersKeepOrder
=============================================================================
