----------------------------- MODULE DroneMedia -----------------------------
(***************************************************************************)
(* The table drone_media_file: videos the field hub reports or an operator *)
(* uploads, their matching to missions and their order within an           *)
(* inspection, which is the order a measurement reads them in.             *)
(*                                                                         *)
(* One operator works at a time; requests that lock the mission row and    *)
(* the short ones are single steps.  The sweep a listing runs is not: it   *)
(* loads every RECEIVED row, matches each against the flight plans and     *)
(* commits, while the operator goes on.                                    *)
(***************************************************************************)
EXTENDS FiniteSetsExt, Functions, Integers

CONSTANTS
  HubFiles,       \* fingerprints the hub reports
  ManualFiles,    \* uploads of the operator
  Missions, Inspections,
  MissionOf,      \* the mission of each inspection
  NoMission, NoInspection,
  Absent          \* no row

Files == HubFiles \cup ManualFiles

(* order_index is 0 where the column is NULL. *)
Row == [status     : {"RECEIVED", "MATCHED", "UNASSIGNED", "INGESTED"},
        mission    : Missions \cup {NoMission},
        inspection : Inspections \cup {NoInspection},
        order      : Nat]

MediaAssumption ==
  /\ IsFiniteSet(HubFiles) /\ IsFiniteSet(ManualFiles)
  /\ HubFiles \cap ManualFiles = {}
  /\ MissionOf \in [Inspections -> Missions]
  /\ NoMission \notin Missions
  /\ NoInspection \notin Inspections
  /\ Absent \notin Row

VARIABLES
  media,         \* table drone_media_file
  missions,      \* the missions that exist
  inspections,   \* the inspections that exist
  sweep          \* what the listing in progress has found, per file it loaded

vars == <<media, missions, inspections, sweep>>

Stored(f) == media[f] # Absent

Attached(table, i) == {f \in Files : table[f] # Absent /\ table[f].inspection = i}

(* What matching finds for a file: a mission it was dispatched for, none,  *)
(* or "failed", when it is left for the next sweep.                        *)
Outcomes == missions \cup {NoMission, "failed"}

\* Mutant of Matched: a matching error is not caught.
Matched_unguarded(r, outcome) ==
  IF outcome = NoMission
  THEN [r EXCEPT !.status = "UNASSIGNED", !.mission = NoMission]
  ELSE [r EXCEPT !.status = "MATCHED", !.mission = outcome]

Matched(r, outcome) ==
  CASE outcome = "failed"  -> r
    [] outcome = NoMission -> [r EXCEPT !.status = "UNASSIGNED", !.mission = NoMission]
    [] OTHER               -> [r EXCEPT !.status = "MATCHED", !.mission = outcome]

TypeOK ==
  /\ media \in [Files -> Row \cup {Absent}]
  /\ missions \subseteq Missions
  /\ inspections \subseteq Inspections
  /\ \E S \in SUBSET HubFiles : sweep \in [S -> Missions \cup {NoMission, "failed"}]

Init ==
  /\ media = [f \in Files |-> Absent]
  /\ missions = Missions
  /\ inspections = Inspections
  /\ sweep = <<>>

-----------------------------------------------------------------------------
(* Dense order: places 1..N, written through a sentinel pass *)

Place(table, S, f) == Cardinality({g \in S : table[g].order <= table[f].order})

Places(table, S) == [f \in S |-> Place(table, S, f)]

\* Mutant of Inserted: the new file changes places with the one it displaces.
Inserted_swap(table, S, f, p) ==
  [g \in S \cup {f} |->
     IF g = f THEN p
     ELSE IF Place(table, S, g) = p THEN Cardinality(S) + 1 ELSE Place(table, S, g)]

(* list.insert(p - 1, f) *)
Inserted(table, S, f, p) ==
  [g \in S \cup {f} |->
     IF g = f THEN p
     ELSE IF Place(table, S, g) >= p THEN Place(table, S, g) + 1 ELSE Place(table, S, g)]

\* Mutant of Base: only the current maximum counts.
Base_current(table, S) == Max({table[f].order : f \in S} \cup {0}) + 1

Base(table, S) == Max({table[f].order : f \in S} \cup {Cardinality(S)}) + 1

(* The first pass parks the rows above every place in use. *)
Parked(table, S, place) == [f \in S |-> Base(table, S) + place[f] - 1]

Renumbered(table, i, place) ==
  [f \in Files |->
     IF f \in DOMAIN place
     THEN [table[f] EXCEPT !.inspection = i, !.order = place[f]]
     ELSE table[f]]

Detached(table, f) == [table EXCEPT ![f].inspection = NoInspection, ![f].order = 0]

(* The rest of inspection i moves up. *)
Closed(table, i) ==
  IF i = NoInspection THEN table
  ELSE Renumbered(table, i, Places(table, Attached(table, i)))

-----------------------------------------------------------------------------
(* Hub reports and matching *)

(* A repost of a fingerprint changes nothing. *)
RecordMediaEvent(f) ==
  /\ f \in HubFiles /\ ~Stored(f)
  /\ \E outcome \in Outcomes :
       media' = [media EXCEPT ![f] =
                   Matched([status |-> "RECEIVED", mission |-> NoMission,
                            inspection |-> NoInspection, order |-> 0], outcome)]
  /\ UNCHANGED <<missions, inspections, sweep>>

(* GET drone-media: match_pending loads and matches ... *)
SweepLoads ==
  LET pending == {f \in HubFiles : Stored(f) /\ media[f].status = "RECEIVED"}
  IN  /\ sweep = <<>> /\ pending # {}
      /\ sweep' \in [pending -> Outcomes]
      /\ UNCHANGED <<media, missions, inspections>>

(* A row swept as unassigned had no mission when it was loaded, so that    *)
(* column is not written.                                                  *)
Swept(r, outcome) ==
  IF outcome = NoMission THEN [r EXCEPT !.status = "UNASSIGNED"] ELSE Matched(r, outcome)

(* ... and the route commits: status and mission of the rows that moved,   *)
(* whatever happened to them meanwhile; all or none, if a mission found is *)
(* gone.                                                                   *)
SweepCommits ==
  /\ sweep # <<>>
  /\ media' = IF \A f \in DOMAIN sweep : sweep[f] \in Outcomes
              THEN [f \in Files |-> IF f \in DOMAIN sweep
                                    THEN Swept(media[f], sweep[f]) ELSE media[f]]
              ELSE media
  /\ sweep' = <<>>
  /\ UNCHANGED <<missions, inspections>>

-----------------------------------------------------------------------------
(* The operator *)

Movable(f) == Stored(f) /\ media[f].status # "INGESTED"

AssignMedia(f, m) ==
  /\ Movable(f)
  /\ m \in missions \cup {NoMission}
  /\ media' = [media EXCEPT ![f] = Matched(@, m)]
  /\ UNCHANGED <<missions, inspections, sweep>>

ConfirmIngest(m) ==
  /\ m \in missions
  /\ media' = [f \in Files |-> IF Stored(f) /\ media[f].mission = m
                               THEN [media[f] EXCEPT !.status = "INGESTED"] ELSE media[f]]
  /\ UNCHANGED <<missions, inspections, sweep>>

(* Without an inspection the file goes to the bucket of the mission. *)
CompleteUpload(f, m, i) ==
  LET row == [status |-> "MATCHED", mission |-> m, inspection |-> NoInspection, order |-> 0]
      added == [media EXCEPT ![f] = row]
      S == Attached(media, i)
  IN  /\ f \in ManualFiles /\ ~Stored(f)
      /\ m \in missions
      /\ \/ /\ i = NoInspection
            /\ media' = added
         \/ /\ i \in inspections /\ MissionOf[i] = m
            /\ media' = [added EXCEPT
                           ![f].inspection = i,
                           ![f].order = Max({media[g].order : g \in S} \cup {0}) + 1]
      /\ UNCHANGED <<missions, inspections, sweep>>

\* Mutant of MoveMedia: the places left behind are not closed.
MoveMedia_gap(f, i, p) ==
  /\ Movable(f)
  /\ media[f].mission \in missions
  /\ \/ i = NoInspection /\ p = 1
     \/ i \in inspections /\ MissionOf[i] = media[f].mission
  /\ LET detached == Detached(media, f)
         S == Attached(detached, i)
     IN  \/ i = NoInspection /\ media' = detached
         \/ /\ i # NoInspection /\ p \in 1..(Cardinality(S) + 1)
            /\ media' = Renumbered(detached, i, Inserted(detached, S, f, p))
  /\ UNCHANGED <<missions, inspections, sweep>>

(* To place p of inspection i, or to the bucket. *)
MoveMedia(f, i, p) ==
  /\ Movable(f)
  /\ media[f].mission \in missions
  /\ \/ i = NoInspection /\ p = 1
     \/ i \in inspections /\ MissionOf[i] = media[f].mission
  /\ LET source == media[f].inspection
         detached == IF source = i THEN Detached(media, f)
                     ELSE Closed(Detached(media, f), source)
         S == Attached(detached, i)
     IN  \/ i = NoInspection /\ media' = detached
         \/ /\ i # NoInspection /\ p \in 1..(Cardinality(S) + 1)
            /\ media' = Renumbered(detached, i, Inserted(detached, S, f, p))
  /\ UNCHANGED <<missions, inspections, sweep>>

DeleteMedia(f) ==
  /\ f \in ManualFiles /\ Movable(f)
  /\ media' = Closed([media EXCEPT ![f] = Absent], media[f].inspection)
  /\ UNCHANGED <<missions, inspections, sweep>>

(* Any permutation of the inspection's files. *)
ReorderMedia(i) ==
  LET S == Attached(media, i)
  IN  /\ i \in inspections
      /\ \E place \in Bijection(S, 1..Cardinality(S)) : media' = Renumbered(media, i, place)
      /\ UNCHANGED <<missions, inspections, sweep>>

(* ON DELETE SET NULL would leave an order without an inspection, which    *)
(* the check constraint of the table refuses: no file may be attached.     *)
Deletable(i) == Attached(media, i) = {}

DeleteInspection(i) ==
  /\ i \in inspections
  /\ Deletable(i)
  /\ inspections' = inspections \ {i}
  /\ UNCHANGED <<media, missions, sweep>>

(* The inspections go with the mission; its files lose it. *)
DeleteMission(m) ==
  LET own == {i \in inspections : MissionOf[i] = m}
  IN  /\ m \in missions
      /\ \A i \in own : Deletable(i)
      /\ missions' = missions \ {m}
      /\ inspections' = inspections \ own
      /\ media' = [f \in Files |-> IF Stored(f) /\ media[f].mission = m
                                   THEN [media[f] EXCEPT !.mission = NoMission] ELSE media[f]]
      /\ UNCHANGED sweep

-----------------------------------------------------------------------------
Next ==
  \/ \E f \in Files :
       \/ RecordMediaEvent(f) \/ DeleteMedia(f)
       \/ \E m \in Missions \cup {NoMission} : AssignMedia(f, m)
       \/ \E i \in Inspections \cup {NoInspection} :
            \/ \E m \in Missions : CompleteUpload(f, m, i)
            \/ \E p \in 1..Cardinality(Files) : MoveMedia(f, i, p)
  \/ SweepLoads \/ SweepCommits
  \/ \E m \in Missions : ConfirmIngest(m) \/ DeleteMission(m)
  \/ \E i \in Inspections : ReorderMedia(i) \/ DeleteInspection(i)

Spec == Init /\ [][Next]_vars

-----------------------------------------------------------------------------
(* Properties *)

(* The files of an inspection are numbered 1..N without a gap after any    *)
(* sequence of uploads, moves, deletions and reorderings, also of files    *)
(* that were assigned to another mission or ingested in between            *)
(* (_renumber_inspection, complete_upload).                                *)
DenseOrder ==
  \A i \in Inspections :
    LET S == Attached(media, i)
    IN  {media[f].order : f \in S} = 1..Cardinality(S)

(* No renumbering a request may ask for meets the unique key on            *)
(* (inspection_id, order_index) half way, in whatever order the rows of a  *)
(* pass are written (the sentinel pass of _renumber_inspection).           *)
Orders(table, i, f) == IF table[f].inspection = i THEN {table[f].order} ELSE {}

NoCollision(table, i, S, place) ==
  LET parked == Parked(table, S, place)
  IN  \A f \in S : \A g \in S \ {f} :
        /\ (Orders(table, i, f) \cup {parked[f]}) \cap (Orders(table, i, g) \cup {parked[g]}) = {}
        /\ {parked[f], place[f]} \cap {parked[g], place[g]} = {}

RenumberSafe ==
  \A i \in inspections :
    /\ \A place \in Bijection(Attached(media, i), 1..Cardinality(Attached(media, i))) :
         NoCollision(media, i, Attached(media, i), place)
    /\ \A f \in {g \in Files : Stored(g)} :
         LET table == Detached(media, f)
             rest == Attached(table, i)
         IN  /\ NoCollision(table, i, rest, Places(table, rest))
             /\ \A p \in 1..(Cardinality(rest) + 1) :
                  NoCollision(table, i, rest \cup {f}, Inserted(table, rest, f, p))

(* Adding or taking away a file of an inspection leaves the others in the  *)
(* order the operator gave them: a measurement does not read the videos in *)
(* another order because of it (list insertion and densifying).            *)
OthersKeepOrder ==
  [][\A i \in Inspections :
       Attached(media, i) # Attached(media', i) =>
         \A f, g \in Attached(media, i) \cap Attached(media', i) :
           media[f].order < media[g].order => media'[f].order < media'[g].order]_vars

(* An inspection can be deleted: its media fall back to the bucket (the    *)
(* comment of list_mission_media_by_inspection).  False as soon as a file  *)
(* is attached.                                                            *)
InspectionsDeletable == \A i \in inspections : Deletable(i)
=============================================================================
