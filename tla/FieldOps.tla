-------------------------------- MODULE FieldOps --------------------------------
(***************************************************************************)
(* The field operations page of frontend/src                               *)
(* (pages/operator-center/FieldOpsPage): the files a drone has returned,   *)
(* and the control of a row that links a file to an inspection and starts  *)
(* its measurement in three requests, one after the other.  The control    *)
(* can be closed and opened again meanwhile.                               *)
(***************************************************************************)
EXTENDS Naturals, FiniteSets

CONSTANTS
  Media, FieldMissions, FieldInspections,
  missionOf,     \* the mission of an inspection
  NoLink,
  MaxChains      \* bound: requests of the page under way

FieldOpsAssumption ==
  /\ missionOf \in [FieldInspections -> FieldMissions] /\ MaxChains \in Nat
  /\ NoLink \notin Media \cup FieldMissions \cup FieldInspections

VARIABLES
  assigned,      \* the server's: the mission of each file
  attached,      \* the server's: the inspection of each file
  rows,          \* the missions of the files, as the page shows them
  link,          \* the control of a row: at most one is open
  inspectionLoads,
  chains,        \* handleLinkConfirm under way
  crossedChains,  \* history: two chains of one file were under way together
  strayAttach    \* history: a measurement was started without the file

fieldVars == <<assigned, attached, rows, link, inspectionLoads, chains, crossedChains, strayAttach>>
mediaVars == <<assigned, attached, rows>>

Closed == [file |-> NoLink, missionId |-> NoLink, inspectionId |-> NoLink, inspections |-> {},
           inspectionsLoading |-> FALSE, submitting |-> FALSE, measurementId |-> NoLink]

LinkState ==
  [file : Media \cup {NoLink}, missionId : FieldMissions \cup {NoLink},
   inspectionId : FieldInspections \cup {NoLink}, inspections : SUBSET FieldInspections,
   inspectionsLoading : BOOLEAN, submitting : BOOLEAN, measurementId : FieldInspections \cup {NoLink}]

Steps == {"assign", "move", "measure", "load"}

\* Every variable of the page and of the server stays in its range.
TypeOK ==
  /\ assigned \in [Media -> FieldMissions \cup {NoLink}]
  /\ attached \in [Media -> FieldInspections \cup {NoLink}]
  /\ rows \in [Media -> FieldMissions \cup {NoLink}]
  /\ link \in LinkState
  /\ inspectionLoads \subseteq (Media \X FieldMissions)
  /\ chains \subseteq [file : Media, to : FieldInspections, step : Steps]
  /\ crossedChains \in BOOLEAN /\ strayAttach \in BOOLEAN

Init ==
  /\ assigned \in [Media -> FieldMissions \cup {NoLink}] /\ rows = assigned
  /\ attached = [f \in Media |-> NoLink]
  /\ link = Closed /\ inspectionLoads = {} /\ chains = {}
  /\ crossedChains = FALSE /\ strayAttach = FALSE

InspectionsOf(m) == {i \in FieldInspections : missionOf[i] = m}

OperatorMay == Cardinality(chains) + Cardinality(inspectionLoads) < MaxChains

-----------------------------------------------------------------------------
(* The control of a row *)

\* A mission is chosen: its inspections are asked for.
Choosing(l, m) ==
  [l EXCEPT !.missionId = m, !.inspectionId = NoLink, !.inspections = {},
            !.inspectionsLoading = (m # NoLink), !.measurementId = NoLink]

Asked(f, m) == IF m = NoLink THEN inspectionLoads ELSE inspectionLoads \cup {<<f, m>>}

openLink(f) ==
  /\ OperatorMay /\ link.file # f
  /\ link' = Choosing([Closed EXCEPT !.file = f], rows[f])
  /\ inspectionLoads' = Asked(f, rows[f])
  /\ UNCHANGED <<mediaVars, chains, crossedChains, strayAttach>>

setLink ==
  /\ link.file # NoLink
  /\ link' = Closed
  /\ UNCHANGED <<mediaVars, inspectionLoads, chains, crossedChains, strayAttach>>

onMissionChange(m) ==
  /\ link.file # NoLink /\ OperatorMay /\ m # link.missionId
  /\ link' = Choosing(link, m)
  /\ inspectionLoads' = Asked(link.file, m)
  /\ UNCHANGED <<mediaVars, chains, crossedChains, strayAttach>>

\* Asked for again after an error.
retryInspections ==
  /\ link.missionId # NoLink /\ ~link.inspectionsLoading /\ link.inspections = {} /\ OperatorMay
  /\ link' = Choosing(link, link.missionId)
  /\ inspectionLoads' = Asked(link.file, link.missionId)
  /\ UNCHANGED <<mediaVars, chains, crossedChains, strayAttach>>

\* Mutant of loadInspections: any answer for the row is taken.
loadInspections_any(r, ok) ==
  /\ inspectionLoads' = inspectionLoads \ {r}
  /\ link' = IF link.file = r[1]
             THEN [link EXCEPT !.inspections = IF ok THEN InspectionsOf(r[2]) ELSE @,
                               !.inspectionsLoading = FALSE]
             ELSE link
  /\ UNCHANGED <<mediaVars, chains, crossedChains, strayAttach>>

\* The inspections of a mission arrive, or an error: taken if the row still asks
\* for that mission; a lone inspection is chosen at once.
loadInspections(r, ok) ==
  LET found == InspectionsOf(r[2])
  IN  /\ inspectionLoads' = inspectionLoads \ {r}
      /\ link' = IF link.file = r[1] /\ link.missionId = r[2]
                 THEN IF ok
                      THEN [link EXCEPT !.inspections = found, !.inspectionsLoading = FALSE,
                              !.inspectionId = IF Cardinality(found) = 1
                                               THEN CHOOSE i \in found : TRUE ELSE NoLink]
                      ELSE [link EXCEPT !.inspectionsLoading = FALSE]
                 ELSE link
      /\ UNCHANGED <<mediaVars, chains, crossedChains, strayAttach>>

chooseInspection(i) ==
  /\ ~link.inspectionsLoading /\ i \in link.inspections
  /\ link' = [link EXCEPT !.inspectionId = i]
  /\ UNCHANGED <<mediaVars, inspectionLoads, chains, crossedChains, strayAttach>>

-----------------------------------------------------------------------------
(* Link and process *)

\* The first request of a chain: a file that the page shows in the mission is
\* not assigned again.
handleLinkConfirm ==
  LET f == link.file
  IN  /\ f # NoLink /\ link.inspectionId # NoLink /\ ~link.submitting /\ OperatorMay
      /\ chains' = chains \cup
           {[file |-> f, to |-> link.inspectionId,
             step |-> IF rows[f] = link.missionId THEN "move" ELSE "assign"]}
      /\ link' = [link EXCEPT !.submitting = TRUE, !.measurementId = NoLink]
      /\ crossedChains' = (crossedChains \/ \E c \in chains : c.file = f)
      /\ UNCHANGED <<mediaVars, inspectionLoads, strayAttach>>

Proceed(c, step) == chains' = (chains \ {c}) \cup {[c EXCEPT !.step = step]}

Assign(c) ==
  /\ c.step = "assign"
  /\ assigned' = [assigned EXCEPT ![c.file] = missionOf[c.to]]
  /\ Proceed(c, "move")
  /\ UNCHANGED <<attached, rows, link, inspectionLoads, crossedChains, strayAttach>>

\* Mutant of Move: refused or not, the chain goes on.
Move_unchecked(c) ==
  /\ c.step = "move"
  /\ attached' = IF assigned[c.file] = missionOf[c.to] THEN [attached EXCEPT ![c.file] = c.to]
                 ELSE attached
  /\ Proceed(c, "measure")
  /\ UNCHANGED <<assigned, rows, link, inspectionLoads, crossedChains, strayAttach>>

\* The server moves a file within its mission only.
Move(c) ==
  /\ c.step = "move" /\ assigned[c.file] = missionOf[c.to]
  /\ attached' = [attached EXCEPT ![c.file] = c.to]
  /\ Proceed(c, "measure")
  /\ UNCHANGED <<assigned, rows, link, inspectionLoads, crossedChains, strayAttach>>

\* The measurement is started: the row shows it, if its control is open.
Measure(c) ==
  /\ c.step = "measure"
  /\ Proceed(c, "load")
  /\ strayAttach' = (strayAttach \/ attached[c.file] # c.to)
  /\ link' = IF link.file = c.file
             THEN [link EXCEPT !.submitting = FALSE, !.measurementId = c.to] ELSE link
  /\ UNCHANGED <<mediaVars, inspectionLoads, crossedChains>>

\* A request of a chain fails, or is refused: the chain stops.
GiveUp(c) ==
  /\ chains' = chains \ {c}
  /\ link' = IF link.file = c.file THEN [link EXCEPT !.submitting = FALSE] ELSE link
  /\ UNCHANGED <<mediaVars, inspectionLoads, crossedChains, strayAttach>>

\* The list of files is read again at the end of a chain, or by its button.
loadMedia ==
  /\ rows' = assigned
  /\ \E c \in chains : c.step = "load" /\ chains' = chains \ {c}
  /\ UNCHANGED <<assigned, attached, link, inspectionLoads, crossedChains, strayAttach>>

\* The hub reports, or another operator assigns a file.
Elsewhere(f, m) ==
  /\ assigned' = [assigned EXCEPT ![f] = m]
  /\ attached[f] = NoLink /\ chains = {}
  /\ UNCHANGED <<attached, rows, link, inspectionLoads, chains, crossedChains, strayAttach>>

-----------------------------------------------------------------------------
RowControl ==
  \/ \E f \in Media : openLink(f)
  \/ setLink
  \/ \E m \in FieldMissions \cup {NoLink} : onMissionChange(m)
  \/ retryInspections
  \/ \E i \in FieldInspections : chooseInspection(i)
  \/ handleLinkConfirm

Chain(c) == Assign(c) \/ Move(c) \/ Measure(c) \/ GiveUp(c)

Next ==
  \/ RowControl
  \/ \E r \in inspectionLoads, ok \in BOOLEAN : loadInspections(r, ok)
  \/ \E c \in chains : Chain(c)
  \/ loadMedia
  \/ \E f \in Media, m \in FieldMissions : Elsewhere(f, m)

Spec == Init /\ [][Next]_fieldVars

-----------------------------------------------------------------------------
(* Properties *)

\* The inspections offered and chosen in the control of a row are of the mission
\* chosen there, whichever answers arrive late or for a row closed meanwhile.
OfferedAreMissions ==
  link.inspections \subseteq InspectionsOf(link.missionId)
    /\ link.inspectionId \in link.inspections \cup {NoLink}

\* A measurement is started for an inspection the file is attached to, unless
\* two chains of the file cross: the control was closed and opened again.
MeasuredIsAttached == strayAttach => crossedChains
=============================================================================
