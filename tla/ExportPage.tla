------------------------------- MODULE ExportPage -------------------------------
(***************************************************************************)
(* The page on which a mission is accepted, exported, sent to the drone    *)
(* and finished (hooks/useMissionValidation and components/mission/        *)
(* ExportPanel of frontend/src).  The page reads the mission after each of *)
(* its own requests and whenever its window gets the focus; the answers    *)
(* may overtake one another, and others change the mission meanwhile.      *)
(***************************************************************************)
EXTENDS Naturals, Sequences, FiniteSets, SequencesExt

CONSTANTS
  MaxReadings,  \* bound: readings of the mission under way
  MaxRequested   \* bound: requests of the page under way

ExportAssumption == MaxReadings \in Nat /\ MaxRequested \in Nat

VARIABLES
  missionStatus,    \* the server's mission
  clamped,          \* its DJI file would be clamped to the ground
  shownStatus,      \* the mission the page shows
  readings,         \* fetchData under way, in the order sent
  requested,        \* requests of the page under way
  clampWarning, acknowledgeClamps,
  dispatchFeedback, confirmModal, pendingExport,
  ticked,           \* history: the acknowledgment was given for the warning shown
  overtaken,        \* history: the mission shown was read before one shown earlier
  elsewhere          \* history: others changed the mission after it was last read

exportVars == <<missionStatus, clamped, shownStatus, readings, requested, clampWarning, acknowledgeClamps, dispatchFeedback,
                confirmModal, pendingExport, ticked, overtaken, elsewhere>>
missionVars == <<missionStatus, clamped>>
shownVars   == <<shownStatus, readings, overtaken, elsewhere>>
clampVars   == <<clampWarning, acknowledgeClamps, ticked>>
dialogs     == <<confirmModal, pendingExport>>

Statuses == {"PLANNED", "VALIDATED", "EXPORTED", "MEASURED", "COMPLETED", "CANCELLED"}
Kinds    == {"validate", "export", "dispatch", "complete", "cancel", "delete"}

isExportEligible(s) == s \in {"VALIDATED", "EXPORTED", "MEASURED"}

\* A file: whether it is for a DJI drone, and its clamps acknowledged; its
\* geozones are left out.
Options == [dji : BOOLEAN, acknowledge : BOOLEAN]

NoOptions == [dji |-> FALSE, acknowledge |-> FALSE]

Reading == [step : {"sent", "read"}, found : Statuses, late : BOOLEAN]

\* Every variable of the page and of the server's mission stays in its range.
TypeOK ==
  /\ missionStatus \in Statuses /\ clamped \in BOOLEAN /\ shownStatus \in Statuses
  /\ readings \in Seq(Reading)
  /\ requested \subseteq [kind : Kinds, options : Options]
  /\ clampWarning \in BOOLEAN /\ acknowledgeClamps \in BOOLEAN
  /\ dispatchFeedback \in {"none", "clamps"}
  /\ confirmModal \in {"none", "complete", "cancel", "delete", "wpml-fallback"}
  /\ pendingExport \in Options
  /\ ticked \in BOOLEAN /\ overtaken \in BOOLEAN /\ elsewhere \in BOOLEAN

\* The page has read a mission: the first reading is done.
Fresh(s) ==
  /\ missionStatus' = s /\ shownStatus' = s /\ clamped' \in BOOLEAN
  /\ readings' = <<>> /\ requested' = {}
  /\ clampWarning' = FALSE /\ acknowledgeClamps' = FALSE
  /\ dispatchFeedback' = "none" /\ confirmModal' = "none" /\ pendingExport' = NoOptions
  /\ ticked' = FALSE /\ overtaken' = FALSE /\ elsewhere' = FALSE

Init ==
  /\ missionStatus \in {"PLANNED", "VALIDATED"} /\ shownStatus = missionStatus
  /\ clamped \in BOOLEAN
  /\ readings = <<>> /\ requested = {}
  /\ clampWarning = FALSE /\ acknowledgeClamps = FALSE
  /\ dispatchFeedback = "none" /\ confirmModal = "none" /\ pendingExport = NoOptions
  /\ ticked = FALSE /\ overtaken = FALSE /\ elsewhere = FALSE

-----------------------------------------------------------------------------
(* Reading the mission *)

Sent == readings' = Append(readings, [step |-> "sent", found |-> "PLANNED", late |-> FALSE])

handleFocus ==
  /\ Len(readings) < MaxReadings
  /\ Sent
  /\ UNCHANGED <<missionVars, shownStatus, overtaken, elsewhere, requested, 
                 clampVars, dispatchFeedback, dialogs>>

\* The server answers a reading with the mission as it is now.
ReadServed(i) ==
  /\ readings[i].step = "sent"
  /\ readings' = [readings EXCEPT ![i] = [@ EXCEPT !.step = "read", !.found = missionStatus]]
  /\ elsewhere' = (elsewhere /\ i # Len(readings))
  /\ UNCHANGED <<missionVars, shownStatus, overtaken, requested, 
                 clampVars, dispatchFeedback, dialogs>>

\* The page takes every answer, the late ones too.
fetchData(i) ==
  LET others == [j \in DOMAIN readings |-> [readings[j] EXCEPT !.late = (@ \/ j < i)]]
  IN  /\ readings[i].step = "read"
      /\ shownStatus' = readings[i].found
      /\ overtaken' = readings[i].late
      /\ readings' = RemoveAt(others, i)
      /\ UNCHANGED <<missionVars, elsewhere, requested, 
                     clampVars, dispatchFeedback, dialogs>>

\* Someone else changes the mission: the plan is computed again, a flight is
\* measured, the mission is completed.
Elsewhere ==
  /\ \/ missionStatus' = "PLANNED" /\ isExportEligible(missionStatus) /\ clamped' \in BOOLEAN
     \/ missionStatus' = "MEASURED" /\ missionStatus = "EXPORTED" /\ UNCHANGED clamped
     \/ missionStatus' = "COMPLETED" /\ missionStatus = "MEASURED" /\ UNCHANGED clamped
  /\ elsewhere' = TRUE
  /\ UNCHANGED <<shownStatus, readings, overtaken, requested, clampVars,
                 dispatchFeedback, dialogs>>

-----------------------------------------------------------------------------
(* The export panel *)

exportEnabled == isExportEligible(shownStatus)

buildExportOptions(dji, acknowledge) == [dji |-> dji, acknowledge |-> acknowledge]

onAcknowledgedChange ==
  /\ clampWarning
  /\ acknowledgeClamps' = ~acknowledgeClamps
  /\ ticked' = ~acknowledgeClamps
  /\ UNCHANGED <<missionVars, shownVars, requested, clampWarning, dispatchFeedback, dialogs>>

\* Mutant of SetWarning: the acknowledgment stays for the next warning.
SetWarning_keeps(w) == clampWarning' = w /\ UNCHANGED acknowledgeClamps /\ ticked' = FALSE

\* A new warning, or none: what was acknowledged is not acknowledged any more.
SetWarning(w) == clampWarning' = w /\ acknowledgeClamps' = FALSE /\ ticked' = FALSE

dismissClampWarning ==
  /\ clampWarning
  /\ SetWarning(FALSE)
  /\ UNCHANGED <<missionVars, shownVars, requested, dispatchFeedback, dialogs>>

Exporting == \E r \in requested : r.kind = "export"

Ask(kind, o) ==
  /\ Cardinality(requested) < MaxRequested
  /\ requested' = requested \cup {[kind |-> kind, options |-> o]}

\* The download button; a DJI file for a drone outside the table asks first.
handleDownload(dji, mapped) ==
  LET o == buildExportOptions(dji, clampWarning /\ acknowledgeClamps)
  IN  /\ exportEnabled /\ ~Exporting /\ (clampWarning => acknowledgeClamps)
      /\ IF dji /\ ~mapped
         THEN /\ confirmModal' = "wpml-fallback" /\ pendingExport' = o
              /\ UNCHANGED requested
         ELSE Ask("export", o) /\ UNCHANGED dialogs
      /\ UNCHANGED <<missionVars, shownVars, clampVars, dispatchFeedback>>

\* The send button: after a clamp warning of its own it sends anyway.
handleSendToDrone ==
  /\ exportEnabled
  /\ \A r \in requested : r.kind # "dispatch"
  /\ Ask("dispatch", buildExportOptions(TRUE, dispatchFeedback = "clamps"))
  /\ dispatchFeedback' = "none"
  /\ UNCHANGED <<missionVars, shownVars, clampVars, dialogs>>

handleValidate ==
  /\ shownStatus = "PLANNED"
  /\ \A r \in requested : r.kind # "validate"
  /\ Ask("validate", NoOptions)
  /\ UNCHANGED <<missionVars, shownVars, clampVars, dispatchFeedback, dialogs>>

Allowed(kind) ==
  \/ kind = "complete" /\ shownStatus = "MEASURED"
  \/ kind = "cancel" /\ shownStatus \notin {"COMPLETED", "CANCELLED"}
  \/ kind = "delete"

\* A lifecycle button opens its dialog.
setConfirmModal(kind) ==
  /\ Allowed(kind) /\ confirmModal = "none"
  /\ confirmModal' = kind
  /\ UNCHANGED <<missionVars, shownVars, requested, clampVars, dispatchFeedback,
                 pendingExport>>

\* The dialog carries out what it was opened for.
handleConfirm ==
  /\ confirmModal # "none"
  /\ IF confirmModal = "wpml-fallback" THEN Ask("export", pendingExport)
     ELSE Ask(confirmModal, NoOptions)
  /\ confirmModal' = "none" /\ pendingExport' = NoOptions
  /\ UNCHANGED <<missionVars, shownVars, clampVars, dispatchFeedback>>

handleCloseConfirm ==
  /\ confirmModal # "none"
  /\ confirmModal' = "none" /\ pendingExport' = NoOptions
  /\ UNCHANGED <<missionVars, shownVars, requested, clampVars, dispatchFeedback>>

-----------------------------------------------------------------------------
(* Answers *)

Done(r) == requested' = requested \ {r}

Moved(kind) ==
  CASE kind = "validate" -> missionStatus = "PLANNED" /\ missionStatus' = "VALIDATED"
    [] kind = "complete" -> missionStatus = "MEASURED" /\ missionStatus' = "COMPLETED"
    [] kind = "cancel"   -> missionStatus \notin {"COMPLETED", "CANCELLED"} /\ missionStatus' = "CANCELLED"
    [] OTHER -> /\ isExportEligible(missionStatus)
                /\ missionStatus' = IF missionStatus = "VALIDATED" THEN "EXPORTED" ELSE missionStatus

\* The server refuses, or does not answer: the operator is told.
Refused(r) ==
  /\ Done(r)
  /\ dispatchFeedback' = IF r.kind = "dispatch" THEN "none" ELSE dispatchFeedback
  /\ UNCHANGED <<missionVars, shownVars, clampVars, dialogs>>

\* A clamped file needs an acknowledgment: the page shows the clamps and stops.
ClampsFound(r) ==
  /\ r.options.dji /\ clamped /\ ~r.options.acknowledge
  /\ isExportEligible(missionStatus)
  /\ Done(r)
  /\ IF r.kind = "export"
     THEN SetWarning(TRUE) /\ UNCHANGED dispatchFeedback
     ELSE dispatchFeedback' = "clamps" /\ UNCHANGED clampVars
  /\ UNCHANGED <<missionVars, shownVars, dialogs>>

\* Mutant of Carried: the mission is not read again after an export.
Carried_unread(r) ==
  /\ Moved(r.kind) /\ UNCHANGED clamped
  /\ Done(r)
  /\ IF r.kind = "export" THEN SetWarning(FALSE) ELSE UNCHANGED clampVars
  /\ dispatchFeedback' = IF r.kind = "dispatch" THEN "none" ELSE dispatchFeedback
  /\ UNCHANGED <<shownStatus, readings, overtaken, elsewhere, dialogs>>

\* The request is carried out and the mission is read again.
Carried(r) ==
  /\ Moved(r.kind) /\ UNCHANGED clamped
  /\ Done(r)
  /\ IF r.kind = "export" THEN SetWarning(FALSE) ELSE UNCHANGED clampVars
  /\ dispatchFeedback' = IF r.kind = "dispatch" THEN "none" ELSE dispatchFeedback
  /\ Sent
  /\ UNCHANGED <<shownStatus, overtaken, elsewhere, dialogs>>

\* A deleted mission is left for the list, and another one is opened.
onDelete(r) ==
  /\ r.kind = "delete"
  /\ \E s \in {"PLANNED", "VALIDATED"} : Fresh(s)

Answer(r) ==
  \/ Refused(r)
  \/ r.kind \in {"export", "dispatch"} /\ ClampsFound(r)
  \/ /\ r.kind # "delete" /\ ~(r.options.dji /\ clamped /\ ~r.options.acknowledge)
     /\ Len(readings) <= MaxReadings
     /\ Carried(r)
  \/ onDelete(r)

Panel ==
  \/ onAcknowledgedChange \/ dismissClampWarning
  \/ \E dji, mapped \in BOOLEAN : handleDownload(dji, mapped)
  \/ handleSendToDrone

Lifecycle ==
  \/ handleValidate
  \/ \E kind \in {"complete", "cancel", "delete"} : setConfirmModal(kind)
  \/ handleConfirm \/ handleCloseConfirm

Next ==
  \/ Panel \/ Lifecycle \/ handleFocus \/ Elsewhere
  \/ \E i \in DOMAIN readings : ReadServed(i) \/ fetchData(i)
  \/ \E r \in requested : Answer(r)

Spec == Init /\ [][Next]_exportVars

-----------------------------------------------------------------------------
(* Properties *)

\* With nothing under way the page shows the mission as the server has it, after
\* whatever it did to it, unless others changed it meanwhile or a reading that
\* was sent earlier was answered last.
ShownIsServers ==
  readings = <<>> /\ requested = {} /\ ~elsewhere /\ ~overtaken => shownStatus = missionStatus

\* A file whose clamps are acknowledged was ticked for the warning that is shown:
\* no acknowledgment outlives its warning into the next download.
DeliberateAck == acknowledgeClamps => clampWarning /\ ticked
=============================================================================
