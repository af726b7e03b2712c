------------------------------- MODULE RunReview -------------------------------
(***************************************************************************)
(* The results tab of a mission in frontend/src: the latest run of each    *)
(* inspection, the results of the one selected                             *)
(* (pages/operator-center/MissionResultsPage) and the dialog in which the  *)
(* boxes of a run are reviewed (components/mission/MeasurementFlowDialog). *)
(***************************************************************************)
EXTENDS Naturals, FiniteSets

CONSTANTS
  Checked,      \* the inspections of the mission
  NoCheck,
  MaxRuns       \* bound: runs of an inspection

ReviewAssumption == MaxRuns \in Nat \ {0} /\ NoCheck \notin Checked

VARIABLES
  runs,          \* the server's: the number of runs of an inspection, and the status of the last
  listRows,      \* the same, as the tab shows it
  lists,         \* listAirportMeasurements answered, not taken yet
  selected, results, resultsLoading, resultsError,
  resultsAsked,  \* the run whose results are awaited
  review,        \* the inspection under review
  dialog,        \* the dialog's own: the status read first, the run whose boxes it
                 \* shows, and whether it has sent them
  confirming,    \* the run that boxes are confirmed for
  rerun,         \* history: a run took the place of the one under review
  misplaced      \* history: boxes of one run were sent for another

reviewVars == <<runs, listRows, lists, selected, results, resultsLoading, resultsError, resultsAsked, review, dialog,
                confirming, rerun, misplaced>>
resultVars == <<results, resultsLoading, resultsError, resultsAsked>>
dialogVars == <<review, dialog, confirming, rerun, misplaced>>

Statuses == {"PROCESSING", "AWAITING_CONFIRM", "DONE", "ERROR"}

NoRun == <<NoCheck, 0>>
Runs  == Checked \X (1..MaxRuns)

Table == [Checked -> [count : 0..MaxRuns, status : Statuses]]

Latest(table, i) == <<i, table[i].count>>

NoDialog == [status |-> "unread", boxesOf |-> NoRun, sent |-> FALSE]

\* Every variable of the tab and of the dialog stays in its range.
TypeOK ==
  /\ runs \in Table /\ listRows \in Table /\ lists \subseteq Table
  /\ selected \in Checked \cup {NoCheck}
  /\ results \in Runs \cup {NoRun} /\ resultsAsked \in Runs \cup {NoRun}
  /\ resultsLoading \in BOOLEAN /\ resultsError \in BOOLEAN
  /\ review \in Checked \cup {NoCheck}
  /\ dialog \in [status : Statuses \cup {"unread"}, boxesOf : Runs \cup {NoRun}, sent : BOOLEAN]
  /\ confirming \in Runs \cup {NoRun}
  /\ rerun \in BOOLEAN /\ misplaced \in BOOLEAN

\* One inspection is still to be reviewed or measured again, the others have all
\* their runs behind them.
Init ==
  /\ \E i \in Checked, s \in {"AWAITING_CONFIRM", "DONE"} :
       runs = [j \in Checked |-> IF j = i THEN [count |-> 1, status |-> s]
                                ELSE [count |-> MaxRuns, status |-> "DONE"]]
  /\ listRows = runs /\ lists = {}
  /\ selected = NoCheck
  /\ results = NoRun /\ resultsLoading = FALSE /\ resultsError = FALSE /\ resultsAsked = NoRun
  /\ review = NoCheck /\ dialog = NoDialog /\ confirming = NoRun
  /\ rerun = FALSE /\ misplaced = FALSE

-----------------------------------------------------------------------------
(* The runs *)

\* The worker goes on: boxes are found, or everything is measured, or it fails.
Works(i) ==
  /\ runs[i].count > 0 /\ runs[i].status = "PROCESSING"
  /\ \E s \in {"AWAITING_CONFIRM", "DONE", "ERROR"} : runs' = [runs EXCEPT ![i].status = s]
  /\ UNCHANGED <<listRows, lists, selected, resultVars, dialogVars>>

\* Another run is started: after an upload, or by someone else.
createMeasurement(i) ==
  /\ runs[i].count < MaxRuns
  /\ runs' = [runs EXCEPT ![i] = [count |-> @.count + 1, status |-> "PROCESSING"]]
  /\ UNCHANGED <<listRows, lists, selected, resultVars, dialogVars>>

-----------------------------------------------------------------------------
(* The list of runs and the results of the selected one *)

Done(table, i) == i # NoCheck /\ table[i].count > 0 /\ table[i].status = "DONE"

\* Mutant of Reread: the answer for the last selection is still taken.
Reread_late(table, i) ==
  IF Done(table, i)
  THEN /\ resultsAsked' = IF resultsAsked = NoRun THEN Latest(table, i) ELSE resultsAsked
       /\ resultsLoading' = TRUE /\ resultsError' = FALSE
       /\ UNCHANGED results
  ELSE /\ results' = NoRun /\ resultsError' = FALSE
       /\ UNCHANGED <<resultsAsked, resultsLoading>>

\* Mutant of Reread: the results of the run shown before stay.
Reread_keeps(table, i) ==
  IF Done(table, i)
  THEN /\ resultsAsked' = Latest(table, i)
       /\ resultsLoading' = TRUE /\ resultsError' = FALSE
       /\ UNCHANGED results
  ELSE resultsAsked' = NoRun /\ resultsError' = FALSE /\ UNCHANGED <<results, resultsLoading>>

\* The effect on the selected run: what was awaited is not taken any more.  The
\* results of the last one stay until the next are here.
Reread(table, i) ==
  IF Done(table, i)
  THEN /\ resultsAsked' = Latest(table, i)
       /\ resultsLoading' = TRUE /\ resultsError' = FALSE
       /\ UNCHANGED results
  ELSE /\ resultsAsked' = NoRun /\ results' = NoRun /\ resultsError' = FALSE
       /\ UNCHANGED resultsLoading

\* The effect runs when the run or its status is another one.
RowChanges(table, i) ==
  \/ Done(table, i) # Done(listRows, selected)
  \/ Done(table, i) /\ Latest(table, i) # Latest(listRows, selected)

Select(table, i) == IF RowChanges(table, i) THEN Reread(table, i) ELSE UNCHANGED resultVars

\* A row of the picker, or of the overview; a selected row is let go.
setSelectedInspectionId(i) ==
  /\ i = NoCheck \/ Done(listRows, i)
  /\ i # selected
  /\ selected' = i
  /\ Select(listRows, i)
  /\ UNCHANGED <<runs, listRows, lists, dialogVars>>

ResultsArrive ==
  /\ resultsAsked # NoRun
  /\ results' = resultsAsked
  /\ resultsAsked' = NoRun /\ resultsLoading' = FALSE
  /\ UNCHANGED <<runs, listRows, lists, selected, resultsError, dialogVars>>

ResultsFail ==
  /\ resultsAsked # NoRun
  /\ resultsError' = TRUE
  /\ resultsAsked' = NoRun /\ resultsLoading' = FALSE
  /\ UNCHANGED <<runs, listRows, lists, selected, results, dialogVars>>

refreshMeasurements == lists' = lists \cup {runs}

\* A list is taken whenever it arrives; the dialog stays open over it.
ListArrives(table) ==
  /\ lists' = lists \ {table}
  /\ listRows' = table
  /\ Select(table, selected)
  /\ rerun' = (rerun \/ (review # NoCheck /\ table[review].count # listRows[review].count))
  /\ UNCHANGED <<runs, selected, review, dialog, confirming, misplaced>>

-----------------------------------------------------------------------------
(* The review of boxes *)

setReviewInspectionId(i) ==
  /\ review = NoCheck /\ listRows[i].status = "AWAITING_CONFIRM"
  /\ review' = i /\ dialog' = NoDialog /\ rerun' = FALSE /\ misplaced' = FALSE
  /\ UNCHANGED <<runs, listRows, lists, selected, confirming, resultVars>>

\* The status is read once, for the run the dialog was opened for.
StatusRead ==
  /\ review # NoCheck /\ dialog.status = "unread"
  /\ dialog' = [dialog EXCEPT !.status =
       IF listRows[review].count = runs[review].count THEN runs[review].status ELSE "DONE"]
  /\ UNCHANGED <<runs, listRows, lists, selected, review, confirming, rerun, misplaced,
                 resultVars>>

\* Mutant of PreviewRead: the dialog shows any boxes it once read.
PreviewRead_any ==
  /\ review # NoCheck /\ dialog.status = "AWAITING_CONFIRM"
  /\ \E i \in Checked : dialog' = [dialog EXCEPT !.boxesOf = Latest(listRows, i)]
  /\ UNCHANGED <<runs, listRows, lists, selected, review, confirming, rerun, misplaced,
                 resultVars>>

\* The boxes are read once.
PreviewRead ==
  /\ review # NoCheck /\ dialog.status = "AWAITING_CONFIRM" /\ dialog.boxesOf = NoRun
  /\ dialog' = [dialog EXCEPT !.boxesOf = Latest(listRows, review)]
  /\ UNCHANGED <<runs, listRows, lists, selected, review, confirming, rerun, misplaced,
                 resultVars>>

\* The boxes are sent for the run that the tab shows now.
handleConfirm ==
  /\ review # NoCheck /\ dialog.boxesOf # NoRun /\ confirming = NoRun
  /\ confirming' = Latest(listRows, review)
  /\ misplaced' = (misplaced \/ dialog.boxesOf # Latest(listRows, review))
  /\ dialog' = [dialog EXCEPT !.sent = TRUE]
  /\ UNCHANGED <<runs, listRows, lists, selected, review, rerun, resultVars>>

\* The server takes boxes of a run that awaits them; the dialog that sent them
\* closes, if it is still open.
Confirmed ==
  LET i == confirming[1]
  IN  /\ confirming # NoRun
      /\ confirming = Latest(runs, i) /\ runs[i].status = "AWAITING_CONFIRM"
      /\ runs' = [runs EXCEPT ![i].status = "PROCESSING"]
      /\ confirming' = NoRun
      /\ IF dialog.sent
         THEN review' = NoCheck /\ dialog' = NoDialog /\ lists' = lists \cup {runs'}
         ELSE UNCHANGED <<review, dialog, lists>>
      /\ UNCHANGED <<listRows, selected, rerun, misplaced, resultVars>>

NotConfirmed ==
  /\ confirming # NoRun /\ confirming' = NoRun
  /\ dialog' = [dialog EXCEPT !.sent = FALSE]
  /\ UNCHANGED <<runs, listRows, lists, selected, review, rerun, misplaced, resultVars>>

\* Closed by hand; what is being confirmed goes on.  One list is awaited at a time.
handleReviewClose ==
  /\ review # NoCheck /\ lists = {}
  /\ review' = NoCheck /\ dialog' = NoDialog
  /\ refreshMeasurements
  /\ UNCHANGED <<runs, listRows, selected, confirming, rerun, misplaced, resultVars>>

\* The tab is left and opened again.
Reopen ==
  /\ listRows' = runs /\ lists' = {}
  /\ selected' = NoCheck
  /\ results' = NoRun /\ resultsLoading' = FALSE /\ resultsError' = FALSE /\ resultsAsked' = NoRun
  /\ review' = NoCheck /\ dialog' = NoDialog /\ confirming' = NoRun
  /\ rerun' = FALSE /\ misplaced' = FALSE
  /\ UNCHANGED runs

-----------------------------------------------------------------------------
Worker == \E i \in Checked : Works(i) \/ createMeasurement(i)

Picker ==
  \/ \E i \in Checked \cup {NoCheck} : setSelectedInspectionId(i)
  \/ \E i \in Checked : setReviewInspectionId(i)

ReviewDialog ==
  \/ StatusRead \/ PreviewRead \/ handleConfirm \/ Confirmed \/ NotConfirmed \/ handleReviewClose

Next ==
  \/ Worker
  \/ Picker \/ ResultsArrive \/ ResultsFail
  \/ \E table \in lists : ListArrives(table)
  \/ ReviewDialog \/ Reopen

Spec == Init /\ [][Next]_reviewVars

-----------------------------------------------------------------------------
(* Properties *)

\* The results shown are of the latest finished run of the selected inspection;
\* others are left from before only while the next are awaited or failed to load.
ResultsOfRun ==
  results # NoRun => \/ Done(listRows, selected) /\ results = Latest(listRows, selected)
                     \/ resultsAsked # NoRun \/ resultsError

\* The results that are awaited are those of the selected run.
AwaitedIsSelected ==
  resultsAsked # NoRun => Done(listRows, selected) /\ resultsAsked = Latest(listRows, selected)

\* Boxes are confirmed for the run in whose first frame the operator saw them,
\* unless another run took its place in the list while the dialog was open.
BoxesOfRun == misplaced => rerun

\* The results shown are of the selected inspection's run, or still awaited.
ResultsOfSelected == results # NoRun /\ ~resultsLoading => results = Latest(listRows, selected)
=============================================================================
