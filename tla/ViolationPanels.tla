---------------------------- MODULE ViolationPanels ----------------------------
(***************************************************************************)
(* The violations of a plan on the overview, the validation page and the   *)
(* map of a mission: the panel that lists them, grouped, what the panel of *)
(* the checks says of them, and the warning picked for the map.  The panel *)
(* of the checks folds as the list does; row i names waypoint i.           *)
(*                                                                         *)
(* A page reads the mission and its plan again at any time and cancels no  *)
(* request, so answers land in any order.  The rows of a result are new    *)
(* with every result; at most MaxResults land.                             *)
(***************************************************************************)
EXTENDS Integers, Sequences, FiniteSets

CONSTANTS CheckKinds, WARNING_AUTO_COLLAPSE_THRESHOLD, MaxRows, MaxResults

PanelsAssumption ==
  /\ WARNING_AUTO_COLLAPSE_THRESHOLD \in Nat
  /\ MaxRows \in Nat
  /\ MaxResults \in Nat

VARIABLES place, loading, failed, missionStatus, hasPlan, listed, collapsed, expanded,
          selectedWarning, landed, byHand

vars == <<place, loading, failed, missionStatus, hasPlan, listed, collapsed, expanded,
          selectedWarning, landed, byHand>>
panelVars == <<collapsed, expanded, byHand>>

Places == {"overview", "validation", "map"}
Severities == {"violation", "warning", "suggestion"}
\* A status past VALIDATED is to the panels what VALIDATED is.
Statuses == {"DRAFT", "PLANNED", "VALIDATED"}
NoStatus == "none"
NoRows == [result |-> 0, rows |-> <<>>]
NoWarning == [result |-> 0, row |-> 0, severity |-> "none", waypoints |-> {}]

Row == [severity : Severities, kind : CheckKinds]
Results == UNION {[1..n -> Row] : n \in 0..MaxRows}

-----------------------------------------------------------------------------
(* The list: a section per severity, a group per kind of violation *)

\* Mutant of Grouped: a row that joins a group leaves its waypoints out.
Grouped_first(rows, groups, i) ==
  IF \E g \in DOMAIN groups : groups[g].key = rows[i].kind
  THEN [g \in DOMAIN groups |->
          IF groups[g].key = rows[i].kind THEN [groups[g] EXCEPT !.ids = @ \cup {i}] ELSE groups[g]]
  ELSE Append(groups, [key |-> rows[i].kind, first |-> i, ids |-> {i},
                       affected |-> {i}])

\* Row i of the result joins the group of its kind, or starts it.
Grouped(rows, groups, i) ==
  IF \E g \in DOMAIN groups : groups[g].key = rows[i].kind
  THEN [g \in DOMAIN groups |->
          IF groups[g].key = rows[i].kind
          THEN [groups[g] EXCEPT !.ids = @ \cup {i}, !.affected = @ \cup {i}]
          ELSE groups[g]]
  ELSE Append(groups, [key |-> rows[i].kind, first |-> i, ids |-> {i},
                       affected |-> {i}])
groupViolations(rows, s) ==
  LET grouped[n \in 0..Len(rows)] ==
        IF n = 0 THEN <<>>
        ELSE IF rows[n].severity = s THEN Grouped(rows, grouped[n - 1], n) ELSE grouped[n - 1]
  IN  grouped[Len(rows)]
totalCount(rows, s) == Cardinality({i \in DOMAIN rows : rows[i].severity = s})
Totals(rows) == [s \in Severities |-> totalCount(rows, s)]

defaultExpandFor(s, total) ==
  \/ s = "violation" /\ total > 0
  \/ s = "warning" /\ total \in 1..WARNING_AUTO_COLLAPSE_THRESHOLD
buildInitialExpanded(rows) == [s \in Severities |-> defaultExpandFor(s, totalCount(rows, s))]

\* The map and the overview leave the status out: their panels start open.
StartsCollapsed(status) == place = "validation" /\ status # "PLANNED"

isGroupSelected(g) == selectedWarning.result = listed.result /\ selectedWarning.row \in g.ids
\* The waypoints the map rings.
ringed == selectedWarning.waypoints
pickGroupForSelection(s, g) ==
  [result |-> listed.result, row |-> g.first, severity |-> s, waypoints |-> g.affected]

-----------------------------------------------------------------------------
(* The checks *)

\* Mutant of getCheckResult: a check whose rows are all warnings passes.
getCheckResult_hard(rows, k) ==
  IF \E i \in DOMAIN rows : rows[i].kind = k /\ rows[i].severity = "violation" THEN "fail" ELSE "pass"

getCheckResult(rows, k) ==
  LET ofKind == {i \in DOMAIN rows : rows[i].kind = k}
      first == CHOOSE i \in ofKind : \A j \in ofKind : i <= j
  IN  IF ofKind = {} THEN "pass"
      ELSE IF rows[first].severity = "violation" THEN "fail" ELSE "warn"
failedChecks(rows) == {rows[i].kind : i \in DOMAIN rows}

resultsVerdict(rows, status) ==
  IF status = "VALIDATED" \/ totalCount(rows, "violation") = 0 THEN "passed" ELSE "failed"
statusVerdict(rows, status) ==
  IF status = "VALIDATED" THEN "approved"
  ELSE IF totalCount(rows, "violation") > 0 THEN "failed"
  ELSE IF rows # <<>> THEN "warnings" ELSE "passed"

\* What the validation page and the overview say of a plan.
ResultsPanel(rows, status) ==
  [verdict |-> resultsVerdict(rows, status), check |-> [k \in CheckKinds |-> getCheckResult(rows, k)]]
StatusPanel(rows, status) ==
  [verdict |-> statusVerdict(rows, status), failed |-> failedChecks(rows)]

-----------------------------------------------------------------------------
(* Rendering *)

pageShown == ~loading /\ ~failed /\ missionStatus # NoStatus
\* The map drops its panel when there is nothing to list.
mounted == pageShown /\ (place = "map" => listed.rows # <<>>)

\* Mutant of expandedAfter: the sections are set once, when the panel appears.
expandedAfter_once ==
  IF ~mounted' THEN buildInitialExpanded(<<>>)
  ELSE IF ~mounted THEN buildInitialExpanded(listed'.rows)
  ELSE expanded

\* New totals put the sections back to their rule; so does a panel that comes back.
expandedAfter ==
  IF ~mounted' THEN buildInitialExpanded(<<>>)
  ELSE IF ~mounted \/ Totals(listed'.rows) # Totals(listed.rows)
  THEN buildInitialExpanded(listed'.rows)
  ELSE expanded
\* On the validation page the panel folds when the plan is approved.
approved == place = "validation" /\ missionStatus = "PLANNED" /\ missionStatus' # "PLANNED"
\* Mutant of collapsedAfter: a panel starts folded but does not fold at the approval.
collapsedAfter_late ==
  IF ~mounted' THEN FALSE
  ELSE IF ~mounted THEN StartsCollapsed(missionStatus')
  ELSE collapsed

collapsedAfter ==
  IF ~mounted' THEN FALSE
  ELSE IF ~mounted THEN StartsCollapsed(missionStatus')
  ELSE IF approved THEN TRUE
  ELSE collapsed
\* History: the sections the operator closed, and the panel if the operator opened it, since.
byHandAfter ==
  IF ~mounted' \/ ~mounted THEN {}
  ELSE byHand \ ((IF Totals(listed'.rows) # Totals(listed.rows) THEN Severities ELSE {})
                   \cup (IF approved THEN {"panel"} ELSE {}))
Rendered ==
  /\ expanded' = expandedAfter
  /\ collapsed' = collapsedAfter
  /\ byHand' = byHandAfter

-----------------------------------------------------------------------------
(* What lands *)

\* Another mission is opened under the same page; the picked warning stays.
OpenMission ==
  /\ loading' = TRUE /\ failed' = FALSE
  /\ IF place = "validation"
     THEN missionStatus' = NoStatus /\ hasPlan' = FALSE /\ listed' = NoRows
     ELSE UNCHANGED <<missionStatus, hasPlan, listed>>
  /\ UNCHANGED <<place, selectedWarning, landed>>
  /\ Rendered

\* A retry after an error; the validation page also reads again when it gets the focus, and
\* shows meanwhile what it has.
fetchData ==
  /\ failed
  /\ failed' = FALSE
  /\ loading' = (place # "validation")
  /\ UNCHANGED <<place, missionStatus, hasPlan, listed, selectedWarning, landed>>
  /\ Rendered

MissionLands(status) ==
  /\ missionStatus' = status
  /\ UNCHANGED <<place, loading, failed, hasPlan, listed, selectedWarning, landed>>
  /\ Rendered

MissionFails ==
  /\ failed' = TRUE /\ loading' = FALSE
  /\ UNCHANGED <<place, missionStatus, hasPlan, listed, selectedWarning, landed>>
  /\ Rendered

\* A result the page has not had, read by the page or, on the overview and the map, computed
\* while it may still be loading.
PlanLands(rows) ==
  /\ landed < MaxResults
  /\ landed' = landed + 1
  /\ hasPlan' = TRUE
  /\ listed' = [result |-> landed + 1, rows |-> rows]
  /\ loading' \in {FALSE} \cup {l \in {loading} : place # "validation"}
  /\ UNCHANGED <<place, failed, missionStatus, selectedWarning>>
  /\ Rendered

\* The result it has, once more.
PlanAgain ==
  /\ listed.result > 0
  /\ hasPlan' = TRUE /\ loading' = FALSE
  /\ UNCHANGED <<listed, landed>>
  /\ UNCHANGED <<place, failed, missionStatus, selectedWarning>>
  /\ Rendered

\* No plan: the overview keeps the rows it lists.
NoPlanLands ==
  /\ hasPlan' = FALSE /\ loading' = FALSE
  /\ listed' = IF place = "overview" THEN listed ELSE NoRows
  /\ UNCHANGED <<place, failed, missionStatus, selectedWarning, landed>>
  /\ Rendered

-----------------------------------------------------------------------------
(* What the operator does *)

togglePanel ==
  /\ mounted
  /\ collapsed' = ~collapsed
  /\ byHand' = IF place = "validation" /\ missionStatus # "PLANNED" /\ collapsed
               THEN byHand \cup {"panel"} ELSE byHand \ {"panel"}
  /\ UNCHANGED <<place, loading, failed, missionStatus, hasPlan, listed, expanded,
                 selectedWarning, landed>>

\* Sections without rows are left out, and rows of a closed section.
open(s) == mounted /\ hasPlan /\ ~collapsed /\ totalCount(listed.rows, s) > 0

rowsInView(s) == open(s) /\ expanded[s]

toggleSection(s) ==
  /\ open(s)
  /\ expanded' = [expanded EXCEPT ![s] = ~@]
  /\ byHand' = IF expanded[s] THEN byHand \cup {s} ELSE byHand \ {s}
  /\ UNCHANGED <<place, loading, failed, missionStatus, hasPlan, listed, collapsed,
                 selectedWarning, landed>>

handleGroupClick(s, g) ==
  /\ rowsInView(s)
  /\ selectedWarning' = IF isGroupSelected(g) THEN NoWarning ELSE pickGroupForSelection(s, g)
  /\ UNCHANGED <<place, loading, failed, missionStatus, hasPlan, listed, panelVars, landed>>

onWarningClose ==
  /\ pageShown /\ selectedWarning # NoWarning
  /\ selectedWarning' = NoWarning
  /\ UNCHANGED <<place, loading, failed, missionStatus, hasPlan, listed, panelVars, landed>>

-----------------------------------------------------------------------------
Init ==
  /\ place \in Places
  /\ loading = TRUE /\ failed = FALSE
  /\ missionStatus = NoStatus /\ hasPlan = FALSE /\ listed = NoRows
  /\ collapsed = FALSE
  /\ expanded = buildInitialExpanded(<<>>)
  /\ selectedWarning = NoWarning
  /\ landed = 0 /\ byHand = {}

Lands ==
  \/ \E status \in Statuses : MissionLands(status)
  \/ \E rows \in Results : PlanLands(rows)
  \/ PlanAgain \/ NoPlanLands \/ MissionFails

Operator ==
  \/ togglePanel
  \/ \E s \in Severities :
       \/ toggleSection(s)
       \/ LET groups == groupViolations(listed.rows, s)
          IN  \E n \in DOMAIN groups : handleGroupClick(s, groups[n])
  \/ onWarningClose

Next == OpenMission \/ fetchData \/ Lands \/ Operator

-----------------------------------------------------------------------------
(* Properties *)

TypeOK ==
  /\ place \in Places /\ loading \in BOOLEAN /\ failed \in BOOLEAN /\ hasPlan \in BOOLEAN
  /\ missionStatus \in Statuses \cup {NoStatus}
  /\ listed.result \in 0..MaxResults /\ listed.rows \in Results
  /\ collapsed \in BOOLEAN /\ expanded \in [Severities -> BOOLEAN]
  /\ selectedWarning.result \in 0..landed /\ selectedWarning.waypoints \subseteq 1..MaxRows
  /\ landed \in 0..MaxResults /\ byHand \subseteq Severities \cup {"panel"}

\* The rows of the list that belong with row i.
Kin(i) == {j \in DOMAIN listed.rows : /\ listed.rows[j].severity = listed.rows[i].severity
                                      /\ listed.rows[j].kind = listed.rows[i].kind}

\* Every row of the list is in one group of its severity, and in no other group.
GroupsPartition ==
  \A s \in Severities :
    LET groups == groupViolations(listed.rows, s)
    IN  /\ \A i \in DOMAIN listed.rows :
             listed.rows[i].severity = s => \E g \in DOMAIN groups : groups[g].ids = Kin(i)
        /\ \A g, h \in DOMAIN groups : g # h => groups[g].ids \cap groups[h].ids = {}

\* The map rings the waypoints of every row folded into the picked group, as long as the result
\* it was picked from is listed.
PickedGroupIsRinged ==
  (selectedWarning # NoWarning /\ selectedWarning.result = listed.result) =>
    /\ selectedWarning.severity = listed.rows[selectedWarning.row].severity
    /\ ringed = Kin(selectedWarning.row)

\* Violations are in view unless the operator has closed their section since their number changed.
HardFailuresOpen ==
  (mounted /\ totalCount(listed.rows, "violation") > 0) =>
    expanded["violation"] \/ "violation" \in byHand

\* Once a plan is approved the panel of the validation page is folded until it is opened again.
ApprovalFolds ==
  (place = "validation" /\ mounted /\ missionStatus # "PLANNED") =>
    collapsed \/ "panel" \in byHand

\* The overview and the validation page give the same verdict on a plan: the same checks passed,
\* no check failed without a violation, and the same outcome.
VerdictsAgree ==
  \A status \in Statuses :
    LET results == ResultsPanel(listed.rows, status)
        overview == StatusPanel(listed.rows, status)
    IN  /\ (results.verdict = "failed") <=> (overview.verdict = "failed")
        /\ \A k \in CheckKinds :
             /\ (results.check[k] = "pass") <=> k \notin overview.failed
             /\ results.check[k] = "fail" => overview.verdict \in {"failed", "approved"}
=============================================================================
