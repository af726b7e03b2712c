-------------------------------- MODULE HubPanel --------------------------------
(***************************************************************************)
(* The connection to the field hub as an operator sees it in frontend/src: *)
(* the status that is polled and asked for by hand                         *)
(* (hooks/useFieldLinkStatus, components/mission/FieldHubPanel), and the   *)
(* routes stored on the hub (pages/operator-center/FieldOpsPage).          *)
(***************************************************************************)
EXTENDS Naturals, Sequences, FiniteSets, SequencesExt

CONSTANTS
  Routes,
  NoRoute,
  MaxChecks     \* bound: checks under way

HubAssumption == MaxChecks \in Nat /\ NoRoute \notin Routes

VARIABLES
  hub,            \* the hub as it is
  status,         \* the hub as the page shows it
  checks,         \* runCheck under way, in the order sent
  checking,       \* the check by hand is under way
  changed,        \* history: the hub changed after the last check it answered
  overtakenCheck,  \* history: the answer shown was sent before another one shown
  hubRoutes, shownRoutes, waylinesError, deleteTarget, deletingRoutes

hubVars == <<hub, status, checks, checking, changed, overtakenCheck,
             hubRoutes, shownRoutes, waylinesError, deleteTarget, deletingRoutes>>
statusVars == <<hub, status, checks, checking, changed, overtakenCheck>>
routeVars  == <<hubRoutes, shownRoutes, waylinesError, deleteTarget, deletingRoutes>>

\* Offline, online without an address for the drone, or with one.
HubStates == {"offline", "no_host", "reachable"}

Check == [by : {"poll", "hand"}, found : HubStates \cup {"sent"}, late : BOOLEAN]

\* Every variable of the panel and of the hub stays in its range.
TypeOK ==
  /\ hub \in HubStates /\ status \in HubStates \cup {"connecting"}
  /\ checks \in Seq(Check) /\ checking \in BOOLEAN
  /\ changed \in BOOLEAN /\ overtakenCheck \in BOOLEAN
  /\ hubRoutes \subseteq Routes /\ shownRoutes \subseteq Routes /\ waylinesError \in BOOLEAN
  /\ deleteTarget \in Routes \cup {NoRoute} /\ deletingRoutes \subseteq Routes

Sent(by) == [by |-> by, found |-> "sent", late |-> FALSE]

Init ==
  /\ hub \in HubStates /\ status = "connecting"
  /\ checks = <<Sent("poll")>> /\ checking = FALSE
  /\ changed = FALSE /\ overtakenCheck = FALSE
  /\ hubRoutes = Routes /\ shownRoutes = Routes /\ waylinesError = FALSE
  /\ deleteTarget = NoRoute /\ deletingRoutes = {}

-----------------------------------------------------------------------------
(* The status *)

HubChanges(h) ==
  /\ h # hub
  /\ hub' = h /\ changed' = TRUE
  /\ UNCHANGED <<status, checks, checking, overtakenCheck, routeVars>>

Poll ==
  /\ Len(checks) < MaxChecks
  /\ checks' = Append(checks, Sent("poll"))
  /\ UNCHANGED <<hub, status, checking, changed, overtakenCheck, routeVars>>

\* The heartbeat button, off while a check by hand is under way.
refresh ==
  /\ ~checking /\ Len(checks) < MaxChecks
  /\ checks' = Append(checks, Sent("hand")) /\ checking' = TRUE
  /\ UNCHANGED <<hub, status, changed, overtakenCheck, routeVars>>

\* The server answers with the hub as it is; a failed check counts as no hub.
CheckServed(i) ==
  /\ checks[i].found = "sent"
  /\ \/ checks' = [checks EXCEPT ![i].found = hub] /\ changed' = (changed /\ i # Len(checks))
     \/ checks' = [checks EXCEPT ![i].found = "offline"] /\ changed' = TRUE
  /\ UNCHANGED <<hub, status, checking, overtakenCheck, routeVars>>

\* Mutant of runCheck: any answer ends the check by hand.
runCheck_any(i) ==
  LET c == checks[i]
      others == [j \in DOMAIN checks |-> [checks[j] EXCEPT !.late = (@ \/ j < i)]]
  IN  /\ c.found # "sent"
      /\ status' = c.found /\ overtakenCheck' = c.late
      /\ checks' = RemoveAt(others, i)
      /\ checking' = FALSE
      /\ UNCHANGED <<hub, changed, routeVars>>

\* Mutant of runCheck: a hub without an address counts as reachable.
runCheck_online(i) ==
  LET c == checks[i]
      others == [j \in DOMAIN checks |-> [checks[j] EXCEPT !.late = (@ \/ j < i)]]
  IN  /\ c.found # "sent"
      /\ status' = (IF c.found = "offline" THEN "offline" ELSE "reachable") /\ overtakenCheck' = c.late
      /\ checks' = RemoveAt(others, i)
      /\ checking' = (checking /\ c.by = "poll")
      /\ UNCHANGED <<hub, changed, routeVars>>

\* Every answer is shown, the late ones too.
runCheck(i) ==
  LET c == checks[i]
      others == [j \in DOMAIN checks |-> [checks[j] EXCEPT !.late = (@ \/ j < i)]]
  IN  /\ c.found # "sent"
      /\ status' = c.found /\ overtakenCheck' = c.late
      /\ checks' = RemoveAt(others, i)
      /\ checking' = (checking /\ c.by = "poll")
      /\ UNCHANGED <<hub, changed, routeVars>>

\* The page is left and opened again: nothing is taken of the checks under way.
Remount ==
  /\ status' = "connecting" /\ checks' = <<Sent("poll")>> /\ checking' = FALSE
  /\ overtakenCheck' = FALSE
  /\ deleteTarget' = NoRoute /\ shownRoutes' = hubRoutes /\ waylinesError' = FALSE
  /\ deletingRoutes = {}
  /\ UNCHANGED <<hub, changed, hubRoutes, deletingRoutes>>

-----------------------------------------------------------------------------
(* Routes on the hub *)

setDeleteTarget(w) ==
  /\ (w # NoRoute) # (deleteTarget # NoRoute)
  /\ w \in shownRoutes \cup {NoRoute}
  /\ deleteTarget' = w
  /\ UNCHANGED <<statusVars, hubRoutes, shownRoutes, waylinesError, deletingRoutes>>

handleDeleteConfirm ==
  /\ deleteTarget # NoRoute /\ deletingRoutes = {}
  /\ deletingRoutes' = {deleteTarget}
  /\ UNCHANGED <<statusVars, hubRoutes, shownRoutes, waylinesError, deleteTarget>>

\* Mutant of RouteDeleted: the list is not read again.
RouteDeleted_unread(w) ==
  /\ hubRoutes' = hubRoutes \ {w} /\ deletingRoutes' = deletingRoutes \ {w}
  /\ deleteTarget' = NoRoute
  /\ UNCHANGED <<statusVars, shownRoutes, waylinesError>>

\* The route is deleted and the list is read again; the dialog closes,
\* whichever route it asks about by now.
RouteDeleted(w) ==
  /\ hubRoutes' = hubRoutes \ {w} /\ deletingRoutes' = deletingRoutes \ {w}
  /\ deleteTarget' = NoRoute
  /\ \/ shownRoutes' = hubRoutes \ {w} /\ waylinesError' = FALSE
     \/ waylinesError' = TRUE /\ UNCHANGED shownRoutes
  /\ UNCHANGED statusVars

RouteNotDeleted(w) ==
  /\ deletingRoutes' = deletingRoutes \ {w}
  /\ waylinesError' = TRUE
  /\ UNCHANGED <<statusVars, hubRoutes, shownRoutes, deleteTarget>>

loadWaylines ==
  /\ shownRoutes' = hubRoutes /\ waylinesError' = FALSE
  /\ UNCHANGED <<statusVars, hubRoutes, deleteTarget, deletingRoutes>>

-----------------------------------------------------------------------------
Panel ==
  \/ \E h \in HubStates : HubChanges(h)
  \/ Poll \/ refresh \/ Remount
  \/ \E i \in DOMAIN checks : CheckServed(i) \/ runCheck(i)

CloudMissions ==
  \/ \E w \in Routes \cup {NoRoute} : setDeleteTarget(w)
  \/ handleDeleteConfirm
  \/ \E w \in deletingRoutes : RouteDeleted(w) \/ RouteNotDeleted(w)
  \/ loadWaylines

Next == Panel \/ CloudMissions

Spec == Init /\ [][Next]_hubVars

-----------------------------------------------------------------------------
(* Properties *)

\* The heartbeat button is off exactly while a check by hand is under way:
\* polls that are answered meanwhile neither free it nor leave it off.
HeartbeatEnds == checking <=> \E i \in DOMAIN checks : checks[i].by = "hand"

\* With no check under way the panel shows the hub as it is, unless it changed
\* since, a check failed, or the answers overtook one another.
HubShown ==
  checks = <<>> /\ ~changed /\ ~overtakenCheck => status = hub

\* The routes shown are on the hub, or the list says that it failed to load.
RoutesShown == deletingRoutes = {} /\ ~waylinesError => shownRoutes \subseteq hubRoutes
=============================================================================
