---------------------------- MODULE WorkspacePages ----------------------------
(***************************************************************************)
(* The workspace of an operator: the tabs around a mission and the pages   *)
(* on which it is configured in detail, accepted and exported, its footage *)
(* received and sorted, and its measurement reviewed.  TLC explores one    *)
(* page at a time: the others stay as they are loaded.                     *)
(***************************************************************************)
EXTENDS Naturals, Sequences, FiniteSets, TLC

CONSTANTS Missions, Airports, Located, None, MaxAwaited,
          MaxReadings, MaxRequested,
          Media, FieldMissions, FieldInspections, Belonging, NoLink, MaxChains,
          Routes, NoRoute, MaxChecks,
          Groups, Videos, Unassigned, MaxCalls,
          Checked, NoCheck, MaxRuns,
          Forms, NoForm, CameraPresets, DefaultPreset, Own, Turns, MaxZoom, Null, Absent, MaxEdits

VARIABLES page,
  selectedAirport, airportDetail, listed, route, guard, guarded, planOf, renaming,
  status, running, dismissTimer, requests, chosen, unasked, foreign,
  missionStatus, clamped, shownStatus, readings, requested, clampWarning, acknowledgeClamps,
  dispatchFeedback, confirmModal, pendingExport, ticked, overtaken, elsewhere,
  assigned, attached, rows, link, inspectionLoads, chains, crossedChains, strayAttach,
  hub, hubStatus, checks, checking, changed, overtakenCheck,
  hubRoutes, shownRoutes, waylinesError, deleteTarget, deletingRoutes,
  filed, mediaShown, calls, busyContainer, error, overtakenList, alone, untold,
  runs, listRows, lists, selected, results, resultsLoading, resultsError, resultsAsked,
  review, dialog, confirming, rerun, misplaced,
  saved, override, form, oneLight, presetList, zoomTouched, zoomKey, zoomDeps, presetDeps,
  presetShown, angleLocked, settled, fedits, inPlace, unbound, aimed

\* The airport of a mission and the mission of an inspection, from the pairs of the two.
airportOf == [m \in Missions |-> CHOOSE a \in Airports : {m, a} \in Located]
missionOf == [i \in FieldInspections |-> CHOOSE m \in FieldMissions : {i, m} \in Belonging]

Tabs   == INSTANCE MissionTabs
Export == INSTANCE ExportPage
Field  == INSTANCE FieldOps
Hub    == INSTANCE HubPanel WITH status <- hubStatus
Upload == INSTANCE UploadDialog
Review == INSTANCE RunReview
Form   == INSTANCE InspectionConfig

tabsVars == <<selectedAirport, airportDetail, listed, route, guard, guarded, planOf, renaming,
              status, running, dismissTimer, requests, chosen, unasked, foreign>>
exportVars == <<missionStatus, clamped, shownStatus, readings, requested, clampWarning,
                acknowledgeClamps, dispatchFeedback, confirmModal, pendingExport, ticked, overtaken,
                elsewhere>>
fieldVars == <<assigned, attached, rows, link, inspectionLoads, chains, crossedChains, strayAttach>>
hubVars == <<hub, hubStatus, checks, checking, changed, overtakenCheck,
             hubRoutes, shownRoutes, waylinesError, deleteTarget, deletingRoutes>>
uploadVars == <<filed, mediaShown, calls, busyContainer, error, overtakenList, alone, untold>>
reviewVars == <<runs, listRows, lists, selected, results, resultsLoading, resultsError,
                resultsAsked, review, dialog, confirming, rerun, misplaced>>
formVars == <<saved, override, form, oneLight, presetList, zoomTouched, zoomKey, zoomDeps, presetDeps,
              presetShown, angleLocked, settled, fedits, inPlace, unbound, aimed>>

ASSUME WorkspaceAssumption ==
  /\ Tabs!TabsAssumption /\ Export!ExportAssumption /\ Field!FieldOpsAssumption
  /\ Hub!HubAssumption /\ Upload!DialogAssumption /\ Review!ReviewAssumption
  /\ Form!FormAssumption

Pages == {"tabs", "export", "field", "hub", "upload", "review", "form"}

\* Where a page stays while another one is explored.
ExportAtRest == Export!Init /\ missionStatus = "PLANNED" /\ ~clamped
FieldAtRest  == Field!Init /\ \A f \in Media : assigned[f] = NoLink
HubAtRest    == Hub!Init /\ hub = "offline"
UploadAtRest == Upload!Init /\ filed[Unassigned] # <<>> /\ Len(filed[Unassigned]) = Cardinality(Videos)
ReviewAtRest == Review!Init /\ \A i \in Checked : runs[i].status = "DONE"
FormAtRest   == Form!Init /\ \A i \in Forms : saved[i]["zoom"] = Null /\ saved[i]["distance"] = Null

Init ==
  /\ page \in Pages
  /\ Tabs!Init
  /\ IF page = "export" THEN Export!Init ELSE ExportAtRest
  /\ IF page = "field" THEN Field!Init ELSE FieldAtRest
  /\ IF page = "hub" THEN Hub!Init ELSE HubAtRest
  /\ IF page = "upload" THEN Upload!Init ELSE UploadAtRest
  /\ IF page = "review" THEN Review!Init ELSE ReviewAtRest
  /\ IF page = "form" THEN Form!Init ELSE FormAtRest

Next ==
  /\ UNCHANGED page
  /\ IF page = "tabs" THEN Tabs!Next ELSE UNCHANGED tabsVars
  /\ IF page = "export" THEN Export!Next ELSE UNCHANGED exportVars
  /\ IF page = "field" THEN Field!Next ELSE UNCHANGED fieldVars
  /\ IF page = "hub" THEN Hub!Next ELSE UNCHANGED hubVars
  /\ IF page = "upload" THEN Upload!Next ELSE UNCHANGED uploadVars
  /\ IF page = "review" THEN Review!Next ELSE UNCHANGED reviewVars
  /\ IF page = "form" THEN Form!Next ELSE UNCHANGED formVars

Spec == Init /\ [][Next]_<<page, tabsVars, exportVars, fieldVars, hubVars, uploadVars, reviewVars,
                           formVars>>

Interchangeable == Permutations(Videos) \cup Permutations(Checked) \cup Permutations(Forms)

-----------------------------------------------------------------------------
(* Properties of the pages, stated in their modules *)

\* Every variable of the page that is explored stays in its range.
TypeOK ==
  CASE page = "tabs" -> Tabs!TypeOK
    [] page = "export" -> Export!TypeOK
    [] page = "field" -> Field!TypeOK
    [] page = "hub" -> Hub!TypeOK
    [] page = "upload" -> Upload!TypeOK
    [] page = "review" -> Review!TypeOK
    [] page = "form" -> Form!TypeOK

\* The tabs follow the operator: an open page is of the mission in the address and of the
\* selected airport, and shows its own mission's plan; the airport stays the chosen one, and a
\* running computation is shown as running.
TabsFollow ==
  page = "tabs" => Tabs!PageOfAddress /\ Tabs!PlanOfPage /\ Tabs!ChosenStays /\ Tabs!RunningShown

\* The pages show the mission, the field hub and its routes as the servers have them, an
\* acknowledgment of clamps is given for the warning that is shown, and the heartbeat button is
\* off while a check by hand is under way.
MissionShown ==
  /\ page = "export" => Export!ShownIsServers /\ Export!DeliberateAck
  /\ page = "hub" => Hub!HeartbeatEnds /\ Hub!HubShown /\ Hub!RoutesShown

\* Footage goes where the operator sees it go. The inspections offered are of the mission chosen,
\* and a measurement is started for an inspection that has the file; the upload dialog shows each
\* change at once, each video in one place, and in the end the server's list.
FootageShown ==
  /\ page = "field" => Field!OfferedAreMissions /\ Field!MeasuredIsAttached
  /\ page = "upload" => Upload!ShownAsServed /\ Upload!ShownOnce /\ Upload!SettledIsServers

\* Results and boxes are of the run under review: those shown, those awaited, and the boxes
\* confirmed, which were seen in that run's first frame. What the inspection form derives fits
\* what was entered: the automatic zoom, the triangle of distance, height and angle, the preset.
ReviewFits ==
  /\ page = "review" => Review!ResultsOfRun /\ Review!AwaitedIsSelected /\ Review!BoxesOfRun
  /\ page = "form" => Form!ZoomFollows /\ Form!TriangleHolds /\ Form!PresetIsBound
=============================================================================
