# TarmacView: TLA+ models, model checks and proofs

TarmacView plans, exports and evaluates drone inspection flights of airport lighting. An
operator describes a mission (drone, speeds, takeoff and landing points, inspections); the
backend (FastAPI, PostgreSQL) computes a flight plan; the operator adjusts and accepts it and
takes it to the aircraft, as a file or through the *field hub*, a small server next to the
runway. The videos come back through the hub or by upload, a Celery worker measures the light
angles in them, and the mission is completed. Coordinators keep the infrastructure of airports,
drone profiles and templates; super administrators keep airports, accounts and settings.

This directory models the parts of the program that are hard to test: the life of a mission,
the requests that race for its row, the measurement pipeline with its crashing worker, the media
table, and the pages of the browser, whose requests and answers overtake one another.
`PROJECT.json` lists components, runs, mutants, findings, hazards and theorems, and gives for
every definition the source lines it stands for.

    tlc -workers 2 -config lifecycle_one.cfg MissionLifecycle.tla
    tlapm MissionLifecycle_proofs.tla

## Inventory

Backend, worker and field hub:

| Component | State | Operations | What is hard | What makes it correct |
|---|---|---|---|---|
| Mission aggregate (`models/mission.py`) | status, configuration, plan row, `has_unsaved_map_changes`, computation status | transitions, regressions, invalidation, duplication | the plan row outlives its validity ("keep-stale"); regressions bypass the machine | from PLANNED on the plan fits the configuration; approved means accepted |
| Mission requests (`services/mission_service.py`, `inspection_service.py`, `flight_plan_service.py`, `airport/`, `export/`) | the tables behind it | update, inspections, generation, hand edits, validation, export, measurement, completion, duplication, deletion; renormalization and bulk drone change over all missions | many ways to change one mission; requests that touch all of them | measured missions are locked; stale plans are flagged; the delivered file is the plan |
| Sessions (`core/database.py`, `routes/flight_plans.py`, trajectory orchestrator) | identity map of each request, row locks | load, decide, commit; COMPUTING, computation, result; polling | lost updates, requests that die, a time limit that fires early | a serial client cannot tell; the limit of inspections holds |
| Measurement pipeline (`models/measurement.py`, `measurement_service/`, `workers/`) | measurement rows, queue, two worker processes, objects in the store | create, first frame, confirm, process, delete, reap at boot | at-least-once tasks, crashes, commits in the middle, artifacts outside the transaction | results belong to confirmed boxes; pointers resolve; runs end |
| Drone media (`services/drone_media_service.py`, `field_link_service.py`) | `drone_media_file` rows with an order per inspection | hub reports, matching, sweep, assign, ingest, upload, move, reorder, delete | a unique key on a dense order; a sweep over rows loaded earlier | dense order that only the operator changes |
| Field hub (`fieldhub/app`) | media files, routes, devices with deadlines in memory | upload check and callback; dispatch and deletion of routes; topology, telemetry, expiry | two databases and an object store; lost reports; late messages | not modelled |
| Light units and touchpoints (`airport/lha.py`, `surfaces.py`) | sequence numbers per parent | create, move, reverse, delete, bulk | rows read before the lock; a key checked row by row | not modelled; `DroneMedia` has the same scheme |
| Infrastructure, terrain, trajectory algorithms, exports, reports, video engine, users, audit, OpenAIP, tiles | | | geometry, rendering, pure I/O | not modelled |

Browser (`frontend/src`):

| Pages | What they keep | What is hard | What makes them correct |
|---|---|---|---|
| Mission map | unsaved moves with undo and redo, the active tool, markers, the played flight, lists of violations | rows of a save replace what was moved meanwhile; folds and picks survive the result they were made on | what is shown is what is saved or unsaved; a tool leaves nothing behind |
| Mission configuration | unsaved fields and inspections, the inspection form with values that derive from one another, the coordinates | saves that fail in part; effects that run until nothing changes; a form that is not mounted anew | an entry is unsaved or stored; derived values fit the entered ones |
| Tabs and computation | selected airport and mission, the guard of an address, one running computation | answers for a mission the operator has left | the open page is of the address and of the airport |
| Export, field operations, upload, results | mission status shown, hub status and routes, links of files, runs under review | polls, focus and own requests read the same rows; several chains of requests at once | what is shown settles on what the server has; boxes are confirmed for the run they were seen on |
| Airport editor, creation, profiles, templates, lists | pending changes with a history, drawn shapes, debounced saves, filters and pages of lists | timers, saves and readings that end on another page | saves reach what they were entered for; features are created as drawn |
| Map canvas, view switch, 3D scene | layers and sources, two cameras, entities, the flight's model | an asynchronous map style and viewer, polled; effects in dependence order | what is drawn is of the plan and the layers that are on |
| Session, navigation, accounts, settings, airport opening | tokens, the address, forms of administrators | one renewal shared by all requests; answers of a session that has ended | one tab, one person; forms write what was entered |
| Terrain card, drone page with its bulk change, camera presets, generator of light units, template picker | a source chosen and what it was chosen from, a dialog over another page's missions, a form per preset, fields per lighting system | cards that start over when what they show is read again; answers that come after their form has gone | what a panel offers is what the server would do |
| QR code of the hub | matrix | tables, masks, error correction | a reader gets the text |

Components talk through database rows; through the task queue (route to worker), the object
store (worker, browser, hub), HTTP between browser, backend and hub, and polling.

## Modules

| Module | Models | Extends / instantiates |
|---|---|---|
| `MissionAggregate` | the business rules of one mission row, as operators, with their typing lemmas | |
| `MissionLifecycle` | all requests of one airport, one at a time | `MissionAggregate` |
| `MissionRequests` | the same requests as sessions of concurrent clients | `MissionAggregate`; `Serial == INSTANCE MissionLifecycle` |
| `MeasurementRun` | measurement rows, browser, queue, worker, object store | |
| `DroneMedia` | the media table | |
| `QrCode` | the encoder of the hub's QR code and a standard reader | |
| `Footage` | `MeasurementRun`, `DroneMedia` and `QrCode` side by side | instances of the three |
| `OperatorPages` | `WaypointEditing`, `MapTools`, `ViolationPanels`, `MissionConfigEditing`, `CoordinateForm` | instances |
| `WorkspacePages` | `MissionTabs`, `ExportPage`, `FieldOps`, `HubPanel`, `UploadDialog`, `RunReview`, `InspectionConfig` | instances |
| `CoordinatorPages` | `AirportEditor`, `EntityCreation`, `DroneEditor`, `TemplateEditor`, `ListPages` | instances |
| `AppPages` | `MapCanvas`, `ViewSwitch`, `FlightView3D`, `Session`, `Navigation`, `SuperAdmin`, `AirportOpening`, `SidePanels` | instances |
| `*_proofs` | lemmas and theorems of the module they are named after; `ListsAndEditor_proofs` holds those about two of the pages of `CoordinatorPages` | TLAPS |
| `MC*` | functions and symmetry of the small instances | |

**MissionAggregate.** A row is `[status, config, plan, unsaved, computation]`. A configuration
records what `TRAJECTORY_FIELDS` names: drone, one value for the remaining parameters, takeoff
point, the perpendicular-crossing switch and the set of inspections. A plan holds the
configuration it was computed from (`basis`), the validation flag and a path: the computed
route plus hand edits. Operators carry the names of the methods (`TransitionTo`,
`InvalidateTrajectory`, `RegressToPlanned`, `Duplicated`, ...).

**MissionLifecycle.** One action per request, each the whole transaction. The bulk requests
(`RenormalizeAirport`, `BulkChangeDrone`, `DeleteDrone`) rewrite the table at once. Two history
variables are not in the code: `accepted`, the path at the last PLANNED -> VALIDATED step, and
`delivered`, the path in the last exported file. `Clonable`, `DeletableDrones` and
`Perpendicular` say what operators do; with all values allowed `CurrentTrajectory` is false.

**MissionRequests.** A request in flight keeps the row it loaded (`old`) and the row it will
flush (`new`). A commit writes the columns in which the two differ into whatever the row is by
then (`Merge`): that is what the ORM's unit of work does without a version column, at READ
COMMITTED. Two locks exist: `add_inspection` takes the mission row FOR UPDATE, and a generation
that has deleted the old plan row holds it until its end. A request may die at any point
(`Abort`). COMPUTING is committed before the work. The time limit of five minutes is abstract:
a poll may find any COMPUTING row expired, even while its computation runs.

**MeasurementRun.** Client requests are split where the code commits and enqueues
(`LoadConfirm`, `CommitConfirm`, `Enqueue`); each of the two worker processes of the image
(`--concurrency=2`) takes a task, starts, works, uploads, commits, returns the reloaded status,
perhaps chains the processing task, and acknowledges last (`task_acks_late`). `WorkerCrash`
puts the tasks of all processes back; `BootReads` and `BootReaps` are the two halves of
`reap_stale_runs`, which runs before the new worker takes its first task, commits for all
orphans at once and is not tried again when that fails (`missed` remembers those it left). Rows
can be deleted at any time, alone or with their mission.

**DroneMedia.** Requests of one operator are single steps (they lock the mission row); the sweep
of a listing is split into the load of the RECEIVED rows and the commit. Matching returns any
existing mission, none or an error. `Renumbered`, `Base` and `Parked` are the two passes of
`_renumber_inspection`. An inspection or a mission with an attached video cannot be deleted
(`Deletable`), because of the check on the media table.

**The pages.** A module of a page has the state of its hooks and, where it matters, the rows of
the backend behind it. A request is sent, served and answered in separate steps, several may be
under way, answers land in any order and may be lost, and the operator goes on in between. Effects
of React run as part of the step that renders, in the order of their dependencies
(`InspectionConfig` and `MapCanvas` make them steps of their own, because one effect wakes the
next). What an effect captures when it starts - an identifier, a list, a closure over a form - is
a field of the request. History variables (`foreign`, `overtaken`, `crossed`, `misplaced`,
`byHand`, `forked`, ...) record what the code does not: that an answer came to somebody it was not
meant for, or who made a choice. Some properties are stated only of behaviours without such an
event, because the code does not prevent it; each such exception is listed under "Seen in the
models".

The composite modules put pages side by side so that one run checks them all. `page`, chosen
at the start and never changed, says which page is explored; the others stay at one initial
state. So these modules do not compose pages that interact: each page is mounted alone, and what
two pages share (the session, the airport, the mission's tabs) is in the module that owns it and
an arbitrary input to the others.

What is left out of the pages, besides presentation: status gating in `MissionConfigEditing`;
formats and geozones of an export (`ExportPage`); save-as-preset in `InspectionConfig`; the
preview of a recalculation in `AirportEditor`, whose patches are numbers; the parent, the name
and the outline's geometry in `EntityCreation`; colours, geometry and the camera in `MapCanvas`;
gimbal and stand-back in `FlightView3D`; the back button in `Navigation`; the elevation
provider's token in `SuperAdmin`; SVG output in `QrCode`. A camera of `ViewSwitch` is level or
tilted, turns by quarters, and stands above its place or back from it along a bearing: what lies
where another bearing has put it is no place (`Astray`), so distances and the rounding of the two
conversions are left out. In `Session` (all but renewals) and `SuperAdmin` (the table of users)
the server is read when the answer lands, and in `ListPages` a deletion, change or addition is
done and answered in one step; a reading of a list is sent, served and answered apart, under a
number of its own. `ViolationPanels` lets row i name waypoint i and folds at one row
instead of five.

## Runs

| Run | Instance | What it shows |
|---|---|---|
| `lifecycle_one` | 1 mission, 2 parameter values, 2 points, 1 drone that can be deleted, 2 inspections, 2 hand edits | the accepted path is what is exported and measured; delivered files are current; stale plans are flagged; measured missions are locked |
| `lifecycle_current` | 2 missions, one possibly a copy | from PLANNED on the plan fits the configuration, under the assumptions below |
| `drone_deleted` | the same, a drone may be deleted | violation: the missions of a deleted drone keep plan and status |
| `requests_safe` | 2 clients, 2 inspections against a limit of 1 | no interleaving breaks the limit or leaves an approved status without a plan |
| `requests_serial` | 1 client that also polls | every behaviour of the session model is one of `MissionLifecycle` (`SerialSpec`) |
| `race_current` | 2 operators | violation: an update committed during a generation is lost from the plan, the mission is PLANNED |
| `footage` | 1 run, 2 processes, 1 browser, 2 boxes, 2 crashes, fair; 2 inspections of one mission, another mission, 2 uploads, 1 hub file; 2 texts | results belong to confirmed boxes, keys lead to objects, runs end; dense order, no collision half way through a renumbering, only the operator reorders; the QR code is within what its error correction mends |
| `double_processing` | 1 run, no crashes | violation: two processing tasks of one run, ERROR overwritten by DONE |
| `operator_pages` | 2 waypoints and positions; 2 points of a measurement; 1 inspection, 1 field, 2 requests under way; 2 axes; 2 kinds of checks, 2 rows, 2 results | `MovesAreShown`, `PanelsInPhase`, `EntriesKept` |
| `workspace_pages` | 3 missions at 2 airports; 1 file, 3 inspections of 2 missions; 1 route; 2 videos; 2 checked runs; 2 forms | `TabsFollow`, `MissionShown`, `FootageShown`, `ReviewFits` |
| `coordinator_pages` | 2 shapes or 1 shape with 2 lights; 3 photos; 2 profiles; 2 templates over 2 systems; lists of 3 rows | `InfraFollows`, `CreationFits`, `FormsReach`, `NothingDropped` |
| `app_pages` | 2 plans over 2 inspections; 2 scenes; 2 people, one an administrator; 2 airports; 3 drones, 2 missions, 2 presets, 2 lighting systems, 2 lists of templates | `DrawnFits`, `PersonFits`, `FormsStand`, `CameraKept` |

**Bounds.** Requests touch one mission, or all of them with the same operation on each, so two
missions show every interaction there is (a copy and its original, one updated and one skipped).
Two values per field are enough for "changed" and "changed back". `MaxInspections` is 1 or 2
instead of 10; the limit is only compared with a count. Hand edits are a set, so that
repeated edits of one waypoint do not grow the state. Two crashes let the reaper itself be
interrupted. Three files in two inspections give every shift of a renumbering (insert before,
after, between; close a gap of one) and let a file be attached to an inspection of a mission it
was reassigned from. On the pages, two of what can be confused (missions, files, runs, people)
and one or two requests of a kind under way (`MaxAwaited`, `MaxCalls`, `MaxSamplings`, `MaxChains`, ...) let
every pair of answers overtake one another; `Max...Acts`, `MaxEdits`, `MaxSteps` and their like
bound how often the operator acts, at least as often as the longest of the scenarios the
properties are about (edit, save, edit, answer).

**Fairness.** Only `RunResolves` needs it: `FairSpec` of `MeasurementRun`, taken over by
`Footage`, assumes that requests under way end, that idle worker processes take waiting tasks
and go on with them, and that a worker that is down boots again (`restart: unless-stopped`);
crashes are never fair and are bounded by `MaxCrashes`. Nobody has to start a request, so a run
may wait for its confirmation for ever. `RunResolves` speaks of runs in progress that some task
is to work on or a dead worker left behind; a run whose task was lost before it was enqueued
stays as it is. That a computation ends is no property of the code: its poller runs for a
mission no page selects, and after a reload nobody asks again.

**Deadlock** is not checked where the system really may stop: when every run is finished or
deleted and every mission deleted (`footage`, `double_processing`), or every airport, account
and budget of actions is used up (`coordinator_pages`, `app_pages`).

**Mutants.** Every property of a passing run has a mutant, a definition next to the original
(`InvalidateTrajectory_unflagged`, `MoveMedia_gap`, `Grouped_first`, ...) that changes it as a
plausible bug would and violates the property in the same run; the properties of the pages have
one for nearly every page they speak of.

## Findings

* `drone_deleted`: deleting a drone profile changes approved missions through the foreign key.
* `race_current`: a generation that ends sets PLANNED and resets `has_unsaved_map_changes`,
  also when the configuration has changed since it loaded it.
* `double_processing`: `_run` returns a status read after the commit of the first-frame task.

### Seen in the models, without a run of their own

Missions. The copy of a CANCELLED mission that had been a draft is PLANNED with a stale plan
(`Clonable` of `lifecycle_current` excludes it). `duplicate()` does not copy
`require_perpendicular_runway_crossing` (the theorem below assumes the switch is on). With two
operators `AcceptedPlan` and `LockedMissions` fail like `CurrentTrajectory`. The docstring of
`complete_mission` (`routes/missions/core.py`) says EXPORTED -> COMPLETED, where the machine asks
for MEASURED.

Footage. Two operators who confirm different boxes for one run may find the results of either
(`ResultsOfConfirmedBoxes` is about one operator). `reap_stale_runs` fails all orphans in one
commit: one deleted row loses it for all of them (`EveryOrphanFails` is false with two runs). An
inspection with an attached video cannot be deleted, nor can its mission, which
`docs/specs/SPEC.md:150` offers at any status (`InspectionsDeletable`). A sweep may undo an
ingest. A file reassigned while it is attached is listed under no mission. The QR encoder visits
column 4 twice and column 0 never (`qrcode.ts:257`); the error correction hides it
(`CodewordsPlaced` is false, `CodeIsRead` holds).

Pages of an operator. Edits made during a save of the configuration page are dropped; a selection
edited and saved while the inspection is still being added is replaced by the default of the
addition (`useInspectionEditing.ts`, `handleAddInspection`; both are in `raced`). An empty unsaved
selection is shown as the server's. A warning picked in the list of violations survives the next
result and the next mission; the overview keeps the old warnings when the plan cannot be read;
`getCheckResult` says "warn" when a warning precedes a violation of the same kind. Two chains of
requests of one row of the field operations page cross (`crossedChains`). The upload dialog clears
a message on the next call. `LandingMatches` is false when the takeoff is typed while a click
waits for its elevation.

Pages of a coordinator. A pending autosave of a template is sent to another template when the
address changes in between; a cleared system is never sent; the selection of lights may change
after it should be frozen (`SelectionFreezes`, `WIREFRAME.md:535`). Edits during a save of the
airport editor are dropped, its unsaved-changes dialog is never shown (`SPEC.md:417`,
`WIREFRAME.md:51`), its selection jumps back to what was saved. The typed altitude of a circular
obstacle is ignored; an elevation that arrives late replaces a typed one. An inline rename of a
drone is reverted by the next autosave. Two readings of a list are told apart by nothing: when the
older is answered last, a row that is deleted is shown again, and stays (`useMissionList.ts:102`,
`useDroneProfileList.ts:94`, `useSuperAdminUsersList.ts:117`; `ListIsServers` is about lists where
the last answer is that of the last reading). Another type for a thing drawn at one place, as from
a group of lights to a single one, clears the altitude and looks none up, against the comment
"new entity, fresh lookup" (`useResolvedAltitude.ts:38`): the airport's elevation is created
instead (`bare`). Two creations that were sent and whose forms were closed before the answers came both go on
with the queue of photos they were sent with, so a position may be created twice (`forked`,
`useEntityCreation.ts`).

Side panels. A bulk change of the missions selected in the dialog does not compare them with the
drone it is for (`from_drone` in `routes/missions/core.py`), so it moves missions that another
drone has got meanwhile (`misled`). A save of a camera preset that answers late closes the form
of whichever preset is edited by then. What was entered in the generator of light units for one
lighting system is still there for the next, because `QuickLhaSetup` is not keyed (`carried`).
The coverage shown after an upload of terrain is gone once the airport is read again, and a
terrain downloaded from the service is then shown as uploaded. A method that is tied to no type of
lighting system is never offered by a template that targets one.

Session, administration and maps. A renewal that answers after a logout stores the token of the
session that ended (`client.ts:93`); a late answer of a logout clears the cookie of the next
login (`AuthContext.tsx:39`). The login page sends coordinators to a page that does not exist.
Answers of a save arrive after another account was chosen; full lists of assignments are made
from a stale table (`useSuperAdminAirportDetail.ts:111`). What is typed during a save of the
settings is dropped, and full settings overwrite those of another administrator. Confirming
without a click takes altitude 0 from the picker; a lookup that answers late fills whatever code
is there. A rebuild of the infrastructure layers drops rings and filters. The cameras are handed
over mirrored (`cesiumUtils.ts:44`), while the comment at `useCesiumViewerSetup.ts:165` says that
the heading of one is the bearing of the other, which is also what the compass takes it for. The
way back mirrors again, so the map's camera returns as it left. But the tilted camera in 3D is
moved back along the bearing that is not mirrored (`cesiumUtils.ts:54`): unless it faces north or
south, it looks away from the place it was given, and a tilted camera that was moved in 3D loses
its place on the way to 2D (`CameraKept` claims the turn only of that one). The compass may stay
behind after a switch, as it hears only of changes. A sampling of the terrain that brings some
heights or none replaces those before (`terrainSampling.ts:47`,
`useTrajectoryTerrainSampling.ts:52`), so a path without heights is not drawn
(`CesiumTrajectory.tsx:130`); only one that fails keeps them.

## Proofs

TLAPS checks the theorems of eight modules: `MissionAggregate` (typing lemmas of the operators),
and `MissionLifecycle_proofs`, `MissionRequests_proofs`, `Footage_proofs`, `OperatorPages_proofs`,
`WorkspacePages_proofs`, `ListsAndEditor_proofs` and `CoordinatorPages_proofs`, which extends the
one before it. Each theorem holds for every value of the constants that satisfies the named
assumption of the module: sets are finite where the program counts or numbers their members,
limits are natural numbers. The pages of a coordinator assume a little more: a photo is handed
over in one batch only, the method of a light system is not the one that needs none, a list has
rows and page sizes, the light units are finitely many, and a feature has a first version and a
history a limit of at least one step.

| Theorem | Run's property | Argument |
|---|---|---|
| `TypeCorrect` | `TypeOK` of `MissionLifecycle` | one lemma per method of the aggregate, then one step per request |
| `FlownIsAccepted` | `AcceptedPlan` | below |
| `PlannedIsCurrent` | `CurrentTrajectory`, of `Undisturbed` behaviours | below |
| `MeasuredIsLocked` | `LockedMissions` | by the guards, with the typing of rows |
| `PlanIsThere`, `ExportIsCurrent`, `StaleIsAnnounced` | `PlanBehindStatus`, `DeliveredPlan`, `StaleIsFlagged` | parts of the invariant of `FlownIsAccepted` |
| `RequestsTyped`, `NoStatusWithoutPlan`, `LimitIsKept` | `TypeOK`, `PlanBehindStatus`, `InspectionLimit` of `MissionRequests` | `SessionInv` |
| `OneClientIsSerial` | `SerialSpec`, of at most one client | `SoleInv`, one step per action |
| `KeysLeadToObjects`, `NoEarlyProcessing`, `DetectionsAreOwned` | `PointersResolve`, `ProcessOnlyConfirmed`, `FirstFrameOwned` | from `RunInv` |
| `ReportsConfirmedBoxes` | `ResultsOfConfirmedBoxes`, of one operator | from `SoleInv` |
| `RunsKeepInvariant`, `FilesKeepInvariant` | | `RunInv` of the runs, `MediaInv` of the media |
| `FilesStayNumbered`, `SentinelIsSafe`, `OrderIsTheOperators` | `DenseOrder`, `RenumberSafe`, `OthersKeepOrder` | from `MediaInv` |
| `PagesTyped`, `EntriesAreKept`, `MovesAreAlwaysShown`, `PanelsAlwaysInPhase` | `TypeOK`, `EntriesKept`, `MovesAreShown`, `PanelsInPhase` of `OperatorPages` | an invariant per page |
| `TabsAreFollowed`, `ServersAreShown` | `TabsFollow`, `MissionShown` of `WorkspacePages` | `TabsInv`; `ExportInv` and `HubInv` |
| `FootageFollows`, `DerivedFits` | `FootageShown`, `ReviewFits` | `FieldInv` and `UploadInv`; `ReviewInv` and `FormInv` |
| `PagesStayTyped` | `TypeOK` of `WorkspacePages` | the seven invariants, one for each page |
| `CreationIsAsDrawn` | `CreationFits` of `CoordinatorPages` | `CreationInv` |
| `FormsComeThrough` | `FormsReach` | `ProfileInv`, `PlanInv` and `TableInv` |
| `EditorFollows` | `InfraFollows` | `InfraInv` |
| `NothingIsDropped` | `NothingDropped`, an action property | from `CreationInv` and `PlanInv`, step by step |
| `CoordinatorTyped` | `TypeOK` of `CoordinatorPages` | the five invariants |

**A mission, one request at a time.** `FlownInv` is row-wise: a row is `Sound` when its status
has the plan it needs, that plan's path is the accepted one once it was accepted and the
delivered one once it was exported, and a stale plan is flagged. No request but acceptance and
export touches the histories; for all others it is enough that the step from the old row to the
new one is `Harmless` (a status from VALIDATED on is only kept, with the plan). `HarmlessCommit`
turns that into one argument for every request, and the two that do touch a history have a step
of their own. `CurrentTrajectory` needs `Faithful` rows, whose plan was computed from the
configuration it is compared with; it holds of behaviours in which no drone in use is deleted,
no draft that was cancelled is copied, and the perpendicular switch stays on
(`Undisturbed`), and the findings show why each of the three is needed.

**Concurrent requests.** Only what the code promises without a version column is provable, and
`SessionInv` says what a request in flight knows of its own copies (`CopyOK`: it flushes another
plan, or a status that needs one, only if it has loaded one; it adds an inspection only below the
limit), how these relate to the row as it is by now (`ViewOK`: a plan it has seen is still
followed by one; under the row lock no inspection has come or gone), and that at most one request
is adding an inspection to a row. It is inductive for any number of clients, missions and
inspections. With one client nothing else commits between a load and a
commit, so the copy *is* the row (`SoleInv`); every commit is then a step of `MissionLifecycle`
and everything else stutters.

**Measurements.** `RunInv` is about one row and the tasks and jobs of one run (`RowOK`, `JobOK`,
`RequestOK`), and quantifies over runs, processes and browsers; every row waiting for a detection
has a process at work on it, or a boot is to reap it, or did not (`missed`). It says nothing of
the boxes, which two operators may confirm differently; `SoleInv` adds, for one operator, that
every request, task and job of a run carries the boxes and the status of its row or is of a time
before.

**Media.** What a listing sweeps are files that exist, and every inspection is dense:
`Spread` is the state a request leaves before it renumbers, the orders 1..N+1 without some q, and
the lemmas about it say that a renumbering makes 1..N of that and keeps the sequence.
`NeverCollides` shows that neither pass of a renumbering gives a file an order another one has.
All this, and what is said of measurements, is proved of the instances in `Footage`.

**Pages of an operator.** One invariant for each page, and a composition that keeps them while the
other pages rest.
`ConfigInv`: what the operator typed last is unsaved, on its way with a save, or stored. It needs
to know of a save under way that the values it took agree with those that are still unsaved,
except where the operator went on typing (`raced`; `FieldsAgree`, `ConfigsAgree`), that what is
unsaved is of an inspection that is shown or on the server, and that there is one save at a time.
`WaypointInv`: there is a history of unsaved positions, one before and one after every step on
the undo and redo stacks, and each step leads from one to the next (`IsHistory`, `Leads`); the
first is the saved plan, which is why nothing is unsaved once everything is undone.
`PanelInv`: results only grow, so a picked group is of the listed result, an older one, or none;
that the groups partition the rows is an induction over the rows (`GroupsOK`). `ToolInv` and
`CoordInv` are the properties themselves with their types.

**Pages of the workspace.** Again one invariant for each page; what the properties leave out is
mostly about the answers under way. `TabsInv`: an answer to the guard or to the page is for the
mission in the address (`AnswerFits`), which is why an answer that comes late can be shown; the
details of another airport may be under way only if one was cleared meanwhile (`unasked`).
`ExportInv` and `HubInv`: unless the mission or the hub has changed since, the newest reading or
check under way has found, or is still to find, what the server has, and with none under way the
page shows it or an older answer has overtaken the newest (`NewestReads`, `NewestCheck`); at most
one check was asked for by hand. `FieldInv`: the chain of requests that measures a file finds
the file attached where the chain left it, unless the operator started a second chain for it
(`crossedChains`). `UploadInv`: dialog and server each have a video in one place (`Sorted`, which
every change keeps whatever it is applied to: `PutIs`, `WithoutIs`, `OrderIs`), an upload is of a
video that is nowhere yet, and a call that is alone shows what the server is to make of it
(`Shows`); that the two agree is `ServedIs`, which compares the dialog's `applyMove`,
`applyReorder` and `applyDelete` with the service, call by call. `ReviewInv`: the boxes in the
dialog are of the newest run in the list it was opened from, and runs are only added, so a box
that is confirmed is of a run that existed. `FormInv`: what the effects last ran for (`zoomDeps`,
`presetDeps`) is what the fields say now once they have settled, and the three sides of the
triangle fit as soon as all are there (`LockSolves`).

**Pages of a coordinator.** `CreationInv`: an altitude nobody typed is that of the place in the
form, is awaited for it, or was cleared over it (`Bare`); a photo's position is to come, waits in one line (the
queue, or the rest that a creation under way carries), is in the form, or was used, and never two
of these (`OnceInv`); that needs the photos under way and in the dialog to be those that were read
(`PhotosInv`), and the form that was sent to be awaited by the one creation that answers to it
(`SentInv`). It is claimed as long as no form was sent while a creation whose form is closed
carried photos (`forked`). `ProfileInv`: updates and the timer carry the fields of the profile
they go to, and what differs from the server is scheduled, on its way, or was refused, unless
fields of two profiles were mixed (`mixed`). `PlanInv`: a template's row has the method of its
system (`RowsSound`), nothing can be selected before the airport arrives (`NoUnitsYet`), and,
unless an answer crossed an edit (`crossed`), the units of every row, shown, stored or on its way,
are of its system, and page and server agree but for what is on its way. `TableInv`: readings
are numbered, one is sent after each change of the rows, so the newest, once served, holds what
the server has (`ReadingsInv`), and is shown when it was the last to be answered; and the page
begins before the end of the list. That a sorted list has the rows of the unsorted one, each once, in the one order
there is, is a smallest-counterexample argument over positions.

`InfraInv` of the airport editor has three parts. `HistoryInv`: there is a history of what was
pending, one state before and one after every step on the two stacks, and each step leads from
one to the next (`Leads`); the undo stack forgets its oldest step at the limit (`truncated`),
and the witness is then shifted with it. With it `Unwound`, the recursive function that undoes the
steps, is found to be that history, again by the smallest counterexample. `Calm`, claimed as long
as nobody disturbed the page while it was at work (`disturbed = 0`): of saving, deleting and
pairing only one is under way (`SavePhase`, `ServerPhase`); during a save what is pending is
stored already or still in the chain that is to send it, with the same value; a reading of the
airport finds what the server has and knows which selection to keep (`FetchPhase`); and the
coordinator sees of each feature what he gave it last (`wanted`).

Induction over numbers is stated for sets (`NumbersReached`, from the well-foundedness of finite
sets: a set with 0 that has with n also n + 1 has all of them); the recursive functions that undo
every step (`undone`) and group the rows (`grouped`) are unfolded with it. `LeastThere` says the
same the other way round: a set of numbers that is not empty has a least one.

**Only model-checked.** `RunResolves`, because it is liveness, and so is everything with ENABLED.
`CodeIsRead` and `TypeOK` of `Footage`: the first is arithmetic over a matrix of bits that the
run evaluates for two texts, the second contains the first's state. The properties of `AppPages`,
which have no theorem.

## Not modelled

Geometry, path finding, safety validation, terrain rasters, rendering and image processing: a
path is a value, and a computation or job succeeds or fails as it likes. Access checks of the
backend. The hard time limit of a task (the pool kills a process and acknowledges its task) and
the broker's visibility timeout. Backfilled altitudes, whose reader commits in the middle of the
caller's transaction. The field hub itself, its route library and its devices; the numbering of
light units. Two operators at once on the media table. Infrastructure edits as part of a
mission's configuration, apart from renormalization. `MissionLifecycle` deletes missions and
inspections even where an attached video would refuse it, and `DroneMedia` ignores the status of
the mission: both allow more than the code. Presentation in the browser: layout, texts, icons,
colours and most of the components that only render what they are given.
