---------------------------- MODULE CoordinatorPages ----------------------------
(***************************************************************************)
(* The pages of a coordinator: the editor of an airport's infrastructure,  *)
(* the drawing and creation of what is new in it, the editors of drone     *)
(* profiles and of inspection templates, and the pages that list them.     *)
(* TLC explores one page at a time: the others stay as they are loaded.    *)
(***************************************************************************)
EXTENDS Naturals, Sequences, FiniteSets, TLC

CONSTANTS
  Shapes, Units, parentOf, NoFeature, Inventories, historyLimit, MaxVersion, MaxAttempts,
  MaxDisturbed,
  Spots, PhotoSets, NoPlace, MaxCreating, MaxMade,
  Drones, NewDrone, NoDrone, List, MaxTyped,
  Templates, NewTemplate, NoTemplate, Agls, NoAgl, kindOf, unitsOf, TemplateList,
  MaxTemplateEdits,
  Rows, scopeOf, classOf, Names, Sizes, MaxListActs

VARIABLES page,
  stored, airport, pageError, changes, maxHistory, past, future, selected, selectedData, version,
  saving, attempts, savedSelection, updates, fetches, deleting, pairing, picking, wanted, truncated,
  pickedFor, strayPick, disturbed,
  drawTool, sketch, pending, handoff, entry, lookup, creating, made, asked, forked, typings,
  extractor, extracting, extracted,
  storedDrone, droneAt, drone, formData, autosaveTimer, saves, droneReads, loading, loadError,
  copying, renameValue, saveError, mixed, typed,
  storedTemplate, templateAt, aglsLoaded, template, edit, userTouchedLha, seededTemplate,
  autosave, templateSaves, templateReads, templateLoading, templateError, templateSaveError,
  asking, crossed, clobbered, templateEdits,
  listKind, nameOf, view, answer, questions, readings, answered, operations, listLoading,
  listError, shrunk, listActs

Infra    == INSTANCE AirportEditor
Creation == INSTANCE EntityCreation
Profile  == INSTANCE DroneEditor
Plan     == INSTANCE TemplateEditor
Table    == INSTANCE ListPages

infraVars == <<stored, airport, pageError, changes, maxHistory, past, future, selected, selectedData,
               version, saving, attempts, savedSelection, updates, fetches, deleting, pairing, picking,
               wanted, truncated, pickedFor, strayPick, disturbed>>
creationVars == <<drawTool, sketch, pending, handoff, entry, lookup, creating, made, asked, forked,
                  typings, extractor, extracting, extracted>>
profileVars == <<storedDrone, droneAt, drone, formData, autosaveTimer, saves, droneReads, loading,
                 loadError, copying, renameValue, saveError, mixed, typed>>
planVars == <<storedTemplate, templateAt, aglsLoaded, template, edit, userTouchedLha,
              seededTemplate, autosave, templateSaves, templateReads, templateLoading,
              templateError, templateSaveError, asking, crossed, clobbered, templateEdits>>
tableVars == <<listKind, nameOf, view, answer, questions, readings, answered, operations,
               listLoading, listError, shrunk, listActs>>

ASSUME CoordinatorAssumption ==
  /\ Infra!EditorAssumption /\ Creation!CreationAssumption /\ Profile!DroneAssumption
  /\ Plan!TemplateAssumption /\ Table!ListAssumption

Pages == {"infra", "creation", "profile", "plan", "table"}

\* Where a page stays while another one is explored.
InfraAtRest   == Infra!Init /\ \A f \in Shapes : stored[f] # Infra!Gone
ProfileAtRest == Profile!Init /\ droneAt = CHOOSE d \in Drones : TRUE
PlanAtRest    == Plan!Init /\ templateAt = (CHOOSE t \in Templates : TRUE) /\ aglsLoaded
                 /\ \A t \in Templates : storedTemplate[t] = Plan!Blank
TableAtRest   == Table!Init /\ listKind = "drones" /\ \A r \in Rows : nameOf[r] = 0

Init ==
  /\ page \in Pages
  /\ Creation!Init
  /\ IF page = "infra" THEN Infra!Init ELSE InfraAtRest
  /\ IF page = "profile" THEN Profile!Init ELSE ProfileAtRest
  /\ IF page = "plan" THEN Plan!Init ELSE PlanAtRest
  /\ IF page = "table" THEN Table!Init ELSE TableAtRest

Next ==
  /\ UNCHANGED page
  /\ IF page = "infra" THEN Infra!Next ELSE UNCHANGED infraVars
  /\ IF page = "creation" THEN Creation!Next ELSE UNCHANGED creationVars
  /\ IF page = "profile" THEN Profile!Next ELSE UNCHANGED profileVars
  /\ IF page = "plan" THEN Plan!Next ELSE UNCHANGED planVars
  /\ IF page = "table" THEN Table!Next ELSE UNCHANGED tableVars

Spec == Init /\ [][Next]_<<page, infraVars, creationVars, profileVars, planVars, tableVars>>

-----------------------------------------------------------------------------
(* Properties of the pages, stated in their modules *)

\* Every variable of the page that is explored stays in its range.
TypeOK ==
  CASE page = "infra" -> Infra!TypeOK
    [] page = "creation" -> Creation!TypeOK
    [] page = "profile" -> Profile!TypeOK
    [] page = "plan" -> Plan!TypeOK
    [] page = "table" -> Table!TypeOK

\* The airport editor shows what the coordinator did last and what the server has, its history
\* unwinds to nothing pending, and a picked point goes where it was picked for.
InfraFollows ==
  page = "infra" =>
    Infra!EditsShown /\ Infra!PageIsServers /\ Infra!HistoryUnwinds /\ Infra!PickStays

\* What is drawn is created as it was drawn: one thing at a time, with the altitude of its place,
\* and no photo's position twice.
CreationFits ==
  page = "creation" =>
    Creation!PendingIsOne /\ Creation!AltitudeOfPlace /\ Creation!CreatedOnce

\* A form that saves itself saves to what it was read from, fits its system, and in the end shows
\* what the server has; a list shows the server's rows, on a page there is.
FormsReach ==
  /\ page = "profile" => Profile!SavedToItself /\ Profile!SettledIsStored
  /\ page = "plan" => Plan!SavedToItself /\ Plan!UnitsOfAgl /\ Plan!SettledIsStored
  /\ page = "table" => Table!ListIsServers /\ Table!PageInRange /\ Table!LoadingEnds

\* The queue of photos advances with the form, an edit is taken along to another profile, and a
\* selection made by hand outlives the answer of its save.
NothingDropped == Creation!QueueAdvances /\ Profile!EditsTaken /\ Plan!SelectionsKept
=============================================================================
