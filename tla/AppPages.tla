-------------------------------- MODULE AppPages --------------------------------
(***************************************************************************)
(* What the pages share, and the pages of the administrator: the map in 2D *)
(* and in 3D, the session and the addresses, the accounts, the system's    *)
(* settings and the opening of an airport, and panels that stand beside a  *)
(* page. TLC explores one of them at a time: the others stay as loaded.    *)
(***************************************************************************)
EXTENDS Naturals, Sequences, FiniteSets, TLC

CONSTANTS
  MapPlans, Inventory, Inspected, NoInspection, NoWaypoint, MaxMapActs,
  Sights, MaxSwitchActs,
  SceneAirports, ScenePlans, SceneLayers, SceneIds, crowdAt, NoSight, MaxSceneActs, MaxSamplings,
  People, SuperAdmins, NoPerson, MaxTokens, MaxSessionActs,
  Fields, NoField, MaxNavActs,
  NoAccount, MaxCalls, MaxAccountActs,
  MaxSettingsActs, MaxOpeningActs,
  Drones, NoDrone, Flights, Presets, Systems, NoSystem, Catalogs, NoChoice, MaxPanelCalls,
  MaxPanelActs

VARIABLES page,
  shown, layers, savedLayers, canvas, collided, styleLoaded, polls, excused, mapActs,
  is3D, viewer3D, cam2, cam3, leveling, lent, lastBearing, bearing, northAsked, synced,
  terrainMode, imagery, switchActs,
  scene, look, terrain, samplings, sampledHeights, sampledOf, labels, lastPass, rebuilt,
  selectedFeatureKey, panel, sceneActs,
  tab, door, calls, host, form, sessActs,
  role, restoring, at, visited, answer, chosen, detail, layout, followed, selector, menu, hops,
  arrived, strayed, navActs,
  accounts, deleted, place, selectedUser, editName, saving, resetLink, confirmAction, invitation,
  people, accountCalls, wanted, overlapped, late, accountActs,
  stored, settingsForm, settingsPage, apiKeyInput, update, saved, sharedSettings, testResult,
  tests, edited, keyWanted, unread, settingsActs,
  dialogOpen, identity, importRadius, suggestions, lookup, submit, createdAirportId, airports,
  opened, picker, asked, recoded, retyped, awaited, openingActs,
  sidePanel, card, dem, demCalls, dronePage, dialog, flown, favourite, toggles, changes, misled,
  presetPanel, presets, presetCalls, quick, units, unitCalls, templatePicker, remembered,
  panelReads, outrun, doubled, carried, panelActs

Map       == INSTANCE MapCanvas
Switch    == INSTANCE ViewSwitch
Flight    == INSTANCE FlightView3D
Login     == INSTANCE Session
Route     == INSTANCE Navigation
Admin     == INSTANCE SuperAdmin
Opening   == INSTANCE AirportOpening
Panels    == INSTANCE SidePanels

mapVars == <<shown, layers, savedLayers, canvas, collided, styleLoaded, polls, excused, mapActs>>
switchVars == <<is3D, viewer3D, cam2, cam3, leveling, lent, lastBearing, bearing, northAsked,
                synced, terrainMode, imagery, switchActs>>
flightVars == <<scene, look, terrain, samplings, sampledHeights, sampledOf, labels, lastPass,
                rebuilt, selectedFeatureKey, panel, sceneActs>>
loginVars == <<tab, door, calls, host, form, sessActs>>
routeVars == <<role, restoring, at, visited, answer, chosen, detail, layout, followed, selector,
               menu, hops, arrived, strayed, navActs>>
accountVars == <<accounts, deleted, place, selectedUser, editName, saving, resetLink,
                 confirmAction, invitation, people, accountCalls, wanted, overlapped, late,
                 accountActs>>
systemVars == <<stored, settingsForm, settingsPage, apiKeyInput, update, saved, sharedSettings,
                testResult, tests, edited, keyWanted, unread, settingsActs>>
openingVars == <<dialogOpen, identity, importRadius, suggestions, lookup, submit,
                 createdAirportId, airports, opened, picker, asked, recoded, retyped, awaited,
                 openingActs>>
panelVars == <<sidePanel, card, dem, demCalls, dronePage, dialog, flown, favourite, toggles,
               changes, misled, presetPanel, presets, presetCalls, quick, units, unitCalls,
               templatePicker, remembered, panelReads, outrun, doubled, carried, panelActs>>

ASSUME AppAssumption ==
  /\ Map!CanvasAssumption /\ Switch!SwitchAssumption /\ Flight!SceneAssumption
  /\ Login!SessionAssumption /\ Route!NavigationAssumption /\ Admin!SuperAdminAssumption
  /\ Opening!AirportOpeningAssumption
  /\ Panels!PanelsAssumption

Pages == {"map", "switch", "flight", "login", "route", "accounts", "system", "opening",
          "panels"}

\* Where a page stays while another one is explored.
MapAtRest    == Map!Init /\ savedLayers = Map!DEFAULT_LAYER_CONFIG
SwitchAtRest == Switch!Init /\ cam2 = [place |-> cam3.place, turn |-> 0, tilted |-> FALSE]
LoginAtRest  == Login!Init /\ host.cookie = NoPerson
RouteAtRest  == Route!Init /\ at = Route!LoginPage /\ visited = Route!Nowhere /\ chosen = NoField
PanelsAtRest == Panels!Init /\ sidePanel = "templates"
SystemAtRest == Admin!SettingsInit /\ ~stored.fallback /\ stored.key = Admin!NoKey

Init ==
  /\ page \in Pages
  /\ IF page = "map" THEN Map!Init ELSE MapAtRest
  /\ IF page = "switch" THEN Switch!Init ELSE SwitchAtRest
  /\ Flight!Init
  /\ IF page = "login" THEN Login!Init ELSE LoginAtRest
  /\ IF page = "route" THEN Route!Init ELSE RouteAtRest
  /\ Admin!Init
  /\ IF page = "system" THEN Admin!SettingsInit ELSE SystemAtRest
  /\ Opening!Init
  /\ IF page = "panels" THEN Panels!Init ELSE PanelsAtRest

\* The pages that are not explored stay as they are.
OthersRest ==
  /\ page # "map" => UNCHANGED mapVars
  /\ page # "switch" => UNCHANGED switchVars
  /\ page # "flight" => UNCHANGED flightVars
  /\ page # "login" => UNCHANGED loginVars
  /\ page # "route" => UNCHANGED routeVars
  /\ page # "accounts" => UNCHANGED accountVars
  /\ page # "system" => UNCHANGED systemVars
  /\ page # "opening" => UNCHANGED openingVars
  /\ page # "panels" => UNCHANGED panelVars

Next ==
  /\ UNCHANGED page /\ OthersRest
  /\ CASE page = "map" -> Map!Next
       [] page = "switch" -> Switch!Next
       [] page = "flight" -> Flight!Next
       [] page = "login" -> Login!Next
       [] page = "route" -> Route!Next
       [] page = "accounts" -> Admin!Next
       [] page = "system" -> Admin!SettingsNext
       [] page = "opening" -> Opening!Next
       [] page = "panels" -> Panels!Next

Spec ==
  Init /\ [][Next]_<<page, mapVars, switchVars, flightVars, loginVars, routeVars, accountVars,
                     systemVars, openingVars, panelVars>>

-----------------------------------------------------------------------------
(* Properties of the pages, stated in their modules *)

\* Every variable of the page that is explored stays in its range.
TypeOK ==
  CASE page = "map" -> Map!TypeOK
    [] page = "switch" -> Switch!TypeOK
    [] page = "flight" -> Flight!TypeOK
    [] page = "login" -> Login!TypeOK
    [] page = "route" -> Route!TypeOK
    [] page = "accounts" -> Admin!TypeOK
    [] page = "system" -> Admin!SettingsTypeOK
    [] page = "opening" -> Opening!TypeOK
    [] page = "panels" -> Panels!TypeOK

\* The map paints the plan, the filters and the rings of what the page hands to it, one of the two
\* forms of the trajectory, and each waypoint once in the list beside it. The 3D view stands on
\* the terrain that is loaded under one background, its labels are those that fit, what is picked
\* is there, and the flight it plays is the plan's.
DrawnFits ==
  /\ page = "map" => Map!CanvasFollows /\ Map!RingsFollow /\ Map!LayersExclude /\ Map!PointsOfPlan
  /\ page = "switch" => Switch!OneBackground
  /\ page = "flight" => /\ Flight!HeightsOfTerrain /\ Flight!LabelsFit
                        /\ Flight!PicksResolve /\ Flight!FlightFits

\* A camera that was only handed to the other view comes back as it went.
CameraKept == Switch!CameraKept

\* A tab serves one person: what it shows and sends is that person's, a request refused for its
\* token is answered or waits for the renewal, and nobody is at a page closed to the role or led
\* round in a circle.
PersonFits ==
  /\ page = "login" => Login!AnswerAwaited /\ Login!OnePerson /\ Login!SavedIsSaved
  /\ page = "route" => /\ Route!PageOfRole /\ Route!RedirectsEnd
                       /\ Route!AirportFollows /\ Route!LinksAdmit

\* Forms and panels write what was entered and show what was written: assignments that were asked
\* for stand, a detail view is of its address, saved settings are what the form says, an airport is
\* created with its own place, name and suggestions; the terrain card, a drone's missions and
\* presets, generated units and the templates on offer are the backend's.
FormsStand ==
  /\ page = "accounts" => Admin!AssignmentsStand /\ Admin!DetailFollows
  /\ page = "system" => Admin!SettingsStand
  /\ page = "opening" => Opening!OpeningFits
  /\ page = "panels" => /\ Panels!TerrainFits /\ Panels!DronesFit /\ Panels!PresetsFit
                        /\ Panels!UnitsFit /\ Panels!TemplatesFit
=================================================================================
