------------------------------ MODULE SidePanels ------------------------------
(***************************************************************************)
(* Panels and dialogs that keep state of their own beside a page: the      *)
(* terrain card of the airport editor, the operator's page of a drone with *)
(* the dialog that moves its missions to another drone, the camera presets *)
(* of a drone, the generator of light units and the picker of templates.   *)
(* One of them is used at a time. Calls are sent, served and answered in   *)
(* steps of their own, and readings are answered in any order.             *)
(*                                                                         *)
(* Left out: what a panel only displays, the rewrite option of the terrain *)
(* calls (it moves altitudes, which no panel shows), the values of camera  *)
(* settings, lamps and coordinates, names, searches and the order of rows. *)
(***************************************************************************)
EXTENDS Naturals, Sequences, FiniteSets

CONSTANTS
  Drones, NoDrone,
  Flights,         \* the missions of the airport
  Presets,
  Systems,         \* the lighting systems units are generated for
  NoSystem,        \* none of them; a position nobody entered
  Catalogs,        \* what the picker may be given: whether the airport has systems, and of each
                   \* template its methods and the types of the systems it targets
  NoChoice,
  MaxPanelCalls,   \* bound: readings, and calls of one kind, under way at once
  MaxPanelActs     \* bound: clicks and entries

PanelsAssumption ==
  /\ NoDrone \notin Drones /\ NoSystem \notin Systems /\ NoChoice \notin Presets
  /\ MaxPanelCalls \in Nat \ {0} /\ MaxPanelActs \in Nat

VARIABLES
  sidePanel,       \* the panel that is used
  card,            \* TerrainSettingsCard, with the airport it was given last
  dem,             \* the backend's airport
  demCalls,        \* of each of the card's calls: "no", "asked", "done" or "failed"
  dronePage,       \* useOperatorDroneDetail, and the address of its page
  dialog,          \* BulkChangeDroneDialog; without its page only "open" stays
  flown,           \* the backend's missions
  favourite,       \* the airport's default drone: the backend's, and the context's
  toggles,         \* settings of it under way
  changes,         \* bulk changes under way
  misled,          \* a change took a mission from another drone than the dialog named
  presetPanel,     \* CameraPresetsPanel
  presets,         \* the backend's presets; without a drone there is none
  presetCalls,
  quick,           \* QuickLhaSetup, the selected system and the tool that picks positions
  units,           \* the generations of the backend, and those the editor shows
  unitCalls,
  templatePicker,  \* TemplatePicker
  remembered,      \* sessionStorage: the type of system chosen last
  panelReads,      \* readings under way, the oldest first
  outrun,          \* an answer came after a newer one, or for what is shown no longer
  doubled,         \* a bulk change, or a terrain call, was asked for during another
  carried,         \* the generator was left as it was for another system
  panelActs

sideVars == <<sidePanel, card, dem, demCalls, dronePage, dialog, flown, favourite, toggles, changes,
              misled, presetPanel, presets, presetCalls, quick, units, unitCalls, templatePicker,
              remembered, panelReads, outrun, doubled, carried, panelActs>>

terrainVars  == <<card, dem, demCalls>>
droneVars    == <<dronePage, dialog, flown, favourite, toggles, changes, misled>>
presetVars   == <<presetPanel, presets, presetCalls>>
unitVars     == <<quick, units, unitCalls, carried>>
templateVars == <<templatePicker, remembered>>

Acted == panelActs < MaxPanelActs /\ panelActs' = panelActs + 1

-----------------------------------------------------------------------------
(* Readings *)

Read(kind, of) == [kind |-> kind, of |-> of, served |-> FALSE, passed |-> FALSE, got |-> NoChoice]

\* A reading is asked for: it is the newest.
Asking(reads, kind, of) == Append(reads, Read(kind, of))

\* The i-th reading is answered: those of its kind that were asked for before it are passed.
Without(i) ==
  [j \in 1 .. Len(panelReads) - 1 |->
     IF j >= i THEN panelReads[j + 1]
     ELSE [panelReads[j] EXCEPT !.passed = @ \/ panelReads[j].kind = panelReads[i].kind]]

Pending(kind) == {i \in DOMAIN panelReads : panelReads[i].kind = kind}

-----------------------------------------------------------------------------
(* The terrain card *)

Sources == {"FLAT", "DEM_UPLOAD", "DEM_API"}
DemOps  == {"upload", "download", "remove"}

resolveDefaultSource(airport, fallback) ==
  IF airport.has_dem THEN "DEM_UPLOAD"
  ELSE IF airport.source = "DEM_API" \/ (airport.source = "FLAT" /\ fallback) THEN "DEM_API"
  ELSE "FLAT"

CardOf(airport, fallback) ==
  [mounted |-> TRUE, seen |-> airport, fallback |-> fallback, coverage |-> "none",
   selected |-> resolveDefaultSource(airport, fallback), error |-> FALSE]

\* Mutant: the choice outlives a new state of the airport.
Reseeded_kept(airport, fallback) == [card EXCEPT !.seen = airport, !.fallback = fallback]

\* The card is given an airport or a flag of the settings: it starts over if one of them is new.
Reseeded(airport, fallback) ==
  IF airport = card.seen /\ fallback = card.fallback THEN card ELSE CardOf(airport, fallback)

\* What a row of the card offers for the chosen source.
Offers(op) ==
  /\ card.mounted /\ demCalls[op] = "no"
  /\ CASE op = "upload" -> ~card.seen.has_dem /\ card.selected = "DEM_UPLOAD"
       [] op = "download" -> ~card.seen.has_dem /\ card.selected = "DEM_API"
       [] op = "remove" -> card.seen.has_dem /\ card.selected # "FLAT"

Ask(op) ==
  /\ demCalls' = [demCalls EXCEPT ![op] = "asked"]
  /\ card' = [card EXCEPT !.error = FALSE]
  /\ doubled' = (doubled \/ \E other \in DemOps : demCalls[other] # "no")

\* Only the card changes.
Shows(c) == card' = c /\ UNCHANGED <<demCalls, doubled>>

\* A file that is too large is not sent.
handleFileUpload ==
  /\ Acted /\ Offers("upload")
  /\ \/ Ask("upload")
     \/ Shows([card EXCEPT !.error = TRUE])
  /\ UNCHANGED <<dem, panelReads, outrun>>

handleDownload ==
  Acted /\ Offers("download") /\ Ask("download") /\ UNCHANGED <<dem, panelReads, outrun>>

handleRemove ==
  Acted /\ Offers("remove") /\ Ask("remove") /\ UNCHANGED <<dem, panelReads, outrun>>

\* Choosing flat terrain removes the model there is, unless it is being removed.
handleRadioChange ==
  /\ Acted /\ card.mounted
  /\ \E source \in Sources \ {card.selected} :
       IF source = "FLAT" /\ card.seen.has_dem
       THEN IF demCalls["remove"] = "no" THEN Ask("remove")
            ELSE Shows([card EXCEPT !.error = FALSE])
       ELSE Shows([card EXCEPT !.selected = source, !.error = FALSE])
  /\ UNCHANGED <<dem, panelReads, outrun>>

\* The settings arrive, or an administrator changes them.
SettingsChange ==
  /\ Acted /\ card.mounted
  /\ Shows(Reseeded(card.seen, ~card.fallback))
  /\ UNCHANGED <<dem, panelReads, outrun>>

SourceAfter(op) ==
  CASE op = "upload" -> "DEM_UPLOAD" [] op = "download" -> "DEM_API" [] op = "remove" -> "FLAT"

ServeTerrain(op) ==
  /\ demCalls[op] = "asked"
  /\ \/ /\ demCalls' = [demCalls EXCEPT ![op] = "done"]
        /\ dem' = [has_dem |-> op # "remove", source |-> SourceAfter(op)]
     \/ demCalls' = [demCalls EXCEPT ![op] = "failed"] /\ UNCHANGED dem
  /\ UNCHANGED <<card, panelReads, outrun, doubled, panelActs>>

\* A call that succeeded sets the radio and reads the airport anew.
AnswerTerrain(op) ==
  /\ card.mounted /\ demCalls[op] \in {"done", "failed"}
  /\ demCalls' = [demCalls EXCEPT ![op] = "no"]
  /\ IF demCalls[op] = "failed"
     THEN card' = [card EXCEPT !.error = TRUE] /\ UNCHANGED panelReads
     ELSE /\ Len(panelReads) < MaxPanelCalls
          /\ panelReads' = Asking(panelReads, "airport", NoChoice)
          /\ card' = [card EXCEPT !.selected = SourceAfter(op),
                                  !.coverage = IF op = "remove" THEN "none" ELSE SourceAfter(op)]
  /\ UNCHANGED <<dem, outrun, doubled, panelActs>>

\* The editor gives the airport it read to the card; a reading that failed replaces the editor.
LandAirport(i) ==
  /\ card.mounted /\ panelReads[i].kind = "airport"
  /\ \/ panelReads[i].served /\ card' = Reseeded(panelReads[i].got, card.fallback)
     \/ ~panelReads[i].served /\ card' = [card EXCEPT !.mounted = FALSE]
  /\ panelReads' = Without(i)
  /\ outrun' = (outrun \/ panelReads[i].passed)
  /\ UNCHANGED <<dem, demCalls, doubled, panelActs>>

TerrainNext ==
  \/ handleFileUpload \/ handleDownload \/ handleRemove \/ handleRadioChange \/ SettingsChange
  \/ \E op \in DemOps : ServeTerrain(op) \/ AnswerTerrain(op)
  \/ \E i \in DOMAIN panelReads : LandAirport(i)

-----------------------------------------------------------------------------
(* The page of a drone and the dialog that moves its missions *)

MissionsOf(d) == {m \in Flights : flown[m].drone = d}
Rows(d) == {[mission |-> m, status |-> flown[m].status] : m \in MissionsOf(d)}

\* Neither the loader nor the error stands in its place.
Mounted(p) == ~p.loading /\ ~p.error /\ p.drone # NoDrone

BlankDialog ==
  [open |-> FALSE, tab |-> "ALL_DRAFT", target |-> NoDrone, listed |-> {}, ticked |-> {},
   loading |-> FALSE, submitting |-> FALSE, error |-> FALSE]

IsPage(r) == r.kind # "list"

\* The page becomes p and asks for what "reads" holds. The dialog is dropped with its page; when
\* it opens, or the drone under it changes, it starts over and lists the missions of the drone.
Rendered(p, open, reads, sent) ==
  LET stays == Mounted(dronePage) /\ dialog.open /\ p.drone = dronePage.drone
  IN /\ dronePage' = p
     /\ IF ~Mounted(p)
        THEN /\ dialog' = [BlankDialog EXCEPT !.open = open]
             /\ panelReads' = SelectSeq(reads, IsPage)
             /\ changes' = {[c EXCEPT !.here = FALSE] : c \in sent}
        ELSE /\ changes' = sent
             /\ IF open /\ ~stays
                THEN /\ dialog' = [dialog EXCEPT !.open = TRUE, !.tab = "ALL_DRAFT",
                                      !.target = NoDrone, !.ticked = {}, !.loading = TRUE,
                                      !.error = FALSE]
                     /\ panelReads' = Asking(reads, "list", p.drone)
                ELSE dialog' = [dialog EXCEPT !.open = open] /\ panelReads' = reads

Fetching(id) == [dronePage EXCEPT !.id = id, !.loading = TRUE, !.error = FALSE]

handleSelectDrone ==
  /\ Acted /\ Mounted(dronePage) /\ Len(panelReads) < MaxPanelCalls
  /\ \E d \in Drones \ {dronePage.id} :
       Rendered(Fetching(d), dialog.open, Asking(panelReads, "page", d), changes)
  /\ UNCHANGED <<flown, favourite, toggles, misled, doubled, outrun>>

\* The dialog is shown, cancelled or closed.
OpenDialog ==
  /\ Acted /\ Mounted(dronePage) /\ Len(panelReads) < MaxPanelCalls
  /\ Rendered(dronePage, ~dialog.open, panelReads, changes)
  /\ UNCHANGED <<flown, favourite, toggles, misled, doubled, outrun>>

\* The page's answer, the error of one that failed stays until the next is asked for.
LandPage(i) ==
  LET r == panelReads[i]
  IN /\ r.kind = "page"
     /\ \/ /\ r.served
           /\ Rendered([dronePage EXCEPT !.drone = r.of, !.list = r.got, !.loading = FALSE],
                       dialog.open, Without(i), changes)
        \/ /\ ~r.served
           /\ Rendered([dronePage EXCEPT !.error = TRUE, !.loading = FALSE],
                       dialog.open, Without(i), changes)
     /\ outrun' = (outrun \/ r.passed \/ r.of # dronePage.id)
     /\ UNCHANGED <<flown, favourite, toggles, misled, doubled, panelActs>>

LandList(i) ==
  LET r == panelReads[i]
  IN /\ r.kind = "list"
     /\ dialog' = [dialog EXCEPT !.listed = IF r.served THEN r.got ELSE {}, !.loading = FALSE]
     /\ panelReads' = Without(i)
     /\ outrun' = (outrun \/ r.passed \/ r.of # dronePage.drone)
     /\ UNCHANGED <<dronePage, flown, favourite, toggles, changes, misled, doubled, panelActs>>

\* Only missions before their plan is accepted can be ticked.
Changeable == {"DRAFT", "PLANNED"}

DialogFree == Mounted(dronePage) /\ dialog.open /\ ~dialog.loading

FillDialog ==
  /\ Acted /\ DialogFree
  /\ \/ \E tab \in {"ALL_DRAFT", "SELECTED"} \ {dialog.tab} : dialog' = [dialog EXCEPT !.tab = tab]
     \/ \E d \in Drones \ {dronePage.drone, dialog.target} :
          dialog' = [dialog EXCEPT !.target = d]
     \/ /\ dialog.tab = "SELECTED"
        /\ \E r \in {r \in dialog.listed : r.status \in Changeable} :
             dialog' = [dialog EXCEPT !.ticked = (@ \ {r.mission}) \cup ({r.mission} \ @)]
  /\ UNCHANGED <<dronePage, flown, favourite, toggles, changes, misled, doubled, panelReads,
                outrun>>

handleSubmit ==
  /\ Acted /\ DialogFree /\ ~dialog.submitting /\ dialog.target # NoDrone
  /\ IF dialog.tab = "ALL_DRAFT" THEN \E r \in dialog.listed : r.status = "DRAFT"
     ELSE dialog.ticked # {}
  /\ Cardinality(changes) < MaxPanelCalls
  /\ dialog' = [dialog EXCEPT !.submitting = TRUE, !.error = FALSE]
  /\ changes' = changes \cup
       {[page |-> dronePage.id, from |-> dronePage.drone, to |-> dialog.target,
         scope |-> dialog.tab, status |-> "asked", here |-> TRUE,
         ids |-> IF dialog.tab = "SELECTED" THEN dialog.ticked ELSE {}]}
  /\ doubled' = (doubled \/ changes # {})
  /\ UNCHANGED <<dronePage, flown, favourite, toggles, misled, panelReads, outrun>>

\* What the backend moves: of a selection it does not ask which drone it flew with.
Moved(c) ==
  IF c.scope = "SELECTED" THEN {m \in c.ids : flown[m].status \in Changeable}
  ELSE {m \in MissionsOf(c.from) : flown[m].status = "DRAFT"}

bulk_change_drone(c) ==
  /\ c.status = "asked"
  /\ \/ /\ changes' = (changes \ {c}) \cup {[c EXCEPT !.status = "done"]}
        /\ flown' = [m \in Flights |->
             IF m \in Moved(c) THEN [drone |-> c.to, status |-> "DRAFT"] ELSE flown[m]]
        /\ misled' = (misled \/ ~(Moved(c) \subseteq MissionsOf(c.from)))
     \/ /\ changes' = (changes \ {c}) \cup {[c EXCEPT !.status = "failed"]}
        /\ UNCHANGED <<flown, misled>>
  /\ UNCHANGED <<dronePage, dialog, favourite, toggles, doubled, panelReads, outrun, panelActs>>

\* Mutant: the page is not read again.
handleBulkSuccess_quiet(c) ==
  /\ c.status = "done"
  /\ Rendered(dronePage, FALSE, panelReads, changes \ {c})
  /\ UNCHANGED <<flown, favourite, toggles, misled, doubled, outrun, panelActs>>

\* The page that asked reads its drone again, whichever is shown by then, and the dialog closes.
handleBulkSuccess(c) ==
  /\ c.status = "done" /\ Len(panelReads) < MaxPanelCalls
  /\ Rendered(Fetching(dronePage.id), FALSE, Asking(panelReads, "page", c.page), changes \ {c})
  /\ UNCHANGED <<flown, favourite, toggles, misled, doubled, outrun, panelActs>>

ChangeFailed(c) ==
  /\ c.status = "failed"
  /\ changes' = changes \ {c}
  /\ dialog' = IF c.here THEN [dialog EXCEPT !.error = TRUE, !.submitting = FALSE] ELSE dialog
  /\ UNCHANGED <<dronePage, flown, favourite, toggles, misled, doubled, panelReads, outrun,
                 panelActs>>

\* The star sets the drone of the page as the airport's default, or takes it away.
toggleDefault ==
  /\ Acted /\ Mounted(dronePage)
  /\ toggles' = toggles \cup
       {[to |-> IF favourite.shown = dronePage.id THEN NoDrone ELSE dronePage.id,
         status |-> "asked"]}
  /\ UNCHANGED <<dronePage, dialog, flown, favourite, changes, misled, doubled, panelReads, outrun>>

\* Served, refused, or answered: then the context reads the airport again.
ToggleStep(c) ==
  /\ \/ /\ c.status = "asked" /\ favourite' = [favourite EXCEPT !.held = c.to]
        /\ toggles' = (toggles \ {c}) \cup {[c EXCEPT !.status = "done"]}
     \/ c.status = "asked" /\ toggles' = toggles \ {c} /\ UNCHANGED favourite
     \/ /\ c.status = "done" /\ toggles' = toggles \ {c}
        /\ favourite' = [favourite EXCEPT !.shown = favourite.held]
  /\ UNCHANGED <<dronePage, dialog, flown, changes, misled, doubled, panelReads, outrun, panelActs>>

\* A mission is planned, or its plan accepted, on another page.
Elsewhere(m) ==
  /\ Acted /\ flown[m].status \in Changeable
  /\ flown' = [flown EXCEPT ![m].status = IF @ = "DRAFT" THEN "PLANNED" ELSE "VALIDATED"]
  /\ UNCHANGED <<dronePage, dialog, favourite, toggles, changes, misled, doubled, panelReads,
                 outrun>>

DroneNext ==
  \/ handleSelectDrone \/ OpenDialog \/ FillDialog \/ handleSubmit \/ toggleDefault
  \/ \E i \in DOMAIN panelReads : LandPage(i) \/ LandList(i)
  \/ \E c \in changes : bulk_change_drone(c) \/ handleBulkSuccess(c) \/ ChangeFailed(c)
  \/ \E c \in toggles : ToggleStep(c)
  \/ \E m \in Flights : Elsewhere(m)

-----------------------------------------------------------------------------
(* The presets of a drone's camera *)

DefaultsOf(d) == {p \in Presets : presets[p].drone = d /\ presets[p].default}

\* Another drone is chosen: its defaults are read, the forms stay.
ChangeDrone ==
  /\ Acted /\ Len(panelReads) < MaxPanelCalls
  /\ \E d \in Drones \ {presetPanel.drone} :
       /\ presetPanel' = [presetPanel EXCEPT !.drone = d]
       /\ panelReads' = Asking(panelReads, "presets", d)
  /\ UNCHANGED <<presets, presetCalls, outrun>>

\* A row is opened for editing with its own values, the form is left, or one for a new preset is
\* opened, named or left.
EditPreset ==
  /\ Acted
  /\ \/ \E p \in presetPanel.list \ {presetPanel.editing} :
          presetPanel' = [presetPanel EXCEPT !.editing = p, !.typed = p]
     \/ /\ presetPanel.editing \in presetPanel.list
        /\ presetPanel' = [presetPanel EXCEPT !.editing = NoChoice]
     \/ presetPanel' = [presetPanel EXCEPT !.adding = ~@, !.named = FALSE]
     \/ presetPanel.adding /\ presetPanel' = [presetPanel EXCEPT !.named = TRUE]
  /\ UNCHANGED <<presets, presetCalls, panelReads, outrun>>

Send(kind, p) ==
  /\ Acted /\ Len(presetCalls) < MaxPanelCalls
  /\ presetCalls' = Append(presetCalls,
       [kind |-> kind, of |-> p, typed |-> presetPanel.typed, drone |-> presetPanel.drone,
        status |-> "asked"])
  /\ UNCHANGED <<presetPanel, presets, panelReads, outrun>>

onSave   == presetPanel.editing \in presetPanel.list /\ Send("save", presetPanel.editing)
onDelete == presetPanel.editing \in presetPanel.list /\ Send("delete", presetPanel.editing)

\* Every preset of the list is a default one: its star takes that away.
unsetDefault == \E p \in presetPanel.list \ {presetPanel.editing} : Send("star", p)

\* Nothing keeps the button from a second click.
createPreset == presetPanel.adding /\ presetPanel.named /\ Send("create", NoChoice)

\* Mutant: a drone keeps its other defaults.
demote_sibling_defaults_none(all, p) == all

demote_sibling_defaults(all, p) ==
  [q \in Presets |-> IF q # p /\ all[q].drone = all[p].drone
                     THEN [all[q] EXCEPT !.default = FALSE] ELSE all[q]]

Stored(p) == presets[p].drone # NoDrone

After(c, p) ==
  CASE c.kind = "create" ->
         demote_sibling_defaults(
           [presets EXCEPT ![p] = [drone |-> c.drone, default |-> TRUE, text |-> p]], p)
    [] c.kind = "save" ->
         LET edited == [presets EXCEPT ![p].text = c.typed]
         IN IF edited[p].default THEN demote_sibling_defaults(edited, p) ELSE edited
    [] c.kind = "star" -> [presets EXCEPT ![p].default = FALSE]
    [] c.kind = "delete" ->
         [presets EXCEPT ![p] = [drone |-> NoDrone, default |-> FALSE, text |-> p]]

\* Served, or refused: so is every call about a preset that was deleted.
ServePreset(i) ==
  LET c == presetCalls[i]
  IN /\ c.status = "asked"
     /\ \/ /\ presetCalls' = [presetCalls EXCEPT ![i].status = "done"]
           /\ \E p \in Presets :
                /\ IF c.kind = "create" THEN ~Stored(p) ELSE p = c.of /\ Stored(p)
                /\ presets' = After(c, p)
        \/ presetCalls' = [presetCalls EXCEPT ![i].status = "failed"] /\ UNCHANGED presets
     /\ UNCHANGED <<presetPanel, panelReads, outrun, panelActs>>

Dropped(calls, i) == SubSeq(calls, 1, i - 1) \o SubSeq(calls, i + 1, Len(calls))

\* What succeeded closes its form, whichever preset that form is of by then, and the defaults of
\* the drone it was sent for are read anew.
AnswerPreset(i) ==
  LET c == presetCalls[i]
  IN /\ c.status \in {"done", "failed"}
     /\ presetCalls' = Dropped(presetCalls, i)
     /\ IF c.status = "failed" THEN UNCHANGED <<presetPanel, panelReads>>
        ELSE /\ Len(panelReads) < MaxPanelCalls
             /\ panelReads' = Asking(panelReads, "presets", c.drone)
             /\ presetPanel' =
                  IF c.kind = "create" THEN [presetPanel EXCEPT !.adding = FALSE, !.named = FALSE]
                  ELSE IF c.kind = "star" THEN presetPanel
                  ELSE [presetPanel EXCEPT !.editing = NoChoice]
     /\ UNCHANGED <<presets, outrun, panelActs>>

LandPresets(i) ==
  LET r == panelReads[i]
  IN /\ r.kind = "presets"
     /\ presetPanel' = [presetPanel EXCEPT !.list = IF r.served THEN r.got ELSE {},
                                           !.failed = ~r.served]
     /\ panelReads' = Without(i)
     /\ outrun' = (outrun \/ r.passed \/ r.of # presetPanel.drone)
     /\ UNCHANGED <<presets, presetCalls, panelActs>>

PresetNext ==
  \/ ChangeDrone \/ EditPreset \/ onSave \/ onDelete \/ unsetDefault \/ createPreset
  \/ \E i \in DOMAIN presetCalls : ServePreset(i) \/ AnswerPreset(i)
  \/ \E i \in DOMAIN panelReads : LandPresets(i)

-----------------------------------------------------------------------------
(* The generator of light units *)

BlankQuick(at) ==
  [at |-> at, first |-> NoSystem, last |-> NoSystem, spacing |-> TRUE, picking |-> "none",
   busy |-> FALSE, err |-> FALSE, count |-> FALSE]

Ends == {"first", "last"}

\* A system is selected, or none. From one system to another the generator keeps what it holds.
SelectSystem ==
  /\ Acted
  /\ \E s \in (Systems \cup {NoSystem}) \ {quick.at} :
       IF NoSystem \in {s, quick.at}
       THEN /\ quick' = BlankQuick(s) /\ UNCHANGED carried
            /\ unitCalls' = {[c EXCEPT !.here = FALSE] : c \in unitCalls}
       ELSE quick' = [quick EXCEPT !.at = s] /\ carried' = TRUE /\ UNCHANGED unitCalls
  /\ UNCHANGED <<units, outrun>>

TypeInto ==
  /\ Acted /\ quick.at # NoSystem
  /\ \/ \E end \in Ends : quick' = [quick EXCEPT ![end] = quick.at]
     \/ quick' = [quick EXCEPT !.spacing = ~@]
  /\ UNCHANGED <<units, unitCalls, carried, outrun>>

onPickLhaToggle ==
  /\ Acted /\ quick.at # NoSystem
  /\ \E end \in Ends :
       quick' = [quick EXCEPT !.picking = IF @ = end THEN "none" ELSE end]
  /\ UNCHANGED <<units, unitCalls, carried, outrun>>

\* A click on the map ends the picking, and the position fills the end it was picked for.
handlePickingMapClick ==
  /\ Acted /\ quick.picking \in Ends
  /\ quick' = [quick EXCEPT ![quick.picking] = quick.at, !.picking = "none"]
  /\ UNCHANGED <<units, unitCalls, carried, outrun>>

Complete == NoSystem \notin {quick.first, quick.last} /\ quick.spacing

handleGenerate ==
  /\ Acted /\ quick.at # NoSystem /\ ~quick.busy
  /\ quick' = [quick EXCEPT !.err = ~Complete, !.count = FALSE, !.busy = Complete]
  /\ IF Complete
     THEN /\ Cardinality(unitCalls) < MaxPanelCalls
          /\ unitCalls' = unitCalls \cup
               {[at |-> quick.at, first |-> quick.first, last |-> quick.last, here |-> TRUE,
                 status |-> "asked", had |-> units.made]}
     ELSE UNCHANGED unitCalls
  /\ UNCHANGED <<units, carried, outrun>>

Becomes(c, status) == unitCalls' = (unitCalls \ {c}) \cup {[c EXCEPT !.status = status]}

ServeUnits(c) ==
  /\ c.status = "asked"
  /\ \/ /\ Becomes(c, "done")
        /\ units' = [units EXCEPT !.made = @ \cup
                       {[at |-> c.at, first |-> c.first, last |-> c.last]}]
     \/ Becomes(c, "failed") /\ UNCHANGED units
  /\ UNCHANGED <<quick, carried, outrun, panelActs>>

\* Mutant: the editor does not read the airport.
AnswerUnits_unread(c) ==
  /\ c.status \in {"done", "failed"} /\ unitCalls' = unitCalls \ {c}
  /\ quick' = IF c.here THEN [quick EXCEPT !.count = TRUE, !.busy = FALSE] ELSE quick
  /\ UNCHANGED <<units, carried, outrun, panelActs>>

\* The count is shown, then the editor reads the airport; until it has, the button is disabled.
AnswerUnits(c) ==
  /\ \/ /\ c.status = "done"
        /\ unitCalls' = (unitCalls \ {c}) \cup {[c EXCEPT !.status = "reading", !.had = units.made]}
        /\ quick' = IF c.here THEN [quick EXCEPT !.count = TRUE] ELSE quick
     \/ /\ c.status = "failed" /\ unitCalls' = unitCalls \ {c}
        /\ quick' = IF c.here THEN [quick EXCEPT !.err = TRUE, !.busy = FALSE] ELSE quick
  /\ UNCHANGED <<units, carried, outrun, panelActs>>

\* The airport as it was when the reading was asked for, or as it is by now.
LandUnits(c) ==
  /\ c.status = "reading" /\ unitCalls' = unitCalls \ {c}
  /\ \E got \in {c.had, units.made} :
       /\ units' = [units EXCEPT !.shown = got]
       /\ outrun' = (outrun \/ ~(units.shown \subseteq got))
  /\ quick' = IF c.here THEN [quick EXCEPT !.busy = FALSE] ELSE quick
  /\ UNCHANGED <<carried, panelActs>>

UnitNext ==
  \/ SelectSystem \/ TypeInto \/ onPickLhaToggle \/ handlePickingMapClick \/ handleGenerate
  \/ \E c \in unitCalls : ServeUnits(c) \/ AnswerUnits(c) \/ LandUnits(c)

-----------------------------------------------------------------------------
(* The picker of templates *)

AglTypes == {"PAPI", "RUNWAY_EDGE_LIGHTS"}

METHOD_AGL_COMPAT ==
  [method \in {"VERTICAL_PROFILE", "HORIZONTAL_RANGE", "APPROACH_DESCENT", "MEHT_CHECK",
               "FLY_OVER", "PARALLEL_SIDE_SWEEP", "HOVER_POINT_LOCK", "SURFACE_SCAN"} |->
     CASE method \in {"FLY_OVER", "PARALLEL_SIDE_SWEEP"} -> {"RUNWAY_EDGE_LIGHTS"}
       [] method \in {"HOVER_POINT_LOCK", "SURFACE_SCAN"} -> {}
       [] OTHER -> {"PAPI"}]

Catalog == Catalogs[templatePicker.catalog]
Templates == DOMAIN Catalog.of
Methods(tpl) == Catalog.of[tpl].methods

templateAglTypes(tpl) == IF Catalog.agls THEN Catalog.of[tpl].types ELSE {}

\* Mutant: one of the types is enough.
compatibleMethods_some(methods, types) ==
  SelectSeq(methods, LAMBDA m : types \cap METHOD_AGL_COMPAT[m] # {})

compatibleMethods(methods, types) ==
  SelectSeq(methods, LAMBDA m : types \subseteq METHOD_AGL_COMPAT[m])

compatMethods(tpl) ==
  IF templateAglTypes(tpl) = {} THEN Methods(tpl)
  ELSE compatibleMethods(Methods(tpl), templateAglTypes(tpl))

isAglAgnosticOnly(tpl) ==
  /\ Methods(tpl) # <<>>
  /\ \A i \in DOMAIN Methods(tpl) : METHOD_AGL_COMPAT[Methods(tpl)[i]] = {}

Special == {tpl \in Templates : isAglAgnosticOnly(tpl) \/ templateAglTypes(tpl) = {}}
byType(type) == {tpl \in Templates \ Special : type \in templateAglTypes(tpl)}

shouldGroup == Catalog.agls /\ \E type \in AglTypes : byType(type) # {}

\* The templates of a step: of one type of system, or beside the choice of the type.
Offered(agl) ==
  IF ~shouldGroup THEN Templates ELSE IF agl = NoChoice THEN Special ELSE byType(agl)

BlankPicker(catalog) ==
  [open |-> FALSE, agl |-> NoChoice, catalog |-> catalog, chosen |-> NoChoice,
   methods |-> [tpl \in DOMAIN Catalogs[catalog].of |-> NoChoice]]

\* Opening it restores the type that was chosen last in this tab.
Restored(p) == [p EXCEPT !.agl = IF p.open /\ remembered # NoChoice THEN remembered ELSE @]

OpenPicker ==
  /\ Acted /\ ~templatePicker.open
  /\ templatePicker' = Restored([templatePicker EXCEPT !.open = TRUE, !.chosen = NoChoice])
  /\ UNCHANGED remembered

ClosePicker ==
  /\ Acted /\ templatePicker.open
  /\ templatePicker' = [templatePicker EXCEPT !.open = FALSE]
  /\ UNCHANGED remembered

PickType ==
  /\ Acted /\ templatePicker.open /\ shouldGroup
  /\ \/ /\ templatePicker.agl = NoChoice
        /\ \E type \in AglTypes :
             templatePicker' = [templatePicker EXCEPT !.agl = type] /\ remembered' = type
     \/ /\ templatePicker.agl # NoChoice
        /\ templatePicker' = [templatePicker EXCEPT !.agl = NoChoice] /\ UNCHANGED remembered

PickMethod ==
  /\ Acted /\ templatePicker.open
  /\ \E tpl \in Offered(templatePicker.agl) :
       /\ Len(compatMethods(tpl)) > 1
       /\ \E i \in DOMAIN compatMethods(tpl) :
            templatePicker' = [templatePicker EXCEPT !.methods[tpl] = compatMethods(tpl)[i]]
  /\ UNCHANGED remembered

DEFAULT_INSPECTION_METHOD == "HORIZONTAL_RANGE"

methodOf(tpl) ==
  IF templatePicker.methods[tpl] # NoChoice THEN templatePicker.methods[tpl]
  ELSE IF compatMethods(tpl) # <<>> THEN compatMethods(tpl)[1]
  ELSE IF Methods(tpl) # <<>> THEN Methods(tpl)[1] ELSE DEFAULT_INSPECTION_METHOD

handleSelect ==
  /\ Acted /\ templatePicker.open
  /\ \E tpl \in Offered(templatePicker.agl) :
       templatePicker' = [templatePicker EXCEPT !.open = FALSE,
                            !.chosen = [template |-> tpl, method |-> methodOf(tpl)]]
  /\ UNCHANGED remembered

\* The page loads anew: it mounts another picker.
Reload ==
  /\ Acted
  /\ \E c \in DOMAIN Catalogs :
       templatePicker' = Restored([BlankPicker(c) EXCEPT !.open = templatePicker.open])
  /\ UNCHANGED remembered

TemplateNext ==
  OpenPicker \/ ClosePicker \/ PickType \/ PickMethod \/ handleSelect \/ Reload

-----------------------------------------------------------------------------
(* Any panel *)

\* The backend reads what it holds.
Held(r) ==
  CASE r.kind = "airport" -> dem
    [] r.kind \in {"page", "list"} -> Rows(r.of)
    [] r.kind = "presets" -> DefaultsOf(r.of)

ServeRead(i) ==
  /\ ~panelReads[i].served
  /\ panelReads' = [panelReads EXCEPT ![i].served = TRUE, ![i].got = Held(panelReads[i])]
  /\ UNCHANGED <<terrainVars, droneVars, presetVars, unitVars, templateVars, outrun, doubled,
                 panelActs>>

Init ==
  /\ sidePanel \in {"terrain", "drone", "presets", "units", "templates"}
  /\ dem \in IF sidePanel = "terrain"
             THEN {[has_dem |-> FALSE, source |-> "FLAT"], [has_dem |-> TRUE, source |-> "DEM_API"],
                   [has_dem |-> TRUE, source |-> "DEM_UPLOAD"]}
             ELSE {[has_dem |-> FALSE, source |-> "FLAT"]}
  /\ card = CardOf(dem, FALSE) /\ demCalls = [op \in DemOps |-> "no"]
  /\ \E d \in Drones :
       /\ d = CHOOSE e \in Drones : TRUE
       /\ flown = [m \in Flights |-> [drone |-> d, status |-> "DRAFT"]]
       /\ dronePage = [id |-> d, drone |-> NoDrone, list |-> {}, loading |-> TRUE, error |-> FALSE]
       /\ presetPanel = [drone |-> d, list |-> {}, editing |-> NoChoice, typed |-> NoChoice,
                         adding |-> FALSE, named |-> FALSE, failed |-> FALSE]
       /\ panelReads = IF sidePanel = "drone" THEN <<Read("page", d)>>
                       ELSE IF sidePanel = "presets" THEN <<Read("presets", d)>> ELSE <<>>
  /\ dialog = BlankDialog /\ favourite = [held |-> NoDrone, shown |-> NoDrone]
  /\ toggles = {} /\ changes = {} /\ misled = FALSE
  /\ presets = [p \in Presets |-> [drone |-> NoDrone, default |-> FALSE, text |-> p]]
  /\ presetCalls = <<>>
  /\ quick = BlankQuick(NoSystem) /\ units = [made |-> {}, shown |-> {}] /\ unitCalls = {}
  /\ templatePicker = BlankPicker(1) /\ remembered = NoChoice
  /\ outrun = FALSE /\ doubled = FALSE /\ carried = FALSE /\ panelActs = 0

Next ==
  /\ UNCHANGED sidePanel
  /\ \/ \E i \in DOMAIN panelReads : ServeRead(i)
     \/ /\ sidePanel = "terrain" /\ TerrainNext
        /\ UNCHANGED <<droneVars, presetVars, unitVars, templateVars>>
     \/ /\ sidePanel = "drone" /\ DroneNext
        /\ UNCHANGED <<terrainVars, presetVars, unitVars, templateVars>>
     \/ /\ sidePanel = "presets" /\ PresetNext
        /\ UNCHANGED <<terrainVars, droneVars, unitVars, templateVars, doubled>>
     \/ /\ sidePanel = "units" /\ UnitNext
        /\ UNCHANGED <<terrainVars, droneVars, presetVars, templateVars, panelReads, doubled>>
     \/ /\ sidePanel = "templates" /\ TemplateNext
        /\ UNCHANGED <<terrainVars, droneVars, presetVars, unitVars, panelReads, outrun,
                       doubled>>

-----------------------------------------------------------------------------
(* Properties *)

TypeOK ==
  /\ card.selected \in Sources /\ card.coverage \in {"none", "DEM_UPLOAD", "DEM_API"}
  /\ dem.source \in Sources /\ dem.has_dem = (dem.source # "FLAT")
  /\ dialog.listed \subseteq [mission : Flights, status : Changeable \cup {"VALIDATED"}]
  /\ dialog.ticked \subseteq Flights /\ dialog.target \in Drones \cup {NoDrone}
  /\ ~Mounted(dronePage) => dialog = [BlankDialog EXCEPT !.open = dialog.open]
  /\ \A c \in changes : c.here /\ c.status = "asked" => dialog.submitting
  /\ presetPanel.list \subseteq Presets /\ Len(panelReads) <= MaxPanelCalls + 1
  /\ quick.busy = \E c \in unitCalls : c.here
  /\ remembered \in AglTypes \cup {NoChoice} /\ panelActs \in 0..MaxPanelActs

\* When its calls are answered the card is of the backend's airport: it offers no flat terrain
\* and no second model while there is one, and a coverage is of a model that is there.
TerrainFits ==
  card.mounted /\ Pending("airport") = {} /\ ~outrun /\ ~doubled
    /\ (\A op \in DemOps : demCalls[op] # "done")
  => /\ card.seen = dem
     /\ card.seen.has_dem => card.selected # "FLAT"
     /\ card.coverage # "none" => dem.has_dem

\* A drone's page shows the drone of its address with the missions that fly with it, also after a
\* bulk change that was confirmed for it, and a change takes missions from no other drone than the
\* dialog named, unless two changes or two pages met.
DronesFit ==
  /\ Mounted(dronePage) /\ Pending("page") = {} /\ changes = {} /\ ~outrun
     => /\ dronePage.drone = dronePage.id
        /\ {r.mission : r \in dronePage.list} = MissionsOf(dronePage.id)
  /\ misled => doubled \/ outrun
  /\ toggles = {} => favourite.shown = favourite.held

\* The panel shows the one default of its drone, and a preset holds what was entered for it.
PresetsFit ==
  /\ Pending("presets") = {} /\ presetCalls = <<>> /\ ~outrun /\ ~presetPanel.failed
     => presetPanel.list = DefaultsOf(presetPanel.drone)
  /\ \A d \in Drones : Cardinality(DefaultsOf(d)) <= 1
  /\ \A p \in Presets : presets[p].text = p

\* Units are generated between positions that were given for their own system, as long as the
\* generator was not carried from one to another; the editor shows what was generated.
UnitsFit ==
  /\ ~carried => \A g \in units.made : g.first = g.at /\ g.last = g.at
  /\ unitCalls = {} /\ ~outrun => units.shown = units.made
  /\ ~(quick.err /\ quick.count)

\* Every template is offered in some step, and it is handed over with a method of its own that
\* fits every system it targets, if it has one.
TemplatesFit ==
  /\ \A tpl \in Templates : \E agl \in AglTypes \cup {NoChoice} : tpl \in Offered(agl)
  /\ templatePicker.chosen # NoChoice =>
       LET tpl == templatePicker.chosen.template
           fit == compatMethods(tpl)
       IN IF fit = <<>> THEN Methods(tpl) # <<>> => templatePicker.chosen.method = Methods(tpl)[1]
          ELSE /\ \E i \in DOMAIN fit : fit[i] = templatePicker.chosen.method
               /\ templateAglTypes(tpl) \subseteq METHOD_AGL_COMPAT[templatePicker.chosen.method]
                  \/ templateAglTypes(tpl) = {}
===============================================================================
