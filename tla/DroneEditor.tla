------------------------------ MODULE DroneEditor ------------------------------
(***************************************************************************)
(* The page on which a coordinator edits a drone profile                   *)
(* (hooks/useDroneEditor.ts of frontend/src).  Edits save themselves some  *)
(* time after the last one; the page stays mounted while it goes from one  *)
(* profile to the next, so that a timer, a save or a reading of one may    *)
(* end on the page of another.  Of the fields of a profile, "spec" stands  *)
(* for those typed beside the name.                                        *)
(***************************************************************************)
EXTENDS Naturals, FiniteSets

CONSTANTS
  Drones,       \* the profiles there are; NewDrone is the one that is added
  NewDrone, NoDrone,
  List,         \* the page of all profiles
  MaxTyped      \* bound: fields edited, renamings and choices of a model

DroneAssumption == NewDrone \notin Drones /\ {NoDrone, List} \cap (Drones \cup {NewDrone}) = {}
                   /\ MaxTyped \in Nat

VARIABLES
  storedDrone,  \* the server's
  droneAt,      \* the profile in the address
  drone,        \* the profile in the page's memory (drone, droneRef), with its identity
  formData,     \* the fields shown, and the profile they were read from
  autosaveTimer, \* the save that is scheduled
  saves,        \* updates sent and not answered
  droneReads, loading, loadError,
  copying,      \* whether a new profile has been asked for: one in a run
  renameValue,
  saveError,
  mixed,        \* history: see Mixing
  typed         \* history: how many of these there were

droneVars == <<storedDrone, droneAt, drone, formData, autosaveTimer, saves, droneReads, loading,
               loadError, copying, renameValue, saveError, mixed, typed>>

Blank == 2

Profile == [name : 0..Blank, spec : 0..1, model : 0..1]

AllDrones == Drones \cup {NewDrone}

NoForm == [of |-> NoDrone, name |-> 0, spec |-> 0]

NoTimer == [id |-> NoDrone, form |-> NoForm]

TypeOK ==
  /\ storedDrone \in [AllDrones -> Profile]
  /\ droneAt \in AllDrones \cup {List}
  /\ drone.id \in AllDrones \cup {NoDrone} /\ drone.data \in Profile
  /\ formData.of \in AllDrones \cup {NoDrone}
  /\ autosaveTimer.id \in AllDrones \cup {NoDrone}
  /\ \A s \in saves : s.id \in AllDrones /\ DOMAIN s.patch \subseteq {"name", "spec", "model"}
  /\ droneReads \subseteq AllDrones /\ loading \in BOOLEAN /\ loadError \in BOOLEAN
  /\ copying \in {"no", "asked", "done"} /\ renameValue \in 0..Blank + 1 /\ saveError \in BOOLEAN
  /\ mixed \in BOOLEAN /\ typed \in 0..MaxTyped

droneToForm(d, of) == [of |-> of, name |-> d.name, spec |-> d.spec]

formToPayload(form) == [name |-> form.name, spec |-> form.spec]

\* The profile with the fields that were sent.
Patched(row, patch) ==
  [row EXCEPT !.name  = IF "name" \in DOMAIN patch THEN patch.name ELSE @,
              !.spec  = IF "spec" \in DOMAIN patch THEN patch.spec ELSE @,
              !.model = IF "model" \in DOMAIN patch THEN patch.model ELSE @]

Dirty(form) == form.name # drone.data.name \/ form.spec # drone.data.spec

Editable == droneAt # List /\ ~loading /\ ~loadError /\ drone.id # NoDrone

-----------------------------------------------------------------------------
(* Reading *)

fetchDrone(id) ==
  /\ droneAt' = id
  /\ droneReads' = droneReads \cup {id} /\ loading' = TRUE /\ loadError' = FALSE

\* An answer is taken as the page's whatever the address says by then.
DroneRead(id) ==
  /\ id \in droneReads
  /\ droneReads' = droneReads \ {id} /\ loading' = FALSE
  /\ IF droneAt = List THEN UNCHANGED <<drone, formData, mixed>>
     ELSE /\ drone' = [id |-> id, data |-> storedDrone[id]]
          /\ formData' = droneToForm(storedDrone[id], id)
          /\ mixed' = (mixed \/ id # droneAt \/ \E s \in saves : s.id = id)
  /\ UNCHANGED <<storedDrone, droneAt, autosaveTimer, saves, loadError, copying, renameValue,
                 saveError, typed>>

DroneUnread(id) ==
  /\ id \in droneReads
  /\ droneReads' = droneReads \ {id} /\ loading' = FALSE
  /\ loadError' = (loadError \/ droneAt # List)
  /\ UNCHANGED <<storedDrone, droneAt, drone, formData, autosaveTimer, saves, copying, renameValue,
                 saveError, mixed, typed>>

-----------------------------------------------------------------------------
(* Saving *)

performSave(id, form) ==
  IF drone.id = NoDrone \/ form.name = Blank THEN UNCHANGED <<saves, saveError>>
  ELSE /\ saves' = saves \cup {[id |-> id, patch |-> formToPayload(form), of |-> form.of]}
       /\ saveError' = FALSE

\* Mutant: a timer that runs is not set anew.
handleFieldChange_first(field, v) ==
  /\ Editable /\ typed < MaxTyped /\ formData[field] # v
  /\ formData' = [formData EXCEPT ![field] = v]
  /\ autosaveTimer' = IF ~Dirty(formData') THEN NoTimer
                      ELSE IF autosaveTimer = NoTimer THEN [id |-> droneAt, form |-> formData']
                      ELSE autosaveTimer
  /\ mixed' = (mixed \/ (~Dirty(formData') /\ saves # {}))
  /\ typed' = typed + 1
  /\ UNCHANGED <<storedDrone, droneAt, drone, saves, droneReads, loading, loadError, copying,
                 renameValue, saveError>>

\* The timer is set anew by every edit, and dropped by one that undoes the others.
handleFieldChange(field, v) ==
  /\ Editable /\ typed < MaxTyped /\ formData[field] # v
  /\ formData' = [formData EXCEPT ![field] = v]
  /\ autosaveTimer' = IF Dirty(formData') THEN [id |-> droneAt, form |-> formData'] ELSE NoTimer
  /\ mixed' = (mixed \/ (~Dirty(formData') /\ saves # {}))
  /\ typed' = typed + 1
  /\ UNCHANGED <<storedDrone, droneAt, drone, saves, droneReads, loading, loadError, copying,
                 renameValue, saveError>>

\* Mutant: the timer saves to the profile in the address.
AutosaveFires_here ==
  /\ autosaveTimer # NoTimer /\ droneAt # List
  /\ performSave(droneAt, autosaveTimer.form)
  /\ autosaveTimer' = NoTimer
  /\ UNCHANGED <<storedDrone, droneAt, drone, formData, droneReads, loading, loadError, copying,
                 renameValue, mixed, typed>>

AutosaveFires ==
  /\ autosaveTimer # NoTimer
  /\ performSave(autosaveTimer.id, autosaveTimer.form)
  /\ autosaveTimer' = NoTimer
  /\ UNCHANGED <<storedDrone, droneAt, drone, formData, droneReads, loading, loadError, copying,
                 renameValue, mixed, typed>>

\* Mixing: what the page remembers is no longer its profile as the form has it, because an answer
\* came for another profile or after a later update, the edits were undone while they were being
\* saved, or the name was changed beside the form.
SaveServed(s) ==
  /\ storedDrone' = [storedDrone EXCEPT ![s.id] = Patched(@, s.patch)]
  /\ saves' = saves \ {s}
  /\ IF droneAt = List THEN UNCHANGED <<drone, mixed>>
     ELSE /\ drone' = [id |-> s.id, data |-> storedDrone'[s.id]]
          /\ mixed' = \/ mixed \/ s.id # droneAt
                      \/ \E o \in saves \ {s} : o.id = s.id
                      \/ DOMAIN s.patch = {"name"}
  /\ UNCHANGED <<droneAt, formData, autosaveTimer, droneReads, loading, loadError, copying,
                 renameValue, saveError, typed>>

SaveRefused(s) ==
  /\ saves' = saves \ {s}
  /\ saveError' = (saveError \/ DOMAIN s.patch = {"name", "spec"})
  /\ UNCHANGED <<storedDrone, droneAt, drone, formData, autosaveTimer, droneReads, loading,
                 loadError, copying, renameValue, mixed, typed>>

startDroneRename ==
  /\ Editable /\ renameValue = Blank + 1
  /\ renameValue' = drone.data.name
  /\ UNCHANGED <<storedDrone, droneAt, drone, formData, autosaveTimer, saves, droneReads, loading,
                 loadError, copying, saveError, mixed, typed>>

Patch(p) ==
  /\ typed < MaxTyped /\ typed' = typed + 1
  /\ saves' = saves \cup {[id |-> droneAt, patch |-> p, of |-> droneAt]}

finishDroneRename(v) ==
  /\ Editable /\ renameValue # Blank + 1
  /\ renameValue' = Blank + 1
  /\ IF v \in {Blank, drone.data.name} THEN UNCHANGED <<saves, typed>> ELSE Patch([name |-> v])
  /\ UNCHANGED <<storedDrone, droneAt, drone, formData, autosaveTimer, droneReads, loading,
                 loadError, copying, saveError, mixed>>

\* A model is chosen, removed or uploaded.
handleSelectModel(v) ==
  /\ Editable /\ v # drone.data.model
  /\ Patch([model |-> v])
  /\ UNCHANGED <<storedDrone, droneAt, drone, formData, autosaveTimer, droneReads, loading,
                 loadError, copying, renameValue, saveError, mixed>>

-----------------------------------------------------------------------------
(* Going elsewhere *)

\* Mutant: it is dropped.
handleSelectDrone_dropped(id) ==
  /\ Editable /\ id # droneAt /\ id \in Drones
  /\ autosaveTimer' = NoTimer
  /\ fetchDrone(id)
  /\ UNCHANGED <<storedDrone, drone, formData, saves, saveError, copying, renameValue, mixed,
                 typed>>

\* The edit that waits for its timer is sent before another profile is opened.
handleSelectDrone(id) ==
  /\ Editable /\ id # droneAt /\ id \in Drones
  /\ IF autosaveTimer # NoTimer /\ Dirty(formData) THEN performSave(droneAt, formData)
     ELSE UNCHANGED <<saves, saveError>>
  /\ autosaveTimer' = NoTimer
  /\ fetchDrone(id)
  /\ UNCHANGED <<storedDrone, drone, formData, copying, renameValue, mixed, typed>>

\* Leaving the editor drops its timer.
handleBackToList ==
  /\ Editable
  /\ droneAt' = List /\ autosaveTimer' = NoTimer
  /\ UNCHANGED <<storedDrone, drone, formData, saves, droneReads, loading, loadError, copying,
                 renameValue, saveError, mixed, typed>>

\* A copy of the profile, or an empty one, is asked for; its answer opens it.
handleDuplicate ==
  /\ Editable /\ copying = "no"
  /\ copying' = "asked"
  /\ UNCHANGED <<storedDrone, droneAt, drone, formData, autosaveTimer, saves, droneReads, loading,
                 loadError, renameValue, saveError, mixed, typed>>

DroneAdded ==
  /\ copying = "asked" /\ copying' = "done"
  /\ IF droneAt = List THEN UNCHANGED <<droneAt, droneReads, loading, loadError>>
     ELSE fetchDrone(NewDrone)
  /\ UNCHANGED <<storedDrone, drone, formData, autosaveTimer, saves, renameValue, saveError, mixed,
                 typed>>

DroneNotAdded ==
  /\ copying = "asked" /\ copying' = "done"
  /\ UNCHANGED <<storedDrone, droneAt, drone, formData, autosaveTimer, saves, droneReads, loading,
                 loadError, renameValue, saveError, mixed, typed>>

Coordinator ==
  \/ \E v \in 0..1 : \/ handleFieldChange("spec", v)
                     \/ handleSelectModel(v)
  \/ \E v \in 0..Blank : handleFieldChange("name", v) \/ finishDroneRename(v)
  \/ startDroneRename
  \/ \E id \in Drones : handleSelectDrone(id)
  \/ handleBackToList
  \/ handleDuplicate

Answers ==
  \/ AutosaveFires
  \/ \E id \in droneReads : DroneRead(id) \/ DroneUnread(id)
  \/ \E s \in saves : SaveServed(s) \/ SaveRefused(s)
  \/ DroneAdded
  \/ DroneNotAdded

Init ==
  /\ storedDrone = [d \in AllDrones |-> [name |-> 0, spec |-> 0, model |-> 0]]
  /\ droneAt \in Drones
  /\ drone = [id |-> NoDrone, data |-> storedDrone[droneAt]] /\ formData = NoForm
  /\ autosaveTimer = NoTimer /\ saves = {}
  /\ droneReads = {droneAt} /\ loading = TRUE /\ loadError = FALSE
  /\ copying = "no" /\ renameValue = Blank + 1 /\ saveError = FALSE
  /\ mixed = FALSE /\ typed = 0

Next ==
  \/ Coordinator
  \/ Answers

-----------------------------------------------------------------------------
(* Properties *)

\* A profile is saved with its own values: neither a timer nor the page that stays mounted writes
\* the fields read from one profile into another.
SavedToItself ==
  ~mixed => /\ \A s \in saves : s.of = s.id
            /\ autosaveTimer.form.of = autosaveTimer.id

\* When nothing is scheduled or under way and no failure is shown, the fields on the page are the
\* server's: no edit is left behind by the timer that the next one replaced.
SettledIsStored ==
  Editable /\ ~mixed /\ autosaveTimer = NoTimer /\ saves = {} /\ ~saveError /\ formData.name # Blank
    => formData = droneToForm(storedDrone[droneAt], droneAt)

\* Opening another profile takes the edit along: one that waited for its timer is sent, or was
\* the server's already.
EditTaken ==
  droneAt' \in Drones /\ droneAt' # droneAt /\ autosaveTimer # NoTimer /\ formData.name # Blank =>
    \/ ~Dirty(formData)
    \/ [id |-> droneAt, patch |-> formToPayload(formData), of |-> formData.of] \in saves'
EditsTaken == [][EditTaken]_droneVars
=============================================================================
