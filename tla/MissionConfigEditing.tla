------------------------- MODULE MissionConfigEditing -------------------------
(***************************************************************************)
(* The configuration page of one mission                                   *)
(* (frontend/src/pages/operator-center/MissionConfigPage.tsx with the      *)
(* hooks useMissionSave, useInspectionEditing and                          *)
(* MissionConfigForm).  Fields of the mission and configurations of        *)
(* inspections are edited in the browser and saved together, request by    *)
(* request; inspections are added, changed and removed on the server at    *)
(* once.  The coordinates stand for all the fields of the mission, the     *)
(* selection of light units for all a configuration holds.  A step of a    *)
(* request is the server's work and what the page does with its answer; an *)
(* answer can be lost after the work is done.                              *)
(***************************************************************************)
EXTENDS Integers, FiniteSets

CONSTANTS
  Inspections,   \* inspection ids the server hands out
  Fields,        \* fields of the mission
  Points,        \* values of a field
  NoPoint,       \* a field that is not set
  MaxOps,        \* bound: requests of the page under way
  MAX_INSPECTIONS

ConfigAssumption ==
  /\ NoPoint \notin Points /\ MaxOps \in Nat /\ MAX_INSPECTIONS \in Nat
  /\ Fields \cap Inspections = {}

VARIABLES
  storedFields,     \* the server's mission: its fields
  storedConfigs,    \* its inspections with their selections
  shown,            \* mission.inspections, as the page has them
  missionDirty,     \* fields changed and not saved
  inspectionDirty,  \* configurations changed and not saved
  selectedLhas,     \* the selection shown for an inspection
  ops,              \* requests under way
  wanted,           \* history: what the operator entered last, per field or inspection
  raced             \* history: fields and inspections edited while a save ran, and
                    \* inspections edited while they were being added

server  == <<storedFields, storedConfigs>>
edits   == <<missionDirty, inspectionDirty, selectedLhas>>
history == <<wanted, raced>>
configVars == <<server, shown, edits, ops, history>>

Values     == Points \cup {NoPoint}
Selections == {"all", "none"}
Kinds      == {"save", "add", "change", "remove"}

Partial(S, T) == UNION {[D -> T] : D \in SUBSET S}

\* Inspections whose light units the operator deselected last.
Emptied == {i \in DOMAIN wanted \cap Inspections : wanted[i] = "none"}

Nothing == [x \in {} |-> 0]

\* Function f over function g, with value v for x, and without x.
Over(f, g) == [x \in DOMAIN f \cup DOMAIN g |-> IF x \in DOMAIN f THEN f[x] ELSE g[x]]
With(f, x, v) == [y \in DOMAIN f \cup {x} |-> IF y = x THEN v ELSE f[y]]
Without(f, x) == [y \in DOMAIN f \ {x} |-> f[y]]

\* A request: what it carries of the edits, what failed of it, and its next step.
Op == [kind : Kinds, inspection : Inspections \cup {NoPoint},
       fields : Partial(Fields, Values), todo : Partial(Inspections, Selections),
       failed : Partial(Inspections, Selections),
       step : {"fields", "inspections", "send", "lhas", "read"}]

\* Every variable of the page and of the server's mission stays in its range.
TypeOK ==
  /\ storedFields \in [Fields -> Values]
  /\ storedConfigs \in Partial(Inspections, Selections)
  /\ shown \subseteq Inspections
  /\ missionDirty \in Partial(Fields, Values)
  /\ inspectionDirty \in Partial(Inspections, Selections)
  /\ selectedLhas \in Partial(Inspections, Selections)
  /\ ops \subseteq Op /\ Cardinality(ops) <= MaxOps
  /\ wanted \in Partial(Fields \cup Inspections, Values \cup Selections)
  /\ raced \subseteq Fields \cup Inspections

\* fetchData has filled the page; the round trip is derived from the coordinates.
Init ==
  /\ storedFields \in [Fields -> Values]
  /\ storedConfigs \in {Nothing} \cup UNION {[{i} -> {"all"}] : i \in Inspections}
  /\ shown = DOMAIN storedConfigs
  /\ missionDirty = Nothing /\ inspectionDirty = Nothing
  /\ selectedLhas = storedConfigs
  /\ ops = {}
  /\ wanted = Nothing /\ raced = {}

-----------------------------------------------------------------------------
(* Edits in the browser *)

Saving == \E o \in ops : o.kind = "save"

Note(keys) == raced' = IF Saving THEN raced \cup keys ELSE raced \ keys

handleMissionChange(field, value) ==
  /\ missionDirty' = With(missionDirty, field, value)
  /\ wanted' = With(wanted, field, value)
  /\ Note({field})
  /\ UNCHANGED <<server, shown, inspectionDirty, selectedLhas, ops>>

\* An input of the mission's form.
FieldInput(field, value) ==
  /\ handleMissionChange(field, value)

\* Mutant of handleToggleLha: the selection is shown and not sent.
handleToggleLha_local(i, s) ==
  /\ i \in shown
  /\ selectedLhas' = With(selectedLhas, i, s)
  /\ UNCHANGED <<server, shown, missionDirty, inspectionDirty, ops, history>>

\* A change of an inspection's form or of its selection of light units.
handleToggleLha(i, s) ==
  /\ i \in shown
  /\ selectedLhas' = With(selectedLhas, i, s)
  /\ inspectionDirty' = With(inspectionDirty, i, s)
  /\ wanted' = With(wanted, i, s)
  /\ Note({i})
  /\ UNCHANGED <<server, shown, missionDirty, ops>>

\* "Discard changes" of the dialog: the edits are dropped and the page is left.
confirmDiscard ==
  /\ missionDirty # Nothing \/ inspectionDirty # Nothing
  /\ ops = {}
  /\ missionDirty' = Nothing /\ inspectionDirty' = Nothing
  /\ selectedLhas' = storedConfigs
  /\ shown' = DOMAIN storedConfigs
  /\ wanted' = Nothing /\ raced' = {}
  /\ UNCHANGED <<server, ops>>

\* The page is read again when the details of the airport arrive or the language
\* changes.  An unsaved selection is kept on the page, unless it is empty.
restoreLhaSelections ==
  LET kept == {i \in DOMAIN inspectionDirty : inspectionDirty[i] = "all"}
      listed == {i \in DOMAIN storedConfigs : i \in kept \/ storedConfigs[i] = "all"}
  IN  Over([i \in listed |-> "all"], selectedLhas)

\* Mutant of fetchData: the selections are the server's.
fetchData_server ==
  /\ shown' = DOMAIN storedConfigs
  /\ selectedLhas' = Over(storedConfigs, selectedLhas)
  /\ UNCHANGED <<server, missionDirty, inspectionDirty, ops, history>>

fetchData ==
  /\ shown' = DOMAIN storedConfigs
  /\ selectedLhas' = restoreLhaSelections
  /\ UNCHANGED <<server, missionDirty, inspectionDirty, ops, history>>

-----------------------------------------------------------------------------
(* Requests: a click sends the first, the answer sends the next *)

Send(op) ==
  /\ Cardinality(ops) < MaxOps
  /\ op \notin ops
  /\ ops' = ops \cup {op}
  /\ UNCHANGED <<server, shown, edits, history>>

Request(kind, i) ==
  [kind |-> kind, inspection |-> i, fields |-> Nothing, todo |-> Nothing,
   failed |-> Nothing, step |-> "send"]

Continue(o, step) == ops' = (ops \ {o}) \cup {[o EXCEPT !.step = step]}

\* The last request of an operation failed and the operator is told.
GiveUp(o) == ops' = ops \ {o} /\ UNCHANGED <<server, shown, edits, history>>

\* The save button: enabled for edits, and while no save runs.
handleSave ==
  /\ ~Saving
  /\ missionDirty # Nothing \/ inspectionDirty # Nothing
  /\ Send([Request("save", NoPoint) EXCEPT
             !.fields = missionDirty, !.todo = inspectionDirty,
             !.step = IF missionDirty = Nothing THEN "inspections" ELSE "fields"])

\* PUT of the mission; only its answer clears the fields.
SaveFields(o) ==
  /\ o.step = "fields"
  /\ \/
        /\ storedFields' = Over(o.fields, storedFields)
        /\ \/ missionDirty' = Nothing /\ Continue(o, "inspections")
           \/ UNCHANGED missionDirty /\ ops' = ops \ {o}
        /\ UNCHANGED <<storedConfigs, shown, inspectionDirty, selectedLhas, history>>
     \/ GiveUp(o)

\* PUT of one inspection; the failed ones stay with the operation.
SaveInspection(o) ==
  /\ o.step = "inspections"
  /\ \E i \in DOMAIN o.todo :
       LET rest == [o EXCEPT !.todo = Without(o.todo, i)]
           kept == [rest EXCEPT !.failed = With(o.failed, i, o.todo[i])]
       IN  \/ /\ i \in DOMAIN storedConfigs
              /\ storedConfigs' = With(storedConfigs, i, o.todo[i])
              /\ \/ ops' = (ops \ {o}) \cup {rest}
                 \/ ops' = (ops \ {o}) \cup {kept}
              /\ UNCHANGED storedFields
           \/ ops' = (ops \ {o}) \cup {kept} /\ UNCHANGED server
  /\ UNCHANGED <<shown, edits, history>>

\* Mutant of SavedInspections: what failed is dropped with what was saved.
SavedInspections_dropped(o) ==
  /\ o.step = "inspections" /\ o.todo = Nothing
  /\ inspectionDirty' = Nothing
  /\ Continue(o, "read")
  /\ UNCHANGED <<server, shown, missionDirty, selectedLhas, history>>

\* All inspections were sent: what failed is what remains unsaved.
SavedInspections(o) ==
  /\ o.step = "inspections" /\ o.todo = Nothing
  /\ inspectionDirty' = o.failed
  /\ Continue(o, "read")
  /\ UNCHANGED <<server, shown, missionDirty, selectedLhas, history>>

\* GET of the mission, the last request of every operation.
updateMissionState(o) ==
  /\ o.step = "read"
  /\ \/ /\ shown' = DOMAIN storedConfigs
        /\ IF o.kind = "add" THEN Continue(o, "lhas") ELSE ops' = ops \ {o}
        /\ UNCHANGED <<server, edits, history>>
     \/ GiveUp(o)

\* Bound: no second addition meanwhile, which would take the newest inspection
\* of all for its own.
handleAddInspection ==
  /\ \A o \in ops : o.kind # "add"
  /\ Cardinality(shown) < MAX_INSPECTIONS
  /\ Send(Request("add", NoPoint))

handleRemoveInspection(i) ==
  /\ i \in shown
  /\ Send(Request("remove", i))

\* Another method or order, or a finished computation: the mission is read again.
handleChange == Send(Request("change", NoPoint))

\* POST of an inspection: the server appends it within its own limit.
AddServed(o) ==
  /\ o.step = "send" /\ o.kind = "add"
  /\ \/ /\ Cardinality(DOMAIN storedConfigs) < MAX_INSPECTIONS
        /\ \E i \in Inspections \ (DOMAIN storedConfigs \cup DOMAIN selectedLhas) :
             /\ storedConfigs' = With(storedConfigs, i, "none")
             /\ \/ ops' = (ops \ {o}) \cup {[o EXCEPT !.inspection = i, !.step = "read"]}
                \/ ops' = ops \ {o}
        /\ UNCHANGED <<storedFields, shown, edits, history>>
     \/ GiveUp(o)

\* The new inspection gets all light units of its template, on the server and on
\* the page, on the page even if the server fails.
AddSelects(o) ==
  /\ o.step = "lhas"
  /\ \/ /\ o.inspection \in DOMAIN storedConfigs
        /\ storedConfigs' = With(storedConfigs, o.inspection, "all")
        /\ raced' = raced \cup ({o.inspection} \cap DOMAIN wanted)
        /\ UNCHANGED storedFields
     \/ /\ raced' = raced \cup {o.inspection}
        /\ UNCHANGED server
  /\ selectedLhas' = With(selectedLhas, o.inspection, "all")
  /\ ops' = ops \ {o}
  /\ UNCHANGED <<shown, missionDirty, inspectionDirty, wanted>>

\* DELETE of an inspection; its answer takes its edits away.
RemoveServed(o) ==
  /\ o.step = "send" /\ o.kind = "remove"
  /\ \/ /\ o.inspection \in DOMAIN storedConfigs
        /\ storedConfigs' = Without(storedConfigs, o.inspection)
        /\ \/ /\ inspectionDirty' = Without(inspectionDirty, o.inspection)
              /\ Continue(o, "read")
           \/ UNCHANGED inspectionDirty /\ ops' = ops \ {o}
        /\ wanted' = Without(wanted, o.inspection)
        /\ UNCHANGED <<storedFields, shown, missionDirty, selectedLhas, raced>>
     \/ GiveUp(o)

\* PUT of a method or of the order: what is edited here stays.
ChangeServed(o) ==
  /\ o.step = "send" /\ o.kind = "change"
  /\ \/ Continue(o, "read") /\ UNCHANGED <<server, shown, edits, history>>
     \/ GiveUp(o)

Edit ==
  \/ \E f \in Fields, v \in Values : FieldInput(f, v)
  \/ \E i \in Inspections, s \in Selections : handleToggleLha(i, s)
  \/ confirmDiscard
  \/ fetchData

Click ==
  \/ handleSave
  \/ handleAddInspection
  \/ \E i \in Inspections : handleRemoveInspection(i)
  \/ handleChange

Step(o) ==
  \/ SaveFields(o)
  \/ SaveInspection(o)
  \/ SavedInspections(o)
  \/ AddServed(o)
  \/ AddSelects(o)
  \/ RemoveServed(o)
  \/ ChangeServed(o)
  \/ updateMissionState(o)

Next == Edit \/ Click \/ \E o \in ops : Step(o)

Spec == Init /\ [][Next]_configVars

-----------------------------------------------------------------------------
(* Properties *)

\* What the operator entered last is unsaved or stored, whatever part of a save
\* fails and whichever answer is lost; left out is what was entered while a save
\* ran, which its end drops, and for an inspection that was being added, whose
\* default selection replaces what has been saved meanwhile.
EditsKept ==
  \A k \in DOMAIN wanted \ raced :
    IF k \in Fields THEN Over(missionDirty, storedFields)[k] = wanted[k]
    ELSE k \in DOMAIN storedConfigs => Over(inspectionDirty, storedConfigs)[k] = wanted[k]

\* The selection on the page is the unsaved one or the server's, but for
\* selections changed while a save or an addition ran, or failed (lhaSaveError),
\* and for an empty one, which a new reading of the page does not keep.
SelectionIsReal ==
  \A i \in DOMAIN selectedLhas \ raced :
    i \in DOMAIN storedConfigs /\ i \notin Emptied =>
      selectedLhas[i] = Over(inspectionDirty, storedConfigs)[i]

\* useInspectionEditing.ts:100 says: "restore LHA selections - prefer dirty
\* (unsaved) over backend".  An unsaved selection that is empty is shown as the
\* backend's, and still saved as empty.
UnsavedSelectionShown ==
  \A i \in (DOMAIN inspectionDirty \cap DOMAIN selectedLhas) \ raced :
    selectedLhas[i] = inspectionDirty[i]
=============================================================================
