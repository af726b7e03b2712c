----------------------------- MODULE AirportEditor -----------------------------
(***************************************************************************)
(* The editor in which a coordinator changes the infrastructure of an      *)
(* airport (pages/coordinator-center/AirportEditPage of frontend/src).     *)
(* Edits are collected with a history and sent together when Save is       *)
(* pressed; a deletion or a pairing is sent at once.  Each is followed by  *)
(* reading the airport again, and their answers may overtake one another.  *)
(* A patch of fields is one number, the number of the edit that made it.   *)
(***************************************************************************)
EXTENDS Naturals, Sequences, FiniteSets, SequencesExt

CONSTANTS
  Shapes,        \* runways: the surfaces one can pick points for and pair
  Units,         \* light units
  parentOf,      \* the surface whose light system a unit belongs to
  NoFeature,
  Inventories,   \* the airports that are explored, by their features
  historyLimit,  \* the MAX_HISTORY each is explored with, 20 in the code
  MaxVersion,    \* bound: edits and pairings
  MaxAttempts,   \* bound: times Save is pressed
  MaxDisturbed   \* bound: acts of the operator while a request is under way, and failures

EditorAssumption ==
  /\ parentOf \in [Units -> Shapes] /\ IsFiniteSet(Units)
  /\ Inventories \subseteq SUBSET (Shapes \cup Units)
  /\ NoFeature \notin Shapes \cup Units
  /\ historyLimit \in [Inventories -> Nat \ {0}] /\ MaxVersion \in Nat \ {0}
  /\ MaxAttempts \in Nat /\ MaxDisturbed \in Nat

VARIABLES
  stored,       \* the server's version of each feature; Gone when deleted
  airport,      \* the page's
  pageError,    \* the error page is shown
  changes,      \* pending: the version each changed feature is to have
  maxHistory,
  past, future, \* the steps that can be undone and redone
  selected, selectedData,  \* the feature in the panel and its version when it was selected
  version,      \* the number of the last edit
  saving,       \* the attempt to save under way, or 0
  attempts, savedSelection,
  updates,      \* the updates sent: chains of which the first waits for its answer
  fetches,      \* the readings of the airport under way
  deleting, pairing,
  picking,
  wanted,       \* history: the version the operator gave each feature last
  truncated,    \* history: a step fell off the past
  pickedFor, strayPick, \* history: the surface a pick was started for, and if it went elsewhere
  disturbed     \* history: how often the operator acted while a request was under way, or one
                \* failed or came late

editorVars == <<stored, airport, pageError, changes, maxHistory, past, future, selected,
                selectedData, version, saving, attempts, savedSelection, updates, fetches, deleting,
                pairing, picking, wanted, truncated, pickedFor, strayPick, disturbed>>

Features == Shapes \cup Units

Gone == 0

Versions == 1..MaxVersion

Snapshot == [Features -> 0..MaxVersion]

NoSnapshot == [f \in Features |-> Gone]

HistoryEntry == [key : Features, prevEntry : 0..MaxVersion, nextEntry : Versions]

Update == [by : 1..MaxAttempts, chain : Seq([on : Features, data : Versions])]

Fetch == [for : {"save", "delete", "pair", "retry"}, keep : Features \cup {NoFeature},
          read : BOOLEAN, outdated : BOOLEAN, found : Snapshot]

\* Every variable of the editor and of the server stays in its range.
TypeOK ==
  /\ stored \in Snapshot /\ airport \in Snapshot
  /\ pageError \in BOOLEAN
  /\ DOMAIN changes \subseteq Features /\ \A f \in DOMAIN changes : changes[f] \in Versions
  /\ past \in Seq(HistoryEntry) /\ future \in Seq(HistoryEntry)
  /\ maxHistory \in Range(historyLimit) /\ Len(past) <= maxHistory /\ Len(future) <= maxHistory
  /\ selected \in Features \cup {NoFeature} /\ selectedData \in 0..MaxVersion
  /\ version \in Versions
  /\ saving \in 0..attempts /\ attempts \in 0..MaxAttempts
  /\ savedSelection \in Features \cup {NoFeature}
  /\ updates \subseteq Update
  /\ fetches \subseteq Fetch
  /\ deleting \in {"none", "sent", "served"} \X (Features \cup {NoFeature}) \X BOOLEAN
  /\ pairing \in SUBSET Shapes
  /\ picking \in BOOLEAN
  /\ wanted \in Snapshot /\ pickedFor \in Shapes \cup {NoFeature}
  /\ truncated \in BOOLEAN /\ strayPick \in BOOLEAN /\ disturbed \in Nat

NoDeletion == <<"none", NoFeature, FALSE>>

Init ==
  /\ \E i \in Inventories : /\ stored = [f \in Features |-> IF f \in i THEN 1 ELSE Gone]
                            /\ maxHistory = historyLimit[i]
  /\ airport = stored
  /\ pageError = FALSE
  /\ changes = <<>> /\ past = <<>> /\ future = <<>>
  /\ selected = NoFeature /\ selectedData = 1
  /\ version = 1
  /\ saving = 0 /\ attempts = 0 /\ savedSelection = NoFeature
  /\ updates = {} /\ fetches = {} /\ deleting = NoDeletion /\ pairing = {}
  /\ picking = FALSE
  /\ wanted = stored
  /\ truncated = FALSE /\ pickedFor = NoFeature /\ strayPick = FALSE /\ disturbed = 0

-----------------------------------------------------------------------------
(* Parts of the actions *)

Busy == saving # 0 \/ updates # {} \/ fetches # {} \/ deleting # NoDeletion \/ pairing # {}

\* The operator acts: the page must be there to act on.
Acts ==
  /\ ~pageError
  /\ \/ ~Busy /\ UNCHANGED disturbed
     \/ Busy /\ disturbed < MaxDisturbed /\ disturbed' = disturbed + 1

Fails == disturbed < MaxDisturbed /\ disturbed' = disturbed + 1

serverVars  == <<stored, airport, pageError, fetches>>
historyVars == <<changes, past, future, truncated>>
saveVars    == <<saving, attempts, savedSelection, updates>>
pickVars    == <<picking, pickedFor, strayPick>>

Pending(f) == f \in DOMAIN changes

\* The entry of a feature in the pending changes, or Gone when it has none.
Entry(c, f) == IF f \in DOMAIN c THEN c[f] ELSE Gone

With(c, f, v) ==
  IF v = Gone THEN [g \in DOMAIN c \ {f} |-> c[g]]
  ELSE [g \in DOMAIN c \cup {f} |-> IF g = f THEN v ELSE c[g]]

\* Mutant of Recent: the history grows without end.
Recent_all(s) == s

\* The last steps, as many as are kept.
Recent(s) == IF Len(s) > maxHistory THEN Tail(s) ELSE s

\* Selecting another feature ends a pick, unless that one is a surface too.
Select(f, data) ==
  /\ selected' = f /\ selectedData' = data
  /\ picking' = (picking /\ f \in Shapes)
  /\ UNCHANGED <<pickedFor, strayPick>>

AskAirport(for, keep) ==
  /\ Cardinality(fetches) < 2
  /\ fetches' = fetches \cup {[for |-> for, keep |-> keep, read |-> FALSE, outdated |-> FALSE,
                              found |-> NoSnapshot]}

-----------------------------------------------------------------------------
(* Edits and their history *)

\* Mutant of markDirty: the steps undone before stay in the future.
markDirty_future(f, v) ==
  /\ changes' = With(changes, f, v)
  /\ past' = Recent(Append(past, [key |-> f, prevEntry |-> Entry(changes, f), nextEntry |-> v]))
  /\ truncated' = (truncated \/ Len(past) = maxHistory)
  /\ UNCHANGED future

markDirty(f, v) ==
  /\ changes' = With(changes, f, v)
  /\ past' = Recent(Append(past, [key |-> f, prevEntry |-> Entry(changes, f), nextEntry |-> v]))
  /\ truncated' = (truncated \/ Len(past) = maxHistory)
  /\ future' = <<>>

Edit(f) ==
  /\ version < MaxVersion
  /\ version' = version + 1
  /\ markDirty(f, version')
  /\ wanted' = [wanted EXCEPT ![f] = version']

\* A field, a corner, or a geometry given as text, of the feature in the panel.
handleFeatureUpdate ==
  /\ selected # NoFeature
  /\ Edit(selected) /\ Acts
  /\ UNCHANGED <<serverVars, saveVars, pickVars, selected, selectedData, deleting, pairing>>

\* A light is dragged on the map, selected or not.
handleInfraPointDrag ==
  \E u \in Units :
    /\ airport[u] # Gone
    /\ Edit(u) /\ Acts
    /\ UNCHANGED <<serverVars, saveVars, pickVars, selected, selectedData, deleting, pairing>>

\* What the operator sees of a feature with pending changes c.
Shown(c, f) == IF f \in DOMAIN c THEN c[f] ELSE airport[f]

\* Mutant of undo: the change is dropped even when an earlier one was pending.
undo_drops ==
  LET t == Last(past)
      c == With(changes, t.key, Gone)
  IN  /\ past # <<>>
      /\ changes' = c
      /\ past' = Front(past) /\ future' = <<t>> \o future
      /\ wanted' = [wanted EXCEPT ![t.key] = Shown(c, t.key)]
      /\ UNCHANGED truncated

undo ==
  LET t == Last(past)
      c == With(changes, t.key, t.prevEntry)
  IN  /\ past # <<>>
      /\ changes' = c
      /\ past' = Front(past) /\ future' = SubSeq(<<t>> \o future, 1, Len(future) + 1)
      /\ wanted' = [wanted EXCEPT ![t.key] = Shown(c, t.key)]
      /\ UNCHANGED truncated

redo ==
  LET t == Head(future)
      c == With(changes, t.key, t.nextEntry)
  IN  /\ future # <<>>
      /\ changes' = c
      /\ past' = Recent(Append(past, t)) /\ future' = Tail(future)
      /\ truncated' = (truncated \/ Len(past) = maxHistory)
      /\ wanted' = [wanted EXCEPT ![t.key] = Shown(c, t.key)]

handleUndoRedo ==
  /\ undo \/ redo
  /\ Acts
  /\ UNCHANGED <<serverVars, saveVars, pickVars, selected, selectedData, deleting, pairing,
                 version>>

clearAll ==
  /\ changes' = <<>> /\ past' = <<>> /\ future' = <<>> /\ truncated' = FALSE

-----------------------------------------------------------------------------
(* The panel of the selected feature *)

\* Mutant of handleFeatureClick: it selects while a point is picked, too.
handleFeatureClick_picking ==
  /\ \/ \E f \in Features : airport[f] # Gone /\ f # selected /\ Select(f, airport[f])
     \/ selected # NoFeature /\ Select(NoFeature, selectedData)
  /\ Acts
  /\ UNCHANGED <<serverVars, saveVars, historyVars, version, wanted, deleting, pairing>>

\* Clicks on the map or in the lists select, except while a point is picked.
handleFeatureClick ==
  /\ ~picking
  /\ \/ \E f \in Features : airport[f] # Gone /\ f # selected /\ Select(f, airport[f])
     \/ selected # NoFeature /\ Select(NoFeature, selectedData)
  /\ Acts
  /\ UNCHANGED <<serverVars, saveVars, historyVars, version, wanted, deleting, pairing>>

\* Escape, also while a point is picked.
handleEscape ==
  /\ selected # NoFeature
  /\ Select(NoFeature, selectedData) /\ Acts
  /\ UNCHANGED <<serverVars, saveVars, historyVars, version, wanted, deleting, pairing>>

onPickToggle ==
  /\ selected \in Shapes
  /\ picking' = ~picking /\ pickedFor' = IF picking THEN NoFeature ELSE selected
  /\ Acts
  /\ UNCHANGED <<serverVars, saveVars, historyVars, version, wanted, deleting, pairing, selected,
                 selectedData, strayPick>>

\* A click on the map gives the point to the surface in the panel.
handlePickingMapClick ==
  /\ picking /\ selected \in Shapes
  /\ Edit(selected)
  /\ picking' = FALSE /\ pickedFor' = NoFeature
  /\ strayPick' = (strayPick \/ selected # pickedFor)
  /\ Acts
  /\ UNCHANGED <<serverVars, saveVars, selected, selectedData, deleting, pairing>>

-----------------------------------------------------------------------------
(* Saving *)

\* The units of one light system, in the order of their places.
Chains(c) ==
  { [by |-> attempts + 1, chain |-> <<[on |-> f, data |-> c[f]]>>] : f \in DOMAIN c \cap Shapes }
  \cup
  { [by |-> attempts + 1, chain |-> [n \in 1..Len(s) |-> [on |-> s[n], data |-> c[s[n]]]]] :
      s \in { SetToSeq({u \in DOMAIN c \cap Units : parentOf[u] = p /\ airport[u] # Gone}) :
                p \in {parentOf[u] : u \in {v \in DOMAIN c \cap Units : airport[v] # Gone}} } }

\* Everything pending is sent; a unit the page does not know is left out.
handleSave ==
  /\ changes # <<>> /\ saving = 0 /\ attempts < MaxAttempts
  /\ attempts' = attempts + 1 /\ saving' = attempts + 1
  /\ savedSelection' = selected
  /\ updates' = updates \cup Chains(changes)
  /\ Acts
  /\ UNCHANGED <<serverVars, historyVars, pickVars, version, wanted, deleting, pairing, selected,
                 selectedData>>

\* Mutant of UpdateServed: the answer to one unit is taken for the whole chain.
UpdateServed_one(u) ==
  /\ stored[Head(u.chain).on] # Gone
  /\ stored' = [stored EXCEPT ![Head(u.chain).on] = Head(u.chain).data]
  /\ updates' = updates \ {u}
  /\ UNCHANGED <<airport, pageError, fetches, historyVars, pickVars, version, wanted,
                 deleting, pairing, selected, selectedData, saving, attempts,
                 savedSelection, disturbed>>

UpdateServed(u) ==
  /\ stored[Head(u.chain).on] # Gone
  /\ stored' = [stored EXCEPT ![Head(u.chain).on] = Head(u.chain).data]
  /\ updates' = (updates \ {u}) \cup
                (IF Len(u.chain) = 1 THEN {} ELSE {[u EXCEPT !.chain = Tail(@)]})
  /\ UNCHANGED <<airport, pageError, fetches, historyVars, pickVars, version, wanted,
                 deleting, pairing, selected, selectedData, saving, attempts,
                 savedSelection, disturbed>>

\* One update is refused, surely that of a feature that was deleted: the save has failed,
\* while the other updates go on.
UpdateRefused(u) ==
  /\ updates' = updates \ {u}
  /\ saving' = IF saving = u.by THEN 0 ELSE saving
  /\ \/ stored[Head(u.chain).on] = Gone /\ disturbed' = disturbed + 1
     \/ stored[Head(u.chain).on] # Gone /\ Fails
  /\ UNCHANGED <<serverVars, historyVars, pickVars, version, wanted, deleting, pairing, selected,
                 selectedData, attempts, savedSelection>>

\* All updates are answered: nothing is pending any more, whatever came in since.
SaveAccepted ==
  /\ saving # 0 /\ ~\E u \in updates : u.by = saving
  /\ ~\E g \in fetches : g.for = "save"
  /\ clearAll
  /\ AskAirport("save", savedSelection)
  /\ UNCHANGED <<stored, airport, pageError, pickVars, version, wanted, deleting,
                 pairing, selected, selectedData, saveVars, disturbed>>

-----------------------------------------------------------------------------
(* Deleting and pairing *)

\* From the panel, or from the lists on the left.
onDelete ==
  \E f \in Features :
    /\ deleting = NoDeletion /\ airport[f] # Gone
    /\ \E panel \in {f = selected, FALSE} : deleting' = <<"sent", f, panel>>
    /\ Acts
    /\ UNCHANGED <<serverVars, saveVars, historyVars, pickVars, version, wanted, pairing, selected,
                   selectedData>>

\* Mutant of DeleteServed: the airport is not read again.
DeleteServed_unread ==
  LET f == deleting[2]
  IN  /\ deleting[1] = "sent" /\ stored[f] # Gone
      /\ stored' = [g \in Features |-> IF g = f \/ (g \in Units /\ f \in Shapes /\ parentOf[g] = f)
                                       THEN Gone ELSE stored[g]]
      /\ deleting' = NoDeletion
      /\ UNCHANGED <<airport, pageError, saveVars, historyVars, pickVars, version, wanted,
                     pairing, selected, selectedData, disturbed, fetches>>

\* A surface is deleted with the lights that belong to it.
DeleteServed ==
  LET f == deleting[2]
  IN  /\ deleting[1] = "sent" /\ stored[f] # Gone
      /\ stored' = [g \in Features |-> IF g = f \/ (g \in Units /\ f \in Shapes /\ parentOf[g] = f)
                                       THEN Gone ELSE stored[g]]
      /\ deleting' = [deleting EXCEPT ![1] = "served"]
      /\ AskAirport("delete", f)
      /\ UNCHANGED <<airport, pageError, saveVars, historyVars, pickVars, version, wanted,
                     pairing, selected, selectedData, disturbed>>

\* The refusal for a unit is told in its panel; for a surface the panel closes all the same.
DeleteRefused ==
  /\ deleting[1] = "sent"
  /\ deleting' = NoDeletion
  /\ IF deleting[3] /\ deleting[2] \in Shapes THEN Select(NoFeature, selectedData)
     ELSE UNCHANGED <<pickVars, selected, selectedData>>
  /\ UNCHANGED <<serverVars, saveVars, historyVars, version, wanted, pairing, disturbed>>

\* Two surfaces are paired, and both changed by that; the panel is of one of them.
onPair ==
  \E p, q \in Shapes :
    /\ p # q /\ pairing = {} /\ selected = p
    /\ airport[p] # Gone /\ airport[q] # Gone
    /\ pairing' = {p, q}
    /\ Acts
    /\ UNCHANGED <<serverVars, saveVars, historyVars, pickVars, version, wanted, deleting, selected,
                   selectedData>>

PairAnswered ==
  \/ /\ pairing # {} /\ version < MaxVersion /\ \A p \in pairing : stored[p] # Gone
     /\ ~\E g \in fetches : g.for = "pair"
     /\ version' = version + 1
     /\ stored' = [f \in Features |-> IF f \in pairing THEN version' ELSE stored[f]]
     /\ wanted' = [f \in Features |-> IF f \in pairing /\ ~Pending(f) THEN version' ELSE wanted[f]]
     /\ pairing' = {}
     /\ AskAirport("pair", selected)
     /\ UNCHANGED <<airport, pageError, saveVars, historyVars, pickVars, deleting,
                    selected, selectedData, disturbed>>
  \/ /\ pairing # {}
     /\ pairing' = {}
     /\ UNCHANGED <<serverVars, saveVars, historyVars, pickVars, version, wanted, deleting,
                    selected, selectedData, disturbed>>

-----------------------------------------------------------------------------
(* Reading the airport *)

FetchServed ==
  \E g \in fetches :
    /\ ~g.read
    /\ fetches' = {[h EXCEPT !.outdated = h.read] : h \in fetches \ {g}} \cup
                  {[g EXCEPT !.read = TRUE, !.found = stored]}
    /\ UNCHANGED <<stored, airport, pageError, saveVars, historyVars, pickVars, version, wanted,
                   deleting, pairing, selected, selectedData, disturbed>>

\* Mutant of Continue: a save ends without selecting anew.
Continue_unselected(g, answered) ==
  /\ saving' = IF g.for = "save" THEN 0 ELSE saving
  /\ deleting' = IF g.for = "delete" THEN NoDeletion ELSE deleting
  /\ IF g.for = "delete" /\ deleting[3] THEN Select(NoFeature, selectedData)
     ELSE UNCHANGED <<pickVars, selected, selectedData>>

\* What follows the reading: a save ends and selects what was selected when it began, a
\* deletion closes the panel, a pairing shows its surface anew.
Continue(g, answered) ==
  /\ saving' = IF g.for = "save" THEN 0 ELSE saving
  /\ deleting' = IF g.for = "delete" THEN NoDeletion ELSE deleting
  /\ CASE g.for = "save" /\ g.keep # NoFeature /\ answered ->
            IF g.found[g.keep] # Gone THEN Select(g.keep, g.found[g.keep])
            ELSE Select(NoFeature, selectedData)
       [] g.for = "delete" /\ deleting[3] -> Select(NoFeature, selectedData)
       [] g.for = "pair" /\ answered /\ g.keep \in Shapes /\ g.found[g.keep] # Gone ->
            Select(g.keep, g.found[g.keep])
       [] OTHER -> UNCHANGED <<pickVars, selected, selectedData>>

fetchAirport ==
  \E g \in fetches :
    /\ g.read
    /\ fetches' = fetches \ {g}
    /\ airport' = g.found
    /\ Continue(g, TRUE)
    /\ pageError' = FALSE
    /\ disturbed' = IF g.outdated /\ ~\E h \in fetches \ {g} : h.read THEN disturbed + 1
                    ELSE disturbed
    /\ UNCHANGED <<stored, historyVars, version, wanted, pairing, attempts, savedSelection,
                   updates>>

FetchFailed ==
  \E g \in fetches :
    /\ fetches' = fetches \ {g}
    /\ pageError' = TRUE
    /\ Fails
    /\ Continue(g, FALSE)
    /\ UNCHANGED <<stored, airport, historyVars, version, wanted, pairing, attempts,
                   savedSelection, updates>>

onRetry ==
  /\ pageError /\ ~\E g \in fetches : g.for = "retry"
  /\ AskAirport("retry", NoFeature)
  /\ pageError' = FALSE
  /\ UNCHANGED <<stored, airport, historyVars, version, wanted, deleting, pairing,
                 saveVars, pickVars, selected, selectedData, disturbed>>

Edits == handleFeatureUpdate \/ handleInfraPointDrag \/ handleUndoRedo

Panel == \/ handleFeatureClick \/ handleEscape \/ onPickToggle \/ handlePickingMapClick

Next ==
  /\ UNCHANGED maxHistory
  /\ \/ Edits \/ Panel
     \/ handleSave \/ (\E u \in updates : UpdateServed(u) \/ UpdateRefused(u)) \/ SaveAccepted
     \/ onDelete \/ DeleteServed \/ DeleteRefused \/ onPair \/ PairAnswered
     \/ FetchServed \/ fetchAirport \/ FetchFailed \/ onRetry

Spec == Init /\ [][Next]_editorVars

-----------------------------------------------------------------------------
(* Properties *)

\* What the operator sees of a feature is what he last gave it, pending or saved, as long
\* as he let every request end before he went on and none failed.
EditsShown ==
  disturbed = 0 /\ ~Busy /\ ~pageError =>
    \A f \in Features : airport[f] # Gone => Shown(changes, f) = wanted[f]

\* Then, too, the page and the panel show what the server has.
PageIsServers ==
  disturbed = 0 /\ ~Busy /\ ~pageError =>
    /\ airport = stored
    /\ selected # NoFeature /\ airport[selected] # Gone => selectedData = airport[selected]

\* What is pending once so many steps of the past are left and the others are undone.
Unwound[n \in 0..Len(past)] ==
  IF n = Len(past) THEN changes ELSE With(Unwound[n + 1], past[n + 1].key, past[n + 1].prevEntry)

\* The history fits the pending changes: every step that is undone is the one that is pending,
\* undoing all of them leaves nothing pending, and the next step to redo starts from what is.
HistoryUnwinds ==
  /\ \A n \in 1..Len(past) : Entry(Unwound[n], past[n].key) = past[n].nextEntry
  /\ truncated \/ Unwound[0] = <<>>
  /\ future # <<>> => Entry(changes, Head(future).key) = Head(future).prevEntry

\* A point is given to the surface for which picking it began, as long as the operator let
\* every save end first.
PickStays == strayPick => disturbed > 0
=============================================================================
