----------------------------- MODULE TemplateEditor -----------------------------
(***************************************************************************)
(* The page on which a coordinator edits an inspection template            *)
(* (hooks/useTemplateAutosave.ts of frontend/src).  An edit saves the      *)
(* whole form some time after the last one, saves may overlap, and the     *)
(* page stays mounted from one template to the next.  The light units of   *)
(* the airport arrive apart from the template and seed its selection until *)
(* the coordinator has made one.  "conf" stands for the parameters.        *)
(***************************************************************************)
EXTENDS Naturals, FiniteSets, TLC

CONSTANTS
  Templates, NewTemplate, NoTemplate,
  Agls, NoAgl, kindOf,   \* the systems of the airport, each of the kind its method inspects
  unitsOf,               \* the light units of each
  TemplateList,          \* the page of all templates
  MaxTemplateEdits       \* bound: what the coordinator does

Agnostic == "agnostic"   \* a method that needs no system

Methods == {Agnostic} \cup {kindOf[a] : a \in Agls}

TemplateAssumption ==
  /\ NewTemplate \notin Templates
  /\ {NoTemplate, TemplateList} \cap (Templates \cup {NewTemplate}) = {}
  /\ NoAgl \notin Agls /\ MaxTemplateEdits \in Nat
  /\ DOMAIN kindOf = Agls /\ DOMAIN unitsOf = Agls
  /\ \A a \in Agls : kindOf[a] # Agnostic

VARIABLES
  storedTemplate,  \* the server's, with the templates that do not exist absent
  templateAt,      \* the template in the address
  aglsLoaded,      \* whether the airport, with its systems, has arrived
  template,        \* the template in the page's memory
  edit,            \* what the page shows: editName, editMethod, selectedAglId, selectedLhaIds, ...
  userTouchedLha, seededTemplate,
  autosave,        \* whether a save is scheduled
  templateSaves,   \* updates sent and not answered
  templateReads,   \* readings under way, with whether the systems were there when they began
  templateLoading, templateError, templateSaveError,
  asking,          \* a deletion or a copy asked for
  crossed,         \* history: see Crossing
  clobbered,       \* history: whether a reading took away a selection made by hand
  templateEdits

templateVars == <<storedTemplate, templateAt, aglsLoaded, template, edit, userTouchedLha,
                  seededTemplate, autosave, templateSaves, templateReads, templateLoading,
                  templateError, templateSaveError, asking, crossed, clobbered, templateEdits>>

AllTemplates == Templates \cup {NewTemplate}

AllUnits == UNION {unitsOf[a] : a \in Agls}

Row == [name : 0..1, method : Methods, agl : Agls \cup {NoAgl}, conf : 0..1, lhas : SUBSET AllUnits]

Blank == [name |-> 0, method |-> Agnostic, agl |-> NoAgl, conf |-> 0, lhas |-> {}]

Absent == [Blank EXCEPT !.name = 2]

TypeOK ==
  /\ \A t \in AllTemplates : storedTemplate[t] \in Row \cup {Absent}
  /\ templateAt \in AllTemplates \cup {TemplateList} /\ aglsLoaded \in BOOLEAN
  /\ template.id \in AllTemplates \cup {NoTemplate} /\ template.row \in Row
  /\ edit.of \in AllTemplates \cup {NoTemplate} /\ edit.row \in Row
  /\ userTouchedLha \in BOOLEAN /\ seededTemplate \in AllTemplates \cup {NoTemplate}
  /\ autosave \in BOOLEAN
  /\ \A s \in templateSaves : s.id \in AllTemplates /\ s.of \in AllTemplates
                              /\ s.sent \in Row /\ s.named \in BOOLEAN
  /\ templateReads \subseteq AllTemplates \X BOOLEAN
  /\ templateLoading \in BOOLEAN /\ templateError \in BOOLEAN /\ templateSaveError \in BOOLEAN
  /\ asking.what \in {"nothing", "delete", "copy"} /\ asking.row \in Row
  /\ crossed \in BOOLEAN /\ clobbered \in BOOLEAN /\ templateEdits \in 0..MaxTemplateEdits

Compatible(row) == row.agl # NoAgl => row.method = kindOf[row.agl]

Editable ==
  templateAt # TemplateList /\ ~templateLoading /\ ~templateError /\ template.id # NoTemplate

Act == templateEdits < MaxTemplateEdits /\ templateEdits' = templateEdits + 1

-----------------------------------------------------------------------------
(* Reading *)

\* A selection that was saved is taken; else all units of the system are, where the method needs
\* one.  Otherwise the selection stays what it was.
Seed(row, known, kept) ==
  IF row.lhas # {} THEN row.lhas
  ELSE IF known /\ row.agl # NoAgl /\ row.method # Agnostic THEN unitsOf[row.agl]
  ELSE kept

\* The effect that seeds the selection when the template or the systems change.
Reseed(row, known, touched, kept) ==
  IF touched \/ ~known \/ row.agl = NoAgl THEN kept ELSE Seed(row, known, kept)

fetchData(t, known) ==
  /\ templateReads' = templateReads \cup {<<t, known>>}
  /\ templateLoading' = TRUE /\ templateError' = FALSE

\* The airport arrives: the template is read once more.
AirportLoaded ==
  /\ ~aglsLoaded /\ aglsLoaded' = TRUE
  /\ IF templateAt = TemplateList
     THEN UNCHANGED <<edit, templateReads, templateLoading, templateError>>
     ELSE /\ fetchData(templateAt, TRUE)
          /\ edit' = IF template.id = NoTemplate THEN edit
                     ELSE [edit EXCEPT !.row.lhas = Reseed(template.row, TRUE, userTouchedLha, @)]
  /\ UNCHANGED <<storedTemplate, templateAt, template, userTouchedLha, seededTemplate, autosave,
                 templateSaves, templateSaveError, asking, crossed, clobbered, templateEdits>>

\* Mutant: the form is filled by the first template only.
TemplateRead_once(r) ==
  LET row == storedTemplate[r[1]]
      touched == userTouchedLha /\ seededTemplate = r[1]
      first == Seed(row, r[2], edit.row.lhas)
  IN
  /\ r \in templateReads /\ row # Absent
  /\ templateReads' = templateReads \ {r} /\ templateLoading' = FALSE
  /\ IF templateAt = TemplateList
     THEN UNCHANGED <<template, edit, userTouchedLha, seededTemplate, crossed, clobbered>>
     ELSE /\ template' = [id |-> r[1], row |-> row]
          /\ seededTemplate' = r[1] /\ userTouchedLha' = touched
          /\ edit' = IF edit.of # NoTemplate THEN edit
                     ELSE [of |-> r[1],
                           row |-> [row EXCEPT !.lhas = Reseed(row, aglsLoaded, touched, first)]]
          /\ crossed' = \/ crossed \/ r[1] # templateAt
                        \/ autosave \/ templateSaves # {} \/ templateSaveError
          /\ clobbered' = \/ clobbered
                          \/ touched /\ edit.of = r[1] /\ first # edit.row.lhas
  /\ UNCHANGED <<storedTemplate, templateAt, aglsLoaded, autosave, templateSaves, templateError,
                 templateSaveError, asking, templateEdits>>

\* Crossing: a timer, a reading or an answer meets a page that has moved on to another template or
\* to a further edit, or a save meets another.  (A reading that comes while an edit waits is one
\* that another answer overtook.)
TemplateRead(r) ==
  LET row == storedTemplate[r[1]]
      touched == userTouchedLha /\ seededTemplate = r[1]
      first == Seed(row, r[2], edit.row.lhas)
  IN
  /\ r \in templateReads /\ row # Absent
  /\ templateReads' = templateReads \ {r} /\ templateLoading' = FALSE
  /\ IF templateAt = TemplateList
     THEN UNCHANGED <<template, edit, userTouchedLha, seededTemplate, crossed, clobbered>>
     ELSE /\ template' = [id |-> r[1], row |-> row]
          /\ seededTemplate' = r[1] /\ userTouchedLha' = touched
          /\ edit' = [of |-> r[1],
                      row |-> [row EXCEPT !.lhas = Reseed(row, aglsLoaded, touched, first)]]
          /\ crossed' = \/ crossed \/ r[1] # templateAt
                        \/ autosave \/ templateSaves # {} \/ templateSaveError
          /\ clobbered' = \/ clobbered
                          \/ touched /\ edit.of = r[1] /\ first # edit.row.lhas
  /\ UNCHANGED <<storedTemplate, templateAt, aglsLoaded, autosave, templateSaves, templateError,
                 templateSaveError, asking, templateEdits>>

TemplateUnread(r) ==
  /\ r \in templateReads
  /\ templateReads' = templateReads \ {r} /\ templateLoading' = FALSE
  /\ templateError' = (templateError \/ templateAt # TemplateList)
  /\ UNCHANGED <<storedTemplate, templateAt, aglsLoaded, template, edit, userTouchedLha,
                 seededTemplate, autosave, templateSaves, templateSaveError, asking, crossed,
                 clobbered, templateEdits>>

Retry ==
  /\ templateAt # TemplateList /\ templateError /\ ~templateLoading
  /\ fetchData(templateAt, aglsLoaded)
  /\ Act
  /\ UNCHANGED <<storedTemplate, templateAt, aglsLoaded, template, edit, userTouchedLha,
                 seededTemplate, autosave, templateSaves, templateSaveError, asking, crossed,
                 clobbered>>

-----------------------------------------------------------------------------
(* Editing *)

\* Every edit schedules a save, in place of the one that waits.
Edited(row, touched) ==
  /\ Editable /\ Act /\ row # edit.row
  /\ edit' = [edit EXCEPT !.row = row]
  /\ userTouchedLha' = (userTouchedLha \/ touched)
  /\ autosave' = TRUE
  /\ UNCHANGED <<storedTemplate, templateAt, aglsLoaded, template, seededTemplate, templateSaves,
                 templateReads, templateLoading, templateError, templateSaveError, asking, crossed,
                 clobbered>>

handleNameChange(v) == Edited([edit.row EXCEPT !.name = v], FALSE)

handleConfigChange(v) == Edited([edit.row EXCEPT !.conf = v], FALSE)

\* The method is offered among those of the system; without a system it is locked.
handleMethodChange(m) ==
  /\ edit.row.method # Agnostic /\ edit.row.agl # NoAgl /\ aglsLoaded
  /\ m = kindOf[edit.row.agl]
  /\ Edited([edit.row EXCEPT !.method = m], FALSE)

\* Mutant: the units of the other system stay selected.
handleAglChange_kept(a) ==
  /\ aglsLoaded
  /\ Edited([edit.row EXCEPT !.agl = a], FALSE)

handleAglChange(a) ==
  /\ aglsLoaded
  /\ Edited([edit.row EXCEPT !.agl = a,
                             !.lhas = IF a = NoAgl \/ edit.row.method = Agnostic THEN {}
                                      ELSE unitsOf[a]], FALSE)

\* One unit, or all of them, by hand.
handleToggleLha(lhas) ==
  /\ aglsLoaded /\ edit.row.agl # NoAgl
  /\ \/ \E u \in unitsOf[edit.row.agl] :
           lhas = IF u \in edit.row.lhas THEN edit.row.lhas \ {u} ELSE edit.row.lhas \cup {u}
     \/ lhas = IF unitsOf[edit.row.agl] \subseteq edit.row.lhas THEN {} ELSE unitsOf[edit.row.agl]
  /\ Edited([edit.row EXCEPT !.lhas = lhas], TRUE)

-----------------------------------------------------------------------------
(* Saving *)

\* Mutant: it calls the save of the page as it was when the timer was set.
AutosaveFires_closed ==
  /\ autosave /\ autosave' = FALSE
  /\ templateSaves' = templateSaves \cup
       {[id |-> templateAt, of |-> edit.of, sent |-> template.row, named |-> FALSE]}
  /\ templateSaveError' = FALSE /\ crossed' = (crossed \/ templateSaves # {})
  /\ UNCHANGED <<storedTemplate, templateAt, aglsLoaded, template, edit, userTouchedLha,
                 seededTemplate, templateReads, templateLoading, templateError, asking, clobbered,
                 templateEdits>>

\* The timer calls the save of the page as it is by then: the form is sent to the template in the
\* address, with the name if it differs from the one remembered.
AutosaveFires ==
  /\ autosave /\ autosave' = FALSE
  /\ templateSaves' = templateSaves \cup
       {[id |-> templateAt, of |-> edit.of, sent |-> edit.row,
         named |-> edit.row.name # template.row.name]}
  /\ templateSaveError' = FALSE /\ crossed' = (crossed \/ templateSaves # {})
  /\ UNCHANGED <<storedTemplate, templateAt, aglsLoaded, template, edit, userTouchedLha,
                 seededTemplate, templateReads, templateLoading, templateError, asking, clobbered,
                 templateEdits>>

\* The server keeps its name and its system where none is sent.
Updated(row, s) == [s.sent EXCEPT !.name = IF s.named THEN @ ELSE row.name,
                                  !.agl = IF @ = NoAgl THEN row.agl ELSE @]

\* Mutant: a selection made by hand is seeded over.
Saved_seeded(s) ==
  LET row == Updated(storedTemplate[s.id], s) IN
  /\ s \in templateSaves /\ storedTemplate[s.id] # Absent /\ Compatible(row)
  /\ storedTemplate' = [storedTemplate EXCEPT ![s.id] = row]
  /\ templateSaves' = templateSaves \ {s}
  /\ IF templateAt = TemplateList THEN UNCHANGED <<template, edit, templateSaveError, crossed>>
     ELSE /\ template' = [id |-> s.id, row |-> row]
          /\ edit' = [edit EXCEPT !.row.lhas = Reseed(row, aglsLoaded, FALSE, @)]
          /\ templateSaveError' = FALSE
          /\ crossed' = (crossed \/ s.id # templateAt \/ autosave)
  /\ UNCHANGED <<templateAt, aglsLoaded, userTouchedLha, seededTemplate, autosave, templateReads,
                 templateLoading, templateError, asking, clobbered, templateEdits>>

\* The answer becomes the page's template and seeds the selection again; the rest of the form stays.
Saved(s) ==
  LET row == Updated(storedTemplate[s.id], s) IN
  /\ s \in templateSaves /\ storedTemplate[s.id] # Absent /\ Compatible(row)
  /\ storedTemplate' = [storedTemplate EXCEPT ![s.id] = row]
  /\ templateSaves' = templateSaves \ {s}
  /\ IF templateAt = TemplateList THEN UNCHANGED <<template, edit, templateSaveError, crossed>>
     ELSE /\ template' = [id |-> s.id, row |-> row]
          /\ edit' = [edit EXCEPT !.row.lhas = Reseed(row, aglsLoaded, userTouchedLha, @)]
          /\ templateSaveError' = FALSE
          /\ crossed' = (crossed \/ s.id # templateAt \/ autosave)
  /\ UNCHANGED <<templateAt, aglsLoaded, userTouchedLha, seededTemplate, autosave, templateReads,
                 templateLoading, templateError, asking, clobbered, templateEdits>>

\* A failure; a method that does not fit the system is one.
NotSaved(s) ==
  /\ s \in templateSaves /\ templateSaves' = templateSaves \ {s}
  /\ templateSaveError' = (templateSaveError \/ templateAt # TemplateList)
  /\ UNCHANGED <<storedTemplate, templateAt, aglsLoaded, template, edit, userTouchedLha,
                 seededTemplate, autosave, templateReads, templateLoading, templateError, asking,
                 crossed, clobbered, templateEdits>>

-----------------------------------------------------------------------------
(* Going elsewhere *)

\* The page takes its timer along to another template, and drops it on its way to the list.
Open(t) ==
  /\ templateAt' = t
  /\ IF t = TemplateList
     THEN /\ autosave' = FALSE
          /\ UNCHANGED <<templateReads, templateLoading, templateError, crossed>>
     ELSE /\ fetchData(t, aglsLoaded)
          /\ crossed' = (crossed \/ autosave \/ templateSaves # {})
          /\ UNCHANGED autosave

SelectTemplate(t) ==
  /\ Editable /\ Act /\ t # template.id /\ storedTemplate[t] # Absent /\ t # templateAt
  /\ Open(t)
  /\ UNCHANGED <<storedTemplate, aglsLoaded, template, edit, userTouchedLha, seededTemplate,
                 templateSaves, templateSaveError, asking, clobbered>>

Close ==
  /\ Editable /\ Act
  /\ Open(TemplateList)
  /\ UNCHANGED <<storedTemplate, aglsLoaded, template, edit, userTouchedLha, seededTemplate,
                 templateSaves, templateSaveError, asking, clobbered>>

Ask(what, row) ==
  /\ Editable /\ Act /\ asking.what = "nothing"
  /\ asking' = [what |-> what, id |-> templateAt, row |-> row]
  /\ UNCHANGED <<storedTemplate, templateAt, aglsLoaded, template, edit, userTouchedLha,
                 seededTemplate, autosave, templateSaves, templateReads, templateLoading,
                 templateError, templateSaveError, crossed, clobbered>>

handleDelete == Ask("delete", Blank)

\* The copy is of the template as it was saved, with the parameters of the form.
handleDuplicate ==
  /\ storedTemplate[NewTemplate] = Absent
  /\ Ask("copy", [template.row EXCEPT !.conf = edit.row.conf])

\* The answer moves the page, wherever the coordinator has gone on it.
Answered ==
  /\ asking.what # "nothing"
  /\ asking' = [asking EXCEPT !.what = "nothing"]
  /\ LET copied == asking.what = "copy"
         t == IF copied THEN NewTemplate ELSE asking.id IN
     /\ copied \/ storedTemplate[t] # Absent
     /\ storedTemplate' = [storedTemplate EXCEPT ![t] = IF copied THEN asking.row ELSE Absent]
     /\ Open(IF copied THEN NewTemplate ELSE TemplateList)
  /\ UNCHANGED <<aglsLoaded, template, edit, userTouchedLha, seededTemplate, templateSaves,
                 templateSaveError, clobbered, templateEdits>>

Refused ==
  /\ asking.what # "nothing"
  /\ asking' = [asking EXCEPT !.what = "nothing"]
  /\ UNCHANGED <<storedTemplate, templateAt, aglsLoaded, template, edit, userTouchedLha,
                 seededTemplate, autosave, templateSaves, templateReads, templateLoading,
                 templateError, templateSaveError, crossed, clobbered, templateEdits>>

-----------------------------------------------------------------------------

\* The fields in which system, method and units are picked.
Picker ==
  \/ \E m \in Methods : handleMethodChange(m)
  \/ \E a \in Agls \cup {NoAgl} : handleAglChange(a)
  \/ \E lhas \in SUBSET AllUnits : handleToggleLha(lhas)

Coordinator ==
  \/ \E v \in 0..1 : handleNameChange(v) \/ handleConfigChange(v)
  \/ Picker
  \/ \E t \in AllTemplates : SelectTemplate(t)
  \/ Close \/ Retry \/ handleDelete \/ handleDuplicate

Answers ==
  \/ AirportLoaded
  \/ \E r \in templateReads : TemplateRead(r) \/ TemplateUnread(r)
  \/ AutosaveFires
  \/ \E s \in templateSaves : Saved(s) \/ NotSaved(s)
  \/ Answered \/ Refused

\* Templates as they are created: a system with its method, or none.
Init ==
  /\ storedTemplate \in [AllTemplates -> {Absent, Blank} \cup
                           {[Blank EXCEPT !.method = kindOf[a], !.agl = a] : a \in Agls}]
  /\ \A t \in AllTemplates : storedTemplate[t] = Absent <=> t = NewTemplate
  /\ templateAt \in Templates /\ aglsLoaded \in BOOLEAN
  /\ template = [id |-> NoTemplate, row |-> Blank] /\ edit = [of |-> NoTemplate, row |-> Blank]
  /\ userTouchedLha = FALSE /\ seededTemplate = NoTemplate
  /\ autosave = FALSE /\ templateSaves = {}
  /\ templateReads = {<<templateAt, aglsLoaded>>}
  /\ templateLoading = TRUE /\ templateError = FALSE /\ templateSaveError = FALSE
  /\ asking = [what |-> "nothing", id |-> templateAt, row |-> Blank]
  /\ crossed = FALSE /\ clobbered = FALSE /\ templateEdits = 0

Next == Coordinator \/ Answers

-----------------------------------------------------------------------------
(* Properties *)

\* A template is saved with what was entered on its own page, unless answers crossed.
SavedToItself == ~crossed => \A s \in templateSaves : s.of = s.id

\* The units selected are of the system selected, although they arrive from three sides: with the
\* template, with the airport, and with the answer of a save.
UnitsOfAgl ==
  Editable /\ ~crossed /\ edit.row.agl # NoAgl => edit.row.lhas \subseteq unitsOf[edit.row.agl]

\* When nothing waits or is under way and no failure is shown, the form is what the server has.
\* (A system that is cleared is never sent, and a selection of none is stored as if none had been
\* made.)
SettledIsStored ==
  Editable /\ ~crossed /\ ~autosave /\ templateSaves = {} /\ ~templateSaveError =>
    LET row == storedTemplate[templateAt] IN
    /\ edit.row.name = row.name /\ edit.row.conf = row.conf /\ edit.row.method = row.method
    /\ edit.row.agl \in {row.agl, NoAgl}
    /\ edit.row.lhas = row.lhas \/ row.lhas = {}

\* A selection made by hand is not seeded over when a save is answered.
SelectionKept ==
  userTouchedLha /\ seededTemplate = seededTemplate' /\ templateSaves' # templateSaves
    => edit'.row.lhas = edit.row.lhas
SelectionsKept == [][SelectionKept]_templateVars

\* ... nor when the template is read again.
SelectionFreezes == ~clobbered
=============================================================================
