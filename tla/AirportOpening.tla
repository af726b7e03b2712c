-------------------------- MODULE AirportOpening --------------------------
(***************************************************************************)
(* The dialog that opens a new airport: its identity and place, looked up  *)
(* by its code, typed or picked on a map; the runways, zones and obstacles *)
(* the lookup suggests; and the creation of the airport and then of what   *)
(* is checked. The dialog is mounted all the time: closing it ends neither *)
(* a lookup nor a creation, and opening it again empties it.               *)
(*                                                                         *)
(* A place is the one of a code or a spot of the map, an altitude the one  *)
(* of such a place, typed, or the zero the picker starts with. The fields  *)
(* under the code are typed in one go.                                     *)
(***************************************************************************)
EXTENDS Naturals, FiniteSets

CONSTANT MaxOpeningActs   \* bound: clicks and entries

AirportOpeningAssumption == MaxOpeningActs \in Nat

VARIABLES
  dialogOpen,
  identity,        \* icaoCode, name, coordinates and altitude
  importRadius,
  suggestions,     \* [of, checked], of NoCode: none
  lookup,          \* the code looked up, or NoCode
  submit,          \* the creation under way: [state, body, items, stray]
  createdAirportId,\* what Continue leads to, or NoCode
  airports,        \* the backend's: code -> [at, alt, items]
  opened,          \* the list page's next address: the airport, or NoCode
  picker,          \* MapCoordinatePicker: [open, enlarged, at, alt, loading, touched, fetch]
  asked,           \* the lookup was asked for since the dialog opened
  recoded,         \* the code was changed since, or an answer came from before
  retyped,         \* the picker's altitude may not be of its place: none was fetched for it
  awaited,         \* the airport that was created since the dialog opened, or NoCode
  openingActs

openingVars == <<dialogOpen, identity, importRadius, suggestions, lookup, submit, createdAirportId,
                 airports, opened, picker, asked, recoded, retyped, awaited, openingActs>>

Codes == {"LZIB", "LOWW"}
NoCode == "none"
Spots == {"spot1", "spot2"}
Places == Codes \cup Spots
Altitudes == Places \cup {"typed", "zero", "none"}

\* What the lookup suggests of an airport.
Suggested(c) == IF c = "LZIB" THEN {"runway", "zone", "obstacle"} ELSE {}

BlankIdentity == [code |-> NoCode, name |-> NoCode, at |-> "none", alt |-> "none"]
NoSuggestions == [of |-> NoCode, checked |-> {}]
NoSubmit == [state |-> "idle", body |-> BlankIdentity, items |-> NoSuggestions, stray |-> FALSE]
NoPicker == [open |-> FALSE, enlarged |-> FALSE, at |-> "default", alt |-> "zero", loading |-> FALSE,
             touched |-> FALSE, fetch |-> {}]

TypeOK ==
  /\ dialogOpen \in BOOLEAN /\ importRadius \in {"fits", "beyond"}
  /\ identity \in [code : Codes \cup {NoCode}, name : Codes \cup {NoCode, "typed"},
                   at : Places \cup {"typed", "default", "none"}, alt : Altitudes]
  /\ suggestions.of \in Codes \cup {NoCode} /\ suggestions.checked \subseteq Suggested(suggestions.of)
  /\ lookup \in Codes \cup {NoCode} /\ submit.state \in {"idle", "creating", "items"}
  /\ createdAirportId \in Codes \cup {NoCode} /\ DOMAIN airports \subseteq Codes
  /\ opened \in Codes \cup {NoCode} /\ awaited \in Codes \cup {NoCode}
  /\ picker.open \in BOOLEAN /\ picker.at \in Spots \cup {"default"}
  /\ picker.alt \in Spots \cup {"typed", "zero"} /\ picker.fetch \subseteq Spots \X {"live", "old"}
  /\ picker.loading => \E f \in picker.fetch : f[2] = "live"
  /\ asked \in BOOLEAN /\ recoded \in BOOLEAN /\ retyped \in BOOLEAN
  /\ openingActs \in 0..MaxOpeningActs

Init ==
  /\ dialogOpen = FALSE /\ identity = BlankIdentity /\ importRadius = "fits"
  /\ suggestions = NoSuggestions /\ lookup = NoCode /\ submit = NoSubmit
  /\ createdAirportId = NoCode /\ airports = [c \in {} |-> BlankIdentity] /\ opened = NoCode
  /\ picker = NoPicker /\ asked = FALSE /\ recoded = FALSE /\ retyped = FALSE
  /\ awaited = NoCode /\ openingActs = 0

-----------------------------------------------------------------------------
(* The dialog *)

\* Somebody acts on the list page or in the dialog; the map is over the dialog while it is open.
Acted == opened = NoCode /\ openingActs < MaxOpeningActs /\ openingActs' = openingActs + 1
InForm == Acted /\ dialogOpen /\ ~picker.open

\* Mutant of Emptied: the suggestions stay.
Emptied_kept == suggestions
Emptied == NoSuggestions

Open ==
  /\ Acted /\ ~dialogOpen /\ ~picker.open /\ dialogOpen' = TRUE
  /\ identity' = BlankIdentity /\ importRadius' = "fits" /\ suggestions' = Emptied
  /\ createdAirportId' = NoCode /\ asked' = FALSE /\ recoded' = FALSE /\ awaited' = NoCode
  /\ UNCHANGED <<lookup, submit, airports, opened, picker, retyped>>

onClose ==
  /\ InForm /\ dialogOpen' = FALSE /\ awaited' = NoCode
  /\ UNCHANGED <<identity, importRadius, suggestions, lookup, submit, createdAirportId, airports,
                 opened, picker, asked, recoded, retyped>>

Form(new) ==
  /\ InForm /\ new # identity /\ identity' = new
  /\ recoded' = (recoded \/ (asked /\ new.code # identity.code))
  /\ UNCHANGED <<dialogOpen, importRadius, suggestions, lookup, submit, createdAirportId, airports,
                 opened, picker, asked, retyped, awaited>>

TypeCode(c) == Form([identity EXCEPT !.code = c])
TypeRest == Form([identity EXCEPT !.name = "typed", !.at = "typed", !.alt = "typed"])

TypeRadius ==
  /\ InForm /\ importRadius' = IF importRadius = "fits" THEN "beyond" ELSE "fits"
  /\ UNCHANGED <<dialogOpen, identity, suggestions, lookup, submit, createdAirportId, airports,
                 opened, picker, asked, recoded, retyped, awaited>>

handleLookup ==
  /\ InForm /\ lookup = NoCode /\ identity.code # NoCode /\ importRadius = "fits"
  /\ lookup' = identity.code /\ suggestions' = NoSuggestions /\ asked' = TRUE /\ recoded' = FALSE
  /\ UNCHANGED <<dialogOpen, identity, importRadius, submit, createdAirportId, airports, opened,
                 picker, retyped, awaited>>

\* The answer fills the form the dialog has now, whatever code is in it.
applyLookup ==
  /\ lookup # NoCode /\ lookup' = NoCode
  /\ identity' = [identity EXCEPT !.name = lookup, !.at = lookup, !.alt = lookup]
  /\ suggestions' = [of |-> lookup, checked |-> Suggested(lookup)]
  /\ recoded' = (recoded \/ ~asked)
  /\ UNCHANGED <<dialogOpen, importRadius, submit, createdAirportId, airports, opened, picker,
                 asked, retyped, awaited, openingActs>>

LookupFails ==
  /\ lookup # NoCode /\ lookup' = NoCode
  /\ UNCHANGED <<dialogOpen, identity, importRadius, suggestions, submit, createdAirportId,
                 airports, opened, picker, asked, recoded, retyped, awaited, openingActs>>

Check(set) ==
  /\ InForm /\ suggestions.of # NoCode /\ set # suggestions.checked
  /\ suggestions' = [suggestions EXCEPT !.checked = set]
  /\ UNCHANGED <<dialogOpen, identity, importRadius, lookup, submit, createdAirportId, airports,
                 opened, picker, asked, recoded, retyped, awaited>>

Toggle(i) ==
  /\ i \in Suggested(suggestions.of)
  /\ Check(IF i \in suggestions.checked THEN suggestions.checked \ {i} 
           ELSE suggestions.checked \cup {i})
setAllChecked(on) == Check(IF on THEN Suggested(suggestions.of) ELSE {})

-----------------------------------------------------------------------------
(* The map *)

PickOnMap ==
  /\ InForm /\ picker' = [NoPicker EXCEPT !.open = TRUE] /\ retyped' = TRUE
  /\ UNCHANGED <<dialogOpen, identity, importRadius, suggestions, lookup, submit,
                 createdAirportId, airports, opened, asked, recoded, awaited>>

OnMap(new) ==
  /\ Acted /\ picker.open /\ picker' = new
  /\ UNCHANGED <<dialogOpen, identity, importRadius, suggestions, lookup, submit,
                 createdAirportId, airports, opened, asked, recoded, awaited>>

\* The altitude under the click is asked for; an older question is cancelled.
ClickMap(p) ==
  /\ p # picker.at
  /\ OnMap([picker EXCEPT !.at = p, !.touched = FALSE, !.loading = TRUE,
                          !.fetch = {<<f[1], "old">> : f \in @} \cup {<<p, "live">>}])
  /\ retyped' = FALSE

\* A coordinate typed moves the marker, and asks for no altitude.
TypeCoordinate(p) ==
  /\ p # picker.at /\ OnMap([picker EXCEPT !.at = p]) /\ retyped' = TRUE

TypePickerAltitude ==
  /\ OnMap([picker EXCEPT !.alt = "typed", !.touched = TRUE, !.loading = FALSE,
                          !.fetch = {<<f[1], "old">> : f \in @}])
  /\ UNCHANGED retyped

\* Mutant of Superseded: an answer of an older click is not told from the newest one's.
Superseded_not(f) == FALSE
Superseded(f) == f[2] = "old"

\* An answer: none of a cancelled question, none when it fails.
Elevation(f) ==
  /\ picker.open /\ f \in picker.fetch
  /\ \E found \in {FALSE, f[2] = "live"} :
       /\ picker' = [picker EXCEPT !.fetch = @ \ {f},
                       !.loading = IF Superseded(f) THEN @ ELSE FALSE,
                       !.alt = IF found /\ ~Superseded(f) /\ ~picker.touched THEN f[1] ELSE @]
       /\ retyped' = (retyped \/ (f[2] = "live" /\ ~found))
  /\ UNCHANGED <<dialogOpen, identity, importRadius, suggestions, lookup, submit,
                 createdAirportId, airports, opened, asked, recoded, awaited, openingActs>>

Enlarge == OnMap([picker EXCEPT !.enlarged = ~@]) /\ UNCHANGED retyped

\* Cancel, or a click beside the map.
ClosePicker == OnMap(NoPicker) /\ UNCHANGED retyped

\* Escape leaves the large map, or the map, and closes the dialog under it as well.
Escape ==
  /\ Acted /\ picker.open
  /\ picker' = IF picker.enlarged THEN [picker EXCEPT !.enlarged = FALSE] ELSE NoPicker
  /\ dialogOpen' = FALSE /\ awaited' = NoCode
  /\ UNCHANGED <<identity, importRadius, suggestions, lookup, submit, createdAirportId, airports,
                 opened, asked, recoded, retyped>>

\* It can be confirmed before anything is chosen, and while the altitude is still asked for.
handleMapPick ==
  /\ Acted /\ picker.open
  /\ identity' = [identity EXCEPT !.at = picker.at, !.alt = picker.alt]
  /\ picker' = NoPicker
  /\ UNCHANGED <<dialogOpen, importRadius, suggestions, lookup, submit, createdAirportId, airports,
                 opened, asked, recoded, retyped, awaited>>

-----------------------------------------------------------------------------
(* The creation *)

validate == "none" \notin {identity.code, identity.name, identity.at, identity.alt}

\* The airport and the checked suggestions are the form's when it is submitted.
handleSubmit ==
  /\ InForm /\ submit.state = "idle" /\ createdAirportId = NoCode /\ validate
  /\ submit' = [state |-> "creating", body |-> identity, items |-> suggestions,
                stray |-> recoded]
  /\ UNCHANGED <<dialogOpen, identity, importRadius, suggestions, lookup, createdAirportId,
                 airports, opened, picker, asked, recoded, retyped, awaited>>

\* A code that is taken is refused.
createAirport ==
  /\ submit.state = "creating"
  /\ \/ /\ submit.body.code \notin DOMAIN airports
        /\ submit' = [submit EXCEPT !.state = "items"]
        /\ airports' = [c \in DOMAIN airports \cup {submit.body.code} |->
                          IF c = submit.body.code
                          THEN [at |-> submit.body.at, alt |-> submit.body.alt, items |-> {},
                                stray |-> submit.stray]
                          ELSE airports[c]]
     \/ submit' = NoSubmit /\ UNCHANGED airports
  /\ awaited' = IF submit'.state = "items" /\ dialogOpen THEN submit.body.code ELSE awaited
  /\ UNCHANGED <<dialogOpen, identity, importRadius, suggestions, lookup, createdAirportId, opened,
                 picker, asked, recoded, retyped, openingActs>>

\* Mutant of Partial: what failed is reported, and no way on is offered.
Partial_lost(c) == NoCode
Partial(c) == c

\* All of them end before the dialog goes on: with the airport, or with the count of those that
\* failed.
createCheckedSuggestions ==
  /\ submit.state = "items" /\ submit' = NoSubmit
  /\ LET code == submit.body.code IN
     \E made \in SUBSET submit.items.checked :
       /\ airports' = [airports EXCEPT ![code].items = {<<submit.items.of, i>> : i \in made}]
       /\ IF made = submit.items.checked
          THEN opened' = code /\ UNCHANGED createdAirportId
          ELSE createdAirportId' = Partial(code) /\ UNCHANGED opened
  /\ UNCHANGED <<dialogOpen, identity, importRadius, suggestions, lookup, picker, asked, recoded,
                 retyped, awaited, openingActs>>

Continue ==
  /\ InForm /\ createdAirportId # NoCode /\ opened' = createdAirportId
  /\ UNCHANGED <<dialogOpen, identity, importRadius, suggestions, lookup, submit,
                 createdAirportId, airports, picker, asked, recoded, retyped, awaited>>

Next ==
  \/ Open \/ onClose \/ TypeRest \/ TypeRadius \/ handleLookup \/ applyLookup
  \/ LookupFails \/ PickOnMap \/ TypePickerAltitude \/ Enlarge \/ ClosePicker \/ Escape \/ handleMapPick
  \/ handleSubmit \/ createAirport \/ createCheckedSuggestions \/ Continue
  \/ \E c \in Codes : TypeCode(c)
  \/ \E i \in Suggested("LZIB") : Toggle(i)
  \/ \E on \in BOOLEAN : setAllChecked(on)
  \/ \E p \in Spots : ClickMap(p) \/ TypeCoordinate(p)
  \/ \E f \in Spots \X {"live", "old"} : Elevation(f)

Spec == Init /\ [][Next]_openingVars

-----------------------------------------------------------------------------
(* Properties *)

\* An airport gets the runways, zones and obstacles found for its own code, whatever dialogs were
\* closed before, unless its code was changed after the lookup or the lookup was another dialog's.
\* Once it is created, the dialog that asked for it leads to it, also when some of them failed. And
\* the altitude on the map is of the place on the map, or typed, unless none was fetched for it.
OpeningFits ==
  /\ \A c \in DOMAIN airports : \A i \in airports[c].items : i[1] = c \/ airports[c].stray
  /\ awaited # NoCode /\ submit.state = "idle" /\ dialogOpen =>
       awaited \in {createdAirportId, opened}
  /\ picker.open /\ ~picker.loading /\ ~retyped => picker.alt \in {picker.at, "typed"}
=============================================================================
