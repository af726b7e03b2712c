---------------------------- MODULE EntityCreation ----------------------------
(***************************************************************************)
(* How new infrastructure is drawn and created in the airport editor of    *)
(* frontend/src: the drawing tools, the form that opens on what was drawn, *)
(* the look-up of the altitude of its position, the requests that create   *)
(* it, and the dialog that takes positions from photos and queues them.    *)
(* A drawn shape is its kind, with the centre of a circle; of the fields   *)
(* of the form only the type, the position and the altitude are kept: the  *)
(* name is taken to be filled in and a parent to be chosen.                *)
(***************************************************************************)
EXTENDS Naturals, Sequences, FiniteSets, SequencesExt

CONSTANTS
  Spots,        \* places clicked on the map
  PhotoSets,    \* the geotagged positions of the photos one can choose: sequences of places
  NoPlace,
  MaxCreating,  \* bound: creations under way at a time
  MaxMade       \* bound: creations asked for, and positions and altitudes typed

Shots == UNION {ToSet(f) : f \in PhotoSets}

Places == Spots \cup Shots

CreationAssumption ==
  /\ PhotoSets \subseteq Seq(Shots)
  /\ \A f \in PhotoSets : IsInjective(f) /\ f # <<>>
  /\ \A f, g \in PhotoSets : f # g => ToSet(f) \cap ToSet(g) = {}
  /\ Spots \cap Shots = {} /\ NoPlace \notin Places
  /\ MaxCreating \in Nat /\ MaxMade \in Nat

VARIABLES
  drawTool,    \* activeTool, of those that draw
  sketch,      \* the first click of the drawing begun
  pending,     \* what has been drawn and has no entity yet
  handoff,     \* the points of photos still queued, the lens heights of the one in the form,
               \* and the type of entity they are to become
  entry,       \* the creation form; bare is the place over which another type left no altitude
  lookup,      \* the place whose altitude the form awaits
  creating,    \* creations under way
  made, asked, \* the entities created at each place of a photo; how many creations were asked for
  forked,      \* history: a form was sent while a creation whose form is closed has photos queued
  typings,     \* how often a position or an altitude was typed
  extractor, extracting, extracted   \* the photo dialog, the answers it awaits, the photos used

creationVars == <<drawTool, sketch, pending, handoff, entry, lookup, creating, made, asked,
                  forked, typings, extractor, extracting, extracted>>

\* A rectangle is drawn and completed as an outline is.
DrawTools == {"select", "drawPolygon", "drawCircle", "placePoint"}

Types == {"none", "surface", "zone", "boundary", "obstacle", "agl", "lha"}

Nothing == [geom |-> "none", center |-> NoPlace, point |-> NoPlace]

Shown(p) == p.geom # "none" \/ p.point # NoPlace

NoHandoff == [queue |-> <<>>, lens |-> NoPlace, hint |-> "none"]

Closed == [on |-> FALSE, type |-> "none", at |-> NoPlace, alt |-> "none", typed |-> FALSE,
           sent |-> FALSE, bare |-> NoPlace]

TypeOK ==
  /\ drawTool \in DrawTools
  /\ sketch \in Spots \cup {NoPlace}
  /\ pending \in [geom : {"none", "polygon", "circle"}, center : Places \cup {NoPlace},
                  point : Places \cup {NoPlace}]
  /\ handoff.queue \in Seq(Shots)
  /\ handoff.lens \in Shots \cup {NoPlace} /\ handoff.hint \in Types
  /\ entry \in [on : BOOLEAN, type : Types, at : Places \cup {NoPlace},
                alt : {"none", "typed"} \cup Places, typed : BOOLEAN, sent : BOOLEAN,
                bare : Places \cup {NoPlace}]
  /\ entry.on = Shown(pending)
  /\ lookup \in Places \cup {NoPlace}
  /\ Cardinality(creating) <= MaxCreating
  /\ \A c \in creating : c.shot \in Shots \cup {NoPlace} /\ c.rest \in Seq(Shots)
  /\ made \in [Shots -> 0..MaxMade] /\ asked \in 0..MaxMade /\ typings \in 0..MaxMade
  /\ forked \in BOOLEAN
  /\ extractor \in [open : BOOLEAN, items : PhotoSets \cup {<<>>}]
  /\ extracting \subseteq PhotoSets /\ extracted \subseteq PhotoSets

-----------------------------------------------------------------------------
(* The form follows what is pending *)

\* The place whose altitude a form of this type asks for.
AltitudePlace(type, at, p) ==
  CASE type \in {"agl", "lha"} -> at
    [] type = "obstacle" -> IF p.center # NoPlace THEN p.center ELSE p.point
    [] OTHER -> NoPlace

\* Mutant: moving the position does not ask again.
LookupOf_once(f, p) == lookup

\* The look-up when the position changes: a typed altitude is kept, a place cleared asks nothing.
LookupOf(f, p) ==
  LET place == AltitudePlace(f.type, f.at, p)
  IN  IF f.typed \/ place = NoPlace \/ place = AltitudePlace(entry.type, entry.at, pending)
      THEN lookup ELSE place

Show(p, hint) ==
  LET at == IF p.point # NoPlace THEN p.point ELSE entry.at
      opened == [Closed EXCEPT !.on = TRUE, !.type = hint, !.at = p.point]
      kept == [entry EXCEPT !.at = at]
  IN  /\ pending' = p
      /\ entry' = IF ~Shown(p) THEN Closed ELSE IF entry.on THEN kept ELSE opened
      /\ lookup' = IF ~Shown(p) THEN NoPlace
                   ELSE IF entry.on THEN LookupOf(kept, p)
                   ELSE AltitudePlace(hint, p.point, p)

\* A creation whose form has been closed answers to nobody.
Orphaned(cs) == {[c EXCEPT !.form = FALSE] : c \in cs}

FormsOf(cs, p) == IF Shown(p) THEN cs ELSE Orphaned(cs)

-----------------------------------------------------------------------------
(* Drawing *)

clearPending ==
  /\ Show(Nothing, handoff.hint)
  /\ creating' = Orphaned(creating)

handleToolChange(t) ==
  /\ drawTool' = t /\ sketch' = NoPlace
  /\ IF t # "select" /\ Shown(pending) THEN clearPending
     ELSE UNCHANGED <<pending, entry, lookup, creating>>

onToolSelect(t) ==
  /\ handleToolChange(t)
  /\ UNCHANGED <<handoff, made, asked, forked, typings, extractor, extracting, extracted>>

\* The add buttons of the lists choose a tool and leave what is pending.
setActiveTool(t) ==
  /\ t \in {"drawPolygon", "drawCircle"} /\ t # drawTool
  /\ drawTool' = t /\ sketch' = NoPlace
  /\ UNCHANGED <<pending, handoff, entry, lookup, creating, made, asked, forked, typings, extractor,
                 extracting, extracted>>

\* A unit is added to a light system by placing a point.
handleAddLha ==
  /\ ~entry.on
  /\ drawTool' = "placePoint" /\ sketch' = NoPlace
  /\ UNCHANGED <<pending, handoff, entry, lookup, creating, made, asked, forked, typings, extractor,
                 extracting, extracted>>

onAddBoundary ==
  /\ handoff' = [handoff EXCEPT !.hint = "boundary"]
  /\ handleToolChange("drawPolygon")
  /\ UNCHANGED <<made, asked, forked, typings, extractor, extracting, extracted>>

Completed(p) ==
  /\ Show(p, handoff.hint)
  /\ drawTool' = "select" /\ sketch' = NoPlace
  /\ UNCHANGED creating

DrawingOnly == UNCHANGED <<handoff, made, asked, forked, typings, extractor, extracting, extracted>>

addVertex(s) ==
  /\ drawTool \in {"drawPolygon", "drawCircle"} /\ sketch = NoPlace
  /\ sketch' = s
  /\ UNCHANGED <<drawTool, pending, entry, lookup, creating>> /\ DrawingOnly

\* Mutant: the circle drawn before leaves its centre.
closePolygon_kept ==
  /\ drawTool = "drawPolygon" /\ sketch # NoPlace
  /\ Completed([pending EXCEPT !.geom = "polygon", !.point = NoPlace])
  /\ DrawingOnly

\* With three vertices or more, by a click on the first one or a double click.
closePolygon ==
  /\ drawTool = "drawPolygon" /\ sketch # NoPlace
  /\ Completed([Nothing EXCEPT !.geom = "polygon"])
  /\ DrawingOnly

handleCircleComplete ==
  /\ drawTool = "drawCircle" /\ sketch # NoPlace
  /\ Completed([Nothing EXCEPT !.geom = "circle", !.center = sketch])
  /\ DrawingOnly

handlePointComplete(s) ==
  /\ drawTool = "placePoint"
  /\ Completed([Nothing EXCEPT !.point = s])
  /\ DrawingOnly

\* A right click drops the drawing begun.
resetSketch ==
  /\ sketch # NoPlace /\ sketch' = NoPlace
  /\ UNCHANGED <<drawTool, pending, entry, lookup, creating>> /\ DrawingOnly

Cancelled ==
  /\ handoff' = NoHandoff
  /\ Show(Nothing, "none")

handleCreationCancel ==
  /\ entry.on
  /\ Cancelled /\ creating' = Orphaned(creating)
  /\ UNCHANGED <<drawTool, sketch, made, asked, forked, typings, extractor, extracting, extracted>>

handleEscape ==
  /\ Cancelled /\ creating' = Orphaned(creating)
  /\ drawTool' = "select" /\ sketch' = NoPlace
  /\ UNCHANGED <<made, asked, forked, typings, extractor, extracting, extracted>>

Draw ==
  /\ ~extractor.open
  /\ \/ \E t \in DrawTools : onToolSelect(t) \/ setActiveTool(t)
     \/ handleAddLha
     \/ onAddBoundary
     \/ \E s \in Spots : addVertex(s) \/ handlePointComplete(s)
     \/ closePolygon
     \/ handleCircleComplete
     \/ resetSketch
     \/ handleCreationCancel
     \/ handleEscape

-----------------------------------------------------------------------------
(* The form *)

categoryOptions ==
  CASE pending.geom = "none"   -> {"agl", "lha"}
    [] pending.geom = "circle" -> {"zone", "obstacle"}
    [] OTHER                   -> {"surface", "zone", "obstacle"}

FormOnly == UNCHANGED <<drawTool, sketch, pending, handoff, made, asked, forked, extractor,
                        extracting, extracted>>

\* Whether an altitude is looked up for another type: only if it is that of another place than
\* the type before, or if one was typed, which is forgotten.
AsksAgain(type) ==
  entry.typed \/ AltitudePlace(type, entry.at, pending) # AltitudePlace(entry.type, entry.at, pending)

\* Another type is another entity: the altitude is cleared, and none that is awaited counts.  The
\* boundary asked for in the list is not given another type.
handleCategoryChange(type) ==
  LET place == AltitudePlace(type, entry.at, pending) IN
  /\ entry.on /\ handoff.hint # "boundary"
  /\ type \in categoryOptions \cup {"none"} /\ type # entry.type
  /\ entry' = [entry EXCEPT !.type = type, !.alt = "none", !.typed = FALSE,
                            !.bare = IF AsksAgain(type) THEN NoPlace ELSE place]
  /\ lookup' = IF AsksAgain(type) THEN place ELSE NoPlace
  /\ UNCHANGED <<creating, typings>> /\ FormOnly

\* The position typed by hand, or cleared.
setManualPosition(s) ==
  /\ entry.type \in {"agl", "lha"} /\ s # entry.at
  /\ asked + typings < MaxMade /\ typings' = typings + 1
  /\ entry' = [entry EXCEPT !.at = s]
  /\ lookup' = LookupOf([entry EXCEPT !.at = s], pending)
  /\ UNCHANGED creating /\ FormOnly

showAltInput ==
  \/ entry.type \in {"agl", "lha"}
  \/ entry.type = "obstacle" /\ (pending.center # NoPlace \/ pending.point # NoPlace)

handleAltChange ==
  /\ showAltInput
  /\ asked + typings < MaxMade /\ typings' = typings + 1
  /\ entry' = [entry EXCEPT !.alt = "typed", !.typed = TRUE]
  /\ UNCHANGED <<lookup, creating>> /\ FormOnly

\* The elevation service has answered.
AltitudeResolved ==
  /\ lookup # NoPlace
  /\ entry' = [entry EXCEPT !.alt = lookup]
  /\ lookup' = NoPlace
  /\ UNCHANGED <<creating, typings>> /\ FormOnly

\* Mutant: Create stays enabled while it is being sent.
canSubmit_again ==
  /\ entry.type # "none"
  /\ entry.type \in {"agl", "lha"} => entry.at # NoPlace
  /\ entry.type \in {"surface", "zone", "boundary"} => pending.geom # "none"

canSubmit ==
  /\ entry.type # "none" /\ ~entry.sent
  /\ entry.type \in {"agl", "lha"} => entry.at # NoPlace
  /\ entry.type \in {"surface", "zone", "boundary"} => pending.geom # "none"

\* What is created.  An obstacle with an outline takes the altitude of every vertex from the
\* elevation service, whatever the form shows; a point takes the altitude in the form.
createEntity(form) ==
  [shot |-> IF form.type \in {"agl", "lha"} /\ form.at \in Shots THEN form.at ELSE NoPlace,
   ignored |-> showAltInput /\ form.typed /\ form.type = "obstacle" /\ pending.geom # "none",
   rest |-> handoff.queue, form |-> TRUE, stored |-> FALSE, no |-> asked]

handleSubmit ==
  /\ entry.on /\ canSubmit
  /\ asked + typings < MaxMade /\ Cardinality(creating) < MaxCreating
  /\ creating' = creating \cup {createEntity(entry)}
  /\ entry' = [entry EXCEPT !.sent = TRUE]
  /\ asked' = asked + 1
  /\ forked' = (forked \/ \E c \in creating : ~c.form /\ c.rest # <<>>)
  /\ UNCHANGED <<drawTool, sketch, pending, handoff, lookup, made, typings, extractor,
                 extracting, extracted>>

EntityStored(c) ==
  /\ ~c.stored
  /\ creating' = (creating \ {c}) \cup {[c EXCEPT !.stored = TRUE]}
  /\ made' = IF c.shot = NoPlace THEN made ELSE [made EXCEPT ![c.shot] = @ + 1]
  /\ UNCHANGED <<drawTool, sketch, pending, handoff, entry, lookup, asked, forked, typings,
                 extractor, extracting, extracted>>

EntityRefused(c) ==
  /\ ~c.stored
  /\ creating' = creating \ {c}
  /\ entry' = IF c.form THEN [entry EXCEPT !.sent = FALSE] ELSE entry
  /\ UNCHANGED <<lookup, typings>> /\ FormOnly

\* The airport has been read again: the queue goes on from where it was when Create was pressed,
\* and when it was empty whatever is pending is dropped.
Advance(c) ==
  LET p == IF c.rest = <<>> THEN Nothing
           ELSE [Nothing EXCEPT !.point = Head(c.rest)]
  IN  /\ handoff' = IF c.rest = <<>> THEN NoHandoff
                    ELSE [queue |-> Tail(c.rest), lens |-> Head(c.rest), hint |-> handoff.hint]
      /\ pending' = p
      /\ entry' = IF ~Shown(p) THEN Closed
                  ELSE IF entry.on THEN [entry EXCEPT !.at = p.point, !.sent = @ /\ ~c.form]
                  ELSE [Closed EXCEPT !.on = TRUE, !.type = handoff.hint, !.at = p.point]
      /\ lookup' = IF ~Shown(p) THEN NoPlace
                   ELSE IF entry.on THEN LookupOf(entry', p)
                   ELSE AltitudePlace(handoff.hint, p.point, p)
      /\ creating' = FormsOf(creating \ {c}, p)
      /\ drawTool' = IF c.rest = <<>> THEN drawTool ELSE "select"
      /\ sketch' = IF c.rest = <<>> THEN sketch ELSE NoPlace

\* Mutant: the lens heights of the first photo stay in the form.
EntityShown_lens(c) ==
  /\ c.stored /\ c.rest # <<>>
  /\ handoff' = [queue |-> Tail(c.rest), lens |-> handoff.lens, hint |-> handoff.hint]
  /\ Show([Nothing EXCEPT !.point = Head(c.rest)], handoff.hint)
  /\ creating' = creating \ {c} /\ drawTool' = "select" /\ sketch' = NoPlace
  /\ UNCHANGED <<made, asked, forked, typings, extractor, extracting, extracted>>

EntityShown(c) ==
  /\ c.stored
  /\ Advance(c)
  /\ UNCHANGED <<made, asked, forked, typings, extractor, extracting, extracted>>

Fill ==
  \/ /\ ~extractor.open
     /\ \/ \E type \in Types : handleCategoryChange(type)
        \/ \E s \in Spots \cup {NoPlace} : setManualPosition(s)
        \/ handleAltChange
        \/ handleSubmit
  \/ AltitudeResolved
  \/ \E c \in creating : EntityStored(c) \/ EntityRefused(c) \/ EntityShown(c)

-----------------------------------------------------------------------------
(* Positions taken from photos *)

PhotosOnly == UNCHANGED <<drawTool, sketch, pending, handoff, entry, lookup, creating, made,
                          asked, forked, typings>>

onExtractFromImage ==
  /\ ~extractor.open /\ extracted # PhotoSets
  /\ extractor' = [open |-> TRUE, items |-> <<>>]
  /\ UNCHANGED <<extracting, extracted>> /\ PhotosOnly

\* Photos may be dropped while others are being read.
handleFiles(f) ==
  /\ extractor.open /\ f \notin extracted
  /\ extracting' = extracting \cup {f} /\ extracted' = extracted \cup {f}
  /\ UNCHANGED extractor /\ PhotosOnly

PhotosRead(f) ==
  /\ extracting' = extracting \ {f}
  /\ \E items \in {f, extractor.items} : extractor' = [extractor EXCEPT !.items = items]
  /\ UNCHANGED extracted /\ PhotosOnly

closeExtractor ==
  /\ extractor.open
  /\ extractor' = [extractor EXCEPT !.open = FALSE]
  /\ UNCHANGED <<extracting, extracted>> /\ PhotosOnly

targetOptionsForCount(n) ==
  CASE n = 1 -> {"agl", "lha"}
    [] n = 2 -> {"lha"}
    [] n = 3 -> {"lha", "obstacle"}
    [] OTHER -> {"surface", "obstacle", "lha"}

\* Light units are queued one behind the other, the points of an outline are taken together.
beginExtractorHandoff(type) ==
  LET items == extractor.items
      outline == type \in {"surface", "obstacle"}
  IN  /\ handoff' = [queue |-> IF outline THEN <<>> ELSE Tail(items),
                     lens |-> IF type = "lha" THEN Head(items) ELSE NoPlace, hint |-> type]
      /\ IF outline THEN Completed([Nothing EXCEPT !.geom = "polygon"])
         ELSE Completed([Nothing EXCEPT !.point = Head(items)])

handleConfirm(type) ==
  /\ extractor.open /\ extractor.items # <<>>
  /\ type \in targetOptionsForCount(Len(extractor.items))
  /\ extractor' = [extractor EXCEPT !.open = FALSE]
  /\ beginExtractorHandoff(type)
  /\ UNCHANGED <<made, asked, forked, typings, extracting, extracted>>

Photograph ==
  \/ onExtractFromImage
  \/ \E f \in PhotoSets : handleFiles(f)
  \/ \E f \in extracting : PhotosRead(f)
  \/ closeExtractor
  \/ \E type \in Types : handleConfirm(type)

-----------------------------------------------------------------------------
Init ==
  /\ drawTool = "select" /\ sketch = NoPlace /\ pending = Nothing /\ handoff = NoHandoff
  /\ entry = Closed /\ lookup = NoPlace /\ creating = {}
  /\ made = [p \in Shots |-> 0] /\ asked = 0 /\ forked = FALSE /\ typings = 0
  /\ extractor = [open |-> FALSE, items |-> <<>>] /\ extracting = {} /\ extracted = {}

Next ==
  \/ Draw
  \/ Fill
  \/ Photograph

-----------------------------------------------------------------------------
(* Properties *)

\* One thing is pending at a time, an outline or a point, and a centre comes with a circle only:
\* what the tools leave behind never mixes with what the next one draws.
PendingIsOne ==
  /\ pending.geom # "none" => pending.point = NoPlace
  /\ pending.center # NoPlace <=> pending.geom = "circle"

\* An altitude that was not typed is that of the position in the form, or that one is awaited: an
\* answer for an earlier position never stays beside a later one.  It is empty only where the type
\* was changed over one position, which looks nothing up ("new entity, fresh lookup" it is not).
AltitudeOfPlace ==
  LET place == AltitudePlace(entry.type, entry.at, pending)
  IN  place # NoPlace /\ ~entry.typed =>
        lookup = place \/ entry.alt = place \/ (entry.bare = place /\ entry.alt = "none")

\* The position of a photo handed over is created at most once, whatever the operator draws,
\* cancels or switches to between a creation and its answer - unless something else was created
\* while a creation that was abandoned still had the queue to go on with: then both go on with it.
CreatedOnce == ~forked => \A p \in Shots : made[p] <= 1

\* The queue moves with the form: the points that remain are those that follow the point in the
\* form in its photos, and the lens heights in the form are that point's.
QueueMoves ==
  handoff'.queue # handoff.queue /\ handoff'.queue # <<>> =>
    /\ handoff'.lens = pending'.point
    /\ \E f \in PhotoSets : IsSuffix(<<pending'.point>> \o handoff'.queue, f)
QueueAdvances == [][QueueMoves]_creationVars

\* Violated by the code: of an obstacle with a centre, "circle/point uses the form's submitted
\* alt".
SubmittedAltitude == \A c \in creating : ~c.ignored
=============================================================================
