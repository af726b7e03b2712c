------------------------ MODULE CoordinatorPages_proofs ------------------------
(***************************************************************************)
(* Theorems about the pages of a coordinator, for every set of places and  *)
(* photos, profiles, templates and systems, and every limit.               *)
(***************************************************************************)
EXTENDS ListsAndEditor_proofs

-----------------------------------------------------------------------------
(* Lines of photos *)

Has(q, p) == \E i \in 1..Len(q) : q[i] = p

Follows(q, f) == Len(q) <= Len(f) /\ \A i \in 1..Len(q) : q[i] = f[Len(f) - Len(q) + i]

\* The photos that wait are the last of those that were read together.
Lined(q) == q = <<>> \/ \E f \in PhotoSets : Follows(q, f)

LEMMA LineEnds ==
  ASSUME NEW S, NEW q \in Seq(S), q # <<>>
  PROVE  /\ Tail(q) \in Seq(S) /\ Head(q) \in S /\ Has(q, Head(q))
         /\ Len(Tail(q)) = Len(q) - 1 /\ \A i \in 1..Len(Tail(q)) : Tail(q)[i] = q[i + 1]
         /\ \A p : Has(Tail(q), p) => Has(q, p)
<1>1. /\ Tail(q) \in Seq(S) /\ Head(q) \in S /\ Len(q) \in Nat \ {0}
      /\ Len(Tail(q)) = Len(q) - 1 /\ \A i \in 1..Len(Tail(q)) : Tail(q)[i] = q[i + 1]
  BY HeadTailProperties, LenProperties, EmptySeq
<1>2. Has(q, Head(q))
  BY <1>1 DEF Has
<1>3. ASSUME NEW p, Has(Tail(q), p)
      PROVE  Has(q, p)
  <2>1. PICK i \in 1..Len(Tail(q)) : Tail(q)[i] = p
    BY <1>3 DEF Has
  <2>2. i + 1 \in 1..Len(q) /\ q[i + 1] = p
    BY <1>1, <2>1
  <2> QED BY <2>2 DEF Has
<1> QED BY <1>1, <1>2, <1>3

LEMMA LineGoesOn ==
  ASSUME NEW S, NEW f \in Seq(S), NEW q \in Seq(S), q # <<>>, Follows(q, f)
  PROVE  Follows(Tail(q), f)
<1>1. /\ Len(Tail(q)) = Len(q) - 1 /\ \A i \in 1..Len(Tail(q)) : Tail(q)[i] = q[i + 1]
      /\ Len(q) \in Nat \ {0} /\ Len(f) \in Nat
  BY LineEnds, LenProperties, EmptySeq
<1>2. ASSUME NEW i \in 1..Len(Tail(q))
      PROVE  Tail(q)[i] = f[Len(f) - Len(Tail(q)) + i]
  <2>1. Tail(q)[i] = q[i + 1] /\ i + 1 \in 1..Len(q)
    BY <1>1
  <2>2. q[i + 1] = f[Len(f) - Len(q) + (i + 1)]
    BY <2>1 DEF Follows
  <2>3. Len(f) - Len(q) + (i + 1) = Len(f) - Len(Tail(q)) + i
    BY <1>1
  <2> QED BY <2>1, <2>2, <2>3
<1> QED BY <1>1, <1>2 DEF Follows

LEMMA LineFromFiles ==
  ASSUME NEW S, NEW f \in Seq(S), NEW q \in Seq(S), Follows(q, f)
  PROVE  \A p : Has(q, p) => Has(f, p)
<1> SUFFICES ASSUME NEW p, Has(q, p)
             PROVE  Has(f, p)
  OBVIOUS
<1>1. PICK i \in 1..Len(q) : q[i] = p
  BY DEF Has
<1>2. Len(f) \in Nat /\ Len(q) \in Nat
  BY LenProperties
<1>3. f[Len(f) - Len(q) + i] = p /\ Len(f) - Len(q) + i \in 1..Len(f)
  BY <1>1, <1>2 DEF Follows
<1> QED BY <1>3 DEF Has

LEMMA HeadIsNotBehind ==
  ASSUME NEW S, NEW f \in Seq(S), NEW q \in Seq(S), q # <<>>, Follows(q, f),
         \A i, j \in 1..Len(f) : f[i] = f[j] => i = j
  PROVE  ~Has(Tail(q), Head(q))
<1> SUFFICES ASSUME Has(Tail(q), Head(q))
             PROVE  FALSE
  OBVIOUS
<1>1. /\ Len(Tail(q)) = Len(q) - 1 /\ \A i \in 1..Len(Tail(q)) : Tail(q)[i] = q[i + 1]
      /\ Len(q) \in Nat \ {0} /\ Len(f) \in Nat
  BY LineEnds, LenProperties, EmptySeq
<1>2. PICK i \in 1..Len(Tail(q)) : Tail(q)[i] = Head(q)
  BY DEF Has
<1>3. q[i + 1] = q[1] /\ i + 1 \in 1..Len(q) /\ 1 \in 1..Len(q)
  BY <1>1, <1>2, HeadTailProperties
<1> DEFINE a == Len(f) - Len(q) + (i + 1)
           b == Len(f) - Len(q) + 1
<1>4. f[a] = q[i + 1] /\ f[b] = q[1]
  BY <1>3 DEF Follows
<1>5. a \in 1..Len(f) /\ b \in 1..Len(f) /\ a # b
  BY <1>1, <1>2, <1>3 DEF Follows
<1> HIDE DEF a, b
<1> QED BY <1>3, <1>4, <1>5

\* The line itself, as the community module writes it.
LEMMA LineIsSuffix ==
  ASSUME NEW S, NEW f \in Seq(S), NEW q \in Seq(S), Follows(q, f)
  PROVE  Creation!IsSuffix(q, f)
<1>1. Len(f) \in Nat /\ Len(q) \in Nat /\ Len(q) <= Len(f)
  BY LenProperties DEF Follows
<1> DEFINE R == [i \in 1..Len(q) |-> q[(Len(q) - i) + 1]]
           T == [i \in 1..Len(f) |-> f[(Len(f) - i) + 1]]
<1>2. Creation!Reverse(q) = R /\ Creation!Reverse(f) = T
  BY DEF Creation!Reverse
<1>3. ASSUME NEW i \in 1..Len(q)
      PROVE  R[i] = T[i]
  <2>1. Len(q) - i + 1 \in 1..Len(q) /\ i \in 1..Len(f)
    BY <1>1
  <2>2. q[Len(q) - i + 1] = f[Len(f) - Len(q) + (Len(q) - i + 1)]
    BY <2>1 DEF Follows
  <2>3. Len(f) - Len(q) + (Len(q) - i + 1) = (Len(f) - i) + 1
    BY <1>1
  <2> QED BY <2>1, <2>2, <2>3
<1>4. R \in Seq(S) /\ T \in Seq(S) /\ Len(R) = Len(q) /\ Len(T) = Len(f)
  <2>1. \A i \in 1..Len(q) : q[(Len(q) - i) + 1] \in S
    BY <1>1, ElementOfSeq
  <2>2. \A i \in 1..Len(f) : f[(Len(f) - i) + 1] \in S
    BY <1>1, ElementOfSeq
  <2> QED BY <1>1, <2>1, <2>2, IsASeq
<1> HIDE DEF R, T
<1>5. SubSeq(R, 1, Len(R)) = SubSeq(T, 1, Len(R))
  BY <1>1, <1>3, <1>4
<1> QED BY <1>1, <1>2, <1>4, <1>5 DEF Creation!IsSuffix, Creation!IsPrefix

-----------------------------------------------------------------------------
(* What the constants of the drawing tools are *)

Shots == Creation!Shots
Place == Creation!Places \cup {NoPlace}

LEMMA PhotoFacts ==
  /\ PhotoSets \subseteq Seq(Shots)
  /\ \A f \in PhotoSets : f # <<>> /\ \A i, j \in 1..Len(f) : f[i] = f[j] => i = j
  /\ \A f, g \in PhotoSets : \A p : Has(f, p) /\ Has(g, p) => f = g
  /\ \A p \in Shots : p \notin Spots /\ p # NoPlace
  /\ NoPlace \notin Spots /\ Shots \subseteq Place /\ Spots \subseteq Place /\ NoPlace \in Place
  /\ MaxCreating \in Nat /\ MaxMade \in Nat
<1>1. Creation!CreationAssumption
  BY CoordinatorAssumption
<1>2. PhotoSets \subseteq Seq(Shots)
  BY <1>1 DEF Creation!CreationAssumption, Shots
<1>3. \A f \in PhotoSets : DOMAIN f = 1..Len(f)
  BY <1>2, LenProperties
<1>4. \A f \in PhotoSets : f # <<>> /\ \A i, j \in 1..Len(f) : f[i] = f[j] => i = j
  BY <1>1, <1>3 DEF Creation!CreationAssumption, Creation!IsInjective
<1>5. ASSUME NEW f \in PhotoSets, NEW g \in PhotoSets, NEW p, Has(f, p), Has(g, p)
      PROVE  f = g
  <2>1. p \in Creation!ToSet(f) /\ p \in Creation!ToSet(g)
    BY <1>3, <1>5 DEF Has, Creation!ToSet
  <2>2. f # g => Creation!ToSet(f) \cap Creation!ToSet(g) = {}
    BY <1>1 DEF Creation!CreationAssumption
  <2> QED BY <2>1, <2>2
<1>6. /\ \A p \in Shots : p \notin Spots /\ p # NoPlace
      /\ NoPlace \notin Spots /\ Shots \subseteq Place /\ Spots \subseteq Place /\ NoPlace \in Place
      /\ MaxCreating \in Nat /\ MaxMade \in Nat
  BY <1>1 DEF Creation!CreationAssumption, Creation!Places, Shots, Place
<1> QED BY <1>2, <1>4, <1>5, <1>6

-----------------------------------------------------------------------------
(* The form and what is pending *)

Drawings ==
  {p \in [geom : {"none", "polygon", "circle"}, center : Place, point : Place] :
     /\ p.geom # "none" => p.point = NoPlace
     /\ p.center # NoPlace <=> p.geom = "circle"}

Forms == [on : BOOLEAN, type : Creation!Types, at : Place,
          alt : {"none", "typed"} \cup Creation!Places, typed : BOOLEAN, sent : BOOLEAN,
          bare : Place]

AltPlace == Creation!AltitudePlace(entry.type, entry.at, pending)

\* The type was changed over one place: no altitude is there, and none is awaited.
Bare == lookup = NoPlace /\ entry.bare = AltPlace /\ entry.alt = "none"

\* The form is there while something is pending, and an altitude that was not typed is that of
\* the place, or awaited for it, or has been cleared.
FormInv ==
  /\ pending \in Drawings /\ entry \in Forms /\ lookup \in Place
  /\ entry.on = Creation!Shown(pending)
  /\ ~entry.on => entry = Creation!Closed /\ lookup = NoPlace
  /\ ~entry.typed /\ AltPlace # NoPlace =>
       lookup = AltPlace \/ (lookup = NoPlace /\ entry.alt = AltPlace) \/ Bare

LEMMA AltitudePlaceTyped ==
  ASSUME NEW type, NEW a \in Place, NEW p \in Drawings
  PROVE  Creation!AltitudePlace(type, a, p) \in Place
BY PhotoFacts DEF Creation!AltitudePlace, Drawings

LEMMA ClosedForm ==
  /\ Creation!Closed \in Forms /\ Creation!Closed.on = FALSE /\ Creation!Closed.sent = FALSE
  /\ Creation!Closed.at = NoPlace /\ Creation!Closed.type = "none" /\ Creation!Closed.typed = FALSE
  /\ \A a, p : Creation!AltitudePlace("none", a, p) = NoPlace
BY PhotoFacts DEF Creation!Closed, Forms, Creation!Types, Creation!AltitudePlace

\* A form that is opened on what was drawn waits for the altitude of its place.
LEMMA OpeningKeeps ==
  ASSUME NEW p \in Drawings, Creation!Shown(p), NEW hint \in Creation!Types,
         pending' = p, lookup' = Creation!AltitudePlace(hint, p.point, p),
         entry' = [Creation!Closed EXCEPT !.on = TRUE, !.type = hint, !.at = p.point]
  PROVE  FormInv'
<1>1. p.point \in Place
  BY DEF Drawings
<1>2. /\ entry' \in Forms /\ entry'.on = TRUE /\ entry'.type = hint /\ entry'.at = p.point
      /\ entry'.typed = FALSE
  BY <1>1, PhotoFacts DEF Creation!Closed, Forms
<1>3. AltPlace' = Creation!AltitudePlace(hint, p.point, p)
  BY <1>2 DEF AltPlace
<1>4. lookup' \in Place
  BY <1>1, AltitudePlaceTyped
<1> QED BY <1>2, <1>3, <1>4 DEF FormInv

\* A form that is closed waits for nothing.
LEMMA ClosingKeeps ==
  ASSUME NEW p \in Drawings, ~Creation!Shown(p),
         pending' = p, lookup' = NoPlace, entry' = Creation!Closed
  PROVE  FormInv'
<1>1. AltPlace' = NoPlace
  BY ClosedForm DEF AltPlace
<1>2. /\ entry' \in Forms /\ lookup' \in Place /\ entry'.on = FALSE
  BY ClosedForm, PhotoFacts
<1> QED BY <1>1, <1>2 DEF FormInv, Creation!Shown

\* A form that moves to another place looks its altitude up, unless it was typed.
LEMMA MovingKeeps ==
  ASSUME FormInv, entry.on, NEW p \in Drawings, Creation!Shown(p), pending' = p,
         entry' \in Forms, entry'.on = TRUE, entry'.type = entry.type,
         entry'.typed = entry.typed, entry'.alt = entry.alt, entry'.bare = entry.bare,
         NEW f, f.type = entry'.type, f.at = entry'.at, f.typed = entry'.typed,
         lookup' = Creation!LookupOf(f, p)
  PROVE  FormInv'
<1> DEFINE new == Creation!AltitudePlace(entry'.type, entry'.at, p)
           old == Creation!AltitudePlace(entry.type, entry.at, pending)
<1>1. lookup' = IF entry.typed \/ new = NoPlace \/ new = old THEN lookup ELSE new
  BY DEF Creation!LookupOf
<1>2. AltPlace' = new /\ AltPlace = old
  BY DEF AltPlace
<1>3. new \in Place
  <2>1. entry'.at \in Place
    BY DEF Forms
  <2> QED BY <2>1, AltitudePlaceTyped
<1> HIDE DEF new, old
<1>4. lookup' \in Place
  BY <1>1, <1>3 DEF FormInv
<1>5. ~entry'.typed /\ AltPlace' # NoPlace =>
        lookup' = AltPlace' \/ (lookup' = NoPlace /\ entry'.alt = AltPlace') \/ Bare'
  BY <1>1, <1>2 DEF FormInv, Bare
<1> QED BY <1>4, <1>5 DEF FormInv

\* Whatever is drawn, or dropped, keeps the form as it should be.
LEMMA ShowKeeps ==
  ASSUME FormInv, NEW p \in Drawings, NEW hint \in Creation!Types, Creation!Show(p, hint)
  PROVE  FormInv' /\ pending' = p
<1>1. CASE ~Creation!Shown(p)
  <2>1. pending' = p /\ lookup' = NoPlace /\ entry' = Creation!Closed
    BY <1>1 DEF Creation!Show
  <2> QED BY <1>1, <2>1, ClosingKeeps
<1>2. CASE Creation!Shown(p) /\ ~entry.on
  <2>1. /\ pending' = p /\ lookup' = Creation!AltitudePlace(hint, p.point, p)
        /\ entry' = [Creation!Closed EXCEPT !.on = TRUE, !.type = hint, !.at = p.point]
    BY <1>2 DEF Creation!Show
  <2> QED BY <1>2, <2>1, OpeningKeeps
<1>3. CASE Creation!Shown(p) /\ entry.on
  <2> DEFINE at == IF p.point # NoPlace THEN p.point ELSE entry.at
             kept == [entry EXCEPT !.at = at]
  <2>1. pending' = p /\ lookup' = Creation!LookupOf(kept, p) /\ entry' = kept
    BY <1>3 DEF Creation!Show
  <2>2. /\ kept \in Forms /\ kept.on = entry.on /\ kept.type = entry.type
        /\ kept.typed = entry.typed /\ kept.alt = entry.alt /\ kept.bare = entry.bare
    BY <1>3 DEF FormInv, Forms, Drawings
  <2> HIDE DEF kept
  <2>3. kept.on = TRUE
    BY <1>3, <2>2 DEF FormInv, Forms
  <2> QED BY <1>3, <2>1, <2>2, <2>3, MovingKeeps
<1> QED BY <1>1, <1>2, <1>3

LEMMA FormIsOpen ==
  ASSUME FormInv
  PROVE  /\ lookup # NoPlace => entry.on
         /\ entry.type # "none" => entry.on
         /\ entry.on => Creation!Shown(pending)
BY ClosedForm DEF FormInv, Forms

LEMMA CategoryKeeps ==
  ASSUME FormInv, NEW type, Creation!handleCategoryChange(type)
  PROVE  FormInv'
<1> DEFINE place == Creation!AltitudePlace(type, entry.at, pending)
           bare == IF Creation!AsksAgain(type) THEN NoPlace ELSE place
<1>1. /\ entry.on /\ type \in Creation!Types /\ UNCHANGED pending
      /\ entry' = [entry EXCEPT !.type = type, !.alt = "none", !.typed = FALSE, !.bare = bare]
      /\ lookup' = IF Creation!AsksAgain(type) THEN place ELSE NoPlace
  BY DEF Creation!handleCategoryChange, Creation!FormOnly, Creation!categoryOptions,
         Creation!Types
<1>2. place \in Place /\ NoPlace \in Place /\ bare \in Place
  <2>1. entry.at \in Place
    BY DEF FormInv, Forms
  <2> QED BY <2>1, AltitudePlaceTyped, PhotoFacts DEF FormInv
<1>3. bare = IF Creation!AsksAgain(type) THEN NoPlace ELSE place
  OBVIOUS
<1>4. AltPlace' = place
  BY <1>1 DEF AltPlace, FormInv, Forms
<1> HIDE DEF place, bare
<1>5. /\ entry' \in Forms /\ entry'.on = entry.on /\ entry'.alt = "none" /\ entry'.bare = bare
  BY <1>1, <1>2 DEF FormInv, Forms
<1>6. lookup' \in Place /\ (lookup' = AltPlace' \/ Bare')
  BY <1>1, <1>2, <1>3, <1>4, <1>5 DEF Bare
<1>7. entry'.on = TRUE /\ entry'.on = Creation!Shown(pending)
  BY <1>1, <1>5 DEF FormInv, Forms
<1> QED BY <1>1, <1>5, <1>6, <1>7 DEF FormInv

LEMMA PositionKeeps ==
  ASSUME FormInv, NEW a \in Spots \cup {NoPlace}, Creation!setManualPosition(a)
  PROVE  FormInv'
<1> DEFINE f == [entry EXCEPT !.at = a]
<1>1. /\ entry.type \in {"agl", "lha"} /\ entry' = f /\ lookup' = Creation!LookupOf(f, pending)
      /\ UNCHANGED pending
  BY DEF Creation!setManualPosition, Creation!FormOnly
<1>2. entry.on /\ Creation!Shown(pending) /\ pending \in Drawings
  BY <1>1, FormIsOpen DEF FormInv
<1>3. /\ f \in Forms /\ f.on = entry.on /\ f.type = entry.type /\ f.typed = entry.typed
      /\ f.alt = entry.alt /\ f.bare = entry.bare
  BY PhotoFacts DEF FormInv, Forms
<1> HIDE DEF f
<1>4. f.on = TRUE
  BY <1>2, <1>3 DEF FormInv, Forms
<1> QED BY <1>1, <1>2, <1>3, <1>4, MovingKeeps

LEMMA AltKeeps ==
  ASSUME FormInv, Creation!handleAltChange
  PROVE  FormInv'
<1>1. /\ entry' = [entry EXCEPT !.alt = "typed", !.typed = TRUE] /\ UNCHANGED <<pending, lookup>>
      /\ entry.type # "none"
  BY DEF Creation!handleAltChange, Creation!FormOnly, Creation!showAltInput
<1>2. entry.on
  BY <1>1, FormIsOpen
<1>3. entry' \in Forms /\ entry'.on = entry.on /\ entry'.typed = TRUE
  BY <1>1 DEF FormInv, Forms
<1> QED BY <1>1, <1>2, <1>3 DEF FormInv

LEMMA ResolvedKeeps ==
  ASSUME FormInv, Creation!AltitudeResolved
  PROVE  FormInv'
<1>1. /\ entry' = [entry EXCEPT !.alt = lookup] /\ UNCHANGED pending /\ lookup # NoPlace
      /\ lookup' = NoPlace
  BY DEF Creation!AltitudeResolved, Creation!FormOnly
<1>2. entry.on
  BY <1>1, FormIsOpen
<1>3. /\ entry' \in Forms /\ entry'.on = entry.on /\ entry'.typed = entry.typed
      /\ entry'.type = entry.type /\ entry'.at = entry.at /\ entry'.alt = lookup
  BY <1>1 DEF FormInv, Forms, Place
<1>4. AltPlace' = AltPlace
  BY <1>1, <1>3 DEF AltPlace
<1> QED BY <1>1, <1>2, <1>3, <1>4, PhotoFacts DEF FormInv, Bare

LEMMA SentKeeps ==
  ASSUME FormInv, NEW b \in BOOLEAN, entry.on \/ b = FALSE, UNCHANGED <<pending, lookup>>,
         entry' = [entry EXCEPT !.sent = b]
  PROVE  FormInv'
<1>1. /\ entry' \in Forms /\ entry'.on = entry.on /\ entry'.typed = entry.typed
      /\ entry'.type = entry.type /\ entry'.at = entry.at /\ entry'.alt = entry.alt
      /\ entry'.bare = entry.bare
  BY DEF FormInv, Forms
<1>2. AltPlace' = AltPlace
  BY <1>1 DEF AltPlace
<1>3. ~entry.on => entry' = Creation!Closed
  <2> SUFFICES ASSUME ~entry.on
               PROVE  entry' = Creation!Closed
    OBVIOUS
  <2>1. entry = Creation!Closed /\ b = FALSE
    BY DEF FormInv
  <2> QED BY <2>1 DEF Creation!Closed
<1> QED BY <1>1, <1>2, <1>3 DEF FormInv, Bare

\* The point of a photo, drawn.
At(p) == [Creation!Nothing EXCEPT !.point = p]

LEMMA DrawingsThere ==
  /\ Creation!Nothing \in Drawings /\ ~Creation!Shown(Creation!Nothing)
  /\ [Creation!Nothing EXCEPT !.geom = "polygon"] \in Drawings
  /\ Creation!Shown([Creation!Nothing EXCEPT !.geom = "polygon"])
  /\ [Creation!Nothing EXCEPT !.geom = "polygon"].point = NoPlace
  /\ \A a \in Place \ {NoPlace} :
       /\ [Creation!Nothing EXCEPT !.geom = "circle", !.center = a] \in Drawings
       /\ Creation!Shown([Creation!Nothing EXCEPT !.geom = "circle", !.center = a])
       /\ [Creation!Nothing EXCEPT !.geom = "circle", !.center = a].point = NoPlace
       /\ At(a) \in Drawings /\ Creation!Shown(At(a)) /\ At(a).point = a
BY PhotoFacts DEF Creation!Nothing, Drawings, Creation!Shown, At

\* The queue goes on: the next point is in the form, or the form is closed.
LEMMA AdvanceKeepsForm ==
  ASSUME FormInv, handoff.hint \in Creation!Types, NEW c, c.form \in BOOLEAN,
         c.rest \in Seq(Shots), Creation!Advance(c)
  PROVE  FormInv'
<1> DEFINE p == IF c.rest = <<>> THEN Creation!Nothing ELSE At(Head(c.rest))
<1>1. p \in Drawings /\ (Creation!Shown(p) <=> c.rest # <<>>)
  <2>1. CASE c.rest = <<>>
    BY <2>1, DrawingsThere
  <2>2. CASE c.rest # <<>>
    <3>1. Head(c.rest) \in Place \ {NoPlace}
      BY <2>2, LineEnds, PhotoFacts
    <3> QED BY <2>2, <3>1, DrawingsThere
  <2> QED BY <2>1, <2>2
<1>2. /\ pending' = p
      /\ entry' = IF ~Creation!Shown(p) THEN Creation!Closed
                  ELSE IF entry.on THEN [entry EXCEPT !.at = p.point, !.sent = @ /\ ~c.form]
                  ELSE [Creation!Closed EXCEPT !.on = TRUE, !.type = handoff.hint, !.at = p.point]
      /\ lookup' = IF ~Creation!Shown(p) THEN NoPlace
                   ELSE IF entry.on THEN Creation!LookupOf(entry', p)
                   ELSE Creation!AltitudePlace(handoff.hint, p.point, p)
  BY DEF Creation!Advance, At
<1> HIDE DEF p
<1>3. CASE ~Creation!Shown(p)
  BY <1>1, <1>2, <1>3, ClosingKeeps
<1>4. CASE Creation!Shown(p) /\ ~entry.on
  BY <1>1, <1>2, <1>4, OpeningKeeps
<1>5. CASE Creation!Shown(p) /\ entry.on
  <2>1. entry' = [entry EXCEPT !.at = p.point, !.sent = @ /\ ~c.form]
    BY <1>2, <1>5
  <2>2. PICK f : f = entry'
    OBVIOUS
  <2>3. /\ entry' \in Forms /\ entry'.on = entry.on /\ entry'.type = entry.type
        /\ entry'.typed = entry.typed /\ entry'.alt = entry.alt /\ entry'.bare = entry.bare
    <3>1. p.point \in Place /\ entry.sent \in BOOLEAN /\ (entry.sent /\ ~c.form) \in BOOLEAN
      BY <1>1 DEF Drawings, FormInv, Forms
    <3> QED BY <2>1, <3>1 DEF FormInv, Forms
  <2>4. entry'.on = TRUE
    BY <1>5, <2>3 DEF FormInv, Forms
  <2>5. lookup' = Creation!LookupOf(f, p)
    BY <1>2, <1>5, <2>2
  <2> QED BY <1>1, <1>2, <1>5, <2>2, <2>3, <2>4, <2>5, MovingKeeps
<1> QED BY <1>3, <1>4, <1>5

-----------------------------------------------------------------------------
(* The creations under way *)

Creations == [shot : Shots \cup {NoPlace}, ignored : BOOLEAN, rest : Seq(Shots), form : BOOLEAN,
              stored : BOOLEAN, no : Nat]

Handoffs == [queue : Seq(Shots), lens : Shots \cup {NoPlace}, hint : Creation!Types]

LEMMA CreatingCounted == ASSUME NEW S PROVE Creation!Cardinality(S) = Cardinality(S)
BY DEF Creation!Cardinality, Cardinality

Underway(cs) == {c \in cs : ~c.stored}

Orphan(c) == [c EXCEPT !.form = FALSE]

LEMMA OrphanIs ==
  ASSUME NEW c \in Creations
  PROVE  /\ Orphan(c) \in Creations /\ Orphan(c).form = FALSE /\ Orphan(c).shot = c.shot
         /\ Orphan(c).rest = c.rest /\ Orphan(c).stored = c.stored /\ Orphan(c).no = c.no
BY DEF Orphan, Creations

LEMMA OrphansAre ==
  ASSUME NEW cs \in SUBSET Creations
  PROVE  /\ Creation!Orphaned(cs) \in SUBSET Creations
         /\ \A o \in Creation!Orphaned(cs) : o.form = FALSE /\ \E c \in cs : o = Orphan(c)
         /\ \A c \in cs : Orphan(c) \in Creation!Orphaned(cs)
<1>1. Creation!Orphaned(cs) = {Orphan(c) : c \in cs}
  BY DEF Creation!Orphaned, Orphan
<1>2. \A c \in cs : Orphan(c) \in Creations /\ Orphan(c).form = FALSE
  BY OrphanIs
<1> QED BY <1>1, <1>2

LEMMA OrphansFrom ==
  ASSUME NEW cs \in SUBSET Creations, NEW o \in Creation!Orphaned(cs)
  PROVE  /\ o.form = FALSE
         /\ \E c \in cs : /\ o = Orphan(c) /\ o.shot = c.shot /\ o.rest = c.rest
                         /\ o.stored = c.stored /\ o.no = c.no
<1>1. PICK c \in cs : o = Orphan(c)
  BY OrphansAre
<1> QED BY <1>1, OrphanIs

\* Closing the form loses no creation and makes none.
LEMMA OrphansCount ==
  ASSUME NEW cs \in SUBSET Creations, IsFiniteSet(cs)
  PROVE  /\ IsFiniteSet(Creation!Orphaned(cs))
         /\ Cardinality(Creation!Orphaned(cs)) <= Cardinality(cs)
         /\ Cardinality(Underway(Creation!Orphaned(cs))) <= Cardinality(Underway(cs))
<1> DEFINE OC == Creation!Orphaned(cs)
<1>1. [c \in cs |-> Orphan(c)] \in Surjection(cs, OC)
  <2>1. [c \in cs |-> Orphan(c)] \in [cs -> OC]
    BY OrphansAre
  <2>2. \A o \in OC : \E c \in cs : [d \in cs |-> Orphan(d)][c] = o
    BY OrphansAre
  <2> QED BY <2>1, <2>2 DEF Surjection
<1>2. [c \in Underway(cs) |-> Orphan(c)] \in Surjection(Underway(cs), Underway(OC))
  <2>1. \A c \in Underway(cs) : Orphan(c) \in Underway(OC)
    BY OrphansAre, OrphanIs DEF Underway
  <2>2. \A o \in Underway(OC) : \E c \in Underway(cs) : Orphan(c) = o
    BY OrphansAre, OrphanIs DEF Underway
  <2> HIDE DEF OC
  <2> QED BY <2>1, <2>2 DEF Surjection
<1>3. IsFiniteSet(Underway(cs))
  <2>1. Underway(cs) \in SUBSET cs
    BY DEF Underway
  <2> QED BY <2>1, FS_Subset
<1> HIDE DEF OC
<1>4. IsFiniteSet(OC) /\ Cardinality(OC) <= Cardinality(cs)
  BY <1>1, FS_Surjection
<1>5. Cardinality(Underway(OC)) <= Cardinality(Underway(cs))
  BY <1>2, <1>3, FS_Surjection
<1> QED BY <1>4, <1>5 DEF OC

\* There are no more creations than may be, and no more entities than were asked for.
WorkInv ==
  /\ creating \in SUBSET Creations /\ IsFiniteSet(creating)
  /\ Cardinality(creating) <= MaxCreating
  /\ made \in [Shots -> Nat] /\ asked \in Nat /\ typings \in Nat /\ asked + typings <= MaxMade
  /\ \A p \in Shots : made[p] + Cardinality(Underway(creating)) <= asked
  /\ forked \in BOOLEAN

\* Of the tools and the photos that wait.
HandInv ==
  /\ drawTool \in Creation!DrawTools /\ sketch \in Spots \cup {NoPlace}
  /\ handoff \in Handoffs /\ Lined(handoff.queue)
  /\ \A c \in creating : Lined(c.rest)

\* The photos of the dialog are those that have been read.
PhotosInv ==
  /\ extractor \in [open : BOOLEAN, items : PhotoSets \cup {<<>>}]
  /\ extracting \subseteq extracted /\ extracted \subseteq PhotoSets
  /\ extractor.items # <<>> => extractor.items \in extracted \ extracting

\* A form that was sent is awaited by the one creation that answers to it.
SentInv ==
  /\ entry.sent <=> \E c \in creating : c.form
  /\ \A c, d \in creating : c.form /\ d.form => c = d
  /\ \A c, d \in creating : c.no = d.no => c = d
  /\ \A c \in creating : c.no < asked

Rests(p) == \E c \in creating : Has(c.rest, p)
Behind(p) == Has(handoff.queue, p) \/ Rests(p)

\* Photos that were not read yet, or are in the dialog.
ToCome(f) ==
  f \notin extracted \/ f \in extracting \/ (extractor.open /\ extractor.items = f)
Coming(p) == \E f \in PhotoSets : ToCome(f) /\ Has(f, p)

Used(p) == made[p] > 0 \/ \E c \in creating : ~c.stored /\ c.shot = p

\* A photo is still to come, or waits in one line, or is in the form, or was used: never two of
\* them, but that the form that was sent still shows it.
OnceInv ==
  ~forked =>
    /\ \A p \in Shots : made[p] <= 1
    /\ \A c \in creating : ~c.stored /\ c.shot # NoPlace => made[c.shot] = 0
    /\ \A c, d \in creating :
         ~c.stored /\ ~d.stored /\ c.shot # NoPlace /\ c.shot = d.shot => c = d
    /\ \A p \in Shots : Used(p) =>
         ~Behind(p) /\ ~Coming(p) /\ (entry.at = p => \E c \in creating : c.form /\ c.shot = p)
    /\ \A p \in Shots : entry.at = p => ~Behind(p) /\ ~Coming(p)
    /\ \A p \in Shots : Coming(p) => ~Behind(p)
    /\ \A c, d \in creating : c.rest # <<>> /\ d.rest # <<>> => c = d

CreationInv == FormInv /\ WorkInv /\ HandInv /\ PhotosInv /\ SentInv /\ OnceInv

LEMMA CreationStarts == ASSUME Creation!Init PROVE CreationInv
<1> USE PhotoFacts
<1>1. FormInv
  <2>1. pending = Creation!Nothing /\ entry = Creation!Closed /\ lookup = NoPlace
    BY DEF Creation!Init
  <2>2. AltPlace = NoPlace
    BY <2>1, ClosedForm DEF AltPlace
  <2> QED BY <2>1, <2>2, ClosedForm, DrawingsThere DEF FormInv, Creation!Shown
<1>2. WorkInv
  <2>1. creating = {} /\ made = [p \in Shots |-> 0] /\ asked = 0 /\ typings = 0 /\ forked = FALSE
    BY DEF Creation!Init, Shots
  <2>2. Underway(creating) = {}
    BY <2>1 DEF Underway
  <2>3. IsFiniteSet({}) /\ Cardinality({}) = 0
    BY FS_EmptySet
  <2>4. IsFiniteSet(creating) /\ Cardinality(creating) = 0 /\ Cardinality(Underway(creating)) = 0
    BY <2>1, <2>2, <2>3
  <2>5. made \in [Shots -> Nat] /\ \A p \in Shots : made[p] = 0
    BY <2>1
  <2>6. \A p \in Shots : made[p] + Cardinality(Underway(creating)) <= asked
    BY <2>1, <2>4, <2>5
  <2>7. creating \in SUBSET Creations /\ Cardinality(creating) <= MaxCreating
    BY <2>1, <2>4
  <2>8. asked \in Nat /\ typings \in Nat /\ asked + typings <= MaxMade /\ forked \in BOOLEAN
    <3>1. MaxMade \in Nat
      BY PhotoFacts
    <3>2. asked = 0 /\ typings = 0
      BY <2>1
    <3>3. asked \in Nat /\ typings \in Nat /\ asked + typings <= MaxMade
      BY ONLY <3>1, <3>2
    <3> QED BY ONLY <2>1, <3>3
  <2> QED BY ONLY <2>4, <2>5, <2>6, <2>7, <2>8 DEF WorkInv
<1>3. HandInv
  BY DEF Creation!Init, HandInv, Creation!DrawTools, Creation!NoHandoff, Handoffs, Lined,
         Creation!Types
<1>4. PhotosInv
  BY DEF Creation!Init, PhotosInv
<1>5. SentInv
  BY ClosedForm DEF Creation!Init, SentInv
<1>6. OnceInv
  <2>1. /\ creating = {} /\ made = [p \in Shots |-> 0] /\ handoff.queue = <<>>
        /\ entry.at = NoPlace
    BY ClosedForm DEF Creation!Init, Shots, Creation!NoHandoff
  <2>2. \A p : ~Behind(p)
    BY <2>1 DEF Behind, Rests, Has
  <2>3. \A p \in Shots : ~Used(p)
    BY <2>1 DEF Used
  <2> QED BY <2>1, <2>2, <2>3 DEF OnceInv
<1> QED BY <1>1, <1>2, <1>3, <1>4, <1>5, <1>6 DEF CreationInv


-----------------------------------------------------------------------------
(* What every step leaves standing *)

LEMMA FewerUnderway ==
  ASSUME WorkInv, NEW cs \in SUBSET creating
  PROVE  /\ cs \in SUBSET Creations /\ IsFiniteSet(cs) /\ Cardinality(cs) \in Nat
         /\ Cardinality(cs) <= Cardinality(creating) /\ Cardinality(creating) \in Nat
         /\ IsFiniteSet(Underway(cs)) /\ Cardinality(Underway(cs)) \in Nat
         /\ Cardinality(Underway(cs)) <= Cardinality(Underway(creating))
         /\ Cardinality(Underway(creating)) \in Nat
<1>1. IsFiniteSet(creating) /\ creating \in SUBSET Creations
  BY DEF WorkInv
<1>2. Underway(cs) \in SUBSET Underway(creating) /\ Underway(creating) \in SUBSET creating
  BY DEF Underway
<1>3. IsFiniteSet(Underway(creating))
  BY <1>1, <1>2, FS_Subset
<1>4. IsFiniteSet(cs) /\ Cardinality(cs) <= Cardinality(creating)
  BY <1>1, FS_Subset
<1>5. /\ IsFiniteSet(Underway(cs))
      /\ Cardinality(Underway(cs)) <= Cardinality(Underway(creating))
  BY <1>2, <1>3, FS_Subset
<1> QED BY <1>1, <1>3, <1>4, <1>5, FS_CardinalityType

LEMMA WorkKept ==
  ASSUME WorkInv, UNCHANGED <<made, asked, forked>>, typings' \in Nat,
         asked + typings' <= MaxMade, NEW cs \in SUBSET creating,
         creating' = cs \/ creating' = Creation!Orphaned(cs)
  PROVE  WorkInv'
<1> DEFINE n == Cardinality(Underway(creating'))
<1>1. /\ creating' \in SUBSET Creations /\ IsFiniteSet(creating')
      /\ Cardinality(creating') <= Cardinality(creating) /\ Cardinality(creating') \in Nat
      /\ n <= Cardinality(Underway(creating)) /\ n \in Nat
  <2>1. /\ cs \in SUBSET Creations /\ IsFiniteSet(cs) /\ Cardinality(cs) \in Nat
        /\ Cardinality(cs) <= Cardinality(creating) /\ Cardinality(creating) \in Nat
        /\ Cardinality(Underway(cs)) \in Nat /\ Cardinality(Underway(creating)) \in Nat
        /\ Cardinality(Underway(cs)) <= Cardinality(Underway(creating))
    BY FewerUnderway
  <2>2. CASE creating' = cs
    BY <2>1, <2>2
  <2>3. CASE creating' = Creation!Orphaned(cs)
    <3>1. /\ IsFiniteSet(creating') /\ Cardinality(creating') <= Cardinality(cs)
          /\ n <= Cardinality(Underway(cs)) /\ creating' \in SUBSET Creations
      BY <2>1, <2>3, OrphansCount, OrphansAre
    <3>2. IsFiniteSet(Underway(creating'))
      <4>1. Underway(creating') \in SUBSET creating'
        BY DEF Underway
      <4> QED BY <3>1, <4>1, FS_Subset
    <3>3. n \in Nat /\ Cardinality(creating') \in Nat
      BY <3>1, <3>2, FS_CardinalityType
    <3> HIDE DEF n
    <3> QED BY <2>1, <3>1, <3>3
  <2> QED BY <2>2, <2>3
<1>2. Cardinality(Underway(creating)) \in Nat /\ Cardinality(creating) \in Nat
  BY FewerUnderway
<1>3. ASSUME NEW p \in Shots
      PROVE  made'[p] + n <= asked'
  <2>1. made[p] + Cardinality(Underway(creating)) <= asked /\ made[p] \in Nat /\ asked \in Nat
    BY DEF WorkInv
  <2> HIDE DEF n
  <2> QED BY <1>1, <1>2, <2>1
<1>4. Cardinality(creating') <= MaxCreating
  <2>1. Cardinality(creating) <= MaxCreating /\ MaxCreating \in Nat
    BY PhotoFacts DEF WorkInv
  <2> QED BY <1>1, <1>2, <2>1
<1>5. /\ made' \in [Shots -> Nat] /\ asked' \in Nat /\ typings' \in Nat
      /\ asked' + typings' <= MaxMade /\ forked' \in BOOLEAN
  BY DEF WorkInv
<1> QED BY <1>1, <1>3, <1>4, <1>5 DEF WorkInv

LEMMA HandKept ==
  ASSUME HandInv, WorkInv, NEW cs \in SUBSET creating,
         creating' = cs \/ creating' = Creation!Orphaned(cs),
         drawTool' \in Creation!DrawTools, sketch' \in Spots \cup {NoPlace},
         handoff' \in Handoffs, Lined(handoff'.queue)
  PROVE  HandInv'
<1>1. cs \in SUBSET Creations
  BY DEF WorkInv
<1>2. ASSUME NEW c \in creating'
      PROVE  Lined(c.rest)
  <2>1. \E d \in creating : c.rest = d.rest
    <3>1. CASE creating' = cs
      BY <3>1
    <3>2. CASE creating' = Creation!Orphaned(cs)
      <4>1. \E d \in cs : c.rest = d.rest
        BY <1>1, <3>2, OrphansFrom
      <4> QED BY <4>1
    <3> QED BY <3>1, <3>2
  <2> QED BY <2>1 DEF HandInv
<1> QED BY <1>2 DEF HandInv, Lined

LEMMA SentKept ==
  ASSUME SentInv, UNCHANGED <<creating, asked>>, entry'.sent = entry.sent
  PROVE  SentInv'
BY DEF SentInv

LEMMA SentClosed ==
  ASSUME SentInv, WorkInv, UNCHANGED asked, NEW cs \in SUBSET creating,
         creating' = Creation!Orphaned(cs), entry'.sent = FALSE
  PROVE  SentInv'
<1>1. cs \in SUBSET Creations
  BY DEF WorkInv
<1>2. \A o \in creating' : o.form = FALSE /\ \E c \in cs : o = Orphan(c) /\ o.no = c.no
  BY <1>1, OrphansFrom
<1>3. ASSUME NEW o \in creating', NEW n \in creating', o.no = n.no
      PROVE  o = n
  <2>1. PICK c \in cs : o = Orphan(c) /\ o.no = c.no
    BY <1>2
  <2>2. PICK d \in cs : n = Orphan(d) /\ n.no = d.no
    BY <1>2
  <2>3. c = d
    BY <1>3, <2>1, <2>2 DEF SentInv
  <2> QED BY <2>1, <2>2, <2>3
<1> QED BY <1>2, <1>3 DEF SentInv

LEMMA OnceKept ==
  ASSUME OnceInv, UNCHANGED <<made, forked, creating>>,
         entry'.at = entry.at \/ entry'.at \notin Shots,
         handoff'.queue = handoff.queue \/ handoff'.queue = <<>>,
         \A f \in PhotoSets : ToCome(f)' => ToCome(f)
  PROVE  OnceInv'
<1>1. \A p \in Shots : Used(p)' <=> Used(p)
  BY DEF Used
<1>2. \A p \in Shots : Behind(p)' => Behind(p)
  BY DEF Behind, Rests, Has
<1>3. \A p \in Shots : Coming(p)' => Coming(p)
  BY DEF Coming
<1> QED BY <1>1, <1>2, <1>3 DEF OnceInv

LEMMA OnceClosed ==
  ASSUME OnceInv, WorkInv, UNCHANGED <<made, forked>>, entry'.at \notin Shots,
         NEW cs \in SUBSET creating, creating' = Creation!Orphaned(cs),
         handoff'.queue = handoff.queue \/ handoff'.queue = <<>>,
         \A f \in PhotoSets : ToCome(f)' => ToCome(f)
  PROVE  OnceInv'
<1> SUFFICES ASSUME ~forked
             PROVE  OnceInv'
  BY DEF OnceInv
<1>1. cs \in SUBSET Creations
  BY DEF WorkInv
<1>2. \A o \in creating' : \E c \in cs :
        o = Orphan(c) /\ o.shot = c.shot /\ o.rest = c.rest /\ o.stored = c.stored
  BY <1>1, OrphansFrom
<1>3. \A p \in Shots : Used(p)' => Used(p)
  BY <1>2 DEF Used
<1>4. \A p \in Shots : Behind(p)' => Behind(p)
  BY <1>2 DEF Behind, Rests, Has
<1>5. \A p \in Shots : Coming(p)' => Coming(p)
  BY DEF Coming
<1>6. ASSUME NEW c \in creating', ~c.stored, c.shot # NoPlace
      PROVE  made'[c.shot] = 0
  BY <1>2, <1>6 DEF OnceInv
<1>7. ASSUME NEW o \in creating', NEW n \in creating',
             \/ ~o.stored /\ ~n.stored /\ o.shot # NoPlace /\ o.shot = n.shot
             \/ o.rest # <<>> /\ n.rest # <<>>
      PROVE  o = n
  <2>1. PICK c \in cs :
          o = Orphan(c) /\ o.shot = c.shot /\ o.rest = c.rest /\ o.stored = c.stored
    BY <1>2
  <2>2. PICK d \in cs :
          n = Orphan(d) /\ n.shot = d.shot /\ n.rest = d.rest /\ n.stored = d.stored
    BY <1>2
  <2>3. c = d
    BY <1>7, <2>1, <2>2 DEF OnceInv
  <2> QED BY <2>1, <2>2, <2>3
<1>8. \A p \in Shots : made'[p] <= 1
  BY DEF OnceInv
<1> QED BY <1>3, <1>4, <1>5, <1>6, <1>7, <1>8 DEF OnceInv


-----------------------------------------------------------------------------
(* Drawing *)

\* What is shown goes to the form, and with nothing shown the form is closed.
LEMMA ShowEffects ==
  ASSUME FormInv, NEW p \in Drawings, NEW hint \in Creation!Types, Creation!Show(p, hint)
  PROVE  /\ ~Creation!Shown(p) => entry'.sent = FALSE /\ entry'.at = NoPlace
         /\ Creation!Shown(p) => entry'.sent = entry.sent /\ entry'.at \in {entry.at, p.point}
<1>1. ~Creation!Shown(p) => entry'.sent = FALSE /\ entry'.at = NoPlace
  BY ClosedForm DEF Creation!Show
<1>2. ASSUME Creation!Shown(p), entry.on
      PROVE  entry'.sent = entry.sent /\ entry'.at \in {entry.at, p.point}
  <2> DEFINE at == IF p.point # NoPlace THEN p.point ELSE entry.at
  <2>1. entry' = [entry EXCEPT !.at = at]
    BY <1>2 DEF Creation!Show
  <2> QED BY <2>1 DEF FormInv, Forms
<1>3. ASSUME Creation!Shown(p), ~entry.on
      PROVE  entry'.sent = entry.sent /\ entry'.at \in {entry.at, p.point}
  <2>1. entry' = [Creation!Closed EXCEPT !.on = TRUE, !.type = hint, !.at = p.point]
    BY <1>3 DEF Creation!Show
  <2>2. entry'.sent = FALSE /\ entry'.at = p.point
    BY <2>1 DEF Creation!Closed
  <2>3. entry.sent = FALSE
    BY <1>3, ClosedForm DEF FormInv
  <2> QED BY <2>2, <2>3
<1> QED BY <1>1, <1>2, <1>3

\* What is drawn on the map, or dropped, takes no photo along.
LEMMA DrawnKeeps ==
  ASSUME CreationInv, NEW p \in Drawings, p.point \notin Shots, NEW hint \in Creation!Types,
         Creation!Show(p, hint), creating' = Creation!FormsOf(creating, p),
         UNCHANGED <<made, asked, forked, typings, extractor, extracting, extracted>>,
         drawTool' \in Creation!DrawTools, sketch' \in Spots \cup {NoPlace},
         handoff' \in Handoffs,
         handoff'.queue = handoff.queue \/ handoff'.queue = <<>>
  PROVE  CreationInv'
<1> USE DEF CreationInv
<1>1. FormInv'
  BY ShowKeeps
<1>2. creating' = creating \/ creating' = Creation!Orphaned(creating)
  BY DEF Creation!FormsOf
<1>3. WorkInv'
  <2>1. typings' \in Nat /\ asked + typings' <= MaxMade
    BY DEF WorkInv
  <2> QED BY <1>2, <2>1, WorkKept
<1>4. HandInv'
  <2>1. Lined(handoff'.queue)
    BY DEF HandInv, Lined
  <2> QED BY <1>2, <2>1, HandKept
<1>5. PhotosInv'
  BY DEF PhotosInv
<1>6. \A f \in PhotoSets : ToCome(f)' => ToCome(f)
  BY DEF ToCome
<1>7. CASE Creation!Shown(p)
  <2>1. creating' = creating
    BY <1>7 DEF Creation!FormsOf
  <2>2. entry'.sent = entry.sent /\ (entry'.at = entry.at \/ entry'.at \notin Shots)
    BY <1>7, ShowEffects
  <2> QED BY <1>1, <1>3, <1>4, <1>5, <1>6, <2>1, <2>2, SentKept, OnceKept
<1>8. CASE ~Creation!Shown(p)
  <2>1. creating' = Creation!Orphaned(creating)
    BY <1>8 DEF Creation!FormsOf
  <2>2. entry'.sent = FALSE /\ entry'.at \notin Shots
    BY <1>8, ShowEffects, PhotoFacts
  <2> QED BY <1>1, <1>3, <1>4, <1>5, <1>6, <2>1, <2>2, SentClosed, OnceClosed
<1> QED BY <1>7, <1>8


Dropped(p) ==
  \E hint \in Creation!Types :
    Creation!Show(p, hint) /\ creating' = Creation!FormsOf(creating, p)

\* What the drawing tools do to the creations, the form and the queue.
Drawn ==
  /\ UNCHANGED <<made, asked, forked, typings, extractor, extracting, extracted>>
  /\ drawTool' \in Creation!DrawTools /\ sketch' \in Spots \cup {NoPlace}
  /\ handoff' \in Handoffs
  /\ handoff'.queue = handoff.queue \/ handoff'.queue = <<>>
  /\ \/ UNCHANGED <<pending, entry, lookup, creating>>
     \/ \E p \in Drawings : p.point \notin Shots /\ Dropped(p)

LEMMA HandoffFacts ==
  ASSUME HandInv
  PROVE  /\ handoff \in Handoffs /\ handoff.hint \in Creation!Types
         /\ Creation!NoHandoff \in Handoffs /\ Creation!NoHandoff.queue = <<>>
         /\ "none" \in Creation!Types /\ NoPlace \notin Shots
         /\ Creation!Nothing.point = NoPlace
BY PhotoFacts DEF HandInv, Handoffs, Creation!NoHandoff, Creation!Types, Creation!Nothing

LEMMA ClearedIs ==
  ASSUME HandInv, NEW hint \in Creation!Types, Creation!Show(Creation!Nothing, hint),
         creating' = Creation!Orphaned(creating)
  PROVE  \E p \in Drawings : p.point \notin Shots /\ Dropped(p)
<1>1. Dropped(Creation!Nothing)
  BY DrawingsThere DEF Dropped, Creation!FormsOf
<1> QED BY <1>1, HandoffFacts, DrawingsThere

LEMMA CompletedIs ==
  ASSUME HandInv, NEW p \in Drawings, p.point \notin Shots, Creation!Shown(p),
         Creation!Completed(p), Creation!DrawingOnly
  PROVE  Drawn
<1>1. /\ Creation!Show(p, handoff.hint) /\ drawTool' = "select" /\ sketch' = NoPlace
      /\ UNCHANGED creating
      /\ UNCHANGED <<handoff, made, asked, forked, typings, extractor, extracting, extracted>>
  BY DEF Creation!Completed, Creation!DrawingOnly
<1>2. Dropped(p)
  BY <1>1, HandoffFacts DEF Dropped, Creation!FormsOf
<1> QED BY <1>1, <1>2, HandoffFacts DEF Drawn, Creation!DrawTools

LEMMA ToolIsDrawn ==
  ASSUME HandInv, NEW t \in Creation!DrawTools, Creation!handleToolChange(t),
         UNCHANGED <<made, asked, forked, typings, extractor, extracting, extracted>>,
         handoff' \in Handoffs, handoff'.queue = handoff.queue
  PROVE  Drawn
<1>1. drawTool' = t /\ sketch' = NoPlace
  BY DEF Creation!handleToolChange
<1>2. CASE t # "select" /\ Creation!Shown(pending)
  <2>1. Creation!Show(Creation!Nothing, handoff.hint) /\ creating' = Creation!Orphaned(creating)
    BY <1>2 DEF Creation!handleToolChange, Creation!clearPending
  <2>2. \E p \in Drawings : p.point \notin Shots /\ Dropped(p)
    BY <2>1, HandoffFacts, ClearedIs
  <2> QED BY <1>1, <2>2 DEF Drawn
<1>3. CASE ~(t # "select" /\ Creation!Shown(pending))
  <2>1. UNCHANGED <<pending, entry, lookup, creating>>
    BY <1>3 DEF Creation!handleToolChange
  <2> QED BY <1>1, <2>1 DEF Drawn
<1> QED BY <1>2, <1>3

LEMMA DrawIsDrawn ==
  ASSUME HandInv, Creation!Draw
  PROVE  Drawn
<1> USE HandoffFacts
<1>1. ASSUME NEW t \in Creation!DrawTools, Creation!onToolSelect(t)
      PROVE  Drawn
  BY <1>1, ToolIsDrawn DEF Creation!onToolSelect
<1>2. ASSUME NEW t \in Creation!DrawTools, Creation!setActiveTool(t)
      PROVE  Drawn
  BY <1>2 DEF Creation!setActiveTool, Drawn
<1>3. CASE Creation!handleAddLha
  BY <1>3 DEF Creation!handleAddLha, Drawn, Creation!DrawTools
<1>4. CASE Creation!onAddBoundary
  <2>1. /\ handoff' = [handoff EXCEPT !.hint = "boundary"]
        /\ Creation!handleToolChange("drawPolygon")
        /\ UNCHANGED <<made, asked, forked, typings, extractor, extracting, extracted>>
    BY <1>4 DEF Creation!onAddBoundary
  <2>2. handoff' \in Handoffs /\ handoff'.queue = handoff.queue
    BY <2>1 DEF Handoffs, Creation!Types
  <2>3. "drawPolygon" \in Creation!DrawTools
    BY DEF Creation!DrawTools
  <2> QED BY <2>1, <2>2, <2>3, ToolIsDrawn
<1>5. ASSUME NEW s \in Spots, Creation!addVertex(s)
      PROVE  Drawn
  BY <1>5 DEF Creation!addVertex, Creation!DrawingOnly, Drawn, HandInv
<1>6. ASSUME NEW s \in Spots, Creation!handlePointComplete(s)
      PROVE  Drawn
  <2>1. Creation!Completed(At(s)) /\ Creation!DrawingOnly
    BY <1>6 DEF Creation!handlePointComplete, At
  <2>2. s \in Place \ {NoPlace} /\ s \notin Shots
    BY PhotoFacts
  <2>3. At(s) \in Drawings /\ Creation!Shown(At(s)) /\ At(s).point \notin Shots
    BY <2>2, DrawingsThere
  <2> QED BY <2>1, <2>3, CompletedIs
<1>7. CASE Creation!closePolygon
  <2>1. PICK p : p = [Creation!Nothing EXCEPT !.geom = "polygon"]
    OBVIOUS
  <2>2. Creation!Completed(p) /\ Creation!DrawingOnly
    BY <1>7, <2>1 DEF Creation!closePolygon
  <2>3. p \in Drawings /\ Creation!Shown(p) /\ p.point \notin Shots
    BY <2>1, DrawingsThere
  <2> QED BY <2>2, <2>3, CompletedIs
<1>8. CASE Creation!handleCircleComplete
  <2>1. PICK p : p = [Creation!Nothing EXCEPT !.geom = "circle", !.center = sketch]
    OBVIOUS
  <2>2. Creation!Completed(p) /\ Creation!DrawingOnly /\ sketch # NoPlace
    BY <1>8, <2>1 DEF Creation!handleCircleComplete
  <2>3. sketch \in Place \ {NoPlace}
    BY <2>2, PhotoFacts DEF HandInv
  <2>4. p \in Drawings /\ Creation!Shown(p) /\ p.point \notin Shots
    BY <2>1, <2>3, DrawingsThere
  <2> QED BY <2>2, <2>4, CompletedIs
<1>9. CASE Creation!resetSketch
  BY <1>9 DEF Creation!resetSketch, Creation!DrawingOnly, Drawn, HandInv
<1>10. ASSUME Creation!Cancelled, creating' = Creation!Orphaned(creating),
              UNCHANGED <<made, asked, forked, typings, extractor, extracting, extracted>>,
              drawTool' \in Creation!DrawTools, sketch' \in Spots \cup {NoPlace}
       PROVE  Drawn
  <2>1. handoff' = Creation!NoHandoff /\ Creation!Show(Creation!Nothing, "none")
    BY <1>10 DEF Creation!Cancelled
  <2>2. \E p \in Drawings : p.point \notin Shots /\ Dropped(p)
    BY <1>10, <2>1, ClearedIs
  <2> QED BY <1>10, <2>1, <2>2 DEF Drawn
<1>11. CASE Creation!handleCreationCancel
  BY <1>10, <1>11 DEF Creation!handleCreationCancel, HandInv
<1>12. CASE Creation!handleEscape
  BY <1>10, <1>12 DEF Creation!handleEscape, Creation!DrawTools
<1> QED BY <1>1, <1>2, <1>3, <1>4, <1>5, <1>6, <1>7, <1>8, <1>9, <1>11, <1>12
        DEF Creation!Draw

LEMMA DrawKeeps ==
  ASSUME CreationInv, Creation!Draw
  PROVE  CreationInv'
<1>1. Drawn
  BY DrawIsDrawn DEF CreationInv
<1>2. CASE UNCHANGED <<pending, entry, lookup, creating>>
  <2> USE DEF CreationInv
  <2>1. /\ UNCHANGED <<made, asked, forked, typings, extractor, extracting, extracted>>
        /\ drawTool' \in Creation!DrawTools /\ sketch' \in Spots \cup {NoPlace}
        /\ handoff' \in Handoffs
        /\ handoff'.queue = handoff.queue \/ handoff'.queue = <<>>
    BY <1>1 DEF Drawn
  <2>2. FormInv'
    BY <1>2 DEF FormInv, AltPlace, Bare
  <2>3. WorkInv'
    BY <1>2, <2>1 DEF WorkInv
  <2>4. Lined(handoff'.queue)
    BY <2>1 DEF HandInv, Lined
  <2>5. HandInv' /\ SentInv' /\ PhotosInv'
    BY <1>2, <2>1, <2>4, HandKept, SentKept DEF PhotosInv
  <2>6. OnceInv'
    <3>1. \A f \in PhotoSets : ToCome(f)' => ToCome(f)
      BY <2>1 DEF ToCome
    <3> QED BY <1>2, <2>1, <3>1, OnceKept
  <2> QED BY <2>2, <2>3, <2>5, <2>6
<1>3. ASSUME NEW p \in Drawings, p.point \notin Shots, Dropped(p)
      PROVE  CreationInv'
  <2>1. PICK hint \in Creation!Types :
          Creation!Show(p, hint) /\ creating' = Creation!FormsOf(creating, p)
    BY <1>3 DEF Dropped
  <2> QED BY <1>1, <1>3, <2>1, DrawnKeeps DEF Drawn
<1> QED BY <1>1, <1>2, <1>3 DEF Drawn


-----------------------------------------------------------------------------
(* The form *)

\* The form is changed by hand, or by the answer it awaits.
LEMMA EditKeeps ==
  ASSUME CreationInv, FormInv',
         UNCHANGED <<drawTool, sketch, handoff, creating, made, asked, forked, extractor,
                     extracting, extracted>>,
         typings' \in Nat, asked + typings' <= MaxMade,
         entry'.sent = entry.sent, entry'.at = entry.at \/ entry'.at \notin Shots
  PROVE  CreationInv'
<1> USE DEF CreationInv
<1>1. WorkInv'
  BY WorkKept
<1>2. Lined(handoff'.queue)
  BY DEF HandInv, Lined
<1>3. HandInv' /\ SentInv' /\ PhotosInv'
  BY <1>2, HandKept, SentKept DEF PhotosInv, HandInv
<1>4. \A f \in PhotoSets : ToCome(f)' => ToCome(f)
  BY DEF ToCome
<1> QED BY <1>1, <1>3, <1>4, OnceKept

LEMMA FormEditsKeep ==
  ASSUME CreationInv,
         \/ \E type \in Creation!Types : Creation!handleCategoryChange(type)
         \/ \E a \in Spots \cup {NoPlace} : Creation!setManualPosition(a)
         \/ Creation!handleAltChange
         \/ Creation!AltitudeResolved
  PROVE  CreationInv'
<1>1. FormInv'
  BY CategoryKeeps, PositionKeeps, AltKeeps, ResolvedKeeps DEF CreationInv
<1>2. /\ asked \in Nat /\ typings \in Nat /\ asked + typings <= MaxMade /\ MaxMade \in Nat
      /\ entry \in Forms
  BY PhotoFacts DEF CreationInv, WorkInv, FormInv
<1>3. UNCHANGED <<drawTool, sketch, handoff, creating, made, asked, forked, extractor,
                  extracting, extracted>>
  BY DEF Creation!handleCategoryChange, Creation!setManualPosition, Creation!handleAltChange,
         Creation!AltitudeResolved, Creation!FormOnly
<1>4. typings' = typings \/ (typings' = typings + 1 /\ asked + typings < MaxMade)
  BY DEF Creation!handleCategoryChange, Creation!setManualPosition, Creation!handleAltChange,
         Creation!AltitudeResolved, Creation!FormOnly
<1>5. typings' \in Nat /\ asked + typings' <= MaxMade
  BY <1>2, <1>4
<1>6. entry'.sent = entry.sent /\ (entry'.at = entry.at \/ entry'.at \notin Shots)
  <2>1. ASSUME NEW type, Creation!handleCategoryChange(type)
        PROVE  entry'.sent = entry.sent /\ entry'.at = entry.at
    BY <1>2, <2>1 DEF Creation!handleCategoryChange, Forms
  <2>2. ASSUME NEW a \in Spots \cup {NoPlace}, Creation!setManualPosition(a)
        PROVE  entry'.sent = entry.sent /\ entry'.at \notin Shots
    <3>1. entry' = [entry EXCEPT !.at = a]
      BY <2>2 DEF Creation!setManualPosition
    <3>2. a \notin Shots
      BY PhotoFacts
    <3> QED BY <1>2, <3>1, <3>2 DEF Forms
  <2>3. CASE Creation!handleAltChange
    BY <1>2, <2>3 DEF Creation!handleAltChange, Forms
  <2>4. CASE Creation!AltitudeResolved
    BY <1>2, <2>4 DEF Creation!AltitudeResolved, Forms
  <2> QED BY <2>1, <2>2, <2>3, <2>4
<1> QED BY <1>1, <1>3, <1>5, <1>6, EditKeeps

\* One creation more is under way.
LEMMA OneMore ==
  ASSUME WorkInv, NEW n \in Creations, ~n.stored, Cardinality(creating) < MaxCreating,
         asked + typings < MaxMade, creating' = creating \cup {n}, asked' = asked + 1,
         UNCHANGED <<made, typings>>, forked' \in BOOLEAN
  PROVE  WorkInv'
<1>1. /\ IsFiniteSet(creating) /\ Cardinality(creating) \in Nat
      /\ IsFiniteSet(Underway(creating)) /\ Cardinality(Underway(creating)) \in Nat
  BY FewerUnderway DEF WorkInv
<1>2. IsFiniteSet(creating') /\ Cardinality(creating') <= Cardinality(creating) + 1
  <2>1. IsFiniteSet(creating') /\ Cardinality(creating')
          = IF n \in creating THEN Cardinality(creating) ELSE Cardinality(creating) + 1
    BY <1>1, FS_AddElement
  <2> QED BY <1>1, <2>1
<1>3. Cardinality(Underway(creating')) <= Cardinality(Underway(creating)) + 1
      /\ Cardinality(Underway(creating')) \in Nat
  <2>1. Underway(creating') = Underway(creating) \cup {n}
    BY DEF Underway
  <2>2. Cardinality(Underway(creating) \cup {n})
          = IF n \in Underway(creating) THEN Cardinality(Underway(creating))
            ELSE Cardinality(Underway(creating)) + 1
    BY <1>1, FS_AddElement
  <2>3. PICK u : u = Cardinality(Underway(creating))
    OBVIOUS
  <2>4. PICK w : w = Cardinality(Underway(creating'))
    OBVIOUS
  <2>5. u \in Nat /\ (w = u \/ w = u + 1)
    BY <1>1, <2>1, <2>2, <2>3, <2>4
  <2>6. w <= u + 1 /\ w \in Nat
    BY <2>5
  <2> QED BY <2>3, <2>4, <2>6
<1>4. Cardinality(creating') <= MaxCreating
  <2>1. MaxCreating \in Nat /\ Cardinality(creating') \in Nat
    BY <1>2, PhotoFacts, FS_CardinalityType
  <2> QED BY <1>1, <1>2, <2>1
<1>5. /\ made' \in [Shots -> Nat] /\ asked' \in Nat /\ typings' \in Nat
      /\ asked' + typings' <= MaxMade
  <2>1. /\ made \in [Shots -> Nat] /\ asked \in Nat /\ typings \in Nat /\ MaxMade \in Nat
    BY PhotoFacts DEF WorkInv
  <2> QED BY <2>1
<1>6. ASSUME NEW p \in Shots
      PROVE  made'[p] + Cardinality(Underway(creating')) <= asked'
  <2>1. made[p] + Cardinality(Underway(creating)) <= asked /\ made[p] \in Nat /\ asked \in Nat
    BY DEF WorkInv
  <2> QED BY <1>1, <1>3, <2>1
<1>7. creating' \in SUBSET Creations
  BY DEF WorkInv
<1> QED BY <1>2, <1>4, <1>5, <1>6, <1>7 DEF WorkInv


LEMMA CreatedIs ==
  ASSUME CreationInv
  PROVE  /\ Creation!createEntity(entry) \in Creations
         /\ Creation!createEntity(entry).stored = FALSE
         /\ Creation!createEntity(entry).form = TRUE
         /\ Creation!createEntity(entry).no = asked
         /\ Creation!createEntity(entry).rest = handoff.queue
         /\ \A p \in Shots : Creation!createEntity(entry).shot = p => entry.at = p
<1>1. /\ handoff.queue \in Seq(Shots) /\ asked \in Nat /\ entry \in Forms /\ NoPlace \notin Shots
  BY PhotoFacts DEF CreationInv, HandInv, Handoffs, WorkInv, FormInv
<1> DEFINE shot == IF entry.type \in {"agl", "lha"} /\ entry.at \in Shots THEN entry.at ELSE NoPlace
           ignored == Creation!showAltInput /\ entry.typed /\ entry.type = "obstacle"
                        /\ pending.geom # "none"
<1>2. shot \in Shots \cup {NoPlace} /\ (\A p \in Shots : shot = p => entry.at = p)
  BY <1>1
<1>3. ignored \in BOOLEAN
  OBVIOUS
<1>4. Creation!createEntity(entry) = [shot |-> shot, ignored |-> ignored, rest |-> handoff.queue,
                                      form |-> TRUE, stored |-> FALSE, no |-> asked]
  BY DEF Creation!createEntity, Shots
<1> HIDE DEF shot, ignored
<1> QED BY <1>1, <1>2, <1>3, <1>4 DEF Creations

LEMMA SubmitKeeps ==
  ASSUME CreationInv, Creation!handleSubmit
  PROVE  CreationInv'
<1> USE DEF CreationInv
<1>1. PICK n : n = Creation!createEntity(entry)
  OBVIOUS
<1>2. /\ n \in Creations /\ n.stored = FALSE /\ n.form = TRUE /\ n.no = asked
      /\ n.rest = handoff.queue /\ \A p \in Shots : n.shot = p => entry.at = p
  BY <1>1, CreatedIs
<1>3. /\ entry.on /\ entry.sent = FALSE /\ asked + typings < MaxMade
      /\ creating' = creating \cup {n} /\ entry' = [entry EXCEPT !.sent = TRUE]
      /\ asked' = asked + 1
      /\ UNCHANGED <<drawTool, sketch, pending, handoff, lookup, made, typings, extractor,
                     extracting, extracted>>
  BY <1>1 DEF Creation!handleSubmit, Creation!canSubmit, FormInv, Forms
<1>4. forked' \in BOOLEAN /\ (forked' = FALSE =>
        forked = FALSE /\ \A c \in creating : c.form \/ c.rest = <<>>)
  <2>1. forked' = (forked \/ \E c \in creating : ~c.form /\ c.rest # <<>>) /\ forked \in BOOLEAN
    BY DEF Creation!handleSubmit, WorkInv
  <2> QED BY <2>1
<1>5. Cardinality(creating) < MaxCreating
  BY CreatingCounted DEF Creation!handleSubmit
<1>6. FormInv'
  BY <1>3, SentKeeps
<1>7. WorkInv'
  BY <1>2, <1>3, <1>4, <1>5, OneMore
<1>8. HandInv' /\ PhotosInv'
  <2>1. \A c \in creating' : Lined(c.rest)
    BY <1>2, <1>3 DEF HandInv
  <2> QED BY <1>3, <2>1 DEF HandInv, PhotosInv, Lined
<1>9. \A c \in creating : c.form = FALSE /\ c.no < asked
  <2>1. \A c \in creating : c.form \in BOOLEAN
    BY DEF WorkInv, Creations
  <2> QED BY <1>3, <2>1 DEF SentInv
<1>10. SentInv'
  <2>1. entry'.sent = TRUE
    BY <1>3 DEF FormInv, Forms
  <2>2. \A c \in creating' : c.no < asked'
    <3>1. asked \in Nat /\ \A c \in creating : c.no \in Nat
      BY DEF WorkInv, Creations
    <3> QED BY <1>2, <1>3, <1>9, <3>1
  <2>3. \A c, d \in creating' : c.no = d.no => c = d
    <3>1. asked \in Nat /\ \A c \in creating : c.no \in Nat /\ c.no # asked
      BY <1>9 DEF WorkInv, Creations
    <3> QED BY <1>2, <1>3, <3>1 DEF SentInv
  <2>4. \A c, d \in creating' : c.form /\ d.form => c = d
    BY <1>2, <1>3, <1>9
  <2> QED BY <1>2, <1>3, <2>1, <2>2, <2>3, <2>4 DEF SentInv
<1>11. OnceInv'
  <2> SUFFICES ASSUME forked' = FALSE
               PROVE  OnceInv'
    <3>1. forked' \in BOOLEAN
      BY <1>4
    <3> QED BY <3>1 DEF OnceInv
  <2>1. ~forked /\ \A c \in creating : c.rest = <<>>
    BY <1>4, <1>9
  <2>2. entry'.at = entry.at
    BY <1>3 DEF FormInv, Forms
  <2>3. \A p \in Shots : Behind(p)' <=> Has(handoff.queue, p)
    <3>1. \A p : ~Has(<<>>, p)
      BY DEF Has
    <3> QED BY <1>2, <1>3, <2>1, <3>1 DEF Behind, Rests
  <2>4. \A p \in Shots : Behind(p)' => Behind(p)
    BY <2>3 DEF Behind
  <2>5. \A p \in Shots : Coming(p)' <=> Coming(p)
    BY <1>3 DEF Coming, ToCome
  <2>6. \A p \in Shots : Used(p) => entry.at # p
    BY <1>9, <2>1 DEF OnceInv
  <2>7. \A p \in Shots : Used(p)' => Used(p) \/ n.shot = p
    BY <1>3 DEF Used
  <2>8. n.shot # NoPlace => n.shot \in Shots /\ made[n.shot] = 0 /\
          \A c \in creating : ~c.stored => c.shot # n.shot
    <3> SUFFICES ASSUME n.shot # NoPlace
                 PROVE  /\ n.shot \in Shots /\ made[n.shot] = 0
                        /\ \A c \in creating : ~c.stored => c.shot # n.shot
      OBVIOUS
    <3>1. n.shot \in Shots /\ entry.at = n.shot
      BY <1>2 DEF Creations
    <3>2. ~Used(n.shot)
      BY <2>6, <3>1
    <3>3. made[n.shot] \in Nat
      BY <3>1 DEF WorkInv
    <3> QED BY <3>1, <3>2, <3>3 DEF Used
  <2>9. \A p \in Shots : made'[p] <= 1
    BY <1>3, <2>1 DEF OnceInv
  <2>10. \A c \in creating' : ~c.stored /\ c.shot # NoPlace => made'[c.shot] = 0
    BY <1>3, <2>1, <2>8 DEF OnceInv
  <2>11. \A c, d \in creating' :
           ~c.stored /\ ~d.stored /\ c.shot # NoPlace /\ c.shot = d.shot => c = d
    BY <1>3, <2>1, <2>8 DEF OnceInv
  <2>12. ASSUME NEW p \in Shots, Used(p)'
         PROVE  ~Behind(p)' /\ ~Coming(p)'
                  /\ (entry'.at = p => \E c \in creating' : c.form /\ c.shot = p)
    <3>1. CASE n.shot = p
      <4>1. entry.at = p
        BY <1>2, <3>1
      <4>2. ~Behind(p) /\ ~Coming(p)
        BY <2>1, <4>1 DEF OnceInv
      <4> QED BY <1>2, <1>3, <2>4, <2>5, <3>1, <4>2
    <3>2. CASE Used(p)
      <4>1. ~Behind(p) /\ ~Coming(p) /\ entry.at # p
        BY <2>1, <2>6, <3>2 DEF OnceInv
      <4> QED BY <2>2, <2>4, <2>5, <4>1
    <3> QED BY <2>7, <2>12, <3>1, <3>2
  <2>13. \A p \in Shots : entry'.at = p => ~Behind(p)' /\ ~Coming(p)'
    BY <2>1, <2>2, <2>4, <2>5 DEF OnceInv
  <2>14. \A p \in Shots : Coming(p)' => ~Behind(p)'
    BY <2>1, <2>4, <2>5 DEF OnceInv
  <2>15. \A c, d \in creating' : c.rest # <<>> /\ d.rest # <<>> => c = d
    BY <1>3, <2>1
  <2> QED BY <2>9, <2>10, <2>11, <2>12, <2>13, <2>14, <2>15 DEF OnceInv
<1> QED BY <1>6, <1>7, <1>8, <1>10, <1>11


-----------------------------------------------------------------------------
(* The answers *)

Stored(c) == [c EXCEPT !.stored = TRUE]

LEMMA StoredIs ==
  ASSUME NEW c \in Creations
  PROVE  /\ Stored(c) \in Creations /\ Stored(c).stored = TRUE /\ Stored(c).shot = c.shot
         /\ Stored(c).rest = c.rest /\ Stored(c).form = c.form /\ Stored(c).no = c.no
BY DEF Stored, Creations

LEMMA StoredWork ==
  ASSUME WorkInv, NEW c \in creating, ~c.stored,
         creating' = (creating \ {c}) \cup {Stored(c)},
         made' = IF c.shot = NoPlace THEN made ELSE [made EXCEPT ![c.shot] = @ + 1],
         UNCHANGED <<asked, typings, forked>>
  PROVE  WorkInv'
<1>1. PICK s : s = Stored(c)
  OBVIOUS
<1>2. s \in Creations /\ s.stored = TRUE /\ c \in Creations
  BY <1>1, StoredIs DEF WorkInv
<1>3. PICK rest : rest = creating \ {c}
  OBVIOUS
<1>4. PICK n : n = Cardinality(creating)
  OBVIOUS
<1>5. PICK u : u = Cardinality(Underway(creating))
  OBVIOUS
<1>6. /\ IsFiniteSet(creating) /\ n \in Nat /\ IsFiniteSet(Underway(creating)) /\ u \in Nat
  BY <1>4, <1>5, FewerUnderway DEF WorkInv
<1>7. IsFiniteSet(rest) /\ Cardinality(rest) = n - 1
  BY <1>3, <1>4, <1>6, FS_RemoveElement
<1>8. IsFiniteSet(creating') /\ Cardinality(creating') <= n /\ Cardinality(creating') \in Nat
  <2>1. creating' = rest \cup {s}
    BY <1>1, <1>3
  <2>2. /\ IsFiniteSet(creating')
        /\ Cardinality(creating') = IF s \in rest THEN Cardinality(rest) ELSE Cardinality(rest) + 1
    BY <1>7, <2>1, FS_AddElement
  <2>3. Cardinality(creating') \in Nat
    BY <2>2, FS_CardinalityType
  <2> QED BY <1>6, <1>7, <2>2, <2>3
<1>9. Cardinality(Underway(creating')) = u - 1
  <2>1. Underway(creating') = Underway(creating) \ {c}
    BY <1>1, <1>2 DEF Underway
  <2>2. c \in Underway(creating)
    BY DEF Underway
  <2> QED BY <1>5, <1>6, <2>1, <2>2, FS_RemoveElement
<1>10. creating' \in SUBSET Creations
  BY <1>1, <1>2 DEF WorkInv
<1>11. Cardinality(creating') <= MaxCreating
  <2>1. n <= MaxCreating /\ MaxCreating \in Nat
    BY <1>4, PhotoFacts DEF WorkInv
  <2> QED BY <1>6, <1>8, <2>1
<1>12. made' \in [Shots -> Nat]
  <2>1. made \in [Shots -> Nat] /\ c.shot \in Shots \cup {NoPlace}
    BY <1>2 DEF WorkInv, Creations
  <2>2. CASE c.shot = NoPlace
    BY <2>1, <2>2
  <2>3. CASE c.shot # NoPlace
    <3>1. made[c.shot] + 1 \in Nat
      BY <2>1, <2>3
    <3> QED BY <2>1, <2>3, <3>1
  <2> QED BY <2>2, <2>3
<1>13. ASSUME NEW p \in Shots
       PROVE  made'[p] + Cardinality(Underway(creating')) <= asked'
  <2>1. made[p] + u <= asked /\ made[p] \in Nat /\ asked \in Nat
    BY <1>5 DEF WorkInv
  <2>2. made'[p] = made[p] \/ made'[p] = made[p] + 1
    BY DEF WorkInv
  <2>3. made'[p] + (u - 1) <= asked
    BY <1>6, <2>1, <2>2
  <2> QED BY <1>9, <2>3
<1> QED BY <1>8, <1>10, <1>11, <1>12, <1>13 DEF WorkInv

LEMMA StoredOnce ==
  ASSUME CreationInv, NEW c \in creating, ~c.stored,
         creating' = (creating \ {c}) \cup {Stored(c)},
         made' = IF c.shot = NoPlace THEN made ELSE [made EXCEPT ![c.shot] = @ + 1],
         UNCHANGED <<handoff, entry, forked, extractor, extracting, extracted>>
  PROVE  OnceInv'
<1> SUFFICES ASSUME ~forked
             PROVE  OnceInv'
  BY DEF OnceInv
<1> USE DEF CreationInv
<1>1. PICK s : s = Stored(c)
  OBVIOUS
<1>2. /\ s.stored = TRUE /\ s.shot = c.shot /\ s.rest = c.rest /\ s.form = c.form
      /\ creating' = (creating \ {c}) \cup {s} /\ c.shot \in Shots \cup {NoPlace}
  BY <1>1, StoredIs DEF WorkInv, Creations
<1>3. \A p \in Shots : made'[p] = IF c.shot = p THEN made[p] + 1 ELSE made[p]
  BY PhotoFacts DEF WorkInv
<1>4. \A p \in Shots : c.shot = p => made[p] = 0 /\ Used(p)
  BY PhotoFacts DEF OnceInv, Used
<1>5. \A p \in Shots : made'[p] <= 1
  BY <1>3, <1>4 DEF OnceInv, WorkInv
<1>6. ASSUME NEW d \in creating', ~d.stored, d.shot # NoPlace
      PROVE  made'[d.shot] = 0
  <2>1. d \in creating /\ d # c
    BY <1>2, <1>6
  <2>2. d.shot # c.shot /\ made[d.shot] = 0 /\ d.shot \in Shots
    BY <1>6, <2>1 DEF OnceInv, WorkInv, Creations
  <2> QED BY <1>3, <2>2
<1>7. ASSUME NEW d \in creating', NEW e \in creating',
             ~d.stored, ~e.stored, d.shot # NoPlace, d.shot = e.shot
      PROVE  d = e
  <2>1. d \in creating /\ e \in creating
    BY <1>2, <1>7
  <2> QED BY <1>7, <2>1 DEF OnceInv
<1>8. \A p \in Shots : Used(p)' => Used(p)
  <2> SUFFICES ASSUME NEW p \in Shots, Used(p)'
               PROVE  Used(p)
    OBVIOUS
  <2>1. CASE made'[p] > 0
    BY <1>3, <1>4, <2>1 DEF Used
  <2>2. CASE \E d \in creating' : ~d.stored /\ d.shot = p
    BY <1>2, <2>2 DEF Used
  <2> QED BY <2>1, <2>2 DEF Used
<1>9. \A p \in Shots : Behind(p)' => Behind(p)
  BY <1>2 DEF Behind, Rests, Has
<1>10. \A p \in Shots : Coming(p)' => Coming(p)
  BY DEF Coming, ToCome
<1>11. \A p \in Shots :
         (\E d \in creating : d.form /\ d.shot = p) => \E d \in creating' : d.form /\ d.shot = p
  BY <1>2
<1>12. \A p \in Shots : Used(p)' =>
         ~Behind(p)' /\ ~Coming(p)' /\ (entry'.at = p => \E d \in creating' : d.form /\ d.shot = p)
  BY <1>8, <1>9, <1>10, <1>11 DEF OnceInv
<1>13. \A p \in Shots : entry'.at = p => ~Behind(p)' /\ ~Coming(p)'
  BY <1>9, <1>10 DEF OnceInv
<1>14. \A p \in Shots : Coming(p)' => ~Behind(p)'
  BY <1>9, <1>10 DEF OnceInv
<1>15. ASSUME NEW d \in creating', NEW e \in creating', d.rest # <<>>, e.rest # <<>>
       PROVE  d = e
  BY <1>2, <1>15 DEF OnceInv
<1> QED BY <1>5, <1>6, <1>7, <1>12, <1>13, <1>14, <1>15 DEF OnceInv

LEMMA StoredKeeps ==
  ASSUME CreationInv, NEW c \in creating, Creation!EntityStored(c)
  PROVE  CreationInv'
<1> USE DEF CreationInv
<1>1. /\ ~c.stored /\ creating' = (creating \ {c}) \cup {Stored(c)}
      /\ made' = IF c.shot = NoPlace THEN made ELSE [made EXCEPT ![c.shot] = @ + 1]
      /\ UNCHANGED <<drawTool, sketch, pending, handoff, entry, lookup, asked, forked, typings,
                     extractor, extracting, extracted>>
  BY DEF Creation!EntityStored, Stored
<1>2. /\ Stored(c).form = c.form /\ Stored(c).no = c.no /\ Stored(c).rest = c.rest
  BY StoredIs DEF WorkInv
<1>3. PICK s : s = Stored(c)
  OBVIOUS
<1>4. FormInv' /\ PhotosInv'
  BY <1>1 DEF FormInv, AltPlace, Bare, PhotosInv
<1>5. HandInv'
  <2>1. \A d \in creating' : Lined(d.rest)
    BY <1>1, <1>2 DEF HandInv
  <2> QED BY <1>1, <2>1 DEF HandInv, Lined
<1>6. SentInv'
  <2>1. creating' = (creating \ {c}) \cup {s} /\ s.form = c.form /\ s.no = c.no
    BY <1>1, <1>2, <1>3
  <2>2. \A d, e \in creating' : d.form /\ e.form => d = e
    BY <2>1 DEF SentInv
  <2>3. \A d, e \in creating' : d.no = e.no => d = e
    BY <2>1 DEF SentInv
  <2>4. \A d \in creating' : d.no < asked'
    BY <1>1, <2>1 DEF SentInv
  <2>5. entry'.sent <=> \E d \in creating' : d.form
    BY <1>1, <2>1 DEF SentInv
  <2> QED BY <2>2, <2>3, <2>4, <2>5 DEF SentInv
<1>7. WorkInv'
  BY <1>1, StoredWork
<1>8. OnceInv'
  BY <1>1, StoredOnce
<1> QED BY <1>4, <1>5, <1>6, <1>7, <1>8

LEMMA RefusedKeeps ==
  ASSUME CreationInv, NEW c \in creating, Creation!EntityRefused(c)
  PROVE  CreationInv'
<1> USE DEF CreationInv
<1>1. /\ ~c.stored /\ creating' = creating \ {c}
      /\ entry' = IF c.form THEN [entry EXCEPT !.sent = FALSE] ELSE entry
      /\ UNCHANGED <<lookup, typings, drawTool, sketch, pending, handoff, made, asked, forked,
                     extractor, extracting, extracted>>
  BY DEF Creation!EntityRefused, Creation!FormOnly
<1>2. c \in Creations /\ c.form \in BOOLEAN /\ entry \in Forms
  BY DEF WorkInv, Creations, FormInv
<1>3. FormInv'
  <2>1. CASE c.form
    BY <1>1, <2>1, SentKeeps
  <2>2. CASE ~c.form
    BY <1>1, <2>2 DEF FormInv, AltPlace, Bare
  <2> QED BY <2>1, <2>2
<1>4. entry'.at = entry.at
  BY <1>1, <1>2 DEF Forms
<1>5. WorkInv'
  <2>1. typings' \in Nat /\ asked + typings' <= MaxMade
    BY <1>1 DEF WorkInv
  <2> QED BY <1>1, <2>1, WorkKept
<1>6. HandInv' /\ PhotosInv'
  <2>1. \A d \in creating' : Lined(d.rest)
    BY <1>1 DEF HandInv
  <2> QED BY <1>1, <2>1 DEF HandInv, Lined, PhotosInv
<1>7. SentInv'
  <2>1. entry'.sent <=> \E d \in creating' : d.form
    <3>1. CASE c.form
      <4>1. entry'.sent = FALSE
        BY <1>1, <1>2, <3>1 DEF Forms
      <4>2. \A d \in creating' : ~d.form
        BY <1>1, <3>1 DEF SentInv
      <4> QED BY <4>1, <4>2
    <3>2. CASE ~c.form
      BY <1>1, <3>2 DEF SentInv
    <3> QED BY <3>1, <3>2
  <2> QED BY <1>1, <2>1 DEF SentInv
<1>8. OnceInv'
  <2> SUFFICES ASSUME ~forked
               PROVE  OnceInv'
    BY <1>1 DEF OnceInv
  <2>1. \A p \in Shots : Used(p)' => Used(p) /\ c.shot # p
    <3> SUFFICES ASSUME NEW p \in Shots, Used(p)'
                 PROVE  Used(p) /\ c.shot # p
      OBVIOUS
    <3>1. Used(p)
      BY <1>1 DEF Used
    <3>2. c.shot = p => made[p] = 0 /\ \A d \in creating : ~d.stored /\ d.shot = p => d = c
      BY <1>1, PhotoFacts DEF OnceInv
    <3> QED BY <1>1, <3>1, <3>2 DEF Used
  <2>2. \A p \in Shots : Behind(p)' => Behind(p)
    BY <1>1 DEF Behind, Rests
  <2>3. \A p \in Shots : Coming(p)' => Coming(p)
    BY <1>1 DEF Coming, ToCome
  <2>4. \A p \in Shots : Used(p)' /\ entry'.at = p => \E d \in creating' : d.form /\ d.shot = p
    BY <1>1, <1>4, <2>1 DEF OnceInv
  <2> QED BY <1>1, <1>4, <2>1, <2>2, <2>3, <2>4 DEF OnceInv
<1> QED BY <1>3, <1>5, <1>6, <1>7, <1>8


\* The creation has been shown and nothing waits behind it: whatever is pending is dropped.
LEMMA ShownLastKeeps ==
  ASSUME CreationInv, NEW c \in creating, c.rest = <<>>, Creation!EntityShown(c)
  PROVE  CreationInv'
<1> USE DEF CreationInv
<1>1. /\ Creation!Advance(c)
      /\ UNCHANGED <<made, asked, forked, typings, extractor, extracting, extracted>>
  BY DEF Creation!EntityShown
<1>2. c \in Creations /\ handoff.hint \in Creation!Types
  BY DEF WorkInv, HandInv, Handoffs
<1>3. FormInv'
  <2>1. c.form \in BOOLEAN /\ c.rest \in Seq(Shots)
    BY <1>2 DEF Creations
  <2>2. FormInv
    OBVIOUS
  <2> QED BY ONLY <1>1, <1>2, <2>1, <2>2, AdvanceKeepsForm
<1>4. /\ handoff' = Creation!NoHandoff /\ entry' = Creation!Closed
      /\ creating' = Creation!Orphaned(creating \ {c})
      /\ UNCHANGED <<drawTool, sketch>>
  BY <1>1, DrawingsThere DEF Creation!Advance, Creation!FormsOf
<1>5. creating \ {c} \in SUBSET creating
  OBVIOUS
<1>6. WorkInv'
  <2>1. typings' \in Nat /\ asked + typings' <= MaxMade
    BY <1>1 DEF WorkInv
  <2> QED BY <1>1, <1>4, <1>5, <2>1, WorkKept
<1>7. handoff' \in Handoffs /\ handoff'.queue = <<>>
  BY <1>4, HandoffFacts
<1>8. HandInv'
  <2>1. /\ drawTool' \in Creation!DrawTools /\ sketch' \in Spots \cup {NoPlace}
        /\ Lined(handoff'.queue)
    BY <1>4, <1>7 DEF HandInv, Lined
  <2> QED BY <1>4, <1>5, <1>7, <2>1, HandKept
<1>9. entry'.sent = FALSE /\ entry'.at \notin Shots
  BY <1>4, ClosedForm, PhotoFacts
<1>10. SentInv' /\ PhotosInv'
  BY <1>1, <1>4, <1>5, <1>9, SentClosed DEF PhotosInv
<1>11. OnceInv'
  <2>1. \A f \in PhotoSets : ToCome(f)' => ToCome(f)
    BY <1>1 DEF ToCome
  <2> QED BY <1>1, <1>4, <1>5, <1>7, <1>9, <2>1, OnceClosed
<1> QED BY <1>3, <1>6, <1>8, <1>10, <1>11

\* What the next photo of the queue brings.
LEMMA NextIs ==
  ASSUME CreationInv, NEW c \in creating, c.rest # <<>>, Creation!EntityShown(c)
  PROVE  /\ FormInv'
         /\ handoff' = [queue |-> Tail(c.rest), lens |-> Head(c.rest), hint |-> handoff.hint]
         /\ entry'.at = Head(c.rest) /\ pending'.point = Head(c.rest)
         /\ entry'.sent = (entry.sent /\ ~c.form)
         /\ creating' = creating \ {c} /\ drawTool' = "select" /\ sketch' = NoPlace
         /\ UNCHANGED <<made, asked, forked, typings, extractor, extracting, extracted>>
<1> USE DEF CreationInv
<1>1. /\ Creation!Advance(c)
      /\ UNCHANGED <<made, asked, forked, typings, extractor, extracting, extracted>>
  BY DEF Creation!EntityShown
<1>2. c \in Creations /\ handoff.hint \in Creation!Types /\ entry \in Forms
  BY DEF WorkInv, HandInv, Handoffs, FormInv
<1>3. c.form \in BOOLEAN /\ c.rest \in Seq(Shots)
  BY <1>2 DEF Creations
<1>4. FormInv'
  BY <1>1, <1>2, <1>3, AdvanceKeepsForm
<1>5. PICK h : h = Head(c.rest)
  OBVIOUS
<1>6. h \in Place \ {NoPlace}
  BY <1>3, <1>5, LineEnds, PhotoFacts
<1>7. Creation!Shown(At(h)) /\ At(h).point = h
  BY <1>6, DrawingsThere
<1>8. /\ handoff' = [queue |-> Tail(c.rest), lens |-> Head(c.rest), hint |-> handoff.hint]
      /\ pending' = At(h)
      /\ entry' = IF entry.on THEN [entry EXCEPT !.at = At(h).point, !.sent = @ /\ ~c.form]
                  ELSE [Creation!Closed EXCEPT !.on = TRUE, !.type = handoff.hint,
                    !.at = At(h).point]
      /\ creating' = creating \ {c} /\ drawTool' = "select" /\ sketch' = NoPlace
  BY <1>1, <1>5, <1>7 DEF Creation!Advance, At, Creation!FormsOf
<1>9. entry'.at = h /\ entry'.sent = (entry.sent /\ ~c.form)
  <2>1. CASE entry.on
    <3>1. entry' = [entry EXCEPT !.at = h, !.sent = @ /\ ~c.form]
      BY <1>7, <1>8, <2>1
    <3> QED BY <1>2, <3>1 DEF Forms
  <2>2. CASE ~entry.on
    <3>1. entry' = [Creation!Closed EXCEPT !.on = TRUE, !.type = handoff.hint, !.at = h]
      BY <1>7, <1>8, <2>2
    <3>2. entry.sent = FALSE
      BY <2>2, ClosedForm DEF FormInv
    <3>3. entry'.at = h /\ entry'.sent = FALSE
      BY <3>1 DEF Creation!Closed
    <3> QED BY <3>2, <3>3
  <2> QED BY <2>1, <2>2
<1> QED BY <1>1, <1>4, <1>5, <1>7, <1>8, <1>9

LEMMA ShownNextKeeps ==
  ASSUME CreationInv, NEW c \in creating, c.rest # <<>>, Creation!EntityShown(c)
  PROVE  CreationInv'
<1> USE DEF CreationInv
<1>1. PICK h : h = Head(c.rest)
  OBVIOUS
<1>2. PICK t : t = Tail(c.rest)
  OBVIOUS
<1>3. /\ FormInv' /\ handoff' = [queue |-> t, lens |-> h, hint |-> handoff.hint]
      /\ entry'.at = h /\ entry'.sent = (entry.sent /\ ~c.form)
      /\ creating' = creating \ {c} /\ drawTool' = "select" /\ sketch' = NoPlace
      /\ UNCHANGED <<made, asked, forked, typings, extractor, extracting, extracted>>
  BY <1>1, <1>2, NextIs
<1>4. c \in Creations /\ handoff.hint \in Creation!Types /\ c.rest \in Seq(Shots)
        /\ c.form \in BOOLEAN
  BY DEF WorkInv, HandInv, Handoffs, Creations
<1>5. PICK f \in PhotoSets : Follows(c.rest, f)
  BY DEF HandInv, Lined
<1>6. f \in Seq(Shots) /\ \A i, j \in 1..Len(f) : f[i] = f[j] => i = j
  BY PhotoFacts
<1>7. t \in Seq(Shots) /\ h \in Shots /\ Has(c.rest, h) /\ \A p : Has(t, p) => Has(c.rest, p)
  BY <1>1, <1>2, <1>4, LineEnds
<1>8. ~Has(t, h) /\ Follows(t, f)
  BY <1>1, <1>2, <1>4, <1>5, <1>6, HeadIsNotBehind, LineGoesOn
<1>9. WorkInv'
  <2>1. typings' \in Nat /\ asked + typings' <= MaxMade
    BY <1>3 DEF WorkInv
  <2> QED BY <1>3, <2>1, WorkKept
<1>10. HandInv'
  <2>1. handoff' \in Handoffs /\ handoff'.queue = t
    BY <1>3, <1>4, <1>7 DEF Handoffs
  <2>2. Lined(handoff'.queue)
    BY <1>8, <2>1 DEF Lined
  <2>3. drawTool' \in Creation!DrawTools /\ sketch' \in Spots \cup {NoPlace}
    BY <1>3 DEF Creation!DrawTools
  <2> QED BY <1>3, <2>1, <2>2, <2>3, HandKept
<1>11. SentInv' /\ PhotosInv'
  <2>1. entry'.sent <=> \E d \in creating' : d.form
    BY <1>3 DEF SentInv
  <2> QED BY <1>3, <2>1 DEF SentInv, PhotosInv
<1>12. OnceInv'
  <2> SUFFICES ASSUME ~forked
               PROVE  OnceInv'
    BY <1>3 DEF OnceInv
  <2>1. handoff'.queue = t
    BY <1>3
  <2>2. \A p \in Shots : Used(p)' => Used(p)
    BY <1>3 DEF Used
  <2>3. \A d \in creating' : d.rest = <<>>
    BY <1>3 DEF OnceInv
  <2>4. \A p : ~Has(<<>>, p)
    BY DEF Has
  <2>5. \A p : Rests(p)' => FALSE
    BY <2>3, <2>4 DEF Rests
  <2>6. \A p \in Shots : Behind(p)' => Has(t, p)
    BY <2>1, <2>5 DEF Behind
  <2>7. \A p \in Shots : Behind(p)' => Behind(p)
    BY <1>7, <2>6 DEF Behind, Rests
  <2>8. \A p \in Shots : Coming(p)' => Coming(p)
    BY <1>3 DEF Coming, ToCome
  <2>9. Behind(h) /\ ~Used(h) /\ ~Coming(h)
    <3>1. Behind(h)
      BY <1>7 DEF Behind, Rests
    <3> QED BY <1>7, <3>1 DEF OnceInv
  <2>10. ~Behind(h)'
    BY <1>7, <1>8, <2>6
  <2>11. \A p \in Shots : Used(p)' => ~Behind(p)' /\ ~Coming(p)' /\ entry'.at # p
    BY <1>3, <2>2, <2>7, <2>8, <2>9 DEF OnceInv
  <2>12. \A p \in Shots : entry'.at = p => ~Behind(p)' /\ ~Coming(p)'
    BY <1>3, <2>8, <2>9, <2>10
  <2>13. \A p \in Shots : Coming(p)' => ~Behind(p)'
    BY <2>7, <2>8 DEF OnceInv
  <2>14. /\ \A p \in Shots : made'[p] <= 1
         /\ \A d \in creating' : ~d.stored /\ d.shot # NoPlace => made'[d.shot] = 0
         /\ \A d, e \in creating' :
              ~d.stored /\ ~e.stored /\ d.shot # NoPlace /\ d.shot = e.shot => d = e
    BY <1>3 DEF OnceInv
  <2> QED BY <2>3, <2>11, <2>12, <2>13, <2>14 DEF OnceInv
<1> QED BY <1>3, <1>9, <1>10, <1>11, <1>12

LEMMA FillKeeps ==
  ASSUME CreationInv, Creation!Fill
  PROVE  CreationInv'
<1>1. CASE \/ \E type \in Creation!Types : Creation!handleCategoryChange(type)
           \/ \E a \in Spots \cup {NoPlace} : Creation!setManualPosition(a)
           \/ Creation!handleAltChange
           \/ Creation!AltitudeResolved
  BY <1>1, FormEditsKeep
<1>2. CASE Creation!handleSubmit
  BY <1>2, SubmitKeeps
<1>3. CASE \E c \in creating : Creation!EntityStored(c) \/ Creation!EntityRefused(c)
  BY <1>3, StoredKeeps, RefusedKeeps
<1>4. CASE \E c \in creating : Creation!EntityShown(c)
  BY <1>4, ShownLastKeeps, ShownNextKeeps
<1> QED BY <1>1, <1>2, <1>3, <1>4 DEF Creation!Fill


-----------------------------------------------------------------------------
(* Positions taken from photos *)

\* The dialog alone.
LEMMA DialogKeeps ==
  ASSUME CreationInv, Creation!PhotosOnly, PhotosInv',
         \A f \in PhotoSets : ToCome(f)' => ToCome(f)
  PROVE  CreationInv'
<1> USE DEF CreationInv
<1>1. UNCHANGED <<drawTool, sketch, pending, handoff, entry, lookup, creating, made, asked, forked,
                  typings>>
  BY DEF Creation!PhotosOnly
<1>2. FormInv' /\ WorkInv' /\ SentInv'
  BY <1>1 DEF FormInv, AltPlace, Bare, WorkInv, SentInv
<1>3. HandInv'
  BY <1>1 DEF HandInv, Lined
<1>4. OnceInv'
  BY <1>1, OnceKept
<1> QED BY <1>2, <1>3, <1>4

LEMMA OpenedKeeps ==
  ASSUME CreationInv, Creation!onExtractFromImage
  PROVE  CreationInv'
<1>1. /\ extractor' = [open |-> TRUE, items |-> <<>>] /\ UNCHANGED <<extracting, extracted>>
      /\ Creation!PhotosOnly
  BY DEF Creation!onExtractFromImage
<1>2. PhotosInv'
  BY <1>1 DEF CreationInv, PhotosInv
<1>3. \A f \in PhotoSets : ToCome(f)' => ToCome(f)
  BY <1>1, PhotoFacts DEF ToCome
<1> QED BY <1>1, <1>2, <1>3, DialogKeeps

LEMMA ChosenKeeps ==
  ASSUME CreationInv, NEW g \in PhotoSets, Creation!handleFiles(g)
  PROVE  CreationInv'
<1>1. /\ g \notin extracted /\ extracting' = extracting \cup {g} /\ extracted' = extracted \cup {g}
      /\ UNCHANGED extractor /\ Creation!PhotosOnly
  BY DEF Creation!handleFiles
<1>2. PhotosInv'
  BY <1>1 DEF CreationInv, PhotosInv
<1>3. \A f \in PhotoSets : ToCome(f)' => ToCome(f)
  BY <1>1 DEF ToCome
<1> QED BY <1>1, <1>2, <1>3, DialogKeeps

LEMMA ReadKeeps ==
  ASSUME CreationInv, NEW g \in extracting, Creation!PhotosRead(g)
  PROVE  CreationInv'
<1>1. PICK items \in {g, extractor.items} : extractor' = [extractor EXCEPT !.items = items]
  BY DEF Creation!PhotosRead
<1>2. extracting' = extracting \ {g} /\ UNCHANGED extracted /\ Creation!PhotosOnly
  BY DEF Creation!PhotosRead
<1>3. /\ extractor \in [open : BOOLEAN, items : PhotoSets \cup {<<>>}]
      /\ extracting \subseteq extracted /\ extracted \subseteq PhotoSets
      /\ extractor.items # <<>> => extractor.items \in extracted \ extracting
  BY DEF CreationInv, PhotosInv
<1>4. /\ extractor' \in [open : BOOLEAN, items : PhotoSets \cup {<<>>}]
      /\ extractor'.open = extractor.open /\ extractor'.items = items
  BY <1>1, <1>3
<1>5. PhotosInv'
  BY <1>1, <1>2, <1>3, <1>4 DEF PhotosInv
<1>6. \A f \in PhotoSets : ToCome(f)' => ToCome(f)
  BY <1>1, <1>2, <1>4 DEF ToCome
<1> QED BY <1>2, <1>5, <1>6, DialogKeeps

LEMMA LeftKeeps ==
  ASSUME CreationInv, Creation!closeExtractor
  PROVE  CreationInv'
<1>1. /\ extractor' = [extractor EXCEPT !.open = FALSE] /\ UNCHANGED <<extracting, extracted>>
      /\ Creation!PhotosOnly
  BY DEF Creation!closeExtractor
<1>2. extractor'.open = FALSE /\ extractor'.items = extractor.items
      /\ extractor' \in [open : BOOLEAN, items : PhotoSets \cup {<<>>}]
  BY <1>1 DEF CreationInv, PhotosInv
<1>3. PhotosInv'
  BY <1>1, <1>2 DEF CreationInv, PhotosInv
<1>4. \A f \in PhotoSets : ToCome(f)' => ToCome(f)
  BY <1>1, <1>2 DEF ToCome
<1> QED BY <1>1, <1>3, <1>4, DialogKeeps

\* What is handed over to the form: one photo after the other, or all of them as an outline.
LEMMA HandedOver ==
  ASSUME CreationInv, NEW type \in Creation!Types, Creation!handleConfirm(type)
  PROVE  /\ extractor.open /\ extractor.items \in PhotoSets
         /\ extractor.items \in extracted \ extracting
         /\ extractor' \in [open : BOOLEAN, items : PhotoSets \cup {<<>>}]
         /\ extractor'.open = FALSE /\ extractor'.items = extractor.items
         /\ UNCHANGED <<creating, made, asked, forked, typings, extracting, extracted>>
         /\ drawTool' = "select" /\ sketch' = NoPlace
         /\ handoff' \in Handoffs
         /\ \E p \in Drawings :
              /\ Creation!Show(p, handoff.hint) /\ Creation!Shown(p)
              /\ \/ p.point = NoPlace /\ handoff'.queue = <<>>
                 \/ /\ p.point = Head(extractor.items) /\ handoff'.queue = Tail(extractor.items)
                    /\ handoff'.queue # <<>> => handoff'.lens = p.point
<1> USE DEF CreationInv
<1>1. PICK f : f = extractor.items
  OBVIOUS
<1>2. /\ extractor.open /\ f # <<>> /\ type \in Creation!targetOptionsForCount(Len(f))
      /\ extractor' = [extractor EXCEPT !.open = FALSE]
      /\ Creation!beginExtractorHandoff(type)
      /\ UNCHANGED <<made, asked, forked, typings, extracting, extracted>>
  BY <1>1 DEF Creation!handleConfirm
<1>3. f \in PhotoSets /\ f \in extracted \ extracting
  BY <1>1, <1>2 DEF PhotosInv
<1>4. /\ extractor' \in [open : BOOLEAN, items : PhotoSets \cup {<<>>}]
      /\ extractor'.open = FALSE /\ extractor'.items = extractor.items
  BY <1>2 DEF PhotosInv
<1>5. f \in Seq(Shots) /\ Head(f) \in Shots /\ Tail(f) \in Seq(Shots) /\ Len(Tail(f)) = Len(f) - 1
  BY <1>2, <1>3, PhotoFacts, LineEnds
<1>6. CASE type \in {"surface", "obstacle"}
  <2>1. PICK p : p = [Creation!Nothing EXCEPT !.geom = "polygon"]
    OBVIOUS
  <2>2. p \in Drawings /\ Creation!Shown(p) /\ p.point = NoPlace
    BY <2>1, DrawingsThere
  <2>3. /\ handoff' = [queue |-> <<>>, lens |-> NoPlace, hint |-> type] /\ Creation!Completed(p)
    BY <1>2, <1>6, <2>1 DEF Creation!beginExtractorHandoff
  <2>4. handoff' \in Handoffs /\ handoff'.queue = <<>>
    BY <2>3 DEF Handoffs
  <2>5. /\ Creation!Show(p, handoff.hint) /\ drawTool' = "select" /\ sketch' = NoPlace
        /\ UNCHANGED creating
    BY <2>3 DEF Creation!Completed
  <2> QED BY <1>1, <1>2, <1>3, <1>4, <2>2, <2>4, <2>5
<1>7. CASE type \notin {"surface", "obstacle"}
  <2>1. PICK h : h = Head(f)
    OBVIOUS
  <2>2. h \in Place \ {NoPlace}
    BY <1>5, <2>1, PhotoFacts
  <2>3. At(h) \in Drawings /\ Creation!Shown(At(h)) /\ At(h).point = h
    BY <2>2, DrawingsThere
  <2>4. /\ handoff' = [queue |-> Tail(f), lens |-> IF type = "lha" THEN h ELSE NoPlace,
             hint |-> type]
        /\ Creation!Completed(At(h))
    BY <1>1, <1>2, <1>7, <2>1 DEF Creation!beginExtractorHandoff, At
  <2>5. handoff' \in Handoffs /\ handoff'.queue = Tail(f)
    BY <1>5, <2>1, <2>4 DEF Handoffs
  <2>6. /\ Creation!Show(At(h), handoff.hint) /\ drawTool' = "select" /\ sketch' = NoPlace
        /\ UNCHANGED creating
    BY <2>4 DEF Creation!Completed
  <2>7. handoff'.queue # <<>> => handoff'.lens = h
    <3>1. type = "lha" \/ (type = "agl" /\ Len(f) = 1)
      BY <1>2, <1>7 DEF Creation!targetOptionsForCount
    <3>2. Len(f) = 1 => Tail(f) = <<>>
      <4>1. Len(f) = 1 => Len(Tail(f)) = 0
        BY <1>5
      <4> QED BY <1>5, <4>1, EmptySeq
    <3> QED BY <2>4, <2>5, <3>1, <3>2
  <2> QED BY <1>1, <1>2, <1>3, <1>4, <2>1, <2>3, <2>5, <2>6, <2>7
<1> QED BY <1>6, <1>7

LEMMA ConfirmKeeps ==
  ASSUME CreationInv, NEW type \in Creation!Types, Creation!handleConfirm(type)
  PROVE  CreationInv'
<1> USE DEF CreationInv
<1>1. PICK f : f = extractor.items
  OBVIOUS
<1>2. /\ extractor.open /\ f \in PhotoSets /\ f \in extracted \ extracting
      /\ extractor' \in [open : BOOLEAN, items : PhotoSets \cup {<<>>}]
      /\ extractor'.open = FALSE /\ extractor'.items = f
      /\ UNCHANGED <<creating, made, asked, forked, typings, extracting, extracted>>
      /\ drawTool' = "select" /\ sketch' = NoPlace /\ handoff' \in Handoffs
  BY <1>1, HandedOver
<1>3. PICK p \in Drawings :
        /\ Creation!Show(p, handoff.hint) /\ Creation!Shown(p)
        /\ \/ p.point = NoPlace /\ handoff'.queue = <<>>
           \/ p.point = Head(f) /\ handoff'.queue = Tail(f)
  BY <1>1, HandedOver
<1>4. handoff.hint \in Creation!Types
  BY HandoffFacts
<1>5. /\ f \in Seq(Shots) /\ f # <<>> /\ \A i, j \in 1..Len(f) : f[i] = f[j] => i = j
  BY <1>2, PhotoFacts
<1>6. PICK t : t = Tail(f)
  OBVIOUS
<1>7. PICK h : h = Head(f)
  OBVIOUS
<1>8. t \in Seq(Shots) /\ h \in Shots /\ Has(f, h) /\ \A q : Has(t, q) => Has(f, q)
  BY <1>5, <1>6, <1>7, LineEnds
<1>9. Follows(f, f)
  <2>1. Len(f) \in Nat
    BY <1>5, LenProperties
  <2> QED BY <2>1 DEF Follows
<1>10. Follows(t, f) /\ ~Has(t, h)
  BY <1>5, <1>6, <1>7, <1>9, LineGoesOn, HeadIsNotBehind
<1>11. FormInv'
  BY <1>3, <1>4, ShowKeeps
<1>12. entry'.sent = entry.sent /\ entry'.at \in {entry.at, p.point}
  BY <1>3, <1>4, ShowEffects
<1>13. WorkInv' /\ SentInv'
  BY <1>2, <1>12, SentKept DEF WorkInv
<1>14. HandInv'
  <2>1. Lined(handoff'.queue)
    BY <1>2, <1>3, <1>6, <1>10 DEF Lined
  <2>2. drawTool' \in Creation!DrawTools /\ sketch' \in Spots \cup {NoPlace}
    BY <1>2 DEF Creation!DrawTools
  <2> QED BY <1>2, <2>1, <2>2, HandKept
<1>15. PhotosInv'
  BY <1>2 DEF PhotosInv
<1>16. OnceInv'
  <2> SUFFICES ASSUME ~forked
               PROVE  OnceInv'
    BY <1>2 DEF OnceInv
  <2>1. \A q \in Shots : Used(q)' => Used(q)
    BY <1>2 DEF Used
  <2>2. ToCome(f)
    BY <1>1, <1>2 DEF ToCome
  <2>3. \A q \in Shots : Has(f, q) => Coming(q)
    BY <1>2, <2>2 DEF Coming
  <2>4. \A q \in Shots : Has(f, q) => ~Behind(q) /\ ~Used(q)
    BY <2>3 DEF OnceInv
  <2>5. \A q \in Shots : Coming(q)' => Coming(q) /\ ~Has(f, q)
    <3>1. \A g \in PhotoSets : ToCome(g)' => ToCome(g) /\ g # f
      BY <1>2 DEF ToCome
    <3> QED BY <1>2, <3>1, PhotoFacts DEF Coming
  <2>6. \A q \in Shots : Rests(q)' <=> Rests(q)
    BY <1>2 DEF Rests
  <2>7. \A q \in Shots : Behind(q)' => Behind(q) \/ (Has(t, q) /\ q # h)
    <3>1. \A q : ~Has(<<>>, q)
      BY DEF Has
    <3>2. \A q : Has(handoff'.queue, q) => Has(t, q)
      BY <1>3, <1>6, <3>1
    <3> QED BY <1>10, <2>6, <3>2 DEF Behind
  <2>8. \A q \in Shots : entry'.at = q => entry.at = q \/ q = h
    BY <1>3, <1>7, <1>12, PhotoFacts
  <2>9. ASSUME NEW q \in Shots, Used(q)'
        PROVE  /\ ~Behind(q)' /\ ~Coming(q)'
               /\ entry'.at = q => \E c \in creating' : c.form /\ c.shot = q
    <3>1. Used(q) /\ ~Has(f, q)
      BY <2>1, <2>4, <2>9
    <3>2. q # h /\ ~Has(t, q)
      BY <1>8, <3>1
    <3> QED BY <1>2, <2>5, <2>7, <2>8, <3>1, <3>2 DEF OnceInv
  <2>10. ASSUME NEW q \in Shots, entry'.at = q
         PROVE  ~Behind(q)' /\ ~Coming(q)'
    <3>1. CASE entry.at = q
      <4>1. ~Behind(q) /\ ~Coming(q)
        BY <3>1 DEF OnceInv
      <4>2. ~Has(t, q)
        BY <1>8, <2>3, <4>1
      <4> QED BY <2>5, <2>7, <4>1, <4>2
    <3>2. CASE q = h
      BY <1>8, <2>4, <2>5, <2>7, <3>2
    <3> QED BY <2>8, <2>10, <3>1, <3>2
  <2>11. ASSUME NEW q \in Shots, Coming(q)'
         PROVE  ~Behind(q)'
    <3>1. ~Has(t, q) /\ ~Behind(q)
      BY <1>8, <2>5, <2>11 DEF OnceInv
    <3> QED BY <2>7, <3>1
  <2>12. /\ \A q \in Shots : made'[q] <= 1
         /\ \A c \in creating' : ~c.stored /\ c.shot # NoPlace => made'[c.shot] = 0
         /\ \A c, d \in creating' :
              ~c.stored /\ ~d.stored /\ c.shot # NoPlace /\ c.shot = d.shot => c = d
         /\ \A c, d \in creating' : c.rest # <<>> /\ d.rest # <<>> => c = d
    BY <1>2 DEF OnceInv
  <2> QED BY <2>9, <2>10, <2>11, <2>12 DEF OnceInv
<1> QED BY <1>11, <1>13, <1>14, <1>15, <1>16

LEMMA PhotographKeeps ==
  ASSUME CreationInv, Creation!Photograph
  PROVE  CreationInv'
BY OpenedKeeps, ChosenKeeps, ReadKeeps, LeftKeeps, ConfirmKeeps DEF Creation!Photograph


-----------------------------------------------------------------------------
(* The drawing and creation page *)

LEMMA CreationRests ==
  ASSUME CreationInv, UNCHANGED creationVars
  PROVE  CreationInv'
<1> USE DEF CreationInv
<1>1. UNCHANGED <<drawTool, sketch, pending, handoff, entry, lookup, creating, made, asked,
                  forked, typings, extractor, extracting, extracted>>
  BY DEF creationVars
<1>2. FormInv' /\ WorkInv' /\ SentInv' /\ PhotosInv'
  BY <1>1 DEF FormInv, AltPlace, Bare, WorkInv, SentInv, PhotosInv
<1>3. HandInv'
  BY <1>1 DEF HandInv, Lined
<1>4. OnceInv'
  <2>1. \A f \in PhotoSets : ToCome(f)' => ToCome(f)
    BY <1>1 DEF ToCome
  <2> QED BY <1>1, <2>1, OnceKept
<1> QED BY <1>2, <1>3, <1>4

LEMMA CreationHolds == Spec => []CreationInv
<1>1. Init => CreationInv
  BY CreationStarts DEF Init
<1>2. CreationInv /\ [Next]_<<page, infraVars, creationVars, profileVars, planVars, tableVars>>
        => CreationInv'
  <2> SUFFICES ASSUME CreationInv,
                      [Next]_<<page, infraVars, creationVars, profileVars, planVars, tableVars>>
               PROVE  CreationInv'
    OBVIOUS
  <2>1. CASE UNCHANGED creationVars
    BY <2>1, CreationRests
  <2>2. CASE Creation!Next
    BY <2>2, DrawKeeps, FillKeeps, PhotographKeeps DEF Creation!Next
  <2> QED BY <2>1, <2>2 DEF Next
<1> QED BY <1>1, <1>2, PTL DEF Spec

\* What is drawn is created as it was drawn: one thing is pending at a time, an altitude belongs to
\* its place, and the position of a photo is created at most once, unless something was created
\* while an abandoned creation still had the queue to go on with - for every set of places and
\* photos and every number of creations under way (CreationWorkflow, useEntityCreation and
\* ImageExtractorDialog of the airport editor).
THEOREM CreationIsAsDrawn == Spec => []CreationFits
<1>1. CreationInv => CreationFits
  <2> SUFFICES ASSUME CreationInv
               PROVE  Creation!PendingIsOne /\ Creation!AltitudeOfPlace /\ Creation!CreatedOnce
    BY DEF CreationFits
  <2>1. Creation!PendingIsOne
    BY DEF CreationInv, FormInv, Drawings, Creation!PendingIsOne
  <2>2. Creation!AltitudeOfPlace
    <3>1. entry.typed \in BOOLEAN
      BY DEF CreationInv, FormInv, Forms
    <3>2. AltPlace # NoPlace /\ ~entry.typed =>
            \/ lookup = AltPlace \/ entry.alt = AltPlace
            \/ entry.bare = AltPlace /\ entry.alt = "none"
      BY DEF CreationInv, FormInv, Bare
    <3> QED BY <3>1, <3>2 DEF AltPlace, Creation!AltitudeOfPlace
  <2>3. Creation!CreatedOnce
    BY DEF CreationInv, OnceInv, Creation!CreatedOnce, Shots
  <2> QED BY <2>1, <2>2, <2>3
<1> QED BY <1>1, CreationHolds, PTL

\* The queue of photos moves with the form.
LEMMA QueueIsLine ==
  ASSUME NEW f \in PhotoSets, NEW q \in Seq(Shots), q # <<>>, Follows(q, f)
  PROVE  \E g \in PhotoSets : Creation!IsSuffix(<<Head(q)>> \o Tail(q), g)
<1>1. f \in Seq(Shots)
  BY PhotoFacts
<1>2. <<Head(q)>> \o Tail(q) = q
  BY HeadTailProperties
<1> QED BY <1>1, <1>2, LineIsSuffix

LEMMA QueueStep ==
  ASSUME CreationInv, Creation!Next
  PROVE  Creation!QueueMoves
<1> SUFFICES ASSUME handoff'.queue # handoff.queue, handoff'.queue # <<>>
             PROVE  /\ handoff'.lens = pending'.point
                    /\ \E f \in PhotoSets :
                         Creation!IsSuffix(<<pending'.point>> \o handoff'.queue, f)
  BY DEF Creation!QueueMoves
<1> USE DEF CreationInv
<1>1. CASE Creation!Draw
  BY <1>1, DrawIsDrawn DEF Drawn
<1>2. ASSUME NEW c \in creating, Creation!EntityShown(c)
      PROVE  /\ handoff'.lens = pending'.point
             /\ \E f \in PhotoSets : Creation!IsSuffix(<<pending'.point>> \o handoff'.queue, f)
  <2>1. CASE c.rest = <<>>
    <3>1. handoff' = Creation!NoHandoff
      BY <1>2, <2>1 DEF Creation!EntityShown, Creation!Advance
    <3> QED BY <3>1, HandoffFacts
  <2>2. CASE c.rest # <<>>
    <3>4. /\ handoff' = [queue |-> Tail(c.rest), lens |-> Head(c.rest), hint |-> handoff.hint]
          /\ pending'.point = Head(c.rest)
      BY <1>2, <2>2, NextIs
    <3>1. /\ handoff'.queue = Tail(c.rest) /\ handoff'.lens = Head(c.rest)
          /\ pending'.point = Head(c.rest)
      BY <3>4
    <3>2. c.rest \in Seq(Shots)
      BY DEF WorkInv, Creations
    <3>3. PICK f \in PhotoSets : Follows(c.rest, f)
      BY <2>2 DEF HandInv, Lined
    <3> QED BY <2>2, <3>1, <3>2, <3>3, QueueIsLine
  <2> QED BY <2>1, <2>2
<1>3. ASSUME NEW type \in Creation!Types, Creation!handleConfirm(type)
      PROVE  /\ handoff'.lens = pending'.point
             /\ \E f \in PhotoSets : Creation!IsSuffix(<<pending'.point>> \o handoff'.queue, f)
  <2>1. PICK f : f = extractor.items
    OBVIOUS
  <2>2. f \in PhotoSets
    BY <1>3, <2>1, HandedOver
  <2>3. PICK p \in Drawings :
          /\ Creation!Show(p, handoff.hint)
          /\ p.point = Head(f) /\ handoff'.queue = Tail(f) /\ handoff'.lens = p.point
    BY <1>3, <2>1, HandedOver
  <2>4. pending' = p
    BY <2>3 DEF Creation!Show
  <2>5. f \in Seq(Shots) /\ f # <<>>
    BY <2>2, PhotoFacts
  <2>6. Follows(f, f)
    <3>1. Len(f) \in Nat
      BY <2>5, LenProperties
    <3> QED BY <3>1 DEF Follows
  <2> QED BY <2>2, <2>3, <2>4, <2>5, <2>6, QueueIsLine
<1>4. CASE UNCHANGED handoff
  BY <1>4
<1>5. Creation!Fill => UNCHANGED handoff \/ \E c \in creating : Creation!EntityShown(c)
  BY DEF Creation!Fill, Creation!handleCategoryChange, Creation!setManualPosition,
         Creation!handleAltChange, Creation!handleSubmit, Creation!AltitudeResolved,
         Creation!EntityStored, Creation!EntityRefused, Creation!FormOnly
<1>6. Creation!Photograph =>
        UNCHANGED handoff \/ \E type \in Creation!Types : Creation!handleConfirm(type)
  BY DEF Creation!Photograph, Creation!onExtractFromImage, Creation!handleFiles,
         Creation!PhotosRead, Creation!closeExtractor, Creation!PhotosOnly
<1> QED BY <1>1, <1>2, <1>3, <1>4, <1>5, <1>6 DEF Creation!Next

-----------------------------------------------------------------------------
(* A profile is saved with its own values *)

DroneIds   == Profile!AllDrones \cup {NoDrone}
DroneForms == [of : DroneIds, name : 0..2, spec : 0..1]
Patches    == [name : 0..2, spec : 0..1] \cup [name : 0..2] \cup [model : 0..1]
Updates    == [id : Profile!AllDrones, patch : Patches, of : DroneIds]

Whole(s) == DOMAIN s.patch = {"name", "spec"}

\* The page shows the profile in the address.
OnProfile == droneAt # List /\ ~loading /\ ~loadError

ProfileTyped ==
  /\ storedDrone \in [Profile!AllDrones -> Profile!Profile]
  /\ droneAt \in Profile!AllDrones \cup {List}
  /\ drone \in [id : DroneIds, data : Profile!Profile]
  /\ formData \in DroneForms
  /\ autosaveTimer \in [id : DroneIds, form : DroneForms]
  /\ autosaveTimer.id = NoDrone => autosaveTimer = Profile!NoTimer
  /\ saves \subseteq Updates
  /\ droneReads \subseteq Profile!AllDrones /\ loading \in BOOLEAN /\ loadError \in BOOLEAN
  /\ copying \in {"no", "asked", "done"} /\ renameValue \in 0..3 /\ saveError \in BOOLEAN
  /\ mixed \in BOOLEAN /\ typed \in 0..MaxTyped

\* On the page: the form is of the profile in the address, and what the page remembers is the
\* server's; an edit that differs from it is scheduled, under way, refused or not to be saved, and
\* an update that is under way is of the fields shown unless they were edited since.
OnProfileAgrees ==
  /\ formData.of = droneAt /\ drone.id = droneAt /\ drone.data = storedDrone[droneAt]
  /\ droneAt \notin droneReads
  /\ autosaveTimer.id = droneAt => autosaveTimer.form = formData
  /\ autosaveTimer.id \notin {NoDrone, droneAt} => ~Profile!Dirty(formData)
  /\ Profile!Dirty(formData) =>
       \/ autosaveTimer.id = droneAt \/ saveError \/ formData.name = 2
       \/ \E s \in saves : s.id = droneAt /\ s.patch = Profile!formToPayload(formData)
  /\ ~Profile!Dirty(formData) =>
       \A s \in saves : s.id = droneAt /\ Whole(s) => s.patch = Profile!formToPayload(formData)

\* Everywhere: updates and the timer carry the fields of the profile they go to.
ProfileAgrees ==
  /\ copying # "done" => droneAt # NewDrone /\ autosaveTimer.id # NewDrone
  /\ ~mixed =>
     /\ \A s \in saves : s.of = s.id
     /\ autosaveTimer.form.of = autosaveTimer.id
     /\ droneAt # List /\ loading => autosaveTimer.id # droneAt
     /\ OnProfile => OnProfileAgrees

ProfileInv == ProfileTyped /\ ProfileAgrees

LEMMA DroneFacts ==
  /\ List \notin Profile!AllDrones /\ NoDrone \notin Profile!AllDrones /\ NewDrone \notin Drones
  /\ Drones \subseteq Profile!AllDrones /\ NewDrone \in Profile!AllDrones
  /\ Profile!AllDrones \subseteq DroneIds /\ NoDrone \in DroneIds
  /\ MaxTyped \in Nat /\ Profile!Blank = 2
BY CoordinatorAssumption DEF Profile!DroneAssumption, DroneIds, Profile!AllDrones, Profile!Blank

LEMMA NoTimerFacts ==
  /\ Profile!NoTimer \in [id : DroneIds, form : DroneForms]
  /\ Profile!NoTimer.id = NoDrone /\ Profile!NoTimer.form.of = NoDrone
  /\ Profile!NoForm \in DroneForms
BY DroneFacts DEF Profile!NoTimer, Profile!NoForm, DroneForms

LEMMA PatchFacts ==
  ASSUME NEW p \in Patches
  PROVE  /\ "name" \in DOMAIN p => p.name \in 0..2
         /\ "spec" \in DOMAIN p => p.spec \in 0..1
         /\ "model" \in DOMAIN p => p.model \in 0..1
         /\ DOMAIN p \in {{"name", "spec"}, {"name"}, {"model"}}
         /\ DOMAIN p \subseteq {"name", "spec", "model"}
<1>1. CASE p \in [name : 0..2, spec : 0..1]
  BY <1>1
<1>2. CASE p \in [name : 0..2]
  BY <1>2
<1>3. CASE p \in [model : 0..1]
  BY <1>3
<1> QED BY <1>1, <1>2, <1>3 DEF Patches

LEMMA PayloadFacts ==
  ASSUME NEW form \in DroneForms
  PROVE  /\ Profile!formToPayload(form) \in Patches
         /\ DOMAIN Profile!formToPayload(form) = {"name", "spec"}
         /\ Profile!formToPayload(form).name = form.name
         /\ Profile!formToPayload(form).spec = form.spec
BY DEF Profile!formToPayload, Patches, DroneForms

LEMMA PatchedFacts ==
  ASSUME NEW row \in Profile!Profile, NEW p \in Patches
  PROVE  /\ Profile!Patched(row, p) \in Profile!Profile
         /\ Profile!Patched(row, p).name = IF "name" \in DOMAIN p THEN p.name ELSE row.name
         /\ Profile!Patched(row, p).spec = IF "spec" \in DOMAIN p THEN p.spec ELSE row.spec
<1>1. /\ "name" \in DOMAIN p => p.name \in 0..2
      /\ "spec" \in DOMAIN p => p.spec \in 0..1
      /\ "model" \in DOMAIN p => p.model \in 0..1
  BY PatchFacts
<1> QED BY <1>1, DroneFacts DEF Profile!Patched, Profile!Profile


LEMMA ProfileStarts == ASSUME Profile!Init PROVE ProfileInv
<1> USE DroneFacts, NoTimerFacts DEF Profile!Init
<1>1. [name |-> 0, spec |-> 0, model |-> 0] \in Profile!Profile
  BY DEF Profile!Profile
<1>2. storedDrone \in [Profile!AllDrones -> Profile!Profile]
  BY <1>1
<1>3. droneAt \in Profile!AllDrones /\ droneAt # NewDrone
  OBVIOUS
<1>4. drone \in [id : DroneIds, data : Profile!Profile]
  BY <1>2, <1>3
<1>5. autosaveTimer \in [id : DroneIds, form : DroneForms] /\ formData \in DroneForms
  BY NoTimerFacts
<1>6. renameValue \in 0..3 /\ typed \in 0..MaxTyped
  OBVIOUS
<1>7. saves \subseteq Updates /\ droneReads \subseteq Profile!AllDrones
  BY <1>3
<1>8. ProfileTyped
  BY <1>2, <1>3, <1>4, <1>5, <1>6, <1>7 DEF ProfileTyped
<1>9. ProfileAgrees
  BY <1>3 DEF ProfileAgrees, OnProfile
<1> QED BY <1>8, <1>9 DEF ProfileInv

LEMMA ProfileRests == ASSUME ProfileInv, UNCHANGED profileVars PROVE ProfileInv'
<1> SUFFICES ProfileTyped' /\ ProfileAgrees'
  BY DEF ProfileInv
<1>1. ProfileTyped'
  BY DEF ProfileInv, ProfileTyped, profileVars
<1>2. OnProfileAgrees' <=> OnProfileAgrees
  BY DEF OnProfileAgrees, Profile!Dirty, profileVars
<1> QED BY <1>1, <1>2 DEF ProfileInv, ProfileAgrees, OnProfile, profileVars

\* What an update sends is of its profile.
LEMMA SendKeeps ==
  ASSUME ProfileTyped, NEW id \in Profile!AllDrones, NEW form \in DroneForms,
         Profile!performSave(id, form)
  PROVE  /\ saves' \subseteq Updates /\ saveError' \in BOOLEAN
         /\ \/ UNCHANGED <<saves, saveError>> /\ (drone.id = NoDrone \/ form.name = 2)
            \/ /\ saveError' = FALSE /\ saves \subseteq saves'
               /\ \A s \in saves' \ saves :
                    s.id = id /\ s.patch = Profile!formToPayload(form) /\ s.of = form.of
               /\ \E s \in saves' : s.id = id /\ s.patch = Profile!formToPayload(form)
<1>1. CASE drone.id = NoDrone \/ form.name = 2
  BY <1>1, DroneFacts DEF Profile!performSave, ProfileTyped
<1>2. CASE ~(drone.id = NoDrone \/ form.name = 2)
  <2>1. PICK s : s = [id |-> id, patch |-> Profile!formToPayload(form), of |-> form.of]
    OBVIOUS
  <2>2. s \in Updates
    BY <2>1, PayloadFacts DEF Updates, DroneForms
  <2>3. saves' = saves \cup {s} /\ saveError' = FALSE
    BY <1>2, <2>1, DroneFacts DEF Profile!performSave
  <2>4. s.id = id /\ s.patch = Profile!formToPayload(form) /\ s.of = form.of
    BY <2>1
  <2> QED BY <2>2, <2>3, <2>4 DEF ProfileTyped
<1> QED BY <1>1, <1>2

LEMMA DroneReadKeeps ==
  ASSUME ProfileInv, NEW id \in droneReads, Profile!DroneRead(id)
  PROVE  ProfileInv'
<1> USE DroneFacts DEF ProfileInv
<1>1. /\ droneReads' = droneReads \ {id} /\ loading' = FALSE
      /\ UNCHANGED <<storedDrone, droneAt, autosaveTimer, saves, loadError, copying, renameValue,
                     saveError, typed>>
  BY DEF Profile!DroneRead
<1>2. CASE droneAt = List
  <2>1. UNCHANGED <<drone, formData, mixed>>
    BY <1>2 DEF Profile!DroneRead
  <2>2. ProfileTyped'
    BY <1>1, <2>1 DEF ProfileTyped
  <2>3. ProfileAgrees'
    BY <1>1, <1>2, <2>1 DEF ProfileAgrees, OnProfile
  <2> QED BY <2>2, <2>3
<1>3. CASE droneAt # List
  <2>1. PICK d : d = storedDrone[id]
    OBVIOUS
  <2>2. /\ drone' = [id |-> id, data |-> d]
        /\ formData' = [of |-> id, name |-> d.name, spec |-> d.spec]
        /\ mixed' = (mixed \/ id # droneAt \/ \E s \in saves : s.id = id)
    BY <1>3, <2>1 DEF Profile!DroneRead, Profile!droneToForm
  <2>3. /\ drone'.id = id /\ drone'.data = d
        /\ formData'.of = id /\ formData'.name = d.name /\ formData'.spec = d.spec
    BY <2>2
  <2>4. id \in Profile!AllDrones /\ d \in Profile!Profile
    BY <2>1 DEF ProfileTyped
  <2>5. d.name \in 0..2 /\ d.spec \in 0..1
    BY <2>4 DEF Profile!Profile
  <2>6. ProfileTyped'
    <3>1. drone' \in [id : DroneIds, data : Profile!Profile]
      BY <2>2, <2>4
    <3>2. formData' \in DroneForms
      BY <2>2, <2>4, <2>5 DEF DroneForms
    <3>3. mixed' \in BOOLEAN
      BY <2>2 DEF ProfileTyped
    <3> QED BY <1>1, <3>1, <3>2, <3>3 DEF ProfileTyped
  <2>7. OnProfileAgrees' \/ mixed' \/ loadError
    <3> SUFFICES ASSUME ~mixed', ~loadError
                 PROVE  OnProfileAgrees'
      OBVIOUS
    <3>1. id = droneAt /\ ~mixed /\ \A s \in saves : s.id # id
      BY <2>2
    <3>2. ~Profile!Dirty(formData)'
      BY <2>3 DEF Profile!Dirty
    <3>3. autosaveTimer.id = droneAt => FALSE
      <4>1. loading => autosaveTimer.id # droneAt
        BY <1>3, <3>1 DEF ProfileAgrees
      <4>2. ~loading => droneAt \notin droneReads
        BY <1>3, <3>1 DEF ProfileAgrees, OnProfile, OnProfileAgrees
      <4> QED BY <3>1, <4>1, <4>2
    <3> QED BY <1>1, <2>1, <2>3, <3>1, <3>2, <3>3 DEF OnProfileAgrees
  <2>8. ProfileAgrees'
    BY <1>1, <2>2, <2>7 DEF ProfileAgrees, OnProfile
  <2> QED BY <2>6, <2>8
<1> QED BY <1>2, <1>3


LEMMA DroneUnreadKeeps ==
  ASSUME ProfileInv, NEW id \in droneReads, Profile!DroneUnread(id)
  PROVE  ProfileInv'
<1>1. /\ droneReads' = droneReads \ {id} /\ loading' = FALSE
      /\ loadError' = (loadError \/ droneAt # List)
      /\ UNCHANGED <<storedDrone, droneAt, drone, formData, autosaveTimer, saves, copying,
                     renameValue, saveError, mixed, typed>>
  BY DEF Profile!DroneUnread
<1>2. ProfileTyped'
  BY <1>1 DEF ProfileInv, ProfileTyped
<1>3. ProfileAgrees'
  BY <1>1 DEF ProfileInv, ProfileAgrees, OnProfile
<1> QED BY <1>2, <1>3 DEF ProfileInv

\* What the page shows is what an editable page needs.
LEMMA EditableFacts ==
  ASSUME ProfileInv, Profile!Editable
  PROVE  /\ OnProfile /\ droneAt \in Profile!AllDrones /\ droneAt # NoDrone /\ droneAt # List
         /\ ~mixed => OnProfileAgrees
         /\ drone.id # NoDrone /\ drone.data \in Profile!Profile
BY DroneFacts DEF ProfileInv, ProfileTyped, ProfileAgrees, OnProfile, Profile!Editable

LEMMA FieldKeeps ==
  ASSUME ProfileInv, NEW field \in {"name", "spec"}, NEW v \in 0..2, field = "spec" => v \in 0..1,
         Profile!handleFieldChange(field, v)
  PROVE  ProfileInv'
<1>1. PICK form : form = [formData EXCEPT ![field] = v]
  OBVIOUS
<1>2. /\ formData' = form /\ typed < MaxTyped /\ typed' = typed + 1
      /\ autosaveTimer' = IF Profile!Dirty(form) THEN [id |-> droneAt, form |-> form]
                          ELSE Profile!NoTimer
      /\ mixed' = (mixed \/ (~Profile!Dirty(form) /\ saves # {}))
      /\ UNCHANGED <<storedDrone, droneAt, drone, saves, droneReads, loading, loadError, copying,
                     renameValue, saveError>>
  BY <1>1 DEF Profile!handleFieldChange
<1>3. /\ OnProfile /\ droneAt \in Profile!AllDrones /\ droneAt # NoDrone
      /\ ~mixed => OnProfileAgrees
  BY EditableFacts DEF Profile!handleFieldChange
<1>4. form \in DroneForms /\ form.of = formData.of
  BY <1>1 DEF ProfileInv, ProfileTyped, DroneForms
<1>5. autosaveTimer'.id \in {NoDrone, droneAt}
        /\ (Profile!Dirty(form) => autosaveTimer'.id = droneAt)
  BY <1>2, NoTimerFacts
<1>6. autosaveTimer'.id = droneAt => autosaveTimer'.form = form
  BY <1>2, <1>3, NoTimerFacts
<1>7. autosaveTimer'.id = NoDrone => autosaveTimer' = Profile!NoTimer
  BY <1>2, <1>3
<1>8. Profile!Dirty(formData)' <=> Profile!Dirty(form)
  BY <1>2 DEF Profile!Dirty
<1>9. ProfileTyped'
  <2>1. autosaveTimer' \in [id : DroneIds, form : DroneForms]
    BY <1>2, <1>3, <1>4, NoTimerFacts, DroneFacts
  <2>2. mixed' \in BOOLEAN /\ typed' \in 0..MaxTyped
    BY <1>2, DroneFacts DEF ProfileInv, ProfileTyped
  <2> QED BY <1>2, <1>4, <1>7, <2>1, <2>2 DEF ProfileInv, ProfileTyped
<1>10. ASSUME ~mixed'
       PROVE  OnProfileAgrees' /\ autosaveTimer'.form.of = autosaveTimer'.id
  <2>1. ~mixed /\ (~Profile!Dirty(form) => saves = {})
    BY <1>2, <1>10
  <2>2. form.of = droneAt
    BY <1>3, <1>4, <2>1 DEF OnProfileAgrees
  <2>3. autosaveTimer'.form.of = autosaveTimer'.id
    BY <1>2, <2>2, NoTimerFacts
  <2>4. OnProfileAgrees'
    BY <1>2, <1>3, <1>5, <1>6, <1>8, <2>1, <2>2 DEF OnProfileAgrees
  <2> QED BY <2>3, <2>4
<1>11. ProfileAgrees'
  <2>1. copying' # "done" => droneAt' # NewDrone /\ autosaveTimer'.id # NewDrone
    BY <1>2, <1>5, DroneFacts DEF ProfileInv, ProfileAgrees
  <2>2. ~loading'
    BY <1>2, <1>3 DEF OnProfile
  <2>3. ~mixed' => \A s \in saves' : s.of = s.id
    BY <1>2 DEF ProfileInv, ProfileAgrees
  <2> QED BY <1>10, <2>1, <2>2, <2>3 DEF ProfileAgrees
<1> QED BY <1>9, <1>11 DEF ProfileInv

LEMMA FiresKeeps ==
  ASSUME ProfileInv, Profile!AutosaveFires
  PROVE  ProfileInv'
<1>1. /\ autosaveTimer # Profile!NoTimer /\ autosaveTimer' = Profile!NoTimer
      /\ Profile!performSave(autosaveTimer.id, autosaveTimer.form)
      /\ UNCHANGED <<storedDrone, droneAt, drone, formData, droneReads, loading, loadError,
                     copying, renameValue, mixed, typed>>
  BY DEF Profile!AutosaveFires
<1>2. PICK id, form : id = autosaveTimer.id /\ form = autosaveTimer.form
  OBVIOUS
<1>3. id \in Profile!AllDrones /\ form \in DroneForms
  BY <1>1, <1>2 DEF ProfileInv, ProfileTyped, DroneIds
<1>4. /\ saves' \subseteq Updates /\ saveError' \in BOOLEAN
      /\ \/ UNCHANGED <<saves, saveError>> /\ (drone.id = NoDrone \/ form.name = 2)
         \/ /\ saveError' = FALSE /\ saves \subseteq saves'
            /\ \A s \in saves' \ saves :
                 s.id = id /\ s.patch = Profile!formToPayload(form) /\ s.of = form.of
            /\ \E s \in saves' : s.id = id /\ s.patch = Profile!formToPayload(form)
  <2>1. Profile!performSave(id, form)
    BY <1>1, <1>2
  <2> QED BY <1>3, <2>1, SendKeeps DEF ProfileInv
<1>5. ProfileTyped'
  BY <1>1, <1>4, NoTimerFacts DEF ProfileInv, ProfileTyped
<1>6. ASSUME ~mixed'
      PROVE  \A s \in saves' : s.of = s.id
  BY <1>1, <1>2, <1>4, <1>6 DEF ProfileInv, ProfileAgrees
<1>7. ASSUME ~mixed', OnProfile'
      PROVE  OnProfileAgrees'
  <2>1. OnProfile /\ OnProfileAgrees
    BY <1>1, <1>7 DEF ProfileInv, ProfileAgrees, OnProfile
  <2>2. Profile!Dirty(formData)' <=> Profile!Dirty(formData)
    BY <1>1 DEF Profile!Dirty
  <2>3. drone.id = droneAt /\ droneAt \in Profile!AllDrones /\ drone.id # NoDrone
    BY <2>1, DroneFacts DEF OnProfile, OnProfileAgrees, ProfileInv, ProfileTyped
  <2>4. CASE id = droneAt
    <3>1. form = formData
      BY <1>2, <2>1, <2>4 DEF OnProfileAgrees
    <3>2. ~Profile!Dirty(formData) =>
            \A s \in saves' : s.id = droneAt /\ Whole(s) =>
              s.patch = Profile!formToPayload(formData)
      BY <1>4, <2>1, <3>1 DEF OnProfileAgrees
    <3>3. \/ saveError' \/ formData.name = 2
          \/ \E s \in saves' : s.id = droneAt /\ s.patch = Profile!formToPayload(formData)
      BY <1>4, <2>3, <2>4, <3>1
    <3> QED BY <1>1, <2>1, <2>2, <2>3, <3>2, <3>3, NoTimerFacts DEF OnProfileAgrees
  <2>5. CASE id # droneAt
    <3>1. ~Profile!Dirty(formData)
      BY <1>2, <1>3, <2>1, <2>5, DroneFacts DEF OnProfileAgrees
    <3>2. \A s \in saves' : s.id = droneAt /\ Whole(s) => s.patch = Profile!formToPayload(formData)
      BY <1>4, <2>1, <2>5, <3>1 DEF OnProfileAgrees
    <3> QED BY <1>1, <2>1, <2>2, <2>3, <3>1, <3>2, NoTimerFacts, DroneFacts DEF OnProfileAgrees
  <2> QED BY <2>4, <2>5
<1>8. ProfileAgrees'
  <2>1. copying' # "done" => droneAt' # NewDrone /\ autosaveTimer'.id # NewDrone
    BY <1>1, NoTimerFacts, DroneFacts DEF ProfileInv, ProfileAgrees
  <2>2. autosaveTimer'.form.of = autosaveTimer'.id
    BY <1>1, NoTimerFacts
  <2>3. droneAt' # List => autosaveTimer'.id # droneAt'
    BY <1>1, NoTimerFacts, DroneFacts DEF ProfileInv, ProfileTyped
  <2> QED BY <1>6, <1>7, <2>1, <2>2, <2>3 DEF ProfileAgrees
<1> QED BY <1>5, <1>8 DEF ProfileInv


LEMMA ServedKeeps ==
  ASSUME ProfileInv, NEW s \in saves, Profile!SaveServed(s)
  PROVE  ProfileInv'
<1>1. PICK row : row = Profile!Patched(storedDrone[s.id], s.patch)
  OBVIOUS
<1>2. s.id \in Profile!AllDrones /\ s.patch \in Patches
  BY DEF ProfileInv, ProfileTyped, Updates
<1>3. storedDrone[s.id] \in Profile!Profile
        /\ storedDrone \in [Profile!AllDrones -> Profile!Profile]
  BY <1>2 DEF ProfileInv, ProfileTyped
<1>4. row \in Profile!Profile
  BY <1>1, <1>2, <1>3, PatchedFacts
<1>5. /\ storedDrone' = [storedDrone EXCEPT ![s.id] = row] /\ saves' = saves \ {s}
      /\ UNCHANGED <<droneAt, formData, autosaveTimer, droneReads, loading, loadError, copying,
                     renameValue, saveError, typed>>
  BY <1>1 DEF Profile!SaveServed
<1>6. storedDrone' \in [Profile!AllDrones -> Profile!Profile] /\ storedDrone'[s.id] = row
  BY <1>2, <1>3, <1>4, <1>5
<1>7. CASE droneAt = List
  <2>1. UNCHANGED <<drone, mixed>>
    BY <1>7 DEF Profile!SaveServed
  <2>2. ProfileTyped'
    BY <1>5, <1>6, <2>1 DEF ProfileInv, ProfileTyped
  <2>3. ProfileAgrees'
    BY <1>5, <1>7, <2>1 DEF ProfileInv, ProfileAgrees, OnProfile
  <2> QED BY <2>2, <2>3 DEF ProfileInv
<1>8. CASE droneAt # List
  <2>1. /\ drone' = [id |-> s.id, data |-> row]
        /\ mixed' = \/ mixed \/ s.id # droneAt
                    \/ \E o \in saves \ {s} : o.id = s.id
                    \/ DOMAIN s.patch = {"name"}
    BY <1>6, <1>8 DEF Profile!SaveServed
  <2>2. drone'.id = s.id /\ drone'.data = row
    BY <2>1
  <2>3. ProfileTyped'
    <3>1. drone' \in [id : DroneIds, data : Profile!Profile]
      BY <1>2, <1>4, <2>1, DroneFacts
    <3>2. mixed' \in BOOLEAN
      BY <2>1 DEF ProfileInv, ProfileTyped
    <3> QED BY <1>5, <1>6, <3>1, <3>2 DEF ProfileInv, ProfileTyped
  <2>4. ASSUME ~mixed', OnProfile'
        PROVE  OnProfileAgrees'
    <3>1. /\ ~mixed /\ s.id = droneAt /\ \A o \in saves \ {s} : o.id # droneAt
          /\ DOMAIN s.patch # {"name"}
      BY <2>1, <2>4
    <3>2. OnProfile /\ OnProfileAgrees
      BY <1>5, <2>4, <3>1 DEF ProfileInv, ProfileAgrees, OnProfile
    <3>3. Profile!Dirty(formData)' <=> formData.name # row.name \/ formData.spec # row.spec
      BY <1>5, <2>2 DEF Profile!Dirty
    <3>4. Profile!Dirty(formData) <=> \/ formData.name # storedDrone[s.id].name
                                      \/ formData.spec # storedDrone[s.id].spec
      BY <3>1, <3>2 DEF Profile!Dirty, OnProfileAgrees
    <3>5. /\ row.name = IF "name" \in DOMAIN s.patch THEN s.patch.name ELSE storedDrone[s.id].name
          /\ row.spec = IF "spec" \in DOMAIN s.patch THEN s.patch.spec ELSE storedDrone[s.id].spec
      BY <1>1, <1>2, <1>3, PatchedFacts
    <3>6. formData \in DroneForms
      BY DEF ProfileInv, ProfileTyped
    <3>7. s.patch = Profile!formToPayload(formData) => ~Profile!Dirty(formData)'
      BY <3>3, <3>5, <3>6, PayloadFacts
    <3>8. ~Whole(s) => (Profile!Dirty(formData)' <=> Profile!Dirty(formData))
      <4>1. ~Whole(s) => DOMAIN s.patch = {"model"}
        BY <1>2, <3>1, PatchFacts DEF Whole
      <4> QED BY <3>3, <3>4, <3>5, <4>1
    <3>9. ~Profile!Dirty(formData) => ~Profile!Dirty(formData)'
      BY <3>1, <3>2, <3>7, <3>8 DEF OnProfileAgrees
    <3>10. Profile!Dirty(formData)' =>
             autosaveTimer.id = droneAt \/ saveError \/ formData.name = 2
      <4> SUFFICES ASSUME Profile!Dirty(formData)'
                   PROVE  autosaveTimer.id = droneAt \/ saveError \/ formData.name = 2
        OBVIOUS
      <4>1. Profile!Dirty(formData) /\ s.patch # Profile!formToPayload(formData)
        BY <3>7, <3>9
      <4> QED BY <3>1, <3>2, <4>1 DEF OnProfileAgrees
    <3>11. formData.of = droneAt /\ droneAt \notin droneReads
      BY <3>2 DEF OnProfileAgrees
    <3>12. autosaveTimer.id = droneAt => autosaveTimer.form = formData
      BY <3>2 DEF OnProfileAgrees
    <3>13. autosaveTimer.id \notin {NoDrone, droneAt} => ~Profile!Dirty(formData)'
      BY <3>2, <3>9 DEF OnProfileAgrees
    <3>14. \A o \in saves' : o.id # droneAt
      BY <1>5, <3>1
    <3> QED BY <1>5, <1>6, <2>2, <3>1, <3>10, <3>11, <3>12, <3>13, <3>14 DEF OnProfileAgrees
  <2>5. ProfileAgrees'
    BY <1>5, <2>1, <2>4 DEF ProfileInv, ProfileAgrees
  <2> QED BY <2>3, <2>5 DEF ProfileInv
<1> QED BY <1>7, <1>8

LEMMA DroneRefusedKeeps ==
  ASSUME ProfileInv, NEW s \in saves, Profile!SaveRefused(s)
  PROVE  ProfileInv'
<1>1. /\ saves' = saves \ {s} /\ saveError' = (saveError \/ Whole(s))
      /\ UNCHANGED <<storedDrone, droneAt, drone, formData, autosaveTimer, droneReads, loading,
                     loadError, copying, renameValue, mixed, typed>>
  BY DEF Profile!SaveRefused, Whole
<1>2. ProfileTyped'
  BY <1>1 DEF ProfileInv, ProfileTyped, Whole
<1>3. OnProfileAgrees => OnProfileAgrees'
  <2> SUFFICES ASSUME OnProfileAgrees
               PROVE  OnProfileAgrees'
    OBVIOUS
  <2>1. Profile!Dirty(formData)' <=> Profile!Dirty(formData)
    BY <1>1 DEF Profile!Dirty
  <2>2. s.patch = Profile!formToPayload(formData) => Whole(s)
    BY PayloadFacts DEF Whole, ProfileInv, ProfileTyped
  <2>3. Profile!Dirty(formData) =>
          \/ autosaveTimer.id = droneAt \/ saveError' \/ formData.name = 2
          \/ \E o \in saves' : o.id = droneAt /\ o.patch = Profile!formToPayload(formData)
    BY <1>1, <2>2 DEF OnProfileAgrees
  <2> QED BY <1>1, <2>1, <2>3 DEF OnProfileAgrees
<1>4. ProfileAgrees'
  BY <1>1, <1>3 DEF ProfileInv, ProfileAgrees, OnProfile
<1> QED BY <1>2, <1>4 DEF ProfileInv

\* An update beside the form goes to the profile in the address.
LEMMA PatchKeeps ==
  ASSUME ProfileInv, Profile!Editable, NEW p \in Patches, DOMAIN p # {"name", "spec"},
         Profile!Patch(p), renameValue' \in 0..3,
         UNCHANGED <<storedDrone, droneAt, drone, formData, autosaveTimer, droneReads, loading,
                     loadError, copying, saveError, mixed>>
  PROVE  ProfileInv'
<1>1. PICK s : s = [id |-> droneAt, patch |-> p, of |-> droneAt]
  OBVIOUS
<1>2. saves' = saves \cup {s} /\ typed < MaxTyped /\ typed' = typed + 1
  BY <1>1 DEF Profile!Patch
<1>3. droneAt \in Profile!AllDrones
  BY EditableFacts
<1>4. s \in Updates /\ ~Whole(s) /\ s.of = s.id
  BY <1>1, <1>3, DroneFacts DEF Updates, Whole
<1>5. ProfileTyped'
  <2>1. typed' \in 0..MaxTyped
    BY <1>2, DroneFacts DEF ProfileInv, ProfileTyped
  <2>2. saves' \subseteq Updates
    BY <1>2, <1>4 DEF ProfileInv, ProfileTyped
  <2> QED BY <2>1, <2>2 DEF ProfileInv, ProfileTyped
<1>6. OnProfileAgrees => OnProfileAgrees'
  <2>1. Profile!Dirty(formData)' <=> Profile!Dirty(formData)
    BY DEF Profile!Dirty
  <2> QED BY <1>2, <1>4, <2>1 DEF OnProfileAgrees
<1>7. ProfileAgrees'
  BY <1>2, <1>4, <1>6 DEF ProfileInv, ProfileAgrees, OnProfile
<1> QED BY <1>5, <1>7 DEF ProfileInv

LEMMA RenameKeeps ==
  ASSUME ProfileInv, NEW v \in 0..2, Profile!finishDroneRename(v)
  PROVE  ProfileInv'
<1>1. /\ Profile!Editable /\ renameValue' = 3
      /\ UNCHANGED <<storedDrone, droneAt, drone, formData, autosaveTimer, droneReads, loading,
                     loadError, copying, saveError, mixed>>
  BY DroneFacts DEF Profile!finishDroneRename
<1>2. CASE Profile!Patch([name |-> v])
  <2>1. [name |-> v] \in Patches /\ DOMAIN [name |-> v] # {"name", "spec"}
    BY DEF Patches
  <2> QED BY <1>1, <1>2, <2>1, PatchKeeps
<1>3. CASE UNCHANGED <<saves, typed>>
  <2>1. ProfileTyped'
    BY <1>1, <1>3 DEF ProfileInv, ProfileTyped
  <2>2. OnProfileAgrees => OnProfileAgrees'
    BY <1>1, <1>3 DEF OnProfileAgrees, Profile!Dirty
  <2>3. ProfileAgrees'
    BY <1>1, <1>3, <2>2 DEF ProfileInv, ProfileAgrees, OnProfile
  <2> QED BY <2>1, <2>3 DEF ProfileInv
<1> QED BY <1>2, <1>3 DEF Profile!finishDroneRename

LEMMA ModelKeeps ==
  ASSUME ProfileInv, NEW v \in 0..1, Profile!handleSelectModel(v)
  PROVE  ProfileInv'
<1>1. [model |-> v] \in Patches /\ DOMAIN [model |-> v] # {"name", "spec"}
  BY DEF Patches
<1>2. /\ Profile!Editable /\ Profile!Patch([model |-> v])
      /\ UNCHANGED <<storedDrone, droneAt, drone, formData, autosaveTimer, droneReads, loading,
                     loadError, copying, renameValue, saveError, mixed>>
  BY DEF Profile!handleSelectModel
<1>3. renameValue' \in 0..3
  BY <1>2 DEF ProfileInv, ProfileTyped
<1> QED BY <1>1, <1>2, <1>3, PatchKeeps


LEMMA SelectKeeps ==
  ASSUME ProfileInv, NEW id \in Drones, Profile!handleSelectDrone(id)
  PROVE  ProfileInv'
<1>1. /\ autosaveTimer' = Profile!NoTimer /\ droneAt' = id
      /\ droneReads' = droneReads \cup {id} /\ loading' = TRUE /\ loadError' = FALSE
      /\ UNCHANGED <<storedDrone, drone, formData, copying, renameValue, mixed, typed>>
  BY DEF Profile!handleSelectDrone, Profile!fetchDrone
<1>2. /\ OnProfile /\ droneAt \in Profile!AllDrones /\ (~mixed => OnProfileAgrees)
  BY EditableFacts DEF Profile!handleSelectDrone
<1>3. /\ saves' \subseteq Updates /\ saveError' \in BOOLEAN
      /\ ~mixed => \A s \in saves' : s.of = s.id
  <2>1. CASE UNCHANGED <<saves, saveError>>
    BY <2>1 DEF ProfileInv, ProfileTyped, ProfileAgrees
  <2>2. CASE Profile!performSave(droneAt, formData)
    <3>1. /\ saves' \subseteq Updates /\ saveError' \in BOOLEAN
          /\ \/ UNCHANGED <<saves, saveError>> /\ (drone.id = NoDrone \/ formData.name = 2)
             \/ /\ saveError' = FALSE /\ saves \subseteq saves'
                /\ \A s \in saves' \ saves :
                     /\ s.id = droneAt /\ s.patch = Profile!formToPayload(formData)
                     /\ s.of = formData.of
                /\ \E s \in saves' : s.id = droneAt /\ s.patch = Profile!formToPayload(formData)
      <4>1. formData \in DroneForms /\ ProfileTyped
        BY DEF ProfileInv, ProfileTyped
      <4> QED BY <1>2, <2>2, <4>1, SendKeeps
    <3>2. ~mixed => formData.of = droneAt /\ \A s \in saves : s.of = s.id
      BY <1>2 DEF OnProfileAgrees, ProfileInv, ProfileAgrees
    <3> QED BY <3>1, <3>2
  <2> QED BY <2>1, <2>2 DEF Profile!handleSelectDrone
<1>4. ProfileTyped'
  BY <1>1, <1>3, NoTimerFacts, DroneFacts DEF ProfileInv, ProfileTyped
<1>5. ProfileAgrees'
  <2>1. droneAt' # NewDrone /\ droneAt' # NoDrone
    BY <1>1, DroneFacts
  <2>2. autosaveTimer'.id = NoDrone /\ autosaveTimer'.form.of = NoDrone /\ NewDrone # NoDrone
    BY <1>1, NoTimerFacts, DroneFacts
  <2> QED BY <1>1, <1>3, <2>1, <2>2 DEF ProfileAgrees, OnProfile
<1> QED BY <1>4, <1>5 DEF ProfileInv

LEMMA BackKeeps ==
  ASSUME ProfileInv, Profile!handleBackToList
  PROVE  ProfileInv'
<1>1. /\ droneAt' = List /\ autosaveTimer' = Profile!NoTimer
      /\ UNCHANGED <<storedDrone, drone, formData, saves, droneReads, loading, loadError, copying,
                     renameValue, saveError, mixed, typed>>
  BY DEF Profile!handleBackToList
<1>2. ProfileTyped'
  BY <1>1, NoTimerFacts DEF ProfileInv, ProfileTyped
<1>3. autosaveTimer'.id = NoDrone /\ autosaveTimer'.form.of = NoDrone /\ NewDrone # NoDrone
  BY <1>1, NoTimerFacts, DroneFacts
<1>4. ProfileAgrees'
  BY <1>1, <1>3, DroneFacts DEF ProfileInv, ProfileAgrees, OnProfile
<1> QED BY <1>2, <1>4 DEF ProfileInv

\* The start of a renaming and what becomes of a copy that was asked for, but its coming.
LEMMA BesideKeeps ==
  ASSUME ProfileInv,
         Profile!startDroneRename \/ Profile!handleDuplicate \/ Profile!DroneNotAdded
  PROVE  ProfileInv'
<1>1. /\ UNCHANGED <<storedDrone, droneAt, drone, formData, autosaveTimer, saves, droneReads,
                     loading, loadError, saveError, mixed, typed>>
      /\ copying' # "done" => copying # "done"
      /\ copying' \in {"no", "asked", "done"}
  BY DEF Profile!startDroneRename, Profile!handleDuplicate, Profile!DroneNotAdded, ProfileInv,
         ProfileTyped
<1>2. renameValue' \in 0..3
  <2>1. renameValue' = renameValue \/ renameValue' = drone.data.name
    BY DEF Profile!startDroneRename, Profile!handleDuplicate, Profile!DroneNotAdded
  <2>2. drone.data.name \in 0..2
    BY DroneFacts DEF ProfileInv, ProfileTyped, Profile!Profile
  <2> QED BY <2>1, <2>2 DEF ProfileInv, ProfileTyped
<1>3. ProfileTyped'
  BY <1>1, <1>2 DEF ProfileInv, ProfileTyped
<1>4. OnProfileAgrees => OnProfileAgrees'
  BY <1>1 DEF OnProfileAgrees, Profile!Dirty
<1>5. ProfileAgrees'
  BY <1>1, <1>4 DEF ProfileInv, ProfileAgrees, OnProfile
<1> QED BY <1>3, <1>5 DEF ProfileInv

LEMMA AddedKeeps ==
  ASSUME ProfileInv, Profile!DroneAdded
  PROVE  ProfileInv'
<1>1. /\ copying = "asked" /\ copying' = "done"
      /\ UNCHANGED <<storedDrone, drone, formData, autosaveTimer, saves, renameValue, saveError,
                     mixed, typed>>
  BY DEF Profile!DroneAdded
<1>2. autosaveTimer.id # NewDrone
  BY <1>1 DEF ProfileInv, ProfileAgrees
<1>3. CASE droneAt = List
  <2>1. UNCHANGED <<droneAt, droneReads, loading, loadError>>
    BY <1>3 DEF Profile!DroneAdded
  <2> QED BY <1>1, <1>3, <2>1 DEF ProfileInv, ProfileTyped, ProfileAgrees, OnProfile
<1>4. CASE droneAt # List
  <2>1. /\ droneAt' = NewDrone /\ droneReads' = droneReads \cup {NewDrone}
        /\ loading' = TRUE /\ loadError' = FALSE
    BY <1>4 DEF Profile!DroneAdded, Profile!fetchDrone
  <2>2. ProfileTyped'
    BY <1>1, <2>1, DroneFacts DEF ProfileInv, ProfileTyped
  <2>3. ProfileAgrees'
    BY <1>1, <1>2, <2>1 DEF ProfileInv, ProfileAgrees, OnProfile
  <2> QED BY <2>2, <2>3 DEF ProfileInv
<1> QED BY <1>3, <1>4

LEMMA ProfileStep == ASSUME ProfileInv, Profile!Next PROVE ProfileInv'
<1>1. CASE Profile!Coordinator
  <2>1. ASSUME NEW v \in 0..2, Profile!handleFieldChange("name", v)
        PROVE  ProfileInv'
    BY <2>1, FieldKeeps
  <2>2. ASSUME NEW v \in 0..1, Profile!handleFieldChange("spec", v)
        PROVE  ProfileInv'
    BY <2>2, FieldKeeps
  <2> QED BY <1>1, <2>1, <2>2, RenameKeeps, ModelKeeps, SelectKeeps, BackKeeps, BesideKeeps,
             DroneFacts DEF Profile!Coordinator
<1>2. CASE Profile!Answers
  BY <1>2, FiresKeeps, DroneReadKeeps, DroneUnreadKeeps, ServedKeeps, DroneRefusedKeeps,
     AddedKeeps, BesideKeeps DEF Profile!Answers
<1> QED BY <1>1, <1>2 DEF Profile!Next

LEMMA ProfileHolds == Spec => [](page = "profile" => ProfileInv)
<1>1. Init => (page = "profile" => ProfileInv)
  BY ProfileStarts DEF Init
<1>2. (page = "profile" => ProfileInv)
      /\ [Next]_<<page, infraVars, creationVars, profileVars, planVars, tableVars>>
        => (page = "profile" => ProfileInv)'
  <2> SUFFICES ASSUME page = "profile" => ProfileInv,
                      [Next]_<<page, infraVars, creationVars, profileVars, planVars, tableVars>>,
                      page' = "profile"
               PROVE  ProfileInv'
    OBVIOUS
  <2>1. page = "profile" /\ (Profile!Next \/ UNCHANGED profileVars)
    BY DEF Next
  <2> QED BY <2>1, ProfileStep, ProfileRests
<1> QED BY <1>1, <1>2, PTL DEF Spec

\* A profile is saved with its own values, and when nothing is under way the fields are the
\* server's.
LEMMA ProfileReaches ==
  ProfileInv => Profile!TypeOK /\ Profile!SavedToItself /\ Profile!SettledIsStored
<1> SUFFICES ASSUME ProfileInv
             PROVE  Profile!TypeOK /\ Profile!SavedToItself /\ Profile!SettledIsStored
  OBVIOUS
<1>1. Profile!TypeOK
  <2>1. \A s \in saves : s.id \in Profile!AllDrones
          /\ DOMAIN s.patch \subseteq {"name", "spec", "model"}
    BY PatchFacts DEF ProfileInv, ProfileTyped, Updates
  <2> QED BY <2>1, DroneFacts DEF ProfileInv, ProfileTyped, Profile!TypeOK, DroneForms, DroneIds
<1>2. Profile!SavedToItself
  BY DEF ProfileInv, ProfileAgrees, Profile!SavedToItself
<1>3. Profile!SettledIsStored
  <2> SUFFICES ASSUME Profile!Editable, ~mixed, autosaveTimer = Profile!NoTimer, saves = {},
                      ~saveError, formData.name # Profile!Blank
               PROVE  formData = Profile!droneToForm(storedDrone[droneAt], droneAt)
    BY DEF Profile!SettledIsStored
  <2>1. OnProfileAgrees /\ droneAt \in Profile!AllDrones /\ formData \in DroneForms
    BY EditableFacts DEF ProfileInv, ProfileTyped
  <2>2. ~Profile!Dirty(formData)
    BY <2>1, NoTimerFacts, DroneFacts DEF OnProfileAgrees
  <2> QED BY <2>1, <2>2 DEF OnProfileAgrees, Profile!Dirty, Profile!droneToForm, DroneForms
<1> QED BY <1>1, <1>2, <1>3

\* Only the opening of another profile leaves one for it.
LEMMA EditTakenStep == ASSUME Profile!Next PROVE Profile!EditTaken
<1> SUFFICES ASSUME droneAt' \in Drones, droneAt' # droneAt, autosaveTimer # Profile!NoTimer,
                    formData.name # Profile!Blank, Profile!Dirty(formData)
             PROVE  [id |-> droneAt, patch |-> Profile!formToPayload(formData),
                     of |-> formData.of] \in saves'
  BY DEF Profile!EditTaken
<1>1. PICK id \in Drones : Profile!handleSelectDrone(id)
  <2>1. droneAt' # List /\ droneAt' # NewDrone
    BY DroneFacts
  <2> QED BY <2>1 DEF Profile!Next, Profile!Coordinator, Profile!Answers, Profile!fetchDrone,
             Profile!handleFieldChange, Profile!AutosaveFires, Profile!SaveServed,
             Profile!SaveRefused, Profile!startDroneRename, Profile!finishDroneRename,
             Profile!handleSelectModel, Profile!handleBackToList, Profile!handleDuplicate,
             Profile!DroneAdded, Profile!DroneNotAdded, Profile!DroneRead, Profile!DroneUnread
<1>2. Profile!performSave(droneAt, formData) /\ drone.id # NoDrone
  BY <1>1 DEF Profile!handleSelectDrone, Profile!Editable
<1> QED BY <1>2 DEF Profile!performSave


-----------------------------------------------------------------------------
(* A template is saved with what fits its system *)

TemplateIds == Plan!AllTemplates \cup {NoTemplate}
Saves       == [id : Plan!AllTemplates, of : Plan!AllTemplates, sent : Plan!Row, named : BOOLEAN]
Asked       == [what : {"nothing", "delete", "copy"}, id : Plan!AllTemplates, row : Plan!Row]

PlanTyped ==
  /\ storedTemplate \in [Plan!AllTemplates -> Plan!Row \cup {Plan!Absent}]
  /\ templateAt \in Plan!AllTemplates \cup {TemplateList} /\ aglsLoaded \in BOOLEAN
  /\ template \in [id : TemplateIds, row : Plan!Row]
  /\ edit \in [of : TemplateIds, row : Plan!Row]
  /\ template.id = NoTemplate <=> edit.of = NoTemplate
  /\ userTouchedLha \in BOOLEAN /\ seededTemplate \in TemplateIds
  /\ autosave \in BOOLEAN
  /\ autosave => templateAt # TemplateList
  /\ autosave \/ templateSaves # {} => edit.of # NoTemplate
  /\ templateSaves \subseteq Saves
  /\ templateReads \subseteq Plan!AllTemplates \X BOOLEAN
  /\ templateLoading \in BOOLEAN /\ templateError \in BOOLEAN /\ templateSaveError \in BOOLEAN
  /\ asking \in Asked
  /\ crossed \in BOOLEAN /\ clobbered \in BOOLEAN /\ templateEdits \in 0..MaxTemplateEdits

\* Every row has the method of its system; a copy is asked for only while there is none, and
\* the page was never that of a copy to come.
RowsSound ==
  /\ \A t \in Plan!AllTemplates : Plan!Compatible(storedTemplate[t])
  /\ Plan!Compatible(template.row) /\ Plan!Compatible(asking.row)
  /\ asking.what = "copy" => storedTemplate[NewTemplate] = Plan!Absent
  /\ (templateAt # TemplateList \/ asking.what = "copy")
     /\ storedTemplate[NewTemplate] = Plan!Absent => seededTemplate # NewTemplate

\* Before the airport arrives nothing can be selected.
NoUnitsYet ==
  ~aglsLoaded =>
    /\ ~userTouchedLha
    /\ \A t \in Plan!AllTemplates : storedTemplate[t].lhas = {}
    /\ template.row.lhas = {} /\ edit.row.lhas = {} /\ asking.row.lhas = {}
    /\ \A s \in templateSaves : s.sent.lhas = {}
    /\ \A r \in templateReads : r[2] = FALSE

\* The units of a row are of its system.
Fits(row) == row.agl # NoAgl => row.lhas \subseteq unitsOf[row.agl]

\* ... and of the system of the other row when it names none, as an update does that keeps it.
FitsIn(row, other) ==
  /\ Fits(row)
  /\ row.agl = NoAgl /\ other.agl # NoAgl => row.lhas \subseteq unitsOf[other.agl]

\* A form that has nothing to save.
Settles(form, row) ==
  /\ form.name = row.name /\ form.conf = row.conf /\ form.method = row.method
  /\ form.agl \in {row.agl, NoAgl}
  /\ form.lhas = row.lhas \/ row.lhas = {}

OnPlan == templateAt # TemplateList /\ seededTemplate = templateAt

Quiet == ~autosave /\ templateSaves = {} /\ ~templateSaveError

Arrived ==
  templateAt # TemplateList /\ ((~templateLoading /\ ~templateError) \/ autosave
    \/ templateSaves # {})
    => seededTemplate = templateAt

RowsFit == (\A t \in Plan!AllTemplates : Fits(storedTemplate[t])) /\ Fits(asking.row)

\* The page and its form are of the template in the address, as the server has it.
OnPlanAgrees ==
  /\ template.id = templateAt /\ template.row = storedTemplate[templateAt] /\ edit.of = templateAt
  /\ FitsIn(edit.row, template.row)
  /\ ~aglsLoaded => edit.row.agl = template.row.agl
  /\ Quiet => Settles(edit.row, template.row)

\* An update under way is the only one, and the form is what it sent, but for the units seeded.
SameForm(s) ==
  /\ edit.row.name = s.sent.name /\ edit.row.conf = s.sent.conf
  /\ edit.row.method = s.sent.method /\ edit.row.agl = s.sent.agl
  /\ edit.row.lhas = s.sent.lhas \/ (~userTouchedLha /\ aglsLoaded /\ edit.row.agl # NoAgl)

SaveAgrees(s) ==
  /\ s.of = s.id /\ FitsIn(s.sent, storedTemplate[s.id])
  /\ templateAt # TemplateList =>
       /\ s.id = templateAt /\ (s.named \/ s.sent.name = template.row.name)
       /\ ~autosave => SameForm(s)

SavesAgree == (\A s, o \in templateSaves : s = o) /\ \A s \in templateSaves : SaveAgrees(s)

PlanAgrees == Arrived /\ RowsFit /\ (OnPlan => OnPlanAgrees) /\ SavesAgree

PlanInv == PlanTyped /\ RowsSound /\ NoUnitsYet /\ (~crossed => PlanAgrees)

LEMMA TemplateFacts ==
  /\ NewTemplate \notin Templates /\ NoTemplate \notin Plan!AllTemplates
  /\ TemplateList \notin Plan!AllTemplates
  /\ NewTemplate \in Plan!AllTemplates /\ Templates \subseteq Plan!AllTemplates
  /\ Plan!AllTemplates \subseteq TemplateIds /\ NoTemplate \in TemplateIds
  /\ NoAgl \notin Agls /\ MaxTemplateEdits \in Nat
BY CoordinatorAssumption DEF Plan!TemplateAssumption, TemplateIds, Plan!AllTemplates

LEMMA UnitFacts ==
  ASSUME NEW a \in Agls
  PROVE  /\ unitsOf[a] \in SUBSET Plan!AllUnits
         /\ kindOf[a] \in Plan!Methods /\ kindOf[a] # Plan!Agnostic /\ a # NoAgl
BY CoordinatorAssumption DEF Plan!TemplateAssumption, Plan!AllUnits, Plan!Methods

LEMMA RowFacts ==
  ASSUME NEW row \in Plan!Row
  PROVE  /\ row.name \in 0..1 /\ row.method \in Plan!Methods /\ row.agl \in Agls \cup {NoAgl}
         /\ row.conf \in 0..1 /\ row.lhas \in SUBSET Plan!AllUnits
BY DEF Plan!Row

LEMMA BlankFacts ==
  /\ Plan!Blank \in Plan!Row /\ Plan!Blank.agl = NoAgl /\ Plan!Blank.lhas = {}
  /\ Plan!Absent.agl = NoAgl /\ Plan!Absent.lhas = {} /\ Plan!Absent.name = 2
  /\ Plan!Absent \notin Plan!Row
<1>1. Plan!Agnostic \in Plan!Methods
  BY DEF Plan!Methods
<1>2. Plan!Blank \in Plan!Row
  BY <1>1 DEF Plan!Row, Plan!Blank
<1>3. Plan!Blank.agl = NoAgl /\ Plan!Blank.lhas = {}
  BY DEF Plan!Blank
<1>4. Plan!Absent.agl = NoAgl /\ Plan!Absent.lhas = {} /\ Plan!Absent.name = 2
  BY DEF Plan!Blank, Plan!Absent
<1>5. Plan!Absent \notin Plan!Row
  BY <1>4, RowFacts
<1> QED BY <1>2, <1>3, <1>4, <1>5

\* A row with other values in some of its fields.
LEMMA RowWith ==
  ASSUME NEW row \in Plan!Row, NEW name \in 0..1, NEW method \in Plan!Methods,
         NEW agl \in Agls \cup {NoAgl}, NEW conf \in 0..1, NEW lhas \in SUBSET Plan!AllUnits
  PROVE  /\ [row EXCEPT !.name = name] \in Plan!Row
         /\ [row EXCEPT !.conf = conf] \in Plan!Row
         /\ [row EXCEPT !.method = method] \in Plan!Row
         /\ [row EXCEPT !.lhas = lhas] \in Plan!Row
         /\ [row EXCEPT !.agl = agl, !.lhas = lhas] \in Plan!Row
         /\ [row EXCEPT !.name = name, !.agl = agl] \in Plan!Row
BY DEF Plan!Row

LEMMA SeedFacts ==
  ASSUME NEW row \in Plan!Row, NEW known \in BOOLEAN, NEW kept \in SUBSET Plan!AllUnits
  PROVE  /\ Plan!Seed(row, known, kept) \in SUBSET Plan!AllUnits
         /\ \A touched \in BOOLEAN :
              Plan!Reseed(row, known, touched, kept) \in SUBSET Plan!AllUnits
<1>1. Plan!Seed(row, known, kept) \in SUBSET Plan!AllUnits
  BY RowFacts, UnitFacts DEF Plan!Seed
<1> QED BY <1>1 DEF Plan!Reseed

\* The units that are seeded where the airport has arrived.
LEMMA SeedFits ==
  ASSUME NEW row \in Plan!Row, Plan!Compatible(row), Fits(row), row.agl # NoAgl,
         NEW kept \in SUBSET Plan!AllUnits
  PROVE  /\ Plan!Seed(row, TRUE, kept) \subseteq unitsOf[row.agl]
         /\ Plan!Seed(row, TRUE, kept) = row.lhas \/ row.lhas = {}
<1>1. row.agl \in Agls /\ row.method = kindOf[row.agl]
  BY RowFacts DEF Plan!Compatible
<1>2. row.method # Plan!Agnostic
  BY <1>1, UnitFacts
<1> QED BY <1>1, <1>2 DEF Plan!Seed, Fits

LEMMA UpdatedFacts ==
  ASSUME NEW s \in Saves, NEW row \in Plan!Row
  PROVE  /\ Plan!Updated(row, s) \in Plan!Row
         /\ Plan!Updated(row, s).name = IF s.named THEN s.sent.name ELSE row.name
         /\ Plan!Updated(row, s).agl = IF s.sent.agl = NoAgl THEN row.agl ELSE s.sent.agl
         /\ Plan!Updated(row, s).method = s.sent.method
         /\ Plan!Updated(row, s).conf = s.sent.conf
         /\ Plan!Updated(row, s).lhas = s.sent.lhas
<1>1. s.sent \in Plan!Row /\ s.named \in BOOLEAN
  BY DEF Saves
<1>2. PICK name : name = IF s.named THEN s.sent.name ELSE row.name
  OBVIOUS
<1>3. PICK agl : agl = IF s.sent.agl = NoAgl THEN row.agl ELSE s.sent.agl
  OBVIOUS
<1>4. Plan!Updated(row, s) = [s.sent EXCEPT !.name = name, !.agl = agl]
  BY <1>1, <1>2, <1>3 DEF Plan!Updated
<1>5. name \in 0..1 /\ agl \in Agls \cup {NoAgl}
  BY <1>1, <1>2, <1>3, RowFacts
<1>6. [s.sent EXCEPT !.name = name, !.agl = agl] \in Plan!Row
  BY <1>1, <1>5 DEF Plan!Row
<1>7. /\ [s.sent EXCEPT !.name = name, !.agl = agl].name = name
      /\ [s.sent EXCEPT !.name = name, !.agl = agl].agl = agl
      /\ [s.sent EXCEPT !.name = name, !.agl = agl].method = s.sent.method
      /\ [s.sent EXCEPT !.name = name, !.agl = agl].conf = s.sent.conf
      /\ [s.sent EXCEPT !.name = name, !.agl = agl].lhas = s.sent.lhas
  BY <1>1 DEF Plan!Row
<1> QED BY <1>2, <1>3, <1>4, <1>6, <1>7


LEMMA PlanStarts == ASSUME Plan!Init PROVE PlanInv
<1> USE TemplateFacts, BlankFacts
<1>1. /\ templateAt \in Templates /\ aglsLoaded \in BOOLEAN
      /\ template = [id |-> NoTemplate, row |-> Plan!Blank]
      /\ edit = [of |-> NoTemplate, row |-> Plan!Blank]
      /\ userTouchedLha = FALSE /\ seededTemplate = NoTemplate
      /\ autosave = FALSE /\ templateSaves = {}
      /\ templateReads = {<<templateAt, aglsLoaded>>}
      /\ templateLoading = TRUE /\ templateError = FALSE /\ templateSaveError = FALSE
      /\ asking = [what |-> "nothing", id |-> templateAt, row |-> Plan!Blank]
      /\ crossed = FALSE /\ clobbered = FALSE /\ templateEdits = 0
  BY DEF Plan!Init
<1> USE <1>1
<1>2. ASSUME NEW t \in Plan!AllTemplates
      PROVE  /\ storedTemplate[t] \in Plan!Row \cup {Plan!Absent}
             /\ Plan!Compatible(storedTemplate[t]) /\ storedTemplate[t].lhas = {}
  <2>1. \/ storedTemplate[t] \in {Plan!Absent, Plan!Blank}
        \/ \E a \in Agls :
             storedTemplate[t] = [Plan!Blank EXCEPT !.method = kindOf[a], !.agl = a]
    <3>1. storedTemplate \in [Plan!AllTemplates -> {Plan!Absent, Plan!Blank} \cup
            {[Plan!Blank EXCEPT !.method = kindOf[a], !.agl = a] : a \in Agls}]
      BY DEF Plan!Init
    <3>2. storedTemplate[t] \in {Plan!Absent, Plan!Blank} \cup
            {[Plan!Blank EXCEPT !.method = kindOf[a], !.agl = a] : a \in Agls}
      BY <3>1
    <3> QED BY <3>2
  <2>2. CASE storedTemplate[t] \in {Plan!Absent, Plan!Blank}
    BY <2>2 DEF Plan!Compatible
  <2>3. ASSUME NEW a \in Agls,
               storedTemplate[t] = [Plan!Blank EXCEPT !.method = kindOf[a], !.agl = a]
        PROVE  /\ storedTemplate[t] \in Plan!Row
               /\ Plan!Compatible(storedTemplate[t]) /\ storedTemplate[t].lhas = {}
    <3>1. kindOf[a] \in Plan!Methods
      BY UnitFacts
    <3>2. /\ storedTemplate[t] \in Plan!Row /\ storedTemplate[t].lhas = Plan!Blank.lhas
          /\ storedTemplate[t].method = kindOf[a] /\ storedTemplate[t].agl = a
      BY <2>3, <3>1 DEF Plan!Row
    <3> QED BY <3>2 DEF Plan!Compatible
  <2> QED BY <2>1, <2>2, <2>3
<1>3. storedTemplate \in [Plan!AllTemplates -> Plan!Row \cup {Plan!Absent}]
  <2>1. PICK S : storedTemplate \in [Plan!AllTemplates -> S]
    BY DEF Plan!Init
  <2> QED BY <1>2, <2>1
<1>4. /\ template.id = NoTemplate /\ template.row = Plan!Blank
      /\ edit.of = NoTemplate /\ edit.row = Plan!Blank
      /\ asking.what = "nothing" /\ asking.row = Plan!Blank
  OBVIOUS
<1>5. PlanTyped
  <2>1. template \in [id : TemplateIds, row : Plan!Row]
          /\ edit \in [of : TemplateIds, row : Plan!Row]
    OBVIOUS
  <2>2. asking \in Asked
    BY DEF Asked
  <2>3. templateAt \in Plan!AllTemplates /\ aglsLoaded \in BOOLEAN
    OBVIOUS
  <2>4. templateReads \subseteq Plan!AllTemplates \X BOOLEAN
    <3>1. <<templateAt, aglsLoaded>> \in Plan!AllTemplates \X BOOLEAN
      BY <2>3
    <3> QED BY <3>1
  <2>5. templateEdits \in 0..MaxTemplateEdits
    BY ONLY <1>1, TemplateFacts
  <2>6. /\ userTouchedLha \in BOOLEAN /\ autosave = FALSE /\ seededTemplate \in TemplateIds
        /\ templateLoading \in BOOLEAN /\ templateError \in BOOLEAN
        /\ templateSaveError \in BOOLEAN /\ crossed \in BOOLEAN /\ clobbered \in BOOLEAN
    OBVIOUS
  <2> QED BY ONLY <1>1, <1>3, <1>4, <2>1, <2>2, <2>3, <2>4, <2>5, <2>6 DEF PlanTyped
<1>6. RowsSound
  <2>1. seededTemplate # NewTemplate
    OBVIOUS
  <2>2. Plan!Compatible(template.row) /\ Plan!Compatible(asking.row)
    BY <1>4 DEF Plan!Compatible
  <2> QED BY <1>2, <1>4, <2>1, <2>2 DEF RowsSound
<1>7. NoUnitsYet
  BY <1>2, <1>4 DEF NoUnitsYet
<1>8. PlanAgrees
  BY <1>2, <1>4 DEF PlanAgrees, Arrived, RowsFit, Fits, OnPlan, SavesAgree
<1> QED BY <1>5, <1>6, <1>7, <1>8 DEF PlanInv

LEMMA PlanRests == ASSUME PlanInv, UNCHANGED planVars PROVE PlanInv'
<1>1. PlanTyped'
  BY DEF PlanInv, PlanTyped, planVars
<1>2. RowsSound'
  BY DEF PlanInv, RowsSound, planVars, Plan!Compatible
<1>3. NoUnitsYet'
  BY DEF PlanInv, NoUnitsYet, planVars
<1>4. PlanAgrees => PlanAgrees'
  <2>1. Arrived => Arrived'
    BY DEF Arrived, planVars
  <2>2. RowsFit => RowsFit'
    BY DEF RowsFit, Fits, planVars
  <2>3. (OnPlan => OnPlanAgrees) => (OnPlan => OnPlanAgrees)'
    BY DEF OnPlan, OnPlanAgrees, FitsIn, Fits, Quiet, Settles, planVars
  <2>4. SavesAgree => SavesAgree'
    BY DEF SavesAgree, SaveAgrees, SameForm, FitsIn, Fits, planVars
  <2> QED BY <2>1, <2>2, <2>3, <2>4 DEF PlanAgrees
<1> QED BY <1>1, <1>2, <1>3, <1>4 DEF PlanInv, planVars

\* What a page that can be edited shows.
LEMMA PlanShown ==
  ASSUME PlanInv, Plan!Editable
  PROVE  /\ templateAt # TemplateList /\ templateAt \in Plan!AllTemplates
         /\ template.id # NoTemplate /\ edit.of # NoTemplate
         /\ template.row \in Plan!Row /\ edit.row \in Plan!Row
         /\ ~crossed => OnPlan /\ OnPlanAgrees /\ PlanAgrees
BY DEF PlanInv, PlanTyped, PlanAgrees, Arrived, OnPlan, Plan!Editable

LEMMA EditedKeeps ==
  ASSUME PlanInv, NEW row \in Plan!Row, NEW touched \in BOOLEAN, Plan!Edited(row, touched),
         FitsIn(edit.row, template.row) => FitsIn(row, template.row),
         \/ aglsLoaded
         \/ ~touched /\ row.agl = edit.row.agl /\ row.lhas = edit.row.lhas
  PROVE  PlanInv'
<1>1. /\ Plan!Editable /\ templateEdits < MaxTemplateEdits /\ templateEdits' = templateEdits + 1
      /\ edit' = [edit EXCEPT !.row = row] /\ userTouchedLha' = (userTouchedLha \/ touched)
      /\ autosave' = TRUE
      /\ UNCHANGED <<storedTemplate, templateAt, aglsLoaded, template, seededTemplate,
                     templateSaves, templateReads, templateLoading, templateError,
                     templateSaveError, asking, crossed, clobbered>>
  BY DEF Plan!Edited, Plan!Act
<1>2. /\ templateAt # TemplateList /\ edit.of # NoTemplate
      /\ ~crossed => OnPlan /\ OnPlanAgrees /\ PlanAgrees
  BY <1>1, PlanShown
<1>3. edit' \in [of : TemplateIds, row : Plan!Row] /\ edit'.of = edit.of /\ edit'.row = row
  BY <1>1 DEF PlanInv, PlanTyped
<1>4. PlanTyped'
  <2>1. templateEdits' \in 0..MaxTemplateEdits
    BY <1>1, TemplateFacts DEF PlanInv, PlanTyped
  <2>2. userTouchedLha' \in BOOLEAN
    BY <1>1 DEF PlanInv, PlanTyped
  <2> QED BY <1>1, <1>2, <1>3, <2>1, <2>2 DEF PlanInv, PlanTyped
<1>5. RowsSound'
  BY <1>1 DEF PlanInv, RowsSound, Plan!Compatible
<1>6. NoUnitsYet'
  BY <1>1, <1>3 DEF PlanInv, NoUnitsYet
<1>7. ASSUME ~crossed
      PROVE  PlanAgrees'
  <2>1. Arrived'
    BY <1>1, <1>2, <1>7 DEF Arrived, OnPlan
  <2>2. RowsFit'
    BY <1>1, <1>2, <1>7 DEF PlanAgrees, RowsFit, Fits
  <2>3. OnPlanAgrees'
    <3>1. FitsIn(row, template.row)
      BY <1>2, <1>7 DEF OnPlanAgrees
    <3>2. FitsIn(edit.row, template.row)'
      BY <1>1, <1>3, <3>1 DEF FitsIn, Fits
    <3>3. ~Quiet'
      BY <1>1 DEF Quiet
    <3> QED BY <1>1, <1>2, <1>3, <1>7, <3>2, <3>3 DEF OnPlanAgrees
  <2>4. SavesAgree'
    BY <1>1, <1>2, <1>7 DEF PlanAgrees, SavesAgree, SaveAgrees, FitsIn, Fits
  <2> QED BY <2>1, <2>2, <2>3, <2>4 DEF PlanAgrees
<1> QED BY <1>1, <1>4, <1>5, <1>6, <1>7 DEF PlanInv

LEMMA FormKeeps ==
  ASSUME PlanInv, NEW v \in 0..1, Plan!handleNameChange(v) \/ Plan!handleConfigChange(v)
  PROVE  PlanInv'
<1>1. edit.row \in Plan!Row
  BY DEF PlanInv, PlanTyped
<1>2. PICK row : /\ row = [edit.row EXCEPT !.name = v] \/ row = [edit.row EXCEPT !.conf = v]
                 /\ Plan!Edited(row, FALSE)
  BY DEF Plan!handleNameChange, Plan!handleConfigChange
<1>3. row \in Plan!Row /\ row.agl = edit.row.agl /\ row.lhas = edit.row.lhas
  BY <1>1, <1>2 DEF Plan!Row
<1>4. FitsIn(edit.row, template.row) => FitsIn(row, template.row)
  BY <1>3 DEF FitsIn, Fits
<1> QED BY <1>2, <1>3, <1>4, EditedKeeps

LEMMA PickerKeeps == ASSUME PlanInv, Plan!Picker PROVE PlanInv'
<1>1. edit.row \in Plan!Row
  BY DEF PlanInv, PlanTyped
<1>2. ASSUME NEW m \in Plan!Methods, Plan!handleMethodChange(m)
      PROVE  PlanInv'
  <2>1. PICK row : row = [edit.row EXCEPT !.method = m]
    OBVIOUS
  <2>2. row \in Plan!Row /\ row.agl = edit.row.agl /\ row.lhas = edit.row.lhas
    BY <1>1, <2>1 DEF Plan!Row
  <2>3. FitsIn(edit.row, template.row) => FitsIn(row, template.row)
    BY <2>2 DEF FitsIn, Fits
  <2>4. Plan!Edited(row, FALSE)
    BY <1>2, <2>1 DEF Plan!handleMethodChange
  <2> QED BY <2>2, <2>3, <2>4, EditedKeeps
<1>3. ASSUME NEW a \in Agls \cup {NoAgl}, Plan!handleAglChange(a)
      PROVE  PlanInv'
  <2>1. PICK lhas : lhas = IF a = NoAgl \/ edit.row.method = Plan!Agnostic THEN {} ELSE unitsOf[a]
    OBVIOUS
  <2>2. lhas \in SUBSET Plan!AllUnits
    BY <2>1, UnitFacts
  <2>3. PICK row : row = [edit.row EXCEPT !.agl = a, !.lhas = lhas]
    OBVIOUS
  <2>4. row \in Plan!Row /\ row.agl = a /\ row.lhas = lhas
    BY <1>1, <2>2, <2>3 DEF Plan!Row
  <2>5. FitsIn(row, template.row)
    BY <2>1, <2>4 DEF FitsIn, Fits
  <2>6. Plan!Edited(row, FALSE) /\ aglsLoaded
    BY <1>3, <2>1, <2>3 DEF Plan!handleAglChange
  <2> QED BY <2>4, <2>5, <2>6, EditedKeeps
<1>4. ASSUME NEW lhas \in SUBSET Plan!AllUnits, Plan!handleToggleLha(lhas)
      PROVE  PlanInv'
  <2>1. PICK row : row = [edit.row EXCEPT !.lhas = lhas]
    OBVIOUS
  <2>2. row \in Plan!Row /\ row.agl = edit.row.agl /\ row.lhas = lhas
    BY <1>1, <2>1 DEF Plan!Row
  <2>3. Plan!Edited(row, TRUE) /\ aglsLoaded /\ edit.row.agl # NoAgl
    BY <1>4, <2>1 DEF Plan!handleToggleLha
  <2>4. FitsIn(edit.row, template.row) => FitsIn(row, template.row)
    <3>1. lhas \subseteq edit.row.lhas \cup unitsOf[edit.row.agl]
      BY <1>4 DEF Plan!handleToggleLha
    <3> QED BY <2>2, <2>3, <3>1 DEF FitsIn, Fits
  <2> QED BY <2>2, <2>3, <2>4, EditedKeeps
<1> QED BY <1>2, <1>3, <1>4 DEF Plan!Picker


\* The form with other units selected.
LEMMA FormSeeded ==
  ASSUME NEW e \in [of : TemplateIds, row : Plan!Row], NEW lhas \in SUBSET Plan!AllUnits
  PROVE  /\ [e EXCEPT !.row.lhas = lhas] \in [of : TemplateIds, row : Plan!Row]
         /\ [e EXCEPT !.row.lhas = lhas].of = e.of
         /\ [e EXCEPT !.row.lhas = lhas].row.name = e.row.name
         /\ [e EXCEPT !.row.lhas = lhas].row.method = e.row.method
         /\ [e EXCEPT !.row.lhas = lhas].row.agl = e.row.agl
         /\ [e EXCEPT !.row.lhas = lhas].row.conf = e.row.conf
         /\ [e EXCEPT !.row.lhas = lhas].row.lhas = lhas
BY DEF Plan!Row

\* Readings begin and end, and something is asked for, beside the form.
LEMMA AroundKeeps ==
  ASSUME PlanInv,
         UNCHANGED <<storedTemplate, templateAt, aglsLoaded, template, edit, userTouchedLha,
                     seededTemplate, autosave, templateSaves, templateSaveError, crossed,
                     clobbered>>,
         templateReads' \subseteq Plan!AllTemplates \X BOOLEAN,
         templateLoading' \in BOOLEAN, templateError' \in BOOLEAN,
         asking' \in Asked, templateEdits' \in 0..MaxTemplateEdits,
         Plan!Compatible(asking.row)',
         asking'.what = "copy" =>
           /\ storedTemplate[NewTemplate] = Plan!Absent
           /\ templateAt # TemplateList \/ asking.what = "copy",
         ~aglsLoaded => asking'.row.lhas = {} /\ \A r \in templateReads' : r[2] = FALSE,
         ~crossed => Fits(asking'.row),
         templateAt # TemplateList /\ ~templateLoading' /\ ~templateError' =>
           ~templateLoading /\ ~templateError
  PROVE  PlanInv'
<1>1. PlanTyped'
  BY DEF PlanInv, PlanTyped
<1>2. RowsSound'
  BY DEF PlanInv, RowsSound, Plan!Compatible
<1>3. NoUnitsYet'
  BY DEF PlanInv, NoUnitsYet
<1>4. ASSUME ~crossed
      PROVE  PlanAgrees'
  <2>1. Arrived'
    BY <1>4 DEF PlanInv, PlanAgrees, Arrived
  <2>2. RowsFit'
    BY <1>4 DEF PlanInv, PlanAgrees, RowsFit, Fits
  <2>3. (OnPlan => OnPlanAgrees)'
    BY <1>4 DEF PlanInv, PlanAgrees, OnPlan, OnPlanAgrees, FitsIn, Fits, Quiet, Settles
  <2>4. SavesAgree'
    BY <1>4 DEF PlanInv, PlanAgrees, SavesAgree, SaveAgrees, SameForm, FitsIn, Fits
  <2> QED BY <2>1, <2>2, <2>3, <2>4 DEF PlanAgrees
<1> QED BY <1>1, <1>2, <1>3, <1>4 DEF PlanInv

LEMMA UnreadKeeps ==
  ASSUME PlanInv, NEW r \in templateReads, Plan!TemplateUnread(r)
  PROVE  PlanInv'
<1>1. /\ templateReads' = templateReads \ {r} /\ templateLoading' = FALSE
      /\ templateError' = (templateError \/ templateAt # TemplateList)
      /\ UNCHANGED <<storedTemplate, templateAt, aglsLoaded, template, edit, userTouchedLha,
                     seededTemplate, autosave, templateSaves, templateSaveError, crossed,
                     clobbered>>
      /\ UNCHANGED <<asking, templateEdits>>
  BY DEF Plan!TemplateUnread
<1>2. templateReads' \subseteq Plan!AllTemplates \X BOOLEAN
  BY <1>1 DEF PlanInv, PlanTyped
<1>3. /\ asking' \in Asked /\ templateEdits' \in 0..MaxTemplateEdits /\ templateError' \in BOOLEAN
      /\ templateLoading' \in BOOLEAN
  BY <1>1 DEF PlanInv, PlanTyped
<1>4. Plan!Compatible(asking.row)'
  BY <1>1 DEF PlanInv, RowsSound, Plan!Compatible
<1>5. asking'.what = "copy" =>
        /\ storedTemplate[NewTemplate] = Plan!Absent
        /\ templateAt # TemplateList \/ asking.what = "copy"
  BY <1>1 DEF PlanInv, RowsSound
<1>6. ~aglsLoaded => asking'.row.lhas = {} /\ \A o \in templateReads' : o[2] = FALSE
  BY <1>1 DEF PlanInv, NoUnitsYet
<1>7. ~crossed => Fits(asking'.row)
  BY <1>1 DEF PlanInv, PlanAgrees, RowsFit
<1>8. templateAt # TemplateList /\ ~templateLoading' /\ ~templateError' =>
        ~templateLoading /\ ~templateError
  BY <1>1
<1> QED BY <1>1, <1>2, <1>3, <1>4, <1>5, <1>6, <1>7, <1>8, AroundKeeps

LEMMA RetryKeeps == ASSUME PlanInv, Plan!Retry PROVE PlanInv'
<1>1. /\ templateAt # TemplateList
      /\ templateReads' = templateReads \cup {<<templateAt, aglsLoaded>>}
      /\ templateLoading' = TRUE /\ templateError' = FALSE
      /\ templateEdits < MaxTemplateEdits /\ templateEdits' = templateEdits + 1
      /\ UNCHANGED <<storedTemplate, templateAt, aglsLoaded, template, edit, userTouchedLha,
                     seededTemplate, autosave, templateSaves, templateSaveError, crossed,
                     clobbered>>
      /\ UNCHANGED asking
  BY DEF Plan!Retry, Plan!fetchData, Plan!Act
<1>2. templateReads' \subseteq Plan!AllTemplates \X BOOLEAN
  <2>1. templateAt \in Plan!AllTemplates /\ aglsLoaded \in BOOLEAN
    BY <1>1 DEF PlanInv, PlanTyped
  <2> QED BY <1>1, <2>1 DEF PlanInv, PlanTyped
<1>3. /\ asking' \in Asked /\ templateEdits' \in 0..MaxTemplateEdits
      /\ templateLoading' \in BOOLEAN /\ templateError' \in BOOLEAN
  <2>1. templateEdits' \in 0..MaxTemplateEdits
    BY <1>1, TemplateFacts DEF PlanInv, PlanTyped
  <2> QED BY <1>1, <2>1 DEF PlanInv, PlanTyped
<1>4. Plan!Compatible(asking.row)'
  BY <1>1 DEF PlanInv, RowsSound, Plan!Compatible
<1>5. asking'.what = "copy" =>
        /\ storedTemplate[NewTemplate] = Plan!Absent
        /\ templateAt # TemplateList \/ asking.what = "copy"
  BY <1>1 DEF PlanInv, RowsSound
<1>6. ~aglsLoaded => asking'.row.lhas = {} /\ \A o \in templateReads' : o[2] = FALSE
  BY <1>1 DEF PlanInv, NoUnitsYet
<1>7. ~crossed => Fits(asking'.row)
  BY <1>1 DEF PlanInv, PlanAgrees, RowsFit
<1> QED BY <1>1, <1>2, <1>3, <1>4, <1>5, <1>6, <1>7, AroundKeeps

LEMMA AskKeeps ==
  ASSUME PlanInv, Plan!handleDelete \/ Plan!handleDuplicate \/ Plan!Refused
  PROVE  PlanInv'
<1>1. UNCHANGED <<storedTemplate, templateAt, aglsLoaded, template, edit, userTouchedLha,
                  seededTemplate, autosave, templateSaves, templateReads, templateLoading,
                  templateError, templateSaveError, crossed, clobbered>>
  BY DEF Plan!handleDelete, Plan!handleDuplicate, Plan!Refused, Plan!Ask
<1>2. templateEdits' \in 0..MaxTemplateEdits
  <2>1. \/ templateEdits' = templateEdits
        \/ templateEdits < MaxTemplateEdits /\ templateEdits' = templateEdits + 1
    BY DEF Plan!handleDelete, Plan!handleDuplicate, Plan!Refused, Plan!Ask, Plan!Act
  <2> QED BY <2>1, TemplateFacts DEF PlanInv, PlanTyped
<1>3. /\ asking' \in Asked /\ Plan!Compatible(asking.row)'
      /\ asking'.what = "copy" =>
           /\ storedTemplate[NewTemplate] = Plan!Absent
           /\ templateAt # TemplateList \/ asking.what = "copy"
      /\ ~aglsLoaded => asking'.row.lhas = {}
      /\ ~crossed => Fits(asking'.row)
  <2>1. CASE Plan!Refused
    <3>1. asking' = [asking EXCEPT !.what = "nothing"] /\ asking \in Asked
      BY <2>1 DEF Plan!Refused, PlanInv, PlanTyped
    <3>2. asking' \in Asked /\ asking'.row = asking.row /\ asking'.what = "nothing"
      BY <3>1 DEF Asked
    <3> QED BY <3>2 DEF PlanInv, RowsSound, NoUnitsYet, PlanAgrees, RowsFit, Plan!Compatible
  <2>2. CASE Plan!handleDelete
    <3>1. asking' = [what |-> "delete", id |-> templateAt, row |-> Plan!Blank] /\ Plan!Editable
      BY <2>2 DEF Plan!handleDelete, Plan!Ask
    <3>2. asking' \in Asked /\ asking'.row = Plan!Blank /\ asking'.what = "delete"
      BY <3>1, PlanShown, BlankFacts DEF Asked
    <3> QED BY <3>2, BlankFacts DEF Plan!Compatible, Fits
  <2>3. CASE Plan!handleDuplicate
    <3>1. PICK row : row = [template.row EXCEPT !.conf = edit.row.conf]
      OBVIOUS
    <3>2. /\ asking' = [what |-> "copy", id |-> templateAt, row |-> row] /\ Plan!Editable
          /\ storedTemplate[NewTemplate] = Plan!Absent
      BY <2>3, <3>1 DEF Plan!handleDuplicate, Plan!Ask
    <3>3. template.row \in Plan!Row /\ edit.row \in Plan!Row /\ templateAt \in Plan!AllTemplates
      BY <3>2, PlanShown
    <3>4. /\ row \in Plan!Row /\ row.agl = template.row.agl /\ row.lhas = template.row.lhas
          /\ row.method = template.row.method
      BY <3>1, <3>3 DEF Plan!Row
    <3>5. asking' \in Asked /\ asking'.row = row
      BY <3>2, <3>3, <3>4 DEF Asked
    <3>6. ~crossed => Fits(row)
      <4>1. ~crossed => template.row = storedTemplate[templateAt] /\ RowsFit
        BY <3>2, PlanShown DEF OnPlanAgrees, PlanAgrees
      <4> QED BY <3>3, <3>4, <4>1 DEF RowsFit, Fits
    <3>7. templateAt # TemplateList
      BY <3>2, PlanShown
    <3>8. Plan!Compatible(asking.row)'
      BY <3>4, <3>5 DEF PlanInv, RowsSound, Plan!Compatible
    <3>9. ~aglsLoaded => asking'.row.lhas = {}
      BY <3>4, <3>5 DEF PlanInv, NoUnitsYet
    <3> QED BY <3>2, <3>5, <3>6, <3>7, <3>8, <3>9
  <2> QED BY <2>1, <2>2, <2>3
<1>4. /\ templateReads' \subseteq Plan!AllTemplates \X BOOLEAN
      /\ templateLoading' \in BOOLEAN /\ templateError' \in BOOLEAN
  BY <1>1 DEF PlanInv, PlanTyped
<1>5. ~aglsLoaded => asking'.row.lhas = {} /\ \A r \in templateReads' : r[2] = FALSE
  BY <1>1, <1>3 DEF PlanInv, NoUnitsYet
<1> QED BY <1>1, <1>2, <1>3, <1>4, <1>5, AroundKeeps


LEMMA AirportKeeps == ASSUME PlanInv, Plan!AirportLoaded PROVE PlanInv'
<1>1. /\ ~aglsLoaded /\ aglsLoaded' = TRUE
      /\ UNCHANGED <<storedTemplate, templateAt, template, userTouchedLha, seededTemplate, autosave,
                     templateSaves, templateSaveError, asking, crossed, clobbered, templateEdits>>
  BY DEF Plan!AirportLoaded
<1>2. RowsSound' /\ NoUnitsYet'
  BY <1>1 DEF PlanInv, RowsSound, NoUnitsYet, Plan!Compatible
<1>3. RowsFit => RowsFit'
  BY <1>1 DEF RowsFit, Fits
<1>4. CASE templateAt = TemplateList
  <2>1. UNCHANGED <<edit, templateReads, templateLoading, templateError>>
    BY <1>4 DEF Plan!AirportLoaded
  <2>2. PlanTyped'
    BY <1>1, <2>1 DEF PlanInv, PlanTyped
  <2>3. PlanAgrees => PlanAgrees'
    <3>1. SavesAgree => SavesAgree'
      BY <1>1, <1>4, <2>1 DEF SavesAgree, SaveAgrees, FitsIn, Fits
    <3> QED BY <1>1, <1>3, <1>4, <3>1 DEF PlanAgrees, Arrived, OnPlan
  <2> QED BY <1>1, <1>2, <2>2, <2>3 DEF PlanInv
<1>5. CASE templateAt # TemplateList
  <2>1. PICK lhas : lhas = Plan!Reseed(template.row, TRUE, userTouchedLha, edit.row.lhas)
    OBVIOUS
  <2>2. /\ templateReads' = templateReads \cup {<<templateAt, TRUE>>}
        /\ templateLoading' = TRUE /\ templateError' = FALSE
        /\ edit' = IF template.id = NoTemplate THEN edit ELSE [edit EXCEPT !.row.lhas = lhas]
    BY <1>5, <2>1 DEF Plan!AirportLoaded, Plan!fetchData
  <2>3. /\ edit \in [of : TemplateIds, row : Plan!Row] /\ template.row \in Plan!Row
        /\ edit.row \in Plan!Row /\ userTouchedLha = FALSE
    BY <1>1 DEF PlanInv, PlanTyped, NoUnitsYet
  <2>4. lhas \in SUBSET Plan!AllUnits
    BY <2>1, <2>3, SeedFacts, RowFacts
  <2>5. /\ edit' \in [of : TemplateIds, row : Plan!Row] /\ edit'.of = edit.of
        /\ edit'.row.name = edit.row.name /\ edit'.row.method = edit.row.method
        /\ edit'.row.agl = edit.row.agl /\ edit'.row.conf = edit.row.conf
    BY <2>2, <2>3, <2>4, FormSeeded
  <2>6. template.id # NoTemplate => edit'.row.lhas = lhas
    BY <2>2, <2>3, <2>4, FormSeeded
  <2>7. PlanTyped'
    <3>1. templateReads' \subseteq Plan!AllTemplates \X BOOLEAN
      <4>1. templateAt \in Plan!AllTemplates
        BY <1>5 DEF PlanInv, PlanTyped
      <4>2. <<templateAt, TRUE>> \in Plan!AllTemplates \X BOOLEAN
        BY <4>1
      <4> QED BY <2>2, <4>2 DEF PlanInv, PlanTyped
    <3> QED BY <1>1, <2>2, <2>5, <3>1 DEF PlanInv, PlanTyped
  <2>8. ASSUME ~crossed
        PROVE  PlanAgrees'
    <3>1. Arrived'
      BY <1>1, <2>2, <2>8 DEF PlanInv, PlanAgrees, Arrived
    <3>2. OnPlan <=> OnPlan'
      BY <1>1 DEF OnPlan
    <3>3. ASSUME OnPlan
          PROVE  /\ template.row.agl = NoAgl => edit'.row.lhas = edit.row.lhas
                 /\ template.row.agl # NoAgl =>
                      /\ edit'.row.lhas \subseteq unitsOf[template.row.agl]
                      /\ edit'.row.lhas = template.row.lhas \/ template.row.lhas = {}
                 /\ edit.row.agl = template.row.agl
      <4>1. /\ template.id = templateAt /\ template.row = storedTemplate[templateAt]
            /\ edit.row.agl = template.row.agl /\ RowsFit
            /\ templateAt \in Plan!AllTemplates
        BY <1>1, <1>5, <2>8, <3>3 DEF PlanInv, PlanTyped, PlanAgrees, OnPlanAgrees
      <4>2. edit'.row.lhas = lhas
        BY <2>6, <4>1, TemplateFacts
      <4>3. Fits(template.row) /\ Plan!Compatible(template.row)
        BY <4>1 DEF RowsFit, PlanInv, RowsSound
      <4>4. template.row.agl = NoAgl => lhas = edit.row.lhas
        BY <2>1 DEF Plan!Reseed
      <4>5. template.row.agl # NoAgl => lhas = Plan!Seed(template.row, TRUE, edit.row.lhas)
        BY <2>1, <2>3 DEF Plan!Reseed
      <4>6. edit.row.lhas \in SUBSET Plan!AllUnits
        BY <2>3, RowFacts
      <4>7. template.row.agl # NoAgl =>
              /\ lhas \subseteq unitsOf[template.row.agl]
              /\ lhas = template.row.lhas \/ template.row.lhas = {}
        <5> SUFFICES ASSUME template.row.agl # NoAgl
                     PROVE  /\ lhas \subseteq unitsOf[template.row.agl]
                            /\ lhas = template.row.lhas \/ template.row.lhas = {}
          OBVIOUS
        <5>1. Plan!Seed(template.row, TRUE, edit.row.lhas) \subseteq unitsOf[template.row.agl]
          BY <2>3, <4>3, <4>6, SeedFits
        <5>2. \/ Plan!Seed(template.row, TRUE, edit.row.lhas) = template.row.lhas
              \/ template.row.lhas = {}
          BY <2>3, <4>3, <4>6, SeedFits
        <5> QED BY <4>5, <5>1, <5>2
      <4> QED BY <4>1, <4>2, <4>4, <4>7
    <3>4. OnPlan => OnPlanAgrees'
      <4> SUFFICES ASSUME OnPlan
                   PROVE  OnPlanAgrees'
        OBVIOUS
      <4>1. OnPlanAgrees
        BY <2>8 DEF PlanInv, PlanAgrees
      <4>2. FitsIn(edit.row, template.row)'
        <5>1. FitsIn(edit.row, template.row)
          BY <4>1 DEF OnPlanAgrees
        <5> QED BY <1>1, <2>5, <3>3, <5>1 DEF FitsIn, Fits
      <4>3. Quiet' => Settles(edit.row, template.row)'
        <5>1. Quiet' => Settles(edit.row, template.row)
          BY <1>1, <4>1 DEF OnPlanAgrees, Quiet
        <5> QED BY <1>1, <2>5, <3>3, <5>1 DEF Settles
      <4> QED BY <1>1, <2>5, <4>1, <4>2, <4>3 DEF OnPlanAgrees
    <3>5. SavesAgree'
      <4>1. ASSUME NEW s \in templateSaves
            PROVE  SaveAgrees(s)'
        <5>1. SaveAgrees(s) /\ OnPlan
          BY <1>5, <2>8 DEF PlanInv, PlanAgrees, SavesAgree, Arrived, OnPlan
        <5>2. ~autosave => SameForm(s)'
          <6> SUFFICES ASSUME ~autosave
                       PROVE  SameForm(s)'
            OBVIOUS
          <6>1. SameForm(s)
            BY <1>5, <5>1 DEF SaveAgrees
          <6>2. edit.row.lhas = s.sent.lhas
            BY <1>1, <6>1 DEF SameForm
          <6> QED BY <1>1, <2>3, <2>5, <3>3, <5>1, <6>1, <6>2 DEF SameForm
        <5> QED BY <1>1, <5>1, <5>2 DEF SaveAgrees, FitsIn, Fits
      <4>2. \A s, o \in templateSaves : s = o
        BY <2>8 DEF PlanInv, PlanAgrees, SavesAgree
      <4> QED BY <1>1, <4>1, <4>2 DEF SavesAgree
    <3> QED BY <1>3, <2>8, <3>1, <3>2, <3>4, <3>5 DEF PlanInv, PlanAgrees
  <2> QED BY <1>1, <1>2, <2>7, <2>8 DEF PlanInv
<1> QED BY <1>4, <1>5


LEMMA TemplateReadKeeps ==
  ASSUME PlanInv, NEW r \in templateReads, Plan!TemplateRead(r)
  PROVE  PlanInv'
<1>1. PICK id, row, touched, first : /\ id = r[1] /\ row = storedTemplate[r[1]]
                                     /\ touched = (userTouchedLha /\ seededTemplate = r[1])
                                     /\ first = Plan!Seed(row, r[2], edit.row.lhas)
  OBVIOUS
<1>2. /\ row # Plan!Absent /\ templateReads' = templateReads \ {r} /\ templateLoading' = FALSE
      /\ UNCHANGED <<storedTemplate, templateAt, aglsLoaded, autosave, templateSaves, templateError,
                     templateSaveError, asking, templateEdits>>
  BY <1>1 DEF Plan!TemplateRead
<1>3. r[1] \in Plan!AllTemplates /\ r[2] \in BOOLEAN
  BY DEF PlanInv, PlanTyped
<1>4. id \in Plan!AllTemplates /\ row \in Plan!Row /\ Plan!Compatible(row) /\ touched \in BOOLEAN
  BY <1>1, <1>2, <1>3 DEF PlanInv, PlanTyped, RowsSound
<1>5. CASE templateAt = TemplateList
  <2>1. UNCHANGED <<template, edit, userTouchedLha, seededTemplate, crossed, clobbered>>
    BY <1>5 DEF Plan!TemplateRead
  <2>2. templateReads' \subseteq Plan!AllTemplates \X BOOLEAN
    BY <1>2 DEF PlanInv, PlanTyped
  <2>3. /\ asking' \in Asked /\ templateEdits' \in 0..MaxTemplateEdits
        /\ templateLoading' \in BOOLEAN /\ templateError' \in BOOLEAN
    BY <1>2 DEF PlanInv, PlanTyped
  <2>4. Plan!Compatible(asking.row)'
    BY <1>2 DEF PlanInv, RowsSound, Plan!Compatible
  <2>5. asking'.what = "copy" =>
          /\ storedTemplate[NewTemplate] = Plan!Absent
          /\ templateAt # TemplateList \/ asking.what = "copy"
    BY <1>2 DEF PlanInv, RowsSound
  <2>6. ~aglsLoaded => asking'.row.lhas = {} /\ \A o \in templateReads' : o[2] = FALSE
    BY <1>2 DEF PlanInv, NoUnitsYet
  <2>7. ~crossed => Fits(asking'.row)
    BY <1>2 DEF PlanInv, PlanAgrees, RowsFit
  <2> QED BY <1>2, <1>5, <2>1, <2>2, <2>3, <2>4, <2>5, <2>6, <2>7, AroundKeeps
<1>6. CASE templateAt # TemplateList
  <2>1. PICK lhas : lhas = Plan!Reseed(row, aglsLoaded, touched, first)
    OBVIOUS
  <2>2. PICK form : form = [row EXCEPT !.lhas = lhas]
    OBVIOUS
  <2>3. /\ template' = [id |-> id, row |-> row] /\ edit' = [of |-> id, row |-> form]
        /\ seededTemplate' = id /\ userTouchedLha' = touched
        /\ crossed' = (crossed \/ id # templateAt \/ autosave \/ templateSaves # {}
             \/ templateSaveError)
        /\ clobbered' = (clobbered \/ (touched /\ edit.of = id /\ first # edit.row.lhas))
    BY <1>1, <1>6, <2>1, <2>2 DEF Plan!TemplateRead
  <2>4. template'.id = id /\ template'.row = row /\ edit'.of = id /\ edit'.row = form
    BY <2>3
  <2>5. edit.row \in Plan!Row /\ edit.row.lhas \in SUBSET Plan!AllUnits /\ aglsLoaded \in BOOLEAN
    BY RowFacts DEF PlanInv, PlanTyped
  <2>6. first \in SUBSET Plan!AllUnits
    BY <1>1, <1>3, <1>4, <2>5, SeedFacts
  <2>7. lhas \in SUBSET Plan!AllUnits
    BY <1>4, <2>1, <2>5, <2>6, SeedFacts
  <2>8. /\ form \in Plan!Row /\ form.lhas = lhas /\ form.agl = row.agl /\ form.name = row.name
        /\ form.conf = row.conf /\ form.method = row.method
    BY <1>4, <2>2, <2>7 DEF Plan!Row
  <2>9. PlanTyped'
    <3>1. template' \in [id : TemplateIds, row : Plan!Row]
            /\ edit' \in [of : TemplateIds, row : Plan!Row]
      BY <1>4, <2>3, <2>8, TemplateFacts
    <3>2. crossed' \in BOOLEAN /\ clobbered' \in BOOLEAN
      BY <2>3, <1>4 DEF PlanInv, PlanTyped
    <3>3. id # NoTemplate /\ id \in TemplateIds
      BY <1>4, TemplateFacts
    <3> QED BY <1>2, <1>4, <2>3, <2>4, <3>1, <3>2, <3>3 DEF PlanInv, PlanTyped
  <2>10. RowsSound'
    <3>1. Plan!Compatible(template.row)'
      BY <1>4, <2>4 DEF Plan!Compatible
    <3>2. storedTemplate[NewTemplate] = Plan!Absent => seededTemplate' # NewTemplate
      BY <1>1, <1>2, <2>3
    <3> QED BY <1>2, <3>1, <3>2 DEF PlanInv, RowsSound, Plan!Compatible
  <2>11. ~aglsLoaded => lhas = {} /\ row.lhas = {} /\ ~touched
    <3> SUFFICES ASSUME ~aglsLoaded
                 PROVE  lhas = {} /\ row.lhas = {} /\ ~touched
      OBVIOUS
    <3>1. r[2] = FALSE /\ row.lhas = {} /\ edit.row.lhas = {} /\ ~userTouchedLha
      BY <1>1, <1>3 DEF PlanInv, NoUnitsYet
    <3>2. first = {}
      BY <1>1, <3>1 DEF Plan!Seed
    <3> QED BY <1>1, <2>1, <3>1, <3>2 DEF Plan!Reseed
  <2>12. NoUnitsYet'
    BY <1>2, <2>3, <2>4, <2>8, <2>11 DEF PlanInv, NoUnitsYet
  <2>13. ASSUME ~crossed'
         PROVE  PlanAgrees'
    <3>1. id = templateAt /\ Quiet /\ ~crossed /\ PlanAgrees
      BY <2>3, <2>13 DEF Quiet, PlanInv
    <3>2. Fits(row)
      BY <1>1, <1>3, <3>1 DEF PlanAgrees, RowsFit
    <3>3. row.lhas # {} => first = row.lhas /\ lhas = row.lhas
      BY <1>1, <2>1 DEF Plan!Seed, Plan!Reseed
    <3>4. row.agl # NoAgl => lhas \subseteq unitsOf[row.agl]
      <4> SUFFICES ASSUME row.agl # NoAgl, row.lhas = {}
                   PROVE  lhas \subseteq unitsOf[row.agl]
        BY <3>2, <3>3 DEF Fits
      <4>1. CASE aglsLoaded /\ ~touched
        <5>1. lhas = Plan!Seed(row, TRUE, first)
          BY <2>1, <2>5, <4>1 DEF Plan!Reseed
        <5> QED BY <1>4, <2>6, <3>2, <5>1, SeedFits
      <4>2. CASE ~(aglsLoaded /\ ~touched)
        <5>1. lhas = first
          BY <2>1, <4>2 DEF Plan!Reseed
        <5>2. CASE r[2] = TRUE
          <6>1. first = Plan!Seed(row, TRUE, edit.row.lhas)
            BY <1>1, <5>2
          <6> QED BY <1>4, <2>5, <3>2, <5>1, <6>1, SeedFits
        <5>3. CASE r[2] = FALSE
          <6>1. first = edit.row.lhas
            BY <1>1, <5>3 DEF Plan!Seed
          <6>2. CASE ~aglsLoaded
            BY <2>11, <6>2
          <6>3. CASE touched
            <7>1. OnPlan /\ OnPlanAgrees
              BY <1>1, <1>6, <3>1, <6>3 DEF OnPlan, PlanAgrees
            <7>2. template.row = row
              BY <1>1, <3>1, <7>1 DEF OnPlanAgrees
            <7>3. FitsIn(edit.row, row) /\ Settles(edit.row, row)
              BY <3>1, <7>1, <7>2 DEF OnPlanAgrees
            <7> QED BY <5>1, <6>1, <7>3 DEF FitsIn, Fits, Settles
          <6> QED BY <4>2, <6>2, <6>3
        <5> QED BY <1>3, <5>2, <5>3
      <4> QED BY <4>1, <4>2
    <3>5. Arrived'
      BY <1>2, <2>3, <3>1 DEF Arrived
    <3>6. RowsFit'
      BY <1>2, <3>1 DEF PlanAgrees, RowsFit, Fits
    <3>7. OnPlanAgrees'
      <4>1. FitsIn(form, row) /\ Settles(form, row)
        BY <2>8, <3>3, <3>4 DEF FitsIn, Fits, Settles
      <4>2. FitsIn(edit.row, template.row)' /\ Settles(edit.row, template.row)'
        BY <2>4, <4>1 DEF FitsIn, Fits, Settles
      <4> QED BY <1>1, <1>2, <2>4, <2>8, <3>1, <4>2 DEF OnPlanAgrees
    <3>8. SavesAgree'
      BY <1>2, <3>1 DEF SavesAgree, Quiet
    <3> QED BY <3>5, <3>6, <3>7, <3>8 DEF PlanAgrees
  <2> QED BY <2>9, <2>10, <2>12, <2>13 DEF PlanInv
<1> QED BY <1>5, <1>6

LEMMA SaveKeeps == ASSUME PlanInv, Plan!AutosaveFires PROVE PlanInv'
<1>1. PICK s : s = [id |-> templateAt, of |-> edit.of, sent |-> edit.row,
                    named |-> edit.row.name # template.row.name]
  OBVIOUS
<1>2. /\ autosave /\ autosave' = FALSE /\ templateSaves' = templateSaves \cup {s}
      /\ templateSaveError' = FALSE /\ crossed' = (crossed \/ templateSaves # {})
      /\ UNCHANGED <<storedTemplate, templateAt, aglsLoaded, template, edit, userTouchedLha,
                     seededTemplate, templateReads, templateLoading, templateError, asking,
                     clobbered, templateEdits>>
  BY <1>1 DEF Plan!AutosaveFires
<1>3. /\ s.id = templateAt /\ s.of = edit.of /\ s.sent = edit.row
      /\ s.named \/ edit.row.name = template.row.name
  BY <1>1
<1>4. /\ templateAt \in Plan!AllTemplates /\ templateAt # TemplateList
      /\ edit.of \in Plan!AllTemplates /\ edit.row \in Plan!Row
  BY <1>2 DEF PlanInv, PlanTyped, TemplateIds
<1>5. s \in Saves
  BY <1>1, <1>4 DEF Saves
<1>6. PlanTyped'
  <2>1. templateSaves' \subseteq Saves /\ edit'.of # NoTemplate /\ crossed' \in BOOLEAN
    BY <1>2, <1>4, <1>5, TemplateFacts DEF PlanInv, PlanTyped
  <2> QED BY <1>2, <2>1 DEF PlanInv, PlanTyped
<1>7. RowsSound'
  BY <1>2 DEF PlanInv, RowsSound, Plan!Compatible
<1>8. NoUnitsYet'
  BY <1>2, <1>3 DEF PlanInv, NoUnitsYet
<1>9. ASSUME ~crossed'
      PROVE  PlanAgrees'
  <2>1. PlanAgrees /\ templateSaves' = {s}
    BY <1>2, <1>9 DEF PlanInv
  <2>2. OnPlan /\ OnPlanAgrees
    BY <1>2, <1>4, <2>1 DEF PlanAgrees, Arrived, OnPlan
  <2>3. Arrived'
    BY <1>2, <2>2 DEF Arrived, OnPlan
  <2>4. RowsFit'
    BY <1>2, <2>1 DEF PlanAgrees, RowsFit, Fits
  <2>5. OnPlanAgrees'
    <3>1. ~Quiet'
      BY <2>1 DEF Quiet
    <3> QED BY <1>2, <2>2, <3>1 DEF OnPlanAgrees, FitsIn, Fits
  <2>6. SaveAgrees(s)'
    <3>1. s.of = s.id /\ FitsIn(s.sent, storedTemplate[s.id])
      BY <1>3, <2>2 DEF OnPlanAgrees
    <3>2. SameForm(s)'
      BY <1>2, <1>3 DEF SameForm
    <3> QED BY <1>2, <1>3, <3>1, <3>2 DEF SaveAgrees, FitsIn, Fits
  <2>7. SavesAgree'
    BY <2>1, <2>6 DEF SavesAgree
  <2> QED BY <2>3, <2>4, <2>5, <2>7 DEF PlanAgrees
<1> QED BY <1>6, <1>7, <1>8, <1>9 DEF PlanInv

LEMMA NotSavedKeeps ==
  ASSUME PlanInv, NEW s \in templateSaves, Plan!NotSaved(s)
  PROVE  PlanInv'
<1>1. /\ templateSaves' = templateSaves \ {s}
      /\ templateSaveError' = (templateSaveError \/ templateAt # TemplateList)
      /\ UNCHANGED <<storedTemplate, templateAt, aglsLoaded, template, edit, userTouchedLha,
                     seededTemplate, autosave, templateReads, templateLoading, templateError,
                     asking, crossed, clobbered, templateEdits>>
  BY DEF Plan!NotSaved
<1>2. PlanTyped'
  BY <1>1 DEF PlanInv, PlanTyped
<1>3. RowsSound' /\ NoUnitsYet'
  BY <1>1 DEF PlanInv, RowsSound, NoUnitsYet, Plan!Compatible
<1>4. ASSUME ~crossed
      PROVE  PlanAgrees'
  <2>1. Arrived' /\ RowsFit'
    BY <1>1, <1>4 DEF PlanInv, PlanAgrees, Arrived, RowsFit, Fits
  <2>2. (OnPlan => OnPlanAgrees)'
    BY <1>1, <1>4 DEF PlanInv, PlanAgrees, OnPlan, OnPlanAgrees, FitsIn, Fits, Quiet
  <2>3. SavesAgree'
    BY <1>1, <1>4 DEF PlanInv, PlanAgrees, SavesAgree, SaveAgrees, SameForm, FitsIn, Fits
  <2> QED BY <2>1, <2>2, <2>3 DEF PlanAgrees
<1> QED BY <1>1, <1>2, <1>3, <1>4 DEF PlanInv


LEMMA SavedKeeps ==
  ASSUME PlanInv, NEW s \in templateSaves, Plan!Saved(s)
  PROVE  PlanInv'
<1>1. PICK old, row : old = storedTemplate[s.id] /\ row = Plan!Updated(old, s)
  OBVIOUS
<1>2. /\ old # Plan!Absent /\ Plan!Compatible(row)
      /\ storedTemplate' = [storedTemplate EXCEPT ![s.id] = row]
      /\ templateSaves' = templateSaves \ {s}
      /\ UNCHANGED <<templateAt, aglsLoaded, userTouchedLha, seededTemplate, autosave,
                     templateReads, templateLoading, templateError, asking, clobbered,
                     templateEdits>>
  BY <1>1 DEF Plan!Saved
<1>3. s \in Saves /\ s.id \in Plan!AllTemplates /\ s.sent \in Plan!Row
  BY DEF PlanInv, PlanTyped, Saves
<1>4. old \in Plan!Row
  BY <1>1, <1>2, <1>3 DEF PlanInv, PlanTyped
<1>5. /\ row \in Plan!Row /\ row.name = IF s.named THEN s.sent.name ELSE old.name
      /\ row.agl = IF s.sent.agl = NoAgl THEN old.agl ELSE s.sent.agl
      /\ row.method = s.sent.method /\ row.conf = s.sent.conf /\ row.lhas = s.sent.lhas
  BY <1>1, <1>3, <1>4, UpdatedFacts
<1>6. /\ storedTemplate' \in [Plan!AllTemplates -> Plan!Row \cup {Plan!Absent}]
      /\ storedTemplate'[s.id] = row
      /\ \A t \in Plan!AllTemplates : t # s.id => storedTemplate'[t] = storedTemplate[t]
  BY <1>2, <1>3, <1>5 DEF PlanInv, PlanTyped
<1>7. ~aglsLoaded => /\ \A t \in Plan!AllTemplates : storedTemplate'[t].lhas = {}
                     /\ row.lhas = {} /\ ~userTouchedLha
                     /\ \A o \in templateSaves' : o.sent.lhas = {}
  BY <1>2, <1>3, <1>5, <1>6 DEF PlanInv, NoUnitsYet
<1>8. /\ \A t \in Plan!AllTemplates : Plan!Compatible(storedTemplate[t])'
      /\ asking'.what = "copy" => storedTemplate'[NewTemplate] = Plan!Absent
      /\ (templateAt' # TemplateList \/ asking'.what = "copy")
         /\ storedTemplate'[NewTemplate] = Plan!Absent => seededTemplate' # NewTemplate
  <2>1. \A t \in Plan!AllTemplates : Plan!Compatible(storedTemplate[t])'
    BY <1>2, <1>6 DEF PlanInv, RowsSound, Plan!Compatible
  <2>2. s.id = NewTemplate => storedTemplate'[NewTemplate] # Plan!Absent /\ asking.what # "copy"
    BY <1>1, <1>2, <1>5, <1>6, BlankFacts DEF PlanInv, RowsSound
  <2>3. s.id # NewTemplate => storedTemplate'[NewTemplate] = storedTemplate[NewTemplate]
    BY <1>6, TemplateFacts
  <2> QED BY <1>2, <2>1, <2>2, <2>3 DEF PlanInv, RowsSound
<1>9. ASSUME PlanAgrees
      PROVE  RowsFit' /\ Fits(row) /\ templateSaves' = {}
  <2>1. FitsIn(s.sent, old)
    BY <1>1, <1>9 DEF PlanAgrees, SavesAgree, SaveAgrees
  <2>2. Fits(row)
    BY <1>5, <2>1 DEF FitsIn, Fits
  <2>3. RowsFit'
    BY <1>2, <1>6, <1>9, <2>2 DEF PlanAgrees, RowsFit, Fits
  <2>4. templateSaves' = {}
    BY <1>2, <1>9 DEF PlanAgrees, SavesAgree
  <2> QED BY <2>2, <2>3, <2>4
<1>10. CASE templateAt = TemplateList
  <2>1. UNCHANGED <<template, edit, templateSaveError, crossed>>
    BY <1>10 DEF Plan!Saved
  <2>2. PlanTyped'
    BY <1>2, <1>6, <2>1 DEF PlanInv, PlanTyped
  <2>3. RowsSound'
    BY <1>2, <1>8, <2>1 DEF PlanInv, RowsSound, Plan!Compatible
  <2>4. NoUnitsYet'
    BY <1>2, <1>7, <2>1 DEF PlanInv, NoUnitsYet
  <2>5. PlanAgrees => PlanAgrees'
    BY <1>2, <1>9, <1>10 DEF PlanAgrees, Arrived, OnPlan, SavesAgree
  <2> QED BY <2>1, <2>2, <2>3, <2>4, <2>5 DEF PlanInv
<1>11. CASE templateAt # TemplateList
  <2>1. PICK lhas : lhas = Plan!Reseed(row, aglsLoaded, userTouchedLha, edit.row.lhas)
    OBVIOUS
  <2>2. /\ template' = [id |-> s.id, row |-> row] /\ edit' = [edit EXCEPT !.row.lhas = lhas]
        /\ templateSaveError' = FALSE /\ crossed' = (crossed \/ s.id # templateAt \/ autosave)
    BY <1>1, <1>11, <2>1 DEF Plan!Saved
  <2>3. template'.id = s.id /\ template'.row = row
    BY <2>2
  <2>4. /\ edit \in [of : TemplateIds, row : Plan!Row] /\ edit.row \in Plan!Row
        /\ aglsLoaded \in BOOLEAN /\ userTouchedLha \in BOOLEAN /\ edit.of # NoTemplate
    BY DEF PlanInv, PlanTyped
  <2>5. lhas \in SUBSET Plan!AllUnits /\ edit.row.lhas \in SUBSET Plan!AllUnits
    BY <1>5, <2>1, <2>4, SeedFacts, RowFacts
  <2>6. /\ edit' \in [of : TemplateIds, row : Plan!Row] /\ edit'.of = edit.of
        /\ edit'.row.name = edit.row.name /\ edit'.row.method = edit.row.method
        /\ edit'.row.agl = edit.row.agl /\ edit'.row.conf = edit.row.conf
        /\ edit'.row.lhas = lhas
    BY <2>2, <2>4, <2>5, FormSeeded
  <2>7. PlanTyped'
    <3>1. template' \in [id : TemplateIds, row : Plan!Row] /\ s.id # NoTemplate
      BY <1>3, <1>5, <2>2, TemplateFacts
    <3>2. crossed' \in BOOLEAN
      BY <2>2 DEF PlanInv, PlanTyped
    <3>3. template'.id # NoTemplate /\ edit'.of # NoTemplate
      BY <2>3, <2>4, <2>6, <3>1
    <3>4. templateSaves' \subseteq Saves /\ templateSaveError' \in BOOLEAN
      BY <1>2, <2>2 DEF PlanInv, PlanTyped
    <3> QED BY <1>2, <1>6, <2>6, <3>1, <3>2, <3>3, <3>4 DEF PlanInv, PlanTyped
  <2>8. RowsSound'
    <3>1. Plan!Compatible(template.row)'
      BY <1>2, <2>3 DEF Plan!Compatible
    <3>2. Plan!Compatible(asking.row)'
      BY <1>2 DEF PlanInv, RowsSound, Plan!Compatible
    <3> QED BY <1>8, <3>1, <3>2 DEF RowsSound
  <2>9. NoUnitsYet'
    <3>1. ~aglsLoaded => lhas = {}
      BY <2>1 DEF Plan!Reseed, PlanInv, NoUnitsYet
    <3> QED BY <1>2, <1>7, <2>3, <2>6, <3>1 DEF PlanInv, NoUnitsYet
  <2>10. ASSUME ~crossed'
         PROVE  PlanAgrees'
    <3>1. s.id = templateAt /\ ~autosave /\ PlanAgrees
      BY <2>2, <2>10 DEF PlanInv
    <3>2. OnPlan /\ OnPlanAgrees
      BY <1>11, <3>1 DEF PlanAgrees, Arrived, OnPlan
    <3>3. template.row = old
      BY <1>1, <3>1, <3>2 DEF OnPlanAgrees
    <3>4. SameForm(s) /\ (s.named \/ s.sent.name = old.name)
      BY <1>11, <3>1, <3>3 DEF PlanAgrees, SavesAgree, SaveAgrees
    <3>5. RowsFit' /\ Fits(row) /\ templateSaves' = {}
      BY <1>9, <3>1
    <3>6. /\ row.name = edit.row.name /\ row.conf = edit.row.conf /\ row.method = edit.row.method
          /\ row.agl = IF edit.row.agl = NoAgl THEN old.agl ELSE edit.row.agl
      BY <1>5, <3>4 DEF SameForm
    <3>7. ASSUME userTouchedLha \/ ~aglsLoaded \/ row.agl = NoAgl
          PROVE  FitsIn(edit.row, template.row)' /\ (lhas = row.lhas \/ row.lhas = {})
      <4>1. lhas = edit.row.lhas
        BY <2>1, <3>7 DEF Plan!Reseed
      <4>2. lhas = row.lhas
        BY <1>5, <3>4, <3>6, <3>7, <4>1 DEF SameForm
      <4>3. FitsIn(edit.row, row)
        BY <3>2, <3>3, <3>6 DEF OnPlanAgrees, FitsIn
      <4>4. FitsIn(edit.row, template.row)'
        BY <2>3, <2>6, <4>1, <4>3 DEF FitsIn, Fits
      <4> QED BY <4>2, <4>4
    <3>8. ASSUME ~userTouchedLha, aglsLoaded, row.agl # NoAgl
          PROVE  FitsIn(edit.row, template.row)' /\ (lhas = row.lhas \/ row.lhas = {})
      <4>1. lhas = Plan!Seed(row, TRUE, edit.row.lhas)
        BY <2>1, <2>4, <3>8 DEF Plan!Reseed
      <4>2. lhas \subseteq unitsOf[row.agl]
        BY <1>2, <1>5, <2>5, <3>5, <3>8, <4>1, SeedFits
      <4>3. lhas = row.lhas \/ row.lhas = {}
        BY <1>2, <1>5, <2>5, <3>5, <3>8, <4>1, SeedFits
      <4>4. FitsIn(edit.row, template.row)'
        BY <2>3, <2>6, <3>6, <4>2 DEF FitsIn, Fits
      <4> QED BY <4>3, <4>4
    <3>9. FitsIn(edit.row, template.row)' /\ (lhas = row.lhas \/ row.lhas = {})
      BY <3>7, <3>8
    <3>10. Settles(edit.row, template.row)'
      BY <2>3, <2>6, <3>6, <3>9 DEF Settles
    <3>11. ~aglsLoaded => edit.row.agl = row.agl
      BY <3>2, <3>3, <3>6 DEF OnPlanAgrees
    <3>12. OnPlanAgrees'
      <4>1. edit'.of = templateAt'
        BY <1>2, <2>6, <3>2 DEF OnPlanAgrees
      <4> QED BY <1>2, <1>6, <2>3, <2>6, <3>1, <3>9, <3>10, <3>11, <4>1 DEF OnPlanAgrees
    <3>13. Arrived'
      BY <1>2, <3>2 DEF Arrived, OnPlan
    <3>14. SavesAgree'
      BY <3>5 DEF SavesAgree
    <3> QED BY <3>5, <3>12, <3>13, <3>14 DEF PlanAgrees
  <2> QED BY <2>7, <2>8, <2>9, <2>10 DEF PlanInv
<1> QED BY <1>10, <1>11

\* The page goes to another template, or to the list.
LEMMA OpenKeeps ==
  ASSUME PlanInv, NEW t \in Plan!AllTemplates \cup {TemplateList}, Plan!Open(t),
         UNCHANGED <<aglsLoaded, template, edit, userTouchedLha, seededTemplate, templateSaves,
                     templateSaveError, clobbered>>,
         storedTemplate' \in [Plan!AllTemplates -> Plan!Row \cup {Plan!Absent}],
         asking' \in Asked, templateEdits' \in 0..MaxTemplateEdits, RowsSound',
         ~aglsLoaded => /\ \A o \in Plan!AllTemplates : storedTemplate'[o].lhas = {}
                        /\ asking'.row.lhas = {},
         ~crossed => RowsFit',
         ~crossed /\ t # TemplateList => seededTemplate # t,
         ~crossed /\ t = TemplateList =>
           \A s \in templateSaves : FitsIn(s.sent, storedTemplate'[s.id])
  PROVE  PlanInv'
<1>1. templateAt' = t
  BY DEF Plan!Open
<1>2. CASE t = TemplateList
  <2>1. autosave' = FALSE /\ UNCHANGED <<templateReads, templateLoading, templateError, crossed>>
    BY <1>2 DEF Plan!Open
  <2>2. PlanTyped'
    BY <1>1, <2>1 DEF PlanInv, PlanTyped
  <2>3. NoUnitsYet'
    BY <2>1 DEF PlanInv, NoUnitsYet
  <2>4. ASSUME ~crossed
        PROVE  PlanAgrees'
    <3>1. Arrived' /\ ~OnPlan'
      BY <1>1, <1>2 DEF Arrived, OnPlan
    <3>2. SavesAgree'
      <4>1. ASSUME NEW s \in templateSaves
            PROVE  SaveAgrees(s)'
        <5>1. s.of = s.id
          BY <2>4 DEF PlanInv, PlanAgrees, SavesAgree, SaveAgrees
        <5>2. FitsIn(s.sent, storedTemplate[s.id])'
          BY <1>2, <2>4 DEF FitsIn, Fits
        <5> QED BY <1>1, <1>2, <5>1, <5>2 DEF SaveAgrees
      <4> QED BY <2>4, <4>1 DEF PlanInv, PlanAgrees, SavesAgree
    <3> QED BY <2>4, <3>1, <3>2 DEF PlanAgrees
  <2> QED BY <2>1, <2>2, <2>3, <2>4 DEF PlanInv
<1>3. CASE t # TemplateList
  <2>1. /\ templateReads' = templateReads \cup {<<t, aglsLoaded>>}
        /\ templateLoading' = TRUE /\ templateError' = FALSE
        /\ crossed' = (crossed \/ autosave \/ templateSaves # {}) /\ UNCHANGED autosave
    BY <1>3 DEF Plan!Open, Plan!fetchData
  <2>2. PlanTyped'
    <3>1. <<t, aglsLoaded>> \in Plan!AllTemplates \X BOOLEAN
      BY <1>3 DEF PlanInv, PlanTyped
    <3>2. templateReads' \subseteq Plan!AllTemplates \X BOOLEAN
      BY <2>1, <3>1 DEF PlanInv, PlanTyped
    <3>3. crossed' \in BOOLEAN
      BY <2>1 DEF PlanInv, PlanTyped
    <3> QED BY <1>1, <1>3, <2>1, <3>2, <3>3 DEF PlanInv, PlanTyped
  <2>3. NoUnitsYet'
    BY <2>1 DEF PlanInv, NoUnitsYet
  <2>4. ASSUME ~crossed'
        PROVE  PlanAgrees'
    <3>1. ~crossed /\ ~autosave /\ templateSaves = {}
      BY <2>1, <2>4
    <3>2. Arrived' /\ ~OnPlan'
      BY <1>1, <1>3, <2>1, <3>1 DEF Arrived, OnPlan
    <3>3. SavesAgree'
      BY <3>1 DEF SavesAgree
    <3> QED BY <3>1, <3>2, <3>3 DEF PlanAgrees
  <2> QED BY <2>2, <2>3, <2>4 DEF PlanInv
<1> QED BY <1>2, <1>3


LEMMA SelectPlanKeeps ==
  ASSUME PlanInv, NEW t \in Plan!AllTemplates \cup {TemplateList},
         Plan!Editable, Plan!Act, Plan!Open(t), t # templateAt,
         UNCHANGED <<storedTemplate, aglsLoaded, template, edit, userTouchedLha, seededTemplate,
                     templateSaves, templateSaveError, asking, clobbered>>
  PROVE  PlanInv'
<1>1. /\ templateAt # TemplateList /\ (~crossed => OnPlan /\ OnPlanAgrees /\ PlanAgrees)
  BY PlanShown
<1>2. templateAt' = t
  BY DEF Plan!Open
<1>3. templateEdits' \in 0..MaxTemplateEdits
  BY TemplateFacts DEF PlanInv, PlanTyped, Plan!Act
<1>4. /\ storedTemplate' \in [Plan!AllTemplates -> Plan!Row \cup {Plan!Absent}]
      /\ asking' \in Asked
  BY DEF PlanInv, PlanTyped
<1>5. RowsSound'
  BY <1>1 DEF PlanInv, RowsSound, Plan!Compatible
<1>6. ~aglsLoaded => /\ \A o \in Plan!AllTemplates : storedTemplate'[o].lhas = {}
                     /\ asking'.row.lhas = {}
  BY DEF PlanInv, NoUnitsYet
<1>7. ~crossed => RowsFit'
  BY <1>1 DEF PlanAgrees, RowsFit, Fits
<1>8. ~crossed /\ t # TemplateList => seededTemplate # t
  BY <1>1 DEF OnPlan
<1>9. ~crossed /\ t = TemplateList =>
        \A s \in templateSaves : FitsIn(s.sent, storedTemplate'[s.id])
  BY <1>1 DEF PlanAgrees, SavesAgree, SaveAgrees
<1> QED BY <1>3, <1>4, <1>5, <1>6, <1>7, <1>8, <1>9, OpenKeeps

LEMMA LeaveKeeps ==
  ASSUME PlanInv, Plan!Close \/ \E t \in Plan!AllTemplates : Plan!SelectTemplate(t)
  PROVE  PlanInv'
<1>1. CASE Plan!Close
  <2>1. templateAt # TemplateList
    BY <1>1 DEF Plan!Close, Plan!Editable
  <2> QED BY <1>1, <2>1, SelectPlanKeeps DEF Plan!Close
<1>2. ASSUME NEW t \in Plan!AllTemplates, Plan!SelectTemplate(t)
      PROVE  PlanInv'
  BY <1>2, SelectPlanKeeps DEF Plan!SelectTemplate
<1> QED BY <1>1, <1>2

LEMMA AnsweredKeeps == ASSUME PlanInv, Plan!Answered PROVE PlanInv'
<1>1. /\ asking.what # "nothing" /\ asking' = [asking EXCEPT !.what = "nothing"]
      /\ UNCHANGED <<aglsLoaded, template, edit, userTouchedLha, seededTemplate, templateSaves,
                     templateSaveError, clobbered, templateEdits>>
  BY DEF Plan!Answered
<1>2. asking \in Asked
  BY DEF PlanInv, PlanTyped
<1>3. /\ asking' \in Asked /\ asking'.row = asking.row /\ asking'.what = "nothing"
      /\ asking.row \in Plan!Row /\ asking.id \in Plan!AllTemplates
  BY <1>1, <1>2 DEF Asked
<1>4. templateEdits' \in 0..MaxTemplateEdits
  BY <1>1 DEF PlanInv, PlanTyped
<1>5. /\ storedTemplate \in [Plan!AllTemplates -> Plan!Row \cup {Plan!Absent}]
      /\ \A o \in Plan!AllTemplates : Plan!Compatible(storedTemplate[o])
  BY DEF PlanInv, PlanTyped, RowsSound
<1>6. Plan!Compatible(template.row)' /\ Plan!Compatible(asking.row)'
  BY <1>1, <1>3 DEF PlanInv, RowsSound, Plan!Compatible
<1>7. CASE asking.what = "copy"
  <2>1. storedTemplate' = [storedTemplate EXCEPT ![NewTemplate] = asking.row]
          /\ Plan!Open(NewTemplate)
    BY <1>7 DEF Plan!Answered
  <2>2. /\ storedTemplate' \in [Plan!AllTemplates -> Plan!Row \cup {Plan!Absent}]
        /\ storedTemplate'[NewTemplate] = asking.row
        /\ \A o \in Plan!AllTemplates : o # NewTemplate => storedTemplate'[o] = storedTemplate[o]
    BY <1>3, <1>5, <2>1, TemplateFacts
  <2>3. \A o \in Plan!AllTemplates : Plan!Compatible(storedTemplate[o])'
    BY <1>1, <1>3, <1>5, <1>6, <2>2 DEF Plan!Compatible
  <2>4. seededTemplate # NewTemplate
    BY <1>7 DEF PlanInv, RowsSound
  <2>5. RowsSound'
    BY <1>1, <1>3, <1>6, <2>3, <2>4 DEF RowsSound
  <2>6. ~aglsLoaded => /\ \A o \in Plan!AllTemplates : storedTemplate'[o].lhas = {}
                       /\ asking'.row.lhas = {}
    BY <1>3, <2>2 DEF PlanInv, NoUnitsYet
  <2>7. ~crossed => RowsFit'
    BY <1>3, <2>2 DEF PlanInv, PlanAgrees, RowsFit, Fits
  <2>8. NewTemplate \in Plan!AllTemplates \cup {TemplateList} /\ NewTemplate # TemplateList
    BY TemplateFacts
  <2> QED BY <1>1, <1>3, <1>4, <2>1, <2>2, <2>4, <2>5, <2>6, <2>7, <2>8, OpenKeeps
<1>8. CASE asking.what # "copy"
  <2>1. /\ storedTemplate' = [storedTemplate EXCEPT ![asking.id] = Plan!Absent]
        /\ Plan!Open(TemplateList)
    BY <1>8 DEF Plan!Answered
  <2>2. /\ storedTemplate' \in [Plan!AllTemplates -> Plan!Row \cup {Plan!Absent}]
        /\ \A o \in Plan!AllTemplates : storedTemplate'[o] \in {storedTemplate[o], Plan!Absent}
    BY <1>3, <1>5, <2>1
  <2>3. \A o \in Plan!AllTemplates : Plan!Compatible(storedTemplate[o])'
    BY <1>1, <1>5, <2>2, BlankFacts DEF Plan!Compatible
  <2>4. templateAt' = TemplateList
    BY <2>1 DEF Plan!Open
  <2>5. RowsSound'
    BY <1>3, <1>6, <2>3, <2>4 DEF RowsSound
  <2>6. ~aglsLoaded => /\ \A o \in Plan!AllTemplates : storedTemplate'[o].lhas = {}
                       /\ asking'.row.lhas = {}
    BY <1>3, <2>2, BlankFacts DEF PlanInv, NoUnitsYet
  <2>7. ~crossed => RowsFit'
    BY <1>3, <2>2, BlankFacts DEF PlanInv, PlanAgrees, RowsFit, Fits
  <2>8. ~crossed => \A s \in templateSaves : FitsIn(s.sent, storedTemplate'[s.id])
    <3>1. ASSUME ~crossed, NEW s \in templateSaves
          PROVE  FitsIn(s.sent, storedTemplate'[s.id])
      <4>1. FitsIn(s.sent, storedTemplate[s.id]) /\ s.id \in Plan!AllTemplates
        BY <3>1 DEF PlanInv, PlanTyped, Saves, PlanAgrees, SavesAgree, SaveAgrees
      <4> QED BY <2>2, <4>1, BlankFacts DEF FitsIn
    <3> QED BY <3>1
  <2> QED BY <1>1, <1>3, <1>4, <2>1, <2>2, <2>5, <2>6, <2>7, <2>8, OpenKeeps
<1> QED BY <1>7, <1>8

LEMMA PlanStep == ASSUME PlanInv, Plan!Next PROVE PlanInv'
<1>1. CASE Plan!Coordinator
  BY <1>1, FormKeeps, PickerKeeps, LeaveKeeps, RetryKeeps, AskKeeps DEF Plan!Coordinator
<1>2. CASE Plan!Answers
  BY <1>2, AirportKeeps, TemplateReadKeeps, UnreadKeeps, SaveKeeps, SavedKeeps, NotSavedKeeps,
     AnsweredKeeps, AskKeeps DEF Plan!Answers
<1> QED BY <1>1, <1>2 DEF Plan!Next

LEMMA PlanHolds == Spec => [](page = "plan" => PlanInv)
<1>1. Init => (page = "plan" => PlanInv)
  BY PlanStarts DEF Init
<1>2. (page = "plan" => PlanInv)
      /\ [Next]_<<page, infraVars, creationVars, profileVars, planVars, tableVars>>
        => (page = "plan" => PlanInv)'
  <2> SUFFICES ASSUME page = "plan" => PlanInv,
                      [Next]_<<page, infraVars, creationVars, profileVars, planVars, tableVars>>,
                      page' = "plan"
               PROVE  PlanInv'
    OBVIOUS
  <2>1. page = "plan" /\ (Plan!Next \/ UNCHANGED planVars)
    BY DEF Next
  <2> QED BY <2>1, PlanStep, PlanRests
<1> QED BY <1>1, <1>2, PTL DEF Spec

\* A template is saved with what was entered on its page, the units selected are of its system,
\* and when nothing is under way the form is what the server has.
LEMMA PlanReaches ==
  PlanInv => /\ Plan!TypeOK /\ Plan!SavedToItself /\ Plan!UnitsOfAgl /\ Plan!SettledIsStored
<1> SUFFICES ASSUME PlanInv
             PROVE  /\ Plan!TypeOK /\ Plan!SavedToItself /\ Plan!UnitsOfAgl
                    /\ Plan!SettledIsStored
  OBVIOUS
<1>1. Plan!TypeOK
  <2>1. \A t \in Plan!AllTemplates : storedTemplate[t] \in Plan!Row \cup {Plan!Absent}
    BY DEF PlanInv, PlanTyped
  <2>2. \A s \in templateSaves : /\ s.id \in Plan!AllTemplates /\ s.of \in Plan!AllTemplates
                                 /\ s.sent \in Plan!Row /\ s.named \in BOOLEAN
    BY DEF PlanInv, PlanTyped, Saves
  <2>3. /\ template.id \in TemplateIds /\ template.row \in Plan!Row
        /\ edit.of \in TemplateIds /\ edit.row \in Plan!Row
        /\ asking.what \in {"nothing", "delete", "copy"} /\ asking.row \in Plan!Row
    BY DEF PlanInv, PlanTyped, Asked
  <2> QED BY <2>1, <2>2, <2>3 DEF PlanInv, PlanTyped, Plan!TypeOK, TemplateIds
<1>2. Plan!SavedToItself
  BY DEF PlanInv, PlanAgrees, SavesAgree, SaveAgrees, Plan!SavedToItself
<1>3. Plan!UnitsOfAgl
  BY PlanShown DEF OnPlanAgrees, FitsIn, Fits, Plan!UnitsOfAgl
<1>4. Plan!SettledIsStored
  <2> SUFFICES ASSUME Plan!Editable, ~crossed, Quiet
               PROVE  Settles(edit.row, storedTemplate[templateAt])
    BY DEF Plan!SettledIsStored, Quiet, Settles
  <2> QED BY PlanShown DEF OnPlanAgrees
<1> QED BY <1>1, <1>2, <1>3, <1>4

\* Saves are sent and answered without touching a selection made by hand.
LEMMA SelectionStep == ASSUME PlanInv, Plan!Next PROVE Plan!SelectionKept
<1> SUFFICES ASSUME userTouchedLha, templateSaves' # templateSaves
             PROVE  edit'.row.lhas = edit.row.lhas
  BY DEF Plan!SelectionKept
<1>1. ASSUME NEW s \in templateSaves, Plan!Saved(s)
      PROVE  edit'.row.lhas = edit.row.lhas
  <2>1. CASE templateAt = TemplateList
    BY <1>1, <2>1 DEF Plan!Saved
  <2>2. CASE templateAt # TemplateList
    <3>1. edit' = [edit EXCEPT !.row.lhas = edit.row.lhas]
      BY <1>1, <2>2 DEF Plan!Saved, Plan!Reseed
    <3>2. edit \in [of : TemplateIds, row : Plan!Row] /\ edit.row.lhas \in SUBSET Plan!AllUnits
      BY RowFacts DEF PlanInv, PlanTyped
    <3> QED BY <3>1, <3>2, FormSeeded
  <2> QED BY <2>1, <2>2
<1>2. CASE UNCHANGED edit
  BY <1>2
<1>3. Plan!Next => \/ UNCHANGED edit \/ UNCHANGED templateSaves
                   \/ \E s \in templateSaves : Plan!Saved(s)
  BY DEF Plan!Next, Plan!Coordinator, Plan!Answers, Plan!Picker, Plan!handleNameChange,
         Plan!handleConfigChange, Plan!handleMethodChange, Plan!handleAglChange,
         Plan!handleToggleLha, Plan!Edited, Plan!SelectTemplate, Plan!Close, Plan!Retry,
         Plan!handleDelete, Plan!handleDuplicate, Plan!Ask, Plan!AirportLoaded,
         Plan!TemplateRead, Plan!TemplateUnread, Plan!AutosaveFires, Plan!NotSaved,
         Plan!Answered, Plan!Refused
<1> QED BY <1>1, <1>2, <1>3


-----------------------------------------------------------------------------
(* Theorems about the forms *)

\* The queue of photos advances with the form, an edit is taken along to another profile, and a
\* selection made by hand outlives the answer of its save.
THEOREM NothingIsDropped == Spec => NothingDropped
<1> DEFINE Pages_vars == <<page, infraVars, creationVars, profileVars, planVars, tableVars>>
<1>1. CreationInv /\ [Next]_Pages_vars => [Creation!QueueMoves]_(Creation!creationVars)
  <2> SUFFICES ASSUME CreationInv, [Next]_Pages_vars
               PROVE  Creation!QueueMoves \/ UNCHANGED Creation!creationVars
    OBVIOUS
  <2>1. Creation!Next \/ UNCHANGED creationVars
    BY DEF Next
  <2>2. UNCHANGED creationVars => UNCHANGED Creation!creationVars
    BY DEF creationVars, Creation!creationVars
  <2> QED BY <2>1, <2>2, QueueStep
<1>2. [Next]_Pages_vars => [Profile!EditTaken]_(Profile!droneVars)
  <2> SUFFICES ASSUME [Next]_Pages_vars
               PROVE  Profile!EditTaken \/ UNCHANGED Profile!droneVars
    OBVIOUS
  <2>1. Profile!Next \/ UNCHANGED profileVars
    BY DEF Next
  <2>2. UNCHANGED profileVars => UNCHANGED Profile!droneVars
    BY DEF profileVars, Profile!droneVars
  <2> QED BY <2>1, <2>2, EditTakenStep
<1>3. (page = "plan" => PlanInv) /\ [Next]_Pages_vars => [Plan!SelectionKept]_(Plan!templateVars)
  <2> SUFFICES ASSUME page = "plan" => PlanInv, [Next]_Pages_vars
               PROVE  Plan!SelectionKept \/ UNCHANGED Plan!templateVars
    OBVIOUS
  <2>1. (page = "plan" /\ Plan!Next) \/ UNCHANGED planVars
    BY DEF Next
  <2>2. UNCHANGED planVars => UNCHANGED Plan!templateVars
    BY DEF planVars, Plan!templateVars
  <2> QED BY <2>1, <2>2, SelectionStep
<1> HIDE DEF Pages_vars
<1>4. Spec => [][Next]_Pages_vars
  BY DEF Spec, Pages_vars
<1> QED BY <1>1, <1>2, <1>3, <1>4, CreationHolds, PlanHolds, PTL
        DEF NothingDropped, Creation!QueueAdvances, Profile!EditsTaken, Plan!SelectionsKept

\* A form that saves itself saves to what it was read from, fits its system, and in the end shows
\* what the server has; a list shows the server's rows, on a page there is.
THEOREM FormsComeThrough == Spec => []FormsReach
<1>1. /\ page = "profile" => ProfileInv
      /\ page = "plan" => PlanInv
      /\ page = "table" => TableInv
      => FormsReach
  BY ProfileReaches, PlanReaches, TableReaches DEF FormsReach
<1> QED BY <1>1, ProfileHolds, PlanHolds, TableHolds, PTL

-----------------------------------------------------------------------------
(* Every page stays typed *)

LEMMA CreationReaches == ASSUME CreationInv PROVE Creation!TypeOK
<1> USE PhotoFacts DEF CreationInv
<1>1. /\ drawTool \in Creation!DrawTools /\ sketch \in Spots \cup {NoPlace}
      /\ handoff.queue \in Seq(Creation!Shots) /\ handoff.lens \in Creation!Shots \cup {NoPlace}
      /\ handoff.hint \in Creation!Types
  BY DEF HandInv, Handoffs, Shots
<1>2. /\ pending \in [geom : {"none", "polygon", "circle"}, center : Creation!Places \cup {NoPlace},
                      point : Creation!Places \cup {NoPlace}]
      /\ entry \in [on : BOOLEAN, type : Creation!Types, at : Creation!Places \cup {NoPlace},
                    alt : {"none", "typed"} \cup Creation!Places, typed : BOOLEAN, sent : BOOLEAN,
                    bare : Creation!Places \cup {NoPlace}]
      /\ entry.on = Creation!Shown(pending) /\ lookup \in Creation!Places \cup {NoPlace}
  BY DEF FormInv, Drawings, Forms, Place
<1>3. /\ Creation!Cardinality(creating) <= MaxCreating
      /\ \A c \in creating : c.shot \in Creation!Shots \cup {NoPlace}
           /\ c.rest \in Seq(Creation!Shots)
  BY CreatingCounted DEF WorkInv, Creations, Shots
<1>4. made \in [Creation!Shots -> 0..MaxMade] /\ asked \in 0..MaxMade /\ typings \in 0..MaxMade
  <2>1. asked \in Nat /\ typings \in Nat /\ asked + typings <= MaxMade /\ MaxMade \in Nat
    BY DEF WorkInv
  <2>2. PICK k : k = Cardinality(Underway(creating))
    OBVIOUS
  <2>3. k \in Nat
    <3>1. Underway(creating) \in SUBSET creating
      BY DEF Underway
    <3>2. IsFiniteSet(creating)
      BY DEF WorkInv
    <3> QED BY <3>1, <3>2, <2>2, FS_Subset, FS_CardinalityType
  <2>4. made \in [Shots -> Nat] /\ \A p \in Shots : made[p] + k <= asked
    BY <2>2 DEF WorkInv
  <2>5. \A p \in Shots : made[p] \in 0..MaxMade
    BY ONLY <2>1, <2>3, <2>4
  <2> QED BY <2>1, <2>4, <2>5 DEF Shots
<1>5. /\ forked \in BOOLEAN
      /\ extractor \in [open : BOOLEAN, items : PhotoSets \cup {<<>>}]
      /\ extracting \subseteq PhotoSets /\ extracted \subseteq PhotoSets
  BY DEF WorkInv, PhotosInv
<1> QED BY <1>1, <1>2, <1>3, <1>4, <1>5 DEF Creation!TypeOK

\* Every variable of the page that is explored stays in its range.
THEOREM CoordinatorTyped == Spec => []TypeOK
<1>1. page \in Pages /\ CreationInv
      /\ (page = "infra" => InfraInv) /\ (page = "profile" => ProfileInv)
      /\ (page = "plan" => PlanInv) /\ (page = "table" => TableInv)
      => TypeOK
  <2> SUFFICES ASSUME page \in Pages, CreationInv, page = "infra" => InfraInv,
                      page = "profile" => ProfileInv, page = "plan" => PlanInv,
                      page = "table" => TableInv
               PROVE  TypeOK
    OBVIOUS
  <2>1. CASE page = "infra"
    BY <2>1, InfraReaches DEF TypeOK
  <2>2. CASE page = "creation"
    BY <2>2, CreationReaches DEF TypeOK
  <2>3. CASE page = "profile"
    BY <2>3, ProfileReaches DEF TypeOK
  <2>4. CASE page = "plan"
    BY <2>4, PlanReaches DEF TypeOK
  <2>5. CASE page = "table"
    BY <2>5, TableReaches DEF TypeOK
  <2> QED BY <2>1, <2>2, <2>3, <2>4, <2>5 DEF Pages
<1>2. Init => page \in Pages
  BY DEF Init
<1>3. page \in Pages /\ [Next]_<<page, infraVars, creationVars, profileVars, planVars, tableVars>>
        => (page \in Pages)'
  BY DEF Next
<1>4. Spec => [](page \in Pages)
  BY <1>2, <1>3, PTL DEF Spec
<1> QED BY <1>1, <1>4, CreationHolds, InfraHolds, ProfileHolds, PlanHolds, TableHolds, PTL
=============================================================================
