------------------------ MODULE WorkspacePages_proofs ------------------------
(***************************************************************************)
(* Theorems about the pages of the workspace, for every number of          *)
(* missions, airports, files and runs, and every number of requests under  *)
(* way.                                                                     *)
(***************************************************************************)
EXTENDS WorkspacePages, FiniteSetTheorems, SequenceTheorems, TLAPS

-----------------------------------------------------------------------------
(* The tabs around a mission *)

\* What an answer under way is for: the airport that was chosen, the mission in the address.
AnswerFits(r) ==
  /\ r.kind \in {"detail", "list"} => r.of \in Airports
  /\ r.kind = "detail" => r.of = chosen \/ unasked
  /\ r.kind = "guard" => guard = "loading" /\ r.of = route
  /\ r.kind = "page" => guard = "match" /\ r.of = route

TabsInv ==
  /\ Tabs!TypeOK
  /\ Tabs!PageOfAddress /\ Tabs!PlanOfPage /\ Tabs!ChosenStays /\ Tabs!RunningShown
  /\ dismissTimer => running = None
  /\ guard # "idle" => route # None
  /\ guard # "match" => guarded = None /\ renaming = None
  /\ \A r \in requests : AnswerFits(r)

LEMMA TabsStart == ASSUME Tabs!Init PROVE TabsInv
BY DEF Tabs!Init, TabsInv, Tabs!TypeOK, Tabs!PageOfAddress, Tabs!PlanOfPage, Tabs!ChosenStays,
       Tabs!RunningShown

LEMMA AskSays ==
  ASSUME NEW kind \in Tabs!Kinds, NEW x \in Missions \cup Airports \cup {None}
  PROVE  /\ Tabs!Ask(kind, x) \subseteq Tabs!Request
         /\ \A r \in Tabs!Ask(kind, x) : r.kind = kind /\ r.of = x /\ x # None
BY DEF Tabs!Ask, Tabs!Request

LEMMA TabsTypes ==
  ASSUME TabsInv
  PROVE  /\ None \notin Missions /\ None \notin Airports
         /\ requests \subseteq Tabs!Request
         /\ selectedAirport \in Airports \cup {None} /\ route \in Missions \cup {None}
BY WorkspaceAssumption DEF TabsInv, Tabs!TypeOK, Tabs!TabsAssumption

\* Opening an address, or none, closes the page and keeps what is not of a mission.
LEMMA LoadKeeps ==
  ASSUME TabsInv, NEW m \in Missions \cup {None}, Tabs!Load(m),
         selectedAirport' \in Airports \cup {None}, airportDetail' \in Airports \cup {None},
         chosen' \in Airports \cup {None}, unasked' \in BOOLEAN,
         listed' \in Airports \cup {None}, selectedAirport' = chosen' \/ unasked',
         \/ UNCHANGED <<status, running, dismissTimer>>
         \/ status' = "IDLE" /\ running' = None /\ dismissTimer' = FALSE,
         requests' \subseteq Tabs!Request,
         \A r \in requests' : /\ r.kind \in {"detail", "list"} => r.of \in Airports
                              /\ r.kind = "detail" => r.of = chosen' \/ unasked'
                              /\ r.kind = "guard" => r.of = m
                              /\ r.kind # "page"
  PROVE  TabsInv'
<1>1. /\ route' = m /\ guard' = (IF m = None THEN "idle" ELSE "loading")
      /\ guarded' = None /\ planOf' = None /\ renaming' = None /\ foreign' = FALSE
  BY DEF Tabs!Load, Tabs!ClosePage
<1>2. Tabs!TypeOK'
  BY <1>1 DEF TabsInv, Tabs!TypeOK
<1>3. ASSUME NEW r \in requests' PROVE AnswerFits(r)'
  <2>1. r.kind = "guard" => m # None
    BY TabsTypes, <1>3 DEF Tabs!Request
  <2> QED BY <1>1, <1>3, <2>1 DEF AnswerFits
<1>4. Tabs!RunningShown' /\ (dismissTimer' => running' = None)
  BY DEF TabsInv, Tabs!RunningShown
<1> QED BY <1>1, <1>2, <1>3, <1>4
        DEF TabsInv, Tabs!PageOfAddress, Tabs!PlanOfPage, Tabs!ChosenStays

\* Requests that are added are of the list; the others are still awaited.
LEMMA StayKeeps ==
  ASSUME TabsInv,
         UNCHANGED <<selectedAirport, chosen, unasked, route, guard, guarded>>,
         airportDetail' \in Airports \cup {None}, listed' \in Airports \cup {None},
         planOf' \in Missions \cup {None}, renaming' \in {renaming, None, guarded},
         foreign' \in BOOLEAN, planOf' \in {None, route} \/ foreign',
         running' \in Missions \cup {None}, dismissTimer' \in BOOLEAN,
         status' \in {"IDLE", "COMPUTING", "COMPLETED", "FAILED"},
         running' # None => status' = "COMPUTING", dismissTimer' => running' = None,
         requests' \subseteq Tabs!Request,
         \A r \in requests' : \/ r \in requests
                              \/ r.kind = "list" /\ r.of \in Airports
                              \/ r.kind \in {"duplicate", "delete"}
  PROVE  TabsInv'
<1>1. Tabs!TypeOK'
  BY DEF TabsInv, Tabs!TypeOK
<1>2. ASSUME NEW r \in requests' PROVE AnswerFits(r)'
  BY <1>2 DEF TabsInv, AnswerFits
<1>3. Tabs!PageOfAddress'
  BY DEF TabsInv, Tabs!PageOfAddress
<1> QED BY <1>1, <1>2, <1>3
        DEF TabsInv, Tabs!PlanOfPage, Tabs!ChosenStays, Tabs!RunningShown

LEMMA AirportStepsKeep ==
  ASSUME TabsInv,
         \/ \E a \in Airports : Tabs!selectAirport(a)
         \/ Tabs!clearAirport
         \/ \E m \in Missions : Tabs!handleMissionSwitch(m)
         \/ Tabs!handleDeselect
         \/ Tabs!Reload
  PROVE  TabsInv'
<1>0. /\ None \notin Missions /\ None \notin Airports /\ requests \subseteq Tabs!Request
      /\ selectedAirport \in Airports \cup {None} /\ route \in Missions \cup {None}
      /\ \A r \in requests : AnswerFits(r)
      /\ airportDetail \in Airports \cup {None} /\ listed \in Airports \cup {None}
      /\ chosen \in Airports \cup {None} /\ unasked \in BOOLEAN
      /\ selectedAirport = chosen \/ unasked
  BY TabsTypes DEF TabsInv, Tabs!TypeOK, Tabs!ChosenStays
<1>1. ASSUME NEW a \in Airports, Tabs!selectAirport(a) PROVE TabsInv'
  <2> DEFINE m == IF selectedAirport = a THEN route ELSE None
  <2>d. /\ Tabs!Load(m) /\ selectedAirport' = a /\ airportDetail' = None /\ chosen' = a
        /\ unasked' = FALSE
        /\ requests' = Tabs!Awaited({"detail", "guard", "page"}) \cup Tabs!Ask("detail", a)
                         \cup Tabs!Ask("list", a) \cup Tabs!Ask("guard", m)
        /\ UNCHANGED <<listed, status, running, dismissTimer>>
    BY <1>1 DEF Tabs!selectAirport, Tabs!Reselect, Tabs!computation
  <2>1. m \in Missions \cup {None}
    BY <1>0
  <2> HIDE DEF m
  <2>2. requests' \subseteq Tabs!Request
    BY <1>0, <2>d, <2>1, AskSays DEF Tabs!Awaited, Tabs!Kinds
  <2>3. ASSUME NEW r \in requests'
        PROVE  /\ r.kind \in {"detail", "list"} => r.of \in Airports
               /\ r.kind = "detail" => r.of = chosen' \/ unasked'
               /\ r.kind = "guard" => r.of = m
               /\ r.kind # "page"
    <3>1. CASE r \in Tabs!Awaited({"detail", "guard", "page"})
      BY <1>0, <3>1 DEF Tabs!Awaited, AnswerFits
    <3>2. CASE r \in Tabs!Ask("detail", a) \cup Tabs!Ask("list", a) \cup Tabs!Ask("guard", m)
      BY <2>d, <2>1, <3>2, AskSays DEF Tabs!Kinds
    <3> QED BY <2>d, <2>3, <3>1, <3>2
  <2> QED BY <1>0, <2>d, <2>1, <2>2, <2>3, LoadKeeps
<1>2. CASE Tabs!clearAirport
  <2>d. /\ Tabs!Load(None) /\ selectedAirport' = None /\ airportDetail' = None /\ listed' = None
        /\ chosen' = None /\ unasked' = (\E r \in requests : r.kind = "detail")
        /\ requests' = Tabs!Awaited({"guard", "page"})
        /\ UNCHANGED <<status, running, dismissTimer>>
    BY <1>2 DEF Tabs!clearAirport, Tabs!computation
  <2>1. unasked' \in BOOLEAN
    BY <2>d, Zenon
  <2>2. ASSUME NEW r \in requests'
        PROVE  /\ r \in Tabs!Request
               /\ r.kind \in {"detail", "list"} => r.of \in Airports
               /\ r.kind = "detail" => r.of = chosen' \/ unasked'
               /\ r.kind # "guard" /\ r.kind # "page"
    BY <1>0, <2>d, <2>2 DEF Tabs!Awaited, AnswerFits
  <2> QED BY <1>0, <2>d, <2>1, <2>2, LoadKeeps
<1>3. ASSUME NEW m \in Missions, Tabs!handleMissionSwitch(m) PROVE TabsInv'
  <2>d. /\ Tabs!Load(m) /\ requests' = Tabs!Awaited({"guard", "page"}) \cup Tabs!Ask("guard", m)
        /\ UNCHANGED <<selectedAirport, airportDetail, chosen, unasked, listed, status, running,
                       dismissTimer>>
    BY <1>3 DEF Tabs!handleMissionSwitch, Tabs!airportVars, Tabs!computation
  <2>1. ASSUME NEW r \in requests'
        PROVE  /\ r \in Tabs!Request
               /\ r.kind \in {"detail", "list"} => r.of \in Airports
               /\ r.kind = "detail" => r.of = chosen' \/ unasked'
               /\ r.kind = "guard" => r.of = m
               /\ r.kind # "page"
    <3>1. CASE r \in Tabs!Awaited({"guard", "page"})
      BY <1>0, <2>d, <3>1 DEF Tabs!Awaited, AnswerFits
    <3>2. CASE r \in Tabs!Ask("guard", m)
      BY <3>2, AskSays DEF Tabs!Kinds
    <3> QED BY <2>d, <2>1, <3>1, <3>2
  <2> QED BY <1>0, <2>d, <2>1, LoadKeeps
<1>4. CASE Tabs!handleDeselect
  <2>d. /\ Tabs!Load(None) /\ requests' = Tabs!Awaited({"guard", "page"})
        /\ UNCHANGED <<selectedAirport, airportDetail, chosen, unasked, listed, status, running,
                       dismissTimer>>
    BY <1>4 DEF Tabs!handleDeselect, Tabs!airportVars, Tabs!computation
  <2>1. ASSUME NEW r \in requests'
        PROVE  /\ r \in Tabs!Request
               /\ r.kind \in {"detail", "list"} => r.of \in Airports
               /\ r.kind = "detail" => r.of = chosen' \/ unasked'
               /\ r.kind # "guard" /\ r.kind # "page"
    BY <1>0, <2>d, <2>1 DEF Tabs!Awaited, AnswerFits
  <2> QED BY <1>0, <2>d, <2>1, LoadKeeps
<1>5. CASE Tabs!Reload
  <2> DEFINE m == IF selectedAirport = None THEN None ELSE route
  <2>d. /\ Tabs!Load(m) /\ UNCHANGED selectedAirport /\ airportDetail' = None /\ listed' = None
        /\ chosen' = selectedAirport /\ unasked' = FALSE
        /\ status' = "IDLE" /\ running' = None /\ dismissTimer' = FALSE
        /\ requests' = Tabs!Ask("detail", selectedAirport) \cup Tabs!Ask("list", selectedAirport)
                         \cup Tabs!Ask("guard", m)
    BY <1>5 DEF Tabs!Reload, Tabs!Reselect
  <2>1. m \in Missions \cup {None}
    BY <1>0
  <2> HIDE DEF m
  <2>2. ASSUME NEW r \in requests'
        PROVE  /\ r \in Tabs!Request
               /\ r.kind \in {"detail", "list"} => r.of \in Airports
               /\ r.kind = "detail" => r.of = chosen' \/ unasked'
               /\ r.kind = "guard" => r.of = m
               /\ r.kind # "page"
    BY <1>0, <2>d, <2>1, <2>2, AskSays DEF Tabs!Kinds
  <2> QED BY <1>0, <2>d, <2>1, <2>2, LoadKeeps
<1> QED BY <1>1, <1>2, <1>3, <1>4, <1>5

LEMMA RequestsAre ==
  ASSUME TabsInv, NEW r \in requests
  PROVE  /\ r \in Tabs!Request /\ AnswerFits(r) /\ r.kind \in Tabs!Kinds
         /\ r.kind \in {"detail", "list"} => r.of \in Airports
         /\ r.kind = "detail" => r.of = chosen \/ unasked
         /\ r.kind = "guard" => r.of = route /\ guard = "loading"
         /\ r.kind = "page" => r.of = route /\ guard = "match"
BY TabsTypes DEF TabsInv, AnswerFits, Tabs!Request

\* The selection and the address before a step.
LEMMA PlacesAre ==
  ASSUME TabsInv
  PROVE  /\ selectedAirport \in Airports \cup {None} /\ airportDetail \in Airports \cup {None}
         /\ listed \in Airports \cup {None} /\ chosen \in Airports \cup {None}
         /\ route \in Missions \cup {None} /\ guarded \in Missions \cup {None}
         /\ planOf \in Missions \cup {None} /\ renaming \in Missions \cup {None}
         /\ unasked \in BOOLEAN /\ foreign \in BOOLEAN
         /\ selectedAirport = chosen \/ unasked
         /\ planOf \in {None, route} \/ foreign
BY DEF TabsInv, Tabs!TypeOK, Tabs!ChosenStays, Tabs!PlanOfPage

LEMMA DetailKeeps ==
  ASSUME TabsInv, NEW r \in requests, Tabs!DetailAnswered(r)
  PROVE  TabsInv'
<1>0. /\ r.kind = "detail" /\ r.of \in Airports /\ (r.of = chosen \/ unasked)
      /\ airportDetail' = r.of /\ UNCHANGED <<listed, status, running, dismissTimer, chosen, unasked>>
  BY RequestsAre DEF Tabs!DetailAnswered, Tabs!computation
<1>1. CASE Tabs!Reselect(r.of, route, Tabs!Awaited({"guard", "page"}) \ {r})
  <2>d. /\ Tabs!Load(route) /\ selectedAirport' = r.of
        /\ requests' = (Tabs!Awaited({"guard", "page"}) \ {r}) \cup Tabs!Ask("list", r.of)
                         \cup Tabs!Ask("guard", route)
    BY <1>1 DEF Tabs!Reselect
  <2>1. ASSUME NEW q \in requests'
        PROVE  /\ q \in Tabs!Request
               /\ q.kind \in {"detail", "list"} => q.of \in Airports
               /\ q.kind = "detail" => q.of = chosen' \/ unasked'
               /\ q.kind = "guard" => q.of = route
               /\ q.kind # "page"
    <3>1. CASE q \in Tabs!Awaited({"guard", "page"})
      BY <1>0, <3>1, RequestsAre DEF Tabs!Awaited
    <3>2. CASE q \in Tabs!Ask("list", r.of) \cup Tabs!Ask("guard", route)
      BY <1>0, <3>2, AskSays, PlacesAre DEF Tabs!Kinds
    <3> QED BY <2>d, <2>1, <3>1, <3>2
  <2> QED BY <1>0, <2>d, <2>1, PlacesAre, LoadKeeps
<1>2. CASE /\ selectedAirport = r.of /\ requests' = requests \ {r}
           /\ UNCHANGED <<selectedAirport, route, guard, Tabs!pageVars>>
  <2>1. UNCHANGED <<selectedAirport, route, guard, guarded, planOf, renaming, foreign>>
    BY <1>2 DEF Tabs!pageVars
  <2>2. ASSUME NEW q \in requests' PROVE q \in requests /\ q \in Tabs!Request
    BY <1>2, <2>2, RequestsAre
  <2>3. /\ running \in Missions \cup {None} /\ dismissTimer \in BOOLEAN
        /\ status \in {"IDLE", "COMPUTING", "COMPLETED", "FAILED"}
        /\ (running # None => status = "COMPUTING") /\ (dismissTimer => running = None)
    BY DEF TabsInv, Tabs!TypeOK, Tabs!RunningShown
  <2> QED BY <1>0, <2>1, <2>2, <2>3, PlacesAre, StayKeeps
<1> QED BY <1>1, <1>2 DEF Tabs!DetailAnswered

\* The computation before a step.
LEMMA ComputationIs ==
  ASSUME TabsInv
  PROVE  /\ running \in Missions \cup {None} /\ dismissTimer \in BOOLEAN
         /\ status \in {"IDLE", "COMPUTING", "COMPLETED", "FAILED"}
         /\ (running # None => status = "COMPUTING") /\ (dismissTimer => running = None)
         /\ (guard = "match" => guarded = route /\ route # None)
BY DEF TabsInv, Tabs!TypeOK, Tabs!RunningShown, Tabs!PageOfAddress

LEMMA GuardKeeps ==
  ASSUME TabsInv, NEW r \in requests, Tabs!GuardAnswered(r)
  PROVE  TabsInv'
<1>0. /\ r.kind = "guard" /\ r.of = route /\ guard = "loading"
      /\ UNCHANGED <<selectedAirport, airportDetail, chosen, unasked, listed, status, running,
                     dismissTimer>>
  BY RequestsAre DEF Tabs!GuardAnswered, Tabs!computation, Tabs!airportVars
<1>1. CASE airportOf[r.of] = selectedAirport
  <2>d. /\ guard' = "match" /\ guarded' = r.of
        /\ requests' = (requests \ {r}) \cup Tabs!Ask("page", r.of)
        /\ UNCHANGED <<route, planOf, renaming, foreign>>
    BY <1>1 DEF Tabs!GuardAnswered
  <2>1. route # None /\ renaming = None /\ planOf' \in {None, route} \cup Missions
    BY <1>0, <2>d, PlacesAre DEF TabsInv
  <2>2. ASSUME NEW q \in requests' PROVE q \in Tabs!Request /\ AnswerFits(q)'
    <3>1. CASE q \in Tabs!Ask("page", r.of)
      BY <1>0, <2>d, <3>1, AskSays, PlacesAre DEF Tabs!Kinds, AnswerFits
    <3>2. CASE q \in requests \ {r}
      <4>1. q.kind # "page" /\ q \in Tabs!Request /\ r \in Tabs!Request
        BY <1>0, <3>2, RequestsAre
      <4>2. q.kind # "guard"
        <5>1. SUFFICES ASSUME q.kind = "guard" PROVE q = r
          BY <3>2
        <5>2. q.of = route
          BY <3>2, <5>1, RequestsAre
        <5> QED BY <1>0, <4>1, <5>1, <5>2 DEF Tabs!Request
      <4> QED BY <1>0, <3>2, <4>1, <4>2, RequestsAre DEF AnswerFits
    <3> QED BY <2>d, <2>2, <3>1, <3>2
  <2>3. Tabs!TypeOK'
    BY <1>0, <2>d, <2>2, ComputationIs, PlacesAre DEF Tabs!TypeOK
  <2>4. Tabs!PageOfAddress'
    BY <1>0, <1>1, <2>d, <2>1 DEF Tabs!PageOfAddress
  <2>5. Tabs!PlanOfPage' /\ Tabs!ChosenStays' /\ Tabs!RunningShown'
    BY <1>0, <2>d, ComputationIs, PlacesAre DEF Tabs!PlanOfPage, Tabs!ChosenStays, Tabs!RunningShown
  <2> QED BY <1>0, <2>d, <2>1, <2>2, <2>3, <2>4, <2>5, ComputationIs DEF TabsInv
<1>2. CASE airportOf[r.of] # selectedAirport
  <2>d. Tabs!Load(None) /\ requests' = requests \ {r}
    BY <1>2 DEF Tabs!GuardAnswered
  <2>1. ASSUME NEW q \in requests'
        PROVE  /\ q \in Tabs!Request
               /\ q.kind \in {"detail", "list"} => q.of \in Airports
               /\ q.kind = "detail" => q.of = chosen' \/ unasked'
               /\ q.kind # "guard" /\ q.kind # "page"
    <3>1. q \in requests /\ q # r /\ q \in Tabs!Request /\ r \in Tabs!Request
      BY <2>d, <2>1, RequestsAre
    <3>2. q.kind # "guard"
      <4>1. SUFFICES ASSUME q.kind = "guard" PROVE q = r
        BY <3>1
      <4>2. q.of = route
        BY <3>1, <4>1, RequestsAre
      <4> QED BY <1>0, <3>1, <4>1, <4>2 DEF Tabs!Request
    <3> QED BY <1>0, <3>1, <3>2, RequestsAre
  <2> QED BY <1>0, <2>d, <2>1, PlacesAre, LoadKeeps
<1> QED BY <1>1, <1>2

LEMMA ListAsked ==
  ASSUME TabsInv, NEW q \in Tabs!Ask("list", selectedAirport)
  PROVE  q \in Tabs!Request /\ q.kind = "list" /\ q.of \in Airports
<1>1. "list" \in Tabs!Kinds /\ selectedAirport \in Missions \cup Airports \cup {None}
  BY PlacesAre DEF Tabs!Kinds
<1>2. q \in Tabs!Request /\ q.kind = "list" /\ q.of = selectedAirport /\ selectedAirport # None
  BY <1>1, AskSays
<1> QED BY <1>2, PlacesAre

LEMMA OtherAnswersKeep ==
  ASSUME TabsInv, NEW r \in requests,
         \/ Tabs!ListAnswered(r) \/ Tabs!PageAnswered(r) \/ Tabs!Deleted(r) \/ Tabs!Failed(r)
         \/ \E copy \in Missions : Tabs!Duplicated(r, copy)
  PROVE  TabsInv'
<1>1. CASE Tabs!ListAnswered(r)
  <2>1. /\ listed' = r.of /\ r.of \in Airports /\ requests' = requests \ {r}
        /\ UNCHANGED <<selectedAirport, airportDetail, chosen, unasked, route, guard, guarded, planOf,
                       renaming, foreign, status, running, dismissTimer>>
    BY <1>1, RequestsAre
       DEF Tabs!ListAnswered, Tabs!airportVars, Tabs!pageVars, Tabs!computation
  <2>2. ASSUME NEW q \in requests' PROVE q \in requests /\ q \in Tabs!Request
    BY <2>1, <2>2, RequestsAre
  <2> QED BY <2>1, <2>2, PlacesAre, ComputationIs, StayKeeps
<1>2. CASE Tabs!PageAnswered(r)
  <2>1. /\ planOf' \in {r.of, None} /\ r.of = route /\ foreign' = FALSE
        /\ requests' = (requests \ {r}) \cup Tabs!Ask("list", selectedAirport)
        /\ UNCHANGED <<selectedAirport, airportDetail, chosen, unasked, listed, route, guard, guarded,
                       renaming, status, running, dismissTimer>>
    BY <1>2, RequestsAre DEF Tabs!PageAnswered, Tabs!airportVars, Tabs!computation
  <2>2. ASSUME NEW q \in requests'
        PROVE  q \in Tabs!Request /\ (q \in requests \/ (q.kind = "list" /\ q.of \in Airports))
    BY <2>1, <2>2, RequestsAre, ListAsked
  <2> QED BY <2>1, <2>2, PlacesAre, ComputationIs, StayKeeps
<1>3. CASE Tabs!Deleted(r)
  <2>1. /\ Tabs!Load(None)
        /\ requests' = (Tabs!Awaited({"guard", "page"}) \ {r}) \cup Tabs!Ask("list", selectedAirport)
        /\ UNCHANGED <<selectedAirport, airportDetail, chosen, unasked, listed, status, running,
                       dismissTimer>>
    BY <1>3 DEF Tabs!Deleted, Tabs!airportVars, Tabs!computation
  <2>2. ASSUME NEW q \in requests'
        PROVE  /\ q \in Tabs!Request
               /\ q.kind \in {"detail", "list"} => q.of \in Airports
               /\ q.kind = "detail" => q.of = chosen' \/ unasked'
               /\ q.kind # "guard" /\ q.kind # "page"
    <3>1. CASE q \in Tabs!Awaited({"guard", "page"})
      BY <2>1, <3>1, RequestsAre DEF Tabs!Awaited
    <3>2. CASE q \in Tabs!Ask("list", selectedAirport)
      BY <3>2, ListAsked
    <3> QED BY <2>1, <2>2, <3>1, <3>2
  <2> QED BY <2>1, <2>2, PlacesAre, LoadKeeps
<1>4. CASE Tabs!Failed(r)
  <2>d. /\ airportDetail' = (IF r.kind = "detail" THEN None ELSE airportDetail)
        /\ UNCHANGED <<selectedAirport, listed, chosen, unasked, status, running, dismissTimer>>
    BY <1>4 DEF Tabs!Failed, Tabs!computation
  <2>1. CASE r.kind = "guard"
    <3>1. Tabs!Load(None) /\ requests' = Tabs!Awaited({"guard", "page"}) \ {r}
      BY <1>4, <2>1 DEF Tabs!Failed
    <3>2. ASSUME NEW q \in requests'
          PROVE  /\ q \in Tabs!Request
                 /\ q.kind \in {"detail", "list"} => q.of \in Airports
                 /\ q.kind = "detail" => q.of = chosen' \/ unasked'
                 /\ q.kind # "guard" /\ q.kind # "page"
      BY <2>d, <3>1, <3>2, RequestsAre DEF Tabs!Awaited
    <3> QED BY <2>d, <3>1, <3>2, PlacesAre, LoadKeeps
  <2>2. CASE r.kind # "guard"
    <3>1. /\ requests' = requests \ {r}
          /\ UNCHANGED <<route, guard, guarded, planOf, renaming, foreign>>
      BY <1>4, <2>2 DEF Tabs!Failed, Tabs!pageVars
    <3>2. ASSUME NEW q \in requests' PROVE q \in requests /\ q \in Tabs!Request
      BY <3>1, <3>2, RequestsAre
    <3> QED BY <2>d, <3>1, <3>2, PlacesAre, ComputationIs, StayKeeps
  <2> QED BY <2>1, <2>2
<1>5. ASSUME NEW copy \in Missions, Tabs!Duplicated(r, copy) PROVE TabsInv'
  <2> DEFINE m == IF selectedAirport = None THEN None ELSE copy
  <2>1. /\ Tabs!Load(m)
        /\ requests' = (Tabs!Awaited({"guard", "page"}) \ {r}) \cup Tabs!Ask("list", selectedAirport)
                         \cup (IF selectedAirport = None THEN {} ELSE Tabs!Ask("guard", copy))
        /\ UNCHANGED <<selectedAirport, airportDetail, chosen, unasked, listed, status, running,
                       dismissTimer>>
    BY <1>5 DEF Tabs!Duplicated, Tabs!airportVars, Tabs!computation
  <2>2. m \in Missions \cup {None} /\ (selectedAirport # None => m = copy)
    OBVIOUS
  <2> HIDE DEF m
  <2>3. ASSUME NEW q \in requests'
        PROVE  /\ q \in Tabs!Request
               /\ q.kind \in {"detail", "list"} => q.of \in Airports
               /\ q.kind = "detail" => q.of = chosen' \/ unasked'
               /\ q.kind = "guard" => q.of = m
               /\ q.kind # "page"
    <3>1. CASE q \in Tabs!Awaited({"guard", "page"})
      BY <2>1, <3>1, RequestsAre DEF Tabs!Awaited
    <3>2. CASE q \in Tabs!Ask("list", selectedAirport)
      BY <3>2, ListAsked
    <3>3. CASE selectedAirport # None /\ q \in Tabs!Ask("guard", copy)
      BY <2>2, <3>3, AskSays DEF Tabs!Kinds
    <3> QED BY <2>1, <2>3, <3>1, <3>2, <3>3
  <2> QED BY <2>1, <2>2, <2>3, PlacesAre, LoadKeeps
<1> QED BY <1>1, <1>2, <1>3, <1>4, <1>5

LEMMA PageStepsKeep ==
  ASSUME TabsInv,
         \/ Tabs!startRename \/ Tabs!confirmRename \/ Tabs!handleDuplicate
         \/ Tabs!handleDeleteMission
  PROVE  TabsInv'
<1>1. CASE Tabs!startRename \/ Tabs!confirmRename
  <2>1. /\ renaming' \in {renaming, None, guarded}
        /\ requests' \in {requests, requests \cup Tabs!Ask("list", selectedAirport)}
        /\ UNCHANGED <<selectedAirport, airportDetail, chosen, unasked, listed, route, guard, guarded,
                       planOf, foreign, status, running, dismissTimer>>
    BY <1>1 DEF Tabs!startRename, Tabs!confirmRename, Tabs!airportVars, Tabs!computation
  <2>2. ASSUME NEW q \in requests'
        PROVE  q \in Tabs!Request /\ (q \in requests \/ (q.kind = "list" /\ q.of \in Airports))
    BY <2>1, <2>2, RequestsAre, ListAsked
  <2> QED BY <2>1, <2>2, PlacesAre, ComputationIs, StayKeeps
<1>2. CASE Tabs!handleDuplicate \/ Tabs!handleDeleteMission
  <2>1. /\ \/ requests' = requests \cup Tabs!Ask("duplicate", route)
           \/ requests' = requests \cup Tabs!Ask("delete", route)
        /\ UNCHANGED <<selectedAirport, airportDetail, chosen, unasked, listed, route, guard, guarded,
                       planOf, renaming, foreign, status, running, dismissTimer>>
    BY <1>2 DEF Tabs!handleDuplicate, Tabs!handleDeleteMission, Tabs!airportVars, Tabs!pageVars,
               Tabs!computation
  <2>2. ASSUME NEW q \in requests'
        PROVE  q \in Tabs!Request /\ (q \in requests \/ q.kind \in {"duplicate", "delete"})
    BY <2>1, <2>2, RequestsAre, AskSays, PlacesAre DEF Tabs!Kinds
  <2> QED BY <2>1, <2>2, PlacesAre, ComputationIs, StayKeeps
<1> QED BY <1>1, <1>2

LEMMA ComputationKeeps ==
  ASSUME TabsInv, Tabs!startComputation \/ Tabs!ComputationAnswered \/ Tabs!dismiss
  PROVE  TabsInv'
<1>1. CASE Tabs!startComputation \/ Tabs!dismiss
  <2>1. /\ UNCHANGED <<selectedAirport, airportDetail, chosen, unasked, listed, route, guard, guarded,
                       planOf, renaming, foreign, requests>>
        /\ \/ status' = "COMPUTING" /\ running' = route /\ dismissTimer' = FALSE
              /\ guard = "match"
           \/ dismissTimer /\ status' = "IDLE" /\ dismissTimer' = FALSE /\ running' = running
    BY <1>1 DEF Tabs!startComputation, Tabs!dismiss, Tabs!airportVars, Tabs!pageVars
  <2>2. /\ running' \in Missions \cup {None} /\ dismissTimer' \in BOOLEAN
        /\ status' \in {"IDLE", "COMPUTING", "COMPLETED", "FAILED"}
        /\ running' # None => status' = "COMPUTING"
        /\ dismissTimer' => running' = None
    BY <2>1, PlacesAre, ComputationIs
  <2>3. requests' \subseteq Tabs!Request
    BY <2>1, TabsTypes
  <2> QED BY <2>1, <2>2, <2>3, PlacesAre, StayKeeps
<1>2. CASE Tabs!ComputationAnswered
  <2>1. /\ running # None /\ running' = None /\ dismissTimer' = TRUE
        /\ requests' = requests \cup Tabs!Ask("list", selectedAirport)
        /\ status' \in {"COMPLETED", "FAILED"}
        /\ UNCHANGED <<selectedAirport, airportDetail, chosen, unasked, listed, route, guard, guarded,
                       renaming>>
    BY <1>2 DEF Tabs!ComputationAnswered, Tabs!airportVars
  <2>2. \/ UNCHANGED <<planOf, foreign>>
        \/ planOf' = running /\ foreign' = (running # route)
    BY <1>2 DEF Tabs!ComputationAnswered
  <2>3. foreign' \in BOOLEAN
    <3>1. CASE UNCHANGED <<planOf, foreign>>
      BY <3>1, PlacesAre
    <3>2. CASE foreign' = (running # route)
      BY <3>2, Zenon
    <3> QED BY <2>2, <3>1, <3>2, Zenon
  <2>4. planOf' \in Missions \cup {None} /\ (planOf' \in {None, route} \/ foreign')
    <3>1. CASE UNCHANGED <<planOf, foreign>>
      BY <3>1, PlacesAre
    <3>2. CASE planOf' = running /\ foreign' = (running # route)
      <4>1. running # route => foreign'
        BY <3>2, Zenon
      <4> QED BY <3>2, <4>1, ComputationIs
    <3> QED BY <2>2, <3>1, <3>2
  <2>5. ASSUME NEW q \in requests'
        PROVE  q \in Tabs!Request /\ (q \in requests \/ (q.kind = "list" /\ q.of \in Airports))
    BY <2>1, <2>5, RequestsAre, ListAsked
  <2> QED BY <2>1, <2>3, <2>4, <2>5, PlacesAre, StayKeeps
<1> QED BY <1>1, <1>2

LEMMA TabsKeep == ASSUME TabsInv, Tabs!Next \/ UNCHANGED tabsVars PROVE TabsInv'
<1>1. ASSUME NEW r \in requests, Tabs!Answer(r) PROVE TabsInv'
  BY <1>1, DetailKeeps, GuardKeeps, OtherAnswersKeep DEF Tabs!Answer
<1>2. CASE Tabs!Operator
  BY <1>2, AirportStepsKeep, PageStepsKeep, ComputationKeeps DEF Tabs!Operator
<1>3. CASE UNCHANGED tabsVars
  BY <1>3 DEF tabsVars, TabsInv, AnswerFits, Tabs!TypeOK, Tabs!PageOfAddress, Tabs!PlanOfPage,
              Tabs!ChosenStays, Tabs!RunningShown
<1> QED BY <1>1, <1>2, <1>3, ComputationKeeps DEF Tabs!Next

LEMMA TabsHold == Spec => [](page = "tabs" => TabsInv)
<1>1. Init => (page = "tabs" => TabsInv)
  BY TabsStart DEF Init
<1>2. (page = "tabs" => TabsInv)
        /\ [Next]_<<page, tabsVars, exportVars, fieldVars, hubVars, uploadVars, reviewVars, formVars>>
      => (page = "tabs" => TabsInv)'
  BY TabsKeep DEF Next
<1> QED BY <1>1, <1>2, PTL DEF Spec

\* Whatever lists, guards, details and computations answer late, an open page is of the
\* mission in the address and of the selected airport, and shows that mission's plan; the
\* airport stays the chosen one, and a running computation is shown as running.
THEOREM TabsAreFollowed == Spec => []TabsFollow
<1>1. (page = "tabs" => TabsInv) => TabsFollow
  BY DEF TabsFollow, TabsInv
<1> QED BY <1>1, TabsHold, PTL

-----------------------------------------------------------------------------
(* The export page *)

\* A sequence without one of its places.
LEMMA SequenceWithout ==
  ASSUME NEW S, NEW s \in Seq(S), NEW i \in 1..Len(s)
  PROVE  LET t == SubSeq(s, 1, i - 1) \o SubSeq(s, i + 1, Len(s))
         IN  /\ t \in Seq(S) /\ Len(t) = Len(s) - 1
             /\ \A k \in 1..(Len(s) - 1) : t[k] = IF k < i THEN s[k] ELSE s[k + 1]
<1> DEFINE a == SubSeq(s, 1, i - 1)
           b == SubSeq(s, i + 1, Len(s))
<1>0. Len(s) \in Nat /\ i \in Int /\ \A k \in 1..Len(s) : s[k] \in S
  BY ElementOfSeq, LenProperties
<1>1. /\ a \in Seq(S) /\ Len(a) = i - 1
      /\ \A k \in 1..(i - 1) : a[k] = s[k]
  <2>1. /\ a \in Seq(S) /\ Len(a) = (IF 1 <= i - 1 THEN i - 1 - 1 + 1 ELSE 0)
        /\ \A k \in 1..(i - 1 - 1 + 1) : a[k] = s[1 + k - 1]
    BY <1>0, SubSeqProperties
  <2> QED BY <1>0, <2>1
<1>2. /\ b \in Seq(S) /\ Len(b) = Len(s) - i
      /\ \A k \in 1..(Len(s) - i) : b[k] = s[i + k]
  BY <1>0, SubSeqProperties
<1> HIDE DEF a, b
<1>3. /\ a \o b \in Seq(S) /\ Len(a \o b) = Len(a) + Len(b)
      /\ \A k \in 1..(Len(a) + Len(b)) : (a \o b)[k] = IF k <= Len(a) THEN a[k] ELSE b[k - Len(a)]
  BY <1>1, <1>2, ConcatProperties
<1>4. ASSUME NEW k \in 1..(Len(s) - 1) PROVE (a \o b)[k] = IF k < i THEN s[k] ELSE s[k + 1]
  <2>1. CASE k < i
    BY <1>0, <1>1, <1>2, <1>3, <2>1
  <2>2. CASE k >= i
    <3>1. (a \o b)[k] = b[k - (i - 1)] /\ k - (i - 1) \in 1..(Len(s) - i)
      BY <1>0, <1>1, <1>2, <1>3, <2>2
    <3>2. b[k - (i - 1)] = s[i + (k - (i - 1))] /\ i + (k - (i - 1)) = k + 1
      BY <1>0, <1>2, <3>1, <2>2
    <3> QED BY <1>0, <2>2, <3>1, <3>2
  <2>3. k < i \/ k >= i
    BY <1>0
  <2> QED BY <2>1, <2>2, <2>3
<1>5. /\ a \o b \in Seq(S) /\ Len(a \o b) = Len(s) - 1
      /\ \A k \in 1..(Len(s) - 1) : (a \o b)[k] = IF k < i THEN s[k] ELSE s[k + 1]
  <2>1. Len(a \o b) = Len(s) - 1
    BY <1>0, <1>1, <1>2, <1>3
  <2> QED BY <1>3, <1>4, <2>1
<1> QED BY <1>5 DEF a, b

\* What the newest reading says, or the page when there is none.
NewestReads ==
  LET l == readings[Len(readings)]
  IN  IF readings = <<>> THEN overtaken \/ shownStatus = missionStatus
      ELSE l.late \/ l.step = "sent" \/ l.found = missionStatus

ExportInv == Export!TypeOK /\ Export!DeliberateAck /\ (~elsewhere => NewestReads)

Requested == [kind : Export!Kinds, options : Export!Options]

LEMMA ExportStart == ASSUME Export!Init PROVE ExportInv
<1>1. Export!NoOptions \in Export!Options
  BY DEF Export!NoOptions, Export!Options
<1>2. readings \in Seq(Export!Reading)
  BY EmptySeq DEF Export!Init
<1>3. Export!TypeOK
  BY <1>1, <1>2 DEF Export!Init, Export!TypeOK, Export!Statuses
<1> QED BY <1>3 DEF Export!Init, ExportInv, Export!DeliberateAck, NewestReads

\* The page and the mission before a step.
LEMMA ExportIs ==
  ASSUME ExportInv
  PROVE  /\ missionStatus \in Export!Statuses /\ clamped \in BOOLEAN /\ shownStatus \in Export!Statuses
         /\ readings \in Seq(Export!Reading) /\ requested \subseteq Requested
         /\ clampWarning \in BOOLEAN /\ acknowledgeClamps \in BOOLEAN
         /\ dispatchFeedback \in {"none", "clamps"}
         /\ confirmModal \in {"none", "complete", "cancel", "delete", "wpml-fallback"}
         /\ pendingExport \in Export!Options
         /\ ticked \in BOOLEAN /\ overtaken \in BOOLEAN /\ elsewhere \in BOOLEAN
         /\ acknowledgeClamps => clampWarning /\ ticked
         /\ ~elsewhere => NewestReads
BY DEF ExportInv, Export!TypeOK, Export!DeliberateAck, Requested

\* A step that leaves the mission and its readings alone.
LEMMA PanelKeeps ==
  ASSUME ExportInv,
         UNCHANGED <<missionStatus, clamped, shownStatus, readings, overtaken, elsewhere>>,
         requested' \subseteq Requested,
         clampWarning' \in BOOLEAN, acknowledgeClamps' \in BOOLEAN, ticked' \in BOOLEAN,
         acknowledgeClamps' => clampWarning' /\ ticked',
         dispatchFeedback' \in {"none", "clamps"},
         confirmModal' \in {"none", "complete", "cancel", "delete", "wpml-fallback"},
         pendingExport' \in Export!Options
  PROVE  ExportInv'
<1>1. Export!TypeOK'
  BY ExportIs DEF Export!TypeOK, Requested
<1>2. ~elsewhere' => NewestReads'
  BY ExportIs DEF NewestReads
<1> QED BY <1>1, <1>2 DEF ExportInv, Export!DeliberateAck

LEMMA ClampStepsKeep ==
  ASSUME ExportInv, Export!onAcknowledgedChange \/ Export!dismissClampWarning
  PROVE  ExportInv'
<1>1. /\ UNCHANGED <<missionStatus, clamped, shownStatus, readings, overtaken, elsewhere, requested,
                     dispatchFeedback, confirmModal, pendingExport>>
      /\ \/ clampWarning /\ clampWarning' = clampWarning /\ acknowledgeClamps' = ~acknowledgeClamps
            /\ ticked' = ~acknowledgeClamps
         \/ clampWarning' = FALSE /\ acknowledgeClamps' = FALSE /\ ticked' = FALSE
  BY DEF Export!onAcknowledgedChange, Export!dismissClampWarning, Export!SetWarning,
         Export!missionVars, Export!shownVars, Export!dialogs
<1>2. /\ clampWarning' \in BOOLEAN /\ acknowledgeClamps' \in BOOLEAN /\ ticked' \in BOOLEAN
      /\ acknowledgeClamps' => clampWarning' /\ ticked'
  <2>1. CASE clampWarning /\ clampWarning' = clampWarning
             /\ acknowledgeClamps' = ~acknowledgeClamps /\ ticked' = ~acknowledgeClamps
    <3>1. clampWarning'
      BY <2>1, Zenon
    <3>2. acknowledgeClamps' \in BOOLEAN
      BY <2>1, Zenon
    <3>3. ticked' \in BOOLEAN
      BY <2>1, Zenon
    <3>4. acknowledgeClamps' => ticked'
      BY <2>1, Zenon
    <3> QED BY <2>1, <3>1, <3>2, <3>3, <3>4, ExportIs
  <2>2. CASE clampWarning' = FALSE /\ acknowledgeClamps' = FALSE /\ ticked' = FALSE
    BY <2>2
  <2> QED BY <1>1, <2>1, <2>2, Zenon
<1> QED BY <1>1, <1>2, ExportIs, PanelKeeps

LEMMA AskedIs ==
  ASSUME ExportInv, NEW kind \in Export!Kinds, NEW o \in Export!Options, Export!Ask(kind, o)
  PROVE  requested' \subseteq Requested
BY ExportIs DEF Export!Ask, Requested

LEMMA ButtonsKeep ==
  ASSUME ExportInv,
         \/ \E dji, mapped \in BOOLEAN : Export!handleDownload(dji, mapped)
         \/ Export!handleSendToDrone \/ Export!handleValidate
         \/ \E kind \in {"complete", "cancel", "delete"} : Export!setConfirmModal(kind)
         \/ Export!handleConfirm \/ Export!handleCloseConfirm
  PROVE  ExportInv'
<1>n. Export!NoOptions \in Export!Options
  BY DEF Export!NoOptions, Export!Options
<1>o. ASSUME NEW p \in BOOLEAN, NEW q \in BOOLEAN
      PROVE  Export!buildExportOptions(p, q) \in Export!Options
  BY <1>o DEF Export!buildExportOptions, Export!Options
<1>1. ASSUME NEW dji \in BOOLEAN, NEW mapped \in BOOLEAN, Export!handleDownload(dji, mapped)
      PROVE  ExportInv'
  <2> DEFINE ticks == clampWarning /\ acknowledgeClamps
             opts == Export!buildExportOptions(dji, ticks)
  <2>1. UNCHANGED <<missionStatus, clamped, shownStatus, readings, overtaken, elsewhere, clampWarning,
                    acknowledgeClamps, ticked, dispatchFeedback>>
    BY <1>1 DEF Export!handleDownload, Export!missionVars, Export!shownVars, Export!clampVars
  <2>2. ticks \in BOOLEAN
    BY Zenon
  <2>3. opts \in Export!Options
    <3> HIDE DEF ticks
    <3> QED BY <1>o, <2>2
  <2>4. \/ confirmModal' = "wpml-fallback" /\ pendingExport' = opts /\ UNCHANGED requested
        \/ Export!Ask("export", opts) /\ UNCHANGED <<confirmModal, pendingExport>>
    BY <1>1 DEF Export!handleDownload, Export!dialogs
  <2> HIDE DEF opts, ticks
  <2>5. requested' \subseteq Requested
    BY <2>3, <2>4, AskedIs, ExportIs DEF Export!Kinds
  <2> QED BY <2>1, <2>3, <2>4, <2>5, ExportIs, PanelKeeps
<1>2. CASE Export!handleSendToDrone
  <2> DEFINE anyway == dispatchFeedback = "clamps"
             opts == Export!buildExportOptions(TRUE, anyway)
  <2>1. /\ UNCHANGED <<missionStatus, clamped, shownStatus, readings, overtaken, elsewhere, clampWarning,
                       acknowledgeClamps, ticked, confirmModal, pendingExport>>
        /\ dispatchFeedback' = "none" /\ Export!Ask("dispatch", opts)
    BY <1>2 DEF Export!handleSendToDrone, Export!missionVars, Export!shownVars, Export!clampVars,
                Export!dialogs
  <2>2. anyway \in BOOLEAN
    BY Zenon
  <2>3. opts \in Export!Options
    <3> HIDE DEF anyway
    <3> QED BY <1>o, <2>2
  <2> HIDE DEF opts, anyway
  <2>4. requested' \subseteq Requested
    BY <2>1, <2>3, AskedIs DEF Export!Kinds
  <2> QED BY <2>1, <2>4, ExportIs, PanelKeeps
<1>3. CASE Export!handleValidate
  <2>1. /\ UNCHANGED <<missionStatus, clamped, shownStatus, readings, overtaken, elsewhere, clampWarning,
                       acknowledgeClamps, ticked, confirmModal, pendingExport, dispatchFeedback>>
        /\ Export!Ask("validate", Export!NoOptions)
    BY <1>3 DEF Export!handleValidate, Export!missionVars, Export!shownVars, Export!clampVars,
                Export!dialogs
  <2>2. requested' \subseteq Requested
    BY <1>n, <2>1, AskedIs DEF Export!Kinds
  <2> QED BY <2>1, <2>2, ExportIs, PanelKeeps
<1>4. ASSUME NEW kind \in {"complete", "cancel", "delete"}, Export!setConfirmModal(kind)
      PROVE  ExportInv'
  <2>1. /\ UNCHANGED <<missionStatus, clamped, shownStatus, readings, overtaken, elsewhere, requested,
                       clampWarning, acknowledgeClamps, ticked, pendingExport, dispatchFeedback>>
        /\ confirmModal' = kind
    BY <1>4 DEF Export!setConfirmModal, Export!missionVars, Export!shownVars, Export!clampVars
  <2> QED BY <2>1, ExportIs, PanelKeeps
<1>5. CASE Export!handleConfirm
  <2>1. /\ UNCHANGED <<missionStatus, clamped, shownStatus, readings, overtaken, elsewhere, clampWarning,
                       acknowledgeClamps, ticked, dispatchFeedback>>
        /\ confirmModal' = "none" /\ pendingExport' = Export!NoOptions
        /\ confirmModal # "none"
        /\ \/ Export!Ask("export", pendingExport)
           \/ confirmModal # "wpml-fallback" /\ Export!Ask(confirmModal, Export!NoOptions)
    BY <1>5 DEF Export!handleConfirm, Export!missionVars, Export!shownVars, Export!clampVars
  <2>2. requested' \subseteq Requested
    BY <1>n, <2>1, ExportIs, AskedIs DEF Export!Kinds
  <2> QED BY <1>n, <2>1, <2>2, ExportIs, PanelKeeps
<1>6. CASE Export!handleCloseConfirm
  <2>1. /\ UNCHANGED <<missionStatus, clamped, shownStatus, readings, overtaken, elsewhere, requested,
                       clampWarning, acknowledgeClamps, ticked, dispatchFeedback>>
        /\ confirmModal' = "none" /\ pendingExport' = Export!NoOptions
    BY <1>6 DEF Export!handleCloseConfirm, Export!missionVars, Export!shownVars, Export!clampVars
  <2> QED BY <1>n, <2>1, ExportIs, PanelKeeps
<1> QED BY <1>1, <1>2, <1>3, <1>4, <1>5, <1>6

\* A step that leaves the panel alone; what it does to the readings is said.
LEMMA ReadingKeeps ==
  ASSUME ExportInv,
         UNCHANGED <<requested, clampWarning, acknowledgeClamps, ticked, dispatchFeedback, confirmModal,
                     pendingExport>>,
         missionStatus' \in Export!Statuses, clamped' \in BOOLEAN, shownStatus' \in Export!Statuses,
         readings' \in Seq(Export!Reading), overtaken' \in BOOLEAN, elsewhere' \in BOOLEAN,
         ~elsewhere' => NewestReads'
  PROVE  ExportInv'
BY ExportIs DEF ExportInv, Export!TypeOK, Export!DeliberateAck, Requested

LEMMA SentIs ==
  ASSUME ExportInv, Export!Sent
  PROVE  readings' \in Seq(Export!Reading) /\ NewestReads'
<1> DEFINE l == [step |-> "sent", found |-> "PLANNED", late |-> FALSE]
<1>1. l \in Export!Reading /\ l.step = "sent"
  BY DEF Export!Reading, Export!Statuses
<1> HIDE DEF l
<1>2. readings' = Append(readings, l) /\ readings \in Seq(Export!Reading)
  BY ExportIs DEF Export!Sent, l
<1>3. /\ readings' \in Seq(Export!Reading) /\ readings' # <<>>
      /\ readings'[Len(readings')] = l
  BY <1>1, <1>2, AppendProperties
<1> QED BY <1>1, <1>3 DEF NewestReads

LEMMA ReadServedKeeps ==
  ASSUME ExportInv, NEW i \in DOMAIN readings, Export!ReadServed(i)
  PROVE  ExportInv'
<1> DEFINE r == [readings[i] EXCEPT !.step = "read", !.found = missionStatus]
           n == Len(readings)
<1>0. /\ readings \in Seq(Export!Reading) /\ n \in Nat /\ i \in 1..n
      /\ readings[i] \in Export!Reading
  BY ExportIs, LenProperties, ElementOfSeq
<1>1. /\ readings' = [readings EXCEPT ![i] = r]
      /\ elsewhere' = (elsewhere /\ i # Len(readings))
      /\ UNCHANGED <<missionStatus, clamped, shownStatus, overtaken, requested, clampWarning,
                     acknowledgeClamps, ticked, dispatchFeedback, confirmModal, pendingExport>>
  BY DEF Export!ReadServed, Export!missionVars, Export!clampVars, Export!dialogs
<1>2. r \in Export!Reading /\ r.found = missionStatus /\ r.late = readings[i].late
  BY <1>0, ExportIs DEF Export!Reading
<1> HIDE DEF r, n
<1>3. /\ readings' \in Seq(Export!Reading) /\ Len(readings') = n /\ readings' # <<>>
      /\ \A j \in 1..n : readings'[j] = IF j = i THEN r ELSE readings[j]
  <2>1. /\ readings' \in Seq(Export!Reading) /\ Len(readings') = n
        /\ \A j \in 1..n : readings'[j] = IF j = i THEN r ELSE readings[j]
    BY <1>0, <1>1, <1>2, ExceptSeq DEF n
  <2>2. n # 0
    BY <1>0
  <2> QED BY <2>1, <2>2, EmptySeq
<1>4. elsewhere' \in BOOLEAN
  BY <1>1, Zenon
<1>5. ~elsewhere' => NewestReads'
  <2>1. CASE i = n
    <3>1. readings'[Len(readings')].found = missionStatus
      BY <1>0, <1>2, <1>3, <2>1
    <3> QED BY <1>1, <1>3, <3>1 DEF NewestReads
  <2>2. CASE i # n
    <3>1. readings'[Len(readings')] = readings[Len(readings)] /\ readings # <<>>
      BY <1>0, <1>3, <2>2, EmptySeq DEF n
    <3>2. ~elsewhere' => ~elsewhere
      BY <1>1, <2>2, Zenon DEF n
    <3> QED BY <1>1, <1>3, <3>1, <3>2, ExportIs DEF NewestReads
  <2> QED BY <2>1, <2>2
<1> QED BY <1>1, <1>3, <1>4, <1>5, ExportIs, ReadingKeeps

LEMMA FetchKeeps ==
  ASSUME ExportInv, NEW i \in DOMAIN readings, Export!fetchData(i)
  PROVE  ExportInv'
<1> DEFINE n == Len(readings)
           others == [j \in DOMAIN readings |->
                        [readings[j] EXCEPT !.late = (readings[j].late \/ j < i)]]
<1>0. /\ readings \in Seq(Export!Reading) /\ n \in Nat /\ i \in 1..n /\ DOMAIN readings = 1..n
      /\ \A j \in 1..n : readings[j] \in Export!Reading
  BY ExportIs, LenProperties, ElementOfSeq
<1>1. /\ readings[i].step = "read"
      /\ shownStatus' = readings[i].found /\ overtaken' = readings[i].late
      /\ readings' = Export!RemoveAt(others, i)
      /\ UNCHANGED <<missionStatus, clamped, elsewhere, requested, clampWarning,
                     acknowledgeClamps, ticked, dispatchFeedback, confirmModal, pendingExport>>
  BY DEF Export!fetchData, Export!missionVars, Export!clampVars, Export!dialogs
<1>2. /\ DOMAIN others = 1..n
      /\ \A j \in 1..n : /\ others[j] \in Export!Reading
                         /\ others[j].step = readings[j].step /\ others[j].found = readings[j].found
                         /\ (j < i => others[j].late) /\ (readings[j].late => others[j].late)
  <2>1. ASSUME NEW j \in 1..n
        PROVE  /\ others[j] \in Export!Reading
               /\ others[j].step = readings[j].step /\ others[j].found = readings[j].found
               /\ (j < i => others[j].late) /\ (readings[j].late => others[j].late)
    <3> DEFINE late == readings[j].late \/ j < i
    <3>1. others[j] = [readings[j] EXCEPT !.late = late]
      BY <1>0
    <3>2. late \in BOOLEAN /\ (j < i => late) /\ (readings[j].late => late)
      BY Zenon
    <3> HIDE DEF late, others
    <3>3. /\ others[j] \in Export!Reading /\ others[j].late = late
          /\ others[j].step = readings[j].step /\ others[j].found = readings[j].found
      BY <1>0, <3>1, <3>2 DEF Export!Reading
    <3> QED BY <3>2, <3>3, Zenon
  <2> QED BY <1>0, <2>1
<1> HIDE DEF others, n
<1>3. others \in Seq(Export!Reading) /\ Len(others) = n
  <2>1. others \in [1..n -> Export!Reading]
    BY <1>2 DEF others
  <2> QED BY <1>0, <2>1, SeqDef
<1>4. /\ readings' \in Seq(Export!Reading) /\ Len(readings') = n - 1
      /\ \A k \in 1..(n - 1) : readings'[k] = IF k < i THEN others[k] ELSE others[k + 1]
  <2>1. readings' = SubSeq(others, 1, i - 1) \o SubSeq(others, i + 1, Len(others))
    BY <1>1 DEF Export!RemoveAt
  <2> QED BY <1>0, <1>3, <2>1, SequenceWithout
<1>5. ~elsewhere' => NewestReads'
  <2>1. CASE n = 1
    <3>1. readings' = <<>> /\ i = n /\ readings # <<>>
      <4>1. Len(readings') = 0 /\ Len(readings) = 1 /\ i = n
        BY <1>0, <1>4, <2>1 DEF n
      <4>2. readings' = <<>>
        BY <1>4, <4>1, EmptySeq
      <4>3. readings # <<>>
        BY <4>1
      <4> QED BY <4>1, <4>2, <4>3
    <3>2. ~elsewhere => readings[i].late \/ readings[i].found = missionStatus
      BY <1>1, <3>1, ExportIs DEF NewestReads, n
    <3>3. ~elsewhere' => overtaken' \/ shownStatus' = missionStatus'
      BY <1>1, <3>2
    <3> QED BY <3>1, <3>3 DEF NewestReads
  <2>2. CASE n > 1
    <3>1. /\ readings' # <<>> /\ n - 1 \in 1..(n - 1) /\ n \in 1..n
          /\ readings'[Len(readings')] = IF n - 1 < i THEN others[n - 1] ELSE others[n]
          /\ n - 1 < i => i = n
      BY <1>0, <1>4, <2>2, EmptySeq
    <3>2. CASE i = n
      <4>1. readings'[Len(readings')] = others[n - 1] /\ n - 1 \in 1..n /\ n - 1 < i
        BY <1>0, <2>2, <3>1, <3>2
      <4>2. others[n - 1].late
        BY <1>2, <4>1
      <4> QED BY <3>1, <4>1, <4>2 DEF NewestReads
    <3>3. CASE i # n
      <4>1. readings'[Len(readings')] = others[n] /\ readings # <<>>
        BY <1>0, <2>2, <3>1, <3>3, EmptySeq DEF n
      <4>2. ~elsewhere => \/ others[n].late \/ others[n].step = "sent"
                          \/ others[n].found = missionStatus
        BY <1>2, <3>1, <4>1, ExportIs DEF NewestReads, n
      <4> QED BY <1>1, <3>1, <4>1, <4>2 DEF NewestReads
    <3> QED BY <3>2, <3>3
  <2> QED BY <1>0, <2>1, <2>2
<1>6. shownStatus' \in Export!Statuses /\ overtaken' \in BOOLEAN
  BY <1>0, <1>1 DEF Export!Reading
<1> QED BY <1>1, <1>4, <1>5, <1>6, ExportIs, ReadingKeeps

LEMMA ElsewhereKeeps ==
  ASSUME ExportInv, Export!Elsewhere
  PROVE  ExportInv'
<1>1. /\ missionStatus' \in Export!Statuses /\ clamped' \in BOOLEAN /\ elsewhere' = TRUE
      /\ UNCHANGED <<shownStatus, readings, overtaken, requested, clampWarning, acknowledgeClamps,
                     ticked, dispatchFeedback, confirmModal, pendingExport>>
  BY ExportIs DEF Export!Elsewhere, Export!clampVars, Export!dialogs, Export!Statuses
<1> QED BY <1>1, ExportIs, ReadingKeeps

LEMMA AnswersKeep ==
  ASSUME ExportInv, NEW r \in requested, Export!Answer(r)
  PROVE  ExportInv'
<1>0. r \in Requested /\ r.kind \in Export!Kinds
  BY ExportIs DEF Requested
<1>1. CASE Export!Refused(r) \/ Export!ClampsFound(r)
  <2>1. /\ UNCHANGED <<missionStatus, clamped, shownStatus, readings, overtaken, elsewhere, confirmModal,
                       pendingExport>>
        /\ requested' = requested \ {r}
        /\ dispatchFeedback' \in {"none", "clamps", dispatchFeedback}
        /\ \/ UNCHANGED <<clampWarning, acknowledgeClamps, ticked>>
           \/ clampWarning' = TRUE /\ acknowledgeClamps' = FALSE /\ ticked' = FALSE
    BY <1>1 DEF Export!Refused, Export!ClampsFound, Export!Done, Export!SetWarning,
                Export!missionVars, Export!shownVars, Export!clampVars, Export!dialogs
  <2>2. CASE UNCHANGED <<clampWarning, acknowledgeClamps, ticked>>
    BY <2>1, <2>2, ExportIs, PanelKeeps
  <2>3. CASE clampWarning' = TRUE /\ acknowledgeClamps' = FALSE /\ ticked' = FALSE
    BY <2>1, <2>3, ExportIs, PanelKeeps
  <2> QED BY <2>1, <2>2, <2>3
<1>2. CASE Export!Carried(r)
  <2>1. /\ Export!Moved(r.kind) /\ Export!Sent /\ requested' = requested \ {r}
        /\ UNCHANGED <<clamped, shownStatus, overtaken, elsewhere, confirmModal, pendingExport>>
        /\ dispatchFeedback' \in {"none", dispatchFeedback}
        /\ \/ UNCHANGED <<clampWarning, acknowledgeClamps, ticked>>
           \/ clampWarning' = FALSE /\ acknowledgeClamps' = FALSE /\ ticked' = FALSE
    BY <1>2 DEF Export!Carried, Export!Done, Export!SetWarning, Export!clampVars, Export!dialogs
  <2>2. missionStatus' \in Export!Statuses
    BY <1>0, <2>1, ExportIs DEF Export!Moved, Export!Statuses, Export!Kinds
  <2>3. CASE UNCHANGED <<clampWarning, acknowledgeClamps, ticked>>
    <3>1. Export!TypeOK'
      BY <2>1, <2>2, <2>3, SentIs, ExportIs DEF Export!TypeOK, Requested
    <3> QED BY <2>1, <2>3, <3>1, SentIs, ExportIs DEF ExportInv, Export!DeliberateAck
  <2>4. CASE clampWarning' = FALSE /\ acknowledgeClamps' = FALSE /\ ticked' = FALSE
    <3>1. Export!TypeOK'
      BY <2>1, <2>2, <2>4, SentIs, ExportIs DEF Export!TypeOK, Requested
    <3> QED BY <2>1, <2>4, <3>1, SentIs, ExportIs DEF ExportInv, Export!DeliberateAck
  <2> QED BY <2>1, <2>3, <2>4
<1>3. CASE Export!onDelete(r)
  <2>1. PICK s \in {"PLANNED", "VALIDATED"} : Export!Fresh(s)
    BY <1>3 DEF Export!onDelete
  <2>2. Export!NoOptions \in Export!Options
    BY DEF Export!NoOptions, Export!Options
  <2>3. readings' \in Seq(Export!Reading)
    BY <2>1, EmptySeq DEF Export!Fresh
  <2>4. Export!TypeOK'
    BY <2>1, <2>2, <2>3 DEF Export!Fresh, Export!TypeOK, Export!Statuses
  <2> QED BY <2>1, <2>4 DEF Export!Fresh, ExportInv, Export!DeliberateAck, NewestReads
<1> QED BY <1>1, <1>2, <1>3 DEF Export!Answer

LEMMA ExportKeeps == ASSUME ExportInv, Export!Next \/ UNCHANGED exportVars PROVE ExportInv'
<1>1. CASE Export!handleFocus
  <2>1. /\ Export!Sent
        /\ UNCHANGED <<missionStatus, clamped, shownStatus, overtaken, elsewhere, requested,
                       clampWarning, acknowledgeClamps, ticked, dispatchFeedback, confirmModal,
                       pendingExport>>
    BY <1>1 DEF Export!handleFocus, Export!missionVars, Export!clampVars, Export!dialogs
  <2> QED BY <2>1, SentIs, ExportIs, ReadingKeeps
<1>2. CASE UNCHANGED exportVars
  BY <1>2 DEF exportVars, ExportInv, Export!TypeOK, Export!DeliberateAck, NewestReads
<1>3. CASE Export!Panel \/ Export!Lifecycle
  BY <1>3, ClampStepsKeep, ButtonsKeep DEF Export!Panel, Export!Lifecycle
<1>4. ASSUME NEW i \in DOMAIN readings, Export!ReadServed(i) \/ Export!fetchData(i) PROVE ExportInv'
  BY <1>4, ReadServedKeeps, FetchKeeps
<1> QED BY <1>1, <1>2, <1>3, <1>4, ElsewhereKeeps, AnswersKeep DEF Export!Next

LEMMA ExportHolds == Spec => [](page = "export" => ExportInv)
<1>1. Init => (page = "export" => ExportInv)
  BY ExportStart DEF Init
<1>2. (page = "export" => ExportInv)
        /\ [Next]_<<page, tabsVars, exportVars, fieldVars, hubVars, uploadVars, reviewVars, formVars>>
      => (page = "export" => ExportInv)'
  BY ExportKeeps DEF Next
<1> QED BY <1>1, <1>2, PTL DEF Spec

-----------------------------------------------------------------------------
(* The panel of the field hub *)

NewestCheck ==
  LET c == checks[Len(checks)]
  IN  IF checks = <<>> THEN overtakenCheck \/ hubStatus = hub
      ELSE c.late \/ c.found = "sent" \/ c.found = hub

ByHand(i) == i \in DOMAIN checks /\ checks[i].by = "hand"

HubInv ==
  /\ Hub!TypeOK /\ Hub!HeartbeatEnds
  /\ \A i, j \in DOMAIN checks : ByHand(i) /\ ByHand(j) => i = j
  /\ ~changed => NewestCheck
  /\ ~waylinesError => shownRoutes \subseteq hubRoutes

\* The panel and the hub before a step.
LEMMA HubIs ==
  ASSUME HubInv
  PROVE  /\ hub \in Hub!HubStates /\ hubStatus \in Hub!HubStates \cup {"connecting"}
         /\ checks \in Seq(Hub!Check) /\ checking \in BOOLEAN
         /\ changed \in BOOLEAN /\ overtakenCheck \in BOOLEAN
         /\ hubRoutes \subseteq Routes /\ shownRoutes \subseteq Routes /\ waylinesError \in BOOLEAN
         /\ deleteTarget \in Routes \cup {NoRoute} /\ deletingRoutes \subseteq Routes
         /\ DOMAIN checks = 1..Len(checks) /\ Len(checks) \in Nat
         /\ \A i \in 1..Len(checks) : checks[i] \in Hub!Check
         /\ checking <=> \E i \in DOMAIN checks : ByHand(i)
         /\ \A i, j \in DOMAIN checks : ByHand(i) /\ ByHand(j) => i = j
         /\ ~changed => NewestCheck
         /\ ~waylinesError => shownRoutes \subseteq hubRoutes
<1>1. checks \in Seq(Hub!Check)
  BY DEF HubInv, Hub!TypeOK
<1>2. DOMAIN checks = 1..Len(checks) /\ Len(checks) \in Nat
  BY <1>1, LenProperties
<1>3. \A i \in 1..Len(checks) : checks[i] \in Hub!Check
  BY <1>1, ElementOfSeq
<1>4. checking <=> \E i \in DOMAIN checks : ByHand(i)
  BY Zenon DEF HubInv, Hub!HeartbeatEnds, ByHand
<1> QED BY <1>1, <1>2, <1>3, <1>4 DEF HubInv, Hub!TypeOK

\* One poll, sent and not answered.
LEMMA FirstPoll ==
  ASSUME checks' = <<Hub!Sent("poll")>>, checking' = FALSE
  PROVE  /\ checks' \in Seq(Hub!Check) /\ Hub!HeartbeatEnds'
         /\ \A i, j \in DOMAIN checks' : ByHand(i)' /\ ByHand(j)' => i = j
         /\ NewestCheck'
<1> DEFINE c == Hub!Sent("poll")
<1>1. c \in Hub!Check /\ c.by # "hand" /\ c.found = "sent"
  BY DEF Hub!Sent, Hub!Check
<1> HIDE DEF c
<1>2. checks' = <<c>>
  BY DEF c
<1>3. /\ checks' \in Seq(Hub!Check) /\ DOMAIN checks' = {1} /\ checks'[1] = c /\ Len(checks') = 1
      /\ checks' # <<>>
  BY <1>1, <1>2
<1> QED BY <1>1, <1>3 DEF Hub!HeartbeatEnds, ByHand, NewestCheck

LEMMA HubStart == ASSUME Hub!Init PROVE HubInv
<1>1. checks = <<Hub!Sent("poll")>> /\ checking = FALSE
  BY DEF Hub!Init
<1> DEFINE c == Hub!Sent("poll")
<1>2. c \in Hub!Check /\ c.by # "hand" /\ c.found = "sent"
  BY DEF Hub!Sent, Hub!Check
<1>3. checks = <<c>>
  BY <1>1
<1> HIDE DEF c
<1>4. /\ checks \in Seq(Hub!Check) /\ DOMAIN checks = {1} /\ checks[1] = c /\ Len(checks) = 1
      /\ checks # <<>>
  BY <1>2, <1>3
<1>5. Hub!TypeOK
  BY <1>1, <1>4 DEF Hub!Init, Hub!TypeOK
<1> QED BY <1>1, <1>2, <1>4, <1>5
        DEF Hub!Init, HubInv, Hub!HeartbeatEnds, ByHand, NewestCheck

\* A step that leaves the checks alone.
LEMMA RoutesKeep ==
  ASSUME HubInv, Hub!CloudMissions
  PROVE  HubInv'
<1> DEFINE Kept ==
      /\ UNCHANGED <<hub, hubStatus, checks, checking, changed, overtakenCheck>>
      /\ hubRoutes' \subseteq Routes /\ shownRoutes' \subseteq Routes /\ waylinesError' \in BOOLEAN
      /\ deleteTarget' \in Routes \cup {NoRoute} /\ deletingRoutes' \subseteq Routes
      /\ ~waylinesError' => shownRoutes' \subseteq hubRoutes'
<1>1. Kept
  <2>1. ASSUME NEW w \in Routes \cup {NoRoute}, Hub!setDeleteTarget(w) PROVE Kept
    BY <2>1, HubIs DEF Hub!setDeleteTarget, Hub!statusVars
  <2>2. CASE Hub!handleDeleteConfirm
    BY <2>2, HubIs DEF Hub!handleDeleteConfirm, Hub!statusVars
  <2>3. ASSUME NEW w \in deletingRoutes, Hub!RouteDeleted(w) PROVE Kept
    BY <2>3, HubIs DEF Hub!RouteDeleted, Hub!statusVars
  <2>4. ASSUME NEW w \in deletingRoutes, Hub!RouteNotDeleted(w) PROVE Kept
    BY <2>4, HubIs DEF Hub!RouteNotDeleted, Hub!statusVars
  <2>5. CASE Hub!loadWaylines
    BY <2>5, HubIs DEF Hub!loadWaylines, Hub!statusVars
  <2> QED BY <2>1, <2>2, <2>3, <2>4, <2>5 DEF Hub!CloudMissions
<1>2. Hub!TypeOK'
  BY <1>1, HubIs DEF Hub!TypeOK
<1>3. Hub!HeartbeatEnds'
  BY <1>1 DEF HubInv, Hub!HeartbeatEnds
<1>4. \A i, j \in DOMAIN checks' : ByHand(i)' /\ ByHand(j)' => i = j
  BY <1>1, HubIs DEF ByHand
<1>5. ~changed' => NewestCheck'
  BY <1>1, HubIs DEF NewestCheck
<1> QED BY <1>1, <1>2, <1>3, <1>4, <1>5 DEF HubInv

\* A check is sent: by hand only where none by hand is under way.
LEMMA SendKeeps ==
  ASSUME HubInv, Hub!Poll \/ Hub!refresh
  PROVE  HubInv'
<1>1. PICK by \in {"poll", "hand"} :
        /\ checks' = Append(checks, Hub!Sent(by))
        /\ by = "poll" => checking' = checking
        /\ by = "hand" => ~checking /\ checking' = TRUE
  BY DEF Hub!Poll, Hub!refresh
<1>2. UNCHANGED <<hub, hubStatus, changed, overtakenCheck, hubRoutes, shownRoutes, waylinesError,
                  deleteTarget, deletingRoutes>>
  BY DEF Hub!Poll, Hub!refresh, Hub!routeVars
<1> DEFINE c == Hub!Sent(by)
           n == Len(checks)
<1>3. c \in Hub!Check /\ c.by = by /\ c.found = "sent"
  BY DEF Hub!Sent, Hub!Check
<1>4. checks' = Append(checks, c)
  BY <1>1
<1> HIDE DEF c, n
<1>5. /\ checks' \in Seq(Hub!Check) /\ DOMAIN checks' = 1..(n + 1) /\ Len(checks') = n + 1
      /\ checks'[n + 1] = c /\ \A k \in 1..n : checks'[k] = checks[k]
      /\ DOMAIN checks = 1..n /\ n \in Nat /\ checks' # <<>>
  <2>1. /\ checks' \in Seq(Hub!Check) /\ Len(checks') = n + 1 /\ checks' # <<>>
        /\ checks'[n + 1] = c /\ \A k \in 1..n : checks'[k] = checks[k]
    BY <1>3, <1>4, HubIs, AppendProperties DEF n
  <2> QED BY <2>1, HubIs, LenProperties DEF n
<1>6. ASSUME NEW k \in 1..(n + 1)
      PROVE  ByHand(k)' <=> (k \in 1..n /\ ByHand(k)) \/ (k = n + 1 /\ by = "hand")
  <2>1. CASE k = n + 1
    BY <1>3, <1>5, <2>1 DEF ByHand
  <2>2. CASE k \in 1..n
    BY <1>5, <2>2 DEF ByHand
  <2> QED BY <1>5, <2>1, <2>2
<1>7. checking' <=> \E k \in 1..(n + 1) : ByHand(k)'
  <2>1. CASE by = "poll"
    <3>1. \A k \in 1..(n + 1) : ByHand(k)' <=> k \in 1..n /\ ByHand(k)
      BY <1>6, <2>1
    <3>2. (\E k \in 1..(n + 1) : ByHand(k)') <=> \E k \in 1..n : ByHand(k)
      BY <1>5, <3>1
    <3>3. checking <=> \E k \in 1..n : ByHand(k)
      BY <1>5, HubIs
    <3> QED BY <1>1, <2>1, <3>2, <3>3
  <2>2. CASE by = "hand"
    <3>1. n + 1 \in 1..(n + 1)
      BY <1>5
    <3>2. \E k \in 1..(n + 1) : ByHand(k)'
      BY <1>6, <2>2, <3>1
    <3> QED BY <1>1, <2>2, <3>1, <3>2
  <2> QED BY <2>1, <2>2
<1>8. ASSUME NEW i \in DOMAIN checks', NEW j \in DOMAIN checks', ByHand(i)', ByHand(j)'
      PROVE  i = j
  <2>1. CASE by = "poll"
    <3>1. i \in 1..n /\ j \in 1..n /\ ByHand(i) /\ ByHand(j)
      BY <1>5, <1>6, <1>8, <2>1
    <3> QED BY <1>5, <3>1, HubIs
  <2>2. CASE by = "hand"
    <3>1. \A k \in 1..n : ~ByHand(k)
      BY <1>1, <1>5, <2>2, HubIs
    <3> QED BY <1>5, <1>6, <1>8, <3>1
  <2> QED BY <2>1, <2>2
<1>9. Hub!HeartbeatEnds'
  BY <1>5, <1>7 DEF Hub!HeartbeatEnds, ByHand
<1>10. Hub!TypeOK'
  BY <1>1, <1>2, <1>5, HubIs DEF Hub!TypeOK
<1>11. NewestCheck'
  BY <1>3, <1>5 DEF NewestCheck
<1> QED BY <1>2, <1>8, <1>9, <1>10, <1>11, HubIs DEF HubInv

\* A step after which the checks by hand are those of before.
LEMMA StatusKeeps ==
  ASSUME HubInv,
         UNCHANGED <<checking, hubRoutes, shownRoutes, waylinesError, deleteTarget, deletingRoutes>>,
         hub' \in Hub!HubStates, hubStatus' \in Hub!HubStates \cup {"connecting"},
         checks' \in Seq(Hub!Check), changed' \in BOOLEAN, overtakenCheck' \in BOOLEAN,
         DOMAIN checks' = DOMAIN checks, \A k \in DOMAIN checks : checks'[k].by = checks[k].by,
         ~changed' => NewestCheck'
  PROVE  HubInv'
<1>1. Hub!TypeOK'
  BY HubIs DEF Hub!TypeOK
<1>2. \A k \in DOMAIN checks : ByHand(k)' <=> ByHand(k)
  BY DEF ByHand
<1>3. Hub!HeartbeatEnds'
  <2>1. (\E k \in DOMAIN checks : ByHand(k)') <=> (\E k \in DOMAIN checks : ByHand(k))
    BY <1>2
  <2>2. checking' <=> \E k \in DOMAIN checks : ByHand(k)'
    BY <2>1, HubIs
  <2>3. checking' <=> \E k \in DOMAIN checks' : checks'[k].by = "hand"
    BY <2>2 DEF ByHand
  <2> QED BY <2>3 DEF Hub!HeartbeatEnds
<1>4. \A i, j \in DOMAIN checks' : ByHand(i)' /\ ByHand(j)' => i = j
  BY <1>2, HubIs
<1> QED BY <1>1, <1>3, <1>4, HubIs DEF HubInv

LEMMA CheckServedKeeps ==
  ASSUME HubInv, NEW i \in DOMAIN checks, Hub!CheckServed(i)
  PROVE  HubInv'
<1> DEFINE n == Len(checks)
<1>1. PICK h \in Hub!HubStates :
        /\ checks' = [checks EXCEPT ![i] = [checks[i] EXCEPT !.found = h]]
        /\ \/ h = hub /\ changed' = (changed /\ i # Len(checks))
           \/ changed' = TRUE
  BY HubIs DEF Hub!CheckServed, Hub!HubStates
<1>2. UNCHANGED <<hub, hubStatus, checking, overtakenCheck, hubRoutes, shownRoutes, waylinesError,
                  deleteTarget, deletingRoutes>>
  BY DEF Hub!CheckServed, Hub!routeVars
<1>3. PICK c \in Hub!Check : c = [checks[i] EXCEPT !.found = h]
  BY HubIs DEF Hub!Check
<1>4. c.by = checks[i].by /\ c.late = checks[i].late /\ c.found = h
  <2>1. checks[i] \in Hub!Check
    BY HubIs
  <2> QED BY <1>3, <2>1 DEF Hub!Check
<1>5. checks' = [checks EXCEPT ![i] = c]
  BY <1>1, <1>3
<1>6. /\ checks' \in Seq(Hub!Check) /\ Len(checks') = n
      /\ \A j \in 1..n : checks'[j] = IF j = i THEN c ELSE checks[j]
      /\ n \in Nat /\ i \in 1..n /\ DOMAIN checks = 1..n /\ checks \in Seq(Hub!Check)
  BY <1>5, HubIs, ExceptSeq
<1>7. DOMAIN checks' = 1..n /\ checks' # <<>> /\ checks # <<>>
  BY <1>6, LenProperties
<1>8. changed' \in BOOLEAN
  BY <1>1, Zenon
<1>9. ~changed' => NewestCheck'
  <2>1. SUFFICES ASSUME ~changed' PROVE NewestCheck'
    OBVIOUS
  <2>2. h = hub /\ ~(changed /\ i # Len(checks))
    BY <1>1, <2>1, Zenon
  <2>3. CASE i = n
    <3>1. checks'[Len(checks')].found = hub
      BY <1>4, <1>6, <2>2, <2>3
    <3> QED BY <1>2, <1>7, <3>1 DEF NewestCheck
  <2>4. CASE i # n
    <3>1. checks'[Len(checks')] = checks[Len(checks)]
      BY <1>6, <2>4
    <3> QED BY <1>2, <1>7, <2>2, <2>4, <3>1, HubIs DEF NewestCheck
  <2> QED BY <2>3, <2>4
<1>10. \A k \in DOMAIN checks : checks'[k].by = checks[k].by
  BY <1>4, <1>6
<1> QED BY <1>2, <1>6, <1>7, <1>8, <1>9, <1>10, HubIs, StatusKeeps

LEMMA RunCheckKeeps ==
  ASSUME HubInv, NEW i \in DOMAIN checks, Hub!runCheck(i)
  PROVE  HubInv'
<1> DEFINE others == [j \in DOMAIN checks |->
                        [checks[j] EXCEPT !.late = (checks[j].late \/ j < i)]]
<1>n. PICK n \in Nat : n = Len(checks)
  BY HubIs
<1>0. /\ i \in 1..n /\ DOMAIN checks = 1..n /\ \A j \in 1..n : checks[j] \in Hub!Check
  BY <1>n, HubIs
<1>1. /\ checks[i].found # "sent" /\ hubStatus' = checks[i].found /\ overtakenCheck' = checks[i].late
      /\ checks' = Hub!RemoveAt(others, i)
      /\ checking' = (checking /\ checks[i].by = "poll")
      /\ UNCHANGED <<hub, changed, hubRoutes, shownRoutes, waylinesError, deleteTarget, deletingRoutes>>
  BY DEF Hub!runCheck, Hub!routeVars
<1>2. /\ DOMAIN others = 1..n
      /\ \A j \in 1..n : /\ others[j] \in Hub!Check
                         /\ others[j].by = checks[j].by /\ others[j].found = checks[j].found
                         /\ (j < i => others[j].late) /\ (checks[j].late => others[j].late)
  <2>1. ASSUME NEW j \in 1..n
        PROVE  /\ others[j] \in Hub!Check
               /\ others[j].by = checks[j].by /\ others[j].found = checks[j].found
               /\ (j < i => others[j].late) /\ (checks[j].late => others[j].late)
    <3> DEFINE late == checks[j].late \/ j < i
    <3>1. others[j] = [checks[j] EXCEPT !.late = late]
      BY <1>0
    <3>2. late \in BOOLEAN /\ (j < i => late) /\ (checks[j].late => late)
      BY Zenon
    <3> HIDE DEF late, others
    <3>3. /\ others[j] \in Hub!Check /\ others[j].late = late
          /\ others[j].by = checks[j].by /\ others[j].found = checks[j].found
      BY <1>0, <3>1, <3>2 DEF Hub!Check
    <3> QED BY <3>2, <3>3, Zenon
  <2> QED BY <1>0, <2>1
<1> HIDE DEF others
<1>3. others \in Seq(Hub!Check) /\ Len(others) = n
  <2>1. others \in [1..n -> Hub!Check]
    BY <1>2 DEF others
  <2> QED BY <2>1, SeqDef
<1>4. /\ checks' \in Seq(Hub!Check) /\ Len(checks') = n - 1 /\ DOMAIN checks' = 1..(n - 1)
      /\ \A k \in 1..(n - 1) : checks'[k] = IF k < i THEN others[k] ELSE others[k + 1]
  <2>1. checks' = SubSeq(others, 1, i - 1) \o SubSeq(others, i + 1, Len(others))
    BY <1>1 DEF Hub!RemoveAt
  <2>2. /\ checks' \in Seq(Hub!Check) /\ Len(checks') = n - 1
        /\ \A k \in 1..(n - 1) : checks'[k] = IF k < i THEN others[k] ELSE others[k + 1]
    BY <1>0, <1>3, <2>1, SequenceWithout
  <2> QED BY <2>2, LenProperties
\* The check at a place after the step, and the place it had before.
<1>5. ASSUME NEW k \in 1..(n - 1)
      PROVE  \E j \in 1..n : /\ j = (IF k < i THEN k ELSE k + 1) /\ j # i
                             /\ (ByHand(k)' <=> ByHand(j))
  <2>1. CASE k < i
    BY <1>0, <1>2, <1>4, <2>1 DEF ByHand
  <2>2. CASE ~(k < i)
    <3>1. k + 1 \in 1..n /\ k + 1 # i /\ checks'[k] = others[k + 1]
      BY <1>0, <1>4, <2>2
    <3> QED BY <1>0, <1>2, <1>4, <2>2, <3>1 DEF ByHand
  <2> QED BY <2>1, <2>2
<1>6. ASSUME NEW j \in 1..n, j # i
      PROVE  \E k \in 1..(n - 1) : ByHand(k)' <=> ByHand(j)
  <2>1. PICK k \in 1..(n - 1) : j = (IF k < i THEN k ELSE k + 1)
    <3>1. CASE j < i
      BY <1>0, <3>1
    <3>2. CASE j > i
      <4>1. j - 1 \in 1..(n - 1) /\ ~(j - 1 < i) /\ (j - 1) + 1 = j
        BY <1>0, <3>2
      <4> QED BY <4>1
    <3> QED BY <1>0, <1>6, <3>1, <3>2
  <2> QED BY <1>5, <2>1
<1>7. \A k, l \in 1..(n - 1) : ByHand(k)' /\ ByHand(l)' => k = l
  <2>1. SUFFICES ASSUME NEW k \in 1..(n - 1), NEW l \in 1..(n - 1), ByHand(k)', ByHand(l)'
                 PROVE  k = l
    OBVIOUS
  <2>2. (IF k < i THEN k ELSE k + 1) = (IF l < i THEN l ELSE l + 1)
    BY <1>0, <1>5, <2>1, HubIs
  <2> QED BY <1>0, <2>2
<1>8. checking' <=> \E k \in 1..(n - 1) : ByHand(k)'
  <2>1. CASE ByHand(i)
    <3>1. \A k \in 1..(n - 1) : ~ByHand(k)'
      BY <1>0, <1>5, <2>1, HubIs
    <3>2. ~checking'
      <4>1. checks[i].by # "poll"
        BY <2>1 DEF ByHand
      <4> QED BY <1>1, <4>1, Zenon
    <3> QED BY <3>1, <3>2
  <2>2. CASE ~ByHand(i)
    <3>1. checking' <=> checking
      <4>1. checks[i].by = "poll"
        BY <1>0, <2>2 DEF ByHand, Hub!Check
      <4> QED BY <1>1, <4>1, Zenon
    <3>2. checking <=> \E j \in 1..n : j # i /\ ByHand(j)
      BY <1>0, <2>2, HubIs
    <3>3. (\E k \in 1..(n - 1) : ByHand(k)') <=> \E j \in 1..n : j # i /\ ByHand(j)
      BY <1>5, <1>6
    <3> QED BY <3>1, <3>2, <3>3
  <2> QED BY <2>1, <2>2
<1>9. Hub!HeartbeatEnds'
  BY <1>4, <1>8 DEF Hub!HeartbeatEnds, ByHand
<1>10. checking' \in BOOLEAN
  BY <1>1, Zenon
<1>11. Hub!TypeOK'
  <2>1. hubStatus' \in Hub!HubStates /\ overtakenCheck' \in BOOLEAN
    BY <1>0, <1>1 DEF Hub!Check
  <2> QED BY <1>1, <1>4, <1>10, <2>1, HubIs DEF Hub!TypeOK
<1>12. ~changed' => NewestCheck'
  <2>1. CASE n = 1
    <3>1. checks' = <<>> /\ i = n /\ checks # <<>>
      <4>1. Len(checks') = 0 /\ Len(checks) = 1 /\ i = n
        BY <1>n, <1>0, <1>4, <2>1
      <4>2. checks' = <<>>
        BY <1>4, <4>1, EmptySeq
      <4>3. checks # <<>>
        BY <4>1
      <4> QED BY <4>1, <4>2, <4>3
    <3>2. ~changed => checks[i].late \/ checks[i].found = hub
      BY <1>n, <1>1, <3>1, HubIs DEF NewestCheck
    <3>3. ~changed' => overtakenCheck' \/ hubStatus' = hub'
      BY <1>1, <3>2
    <3> QED BY <3>1, <3>3 DEF NewestCheck
  <2>2. CASE n > 1
    <3>1. /\ checks' # <<>> /\ n - 1 \in 1..(n - 1) /\ n \in 1..n /\ checks # <<>>
          /\ checks'[Len(checks')] = IF n - 1 < i THEN others[n - 1] ELSE others[n]
      <4>1. Len(checks') # 0 /\ Len(checks) # 0 /\ n - 1 \in 1..(n - 1) /\ n \in 1..n
            /\ n - 1 + 1 = n
        BY <1>n, <1>4, <2>2
      <4>2. checks' # <<>> /\ checks # <<>>
        BY <4>1
      <4> QED BY <1>4, <4>1, <4>2
    <3>2. CASE i = n
      <4>1. checks'[Len(checks')] = others[n - 1] /\ n - 1 \in 1..n /\ n - 1 < i
        BY <1>0, <2>2, <3>1, <3>2
      <4>2. others[n - 1].late
        BY <1>2, <4>1
      <4> QED BY <3>1, <4>1, <4>2 DEF NewestCheck
    <3>3. CASE i # n
      <4>1. checks'[Len(checks')] = others[n]
        BY <1>0, <2>2, <3>1, <3>3
      <4>2. ~changed => \/ others[n].late \/ others[n].found = "sent"
                        \/ others[n].found = hub
        BY <1>n, <1>2, <3>1, <4>1, HubIs DEF NewestCheck
      <4> QED BY <1>1, <3>1, <4>1, <4>2 DEF NewestCheck
    <3> QED BY <3>2, <3>3
  <2> QED BY <1>0, <2>1, <2>2
<1> QED BY <1>1, <1>4, <1>7, <1>9, <1>11, <1>12, HubIs DEF HubInv

LEMMA HubKeeps == ASSUME HubInv, Hub!Next \/ UNCHANGED hubVars PROVE HubInv'
<1>1. ASSUME NEW h \in Hub!HubStates, Hub!HubChanges(h) PROVE HubInv'
  <2>1. /\ hub' = h /\ changed' = TRUE
        /\ UNCHANGED <<hubStatus, checks, checking, overtakenCheck, hubRoutes, shownRoutes,
                       waylinesError, deleteTarget, deletingRoutes>>
    BY <1>1 DEF Hub!HubChanges, Hub!routeVars
  <2> QED BY <2>1, HubIs, StatusKeeps
<1>2. CASE Hub!Remount
  <2>1. /\ hubStatus' = "connecting" /\ checks' = <<Hub!Sent("poll")>> /\ checking' = FALSE
        /\ overtakenCheck' = FALSE
        /\ deleteTarget' = NoRoute /\ shownRoutes' = hubRoutes /\ waylinesError' = FALSE
        /\ UNCHANGED <<hub, changed, hubRoutes, deletingRoutes>>
    BY <1>2 DEF Hub!Remount
  <2>2. /\ checks' \in Seq(Hub!Check) /\ Hub!HeartbeatEnds'
        /\ \A i, j \in DOMAIN checks' : ByHand(i)' /\ ByHand(j)' => i = j
        /\ NewestCheck'
    BY <2>1, FirstPoll
  <2>3. Hub!TypeOK'
    BY <2>1, <2>2, HubIs DEF Hub!TypeOK
  <2> QED BY <2>1, <2>2, <2>3 DEF HubInv
<1>3. CASE UNCHANGED hubVars
  <2>1. UNCHANGED <<hub, hubStatus, checks, checking, changed, overtakenCheck, hubRoutes, shownRoutes,
                    waylinesError, deleteTarget, deletingRoutes>>
    BY <1>3 DEF hubVars
  <2>2. ~changed' => NewestCheck'
    BY <2>1, HubIs DEF NewestCheck
  <2> QED BY <2>1, <2>2, HubIs, StatusKeeps
<1> QED BY <1>1, <1>2, <1>3, RoutesKeep, SendKeeps, CheckServedKeeps, RunCheckKeeps
        DEF Hub!Next, Hub!Panel

LEMMA HubHolds == Spec => [](page = "hub" => HubInv)
<1>1. Init => (page = "hub" => HubInv)
  BY HubStart DEF Init
<1>2. (page = "hub" => HubInv)
        /\ [Next]_<<page, tabsVars, exportVars, fieldVars, hubVars, uploadVars, reviewVars, formVars>>
      => (page = "hub" => HubInv)'
  BY HubKeeps DEF Next
<1> QED BY <1>1, <1>2, PTL DEF Spec

\* With nothing under way the pages show the mission, the field hub and its routes as the
\* servers have them, whatever the page did to them, unless others changed them meanwhile or
\* answers overtook one another; an acknowledgment of clamps is given for the warning shown;
\* the heartbeat button is off exactly while a check by hand is under way.
THEOREM ServersAreShown == Spec => []MissionShown
<1>1. ExportInv => Export!ShownIsServers /\ Export!DeliberateAck
  BY DEF ExportInv, NewestReads, Export!ShownIsServers
<1>2. HubInv => Hub!HeartbeatEnds /\ Hub!HubShown /\ Hub!RoutesShown
  BY DEF HubInv, NewestCheck, Hub!HubShown, Hub!RoutesShown
<1>3. (page = "export" => ExportInv) /\ (page = "hub" => HubInv) => MissionShown
  BY <1>1, <1>2 DEF MissionShown
<1> QED BY <1>3, ExportHolds, HubHolds, PTL

-----------------------------------------------------------------------------
(* The results tab and the review of boxes *)

Counted(table) == \A i \in Checked : table[i].count >= 1

ReviewInv ==
  /\ Review!TypeOK
  /\ Counted(runs) /\ Counted(listRows) /\ \A table \in lists : Counted(table)
  /\ Review!ResultsOfRun /\ Review!AwaitedIsSelected /\ Review!BoxesOfRun
  /\ review = NoCheck => dialog.boxesOf = Review!NoRun
  /\ review # NoCheck /\ dialog.boxesOf # Review!NoRun /\ ~rerun
       => dialog.boxesOf = Review!Latest(listRows, review)

LEMMA ReviewFacts == NoCheck \notin Checked /\ MaxRuns \in Nat /\ MaxRuns >= 1
BY WorkspaceAssumption DEF Review!ReviewAssumption

LEMMA LatestIs ==
  ASSUME NEW table \in Review!Table, Counted(table), NEW i \in Checked
  PROVE  Review!Latest(table, i) \in Review!Runs /\ Review!Latest(table, i) # Review!NoRun
<1>1. table[i].count \in 1..MaxRuns
  BY ReviewFacts DEF Review!Table, Counted
<1> QED BY <1>1, ReviewFacts DEF Review!Latest, Review!Runs, Review!NoRun

LEMMA ReviewStart == ASSUME Review!Init PROVE ReviewInv
<1>1. PICK i \in Checked, s \in {"AWAITING_CONFIRM", "DONE"} :
        runs = [j \in Checked |-> IF j = i THEN [count |-> 1, status |-> s]
                                  ELSE [count |-> MaxRuns, status |-> "DONE"]]
  BY DEF Review!Init
<1>2. ASSUME NEW j \in Checked
      PROVE  /\ runs[j] \in [count : 0..MaxRuns, status : Review!Statuses]
             /\ runs[j].count >= 1
  BY <1>1, ReviewFacts DEF Review!Statuses
<1>3. runs \in Review!Table /\ Counted(runs)
  BY <1>1, <1>2 DEF Review!Table, Counted
<1>4. Review!NoDialog \in [status : Review!Statuses \cup {"unread"},
                            boxesOf : Review!Runs \cup {Review!NoRun}, sent : BOOLEAN]
  BY DEF Review!NoDialog
<1>5. Review!TypeOK
  BY <1>3, <1>4 DEF Review!Init, Review!TypeOK
<1>6. dialog.boxesOf = Review!NoRun
  BY DEF Review!Init, Review!NoDialog
<1> QED BY <1>3, <1>5, <1>6
        DEF Review!Init, ReviewInv, Review!ResultsOfRun, Review!AwaitedIsSelected, Review!BoxesOfRun

DialogStates == [status : Review!Statuses \cup {"unread"}, boxesOf : Review!Runs \cup {Review!NoRun},
                 sent : BOOLEAN]

\* The tab and its dialog before a step.
LEMMA ReviewIs ==
  ASSUME ReviewInv
  PROVE  /\ runs \in Review!Table /\ listRows \in Review!Table /\ lists \subseteq Review!Table
         /\ Counted(runs) /\ Counted(listRows) /\ \A table \in lists : Counted(table)
         /\ selected \in Checked \cup {NoCheck}
         /\ results \in Review!Runs \cup {Review!NoRun}
         /\ resultsAsked \in Review!Runs \cup {Review!NoRun}
         /\ resultsLoading \in BOOLEAN /\ resultsError \in BOOLEAN
         /\ review \in Checked \cup {NoCheck} /\ dialog \in DialogStates
         /\ confirming \in Review!Runs \cup {Review!NoRun}
         /\ rerun \in BOOLEAN /\ misplaced \in BOOLEAN /\ (misplaced => rerun)
BY DEF ReviewInv, Review!TypeOK, DialogStates, Review!BoxesOfRun

\* What a step does to the results, the list and the selection.
ResultsGood ==
  /\ results \in Review!Runs \cup {Review!NoRun}
  /\ resultsAsked \in Review!Runs \cup {Review!NoRun}
  /\ resultsLoading \in BOOLEAN /\ resultsError \in BOOLEAN
  /\ Review!ResultsOfRun /\ Review!AwaitedIsSelected

\* What a step does to the dialog.
DialogGood ==
  /\ review \in Checked \cup {NoCheck} /\ dialog \in DialogStates
  /\ rerun \in BOOLEAN /\ misplaced \in BOOLEAN /\ (misplaced => rerun)
  /\ review = NoCheck => dialog.boxesOf = Review!NoRun
  /\ review # NoCheck /\ dialog.boxesOf # Review!NoRun /\ ~rerun
       => dialog.boxesOf = Review!Latest(listRows, review)

LEMMA ReviewParts ==
  ReviewInv <=>
    /\ ResultsGood /\ DialogGood
    /\ runs \in Review!Table /\ listRows \in Review!Table /\ lists \subseteq Review!Table
    /\ Counted(runs) /\ Counted(listRows) /\ \A table \in lists : Counted(table)
    /\ selected \in Checked \cup {NoCheck} /\ confirming \in Review!Runs \cup {Review!NoRun}
BY DEF ReviewInv, ResultsGood, DialogGood, Review!TypeOK, DialogStates, Review!BoxesOfRun

LEMMA ReviewAgain ==
  ASSUME ResultsGood', DialogGood', runs' \in Review!Table, listRows' \in Review!Table,
         lists' \subseteq Review!Table, Counted(runs'), Counted(listRows'),
         \A table \in lists' : Counted(table),
         selected' \in Checked \cup {NoCheck}, confirming' \in Review!Runs \cup {Review!NoRun}
  PROVE  ReviewInv'
<1>1. Counted(runs)' /\ Counted(listRows)' /\ (\A table \in lists : Counted(table))'
  BY DEF Counted
<1> QED BY <1>1
        DEF ReviewInv, ResultsGood, DialogGood, Review!TypeOK, DialogStates, Review!BoxesOfRun

LEMMA ResultsStay ==
  ASSUME ResultsGood,
         UNCHANGED <<results, resultsAsked, resultsLoading, resultsError, listRows, selected>>
  PROVE  ResultsGood'
BY DEF ResultsGood, Review!ResultsOfRun, Review!AwaitedIsSelected, Review!Done, Review!Latest

LEMMA DialogStays ==
  ASSUME DialogGood, UNCHANGED <<review, dialog, rerun, misplaced, listRows>>
  PROVE  DialogGood'
BY DEF DialogGood, Review!Latest

\* A row is selected or let go, or another list arrives.
LEMMA SelectKeeps ==
  ASSUME ResultsGood, NEW table \in Review!Table, Counted(table), NEW i \in Checked \cup {NoCheck},
         Review!Select(table, i), listRows' = table, selected' = i
  PROVE  ResultsGood'
<1> DEFINE done == Review!Done(table, i)
           was == Review!Done(listRows, selected)
           now == Review!Latest(table, i)
           last == Review!Latest(listRows, selected)
<1>1. Review!Done(listRows', selected') = done /\ Review!Latest(listRows', selected') = now
  OBVIOUS
<1>2. done => now \in Review!Runs /\ now # Review!NoRun
  BY ReviewFacts, LatestIs DEF Review!Done
<1>4. CASE UNCHANGED <<results, resultsAsked, resultsLoading, resultsError>>
           /\ ~(done # was) /\ ~(done /\ now # last)
  <2>1. (done <=> was) /\ (done => now = last)
    BY <1>4, Zenon DEF Review!Done
  <2>2. /\ results # Review!NoRun => (was /\ results = last) \/ resultsAsked # Review!NoRun \/ resultsError
        /\ resultsAsked # Review!NoRun => was /\ resultsAsked = last
    BY DEF ResultsGood, Review!ResultsOfRun, Review!AwaitedIsSelected
  <2>3. /\ results # Review!NoRun => (done /\ results = now) \/ resultsAsked # Review!NoRun \/ resultsError
        /\ resultsAsked # Review!NoRun => done /\ resultsAsked = now
    BY <2>1, <2>2
  <2>4. Review!ResultsOfRun' /\ Review!AwaitedIsSelected'
    BY <1>1, <1>4, <2>3 DEF Review!ResultsOfRun, Review!AwaitedIsSelected
  <2> QED BY <1>4, <2>4 DEF ResultsGood
<1>5. CASE Review!Reread(table, i)
  <2>1. CASE done
    <3>1. /\ resultsAsked' = now /\ resultsLoading' = TRUE /\ resultsError' = FALSE
          /\ UNCHANGED results
      BY <1>5, <2>1 DEF Review!Reread
    <3>2. Review!ResultsOfRun' /\ Review!AwaitedIsSelected'
      BY <1>1, <1>2, <2>1, <3>1 DEF Review!ResultsOfRun, Review!AwaitedIsSelected
    <3> QED BY <1>2, <2>1, <3>1, <3>2 DEF ResultsGood
  <2>2. CASE ~done
    <3>1. /\ resultsAsked' = Review!NoRun /\ results' = Review!NoRun /\ resultsError' = FALSE
          /\ UNCHANGED resultsLoading
      BY <1>5, <2>2 DEF Review!Reread
    <3>2. Review!ResultsOfRun' /\ Review!AwaitedIsSelected'
      BY <3>1 DEF Review!ResultsOfRun, Review!AwaitedIsSelected, Review!NoRun
    <3> QED BY <3>1, <3>2 DEF ResultsGood
  <2> QED BY <2>1, <2>2
<1> QED BY <1>4, <1>5 DEF Review!Select, Review!RowChanges, Review!resultVars

\* A step on the runs of the server: the tab shows what it has shown.
LEMMA WorkerKeeps ==
  ASSUME ReviewInv, NEW i \in Checked, Review!Works(i) \/ Review!createMeasurement(i)
  PROVE  ReviewInv'
<1>1. /\ UNCHANGED <<listRows, lists, selected, results, resultsAsked, resultsLoading, resultsError,
                     review, dialog, confirming, rerun, misplaced>>
      /\ \E row \in [count : 0..MaxRuns, status : Review!Statuses] :
           row.count >= 1 /\ runs' = [runs EXCEPT ![i] = row]
  <2>1. runs[i] \in [count : 0..MaxRuns, status : Review!Statuses] /\ runs[i].count >= 1
    BY ReviewIs DEF Review!Table, Counted
  <2>2. CASE Review!Works(i)
    <3>1. PICK s \in {"AWAITING_CONFIRM", "DONE", "ERROR"} : runs' = [runs EXCEPT ![i].status = s]
      BY <2>2 DEF Review!Works
    <3> DEFINE row == [runs[i] EXCEPT !.status = s]
    <3>2. row \in [count : 0..MaxRuns, status : Review!Statuses] /\ row.count >= 1
      BY <2>1 DEF Review!Statuses
    <3>3. runs' = [runs EXCEPT ![i] = row]
      BY <3>1
    <3> HIDE DEF row
    <3> QED BY <2>2, <3>2, <3>3 DEF Review!Works, Review!resultVars, Review!dialogVars
  <2>3. CASE Review!createMeasurement(i)
    <3> DEFINE row == [count |-> runs[i].count + 1, status |-> "PROCESSING"]
    <3>1. runs' = [runs EXCEPT ![i] = row] /\ runs[i].count < MaxRuns
      BY <2>3 DEF Review!createMeasurement
    <3>2. row \in [count : 0..MaxRuns, status : Review!Statuses] /\ row.count >= 1
      BY <2>1, <3>1, ReviewFacts DEF Review!Statuses
    <3> HIDE DEF row
    <3> QED BY <2>3, <3>1, <3>2 DEF Review!createMeasurement, Review!resultVars, Review!dialogVars
  <2> QED BY <2>2, <2>3
<1>2. PICK row \in [count : 0..MaxRuns, status : Review!Statuses] :
        row.count >= 1 /\ runs' = [runs EXCEPT ![i] = row]
  BY <1>1
<1>3. runs' \in Review!Table /\ Counted(runs')
  BY <1>2, ReviewIs DEF Review!Table, Counted
<1> QED BY <1>1, <1>3, ReviewParts, ReviewAgain, ResultsStay, DialogStays

LEMMA ResultsArriveKeeps ==
  ASSUME ReviewInv, Review!ResultsArrive \/ Review!ResultsFail
  PROVE  ReviewInv'
<1>1. /\ UNCHANGED <<runs, listRows, lists, selected, review, dialog, confirming, rerun, misplaced>>
      /\ resultsAsked # Review!NoRun /\ resultsAsked' = Review!NoRun /\ resultsLoading' = FALSE
      /\ \/ results' = resultsAsked /\ UNCHANGED resultsError
         \/ resultsError' = TRUE /\ UNCHANGED results
  BY DEF Review!ResultsArrive, Review!ResultsFail, Review!dialogVars
<1>2. ResultsGood'
  BY <1>1, ReviewParts
     DEF ResultsGood, Review!ResultsOfRun, Review!AwaitedIsSelected, Review!Done, Review!Latest
<1> QED BY <1>1, <1>2, ReviewParts, ReviewAgain, DialogStays

LEMMA PickerKeeps == ASSUME ReviewInv, Review!Picker PROVE ReviewInv'
<1>1. ASSUME NEW i \in Checked \cup {NoCheck}, Review!setSelectedInspectionId(i) PROVE ReviewInv'
  <2>1. /\ selected' = i /\ Review!Select(listRows, i)
        /\ UNCHANGED <<runs, listRows, lists, review, dialog, confirming, rerun, misplaced>>
    BY <1>1 DEF Review!setSelectedInspectionId, Review!dialogVars
  <2>2. ResultsGood'
    BY <2>1, ReviewParts, SelectKeeps
  <2> QED BY <2>1, <2>2, ReviewParts, ReviewAgain, DialogStays
<1>2. ASSUME NEW i \in Checked, Review!setReviewInspectionId(i) PROVE ReviewInv'
  <2>1. /\ review' = i /\ dialog' = Review!NoDialog /\ rerun' = FALSE /\ misplaced' = FALSE
        /\ UNCHANGED <<runs, listRows, lists, selected, confirming, results, resultsAsked,
                       resultsLoading, resultsError>>
    BY <1>2 DEF Review!setReviewInspectionId, Review!resultVars
  <2>2. Review!NoDialog \in DialogStates /\ Review!NoDialog.boxesOf = Review!NoRun
    BY DEF Review!NoDialog, DialogStates
  <2>3. DialogGood'
    BY <2>1, <2>2 DEF DialogGood
  <2> QED BY <2>1, <2>3, ReviewParts, ReviewAgain, ResultsStay
<1> QED BY <1>1, <1>2 DEF Review!Picker

LEMMA ListArrivesKeeps ==
  ASSUME ReviewInv, NEW table \in lists, Review!ListArrives(table)
  PROVE  ReviewInv'
<1>1. /\ lists' = lists \ {table} /\ listRows' = table /\ Review!Select(table, selected)
      /\ rerun' = (rerun \/ (review # NoCheck /\ table[review].count # listRows[review].count))
      /\ UNCHANGED <<runs, selected, review, dialog, confirming, misplaced>>
  BY DEF Review!ListArrives
<1>2. table \in Review!Table /\ Counted(table)
  BY ReviewIs
<1>3. ResultsGood'
  BY <1>1, <1>2, ReviewParts, SelectKeeps
<1>4. rerun' \in BOOLEAN /\ (rerun => rerun')
      /\ (~rerun' => ~rerun /\ ~(review # NoCheck /\ table[review].count # listRows[review].count))
  BY <1>1, Zenon
<1>5. DialogGood'
  <2>1. review # NoCheck /\ ~rerun' => Review!Latest(table, review) = Review!Latest(listRows, review)
    BY <1>4 DEF Review!Latest
  <2> QED BY <1>1, <1>4, <2>1, ReviewParts, ReviewAgain DEF DialogGood
<1> QED BY <1>1, <1>2, <1>3, <1>5, ReviewParts, ReviewAgain

LEMMA ReviewDialogKeeps ==
  ASSUME ReviewInv,
         \/ Review!StatusRead \/ Review!PreviewRead \/ Review!handleConfirm
         \/ Review!NotConfirmed \/ Review!handleReviewClose
  PROVE  ReviewInv'
<1>0. /\ dialog \in DialogStates /\ review \in Checked \cup {NoCheck}
      /\ \A i \in Checked : /\ runs[i].status \in Review!Statuses
                            /\ Review!Latest(listRows, i) \in Review!Runs
                            /\ Review!Latest(listRows, i) # Review!NoRun
  BY ReviewIs, LatestIs DEF Review!Table
<1>1. CASE Review!StatusRead
  <2>1. PICK s \in Review!Statuses : dialog' = [dialog EXCEPT !.status = s]
    BY <1>0, <1>1 DEF Review!StatusRead, Review!Statuses
  <2>2. UNCHANGED <<runs, listRows, lists, selected, review, confirming, rerun, misplaced, results,
                    resultsAsked, resultsLoading, resultsError>>
    BY <1>1 DEF Review!StatusRead, Review!resultVars
  <2>3. dialog' \in DialogStates /\ dialog'.boxesOf = dialog.boxesOf
    BY <1>0, <2>1 DEF DialogStates
  <2>4. DialogGood'
    BY <2>2, <2>3, ReviewParts DEF DialogGood, Review!Latest
  <2> QED BY <2>2, <2>4, ReviewParts, ReviewAgain, ResultsStay
<1>2. CASE Review!PreviewRead
  <2>1. /\ review # NoCheck
        /\ dialog' = [dialog EXCEPT !.boxesOf = Review!Latest(listRows, review)]
        /\ UNCHANGED <<runs, listRows, lists, selected, review, confirming, rerun, misplaced, results,
                       resultsAsked, resultsLoading, resultsError>>
    BY <1>2 DEF Review!PreviewRead, Review!resultVars
  <2>2. dialog' \in DialogStates /\ dialog'.boxesOf = Review!Latest(listRows, review)
    <3> DEFINE now == Review!Latest(listRows, review)
    <3>1. now \in Review!Runs
      BY <1>0, <2>1
    <3> HIDE DEF now
    <3>2. dialog' = [dialog EXCEPT !.boxesOf = now]
      BY <2>1 DEF now
    <3>3. dialog' \in DialogStates /\ dialog'.boxesOf = now
      BY <1>0, <3>1, <3>2 DEF DialogStates
    <3> QED BY <3>3 DEF now
  <2>3. DialogGood'
    BY <2>1, <2>2, ReviewParts DEF DialogGood, Review!Latest
  <2> QED BY <2>1, <2>3, ReviewParts, ReviewAgain, ResultsStay
<1>3. CASE Review!handleConfirm
  <2>1. /\ review # NoCheck /\ dialog.boxesOf # Review!NoRun
        /\ confirming' = Review!Latest(listRows, review)
        /\ misplaced' = (misplaced \/ dialog.boxesOf # Review!Latest(listRows, review))
        /\ dialog' = [dialog EXCEPT !.sent = TRUE]
        /\ UNCHANGED <<runs, listRows, lists, selected, review, rerun, results, resultsAsked,
                       resultsLoading, resultsError>>
    BY <1>3 DEF Review!handleConfirm, Review!resultVars
  <2>2. dialog' \in DialogStates /\ dialog'.boxesOf = dialog.boxesOf
    BY <1>0, <2>1 DEF DialogStates
  <2>3. misplaced' \in BOOLEAN
    BY <2>1, Zenon
  <2>4. misplaced' => misplaced \/ dialog.boxesOf # Review!Latest(listRows, review)
    BY <2>1, Zenon
  <2>5. misplaced' => rerun
    BY <2>1, <2>4, ReviewParts DEF DialogGood
  <2>6. DialogGood'
    BY <2>1, <2>2, <2>3, <2>5, ReviewParts DEF DialogGood, Review!Latest
  <2>7. confirming' \in Review!Runs
    BY <1>0, <2>1
  <2> QED BY <2>1, <2>6, <2>7, ReviewParts, ReviewAgain, ResultsStay
<1>4. CASE Review!NotConfirmed
  <2>1. /\ confirming' = Review!NoRun /\ dialog' = [dialog EXCEPT !.sent = FALSE]
        /\ UNCHANGED <<runs, listRows, lists, selected, review, rerun, misplaced, results,
                       resultsAsked, resultsLoading, resultsError>>
    BY <1>4 DEF Review!NotConfirmed, Review!resultVars
  <2>2. dialog' \in DialogStates /\ dialog'.boxesOf = dialog.boxesOf
    BY <1>0, <2>1 DEF DialogStates
  <2>3. DialogGood'
    BY <2>1, <2>2, ReviewParts DEF DialogGood, Review!Latest
  <2> QED BY <2>1, <2>3, ReviewParts, ReviewAgain, ResultsStay
<1>5. CASE Review!handleReviewClose
  <2>1. /\ review' = NoCheck /\ dialog' = Review!NoDialog /\ lists' = lists \cup {runs}
        /\ UNCHANGED <<runs, listRows, selected, confirming, rerun, misplaced, results,
                       resultsAsked, resultsLoading, resultsError>>
    BY <1>5 DEF Review!handleReviewClose, Review!refreshMeasurements, Review!resultVars
  <2>2. Review!NoDialog \in DialogStates /\ Review!NoDialog.boxesOf = Review!NoRun
    BY DEF Review!NoDialog, DialogStates
  <2>3. DialogGood'
    BY <2>1, <2>2, ReviewParts DEF DialogGood
  <2> QED BY <2>1, <2>3, ReviewParts, ReviewAgain, ResultsStay
<1> QED BY <1>1, <1>2, <1>3, <1>4, <1>5

LEMMA ConfirmedKeeps == ASSUME ReviewInv, Review!Confirmed PROVE ReviewInv'
<1>1. PICK i \in Checked : i = confirming[1]
  BY ReviewIs DEF Review!Confirmed, Review!Runs
<1>2. /\ runs' = [runs EXCEPT ![i].status = "PROCESSING"] /\ confirming' = Review!NoRun
      /\ UNCHANGED <<listRows, selected, rerun, misplaced, results, resultsAsked, resultsLoading,
                     resultsError>>
      /\ \/ review' = NoCheck /\ dialog' = Review!NoDialog /\ lists' = lists \cup {runs'}
         \/ UNCHANGED <<review, dialog, lists>>
  BY <1>1 DEF Review!Confirmed, Review!resultVars
<1>3. runs' \in Review!Table /\ Counted(runs')
  <2>1. runs[i] \in [count : 0..MaxRuns, status : Review!Statuses]
    BY ReviewIs DEF Review!Table
  <2> DEFINE row == [runs[i] EXCEPT !.status = "PROCESSING"]
  <2>2. row \in [count : 0..MaxRuns, status : Review!Statuses] /\ row.count = runs[i].count
    BY <2>1 DEF Review!Statuses
  <2>3. runs' = [runs EXCEPT ![i] = row]
    BY <1>2
  <2> HIDE DEF row
  <2> QED BY <2>2, <2>3, ReviewIs DEF Review!Table, Counted
<1>4. lists' \subseteq Review!Table /\ \A table \in lists' : Counted(table)
  BY <1>2, <1>3, ReviewIs
<1>5. DialogGood'
  <2>1. CASE review' = NoCheck /\ dialog' = Review!NoDialog
    <3>1. Review!NoDialog \in DialogStates /\ Review!NoDialog.boxesOf = Review!NoRun
      BY DEF Review!NoDialog, DialogStates
    <3> QED BY <1>2, <2>1, <3>1, ReviewParts, ReviewAgain DEF DialogGood
  <2>2. CASE UNCHANGED <<review, dialog>>
    BY <1>2, <2>2, ReviewParts, DialogStays
  <2> QED BY <1>2, <2>1, <2>2
<1> QED BY <1>2, <1>3, <1>4, <1>5, ReviewParts, ReviewAgain, ResultsStay

LEMMA ReviewKeeps == ASSUME ReviewInv, Review!Next \/ UNCHANGED reviewVars PROVE ReviewInv'
<1>1. CASE Review!Reopen
  <2>1. /\ listRows' = runs /\ lists' = {} /\ selected' = NoCheck /\ UNCHANGED runs
        /\ results' = Review!NoRun /\ resultsLoading' = FALSE /\ resultsError' = FALSE
        /\ resultsAsked' = Review!NoRun
        /\ review' = NoCheck /\ dialog' = Review!NoDialog /\ confirming' = Review!NoRun
        /\ rerun' = FALSE /\ misplaced' = FALSE
    BY <1>1 DEF Review!Reopen
  <2>2. Review!NoDialog \in DialogStates /\ Review!NoDialog.boxesOf = Review!NoRun
    BY DEF Review!NoDialog, DialogStates
  <2>3. DialogGood'
    BY <2>1, <2>2 DEF DialogGood
  <2>4. ResultsGood'
    BY <2>1 DEF ResultsGood, Review!ResultsOfRun, Review!AwaitedIsSelected, Review!NoRun
  <2> QED BY <2>1, <2>3, <2>4, ReviewParts, ReviewAgain
<1>2. CASE UNCHANGED reviewVars
  <2>1. UNCHANGED <<runs, listRows, lists, selected, results, resultsLoading, resultsError,
                    resultsAsked, review, dialog, confirming, rerun, misplaced>>
    BY <1>2 DEF reviewVars
  <2> QED BY <2>1, ReviewParts, ReviewAgain, ResultsStay, DialogStays
<1> QED BY <1>1, <1>2, WorkerKeeps, ResultsArriveKeeps, PickerKeeps, ListArrivesKeeps, ReviewDialogKeeps,
           ConfirmedKeeps
        DEF Review!Next, Review!Worker, Review!ReviewDialog

LEMMA ReviewHolds == Spec => [](page = "review" => ReviewInv)
<1>1. Init => (page = "review" => ReviewInv)
  BY ReviewStart DEF Init
<1>2. (page = "review" => ReviewInv)
        /\ [Next]_<<page, tabsVars, exportVars, fieldVars, hubVars, uploadVars, reviewVars, formVars>>
      => (page = "review" => ReviewInv)'
  BY ReviewKeeps DEF Next
<1> QED BY <1>1, <1>2, PTL DEF Spec

-----------------------------------------------------------------------------
(* The form of an inspection *)

LEMMA FormFacts ==
  /\ Turns \in Nat /\ Turns > 1 /\ MaxZoom \in Nat /\ Turns <= MaxZoom + 1 /\ MaxEdits \in Nat
  /\ DefaultPreset \in CameraPresets /\ NoForm \notin Forms
  /\ Null # Absent /\ Null \notin Nat /\ Absent \notin Nat
  /\ Null \notin CameraPresets /\ Absent \notin CameraPresets
BY WorkspaceAssumption DEF Form!FormAssumption

\* What a field of an override can hold.
Entries ==
  Form!Numbers \cup (0..MaxZoom) \cup {"AUTO", "MANUAL"} \cup CameraPresets \cup {Own, Null, Absent}

\* Of the inspection that the form shows.
Zoom     == Form!resolve(form, "zoom")
Fit      == Form!computedOpticalZoom(form)
Key      == Form!PresetKey(form)
Bound    == Form!PresetOf(form)
Distance == Form!resolve(form, "distance")
Height   == Form!resolve(form, "height")
Angle    == Form!resolve(form, "angle")

\* The zoom that fits is entered where the effect last saw it with the mark off, and a settled
\* form has seen it; the preset shown is the one the effect last saw.
FormInv ==
  /\ Form!TypeOK
  /\ override \in [Forms -> [Form!FormFields -> Entries]]
  /\ form = NoForm => settled
  /\ form # NoForm /\ ~inPlace /\ ~zoomTouched /\ zoomDeps = <<Fit, FALSE>> /\ Fit # Null => Zoom = Fit
  /\ form # NoForm /\ settled => zoomDeps = <<Fit, zoomTouched>>
  /\ form # NoForm /\ ~unbound /\ presetDeps = Key => presetShown = Bound
  /\ form # NoForm /\ settled => presetDeps = Key
  /\ form # NoForm /\ aimed /\ Distance # Null /\ Height # Null /\ Angle # Null
       => Height = (Distance + Angle) % Turns

\* The fields of the form before a step.
LEMMA FieldsAre ==
  ASSUME Form!TypeOK, NEW i \in Forms
  PROVE  /\ Form!resolve(i, "distance") \in Form!Numbers \cup {Null}
         /\ Form!resolve(i, "height") \in Form!Numbers \cup {Null}
         /\ Form!resolve(i, "angle") \in Form!Numbers \cup {Null}
         /\ Form!resolve(i, "zoom") \in (0..MaxZoom) \cup {Null}
         /\ Form!resolve(i, "preset") \in CameraPresets \cup {Null}
         /\ Form!computedOpticalZoom(i) \in (0..MaxZoom) \cup {Null}
         /\ \A f \in Form!FormFields : Form!resolve(i, f) \in Form!Values(f) \cup {Null}
<1>1. \A f \in Form!FormFields : Form!resolve(i, f) \in Form!Values(f) \cup {Null}
  BY DEF Form!TypeOK, Form!resolve
<1>2. /\ {"distance", "height", "angle", "zoom", "preset"} \subseteq Form!FormFields
      /\ \A f \in {"distance", "height", "angle"} : Form!Values(f) = Form!Numbers
      /\ Form!Values("zoom") = 0..MaxZoom /\ Form!Values("preset") = CameraPresets
  BY DEF Form!FormFields, Form!Values, Form!Lengths
<1>3. /\ Form!resolve(i, "distance") \in Form!Numbers \cup {Null}
      /\ Form!resolve(i, "height") \in Form!Numbers \cup {Null}
      /\ Form!resolve(i, "angle") \in Form!Numbers \cup {Null}
      /\ Form!resolve(i, "zoom") \in (0..MaxZoom) \cup {Null}
      /\ Form!resolve(i, "preset") \in CameraPresets \cup {Null}
  BY <1>1, <1>2
<1>4. Form!computedOpticalZoom(i) \in (0..MaxZoom) \cup {Null}
  BY <1>3, FormFacts DEF Form!computedOpticalZoom, Form!Numbers
<1> QED BY <1>1, <1>3, <1>4

LEMMA FormIs ==
  ASSUME FormInv, form # NoForm
  PROVE  /\ form \in Forms
         /\ Distance \in Form!Numbers \cup {Null} /\ Height \in Form!Numbers \cup {Null}
         /\ Angle \in Form!Numbers \cup {Null}
         /\ Zoom \in (0..MaxZoom) \cup {Null} /\ Fit \in (0..MaxZoom) \cup {Null}
         /\ Fit # Absent /\ Bound \in CameraPresets \cup {Null} /\ Bound # Absent
<1>1. Form!TypeOK /\ form \in Forms
  BY DEF FormInv, Form!TypeOK
<1> QED BY <1>1, FieldsAre, FormFacts DEF Distance, Height, Angle, Zoom, Fit, Bound, Form!PresetOf

\* The form hands the override over with some fields replaced.
LEMMA ChangeIs ==
  ASSUME FormInv, form # NoForm, NEW fields, Form!onChange(fields),
         \A f \in Form!FormFields :
           f \in DOMAIN fields => fields[f] \in Form!Values(f) \cup {Null} /\ fields[f] \in Entries
  PROVE  /\ override' \in [Forms -> [Form!FormFields -> Entries]]
         /\ \A i \in Forms, f \in Form!FormFields :
              override'[i][f] \in Form!Values(f) \cup {Null, Absent}
         /\ \A f \in Form!FormFields :
              override'[form][f] = IF f \in DOMAIN fields THEN fields[f] ELSE override[form][f]
<1>0. /\ form \in Forms /\ override \in [Forms -> [Form!FormFields -> Entries]]
      /\ \A i \in Forms, f \in Form!FormFields :
           override[i][f] \in Form!Values(f) \cup {Null, Absent}
  BY FormIs DEF FormInv, Form!TypeOK
<1> DEFINE row == [f \in Form!FormFields |-> IF f \in DOMAIN fields THEN fields[f] ELSE override[form][f]]
<1>1. override' = [override EXCEPT ![form] = row]
  BY DEF Form!onChange
<1>2. row \in [Form!FormFields -> Entries]
  BY <1>0
<1>3. /\ \A f \in Form!FormFields : row[f] \in Form!Values(f) \cup {Null, Absent}
      /\ \A f \in Form!FormFields :
           row[f] = IF f \in DOMAIN fields THEN fields[f] ELSE override[form][f]
  BY <1>0
<1> HIDE DEF row
<1> QED BY <1>0, <1>1, <1>2, <1>3

\* A step of the operator on the form that stays open.
LEMMA EditKeeps ==
  ASSUME FormInv, form # NoForm, Form!Step,
         UNCHANGED <<saved, form, presetList, angleLocked, zoomKey, zoomDeps, presetDeps, inPlace>>,
         override' \in [Forms -> [Form!FormFields -> Entries]],
         \A i \in Forms, f \in Form!FormFields :
           override'[i][f] \in Form!Values(f) \cup {Null, Absent},
         oneLight' \in BOOLEAN, zoomTouched' \in BOOLEAN, unbound' \in BOOLEAN, aimed' \in BOOLEAN,
         presetShown' \in CameraPresets \cup {Null},
         \/ zoomTouched' \/ Zoom' = Fit' \/ Fit' = Null
         \/ zoomTouched' = zoomTouched /\ Zoom' = Zoom,
         \/ unbound' \/ presetShown' = Bound'
         \/ Key' = Key /\ Bound' = Bound /\ unbound' = unbound /\ presetShown' = presetShown,
         aimed' /\ Distance' # Null /\ Height' # Null /\ Angle' # Null
           => Height' = (Distance' + Angle') % Turns
  PROVE  FormInv'
<1>1. settled /\ fedits < MaxEdits /\ fedits' = fedits + 1 /\ settled' = FALSE
  BY DEF Form!Step
<1>2. Form!TypeOK'
  <2>1. Form!TypeOK
    BY DEF FormInv
  <2>2. fedits' \in 0..MaxEdits
    BY <1>1, <2>1, FormFacts DEF Form!TypeOK
  <2>3. inPlace \in BOOLEAN /\ {inPlace', unbound', aimed'} \subseteq BOOLEAN
    BY <2>1 DEF Form!TypeOK
  <2>4. settled' \in BOOLEAN
    BY <1>1
  <2> QED BY <2>1, <2>2, <2>3, <2>4 DEF Form!TypeOK
<1>3. form' # NoForm /\ ~inPlace' /\ ~zoomTouched' /\ zoomDeps' = <<Fit', FALSE>> /\ Fit' # Null
        => Zoom' = Fit'
  <2>1. SUFFICES ASSUME ~inPlace, ~zoomTouched', zoomDeps = <<Fit', FALSE>>, Fit' # Null,
                        zoomTouched' = zoomTouched, Zoom' = Zoom
                 PROVE  Zoom' = Fit'
    OBVIOUS
  <2>2. ~zoomTouched
    BY <2>1, Zenon
  <2>3. zoomDeps = <<Fit, zoomTouched>>
    BY <1>1 DEF FormInv
  <2>4. Fit = Fit'
    BY <2>1, <2>3
  <2>5. zoomDeps = <<Fit, FALSE>> /\ Fit # Null
    BY <2>1, <2>4
  <2>6. Zoom = Fit
    BY <2>1, <2>2, <2>5 DEF FormInv
  <2> QED BY <2>1, <2>4, <2>6
<1>4. form' # NoForm /\ ~unbound' /\ presetDeps' = Key' => presetShown' = Bound'
  BY DEF FormInv
<1> QED BY <1>1, <1>2, <1>3, <1>4 DEF FormInv

LEMMA FormStart ==
  ASSUME Form!Init PROVE FormInv
<1>1. PICK zoom \in [Forms -> {Null, MaxZoom - 1}], distance \in {Null, 1} :
        saved = [i \in Forms |-> [f \in Form!FormFields |->
                  IF f = "zoom" THEN zoom[i] ELSE IF f = "distance" THEN distance ELSE Null]]
  BY DEF Form!Init
<1>2. /\ override = [i \in Forms |-> [f \in Form!FormFields |-> Absent]]
      /\ form = NoForm /\ oneLight = FALSE
      /\ presetList = {} /\ presetShown = Null /\ angleLocked = FALSE
      /\ zoomTouched = FALSE /\ zoomKey = <<NoForm, Null>>
      /\ inPlace = FALSE /\ unbound = FALSE /\ aimed = FALSE
      /\ settled = TRUE /\ fedits = 0
  BY DEF Form!Init, Form!Untouched
<1>3. /\ \A f \in Form!FormFields : \A i \in Forms : override[i][f] = Absent
      /\ override \in [Forms -> [Form!FormFields -> Entries]]
  BY <1>2 DEF Entries
<1>4. MaxZoom - 1 \in 0..MaxZoom /\ 1 \in Form!Numbers
  BY FormFacts DEF Form!Numbers
<1>5. /\ Form!Values("zoom") = 0..MaxZoom /\ Form!Values("distance") = Form!Numbers
      /\ "zoom" \in Form!FormFields /\ "distance" \in Form!FormFields
  BY DEF Form!Values, Form!Lengths, Form!FormFields
<1>6. \A i \in Forms, f \in Form!FormFields : saved[i][f] \in Form!Values(f) \cup {Null}
  <2>1. SUFFICES ASSUME NEW i \in Forms, NEW f \in Form!FormFields
                 PROVE  saved[i][f] \in Form!Values(f) \cup {Null}
    OBVIOUS
  <2>2. saved[i][f] = IF f = "zoom" THEN zoom[i] ELSE IF f = "distance" THEN distance ELSE Null
    BY <1>1
  <2>3. CASE f = "zoom"
    BY <2>2, <2>3, <1>4, <1>5
  <2>4. CASE f = "distance"
    BY <2>2, <2>4, <1>4, <1>5
  <2>5. CASE f # "zoom" /\ f # "distance"
    BY <2>2, <2>5
  <2> QED BY <2>3, <2>4, <2>5
<1>7. \A i \in Forms, f \in Form!FormFields :
        /\ saved[i][f] \in Form!Values(f) \cup {Null}
        /\ override[i][f] \in Form!Values(f) \cup {Null, Absent}
  BY <1>3, <1>6
<1>8. /\ zoomKey \in (Forms \cup {NoForm}) \X (Form!Numbers \cup {Null})
      /\ {inPlace, unbound, aimed} \subseteq BOOLEAN /\ fedits \in 0..MaxEdits
  <2>1. zoomKey \in (Forms \cup {NoForm}) \X (Form!Numbers \cup {Null})
    BY <1>2
  <2>2. fedits \in 0..MaxEdits
    BY <1>2, FormFacts
  <2>3. {inPlace, unbound, aimed} \subseteq BOOLEAN
    BY <1>2
  <2> QED BY <2>1, <2>2, <2>3
<1>9. Form!TypeOK
  BY <1>2, <1>7, <1>8 DEF Form!TypeOK
<1> QED BY <1>2, <1>3, <1>9 DEF FormInv

\* The sides of the triangle, as numbers modulo Turns.
LEMMA LockSolves ==
  ASSUME NEW d \in Form!Numbers, NEW v \in Form!Numbers
  PROVE  /\ (d + v) % Turns \in Form!Numbers
         /\ (v + d) % Turns = (d + v) % Turns
         /\ Form!Difference(v, d) \in Form!Numbers
         /\ v = (d + Form!Difference(v, d)) % Turns
<1>1. d \in Int /\ v \in Int /\ 0 <= d /\ d < Turns /\ 0 <= v /\ v < Turns /\ Turns \in Nat /\ Turns > 0
  BY FormFacts DEF Form!Numbers
<1>2. /\ (d + v) % Turns \in Form!Numbers
      /\ (v + Turns - d) % Turns \in Form!Numbers
  BY <1>1 DEF Form!Numbers
<1>3. d + v = v + d
  BY <1>1
<1>4. CASE v >= d
  <2>1. (v + Turns - d) % Turns = v - d
    BY <1>1, <1>4
  <2>2. v % Turns = v
    BY <1>1
  <2>3. d + (v - d) = v
    BY <1>1
  <2> QED BY <1>2, <1>3, <2>1, <2>2, <2>3 DEF Form!Difference
<1>5. CASE v < d
  <2>1. (v + Turns - d) % Turns = v + Turns - d
    BY <1>1, <1>5
  <2>2. (v + Turns) % Turns = v
    BY <1>1
  <2>3. d + (v + Turns - d) = v + Turns
    BY <1>1
  <2> QED BY <1>2, <1>3, <2>1, <2>2, <2>3 DEF Form!Difference
<1> QED BY <1>1, <1>4, <1>5

\* What the form shows after fields were replaced.
LEMMA FieldsAfter ==
  ASSUME FormInv, form # NoForm, NEW fields, Form!onChange(fields), UNCHANGED <<saved, form>>,
         \A f \in Form!FormFields :
           f \in DOMAIN fields => fields[f] \in Form!Values(f) \cup {Null} /\ fields[f] \in Entries
  PROVE  /\ Distance' = IF "distance" \in DOMAIN fields THEN fields["distance"] ELSE Distance
         /\ Height' = IF "height" \in DOMAIN fields THEN fields["height"] ELSE Height
         /\ Angle' = IF "angle" \in DOMAIN fields THEN fields["angle"] ELSE Angle
         /\ Zoom' = IF "zoom" \in DOMAIN fields THEN fields["zoom"] ELSE Zoom
         /\ Bound' = IF "preset" \in DOMAIN fields THEN fields["preset"] ELSE Bound
         /\ "preset" \notin DOMAIN fields => Key' = Key
<1> DEFINE plain == {"distance", "height", "angle", "zoom", "preset"}
<1>1. \A f \in plain : f \in Form!FormFields /\ Absent \notin Form!Values(f) \cup {Null}
  BY FormFacts DEF Form!FormFields, Form!Lengths, Form!Values, Form!Numbers
<1>2. \A f \in Form!FormFields :
        override'[form][f] = IF f \in DOMAIN fields THEN fields[f] ELSE override[form][f]
  BY ChangeIs
<1>3. \A f \in plain : f \in DOMAIN fields => fields[f] # Absent
  BY <1>1
<1>4. \A f \in plain :
        (IF override'[form][f] # Absent THEN override'[form][f] ELSE saved[form][f])
          = IF f \in DOMAIN fields THEN fields[f]
            ELSE IF override[form][f] # Absent THEN override[form][f] ELSE saved[form][f]
  BY <1>1, <1>2, <1>3
<1>5. \A f \in plain :
        (IF override'[form'][f] # Absent THEN override'[form'][f] ELSE saved'[form'][f])
          = IF f \in DOMAIN fields THEN fields[f] ELSE Form!resolve(form, f)
  BY <1>4 DEF Form!resolve
<1>6. "preset" \notin DOMAIN fields => Key' = Key
  BY <1>1, <1>2 DEF Key, Form!PresetKey
<1> QED BY <1>5, <1>6 DEF Distance, Height, Angle, Zoom, Bound, Form!PresetOf, Form!resolve

\* An edit with the lock on leaves a triangle, or a side that is not known.
LEMMA AngleLockKeeps ==
  ASSUME FormInv, NEW f \in Form!Lengths, NEW v \in Form!Numbers \cup {Null}, Form!useAngleLock(f, v)
  PROVE  FormInv'
<1> DEFINE solved == Form!Solved(f, v)
           fields == [g \in {f} \cup {s[1] : s \in solved} |->
                        IF g = f THEN v ELSE (CHOOSE s \in solved : s[1] = g)[2]]
<1>1. /\ form # NoForm /\ Form!Step /\ Form!onChange(fields) /\ aimed' = angleLocked
      /\ UNCHANGED <<saved, form, oneLight, presetList, zoomTouched, zoomKey, zoomDeps, presetDeps,
                     presetShown, angleLocked, inPlace, unbound>>
  BY DEF Form!useAngleLock, Form!effectVars
<1>2. /\ Distance \in Form!Numbers \cup {Null} /\ Height \in Form!Numbers \cup {Null}
      /\ Angle \in Form!Numbers \cup {Null}
  BY <1>1, FormIs
<1>3. solved = {} \/ \E o \in Form!Lengths \ {f}, w \in Form!Numbers : solved = {<<o, w>>}
  <2>1. CASE ~angleLocked \/ v = Null
    BY <2>1 DEF Form!Solved
  <2>2. CASE angleLocked /\ v # Null /\ f = "distance"
    <3>1. solved = IF Angle = Null THEN {} ELSE {<<"height", (v + Angle) % Turns>>}
      BY <2>2 DEF Form!Solved, Angle
    <3>2. CASE Angle # Null
      <4>1. (v + Angle) % Turns \in Form!Numbers
        BY <2>2, <3>2, <1>2, LockSolves
      <4> QED BY <4>1, <3>1, <3>2, <2>2 DEF Form!Lengths
    <3> QED BY <3>1, <3>2
  <2>3. CASE angleLocked /\ v # Null /\ f # "distance"
    <3>1. solved = IF Distance = Null THEN {}
                   ELSE IF f = "height" THEN {<<"angle", Form!Difference(v, Distance)>>}
                   ELSE {<<"height", (Distance + v) % Turns>>}
      BY <2>3 DEF Form!Solved, Distance
    <3>2. CASE Distance # Null
      <4>1. (Distance + v) % Turns \in Form!Numbers /\ Form!Difference(v, Distance) \in Form!Numbers
        BY <2>3, <3>2, <1>2, LockSolves
      <4> QED BY <4>1, <3>1, <3>2, <2>3 DEF Form!Lengths
    <3> QED BY <3>1, <3>2
  <2> QED BY <2>1, <2>2, <2>3
<1> HIDE DEF solved
<1>4. /\ solved = {} => DOMAIN fields = {f} /\ fields[f] = v
      /\ \A o \in Form!Lengths \ {f} : \A w :
           solved = {<<o, w>>} => DOMAIN fields = {f, o} /\ fields[f] = v /\ fields[o] = w
  <2>1. CASE solved = {}
    BY <2>1
  <2>2. ASSUME NEW o \in Form!Lengths \ {f}, NEW w, solved = {<<o, w>>}
        PROVE  DOMAIN fields = {f, o} /\ fields[f] = v /\ fields[o] = w
    <3>1. {s[1] : s \in solved} = {o}
      BY <2>2
    <3>2. (CHOOSE s \in solved : s[1] = o) = <<o, w>>
      BY <2>2
    <3> QED BY <3>1, <3>2
  <2> QED BY <2>1, <2>2
<1> HIDE DEF fields
<1>5. /\ Form!Lengths \subseteq Form!FormFields
      /\ \A g \in Form!Lengths : Form!Values(g) = Form!Numbers
      /\ {"zoom", "preset"} \cap Form!Lengths = {}
  BY DEF Form!FormFields, Form!Values, Form!Lengths
<1>6. /\ DOMAIN fields \subseteq Form!Lengths
      /\ \A g \in DOMAIN fields : fields[g] \in Form!Numbers \cup {Null}
  BY <1>3, <1>4
<1>7. \A g \in Form!FormFields :
        g \in DOMAIN fields => fields[g] \in Form!Values(g) \cup {Null} /\ fields[g] \in Entries
  BY <1>5, <1>6 DEF Entries
<1>8. /\ override' \in [Forms -> [Form!FormFields -> Entries]]
      /\ \A i \in Forms, g \in Form!FormFields :
           override'[i][g] \in Form!Values(g) \cup {Null, Absent}
  BY <1>1, <1>7, ChangeIs
<1>9. /\ Distance' = IF "distance" \in DOMAIN fields THEN fields["distance"] ELSE Distance
      /\ Height' = IF "height" \in DOMAIN fields THEN fields["height"] ELSE Height
      /\ Angle' = IF "angle" \in DOMAIN fields THEN fields["angle"] ELSE Angle
      /\ Zoom' = Zoom /\ Bound' = Bound /\ Key' = Key
  BY <1>1, <1>5, <1>6, <1>7, FieldsAfter
<1>10. ASSUME aimed', Distance' # Null, Height' # Null, Angle' # Null
       PROVE  Height' = (Distance' + Angle') % Turns
  <2>1. angleLocked
    BY <1>1, <1>10, Zenon
  <2>2. v # Null
    BY <1>3, <1>4, <1>9, <1>10 DEF Form!Lengths
  <2>3. CASE f = "distance"
    <3>1. solved = IF Angle = Null THEN {} ELSE {<<"height", (v + Angle) % Turns>>}
      BY <2>1, <2>2, <2>3 DEF Form!Solved, Angle, solved
    <3>2. Angle # Null
      BY <1>4, <1>9, <1>10, <2>3, <3>1
    <3>3. solved = {<<"height", (v + Angle) % Turns>>}
      BY <3>1, <3>2
    <3>4. DOMAIN fields = {f, "height"} /\ fields[f] = v /\ fields["height"] = (v + Angle) % Turns
      <4>1. "height" \in Form!Lengths \ {f}
        BY <2>3 DEF Form!Lengths
      <4> QED BY ONLY <1>4, <3>3, <4>1
    <3> QED BY <1>9, <2>3, <3>4
  <2>4. CASE f # "distance"
    <3>1. solved = IF Distance = Null THEN {}
                   ELSE IF f = "height" THEN {<<"angle", Form!Difference(v, Distance)>>}
                   ELSE {<<"height", (Distance + v) % Turns>>}
      BY <2>1, <2>2, <2>4 DEF Form!Solved, Distance, solved
    <3>2. Distance # Null
      BY <1>4, <1>9, <1>10, <2>4, <3>1
    <3>3. v = (Distance + Form!Difference(v, Distance)) % Turns
      BY <1>2, <2>2, <3>2, LockSolves
    <3>4. CASE f = "height"
      <4>1. solved = {<<"angle", Form!Difference(v, Distance)>>}
        BY <3>1, <3>2, <3>4
      <4>2. /\ DOMAIN fields = {f, "angle"} /\ fields[f] = v
            /\ fields["angle"] = Form!Difference(v, Distance)
        <5>1. "angle" \in Form!Lengths \ {f}
          BY <3>4 DEF Form!Lengths
        <5> QED BY ONLY <1>4, <4>1, <5>1
      <4> QED BY <1>9, <3>3, <3>4, <4>2
    <3>5. CASE f = "angle"
      <4>1. solved = {<<"height", (Distance + v) % Turns>>}
        BY <3>1, <3>2, <3>5
      <4>2. /\ DOMAIN fields = {f, "height"} /\ fields[f] = v
            /\ fields["height"] = (Distance + v) % Turns
        <5>1. "height" \in Form!Lengths \ {f}
          BY <3>5 DEF Form!Lengths
        <5> QED BY ONLY <1>4, <4>1, <5>1
      <4> QED BY <1>9, <3>5, <4>2
    <3> QED BY <2>4, <3>4, <3>5 DEF Form!Lengths
  <2> QED BY <2>3, <2>4
<1>11. /\ oneLight' \in BOOLEAN /\ zoomTouched' \in BOOLEAN /\ unbound' \in BOOLEAN
       /\ aimed' \in BOOLEAN /\ presetShown' \in CameraPresets \cup {Null}
  BY <1>1 DEF FormInv, Form!TypeOK
<1> QED BY <1>1, <1>8, <1>9, <1>10, <1>11, EditKeeps

\* The other fields: the distance, the height and the angle stay as they are.
LEMMA FieldsKeep ==
  ASSUME FormInv, form # NoForm, Form!Step, NEW fields, Form!onChange(fields),
         DOMAIN fields \subseteq {"zoom", "mode", "preset", "balance"},
         "zoom" \in DOMAIN fields => fields["zoom"] \in (0..MaxZoom) \cup {Null},
         "mode" \in DOMAIN fields => fields["mode"] \in {"AUTO", "MANUAL", Null},
         "preset" \in DOMAIN fields => fields["preset"] \in CameraPresets,
         "balance" \in DOMAIN fields => fields["balance"] \in CameraPresets \cup {Own, Null},
         UNCHANGED <<saved, form, oneLight, presetList, angleLocked, zoomKey, zoomDeps, presetDeps,
                     inPlace, unbound, aimed>>,
         zoomTouched' \in BOOLEAN,
         \/ zoomTouched'
         \/ "zoom" \in DOMAIN fields /\ fields["zoom"] = Fit
         \/ zoomTouched' = zoomTouched /\ "zoom" \notin DOMAIN fields,
         \/ "preset" \in DOMAIN fields /\ presetShown' = fields["preset"]
         \/ "preset" \notin DOMAIN fields /\ presetShown' = presetShown
  PROVE  FormInv'
<1>1. /\ Form!Values("zoom") = 0..MaxZoom /\ Form!Values("mode") = {"AUTO", "MANUAL"}
      /\ Form!Values("preset") = CameraPresets /\ Form!Values("balance") = CameraPresets \cup {Own}
      /\ {"zoom", "mode", "preset", "balance"} \subseteq Form!FormFields
  BY DEF Form!Values, Form!FormFields, Form!Lengths
<1>2. \A f \in {"zoom", "mode", "preset", "balance"} :
        f \in DOMAIN fields => fields[f] \in Form!Values(f) \cup {Null} /\ fields[f] \in Entries
  BY <1>1 DEF Entries
<1>3. \A f \in Form!FormFields :
        f \in DOMAIN fields => fields[f] \in Form!Values(f) \cup {Null} /\ fields[f] \in Entries
  BY <1>2
<1>4. /\ override' \in [Forms -> [Form!FormFields -> Entries]]
      /\ \A i \in Forms, f \in Form!FormFields :
           override'[i][f] \in Form!Values(f) \cup {Null, Absent}
  BY <1>3, ChangeIs
<1>5. /\ Distance' = Distance /\ Height' = Height /\ Angle' = Angle
      /\ Zoom' = IF "zoom" \in DOMAIN fields THEN fields["zoom"] ELSE Zoom
      /\ Bound' = IF "preset" \in DOMAIN fields THEN fields["preset"] ELSE Bound
      /\ "preset" \notin DOMAIN fields => Key' = Key
  <2>1. "distance" \notin DOMAIN fields /\ "height" \notin DOMAIN fields /\ "angle" \notin DOMAIN fields
    OBVIOUS
  <2> QED BY <1>3, <2>1, FieldsAfter
<1>6. Fit' = Fit
  BY <1>5 DEF Fit, Form!computedOpticalZoom, Distance
<1>7. \/ zoomTouched' \/ Zoom' = Fit'
      \/ zoomTouched' = zoomTouched /\ Zoom' = Zoom
  <2>1. CASE zoomTouched'
    BY <2>1
  <2>2. CASE "zoom" \in DOMAIN fields /\ fields["zoom"] = Fit
    BY <1>5, <1>6, <2>2
  <2>3. CASE zoomTouched' = zoomTouched /\ "zoom" \notin DOMAIN fields
    BY <1>5, <2>3
  <2> QED BY <2>1, <2>2, <2>3
<1>8. \/ presetShown' = Bound'
      \/ Key' = Key /\ Bound' = Bound /\ unbound' = unbound /\ presetShown' = presetShown
  BY <1>5
<1>9. aimed' /\ Distance' # Null /\ Height' # Null /\ Angle' # Null
        => Height' = (Distance' + Angle') % Turns
  <2>1. aimed' = aimed
    OBVIOUS
  <2>2. aimed /\ Distance # Null /\ Height # Null /\ Angle # Null => Height = (Distance + Angle) % Turns
    BY DEF FormInv
  <2> QED BY <1>5, <2>1, <2>2
<1>10. /\ oneLight' \in BOOLEAN /\ unbound' \in BOOLEAN
       /\ aimed' \in BOOLEAN /\ presetShown' \in CameraPresets \cup {Null}
  BY DEF FormInv, Form!TypeOK
<1> QED BY <1>4, <1>7, <1>8, <1>9, <1>10, EditKeeps

LEMMA ZoomKeeps ==
  ASSUME FormInv, (\E v \in 1..MaxZoom : Form!setZoom(v)) \/ Form!resetZoom
  PROVE  FormInv'
<1>1. ASSUME NEW v \in 1..MaxZoom, Form!setZoom(v) PROVE FormInv'
  <2> DEFINE fields == [f \in {"zoom"} |-> v]
  <2>1. /\ form # NoForm /\ Form!Step /\ Form!onChange(fields) /\ zoomTouched' = TRUE
        /\ UNCHANGED <<saved, form, oneLight, presetList, angleLocked, zoomKey, zoomDeps, presetDeps,
                       inPlace, unbound, aimed, presetShown>>
    BY <1>1 DEF Form!setZoom
  <2>2. DOMAIN fields = {"zoom"} /\ fields["zoom"] \in 0..MaxZoom
    BY FormFacts
  <2> HIDE DEF fields
  <2> QED BY <2>1, <2>2, FieldsKeep
<1>2. ASSUME Form!resetZoom PROVE FormInv'
  <2> DEFINE fields == [f \in {"zoom"} |-> Fit]
  <2>1. /\ form # NoForm /\ Form!Step /\ Form!onChange(fields) /\ zoomTouched' = FALSE
        /\ UNCHANGED <<saved, form, oneLight, presetList, angleLocked, zoomKey, zoomDeps, presetDeps,
                       inPlace, unbound, aimed, presetShown>>
    BY <1>2 DEF Form!resetZoom, Fit
  <2>2. DOMAIN fields = {"zoom"} /\ fields["zoom"] = Fit /\ Fit \in (0..MaxZoom) \cup {Null}
    BY <2>1, FormIs
  <2> HIDE DEF fields
  <2>3. zoomTouched' \in BOOLEAN
    BY <2>1
  <2> QED BY <2>1, <2>2, <2>3, FieldsKeep
<1> QED BY <1>1, <1>2

LEMMA PresetSelectKeeps ==
  ASSUME FormInv, NEW p \in CameraPresets, Form!handlePresetSelect(p)
  PROVE  FormInv'
<1> DEFINE fields == [mode |-> "MANUAL", preset |-> p, balance |-> p]
<1>1. /\ form # NoForm /\ Form!Step /\ Form!onChange(fields) /\ presetShown' = p
      /\ UNCHANGED <<saved, form, oneLight, presetList, angleLocked, zoomTouched, zoomKey, zoomDeps,
                     presetDeps, inPlace, unbound, aimed>>
  BY DEF Form!handlePresetSelect
<1>2. /\ DOMAIN fields = {"mode", "preset", "balance"}
      /\ fields["mode"] = "MANUAL" /\ fields["preset"] = p /\ fields["balance"] = p
  OBVIOUS
<1> HIDE DEF fields
<1>3. zoomTouched' \in BOOLEAN
  BY <1>1 DEF FormInv, Form!TypeOK
<1> QED BY <1>1, <1>2, <1>3, FieldsKeep

LEMMA BalanceKeeps ==
  ASSUME FormInv, NEW v \in {Own, Null}, Form!setWhiteBalance(v)
  PROVE  FormInv'
<1> DEFINE fields == [f \in {"balance"} |-> v]
<1>1. /\ form # NoForm /\ Form!Step /\ Form!onChange(fields)
      /\ UNCHANGED <<saved, form, oneLight, presetList, angleLocked, zoomTouched, zoomKey, zoomDeps,
                     presetDeps, presetShown, inPlace, unbound, aimed>>
  BY DEF Form!setWhiteBalance, Form!effectVars
<1>2. DOMAIN fields = {"balance"} /\ fields["balance"] = v
  OBVIOUS
<1> HIDE DEF fields
<1>3. zoomTouched' \in BOOLEAN
  BY <1>1 DEF FormInv, Form!TypeOK
<1> QED BY <1>1, <1>2, <1>3, FieldsKeep

LEMMA ModeKeeps ==
  ASSUME FormInv, NEW m \in {"AUTO", Null}, Form!setCameraMode(m)
  PROVE  FormInv'
<1> DEFINE fields == [f \in {"mode"} |-> m]
<1>1. /\ form # NoForm /\ Form!Step /\ Form!onChange(fields)
      /\ UNCHANGED <<saved, form, oneLight, presetList, angleLocked, zoomTouched, zoomKey, zoomDeps,
                     presetDeps, presetShown, inPlace, unbound, aimed>>
  BY DEF Form!setCameraMode, Form!effectVars
<1>2. DOMAIN fields = {"mode"} /\ fields["mode"] = m
  OBVIOUS
<1> HIDE DEF fields
<1>3. zoomTouched' \in BOOLEAN
  BY <1>1 DEF FormInv, Form!TypeOK
<1> QED BY <1>1, <1>2, <1>3, FieldsKeep

\* Manual enters the zoom that fits where the mark is off, and names the default preset.
LEMMA ManualKeeps ==
  ASSUME FormInv, Form!setManual
  PROVE  FormInv'
<1> DEFINE preset == IF DefaultPreset \in presetList
                     THEN {"preset"} \cup (IF Form!resolve(form, "balance") = Null THEN {"balance"} ELSE {})
                     ELSE {}
           fitting == IF ~zoomTouched /\ Fit # Null THEN {"zoom"} ELSE {}
           fields == [f \in {"mode"} \cup preset \cup fitting |->
                        IF f = "mode" THEN "MANUAL" ELSE IF f = "zoom" THEN Fit ELSE DefaultPreset]
<1>1. /\ form # NoForm /\ Form!Step /\ Form!onChange(fields)
      /\ presetShown' = IF preset # {} THEN DefaultPreset ELSE presetShown
      /\ UNCHANGED <<saved, form, oneLight, presetList, angleLocked, zoomTouched, zoomKey, zoomDeps,
                     presetDeps, inPlace, unbound, aimed>>
  BY DEF Form!setManual, Fit
<1>2. /\ preset \subseteq {"preset", "balance"} /\ (preset # {} <=> "preset" \in preset)
      /\ fitting \subseteq {"zoom"}
  OBVIOUS
<1> HIDE DEF preset, fitting
<1>3. /\ DOMAIN fields = {"mode"} \cup preset \cup fitting
      /\ \A f \in DOMAIN fields :
           fields[f] = IF f = "mode" THEN "MANUAL" ELSE IF f = "zoom" THEN Fit ELSE DefaultPreset
  OBVIOUS
<1> HIDE DEF fields
<1>4. DOMAIN fields \subseteq {"zoom", "mode", "preset", "balance"}
  BY <1>2, <1>3
<1>5. /\ "zoom" \in DOMAIN fields => fields["zoom"] = Fit
      /\ "mode" \in DOMAIN fields => fields["mode"] = "MANUAL"
      /\ "preset" \in DOMAIN fields => fields["preset"] = DefaultPreset
      /\ "balance" \in DOMAIN fields => fields["balance"] = DefaultPreset
  BY <1>3
<1>6. Fit \in (0..MaxZoom) \cup {Null} /\ DefaultPreset \in CameraPresets
  BY <1>1, FormIs, FormFacts
<1>7. zoomTouched' \in BOOLEAN
  BY <1>1 DEF FormInv, Form!TypeOK
<1>8. \/ "preset" \in DOMAIN fields /\ presetShown' = fields["preset"]
      \/ "preset" \notin DOMAIN fields /\ presetShown' = presetShown
  BY <1>1, <1>2, <1>3, <1>5
<1>9. zoomTouched' = zoomTouched
  BY <1>1
<1> QED BY <1>1, <1>4, <1>5, <1>6, <1>7, <1>8, <1>9, FieldsKeep

\* Other lights are selected, or no preset is shown: the fields stay as they are.
LEMMA ShownKeeps ==
  ASSUME FormInv, Form!SelectLights \/ Form!handlePresetNone
  PROVE  FormInv'
<1>1. /\ form # NoForm /\ Form!Step
      /\ UNCHANGED <<saved, override, form, presetList, angleLocked, zoomTouched, zoomKey, zoomDeps,
                     presetDeps, inPlace, aimed>>
      /\ \/ UNCHANGED <<unbound, presetShown>>
         \/ unbound' = TRUE /\ presetShown' = Null
      /\ oneLight' \in BOOLEAN
  <2>1. CASE Form!SelectLights
    <3>1. /\ form # NoForm /\ Form!Step
          /\ UNCHANGED <<saved, override, form, presetList, angleLocked, zoomTouched, zoomKey, zoomDeps,
                         presetDeps, inPlace, aimed, unbound, presetShown>>
      BY <2>1 DEF Form!SelectLights, Form!effectVars
    <3>2. oneLight' \in BOOLEAN
      BY <2>1 DEF Form!SelectLights
    <3> QED BY <3>1, <3>2
  <2>2. CASE Form!handlePresetNone
    BY <2>2 DEF Form!handlePresetNone, FormInv, Form!TypeOK
  <2> QED BY <2>1, <2>2
<1>2. /\ Distance' = Distance /\ Height' = Height /\ Angle' = Angle /\ Zoom' = Zoom
      /\ Bound' = Bound /\ Key' = Key
  BY <1>1 DEF Distance, Height, Angle, Zoom, Bound, Key, Form!PresetOf, Form!PresetKey, Form!resolve
<1>3. /\ override' \in [Forms -> [Form!FormFields -> Entries]]
      /\ \A i \in Forms, f \in Form!FormFields :
           override'[i][f] \in Form!Values(f) \cup {Null, Absent}
  BY <1>1 DEF FormInv, Form!TypeOK
<1>4. /\ oneLight' \in BOOLEAN /\ zoomTouched' \in BOOLEAN /\ aimed' \in BOOLEAN
      /\ unbound' \in BOOLEAN /\ presetShown' \in CameraPresets \cup {Null}
  BY <1>1 DEF FormInv, Form!TypeOK
<1>5. aimed' /\ Distance' # Null /\ Height' # Null /\ Angle' # Null
        => Height' = (Distance' + Angle') % Turns
  <2>1. aimed /\ Distance # Null /\ Height # Null /\ Angle # Null => Height = (Distance + Angle) % Turns
    BY <1>1 DEF FormInv
  <2>2. aimed' = aimed
    BY <1>1
  <2> QED BY <1>2, <2>1, <2>2
<1>6. \/ unbound'
      \/ Key' = Key /\ Bound' = Bound /\ unbound' = unbound /\ presetShown' = presetShown
  <2>1. CASE UNCHANGED <<unbound, presetShown>>
    BY <1>2, <2>1
  <2>2. CASE unbound' = TRUE
    BY <2>2
  <2> QED BY <1>1, <2>1, <2>2
<1>7. zoomTouched' = zoomTouched /\ Zoom' = Zoom
  BY <1>1, <1>2
<1> QED BY <1>1, <1>3, <1>4, <1>5, <1>6, <1>7, EditKeeps

\* The effects see the zoom and the preset of the form, enter the one and show the other.
LEMMA EffectsKeep ==
  ASSUME FormInv, form # NoForm, Form!RunEffects
  PROVE  FormInv'
<1> DEFINE touched == IF zoomKey[1] # form THEN Form!Seeded(form) ELSE zoomTouched /\ zoomKey[2] = Distance
           fires == /\ <<Fit, zoomTouched>> # zoomDeps /\ ~zoomTouched
                    /\ Fit # Null /\ Fit # Zoom
<1>1. /\ ~settled
      /\ zoomKey' = <<form, Distance>> /\ zoomDeps' = <<Fit, zoomTouched>>
      /\ override' = IF fires THEN [override EXCEPT ![form]["zoom"] = Fit] ELSE override
      /\ presetDeps' = Key
      /\ presetShown' = IF presetDeps # Key THEN Bound ELSE presetShown
      /\ UNCHANGED <<saved, form, oneLight, presetList, angleLocked, fedits, inPlace, aimed>>
  BY DEF Form!RunEffects, Fit, Distance, Zoom, Key, Bound
<1>2. /\ zoomTouched' = touched /\ unbound' = (unbound /\ presetDeps = Key)
      /\ settled' = (touched = zoomTouched /\ ~fires)
  BY Zenon DEF Form!RunEffects, Fit, Distance, Zoom, Key
<1>3. /\ form \in Forms /\ Distance \in Form!Numbers \cup {Null}
      /\ Fit \in (0..MaxZoom) \cup {Null} /\ Fit # Absent /\ Bound \in CameraPresets \cup {Null}
  BY FormIs
<1>4. Form!TypeOK /\ override \in [Forms -> [Form!FormFields -> Entries]]
  BY DEF FormInv
<1>5. zoomTouched \in BOOLEAN /\ unbound \in BOOLEAN /\ touched \in BOOLEAN /\ fires \in BOOLEAN
  <2>1. zoomTouched \in BOOLEAN /\ unbound \in BOOLEAN
    BY <1>4 DEF Form!TypeOK
  <2>2. touched \in BOOLEAN
    BY Zenon DEF Form!Seeded
  <2>3. fires \in BOOLEAN
    BY Zenon
  <2> QED BY <2>1, <2>2, <2>3
<1>6. "zoom" \in Form!FormFields /\ Form!Values("zoom") = 0..MaxZoom
  BY DEF Form!FormFields, Form!Values, Form!Lengths
<1>7. fires => Fit # Null /\ Fit # Absent
  BY <1>3
<1>8. fires => <<Fit, zoomTouched>> # zoomDeps /\ ~zoomTouched
  OBVIOUS
<1>9. ~fires /\ ~zoomTouched /\ Fit # Null => zoomDeps = <<Fit, zoomTouched>> \/ Zoom = Fit
  OBVIOUS
<1> HIDE DEF touched, fires
<1>10. /\ override' \in [Forms -> [Form!FormFields -> Entries]]
       /\ \A i \in Forms, f \in Form!FormFields :
            override'[i][f] \in Form!Values(f) \cup {Null, Absent}
       /\ \A f \in Form!FormFields : override'[form][f] = IF fires /\ f = "zoom" THEN Fit ELSE override[form][f]
  <2>1. CASE fires
    <3>1. override' = [override EXCEPT ![form] = [override[form] EXCEPT !["zoom"] = Fit]]
      BY <1>1, <1>3, <1>4, <2>1
    <3>2. Fit \in Entries
      BY <1>3 DEF Entries
    <3> DEFINE row == [override[form] EXCEPT !["zoom"] = Fit]
    <3>3. /\ row \in [Form!FormFields -> Entries]
          /\ \A f \in Form!FormFields : row[f] = IF f = "zoom" THEN Fit ELSE override[form][f]
      BY <1>3, <1>4, <1>6, <3>2
    <3>4. \A i \in Forms, f \in Form!FormFields : override[i][f] \in Form!Values(f) \cup {Null, Absent}
      BY <1>4 DEF Form!TypeOK
    <3>5. \A f \in Form!FormFields : row[f] \in Form!Values(f) \cup {Null, Absent}
      BY <1>3, <1>6, <3>3, <3>4
    <3>6. override' = [override EXCEPT ![form] = row]
      BY <3>1
    <3> HIDE DEF row
    <3> QED BY <1>3, <1>4, <2>1, <3>3, <3>4, <3>5, <3>6
  <2>2. CASE ~fires
    BY <1>1, <1>4, <2>2 DEF Form!TypeOK
  <2> QED BY <2>1, <2>2
<1>11. /\ Distance' = Distance /\ Height' = Height /\ Angle' = Angle /\ Bound' = Bound /\ Key' = Key
       /\ Zoom' = IF fires THEN Fit ELSE Zoom
  <2>1. \A f \in {"distance", "height", "angle", "preset"} :
          f \in Form!FormFields /\ override'[form][f] = override[form][f]
    BY <1>10 DEF Form!FormFields, Form!Lengths
  <2>2. override'[form]["zoom"] = IF fires THEN Fit ELSE override[form]["zoom"]
    BY <1>6, <1>10
  <2>3. saved' = saved /\ form' = form
    BY <1>1
  <2>4. /\ Distance' = Distance /\ Height' = Height /\ Angle' = Angle /\ Bound' = Bound /\ Key' = Key
    BY <2>1, <2>3 DEF Distance, Height, Angle, Bound, Key, Form!PresetOf, Form!PresetKey, Form!resolve
  <2>5. Zoom' = IF fires THEN Fit ELSE Zoom
    BY <1>7, <2>2, <2>3 DEF Zoom, Form!resolve
  <2> QED BY <2>4, <2>5
<1>12. Fit' = Fit
  BY <1>1, <1>11 DEF Fit, Form!computedOpticalZoom, Distance
<1>13. zoomTouched' \in BOOLEAN /\ unbound' \in BOOLEAN /\ settled' \in BOOLEAN
  <2>1. zoomTouched' \in BOOLEAN
    BY <1>2, <1>5
  <2>2. unbound' \in BOOLEAN
    BY <1>2, Zenon
  <2>3. settled' \in BOOLEAN
    BY <1>2, Zenon
  <2> QED BY <2>1, <2>2, <2>3
<1>14. Form!TypeOK'
  <2>1. zoomKey' \in (Forms \cup {NoForm}) \X (Form!Numbers \cup {Null})
    BY <1>1, <1>3
  <2>2. presetShown' \in CameraPresets \cup {Null}
    BY <1>1, <1>3, <1>4 DEF Form!TypeOK
  <2>3. /\ \A i \in Forms, f \in Form!FormFields : saved'[i][f] \in Form!Values(f) \cup {Null}
        /\ form' \in Forms \cup {NoForm} /\ oneLight' \in BOOLEAN
        /\ presetList' \subseteq CameraPresets /\ angleLocked' \in BOOLEAN /\ fedits' \in 0..MaxEdits
        /\ inPlace' \in BOOLEAN /\ aimed' \in BOOLEAN
    BY <1>1, <1>4 DEF Form!TypeOK
  <2>4. {inPlace', unbound', aimed'} \subseteq BOOLEAN
    BY <1>13, <2>3
  <2> QED BY <1>10, <1>13, <2>1, <2>2, <2>3, <2>4 DEF Form!TypeOK
<1>15. ASSUME ~inPlace', ~zoomTouched', zoomDeps' = <<Fit', FALSE>>, Fit' # Null
       PROVE  Zoom' = Fit'
  <2>1. ~zoomTouched /\ Fit # Null /\ ~inPlace
    <3>1. zoomTouched = FALSE
      <4>1. <<Fit, zoomTouched>> = <<Fit', FALSE>>
        BY <1>1, <1>15
      <4> QED BY <4>1
    <3>2. inPlace' = inPlace
      BY <1>1
    <3> QED BY <1>12, <1>15, <3>1, <3>2
  <2>2. CASE fires
    BY <1>11, <1>12, <2>2
  <2>3. CASE ~fires /\ Zoom = Fit
    BY <1>11, <1>12, <2>3
  <2>4. CASE ~fires /\ zoomDeps = <<Fit, zoomTouched>>
    <3>1. zoomDeps = <<Fit, FALSE>>
      BY <1>5, <2>1, <2>4
    <3>2. Zoom = Fit
      BY <2>1, <3>1 DEF FormInv
    <3> QED BY <1>11, <1>12, <2>4, <3>2
  <2> QED BY <1>9, <2>1, <2>2, <2>3, <2>4
<1>16. settled' => zoomDeps' = <<Fit', zoomTouched'>>
  <2>1. SUFFICES ASSUME settled' PROVE zoomDeps' = <<Fit', zoomTouched'>>
    OBVIOUS
  <2>2. touched = zoomTouched
    BY <1>2, <2>1, Zenon
  <2>3. zoomTouched' = zoomTouched
    BY <1>2, <2>2
  <2> QED BY <1>1, <1>12, <2>3
<1>17. ~unbound' /\ presetDeps' = Key' => presetShown' = Bound'
  <2>1. SUFFICES ASSUME ~unbound' PROVE presetShown' = Bound'
    OBVIOUS
  <2>2. CASE presetDeps # Key
    BY <1>1, <1>11, <2>2
  <2>3. CASE presetDeps = Key
    <3>1. ~unbound
      BY <1>2, <2>1, <2>3, Zenon
    <3>2. presetShown = Bound
      BY <2>3, <3>1 DEF FormInv
    <3> QED BY <1>1, <1>11, <2>3, <3>2
  <2> QED BY <2>2, <2>3
<1>18. aimed' /\ Distance' # Null /\ Height' # Null /\ Angle' # Null
         => Height' = (Distance' + Angle') % Turns
  <2>1. aimed /\ Distance # Null /\ Height # Null /\ Angle # Null => Height = (Distance + Angle) % Turns
    BY DEF FormInv
  <2>2. aimed' = aimed
    BY <1>1
  <2> QED BY <1>11, <2>1, <2>2
<1>19. presetDeps' = Key' /\ form' # NoForm
  BY <1>1, <1>11
<1> QED BY <1>10, <1>14, <1>15, <1>16, <1>17, <1>18, <1>19 DEF FormInv

LEMMA MountKeeps ==
  ASSUME FormInv, NEW i \in Forms, Form!Mount(i)
  PROVE  FormInv'
<1>1. /\ form = NoForm /\ form' = i /\ settled' = FALSE
      /\ zoomKey' = <<i, Form!resolve(i, "distance")>>
      /\ zoomDeps' = <<Absent, FALSE>> /\ presetDeps' = <<Absent, Absent>>
      /\ presetShown' = Form!PresetOf(i) /\ angleLocked' = FALSE
      /\ inPlace' = FALSE /\ unbound' = FALSE /\ aimed' = FALSE
      /\ UNCHANGED <<saved, override, oneLight, presetList, fedits>>
  BY DEF Form!Mount
<1>2. zoomTouched' \in BOOLEAN
  BY DEF Form!Mount, Form!Seeded
<1>3. Form!TypeOK /\ override \in [Forms -> [Form!FormFields -> Entries]]
  BY DEF FormInv
<1>4. Form!TypeOK'
  <2>1. zoomKey' \in (Forms \cup {NoForm}) \X (Form!Numbers \cup {Null})
    BY <1>1, <1>3, FieldsAre
  <2>2. presetShown' \in CameraPresets \cup {Null}
    BY <1>1, <1>3, FieldsAre DEF Form!PresetOf
  <2>3. {inPlace', unbound', aimed'} \subseteq BOOLEAN
    BY <1>1
  <2>4. settled' \in BOOLEAN /\ angleLocked' \in BOOLEAN
    BY <1>1
  <2> QED BY <1>1, <1>2, <1>3, <2>1, <2>2, <2>3, <2>4 DEF Form!TypeOK
<1>5. Fit' \in (0..MaxZoom) \cup {Null}
  <2>1. form' \in Forms
    BY <1>1
  <2>2. Fit' = Form!computedOpticalZoom(i)
    BY <1>1 DEF Fit, Form!computedOpticalZoom, Form!resolve
  <2> QED BY <1>3, <2>2, FieldsAre
<1>6. zoomDeps' # <<Fit', FALSE>>
  BY <1>1, <1>5, FormFacts
<1>7. presetShown' = Bound'
  BY <1>1 DEF Bound, Form!PresetOf, Form!resolve
<1>8. form' # NoForm
  BY <1>1, FormFacts
<1> QED BY <1>1, <1>3, <1>4, <1>6, <1>7, <1>8 DEF FormInv

\* The form of another inspection shows the preset of this one until the effects see the other.
LEMMA SwitchKeeps ==
  ASSUME FormInv, NEW i \in Forms, Form!Switch(i)
  PROVE  FormInv'
<1>1. /\ form # NoForm /\ Form!Step /\ form' = i /\ inPlace' = TRUE /\ aimed' = FALSE
      /\ UNCHANGED <<saved, override, oneLight, presetList, zoomTouched, zoomKey, zoomDeps, presetDeps,
                     presetShown, angleLocked, unbound>>
  BY DEF Form!Switch, Form!effectVars
<1>2. settled /\ fedits < MaxEdits /\ fedits' = fedits + 1 /\ settled' = FALSE
  BY <1>1 DEF Form!Step
<1>3. Form!TypeOK /\ override \in [Forms -> [Form!FormFields -> Entries]]
  BY DEF FormInv
<1>4. Form!TypeOK'
  <2>1. fedits' \in 0..MaxEdits
    BY <1>2, <1>3, FormFacts DEF Form!TypeOK
  <2>2. {inPlace', unbound', aimed'} \subseteq BOOLEAN
    BY <1>1, <1>3 DEF Form!TypeOK
  <2>3. settled' \in BOOLEAN
    BY <1>2
  <2> QED BY <1>1, <1>3, <2>1, <2>2, <2>3 DEF Form!TypeOK
<1>5. ~unbound' /\ presetDeps' = Key' => presetShown' = Bound'
  <2>1. SUFFICES ASSUME ~unbound', presetDeps' = Key' PROVE presetShown' = Bound'
    OBVIOUS
  <2>2. presetDeps = Key
    BY <1>1, <1>2 DEF FormInv
  <2>3. ~unbound
    <3>1. unbound' = unbound
      BY <1>1
    <3> QED BY <2>1, <3>1
  <2>4. presetShown = Bound
    BY <1>1, <2>2, <2>3 DEF FormInv
  <2>5. Key' = Key
    BY <1>1, <2>1, <2>2
  <2>6. /\ override'[form']["preset"] = override[form]["preset"]
        /\ saved'[form']["preset"] = saved[form]["preset"]
    BY <2>5 DEF Key, Form!PresetKey
  <2>7. Bound' = Bound
    BY <2>6 DEF Bound, Form!PresetOf, Form!resolve
  <2> QED BY <1>1, <2>4, <2>7
<1>6. form' # NoForm
  BY <1>1, FormFacts
<1> QED BY <1>1, <1>2, <1>3, <1>4, <1>5, <1>6 DEF FormInv

LEMMA DeselectKeeps ==
  ASSUME FormInv, Form!Deselect
  PROVE  FormInv'
<1>1. /\ form # NoForm /\ settled /\ form' = NoForm
      /\ presetList' = {} /\ presetShown' = Null /\ angleLocked' = FALSE
      /\ zoomTouched' = FALSE /\ zoomKey' = <<NoForm, Null>>
      /\ inPlace' = FALSE /\ unbound' = FALSE /\ aimed' = FALSE
      /\ UNCHANGED <<saved, override, oneLight, settled, fedits>>
  BY DEF Form!Deselect
<1>2. Form!TypeOK /\ override \in [Forms -> [Form!FormFields -> Entries]]
  BY DEF FormInv
<1>3. Form!TypeOK'
  <2>1. zoomKey' \in (Forms \cup {NoForm}) \X (Form!Numbers \cup {Null})
    BY <1>1
  <2>2. {inPlace', unbound', aimed'} \subseteq BOOLEAN
    BY <1>1
  <2>3. zoomTouched' \in BOOLEAN /\ angleLocked' \in BOOLEAN
    BY <1>1
  <2> QED BY <1>1, <1>2, <2>1, <2>2, <2>3 DEF Form!TypeOK
<1>4. settled'
  BY <1>1
<1> QED BY <1>1, <1>2, <1>3, <1>4 DEF FormInv

\* The list of presets arrives or the lock is turned: no field changes.
LEMMA LockAndListKeep ==
  ASSUME FormInv, Form!onAngleLockedToggle \/ Form!PresetsArrive
  PROVE  FormInv'
<1>1. /\ form # NoForm /\ settled
      /\ UNCHANGED <<saved, override, form, oneLight, zoomTouched, zoomKey, zoomDeps, presetDeps,
                     presetShown, settled, fedits, inPlace, unbound>>
      /\ aimed' = aimed \/ aimed' = FALSE
      /\ presetList' \subseteq CameraPresets
      /\ angleLocked' \in BOOLEAN
  <2>1. CASE Form!onAngleLockedToggle
    <3>1. angleLocked' \in BOOLEAN
      BY <2>1 DEF Form!onAngleLockedToggle
    <3>2. presetList' \subseteq CameraPresets
      BY <2>1 DEF Form!onAngleLockedToggle, FormInv, Form!TypeOK
    <3> QED BY <2>1, <3>1, <3>2 DEF Form!onAngleLockedToggle, Form!effectVars
  <2>2. CASE Form!PresetsArrive
    <3>1. angleLocked' \in BOOLEAN
      BY <2>2 DEF Form!PresetsArrive, FormInv, Form!TypeOK
    <3>2. presetList' \subseteq CameraPresets
      BY <2>2 DEF Form!PresetsArrive
    <3> QED BY <2>2, <3>1, <3>2 DEF Form!PresetsArrive, Form!effectVars
  <2> QED BY <2>1, <2>2
<1>2. /\ Distance' = Distance /\ Height' = Height /\ Angle' = Angle /\ Zoom' = Zoom
      /\ Bound' = Bound /\ Key' = Key
  BY <1>1 DEF Distance, Height, Angle, Zoom, Bound, Key, Form!PresetOf, Form!PresetKey, Form!resolve
<1>3. Fit' = Fit
  BY <1>1, <1>2 DEF Fit, Form!computedOpticalZoom, Distance
<1>4. Form!TypeOK'
  <2>1. {inPlace', unbound', aimed'} \subseteq BOOLEAN
    BY <1>1 DEF FormInv, Form!TypeOK
  <2> QED BY <1>1, <2>1 DEF FormInv, Form!TypeOK
<1>5. aimed' => aimed
  BY <1>1
<1> QED BY <1>1, <1>2, <1>3, <1>4, <1>5 DEF FormInv

\* A saved configuration is the one that was shown.
LEMMA SaveKeeps ==
  ASSUME FormInv, Form!Save
  PROVE  FormInv'
<1>1. /\ settled /\ fedits < MaxEdits /\ fedits' = fedits + 1
      /\ saved' = [i \in Forms |-> [f \in Form!FormFields |-> Form!resolve(i, f)]]
      /\ override' = [i \in Forms |-> [f \in Form!FormFields |-> Absent]]
      /\ UNCHANGED <<form, oneLight, presetList, zoomTouched, zoomKey, zoomDeps, presetDeps,
                     presetShown, angleLocked, inPlace, unbound, aimed>>
  BY DEF Form!Save, Form!effectVars, Form!Untouched
<1>2. settled' <=> form = NoForm
  BY DEF Form!Save
<1>3. settled' \in BOOLEAN
  BY DEF Form!Save
<1>4. Form!TypeOK
  BY DEF FormInv
<1>5. \A i \in Forms, f \in Form!FormFields :
        /\ saved'[i][f] = Form!resolve(i, f) /\ override'[i][f] = Absent
  BY <1>1
<1>6. override' \in [Forms -> [Form!FormFields -> Entries]]
  BY <1>1 DEF Entries
<1>7. Form!TypeOK'
  <2>1. \A i \in Forms, f \in Form!FormFields :
          /\ saved'[i][f] \in Form!Values(f) \cup {Null}
          /\ override'[i][f] \in Form!Values(f) \cup {Null, Absent}
    BY <1>4, <1>5, FieldsAre
  <2>2. fedits' \in 0..MaxEdits
    BY <1>1, <1>4, FormFacts DEF Form!TypeOK
  <2>3. {inPlace', unbound', aimed'} \subseteq BOOLEAN
    BY <1>1, <1>4 DEF Form!TypeOK
  <2> QED BY <1>1, <1>3, <1>4, <2>1, <2>2, <2>3 DEF Form!TypeOK
<1>8. CASE form = NoForm
  BY <1>1, <1>2, <1>6, <1>7, <1>8 DEF FormInv
<1>9. CASE form # NoForm
  <2>1. form \in Forms /\ form' = form
    BY <1>1, <1>9, FormIs
  <2>2. {"distance", "height", "angle", "zoom", "preset"} \subseteq Form!FormFields
    BY DEF Form!FormFields, Form!Lengths
  <2>3. /\ Distance' = Distance /\ Height' = Height /\ Angle' = Angle /\ Zoom' = Zoom
        /\ Bound' = Bound
    BY <1>5, <2>1, <2>2 DEF Distance, Height, Angle, Zoom, Bound, Form!PresetOf, Form!resolve
  <2>4. Fit' = Fit
    BY <1>1, <2>3 DEF Fit, Form!computedOpticalZoom, Distance
  <2>5. ~unbound' => presetShown' = Bound'
    <3>1. SUFFICES ASSUME ~unbound' PROVE presetShown' = Bound'
      OBVIOUS
    <3>2. ~unbound
      BY <1>1, <3>1
    <3>3. presetShown = Bound
      BY <1>1, <1>9, <3>2 DEF FormInv
    <3> QED BY <1>1, <2>3, <3>3
  <2>6. /\ aimed /\ Distance # Null /\ Height # Null /\ Angle # Null => Height = (Distance + Angle) % Turns
        /\ ~inPlace /\ ~zoomTouched /\ zoomDeps = <<Fit, FALSE>> /\ Fit # Null => Zoom = Fit
    BY <1>9 DEF FormInv
  <2>7. ~settled'
    BY <1>2, <1>9
  <2>8. aimed' = aimed /\ inPlace' = inPlace /\ zoomTouched' = zoomTouched /\ zoomDeps' = zoomDeps
    BY <1>1
  <2>9. aimed' /\ Distance' # Null /\ Height' # Null /\ Angle' # Null
          => Height' = (Distance' + Angle') % Turns
    BY <2>3, <2>6, <2>8
  <2>10. ~inPlace' /\ ~zoomTouched' /\ zoomDeps' = <<Fit', FALSE>> /\ Fit' # Null => Zoom' = Fit'
    BY <2>3, <2>4, <2>6, <2>8
  <2> QED BY <1>6, <1>7, <1>9, <2>1, <2>5, <2>7, <2>9, <2>10 DEF FormInv
<1> QED BY <1>8, <1>9

LEMMA FormKeeps ==
  ASSUME FormInv, [Form!Next]_formVars
  PROVE  FormInv'
<1>1. CASE UNCHANGED formVars
  BY <1>1 DEF formVars, FormInv, Form!TypeOK, Zoom, Fit, Key, Bound, Distance, Height, Angle,
              Form!resolve, Form!computedOpticalZoom, Form!PresetKey, Form!PresetOf
<1>2. CASE Form!Inspection
  BY <1>2, MountKeeps, SwitchKeeps, DeselectKeeps, ShownKeeps DEF Form!Inspection
<1>3. CASE Form!HoverFields
  BY <1>3, AngleLockKeeps, LockAndListKeep DEF Form!HoverFields
<1>4. CASE Form!CameraSettings
  BY <1>4, ZoomKeeps, PresetSelectKeeps, ShownKeeps, BalanceKeeps, ModeKeeps, ManualKeeps
     DEF Form!CameraSettings
<1>5. CASE Form!RunEffects
  <2>1. form # NoForm
    BY <1>5 DEF Form!RunEffects, FormInv
  <2> QED BY <1>5, <2>1, EffectsKeep
<1>6. CASE Form!PresetsArrive \/ Form!Save
  BY <1>6, LockAndListKeep, SaveKeeps
<1> QED BY <1>1, <1>2, <1>3, <1>4, <1>5, <1>6 DEF Form!Next

LEMMA FormHolds == Spec => [](page = "form" => FormInv)
<1>1. Init => (page = "form" => FormInv)
  BY FormStart DEF Init
<1>2. (page = "form" => FormInv)
        /\ [Next]_<<page, tabsVars, exportVars, fieldVars, hubVars, uploadVars, reviewVars, formVars>>
      => (page = "form" => FormInv)'
  BY FormKeeps DEF Next
<1> QED BY <1>1, <1>2, PTL DEF Spec

\* The results shown, those awaited and the boxes confirmed are of the run under review, whatever
\* another run did meanwhile (ResultsTab, VideoInspectDialog); the automatic zoom, the triangle
\* with the lock on and the preset shown fit what was entered, in whatever order the operator's
\* edits and the effects they trigger come (InspectionConfigForm, useAngleLock).
THEOREM DerivedFits == Spec => []ReviewFits
<1>1. ReviewInv => Review!ResultsOfRun /\ Review!AwaitedIsSelected /\ Review!BoxesOfRun
  BY DEF ReviewInv
<1>2. FormInv => Form!ZoomFollows
  <2>1. SUFFICES ASSUME FormInv, form # NoForm, settled, ~zoomTouched, ~inPlace, Fit # Null
                 PROVE  Zoom = Fit
    BY DEF Form!ZoomFollows, Zoom, Fit
  <2>2. zoomDeps = <<Fit, zoomTouched>>
    BY <2>1 DEF FormInv
  <2>3. zoomTouched = FALSE
    BY <2>1 DEF FormInv, Form!TypeOK
  <2> QED BY <2>1, <2>2, <2>3 DEF FormInv
<1>3. FormInv => Form!TriangleHolds
  <2>1. SUFFICES ASSUME FormInv, form # NoForm, aimed, Distance # Null, Height # Null, Angle # Null
                 PROVE  Height = (Distance + Angle) % Turns
    BY DEF Form!TriangleHolds, Distance, Height, Angle, Form!Lengths
  <2> QED BY <2>1 DEF FormInv
<1>4. FormInv => Form!PresetIsBound
  BY DEF FormInv, Form!PresetIsBound, Bound
<1>5. (page = "review" => ReviewInv) /\ (page = "form" => FormInv) => ReviewFits
  BY <1>1, <1>2, <1>3, <1>4 DEF ReviewFits
<1> QED BY <1>5, ReviewHolds, FormHolds, PTL

-----------------------------------------------------------------------------
(* The field operations page *)

\* A file has one chain under way, and a chain that has moved its file finds it there.
FieldInv ==
  /\ Field!TypeOK /\ Field!OfferedAreMissions /\ Field!MeasuredIsAttached
  /\ link.file = NoLink => link.missionId = NoLink
  /\ ~crossedChains => \A c, d \in chains : c.file = d.file => c = d
  /\ ~crossedChains => \A c \in chains : c.step = "measure" => attached[c.file] = c.to

LEMMA FieldFacts ==
  /\ missionOf \in [FieldInspections -> FieldMissions]
  /\ NoLink \notin Media /\ NoLink \notin FieldMissions /\ NoLink \notin FieldInspections
BY WorkspaceAssumption DEF Field!FieldOpsAssumption

LEMMA FieldStart == ASSUME Field!Init PROVE FieldInv
<1>1. /\ assigned \in [Media -> FieldMissions \cup {NoLink}] /\ rows = assigned
      /\ attached = [f \in Media |-> NoLink]
      /\ link = [file |-> NoLink, missionId |-> NoLink, inspectionId |-> NoLink, inspections |-> {},
                 inspectionsLoading |-> FALSE, submitting |-> FALSE, measurementId |-> NoLink]
      /\ inspectionLoads = {} /\ chains = {} /\ crossedChains = FALSE /\ strayAttach = FALSE
  BY DEF Field!Init, Field!Closed
<1>2. link \in Field!LinkState
  BY <1>1 DEF Field!LinkState
<1>3. Field!TypeOK
  BY <1>1, <1>2 DEF Field!TypeOK
<1> QED BY <1>1, <1>3 DEF FieldInv, Field!OfferedAreMissions, Field!MeasuredIsAttached

\* Another mission is chosen in a control: it offers nothing yet.
LEMMA ChoosingIs ==
  ASSUME NEW l \in Field!LinkState, NEW m \in FieldMissions \cup {NoLink}
  PROVE  /\ Field!Choosing(l, m) \in Field!LinkState
         /\ Field!Choosing(l, m).inspections = {} /\ Field!Choosing(l, m).inspectionId = NoLink
         /\ Field!Choosing(l, m).file = l.file
<1>1. (m # NoLink) \in BOOLEAN
  OBVIOUS
<1> DEFINE waits == (m # NoLink)
<1>2. Field!Choosing(l, m) =
        [l EXCEPT !.missionId = m, !.inspectionId = NoLink, !.inspections = {},
                  !.inspectionsLoading = waits, !.measurementId = NoLink]
  BY DEF Field!Choosing
<1> HIDE DEF waits
<1>3. waits \in BOOLEAN
  BY <1>1 DEF waits
<1> QED BY <1>2, <1>3 DEF Field!LinkState

\* The row's control alone changes.
LEMMA ControlKeeps ==
  ASSUME FieldInv, UNCHANGED <<assigned, attached, rows, chains, crossedChains, strayAttach>>,
         link' \in Field!LinkState, link'.file = NoLink => link'.missionId = NoLink,
         \A i \in link'.inspections : missionOf[i] = link'.missionId,
         link'.inspectionId \in link'.inspections \cup {NoLink},
         inspectionLoads' \subseteq (Media \X FieldMissions)
  PROVE  FieldInv'
<1>1. Field!TypeOK'
  BY DEF FieldInv, Field!TypeOK
<1>2. Field!OfferedAreMissions'
  <2>1. link'.inspections \subseteq FieldInspections
    BY DEF Field!LinkState
  <2>2. \A i \in link'.inspections : i \in {j \in FieldInspections : missionOf[j] = link'.missionId}
    BY <2>1
  <2> QED BY <2>2 DEF Field!OfferedAreMissions, Field!InspectionsOf
<1>3. Field!MeasuredIsAttached'
  BY DEF FieldInv, Field!MeasuredIsAttached
<1>4. crossedChains' = crossedChains
  OBVIOUS
<1>5. /\ ~crossedChains' => \A c, d \in chains' : c.file = d.file => c = d
      /\ ~crossedChains' => \A c \in chains' : c.step = "measure" => attached'[c.file] = c.to
  BY <1>4 DEF FieldInv
<1> QED BY <1>1, <1>2, <1>3, <1>5 DEF FieldInv

\* What a control that was opened, or asks for a mission, shows.
LEMMA ChosenKeeps ==
  ASSUME FieldInv, NEW l \in Field!LinkState, NEW m \in FieldMissions \cup {NoLink},
         l.file \in Media,
         link' = Field!Choosing(l, m), inspectionLoads' = Field!Asked(l.file, m),
         UNCHANGED <<assigned, attached, rows, chains, crossedChains, strayAttach>>
  PROVE  FieldInv'
<1>1. /\ link' \in Field!LinkState /\ link'.inspections = {} /\ link'.inspectionId = NoLink
      /\ link'.file \in Media /\ link'.file # NoLink
  BY ChoosingIs, FieldFacts
<1>2. inspectionLoads' \subseteq (Media \X FieldMissions)
  BY DEF Field!Asked, FieldInv, Field!TypeOK
<1> QED BY <1>1, <1>2, ControlKeeps

LEMMA RowControlKeeps ==
  ASSUME FieldInv, Field!RowControl
  PROVE  FieldInv'
<1>1. /\ link \in Field!LinkState /\ rows \in [Media -> FieldMissions \cup {NoLink}]
      /\ inspectionLoads \subseteq (Media \X FieldMissions)
      /\ chains \subseteq [file : Media, to : FieldInspections, step : Field!Steps]
      /\ link.file = NoLink => link.missionId = NoLink
      /\ link.inspections \subseteq Field!InspectionsOf(link.missionId)
      /\ link.inspectionId \in link.inspections \cup {NoLink}
  BY DEF FieldInv, Field!TypeOK, Field!OfferedAreMissions
<1>2. /\ Field!Closed \in Field!LinkState /\ Field!Closed.inspections = {}
      /\ Field!Closed.inspectionId = NoLink /\ Field!Closed.missionId = NoLink
  BY DEF Field!LinkState, Field!Closed
<1>3. ASSUME NEW f \in Media, Field!openLink(f) PROVE FieldInv'
  <2> DEFINE l == [Field!Closed EXCEPT !.file = f]
  <2>1. l \in Field!LinkState /\ l.file = f
    BY <1>2 DEF Field!LinkState
  <2>2. rows[f] \in FieldMissions \cup {NoLink}
    BY <1>1
  <2>3. /\ link' = Field!Choosing(l, rows[f])
        /\ inspectionLoads' = Field!Asked(l.file, rows[f])
        /\ UNCHANGED <<assigned, attached, rows, chains, crossedChains, strayAttach>>
    BY <1>3, <2>1 DEF Field!openLink, Field!mediaVars
  <2> HIDE DEF l
  <2> QED BY <2>1, <2>2, <2>3, ChosenKeeps
<1>4. ASSUME NEW m \in FieldMissions \cup {NoLink},
             Field!onMissionChange(m) \/ (Field!retryInspections /\ m = link.missionId)
      PROVE  FieldInv'
  <2>1. link.file # NoLink
    BY <1>1, <1>4 DEF Field!onMissionChange, Field!retryInspections
  <2>2. link.file \in Media
    BY <1>1, <2>1 DEF Field!LinkState
  <2>3. /\ link' = Field!Choosing(link, m) /\ inspectionLoads' = Field!Asked(link.file, m)
        /\ UNCHANGED <<assigned, attached, rows, chains, crossedChains, strayAttach>>
    BY <1>4 DEF Field!onMissionChange, Field!retryInspections, Field!mediaVars
  <2> QED BY <1>1, <2>2, <2>3, ChosenKeeps
<1>5. ASSUME Field!retryInspections PROVE FieldInv'
  <2>1. link.missionId \in FieldMissions \cup {NoLink}
    BY <1>1 DEF Field!LinkState
  <2> QED BY <1>4, <1>5, <2>1
<1>6. ASSUME Field!setLink PROVE FieldInv'
  <2>1. /\ link' = Field!Closed
        /\ UNCHANGED <<assigned, attached, rows, inspectionLoads, chains, crossedChains, strayAttach>>
    BY <1>6 DEF Field!setLink, Field!mediaVars
  <2> QED BY <1>1, <1>2, <2>1, ControlKeeps
<1>7. ASSUME NEW i \in FieldInspections, Field!chooseInspection(i) PROVE FieldInv'
  <2>1. /\ i \in link.inspections /\ link' = [link EXCEPT !.inspectionId = i]
        /\ UNCHANGED <<assigned, attached, rows, inspectionLoads, chains, crossedChains, strayAttach>>
    BY <1>7 DEF Field!chooseInspection, Field!mediaVars
  <2>2. /\ link' \in Field!LinkState /\ link'.inspectionId = i /\ link'.inspections = link.inspections
        /\ link'.file = link.file /\ link'.missionId = link.missionId
    BY <1>1, <2>1 DEF Field!LinkState
  <2>3. \A j \in link'.inspections : missionOf[j] = link'.missionId
    BY <1>1, <2>2 DEF Field!InspectionsOf
  <2> QED BY <1>1, <2>1, <2>2, <2>3, ControlKeeps
<1>8. ASSUME Field!handleLinkConfirm PROVE FieldInv'
  <2> DEFINE step == IF rows[link.file] = link.missionId THEN "move" ELSE "assign"
             new == [file |-> link.file, to |-> link.inspectionId, step |-> step]
  <2>1. /\ link.file # NoLink /\ link.inspectionId # NoLink
        /\ chains' = chains \cup {new}
        /\ link' = [link EXCEPT !.submitting = TRUE, !.measurementId = NoLink]
        /\ UNCHANGED <<assigned, attached, rows, inspectionLoads, strayAttach>>
    BY <1>8 DEF Field!handleLinkConfirm, Field!mediaVars
  <2>2. crossedChains' = (crossedChains \/ \E c \in chains : c.file = link.file)
    BY <1>8 DEF Field!handleLinkConfirm
  <2>3. /\ new \in [file : Media, to : FieldInspections, step : Field!Steps]
        /\ new.file = link.file /\ new.step # "measure"
    BY <1>1, <2>1 DEF Field!LinkState, Field!Steps
  <2> HIDE DEF new
  <2>4. /\ link' \in Field!LinkState /\ link'.inspectionId = link.inspectionId
        /\ link'.inspections = link.inspections
        /\ link'.file = link.file /\ link'.missionId = link.missionId
    BY <1>1, <2>1 DEF Field!LinkState
  <2>5. crossedChains' \in BOOLEAN /\ (crossedChains => crossedChains')
    BY <2>2
  <2>6. Field!TypeOK'
    BY <2>1, <2>3, <2>4, <2>5 DEF FieldInv, Field!TypeOK
  <2>7. Field!OfferedAreMissions'
    BY <1>1, <2>4 DEF Field!OfferedAreMissions, Field!InspectionsOf
  <2>8. Field!MeasuredIsAttached'
    <3>1. strayAttach' = strayAttach
      BY <2>1
    <3> QED BY <2>5, <3>1 DEF FieldInv, Field!MeasuredIsAttached
  <2>9. ASSUME ~crossedChains'
        PROVE  /\ \A c, d \in chains' : c.file = d.file => c = d
               /\ \A c \in chains' : c.step = "measure" => attached'[c.file] = c.to
    <3>1. ~crossedChains /\ \A c \in chains : c.file # link.file
      BY <2>2, <2>9
    <3>2. /\ \A c, d \in chains : c.file = d.file => c = d
          /\ \A c \in chains : c.step = "measure" => attached[c.file] = c.to
      BY <3>1 DEF FieldInv
    <3> QED BY <2>1, <2>3, <3>1, <3>2
  <2> QED BY <1>1, <2>4, <2>6, <2>7, <2>8, <2>9 DEF FieldInv
<1> QED BY <1>3, <1>4, <1>5, <1>6, <1>7, <1>8 DEF Field!RowControl

\* A lone inspection is chosen when the inspections of a mission arrive.
LEMMA FilesLoadKeeps ==
  ASSUME FieldInv, NEW r \in inspectionLoads, NEW ok \in BOOLEAN, Field!loadInspections(r, ok)
  PROVE  FieldInv'
<1> DEFINE found == Field!InspectionsOf(r[2])
           lone == IF Field!Cardinality(found) = 1 THEN CHOOSE i \in found : TRUE ELSE NoLink
<1>1. /\ link \in Field!LinkState /\ inspectionLoads \subseteq (Media \X FieldMissions)
      /\ link.file = NoLink => link.missionId = NoLink
      /\ link.inspections \subseteq Field!InspectionsOf(link.missionId)
      /\ link.inspectionId \in link.inspections \cup {NoLink}
  BY DEF FieldInv, Field!TypeOK, Field!OfferedAreMissions
<1>2. /\ inspectionLoads' = inspectionLoads \ {r}
      /\ UNCHANGED <<assigned, attached, rows, chains, crossedChains, strayAttach>>
      /\ link' = IF link.file = r[1] /\ link.missionId = r[2]
                 THEN IF ok
                      THEN [link EXCEPT !.inspections = found, !.inspectionsLoading = FALSE,
                              !.inspectionId = lone]
                      ELSE [link EXCEPT !.inspectionsLoading = FALSE]
                 ELSE link
  BY DEF Field!loadInspections, Field!mediaVars
<1>3. found \subseteq FieldInspections /\ \A i \in found : missionOf[i] = r[2]
  BY DEF Field!InspectionsOf
<1>4. lone \in found \cup {NoLink}
  <2>1. CASE Field!Cardinality(found) = 1
    <3>1. Field!Cardinality({}) = Cardinality({})
      BY DEF Field!Cardinality, Cardinality
    <3>2. found # {}
      BY <2>1, <3>1, FS_EmptySet
    <3> QED BY <3>2
  <2>2. CASE Field!Cardinality(found) # 1
    BY <2>2
  <2> QED BY <2>1, <2>2
<1>5. \A i \in link.inspections : missionOf[i] = link.missionId
  BY <1>1 DEF Field!InspectionsOf
<1> HIDE DEF found, lone
<1>6. CASE link.file = r[1] /\ link.missionId = r[2] /\ ok
  <2>1. link' = [link EXCEPT !.inspections = found, !.inspectionsLoading = FALSE, !.inspectionId = lone]
    BY <1>2, <1>6
  <2>2. /\ link' \in Field!LinkState /\ link'.inspections = found /\ link'.inspectionId = lone
        /\ link'.file = link.file /\ link'.missionId = link.missionId
    BY <1>1, <1>3, <1>4, <2>1 DEF Field!LinkState
  <2> QED BY <1>1, <1>2, <1>3, <1>4, <1>6, <2>2, ControlKeeps
<1>7. CASE ~(link.file = r[1] /\ link.missionId = r[2] /\ ok)
  <2>1. link' = link \/ link' = [link EXCEPT !.inspectionsLoading = FALSE]
    BY <1>2, <1>7
  <2>2. /\ link' \in Field!LinkState /\ link'.inspections = link.inspections
        /\ link'.inspectionId = link.inspectionId
        /\ link'.file = link.file /\ link'.missionId = link.missionId
    BY <1>1, <2>1 DEF Field!LinkState
  <2> QED BY <1>1, <1>2, <1>5, <2>2, ControlKeeps
<1> QED BY <1>6, <1>7

\* A chain goes on or ends: where two chains of one file never were together, no other is touched.
LEMMA ChainGoesOn ==
  ASSUME FieldInv, NEW c \in chains,
         \/ chains' = chains \ {c}
         \/ \E step \in Field!Steps :
              /\ chains' = (chains \ {c}) \cup {[c EXCEPT !.step = step]}
              /\ step = "measure" => attached'[c.file] = c.to,
         assigned' \in [Media -> FieldMissions \cup {NoLink}],
         rows' \in [Media -> FieldMissions \cup {NoLink}],
         attached' \in [Media -> FieldInspections \cup {NoLink}],
         \A f \in Media \ {c.file} : attached'[f] = attached[f],
         link' \in Field!LinkState,
         link'.file = link.file, link'.missionId = link.missionId,
         link'.inspections = link.inspections, link'.inspectionId = link.inspectionId,
         inspectionLoads' = inspectionLoads, crossedChains' = crossedChains,
         strayAttach' \in BOOLEAN, strayAttach' => crossedChains
  PROVE  FieldInv'
<1>1. /\ chains \subseteq [file : Media, to : FieldInspections, step : Field!Steps]
      /\ inspectionLoads \subseteq (Media \X FieldMissions) /\ crossedChains \in BOOLEAN
      /\ link.file = NoLink => link.missionId = NoLink
      /\ link.inspections \subseteq Field!InspectionsOf(link.missionId)
      /\ link.inspectionId \in link.inspections \cup {NoLink}
  BY DEF FieldInv, Field!TypeOK, Field!OfferedAreMissions
<1>2. PICK kept : /\ chains' = (chains \ {c}) \cup kept
                  /\ \A d \in kept : /\ d \in [file : Media, to : FieldInspections, step : Field!Steps]
                                     /\ d.file = c.file /\ d.to = c.to
                                     /\ d.step = "measure" => attached'[c.file] = c.to
                  /\ \A d, e \in kept : d = e
  <2>1. CASE chains' = chains \ {c}
    <3> DEFINE none == {d \in {c} : FALSE}
    <3>1. chains' = (chains \ {c}) \cup none /\ \A d \in none : FALSE
      BY <2>1
    <3> HIDE DEF none
    <3> WITNESS none
    <3> QED BY <3>1
  <2>2. CASE \E step \in Field!Steps :
              /\ chains' = (chains \ {c}) \cup {[c EXCEPT !.step = step]}
              /\ step = "measure" => attached'[c.file] = c.to
    <3>1. PICK step \in Field!Steps :
              /\ chains' = (chains \ {c}) \cup {[c EXCEPT !.step = step]}
              /\ step = "measure" => attached'[c.file] = c.to
      BY <2>2
    <3> DEFINE next == [c EXCEPT !.step = step]
    <3>2. /\ next \in [file : Media, to : FieldInspections, step : Field!Steps]
          /\ next.file = c.file /\ next.to = c.to /\ next.step = step
      BY <1>1
    <3>3. chains' = (chains \ {c}) \cup {next}
      BY <3>1
    <3> HIDE DEF next
    <3> WITNESS {next}
    <3> QED BY <3>1, <3>2, <3>3
  <2> QED BY <2>1, <2>2
<1>3. Field!TypeOK'
  BY <1>1, <1>2 DEF Field!TypeOK
<1>4. Field!OfferedAreMissions'
  BY <1>1 DEF Field!OfferedAreMissions, Field!InspectionsOf
<1>5. Field!MeasuredIsAttached'
  BY DEF Field!MeasuredIsAttached
<1>6. ASSUME ~crossedChains'
      PROVE  /\ \A d, e \in chains' : d.file = e.file => d = e
             /\ \A d \in chains' : d.step = "measure" => attached'[d.file] = d.to
  <2>1. /\ \A d, e \in chains : d.file = e.file => d = e
        /\ \A d \in chains : d.step = "measure" => attached[d.file] = d.to
    BY <1>6 DEF FieldInv
  <2>2. \A d \in chains \ {c} : d.file \in Media \ {c.file}
    BY <1>1, <2>1
  <2>3. \A d \in chains \ {c} : d.step = "measure" => attached'[d.file] = d.to
    BY <2>1, <2>2
  <2>4. \A d, e \in chains' : d.file = e.file => d = e
    BY <1>2, <2>1, <2>2
  <2>5. \A d \in chains' : d.step = "measure" => attached'[d.file] = d.to
    BY <1>2, <2>3
  <2> QED BY <2>4, <2>5
<1> QED BY <1>1, <1>3, <1>4, <1>5, <1>6 DEF FieldInv

LEMMA ChainKeeps ==
  ASSUME FieldInv, NEW c \in chains, Field!Chain(c)
  PROVE  FieldInv'
<1>1. /\ link \in Field!LinkState /\ c \in [file : Media, to : FieldInspections, step : Field!Steps]
      /\ assigned \in [Media -> FieldMissions \cup {NoLink}]
      /\ rows \in [Media -> FieldMissions \cup {NoLink}]
      /\ attached \in [Media -> FieldInspections \cup {NoLink}]
      /\ strayAttach \in BOOLEAN /\ (strayAttach => crossedChains)
      /\ ~crossedChains => (c.step = "measure" => attached[c.file] = c.to)
  BY DEF FieldInv, Field!TypeOK, Field!MeasuredIsAttached
<1>2. missionOf[c.to] \in FieldMissions
  BY <1>1, FieldFacts
<1>3. "move" \in Field!Steps /\ "measure" \in Field!Steps /\ "load" \in Field!Steps
  BY DEF Field!Steps
<1>4. CASE Field!Assign(c)
  <2>1. /\ assigned' = [assigned EXCEPT ![c.file] = missionOf[c.to]]
        /\ chains' = (chains \ {c}) \cup {[c EXCEPT !.step = "move"]}
        /\ UNCHANGED <<attached, rows, link, inspectionLoads, crossedChains, strayAttach>>
    BY <1>4 DEF Field!Assign, Field!Proceed
  <2>2. assigned' \in [Media -> FieldMissions \cup {NoLink}]
    BY <1>1, <1>2, <2>1
  <2>3. \E step \in Field!Steps : /\ chains' = (chains \ {c}) \cup {[c EXCEPT !.step = step]}
                                  /\ step = "measure" => attached'[c.file] = c.to
    BY <1>3, <2>1
  <2>4. strayAttach' \in BOOLEAN /\ (strayAttach' => crossedChains)
    BY <1>1, <2>1
  <2> QED BY <1>1, <2>1, <2>2, <2>3, <2>4, ChainGoesOn
<1>5. CASE Field!Move(c)
  <2>1. /\ attached' = [attached EXCEPT ![c.file] = c.to]
        /\ chains' = (chains \ {c}) \cup {[c EXCEPT !.step = "measure"]}
        /\ UNCHANGED <<assigned, rows, link, inspectionLoads, crossedChains, strayAttach>>
    BY <1>5 DEF Field!Move, Field!Proceed
  <2>2. /\ attached' \in [Media -> FieldInspections \cup {NoLink}] /\ attached'[c.file] = c.to
        /\ \A f \in Media \ {c.file} : attached'[f] = attached[f]
    BY <1>1, <2>1
  <2>3. \E step \in Field!Steps : /\ chains' = (chains \ {c}) \cup {[c EXCEPT !.step = step]}
                                  /\ step = "measure" => attached'[c.file] = c.to
    BY <1>3, <2>1, <2>2
  <2>4. strayAttach' \in BOOLEAN /\ (strayAttach' => crossedChains)
    BY <1>1, <2>1
  <2> QED BY <1>1, <2>1, <2>2, <2>3, <2>4, ChainGoesOn
<1>6. CASE Field!Measure(c)
  <2>1. /\ c.step = "measure"
        /\ chains' = (chains \ {c}) \cup {[c EXCEPT !.step = "load"]}
        /\ link' = IF link.file = c.file
                   THEN [link EXCEPT !.submitting = FALSE, !.measurementId = c.to] ELSE link
        /\ UNCHANGED <<assigned, attached, rows, inspectionLoads, crossedChains>>
    BY <1>6 DEF Field!Measure, Field!Proceed, Field!mediaVars
  <2>2. strayAttach' = (strayAttach \/ attached[c.file] # c.to)
    BY <1>6 DEF Field!Measure
  <2>3. /\ link' \in Field!LinkState /\ link'.file = link.file /\ link'.missionId = link.missionId
        /\ link'.inspections = link.inspections /\ link'.inspectionId = link.inspectionId
    BY <1>1, <2>1 DEF Field!LinkState
  <2>4. strayAttach' \in BOOLEAN /\ (strayAttach' => crossedChains)
    BY <1>1, <2>1, <2>2
  <2>5. \E step \in Field!Steps : /\ chains' = (chains \ {c}) \cup {[c EXCEPT !.step = step]}
                                  /\ step = "measure" => attached'[c.file] = c.to
    BY <1>3, <2>1
  <2> QED BY <1>1, <2>1, <2>3, <2>4, <2>5, ChainGoesOn
<1>7. CASE Field!GiveUp(c)
  <2>1. /\ chains' = chains \ {c}
        /\ link' = IF link.file = c.file THEN [link EXCEPT !.submitting = FALSE] ELSE link
        /\ UNCHANGED <<assigned, attached, rows, inspectionLoads, crossedChains, strayAttach>>
    BY <1>7 DEF Field!GiveUp, Field!mediaVars
  <2>2. /\ link' \in Field!LinkState /\ link'.file = link.file /\ link'.missionId = link.missionId
        /\ link'.inspections = link.inspections /\ link'.inspectionId = link.inspectionId
    BY <1>1, <2>1 DEF Field!LinkState
  <2>3. strayAttach' \in BOOLEAN /\ (strayAttach' => crossedChains)
    BY <1>1, <2>1
  <2> QED BY <1>1, <2>1, <2>2, <2>3, ChainGoesOn
<1> QED BY <1>4, <1>5, <1>6, <1>7 DEF Field!Chain

LEMMA FieldKeeps ==
  ASSUME FieldInv, [Field!Next]_fieldVars
  PROVE  FieldInv'
<1>1. CASE UNCHANGED fieldVars
  BY <1>1 DEF fieldVars, FieldInv, Field!TypeOK, Field!OfferedAreMissions, Field!MeasuredIsAttached,
              Field!InspectionsOf
<1>2. ASSUME Field!loadMedia PROVE FieldInv'
  <2>1. PICK c \in chains : chains' = chains \ {c}
    BY <1>2 DEF Field!loadMedia
  <2>2. /\ rows' = assigned
        /\ UNCHANGED <<assigned, attached, link, inspectionLoads, crossedChains, strayAttach>>
    BY <1>2 DEF Field!loadMedia
  <2>3. /\ link \in Field!LinkState /\ assigned \in [Media -> FieldMissions \cup {NoLink}]
        /\ attached \in [Media -> FieldInspections \cup {NoLink}]
        /\ strayAttach \in BOOLEAN /\ (strayAttach => crossedChains)
    BY DEF FieldInv, Field!TypeOK, Field!MeasuredIsAttached
  <2>4. strayAttach' \in BOOLEAN /\ (strayAttach' => crossedChains)
    BY <2>2, <2>3
  <2> QED BY <2>1, <2>2, <2>3, <2>4, ChainGoesOn
<1>3. ASSUME NEW f \in Media, NEW m \in FieldMissions, Field!Elsewhere(f, m) PROVE FieldInv'
  <2>1. /\ assigned' = [assigned EXCEPT ![f] = m]
        /\ UNCHANGED <<attached, rows, link, inspectionLoads, chains, crossedChains, strayAttach>>
    BY <1>3 DEF Field!Elsewhere
  <2>2. assigned' \in [Media -> FieldMissions \cup {NoLink}]
    BY <2>1 DEF FieldInv, Field!TypeOK
  <2> QED BY <2>1, <2>2 DEF FieldInv, Field!TypeOK, Field!OfferedAreMissions,
                          Field!MeasuredIsAttached, Field!InspectionsOf
<1> QED BY <1>1, <1>2, <1>3, RowControlKeeps, FilesLoadKeeps, ChainKeeps DEF Field!Next

LEMMA FieldHolds == Spec => [](page = "field" => FieldInv)
<1>1. Init => (page = "field" => FieldInv)
  BY FieldStart DEF Init
<1>2. (page = "field" => FieldInv)
        /\ [Next]_<<page, tabsVars, exportVars, fieldVars, hubVars, uploadVars, reviewVars, formVars>>
      => (page = "field" => FieldInv)'
  BY FieldKeeps DEF Next
<1> QED BY <1>1, <1>2, PTL DEF Spec

-----------------------------------------------------------------------------
(* The upload dialog *)

LEMMA UploadFacts == MaxCalls \in Nat /\ Unassigned \notin Groups /\ IsFiniteSet(Videos)
BY WorkspaceAssumption DEF Upload!DialogAssumption, Upload!IsFiniteSet, IsFiniteSet

\* The dialog's module counts as this one does.
LEMMA CountedAlike == ASSUME NEW S PROVE Upload!Cardinality(S) = Cardinality(S)
BY DEF Upload!Cardinality, Cardinality

UpTo(at, i) == {j \in at : j <= i}

\* Counting the places up to each gives every number from 1 on, in the order of the places.
LEMMA PlacesAreCounted ==
  ASSUME NEW n \in Nat, NEW at \in SUBSET (1..n), NEW rank,
         rank = [i \in at |-> Upload!Cardinality(UpTo(at, i))]
  PROVE  /\ IsFiniteSet(at) /\ Upload!Cardinality(at) \in Nat
         /\ rank \in [at -> 1..Upload!Cardinality(at)]
         /\ \A i, j \in at : rank[i] = rank[j] => i = j
         /\ \A k \in 1..Upload!Cardinality(at) : \E i \in at : rank[i] = k
         /\ at = 1..n => Upload!Cardinality(at) = n /\ \A i \in at : rank[i] = i
<1> USE CountedAlike DEF UpTo
<1> DEFINE upto(i) == {j \in at : j <= i}
<1>1. IsFiniteSet(at) /\ Upload!Cardinality(at) \in Nat
  <2>1. IsFiniteSet(1..n)
    BY FS_Interval
  <2> QED BY <2>1, FS_Subset, FS_CardinalityType
<1>2. ASSUME NEW i \in at
      PROVE  /\ IsFiniteSet(upto(i)) /\ Upload!Cardinality(upto(i)) \in 1..Upload!Cardinality(at)
             /\ rank[i] = Upload!Cardinality(upto(i))
  <2>1. /\ IsFiniteSet(upto(i)) /\ Upload!Cardinality(upto(i)) \in Nat
        /\ Upload!Cardinality(upto(i)) <= Upload!Cardinality(at)
    BY <1>1, FS_Subset, FS_CardinalityType
  <2>2. upto(i) # {}
    OBVIOUS
  <2>3. Upload!Cardinality(upto(i)) # 0
    BY <2>1, <2>2, FS_EmptySet
  <2> QED BY <1>1, <2>1, <2>3
<1>3. ASSUME NEW i \in at, NEW j \in at, i < j PROVE rank[i] # rank[j]
  <2>1. upto(i) \in SUBSET upto(j) /\ j \in upto(j) /\ j \notin upto(i)
    <3>1. \A k \in at : k \in Int
      OBVIOUS
    <3>2. \A k \in at : k <= i => k <= j
      BY <1>3, <3>1
    <3>3. j <= j /\ ~(j <= i)
      BY <1>3, <3>1
    <3> QED BY <3>2, <3>3
  <2>2. Upload!Cardinality(upto(j)) # Upload!Cardinality(upto(i))
    BY <1>2, <2>1, FS_Subset
  <2> QED BY <1>2, <2>2
<1>4. \A i, j \in at : rank[i] = rank[j] => i = j
  <2>1. \A i, j \in at : i < j \/ j < i \/ i = j
    OBVIOUS
  <2> QED BY <1>3, <2>1
<1>5. rank \in [at -> 1..Upload!Cardinality(at)]
  BY <1>2
<1>6. \A k \in 1..Upload!Cardinality(at) : \E i \in at : rank[i] = k
  <2>1. rank \in Injection(at, 1..Upload!Cardinality(at))
    BY <1>4, <1>5 DEF Injection, IsInjective
  <2>2. IsFiniteSet(1..Upload!Cardinality(at)) /\ Upload!Cardinality(1..Upload!Cardinality(at)) = Upload!Cardinality(at)
    BY <1>1, FS_Interval
  <2>3. rank \in Surjection(at, 1..Upload!Cardinality(at))
    BY <2>1, <2>2, FS_Injection
  <2> QED BY <2>3 DEF Surjection
<1>7. ASSUME at = 1..n PROVE Upload!Cardinality(at) = n /\ \A i \in at : rank[i] = i
  <2>1. Upload!Cardinality(at) = n
    BY <1>7, FS_Interval
  <2>2. ASSUME NEW i \in at PROVE rank[i] = i
    <3>1. upto(i) = 1..i /\ i \in Nat /\ i >= 1
      BY <1>7
    <3>2. Upload!Cardinality(1..i) = i
      BY <3>1, FS_Interval
    <3> QED BY <1>2, <3>1, <3>2
  <2> QED BY <2>1, <2>2
<1> QED BY <1>1, <1>4, <1>5, <1>6, <1>7

Once(s) == \A i, j \in DOMAIN s : s[i] = s[j] => i = j

\* A part of a sequence, in its order: it holds just what was asked for, and everything if all was.
LEMMA ThoseAre ==
  ASSUME NEW s \in Seq(Videos), NEW S
  PROVE  /\ Upload!Those(s, S) \in Seq(Videos)
         /\ Upload!ToSet(Upload!Those(s, S)) = Upload!ToSet(s) \cap S
         /\ Once(s) => Once(Upload!Those(s, S))
         /\ Upload!ToSet(s) \subseteq S => Upload!Those(s, S) = s
<1> DEFINE at == {i \in DOMAIN s : s[i] \in S}
           upto(i) == Upload!Cardinality(UpTo(at, i))
           place(k) == CHOOSE i \in at : upto(i) = k
           n == Upload!Cardinality(at)
           t == [k \in 1..n |-> s[place(k)]]
<1>1. /\ Len(s) \in Nat /\ DOMAIN s = 1..Len(s) /\ \A i \in 1..Len(s) : s[i] \in Videos
      /\ s \in [1..Len(s) -> Videos]
  BY LenProperties, ElementOfSeq
<1>2. at \in SUBSET (1..Len(s))
  BY <1>1
<1>3. Upload!Those(s, S) = t
  BY DEF Upload!Those, UpTo
<1>4. at = {i \in 1..Len(s) : s[i] \in S}
  BY <1>1
<1> HIDE DEF at
<1>5. PICK rank : rank = [i \in at |-> upto(i)]
  OBVIOUS
<1>6. /\ n \in Nat
      /\ rank \in [at -> 1..n]
      /\ \A i, j \in at : rank[i] = rank[j] => i = j
      /\ \A k \in 1..n : \E i \in at : rank[i] = k
      /\ at = 1..Len(s) => n = Len(s) /\ \A i \in at : rank[i] = i
  BY <1>1, <1>2, <1>5, PlacesAreCounted
<1> HIDE DEF upto, n
<1>7. ASSUME NEW k \in 1..n
      PROVE  place(k) \in at /\ rank[place(k)] = k
  <2>1. \E i \in at : upto(i) = k
    BY <1>5, <1>6
  <2>2. place(k) \in at /\ upto(place(k)) = k
    BY <2>1
  <2> QED BY <1>5, <2>2
<1> HIDE DEF place
<1>8. /\ DOMAIN t = 1..n /\ t \in [1..n -> Videos]
      /\ \A k \in 1..n : t[k] = s[place(k)] /\ place(k) \in 1..Len(s)
  BY <1>1, <1>2, <1>7
<1> HIDE DEF t
<1>9. t \in Seq(Videos) /\ Len(t) = n
  <2>1. t \in Seq(Videos)
    BY <1>6, <1>8, SeqDef
  <2> QED BY <1>6, <1>8, <2>1, LenProperties
<1>10. Upload!ToSet(t) = Upload!ToSet(s) \cap S
  <2>1. ASSUME NEW k \in 1..n PROVE t[k] \in Upload!ToSet(s) \cap S
    BY <1>1, <1>4, <1>7, <1>8 DEF Upload!ToSet
  <2>2. ASSUME NEW i \in 1..Len(s), s[i] \in S PROVE \E k \in 1..n : t[k] = s[i]
    <3>1. i \in at /\ rank[i] \in 1..n
      BY <1>4, <1>6, <2>2
    <3>2. place(rank[i]) = i
      BY <1>6, <1>7, <3>1
    <3> QED BY <1>8, <3>1, <3>2
  <2> QED BY <1>1, <1>8, <2>1, <2>2 DEF Upload!ToSet
<1>11. ASSUME Once(s) PROVE Once(t)
  <2>1. SUFFICES ASSUME NEW k \in 1..n, NEW m \in 1..n, t[k] = t[m]
                 PROVE  k = m
    BY <1>8 DEF Once
  <2>2. place(k) = place(m)
    BY <1>1, <1>8, <1>11, <2>1 DEF Once
  <2> QED BY <1>7, <2>2
<1>12. ASSUME Upload!ToSet(s) \subseteq S PROVE t = s
  <2>1. at = 1..Len(s)
    BY <1>1, <1>4, <1>12 DEF Upload!ToSet
  <2>2. n = Len(s) /\ \A k \in 1..Len(s) : place(k) = k
    BY <1>6, <1>7, <2>1
  <2>3. Len(t) = Len(s) /\ \A k \in 1..Len(s) : t[k] = s[k]
    BY <1>8, <1>9, <2>2
  <2> QED BY <1>9, <2>3, SeqEqual
<1> QED BY <1>3, <1>9, <1>10, <1>11, <1>12

\* An element is put at a place of a sequence.
LEMMA InsertedIs ==
  ASSUME NEW s \in Seq(Videos), NEW i \in 1..(Len(s) + 1), NEW e \in Videos
  PROVE  /\ Upload!InsertAt(s, i, e) \in Seq(Videos)
         /\ Len(Upload!InsertAt(s, i, e)) = Len(s) + 1
         /\ \A k \in 1..(Len(s) + 1) :
              Upload!InsertAt(s, i, e)[k] = IF k < i THEN s[k] ELSE IF k = i THEN e ELSE s[k - 1]
<1> DEFINE a == SubSeq(s, 1, i - 1)
           b == SubSeq(s, i, Len(s))
           c == <<e>>
<1>0. Len(s) \in Nat /\ i \in Int /\ \A k \in 1..Len(s) : s[k] \in Videos
  BY ElementOfSeq, LenProperties
<1>1. /\ a \in Seq(Videos) /\ Len(a) = i - 1
      /\ \A k \in 1..(i - 1) : a[k] = s[k]
  <2>1. /\ a \in Seq(Videos) /\ Len(a) = (IF 1 <= i - 1 THEN i - 1 - 1 + 1 ELSE 0)
        /\ \A k \in 1..(i - 1 - 1 + 1) : a[k] = s[1 + k - 1]
    BY <1>0, SubSeqProperties
  <2> QED BY <1>0, <2>1
<1>2. /\ b \in Seq(Videos) /\ Len(b) = Len(s) + 1 - i
      /\ \A k \in 1..(Len(s) + 1 - i) : b[k] = s[i + k - 1]
  <2>1. /\ b \in Seq(Videos) /\ Len(b) = (IF i <= Len(s) THEN Len(s) - i + 1 ELSE 0)
        /\ \A k \in 1..(Len(s) - i + 1) : b[k] = s[i + k - 1]
    BY <1>0, SubSeqProperties
  <2> QED BY <1>0, <2>1
<1>3. c \in Seq(Videos) /\ Len(c) = 1 /\ c[1] = e
  OBVIOUS
<1>4. Upload!InsertAt(s, i, e) = a \o c \o b
  BY DEF Upload!InsertAt
<1> HIDE DEF a, b, c
<1>5. /\ a \o c \in Seq(Videos) /\ Len(a \o c) = i
      /\ \A k \in 1..i : (a \o c)[k] = IF k < i THEN s[k] ELSE e
  <2>1. /\ a \o c \in Seq(Videos) /\ Len(a \o c) = Len(a) + Len(c)
        /\ \A k \in 1..(Len(a) + Len(c)) : (a \o c)[k] = IF k <= Len(a) THEN a[k] ELSE c[k - Len(a)]
    BY <1>1, <1>3, ConcatProperties
  <2> QED BY <1>0, <1>1, <1>3, <2>1
<1> DEFINE ac == a \o c
<1> HIDE DEF ac
<1>6. ac \in Seq(Videos) /\ Len(ac) = i /\ \A k \in 1..i : ac[k] = IF k < i THEN s[k] ELSE e
  BY <1>5 DEF ac
<1>7. /\ ac \o b \in Seq(Videos) /\ Len(ac \o b) = Len(ac) + Len(b)
      /\ \A k \in 1..(Len(ac) + Len(b)) : (ac \o b)[k] = IF k <= Len(ac) THEN ac[k] ELSE b[k - Len(ac)]
  BY <1>2, <1>6, ConcatProperties
<1>8. ASSUME NEW k \in 1..(Len(s) + 1)
      PROVE  (ac \o b)[k] = IF k < i THEN s[k] ELSE IF k = i THEN e ELSE s[k - 1]
  <2>1. CASE k <= i
    BY <1>0, <1>2, <1>7, <1>6, <2>1
  <2>2. CASE k > i
    <3>1. (ac \o b)[k] = b[k - i]
      BY <1>0, <1>2, <1>7, <1>6, <2>2
    <3>2. k - i \in 1..(Len(s) + 1 - i) /\ i + (k - i) - 1 = k - 1
      BY <1>0, <2>2
    <3>3. b[k - i] = s[i + (k - i) - 1]
      BY <1>2, <3>2
    <3>4. (ac \o b)[k] = s[k - 1]
      BY <3>1, <3>2, <3>3
    <3> QED BY <1>0, <2>2, <3>4
  <2>3. k <= i \/ k > i
    BY <1>0
  <2> QED BY <2>1, <2>2, <2>3
<1> QED BY <1>0, <1>2, <1>4, <1>7, <1>6, <1>8 DEF ac

\* What an insertion holds.
LEMMA InsertedHolds ==
  ASSUME NEW s \in Seq(Videos), NEW i \in 1..(Len(s) + 1), NEW e \in Videos
  PROVE  /\ Upload!ToSet(Upload!InsertAt(s, i, e)) = Upload!ToSet(s) \cup {e}
         /\ Once(s) /\ e \notin Upload!ToSet(s) => Once(Upload!InsertAt(s, i, e))
         /\ i = Len(s) + 1 => Upload!InsertAt(s, i, e) = Append(s, e)
<1> DEFINE t == Upload!InsertAt(s, i, e)
<1>1. /\ t \in Seq(Videos) /\ Len(t) = Len(s) + 1
      /\ \A k \in 1..(Len(s) + 1) : t[k] = IF k < i THEN s[k] ELSE IF k = i THEN e ELSE s[k - 1]
  BY InsertedIs
<1> HIDE DEF t
<1>2. Len(s) \in Nat /\ DOMAIN s = 1..Len(s) /\ DOMAIN t = 1..(Len(s) + 1)
  BY <1>1, LenProperties
<1>3. Upload!ToSet(t) = Upload!ToSet(s) \cup {e}
  <2>1. ASSUME NEW k \in 1..(Len(s) + 1) PROVE t[k] \in Upload!ToSet(s) \cup {e}
    <3>1. k < i => k \in 1..Len(s)
      BY <1>2
    <3>2. k > i => k - 1 \in 1..Len(s)
      BY <1>2
    <3>3. k < i \/ k = i \/ k > i
      BY <1>2
    <3>4. CASE k < i
      BY <1>1, <1>2, <3>1, <3>4 DEF Upload!ToSet
    <3>5. CASE k = i
      BY <1>1, <1>2, <3>5
    <3>6. CASE k > i
      <4>1. t[k] = s[k - 1]
        BY <1>1, <1>2, <3>6
      <4> QED BY <1>2, <3>2, <3>6, <4>1 DEF Upload!ToSet
    <3> QED BY <3>3, <3>4, <3>5, <3>6
  <2>2. e \in Upload!ToSet(t)
    <3>1. t[i] = e
      BY <1>1, <1>2
    <3> QED BY <1>2, <3>1 DEF Upload!ToSet
  <2>3. ASSUME NEW k \in 1..Len(s) PROVE s[k] \in Upload!ToSet(t)
    <3>1. CASE k < i
      <4>1. t[k] = s[k] /\ k \in 1..(Len(s) + 1)
        BY <1>1, <1>2, <3>1
      <4> QED BY <1>2, <4>1 DEF Upload!ToSet
    <3>2. CASE ~(k < i)
      <4>1. t[k + 1] = s[k] /\ k + 1 \in 1..(Len(s) + 1)
        <5>1. k + 1 \in 1..(Len(s) + 1) /\ ~(k + 1 < i) /\ k + 1 # i /\ (k + 1) - 1 = k
          BY <1>2, <3>2
        <5> QED BY <1>1, <5>1
      <4> QED BY <1>2, <4>1 DEF Upload!ToSet
    <3> QED BY <3>1, <3>2
  <2>4. \A x \in Upload!ToSet(t) : x \in Upload!ToSet(s) \cup {e}
    BY <1>2, <2>1 DEF Upload!ToSet
  <2>5. \A x \in Upload!ToSet(s) : x \in Upload!ToSet(t)
    BY <1>2, <2>3 DEF Upload!ToSet
  <2> QED BY <2>2, <2>4, <2>5
<1>4. ASSUME Once(s), e \notin Upload!ToSet(s) PROVE Once(t)
  <2>1. SUFFICES ASSUME NEW k \in 1..(Len(s) + 1), NEW m \in 1..(Len(s) + 1), t[k] = t[m], k < m
                 PROVE  FALSE
    <3>1. \A k, m \in 1..(Len(s) + 1) : k = m \/ k < m \/ m < k
      BY <1>2
    <3>2. \A k, m \in 1..(Len(s) + 1) : k < m => t[k] # t[m]
      BY <2>1
    <3> QED BY <1>2, <3>1, <3>2 DEF Once
  <2>2. \A x \in 1..Len(s) : s[x] # e
    BY <1>2, <1>4 DEF Upload!ToSet
  <2>3. \A x, y \in 1..Len(s) : s[x] = s[y] => x = y
    BY <1>2, <1>4 DEF Once
  <2>4. CASE m < i
    <3>1. t[k] = s[k] /\ t[m] = s[m] /\ k \in 1..Len(s) /\ m \in 1..Len(s) /\ k # m
      BY <1>1, <1>2, <2>1, <2>4
    <3> QED BY <2>1, <2>3, <3>1
  <2>5. CASE m = i
    <3>1. t[k] = s[k] /\ t[m] = e /\ k \in 1..Len(s)
      BY <1>1, <1>2, <2>1, <2>5
    <3> QED BY <2>1, <2>2, <3>1
  <2>6. CASE m > i
    <3>1. t[m] = s[m - 1] /\ m - 1 \in 1..Len(s)
      BY <1>1, <1>2, <2>6
    <3>2. CASE k < i
      <4>1. t[k] = s[k] /\ k \in 1..Len(s) /\ k # m - 1
        BY <1>1, <1>2, <2>6, <3>2
      <4> QED BY <2>1, <2>3, <3>1, <4>1
    <3>3. CASE k = i
      <4>1. t[k] = e
        BY <1>1, <1>2, <3>3
      <4> QED BY <2>1, <2>2, <3>1, <4>1
    <3>4. CASE k > i
      <4>1. t[k] = s[k - 1] /\ k - 1 \in 1..Len(s) /\ k - 1 # m - 1
        BY <1>1, <1>2, <2>1, <3>4
      <4> QED BY <2>1, <2>3, <3>1, <4>1
    <3> QED BY <1>2, <3>2, <3>3, <3>4
  <2> QED BY <1>2, <2>4, <2>5, <2>6
<1>5. ASSUME i = Len(s) + 1 PROVE t = Append(s, e)
  <2>1. /\ Append(s, e) \in Seq(Videos) /\ Len(Append(s, e)) = Len(s) + 1
        /\ \A k \in 1..(Len(s) + 1) : Append(s, e)[k] = IF k = Len(s) + 1 THEN e ELSE s[k]
    BY <1>2
  <2>2. \A k \in 1..(Len(s) + 1) : t[k] = Append(s, e)[k]
    BY <1>1, <1>2, <1>5, <2>1
  <2> QED BY <1>1, <2>1, <2>2, SeqEqual
<1> QED BY <1>3, <1>4, <1>5 DEF t

\* A listing with every file in one place.
Sorted(l) ==
  /\ l \in Upload!Listing
  /\ \A b \in Upload!Boxes : Once(l[b])
  /\ \A b, d \in Upload!Boxes : b # d => Upload!ToSet(l[b]) \cap Upload!ToSet(l[d]) = {}

LEMMA SortedShowsOnce ==
  ASSUME Sorted(mediaShown) PROVE Upload!ShownOnce
<1>1. SUFFICES ASSUME NEW b \in Upload!Boxes, NEW d \in Upload!Boxes,
                      NEW i \in DOMAIN mediaShown[b], NEW j \in DOMAIN mediaShown[d],
                      mediaShown[b][i] = mediaShown[d][j]
               PROVE  b = d /\ i = j
  BY DEF Upload!ShownOnce
<1>2. mediaShown[b][i] \in Upload!ToSet(mediaShown[b]) /\ mediaShown[d][j] \in Upload!ToSet(mediaShown[d])
  BY DEF Upload!ToSet
<1>3. b = d
  BY <1>1, <1>2 DEF Sorted
<1>4. Once(mediaShown[b])
  BY DEF Sorted
<1> QED BY <1>1, <1>3, <1>4 DEF Once

LEMMA HeldIs ==
  ASSUME NEW l, NEW f
  PROVE  f \in Upload!Held(l) <=> \E b \in Upload!Boxes : f \in Upload!ToSet(l[b])
BY DEF Upload!Held

\* A file taken out.
LEMMA WithoutIs ==
  ASSUME NEW l, Sorted(l), NEW f
  PROVE  /\ Sorted(Upload!Without(l, f))
         /\ \A b \in Upload!Boxes :
              /\ Upload!ToSet(Upload!Without(l, f)[b]) = Upload!ToSet(l[b]) \ {f}
              /\ f \notin Upload!ToSet(l[b]) => Upload!Without(l, f)[b] = l[b]
         /\ f \notin Upload!Held(Upload!Without(l, f))
         /\ Upload!Held(Upload!Without(l, f)) \subseteq Upload!Held(l)
<1> DEFINE w == Upload!Without(l, f)
<1>1. w = [b \in Upload!Boxes |-> Upload!Those(l[b], Videos \ {f})]
  BY DEF Upload!Without
<1> HIDE DEF w
<1>2. ASSUME NEW b \in Upload!Boxes
      PROVE  /\ w[b] \in Seq(Videos) /\ Once(w[b])
             /\ Upload!ToSet(w[b]) = Upload!ToSet(l[b]) \ {f}
             /\ f \notin Upload!ToSet(l[b]) => w[b] = l[b]
  <2>1. l[b] \in Seq(Videos) /\ Once(l[b])
    BY DEF Sorted, Upload!Listing
  <2>2. Upload!ToSet(l[b]) \subseteq Videos
    <3>1. \A i \in 1..Len(l[b]) : l[b][i] \in Videos
      BY <2>1, ElementOfSeq
    <3>2. DOMAIN l[b] = 1..Len(l[b])
      BY <2>1, LenProperties
    <3> QED BY <3>1, <3>2 DEF Upload!ToSet
  <2>3. w[b] = Upload!Those(l[b], Videos \ {f})
    BY <1>1
  <2>4. /\ w[b] \in Seq(Videos) /\ Once(w[b])
        /\ Upload!ToSet(w[b]) = Upload!ToSet(l[b]) \cap (Videos \ {f})
        /\ Upload!ToSet(l[b]) \subseteq Videos \ {f} => w[b] = l[b]
    BY <2>1, <2>3, ThoseAre
  <2> QED BY <2>2, <2>4
<1>3. Sorted(w)
  <2>1. w \in Upload!Listing
    BY <1>1, <1>2 DEF Upload!Listing
  <2>2. ASSUME NEW b \in Upload!Boxes, NEW d \in Upload!Boxes, b # d
        PROVE  Upload!ToSet(w[b]) \cap Upload!ToSet(w[d]) = {}
    <3>1. Upload!ToSet(l[b]) \cap Upload!ToSet(l[d]) = {}
      BY <2>2 DEF Sorted
    <3> QED BY <1>2, <3>1
  <2> QED BY <1>2, <2>1, <2>2 DEF Sorted
<1>4. f \notin Upload!Held(w) /\ Upload!Held(w) \subseteq Upload!Held(l)
  BY <1>2 DEF Upload!Held
<1> QED BY <1>2, <1>3, <1>4 DEF w

\* A sequence of other files, or of the same, takes the place of one in its box.
LEMMA ReplacedIs ==
  ASSUME NEW l, Sorted(l), NEW b \in Upload!Boxes, NEW s \in Seq(Videos), Once(s),
         \A d \in Upload!Boxes \ {b} : Upload!ToSet(s) \cap Upload!ToSet(l[d]) = {}
  PROVE  /\ Sorted([l EXCEPT ![b] = s])
         /\ Upload!Held([l EXCEPT ![b] = s]) \subseteq Upload!Held(l) \cup Upload!ToSet(s)
<1> DEFINE r == [l EXCEPT ![b] = s]
<1>1. /\ r \in Upload!Listing
      /\ \A d \in Upload!Boxes : r[d] = IF d = b THEN s ELSE l[d]
  BY DEF Sorted, Upload!Listing
<1> HIDE DEF r
<1>2. \A d \in Upload!Boxes : Once(r[d])
  BY <1>1 DEF Sorted
<1>3. ASSUME NEW c \in Upload!Boxes, NEW d \in Upload!Boxes, c # d
      PROVE  Upload!ToSet(r[c]) \cap Upload!ToSet(r[d]) = {}
  <2>1. Upload!ToSet(l[c]) \cap Upload!ToSet(l[d]) = {}
    BY <1>3 DEF Sorted
  <2>2. CASE c = b
    <3>1. r[c] = s /\ r[d] = l[d] /\ d \in Upload!Boxes \ {b}
      BY <1>1, <1>3, <2>2
    <3> QED BY <3>1
  <2>3. CASE d = b
    <3>1. r[d] = s /\ r[c] = l[c] /\ c \in Upload!Boxes \ {b}
      BY <1>1, <1>3, <2>3
    <3> QED BY <3>1
  <2>4. CASE c # b /\ d # b
    BY <1>1, <2>1, <2>4
  <2> QED BY <2>2, <2>3, <2>4
<1>4. Upload!Held(r) \subseteq Upload!Held(l) \cup Upload!ToSet(s)
  BY <1>1 DEF Upload!Held
<1> QED BY <1>1, <1>2, <1>3, <1>4 DEF Sorted, r

\* A file that is nowhere is put at a place of a box.
LEMMA PutIs ==
  ASSUME NEW l, Sorted(l), NEW b \in Upload!Boxes, NEW f \in Videos, f \notin Upload!Held(l),
         NEW i \in 1..(Len(l[b]) + 1)
  PROVE  /\ Sorted([l EXCEPT ![b] = Upload!InsertAt(l[b], i, f)])
         /\ Upload!Held([l EXCEPT ![b] = Upload!InsertAt(l[b], i, f)]) \subseteq Upload!Held(l) \cup {f}
         /\ i = Len(l[b]) + 1 => Upload!InsertAt(l[b], i, f) = Append(l[b], f)
<1>1. l[b] \in Seq(Videos) /\ Once(l[b])
  BY DEF Sorted, Upload!Listing
<1>2. \A d \in Upload!Boxes : f \notin Upload!ToSet(l[d]) /\ Upload!ToSet(l[d]) \subseteq Upload!Held(l)
  BY DEF Upload!Held
<1> DEFINE s == Upload!InsertAt(l[b], i, f)
<1>3. /\ s \in Seq(Videos) /\ Once(s) /\ Upload!ToSet(s) = Upload!ToSet(l[b]) \cup {f}
      /\ i = Len(l[b]) + 1 => s = Append(l[b], f)
  BY <1>1, <1>2, InsertedIs, InsertedHolds
<1> HIDE DEF s
<1>4. \A d \in Upload!Boxes \ {b} : Upload!ToSet(s) \cap Upload!ToSet(l[d]) = {}
  <2>1. SUFFICES ASSUME NEW d \in Upload!Boxes \ {b}
                 PROVE  Upload!ToSet(s) \cap Upload!ToSet(l[d]) = {}
    OBVIOUS
  <2>2. Upload!ToSet(l[b]) \cap Upload!ToSet(l[d]) = {}
    BY DEF Sorted
  <2> QED BY <1>2, <1>3, <2>2
<1>5. /\ Sorted([l EXCEPT ![b] = s])
      /\ Upload!Held([l EXCEPT ![b] = s]) \subseteq Upload!Held(l) \cup Upload!ToSet(s)
  BY <1>3, <1>4, ReplacedIs
<1>6. Upload!Held([l EXCEPT ![b] = s]) \subseteq Upload!Held(l) \cup {f}
  BY <1>2, <1>3, <1>5
<1> QED BY <1>3, <1>5, <1>6 DEF s

\* The order a drag within a group asks for.
LEMMA OrderIs ==
  ASSUME NEW s \in Seq(Videos), Once(s), NEW i \in 1..Len(s), NEW j \in 1..Len(s)
  PROVE  LET order == Upload!InsertAt(Upload!RemoveAt(s, i), j, s[i])
         IN  /\ order \in Seq(Videos) /\ Once(order) /\ Upload!ToSet(order) = Upload!ToSet(s)
             /\ s[i] \in Videos
<1> DEFINE r == SubSeq(s, 1, i - 1) \o SubSeq(s, i + 1, Len(s))
           order == Upload!InsertAt(r, j, s[i])
<1>0. /\ Len(s) \in Nat /\ DOMAIN s = 1..Len(s) /\ s[i] \in Videos
      /\ \A x, y \in 1..Len(s) : s[x] = s[y] => x = y
  BY LenProperties, ElementOfSeq DEF Once
<1>1. /\ r \in Seq(Videos) /\ Len(r) = Len(s) - 1
      /\ \A k \in 1..(Len(s) - 1) : r[k] = IF k < i THEN s[k] ELSE s[k + 1]
  BY SequenceWithout
<1>2. Upload!RemoveAt(s, i) = r
  BY DEF Upload!RemoveAt
<1> HIDE DEF r
<1>3. DOMAIN r = 1..(Len(s) - 1)
  BY <1>1, LenProperties
<1>4. ASSUME NEW k \in 1..(Len(s) - 1)
      PROVE  \E x \in 1..Len(s) : x # i /\ r[k] = s[x] /\ x = IF k < i THEN k ELSE k + 1
  <2>1. CASE k < i
    <3>1. k \in 1..Len(s) /\ k # i /\ r[k] = s[k]
      BY <1>0, <1>1, <2>1
    <3> QED BY <2>1, <3>1
  <2>2. CASE ~(k < i)
    <3>1. k + 1 \in 1..Len(s) /\ k + 1 # i /\ r[k] = s[k + 1]
      BY <1>0, <1>1, <2>2
    <3> QED BY <2>2, <3>1
  <2> QED BY <2>1, <2>2
<1>5. Once(r)
  <2>1. SUFFICES ASSUME NEW k \in 1..(Len(s) - 1), NEW m \in 1..(Len(s) - 1), r[k] = r[m]
                 PROVE  k = m
    BY <1>3 DEF Once
  <2>2. PICK x \in 1..Len(s) : r[k] = s[x] /\ x = IF k < i THEN k ELSE k + 1
    BY <1>4
  <2>3. PICK y \in 1..Len(s) : r[m] = s[y] /\ y = IF m < i THEN m ELSE m + 1
    BY <1>4
  <2>4. x = y
    BY <1>0, <2>1, <2>2, <2>3
  <2> QED BY <1>0, <2>2, <2>3, <2>4
<1>6. Upload!ToSet(r) = Upload!ToSet(s) \ {s[i]}
  <2>1. \A v \in Upload!ToSet(r) : v \in Upload!ToSet(s) /\ v # s[i]
    BY <1>0, <1>3, <1>4 DEF Upload!ToSet
  <2>2. ASSUME NEW x \in 1..Len(s), x # i PROVE s[x] \in Upload!ToSet(r)
    <3>1. CASE x < i
      <4>1. x \in 1..(Len(s) - 1) /\ r[x] = s[x]
        BY <1>0, <1>1, <3>1
      <4> QED BY <1>3, <4>1 DEF Upload!ToSet
    <3>2. CASE ~(x < i)
      <4>1. x - 1 \in 1..(Len(s) - 1) /\ ~(x - 1 < i) /\ (x - 1) + 1 = x
        BY <1>0, <2>2, <3>2
      <4>2. r[x - 1] = s[x]
        BY <1>1, <4>1
      <4> QED BY <1>3, <4>1, <4>2 DEF Upload!ToSet
    <3> QED BY <3>1, <3>2
  <2>3. \A v \in Upload!ToSet(s) : v # s[i] => v \in Upload!ToSet(r)
    BY <1>0, <2>2 DEF Upload!ToSet
  <2> QED BY <2>1, <2>3
<1>7. j \in 1..(Len(r) + 1)
  BY <1>0, <1>1
<1>8. order \in Seq(Videos) /\ Once(order) /\ Upload!ToSet(order) = Upload!ToSet(r) \cup {s[i]}
  <2>1. PICK e \in Videos : e = s[i]
    BY <1>0
  <2>2. e \notin Upload!ToSet(r)
    BY <1>6, <2>1
  <2>3. /\ Upload!InsertAt(r, j, e) \in Seq(Videos) /\ Once(Upload!InsertAt(r, j, e))
        /\ Upload!ToSet(Upload!InsertAt(r, j, e)) = Upload!ToSet(r) \cup {e}
    BY <1>1, <1>5, <1>7, <2>2, InsertedIs, InsertedHolds
  <2> QED BY <2>1, <2>3
<1>9. s[i] \in Upload!ToSet(s)
  BY <1>0 DEF Upload!ToSet
<1> QED BY <1>0, <1>2, <1>6, <1>8, <1>9

LEMMA HeldAreVideos ==
  ASSUME NEW l \in Upload!Listing PROVE Upload!Held(l) \subseteq Videos
<1>1. SUFFICES ASSUME NEW b \in Upload!Boxes PROVE Upload!ToSet(l[b]) \subseteq Videos
  BY DEF Upload!Held
<1>2. l[b] \in Seq(Videos)
  BY DEF Upload!Listing
<1>3. DOMAIN l[b] = 1..Len(l[b]) /\ \A i \in 1..Len(l[b]) : l[b][i] \in Videos
  BY <1>2, LenProperties, ElementOfSeq
<1> QED BY <1>3 DEF Upload!ToSet

\* What a call that was sent on listing l makes of it in the dialog.
Shows(l, c) ==
  IF c.op = "reorder" THEN [l EXCEPT ![c.box] = c.order]
  ELSE IF c.op = "move" THEN Upload!applyMove(l, c.file, c.box, c.place)
  ELSE IF c.op = "delete" THEN Upload!Without(l, c.file)
  ELSE l

\* What each call under way says; an upload is of a file that is nowhere yet.
CallsFit ==
  /\ \A c \in calls : c \in Upload!Call /\ Sorted(c.found) /\ Once(c.order) /\ c.place # 0
  /\ \A c \in calls : c.op = "upload" /\ c.stage = "sent" =>
       /\ c.file \notin Upload!Held(filed)
       /\ \A d \in calls : d.op = "upload" /\ d.file = c.file => d = c

\* The dialog and the server have each file in one place; a call that is alone shows what the
\* server is to make of it, and afterwards what it made.
UploadInv ==
  /\ CallsFit /\ Upload!SettledIsServers
  /\ Sorted(filed) /\ Sorted(mediaShown)
  /\ busyContainer \in Upload!Boxes /\ error \in {"none", "load", "upload", "change"}
  /\ overtakenList \in BOOLEAN /\ alone \in BOOLEAN /\ untold \in BOOLEAN
  /\ alone /\ calls = {} => mediaShown = filed
  /\ alone => \A c \in calls :
       /\ calls = {c}
       /\ c.stage = "sent" => mediaShown = Shows(filed, c)
       /\ c.stage = "served" /\ c.op # "upload" => mediaShown = filed
       /\ c.stage = "refused" /\ c.op = "upload" => mediaShown = filed

LEMMA EmptyIs == Upload!Empty \in Upload!Listing /\ Sorted(Upload!Empty)
<1>1. \A b \in Upload!Boxes : Upload!Empty[b] = <<>>
  BY DEF Upload!Empty
<1>2. <<>> \in Seq(Videos) /\ Once(<<>>) /\ Upload!ToSet(<<>>) = {}
  BY EmptySeq DEF Once, Upload!ToSet
<1>3. Upload!Empty \in Upload!Listing
  BY <1>2 DEF Upload!Empty, Upload!Listing
<1> QED BY <1>1, <1>2, <1>3 DEF Sorted

LEMMA UploadStart == ASSUME Upload!Init PROVE UploadInv
<1>1. PICK v \in {t \in SUBSET Videos : t # {}}, b \in Upload!Boxes :
        filed = [Upload!Empty EXCEPT ![b] = Upload!SetToSeq(v)]
  BY DEF Upload!Init
<1>2. /\ mediaShown = filed /\ calls = {} /\ busyContainer = Unassigned /\ error = "none"
      /\ overtakenList = FALSE /\ alone = TRUE /\ untold = FALSE
  BY DEF Upload!Init
<1>3. Upload!SetToSeq(v) \in Seq(Videos) /\ Once(Upload!SetToSeq(v))
  <2>1. IsFiniteSet(v)
    BY UploadFacts, FS_Subset
  <2>2. Cardinality(v) \in Nat /\ ExistsBijection(1..Cardinality(v), v)
    BY <2>1, FS_CardinalityType
  <2>3. \E f \in [1..Cardinality(v) -> v] : Upload!IsInjective(f)
    BY <2>2 DEF ExistsBijection, Bijection, Injection, IsInjective, Upload!IsInjective
  <2>4. Upload!SetToSeq(v) = CHOOSE f \in [1..Upload!Cardinality(v) -> v] : Upload!IsInjective(f)
    BY DEF Upload!SetToSeq
  <2>5. /\ Upload!SetToSeq(v) \in [1..Cardinality(v) -> v]
        /\ Upload!IsInjective(Upload!SetToSeq(v))
    BY <2>3, <2>4, CountedAlike
  <2>6. Upload!SetToSeq(v) \in Seq(Videos)
    BY <2>2, <2>5, SeqDef
  <2> QED BY <2>5, <2>6 DEF Once, Upload!IsInjective
<1> DEFINE s == Upload!SetToSeq(v)
<1>4. \A d \in Upload!Boxes \ {b} : Upload!ToSet(s) \cap Upload!ToSet(Upload!Empty[d]) = {}
  BY DEF Upload!Empty, Upload!ToSet
<1> HIDE DEF s
<1>5. Sorted(filed)
  <2>1. s \in Seq(Videos) /\ Once(s)
    BY <1>3 DEF s
  <2>2. Sorted([Upload!Empty EXCEPT ![b] = s])
    BY <1>4, <2>1, EmptyIs, ReplacedIs
  <2> QED BY <1>1, <2>2 DEF s
<1> QED BY <1>2, <1>5 DEF UploadInv, CallsFit, Upload!SettledIsServers, Upload!Boxes

Asked(op, f, b, order, p) ==
  [op |-> op, file |-> f, box |-> b, order |-> order, place |-> p,
   stage |-> "sent", found |-> Upload!Empty]

\* A change is asked for.
LEMMA AskKeeps ==
  ASSUME UploadInv, NEW op \in Upload!Ops, NEW f \in Videos, NEW b \in Upload!Boxes,
         NEW order \in Seq(Videos), Once(order), NEW p \in Nat \ {0},
         Upload!Ask(op, f, b, order, p), Sorted(mediaShown'),
         filed' = filed, overtakenList' = overtakenList, untold' = untold,
         busyContainer' \in Upload!Boxes, error' \in {"none", "load", "upload", "change"},
         op = "upload" => f \notin Upload!Held(filed) /\ \A c \in calls : c.file # f,
         alone /\ calls = {} => mediaShown' = Shows(filed, Asked(op, f, b, order, p))
  PROVE  UploadInv'
<1>1. PICK a : a = Asked(op, f, b, order, p)
  OBVIOUS
<1>2. /\ a \in Upload!Call /\ Sorted(a.found) /\ Once(a.order) /\ a.place # 0
      /\ a.op = op /\ a.file = f /\ a.stage = "sent"
  BY <1>1, EmptyIs DEF Asked, Upload!Call
<1>3. calls' = calls \cup {a} /\ a \in calls'
  BY <1>1 DEF Upload!Ask, Asked
<1>4. CallsFit'
  <2>1. \A c \in calls : /\ c \in Upload!Call /\ Sorted(c.found) /\ Once(c.order) /\ c.place # 0
    BY DEF UploadInv, CallsFit
  <2>2. ASSUME NEW c \in calls', c.op = "upload", c.stage = "sent"
        PROVE  /\ c.file \notin Upload!Held(filed)
               /\ \A d \in calls' : d.op = "upload" /\ d.file = c.file => d = c
    <3>1. CASE c = a
      <4>1. f \notin Upload!Held(filed) /\ \A d \in calls : d.file # f
        BY <1>2, <2>2, <3>1
      <4> QED BY <1>2, <1>3, <3>1, <4>1
    <3>2. CASE c # a
      <4>1. c \in calls
        BY <1>3, <2>2, <3>2
      <4>2. /\ c.file \notin Upload!Held(filed)
            /\ \A d \in calls : d.op = "upload" /\ d.file = c.file => d = c
        BY <2>2, <4>1 DEF UploadInv, CallsFit
      <4>3. ~(a.op = "upload" /\ a.file = c.file)
        BY <1>2, <4>1
      <4> QED BY <1>3, <4>2, <4>3
    <3> QED BY <3>1, <3>2
  <2>3. (\A c \in calls : /\ c \in Upload!Call /\ Sorted(c.found) /\ Once(c.order) /\ c.place # 0)'
    BY <1>2, <1>3, <2>1
  <2> QED BY <2>2, <2>3 DEF CallsFit
<1>5. Sorted(filed)' /\ Upload!SettledIsServers'
  BY <1>3 DEF UploadInv, Upload!SettledIsServers
<1>6. alone' \in BOOLEAN /\ (alone' => alone /\ calls = {})
  BY DEF UploadInv, Upload!Ask
<1>7. ASSUME alone', NEW c \in calls' PROVE c = a /\ calls' = {c} /\ mediaShown' = Shows(filed, c)
  <2>1. alone /\ calls = {}
    BY <1>6, <1>7
  <2>2. c = a /\ calls' = {c}
    BY <1>3, <1>7, <2>1
  <2> QED BY <1>1, <2>1, <2>2
<1>8. overtakenList' \in BOOLEAN /\ untold' \in BOOLEAN
  BY DEF UploadInv
<1>9. (alone => \A c \in calls :
         /\ calls = {c}
         /\ c.stage = "sent" => mediaShown = Shows(filed, c)
         /\ c.stage = "served" /\ c.op # "upload" => mediaShown = filed
         /\ c.stage = "refused" /\ c.op = "upload" => mediaShown = filed)'
  BY <1>2, <1>7
<1>10. (alone /\ calls = {} => mediaShown = filed)'
  BY <1>3
<1> QED BY <1>3, <1>4, <1>5, <1>6, <1>8, <1>9, <1>10 DEF UploadInv

\* A call goes on, to another stage, or ends.
LEMMA CallsGoOn ==
  ASSUME UploadInv, NEW c \in calls, NEW d \in Upload!Call, Sorted(d.found), Once(d.order), d.place # 0,
         d.op = c.op, d.file = c.file, d.stage # "sent",
         calls' = (calls \ {c}) \cup {d} \/ calls' = calls \ {c},
         Upload!Held(filed') \subseteq Upload!Held(filed) \cup {c.file},
         (c.op = "upload" /\ c.stage = "sent") \/ Upload!Held(filed') \subseteq Upload!Held(filed)
  PROVE  CallsFit'
<1>1. \A e \in calls : e \in Upload!Call /\ Sorted(e.found) /\ Once(e.order) /\ e.place # 0
  BY DEF UploadInv, CallsFit
<1>2. (\A e \in calls : e \in Upload!Call /\ Sorted(e.found) /\ Once(e.order) /\ e.place # 0)'
  BY <1>1
<1>3. ASSUME NEW e \in calls', e.op = "upload", e.stage = "sent"
      PROVE  /\ e.file \notin Upload!Held(filed')
             /\ \A g \in calls' : g.op = "upload" /\ g.file = e.file => g = e
  <2>1. e \in calls /\ e # c
    BY <1>3
  <2>2. /\ e.file \notin Upload!Held(filed)
        /\ \A g \in calls : g.op = "upload" /\ g.file = e.file => g = e
    BY <1>3, <2>1 DEF UploadInv, CallsFit
  <2>3. ~(c.op = "upload" /\ c.file = e.file)
    BY <2>1, <2>2
  <2>4. e.file \notin Upload!Held(filed')
    BY <2>2, <2>3
  <2>5. \A g \in calls' : g \in calls \/ g = d
    OBVIOUS
  <2> QED BY <2>2, <2>3, <2>4, <2>5
<1> QED BY <1>2, <1>3 DEF CallsFit

LEMMA NothingIs == <<>> \in Seq(Videos) /\ Once(<<>>)
BY EmptySeq DEF Once

\* What a box of a sorted listing holds.
LEMMA BoxIs ==
  ASSUME NEW l, Sorted(l), NEW b \in Upload!Boxes
  PROVE  /\ l[b] \in Seq(Videos) /\ Once(l[b]) /\ Len(l[b]) \in Nat /\ DOMAIN l[b] = 1..Len(l[b])
         /\ Upload!ToSet(l[b]) \subseteq Upload!Held(l) /\ Upload!ToSet(l[b]) \subseteq Videos
<1>1. l \in Upload!Listing /\ l[b] \in Seq(Videos) /\ Once(l[b])
  BY DEF Sorted, Upload!Listing
<1>2. Upload!ToSet(l[b]) \subseteq Upload!Held(l)
  BY DEF Upload!Held
<1> QED BY <1>1, <1>2, HeldAreVideos, LenProperties

LEMMA DragWithinKeeps ==
  ASSUME UploadInv, NEW b \in Groups,
         NEW i \in DOMAIN mediaShown[b], NEW j \in DOMAIN mediaShown[b], Upload!DragWithin(b, i, j)
  PROVE  UploadInv'
<1> DEFINE s == mediaShown[b]
<1>1. /\ b \in Upload!Boxes /\ Sorted(mediaShown)
      /\ s \in Seq(Videos) /\ Once(s) /\ i \in 1..Len(s) /\ j \in 1..Len(s)
  BY BoxIs DEF UploadInv, Upload!Boxes
<1>2. PICK order : order = Upload!InsertAt(Upload!RemoveAt(s, i), j, s[i])
  OBVIOUS
<1>3. order \in Seq(Videos) /\ Once(order) /\ Upload!ToSet(order) = Upload!ToSet(s) /\ s[i] \in Videos
  BY <1>1, <1>2, OrderIs
<1>4. /\ mediaShown' = Upload!applyReorder(mediaShown, b, order)
      /\ Upload!Ask("reorder", s[i], b, order, 1)
      /\ UNCHANGED <<filed, busyContainer, error, overtakenList, untold>>
  BY <1>2 DEF Upload!DragWithin
<1>5. mediaShown' = [mediaShown EXCEPT ![b] = order]
  <2>1. Upload!Those(order, Upload!ToSet(s)) = order
    BY <1>3, ThoseAre
  <2>2. mediaShown' = [mediaShown EXCEPT ![b] = Upload!Those(order, Upload!ToSet(s))]
    BY <1>4 DEF Upload!applyReorder
  <2> QED BY <2>1, <2>2
<1>6. Sorted(mediaShown')
  <2>1. \A d \in Upload!Boxes \ {b} : Upload!ToSet(order) \cap Upload!ToSet(mediaShown[d]) = {}
    BY <1>1, <1>3 DEF Sorted
  <2>2. Sorted([mediaShown EXCEPT ![b] = order])
    BY <1>1, <1>3, <2>1, ReplacedIs
  <2> QED BY <1>5, <2>2
<1>7. alone /\ calls = {} => mediaShown' = Shows(filed, Asked("reorder", s[i], b, order, 1))
  BY <1>5 DEF UploadInv, Shows, Asked
<1> HIDE DEF s
<1>8. /\ "reorder" \in Upload!Ops /\ 1 \in Nat \ {0}
      /\ busyContainer' \in Upload!Boxes /\ error' \in {"none", "load", "upload", "change"}
  BY <1>4 DEF UploadInv, Upload!Ops
<1>9. PICK f \in Videos : f = s[i]
  BY <1>3
<1> QED BY <1>1, <1>3, <1>4, <1>6, <1>7, <1>8, <1>9, AskKeeps

\* A file moves to a place of another box.
LEMMA MovedIs ==
  ASSUME NEW l, Sorted(l), NEW f \in Videos, NEW b \in Upload!Boxes, NEW p \in Nat \ {0}
  PROVE  Sorted(Upload!applyMove(l, f, b, p))
<1> DEFINE w == Upload!Without(l, f)
           q == Upload!Clamped(p, Len(w[b]))
<1>1. Sorted(w) /\ f \notin Upload!Held(w) /\ w[b] \in Seq(Videos) /\ Len(w[b]) \in Nat
  BY WithoutIs, BoxIs
<1>2. /\ f \notin Upload!Held(l) => Upload!applyMove(l, f, b, p) = l
      /\ f \in Upload!Held(l) =>
           Upload!applyMove(l, f, b, p) =
             [w EXCEPT ![b] = IF b = Unassigned THEN Append(w[b], f) ELSE Upload!InsertAt(w[b], q, f)]
  BY DEF Upload!applyMove
<1> HIDE DEF w
<1>3. q \in 1..(Len(w[b]) + 1)
  BY <1>1 DEF Upload!Clamped
<1>4. Len(w[b]) + 1 \in 1..(Len(w[b]) + 1)
  BY <1>1
<1> HIDE DEF q
<1>5. Sorted([w EXCEPT ![b] = Append(w[b], f)])
  BY <1>1, <1>4, PutIs
<1>6. Sorted([w EXCEPT ![b] = Upload!InsertAt(w[b], q, f)])
  BY <1>1, <1>3, PutIs
<1> QED BY <1>2, <1>3, <1>5, <1>6 DEF w

LEMMA DragAcrossKeeps ==
  ASSUME UploadInv, NEW f \in Videos, NEW b \in Upload!Boxes, NEW p \in Nat \ {0},
         Upload!DragAcross(f, b, p)
  PROVE  UploadInv'
<1>1. /\ mediaShown' = Upload!applyMove(mediaShown, f, b, p)
      /\ Upload!Ask("move", f, b, <<>>, p)
      /\ UNCHANGED <<filed, busyContainer, error, overtakenList, untold>>
  BY DEF Upload!DragAcross
<1>2. Sorted(mediaShown')
  BY <1>1, MovedIs DEF UploadInv
<1>3. alone /\ calls = {} => mediaShown' = Shows(filed, Asked("move", f, b, <<>>, p))
  BY <1>1 DEF UploadInv, Shows, Asked
<1>4. /\ "move" \in Upload!Ops
      /\ busyContainer' \in Upload!Boxes /\ error' \in {"none", "load", "upload", "change"}
  BY <1>1 DEF UploadInv, Upload!Ops
<1> QED BY <1>1, <1>2, <1>3, <1>4, NothingIs, AskKeeps

LEMMA DeleteKeeps == ASSUME UploadInv, Upload!handleDelete PROVE UploadInv'
<1>1. PICK f \in Upload!Held(mediaShown) :
        /\ mediaShown' = Upload!applyDelete(mediaShown, f)
        /\ Upload!Ask("delete", f, Unassigned, <<>>, 1)
        /\ UNCHANGED <<filed, busyContainer, error, overtakenList, untold>>
  BY DEF Upload!handleDelete
<1>2. f \in Videos
  BY HeldAreVideos DEF UploadInv, Sorted
<1>3. Sorted(mediaShown')
  BY <1>1, WithoutIs DEF UploadInv, Upload!applyDelete
<1>4. alone /\ calls = {} => mediaShown' = Shows(filed, Asked("delete", f, Unassigned, <<>>, 1))
  BY <1>1 DEF UploadInv, Shows, Asked, Upload!applyDelete
<1>5. /\ "delete" \in Upload!Ops /\ 1 \in Nat \ {0} /\ Unassigned \in Upload!Boxes
      /\ busyContainer' \in Upload!Boxes /\ error' \in {"none", "load", "upload", "change"}
  BY <1>1 DEF UploadInv, Upload!Ops, Upload!Boxes
<1> QED BY <1>1, <1>2, <1>3, <1>4, <1>5, NothingIs, AskKeeps

LEMMA HandleUploadKeeps ==
  ASSUME UploadInv, NEW b \in Groups, Upload!handleUpload(b) PROVE UploadInv'
<1>1. PICK f \in Videos \ (Upload!Held(filed) \cup Upload!Held(mediaShown) \cup {c.file : c \in calls}) :
        Upload!Ask("upload", f, b, <<>>, 1)
  BY DEF Upload!handleUpload
<1>2. /\ busyContainer' = b /\ error' = "none"
      /\ UNCHANGED <<filed, mediaShown, overtakenList, untold>>
  BY DEF Upload!handleUpload
<1>3. b \in Upload!Boxes /\ "upload" \in Upload!Ops /\ 1 \in Nat \ {0}
  BY DEF Upload!Boxes, Upload!Ops
<1>4. f \in Videos /\ f \notin Upload!Held(filed) /\ \A c \in calls : c.file # f
  OBVIOUS
<1>5. Sorted(mediaShown')
  BY <1>2 DEF UploadInv
<1>6. alone /\ calls = {} => mediaShown' = Shows(filed, Asked("upload", f, b, <<>>, 1))
  BY <1>2 DEF UploadInv, Shows, Asked
<1> QED BY <1>1, <1>2, <1>3, <1>4, <1>5, <1>6, NothingIs, AskKeeps

LEMMA OpenKeeps == ASSUME UploadInv, Upload!Open PROVE UploadInv'
<1>1. /\ calls = {} /\ calls' = {}
      /\ mediaShown' = filed /\ filed' = filed /\ error' = "none"
      /\ overtakenList' = FALSE /\ alone' = TRUE /\ untold' = FALSE
      /\ busyContainer' = busyContainer
  BY DEF Upload!Open
<1> QED BY <1>1 DEF UploadInv, CallsFit, Upload!SettledIsServers

LEMMA CallIs ==
  ASSUME UploadInv, NEW c \in calls
  PROVE  /\ c.op \in Upload!Ops /\ c.file \in Videos /\ c.box \in Upload!Boxes
         /\ c.order \in Seq(Videos) /\ Once(c.order) /\ c.place \in Nat \ {0}
         /\ c.found \in Upload!Listing /\ Sorted(c.found)
         /\ c.stage \in {"sent", "served", "refused", "read"} /\ c \in Upload!Call
<1>1. c \in Upload!Call /\ Sorted(c.found) /\ Once(c.order) /\ c.place # 0
  BY DEF UploadInv, CallsFit
<1> QED BY <1>1 DEF Upload!Call

\* What the server makes of a call that it accepts: what the dialog has shown, and for an upload
\* the file at the end of its box.
LEMMA ServedIs ==
  ASSUME UploadInv, NEW c \in calls, Upload!Served(c)
  PROVE  /\ Sorted(filed') /\ Upload!Held(filed') \subseteq Upload!Held(filed) \cup {c.file}
         /\ c.op # "upload" => /\ filed' = Shows(filed, c)
                               /\ Upload!Held(filed') \subseteq Upload!Held(filed)
<1>1. /\ c.stage = "sent" /\ Upload!Acceptable(c) /\ Sorted(filed)
      /\ c.op \in Upload!Ops /\ c.file \in Videos /\ c.box \in Upload!Boxes
      /\ c.order \in Seq(Videos) /\ Once(c.order) /\ c.place \in Nat \ {0}
  BY CallIs DEF Upload!Served, UploadInv
<1>2. CASE c.op = "reorder"
  <2>1. filed' = [filed EXCEPT ![c.box] = c.order]
    BY <1>2 DEF Upload!Served
  <2>2. Upload!ToSet(c.order) = Upload!ToSet(filed[c.box])
    BY <1>1, <1>2 DEF Upload!Acceptable
  <2>3. \A d \in Upload!Boxes \ {c.box} : Upload!ToSet(c.order) \cap Upload!ToSet(filed[d]) = {}
    BY <1>1, <2>2 DEF Sorted
  <2>4. PICK b, s : b = c.box /\ s = c.order
    OBVIOUS
  <2>5. /\ Sorted([filed EXCEPT ![b] = s])
        /\ Upload!Held([filed EXCEPT ![b] = s]) \subseteq Upload!Held(filed) \cup Upload!ToSet(s)
    BY <1>1, <2>3, <2>4, ReplacedIs
  <2>6. Upload!ToSet(s) \subseteq Upload!Held(filed)
    BY <1>1, <2>2, <2>4, BoxIs
  <2>7. filed' = Shows(filed, c)
    BY <1>2, <2>1 DEF Shows
  <2> QED BY <2>1, <2>4, <2>5, <2>6, <2>7
<1>3. CASE c.op = "move"
  <2>1. PICK w, b, f, p : w = Upload!Without(filed, c.file) /\ b = c.box /\ f = c.file /\ p = c.place
    OBVIOUS
  <2>2. filed' = [w EXCEPT ![b] = Upload!InsertAt(w[b], IF b = Unassigned THEN Len(w[b]) + 1 ELSE p, f)]
    BY <1>3, <2>1 DEF Upload!Served
  <2>3. f \in Upload!Held(filed) /\ (b # Unassigned => p <= Len(w[b]) + 1)
    BY <1>1, <1>3, <2>1 DEF Upload!Acceptable
  <2>4. /\ Sorted(w) /\ f \notin Upload!Held(w) /\ Upload!Held(w) \subseteq Upload!Held(filed)
        /\ b \in Upload!Boxes /\ f \in Videos /\ p \in Nat \ {0}
    BY <1>1, <2>1, WithoutIs
  <2>5. w[b] \in Seq(Videos) /\ Len(w[b]) \in Nat
    BY <2>4, BoxIs
  <2>6. PICK q : q = IF b = Unassigned THEN Len(w[b]) + 1 ELSE p
    OBVIOUS
  <2>7. q \in 1..(Len(w[b]) + 1)
    BY <2>3, <2>4, <2>5, <2>6
  <2>8. /\ Sorted([w EXCEPT ![b] = Upload!InsertAt(w[b], q, f)])
        /\ Upload!Held([w EXCEPT ![b] = Upload!InsertAt(w[b], q, f)]) \subseteq Upload!Held(w) \cup {f}
        /\ q = Len(w[b]) + 1 => Upload!InsertAt(w[b], q, f) = Append(w[b], f)
    <3>1. Sorted(w) /\ b \in Upload!Boxes /\ f \in Videos /\ f \notin Upload!Held(w)
      BY <2>4
    <3>2. Sorted([w EXCEPT ![b] = Upload!InsertAt(w[b], q, f)])
      BY <2>7, <3>1, PutIs
    <3>3. Upload!Held([w EXCEPT ![b] = Upload!InsertAt(w[b], q, f)]) \subseteq Upload!Held(w) \cup {f}
      BY <2>7, <3>1, PutIs
    <3>4. q = Len(w[b]) + 1 => Upload!InsertAt(w[b], q, f) = Append(w[b], f)
      <4>1. PICK s : s = w[b]
        OBVIOUS
      <4>2. q = Len(s) + 1 => Upload!InsertAt(s, q, f) = Append(s, f)
        BY <2>5, <2>7, <3>1, <4>1, InsertedHolds
      <4> QED BY <4>1, <4>2
    <3> QED BY <3>2, <3>3, <3>4
  <2>9. filed' = [w EXCEPT ![b] = Upload!InsertAt(w[b], q, f)]
    BY <2>2, <2>6
  <2>10. filed' = Upload!applyMove(filed, f, b, p)
    <3>1. CASE b = Unassigned
      <4>1. Upload!applyMove(filed, f, b, p) = [w EXCEPT ![b] = Append(w[b], f)]
        BY <2>1, <2>3, <3>1 DEF Upload!applyMove
      <4> QED BY <2>6, <2>8, <2>9, <3>1, <4>1
    <3>2. CASE b # Unassigned
      <4>1. Upload!applyMove(filed, f, b, p) =
              [w EXCEPT ![b] = Upload!InsertAt(w[b], Upload!Clamped(p, Len(w[b])), f)]
        BY <2>1, <2>3, <3>2 DEF Upload!applyMove
      <4>2. Upload!Clamped(p, Len(w[b])) = p
        BY <2>3, <2>4, <2>5, <3>2 DEF Upload!Clamped
      <4> QED BY <2>6, <2>9, <3>2, <4>1, <4>2
    <3> QED BY <3>1, <3>2
  <2>11. filed' = Shows(filed, c)
    BY <1>3, <2>1, <2>10 DEF Shows
  <2> QED BY <2>1, <2>3, <2>4, <2>8, <2>9, <2>11
<1>4. CASE c.op = "delete"
  <2>1. filed' = Upload!Without(filed, c.file)
    BY <1>4 DEF Upload!Served
  <2>2. filed' = Shows(filed, c)
    BY <1>4, <2>1 DEF Shows
  <2>3. /\ Sorted(Upload!Without(filed, c.file))
        /\ Upload!Held(Upload!Without(filed, c.file)) \subseteq Upload!Held(filed)
    <3>1. PICK f : f = c.file
      OBVIOUS
    <3>2. Sorted(Upload!Without(filed, f)) /\ Upload!Held(Upload!Without(filed, f)) \subseteq Upload!Held(filed)
      BY <1>1, WithoutIs
    <3> QED BY <3>1, <3>2
  <2> QED BY <2>1, <2>2, <2>3
<1>5. CASE c.op = "upload"
  <2>1. filed' = [filed EXCEPT ![c.box] = Append(filed[c.box], c.file)]
    BY <1>5 DEF Upload!Served
  <2>2. c.file \notin Upload!Held(filed)
    BY <1>1, <1>5 DEF UploadInv, CallsFit
  <2>3. PICK b, f : b = c.box /\ f = c.file
    OBVIOUS
  <2>4. filed[b] \in Seq(Videos) /\ Len(filed[b]) + 1 \in 1..(Len(filed[b]) + 1)
    BY <1>1, <2>3, BoxIs
  <2>5. PICK q : q = Len(filed[b]) + 1
    OBVIOUS
  <2>6. /\ b \in Upload!Boxes /\ f \in Videos /\ f \notin Upload!Held(filed)
        /\ q \in 1..(Len(filed[b]) + 1)
    BY <1>1, <2>2, <2>3, <2>4, <2>5
  <2>7. Sorted([filed EXCEPT ![b] = Upload!InsertAt(filed[b], q, f)])
    BY <1>1, <2>6, PutIs
  <2>8. Upload!Held([filed EXCEPT ![b] = Upload!InsertAt(filed[b], q, f)]) \subseteq Upload!Held(filed) \cup {f}
    BY <1>1, <2>6, PutIs
  <2>9. Upload!InsertAt(filed[b], q, f) = Append(filed[b], f)
    <3>1. PICK s : s = filed[b]
      OBVIOUS
    <3>2. q = Len(s) + 1 => Upload!InsertAt(s, q, f) = Append(s, f)
      BY <2>4, <2>6, <3>1, InsertedHolds
    <3> QED BY <2>5, <3>1, <3>2
  <2> QED BY <1>5, <2>1, <2>3, <2>7, <2>8, <2>9
<1> QED BY <1>1, <1>2, <1>3, <1>4, <1>5 DEF Upload!Ops

LEMMA ServedKeeps ==
  ASSUME UploadInv, NEW c \in calls, Upload!Served(c) PROVE UploadInv'
<1> DEFINE d == [c EXCEPT !.stage = "served"]
<1>1. /\ c.stage = "sent" /\ calls' = (calls \ {c}) \cup {d}
      /\ UNCHANGED <<mediaShown, busyContainer, error, overtakenList, alone, untold>>
  BY DEF Upload!Served, Upload!Step
<1>2. /\ d \in Upload!Call /\ Sorted(d.found) /\ Once(d.order) /\ d.place # 0
      /\ d.op = c.op /\ d.file = c.file /\ d.stage = "served"
  BY CallIs DEF Upload!Call
<1> HIDE DEF d
<1>3. /\ Sorted(filed') /\ Upload!Held(filed') \subseteq Upload!Held(filed) \cup {c.file}
      /\ c.op # "upload" => filed' = Shows(filed, c) /\ Upload!Held(filed') \subseteq Upload!Held(filed)
  BY ServedIs
<1>4. CallsFit'
  BY <1>1, <1>2, <1>3, CallsGoOn
<1>5. calls' # {} /\ Upload!SettledIsServers'
  BY <1>1 DEF Upload!SettledIsServers
<1>6. Sorted(mediaShown')
  BY <1>1 DEF UploadInv
<1>7. ASSUME alone', NEW e \in calls'
      PROVE  calls' = {e} /\ e.stage = "served" /\ (e.op # "upload" => mediaShown' = filed')
  <2>1. calls = {c} /\ mediaShown = Shows(filed, c)
    BY <1>1, <1>7 DEF UploadInv
  <2>2. e = d /\ calls' = {d}
    BY <1>1, <1>7, <2>1
  <2> QED BY <1>1, <1>2, <1>3, <2>1, <2>2
<1>8. (alone => \A e \in calls :
         /\ calls = {e}
         /\ e.stage = "sent" => mediaShown = Shows(filed, e)
         /\ e.stage = "served" /\ e.op # "upload" => mediaShown = filed
         /\ e.stage = "refused" /\ e.op = "upload" => mediaShown = filed)'
  BY <1>7
<1>9. /\ busyContainer' \in Upload!Boxes /\ error' \in {"none", "load", "upload", "change"}
      /\ overtakenList' \in BOOLEAN /\ alone' \in BOOLEAN /\ untold' \in BOOLEAN
  BY <1>1 DEF UploadInv
<1> QED BY <1>3, <1>4, <1>5, <1>6, <1>8, <1>9 DEF UploadInv

LEMMA RefusedKeeps ==
  ASSUME UploadInv, NEW c \in calls, Upload!Refused(c) PROVE UploadInv'
<1> DEFINE d == [c EXCEPT !.stage = "refused"]
<1>1. /\ c.stage = "sent" /\ calls' = (calls \ {c}) \cup {d}
      /\ UNCHANGED <<filed, mediaShown, busyContainer, error, overtakenList, alone, untold>>
  BY DEF Upload!Refused, Upload!Step
<1>2. /\ d \in Upload!Call /\ Sorted(d.found) /\ Once(d.order) /\ d.place # 0
      /\ d.op = c.op /\ d.file = c.file /\ d.stage = "refused"
  BY CallIs DEF Upload!Call
<1> HIDE DEF d
<1>3. CallsFit'
  BY <1>1, <1>2, CallsGoOn
<1>4. calls' # {} /\ Upload!SettledIsServers'
  BY <1>1 DEF Upload!SettledIsServers
<1>5. Sorted(filed') /\ Sorted(mediaShown')
  BY <1>1 DEF UploadInv
<1>6. ASSUME alone', NEW e \in calls'
      PROVE  calls' = {e} /\ e.stage = "refused" /\ (e.op = "upload" => mediaShown' = filed')
  <2>1. calls = {c} /\ mediaShown = Shows(filed, c)
    BY <1>1, <1>6 DEF UploadInv
  <2>2. e = d /\ calls' = {d}
    BY <1>1, <1>6, <2>1
  <2>3. c.op = "upload" => Shows(filed, c) = filed
    BY DEF Shows
  <2> QED BY <1>1, <1>2, <2>1, <2>2, <2>3
<1>7. (alone => \A e \in calls :
         /\ calls = {e}
         /\ e.stage = "sent" => mediaShown = Shows(filed, e)
         /\ e.stage = "served" /\ e.op # "upload" => mediaShown = filed
         /\ e.stage = "refused" /\ e.op = "upload" => mediaShown = filed)'
  BY <1>6
<1>8. /\ busyContainer' \in Upload!Boxes /\ error' \in {"none", "load", "upload", "change"}
      /\ overtakenList' \in BOOLEAN /\ alone' \in BOOLEAN /\ untold' \in BOOLEAN
  BY <1>1 DEF UploadInv
<1> QED BY <1>3, <1>4, <1>5, <1>7, <1>8 DEF UploadInv

\* The answer of a call after which the list is read.
LEMMA ReadsKeep ==
  ASSUME UploadInv, NEW c \in calls, c.stage # "sent", NEW shown, Upload!TakenNext(c, shown, TRUE)
  PROVE  UploadInv'
<1> DEFINE d == [c EXCEPT !.stage = "read", !.found = filed]
<1>1. /\ calls' = (calls \ {c}) \cup {d} /\ error' = "none"
      /\ busyContainer' = (IF c.op = "upload" THEN Unassigned ELSE busyContainer)
      /\ UNCHANGED <<filed, mediaShown, overtakenList, alone>>
  BY DEF Upload!TakenNext, Upload!Step
<1>2. /\ d \in Upload!Call /\ Sorted(d.found) /\ Once(d.order) /\ d.place # 0
      /\ d.op = c.op /\ d.file = c.file /\ d.stage = "read"
  <2>1. filed \in Upload!Listing /\ Sorted(filed)
    BY DEF UploadInv, Sorted
  <2> QED BY <2>1, CallIs DEF Upload!Call
<1> HIDE DEF d
<1>3. CallsFit'
  BY <1>1, <1>2, CallsGoOn
<1>4. calls' # {} /\ Upload!SettledIsServers'
  BY <1>1 DEF Upload!SettledIsServers
<1>5. Sorted(filed') /\ Sorted(mediaShown')
  BY <1>1 DEF UploadInv
<1>6. ASSUME alone', NEW e \in calls' PROVE calls' = {e} /\ e.stage = "read"
  <2>1. calls = {c}
    BY <1>1, <1>6 DEF UploadInv
  <2> QED BY <1>1, <1>2, <1>6, <2>1
<1>7. (alone => \A e \in calls :
         /\ calls = {e}
         /\ e.stage = "sent" => mediaShown = Shows(filed, e)
         /\ e.stage = "served" /\ e.op # "upload" => mediaShown = filed
         /\ e.stage = "refused" /\ e.op = "upload" => mediaShown = filed)'
  BY <1>6
<1>8. busyContainer' \in Upload!Boxes
  BY <1>1 DEF UploadInv, Upload!Boxes
<1>9. untold' \in BOOLEAN
  BY DEF Upload!TakenNext
<1>10. overtakenList' \in BOOLEAN /\ alone' \in BOOLEAN
  BY <1>1 DEF UploadInv
<1> QED BY <1>1, <1>3, <1>4, <1>5, <1>7, <1>8, <1>9, <1>10 DEF UploadInv

\* An upload that failed: the error stays, and the list is not read.
LEMMA UploadFailsKeeps ==
  ASSUME UploadInv, NEW c \in calls, c.stage = "refused", c.op = "upload",
         Upload!TakenNext(c, "upload", FALSE)
  PROVE  UploadInv'
<1>1. /\ calls' = calls \ {c} /\ error' = "upload" /\ busyContainer' = Unassigned
      /\ UNCHANGED <<filed, mediaShown, overtakenList, alone>>
  BY DEF Upload!TakenNext
<1>2. CallsFit'
  BY <1>1, CallIs, CallsGoOn
<1>3. Upload!SettledIsServers'
  BY <1>1 DEF Upload!SettledIsServers
<1>4. Sorted(filed') /\ Sorted(mediaShown')
  BY <1>1 DEF UploadInv
<1>5. ASSUME alone' PROVE calls' = {} /\ mediaShown' = filed'
  BY <1>1, <1>5 DEF UploadInv
<1>6. (alone => \A e \in calls :
         /\ calls = {e}
         /\ e.stage = "sent" => mediaShown = Shows(filed, e)
         /\ e.stage = "served" /\ e.op # "upload" => mediaShown = filed
         /\ e.stage = "refused" /\ e.op = "upload" => mediaShown = filed)'
  BY <1>5
<1>7. untold' \in BOOLEAN
  BY DEF Upload!TakenNext
<1>8. overtakenList' \in BOOLEAN /\ alone' \in BOOLEAN /\ busyContainer' \in Upload!Boxes
  BY <1>1 DEF UploadInv, Upload!Boxes
<1> QED BY <1>1, <1>2, <1>3, <1>4, <1>5, <1>6, <1>7, <1>8 DEF UploadInv

LEMMA FetchedKeeps ==
  ASSUME UploadInv, NEW c \in calls, Upload!fetchData(c) \/ Upload!NotFetched(c) PROVE UploadInv'
<1>1. /\ c.stage = "read" /\ calls' = calls \ {c} /\ filed' = filed
      /\ busyContainer' = busyContainer /\ untold' = untold
  BY DEF Upload!fetchData, Upload!NotFetched
<1>2. CallsFit'
  BY <1>1, CallIs, CallsGoOn
<1>3. CASE Upload!fetchData(c)
  <2>1. /\ mediaShown' = c.found /\ overtakenList' = (c.found # filed) /\ error' = error
        /\ alone' = (calls = {c} /\ c.found = filed)
    BY <1>3 DEF Upload!fetchData
  <2>2. alone' => calls' = {} /\ mediaShown' = filed'
    BY <1>1, <2>1
  <2>3. (alone => \A e \in calls :
           /\ calls = {e}
           /\ e.stage = "sent" => mediaShown = Shows(filed, e)
           /\ e.stage = "served" /\ e.op # "upload" => mediaShown = filed
           /\ e.stage = "refused" /\ e.op = "upload" => mediaShown = filed)'
    BY <2>2
  <2>4. Upload!SettledIsServers'
    BY <1>1, <2>1 DEF Upload!SettledIsServers
  <2>5. Sorted(filed') /\ Sorted(mediaShown')
    BY <1>1, <2>1, CallIs DEF UploadInv
  <2>6. /\ busyContainer' \in Upload!Boxes /\ error' \in {"none", "load", "upload", "change"}
        /\ untold' \in BOOLEAN
    BY <1>1, <2>1 DEF UploadInv
  <2>7. overtakenList' \in BOOLEAN /\ alone' \in BOOLEAN
    BY <2>1
  <2> QED BY <1>2, <2>2, <2>3, <2>4, <2>5, <2>6, <2>7 DEF UploadInv
<1>4. CASE Upload!NotFetched(c)
  <2>1. mediaShown' = mediaShown /\ overtakenList' = overtakenList /\ error' = "load" /\ alone' = FALSE
    BY <1>4 DEF Upload!NotFetched
  <2> QED BY <1>1, <1>2, <2>1 DEF UploadInv, Upload!SettledIsServers
<1> QED BY <1>3, <1>4

LEMMA UploadKeeps == ASSUME UploadInv, [Upload!Next]_uploadVars PROVE UploadInv'
<1>1. CASE UNCHANGED uploadVars
  BY <1>1 DEF uploadVars, UploadInv, CallsFit, Upload!SettledIsServers
<1>2. CASE Upload!handleDragEnd
  <2>1. ASSUME NEW b \in Groups, NEW p \in 1..(Len(mediaShown[b]) + 1)
        PROVE  b \in Upload!Boxes /\ p \in Nat \ {0}
    BY BoxIs DEF UploadInv, Upload!Boxes
  <2>2. Unassigned \in Upload!Boxes /\ 1 \in Nat \ {0}
    BY DEF Upload!Boxes
  <2> QED BY <1>2, <2>1, <2>2, DragWithinKeeps, DragAcrossKeeps DEF Upload!handleDragEnd
<1>3. ASSUME NEW c \in calls, Upload!Answered(c) PROVE UploadInv'
  BY <1>3, ReadsKeep, UploadFailsKeeps DEF Upload!Answered
<1> QED BY <1>1, <1>2, <1>3, DeleteKeeps, HandleUploadKeeps, OpenKeeps, ServedKeeps, RefusedKeeps,
           FetchedKeeps DEF Upload!Next, Upload!Dialog

LEMMA UploadHolds == Spec => [](page = "upload" => UploadInv)
<1>1. Init => (page = "upload" => UploadInv)
  BY UploadStart DEF Init
<1>2. (page = "upload" => UploadInv)
        /\ [Next]_<<page, tabsVars, exportVars, fieldVars, hubVars, uploadVars, reviewVars, formVars>>
      => (page = "upload" => UploadInv)'
  BY UploadKeeps DEF Next
<1> QED BY <1>1, <1>2, PTL DEF Spec

\* The inspections offered for a file are of the mission chosen in its row, and it is measured
\* for the inspection it is attached to.  In the upload dialog a drag or a deletion alone shows
\* what the server makes of it (applyMove, applyReorder, applyDelete), each video is in one place
\* however many changes and lists cross, and the dialog ends with the server's list.
THEOREM FootageFollows == Spec => []FootageShown
<1>1. FieldInv => Field!OfferedAreMissions /\ Field!MeasuredIsAttached
  BY DEF FieldInv
<1>2. UploadInv => Upload!ShownAsServed
  BY DEF UploadInv, Upload!ShownAsServed
<1>3. UploadInv => Upload!ShownOnce
  BY SortedShowsOnce DEF UploadInv
<1>4. UploadInv => Upload!SettledIsServers
  BY DEF UploadInv
<1>5. (page = "field" => FieldInv) /\ (page = "upload" => UploadInv) => FootageShown
  BY <1>1, <1>2, <1>3, <1>4 DEF FootageShown
<1> QED BY <1>5, FieldHolds, UploadHolds, PTL

-----------------------------------------------------------------------------
(* Types *)

LEMMA PageStays == Spec => [](page \in Pages)
<1>1. Init => page \in Pages
  BY DEF Init
<1>2. page \in Pages
        /\ [Next]_<<page, tabsVars, exportVars, fieldVars, hubVars, uploadVars, reviewVars, formVars>>
      => (page \in Pages)'
  BY DEF Next
<1> QED BY <1>1, <1>2, PTL DEF Spec

\* Every variable of the page that is explored stays in its range.
THEOREM PagesStayTyped == Spec => []TypeOK
<1>1. UploadInv => Upload!TypeOK
  BY DEF UploadInv, CallsFit, Sorted, Upload!TypeOK
<1>2. /\ TabsInv => Tabs!TypeOK
      /\ ExportInv => Export!TypeOK
      /\ FieldInv => Field!TypeOK
      /\ HubInv => Hub!TypeOK
      /\ ReviewInv => Review!TypeOK
      /\ FormInv => Form!TypeOK
  BY DEF TabsInv, ExportInv, FieldInv, HubInv, ReviewInv, FormInv
<1>3. /\ page \in Pages
      /\ page = "tabs" => TabsInv
      /\ page = "export" => ExportInv
      /\ page = "field" => FieldInv
      /\ page = "hub" => HubInv
      /\ page = "upload" => UploadInv
      /\ page = "review" => ReviewInv
      /\ page = "form" => FormInv
      => TypeOK
  BY <1>1, <1>2 DEF TypeOK, Pages
<1> QED BY <1>3, PageStays, TabsHold, ExportHolds, FieldHolds, HubHolds, UploadHolds, ReviewHolds,
           FormHolds, PTL

=============================================================================
