------------------------------ MODULE UploadDialog ------------------------------
(***************************************************************************)
(* The dialog in which an operator uploads the videos of a mission and     *)
(* sorts them into its inspections (components/mission/                    *)
(* UploadDroneMediaDialog of frontend/src).  A drag or a deletion is shown *)
(* at once and sent; when the server has answered, the list is read again. *)
(* Several may be under way, and their answers overtake one another.       *)
(***************************************************************************)
EXTENDS Naturals, Sequences, FiniteSets, SequencesExt

CONSTANTS
  Groups,        \* the inspections of the mission
  Videos,
  Unassigned,    \* the bucket of files without an inspection
  MaxCalls       \* bound: calls under way

DialogAssumption == MaxCalls \in Nat /\ Unassigned \notin Groups /\ IsFiniteSet(Videos)

VARIABLES
  filed,        \* the server's: the files of each group, in their order
  mediaShown,   \* the same, as the dialog shows it
  calls,        \* under way: what was asked, and how far it is
  busyContainer, error,
  overtakenList, \* history: a list was shown after one read later
  alone,        \* history: one call at a time since a list was last shown
  untold        \* history: the last answer refused a change and no error was shown

uploadVars == <<filed, mediaShown, calls, busyContainer, error, overtakenList, alone, untold>>

Boxes == Groups \cup {Unassigned}

Listing == [Boxes -> Seq(Videos)]

Ops == {"reorder", "move", "delete", "upload"}

Call == [op : Ops, file : Videos, box : Boxes, order : Seq(Videos), place : Nat,
         stage : {"sent", "served", "refused", "read"}, found : Listing]

Held(l) == UNION {ToSet(l[b]) : b \in Boxes}

\* Every variable of the dialog and of the server stays in its range.
TypeOK ==
  /\ filed \in Listing /\ mediaShown \in Listing
  /\ calls \subseteq Call
  /\ busyContainer \in Boxes
  /\ error \in {"none", "load", "upload", "change"}
  /\ overtakenList \in BOOLEAN /\ alone \in BOOLEAN /\ untold \in BOOLEAN

Empty == [b \in Boxes |-> <<>>]

\* Files wait in the bucket or are in a group.
Init ==
  /\ \E s \in {t \in SUBSET Videos : t # {}}, b \in Boxes :
       filed = [Empty EXCEPT ![b] = SetToSeq(s)]
  /\ mediaShown = filed
  /\ calls = {} /\ busyContainer = Unassigned
  /\ error = "none"
  /\ overtakenList = FALSE /\ alone = TRUE /\ untold = FALSE

-----------------------------------------------------------------------------
(* What a change does to the list of the dialog *)

\* The files of s that are among those of S, in their order: the k-th is at the
\* place that has k such places up to it.
Those(s, S) ==
  LET at == {i \in DOMAIN s : s[i] \in S}
  IN  [k \in 1..Cardinality(at) |-> s[CHOOSE i \in at : Cardinality({j \in at : j <= i}) = k]]

Without(l, f) == [b \in Boxes |-> Those(l[b], Videos \ {f})]

applyDelete(l, f) == Without(l, f)

\* Mutant of applyReorder: the list is only sorted when it is read again.
applyReorder_later(l, b, order) == l

applyReorder(l, b, order) == [l EXCEPT ![b] = Those(order, ToSet(@))]

Clamped(p, n) == IF p > n + 1 THEN n + 1 ELSE p

\* Mutant of applyMove: the file stays where it was, too.
applyMove_copies(l, f, b, p) ==
  IF f \notin Held(l) THEN l
  ELSE [l EXCEPT ![b] = InsertAt(@, Clamped(p, Len(@)), f)]

\* To place p of a group, or to the end of the bucket.
applyMove(l, f, b, p) ==
  LET stripped == Without(l, f)
  IN  IF f \notin Held(l) THEN l
      ELSE [stripped EXCEPT ![b] = IF b = Unassigned THEN Append(@, f)
                                   ELSE InsertAt(@, Clamped(p, Len(@)), f)]

-----------------------------------------------------------------------------
(* The operator *)

Ask(op, f, b, order, p) ==
  /\ Cardinality(calls) < MaxCalls
  /\ calls' = calls \cup {[op |-> op, file |-> f, box |-> b, order |-> order, place |-> p,
                           stage |-> "sent", found |-> Empty]}
  /\ alone' = (alone /\ calls = {})

\* A file is dropped on another place of its group.
DragWithin(b, i, j) ==
  LET order == InsertAt(RemoveAt(mediaShown[b], i), j, mediaShown[b][i])
  IN  /\ i # j
      /\ mediaShown' = applyReorder(mediaShown, b, order)
      /\ Ask("reorder", mediaShown[b][i], b, order, 1)
      /\ UNCHANGED <<filed, busyContainer, error, overtakenList, untold>>

\* A file is dropped on another group, on a file of it or after the last one.
DragAcross(f, b, p) ==
  /\ f \in Held(mediaShown) /\ f \notin ToSet(mediaShown[b])
  /\ mediaShown' = applyMove(mediaShown, f, b, p)
  /\ Ask("move", f, b, <<>>, p)
  /\ UNCHANGED <<filed, busyContainer, error, overtakenList, untold>>

handleDragEnd ==
  \/ \E b \in Groups : \E i, j \in DOMAIN mediaShown[b] : DragWithin(b, i, j)
  \/ \E f \in Videos, b \in Groups : \E p \in 1..Len(mediaShown[b]) + 1 : DragAcross(f, b, p)
  \/ \E f \in Videos : DragAcross(f, Unassigned, 1)

handleDelete ==
  \E f \in Held(mediaShown) :
    /\ mediaShown' = applyDelete(mediaShown, f)
    /\ Ask("delete", f, Unassigned, <<>>, 1)
    /\ UNCHANGED <<filed, busyContainer, error, overtakenList, untold>>

\* One group at a time shows that it is busy; the others take files meanwhile.
handleUpload(b) ==
  /\ busyContainer # b
  /\ \E f \in Videos \ (Held(filed) \cup Held(mediaShown) \cup {c.file : c \in calls}) :
       Ask("upload", f, b, <<>>, 1)
  /\ busyContainer' = b /\ error' = "none"
  /\ UNCHANGED <<filed, mediaShown, overtakenList, untold>>

\* The dialog is opened again.
Open ==
  /\ calls = {}
  /\ mediaShown' = filed /\ error' = "none"
  /\ overtakenList' = FALSE /\ alone' = TRUE
  /\ untold' = FALSE
  /\ UNCHANGED <<filed, calls, busyContainer>>

-----------------------------------------------------------------------------
(* The server *)

Step(c, d) == calls' = (calls \ {c}) \cup {d}

\* The server takes a place of the group as it is, and an order of just its files.
Acceptable(c) ==
  CASE c.op = "reorder" -> ToSet(c.order) = ToSet(filed[c.box])
    [] c.op = "move"    -> /\ c.file \in Held(filed)
                           /\ c.box # Unassigned =>
                                c.place <= Len(Without(filed, c.file)[c.box]) + 1
    [] c.op = "delete"  -> c.file \in Held(filed)
    [] OTHER            -> TRUE

Served(c) ==
  /\ c.stage = "sent" /\ Acceptable(c)
  /\ filed' = CASE c.op = "reorder" -> [filed EXCEPT ![c.box] = c.order]
                [] c.op = "move"    ->
                     [Without(filed, c.file) EXCEPT
                        ![c.box] = InsertAt(@, IF c.box = Unassigned THEN Len(@) + 1 ELSE c.place,
                                            c.file)]
                [] c.op = "delete"  -> Without(filed, c.file)
                [] OTHER            -> [filed EXCEPT ![c.box] = Append(@, c.file)]
  /\ Step(c, [c EXCEPT !.stage = "served"])
  /\ UNCHANGED <<mediaShown, busyContainer, error, overtakenList, alone, untold>>

\* Refused, or not answered.
Refused(c) ==
  /\ c.stage = "sent"
  /\ Step(c, [c EXCEPT !.stage = "refused"])
  /\ UNCHANGED <<filed, mediaShown, busyContainer, error, overtakenList, alone, untold>>

\* The answer; the list is read next, and reading it clears the error.
TakenNext(c, errorThen, reads) ==
  /\ busyContainer' = IF c.op = "upload" THEN Unassigned ELSE busyContainer
  /\ IF reads THEN Step(c, [c EXCEPT !.stage = "read", !.found = filed]) ELSE calls' = calls \ {c}
  /\ error' = IF reads THEN "none" ELSE errorThen
  /\ untold' = (c.stage = "refused" /\ error' = "none")
  /\ UNCHANGED <<filed, mediaShown, overtakenList, alone>>

\* Mutant of Answered: after an error the list is not read again.
Answered_ok(c) ==
  \/ c.stage = "served" /\ TakenNext(c, "none", TRUE)
  \/ c.stage = "refused" /\ TakenNext(c, IF c.op = "upload" THEN "upload" ELSE "change", FALSE)

\* After an upload that failed the list is not read.
Answered(c) ==
  \/ c.stage = "served" /\ TakenNext(c, "none", TRUE)
  \/ c.stage = "refused" /\ c.op # "upload" /\ TakenNext(c, "change", TRUE)
  \/ c.stage = "refused" /\ c.op = "upload" /\ TakenNext(c, "upload", FALSE)

\* The list is shown, whatever the operator has done since it was read.
fetchData(c) ==
  /\ c.stage = "read"
  /\ mediaShown' = c.found
  /\ overtakenList' = (c.found # filed)
  /\ calls' = calls \ {c}
  /\ alone' = (calls = {c} /\ c.found = filed)
  /\ UNCHANGED <<filed, busyContainer, error, untold>>

\* The list cannot be read: the dialog keeps what it shows and says so.
NotFetched(c) ==
  /\ c.stage = "read"
  /\ error' = "load"
  /\ calls' = calls \ {c}
  /\ alone' = FALSE
  /\ UNCHANGED <<filed, mediaShown, busyContainer, overtakenList, untold>>

Dialog ==
  \/ handleDragEnd
  \/ handleDelete
  \/ \E b \in Groups : handleUpload(b)
  \/ Open

Next == Dialog \/ \E c \in calls : Served(c) \/ Refused(c) \/ Answered(c) \/ fetchData(c) \/ NotFetched(c)

Spec == Init /\ [][Next]_uploadVars

-----------------------------------------------------------------------------
(* Properties *)

\* A change that the dialog showed at once, on the server's list and with nothing
\* else under way, is what the server makes of it: the list read afterwards moves
\* nothing under the operator's hand.
ShownAsServed ==
  alone => \A c \in calls : c.stage = "served" /\ c.op # "upload" => mediaShown = filed

\* The dialog shows a file in one place, however lists and changes cross.
ShownOnce ==
  \A b, d \in Boxes : \A i \in DOMAIN mediaShown[b], j \in DOMAIN mediaShown[d] :
    mediaShown[b][i] = mediaShown[d][j] => b = d /\ i = j

\* When nothing is under way the dialog shows the server's list, unless the lists
\* overtook one another, or it has told an error since they were last the same.
SettledIsServers == calls = {} /\ ~overtakenList /\ error = "none" => mediaShown = filed

\* A change that the server refuses is told: the dialog has a message for each.
FailureIsTold == ~untold
=============================================================================
