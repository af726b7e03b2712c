-------------------------------- MODULE ListPages --------------------------------
(***************************************************************************)
(* The pages that list missions, drones, templates, users, airports and    *)
(* the audit log (hooks/use...List.ts and components/common of             *)
(* frontend/src).  They differ in what the server is asked to do - the     *)
(* airport, the search, the filter, the sort and the page may be part of   *)
(* the question or be applied to the answer - and in whether a question    *)
(* that is out of date is cancelled.  Names and classes of rows stand for  *)
(* what is searched and filtered.                                          *)
(***************************************************************************)
EXTENDS Naturals, Sequences, FiniteSets, SequencesExt

CONSTANTS
  Rows,          \* the rows there may be, numbers in the order they are sorted in
  scopeOf,       \* the airport of each
  classOf,       \* what the filter goes by: a status, a method, a role, a manufacturer, ...
  Names,         \* what the search finds a row by, numbers; 0 is no search
  Sizes,         \* rows on a page
  MaxListActs    \* bound

ListAssumption ==
  /\ Rows \subseteq Nat /\ IsFiniteSet(Rows) /\ Rows # {}
  /\ Names \subseteq Nat \ {0} /\ Sizes \subseteq Nat \ {0} /\ Sizes # {}
  /\ DOMAIN scopeOf = Rows /\ DOMAIN classOf = Rows /\ MaxListActs \in Nat

\* "fields" are the airports as a coordinator lists them, "airports" as an administrator does.
Kinds == {"missions", "drones", "fields", "templates", "users", "airports", "audit"}

Scoped        == {"missions", "templates"}           \* asked for one airport
Cancelling    == {"templates"}                       \* a question out of date is cancelled
AskedToSearch == {"users", "airports", "audit"}      \* the server searches
AskedToFilter == {"audit"}                           \* ... filters
AskedToSort   == {"audit"}                           \* ... sorts
AskedToPage   == {"users", "audit"}                  \* ... and cuts into pages
OneClass      == {"drones", "fields", "airports", "audit"} \* the filter is one choice, not several
AllActive     == {"missions"}                        \* all pills are lit where nothing is chosen
Deleting      == {"missions", "drones", "templates", "users"}
Changing      == {"missions", "users"}               \* a mission is renamed, a user (de)activated
Adding        == {"missions", "templates"}           \* duplicated, created in bulk
Retried       == {"missions", "drones", "fields", "templates"}

VARIABLES
  listKind,
  nameOf,        \* the server's rows: 0 where there is none
  view,          \* what is asked for: airport, search, filter, page, size, direction
  answer,        \* what came last, and to which question
  questions,     \* readings under way, numbered; the effect's are cancelled where the page does so
  readings,      \* history: the readings there have been
  answered,      \* history: the number of the one that was answered last
  operations,    \* deletions, changes and additions under way, with the view they were made in
  listLoading, listError,
  shrunk,        \* history: the page was turned among other rows, or rows were taken away since
  listActs

listVars == <<listKind, nameOf, view, answer, questions, readings, answered, operations,
              listLoading, listError, shrunk, listActs>>

historyVars == <<readings, answered>>

Scopes == {scopeOf[r] : r \in Rows}

Classes == {classOf[r] : r \in Rows}

TypeOK ==
  /\ listKind \in Kinds /\ nameOf \in [Rows -> Names \cup {0}]
  /\ view.scope \in Scopes /\ view.search \in Names \cup {0} /\ view.classes \subseteq Classes
  /\ view.page \in 0..Cardinality(Rows) /\ view.size \in Sizes /\ view.asc \in BOOLEAN
  /\ Range(answer.rows) \subseteq Rows /\ answer.total \in 0..Cardinality(Rows)
  /\ \A x \in questions : x.no \in 1..readings
  /\ readings \in Nat /\ answered \in 0..readings
  /\ listLoading \in BOOLEAN /\ listError \in BOOLEAN /\ shrunk \in BOOLEAN
  /\ listActs \in 0..MaxListActs

-----------------------------------------------------------------------------
(* Questions and answers *)

InOrder(s, asc) ==
  \A i, j \in DOMAIN s : i < j => IF asc THEN s[i] < s[j] ELSE s[j] < s[i]

Sorted(rows, asc) == CHOOSE s \in [1..Cardinality(rows) -> rows] : InOrder(s, asc)

Cut(rows, v) ==
  SubSeq(rows, v.page * v.size + 1,
         IF (v.page + 1) * v.size < Len(rows) THEN (v.page + 1) * v.size ELSE Len(rows))

\* rowMatches of a filter: no choice is every row.
Chosen(rows, v) == {r \in rows : v.classes = {} \/ classOf[r] \in v.classes}

Found(rows, v) == {r \in rows : v.search \in {0, nameOf[r]}}

\* The part of the view that the server is asked for.
Question(v) ==
  [scope   |-> IF listKind \in Scoped THEN v.scope ELSE CHOOSE s \in Scopes : TRUE,
   search  |-> IF listKind \in AskedToSearch THEN v.search ELSE 0,
   classes |-> IF listKind \in AskedToFilter THEN v.classes ELSE {},
   asc     |-> IF listKind \in AskedToSort THEN v.asc ELSE TRUE,
   page    |-> IF listKind \in AskedToPage THEN v.page ELSE 0,
   size    |-> IF listKind \in AskedToPage THEN v.size ELSE Cardinality(Rows)]

Served(q) ==
  LET rows == {r \in Rows : nameOf[r] # 0 /\ (listKind \in Scoped => scopeOf[r] = q.scope)}
      fits == Chosen(Found(rows, q), q) IN
  [rows |-> Cut(Sorted(fits, q.asc), q), total |-> Cardinality(fits), q |-> q]

\* What the page makes of the answer: it filters, searches and sorts what it was not answered so,
\* and cuts.
Displayed ==
  LET found == IF listKind \in AskedToSearch THEN Range(answer.rows)
               ELSE Found(Range(answer.rows), view)
      rows  == IF listKind \in AskedToFilter THEN found ELSE Chosen(found, view)
      all   == Sorted(rows, view.asc) IN
  IF listKind \in AskedToPage THEN all ELSE Cut(all, view)

-----------------------------------------------------------------------------
(* Asking *)

\* A reading is sent; the others stay on their way.
Ask(others, q, cancellable) ==
  /\ questions' = others \cup {[no |-> readings + 1, q |-> q, cancellable |-> cancellable,
                                found |-> {}]}
  /\ readings' = readings + 1
  /\ listLoading' = TRUE /\ listError' = FALSE

\* The effect asks whenever the question changes.
Effect(v) ==
  /\ view' = v
  /\ IF Question(v) = Question(view)
     THEN UNCHANGED <<questions, readings, listLoading, listError>>
     ELSE Ask({x \in questions : listKind \in Cancelling => ~x.cancellable}, Question(v), TRUE)

Act == listActs < MaxListActs /\ listActs' = listActs + 1

Turn(v) ==
  /\ Act /\ v # view /\ Effect(v)
  /\ UNCHANGED <<listKind, nameOf, answer, answered, operations>>

\* Mutant: the page stays what it was.
handleSearchChange_page(n) ==
  Turn([view EXCEPT !.search = n]) /\ UNCHANGED shrunk

handleSearchChange(n) ==
  Turn([view EXCEPT !.search = n, !.page = 0]) /\ shrunk' = FALSE

\* From all of them lit, a click isolates a pill; further clicks add and remove others.
Toggled(c) ==
  IF listKind \in OneClass THEN IF c \in view.classes THEN {} ELSE {c}
  ELSE IF listKind \in AllActive /\ view.classes = Classes THEN {c}
  ELSE IF c \in view.classes THEN view.classes \ {c} ELSE view.classes \cup {c}

handleFilterChange(c) ==
  Turn([view EXCEPT !.classes = Toggled(c), !.page = 0]) /\ shrunk' = FALSE

handleReset ==
  /\ listKind \notin OneClass
  /\ Turn([view EXCEPT !.classes = IF listKind \in AllActive THEN Classes ELSE {}, !.page = 0])
  /\ shrunk' = FALSE

handleSort == Turn([view EXCEPT !.asc = ~@]) /\ UNCHANGED shrunk

handlePageSizeChange(n) ==
  Turn([view EXCEPT !.size = n, !.page = 0]) /\ shrunk' = FALSE

\* The answer shown is that of the last reading, to what the page asks now.  Nothing keeps an older
\* reading from being answered after it.
Current == questions = {} /\ ~listError /\ answered = readings /\ answer.q = Question(view)

\* The pages there are: of what the server counted, or of what the page has.
PageCount ==
  LET count == IF listKind \in AskedToPage THEN answer.total
               ELSE Cardinality(Chosen(Found(Range(answer.rows), view), view)) IN
  (count + view.size - 1) \div view.size

setPage(n) ==
  /\ n < PageCount /\ Turn([view EXCEPT !.page = n])
  /\ shrunk' = (n > 0 /\ (shrunk \/ ~Current))

\* Another airport is chosen beside the page, which keeps the page it is at.
AirportChosen(s) ==
  /\ listKind \in Scoped
  /\ Turn([view EXCEPT !.scope = s]) /\ shrunk' = (shrunk \/ view.page > 0)

\* The list is read again, by the button of a failure.
Retry ==
  /\ listKind \in Retried /\ listError /\ ~listLoading /\ Act
  /\ Ask(questions, Question(view), FALSE)
  /\ UNCHANGED <<listKind, nameOf, view, answer, answered, operations, shrunk>>

-----------------------------------------------------------------------------
(* Answers *)

\* The server answers a reading with the rows it has by then.
Serve(x) ==
  /\ x.found = {}
  /\ questions' = (questions \ {x}) \cup {[x EXCEPT !.found = {Served(x.q)}]}
  /\ UNCHANGED <<listKind, nameOf, view, answer, operations, listLoading, listError, shrunk,
                 listActs>>
  /\ UNCHANGED historyVars

\* Mutant: the end of a question that was answered alone ends the wait.
Answered_only(x) ==
  /\ \E rows \in x.found : answer' = rows
  /\ questions' = questions \ {x} /\ answered' = x.no
  /\ UNCHANGED <<listKind, nameOf, view, readings, operations, listLoading, listError, shrunk,
                 listActs>>

\* Mutant: the rows of an earlier answer stay.
Answered_more(x) ==
  /\ \E rows \in x.found :
       answer' = IF Range(rows.rows) \subseteq Range(answer.rows)
                 THEN [answer EXCEPT !.q = x.q] ELSE rows
  /\ questions' = questions \ {x} /\ answered' = x.no /\ listLoading' = FALSE
  /\ UNCHANGED <<listKind, nameOf, view, readings, operations, listError, shrunk, listActs>>

\* Whatever the page asks by then, and whichever was answered before, the answer is shown.
Answered(x) ==
  /\ \E rows \in x.found : answer' = rows
  /\ questions' = questions \ {x} /\ answered' = x.no /\ listLoading' = FALSE
  /\ UNCHANGED <<listKind, nameOf, view, readings, operations, listError, shrunk, listActs>>

Failed(x) ==
  /\ questions' = questions \ {x} /\ listLoading' = FALSE
  /\ listError' = TRUE
  /\ UNCHANGED <<listKind, nameOf, view, answer, operations, shrunk, listActs>>
  /\ UNCHANGED historyVars

-----------------------------------------------------------------------------
(* Rows are deleted, changed and added *)

Operate(what, r) ==
  /\ Act /\ r \in Range(Displayed) /\ ~listLoading
  /\ listKind \in CASE what = "delete" -> Deleting [] what = "change" -> Changing [] OTHER -> Adding
  /\ operations' = operations \cup {[what |-> what, row |-> r, q |-> Question(view)]}
  /\ UNCHANGED <<listKind, nameOf, view, answer, questions, listLoading, listError, shrunk>>
  /\ UNCHANGED historyVars

\* Mutant: the list is not read again.
Operated_unread(o) ==
  /\ o \in operations /\ operations' = operations \ {o}
  /\ IF o.what = "add"
     THEN \E r \in Rows : nameOf[r] = 0 /\ nameOf' = [nameOf EXCEPT ![r] = nameOf[o.row]]
     ELSE /\ nameOf[o.row] # 0
          /\ \E n \in Names \cup {0} : /\ n = 0 <=> o.what = "delete"
                                       /\ nameOf' = [nameOf EXCEPT ![o.row] = n]
  /\ shrunk' = (shrunk \/ view.page > 0)
  /\ UNCHANGED <<listKind, view, answer, questions, listLoading, listError, listActs>>
  /\ UNCHANGED historyVars

\* It is done, and the list is read again - as it was asked for when the row was acted on.
Operated(o) ==
  /\ o \in operations /\ operations' = operations \ {o}
  /\ IF o.what = "add"
     THEN \E r \in Rows : nameOf[r] = 0 /\ nameOf' = [nameOf EXCEPT ![r] = nameOf[o.row]]
     ELSE /\ nameOf[o.row] # 0
          /\ \E n \in Names \cup {0} : /\ n = 0 <=> o.what = "delete"
                                       /\ nameOf' = [nameOf EXCEPT ![o.row] = n]
  /\ Ask(questions, o.q, FALSE)
  /\ shrunk' = (shrunk \/ view.page > 0)
  /\ UNCHANGED <<listKind, view, answer, answered, listActs>>

NotOperated(o) ==
  /\ o \in operations /\ operations' = operations \ {o}
  /\ UNCHANGED <<listKind, nameOf, view, answer, questions, listLoading, listError, shrunk,
                 listActs>>
  /\ UNCHANGED historyVars

-----------------------------------------------------------------------------

Viewer ==
  \/ \E n \in Names \cup {0} : handleSearchChange(n)
  \/ \E c \in Classes : handleFilterChange(c)
  \/ handleReset
  \/ handleSort
  \/ \E n \in Sizes : handlePageSizeChange(n)
  \/ \E n \in 0..Cardinality(Rows) : setPage(n)
  \/ \E s \in Scopes : AirportChosen(s)
  \/ Retry
  \/ \E r \in Rows, what \in {"delete", "change", "add"} : Operate(what, r)

Answers ==
  \/ \E x \in questions : Serve(x) \/ Answered(x) \/ Failed(x)
  \/ \E o \in operations : Operated(o) \/ NotOperated(o)

Init ==
  /\ listKind \in Kinds
  /\ nameOf \in [Rows -> Names \cup {0}]
  /\ view = [scope |-> CHOOSE s \in Scopes : TRUE, search |-> 0,
             classes |-> IF listKind \in AllActive THEN Classes ELSE {},
             page |-> 0, size |-> CHOOSE n \in Sizes : \A m \in Sizes : n <= m, asc |-> TRUE]
  /\ answer = [rows |-> <<>>, total |-> 0, q |-> Question(view)]
  /\ questions = {[no |-> 1, q |-> Question(view), cancellable |-> TRUE, found |-> {}]}
  /\ readings = 1 /\ answered = 0
  /\ operations = {} /\ listLoading = TRUE /\ listError = FALSE
  /\ shrunk = FALSE /\ listActs = 0

Next == Viewer \/ Answers

-----------------------------------------------------------------------------
(* Properties *)

Settled == operations = {} /\ Current

\* When every answer has come, the last one to the last reading, and that of what the page asks,
\* the list shows the server's rows that fit - on the page it is at.  (Users are filtered after
\* they were cut into pages.)
ListIsServers ==
  LET all  == {r \in Rows : nameOf[r] # 0 /\ (listKind \in Scoped => scopeOf[r] = view.scope)}
      fits == Found(all, view) IN
  Settled =>
    Displayed = IF listKind = "users"
                THEN Sorted(Chosen(Range(Cut(Sorted(fits, TRUE), view)), view), view.asc)
                ELSE Cut(Sorted(Chosen(fits, view), view.asc), view)

\* A narrower search or filter never leaves the viewer beyond the last page: only rows that were
\* taken away, or another airport's, do.
PageInRange == Settled /\ view.page > 0 /\ ~shrunk => Len(Displayed) > 0 \/ listKind = "users"

\* The list is shown as loading only while an answer is to come.
LoadingEnds == listLoading => questions # {}
=============================================================================
