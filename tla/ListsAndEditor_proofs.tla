------------------------- MODULE ListsAndEditor_proofs -------------------------
(***************************************************************************)
(* Lemmas and a theorem about two of the pages of a coordinator, the lists *)
(* and the airport editor, for all rows, units and histories and every     *)
(* limit.  CoordinatorPages_proofs goes on from here.                      *)
(***************************************************************************)
EXTENDS CoordinatorPages, FiniteSetTheorems, SequenceTheorems, WellFoundedInduction, TLAPS

-----------------------------------------------------------------------------
(* Sorted rows *)

Less == {ss \in Nat \X Nat : ss[1] < ss[2]}

\* A set of numbers has a least one.
LEMMA LeastThere ==
  ASSUME NEW S \in SUBSET Nat, S # {}
  PROVE  \E n \in S : \A m \in S : n <= m
<1>1. OpToRel(<, Nat) = Less
  BY DEF OpToRel, Less
<1>2. IsWellFoundedOn(Less, Nat)
  BY <1>1, NatLessThanWellFounded
<1>3. PICK n \in S : \A m \in S : ~ (<<m, n>> \in Less)
  BY <1>2, WFMin
<1>4. \A m \in S : ~ (m < n) /\ m \in Nat /\ n \in Nat
  BY <1>3 DEF Less
<1> QED BY <1>4

LEMMA RowsCounted == ASSUME NEW S PROVE Table!Cardinality(S) = Cardinality(S)
BY DEF Table!Cardinality, Cardinality

\* The rows of a set, in order.
Orders(S, asc) == {s \in [1..Cardinality(S) -> S] : Table!InOrder(s, asc)}

\* A least row is put before or behind the others.
LEMMA OrderGrows ==
  ASSUME NEW S \in SUBSET Nat, IsFiniteSet(S), NEW asc \in BOOLEAN,
         NEW m \in S, \A x \in S : m <= x, NEW t \in Orders(S \ {m}, asc)
  PROVE  \E s : s \in Orders(S, asc)
<1> DEFINE n == Cardinality(S)
           s == [i \in 1..n |-> IF asc THEN IF i = 1 THEN m ELSE t[i - 1]
                                ELSE IF i = n THEN m ELSE t[i]]
<1>1. n \in Nat /\ Cardinality(S \ {m}) = n - 1 /\ n # 0
  BY FS_CardinalityType, FS_RemoveElement, FS_EmptySet
<1>2. t \in [1..(n - 1) -> S \ {m}] /\ Table!InOrder(t, asc)
  BY <1>1 DEF Orders
<1> HIDE DEF n
<1>3. \A i \in 1..(n - 1) : t[i] \in S /\ m < t[i]
  <2>1. \A i \in 1..(n - 1) : t[i] \in S \ {m}
    BY <1>2
  <2>2. \A x \in S \ {m} : x \in S /\ m < x
    <3>1. \A x \in S : x \in Nat /\ m \in Nat /\ m <= x
      OBVIOUS
    <3> QED BY <3>1
  <2> QED BY <2>1, <2>2
<1>4. s \in [1..n -> S]
  BY <1>1, <1>3
<1>5. \A i, j \in 1..(n - 1) : i < j => IF asc THEN t[i] < t[j] ELSE t[j] < t[i]
  BY <1>2 DEF Table!InOrder
<1>6. CASE asc
  <2>1. \A i \in 1..n : s[i] = IF i = 1 THEN m ELSE t[i - 1]
    BY <1>6
  <2> HIDE DEF s
  <2>2. \A i, j \in 1..n : i < j => s[i] < s[j]
    <3> SUFFICES ASSUME NEW i \in 1..n, NEW j \in 1..n, i < j PROVE s[i] < s[j]
      OBVIOUS
    <3>1. j - 1 \in 1..(n - 1) /\ s[j] = t[j - 1]
      BY <1>1, <2>1
    <3>2. CASE i = 1
      BY <3>1, <3>2, <2>1, <1>3
    <3>3. CASE i # 1
      <4>1. i - 1 \in 1..(n - 1) /\ s[i] = t[i - 1] /\ i - 1 < j - 1
        BY <1>1, <2>1, <3>3
      <4> QED BY <4>1, <3>1, <1>5, <1>6
    <3> QED BY <3>2, <3>3
  <2>3. Table!InOrder(s, asc)
    BY <2>2, <1>4, <1>6 DEF Table!InOrder
  <2> QED BY <2>3, <1>4 DEF Orders, n
<1>7. CASE ~asc
  <2>1. \A i \in 1..n : s[i] = IF i = n THEN m ELSE t[i]
    BY <1>7
  <2> HIDE DEF s
  <2>2. \A i, j \in 1..n : i < j => s[j] < s[i]
    <3> SUFFICES ASSUME NEW i \in 1..n, NEW j \in 1..n, i < j PROVE s[j] < s[i]
      OBVIOUS
    <3>1. i \in 1..(n - 1) /\ s[i] = t[i]
      BY <1>1, <2>1
    <3>2. CASE j = n
      BY <3>1, <3>2, <2>1, <1>3
    <3>3. CASE j # n
      <4>1. j \in 1..(n - 1) /\ s[j] = t[j]
        BY <1>1, <2>1, <3>3
      <4> QED BY <4>1, <3>1, <1>5, <1>7
    <3> QED BY <3>2, <3>3
  <2>3. Table!InOrder(s, asc)
    BY <2>2, <1>4, <1>7 DEF Table!InOrder
  <2> QED BY <2>3, <1>4 DEF Orders, n
<1> QED BY <1>6, <1>7

\* Any finite set of rows can be sorted: a smallest one that cannot would have a least row.
LEMMA OrderThere ==
  ASSUME NEW S \in SUBSET Nat, IsFiniteSet(S), NEW asc \in BOOLEAN
  PROVE  \E s : s \in Orders(S, asc)
<1> DEFINE Sortable(R) == \E s : s \in Orders(R, asc)
           Bad == {n \in Nat : \E R \in SUBSET Nat :
                                 IsFiniteSet(R) /\ Cardinality(R) = n /\ ~Sortable(R)}
<1>1. SUFFICES ASSUME ~Sortable(S) PROVE FALSE
  OBVIOUS
<1>2. Cardinality(S) \in Bad
  BY <1>1, FS_CardinalityType
<1>3. PICK n \in Bad : \A k \in Bad : n <= k
  <2> HIDE DEF Bad
  <2>1. Bad \in SUBSET Nat
    BY DEF Bad
  <2> QED BY <1>2, <2>1, LeastThere
<1>4. PICK R \in SUBSET Nat : IsFiniteSet(R) /\ Cardinality(R) = n /\ ~Sortable(R)
  BY <1>3
<1>5. n \in Nat
  BY <1>3
<1>6. CASE R = {}
  <2>1. Cardinality(R) = 0
    BY <1>6, FS_EmptySet
  <2>2. [i \in 1..0 |-> 0] \in Orders(R, asc)
    BY <2>1, <1>6 DEF Orders, Table!InOrder
  <2> QED BY <2>2, <1>4
<1>7. CASE R # {}
  <2>1. PICK m \in R : \A x \in R : m <= x
    BY <1>7, LeastThere
  <2>2. IsFiniteSet(R \ {m}) /\ Cardinality(R \ {m}) = n - 1 /\ n # 0
    BY <1>4, FS_RemoveElement, FS_EmptySet
  <2>3. n - 1 \in Nat /\ ~ (n <= n - 1)
    BY <2>2, <1>5
  <2>4. n - 1 \notin Bad
    BY <2>3, <1>3
  <2>5. Sortable(R \ {m})
    <3>1. R \ {m} \in SUBSET Nat
      OBVIOUS
    <3> HIDE DEF Sortable
    <3> QED BY <2>2, <2>3, <2>4, <3>1
  <2>6. Sortable(R)
    BY <2>5, <2>1, <1>4, OrderGrows
  <2> QED BY <2>6, <1>4
<1> QED BY <1>6, <1>7

\* So a sorted set is in order, and has every row once.
LEMMA SortedFacts ==
  ASSUME NEW S \in SUBSET Nat, IsFiniteSet(S), NEW asc \in BOOLEAN
  PROVE  /\ Table!Sorted(S, asc) \in [1..Cardinality(S) -> S]
         /\ Table!InOrder(Table!Sorted(S, asc), asc)
         /\ Table!Range(Table!Sorted(S, asc)) = S
<1> DEFINE n == Cardinality(S)
<1>1. n \in Nat
  BY FS_CardinalityType
<1>2. Table!Sorted(S, asc) = CHOOSE s \in [1..n -> S] : Table!InOrder(s, asc)
  BY RowsCounted DEF Table!Sorted
<1>3. \E s \in [1..n -> S] : Table!InOrder(s, asc)
  BY OrderThere DEF Orders
<1> HIDE DEF n
<1>4. PICK f : f = Table!Sorted(S, asc)
  OBVIOUS
<1>5. f \in [1..n -> S] /\ Table!InOrder(f, asc)
  BY <1>2, <1>3, <1>4
<1>6. \A i, j \in 1..n : i < j => f[i] # f[j]
  <2>1. \A i \in 1..n : f[i] \in Nat
    BY <1>5
  <2> QED BY <2>1, <1>5 DEF Table!InOrder
<1>7. f \in Injection(1..n, S)
  BY <1>5, <1>6, <1>1 DEF Injection, IsInjective
<1>8. Cardinality(1..n) = n
  BY <1>1, FS_Interval
<1>9. f \in Surjection(1..n, S)
  BY <1>7, <1>8, FS_Injection DEF n
<1>10. Table!Range(f) = S
  BY <1>9, <1>5 DEF Surjection, Table!Range
<1> QED BY <1>4, <1>5, <1>10 DEF n

\* Rows that are in order are so in one way.
LEMMA OrderIsOne ==
  ASSUME NEW S \in SUBSET Nat, NEW n \in Nat, NEW asc \in BOOLEAN,
         NEW s \in [1..n -> S], NEW t \in [1..n -> S],
         Table!InOrder(s, asc), Table!InOrder(t, asc),
         Table!Range(s) = Table!Range(t)
  PROVE  s = t
<1> DEFINE D == {i \in 1..n : s[i] # t[i]}
<1>1. SUFFICES ASSUME D # {} PROVE FALSE
  OBVIOUS
<1>2. D \in SUBSET Nat
  OBVIOUS
<1>3. PICK k \in D : \A i \in D : k <= i
  <2> HIDE DEF D
  <2> QED BY <1>1, <1>2, LeastThere
<1>4. k \in 1..n /\ s[k] # t[k] /\ \A i \in 1..n : i < k => s[i] = t[i]
  BY <1>3
<1>5. \A i \in 1..n : s[i] \in S /\ t[i] \in S /\ s[i] \in Nat /\ t[i] \in Nat
  OBVIOUS
<1>6. \A i, j \in 1..n : i < j => IF asc THEN s[i] < s[j] /\ t[i] < t[j]
                                  ELSE s[j] < s[i] /\ t[j] < t[i]
  BY DEF Table!InOrder
<1>7. PICK i \in 1..n : t[i] = s[k]
  BY <1>4 DEF Table!Range
<1>8. PICK j \in 1..n : s[j] = t[k]
  BY <1>4 DEF Table!Range
<1> HIDE DEF D
<1>9. ~ (i < k)
  BY <1>4, <1>5, <1>6, <1>7
<1>10. ~ (j < k)
  BY <1>4, <1>5, <1>6, <1>8
<1>11. i # k /\ j # k
  BY <1>4, <1>7, <1>8
<1>12. k < i /\ k < j
  BY <1>9, <1>10, <1>11, <1>4
<1>13. CASE asc
  <2>1. t[k] < t[i] /\ s[k] < s[j]
    BY <1>12, <1>6, <1>4, <1>13
  <2> QED BY <2>1, <1>7, <1>8, <1>4, <1>5
<1>14. CASE ~asc
  <2>1. t[i] < t[k] /\ s[j] < s[k]
    BY <1>12, <1>6, <1>4, <1>14
  <2> QED BY <2>1, <1>7, <1>8, <1>4, <1>5
<1> QED BY <1>13, <1>14

CutOut(S, n, s, v) ==
  \E k \in 0..n :
    /\ Table!Cut(s, v) \in [1..k -> S] /\ Len(Table!Cut(s, v)) = k
    /\ \A i \in 1..k : v.page * v.size + i \in 1..n
                       /\ Table!Cut(s, v)[i] = s[v.page * v.size + i]
    /\ v.page * v.size < n /\ v.size # 0 => k # 0
    /\ v.page = 0 /\ n <= v.size => k = n

\* What a page cuts out of the rows: no more than there are, at the place it is at, and something
\* where the page begins before the end.
LEMMA CutFacts ==
  ASSUME NEW S, NEW n \in Nat, NEW s \in [1..n -> S], NEW v, v.page \in Nat, v.size \in Nat
  PROVE  CutOut(S, n, s, v)
<1>1. PICK p \in Nat : p = v.page * v.size
  OBVIOUS
<1>2. PICK z \in Nat : z = v.size
  OBVIOUS
<1>3. (v.page + 1) * v.size = p + z
  BY <1>1, <1>2
<1>4. v.page = 0 => p = 0
  BY <1>1
<1>5. s \in Seq(S) /\ Len(s) = n
  OBVIOUS
<1> DEFINE e == IF p + z < n THEN p + z ELSE n
           k == IF p < e THEN e - p ELSE 0
<1>6. Table!Cut(s, v) = SubSeq(s, p + 1, e)
  BY <1>1, <1>3, <1>5 DEF Table!Cut
<1>7. e \in Nat /\ k \in 0..n /\ e <= n
  OBVIOUS
<1>8. \A i \in (p + 1)..e : i \in 1..n /\ s[i] \in S
  BY <1>7
<1>9. p + 1 \in Int /\ e \in Int
  BY <1>7
<1> DEFINE c == SubSeq(s, p + 1, e)
<1> HIDE DEF e
<1>10. /\ c \in Seq(S) /\ Len(c) = IF p + 1 <= e THEN e - (p + 1) + 1 ELSE 0
       /\ \A i \in 1..(e - (p + 1) + 1) : c[i] = s[(p + 1) + i - 1]
  BY <1>8, <1>9, SubSeqProperties
<1> HIDE DEF c
<1>11. Len(c) = k
  BY <1>10, <1>7
<1>12. c \in [1..k -> S]
  BY <1>10, <1>11, LenProperties
<1>13. \A i \in 1..k : p + i \in 1..n /\ c[i] = s[p + i]
  <2> SUFFICES ASSUME NEW i \in 1..k PROVE p + i \in 1..n /\ c[i] = s[p + i]
    OBVIOUS
  <2>1. i \in 1..(e - (p + 1) + 1) /\ p + i \in (p + 1)..e /\ (p + 1) + i - 1 = p + i
    BY <1>7
  <2> QED BY <2>1, <1>10, <1>8
<1>14. (p < n /\ z # 0 => k # 0) /\ (p = 0 /\ n <= z => k = n)
  BY DEF e
<1> HIDE DEF k
<1> QED BY <1>1, <1>2, <1>4, <1>6, <1>7, <1>11, <1>12, <1>13, <1>14 DEF c, CutOut

\* A page cut out of sorted rows is sorted already.
LEMMA CutIsSorted ==
  ASSUME NEW S \in SUBSET Nat, IsFiniteSet(S), NEW asc \in BOOLEAN,
         NEW v, v.page \in Nat, v.size \in Nat
  PROVE  LET c == Table!Cut(Table!Sorted(S, asc), v) IN
         /\ Table!Range(c) \in SUBSET S
         /\ Table!Sorted(Table!Range(c), asc) = c
<1>1. PICK s : s = Table!Sorted(S, asc)
  OBVIOUS
<1>2. PICK n \in Nat : n = Cardinality(S)
  BY FS_CardinalityType
<1>3. s \in [1..n -> S] /\ Table!InOrder(s, asc)
  BY <1>1, <1>2, SortedFacts
<1>4. PICK p \in Nat : p = v.page * v.size
  OBVIOUS
<1>5. PICK c : c = Table!Cut(s, v)
  OBVIOUS
<1>6. PICK k \in 0..n : /\ c \in [1..k -> S]
                        /\ \A i \in 1..k : p + i \in 1..n /\ c[i] = s[p + i]
  <2>1. CutOut(S, n, s, v)
    BY <1>3, CutFacts
  <2> QED BY <2>1, <1>4, <1>5 DEF CutOut
<1>7. k \in Nat
  OBVIOUS
<1>8. \A i, j \in 1..k : i < j => IF asc THEN c[i] < c[j] ELSE c[j] < c[i]
  <2> SUFFICES ASSUME NEW i \in 1..k, NEW j \in 1..k, i < j
               PROVE  IF asc THEN c[i] < c[j] ELSE c[j] < c[i]
    OBVIOUS
  <2>1. p + i \in 1..n /\ p + j \in 1..n /\ p + i < p + j /\ c[i] = s[p + i] /\ c[j] = s[p + j]
    BY <1>6, <1>4
  <2>2. \A x, y \in 1..n : x < y => IF asc THEN s[x] < s[y] ELSE s[y] < s[x]
    BY <1>3 DEF Table!InOrder
  <2> QED BY <2>1, <2>2
<1>9. Table!InOrder(c, asc)
  BY <1>8, <1>6 DEF Table!InOrder
<1> DEFINE R == Table!Range(c)
<1>10. R = {c[i] : i \in 1..k} /\ R \in SUBSET S
  BY <1>6 DEF Table!Range
<1>11. IsFiniteSet(R) /\ R \in SUBSET Nat
  BY <1>10, FS_Subset
<1>12. c \in [1..k -> R] /\ \A x \in R : \E i \in 1..k : c[i] = x
  BY <1>10, <1>6
<1> HIDE DEF R
<1>13. \A i, j \in 1..k : i < j => c[i] # c[j]
  <2>1. \A i \in 1..k : c[i] \in Nat
    BY <1>12, <1>11
  <2> QED BY <2>1, <1>8
<1>14. c \in Injection(1..k, R) /\ c \in Surjection(1..k, R)
  BY <1>12, <1>13, <1>7 DEF Injection, IsInjective, Surjection
<1>15. IsFiniteSet(1..k) /\ Cardinality(1..k) = k
  <2>1. 1 \in Int /\ k \in Int /\ (IF 1 > k THEN 0 ELSE k - 1 + 1) = k
    BY <1>7
  <2> QED BY <2>1, FS_Interval
<1>16. Cardinality(R) = k
  BY <1>14, <1>15, FS_Surjection
<1>17. PICK t : t = Table!Sorted(R, asc)
  OBVIOUS
<1>18. t \in [1..k -> R] /\ Table!InOrder(t, asc) /\ Table!Range(t) = R
  BY <1>11, <1>16, <1>17, SortedFacts
<1>19. Table!Range(t) = Table!Range(c)
  BY <1>18 DEF R
<1>20. t = c
  BY <1>7, <1>9, <1>11, <1>12, <1>18, <1>19, OrderIsOne
<1> QED BY <1>1, <1>5, <1>10, <1>17, <1>20 DEF R

\* The rows of a page there is begin before the end.
LEMMA PageThere ==
  ASSUME NEW count \in Nat, NEW size \in Nat \ {0}, NEW n \in Nat,
         n < (count + size - 1) \div size
  PROVE  n * size < count
<1>1. PICK d : d = (count + size - 1) \div size
  OBVIOUS
<1>2. PICK a \in Nat : a = count + size - 1
  OBVIOUS
<1>3. d \in Nat /\ d * size <= a
  BY <1>1, <1>2
<1>4. n + 1 <= d
  BY <1>1, <1>3
<1>5. (n + 1) * size <= d * size
  BY <1>3, <1>4
<1>6. (n + 1) * size = n * size + size
  OBVIOUS
<1>7. n * size \in Nat /\ d * size \in Nat
  BY <1>3
<1> QED BY <1>2, <1>3, <1>5, <1>6, <1>7

-----------------------------------------------------------------------------
(* The list page *)

\* The rows that fit what is asked.
Listed(v) ==
  Table!Chosen(Table!Found({r \in Rows : nameOf[r] # 0
                              /\ (listKind \in Table!Scoped => scopeOf[r] = v.scope)}, v), v)

Questions == [scope : Table!Scopes, search : Names \cup {0}, classes : SUBSET Table!Classes,
              asc : BOOLEAN, page : Nat, size : Nat]

Views == [scope : Table!Scopes, search : Names \cup {0}, classes : SUBSET Table!Classes,
          asc : BOOLEAN, page : 0..Cardinality(Rows), size : Sizes]

TableTyped ==
  /\ listKind \in Table!Kinds /\ nameOf \in [Rows -> Names \cup {0}] /\ view \in Views
  /\ operations \in SUBSET [what : {"delete", "change", "add"}, row : Rows, q : Questions]
  /\ Table!Range(answer.rows) \in SUBSET Rows /\ answer.total \in 0..Cardinality(Rows)
  /\ listLoading \in BOOLEAN /\ listError \in BOOLEAN /\ shrunk \in BOOLEAN
  /\ listActs \in 0..MaxListActs

\* A reading, with what the server answered it, if it has.
ReadingTyped(x) ==
  /\ x = [no |-> x.no, q |-> x.q, cancellable |-> x.cancellable, found |-> x.found]
  /\ x.no \in 1..readings /\ x.q \in Questions
  /\ \A a \in x.found : Table!Range(a.rows) \in SUBSET Rows /\ a.total \in 0..Cardinality(Rows)

\* The last reading is answered with what the server says now: a change of the rows is followed by
\* another reading.
ReadingsInv ==
  /\ readings \in Nat /\ answered \in 0..readings
  /\ \A x \in questions : /\ ReadingTyped(x)
                          /\ x.no = readings => x.found \in SUBSET {Table!Served(x.q)}

\* ... and is what is shown once its answer was the last to land; and the page begins before the
\* end of what fits.
TableInv ==
  /\ TableTyped /\ ReadingsInv
  /\ listLoading => questions # {}
  /\ answered = readings => answer = Table!Served(answer.q)
  /\ view.page > 0 /\ ~shrunk /\ listKind # "users" =>
       view.page * view.size < Cardinality(Listed(view))

LEMMA TableFacts ==
  /\ Rows \in SUBSET Nat /\ IsFiniteSet(Rows) /\ Rows # {} /\ Cardinality(Rows) \in Nat
  /\ Names \in SUBSET (Nat \ {0}) /\ Sizes \in SUBSET (Nat \ {0}) /\ Sizes # {}
  /\ Table!Scopes # {} /\ MaxListActs \in Nat
  /\ DOMAIN scopeOf = Rows /\ DOMAIN classOf = Rows
<1>1. /\ Rows \subseteq Nat /\ IsFiniteSet(Rows) /\ Rows # {}
      /\ Names \subseteq Nat \ {0} /\ Sizes \subseteq Nat \ {0} /\ Sizes # {}
      /\ DOMAIN scopeOf = Rows /\ DOMAIN classOf = Rows /\ MaxListActs \in Nat
  BY CoordinatorAssumption DEF Table!ListAssumption, Table!IsFiniteSet, IsFiniteSet
<1>2. Cardinality(Rows) \in Nat
  BY <1>1, FS_CardinalityType
<1>3. Table!Scopes # {}
  BY <1>1 DEF Table!Scopes
<1> QED BY <1>1, <1>2, <1>3

LEMMA ListedFacts ==
  ASSUME NEW v
  PROVE  /\ Listed(v) \in SUBSET Rows /\ IsFiniteSet(Listed(v)) /\ Listed(v) \in SUBSET Nat
         /\ Cardinality(Listed(v)) \in 0..Cardinality(Rows)
<1>1. Listed(v) \in SUBSET Rows
  BY DEF Listed, Table!Chosen, Table!Found
<1>2. IsFiniteSet(Listed(v)) /\ Cardinality(Listed(v)) <= Cardinality(Rows)
  BY <1>1, TableFacts, FS_Subset
<1>3. Cardinality(Listed(v)) \in Nat
  BY <1>2, FS_CardinalityType
<1>4. Listed(v) \in SUBSET Nat
  BY <1>1, TableFacts
<1>5. PICK n : n = Cardinality(Listed(v))
  OBVIOUS
<1>6. n \in 0..Cardinality(Rows)
  BY <1>2, <1>3, <1>5, TableFacts
<1> QED BY <1>1, <1>2, <1>4, <1>5, <1>6

LEMMA QuestionTyped ==
  ASSUME NEW v \in Views
  PROVE  Table!Question(v) \in Questions
<1>1. (CHOOSE s \in Table!Scopes : TRUE) \in Table!Scopes
  BY TableFacts
<1>2. v.size \in Nat /\ v.page \in Nat /\ v.search \in Names \cup {0} /\ v.asc \in BOOLEAN
      /\ v.scope \in Table!Scopes /\ v.classes \in SUBSET Table!Classes
  <2>1. v.size \in Sizes /\ v.page \in 0..Cardinality(Rows)
        /\ v.search \in Names \cup {0} /\ v.asc \in BOOLEAN
        /\ v.scope \in Table!Scopes /\ v.classes \in SUBSET Table!Classes
    BY DEF Views
  <2>2. v.size \in Nat
    BY <2>1, TableFacts
  <2>3. v.page \in Nat
    BY <2>1
  <2> QED BY <2>1, <2>2, <2>3
<1>3. Table!Cardinality(Rows) \in Nat
  BY TableFacts, RowsCounted
<1> QED BY <1>1, <1>2, <1>3 DEF Table!Question, Questions

\* What the server answers: the rows that fit, sorted and cut.
LEMMA ServedFacts ==
  ASSUME NEW q \in Questions
  PROVE  /\ Table!Served(q) = [rows |-> Table!Cut(Table!Sorted(Listed(q), q.asc), q),
                               total |-> Cardinality(Listed(q)), q |-> q]
         /\ Table!Range(Table!Served(q).rows) \in SUBSET Listed(q)
         /\ Table!Range(Table!Served(q).rows) \in SUBSET Rows
         /\ Table!Served(q).total \in 0..Cardinality(Rows) /\ Table!Served(q).q = q
         /\ q.page = 0 /\ q.size = Cardinality(Rows) =>
              Table!Range(Table!Served(q).rows) = Listed(q)
<1>1. Table!Served(q) = [rows |-> Table!Cut(Table!Sorted(Listed(q), q.asc), q),
                         total |-> Cardinality(Listed(q)), q |-> q]
  BY RowsCounted DEF Table!Served, Listed
<1>2. q.asc \in BOOLEAN /\ q.page \in Nat /\ q.size \in Nat
  BY DEF Questions
<1>3. Table!Range(Table!Served(q).rows) \in SUBSET Listed(q)
  BY <1>1, <1>2, ListedFacts, CutIsSorted
<1>4. ASSUME q.page = 0, q.size = Cardinality(Rows)
      PROVE  Table!Range(Table!Served(q).rows) = Listed(q)
  <2>1. PICK s : s = Table!Sorted(Listed(q), q.asc)
    OBVIOUS
  <2>2. PICK n \in Nat : n = Cardinality(Listed(q)) /\ n <= q.size
    BY ListedFacts, <1>4
  <2>3. s \in [1..n -> Listed(q)] /\ Table!Range(s) = Listed(q)
    BY <2>1, <2>2, <1>2, ListedFacts, SortedFacts
  <2>4. CutOut(Listed(q), n, s, q)
    BY <2>3, <1>2, CutFacts
  <2>5. Table!Cut(s, q) \in [1..n -> Listed(q)]
        /\ \A i \in 1..n : Table!Cut(s, q)[i] = s[q.page * q.size + i]
    BY <2>4, <2>2, <1>4 DEF CutOut
  <2>6. q.page * q.size = 0
    BY <1>4, <1>2
  <2>7. \A i \in 1..n : Table!Cut(s, q)[i] = s[i]
    <3>1. \A i \in 1..n : 0 + i = i
      OBVIOUS
    <3> QED BY <2>5, <2>6, <3>1
  <2>8. Table!Cut(s, q) = s
    BY <2>5, <2>7, <2>3
  <2> QED BY <2>8, <2>1, <2>3, <1>1
<1> QED BY <1>1, <1>3, <1>4, ListedFacts

\* What the page makes of the answer to its question is what fits its view.
LEMMA AnswerFits ==
  ASSUME TableTyped, NEW q, q = Table!Question(view)
  PROVE  /\ listKind \notin Table!AskedToPage =>
              /\ Table!Range(Table!Served(q).rows) = Listed(q)
              /\ Table!Chosen(Table!Found(Listed(q), view), view) = Listed(view)
              /\ listKind \in Table!AskedToSearch =>
                   Table!Chosen(Listed(q), view) = Listed(view)
         /\ listKind = "audit" => Listed(q) = Listed(view)
<1>1. q \in Questions
  BY QuestionTyped DEF TableTyped
<1>2. listKind \notin Table!AskedToPage => q.page = 0 /\ q.size = Cardinality(Rows)
  BY RowsCounted DEF Table!Question
<1>3. listKind \notin Table!AskedToPage => Table!Range(Table!Served(q).rows) = Listed(q)
  BY <1>1, <1>2, ServedFacts
<1>4. /\ listKind \in Table!Scoped => q.scope = view.scope
      /\ q.search = IF listKind \in Table!AskedToSearch THEN view.search ELSE 0
      /\ q.classes = IF listKind \in Table!AskedToFilter THEN view.classes ELSE {}
  BY DEF Table!Question
<1>5. \A r : r \in Listed(view) <=>
         /\ r \in Rows /\ nameOf[r] # 0 /\ (listKind \in Table!Scoped => scopeOf[r] = view.scope)
         /\ view.search \in {0, nameOf[r]} /\ (view.classes = {} \/ classOf[r] \in view.classes)
  BY DEF Listed, Table!Chosen, Table!Found
<1>6. \A r : r \in Listed(q) <=>
         /\ r \in Rows /\ nameOf[r] # 0 /\ (listKind \in Table!Scoped => scopeOf[r] = q.scope)
         /\ q.search \in {0, nameOf[r]} /\ (q.classes = {} \/ classOf[r] \in q.classes)
  BY DEF Listed, Table!Chosen, Table!Found
<1>7. \A r : r \in Table!Chosen(Table!Found(Listed(q), view), view) <=>
         r \in Listed(q) /\ view.search \in {0, nameOf[r]}
         /\ (view.classes = {} \/ classOf[r] \in view.classes)
  BY DEF Table!Chosen, Table!Found
<1>8. \A r : r \in Table!Chosen(Listed(q), view) <=>
         r \in Listed(q) /\ (view.classes = {} \/ classOf[r] \in view.classes)
  BY DEF Table!Chosen
<1>9. listKind \notin Table!AskedToPage => listKind \notin Table!AskedToFilter
  BY DEF Table!AskedToPage, Table!AskedToFilter
<1>10. listKind \notin Table!AskedToPage =>
         Table!Chosen(Table!Found(Listed(q), view), view) = Listed(view)
  <2> SUFFICES ASSUME listKind \notin Table!AskedToPage, NEW r
               PROVE  r \in Table!Chosen(Table!Found(Listed(q), view), view) <=> r \in Listed(view)
    OBVIOUS
  <2>1. q.classes = {}
    BY <1>9, <1>4
  <2>2. q.search = view.search \/ q.search = 0
    BY <1>4
  <2> QED BY <2>1, <2>2, <1>4, <1>5, <1>6, <1>7
<1>11. listKind \notin Table!AskedToPage /\ listKind \in Table!AskedToSearch =>
         Table!Chosen(Listed(q), view) = Listed(view)
  <2> SUFFICES ASSUME listKind \notin Table!AskedToPage, listKind \in Table!AskedToSearch, NEW r
               PROVE  r \in Table!Chosen(Listed(q), view) <=> r \in Listed(view)
    OBVIOUS
  <2>1. q.classes = {} /\ q.search = view.search
    BY <1>9, <1>4
  <2> QED BY <2>1, <1>4, <1>5, <1>6, <1>8
<1>12. listKind = "audit" => Listed(q) = Listed(view)
  <2> SUFFICES ASSUME listKind = "audit", NEW r
               PROVE  r \in Listed(q) <=> r \in Listed(view)
    OBVIOUS
  <2>1. q.classes = view.classes /\ q.search = view.search /\ listKind \notin Table!Scoped
    BY <1>4 DEF Table!AskedToFilter, Table!AskedToSearch, Table!Scoped
  <2> QED BY <2>1, <1>5, <1>6
<1> QED BY <1>3, <1>10, <1>11, <1>12

\* When every answer has come, the list is the server's.
LEMMA ListShown ==
  ASSUME TableInv
  PROVE  Table!ListIsServers
<1> SUFFICES ASSUME Table!Settled PROVE Table!ListIsServers
  BY DEF Table!ListIsServers
<1>1. PICK q : q = Table!Question(view)
  OBVIOUS
<1>2. q \in Questions /\ answer = Table!Served(q)
  BY <1>1, QuestionTyped DEF TableInv, TableTyped, Table!Settled, Table!Current
<1> DEFINE all == {r \in Rows :
                     nameOf[r] # 0 /\ (listKind \in Table!Scoped => scopeOf[r] = view.scope)}
           fits == Table!Found(all, view)
<1>3. view.asc \in BOOLEAN /\ view.page \in Nat /\ view.size \in Nat
  <2>1. view.asc \in BOOLEAN /\ view.page \in 0..Cardinality(Rows) /\ view.size \in Sizes
    BY DEF TableInv, TableTyped, Views
  <2>2. view.size \in Nat
    BY <2>1, TableFacts
  <2> QED BY <2>1, <2>2
<1>4. Listed(view) = Table!Chosen(fits, view)
  BY DEF Listed
<1>5. answer.rows = Table!Cut(Table!Sorted(Listed(q), q.asc), q)
  BY <1>2, ServedFacts
<1>6. listKind \in Table!AskedToPage =>
        \A s : Table!Cut(s, q) = Table!Cut(s, view)
  BY <1>1 DEF Table!Question, Table!Cut
<1>7. CASE listKind \notin Table!AskedToPage
  <2>1. listKind # "users" /\ listKind \notin Table!AskedToFilter
    BY <1>7 DEF Table!AskedToPage, Table!AskedToFilter
  <2>2. Table!Chosen(IF listKind \in Table!AskedToSearch THEN Table!Range(answer.rows)
                     ELSE Table!Found(Table!Range(answer.rows), view), view) = Listed(view)
    BY <1>1, <1>2, <1>7, AnswerFits DEF TableInv
  <2>3. Table!Displayed = Table!Cut(Table!Sorted(Listed(view), view.asc), view)
    BY <2>1, <2>2, <1>7 DEF Table!Displayed
  <2> QED BY <2>1, <2>3, <1>4 DEF Table!ListIsServers
<1>8. CASE listKind = "users"
  <2>1. listKind \in Table!AskedToPage /\ listKind \in Table!AskedToSearch
        /\ listKind \notin Table!AskedToFilter /\ listKind \notin Table!AskedToSort
        /\ listKind \notin Table!Scoped
    BY <1>8 DEF Table!AskedToPage, Table!AskedToSearch, Table!AskedToFilter, Table!AskedToSort,
                Table!Scoped
  <2>2. q.asc = TRUE /\ q.classes = {} /\ q.search = view.search
    BY <2>1, <1>1 DEF Table!Question
  <2>3. Listed(q) = fits
    BY <2>1, <2>2 DEF Listed, Table!Chosen, Table!Found
  <2>4. answer.rows = Table!Cut(Table!Sorted(fits, TRUE), view)
    BY <2>1, <2>2, <2>3, <1>5, <1>6
  <2>5. Table!Displayed = Table!Sorted(Table!Chosen(Table!Range(answer.rows), view), view.asc)
    BY <2>1 DEF Table!Displayed
  <2> HIDE DEF fits
  <2>6. Table!Displayed =
          Table!Sorted(Table!Chosen(Table!Range(Table!Cut(Table!Sorted(fits, TRUE), view)), view),
                       view.asc)
    BY <2>4, <2>5
  <2> QED BY <2>6, <1>8 DEF Table!ListIsServers, fits
<1>9. CASE listKind = "audit"
  <2>1. listKind \in Table!AskedToPage /\ listKind \in Table!AskedToSearch
        /\ listKind \in Table!AskedToFilter /\ listKind \in Table!AskedToSort
        /\ listKind # "users"
    BY <1>9 DEF Table!AskedToPage, Table!AskedToSearch, Table!AskedToFilter, Table!AskedToSort
  <2>2. q.asc = view.asc
    BY <2>1, <1>1 DEF Table!Question
  <2>3. Listed(q) = Listed(view)
    BY <1>1, <1>9, AnswerFits DEF TableInv
  <2>4. answer.rows = Table!Cut(Table!Sorted(Listed(view), view.asc), view)
    BY <2>1, <2>2, <2>3, <1>5, <1>6
  <2>5. Table!Displayed = Table!Sorted(Table!Range(answer.rows), view.asc)
    BY <2>1 DEF Table!Displayed
  <2>6. Table!Displayed = answer.rows
    BY <2>4, <2>5, <1>3, ListedFacts, CutIsSorted
  <2> QED BY <2>1, <2>4, <2>6, <1>4 DEF Table!ListIsServers
<1> QED BY <1>7, <1>8, <1>9 DEF Table!AskedToPage

\* ... and no page of it that there is is empty.
LEMMA PageShown ==
  ASSUME TableInv
  PROVE  Table!PageInRange
<1> SUFFICES ASSUME Table!Settled, view.page > 0, ~shrunk, listKind # "users"
             PROVE  Len(Table!Displayed) > 0
  BY DEF Table!PageInRange
<1>1. view.asc \in BOOLEAN /\ view.page \in Nat /\ view.size \in Nat \ {0}
  <2>1. view.asc \in BOOLEAN /\ view.page \in 0..Cardinality(Rows) /\ view.size \in Sizes
    BY DEF TableInv, TableTyped, Views
  <2>2. view.size \in Nat \ {0}
    BY <2>1, TableFacts
  <2> QED BY <2>1, <2>2
<1>2. PICK s : s = Table!Sorted(Listed(view), view.asc)
  OBVIOUS
<1>3. Table!Displayed = Table!Cut(s, view)
  BY <1>2, ListShown DEF Table!ListIsServers, Listed
<1>4. PICK n \in Nat : n = Cardinality(Listed(view)) /\ view.page * view.size < n
  BY ListedFacts DEF TableInv
<1>5. s \in [1..n -> Listed(view)]
  BY <1>1, <1>2, <1>4, ListedFacts, SortedFacts
<1>6. CutOut(Listed(view), n, s, view)
  BY <1>1, <1>5, CutFacts
<1>7. Len(Table!Cut(s, view)) \in Nat \ {0}
  BY <1>1, <1>4, <1>6 DEF CutOut
<1> QED BY <1>3, <1>7

-----------------------------------------------------------------------------
(* Every step of a list keeps it *)

LEMMA TableStarts == ASSUME Table!Init PROVE TableInv
<1>1. PICK z : z \in Sizes /\ z = CHOOSE n \in Sizes : \A m \in Sizes : n <= m
  <2>1. Sizes \in SUBSET Nat /\ Sizes # {}
    BY TableFacts
  <2> QED BY <2>1, LeastThere
<1>2. view = [scope |-> CHOOSE s \in Table!Scopes : TRUE, search |-> 0,
              classes |-> IF listKind \in Table!AllActive THEN Table!Classes ELSE {},
              page |-> 0, size |-> z, asc |-> TRUE]
  BY <1>1 DEF Table!Init
<1>3. (CHOOSE s \in Table!Scopes : TRUE) \in Table!Scopes
  BY TableFacts
<1>4. 0 \in 0..Cardinality(Rows) /\ 0 \in 0..MaxListActs
  BY TableFacts
<1>5. view \in Views
  BY <1>1, <1>2, <1>3, <1>4 DEF Views
<1>6. Table!Question(view) \in Questions
  BY <1>5, QuestionTyped
<1>7. ReadingsInv
  <2>1. PICK q : q = Table!Question(view)
    OBVIOUS
  <2>2. /\ questions = {[no |-> 1, q |-> q, cancellable |-> TRUE, found |-> {}]}
        /\ readings = 1 /\ answered = 0 /\ q \in Questions
    BY <2>1, <1>6 DEF Table!Init
  <2> QED BY <2>2 DEF ReadingsInv, ReadingTyped
<1>8. Table!Range(answer.rows) \in SUBSET Rows /\ answer.total \in 0..Cardinality(Rows)
  <2>1. answer.rows = <<>> /\ answer.total = 0
    BY DEF Table!Init
  <2>2. Table!Range(<<>>) = {}
    BY DEF Table!Range
  <2> QED BY <2>1, <2>2, <1>4
<1>9. TableTyped
  BY <1>4, <1>5, <1>8 DEF TableTyped, Table!Init
<1>10. view.page = 0 /\ questions # {} /\ answered # readings
  BY <1>2 DEF Table!Init
<1> QED BY <1>7, <1>9, <1>10 DEF TableInv

\* Another reading is sent: those before it are not the last any more.
LEMMA ReadingAsked ==
  ASSUME ReadingsInv, NEW others \in SUBSET questions, NEW q \in Questions, NEW c \in BOOLEAN,
         Table!Ask(others, q, c), answered' = answered
  PROVE  /\ ReadingsInv' /\ questions' # {} /\ answered' # readings'
         /\ listLoading' = TRUE /\ listError' = FALSE
<1>1. PICK x : x = [no |-> readings + 1, q |-> q, cancellable |-> c, found |-> {}]
  OBVIOUS
<1>2. /\ questions' = others \cup {x} /\ readings' = readings + 1
      /\ listLoading' = TRUE /\ listError' = FALSE
  BY <1>1 DEF Table!Ask
<1>3. readings \in Nat /\ answered \in 0..readings
  BY DEF ReadingsInv
<1>4. ASSUME NEW y \in questions'
      PROVE  ReadingTyped(y)' /\ (y.no = readings' => y.found = {})
  <2>1. CASE y = x
    BY <2>1, <1>1, <1>2, <1>3 DEF ReadingTyped
  <2>2. CASE y \in others
    <3>1. ReadingTyped(y)
      BY <2>2 DEF ReadingsInv
    <3>2. y.no \in 1..readings' /\ y.no # readings'
      BY <3>1, <1>2, <1>3 DEF ReadingTyped
    <3> QED BY <3>1, <3>2 DEF ReadingTyped
  <2> QED BY <2>1, <2>2, <1>2
<1>5. (\A y \in questions : /\ ReadingTyped(y)
                            /\ y.no = readings => y.found \in SUBSET {Table!Served(y.q)})'
  BY <1>4
<1> QED BY <1>2, <1>3, <1>5 DEF ReadingsInv

\* Readings are answered or fail, and the rows stay.
LEMMA ReadingsRest ==
  ASSUME ReadingsInv, UNCHANGED <<listKind, nameOf, readings>>, questions' \in SUBSET questions,
         answered' \in 0..readings
  PROVE  ReadingsInv'
<1>1. \A q : Table!Served(q)' = Table!Served(q)
  BY DEF Table!Served, Table!Found
<1>2. ASSUME NEW y \in questions'
      PROVE  ReadingTyped(y)' /\ (y.no = readings' => y.found \in SUBSET {Table!Served(y.q)'})
  <2>1. ReadingTyped(y) /\ (y.no = readings => y.found \in SUBSET {Table!Served(y.q)})
    BY DEF ReadingsInv
  <2>2. ReadingTyped(y)'
    BY <2>1 DEF ReadingTyped
  <2> QED BY <2>1, <2>2, <1>1
<1>3. (\A y \in questions : /\ ReadingTyped(y)
                            /\ y.no = readings => y.found \in SUBSET {Table!Served(y.q)})'
  BY <1>2
<1> QED BY <1>3 DEF ReadingsInv

\* The answer stays that of the last reading where neither the rows nor the readings change.
LEMMA AnswerRests ==
  ASSUME TableInv, UNCHANGED <<listKind, nameOf, answer, readings, answered>>
  PROVE  (answered = readings => answer = Table!Served(answer.q))'
  BY DEF TableInv, Table!Served, Table!Found

LEMMA TableRests == ASSUME TableInv, UNCHANGED tableVars PROVE TableInv'
<1>1. TableTyped'
  BY DEF TableInv, TableTyped, tableVars
<1>2. ReadingsInv' /\ (answered = readings => answer = Table!Served(answer.q))'
  <2>1. ReadingsInv /\ answered \in 0..readings
    BY DEF TableInv, ReadingsInv
  <2>2. UNCHANGED <<listKind, nameOf, answer, questions, readings, answered>>
    BY DEF tableVars
  <2> QED BY <2>1, <2>2, ReadingsRest, AnswerRests
<1>3. (view.page > 0 /\ ~shrunk /\ listKind # "users" =>
         view.page * view.size < Cardinality(Listed(view)))'
  BY DEF TableInv, tableVars, Listed, Table!Found
<1> QED BY <1>1, <1>2, <1>3 DEF TableInv, tableVars

\* The view is turned, with the rows and the answer as they were.
LEMMA TurnKeeps ==
  ASSUME TableInv, NEW v \in Views, Table!Turn(v), shrunk' \in BOOLEAN,
         v.page > 0 /\ ~shrunk' /\ listKind # "users" =>
           v.page * v.size < Cardinality(Listed(v))
  PROVE  TableInv'
<1>1. /\ view' = v /\ UNCHANGED <<listKind, nameOf, answer, answered, operations>>
      /\ listActs < MaxListActs /\ listActs' = listActs + 1
  BY DEF Table!Turn, Table!Effect, Table!Act
<1>2. PICK others :
        others = {x \in questions : listKind \in Table!Cancelling => ~x.cancellable}
  OBVIOUS
<1>3. \/ UNCHANGED <<questions, readings, listLoading, listError>>
      \/ Table!Ask(others, Table!Question(v), TRUE)
  BY <1>2 DEF Table!Turn, Table!Effect
<1>4. listActs' \in 0..MaxListActs
  BY <1>1, TableFacts DEF TableInv, TableTyped
<1>5. /\ ReadingsInv' /\ listLoading' \in BOOLEAN /\ listError' \in BOOLEAN
      /\ (listLoading => questions # {})'
      /\ (answered = readings => answer = Table!Served(answer.q))'
  <2>1. CASE UNCHANGED <<questions, readings, listLoading, listError>>
    <3>1. ReadingsInv' /\ (answered = readings => answer = Table!Served(answer.q))'
      BY <2>1, <1>1, ReadingsRest, AnswerRests DEF TableInv, ReadingsInv
    <3> QED BY <3>1, <2>1 DEF TableInv, TableTyped
  <2>2. CASE Table!Ask(others, Table!Question(v), TRUE)
    <3>1. others \in SUBSET questions /\ Table!Question(v) \in Questions
      BY <1>2, QuestionTyped
    <3>2. /\ ReadingsInv' /\ questions' # {} /\ answered' # readings'
          /\ listLoading' = TRUE /\ listError' = FALSE
      BY <2>2, <3>1, <1>1, ReadingAsked DEF TableInv
    <3> QED BY <3>2
  <2> QED BY <2>1, <2>2, <1>3
<1>6. TableTyped'
  BY <1>1, <1>4, <1>5 DEF TableInv, TableTyped
<1>8. (view.page > 0 /\ ~shrunk /\ listKind # "users" =>
         view.page * view.size < Cardinality(Listed(view)))'
  <2>1. Listed(v)' = Listed(view)'
    BY <1>1
  <2>2. Listed(view)' = Listed(v)
    BY <1>1 DEF Listed, Table!Found
  <2> QED BY <2>2, <1>1
<1> QED BY <1>5, <1>6, <1>8 DEF TableInv

\* A search, a filter or another size begins at the first page again.
LEMMA FirstPageKeeps ==
  ASSUME TableInv, NEW v \in Views, v.page = 0, Table!Turn(v), shrunk' = FALSE
  PROVE  TableInv'
<1>1. ~ (v.page > 0)
  <2>1. ~ (0 > 0)
    OBVIOUS
  <2> QED BY <2>1
<1>3. shrunk' \in BOOLEAN
  OBVIOUS
<1>2. v.page > 0 /\ ~shrunk' /\ listKind # "users" =>
        v.page * v.size < Cardinality(Listed(v))
  BY <1>1
<1> QED BY <1>2, <1>3, TurnKeeps

LEMMA ViewFacts ==
  ASSUME TableInv
  PROVE  /\ \A n \in Names \cup {0} : [view EXCEPT !.search = n, !.page = 0] \in Views
         /\ \A c \in SUBSET Table!Classes : [view EXCEPT !.classes = c, !.page = 0] \in Views
         /\ \A n \in Sizes : [view EXCEPT !.size = n, !.page = 0] \in Views
         /\ \A n \in 0..Cardinality(Rows) : [view EXCEPT !.page = n] \in Views
         /\ \A s \in Table!Scopes : [view EXCEPT !.scope = s] \in Views
         /\ \A b \in BOOLEAN : [view EXCEPT !.asc = b] \in Views
<1>1. view \in Views /\ 0 \in 0..Cardinality(Rows)
  BY TableFacts DEF TableInv, TableTyped
<1> QED BY <1>1 DEF Views

LEMMA SearchStep ==
  ASSUME TableInv, NEW n \in Names \cup {0}, Table!handleSearchChange(n) PROVE TableInv'
<1>1. PICK v : v = [view EXCEPT !.search = n, !.page = 0]
  OBVIOUS
<1>2. v \in Views /\ v.page = 0
  BY <1>1, ViewFacts DEF TableInv, TableTyped, Views
<1>3. Table!Turn(v) /\ shrunk' = FALSE
  BY <1>1 DEF Table!handleSearchChange
<1> QED BY <1>2, <1>3, FirstPageKeeps

LEMMA FilterStep ==
  ASSUME TableInv, NEW c \in Table!Classes, Table!handleFilterChange(c) PROVE TableInv'
<1>1. PICK v : v = [view EXCEPT !.classes = Table!Toggled(c), !.page = 0]
  OBVIOUS
<1>2. view.classes \in SUBSET Table!Classes
  BY DEF TableInv, TableTyped, Views
<1>3. Table!Toggled(c) \in SUBSET Table!Classes
  BY <1>2 DEF Table!Toggled
<1>4. v \in Views /\ v.page = 0
  BY <1>1, <1>3, ViewFacts DEF TableInv, TableTyped, Views
<1>5. Table!Turn(v) /\ shrunk' = FALSE
  BY <1>1 DEF Table!handleFilterChange
<1> QED BY <1>4, <1>5, FirstPageKeeps

LEMMA ResetStep == ASSUME TableInv, Table!handleReset PROVE TableInv'
<1>1. PICK c : c = IF listKind \in Table!AllActive THEN Table!Classes ELSE {}
  OBVIOUS
<1>2. PICK v : v = [view EXCEPT !.classes = c, !.page = 0]
  OBVIOUS
<1>3. v \in Views /\ v.page = 0
  BY <1>1, <1>2, ViewFacts DEF TableInv, TableTyped, Views
<1>4. Table!Turn(v) /\ shrunk' = FALSE
  BY <1>1, <1>2 DEF Table!handleReset
<1> QED BY <1>3, <1>4, FirstPageKeeps

LEMMA SizeStep ==
  ASSUME TableInv, NEW n \in Sizes, Table!handlePageSizeChange(n) PROVE TableInv'
<1>1. PICK v : v = [view EXCEPT !.size = n, !.page = 0]
  OBVIOUS
<1>2. v \in Views /\ v.page = 0
  BY <1>1, ViewFacts DEF TableInv, TableTyped, Views
<1>3. Table!Turn(v) /\ shrunk' = FALSE
  BY <1>1 DEF Table!handlePageSizeChange
<1> QED BY <1>2, <1>3, FirstPageKeeps

LEMMA SortStep == ASSUME TableInv, Table!handleSort PROVE TableInv'
<1>1. PICK v : v = [view EXCEPT !.asc = ~view.asc]
  OBVIOUS
<1>2. view.asc \in BOOLEAN
  BY DEF TableInv, TableTyped, Views
<1>3. v \in Views /\ v.page = view.page /\ v.size = view.size /\ v.scope = view.scope
      /\ v.search = view.search /\ v.classes = view.classes
  BY <1>1, <1>2, ViewFacts DEF TableInv, TableTyped, Views
<1>4. Table!Turn(v) /\ shrunk' = shrunk
  BY <1>1 DEF Table!handleSort
<1>5. Listed(v) = Listed(view)
  BY <1>3 DEF Listed, Table!Chosen, Table!Found
<1> QED BY <1>3, <1>4, <1>5, TurnKeeps DEF TableInv, TableTyped

LEMMA AirportStep ==
  ASSUME TableInv, NEW s \in Table!Scopes, Table!AirportChosen(s) PROVE TableInv'
<1>1. PICK v : v = [view EXCEPT !.scope = s]
  OBVIOUS
<1>2. v \in Views /\ v.page = view.page
  BY <1>1, ViewFacts DEF TableInv, TableTyped, Views
<1>3. Table!Turn(v) /\ shrunk' = (shrunk \/ view.page > 0)
  BY <1>1 DEF Table!AirportChosen
<1> QED BY <1>2, <1>3, TurnKeeps

\* A page is only turned to where there is one, if the answer is the current one.
LEMMA PageStep ==
  ASSUME TableInv, NEW n \in 0..Cardinality(Rows), Table!setPage(n) PROVE TableInv'
<1>1. PICK v : v = [view EXCEPT !.page = n]
  OBVIOUS
<1>2. v \in Views /\ v.page = n /\ v.size = view.size /\ v.scope = view.scope
      /\ v.search = view.search /\ v.classes = view.classes
  BY <1>1, ViewFacts DEF TableInv, TableTyped, Views
<1>3. Table!Turn(v) /\ shrunk' = (n > 0 /\ (shrunk \/ ~Table!Current)) /\ n < Table!PageCount
  BY <1>1 DEF Table!setPage
<1>4. Listed(v) = Listed(view)
  BY <1>2 DEF Listed, Table!Chosen, Table!Found
<1>5. view.size \in Nat \ {0} /\ n \in Nat
  <2>1. view.size \in Sizes
    BY DEF TableInv, TableTyped, Views
  <2>2. view.size \in Nat \ {0}
    BY <2>1, TableFacts
  <2>3. n \in Nat
    OBVIOUS
  <2> QED BY <2>2, <2>3
<1>6. ASSUME Table!Current, listKind # "users"
      PROVE  n * view.size < Cardinality(Listed(view))
  <2>1. PICK q : q = Table!Question(view)
    OBVIOUS
  <2>2. q \in Questions /\ answer = Table!Served(q)
    BY <2>1, <1>6, QuestionTyped DEF TableInv, TableTyped, Table!Current
  <2>3. (IF listKind \in Table!AskedToPage THEN answer.total
         ELSE Cardinality(Table!Chosen(Table!Found(Table!Range(answer.rows), view), view)))
          = Cardinality(Listed(view))
    <3>1. CASE listKind \notin Table!AskedToPage
      BY <3>1, <2>1, <2>2, AnswerFits DEF TableInv
    <3>2. CASE listKind = "audit"
      <4>1. listKind \in Table!AskedToPage /\ answer.total = Cardinality(Listed(q))
        BY <3>2, <2>2, ServedFacts DEF Table!AskedToPage
      <4>2. Listed(q) = Listed(view)
        BY <3>2, <2>1, AnswerFits DEF TableInv
      <4> QED BY <4>1, <4>2
    <3> QED BY <3>1, <3>2, <1>6 DEF Table!AskedToPage
  <2>4. PICK count \in Nat : count = Cardinality(Listed(view))
    BY ListedFacts
  <2>5. Table!PageCount = (count + view.size - 1) \div view.size
    BY <2>3, <2>4, RowsCounted DEF Table!PageCount
  <2> QED BY <2>4, <2>5, <1>3, <1>5, PageThere
<1>7. v.page > 0 /\ ~shrunk' /\ listKind # "users" =>
        v.page * v.size < Cardinality(Listed(v))
  <2> SUFFICES ASSUME v.page > 0, ~shrunk', listKind # "users"
               PROVE  v.page * v.size < Cardinality(Listed(v))
    OBVIOUS
  <2>1. Table!Current
    BY <1>2, <1>3
  <2> QED BY <2>1, <1>2, <1>4, <1>6
<1> QED BY <1>2, <1>3, <1>7, TurnKeeps

LEMMA RetryStep == ASSUME TableInv, Table!Retry PROVE TableInv'
<1>1. /\ Table!Ask(questions, Table!Question(view), FALSE)
      /\ listActs < MaxListActs /\ listActs' = listActs + 1
      /\ UNCHANGED <<listKind, nameOf, view, answer, answered, operations, shrunk>>
  BY DEF Table!Retry, Table!Act
<1>2. Table!Question(view) \in Questions
  BY QuestionTyped DEF TableInv, TableTyped
<1>3. /\ ReadingsInv' /\ questions' # {} /\ answered' # readings'
      /\ listLoading' = TRUE /\ listError' = FALSE
  BY <1>1, <1>2, ReadingAsked DEF TableInv
<1>4. listActs' \in 0..MaxListActs
  BY <1>1, TableFacts DEF TableInv, TableTyped
<1>5. TableTyped'
  BY <1>1, <1>3, <1>4 DEF TableInv, TableTyped
<1>6. (view.page > 0 /\ ~shrunk /\ listKind # "users" =>
         view.page * view.size < Cardinality(Listed(view)))'
  BY <1>1 DEF TableInv, Listed, Table!Found
<1> QED BY <1>3, <1>5, <1>6 DEF TableInv

LEMMA OperateStep ==
  ASSUME TableInv, NEW r \in Rows, NEW what \in {"delete", "change", "add"},
         Table!Operate(what, r)
  PROVE  TableInv'
<1>1. /\ operations' = operations \cup {[what |-> what, row |-> r, q |-> Table!Question(view)]}
      /\ listActs < MaxListActs /\ listActs' = listActs + 1
      /\ UNCHANGED <<listKind, nameOf, view, answer, questions, listLoading, listError, shrunk,
                     readings, answered>>
  BY DEF Table!Operate, Table!Act, Table!historyVars
<1>2. [what |-> what, row |-> r, q |-> Table!Question(view)]
        \in [what : {"delete", "change", "add"}, row : Rows, q : Questions]
  BY QuestionTyped DEF TableInv, TableTyped
<1>3. operations' \in SUBSET [what : {"delete", "change", "add"}, row : Rows, q : Questions]
  BY <1>1, <1>2 DEF TableInv, TableTyped
<1>4. listActs' \in 0..MaxListActs
  BY <1>1, TableFacts DEF TableInv, TableTyped
<1>5. TableTyped'
  BY <1>1, <1>3, <1>4 DEF TableInv, TableTyped
<1>6. (view.page > 0 /\ ~shrunk /\ listKind # "users" =>
         view.page * view.size < Cardinality(Listed(view)))'
  BY <1>1 DEF TableInv, Listed, Table!Found
<1>7. ReadingsInv' /\ (answered = readings => answer = Table!Served(answer.q))'
  BY <1>1, ReadingsRest, AnswerRests DEF TableInv, ReadingsInv
<1> QED BY <1>1, <1>5, <1>6, <1>7 DEF TableInv

\* The server answers a reading.
LEMMA ServeStep ==
  ASSUME TableInv, NEW x \in questions, Table!Serve(x) PROVE TableInv'
<1>1. PICK y : y = [x EXCEPT !.found = {Table!Served(x.q)}]
  OBVIOUS
<1>2. /\ questions' = (questions \ {x}) \cup {y}
      /\ UNCHANGED <<listKind, nameOf, view, answer, operations, listLoading, listError, shrunk,
                     listActs, readings, answered>>
  BY <1>1 DEF Table!Serve, Table!historyVars
<1>3. ReadingTyped(x)
  BY DEF TableInv, ReadingsInv
<1>4. PICK no, q, c, f : x = [no |-> no, q |-> q, cancellable |-> c, found |-> f]
  BY <1>3 DEF ReadingTyped
<1>5. no \in 1..readings /\ q \in Questions
  BY <1>3, <1>4 DEF ReadingTyped
<1>6. PICK a : a = Table!Served(q)
  OBVIOUS
<1>7. y = [no |-> no, q |-> q, cancellable |-> c, found |-> {a}]
  BY <1>1, <1>4, <1>6
<1>8. Table!Range(a.rows) \in SUBSET Rows /\ a.total \in 0..Cardinality(Rows)
  BY <1>5, <1>6, ServedFacts
<1>9. ReadingTyped(y)
  BY <1>5, <1>7, <1>8 DEF ReadingTyped
<1>10. \A z : Table!Served(z)' = Table!Served(z)
  BY <1>2 DEF Table!Served, Table!Found
<1>11. ASSUME NEW z \in questions'
       PROVE  ReadingTyped(z)' /\ (z.no = readings' => z.found \in SUBSET {Table!Served(z.q)'})
  <2>1. ReadingTyped(z) /\ (z.no = readings => z.found \in SUBSET {Table!Served(z.q)})
    <3>1. CASE z = y
      <4>1. z.found = {Table!Served(z.q)}
        BY <3>1, <1>6, <1>7
      <4> QED BY <4>1, <3>1, <1>9
    <3>2. CASE z \in questions
      BY <3>2 DEF TableInv, ReadingsInv
    <3> QED BY <3>1, <3>2, <1>2
  <2>2. ReadingTyped(z)'
    BY <2>1, <1>2 DEF ReadingTyped
  <2> QED BY <2>1, <2>2, <1>2, <1>10
<1>12. (\A z \in questions : /\ ReadingTyped(z)
                             /\ z.no = readings => z.found \in SUBSET {Table!Served(z.q)})'
  BY <1>11
<1>13. ReadingsInv' /\ (answered = readings => answer = Table!Served(answer.q))'
  BY <1>2, <1>12, AnswerRests DEF TableInv, ReadingsInv
<1>14. TableTyped'
  BY <1>2 DEF TableInv, TableTyped
<1>15. (view.page > 0 /\ ~shrunk /\ listKind # "users" =>
          view.page * view.size < Cardinality(Listed(view)))'
  BY <1>2 DEF TableInv, Listed, Table!Found
<1> QED BY <1>2, <1>13, <1>14, <1>15 DEF TableInv

\* The answer of the last reading is the server's.
LEMMA AnsweredStep ==
  ASSUME TableInv, NEW x \in questions, Table!Answered(x) PROVE TableInv'
<1>1. /\ questions' = questions \ {x} /\ listLoading' = FALSE /\ answered' = x.no
      /\ UNCHANGED <<listKind, nameOf, view, readings, operations, listError, shrunk, listActs>>
  BY DEF Table!Answered
<1>2. PICK a \in x.found : answer' = a
  BY DEF Table!Answered
<1>3. ReadingTyped(x) /\ (x.no = readings => x.found \in SUBSET {Table!Served(x.q)})
      /\ readings \in Nat
  BY DEF TableInv, ReadingsInv
<1>4. Table!Range(a.rows) \in SUBSET Rows /\ a.total \in 0..Cardinality(Rows)
      /\ x.no \in 1..readings /\ x.q \in Questions
  BY <1>3 DEF ReadingTyped
<1>5. TableTyped'
  BY <1>1, <1>2, <1>4 DEF TableInv, TableTyped
<1>6. (view.page > 0 /\ ~shrunk /\ listKind # "users" =>
         view.page * view.size < Cardinality(Listed(view)))'
  BY <1>1 DEF TableInv, Listed, Table!Found
<1>7. ReadingsInv'
  <2>1. answered' \in 0..readings /\ questions' \in SUBSET questions
    BY <1>1, <1>3, <1>4
  <2> QED BY <2>1, <1>1, ReadingsRest DEF TableInv
<1>8. (answered = readings => answer = Table!Served(answer.q))'
  <2> SUFFICES ASSUME x.no = readings PROVE (answer = Table!Served(answer.q))'
    BY <1>1
  <2>1. PICK q : q = x.q
    OBVIOUS
  <2>2. a = Table!Served(q)
    BY <2>1, <1>2, <1>3
  <2>3. a.q = q
    BY <2>1, <2>2, <1>4, ServedFacts
  <2>4. Table!Served(q)' = Table!Served(q)
    BY <1>1 DEF Table!Served, Table!Found
  <2> QED BY <2>2, <2>3, <2>4, <1>2
<1> QED BY <1>1, <1>5, <1>6, <1>7, <1>8 DEF TableInv

LEMMA FailedStep ==
  ASSUME TableInv, NEW x \in questions, Table!Failed(x) PROVE TableInv'
<1>1. /\ questions' = questions \ {x} /\ listLoading' = FALSE /\ listError' = TRUE
      /\ UNCHANGED <<listKind, nameOf, view, answer, operations, shrunk, listActs, readings,
                     answered>>
  BY DEF Table!Failed, Table!historyVars
<1>2. TableTyped'
  BY <1>1 DEF TableInv, TableTyped
<1>3. (view.page > 0 /\ ~shrunk /\ listKind # "users" =>
         view.page * view.size < Cardinality(Listed(view)))'
  BY <1>1 DEF TableInv, Listed, Table!Found
<1>4. ReadingsInv' /\ (answered = readings => answer = Table!Served(answer.q))'
  BY <1>1, ReadingsRest, AnswerRests DEF TableInv, ReadingsInv
<1> QED BY <1>1, <1>2, <1>3, <1>4 DEF TableInv

LEMMA OperatedStep ==
  ASSUME TableInv, NEW o \in operations, Table!Operated(o) PROVE TableInv'
<1>1. /\ operations' = operations \ {o}
      /\ Table!Ask(questions, o.q, FALSE) /\ shrunk' = (shrunk \/ view.page > 0)
      /\ UNCHANGED <<listKind, view, answer, answered, listActs>>
  BY DEF Table!Operated
<1>2. o.q \in Questions /\ o.row \in Rows
  BY DEF TableInv, TableTyped
<1>3. nameOf' \in [Rows -> Names \cup {0}]
  <2>1. nameOf \in [Rows -> Names \cup {0}] /\ nameOf[o.row] \in Names \cup {0}
    BY <1>2 DEF TableInv, TableTyped
  <2>2. \/ \E r \in Rows : nameOf' = [nameOf EXCEPT ![r] = nameOf[o.row]]
        \/ \E n \in Names \cup {0} : nameOf' = [nameOf EXCEPT ![o.row] = n]
    BY DEF Table!Operated
  <2> QED BY <2>1, <2>2
<1>5. /\ ReadingsInv' /\ questions' # {} /\ answered' # readings'
      /\ listLoading' = TRUE /\ listError' = FALSE
  BY <1>1, <1>2, ReadingAsked DEF TableInv
<1>6. TableTyped'
  BY <1>1, <1>3, <1>5 DEF TableInv, TableTyped
<1>7. ~ (view.page > 0 /\ ~shrunk)'
  BY <1>1
<1> QED BY <1>5, <1>6, <1>7 DEF TableInv

LEMMA NotOperatedStep ==
  ASSUME TableInv, NEW o \in operations, Table!NotOperated(o) PROVE TableInv'
<1>1. /\ operations' = operations \ {o}
      /\ UNCHANGED <<listKind, nameOf, view, answer, questions, listLoading, listError, shrunk,
                     listActs, readings, answered>>
  BY DEF Table!NotOperated, Table!historyVars
<1>2. TableTyped'
  BY <1>1 DEF TableInv, TableTyped
<1>3. (view.page > 0 /\ ~shrunk /\ listKind # "users" =>
         view.page * view.size < Cardinality(Listed(view)))'
  BY <1>1 DEF TableInv, Listed, Table!Found
<1>4. ReadingsInv' /\ (answered = readings => answer = Table!Served(answer.q))'
  BY <1>1, ReadingsRest, AnswerRests DEF TableInv, ReadingsInv
<1> QED BY <1>1, <1>2, <1>3, <1>4 DEF TableInv

LEMMA TableStep == ASSUME TableInv, Table!Next PROVE TableInv'
<1>1. ASSUME Table!Viewer PROVE TableInv'
  <2>1. \A n \in 0..Table!Cardinality(Rows) : n \in 0..Cardinality(Rows)
    BY RowsCounted
  <2> QED BY <1>1, <2>1, SearchStep, FilterStep, ResetStep, SortStep, SizeStep, PageStep,
             AirportStep, RetryStep, OperateStep DEF Table!Viewer
<1>2. ASSUME Table!Answers PROVE TableInv'
  BY <1>2, ServeStep, AnsweredStep, FailedStep, OperatedStep, NotOperatedStep DEF Table!Answers
<1> QED BY <1>1, <1>2 DEF Table!Next

LEMMA TableHolds == Spec => [](page = "table" => TableInv)
<1>1. Init => (page = "table" => TableInv)
  BY TableStarts DEF Init
<1>2. (page = "table" => TableInv)
      /\ [Next]_<<page, infraVars, creationVars, profileVars, planVars, tableVars>>
        => (page = "table" => TableInv)'
  <2> SUFFICES ASSUME page = "table" => TableInv,
                      [Next]_<<page, infraVars, creationVars, profileVars, planVars, tableVars>>,
                      page' = "table"
               PROVE  TableInv'
    OBVIOUS
  <2>1. page = "table" /\ (Table!Next \/ UNCHANGED tableVars)
    BY DEF Next
  <2> QED BY <2>1, TableStep, TableRests
<1> QED BY <1>1, <1>2, PTL DEF Spec

\* A list shows the server's rows, on a page there is, and no wait without an answer to come.
LEMMA TableReaches ==
  TableInv => Table!TypeOK /\ Table!ListIsServers /\ Table!PageInRange /\ Table!LoadingEnds
<1> SUFFICES ASSUME TableInv
             PROVE  Table!TypeOK /\ Table!ListIsServers /\ Table!PageInRange /\ Table!LoadingEnds
  OBVIOUS
<1>1. Table!LoadingEnds
  BY DEF TableInv, Table!LoadingEnds
<1>2. Table!Cardinality(Rows) = Cardinality(Rows)
  BY RowsCounted
<1>3. Table!TypeOK
  BY <1>2 DEF TableInv, TableTyped, ReadingsInv, ReadingTyped, Views, Table!TypeOK
<1> QED BY <1>1, <1>3, ListShown, PageShown

-----------------------------------------------------------------------------
(* The pending changes of the airport editor *)

\* What may be pending: versions of some of the features.
Pendings == UNION {[D -> Infra!Versions] : D \in SUBSET Infra!Features}

LEMMA EditorFacts ==
  /\ MaxVersion \in Nat \ {0} /\ MaxAttempts \in Nat /\ MaxDisturbed \in Nat
  /\ NoFeature \notin Infra!Features /\ NoFeature \notin Shapes
  /\ Shapes \in SUBSET Infra!Features /\ Units \in SUBSET Infra!Features
  /\ parentOf \in [Units -> Shapes] /\ IsFiniteSet(Units)
  /\ historyLimit \in [Inventories -> Nat \ {0}]
  /\ Infra!Gone = 0 /\ Infra!Gone \in 0..MaxVersion /\ Infra!Gone \notin Infra!Versions
  /\ \A v : v \in Infra!Versions <=> v \in 0..MaxVersion /\ v # Infra!Gone
  /\ 1 \in Infra!Versions
<1>1. /\ MaxVersion \in Nat \ {0} /\ MaxAttempts \in Nat /\ MaxDisturbed \in Nat
      /\ NoFeature \notin Shapes \cup Units /\ parentOf \in [Units -> Shapes]
      /\ historyLimit \in [Inventories -> Nat \ {0}] /\ IsFiniteSet(Units)
  BY CoordinatorAssumption DEF Infra!EditorAssumption, Infra!IsFiniteSet, IsFiniteSet
<1> QED BY <1>1 DEF Infra!Features, Infra!Gone, Infra!Versions

LEMMA PatchEntry ==
  ASSUME NEW c \in Pendings
  PROVE  /\ \A f : Infra!Entry(c, f) \in 0..MaxVersion
         /\ \A f : f \in DOMAIN c <=> Infra!Entry(c, f) # Infra!Gone
         /\ \A f \in DOMAIN c : c[f] = Infra!Entry(c, f) /\ c[f] \in Infra!Versions
         /\ DOMAIN c \in SUBSET Infra!Features
<1>1. PICK D \in SUBSET Infra!Features : c \in [D -> Infra!Versions]
  BY DEF Pendings
<1>2. DOMAIN c = D /\ \A f \in D : c[f] \in Infra!Versions
  BY <1>1
<1>3. \A f : Infra!Entry(c, f) = IF f \in D THEN c[f] ELSE Infra!Gone
  BY <1>2 DEF Infra!Entry
<1>4. /\ Infra!Gone \in 0..MaxVersion /\ Infra!Gone \notin Infra!Versions
      /\ \A v : v \in Infra!Versions => v \in 0..MaxVersion
  BY EditorFacts
<1> QED BY <1>1, <1>2, <1>3, <1>4

LEMMA WithTyped ==
  ASSUME NEW c \in Pendings, NEW f \in Infra!Features, NEW v \in 0..MaxVersion
  PROVE  /\ Infra!With(c, f, v) \in Pendings
         /\ \A g : Infra!Entry(Infra!With(c, f, v), g)
                     = IF g = f THEN v ELSE Infra!Entry(c, g)
<1>1. PICK D \in SUBSET Infra!Features : c \in [D -> Infra!Versions]
  BY DEF Pendings
<1>2. DOMAIN c = D /\ \A g \in D : c[g] \in Infra!Versions
  BY <1>1
<1>3. CASE v = Infra!Gone
  <2>1. Infra!With(c, f, v) = [g \in D \ {f} |-> c[g]]
    BY <1>2, <1>3 DEF Infra!With
  <2>2. [g \in D \ {f} |-> c[g]] \in [D \ {f} -> Infra!Versions]
    BY <1>2
  <2>3. [g \in D \ {f} |-> c[g]] \in Pendings
    BY <2>2 DEF Pendings
  <2> QED BY <2>1, <2>3, <1>2, <1>3 DEF Infra!Entry
<1>4. CASE v # Infra!Gone
  <2>1. Infra!With(c, f, v) = [g \in D \cup {f} |-> IF g = f THEN v ELSE c[g]]
    BY <1>2, <1>4 DEF Infra!With
  <2>2. v \in Infra!Versions
    BY <1>4, EditorFacts
  <2>3. [g \in D \cup {f} |-> IF g = f THEN v ELSE c[g]] \in [D \cup {f} -> Infra!Versions]
    BY <1>2, <2>2
  <2>4. [g \in D \cup {f} |-> IF g = f THEN v ELSE c[g]] \in Pendings
    BY <2>3, <1>1 DEF Pendings
  <2> QED BY <2>1, <2>4, <1>2, <1>4 DEF Infra!Entry
<1> QED BY <1>3, <1>4

LEMMA NothingPending ==
  <<>> \in Pendings /\ DOMAIN <<>> = {} /\ \A f : Infra!Entry(<<>>, f) = Infra!Gone
<1>1. <<>> \in [{} -> Infra!Versions]
  OBVIOUS
<1>2. <<>> \in Pendings
  BY <1>1 DEF Pendings
<1> QED BY <1>2, <1>1 DEF Infra!Entry

\* Changes with the same entries are the same.
LEMMA PatchesEqual ==
  ASSUME NEW c \in Pendings, NEW d \in Pendings,
         \A f \in Infra!Features : Infra!Entry(c, f) = Infra!Entry(d, f)
  PROVE  c = d
<1>1. PICK C \in SUBSET Infra!Features : c \in [C -> Infra!Versions]
  BY DEF Pendings
<1>2. PICK D \in SUBSET Infra!Features : d \in [D -> Infra!Versions]
  BY DEF Pendings
<1>3. \A f \in Infra!Features : f \in C <=> f \in D
  BY <1>1, <1>2, PatchEntry
<1>4. \A f \in C : c[f] = d[f]
  BY <1>1, <1>2, <1>3, PatchEntry
<1> QED BY <1>1, <1>2, <1>3, <1>4

-----------------------------------------------------------------------------
(* The history of an editor *)

InfraTyped ==
  /\ stored \in Infra!Snapshot /\ airport \in Infra!Snapshot /\ wanted \in Infra!Snapshot
  /\ changes \in Pendings
  /\ past \in Seq(Infra!HistoryEntry) /\ future \in Seq(Infra!HistoryEntry)
  /\ maxHistory \in Nat \ {0} /\ maxHistory \in Infra!Range(historyLimit)
  /\ Len(past) + Len(future) <= maxHistory
  /\ selected \in Infra!Features \cup {NoFeature} /\ selectedData \in 0..MaxVersion
  /\ version \in Infra!Versions
  /\ attempts \in 0..MaxAttempts /\ saving \in 0..attempts
  /\ savedSelection \in Infra!Features \cup {NoFeature}
  /\ updates \in SUBSET Infra!Update /\ \A u \in updates : u.chain # <<>>
  /\ fetches \in SUBSET Infra!Fetch
  /\ deleting = Infra!NoDeletion \/ deleting \in {"sent", "served"} \X Infra!Features \X BOOLEAN
  /\ pairing \in SUBSET Shapes /\ pickedFor \in Shapes \cup {NoFeature}
  /\ pageError \in BOOLEAN /\ picking \in BOOLEAN /\ truncated \in BOOLEAN /\ strayPick \in BOOLEAN
  /\ disturbed \in Nat

\* A step of the history leads from what was pending before it to what was after.
Leads(t, s, u) ==
  /\ t.prevEntry = s[t.key] /\ t.nextEntry = u[t.key]
  /\ \A f \in Infra!Features \ {t.key} : u[f] = s[f]

\* What was pending after each step: the past leads to what is pending now, from nothing unless a
\* step was forgotten, and the future on from it.
HistoryHeld(st) ==
  /\ st \in [Nat -> Infra!Snapshot]
  /\ \A f \in Infra!Features : st[Len(past)][f] = Infra!Entry(changes, f)
  /\ ~truncated => \A f \in Infra!Features : st[0][f] = Infra!Gone
  /\ \A i \in 1..Len(past) : Leads(past[i], st[i - 1], st[i])
  /\ \A i \in 1..Len(future) : Leads(future[i], st[Len(past) + i - 1], st[Len(past) + i])

HistoryInv == \E st : HistoryHeld(st)

\* A sequence goes on with one more, and loses its first k.
GoesOn(r, s, e, k) ==
  /\ Len(r) = Len(s) + 1 - k
  /\ \A i \in 1..Len(r) : r[i] = IF i + k = Len(s) + 1 THEN e ELSE s[i + k]

LEMMA RecentFacts ==
  ASSUME NEW S, NEW s \in Seq(S), NEW e \in S, maxHistory \in Nat,
         NEW k, k = IF Len(s) + 1 > maxHistory THEN 1 ELSE 0
  PROVE  /\ Infra!Recent(Append(s, e)) \in Seq(S)
         /\ GoesOn(Infra!Recent(Append(s, e)), s, e, k)
<1>1. PICK a : a = Append(s, e)
  OBVIOUS
<1>2. /\ a \in Seq(S) /\ a # <<>> /\ Len(s) \in Nat /\ Len(a) = Len(s) + 1
      /\ \A i \in 1..Len(a) : a[i] = IF i = Len(s) + 1 THEN e ELSE s[i]
  BY <1>1
<1>3. Tail(a) \in Seq(S) /\ Len(Tail(a)) = Len(s)
      /\ \A i \in 1..Len(Tail(a)) : Tail(a)[i] = a[i + 1]
  BY <1>2, HeadTailProperties
<1>4. CASE Len(s) + 1 > maxHistory
  <2>1. Infra!Recent(a) = Tail(a)
    BY <1>2, <1>4 DEF Infra!Recent
  <2>2. \A i \in 1..Len(s) : i + 1 \in 1..Len(a)
    BY <1>2
  <2>3. \A i \in 1..Len(Tail(a)) :
          Tail(a)[i] = IF i + 1 = Len(s) + 1 THEN e ELSE s[i + 1]
    BY <2>2, <1>2, <1>3
  <2>4. k = 1 /\ Len(s) + 1 - k = Len(s)
    BY <1>2, <1>4
  <2>5. GoesOn(Tail(a), s, e, k)
    BY <2>3, <2>4, <1>3 DEF GoesOn
  <2> QED BY <2>1, <2>5, <1>1, <1>3
<1>5. CASE ~ (Len(s) + 1 > maxHistory)
  <2>1. Infra!Recent(a) = a
    BY <1>2, <1>5 DEF Infra!Recent
  <2>2. k = 0 /\ Len(s) + 1 - k = Len(s) + 1
    BY <1>2, <1>5
  <2>3. GoesOn(a, s, e, k)
    BY <2>2, <1>2 DEF GoesOn
  <2> QED BY <2>1, <2>3, <1>1, <1>2
<1> QED BY <1>4, <1>5

\* A step is done: the pasts grows by it, the changes by what it leads to.
LEMMA StepDone ==
  ASSUME InfraTyped, NEW st, HistoryHeld(st), NEW f \in Infra!Features,
         NEW v \in Infra!Versions, NEW e \in Infra!HistoryEntry,
         e = [key |-> f, prevEntry |-> Infra!Entry(changes, f), nextEntry |-> v],
         NEW k, k = IF Len(past) + 1 > maxHistory THEN 1 ELSE 0,
         past' = Infra!Recent(Append(past, e)), changes' = Infra!With(changes, f, v),
         truncated' = (truncated \/ Len(past) = maxHistory), future' = <<>>
  PROVE  HistoryInv'
<1>1. PICK p \in Nat : p = Len(past)
  BY DEF InfraTyped
<1>2. /\ past' \in Seq(Infra!HistoryEntry) /\ Len(past') = p + 1 - k
      /\ \A i \in 1..Len(past') : past'[i] = IF i + k = p + 1 THEN e ELSE past[i + k]
  <2>1. past \in Seq(Infra!HistoryEntry) /\ maxHistory \in Nat
    BY DEF InfraTyped
  <2>2. Infra!Recent(Append(past, e)) \in Seq(Infra!HistoryEntry)
        /\ GoesOn(Infra!Recent(Append(past, e)), past, e, k)
    BY <2>1, RecentFacts
  <2> QED BY <2>2, <1>1 DEF GoesOn
<1>3. k \in 0..1 /\ p <= maxHistory /\ (k = 1 => p = maxHistory) /\ maxHistory \in Nat
  <2>1. Len(future) \in Nat /\ maxHistory \in Nat /\ p + Len(future) <= maxHistory
    BY <1>1 DEF InfraTyped
  <2> QED BY <2>1, <1>1
<1>4. st \in [Nat -> Infra!Snapshot] /\ v \in 0..MaxVersion
  BY EditorFacts DEF HistoryHeld
<1> DEFINE new == [st[p] EXCEPT ![f] = v]
           s2 == [n \in Nat |-> IF n + k <= p THEN st[n + k] ELSE new]
<1>5. st[p] \in Infra!Snapshot /\ new \in Infra!Snapshot /\ new[f] = v
      /\ \A g \in Infra!Features \ {f} : new[g] = st[p][g]
  BY <1>4 DEF Infra!Snapshot
<1> HIDE DEF new
<1>6. s2 \in [Nat -> Infra!Snapshot]
  <2>1. \A n \in Nat : n + k \in Nat
    BY <1>3
  <2> QED BY <2>1, <1>4, <1>5
<1>7. \A n \in Nat : s2[n] = IF n + k <= p THEN st[n + k] ELSE new
  OBVIOUS
<1> HIDE DEF s2
<1>8. Len(past') \in Nat /\ s2[Len(past')] = new
  BY <1>2, <1>3, <1>7
<1>9. \A g \in Infra!Features : new[g] = Infra!Entry(changes', g)
  <2>1. \A g : Infra!Entry(changes', g) = IF g = f THEN v ELSE Infra!Entry(changes, g)
    BY <1>4, WithTyped DEF InfraTyped
  <2>2. \A g \in Infra!Features : st[p][g] = Infra!Entry(changes, g)
    BY <1>1 DEF HistoryHeld
  <2> QED BY <2>1, <2>2, <1>5
<1>10. ~truncated' => \A g \in Infra!Features : s2[0][g] = Infra!Gone
  <2> SUFFICES ASSUME ~truncated' PROVE \A g \in Infra!Features : s2[0][g] = Infra!Gone
    OBVIOUS
  <2>1. ~truncated /\ k = 0
    BY <1>1, <1>3
  <2>2. s2[0] = st[0]
    BY <2>1, <1>7
  <2> QED BY <2>1, <2>2 DEF HistoryHeld
<1>11. \A i \in 1..Len(past') : Leads(past'[i], s2[i - 1], s2[i])
  <2> SUFFICES ASSUME NEW i \in 1..Len(past') PROVE Leads(past'[i], s2[i - 1], s2[i])
    OBVIOUS
  <2>1. i \in Nat /\ i - 1 \in Nat /\ i + k <= p + 1 /\ (i - 1) + k <= p /\ i + k \in Nat
        /\ i + k >= 1
    BY <1>2, <1>3
  <2>2. s2[i - 1] = st[(i - 1) + k]
    BY <2>1, <1>7
  <2>3. CASE i + k = p + 1
    <3>1. past'[i] = e /\ s2[i] = new /\ s2[i - 1] = st[p]
      <4>1. ~ (i + k <= p) /\ (i - 1) + k = p
        BY <2>1, <2>3, <1>3
      <4> QED BY <4>1, <2>1, <2>2, <2>3, <1>2, <1>7
    <3>2. st[p][f] = Infra!Entry(changes, f)
      BY <1>1 DEF HistoryHeld
    <3> QED BY <3>1, <3>2, <1>5 DEF Leads
  <2>4. CASE i + k # p + 1
    <3>1. i + k \in 1..p /\ (i - 1) + k = (i + k) - 1
      BY <2>1, <2>4, <1>3
    <3>2. past'[i] = past[i + k] /\ s2[i] = st[i + k] /\ s2[i - 1] = st[(i + k) - 1]
      BY <3>1, <2>1, <2>2, <2>4, <1>2, <1>7
    <3>3. Leads(past[i + k], st[(i + k) - 1], st[i + k])
      BY <3>1, <1>1 DEF HistoryHeld
    <3> QED BY <3>2, <3>3
  <2> QED BY <2>3, <2>4
<1>12. Len(future') = 0
  OBVIOUS
<1>13. PICK s3 : s3 = s2
  OBVIOUS
<1>14. HistoryHeld(s3)'
  <2>1. s3 \in [Nat -> Infra!Snapshot]'
    BY <1>6, <1>13
  <2>2. (\A g \in Infra!Features : s3[Len(past)][g] = Infra!Entry(changes, g))'
    BY <1>8, <1>9, <1>13
  <2>3. (~truncated => \A g \in Infra!Features : s3[0][g] = Infra!Gone)'
    BY <1>10, <1>13
  <2>4. (\A i \in 1..Len(past) : Leads(past[i], s3[i - 1], s3[i]))'
    BY <1>11, <1>13
  <2>5. (\A i \in 1..Len(future) : Leads(future[i], s3[Len(past) + i - 1], s3[Len(past) + i]))'
    BY <1>12
  <2> QED BY <2>1, <2>2, <2>3, <2>4, <2>5 DEF HistoryHeld
<1> QED BY <1>14 DEF HistoryInv

LEMMA HistoryRests ==
  ASSUME HistoryInv, UNCHANGED <<changes, past, future, truncated>>
  PROVE  HistoryInv'
<1>1. PICK st : HistoryHeld(st)
  BY DEF HistoryInv
<1>2. HistoryHeld(st)'
  BY <1>1 DEF HistoryHeld
<1> QED BY <1>2 DEF HistoryInv

\* Without changes and without a history, nothing is pending before, and nothing after.
LEMMA HistoryEmpty ==
  ASSUME changes = <<>>, past = <<>>, future = <<>>
  PROVE  HistoryInv
<1>1. PICK st : st = [n \in Nat |-> [f \in Infra!Features |-> Infra!Gone]]
  OBVIOUS
<1>2. st \in [Nat -> Infra!Snapshot] /\ \A n \in Nat : \A f \in Infra!Features :
        st[n][f] = Infra!Gone
  BY <1>1, EditorFacts DEF Infra!Snapshot
<1>3. Len(past) = 0 /\ Len(future) = 0 /\ 0 \in Nat
  OBVIOUS
<1>4. \A f \in Infra!Features : st[Len(past)][f] = Infra!Entry(changes, f)
  BY <1>2, <1>3, NothingPending
<1> QED BY <1>2, <1>3, <1>4 DEF HistoryInv, HistoryHeld

LEMMA HistoryCleared ==
  ASSUME changes' = <<>>, past' = <<>>, future' = <<>>
  PROVE  HistoryInv'
<1>1. PICK st : st = [n \in Nat |-> [f \in Infra!Features |-> Infra!Gone]]
  OBVIOUS
<1>2. st \in [Nat -> Infra!Snapshot] /\ \A n \in Nat : \A f \in Infra!Features :
        st[n][f] = Infra!Gone
  BY <1>1, EditorFacts DEF Infra!Snapshot
<1>3. Len(past') = 0 /\ Len(future') = 0 /\ 0 \in Nat
  OBVIOUS
<1>4. \A f \in Infra!Features : st[Len(past')][f] = Infra!Entry(changes', f)
  BY <1>2, <1>3, NothingPending
<1>5. HistoryHeld(st)'
  BY <1>2, <1>3, <1>4 DEF HistoryHeld
<1> QED BY <1>5 DEF HistoryInv

\* The last step is undone: it is the first to redo.
LEMMA StepUndone ==
  ASSUME InfraTyped, HistoryInv, Infra!undo
  PROVE  /\ HistoryInv' /\ changes' \in Pendings
         /\ past' \in Seq(Infra!HistoryEntry) /\ future' \in Seq(Infra!HistoryEntry)
         /\ Len(past') + Len(future') = Len(past) + Len(future)
<1>1. PICK st : HistoryHeld(st)
  BY DEF HistoryInv
<1>2. PICK p \in Nat : p = Len(past)
  BY DEF InfraTyped
<1>3. PICK q \in Nat : q = Len(future)
  BY DEF InfraTyped
<1>4. PICK t : t = past[p]
  OBVIOUS
<1>5. Infra!Last(past) = t
  BY <1>2, <1>4 DEF Infra!Last
<1>6. /\ past # <<>> /\ changes' = Infra!With(changes, t.key, t.prevEntry)
      /\ past' = Infra!Front(past) /\ future' = SubSeq(<<t>> \o future, 1, q + 1)
      /\ truncated' = truncated
  BY <1>3, <1>5 DEF Infra!undo
<1>7. past \in Seq(Infra!HistoryEntry) /\ future \in Seq(Infra!HistoryEntry)
  BY DEF InfraTyped
<1>8. p # 0 /\ p \in 1..p /\ t \in Infra!HistoryEntry
  BY <1>2, <1>4, <1>6, <1>7
<1>9. t.key \in Infra!Features /\ t.prevEntry \in 0..MaxVersion
  BY <1>8 DEF Infra!HistoryEntry
<1>10. /\ past' \in Seq(Infra!HistoryEntry) /\ Len(past') = p - 1
       /\ \A i \in 1..(p - 1) : past'[i] = past[i]
  BY <1>2, <1>6, <1>7, <1>8 DEF Infra!Front
<1>11. /\ future' \in Seq(Infra!HistoryEntry) /\ Len(future') = q + 1
       /\ \A i \in 1..(q + 1) : future'[i] = IF i = 1 THEN t ELSE future[i - 1]
  <2>1. PICK s : s = <<t>> \o future
    OBVIOUS
  <2>2. /\ s \in Seq(Infra!HistoryEntry) /\ Len(s) = q + 1
        /\ \A i \in 1..(q + 1) : s[i] = IF i = 1 THEN t ELSE future[i - 1]
    BY <2>1, <1>3, <1>7, <1>8
  <2>3. SubSeq(s, 1, q + 1) = s
    BY <2>2, SubSeqFull
  <2> QED BY <2>1, <2>2, <2>3, <1>6
<1>12. /\ changes' \in Pendings
       /\ \A g : Infra!Entry(changes', g) = IF g = t.key THEN t.prevEntry
                                            ELSE Infra!Entry(changes, g)
  BY <1>6, <1>9, WithTyped DEF InfraTyped
<1>13. Leads(t, st[p - 1], st[p])
  BY <1>1, <1>2, <1>4, <1>8 DEF HistoryHeld
<1>14. \A g \in Infra!Features : st[p - 1][g] = Infra!Entry(changes', g)
  <2>1. \A g \in Infra!Features : st[p][g] = Infra!Entry(changes, g)
    BY <1>1, <1>2 DEF HistoryHeld
  <2> QED BY <2>1, <1>12, <1>13 DEF Leads
<1>15. \A i \in 1..(p - 1) : Leads(past'[i], st[i - 1], st[i])
  BY <1>1, <1>2, <1>10 DEF HistoryHeld
<1>16. \A i \in 1..(q + 1) : Leads(future'[i], st[(p - 1) + i - 1], st[(p - 1) + i])
  <2> SUFFICES ASSUME NEW i \in 1..(q + 1)
               PROVE  Leads(future'[i], st[(p - 1) + i - 1], st[(p - 1) + i])
    OBVIOUS
  <2>1. CASE i = 1
    <3>1. (p - 1) + i - 1 = p - 1 /\ (p - 1) + i = p
      BY <2>1
    <3> QED BY <3>1, <2>1, <1>11, <1>13
  <2>2. CASE i # 1
    <3>1. i - 1 \in 1..q /\ (p - 1) + i - 1 = p + (i - 1) - 1 /\ (p - 1) + i = p + (i - 1)
      BY <2>2
    <3>2. Leads(future[i - 1], st[p + (i - 1) - 1], st[p + (i - 1)])
      BY <3>1, <1>1, <1>2, <1>3 DEF HistoryHeld
    <3> QED BY <3>1, <3>2, <2>2, <1>11
  <2> QED BY <2>1, <2>2
<1>17. HistoryHeld(st)'
  <2>1. st \in [Nat -> Infra!Snapshot]'
        /\ (~truncated => \A f \in Infra!Features : st[0][f] = Infra!Gone)'
    BY <1>1, <1>6 DEF HistoryHeld
  <2>2. Len(past') = p - 1 /\ Len(future') = q + 1
    BY <1>10, <1>11
  <2>3. (\A g \in Infra!Features : st[Len(past)][g] = Infra!Entry(changes, g))'
    BY <2>2, <1>14
  <2>4. (\A i \in 1..Len(past) : Leads(past[i], st[i - 1], st[i]))'
    BY <2>2, <1>15
  <2>5. (\A i \in 1..Len(future) : Leads(future[i], st[Len(past) + i - 1], st[Len(past) + i]))'
    BY <2>2, <1>16
  <2> QED BY <2>1, <2>3, <2>4, <2>5 DEF HistoryHeld
<1> QED BY <1>2, <1>3, <1>8, <1>10, <1>11, <1>12, <1>17 DEF HistoryInv

\* The next step is done again; there is room for it.
LEMMA StepRedone ==
  ASSUME InfraTyped, HistoryInv, Infra!redo
  PROVE  /\ HistoryInv' /\ changes' \in Pendings /\ truncated' = truncated
         /\ past' \in Seq(Infra!HistoryEntry) /\ future' \in Seq(Infra!HistoryEntry)
         /\ Len(past') + Len(future') = Len(past) + Len(future)
<1>1. PICK st : HistoryHeld(st)
  BY DEF HistoryInv
<1>2. PICK p \in Nat : p = Len(past)
  BY DEF InfraTyped
<1>3. PICK q \in Nat : q = Len(future)
  BY DEF InfraTyped
<1>4. PICK t : t = Head(future)
  OBVIOUS
<1>5. /\ future # <<>> /\ changes' = Infra!With(changes, t.key, t.nextEntry)
      /\ past' = Infra!Recent(Append(past, t)) /\ future' = Tail(future)
      /\ truncated' = (truncated \/ Len(past) = maxHistory)
  BY <1>4 DEF Infra!redo
<1>6. past \in Seq(Infra!HistoryEntry) /\ future \in Seq(Infra!HistoryEntry)
      /\ maxHistory \in Nat /\ p + q <= maxHistory /\ truncated \in BOOLEAN
  BY <1>2, <1>3 DEF InfraTyped
<1>7. q # 0 /\ t = future[1] /\ t \in Infra!HistoryEntry
  BY <1>3, <1>4, <1>5, <1>6
<1>8. t.key \in Infra!Features /\ t.nextEntry \in 0..MaxVersion
  BY <1>7, EditorFacts DEF Infra!HistoryEntry
<1>9. p # maxHistory /\ ~ (p + 1 > maxHistory)
  BY <1>6, <1>7
<1>10. /\ past' \in Seq(Infra!HistoryEntry) /\ Len(past') = p + 1
       /\ \A i \in 1..(p + 1) : past'[i] = IF i = p + 1 THEN t ELSE past[i]
  <2>1. Infra!Recent(Append(past, t)) \in Seq(Infra!HistoryEntry)
        /\ GoesOn(Infra!Recent(Append(past, t)), past, t, 0)
    BY <1>2, <1>6, <1>7, <1>9, RecentFacts
  <2>2. \A i \in 1..(p + 1) : i + 0 = i
    OBVIOUS
  <2> QED BY <2>1, <2>2, <1>2, <1>5 DEF GoesOn
<1>11. /\ future' \in Seq(Infra!HistoryEntry) /\ Len(future') = q - 1
       /\ \A i \in 1..(q - 1) : future'[i] = future[i + 1]
  BY <1>3, <1>5, <1>6, HeadTailProperties
<1>12. /\ changes' \in Pendings
       /\ \A g : Infra!Entry(changes', g) = IF g = t.key THEN t.nextEntry
                                            ELSE Infra!Entry(changes, g)
  BY <1>5, <1>8, WithTyped DEF InfraTyped
<1>13. Leads(t, st[p], st[p + 1])
  <2>1. Leads(future[1], st[p + 1 - 1], st[p + 1])
    BY <1>1, <1>2, <1>3, <1>7 DEF HistoryHeld
  <2>2. p + 1 - 1 = p
    OBVIOUS
  <2> QED BY <2>1, <2>2, <1>7
<1>14. \A g \in Infra!Features : st[p + 1][g] = Infra!Entry(changes', g)
  <2>1. \A g \in Infra!Features : st[p][g] = Infra!Entry(changes, g)
    BY <1>1, <1>2 DEF HistoryHeld
  <2> QED BY <2>1, <1>12, <1>13 DEF Leads
<1>15. \A i \in 1..(p + 1) : Leads(past'[i], st[i - 1], st[i])
  <2> SUFFICES ASSUME NEW i \in 1..(p + 1) PROVE Leads(past'[i], st[i - 1], st[i])
    OBVIOUS
  <2>1. CASE i = p + 1
    <3>1. i - 1 = p
      BY <2>1
    <3> QED BY <3>1, <2>1, <1>10, <1>13
  <2>2. CASE i # p + 1
    <3>1. i \in 1..p
      BY <2>2
    <3> QED BY <3>1, <2>2, <1>1, <1>2, <1>10 DEF HistoryHeld
  <2> QED BY <2>1, <2>2
<1>16. \A i \in 1..(q - 1) : Leads(future'[i], st[(p + 1) + i - 1], st[(p + 1) + i])
  <2> SUFFICES ASSUME NEW i \in 1..(q - 1)
               PROVE  Leads(future'[i], st[(p + 1) + i - 1], st[(p + 1) + i])
    OBVIOUS
  <2>1. i + 1 \in 1..q /\ (p + 1) + i - 1 = p + (i + 1) - 1 /\ (p + 1) + i = p + (i + 1)
    OBVIOUS
  <2>2. Leads(future[i + 1], st[p + (i + 1) - 1], st[p + (i + 1)])
    BY <2>1, <1>1, <1>2, <1>3 DEF HistoryHeld
  <2> QED BY <2>1, <2>2, <1>11
<1>17. truncated' = truncated
  BY <1>2, <1>5, <1>6, <1>9
<1>18. HistoryHeld(st)'
  <2>1. st \in [Nat -> Infra!Snapshot]'
        /\ (~truncated => \A f \in Infra!Features : st[0][f] = Infra!Gone)'
    BY <1>1, <1>17 DEF HistoryHeld
  <2>2. Len(past') = p + 1 /\ Len(future') = q - 1
    BY <1>10, <1>11
  <2>3. (\A g \in Infra!Features : st[Len(past)][g] = Infra!Entry(changes, g))'
    BY <2>2, <1>14
  <2>4. (\A i \in 1..Len(past) : Leads(past[i], st[i - 1], st[i]))'
    BY <2>2, <1>15
  <2>5. (\A i \in 1..Len(future) : Leads(future[i], st[Len(past) + i - 1], st[Len(past) + i]))'
    BY <2>2, <1>16
  <2> QED BY <2>1, <2>3, <2>4, <2>5 DEF HistoryHeld
<1> QED BY <1>2, <1>3, <1>7, <1>10, <1>11, <1>12, <1>17, <1>18 DEF HistoryInv

\* Undoing the past goes back through what was pending.
LEMMA PastUnwinds ==
  ASSUME InfraTyped, NEW st, HistoryHeld(st)
  PROVE  \A n \in 0..Len(past) :
           /\ Infra!Unwound[n] \in Pendings
           /\ \A f \in Infra!Features : Infra!Entry(Infra!Unwound[n], f) = st[n][f]
<1>1. PICK p \in Nat : p = Len(past)
  BY DEF InfraTyped
<1>2. \A n \in 1..p : past[n] \in Infra!HistoryEntry
  BY <1>1 DEF InfraTyped
<1>3. st \in [Nat -> Infra!Snapshot]
  BY DEF HistoryHeld
<1> DEFINE Pend(n) == [f \in {g \in Infra!Features : st[n][g] # Infra!Gone} |-> st[n][f]]
<1>4. \A n \in 0..p : /\ Pend(n) \in Pendings
                      /\ \A f \in Infra!Features : Infra!Entry(Pend(n), f) = st[n][f]
  <2> SUFFICES ASSUME NEW n \in 0..p
               PROVE  /\ Pend(n) \in Pendings
                      /\ \A f \in Infra!Features : Infra!Entry(Pend(n), f) = st[n][f]
    OBVIOUS
  <2>1. \A f \in Infra!Features : st[n][f] \in 0..MaxVersion
    BY <1>3 DEF Infra!Snapshot
  <2>2. PICK D : D = {g \in Infra!Features : st[n][g] # Infra!Gone}
    OBVIOUS
  <2>3. D \in SUBSET Infra!Features /\ \A f \in D : st[n][f] \in Infra!Versions
    BY <2>1, <2>2, EditorFacts
  <2>4. Pend(n) = [f \in D |-> st[n][f]]
    BY <2>2
  <2> HIDE DEF Pend
  <2>5. Pend(n) \in [D -> Infra!Versions]
    BY <2>3, <2>4
  <2>6. Pend(n) \in Pendings
    BY <2>3, <2>5 DEF Pendings
  <2> QED BY <2>2, <2>4, <2>6 DEF Infra!Entry
<1> HIDE DEF Pend
<1>5. Pend(p) = changes
  <2>1. \A f \in Infra!Features : st[p][f] = Infra!Entry(changes, f)
    BY <1>1 DEF HistoryHeld
  <2>2. p \in 0..p
    OBVIOUS
  <2> QED BY <2>1, <2>2, <1>4, PatchesEqual DEF InfraTyped
<1>6. ASSUME NEW n \in 0..(p - 1), NEW c \in Pendings,
             \A f \in Infra!Features : Infra!Entry(c, f) = st[n + 1][f]
      PROVE  LET w == Infra!With(c, past[n + 1].key, past[n + 1].prevEntry) IN
             w \in Pendings /\ \A f \in Infra!Features : Infra!Entry(w, f) = st[n][f]
  <2>1. n + 1 \in 1..p /\ (n + 1) - 1 = n
    OBVIOUS
  <2>2. PICK t \in Infra!HistoryEntry : t = past[n + 1]
    BY <2>1, <1>2
  <2>3. Leads(t, st[n], st[n + 1])
    <3>1. Leads(past[n + 1], st[(n + 1) - 1], st[n + 1])
      BY <2>1, <1>1 DEF HistoryHeld
    <3> QED BY <3>1, <2>1, <2>2
  <2>4. t.key \in Infra!Features /\ t.prevEntry \in 0..MaxVersion
    BY DEF Infra!HistoryEntry
  <2>5. PICK w : w = Infra!With(c, t.key, t.prevEntry)
    OBVIOUS
  <2>6. /\ w \in Pendings
        /\ \A g : Infra!Entry(w, g) = IF g = t.key THEN t.prevEntry ELSE Infra!Entry(c, g)
    BY <2>4, <2>5, WithTyped
  <2>7. \A f \in Infra!Features : Infra!Entry(w, f) = st[n][f]
    BY <2>3, <2>6, <1>6 DEF Leads
  <2> QED BY <2>2, <2>5, <2>6, <2>7
<1> DEFINE u == [n \in 0..p |-> Pend(n)]
           Eq(g) == g = [n \in 0..p |-> IF n = p THEN changes
                           ELSE Infra!With(g[n + 1], past[n + 1].key, past[n + 1].prevEntry)]
<1>7. Eq(u)
  <2>1. ASSUME NEW n \in 0..p
        PROVE  Pend(n) = IF n = p THEN changes
                         ELSE Infra!With(u[n + 1], past[n + 1].key, past[n + 1].prevEntry)
    <3>1. CASE n = p
      BY <3>1, <1>5
    <3>2. CASE n # p
      <4>1. n \in 0..(p - 1) /\ n + 1 \in 0..p /\ u[n + 1] = Pend(n + 1)
        BY <3>2
      <4>2. PICK w : w = Infra!With(Pend(n + 1), past[n + 1].key, past[n + 1].prevEntry)
        OBVIOUS
      <4>3. w \in Pendings /\ \A f \in Infra!Features : Infra!Entry(w, f) = st[n][f]
        BY <4>1, <4>2, <1>4, <1>6
      <4>4. w = Pend(n)
        BY <4>3, <1>4, PatchesEqual
      <4> QED BY <4>1, <4>2, <4>4, <3>2
    <3> QED BY <3>1, <3>2
  <2> QED BY <2>1
<1>8. PICK w : w = Infra!Unwound
  OBVIOUS
<1>9. Eq(w)
  <2>1. w = CHOOSE g : Eq(g)
    BY <1>1, <1>8 DEF Infra!Unwound
  <2> HIDE DEF Eq, u
  <2> QED BY <2>1, <1>7
<1>10. w[p] = changes /\ \A n \in 0..(p - 1) :
         w[n] = Infra!With(w[n + 1], past[n + 1].key, past[n + 1].prevEntry)
  <2>1. \A n \in 0..p : w[n] = IF n = p THEN changes
                           ELSE Infra!With(w[n + 1], past[n + 1].key, past[n + 1].prevEntry)
    BY <1>9
  <2>2. p \in 0..p /\ \A n \in 0..(p - 1) : n \in 0..p /\ n # p
    OBVIOUS
  <2> HIDE DEF Eq
  <2> QED BY <2>1, <2>2
<1> HIDE DEF Eq, u
<1> DEFINE Good(n) == w[n] \in Pendings /\ \A f \in Infra!Features : Infra!Entry(w[n], f) = st[n][f]
           Bad == {m \in 0..p : ~Good(p - m)}
<1>11. Bad = {}
  <2> SUFFICES ASSUME Bad # {} PROVE FALSE
    OBVIOUS
  <2>1. Bad \in SUBSET Nat
    OBVIOUS
  <2>2. PICK m \in Bad : \A k \in Bad : m <= k
    <3> HIDE DEF Bad
    <3> QED BY <2>1, LeastThere
  <2>3. m \in 0..p /\ ~Good(p - m)
    BY <2>2
  <2>4. Good(p)
    BY <1>1, <1>10 DEF HistoryHeld, InfraTyped
  <2>5. m # 0 /\ p - 0 = p
    BY <2>3, <2>4
  <2>6. m - 1 \in 0..p /\ m - 1 \notin Bad
    <3>1. m - 1 \in 0..p /\ ~ (m <= m - 1)
      BY <2>3, <2>5
    <3> HIDE DEF Bad
    <3> QED BY <3>1, <2>2
  <2>7. Good(p - (m - 1))
    BY <2>6
  <2>8. PICK n : n = p - m
    OBVIOUS
  <2>9. n \in 0..(p - 1) /\ p - (m - 1) = n + 1
    BY <2>3, <2>5, <2>8
  <2>10. Good(n)
    BY <2>7, <2>9, <1>6, <1>10
  <2> QED BY <2>3, <2>8, <2>10
<1>12. \A n \in 0..p : Good(n)
  <2> SUFFICES ASSUME NEW n \in 0..p PROVE Good(n)
    OBVIOUS
  <2>1. p - n \in 0..p /\ p - (p - n) = n
    OBVIOUS
  <2>2. Good(p - (p - n))
    BY <2>1, <1>11
  <2> HIDE DEF Good
  <2> QED BY <2>1, <2>2
<1> QED BY <1>1, <1>8, <1>12

\* The history fits the pending changes.
LEMMA HistoryFits ==
  ASSUME InfraTyped, HistoryInv
  PROVE  Infra!HistoryUnwinds
<1>1. PICK st : HistoryHeld(st)
  BY DEF HistoryInv
<1>2. PICK p \in Nat : p = Len(past)
  BY DEF InfraTyped
<1>3. PICK w : w = Infra!Unwound
  OBVIOUS
<1>4. \A n \in 0..p : w[n] \in Pendings
                      /\ \A f \in Infra!Features : Infra!Entry(w[n], f) = st[n][f]
  BY <1>1, <1>2, <1>3, PastUnwinds
<1>5. \A n \in 1..p : Infra!Entry(w[n], past[n].key) = past[n].nextEntry
  <2> SUFFICES ASSUME NEW n \in 1..p
               PROVE  Infra!Entry(w[n], past[n].key) = past[n].nextEntry
    OBVIOUS
  <2>1. past[n].key \in Infra!Features
    <3>1. past \in Seq(Infra!HistoryEntry) /\ n \in 1..Len(past)
      BY <1>2 DEF InfraTyped
    <3>2. past[n] \in Infra!HistoryEntry
      BY <3>1
    <3> QED BY <3>2 DEF Infra!HistoryEntry
  <2>2. Leads(past[n], st[n - 1], st[n])
    BY <1>1, <1>2 DEF HistoryHeld
  <2>3. n \in 0..p
    OBVIOUS
  <2> QED BY <2>1, <2>2, <2>3, <1>4 DEF Leads
<1>6. truncated \/ w[0] = <<>>
  <2> SUFFICES ASSUME ~truncated PROVE w[0] = <<>>
    OBVIOUS
  <2>1. 0 \in 0..p
    OBVIOUS
  <2>2. w[0] \in Pendings /\ \A f \in Infra!Features : Infra!Entry(w[0], f) = Infra!Gone
    BY <2>1, <1>1, <1>4 DEF HistoryHeld
  <2> QED BY <2>2, NothingPending, PatchesEqual
<1>7. future # <<>> =>
        Infra!Entry(changes, Head(future).key) = Head(future).prevEntry
  <2> SUFFICES ASSUME future # <<>>
               PROVE  Infra!Entry(changes, Head(future).key) = Head(future).prevEntry
    OBVIOUS
  <2>1. future \in Seq(Infra!HistoryEntry)
    BY DEF InfraTyped
  <2>2. Head(future) = future[1] /\ 1 \in 1..Len(future) /\ future[1] \in Infra!HistoryEntry
    BY <2>1
  <2>3. Leads(future[1], st[p + 1 - 1], st[p + 1])
    BY <2>2, <1>1, <1>2 DEF HistoryHeld
  <2>4. p + 1 - 1 = p
    OBVIOUS
  <2>5. future[1].key \in Infra!Features
    BY <2>2 DEF Infra!HistoryEntry
  <2> QED BY <2>2, <2>3, <2>4, <2>5, <1>1, <1>2 DEF Leads, HistoryHeld
<1> QED BY <1>2, <1>3, <1>5, <1>6, <1>7 DEF Infra!HistoryUnwinds

-----------------------------------------------------------------------------
(* An editor that was left alone while it was at work *)

\* What is seen of a feature of which the server has this version.
Seen(c, f, v) == IF Infra!Entry(c, f) # Infra!Gone THEN Infra!Entry(c, f) ELSE v

\* While a save is under way nothing else is, and what is pending is stored or on its way.
SavePhase ==
  /\ saving # 0 => /\ deleting = Infra!NoDeletion /\ pairing = {} /\ savedSelection = selected
                   /\ \A g \in fetches : g.for = "save"
  /\ updates # {} => saving # 0 /\ fetches = {}
  /\ \A u \in updates : u.by = saving /\ \A i \in 1..Len(u.chain) :
                          u.chain[i].data = Infra!Entry(changes, u.chain[i].on)
  /\ saving # 0 /\ fetches = {} =>
       \A f \in Infra!Features : Infra!Entry(changes, f) # Infra!Gone =>
         \/ stored[f] \in {Infra!Gone, Infra!Entry(changes, f)}
         \/ \E u \in updates : \E i \in 1..Len(u.chain) : u.chain[i].on = f
  /\ saving = 0 /\ fetches = {} => airport = stored

\* A deletion or a pairing is alone, too.
ServerPhase ==
  /\ deleting # Infra!NoDeletion => saving = 0 /\ pairing = {}
  /\ deleting[1] = "sent" => fetches = {}
  /\ pairing # {} => fetches = {} /\ deleting = Infra!NoDeletion /\ saving = 0
       /\ selected \in Shapes

\* The airport is read by one of them at a time, and read as it is.
FetchPhase ==
  /\ \A g, h \in fetches : g = h
  /\ \A g \in fetches :
       /\ ~g.outdated /\ (g.read => g.found = stored)
       /\ \/ g.for = "save" /\ saving # 0 /\ updates = {} /\ g.keep = selected
          \/ /\ g.for = "delete" /\ deleting[1] = "served"
             /\ \A f \in Infra!Features : stored[f] # Infra!Gone => stored[f] = airport[f]
          \/ /\ g.for = "pair" /\ g.keep = selected /\ selected \in Shapes
             /\ deleting = Infra!NoDeletion /\ saving = 0

\* What the operator sees of every feature is what he gave it, once all has come.
Calm ==
  /\ ~pageError /\ ~strayPick /\ (picking => selected = pickedFor)
  /\ \A f \in Infra!Features :
       stored[f] # Infra!Gone => Seen(changes, f, stored[f]) = wanted[f]
  /\ selected # NoFeature /\ airport[selected] # Infra!Gone => selectedData = airport[selected]
  /\ SavePhase /\ ServerPhase /\ FetchPhase

InfraInv == InfraTyped /\ HistoryInv /\ (disturbed = 0 => Calm)

LEMMA InfraStarts == ASSUME Infra!Init PROVE InfraInv
<1>1. PICK i \in Inventories :
        /\ stored = [f \in Infra!Features |-> IF f \in i THEN 1 ELSE Infra!Gone]
        /\ maxHistory = historyLimit[i]
  BY DEF Infra!Init
<1>2. stored \in Infra!Snapshot
  BY <1>1, EditorFacts DEF Infra!Snapshot
<1>3. maxHistory \in Nat \ {0} /\ maxHistory \in Infra!Range(historyLimit)
  BY <1>1, EditorFacts DEF Infra!Range
<1>4. /\ airport = stored /\ pageError = FALSE /\ changes = <<>> /\ past = <<>> /\ future = <<>>
      /\ selected = NoFeature /\ selectedData = 1 /\ version = 1
      /\ saving = 0 /\ attempts = 0 /\ savedSelection = NoFeature
      /\ updates = {} /\ fetches = {} /\ deleting = Infra!NoDeletion /\ pairing = {}
      /\ picking = FALSE /\ wanted = stored
      /\ truncated = FALSE /\ pickedFor = NoFeature /\ strayPick = FALSE /\ disturbed = 0
  BY DEF Infra!Init
<1>5. past \in Seq(Infra!HistoryEntry) /\ future \in Seq(Infra!HistoryEntry)
      /\ Len(past) + Len(future) = 0
  BY <1>4
<1>6. 1 \in 0..MaxVersion /\ 1 \in Infra!Versions /\ attempts \in 0..MaxAttempts
      /\ saving \in 0..attempts
  BY <1>4, EditorFacts
<1>7. Len(past) + Len(future) <= maxHistory
  BY <1>5, <1>3
<1>8. InfraTyped
  BY <1>2, <1>3, <1>4, <1>5, <1>6, <1>7, NothingPending DEF InfraTyped
<1>9. HistoryInv
  BY <1>4, HistoryEmpty
<1>10. Calm
  <2>1. \A f \in Infra!Features : Seen(changes, f, stored[f]) = wanted[f]
    BY <1>4, NothingPending DEF Seen
  <2>2. SavePhase /\ FetchPhase
    BY <1>4 DEF SavePhase, FetchPhase
  <2>3. ServerPhase
    BY <1>4 DEF ServerPhase, Infra!NoDeletion
  <2> QED BY <2>1, <2>2, <2>3, <1>4 DEF Calm
<1> QED BY <1>8, <1>9, <1>10 DEF InfraInv

LEMMA InfraRests == ASSUME InfraInv, UNCHANGED infraVars PROVE InfraInv'
<1>1. InfraTyped'
  BY DEF InfraInv, InfraTyped, infraVars
<1>2. HistoryInv'
  BY HistoryRests DEF InfraInv, infraVars
<1>3. SavePhase' = SavePhase /\ ServerPhase' = ServerPhase /\ FetchPhase' = FetchPhase
  BY DEF infraVars, SavePhase, ServerPhase, FetchPhase
<1>4. Calm' = Calm
  BY <1>3 DEF Calm, infraVars
<1> QED BY <1>1, <1>2, <1>4 DEF InfraInv, infraVars

\* The operator acts: what was left alone is so only if nothing was under way.
LEMMA ActsAlone ==
  ASSUME InfraInv, Infra!Acts
  PROVE  /\ disturbed' \in Nat
         /\ disturbed' = 0 => /\ Calm /\ airport = stored
                              /\ saving = 0 /\ updates = {} /\ fetches = {}
                              /\ deleting = Infra!NoDeletion /\ pairing = {}
<1>1. disturbed \in Nat
  BY DEF InfraInv, InfraTyped
<1>2. CASE ~Infra!Busy /\ UNCHANGED disturbed
  BY <1>1, <1>2 DEF InfraInv, Calm, SavePhase, Infra!Busy
<1>3. CASE disturbed' = disturbed + 1
  BY <1>1, <1>3
<1> QED BY <1>2, <1>3 DEF Infra!Acts

\* An edit: the feature's newest version is pending and is what was wanted.
LEMMA EditDone ==
  ASSUME InfraInv, NEW f \in Infra!Features, Infra!Edit(f), maxHistory' = maxHistory
  PROVE  /\ HistoryInv' /\ changes' \in Pendings /\ version' \in Infra!Versions
         /\ past' \in Seq(Infra!HistoryEntry) /\ future' \in Seq(Infra!HistoryEntry)
         /\ Len(past') + Len(future') <= maxHistory' /\ truncated' \in BOOLEAN
         /\ wanted' \in Infra!Snapshot
         /\ \A g \in Infra!Features : \A v :
              Seen(changes, g, v) = wanted[g] => Seen(changes', g, v) = wanted'[g]
<1>1. PICK v : v = version'
  OBVIOUS
<1>2. v \in Infra!Versions
  <2>1. version \in Nat /\ version >= 1 /\ version < MaxVersion /\ v = version + 1
    BY <1>1, EditorFacts DEF Infra!Edit, InfraInv, InfraTyped, Infra!Versions
  <2> QED BY <2>1, EditorFacts DEF Infra!Versions
<1>3. PICK e : e = [key |-> f, prevEntry |-> Infra!Entry(changes, f), nextEntry |-> v]
  OBVIOUS
<1>4. /\ changes' = Infra!With(changes, f, v) /\ past' = Infra!Recent(Append(past, e))
      /\ truncated' = (truncated \/ Len(past) = maxHistory) /\ future' = <<>>
      /\ wanted' = [wanted EXCEPT ![f] = v]
  BY <1>1, <1>3 DEF Infra!Edit, Infra!markDirty
<1>5. e \in Infra!HistoryEntry
  BY <1>2, <1>3, PatchEntry DEF Infra!HistoryEntry, InfraInv, InfraTyped
<1>6. PICK k : k = IF Len(past) + 1 > maxHistory THEN 1 ELSE 0
  OBVIOUS
<1>7. PICK st : HistoryHeld(st)
  BY DEF InfraInv, HistoryInv
<1>8. InfraTyped
  BY DEF InfraInv
<1>9. HistoryInv'
  BY <1>2, <1>3, <1>4, <1>5, <1>6, <1>7, <1>8, StepDone
<1>10. past' \in Seq(Infra!HistoryEntry) /\ Len(past') + Len(future') <= maxHistory'
  <2>1. PICK p \in Nat : p = Len(past)
    BY <1>8 DEF InfraTyped
  <2>2. past \in Seq(Infra!HistoryEntry) /\ maxHistory \in Nat /\ p <= maxHistory
    <3>1. /\ past \in Seq(Infra!HistoryEntry) /\ maxHistory \in Nat /\ Len(future) \in Nat
          /\ p + Len(future) <= maxHistory
      BY <1>8, <2>1 DEF InfraTyped
    <3> QED BY <3>1
  <2>3. past' \in Seq(Infra!HistoryEntry) /\ Len(past') = p + 1 - k
    BY <2>1, <2>2, <1>4, <1>5, <1>6, RecentFacts DEF GoesOn
  <2>4. Len(future') = 0
    BY <1>4
  <2>5. p + 1 - k <= maxHistory
    BY <2>1, <2>2, <1>6
  <2> QED BY <2>1, <2>3, <2>4, <2>5
<1>11. v \in 0..MaxVersion /\ v # Infra!Gone
  BY <1>2, EditorFacts
<1>12. /\ changes' \in Pendings
       /\ \A g : Infra!Entry(changes', g) = IF g = f THEN v ELSE Infra!Entry(changes, g)
  BY <1>4, <1>8, <1>11, WithTyped DEF InfraTyped
<1>13. wanted' \in Infra!Snapshot
       /\ \A g \in Infra!Features : wanted'[g] = IF g = f THEN v ELSE wanted[g]
  BY <1>4, <1>8, <1>11 DEF InfraTyped, Infra!Snapshot
<1>14. \A g \in Infra!Features : \A w :
         Seen(changes, g, w) = wanted[g] => Seen(changes', g, w) = wanted'[g]
  BY <1>11, <1>12, <1>13 DEF Seen
<1>15. future' \in Seq(Infra!HistoryEntry) /\ truncated' \in BOOLEAN
  BY <1>4, <1>8 DEF InfraTyped
<1> QED BY <1>1, <1>2, <1>9, <1>10, <1>12, <1>13, <1>14, <1>15

\* Once nothing is under way, the phases ask little.
LEMMA IdlePhases ==
  ASSUME saving' = 0, updates' = {}, fetches' = {}, deleting' = Infra!NoDeletion, pairing' = {},
         airport' = stored'
  PROVE  (SavePhase /\ ServerPhase /\ FetchPhase)'
BY DEF SavePhase, ServerPhase, FetchPhase, Infra!NoDeletion

LEMMA EditStep ==
  ASSUME InfraInv, NEW f \in Infra!Features, Infra!Edit(f), Infra!Acts, maxHistory' = maxHistory,
         UNCHANGED <<stored, airport, pageError, fetches, saving, attempts, savedSelection, updates,
                     selected, selectedData, deleting, pairing>>,
         picking' \in BOOLEAN, pickedFor' \in Shapes \cup {NoFeature}, strayPick' \in BOOLEAN,
         Calm => ~strayPick' /\ (picking' => selected = pickedFor')
  PROVE  InfraInv'
<1>1. /\ HistoryInv' /\ changes' \in Pendings /\ version' \in Infra!Versions
      /\ past' \in Seq(Infra!HistoryEntry) /\ future' \in Seq(Infra!HistoryEntry)
      /\ Len(past') + Len(future') <= maxHistory' /\ truncated' \in BOOLEAN
      /\ wanted' \in Infra!Snapshot
      /\ \A g \in Infra!Features : \A v :
           Seen(changes, g, v) = wanted[g] => Seen(changes', g, v) = wanted'[g]
  BY EditDone
<1>2. /\ disturbed' \in Nat
      /\ disturbed' = 0 => /\ Calm /\ airport = stored
                           /\ saving = 0 /\ updates = {} /\ fetches = {}
                           /\ deleting = Infra!NoDeletion /\ pairing = {}
  BY ActsAlone
<1>3. InfraTyped'
  BY <1>1, <1>2 DEF InfraInv, InfraTyped
<1>4. ASSUME disturbed' = 0 PROVE Calm'
  <2>1. (SavePhase /\ ServerPhase /\ FetchPhase)'
    BY <1>2, <1>4, IdlePhases
  <2>2. (\A g \in Infra!Features :
           stored[g] # Infra!Gone => Seen(changes, g, stored[g]) = wanted[g])'
    <3>1. \A g \in Infra!Features :
            stored[g] # Infra!Gone => Seen(changes, g, stored[g]) = wanted[g]
      BY <1>2, <1>4 DEF Calm
    <3>2. \A g \in Infra!Features :
            stored[g] # Infra!Gone => Seen(changes', g, stored[g]) = wanted'[g]
      BY <3>1, <1>1
    <3> QED BY <3>2 DEF Seen
  <2> QED BY <2>1, <2>2, <1>2, <1>4 DEF Calm
<1> QED BY <1>1, <1>3, <1>4 DEF InfraInv

LEMMA FeatureUpdateStep ==
  ASSUME InfraInv, Infra!handleFeatureUpdate, maxHistory' = maxHistory PROVE InfraInv'
<1>1. /\ selected # NoFeature /\ Infra!Edit(selected) /\ Infra!Acts
      /\ UNCHANGED <<stored, airport, pageError, fetches, saving, attempts, savedSelection, updates,
                     picking, pickedFor, strayPick, selected, selectedData, deleting, pairing>>
  BY DEF Infra!handleFeatureUpdate, Infra!serverVars, Infra!saveVars, Infra!pickVars
<1>2. selected \in Infra!Features
  BY <1>1 DEF InfraInv, InfraTyped
<1>3. /\ picking' \in BOOLEAN /\ pickedFor' \in Shapes \cup {NoFeature} /\ strayPick' \in BOOLEAN
      /\ Calm => ~strayPick' /\ (picking' => selected = pickedFor')
  BY <1>1 DEF InfraInv, InfraTyped, Calm
<1>4. PICK f \in Infra!Features : f = selected
  BY <1>2
<1> QED BY <1>1, <1>3, <1>4, EditStep

LEMMA PointDragStep ==
  ASSUME InfraInv, Infra!handleInfraPointDrag, maxHistory' = maxHistory PROVE InfraInv'
<1>1. PICK u \in Units : Infra!Edit(u)
  BY DEF Infra!handleInfraPointDrag
<1>2. /\ Infra!Acts
      /\ UNCHANGED <<stored, airport, pageError, fetches, saving, attempts, savedSelection, updates,
                     picking, pickedFor, strayPick, selected, selectedData, deleting, pairing>>
  BY DEF Infra!handleInfraPointDrag, Infra!serverVars, Infra!saveVars, Infra!pickVars
<1>3. u \in Infra!Features
  BY EditorFacts
<1>4. /\ picking' \in BOOLEAN /\ pickedFor' \in Shapes \cup {NoFeature} /\ strayPick' \in BOOLEAN
      /\ Calm => ~strayPick' /\ (picking' => selected = pickedFor')
  BY <1>2 DEF InfraInv, InfraTyped, Calm
<1> QED BY <1>1, <1>2, <1>3, <1>4, EditStep

LEMMA PickingMapClickStep ==
  ASSUME InfraInv, Infra!handlePickingMapClick, maxHistory' = maxHistory PROVE InfraInv'
<1>1. /\ picking /\ selected \in Shapes /\ Infra!Edit(selected) /\ Infra!Acts
      /\ picking' = FALSE /\ pickedFor' = NoFeature
      /\ strayPick' = (strayPick \/ selected # pickedFor)
      /\ UNCHANGED <<stored, airport, pageError, fetches, saving, attempts, savedSelection, updates,
                     selected, selectedData, deleting, pairing>>
  BY DEF Infra!handlePickingMapClick, Infra!serverVars, Infra!saveVars
<1>2. /\ picking' \in BOOLEAN /\ pickedFor' \in Shapes \cup {NoFeature} /\ strayPick' \in BOOLEAN
      /\ Calm => ~strayPick' /\ (picking' => selected = pickedFor')
  BY <1>1 DEF InfraInv, InfraTyped, Calm
<1>3. PICK f \in Infra!Features : f = selected
  BY <1>1, EditorFacts
<1> QED BY <1>1, <1>2, <1>3, EditStep

LEMMA UndoRedoStep ==
  ASSUME InfraInv, Infra!handleUndoRedo, maxHistory' = maxHistory PROVE InfraInv'
<1>1. /\ Infra!Acts
      /\ UNCHANGED <<stored, airport, pageError, fetches, saving, attempts, savedSelection, updates,
                     picking, pickedFor, strayPick, selected, selectedData, deleting, pairing,
                     version>>
  BY DEF Infra!handleUndoRedo, Infra!serverVars, Infra!saveVars, Infra!pickVars
<1>2. InfraTyped /\ HistoryInv
  BY DEF InfraInv
<1>3. /\ HistoryInv' /\ changes' \in Pendings /\ truncated' = truncated
      /\ past' \in Seq(Infra!HistoryEntry) /\ future' \in Seq(Infra!HistoryEntry)
      /\ Len(past') + Len(future') = Len(past) + Len(future)
  <2>1. CASE Infra!undo
    <3>1. truncated' = truncated
      BY <2>1 DEF Infra!undo
    <3> QED BY <3>1, <2>1, <1>2, StepUndone
  <2>2. CASE Infra!redo
    BY <2>2, <1>2, StepRedone
  <2> QED BY <2>1, <2>2 DEF Infra!handleUndoRedo
<1>4. \E k \in Infra!Features, v \in 0..MaxVersion :
        /\ changes' = Infra!With(changes, k, v)
        /\ wanted' = [wanted EXCEPT ![k] = Infra!Shown(changes', k)]
  <2>1. CASE Infra!undo
    <3>1. PICK t : t = Infra!Last(past)
      OBVIOUS
    <3>2. past # <<>> /\ past \in Seq(Infra!HistoryEntry)
      BY <2>1, <1>2 DEF Infra!undo, InfraTyped
    <3>3. t \in Infra!HistoryEntry
      BY <3>1, <3>2 DEF Infra!Last
    <3>4. t.key \in Infra!Features /\ t.prevEntry \in 0..MaxVersion
      BY <3>3 DEF Infra!HistoryEntry
    <3>5. changes' = Infra!With(changes, t.key, t.prevEntry)
          /\ wanted' = [wanted EXCEPT ![t.key] = Infra!Shown(changes', t.key)]
      BY <3>1, <2>1 DEF Infra!undo
    <3> QED BY <3>4, <3>5
  <2>2. CASE Infra!redo
    <3>1. PICK t : t = Head(future)
      OBVIOUS
    <3>2. future # <<>> /\ future \in Seq(Infra!HistoryEntry)
      BY <2>2, <1>2 DEF Infra!redo, InfraTyped
    <3>3. t \in Infra!HistoryEntry
      BY <3>1, <3>2
    <3>4. t.key \in Infra!Features /\ t.nextEntry \in 0..MaxVersion
      BY <3>3, EditorFacts DEF Infra!HistoryEntry
    <3>5. changes' = Infra!With(changes, t.key, t.nextEntry)
          /\ wanted' = [wanted EXCEPT ![t.key] = Infra!Shown(changes', t.key)]
      BY <3>1, <2>2 DEF Infra!redo
    <3> QED BY <3>4, <3>5
  <2> QED BY <2>1, <2>2 DEF Infra!handleUndoRedo
<1>5. PICK k \in Infra!Features, v \in 0..MaxVersion :
        /\ changes' = Infra!With(changes, k, v)
        /\ wanted' = [wanted EXCEPT ![k] = Infra!Shown(changes', k)]
  BY <1>4
<1>6. \A g : Infra!Entry(changes', g) = IF g = k THEN v ELSE Infra!Entry(changes, g)
  BY <1>2, <1>5, WithTyped DEF InfraTyped
<1>7. Infra!Shown(changes', k) = Seen(changes', k, airport[k])
      /\ Infra!Shown(changes', k) \in 0..MaxVersion
  <2>1. airport[k] \in 0..MaxVersion
    BY <1>2 DEF InfraTyped, Infra!Snapshot
  <2>2. /\ k \in DOMAIN changes' <=> Infra!Entry(changes', k) # Infra!Gone
        /\ k \in DOMAIN changes' => changes'[k] = Infra!Entry(changes', k)
        /\ Infra!Entry(changes', k) \in 0..MaxVersion
    BY <1>3, PatchEntry
  <2>3. Infra!Shown(changes', k) = IF k \in DOMAIN changes' THEN changes'[k] ELSE airport[k]
    BY DEF Infra!Shown
  <2> QED BY <2>1, <2>2, <2>3 DEF Seen
<1>8. wanted' \in Infra!Snapshot
      /\ \A g \in Infra!Features : wanted'[g] = IF g = k THEN Seen(changes', k, airport[k])
                                                ELSE wanted[g]
  BY <1>2, <1>5, <1>7 DEF InfraTyped, Infra!Snapshot
<1>9. /\ disturbed' \in Nat
      /\ disturbed' = 0 => /\ Calm /\ airport = stored
                           /\ saving = 0 /\ updates = {} /\ fetches = {}
                           /\ deleting = Infra!NoDeletion /\ pairing = {}
  BY <1>1, ActsAlone
<1>10. InfraTyped'
  <2>1. Len(past') + Len(future') <= maxHistory'
    BY <1>2, <1>3 DEF InfraTyped
  <2> QED BY <2>1, <1>1, <1>2, <1>3, <1>8, <1>9 DEF InfraTyped
<1>11. ASSUME disturbed' = 0 PROVE Calm'
  <2>1. (SavePhase /\ ServerPhase /\ FetchPhase)'
    BY <1>1, <1>9, <1>11, IdlePhases
  <2>2. (\A g \in Infra!Features :
           stored[g] # Infra!Gone => Seen(changes, g, stored[g]) = wanted[g])'
    <3>1. \A g \in Infra!Features :
            stored[g] # Infra!Gone => Seen(changes, g, stored[g]) = wanted[g]
      BY <1>9, <1>11 DEF Calm
    <3>2. \A g \in Infra!Features :
            stored[g] # Infra!Gone => Seen(changes', g, stored[g]) = wanted'[g]
      <4> SUFFICES ASSUME NEW g \in Infra!Features, stored[g] # Infra!Gone
                   PROVE  Seen(changes', g, stored[g]) = wanted'[g]
        OBVIOUS
      <4>1. CASE g = k
        BY <4>1, <1>8, <1>9, <1>11
      <4>2. CASE g # k
        BY <4>2, <3>1, <1>6, <1>8 DEF Seen
      <4> QED BY <4>1, <4>2
    <3> QED BY <3>2, <1>1 DEF Seen
  <2> QED BY <2>1, <2>2, <1>1, <1>9, <1>11 DEF Calm
<1> QED BY <1>3, <1>10, <1>11 DEF InfraInv

\* The panel is turned to another feature, or to none.
LEMMA SelectFacts ==
  ASSUME InfraTyped, NEW f \in Infra!Features \cup {NoFeature}, NEW d \in 0..MaxVersion,
         Infra!Select(f, d)
  PROVE  /\ selected' = f /\ selectedData' = d /\ picking' = (picking /\ f \in Shapes)
         /\ picking' \in BOOLEAN /\ UNCHANGED <<pickedFor, strayPick>>
BY DEF Infra!Select, InfraTyped

\* The panel alone is changed, by an operator who let all that was under way end.
LEMMA PanelStep ==
  ASSUME InfraInv, Infra!Acts, maxHistory' = maxHistory,
         UNCHANGED <<stored, airport, pageError, fetches, saving, attempts, savedSelection, updates,
                     changes, past, future, truncated, version, wanted, deleting, pairing,
                     strayPick>>,
         selected' \in Infra!Features \cup {NoFeature}, selectedData' \in 0..MaxVersion,
         picking' \in BOOLEAN, pickedFor' \in Shapes \cup {NoFeature},
         Calm => /\ picking' => selected' = pickedFor'
                 /\ selected' # NoFeature /\ airport[selected'] # Infra!Gone =>
                      selectedData' = airport[selected']
  PROVE  InfraInv'
<1>1. /\ disturbed' \in Nat
      /\ disturbed' = 0 => /\ Calm /\ airport = stored
                           /\ saving = 0 /\ updates = {} /\ fetches = {}
                           /\ deleting = Infra!NoDeletion /\ pairing = {}
  BY ActsAlone
<1>2. HistoryInv'
  BY HistoryRests DEF InfraInv
<1>3. InfraTyped'
  BY <1>1 DEF InfraInv, InfraTyped
<1>4. ASSUME disturbed' = 0 PROVE Calm'
  <2>1. (SavePhase /\ ServerPhase /\ FetchPhase)'
    BY <1>1, <1>4, IdlePhases
  <2>2. (\A g \in Infra!Features :
           stored[g] # Infra!Gone => Seen(changes, g, stored[g]) = wanted[g])'
    BY <1>1, <1>4 DEF Calm, Seen
  <2>3. (~pageError /\ ~strayPick /\ (picking => selected = pickedFor))'
    BY <1>1, <1>4 DEF Calm
  <2>4. (selected # NoFeature /\ airport[selected] # Infra!Gone =>
          selectedData = airport[selected])'
    BY <1>1, <1>4
  <2> QED BY <2>1, <2>2, <2>3, <2>4 DEF Calm
<1> QED BY <1>2, <1>3, <1>4 DEF InfraInv

LEMMA FeatureClickStep ==
  ASSUME InfraInv, Infra!handleFeatureClick, maxHistory' = maxHistory PROVE InfraInv'
<1>1. /\ ~picking /\ Infra!Acts
      /\ UNCHANGED <<stored, airport, pageError, fetches, saving, attempts, savedSelection, updates,
                     changes, past, future, truncated, version, wanted, deleting, pairing>>
  BY DEF Infra!handleFeatureClick, Infra!serverVars, Infra!saveVars, Infra!historyVars
<1>2. \E f \in Infra!Features \cup {NoFeature}, d \in 0..MaxVersion :
        /\ Infra!Select(f, d) /\ (f # NoFeature => d = airport[f])
  <2>1. \A f \in Infra!Features : airport[f] \in 0..MaxVersion
    BY DEF InfraInv, InfraTyped, Infra!Snapshot
  <2>2. selectedData \in 0..MaxVersion
    BY DEF InfraInv, InfraTyped
  <2> QED BY <2>1, <2>2 DEF Infra!handleFeatureClick
<1>3. PICK f \in Infra!Features \cup {NoFeature}, d \in 0..MaxVersion :
        /\ Infra!Select(f, d) /\ (f # NoFeature => d = airport[f])
  BY <1>2
<1>4. /\ selected' = f /\ selectedData' = d /\ picking' = (picking /\ f \in Shapes)
      /\ picking' \in BOOLEAN /\ UNCHANGED <<pickedFor, strayPick>>
  BY <1>3, SelectFacts DEF InfraInv
<1>5. pickedFor' \in Shapes \cup {NoFeature}
  BY <1>4 DEF InfraInv, InfraTyped
<1> QED BY <1>1, <1>3, <1>4, <1>5, PanelStep

LEMMA EscapeStep ==
  ASSUME InfraInv, Infra!handleEscape, maxHistory' = maxHistory PROVE InfraInv'
<1>1. /\ Infra!Acts /\ Infra!Select(NoFeature, selectedData)
      /\ UNCHANGED <<stored, airport, pageError, fetches, saving, attempts, savedSelection, updates,
                     changes, past, future, truncated, version, wanted, deleting, pairing>>
  BY DEF Infra!handleEscape, Infra!serverVars, Infra!saveVars, Infra!historyVars
<1>2. selectedData \in 0..MaxVersion
  BY DEF InfraInv, InfraTyped
<1>3. PICK d \in 0..MaxVersion : d = selectedData
  BY <1>2
<1>4. /\ selected' = NoFeature /\ selectedData' = d /\ picking' = (picking /\ NoFeature \in Shapes)
      /\ picking' \in BOOLEAN /\ UNCHANGED <<pickedFor, strayPick>>
  BY <1>1, <1>3, SelectFacts DEF InfraInv
<1>5. pickedFor' \in Shapes \cup {NoFeature} /\ ~picking'
  BY <1>4, EditorFacts DEF InfraInv, InfraTyped
<1> QED BY <1>1, <1>3, <1>4, <1>5, PanelStep

LEMMA PickToggleStep ==
  ASSUME InfraInv, Infra!onPickToggle, maxHistory' = maxHistory PROVE InfraInv'
<1>1. /\ Infra!Acts /\ selected \in Shapes
      /\ picking' = ~picking /\ pickedFor' = IF picking THEN NoFeature ELSE selected
      /\ UNCHANGED <<stored, airport, pageError, fetches, saving, attempts, savedSelection, updates,
                     changes, past, future, truncated, version, wanted, deleting, pairing,
                     selected, selectedData, strayPick>>
  BY DEF Infra!onPickToggle, Infra!serverVars, Infra!saveVars, Infra!historyVars
<1>2. selected' \in Infra!Features \cup {NoFeature} /\ selectedData' \in 0..MaxVersion
      /\ picking' \in BOOLEAN /\ pickedFor' \in Shapes \cup {NoFeature}
  BY <1>1 DEF InfraInv, InfraTyped
<1>3. picking' => selected' = pickedFor'
  BY <1>1
<1>4. Calm => (selected' # NoFeature /\ airport[selected'] # Infra!Gone =>
                 selectedData' = airport[selected'])
  BY <1>1 DEF Calm
<1> QED BY <1>1, <1>2, <1>3, <1>4, PanelStep

-----------------------------------------------------------------------------
(* The editor saves *)

\* The units of a set, in some order: all of them.
LEMMA InSequence ==
  ASSUME NEW S, IsFiniteSet(S), NEW s, s = Infra!SetToSeq(S)
  PROVE  /\ s \in [1..Cardinality(S) -> S] /\ Cardinality(S) \in Nat
         /\ \A x \in S : \E i \in 1..Cardinality(S) : s[i] = x
<1>1. PICK n \in Nat : n = Cardinality(S)
  BY FS_CardinalityType
<1>2. s = CHOOSE f \in [1..n -> S] : Infra!IsInjective(f)
  BY <1>1 DEF Infra!SetToSeq, Infra!Cardinality, Cardinality
<1>3. \E f \in [1..n -> S] : Infra!IsInjective(f)
  <2>1. PICK f \in Bijection(1..n, S) : TRUE
    BY <1>1, FS_CardinalityType DEF ExistsBijection
  <2>2. f \in [1..n -> S] /\ \A a, b \in 1..n : f[a] = f[b] => a = b
    BY DEF Bijection, Injection, IsInjective
  <2> QED BY <2>2 DEF Infra!IsInjective
<1>4. s \in [1..n -> S] /\ Infra!IsInjective(s)
  BY <1>2, <1>3
<1>5. s \in Injection(1..n, S)
  BY <1>4 DEF Infra!IsInjective, Injection, IsInjective
<1>6. Cardinality(1..n) = n
  <2>1. 1 \in Int /\ n \in Int /\ (IF 1 > n THEN 0 ELSE n - 1 + 1) = n
    OBVIOUS
  <2> QED BY <2>1, FS_Interval
<1>7. s \in Surjection(1..n, S)
  BY <1>1, <1>5, <1>6, FS_Injection
<1> QED BY <1>1, <1>4, <1>7 DEF Surjection

\* What is sent: everything pending that the page knows.
Sendings == [on : Infra!Features, data : Infra!Versions]

LEMMA ChainsFacts ==
  ASSUME InfraTyped, attempts < MaxAttempts
  PROVE  /\ \A u \in Infra!Chains(changes) :
              /\ u \in Infra!Update /\ u.by = attempts + 1 /\ u.chain # <<>>
              /\ \A i \in 1..Len(u.chain) :
                   u.chain[i].data = Infra!Entry(changes, u.chain[i].on)
         /\ \A f \in Infra!Features :
              Infra!Entry(changes, f) # Infra!Gone /\ airport[f] # Infra!Gone =>
                \E u \in Infra!Chains(changes) : \E i \in 1..Len(u.chain) : u.chain[i].on = f
<1>1. PICK b : b = attempts + 1
  OBVIOUS
<1>2. b \in 1..MaxAttempts
  BY <1>1, EditorFacts DEF InfraTyped
<1>3. PICK c \in Pendings : c = changes
  BY DEF InfraTyped
<1>4. /\ \A f : f \in DOMAIN c <=> Infra!Entry(c, f) # Infra!Gone
      /\ \A f \in DOMAIN c : c[f] = Infra!Entry(c, f) /\ c[f] \in Infra!Versions
      /\ DOMAIN c \in SUBSET Infra!Features
  BY PatchEntry
<1> DEFINE Of(p) == {u \in DOMAIN c \cap Units : parentOf[u] = p /\ airport[u] # Infra!Gone}
           One(f) == [by |-> b, chain |-> <<[on |-> f, data |-> c[f]]>>]
           Line(s) == [by |-> b, chain |-> [n \in 1..Len(s) |-> [on |-> s[n], data |-> c[s[n]]]]]
           Parents == {parentOf[u] : u \in {v \in DOMAIN c \cap Units : airport[v] # Infra!Gone}}
<1>5. Infra!Chains(c) = {One(f) : f \in DOMAIN c \cap Shapes}
                          \cup {Line(s) : s \in {Infra!SetToSeq(Of(p)) : p \in Parents}}
  BY <1>1 DEF Infra!Chains
<1>6. \A p \in Parents : Of(p) # {}
  OBVIOUS
<1>7. ASSUME NEW p \in Parents, NEW s, s = Infra!SetToSeq(Of(p))
      PROVE  \E n \in Nat \ {0} : /\ s \in [1..n -> Of(p)] /\ Len(s) = n
                                  /\ \A u \in Of(p) : \E i \in 1..n : s[i] = u
  <2>1. Of(p) # {} /\ Of(p) \in SUBSET Units
    BY <1>6
  <2> HIDE DEF Of
  <2>2. IsFiniteSet(Of(p))
    BY <2>1, EditorFacts, FS_Subset
  <2>3. PICK n : n = Cardinality(Of(p))
    OBVIOUS
  <2>4. n \in Nat \ {0}
    BY <2>1, <2>2, <2>3, FS_CardinalityType, FS_EmptySet
  <2>5. s \in [1..n -> Of(p)] /\ \A u \in Of(p) : \E i \in 1..n : s[i] = u
    BY <1>7, <2>2, <2>3, InSequence
  <2>6. Len(s) = n
    BY <2>4, <2>5
  <2> QED BY <2>4, <2>5, <2>6
<1>8. ASSUME NEW u \in Infra!Chains(c)
      PROVE  /\ u \in Infra!Update /\ u.by = b /\ u.chain # <<>>
             /\ \A i \in 1..Len(u.chain) : u.chain[i].data = Infra!Entry(c, u.chain[i].on)
  <2>1. CASE \E f \in DOMAIN c \cap Shapes : u = One(f)
    <3>1. PICK f \in DOMAIN c \cap Shapes : u = One(f)
      BY <2>1
    <3>2. PICK e : e = [on |-> f, data |-> c[f]]
      OBVIOUS
    <3>3. e \in Sendings /\ e.data = Infra!Entry(c, e.on)
      BY <3>2, <1>4 DEF Sendings
    <3>4. u = [by |-> b, chain |-> <<e>>]
      BY <3>1, <3>2
    <3>5. <<e>> \in Seq(Sendings) /\ Len(<<e>>) = 1 /\ <<e>>[1] = e /\ <<e>> # <<>>
      BY <3>3
    <3> QED BY <3>3, <3>4, <3>5, <1>2 DEF Infra!Update, Sendings
  <2>2. CASE \E p \in Parents : u = Line(Infra!SetToSeq(Of(p)))
    <3>1. PICK p \in Parents : u = Line(Infra!SetToSeq(Of(p)))
      BY <2>2
    <3>2. PICK s : s = Infra!SetToSeq(Of(p))
      OBVIOUS
    <3>3. PICK n \in Nat \ {0} : s \in [1..n -> Of(p)] /\ Len(s) = n
      BY <3>2, <1>7
    <3>4. \A i \in 1..n : s[i] \in DOMAIN c
      BY <3>3
    <3>5. PICK h : h = [i \in 1..n |-> [on |-> s[i], data |-> c[s[i]]]]
      OBVIOUS
    <3>6. \A i \in 1..n : h[i] = [on |-> s[i], data |-> c[s[i]]]
      BY <3>5
    <3>7. \A i \in 1..n : h[i] \in Sendings /\ h[i].data = Infra!Entry(c, h[i].on)
      <4> SUFFICES ASSUME NEW i \in 1..n
                   PROVE  h[i] \in Sendings /\ h[i].data = Infra!Entry(c, h[i].on)
        OBVIOUS
      <4>1. PICK f : f = s[i]
        OBVIOUS
      <4>2. f \in DOMAIN c /\ h[i] = [on |-> f, data |-> c[f]]
        BY <4>1, <3>4, <3>6
      <4>3. f \in Infra!Features /\ c[f] \in Infra!Versions /\ c[f] = Infra!Entry(c, f)
        BY <4>2, <1>4
      <4> QED BY <4>2, <4>3 DEF Sendings
    <3>8. h \in [1..n -> Sendings]
      BY <3>5, <3>7
    <3>9. h \in Seq(Sendings) /\ Len(h) = n /\ h # <<>>
      BY <3>8
    <3>10. u = [by |-> b, chain |-> h]
      BY <3>1, <3>2, <3>3, <3>5
    <3> QED BY <3>7, <3>9, <3>10, <1>2 DEF Infra!Update, Sendings
  <2>3. (\E f \in DOMAIN c \cap Shapes : u = One(f))
        \/ (\E p \in Parents : u = Line(Infra!SetToSeq(Of(p))))
    <3> HIDE DEF One, Line, Of, Parents
    <3> QED BY <1>5, <1>8
  <2> HIDE DEF One, Line, Of, Parents
  <2> QED BY <2>1, <2>2, <2>3
<1>9. ASSUME NEW f \in Infra!Features, Infra!Entry(c, f) # Infra!Gone, airport[f] # Infra!Gone
      PROVE  \E u \in Infra!Chains(c) : \E i \in 1..Len(u.chain) : u.chain[i].on = f
  <2>1. f \in DOMAIN c
    BY <1>9, <1>4
  <2>2. CASE f \in Shapes
    <3>1. One(f) \in Infra!Chains(c)
      BY <2>1, <2>2, <1>5
    <3>2. One(f).chain[1].on = f /\ 1 \in 1..Len(One(f).chain)
      OBVIOUS
    <3> QED BY <3>1, <3>2
  <2>3. CASE f \in Units
    <3>1. PICK p : p = parentOf[f]
      OBVIOUS
    <3>2. p \in Parents /\ f \in Of(p)
      BY <3>1, <2>1, <2>3, <1>9
    <3>3. PICK s : s = Infra!SetToSeq(Of(p))
      OBVIOUS
    <3>4. PICK n \in Nat \ {0} : /\ Len(s) = n
                                 /\ \A u \in Of(p) : \E i \in 1..n : s[i] = u
      <4>1. p \in Parents
        BY <3>2
      <4> HIDE DEF Of, Parents
      <4> QED BY <4>1, <3>3, <1>7
    <3>5. PICK i \in 1..n : s[i] = f
      BY <3>2, <3>4
    <3>6. Line(s) \in Infra!Chains(c)
      <4>1. p \in Parents
        BY <3>2
      <4> HIDE DEF Of, Parents, Line, One
      <4> QED BY <4>1, <3>3, <1>5
    <3>7. Line(s).chain = [j \in 1..n |-> [on |-> s[j], data |-> c[s[j]]]]
      BY <3>4
    <3>8. PICK h : h = Line(s).chain
      OBVIOUS
    <3>9. Len(h) = n /\ h[i].on = f
      BY <3>5, <3>7, <3>8
    <3> QED BY <3>5, <3>6, <3>8, <3>9
  <2> QED BY <2>2, <2>3 DEF Infra!Features
<1> QED BY <1>1, <1>3, <1>8, <1>9

LEMMA SaveStep ==
  ASSUME InfraInv, Infra!handleSave, maxHistory' = maxHistory PROVE InfraInv'
<1>1. /\ saving = 0 /\ attempts < MaxAttempts
      /\ attempts' = attempts + 1 /\ saving' = attempts + 1 /\ savedSelection' = selected
      /\ updates' = updates \cup Infra!Chains(changes) /\ Infra!Acts
      /\ UNCHANGED <<stored, airport, pageError, fetches, changes, past, future, truncated, picking,
                     pickedFor, strayPick, version, wanted, deleting, pairing, selected,
                     selectedData>>
  BY DEF Infra!handleSave, Infra!serverVars, Infra!historyVars, Infra!pickVars
<1>2. /\ disturbed' \in Nat
      /\ disturbed' = 0 => /\ Calm /\ airport = stored
                           /\ saving = 0 /\ updates = {} /\ fetches = {}
                           /\ deleting = Infra!NoDeletion /\ pairing = {}
  BY <1>1, ActsAlone
<1>3. HistoryInv'
  BY <1>1, HistoryRests DEF InfraInv
<1>4. InfraTyped
  BY DEF InfraInv
<1>5. PICK new : new = Infra!Chains(changes)
  OBVIOUS
<1>6. /\ \A u \in new : /\ u \in Infra!Update /\ u.by = attempts + 1 /\ u.chain # <<>>
                        /\ \A i \in 1..Len(u.chain) :
                             u.chain[i].data = Infra!Entry(changes, u.chain[i].on)
      /\ \A f \in Infra!Features :
           Infra!Entry(changes, f) # Infra!Gone /\ airport[f] # Infra!Gone =>
             \E u \in new : \E i \in 1..Len(u.chain) : u.chain[i].on = f
  BY <1>1, <1>4, <1>5, ChainsFacts
<1>7. updates' \in SUBSET Infra!Update /\ \A u \in updates' : u.chain # <<>>
  BY <1>1, <1>4, <1>5, <1>6 DEF InfraTyped
<1>8. attempts' \in 0..MaxAttempts /\ saving' \in 0..attempts' /\ saving' # 0
  BY <1>1, <1>4, EditorFacts DEF InfraTyped
<1>9. InfraTyped'
  BY <1>1, <1>2, <1>4, <1>7, <1>8 DEF InfraTyped
<1>10. ASSUME disturbed' = 0 PROVE Calm'
  <2>1. updates' = new /\ Calm /\ airport = stored /\ fetches = {}
        /\ deleting = Infra!NoDeletion /\ pairing = {}
    BY <1>1, <1>2, <1>5, <1>10
  <2>2. SavePhase'
    <3>1. \A u \in updates' : u.by = saving' /\ \A i \in 1..Len(u.chain) :
                                u.chain[i].data = Infra!Entry(changes', u.chain[i].on)
      BY <2>1, <1>1, <1>6
    <3>2. \A f \in Infra!Features : Infra!Entry(changes', f) # Infra!Gone =>
            \/ stored'[f] \in {Infra!Gone, Infra!Entry(changes', f)}
            \/ \E u \in updates' : \E i \in 1..Len(u.chain) : u.chain[i].on = f
      BY <2>1, <1>1, <1>6
    <3> QED BY <3>1, <3>2, <2>1, <1>1, <1>8 DEF SavePhase
  <2>3. ServerPhase' /\ FetchPhase'
    BY <2>1, <1>1 DEF ServerPhase, FetchPhase, Infra!NoDeletion
  <2> QED BY <2>1, <2>2, <2>3, <1>1 DEF Calm, Seen
<1> QED BY <1>3, <1>9, <1>10 DEF InfraInv

\* One update is served: what was to be stored is, and the rest of its chain goes on.
LEMMA UpdateServedStep ==
  ASSUME InfraInv, NEW u \in updates, Infra!UpdateServed(u), maxHistory' = maxHistory
  PROVE  InfraInv'
<1>1. /\ stored[Head(u.chain).on] # Infra!Gone
      /\ stored' = [stored EXCEPT ![Head(u.chain).on] = Head(u.chain).data]
      /\ updates' = (updates \ {u}) \cup
                    (IF Len(u.chain) = 1 THEN {} ELSE {[u EXCEPT !.chain = Tail(@)]})
      /\ UNCHANGED <<airport, pageError, fetches, changes, past, future, truncated, picking,
                     pickedFor, strayPick, version, wanted, deleting, pairing, selected,
                     selectedData, saving, attempts, savedSelection, disturbed>>
  BY DEF Infra!UpdateServed, Infra!historyVars, Infra!pickVars
<1>2. InfraTyped /\ u \in Infra!Update /\ u.chain # <<>>
  BY DEF InfraInv, InfraTyped
<1>3. PICK s \in Seq(Sendings) : s = u.chain /\ s # <<>>
  BY <1>2 DEF Infra!Update, Sendings
<1>4. PICK n \in Nat \ {0} : n = Len(s)
  BY <1>3
<1>5. PICK e \in Sendings : e = s[1] /\ e = Head(u.chain)
  <2>1. Head(s) = s[1] /\ s[1] \in Sendings
    BY <1>3, <1>4
  <2> QED BY <2>1, <1>3
<1>6. e.on \in Infra!Features /\ e.data \in Infra!Versions
  BY DEF Sendings
<1>7. \A f \in Infra!Features : stored'[f] = IF f = e.on THEN e.data ELSE stored[f]
  BY <1>1, <1>2, <1>5, <1>6 DEF InfraTyped, Infra!Snapshot
<1>8. PICK r : r = Tail(s)
  OBVIOUS
<1>9. r \in Seq(Sendings) /\ Len(r) = n - 1 /\ \A i \in 1..(n - 1) : r[i] = s[i + 1]
  BY <1>3, <1>4, <1>8
<1>10. PICK w : w = [u EXCEPT !.chain = r]
  OBVIOUS
<1>11. w \in Infra!Update /\ w.by = u.by /\ w.chain = r /\ (n # 1 => r # <<>>)
  <2>1. n # 1 => r # <<>>
    BY <1>9
  <2> QED BY <2>1, <1>2, <1>9, <1>10 DEF Infra!Update, Sendings
<1>12. /\ \A v \in updates' : v \in updates \/ (v = w /\ n # 1)
       /\ \A v \in updates : v # u => v \in updates'
       /\ n # 1 => w \in updates'
  BY <1>1, <1>3, <1>4, <1>8, <1>10
<1>13. InfraTyped'
  <2>1. stored' \in Infra!Snapshot
    BY <1>1, <1>2, <1>5, <1>6, EditorFacts DEF InfraTyped, Infra!Snapshot
  <2>2. updates' \in SUBSET Infra!Update /\ \A v \in updates' : v.chain # <<>>
    BY <1>2, <1>11, <1>12 DEF InfraTyped
  <2> QED BY <2>1, <2>2, <1>1, <1>2 DEF InfraTyped
<1>14. HistoryInv'
  BY <1>1, HistoryRests DEF InfraInv
<1>15. ASSUME disturbed' = 0 PROVE Calm'
  <2>1. Calm
    BY <1>1, <1>15 DEF InfraInv
  <2>2. /\ saving # 0 /\ fetches = {} /\ deleting = Infra!NoDeletion /\ pairing = {}
        /\ savedSelection = selected
    BY <2>1 DEF Calm, SavePhase
  <2>3. \A v \in updates : v.by = saving /\ \A i \in 1..Len(v.chain) :
                             v.chain[i].data = Infra!Entry(changes, v.chain[i].on)
    BY <2>1 DEF Calm, SavePhase
  <2>4. e.data = Infra!Entry(changes, e.on) /\ Infra!Entry(changes, e.on) # Infra!Gone
    <3>1. 1 \in 1..n
      OBVIOUS
    <3>2. e.data = Infra!Entry(changes, e.on)
      BY <3>1, <2>3, <1>3, <1>4, <1>5
    <3> QED BY <3>2, <1>6, EditorFacts
  <2>5. \A v \in updates' : v.by = saving' /\ \A i \in 1..Len(v.chain) :
                              v.chain[i].data = Infra!Entry(changes', v.chain[i].on)
    <3> SUFFICES ASSUME NEW v \in updates'
                 PROVE  v.by = saving /\ \A i \in 1..Len(v.chain) :
                          v.chain[i].data = Infra!Entry(changes, v.chain[i].on)
      BY <1>1
    <3>1. CASE v \in updates
      BY <3>1, <2>3
    <3>2. CASE v = w
      <4>1. \A i \in 1..(n - 1) : r[i].data = Infra!Entry(changes, r[i].on)
        <5> SUFFICES ASSUME NEW i \in 1..(n - 1) PROVE r[i].data = Infra!Entry(changes, r[i].on)
          OBVIOUS
        <5>1. i + 1 \in 1..n
          OBVIOUS
        <5>2. s[i + 1].data = Infra!Entry(changes, s[i + 1].on)
          BY <5>1, <2>3, <1>3, <1>4
        <5> QED BY <5>2, <1>9
      <4> QED BY <4>1, <3>2, <2>3, <1>9, <1>11
    <3> QED BY <3>1, <3>2, <1>12
  <2>6. \A f \in Infra!Features : Infra!Entry(changes', f) # Infra!Gone =>
          \/ stored'[f] \in {Infra!Gone, Infra!Entry(changes', f)}
          \/ \E v \in updates' : \E i \in 1..Len(v.chain) : v.chain[i].on = f
    <3> SUFFICES ASSUME NEW f \in Infra!Features, Infra!Entry(changes, f) # Infra!Gone,
                        stored'[f] \notin {Infra!Gone, Infra!Entry(changes, f)}
                 PROVE  \E v \in updates' : \E i \in 1..Len(v.chain) : v.chain[i].on = f
      BY <1>1
    <3>1. f # e.on /\ stored[f] \notin {Infra!Gone, Infra!Entry(changes, f)}
      BY <1>7, <2>4
    <3>2. PICK v \in updates : \E i \in 1..Len(v.chain) : v.chain[i].on = f
      BY <3>1, <2>1, <2>2 DEF Calm, SavePhase
    <3>3. CASE v # u
      BY <3>2, <3>3, <1>12
    <3>4. CASE v = u
      <4>1. PICK i \in 1..n : s[i].on = f
        BY <3>2, <3>4, <1>3, <1>4
      <4>2. i # 1
        BY <4>1, <3>1, <1>5
      <4>3. PICK j : j = i - 1
        OBVIOUS
      <4>4. j \in 1..(n - 1) /\ j + 1 = i /\ n # 1
        BY <4>1, <4>2, <4>3
      <4>5. r[j].on = f
        BY <4>1, <4>4, <1>9
      <4> QED BY <4>4, <4>5, <1>9, <1>11, <1>12
    <3> QED BY <3>3, <3>4
  <2>7. SavePhase'
    BY <2>1, <2>2, <2>5, <2>6, <1>1 DEF Calm, SavePhase
  <2>8. ServerPhase' /\ FetchPhase'
    BY <2>2, <1>1 DEF ServerPhase, FetchPhase, Infra!NoDeletion
  <2>9. \A f \in Infra!Features :
          stored'[f] # Infra!Gone => Seen(changes', f, stored'[f]) = wanted'[f]
    <3> SUFFICES ASSUME NEW f \in Infra!Features, stored'[f] # Infra!Gone
                 PROVE  Seen(changes, f, stored'[f]) = wanted[f]
      BY <1>1
    <3>1. stored[f] # Infra!Gone
      BY <1>1, <1>5, <1>7
    <3>2. Seen(changes, f, stored[f]) = wanted[f]
      BY <3>1, <2>1 DEF Calm
    <3> QED BY <3>2, <2>4, <1>7 DEF Seen
  <2>10. (\A f \in Infra!Features :
            stored[f] # Infra!Gone => Seen(changes, f, stored[f]) = wanted[f])'
    BY <2>9 DEF Seen
  <2> QED BY <2>1, <2>7, <2>8, <2>10, <1>1 DEF Calm
<1> QED BY <1>13, <1>14, <1>15 DEF InfraInv

LEMMA UpdateRefusedStep ==
  ASSUME InfraInv, NEW u \in updates, Infra!UpdateRefused(u), maxHistory' = maxHistory
  PROVE  InfraInv'
<1>1. /\ updates' = updates \ {u} /\ saving' \in {0, saving} /\ disturbed' = disturbed + 1
      /\ UNCHANGED <<stored, airport, pageError, fetches, changes, past, future, truncated, picking,
                     pickedFor, strayPick, version, wanted, deleting, pairing, selected,
                     selectedData, attempts, savedSelection>>
  BY DEF Infra!UpdateRefused, Infra!Fails, Infra!serverVars, Infra!historyVars, Infra!pickVars
<1>2. InfraTyped
  BY DEF InfraInv
<1>3. saving' \in 0..attempts' /\ disturbed' \in Nat /\ disturbed' # 0
  BY <1>1, <1>2 DEF InfraTyped
<1>4. HistoryInv'
  BY <1>1, HistoryRests DEF InfraInv
<1>5. InfraTyped'
  BY <1>1, <1>2, <1>3 DEF InfraTyped
<1> QED BY <1>3, <1>4, <1>5 DEF InfraInv

\* A reading of the airport is asked for.
LEMMA AskedTyped ==
  ASSUME InfraTyped, NEW for \in {"save", "delete", "pair", "retry"},
         NEW keep \in Infra!Features \cup {NoFeature}, Infra!AskAirport(for, keep)
  PROVE  \E r \in Infra!Fetch : /\ fetches' = fetches \cup {r} /\ r.for = for /\ r.keep = keep
                                /\ ~r.read /\ ~r.outdated
<1>1. Infra!NoSnapshot \in Infra!Snapshot
  BY EditorFacts DEF Infra!NoSnapshot, Infra!Snapshot
<1>2. PICK r : r = [for |-> for, keep |-> keep, read |-> FALSE, outdated |-> FALSE,
                    found |-> Infra!NoSnapshot]
  OBVIOUS
<1>3. fetches' = fetches \cup {r}
  BY <1>2 DEF Infra!AskAirport
<1>4. r \in Infra!Fetch
  BY <1>1, <1>2 DEF Infra!Fetch
<1> QED BY <1>2, <1>3, <1>4

LEMMA SaveAcceptedStep ==
  ASSUME InfraInv, Infra!SaveAccepted, maxHistory' = maxHistory PROVE InfraInv'
<1>1. /\ saving # 0 /\ (~\E u \in updates : u.by = saving) /\ (~\E g \in fetches : g.for = "save")
      /\ changes' = <<>> /\ past' = <<>> /\ future' = <<>> /\ truncated' = FALSE
      /\ Infra!AskAirport("save", savedSelection)
      /\ UNCHANGED <<stored, airport, pageError, picking, pickedFor, strayPick, version, wanted,
                     deleting, pairing, selected, selectedData, saving, attempts, savedSelection,
                     updates, disturbed>>
  BY DEF Infra!SaveAccepted, Infra!clearAll, Infra!pickVars, Infra!saveVars
<1>2. InfraTyped
  BY DEF InfraInv
<1>3. PICK keep \in Infra!Features \cup {NoFeature} : keep = savedSelection
  BY <1>2 DEF InfraTyped
<1>4. PICK r \in Infra!Fetch : /\ fetches' = fetches \cup {r} /\ r.for = "save" /\ r.keep = keep
                               /\ ~r.read /\ ~r.outdated
  BY <1>1, <1>2, <1>3, AskedTyped
<1>5. past' \in Seq(Infra!HistoryEntry) /\ future' \in Seq(Infra!HistoryEntry)
      /\ Len(past') + Len(future') = 0
  BY <1>1
<1>6. Len(past') + Len(future') <= maxHistory'
  BY <1>2, <1>5 DEF InfraTyped
<1>7. InfraTyped'
  <2>1. fetches' \in SUBSET Infra!Fetch
    BY <1>2, <1>4 DEF InfraTyped
  <2>2. changes' \in Pendings /\ truncated' \in BOOLEAN
    BY <1>1, NothingPending
  <2> QED BY <2>1, <2>2, <1>1, <1>2, <1>5, <1>6 DEF InfraTyped
<1>8. HistoryInv'
  BY <1>1, HistoryCleared
<1>9. ASSUME disturbed' = 0 PROVE Calm'
  <2>1. Calm
    BY <1>1, <1>9 DEF InfraInv
  <2>2. /\ updates = {} /\ fetches = {} /\ deleting = Infra!NoDeletion /\ pairing = {}
        /\ savedSelection = selected
    BY <2>1, <1>1 DEF Calm, SavePhase
  <2>3. \A f \in Infra!Features :
          stored[f] # Infra!Gone => Seen(<<>>, f, stored[f]) = wanted[f]
    BY <2>1, <2>2, <1>1, NothingPending DEF Calm, SavePhase, Seen
  <2>4. fetches' = {r} /\ r.keep = selected
    BY <2>2, <1>3, <1>4
  <2>5. SavePhase'
    BY <2>2, <2>4, <1>1, <1>4 DEF SavePhase
  <2>6. ServerPhase'
    BY <2>2, <1>1 DEF ServerPhase, Infra!NoDeletion
  <2>7. FetchPhase'
    BY <2>2, <2>4, <1>1, <1>4 DEF FetchPhase
  <2>8. (\A f \in Infra!Features :
           stored[f] # Infra!Gone => Seen(changes, f, stored[f]) = wanted[f])'
    BY <2>3, <1>1 DEF Seen
  <2> QED BY <2>1, <2>5, <2>6, <2>7, <2>8, <1>1 DEF Calm
<1> QED BY <1>7, <1>8, <1>9 DEF InfraInv

LEMMA NoDeletionIsNone == Infra!NoDeletion[1] = "none" /\ "none" # "sent" /\ "none" # "served"
BY DEF Infra!NoDeletion

LEMMA OnDeleteStep ==
  ASSUME InfraInv, Infra!onDelete, maxHistory' = maxHistory PROVE InfraInv'
<1>1. PICK f \in Infra!Features : \E panel \in {f = selected, FALSE} :
        deleting' = <<"sent", f, panel>>
  BY DEF Infra!onDelete
<1>2. /\ Infra!Acts
      /\ UNCHANGED <<stored, airport, pageError, fetches, saving, attempts, savedSelection, updates,
                     changes, past, future, truncated, picking, pickedFor, strayPick, version,
                     wanted, pairing, selected, selectedData>>
  BY DEF Infra!onDelete, Infra!serverVars, Infra!saveVars, Infra!historyVars, Infra!pickVars
<1>3. deleting' \in {"sent", "served"} \X Infra!Features \X BOOLEAN
  <2>1. PICK b \in BOOLEAN : deleting' = <<"sent", f, b>>
    <3>1. PICK panel \in {f = selected, FALSE} : deleting' = <<"sent", f, panel>>
      BY <1>1
    <3>2. panel \in BOOLEAN
      OBVIOUS
    <3> QED BY <3>1, <3>2
  <2>2. "sent" \in {"sent", "served"}
    OBVIOUS
  <2> QED BY <2>1, <2>2
<1>4. /\ disturbed' \in Nat
      /\ disturbed' = 0 => /\ Calm /\ airport = stored
                           /\ saving = 0 /\ updates = {} /\ fetches = {}
                           /\ deleting = Infra!NoDeletion /\ pairing = {}
  BY <1>2, ActsAlone
<1>5. InfraTyped'
  BY <1>2, <1>3, <1>4 DEF InfraInv, InfraTyped
<1>6. HistoryInv'
  BY <1>2, HistoryRests DEF InfraInv
<1>7. ASSUME disturbed' = 0 PROVE Calm'
  <2>1. /\ Calm /\ airport' = stored' /\ saving' = 0 /\ updates' = {} /\ fetches' = {}
        /\ pairing' = {}
    BY <1>2, <1>4, <1>7
  <2>2. SavePhase' /\ ServerPhase' /\ FetchPhase'
    BY <2>1 DEF SavePhase, ServerPhase, FetchPhase
  <2>3. (\A g \in Infra!Features :
           stored[g] # Infra!Gone => Seen(changes, g, stored[g]) = wanted[g])'
    BY <2>1, <1>2 DEF Calm, Seen
  <2> QED BY <2>1, <2>2, <2>3, <1>2 DEF Calm
<1> QED BY <1>5, <1>6, <1>7 DEF InfraInv

\* What is deleted is gone; all else is as it was.
LEMMA DeleteServedStep ==
  ASSUME InfraInv, Infra!DeleteServed, maxHistory' = maxHistory PROVE InfraInv'
<1>1. PICK f : f = deleting[2]
  OBVIOUS
<1>2. /\ deleting[1] = "sent"
      /\ stored' = [g \in Infra!Features |->
                      IF g = f \/ (g \in Units /\ f \in Shapes /\ parentOf[g] = f) THEN Infra!Gone
                      ELSE stored[g]]
      /\ deleting' = [deleting EXCEPT ![1] = "served"]
      /\ Infra!AskAirport("delete", f)
      /\ UNCHANGED <<airport, pageError, saving, attempts, savedSelection, updates, changes, past,
                     future, truncated, picking, pickedFor, strayPick, version, wanted, pairing,
                     selected, selectedData, disturbed>>
  BY <1>1 DEF Infra!DeleteServed, Infra!saveVars, Infra!historyVars, Infra!pickVars
<1>3. InfraTyped
  BY DEF InfraInv
<1>4. deleting # Infra!NoDeletion /\ deleting \in {"sent", "served"} \X Infra!Features \X BOOLEAN
  <2>1. deleting # Infra!NoDeletion
    BY <1>2, NoDeletionIsNone
  <2> QED BY <2>1, <1>3 DEF InfraTyped
<1>5. f \in Infra!Features /\ deleting' = <<"served", f, deleting[3]>> /\ deleting[3] \in BOOLEAN
  BY <1>1, <1>2, <1>4
<1>6. PICK keep \in Infra!Features \cup {NoFeature} : keep = f
  BY <1>5
<1>7. PICK r \in Infra!Fetch : /\ fetches' = fetches \cup {r} /\ r.for = "delete"
                               /\ ~r.read /\ ~r.outdated
  BY <1>2, <1>3, <1>6, AskedTyped
<1>8. \A g \in Infra!Features : stored'[g] # Infra!Gone => stored'[g] = stored[g]
  BY <1>2
<1>9. InfraTyped'
  <2>1. stored' \in Infra!Snapshot
    BY <1>2, <1>3, EditorFacts DEF InfraTyped, Infra!Snapshot
  <2>2. fetches' \in SUBSET Infra!Fetch
    BY <1>3, <1>7 DEF InfraTyped
  <2>3. deleting' \in {"sent", "served"} \X Infra!Features \X BOOLEAN
    BY <1>5
  <2> QED BY <2>1, <2>2, <2>3, <1>2, <1>3 DEF InfraTyped
<1>10. HistoryInv'
  BY <1>2, HistoryRests DEF InfraInv
<1>11. ASSUME disturbed' = 0 PROVE Calm'
  <2>1. Calm
    BY <1>2, <1>11 DEF InfraInv
  <2>2. fetches = {} /\ saving = 0 /\ pairing = {}
    BY <2>1, <1>2, <1>4 DEF Calm, ServerPhase
  <2>3. updates = {} /\ airport = stored
    BY <2>1, <2>2 DEF Calm, SavePhase
  <2>4. fetches' = {r}
    BY <2>2, <1>7
  <2>5. SavePhase'
    BY <2>2, <2>3, <2>4, <1>2 DEF SavePhase
  <2>6. ServerPhase'
    <3>1. deleting'[1] = "served"
      BY <1>5
    <3> QED BY <3>1, <2>2, <1>2 DEF ServerPhase
  <2>7. FetchPhase'
    <3>1. deleting'[1] = "served"
      BY <1>5
    <3>2. \A g \in Infra!Features : stored'[g] # Infra!Gone => stored'[g] = airport'[g]
      BY <2>3, <1>2, <1>8
    <3> QED BY <3>1, <3>2, <2>4, <1>7 DEF FetchPhase
  <2>8. \A g \in Infra!Features :
          stored'[g] # Infra!Gone => Seen(changes', g, stored'[g]) = wanted'[g]
    BY <2>1, <1>2, <1>8 DEF Calm, Seen
  <2>9. (\A g \in Infra!Features :
           stored[g] # Infra!Gone => Seen(changes, g, stored[g]) = wanted[g])'
    BY <2>8 DEF Seen
  <2> QED BY <2>1, <2>5, <2>6, <2>7, <2>9, <1>2 DEF Calm
<1> QED BY <1>9, <1>10, <1>11 DEF InfraInv

LEMMA DeleteRefusedStep ==
  ASSUME InfraInv, Infra!DeleteRefused, maxHistory' = maxHistory PROVE InfraInv'
<1>1. /\ deleting[1] = "sent" /\ deleting' = Infra!NoDeletion
      /\ Infra!Select(NoFeature, selectedData)
           \/ UNCHANGED <<picking, pickedFor, strayPick, selected, selectedData>>
      /\ UNCHANGED <<stored, airport, pageError, fetches, saving, attempts, savedSelection, updates,
                     changes, past, future, truncated, version, wanted, pairing, disturbed>>
  BY DEF Infra!DeleteRefused, Infra!serverVars, Infra!saveVars, Infra!historyVars, Infra!pickVars
<1>2. InfraTyped
  BY DEF InfraInv
<1>3. /\ pickedFor' = pickedFor /\ strayPick' = strayPick /\ selectedData' = selectedData
      /\ picking' \in BOOLEAN
      /\ (selected' = NoFeature /\ ~picking') \/ (selected' = selected /\ picking' = picking)
  <2>1. CASE Infra!Select(NoFeature, selectedData)
    BY <2>1, EditorFacts DEF Infra!Select
  <2>2. CASE UNCHANGED <<picking, pickedFor, strayPick, selected, selectedData>>
    BY <2>2, <1>2 DEF InfraTyped
  <2> QED BY <2>1, <2>2, <1>1
<1>4. InfraTyped'
  BY <1>1, <1>2, <1>3 DEF InfraTyped
<1>5. HistoryInv'
  BY <1>1, HistoryRests DEF InfraInv
<1>6. ASSUME disturbed' = 0 PROVE Calm'
  <2>1. Calm
    BY <1>1, <1>6 DEF InfraInv
  <2>2. deleting # Infra!NoDeletion
    BY <1>1, NoDeletionIsNone
  <2>3. fetches = {} /\ saving = 0 /\ pairing = {}
    BY <2>1, <2>2, <1>1 DEF Calm, ServerPhase
  <2>4. updates = {} /\ airport = stored
    BY <2>1, <2>3 DEF Calm, SavePhase
  <2>5. (SavePhase /\ ServerPhase /\ FetchPhase)'
    BY <2>3, <2>4, <1>1, IdlePhases
  <2>6. (\A g \in Infra!Features :
           stored[g] # Infra!Gone => Seen(changes, g, stored[g]) = wanted[g])'
    BY <2>1, <1>1 DEF Calm, Seen
  <2> QED BY <2>1, <2>5, <2>6, <1>1, <1>3 DEF Calm
<1> QED BY <1>4, <1>5, <1>6 DEF InfraInv

LEMMA OnPairStep ==
  ASSUME InfraInv, Infra!onPair, maxHistory' = maxHistory PROVE InfraInv'
<1>1. /\ selected \in Shapes /\ pairing' \in SUBSET Shapes /\ Infra!Acts
      /\ UNCHANGED <<stored, airport, pageError, fetches, saving, attempts, savedSelection, updates,
                     changes, past, future, truncated, picking, pickedFor, strayPick, version,
                     wanted, deleting, selected, selectedData>>
  BY DEF Infra!onPair, Infra!serverVars, Infra!saveVars, Infra!historyVars, Infra!pickVars
<1>2. /\ disturbed' \in Nat
      /\ disturbed' = 0 => /\ Calm /\ airport = stored
                           /\ saving = 0 /\ updates = {} /\ fetches = {}
                           /\ deleting = Infra!NoDeletion /\ pairing = {}
  BY <1>1, ActsAlone
<1>3. InfraTyped'
  BY <1>1, <1>2 DEF InfraInv, InfraTyped
<1>4. HistoryInv'
  BY <1>1, HistoryRests DEF InfraInv
<1>5. ASSUME disturbed' = 0 PROVE Calm'
  <2>1. /\ Calm /\ airport' = stored' /\ saving' = 0 /\ updates' = {} /\ fetches' = {}
        /\ deleting' = Infra!NoDeletion
    BY <1>1, <1>2, <1>5
  <2>2. SavePhase' /\ ServerPhase' /\ FetchPhase'
    BY <2>1, <1>1 DEF SavePhase, ServerPhase, FetchPhase, Infra!NoDeletion
  <2>3. (\A g \in Infra!Features :
           stored[g] # Infra!Gone => Seen(changes, g, stored[g]) = wanted[g])'
    BY <2>1, <1>1 DEF Calm, Seen
  <2> QED BY <2>1, <2>2, <2>3, <1>1 DEF Calm
<1> QED BY <1>3, <1>4, <1>5 DEF InfraInv

\* The paired surfaces have a version of the server's, which shows unless an edit is pending.
LEMMA PairMadeStep ==
  ASSUME InfraInv, maxHistory' = maxHistory,
         pairing # {}, version < MaxVersion, \A p \in pairing : stored[p] # Infra!Gone,
         version' = version + 1,
         stored' = [f \in Infra!Features |-> IF f \in pairing THEN version' ELSE stored[f]],
         wanted' = [f \in Infra!Features |-> IF f \in pairing /\ ~Infra!Pending(f) THEN version'
                                             ELSE wanted[f]],
         pairing' = {}, Infra!AskAirport("pair", selected),
         UNCHANGED <<airport, pageError, saving, attempts, savedSelection, updates, changes, past,
                     future, truncated, picking, pickedFor, strayPick, deleting, selected,
                     selectedData, disturbed>>
  PROVE  InfraInv'
<1>1. InfraTyped
  BY DEF InfraInv
<1>2. PICK v \in Infra!Versions : v = version'
  <2>1. version \in Nat /\ version >= 1 /\ version + 1 \in Nat /\ MaxVersion \in Nat
    BY <1>1, EditorFacts DEF InfraTyped, Infra!Versions
  <2>2. version + 1 \in 1..MaxVersion
    BY <2>1
  <2> QED BY <2>2 DEF Infra!Versions
<1>3. PICK keep \in Infra!Features \cup {NoFeature} : keep = selected
  BY <1>1 DEF InfraTyped
<1>4. PICK r \in Infra!Fetch : /\ fetches' = fetches \cup {r} /\ r.for = "pair" /\ r.keep = keep
                               /\ ~r.read /\ ~r.outdated
  BY <1>1, <1>3, AskedTyped
<1>5. v \in 0..MaxVersion /\ v # Infra!Gone
  BY <1>2, EditorFacts
<1>6. \A f \in Infra!Features : /\ stored'[f] = IF f \in pairing THEN v ELSE stored[f]
                                /\ wanted'[f] = IF f \in pairing /\ ~Infra!Pending(f) THEN v
                                                ELSE wanted[f]
  BY <1>2
<1>7. InfraTyped'
  <2>1. stored' \in Infra!Snapshot /\ wanted' \in Infra!Snapshot
    BY <1>1, <1>2, <1>5 DEF InfraTyped, Infra!Snapshot
  <2>2. fetches' \in SUBSET Infra!Fetch
    BY <1>1, <1>4 DEF InfraTyped
  <2> QED BY <2>1, <2>2, <1>1, <1>2 DEF InfraTyped
<1>8. HistoryInv'
  BY HistoryRests DEF InfraInv
<1>9. ASSUME disturbed' = 0 PROVE Calm'
  <2>1. Calm
    BY <1>9 DEF InfraInv
  <2>2. fetches = {} /\ deleting = Infra!NoDeletion /\ saving = 0 /\ selected \in Shapes
    BY <2>1 DEF Calm, ServerPhase
  <2>3. updates = {}
    BY <2>1, <2>2 DEF Calm, SavePhase
  <2>4. fetches' = {r} /\ r.keep = selected
    BY <2>2, <1>3, <1>4
  <2>5. SavePhase'
    BY <2>2, <2>3, <2>4 DEF SavePhase
  <2>6. ServerPhase'
    BY <2>2 DEF ServerPhase, Infra!NoDeletion
  <2>7. FetchPhase'
    BY <2>2, <2>4, <1>4 DEF FetchPhase
  <2>8. \A f \in Infra!Features :
          stored'[f] # Infra!Gone => Seen(changes', f, stored'[f]) = wanted'[f]
    <3> SUFFICES ASSUME NEW f \in Infra!Features, stored'[f] # Infra!Gone
                 PROVE  Seen(changes, f, stored'[f]) = wanted'[f]
      OBVIOUS
    <3>1. stored[f] # Infra!Gone
      BY <1>6
    <3>2. Seen(changes, f, stored[f]) = wanted[f]
      BY <3>1, <2>1 DEF Calm
    <3>3. Infra!Pending(f) <=> Infra!Entry(changes, f) # Infra!Gone
      BY <1>1, PatchEntry DEF InfraTyped, Infra!Pending
    <3> QED BY <3>2, <3>3, <1>6 DEF Seen
  <2>9. (\A f \in Infra!Features :
           stored[f] # Infra!Gone => Seen(changes, f, stored[f]) = wanted[f])'
    BY <2>8 DEF Seen
  <2> QED BY <2>1, <2>5, <2>6, <2>7, <2>9 DEF Calm
<1> QED BY <1>7, <1>8, <1>9 DEF InfraInv

LEMMA PairAnsweredStep ==
  ASSUME InfraInv, Infra!PairAnswered, maxHistory' = maxHistory PROVE InfraInv'
<1>1. CASE /\ pairing # {} /\ version < MaxVersion /\ \A p \in pairing : stored[p] # Infra!Gone
           /\ version' = version + 1
           /\ stored' = [f \in Infra!Features |-> IF f \in pairing THEN version' ELSE stored[f]]
           /\ wanted' = [f \in Infra!Features |-> IF f \in pairing /\ ~Infra!Pending(f)
                                                  THEN version' ELSE wanted[f]]
           /\ pairing' = {} /\ Infra!AskAirport("pair", selected)
           /\ UNCHANGED <<airport, pageError, saving, attempts, savedSelection, updates, changes,
                          past, future, truncated, picking, pickedFor, strayPick, deleting,
                          selected, selectedData, disturbed>>
  BY <1>1, PairMadeStep
<1>2. CASE /\ pairing # {} /\ pairing' = {}
           /\ UNCHANGED <<stored, airport, pageError, fetches, saving, attempts, savedSelection,
                          updates, changes, past, future, truncated, picking, pickedFor, strayPick,
                          version, wanted, deleting, selected, selectedData, disturbed>>
  <2>1. InfraTyped'
    BY <1>2 DEF InfraInv, InfraTyped
  <2>2. HistoryInv'
    BY <1>2, HistoryRests DEF InfraInv
  <2>3. ASSUME disturbed' = 0 PROVE Calm'
    <3>1. Calm
      BY <1>2, <2>3 DEF InfraInv
    <3>2. fetches = {} /\ deleting = Infra!NoDeletion /\ saving = 0
      BY <3>1, <1>2 DEF Calm, ServerPhase
    <3>3. updates = {} /\ airport = stored
      BY <3>1, <3>2 DEF Calm, SavePhase
    <3>4. (SavePhase /\ ServerPhase /\ FetchPhase)'
      BY <3>2, <3>3, <1>2, IdlePhases
    <3>5. (\A g \in Infra!Features :
             stored[g] # Infra!Gone => Seen(changes, g, stored[g]) = wanted[g])'
      BY <3>1, <1>2 DEF Calm, Seen
    <3> QED BY <3>1, <3>4, <3>5, <1>2 DEF Calm
  <2> QED BY <2>1, <2>2, <2>3 DEF InfraInv
<1> QED BY <1>1, <1>2
        DEF Infra!PairAnswered, Infra!serverVars, Infra!saveVars, Infra!historyVars, Infra!pickVars

-----------------------------------------------------------------------------
(* The airport is read again *)

LEMMA FetchServedStep ==
  ASSUME InfraInv, Infra!FetchServed, maxHistory' = maxHistory PROVE InfraInv'
<1>1. PICK g \in fetches :
        /\ ~g.read
        /\ fetches' = {[h EXCEPT !.outdated = h.read] : h \in fetches \ {g}} \cup
                      {[g EXCEPT !.read = TRUE, !.found = stored]}
  BY DEF Infra!FetchServed
<1>2. UNCHANGED <<stored, airport, pageError, saving, attempts, savedSelection, updates, changes,
                  past, future, truncated, picking, pickedFor, strayPick, version, wanted, deleting,
                  pairing, selected, selectedData, disturbed>>
  BY DEF Infra!FetchServed, Infra!saveVars, Infra!historyVars, Infra!pickVars
<1>3. InfraTyped
  BY DEF InfraInv
<1>4. PICK r : r = [g EXCEPT !.read = TRUE, !.found = stored]
  OBVIOUS
<1>5. /\ r \in Infra!Fetch /\ r.for = g.for /\ r.keep = g.keep /\ r.outdated = g.outdated
      /\ r.read /\ r.found = stored
  <2>1. g \in Infra!Fetch /\ stored \in Infra!Snapshot
    BY <1>3 DEF InfraTyped
  <2> QED BY <2>1, <1>4 DEF Infra!Fetch
<1>6. fetches' \in SUBSET Infra!Fetch
  <2> SUFFICES ASSUME NEW q \in fetches' PROVE q \in Infra!Fetch
    OBVIOUS
  <2>1. CASE q = r
    BY <2>1, <1>5
  <2>2. CASE \E h \in fetches \ {g} : q = [h EXCEPT !.outdated = h.read]
    <3>1. PICK h \in fetches : q = [h EXCEPT !.outdated = h.read]
      BY <2>2
    <3>2. h \in Infra!Fetch
      BY <1>3 DEF InfraTyped
    <3> QED BY <3>1, <3>2 DEF Infra!Fetch
  <2> QED BY <2>1, <2>2, <1>1, <1>4
<1>7. InfraTyped'
  BY <1>2, <1>3, <1>6 DEF InfraTyped
<1>8. HistoryInv'
  BY <1>2, HistoryRests DEF InfraInv
<1>9. ASSUME disturbed' = 0 PROVE Calm'
  <2>1. Calm
    BY <1>2, <1>9 DEF InfraInv
  <2>2. fetches = {g}
    BY <2>1 DEF Calm, FetchPhase
  <2>3. fetches' = {r}
    BY <2>2, <1>1, <1>4
  <2>4. SavePhase'
    BY <2>1, <2>2, <2>3, <1>2, <1>5 DEF Calm, SavePhase
  <2>5. ServerPhase'
    BY <2>1, <2>2, <2>3, <1>2 DEF Calm, ServerPhase
  <2>6. FetchPhase'
    BY <2>1, <2>2, <2>3, <1>2, <1>5 DEF Calm, FetchPhase
  <2>7. (\A f \in Infra!Features :
           stored[f] # Infra!Gone => Seen(changes, f, stored[f]) = wanted[f])'
    BY <2>1, <1>2 DEF Calm, Seen
  <2> QED BY <2>1, <2>4, <2>5, <2>6, <2>7, <1>2 DEF Calm
<1> QED BY <1>7, <1>8, <1>9 DEF InfraInv

\* What follows a reading leaves the panel at a feature, with a version of it.
LEMMA ContinueTyped ==
  ASSUME InfraTyped, NEW g \in fetches, NEW a \in BOOLEAN, Infra!Continue(g, a)
  PROVE  /\ saving' = (IF g.for = "save" THEN 0 ELSE saving)
         /\ deleting' = (IF g.for = "delete" THEN Infra!NoDeletion ELSE deleting)
         /\ selected' \in Infra!Features \cup {NoFeature} /\ selectedData' \in 0..MaxVersion
         /\ picking' \in BOOLEAN /\ UNCHANGED <<pickedFor, strayPick>>
<1>1. g \in Infra!Fetch
  BY DEF InfraTyped
<1>2. g.keep \in Infra!Features \cup {NoFeature} /\ g.found \in Infra!Snapshot
  BY <1>1 DEF Infra!Fetch
<1>3. \/ \E f \in Infra!Features \cup {NoFeature}, d \in 0..MaxVersion : Infra!Select(f, d)
      \/ UNCHANGED <<picking, pickedFor, strayPick, selected, selectedData>>
  <2>1. selectedData \in 0..MaxVersion
    BY DEF InfraTyped
  <2>2. g.keep \in Infra!Features => g.found[g.keep] \in 0..MaxVersion
    BY <1>2 DEF Infra!Snapshot
  <2>3. g.keep \in Shapes => g.keep \in Infra!Features
    BY EditorFacts
  <2>4. CASE g.for = "save" /\ g.keep # NoFeature /\ a
    BY <2>1, <2>2, <2>4, <1>2 DEF Infra!Continue
  <2>5. CASE g.for = "delete" /\ deleting[3]
    BY <2>1, <2>5 DEF Infra!Continue
  <2>6. CASE g.for = "pair" /\ a /\ g.keep \in Shapes /\ g.found[g.keep] # Infra!Gone
    BY <2>2, <2>3, <2>6 DEF Infra!Continue
  <2>7. CASE /\ ~(g.for = "save" /\ g.keep # NoFeature /\ a)
             /\ ~(g.for = "delete" /\ deleting[3])
             /\ ~(g.for = "pair" /\ a /\ g.keep \in Shapes /\ g.found[g.keep] # Infra!Gone)
    BY <2>7 DEF Infra!Continue, Infra!pickVars
  <2> QED BY <2>4, <2>5, <2>6, <2>7
<1>4. saving' = (IF g.for = "save" THEN 0 ELSE saving)
      /\ deleting' = (IF g.for = "delete" THEN Infra!NoDeletion ELSE deleting)
  BY DEF Infra!Continue
<1>5. /\ selected' \in Infra!Features \cup {NoFeature} /\ selectedData' \in 0..MaxVersion
      /\ picking' \in BOOLEAN /\ UNCHANGED <<pickedFor, strayPick>>
  <2>1. CASE UNCHANGED <<picking, pickedFor, strayPick, selected, selectedData>>
    BY <2>1 DEF InfraTyped
  <2>2. ASSUME NEW f \in Infra!Features \cup {NoFeature}, NEW d \in 0..MaxVersion,
               Infra!Select(f, d)
        PROVE  /\ selected' \in Infra!Features \cup {NoFeature} /\ selectedData' \in 0..MaxVersion
               /\ picking' \in BOOLEAN /\ UNCHANGED <<pickedFor, strayPick>>
    BY <2>2, SelectFacts
  <2> QED BY <2>1, <2>2, <1>3
<1> QED BY <1>4, <1>5

\* The airport is shown as it was read, and the panel shows the feature it then has.
LEMMA FetchAirportStep ==
  ASSUME InfraInv, Infra!fetchAirport, maxHistory' = maxHistory PROVE InfraInv'
<1>1. PICK g \in fetches :
        /\ g.read /\ fetches' = fetches \ {g} /\ airport' = g.found
        /\ Infra!Continue(g, TRUE)
        /\ pageError' = FALSE
        /\ disturbed' = IF g.outdated /\ ~\E h \in fetches \ {g} : h.read THEN disturbed + 1
                        ELSE disturbed
  BY DEF Infra!fetchAirport
<1>2. UNCHANGED <<stored, changes, past, future, truncated, version, wanted, pairing, attempts,
                  savedSelection, updates>>
  BY DEF Infra!fetchAirport, Infra!historyVars
<1>3. InfraTyped
  BY DEF InfraInv
<1>4. /\ saving' = (IF g.for = "save" THEN 0 ELSE saving)
      /\ deleting' = (IF g.for = "delete" THEN Infra!NoDeletion ELSE deleting)
      /\ selected' \in Infra!Features \cup {NoFeature} /\ selectedData' \in 0..MaxVersion
      /\ picking' \in BOOLEAN /\ UNCHANGED <<pickedFor, strayPick>>
  <2>1. TRUE \in BOOLEAN /\ Infra!Continue(g, TRUE)
    BY <1>1
  <2> QED BY <2>1, <1>3, ContinueTyped
<1>5. disturbed' \in Nat /\ (disturbed' = 0 => disturbed = 0)
  BY <1>1, <1>3 DEF InfraTyped
<1>6. g \in Infra!Fetch /\ g.found \in Infra!Snapshot
  BY <1>3 DEF InfraTyped, Infra!Fetch
<1>7. InfraTyped'
  <2>1. saving' \in 0..attempts' /\ attempts' = attempts
    BY <1>2, <1>3, <1>4 DEF InfraTyped
  <2>2. \/ deleting' = Infra!NoDeletion
        \/ deleting' \in {"sent", "served"} \X Infra!Features \X BOOLEAN
    BY <1>3, <1>4 DEF InfraTyped
  <2>3. fetches' \in SUBSET Infra!Fetch /\ airport' \in Infra!Snapshot /\ pageError' \in BOOLEAN
    BY <1>1, <1>3, <1>6 DEF InfraTyped
  <2> QED BY <2>1, <2>2, <2>3, <1>2, <1>3, <1>4, <1>5 DEF InfraTyped
<1>8. HistoryInv'
  BY <1>2, HistoryRests DEF InfraInv
<1>9. ASSUME disturbed' = 0 PROVE Calm'
  <2>1. Calm
    BY <1>5, <1>9 DEF InfraInv
  <2>2. fetches = {g} /\ g.found = stored
    BY <2>1, <1>1 DEF Calm, FetchPhase
  <2>3. pairing = {} /\ updates = {} /\ fetches' = {} /\ airport' = stored
    BY <2>1, <2>2, <1>1 DEF Calm, ServerPhase, SavePhase
  <2>4. \/ g.for = "save" /\ saving # 0 /\ g.keep = selected
        \/ /\ g.for = "delete" /\ deleting[1] = "served"
           /\ \A f \in Infra!Features : stored[f] # Infra!Gone => stored[f] = airport[f]
        \/ /\ g.for = "pair" /\ g.keep = selected /\ selected \in Shapes
           /\ deleting = Infra!NoDeletion /\ saving = 0
    BY <2>1, <2>2 DEF Calm, FetchPhase
  <2>5. saving' = 0 /\ deleting' = Infra!NoDeletion
    <3>1. CASE g.for = "save" /\ saving # 0
      BY <3>1, <2>1, <1>4 DEF Calm, SavePhase
    <3>2. CASE g.for = "delete" /\ deleting[1] = "served"
      <4>1. deleting # Infra!NoDeletion
        BY <3>2, NoDeletionIsNone
      <4>2. saving = 0
        BY <4>1, <2>1 DEF Calm, ServerPhase
      <4> QED BY <4>2, <3>2, <1>4
    <3>3. CASE g.for = "pair" /\ deleting = Infra!NoDeletion /\ saving = 0
      BY <3>3, <1>4
    <3> QED BY <3>1, <3>2, <3>3, <2>4
  <2>6. (SavePhase /\ ServerPhase /\ FetchPhase)'
    BY <2>3, <2>5, <1>2, IdlePhases
  <2>7. picking => selected = pickedFor
    BY <2>1 DEF Calm
  <2>8. /\ picking' => selected' = pickedFor'
        /\ selected' # NoFeature /\ airport'[selected'] # Infra!Gone =>
             selectedData' = airport'[selected']
    <3>1. CASE g.for = "save" /\ g.keep = selected
      <4>1. CASE g.keep # NoFeature /\ g.found[g.keep] # Infra!Gone
        <5>1. Infra!Select(g.keep, g.found[g.keep])
          BY <3>1, <4>1, <1>1 DEF Infra!Continue
        <5> QED BY <5>1, <3>1, <2>2, <2>3, <2>7, <1>4 DEF Infra!Select
      <4>2. CASE g.keep # NoFeature /\ g.found[g.keep] = Infra!Gone
        <5>1. Infra!Select(NoFeature, selectedData)
          BY <3>1, <4>2, <1>1 DEF Infra!Continue
        <5> QED BY <5>1, EditorFacts DEF Infra!Select
      <4>3. CASE g.keep = NoFeature
        <5>1. UNCHANGED <<picking, selected, selectedData>>
          BY <3>1, <4>3, <1>1 DEF Infra!Continue, Infra!pickVars
        <5> QED BY <5>1, <4>3, <3>1, <2>7, <1>4
      <4> QED BY <4>1, <4>2, <4>3
    <3>2. CASE /\ g.for = "delete"
               /\ \A f \in Infra!Features : stored[f] # Infra!Gone => stored[f] = airport[f]
      <4>1. CASE deleting[3]
        <5>1. Infra!Select(NoFeature, selectedData)
          BY <3>2, <4>1, <1>1 DEF Infra!Continue
        <5> QED BY <5>1, EditorFacts DEF Infra!Select
      <4>2. CASE ~deleting[3]
        <5>1. UNCHANGED <<picking, selected, selectedData>>
          BY <3>2, <4>2, <1>1 DEF Infra!Continue, Infra!pickVars
        <5>2. selected # NoFeature /\ airport[selected] # Infra!Gone =>
                selectedData = airport[selected]
          BY <2>1 DEF Calm
        <5>3. selected \in Infra!Features \cup {NoFeature}
          BY <1>3 DEF InfraTyped
        <5> QED BY <5>1, <5>2, <5>3, <3>2, <2>3, <2>7, <1>4
      <4> QED BY <4>1, <4>2
    <3>3. CASE g.for = "pair" /\ g.keep = selected /\ selected \in Shapes
      <4>1. CASE g.found[g.keep] # Infra!Gone
        <5>1. Infra!Select(g.keep, g.found[g.keep])
          BY <3>3, <4>1, <1>1 DEF Infra!Continue
        <5> QED BY <5>1, <3>3, <2>2, <2>3, <2>7, <1>4 DEF Infra!Select
      <4>2. CASE g.found[g.keep] = Infra!Gone
        <5>1. UNCHANGED <<picking, selected, selectedData>>
          BY <3>3, <4>2, <1>1 DEF Infra!Continue, Infra!pickVars
        <5> QED BY <5>1, <4>2, <3>3, <2>2, <2>3, <2>7, <1>4
      <4> QED BY <4>1, <4>2
    <3> QED BY <3>1, <3>2, <3>3, <2>4
  <2>9. (\A f \in Infra!Features :
           stored[f] # Infra!Gone => Seen(changes, f, stored[f]) = wanted[f])'
    BY <2>1, <1>2 DEF Calm, Seen
  <2>10. ~strayPick' /\ ~pageError'
    BY <2>1, <1>1, <1>4 DEF Calm
  <2> QED BY <2>6, <2>8, <2>9, <2>10 DEF Calm
<1> QED BY <1>7, <1>8, <1>9 DEF InfraInv

LEMMA FetchFailedStep ==
  ASSUME InfraInv, Infra!FetchFailed, maxHistory' = maxHistory PROVE InfraInv'
<1>1. PICK g \in fetches : fetches' = fetches \ {g} /\ Infra!Continue(g, FALSE)
  BY DEF Infra!FetchFailed
<1>2. /\ pageError' = TRUE /\ disturbed' = disturbed + 1
      /\ UNCHANGED <<stored, airport, changes, past, future, truncated, version, wanted, pairing,
                     attempts, savedSelection, updates>>
  BY DEF Infra!FetchFailed, Infra!Fails, Infra!historyVars
<1>3. InfraTyped
  BY DEF InfraInv
<1>4. /\ saving' = (IF g.for = "save" THEN 0 ELSE saving)
      /\ deleting' = (IF g.for = "delete" THEN Infra!NoDeletion ELSE deleting)
      /\ selected' \in Infra!Features \cup {NoFeature} /\ selectedData' \in 0..MaxVersion
      /\ picking' \in BOOLEAN /\ UNCHANGED <<pickedFor, strayPick>>
  <2>1. FALSE \in BOOLEAN /\ Infra!Continue(g, FALSE)
    BY <1>1
  <2> QED BY <2>1, <1>3, ContinueTyped
<1>5. disturbed' \in Nat /\ disturbed' # 0
  BY <1>2, <1>3 DEF InfraTyped
<1>6. InfraTyped'
  <2>1. saving' \in 0..attempts' /\ attempts' = attempts
    BY <1>2, <1>3, <1>4 DEF InfraTyped
  <2>2. \/ deleting' = Infra!NoDeletion
        \/ deleting' \in {"sent", "served"} \X Infra!Features \X BOOLEAN
    BY <1>3, <1>4 DEF InfraTyped
  <2>3. fetches' \in SUBSET Infra!Fetch
    BY <1>1, <1>3 DEF InfraTyped
  <2> QED BY <2>1, <2>2, <2>3, <1>2, <1>3, <1>4, <1>5 DEF InfraTyped
<1>7. HistoryInv'
  BY <1>2, HistoryRests DEF InfraInv
<1> QED BY <1>5, <1>6, <1>7 DEF InfraInv

LEMMA OnRetryStep ==
  ASSUME InfraInv, Infra!onRetry, maxHistory' = maxHistory PROVE InfraInv'
<1>1. /\ pageError /\ Infra!AskAirport("retry", NoFeature) /\ pageError' = FALSE
      /\ UNCHANGED <<stored, airport, saving, attempts, savedSelection, updates, changes, past,
                     future, truncated, picking, pickedFor, strayPick, version, wanted, deleting,
                     pairing, selected, selectedData, disturbed>>
  BY DEF Infra!onRetry, Infra!saveVars, Infra!historyVars, Infra!pickVars
<1>2. InfraTyped
  BY DEF InfraInv
<1>3. PICK keep \in Infra!Features \cup {NoFeature} : keep = NoFeature
  OBVIOUS
<1>4. PICK r \in Infra!Fetch : fetches' = fetches \cup {r}
  BY <1>1, <1>2, <1>3, AskedTyped
<1>5. disturbed # 0
  BY <1>1 DEF InfraInv, Calm
<1>6. InfraTyped'
  <2>1. fetches' \in SUBSET Infra!Fetch
    BY <1>2, <1>4 DEF InfraTyped
  <2> QED BY <2>1, <1>1, <1>2 DEF InfraTyped
<1>7. HistoryInv'
  BY <1>1, HistoryRests DEF InfraInv
<1> QED BY <1>1, <1>5, <1>6, <1>7 DEF InfraInv

LEMMA InfraStep ==
  ASSUME InfraInv, [Infra!Next]_infraVars PROVE InfraInv'
<1>1. CASE UNCHANGED infraVars
  BY <1>1, InfraRests
<1>2. CASE Infra!Next
  <2>1. maxHistory' = maxHistory
    BY <1>2 DEF Infra!Next
  <2>2. CASE Infra!Edits
    BY <2>1, <2>2, FeatureUpdateStep, PointDragStep, UndoRedoStep DEF Infra!Edits
  <2>3. CASE Infra!Panel
    BY <2>1, <2>3, FeatureClickStep, EscapeStep, PickToggleStep, PickingMapClickStep DEF Infra!Panel
  <2>4. CASE Infra!handleSave \/ Infra!SaveAccepted
    BY <2>1, <2>4, SaveStep, SaveAcceptedStep
  <2>5. CASE \E u \in updates : Infra!UpdateServed(u) \/ Infra!UpdateRefused(u)
    BY <2>1, <2>5, UpdateServedStep, UpdateRefusedStep
  <2>6. CASE Infra!onDelete \/ Infra!DeleteServed \/ Infra!DeleteRefused
    BY <2>1, <2>6, OnDeleteStep, DeleteServedStep, DeleteRefusedStep
  <2>7. CASE Infra!onPair \/ Infra!PairAnswered
    BY <2>1, <2>7, OnPairStep, PairAnsweredStep
  <2>8. CASE Infra!FetchServed \/ Infra!fetchAirport \/ Infra!FetchFailed \/ Infra!onRetry
    BY <2>1, <2>8, FetchServedStep, FetchAirportStep, FetchFailedStep, OnRetryStep
  <2> QED BY <2>2, <2>3, <2>4, <2>5, <2>6, <2>7, <2>8, <1>2 DEF Infra!Next
<1> QED BY <1>1, <1>2

LEMMA InfraHolds == Spec => [](page = "infra" => InfraInv)
<1>1. Init => (page = "infra" => InfraInv)
  BY InfraStarts DEF Init
<1>2. ASSUME page = "infra" => InfraInv,
             [Next]_<<page, infraVars, creationVars, profileVars, planVars, tableVars>>
      PROVE  (page = "infra" => InfraInv)'
  <2>1. page' = page /\ (page = "infra" => [Infra!Next]_infraVars)
    BY <1>2 DEF Next
  <2> QED BY <2>1, <1>2, InfraStep
<1> QED BY <1>1, <1>2, PTL DEF Spec

\* From that, what is asked of the editor.
LEMMA InfraReaches ==
  ASSUME InfraInv
  PROVE  /\ Infra!TypeOK /\ Infra!EditsShown /\ Infra!PageIsServers /\ Infra!HistoryUnwinds
         /\ Infra!PickStays
<1>1. InfraTyped /\ HistoryInv
  BY DEF InfraInv
<1>2. Infra!HistoryUnwinds
  BY <1>1, HistoryFits
<1>3. Infra!TypeOK
  <2>1. DOMAIN changes \subseteq Infra!Features
          /\ \A f \in DOMAIN changes : changes[f] \in Infra!Versions
    BY <1>1, PatchEntry DEF InfraTyped
  <2>2. Len(past) <= maxHistory /\ Len(future) <= maxHistory
    <3>1. PICK a, b \in Nat : a = Len(past) /\ b = Len(future)
      BY <1>1 DEF InfraTyped
    <3>2. maxHistory \in Nat /\ a + b <= maxHistory
      BY <3>1, <1>1 DEF InfraTyped
    <3> QED BY <3>1, <3>2
  <2>3. deleting \in {"none", "sent", "served"} \X (Infra!Features \cup {NoFeature}) \X BOOLEAN
    <3>1. Infra!NoDeletion
            \in {"none", "sent", "served"} \X (Infra!Features \cup {NoFeature}) \X BOOLEAN
      BY DEF Infra!NoDeletion
    <3> QED BY <3>1, <1>1 DEF InfraTyped
  <2> QED BY <2>1, <2>2, <2>3, <1>1 DEF InfraTyped, Infra!TypeOK
<1>4. ASSUME disturbed = 0, ~Infra!Busy
      PROVE  /\ airport = stored
             /\ selected # NoFeature /\ airport[selected] # Infra!Gone =>
                  selectedData = airport[selected]
             /\ \A f \in Infra!Features : airport[f] # Infra!Gone =>
                  Infra!Shown(changes, f) = wanted[f]
  <2>1. Calm /\ saving = 0 /\ fetches = {}
    BY <1>4 DEF InfraInv, Infra!Busy
  <2>2. airport = stored
    BY <2>1 DEF Calm, SavePhase
  <2>3. ASSUME NEW f \in Infra!Features, airport[f] # Infra!Gone
        PROVE  Infra!Shown(changes, f) = wanted[f]
    <3>1. Seen(changes, f, stored[f]) = wanted[f]
      BY <2>1, <2>2, <2>3 DEF Calm
    <3>2. /\ f \in DOMAIN changes <=> Infra!Entry(changes, f) # Infra!Gone
          /\ f \in DOMAIN changes => changes[f] = Infra!Entry(changes, f)
      BY <1>1, PatchEntry DEF InfraTyped
    <3> QED BY <3>1, <3>2, <2>2 DEF Seen, Infra!Shown
  <2> QED BY <2>1, <2>2, <2>3 DEF Calm
<1>5. Infra!EditsShown /\ Infra!PageIsServers
  BY <1>4 DEF Infra!EditsShown, Infra!PageIsServers
<1>6. Infra!PickStays
  <2>1. disturbed \in Nat /\ (disturbed = 0 => ~strayPick)
    BY <1>1 DEF InfraInv, InfraTyped, Calm
  <2> QED BY <2>1 DEF Infra!PickStays
<1> QED BY <1>2, <1>3, <1>5, <1>6

\* The airport editor, to the end: the operator's edits, the page and its history.
THEOREM EditorFollows == Spec => []InfraFollows
<1>1. ASSUME page = "infra" => InfraInv PROVE InfraFollows
  BY <1>1, InfraReaches DEF InfraFollows
<1> QED BY <1>1, InfraHolds, PTL
================================================================================
