-------------------------------- MODULE QrCode --------------------------------
(***************************************************************************)
(* The QR code of the hub's address on the field operations page: the      *)
(* smallest version that holds the text, its codewords with their error    *)
(* correction, the matrix, and the mask with the lowest penalty.           *)
(*                                                                         *)
(* A byte is the set of its bits, a polynomial over GF(2) the set of its   *)
(* exponents, a matrix the set of its dark modules <<x, y>>. The four      *)
(* stages of the encoder are steps. The reader of a code is the standard's *)
(* and nobody's code here: it is what the matrix is for.                   *)
(***************************************************************************)
EXTENDS Integers, Sequences, FiniteSets, FiniteSetsExt, SequencesExt

CONSTANTS
  QrCases,    \* what is encoded: a text and a level, 1..4 for L, M, Q and H
  utf8Bytes   \* of each text, a sequence of bytes 0..255

QrAssumption ==
  /\ utf8Bytes \in [DOMAIN utf8Bytes -> Seq(0..255)]
  /\ QrCases \subseteq (DOMAIN utf8Bytes) \X (1..4)

VARIABLES
  text, eclIdx,
  version,
  codewords,       \* data and error correction, interleaved
  modules,
  tried,           \* masks tried so far
  bestMask, minPenalty,
  stage            \* "text", "codewords", "matrix" or "done"

qrVars == <<text, eclIdx, version, codewords, modules, tried, bestMask, minPenalty, stage>>

ECC_FORMAT_BITS == <<1, 0, 3, 2>>
MAX_VERSION == 40

ECC_CODEWORDS_PER_BLOCK ==
  << <<7, 10, 15, 20, 26, 18, 20, 24, 30, 18, 20, 24, 26, 30, 22, 24, 28, 30, 28, 28, 28, 28,
       30, 30, 26, 28, 30, 30, 30, 30, 30, 30, 30, 30, 30, 30, 30, 30, 30, 30>>,
     <<10, 16, 26, 18, 24, 16, 18, 22, 22, 26, 30, 22, 22, 24, 24, 28, 28, 26, 26, 26, 26, 28,
       28, 28, 28, 28, 28, 28, 28, 28, 28, 28, 28, 28, 28, 28, 28, 28, 28, 28>>,
     <<13, 22, 18, 26, 18, 24, 18, 22, 20, 24, 28, 26, 24, 20, 30, 24, 28, 28, 26, 30, 28, 30,
       30, 30, 30, 28, 30, 30, 30, 30, 30, 30, 30, 30, 30, 30, 30, 30, 30, 30>>,
     <<17, 28, 22, 16, 22, 28, 26, 26, 24, 28, 24, 28, 22, 24, 24, 30, 28, 28, 26, 28, 30, 24,
       30, 30, 30, 30, 30, 30, 30, 30, 30, 30, 30, 30, 30, 30, 30, 30, 30, 30>> >>

NUM_ERROR_CORRECTION_BLOCKS ==
  << <<1, 1, 1, 1, 1, 2, 2, 2, 2, 4, 4, 4, 4, 4, 6, 6, 6, 6, 7, 8, 8, 9, 9, 10, 12, 12, 12, 13,
       14, 15, 16, 17, 18, 19, 19, 20, 21, 22, 24, 25>>,
     <<1, 1, 1, 2, 2, 4, 4, 4, 5, 5, 5, 8, 9, 9, 10, 10, 11, 13, 14, 16, 17, 17, 18, 20, 21,
       23, 25, 26, 28, 29, 31, 33, 35, 37, 38, 40, 43, 45, 47, 49>>,
     <<1, 1, 2, 2, 4, 4, 6, 6, 8, 8, 8, 10, 12, 16, 12, 17, 16, 18, 21, 20, 23, 23, 25, 27, 29,
       34, 34, 35, 38, 40, 43, 45, 48, 51, 53, 56, 59, 62, 65, 68>>,
     <<1, 1, 2, 4, 4, 4, 5, 6, 8, 8, 11, 11, 16, 16, 18, 16, 19, 21, 25, 25, 25, 34, 30, 32,
       35, 37, 40, 42, 45, 48, 51, 54, 57, 60, 63, 66, 70, 74, 77, 81>> >>

-----------------------------------------------------------------------------
(* Capacity *)

byteModeCharCountBits(v) == IF v <= 9 THEN 8 ELSE 16

getNumRawDataModules(v) ==
  LET numAlign == (v \div 7) + 2 IN
    (16 * v + 128) * v + 64
    - (IF v >= 2 THEN (25 * numAlign - 10) * numAlign - 55 ELSE 0)
    - (IF v >= 7 THEN 36 ELSE 0)

RawCodewords(v) == getNumRawDataModules(v) \div 8

getNumDataCodewords(v, e) ==
  RawCodewords(v) - ECC_CODEWORDS_PER_BLOCK[e][v] * NUM_ERROR_CORRECTION_BLOCKS[e][v]

Fits(bytes, v, e) ==
  4 + byteModeCharCountBits(v) + 8 * Len(bytes) <= 8 * getNumDataCodewords(v, e)

-----------------------------------------------------------------------------
(* Codewords *)

\* The `len` lowest bits of a number, highest first.
appendBits(n, len) == [i \in 1..len |-> (n \div 2^(len - i)) % 2]
Bits(n) == {i \in 0..15 : (n \div 2^i) % 2 = 1}
Zeros(n) == [i \in 1..n |-> 0]
Smaller(a, b) == IF a < b THEN a ELSE b

\* Mode, length and bytes, a terminator of up to four bits, and padding bytes.
DataCodewords(bytes, v, e) ==
  LET capacity == getNumDataCodewords(v, e)
      used == appendBits(4, 4) \o appendBits(Len(bytes), byteModeCharCountBits(v))
              \o [i \in 1..8 * Len(bytes) |-> appendBits(bytes[(i + 7) \div 8], 8)[((i - 1) % 8) + 1]]
      ended == used \o Zeros(Smaller(4, 8 * capacity - Len(used)))
      bb == ended \o Zeros((8 - (Len(ended) % 8)) % 8)
      filled == Len(bb) \div 8
  IN  [k \in 1..capacity |->
        IF k <= filled THEN {b \in 0..7 : bb[8 * k - b] = 1}
        ELSE Bits(IF (k - filled) % 2 = 1 THEN 236 ELSE 17)]

Shift(p) == {i + 1 : i \in p}

\* Multiplication modulo x^8 + x^4 + x^3 + x^2 + 1, from the highest bit of y down.
reedSolomonMultiply(x, y) ==
  LET z[i \in 0..8] ==
        IF i = 0 THEN {}
        ELSE LET d == Shift(z[i - 1])
                 r == IF 8 \in d THEN SymDiff(d, {0, 2, 3, 4, 8}) ELSE d
             IN  IF 8 - i \in y THEN SymDiff(r, x) ELSE r
  IN  z[8]

\* The sum of two sequences of coefficients; SubSeq makes TLC evaluate it here.
Plus(p, q) == SubSeq([i \in DOMAIN p |-> SymDiff(p[i], q[i])], 1, Len(p))

\* Mutant of reedSolomonComputeDivisor: the first root is 2 instead of 1.
reedSolomonComputeDivisor_late(degree) ==
  LET root[i \in 1..degree] ==
        IF i = 1 THEN {1} ELSE reedSolomonMultiply(root[i - 1], {1})
      result[i \in 0..degree] ==
        IF i = 0 THEN [j \in 1..degree |-> IF j = degree THEN {0} ELSE {}]
        ELSE LET old == result[i - 1] IN
             Plus(Append(Tail(old), {}),
                  [j \in 1..degree |-> reedSolomonMultiply(old[j], root[i])])
  IN  result[degree]

\* The product of (x - 2^i), for i below the degree, without its leading 1.
reedSolomonComputeDivisor(degree) ==
  LET root[i \in 1..degree] ==
        IF i = 1 THEN {0} ELSE reedSolomonMultiply(root[i - 1], {1})
      result[i \in 0..degree] ==
        IF i = 0 THEN [j \in 1..degree |-> IF j = degree THEN {0} ELSE {}]
        ELSE LET old == result[i - 1] IN
             Plus(Append(Tail(old), {}),
                  [j \in 1..degree |-> reedSolomonMultiply(old[j], root[i])])
  IN  result[degree]

reedSolomonComputeRemainder(dat, divisor) ==
  LET result[n \in 0..Len(dat)] ==
        IF n = 0 THEN [i \in 1..Len(divisor) |-> {}]
        ELSE LET old == result[n - 1]
                 factor == SymDiff(dat[n], old[1])
             IN  Plus(Append(Tail(old), {}),
                      [i \in 1..Len(divisor) |-> reedSolomonMultiply(divisor[i], factor)])
  IN  result[Len(dat)]

\* The last blocks have one byte of data more than the first ones, which carry an empty cell
\* there; the blocks are read out across, without those cells.
addEccAndInterleave(dat, v, e) ==
  LET numBlocks == NUM_ERROR_CORRECTION_BLOCKS[e][v]
      blockEccLen == ECC_CODEWORDS_PER_BLOCK[e][v]
      numShortBlocks == numBlocks - (RawCodewords(v) % numBlocks)
      shortDat == RawCodewords(v) \div numBlocks - blockEccLen
      rsDiv == reedSolomonComputeDivisor(blockEccLen)
      After(b) == b * shortDat + (IF b > numShortBlocks THEN b - numShortBlocks ELSE 0)
      Block(b) == LET own == SubSeq(dat, After(b - 1) + 1, After(b)) IN
                  own \o (IF b <= numShortBlocks THEN <<{}>> ELSE <<>>)
                      \o reedSolomonComputeRemainder(own, rsDiv)
      blocks == [b \in 1..numBlocks |-> Block(b)]
      From(i) == IF i = shortDat + 1 THEN numShortBlocks + 1 ELSE 1
  IN  FlattenSeq([i \in 1..(shortDat + 1 + blockEccLen) |->
                    [n \in 1..(numBlocks - From(i) + 1) |-> blocks[n + From(i) - 1][i]]])

-----------------------------------------------------------------------------
(* The matrix *)

Size(v) == 4 * v + 17
Far(a, b) == LET abs(n) == IF n < 0 THEN -n ELSE n IN
             IF abs(a) > abs(b) THEN abs(a) ELSE abs(b)

\* A pattern: the modules it sets, and which of them dark. A later one is drawn over it.
Draw(m, p) == (m \ p.cells) \cup p.dark

Timing(v) ==
  LET cells == ({6} \X (0..Size(v) - 1)) \cup ((0..Size(v) - 1) \X {6}) IN
    [cells |-> cells, dark |-> {c \in cells : (c[1] + c[2]) % 2 = 0}]

drawFinderPattern(v, cx, cy) ==
  LET near == {<<cx + d[1], cy + d[2]>> : d \in (-4..4) \X (-4..4)}
      cells == near \cap ((0..Size(v) - 1) \X (0..Size(v) - 1))
  IN  [cells |-> cells, dark |-> {c \in cells : Far(c[1] - cx, c[2] - cy) \notin {2, 4}}]

drawAlignmentPattern(cx, cy) ==
  LET cells == {<<cx + d[1], cy + d[2]>> : d \in (-2..2) \X (-2..2)} IN
    [cells |-> cells, dark |-> {c \in cells : Far(c[1] - cx, c[2] - cy) # 1}]

alignmentPositions(v) ==
  LET numAlign == (v \div 7) + 2
      gaps == 2 * numAlign - 2
      step == IF v = 32 THEN 26 ELSE 2 * ((Size(v) - 13 + gaps - 1) \div gaps)
  IN  IF v = 1 THEN {} ELSE {6} \cup {Size(v) - 7 - k * step : k \in 0..(numAlign - 2)}

\* None where a finder pattern is.
Alignments(v) ==
  LET last == Size(v) - 7
      at == (alignmentPositions(v) \X alignmentPositions(v))
              \ {<<6, 6>>, <<6, last>>, <<last, 6>>}
  IN  [cells |-> UNION {drawAlignmentPattern(p[1], p[2]).cells : p \in at},
       dark |-> UNION {drawAlignmentPattern(p[1], p[2]).dark : p \in at}]

\* n steps of a division by a generator of degree n.
Remainder(value, n, generator) ==
  LET rem[i \in 0..n] ==
        IF i = 0 THEN value
        ELSE LET s == Shift(rem[i - 1]) IN IF n \in s THEN SymDiff(s, generator) ELSE s
  IN  rem[n]

\* Level and mask, with ten bits of error correction, in two places.
FormatBits(e, m) ==
  LET value == Bits(8 * ECC_FORMAT_BITS[e] + m) IN
    SymDiff({i + 10 : i \in value} \cup Remainder(value, 10, {0, 1, 2, 4, 5, 8, 10}),
            {1, 4, 10, 12, 14})

FirstCopy(i) == IF i <= 5 THEN <<8, i>>
                ELSE IF i = 6 THEN <<8, 7>> ELSE IF i = 7 THEN <<8, 8>>
                ELSE IF i = 8 THEN <<7, 8>> ELSE <<14 - i, 8>>
\* Mutant of SecondCopy: the split is one bit early, as the first copy's.
SecondCopy_early(v, i) == IF i < 7 THEN <<Size(v) - 1 - i, 8>> ELSE <<8, Size(v) - 15 + i>>
SecondCopy(v, i) == IF i < 8 THEN <<Size(v) - 1 - i, 8>> ELSE <<8, Size(v) - 15 + i>>

drawFormatBits(v, e, m) ==
  LET dark == <<8, Size(v) - 8>>
      At(set) == {FirstCopy(i) : i \in set} \cup {SecondCopy(v, i) : i \in set} \cup {dark}
  IN  [cells |-> At(0..14), dark |-> At(FormatBits(e, m))]

\* The version, with twelve bits of error correction, in two places.
drawVersion(v) ==
  LET bits == {i + 12 : i \in Bits(v)} \cup Remainder(Bits(v), 12, {0, 2, 5, 8, 9, 10, 11, 12})
      At(set) == UNION {{<<Size(v) - 11 + (i % 3), i \div 3>>, <<i \div 3, Size(v) - 11 + (i % 3)>>} :
                          i \in set}
  IN  IF v < 7 THEN [cells |-> {}, dark |-> {}] ELSE [cells |-> At(0..17), dark |-> At(bits)]

Patterns(v, e) ==
  <<Timing(v), drawFinderPattern(v, 3, 3), drawFinderPattern(v, Size(v) - 4, 3),
    drawFinderPattern(v, 3, Size(v) - 4), Alignments(v), drawFormatBits(v, e, 0), drawVersion(v)>>

isFunction(v) == LET all == Patterns(v, 1) IN UNION {all[i].cells : i \in 1..Len(all)}

DrawPatterns(v, e) ==
  LET all == Patterns(v, e)
      drawn[i \in 0..Len(all)] == IF i = 0 THEN {} ELSE Draw(drawn[i - 1], all[i])
  IN  drawn[Len(all)]

\* The modules of a pair of columns from which the zigzag reads, up or down, right before left.
Pair(v, col, reserved) ==
  LET at(k) == LET vert == k \div 2 IN
                 <<col - (k % 2), IF ((col + 1) \div 2) % 2 = 0 THEN Size(v) - 1 - vert ELSE vert>>
  IN  SelectSeq([k \in 1..2 * Size(v) |-> at(k - 1)], LAMBDA c : c \notin reserved)

\* The right column of each pair: the loop goes on from 6, not from the 5 it has used.
Columns(v) ==
  [p \in 1..(Size(v) - 1) \div 2 |->
     LET right == Size(v) + 1 - 2 * p IN IF right = 6 THEN 5 ELSE right]

BitAt(all, k) == 7 - (k % 8) \in all[k \div 8 + 1]

\* A module that is met twice holds the later bit.
PlaceCodewords(v, e, all) ==
  LET reserved == isFunction(v)
      cols == Columns(v)
      placed[p \in 0..Len(cols)] ==
        IF p = 0 THEN [next |-> 0, dark |-> DrawPatterns(v, e)]
        ELSE LET old == placed[p - 1]
                 pair == Pair(v, cols[p], reserved)
                 n == Smaller(Len(pair), 8 * Len(all) - old.next)
             IN  [next |-> old.next + n,
                  dark |-> Draw(old.dark,
                                [cells |-> {pair[k] : k \in 1..n},
                                 dark |-> {pair[k] : k \in {i \in 1..n :
                                                            BitAt(all, old.next + i - 1)}}])]
  IN  placed[Len(cols)].dark

-----------------------------------------------------------------------------
(* The mask *)

Inverted(v, m) ==
  {c \in ((0..Size(v) - 1) \X (0..Size(v) - 1)) \ isFunction(v) :
     LET x == c[1]  y == c[2] IN
     CASE m = 0 -> (x + y) % 2 = 0
       [] m = 1 -> y % 2 = 0
       [] m = 2 -> x % 3 = 0
       [] m = 3 -> (x + y) % 3 = 0
       [] m = 4 -> (x \div 3 + y \div 2) % 2 = 0
       [] m = 5 -> ((x * y) % 2) + ((x * y) % 3) = 0
       [] m = 6 -> (((x * y) % 2) + ((x * y) % 3)) % 2 = 0
       [] OTHER -> (((x + y) % 2) + ((x * y) % 3)) % 2 = 0}

Masked(v, e, m, dark) == Draw(SymDiff(dark, Inverted(v, m)), drawFormatBits(v, e, m))

finderPenaltyCountPatterns(h) ==
  LET n == h[2]
      core == n > 0 /\ h[3] = n /\ h[4] = 3 * n /\ h[5] = n /\ h[6] = n
  IN  (IF core /\ h[1] >= 4 * n /\ h[7] >= n THEN 1 ELSE 0)
      + (IF core /\ h[7] >= 4 * n /\ h[1] >= n THEN 1 ELSE 0)

\* The newest run comes first; before the first one there is a light border.
finderPenaltyAddHistory(size, run, h) ==
  <<IF h[1] = 0 THEN run + size ELSE run>> \o SubSeq(h, 1, 6)

finderPenaltyTerminate(size, color, run, h) ==
  finderPenaltyCountPatterns(
    IF color THEN finderPenaltyAddHistory(size, size, finderPenaltyAddHistory(size, run, h))
    ELSE finderPenaltyAddHistory(size, run + size, h))

\* One row or column, from its set of dark positions.
scanAxis(size, line) ==
  LET scan[i \in 0..size] ==
        IF i = 0 THEN [penalty |-> 0, color |-> FALSE, len |-> 0, history |-> Zeros(7)]
        ELSE LET s == scan[i - 1]
                 seen == finderPenaltyAddHistory(size, s.len, s.history)
             IN  IF (i - 1 \in line) = s.color
                 THEN [s EXCEPT !.len = @ + 1,
                         !.penalty = @ + (IF s.len < 4 THEN 0 ELSE IF s.len = 4 THEN 3 ELSE 1)]
                 ELSE [penalty |-> s.penalty + (IF s.color THEN 0
                                                ELSE 40 * finderPenaltyCountPatterns(seen)),
                       color |-> ~s.color, len |-> 1, history |-> seen]
      end == scan[size]
  IN  end.penalty + 40 * finderPenaltyTerminate(size, end.color, end.len, end.history)

Row(m, y) == {c[1] : c \in {d \in m : d[2] = y}}
Column(m, x) == {c[2] : c \in {d \in m : d[1] = x}}

Squares(m, size) ==
  Cardinality({c \in (0..size - 2) \X (0..size - 2) :
    LET box == {c, <<c[1] + 1, c[2]>>, <<c[1], c[2] + 1>>, <<c[1] + 1, c[2] + 1>>} IN
      box \subseteq m \/ box \cap m = {}})

\* In steps of five per cent away from one half.
Balance(m, size) ==
  LET total == size * size
      off == LET d == 20 * Cardinality(m) - 10 * total IN IF d < 0 THEN -d ELSE d
  IN  (off + total - 1) \div total - 1

getPenaltyScore(m, size) ==
  LET sum[i \in 0..size] == IF i = 0 THEN 0
                            ELSE sum[i - 1] + scanAxis(size, Row(m, i - 1))
                                 + scanAxis(size, Column(m, i - 1))
  IN  sum[size] + 3 * Squares(m, size) + 10 * Balance(m, size)

-----------------------------------------------------------------------------
(* The encoder *)

Init ==
  /\ \E c \in QrCases : text = c[1] /\ eclIdx = c[2]
  /\ version = 1 /\ codewords = <<>> /\ modules = {} /\ tried = 0 /\ bestMask = 0
  /\ minPenalty = 0 /\ stage = "text"

\* The smallest version that fits; the encoder starts from nothing.
encodeQrMatrix ==
  /\ stage = "text" /\ stage' = "codewords"
  /\ \E v \in 1..MAX_VERSION :
       /\ Fits(utf8Bytes[text], v, eclIdx) /\ \A w \in 1..(v - 1) : ~Fits(utf8Bytes[text], w, eclIdx)
       /\ version' = v
       /\ codewords' = addEccAndInterleave(DataCodewords(utf8Bytes[text], v, eclIdx), v, eclIdx)
  /\ modules' = {} /\ tried' = 0 /\ bestMask' = 0 /\ minPenalty' = 0
  /\ UNCHANGED <<text, eclIdx>>

buildMatrix ==
  /\ stage = "codewords" /\ stage' = "matrix"
  /\ modules' = PlaceCodewords(version, eclIdx, codewords)
  /\ UNCHANGED <<text, eclIdx, version, codewords, tried, bestMask, minPenalty>>

\* Each mask is tried and taken back.
applyMask ==
  /\ stage = "matrix" /\ tried < 8 /\ tried' = tried + 1
  /\ LET penalty == getPenaltyScore(Masked(version, eclIdx, tried, modules), Size(version)) IN
       IF tried = 0 \/ penalty < minPenalty
       THEN bestMask' = tried /\ minPenalty' = penalty
       ELSE UNCHANGED <<bestMask, minPenalty>>
  /\ UNCHANGED <<text, eclIdx, version, codewords, modules, stage>>

Finish ==
  /\ stage = "matrix" /\ tried = 8 /\ stage' = "done"
  /\ modules' = Masked(version, eclIdx, bestMask, modules)
  /\ UNCHANGED <<text, eclIdx, version, codewords, tried, bestMask, minPenalty>>

\* The address changes.
ConnectQr ==
  /\ stage = "done" /\ stage' = "text"
  /\ \E c \in QrCases : text' = c[1] /\ eclIdx' = c[2]
  /\ UNCHANGED <<version, codewords, modules, tried, bestMask, minPenalty>>

Next == encodeQrMatrix \/ buildMatrix \/ applyMask \/ Finish \/ ConnectQr

Spec == Init /\ [][Next]_qrVars

TypeOK ==
  /\ <<text, eclIdx>> \in QrCases /\ version \in 1..MAX_VERSION
  /\ Len(codewords) \in {0, RawCodewords(version)}
  /\ \A k \in DOMAIN codewords : codewords[k] \subseteq 0..7
  /\ modules \subseteq (0..Size(version) - 1) \X (0..Size(version) - 1)
  /\ tried \in 0..8 /\ bestMask \in 0..7 /\ minPenalty \in Nat
  /\ stage \in {"text", "codewords", "matrix", "done"}

-----------------------------------------------------------------------------
(* The reader, as the standard has it *)

\* Multiplication in GF(256): the product of polynomials, and its division.
Times(x, y) ==
  LET product == {k \in 0..14 : Cardinality({i \in x : k - i \in y}) % 2 = 1}
      rest[k \in 7..14] == IF k = 14 THEN product
                           ELSE IF k + 1 \in rest[k + 1]
                                THEN SymDiff(rest[k + 1], {k - 7 + b : b \in {0, 2, 3, 4, 8}})
                                ELSE rest[k + 1]
  IN  rest[7]

\* The codewords of block b in a code read out: the blocks' data across, then their correction.
InBlock(v, e, b) ==
  LET n == NUM_ERROR_CORRECTION_BLOCKS[e][v]
      ecc == ECC_CODEWORDS_PER_BLOCK[e][v]
      short == n - (RawCodewords(v) % n)
      dat == RawCodewords(v) \div n - ecc
  IN  [i \in 1..dat |-> (i - 1) * n + b]
      \o (IF b > short THEN <<n * dat + b - short>> ELSE <<>>)
      \o [i \in 1..ecc |-> RawCodewords(v) - (ecc - i + 1) * n + b]

\* The powers of 2.
Power ==
  LET power[m \in 0..254] ==
        LET half == power[m \div 2] IN
        IF m = 0 THEN {0} ELSE IF m % 2 = 0 THEN Times(half, half)
        ELSE Times(Times(half, half), {1})
  IN  [m \in 0..254 |-> power[m]]

\* A block is a multiple of the generator: 2^r is a root of it, for every r below its degree.
Multiple(block, degree) ==
  \A r \in 0..(degree - 1) :
    LET term == [k \in 1..Len(block) |-> Times(block[k], Power[(r * (Len(block) - k)) % 255])]
        seen == UNION {{<<k, b>> : b \in term[k]} : k \in 1..Len(block)}
    IN  \A b \in 0..7 : Cardinality({s \in seen : s[2] = b}) % 2 = 0

\* Columns in pairs from the right, the timing column left out.
StandardColumns(v) ==
  [p \in 1..(Size(v) - 1) \div 2 |->
     LET right == Size(v) + 1 - 2 * p IN IF right <= 6 THEN right - 1 ELSE right]

ReadCodewords(v, m, dark) ==
  LET reserved == isFunction(v)
      cols == StandardColumns(v)
      order == FlattenSeq([p \in 1..Len(cols) |-> Pair(v, cols[p], reserved)])
      plain == SymDiff(dark, Inverted(v, m))
  IN  [k \in 1..RawCodewords(v) |-> {b \in 0..7 : order[8 * k - b] \in plain}]

ReadFormat(At(_), dark) == SymDiff({i \in 0..14 : At(i) \in dark}, {1, 4, 10, 12, 14})

\* Mode, length and bytes of the data.
Number(bits) == LET n[i \in 0..Len(bits)] ==
                      IF i = 0 THEN 0 ELSE 2 * n[i - 1] + bits[i]
                IN  n[Len(bits)]
ReadText(dat, v) ==
  LET bits == [i \in 1..8 * Len(dat) |-> IF BitAt(dat, i - 1) THEN 1 ELSE 0]
      head == 4 + byteModeCharCountBits(v)
      len == Number(SubSeq(bits, 5, head))
  IN  IF Number(SubSeq(bits, 1, 4)) # 4 \/ head + 8 * len > Len(bits) THEN <<-1>>
      ELSE [k \in 1..len |-> Number(SubSeq(bits, head + 8 * k - 7, head + 8 * k))]

\* The penalty of a line: its runs of five and more, and a finder-like sequence with a light
\* margin of four on one side; beside the code everything is light.
LinePenalty(size, line) ==
  LET Run(i, j) == /\ j = size - 1 \/ (j + 1 \in line) # (j \in line)
                   /\ i..j \subseteq line \/ i..j \cap line = {}
      starts == {i \in 0..size - 5 : i = 0 \/ (i - 1 \in line) # (i \in line)}
      runs == UNION {{<<i, j>> : j \in {k \in (i + 4)..(size - 1) : Run(i, k)}} : i \in starts}
      Light(i, j) == i..j \cap line = {}
      like == {s \in (0..size - 7) \X (1..size \div 7) :
                 LET i == s[1]  n == s[2] IN
                 /\ i \in line /\ i + 2 * n \in line /\ i + 6 * n \in line
                 /\ i..(i + n - 1) \subseteq line /\ Light(i + n, i + 2 * n - 1)
                 /\ (i + 2 * n)..(i + 5 * n - 1) \subseteq line
                 /\ Light(i + 5 * n, i + 6 * n - 1)
                 /\ (i + 6 * n)..(i + 7 * n - 1) \subseteq line
                 /\ Light(i - n, i - 1) /\ Light(i + 7 * n, i + 8 * n - 1)}
      before == {s \in like : Light(s[1] - 4 * s[2], s[1] - 1)}
      after == {s \in like : Light(s[1] + 7 * s[2], s[1] + 11 * s[2] - 1)}
  IN  MapThenSumSet(LAMBDA r : r[2] - r[1] - 1, runs)
      + 40 * (Cardinality(before) + Cardinality(after))

-----------------------------------------------------------------------------
(* Properties *)

\* The patterns of every version leave as many modules as its codewords need, finder and
\* alignment patterns do not meet, and where a pattern is drawn over another they agree.
PatternsFit ==
  stage = "text" => \A v \in 1..MAX_VERSION :
    LET all == Patterns(v, 1)
        fixed == {Timing(v), Alignments(v), drawVersion(v)}
    IN  /\ Size(v) * Size(v) - Cardinality(isFunction(v)) = getNumRawDataModules(v)
        /\ \A p, q \in fixed : p.cells \cap q.dark \subseteq p.dark
        /\ \A i \in 2..4 : \A j \in 5..7 : all[i].cells \cap all[j].cells \subseteq all[6].cells

\* A reader finds level and mask in both places. In every block it finds no more wrong codewords
\* than the block's error correction mends, and what it mends them to is the text.
CodeReads ==
  LET n == NUM_ERROR_CORRECTION_BLOCKS[eclIdx][version]
      ecc == ECC_CODEWORDS_PER_BLOCK[eclIdx][version]
      dat == RawCodewords(version) \div n - ecc
      Sent(b) == LET at == InBlock(version, eclIdx, b) IN [i \in 1..Len(at) |-> codewords[at[i]]]
  IN
  /\ stage = "codewords" =>
       /\ \A b \in 1..n : Multiple(Sent(b), ecc)
       /\ ReadText(FlattenSeq([b \in 1..n |-> SubSeq(Sent(b), 1, Len(Sent(b)) - ecc)]), version)
            = utf8Bytes[text]
  /\ stage = "done" =>
       LET At2(i) == SecondCopy(version, i)
           value == Bits(8 * ECC_FORMAT_BITS[eclIdx] + bestMask)
           read == ReadCodewords(version, bestMask, modules)
       IN  /\ {i - 10 : i \in {j \in ReadFormat(FirstCopy, modules) : j >= 10}} = value
           /\ ReadFormat(At2, modules) = ReadFormat(FirstCopy, modules)
           /\ \A b \in 1..n :
                Cardinality({i \in DOMAIN InBlock(version, eclIdx, b) :
                               LET k == InBlock(version, eclIdx, b)[i] IN
                                 read[k] # codewords[k]}) <= ecc \div 2

\* The penalty a mask is chosen by is the standard's, and no mask has a lower one.
MaskIsLightest ==
  stage = "done" =>
    LET size == Size(version)
        plain == SymDiff(modules, Inverted(version, bestMask))
        Penalty(m) ==
          LET dark == Masked(version, eclIdx, m, plain) IN
            MapThenSumSet(LAMBDA i : LinePenalty(size, Row(dark, i))
                                     + LinePenalty(size, Column(dark, i)), 0..size - 1)
            + 3 * Squares(dark, size) + 10 * Balance(dark, size)
    IN  /\ minPenalty = Penalty(bestMask)
        /\ \A m \in 0..7 : Penalty(m) >= minPenalty

\* The zigzag gives every bit of every codeword a module of its own. False: the column before
\* the timing column is met twice, and the first column never.
CodewordsPlaced ==
  stage = "done" => ReadCodewords(version, bestMask, modules) = codewords
=============================================================================
