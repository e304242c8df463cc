------------------------- MODULE CoreLibraryProofs -------------------------
(***************************************************************************)
(* Theorems about CoreLibrary, for every width of sizes, of addresses and  *)
(* of integers and all questions of the kinds that the code asks.          *)
(*                                                                         *)
(* An answer, once it is there, is the function of the question, so that a *)
(* property of answers is one of the functions.  Most of these are folds,  *)
(* whose results are reached by climbing from one element to the next.     *)
(***************************************************************************)
EXTENDS CoreLibrary, FiniteSetTheorems, FunctionTheorems, WellFoundedInduction, SequenceTheorems, TLAPS

(* What the two properties rest on: types, and the reader inside the view. *)
ReaderInv ==
    /\ size \in Sizes /\ data \in Data /\ offset \in Sizes /\ asked \in Nat
    /\ span \in [first : Nat, length : Nat]
    /\ SpansInside

LEMMA NoSpanType == NoSpan \in [first : Nat, length : Nat] /\ NoSpan.first + NoSpan.length = 0
  BY DEF NoSpan

(* A span of natural numbers that ends inside.                             *)
LEMMA SpanType ==
    ASSUME NEW first \in Nat, NEW length \in Nat
    PROVE  /\ Span(first, length) \in [first : Nat, length : Nat]
           /\ Span(first, length).first = first
           /\ Span(first, length).length = length
  BY DEF Span

LEMMA ReaderInitially == ReaderInit => ReaderInv
  BY SizeModAssumption, NoSpanType DEF ReaderInit, ReaderInv, Sizes, Data, SpansInside

(* Every call keeps the reader and what it touches inside the view.        *)
LEMMA ReaderStep == ReaderInv /\ [ReaderNext]_readerVars => ReaderInv'
<1> SUFFICES ASSUME ReaderInv, [ReaderNext]_readerVars PROVE ReaderInv'
    OBVIOUS
<1> USE SizeModAssumption DEF ReaderInv, Sizes, SpansInside, Data
<1>1. ASSUME NEW width \in {1, 2, 4}, ReadInteger(width) PROVE ReaderInv'
  BY <1>1, NoSpanType, SpanType DEF ReadInteger, CanRead, Remaining
<1>2. ASSUME NEW count \in Sizes, ReadBytes(count) PROVE ReaderInv'
  BY <1>2, NoSpanType, SpanType DEF ReadBytes, CanRead, Remaining, Sliceable, ViewValid
<1>3. ASSUME NEW count \in Sizes, PeekBytes(count) PROVE ReaderInv'
  BY <1>3, NoSpanType, SpanType DEF PeekBytes, CanRead, Remaining, Sliceable, ViewValid
<1>4. ASSUME NEW count \in Sizes, ByteAt(count) PROVE ReaderInv'
  BY <1>4, NoSpanType, SpanType DEF ByteAt, ViewValid
<1>5. ASSUME NEW count \in Sizes, Advance(count) PROVE ReaderInv'
  <2>1. (offset + count) % SizeMod \in Nat
    OBVIOUS
  <2>2. QED
    BY <1>5, <2>1, NoSpanType DEF Advance, Min2
<1>6. ASSUME NEW first \in Sizes, NEW length \in Sizes, Slice(first, length) PROVE ReaderInv'
  BY <1>6, NoSpanType, SpanType DEF Slice, Sliceable, ViewValid
<1>7. CASE UNCHANGED readerVars
  BY <1>7 DEF readerVars
<1>8. QED
  BY <1>1, <1>2, <1>3, <1>4, <1>5, <1>6, <1>7 DEF ReaderNext

(* Reading hands out the bytes from the old offset to the new one, and     *)
(* only advance() may go back, by wrapping around.                         *)
LEMMA ReaderMoves ==
    ReaderInv /\ [ReaderNext]_readerVars =>
        [/\ offset' < offset => offset + asked' >= SizeMod
         /\ offset' > offset /\ span' # NoSpan =>
                span'.first = offset /\ span'.first + span'.length = offset']_readerVars
<1> DEFINE Moves == /\ offset' < offset => offset + asked' >= SizeMod
                    /\ offset' > offset /\ span' # NoSpan =>
                           span'.first = offset /\ span'.first + span'.length = offset'
<1> SUFFICES ASSUME ReaderInv, ReaderNext PROVE Moves
    OBVIOUS
<1> USE SizeModAssumption DEF ReaderInv, Sizes
<1>1. ASSUME NEW width \in {1, 2, 4}, ReadInteger(width) PROVE Moves
  BY <1>1, SpanType DEF ReadInteger
<1>2. ASSUME NEW count \in Sizes, ReadBytes(count) PROVE Moves
  BY <1>2, SpanType DEF ReadBytes
<1>3. ASSUME NEW count \in Sizes, PeekBytes(count) \/ ByteAt(count) PROVE Moves
  BY <1>3 DEF PeekBytes, ByteAt
<1>4. ASSUME NEW count \in Sizes, Advance(count) PROVE Moves
  <2>1. CASE offset + count < SizeMod
    <3>1. (offset + count) % SizeMod = offset + count
      BY <2>1
    <3>2. QED
      BY <1>4, <3>1 DEF Advance, Min2, SpansInside
  <2>2. CASE offset + count >= SizeMod
    BY <1>4, <2>2 DEF Advance
  <2>3. QED
    BY <2>1, <2>2
<1>5. ASSUME NEW first \in Sizes, NEW length \in Sizes, Slice(first, length) PROVE Moves
  BY <1>5 DEF Slice
<1> HIDE DEF Moves
<1>6. QED
  BY <1>1, <1>2, <1>3, <1>4, <1>5 DEF ReaderNext

-----------------------------------------------------------------------------
(* Numbers.                                                                *)

(* A nonempty set of numbers up to n has a greatest.                         *)
LEMMA GreatestExists ==
    ASSUME NEW n \in Nat, NEW S \in SUBSET (0 .. n), S # {}
    PROVE  \E g \in S : \A s \in S : s <= g
<1> DEFINE below == {n - s : s \in S}
           less  == OpToRel(<, Nat)
<1>1. below \subseteq Nat /\ below # {}
  <2>1. ASSUME NEW s \in S PROVE n - s \in Nat
    <3>1. s \in Int /\ s <= n
      OBVIOUS
    <3> QED
      BY <3>1
  <2> QED
    BY <2>1
<1>2. PICK m \in below : \A k \in below : ~(<<k, m>> \in less)
  <2> HIDE DEF below, less
  <2>1. IsWellFoundedOn(less, Nat)
    BY NatLessThanWellFounded DEF less
  <2> QED
    BY <1>1, <2>1, WFMin
<1>3. ASSUME NEW k \in below PROVE m <= k
  <2> HIDE DEF below, less
  <2>1. m \in Nat /\ k \in Nat
    BY <1>1
  <2>2. less = {e \in Nat \X Nat : e[1] < e[2]}
    BY DEF OpToRel, less
  <2>3. k < m => <<k, m>> \in less
    BY <2>1, <2>2
  <2> QED
    BY <1>2, <2>1, <2>3
<1>4. PICK g \in S : m = n - g
  OBVIOUS
<1>5. ASSUME NEW s \in S PROVE s <= g
  <2>1. n - g <= n - s
    BY <1>3, <1>4
  <2>2. n \in Int /\ s \in Int /\ g \in Int
    OBVIOUS
  <2> QED
    BY <2>1, <2>2
<1> QED
  BY <1>5

(* A nonempty set of natural numbers has a least.                          *)
LEMMA LeastExists ==
    ASSUME NEW S \in SUBSET Nat, S # {}
    PROVE  \E m \in S : \A s \in S : m <= s
<1> DEFINE less == OpToRel(<, Nat)
<1>1. PICK m \in S : \A k \in S : ~(<<k, m>> \in less)
  <2> HIDE DEF less
  <2>1. IsWellFoundedOn(less, Nat)
    BY NatLessThanWellFounded DEF less
  <2> QED
    BY <2>1, WFMin
<1>2. ASSUME NEW s \in S PROVE m <= s
  <2> HIDE DEF less
  <2>1. m \in Nat /\ s \in Nat
    OBVIOUS
  <2>2. less = {e \in Nat \X Nat : e[1] < e[2]}
    BY DEF OpToRel, less
  <2>3. s < m => <<s, m>> \in less
    BY <2>1, <2>2
  <2> QED
    BY <1>1, <2>1, <2>3
<1> QED
  BY <1>2

(* A set of numbers that has 0, and with a number the next one, has them all. *)
LEMMA Climb ==
    ASSUME NEW n \in Nat, NEW S \in SUBSET (0 .. n), 0 \in S,
           \A k \in S : k < n => k + 1 \in S
    PROVE  S = 0 .. n
<1> DEFINE below == {k \in 0 .. n : \A j \in 0 .. k : j \in S}
<1>1. below \in SUBSET (0 .. n) /\ below # {}
  <2>1. 0 \in below
    OBVIOUS
  <2> QED
    BY <2>1
<1>2. PICK g \in below : \A k \in below : k <= g
  <2> HIDE DEF below
  <2> QED
    BY <1>1, GreatestExists
<1>3. g \in Nat /\ g <= n /\ g \in S /\ \A j \in 0 .. g : j \in S
  OBVIOUS
<1>4. ASSUME g < n PROVE FALSE
  <2>1. g + 1 \in S /\ g + 1 \in 0 .. n
    BY <1>3, <1>4
  <2>2. \A j \in 0 .. g + 1 : j \in 0 .. g \/ j = g + 1
    BY <1>3
  <2>3. g + 1 \in below
    BY <1>3, <2>1, <2>2
  <2> QED
    BY <1>2, <1>3, <2>3
<1>5. g = n
  BY <1>3, <1>4
<1> QED
  BY <1>3, <1>5

-----------------------------------------------------------------------------
(* Folds.  A fold over a sequence is the last element of a run: a function *)
(* that begins with the base and takes one element at a time.  The folds   *)
(* of Ranges are told apart by their kind, since no prover argues about an *)
(* operator that it does not know.                                         *)

Keep(out, r) == IF \E k \in Range(out) : Covers(k, r) THEN out ELSE Append(out, r)

ReadDigit(max, v, c) ==
    IF v = -1 \/ (v * 10 + c) % UIntMod > max THEN -1 ELSE (v * 10 + c) % UIntMod

Take(kind, v, x) ==
    IF kind[1] = "power"      THEN v * x
    ELSE IF kind[1] = "value" THEN v * 10 + x
    ELSE IF kind[1] = "sum"   THEN v + x
    ELSE IF kind[1] = "keep"  THEN Keep(v, x)
    ELSE ReadDigit(kind[2], v, x)

Folding(kind, base, seq, slots, f) ==
    f = [s \in SUBSET slots |->
            IF s = {} THEN base ELSE Take(kind, f[s \ {Max(s)}], seq[Max(s)])]

Run(kind, base, seq, n, r) ==
    /\ r = [k \in 0 .. n |-> r[k]]
    /\ r[0] = base
    /\ \A k \in 1 .. n : r[k] = Take(kind, r[k - 1], seq[k])

LEMMA GreatestOfSlots ==
    ASSUME NEW n \in Nat, NEW s \in SUBSET (1 .. n), n \in s
    PROVE  Max(s) = n
<1>1. \A x \in s : (\A y \in s : x >= y) => x = n
  OBVIOUS
<1>2. n \in s /\ \A y \in s : n >= y
  OBVIOUS
<1> QED
  BY <1>1, <1>2 DEF Max

LEMMA FoldingExists ==
    ASSUME NEW kind, NEW base, NEW seq, NEW n \in Nat
    PROVE  \E f : Folding(kind, base, seq, 1 .. n, f)
<1> DEFINE S == {m \in 0 .. n : \E f : Folding(kind, base, seq, 1 .. m, f)}
<1>1. 0 \in S
  <2> DEFINE f == [s \in SUBSET (1 .. 0) |-> base]
  <2>1. \A s \in SUBSET (1 .. 0) : s = {}
    OBVIOUS
  <2>2. f = [s \in SUBSET (1 .. 0) |->
               IF s = {} THEN base ELSE Take(kind, f[s \ {Max(s)}], seq[Max(s)])]
    BY <2>1
  <2>3. Folding(kind, base, seq, 1 .. 0, f)
    BY <2>2 DEF Folding
  <2> QED
    BY <2>3
<1>2. ASSUME NEW m \in S, m < n
      PROVE  m + 1 \in S
  <2>1. PICK f : Folding(kind, base, seq, 1 .. m, f)
    BY <1>2
  <2>2. m \in Nat /\ m + 1 \in 0 .. n /\ m + 1 \in Nat
    BY <1>2
  <2> DEFINE Rest(s) == s \ {m + 1}
             g == [s \in SUBSET (1 .. m + 1) |->
                     IF m + 1 \in s THEN Take(kind, f[Rest(s)], seq[m + 1]) ELSE f[s]]
             Rule(s) == IF s = {} THEN base ELSE Take(kind, g[s \ {Max(s)}], seq[Max(s)])
  <2>3. \A s \in SUBSET (1 .. m + 1) : Rest(s) \in SUBSET (1 .. m) /\ m + 1 \notin Rest(s)
    BY <2>2
  <2>4. \A s \in SUBSET (1 .. m + 1) : m + 1 \notin s => s \in SUBSET (1 .. m)
    BY <2>2
  <2>5. \A s \in SUBSET (1 .. m) : s \in SUBSET (1 .. m + 1) /\ m + 1 \notin s /\ g[s] = f[s]
    BY <2>2
  <2>6. \A s \in SUBSET (1 .. m + 1) :
           g[s] = IF m + 1 \in s THEN Take(kind, f[Rest(s)], seq[m + 1]) ELSE f[s]
    OBVIOUS
  <2>7. \A s \in SUBSET (1 .. m) :
           f[s] = IF s = {} THEN base ELSE Take(kind, f[s \ {Max(s)}], seq[Max(s)])
    BY <2>1 DEF Folding
  <2>8. g = [s \in SUBSET (1 .. m + 1) |-> g[s]]
    OBVIOUS
  <2> HIDE DEF g
  <2>9. ASSUME NEW s \in SUBSET (1 .. m + 1)
        PROVE  g[s] = Rule(s)
    <3>1. CASE m + 1 \in s
      <4>1. Max(s) = m + 1
        BY <2>2, <3>1, GreatestOfSlots
      <4>2. g[s] = Take(kind, f[Rest(s)], seq[m + 1]) /\ f[Rest(s)] = g[Rest(s)]
        BY <2>3, <2>5, <2>6, <3>1
      <4> QED
        BY <3>1, <4>1, <4>2
    <3>2. CASE m + 1 \notin s
      <4>1. s \in SUBSET (1 .. m) /\ g[s] = f[s]
        BY <2>4, <2>6, <3>2
      <4>2. s \ {Max(s)} \in SUBSET (1 .. m)
        BY <4>1
      <4>3. g[s \ {Max(s)}] = f[s \ {Max(s)}]
        BY <2>5, <4>2
      <4> QED
        BY <2>7, <4>1, <4>3
    <3> QED
      BY <3>1, <3>2
  <2>10. g = [s \in SUBSET (1 .. m + 1) |-> Rule(s)]
    BY <2>8, <2>9
  <2>11. Folding(kind, base, seq, 1 .. m + 1, g)
    BY <2>10 DEF Folding
  <2> QED
    BY <2>2, <2>11
<1>3. S = 0 .. n
  <2> HIDE DEF S
  <2>1. S \in SUBSET (0 .. n)
    BY DEF S
  <2> QED
    BY <1>1, <1>2, <2>1, Climb
<1>4. n \in S
  BY <1>3
<1> QED
  BY <1>4

(* A fold is where the run ends.                                               *)
LEMMA FoldingRuns ==
    ASSUME NEW kind, NEW base, NEW seq, NEW n \in Nat,
           NEW f, Folding(kind, base, seq, 1 .. n, f), NEW r, Run(kind, base, seq, n, r)
    PROVE  f[1 .. n] = r[n]
<1> DEFINE S == {k \in 0 .. n : f[1 .. k] = r[k]}
<1>1. \A s \in SUBSET (1 .. n) :
         f[s] = IF s = {} THEN base ELSE Take(kind, f[s \ {Max(s)}], seq[Max(s)])
  BY DEF Folding
<1>2. 0 \in S
  <2>1. {} \in SUBSET (1 .. n) /\ 1 .. 0 = {}
    OBVIOUS
  <2>2. f[{}] = base
    BY <1>1, <2>1
  <2> QED
    BY <2>2 DEF Run
<1>3. ASSUME NEW k \in S, k < n
      PROVE  k + 1 \in S
  <2>1. k \in Nat /\ k + 1 \in 1 .. n /\ (k + 1) - 1 = k /\ k + 1 \in 0 .. n
    BY <1>3
  <2>2. 1 .. k + 1 \in SUBSET (1 .. n) /\ k + 1 \in 1 .. k + 1 /\ 1 .. k + 1 # {}
        /\ (1 .. k + 1) \ {k + 1} = 1 .. k
    <3>1. k \in Nat /\ k + 1 <= n /\ k + 1 \in Nat
      BY <2>1
    <3>2. k + 1 \in 1 .. k + 1
      BY <3>1
    <3>3. \A j \in 1 .. k + 1 : j \in 1 .. n
      BY <3>1
    <3>4. \A j : j \in (1 .. k + 1) \ {k + 1} <=> j \in 1 .. k
      BY <3>1
    <3> QED
      BY <3>2, <3>3, <3>4
  <2>3. Max(1 .. k + 1) = k + 1
    BY <2>1, <2>2, GreatestOfSlots
  <2>4. f[1 .. k + 1] = Take(kind, f[1 .. k], seq[k + 1])
    <3> DEFINE s == 1 .. k + 1
    <3>1. s \in SUBSET (1 .. n) /\ s # {} /\ Max(s) = k + 1 /\ s \ {k + 1} = 1 .. k
      BY <2>2, <2>3
    <3> HIDE DEF s
    <3>2. f[s] = Take(kind, f[s \ {Max(s)}], seq[Max(s)])
      BY <1>1, <3>1
    <3> QED
      BY <3>1, <3>2 DEF s
  <2>5. r[k + 1] = Take(kind, r[k], seq[k + 1])
    <3>1. \A j \in 1 .. n : r[j] = Take(kind, r[j - 1], seq[j])
      BY DEF Run
    <3>2. r[k + 1] = Take(kind, r[(k + 1) - 1], seq[k + 1])
      BY <2>1, <3>1
    <3> QED
      BY <2>1, <3>2
  <2>6. f[1 .. k] = r[k]
    BY <1>3
  <2> QED
    BY <2>1, <2>4, <2>5, <2>6
<1>4. S = 0 .. n
  <2> HIDE DEF S
  <2>1. S \in SUBSET (0 .. n)
    BY DEF S
  <2> QED
    BY <1>2, <1>3, <2>1, Climb
<1>5. n \in S
  BY <1>4
<1> QED
  BY <1>5

LEMMA RunExists ==
    ASSUME NEW kind, NEW base, NEW seq, NEW n \in Nat
    PROVE  \E r : Run(kind, base, seq, n, r)
<1>1. PICK f : Folding(kind, base, seq, 1 .. n, f)
  BY FoldingExists
<1> DEFINE r == [k \in 0 .. n |-> f[1 .. k]]
<1>2. \A s \in SUBSET (1 .. n) :
         f[s] = IF s = {} THEN base ELSE Take(kind, f[s \ {Max(s)}], seq[Max(s)])
  BY <1>1 DEF Folding
<1>3. r = [k \in 0 .. n |-> r[k]] /\ \A k \in 0 .. n : r[k] = f[1 .. k]
  OBVIOUS
<1> HIDE DEF r
<1>4. r[0] = base
  <2>1. 1 .. 0 \in SUBSET (1 .. n) /\ 1 .. 0 = {} /\ 0 \in 0 .. n
    OBVIOUS
  <2>2. f[1 .. 0] = base
    BY <1>2, <2>1
  <2> QED
    BY <1>3, <2>1, <2>2
<1>5. ASSUME NEW k \in 1 .. n
      PROVE  r[k] = Take(kind, r[k - 1], seq[k])
  <2>1. k \in Nat /\ k - 1 \in 0 .. n /\ k \in 0 .. n
    OBVIOUS
  <2>2. 1 .. k \in SUBSET (1 .. n) /\ k \in 1 .. k /\ 1 .. k # {} /\ (1 .. k) \ {k} = 1 .. k - 1
    BY <2>1
  <2>3. Max(1 .. k) = k
    BY <2>1, <2>2, GreatestOfSlots
  <2>4. f[1 .. k] = Take(kind, f[1 .. k - 1], seq[k])
    BY <1>2, <2>2, <2>3
  <2> QED
    BY <1>3, <2>1, <2>4
<1>6. Run(kind, base, seq, n, r)
  BY <1>3, <1>4, <1>5 DEF Run
<1> QED
  BY <1>6

(* A fold with an operator that takes what a kind takes ends where the     *)
(* runs of that kind end.                                                  *)
LEMMA PowerIsRun ==
    ASSUME NEW x, NEW n \in Nat, NEW r, Run(<<"power", 0>>, 1, [i \in 1 .. n |-> x], n, r)
    PROVE  Power(x, n) = r[n]
<1> DEFINE many == [i \in 1 .. n |-> x]
<1> DEFINE Rule(f) == [s \in SUBSET DOMAIN many |->
                         IF s = {} THEN 1 ELSE f[s \ {Max(s)}] * many[Max(s)]]
           E == CHOOSE f : f = Rule(f)
<1>1. Power(x, n) = E[DOMAIN many]
  BY DEF Power, FoldLeft, MapThenFoldSet
<1>2. n \in Nat /\ DOMAIN many = 1 .. n
  OBVIOUS
<1>3. \A f : Folding(<<"power", 0>>, 1, many, DOMAIN many, f) <=> f = Rule(f)
  BY DEF Folding, Take
<1>4. PICK f : Folding(<<"power", 0>>, 1, many, DOMAIN many, f)
  BY <1>2, FoldingExists
<1>5. f = Rule(f)
  BY <1>3, <1>4
<1>6. E = Rule(E)
  BY <1>5
<1> HIDE DEF E, Rule
<1>7. Folding(<<"power", 0>>, 1, many, DOMAIN many, E)
  BY <1>3, <1>6
<1>8. E[1 .. n] = r[n]
  BY <1>2, <1>7, FoldingRuns
<1> QED
  BY <1>1, <1>2, <1>8

LEMMA ValueIsRun ==
    ASSUME NEW S, NEW digits \in Seq(S), NEW r, Run(<<"value", 0>>, 0, digits, Len(digits), r)
    PROVE  Value(digits) = r[Len(digits)]
<1> DEFINE Rule(f) == [s \in SUBSET DOMAIN digits |->
                         IF s = {} THEN 0 ELSE f[s \ {Max(s)}] * 10 + digits[Max(s)]]
           E == CHOOSE f : f = Rule(f)
<1>1. Value(digits) = E[DOMAIN digits]
  BY DEF Value, FoldLeft, MapThenFoldSet
<1>2. Len(digits) \in Nat /\ DOMAIN digits = 1 .. Len(digits)
  BY LenProperties
<1>3. \A f : Folding(<<"value", 0>>, 0, digits, DOMAIN digits, f) <=> f = Rule(f)
  BY DEF Folding, Take
<1>4. PICK f : Folding(<<"value", 0>>, 0, digits, DOMAIN digits, f)
  BY <1>2, FoldingExists
<1>5. f = Rule(f)
  BY <1>3, <1>4
<1>6. E = Rule(E)
  BY <1>5
<1> HIDE DEF E, Rule
<1>7. Folding(<<"value", 0>>, 0, digits, DOMAIN digits, E)
  BY <1>3, <1>6
<1>8. E[1 .. Len(digits)] = r[Len(digits)]
  BY <1>2, <1>7, FoldingRuns
<1> QED
  BY <1>1, <1>2, <1>8

LEMMA ValueOfNone == Value(<< >>) = 0
<1> DEFINE r == [k \in 0 .. 0 |-> 0]
<1>1. Run(<<"value", 0>>, 0, << >>, 0, r)
  BY DEF Run
<1>2. << >> \in Seq(Nat) /\ Len(<< >>) = 0
  BY EmptySeq
<1> HIDE DEF r
<1>3. Value(<< >>) = r[0]
  BY <1>1, <1>2, ValueIsRun
<1> QED
  BY <1>3 DEF r

LEMMA SumIsRun ==
    ASSUME NEW S, NEW seq \in Seq(S), NEW r, Run(<<"sum", 0>>, 0, seq, Len(seq), r)
    PROVE  Total(seq) = r[Len(seq)]
<1> DEFINE Rule(f) == [s \in SUBSET DOMAIN seq |->
                         IF s = {} THEN 0 ELSE f[s \ {Max(s)}] + seq[Max(s)]]
           E == CHOOSE f : f = Rule(f)
<1>1. Total(seq) = E[DOMAIN seq]
  BY DEF Total, FoldLeft, MapThenFoldSet
<1>2. Len(seq) \in Nat /\ DOMAIN seq = 1 .. Len(seq)
  BY LenProperties
<1>3. \A f : Folding(<<"sum", 0>>, 0, seq, DOMAIN seq, f) <=> f = Rule(f)
  BY DEF Folding, Take
<1>4. PICK f : Folding(<<"sum", 0>>, 0, seq, DOMAIN seq, f)
  BY <1>2, FoldingExists
<1>5. f = Rule(f)
  BY <1>3, <1>4
<1>6. E = Rule(E)
  BY <1>5
<1> HIDE DEF E, Rule
<1>7. Folding(<<"sum", 0>>, 0, seq, DOMAIN seq, E)
  BY <1>3, <1>6
<1>8. E[1 .. Len(seq)] = r[Len(seq)]
  BY <1>2, <1>7, FoldingRuns
<1> QED
  BY <1>1, <1>2, <1>8

LEMMA KeepIsRun ==
    ASSUME NEW S, NEW ranges, NEW seq \in Seq(S), seq = Sorted(ranges),
           NEW r, Run(<<"keep", 0>>, << >>, seq, Len(seq), r)
    PROVE  MergeRanges(ranges) = r[Len(seq)]
<1> DEFINE Rule(f) == [s \in SUBSET DOMAIN seq |->
                         IF s = {} THEN << >> ELSE Keep(f[s \ {Max(s)}], seq[Max(s)])]
           E == CHOOSE f : f = Rule(f)
<1>1. MergeRanges(ranges) = E[DOMAIN seq]
  BY DEF MergeRanges, Keep, FoldLeft, MapThenFoldSet
<1>2. Len(seq) \in Nat /\ DOMAIN seq = 1 .. Len(seq)
  BY LenProperties
<1>3. \A f : Folding(<<"keep", 0>>, << >>, seq, DOMAIN seq, f) <=> f = Rule(f)
  BY DEF Folding, Take
<1>4. PICK f : Folding(<<"keep", 0>>, << >>, seq, DOMAIN seq, f)
  BY <1>2, FoldingExists
<1>5. f = Rule(f)
  BY <1>3, <1>4
<1>6. E = Rule(E)
  BY <1>5
<1> HIDE DEF E, Rule
<1>7. Folding(<<"keep", 0>>, << >>, seq, DOMAIN seq, E)
  BY <1>3, <1>6
<1>8. E[1 .. Len(seq)] = r[Len(seq)]
  BY <1>2, <1>7, FoldingRuns
<1> QED
  BY <1>1, <1>2, <1>8

LEMMA DigitsAreRun ==
    ASSUME NEW max, NEW S, NEW text \in Seq(S), text # << >>, NoDigit \notin Range(text),
           NEW r, Run(<<"digits", max>>, 0, text, Len(text), r)
    PROVE  ReadNumber(text, max) = r[Len(text)]
<1> DEFINE Rule(f) == [s \in SUBSET DOMAIN text |->
                         IF s = {} THEN 0 ELSE ReadDigit(max, f[s \ {Max(s)}], text[Max(s)])]
           E == CHOOSE f : f = Rule(f)
<1>1. ReadNumber(text, max) = E[DOMAIN text]
  BY DEF ReadNumber, ReadDigit, FoldLeft, MapThenFoldSet
<1>2. Len(text) \in Nat /\ DOMAIN text = 1 .. Len(text)
  BY LenProperties
<1>3. \A f : Folding(<<"digits", max>>, 0, text, DOMAIN text, f) <=> f = Rule(f)
  BY DEF Folding, Take
<1>4. PICK f : Folding(<<"digits", max>>, 0, text, DOMAIN text, f)
  BY <1>2, FoldingExists
<1>5. f = Rule(f)
  BY <1>3, <1>4
<1>6. E = Rule(E)
  BY <1>5
<1> HIDE DEF E, Rule
<1>7. Folding(<<"digits", max>>, 0, text, DOMAIN text, E)
  BY <1>3, <1>6
<1>8. E[1 .. Len(text)] = r[Len(text)]
  BY <1>2, <1>7, FoldingRuns
<1> QED
  BY <1>1, <1>2, <1>8

-----------------------------------------------------------------------------
(* Digits.                                                                 *)

Digit == 0 .. 9

LEMMA AllDigits ==
    ASSUME NEW text \in Numerals, NoDigit \notin Range(text)
    PROVE  /\ Len(text) \in Nat /\ DOMAIN text = 1 .. Len(text)
           /\ \A k \in 1 .. Len(text) : text[k] \in Digit
<1>1. Len(text) \in Nat /\ DOMAIN text = 1 .. Len(text)
  BY LenProperties DEF Numerals
<1>2. ASSUME NEW k \in 1 .. Len(text) PROVE text[k] \in Digit
  <2>1. text[k] \in 0 .. NoDigit
    BY <1>1, ElementOfSeq DEF Numerals
  <2>2. text[k] # NoDigit
    BY <1>1 DEF Range
  <2> QED
    BY <2>1, <2>2 DEF NoDigit, Digit
<1> QED
  BY <1>1, <1>2

(* The values of the first digits of a numeral.                            *)
LEMMA ValuesRun ==
    ASSUME NEW n \in Nat, NEW text, \A k \in 1 .. n : text[k] \in Digit,
           NEW v, Run(<<"value", 0>>, 0, text, n, v)
    PROVE  /\ v[0] = 0 /\ \A k \in 0 .. n : v[k] \in Nat
           /\ \A k \in 0 .. n - 1 : v[k + 1] = v[k] * 10 + text[k + 1]
<1> DEFINE S == {k \in 0 .. n : v[k] \in Nat}
<1>1. v[0] = 0 /\ \A k \in 1 .. n : v[k] = v[k - 1] * 10 + text[k]
  BY DEF Run, Take
<1>2. ASSUME NEW k \in 0 .. n - 1 PROVE v[k + 1] = v[k] * 10 + text[k + 1]
  <2>1. k + 1 \in 1 .. n /\ (k + 1) - 1 = k
    OBVIOUS
  <2>2. v[k + 1] = v[(k + 1) - 1] * 10 + text[k + 1]
    BY <1>1, <2>1
  <2> QED
    BY <2>1, <2>2
<1>3. 0 \in S
  BY <1>1
<1>4. ASSUME NEW k \in S, k < n PROVE k + 1 \in S
  <2>1. k \in 0 .. n - 1 /\ k + 1 \in 1 .. n /\ k + 1 \in 0 .. n /\ v[k] \in Nat
    BY <1>4
  <2>2. v[k + 1] = v[k] * 10 + text[k + 1] /\ text[k + 1] \in Nat
    BY <1>2, <2>1 DEF Digit
  <2> QED
    BY <2>1, <2>2
<1>5. S = 0 .. n
  <2> HIDE DEF S
  <2>1. S \in SUBSET (0 .. n)
    BY DEF S
  <2> QED
    BY <1>3, <1>4, <2>1, Climb
<1> QED
  BY <1>1, <1>2, <1>5

(* A digit more keeps what is too large too large, and an integer with     *)
(* room for it does not wrap around.                                       *)
LEMMA NextDigit ==
    ASSUME NEW max \in Nat, max * 10 + 9 < UIntMod, UIntMod \in Nat \ {0},
           NEW value \in Nat, NEW c \in Digit, NEW read,
           read = IF value <= max THEN value ELSE -1
    PROVE  ReadDigit(max, read, c)
               = IF value * 10 + c <= max THEN value * 10 + c ELSE -1
<1>1. CASE value <= max
  <2> DEFINE next == value * 10 + c
  <2>1. next \in Nat /\ next < UIntMod
    BY <1>1 DEF Digit
  <2> HIDE DEF next
  <2>2. next % UIntMod = next
    BY <2>1
  <2>3. read = value /\ read # -1
    BY <1>1
  <2>4. ReadDigit(max, read, c) = IF next > max THEN -1 ELSE next
    BY <2>2, <2>3 DEF ReadDigit, next
  <2> QED
    BY <2>1, <2>4 DEF next
<1>2. CASE value > max
  <2>1. value * 10 + c > max /\ read = -1
    BY <1>2 DEF Digit
  <2> QED
    BY <2>1 DEF ReadDigit, Digit
<1> QED
  BY <1>1, <1>2

LEMMA ReadNumberExact ==
    ASSUME NEW text \in Numerals, NEW max \in Nat, max * 10 + 9 < UIntMod
    PROVE  ReadNumber(text, max)
               = IF text # << >> /\ NoDigit \notin Range(text) /\ Value(text) <= max
                 THEN Value(text) ELSE -1
<1>1. CASE text = << >> \/ NoDigit \in Range(text)
  BY <1>1 DEF ReadNumber
<1>2. CASE text # << >> /\ NoDigit \notin Range(text)
  <2> DEFINE n == Len(text)
  <2>1. n \in Nat /\ \A k \in 1 .. n : text[k] \in Digit
    BY <1>2, AllDigits
  <2>2. PICK v : Run(<<"value", 0>>, 0, text, n, v)
    BY <2>1, RunExists
  <2>3. PICK r : Run(<<"digits", max>>, 0, text, n, r)
    BY <2>1, RunExists
  <2>4. Value(text) = v[n]
    BY <2>2, ValueIsRun DEF Numerals
  <2>5. ReadNumber(text, max) = r[n]
    BY <1>2, <2>3, DigitsAreRun DEF Numerals
  <2> HIDE DEF n
  <2>6. /\ v[0] = 0 /\ \A k \in 0 .. n : v[k] \in Nat
        /\ \A k \in 0 .. n - 1 : v[k + 1] = v[k] * 10 + text[k + 1]
    BY <2>1, <2>2, ValuesRun
  <2>7. r[0] = 0 /\ \A k \in 1 .. n : r[k] = ReadDigit(max, r[k - 1], text[k])
    BY <2>3 DEF Run, Take
  <2> DEFINE S == {k \in 0 .. n : r[k] = IF v[k] <= max THEN v[k] ELSE -1}
  <2>8. 0 \in S
    BY <2>1, <2>6, <2>7
  <2>9. ASSUME NEW k \in S, k < n PROVE k + 1 \in S
    <3>1. k \in 0 .. n - 1 /\ k + 1 \in 1 .. n /\ k + 1 \in 0 .. n /\ (k + 1) - 1 = k
      BY <2>1, <2>9
    <3>2. r[k + 1] = ReadDigit(max, r[k], text[k + 1]) /\ text[k + 1] \in Digit
      <4>1. r[k + 1] = ReadDigit(max, r[(k + 1) - 1], text[k + 1])
        BY <2>7, <3>1
      <4> QED
        BY <2>1, <3>1, <4>1
    <3>3. v[k] \in Nat /\ r[k] = (IF v[k] <= max THEN v[k] ELSE -1)
          /\ v[k + 1] = v[k] * 10 + text[k + 1]
      BY <2>6, <2>9, <3>1
    <3>4. UIntMod \in Nat \ {0}
      BY RangesAssumption
    <3>5. ReadDigit(max, r[k], text[k + 1])
              = IF v[k] * 10 + text[k + 1] <= max THEN v[k] * 10 + text[k + 1] ELSE -1
      BY <3>2, <3>3, <3>4, NextDigit
    <3>6. r[k + 1] = IF v[k + 1] <= max THEN v[k + 1] ELSE -1
      BY <3>2, <3>3, <3>5, Zenon
    <3> QED
      BY <3>1, <3>6
  <2>10. S = 0 .. n
    <3> HIDE DEF S
    <3>1. S \in SUBSET (0 .. n)
      BY DEF S
    <3> QED
      BY <2>1, <2>8, <2>9, <3>1, Climb
  <2>11. n \in S
    BY <2>1, <2>10
  <2> QED
    BY <1>2, <2>4, <2>5, <2>11
<1> QED
  BY <1>1, <1>2

-----------------------------------------------------------------------------
(* Powers.                                                                 *)

LEMMA PowerStep ==
    ASSUME NEW x, NEW n \in Nat
    PROVE  Power(x, 0) = 1 /\ Power(x, n + 1) = Power(x, n) * x
<1> DEFINE few  == [i \in 1 .. n |-> x]
           many == [i \in 1 .. n + 1 |-> x]
           none == [i \in 1 .. 0 |-> x]
<1>1. PICK r : Run(<<"power", 0>>, 1, many, n + 1, r)
  <2>1. n + 1 \in Nat
    OBVIOUS
  <2> HIDE DEF many
  <2> QED
    BY <2>1, RunExists
<1>2. PICK z : Run(<<"power", 0>>, 1, none, 0, z)
  <2> HIDE DEF none
  <2> QED
    BY RunExists
<1> DEFINE q == [k \in 0 .. n |-> r[k]]
<1>3. n + 1 \in 1 .. n + 1 /\ (n + 1) - 1 = n /\ \A k \in 1 .. n : k \in 1 .. n + 1 /\ k - 1 \in 0 .. n
  OBVIOUS
<1>4. r[0] = 1 /\ \A k \in 1 .. n + 1 : r[k] = r[k - 1] * x
  BY <1>1 DEF Run, Take
<1>5. Run(<<"power", 0>>, 1, few, n, q)
  <2>1. q[0] = 1 /\ \A k \in 1 .. n : q[k] = q[k - 1] * few[k]
    BY <1>3, <1>4
  <2>2. q = [k \in 0 .. n |-> q[k]]
    OBVIOUS
  <2> HIDE DEF q, few
  <2> QED
    BY <2>1, <2>2 DEF Run, Take
<1>6. Power(x, n + 1) = r[n + 1]
  BY <1>1, PowerIsRun
<1>7. Power(x, n) = q[n] /\ q[n] = r[n]
  <2>1. Power(x, n) = q[n]
    <3> HIDE DEF q
    <3> QED
      BY <1>5, PowerIsRun
  <2> QED
    BY <2>1
<1>8. Power(x, 0) = z[0] /\ z[0] = 1
  <2>1. Power(x, 0) = z[0]
    <3>1. 0 \in Nat
      OBVIOUS
    <3> QED
      BY <1>2, <3>1, PowerIsRun
  <2>2. z[0] = 1
    BY <1>2 DEF Run
  <2> QED
    BY <2>1, <2>2
<1>9. r[n + 1] = r[n] * x
  <2>1. r[n + 1] = r[(n + 1) - 1] * x
    BY <1>3, <1>4
  <2> QED
    BY <1>3, <2>1
<1> QED
  BY <1>6, <1>7, <1>8, <1>9

LEMMA PowerPositive ==
    ASSUME NEW x \in Nat \ {0}, NEW n \in Nat
    PROVE  Power(x, n) \in Nat \ {0}
<1> DEFINE S == {k \in 0 .. n : Power(x, k) \in Nat \ {0}}
<1>1. 0 \in S
  BY PowerStep
<1>2. ASSUME NEW k \in S, k < n PROVE k + 1 \in S
  <2>1. k \in Nat /\ k + 1 \in 0 .. n /\ Power(x, k) \in Nat \ {0}
    BY <1>2
  <2>2. Power(x, k + 1) = Power(x, k) * x
    BY <2>1, PowerStep
  <2>3. \A a, b \in Nat \ {0} : a * b \in Nat \ {0}
    OBVIOUS
  <2> QED
    BY <2>1, <2>2, <2>3
<1>3. S = 0 .. n
  <2> HIDE DEF S
  <2>1. S \in SUBSET (0 .. n)
    BY DEF S
  <2> QED
    BY <1>1, <1>2, <2>1, Climb
<1>4. n \in S
  BY <1>3
<1> QED
  BY <1>4

-----------------------------------------------------------------------------
(* Moments.                                                                *)

Moments == [seconds : Int, nanos : Int]

(* The loop of normalize_timestamp as an equation.                         *)
Normalizing(f) ==
    f = [t \in [seconds : Int, nanos : Int] |->
            IF t.nanos >= NanosPerSecond THEN f[Timestamp(t.seconds + 1, t.nanos - NanosPerSecond)]
            ELSE IF t.nanos < 0 THEN f[Timestamp(t.seconds - 1, t.nanos + NanosPerSecond)]
            ELSE t]

LEMMA SecondPositive == NanosPerSecond \in Nat \ {0}
  BY RangesAssumption, PowerPositive DEF NanosPerSecond

(* Whole seconds among the nanoseconds, in one step.                       *)
LEMMA NormalizingExists == \E f : Normalizing(f)
<1> DEFINE N == NanosPerSecond
           f == [t \in Moments |-> Timestamp(t.seconds + t.nanos \div N, t.nanos % N)]
<1>1. N \in Nat \ {0}
  BY SecondPositive
<1> HIDE DEF N
<1>2. \A n \in Int : /\ n \div N \in Int /\ n % N \in Int
                     /\ n \in 0 .. N - 1 => n \div N = 0 /\ n % N = n
                     /\ (n - N) \div N = n \div N - 1 /\ (n - N) % N = n % N
                     /\ (n + N) \div N = n \div N + 1 /\ (n + N) % N = n % N
  BY <1>1, SMTT(30)
<1>3. \A s, n \in Int : Timestamp(s, n) \in Moments /\ Timestamp(s, n).seconds = s /\ Timestamp(s, n).nanos = n
  BY DEF Timestamp, Moments
<1>4. \A t \in Moments : t.seconds \in Int /\ t.nanos \in Int /\ t = Timestamp(t.seconds, t.nanos)
  BY DEF Timestamp, Moments
<1>5. \A s, n \in Int : f[Timestamp(s, n)] = Timestamp(s + n \div N, n % N)
  BY <1>3
<1>6. f = [t \in Moments |-> f[t]]
  OBVIOUS
<1> HIDE DEF f
<1>7. ASSUME NEW t \in Moments
      PROVE  f[t] = IF t.nanos >= N THEN f[Timestamp(t.seconds + 1, t.nanos - N)]
                    ELSE IF t.nanos < 0 THEN f[Timestamp(t.seconds - 1, t.nanos + N)]
                    ELSE t
  <2> DEFINE s == t.seconds
             n == t.nanos
  <2>1. s \in Int /\ n \in Int /\ t = Timestamp(s, n) /\ f[t] = Timestamp(s + n \div N, n % N)
    BY <1>4, <1>5
  <2> HIDE DEF s, n
  <2>2. CASE n >= N
    <3>1. f[Timestamp(s + 1, n - N)] = Timestamp((s + 1) + (n - N) \div N, (n - N) % N)
      <4>1. s + 1 \in Int /\ n - N \in Int
        BY <1>1, <2>1
      <4> QED
        BY <1>5, <4>1, Zenon
    <3>2. (s + 1) + (n - N) \div N = s + n \div N /\ (n - N) % N = n % N
      BY <1>2, <2>1
    <3> QED
      BY <2>1, <2>2, <3>1, <3>2 DEF s, n
  <2>3. CASE n < 0
    <3>1. f[Timestamp(s - 1, n + N)] = Timestamp((s - 1) + (n + N) \div N, (n + N) % N)
      <4>1. s - 1 \in Int /\ n + N \in Int
        BY <1>1, <2>1
      <4> QED
        BY <1>5, <4>1, Zenon
    <3>2. (s - 1) + (n + N) \div N = s + n \div N /\ (n + N) % N = n % N
      BY <1>2, <2>1
    <3>3. ~(n >= N)
      BY <1>1, <2>1, <2>3
    <3> QED
      BY <2>1, <2>3, <3>1, <3>2, <3>3 DEF s, n
  <2>4. CASE ~(n >= N) /\ ~(n < 0)
    <3>1. s + n \div N = s /\ n % N = n
      <4>1. n \in 0 .. N - 1
        BY <1>1, <2>1, <2>4
      <4>2. n \div N = 0 /\ n % N = n
        BY <1>2, <2>1, <4>1
      <4> QED
        BY <2>1, <4>2
    <3> QED
      BY <2>1, <2>4, <3>1 DEF s, n
  <2> QED
    BY <2>2, <2>3, <2>4
<1>8. Normalizing(f)
  BY <1>6, <1>7 DEF Normalizing, Moments, N
<1> QED
  BY <1>8

(* What the loop ends with is reached from further and further away.       *)
LEMMA NormalizingExact ==
    ASSUME NEW f, Normalizing(f), NEW t \in Moments
    PROVE  /\ f[t].nanos \in 0 .. NanosPerSecond - 1
           /\ f[t].seconds * NanosPerSecond + f[t].nanos
                  = t.seconds * NanosPerSecond + t.nanos
<1> DEFINE N == NanosPerSecond
           Exact(a, b) == /\ b \in Moments /\ b.nanos \in 0 .. N - 1
                          /\ b.seconds * N + b.nanos = a.seconds * N + a.nanos
           m == IF t.nanos >= 0 THEN t.nanos ELSE -t.nanos
           S == {k \in 0 .. m : \A a \in Moments :
                    a.nanos \in -k .. N - 1 + k => Exact(a, f[a])}
<1>1. N \in Nat \ {0}
  BY SecondPositive
<1>2. \A a \in Moments :
         f[a] = IF a.nanos >= N THEN f[Timestamp(a.seconds + 1, a.nanos - N)]
                ELSE IF a.nanos < 0 THEN f[Timestamp(a.seconds - 1, a.nanos + N)]
                ELSE a
  BY DEF Normalizing, Moments, N
<1>3. \A s, n \in Int : Timestamp(s, n) \in Moments /\ Timestamp(s, n).seconds = s /\ Timestamp(s, n).nanos = n
  BY DEF Timestamp, Moments
<1>4. \A a \in Moments : a.seconds \in Int /\ a.nanos \in Int
  BY DEF Moments
<1>5. m \in Nat /\ t.nanos \in -m .. N - 1 + m
  BY <1>1, <1>4
<1> HIDE DEF N, m
<1>6. \A a \in Moments : a.nanos \in 0 .. N - 1 => Exact(a, f[a])
  <2> SUFFICES ASSUME NEW a \in Moments, a.nanos \in 0 .. N - 1 PROVE Exact(a, f[a])
    OBVIOUS
  <2>1. ~(a.nanos >= N) /\ ~(a.nanos < 0)
    BY <1>1
  <2>2. f[a] = a
    BY <1>2, <2>1
  <2> QED
    BY <2>2
<1>7. 0 \in S
  <2>1. \A a \in Moments : a.nanos \in -0 .. N - 1 + 0 => a.nanos \in 0 .. N - 1
    BY <1>1, <1>4
  <2> HIDE DEF Exact
  <2> QED
    BY <1>5, <1>6, <2>1
<1>8. ASSUME NEW k \in S, k < m PROVE k + 1 \in S
  <2>1. k \in Nat /\ k + 1 \in 0 .. m /\ \A a \in Moments : a.nanos \in -k .. N - 1 + k => Exact(a, f[a])
    BY <1>5, <1>8
  <2>2. ASSUME NEW a \in Moments, a.nanos \in -(k + 1) .. N - 1 + (k + 1) PROVE Exact(a, f[a])
    <3> DEFINE up   == Timestamp(a.seconds + 1, a.nanos - N)
               down == Timestamp(a.seconds - 1, a.nanos + N)
    <3>1. a.seconds \in Int /\ a.nanos \in Int
      BY <1>4
    <3>2. /\ up \in Moments /\ up.seconds = a.seconds + 1 /\ up.nanos = a.nanos - N
          /\ down \in Moments /\ down.seconds = a.seconds - 1 /\ down.nanos = a.nanos + N
      BY <1>1, <1>3, <3>1
    <3>3. \A s \in Int : (s + 1) * N = s * N + N /\ (s - 1) * N = s * N - N /\ s * N \in Int
      BY <1>1
    <3>4. CASE a.nanos >= N
      <4>1. f[a] = f[up]
        BY <1>2, <3>4
      <4>2. up.nanos \in -k .. N - 1 + k
        BY <1>1, <2>1, <2>2, <3>1, <3>2, <3>4
      <4>3. Exact(up, f[up])
        BY <2>1, <3>2, <4>2
      <4>4. up.seconds * N + up.nanos = a.seconds * N + a.nanos
        BY <1>1, <3>1, <3>2, <3>3
      <4> HIDE DEF up, down
      <4> QED
        BY <4>1, <4>3, <4>4
    <3>5. CASE a.nanos < 0
      <4>1. f[a] = f[down]
        BY <1>1, <1>2, <3>1, <3>5
      <4>2. down.nanos \in -k .. N - 1 + k
        BY <1>1, <2>1, <2>2, <3>1, <3>2, <3>5
      <4>3. Exact(down, f[down])
        BY <2>1, <3>2, <4>2
      <4>4. down.seconds * N + down.nanos = a.seconds * N + a.nanos
        BY <1>1, <3>1, <3>2, <3>3
      <4> HIDE DEF up, down
      <4> QED
        BY <4>1, <4>3, <4>4
    <3>6. CASE ~(a.nanos >= N) /\ ~(a.nanos < 0)
      BY <1>1, <1>6, <3>1, <3>6
    <3> QED
      BY <3>4, <3>5, <3>6
  <2> HIDE DEF Exact
  <2> QED
    BY <2>1, <2>2
<1>9. S = 0 .. m
  <2> HIDE DEF S
  <2>1. S \in SUBSET (0 .. m)
    BY DEF S
  <2> QED
    BY <1>5, <1>7, <1>8, <2>1, Climb
<1>10. Exact(t, f[t])
  <2>1. m \in S
    BY <1>5, <1>9
  <2> HIDE DEF Exact
  <2> QED
    BY <1>5, <2>1
<1> QED
  BY <1>10 DEF N

LEMMA NormalizeExact ==
    ASSUME NEW seconds \in Int, NEW nanos \in Int
    PROVE  LET t == NormalizeTimestamp(seconds, nanos)
           IN  /\ t.nanos \in 0 .. NanosPerSecond - 1
               /\ t.seconds * NanosPerSecond + t.nanos = seconds * NanosPerSecond + nanos
<1> DEFINE E == CHOOSE f : Normalizing(f)
           t == Timestamp(seconds, nanos)
<1>1. Normalizing(E)
  BY NormalizingExists
<1>2. NormalizeTimestamp(seconds, nanos) = E[t]
  BY DEF NormalizeTimestamp, Normalizing
<1>3. t \in Moments /\ t.seconds = seconds /\ t.nanos = nanos
  BY DEF Moments, Timestamp
<1> HIDE DEF E, t
<1> QED
  BY <1>1, <1>2, <1>3, NormalizingExact

-----------------------------------------------------------------------------
(* Decimals.                                                               *)

LEMMA PowerSum ==
    ASSUME NEW x \in Nat \ {0}, NEW m \in Nat, NEW n \in Nat
    PROVE  Power(x, m + n) = Power(x, m) * Power(x, n)
<1> DEFINE S == {k \in 0 .. n : Power(x, m + k) = Power(x, m) * Power(x, k)}
<1>1. \A k \in Nat : Power(x, k) \in Nat
  BY PowerPositive
<1>2. 0 \in S
  <2>1. m + 0 = m /\ Power(x, 0) = 1 /\ Power(x, m) * 1 = Power(x, m)
    BY <1>1, PowerStep
  <2> QED
    BY <2>1
<1>3. ASSUME NEW k \in S, k < n PROVE k + 1 \in S
  <2>1. /\ k \in Nat /\ k + 1 \in 0 .. n /\ m + k \in Nat /\ m + (k + 1) = (m + k) + 1
        /\ Power(x, m + k) = Power(x, m) * Power(x, k)
    BY <1>3
  <2>2. Power(x, (m + k) + 1) = Power(x, m + k) * x /\ Power(x, k + 1) = Power(x, k) * x
    BY <2>1, PowerStep
  <2>3. \A a, b, c \in Nat : (a * b) * c = a * (b * c)
    OBVIOUS
  <2>4. Power(x, m) \in Nat /\ Power(x, k) \in Nat /\ x \in Nat
    BY <1>1, <2>1
  <2>5. (Power(x, m) * Power(x, k)) * x = Power(x, m) * (Power(x, k) * x)
    <3> DEFINE a == Power(x, m)
               b == Power(x, k)
    <3> HIDE DEF a, b
    <3>1. a \in Nat /\ b \in Nat /\ x \in Nat
      BY <2>4 DEF a, b
    <3>2. (a * b) * x = a * (b * x)
      BY <2>3, <3>1
    <3> QED
      BY <3>2 DEF a, b
  <2>6. Power(x, m + (k + 1)) = Power(x, m) * Power(x, k + 1)
    BY <2>1, <2>2, <2>5, Zenon
  <2> QED
    BY <2>1, <2>6
<1>4. S = 0 .. n
  <2> HIDE DEF S
  <2>1. S \in SUBSET (0 .. n)
    BY DEF S
  <2> QED
    BY <1>2, <1>3, <2>1, Climb
<1>5. n \in S
  BY <1>4
<1> QED
  BY <1>5

(* Behind the first digits a value lies between theirs and the next one,   *)
(* and if only zeros follow it is theirs.                                  *)
LEMMA LeadingDigits ==
    ASSUME NEW n \in Nat, NEW text, \A k \in 1 .. n : text[k] \in Digit,
           NEW v, Run(<<"value", 0>>, 0, text, n, v), NEW k \in 0 .. n, NEW j \in k .. n
    PROVE  /\ v[k] * Power(10, j - k) <= v[j]
           /\ v[j] < (v[k] + 1) * Power(10, j - k)
           /\ (\A i \in k + 1 .. n : text[i] = 0) => v[j] = v[k] * Power(10, j - k)
<1> DEFINE Between(i) == /\ v[k] * Power(10, i) <= v[k + i]
                         /\ v[k + i] < (v[k] + 1) * Power(10, i)
                         /\ (\A q \in k + 1 .. n : text[q] = 0) => v[k + i] = v[k] * Power(10, i)
           S == {i \in 0 .. n - k : Between(i)}
<1>1. /\ \A q \in 0 .. n : v[q] \in Nat
      /\ \A q \in 0 .. n - 1 : v[q + 1] = v[q] * 10 + text[q + 1]
  BY ValuesRun
<1>2. n - k \in Nat /\ v[k] \in Nat
  BY <1>1
<1>3. 0 \in S
  <2>1. Power(10, 0) = 1 /\ k + 0 = k /\ v[k] * 1 = v[k] /\ v[k] < (v[k] + 1) * 1
    BY <1>2, PowerStep
  <2> QED
    BY <1>2, <2>1
<1>4. ASSUME NEW i \in S, i < n - k PROVE i + 1 \in S
  <2> DEFINE a == v[k]
             p == Power(10, i)
             b == v[k + i]
             c == text[k + (i + 1)]
  <2>1. i \in Nat /\ i + 1 \in 0 .. n - k /\ k + i \in 0 .. n - 1 /\ k + i \in 0 .. n
        /\ (k + i) + 1 = k + (i + 1) /\ k + (i + 1) \in 1 .. n /\ k + (i + 1) \in k + 1 .. n /\ Between(i)
    BY <1>4
  <2>2. Power(10, i + 1) = p * 10 /\ p \in Nat
    <3>1. i \in Nat /\ 10 \in Nat \ {0}
      BY <2>1
    <3> QED
      BY <3>1, PowerStep, PowerPositive
  <2>3. v[k + (i + 1)] = b * 10 + c /\ b \in Nat /\ c \in Digit /\ a \in Nat
    <3>1. v[(k + i) + 1] = v[k + i] * 10 + text[(k + i) + 1]
      BY <1>1, <2>1
    <3> QED
      BY <1>1, <1>2, <2>1, <3>1
  <2>4. a * p <= b /\ b < (a + 1) * p /\ ((\A q \in k + 1 .. n : text[q] = 0) => b = a * p)
    BY <2>1
  <2>5. (\A q \in k + 1 .. n : text[q] = 0) => c = 0
    BY <2>1
  <2>6. a * (p * 10) = (a * p) * 10 /\ (a + 1) * (p * 10) = ((a + 1) * p) * 10
        /\ a * p \in Nat /\ (a + 1) * p \in Nat
    BY <2>2, <2>3
  <2> HIDE DEF a, p, b, c
  <2>7. a * (p * 10) <= b * 10 + c /\ b * 10 + c < (a + 1) * (p * 10)
    <3> DEFINE x == a * p
               y == (a + 1) * p
    <3>1. x \in Nat /\ y \in Nat /\ x <= b /\ b < y /\ a * (p * 10) = x * 10 /\ (a + 1) * (p * 10) = y * 10
      BY <2>4, <2>6
    <3> HIDE DEF x, y
    <3> QED
      BY <2>3, <3>1 DEF Digit
  <2>8. (\A q \in k + 1 .. n : text[q] = 0) => b * 10 + c = a * (p * 10)
    <3> SUFFICES ASSUME \A q \in k + 1 .. n : text[q] = 0 PROVE b * 10 + c = a * (p * 10)
      OBVIOUS
    <3>1. b = a * p /\ c = 0
      BY <2>4, <2>5
    <3> QED
      BY <2>3, <2>6, <3>1
  <2>9. Between(i + 1)
    BY <2>2, <2>3, <2>7, <2>8 DEF a
  <2> HIDE DEF Between
  <2> QED
    BY <2>1, <2>9
<1>5. S = 0 .. n - k
  <2> HIDE DEF S
  <2>1. S \in SUBSET (0 .. n - k)
    BY DEF S
  <2> QED
    BY <1>2, <1>3, <1>4, <2>1, Climb
<1>6. j - k \in S /\ k + (j - k) = j
  BY <1>5
<1> QED
  BY <1>6

Values(n, text, v) ==
    n \in Nat /\ (\A k \in 1 .. n : text[k] \in Digit) /\ Run(<<"value", 0>>, 0, text, n, v)

ZerosBehind(n, text, k) == \A i \in k + 1 .. n : text[i] = 0

Within(k, j, n) == k \in 0 .. n /\ j \in k .. n

LEMMA Padded ==
    ASSUME NEW n, NEW text, NEW v, Values(n, text, v),
           NEW k, NEW j, Within(k, j, n), ZerosBehind(n, text, k)
    PROVE  v[j] = v[k] * Power(10, j - k)
  BY LeadingDigits DEF Values, ZerosBehind, Within

LEMMA Cut ==
    ASSUME NEW n, NEW text, NEW v, Values(n, text, v), NEW k, NEW j, Within(k, j, n)
    PROVE  v[k] * Power(10, j - k) <= v[j] /\ v[j] < (v[k] + 1) * Power(10, j - k)
  BY LeadingDigits DEF Values, Within

(* The value of the first digits is on the way to that of all.             *)
LEMMA ValueOfFirst ==
    ASSUME NEW n \in Nat, NEW text, NEW v, Run(<<"value", 0>>, 0, text, n, v),
           NEW first \in Numerals, NEW m, m = Len(first), m <= n,
           \A k \in 1 .. m : first[k] = text[k]
    PROVE  Value(first) = v[m]
<1> DEFINE q == [k \in 0 .. m |-> v[k]]
<1>1. m \in Nat /\ m <= n
  BY LenProperties DEF Numerals
<1>2. v[0] = 0 /\ \A k \in 1 .. n : v[k] = v[k - 1] * 10 + text[k]
  BY DEF Run, Take
<1>3. \A k \in 1 .. m : first[k] = text[k]
  OBVIOUS
<1>4. \A k \in 1 .. m : k \in 1 .. n /\ k \in 0 .. m /\ k - 1 \in 0 .. m
  BY <1>1
<1>5. q[0] = 0 /\ \A k \in 1 .. m : q[k] = q[k - 1] * 10 + first[k]
  BY <1>1, <1>2, <1>3, <1>4
<1>6. q = [k \in 0 .. m |-> q[k]] /\ q[m] = v[m]
  BY <1>1
<1> HIDE DEF q
<1>7. Run(<<"value", 0>>, 0, first, m, q)
  BY <1>5, <1>6 DEF Run, Take
<1> QED
  BY <1>6, <1>7, ValueIsRun DEF Numerals

LEMMA ValueNat ==
    ASSUME NEW digits \in Numerals, NoDigit \notin Range(digits)
    PROVE  Value(digits) \in Nat
<1>1. Len(digits) \in Nat /\ \A k \in 1 .. Len(digits) : digits[k] \in Digit
  BY AllDigits
<1>2. PICK v : Run(<<"value", 0>>, 0, digits, Len(digits), v)
  BY <1>1, RunExists
<1>3. v[Len(digits)] \in Nat
  BY <1>1, <1>2, ValuesRun
<1> QED
  BY <1>2, <1>3, ValueIsRun DEF Numerals

LEMMA LenOfFunction ==
    ASSUME NEW S, NEW n \in Nat, NEW f \in [1 .. n -> S]
    PROVE  f \in Seq(S) /\ Len(f) = n
<1>1. f \in Seq(S)
  BY SeqDef
<1>2. Len(f) \in Nat /\ 1 .. Len(f) = 1 .. n
  BY <1>1, LenProperties
<1>3. \A m \in Nat : 1 .. m = 1 .. n => m = n
  <2> SUFFICES ASSUME NEW m \in Nat, 1 .. m = 1 .. n, m # n PROVE FALSE
    OBVIOUS
  <2>1. m < n \/ n < m
    OBVIOUS
  <2>2. (m < n => n \in 1 .. n /\ n \notin 1 .. m) /\ (n < m => m \in 1 .. m /\ m \notin 1 .. n)
    OBVIOUS
  <2> QED
    BY <2>1, <2>2
<1> QED
  BY <1>1, <1>2, <1>3

(* The digits of a fraction that is padded or cut.                         *)
LEMMA PaddedDigits ==
    ASSUME NEW fraction \in Numerals, NoDigit \notin Range(fraction), NEW padded,
           padded = SubSeq(fraction \o [i \in 1 .. FracDigits |-> 0], 1, FracDigits)
    PROVE  /\ padded \in Numerals /\ Len(padded) = FracDigits
           /\ \A k \in 1 .. FracDigits :
                  padded[k] = IF k <= Len(fraction) THEN fraction[k] ELSE 0
<1> DEFINE L == Len(fraction)
           D == FracDigits
           zeros == [i \in 1 .. FracDigits |-> 0]
           all == fraction \o zeros
<1>1. L \in Nat /\ D \in Nat
  BY AllDigits, RangesAssumption
<1>2. zeros \in Seq(0 .. NoDigit) /\ Len(zeros) = D /\ \A k \in 1 .. D : zeros[k] = 0
  <2>1. zeros \in [1 .. D -> 0 .. NoDigit] /\ D \in Nat /\ \A k \in 1 .. D : zeros[k] = 0
    BY <1>1 DEF NoDigit
  <2> HIDE DEF zeros
  <2> QED
    BY <2>1, LenOfFunction
<1>3. fraction \in Seq(0 .. NoDigit)
  BY DEF Numerals
<1> HIDE DEF zeros
<1>4. /\ all \in Seq(0 .. NoDigit) /\ Len(all) = L + D
      /\ \A k \in 1 .. L + D : all[k] = IF k <= L THEN fraction[k] ELSE zeros[k - L]
  <2>1. all \in Seq(0 .. NoDigit) /\ Len(all) = Len(fraction) + Len(zeros)
    BY <1>2, <1>3, ConcatProperties
  <2>2. ASSUME NEW k \in 1 .. Len(fraction) + Len(zeros)
        PROVE  all[k] = IF k <= Len(fraction) THEN fraction[k] ELSE zeros[k - Len(fraction)]
    BY <1>1, <1>2, <1>3, <2>2, ConcatProperties
  <2> QED
    BY <1>2, <2>1, <2>2
<1>5. ASSUME NEW k \in 1 .. D
      PROVE  k \in 1 .. L + D /\ all[k] = IF k <= L THEN fraction[k] ELSE 0
  <2>1. k \in 1 .. L + D /\ (k <= L \/ k - L \in 1 .. D)
    BY <1>1
  <2> HIDE DEF all, L, D
  <2> QED
    BY <1>2, <1>4, <2>1
<1>6. ASSUME NEW k \in 1 .. D PROVE all[k] \in 0 .. NoDigit
  <2>1. k \in 1 .. Len(all) /\ all \in Seq(0 .. NoDigit)
    BY <1>1, <1>4, <1>5
  <2> HIDE DEF all
  <2> QED
    BY <2>1, ElementOfSeq
<1>7. padded = SubSeq(all, 1, D)
  BY DEF zeros
<1>8. D \in Int /\ 1 \in Int /\ (1 <= D \/ D = 0) /\ D - 1 + 1 = D /\ \A k \in 1 .. D : 1 + k - 1 = k
  BY <1>1
<1> HIDE DEF all, D, L
<1>9. /\ SubSeq(all, 1, D) \in Seq(0 .. NoDigit)
      /\ Len(SubSeq(all, 1, D)) = IF 1 <= D THEN D - 1 + 1 ELSE 0
      /\ \A k \in 1 .. D - 1 + 1 : SubSeq(all, 1, D)[k] = all[1 + k - 1]
  BY <1>6, <1>8, SubSeqProperties
<1> QED
  BY <1>5, <1>7, <1>8, <1>9 DEF Numerals, D, L

(* The fraction, padded or cut, is the nanosecond that it is in.           *)
LEMMA PaddedExact ==
    ASSUME NEW fraction \in Numerals, NoDigit \notin Range(fraction),
           NEW padded \in Numerals, Len(padded) = FracDigits,
           \A k \in 1 .. FracDigits : padded[k] = IF k <= Len(fraction) THEN fraction[k] ELSE 0
    PROVE  LET unit == Power(10, Len(fraction))
           IN  /\ Value(padded) * unit <= Value(fraction) * NanosPerSecond
               /\ Value(fraction) * NanosPerSecond < (Value(padded) + 1) * unit
<1> DEFINE L == Len(fraction)
           D == FracDigits
           n == L + D
           all == [k \in 1 .. n |-> IF k <= L THEN fraction[k] ELSE 0]
<1>1. L \in Nat /\ D \in Nat /\ n \in Nat /\ L \in 0 .. n /\ D \in 0 .. n /\ L <= n /\ D <= n
      /\ \A k \in 1 .. L : fraction[k] \in Digit
  BY AllDigits, RangesAssumption
<1>2. L = Len(fraction) /\ D = Len(padded)
  OBVIOUS
<1>3. \A k \in 1 .. D : padded[k] = IF k <= L THEN fraction[k] ELSE 0
  OBVIOUS
<1> HIDE DEF L, D
<1>4. /\ \A k \in 1 .. L : fraction[k] = all[k]
      /\ \A k \in 1 .. D : padded[k] = all[k]
      /\ \A k \in L + 1 .. n : all[k] = 0
  <2>1. \A k \in 1 .. L : k \in 1 .. n /\ k <= L
    BY <1>1
  <2>2. \A k \in 1 .. D : k \in 1 .. n
    BY <1>1
  <2>3. \A k \in L + 1 .. n : k \in 1 .. n /\ ~(k <= L)
    BY <1>1
  <2> HIDE DEF n
  <2> QED
    BY <1>3, <2>1, <2>2, <2>3
<1>5. \A k \in 1 .. n : all[k] \in Digit
  <2>1. \A k \in 1 .. n : k <= L => k \in 1 .. L
    BY <1>1
  <2>2. 0 \in Digit
    BY DEF Digit
  <2> HIDE DEF n
  <2> QED
    BY <1>1, <2>1, <2>2
<1> HIDE DEF all, n
<1>7. PICK v : Run(<<"value", 0>>, 0, all, n, v)
  BY <1>1, RunExists
<1>8. Value(fraction) = v[L]
  BY <1>1, <1>2, <1>4, <1>7, ValueOfFirst
<1>9. Value(padded) = v[D]
  BY <1>1, <1>2, <1>4, <1>7, ValueOfFirst
<1>10. v[L] \in Nat /\ v[D] \in Nat /\ Values(n, all, v)
  BY <1>1, <1>5, <1>7, ValuesRun DEF Values
<1> DEFINE p == Power(10, L)
           N == Power(10, D)
<1>11. p \in Nat \ {0} /\ N \in Nat \ {0} /\ \A k \in Nat : Power(10, k) \in Nat \ {0}
  <2>1. \A k \in Nat : Power(10, k) \in Nat \ {0}
    <3>1. 10 \in Nat \ {0}
      OBVIOUS
    <3> QED
      BY <3>1, PowerPositive
  <2> QED
    BY <1>1, <2>1
<1>12. CASE L <= D
  <2>1. D - L \in Nat /\ L + (D - L) = D /\ D \in L .. n /\ L \in 0 .. n
    BY <1>1, <1>12
  <2>2. Power(10, D - L) \in Nat \ {0}
    BY <1>11, <2>1
  <2>3. N = p * Power(10, D - L)
    BY <1>1, <2>1, PowerSum
  <2>4. v[D] = v[L] * Power(10, D - L)
    <3>1. Within(L, D, n) /\ ZerosBehind(n, all, L)
      BY <1>4, <2>1 DEF ZerosBehind, Within
    <3> QED
      BY <1>10, <3>1, Padded
  <2>6. v[D] * p = v[L] * N
    <3> DEFINE a == v[L]
               b == Power(10, D - L)
    <3>1. a \in Nat /\ b \in Nat /\ p \in Nat /\ N = p * b /\ v[D] = a * b
      BY <1>10, <1>11, <2>2, <2>3, <2>4
    <3> HIDE DEF a, b, p, N
    <3>2. (a * b) * p = a * (p * b)
      BY <3>1
    <3> QED
      BY <3>1, <3>2 DEF a
  <2> HIDE DEF p, N
  <2>7. (v[D] + 1) * p = v[D] * p + p /\ v[D] * p \in Nat
    <3>1. \A a, b \in Nat : (a + 1) * b = a * b + b /\ a * b \in Nat
      OBVIOUS
    <3> QED
      BY <1>10, <1>11, <3>1
  <2>8. v[D] * p <= v[L] * N /\ v[L] * N < (v[D] + 1) * p
    <3> DEFINE a == v[D] * p
    <3>1. a \in Nat /\ v[L] * N = a /\ (v[D] + 1) * p = a + p /\ p \in Nat \ {0}
      BY <1>11, <2>6, <2>7
    <3> HIDE DEF a
    <3>2. a <= a /\ a < a + p
      BY <3>1
    <3> QED
      BY <3>1, <3>2 DEF a
  <2> QED
    BY <1>8, <1>9, <2>8 DEF p, N, L, D, NanosPerSecond
<1>13. CASE D < L
  <2>1. L - D \in Nat /\ D + (L - D) = L /\ L \in D .. n /\ D \in 0 .. n
    BY <1>1, <1>13
  <2> DEFINE w == Power(10, L - D)
  <2>2. w \in Nat \ {0}
    BY <1>11, <2>1
  <2>3. p = N * w
    BY <1>1, <2>1, PowerSum
  <2>4. v[D] * w <= v[L] /\ v[L] < (v[D] + 1) * w
    <3>1. Within(D, L, n)
      BY <2>1 DEF Within
    <3> QED
      BY <1>10, <3>1, Cut, Zenon DEF w
  <2> HIDE DEF p, N, w
  <2>6. v[D] * p = (v[D] * w) * N /\ (v[D] + 1) * p = ((v[D] + 1) * w) * N
    <3>1. ASSUME NEW a \in Nat PROVE a * p = (a * w) * N
      <4>1. w \in Nat /\ N \in Nat /\ p = N * w
        BY <1>11, <2>2, <2>3
      <4>2. a * (N * w) = (a * w) * N
        BY <4>1
      <4> QED
        BY <4>1, <4>2
    <3>2. v[D] \in Nat /\ v[D] + 1 \in Nat
      BY <1>10
    <3> QED
      BY <3>1, <3>2
  <2>7. \A a, b, c \in Nat : (a <= b => a * c <= b * c) /\ (a < b /\ c # 0 => a * c < b * c)
    OBVIOUS
  <2>8. v[D] * w \in Nat /\ (v[D] + 1) * w \in Nat
    BY <1>10, <2>2
  <2>9. v[D] * p <= v[L] * N /\ v[L] * N < (v[D] + 1) * p
    BY <1>10, <1>11, <2>4, <2>6, <2>7, <2>8
  <2> QED
    BY <1>8, <1>9, <2>9 DEF p, N, L, D, NanosPerSecond
<1> QED
  BY <1>1, <1>12, <1>13

(* The nanoseconds of a fraction are those it is in.                       *)
LEMMA NanosExact ==
    ASSUME NEW fraction \in Numerals, NoDigit \notin Range(fraction)
    PROVE  LET unit == Power(10, Len(fraction))
           IN  /\ Nanos(fraction) * unit <= Value(fraction) * NanosPerSecond
               /\ Value(fraction) * NanosPerSecond < (Nanos(fraction) + 1) * unit
<1> DEFINE padded == SubSeq(fraction \o [i \in 1 .. FracDigits |-> 0], 1, FracDigits)
<1>1. padded = SubSeq(fraction \o [i \in 1 .. FracDigits |-> 0], 1, FracDigits)
      /\ Nanos(fraction) = Value(padded)
  BY DEF Nanos
<1> HIDE DEF padded
<1>2. /\ padded \in Numerals /\ Len(padded) = FracDigits
      /\ \A k \in 1 .. FracDigits :
             padded[k] = IF k <= Len(fraction) THEN fraction[k] ELSE 0
  BY <1>1, PaddedDigits
<1> QED
  BY <1>1, <1>2, PaddedExact

(* The part of a text from one place to another, place by place.           *)
LEMMA Part ==
    ASSUME NEW S, NEW text \in Seq(S), NEW a \in Int, NEW b \in Int, 1 <= a, b <= Len(text)
    PROVE  /\ SubSeq(text, a, b) \in Seq(S)
           /\ Len(SubSeq(text, a, b)) = IF a <= b THEN b - a + 1 ELSE 0
           /\ DOMAIN SubSeq(text, a, b) = 1 .. b - a + 1
           /\ \A k \in 1 .. b - a + 1 : SubSeq(text, a, b)[k] = text[a + k - 1]
<1>1. Len(text) \in Nat /\ DOMAIN text = 1 .. Len(text)
  BY LenProperties
<1>2. \A i \in a .. b : i \in 1 .. Len(text)
  BY <1>1
<1>3. \A i \in a .. b : text[i] \in S
  BY <1>2, ElementOfSeq
<1>4. /\ SubSeq(text, a, b) \in Seq(S)
      /\ Len(SubSeq(text, a, b)) = IF a <= b THEN b - a + 1 ELSE 0
      /\ \A k \in 1 .. b - a + 1 : SubSeq(text, a, b)[k] = text[a + k - 1]
  BY <1>3, SubSeqProperties
<1>5. DOMAIN SubSeq(text, a, b) = 1 .. Len(SubSeq(text, a, b))
  BY <1>4, LenProperties
<1>6. 1 .. (IF a <= b THEN b - a + 1 ELSE 0) = 1 .. b - a + 1
  OBVIOUS
<1> QED
  BY <1>4, <1>5, <1>6

(* A part of a part.                                                       *)
LEMMA PartOfPart ==
    ASSUME NEW S, NEW text \in Seq(S), NEW first \in Int, NEW last \in Int,
           1 <= first, last <= Len(text), first <= last,
           NEW a \in Int, NEW b \in Int, 1 <= a, b <= last - first + 1
    PROVE  SubSeq(SubSeq(text, first, last), a, b) = SubSeq(text, first + a - 1, first + b - 1)
<1> DEFINE v == SubSeq(text, first, last)
           p == SubSeq(v, a, b)
           q == SubSeq(text, first + a - 1, first + b - 1)
<1>1. /\ v \in Seq(S) /\ Len(v) = last - first + 1
      /\ \A k \in 1 .. last - first + 1 : v[k] = text[first + k - 1]
  BY Part
<1>2. /\ q \in Seq(S) /\ DOMAIN q = 1 .. b - a + 1
      /\ \A k \in 1 .. b - a + 1 : q[k] = text[(first + a - 1) + k - 1]
  <2>1. first + a - 1 \in Int /\ first + b - 1 \in Int /\ 1 <= first + a - 1
        /\ first + b - 1 <= Len(text) /\ (first + b - 1) - (first + a - 1) + 1 = b - a + 1
    BY LenProperties
  <2> QED
    BY <2>1, Part
<1> HIDE DEF v
<1>3. /\ p \in Seq(S) /\ DOMAIN p = 1 .. b - a + 1
      /\ \A k \in 1 .. b - a + 1 : p[k] = v[a + k - 1]
  BY <1>1, Part
<1>4. \A k \in 1 .. b - a + 1 : p[k] = q[k]
  <2> SUFFICES ASSUME NEW k \in 1 .. b - a + 1 PROVE p[k] = q[k]
    OBVIOUS
  <2>1. a + k - 1 \in 1 .. last - first + 1
    OBVIOUS
  <2>2. v[a + k - 1] = text[first + (a + k - 1) - 1]
    BY <1>1, <2>1
  <2>3. first + (a + k - 1) - 1 = (first + a - 1) + k - 1
    OBVIOUS
  <2> QED
    BY <1>2, <1>3, <2>2, <2>3
<1> HIDE DEF p, q
<1>5. p = q
  BY <1>2, <1>3, <1>4, SeqEqual
<1> QED
  BY <1>5 DEF p, q, v

LEMMA IsLeast ==
    ASSUME NEW S \in SUBSET Int, NEW m \in S, \A k \in S : m <= k
    PROVE  Min(S) = m
<1>1. \A x \in S : (\A y \in S : x <= y) => x = m
  OBVIOUS
<1> QED
  BY <1>1 DEF Min

LEMMA IsGreatest ==
    ASSUME NEW S \in SUBSET Int, NEW m \in S, \A k \in S : k <= m
    PROVE  Max(S) = m
<1>1. \A x \in S : (\A y \in S : x >= y) => x = m
  OBVIOUS
<1>2. \A y \in S : m >= y
  OBVIOUS
<1> QED
  BY <1>1, <1>2 DEF Max

(* What is left of a text when the blanks at its ends are taken away.      *)
LEMMA TrimmedTo ==
    ASSUME NEW text \in Seq(Characters), NEW first \in DOMAIN text, NEW last \in DOMAIN text,
           text[first] # Space, text[last] # Space,
           \A i \in DOMAIN text : i < first \/ i > last => text[i] = Space
    PROVE  Trimmed(text) = SubSeq(text, first, last)
<1> DEFINE shown == {i \in DOMAIN text : text[i] # Space}
<1>1. shown \in SUBSET Int /\ first \in shown /\ last \in shown
  BY LenProperties
<1>2. \A k \in shown : first <= k /\ k <= last
  BY <1>1
<1>3. Trimmed(text) = IF shown = {} THEN << >> ELSE SubSeq(text, Min(shown), Max(shown))
  BY DEF Trimmed
<1> HIDE DEF shown
<1> QED
  BY <1>1, <1>2, <1>3, IsLeast, IsGreatest

(* Where a part of a text is a decimal there are digits, and the other way *)
(* round.                                                                  *)
LEMMA DecimalPart ==
    ASSUME NEW text \in Seq(Characters), NEW a \in Int, NEW b \in Int, 1 <= a, b <= Len(text)
    PROVE  /\ IsDecimal(SubSeq(text, a, b)) <=> a <= b /\ \A i \in a .. b : text[i] \in 0 .. 9
           /\ IsDecimal(SubSeq(text, a, b)) \/ a > b =>
                  /\ SubSeq(text, a, b) \in Numerals
                  /\ NoDigit \notin Range(SubSeq(text, a, b))
<1> DEFINE p == SubSeq(text, a, b)
<1>1. /\ p \in Seq(Characters) /\ DOMAIN p = 1 .. b - a + 1
      /\ Len(p) = IF a <= b THEN b - a + 1 ELSE 0
      /\ \A k \in 1 .. b - a + 1 : p[k] = text[a + k - 1]
  BY Part
<1> HIDE DEF p
<1>2. p # << >> <=> a <= b
  BY <1>1, EmptySeq
<1>3. Range(p) = {p[k] : k \in 1 .. b - a + 1}
  BY <1>1 DEF Range
<1>4. ASSUME Range(p) \subseteq 0 .. 9, NEW i \in a .. b PROVE text[i] \in 0 .. 9
  <2>1. i - a + 1 \in 1 .. b - a + 1 /\ a + (i - a + 1) - 1 = i
    OBVIOUS
  <2>2. p[i - a + 1] = text[i]
    BY <1>1, <2>1
  <2>3. p[i - a + 1] \in Range(p)
    BY <1>3, <2>1
  <2> QED
    BY <1>4, <2>2, <2>3
<1>5. ASSUME \A i \in a .. b : text[i] \in 0 .. 9 PROVE Range(p) \subseteq 0 .. 9
  <2> SUFFICES ASSUME NEW k \in 1 .. b - a + 1 PROVE p[k] \in 0 .. 9
    BY <1>3
  <2>1. a + k - 1 \in a .. b
    OBVIOUS
  <2> QED
    BY <1>1, <1>5, <2>1
<1>6. IsDecimal(p) <=> a <= b /\ \A i \in a .. b : text[i] \in 0 .. 9
  BY <1>2, <1>4, <1>5 DEF IsDecimal
<1>7. ASSUME IsDecimal(p) \/ a > b PROVE p \in Numerals /\ NoDigit \notin Range(p)
  <2>1. Range(p) \subseteq 0 .. 9
    <3>1. a > b => Range(p) = {}
      BY <1>3
    <3> QED
      BY <1>7, <3>1 DEF IsDecimal
  <2>2. \A k \in 1 .. b - a + 1 : p[k] \in 0 .. NoDigit
    <3>1. \A k \in 1 .. b - a + 1 : p[k] \in Range(p)
      BY <1>3
    <3> QED
      BY <2>1, <3>1 DEF NoDigit
  <2>3. 1 .. Len(p) = 1 .. b - a + 1 /\ Len(p) \in Nat
    BY <1>1
  <2>4. p \in Seq(0 .. NoDigit)
    <3>1. p = [k \in 1 .. Len(p) |-> p[k]]
      BY <1>1, <2>3
    <3>2. p \in [1 .. Len(p) -> 0 .. NoDigit]
      BY <2>2, <2>3, <3>1
    <3> QED
      BY <2>3, <3>2, LenOfFunction
  <2>5. NoDigit \notin 0 .. 9
    BY DEF NoDigit
  <2> QED
    BY <2>1, <2>4, <2>5 DEF Numerals
<1> QED
  BY <1>6, <1>7 DEF p

(* How a text is read when it is trimmed and has no point.                 *)
LEMMA ReadWhole ==
    ASSUME NEW text, NEW v, v = Trimmed(text), {i \in DOMAIN v : v[i] = Point} = {}
    PROVE  ParseUnixTimestamp(text) = IF IsDecimal(v) THEN TimeAt(v, 0) ELSE {}
BY DEF ParseUnixTimestamp

(* And how it is read when its first point is known.                       *)
LEMMA ReadPointed ==
    ASSUME NEW text, NEW v, v = Trimmed(text), {i \in DOMAIN v : v[i] = Point} # {},
           NEW q, q = Min({i \in DOMAIN v : v[i] = Point})
    PROVE  ParseUnixTimestamp(text) =
              IF IsDecimal(SubSeq(v, 1, q - 1)) /\ IsDecimal(SubSeq(v, q + 1, Len(v)))
              THEN TimeAt(SubSeq(v, 1, q - 1), Nanos(SubSeq(v, q + 1, Len(v)))) ELSE {}
BY DEF ParseUnixTimestamp

(* A text that is a time is read as the digits at its places.              *)
LEMMA SpelledRead ==
    ASSUME NEW text \in Seq(Characters), NEW p \in Places(text), SpelledAt(text, p)
    PROVE  LET whole    == SubSeq(text, p.first, p.point - 1)
               fraction == SubSeq(text, p.point + 1, p.last)
           IN  /\ IsDecimal(whole) /\ whole \in Numerals /\ NoDigit \notin Range(whole)
               /\ fraction \in Numerals /\ NoDigit \notin Range(fraction)
               /\ ParseUnixTimestamp(text) =
                     TimeAt(whole, IF p.point = p.last + 1 THEN 0 ELSE Nanos(fraction))
<1> DEFINE first == p.first
           point == p.point
           last  == p.last
           whole == SubSeq(text, first, point - 1)
           fraction == SubSeq(text, point + 1, last)
           v == SubSeq(text, first, last)
           n == Len(text)
<1>1. /\ n \in Nat /\ first \in 1 .. n /\ last \in 1 .. n /\ point \in 1 .. n + 1
      /\ DOMAIN text = 1 .. n
  BY LenProperties DEF Places
<1>2. /\ \A i \in DOMAIN text : i < first \/ i > last => text[i] = Space
      /\ first < point
      /\ \A i \in first .. last : i # point => text[i] \in 0 .. 9
      /\ point = last + 1 \/ (point < last /\ text[point] = Point)
  BY DEF SpelledAt
<1> HIDE DEF first, point, last
<1>3. /\ point - 1 \in Int /\ point + 1 \in Int /\ 1 <= point + 1 /\ point - 1 <= n
      /\ 1 <= first /\ last <= n /\ first <= point - 1 /\ first <= last
  BY <1>1, <1>2
<1>4. text[first] \in 0 .. 9 /\ text[last] \in 0 .. 9
  BY <1>1, <1>2
<1>5. Trimmed(text) = v
  <2>1. text[first] # Space /\ text[last] # Space
    BY <1>4 DEF Space
  <2> QED
    BY <1>1, <1>2, <2>1, TrimmedTo
<1>6. \A i \in first .. point - 1 : text[i] \in 0 .. 9
  BY <1>1, <1>2
<1>7. IsDecimal(whole) /\ whole \in Numerals /\ NoDigit \notin Range(whole)
  BY <1>1, <1>3, <1>6, DecimalPart
<1>8. fraction \in Numerals /\ NoDigit \notin Range(fraction)
      /\ (point < last => IsDecimal(fraction))
  <2>1. \A i \in point + 1 .. last : text[i] \in 0 .. 9
    BY <1>1, <1>2
  <2>2. point + 1 > last \/ point + 1 <= last
    BY <1>1
  <2>3. point < last => point + 1 <= last
    BY <1>1
  <2> QED
    BY <1>1, <1>3, <2>1, <2>2, <2>3, DecimalPart
<1>9. /\ v \in Seq(Characters) /\ Len(v) = last - first + 1 /\ DOMAIN v = 1 .. last - first + 1
      /\ \A k \in 1 .. last - first + 1 : v[k] = text[first + k - 1]
  <2>1. first \in Int /\ last \in Int /\ 1 <= first /\ last <= Len(text) /\ first <= last
    BY <1>1, <1>3
  <2> QED
    BY <2>1, Part
<1> DEFINE points == {i \in DOMAIN v : v[i] = Point}
<1>10. CASE point = last + 1
  <2>1. v = whole
    <3>1. last = point - 1
      BY <1>1, <1>10
    <3> QED
      BY <3>1
  <2>2. ASSUME NEW k \in DOMAIN v PROVE v[k] # Point
    <3>1. k \in 1 .. last - first + 1
      BY <1>9
    <3>2. first + k - 1 \in first .. last /\ first + k - 1 # point
      BY <1>1, <1>10, <3>1
    <3>3. v[k] \in 0 .. 9
      BY <1>2, <1>9, <3>1, <3>2
    <3> HIDE DEF v
    <3> QED
      BY <3>3 DEF Point
  <2>3. points = {}
    BY <2>2
  <2> HIDE DEF v
  <2>4. ParseUnixTimestamp(text) = IF IsDecimal(v) THEN TimeAt(v, 0) ELSE {}
    BY <1>5, <2>3, ReadWhole
  <2>5. ParseUnixTimestamp(text) = TimeAt(whole, 0)
    BY <1>7, <2>1, <2>4
  <2> HIDE DEF whole, fraction
  <2>6. IsDecimal(whole) /\ whole \in Numerals /\ NoDigit \notin Range(whole)
               /\ fraction \in Numerals /\ NoDigit \notin Range(fraction)
               /\ ParseUnixTimestamp(text) =
                     TimeAt(whole, IF point = last + 1 THEN 0 ELSE Nanos(fraction))
    BY <1>7, <1>8, <1>10, <2>5
  <2> QED
    BY <2>6 DEF whole, fraction, first, last, point
<1>11. CASE point < last /\ text[point] = Point
  <2> DEFINE q == point - first + 1
  <2>1. /\ q \in 1 .. last - first + 1 /\ first + q - 1 = point /\ q \in Int
        /\ 1 <= q + 1 /\ q - 1 <= last - first + 1 /\ q - 1 \in Int /\ q + 1 \in Int
    BY <1>1, <1>2, <1>11
  <2>2. v[q] = Point
    BY <1>9, <1>11, <2>1
  <2>3. ASSUME NEW k \in DOMAIN v, k # q PROVE v[k] # Point
    <3>1. k \in 1 .. last - first + 1
      BY <1>9
    <3>2. first + k - 1 \in first .. last /\ first + k - 1 # point
      BY <1>1, <2>3, <3>1
    <3>3. v[k] \in 0 .. 9
      BY <1>2, <1>9, <3>1, <3>2
    <3> HIDE DEF v
    <3> QED
      BY <3>3 DEF Point
  <2>4. points = {q}
    BY <1>9, <2>1, <2>2, <2>3
  <2>5. Min(points) = q
    <3>1. {q} \in SUBSET Int /\ q \in {q} /\ \A k \in {q} : q <= k
      BY <2>1
    <3> HIDE DEF q
    <3> QED
      BY <2>4, <3>1, IsLeast
  <2>6. SubSeq(v, 1, q - 1) = whole
    <3>1. SubSeq(v, 1, q - 1) = SubSeq(text, first + 1 - 1, first + (q - 1) - 1)
      BY <1>1, <1>3, <2>1, PartOfPart
    <3>2. first + 1 - 1 = first /\ first + (q - 1) - 1 = point - 1
      BY <1>1
    <3> QED
      BY <3>1, <3>2
  <2>7. SubSeq(v, q + 1, Len(v)) = fraction
    <3> DEFINE m == last - first + 1
    <3>1. m \in Int /\ m <= last - first + 1
      BY <1>1
    <3>2. SubSeq(v, q + 1, m) = SubSeq(text, first + (q + 1) - 1, first + m - 1)
      BY <1>1, <1>3, <2>1, <3>1, PartOfPart
    <3>3. first + (q + 1) - 1 = point + 1 /\ first + m - 1 = last
      BY <1>1
    <3> QED
      BY <1>9, <3>2, <3>3
  <2>8. IsDecimal(fraction)
    BY <1>8, <1>11
  <2> HIDE DEF v, whole, fraction, q
  <2>9. points # {}
    BY <2>4
  <2> HIDE DEF points
  <2>10. ParseUnixTimestamp(text) =
            IF IsDecimal(SubSeq(v, 1, q - 1)) /\ IsDecimal(SubSeq(v, q + 1, Len(v)))
            THEN TimeAt(SubSeq(v, 1, q - 1), Nanos(SubSeq(v, q + 1, Len(v)))) ELSE {}
    BY <1>5, <2>5, <2>9, ReadPointed DEF points
  <2>11. ParseUnixTimestamp(text) = TimeAt(whole, Nanos(fraction))
    BY <1>7, <2>6, <2>7, <2>8, <2>10
  <2>12. point # last + 1
    BY <1>1, <1>11
  <2>13. IsDecimal(whole) /\ whole \in Numerals /\ NoDigit \notin Range(whole)
               /\ fraction \in Numerals /\ NoDigit \notin Range(fraction)
               /\ ParseUnixTimestamp(text) =
                     TimeAt(whole, IF point = last + 1 THEN 0 ELSE Nanos(fraction))
    BY <1>7, <1>8, <2>11, <2>12
  <2> QED
    BY <2>13 DEF whole, fraction, first, last, point
<1> QED
  BY <1>2, <1>10, <1>11

(* And nothing else is read.                                               *)
LEMMA OnlySpelledRead ==
    ASSUME NEW text \in Seq(Characters), ParseUnixTimestamp(text) # {}
    PROVE  \E p \in Places(text) : SpelledAt(text, p)
<1> DEFINE n == Len(text)
           shown == {i \in DOMAIN text : text[i] # Space}
<1>1. n \in Nat /\ DOMAIN text = 1 .. n
  BY LenProperties
<1>2. shown # {}
  <2> SUFFICES ASSUME shown = {} PROVE FALSE
    OBVIOUS
  <2>1. Trimmed(text) = << >>
    BY DEF Trimmed
  <2>2. {i \in DOMAIN << >> : << >>[i] = Point} = {}
    BY EmptySeq
  <2>3. ~IsDecimal(<< >>)
    BY DEF IsDecimal
  <2>4. ParseUnixTimestamp(text) = IF IsDecimal(<< >>) THEN TimeAt(<< >>, 0) ELSE {}
    BY <2>1, <2>2, ReadWhole
  <2> QED
    BY <2>3, <2>4
<1>3. PICK first \in shown : \A i \in shown : first <= i
  <2>1. shown \in SUBSET Nat
    BY <1>1
  <2> HIDE DEF shown
  <2> QED
    BY <1>2, <2>1, LeastExists
<1>4. PICK last \in shown : \A i \in shown : i <= last
  <2>1. shown \in SUBSET (0 .. n)
    BY <1>1
  <2> HIDE DEF shown, n
  <2> QED
    BY <1>1, <1>2, <2>1, GreatestExists
<1>5. /\ first \in 1 .. n /\ last \in 1 .. n /\ first <= last
      /\ text[first] # Space /\ text[last] # Space
      /\ \A i \in DOMAIN text : i < first \/ i > last => text[i] = Space
  BY <1>1, <1>3, <1>4
<1> HIDE DEF shown
<1> DEFINE v == SubSeq(text, first, last)
           points == {i \in DOMAIN v : v[i] = Point}
           m == last - first + 1
<1>6. Trimmed(text) = v
  BY <1>1, <1>5, TrimmedTo
<1>7. /\ v \in Seq(Characters) /\ Len(v) = m /\ DOMAIN v = 1 .. m
      /\ \A k \in 1 .. m : v[k] = text[first + k - 1]
  <2>1. first \in Int /\ last \in Int /\ 1 <= first /\ last <= Len(text) /\ first <= last
    BY <1>1, <1>5
  <2> QED
    BY <2>1, Part
<1>8. CASE points = {}
  <2> DEFINE p == [first |-> first, point |-> last + 1, last |-> last]
  <2>1. IsDecimal(v)
    <3> HIDE DEF v
    <3>3. ParseUnixTimestamp(text) = IF IsDecimal(v) THEN TimeAt(v, 0) ELSE {}
      BY <1>6, <1>8, ReadWhole
    <3> QED
      BY <3>3
  <2>2. \A i \in first .. last : text[i] \in 0 .. 9
    BY <1>1, <1>5, <2>1, DecimalPart
  <2>3. p \in Places(text)
    BY <1>1, <1>5 DEF Places
  <2>4. SpelledAt(text, p)
    BY <1>1, <1>5, <2>2 DEF SpelledAt
  <2> QED
    BY <2>3, <2>4
<1>9. CASE points # {}
  <2>1. PICK q \in points : \A i \in points : q <= i
    <3>1. points \in SUBSET Nat
      BY <1>7
    <3> HIDE DEF points
    <3> QED
      BY <1>9, <3>1, LeastExists
  <2>2. q \in 1 .. m /\ v[q] = Point
    BY <1>7, <2>1
  <2>3. Min(points) = q
    <3>1. points \in SUBSET Int
      BY <1>7
    <3> HIDE DEF points
    <3> QED
      BY <2>1, <3>1, IsLeast
  <2>4. IsDecimal(SubSeq(v, 1, q - 1)) /\ IsDecimal(SubSeq(v, q + 1, m))
    <3> HIDE DEF v, m
    <3>1. points = {i \in DOMAIN v : v[i] = Point} /\ Len(v) = m
      BY <1>7
    <3>2. ParseUnixTimestamp(text) =
            IF IsDecimal(SubSeq(v, 1, q - 1)) /\ IsDecimal(SubSeq(v, q + 1, Len(v)))
            THEN TimeAt(SubSeq(v, 1, q - 1), Nanos(SubSeq(v, q + 1, Len(v)))) ELSE {}
      BY <1>6, <1>9, <2>3, ReadPointed
    <3> QED
      BY <3>1, <3>2
  <2>5. /\ 1 <= q - 1 /\ \A k \in 1 .. q - 1 : v[k] \in 0 .. 9
        /\ q + 1 <= m /\ \A k \in q + 1 .. m : v[k] \in 0 .. 9
    <3>1. m \in Int /\ q - 1 \in Int /\ q + 1 \in Int /\ 1 <= q + 1 /\ q - 1 <= Len(v) /\ m <= Len(v)
      BY <1>1, <1>5, <1>7, <2>2
    <3>2. v \in Seq(Characters) /\ q - 1 \in Int /\ 1 <= 1
      BY <1>7, <3>1
    <3> HIDE DEF v, m
    <3>3. 1 <= q - 1 /\ \A k \in 1 .. q - 1 : v[k] \in 0 .. 9
      BY <2>4, <3>1, <3>2, DecimalPart
    <3>4. q + 1 <= m /\ \A k \in q + 1 .. m : v[k] \in 0 .. 9
      BY <2>4, <3>1, <3>2, DecimalPart
    <3> QED
      BY <3>3, <3>4
  <2> DEFINE point == first + q - 1
             p == [first |-> first, point |-> point, last |-> last]
  <2>6. /\ point \in 1 .. n + 1 /\ first < point /\ point < last
        /\ text[point] = Point
    BY <1>1, <1>5, <1>7, <2>2, <2>5
  <2>7. ASSUME NEW i \in first .. last, i # point PROVE text[i] \in 0 .. 9
    <3> DEFINE k == i - first + 1
    <3>1. k \in 1 .. m /\ k # q /\ first + k - 1 = i /\ (k \in 1 .. q - 1 \/ k \in q + 1 .. m)
      BY <1>1, <1>5, <2>2, <2>7
    <3> HIDE DEF k, v, m
    <3>2. v[k] \in 0 .. 9
      BY <2>5, <3>1
    <3> QED
      BY <1>7, <3>1, <3>2
  <2> HIDE DEF point
  <2>8. p \in Places(text)
    BY <1>1, <1>5, <2>6 DEF Places
  <2>9. SpelledAt(text, p)
    BY <1>1, <1>5, <2>6, <2>7 DEF SpelledAt
  <2> QED
    BY <2>8, <2>9
<1> QED
  BY <1>8, <1>9

LEMMA UnixExact ==
    ASSUME NEW text \in Seq(Characters), NEW p \in Places(text), SpelledAt(text, p),
           NEW t \in ParseUnixTimestamp(text)
    PROVE  LET whole    == SubSeq(text, p.first, p.point - 1)
               fraction == SubSeq(text, p.point + 1, p.last)
               unit     == Power(10, Len(fraction))
           IN  IF Value(whole) > MaxSeconds THEN t = Thrown
               ELSE /\ t.seconds = Value(whole)
                    /\ t.nanos * unit <= Value(fraction) * NanosPerSecond
                    /\ Value(fraction) * NanosPerSecond < (t.nanos + 1) * unit
<1> DEFINE whole    == SubSeq(text, p.first, p.point - 1)
           fraction == SubSeq(text, p.point + 1, p.last)
           unit     == Power(10, Len(fraction))
           nanos    == IF p.point = p.last + 1 THEN 0 ELSE Nanos(fraction)
<1>1. /\ fraction \in Numerals /\ NoDigit \notin Range(fraction)
      /\ ParseUnixTimestamp(text) = TimeAt(whole, nanos)
  BY SpelledRead
<1>2. p.point = p.last + 1 => fraction = << >>
  <2>1. p.last \in Int /\ p.point \in Int
    BY LenProperties DEF Places
  <2>2. p.point = p.last + 1 => p.point + 1 > p.last
    BY <2>1
  <2> QED
    BY <2>1, <2>2, SubSeqEmpty
<1> HIDE DEF whole, fraction
<1>3. /\ Nanos(fraction) * unit <= Value(fraction) * NanosPerSecond
      /\ Value(fraction) * NanosPerSecond < (Nanos(fraction) + 1) * unit
  BY <1>1, NanosExact
<1>4. /\ nanos * unit <= Value(fraction) * NanosPerSecond
      /\ Value(fraction) * NanosPerSecond < (nanos + 1) * unit
  <2>1. CASE p.point = p.last + 1
    <3>1. Value(<< >>) = 0 /\ Power(10, 0) = 1 /\ Len(<< >>) = 0
      BY ValueOfNone, PowerStep
    <3>2. NanosPerSecond \in Nat
      BY SecondPositive
    <3>3. nanos = 0 /\ unit = 1 /\ Value(fraction) = 0
      BY <1>2, <2>1, <3>1
    <3> HIDE DEF nanos, unit
    <3> QED
      BY <3>2, <3>3
  <2>2. CASE p.point # p.last + 1
    <3>1. nanos = Nanos(fraction)
      BY <2>2
    <3> HIDE DEF nanos
    <3> QED
      BY <1>3, <3>1
  <2> QED
    BY <2>1, <2>2
<1> HIDE DEF nanos, unit
<1>5. t = IF Value(whole) > MaxSeconds THEN Thrown ELSE Timestamp(Value(whole), nanos)
  BY <1>1 DEF TimeAt
<1>6. IF Value(whole) > MaxSeconds THEN t = Thrown
      ELSE t.seconds = Value(whole) /\ t.nanos = nanos
  BY <1>5 DEF Timestamp
<1>7. IF Value(whole) > MaxSeconds THEN t = Thrown
      ELSE /\ t.seconds = Value(whole)
           /\ t.nanos * unit <= Value(fraction) * NanosPerSecond
           /\ Value(fraction) * NanosPerSecond < (t.nanos + 1) * unit
  BY <1>4, <1>6
<1> QED
  BY <1>7 DEF whole, fraction, unit

-----------------------------------------------------------------------------
(* Kinds of addresses.                                                     *)

LEMMA PowersOfTwo == Power(2, 4) = 16 /\ Power(2, 6) = 64
<1>1. Power(2, 0) = 1 /\ \A n \in Nat : Power(2, n + 1) = Power(2, n) * 2
  BY PowerStep
<1>2. Power(2, 0 + 1) = 2
  BY <1>1
<1>3. Power(2, 1 + 1) = Power(2, 1) * 2 /\ Power(2, 2 + 1) = Power(2, 2) * 2
      /\ Power(2, 3 + 1) = Power(2, 3) * 2 /\ Power(2, 4 + 1) = Power(2, 4) * 2
      /\ Power(2, 5 + 1) = Power(2, 5) * 2
  BY <1>1
<1> QED
  BY <1>2, <1>3

(* The networks of the kinds, by the bytes that their masks leave.         *)
LEMMA KindsByBytes ==
    ASSUME NEW addr \in [1 .. 4 -> 0 .. 255]
    PROVE  /\ IsPrivate(addr) => \/ addr[1] = 10
                                 \/ addr[1] = 172
                                 \/ addr[1] = 192 /\ addr[2] = 168
           /\ IsLoopback(addr) => addr[1] = 127
           /\ IsMulticast(addr) => addr[1] \div 16 = 14
           /\ IsReserved(addr) => \/ addr[1] \in {0, 100, 198, 203}
                                  \/ addr[1] = 192 /\ addr[2] = 0
                                  \/ addr[1] \div 16 = 15
<1>1. 1 \in 1 .. 4 /\ 2 \in 1 .. 4
  OBVIOUS
<1>2. ASSUME NEW network, NEW prefix \in Nat, InNetwork(addr, network, prefix)
      PROVE  /\ prefix >= 8 => addr[1] = network[1]
             /\ prefix >= 16 => addr[2] = network[2]
             /\ prefix = 4 => addr[1] \div 16 = network[1] \div 16
  <2>1. LET bits == prefix - 8 * (1 - 1)
        IN  IF bits >= 8 THEN addr[1] = network[1]
            ELSE bits > 0 => addr[1] \div Power(2, 8 - bits) = network[1] \div Power(2, 8 - bits)
    BY <1>1, <1>2 DEF InNetwork
  <2>2. LET bits == prefix - 8 * (2 - 1)
        IN  IF bits >= 8 THEN addr[2] = network[2]
            ELSE bits > 0 => addr[2] \div Power(2, 8 - bits) = network[2] \div Power(2, 8 - bits)
    BY <1>1, <1>2 DEF InNetwork
  <2>3. prefix - 8 * (1 - 1) = prefix /\ (prefix >= 16 => prefix - 8 * (2 - 1) >= 8)
    OBVIOUS
  <2>4. prefix >= 8 => addr[1] = network[1]
    BY <2>1, <2>3
  <2>5. prefix >= 16 => addr[2] = network[2]
    BY <2>2, <2>3
  <2>6. prefix = 4 => addr[1] \div 16 = network[1] \div 16
    BY <2>1, <2>3, PowersOfTwo
  <2> QED
    BY <2>4, <2>5, <2>6
<1>3. ASSUME IsPrivate(addr)
      PROVE  addr[1] = 10 \/ addr[1] = 172 \/ (addr[1] = 192 /\ addr[2] = 168)
  <2>1. CASE InNetwork(addr, <<10, 0, 0, 0>>, 8)
    BY <1>2, <2>1
  <2>2. CASE InNetwork(addr, <<172, 16, 0, 0>>, 12)
    BY <1>2, <2>2
  <2>3. CASE InNetwork(addr, <<192, 168, 0, 0>>, 16)
    BY <1>2, <2>3
  <2> QED
    BY <1>3, <2>1, <2>2, <2>3 DEF IsPrivate
<1>4. IsLoopback(addr) => addr[1] = 127
  BY <1>2 DEF IsLoopback
<1>5. IsMulticast(addr) => addr[1] \div 16 = 14
  BY <1>2 DEF IsMulticast
<1>6. ASSUME IsReserved(addr)
      PROVE  addr[1] \in {0, 100, 198, 203} \/ (addr[1] = 192 /\ addr[2] = 0) \/ addr[1] \div 16 = 15
  <2>1. CASE InNetwork(addr, <<0, 0, 0, 0>>, 8)
    BY <1>2, <2>1
  <2>2. CASE InNetwork(addr, <<100, 64, 0, 0>>, 10)
    BY <1>2, <2>2
  <2>3. CASE InNetwork(addr, <<192, 0, 0, 0>>, 24)
    BY <1>2, <2>3
  <2>4. CASE InNetwork(addr, <<198, 51, 100, 0>>, 24)
    BY <1>2, <2>4
  <2>5. CASE InNetwork(addr, <<203, 0, 113, 0>>, 24)
    BY <1>2, <2>5
  <2>6. CASE InNetwork(addr, <<240, 0, 0, 0>>, 4)
    BY <1>2, <2>6
  <2> QED
    BY <1>6, <2>1, <2>2, <2>3, <2>4, <2>5, <2>6 DEF IsReserved
<1> QED
  BY <1>3, <1>4, <1>5, <1>6

LEMMA OneKind ==
    ASSUME NEW addr \in [1 .. 4 -> 0 .. 255]
    PROVE  LET kinds == {k \in {"private", "loopback", "multicast", "reserved"} :
                            \/ k = "private" /\ IsPrivate(addr)
                            \/ k = "loopback" /\ IsLoopback(addr)
                            \/ k = "multicast" /\ IsMulticast(addr)
                            \/ k = "reserved" /\ IsReserved(addr)}
           IN  Cardinality(kinds) <= 1
<1> DEFINE kinds == {k \in {"private", "loopback", "multicast", "reserved"} :
                        \/ k = "private" /\ IsPrivate(addr)
                        \/ k = "loopback" /\ IsLoopback(addr)
                        \/ k = "multicast" /\ IsMulticast(addr)
                        \/ k = "reserved" /\ IsReserved(addr)}
<1>1. addr[1] \in 0 .. 255 /\ addr[2] \in 0 .. 255
  OBVIOUS
<1>2. /\ ~(IsPrivate(addr) /\ IsLoopback(addr))
      /\ ~(IsPrivate(addr) /\ IsMulticast(addr))
      /\ ~(IsPrivate(addr) /\ IsReserved(addr))
      /\ ~(IsLoopback(addr) /\ IsMulticast(addr))
      /\ ~(IsLoopback(addr) /\ IsReserved(addr))
      /\ ~(IsMulticast(addr) /\ IsReserved(addr))
  BY <1>1, KindsByBytes
<1>3. \A k, l \in kinds : k = l
  BY <1>2
<1>4. CASE kinds = {}
  BY <1>4, FS_EmptySet
<1>5. CASE kinds # {}
  <2>1. PICK k \in kinds : TRUE
    BY <1>5
  <2> HIDE DEF kinds
  <2>2. kinds = {k}
    BY <1>3, <2>1
  <2>3. Cardinality({k}) = 1
    BY FS_Singleton
  <2>4. Cardinality(kinds) <= 1
    BY <2>2, <2>3
  <2> QED
    BY <2>4 DEF kinds
<1> QED
  BY <1>4, <1>5

-----------------------------------------------------------------------------
(* Masks and ranges.                                                       *)

LEMMA MaskBits ==
    ASSUME NEW p \in 0 .. AddrBits
    PROVE  CidrMask(p) = [i \in 1 .. AddrBits |-> IF i <= p THEN 1 ELSE 0]
<1>1. AddrBits \in Nat /\ p \in Nat /\ p <= AddrBits
  BY AddrBitsAssumption
<1>2. CASE p = 0
  <2>1. \A i \in 1 .. AddrBits : ~(i <= p)
    BY <1>1, <1>2
  <2> QED
    BY <1>2, <2>1 DEF CidrMask, AllZeros
<1>3. CASE p # 0 /\ p >= AddrBits
  <2>1. \A i \in 1 .. AddrBits : i <= p
    BY <1>1, <1>3
  <2> QED
    BY <1>3, <2>1 DEF CidrMask, AllOnes
<1>4. CASE p # 0 /\ ~(p >= AddrBits)
  <2>1. \A i \in 1 .. AddrBits : /\ i + (AddrBits - p) <= AddrBits <=> i <= p
                                 /\ i <= p => i + (AddrBits - p) \in 1 .. AddrBits
    BY <1>1, <1>4
  <2>2. \A i \in 1 .. AddrBits :
           (IF i + (AddrBits - p) <= AddrBits THEN AllOnes[i + (AddrBits - p)] ELSE 0)
               = IF i <= p THEN 1 ELSE 0
    BY <2>1 DEF AllOnes
  <2>3. ShiftLeft(AllOnes, AddrBits - p) = [i \in 1 .. AddrBits |-> IF i <= p THEN 1 ELSE 0]
    BY <2>2 DEF ShiftLeft
  <2> QED
    BY <1>4, <2>3 DEF CidrMask
<1> QED
  BY <1>2, <1>3, <1>4

LEMMA Masked ==
    ASSUME NEW p \in 0 .. AddrBits, NEW a \in Addresses
    PROVE  /\ And(a, CidrMask(p)) = [i \in 1 .. AddrBits |-> IF i <= p THEN a[i] ELSE 0]
           /\ And(a, CidrMask(p)) \in Addresses
<1> DEFINE mask == CidrMask(p)
<1>1. \A i \in 1 .. AddrBits : mask[i] = (IF i <= p THEN 1 ELSE 0) /\ a[i] \in Bit
  BY MaskBits DEF Addresses
<1> HIDE DEF mask
<1>2. \A i \in 1 .. AddrBits : a[i] * mask[i] = IF i <= p THEN a[i] ELSE 0
  BY <1>1 DEF Bit
<1>3. And(a, mask) = [i \in 1 .. AddrBits |-> IF i <= p THEN a[i] ELSE 0]
  BY <1>2 DEF And
<1>4. [i \in 1 .. AddrBits |-> IF i <= p THEN a[i] ELSE 0] \in Addresses
  BY <1>1 DEF Addresses, Bit
<1> QED
  BY <1>3, <1>4 DEF mask

(* A range contains the addresses with the bits of its prefix.             *)
LEMMA ContainsBits ==
    ASSUME NEW r \in [network : Addresses, prefix : 0 .. AddrBits], NEW a \in Addresses
    PROVE  CidrContains(r, a) <=> \A i \in 1 .. r.prefix : a[i] = r.network[i]
<1> DEFINE p == r.prefix
           n == r.network
<1>1. p \in 0 .. AddrBits /\ n \in Addresses /\ AddrBits \in Nat
  BY AddrBitsAssumption
<1>2. CidrContains(r, a) <=> And(a, CidrMask(p)) = And(n, CidrMask(p))
  BY DEF CidrContains
<1> HIDE DEF p, n
<1>3. And(a, CidrMask(p)) = And(n, CidrMask(p))
          <=> \A i \in 1 .. AddrBits : (IF i <= p THEN a[i] ELSE 0) = (IF i <= p THEN n[i] ELSE 0)
  <2> DEFINE x == [i \in 1 .. AddrBits |-> IF i <= p THEN a[i] ELSE 0]
             y == [i \in 1 .. AddrBits |-> IF i <= p THEN n[i] ELSE 0]
  <2>1. And(a, CidrMask(p)) = x /\ And(n, CidrMask(p)) = y
    BY <1>1, Masked
  <2>2. x = y <=> \A i \in 1 .. AddrBits : x[i] = y[i]
    OBVIOUS
  <2> QED
    BY <2>1, <2>2
<1>4. (\A i \in 1 .. AddrBits : (IF i <= p THEN a[i] ELSE 0) = (IF i <= p THEN n[i] ELSE 0))
          <=> \A i \in 1 .. p : a[i] = n[i]
  <2>1. /\ \A i \in 1 .. p : i \in 1 .. AddrBits /\ i <= p
        /\ \A i \in 1 .. AddrBits : i <= p => i \in 1 .. p
    BY <1>1
  <2> QED
    BY <2>1
<1> QED
  BY <1>2, <1>3, <1>4 DEF p, n

LEMMA PrefixBits ==
    ASSUME NEW p \in 0 .. AddrBits, NEW b \in Addresses, NEW a \in Addresses
    PROVE  RangeContains(SubSeq(b, 1, p), a) <=> \A i \in 1 .. p : a[i] = b[i]
<1> DEFINE s == SubSeq(b, 1, p)
           t == SubSeq(a, 1, p)
<1>1. p \in Nat /\ AddrBits \in Nat /\ p <= AddrBits /\ (1 <= p \/ p = 0) /\ p - 1 + 1 = p
      /\ 1 \in Int /\ p \in Int /\ \A i \in 1 .. p : i \in 1 .. AddrBits /\ 1 + i - 1 = i
  BY AddrBitsAssumption
<1>2. Len(a) = AddrBits /\ \A i \in 1 .. p : a[i] \in Bit /\ b[i] \in Bit
  BY <1>1, LenOfFunction DEF Addresses
<1>3. s \in Seq(Bit) /\ Len(s) = p /\ \A i \in 1 .. p : s[i] = b[i]
  <2>1. /\ s \in Seq(Bit) /\ Len(s) = IF 1 <= p THEN p - 1 + 1 ELSE 0
        /\ \A i \in 1 .. p - 1 + 1 : s[i] = b[1 + i - 1]
    BY <1>1, <1>2, SubSeqProperties
  <2> HIDE DEF s
  <2> QED
    BY <1>1, <2>1
<1>4. t \in Seq(Bit) /\ Len(t) = p /\ \A i \in 1 .. p : t[i] = a[i]
  <2>1. /\ t \in Seq(Bit) /\ Len(t) = IF 1 <= p THEN p - 1 + 1 ELSE 0
        /\ \A i \in 1 .. p - 1 + 1 : t[i] = a[1 + i - 1]
    BY <1>1, <1>2, SubSeqProperties
  <2> HIDE DEF t
  <2> QED
    BY <1>1, <2>1
<1> HIDE DEF s
<1> DEFINE u == SubSeq(s, 1, p)
<1>5. u \in Seq(Bit) /\ Len(u) = p /\ \A i \in 1 .. p : u[i] = b[i]
  <2>1. \A i \in 1 .. p : s[i] \in Bit
    BY <1>2, <1>3
  <2>2. /\ u \in Seq(Bit) /\ Len(u) = IF 1 <= p THEN p - 1 + 1 ELSE 0
        /\ \A i \in 1 .. p - 1 + 1 : u[i] = s[1 + i - 1]
    BY <1>1, <2>1, SubSeqProperties
  <2> HIDE DEF u
  <2> QED
    BY <1>1, <1>3, <2>2
<1>6. IsPrefix(s, a) <=> u = t
  BY <1>1, <1>2, <1>3 DEF IsPrefix
<1> HIDE DEF t, u
<1>7. u = t <=> \A i \in 1 .. p : u[i] = t[i]
  <2>1. u = [i \in 1 .. p |-> u[i]] /\ t = [i \in 1 .. p |-> t[i]]
    BY <1>4, <1>5, LenProperties
  <2> QED
    BY <2>1
<1> QED
  BY <1>4, <1>5, <1>6, <1>7 DEF RangeContains, s

LEMMA CidrReadable ==
    ASSUME NEW addr \in Addresses \cup {NoAddress}, NEW prefixes \in Seq(Numerals),
           NEW r \in ParseCidr(addr, prefixes)
    PROVE  /\ addr \in Addresses /\ r \in ReadableRanges
           /\ \A i \in 1 .. r.prefix : r.network[i] = addr[i]
<1> DEFINE p == IF Len(prefixes) = 1 THEN ReadNumber(prefixes[1], AddrBits) ELSE AddrBits
<1>1. AddrBits \in Nat /\ AddrBits * 10 + 9 < UIntMod
  BY AddrBitsAssumption, QuestionsAssumption
<1>2. p \in 0 .. AddrBits \cup {-1}
  <2>1. CASE Len(prefixes) = 1
    <3>1. prefixes[1] \in Numerals
      BY <2>1, ElementOfSeq
    <3>2. p = IF prefixes[1] # << >> /\ NoDigit \notin Range(prefixes[1]) /\ Value(prefixes[1]) <= AddrBits
              THEN Value(prefixes[1]) ELSE -1
      BY <1>1, <2>1, <3>1, ReadNumberExact
    <3>3. NoDigit \notin Range(prefixes[1]) => Value(prefixes[1]) \in Nat
      BY <3>1, ValueNat
    <3> HIDE DEF p
    <3> QED
      BY <1>1, <3>2, <3>3
  <2>2. CASE Len(prefixes) # 1
    BY <1>1, <2>2
  <2> QED
    BY <2>1, <2>2
<1>3. /\ addr # NoAddress /\ p # -1
      /\ r = Cidr(addr, AddrBits) \/ r = Cidr(And(addr, CidrMask(p)), p)
  BY DEF ParseCidr
<1> HIDE DEF p
<1>4. addr \in Addresses /\ p \in 0 .. AddrBits
  BY <1>2, <1>3
<1>5. CASE r = Cidr(addr, AddrBits)
  <2>1. r.network = addr /\ r.prefix = AddrBits /\ r \in [network : Addresses, prefix : 0 .. AddrBits]
    BY <1>1, <1>4, <1>5 DEF Cidr
  <2>2. AddrBits + 1 .. AddrBits = {}
    BY <1>1
  <2> QED
    BY <1>4, <2>1, <2>2 DEF ReadableRanges
<1>6. CASE r = Cidr(And(addr, CidrMask(p)), p)
  <2> DEFINE n == And(addr, CidrMask(p))
  <2>1. n \in Addresses /\ n = [i \in 1 .. AddrBits |-> IF i <= p THEN addr[i] ELSE 0]
    BY <1>4, Masked
  <2> HIDE DEF n
  <2>2. r.network = n /\ r.prefix = p /\ r \in [network : Addresses, prefix : 0 .. AddrBits]
    BY <1>4, <1>6, <2>1 DEF Cidr, n
  <2>3. \A i \in 1 .. p : n[i] = addr[i]
    BY <1>1, <1>4, <2>1
  <2>4. \A i \in p + 1 .. AddrBits : n[i] = 0
    BY <1>1, <1>4, <2>1
  <2> QED
    BY <1>4, <2>2, <2>3, <2>4 DEF ReadableRanges
<1> QED
  BY <1>3, <1>5, <1>6

-----------------------------------------------------------------------------
(* The order of ranges.                                                    *)

LEMMA LessTransitive ==
    ASSUME NEW a \in Addresses, NEW b \in Addresses, NEW c \in Addresses, Less(a, b), Less(b, c)
    PROVE  Less(a, c)
<1>1. PICK i \in 1 .. AddrBits : a[i] < b[i] /\ \A k \in 1 .. i - 1 : a[k] = b[k]
  BY DEF Less
<1>2. PICK j \in 1 .. AddrBits : b[j] < c[j] /\ \A k \in 1 .. j - 1 : b[k] = c[k]
  BY DEF Less
<1>3. \A k \in 1 .. AddrBits : a[k] \in Int /\ b[k] \in Int /\ c[k] \in Int
  BY DEF Addresses, Bit
<1>4. AddrBits \in Nat /\ i \in Nat /\ j \in Nat
  BY AddrBitsAssumption
<1>5. CASE i <= j
  <2>1. b[i] <= c[i]
    <3>1. i = j \/ i \in 1 .. j - 1
      BY <1>4, <1>5
    <3> QED
      BY <1>2, <1>3, <3>1
  <2>2. a[i] < c[i]
    BY <1>1, <1>3, <2>1
  <2>3. \A k \in 1 .. i - 1 : a[k] = c[k]
    <3>1. \A k \in 1 .. i - 1 : k \in 1 .. j - 1
      BY <1>4, <1>5
    <3> QED
      BY <1>1, <1>2, <3>1
  <2> QED
    BY <2>2, <2>3 DEF Less
<1>6. CASE j < i
  <2>1. j \in 1 .. i - 1 /\ \A k \in 1 .. j - 1 : k \in 1 .. i - 1
    BY <1>4, <1>6
  <2>2. a[j] < c[j] /\ \A k \in 1 .. j - 1 : a[k] = c[k]
    BY <1>1, <1>2, <2>1
  <2> QED
    BY <2>2 DEF Less
<1> QED
  BY <1>4, <1>5, <1>6

LEMMA LessIrreflexive ==
    ASSUME NEW a \in Addresses
    PROVE  ~Less(a, a)
<1>1. \A k \in 1 .. AddrBits : a[k] \in Int
  BY DEF Addresses, Bit
<1> QED
  BY <1>1 DEF Less

LEMMA BeforeOrders ==
    ASSUME NEW a \in ReadableRanges, NEW b \in ReadableRanges
    PROVE  /\ ~Before(a, a)
           /\ ~(Before(a, b) /\ Before(b, a))
           /\ \A c \in ReadableRanges : Before(a, b) /\ Before(b, c) => Before(a, c)
<1>1. \A r \in ReadableRanges : r.network \in Addresses /\ r.prefix \in Int
  BY AddrBitsAssumption DEF ReadableRanges
<1>2. ~Less(a.network, a.network) /\ ~Less(b.network, b.network)
  BY <1>1, LessIrreflexive
<1>3. ~(Less(a.network, b.network) /\ Less(b.network, a.network))
  BY <1>1, <1>2, LessTransitive
<1>4. ASSUME NEW c \in ReadableRanges, Before(a, b), Before(b, c) PROVE Before(a, c)
  <2>1. Less(a.network, b.network) /\ Less(b.network, c.network) => Less(a.network, c.network)
    BY <1>1, LessTransitive
  <2> QED
    BY <1>1, <1>4, <2>1 DEF Before
<1> QED
  BY <1>1, <1>2, <1>3, <1>4 DEF Before

(* A range that another one covers does not come before it.                *)
LEMMA CoveringComesFirst ==
    ASSUME NEW a \in ReadableRanges, NEW b \in ReadableRanges, Covers(a, b)
    PROVE  a = b \/ Before(a, b)
<1> DEFINE x == a.network
           y == b.network
           p == a.prefix
           q == b.prefix
           differ == {i \in 1 .. AddrBits : x[i] # y[i]}
<1>1. /\ AddrBits \in Nat /\ x \in Addresses /\ y \in Addresses
      /\ p \in 0 .. AddrBits /\ q \in 0 .. AddrBits /\ a = Cidr(x, p) /\ b = Cidr(y, q)
      /\ \A i \in p + 1 .. AddrBits : x[i] = 0
  BY AddrBitsAssumption DEF ReadableRanges, Cidr
<1>2. p <= q /\ \A i \in 1 .. p : y[i] = x[i]
  <2>1. a \in [network : Addresses, prefix : 0 .. AddrBits]
    BY DEF ReadableRanges
  <2>2. CidrContains(a, b.network) <=> \A i \in 1 .. a.prefix : b.network[i] = a.network[i]
    BY <1>1, <2>1, ContainsBits
  <2> QED
    BY <2>2 DEF Covers
<1>3. \A i \in 1 .. AddrBits : x[i] \in {0, 1} /\ y[i] \in {0, 1}
  BY <1>1 DEF Addresses, Bit
<1>4. CASE differ = {}
  <2>1. x = y
    <3>1. \A i \in 1 .. AddrBits : x[i] = y[i]
      BY <1>4
    <3>2. x = [i \in 1 .. AddrBits |-> x[i]] /\ y = [i \in 1 .. AddrBits |-> y[i]]
      BY <1>1 DEF Addresses
    <3> HIDE DEF x, y
    <3> QED
      BY <3>1, <3>2
  <2>2. p = q \/ p < q
    BY <1>1, <1>2
  <2>3. p = q => a = b
    BY <1>1, <2>1
  <2>4. p < q => Before(a, b)
    BY <2>1 DEF Before
  <2> QED
    BY <2>2, <2>3, <2>4
<1>5. CASE differ # {}
  <2>1. differ \in SUBSET Nat
    OBVIOUS
  <2>2. PICK m \in differ : \A i \in differ : m <= i
    <3> HIDE DEF differ
    <3> QED
      BY <1>5, <2>1, LeastExists
  <2>3. m \in 1 .. AddrBits /\ x[m] # y[m]
    OBVIOUS
  <2> HIDE DEF x, y, p, q
  <2>4. ~(m \in 1 .. p)
    BY <1>2, <2>3
  <2>5. m \in p + 1 .. AddrBits
    BY <1>1, <2>3, <2>4
  <2>6. x[m] = 0 /\ y[m] = 1
    BY <1>1, <1>3, <2>3, <2>5
  <2>7. \A i \in 1 .. m - 1 : x[i] = y[i]
    <3> SUFFICES ASSUME NEW i \in 1 .. m - 1, x[i] # y[i] PROVE FALSE
      OBVIOUS
    <3>1. i \in 1 .. AddrBits /\ ~(m <= i)
      BY <1>1, <2>3
    <3> QED
      BY <2>2, <3>1
  <2>8. Less(x, y)
    BY <2>3, <2>6, <2>7 DEF Less
  <2> QED
    BY <2>8 DEF Before, x, y
<1> QED
  BY <1>4, <1>5

LEMMA CoversItself ==
    ASSUME NEW a \in ReadableRanges
    PROVE  Covers(a, a)
  BY AddrBitsAssumption DEF Covers, CidrContains, ReadableRanges

LEMMA CoveringContains ==
    ASSUME NEW a \in ReadableRanges, NEW b \in ReadableRanges, Covers(a, b),
           NEW addr \in Addresses, CidrContains(b, addr)
    PROVE  CidrContains(a, addr)
<1>1. /\ AddrBits \in Nat /\ b.network \in Addresses
      /\ a \in [network : Addresses, prefix : 0 .. AddrBits]
      /\ b \in [network : Addresses, prefix : 0 .. AddrBits]
  BY AddrBitsAssumption DEF ReadableRanges
<1>2. a.prefix <= b.prefix /\ \A i \in 1 .. a.prefix : b.network[i] = a.network[i]
  BY <1>1, ContainsBits DEF Covers
<1>3. \A i \in 1 .. b.prefix : addr[i] = b.network[i]
  BY <1>1, ContainsBits
<1>4. \A i \in 1 .. a.prefix : i \in 1 .. b.prefix
  BY <1>1, <1>2
<1>5. \A i \in 1 .. a.prefix : addr[i] = a.network[i]
  BY <1>2, <1>3, <1>4
<1> QED
  BY <1>1, <1>5, ContainsBits

-----------------------------------------------------------------------------
(* Sorting.                                                                *)

Sorting(q, m, p) ==
    /\ p \in [1 .. m -> 1 .. m]
    /\ \A i, j \in 1 .. m : p[i] = p[j] => i = j
    /\ \A k \in 1 .. m : \E i \in 1 .. m : p[i] = k
    /\ \A i, j \in 1 .. m : i < j => ~Before(q[p[j]], q[p[i]])

(* One range more has its place before the first that it comes before.     *)
LEMMA OneMoreSorted ==
    ASSUME NEW m \in Nat, NEW q, NEW p, Sorting(q, m, p),
           \A k \in 1 .. m + 1 : q[k] \in ReadableRanges
    PROVE  \E s : Sorting(q, m + 1, s)
<1> DEFINE x == q[m + 1]
           places == {i \in 1 .. m + 1 : i = m + 1 \/ Before(x, q[p[i]])}
<1>1. /\ m + 1 \in 1 .. m + 1 /\ \A i \in 1 .. m : i \in 1 .. m + 1
      /\ \A i \in 1 .. m + 1 : i \in 1 .. m \/ i = m + 1
      /\ \A i \in 1 .. m : i - 1 + 1 = i
  OBVIOUS
<1>2. /\ \A i \in 1 .. m : p[i] \in 1 .. m
      /\ \A i, j \in 1 .. m : p[i] = p[j] => i = j
      /\ \A k \in 1 .. m : \E i \in 1 .. m : p[i] = k
      /\ \A i, j \in 1 .. m : i < j => ~Before(q[p[j]], q[p[i]])
  BY DEF Sorting
<1>3. PICK c \in places : \A i \in places : c <= i
  <2>1. m + 1 \in places /\ \A i \in places : i \in Nat
    BY <1>1
  <2> HIDE DEF places
  <2> QED
    BY <2>1, LeastExists
<1>4. c \in 1 .. m + 1 /\ c \in Nat /\ m + 1 \in Nat
  OBVIOUS
<1>5. \A i \in 1 .. m : i < c => ~Before(x, q[p[i]])
  <2> SUFFICES ASSUME NEW i \in 1 .. m, i < c, Before(x, q[p[i]]) PROVE FALSE
    OBVIOUS
  <2>1. i \in places
    BY <1>1
  <2> HIDE DEF places
  <2> QED
    BY <1>3, <1>4, <2>1
<1>6. c \in 1 .. m => Before(x, q[p[c]])
  OBVIOUS
<1> HIDE DEF places
<1>7. x \in ReadableRanges /\ \A i \in 1 .. m : q[p[i]] \in ReadableRanges
  BY <1>1, <1>2
<1>8. \A i \in 1 .. m : c <= i => ~Before(q[p[i]], x)
  <2> SUFFICES ASSUME NEW i \in 1 .. m, c <= i, Before(q[p[i]], x) PROVE FALSE
    OBVIOUS
  <2>1. c \in 1 .. m /\ (c = i \/ c < i)
    BY <1>4
  <2>2. Before(x, q[p[c]]) /\ q[p[c]] \in ReadableRanges /\ q[p[i]] \in ReadableRanges
    BY <1>6, <1>7, <2>1
  <2>3. Before(q[p[i]], q[p[c]])
    BY <1>7, <2>2, BeforeOrders
  <2>4. c = i => FALSE
    BY <2>2, <2>3, BeforeOrders
  <2> QED
    BY <1>2, <2>1, <2>3, <2>4
<1> DEFINE s == [i \in 1 .. m + 1 |-> IF i < c THEN p[i] ELSE IF i = c THEN m + 1 ELSE p[i - 1]]
<1>9. /\ \A i \in 1 .. m + 1 : i < c => i \in 1 .. m
      /\ \A i \in 1 .. m + 1 : c < i => i - 1 \in 1 .. m /\ c <= i - 1
      /\ \A i \in 1 .. m : i < c => i \in 1 .. m + 1
      /\ \A i \in 1 .. m : c <= i => i + 1 \in 1 .. m + 1 /\ c < i + 1 /\ (i + 1) - 1 = i
      /\ \A i \in 1 .. m + 1 : i < c \/ i = c \/ c < i
      /\ \A i \in 1 .. m + 1 : (c < i => ~(i < c) /\ i # c) /\ (i = c => ~(i < c))
  BY <1>4
<1>10. /\ \A i \in 1 .. m + 1 : i < c => s[i] = p[i]
       /\ s[c] = m + 1
       /\ \A i \in 1 .. m + 1 : c < i => s[i] = p[i - 1]
  BY <1>4, <1>9
<1>11. s \in [1 .. m + 1 -> 1 .. m + 1]
  <2>1. ASSUME NEW i \in 1 .. m + 1
        PROVE  (IF i < c THEN p[i] ELSE IF i = c THEN m + 1 ELSE p[i - 1]) \in 1 .. m + 1
    BY <1>1, <1>2, <1>9
  <2> QED
    BY <2>1
<1> HIDE DEF s
<1>12. \A k \in 1 .. m : k # m + 1
  OBVIOUS
<1>13. ASSUME NEW i \in 1 .. m + 1, NEW j \in 1 .. m + 1, i < j
       PROVE  s[i] # s[j] /\ ~Before(q[s[j]], q[s[i]])
  <2>1. CASE j < c
    <3>1. i < c /\ i \in 1 .. m /\ j \in 1 .. m /\ i # j
      BY <1>4, <1>9, <1>13, <2>1
    <3>2. s[i] = p[i] /\ s[j] = p[j]
      BY <1>10, <2>1, <3>1
    <3> QED
      BY <1>2, <1>13, <3>1, <3>2
  <2>2. CASE j = c
    <3>1. i < c /\ i \in 1 .. m
      BY <1>9, <1>13, <2>2
    <3>2. s[i] = p[i] /\ s[j] = m + 1
      BY <1>10, <2>2, <3>1
    <3> QED
      BY <1>2, <1>5, <1>12, <3>1, <3>2
  <2>3. CASE c < j /\ i < c
    <3>1. i \in 1 .. m /\ j - 1 \in 1 .. m /\ i < j - 1
      BY <1>4, <1>9, <2>3
    <3>2. s[i] = p[i] /\ s[j] = p[j - 1] /\ i # j - 1
      BY <1>10, <2>3, <3>1
    <3> QED
      BY <1>2, <3>1, <3>2
  <2>4. CASE c < j /\ i = c
    <3>1. j - 1 \in 1 .. m /\ c <= j - 1
      BY <1>9, <2>4
    <3>2. s[i] = m + 1 /\ s[j] = p[j - 1]
      BY <1>10, <2>4
    <3> QED
      BY <1>2, <1>8, <1>12, <3>1, <3>2
  <2>5. CASE c < j /\ c < i
    <3>1. i - 1 \in 1 .. m /\ j - 1 \in 1 .. m /\ i - 1 < j - 1 /\ i - 1 # j - 1
      BY <1>4, <1>9, <1>13, <2>5
    <3>2. s[i] = p[i - 1] /\ s[j] = p[j - 1]
      BY <1>10, <2>5
    <3> QED
      BY <1>2, <3>1, <3>2
  <2> QED
    BY <1>9, <2>1, <2>2, <2>3, <2>4, <2>5
<1>14. ASSUME NEW k \in 1 .. m + 1 PROVE \E i \in 1 .. m + 1 : s[i] = k
  <2>1. CASE k = m + 1
    BY <1>4, <1>10, <2>1
  <2>2. CASE k \in 1 .. m
    <3>1. PICK i \in 1 .. m : p[i] = k
      BY <1>2, <2>2
    <3>2. CASE i < c
      BY <1>9, <1>10, <3>1, <3>2
    <3>3. CASE c <= i
      <4>1. i + 1 \in 1 .. m + 1 /\ c < i + 1 /\ (i + 1) - 1 = i
        BY <1>9, <3>3
      <4>2. s[i + 1] = p[(i + 1) - 1]
        BY <1>10, <4>1
      <4> QED
        BY <3>1, <4>1, <4>2
    <3> QED
      BY <1>4, <3>2, <3>3
  <2> QED
    BY <1>1, <2>1, <2>2
<1>15. \A i, j \in 1 .. m + 1 : s[i] = s[j] => i = j
  <2> SUFFICES ASSUME NEW i \in 1 .. m + 1, NEW j \in 1 .. m + 1, s[i] = s[j], i # j PROVE FALSE
    OBVIOUS
  <2>1. i < j \/ j < i
    OBVIOUS
  <2> QED
    BY <1>13, <2>1
<1>16. Sorting(q, m + 1, s)
  BY <1>11, <1>13, <1>14, <1>15 DEF Sorting
<1> QED
  BY <1>16

LEMMA SortingExists ==
    ASSUME NEW n \in Nat, NEW q, \A k \in 1 .. n : q[k] \in ReadableRanges
    PROVE  \E p : Sorting(q, n, p)
<1> DEFINE S == {m \in 0 .. n : \E p : Sorting(q, m, p)}
<1>1. 0 \in S
  <2> DEFINE p == [i \in 1 .. 0 |-> i]
  <2>1. Sorting(q, 0, p)
    BY DEF Sorting
  <2> HIDE DEF p
  <2> QED
    BY <2>1
<1>2. ASSUME NEW m \in S, m < n PROVE m + 1 \in S
  <2>1. m \in Nat /\ m + 1 \in 0 .. n /\ \A k \in 1 .. m + 1 : k \in 1 .. n
    BY <1>2
  <2>2. PICK p : Sorting(q, m, p)
    BY <1>2
  <2>3. \A k \in 1 .. m + 1 : q[k] \in ReadableRanges
    BY <2>1
  <2>4. \E s : Sorting(q, m + 1, s)
    BY <2>1, <2>2, <2>3, OneMoreSorted
  <2> QED
    BY <2>1, <2>4
<1>3. S = 0 .. n
  <2> HIDE DEF S
  <2>1. S \in SUBSET (0 .. n)
    BY DEF S
  <2> QED
    BY <1>1, <1>2, <2>1, Climb
<1>4. n \in S
  BY <1>3
<1> QED
  BY <1>4

SameRanges(ranges, t, n) ==
    /\ \A i \in 1 .. n : \E j \in 1 .. n : t[i] = ranges[j]
    /\ \A j \in 1 .. n : \E i \in 1 .. n : t[i] = ranges[j]

(* Sorting loses no range and adds none, and leaves none before one that   *)
(* comes before it.                                                        *)
LEMMA SortedFacts ==
    ASSUME NEW ranges \in Seq(ReadableRanges), NEW n, n = Len(ranges), NEW t, t = Sorted(ranges)
    PROVE  /\ n \in Nat /\ t \in Seq(ReadableRanges) /\ Len(t) = n
           /\ SameRanges(ranges, t, n)
           /\ \A i \in 1 .. n : t[i] \in ReadableRanges
           /\ \A i, j \in 1 .. n : i < j => ~Before(t[j], t[i])
<1>1. n \in Nat /\ DOMAIN ranges = 1 .. n /\ \A k \in 1 .. n : ranges[k] \in ReadableRanges
  BY LenProperties, ElementOfSeq
<1> DEFINE order == CHOOSE p \in Bijection(DOMAIN ranges, DOMAIN ranges) :
                        \A i, j \in DOMAIN ranges : i < j => ~Before(ranges[p[j]], ranges[p[i]])
<1>2. \A p : Sorting(ranges, n, p) <=>
                /\ p \in Bijection(DOMAIN ranges, DOMAIN ranges)
                /\ \A i, j \in DOMAIN ranges : i < j => ~Before(ranges[p[j]], ranges[p[i]])
  BY <1>1 DEF Sorting, Bijection, Injection, Surjection, IsInjective
<1>3. \E p : Sorting(ranges, n, p)
  BY <1>1, SortingExists
<1>4. Sorting(ranges, n, order)
  BY <1>2, <1>3
<1>5. t = [i \in 1 .. n |-> ranges[order[i]]]
  BY <1>1 DEF Sorted
<1> HIDE DEF order
<1>6. /\ \A i \in 1 .. n : order[i] \in 1 .. n
      /\ \A k \in 1 .. n : \E i \in 1 .. n : order[i] = k
      /\ \A i, j \in 1 .. n : i < j => ~Before(ranges[order[j]], ranges[order[i]])
  BY <1>4 DEF Sorting
<1>7. \A i \in 1 .. n : t[i] = ranges[order[i]] /\ t[i] \in ReadableRanges
  BY <1>1, <1>5, <1>6
<1>8. t \in [1 .. n -> ReadableRanges]
  BY <1>5, <1>7
<1>9. t \in Seq(ReadableRanges) /\ Len(t) = n
  BY <1>1, <1>8, LenOfFunction
<1>10. \A i \in 1 .. n : \E j \in 1 .. n : t[i] = ranges[j]
  BY <1>6, <1>7
<1>11. ASSUME NEW j \in 1 .. n PROVE \E i \in 1 .. n : t[i] = ranges[j]
  <2>1. PICK i \in 1 .. n : order[i] = j
    BY <1>6
  <2>2. t[i] = ranges[j]
    BY <1>7, <2>1
  <2> QED
    BY <2>2
<1>12. \A i, j \in 1 .. n : i < j => ~Before(t[j], t[i])
  BY <1>6, <1>7
<1> QED
  BY <1>1, <1>7, <1>9, <1>10, <1>11, <1>12 DEF SameRanges

-----------------------------------------------------------------------------
(* Merging.                                                                *)

(* What has been kept of the first k ranges covers each of them and is     *)
(* among them, and none of it covers another.                              *)
Merged(t, k, out) ==
    /\ out \in Seq(ReadableRanges)
    /\ \A i \in 1 .. Len(out) : \E j \in 1 .. k : out[i] = t[j]
    /\ \A j \in 1 .. k : \E i \in 1 .. Len(out) : Covers(out[i], t[j])
    /\ \A i, j \in 1 .. Len(out) : i # j => ~Covers(out[i], out[j])

LEMMA KeepMerges ==
    ASSUME NEW n \in Nat, NEW t, NEW k \in Nat, k + 1 <= n,
           \A i \in 1 .. n : t[i] \in ReadableRanges,
           \A i, j \in 1 .. n : i < j => ~Before(t[j], t[i]),
           NEW out, Merged(t, k, out)
    PROVE  Merged(t, k + 1, Keep(out, t[k + 1]))
<1> DEFINE x == t[k + 1]
           m == Len(out)
<1>1. /\ out \in Seq(ReadableRanges)
      /\ \A i \in 1 .. m : \E j \in 1 .. k : out[i] = t[j]
      /\ \A j \in 1 .. k : \E i \in 1 .. m : Covers(out[i], t[j])
      /\ \A i, j \in 1 .. m : i # j => ~Covers(out[i], out[j])
  BY DEF Merged
<1>2. m \in Nat /\ DOMAIN out = 1 .. m /\ \A i \in 1 .. m : out[i] \in ReadableRanges
  BY <1>1, LenProperties, ElementOfSeq
<1>3. /\ k + 1 \in 1 .. n /\ x \in ReadableRanges
      /\ \A j \in 1 .. k : j \in 1 .. k + 1 /\ j \in 1 .. n /\ j < k + 1
      /\ \A j \in 1 .. k + 1 : j \in 1 .. k \/ j = k + 1
      /\ k + 1 \in 1 .. k + 1
  BY Zenon, SMT
<1> HIDE DEF x, m
<1>4. CASE \E i \in 1 .. m : Covers(out[i], x)
  <2>1. Keep(out, x) = out
    BY <1>2, <1>4 DEF Keep, Range
  <2>2. \A i \in 1 .. m : \E j \in 1 .. k + 1 : out[i] = t[j]
    BY <1>1, <1>3
  <2>3. ASSUME NEW j \in 1 .. k + 1 PROVE \E i \in 1 .. m : Covers(out[i], t[j])
    BY <1>1, <1>3, <1>4 DEF x
  <2>4. Merged(t, k + 1, out)
    BY <1>1, <2>2, <2>3 DEF Merged, m
  <2> QED
    BY <2>1, <2>4 DEF x
<1>5. CASE ~\E i \in 1 .. m : Covers(out[i], x)
  <2> DEFINE new == Append(out, x)
  <2>1. Keep(out, x) = new
    BY <1>2, <1>5 DEF Keep, Range
  <2>2. /\ new \in Seq(ReadableRanges) /\ Len(new) = m + 1
        /\ \A i \in 1 .. m : new[i] = out[i]
        /\ new[m + 1] = x
    BY <1>1, <1>2, <1>3, AppendProperties DEF m
  <2> HIDE DEF new
  <2>3. /\ \A i \in 1 .. m : i \in 1 .. m + 1
        /\ \A i \in 1 .. m + 1 : i \in 1 .. m \/ i = m + 1
        /\ m + 1 \in 1 .. m + 1
    BY <1>2
  <2>4. ASSUME NEW i \in 1 .. m + 1 PROVE \E j \in 1 .. k + 1 : new[i] = t[j]
    <3>1. CASE i = m + 1
      BY <1>3, <2>2, <3>1 DEF x
    <3>2. CASE i \in 1 .. m
      <4>1. PICK j \in 1 .. k : out[i] = t[j]
        BY <1>1, <3>2
      <4>2. new[i] = t[j] /\ j \in 1 .. k + 1
        BY <1>3, <2>2, <3>2, <4>1
      <4> QED
        BY <4>2
    <3> QED
      BY <2>3, <3>1, <3>2
  <2>5. ASSUME NEW j \in 1 .. k + 1 PROVE \E i \in 1 .. m + 1 : Covers(new[i], t[j])
    <3>1. CASE j = k + 1
      BY <1>3, <2>2, <2>3, <3>1, CoversItself DEF x
    <3>2. CASE j \in 1 .. k
      <4>1. PICK i \in 1 .. m : Covers(out[i], t[j])
        BY <1>1, <3>2
      <4> QED
        BY <2>2, <2>3, <4>1
    <3> QED
      BY <1>3, <3>1, <3>2
  <2>6. ASSUME NEW i \in 1 .. m PROVE ~Covers(x, out[i])
    <3>1. PICK j \in 1 .. k : out[i] = t[j]
      BY <1>1
    <3>2. SUFFICES ASSUME Covers(x, t[j]) PROVE FALSE
      BY <3>1
    <3>3. t[j] \in ReadableRanges
      BY <1>3
    <3>4. x = t[j] \/ Before(x, t[j])
      BY <1>3, <3>2, <3>3, CoveringComesFirst
    <3>5. ~Before(x, t[j])
      BY <1>3 DEF x
    <3>6. Covers(out[i], x)
      BY <1>3, <3>1, <3>4, <3>5, CoversItself
    <3> QED
      BY <1>5, <3>6
  <2>7. ASSUME NEW i \in 1 .. m + 1, NEW j \in 1 .. m + 1, i # j
        PROVE  ~Covers(new[i], new[j])
    <3>1. CASE i \in 1 .. m /\ j \in 1 .. m
      BY <1>1, <2>2, <2>7, <3>1
    <3>2. CASE i = m + 1 /\ j \in 1 .. m
      BY <2>2, <2>6, <3>2
    <3>3. CASE i \in 1 .. m /\ j = m + 1
      BY <1>5, <2>2, <3>3
    <3> QED
      BY <2>3, <2>7, <3>1, <3>2, <3>3
  <2>8. Merged(t, k + 1, new)
    BY <2>2, <2>4, <2>5, <2>7 DEF Merged
  <2> QED
    BY <2>1, <2>8 DEF x
<1> QED
  BY <1>4, <1>5

LEMMA MergeMerges ==
    ASSUME NEW ranges \in Seq(ReadableRanges)
    PROVE  Merged(Sorted(ranges), Len(ranges), MergeRanges(ranges))
<1>1. PICK n, t : n = Len(ranges) /\ t = Sorted(ranges)
  OBVIOUS
<1>2. /\ n \in Nat /\ t \in Seq(ReadableRanges) /\ Len(t) = n
      /\ \A i \in 1 .. n : t[i] \in ReadableRanges
      /\ \A i, j \in 1 .. n : i < j => ~Before(t[j], t[i])
  BY <1>1, SortedFacts
<1>3. PICK r : Run(<<"keep", 0>>, << >>, t, n, r)
  BY <1>2, RunExists
<1>4. MergeRanges(ranges) = r[n]
  BY <1>1, <1>2, <1>3, KeepIsRun
<1>5. r[0] = << >> /\ \A k \in 1 .. n : r[k] = Keep(r[k - 1], t[k])
  BY <1>3 DEF Run, Take
<1> DEFINE S == {k \in 0 .. n : Merged(t, k, r[k])}
<1>6. 0 \in S
  <2>1. Merged(t, 0, << >>)
    BY EmptySeq DEF Merged
  <2> QED
    BY <1>2, <1>5, <2>1
<1>7. ASSUME NEW k \in S, k < n PROVE k + 1 \in S
  <2>1. k \in Nat /\ k + 1 <= n /\ k + 1 \in 1 .. n /\ (k + 1) - 1 = k /\ k + 1 \in 0 .. n
    BY <1>2, <1>7
  <2>2. r[k + 1] = Keep(r[k], t[k + 1])
    <3>1. r[k + 1] = Keep(r[(k + 1) - 1], t[k + 1])
      BY <1>5, <2>1
    <3> QED
      BY <2>1, <3>1
  <2>3. Merged(t, k + 1, Keep(r[k], t[k + 1]))
    BY <1>2, <1>7, <2>1, KeepMerges
  <2> QED
    BY <2>1, <2>2, <2>3
<1>8. S = 0 .. n
  <2> HIDE DEF S
  <2>1. S \in SUBSET (0 .. n)
    BY DEF S
  <2> QED
    BY <1>2, <1>6, <1>7, <2>1, Climb
<1>9. n \in S
  BY <1>2, <1>8
<1> QED
  BY <1>1, <1>4, <1>9

LEMMA MergeMaximal ==
    ASSUME NEW ranges \in Seq(ReadableRanges)
    PROVE  LET merged == MergeRanges(ranges)
               covered(rs, addr) == \E r \in Range(rs) : CidrContains(r, addr)
           IN  /\ \A addr \in Addresses : covered(merged, addr) <=> covered(ranges, addr)
               /\ \A i, j \in DOMAIN merged : i # j => ~Covers(merged[i], merged[j])
<1>1. PICK n, t, merged : n = Len(ranges) /\ t = Sorted(ranges) /\ merged = MergeRanges(ranges)
  OBVIOUS
<1>2. /\ n \in Nat /\ DOMAIN ranges = 1 .. n
      /\ \A i \in 1 .. n : t[i] \in ReadableRanges /\ \E j \in 1 .. n : t[i] = ranges[j]
      /\ \A j \in 1 .. n : \E i \in 1 .. n : t[i] = ranges[j]
  <2>1. n \in Nat /\ DOMAIN ranges = 1 .. n
    BY <1>1, LenProperties
  <2>2. SameRanges(ranges, t, n) /\ \A i \in 1 .. n : t[i] \in ReadableRanges
    BY <1>1, SortedFacts
  <2> QED
    BY <2>1, <2>2 DEF SameRanges
<1>3. Merged(t, n, merged)
  BY <1>1, MergeMerges
<1>4. /\ merged \in Seq(ReadableRanges)
      /\ \A i \in 1 .. Len(merged) : \E j \in 1 .. n : merged[i] = t[j]
      /\ \A j \in 1 .. n : \E i \in 1 .. Len(merged) : Covers(merged[i], t[j])
      /\ \A i, j \in 1 .. Len(merged) : i # j => ~Covers(merged[i], merged[j])
  BY <1>3 DEF Merged
<1>5. DOMAIN merged = 1 .. Len(merged) /\ \A i \in 1 .. Len(merged) : merged[i] \in ReadableRanges
  BY <1>4, LenProperties, ElementOfSeq
<1>6. ASSUME NEW addr \in Addresses, NEW r \in Range(merged), CidrContains(r, addr)
      PROVE  \E q \in Range(ranges) : CidrContains(q, addr)
  <2>1. PICK i \in 1 .. Len(merged) : r = merged[i]
    BY <1>5 DEF Range
  <2>2. PICK j \in 1 .. n : merged[i] = t[j]
    BY <1>4
  <2>3. PICK k \in 1 .. n : t[j] = ranges[k]
    BY <1>2
  <2>4. r \in Range(ranges)
    BY <1>2, <2>1, <2>2, <2>3 DEF Range
  <2> QED
    BY <1>6, <2>4
<1>7. ASSUME NEW addr \in Addresses, NEW r \in Range(ranges), CidrContains(r, addr)
      PROVE  \E q \in Range(merged) : CidrContains(q, addr)
  <2>1. PICK j \in 1 .. n : r = ranges[j]
    BY <1>2 DEF Range
  <2>2. PICK k \in 1 .. n : t[k] = ranges[j]
    BY <1>2
  <2>3. PICK i \in 1 .. Len(merged) : Covers(merged[i], t[k])
    BY <1>4
  <2>4. merged[i] \in ReadableRanges /\ t[k] \in ReadableRanges /\ CidrContains(t[k], addr)
    BY <1>2, <1>5, <1>7, <2>1, <2>2
  <2>5. CidrContains(merged[i], addr)
    BY <2>3, <2>4, CoveringContains
  <2>6. merged[i] \in Range(merged)
    BY <1>5 DEF Range
  <2> QED
    BY <2>5, <2>6
<1> QED
  BY <1>1, <1>4, <1>5, <1>6, <1>7

-----------------------------------------------------------------------------
(* Carries.                                                                *)

Carry(s) == (s % WordMod) + (s \div WordMod)

(* The loop of internet_checksum as an equation.                           *)
Carrying(f) ==
    f = [sum \in 0 .. WordMod * WordMod - 1 |->
            IF sum < WordMod THEN sum ELSE f[(sum % WordMod) + (sum \div WordMod)]]

LEMMA WordModBig == WordMod \in Nat /\ WordMod >= 4 /\ 2 * WordMod <= WordMod * WordMod
<1>1. ByteMod \in Nat /\ ByteMod >= 2
  BY RangesAssumption
<1>2. \A b \in Nat : b >= 2 => b * b \in Nat /\ b * b >= 2 * b
  <2> SUFFICES ASSUME NEW b \in Nat, b >= 2 PROVE b * b \in Nat /\ b * b >= 2 * b
    OBVIOUS
  <2>1. b * b = 2 * b + (b - 2) * b /\ (b - 2) * b >= 0
    OBVIOUS
  <2> QED
    BY <2>1
<1>3. ByteMod * ByteMod >= 4 /\ ByteMod * ByteMod \in Nat
  BY <1>1, <1>2
<1>4. WordMod \in Nat /\ WordMod >= 4
  BY <1>3 DEF WordMod
<1> HIDE DEF WordMod
<1> QED
  BY <1>2, <1>4

(* A carry takes away whole multiples of the largest word.                 *)
LEMMA CarryFacts ==
    ASSUME NEW s \in 0 .. WordMod * WordMod - 1
    PROVE  \E q \in Nat : /\ s = Carry(s) + q * (WordMod - 1)
                          /\ Carry(s) \in 0 .. 2 * WordMod - 2
                          /\ s >= WordMod => Carry(s) >= 1
                          /\ s <= 2 * WordMod - 2 => Carry(s) <= WordMod - 1
<1> DEFINE W == WordMod
           q == s \div W
           r == s % W
<1>1. W \in Nat /\ W >= 4 /\ s \in Nat /\ s < W * W
  BY WordModBig
<1> HIDE DEF W
<1>2. q \in Nat /\ r \in 0 .. W - 1 /\ s = W * q + r
  BY <1>1
<1> HIDE DEF q, r
<1>3. q < W
  <2>1. \A a \in Nat : a >= W => W * a >= W * W
    BY <1>1
  <2>2. W * q \in Nat /\ W * W \in Nat
    BY <1>1, <1>2
  <2> QED
    BY <1>1, <1>2, <2>1, <2>2
<1>4. W * q = q + q * (W - 1) /\ q * (W - 1) \in Nat
  BY <1>1, <1>2
<1>5. q >= 2 => W * q >= 2 * W
  BY <1>1, <1>2
<1>6. q = 0 => W * q = 0
  BY <1>1
<1>7. q = 1 => W * q = W
  BY <1>1
<1>8. s = (r + q) + q * (W - 1) /\ r + q \in 0 .. 2 * W - 2
  BY <1>1, <1>2, <1>3, <1>4
<1>9. s >= W => r + q >= 1
  BY <1>1, <1>2, <1>6
<1>10. s <= 2 * W - 2 => r + q <= W - 1
  <2>1. q = 0 \/ q = 1 \/ q >= 2
    BY <1>2
  <2>2. q >= 2 => ~(s <= 2 * W - 2)
    BY <1>1, <1>2, <1>5
  <2>3. q = 1 /\ s <= 2 * W - 2 => r <= W - 2
    BY <1>1, <1>2, <1>7
  <2> QED
    BY <1>1, <1>2, <2>1, <2>2, <2>3
<1>11. Carry(s) = r + q
  BY DEF Carry, W, q, r
<1> QED
  BY <1>2, <1>8, <1>9, <1>10, <1>11 DEF W

LEMMA CarryingExists == \E f : Carrying(f)
<1> DEFINE W == WordMod
           Sums == 0 .. W * W - 1
           f == [s \in Sums |-> IF s < W THEN s
                                ELSE IF Carry(s) < W THEN Carry(s) ELSE Carry(Carry(s))]
<1>1. W \in Nat /\ W >= 4 /\ 2 * W <= W * W /\ W * W \in Nat
  BY WordModBig
<1>2. \A s \in Sums : /\ Carry(s) \in 0 .. 2 * W - 2
                      /\ s <= 2 * W - 2 => Carry(s) <= W - 1
  BY CarryFacts
<1> HIDE DEF W
<1>3. ASSUME NEW s \in Sums
      PROVE  f[s] = IF s < W THEN s ELSE f[Carry(s)]
  <2> DEFINE c == Carry(s)
  <2>1. c \in 0 .. 2 * W - 2 /\ c \in Sums
    BY <1>1, <1>2
  <2>2. c >= W => Carry(c) < W
    <3>1. Carry(c) \in 0 .. 2 * W - 2 /\ Carry(c) <= W - 1
      BY <1>1, <1>2, <2>1
    <3> QED
      BY <1>1, <3>1
  <2>3. f[c] = IF c < W THEN c ELSE IF Carry(c) < W THEN Carry(c) ELSE Carry(Carry(c))
    <3> HIDE DEF c
    <3> QED
      BY <2>1
  <2>4. f[s] = IF s < W THEN s ELSE IF c < W THEN c ELSE Carry(c)
    OBVIOUS
  <2> HIDE DEF c, f, Sums
  <2>5. CASE c < W
    BY <2>3, <2>4, <2>5 DEF c
  <2>6. CASE c >= W
    <3>1. ~(c < W) /\ Carry(c) < W
      BY <1>1, <2>1, <2>2, <2>6
    <3> QED
      BY <2>3, <2>4, <3>1 DEF c
  <2> QED
    BY <1>1, <2>1, <2>5, <2>6
<1>4. f = [s \in Sums |-> f[s]]
  OBVIOUS
<1> HIDE DEF f
<1>5. f = [s \in Sums |-> IF s < W THEN s ELSE f[Carry(s)]]
  BY <1>3, <1>4
<1>6. Carrying(f)
  BY <1>5 DEF Carrying, Carry, W
<1> QED
  BY <1>6

(* When the carries are through, a word is left, which is no zero unless   *)
(* the sum was.                                                            *)
LEMMA CarriedFacts ==
    ASSUME NEW f, Carrying(f), NEW s \in 0 .. WordMod * WordMod - 1
    PROVE  /\ f[s] \in 0 .. WordMod - 1
           /\ s > 0 => f[s] > 0
           /\ \E k \in Nat : s = f[s] + k * (WordMod - 1)
<1> DEFINE W == WordMod
           Sums == 0 .. W * W - 1
<1>1. W \in Nat /\ W >= 4 /\ 2 * W <= W * W /\ W * W \in Nat
  BY WordModBig
<1>2. \A a \in Sums : f[a] = IF a < W THEN a ELSE f[Carry(a)]
  BY DEF Carrying, Carry
<1>3. \A a \in Sums : \E q \in Nat : /\ a = Carry(a) + q * (W - 1)
                                     /\ Carry(a) \in 0 .. 2 * W - 2
                                     /\ a >= W => Carry(a) >= 1
                                     /\ a <= 2 * W - 2 => Carry(a) <= W - 1
  BY CarryFacts
<1> HIDE DEF W
<1>4. s \in Sums /\ s \in Nat
  BY DEF W
<1>5. CASE s < W
  <2>1. f[s] = s
    BY <1>2, <1>4, <1>5
  <2>2. s = f[s] + 0 * (W - 1)
    BY <1>1, <1>4, <2>1
  <2> QED
    BY <1>1, <1>4, <1>5, <2>1, <2>2 DEF W
<1>6. CASE s >= W
  <2> DEFINE c == Carry(s)
  <2>1. PICK q \in Nat : s = c + q * (W - 1) /\ c \in 0 .. 2 * W - 2 /\ c >= 1
    BY <1>3, <1>4, <1>6
  <2>2. f[s] = f[c]
    BY <1>1, <1>2, <1>4, <1>6
  <2> HIDE DEF c
  <2>3. c \in Sums
    BY <1>1, <2>1
  <2>4. CASE c < W
    <3>1. f[s] = c
      BY <1>2, <2>2, <2>3, <2>4
    <3>2. c \in 0 .. W - 1 /\ c > 0
      BY <1>1, <2>1, <2>4
    <3> QED
      BY <2>1, <3>1, <3>2 DEF W
  <2>5. CASE c >= W
    <3> DEFINE d == Carry(c)
    <3>1. PICK p \in Nat : /\ c = d + p * (W - 1)
                           /\ d \in 0 .. 2 * W - 2 /\ d >= 1 /\ d <= W - 1
      BY <1>3, <2>1, <2>3, <2>5
    <3>2. f[c] = f[d]
      BY <1>1, <1>2, <2>1, <2>3, <2>5
    <3> HIDE DEF d
    <3>3. d \in Sums /\ d < W /\ d \in 0 .. W - 1 /\ d > 0
      BY <1>1, <3>1
    <3>4. f[s] = d
      BY <1>2, <2>2, <3>2, <3>3
    <3>5. s = d + (p + q) * (W - 1)
      <4>1. \A x, y, z \in Nat : x * z + y * z = (x + y) * z
        OBVIOUS
      <4>2. p * (W - 1) + q * (W - 1) = (p + q) * (W - 1)
        BY <1>1, <4>1
      <4>3. p * (W - 1) \in Nat /\ q * (W - 1) \in Nat
        BY <1>1
      <4> QED
        BY <2>1, <3>1, <4>2, <4>3
    <3> QED
      BY <3>3, <3>4, <3>5 DEF W
  <2> QED
    BY <1>1, <2>1, <2>4, <2>5
<1> QED
  BY <1>1, <1>4, <1>5, <1>6

(* The words of bytes are as many as half of them, and each is a word.     *)
LEMMA WordsFacts ==
    ASSUME NEW bytes \in Seq(0 .. ByteMod - 1)
    PROVE  /\ Words(bytes) \in Seq(0 .. WordMod - 1)
           /\ Len(Words(bytes)) = (Len(bytes) + 1) \div 2 /\ Len(Words(bytes)) \in Nat
           /\ DOMAIN Words(bytes) = 1 .. Len(Words(bytes))
<1> DEFINE n == (Len(bytes) + 1) \div 2
           B == ByteMod
           word(i) == bytes[2 * i - 1] * B + (IF 2 * i <= Len(bytes) THEN bytes[2 * i] ELSE 0)
<1>1. B \in Nat /\ B >= 2 /\ B * B \in Nat
  BY RangesAssumption
<1>2. Len(bytes) \in Nat /\ \A k \in 1 .. Len(bytes) : bytes[k] \in 0 .. B - 1
  BY LenProperties, ElementOfSeq
<1>3. n \in Nat /\ 2 * n <= Len(bytes) + 1
  BY <1>2
<1> HIDE DEF B, n
<1>4. ASSUME NEW x \in 0 .. B - 1, NEW y \in 0 .. B - 1 PROVE x * B + y \in 0 .. B * B - 1
  <2>1. x * B <= (B - 1) * B /\ (B - 1) * B = B * B - B /\ x * B \in Nat
    <3>1. \A d \in Nat : d * B >= 0
      BY <1>1
    <3>2. (B - 1) * B = x * B + ((B - 1) - x) * B /\ (B - 1) - x \in Nat
      BY <1>1, <1>4
    <3> QED
      BY <1>1, <1>4, <3>1, <3>2
  <2> QED
    BY <1>1, <1>4, <2>1
<1>5. ASSUME NEW i \in 1 .. n PROVE word(i) \in 0 .. B * B - 1
  <2>1. 2 * i - 1 \in 1 .. Len(bytes) /\ (2 * i <= Len(bytes) => 2 * i \in 1 .. Len(bytes))
    BY <1>2, <1>3, <1>5
  <2>2. bytes[2 * i - 1] \in 0 .. B - 1
        /\ (IF 2 * i <= Len(bytes) THEN bytes[2 * i] ELSE 0) \in 0 .. B - 1
    BY <1>1, <1>2, <2>1
  <2> QED
    BY <1>4, <2>2
<1>6. Words(bytes) = [i \in 1 .. n |-> word(i)]
  BY DEF Words, n, B
<1> HIDE DEF word
<1>7. Words(bytes) \in [1 .. n -> 0 .. WordMod - 1]
  BY <1>5, <1>6 DEF WordMod, B
<1>8. Words(bytes) \in Seq(0 .. WordMod - 1) /\ Len(Words(bytes)) = n
  BY <1>3, <1>7, LenOfFunction
<1> QED
  BY <1>3, <1>7, <1>8 DEF n

(* A sum of as many words as there are words fits twice a word.            *)
LEMMA TotalFits ==
    ASSUME NEW words \in Seq(0 .. WordMod - 1), Len(words) <= WordMod
    PROVE  Total(words) \in Nat /\ Total(words) < WordMod * WordMod
<1> DEFINE n == Len(words)
           W == WordMod
<1>1. W \in Nat /\ W >= 4 /\ W * W \in Nat
  BY WordModBig
<1>2. n \in Nat /\ \A k \in 1 .. n : words[k] \in 0 .. W - 1
  BY LenProperties, ElementOfSeq
<1>3. PICK r : Run(<<"sum", 0>>, 0, words, n, r)
  BY <1>2, RunExists
<1>4. Total(words) = r[n]
  BY <1>3, SumIsRun
<1> HIDE DEF n, W
<1>5. r[0] = 0 /\ \A k \in 1 .. n : r[k] = r[k - 1] + words[k]
  BY <1>3 DEF Run, Take
<1> DEFINE S == {k \in 0 .. n : r[k] \in Nat /\ r[k] <= k * (W - 1)}
<1>6. 0 \in S
  BY <1>1, <1>2, <1>5
<1>7. ASSUME NEW k \in S, k < n PROVE k + 1 \in S
  <2>1. /\ k \in Nat /\ k + 1 \in 0 .. n /\ k + 1 \in 1 .. n /\ (k + 1) - 1 = k
        /\ r[k] \in Nat /\ r[k] <= k * (W - 1)
    BY <1>2, <1>7
  <2>2. r[k + 1] = r[k] + words[k + 1]
    BY <1>5, <2>1
  <2>3. words[k + 1] \in Nat /\ words[k + 1] <= W - 1
    BY <1>1, <1>2, <2>1
  <2>4. (k + 1) * (W - 1) = k * (W - 1) + (W - 1) /\ k * (W - 1) \in Nat
    BY <1>1, <2>1
  <2>5. r[k + 1] \in Nat /\ r[k + 1] <= (k + 1) * (W - 1)
    BY <1>1, <2>1, <2>2, <2>3, <2>4
  <2> QED
    BY <2>1, <2>5
<1>8. S = 0 .. n
  <2> HIDE DEF S
  <2>1. S \in SUBSET (0 .. n)
    BY DEF S
  <2> QED
    BY <1>2, <1>6, <1>7, <2>1, Climb
<1>9. n \in S
  BY <1>2, <1>8
<1>10. n * (W - 1) <= W * (W - 1)
  <2>1. W * (W - 1) = n * (W - 1) + (W - n) * (W - 1) /\ W - n \in Nat
    BY <1>1, <1>2 DEF n, W
  <2>2. (W - n) * (W - 1) >= 0
    BY <1>1, <2>1
  <2> QED
    BY <1>1, <1>2, <2>1, <2>2
<1>11. W * (W - 1) = W * W - W
  BY <1>1
<1>12. r[n] \in Nat /\ r[n] <= n * (W - 1) /\ n * (W - 1) \in Nat
  BY <1>1, <1>2, <1>9
<1> QED
  BY <1>1, <1>4, <1>10, <1>11, <1>12 DEF W

(* One word more adds what it has more to the sum.                         *)
LEMMA TotalChanged ==
    ASSUME NEW words \in Seq(0 .. WordMod - 1), NEW changed \in Seq(0 .. WordMod - 1),
           Len(changed) = Len(words), NEW i \in 1 .. Len(words), words[i] = 0,
           \A k \in 1 .. Len(words) : k # i => changed[k] = words[k]
    PROVE  Total(changed) = Total(words) + changed[i]
<1> DEFINE n == Len(words)
           W == WordMod
<1>1. W \in Nat /\ W >= 4
  BY WordModBig
<1>2. n \in Nat /\ \A k \in 1 .. n : words[k] \in 0 .. W - 1 /\ changed[k] \in 0 .. W - 1
  BY LenProperties, ElementOfSeq
<1>3. PICK r : Run(<<"sum", 0>>, 0, words, n, r)
  BY <1>2, RunExists
<1>4. PICK q : Run(<<"sum", 0>>, 0, changed, n, q)
  BY <1>2, RunExists
<1>5. Total(words) = r[n] /\ Total(changed) = q[n]
  BY <1>3, <1>4, SumIsRun
<1>6. i \in 1 .. n /\ words[i] = 0 /\ \A k \in 1 .. n : k # i => changed[k] = words[k]
  OBVIOUS
<1> HIDE DEF n, W
<1>7. /\ r[0] = 0 /\ \A k \in 1 .. n : r[k] = r[k - 1] + words[k]
      /\ q[0] = 0 /\ \A k \in 1 .. n : q[k] = q[k - 1] + changed[k]
  BY <1>3, <1>4 DEF Run, Take
<1> DEFINE More(k) == IF k < i THEN 0 ELSE changed[i]
           S == {k \in 0 .. n : r[k] \in Nat /\ q[k] = r[k] + More(k)}
<1>8. 0 \in S
  BY <1>2, <1>6, <1>7
<1>9. ASSUME NEW k \in S, k < n PROVE k + 1 \in S
  <2>1. /\ k \in Nat /\ k + 1 \in 0 .. n /\ k + 1 \in 1 .. n /\ (k + 1) - 1 = k
        /\ r[k] \in Nat /\ q[k] = r[k] + More(k)
    BY <1>2, <1>9
  <2>2. r[k + 1] = r[k] + words[k + 1] /\ q[k + 1] = q[k] + changed[k + 1]
    BY <1>7, <2>1
  <2>3. words[k + 1] \in Nat /\ changed[k + 1] \in Nat /\ changed[i] \in Nat
    BY <1>1, <1>2, <1>6, <2>1
  <2>4. CASE k + 1 = i
    <3>1. More(k) = 0 /\ More(k + 1) = changed[i] /\ words[k + 1] = 0
      BY <1>6, <2>1, <2>4
    <3> HIDE DEF More
    <3> QED
      BY <2>1, <2>2, <2>3, <2>4, <3>1
  <2>5. CASE k + 1 # i
    <3>1. changed[k + 1] = words[k + 1]
      BY <1>6, <2>1, <2>5
    <3>2. More(k + 1) = More(k) /\ More(k) \in Nat
      BY <1>6, <2>1, <2>3, <2>5
    <3> HIDE DEF More
    <3> QED
      BY <2>1, <2>2, <2>3, <3>1, <3>2
  <2> QED
    BY <2>4, <2>5
<1>10. S = 0 .. n
  <2> HIDE DEF S
  <2>1. S \in SUBSET (0 .. n)
    BY DEF S
  <2> QED
    BY <1>2, <1>8, <1>9, <2>1, Climb
<1>11. n \in S
  <2> HIDE DEF S
  <2>1. n \in 0 .. n
    BY <1>2
  <2> QED
    BY <1>10, <2>1
<1>12. q[n] = r[n] + changed[i]
  <2>1. q[n] = r[n] + More(n)
    BY <1>11
  <2>2. ~(n < i)
    BY <1>2, <1>6
  <2> QED
    BY <2>1, <2>2
<1> QED
  BY <1>5, <1>12

(* The new bytes, and the words that they are.                             *)
Placed(bytes, i, high, low) == [bytes EXCEPT ![2 * i - 1] = high, ![2 * i] = low]

LEMMA PlacedWords ==
    ASSUME NEW bytes \in Seq(0 .. ByteMod - 1), NEW i \in 1 .. Len(bytes) \div 2,
           bytes[2 * i - 1] = 0, bytes[2 * i] = 0,
           NEW high \in 0 .. ByteMod - 1, NEW low \in 0 .. ByteMod - 1
    PROVE  /\ Placed(bytes, i, high, low) \in Seq(0 .. ByteMod - 1)
           /\ Len(Words(Placed(bytes, i, high, low))) = Len(Words(bytes))
           /\ i \in 1 .. Len(Words(bytes))
           /\ Words(bytes)[i] = 0
           /\ Words(Placed(bytes, i, high, low))[i] = high * ByteMod + low
           /\ \A k \in 1 .. Len(Words(bytes)) :
                  k # i => Words(Placed(bytes, i, high, low))[k] = Words(bytes)[k]
<1> DEFINE B == ByteMod
           m == Len(bytes)
           n == (m + 1) \div 2
           new == Placed(bytes, i, high, low)
           word(s, k) == s[2 * k - 1] * B + (IF 2 * k <= m THEN s[2 * k] ELSE 0)
<1>1. B \in Nat /\ B >= 2
  BY RangesAssumption
<1>2. m \in Nat /\ bytes \in [1 .. m -> 0 .. B - 1]
  BY LenProperties
<1>3. n \in Nat /\ 2 * n <= m + 1 /\ i \in 1 .. n /\ i \in Nat /\ 2 * i <= m
      /\ 2 * i - 1 \in 1 .. m /\ 2 * i \in 1 .. m
  BY <1>2
<1>4. /\ new \in [1 .. m -> 0 .. B - 1]
      /\ new[2 * i - 1] = high /\ new[2 * i] = low
      /\ \A k \in 1 .. m : k # 2 * i - 1 /\ k # 2 * i => new[k] = bytes[k]
  <2> HIDE DEF m
  <2>1. new = [bytes EXCEPT ![2 * i - 1] = high, ![2 * i] = low]
    BY DEF Placed
  <2>2. high \in 0 .. B - 1 /\ low \in 0 .. B - 1
    OBVIOUS
  <2>3. 2 * i - 1 # 2 * i
    BY <1>3
  <2> HIDE DEF new, B, n
  <2> QED
    BY <1>2, <1>3, <2>1, <2>2, <2>3
<1>5. new \in Seq(0 .. B - 1) /\ Len(new) = m
  <2> HIDE DEF new, m
  <2> QED
    BY <1>2, <1>4, LenOfFunction
<1>6. Words(bytes) = [k \in 1 .. n |-> word(bytes, k)]
  BY DEF Words
<1>7. Words(new) = [k \in 1 .. n |-> word(new, k)]
  <2> HIDE DEF new, m
  <2> QED
    BY <1>5 DEF Words
<1>8. Len(Words(bytes)) = n /\ Len(Words(new)) = n
  <2>1. Len(Words(bytes)) = n
    BY WordsFacts
  <2>2. Len(Words(new)) = (Len(new) + 1) \div 2
    <3> HIDE DEF new
    <3> QED
      BY <1>5, WordsFacts DEF B
  <2> QED
    BY <1>5, <2>1, <2>2
<1>9. bytes[2 * i - 1] = 0 /\ bytes[2 * i] = 0
  OBVIOUS
<1> HIDE DEF new, m, n, B
<1>10. word(bytes, i) = 0
  BY <1>1, <1>3, <1>9
<1>11. word(new, i) = high * B + low
  BY <1>3, <1>4
<1>12. ASSUME NEW k \in 1 .. n, k # i PROVE word(new, k) = word(bytes, k)
  <2>1. 2 * k - 1 \in 1 .. m /\ 2 * k - 1 # 2 * i - 1 /\ 2 * k - 1 # 2 * i
    BY <1>2, <1>3, <1>12
  <2>2. 2 * k <= m => 2 * k \in 1 .. m
    BY <1>2, <1>3, <1>12
  <2>3. 2 * k # 2 * i - 1 /\ 2 * k # 2 * i
    BY <1>3, <1>12
  <2> QED
    BY <1>4, <2>1, <2>2, <2>3
<1> HIDE DEF word
<1> QED
  BY <1>3, <1>5, <1>6, <1>7, <1>8, <1>10, <1>11, <1>12 DEF new, B

(* The words of a header with its checksum add up to a multiple of the     *)
(* largest word that is not zero: the carries leave just that word.        *)
LEMMA ChecksumExact ==
    ASSUME NEW bytes \in Seq(0 .. ByteMod - 1), (Len(bytes) + 1) \div 2 <= WordMod,
           NEW i \in 1 .. Len(bytes) \div 2, bytes[2 * i - 1] = 0, bytes[2 * i] = 0
    PROVE  InternetChecksum(Placed(bytes, i, InternetChecksum(bytes) \div ByteMod,
                                             InternetChecksum(bytes) % ByteMod)) = 0
<1> DEFINE E == CHOOSE f : Carrying(f)
           W == WordMod
           B == ByteMod
           c == InternetChecksum(bytes)
           new == Placed(bytes, i, c \div B, c % B)
           s == Total(Words(bytes))
           t == Total(Words(new))
<1>1. Carrying(E)
  BY CarryingExists
<1>2. W \in Nat /\ W >= 4 /\ W * W \in Nat /\ B \in Nat /\ B >= 2 /\ W = B * B
  BY WordModBig, RangesAssumption DEF WordMod
<1>3. \A x : InternetChecksum(x) = (W - 1) - E[Total(Words(x)) % (W * W)]
  BY DEF InternetChecksum, Carrying
<1>4. /\ Words(bytes) \in Seq(0 .. W - 1) /\ Len(Words(bytes)) <= W
  BY WordsFacts
<1>5. s \in Nat /\ s < W * W
  BY <1>4, TotalFits
<1>6. E[s] \in 0 .. W - 1 /\ \E k \in Nat : s = E[s] + k * (W - 1)
  <2> HIDE DEF E, s
  <2>1. s \in 0 .. W * W - 1
    BY <1>2, <1>5
  <2> QED
    BY <1>1, <2>1, CarriedFacts
<1>7. \A a \in Nat : a < W * W => a % (W * W) = a
  <2>1. \A m \in Nat \ {0}, a \in Nat : a < m => a % m = a
    OBVIOUS
  <2> HIDE DEF W
  <2>2. W * W \in Nat \ {0}
    <3>1. 2 * W <= W * W
      BY WordModBig DEF W
    <3> QED
      BY <1>2, <3>1
  <2> QED
    BY <2>1, <2>2
<1>8. c = (W - 1) - E[s]
  BY <1>3, <1>5, <1>7
<1>9. c \in 0 .. B * B - 1 /\ c \in Nat /\ c < B * B
  <2> DEFINE e == E[s]
  <2>1. e \in 0 .. W - 1 /\ c = (W - 1) - e
    BY <1>6, <1>8
  <2> HIDE DEF c, e, W, B
  <2>2. c \in 0 .. W - 1 /\ c \in Nat /\ c < W
    BY <1>2, <2>1
  <2>3. W = B * B
    BY <1>2
  <2> QED
    BY <2>2, <2>3
<1>10. c \div B \in 0 .. B - 1 /\ c % B \in 0 .. B - 1 /\ (c \div B) * B + (c % B) = c
  <2> HIDE DEF c, B, W, E, s
  <2>1. c \div B \in Nat /\ c % B \in 0 .. B - 1 /\ c = B * (c \div B) + (c % B)
    BY <1>2, <1>9
  <2>2. c \div B < B
    <3> DEFINE q == c \div B
    <3>1. \A a \in Nat : a >= B => B * a >= B * B
      BY <1>2
    <3>2. q \in Nat /\ B * q <= c /\ B * q \in Nat
      BY <1>2, <1>9, <2>1
    <3> HIDE DEF q
    <3>3. ~(q >= B)
      BY <1>2, <1>9, <3>1, <3>2
    <3>4. q < B
      BY <1>2, <3>2, <3>3
    <3> QED
      BY <3>4 DEF q
  <2>3. B * (c \div B) = (c \div B) * B
    <3> DEFINE q == c \div B
    <3>1. q \in Nat
      BY <2>1
    <3> HIDE DEF q
    <3>2. B * q = q * B
      BY <1>2, <3>1
    <3> QED
      BY <3>2 DEF q
  <2>4. c \div B \in 0 .. B - 1
    <3> DEFINE q == c \div B
    <3>1. q \in Nat /\ q < B
      BY <2>1, <2>2
    <3> HIDE DEF q
    <3>2. q \in 0 .. B - 1
      BY <1>2, <3>1
    <3> QED
      BY <3>2 DEF q
  <2>5. (c \div B) * B + (c % B) = c
    BY <2>1, <2>3
  <2> QED
    BY <2>1, <2>4, <2>5
<1>11. /\ new \in Seq(0 .. B - 1) /\ Len(Words(new)) = Len(Words(bytes))
       /\ i \in 1 .. Len(Words(bytes)) /\ Words(bytes)[i] = 0 /\ Words(new)[i] = c
       /\ \A k \in 1 .. Len(Words(bytes)) : k # i => Words(new)[k] = Words(bytes)[k]
  <2> DEFINE high == c \div B
             low == c % B
  <2>1. high \in 0 .. B - 1 /\ low \in 0 .. B - 1 /\ high * B + low = c
    BY <1>10
  <2> HIDE DEF c, E, s, W, high, low
  <2>2. /\ Placed(bytes, i, high, low) \in Seq(0 .. B - 1)
        /\ Len(Words(Placed(bytes, i, high, low))) = Len(Words(bytes))
        /\ i \in 1 .. Len(Words(bytes)) /\ Words(bytes)[i] = 0
        /\ Words(Placed(bytes, i, high, low))[i] = high * B + low
        /\ \A k \in 1 .. Len(Words(bytes)) :
              k # i => Words(Placed(bytes, i, high, low))[k] = Words(bytes)[k]
    BY <2>1, PlacedWords, ZenonT(30)
  <2>3. new = Placed(bytes, i, high, low)
    BY DEF high, low
  <2> HIDE DEF new, B
  <2> QED
    BY <2>1, <2>2, <2>3, Zenon
<1>12. Words(new) \in Seq(0 .. W - 1)
  <2> HIDE DEF new
  <2> QED
    BY <1>11, WordsFacts DEF B
<1> HIDE DEF new, c
<1>13. t = s + c
  BY <1>4, <1>11, <1>12, TotalChanged
<1>14. t \in Nat /\ t < W * W
  BY <1>4, <1>11, <1>12, TotalFits
<1>15. E[t] \in 0 .. W - 1 /\ (t > 0 => E[t] > 0) /\ \E k \in Nat : t = E[t] + k * (W - 1)
  <2> HIDE DEF E, t
  <2>1. t \in 0 .. W * W - 1
    BY <1>2, <1>14
  <2> QED
    BY <1>1, <2>1, CarriedFacts
<1>16. E[t] = W - 1
  <2> HIDE DEF E, s, t, W
  <2>1. PICK k \in Nat : s = E[s] + k * (W - 1)
    BY <1>6
  <2>2. PICK j \in Nat : t = E[t] + j * (W - 1)
    BY <1>15
  <2> DEFINE D == W - 1
             e == E[t]
  <2>3. D \in Nat /\ D >= 3 /\ e \in 0 .. D /\ k \in Nat /\ j \in Nat
    BY <1>2, <1>15
  <2>4. t = D + k * D
    <3>1. s = E[s] + k * D /\ c = D - E[s] /\ E[s] \in 0 .. D
      BY <1>6, <1>8, <2>1
    <3>2. k * D \in Nat
      BY <2>3
    <3> HIDE DEF D
    <3> QED
      BY <1>13, <2>3, <3>1, <3>2
  <2>5. t = e + j * D /\ e > 0
    <3>1. k * D >= 0 /\ k * D \in Nat
      BY <2>3
    <3>2. t > 0
      BY <2>3, <2>4, <3>1
    <3> QED
      BY <1>15, <2>2, <3>2
  <2> HIDE DEF D, e
  <2>6. ASSUME NEW a \in Nat, NEW b \in Nat, a < b PROVE b * D >= a * D + D
    <3>1. b * D = a * D + D + (b - a - 1) * D /\ b - a - 1 \in Nat
      BY <2>3, <2>6
    <3>2. (b - a - 1) * D \in Nat /\ a * D \in Nat
      BY <2>3, <3>1
    <3> QED
      BY <2>3, <3>1, <3>2
  <2>7. k * D \in Nat /\ j * D \in Nat
    BY <2>3
  <2>8. e + j * D = D + k * D
    BY <2>4, <2>5
  <2>9. ~(j < k)
    <3>1. j < k => k * D >= j * D + D
      BY <2>6
    <3> QED
      BY <2>3, <2>7, <2>8, <3>1
  <2>10. ~(k < j)
    <3>1. k < j => j * D >= k * D + D
      BY <2>6
    <3> QED
      BY <2>3, <2>5, <2>7, <2>8, <3>1
  <2>11. j = k
    BY <2>3, <2>9, <2>10
  <2>12. e = D
    BY <2>3, <2>7, <2>8, <2>11
  <2> QED
    BY <2>12 DEF e, D
<1>17. t % (W * W) = t
  BY <1>7, <1>14
<1>18. InternetChecksum(new) = 0
  <2>1. InternetChecksum(new) = (W - 1) - E[t]
    BY <1>3, <1>17
  <2> HIDE DEF E, t
  <2> QED
    BY <1>2, <1>16, <2>1
<1> QED
  BY <1>18 DEF new, c

-----------------------------------------------------------------------------
(* Questions and answers.                                                  *)

Asked == call.of \in DOMAIN Questions /\ call.arg \in Questions[call.of]

AnswerIs(of, value) == call.of = of /\ answer # << >> => answer = <<value>>

(* The answer is the function's for its argument, and the argument is one  *)
(* of the questions, so that it is of the function's kind.                 *)
AnswersRight ==
    /\ AnswerIs("number", ReadNumber(call.arg.text, call.arg.max))
    /\ AnswerIs("cidr", ParseCidr(call.arg.addr, call.arg.prefixes))
    /\ AnswerIs("merge", MergeRanges(call.arg))
    /\ AnswerIs("checksum", InternetChecksum(call.arg))
    /\ AnswerIs("normal time", NormalizeTimestamp(call.arg.seconds, call.arg.nanos))
    /\ AnswerIs("unix time", ParseUnixTimestamp(call.arg))

LibraryInv == ReaderInv /\ (call = Walking \/ Asked) /\ AnswersRight

(* Only the function that is asked answers, and nobody asks again.         *)
LEMMA OneAnswer ==
    ASSUME [Next]_vars
    PROVE  /\ call' = call /\ [ReaderNext]_readerVars
           /\ \/ answer' = answer
              \/ call.of = "number" /\ answer' = <<ReadNumber(call.arg.text, call.arg.max)>>
              \/ call.of = "cidr" /\ answer' = <<ParseCidr(call.arg.addr, call.arg.prefixes)>>
              \/ call.of = "merge" /\ answer' = <<MergeRanges(call.arg)>>
              \/ call.of = "checksum" /\ answer' = <<InternetChecksum(call.arg)>>
              \/ call.of = "normal time" /\ answer' = <<NormalizeTimestamp(call.arg.seconds, call.arg.nanos)>>
              \/ call.of = "unix time" /\ answer' = <<ParseUnixTimestamp(call.arg)>>
              \/ call.of \notin {"number", "cidr", "merge", "checksum", "normal time", "unix time"}
<1>1. CASE Walk
  BY <1>1 DEF Walk
<1>2. CASE AskNumber \/ AskCidr \/ AskMerge \/ AskKind
  BY <1>2 DEF AskNumber, AskCidr, AskMerge, AskKind, Answer
<1>3. CASE AskChecksum \/ AskNormalTime \/ AskUnixTime
  BY <1>3 DEF AskChecksum, AskNormalTime, AskUnixTime, Answer
<1>4. CASE AskComment \/ AskOptions \/ AskPorts \/ AskIni \/ AskCsv
  BY <1>4 DEF AskComment, AskOptions, AskPorts, AskIni, AskCsv, Answer
<1>5. CASE AskService \/ AskExposure \/ AskRisk \/ AskCategory
  BY <1>5 DEF AskService, AskExposure, AskRisk, AskCategory, Answer
<1>6. CASE AskType \/ AskSignal \/ AskOption \/ AskSetting
  BY <1>6 DEF AskType, AskSignal, AskOption, AskSetting, Answer
<1>7. CASE AskOptionsKnown \/ AskSettingsKnown
  <2>1. call.of \in {"options known", "settings known"} /\ UNCHANGED <<readerVars, call>>
    BY <1>7 DEF AskOptionsKnown, AskSettingsKnown, Answer
  <2> QED
    BY <2>1
<1>8. CASE UNCHANGED vars
  BY <1>8 DEF vars, readerVars
<1> QED
  BY <1>1, <1>2, <1>3, <1>4, <1>5, <1>6, <1>7, <1>8 DEF Next

LEMMA LibraryInitially == Init => LibraryInv
<1> SUFFICES ASSUME Init PROVE LibraryInv
  OBVIOUS
<1>1. AnswersRight
  BY DEF Init, AnswersRight, AnswerIs
<1>2. CASE ReaderInit /\ call = Walking
  BY <1>1, <1>2, ReaderInitially DEF LibraryInv
<1>3. CASE /\ size = 0 /\ data = "null" /\ offset = 0 /\ asked = 0 /\ span = NoSpan
           /\ \E of \in DOMAIN Questions : \E arg \in Questions[of] : call = [of |-> of, arg |-> arg]
  <2>1. ReaderInv
    BY <1>3, SizeModAssumption, NoSpanType DEF ReaderInv, Sizes, Data, SpansInside, NoSpan
  <2>2. Asked
    BY <1>3 DEF Asked
  <2> QED
    BY <1>1, <2>1, <2>2 DEF LibraryInv
<1> QED
  BY <1>2, <1>3 DEF Init

LEMMA LibraryStep == LibraryInv /\ [Next]_vars => LibraryInv'
<1> SUFFICES ASSUME LibraryInv, [Next]_vars PROVE LibraryInv'
  OBVIOUS
<1>1. ReaderInv'
  BY OneAnswer, ReaderStep DEF LibraryInv
<1>2. (call = Walking \/ Asked)'
  BY OneAnswer DEF LibraryInv, Asked, Walking
<1>3. AnswersRight'
  BY OneAnswer DEF LibraryInv, AnswersRight, AnswerIs
<1> QED
  BY <1>1, <1>2, <1>3 DEF LibraryInv

(* The argument of a question that was answered is of its function's kind. *)
LEMMA AskedKind ==
    ASSUME LibraryInv, NEW of, call.of = of, of # "reader"
    PROVE  of \in DOMAIN Questions /\ call.arg \in Questions[of]
  BY DEF LibraryInv, Asked, Walking

LEMMA RangesFollow == LibraryInv => RangesExact
<1> SUFFICES ASSUME LibraryInv PROVE RangesExact
  OBVIOUS
<1>1. ContainsIsPrefix
  <2> DEFINE addr == call.arg.addr
  <2> SUFFICES ASSUME Answered("cidr"), NEW r \in answer[1]
               PROVE  /\ r \in ReadableRanges
                      /\ \A a \in Addresses :
                             CidrContains(r, a) <=> RangeContains(SubSeq(addr, 1, r.prefix), a)
    BY DEF ContainsIsPrefix
  <2>1. addr \in Addresses \cup {NoAddress} /\ call.arg.prefixes \in Seq(Numerals)
    BY AskedKind, QuestionsAssumption DEF Answered
  <2>2. r \in ParseCidr(addr, call.arg.prefixes)
    BY DEF Answered, LibraryInv, AnswersRight, AnswerIs
  <2>3. addr \in Addresses /\ r \in ReadableRanges /\ \A i \in 1 .. r.prefix : r.network[i] = addr[i]
    BY <2>1, <2>2, CidrReadable
  <2>4. r \in [network : Addresses, prefix : 0 .. AddrBits] /\ r.prefix \in 0 .. AddrBits
    BY <2>3 DEF ReadableRanges
  <2> HIDE DEF addr
  <2>5. ASSUME NEW a \in Addresses
        PROVE  CidrContains(r, a) <=> RangeContains(SubSeq(addr, 1, r.prefix), a)
    <3>1. CidrContains(r, a) <=> \A i \in 1 .. r.prefix : a[i] = r.network[i]
      BY <2>4, ContainsBits
    <3>2. RangeContains(SubSeq(addr, 1, r.prefix), a) <=> \A i \in 1 .. r.prefix : a[i] = addr[i]
      BY <2>3, <2>4, PrefixBits
    <3> QED
      BY <2>3, <3>1, <3>2
  <2> QED
    BY <2>3, <2>5
<1>2. KindsDisjoint
  <2> SUFFICES ASSUME Answered("kind") PROVE KindsDisjoint
    BY DEF KindsDisjoint
  <2>1. call.arg \in [1 .. 4 -> 0 .. 255]
    BY AskedKind, QuestionsAssumption DEF Answered
  <2> QED
    BY <2>1, OneKind DEF KindsDisjoint
<1> QED
  BY <1>1, <1>2 DEF RangesExact

LEMMA MergeFollows == LibraryInv => MergeIsMaximal
<1> SUFFICES ASSUME LibraryInv, Answered("merge") PROVE MergeIsMaximal
  BY DEF MergeIsMaximal
<1>1. call.arg \in Seq(ReadableRanges)
  BY AskedKind, QuestionsAssumption DEF Answered
<1>2. answer[1] = MergeRanges(call.arg)
  BY DEF Answered, LibraryInv, AnswersRight, AnswerIs
<1> QED
  BY <1>1, <1>2, MergeMaximal DEF MergeIsMaximal

LEMMA ValuesFollow == LibraryInv => ValuesExact
<1> SUFFICES ASSUME LibraryInv PROVE ValuesExact
  OBVIOUS
<1>1. DigitsExact
  <2> SUFFICES ASSUME Answered("number") PROVE DigitsExact
    BY DEF DigitsExact
  <2>1. call.arg.text \in Numerals /\ call.arg.max \in Nat /\ call.arg.max * 10 + 9 < UIntMod
    BY AskedKind, QuestionsAssumption DEF Answered
  <2>2. answer[1] = ReadNumber(call.arg.text, call.arg.max)
    BY DEF Answered, LibraryInv, AnswersRight, AnswerIs
  <2> QED
    BY <2>1, <2>2, ReadNumberExact DEF DigitsExact
<1>2. TimesNormal
  <2> SUFFICES ASSUME Answered("normal time") PROVE TimesNormal
    BY DEF TimesNormal
  <2>1. call.arg.seconds \in Int /\ call.arg.nanos \in Int
    BY AskedKind, QuestionsAssumption DEF Answered
  <2>2. answer[1] = NormalizeTimestamp(call.arg.seconds, call.arg.nanos)
    <3>1. answer = <<NormalizeTimestamp(call.arg.seconds, call.arg.nanos)>>
      BY Zenon DEF Answered, LibraryInv, AnswersRight, AnswerIs
    <3> QED
      BY <3>1
  <2> QED
    BY <2>1, <2>2, NormalizeExact DEF TimesNormal
<1>3. UnixTimesExact
  <2> SUFFICES ASSUME Answered("unix time") PROVE UnixTimesExact
    BY DEF UnixTimesExact
  <2>1. call.arg \in Seq(Characters)
    BY AskedKind, QuestionsAssumption DEF Answered
  <2>2. answer[1] = ParseUnixTimestamp(call.arg)
    <3>1. answer = <<ParseUnixTimestamp(call.arg)>>
      BY Zenon DEF Answered, LibraryInv, AnswersRight, AnswerIs
    <3> QED
      BY <3>1
  <2> QED
    <3> DEFINE text == call.arg
    <3>1. answer[1] = ParseUnixTimestamp(text) /\ text \in Seq(Characters)
      BY <2>1, <2>2
    <3> HIDE DEF text
    <3>2. ASSUME NEW p \in Places(text), SpelledAt(text, p) PROVE answer[1] # {}
      <4>1. \E whole, nanos : ParseUnixTimestamp(text) = TimeAt(whole, nanos)
        BY <3>1, <3>2, SpelledRead
      <4> QED
        BY <3>1, <4>1 DEF TimeAt
    <3>3. answer[1] # {} => \E p \in Places(text) : SpelledAt(text, p)
      BY <3>1, OnlySpelledRead
    <3>4. ASSUME NEW p \in Places(text), SpelledAt(text, p), NEW t \in answer[1]
          PROVE  LET whole    == SubSeq(text, p.first, p.point - 1)
                     fraction == SubSeq(text, p.point + 1, p.last)
                     unit     == Power(10, Len(fraction))
                 IN  IF Value(whole) > MaxSeconds THEN t = Thrown
                     ELSE /\ t.seconds = Value(whole)
                          /\ t.nanos * unit <= Value(fraction) * NanosPerSecond
                          /\ Value(fraction) * NanosPerSecond < (t.nanos + 1) * unit
      BY <3>1, <3>4, UnixExact
    <3> QED
      BY <3>2, <3>3, <3>4, Zenon DEF UnixTimesExact, text
<1> QED
  BY <1>1, <1>2, <1>3 DEF ValuesExact

LEMMA ChecksumFollows == LibraryInv => ChecksumVerifies
<1> SUFFICES ASSUME LibraryInv, Answered("checksum") PROVE ChecksumVerifies
  BY DEF ChecksumVerifies
<1>1. call.arg \in Seq(0 .. ByteMod - 1) /\ (Len(call.arg) + 1) \div 2 <= WordMod
  BY AskedKind, QuestionsAssumption DEF Answered
<1>2. answer[1] = InternetChecksum(call.arg)
  BY DEF Answered, LibraryInv, AnswersRight, AnswerIs
<1> QED
  BY <1>1, <1>2, ChecksumExact DEF ChecksumVerifies, Placed

-----------------------------------------------------------------------------
(* Whatever a caller of ByteView or ByteReader asks for, the bytes that    *)
(* the call touches are within the view, and the reader stays in it.       *)
THEOREM SpansAlwaysInside == Spec => []SpansInside
<1>1. LibraryInv => SpansInside
  BY DEF LibraryInv, ReaderInv
<1> QED
  BY <1>1, LibraryInitially, LibraryStep, PTL DEF Spec

(* ByteReader hands out every byte at most once, unless advance() is asked *)
(* to go further than sizes reach.                                         *)
THEOREM NothingReadTwice == Spec => NothingTwice
<1>1. LibraryInv /\ [Next]_vars =>
          [/\ offset' < offset => offset + asked' >= SizeMod
           /\ offset' > offset /\ span' # NoSpan =>
                  span'.first = offset /\ span'.first + span'.length = offset']_readerVars
  BY OneAnswer, ReaderMoves DEF LibraryInv
<1> QED
  BY <1>1, LibraryInitially, LibraryStep, PTL DEF Spec, NothingTwice

(* parse_cidr makes ranges whose contains() is to have their prefix, from  *)
(* the empty to the full one, and no address is of two kinds for           *)
(* classify_ipv4.                                                          *)
THEOREM RangesAlwaysExact == Spec => []RangesExact
  BY RangesFollow, LibraryInitially, LibraryStep, PTL DEF Spec

(* merge_ranges covers the addresses that it is given and no others, and   *)
(* leaves no range within another, for all lists of ranges.                *)
THEOREM MergeAlwaysMaximal == Spec => []MergeIsMaximal
  BY MergeFollows, LibraryInitially, LibraryStep, PTL DEF Spec

(* Numbers of digits and normalized timestamps are exact for texts and     *)
(* values of every length, and parse_unix_timestamp reads the texts that   *)
(* are times and no others, with or without a point and with blanks around *)
(* them: it throws exactly when the seconds do not fit, and is otherwise   *)
(* right to the nanosecond.                                                *)
THEOREM ValuesAlwaysExact == Spec => []ValuesExact
  BY ValuesFollow, LibraryInitially, LibraryStep, PTL DEF Spec

(* The checksum of a header in which its field is zero makes the header    *)
(* valid once it is put there, for headers of every length and content.    *)
THEOREM ChecksumAlwaysVerifies == Spec => []ChecksumVerifies
  BY ChecksumFollows, LibraryInitially, LibraryStep, PTL DEF Spec

=============================================================================
