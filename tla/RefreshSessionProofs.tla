------------------------ MODULE RefreshSessionProofs ------------------------
(***************************************************************************)
(* Theorems about RefreshSession, for every set of lines, of packets and   *)
(* of roles and all bounds.                                                *)
(*                                                                         *)
(* The parser and the merger are folds.  Their results are reached by an   *)
(* induction over the lines that have been read: a set of numbers that has *)
(* 0 and with each number the next one has them all (Climb).               *)
(***************************************************************************)
EXTENDS RefreshSession, IndicatorIndexProofs

(* A set of numbers that has 0, and with a number the next one, has them all.  *)
LEMMA Climb ==
    ASSUME NEW n \in Nat, NEW S \in SUBSET (0 .. n), 0 \in S,
           \A k \in S : k < n => k + 1 \in S
    PROVE  S = 0 .. n
<1> DEFINE missing == (0 .. n) \ S
           less    == OpToRel(<, Nat)
<1>1. SUFFICES ASSUME missing # {} PROVE FALSE
  OBVIOUS
<1>2. PICK m \in missing : \A k \in missing : ~(<<k, m>> \in less)
  <2> HIDE DEF missing, less
  <2>1. IsWellFoundedOn(less, Nat)
    BY NatLessThanWellFounded DEF less
  <2>2. missing \subseteq Nat
    BY DEF missing
  <2> QED
    BY <1>1, <2>1, <2>2, WFMin
<1>3. m \in 0 .. n /\ m # 0 /\ m - 1 \in Nat /\ m - 1 \in 0 .. n /\ m - 1 < n
  OBVIOUS
<1>4. <<m - 1, m>> \in less
  <2> HIDE DEF missing, less
  <2>1. less = {e \in Nat \X Nat : e[1] < e[2]}
    BY DEF OpToRel, less
  <2>2. m \in Nat /\ m - 1 < m
    BY <1>3
  <2> QED
    BY <1>3, <2>1, <2>2
<1>5. m - 1 \in S
  BY <1>2, <1>3, <1>4
<1>6. m - 1 + 1 \in S
  BY <1>3, <1>5
<1> QED
  BY <1>3, <1>6

-----------------------------------------------------------------------------
(* Folds.  A fold over a sequence is the last element of a run: a function     *)
(* that begins with the base and takes one element of the sequence at a time.  *)
(* That holds of all folds; the three of IndicatorText are told apart by a     *)
(* number, since no prover argues about an operator that it does not know.     *)

IncludeAll(set, inds) == FoldLeft(LAMBDA m, ind : Include(m, ind), set, inds)

JoinSet(merged, set) ==
    IncludeAll([merged EXCEPT !.refused = @ + set.refused], set.indicators)

Take(kind, set, x) ==
    IF kind = 1      THEN IF x.blank THEN set ELSE ReadLine(set, x)
    ELSE IF kind = 2 THEN Include(set, x)
    ELSE JoinSet(set, x)

Folding(kind, base, seq, slots, f) ==
    f = [s \in SUBSET slots |->
            IF s = {} THEN base ELSE Take(kind, f[s \ {Max(s)}], seq[Max(s)])]

Run(kind, base, seq, n, r) ==
    /\ r = [k \in 0 .. n |-> r[k]]
    /\ r[0] = base
    /\ \A k \in 1 .. n : r[k] = Take(kind, r[k - 1], seq[k])

LEMMA GreatestOfSlots ==
    ASSUME NEW n \in Nat, NEW s \in SUBSET (1 .. n), n \in s
    PROVE  Max(s) = n
<1>1. \A x \in s : (\A y \in s : x >= y) => x = n
  OBVIOUS
<1>2. n \in s /\ \A y \in s : n >= y
  OBVIOUS
<1> QED
  BY <1>1, <1>2 DEF Max

LEMMA FoldingExists ==
    ASSUME NEW kind, NEW base, NEW seq, NEW n \in Nat
    PROVE  \E f : Folding(kind, base, seq, 1 .. n, f)
<1> DEFINE S == {m \in 0 .. n : \E f : Folding(kind, base, seq, 1 .. m, f)}
<1>1. 0 \in S
  <2> DEFINE f == [s \in SUBSET (1 .. 0) |-> base]
  <2>1. \A s \in SUBSET (1 .. 0) : s = {}
    OBVIOUS
  <2>2. f = [s \in SUBSET (1 .. 0) |->
               IF s = {} THEN base ELSE Take(kind, f[s \ {Max(s)}], seq[Max(s)])]
    BY <2>1
  <2>3. Folding(kind, base, seq, 1 .. 0, f)
    BY <2>2 DEF Folding
  <2> QED
    BY <2>3
<1>2. ASSUME NEW m \in S, m < n
      PROVE  m + 1 \in S
  <2>1. PICK f : Folding(kind, base, seq, 1 .. m, f)
    BY <1>2
  <2>2. m \in Nat /\ m + 1 \in 0 .. n /\ m + 1 \in Nat
    BY <1>2
  <2> DEFINE Rest(s) == s \ {m + 1}
             g == [s \in SUBSET (1 .. m + 1) |->
                     IF m + 1 \in s THEN Take(kind, f[Rest(s)], seq[m + 1]) ELSE f[s]]
             Rule(s) == IF s = {} THEN base ELSE Take(kind, g[s \ {Max(s)}], seq[Max(s)])
  <2>3. \A s \in SUBSET (1 .. m + 1) : Rest(s) \in SUBSET (1 .. m) /\ m + 1 \notin Rest(s)
    BY <2>2
  <2>4. \A s \in SUBSET (1 .. m + 1) : m + 1 \notin s => s \in SUBSET (1 .. m)
    BY <2>2
  <2>5. \A s \in SUBSET (1 .. m) : s \in SUBSET (1 .. m + 1) /\ m + 1 \notin s /\ g[s] = f[s]
    BY <2>2
  <2>6. \A s \in SUBSET (1 .. m + 1) :
           g[s] = IF m + 1 \in s THEN Take(kind, f[Rest(s)], seq[m + 1]) ELSE f[s]
    OBVIOUS
  <2>7. \A s \in SUBSET (1 .. m) :
           f[s] = IF s = {} THEN base ELSE Take(kind, f[s \ {Max(s)}], seq[Max(s)])
    BY <2>1 DEF Folding
  <2>8. g = [s \in SUBSET (1 .. m + 1) |-> g[s]]
    OBVIOUS
  <2> HIDE DEF g
  <2>9. ASSUME NEW s \in SUBSET (1 .. m + 1)
        PROVE  g[s] = Rule(s)
    <3>1. CASE m + 1 \in s
      <4>1. Max(s) = m + 1
        BY <2>2, <3>1, GreatestOfSlots
      <4>2. g[s] = Take(kind, f[Rest(s)], seq[m + 1]) /\ f[Rest(s)] = g[Rest(s)]
        BY <2>3, <2>5, <2>6, <3>1
      <4> QED
        BY <3>1, <4>1, <4>2
    <3>2. CASE m + 1 \notin s
      <4>1. s \in SUBSET (1 .. m) /\ g[s] = f[s]
        BY <2>4, <2>6, <3>2
      <4>2. s \ {Max(s)} \in SUBSET (1 .. m)
        BY <4>1
      <4>3. g[s \ {Max(s)}] = f[s \ {Max(s)}]
        BY <2>5, <4>2
      <4> QED
        BY <2>7, <4>1, <4>3
    <3> QED
      BY <3>1, <3>2
  <2>10. g = [s \in SUBSET (1 .. m + 1) |-> Rule(s)]
    BY <2>8, <2>9
  <2>11. Folding(kind, base, seq, 1 .. m + 1, g)
    BY <2>10 DEF Folding
  <2> QED
    BY <2>2, <2>11
<1>3. S = 0 .. n
  <2> HIDE DEF S
  <2>1. S \in SUBSET (0 .. n)
    BY DEF S
  <2> QED
    BY <1>1, <1>2, <2>1, Climb
<1>4. n \in S
  BY <1>3
<1> QED
  BY <1>4

(* A fold is where the run ends.                                               *)
LEMMA FoldingRuns ==
    ASSUME NEW kind, NEW base, NEW seq, NEW n \in Nat,
           NEW f, Folding(kind, base, seq, 1 .. n, f), NEW r, Run(kind, base, seq, n, r)
    PROVE  f[1 .. n] = r[n]
<1> DEFINE S == {k \in 0 .. n : f[1 .. k] = r[k]}
<1>1. \A s \in SUBSET (1 .. n) :
         f[s] = IF s = {} THEN base ELSE Take(kind, f[s \ {Max(s)}], seq[Max(s)])
  BY DEF Folding
<1>2. 0 \in S
  <2>1. {} \in SUBSET (1 .. n) /\ 1 .. 0 = {}
    OBVIOUS
  <2>2. f[{}] = base
    BY <1>1, <2>1
  <2> QED
    BY <2>2 DEF Run
<1>3. ASSUME NEW k \in S, k < n
      PROVE  k + 1 \in S
  <2>1. k \in Nat /\ k + 1 \in 1 .. n /\ (k + 1) - 1 = k /\ k + 1 \in 0 .. n
    BY <1>3
  <2>2. 1 .. k + 1 \in SUBSET (1 .. n) /\ k + 1 \in 1 .. k + 1 /\ 1 .. k + 1 # {}
        /\ (1 .. k + 1) \ {k + 1} = 1 .. k
    <3>1. k \in Nat /\ k + 1 <= n /\ k + 1 \in Nat
      BY <2>1
    <3>2. k + 1 \in 1 .. k + 1
      BY <3>1
    <3>3. \A j \in 1 .. k + 1 : j \in 1 .. n
      BY <3>1
    <3>4. \A j : j \in (1 .. k + 1) \ {k + 1} <=> j \in 1 .. k
      BY <3>1
    <3> QED
      BY <3>2, <3>3, <3>4
  <2>3. Max(1 .. k + 1) = k + 1
    BY <2>1, <2>2, GreatestOfSlots
  <2>4. f[1 .. k + 1] = Take(kind, f[1 .. k], seq[k + 1])
    <3> DEFINE s == 1 .. k + 1
    <3>1. s \in SUBSET (1 .. n) /\ s # {} /\ Max(s) = k + 1 /\ s \ {k + 1} = 1 .. k
      BY <2>2, <2>3
    <3> HIDE DEF s
    <3>2. f[s] = Take(kind, f[s \ {Max(s)}], seq[Max(s)])
      BY <1>1, <3>1
    <3> QED
      BY <3>1, <3>2 DEF s
  <2>5. r[k + 1] = Take(kind, r[k], seq[k + 1])
    <3>1. \A j \in 1 .. n : r[j] = Take(kind, r[j - 1], seq[j])
      BY DEF Run
    <3>2. r[k + 1] = Take(kind, r[(k + 1) - 1], seq[k + 1])
      BY <2>1, <3>1
    <3> QED
      BY <2>1, <3>2
  <2>6. f[1 .. k] = r[k]
    BY <1>3
  <2> QED
    BY <2>1, <2>4, <2>5, <2>6
<1>4. S = 0 .. n
  <2> HIDE DEF S
  <2>1. S \in SUBSET (0 .. n)
    BY DEF S
  <2> QED
    BY <1>2, <1>3, <2>1, Climb
<1>5. n \in S
  BY <1>4
<1> QED
  BY <1>5

LEMMA RunExists ==
    ASSUME NEW kind, NEW base, NEW seq, NEW n \in Nat
    PROVE  \E r : Run(kind, base, seq, n, r)
<1>1. PICK f : Folding(kind, base, seq, 1 .. n, f)
  BY FoldingExists
<1> DEFINE r == [k \in 0 .. n |-> f[1 .. k]]
<1>2. \A s \in SUBSET (1 .. n) :
         f[s] = IF s = {} THEN base ELSE Take(kind, f[s \ {Max(s)}], seq[Max(s)])
  BY <1>1 DEF Folding
<1>3. r = [k \in 0 .. n |-> r[k]] /\ \A k \in 0 .. n : r[k] = f[1 .. k]
  OBVIOUS
<1> HIDE DEF r
<1>4. r[0] = base
  <2>1. 1 .. 0 \in SUBSET (1 .. n) /\ 1 .. 0 = {} /\ 0 \in 0 .. n
    OBVIOUS
  <2>2. f[1 .. 0] = base
    BY <1>2, <2>1
  <2> QED
    BY <1>3, <2>1, <2>2
<1>5. ASSUME NEW k \in 1 .. n
      PROVE  r[k] = Take(kind, r[k - 1], seq[k])
  <2>1. k \in Nat /\ k - 1 \in 0 .. n /\ k \in 0 .. n
    OBVIOUS
  <2>2. 1 .. k \in SUBSET (1 .. n) /\ k \in 1 .. k /\ 1 .. k # {} /\ (1 .. k) \ {k} = 1 .. k - 1
    BY <2>1
  <2>3. Max(1 .. k) = k
    BY <2>1, <2>2, GreatestOfSlots
  <2>4. f[1 .. k] = Take(kind, f[1 .. k - 1], seq[k])
    BY <1>2, <2>2, <2>3
  <2> QED
    BY <1>3, <2>1, <2>4
<1>6. Run(kind, base, seq, n, r)
  BY <1>3, <1>4, <1>5 DEF Run
<1> QED
  BY <1>6

(* A fold with an operator that takes what a kind takes ends where the runs of *)
(* that kind end.                                                              *)
LEMMA ParseIsRun ==
    ASSUME NEW S, NEW lines \in Seq(S), NEW r, Run(1, EmptySet, lines, Len(lines), r)
    PROVE  ParseIndicatorText(lines) = r[Len(lines)]
<1> DEFINE Rule(f) == [s \in SUBSET DOMAIN lines |->
                         IF s = {} THEN EmptySet
                         ELSE IF lines[Max(s)].blank THEN f[s \ {Max(s)}]
                              ELSE ReadLine(f[s \ {Max(s)}], lines[Max(s)])]
           E == CHOOSE f : f = Rule(f)
<1>1. ParseIndicatorText(lines) = E[DOMAIN lines]
  BY DEF ParseIndicatorText, FoldLeft, MapThenFoldSet
<1>2. Len(lines) \in Nat /\ DOMAIN lines = 1 .. Len(lines)
  BY LenProperties
<1>3. \A f : Folding(1, EmptySet, lines, DOMAIN lines, f) <=> f = Rule(f)
  BY DEF Folding, Take
<1>4. PICK f : Folding(1, EmptySet, lines, DOMAIN lines, f)
  BY <1>2, FoldingExists
<1>5. f = Rule(f)
  BY <1>3, <1>4
<1>6. E = Rule(E)
  BY <1>5
<1> HIDE DEF E, Rule
<1>7. Folding(1, EmptySet, lines, DOMAIN lines, E)
  BY <1>3, <1>6
<1>8. E[1 .. Len(lines)] = r[Len(lines)]
  BY <1>2, <1>7, FoldingRuns
<1> QED
  BY <1>1, <1>2, <1>8

LEMMA IncludeAllIsRun ==
    ASSUME NEW S, NEW inds \in Seq(S), NEW set, NEW r, Run(2, set, inds, Len(inds), r)
    PROVE  IncludeAll(set, inds) = r[Len(inds)]
<1> DEFINE Rule(f) == [s \in SUBSET DOMAIN inds |->
                         IF s = {} THEN set
                         ELSE Include(f[s \ {Max(s)}], inds[Max(s)])]
           E == CHOOSE f : f = Rule(f)
<1>1. IncludeAll(set, inds) = E[DOMAIN inds]
  BY DEF IncludeAll, FoldLeft, MapThenFoldSet
<1>2. Len(inds) \in Nat /\ DOMAIN inds = 1 .. Len(inds)
  BY LenProperties
<1>3. \A f : Folding(2, set, inds, DOMAIN inds, f) <=> f = Rule(f)
  BY DEF Folding, Take
<1>4. PICK f : Folding(2, set, inds, DOMAIN inds, f)
  BY <1>2, FoldingExists
<1>5. f = Rule(f)
  BY <1>3, <1>4
<1>6. E = Rule(E)
  BY <1>5
<1> HIDE DEF E, Rule
<1>7. Folding(2, set, inds, DOMAIN inds, E)
  BY <1>3, <1>6
<1>8. E[1 .. Len(inds)] = r[Len(inds)]
  BY <1>2, <1>7, FoldingRuns
<1> QED
  BY <1>1, <1>2, <1>8

LEMMA MergeIsRun ==
    ASSUME NEW S, NEW sets \in Seq(S), NEW r, Run(3, EmptySet, sets, Len(sets), r)
    PROVE  MergeIndicatorSets(sets) = r[Len(sets)]
<1> DEFINE Rule(f) == [s \in SUBSET DOMAIN sets |->
                         IF s = {} THEN EmptySet
                         ELSE JoinSet(f[s \ {Max(s)}], sets[Max(s)])]
           E == CHOOSE f : f = Rule(f)
<1>1. MergeIndicatorSets(sets) = E[DOMAIN sets]
  BY DEF MergeIndicatorSets, JoinSet, IncludeAll, FoldLeft, MapThenFoldSet
<1>2. Len(sets) \in Nat /\ DOMAIN sets = 1 .. Len(sets)
  BY LenProperties
<1>3. \A f : Folding(3, EmptySet, sets, DOMAIN sets, f) <=> f = Rule(f)
  BY DEF Folding, Take
<1>4. PICK f : Folding(3, EmptySet, sets, DOMAIN sets, f)
  BY <1>2, FoldingExists
<1>5. f = Rule(f)
  BY <1>3, <1>4
<1>6. E = Rule(E)
  BY <1>5
<1> HIDE DEF E, Rule
<1>7. Folding(3, EmptySet, sets, DOMAIN sets, E)
  BY <1>3, <1>6
<1>8. E[1 .. Len(sets)] = r[Len(sets)]
  BY <1>2, <1>7, FoldingRuns
<1> QED
  BY <1>1, <1>2, <1>8

-----------------------------------------------------------------------------
(* Sets of indicators.  A key says what an indicator stands for.               *)

Parsed      == {ind \in Inputs : ~ind.blank}
Sets        == [indicators : Seq(Parsed), duplicates : Seq(Parsed), refused : Nat]
KeysOf(inds) == {IndicatorKey(inds[a]) : a \in DOMAIN inds}
Distinct(inds) ==
    \A a, b \in DOMAIN inds : IndicatorKey(inds[a]) = IndicatorKey(inds[b]) => a = b

LEMMA EmptySetTyped ==
    /\ EmptySet \in Sets
    /\ EmptySet.indicators = << >> /\ EmptySet.duplicates = << >> /\ EmptySet.refused = 0
    /\ KeysOf(EmptySet.indicators) = {} /\ Distinct(EmptySet.indicators)
BY EmptySeq DEF EmptySet, Sets, KeysOf, Distinct

LEMMA SetTyped ==
    ASSUME NEW set \in Sets
    PROVE  /\ set.indicators \in Seq(Parsed) /\ set.duplicates \in Seq(Parsed)
           /\ set.refused \in Nat
           /\ Len(set.indicators) \in Nat /\ Len(set.duplicates) \in Nat
           /\ DOMAIN set.indicators = 1 .. Len(set.indicators)
           /\ DOMAIN set.duplicates = 1 .. Len(set.duplicates)
<1>1. set.indicators \in Seq(Parsed) /\ set.duplicates \in Seq(Parsed) /\ set.refused \in Nat
  BY DEF Sets
<1> QED
  BY <1>1, LenProperties

LEMMA Appended ==
    ASSUME NEW S, NEW seq \in Seq(S), NEW x \in S
    PROVE  /\ Append(seq, x) \in Seq(S)
           /\ Len(Append(seq, x)) = Len(seq) + 1 /\ Len(seq) \in Nat
           /\ DOMAIN seq = 1 .. Len(seq) /\ DOMAIN Append(seq, x) = 1 .. Len(seq) + 1
           /\ \A a \in 1 .. Len(seq) : Append(seq, x)[a] = seq[a]
           /\ Append(seq, x)[Len(seq) + 1] = x
BY AppendProperties, LenProperties

LEMMA KeysAppended ==
    ASSUME NEW inds \in Seq(Parsed), NEW ind \in Parsed
    PROVE  /\ KeysOf(Append(inds, ind)) = KeysOf(inds) \cup {IndicatorKey(ind)}
           /\ IndicatorKey(ind) \notin KeysOf(inds) /\ Distinct(inds)
                => Distinct(Append(inds, ind))
<1> DEFINE n == Len(inds)
           new == Append(inds, ind)
<1>1. /\ n \in Nat /\ DOMAIN inds = 1 .. n /\ DOMAIN new = 1 .. n + 1
      /\ \A a \in 1 .. n : new[a] = inds[a]
      /\ new[n + 1] = ind
  BY Appended
<1> HIDE DEF n, new
<1>2. \A a \in 1 .. n + 1 : a \in 1 .. n \/ a = n + 1
  BY <1>1
<1>3. \A a \in 1 .. n : a \in 1 .. n + 1
  BY <1>1
<1>4. n + 1 \in 1 .. n + 1
  BY <1>1
<1>5. KeysOf(new) = KeysOf(inds) \cup {IndicatorKey(ind)}
  BY <1>1, <1>2, <1>3, <1>4 DEF KeysOf
<1>6. ASSUME IndicatorKey(ind) \notin KeysOf(inds), Distinct(inds),
             NEW a \in DOMAIN new, NEW b \in DOMAIN new,
             IndicatorKey(new[a]) = IndicatorKey(new[b])
      PROVE  a = b
  <2>1. \A c \in 1 .. n : IndicatorKey(new[c]) # IndicatorKey(ind)
    BY <1>1, <1>6 DEF KeysOf
  <2>2. CASE a \in 1 .. n /\ b \in 1 .. n
    BY <1>1, <1>6, <2>2 DEF Distinct
  <2>3. CASE a = n + 1 /\ b \in 1 .. n
    BY <1>1, <1>6, <2>1, <2>3
  <2>4. CASE a \in 1 .. n /\ b = n + 1
    BY <1>1, <1>6, <2>1, <2>4
  <2> QED
    BY <1>1, <1>2, <2>2, <2>3, <2>4
<1>7. IndicatorKey(ind) \notin KeysOf(inds) /\ Distinct(inds) => Distinct(new)
  BY <1>6 DEF Distinct
<1> QED
  BY <1>5, <1>7 DEF new

LEMMA HasKey ==
    ASSUME NEW set, NEW ind
    PROVE  Has(set, ind) <=> IndicatorKey(ind) \in KeysOf(set.indicators)
BY DEF Has, KeysOf, Range

(* A key is included once; the second time it counts as a duplicate.           *)
LEMMA Included ==
    ASSUME NEW set \in Sets, NEW ind \in Parsed
    PROVE  LET new == Include(set, ind)
           IN  /\ new \in Sets /\ new.refused = set.refused
               /\ IF IndicatorKey(ind) \in KeysOf(set.indicators)
                  THEN /\ new.indicators = set.indicators
                       /\ new.duplicates = Append(set.duplicates, ind)
                  ELSE /\ new.indicators = Append(set.indicators, ind)
                       /\ new.duplicates = set.duplicates
               /\ KeysOf(new.indicators) = KeysOf(set.indicators) \cup {IndicatorKey(ind)}
               /\ Distinct(set.indicators) => Distinct(new.indicators)
<1> DEFINE new == Include(set, ind)
<1>1. /\ Append(set.indicators, ind) \in Seq(Parsed)
      /\ Append(set.duplicates, ind) \in Seq(Parsed)
  BY SetTyped, Appended
<1>2. CASE IndicatorKey(ind) \in KeysOf(set.indicators)
  <2>1. new = [set EXCEPT !.duplicates = Append(@, ind)]
    BY <1>2, HasKey DEF Include
  <2>2. /\ new \in Sets /\ new.refused = set.refused /\ new.indicators = set.indicators
        /\ new.duplicates = Append(set.duplicates, ind)
    BY <1>1, <2>1 DEF Sets
  <2> QED
    BY <1>2, <2>2
<1>3. CASE IndicatorKey(ind) \notin KeysOf(set.indicators)
  <2>1. new = [set EXCEPT !.indicators = Append(@, ind)]
    BY <1>3, HasKey DEF Include
  <2>2. /\ new \in Sets /\ new.refused = set.refused /\ new.duplicates = set.duplicates
        /\ new.indicators = Append(set.indicators, ind)
    BY <1>1, <2>1 DEF Sets
  <2>3. /\ KeysOf(Append(set.indicators, ind)) = KeysOf(set.indicators) \cup {IndicatorKey(ind)}
        /\ Distinct(set.indicators) => Distinct(Append(set.indicators, ind))
    BY <1>3, SetTyped, KeysAppended
  <2> QED
    BY <1>3, <2>2, <2>3
<1> QED
  BY <1>2, <1>3

-----------------------------------------------------------------------------
(* What is read from the first k lines of a text: every line that is not blank *)
(* is an indicator, a duplicate or a refusal, and the keys are those of the    *)
(* lines that could be read, each once.                                        *)

Readable(line)  == ~line.blank /\ ParseIndicatorLine(line) # {}
IndicatorOf(line) == CHOOSE ind \in ParseIndicatorLine(line) : TRUE

Kept(set, lines, k) ==
    /\ set \in Sets
    /\ Distinct(set.indicators)
    /\ KeysOf(set.indicators)
         = {IndicatorKey(IndicatorOf(lines[j])) : j \in {i \in 1 .. k : Readable(lines[i])}}
    /\ KeysOf(set.duplicates) \subseteq KeysOf(set.indicators)
    /\ Len(set.indicators) + Len(set.duplicates) + set.refused
         = Cardinality({j \in 1 .. k : ~lines[j].blank})

(* The key of an indicator from the parser has its value and its role.         *)
LEMMA ParsedKey ==
    ASSUME NEW ind \in Parsed, NEW other \in Parsed,
           IndicatorKey(ind) = IndicatorKey(other)
    PROVE  ind.value = other.value /\ ind.role = other.role
<1>1. ~ind.blank /\ ~other.blank
  BY DEF Parsed
<1>2. <<ind.value, ind.role>> = <<other.value, other.role>>
  BY <1>1 DEF IndicatorKey, Unnamed
<1> QED
  BY <1>2

LEMMA ReadIsParsed ==
    ASSUME NEW line \in Lines, Readable(line)
    PROVE  /\ IndicatorOf(line) \in ParseIndicatorLine(line)
           /\ IndicatorOf(line) \in Parsed
<1>1. IndicatorOf(line) \in ParseIndicatorLine(line)
  BY DEF IndicatorOf, Readable
<1>2. ParseIndicatorLine(line) \subseteq Inputs
  BY LinesAssumption DEF Readable
<1>3. \A ind \in ParseIndicatorLine(line) : ~ind.blank
  BY DEF ParseIndicatorLine
<1> QED
  BY <1>1, <1>2, <1>3 DEF Parsed

(* One more of the lines that are not blank, or as many.                       *)
LEMMA CountedLines ==
    ASSUME NEW lines, NEW k \in Nat
    PROVE  LET now  == {j \in 1 .. k : ~lines[j].blank}
               then == {j \in 1 .. k + 1 : ~lines[j].blank}
           IN  /\ Cardinality(now) \in Nat
               /\ Cardinality(then)
                    = IF lines[k + 1].blank THEN Cardinality(now) ELSE Cardinality(now) + 1
<1> DEFINE now  == {j \in 1 .. k : ~lines[j].blank}
           then == {j \in 1 .. k + 1 : ~lines[j].blank}
<1>1. IsFiniteSet(1 .. k)
  BY FS_Interval
<1>2. now \subseteq 1 .. k
  OBVIOUS
<1>3. IsFiniteSet(now) /\ Cardinality(now) \in Nat
  BY <1>1, <1>2, FS_Subset, FS_CardinalityType
<1>4. k + 1 \notin now
  OBVIOUS
<1>5. then = IF lines[k + 1].blank THEN now ELSE now \cup {k + 1}
  <2>1. \A j : j \in 1 .. k + 1 <=> j \in 1 .. k \/ j = k + 1
    OBVIOUS
  <2> QED
    BY <2>1
<1> HIDE DEF now, then
<1>6. Cardinality(now \cup {k + 1}) = Cardinality(now) + 1
  BY <1>3, <1>4, FS_AddElement
<1> QED
  BY <1>3, <1>5, <1>6 DEF now, then

(* One more of the first, of the second or of the third is one more.           *)
LEMMA OneMore ==
    ASSUME NEW a \in Nat, NEW b \in Nat, NEW c \in Nat
    PROVE  /\ (a + 1) + b + c = a + b + c + 1
           /\ a + (b + 1) + c = a + b + c + 1
           /\ a + b + (c + 1) = a + b + c + 1
OBVIOUS

LEMMA ReadKeeps ==
    ASSUME NEW lines \in Seq(Lines), NEW k \in Nat, k + 1 \in 1 .. Len(lines),
           NEW set, Kept(set, lines, k)
    PROVE  Kept(Take(1, set, lines[k + 1]), lines, k + 1)
<1> DEFINE line == lines[k + 1]
           new  == Take(1, set, line)
           Read(m) == {IndicatorKey(IndicatorOf(lines[j])) : j \in {i \in 1 .. m : Readable(lines[i])}}
           Count(m) == Cardinality({j \in 1 .. m : ~lines[j].blank})
<1>1. line \in Lines
  BY ElementOfSeq
<1>2. /\ set \in Sets /\ Distinct(set.indicators) /\ KeysOf(set.indicators) = Read(k)
      /\ KeysOf(set.duplicates) \subseteq KeysOf(set.indicators)
      /\ Len(set.indicators) + Len(set.duplicates) + set.refused = Count(k)
  BY DEF Kept
<1>3. /\ Count(k) \in Nat
      /\ Count(k + 1) = IF line.blank THEN Count(k) ELSE Count(k) + 1
  BY CountedLines
<1>4. Read(k + 1) = IF Readable(line) THEN Read(k) \cup {IndicatorKey(IndicatorOf(line))}
                    ELSE Read(k)
  <2>1. \A j : j \in 1 .. k + 1 <=> j \in 1 .. k \/ j = k + 1
    OBVIOUS
  <2> QED
    BY <2>1
<1> HIDE DEF Read, Count
<1>5. /\ set.indicators \in Seq(Parsed) /\ set.duplicates \in Seq(Parsed) /\ set.refused \in Nat
      /\ Len(set.indicators) \in Nat /\ Len(set.duplicates) \in Nat
  BY <1>2, SetTyped
<1>6. CASE line.blank
  <2>1. new = set /\ ~Readable(line)
    BY <1>6 DEF Take, Readable
  <2> QED
    BY <1>2, <1>3, <1>4, <1>6, <2>1 DEF Kept, Read, Count
<1>7. CASE ~line.blank /\ ParseIndicatorLine(line) = {}
  <2>1. new = [set EXCEPT !.refused = @ + 1] /\ ~Readable(line)
    BY <1>7 DEF Take, Readable, ReadLine
  <2>2. /\ new \in Sets /\ new.indicators = set.indicators /\ new.duplicates = set.duplicates
        /\ new.refused = set.refused + 1
    BY <1>2, <1>5, <2>1 DEF Sets
  <2>3. Len(new.indicators) + Len(new.duplicates) + new.refused = Count(k + 1)
    <3>1. Count(k + 1) = Count(k) + 1
      BY <1>3, <1>7
    <3>2. Len(new.indicators) + Len(new.duplicates) + new.refused
            = Len(set.indicators) + Len(set.duplicates) + (set.refused + 1)
      BY <2>2
    <3>3. Len(set.indicators) + Len(set.duplicates) + (set.refused + 1)
            = Len(set.indicators) + Len(set.duplicates) + set.refused + 1
      BY <1>5, OneMore
    <3> QED
      BY <1>2, <3>1, <3>2, <3>3
  <2> QED
    BY <1>2, <1>4, <2>1, <2>2, <2>3 DEF Kept, Read, Count
<1>8. CASE Readable(line)
  <2> DEFINE ind == IndicatorOf(line)
  <2>1. ind \in Parsed
    BY <1>1, <1>8, ReadIsParsed
  <2>2. new = Include(set, ind)
    BY <1>8 DEF Take, Readable, ReadLine, IndicatorOf
  <2> HIDE DEF ind, new
  <2>3. /\ new \in Sets /\ new.refused = set.refused
        /\ IF IndicatorKey(ind) \in KeysOf(set.indicators)
           THEN /\ new.indicators = set.indicators
                /\ new.duplicates = Append(set.duplicates, ind)
           ELSE /\ new.indicators = Append(set.indicators, ind)
                /\ new.duplicates = set.duplicates
        /\ KeysOf(new.indicators) = KeysOf(set.indicators) \cup {IndicatorKey(ind)}
        /\ Distinct(new.indicators)
    BY <1>2, <2>1, <2>2, Included
  <2>4. /\ Len(Append(set.indicators, ind)) = Len(set.indicators) + 1
        /\ Len(Append(set.duplicates, ind)) = Len(set.duplicates) + 1
    BY <1>5, <2>1, Appended
  <2>5. Len(new.indicators) + Len(new.duplicates) + new.refused = Count(k + 1)
    <3>1. Count(k + 1) = Count(k) + 1
      BY <1>3, <1>8 DEF Readable
    <3>2. \/ /\ Len(new.indicators) = Len(set.indicators)
             /\ Len(new.duplicates) = Len(set.duplicates) + 1
          \/ /\ Len(new.indicators) = Len(set.indicators) + 1
             /\ Len(new.duplicates) = Len(set.duplicates)
      BY <2>3, <2>4
    <3>3. Len(new.indicators) + Len(new.duplicates) + set.refused
            = Len(set.indicators) + Len(set.duplicates) + set.refused + 1
      <4> DEFINE a == Len(set.indicators)
                 b == Len(set.duplicates)
      <4>1. a \in Nat /\ b \in Nat /\ set.refused \in Nat
        BY <1>5
      <4> HIDE DEF a, b
      <4>2. /\ (a + 1) + b + set.refused = a + b + set.refused + 1
            /\ a + (b + 1) + set.refused = a + b + set.refused + 1
        BY <4>1, OneMore
      <4>3. \/ Len(new.indicators) = a /\ Len(new.duplicates) = b + 1
            \/ Len(new.indicators) = a + 1 /\ Len(new.duplicates) = b
        BY <3>2 DEF a, b
      <4>4. Len(new.indicators) + Len(new.duplicates) + set.refused = a + b + set.refused + 1
        BY <4>2, <4>3, Zenon
      <4> QED
        BY <4>4 DEF a, b
    <3> QED
      BY <1>2, <2>3, <3>1, <3>3
  <2>6. KeysOf(new.duplicates) \subseteq KeysOf(new.indicators)
    <3>1. KeysOf(Append(set.duplicates, ind)) = KeysOf(set.duplicates) \cup {IndicatorKey(ind)}
      BY <1>5, <2>1, KeysAppended
    <3> QED
      BY <1>2, <2>3, <3>1
  <2>7. KeysOf(new.indicators) = Read(k + 1)
    BY <1>2, <1>4, <1>8, <2>3 DEF ind
  <2> QED
    BY <2>3, <2>5, <2>6, <2>7 DEF Kept, Read, Count, new
<1> QED
  BY <1>6, <1>7, <1>8 DEF Readable

(* So the run over the lines keeps it from the first line to the last.         *)
LEMMA RunKeeps ==
    ASSUME NEW lines \in Seq(Lines), NEW r, Run(1, EmptySet, lines, Len(lines), r),
           NEW k \in 0 .. Len(lines)
    PROVE  Kept(r[k], lines, k)
<1> DEFINE n == Len(lines)
           S == {j \in 0 .. n : Kept(r[j], lines, j)}
<1>1. n \in Nat
  BY LenProperties
<1>2. r[0] = EmptySet /\ \A j \in 1 .. n : r[j] = Take(1, r[j - 1], lines[j])
  BY DEF Run
<1>3. 0 \in S
  <2>1. {j \in 1 .. 0 : ~lines[j].blank} = {} /\ {i \in 1 .. 0 : Readable(lines[i])} = {}
    OBVIOUS
  <2>2. Cardinality({}) = 0
    BY FS_EmptySet
  <2>3. Len(EmptySet.indicators) + Len(EmptySet.duplicates) + EmptySet.refused = 0
    BY EmptySetTyped
  <2>4. KeysOf(EmptySet.duplicates) = {}
    BY EmptySetTyped
  <2>5. Kept(EmptySet, lines, 0)
    BY <2>1, <2>2, <2>3, <2>4, EmptySetTyped DEF Kept
  <2> QED
    BY <1>1, <1>2, <2>5
<1>4. ASSUME NEW j \in S, j < n
      PROVE  j + 1 \in S
  <2>1. j \in Nat /\ j + 1 \in 1 .. n /\ (j + 1) - 1 = j /\ j + 1 \in 0 .. n
    BY <1>1, <1>4
  <2>2. Kept(r[j], lines, j)
    BY <1>4
  <2>3. r[j + 1] = Take(1, r[(j + 1) - 1], lines[j + 1])
    BY <1>2, <2>1
  <2>4. Kept(r[j + 1], lines, j + 1)
    BY <2>1, <2>2, <2>3, ReadKeeps
  <2> QED
    BY <2>1, <2>4
<1>5. S = 0 .. n
  <2> HIDE DEF S
  <2>1. S \in SUBSET (0 .. n)
    BY DEF S
  <2> QED
    BY <1>1, <1>3, <1>4, <2>1, Climb
<1>6. k \in S
  BY <1>5
<1> QED
  BY <1>6

LEMMA TextKept ==
    ASSUME NEW lines \in Seq(Lines)
    PROVE  Kept(ParseIndicatorText(lines), lines, Len(lines))
<1>1. Len(lines) \in Nat /\ Len(lines) \in 0 .. Len(lines)
  BY LenProperties
<1>2. PICK r : Run(1, EmptySet, lines, Len(lines), r)
  BY <1>1, RunExists
<1> QED
  BY <1>1, <1>2, RunKeeps, ParseIsRun

-----------------------------------------------------------------------------
(* The inductive invariant: the session has the set of its text, and the index *)
(* has the records of that set and the tables of these records.                *)

Filed(inds) ==
    [k \in DOMAIN inds |-> [id |-> k, generation |-> After(1, k - 1), active |-> TRUE,
                            value |-> Completed(inds[k]), role |-> inds[k].role,
                            blank |-> inds[k].blank]]

SessionInv ==
    /\ Inv
    /\ text \in Seq(Lines) /\ Len(text) <= MaxLines
    /\ currentSet = ParseIndicatorText(text)
    /\ records = Filed(currentSet.indicators)

(* As many indicators as lines at most.                                        *)
LEMMA FewIndicators ==
    ASSUME NEW lines \in Seq(Lines)
    PROVE  LET set == ParseIndicatorText(lines)
           IN  /\ set \in Sets
               /\ Len(set.indicators) \in Nat /\ Len(set.indicators) <= Len(lines)
<1> DEFINE set == ParseIndicatorText(lines)
           n   == Len(lines)
           written == {j \in 1 .. n : ~lines[j].blank}
<1>1. Kept(set, lines, n)
  BY TextKept
<1> HIDE DEF set
<1>2. set \in Sets /\ Len(set.indicators) + Len(set.duplicates) + set.refused = Cardinality(written)
  BY <1>1 DEF Kept
<1>3. Len(set.indicators) \in Nat /\ Len(set.duplicates) \in Nat /\ set.refused \in Nat
  BY <1>2, SetTyped
<1>4. n \in Nat
  BY LenProperties
<1>5. Cardinality(written) \in Nat /\ Cardinality(written) <= n
  <2>2. written \subseteq 1 .. n
    OBVIOUS
  <2> HIDE DEF written, n
  <2>1. IsFiniteSet(1 .. n) /\ Cardinality(1 .. n) = n
    BY <1>4, FS_Interval
  <2>3. Cardinality(written) <= Cardinality(1 .. n) /\ IsFiniteSet(written)
    BY <2>1, <2>2, FS_Subset
  <2> QED
    BY <2>1, <2>3, FS_CardinalityType
<1> HIDE DEF n, written
<1>6. Len(set.indicators) <= n
  <2> DEFINE a == Len(set.indicators)
             b == Len(set.duplicates)
             c == set.refused
  <2>1. a \in Nat /\ b \in Nat /\ c \in Nat /\ a + b + c = Cardinality(written)
    BY <1>2, <1>3
  <2> HIDE DEF a, b, c
  <2>2. a <= n
    BY <1>4, <1>5, <2>1
  <2> QED
    BY <2>2 DEF a
<1> QED
  BY <1>2, <1>3, <1>6 DEF set, n

(* An indicator from the parser needs no completion, and its record is one of  *)
(* the index.                                                                  *)
LEMMA FiledRecords ==
    ASSUME NEW inds \in Seq(Parsed), Len(inds) <= MaxId
    PROVE  /\ Filed(inds) \in Seq(Record)
           /\ Len(inds) \in Nat /\ DOMAIN inds = 1 .. Len(inds)
           /\ DOMAIN Filed(inds) = 1 .. Len(inds)
           /\ \A k \in 1 .. Len(inds) :
                 /\ Filed(inds)[k].id = k /\ Filed(inds)[k].active
                 /\ Filed(inds)[k].value = inds[k].value
                 /\ Filed(inds)[k].role = inds[k].role
                 /\ KeyOf(Filed(inds)[k]) = IndicatorKey(inds[k])
<1> DEFINE n == Len(inds)
<1>1. n \in Nat /\ DOMAIN inds = 1 .. n /\ n <= MaxId
  BY LenProperties
<1>2. ASSUME NEW k \in 1 .. n
      PROVE  /\ inds[k] \in Parsed /\ Completed(inds[k]) = inds[k].value
             /\ inds[k].value \in Values /\ inds[k].role \in Roles
             /\ inds[k].blank \in BOOLEAN /\ ~inds[k].blank
  <2>1. inds[k] \in Inputs /\ ~inds[k].blank
    BY ElementOfSeq DEF Parsed
  <2>2. Completed(inds[k]) = inds[k].value
    BY <2>1 DEF Completed
  <2> QED
    BY <2>1, <2>2, InputsAssumption DEF Values, Parsed
<1> DEFINE recs == Filed(inds)
<1>3. recs = [k \in 1 .. n |-> [id |-> k, generation |-> After(1, k - 1), active |-> TRUE,
                                value |-> Completed(inds[k]), role |-> inds[k].role,
                                blank |-> inds[k].blank]]
  BY <1>1 DEF Filed
<1> HIDE DEF recs, n
<1>4. ASSUME NEW k \in 1 .. n
      PROVE  recs[k] \in Record
  <2>1. recs[k] = [id |-> k, generation |-> After(1, k - 1), active |-> TRUE,
                   value |-> inds[k].value, role |-> inds[k].role, blank |-> inds[k].blank]
    BY <1>2, <1>3
  <2>2. k \in Ids
    BY <1>1, CountersAssumption DEF Ids
  <2>3. After(1, k - 1) \in 0 .. GenerationMod - 1
    BY <1>1, CountersAssumption DEF After
  <2> QED
    BY <1>2, <2>1, <2>2, <2>3 DEF Record
<1>5. recs \in Seq(Record)
  BY <1>1, <1>3, <1>4
<1>6. ASSUME NEW k \in 1 .. n
      PROVE  /\ recs[k].id = k /\ recs[k].active
             /\ recs[k].value = inds[k].value /\ recs[k].role = inds[k].role
             /\ KeyOf(recs[k]) = IndicatorKey(inds[k])
  BY <1>2, <1>3 DEF KeyOf, IndicatorKey, Unnamed
<1>7. DOMAIN recs = 1 .. n
  BY <1>3
<1> QED
  BY <1>1, <1>5, <1>6, <1>7 DEF recs, n

LEMMA FreshIndexInv ==
    ASSUME NEW inds \in Seq(Parsed), Len(inds) <= MaxId, FreshIndex(inds)
    PROVE  Inv' /\ records' = Filed(inds)
<1> DEFINE recs == Filed(inds)
           n    == Len(inds)
<1>1. /\ records' = recs
      /\ idToSlot' = IdMap(recs, DOMAIN recs)
      /\ keyToSlot' = KeyMap(recs, DOMAIN recs)
      /\ domains' = DomainPostings(recs, DOMAIN recs)
      /\ hashes' = HashPostings(recs, DOMAIN recs)
      /\ trie' = TriePostings(recs, DOMAIN recs)
      /\ nodes' = TrieNodes(recs, DOMAIN recs)
      /\ nextId' = n + 1
      /\ generation' = After(1, n)
  BY DEF FreshIndex, Filed
<1>2. /\ recs \in Seq(Record) /\ n \in Nat /\ n <= MaxId /\ DOMAIN recs = 1 .. n
      /\ \A k \in 1 .. n : recs[k].id = k /\ recs[k].active
  BY FiledRecords
<1> HIDE DEF recs, n
<1>3. ActiveSlots(recs) = DOMAIN recs
  BY <1>2 DEF ActiveSlots
<1>4. TypeOK'
  <2>1. generation' \in 0 .. GenerationMod - 1
    BY <1>1, <1>2, CountersAssumption DEF After
  <2>2. nextId' \in 1 .. MaxId + 1
    BY <1>1, <1>2, CountersAssumption
  <2>3. DOMAIN idToSlot' \subseteq Ids /\ DOMAIN keyToSlot' \subseteq Keys
    BY <1>1, <1>2, MapTypes
  <2> QED
    BY <1>1, <1>2, <2>1, <2>2, <2>3 DEF TypeOK
<1>5. IdsResolve'
  <2>1. \A s, t \in DOMAIN recs : s < t => recs[s].id < recs[t].id
    BY <1>2
  <2>2. \A s \in DOMAIN recs : recs[s].id < n + 1
    BY <1>2
  <2> QED
    BY <1>1, <2>1, <2>2 DEF IdsResolve
<1>6. TablesCurrent'
  BY <1>1, <1>3 DEF TablesCurrent
<1> QED
  BY <1>1, <1>4, <1>5, <1>6 DEF Inv, recs

LEMMA EmptyText ==
    /\ << >> \in Seq(Lines) /\ Len(<< >>) = 0
    /\ ParseIndicatorText(<< >>) = EmptySet
<1>1. << >> \in Seq(Lines) /\ Len(<< >>) = 0
  BY EmptySeq
<1>2. PICK r : Run(1, EmptySet, << >>, 0, r)
  BY RunExists
<1>3. ParseIndicatorText(<< >>) = r[0]
  BY <1>1, <1>2, ParseIsRun
<1> QED
  BY <1>1, <1>2, <1>3 DEF Run

LEMMA InitSessionInv == InitSession => SessionInv
<1> SUFFICES ASSUME InitSession PROVE SessionInv
  OBVIOUS
<1>1. Inv /\ records = << >> /\ text = << >> /\ currentSet = EmptySet
  BY InitInv DEF InitSession, Init
<1>2. currentSet = ParseIndicatorText(text)
  BY <1>1, EmptyText
<1>3. Filed(<< >>) = << >>
  BY DEF Filed
<1>4. EmptySet.indicators = << >>
  BY EmptySetTyped
<1>5. 0 <= MaxLines
  BY MaxLinesAssumption
<1> QED
  BY <1>1, <1>2, <1>3, <1>4, <1>5, EmptyText DEF SessionInv

LEMMA NextSessionInv == SessionInv /\ [NextSession]_sessionVars => SessionInv'
<1>1. ASSUME SessionInv, NextSession PROVE SessionInv'
  <2>1. PICK n \in 0 .. MaxLines : \E lines \in [1 .. n -> Lines] : Ingest(lines)
    BY <1>1 DEF NextSession
  <2>2. PICK lines \in [1 .. n -> Lines] : Ingest(lines)
    BY <2>1
  <2>3. n \in Nat /\ n <= MaxLines
    BY MaxLinesAssumption
  <2>4. lines \in Seq(Lines) /\ Len(lines) = n
    BY <2>2, <2>3
  <2>5. /\ text' = lines /\ currentSet' = ParseIndicatorText(lines)
        /\ FreshIndex(currentSet'.indicators)
    BY <2>2 DEF Ingest
  <2>6. /\ currentSet'.indicators \in Seq(Parsed)
        /\ Len(currentSet'.indicators) \in Nat /\ Len(currentSet'.indicators) <= n
    BY <2>4, <2>5, FewIndicators, SetTyped
  <2>7. Len(currentSet'.indicators) <= MaxId
    BY <2>3, <2>6, MaxLinesAssumption, CountersAssumption
  <2> DEFINE inds == currentSet'.indicators
  <2>8. Inv' /\ records' = Filed(inds)
    <3>1. inds \in Seq(Parsed) /\ Len(inds) <= MaxId /\ FreshIndex(inds)
      BY <2>5, <2>6, <2>7
    <3> HIDE DEF inds
    <3> QED
      BY <3>1, FreshIndexInv
  <2> QED
    BY <2>3, <2>4, <2>5, <2>8 DEF SessionInv
<1>2. ASSUME SessionInv, UNCHANGED sessionVars PROVE SessionInv'
  BY <1>2 DEF SessionInv, sessionVars, vars, Inv, TypeOK, IdsResolve, TablesCurrent
<1> QED
  BY <1>1, <1>2

(* Whatever texts are ingested, the session and its index are those of the     *)
(* text ingested last.                                                         *)
THEOREM SessionInvariance == SpecSession => []SessionInv
<1> QED
  BY InitSessionInv, NextSessionInv, PTL DEF SpecSession

-----------------------------------------------------------------------------
(* The properties.                                                             *)

LEMMA SameLength ==
    ASSUME NEW a \in Nat, NEW b \in Nat, 1 .. a = 1 .. b
    PROVE  a = b
<1>1. a # 0 => a \in 1 .. b
  OBVIOUS
<1>2. b # 0 => b \in 1 .. a
  OBVIOUS
<1> QED
  BY <1>1, <1>2

(* What the invariant says of the records and of the set.                      *)
LEMMA SessionRecords ==
    ASSUME SessionInv
    PROVE  LET inds == currentSet.indicators
           IN  /\ Kept(currentSet, text, Len(text))
               /\ inds \in Seq(Parsed) /\ Len(inds) \in Nat
               /\ DOMAIN inds = 1 .. Len(inds) /\ DOMAIN records = 1 .. Len(inds)
               /\ Len(records) = Len(inds)
               /\ ActiveSlots(records) = DOMAIN records
               /\ \A k \in 1 .. Len(inds) :
                     /\ records[k].value = inds[k].value /\ records[k].role = inds[k].role
                     /\ KeyOf(records[k]) = IndicatorKey(inds[k])
<1> DEFINE inds == currentSet.indicators
           n    == Len(inds)
<1>1. Kept(currentSet, text, Len(text)) /\ Len(text) \in Nat
  BY TextKept, LenProperties DEF SessionInv
<1>2. inds \in Seq(Parsed) /\ n \in Nat /\ n <= Len(text)
  BY FewIndicators, SetTyped DEF SessionInv
<1>3. n <= MaxId
  BY <1>1, <1>2, MaxLinesAssumption, CountersAssumption DEF SessionInv
<1>4. records = Filed(inds)
  BY DEF SessionInv
<1> HIDE DEF inds
<1>5. /\ records \in Seq(Record)
      /\ DOMAIN inds = 1 .. n /\ DOMAIN records = 1 .. n
      /\ \A k \in 1 .. n :
            /\ records[k].active
            /\ records[k].value = inds[k].value /\ records[k].role = inds[k].role
            /\ KeyOf(records[k]) = IndicatorKey(inds[k])
  BY <1>2, <1>3, <1>4, FiledRecords
<1>6. Len(records) = n
  <2>1. Len(records) \in Nat /\ DOMAIN records = 1 .. Len(records)
    BY <1>5, LenProperties
  <2> HIDE DEF n
  <2>2. 1 .. Len(records) = 1 .. n
    BY <1>5, <2>1
  <2> QED
    BY <1>2, <2>1, <2>2, SameLength
<1>7. ActiveSlots(records) = DOMAIN records
  BY <1>5 DEF ActiveSlots
<1> QED
  BY <1>1, <1>2, <1>5, <1>6, <1>7 DEF inds

LEMMA InvKeysUnique == SessionInv => KeysUnique
<1> SUFFICES ASSUME SessionInv PROVE KeysUnique
  OBVIOUS
<1> DEFINE inds == currentSet.indicators
           n    == Len(inds)
<1>1. /\ Kept(currentSet, text, Len(text))
      /\ n \in Nat /\ DOMAIN inds = 1 .. n /\ DOMAIN records = 1 .. n /\ Len(records) = n
      /\ ActiveSlots(records) = DOMAIN records
      /\ \A k \in 1 .. n : KeyOf(records[k]) = IndicatorKey(inds[k])
  BY SessionRecords
<1>2. Inv /\ text \in Seq(Lines)
  BY DEF SessionInv
<1> HIDE DEF inds, n
<1>3. /\ Distinct(inds)
      /\ KeysOf(currentSet.duplicates) \subseteq KeysOf(inds)
      /\ n + Len(currentSet.duplicates) + currentSet.refused
           = Cardinality({j \in 1 .. Len(text) : ~text[j].blank})
  BY <1>1 DEF Kept, inds, n
<1>4. ASSUME NEW s \in DOMAIN records
      PROVE  keyToSlot[KeyOf(records[s])] = s
  <2>1. KeyOf(records[s]) \in DOMAIN keyToSlot
    BY <1>1, <1>2, <1>4, KeyLeadsToRecord
  <2>2. PICK t \in DOMAIN records :
           t = keyToSlot[KeyOf(records[s])] /\ KeyOf(records[t]) = KeyOf(records[s])
    BY <1>1, <1>2, <2>1, KeyLeadsToRecord
  <2>3. IndicatorKey(inds[t]) = IndicatorKey(inds[s])
    BY <1>1, <2>2
  <2> QED
    BY <1>1, <1>3, <2>2, <2>3 DEF Distinct
<1>5. ASSUME NEW d \in Range(currentSet.duplicates)
      PROVE  ContainsKey(IndicatorKey(d))
  <2>1. IndicatorKey(d) \in KeysOf(inds)
    BY <1>3 DEF Range, KeysOf
  <2>2. PICK k \in 1 .. n : IndicatorKey(inds[k]) = IndicatorKey(d)
    BY <1>1, <2>1 DEF KeysOf
  <2>3. IndicatorKey(d) \in DOMAIN keyToSlot /\ keyToSlot[IndicatorKey(d)] \in ActiveSlots(records)
    BY <1>1, <1>2, <2>2, KeyLeadsToRecord
  <2> QED
    BY <2>3 DEF ContainsKey, ActiveSlots
<1>6. Len(records) + Len(currentSet.duplicates) + currentSet.refused
         = Cardinality({k \in DOMAIN text : ~text[k].blank})
  <2>1. DOMAIN text = 1 .. Len(text)
    BY <1>2, LenProperties
  <2> QED
    BY <1>1, <1>3, <2>1
<1> QED
  BY <1>4, <1>5, <1>6 DEF KeysUnique

(* Duplicates are recognized by the key that the index files under, and no     *)
(* line of a text is lost.                                                     *)
THEOREM KeysAlwaysUnique == SpecSession => []KeysUnique
<1> QED
  BY InvKeysUnique, SessionInvariance, PTL

(* The hosts that the lines of a text name are in normal form.                 *)
HostsNormal ==
    \A line \in Lines : ~line.blank =>
        \A ind \in ParseIndicatorLine(line) : HasNormalHost(ind.value)

LEMMA InvAnswersLastText ==
    ASSUME HostsNormal
    PROVE  SessionInv => AnswersLastText
<1> SUFFICES ASSUME SessionInv PROVE AnswersLastText
  OBVIOUS
<1> DEFINE inds  == currentSet.indicators
           n     == Len(inds)
           live  == {[value |-> records[s].value, role |-> records[s].role] :
                        s \in ActiveSlots(records)}
           given == {[value |-> i.value, role |-> i.role] : i \in Range(inds)}
<1>1. /\ Kept(currentSet, text, Len(text))
      /\ inds \in Seq(Parsed) /\ n \in Nat /\ DOMAIN inds = 1 .. n
      /\ ActiveSlots(records) = 1 .. n
      /\ \A k \in 1 .. n : records[k].value = inds[k].value /\ records[k].role = inds[k].role
  BY SessionRecords
<1>2. live = given
  BY <1>1 DEF Range
<1>3. text \in Seq(Lines) /\ Inv /\ currentSet = ParseIndicatorText(text)
  BY DEF SessionInv
<1>4. ASSUME NEW k \in 1 .. n
      PROVE  HasNormalHost(inds[k].value)
  <2>1. IndicatorKey(inds[k]) \in KeysOf(inds)
    BY <1>1 DEF KeysOf
  <2>2. PICK j \in 1 .. Len(text) :
           Readable(text[j]) /\ IndicatorKey(inds[k]) = IndicatorKey(IndicatorOf(text[j]))
    BY <1>1, <2>1 DEF Kept
  <2>3. text[j] \in Lines
    BY <1>3, <2>2, ElementOfSeq
  <2>4. IndicatorOf(text[j]) \in ParseIndicatorLine(text[j])
    BY <2>2, <2>3, ReadIsParsed
  <2>5. inds[k].value = IndicatorOf(text[j]).value
    <3>1. inds[k] \in Parsed /\ IndicatorOf(text[j]) \in Parsed
      BY <1>1, <2>2, <2>3, ElementOfSeq, ReadIsParsed
    <3> QED
      BY <2>2, <3>1, ParsedKey
  <2> QED
    BY <2>2, <2>3, <2>4, <2>5 DEF HostsNormal, Readable
<1>5. \A i \in live : HasNormalHost(i.value)
  <2> SUFFICES ASSUME NEW s \in ActiveSlots(records) PROVE HasNormalHost(records[s].value)
    OBVIOUS
  <2> QED
    BY <1>1, <1>4
<1>6. IndexAgreesWithScan
  BY <1>3, InvAgrees
<1>7. \A pkt \in Packets : MatchIndexed(pkt) = MatchPacket(live, pkt)
  BY <1>5, <1>6 DEF IndexAgreesWithScan
<1> HIDE DEF live
<1>8. \A pkt \in Packets : MatchIndexed(pkt) = MatchPacket(given, pkt)
  BY <1>2, <1>7
<1> QED
  BY <1>3, <1>8 DEF AnswersLastText

(* Nothing of an earlier text is found, and all of the last is, if the hosts   *)
(* that it names are in normal form: the parser lets others through.           *)
THEOREM AlwaysAnswersLastText ==
    ASSUME HostsNormal
    PROVE  SpecSession => []AnswersLastText
<1>1. SessionInv => AnswersLastText
  BY InvAnswersLastText
<1> QED
  BY <1>1, SessionInvariance, PTL

-----------------------------------------------------------------------------
(* What a line that is read says.                                              *)

Meant(line) == Completed([value |-> line.value, blank |-> TRUE])

LEMMA NamesOfTypes ==
    /\ DOMAIN NamedTypes = {"ip", "cidr", "domain", "host", "url", "hash", "md5", "sha1", "sha256"}
    /\ "" \notin DOMAIN NamedTypes
    /\ \A type \in {"ip", "cidr", "domain", "url", "hash"} : NamedTypes[type] = type
<1>1. DOMAIN NamedTypes = {"ip", "cidr", "domain", "host", "url", "hash", "md5", "sha1", "sha256"}
  BY DEF NamedTypes
<1>2. "" \notin {"ip", "cidr", "domain", "host", "url", "hash", "md5", "sha1", "sha256"}
  BY Zenon
<1>3. \A type \in {"ip", "cidr", "domain", "url", "hash"} : NamedTypes[type] = type
  BY DEF NamedTypes
<1> QED
  BY <1>1, <1>2, <1>3

(* The type of a line is that of its value.                                    *)
LEMMA TypeIsOfValue ==
    ASSUME NEW line \in WrittenLines, IsKnown(line.value), ~CutShort(line), Typed(line)
    PROVE  /\ TypeOfLine(line) = {line.value.type}
           /\ line.value.type \in {"ip", "cidr", "domain", "url", "hash"}
           /\ line.value.type = "url" => line.quoted
<1>1. line.value.type \in {"ip", "cidr", "domain", "url", "hash"}
  BY DEF WrittenLines, LineValues, IsKnown, AddressType
<1>2. line.value.type = "url" => line.quoted
  <2>1. line.value.type = "url" => line.value.scheme \in {"http", "https"}
    BY DEF WrittenLines, LineValues, AddressType
  <2>2. "" \notin {"http", "https"}
    BY Zenon
  <2> QED
    BY <2>1, <2>2 DEF CutShort, WrittenLines
<1>3. CASE line.token = line.value.type
  <2>1. line.token \in DOMAIN NamedTypes /\ NamedTypes[line.token] = line.value.type
    BY <1>1, <1>3, NamesOfTypes
  <2> QED
    BY <1>1, <1>2, <2>1 DEF TypeOfLine
<1>4. CASE line.token = "" /\ NeedsNoToken(line)
  <2>1. line.token \notin DOMAIN NamedTypes
    BY <1>4, NamesOfTypes
  <2>2. TypeOfLine(line) = {line.value.type} \ {"url", "unknown"}
    BY <1>4, <2>1 DEF TypeOfLine
  <2>3. line.value.type \notin {"url", "unknown"}
    BY <1>2, <1>4 DEF IsKnown, NeedsNoToken
  <2> QED
    BY <1>1, <1>2, <2>2, <2>3
<1> QED
  BY <1>3, <1>4 DEF Typed

(* A value is read as what it is, in normal form.                              *)
LEMMA ReadAsMeant ==
    ASSUME NEW line \in WrittenLines,
           line.value.type \in {"ip", "cidr", "domain", "url", "hash"},
           line.value.type = "url" => line.quoted
    PROVE  ReadAs(line.value.type, line) = {Meant(line)}
<1> DEFINE v == line.value
<1>1. CASE v.type = "ip"
  BY <1>1 DEF ReadAs, Meant, Completed
<1>2. CASE v.type = "cidr"
  <2>1. v \in [type : AddressType, bits : Seq(Bit)]
    BY <1>2 DEF WrittenLines, LineValues
  <2>2. [v EXCEPT !.type = "cidr"] = v
    BY <1>2, <2>1
  <2>3. ReadAs("cidr", line) = {[v EXCEPT !.type = "cidr"]}
    BY <1>2 DEF ReadAs, AddressType
  <2>4. Meant(line) = v
    BY <1>2 DEF Meant, Completed
  <2> QED
    BY <1>2, <2>2, <2>3, <2>4
<1>3. CASE v.type = "domain"
  BY <1>3 DEF ReadAs, Meant, Completed
<1>4. CASE v.type = "url"
  <2>1. ~CutShort(line)
    BY <1>4 DEF CutShort
  <2>2. v \in [type : {"url"}, scheme : {"http", "https"}, host : Name, port : STRING,
               path : STRING]
    BY <1>4 DEF WrittenLines, LineValues, AddressType
  <2>3. UrlIn(line) = [v EXCEPT !.type = "url"]
    BY <1>4, <2>1 DEF UrlIn
  <2>4. [v EXCEPT !.type = "url"] = v
    BY <2>2
  <2> QED
    BY <1>4, <2>3, <2>4 DEF ReadAs, Meant, Completed
<1>5. CASE v.type = "hash"
  BY <1>5 DEF ReadAs, Meant, Completed
<1> QED
  BY <1>1, <1>2, <1>3, <1>4, <1>5

LEMMA InvWholeLinesUnderstood == SessionInv => WholeLinesUnderstood
<1> SUFFICES ASSUME SessionInv, NEW j \in DOMAIN text, ~text[j].blank,
                    IsKnown(text[j].value), ~CutShort(text[j]),
                    Typed(text[j])
             PROVE  \E r \in Range(records) : Says(text[j], r)
  BY DEF WholeLinesUnderstood, Range
<1> DEFINE line == text[j]
           inds == currentSet.indicators
           n    == Len(inds)
           ind  == [value |-> Meant(line), role |-> RoleOf(line), blank |-> FALSE]
<1>1. /\ Kept(currentSet, text, Len(text))
      /\ DOMAIN inds = 1 .. n /\ DOMAIN records = 1 .. n
      /\ \A k \in 1 .. n : records[k].value = inds[k].value /\ records[k].role = inds[k].role
  BY SessionRecords
<1>2. text \in Seq(Lines) /\ DOMAIN text = 1 .. Len(text)
  BY LenProperties DEF SessionInv
<1>3. line \in Lines
  BY <1>2, ElementOfSeq
<1>4. line \in WrittenLines
  <2>1. line \in {BlankLine} \cup WrittenLines /\ ~line.blank
    BY <1>3, LinesAssumption
  <2> HIDE DEF line
  <2>2. BlankLine.blank
    BY DEF BlankLine
  <2>3. line # BlankLine
    BY <2>1, <2>2, Zenon
  <2> QED
    BY <2>1, <2>3
<1>5. ParseIndicatorLine(line) = {ind}
  <2>1. /\ TypeOfLine(line) = {line.value.type}
        /\ line.value.type \in {"ip", "cidr", "domain", "url", "hash"}
        /\ line.value.type = "url" => line.quoted
    BY <1>4, TypeIsOfValue
  <2>2. ReadAs(line.value.type, line) = {Meant(line)}
    BY <1>4, <2>1, ReadAsMeant
  <2> HIDE DEF line
  <2>3. UNION {ReadAs(type, line) : type \in TypeOfLine(line)} = {Meant(line)}
    BY <2>1, <2>2
  <2> QED
    BY <2>3 DEF ParseIndicatorLine
<1>6. Readable(line) /\ IndicatorOf(line) = ind
  BY <1>5 DEF Readable, IndicatorOf
<1> HIDE DEF line, ind, n, inds
<1>7. IndicatorKey(ind) \in KeysOf(inds)
  BY <1>1, <1>2, <1>6 DEF Kept, line, inds
<1>8. PICK k \in 1 .. n : IndicatorKey(inds[k]) = IndicatorKey(ind)
  BY <1>1, <1>7 DEF KeysOf
<1>9. records[k].value = Meant(line) /\ records[k].role = RoleOf(line)
  <2>1. inds[k] \in Parsed
    <3>1. inds \in Seq(Parsed)
      BY SessionRecords DEF inds
    <3>2. k \in DOMAIN inds
      BY <1>1
    <3> QED
      BY <3>1, <3>2, ElementOfSeq
  <2>2. ind \in Parsed
    BY <1>3, <1>6, ReadIsParsed
  <2>3. inds[k].value = ind.value /\ inds[k].role = ind.role
    BY <1>8, <2>1, <2>2, ParsedKey
  <2>4. ind.value = Meant(line) /\ ind.role = RoleOf(line)
    BY DEF ind
  <2> QED
    BY <1>1, <2>3, <2>4
<1>10. line.role \in Roles => RoleOf(line) = line.role
  BY DEF RoleOf, line
<1>11. Says(line, records[k])
  BY <1>9, <1>10 DEF Says, Meant
<1>12. records[k] \in Range(records)
  BY <1>1 DEF Range
<1> QED
  BY <1>11, <1>12 DEF line

(* What a line says whose type and extent the parser cannot mistake, a record  *)
(* of the session says.                                                        *)
THEOREM WholeLinesAlwaysUnderstood == SpecSession => []WholeLinesUnderstood
<1> QED
  BY InvWholeLinesUnderstood, SessionInvariance, PTL

-----------------------------------------------------------------------------
(* Merging.  The tail of a text is read along with the text: what the set of   *)
(* the tail adds to the set of the lines before is what its lines add.         *)

(* A run stops anywhere, and does not look ahead.                              *)
LEMMA RunPrefix ==
    ASSUME NEW kind, NEW base, NEW seq, NEW n \in Nat, NEW r, Run(kind, base, seq, n, r),
           NEW m \in 0 .. n, NEW part, \A k \in 1 .. m : part[k] = seq[k]
    PROVE  Run(kind, base, part, m, [k \in 0 .. m |-> r[k]])
<1> DEFINE q == [k \in 0 .. m |-> r[k]]
<1>1. r[0] = base /\ \A k \in 1 .. n : r[k] = Take(kind, r[k - 1], seq[k])
  BY DEF Run
<1>2. q = [k \in 0 .. m |-> q[k]] /\ \A k \in 0 .. m : q[k] = r[k]
  OBVIOUS
<1> HIDE DEF q
<1>3. ASSUME NEW k \in 1 .. m
      PROVE  q[k] = Take(kind, q[k - 1], part[k])
  <2>1. k \in 1 .. n /\ k \in 0 .. m /\ k - 1 \in 0 .. m
    OBVIOUS
  <2>2. r[k] = Take(kind, r[k - 1], seq[k])
    BY <1>1, <2>1
  <2>3. q[k] = r[k] /\ q[k - 1] = r[k - 1]
    BY <1>2, <2>1
  <2>4. part[k] = seq[k]
    OBVIOUS
  <2> QED
    BY <2>2, <2>3, <2>4
<1>4. 0 \in 0 .. m
  OBVIOUS
<1>5. q[0] = base
  BY <1>1, <1>2, <1>4
<1> QED
  BY <1>2, <1>3, <1>5 DEF Run, q

LEMMA IncludeAllAppend ==
    ASSUME NEW base, NEW inds \in Seq(Parsed), NEW ind \in Parsed
    PROVE  IncludeAll(base, Append(inds, ind)) = Include(IncludeAll(base, inds), ind)
<1> DEFINE n   == Len(inds)
           all == Append(inds, ind)
<1>1. /\ all \in Seq(Parsed) /\ Len(all) = n + 1 /\ n \in Nat
      /\ \A a \in 1 .. n : all[a] = inds[a]
      /\ all[n + 1] = ind
  BY Appended
<1> HIDE DEF n, all
<1>12. n + 1 \in Nat
  BY <1>1
<1>2. PICK r : Run(2, base, all, n + 1, r)
  BY <1>12, RunExists
<1> DEFINE q == [k \in 0 .. n |-> r[k]]
<1>3. n + 1 \in Nat /\ n \in 0 .. n + 1 /\ n + 1 \in 1 .. n + 1 /\ n \in 0 .. n /\ (n + 1) - 1 = n
  BY <1>1
<1>4. \A a \in 1 .. n : inds[a] = all[a]
  BY <1>1
<1>5. Run(2, base, inds, n, q)
  BY <1>2, <1>3, <1>4, RunPrefix
<1>6. q[n] = r[n]
  BY <1>3
<1> HIDE DEF q
<1>7. IncludeAll(base, inds) = r[n]
  BY <1>5, <1>6, IncludeAllIsRun DEF n
<1>8. IncludeAll(base, all) = r[n + 1]
  BY <1>1, <1>2, IncludeAllIsRun
<1>9. r[n + 1] = Take(2, r[(n + 1) - 1], all[n + 1])
  <2> DEFINE m == n + 1
  <2>1. m \in 1 .. m
    BY <1>3
  <2>2. Run(2, base, all, m, r)
    BY <1>2
  <2> HIDE DEF m
  <2>3. r[m] = Take(2, r[m - 1], all[m])
    BY <2>1, <2>2, Zenon DEF Run
  <2> QED
    BY <2>3, Zenon DEF m
<1>10. r[n + 1] = Include(r[n], ind)
  BY <1>1, <1>3, <1>9 DEF Take
<1>11. IncludeAll(base, all) = Include(IncludeAll(base, inds), ind)
  BY <1>7, <1>8, <1>10, Zenon
<1> QED
  BY <1>11, Zenon DEF all

(* Every key is included; included in an empty set, distinct indicators stay   *)
(* as they are.                                                                *)
LEMMA IncludesAll ==
    ASSUME NEW base \in Sets, NEW inds \in Seq(Parsed)
    PROVE  LET new == IncludeAll(base, inds)
           IN  /\ new \in Sets /\ new.refused = base.refused
               /\ KeysOf(new.indicators) = KeysOf(base.indicators) \cup KeysOf(inds)
               /\ base.indicators = << >> /\ Distinct(inds) => new.indicators = inds
<1> DEFINE n == Len(inds)
           Keyed(i) == {IndicatorKey(inds[a]) : a \in 1 .. i}
<1>1. n \in Nat /\ DOMAIN inds = 1 .. n
  BY LenProperties
<1>2. PICK r : Run(2, base, inds, n, r)
  BY <1>1, RunExists
<1>3. IncludeAll(base, inds) = r[n]
  BY <1>2, IncludeAllIsRun
<1>4. r[0] = base /\ \A k \in 1 .. n : r[k] = Take(2, r[k - 1], inds[k])
  BY <1>2 DEF Run
<1> DEFINE Good(i) ==
               /\ r[i] \in Sets /\ r[i].refused = base.refused
               /\ KeysOf(r[i].indicators) = KeysOf(base.indicators) \cup Keyed(i)
               /\ base.indicators = << >> /\ Distinct(inds)
                    => r[i].indicators = SubSeq(inds, 1, i)
           S == {i \in 0 .. n : Good(i)}
<1>5. 0 \in S
  <2>1. Keyed(0) = {}
    OBVIOUS
  <2>2. SubSeq(inds, 1, 0) = << >>
    BY SubSeqEmpty
  <2> HIDE DEF Keyed, n
  <2>3. Good(0)
    BY <1>4, <2>1, <2>2
  <2>4. 0 \in 0 .. n
    BY <1>1
  <2> HIDE DEF Good
  <2> QED
    BY <2>3, <2>4
<1>6. ASSUME NEW i \in S, i < n
      PROVE  i + 1 \in S
  <2>1. i \in Nat /\ i + 1 \in 1 .. n /\ (i + 1) - 1 = i /\ i + 1 \in 0 .. n
    BY <1>1, <1>6
  <2>2. Good(i)
    BY <1>6
  <2> DEFINE ind == inds[i + 1]
  <2>3. ind \in Parsed
    BY <2>1, ElementOfSeq
  <2>4. r[i + 1] = Include(r[i], ind)
    <3>1. r[i + 1] = Take(2, r[(i + 1) - 1], inds[i + 1])
      BY <1>4, <2>1
    <3> QED
      BY <2>1, <3>1 DEF Take
  <2>5. Keyed(i + 1) = Keyed(i) \cup {IndicatorKey(ind)}
    <3>1. \A a : a \in 1 .. i + 1 <=> a \in 1 .. i \/ a = i + 1
      BY <2>1
    <3> QED
      BY <3>1
  <2>6. Distinct(inds) => IndicatorKey(ind) \notin Keyed(i)
    <3> SUFFICES ASSUME Distinct(inds), NEW a \in 1 .. i, IndicatorKey(inds[a]) = IndicatorKey(ind)
                 PROVE  FALSE
      OBVIOUS
    <3>1. a \in DOMAIN inds /\ i + 1 \in DOMAIN inds /\ a # i + 1
      BY <1>1, <2>1
    <3> QED
      BY <3>1 DEF Distinct
  <2>7. SubSeq(inds, 1, i + 1) = Append(SubSeq(inds, 1, i), ind)
    <3>1. (i + 1) - 1 = i /\ 1 \in 1 .. n + 1 /\ i + 1 \in 1 .. n
      BY <1>1, <2>1
    <3>2. SubSeq(inds, 1, i + 1) = Append(SubSeq(inds, 1, (i + 1) - 1), inds[i + 1])
      BY <3>1, SubSeqRecursiveSecond
    <3> QED
      BY <3>1, <3>2
  <2> HIDE DEF Keyed, ind, n
  <2>11. r[i] \in Sets
    BY <2>2
  <2> HIDE DEF S, Good
  <2>8. /\ r[i + 1] \in Sets /\ r[i + 1].refused = r[i].refused
        /\ KeysOf(r[i + 1].indicators) = KeysOf(r[i].indicators) \cup {IndicatorKey(ind)}
        /\ IndicatorKey(ind) \notin KeysOf(r[i].indicators)
             => r[i + 1].indicators = Append(r[i].indicators, ind)
    <3> DEFINE old == r[i]
               new == r[i + 1]
    <3>1. old \in Sets /\ new = Include(old, ind)
      BY <2>4, <2>11
    <3> HIDE DEF old, new
    <3>2. /\ new \in Sets /\ new.refused = old.refused
          /\ IndicatorKey(ind) \notin KeysOf(old.indicators)
               => new.indicators = Append(old.indicators, ind)
          /\ KeysOf(new.indicators) = KeysOf(old.indicators) \cup {IndicatorKey(ind)}
      BY <2>3, <3>1, Included
    <3> QED
      BY <3>2 DEF old, new
  <2>9. base.indicators = << >> /\ Distinct(inds)
          => r[i + 1].indicators = SubSeq(inds, 1, i + 1)
    <3>1. base.indicators = << >> => KeysOf(base.indicators) = {}
      BY DEF KeysOf
    <3> QED
      BY <2>2, <2>6, <2>7, <2>8, <3>1 DEF Good
  <2>10. Good(i + 1)
    BY <2>2, <2>5, <2>8, <2>9 DEF Good
  <2> QED
    BY <2>1, <2>10 DEF S
<1>7. S = 0 .. n
  <2> HIDE DEF S
  <2>1. S \in SUBSET (0 .. n)
    BY DEF S
  <2> QED
    BY <1>1, <1>5, <1>6, <2>1, Climb
<1>8. Good(n)
  <2> HIDE DEF Good, n
  <2>1. n \in 0 .. n
    BY <1>1
  <2> QED
    BY <1>7, <2>1
<1>9. Keyed(n) = KeysOf(inds)
  BY <1>1 DEF KeysOf
<1>10. SubSeq(inds, 1, n) = inds
  BY SubSeqFull
<1> HIDE DEF Keyed, n
<1> QED
  BY <1>3, <1>8, <1>9, <1>10

(* A set joins one that is empty as it is.                                     *)
LEMMA Joined ==
    ASSUME NEW merged \in Sets, NEW set \in Sets, Distinct(set.indicators)
    PROVE  LET new  == JoinSet(merged, set)
               base == [merged EXCEPT !.refused = @ + set.refused]
           IN  /\ new \in Sets /\ new.refused = merged.refused + set.refused
               /\ base \in Sets /\ base.indicators = merged.indicators
               /\ new = IncludeAll(base, set.indicators)
               /\ merged.indicators = << >> => new.indicators = set.indicators
<1> DEFINE base == [merged EXCEPT !.refused = @ + set.refused]
<1>1. merged.refused \in Nat /\ set.refused \in Nat /\ set.indicators \in Seq(Parsed)
  BY SetTyped
<1>2. /\ base \in Sets /\ base.refused = merged.refused + set.refused
      /\ base.indicators = merged.indicators
  <2> DEFINE sum == merged.refused + set.refused
  <2>1. sum \in Nat
    BY <1>1
  <2> HIDE DEF sum
  <2>2. LET new == [merged EXCEPT !.refused = sum]
        IN  new \in Sets /\ new.refused = sum /\ new.indicators = merged.indicators
    BY <2>1 DEF Sets
  <2> QED
    BY <2>2 DEF sum
<1>3. JoinSet(merged, set) = IncludeAll(base, set.indicators)
  BY DEF JoinSet
<1> HIDE DEF base
<1> QED
  BY <1>1, <1>2, <1>3, IncludesAll DEF base

(* What a line does to the indicators and to the refusals of a set.            *)
LEMMA LineRead ==
    ASSUME NEW set \in Sets, NEW line \in Lines
    PROVE  LET new == Take(1, set, line)
           IN  /\ ~Readable(line) => new.indicators = set.indicators
               /\ Readable(line) =>
                     /\ IndicatorKey(IndicatorOf(line)) \in KeysOf(set.indicators)
                          => new.indicators = set.indicators
                     /\ IndicatorKey(IndicatorOf(line)) \notin KeysOf(set.indicators)
                          => new.indicators = Append(set.indicators, IndicatorOf(line))
               /\ IF line.blank \/ Readable(line) THEN new.refused = set.refused
                  ELSE new.refused = set.refused + 1
<1> DEFINE new == Take(1, set, line)
<1>1. CASE line.blank
  <2>1. new = set /\ ~Readable(line)
    BY <1>1 DEF Take, Readable
  <2> QED
    BY <1>1, <2>1
<1>2. CASE ~line.blank /\ ~Readable(line)
  <2>1. new = [set EXCEPT !.refused = @ + 1]
    BY <1>2 DEF Take, Readable, ReadLine
  <2>2. new.indicators = set.indicators /\ new.refused = set.refused + 1
    BY <2>1 DEF Sets
  <2> QED
    BY <1>2, <2>2
<1>3. CASE Readable(line)
  <2> DEFINE ind == IndicatorOf(line)
  <2>1. ind \in Parsed
    BY <1>3, ReadIsParsed
  <2>2. new = Include(set, ind)
    BY <1>3 DEF Take, Readable, ReadLine, IndicatorOf
  <2> HIDE DEF ind, new
  <2>3. /\ new.refused = set.refused
        /\ IF IndicatorKey(ind) \in KeysOf(set.indicators)
           THEN new.indicators = set.indicators
           ELSE new.indicators = Append(set.indicators, ind)
    BY <2>1, <2>2, Included
  <2> QED
    BY <1>3, <2>3 DEF ind, new
<1> QED
  BY <1>1, <1>2, <1>3

LEMMA RunStep ==
    ASSUME NEW kind, NEW base, NEW seq, NEW n \in Nat, NEW r, Run(kind, base, seq, n, r),
           NEW k \in Nat, k < n
    PROVE  r[k + 1] = Take(kind, r[k], seq[k + 1])
<1>1. \A j \in 1 .. n : r[j] = Take(kind, r[j - 1], seq[j])
  BY DEF Run
<1>2. k + 1 \in 1 .. n /\ (k + 1) - 1 = k
  OBVIOUS
<1>3. r[k + 1] = Take(kind, r[(k + 1) - 1], seq[k + 1])
  BY <1>1, <1>2
<1> QED
  BY <1>2, <1>3

(* The set of the lines from a line on, taken into the set of the lines before *)
(* it, against the set of both.                                                *)
Along(base, start, part, whole) ==
    /\ IncludeAll(base, part.indicators).indicators = whole.indicators
    /\ whole.refused = start + part.refused

LEMMA TailStep ==
    ASSUME NEW base \in Sets, NEW start \in Nat, NEW part \in Sets, NEW whole \in Sets,
           NEW line \in Lines, Along(base, start, part, whole)
    PROVE  Along(base, start, Take(1, part, line), Take(1, whole, line))
<1> DEFINE newPart  == Take(1, part, line)
           newWhole == Take(1, whole, line)
           ind == IndicatorOf(line)
<1>1. /\ part.indicators \in Seq(Parsed) /\ part.refused \in Nat /\ whole.refused \in Nat
  BY SetTyped
<1>2. /\ IncludeAll(base, part.indicators).indicators = whole.indicators
      /\ whole.refused = start + part.refused
  BY DEF Along
<1>3. newWhole.refused = start + newPart.refused
  <2>1. \/ newPart.refused = part.refused /\ newWhole.refused = whole.refused
        \/ newPart.refused = part.refused + 1 /\ newWhole.refused = whole.refused + 1
    <3>1. IF line.blank \/ Readable(line) THEN newPart.refused = part.refused
          ELSE newPart.refused = part.refused + 1
      BY LineRead
    <3>2. IF line.blank \/ Readable(line) THEN newWhole.refused = whole.refused
          ELSE newWhole.refused = whole.refused + 1
      BY LineRead
    <3> HIDE DEF newPart, newWhole
    <3> QED
      BY <3>1, <3>2
  <2> HIDE DEF newPart, newWhole
  <2> QED
    BY <1>1, <1>2, <2>1
<1>4. CASE ~Readable(line)
  <2>1. newPart.indicators = part.indicators /\ newWhole.indicators = whole.indicators
    BY <1>4, LineRead
  <2> QED
    BY <1>2, <1>3, <2>1 DEF Along
<1>5. CASE Readable(line)
  <2>1. ind \in Parsed
    BY <1>5, ReadIsParsed
  <2> DEFINE key  == IndicatorKey(ind)
             kept == IncludeAll(base, part.indicators)
  <2>2. /\ key \in KeysOf(part.indicators) => newPart.indicators = part.indicators
        /\ key \notin KeysOf(part.indicators)
             => newPart.indicators = Append(part.indicators, ind)
    BY <1>5, LineRead
  <2>3. /\ key \in KeysOf(whole.indicators) => newWhole.indicators = whole.indicators
        /\ key \notin KeysOf(whole.indicators)
             => newWhole.indicators = Append(whole.indicators, ind)
    BY <1>5, LineRead
  <2>4. /\ kept \in Sets /\ kept.indicators = whole.indicators
        /\ KeysOf(whole.indicators) = KeysOf(base.indicators) \cup KeysOf(part.indicators)
    BY <1>1, <1>2, IncludesAll
  <2>5. IncludeAll(base, Append(part.indicators, ind)) = Include(kept, ind)
    BY <1>1, <2>1, IncludeAllAppend
  <2> HIDE DEF newPart, newWhole, ind, kept
  <2>6. IF key \in KeysOf(kept.indicators)
        THEN Include(kept, ind).indicators = kept.indicators
        ELSE Include(kept, ind).indicators = Append(kept.indicators, ind)
    BY <2>1, <2>4, Included
  <2> HIDE DEF key
  <2>7. IncludeAll(base, newPart.indicators).indicators = newWhole.indicators
    <3>1. CASE key \in KeysOf(part.indicators)
      BY <1>2, <2>2, <2>3, <2>4, <3>1
    <3>2. CASE key \notin KeysOf(part.indicators) /\ key \in KeysOf(whole.indicators)
      BY <2>2, <2>3, <2>4, <2>5, <2>6, <3>2
    <3>3. CASE key \notin KeysOf(whole.indicators)
      BY <2>2, <2>3, <2>4, <2>5, <2>6, <3>3
    <3> QED
      BY <3>1, <3>2, <3>3
  <2> QED
    BY <1>3, <2>7 DEF Along, newPart, newWhole
<1> QED
  BY <1>4, <1>5

(* The lines of a text behind the first k, and the runs over both.             *)
IsTail(rest, lines, k) ==
    k + Len(rest) = Len(lines) /\ \A i \in 1 .. Len(rest) : rest[i] = lines[k + i]
BothRun(rest, q, lines, r) ==
    Run(1, EmptySet, rest, Len(rest), q) /\ Run(1, EmptySet, lines, Len(lines), r)
StartsAs(base, set) == base.indicators = set.indicators

LEMMA TailAlong ==
    ASSUME NEW lines \in Seq(Lines), NEW k \in 0 .. Len(lines),
           NEW rest \in Seq(Lines), IsTail(rest, lines, k),
           NEW r, NEW q, BothRun(rest, q, lines, r),
           NEW base \in Sets, StartsAs(base, r[k])
    PROVE  Along(base, r[k].refused, q[Len(rest)], r[Len(lines)])
<1> DEFINE n == Len(lines)
           m == Len(rest)
           start == r[k].refused
<1>1. n \in Nat /\ m \in Nat /\ k \in Nat /\ k + m = n /\ k \in 0 .. n
  BY LenProperties DEF IsTail
<1>2. /\ \A j \in 0 .. n : r[j] \in Sets
      /\ \A i \in 0 .. m : q[i] \in Sets
  BY RunKeeps DEF Kept, BothRun
<1>3. Run(1, EmptySet, rest, m, q) /\ Run(1, EmptySet, lines, n, r)
  BY DEF BothRun
<1>4. \A i \in 1 .. m : rest[i] = lines[k + i] /\ rest[i] \in Lines
  BY ElementOfSeq DEF IsTail
<1> HIDE DEF n, m
<1>5. start \in Nat
  BY <1>1, <1>2, SetTyped
<1> DEFINE S == {i \in 0 .. m : Along(base, start, q[i], r[k + i])}
<1>6. 0 \in S
  <2>1. k + 0 = k /\ 0 \in 0 .. m
    BY <1>1
  <2>2. EmptySet.indicators = << >> /\ EmptySet.refused = 0
    BY EmptySetTyped
  <2>3. IncludeAll(base, << >>) = base
    <3>1. << >> \in Seq(Parsed) /\ Len(<< >>) = 0
      BY EmptySeq
    <3>2. PICK e : Run(2, base, << >>, 0, e)
      BY RunExists
    <3>3. IncludeAll(base, << >>) = e[0]
      BY <3>1, <3>2, IncludeAllIsRun
    <3> QED
      BY <3>2, <3>3 DEF Run
  <2>4. start = start + 0
    BY <1>5
  <2>6. q[0] = EmptySet
    BY <1>3 DEF Run
  <2>5. Along(base, start, q[0], r[k])
    BY <2>2, <2>3, <2>4, <2>6 DEF Along, StartsAs
  <2> QED
    BY <2>1, <2>5
<1>7. ASSUME NEW i \in S, i < m
      PROVE  i + 1 \in S
  <2>1. i \in 0 .. m /\ Along(base, start, q[i], r[k + i])
    BY <1>7
  <2> HIDE DEF S, start
  <2>2. /\ i \in Nat /\ i < m /\ i + 1 \in 1 .. m /\ i + 1 \in 0 .. m
        /\ k + i \in Nat /\ k + i < n /\ k + i \in 0 .. n /\ k + i + 1 = k + (i + 1)
    BY <1>1, <1>7, <2>1
  <2>3. q[i + 1] = Take(1, q[i], rest[i + 1])
    BY <1>1, <1>3, <2>2, RunStep
  <2>4. r[k + i + 1] = Take(1, r[k + i], lines[k + i + 1])
    <3> DEFINE j == k + i
    <3>1. j \in Nat /\ j < n /\ n \in Nat /\ Run(1, EmptySet, lines, n, r)
      BY <1>1, <1>3, <2>2
    <3> HIDE DEF j
    <3>2. r[j + 1] = Take(1, r[j], lines[j + 1])
      BY <3>1, RunStep
    <3> QED
      BY <3>2 DEF j
  <2>5. rest[i + 1] = lines[k + (i + 1)] /\ rest[i + 1] \in Lines
    BY <1>4, <2>2
  <2>6. /\ q[i + 1] = Take(1, q[i], rest[i + 1])
        /\ r[k + (i + 1)] = Take(1, r[k + i], rest[i + 1])
    BY <2>2, <2>3, <2>4, <2>5
  <2>7. q[i] \in Sets /\ r[k + i] \in Sets
    BY <1>2, <2>1, <2>2
  <2>8. Along(base, start, Take(1, q[i], rest[i + 1]), Take(1, r[k + i], rest[i + 1]))
    BY <1>5, <2>1, <2>5, <2>7, TailStep
  <2>9. Along(base, start, q[i + 1], r[k + (i + 1)])
    BY <2>6, <2>8
  <2> QED
    BY <2>2, <2>9 DEF S
<1>8. S = 0 .. m
  <2> HIDE DEF S
  <2>1. S \in SUBSET (0 .. m)
    BY DEF S
  <2> QED
    BY <1>1, <1>6, <1>7, <2>1, Climb
<1>9. m \in S
  <2> HIDE DEF S
  <2> QED
    BY <1>1, <1>8
<1>10. Along(base, start, q[m], r[k + m])
  BY <1>9
<1> QED
  BY <1>1, <1>10 DEF n, m

LEMMA InvMergeIsConcatenation == SessionInv => MergeIsConcatenation
<1> SUFFICES ASSUME SessionInv, NEW k \in 0 .. Len(text)
             PROVE  LET merged == MergeIndicatorSets(
                                    <<ParseIndicatorText(SubSeq(text, 1, k)),
                                      ParseIndicatorText(SubSeq(text, k + 1, Len(text)))>>)
                    IN  /\ merged.indicators = currentSet.indicators
                        /\ merged.refused = currentSet.refused
  BY DEF MergeIsConcatenation
<1> DEFINE n     == Len(text)
           front == SubSeq(text, 1, k)
           tail  == SubSeq(text, k + 1, n)
           A     == ParseIndicatorText(front)
           B     == ParseIndicatorText(tail)
           sets  == <<A, B>>
<1>1. text \in Seq(Lines) /\ currentSet = ParseIndicatorText(text)
  BY DEF SessionInv
<1>2. n \in Nat /\ k \in Nat /\ k <= n /\ \A j \in 1 .. n : text[j] \in Lines
  BY <1>1, LenProperties, ElementOfSeq
<1>3. /\ front \in Seq(Lines) /\ Len(front) = k
      /\ \A j \in 1 .. k : front[j] = text[j]
  <2>1. 1 \in Int /\ k \in Int /\ \A j \in 1 .. k : text[j] \in Lines
    BY <1>2
  <2>2. /\ front \in Seq(Lines) /\ Len(front) = IF 1 <= k THEN k - 1 + 1 ELSE 0
        /\ \A j \in 1 .. k - 1 + 1 : front[j] = text[1 + j - 1]
    BY <2>1, SubSeqProperties
  <2> HIDE DEF front
  <2>3. k - 1 + 1 = k /\ \A j \in 1 .. k : 1 + j - 1 = j
    BY <1>2
  <2>4. Len(front) = k
    BY <1>2, <2>2
  <2> QED
    BY <2>2, <2>3, <2>4
<1>4. /\ tail \in Seq(Lines) /\ k + Len(tail) = n
      /\ \A i \in 1 .. Len(tail) : tail[i] = text[k + i]
  <2>1. k + 1 \in Int /\ n \in Int /\ \A j \in k + 1 .. n : text[j] \in Lines
    BY <1>2
  <2>2. /\ tail \in Seq(Lines) /\ Len(tail) = IF k + 1 <= n THEN n - (k + 1) + 1 ELSE 0
        /\ \A i \in 1 .. n - (k + 1) + 1 : tail[i] = text[k + 1 + i - 1]
    BY <2>1, SubSeqProperties
  <2> HIDE DEF tail, n
  <2>3. n - (k + 1) + 1 = n - k /\ \A i \in 1 .. n - k : k + 1 + i - 1 = k + i
    BY <1>2
  <2>4. Len(tail) = n - k
    BY <1>2, <2>2
  <2> QED
    BY <1>2, <2>2, <2>3, <2>4
<1>5. PICK r : Run(1, EmptySet, text, n, r)
  BY <1>2, RunExists
<1>6. PICK q : Run(1, EmptySet, tail, Len(tail), q)
  BY <1>4, LenProperties, RunExists
<1>7. currentSet = r[n]
  BY <1>1, <1>5, ParseIsRun
<1>8. B = q[Len(tail)]
  BY <1>4, <1>6, ParseIsRun
<1>9. A = r[k]
  <2> DEFINE p == [j \in 0 .. k |-> r[j]]
  <2>1. Run(1, EmptySet, front, k, p)
    BY <1>2, <1>3, <1>5, RunPrefix
  <2>2. p[k] = r[k]
    BY <1>2
  <2> HIDE DEF p
  <2> QED
    BY <1>3, <2>1, <2>2, ParseIsRun
<1>10. /\ A \in Sets /\ Distinct(A.indicators)
       /\ B \in Sets /\ Distinct(B.indicators)
  BY <1>3, <1>4, TextKept DEF Kept
<1>11. MergeIndicatorSets(sets) = JoinSet(JoinSet(EmptySet, A), B)
  <2> HIDE DEF A, B
  <2>1. sets \in Seq({A, B}) /\ Len(sets) = 2 /\ sets[1] = A /\ sets[2] = B
    OBVIOUS
  <2>2. PICK m : Run(3, EmptySet, sets, 2, m)
    BY RunExists
  <2>3. MergeIndicatorSets(sets) = m[2]
    BY <2>1, <2>2, MergeIsRun
  <2> HIDE DEF sets
  <2>4. m[0] = EmptySet /\ \A i \in 1 .. 2 : m[i] = Take(3, m[i - 1], sets[i])
    BY <2>2 DEF Run
  <2>5. m[1] = Take(3, m[0], A) /\ m[2] = Take(3, m[1], B)
    <3>1. m[1] = Take(3, m[1 - 1], sets[1]) /\ m[2] = Take(3, m[2 - 1], sets[2])
      BY <2>4
    <3>2. 1 - 1 = 0 /\ 2 - 1 = 1
      OBVIOUS
    <3> QED
      BY <2>1, <3>1, <3>2
  <2> QED
    BY <2>3, <2>4, <2>5 DEF Take
<1> HIDE DEF A, B, sets, front, tail, n
<1> DEFINE first == JoinSet(EmptySet, A)
           base  == [first EXCEPT !.refused = @ + B.refused]
<1>12. first \in Sets /\ first.indicators = A.indicators /\ first.refused = A.refused
  <2>1. A.refused \in Nat
    BY <1>10, SetTyped
  <2>2. /\ EmptySet \in Sets /\ EmptySet.indicators = << >> /\ EmptySet.refused = 0
    BY EmptySetTyped
  <2>3. /\ first \in Sets /\ first.refused = EmptySet.refused + A.refused
        /\ first.indicators = A.indicators
    BY <1>10, <2>2, Joined
  <2> HIDE DEF first
  <2> QED
    BY <2>1, <2>2, <2>3
<1> HIDE DEF first
<1>13. /\ JoinSet(first, B).refused = A.refused + B.refused
       /\ base \in Sets /\ base.indicators = A.indicators
       /\ JoinSet(first, B) = IncludeAll(base, B.indicators)
  BY <1>10, <1>12, Joined
<1> HIDE DEF base
<1>14. Along(base, r[k].refused, q[Len(tail)], r[n])
  BY <1>1, <1>4, <1>5, <1>6, <1>9, <1>13, TailAlong DEF n, IsTail, BothRun, StartsAs
<1>15. /\ IncludeAll(base, B.indicators).indicators = currentSet.indicators
       /\ currentSet.refused = A.refused + B.refused
  BY <1>7, <1>8, <1>9, <1>14 DEF Along
<1> QED
  BY <1>11, <1>13, <1>15 DEF first, sets, A, B, front, tail, n

(* A list that is read in parts and merged is the list.                        *)
THEOREM MergeIsAlwaysConcatenation == SpecSession => []MergeIsConcatenation
<1> QED
  BY InvMergeIsConcatenation, SessionInvariance, PTL
=============================================================================
