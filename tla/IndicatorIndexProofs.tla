------------------------ MODULE IndicatorIndexProofs ------------------------
(***************************************************************************)
(* Theorems about IndicatorIndex, for every set of indicators and all      *)
(* bounds: that the index finds what a scan of the list finds, and that    *)
(* the operations implement those of IndicatorStore.                       *)
(***************************************************************************)
EXTENDS IndicatorIndex, SequenceTheorems, FiniteSetTheorems, WellFoundedInduction, TLAPS

(* Hypotheses of the lemmas below, named so that a prover need not match   *)
(* the quantifiers in them.                                                *)
SameOn(f, g, slots)  == \A s \in slots : f[s] = g[s]
Before(slots, later) == \A s \in slots, t \in later : s < t

-----------------------------------------------------------------------------
(* The latest of some slots.                                               *)

(* A nonempty set of slots has a latest one.                               *)
LEMMA LatestExists ==
    ASSUME NEW n \in Nat, NEW slots \in SUBSET (1 .. n), slots # {}
    PROVE  /\ Latest(slots) \in slots
           /\ \A t \in slots : t <= Latest(slots)
  <1> DEFINE below == {n - s : s \in slots}
             less == OpToRel(<, Nat)
  <1>1. below \subseteq Nat
    <2> SUFFICES ASSUME NEW s \in slots PROVE n - s \in Nat
      OBVIOUS
    <2>1. s \in Int /\ s <= n
      OBVIOUS
    <2> QED BY <2>1
  <1>2. below # {}
    OBVIOUS
  <1>3. \E m \in below : \A k \in below : ~(<<k, m>> \in less)
    <2> HIDE DEF below, less
    <2>1. IsWellFoundedOn(less, Nat)
      BY NatLessThanWellFounded DEF less
    <2> QED
      BY <1>1, <1>2, <2>1, WFMin
  <1>4. PICK m \in below : \A k \in below : ~(<<k, m>> \in less)
    BY <1>3
  <1>5. \A k \in below : m <= k
    <2> SUFFICES ASSUME NEW k \in below PROVE m <= k
      OBVIOUS
    <2> HIDE DEF below, less
    <2>1. m \in Nat /\ k \in Nat
      BY <1>1
    <2>2. less = {e \in Nat \X Nat : e[1] < e[2]}
      BY DEF OpToRel, less
    <2>3. k < m => <<k, m>> \in less
      BY <2>1, <2>2
    <2>4. <<k, m>> \notin less
      BY <1>4
    <2> QED
      BY <2>1, <2>3, <2>4
  <1>6. PICK s \in slots : m = n - s
    OBVIOUS
  <1>7. \A t \in slots : t <= s
    <2> SUFFICES ASSUME NEW t \in slots PROVE t <= s
      OBVIOUS
    <2>1. n - s <= n - t
      BY <1>5, <1>6
    <2>2. n \in Int /\ s \in Int /\ t \in Int
      OBVIOUS
    <2> QED
      BY <2>1, <2>2
  <1> QED
    BY <1>7 DEF Latest

(* There is only one.                                                      *)
LEMMA LatestUnique ==
    ASSUME NEW slots \in SUBSET Nat, NEW s \in slots, \A t \in slots : t <= s
    PROVE  Latest(slots) = s
  <1>1. Latest(slots) \in slots /\ s <= Latest(slots)
    BY DEF Latest
  <1>2. s \in Nat /\ Latest(slots) \in Nat
    BY <1>1
  <1> QED
    BY <1>1, <1>2

-----------------------------------------------------------------------------
(* Maps from labels to slots.                                              *)

LEMMA SlotMapValue ==
    ASSUME NEW f
    PROVE  /\ DOMAIN SlotMap(f) = {f[s] : s \in DOMAIN f}
           /\ \A l \in DOMAIN SlotMap(f) :
                 SlotMap(f)[l] = Latest({s \in DOMAIN f : f[s] = l})
  BY DEF SlotMap, Range

(* Every entry of the map leads to a slot that has the label.              *)
LEMMA SlotMapSound ==
    ASSUME NEW n \in Nat, NEW f, DOMAIN f \subseteq 1 .. n,
           NEW l \in DOMAIN SlotMap(f)
    PROVE  SlotMap(f)[l] \in DOMAIN f /\ f[SlotMap(f)[l]] = l
  <1> DEFINE S == {s \in DOMAIN f : f[s] = l}
  <1>1. S \in SUBSET (1 .. n) /\ S # {} /\ SlotMap(f)[l] = Latest(S)
    BY DEF SlotMap, Range
  <1>2. Latest(S) \in S
    <2> HIDE DEF S
    <2> QED BY <1>1, LatestExists
  <1> QED
    BY <1>1, <1>2

(* Assigning the entries of later slots on top of those of earlier slots   *)
(* gives the entries of all of them.                                       *)
LEMMA SlotMapExtend ==
    ASSUME NEW n \in Nat, NEW all, NEW old, NEW new,
           DOMAIN all \subseteq 1 .. n,
           DOMAIN all = DOMAIN old \cup DOMAIN new,
           Before(DOMAIN old, DOMAIN new),
           SameOn(old, all, DOMAIN old),
           SameOn(new, all, DOMAIN new)
    PROVE  SlotMap(all) = Overridden(SlotMap(old), SlotMap(new))
  <1> USE DEF SameOn, Before
  <1>1. {all[s] : s \in DOMAIN all}
            = {old[s] : s \in DOMAIN old} \cup {new[s] : s \in DOMAIN new}
    OBVIOUS
  <1>2. DOMAIN SlotMap(all) = DOMAIN SlotMap(old) \cup DOMAIN SlotMap(new)
    BY <1>1, SlotMapValue
  <1>3. ASSUME NEW l \in DOMAIN SlotMap(new)
        PROVE  SlotMap(all)[l] = SlotMap(new)[l]
    <2> DEFINE S == {s \in DOMAIN all : all[s] = l}
               T == {s \in DOMAIN new : new[s] = l}
    <2>1. SlotMap(new)[l] = Latest(T) /\ SlotMap(all)[l] = Latest(S)
      BY <1>2, <1>3 DEF SlotMap
    <2>2. T \in SUBSET (1 .. n) /\ T # {}
      BY <1>3 DEF SlotMap, Range
    <2>3. Latest(T) \in T /\ \A t \in T : t <= Latest(T)
      <3> HIDE DEF T
      <3> QED BY <2>2, LatestExists
    <2>4. Latest(T) \in S
      BY <2>3
    <2>5. S \in SUBSET Nat
      OBVIOUS
    <2>6. \A t \in S : t <= Latest(T)
      <3> SUFFICES ASSUME NEW t \in S PROVE t <= Latest(T)
        OBVIOUS
      <3>1. CASE t \in DOMAIN new
        BY <3>1, <2>3
      <3>2. CASE t \in DOMAIN old
        <4>1. t < Latest(T)
          BY <3>2, <2>3
        <4>2. t \in Nat /\ Latest(T) \in Nat
          BY <2>4, <2>5
        <4> QED BY <4>1, <4>2
      <3> QED BY <3>1, <3>2
    <2>7. Latest(S) = Latest(T)
      <3> HIDE DEF S, T
      <3> QED BY <2>4, <2>5, <2>6, LatestUnique
    <2> QED
      BY <2>1, <2>7
  <1>4. ASSUME NEW l \in DOMAIN SlotMap(old), l \notin DOMAIN SlotMap(new)
        PROVE  SlotMap(all)[l] = SlotMap(old)[l]
    <2>1. {s \in DOMAIN all : all[s] = l} = {s \in DOMAIN old : old[s] = l}
      BY <1>4 DEF SlotMap, Range
    <2>2. l \in Range(all) /\ l \in Range(old)
      BY <1>2, <1>4 DEF SlotMap
    <2> QED
      BY <2>1, <2>2 DEF SlotMap
  <1> DEFINE map == SlotMap(old)
             by == SlotMap(new)
  <1>5. SlotMap(all) = [l \in DOMAIN SlotMap(all) |-> SlotMap(all)[l]]
    BY DEF SlotMap
  <1> QED
    <2> HIDE DEF map, by
    <2>1. SlotMap(all) = Overridden(map, by)
      BY <1>2, <1>3, <1>4, <1>5 DEF Overridden, map, by
    <2> QED BY <2>1 DEF map, by

-----------------------------------------------------------------------------
(* The inductive invariant: the id map has every record, and the tables    *)
(* are those of a rebuild.                                                 *)
Inv == TypeOK /\ IdsResolve /\ TablesCurrent

(* The records are in their slots 1 .. Len(records).                       *)
LEMMA RecordsType ==
    ASSUME NEW recs \in Seq(Record)
    PROVE  /\ Len(recs) \in Nat
           /\ DOMAIN recs = 1 .. Len(recs)
           /\ \A s \in DOMAIN recs : /\ recs[s] \in Record
                                     /\ recs[s].id \in Ids
                                     /\ recs[s].active \in BOOLEAN
                                     /\ KeyOf(recs[s]) \in Keys
  <1>1. Len(recs) \in Nat /\ DOMAIN recs = 1 .. Len(recs)
    BY LenProperties
  <1>2. \A s \in DOMAIN recs : recs[s] \in Record
    BY <1>1, ElementOfSeq
  <1>3. ASSUME NEW s \in DOMAIN recs
        PROVE  KeyOf(recs[s]) \in Keys
    <2>1. /\ recs[s].value \in Values /\ recs[s].role \in Roles /\ recs[s].blank \in BOOLEAN
          /\ KeyOf(recs[s]) = IndicatorKey([value |-> recs[s].value, role |-> recs[s].role,
                                            blank |-> recs[s].blank])
      BY <1>2 DEF Record, KeyOf, IndicatorKey, Unnamed
    <2> HIDE DEF KeyOf, IndicatorKey
    <2> QED BY <2>1 DEF Keys
  <1> QED
    BY <1>1, <1>2, <1>3 DEF Record

(* Under the invariant, an id in the map leads to the record that has it.  *)
LEMMA IdLeadsToRecord ==
    ASSUME TypeOK, IdsResolve, NEW id \in DOMAIN idToSlot
    PROVE  idToSlot[id] \in DOMAIN records /\ records[idToSlot[id]].id = id
  <1> DEFINE f == [s \in DOMAIN records |-> records[s].id]
  <1>1. idToSlot = SlotMap(f)
    BY DEF IdsResolve, IdMap
  <1>2. Len(records) \in Nat /\ DOMAIN f = 1 .. Len(records)
    BY RecordsType DEF TypeOK
  <1>3. SlotMap(f)[id] \in DOMAIN f /\ f[SlotMap(f)[id]] = id
    <2> HIDE DEF f
    <2> QED BY <1>1, <1>2, SlotMapSound
  <1> QED
    BY <1>1, <1>3

(* The maps of records have slots as values and ids or keys as labels.     *)
LEMMA MapTypes ==
    ASSUME NEW recs \in Seq(Record), NEW slots \in SUBSET DOMAIN recs
    PROVE  /\ DOMAIN IdMap(recs, slots) \subseteq Ids
           /\ DOMAIN KeyMap(recs, slots) \subseteq Keys
  <1>1. \A s \in slots : recs[s].id \in Ids /\ KeyOf(recs[s]) \in Keys
    BY RecordsType
  <1> QED
    BY <1>1 DEF IdMap, KeyMap, SlotMap, Range

-----------------------------------------------------------------------------
(* Every operation but add rebuilds the tables from the records.           *)

LEMMA RebuiltTablesCurrent ==
    ASSUME NEW recs, records' = recs, RebuildIndexes(recs)
    PROVE  TablesCurrent'
  BY DEF RebuildIndexes, TablesCurrent

LEMMA StampStep ==
    ASSUME Inv, NEW id \in DOMAIN idToSlot, NEW rec \in Record, rec.id = id,
           records' = [records EXCEPT ![idToSlot[id]] = rec],
           generation' = After(generation, 1),
           RebuildIndexes(records'),
           UNCHANGED <<idToSlot, nextId>>
    PROVE  Inv'
  <1> DEFINE slot == idToSlot[id]
  <1> USE DEF Inv
  <1>1. slot \in DOMAIN records /\ records[slot].id = id
    BY IdLeadsToRecord
  <1>2. records \in Seq(Record) /\ DOMAIN records = 1 .. Len(records)
    BY RecordsType DEF TypeOK
  <1>3. /\ records' \in Seq(Record)
        /\ Len(records') = Len(records)
        /\ \A s \in 1 .. Len(records) :
              records'[s] = IF s = slot THEN rec ELSE records[s]
    BY <1>1, <1>2, ExceptSeq
  <1>4. DOMAIN records' = DOMAIN records
    BY <1>2, <1>3, RecordsType
  <1>5. \A s \in DOMAIN records : records'[s].id = records[s].id
    BY <1>1, <1>2, <1>3
  <1>6. TablesCurrent'
    BY RebuiltTablesCurrent
  <1>7. TypeOK'
    <2>1. DOMAIN keyToSlot' \subseteq Keys
      <3>1. ActiveSlots(records') \in SUBSET DOMAIN records'
        BY DEF ActiveSlots
      <3> QED
        BY <3>1, <1>3, <1>6, MapTypes DEF TablesCurrent
    <2>2. generation' \in 0 .. GenerationMod - 1
      BY CountersAssumption DEF TypeOK, After
    <2> QED
      BY <2>1, <2>2, <1>3 DEF TypeOK
  <1>8. IdsResolve'
    <2>1. IdMap(records', DOMAIN records') = IdMap(records, DOMAIN records)
      BY <1>4, <1>5 DEF IdMap
    <2> QED
      BY <2>1, <1>4, <1>5 DEF IdsResolve
  <1> QED
    BY <1>6, <1>7, <1>8

LEMMA RebuildFromStep ==
    ASSUME Inv, NEW recs \in Seq(Record), RebuildFrom(recs),
           \A s, t \in DOMAIN recs : s < t => recs[s].id < recs[t].id,
           \A s \in DOMAIN recs : recs[s].id < nextId
    PROVE  Inv'
  <1> USE DEF Inv
  <1>1. records' = recs /\ nextId' = nextId /\ idToSlot' = IdMap(recs, DOMAIN recs)
    BY DEF RebuildFrom
  <1>2. TablesCurrent'
    BY RebuiltTablesCurrent DEF RebuildFrom
  <1>3. IdsResolve'
    BY <1>1 DEF IdsResolve
  <1>4. TypeOK'
    <2>1. DOMAIN keyToSlot' \subseteq Keys
      <3>1. ActiveSlots(recs) \in SUBSET DOMAIN recs
        BY DEF ActiveSlots
      <3> QED
        BY <3>1, <1>1, <1>2, MapTypes DEF TablesCurrent
    <2>2. DOMAIN idToSlot' \subseteq Ids
      BY <1>1, MapTypes
    <2>3. generation' \in 0 .. GenerationMod - 1
      BY CountersAssumption DEF TypeOK, After, RebuildFrom
    <2> QED
      BY <2>1, <2>2, <2>3, <1>1 DEF TypeOK
  <1> QED
    BY <1>2, <1>3, <1>4

-----------------------------------------------------------------------------
(* add extends the tables in place: the same as rebuilding them.           *)

(* The tables of a record sequence "new" for the slots "live", where it    *)
(* agrees with "old", and "fresh".                                         *)
PostingsExtended(old, new, live, fresh) ==
    /\ DomainPostings(new, live \cup fresh)
           = DomainPostings(old, live) \cup DomainPostings(new, fresh)
    /\ HashPostings(new, live \cup fresh)
           = HashPostings(old, live) \cup HashPostings(new, fresh)
    /\ TriePostings(new, live \cup fresh)
           = TriePostings(old, live) \cup TriePostings(new, fresh)
    /\ TrieNodes(new, live \cup fresh)
           = TrieNodes(old, live) \cup TrieNodes(new, fresh)
MapsExtended(old, new, live, fresh) ==
    /\ KeyMap(new, live \cup fresh)
           = Overridden(KeyMap(old, live), KeyMap(new, fresh))
    /\ IdMap(new, live \cup fresh)
           = Overridden(IdMap(old, live), IdMap(new, fresh))

LEMMA PostingsExtend ==
    ASSUME NEW old, NEW new, NEW live, NEW fresh, SameOn(new, old, live)
    PROVE  PostingsExtended(old, new, live, fresh)
  <1> USE DEF SameOn
  <1>1. \A types : HasType(new, live \cup fresh, types)
                       = HasType(old, live, types) \cup HasType(new, fresh, types)
    BY DEF HasType
  <1>2. \A types : \A s \in HasType(old, live, types) : new[s] = old[s]
    BY DEF HasType
  <1>3. DomainPostings(new, live \cup fresh)
            = DomainPostings(old, live) \cup DomainPostings(new, fresh)
    BY <1>1, <1>2 DEF DomainPostings
  <1>4. HashPostings(new, live \cup fresh)
            = HashPostings(old, live) \cup HashPostings(new, fresh)
    BY <1>1, <1>2 DEF HashPostings
  <1>5. TriePostings(new, live \cup fresh)
            = TriePostings(old, live) \cup TriePostings(new, fresh)
    BY <1>1, <1>2 DEF TriePostings
  <1>6. TrieNodes(new, live \cup fresh)
            = TrieNodes(old, live) \cup TrieNodes(new, fresh)
    BY <1>1, <1>2 DEF TrieNodes
  <1> QED
    BY <1>3, <1>4, <1>5, <1>6 DEF PostingsExtended

LEMMA MapsExtend ==
    ASSUME NEW n \in Nat, NEW old, NEW new,
           NEW live \in SUBSET (1 .. n), NEW fresh \in SUBSET (1 .. n),
           SameOn(new, old, live), Before(live, fresh)
    PROVE  MapsExtended(old, new, live, fresh)
  <1>1. KeyMap(new, live \cup fresh)
            = Overridden(KeyMap(old, live), KeyMap(new, fresh))
    <2> DEFINE all  == [s \in live \cup fresh |-> KeyOf(new[s])]
               low  == [s \in live |-> KeyOf(old[s])]
               high == [s \in fresh |-> KeyOf(new[s])]
    <2>1. /\ DOMAIN all \subseteq 1 .. n
          /\ DOMAIN all = DOMAIN low \cup DOMAIN high
          /\ Before(DOMAIN low, DOMAIN high)
          /\ SameOn(low, all, DOMAIN low) /\ SameOn(high, all, DOMAIN high)
      BY DEF SameOn, Before
    <2>2. SlotMap(all) = Overridden(SlotMap(low), SlotMap(high))
      <3> HIDE DEF all, low, high
      <3> QED BY <2>1, SlotMapExtend
    <2> QED
      BY <2>2 DEF KeyMap
  <1>2. IdMap(new, live \cup fresh)
            = Overridden(IdMap(old, live), IdMap(new, fresh))
    <2> DEFINE all  == [s \in live \cup fresh |-> new[s].id]
               low  == [s \in live |-> old[s].id]
               high == [s \in fresh |-> new[s].id]
    <2>1. /\ DOMAIN all \subseteq 1 .. n
          /\ DOMAIN all = DOMAIN low \cup DOMAIN high
          /\ Before(DOMAIN low, DOMAIN high)
          /\ SameOn(low, all, DOMAIN low) /\ SameOn(high, all, DOMAIN high)
      BY DEF SameOn, Before
    <2>2. SlotMap(all) = Overridden(SlotMap(low), SlotMap(high))
      <3> HIDE DEF all, low, high
      <3> QED BY <2>1, SlotMapExtend
    <2> QED
      BY <2>2 DEF IdMap
  <1> QED
    BY <1>1, <1>2 DEF MapsExtended

(* The tables of records to which active ones are appended.                *)
LEMMA AppendTables ==
    ASSUME NEW old \in Seq(Record), NEW added \in Seq(Record),
           ActiveSlots(added) = DOMAIN added
    PROVE  LET new   == old \o added
               fresh == (Len(old) + 1) .. Len(new)
               live  == ActiveSlots(old)
           IN
           /\ new \in Seq(Record) /\ Len(new) = Len(old) + Len(added)
           /\ DOMAIN new = DOMAIN old \cup fresh
           /\ \A s \in DOMAIN old : new[s] = old[s]
           /\ \A s \in fresh : new[s] = added[s - Len(old)]
           /\ ActiveSlots(new) = live \cup fresh
           /\ KeyMap(new, live \cup fresh)
                  = Overridden(KeyMap(old, live), KeyMap(new, fresh))
           /\ IdMap(new, DOMAIN new)
                  = Overridden(IdMap(old, DOMAIN old), IdMap(new, fresh))
           /\ PostingsExtended(old, new, live, fresh)
  <1> DEFINE new   == old \o added
             fresh == (Len(old) + 1) .. Len(new)
             live  == ActiveSlots(old)
             L == Len(old)
             N == Len(new)
  <1>1. /\ L \in Nat /\ Len(added) \in Nat
        /\ DOMAIN old = 1 .. L /\ DOMAIN added = 1 .. Len(added)
    BY LenProperties
  <1>2. /\ new \in Seq(Record) /\ N = L + Len(added)
        /\ \A s \in 1 .. L + Len(added) : new[s] = IF s <= L THEN old[s] ELSE added[s - L]
    BY ConcatProperties
  <1>3. DOMAIN new = 1 .. N /\ N \in Nat
    BY <1>2, LenProperties
  <1>4. DOMAIN new = DOMAIN old \cup fresh
    BY <1>1, <1>2, <1>3
  <1>5. \A s \in DOMAIN old : new[s] = old[s]
    BY <1>1, <1>2
  <1>6. \A s \in fresh : new[s] = added[s - L] /\ s - L \in DOMAIN added
    BY <1>1, <1>2
  <1>7. \A s \in fresh : new[s].active
    BY <1>6 DEF ActiveSlots
  <1>8. ActiveSlots(new) = live \cup fresh
    BY <1>4, <1>5, <1>7 DEF ActiveSlots
  <1>9. live \subseteq DOMAIN old
    BY DEF ActiveSlots
  <1>10. /\ live \in SUBSET (1 .. N) /\ DOMAIN old \in SUBSET (1 .. N)
         /\ fresh \in SUBSET (1 .. N)
    BY <1>1, <1>3, <1>4, <1>9
  <1>11. SameOn(new, old, live) /\ SameOn(new, old, DOMAIN old)
    BY <1>5, <1>9 DEF SameOn
  <1>12. Before(live, fresh) /\ Before(DOMAIN old, fresh)
    BY <1>1, <1>3, <1>4, <1>9 DEF Before
  <1>13. N \in Nat
    BY <1>3
  <1> HIDE DEF N, new, fresh, live
  <1>14. MapsExtended(old, new, live, fresh)
    BY <1>10, <1>13, <1>11, <1>12, MapsExtend
  <1>15. MapsExtended(old, new, DOMAIN old, fresh)
    BY <1>10, <1>13, <1>11, <1>12, MapsExtend
  <1>16. PostingsExtended(old, new, live, fresh)
    BY <1>11, PostingsExtend
  <1>17. IdMap(new, DOMAIN new)
             = Overridden(IdMap(old, DOMAIN old), IdMap(new, fresh))
    BY <1>4, <1>15 DEF MapsExtended
  <1> QED
    BY <1>1, <1>2, <1>4, <1>5, <1>6, <1>8, <1>14, <1>16, <1>17
       DEF N, new, fresh, live, MapsExtended

LEMMA AddSetStep ==
    ASSUME Inv, NEW n \in 1 .. MaxBatch, NEW batch \in [1 .. n -> Inputs],
           AddSet(batch)
    PROVE  Inv'
  <1> DEFINE L     == Len(records)
             added == [k \in 1 .. Len(batch) |-> NewRecord(batch[k], k - 1)]
             new   == records \o added
             fresh == (L + 1) .. Len(new)
             live  == ActiveSlots(records)
  <1> USE DEF Inv
  <1>1. n \in Nat /\ Len(batch) = n
    BY CountersAssumption
  <1>2. records \in Seq(Record) /\ L \in Nat /\ DOMAIN records = 1 .. L
    BY RecordsType DEF TypeOK
  <1>3. added \in Seq(Record) /\ Len(added) = n
    <2> SUFFICES ASSUME NEW k \in 1 .. n
                 PROVE  NewRecord(batch[k], k - 1) \in Record
      BY <1>1
    <2>1. batch[k] \in Inputs /\ batch[k].role \in Roles /\ batch[k].blank \in BOOLEAN
      BY InputsAssumption
    <2>2. After(generation, k - 1) \in 0 .. GenerationMod - 1
      BY CountersAssumption DEF TypeOK, After
    <2>3. nextId + (k - 1) \in Ids
      BY <1>1, CountersAssumption DEF AddSet, TypeOK, Ids
    <2> QED
      BY <2>1, <2>2, <2>3 DEF NewRecord, Record, Values
  <1>4. ActiveSlots(added) = DOMAIN added
    BY DEF NewRecord, ActiveSlots
  <1>5. /\ records' = new /\ nextId' = nextId + n
        /\ generation' = After(generation, n)
        /\ IndexRecords(new, fresh)
    BY <1>1 DEF AddSet
  <1>6. \A k \in 1 .. n : added[k].id = nextId + (k - 1)
    BY <1>1 DEF NewRecord
  <1> HIDE DEF added, new, fresh, live
  <1>7. new = records \o added /\ fresh = (L + 1) .. Len(new)
    BY DEF new, fresh
  <1>8. live = ActiveSlots(records)
    BY DEF live
  <1>9. /\ new \in Seq(Record) /\ Len(new) = L + n
        /\ DOMAIN new = DOMAIN records \cup fresh
        /\ \A s \in DOMAIN records : new[s] = records[s]
        /\ \A s \in fresh : new[s] = added[s - L]
        /\ ActiveSlots(new) = live \cup fresh
        /\ IdMap(new, DOMAIN new)
               = Overridden(IdMap(records, DOMAIN records), IdMap(new, fresh))
    BY <1>2, <1>3, <1>4, <1>7, <1>8, AppendTables
  <1>10. TablesCurrent'
    <2>1. /\ keyToSlot' = KeyMap(new, live \cup fresh)
          /\ domains' = DomainPostings(new, live \cup fresh)
          /\ hashes' = HashPostings(new, live \cup fresh)
          /\ trie' = TriePostings(new, live \cup fresh)
          /\ nodes' \in {TrieNodes(new, live \cup fresh),
                         {<< >>} \cup TrieNodes(new, live \cup fresh)}
      <3>1. /\ KeyMap(new, live \cup fresh)
                   = Overridden(KeyMap(records, live), KeyMap(new, fresh))
            /\ PostingsExtended(records, new, live, fresh)
        BY <1>2, <1>3, <1>4, <1>7, <1>8, AppendTables
      <3> QED
        BY <3>1, <1>5, <1>8 DEF TablesCurrent, IndexRecords, PostingsExtended
    <2> QED
      BY <2>1, <1>5, <1>9 DEF TablesCurrent
  <1>11. IdsResolve'
    <2>1. idToSlot' = IdMap(new, DOMAIN new)
      BY <1>5, <1>9 DEF IdsResolve, IndexRecords
    <2>2. nextId \in Nat
      BY DEF TypeOK
    <2>3. \A s \in fresh : s - L \in 1 .. n /\ new[s].id = nextId + (s - L - 1)
      BY <1>1, <1>2, <1>6, <1>7, <1>9
    <2>4. \A s \in 1 .. L : new[s].id \in Nat /\ new[s].id < nextId
      BY <1>2, <1>9, RecordsType DEF IdsResolve, Ids
    <2>5. ASSUME NEW s \in DOMAIN new
          PROVE  new[s].id < nextId + n
      <3>1. CASE s \in fresh
        <4>1. new[s].id = nextId + (s - L - 1) /\ s - L \in 1 .. n
          BY <3>1, <2>3
        <4>2. s - L - 1 \in Nat /\ s - L - 1 < n
          BY <4>1, <1>1
        <4> QED
          BY <4>1, <4>2, <2>2, <1>1
      <3>2. CASE s \in 1 .. L
        BY <3>2, <2>2, <2>4, <1>1
      <3> QED
        BY <3>1, <3>2, <1>2, <1>9
    <2>6. ASSUME NEW s \in DOMAIN new, NEW t \in DOMAIN new, s < t
          PROVE  new[s].id < new[t].id
      <3>1. CASE s \in 1 .. L /\ t \in 1 .. L
        BY <3>1, <2>6, <1>2, <1>9 DEF IdsResolve
      <3>2. CASE s \in 1 .. L /\ t \in fresh
        <4>1. new[t].id = nextId + (t - L - 1) /\ t - L - 1 \in Nat
          BY <3>2, <2>3
        <4> QED
          BY <3>2, <4>1, <2>2, <2>4
      <3>3. CASE s \in fresh /\ t \in fresh
        BY <3>3, <2>2, <2>3, <2>6, <1>2, <1>7
      <3>4. CASE s \in fresh /\ t \in 1 .. L
        BY <3>4, <2>6, <1>2, <1>7, <1>9
      <3> QED
        BY <3>1, <3>2, <3>3, <3>4, <1>2, <1>9
    <2> QED
      BY <2>1, <2>5, <2>6, <1>5 DEF IdsResolve
  <1>12. TypeOK'
    <2>1. DOMAIN keyToSlot' \subseteq Keys
      <3>1. ActiveSlots(new) \in SUBSET DOMAIN new
        BY DEF ActiveSlots
      <3> QED
        BY <3>1, <1>5, <1>9, <1>10, MapTypes DEF TablesCurrent
    <2>2. DOMAIN idToSlot' \subseteq Ids
      BY <1>5, <1>9, <1>11, MapTypes DEF IdsResolve
    <2>3. nextId' \in 1 .. MaxId + 1
      BY <1>1, <1>5, CountersAssumption DEF AddSet, TypeOK
    <2>4. generation' \in 0 .. GenerationMod - 1
      BY <1>1, <1>5, CountersAssumption DEF TypeOK, After
    <2> QED
      BY <2>1, <2>2, <2>3, <2>4, <1>5, <1>9 DEF TypeOK
  <1> QED
    BY <1>10, <1>11, <1>12

-----------------------------------------------------------------------------
(* The steps of Next.                                                      *)

LEMMA InitInv == Init => Inv
  <1> SUFFICES ASSUME Init PROVE Inv
    OBVIOUS
  <1>1. records = << >> /\ DOMAIN records = {} /\ << >> \in Seq(Record)
    BY DEF Init
  <1>2. \A f : DOMAIN f = {} => SlotMap(f) = [l \in {} |-> 0]
    BY DEF SlotMap, Range
  <1>3. IdMap(records, {}) = [l \in {} |-> 0] /\ KeyMap(records, {}) = [l \in {} |-> 0]
    BY <1>2 DEF IdMap, KeyMap
  <1>4. idToSlot = [l \in {} |-> 0] /\ keyToSlot = [l \in {} |-> 0]
    BY DEF Init
  <1>5. TypeOK
    BY <1>1, <1>4, CountersAssumption DEF Init, TypeOK
  <1>6. IdsResolve
    BY <1>1, <1>3, <1>4 DEF IdsResolve
  <1>7. ActiveSlots(records) = {}
    BY <1>1 DEF ActiveSlots
  <1>8. TablesCurrent
    BY <1>3, <1>4, <1>7
       DEF TablesCurrent, Init, DomainPostings, HashPostings, TriePostings, TrieNodes, HasType
  <1> QED
    BY <1>5, <1>6, <1>8 DEF Inv

(* What Stamp writes over a record is a record with the same id.           *)
LEMMA RecordChanges ==
    ASSUME NEW rec \in Record, NEW gen \in 0 .. GenerationMod - 1
    PROVE  /\ \A active \in BOOLEAN :
                 LET new == [[rec EXCEPT !.active = active] EXCEPT !.generation = gen]
                 IN  new \in Record /\ new.id = rec.id
           /\ \A role \in Roles :
                 LET new == [[rec EXCEPT !.role = role] EXCEPT !.generation = gen]
                 IN  new \in Record /\ new.id = rec.id
  BY DEF Record

LEMMA RemoveIdStep ==
    ASSUME Inv, NEW id, RemoveId(id)
    PROVE  Inv'
  <1> DEFINE rec == records[idToSlot[id]]
             new == [[rec EXCEPT !.active = FALSE] EXCEPT !.generation = generation]
  <1>1. id \in DOMAIN idToSlot
    BY DEF RemoveId
  <1>2. rec \in Record /\ rec.id = id
    BY <1>1, IdLeadsToRecord, RecordsType DEF Inv, TypeOK
  <1>3. new \in Record /\ new.id = id
    BY <1>2, RecordChanges DEF Inv, TypeOK
  <1>4. /\ records' = [records EXCEPT ![idToSlot[id]] = new]
        /\ generation' = After(generation, 1)
        /\ RebuildIndexes(records')
        /\ UNCHANGED <<idToSlot, nextId>>
    BY DEF RemoveId, Stamp, RecordOf
  <1> HIDE DEF new
  <1> QED
    BY <1>1, <1>3, <1>4, StampStep

LEMMA ReactivateIdStep ==
    ASSUME Inv, NEW id, ReactivateId(id)
    PROVE  Inv'
  <1> DEFINE rec == records[idToSlot[id]]
             new == [[rec EXCEPT !.active = TRUE] EXCEPT !.generation = generation]
  <1>1. id \in DOMAIN idToSlot
    BY DEF ReactivateId
  <1>2. rec \in Record /\ rec.id = id
    BY <1>1, IdLeadsToRecord, RecordsType DEF Inv, TypeOK
  <1>3. new \in Record /\ new.id = id
    BY <1>2, RecordChanges DEF Inv, TypeOK
  <1>4. /\ records' = [records EXCEPT ![idToSlot[id]] = new]
        /\ generation' = After(generation, 1)
        /\ RebuildIndexes(records')
        /\ UNCHANGED <<idToSlot, nextId>>
    BY DEF ReactivateId, Stamp, RecordOf
  <1> HIDE DEF new
  <1> QED
    BY <1>1, <1>3, <1>4, StampStep

LEMMA UpdateRoleStep ==
    ASSUME Inv, NEW id, NEW role \in Roles, UpdateRole(id, role)
    PROVE  Inv'
  <1> DEFINE rec == records[idToSlot[id]]
             new == [[rec EXCEPT !.role = role] EXCEPT !.generation = generation]
  <1>1. id \in DOMAIN idToSlot
    BY DEF UpdateRole
  <1>2. rec \in Record /\ rec.id = id
    BY <1>1, IdLeadsToRecord, RecordsType DEF Inv, TypeOK
  <1>3. new \in Record /\ new.id = id
    BY <1>2, RecordChanges DEF Inv, TypeOK
  <1>4. /\ records' = [records EXCEPT ![idToSlot[id]] = new]
        /\ generation' = After(generation, 1)
        /\ RebuildIndexes(records')
        /\ UNCHANGED <<idToSlot, nextId>>
    BY DEF UpdateRole, Stamp, RecordOf
  <1> HIDE DEF new
  <1> QED
    BY <1>1, <1>3, <1>4, StampStep

LEMMA RebuildStep == Inv /\ Rebuild => Inv'
  <1> SUFFICES ASSUME Inv, Rebuild PROVE Inv'
    OBVIOUS
  <1>1. records \in Seq(Record) /\ RebuildFrom(records)
    BY DEF Inv, TypeOK, Rebuild
  <1>2. /\ \A s, t \in DOMAIN records : s < t => records[s].id < records[t].id
        /\ \A s \in DOMAIN records : records[s].id < nextId
    BY DEF Inv, IdsResolve
  <1> QED
    BY <1>1, <1>2, RebuildFromStep

LEMMA CompactStep == Inv /\ Compact => Inv'
  <1> SUFFICES ASSUME Inv, Compact PROVE Inv'
    OBVIOUS
  <1> DEFINE live == ActiveSlots(records)
  <1>1. PICK from \in [1 .. Cardinality(live) -> live] :
            /\ \A i, j \in DOMAIN from : i < j => from[i] < from[j]
            /\ RebuildFrom([i \in DOMAIN from |-> records[from[i]]])
    BY DEF Compact
  <1> DEFINE recs == [i \in DOMAIN from |-> records[from[i]]]
  <1>2. records \in Seq(Record) /\ Len(records) \in Nat /\ DOMAIN records = 1 .. Len(records)
    BY RecordsType DEF Inv, TypeOK
  <1>3. live \subseteq DOMAIN records /\ Cardinality(live) \in Nat
    <2>1. live \subseteq 1 .. Len(records)
      BY <1>2 DEF ActiveSlots
    <2>2. IsFiniteSet(1 .. Len(records))
      BY <1>2, FS_Interval
    <2> QED
      BY <2>1, <2>2, <1>2, FS_Subset, FS_CardinalityType
  <1>4. recs \in Seq(Record)
    <2>1. \A i \in 1 .. Cardinality(live) : from[i] \in DOMAIN records /\ records[from[i]] \in Record
      BY <1>2, <1>3, RecordsType
    <2> QED
      BY <2>1, <1>3
  <1>5. \A i \in DOMAIN recs : from[i] \in DOMAIN records /\ recs[i] = records[from[i]]
    BY <1>3
  <1>6. /\ \A i, j \in DOMAIN recs : i < j => recs[i].id < recs[j].id
        /\ \A i \in DOMAIN recs : recs[i].id < nextId
    BY <1>1, <1>5 DEF Inv, IdsResolve
  <1>7. RebuildFrom(recs)
    BY <1>1
  <1> HIDE DEF recs
  <1> QED
    BY <1>4, <1>6, <1>7, RebuildFromStep

LEMMA NextInv == Inv /\ [Next]_vars => Inv'
  <1> SUFFICES ASSUME Inv, [Next]_vars PROVE Inv'
    OBVIOUS
  <1>1. CASE \E n \in 1 .. MaxBatch : \E batch \in [1 .. n -> Inputs] : AddSet(batch)
    BY <1>1, AddSetStep
  <1>2. CASE \E id \in Ids : RemoveId(id) \/ ReactivateId(id)
    BY <1>2, RemoveIdStep, ReactivateIdStep
  <1>3. CASE \E id \in Ids, role \in Roles : UpdateRole(id, role)
    BY <1>3, UpdateRoleStep
  <1>4. CASE \E key \in Keys : RemoveKey(key)
    BY <1>4, RemoveIdStep DEF RemoveKey
  <1>5. CASE Rebuild
    BY <1>5, RebuildStep
  <1>6. CASE Compact
    BY <1>6, CompactStep
  <1>7. CASE UNCHANGED vars
    BY <1>7 DEF vars, Inv, TypeOK, IdsResolve, TablesCurrent
  <1> QED
    BY <1>1, <1>2, <1>3, <1>4, <1>5, <1>6, <1>7 DEF Next

(* Whatever is added, removed, reactivated, relabelled, rebuilt and        *)
(* compacted, the invariant holds.                                         *)
THEOREM Invariance == Spec => []Inv
  <1>1. Init => Inv
    BY InitInv
  <1>2. Inv /\ [Next]_vars => Inv'
    BY NextInv
  <1> QED
    BY <1>1, <1>2, PTL DEF Spec

-----------------------------------------------------------------------------
(* The properties.                                                         *)

(* The type invariant of the index.                                        *)
THEOREM TypeCorrect == Spec => []TypeOK
  <1>1. Inv => TypeOK
    BY DEF Inv
  <1> QED
    BY <1>1, Invariance, PTL

(* Ids ascend with the slots and the id map is complete.                   *)
THEOREM IdsAlwaysResolve == Spec => []IdsResolve
  <1>1. Inv => IdsResolve
    BY DEF Inv
  <1> QED
    BY <1>1, Invariance, PTL

(* The tables that add maintains in place are those of a rebuild.          *)
THEOREM TablesAlwaysCurrent == Spec => []TablesCurrent
  <1>1. Inv => TablesCurrent
    BY DEF Inv
  <1> QED
    BY <1>1, Invariance, PTL

-----------------------------------------------------------------------------
(* Lookups under the invariant.                                            *)

(* The slot under a key holds an active record with the key, and there is  *)
(* an entry for the key of every active record.                            *)
LEMMA KeyLeadsToRecord ==
    ASSUME Inv
    PROVE  /\ \A key \in DOMAIN keyToSlot : /\ keyToSlot[key] \in ActiveSlots(records)
                                            /\ KeyOf(records[keyToSlot[key]]) = key
           /\ \A s \in ActiveSlots(records) : KeyOf(records[s]) \in DOMAIN keyToSlot
  <1> DEFINE live == ActiveSlots(records)
             f == [s \in live |-> KeyOf(records[s])]
  <1>1. keyToSlot = SlotMap(f)
    BY DEF Inv, TablesCurrent, KeyMap
  <1>2. Len(records) \in Nat /\ DOMAIN f \subseteq 1 .. Len(records)
    BY RecordsType DEF Inv, TypeOK, ActiveSlots
  <1>3. ASSUME NEW key \in DOMAIN keyToSlot
        PROVE  keyToSlot[key] \in live /\ KeyOf(records[keyToSlot[key]]) = key
    <2>1. SlotMap(f)[key] \in DOMAIN f /\ f[SlotMap(f)[key]] = key
      <3> HIDE DEF f
      <3> QED BY <1>1, <1>2, <1>3, SlotMapSound
    <2> QED
      BY <2>1, <1>1
  <1>4. \A s \in live : f[s] \in DOMAIN SlotMap(f)
    BY DEF SlotMap, Range
  <1> QED
    BY <1>1, <1>3, <1>4

LEMMA InvIntegrity == Inv => IntegrityHolds
  <1> SUFFICES ASSUME Inv PROVE IntegrityHolds
    OBVIOUS
  <1>1. \A id \in DOMAIN idToSlot :
           idToSlot[id] \in DOMAIN records /\ records[idToSlot[id]].id = id
    BY IdLeadsToRecord DEF Inv
  <1>2. \A key \in DOMAIN keyToSlot :
           keyToSlot[key] \in DOMAIN records /\ records[keyToSlot[key]].active
    BY KeyLeadsToRecord DEF ActiveSlots
  <1>3. \A e \in trie : e[2] \in DOMAIN records /\ records[e[2]].active
    BY DEF Inv, TablesCurrent, TriePostings, HasType, ActiveSlots
  <1> QED
    BY <1>1, <1>2, <1>3 DEF IntegrityHolds, ValidateIntegrity

(* A range contains an address when the address's path passes its node.    *)
LEMMA ContainsIsPrefix ==
    ASSUME NEW range \in Seq(Bit), NEW addr \in Addresses
    PROVE  RangeContains(range, addr) <=> range \in Prefixes(addr)
  <1>1. addr \in Seq(Bit) /\ Len(addr) = AddrBits /\ Len(addr) \in Nat
    BY AddrBitsAssumption DEF Addresses
  <1>2. SubSeq(range, 1, Len(range)) = range /\ Len(range) \in Nat
    BY SubSeqFull, LenProperties
  <1>3. ASSUME NEW k \in 0 .. Len(addr) PROVE Len(SubSeq(addr, 1, k)) = k
    <2>1. \A i \in 1 .. k : addr[i] \in Bit
      BY <1>1, ElementOfSeq
    <2> QED
      BY <2>1, <1>1, SubSeqProperties
  <1>4. RangeContains(range, addr)
            <=> Len(range) <= Len(addr) /\ range = SubSeq(addr, 1, Len(range))
    BY <1>2 DEF RangeContains, IsPrefix
  <1>5. ASSUME range \in Prefixes(addr)
        PROVE  Len(range) <= Len(addr) /\ range = SubSeq(addr, 1, Len(range))
    <2>1. PICK k \in 0 .. Len(addr) : range = SubSeq(addr, 1, k)
      BY <1>5 DEF Prefixes
    <2> QED
      BY <2>1, <1>3, <1>1
  <1>6. ASSUME Len(range) <= Len(addr), range = SubSeq(addr, 1, Len(range))
        PROVE  range \in Prefixes(addr)
    <2>1. Len(range) \in 0 .. Len(addr)
      BY <1>1, <1>2, <1>6
    <2> QED
      BY <2>1, <1>6 DEF Prefixes
  <1> QED
    BY <1>4, <1>5, <1>6

LEMMA ValueType ==
    ASSUME TypeOK, NEW s \in DOMAIN records, records[s].value.type \in AddressType
    PROVE  records[s].value.bits \in Seq(Bit)
  <1>1. records[s].value \in Values
    BY RecordsType DEF TypeOK, Record
  <1> QED
    BY <1>1, InputsAssumption DEF Values, IsPayload, AddressType

(* lookup_ip reports a record exactly when its range contains the address. *)
LEMMA InvLookupIp ==
    ASSUME Inv, NEW addr \in Addresses
    PROVE  LookupIp(addr)
              = {s \in ActiveSlots(records) : MatchesAddress(records[s].value, addr)}
  <1> DEFINE live == ActiveSlots(records)
             found == {s \in live : MatchesAddress(records[s].value, addr)}
             visited == {p \in Prefixes(addr) : Prefixes(p) \subseteq nodes}
  <1>1. trie = TriePostings(records, live) /\ TrieNodes(records, live) \subseteq nodes
    BY DEF Inv, TablesCurrent
  <1>2. LookupIp(addr) = {s \in live : \E t \in trie : t[1] \in visited /\ t[2] = s}
    BY DEF LookupIp, Found, ActiveSlots
  <1>3. ASSUME NEW s \in live
        PROVE  (\E t \in trie : t[1] \in visited /\ t[2] = s)
                  <=> MatchesAddress(records[s].value, addr)
    <2> DEFINE v == records[s].value
    <2>1. s \in DOMAIN records
      BY DEF ActiveSlots
    <2>2. v.type \in AddressType => v.bits \in Seq(Bit)
      BY <2>1, ValueType DEF Inv
    <2>3. v.type \in AddressType =>
             (MatchesAddress(v, addr) <=> v.bits \in Prefixes(addr))
      BY <2>2, ContainsIsPrefix DEF MatchesAddress
    <2>4. v.type \in AddressType => Prefixes(v.bits) \subseteq nodes
      BY <1>1 DEF TrieNodes, HasType
    <2>5. v.type \in AddressType =>
             (v.bits \in visited <=> MatchesAddress(v, addr))
      BY <2>3, <2>4
    <2>6. \A t \in trie : t[2] = s => v.type \in AddressType /\ t[1] = v.bits
      BY <1>1 DEF TriePostings, HasType
    <2>7. v.type \in AddressType => <<v.bits, s>> \in trie
      BY <1>1 DEF TriePostings, HasType
    <2>8. MatchesAddress(v, addr) => v.type \in AddressType
      BY DEF MatchesAddress
    <2> HIDE DEF v, visited
    <2> QED
      BY <2>5, <2>6, <2>7, <2>8 DEF v
  <1> QED
    BY <1>2, <1>3

LEMMA InvLookupHash ==
    ASSUME Inv, NEW h
    PROVE  LookupHash(h)
              = {s \in HasType(records, ActiveSlots(records), {"hash"}) :
                    NormalizeHash(records[s].value).digest = NormalizeHash(h).digest}
  <1> DEFINE live == ActiveSlots(records)
             filed == HasType(records, live, {"hash"})
             digest == NormalizeHash(h).digest
             DigestOf(s) == NormalizeHash(records[s].value).digest
  <1>1. hashes = {<<DigestOf(s), s>> : s \in filed}
    BY DEF Inv, TablesCurrent, HashPostings
  <1>2. LookupHash(h) = {s \in live : \E e \in hashes : e[1] = digest /\ e[2] = s}
    BY DEF LookupHash, Found, ActiveSlots
  <1>3. filed \subseteq live
    BY DEF HasType
  <1> HIDE DEF live, filed, digest, DigestOf
  <1>4. ASSUME NEW s, NEW e \in hashes, e[1] = digest, e[2] = s
        PROVE  s \in filed /\ DigestOf(s) = digest
    BY <1>1, <1>4
  <1>5. ASSUME NEW s \in filed, DigestOf(s) = digest
        PROVE  \E e \in hashes : e[1] = digest /\ e[2] = s
    <2>1. <<DigestOf(s), s>> \in hashes
      BY <1>1
    <2> QED
      BY <2>1, <1>5
  <1>6. LookupHash(h) = {s \in filed : DigestOf(s) = digest}
    BY <1>2, <1>3, <1>4, <1>5
  <1> QED
    BY <1>6 DEF live, filed, digest, DigestOf

LEMMA InvLookups == Inv => LookupsExact
  <1> SUFFICES ASSUME Inv PROVE LookupsExact
    OBVIOUS
  <1>1. \A key \in Keys :
           ContainsKey(key) <=> \E s \in ActiveSlots(records) : KeyOf(records[s]) = key
    BY KeyLeadsToRecord DEF ContainsKey, ActiveSlots
  <1> QED
    BY <1>1, InvLookupIp, InvLookupHash DEF LookupsExact

(* validate_integrity never has anything to report.                        *)
THEOREM IntegrityAlwaysHolds == Spec => []IntegrityHolds
  BY InvIntegrity, Invariance, PTL

(* Addresses, hashes and keys are found exactly when an active record has  *)
(* them, for every set of indicators and every address length.             *)
THEOREM LookupsAlwaysExact == Spec => []LookupsExact
  BY InvLookups, Invariance, PTL

-----------------------------------------------------------------------------
(* Names.                                                                  *)

(* A nonempty set of numbers up to n has a greatest one.                   *)
LEMMA MaxExists ==
    ASSUME NEW n \in Nat, NEW ns \in SUBSET (0 .. n), ns # {}
    PROVE  Max(ns) \in ns /\ \A m \in ns : m <= Max(ns)
  <1> DEFINE slots == {m + 1 : m \in ns}
  <1>1. slots \subseteq 1 .. n + 1 /\ slots # {} /\ n + 1 \in Nat
    <2>1. \A m \in ns : m + 1 \in 1 .. n + 1
      OBVIOUS
    <2>2. slots \subseteq 1 .. n + 1
      BY <2>1
    <2>3. slots # {}
      OBVIOUS
    <2> QED BY <2>2, <2>3
  <1>2. Latest(slots) \in slots /\ \A t \in slots : t <= Latest(slots)
    <2> HIDE DEF slots
    <2> QED BY <1>1, LatestExists
  <1>3. PICK m \in ns : Latest(slots) = m + 1
    BY <1>2
  <1>4. \A k \in ns : k \in Nat /\ k + 1 <= Latest(slots)
    BY <1>2
  <1>5. m \in ns /\ \A k \in ns : k \in Nat /\ k <= m
    <2> HIDE DEF slots
    <2> QED BY <1>3, <1>4
  <1>6. \E x \in ns : \A y \in ns : x >= y
    BY <1>5
  <1>7. Max(ns) \in ns /\ \A y \in ns : Max(ns) >= y
    BY <1>6 DEF Max
  <1> QED
    BY <1>5, <1>7

(* The labels of normalization as parameters: what is said here of names   *)
(* holds of any labels in the places of "*" and of the empty one.          *)
Trimmed(n, dot) == SubSeq(n, 1, Max({0} \cup {i \in 1 .. Len(n) : n[i] # dot}))
NormalBy(n, star, dot) == StripHead(StripHead(Trimmed(n, dot), star), dot)
WellEnded(n, dot) == Len(n) > 0 => n[Len(n)] # dot

LEMMA StripTrailing ==
    ASSUME NEW S, NEW n \in Seq(S), NEW dot
    PROVE  /\ Trimmed(n, dot) \in Seq(S)
           /\ WellEnded(Trimmed(n, dot), dot)
           /\ WellEnded(n, dot) => Trimmed(n, dot) = n
  <1> DEFINE ends == {0} \cup {i \in 1 .. Len(n) : n[i] # dot}
             last == Max(ends)
  <1>1. Len(n) \in Nat /\ \A i \in 1 .. Len(n) : n[i] \in S
    BY LenProperties, ElementOfSeq
  <1>2. ends \in SUBSET (0 .. Len(n)) /\ ends # {}
    BY <1>1
  <1>3. last \in ends /\ \A m \in ends : m <= last
    <2> HIDE DEF ends
    <2> QED BY <1>1, <1>2, MaxExists
  <1>4. last \in 0 .. Len(n) /\ (last > 0 => n[last] # dot)
    BY <1>1, <1>3
  <1>5. Trimmed(n, dot) = SubSeq(n, 1, last)
    BY DEF Trimmed
  <1>6. WellEnded(n, dot) => last = Len(n)
    <2>1. CASE Len(n) = 0
      BY <2>1, <1>4
    <2>2. CASE Len(n) > 0
      <3> SUFFICES ASSUME WellEnded(n, dot) PROVE last = Len(n)
        OBVIOUS
      <3>1. Len(n) \in ends
        BY <2>2, <1>1 DEF WellEnded
      <3>2. Len(n) <= last
        <4> HIDE DEF ends
        <4> QED BY <3>1, <1>3
      <3> HIDE DEF last
      <3> QED BY <3>2, <1>1, <1>4
    <2> QED BY <2>1, <2>2, <1>1
  <1> HIDE DEF last
  <1>7. /\ SubSeq(n, 1, last) \in Seq(S)
        /\ Len(SubSeq(n, 1, last)) = last
        /\ \A i \in 1 .. last : SubSeq(n, 1, last)[i] = n[i]
    <2>1. \A i \in 1 .. last : n[i] \in S
      BY <1>1, <1>4
    <2>2. last \in Int /\ 1 \in Int /\ last - 1 + 1 = last
      BY <1>4
    <2>3. /\ SubSeq(n, 1, last) \in Seq(S)
          /\ Len(SubSeq(n, 1, last)) = IF 1 <= last THEN last - 1 + 1 ELSE 0
          /\ \A i \in 1 .. last - 1 + 1 : SubSeq(n, 1, last)[i] = n[1 + i - 1]
      BY <2>1, <2>2, SubSeqProperties
    <2>4. \A i \in 1 .. last : 1 + i - 1 = i
      OBVIOUS
    <2> QED BY <2>2, <2>3, <2>4, <1>4
  <1>8. WellEnded(SubSeq(n, 1, last), dot)
    BY <1>4, <1>7 DEF WellEnded
  <1>9. WellEnded(n, dot) => SubSeq(n, 1, last) = n
    BY <1>6, SubSeqFull
  <1> QED
    BY <1>5, <1>7, <1>8, <1>9

(* What is left of a name when a label is stripped from its front.         *)
LEMMA StripHeadProperties ==
    ASSUME NEW S, NEW n \in Seq(S), NEW label, NEW dot
    PROVE  /\ StripHead(n, label) \in Seq(S)
           /\ WellEnded(n, dot) => WellEnded(StripHead(n, label), dot)
           /\ n = << >> <=> StripHead(n, label) = << >>
           /\ IF Len(n) > 1 /\ n[1] = label
                THEN /\ StripHead(n, label) = Tail(n)
                     /\ Len(Tail(n)) = Len(n) - 1
                     /\ \A i \in 1 .. Len(n) - 1 : Tail(n)[i] = n[i + 1]
                ELSE StripHead(n, label) = n
  <1>1. Len(n) \in Nat
    BY LenProperties
  <1>2. CASE ~(Len(n) > 1 /\ n[1] = label)
    BY <1>2 DEF StripHead
  <1>3. CASE Len(n) > 1 /\ n[1] = label
    <2>1. StripHead(n, label) = Tail(n)
      BY <1>3 DEF StripHead
    <2>2. n # << >>
      BY <1>1, <1>3
    <2>3. /\ Tail(n) \in Seq(S) /\ Len(Tail(n)) = Len(n) - 1
          /\ \A i \in 1 .. Len(Tail(n)) : Tail(n)[i] = n[i + 1]
      BY <2>2, HeadTailProperties
    <2>4. Tail(n)[Len(n) - 1] = n[Len(n)]
      <3>1. Len(n) - 1 \in 1 .. Len(Tail(n)) /\ Len(n) - 1 + 1 = Len(n)
        BY <1>1, <1>3, <2>3
      <3> QED BY <2>3, <3>1
    <2>5. Tail(n) # << >>
      BY <1>1, <1>3, <2>3
    <2>6. WellEnded(n, dot) => WellEnded(Tail(n), dot)
      BY <1>1, <1>3, <2>3, <2>4 DEF WellEnded
    <2> QED
      BY <1>3, <2>1, <2>2, <2>3, <2>5, <2>6
  <1> QED
    BY <1>2, <1>3

(* IsSuffix, by label.                                                     *)
LEMMA SuffixByLabel ==
    ASSUME NEW S, NEW T, NEW s \in Seq(S), NEW t \in Seq(T)
    PROVE  IsSuffix(s, t) <=> /\ Len(s) <= Len(t)
                              /\ \A i \in 0 .. Len(s) - 1 : s[Len(s) - i] = t[Len(t) - i]
  <1> DEFINE m == Len(s)
             n == Len(t)
             rs == Reverse(s)
             rt == Reverse(t)
  <1>1. m \in Nat /\ n \in Nat
    BY LenProperties
  <1>2. /\ rs = [i \in 1 .. m |-> s[(m - i) + 1]]
        /\ rt = [i \in 1 .. n |-> t[(n - i) + 1]]
    BY DEF Reverse
  <1>3. Len(rs) = m /\ Len(rt) = n
    BY <1>1, <1>2
  <1>4. IsSuffix(s, t) <=> m <= n /\ SubSeq(rs, 1, m) = SubSeq(rt, 1, m)
    BY <1>3 DEF IsSuffix, IsPrefix
  <1>5. ASSUME m <= n
        PROVE  SubSeq(rs, 1, m) = SubSeq(rt, 1, m)
                  <=> \A i \in 1 .. m : s[(m - i) + 1] = t[(n - i) + 1]
    <2>1. /\ SubSeq(rs, 1, m) = [i \in 1 .. m |-> rs[i]]
          /\ SubSeq(rt, 1, m) = [i \in 1 .. m |-> rt[i]]
      BY <1>1, <1>3, <1>5 
    <2>2. ASSUME NEW i \in 1 .. m
          PROVE  rs[i] = s[(m - i) + 1] /\ rt[i] = t[(n - i) + 1]
      BY <1>1, <1>2, <1>5
    <2> HIDE DEF rs, rt, m, n
    <2>3. ASSUME SubSeq(rs, 1, m) = SubSeq(rt, 1, m), NEW i \in 1 .. m
          PROVE  s[(m - i) + 1] = t[(n - i) + 1]
      <3>1. [j \in 1 .. m |-> rs[j]][i] = [j \in 1 .. m |-> rt[j]][i]
        BY <2>1, <2>3
      <3>2. rs[i] = rt[i]
        BY <3>1
      <3> QED BY <3>2, <2>2, Zenon
    <2>4. ASSUME \A i \in 1 .. m : s[(m - i) + 1] = t[(n - i) + 1]
          PROVE  SubSeq(rs, 1, m) = SubSeq(rt, 1, m)
      <3>1. \A i \in 1 .. m : rs[i] = rt[i]
        BY <2>2, <2>4, Zenon
      <3> QED BY <2>1, <3>1
    <2> QED BY <2>3, <2>4, Zenon
  <1> HIDE DEF m, n, rs, rt
  <1>6. ASSUME \A i \in 1 .. m : s[(m - i) + 1] = t[(n - i) + 1], NEW i \in 0 .. m - 1
        PROVE  s[m - i] = t[n - i]
    <2>1. i + 1 \in 1 .. m /\ (m - (i + 1)) + 1 = m - i /\ (n - (i + 1)) + 1 = n - i
      BY <1>1
    <2> QED BY <2>1, <1>6
  <1>7. ASSUME \A i \in 0 .. m - 1 : s[m - i] = t[n - i], NEW i \in 1 .. m
        PROVE  s[(m - i) + 1] = t[(n - i) + 1]
    <2>1. i - 1 \in 0 .. m - 1 /\ m - (i - 1) = (m - i) + 1 /\ n - (i - 1) = (n - i) + 1
      BY <1>1
    <2> QED BY <2>1, <1>7
  <1>8. IsSuffix(s, t) <=> m <= n /\ \A i \in 0 .. m - 1 : s[m - i] = t[n - i]
    BY <1>4, <1>5, <1>6, <1>7
  <1> QED
    BY <1>8 DEF m, n

(* What a name without the label in front is a suffix of stays so when the *)
(* label is stripped from the longer name.                                 *)
LEMMA StripHeadSuffix ==
    ASSUME NEW S, NEW T, NEW s \in Seq(S), NEW t \in Seq(T), NEW label,
           ~(Len(s) > 1 /\ s[1] = label)
    PROVE  IsSuffix(s, t) <=> IsSuffix(s, StripHead(t, label))
  <1> DEFINE u == StripHead(t, label)
  <1>1. Len(s) \in Nat /\ Len(t) \in Nat
    BY LenProperties
  <1>2. CASE ~(Len(t) > 1 /\ t[1] = label)
    BY <1>2, StripHeadProperties
  <1>3. CASE Len(t) > 1 /\ t[1] = label
    <2>1. /\ u \in Seq(T) /\ Len(u) = Len(t) - 1
          /\ \A i \in 1 .. Len(t) - 1 : u[i] = t[i + 1]
      BY <1>3, StripHeadProperties
    <2> HIDE DEF u
    <2>2. IsSuffix(s, t) <=> /\ Len(s) <= Len(t)
                             /\ \A i \in 0 .. Len(s) - 1 : s[Len(s) - i] = t[Len(t) - i]
      BY SuffixByLabel
    <2>3. IsSuffix(s, u) <=> /\ Len(s) <= Len(t) - 1
                             /\ \A i \in 0 .. Len(s) - 1 : s[Len(s) - i] = u[Len(t) - 1 - i]
      BY <2>1, SuffixByLabel
    <2>4. ASSUME Len(s) <= Len(t) - 1, NEW i \in 0 .. Len(s) - 1
          PROVE  u[Len(t) - 1 - i] = t[Len(t) - i]
      <3>1. Len(t) - 1 - i \in 1 .. Len(t) - 1 /\ Len(t) - 1 - i + 1 = Len(t) - i
        BY <1>1, <2>4
      <3> QED BY <3>1, <2>1
    <2>5. ASSUME IsSuffix(s, t)
          PROVE  Len(s) <= Len(t) - 1
      <3>1. CASE Len(s) = Len(t)
        <4>1. Len(s) - 1 \in 0 .. Len(s) - 1 /\ Len(s) - (Len(s) - 1) = 1
              /\ Len(t) - (Len(s) - 1) = 1
          BY <3>1, <1>1, <1>3
        <4>2. s[1] = t[1]
          BY <4>1, <2>2, <2>5
        <4> QED BY <4>2, <3>1, <1>3
      <3> QED BY <3>1, <2>2, <2>5, <1>1
    <2>6. IsSuffix(s, t) => IsSuffix(s, u)
      <3> SUFFICES ASSUME IsSuffix(s, t) PROVE IsSuffix(s, u)
        OBVIOUS
      <3>1. \A i \in 0 .. Len(s) - 1 : s[Len(s) - i] = u[Len(t) - 1 - i]
        BY <2>2, <2>4, <2>5
      <3> QED BY <3>1, <2>3, <2>5
    <2>7. IsSuffix(s, u) => IsSuffix(s, t)
      <3> SUFFICES ASSUME IsSuffix(s, u) PROVE IsSuffix(s, t)
        OBVIOUS
      <3>1. Len(s) <= Len(t) /\ \A i \in 0 .. Len(s) - 1 : s[Len(s) - i] = t[Len(t) - i]
        BY <2>3, <2>4, <1>1
      <3> QED BY <3>1, <2>2
    <2> QED
      BY <2>6, <2>7 DEF u
  <1> QED
    BY <1>2, <1>3

LEMMA NormalProperties ==
    ASSUME NEW S, NEW n \in Seq(S), NEW star, NEW dot
    PROVE  /\ NormalBy(n, star, dot) \in Seq(S)
           /\ WellEnded(NormalBy(n, star, dot), dot)
           /\ WellEnded(n, dot) => (n = << >> <=> NormalBy(n, star, dot) = << >>)
           /\ WellEnded(n, dot) =>
                 NormalBy(n, star, dot) = StripHead(StripHead(n, star), dot)
  <1> DEFINE a == Trimmed(n, dot)
             b == StripHead(a, star)
  <1>1. a \in Seq(S) /\ WellEnded(a, dot) /\ (WellEnded(n, dot) => a = n)
    BY StripTrailing
  <1> HIDE DEF a
  <1>2. b \in Seq(S) /\ WellEnded(b, dot) /\ (a = << >> <=> b = << >>)
    BY <1>1, StripHeadProperties
  <1> HIDE DEF b
  <1>3. /\ StripHead(b, dot) \in Seq(S) /\ WellEnded(StripHead(b, dot), dot)
        /\ b = << >> <=> StripHead(b, dot) = << >>
    BY <1>2, StripHeadProperties
  <1>4. NormalBy(n, star, dot) = StripHead(b, dot) /\ b = StripHead(a, star)
    BY DEF NormalBy, a, b
  <1> QED
    BY <1>1, <1>2, <1>3, <1>4

(* A name from which normalization strips nothing begins with neither      *)
(* label, unless it is the only one.                                       *)
LEMMA NormalHead ==
    ASSUME NEW S, NEW n \in Seq(S), NEW star, NEW dot, NormalBy(n, star, dot) = n
    PROVE  ~(Len(n) > 1 /\ n[1] = star) /\ ~(Len(n) > 1 /\ n[1] = dot)
  <1> DEFINE b == StripHead(n, star)
  <1>1. WellEnded(n, dot)
    BY NormalProperties
  <1>2. StripHead(b, dot) = n
    BY <1>1, NormalProperties
  <1>3. b \in Seq(S) /\ Len(n) \in Nat
    BY StripHeadProperties, LenProperties
  <1>4. Len(b) = IF Len(n) > 1 /\ n[1] = star THEN Len(n) - 1 ELSE Len(n)
    BY StripHeadProperties
  <1>5. ~(Len(n) > 1 /\ n[1] = star) => b = n
    BY StripHeadProperties
  <1> HIDE DEF b
  <1>6. Len(n) = IF Len(b) > 1 /\ b[1] = dot THEN Len(b) - 1 ELSE Len(b)
    BY <1>2, <1>3, StripHeadProperties
  <1>7. ~(Len(n) > 1 /\ n[1] = star)
    BY <1>3, <1>4, <1>6
  <1>8. b = n
    BY <1>5, <1>7
  <1> QED
    BY <1>3, <1>6, <1>7, <1>8

(* A suffix in normal form does not notice whether the name is normalized. *)
LEMMA NormalSuffix ==
    ASSUME NEW S, NEW T, NEW s \in Seq(S), NEW t \in Seq(T), NEW star, NEW dot,
           NormalBy(s, star, dot) = s, WellEnded(t, dot)
    PROVE  IsSuffix(s, t) <=> IsSuffix(s, NormalBy(t, star, dot))
  <1> DEFINE u == StripHead(t, star)
  <1>1. ~(Len(s) > 1 /\ s[1] = star) /\ ~(Len(s) > 1 /\ s[1] = dot)
    BY NormalHead
  <1>2. u \in Seq(T)
    BY StripHeadProperties
  <1>3. NormalBy(t, star, dot) = StripHead(u, dot)
    BY NormalProperties
  <1>4. IsSuffix(s, t) <=> IsSuffix(s, u)
    BY <1>1, StripHeadSuffix
  <1>5. IsSuffix(s, u) <=> IsSuffix(s, StripHead(u, dot))
    <2> HIDE DEF u
    <2> QED BY <1>1, <1>2, StripHeadSuffix
  <1> QED
    BY <1>3, <1>4, <1>5

(* A host whose normal form is left alone by another normalization matches *)
(* the same names when both are normalized once more.                      *)
LEMMA MatchesTwiceNormalized ==
    ASSUME NEW S, NEW T, NEW host \in Seq(S), NEW name \in Seq(T),
           NormalizeDomain(NormalizeDomain(host)) = NormalizeDomain(host)
    PROVE  DomainMatches(NormalizeDomain(host), NormalizeDomain(name))
              <=> DomainMatches(host, name)
  <1>1. \A n : NormalizeDomain(n) = NormalBy(n, "*", "")
    BY Zenon DEF NormalizeDomain, NormalBy, StripTrailingDots, Trimmed
  <1>2. PICK star, dot : star = "*" /\ dot = ""
    BY Zenon
  <1> DEFINE ind == NormalBy(host, star, dot)
             obs == NormalBy(name, star, dot)
  <1>3. NormalizeDomain(host) = ind /\ NormalizeDomain(name) = obs
        /\ NormalizeDomain(ind) = NormalBy(ind, star, dot)
        /\ NormalizeDomain(obs) = NormalBy(obs, star, dot)
    BY <1>1, <1>2, Zenon
  <1>4. ind \in Seq(S) /\ obs \in Seq(T) /\ WellEnded(obs, dot)
    BY NormalProperties
  <1> HIDE DEF ind, obs
  <1>5. NormalBy(ind, star, dot) = ind
    BY <1>3
  <1>6. IsSuffix(ind, obs) <=> IsSuffix(ind, NormalBy(obs, star, dot))
    BY <1>4, <1>5, NormalSuffix
  <1>7. obs = << >> <=> NormalBy(obs, star, dot) = << >>
    BY <1>4, NormalProperties
  <1> QED
    BY <1>3, <1>5, <1>6, <1>7 DEF DomainMatches

-----------------------------------------------------------------------------
(* The index and the scan.                                                 *)

LEMMA HostIsName ==
    ASSUME TypeOK, NEW s \in DOMAIN records, records[s].value.type \in NameType
    PROVE  \E S : HostText(records[s].value) \in Seq(S)
  <1> DEFINE v == records[s].value
  <1>1. v \in Values
    BY RecordsType DEF TypeOK, Record
  <1>2. IsPayload(v)
    BY <1>1, InputsAssumption DEF Values
  <1>3. CASE v.type = "domain"
    <2>1. v.name \in Seq(STRING) /\ HostText(v) = v.name
      BY <1>2, <1>3 DEF IsPayload, AddressType, Name, HostText
    <2> QED BY <2>1
  <1>4. CASE v.type = "url"
    <2> DEFINE host == v.host
    <2>1. host \in Seq(STRING) /\ HostText(v) = UrlHost(v)
      BY <1>2, <1>4 DEF IsPayload, AddressType, Name, HostText
    <2>2. \/ UrlHost(v) = host
          \/ \E x : UrlHost(v) = <<x>>
          \/ host # << >> /\ \E x : UrlHost(v) = [host EXCEPT ![Len(host)] = x]
      BY Zenon DEF UrlHost
    <2> HIDE DEF host
    <2>3. CASE UrlHost(v) = host
      BY <2>1, <2>3
    <2>4. CASE \E x : UrlHost(v) = <<x>>
      <3>1. PICK x : UrlHost(v) = <<x>>
        BY <2>4
      <3>2. <<x>> \in Seq({x})
        OBVIOUS
      <3> QED BY <3>1, <3>2, <2>1
    <2>5. CASE host # << >> /\ \E x : UrlHost(v) = [host EXCEPT ![Len(host)] = x]
      <3>1. PICK x : UrlHost(v) = [host EXCEPT ![Len(host)] = x]
        BY <2>5
      <3>2. Len(host) \in Nat /\ host \in [1 .. Len(host) -> STRING]
        BY <2>1
      <3>3. [host EXCEPT ![Len(host)] = x] \in [1 .. Len(host) -> STRING \cup {x}]
        BY <3>2
      <3>4. [host EXCEPT ![Len(host)] = x] \in Seq(STRING \cup {x})
        BY <3>2, <3>3, SeqDef
      <3> QED BY <3>1, <3>4, <2>1
    <2> QED BY <2>2, <2>3, <2>4, <2>5
  <1> QED
    BY <1>3, <1>4 DEF NameType

LEMMA InvLookupDomain ==
    ASSUME Inv, NEW name \in Name,
           \A s \in ActiveSlots(records) : HasNormalHost(records[s].value)
    PROVE  LookupDomain(name)
              = {s \in ActiveSlots(records) : MatchesName(records[s].value, name)}
  <1> DEFINE live == ActiveSlots(records)
             filed == HasType(records, live, NameType)
             FiledAs(s) == NormalizeDomain(HostText(records[s].value))
             observed == NormalizeDomain(name)
  <1>1. domains = {<<FiledAs(s), s>> : s \in filed}
    BY DEF Inv, TablesCurrent, DomainPostings
  <1>2. LookupDomain(name)
            = {s \in live : \E d \in domains : DomainMatches(d[1], observed) /\ d[2] = s}
    BY DEF LookupDomain, Found, ActiveSlots
  <1>3. /\ filed \subseteq live
        /\ \A s \in live : s \in filed <=> records[s].value.type \in NameType
    BY DEF HasType
  <1>4. ASSUME NEW s \in filed
        PROVE  DomainMatches(FiledAs(s), observed) <=> MatchesName(records[s].value, name)
    <2>1. s \in DOMAIN records /\ s \in live /\ records[s].value.type \in NameType
      BY <1>3 DEF ActiveSlots
    <2>2. PICK S : HostText(records[s].value) \in Seq(S)
      BY <2>1, HostIsName DEF Inv
    <2>3. NormalizeDomain(FiledAs(s)) = FiledAs(s)
      BY <2>1 DEF HasNormalHost
    <2>4. DomainMatches(FiledAs(s), observed) <=> DomainMatches(HostText(records[s].value), name)
      BY <2>2, <2>3, MatchesTwiceNormalized DEF Name
    <2> QED
      BY <2>1, <2>4 DEF MatchesName
  <1>5. \A s \in live : MatchesName(records[s].value, name) => s \in filed
    BY <1>3 DEF MatchesName
  <1> HIDE DEF live, filed, FiledAs, observed
  <1>6. ASSUME NEW s, NEW d \in domains, DomainMatches(d[1], observed), d[2] = s
        PROVE  s \in filed /\ DomainMatches(FiledAs(s), observed)
    BY <1>1, <1>6
  <1>7. ASSUME NEW s \in filed, DomainMatches(FiledAs(s), observed)
        PROVE  \E d \in domains : DomainMatches(d[1], observed) /\ d[2] = s
    <2>1. <<FiledAs(s), s>> \in domains
      BY <1>1
    <2> QED BY <2>1, <1>7
  <1>8. LookupDomain(name) = {s \in live : MatchesName(records[s].value, name)}
    BY <1>2, <1>3, <1>4, <1>5, <1>6, <1>7
  <1> QED
    BY <1>8 DEF live

LEMMA InvAgrees ==
    ASSUME Inv
    PROVE  IndexAgreesWithScan
  <1> DEFINE live == ActiveSlots(records)
             Ind(s) == [value |-> records[s].value, role |-> records[s].role]
             inds == {Ind(s) : s \in live}
  <1> SUFFICES ASSUME \A i \in inds : HasNormalHost(i.value), NEW pkt \in Packets
               PROVE  MatchIndexed(pkt) = MatchPacket(inds, pkt)
    BY DEF IndexAgreesWithScan
  <1>1. \A s \in live : HasNormalHost(records[s].value)
    <2> SUFFICES ASSUME NEW s \in live PROVE HasNormalHost(records[s].value)
      OBVIOUS
    <2>1. Ind(s) \in inds /\ Ind(s).value = records[s].value
      OBVIOUS
    <2> HIDE DEF inds, Ind
    <2> QED BY <2>1
  <1>2. ASSUME NEW e \in pkt.endpoints
        PROVE  Matched(LookupIp(e.addr), e.field, e.addr)
                  = AddressMatches(inds, e.addr, e.field)
    <2>1. LookupIp(e.addr) = {s \in live : MatchesAddress(records[s].value, e.addr)}
      BY PacketsAssumption, InvLookupIp
    <2>2. AddressMatches(inds, e.addr, e.field)
             = {[indicator |-> Ind(s), field |-> e.field, value |-> e.addr] :
                   s \in {t \in live : MatchesAddress(records[t].value, e.addr)}}
      BY DEF AddressMatches
    <2> QED
      BY <2>1, <2>2 DEF Matched
  <1>3. ASSUME NEW n \in pkt.names
        PROVE  Matched(LookupDomain(n), "dns.name", NormalizeDomain(n))
                  = NameMatches(inds, n)
    <2>1. LookupDomain(n) = {s \in live : MatchesName(records[s].value, n)}
      BY <1>1, PacketsAssumption, InvLookupDomain
    <2>2. NameMatches(inds, n)
             = {[indicator |-> Ind(s), field |-> "dns.name", value |-> NormalizeDomain(n)] :
                   s \in {t \in live : MatchesName(records[t].value, n)}}
      BY DEF NameMatches
    <2> QED
      BY <2>1, <2>2 DEF Matched
  <1> HIDE DEF inds
  <1>4. UNION {Matched(LookupIp(e.addr), e.field, e.addr) : e \in pkt.endpoints}
           = UNION {AddressMatches(inds, e.addr, e.field) : e \in pkt.endpoints}
    BY <1>2
  <1>5. UNION {Matched(LookupDomain(n), "dns.name", NormalizeDomain(n)) : n \in pkt.names}
           = UNION {NameMatches(inds, n) : n \in pkt.names}
    BY <1>3
  <1> QED
    BY <1>4, <1>5 DEF MatchIndexed, MatchPacket

(* The index and the scan of the active indicators report the same.        *)
THEOREM IndexAlwaysAgreesWithScan == Spec => []IndexAgreesWithScan
  <1>1. Inv => IndexAgreesWithScan
    BY InvAgrees
  <1> QED
    BY <1>1, Invariance, PTL
-----------------------------------------------------------------------------
(* The store.  Every operation on slots and tables is an operation on a    *)
(* store of indicators by id: the slots of a compaction, the order of a    *)
(* key's records and the ids that callers keep are settled here.           *)

(* The entry of the store that stands for a record, and all of them by id: *)
(* the substitution for "store" in IndicatorIndex.                         *)
View(rec) == [value |-> rec.value, role |-> rec.role, blank |-> rec.blank,
              active |-> rec.active]
StoreBar  == [id \in DOMAIN idToSlot |-> View(RecordOf(id))]

Ascending(recs) == \A s, t \in DOMAIN recs : s < t => recs[s].id < recs[t].id

(* The id map of records with ascending ids has each under its own slot.   *)
LEMMA IdMapExact ==
    ASSUME NEW recs \in Seq(Record), Ascending(recs)
    PROVE  LET map == IdMap(recs, DOMAIN recs)
           IN  /\ DOMAIN map = {recs[s].id : s \in DOMAIN recs}
               /\ \A s \in DOMAIN recs : map[recs[s].id] = s
  <1> DEFINE f == [s \in DOMAIN recs |-> recs[s].id]
             map == IdMap(recs, DOMAIN recs)
  <1>1. map = SlotMap(f)
    BY DEF IdMap
  <1>2. Len(recs) \in Nat /\ DOMAIN f = 1 .. Len(recs) /\ DOMAIN recs = 1 .. Len(recs)
    BY RecordsType
  <1>3. DOMAIN SlotMap(f) = {f[s] : s \in DOMAIN f}
    BY SlotMapValue
  <1>4. ASSUME NEW s \in DOMAIN recs
        PROVE  SlotMap(f)[recs[s].id] = s
    <2> DEFINE t == SlotMap(f)[recs[s].id]
    <2>1. recs[s].id \in DOMAIN SlotMap(f)
      BY <1>3
    <2>2. t \in DOMAIN f /\ f[t] = recs[s].id
      <3> HIDE DEF f
      <3> QED BY <1>2, <2>1, SlotMapSound
    <2>3. t \in DOMAIN recs /\ recs[t].id = recs[s].id
      BY <2>2
    <2>4. ~(s < t) /\ ~(t < s)
      <3> HIDE DEF t
      <3>1. recs[s].id \in Ids
        BY RecordsType
      <3> QED BY <2>3, <3>1 DEF Ascending, Ids
    <2>5. DOMAIN recs \subseteq Int
      OBVIOUS
    <2> HIDE DEF t
    <2>6. t = s
      BY <1>2, <2>3, <2>4, <2>5
    <2> QED
      BY <2>6, Zenon DEF t
  <1> QED
    BY <1>1, <1>3, <1>4

(* The same of the index under its invariant.                              *)
LEMMA IdMapFinds ==
    ASSUME Inv
    PROVE  /\ DOMAIN idToSlot = {records[s].id : s \in DOMAIN records}
           /\ \A s \in DOMAIN records : idToSlot[records[s].id] = s
  <1>1. records \in Seq(Record) /\ Ascending(records)
    BY DEF Inv, TypeOK, IdsResolve, Ascending
  <1> QED
    BY <1>1, IdMapExact DEF Inv, IdsResolve

LEMMA IdMapFindsNext ==
    ASSUME Inv'
    PROVE  /\ DOMAIN idToSlot' = {records'[s].id : s \in DOMAIN records'}
           /\ \A s \in DOMAIN records' : idToSlot'[records'[s].id] = s
  <1>1. records' \in Seq(Record) /\ Ascending(records')
    BY DEF Inv, TypeOK, IdsResolve, Ascending
  <1> QED
    BY <1>1, IdMapExact DEF Inv, IdsResolve

-----------------------------------------------------------------------------
(* A record that is replaced is an entry that is replaced.                 *)
LEMMA StampMaps ==
    ASSUME Inv, NEW id \in DOMAIN idToSlot, NEW rec,
           records' = [records EXCEPT ![idToSlot[id]] = rec],
           idToSlot' = idToSlot
    PROVE  StoreBar' = [StoreBar EXCEPT ![id] = View(rec)]
  <1>1. \A i \in DOMAIN idToSlot :
            idToSlot[i] \in DOMAIN records /\ records[idToSlot[i]].id = i
    BY IdLeadsToRecord DEF Inv
  <1>2. \A i \in DOMAIN idToSlot :
            records'[idToSlot[i]] = IF i = id THEN rec ELSE records[idToSlot[i]]
    BY <1>1
  <1>3. \A i \in DOMAIN idToSlot :
            View(records'[idToSlot'[i]])
                = IF i = id THEN View(rec) ELSE View(records[idToSlot[i]])
    BY <1>2
  <1>4. /\ StoreBar = [i \in DOMAIN idToSlot |-> View(records[idToSlot[i]])]
        /\ StoreBar' = [i \in DOMAIN idToSlot |-> View(records'[idToSlot'[i]])]
    BY DEF StoreBar, RecordOf
  <1> QED
    <2> HIDE DEF View
    <2> QED BY <1>3, <1>4

Entries == [value : Values, role : Roles, blank : BOOLEAN, active : BOOLEAN]

LEMMA StoreType ==
    ASSUME Inv
    PROVE  StoreBar \in [DOMAIN idToSlot -> Entries]
  <1> SUFFICES ASSUME NEW id \in DOMAIN idToSlot PROVE View(RecordOf(id)) \in Entries
    BY DEF StoreBar
  <1>1. RecordOf(id) \in Record
    BY IdLeadsToRecord, RecordsType DEF Inv, TypeOK, RecordOf
  <1> QED
    BY <1>1 DEF View, Record, Entries

(* A record that Stamp writes is an entry that is replaced.                *)
LEMMA StampMapsEntry ==
    ASSUME Inv, NEW id \in DOMAIN idToSlot, NEW rec \in Record, Stamp(id, rec)
    PROVE  StoreBar' = [StoreBar EXCEPT ![id] = View(rec)] /\ nextId' = nextId
  <1> DEFINE new == [rec EXCEPT !.generation = generation]
  <1>1. records' = [records EXCEPT ![idToSlot[id]] = new] /\ idToSlot' = idToSlot
        /\ nextId' = nextId
    BY DEF Stamp
  <1>2. StoreBar' = [StoreBar EXCEPT ![id] = View(new)]
    <2> HIDE DEF new
    <2> QED BY <1>1, StampMaps
  <1>3. View(new) = View(rec)
    BY DEF View, Record
  <1> HIDE DEF new
  <1> QED
    BY <1>1, <1>2, <1>3

(* The entry of a known id, by field.                                      *)
LEMMA EntryOfRecord ==
    ASSUME Inv, NEW id \in DOMAIN idToSlot
    PROVE  /\ RecordOf(id) \in Record
           /\ id \in DOMAIN StoreBar /\ StoreBar[id] \in Entries
           /\ StoreBar[id].value = RecordOf(id).value
           /\ StoreBar[id].role = RecordOf(id).role
           /\ StoreBar[id].blank = RecordOf(id).blank
           /\ StoreBar[id].active = RecordOf(id).active
  <1>1. RecordOf(id) \in Record
    BY IdLeadsToRecord, RecordsType DEF Inv, TypeOK, RecordOf
  <1> QED
    BY <1>1, StoreType DEF StoreBar, View

LEMMA SetActiveMaps ==
    ASSUME Inv, NEW id \in DOMAIN idToSlot, NEW active \in BOOLEAN,
           RecordOf(id).active # active,
           Stamp(id, [RecordOf(id) EXCEPT !.active = active])
    PROVE  Store!SetActive(id, active)
  <1> DEFINE old == RecordOf(id)
             rec == [old EXCEPT !.active = active]
  <1>1. old \in Record
    BY EntryOfRecord
  <1>2. rec \in Record /\ View(rec) = [value |-> old.value, role |-> old.role,
                                       blank |-> old.blank, active |-> active]
    <2> HIDE DEF old
    <2> QED BY <1>1 DEF View, Record
  <1>3. StoreBar' = [StoreBar EXCEPT ![id] = View(rec)] /\ nextId' = nextId
    <2> HIDE DEF rec
    <2>1. Stamp(id, rec)
      BY DEF rec
    <2> QED BY <1>2, <2>1, StampMapsEntry
  <1>4. StoreBar' = [StoreBar EXCEPT ![id] = [value |-> StoreBar[id].value,
                                              role |-> StoreBar[id].role,
                                              blank |-> StoreBar[id].blank,
                                              active |-> active]]
    <2> HIDE DEF rec
    <2> QED BY <1>2, <1>3, EntryOfRecord
  <1>5. StoreBar' = [StoreBar EXCEPT ![id].active = active]
    BY <1>4, StoreType DEF Entries
  <1>6. StoreBar[id].active # active
    BY EntryOfRecord
  <1> QED
    BY <1>3, <1>5, <1>6 DEF Store!SetActive, StoreBar, View

LEMMA RelabelMaps ==
    ASSUME Inv, NEW id, NEW role \in Roles, UpdateRole(id, role)
    PROVE  id \in DOMAIN StoreBar /\ Store!Relabel(id, role)
  <1> DEFINE old == RecordOf(id)
             rec == [old EXCEPT !.role = role]
  <1>1. id \in DOMAIN idToSlot /\ old \in Record
    BY EntryOfRecord DEF UpdateRole
  <1>2. rec \in Record /\ View(rec) = [value |-> old.value, role |-> role,
                                       blank |-> old.blank, active |-> old.active]
    <2> HIDE DEF old
    <2> QED BY <1>1 DEF View, Record
  <1>3. StoreBar' = [StoreBar EXCEPT ![id] = View(rec)] /\ nextId' = nextId
    <2> HIDE DEF rec
    <2>1. Stamp(id, rec)
      BY DEF UpdateRole, rec
    <2> QED BY <1>1, <1>2, <2>1, StampMapsEntry
  <1>4. StoreBar' = [StoreBar EXCEPT ![id] = [value |-> StoreBar[id].value,
                                              role |-> role,
                                              blank |-> StoreBar[id].blank,
                                              active |-> StoreBar[id].active]]
    <2> HIDE DEF rec
    <2> QED BY <1>1, <1>2, <1>3, EntryOfRecord
  <1>5. StoreBar' = [StoreBar EXCEPT ![id].role = role]
    BY <1>1, <1>4, StoreType DEF Entries
  <1>6. id \in DOMAIN StoreBar
    BY <1>1, EntryOfRecord
  <1> QED
    BY <1>3, <1>5, <1>6 DEF Store!Relabel, StoreBar, View

(* A rebuild changes no entry.                                             *)
LEMMA RebuildMaps ==
    ASSUME Inv, Rebuild
    PROVE  UNCHANGED Store!storeVars
  <1>1. records' = records /\ idToSlot' = idToSlot /\ nextId' = nextId
    BY DEF Inv, IdsResolve, Rebuild, RebuildFrom
  <1> QED
    BY <1>1 DEF Store!storeVars, RecordOf

(* Ascending slots, as many as there are active ones, are all of these.    *)
LEMMA CompactionOnto ==
    ASSUME NEW n \in Nat, NEW live \in SUBSET (1 .. n),
           NEW from \in [1 .. Cardinality(live) -> live],
           \A i, j \in DOMAIN from : i < j => from[i] < from[j],
           NEW s \in live
    PROVE  \E i \in DOMAIN from : from[i] = s
  <1> SUFFICES ASSUME \A i \in DOMAIN from : from[i] # s PROVE FALSE
    OBVIOUS
  <1> DEFINE size == Cardinality(live)
             rest == live \ {s}
  <1>1. IsFiniteSet(live)
    <2>1. IsFiniteSet(1 .. n)
      BY FS_Interval
    <2> QED BY <2>1, FS_Subset
  <1>2. size \in Nat /\ IsFiniteSet(rest) /\ Cardinality(rest) = size - 1
    BY <1>1, FS_CardinalityType, FS_RemoveElement
  <1>3. IsFiniteSet(1 .. size) /\ Cardinality(1 .. size) = size
    <2> HIDE DEF size
    <2>1. Cardinality(1 .. size) = IF 1 > size THEN 0 ELSE size - 1 + 1
      BY <1>2, FS_Interval
    <2> QED BY <1>2, <2>1, FS_Interval
  <1>4. from \in [1 .. size -> rest]
    OBVIOUS
  <1>5. Cardinality(rest) < Cardinality(1 .. size)
    BY <1>2, <1>3
  <1>6. \E i, j \in 1 .. size : i # j /\ from[i] = from[j]
    <2> HIDE DEF size, rest
    <2> QED BY <1>2, <1>3, <1>4, <1>5, FS_PigeonHole
  <1>7. PICK i \in 1 .. size, j \in 1 .. size : i # j /\ from[i] = from[j]
    BY <1>6
  <1>8. i \in Int /\ j \in Int /\ from[i] \in live
    BY <1>2, <1>4
  <1>9. from[i] \in Int
    <2>1. \A t \in live : t \in Int
      OBVIOUS
    <2> QED BY <2>1, <1>8
  <1>10. i < j \/ j < i
    BY <1>7, <1>8
  <1>11. i \in DOMAIN from /\ j \in DOMAIN from
    OBVIOUS
  <1> QED
    BY <1>7, <1>9, <1>10, <1>11

(* A compaction keeps the entries of the active records and no others.     *)
LEMMA CompactMaps ==
    ASSUME Inv, Inv', Compact
    PROVE  Store!Purge
  <1> DEFINE live == ActiveSlots(records)
  <1>1. PICK from \in [1 .. Cardinality(live) -> live] :
            /\ \A i, j \in DOMAIN from : i < j => from[i] < from[j]
            /\ RebuildFrom([i \in DOMAIN from |-> records[from[i]]])
    BY DEF Compact
  <1>2. records' = [i \in DOMAIN from |-> records[from[i]]] /\ nextId' = nextId
    BY <1>1 DEF RebuildFrom
  <1>3. /\ DOMAIN records' = DOMAIN from
        /\ \A i \in DOMAIN from : from[i] \in live /\ records'[i] = records[from[i]]
    BY <1>2
  <1>4. Len(records) \in Nat /\ live \in SUBSET (1 .. Len(records))
    BY RecordsType DEF Inv, TypeOK, ActiveSlots
  <1>5. \A s \in live : \E i \in DOMAIN from : from[i] = s
    <2> HIDE DEF live
    <2> QED BY <1>1, <1>4, CompactionOnto
  <1>6. /\ DOMAIN StoreBar = DOMAIN idToSlot
        /\ \A id \in DOMAIN StoreBar : StoreBar[id] = View(records[idToSlot[id]])
        /\ DOMAIN StoreBar' = DOMAIN idToSlot'
        /\ \A id \in DOMAIN StoreBar' : StoreBar'[id] = View(records'[idToSlot'[id]])
    BY DEF StoreBar, RecordOf
  <1>7. \A s \in DOMAIN records : /\ records[s].id \in DOMAIN StoreBar
                                  /\ StoreBar[records[s].id] = View(records[s])
    BY <1>6, IdMapFinds
  <1>8. ASSUME NEW id \in DOMAIN StoreBar'
        PROVE  id \in DOMAIN StoreBar /\ StoreBar[id].active /\ StoreBar'[id] = StoreBar[id]
    <2>1. PICK i \in DOMAIN records' : id = records'[i].id
      BY <1>6, <1>8, IdMapFindsNext
    <2>2. StoreBar'[id] = View(records'[i])
      BY <2>1, <1>6, <1>8, IdMapFindsNext
    <2>3. from[i] \in DOMAIN records /\ records[from[i]].active /\ records'[i] = records[from[i]]
      BY <1>3 DEF ActiveSlots
    <2> QED
      BY <2>1, <2>2, <2>3, <1>7 DEF View
  <1>9. ASSUME NEW id \in DOMAIN StoreBar, StoreBar[id].active
        PROVE  id \in DOMAIN StoreBar'
    <2>1. idToSlot[id] \in DOMAIN records /\ records[idToSlot[id]].id = id
      BY <1>6, IdLeadsToRecord DEF Inv
    <2>2. idToSlot[id] \in live
      BY <2>1, <1>6, <1>9 DEF View, ActiveSlots
    <2>3. PICK i \in DOMAIN records' : from[i] = idToSlot[id]
      BY <2>2, <1>3, <1>5
    <2>4. records'[i].id = id
      BY <2>1, <2>3, <1>3
    <2> QED
      BY <2>4, <1>6, IdMapFindsNext
  <1>10. StoreBar' = [id \in DOMAIN StoreBar' |-> StoreBar'[id]]
    BY DEF StoreBar
  <1>11. StoreBar' = [id \in {i \in DOMAIN StoreBar : StoreBar[i].active} |-> StoreBar[id]]
    <2> HIDE DEF live
    <2>1. DOMAIN StoreBar' = {i \in DOMAIN StoreBar : StoreBar[i].active}
      BY <1>8, <1>9
    <2> QED
      BY <2>1, <1>8, <1>10
  <1> QED
    BY <1>2, <1>11 DEF Store!Purge, Store!ActiveIds, StoreBar, View

(* The store completes an indicator as the index does.                     *)
LEMMA StoreCompletes == \A ind : Store!Completed(ind) = Completed(ind)
  BY DEF Completed, Store!Completed, NormalizeDomain, Store!NormalizeDomain,
         StripHead, Store!StripHead, StripTrailingDots, Store!StripTrailingDots,
         NormalizeUrl, Store!NormalizeUrl, NormalizeHash, Store!NormalizeHash,
         DefaultPort, Store!DefaultPort, Max, Store!Max

(* What add appends are the entries of the ids it issues.                  *)
LEMMA AddSetMaps ==
    ASSUME Inv, Inv', NEW n \in 1 .. MaxBatch, NEW batch \in [1 .. n -> Inputs],
           AddSet(batch)
    PROVE  Store!Insert(batch)
  <1> DEFINE L     == Len(records)
             added == [k \in 1 .. n |-> NewRecord(batch[k], k - 1)]
  <1>1. n \in Nat /\ Len(batch) = n /\ nextId \in Nat \ {0}
    BY CountersAssumption DEF Inv, TypeOK
  <1>2. /\ nextId + n - 1 <= MaxId
        /\ records' = records \o added
        /\ nextId' = nextId + n
    BY <1>1 DEF AddSet
  <1>3. records \in Seq(Record) /\ L \in Nat /\ DOMAIN records = 1 .. L
    BY RecordsType DEF Inv, TypeOK
  <1>4. /\ DOMAIN records' = 1 .. L + n
        /\ \A s \in 1 .. L : records'[s] = records[s]
        /\ \A k \in 1 .. n : records'[L + k] = NewRecord(batch[k], k - 1)
    <2>1. DOMAIN added = 1 .. n /\ Len(added) = n
      BY <1>1
    <2>2. records' = [s \in 1 .. (L + n) |-> IF s <= L THEN records[s] ELSE added[s - L]]
      BY <1>1, <1>2, <1>3, <2>1
    <2>3. \A k \in 1 .. n : L + k \in 1 .. (L + n) /\ ~(L + k <= L) /\ L + k - L = k
      BY <1>1, <1>3
    <2>4. \A s \in 1 .. L : s \in 1 .. (L + n) /\ s <= L
      BY <1>1, <1>3
    <2> QED
      BY <2>2, <2>3, <2>4
  <1>5. /\ DOMAIN StoreBar = DOMAIN idToSlot
        /\ \A id \in DOMAIN StoreBar : StoreBar[id] = View(records[idToSlot[id]])
        /\ DOMAIN StoreBar' = DOMAIN idToSlot'
        /\ \A id \in DOMAIN StoreBar' : StoreBar'[id] = View(records'[idToSlot'[id]])
    BY DEF StoreBar, RecordOf
  <1>6. \A s \in 1 .. L : /\ records[s].id \in DOMAIN StoreBar
                          /\ records[s].id < nextId
                          /\ StoreBar'[records[s].id] = StoreBar[records[s].id]
                          /\ records[s].id \in DOMAIN StoreBar'
    <2> SUFFICES ASSUME NEW s \in 1 .. L
                 PROVE  /\ records[s].id \in DOMAIN StoreBar
                        /\ records[s].id < nextId
                        /\ StoreBar'[records[s].id] = StoreBar[records[s].id]
                        /\ records[s].id \in DOMAIN StoreBar'
      OBVIOUS
    <2>1. s \in DOMAIN records /\ s \in DOMAIN records' /\ records'[s] = records[s]
      BY <1>1, <1>3, <1>4
    <2>2. idToSlot[records[s].id] = s /\ records[s].id \in DOMAIN idToSlot
      BY <2>1, IdMapFinds
    <2>3. idToSlot'[records[s].id] = s /\ records[s].id \in DOMAIN idToSlot'
      BY <2>1, IdMapFindsNext
    <2> QED
      BY <2>1, <2>2, <2>3, <1>5 DEF Inv, IdsResolve
  <1>7. \A k \in 1 .. n :
           /\ nextId + k - 1 \in DOMAIN StoreBar'
           /\ StoreBar'[nextId + k - 1] = View(NewRecord(batch[k], k - 1))
    <2> SUFFICES ASSUME NEW k \in 1 .. n
                 PROVE  /\ nextId + k - 1 \in DOMAIN StoreBar'
                        /\ StoreBar'[nextId + k - 1] = View(NewRecord(batch[k], k - 1))
      OBVIOUS
    <2>1. L + k \in DOMAIN records' /\ records'[L + k] = NewRecord(batch[k], k - 1)
      BY <1>1, <1>3, <1>4
    <2>2. records'[L + k].id = nextId + k - 1
      BY <2>1, <1>1 DEF NewRecord
    <2>3. idToSlot'[nextId + k - 1] = L + k /\ nextId + k - 1 \in DOMAIN idToSlot'
      BY <2>1, <2>2, IdMapFindsNext
    <2> QED
      BY <2>1, <2>3, <1>5
  <1>8. DOMAIN StoreBar' = DOMAIN StoreBar \cup nextId .. (nextId + n - 1)
    <2>1. ASSUME NEW id \in DOMAIN StoreBar'
          PROVE  id \in DOMAIN StoreBar \cup nextId .. (nextId + n - 1)
      <3>1. PICK s \in 1 .. L + n : id = records'[s].id
        BY <1>4, <1>5, <2>1, IdMapFindsNext
      <3>2. CASE s \in 1 .. L
        BY <3>1, <3>2, <1>4, <1>6
      <3>3. CASE s \notin 1 .. L
        <4>1. s - L \in 1 .. n /\ L + (s - L) = s
          BY <3>3, <1>1, <1>3
        <4>2. PICK k \in 1 .. n : L + k = s
          BY <4>1
        <4>3. records'[s] = NewRecord(batch[k], k - 1)
          BY <4>2, <1>4
        <4>4. NewRecord(batch[k], k - 1).id = nextId + (k - 1)
          BY DEF NewRecord
        <4> QED BY <3>1, <4>3, <4>4, <1>1
      <3> QED BY <3>2, <3>3
    <2>2. ASSUME NEW id \in DOMAIN StoreBar
          PROVE  id \in DOMAIN StoreBar'
      <3>1. PICK s \in 1 .. L : id = records[s].id
        BY <1>3, <1>5, <2>2, IdMapFinds
      <3> QED BY <3>1, <1>6
    <2>3. ASSUME NEW id \in nextId .. (nextId + n - 1)
          PROVE  id \in DOMAIN StoreBar'
      <3>1. id - nextId + 1 \in 1 .. n /\ nextId + (id - nextId + 1) - 1 = id
        BY <1>1
      <3> QED BY <3>1, <1>7
    <2> QED BY <2>1, <2>2, <2>3
  <1>9. ASSUME NEW id \in DOMAIN StoreBar'
        PROVE  StoreBar'[id] = IF id < nextId THEN StoreBar[id]
                               ELSE Store!Entry(batch[id - nextId + 1])
    <2>1. CASE id \in DOMAIN StoreBar
      <3>1. PICK s \in 1 .. L : id = records[s].id
        BY <1>3, <1>5, <2>1, IdMapFinds
      <3> QED BY <3>1, <1>6
    <2>2. CASE id \in nextId .. (nextId + n - 1)
      <3> DEFINE k == id - nextId + 1
      <3>1. k \in 1 .. n /\ nextId + k - 1 = id /\ ~(id < nextId)
        BY <2>2, <1>1
      <3>2. StoreBar'[id] = View(NewRecord(batch[k], k - 1))
        <4> HIDE DEF k
        <4> QED BY <3>1, <1>7
      <3>3. View(NewRecord(batch[k], k - 1)) = Store!Entry(batch[k])
        BY StoreCompletes DEF View, NewRecord, Store!Entry
      <3> QED BY <3>1, <3>2, <3>3
    <2> QED
      BY <2>1, <2>2, <1>8, <1>9
  <1>10. StoreBar' = [id \in DOMAIN StoreBar' |-> StoreBar'[id]]
    BY DEF StoreBar
  <1>11. StoreBar' = [id \in DOMAIN StoreBar \cup nextId .. (nextId + n - 1) |->
                          IF id < nextId THEN StoreBar[id]
                          ELSE Store!Entry(batch[id - nextId + 1])]
    BY <1>8, <1>9, <1>10
  <1> QED
    BY <1>1, <1>2, <1>11 DEF Store!Insert, StoreBar, View

(* The slot under a key is the latest of the active ones that have it.     *)
LEMMA KeyLeadsToLatest ==
    ASSUME Inv, NEW key \in DOMAIN keyToSlot, NEW s \in ActiveSlots(records),
           KeyOf(records[s]) = key
    PROVE  s <= keyToSlot[key]
  <1> DEFINE live == ActiveSlots(records)
             f == [t \in live |-> KeyOf(records[t])]
             S == {t \in live : KeyOf(records[t]) = key}
  <1>1. keyToSlot = SlotMap(f)
    BY DEF Inv, TablesCurrent, KeyMap
  <1>2. SlotMap(f)[key] = Latest({t \in DOMAIN f : f[t] = key})
    <2> HIDE DEF f
    <2> QED BY <1>1 DEF SlotMap
  <1>3. {t \in DOMAIN f : f[t] = key} = S
    OBVIOUS
  <1>4. Len(records) \in Nat /\ S \in SUBSET (1 .. Len(records)) /\ s \in S
    BY RecordsType DEF Inv, TypeOK, ActiveSlots
  <1>5. s <= Latest(S)
    <2> HIDE DEF S
    <2> QED BY <1>4, LatestExists
  <1> QED
    <2> HIDE DEF f, S
    <2> QED BY <1>1, <1>2, <1>3, <1>5

(* The store takes the key of an entry as the index does that of its       *)
(* record.                                                                 *)
LEMMA KeyOfView == \A rec : Store!IndicatorKey(View(rec)) = KeyOf(rec)
  BY DEF Store!IndicatorKey, Store!Unnamed, Store!NameType, View, KeyOf, IndicatorKey,
         Unnamed, NameType

(* By key, the youngest active record is removed.                          *)
LEMMA RemoveKeyMaps ==
    ASSUME Inv, NEW key, RemoveKey(key)
    PROVE  Store!RemoveYoungest(key)
  <1> DEFINE slot == keyToSlot[key]
             id == records[slot].id
  <1>1. key \in DOMAIN keyToSlot /\ RemoveId(id)
    BY DEF RemoveKey
  <1>2. slot \in ActiveSlots(records) /\ slot \in DOMAIN records /\ KeyOf(records[slot]) = key
    BY <1>1, KeyLeadsToRecord DEF ActiveSlots
  <1>3. id \in DOMAIN StoreBar /\ Store!SetActive(id, FALSE)
    <2>1. id \in DOMAIN idToSlot /\ RecordOf(id).active
      BY <1>1 DEF RemoveId
    <2>2. Stamp(id, [RecordOf(id) EXCEPT !.active = FALSE])
      BY <1>1 DEF RemoveId
    <2> HIDE DEF id
    <2> QED BY <2>1, <2>2, SetActiveMaps, EntryOfRecord
  <1>4. idToSlot[id] = slot
    BY <1>2, IdMapFinds
  <1>5. StoreBar[id].active /\ Store!IndicatorKey(StoreBar[id]) = key
    <2>1. StoreBar[id] = View(records[slot]) /\ records[slot].active
      BY <1>2, <1>3, <1>4 DEF StoreBar, RecordOf, ActiveSlots
    <2>2. Store!IndicatorKey(View(records[slot])) = KeyOf(records[slot])
      BY KeyOfView
    <2>3. View(records[slot]).active = records[slot].active
      BY DEF View
    <2> HIDE DEF id, slot
    <2> QED BY <1>2, <2>1, <2>2, <2>3
  <1>6. ASSUME NEW other \in DOMAIN StoreBar, StoreBar[other].active,
               Store!IndicatorKey(StoreBar[other]) = key
        PROVE  other <= id
    <2> DEFINE t == idToSlot[other]
    <2>1. other \in DOMAIN idToSlot /\ StoreBar[other] = View(records[t])
      BY DEF StoreBar, RecordOf
    <2>2. t \in DOMAIN records /\ records[t].id = other
      BY <2>1, IdLeadsToRecord DEF Inv
    <2>3. t \in ActiveSlots(records) /\ KeyOf(records[t]) = key
      BY <1>6, <2>1, <2>2, KeyOfView DEF View, ActiveSlots
    <2>4. t <= slot
      <3> HIDE DEF t, slot
      <3> QED BY <1>1, <2>3, KeyLeadsToLatest DEF slot
    <2>5. /\ DOMAIN records = 1 .. Len(records) /\ Len(records) \in Nat
          /\ records[t].id \in Ids /\ records[slot].id \in Ids
      BY <1>2, <2>2, RecordsType DEF Inv, TypeOK
    <2>6. t = slot \/ t < slot
      BY <1>2, <2>2, <2>4, <2>5
    <2> QED
      BY <1>2, <2>2, <2>5, <2>6 DEF Inv, IdsResolve, Ids
  <1> HIDE DEF id, slot
  <1>7. /\ id \in {i \in DOMAIN StoreBar : StoreBar[i].active}
        /\ Store!IndicatorKey(StoreBar[id]) = key
        /\ \A other \in {i \in DOMAIN StoreBar : StoreBar[i].active} :
              Store!IndicatorKey(StoreBar[other]) = key => other <= id
    BY <1>3, <1>5, <1>6
  <1> QED
    BY <1>3, <1>7 DEF Store!RemoveYoungest, Store!ActiveIds, StoreBar, View

-----------------------------------------------------------------------------
(* The index starts as an empty store, and every step is one of the store  *)
(* or changes nothing that it shows.                                       *)
LEMMA InitMaps == Init => Store!Init
  <1> SUFFICES ASSUME Init PROVE Store!Init
    OBVIOUS
  <1>1. DOMAIN idToSlot = {} /\ nextId = 1
    BY DEF Init
  <1>2. StoreBar = << >>
    BY <1>1 DEF StoreBar
  <1> QED
    BY <1>1, <1>2 DEF Store!Init, StoreBar, View

StoreStep == Store!Next \/ UNCHANGED Store!storeVars

LEMMA StoreNext ==
    ASSUME Inv, Inv', [Next]_vars
    PROVE  StoreStep
  <1>1. ASSUME NEW n \in 1 .. MaxBatch, NEW batch \in [1 .. n -> Inputs], AddSet(batch)
        PROVE  StoreStep
    BY <1>1, AddSetMaps DEF StoreStep, Store!Next
  <1>2. ASSUME NEW id, NEW active \in BOOLEAN, id \in DOMAIN StoreBar,
               Store!SetActive(id, active)
        PROVE  StoreStep
    BY <1>2 DEF StoreStep, Store!Next, StoreBar, View
  <1>3. ASSUME NEW id, RemoveId(id)
        PROVE  StoreStep
    <2>1. id \in DOMAIN idToSlot /\ RecordOf(id).active
          /\ Stamp(id, [RecordOf(id) EXCEPT !.active = FALSE])
      BY <1>3 DEF RemoveId
    <2> QED BY <2>1, <1>2, SetActiveMaps, EntryOfRecord
  <1>4. ASSUME NEW id, ReactivateId(id)
        PROVE  StoreStep
    <2>1. id \in DOMAIN idToSlot /\ ~RecordOf(id).active
          /\ Stamp(id, [RecordOf(id) EXCEPT !.active = TRUE])
      BY <1>4 DEF ReactivateId
    <2>2. RecordOf(id).active # TRUE
      BY <2>1
    <2> QED BY <2>1, <2>2, <1>2, SetActiveMaps, EntryOfRecord
  <1>5. ASSUME NEW id, NEW role \in Roles, UpdateRole(id, role)
        PROVE  StoreStep
    <2>1. id \in DOMAIN StoreBar /\ Store!Relabel(id, role)
      BY <1>5, RelabelMaps
    <2> QED BY <2>1 DEF StoreStep, Store!Next, StoreBar, View
  <1>6. ASSUME NEW key, RemoveKey(key)
        PROVE  StoreStep
    BY <1>3, <1>6 DEF RemoveKey
  <1>7. CASE Rebuild
    BY <1>7, RebuildMaps DEF StoreStep
  <1>8. CASE Compact
    BY <1>8, CompactMaps DEF StoreStep, Store!Next
  <1>9. CASE UNCHANGED vars
    BY <1>9 DEF StoreStep, vars, Store!storeVars, RecordOf
  <1> QED
    BY <1>1, <1>3, <1>4, <1>5, <1>6, <1>7, <1>8, <1>9 DEF Next

(* The index implements the store.                                         *)
THEOREM IndexImplementsStore == Spec => ImplementsStore
  <1>1. Init => Store!Init
    BY InitMaps
  <1>2. Inv /\ Inv' /\ [Next]_vars => [Store!Next]_(Store!storeVars)
    BY StoreNext DEF StoreStep
  <1> QED
    BY <1>1, <1>2, Invariance, PTL DEF Spec, Store!Spec, ImplementsStore

(* Each operation is the operation of the store that its name says.        *)
THEOREM OperationsAlwaysImplement == Spec => OperationsImplement
  <1>1. Inv /\ Inv' /\ [Next]_vars =>
           [/\ \A key \in Keys : RemoveKey(key) => Store!RemoveYoungest(key)
            /\ Compact => Store!Purge
            /\ Rebuild => UNCHANGED Store!storeVars]_vars
    BY RemoveKeyMaps, CompactMaps, RebuildMaps
  <1> QED
    BY <1>1, Invariance, PTL DEF Spec, OperationsImplement

(* No step of the store changes the value under an id, or gives an entry   *)
(* to an id that was issued and has none.                                  *)
LEMMA StoreKeepsValues ==
    ASSUME Inv, StoreStep
    PROVE  /\ \A id \in DOMAIN StoreBar \cap DOMAIN StoreBar' :
                 StoreBar'[id].value = StoreBar[id].value
           /\ \A id \in 1 .. nextId - 1 :
                 id \notin DOMAIN StoreBar => id \notin DOMAIN StoreBar'
  <1> DEFINE Kept ==
           /\ \A id \in DOMAIN StoreBar \cap DOMAIN StoreBar' :
                 StoreBar'[id].value = StoreBar[id].value
           /\ \A id \in 1 .. nextId - 1 :
                 id \notin DOMAIN StoreBar => id \notin DOMAIN StoreBar'
  <1> USE StoreType DEF Entries
  <1>1. nextId \in Nat /\ \A id \in DOMAIN StoreBar : id < nextId
    <2>1. \A s \in DOMAIN records : records[s].id < nextId
      BY DEF Inv, IdsResolve
    <2>2. DOMAIN StoreBar = {records[s].id : s \in DOMAIN records}
      BY IdMapFinds DEF StoreBar
    <2> QED BY <2>1, <2>2 DEF Inv, TypeOK
  <1>2. ASSUME NEW batch, Store!Insert(batch), Len(batch) \in Nat PROVE Kept
    <2>1. StoreBar' = [id \in DOMAIN StoreBar \cup nextId .. nextId + Len(batch) - 1 |->
                          IF id < nextId THEN StoreBar[id]
                          ELSE Store!Entry(batch[id - nextId + 1])]
      BY <1>2 DEF Store!Insert, StoreBar, View
    <2> QED BY <1>1, <1>2, <2>1
  <1>3. ASSUME NEW id \in DOMAIN StoreBar, NEW active, Store!SetActive(id, active)
        PROVE  Kept
    <2>1. StoreBar' = [StoreBar EXCEPT ![id].active = active]
      BY <1>3 DEF Store!SetActive, StoreBar, View
    <2> QED BY <2>1
  <1>4. ASSUME NEW id \in DOMAIN StoreBar, NEW role, Store!Relabel(id, role)
        PROVE  Kept
    <2>1. StoreBar' = [StoreBar EXCEPT ![id].role = role]
      BY <1>4 DEF Store!Relabel, StoreBar, View
    <2> QED BY <2>1
  <1>5. ASSUME NEW key, Store!RemoveYoungest(key)
        PROVE  Kept
    <2>1. PICK id \in DOMAIN StoreBar : Store!SetActive(id, FALSE)
      BY <1>5 DEF Store!RemoveYoungest, Store!ActiveIds, StoreBar, View
    <2> QED BY <2>1, <1>3
  <1>6. ASSUME Store!Purge PROVE Kept
    <2>1. StoreBar' = [id \in {i \in DOMAIN StoreBar : StoreBar[i].active} |-> StoreBar[id]]
      BY <1>6 DEF Store!Purge, Store!ActiveIds, StoreBar, View
    <2> QED BY <2>1
  <1>7. ASSUME UNCHANGED Store!storeVars PROVE Kept
    <2>1. StoreBar' = StoreBar
      BY <1>7 DEF Store!storeVars, StoreBar, View
    <2> QED BY <2>1
  <1>8. StoreStep => \/ \E batch : Store!Insert(batch) /\ Len(batch) \in Nat
                     \/ \E id \in DOMAIN StoreBar, active \in BOOLEAN : Store!SetActive(id, active)
                     \/ \E id \in DOMAIN StoreBar, role \in Roles : Store!Relabel(id, role)
                     \/ \E key : Store!RemoveYoungest(key)
                     \/ Store!Purge
                     \/ UNCHANGED Store!storeVars
    <2>1. \A n \in 1 .. MaxBatch : \A batch \in [1 .. n -> Inputs] : Len(batch) \in Nat
      BY CountersAssumption
    <2> QED BY <2>1 DEF StoreStep, Store!Next, StoreBar, View
  <1> HIDE DEF Kept
  <1>9. Kept
    BY <1>2, <1>3, <1>4, <1>5, <1>6, <1>7, <1>8
  <1> QED
    BY <1>9 DEF Kept

(* An id leads to the indicator it was issued for, or nowhere for good.    *)
THEOREM IdsAlwaysStable == Spec => IdsStable
  <1> DEFINE Stable ==
         /\ \A id \in DOMAIN idToSlot \cap DOMAIN idToSlot' :
               /\ idToSlot'[id] \in DOMAIN records'
               /\ records'[idToSlot'[id]].value = RecordOf(id).value
         /\ \A id \in 1 .. nextId - 1 :
               id \notin DOMAIN idToSlot => id \notin DOMAIN idToSlot'
  <1>1. ASSUME Inv, Inv', [Next]_vars PROVE Stable
    <2>1. /\ \A id \in DOMAIN StoreBar \cap DOMAIN StoreBar' :
                StoreBar'[id].value = StoreBar[id].value
          /\ \A id \in 1 .. nextId - 1 :
                id \notin DOMAIN StoreBar => id \notin DOMAIN StoreBar'
      BY <1>1, StoreNext, StoreKeepsValues
    <2>2. /\ DOMAIN StoreBar = DOMAIN idToSlot
          /\ \A id \in DOMAIN StoreBar : StoreBar[id].value = RecordOf(id).value
          /\ DOMAIN StoreBar' = DOMAIN idToSlot'
          /\ \A id \in DOMAIN StoreBar' : StoreBar'[id].value = records'[idToSlot'[id]].value
      BY DEF StoreBar, View, RecordOf
    <2>3. \A id \in DOMAIN idToSlot' : idToSlot'[id] \in DOMAIN records'
      BY <1>1, IdMapFindsNext
    <2> QED
      BY <2>1, <2>2, <2>3
  <1>2. Inv /\ Inv' /\ [Next]_vars => [Stable]_vars
    BY <1>1
  <1> QED
    BY <1>2, Invariance, PTL DEF Spec, IdsStable
=============================================================================
