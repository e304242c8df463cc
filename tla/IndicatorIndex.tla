--------------------------- MODULE IndicatorIndex ---------------------------
(***************************************************************************)
(* The stateful index of indicators: class IndicatorIndex in               *)
(* src/include/ioc/ioc.hpp and src/src/ioc/ioc.cpp.                        *)
(*                                                                         *)
(* Records live in slots, 1-based here.  A record is found by its id, its  *)
(* key, the domain or hash it names, or a walk down a trie of address      *)
(* bits.  add() updates these tables in place; every other mutator throws  *)
(* them away and rebuilds them from the records.  Posting lists are sets   *)
(* of <<key, slot>> pairs, a trie node is the path of bits to it.          *)
(*                                                                         *)
(* The definitions whose comment begins with "Fault" are slips that the    *)
(* properties must notice.  No action uses them.                           *)
(***************************************************************************)
EXTENDS Indicators

CONSTANTS Inputs,          \* the indicators that callers add
          GenerationMod,   \* generations are counted modulo this: 2^32
          MaxId,           \* bound on the ids issued: 2^64 - 1
          MaxBatch,        \* bound on the length of an indicator set
          Packets,         \* the packets that are matched,
          Digests          \* and the hashes that are looked up

Values == {Completed(ind) : ind \in Inputs}
Keys   == {IndicatorKey([value |-> value, role |-> role, blank |-> blank]) :
              value \in Values, role \in Roles, blank \in BOOLEAN}
Ids    == 1 .. MaxId

ASSUME InputsAssumption ==
    \A ind \in Inputs : /\ ind.role \in Roles /\ ind.blank \in BOOLEAN
                        /\ IsPayload(Completed(ind))
ASSUME CountersAssumption ==
    /\ GenerationMod \in Nat \ {0}
    /\ MaxId \in Nat
    /\ MaxBatch \in Nat
ASSUME PacketsAssumption ==
    \A pkt \in Packets : /\ \A e \in pkt.endpoints : e.addr \in Addresses
                         /\ pkt.names \subseteq Name

VARIABLES records,     \* slot -> [id, generation, active, value, role, blank]
          idToSlot,    \* id -> slot
          keyToSlot,   \* key -> slot
          domains,     \* postings of the records that name a host
          hashes,      \* postings of the records that carry a digest
          nodes,       \* the nodes of the trie, {} before it has a root
          trie,        \* postings of the records with an address range
          nextId, generation

vars == <<records, idToSlot, keyToSlot, domains, hashes, nodes, trie,
          nextId, generation>>

-----------------------------------------------------------------------------
(* What the tables hold for a sequence of records.                         *)

Record == [id : Ids, generation : 0 .. GenerationMod - 1, active : BOOLEAN,
           value : Values, role : Roles, blank : BOOLEAN]

KeyOf(rec) == IndicatorKey(rec)

ActiveSlots(recs) == {s \in DOMAIN recs : recs[s].active}

(* A map entry that is assigned in a loop over the slots keeps the last.   *)
Latest(slots) == CHOOSE s \in slots : \A t \in slots : t <= s

SlotMap(label) ==
    [l \in Range(label) |-> Latest({s \in DOMAIN label : label[s] = l})]

(* The entries of a map once those of another are assigned to it.          *)
Overridden(map, by) ==
    [l \in DOMAIN map \cup DOMAIN by |-> IF l \in DOMAIN by THEN by[l] ELSE map[l]]

IdMap(recs, slots)  == SlotMap([s \in slots |-> recs[s].id])
KeyMap(recs, slots) == SlotMap([s \in slots |-> KeyOf(recs[s])])

HasType(recs, slots, types) == {s \in slots : recs[s].value.type \in types}

DomainPostings(recs, slots) ==
    {<<NormalizeDomain(HostText(recs[s].value)), s>> :
        s \in HasType(recs, slots, NameType)}
HashPostings(recs, slots) ==
    {<<NormalizeHash(recs[s].value).digest, s>> : s \in HasType(recs, slots, {"hash"})}
TriePostings(recs, slots) ==
    {<<recs[s].value.bits, s>> : s \in HasType(recs, slots, AddressType)}
TrieNodes(recs, slots) ==
    UNION {Prefixes(recs[s].value.bits) : s \in HasType(recs, slots, AddressType)}

-----------------------------------------------------------------------------
(* rebuild_indexes: the id map is left alone.                              *)
RebuildIndexes(recs) ==
    LET live == ActiveSlots(recs)
    IN  /\ keyToSlot' = KeyMap(recs, live)
        /\ domains'   = DomainPostings(recs, live)
        /\ hashes'    = HashPostings(recs, live)
        /\ trie'      = TriePostings(recs, live)
        /\ nodes'     = {<< >>} \cup TrieNodes(recs, live)

(* Fault: a key that is added again keeps its first slot.                  *)
IndexRecordsKeepingKeys(recs, slots) ==
    /\ idToSlot'  = Overridden(idToSlot, IdMap(recs, slots))
    /\ keyToSlot' = Overridden(KeyMap(recs, slots), keyToSlot)
    /\ domains'   = domains \cup DomainPostings(recs, slots)
    /\ hashes'    = hashes \cup HashPostings(recs, slots)
    /\ trie'      = trie \cup TriePostings(recs, slots)
    /\ nodes'     = nodes \cup TrieNodes(recs, slots)

(* index_record, and the map entries that add() makes, for new slots.      *)
IndexRecords(recs, slots) ==
    /\ idToSlot'  = Overridden(idToSlot, IdMap(recs, slots))
    /\ keyToSlot' = Overridden(keyToSlot, KeyMap(recs, slots))
    /\ domains'   = domains \cup DomainPostings(recs, slots)
    /\ hashes'    = hashes \cup HashPostings(recs, slots)
    /\ trie'      = trie \cup TriePostings(recs, slots)
    /\ nodes'     = nodes \cup TrieNodes(recs, slots)

After(gen, n) == (gen + n) % GenerationMod

-----------------------------------------------------------------------------
Init ==
    /\ records = << >>
    /\ idToSlot = << >> /\ keyToSlot = << >>
    /\ domains = {} /\ hashes = {} /\ trie = {} /\ nodes = {}
    /\ nextId = 1 /\ generation = 1 % GenerationMod

(* Fault: ids are slots, and issued again after a compaction.              *)
NewRecordBySlot(ind, k) ==
    [id |-> Len(records) + 1 + k, generation |-> After(generation, k),
     active |-> TRUE, value |-> Completed(ind), role |-> ind.role, blank |-> ind.blank]

NewRecord(ind, k) ==
    [id |-> nextId + k, generation |-> After(generation, k), active |-> TRUE,
     value |-> Completed(ind), role |-> ind.role, blank |-> ind.blank]

(* add is add_set of one indicator.                                        *)
AddSet(batch) ==
    LET count == Len(batch)
        new   == records \o [k \in 1 .. count |-> NewRecord(batch[k], k - 1)]
    IN  /\ nextId + count - 1 <= MaxId
        /\ records' = new
        /\ nextId' = nextId + count
        /\ generation' = After(generation, count)
        /\ IndexRecords(new, (Len(records) + 1) .. Len(new))

Add(ind) == AddSet(<<ind>>)

RecordOf(id) == records[idToSlot[id]]

(* The record under an id is replaced, and stamped with the generation     *)
(* that ends.                                                              *)
Stamp(id, rec) ==
    LET new == [records EXCEPT ![idToSlot[id]] = [rec EXCEPT !.generation = generation]]
    IN  /\ records' = new
        /\ generation' = After(generation, 1)
        /\ RebuildIndexes(new)
        /\ UNCHANGED <<idToSlot, nextId>>

(* An unknown id, a removed record that is removed again and an active one *)
(* that is reactivated are refused and change nothing.                     *)
RemoveId(id) ==
    /\ id \in DOMAIN idToSlot
    /\ RecordOf(id).active
    /\ Stamp(id, [RecordOf(id) EXCEPT !.active = FALSE])

(* Fault: the oldest of the records with the key goes first.               *)
RemoveKeyOldest(key) ==
    \E s \in ActiveSlots(records) :
        /\ KeyOf(records[s]) = key
        /\ \A t \in ActiveSlots(records) : KeyOf(records[t]) = key => s <= t
        /\ RemoveId(records[s].id)

RemoveKey(key) ==
    /\ key \in DOMAIN keyToSlot
    /\ RemoveId(records[keyToSlot[key]].id)

ReactivateId(id) ==
    /\ id \in DOMAIN idToSlot
    /\ ~RecordOf(id).active
    /\ Stamp(id, [RecordOf(id) EXCEPT !.active = TRUE])

(* Also of an inactive record, and also to a key another record has.       *)
UpdateRole(id, role) ==
    /\ id \in DOMAIN idToSlot
    /\ Stamp(id, [RecordOf(id) EXCEPT !.role = role])

(* Fault: the id map is not made anew when records move.                   *)
RebuildFromKeepingIds(recs) ==
    /\ records' = recs
    /\ RebuildIndexes(recs)
    /\ generation' = After(generation, 1)
    /\ UNCHANGED <<idToSlot, nextId>>

RebuildFrom(recs) ==
    /\ records' = recs
    /\ idToSlot' = IdMap(recs, DOMAIN recs)
    /\ RebuildIndexes(recs)
    /\ generation' = After(generation, 1)
    /\ UNCHANGED nextId

Rebuild == RebuildFrom(records)

(* The active records move down over the inactive ones, in their order.    *)
Compact ==
    LET live == ActiveSlots(records)
    IN  \E from \in [1 .. Cardinality(live) -> live] :
            /\ \A i, j \in DOMAIN from : i < j => from[i] < from[j]
            /\ RebuildFrom([i \in DOMAIN from |-> records[from[i]]])

Next ==
    \/ \E n \in 1 .. MaxBatch : \E batch \in [1 .. n -> Inputs] : AddSet(batch)
    \/ \E id \in Ids : RemoveId(id) \/ ReactivateId(id)
    \/ \E id \in Ids, role \in Roles : UpdateRole(id, role)
    \/ \E key \in Keys : RemoveKey(key)
    \/ Rebuild
    \/ Compact

Spec == Init /\ [][Next]_vars

-----------------------------------------------------------------------------
(* Queries.  A lookup drops the slots that do not hold an active record.   *)

Found(slots) == {s \in slots : s \in DOMAIN records /\ records[s].active}

ContainsKey(key) == key \in DOMAIN keyToSlot /\ records[keyToSlot[key]].active

(* Fault: only the longest range that contains the address is reported.    *)
LookupIpDeepest(addr) ==
    LET visited == {p \in Prefixes(addr) : Prefixes(p) \subseteq nodes}
        deepest == {p \in visited : \A q \in visited : Len(q) <= Len(p)}
    IN  Found({e[2] : e \in {t \in trie : t[1] \in deepest}})

(* The walk ends at the first node without a child on the address's path.  *)
LookupIp(addr) ==
    LET visited == {p \in Prefixes(addr) : Prefixes(p) \subseteq nodes}
    IN  Found({e[2] : e \in {t \in trie : t[1] \in visited}})

(* Fault: the name itself is found, the names below it are not.            *)
LookupDomainEqual(name) ==
    Found({e[2] : e \in {d \in domains : d[1] = NormalizeDomain(name)}})

LookupDomain(name) ==
    LET observed == NormalizeDomain(name)
    IN  Found({e[2] : e \in {d \in domains : DomainMatches(d[1], observed)}})

LookupHash(hash) ==
    Found({e[2] : e \in {h \in hashes : h[1] = NormalizeHash(hash).digest}})

Matched(slots, field, value) ==
    {[indicator |-> [value |-> records[s].value, role |-> records[s].role],
      field |-> field, value |-> value] : s \in slots}

(* Fault: an allow indicator suppresses matches on other fields too.       *)
MatchIndexedAnyField(pkt) ==
    LET found == (UNION {Matched(LookupIp(e.addr), e.field, e.addr) : e \in pkt.endpoints})
                 \cup (UNION {Matched(LookupDomain(n), "dns.name", NormalizeDomain(n)) :
                                 n \in pkt.names})
    IN  {m \in found : \/ m.indicator.role = "allow"
                       \/ \A a \in found : a.indicator.role # "allow"}

MatchIndexed(pkt) ==
    AllowFilter(
        (UNION {Matched(LookupIp(e.addr), e.field, e.addr) : e \in pkt.endpoints})
        \cup (UNION {Matched(LookupDomain(n), "dns.name", NormalizeDomain(n)) :
                        n \in pkt.names}))

(* The part of validate_integrity about the array of the trie's nodes is    *)
(* ValidateTrie, in CidrTrie.                                              *)
ValidateIntegrity ==
    /\ \A id \in DOMAIN idToSlot :
          idToSlot[id] \in DOMAIN records /\ records[idToSlot[id]].id = id
    /\ \A key \in DOMAIN keyToSlot :
          keyToSlot[key] \in DOMAIN records /\ records[keyToSlot[key]].active
    /\ \A e \in trie : e[2] \in DOMAIN records /\ records[e[2]].active

-----------------------------------------------------------------------------
(* Properties.                                                             *)

TypeOK ==
    /\ records \in Seq(Record)
    /\ DOMAIN idToSlot \subseteq Ids
    /\ DOMAIN keyToSlot \subseteq Keys
    /\ nextId \in 1 .. MaxId + 1
    /\ generation \in 0 .. GenerationMod - 1

(* Ids are handed out in the order of the slots and never beyond next_id_, *)
(* and the id map finds every record under its own id: add, rebuild and    *)
(* compact are the only writers of the map.                                *)
IdsResolve ==
    /\ \A s, t \in DOMAIN records : s < t => records[s].id < records[t].id
    /\ \A s \in DOMAIN records : records[s].id < nextId
    /\ idToSlot = IdMap(records, DOMAIN records)

(* The tables that add has updated in place are those that a rebuild from  *)
(* the records would make, whatever was removed, reactivated, relabelled   *)
(* or compacted in between.  Only the bare root of an empty trie may lack. *)
TablesCurrent ==
    LET live == ActiveSlots(records)
    IN  /\ keyToSlot = KeyMap(records, live)
        /\ domains = DomainPostings(records, live)
        /\ hashes = HashPostings(records, live)
        /\ trie = TriePostings(records, live)
        /\ nodes \in {TrieNodes(records, live), {<< >>} \cup TrieNodes(records, live)}

(* validate_integrity, which ioc_tests expects to hold after a rebuild,    *)
(* finds nothing to report.                                                *)
IntegrityHolds == ValidateIntegrity

(* What the index answers is what a scan of the active records answers:    *)
(* an address, a hash and a key are found exactly when an active record    *)
(* has them.                                                               *)
LookupsExact ==
    LET live == ActiveSlots(records)
    IN  /\ \A addr \in Addresses :
              LookupIp(addr) = {s \in live : MatchesAddress(records[s].value, addr)}
        /\ \A h \in Digests :
              LookupHash(h) =
                {s \in HasType(records, live, {"hash"}) :
                    NormalizeHash(records[s].value).digest = NormalizeHash(h).digest}
        /\ \A key \in Keys :
              ContainsKey(key) <=> \E s \in live : KeyOf(records[s]) = key

(* match_packet of the index and match_packet of the set of the active     *)
(* indicators report the same matches, allow list applied, as long as the  *)
(* hosts of the indicators are in normal form.                             *)
IndexAgreesWithScan ==
    LET live == {[value |-> records[s].value, role |-> records[s].role] :
                    s \in ActiveSlots(records)}
    IN  (\A i \in live : HasNormalHost(i.value))
            => \A pkt \in Packets : MatchIndexed(pkt) = MatchPacket(live, pkt)

(* A caller that keeps an id finds the indicator it added or nothing: a    *)
(* compaction moves records to other slots but no id changes hands, and    *)
(* one that was dropped does not come back.                                *)
IdsStable ==
    [][/\ \A id \in DOMAIN idToSlot \cap DOMAIN idToSlot' :
             /\ idToSlot'[id] \in DOMAIN records'
             /\ records'[idToSlot'[id]].value = RecordOf(id).value
       /\ \A id \in 1 .. nextId - 1 :
             id \notin DOMAIN idToSlot => id \notin DOMAIN idToSlot']_vars

-----------------------------------------------------------------------------
(* The index implements the store: the entries are the records by id.      *)
Store == INSTANCE IndicatorStore WITH
    store <- [id \in DOMAIN idToSlot |->
                LET rec == RecordOf(id)
                IN  [value |-> rec.value, role |-> rec.role, blank |-> rec.blank,
                     active |-> rec.active]],
    next <- nextId

(* Seen from outside, the index is a store of indicators by id.            *)
ImplementsStore == Store!Spec

(* Each operation is the operation of the store that its name says.  For a *)
(* key that several records have, remove_key takes the youngest active one *)
(* and only that one; a compaction loses inactive records, a rebuild none. *)
OperationsImplement ==
    [][/\ \A key \in Keys : RemoveKey(key) => Store!RemoveYoungest(key)
       /\ Compact => Store!Purge
       /\ Rebuild => UNCHANGED Store!storeVars]_vars
=============================================================================
