------------------------------ MODULE CidrTrie ------------------------------
(***************************************************************************)
(* The array that IndicatorIndex keeps its trie of address bits in:        *)
(* cidr_trie_ of src/include/ioc/ioc.hpp and src/src/ioc/ioc.cpp.  A node  *)
(* is an index into the array, and has the indices of its two children and *)
(* the slots filed at it.  Here the nodes are numbered from 1, the root,   *)
(* and 0 stands for the -1 of a missing child.  IndicatorIndex has the     *)
(* same trie as the paths to its nodes; the two are compared here.         *)
(*                                                                         *)
(* RebuiltOver is a slip that the properties must notice.  No action uses  *)
(* it.                                                                     *)
(***************************************************************************)
EXTENDS IndicatorIndex

VARIABLE cidrTrie          \* the nodes, << >> before there is a root

trieVars == <<vars, cidrTrie>>

EmptyNode == [child |-> [bit \in Bit |-> 0], records |-> << >>]

(* One bit down, to a new node at the end of the array if there is none.   *)
Descend(walk, bit) ==
    LET child == walk.trie[walk.node].child[bit]
        new   == Len(walk.trie) + 1
    IN  IF child # 0 THEN [walk EXCEPT !.node = child]
        ELSE [trie |-> Append([walk.trie EXCEPT ![walk.node].child[bit] = new], EmptyNode),
              node |-> new]

FileRange(nodeArray, bits, slot) ==
    LET root == IF nodeArray = << >> THEN <<EmptyNode>> ELSE nodeArray
        end  == FoldLeft(Descend, [trie |-> root, node |-> 1], bits)
    IN  [end.trie EXCEPT ![end.node].records = Append(@, slot)]

IndexRecord(nodeArray, recs, slot) ==
    IF recs[slot].active /\ recs[slot].value.type \in AddressType
    THEN FileRange(nodeArray, recs[slot].value.bits, slot)
    ELSE nodeArray

(* The slots from a first one on are indexed in their order.               *)
IndexFrom(nodeArray, recs, first) ==
    FoldLeft(LAMBDA a, slot : IndexRecord(a, recs, slot), nodeArray,
             [k \in 1 .. Len(recs) - first + 1 |-> first + k - 1])

(* Fault: the array is not cleared first.                                  *)
RebuiltOver(recs) == IndexFrom(cidrTrie, recs, 1)

Rebuilt(recs) == IndexFrom(<<EmptyNode>>, recs, 1)

InitTrie == Init /\ cidrTrie = << >>

(* add files the new records in the array as it is, every other operation  *)
(* starts it anew.                                                         *)
AddToTrie ==
    \E n \in 1 .. MaxBatch : \E batch \in [1 .. n -> Inputs] :
        /\ AddSet(batch)
        /\ cidrTrie' = IndexFrom(cidrTrie, records', Len(records) + 1)

RebuildTrie ==
    /\ \/ \E id \in Ids : RemoveId(id) \/ ReactivateId(id)
       \/ \E id \in Ids, role \in Roles : UpdateRole(id, role)
       \/ \E key \in Keys : RemoveKey(key)
       \/ Rebuild
       \/ Compact
    /\ cidrTrie' = Rebuilt(records')

NextTrie == AddToTrie \/ RebuildTrie

SpecTrie == InitTrie /\ [][NextTrie]_trieVars

-----------------------------------------------------------------------------
(* Queries.                                                                *)

(* What is found at a node, behind what was found on the way to it.        *)
AppendNode(found, node) ==
    IF node = 0 THEN found
    ELSE found \o SelectSeq(cidrTrie[node].records,
                            LAMBDA slot : slot \in DOMAIN records /\ records[slot].active)

FollowBit(walk, bit) ==
    IF walk.node = 0 THEN walk
    ELSE LET next == cidrTrie[walk.node].child[bit]
         IN  [node |-> next, found |-> AppendNode(walk.found, next)]

(* lookup_ip, from the root down: the slots found, in the order of the     *)
(* answer.                                                                 *)
Walk(addr) ==
    IF cidrTrie = << >> THEN << >>
    ELSE FoldLeft(FollowBit, [node |-> 1, found |-> AppendNode(<< >>, 1)], addr).found

(* The part of validate_integrity that is about the array.                 *)
ValidateTrie ==
    \A node \in DOMAIN cidrTrie :
        /\ \A bit \in Bit : cidrTrie[node].child[bit] <= Len(cidrTrie)
        /\ \A slot \in Range(cidrTrie[node].records) :
              slot \in DOMAIN records /\ records[slot].active

-----------------------------------------------------------------------------
(* Properties.                                                             *)

(* The node at the end of a path, 0 if the trie ends before.               *)
NodeAt(path) ==
    FoldLeft(LAMBDA node, bit : IF node = 0 THEN 0 ELSE cidrTrie[node].child[bit],
             IF cidrTrie = << >> THEN 0 ELSE 1, path)

(* validate_integrity finds nothing wrong with the array, and it is a      *)
(* tree: a child comes behind its parent, and every node but the root is   *)
(* the child of exactly one.  So the walks, which test no index before     *)
(* they use it, stay in the array and end.                                 *)
ArrayIsTree ==
    LET children == {c \in (DOMAIN cidrTrie) \X Bit : cidrTrie[c[1]].child[c[2]] # 0}
    IN  /\ ValidateTrie
        /\ \A c \in children : cidrTrie[c[1]].child[c[2]] > c[1]
        /\ \A node \in (DOMAIN cidrTrie) \ {1} :
              Cardinality({c \in children : cidrTrie[c[1]].child[c[2]] = node}) = 1

(* The array holds the trie: its nodes are at the same paths, as many as   *)
(* stats() counts, and each has the slots whose ranges end there, in the   *)
(* order of the slots.  Nothing is left in it of a record that was removed *)
(* or moved.                                                               *)
ArrayHoldsTrie ==
    /\ Len(cidrTrie) = Cardinality(nodes)
    /\ \A path \in SeqOf(Bit, AddrBits) :
          /\ NodeAt(path) # 0 <=> path \in nodes
          /\ path \in nodes =>
                LET filed == cidrTrie[NodeAt(path)].records
                IN  /\ {<<path, slot>> : slot \in Range(filed)} = {e \in trie : e[1] = path}
                    /\ \A i, j \in DOMAIN filed : i < j => filed[i] < filed[j]

(* An address finds each active record whose range has it, once, and the   *)
(* wider ranges before the narrower.                                       *)
WalksExact ==
    \A addr \in Addresses :
        LET found == Walk(addr)
        IN  /\ Range(found) = {s \in ActiveSlots(records) :
                                  MatchesAddress(records[s].value, addr)}
            /\ IsInjective(found)
            /\ \A i, j \in DOMAIN found : i < j =>
                  Len(records[found[i]].value.bits) <= Len(records[found[j]].value.bits)

(* So the array, patched in place by add() and made anew by all other      *)
(* calls, is a tree, is the trie of IndicatorIndex, and is walked as       *)
(* lookup_ip should after any history of both.                             *)
ArrayExact == ArrayIsTree /\ ArrayHoldsTrie /\ WalksExact
=============================================================================
