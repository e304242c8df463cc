--------------------------- MODULE IndicatorStore ---------------------------
(***************************************************************************)
(* What IndicatorIndex promises its callers, without slots or tables: a    *)
(* store of indicators by id.  Nothing here stands for a line of the code; *)
(* IndicatorIndex is shown to implement it.                                *)
(***************************************************************************)
EXTENDS Indicators

CONSTANTS Inputs, MaxId, MaxBatch

VARIABLES store,       \* id -> [value, role, blank, active]
          next         \* the id to be issued next

storeVars == <<store, next>>

Entry(ind) ==
    [value |-> Completed(ind), role |-> ind.role, blank |-> ind.blank, active |-> TRUE]

ActiveIds == {id \in DOMAIN store : store[id].active}

Init == store = << >> /\ next = 1

Insert(batch) ==
    /\ next + Len(batch) - 1 <= MaxId
    /\ store' = [id \in DOMAIN store \cup next .. next + Len(batch) - 1 |->
                    IF id < next THEN store[id] ELSE Entry(batch[id - next + 1])]
    /\ next' = next + Len(batch)

SetActive(id, active) ==
    /\ store[id].active # active
    /\ store' = [store EXCEPT ![id].active = active]
    /\ UNCHANGED next

Relabel(id, role) ==
    /\ store' = [store EXCEPT ![id].role = role]
    /\ UNCHANGED next

(* By key, the youngest active record that has the key is removed.         *)
RemoveYoungest(key) ==
    \E id \in ActiveIds :
        /\ IndicatorKey(store[id]) = key
        /\ \A other \in ActiveIds : IndicatorKey(store[other]) = key => other <= id
        /\ SetActive(id, FALSE)

Purge ==
    /\ store' = [id \in ActiveIds |-> store[id]]
    /\ UNCHANGED next

Next ==
    \/ \E n \in 1 .. MaxBatch : \E batch \in [1 .. n -> Inputs] : Insert(batch)
    \/ \E id \in DOMAIN store, active \in BOOLEAN : SetActive(id, active)
    \/ \E id \in DOMAIN store, role \in Roles : Relabel(id, role)
    \/ \E id \in DOMAIN store : RemoveYoungest(IndicatorKey(store[id]))
    \/ Purge

Spec == Init /\ [][Next]_storeVars
=============================================================================
