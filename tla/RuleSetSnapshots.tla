-------------------------- MODULE RuleSetSnapshots --------------------------
(***************************************************************************)
(* A rule set and a caller that takes snapshots of it: RuleSetManager::    *)
(* snapshot() in src/src/rules/rule_set_manager.cpp.  "held" is the        *)
(* snapshot that the caller took last, at any time, and still uses.        *)
(***************************************************************************)
EXTENDS RuleSet

VARIABLE held

Snapshot == [rules |-> rules, sidIndex |-> sidIndex, classtypeIndex |-> classtypeIndex,
             generation |-> generation, warnings |-> diagnostics]

InitHeld == Init /\ held = Snapshot

TakeSnapshot == held' = Snapshot /\ UNCHANGED vars

NextHeld == (Next /\ UNCHANGED held) \/ TakeSnapshot

SpecHeld == InitHeld /\ [][NextHeld]_<<vars, held>>

(* A caller that finds the generation unchanged since its snapshot may use *)
(* the snapshot in place of the rule set; the generation does not go back, *)
(* and no warning is ever dropped, not even by clear().                    *)
SnapshotHonest ==
    /\ held.generation <= generation
    /\ held.generation = generation =>
          /\ held.rules = rules
          /\ held.sidIndex = sidIndex
          /\ held.classtypeIndex = classtypeIndex
    /\ held.warnings \subseteq diagnostics
=============================================================================
