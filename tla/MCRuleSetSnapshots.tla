------------------------- MODULE MCRuleSetSnapshots -------------------------
(* RuleSetSnapshots with the rules of MCRuleSet.                            *)
EXTENDS MCRuleSet, RuleSetSnapshots
=============================================================================
