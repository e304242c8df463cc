------------------------------- MODULE RuleSet -------------------------------
(***************************************************************************)
(* The managed rule set: class RuleSetManager in                           *)
(* src/include/rules/rule_set_manager.hpp and                              *)
(* src/src/rules/rule_set_manager.cpp.                                     *)
(*                                                                         *)
(* Rules are numbered from 1 here.  The posting vectors of the two indexes *)
(* ascend, so they are kept as sets of rule numbers.  The diagnostics are  *)
(* kept as the set of warnings ever reported, without severity and line.   *)
(*                                                                         *)
(* The definitions whose comment begins with "Fault" are slips that the    *)
(* properties must notice.  No action uses them.                           *)
(***************************************************************************)
EXTENDS Rules

CONSTANTS Lines,           \* the lines of text that callers add,
          Objects,         \* and the rules that they pass as objects
          Packets,         \* the packets that are matched
          MaxRules,        \* bound on the number of rules
          MaxLines,        \* bound on the lines of one file
          MaxGeneration    \* bound on the generation: 2^64 - 1

ASSUME BoundsAssumption ==
    /\ MaxRules \in Nat
    /\ MaxLines \in Nat
    /\ MaxGeneration \in Nat

GoodLines == {line \in Lines : line.kind = "rule"}
RuleValues == {ParsedRule(line) : line \in GoodLines} \cup Objects

Port   == 0 .. 65535
Packet == [ipv4 : BOOLEAN, transport : {"tcp", "udp", "icmp", "other"},
           source : Addresses, source_port : Port,
           destination : Addresses, destination_port : Port,
           dns : BOOLEAN, texts : SUBSET Seq(STRING)]

ASSUME PacketsAssumption == Packets \subseteq Packet
ASSUME RulesAssumption ==
    \A r \in RuleValues : r.sid \in 0 .. MaxU32 /\ r.rev \in 0 .. MaxU32

VARIABLES rules, sidIndex, classtypeIndex, diagnostics, generation

vars == <<rules, sidIndex, classtypeIndex, diagnostics, generation>>

-----------------------------------------------------------------------------
(* Indexes.                                                                *)

SidIndex(rs) ==
    [sid \in {r.sid : r \in Range(rs)} \ {0} |-> {i \in DOMAIN rs : rs[i].sid = sid}]

ClasstypeIndex(rs) ==
    [class \in {r.classtype : r \in Range(rs)} \ {""} |->
        {i \in DOMAIN rs : rs[i].classtype = class}]

RebuildIndexesOf(rs) ==
    /\ sidIndex' = SidIndex(rs)
    /\ classtypeIndex' = ClasstypeIndex(rs)

(* Fault: the generation is left as it is.                                 *)
TouchIndexesOnly(rs) ==
    /\ rules' = rs
    /\ RebuildIndexesOf(rs)
    /\ UNCHANGED generation

(* The rules become these, and touch() follows.                            *)
Touch(rs) ==
    /\ rules' = rs
    /\ generation < MaxGeneration
    /\ generation' = generation + 1
    /\ RebuildIndexesOf(rs)

(* note_validation of each of these rules.                                 *)
Validations(rs) ==
    UNION {{Warning("ruleset.validate", w, 0) : w \in ValidateRule(r)} : r \in Range(rs)}

Note(warnings) == diagnostics' = diagnostics \cup warnings

(* A call that fails leaves a warning and nothing else.                    *)
Refuse(code, message) ==
    /\ Note({Warning(code, message, 0)})
    /\ UNCHANGED <<rules, sidIndex, classtypeIndex, generation>>

-----------------------------------------------------------------------------
Init ==
    /\ rules = << >>
    /\ sidIndex = << >> /\ classtypeIndex = << >>
    /\ diagnostics = {}
    /\ generation = 0

AddRule(rule) ==
    /\ Len(rules) < MaxRules
    /\ Note(Validations(<<rule>>))
    /\ Touch(Append(rules, rule))

(* A blank line is no rule to add_rule_text.                               *)
AddRuleText(line) ==
    \/ line.kind = "rule" /\ AddRule(ParsedRule(line))
    \/ line.kind = "bad" /\ Refuse("ruleset.parse", line.reason)
    \/ line.kind = "blank" /\ Refuse("ruleset.parse", "empty rule line")

(* The warnings of the file are kept, also if it has no rule.              *)
AddRuleFileText(lines) ==
    /\ \E added \in ParsedRules(lines) :
          /\ Len(rules) + Len(added) <= MaxRules
          /\ Note(FileWarnings(lines, added) \cup Validations(added))
          /\ IF added = << >> THEN UNCHANGED <<rules, sidIndex, classtypeIndex, generation>>
             ELSE Touch(rules \o added)

(* Fault: the rule that comes in is not validated.                         *)
ReplaceRuleUnchecked(index, rule) ==
    IF index \in DOMAIN rules
    THEN Touch([rules EXCEPT ![index] = rule]) /\ UNCHANGED diagnostics
    ELSE Refuse("ruleset.replace", "replace index outside rule set")

ReplaceRule(index, rule) ==
    IF index \in DOMAIN rules
    THEN /\ Note(Validations(<<rule>>))
         /\ Touch([rules EXCEPT ![index] = rule])
    ELSE Refuse("ruleset.replace", "replace index outside rule set")

ReplaceRuleText(index, line) ==
    \/ line.kind = "rule" /\ ReplaceRule(index, ParsedRule(line))
    \/ line.kind = "bad" /\ Refuse("ruleset.replace_parse", line.reason)
    \/ line.kind = "blank" /\ Refuse("ruleset.replace_parse", "empty rule line")

(* The rules at these positions stay, and move down over the others.       *)
Keep(positions) ==
    /\ \E from \in Ascending(positions) : Touch([i \in DOMAIN from |-> rules[from[i]]])
    /\ UNCHANGED diagnostics

EraseIndex(index) ==
    IF index \in DOMAIN rules
    THEN Keep(DOMAIN rules \ {index})
    ELSE Refuse("ruleset.erase", "erase index outside rule set")

(* Fault: only the first rule of the sid goes.                             *)
EraseSidOnce(sid) ==
    /\ \E r \in Range(rules) : r.sid = sid
    /\ Keep(DOMAIN rules \ {Min({i \in DOMAIN rules : rules[i].sid = sid})})

(* Sid 0 erases the rules that have no sid.                                *)
EraseSid(sid) ==
    /\ \E r \in Range(rules) : r.sid = sid
    /\ Keep({i \in DOMAIN rules : rules[i].sid # sid})

Clear ==
    /\ rules # << >>
    /\ Touch(<< >>)
    /\ UNCHANGED diagnostics

RebuildIndexes ==
    /\ RebuildIndexesOf(rules)
    /\ UNCHANGED <<rules, diagnostics, generation>>

Sids       == {r.sid : r \in RuleValues}
Classtypes == {r.classtype : r \in RuleValues}
Positions  == 1 .. MaxRules + 1

Next ==
    \/ \E rule \in Objects : AddRule(rule)
    \/ \E line \in Lines : AddRuleText(line)
    \/ \E n \in 0 .. MaxLines : \E lines \in [1 .. n -> Lines] : AddRuleFileText(lines)
    \/ \E index \in Positions, rule \in Objects : ReplaceRule(index, rule)
    \/ \E index \in Positions, line \in Lines : ReplaceRuleText(index, line)
    \/ \E index \in Positions : EraseIndex(index)
    \/ \E sid \in Sids : EraseSid(sid)
    \/ Clear
    \/ RebuildIndexes

Spec == Init /\ [][Next]_vars

-----------------------------------------------------------------------------
(* Queries.  None is 0.                                                    *)

(* Fault: the first of the rules with the highest revision wins.           *)
FindLatestSidFirst(sid) ==
    IF sid \notin DOMAIN sidIndex THEN 0
    ELSE CHOOSE i \in sidIndex[sid] : \A j \in sidIndex[sid] :
            \/ rules[j].rev < rules[i].rev
            \/ rules[j].rev = rules[i].rev /\ i <= j

(* The number of the rule with the highest revision, the last of equals.   *)
FindLatestSid(sid) ==
    IF sid \notin DOMAIN sidIndex THEN 0
    ELSE CHOOSE i \in sidIndex[sid] : \A j \in sidIndex[sid] :
            \/ rules[j].rev < rules[i].rev
            \/ rules[j].rev = rules[i].rev /\ j <= i

FindByClasstype(class) ==
    IF class \in DOMAIN classtypeIndex THEN classtypeIndex[class] ELSE {}

(* The rules that match the packet; an alert shows number, sid, rev, msg.  *)
MatchPacket(pkt) == {i \in DOMAIN rules : RuleMatchesPacket(rules[i], pkt)}

Swapped(pkt) == [pkt EXCEPT !.source = pkt.destination, !.destination = pkt.source,
                            !.source_port = pkt.destination_port,
                            !.destination_port = pkt.source_port]

-----------------------------------------------------------------------------
(* Properties.                                                             *)

TypeOK ==
    /\ rules \in Seq(RuleValues) /\ Len(rules) <= MaxRules
    /\ DOMAIN sidIndex \subseteq Nat \ {0}
    /\ generation \in 0 .. MaxGeneration

(* The indexes are those of the rules at hand, although adding a file may  *)
(* find no rule, erasing a sid may find none, and every erasure renumbers  *)
(* the rules behind it.                                                    *)
IndexesCurrent ==
    /\ sidIndex = SidIndex(rules)
    /\ classtypeIndex = ClasstypeIndex(rules)

(* Whichever way a rule came in, all that validate_rule holds against it   *)
(* has been reported.                                                      *)
WarningsReported == Validations(rules) \subseteq diagnostics

(* find_latest_sid answers from its index with the highest revision among  *)
(* all rules of the sid, the last of equals, and with nothing only if the  *)
(* sid is 0 or there is no such rule; find_by_classtype with all rules of  *)
(* the classtype, and with none when the last of them has gone.            *)
LookupsAgree ==
    /\ \A sid \in Sids :
          LET i == FindLatestSid(sid)
          IN  IF sid # 0 /\ \E r \in Range(rules) : r.sid = sid
              THEN /\ i \in DOMAIN rules /\ rules[i].sid = sid
                   /\ \A j \in DOMAIN rules : rules[j].sid = sid =>
                          /\ rules[j].rev <= rules[i].rev
                          /\ j > i => rules[j].rev < rules[i].rev
              ELSE i = 0
    /\ \A class \in Classtypes \ {""} :
          FindByClasstype(class) = {i \in DOMAIN rules : rules[i].classtype = class}

(* Erasing a sid takes that sid out of the lookups and leaves the answers  *)
(* for all others what they were, although the rules have moved.           *)
ErasureIsLocal ==
    [][\A sid \in Sids : EraseSid(sid) =>
          /\ FindLatestSid(sid)' = 0
          /\ \A other \in Sids \ {sid} :
                LET before == FindLatestSid(other)
                    after  == FindLatestSid(other)'
                IN  IF before = 0 THEN after = 0
                    ELSE after \in DOMAIN rules' /\ rules'[after] = rules[before]]_vars

(* A rule for both directions does not tell a packet from its answer.      *)
BothDirectionsAlike ==
    \A r \in Range(rules) : r.direction = "<>" =>
        \A pkt \in Packets : RuleMatchesPacket(r, pkt) <=> RuleMatchesPacket(r, Swapped(pkt))

(* Two rules whose logic is reported as duplicate match the same packets.  *)
DuplicatesMatchAlike ==
    \A r, s \in Range(rules) : RuleKey(r) = RuleKey(s) =>
        \A pkt \in Packets : RuleMatchesPacket(r, pkt) <=> RuleMatchesPacket(s, pkt)

(* Of the rules that come with one file, any two with the same logic and   *)
(* any two revisions of one sid have left a warning.                       *)
FileConflictsWarned ==
    [][\A n \in 1 .. MaxLines : \A lines \in [1 .. n -> Lines] :
          AddRuleFileText(lines) =>
            \A i, j \in Len(rules) + 1 .. Len(rules') : i < j =>
              /\ RuleKey(rules'[i]) = RuleKey(rules'[j]) =>
                    \E w \in diagnostics' : w.code = "rule.duplicate" /\ w.number > 1
              /\ rules'[i].sid = rules'[j].sid /\ rules'[i].sid # 0
                    /\ rules'[i].rev # rules'[j].rev =>
                    Warning("rule.sid", "revisions", rules'[i].sid) \in diagnostics']_vars
=============================================================================
