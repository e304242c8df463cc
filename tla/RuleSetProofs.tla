---------------------------- MODULE RuleSetProofs ----------------------------
(***************************************************************************)
(* Theorems about RuleSet and RuleSetSnapshots, for all rules and bounds.  *)
(***************************************************************************)
EXTENDS RuleSetSnapshots, WellFoundedInduction, FiniteSetTheorems, SequenceTheorems, TLAPS

-----------------------------------------------------------------------------
(* A nonempty set of bounded numbers has a greatest.                       *)
LEMMA GreatestExists ==
    ASSUME NEW n \in Nat, NEW S \in SUBSET (0 .. n), S # {}
    PROVE  \E g \in S : \A s \in S : s <= g
  <1> DEFINE below == {n - s : s \in S}
             less  == OpToRel(<, Nat)
  <1>1. below \subseteq Nat /\ below # {}
    <2>1. ASSUME NEW s \in S PROVE n - s \in Nat
      <3>1. s \in Int /\ s <= n
        OBVIOUS
      <3> QED
        BY <3>1
    <2> QED
      BY <2>1
  <1>2. \E m \in below : \A k \in below : ~(<<k, m>> \in less)
    <2> HIDE DEF below, less
    <2>1. IsWellFoundedOn(less, Nat)
      BY NatLessThanWellFounded DEF less
    <2> QED
      BY <1>1, <2>1, WFMin
  <1>3. PICK m \in below : \A k \in below : ~(<<k, m>> \in less)
    BY <1>2
  <1>4. ASSUME NEW k \in below PROVE m <= k
    <2> HIDE DEF below, less
    <2>1. m \in Nat /\ k \in Nat
      BY <1>1
    <2>2. less = {e \in Nat \X Nat : e[1] < e[2]}
      BY DEF OpToRel, less
    <2>3. k < m => <<k, m>> \in less
      BY <2>1, <2>2
    <2> QED
      BY <1>3, <2>1, <2>3
  <1>5. PICK g \in S : m = n - g
    OBVIOUS
  <1>6. ASSUME NEW s \in S PROVE s <= g
    <2>1. n - g <= n - s
      BY <1>4, <1>5
    <2>2. n \in Int /\ s \in Int /\ g \in Int
      OBVIOUS
    <2> QED
      BY <2>1, <2>2
  <1> QED
    BY <1>6

-----------------------------------------------------------------------------
(* The rules that come in are rules, and so are those that stay.           *)

LEMMA ParsedRulesType ==
    ASSUME NEW n \in Nat, NEW lines \in [1 .. n -> Lines], NEW added \in ParsedRules(lines)
    PROVE  added \in Seq(RuleValues)
  <1> DEFINE at == {k \in DOMAIN lines : lines[k].kind = "rule"}
  <1>1. PICK from \in Ascending(at) : added = [i \in DOMAIN from |-> ParsedRule(lines[from[i]])]
    BY DEF ParsedRules
  <1>2. from \in [1 .. Cardinality(at) -> at]
    BY DEF Ascending
  <1>3. \A k \in at : ParsedRule(lines[k]) \in RuleValues
    BY DEF RuleValues, GoodLines
  <1>4. IsFiniteSet(1 .. n) /\ at \subseteq 1 .. n
    BY FS_Interval
  <1>5. Cardinality(at) \in Nat
    <2> HIDE DEF at
    <2> QED
      BY <1>4, FS_Subset, FS_CardinalityType
  <1> HIDE DEF at
  <1>6. DOMAIN from = 1 .. Cardinality(at)
    BY <1>2
  <1>7. \A i \in DOMAIN from : ParsedRule(lines[from[i]]) \in RuleValues
    BY <1>2, <1>3
  <1>8. [i \in 1 .. Cardinality(at) |-> ParsedRule(lines[from[i]])] \in Seq(RuleValues)
    BY <1>5, <1>6, <1>7
  <1> QED
    BY <1>1, <1>6, <1>8, Zenon

LEMMA KeptType ==
    ASSUME NEW s \in Seq(RuleValues), NEW positions \in SUBSET DOMAIN s,
           NEW from \in Ascending(positions)
    PROVE  /\ [i \in DOMAIN from |-> s[from[i]]] \in Seq(RuleValues)
           /\ Len([i \in DOMAIN from |-> s[from[i]]]) <= Len(s)
           /\ Range([i \in DOMAIN from |-> s[from[i]]]) \subseteq Range(s)
  <1> DEFINE new == [i \in DOMAIN from |-> s[from[i]]]
  <1>1. IsFiniteSet(DOMAIN s) /\ Cardinality(DOMAIN s) = Len(s)
    <2>1. DOMAIN s = 1 .. Len(s) /\ Len(s) \in Nat
      OBVIOUS
    <2>2. \A n \in Nat : IsFiniteSet(1 .. n) /\ Cardinality(1 .. n) = n
      BY FS_Interval
    <2> QED
      BY <2>1, <2>2
  <1>2. Cardinality(positions) \in Nat /\ Cardinality(positions) <= Len(s)
    BY <1>1, FS_Subset, FS_CardinalityType
  <1>3. from \in [1 .. Cardinality(positions) -> positions]
    BY DEF Ascending
  <1>4. \A i \in DOMAIN from : from[i] \in DOMAIN s /\ s[from[i]] \in RuleValues
    BY <1>3
  <1>5. new \in Seq(RuleValues) /\ Len(new) = Cardinality(positions)
    BY <1>2, <1>3, <1>4
  <1> QED
    BY <1>2, <1>4, <1>5 DEF Range

-----------------------------------------------------------------------------
(* The inductive invariant: the types, and what the operations rely on.    *)

Inv == TypeOK /\ IndexesCurrent /\ WarningsReported

(* Every change to the rules goes through touch().                         *)
LEMMA TouchInv ==
    ASSUME TypeOK, NEW rs \in Seq(RuleValues), Len(rs) <= MaxRules, Touch(rs),
           Validations(rs) \subseteq diagnostics'
    PROVE  Inv'
  <1>1. rules' = rs /\ generation' = generation + 1 /\ generation < MaxGeneration
    BY DEF Touch
  <1>2. sidIndex' = SidIndex(rs) /\ classtypeIndex' = ClasstypeIndex(rs)
    BY DEF Touch, RebuildIndexesOf
  <1>3. \A r \in Range(rs) : r.sid \in Nat
    BY RulesAssumption, MaxU32Assumption DEF Range
  <1>4. DOMAIN SidIndex(rs) \subseteq Nat \ {0}
    BY <1>3 DEF SidIndex
  <1>5. generation' \in 0 .. MaxGeneration
    BY <1>1, BoundsAssumption DEF TypeOK
  <1>6. TypeOK'
    BY <1>1, <1>2, <1>4, <1>5 DEF TypeOK
  <1> QED
    BY <1>1, <1>2, <1>6 DEF Inv, IndexesCurrent, WarningsReported

(* A refusal changes no rule.                                              *)
LEMMA SameRulesInv ==
    ASSUME Inv, UNCHANGED <<rules, sidIndex, classtypeIndex, generation>>,
           diagnostics \subseteq diagnostics'
    PROVE  Inv'
  BY DEF Inv, TypeOK, IndexesCurrent, WarningsReported, Validations

LEMMA RefuseInv ==
    ASSUME Inv, NEW code, NEW message, Refuse(code, message)
    PROVE  Inv'
  BY SameRulesInv DEF Refuse, Note

(* What is held against a rule depends on the rule alone.                  *)
LEMMA ValidationsOfParts ==
    ASSUME NEW s, NEW t, NEW u, Range(s) \subseteq Range(t) \cup Range(u)
    PROVE  Validations(s) \subseteq Validations(t) \cup Validations(u)
  BY DEF Validations

LEMMA AddRuleInv ==
    ASSUME Inv, NEW rule \in RuleValues, AddRule(rule)
    PROVE  Inv'
  <1> DEFINE new == Append(rules, rule)
  <1>1. new \in Seq(RuleValues) /\ Len(new) <= MaxRules
    BY BoundsAssumption DEF AddRule, Inv, TypeOK
  <1>2. Range(new) \subseteq Range(rules) \cup Range(<<rule>>)
    BY DEF Range, Inv, TypeOK
  <1>3. Validations(new) \subseteq diagnostics'
    <2> HIDE DEF new
    <2> QED
      BY <1>2, ValidationsOfParts DEF AddRule, Note, Inv, WarningsReported
  <1> QED
    BY <1>1, <1>3, TouchInv DEF AddRule, Inv

LEMMA ReplaceRuleInv ==
    ASSUME Inv, NEW rule \in RuleValues, NEW index \in Positions, ReplaceRule(index, rule)
    PROVE  Inv'
  <1>1. CASE index \in DOMAIN rules
    <2> DEFINE new == [rules EXCEPT ![index] = rule]
    <2>1. new \in Seq(RuleValues) /\ Len(new) <= MaxRules
      BY <1>1 DEF Inv, TypeOK
    <2>2. Range(new) \subseteq Range(rules) \cup Range(<<rule>>)
      BY <1>1 DEF Range, Inv, TypeOK
    <2>3. Touch(new) /\ Note(Validations(<<rule>>))
      BY <1>1 DEF ReplaceRule
    <2>4. Validations(new) \subseteq diagnostics'
      <3> HIDE DEF new
      <3> QED
        BY <2>2, <2>3, ValidationsOfParts DEF Note, Inv, WarningsReported
    <2> QED
      BY <2>1, <2>3, <2>4, TouchInv DEF Inv
  <1>2. CASE index \notin DOMAIN rules
    BY <1>2, RefuseInv DEF ReplaceRule
  <1> QED
    BY <1>1, <1>2

LEMMA AddRuleFileTextInv ==
    ASSUME Inv, NEW n \in Nat, NEW lines \in [1 .. n -> Lines], AddRuleFileText(lines)
    PROVE  Inv'
  <1>1. PICK added \in ParsedRules(lines) :
          /\ Len(rules) + Len(added) <= MaxRules
          /\ Note(FileWarnings(lines, added) \cup Validations(added))
          /\ IF added = << >> THEN UNCHANGED <<rules, sidIndex, classtypeIndex, generation>>
             ELSE Touch(rules \o added)
    BY DEF AddRuleFileText
  <1>2. added \in Seq(RuleValues)
    BY ParsedRulesType
  <1>3. CASE added = << >>
    BY <1>1, <1>3, SameRulesInv DEF Note
  <1>4. CASE added # << >>
    <2> DEFINE new == rules \o added
    <2>1. new \in Seq(RuleValues) /\ Len(new) <= MaxRules
      BY <1>1, <1>2 DEF Inv, TypeOK
    <2>2. Range(new) \subseteq Range(rules) \cup Range(added)
      BY <1>2 DEF Range, Inv, TypeOK
    <2>3. Touch(new)
      BY <1>1, <1>4
    <2>4. Validations(new) \subseteq diagnostics'
      <3> HIDE DEF new
      <3> QED
        BY <1>1, <2>2, ValidationsOfParts DEF Note, Inv, WarningsReported
    <2> QED
      BY <2>1, <2>3, <2>4, TouchInv DEF Inv
  <1> QED
    BY <1>3, <1>4

LEMMA KeepInv ==
    ASSUME Inv, NEW positions \in SUBSET DOMAIN rules, Keep(positions)
    PROVE  Inv'
  <1>1. PICK from \in Ascending(positions) : Touch([i \in DOMAIN from |-> rules[from[i]]])
    BY DEF Keep
  <1> DEFINE new == [i \in DOMAIN from |-> rules[from[i]]]
  <1>2. new \in Seq(RuleValues) /\ Len(new) <= MaxRules /\ Range(new) \subseteq Range(rules)
    <2>1. Len(new) \in Nat /\ Len(new) <= Len(rules) /\ new \in Seq(RuleValues)
      BY KeptType DEF Inv, TypeOK
    <2> QED
      BY <2>1, KeptType, BoundsAssumption DEF Inv, TypeOK
  <1>3. Validations(new) \subseteq diagnostics'
    <2> HIDE DEF new
    <2> QED
      BY <1>2, ValidationsOfParts DEF Keep, Inv, WarningsReported
  <1> QED
    BY <1>1, <1>2, <1>3, TouchInv DEF Inv

LEMMA ClearInv ==
    ASSUME Inv, Clear
    PROVE  Inv'
  <1>1. Validations(<< >>) = {}
    BY DEF Validations, Range
  <1>2. << >> \in Seq(RuleValues) /\ Len(<< >>) <= MaxRules
    BY BoundsAssumption
  <1>3. TypeOK /\ Touch(<< >>) /\ Validations(<< >>) \subseteq diagnostics'
    BY <1>1 DEF Clear, Inv
  <1> QED
    BY <1>2, <1>3, TouchInv

-----------------------------------------------------------------------------
LEMMA InitInv == Init => Inv
  <1> SUFFICES ASSUME Init PROVE Inv
    OBVIOUS
  <1>1. TypeOK
    BY BoundsAssumption DEF Init, TypeOK
  <1>2. IndexesCurrent
    BY DEF Init, IndexesCurrent, SidIndex, ClasstypeIndex, Range
  <1>3. WarningsReported
    BY DEF Init, WarningsReported, Validations, Range
  <1> QED
    BY <1>1, <1>2, <1>3 DEF Inv

LEMMA NextInv == Inv /\ [Next]_vars => Inv'
  <1> SUFFICES ASSUME Inv, [Next]_vars PROVE Inv'
    OBVIOUS
  <1>1. \A rule \in Objects : rule \in RuleValues
    BY DEF RuleValues
  <1>2. \A line \in Lines : line.kind = "rule" => ParsedRule(line) \in RuleValues
    BY DEF RuleValues, GoodLines
  <1>3. CASE \E rule \in Objects : AddRule(rule)
    BY <1>1, <1>3, AddRuleInv
  <1>4. CASE \E line \in Lines : AddRuleText(line)
    BY <1>2, <1>4, AddRuleInv, RefuseInv DEF AddRuleText
  <1>5. CASE \E n \in 0 .. MaxLines : \E lines \in [1 .. n -> Lines] : AddRuleFileText(lines)
    BY <1>5, AddRuleFileTextInv
  <1>6. CASE \E index \in Positions, rule \in Objects : ReplaceRule(index, rule)
    BY <1>1, <1>6, ReplaceRuleInv
  <1>7. CASE \E index \in Positions, line \in Lines : ReplaceRuleText(index, line)
    BY <1>2, <1>7, ReplaceRuleInv, RefuseInv DEF ReplaceRuleText
  <1>8. CASE \E index \in Positions : EraseIndex(index)
    BY <1>8, KeepInv, RefuseInv DEF EraseIndex
  <1>9. CASE \E sid \in Sids : EraseSid(sid)
    BY <1>9, KeepInv DEF EraseSid
  <1>10. CASE Clear
    BY <1>10, ClearInv
  <1>11. CASE RebuildIndexes
    BY <1>11, SameRulesInv DEF RebuildIndexes, RebuildIndexesOf, Inv, IndexesCurrent
  <1>12. CASE UNCHANGED vars
    BY <1>12, SameRulesInv DEF vars
  <1> QED
    BY <1>3, <1>4, <1>5, <1>6, <1>7, <1>8, <1>9, <1>10, <1>11, <1>12 DEF Next

LEMMA Invariance == Spec => []Inv
  BY InitInv, NextInv, PTL DEF Spec

-----------------------------------------------------------------------------
(* Rules, indexes and the generation keep their types and bounds.          *)
THEOREM TypeCorrect == Spec => []TypeOK
  <1>1. Inv => TypeOK
    BY DEF Inv
  <1> QED
    BY <1>1, Invariance, PTL

(* After any calls the indexes are those of the rules at hand.             *)
THEOREM IndexesAlwaysCurrent == Spec => []IndexesCurrent
  <1>1. Inv => IndexesCurrent
    BY DEF Inv
  <1> QED
    BY <1>1, Invariance, PTL

(* No rule is in the set without the warnings that validate_rule gives it. *)
THEOREM WarningsAlwaysReported == Spec => []WarningsReported
  <1>1. Inv => WarningsReported
    BY DEF Inv
  <1> QED
    BY <1>1, Invariance, PTL

-----------------------------------------------------------------------------
(* The highest revision of a sid, and the last rule that has it.           *)

Later(rs, i, j) == rs[j].rev < rs[i].rev \/ (rs[j].rev = rs[i].rev /\ j <= i)

LEMMA LatestExists ==
    ASSUME NEW rs \in Seq(RuleValues), NEW S \in SUBSET DOMAIN rs, S # {}
    PROVE  \E i \in S : \A j \in S : Later(rs, i, j)
  <1>1. DOMAIN rs = 1 .. Len(rs) /\ Len(rs) \in Nat
    OBVIOUS
  <1>2. \A i \in S : i \in 0 .. Len(rs) /\ rs[i].rev \in 0 .. MaxU32
    BY <1>1, RulesAssumption
  <1> DEFINE revs == {rs[i].rev : i \in S}
  <1>3. PICK g \in revs : \A r \in revs : r <= g
    <2>1. revs \in SUBSET (0 .. MaxU32) /\ revs # {}
      BY <1>2
    <2> HIDE DEF revs
    <2> QED
      BY <2>1, GreatestExists, MaxU32Assumption
  <1> DEFINE top == {i \in S : rs[i].rev = g}
  <1>4. PICK i \in top : \A j \in top : j <= i
    <2>1. top \in SUBSET (0 .. Len(rs)) /\ top # {}
      BY <1>2
    <2> HIDE DEF top
    <2> QED
      BY <1>1, <2>1, GreatestExists
  <1>5. ASSUME NEW j \in S PROVE Later(rs, i, j)
    <2>1. rs[j].rev \in Nat /\ rs[i].rev = g /\ g \in Nat /\ rs[j].rev <= g
      BY <1>2, <1>3, <1>4, MaxU32Assumption
    <2>2. CASE rs[j].rev = g
      BY <1>4, <2>1, <2>2 DEF Later
    <2>3. CASE rs[j].rev # g
      BY <2>1, <2>3 DEF Later
    <2> QED
      BY <2>2, <2>3
  <1> QED
    BY <1>4, <1>5

(* What find_latest_sid answers when the index is that of the rules.       *)
Answer(rs, sid) ==
    LET S == {i \in DOMAIN rs : rs[i].sid = sid}
    IN  IF sid = 0 \/ S = {} THEN 0
        ELSE CHOOSE i \in S : \A j \in S : Later(rs, i, j)

LEMMA LookupAnswers ==
    ASSUME IndexesCurrent, NEW sid
    PROVE  FindLatestSid(sid) = Answer(rules, sid)
  <1>1. sid \in DOMAIN sidIndex <=> sid # 0 /\ {i \in DOMAIN rules : rules[i].sid = sid} # {}
    BY DEF IndexesCurrent, SidIndex, Range
  <1> DEFINE S == {i \in DOMAIN rules : rules[i].sid = sid}
  <1>2. sid \in DOMAIN sidIndex => sidIndex[sid] = S
    BY DEF IndexesCurrent, SidIndex
  <1>3. FindLatestSid(sid) = IF sid \notin DOMAIN sidIndex THEN 0
                             ELSE CHOOSE i \in sidIndex[sid] :
                                     \A j \in sidIndex[sid] : Later(rules, i, j)
    BY DEF FindLatestSid, Later
  <1>4. Answer(rules, sid) = IF sid = 0 \/ S = {} THEN 0
                             ELSE CHOOSE i \in S : \A j \in S : Later(rules, i, j)
    BY DEF Answer
  <1> HIDE DEF S
  <1>5. sid \in DOMAIN sidIndex <=> ~(sid = 0 \/ S = {})
    BY <1>1 DEF S
  <1> QED
    BY <1>2, <1>3, <1>4, <1>5

LEMMA AnswerIsLatest ==
    ASSUME NEW rs \in Seq(RuleValues), NEW sid, sid # 0, NEW k \in DOMAIN rs, rs[k].sid = sid
    PROVE  /\ Answer(rs, sid) \in DOMAIN rs /\ rs[Answer(rs, sid)].sid = sid
           /\ \A j \in DOMAIN rs : rs[j].sid = sid => Later(rs, Answer(rs, sid), j)
  <1> DEFINE S == {i \in DOMAIN rs : rs[i].sid = sid}
             answer == Answer(rs, sid)
  <1>1. answer = CHOOSE i \in S : \A j \in S : Later(rs, i, j)
    BY DEF Answer
  <1>2. \E i \in S : \A j \in S : Later(rs, i, j)
    <2>1. S \in SUBSET DOMAIN rs /\ S # {}
      OBVIOUS
    <2> HIDE DEF S
    <2> QED
      BY <2>1, LatestExists
  <1>3. answer \in S /\ \A j \in S : Later(rs, answer, j)
    <2> HIDE DEF S, answer
    <2> QED
      BY <1>1, <1>2
  <1> HIDE DEF answer
  <1>4. /\ answer \in DOMAIN rs /\ rs[answer].sid = sid
        /\ \A j \in DOMAIN rs : rs[j].sid = sid => Later(rs, answer, j)
    BY <1>3
  <1> QED
    BY <1>4 DEF answer

(* The lookups through the indexes answer as a search of the rules would.  *)
THEOREM LookupsAlwaysAgree == Spec => []LookupsAgree
  <1>1. ASSUME Inv PROVE LookupsAgree
    <2> USE <1>1
    <2>0. \A sid : FindLatestSid(sid) = Answer(rules, sid)
      BY LookupAnswers DEF Inv
    <2>1. ASSUME NEW sid \in Sids, sid # 0, \E r \in Range(rules) : r.sid = sid
          PROVE  LET i == FindLatestSid(sid)
                 IN  /\ i \in DOMAIN rules /\ rules[i].sid = sid
                     /\ \A j \in DOMAIN rules : rules[j].sid = sid =>
                            /\ rules[j].rev <= rules[i].rev
                            /\ j > i => rules[j].rev < rules[i].rev
      <3> DEFINE i == FindLatestSid(sid)
      <3>1. PICK k \in DOMAIN rules : rules[k].sid = sid
        BY <2>1 DEF Range
      <3>2. /\ i \in DOMAIN rules /\ rules[i].sid = sid
            /\ \A j \in DOMAIN rules : rules[j].sid = sid => Later(rules, i, j)
        BY <2>0, <2>1, <3>1, AnswerIsLatest DEF Inv, TypeOK
      <3>3. ASSUME NEW j \in DOMAIN rules
            PROVE  j \in Nat /\ rules[j].rev \in Nat
        BY RulesAssumption, MaxU32Assumption DEF Inv, TypeOK
      <3> HIDE DEF i
      <3>4. ASSUME NEW j \in DOMAIN rules, rules[j].sid = sid
            PROVE  /\ rules[j].rev <= rules[i].rev
                   /\ j > i => rules[j].rev < rules[i].rev
        <4>1. Later(rules, i, j) /\ i \in Nat /\ rules[i].rev \in Nat
          BY <3>2, <3>3, <3>4
        <4> QED
          BY <3>3, <4>1 DEF Later
      <3> QED
        BY <3>2, <3>4 DEF i
    <2>2. ASSUME NEW sid \in Sids, ~(sid # 0 /\ \E r \in Range(rules) : r.sid = sid)
          PROVE  FindLatestSid(sid) = 0
      BY <2>0, <2>2 DEF Answer, Range
    <2>3. ASSUME NEW class \in Classtypes \ {""}
          PROVE  FindByClasstype(class) = {i \in DOMAIN rules : rules[i].classtype = class}
      BY <2>3 DEF FindByClasstype, Inv, IndexesCurrent, ClasstypeIndex, Range
    <2> QED
      BY <2>1, <2>2, <2>3 DEF LookupsAgree
  <1> QED
    BY <1>1, Invariance, PTL

-----------------------------------------------------------------------------
(* A rule for both directions matches a packet and its answer alike.       *)
THEOREM BothDirectionsAlwaysAlike == Spec => []BothDirectionsAlike
  <1>1. ASSUME NEW r, r.direction = "<>", NEW pkt \in Packets
        PROVE  RuleMatchesPacket(r, pkt) <=> RuleMatchesPacket(r, Swapped(pkt))
    <2> DEFINE other == Swapped(pkt)
    <2>1. pkt \in Packet
      BY PacketsAssumption
    <2>2. /\ other.source = pkt.destination /\ other.destination = pkt.source
          /\ other.source_port = pkt.destination_port
          /\ other.destination_port = pkt.source_port
          /\ other.ipv4 = pkt.ipv4 /\ other.transport = pkt.transport
          /\ other.dns = pkt.dns /\ other.texts = pkt.texts
      BY <2>1 DEF Swapped, Packet
    <2> HIDE DEF other
    <2>3. ProtoMatches(r.protocol, pkt) <=> ProtoMatches(r.protocol, other)
      <3>1. {pkt.source_port, pkt.destination_port}
                = {other.source_port, other.destination_port}
        BY <2>2
      <3> QED
        BY <2>2, <3>1 DEF ProtoMatches
    <2> QED
      BY <1>1, <2>2, <2>3 DEF RuleMatchesPacket, other
  <1>2. BothDirectionsAlike
    BY <1>1 DEF BothDirectionsAlike
  <1> QED
    BY <1>2, PTL

-----------------------------------------------------------------------------
(* The snapshot that a caller holds.                                       *)

(* Either a call counts a generation or it leaves rules and indexes alone. *)
CountsOrKeeps ==
    /\ diagnostics \subseteq diagnostics'
    /\ \/ generation' = generation + 1
       \/ UNCHANGED <<rules, sidIndex, classtypeIndex, generation>>

LEMMA NextCountsOrKeeps ==
    ASSUME Inv, Next
    PROVE  CountsOrKeeps
  <1>1. \A rs : Touch(rs) => generation' = generation + 1
    BY DEF Touch
  <1>2. \A code, message : Refuse(code, message) => CountsOrKeeps
    BY DEF Refuse, Note, CountsOrKeeps
  <1>3. \A rule : AddRule(rule) => CountsOrKeeps
    BY <1>1 DEF AddRule, Note, CountsOrKeeps
  <1>4. \A line : AddRuleText(line) => CountsOrKeeps
    BY <1>2, <1>3 DEF AddRuleText
  <1>5. \A lines : AddRuleFileText(lines) => CountsOrKeeps
    BY <1>1 DEF AddRuleFileText, Note, CountsOrKeeps
  <1>6. \A index, rule : ReplaceRule(index, rule) => CountsOrKeeps
    <2> SUFFICES ASSUME NEW index, NEW rule, ReplaceRule(index, rule)
                 PROVE  CountsOrKeeps
      OBVIOUS
    <2>1. CASE index \in DOMAIN rules
      BY <1>1, <2>1 DEF ReplaceRule, Note, CountsOrKeeps
    <2>2. CASE index \notin DOMAIN rules
      BY <1>2, <2>2 DEF ReplaceRule
    <2> QED
      BY <2>1, <2>2
  <1>7. \A index, line : ReplaceRuleText(index, line) => CountsOrKeeps
    BY <1>2, <1>6 DEF ReplaceRuleText
  <1>8. \A positions : Keep(positions) => CountsOrKeeps
    BY <1>1 DEF Keep, CountsOrKeeps
  <1>9. \A index : EraseIndex(index) => CountsOrKeeps
    BY <1>2, <1>8 DEF EraseIndex
  <1>10. \A sid : EraseSid(sid) => CountsOrKeeps
    BY <1>8 DEF EraseSid
  <1>11. Clear => CountsOrKeeps
    BY <1>1 DEF Clear, CountsOrKeeps
  <1>12. RebuildIndexes => CountsOrKeeps
    BY DEF RebuildIndexes, RebuildIndexesOf, Inv, IndexesCurrent, CountsOrKeeps
  <1> QED
    BY <1>3, <1>4, <1>5, <1>6, <1>7, <1>9, <1>10, <1>11, <1>12 DEF Next

HeldInv == Inv /\ SnapshotHonest /\ held.generation \in Nat

(* Equal generations mean equal rules and indexes, for snapshots of any    *)
(* age and any sequence of calls.                                          *)
THEOREM SnapshotsAlwaysHonest == SpecHeld => []SnapshotHonest
  <1>1. InitHeld => HeldInv
    <2> SUFFICES ASSUME InitHeld PROVE HeldInv
      OBVIOUS
    <2>1. Inv
      BY InitInv DEF InitHeld
    <2>2. generation \in Nat
      BY DEF InitHeld, Init
    <2> QED
      BY <2>1, <2>2 DEF InitHeld, Snapshot, HeldInv, SnapshotHonest
  <1>2. HeldInv /\ [NextHeld]_<<vars, held>> => HeldInv'
    <2> SUFFICES ASSUME HeldInv, [NextHeld]_<<vars, held>> PROVE HeldInv'
      OBVIOUS
    <2>1. generation \in Nat /\ held.generation \in Nat
      BY DEF HeldInv, Inv, TypeOK
    <2>2. CASE Next /\ UNCHANGED held
      <3>1. Inv'
        BY <2>2, NextInv DEF HeldInv
      <3>2. CountsOrKeeps
        BY <2>2, NextCountsOrKeeps DEF HeldInv
      <3> QED
        BY <2>1, <2>2, <3>1, <3>2 DEF HeldInv, SnapshotHonest, CountsOrKeeps
    <2>3. CASE TakeSnapshot
      <3>1. Inv'
        BY <2>3, NextInv DEF HeldInv, TakeSnapshot
      <3> QED
        BY <2>1, <2>3, <3>1 DEF HeldInv, SnapshotHonest, TakeSnapshot, Snapshot, vars
    <2>4. CASE UNCHANGED <<vars, held>>
      <3>1. Inv'
        BY <2>4, NextInv DEF HeldInv
      <3> QED
        BY <2>4, <3>1 DEF HeldInv, SnapshotHonest, vars
    <2> QED
      BY <2>2, <2>3, <2>4 DEF NextHeld
  <1>3. HeldInv => SnapshotHonest
    BY DEF HeldInv
  <1> QED
    BY <1>1, <1>2, <1>3, PTL DEF SpecHeld
-----------------------------------------------------------------------------
(* Rules whose logic is reported as the same.                              *)

(* An expression that is not "any" negated.  That one matches nothing and  *)
(* is rendered like the negation of nothing, which matches everything.     *)
Sound(expr) ==
    /\ expr.any \in BOOLEAN /\ expr.negated \in BOOLEAN
    /\ ~(expr.any /\ expr.negated)

NoVoids ==
    \A r \in RuleValues :
        /\ Sound(r.source) /\ Sound(r.source_ports)
        /\ Sound(r.destination) /\ Sound(r.destination_ports)

(* Expressions that are rendered alike match alike.                        *)
LEMMA RenderedAlike ==
    ASSUME NEW e, NEW f, Sound(e), Sound(f), Rendered(e) = Rendered(f)
    PROVE  /\ \A addr : MatchesAddr(e, addr) <=> MatchesAddr(f, addr)
           /\ \A port : MatchesPort(e, port) <=> MatchesPort(f, port)
  <1>1. /\ (e.any /\ ~e.negated) = (f.any /\ ~f.negated) /\ e.negated = f.negated
        /\ (IF e.any /\ ~e.negated THEN << >> ELSE e.ranges)
             = (IF f.any /\ ~f.negated THEN << >> ELSE f.ranges)
    BY DEF Rendered
  <1>2. e.any = f.any /\ (~e.any => e.ranges = f.ranges)
    BY <1>1 DEF Sound
  <1>3. \A addr : (e.any \/ AddressHit(e, addr)) <=> (f.any \/ AddressHit(f, addr))
    BY <1>2 DEF AddressHit
  <1>4. \A port : (e.any \/ PortHit(e, port)) <=> (f.any \/ PortHit(f, port))
    BY <1>2 DEF PortHit
  <1> QED
    BY <1>1, <1>3, <1>4 DEF MatchesAddr, MatchesPort, Sound

(* If no expression is "any" negated, rules with the same key match the    *)
(* same packets.                                                           *)
THEOREM DuplicatesAlwaysMatchAlike ==
    ASSUME NoVoids
    PROVE  Spec => []DuplicatesMatchAlike
  <1>1. ASSUME NEW r \in RuleValues, NEW s \in RuleValues, RuleKey(r) = RuleKey(s), NEW pkt
        PROVE  RuleMatchesPacket(r, pkt) <=> RuleMatchesPacket(s, pkt)
    <2>1. /\ r.protocol = s.protocol /\ r.direction = s.direction /\ r.content = s.content
          /\ Rendered(r.source) = Rendered(s.source)
          /\ Rendered(r.source_ports) = Rendered(s.source_ports)
          /\ Rendered(r.destination) = Rendered(s.destination)
          /\ Rendered(r.destination_ports) = Rendered(s.destination_ports)
      BY <1>1, Zenon DEF RuleKey
    <2>2. \A a, p, b, q : FlowMatches(r, a, p, b, q) <=> FlowMatches(s, a, p, b, q)
      <3>1. \A addr : MatchesAddr(r.source, addr) <=> MatchesAddr(s.source, addr)
        BY <2>1, RenderedAlike DEF NoVoids
      <3>2. \A port : MatchesPort(r.source_ports, port) <=> MatchesPort(s.source_ports, port)
        BY <2>1, RenderedAlike DEF NoVoids
      <3>3. \A addr : MatchesAddr(r.destination, addr) <=> MatchesAddr(s.destination, addr)
        BY <2>1, RenderedAlike DEF NoVoids
      <3>4. \A port : MatchesPort(r.destination_ports, port)
                        <=> MatchesPort(s.destination_ports, port)
        BY <2>1, RenderedAlike DEF NoVoids
      <3> QED
        BY <3>1, <3>2, <3>3, <3>4 DEF FlowMatches
    <2> QED
      BY <2>1, <2>2 DEF RuleMatchesPacket
  <1>2. ASSUME TypeOK PROVE DuplicatesMatchAlike
    <2>1. Range(rules) \subseteq RuleValues
      BY <1>2 DEF TypeOK, Range
    <2> QED
      BY <1>1, <2>1 DEF DuplicatesMatchAlike
  <1> QED
    BY <1>2, TypeCorrect, PTL

-----------------------------------------------------------------------------
(* What a file leaves as warnings.                                         *)

(* Two places of a set make it larger than one.                            *)
LEMMA TwoOfThem ==
    ASSUME NEW S, IsFiniteSet(S), NEW a \in S, NEW b \in S, a # b
    PROVE  Cardinality(S) \in Nat /\ Cardinality(S) > 1
  <1>1. /\ IsFiniteSet(S \ {a}) /\ Cardinality(S \ {a}) = Cardinality(S) - 1
        /\ Cardinality(S) \in Nat
    BY FS_RemoveElement, FS_CardinalityType
  <1>2. Cardinality(S \ {a}) \in Nat /\ (Cardinality(S \ {a}) = 0 <=> S \ {a} = {})
    BY <1>1, FS_CardinalityType, FS_EmptySet
  <1> QED
    BY <1>1, <1>2

LEMMA ConflictsFound ==
    ASSUME NEW added \in Seq(RuleValues), NEW lines,
           NEW i \in DOMAIN added, NEW j \in DOMAIN added, i # j
    PROVE  /\ RuleKey(added[i]) = RuleKey(added[j]) =>
                 \E w \in FileWarnings(lines, added) : w.code = "rule.duplicate" /\ w.number > 1
           /\ added[i].sid = added[j].sid /\ added[i].sid # 0 /\ added[i].rev # added[j].rev =>
                 Warning("rule.sid", "revisions", added[i].sid) \in FileWarnings(lines, added)
  <1>1. ASSUME RuleKey(added[i]) = RuleKey(added[j])
        PROVE  \E w \in FileWarnings(lines, added) : w.code = "rule.duplicate" /\ w.number > 1
    <2> DEFINE same == {k \in DOMAIN added : RuleKey(added[k]) = RuleKey(added[i])}
               n == Cardinality(same)
               w == Warning("rule.duplicate", "signatures", n)
    <2>1. IsFiniteSet(same)
      <3>1. IsFiniteSet(DOMAIN added)
        BY FS_Interval, LenProperties
      <3>2. same \subseteq DOMAIN added
        OBVIOUS
      <3> HIDE DEF same
      <3> QED
        BY <3>1, <3>2, FS_Subset
    <2>2. i \in same /\ j \in same
      BY <1>1
    <2>3. n \in Nat /\ n > 1
      <3> HIDE DEF same
      <3> QED
        BY <2>1, <2>2, TwoOfThem
    <2>4. n \in DuplicateRuleKeys(added)
      <3>1. n # 1
        <4> HIDE DEF n
        <4> QED
          BY <2>3
      <3> QED
        BY <3>1, Zenon DEF DuplicateRuleKeys
    <2>5. w \in FileWarnings(lines, added)
      <3> HIDE DEF n
      <3> QED
        BY <2>4, Zenon DEF FileWarnings
    <2>6. w.code = "rule.duplicate" /\ w.number = n
      <3> HIDE DEF n
      <3> QED
        BY DEF Warning
    <2> HIDE DEF w, n
    <2> QED
      BY <2>3, <2>5, <2>6
  <1>2. ASSUME added[i].sid = added[j].sid, added[i].sid # 0, added[i].rev # added[j].rev
        PROVE  Warning("rule.sid", "revisions", added[i].sid) \in FileWarnings(lines, added)
    <2>1. added[i] \in Range(added) /\ added[j] \in Range(added)
      BY DEF Range
    <2>2. added[i].sid \in SidRevisionConflicts(added)
      BY <1>2, <2>1 DEF SidRevisionConflicts
    <2> QED
      BY <2>2, Zenon DEF FileWarnings
  <1> QED
    BY <1>1, <1>2

(* Any two rules of one file that conflict have left a warning.            *)
THEOREM FileConflictsAlwaysWarned == Spec => FileConflictsWarned
  <1> DEFINE Warned(i, j) ==
          /\ RuleKey(rules'[i]) = RuleKey(rules'[j]) =>
                \E w \in diagnostics' : w.code = "rule.duplicate" /\ w.number > 1
          /\ rules'[i].sid = rules'[j].sid /\ rules'[i].sid # 0
                /\ rules'[i].rev # rules'[j].rev =>
                Warning("rule.sid", "revisions", rules'[i].sid) \in diagnostics'
  <1>1. ASSUME TypeOK, NEW n \in 1 .. MaxLines, NEW lines \in [1 .. n -> Lines],
               AddRuleFileText(lines),
               NEW i \in Len(rules) + 1 .. Len(rules'), NEW j \in Len(rules) + 1 .. Len(rules'),
               i < j
        PROVE  Warned(i, j)
    <2>1. PICK added \in ParsedRules(lines) :
            /\ Note(FileWarnings(lines, added) \cup Validations(added))
            /\ IF added = << >> THEN UNCHANGED <<rules, sidIndex, classtypeIndex, generation>>
               ELSE Touch(rules \o added)
      BY <1>1 DEF AddRuleFileText
    <2>2. n \in Nat
      BY BoundsAssumption
    <2>3. added \in Seq(RuleValues) /\ rules \in Seq(RuleValues)
      BY <1>1, <2>2, ParsedRulesType DEF TypeOK
    <2>4. rules' = rules \o added
      <3>1. CASE added = << >>
        BY <2>1, <2>3, <3>1, <1>1
      <3>2. CASE added # << >>
        BY <2>1, <3>2 DEF Touch
      <3> QED
        BY <3>1, <3>2
    <2> DEFINE a == i - Len(rules)
               b == j - Len(rules)
    <2>5. /\ Len(rules') = Len(rules) + Len(added) /\ Len(rules) \in Nat /\ Len(added) \in Nat
          /\ i \in Int /\ j \in Int
      BY <2>3, <2>4, ConcatProperties, LenProperties
    <2>6. a \in DOMAIN added /\ b \in DOMAIN added /\ a # b
      <3>1. DOMAIN added = 1 .. Len(added)
        BY <2>3, LenProperties
      <3> QED
        BY <1>1, <2>5, <3>1
    <2>7. rules'[i] = added[a] /\ rules'[j] = added[b]
      BY <1>1, <2>3, <2>4, <2>5, ConcatProperties
    <2>8. FileWarnings(lines, added) \subseteq diagnostics'
      BY <2>1 DEF Note
    <2> HIDE DEF a, b
    <2>9. /\ RuleKey(added[a]) = RuleKey(added[b]) =>
                 \E w \in FileWarnings(lines, added) : w.code = "rule.duplicate" /\ w.number > 1
          /\ added[a].sid = added[b].sid /\ added[a].sid # 0 /\ added[a].rev # added[b].rev =>
                 Warning("rule.sid", "revisions", added[a].sid) \in FileWarnings(lines, added)
      BY <2>3, <2>6, ConflictsFound
    <2> QED
      BY <2>7, <2>8, <2>9, Zenon
  <1>2. TypeOK /\ [Next]_vars =>
            [\A n \in 1 .. MaxLines : \A lines \in [1 .. n -> Lines] :
               AddRuleFileText(lines) =>
                 \A i, j \in Len(rules) + 1 .. Len(rules') : i < j => Warned(i, j)]_vars
    <2> HIDE DEF Warned
    <2> QED
      BY <1>1
  <1> QED
    BY <1>2, TypeCorrect, PTL DEF Spec, FileConflictsWarned

-----------------------------------------------------------------------------
(* Erasing a sid.                                                          *)

(* A row of all the positions of a set, ascending, misses none of them.    *)
LEMMA AscendingOnto ==
    ASSUME NEW n \in Nat, NEW positions \in SUBSET (1 .. n), NEW from \in Ascending(positions),
           NEW s \in positions
    PROVE  \E i \in DOMAIN from : from[i] = s
  <1> SUFFICES ASSUME \A i \in DOMAIN from : from[i] # s PROVE FALSE
    OBVIOUS
  <1> DEFINE size == Cardinality(positions)
             rest == positions \ {s}
  <1>0. from \in [1 .. size -> positions] /\ \A i, j \in DOMAIN from : i < j => from[i] < from[j]
    BY DEF Ascending
  <1>1. IsFiniteSet(positions)
    <2>1. IsFiniteSet(1 .. n)
      BY FS_Interval
    <2> QED
      BY <2>1, FS_Subset
  <1>2. size \in Nat /\ IsFiniteSet(rest) /\ Cardinality(rest) = size - 1
    BY <1>1, FS_CardinalityType, FS_RemoveElement
  <1>3. IsFiniteSet(1 .. size) /\ Cardinality(1 .. size) = size
    <2> HIDE DEF size
    <2>1. Cardinality(1 .. size) = IF 1 > size THEN 0 ELSE size - 1 + 1
      BY <1>2, FS_Interval
    <2> QED
      BY <1>2, <2>1, FS_Interval
  <1>4. from \in [1 .. size -> rest]
    BY <1>0
  <1>5. Cardinality(rest) < Cardinality(1 .. size)
    BY <1>2, <1>3
  <1>6. \E i, j \in 1 .. size : i # j /\ from[i] = from[j]
    <2> HIDE DEF size, rest
    <2> QED
      BY <1>2, <1>3, <1>4, <1>5, FS_PigeonHole
  <1>7. PICK i \in 1 .. size, j \in 1 .. size : i # j /\ from[i] = from[j]
    BY <1>6
  <1>8. i \in Int /\ j \in Int /\ from[i] \in positions
    BY <1>0, <1>2
  <1>9. from[i] \in Int
    <2>1. \A t \in positions : t \in Int
      OBVIOUS
    <2> QED
      BY <2>1, <1>8
  <1>10. i < j \/ j < i
    BY <1>7, <1>8
  <1>11. i \in DOMAIN from /\ j \in DOMAIN from
    BY <1>0
  <1> QED
    BY <1>0, <1>7, <1>9, <1>10, <1>11

Erased(sid) == {i \in DOMAIN rules : rules[i].sid # sid}

(* Where the rules are after an erasure, and that none but those are.      *)
LEMMA ErasureMoves ==
    ASSUME NEW sid, EraseSid(sid)
    PROVE  \E from \in Ascending(Erased(sid)) :
              /\ DOMAIN rules' = DOMAIN from
              /\ \A i \in DOMAIN from :
                    from[i] \in DOMAIN rules /\ rules'[i] = rules[from[i]]
                    /\ rules'[i].sid # sid
  <1>1. PICK from \in Ascending(Erased(sid)) : Touch([i \in DOMAIN from |-> rules[from[i]]])
    BY DEF EraseSid, Keep, Erased
  <1>2. rules' = [i \in DOMAIN from |-> rules[from[i]]]
    BY <1>1 DEF Touch
  <1>3. \A i \in DOMAIN from : from[i] \in Erased(sid)
    BY DEF Ascending
  <1>4. \A i \in DOMAIN from : rules'[i] = rules[from[i]]
    BY <1>2
  <1> QED
    BY <1>2, <1>3, <1>4 DEF Erased

(* The answer for another sid moves with its rule.                         *)
LEMMA OthersAnswerAsBefore ==
    ASSUME TypeOK, TypeOK', NEW sid, EraseSid(sid), NEW other, other # sid
    PROVE  IF Answer(rules, other) = 0 THEN Answer(rules', other) = 0
           ELSE /\ Answer(rules', other) \in DOMAIN rules'
                /\ rules'[Answer(rules', other)] = rules[Answer(rules, other)]
  <1> DEFINE before == Answer(rules, other)
             after  == Answer(rules', other)
  <1>0. rules \in Seq(RuleValues) /\ rules' \in Seq(RuleValues)
    BY DEF TypeOK
  <1>1. PICK from \in Ascending(Erased(sid)) :
              /\ DOMAIN rules' = DOMAIN from
              /\ \A i \in DOMAIN from :
                    from[i] \in DOMAIN rules /\ rules'[i] = rules[from[i]]
    BY ErasureMoves
  <1>2. DOMAIN rules = 1 .. Len(rules) /\ Len(rules) \in Nat
    BY <1>0
  <1>3. \A s \in Erased(sid) : \E i \in DOMAIN from : from[i] = s
    <2>1. Erased(sid) \in SUBSET (1 .. Len(rules))
      BY <1>2 DEF Erased
    <2> QED
      BY <1>2, <2>1, AscendingOnto
  <1>4. \A i, j \in DOMAIN from : i < j => from[i] < from[j]
    BY DEF Ascending
  <1>5. CASE ~(other # 0 /\ \E k \in DOMAIN rules : rules[k].sid = other)
    <2>1. ~(other # 0 /\ \E k \in DOMAIN rules' : rules'[k].sid = other)
      BY <1>1, <1>5
    <2>2. before = 0 /\ after = 0
      BY <1>5, <2>1 DEF Answer
    <2> QED
      BY <2>2
  <1>6. CASE other # 0 /\ \E k \in DOMAIN rules : rules[k].sid = other
    <2>1. /\ before \in DOMAIN rules /\ rules[before].sid = other
          /\ \A j \in DOMAIN rules : rules[j].sid = other => Later(rules, before, j)
      BY <1>0, <1>6, AnswerIsLatest
    <2> HIDE DEF before
    <2>2. PICK p \in DOMAIN from : from[p] = before
      BY <1>3, <2>1 DEF Erased
    <2>3. p \in DOMAIN rules' /\ rules'[p] = rules[before] /\ rules'[p].sid = other
      BY <1>1, <2>1, <2>2
    <2>4. /\ after \in DOMAIN rules' /\ rules'[after].sid = other
          /\ Later(rules', after, p)
      BY <1>0, <1>6, <2>3, AnswerIsLatest
    <2> HIDE DEF after
    <2>5. from[after] \in DOMAIN rules /\ rules'[after] = rules[from[after]]
      BY <1>1, <2>4
    <2>6. Later(rules, before, from[after])
      BY <2>1, <2>4, <2>5
    <2>7. /\ p \in Nat /\ after \in Nat /\ before \in Nat /\ from[after] \in Nat
          /\ rules'[p].rev \in Nat /\ rules'[after].rev \in Nat
      <3>1. \A k \in DOMAIN rules : k \in Nat /\ rules[k].rev \in Nat
        BY <1>0, RulesAssumption, MaxU32Assumption
      <3>2. \A k \in DOMAIN rules' : k \in Nat /\ rules'[k].rev \in Nat
        BY <1>0, RulesAssumption, MaxU32Assumption
      <3> QED
        BY <2>1, <2>3, <2>4, <2>5, <3>1, <3>2
    <2>8. rules'[p].rev < rules'[after].rev
          \/ (rules'[p].rev = rules'[after].rev /\ p <= after)
      BY <2>4 DEF Later
    <2>9. rules'[after].rev < rules'[p].rev
          \/ (rules'[after].rev = rules'[p].rev /\ from[after] <= before)
      BY <2>3, <2>5, <2>6 DEF Later
    <2>10. p < after => before < from[after]
      BY <1>1, <1>4, <2>2, <2>4
    <2>11. after = p
      BY <2>7, <2>8, <2>9, <2>10
    <2>12. before # 0
      BY <1>2, <2>1
    <2>13. after \in DOMAIN rules' /\ rules'[after] = rules[before] /\ before # 0
      BY <2>3, <2>4, <2>11, <2>12
    <2> QED
      BY <2>13 DEF before, after
  <1> QED
    BY <1>5, <1>6

(* After a sid is erased the lookups do not find it, and find of all       *)
(* others the same rules, wherever these have moved.                       *)
THEOREM ErasureAlwaysLocal == Spec => ErasureIsLocal
  <1>1. ASSUME Inv, Inv', NEW sid \in Sids, EraseSid(sid)
        PROVE  /\ FindLatestSid(sid)' = 0
               /\ \A other \in Sids \ {sid} :
                     LET before == FindLatestSid(other)
                         after  == FindLatestSid(other)'
                     IN  IF before = 0 THEN after = 0
                         ELSE after \in DOMAIN rules' /\ rules'[after] = rules[before]
    <2>1. \A s : FindLatestSid(s) = Answer(rules, s)
      BY <1>1, LookupAnswers DEF Inv
    <2>2. \A s : FindLatestSid(s)' = Answer(rules', s)
      <3>1. sidIndex' = SidIndex(rules')
        BY <1>1 DEF Inv, IndexesCurrent
      <3>2. ASSUME NEW s
            PROVE  FindLatestSid(s)' = Answer(rules', s)
        <4> DEFINE S == {i \in DOMAIN rules' : rules'[i].sid = s}
        <4>1. s \in DOMAIN sidIndex' <=> ~(s = 0 \/ S = {})
          BY <3>1 DEF SidIndex, Range
        <4>2. s \in DOMAIN sidIndex' => sidIndex'[s] = S
          BY <3>1 DEF SidIndex
        <4>3. FindLatestSid(s)' = IF s \notin DOMAIN sidIndex' THEN 0
                                  ELSE CHOOSE i \in sidIndex'[s] :
                                          \A j \in sidIndex'[s] : Later(rules', i, j)
          BY DEF FindLatestSid, Later
        <4>4. Answer(rules', s) = IF s = 0 \/ S = {} THEN 0
                                  ELSE CHOOSE i \in S : \A j \in S : Later(rules', i, j)
          BY DEF Answer
        <4> HIDE DEF S
        <4> QED
          BY <4>1, <4>2, <4>3, <4>4 DEF FindLatestSid
      <3> QED
        BY <3>2 DEF FindLatestSid
    <2>3. \A k \in DOMAIN rules' : rules'[k].sid # sid
      BY <1>1, ErasureMoves
    <2>4. Answer(rules', sid) = 0
      BY <2>3 DEF Answer
    <2>5. ASSUME NEW other \in Sids \ {sid}
          PROVE  IF Answer(rules, other) = 0 THEN Answer(rules', other) = 0
                 ELSE /\ Answer(rules', other) \in DOMAIN rules'
                      /\ rules'[Answer(rules', other)] = rules[Answer(rules, other)]
      BY <1>1, OthersAnswerAsBefore DEF Inv
    <2> QED
      BY <2>1, <2>2, <2>4, <2>5
  <1>2. Inv /\ Inv' /\ [Next]_vars =>
            [\A sid \in Sids : EraseSid(sid) =>
                /\ FindLatestSid(sid)' = 0
                /\ \A other \in Sids \ {sid} :
                      LET before == FindLatestSid(other)
                          after  == FindLatestSid(other)'
                      IN  IF before = 0 THEN after = 0
                          ELSE after \in DOMAIN rules' /\ rules'[after] = rules[before]]_vars
    BY <1>1
  <1> QED
    BY <1>2, Invariance, PTL DEF Spec, ErasureIsLocal
==============================================================================
