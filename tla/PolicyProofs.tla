----------------------------- MODULE PolicyProofs -----------------------------
(* What TLAPS proves of Policy, for all lines, tuples and bounds.            *)
EXTENDS Policy, WellFoundedInduction, TLAPS

AnyRule == {RuleOf(line, n) : line \in Lines, n \in Nat}

-----------------------------------------------------------------------------
(* Numbers and expressions.                                                  *)

(* A nonempty set of numbers has a least.                                    *)
LEMMA LeastExists ==
    ASSUME NEW S \in SUBSET Nat, S # {}
    PROVE  \E m \in S : \A s \in S : m <= s
<1> DEFINE less == OpToRel(<, Nat)
<1>1. \E m \in S : \A s \in S : ~(<<s, m>> \in less)
  <2>1. IsWellFoundedOn(less, Nat)
    BY NatLessThanWellFounded
  <2> HIDE DEF less
  <2> QED
    BY <2>1, WFMin
<1>2. less = {e \in Nat \X Nat : e[1] < e[2]}
  BY DEF OpToRel
<1> HIDE DEF less
<1>3. PICK m \in S : \A s \in S : ~(<<s, m>> \in less)
  BY <1>1
<1>4. ASSUME NEW s \in S PROVE m <= s
  <2>1. m \in Nat /\ s \in Nat
    OBVIOUS
  <2>2. s < m => <<s, m>> \in less
    BY <1>2, <2>1
  <2> QED
    BY <1>3, <2>1, <2>2
<1> QED
  BY <1>4

(* Expressions that are rendered alike match alike, if none is "any" negated.*)
LEMMA RenderedAlike ==
    ASSUME NEW e, NEW f, Sound(e), Sound(f), Rendered(e) = Rendered(f)
    PROVE  /\ \A addr : MatchesAddr(e, addr) <=> MatchesAddr(f, addr)
           /\ \A port : MatchesPort(e, port) <=> MatchesPort(f, port)
<1>1. /\ (e.any /\ ~e.negated) = (f.any /\ ~f.negated) /\ e.negated = f.negated
      /\ (IF e.any /\ ~e.negated THEN << >> ELSE e.ranges)
           = (IF f.any /\ ~f.negated THEN << >> ELSE f.ranges)
  BY DEF Rendered
<1>2. e.any = f.any /\ (~e.any => e.ranges = f.ranges)
  BY <1>1 DEF Sound
<1>3. \A addr : (e.any \/ AddressHit(e, addr)) <=> (f.any \/ AddressHit(f, addr))
  BY <1>2 DEF AddressHit
<1>4. \A port : (e.any \/ PortHit(e, port)) <=> (f.any \/ PortHit(f, port))
  BY <1>2 DEF PortHit
<1> QED
  BY <1>1, <1>3, <1>4 DEF MatchesAddr, MatchesPort, Sound

(* Everything matches everything.                                            *)
LEMMA AnyMatches ==
    ASSUME NEW e, Sound(e), e.any
    PROVE  /\ \A addr : MatchesAddr(e, addr)
           /\ \A port : MatchesPort(e, port)
BY DEF Sound, MatchesAddr, MatchesPort

-----------------------------------------------------------------------------
(* What a line gives.                                                        *)

(* The last of some places is one of them.                                   *)
LEMMA LastIsOne ==
    ASSUME NEW line \in Lines, NEW at \in SUBSET (DOMAIN line.assigned), at # {}, NEW default
    PROVE  \E i \in at : LastOf(line, at, default) = line.assigned[i].value
<1>1. DOMAIN line.assigned = 1 .. Len(line.assigned) /\ Len(line.assigned) \in Nat
  BY LinesAssumption
<1> DEFINE n == Len(line.assigned)
           back == {n - i : i \in at}
<1>2. \A i \in at : i \in 1 .. n /\ n - i \in Nat
  BY <1>1
<1>3. back \in SUBSET Nat /\ back # {}
  BY <1>2
<1>4. PICK b \in back : \A c \in back : b <= c
  <2> HIDE DEF back
  <2> QED
    BY <1>3, LeastExists
<1>5. PICK m \in at : b = n - m
  BY <1>4
<1>6. ASSUME NEW i \in at PROVE m >= i
  <2>1. n - m <= n - i
    BY <1>4, <1>5
  <2> QED
    BY <1>1, <1>2, <2>1
<1>7. Max(at) \in at
  BY <1>6 DEF Max
<1> QED
  BY <1>7 DEF LastOf

(* The expressions of a rule are sound, if those of the lines are.           *)
LEMMA RuleSound ==
    ASSUME NoVoids, NEW rule \in AnyRule
    PROVE  /\ Sound(rule.source) /\ Sound(rule.destination)
           /\ Sound(rule.source_ports) /\ Sound(rule.destination_ports)
<1>1. PICK line \in Lines, n \in Nat : rule = RuleOf(line, n)
  BY DEF AnyRule
<1>2. ASSUME NEW field \in Expressed PROVE Sound(Value(line, field, Everything))
  <2>1. CASE Assigned(line, field) = {}
    BY <2>1 DEF Value, LastOf, Sound, Everything
  <2>2. CASE Assigned(line, field) # {}
    <3>1. Assigned(line, field) \in SUBSET (DOMAIN line.assigned)
      BY DEF Assigned
    <3>2. PICK i \in Assigned(line, field) :
              Value(line, field, Everything) = line.assigned[i].value
      BY <2>2, <3>1, LastIsOne DEF Value
    <3> QED
      BY <3>2 DEF NoVoids, Assigned
  <2> QED
    BY <2>1, <2>2
<1>3. /\ rule.source = Value(line, "source", Everything)
      /\ rule.destination = Value(line, "destination", Everything)
      /\ rule.source_ports = Value(line, "source_ports", Everything)
      /\ rule.destination_ports = Value(line, "destination_ports", Everything)
  BY <1>1 DEF RuleOf
<1> QED
  BY <1>2, <1>3 DEF Expressed

(* What is known of a rule that got through.                                 *)
LEMMA ParsedLineType ==
    ASSUME NEW line \in Lines, NEW n \in Nat, NEW rule \in ParsedLine(line, n)
    PROVE  /\ rule \in AnyRule /\ rule.line = n /\ line.kind \in {"iptables", "nftables"}
           /\ rule.action \in Actions
           /\ rule.chain \in Chains \cup (IF rule.dialect = "nftables"
                                          THEN {"UNKNOWN"} ELSE {})
<1>1. /\ rule = RuleOf(line, n) /\ line.kind # "other" /\ ActionOf(line) # "UNKNOWN"
      /\ ~(line.kind = "iptables" /\ ChainOf(line) = "UNKNOWN")
  BY DEF ParsedLine
<1>2. line.kind \in {"iptables", "nftables"}
  BY <1>1, LinesAssumption
<1>3. ActionOf(line) \in Actions
  BY <1>1 DEF ActionOf, ParseFirewallAction, Actions, Verdicts
<1>4. Value(line, "chain", "UNKNOWN") \in Chains \cup {"UNKNOWN"}
  <2>1. CASE Assigned(line, "chain") = {}
    BY <2>1 DEF Value, LastOf
  <2>2. CASE Assigned(line, "chain") # {}
    <3>1. Assigned(line, "chain") \in SUBSET (DOMAIN line.assigned)
      BY DEF Assigned
    <3>2. PICK i \in Assigned(line, "chain") :
              Value(line, "chain", "UNKNOWN") = line.assigned[i].value
      BY <2>2, <3>1, LastIsOne DEF Value
    <3> QED
      BY <3>2, LinesAssumption DEF Assigned
  <2> QED
    BY <2>1, <2>2
<1>5. ChainOf(line) \in Chains \cup {"UNKNOWN"}
  BY <1>4 DEF ChainOf, Chains
<1>6. /\ rule.line = n /\ rule.dialect = line.kind
      /\ rule.action = ActionOf(line) /\ rule.chain = ChainOf(line)
  BY <1>1 DEF RuleOf
<1>7. rule \in AnyRule
  BY <1>1 DEF AnyRule
<1> QED
  BY <1>1, <1>2, <1>3, <1>5, <1>6, <1>7

-----------------------------------------------------------------------------
(* The invariant: the rules are those of lines, and the warnings about the   *)
(* file as a whole are there when it has been read, and not before.          *)

Searches == {"policy.duplicate", "policy.shadow", "policy.order"}

Searched ==
    /\ Reported("policy.duplicate") = DuplicateRules
    /\ Reported("policy.shadow") = {pair[1] : pair \in ShadowedRules}
    /\ Reported("policy.order") = OrderingWarnings

IInv ==
    /\ TypeOK
    /\ rules \in Seq(AnyRule)
    /\ iptables \in Nat /\ nftables \in Nat
    /\ IF finished THEN Searched ELSE \A w \in warnings : w.code \notin Searches

LEMMA InitInvariant == Init => IInv
<1> SUFFICES ASSUME Init PROVE IInv
  OBVIOUS
<1>1. /\ lines = << >> /\ rules = << >> /\ iptables = 0 /\ nftables = 0
      /\ warnings = {} /\ dialect = "unknown" /\ finished = FALSE
  BY DEF Init
<1>2. /\ lines \in Seq(Lines) /\ Len(lines) = 0 /\ rules \in Seq(AnyRule) /\ DOMAIN rules = {}
  BY <1>1
<1>3. Len(lines) <= MaxLines /\ iptables + nftables <= Len(lines)
  BY <1>1, <1>2, MaxLinesAssumption
<1>4. TypeOK
  <2>1. /\ dialect \in {"unknown", "generic-policy", "iptables", "nftables"}
        /\ finished \in BOOLEAN
    BY <1>1
  <2> QED
    BY <1>2, <1>3, <2>1 DEF TypeOK
<1> QED
  BY <1>1, <1>2, <1>4 DEF IInv

(* Reading a line keeps it: a rule that gets through is the last one.        *)
LEMMA ReadLineKeeps ==
    ASSUME IInv, NEW line \in Lines, ReadLine(line)
    PROVE  IInv'
<1> DEFINE number == Len(lines) + 1
           parsed == ParsedLine(line, number)
<1>1. /\ ~finished /\ Len(lines) < MaxLines /\ lines' = Append(lines, line)
      /\ finished' = finished /\ dialect' = dialect
      /\ iptables' = iptables + (IF line.kind = "iptables" THEN 1 ELSE 0)
      /\ nftables' = nftables + (IF line.kind = "nftables" THEN 1 ELSE 0)
  BY DEF ReadLine
<1>2. /\ lines \in Seq(Lines) /\ Len(lines) \in Nat /\ number \in Nat
      /\ iptables \in Nat /\ nftables \in Nat /\ iptables + nftables <= Len(lines)
  BY DEF IInv, TypeOK
<1>3. lines' \in Seq(Lines) /\ Len(lines') = number /\ Len(lines') <= MaxLines
  BY <1>1, <1>2, MaxLinesAssumption
<1>4. /\ iptables' \in Nat /\ nftables' \in Nat /\ iptables' + nftables' <= Len(lines')
  <2>1. CASE line.kind = "iptables"
    BY <1>1, <1>2, <1>3, <2>1
  <2>2. CASE line.kind # "iptables"
    BY <1>1, <1>2, <1>3, <2>2
  <2> QED
    BY <2>1, <2>2
<1>5. /\ rules \in Seq(AnyRule) /\ Len(rules) \in Nat /\ DOMAIN rules = 1 .. Len(rules)
      /\ \A k \in DOMAIN rules : rules[k].line \in 1 .. Len(lines)
  BY DEF IInv, TypeOK
<1>6. \A w \in warnings' : w.code \notin Searches
  <2>1. \A w \in warnings : w.code \notin Searches
    BY <1>1 DEF IInv
  <2>2. \A message : /\ Warning("policy.rule", message, number, 0).code \notin Searches
                     /\ Warning("policy.validate", message, number, 0).code \notin Searches
    BY DEF Warning, Searches
  <2>3. \/ warnings' = warnings
        \/ warnings' = warnings \cup {Warning("policy.rule", "refused", number, 0)}
        \/ \E rule \in parsed : warnings' = warnings \cup
              {Warning("policy.validate", w, number, 0) : w \in ValidateFirewallRule(rule)}
    BY DEF ReadLine
  <2> QED
    BY <2>1, <2>2, <2>3
<1>7. CASE rules' = rules
  <2>1. TypeOK'
    <3>1. ASSUME NEW k \in DOMAIN rules' PROVE rules'[k].line \in 1 .. Len(lines')
      BY <1>2, <1>3, <1>5, <1>7
    <3> QED
      BY <1>1, <1>3, <1>4, <1>7, <3>1 DEF IInv, TypeOK
  <2> QED
    BY <1>1, <1>4, <1>5, <1>6, <1>7, <2>1 DEF IInv
<1>8. ASSUME NEW rule \in parsed, rules' = Append(rules, rule)
      PROVE  IInv'
  <2>1. /\ rule \in AnyRule /\ rule.line = number /\ rule.action \in Actions
        /\ rule.chain \in Chains \cup (IF rule.dialect = "nftables" THEN {"UNKNOWN"} ELSE {})
    BY <1>2, ParsedLineType
  <2>2. /\ rules' \in Seq(AnyRule) /\ DOMAIN rules' = 1 .. Len(rules) + 1
        /\ rules'[Len(rules) + 1] = rule
        /\ \A k \in DOMAIN rules : rules'[k] = rules[k]
    BY <1>5, <1>8, <2>1
  <2>3. ASSUME NEW k \in DOMAIN rules'
        PROVE  /\ rules'[k].line \in 1 .. Len(lines')
               /\ rules'[k].action \in Actions
               /\ rules'[k].chain \in Chains \cup (IF rules'[k].dialect = "nftables"
                                                   THEN {"UNKNOWN"} ELSE {})
    <3>1. CASE k = Len(rules) + 1
      BY <1>2, <1>3, <2>1, <2>2, <3>1
    <3>2. CASE k \in DOMAIN rules
      <4>1. rules'[k] = rules[k] /\ rules[k].line \in 1 .. Len(lines)
        BY <1>5, <2>2, <3>2
      <4>2. rules'[k].line \in 1 .. Len(lines')
        BY <1>2, <1>3, <4>1
      <4> QED
        BY <3>2, <4>1, <4>2 DEF IInv, TypeOK
    <3> QED
      BY <1>5, <2>2, <3>1, <3>2
  <2>4. ASSUME NEW j \in DOMAIN rules', NEW k \in DOMAIN rules', j < k
        PROVE  rules'[j].line < rules'[k].line
    <3>1. j \in DOMAIN rules /\ rules'[j] = rules[j]
      BY <1>5, <2>2, <2>4
    <3>2. CASE k = Len(rules) + 1
      <4>1. rules'[k].line = number /\ rules[j].line \in 1 .. Len(lines)
        BY <1>5, <2>1, <2>2, <3>1, <3>2
      <4> QED
        BY <1>2, <3>1, <4>1
    <3>3. CASE k \in DOMAIN rules
      BY <2>2, <2>4, <3>1, <3>3 DEF IInv, TypeOK
    <3> QED
      BY <1>5, <2>2, <3>2, <3>3
  <2>5. TypeOK'
    BY <1>1, <1>3, <1>4, <2>3, <2>4 DEF IInv, TypeOK
  <2> QED
    BY <1>1, <1>4, <1>6, <2>2, <2>5 DEF IInv
<1> QED
  BY <1>7, <1>8 DEF ReadLine

(* The search keeps it: its warnings are the only ones of their kinds.       *)
LEMMA FinishKeeps ==
    ASSUME IInv, Finish
    PROVE  IInv'
<1>1. /\ ~finished /\ finished' = TRUE /\ lines' = lines /\ rules' = rules
      /\ iptables' = iptables /\ nftables' = nftables
      /\ dialect' \in {"unknown", "generic-policy", "iptables", "nftables"}
  BY DEF Finish
<1>2. TypeOK'
  BY <1>1 DEF IInv, TypeOK
<1>3. \A w \in warnings : w.code \notin Searches
  BY <1>1 DEF IInv
<1>4. \A w : w \in warnings' <=>
          \/ w \in warnings
          \/ \E n \in DuplicateRules : w = Warning("policy.duplicate", "", n, 0)
          \/ \E p \in ShadowedRules : w = Warning("policy.shadow", "", p[1], p[2])
          \/ \E n \in OrderingWarnings : w = Warning("policy.order", "", n, 0)
  BY DEF Finish
<1>5. ASSUME NEW n PROVE n \in Reported("policy.duplicate")' <=> n \in DuplicateRules
  <2>1. n \in Reported("policy.duplicate")' <=> \E w \in warnings' : w.code = "policy.duplicate" /\ w.line = n
    BY DEF Reported
  <2>2. ASSUME NEW w \in warnings', w.code = "policy.duplicate", w.line = n PROVE n \in DuplicateRules
    <3>1. CASE w \in warnings
      BY <1>3, <2>2, <3>1 DEF Searches
    <3>2. ASSUME NEW m \in DuplicateRules, w = Warning("policy.duplicate", "", m, 0)
          PROVE  n \in DuplicateRules
      BY <2>2, <3>2 DEF Warning
    <3>3. ASSUME NEW p \in ShadowedRules, w = Warning("policy.shadow", "", p[1], p[2])
          PROVE  n \in DuplicateRules
      BY <2>2, <3>3 DEF Warning
    <3>4. ASSUME NEW m \in OrderingWarnings, w = Warning("policy.order", "", m, 0)
          PROVE  n \in DuplicateRules
      BY <2>2, <3>4 DEF Warning
    <3> QED
      BY <1>4, <3>1, <3>2, <3>3, <3>4
  <2>3. ASSUME n \in DuplicateRules PROVE \E w \in warnings' : w.code = "policy.duplicate" /\ w.line = n
    <3>1. Warning("policy.duplicate", "", n, 0) \in warnings'
      BY <1>4, <2>3
    <3>2. Warning("policy.duplicate", "", n, 0).code = "policy.duplicate" /\ Warning("policy.duplicate", "", n, 0).line = n
      BY DEF Warning
    <3> QED
      BY <3>1, <3>2
  <2> QED
    BY <2>1, <2>2, <2>3
<1>6. ASSUME NEW n PROVE n \in Reported("policy.order")' <=> n \in OrderingWarnings
  <2>1. n \in Reported("policy.order")' <=> \E w \in warnings' : w.code = "policy.order" /\ w.line = n
    BY DEF Reported
  <2>2. ASSUME NEW w \in warnings', w.code = "policy.order", w.line = n PROVE n \in OrderingWarnings
    <3>1. CASE w \in warnings
      BY <1>3, <2>2, <3>1 DEF Searches
    <3>2. ASSUME NEW m \in DuplicateRules, w = Warning("policy.duplicate", "", m, 0)
          PROVE  n \in OrderingWarnings
      BY <2>2, <3>2 DEF Warning
    <3>3. ASSUME NEW p \in ShadowedRules, w = Warning("policy.shadow", "", p[1], p[2])
          PROVE  n \in OrderingWarnings
      BY <2>2, <3>3 DEF Warning
    <3>4. ASSUME NEW m \in OrderingWarnings, w = Warning("policy.order", "", m, 0)
          PROVE  n \in OrderingWarnings
      BY <2>2, <3>4 DEF Warning
    <3> QED
      BY <1>4, <3>1, <3>2, <3>3, <3>4
  <2>3. ASSUME n \in OrderingWarnings PROVE \E w \in warnings' : w.code = "policy.order" /\ w.line = n
    <3>1. Warning("policy.order", "", n, 0) \in warnings'
      BY <1>4, <2>3
    <3>2. Warning("policy.order", "", n, 0).code = "policy.order" /\ Warning("policy.order", "", n, 0).line = n
      BY DEF Warning
    <3> QED
      BY <3>1, <3>2
  <2> QED
    BY <2>1, <2>2, <2>3
<1>7. ASSUME NEW n PROVE n \in Reported("policy.shadow")' <=> n \in {pair[1] : pair \in ShadowedRules}
  <2>1. n \in Reported("policy.shadow")' <=> \E w \in warnings' : w.code = "policy.shadow" /\ w.line = n
    BY DEF Reported
  <2>2. ASSUME NEW w \in warnings', w.code = "policy.shadow", w.line = n PROVE n \in {pair[1] : pair \in ShadowedRules}
    <3>1. CASE w \in warnings
      BY <1>3, <2>2, <3>1 DEF Searches
    <3>2. ASSUME NEW m \in DuplicateRules, w = Warning("policy.duplicate", "", m, 0)
          PROVE  n \in {pair[1] : pair \in ShadowedRules}
      BY <2>2, <3>2 DEF Warning
    <3>3. ASSUME NEW p \in ShadowedRules, w = Warning("policy.shadow", "", p[1], p[2])
          PROVE  n \in {pair[1] : pair \in ShadowedRules}
      BY <2>2, <3>3 DEF Warning
    <3>4. ASSUME NEW m \in OrderingWarnings, w = Warning("policy.order", "", m, 0)
          PROVE  n \in {pair[1] : pair \in ShadowedRules}
      BY <2>2, <3>4 DEF Warning
    <3> QED
      BY <1>4, <3>1, <3>2, <3>3, <3>4
  <2>3. ASSUME NEW p \in ShadowedRules, n = p[1]
        PROVE  \E w \in warnings' : w.code = "policy.shadow" /\ w.line = n
    <3>1. Warning("policy.shadow", "", p[1], p[2]) \in warnings'
      BY <1>4
    <3>2. Warning("policy.shadow", "", p[1], p[2]).code = "policy.shadow" /\ Warning("policy.shadow", "", p[1], p[2]).line = n
      BY <2>3 DEF Warning
    <3> QED
      BY <3>1, <3>2
  <2> QED
    BY <2>1, <2>2, <2>3
<1>8. /\ DuplicateRules' = DuplicateRules /\ ShadowedRules' = ShadowedRules
      /\ OrderingWarnings' = OrderingWarnings
  BY <1>1 DEF DuplicateRules, ShadowedRules, OrderingWarnings
<1>9. Searched'
  BY <1>5, <1>6, <1>7, <1>8 DEF Searched
<1>10. rules' \in Seq(AnyRule) /\ iptables' \in Nat /\ nftables' \in Nat
  BY <1>1 DEF IInv
<1> QED
  BY <1>1, <1>2, <1>9, <1>10 DEF IInv

(* Every step keeps the invariant.                                           *)
LEMMA NextInvariant == IInv /\ [Next]_vars => IInv'
<1> SUFFICES ASSUME IInv, [Next]_vars PROVE IInv'
  OBVIOUS
<1>1. ASSUME NEW line \in Lines, ReadLine(line) PROVE IInv'
  BY <1>1, ReadLineKeeps
<1>2. CASE Finish
  BY <1>2, FinishKeeps
<1>3. CASE UNCHANGED vars
  <2>1. /\ lines' = lines /\ rules' = rules /\ iptables' = iptables /\ nftables' = nftables
        /\ warnings' = warnings /\ dialect' = dialect /\ finished' = finished
    BY <1>3 DEF vars
  <2>2. TypeOK'
    BY <2>1 DEF IInv, TypeOK
  <2>3. Searched' <=> Searched
    BY <2>1 DEF Searched, Reported, DuplicateRules, ShadowedRules, OrderingWarnings
  <2>4. rules' \in Seq(AnyRule) /\ iptables' \in Nat /\ nftables' \in Nat
    BY <2>1 DEF IInv
  <2>5. IF finished' THEN Searched' ELSE \A w \in warnings' : w.code \notin Searches
    BY <2>1, <2>3 DEF IInv
  <2> QED
    BY <2>2, <2>4, <2>5 DEF IInv
<1> QED
  BY <1>1, <1>2, <1>3 DEF Next

LEMMA InvariantHolds == Spec => []IInv
BY InitInvariant, NextInvariant, PTL DEF Spec

-----------------------------------------------------------------------------
(* What follows for the rules of one state.                                  *)

(* Two rules of the file on one line are one.                                *)
LEMMA LinesDiffer ==
    ASSUME IInv, NEW j \in DOMAIN rules, NEW k \in DOMAIN rules, rules[j].line = rules[k].line
    PROVE  j = k
<1>1. /\ j \in Nat /\ k \in Nat
      /\ \A i \in DOMAIN rules : rules[i].line \in Nat
      /\ \A h, i \in DOMAIN rules : h < i => rules[h].line < rules[i].line
  BY DEF IInv, TypeOK
<1>2. ~(j < k) /\ ~(k < j)
  BY <1>1
<1> QED
  BY <1>1, <1>2

(* Rules of one scope match the same tuples.                                 *)
LEMMA ScopeMatchesAlike ==
    ASSUME NoVoids, NEW a \in AnyRule, NEW b \in AnyRule, SameScope(a, b), NEW t
    PROVE  FirewallRuleMatchesTuple(a, t) <=> FirewallRuleMatchesTuple(b, t)
<1>1. /\ Sound(a.source) /\ Sound(a.destination)
      /\ Sound(a.source_ports) /\ Sound(a.destination_ports)
      /\ Sound(b.source) /\ Sound(b.destination)
      /\ Sound(b.source_ports) /\ Sound(b.destination_ports)
  BY RuleSound
<1>2. MatchesAddr(a.source, t.source) <=> MatchesAddr(b.source, t.source)
  BY <1>1, RenderedAlike DEF SameScope
<1>3. MatchesAddr(a.destination, t.destination) <=> MatchesAddr(b.destination, t.destination)
  BY <1>1, RenderedAlike DEF SameScope
<1>4. MatchesPort(a.source_ports, t.source_port) <=> MatchesPort(b.source_ports, t.source_port)
  BY <1>1, RenderedAlike DEF SameScope
<1>5. MatchesPort(a.destination_ports, t.destination_port)
        <=> MatchesPort(b.destination_ports, t.destination_port)
  BY <1>1, RenderedAlike DEF SameScope
<1> QED
  BY <1>2, <1>3, <1>4, <1>5 DEF SameScope, FirewallRuleMatchesTuple

(* The rules with a verdict that match a tuple.                              *)
Decisive(t) ==
    {k \in DOMAIN rules : rules[k].action \in Verdicts /\ FirewallRuleMatchesTuple(rules[k], t)}

(* The first of them is not a shadowed rule.                                 *)
LEMMA FirstNotShadowed ==
    ASSUME IInv, NoVoids, NEW t, NEW k \in Decisive(t), \A j \in Decisive(t) : k <= j
    PROVE  \A p \in ShadowedRules : p[1] # rules[k].line
<1> SUFFICES ASSUME NEW p \in ShadowedRules, p[1] = rules[k].line PROVE FALSE
  OBVIOUS
<1>1. PICK i \in DOMAIN rules, j \in DOMAIN rules :
          /\ i < j /\ rules[i].action \in Verdicts /\ SameScope(rules[i], rules[j])
          /\ p[1] = rules[j].line
  BY DEF ShadowedRules
<1>2. k \in DOMAIN rules /\ FirewallRuleMatchesTuple(rules[k], t)
  BY DEF Decisive
<1>3. j = k
  BY <1>1, <1>2, LinesDiffer
<1>4. rules[i] \in AnyRule /\ rules[j] \in AnyRule /\ i \in Nat /\ j \in Nat
  BY <1>1 DEF IInv
<1>5. FirewallRuleMatchesTuple(rules[i], t)
  BY <1>1, <1>2, <1>3, <1>4, ScopeMatchesAlike
<1>6. i \in Decisive(t)
  BY <1>1, <1>5 DEF Decisive
<1> QED
  BY <1>1, <1>3, <1>4, <1>6

(* Leaving the shadowed rules aside changes no decision.                     *)
LEMMA ShadowedAside ==
    ASSUME IInv, NoVoids, NEW t, NEW S, S = {pair[1] : pair \in ShadowedRules}
    PROVE  Deciding(S, t) = Deciding({}, t)
<1>1. Deciding({}, t) = {k \in Decisive(t) : \A j \in Decisive(t) : k <= j}
  BY DEF Deciding, Decisive
<1> DEFINE left == {k \in Decisive(t) : rules[k].line \notin S}
<1>2. Deciding(S, t) = {k \in left : \A j \in left : k <= j}
  BY DEF Deciding, Decisive
<1>3. Decisive(t) \in SUBSET Nat
  BY DEF Decisive, IInv
<1>4. ASSUME NEW k \in Decisive(t), \A j \in Decisive(t) : k <= j PROVE k \in left
  BY <1>4, FirstNotShadowed
<1>5. ASSUME NEW k \in left, \A j \in left : k <= j PROVE \A j \in Decisive(t) : k <= j
  <2>1. PICK m \in Decisive(t) : \A j \in Decisive(t) : m <= j
    <3>1. Decisive(t) # {}
      OBVIOUS
    <3> QED
      BY <1>3, <3>1, LeastExists
  <2>2. m \in left
    BY <1>4, <2>1
  <2>3. k <= m /\ k \in Nat /\ m \in Nat
    BY <1>3, <1>5, <2>2
  <2> QED
    BY <1>3, <2>1, <2>3
<1> QED
  BY <1>1, <1>2, <1>4, <1>5

(* A rule that allows something behind a broad deny never decides.           *)
LEMMA LateAside ==
    ASSUME IInv, NoVoids, NEW t, NEW k \in Deciding({}, t)
    PROVE  rules[k].line \notin OrderingWarnings
<1> SUFFICES ASSUME rules[k].line \in OrderingWarnings PROVE FALSE
  OBVIOUS
<1>1. k \in Decisive(t) /\ (\A j \in Decisive(t) : k <= j) /\ k \in DOMAIN rules
  BY DEF Deciding, Decisive
<1>2. PICK j \in DOMAIN rules, i \in DOMAIN rules :
          /\ rules[j].line = rules[k].line
          /\ i < j /\ BroadDrop(rules[i]) /\ rules[i].chain = rules[j].chain
  BY DEF OrderingWarnings
<1>3. j = k
  BY <1>1, <1>2, LinesDiffer
<1>4. i \in Nat /\ j \in Nat /\ rules[i] \in AnyRule
  BY <1>2 DEF IInv
<1>5. /\ Sound(rules[i].source) /\ Sound(rules[i].destination)
      /\ Sound(rules[i].source_ports) /\ Sound(rules[i].destination_ports)
  BY <1>4, RuleSound
<1>6. /\ MatchesAddr(rules[i].source, t.source)
      /\ MatchesAddr(rules[i].destination, t.destination)
      /\ MatchesPort(rules[i].source_ports, t.source_port)
      /\ MatchesPort(rules[i].destination_ports, t.destination_port)
  BY <1>2, <1>5, AnyMatches DEF BroadDrop
<1>7. FirewallRuleMatchesTuple(rules[i], t) /\ rules[i].action \in Verdicts
  BY <1>1, <1>2, <1>3, <1>6 DEF FirewallRuleMatchesTuple, BroadDrop, Decisive, Verdicts
<1>8. i \in Decisive(t)
  BY <1>2, <1>7 DEF Decisive
<1> QED
  BY <1>1, <1>2, <1>3, <1>4, <1>8

(* A rule that is reported as a duplicate has a twin.                        *)
LEMMA DuplicateHasTwin ==
    ASSUME IInv, NoVoids, NEW number \in DuplicateRules
    PROVE  HasTwin(number)
<1> DEFINE same(k) == {j \in DOMAIN rules :
                          NormalizeFirewallRule(rules[j]) = NormalizeFirewallRule(rules[k])}
<1>1. PICK k \in DOMAIN rules : number = rules[k].line /\ same(k) # {k} /\ k = Min(same(k))
  BY DEF DuplicateRules
<1>0. DOMAIN rules \in SUBSET Nat /\ \A i \in DOMAIN rules : rules[i] \in AnyRule
  <2>1. rules \in Seq(AnyRule)
    BY DEF IInv
  <2> QED
    BY <2>1
<1>2. same(k) \in SUBSET Nat /\ k \in same(k)
  BY <1>0, <1>1
<1>3. PICK j \in same(k) : j # k
  BY <1>1, <1>2
<1>4. \A i \in same(k) : k <= i
  <2>1. \E m \in same(k) : \A i \in same(k) : m <= i
    BY <1>2, LeastExists
  <2> HIDE DEF same
  <2> QED
    BY <1>1, <2>1 DEF Min
<1>5. j \in DOMAIN rules /\ k < j
  BY <1>2, <1>3, <1>4
<1>6. rules[j] \in AnyRule /\ rules[k] \in AnyRule
  BY <1>0, <1>1, <1>5
<1>7. SameScope(rules[k], rules[j]) /\ rules[k].action = rules[j].action
  BY <1>3 DEF NormalizeFirewallRule, SameScope
<1> HIDE DEF same
<1>8. \A t \in Tuples : FirewallRuleMatchesTuple(rules[k], t)
                         <=> FirewallRuleMatchesTuple(rules[j], t)
  BY <1>6, <1>7, ScopeMatchesAlike
<1>9. rules[k].line = number
  BY <1>1
<1> QED
  BY <1>5, <1>7, <1>8, <1>9 DEF HasTwin

-----------------------------------------------------------------------------
(* A rule that gets through has an action and a chain, and its own line.     *)
THEOREM TypeCorrect == Spec => []TypeOK
<1>1. IInv => TypeOK
  BY DEF IInv
<1> QED
  BY <1>1, InvariantHolds, PTL

(* Without an "any" negated, the rules that are reported as shadowed can all *)
(* be taken out at once: the same rules decide.                              *)
THEOREM ShadowedAlwaysRemovable ==
    ASSUME NoVoids
    PROVE  Spec => []ShadowedRemovable
<1>1. IInv => ShadowedRemovable
  BY ShadowedAside DEF ShadowedRemovable, IInv, Searched
<1> QED
  BY <1>1, InvariantHolds, PTL

(* Without an "any" negated, a rule reported behind a broad deny decides     *)
(* nothing.                                                                  *)
THEOREM LateNeverEverDecides ==
    ASSUME NoVoids
    PROVE  Spec => []LateNeverDecides
<1>1. IInv => LateNeverDecides
  BY LateAside DEF LateNeverDecides, IInv, Searched
<1> QED
  BY <1>1, InvariantHolds, PTL

(* Without an "any" negated, a rule reported as a duplicate has a twin.      *)
THEOREM DuplicatesAlwaysMatchAlike ==
    ASSUME NoVoids
    PROVE  Spec => []DuplicatesMatchAlike
<1>1. IInv => DuplicatesMatchAlike
  BY DuplicateHasTwin DEF DuplicatesMatchAlike, IInv, Searched
<1> QED
  BY <1>1, InvariantHolds, PTL
=============================================================================
