-------------------------------- MODULE Rules --------------------------------
(***************************************************************************)
(* What a signature rule is, what is wrong with it and which packets it    *)
(* matches, after src/src/rules/rules.cpp and src/include/rules/rules.hpp. *)
(*                                                                         *)
(* A line of a rule file is a record whose header fields are read already; *)
(* "kind" says whether it is blank, a rule, or malformed for a "reason".   *)
(* Texts that are searched are sequences of words, case folded.            *)
(***************************************************************************)
EXTENDS Expressions

CONSTANT MaxU32            \* the largest sid or rev: 2^32 - 1

ASSUME MaxU32Assumption == MaxU32 \in Nat

WebPorts == {80, 443}

-----------------------------------------------------------------------------
(* Reading rules.                                                          *)

(* The value of the first option with the key counts.                      *)
OptionValue(options, key, default) ==
    LET at == {i \in DOMAIN options : options[i].key = key}
    IN  IF at = {} THEN default ELSE options[Min(at)].value

(* A number that does not fit is as good as no option.                     *)
U32Option(options, key) ==
    LET value == OptionValue(options, key, 0)
    IN  IF value <= MaxU32 THEN value ELSE 0

(* parse_rule_line, for a line that is well formed.                        *)
ParsedRule(line) ==
    [action |-> line.action, protocol |-> line.protocol,
     source |-> line.source, source_ports |-> line.source_ports,
     direction |-> line.direction,
     destination |-> line.destination, destination_ports |-> line.destination_ports,
     options   |-> line.options,
     msg       |-> OptionValue(line.options, "msg", ""),
     content   |-> OptionValue(line.options, "content", << >>),
     sid       |-> U32Option(line.options, "sid"),
     rev       |-> U32Option(line.options, "rev"),
     classtype |-> OptionValue(line.options, "classtype", "")]

ReferencesPort(rule, ports) ==
    \E p \in ports : MatchesPort(rule.source_ports, p) \/ MatchesPort(rule.destination_ports, p)

Repeated(options, key) ==
    \E i, j \in DOMAIN options : i # j /\ options[i].key = key /\ options[j].key = key

ValidateRule(rule) ==
    {w \in {"unknown action", "unknown protocol", "missing sid", "missing rev",
            "missing msg", "dns port", "http port", "repeated option"} :
        \/ w = "unknown action"   /\ rule.action = "unknown"
        \/ w = "unknown protocol" /\ rule.protocol = "unknown"
        \/ w = "missing sid"      /\ rule.sid = 0
        \/ w = "missing rev"      /\ rule.rev = 0
        \/ w = "missing msg"      /\ rule.msg = ""
        \/ w = "dns port"         /\ rule.protocol = "dns" /\ ~ReferencesPort(rule, {53})
        \/ w = "http port"        /\ rule.protocol = "http" /\ ~ReferencesPort(rule, WebPorts)
        \/ w = "repeated option"  /\ \E key \in {"sid", "rev", "msg", "classtype",
                                                  "reference", "metadata"} :
                                         Repeated(rule.options, key)}

(* Fault: the ports are not part of the logic.                             *)
RuleKeyOfAddresses(rule) ==
    <<rule.action, rule.protocol, Rendered(rule.source), rule.direction,
      Rendered(rule.destination), rule.content>>

RuleKey(rule) ==
    <<rule.action, rule.protocol, Rendered(rule.source), Rendered(rule.source_ports),
      rule.direction, Rendered(rule.destination), Rendered(rule.destination_ports),
      rule.content>>

(* A message and the number it quotes, if any.                             *)
Warning(code, message, number) == [code |-> code, message |-> message, number |-> number]

(* Fault: two rules with the same key are not yet duplicates.              *)
DuplicateRuleKeysAboveTwo(rules) ==
    LET sharing(i) == {j \in DOMAIN rules : RuleKey(rules[j]) = RuleKey(rules[i])}
    IN  {Cardinality(sharing(i)) : i \in DOMAIN rules} \ {1, 2}

(* Keys that more than one rule of a file has: the number of these rules.  *)
DuplicateRuleKeys(rules) ==
    LET sharing(i) == {j \in DOMAIN rules : RuleKey(rules[j]) = RuleKey(rules[i])}
    IN  {Cardinality(sharing(i)) : i \in DOMAIN rules} \ {1}

SidRevisionConflicts(rules) ==
    {r.sid : r \in {q \in Range(rules) :
        q.sid # 0 /\ \E s \in Range(rules) : s.sid = q.sid /\ s.rev # q.rev}}

(* The ways to pick the elements at these positions in their order: one.   *)
Ascending(positions) ==
    {from \in [1 .. Cardinality(positions) -> positions] :
        \A i, j \in DOMAIN from : i < j => from[i] < from[j]}

(* parse_rule_text: the rules of the good lines, in their order.           *)
ParsedRules(lines) ==
    {[i \in DOMAIN from |-> ParsedRule(lines[from[i]])] :
        from \in Ascending({k \in DOMAIN lines : lines[k].kind = "rule"})}

(* The warnings of a file with these lines and the rules of them.          *)
FileWarnings(lines, rules) ==
    {Warning("rule.parse", l.reason, 0) : l \in {k \in Range(lines) : k.kind = "bad"}}
    \cup (UNION {{Warning("rule.validate", w, 0) : w \in ValidateRule(r)} : r \in Range(rules)})
    \cup {Warning("rule.duplicate", "signatures", n) : n \in DuplicateRuleKeys(rules)}
    \cup {Warning("rule.sid", "revisions", s) : s \in SidRevisionConflicts(rules)}

-----------------------------------------------------------------------------
(* Matching packets.  "texts" are the names and the answers of the DNS     *)
(* message, if there is one; ports are 0 without TCP and UDP.              *)

ProtoMatches(protocol, pkt) ==
    \/ protocol = "any"
    \/ /\ pkt.ipv4
       /\ \/ protocol = "ip"
          \/ protocol \in {"tcp", "udp", "icmp"} /\ pkt.transport = protocol
          \/ protocol = "dns" /\ pkt.dns
          \/ protocol = "http" /\ pkt.transport = "tcp"
                               /\ {pkt.source_port, pkt.destination_port} \cap WebPorts # {}

FlowMatches(rule, from, from_port, to, to_port) ==
    /\ MatchesAddr(rule.source, from) /\ MatchesPort(rule.source_ports, from_port)
    /\ MatchesAddr(rule.destination, to) /\ MatchesPort(rule.destination_ports, to_port)

Occurs(needle, text) ==
    \E i \in 0 .. Len(text) - Len(needle) : SubSeq(text, i + 1, i + Len(needle)) = needle

RuleMatchesPacket(rule, pkt) ==
    /\ ProtoMatches(rule.protocol, pkt)
    /\ pkt.ipv4
    /\ \/ FlowMatches(rule, pkt.source, pkt.source_port, pkt.destination, pkt.destination_port)
       \/ rule.direction = "<>" /\ FlowMatches(rule, pkt.destination, pkt.destination_port,
                                               pkt.source, pkt.source_port)
    /\ rule.content = << >> \/ \E t \in pkt.texts : Occurs(rule.content, t)
=============================================================================
