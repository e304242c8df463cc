-------------------------------- MODULE Policy --------------------------------
(***************************************************************************)
(* Auditing a firewall export: parse_policy_text and what it calls, in     *)
(* src/src/policy/policy.cpp.  The lines are read one by one into rules;   *)
(* then the file is searched for duplicate, shadowed and misplaced rules.  *)
(*                                                                         *)
(* A line is what its words assign: "-s A" is the field source with the    *)
(* value A, "tcp dport P" is protocol and destination_ports, and so on, in *)
(* the order of the line; "good" is whether the value can be read.  The    *)
(* settings of a file without rules (INI, CSV, JSON) are left out.         *)
(***************************************************************************)
EXTENDS Expressions, FiniteSetsExt

CONSTANTS Lines,           \* the lines that a file may have
          MaxLines,        \* bound on their number
          Tuples,          \* what rules are matched against
          Interfaces       \* where packets come in

Chains    == {"INPUT", "OUTPUT", "FORWARD", "PREROUTING", "POSTROUTING"}
Verdicts  == {"ACCEPT", "DROP", "REJECT"}
Actions   == Verdicts \cup {"LOG", "RETURN", "JUMP"}

(* Only names of chains are good for a chain.                              *)
ASSUME LinesAssumption ==
    \A line \in Lines :
        /\ line.kind \in {"iptables", "nftables", "other"}
        /\ DOMAIN line.assigned = 1 .. Len(line.assigned) /\ Len(line.assigned) \in Nat
        /\ \A i \in DOMAIN line.assigned :
              line.assigned[i].field = "chain" /\ line.assigned[i].good
                  => line.assigned[i].value \in Chains
ASSUME MaxLinesAssumption == MaxLines \in Nat

VARIABLES lines,           \* the lines read so far
          rules,           \* the rules of them
          iptables,        \* how many lines looked like rules of iptables,
          nftables,        \*   and of nftables
          warnings,
          dialect,         \* what most of the lines are
          finished

vars == <<lines, rules, iptables, nftables, warnings, dialect, finished>>

-----------------------------------------------------------------------------
(* Reading a line.                                                         *)

Everything == [any |-> TRUE, negated |-> FALSE, ranges |-> << >>, variables |-> << >>]
Expressed  == {"source", "destination", "source_ports", "destination_ports"}

(* Where a line assigns to a field; a value that cannot be read is none.   *)
Assigned(line, field) ==
    {i \in DOMAIN line.assigned : line.assigned[i].field = field /\ line.assigned[i].good}

(* The last of the values at these places.                                 *)
LastOf(line, at, default) == IF at = {} THEN default ELSE line.assigned[Max(at)].value

Value(line, field, default) == LastOf(line, Assigned(line, field), default)

ParseFirewallAction(token) ==
    CASE token \in {"ACCEPT", "ALLOW"} -> "ACCEPT"
      [] token \in {"DROP", "DENY"}    -> "DROP"
      [] token \in {"REJECT", "LOG", "RETURN"} -> token
      [] OTHER                         -> "JUMP"

(* The last target that is not empty says what is done.                    *)
ActionOf(line) ==
    LET at == {i \in Assigned(line, "target") : line.assigned[i].value # ""}
    IN  IF at = {} THEN "UNKNOWN" ELSE ParseFirewallAction(LastOf(line, at, ""))

(* A line of nftables that names no chain is of the one that it mentions.  *)
ChainOf(line) ==
    LET named == Value(line, "chain", "UNKNOWN")
    IN  IF named # "UNKNOWN" \/ line.kind # "nftables" THEN named
        ELSE IF "INPUT" \in line.mentions   THEN "INPUT"
        ELSE IF "OUTPUT" \in line.mentions  THEN "OUTPUT"
        ELSE IF "FORWARD" \in line.mentions THEN "FORWARD"
        ELSE named

RuleOf(line, number) ==
    [line |-> number, dialect |-> line.kind,
     chain             |-> ChainOf(line),
     protocol          |-> Value(line, "protocol", "any"),
     source            |-> Value(line, "source", Everything),
     destination       |-> Value(line, "destination", Everything),
     source_ports      |-> Value(line, "source_ports", Everything),
     destination_ports |-> Value(line, "destination_ports", Everything),
     interface_in      |-> Value(line, "interface_in", ""),
     interface_out     |-> Value(line, "interface_out", ""),
     state             |-> Value(line, "state", ""),
     target            |-> Value(line, "target", ""),
     action            |-> ActionOf(line)]

(* parse_iptables_rule and parse_nftables_rule: the rule of a line, {} if  *)
(* the line is refused.                                                    *)
ParsedLine(line, number) ==
    IF \/ line.kind = "other"
       \/ \E i \in DOMAIN line.assigned :
              line.assigned[i].field \in Expressed /\ ~line.assigned[i].good
       \/ line.kind = "iptables" /\ ChainOf(line) = "UNKNOWN"
       \/ ActionOf(line) = "UNKNOWN"
    THEN {}
    ELSE {RuleOf(line, number)}

ValidateFirewallRule(rule) ==
    {w \in {"chain", "ports", "only output", "only input"} :
        \/ w = "chain" /\ rule.chain = "UNKNOWN"
        \/ w = "ports" /\ rule.protocol = "any"
                       /\ ~(rule.source_ports.any /\ rule.destination_ports.any)
        \/ w = "only output" /\ rule.chain \in {"INPUT", "FORWARD"}
                             /\ rule.interface_out # "" /\ rule.interface_in = ""
        \/ w = "only input"  /\ rule.chain = "OUTPUT"
                             /\ rule.interface_in # "" /\ rule.interface_out = ""}

-----------------------------------------------------------------------------
(* Searching the rules.                                                    *)

(* Fault: the chain is not part of it.                                     *)
NormalizeFirewallRuleUnchained(r) ==
    <<r.dialect, r.protocol, Rendered(r.source), Rendered(r.source_ports),
      Rendered(r.destination), Rendered(r.destination_ports), r.action,
      r.interface_in, r.interface_out, r.state>>

NormalizeFirewallRule(r) ==
    <<r.dialect, r.chain, r.protocol, Rendered(r.source), Rendered(r.source_ports),
      Rendered(r.destination), Rendered(r.destination_ports), r.action,
      r.interface_in, r.interface_out, r.state>>

(* The first lines of rules that are in the file more than once.           *)
DuplicateRules ==
    {rules[i].line : i \in {k \in DOMAIN rules :
        LET same == {j \in DOMAIN rules :
                        NormalizeFirewallRule(rules[j]) = NormalizeFirewallRule(rules[k])}
        IN  same # {k} /\ k = Min(same)}}

(* Fault: ports are not part of it.                                        *)
SameScopeOfAddresses(a, b) ==
    /\ a.chain = b.chain /\ a.protocol = b.protocol
    /\ Rendered(a.source) = Rendered(b.source)
    /\ Rendered(a.destination) = Rendered(b.destination)

SameScope(a, b) ==
    /\ a.chain = b.chain /\ a.protocol = b.protocol
    /\ Rendered(a.source) = Rendered(b.source)
    /\ Rendered(a.destination) = Rendered(b.destination)
    /\ Rendered(a.source_ports) = Rendered(b.source_ports)
    /\ Rendered(a.destination_ports) = Rendered(b.destination_ports)

(* The line of each shadowed rule and that of the one that shadows it.     *)
ShadowedRules ==
    {<<rules[p[2]].line, rules[p[1]].line>> :
        p \in {q \in (DOMAIN rules) \X (DOMAIN rules) :
                  q[1] < q[2] /\ rules[q[1]].action \in Verdicts
                              /\ SameScope(rules[q[1]], rules[q[2]])}}

BroadDrop(rule) ==
    /\ rule.source.any /\ rule.destination.any
    /\ rule.source_ports.any /\ rule.destination_ports.any
    /\ rule.protocol = "any" /\ rule.action \in {"DROP", "REJECT"}

(* Fault: a broad deny counts in every chain.                              *)
OrderingWarningsUnchained ==
    {rules[j].line : j \in {k \in DOMAIN rules :
        rules[k].action = "ACCEPT" /\ \E i \in DOMAIN rules : i < k /\ BroadDrop(rules[i])}}

(* The lines that allow something behind a broad deny of their chain.      *)
OrderingWarnings ==
    {rules[j].line : j \in {k \in DOMAIN rules :
        /\ rules[k].action = "ACCEPT"
        /\ \E i \in DOMAIN rules : /\ i < k /\ BroadDrop(rules[i])
                                   /\ rules[i].chain = rules[k].chain}}

-----------------------------------------------------------------------------
(* parse_policy_text.                                                      *)

(* A warning about a line, and perhaps about another line before it.       *)
Warning(code, message, line, earlier) ==
    [code |-> code, message |-> message, line |-> line, earlier |-> earlier]

Init ==
    /\ lines = << >> /\ rules = << >>
    /\ iptables = 0 /\ nftables = 0
    /\ warnings = {} /\ dialect = "unknown" /\ finished = FALSE

(* A line counts for its dialect even if it is refused.                    *)
ReadLine(line) ==
    /\ ~finished /\ Len(lines) < MaxLines
    /\ lines' = Append(lines, line)
    /\ iptables' = iptables + (IF line.kind = "iptables" THEN 1 ELSE 0)
    /\ nftables' = nftables + (IF line.kind = "nftables" THEN 1 ELSE 0)
    /\ LET number == Len(lines) + 1
           parsed == ParsedLine(line, number)
       IN  \/ /\ parsed = {}
              /\ warnings' = IF line.kind = "other" THEN warnings
                             ELSE warnings \cup {Warning("policy.rule", "refused", number, 0)}
              /\ UNCHANGED rules
           \/ \E rule \in parsed :
              /\ rules' = Append(rules, rule)
              /\ warnings' = warnings \cup
                    {Warning("policy.validate", w, number, 0) : w \in ValidateFirewallRule(rule)}
    /\ UNCHANGED <<dialect, finished>>

(* The settings that a file without rules may have decide its dialect.     *)
Finish ==
    /\ ~finished
    /\ finished' = TRUE
    /\ dialect' \in IF rules = << >> THEN {"unknown", "generic-policy"}
                    ELSE {IF iptables >= nftables THEN "iptables" ELSE "nftables"}
    /\ warnings' = warnings
          \cup {Warning("policy.duplicate", "", n, 0) : n \in DuplicateRules}
          \cup {Warning("policy.shadow", "", p[1], p[2]) : p \in ShadowedRules}
          \cup {Warning("policy.order", "", n, 0) : n \in OrderingWarnings}
    /\ UNCHANGED <<lines, rules, iptables, nftables>>

Next == (\E line \in Lines : ReadLine(line)) \/ Finish

Spec == Init /\ [][Next]_vars

-----------------------------------------------------------------------------
(* What the rules do to a packet, or a set of packets if its chain or its  *)
(* protocol is left open.                                                  *)

FirewallRuleMatchesTuple(r, t) ==
    /\ r.chain = t.chain \/ r.chain = "UNKNOWN" \/ t.chain = "UNKNOWN"
    /\ r.protocol = t.protocol \/ r.protocol = "any" \/ t.protocol = "any"
    /\ MatchesAddr(r.source, t.source) /\ MatchesAddr(r.destination, t.destination)
    /\ MatchesPort(r.source_ports, t.source_port)
    /\ MatchesPort(r.destination_ports, t.destination_port)

(* The rule that decides on a tuple: the first with a verdict that matches *)
(* it, the rules on some lines left aside.                                 *)
Deciding(aside, t) ==
    LET decisive == {k \in DOMAIN rules : /\ rules[k].line \notin aside
                                          /\ rules[k].action \in Verdicts
                                          /\ FirewallRuleMatchesTuple(rules[k], t)}
    IN  {k \in decisive : \A j \in decisive : k <= j}

(* No expression is "any" negated, which is rendered like that of nothing. *)
Sound(expr) ==
    /\ expr.any \in BOOLEAN /\ expr.negated \in BOOLEAN
    /\ ~(expr.any /\ expr.negated)

NoVoids ==
    \A line \in Lines : \A i \in DOMAIN line.assigned :
        line.assigned[i].field \in Expressed /\ line.assigned[i].good
            => Sound(line.assigned[i].value)

Reported(code) == {w.line : w \in {v \in warnings : v.code = code}}

-----------------------------------------------------------------------------
(* Properties.                                                             *)

(* What the variables hold.  A rule that got through has an action, and is *)
(* in a chain if it is one of iptables; lines are numbered as they come.   *)
TypeOK ==
    /\ lines \in Seq(Lines) /\ Len(lines) <= MaxLines
    /\ iptables + nftables <= Len(lines)
    /\ dialect \in {"unknown", "generic-policy", "iptables", "nftables"}
    /\ finished \in BOOLEAN
    /\ \A k \in DOMAIN rules :
          /\ rules[k].line \in 1 .. Len(lines)
          /\ rules[k].action \in Actions
          /\ rules[k].chain \in Chains \cup (IF rules[k].dialect = "nftables"
                                             THEN {"UNKNOWN"} ELSE {})
    /\ \A j, k \in DOMAIN rules : j < k => rules[j].line < rules[k].line

(* The rules that are reported as shadowed, all of them at once, can be    *)
(* taken out of the file: the same rule decides on every tuple as before.  *)
ShadowedRemovable ==
    finished =>
        \A t \in Tuples : Deciding(Reported("policy.shadow"), t) = Deciding({}, t)

(* A rule that is reported to allow something behind a broad deny decides  *)
(* on nothing at all.                                                      *)
LateNeverDecides ==
    finished =>
        \A t \in Tuples : \A k \in Deciding({}, t) : rules[k].line \notin Reported("policy.order")

(* For the rule on a line there is one on a later line of the same action  *)
(* that matches the same tuples.                                           *)
HasTwin(number) ==
    \E j, k \in DOMAIN rules :
        /\ j < k /\ rules[j].line = number
        /\ rules[j].action = rules[k].action
        /\ \A t \in Tuples : FirewallRuleMatchesTuple(rules[j], t)
                               <=> FirewallRuleMatchesTuple(rules[k], t)

(* A rule that is reported as a duplicate has a twin.                      *)
DuplicatesMatchAlike ==
    finished => \A number \in Reported("policy.duplicate") : HasTwin(number)

(* A rule with an interface only sees what comes in there.                 *)
Sees(rule, interface) == rule.interface_in \in {"", interface}

(* A rule that is reported as shadowed by another is shadowed by it on     *)
(* every interface on which it sees packets at all.                        *)
ShadowedEverywhere ==
    finished =>
        \A w \in {v \in warnings : v.code = "policy.shadow"} : \A interface \in Interfaces :
            \E i, j \in DOMAIN rules :
                /\ rules[j].line = w.line /\ rules[i].line = w.earlier
                /\ Sees(rules[j], interface) => Sees(rules[i], interface)
=============================================================================
