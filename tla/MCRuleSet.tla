------------------------------ MODULE MCRuleSet ------------------------------
(* Small sets of rules for RuleSet, by what they exercise.                  *)
EXTENDS RuleSet

Anything     == [any |-> TRUE, negated |-> FALSE, ranges |-> << >>, variables |-> << >>]
Only(ranges) == [any |-> FALSE, negated |-> FALSE, ranges |-> ranges, variables |-> << >>]
Not(expr)    == [expr EXCEPT !.negated = TRUE]

Option(key, value) == [key |-> key, value |-> value]
Numbered(sid, rev) == <<Option("msg", "m"), Option("sid", sid), Option("rev", rev)>>

Rule(protocol, source, source_ports, direction, destination, destination_ports, options) ==
    [kind |-> "rule", action |-> "alert", protocol |-> protocol, source |-> source,
     source_ports |-> source_ports, direction |-> direction, destination |-> destination,
     destination_ports |-> destination_ports, options |-> options]

Malformed == [kind |-> "bad", reason |-> "rule header must have seven fields"]
Blank     == [kind |-> "blank"]

(* A default constructed SignatureRule.                                     *)
EmptyRule ==
    [action |-> "unknown", protocol |-> "unknown", source |-> Anything, source_ports |-> Anything,
     direction |-> "->", destination |-> Anything, destination_ports |-> Anything,
     options |-> << >>, msg |-> "", content |-> << >>, sid |-> 0, rev |-> 0,
     classtype |-> ""]

Web(direction, options) ==
    Rule("tcp", Only(<< <<0>> >>), Anything, direction, Anything, Only(<< <<80, 80>> >>), options)

(* Two revisions of one sid, and another sid with a revision that is too    *)
(* large.                                                                   *)
Revision1 == Web("->", Numbered(1, 1) \o <<Option("classtype", "web")>>)
Revision2 == Web("<>", Numbered(1, 2))
Query     == Rule("dns", Anything, Anything, "->", Anything, Only(<< <<1, 52>> >>),
                  Numbered(2, MaxU32 + 1) \o <<Option("classtype", "web"), Option("sid", 1)>>)
ManagedLines   == {Revision1, Revision2, Query, Malformed, Blank}
ManagedObjects == {EmptyRule}
NoObjects      == {}

(* Rules that differ in one field each, and the same rule again.            *)
Both       == Rule("any", Only(<< <<0>> >>), Only(<< <<53, 80>> >>), "<>",
                   Not(Only(<< <<0, 1>> >>)), Not(Only(<< <<80, 443>> >>)), Numbered(1, 1))
BothAgain  == [Both EXCEPT !.options = Numbered(1, 2)]
Web80      == Web("<>", Numbered(2, 1))
Web443     == [Web80 EXCEPT !.destination_ports = Only(<< <<443, 443>> >>)]
Content    == Rule("dns", Anything, Anything, "<>", Anything, Anything,
                   Numbered(3, 1) \o <<Option("content", <<"b">>)>>)
MatchLines == {Both, BothAgain, Web80, Web443, Content}

Tcp(from, from_port, to, to_port) ==
    [ipv4 |-> TRUE, transport |-> "tcp", source |-> from, source_port |-> from_port,
     destination |-> to, destination_port |-> to_port, dns |-> FALSE, texts |-> {}]
Dns(from, to, texts) ==
    [Tcp(from, 53, to, 1024) EXCEPT !.transport = "udp", !.dns = TRUE, !.texts = texts]

TcpPackets == {Tcp(a, p, b, q) : a, b \in Addresses, p, q \in {53, 80, 443}}
DnsPackets == {Dns(<<0, 1>>, <<1, 0>>, texts) :
                  texts \in {{}, {<<"a", "b">>}, {<<"a">>, <<"b", "c">>}}}
AllPackets == TcpPackets \cup DnsPackets
NoPackets  == {}
=============================================================================
