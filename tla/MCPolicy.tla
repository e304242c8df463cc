------------------------------- MODULE MCPolicy -------------------------------
(* Lines of firewall exports for Policy, and all tuples of a small network.  *)
EXTENDS Policy

Good(field, value) == [field |-> field, value |-> value, good |-> TRUE]
Bad(field)         == [field |-> field, value |-> "", good |-> FALSE]

Only(ranges) == [any |-> FALSE, negated |-> FALSE, ranges |-> ranges, variables |-> << >>]
Not(expr)    == [expr EXCEPT !.negated = TRUE]
Ssh          == Only(<< <<22, 22>> >>)

Iptables(assigned) == [kind |-> "iptables", mentions |-> {}, assigned |-> assigned]
Nftables(assigned, mentions) ==
    [kind |-> "nftables", mentions |-> mentions, assigned |-> assigned]
In(assigned)  == Iptables(<<Good("chain", "INPUT")>> \o assigned)
Target(value) == <<Good("target", value)>>

DropAll    == In(Target("DENY"))
DropOut    == Iptables(<<Good("chain", "OUTPUT")>> \o Target("REJECT"))
AllowSsh   == In(<<Good("protocol", "tcp"), Good("destination_ports", Ssh)>> \o Target("ACCEPT"))
DropSsh    == In(<<Good("protocol", "tcp"), Good("destination_ports", Ssh)>> \o Target("DROP"))
AllowTcp   == In(<<Good("protocol", "tcp")>> \o Target("ACCEPT"))
LogTcp     == In(<<Good("protocol", "tcp")>> \o Target("LOG"))
NotFrom    == In(<<Good("source", Not(Only(<< <<0>> >>)))>> \o Target("ACCEPT"))
OutFrom    == Iptables(<<Good("chain", "OUTPUT"), Good("source", Not(Only(<< <<0>> >>)))>>
                       \o Target("ACCEPT"))
NftSsh     == Nftables(<<Good("protocol", "tcp"), Good("destination_ports", Ssh)>>
                       \o Target("ACCEPT"), {"INPUT", "FORWARD"})
NftNowhere == Nftables(<<Good("source", Only(<< <<0>> >>))>> \o Target("DROP"), {})
NoPort     == In(<<Bad("destination_ports")>> \o Target("DROP"))
NoChain    == Iptables(<<Bad("chain")>> \o Target("DROP"))
NoTarget   == In(<<Good("protocol", "tcp")>> \o Target(""))
Comment    == [kind |-> "other", mentions |-> {}, assigned |-> << >>]

AuditLines == {DropAll, DropOut, AllowSsh, DropSsh, AllowTcp, LogTcp, NotFrom, OutFrom,
               NftSsh, NftNowhere, NoPort, NoChain, NoTarget, Comment}

InsideOnly     == In(<<Good("interface_in", "inside")>> \o Target("ACCEPT"))
InterfaceLines == {InsideOnly, DropAll, AllowSsh, Comment, NoPort, NoChain}

Tuple(chain, protocol, source, destination, source_port, destination_port) ==
    [chain |-> chain, protocol |-> protocol, source |-> source, destination |-> destination,
     source_port |-> source_port, destination_port |-> destination_port]
AllTuples ==
    {Tuple(chain, protocol, source, destination, 1024, port) :
        chain \in {"INPUT", "OUTPUT", "UNKNOWN"}, protocol \in {"tcp", "udp", "any"},
        source \in Addresses, destination \in {[k \in 1 .. AddrBits |-> 0]}, port \in {22, 80}}
=============================================================================
