-------------------------- MODULE MCIndicatorIndex --------------------------
(* Small sets of indicators for IndicatorIndex and the array of its trie,  *)
(* by what they exercise.                                                  *)
EXTENDS CidrTrie

Given(value, role) == [value |-> value, role |-> role, blank |-> FALSE]
Blank(value, role) == [value |-> value, role |-> role, blank |-> TRUE]

Domain(name) == [type |-> "domain", name |-> name]
Url(scheme, host, port) ==
    [type |-> "url", scheme |-> scheme, host |-> host, port |-> port, path |-> "/"]
Range4(bits) == [type |-> "cidr", bits |-> bits]
Address4(bits) == [type |-> "ip", bits |-> bits]
Hash(prefix, digest) == [type |-> "hash", prefix |-> prefix, digest |-> digest]

Packet(src, dst, names) ==
    [endpoints |-> {[addr |-> src, field |-> "ipv4.source"],
                    [addr |-> dst, field |-> "ipv4.destination"]}, names |-> names]
DnsOnly(names) == [endpoints |-> {}, names |-> names]

(* Everything and a range as ranges without their texts, a range inside    *)
(* that one and an address that leaves its path halfway, a hash and a      *)
(* wildcard that add completes, and a URL with a port whose host the       *)
(* wildcard covers.                                                        *)
SomeInputs == {Blank(Range4(<<1, 0>>), "block"), Blank(Range4(<< >>), "allow"),
               Given(Range4(<<1, 0, 1>>), "block"),
               Given(Address4(<<1, 1, 0>>), "block"),
               Blank(Hash("sha256", "d1"), "block"),
               Blank(Domain(<<"*", "x", "com">>), "block"),
               Given(Url("http", <<"x", "com">>, "8080"), "block")}
SomePackets ==
    {Packet(<<1, 0, 1>>, b, {}) : b \in Addresses} \cup
    {DnsOnly(names) : names \in
        {{<<"a", "x", "com">>}, {<<"x", "com", "">>, <<"com">>},
         {<<"x", "com:8080">>, <<"*", "x", "com">>, <<"x", "com">>}, {<<"net">>}}}
HashesSeen == {Hash("", "d1"), Hash("sha256", "d1"), Hash("", "d2")}
=============================================================================
