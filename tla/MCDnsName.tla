------------------------------ MODULE MCDnsName ------------------------------
(* All short messages for DnsName, over bytes that stand for the end of a   *)
(* name, labels of some lengths, a marker that is not valid and pointers.   *)
EXTENDS DnsName

Over(bytes, lengths) == UNION {[1 .. n -> bytes] : n \in lengths}

ShortMessages == Over({0, 1, 2, 3, 64, 192}, 0 .. 4) \cup Over({0, 1, 2, 192}, 5 .. 6)
TwoNames == {<<1, 1, 0>> \o tail : tail \in Over({1, 192, 0}, 4 .. 4)}
=============================================================================
