-------------------------------- MODULE Ipv4 --------------------------------
(***************************************************************************)
(* IPv4 addresses and CIDR ranges, after src/include/core/ip.hpp and       *)
(* src/src/core/ip.cpp.  An address is the sequence of its bits, most      *)
(* significant first, a range the sequence of the bits its prefix fixes.   *)
(***************************************************************************)
EXTENDS Integers, SequencesExt

CONSTANT AddrBits        \* bits of an address: 32 in the code

ASSUME AddrBitsAssumption == AddrBits \in Nat

Bit       == {0, 1}
Addresses == [1 .. AddrBits -> Bit]

RangeContains(range, addr) == IsPrefix(range, addr)
=============================================================================
