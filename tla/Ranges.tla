-------------------------------- MODULE Ranges --------------------------------
(***************************************************************************)
(* Masks, ranges and numbers: src/src/core/ip.cpp, the checksum of         *)
(* src/src/core/checksum.cpp and src/src/core/time.cpp.                    *)
(*                                                                         *)
(* An address is a word of AddrBits bits, as in Ipv4, and here the code's  *)
(* own masks are made of such words.  A number in a text is the sequence   *)
(* of its characters: a digit its value, and others than digits are told   *)
(* apart as far as a reader of numbers does.                               *)
(***************************************************************************)
EXTENDS Ipv4, FiniteSetsExt

CONSTANTS UIntMod,         \* unsigned integers wrap around here: 2^32
          ByteMod,         \* values of a byte: 256
          FracDigits,      \* digits of the nanoseconds: 9
          MaxSeconds       \* the largest number of seconds: 2^63 - 1

ASSUME RangesAssumption ==
    /\ UIntMod \in Nat \ {0} /\ ByteMod \in Nat \ {0, 1}
    /\ FracDigits \in Nat /\ MaxSeconds \in Nat

NoDigit == 10
Point   == 11
Space   == 12

NoAddress == << >>

Power(base, n) == FoldLeft(LAMBDA product, b : product * b, 1, [i \in 1 .. n |-> base])

NanosPerSecond == Power(10, FracDigits)

-----------------------------------------------------------------------------
(* Words of bits.                                                          *)

AllZeros == [i \in 1 .. AddrBits |-> 0]
AllOnes  == [i \in 1 .. AddrBits |-> 1]

ShiftLeft(word, n) ==
    [i \in 1 .. AddrBits |-> IF i + n <= AddrBits THEN word[i + n] ELSE 0]

And(a, b) == [i \in 1 .. AddrBits |-> a[i] * b[i]]

Less(a, b) ==
    \E i \in 1 .. AddrBits : a[i] < b[i] /\ \A j \in 1 .. i - 1 : a[j] = b[j]

-----------------------------------------------------------------------------
(* Ranges.                                                                 *)

Cidr(network, prefix) == [network |-> network, prefix |-> prefix]

(* Fault: no case for the prefix 0; shifted by all its bits a word stays   *)
(* what it is.                                                             *)
CidrMaskShifted(prefix) == ShiftLeft(AllOnes, (AddrBits - prefix) % AddrBits)

CidrMask(prefix) ==
    IF prefix = 0 THEN AllZeros
    ELSE IF prefix >= AddrBits THEN AllOnes
    ELSE ShiftLeft(AllOnes, AddrBits - prefix)

CidrContains(range, addr) ==
    And(addr, CidrMask(range.prefix)) = And(range.network, CidrMask(range.prefix))

(* Fault: the range is looked at when all digits are read.                 *)
ReadNumberLate(text, max) ==
    LET value == FoldLeft(LAMBDA v, c : (v * 10 + c) % UIntMod, 0, text)
    IN  IF text = << >> \/ NoDigit \in Range(text) \/ value > max THEN -1 ELSE value

(* Prefixes, ports, sids and revisions: digits are added up and the        *)
(* largest value is looked at after each; -1 is no number.                 *)
ReadNumber(text, max) ==
    LET step(v, c) == IF v = -1 \/ (v * 10 + c) % UIntMod > max THEN -1 ELSE (v * 10 + c) % UIntMod
    IN  IF text = << >> \/ NoDigit \in Range(text) THEN -1 ELSE FoldLeft(step, 0, text)

(* parse_cidr, for an address (NoAddress if it is none) and the parts      *)
(* behind slashes: the ranges read, one or none.                           *)
ParseCidr(addr, prefixes) ==
    LET prefix == IF Len(prefixes) = 1 THEN ReadNumber(prefixes[1], AddrBits) ELSE AddrBits
    IN  IF addr = NoAddress \/ prefix = -1 \/ Len(prefixes) > 1 THEN {}
        ELSE IF prefixes = << >> THEN {Cidr(addr, AddrBits)}
        ELSE {Cidr(And(addr, CidrMask(prefix)), prefix)}

(* Fault: of two ranges of one network the narrow one comes first.         *)
NarrowBefore(a, b) ==
    Less(a.network, b.network) \/ (a.network = b.network /\ a.prefix > b.prefix)

Before(a, b) ==
    Less(a.network, b.network) \/ (a.network = b.network /\ a.prefix < b.prefix)

(* What std::sort makes of ranges.                                         *)
Sorted(ranges) ==
    LET order == CHOOSE p \in Bijection(DOMAIN ranges, DOMAIN ranges) :
                     \A i, j \in DOMAIN ranges : i < j => ~Before(ranges[p[j]], ranges[p[i]])
    IN  [i \in DOMAIN ranges |-> ranges[order[i]]]

Covers(outer, inner) == outer.prefix <= inner.prefix /\ CidrContains(outer, inner.network)

MergeRanges(ranges) ==
    LET keep(out, r) == IF \E k \in Range(out) : Covers(k, r) THEN out ELSE Append(out, r)
    IN  FoldLeft(keep, << >>, Sorted(ranges))

-----------------------------------------------------------------------------
(* Kinds of addresses.  These networks end within a byte: an address is    *)
(* the sequence of its four bytes.                                         *)

InNetwork(addr, network, prefix) ==
    \A i \in 1 .. 4 :
        LET bits == prefix - 8 * (i - 1)        \* that the mask has of this byte
        IN  IF bits >= 8 THEN addr[i] = network[i]
            ELSE bits > 0 => addr[i] \div Power(2, 8 - bits) = network[i] \div Power(2, 8 - bits)

IsPrivate(addr) ==
    \/ InNetwork(addr, <<10, 0, 0, 0>>, 8)
    \/ InNetwork(addr, <<172, 16, 0, 0>>, 12)
    \/ InNetwork(addr, <<192, 168, 0, 0>>, 16)

IsLoopback(addr) == InNetwork(addr, <<127, 0, 0, 0>>, 8)

IsMulticast(addr) == InNetwork(addr, <<224, 0, 0, 0>>, 4)

(* Fault: everything above the multicast addresses' first bit.             *)
IsReservedFrom224(addr) ==
    InNetwork(addr, <<0, 0, 0, 0>>, 8) \/ InNetwork(addr, <<240, 0, 0, 0>>, 3)

IsReserved(addr) ==
    \/ InNetwork(addr, <<0, 0, 0, 0>>, 8)
    \/ InNetwork(addr, <<100, 64, 0, 0>>, 10)
    \/ InNetwork(addr, <<192, 0, 0, 0>>, 24)
    \/ InNetwork(addr, <<198, 51, 100, 0>>, 24)
    \/ InNetwork(addr, <<203, 0, 113, 0>>, 24)
    \/ InNetwork(addr, <<240, 0, 0, 0>>, 4)

ClassifyIpv4(addr) ==
    IF IsLoopback(addr) THEN "loopback"
    ELSE IF IsPrivate(addr) THEN "private"
    ELSE IF IsMulticast(addr) THEN "multicast"
    ELSE IF IsReserved(addr) THEN "reserved"
    ELSE "public"

-----------------------------------------------------------------------------
(* The checksum: words of two bytes, an odd last byte in front.            *)

WordMod == ByteMod * ByteMod

Words(bytes) ==
    [i \in 1 .. (Len(bytes) + 1) \div 2 |->
        bytes[2 * i - 1] * ByteMod + (IF 2 * i <= Len(bytes) THEN bytes[2 * i] ELSE 0)]

Total(words) == FoldLeft(+, 0, words)

(* Fault: the carries are added once.                                      *)
InternetChecksumOneCarry(bytes) ==
    LET sum == Total(Words(bytes)) % (WordMod * WordMod)
    IN  (WordMod - 1) - (((sum % WordMod) + (sum \div WordMod)) % WordMod)

InternetChecksum(bytes) ==
    LET carried[sum \in 0 .. WordMod * WordMod - 1] ==
            IF sum < WordMod THEN sum ELSE carried[(sum % WordMod) + (sum \div WordMod)]
    IN  (WordMod - 1) - carried[Total(Words(bytes)) % (WordMod * WordMod)]

-----------------------------------------------------------------------------
(* Timestamps.                                                             *)

Timestamp(seconds, nanos) == [seconds |-> seconds, nanos |-> nanos]

(* Fault: a whole second stays among the nanoseconds.                      *)
NormalizeTimestampLate(seconds, nanos) ==
    LET normal[t \in [seconds : Int, nanos : Int]] ==
            IF t.nanos > NanosPerSecond THEN normal[Timestamp(t.seconds + 1, t.nanos - NanosPerSecond)]
            ELSE IF t.nanos < 0 THEN normal[Timestamp(t.seconds - 1, t.nanos + NanosPerSecond)]
            ELSE t
    IN  normal[Timestamp(seconds, nanos)]

NormalizeTimestamp(seconds, nanos) ==
    LET normal[t \in [seconds : Int, nanos : Int]] ==
            IF t.nanos >= NanosPerSecond THEN normal[Timestamp(t.seconds + 1, t.nanos - NanosPerSecond)]
            ELSE IF t.nanos < 0 THEN normal[Timestamp(t.seconds - 1, t.nanos + NanosPerSecond)]
            ELSE t
    IN  normal[Timestamp(seconds, nanos)]

Value(digits) == FoldLeft(LAMBDA v, c : v * 10 + c, 0, digits)

(* std::stoll on digits: a number too large throws.                        *)
Thrown == [seconds |-> -1, nanos |-> -1]

(* What std::stoll makes of the digits, and with it the whole answer.      *)
TimeAt(whole, nanos) ==
    {IF Value(whole) > MaxSeconds THEN Thrown ELSE Timestamp(Value(whole), nanos)}

(* Fault: the fraction is read as the number that it looks like.           *)
NanosUnpadded(fraction) == Value(fraction) % NanosPerSecond

(* A fraction is padded on its right or cut to FracDigits.                 *)
Nanos(fraction) == Value(SubSeq(fraction \o [i \in 1 .. FracDigits |-> 0], 1, FracDigits))

IsDecimal(text) == text # << >> /\ Range(text) \subseteq 0 .. 9

Trimmed(text) ==
    LET shown == {i \in DOMAIN text : text[i] # Space}
    IN  IF shown = {} THEN << >> ELSE SubSeq(text, Min(shown), Max(shown))

(* Fault: whole seconds are not told from a text that cannot be read.      *)
ParseUnixTimestampPointed(value) ==
    LET v      == Trimmed(value)
        points == {i \in DOMAIN v : v[i] = Point}
        sec    == SubSeq(v, 1, Min(points) - 1)
        frac   == SubSeq(v, Min(points) + 1, Len(v))
    IN  IF points # {} /\ IsDecimal(sec) /\ IsDecimal(frac) THEN TimeAt(sec, Nanos(frac)) ELSE {}

(* parse_unix_timestamp, for the characters of a text: whole seconds, with *)
(* or without a point and a fraction, and nothing else but blanks around.  *)
ParseUnixTimestamp(value) ==
    LET v      == Trimmed(value)
        points == {i \in DOMAIN v : v[i] = Point}
        sec    == SubSeq(v, 1, Min(points) - 1)
        frac   == SubSeq(v, Min(points) + 1, Len(v))
    IN  IF points = {} THEN IF IsDecimal(v) THEN TimeAt(v, 0) ELSE {}
        ELSE IF IsDecimal(sec) /\ IsDecimal(frac) THEN TimeAt(sec, Nanos(frac)) ELSE {}

=============================================================================
