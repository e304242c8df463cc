----------------------------- MODULE Indicators -----------------------------
(***************************************************************************)
(* What an indicator of compromise is and what it matches, after           *)
(* src/src/ioc/ioc.cpp and src/include/ioc/ioc.hpp.                        *)
(*                                                                         *)
(* A DNS name is the sequence of its labels ("*.x.com" is <<"*", "x",      *)
(* "com">>); a leading or a trailing dot is an empty first or last label.  *)
(* Labels are case folded, as to_lower leaves them.                        *)
(***************************************************************************)
EXTENDS Ipv4

CONSTANT Roles             \* the roles in use, of the three of ListRole

ASSUME RolesAssumption == Roles \subseteq {"indicator", "allow", "block"}

Name == Seq(STRING)

(* The text of an indicator, by type; indicator_key adds the role to it.   *)
AddressType == {"ip", "cidr"}
NameType    == {"domain", "url"}

IsPayload(v) ==
    \/ v.type \in AddressType /\ v.bits \in Seq(Bit) /\ Len(v.bits) <= AddrBits
    \/ v.type = "domain" /\ v.name \in Name
    \/ v.type = "url" /\ v.host \in Name /\ {v.scheme, v.port, v.path} \subseteq STRING
    \/ v.type = "hash" /\ {v.prefix, v.digest} \subseteq STRING
    \/ v.type = "unknown"

-----------------------------------------------------------------------------
(* Names.                                                                  *)

StripTrailingDots(n) ==
    LET last == Max({0} \cup {i \in 1 .. Len(n) : n[i] # ""})
    IN  SubSeq(n, 1, last)

StripHead(n, label) == IF Len(n) > 1 /\ n[1] = label THEN Tail(n) ELSE n

(* One "*." and then one "." are stripped from the front: once each, so    *)
(* that a second application may strip more.                               *)
NormalizeDomain(n) == StripHead(StripHead(StripTrailingDots(n), "*"), "")

DomainMatches(indicator, observed) ==
    LET ind == NormalizeDomain(indicator)
        obs == NormalizeDomain(observed)
    IN  ind # << >> /\ obs # << >> /\ IsSuffix(ind, obs)

DefaultPort(scheme) == CASE scheme = "http"  -> "80"
                         [] scheme = "https" -> "443"
                         [] OTHER            -> ""

NormalizeUrl(u) ==
    [u EXCEPT !.host = NormalizeDomain(@),
              !.port = IF @ = DefaultPort(u.scheme) THEN "" ELSE @]

NormalizeHash(h) == [h EXCEPT !.prefix = ""]

(* The text between "://" and the next "/" of a normalized URL: a port     *)
(* that is not the scheme's default stays at the end of the last label.    *)
UrlHost(u) ==
    IF u.port = "" THEN u.host
    ELSE IF u.host = << >> THEN <<":" \o u.port>>
    ELSE [u.host EXCEPT ![Len(u.host)] = @ \o ":" \o u.port]

HostText(v) == IF v.type = "url" THEN UrlHost(v) ELSE v.name

-----------------------------------------------------------------------------
(* Indicators.  "blank" says that it comes without its normalized text:    *)
(* the parser always fills it, a caller of IndicatorIndex::add may leave   *)
(* it to be made from what the indicator was read from.                    *)

Completed(ind) ==
    IF ~ind.blank THEN ind.value
    ELSE CASE ind.value.type = "domain" -> [ind.value EXCEPT !.name = NormalizeDomain(@)]
           [] ind.value.type = "url"    -> NormalizeUrl(ind.value)
           [] ind.value.type = "hash"   -> NormalizeHash(ind.value)
           [] OTHER                     -> ind.value

(* No such text is made of addresses and of what has no type: it stays     *)
(* empty, and the key has the type and the role alone.                     *)
Unnamed(ind) == ind.blank /\ ind.value.type \notin NameType \cup {"hash"}

IndicatorKey(ind) ==
    <<IF Unnamed(ind) THEN [type |-> ind.value.type] ELSE ind.value, ind.role>>

MatchesAddress(v, addr) == v.type \in AddressType /\ RangeContains(v.bits, addr)
MatchesName(v, name)    == v.type \in NameType /\ DomainMatches(HostText(v), name)

-----------------------------------------------------------------------------
(* Matching a packet against indicators by scanning them: match_packet of  *)
(* an IndicatorSet.  A packet without an IPv4 header has no endpoints, one *)
(* without DNS no names.  A match is an indicator, the field of the packet *)
(* and the value seen there.                                               *)

AddressMatches(inds, addr, field) ==
    {[indicator |-> i, field |-> field, value |-> addr] :
        i \in {j \in inds : MatchesAddress(j.value, addr)}}

NameMatches(inds, name) ==
    {[indicator |-> i, field |-> "dns.name", value |-> NormalizeDomain(name)] :
        i \in {j \in inds : MatchesName(j.value, name)}}

(* An allow indicator suppresses the others on the same field and value.   *)
AllowFilter(matches) ==
    {m \in matches :
        \/ m.indicator.role = "allow"
        \/ ~\E a \in matches : a.indicator.role = "allow" /\ a.field = m.field
                                                          /\ a.value = m.value}

MatchPacket(inds, pkt) ==
    AllowFilter((UNION {AddressMatches(inds, e.addr, e.field) : e \in pkt.endpoints})
                \cup (UNION {NameMatches(inds, n) : n \in pkt.names}))

-----------------------------------------------------------------------------
(* A host from which a second normalization strips nothing more.  Only     *)
(* then do the index, which normalizes the host once more when it files    *)
(* it, and the scan agree on what an indicator matches.                    *)
HasNormalHost(v) ==
    v.type \in NameType =>
        LET host == NormalizeDomain(HostText(v))
        IN  NormalizeDomain(host) = host
=============================================================================
