---------------------------- MODULE IndicatorText ----------------------------
(***************************************************************************)
(* Reading and merging lists of indicators: parse_indicator_line,          *)
(* parse_indicator_text and merge_indicator_sets of src/src/ioc/ioc.cpp.   *)
(*                                                                         *)
(* A line is blank or has the fields that split finds in it: a type token, *)
(* if any, a value, quoted or not, and a role, if any.  Severity,          *)
(* confidence and other attributes are left out.                           *)
(*                                                                         *)
(* A value is of one type, with two exceptions that ReadAs makes: an       *)
(* address is a valid domain name too, and anything passes for a URL.  Not *)
(* modelled are values of other types in which normalize_hash would find   *)
(* the digits of a hash, and hashes with dots, slashes or several colons.  *)
(***************************************************************************)
EXTENDS Indicators

Line(token, value, quoted, role) ==
    [blank |-> FALSE, token |-> token, value |-> value, quoted |-> quoted, role |-> role]
BlankLine == [blank |-> TRUE]

(* What a value may look like.  One that no type is inferred of has the    *)
(* parts that normalize_url finds in it, and no scheme if it has no "://". *)
LineValues ==
    [type : AddressType, bits : Seq(Bit)] \cup [type : {"domain"}, name : Name]
    \cup [type : {"hash"}, prefix : STRING, digest : STRING]
    \cup [type : {"url"}, scheme : {"http", "https"}, host : Name, port : STRING,
          path : STRING]
    \cup [type : {"unknown"}, scheme : STRING, host : Name, port : STRING, path : STRING]
IsKnown(value) == value.type # "unknown"

WrittenLines ==
    [blank : {FALSE}, token : STRING, value : LineValues, quoted : BOOLEAN, role : STRING]

NamedTypes ==
    [ip |-> "ip", cidr |-> "cidr", domain |-> "domain", host |-> "domain", url |-> "url",
     hash |-> "hash", md5 |-> "hash", sha1 |-> "hash", sha256 |-> "hash"]

(* remove_comment takes the "//" of a URL outside quotes for a comment.    *)
CutShort(line) ==
    line.value.type \in {"url", "unknown"} /\ line.value.scheme # "" /\ ~line.quoted

(* An address as text: one label for each of its bits, where the code has  *)
(* one for each octet.  A range is written with its first address.         *)
AddressName(bits) ==
    [i \in 1 .. AddrBits |-> IF i <= Len(bits) THEN ToString(bits[i]) ELSE "0"]

SchemelessUrl(host, port, path) ==
    [type |-> "url", scheme |-> "http", host |-> host, port |-> port, path |-> path]

(* What normalize_url takes the parts of a value for: the length of a      *)
(* range's prefix for a path, the digest behind the prefix of a hash for a *)
(* port, and what is left of a URL cut short, "https:", for a host.        *)
UrlIn(line) ==
    LET v == line.value
    IN  CASE CutShort(line)     -> SchemelessUrl(<<v.scheme>>, "", "/")
          [] v.type = "ip"      -> SchemelessUrl(AddressName(v.bits), "", "/")
          [] v.type = "cidr"    ->
                SchemelessUrl(AddressName(v.bits), "", "/" \o ToString(Len(v.bits)))
          [] v.type = "domain"  -> SchemelessUrl(v.name, "", "/")
          [] v.type = "hash"    -> IF v.prefix = "" THEN SchemelessUrl(<<v.digest>>, "", "/")
                                   ELSE SchemelessUrl(<<v.prefix>>, v.digest, "/")
          [] v.type = "unknown" /\ v.scheme = "" -> SchemelessUrl(v.host, v.port, v.path)
          [] OTHER              -> [v EXCEPT !.type = "url"]

(* A value needs no token unless it is a URL or in quotes: infer_ioc_type  *)
(* sees the quotes, only of a hash it drops them.                          *)
NeedsNoToken(line) == ~line.quoted \/ line.value.type = "hash"

(* The type of a line, {} if there is none.                                *)
TypeOfLine(line) ==
    IF line.token \in DOMAIN NamedTypes THEN {NamedTypes[line.token]}
    ELSE IF line.token = "" /\ NeedsNoToken(line)
    THEN {line.value.type} \ {"url", "unknown"}
    ELSE {}

(* The value as one of that type, {} if it is not.                         *)
ReadAs(type, line) ==
    LET v == line.value
    IN  CASE type = "ip" /\ v.type = "ip"              -> {v}
          [] type = "cidr" /\ v.type \in AddressType   -> {[v EXCEPT !.type = "cidr"]}
          [] type = "domain" /\ v.type = "domain"      -> {[v EXCEPT !.name = NormalizeDomain(@)]}
          [] type = "domain" /\ v.type = "ip"          ->
                {[type |-> "domain", name |-> AddressName(v.bits)]}
          [] type = "url"                              -> {NormalizeUrl(UrlIn(line))}
          [] type = "hash" /\ v.type = "hash"          -> {NormalizeHash(v)}
          [] OTHER                                     -> {}

(* Fault: the field behind the value is lost when there is a type token.   *)
RoleOfUntyped(line) ==
    IF line.role \in Roles /\ ~CutShort(line) /\ line.token = "" THEN line.role ELSE "indicator"

RoleOf(line) ==
    IF line.role \in Roles /\ ~CutShort(line) THEN line.role ELSE "indicator"

(* The indicator of a line, {} if the line is refused.                     *)
ParseIndicatorLine(line) ==
    {[value |-> v, role |-> RoleOf(line), blank |-> FALSE] :
        v \in UNION {ReadAs(type, line) : type \in TypeOfLine(line)}}

-----------------------------------------------------------------------------
(* Sets of indicators.  Of the diagnostics only the refusals are counted.  *)

EmptySet == [indicators |-> << >>, duplicates |-> << >>, refused |-> 0]

Has(set, ind) == \E other \in Range(set.indicators) : IndicatorKey(other) = IndicatorKey(ind)

(* Fault: indicators of different roles are taken for duplicates.          *)
IncludeAnyRole(set, ind) ==
    IF \E other \in Range(set.indicators) : other.value = ind.value
    THEN [set EXCEPT !.duplicates = Append(@, ind)]
    ELSE [set EXCEPT !.indicators = Append(@, ind)]

Include(set, ind) ==
    IF Has(set, ind) THEN [set EXCEPT !.duplicates = Append(@, ind)]
                     ELSE [set EXCEPT !.indicators = Append(@, ind)]

ReadLine(set, line) ==
    LET read == ParseIndicatorLine(line)
    IN  IF read = {} THEN [set EXCEPT !.refused = @ + 1]
        ELSE Include(set, CHOOSE ind \in read : TRUE)

ParseIndicatorText(lines) ==
    FoldLeft(LAMBDA set, line : IF line.blank THEN set ELSE ReadLine(set, line),
             EmptySet, lines)

(* Fault: each set is appended without looking for its keys.               *)
MergeByAppending(sets) ==
    FoldLeft(LAMBDA merged, set : [merged EXCEPT !.indicators = @ \o set.indicators,
                                                 !.refused = @ + set.refused],
             EmptySet, sets)

(* The duplicates that the merged sets had themselves are not carried on.  *)
MergeIndicatorSets(sets) ==
    FoldLeft(LAMBDA merged, set :
                FoldLeft(LAMBDA m, ind : Include(m, ind),
                         [merged EXCEPT !.refused = @ + set.refused], set.indicators),
             EmptySet, sets)
=============================================================================
