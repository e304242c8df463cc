-------------------------- MODULE MCRefreshSession --------------------------
(* Lines of every kind for RefreshSession.                                  *)
EXTENDS RefreshSession

Domain(name) == [type |-> "domain", name |-> name]
Url(scheme, host, port) ==
    [type |-> "url", scheme |-> scheme, host |-> host, port |-> port, path |-> "/"]
Hash(prefix, digest) == [type |-> "hash", prefix |-> prefix, digest |-> digest]
Untyped(scheme, host) ==
    [type |-> "unknown", scheme |-> scheme, host |-> host, port |-> "", path |-> "/"]

Again     == Line("host", Domain(<<"x", "com">>), FALSE, "block")
QuotedUrl == Line("url", Url("http", <<"a", "x", "com">>, "80"), TRUE, "block")
HostOnly  == Line("url", Domain(<<"a", "x", "com">>), FALSE, "block")
CutUrl    == Line("url", Url("https", <<"a", "x", "com">>, ""), FALSE, "allow")
BareUrl   == Line("", Url("https", <<"a", "x", "com">>, ""), FALSE, "block")
Single    == Line("", [type |-> "ip", bits |-> <<1, 0>>], FALSE, "")
AsRange   == Line("cidr", [type |-> "ip", bits |-> <<1, 0>>], FALSE, "allow")
NoSingle  == Line("ip", [type |-> "cidr", bits |-> <<1>>], FALSE, "block")
Digest    == Line("sha256", Hash("sha256", "d1"), FALSE, "block")
Plain     == Line("", Hash("", "d1"), FALSE, "block")
QuotedSum == Line("", Hash("sha256", "d1"), TRUE, "allow")
TwoStars  == Line("domain", Domain(<<"*", "*", "x", "com", "">>), TRUE, "allow")
NamedIp   == Line("domain", [type |-> "ip", bits |-> <<1, 0>>], FALSE, "block")
RangeUrl  == Line("url", [type |-> "cidr", bits |-> <<1>>], TRUE, "block")
HashUrl   == Line("url", Hash("sha256", "d1"), FALSE, "block")
WordUrl   == Line("url", Untyped("", <<"com">>), FALSE, "allow")
FtpUrl    == Line("url", Untyped("ftp", <<"x", "com">>), TRUE, "block")
InQuotes  == Line("", Domain(<<"x", "com">>), TRUE, "block")
Word      == Line("indicator", Domain(<<"x", "com">>), FALSE, "block")

AllLines == {TwoStars, QuotedUrl, Single, AsRange, NamedIp, RangeUrl, Digest, QuotedSum,
             HashUrl, WordUrl, BlankLine}
UrlLines == {Again, QuotedUrl, CutUrl, HostOnly, BareUrl, FtpUrl, NoSingle, Plain,
             InQuotes, Word}

Parsed(lines) == UNION {ParseIndicatorLine(l) : l \in {k \in lines : ~k.blank}}
SessionInputs == Parsed(Lines)

Dns(names) == [endpoints |-> {}, names |-> names]
SessionPackets ==
    {Dns({<<"a", "x", "com">>, <<"com">>}),
     Dns({<<"x", "com">>, <<"https">>, <<"1", "0">>, <<"sha256", "d1">>, <<"sha256:d1">>})}
    \cup {[endpoints |-> {[addr |-> a, field |-> "ipv4.source"],
                          [addr |-> b, field |-> "ipv4.destination"]}, names |-> {}] :
            a, b \in {<<1, 0>>, <<1, 1>>}}
NoDigests == {}
=============================================================================
