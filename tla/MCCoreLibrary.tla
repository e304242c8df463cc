---------------------------- MODULE MCCoreLibrary ----------------------------
(***************************************************************************)
(* Questions at and around every boundary.                                 *)
(***************************************************************************)
EXTENDS CoreLibrary

Digits == {0, 1, 2, 5, 9}

(* Numbers up to four digits, while unsigned integers end at 999.          *)
SomeNumbers == [text : BoundedSeq(Digits \cup {NoDigit}, 4), max : {4, 99}]

SomeCidrs ==
    [addr : {NoAddress} \cup Addresses,
     prefixes : BoundedSeq({<< >>, <<0>>, <<1>>, <<2>>, <<0, 4>>, <<5>>, <<2, 5, 9>>, <<NoDigit>>}, 1)
                \cup {<< <<1>>, <<1>> >>}]

(* Ranges as parse_cidr makes them.                                        *)
ReadRanges == UNION {ParseCidr(addr, <<prefix>>) : addr \in {AllZeros, <<0, 0, 0, 1>>, <<0, 1, 0, 1>>,
                                                             <<0, 1, 1, 0>>, <<1, 0, 0, 0>>, AllOnes},
                                                   prefix \in {<<0>>, <<1>>, <<2>>, <<3>>, <<4>>}}
SomeRangeLists == BoundedSeq(ReadRanges, 3)

Octets == {0, 10, 63, 64, 100, 113, 127, 128, 168, 172, 192, 198, 203, 223, 224, 239, 240, 255}
SomeAddresses ==
    {<<a, b, c, 1>> : a \in Octets \cup {11, 99, 101, 171, 173, 191, 193},
                      b \in {0, 15, 16, 31, 32, 51, 63, 64, 127, 128, 168}, c \in {0, 100, 113}}

SomeHeaders == BoundedSeq({0, 1, 3}, 5) \cup [1 .. 8 -> {0, 1, 3}]

SomeMoments == [seconds : {-1, 0, 7}, nanos : {-201, -200, -199, -1, 0, 1, 99, 100, 101, 199, 200, 450}]
SomeTimes ==
    BoundedSeq({0, 1, 9, NoDigit, Point, Space}, 5)
    \cup {whole \o <<Point>> \o fraction : whole, fraction \in BoundedSeq({0, 1, 9}, 3)}

Inner == BoundedSeq({"a", ";", ":", "#", Quote, Escape, Apostrophe, Blank}, 2)
SomeLines ==
    BoundedSeq({"a", Quote, Escape, "#", "/", ";"}, 5)
    \cup {<<"a", Quote>> \o i \o <<Quote>> \o j : i \in Inner, j \in Inner}

SomeOption == {<<k>> : k \in {"a", "b"}}
              \cup {<<"a", ":">> \o v : v \in Inner}
              \cup {<<k, ":", Quote>> \o v \o <<Quote>> : k \in {"a", "b"}, v \in Inner}
(* What stands between the parentheses of a line that keeps both of them.  *)
SomeBodies ==
    {body \in
        BoundedSeq({"a", ":", ";", Quote, Blank}, 4)
        \cup {o \o <<";">> \o p : o \in SomeOption, p \in {<<"b">>, <<"a", ":", Quote, "b", "/", Quote>>}}
        \cup {<<"b", ":", True, ";">> \o o \o <<";">> : o \in SomeOption} :
     RemoveComment(body) = body}

SomePorts ==
    BoundedSeq({"!", "any", "[", "]", ",", ":", "80", "443", "0", "65535", Blank}, 4)
    \cup {<<"!", "[">> \o p \o <<",">> \o q \o <<"]">> : p, q \in
          {<<"80">>, <<":", "80">>, <<"80", ":">>, <<"80", ":", "443">>, <<"443", ":", "80">>, << >>}}

SomeValues == BoundedSeq({"b", "#", "/", "=", "[", "]", Blank, Apostrophe}, 3)
SomeIniTexts ==
    {<< <<"[", "b", "]", Blank, "#">>, <<"a", "=", Quote>> \o v \o <<Quote>> >> : v \in SomeValues}
    \cup {<< <<"a", "=">> \o v, <<"b">>, << >> >> : v \in BoundedSeq({"b", "#", "/", Quote}, 3)}

Fields == BoundedSeq({"a", Quote, ",", Blank}, 3)
SomeRows ==
    {[headers |-> <<"a", ",", Quote, "b", Quote>>, fields |-> <<f, g>>,
      line |-> CsvQuoted(f) \o <<",">> \o CsvQuoted(g)] : f \in Fields, g \in BoundedSeq({"a", Quote, ","}, 2)}
    \cup {[headers |-> <<"a", ",", "b">>, fields |-> << >>, line |-> l] : l \in Fields}

Ports == {p.port : p \in Range(ServiceProfiles)}
SomeServices == [port : {p \in Ports : p <= 30 \/ p >= 440} \cup DOMAIN TcpNames \cup DOMAIN UdpNames \cup {7000},
                 transport : {"tcp", "udp", "icmp"}]

AllQuestions ==
    [number |-> SomeNumbers, cidr |-> SomeCidrs, merge |-> SomeRangeLists, kind |-> SomeAddresses,
     checksum |-> SomeHeaders] @@
    ("normal time" :> SomeMoments @@ "unix time" :> SomeTimes) @@
    [comment |-> SomeLines, options |-> SomeBodies, ports |-> SomePorts,
     ini |-> SomeIniTexts, csv |-> SomeRows,
     service |-> SomeServices, exposure |-> [port : {0, 22, 161, 7000}, transport : {"tcp", "udp"}],
     risk |-> {"high", "medium", "low", "none"}, category |-> {"mail", "database", "none"},
     type |-> {t.type : t \in Range(DnsTypeProfiles)} \cup {60000}, signal |-> DOMAIN TypeNames \cup {0, 255, 60000},
     option |-> {o.name : o \in Range(RuleOptionProfiles)} \cup {"none"},
     setting |-> Range(PolicySettingProfiles) \cup {"none"}]
    @@ ("options known" :> {"all"} @@ "settings known" :> {"all"})
=============================================================================
