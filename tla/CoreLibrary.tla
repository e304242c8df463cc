----------------------------- MODULE CoreLibrary -----------------------------
(***************************************************************************)
(* The library below the components: a caller either walks over bytes with *)
(* a reader, or asks one of the functions without state a question and     *)
(* gets its answer.                                                        *)
(***************************************************************************)
EXTENDS ByteReader, Ranges, Texts, Catalog

CONSTANT Questions         \* for each function, the arguments that it is asked with

Numerals == Seq(0 .. NoDigit)

Characters == 0 .. Space

(* The ranges that parse_cidr makes: no bit is set behind the prefix.      *)
ReadableRanges ==
    {r \in [network : Addresses, prefix : 0 .. AddrBits] :
        \A i \in r.prefix + 1 .. AddrBits : r.network[i] = 0}

(* An unsigned integer has room for a digit more than the largest number   *)
(* that is asked for, and the sum of a header's words for all of them.     *)
ASSUME QuestionsAssumption ==
    /\ AddrBits * 10 + 9 < UIntMod
    /\ \A of \in DOMAIN Questions : \A arg \in Questions[of] :
        /\ of = "number" =>
               /\ arg.text \in Numerals /\ arg.max \in Nat
               /\ arg.max * 10 + 9 < UIntMod
        /\ of = "cidr" => arg.addr \in Addresses \cup {NoAddress} /\ arg.prefixes \in Seq(Numerals)
        /\ of = "merge" => arg \in Seq(ReadableRanges)
        /\ of = "kind" => arg \in [1 .. 4 -> 0 .. 255]
        /\ of = "checksum" => arg \in Seq(0 .. ByteMod - 1) /\ (Len(arg) + 1) \div 2 <= WordMod
        /\ of = "normal time" => arg.seconds \in Int /\ arg.nanos \in Int
        /\ of = "unix time" => arg \in Seq(Characters)

VARIABLES call,            \* the function and its argument, or the reader
          answer           \* none yet, or one

vars == <<size, data, offset, asked, span, call, answer>>

Walking == [of |-> "reader", arg |-> << >>]

Init ==
    /\ answer = << >>
    /\ \/ ReaderInit /\ call = Walking
       \/ /\ size = 0 /\ data = "null" /\ offset = 0 /\ asked = 0 /\ span = NoSpan
          /\ \E of \in DOMAIN Questions : \E arg \in Questions[of] :
                 call = [of |-> of, arg |-> arg]

Answer(of, value) ==
    /\ call.of = of /\ answer = << >>
    /\ answer' = <<value>>
    /\ UNCHANGED <<readerVars, call>>

Walk == call.of = "reader" /\ ReaderNext /\ UNCHANGED <<call, answer>>

(* ip.cpp, checksum.cpp, time.cpp                                          *)
AskNumber     == Answer("number", ReadNumber(call.arg.text, call.arg.max))
AskCidr       == Answer("cidr", ParseCidr(call.arg.addr, call.arg.prefixes))
AskMerge      == Answer("merge", MergeRanges(call.arg))
AskKind       == Answer("kind", ClassifyIpv4(call.arg))
AskChecksum   == Answer("checksum", InternetChecksum(call.arg))
AskNormalTime == Answer("normal time", NormalizeTimestamp(call.arg.seconds, call.arg.nanos))
AskUnixTime   == Answer("unix time", ParseUnixTimestamp(call.arg))

(* strings.cpp, rules.cpp, policy.cpp                                      *)
AskComment == Answer("comment", RemoveComment(call.arg))
AskOptions == Answer("options", ParseOptions(call.arg))
AskPorts   == Answer("ports", ParsePortExpr(call.arg))
AskIni     == Answer("ini", ReadIni(call.arg))
AskCsv     == Answer("csv", ReadCsvRow(call.arg.headers, call.arg.line))

(* security_catalog.cpp                                                    *)
AskService  == Answer("service", LookupServiceProfile(call.arg.port, call.arg.transport))
AskExposure == Answer("exposure", ServiceExposureLabel(call.arg.port, call.arg.transport))
AskRisk     == Answer("risk", ServiceProfilesByRisk(call.arg))
AskCategory == Answer("category", ServiceProfilesByCategory(call.arg))
AskType     == Answer("type", LookupDnsTypeProfile(call.arg))
AskSignal   == Answer("signal", DnsTypeSignalLabel(call.arg))
AskOption   == Answer("option", LookupRuleOptionProfile(call.arg))
AskSetting  == Answer("setting", LookupPolicySettingProfile(call.arg))
AskOptionsKnown  == Answer("options known", RuleOptionProfiles)
AskSettingsKnown == Answer("settings known", PolicySettingProfiles)

Next ==
    \/ Walk
    \/ AskNumber \/ AskCidr \/ AskMerge \/ AskKind
    \/ AskChecksum \/ AskNormalTime \/ AskUnixTime
    \/ AskComment \/ AskOptions \/ AskPorts \/ AskIni \/ AskCsv
    \/ AskService \/ AskExposure \/ AskRisk \/ AskCategory
    \/ AskType \/ AskSignal \/ AskOption \/ AskSetting
    \/ AskOptionsKnown \/ AskSettingsKnown

Spec == Init /\ [][Next]_vars

-----------------------------------------------------------------------------
Answered(of) == call.of = of /\ answer # << >>

(* The readers of numbers never take a number that has wrapped around for  *)
(* a small one, however many digits there are: the number read is the one  *)
(* that is written, if it is allowed, and otherwise there is none.         *)
DigitsExact ==
    Answered("number") =>
        LET text    == call.arg.text
            written == text # << >> /\ NoDigit \notin Range(text)
        IN  answer[1] = IF written /\ Value(text) <= call.arg.max THEN Value(text) ELSE -1

(* The mask of a range, the empty and the full prefix included, fixes the  *)
(* leading bits and no others: contains() is to have the prefix, which is  *)
(* what Ipv4 takes ranges for.                                             *)
ContainsIsPrefix ==
    Answered("cidr") =>
        \A r \in answer[1] :
            /\ r \in ReadableRanges
            /\ \A addr \in Addresses :
                   CidrContains(r, addr) <=> RangeContains(SubSeq(call.arg.addr, 1, r.prefix), addr)

(* Merging loses no address and adds none, and keeps no range that another *)
(* one of the result contains, in whatever order the ranges are listed.    *)
MergeIsMaximal ==
    Answered("merge") =>
        LET merged == answer[1]
            covered(ranges, addr) == \E r \in Range(ranges) : CidrContains(r, addr)
        IN  /\ \A addr \in Addresses : covered(merged, addr) <=> covered(call.arg, addr)
            /\ \A i, j \in DOMAIN merged : i # j => ~Covers(merged[i], merged[j])

(* No address is of two kinds, so that the order of the tests in           *)
(* classify_ipv4 decides nothing.                                          *)
KindsDisjoint ==
    Answered("kind") =>
        Cardinality({k \in {"private", "loopback", "multicast", "reserved"} :
            \/ k = "private" /\ IsPrivate(call.arg)
            \/ k = "loopback" /\ IsLoopback(call.arg)
            \/ k = "multicast" /\ IsMulticast(call.arg)
            \/ k = "reserved" /\ IsReserved(call.arg)}) <= 1

(* A header whose checksum is put in its place is valid for                *)
(* parse_ipv4_packet, wherever in the header the place is.                 *)
ChecksumVerifies ==
    Answered("checksum") =>
        \A i \in 1 .. Len(call.arg) \div 2 :
            call.arg[2 * i - 1] = 0 /\ call.arg[2 * i] = 0 =>
                InternetChecksum([call.arg EXCEPT ![2 * i - 1] = answer[1] \div ByteMod,
                                                  ![2 * i] = answer[1] % ByteMod]) = 0

(* The nanoseconds of a timestamp are less than a second, and carrying     *)
(* them does not move the moment.                                          *)
TimesNormal ==
    Answered("normal time") =>
        LET t == answer[1]
        IN  /\ t.nanos \in 0 .. NanosPerSecond - 1
            /\ t.seconds * NanosPerSecond + t.nanos
                   = call.arg.seconds * NanosPerSecond + call.arg.nanos

(* A text is a time: among blanks its places from first to last, with      *)
(* digits before the point and behind it.  A point behind the last of them *)
(* is none at all.                                                         *)
Places(text) == [first : DOMAIN text, point : 1 .. Len(text) + 1, last : DOMAIN text]
SpelledAt(text, p) ==
    /\ \A i \in DOMAIN text : i < p.first \/ i > p.last => text[i] = Space
    /\ p.first < p.point
    /\ \A i \in p.first .. p.last : i # p.point => text[i] \in 0 .. 9
    /\ p.point = p.last + 1 \/ (p.point < p.last /\ text[p.point] = Point)

(* Every text that is a time is read as one, with blanks around it, with   *)
(* or without a fraction, and no other is.  The seconds are those written  *)
(* and the nanosecond is the one that the fraction is in, with however few *)
(* or many digits; an exception comes, and no time, exactly when there are *)
(* more seconds than fit.                                                  *)
UnixTimesExact ==
    Answered("unix time") =>
        LET text == call.arg
        IN  /\ answer[1] # {} <=> \E p \in Places(text) : SpelledAt(text, p)
            /\ \A p \in Places(text), t \in answer[1] :
                  SpelledAt(text, p) =>
                    LET whole    == SubSeq(text, p.first, p.point - 1)
                        fraction == SubSeq(text, p.point + 1, p.last)
                        unit     == Power(10, Len(fraction))
                    IN  IF Value(whole) > MaxSeconds THEN t = Thrown
                        ELSE /\ t.seconds = Value(whole)
                             /\ t.nanos * unit <= Value(fraction) * NanosPerSecond
                             /\ Value(fraction) * NanosPerSecond < (t.nanos + 1) * unit

(* Whatever the library reads as a number or makes of one is exact at      *)
(* every boundary: digits, decimal fractions, and carries.                 *)
ValuesExact == DigitsExact /\ TimesNormal /\ UnixTimesExact

(* A range is the addresses with its prefix, and so are the kinds: the     *)
(* shortest and the longest mask included, and none overlaps another.      *)
RangesExact == ContainsIsPrefix /\ KindsDisjoint

-----------------------------------------------------------------------------
(* remove_comment runs on a rule before its options are split, with quotes *)
(* of its own making.  They agree on lines without apostrophes and escaped *)
(* escapes: no comment is cut out of a value, and none is left behind one. *)
Splittable(text) ==
    /\ Apostrophe \notin Range(text)
    /\ \A i \in 1 .. Len(text) - 1 : ~(text[i] = Escape /\ text[i + 1] = Escape)

QuotesAgree ==
    Answered("comment") /\ Splittable(call.arg) =>
        LET quoted(i) == FoldLeft(SplitStep, SplitStart, SubSeq(call.arg, 1, i - 1)).quoted
            kept == Len(answer[1])
        IN  /\ \A i \in 1 .. kept : IsMark(call.arg, i) => quoted(i)
            /\ kept < Len(call.arg) => ~quoted(kept + 1)

(* The options of a rule, written by normalize_rule and read again, are    *)
(* the same up to the order of different keys: so is what the first one of *)
(* a key says.  Keys and values must be without quotes and escapes.        *)
OptionsSurvive ==
    Answered("options") =>
        LET options == answer[1]
            again   == ParseOptions(RemoveComment(NormalizeOptions(options)))
            plain(text) == Range(text) \cap {Quote, Apostrophe, Escape} = {}
        IN  (\A o \in Range(options) : plain(o.key) /\ plain(o.value)) =>
                \A o \in Range(options) \cup Range(again) :
                    SelectSeq(again, LAMBDA p : p.key = o.key)
                        = SelectSeq(options, LAMBDA p : p.key = o.key)

(* The ports of a rule, written and read again, match the same ports: the  *)
(* text that rule_key compares tells expressions apart.  Of what matches   *)
(* nothing ("!any", "[]") this is not true and not asked.                  *)
PortsSurvive ==
    Answered("ports") =>
        \A e \in answer[1] :
            (e.any /\ ~e.negated) \/ e.ranges # << >> =>
                /\ ParsePortExpr(RenderPorts(e)) # {}
                /\ \A again \in ParsePortExpr(RenderPorts(e)), q \in DOMAIN PortNames, d \in {-1, 0, 1} :
                       PortMatches(again, q + d) <=> PortMatches(e, q + d)

(* A value in quotes comes out of an INI file as it is written, comment    *)
(* marks, separators and brackets included, in the section of its header.  *)
QuotedValuesKept ==
    Answered("ini") =>
        \A i \in DOMAIN call.arg :
            LET line == call.arg[i]
                value == SubSeq(line, 4, Len(line) - 1)
                section == IF call.arg[1][1] = "[" THEN <<"b">> ELSE << >>
            IN  /\ Len(line) >= 4 /\ line[1] = "a" /\ line[2] = "=" /\ line[3] = Quote
                /\ line[Len(line)] = Quote
                /\ Quote \notin Range(value) /\ Escape \notin Range(value)
                => [section |-> section, key |-> <<"a">>, value |-> value] \in Range(answer[1])

(* Fields that are quoted by the rules of CSV, quotes doubled, come back   *)
(* as they were; a field that begins and ends with a blank or with a pair  *)
(* of quotes of its own does not, since both are stripped after reading.   *)
CsvQuoted(field) ==
    <<Quote>> \o FlattenSeq([i \in DOMAIN field |->
                     IF field[i] = Quote THEN <<Quote, Quote>> ELSE <<field[i]>>]) \o <<Quote>>

CsvFieldsSurvive ==
    Answered("csv") =>
        \A i \in DOMAIN call.arg.fields :
            StripQuotes(call.arg.fields[i]) = call.arg.fields[i] =>
                answer[1][i].value = call.arg.fields[i]

(* What is written in quotes, or in the form that the library itself       *)
(* writes, is read again as it was: no comment, separator or quote on the  *)
(* way takes a part of it.                                                 *)
TextsSurvive ==
    QuotesAgree /\ OptionsSurvive /\ PortsSurvive /\ QuotedValuesKept /\ CsvFieldsSurvive

-----------------------------------------------------------------------------
Risks == {"high", "medium", "low"}

(* What packet.cpp calls a service or a type, the catalog and its labels   *)
(* call the same, and an option that rules.cpp wants once, some as         *)
(* numbers, is one that identifies the rule.                               *)
NamesAgree ==
    /\ Answered("service") =>
           LET name == ServiceName(call.arg.port, call.arg.transport)
           IN  name # "" => answer[1].found /\ answer[1].profile.service = name
    /\ Answered("type") /\ call.arg \in DOMAIN TypeNames =>
           answer[1].found /\ answer[1].profile.mnemonic = TypeNames[call.arg]
    /\ Answered("exposure") =>
           LET name == ServiceName(call.arg.port, call.arg.transport)
           IN  name # "" =>
                   \E risk \in Risks : answer[1] = name \o " [" \o risk \o "]"
    /\ Answered("signal") /\ call.arg \in DOMAIN TypeNames =>
           \E t \in Range(DnsTypeProfiles) :
               answer[1] = TypeNames[call.arg] \o " [" \o t.signal \o "]"
    /\ Answered("option") /\ call.arg \in SingleOptions =>
           /\ answer[1].found /\ answer[1].profile.category = "identity"
           /\ call.arg \in NumberOptions => answer[1].profile.value = "integer"

(* The first entry with a key is the only one: whatever is listed, with    *)
(* others of its risk or category or with all, is what a lookup by its key *)
(* finds, and every service is listed under one of the risks.              *)
ListedIsFound ==
    /\ Answered("risk") \/ Answered("category") =>
           \A p \in Range(answer[1]) :
               LookupServiceProfile(p.port, p.transport) = [found |-> TRUE, profile |-> p]
    /\ Answered("service") /\ answer[1].found =>
           \E risk \in Risks :
               Len(SelectSeq(ServiceProfilesByRisk(risk), LAMBDA p : p = answer[1].profile)) = 1
    /\ Answered("options known") =>
           \A i \in DOMAIN answer[1] :
               /\ LookupRuleOptionProfile(answer[1][i].name) = [found |-> TRUE, profile |-> answer[1][i]]
               /\ \A j \in DOMAIN answer[1] : answer[1][i].name = answer[1][j].name => i = j
    /\ Answered("settings known") =>
           \A i \in DOMAIN answer[1] :
               /\ LookupPolicySettingProfile(answer[1][i]).found
               /\ \A j \in DOMAIN answer[1] : answer[1][i] = answer[1][j] => i = j

(* The catalog agrees with itself and with the names that the decoder and  *)
(* the rules have of their own.                                            *)
CatalogConsistent == NamesAgree /\ ListedIsFound
=============================================================================
