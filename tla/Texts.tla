-------------------------------- MODULE Texts --------------------------------
(***************************************************************************)
(* Texts with quotes: comments (src/src/core/strings.cpp), the options and *)
(* the ports of a rule (src/src/rules/rules.cpp) and the settings of a     *)
(* policy (src/src/policy/policy.cpp).                                     *)
(*                                                                         *)
(* A text is the sequence of its characters.  Letters stand for whatever   *)
(* no reader takes notice of; the word "true" and a number are one         *)
(* character, and words do not differ by case.                             *)
(***************************************************************************)
EXTENDS Integers, SequencesExt, FiniteSetsExt

Quote      == "\""
Apostrophe == "'"
Escape     == "\\"
Blank      == " "
True       == "true"

Trim(text) ==
    LET at == {i \in DOMAIN text : text[i] # Blank}
    IN  IF at = {} THEN << >> ELSE SubSeq(text, Min(at), Max(at))

StripQuotes(text) ==
    LET t == Trim(text)
    IN  IF Len(t) >= 2 /\ t[1] \in {Quote, Apostrophe} /\ t[Len(t)] = t[1]
        THEN SubSeq(t, 2, Len(t) - 1) ELSE t

IsMark(text, i) ==
    text[i] = "#" \/ (text[i] = "/" /\ i < Len(text) /\ text[i + 1] = "/")

(* Fault: a quote counts although it is escaped.                           *)
QuoteAfterIgnoringEscapes(open, text, i) ==
    IF text[i] \notin {Quote, Apostrophe} \/ open \notin {Blank, text[i]} THEN open
    ELSE IF open = Blank THEN text[i] ELSE Blank

(* The quote that is open behind character i, if one is: an escaped one    *)
(* does not count, and within one kind of quotes the other does not.       *)
QuoteAfter(open, text, i) ==
    IF \/ text[i] \notin {Quote, Apostrophe}
       \/ i > 1 /\ text[i - 1] = Escape
       \/ open \notin {Blank, text[i]} THEN open
    ELSE IF open = Blank THEN text[i] ELSE Blank

(* Fault: quotes are not looked at.                                        *)
RemoveCommentAnywhere(line) ==
    LET marks == {i \in DOMAIN line : IsMark(line, i)}
    IN  IF marks = {} THEN line ELSE SubSeq(line, 1, Min(marks) - 1)

RemoveComment(line) ==
    LET open[i \in 0 .. Len(line)] == IF i = 0 THEN Blank ELSE QuoteAfter(open[i - 1], line, i)
        marks == {i \in DOMAIN line : open[i] = Blank /\ IsMark(line, i)}
    IN  IF marks = {} THEN line ELSE SubSeq(line, 1, Min(marks) - 1)

-----------------------------------------------------------------------------
(* Options.                                                                *)

SplitStart == [out |-> << >>, current |-> << >>, quoted |-> FALSE, escaped |-> FALSE]

(* The text collected so far, without blanks around it, if it is not empty.*)
Finished(state) ==
    IF Trim(state.current) = << >> THEN state.out ELSE Append(state.out, Trim(state.current))

SplitStep(state, char) ==
    IF char = ";" /\ ~state.quoted /\ ~state.escaped
    THEN [state EXCEPT !.out = Finished(state), !.current = << >>]
    ELSE [state EXCEPT !.current = Append(@, char),
                       !.escaped = ~@ /\ char = Escape,
                       !.quoted  = IF char = Quote /\ ~state.escaped THEN ~@ ELSE @]

SplitOptionBody(body) == Finished(FoldLeft(SplitStep, SplitStart, body))

(* What stands before and behind the first such character.                 *)
TextBefore(text, char) == SubSeq(text, 1, SelectInSeq(text, LAMBDA c : c = char) - 1)
TextBehind(text, char) == SubSeq(text, SelectInSeq(text, LAMBDA c : c = char) + 1, Len(text))

ParseOption(part) ==
    IF ":" \notin Range(part) THEN [key |-> Trim(part), value |-> <<True>>]
    ELSE [key |-> Trim(TextBefore(part, ":")), value |-> StripQuotes(TextBehind(part, ":"))]

(* parse_options: an option without a name is dropped with a warning.      *)
ParseOptions(body) ==
    LET parts == SplitOptionBody(body)
    IN  SelectSeq([i \in DOMAIN parts |-> ParseOption(parts[i])], LAMBDA o : o.key # << >>)

(* The order of keys, as texts.                                            *)
Alphabet == <<" ", "\"", "#", "'", "/", ":", ";", "\\", "a", "b", "true">>
Code(char) == CHOOSE k \in DOMAIN Alphabet : Alphabet[k] = char

KeyLess(s, t) ==
    \E n \in 0 .. Min({Len(s), Len(t)}) :
        /\ SubSeq(s, 1, n) = SubSeq(t, 1, n)
        /\ n < Len(t) /\ (n < Len(s) => Code(s[n + 1]) < Code(t[n + 1]))

(* stable_sort by key.                                                     *)
SortedOptions(options) ==
    LET rank(i) == Cardinality({j \in DOMAIN options :
                       \/ KeyLess(options[j].key, options[i].key)
                       \/ options[j].key = options[i].key /\ j <= i})
    IN  [k \in DOMAIN options |-> options[CHOOSE i \in DOMAIN options : rank(i) = k]]

(* Fault: values are written as they are.                                  *)
RenderOptionBare(option) ==
    IF option.value = <<True>> THEN option.key \o <<";", Blank>>
    ELSE option.key \o <<":">> \o option.value \o <<";", Blank>>

RenderOption(option) ==
    IF option.value = <<True>> THEN option.key \o <<";", Blank>>
    ELSE option.key \o <<":", Quote>> \o option.value \o <<Quote, ";", Blank>>

(* The options in the text of normalize_rule.                              *)
NormalizeOptions(options) ==
    LET sorted == SortedOptions(options)
    IN  FlattenSeq([i \in DOMAIN sorted |-> RenderOption(sorted[i])])

-----------------------------------------------------------------------------
(* Ports.  A number is a text of its own, and PortOf what it reads as; two *)
(* without anything between them are one that is too large.                *)

PortOf    == [t \in {"0", "80", "443", "65535"} |->
                 IF t = "0" THEN 0 ELSE IF t = "80" THEN 80 ELSE IF t = "443" THEN 443 ELSE 65535]
PortNames == [p \in {0, 80, 443, 65535} |-> CHOOSE t \in DOMAIN PortOf : PortOf[t] = p]

(* The pieces of a text between separators, the empty ones left out.       *)
Pieces(text, char) ==
    LET step(state, c) ==
            IF c = char THEN Append(state, << >>)
            ELSE [state EXCEPT ![Len(state)] = Append(@, c)]
    IN  SelectSeq(FoldLeft(step, << << >> >>, text), LAMBDA piece : piece # << >>)

(* A port, or the end of a range that is left open: a set of one or none.  *)
PortIn(text, open) ==
    IF text = << >> THEN open
    ELSE IF Len(text) = 1 /\ text[1] \in DOMAIN PortOf THEN {PortOf[text[1]]} ELSE {}

(* parse_port_range: the pair, or nothing.                                 *)
ParsePortRange(text) ==
    IF ":" \notin Range(text) THEN {<<p, p>> : p \in PortIn(text, {})}
    ELSE {r \in PortIn(TextBefore(text, ":"), {0}) \X PortIn(TextBehind(text, ":"), {65535}) : r[1] <= r[2]}

(* parse_port_expr: one expression or none.  Nothing behind "!" is read    *)
(* as an empty list, as it is where front() of an empty text is 0.         *)
ParsePortExpr(text) ==
    LET negated == Trim(text) # << >> /\ Trim(text)[1] = "!"
        listed  == IF negated THEN Trim(Tail(Trim(text))) ELSE Trim(text)
        inner   == IF listed # << >> /\ listed[1] = "[" /\ listed[Len(listed)] = "]"
                   THEN SubSeq(listed, 2, Len(listed) - 1) ELSE listed
        parts   == Pieces(inner, ",")
        read    == [i \in DOMAIN parts |-> ParsePortRange(Trim(parts[i]))]
    IN  IF Trim(text) = << >> THEN {}
        ELSE IF listed = <<"any">> THEN {[any |-> TRUE, negated |-> negated, ranges |-> << >>]}
        ELSE IF {} \in Range(read) THEN {}
        ELSE {[any |-> FALSE, negated |-> negated,
               ranges |-> [i \in DOMAIN read |-> CHOOSE r \in read[i] : TRUE]]}

PortMatches(expr, port) ==
    (expr.any \/ \E r \in Range(expr.ranges) : r[1] <= port /\ port <= r[2]) # expr.negated

(* Fault: a range up to the last port is rendered as a port.               *)
RenderRangeOpen(range) ==
    IF range[2] = 65535 THEN <<PortNames[range[1]]>>
    ELSE IF range[1] = range[2] THEN <<PortNames[range[1]]>>
    ELSE <<PortNames[range[1]], ":", PortNames[range[2]]>>

RenderRange(range) ==
    IF range[1] = range[2] THEN <<PortNames[range[1]]>>
    ELSE <<PortNames[range[1]], ":", PortNames[range[2]]>>

(* PortExpr::to_string.                                                    *)
RenderPorts(expr) ==
    IF expr.any /\ ~expr.negated THEN <<"any">>
    ELSE (IF expr.negated THEN <<"!">> ELSE << >>)
         \o FlattenSeq([i \in DOMAIN expr.ranges |->
                (IF i > 1 THEN <<",">> ELSE << >>) \o RenderRange(expr.ranges[i])])

-----------------------------------------------------------------------------
(* Settings.                                                               *)

(* parse_ini_policy: what stands behind the last header is in its section; *)
(* a line without "=" is no setting.                                       *)
ReadIni(lines) ==
    LET step(state, line) ==
            LET clean == Trim(RemoveComment(line))
            IN  IF clean = << >> THEN state
                ELSE IF clean[1] = "[" /\ clean[Len(clean)] = "]"
                     THEN [state EXCEPT !.section = Trim(SubSeq(clean, 2, Len(clean) - 1))]
                ELSE IF "=" \notin Range(clean) THEN state
                ELSE [state EXCEPT !.settings = Append(@,
                         [section |-> state.section, key |-> Trim(TextBefore(clean, "=")),
                          value |-> StripQuotes(TextBehind(clean, "="))])]
    IN  FoldLeft(step, [section |-> << >>, settings |-> << >>], lines).settings

(* Fault: a quote that is doubled within quotes ends them.                 *)
CsvStepUndoubled(line, state, i) ==
    CASE line[i] = Quote -> [state EXCEPT !.quoted = ~@]
      [] line[i] = "," /\ ~state.quoted ->
             [state EXCEPT !.out = Append(@, Trim(state.current)), !.current = << >>]
      [] OTHER -> [state EXCEPT !.current = Append(@, line[i])]

(* A pass of the loop of csv_split_line; one that takes a doubled quote    *)
(* leaves the next to be skipped.                                          *)
CsvStep(line, state, i) ==
    CASE state.skip -> [state EXCEPT !.skip = FALSE]
      [] ~state.skip /\ line[i] = Quote ->
             IF state.quoted /\ i < Len(line) /\ line[i + 1] = Quote
             THEN [state EXCEPT !.current = Append(@, Quote), !.skip = TRUE]
             ELSE [state EXCEPT !.quoted = ~@]
      [] ~state.skip /\ line[i] = "," /\ ~state.quoted ->
             [state EXCEPT !.out = Append(@, Trim(state.current)), !.current = << >>]
      [] OTHER -> [state EXCEPT !.current = Append(@, line[i])]

CsvSplitLine(line) ==
    LET start == [out |-> << >>, current |-> << >>, quoted |-> FALSE, skip |-> FALSE]
        end   == FoldLeftDomain(LAMBDA state, i : CsvStep(line, state, i), start, line)
    IN  Append(end.out, Trim(end.current))

(* A row under a header: a setting for every column that both have.        *)
ReadCsvRow(headers, line) ==
    LET columns == CsvSplitLine(Trim(line))
        names   == CsvSplitLine(Trim(headers))
    IN  IF Trim(line) = << >> THEN << >>
        ELSE [i \in 1 .. Min({Len(names), Len(columns)}) |->
                 [key |-> StripQuotes(names[i]), value |-> StripQuotes(columns[i])]]
=============================================================================
