----------------------------- MODULE MCDnsMessage -----------------------------
(* Messages for DnsMessage: what a writer free in its use of compression     *)
(* makes of some originals, the same cut and continued, and messages that no *)
(* writer makes.                                                             *)
EXTENDS DnsWriting

A == <<97>>
B == <<98, 99>>

RECURSIVE Denotes(_, _, _)
(* The bytes at this offset are a way to write the name.                     *)
Denotes(bytes, offset, name) ==
    /\ offset < Len(bytes)
    /\ LET marker == bytes[offset + 1]
       IN  IF marker >= 192
           THEN offset + 2 <= Len(bytes) /\
                LET to == (marker % 64) * 256 + bytes[offset + 2]
                IN  to < offset /\ Denotes(bytes, to, name)
           ELSE IF name = << >> THEN marker = 0
           ELSE /\ marker = Len(Head(name))
                /\ offset + 1 + marker <= Len(bytes)
                /\ SubSeq(bytes, offset + 2, offset + 1 + marker) = Head(name)
                /\ Denotes(bytes, offset + 1 + marker, Tail(name))

RECURSIVE WriteName(_, _)
(* All ways to write a name behind these bytes: a label or the end of the    *)
(* name, or a pointer to where the rest of it stands already.                *)
WriteName(bytes, name) ==
    LET places == {o \in 12 .. Len(bytes) - 1 : name # << >> /\ Denotes(bytes, o, name)}
    IN  {bytes \o <<192 + o \div 256, o % 256>> : o \in places}
        \cup (IF name = << >> THEN {bytes \o <<0>>}
              ELSE WriteName(bytes \o <<Len(Head(name))>> \o Head(name), Tail(name)))

(* Numbers that stand for the class of all items and the time to live.       *)
Class == <<0, 1>>
Ttl == <<0, 0, 1, 44>>

WriteQuestion(bytes, question) ==
    {w \o <<0, question.type>> \o Class : w \in WriteName(bytes, question.name)}

(* The data of a record: a name, that may be compressed, or bytes.           *)
WriteData(bytes, record) ==
    IF HoldsName(record.type)
    THEN UNION {{w \in WriteName(bytes \o <<0, length>>, record.target) :
                    Len(w) = Len(bytes) + 2 + length} : length \in 1 .. 9}
    ELSE {bytes \o <<0, Len(record.target)>> \o record.target}

WriteRecord(bytes, record) ==
    UNION {WriteData(w \o <<0, record.type>> \o Class \o Ttl, record) :
              w \in WriteName(bytes, record.name)}

(* An original: a flag byte, questions, and the records of three sections.   *)
WriteHeader(original) ==
    <<1, 2, original.flags, 3, 0, Len(original.questions)>> \o
    <<0, Len(original.sections[1]), 0, Len(original.sections[2]), 0, Len(original.sections[3])>>

Encodings(original) ==
    LET records == FlattenSeq(original.sections)
        questions == FoldLeft(LAMBDA written, q : UNION {WriteQuestion(w, q) : w \in written},
                              {WriteHeader(original)}, original.questions)
    IN  FoldLeft(LAMBDA written, r : UNION {WriteRecord(w, r) : w \in written},
                 questions, records)

Question(name) == [name |-> name, type |-> 255]
Record(name, type, target) == [name |-> name, type |-> type, target |-> target]
Original(flags, questions, sections) ==
    [flags |-> flags, questions |-> questions, sections |-> sections]

Names == {<< >>, <<A>>, <<A, B>>, <<B>>}
Originals ==
    {Original(128, <<Question(q)>>, <<<<Record(o, 5, t)>>, << >>, << >>>>) :
         q \in Names, o \in Names \ {<< >>}, t \in Names}
    \cup {Original(0, <<Question(<<A, B>>), Question(<<B>>)>>, <<<< >>, << >>, << >>>>),
          Original(0, << >>, <<<< >>, << >>, << >>>>),
          Original(132, <<Question(<<B>>)>>,
                   <<<<Record(<<A, B>>, 5, <<B>>)>>,
                     <<Record(<< >>, 1, <<10, 0, 0, 192>>)>>,
                     <<Record(<<A, B>>, 16, <<1, 120, 0, 2, 121, 122>>)>>>>),
          Original(134, << >>, <<<<Record(<<A>>, 1, <<1, 2>>), Record(<<A>>, 16, <<3, 120>>)>>,
                                 <<Record(<<A>>, 16, << >>)>>, <<Record(<<A>>, 12, <<A, B>>)>>>>)}
EncodingsOf == [original \in Originals |-> Encodings(original)]

(* The one writing that compresses nothing is the longest.                   *)
Longest(original) == CHOOSE w \in EncodingsOf[original] :
                        \A v \in EncodingsOf[original] : Len(v) <= Len(w)
Shortest(original) == CHOOSE w \in EncodingsOf[original] :
                        \A v \in EncodingsOf[original] : Len(v) >= Len(w)
Many == {o \in Originals : o.sections[2] # << >>}

Continued == UNION {{Shortest(o) \o tail : tail \in {<<0>>, <<192, 12>>}} : o \in Many}
Cut == UNION {{SubSeq(w, 1, n) : n \in 0 .. Len(w) - 1} :
                 w \in {Shortest(o) : o \in Many} \cup {Longest(o) : o \in Many}}

(* One byte of a message is another: a count, a length, a marker, a pointer. *)
Changed == UNION {{[w EXCEPT ![k] = b] : k \in DOMAIN w, b \in {0, 1, 12, 25, 192, 255}} :
                     w \in {Shortest(o) : o \in Many}}
(* The header promises everything, and nothing is there but small things.    *)
Greedy == {<<0, 0, 2, 0, 255, 255, 255, 255, 255, 255, 255, 255>> \o tail :
              tail \in {[k \in 1 .. n |-> b] : n \in 0 .. 12, b \in {0, 192}}}

AllMessages == UNION {EncodingsOf[o] : o \in Originals} \cup Continued \cup Cut \cup Changed \cup Greedy

-----------------------------------------------------------------------------
(* What the writer meant by the bytes: WrittenAssumption checks it.          *)

RECURSIVE SpellingFrom(_, _)
(* The spelling that goes on with this mark.                                 *)
SpellingFrom(bytes, mark) ==
    LET marker == bytes[mark.place + 1]
    IN  <<mark>> \o
        IF marker = 0 THEN << >>
        ELSE SpellingFrom(bytes,
                 IF marker < 192
                 THEN [place |-> mark.place + 1 + marker, told |-> mark.told + 1,
                       calls |-> mark.calls, size |-> mark.size + 1 + marker]
                 ELSE [mark EXCEPT !.place = (marker % 64) * 256 + bytes[mark.place + 2],
                                   !.calls = @ + 1])
Spelling(bytes, from) ==
    SpellingFrom(bytes, [place |-> from, told |-> 0, calls |-> 0, size |-> 0])

(* Where a spelled name ends: behind the last mark before a pointer.         *)
EndOf(bytes, spelled) ==
    LET last == CHOOSE k \in DOMAIN spelled :
                   /\ spelled[k].calls = 0
                   /\ k = Len(spelled) \/ spelled[k + 1].calls = 1
    IN  spelled[last].place + IF bytes[spelled[last].place + 1] = 0 THEN 1 ELSE 2

(* The things of an original, as they stand in the bytes from here on.       *)
QuestionThing(bytes, from, question) ==
    LET spelled == Spelling(bytes, from)
        behind == EndOf(bytes, spelled)
    IN  [from |-> from, behind |-> behind, to |-> behind + 4, name |-> question.name,
         spelled |-> spelled, type |-> question.type, klass |-> 1, ttl |-> << >>,
         data |-> << >>, target |-> << >>, targetSpelled |-> << >>]
RecordThing(bytes, from, record) ==
    LET spelled == Spelling(bytes, from)
        behind == EndOf(bytes, spelled)
        named == HoldsName(record.type)
        length == WordIn(bytes, behind + 8)
    IN  [from |-> from, behind |-> behind, to |-> behind + 10 + length,
         name |-> record.name, spelled |-> spelled, type |-> record.type, klass |-> 1,
         ttl |-> Ttl,
         data |-> IF named THEN DataIn(bytes, behind + 10, length) ELSE record.target,
         target |-> IF named THEN record.target ELSE << >>,
         targetSpelled |-> IF named THEN Spelling(bytes, behind + 10) ELSE << >>]

Things(bytes, original) ==
    LET EndsWith(things) == IF things = << >> THEN 12 ELSE Last(things).to
        questions == FoldLeft(LAMBDA things, q :
                        Append(things, QuestionThing(bytes, EndsWith(things), q)),
                        << >>, original.questions)
    IN  FoldLeft(LAMBDA things, r : Append(things, RecordThing(bytes, EndsWith(things), r)),
                 questions, FlattenSeq(original.sections))

HeaderOf(original) ==
    [id |-> 258, response |-> original.flags >= 128, opcode |-> 0,
     authoritative |-> original.flags \in {132, 134}, truncated |-> original.flags = 134,
     recursion_desired |-> FALSE, recursion_available |-> FALSE, rcode |-> 3]

AllWritten ==
    UNION {{[bytes |-> bytes, header |-> HeaderOf(o), reserved |-> 0,
             things |-> Things(bytes, o)] : bytes \in EncodingsOf[o]} : o \in Originals}
=============================================================================
