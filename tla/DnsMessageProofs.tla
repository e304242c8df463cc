--------------------------- MODULE DnsMessageProofs ---------------------------
(* What TLAPS proves of DnsMessage, for every set of messages and all limits.  *)
(* What the loops hold is proved on top of what DnsNameProofs shows of the     *)
(* read of one name, which is taken from there by INSTANCE.                    *)
EXTENDS DnsWriting, SequenceTheorems, TLAPS

NP == INSTANCE DnsNameProofs

(* A list of items, with nothing said of what an item is.                      *)
Listed(read) == read \in Seq({read[k] : k \in DOMAIN read})

(* Items side by side inside the message, each five bytes long at least.       *)
Tiled(read) ==
    \A k \in DOMAIN read :
        /\ {"from", "to"} \subseteq DOMAIN read[k]
        /\ read[k].from \in Nat /\ read[k].to \in Nat
        /\ read[k].from = IF k = 1 THEN 12 ELSE read[k - 1].to
        /\ read[k].from + 5 <= read[k].to
        /\ read[k].to <= Len(message)
        /\ 12 + 5 * k <= read[k].to

(* The stage that the loops are in, and what they hold then.                   *)
Staged ==
    /\ reading \in Errors \cup {"header", "owner", "rdata", "ok"}
    /\ reading \in Errors \cup {"header"} => items = << >>
    /\ reading \in {"owner", "rdata", "ok"} => Len(message) >= 12
    /\ reading = "owner" => Len(items) < Total /\ start = Behind(items)
    /\ reading = "rdata" => Len(items) <= Total /\ items # << >>
    /\ reading = "ok" => Len(items) = Total

IInv == NP!IInv /\ Listed(items) /\ Tiled(items) /\ Staged

-----------------------------------------------------------------------------
(* The read of one name is that of DnsNameProofs.                              *)
LEMMA SameNext == N!Next <=> NP!Next
BY DEF N!Next, NP!Next, N!OutsideMessage, NP!OutsideMessage, N!EndOfName, NP!EndOfName,
   N!InvalidMarker, NP!InvalidMarker, N!ReadLabel, NP!ReadLabel,
   N!FollowPointer, NP!FollowPointer, N!Fail, NP!Fail, N!Continue, NP!Continue,
   N!ReadMarker, NP!ReadMarker, N!HasBytes, NP!HasBytes, N!Marker, NP!Marker,
   N!Innermost, NP!Innermost, N!Call, NP!Call

(* A pass of its loop keeps its invariant, message and start.                  *)
LEMMA NameStep ==
    ASSUME NP!IInv, N!Next
    PROVE  NP!IInv' /\ message' = message /\ start' = start
<1>1. NP!IInv'
  BY SameNext, NP!NextInvariant, MessagesAssumption, LimitsAssumption DEF NP!Byte
<1>2. message' = message /\ start' = start
  BY DEF N!Next, N!OutsideMessage, N!EndOfName, N!InvalidMarker, N!ReadLabel,
         N!FollowPointer, N!Fail
<1> QED
  BY <1>1, <1>2

(* So does a step that leaves its variables alone.                             *)
LEMMA NameStays ==
    ASSUME NP!IInv, UNCHANGED nameVars
    PROVE  NP!IInv'
BY NP!NextInvariant, MessagesAssumption, LimitsAssumption DEF NP!Byte, NP!vars, nameVars

(* A read that begins inside the message has the invariant.                    *)
LEMMA NameBegins ==
    ASSUME NP!IInv, NEW offset \in Nat, offset <= Len(message), ReadNameAt(offset)
    PROVE  NP!IInv'
<1>1. message \in Messages /\ message' = message /\ Len(message) \in Nat
  BY NP!MessageBytes, MessagesAssumption, LimitsAssumption
     DEF NP!IInv, NP!TypeOK, NP!Byte, ReadNameAt
<1>2. /\ start' = offset /\ frames' = <<NP!Call(offset)>> /\ result' = "reading"
      /\ NP!Call(offset) \in NP!Frame
      /\ Len(frames') = 1 /\ DOMAIN frames' = {1} /\ frames'[1] = NP!Call(offset)
      /\ NP!Call(offset).labels = << >> /\ NP!Call(offset).size = 0
      /\ NP!Call(offset).offset = offset
  BY DEF ReadNameAt, N!Call, NP!Call, NP!Frame
<1>3. NP!TypeOK'
  BY <1>1, <1>2, LimitsAssumption DEF NP!TypeOK
<1>4. NP!LabelsReal'
  BY <1>2 DEF NP!LabelsReal
<1>5. NP!CursorInside'
  BY <1>1, <1>2 DEF NP!CursorInside, NP!Cursor
<1> QED
  BY <1>3, <1>4, <1>5 DEF NP!IInv

(* What the read of a name leaves to the loops.                                *)
LEMMA NameFacts ==
    ASSUME NP!IInv
    PROVE  /\ message \in Messages /\ Len(message) \in Nat
           /\ \A k \in 1 .. Len(message) : message[k] \in Nat
           /\ start \in Nat /\ N!Cursor \in Nat /\ N!Cursor <= Len(message)
           /\ result = "ok" => N!Cursor > start
           /\ result \in N!Errors \cup {"reading", "ok"}
<1>1. /\ message \in Messages /\ Len(message) \in Nat
      /\ \A k \in 1 .. Len(message) : message[k] \in Nat
  BY NP!MessageBytes, MessagesAssumption, LimitsAssumption DEF NP!IInv, NP!TypeOK, NP!Byte
<1>2. start \in Nat /\ N!Cursor = NP!Cursor
  BY <1>1 DEF NP!IInv, NP!TypeOK, N!Cursor, NP!Cursor
<1>3. /\ N!Cursor \in Nat /\ N!Cursor <= Len(message)
      /\ result = "ok" => N!Cursor > start
  BY <1>1, <1>2 DEF NP!IInv, NP!CursorInside
<1>4. result \in N!Errors \cup {"reading", "ok"}
  BY DEF NP!IInv, NP!TypeOK, N!Errors, NP!Errors
<1> QED
  BY <1>1, <1>2, <1>3, <1>4

(* The counts of a message that has a header.                                  *)
LEMMA TotalIsNumber ==
    ASSUME NP!IInv, Len(message) >= 12
    PROVE  Total \in Nat /\ \A offset \in 0 .. Len(message) - 2 : Word(offset) \in Nat
<1>1. Len(message) \in Nat /\ \A k \in 1 .. Len(message) : message[k] \in Nat
  BY NameFacts
<1>2. \A offset \in 0 .. Len(message) - 2 : Word(offset) \in Nat
  BY <1>1 DEF Word
<1>3. Word(4) \in Nat /\ Word(6) \in Nat /\ Word(8) \in Nat /\ Word(10) \in Nat
  <2>1. 4 \in 0 .. Len(message) - 2 /\ 6 \in 0 .. Len(message) - 2
    BY <1>1
  <2>2. 8 \in 0 .. Len(message) - 2 /\ 10 \in 0 .. Len(message) - 2
    BY <1>1
  <2> QED
    BY <1>2, <2>1, <2>2
<1>4. /\ Counts[1] = Word(4) /\ Counts[2] = Word(6)
      /\ Counts[3] = Word(8) /\ Counts[4] = Word(10)
  BY DEF Counts
<1>5. Total \in Nat
  <2>1. Total = Word(4) + Word(6) + Word(8) + Word(10)
    BY <1>4, Zenon DEF Total
  <2> HIDE DEF Word
  <2> QED
    BY <1>3, <2>1
<1> QED
  BY <1>2, <1>5

-----------------------------------------------------------------------------
(* Lists of items.                                                           *)

(* Every sequence is a list.                                                 *)
LEMMA SeqListed ==
    ASSUME NEW S, NEW read \in Seq(S)
    PROVE  Listed(read)
<1> DEFINE T == {read[k] : k \in DOMAIN read}
<1>1. Len(read) \in Nat /\ DOMAIN read = 1 .. Len(read) /\ read \in [1 .. Len(read) -> S]
  BY LenProperties
<1>2. read = [k \in 1 .. Len(read) |-> read[k]] /\ \A k \in 1 .. Len(read) : read[k] \in T
  BY <1>1
<1>3. read \in [1 .. Len(read) -> T]
  BY <1>2
<1>4. read \in Seq(T)
  BY <1>1, <1>3, SeqDef
<1> QED
  BY <1>4 DEF Listed

(* A list with one more item.                                                *)
LEMMA OneMore ==
    ASSUME NEW read, Listed(read), NEW item
    PROVE  /\ Listed(Append(read, item))
           /\ Len(read) \in Nat
           /\ Len(Append(read, item)) = Len(read) + 1
           /\ DOMAIN read = 1 .. Len(read)
           /\ DOMAIN Append(read, item) = 1 .. Len(read) + 1
           /\ \A k \in 1 .. Len(read) : Append(read, item)[k] = read[k]
           /\ Append(read, item)[Len(read) + 1] = item
<1> DEFINE S == {read[k] : k \in DOMAIN read} \cup {item}
           longer == Append(read, item)
<1>1. read \in Seq({read[k] : k \in DOMAIN read})
  BY DEF Listed
<1>2. Len(read) \in Nat /\ DOMAIN read = 1 .. Len(read) /\ read \in [1 .. Len(read) -> S]
  BY <1>1
<1>3. read \in Seq(S)
  BY <1>2
<1>4. /\ longer \in Seq(S)
      /\ Len(longer) = Len(read) + 1
      /\ DOMAIN longer = 1 .. Len(read) + 1
      /\ \A k \in 1 .. Len(read) : longer[k] = read[k]
      /\ longer[Len(read) + 1] = item
  BY <1>3
<1>6. Listed(longer)
  BY <1>4, SeqListed
<1> QED
  BY <1>2, <1>4, <1>6

(* Items side by side stay so with one that begins where they end.           *)
LEMMA TileOneMore ==
    ASSUME NEW read, Listed(read), Tiled(read), Len(message) \in Nat, Len(message) >= 12,
           NEW item, {"from", "to"} \subseteq DOMAIN item, item.from = Behind(read), item.to \in Nat,
           item.from + 5 <= item.to, item.to <= Len(message)
    PROVE  Tiled(Append(read, item)) /\ Behind(Append(read, item)) = item.to
<1> DEFINE longer == Append(read, item)
<1>1. /\ Len(read) \in Nat
      /\ Len(longer) = Len(read) + 1
      /\ DOMAIN read = 1 .. Len(read)
      /\ DOMAIN longer = 1 .. Len(read) + 1
      /\ \A k \in 1 .. Len(read) : longer[k] = read[k]
      /\ longer[Len(read) + 1] = item
  BY OneMore
<1> HIDE DEF longer
<1>2. Behind(longer) = item.to
  <2>1. longer # << >>
    BY <1>1
  <2> QED
    BY <1>1, <2>1 DEF Behind, Last
<1>3. /\ item.from \in Nat
      /\ item.from = IF Len(read) = 0 THEN 12 ELSE read[Len(read)].to
      /\ 12 + 5 * Len(read) <= item.from
  <2>1. CASE Len(read) = 0
    <3>1. read = << >>
      BY <2>1 DEF Listed
    <3> QED
      BY <2>1, <3>1 DEF Behind
  <2>2. CASE Len(read) # 0
    <3>1. read # << >> /\ Len(read) \in DOMAIN read
      BY <1>1, <2>2
    <3>2. item.from = read[Len(read)].to
      BY <3>1 DEF Behind, Last
    <3> QED
      BY <1>1, <2>2, <3>1, <3>2 DEF Tiled
  <2> QED
    BY <2>1, <2>2
<1>4. SUFFICES ASSUME NEW k \in DOMAIN longer
               PROVE  /\ {"from", "to"} \subseteq DOMAIN longer[k]
                      /\ longer[k].from \in Nat /\ longer[k].to \in Nat
                      /\ longer[k].from = IF k = 1 THEN 12 ELSE longer[k - 1].to
                      /\ longer[k].from + 5 <= longer[k].to
                      /\ longer[k].to <= Len(message)
                      /\ 12 + 5 * k <= longer[k].to
  BY <1>2 DEF Tiled, longer
<1>5. CASE k = Len(read) + 1
  <2>1. longer[k] = item
    BY <1>1, <1>5
  <2>2. k # 1 => longer[k - 1] = read[Len(read)]
    BY <1>1, <1>5
  <2> QED
    BY <1>1, <1>3, <1>5, <2>1, <2>2
<1>6. CASE k # Len(read) + 1
  <2>1. k \in 1 .. Len(read) /\ longer[k] = read[k] /\ (k # 1 => longer[k - 1] = read[k - 1])
    BY <1>1, <1>4, <1>6
  <2> QED
    BY <1>1, <2>1 DEF Tiled
<1> QED
  BY <1>5, <1>6

(* What shows the data changes nothing of where the items lie.               *)
LEMMA TextChanges ==
    ASSUME NEW read, Listed(read), Tiled(read), read # << >>, NEW text
    PROVE  LET shown == [read EXCEPT ![Len(read)].text = text]
           IN  /\ Listed(shown) /\ Tiled(shown) /\ Len(shown) = Len(read)
               /\ shown # << >> /\ Behind(shown) = Last(read).to
<1> DEFINE shown == [read EXCEPT ![Len(read)].text = text]
           n == Len(read)
           item == [read[n] EXCEPT !.text = text]
           S == {read[k] : k \in DOMAIN read} \cup {item}
<1>1. /\ n \in Nat /\ DOMAIN read = 1 .. n /\ read \in Seq(S) /\ n # 0
  <2>1. read \in Seq({read[k] : k \in DOMAIN read})
    BY DEF Listed
  <2> QED
    BY <2>1, SeqMonotonic, EmptySeq, LenProperties
<1>2. /\ {"from", "to"} \subseteq DOMAIN item
      /\ item.from = read[n].from /\ item.to = read[n].to
  BY <1>1 DEF Tiled
<1>3. /\ shown = [read EXCEPT ![n] = item]
      /\ shown \in Seq(S) /\ Len(shown) = n
      /\ \A k \in 1 .. n : shown[k] = IF k = n THEN item ELSE read[k]
  BY <1>1, ExceptSeq
<1> HIDE DEF item, S
<1>4. Listed(shown) /\ Len(shown) = n /\ DOMAIN shown = 1 .. n
  BY <1>3, SeqListed, LenProperties
<1> HIDE DEF shown
<1>5. Tiled(shown)
  <2> SUFFICES ASSUME NEW k \in 1 .. Len(read)
               PROVE  /\ {"from", "to"} \subseteq DOMAIN shown[k]
                      /\ shown[k].from \in Nat /\ shown[k].to \in Nat
                      /\ shown[k].from = IF k = 1 THEN 12 ELSE shown[k - 1].to
                      /\ shown[k].from + 5 <= shown[k].to
                      /\ shown[k].to <= Len(message)
                      /\ 12 + 5 * k <= shown[k].to
    BY <1>4 DEF Tiled
  <2>1. /\ {"from", "to"} \subseteq DOMAIN read[k]
        /\ k # 1 => k - 1 \in 1 .. n
    BY <1>1 DEF Tiled
  <2>2. /\ {"from", "to"} \subseteq DOMAIN shown[k]
        /\ shown[k].from = read[k].from /\ shown[k].to = read[k].to
        /\ k # 1 => shown[k - 1].to = read[k - 1].to
    BY <1>2, <1>3, <2>1
  <2> QED
    BY <1>1, <2>1, <2>2 DEF Tiled
<1>6. shown # << >> /\ Behind(shown) = Last(read).to
  <2>1. shown # << >> /\ shown[n].to = read[n].to
    BY <1>1, <1>2, <1>3, <1>4
  <2> QED
    BY <1>4, <2>1 DEF Behind, Last
<1> QED
  BY <1>4, <1>5, <1>6 DEF shown

-----------------------------------------------------------------------------
(* The steps.                                                                *)

(* The initial state.                                                        *)
LEMMA InitInvariant == Init => IInv
<1> SUFFICES ASSUME Init PROVE IInv
  OBVIOUS
<1>1. message \in Messages /\ Len(message) \in Nat
  <2>1. message \in Seq(0 .. 255)
    BY MessagesAssumption DEF Init
  <2> QED
    BY <2>1 DEF Init
<1>2. NP!Init
  BY <1>1 DEF Init, NP!Init, N!Call, NP!Call
<1>3. NP!IInv
  BY <1>2, NP!InitInvariant, MessagesAssumption, LimitsAssumption DEF NP!Byte
<1>4. items = << >> /\ reading = "header"
  BY DEF Init
<1>5. Listed(items)
  BY <1>4, SeqListed, EmptySeq
<1>6. Tiled(items) /\ Staged
  BY <1>4 DEF Tiled, Staged, Errors, N!Errors
<1> QED
  BY <1>3, <1>5, <1>6 DEF IInv

(* A refusal keeps the invariant.                                            *)
LEMMA RefuseKeeps ==
    ASSUME IInv, NEW error \in Errors, Refuse(error)
    PROVE  IInv'
<1>1. reading' = error /\ items' = << >> /\ message' = message /\ NP!IInv'
  BY NameStays DEF IInv, Refuse, nameVars
<1>2. Listed(items')
  BY <1>1, SeqListed, EmptySeq
<1>3. Tiled(items)'
  BY <1>1 DEF Tiled
<1>4. error \notin {"header", "owner", "rdata", "ok"}
  BY DEF Errors, N!Errors
<1>5. Staged'
  BY <1>1, <1>4 DEF Staged
<1> QED
  BY <1>1, <1>2, <1>3, <1>5 DEF IInv, Listed

(* Going on behind items that lie side by side keeps it.                     *)
LEMMA GoOnKeeps ==
    ASSUME IInv, NEW read, Listed(read), Tiled(read), Len(read) <= Total,
           Len(message) >= 12, NEW offset, offset = Behind(read), GoOn(offset, read)
    PROVE  IInv'
<1>1. Len(message) \in Nat /\ Len(read) \in Nat
  BY NameFacts, LenProperties DEF IInv, Listed
<1>2. items' = read /\ message' = message
  BY DEF GoOn, ReadNameAt, nameVars
<1>3. Total \in Nat /\ Total' = Total
  BY <1>2, TotalIsNumber DEF IInv, Total, Counts, Word
<1>4. Listed(items)' /\ Tiled(items)'
  BY <1>2 DEF Listed, Tiled
<1>5. offset \in Nat /\ offset <= Len(message)
  <2>1. CASE read = << >>
    BY <1>1, <2>1 DEF Behind
  <2>2. CASE read # << >>
    <3>1. Len(read) \in DOMAIN read
      BY <2>2, LenProperties, EmptySeq DEF Listed
    <3> QED
      BY <2>2, <3>1 DEF Behind, Last, Tiled
  <2> QED
    BY <2>1, <2>2
<1>6. CASE Len(read) < Total
  <2>1. ReadNameAt(offset) /\ reading' = "owner" /\ start' = offset
    BY <1>6 DEF GoOn, ReadNameAt
  <2>2. NP!IInv'
    BY <1>5, <2>1, NameBegins DEF IInv
  <2>3. Staged'
    BY <1>2, <1>3, <1>6, <2>1 DEF Staged, Errors, N!Errors, Behind
  <2> QED
    BY <1>4, <2>2, <2>3 DEF IInv
<1>7. CASE ~(Len(read) < Total)
  <2>1. reading' = "ok" /\ NP!IInv'
    BY <1>7, NameStays DEF GoOn, IInv
  <2>2. Len(items') = Total'
    BY <1>1, <1>2, <1>3, <1>7
  <2>3. Staged'
    BY <1>2, <2>1, <2>2 DEF Staged, Errors, N!Errors
  <2> QED
    BY <1>4, <2>1, <2>3 DEF IInv
<1> QED
  BY <1>6, <1>7

(* What is known when the name of an item was read.                          *)
LEMMA OwnerFacts ==
    ASSUME IInv, OwnerRead
    PROVE  /\ Len(items) \in Nat /\ Total \in Nat /\ Len(items) + 1 <= Total
           /\ Len(message) \in Nat /\ Len(message) >= 12
           /\ start = Behind(items) /\ start \in Nat
           /\ N!Cursor \in Nat /\ N!Cursor > start
           /\ \A offset \in 0 .. Len(message) - 2 : Word(offset) \in Nat
<1>1. Len(items) \in Nat
  BY LenProperties DEF IInv, Listed
<1>2. Len(items) < Total /\ start = Behind(items) /\ Len(message) >= 12
  BY DEF IInv, Staged, OwnerRead
<1>3. Total \in Nat /\ \A offset \in 0 .. Len(message) - 2 : Word(offset) \in Nat
  BY <1>2, TotalIsNumber DEF IInv
<1>4. Len(message) \in Nat /\ start \in Nat /\ N!Cursor \in Nat /\ N!Cursor > start
  BY NameFacts DEF IInv, OwnerRead
<1> QED
  BY <1>1, <1>2, <1>3, <1>4

(* The header keeps it.                                                      *)
LEMMA ReadHeaderKeeps == ASSUME IInv, ReadHeader PROVE IInv'
<1>1. Len(message) \in Nat
  BY NameFacts DEF IInv
<1>2. CASE Len(message) < 12
  BY <1>2, RefuseKeeps DEF ReadHeader, Errors
<1>3. CASE ~(Len(message) < 12)
  <2>1. GoOn(12, << >>) /\ Len(message) >= 12
    BY <1>1, <1>3 DEF ReadHeader
  <2>2. Listed(<< >>) /\ Tiled(<< >>) /\ Behind(<< >>) = 12
    <3>1. Listed(<< >>)
      BY SeqListed, EmptySeq
    <3>2. Tiled(<< >>)
      BY DEF Tiled
    <3> QED
      BY <3>1, <3>2 DEF Behind
  <2>3. Len(<< >>) <= Total
    BY <2>1, TotalIsNumber DEF IInv
  <2> QED
    BY <2>1, <2>2, <2>3, GoOnKeeps
<1> QED
  BY <1>2, <1>3

(* A pass of the loop that reads a name keeps it.                            *)
LEMMA ReadNameKeeps == ASSUME IInv, ReadName PROVE IInv'
<1>1. /\ NP!IInv' /\ message' = message /\ start' = start
      /\ items' = items /\ reading' = reading
  BY NameStep DEF IInv, ReadName
<1>2. Total' = Total
  BY <1>1 DEF Total, Counts, Word
<1> QED
  BY <1>1, <1>2 DEF IInv, Listed, Tiled, Staged, Behind

(* The end of a question keeps it.                                           *)
LEMMA FinishQuestionKeeps == ASSUME IInv, FinishQuestion PROVE IInv'
<1> DEFINE at == N!Cursor
<1>1. CASE ~N!HasBytes(at, 4)
  BY <1>1, RefuseKeeps DEF FinishQuestion, Errors
<1>2. CASE N!HasBytes(at, 4)
  <2> DEFINE item == [from |-> start, to |-> at + 4, name |-> N!Name, type |-> Word(at),
                      klass |-> Word(at + 2), ttl |-> << >>, data |-> << >>,
                      text |-> [kind |-> "none", parts |-> << >>]]
  <2>1. OwnerRead /\ GoOn(at + 4, Append(items, item))
    BY <1>2 DEF FinishQuestion
  <2>2. at + 4 <= Len(message)
    BY <1>2 DEF N!HasBytes
  <2>3. item.from = start /\ item.to = at + 4 /\ {"from", "to"} \subseteq DOMAIN item
    OBVIOUS
  <2>6. item.from = Behind(items) /\ item.to \in Nat /\ item.from + 5 <= item.to
    BY <2>1, <2>3, OwnerFacts
  <2> HIDE DEF item
  <2>4. Tiled(Append(items, item)) /\ Behind(Append(items, item)) = at + 4
    <3>1. Listed(items) /\ Tiled(items) /\ Len(message) \in Nat /\ Len(message) >= 12
      BY <2>1, OwnerFacts DEF IInv
    <3>2. item.to <= Len(message)
      BY <2>2, <2>3
    <3> HIDE DEF at
    <3> QED
      BY <2>3, <2>6, <3>1, <3>2, TileOneMore
  <2>5. Listed(Append(items, item)) /\ Len(Append(items, item)) = Len(items) + 1
    BY OneMore DEF IInv
  <2> QED
    BY <2>1, <2>4, <2>5, OwnerFacts, GoOnKeeps
<1> QED
  BY <1>1, <1>2

(* The end of a record keeps it, or the name in its data is read next.       *)
LEMMA FinishRecordKeeps == ASSUME IInv, FinishRecord PROVE IInv'
<1> DEFINE at == N!Cursor
           length == Word(at + 8)
           data == at + 10
<1>1. CASE ~N!HasBytes(at, 10)
  BY <1>1, RefuseKeeps DEF FinishRecord, Errors
<1>2. CASE N!HasBytes(at, 10) /\ ~N!HasBytes(data, length)
  BY <1>2, RefuseKeeps DEF FinishRecord, Errors
<1>3. CASE N!HasBytes(at, 10) /\ N!HasBytes(data, length)
  <2> DEFINE bytes == Bytes(data, length)
             item == [from |-> start, to |-> data + length, name |-> N!Name, type |-> Word(at),
                      klass |-> Word(at + 2), ttl |-> Bytes(at + 4, 4), data |-> bytes,
                      text |-> TextOf(Word(at), bytes)]
             read == Append(items, item)
  <2>1. OwnerRead
    BY DEF FinishRecord
  <2>2. IF HoldsName(Word(at)) /\ length > 0
        THEN items' = read /\ reading' = "rdata" /\ ReadNameAt(data)
        ELSE GoOn(data + length, read)
    BY <1>3 DEF FinishRecord
  <2>3. length \in Nat /\ data \in Nat /\ data + length <= Len(message) /\ data > start
    BY <1>3, <2>1, OwnerFacts DEF N!HasBytes
  <2>4. item.from = start /\ item.to = data + length /\ {"from", "to"} \subseteq DOMAIN item
    OBVIOUS
  <2>5. item.from + 5 <= item.to
    <3>1. start \in Nat /\ start + 5 <= data
      BY <2>1, OwnerFacts
    <3>2. start + 5 <= data + length
      <4> HIDE DEF data, length
      <4> QED
        BY <2>3, <3>1
    <3> HIDE DEF item
    <3> QED
      BY <2>4, <3>2, Zenon
  <2> HIDE DEF item
  <2>6. Tiled(read) /\ Behind(read) = data + length
    <3>1. Listed(items) /\ Tiled(items) /\ Len(message) \in Nat /\ Len(message) >= 12
      BY <2>1, OwnerFacts DEF IInv
    <3>2. item.from = Behind(items)
      BY <2>1, <2>4, OwnerFacts
    <3>3. item.to \in Nat /\ item.to <= Len(message)
      <4> HIDE DEF data, length
      <4> QED
        BY <2>3, <2>4
    <3>4. Tiled(Append(items, item)) /\ Behind(Append(items, item)) = item.to
      <4> HIDE DEF at, data, length
      <4> QED
        BY <2>4, <2>5, <3>1, <3>2, <3>3, TileOneMore
    <3> QED
      BY <2>4, <3>4, Zenon
  <2>7. Listed(read) /\ Len(read) = Len(items) + 1
    <3>1. Listed(items)
      BY DEF IInv
    <3> QED
      BY <3>1, OneMore, Zenon
  <2> HIDE DEF read
  <2>8. CASE HoldsName(Word(at)) /\ length > 0
    <3>1. items' = read /\ reading' = "rdata" /\ ReadNameAt(data)
      BY <2>2, <2>8
    <3>2. NP!IInv' /\ message' = message
      <4>1. NP!IInv
        BY DEF IInv
      <4>2. data \in Nat /\ data <= Len(message)
        BY <2>1, <2>3, OwnerFacts
      <4> HIDE DEF data
      <4>3. message' = message
        BY <3>1 DEF ReadNameAt
      <4> QED
        BY <3>1, <4>1, <4>2, <4>3, NameBegins
    <3>3. Total' = Total
      BY <3>2 DEF Total, Counts, Word
    <3>4. read # << >>
      BY <2>1, <2>7, OwnerFacts
    <3>5. Staged'
      BY <2>1, <2>7, <3>1, <3>2, <3>3, <3>4, OwnerFacts DEF Staged, Errors, N!Errors
    <3> QED
      BY <2>6, <2>7, <3>1, <3>2, <3>5 DEF IInv, Tiled, Listed
  <2>9. CASE ~(HoldsName(Word(at)) /\ length > 0)
    BY <2>1, <2>2, <2>6, <2>7, <2>9, OwnerFacts, GoOnKeeps
  <2> QED
    BY <2>8, <2>9
<1> QED
  BY <1>1, <1>2, <1>3

(* Showing the data keeps it, wherever the name in the data ended.           *)
LEMMA ShowDataKeeps == ASSUME IInv, ShowData PROVE IInv'
<1> DEFINE shown == [items EXCEPT ![Len(items)].text = [kind |-> "name", parts |-> N!Name]]
           read == IF result # "ok" THEN items ELSE shown
<1>1. items # << >> /\ Len(items) <= Total /\ Len(message) >= 12 /\ Listed(items) /\ Tiled(items)
  BY DEF IInv, ShowData, Staged
<1>2. GoOn(Last(items).to, read)
  BY DEF ShowData
<1>3. /\ Listed(shown) /\ Tiled(shown) /\ Len(shown) = Len(items)
      /\ shown # << >> /\ Behind(shown) = Last(items).to
  BY <1>1, TextChanges
<1>4. /\ Listed(read) /\ Tiled(read) /\ Len(read) <= Total
      /\ Behind(read) = Last(items).to
  BY <1>1, <1>3 DEF Behind
<1> QED
  BY <1>1, <1>2, <1>4, GoOnKeeps

(* Every step keeps it.                                                      *)
LEMMA NextInvariant == IInv /\ [Next]_vars => IInv'
<1> SUFFICES ASSUME IInv, [Next]_vars PROVE IInv'
  OBVIOUS
<1>1. CASE ReadHeader
  BY <1>1, ReadHeaderKeeps
<1>2. CASE ReadName
  BY <1>2, ReadNameKeeps
<1>3. CASE OwnerFails
  BY <1>3, RefuseKeeps DEF OwnerFails, Errors
<1>4. CASE FinishQuestion
  BY <1>4, FinishQuestionKeeps
<1>5. CASE FinishRecord
  BY <1>5, FinishRecordKeeps
<1>6. CASE ShowData
  BY <1>6, ShowDataKeeps
<1>7. CASE UNCHANGED vars
  <2>1. NP!IInv' /\ message' = message /\ items' = items /\ reading' = reading /\ start' = start
    BY <1>7, NameStays DEF IInv, vars, nameVars
  <2>2. Total' = Total
    BY <2>1 DEF Total, Counts, Word
  <2> QED
    BY <2>1, <2>2 DEF IInv, Listed, Tiled, Staged, Behind
<1> QED
  BY <1>1, <1>2, <1>3, <1>4, <1>5, <1>6, <1>7 DEF Next, Returned

LEMMA InvariantHolds == Spec => []IInv
BY InitInvariant, NextInvariant, PTL DEF Spec

-----------------------------------------------------------------------------
(* Questions and records lie side by side in the message, whatever their     *)
(* names point to and wherever a name in a record's data ends: no byte is    *)
(* read as part of two items, and none beyond the message.                   *)
THEOREM ItemsAlwaysTile == Spec => []ItemsTile
<1>1. IInv => ItemsTile
  BY DEF IInv, Tiled, Staged, ItemsTile
<1> QED
  BY <1>1, InvariantHolds, PTL

(* A message of n bytes never costs more than n / 5 items, whatever the      *)
(* counts in its header.                                                     *)
THEOREM WorkAlwaysBounded == Spec => []WorkBounded
<1>1. IInv => WorkBounded
  <2> SUFFICES ASSUME IInv PROVE 5 * Len(items) <= Len(message)
    BY DEF WorkBounded
  <2>1. Len(message) \in Nat /\ Len(items) \in Nat /\ DOMAIN items = 1 .. Len(items)
    BY NameFacts, LenProperties DEF IInv, Listed
  <2>2. CASE Len(items) = 0
    BY <2>1, <2>2
  <2>3. CASE Len(items) # 0
    <3>1. Len(items) \in DOMAIN items
      BY <2>1, <2>3
    <3>2. /\ items[Len(items)].to \in Nat
          /\ 12 + 5 * Len(items) <= items[Len(items)].to
          /\ items[Len(items)].to <= Len(message)
      BY <3>1 DEF IInv, Tiled
    <3> QED
      BY <2>1, <3>2
  <2> QED
    BY <2>2, <2>3
<1> QED
  BY <1>1, InvariantHolds, PTL

(* An answer has exactly the items that the header counts, a refusal none.   *)
THEOREM AlwaysAllOrNothing == Spec => []AllOrNothing
<1>1. IInv => AllOrNothing
  BY DEF IInv, Staged, AllOrNothing
<1> QED
  BY <1>1, InvariantHolds, PTL

-----------------------------------------------------------------------------
(* Why what was written is read as it was meant.  For each writing that the  *)
(* message agrees with, as far as both go, what was read so far is what its  *)
(* writer meant, and the name under way keeps to its spelling.               *)

(* Names are spelled for the read of a name as they are for the writer.      *)
LEMMA SameSpelling ==
    /\ N!Name = NP!Name /\ N!Cursor = NP!Cursor
    /\ \A bytes, spelled, from, name :
          NP!Spells(bytes, spelled, from, name) <=> Spells(bytes, spelled, from, name)
    /\ \A bytes, spelled, behind :
          NP!EndsAt(bytes, spelled, behind) <=> EndsAt(bytes, spelled, behind)
    /\ \A spelled : NP!WithinLimits(spelled, DepthLimit, NameLimit)
                        <=> WithinLimits(spelled, DepthLimit, NameLimit)
<1>1. N!Name = NP!Name /\ N!Cursor = NP!Cursor
  BY DEF N!Name, NP!Name, N!FlattenSeq, NP!FlattenSeq, N!Cursor, NP!Cursor
<1>2. \A bytes, spelled, from, name :
          NP!Spells(bytes, spelled, from, name) <=> Spells(bytes, spelled, from, name)
  BY DEF NP!Spells, Spells, NP!Tells, Tells, NP!Mark, Mark
<1>3. \A bytes, spelled, behind :
          NP!EndsAt(bytes, spelled, behind) <=> EndsAt(bytes, spelled, behind)
  BY DEF NP!EndsAt, EndsAt
<1>4. \A spelled : NP!WithinLimits(spelled, DepthLimit, NameLimit)
                        <=> WithinLimits(spelled, DepthLimit, NameLimit)
  BY DEF NP!WithinLimits, WithinLimits
<1> QED
  BY <1>1, <1>2, <1>3, <1>4

Fields == {"from", "to", "name", "type", "klass", "ttl", "data", "text"}

(* The items so far are those of the writing.                                *)
Meant(w, read) ==
    /\ Len(read) <= Len(w.things)
    /\ \A k \in DOMAIN read : Fields \subseteq DOMAIN read[k] /\ Conveys(read[k], w.things[k])

(* So are the texts of those up to the given one, if the message is whole.   *)
Shown(w, read, upto) ==
    Len(w.bytes) <= Len(message) =>
        \A k \in DOMAIN read : k <= upto => ShowsTarget(read[k], w.things[k])

OwnerHeard(w) ==
    LET thing == w.things[Len(items) + 1]
    IN  /\ Len(items) < Len(w.things) /\ start = thing.from
        /\ NP!Told(w.bytes, thing.spelled, thing.name, thing.behind)

TargetHeard(w) ==
    LET thing == w.things[Len(items)]
    IN  /\ Len(items) \in DOMAIN w.things /\ start = thing.behind + 10
        /\ HoldsName(thing.type) /\ thing.data # << >> /\ Len(items) > WordIn(w.bytes, 4)
        /\ NP!Told(w.bytes, thing.targetSpelled, thing.target, thing.to)

Heard(w) ==
    /\ Meant(w, items)
    /\ Shown(w, items, IF reading = "rdata" THEN Len(items) - 1 ELSE Len(items))
    /\ reading = "owner" => OwnerHeard(w)
    /\ reading = "rdata" => TargetHeard(w)
    /\ reading \in Errors => Len(message) < Len(w.bytes)

(* What is written where.                                                    *)
LEMMA WritingFacts ==
    ASSUME NEW w, IsWriting(w)
    PROVE  /\ w.bytes \in Seq(0 .. 255) /\ Len(w.bytes) \in Nat /\ Len(w.bytes) >= 12
           /\ \A k \in 1 .. Len(w.bytes) : w.bytes[k] \in 0 .. 255
           /\ Len(w.things) \in Nat /\ DOMAIN w.things = 1 .. Len(w.things)
           /\ \A k \in 1 .. Len(w.things) :
                 /\ w.things[k].from \in Nat /\ w.things[k].to \in Nat
                 /\ w.things[k].behind \in Nat /\ w.things[k].data \in Seq(0 .. 255)
                 /\ w.things[k].name \in Seq(Seq(0 .. 255))
                 /\ w.things[k].target \in Seq(Seq(0 .. 255))
                 /\ w.things[k].to <= Len(w.bytes)
                 /\ w.things[k].from = IF k = 1 THEN 12 ELSE w.things[k - 1].to
<1>1. /\ w.bytes \in Seq(0 .. 255) /\ w.things \in Seq(Thing) /\ Len(w.bytes) >= 12
      /\ \A k \in DOMAIN w.things :
            /\ w.things[k].from = IF k = 1 THEN 12 ELSE w.things[k - 1].to
            /\ w.things[k].to <= Len(w.bytes)
  BY Zenon DEF IsWriting
<1>2. /\ Len(w.things) \in Nat /\ DOMAIN w.things = 1 .. Len(w.things)
      /\ \A k \in 1 .. Len(w.things) : w.things[k] \in Thing
  BY <1>1
<1>3. \A thing \in Thing :
         /\ thing.from \in Nat /\ thing.to \in Nat /\ thing.behind \in Nat
         /\ thing.data \in Seq(0 .. 255) /\ thing.name \in Seq(Seq(0 .. 255))
         /\ thing.target \in Seq(Seq(0 .. 255))
  BY DEF Thing
<1>4. \A s \in Seq(0 .. 255) : Len(s) \in Nat /\ \A k \in 1 .. Len(s) : s[k] \in 0 .. 255
  <2> SUFFICES ASSUME NEW s \in Seq(0 .. 255)
               PROVE  Len(s) \in Nat /\ \A k \in 1 .. Len(s) : s[k] \in 0 .. 255
    OBVIOUS
  <2> QED
    BY LenProperties, ElementOfSeq
<1>5. Len(w.bytes) \in Nat /\ \A k \in 1 .. Len(w.bytes) : w.bytes[k] \in 0 .. 255
  BY <1>1, <1>4, Zenon
<1>6. \A k \in 1 .. Len(w.things) :
         /\ w.things[k].from \in Nat /\ w.things[k].to \in Nat
         /\ w.things[k].behind \in Nat /\ w.things[k].data \in Seq(0 .. 255)
         /\ w.things[k].name \in Seq(Seq(0 .. 255))
         /\ w.things[k].target \in Seq(Seq(0 .. 255))
  <2> TAKE k \in 1 .. Len(w.things)
  <2> DEFINE thing == w.things[k]
  <2>1. thing \in Thing
    BY <1>2, Zenon
  <2> HIDE DEF thing
  <2>2. /\ thing.from \in Nat /\ thing.to \in Nat /\ thing.behind \in Nat
        /\ thing.data \in Seq(0 .. 255) /\ thing.name \in Seq(Seq(0 .. 255))
        /\ thing.target \in Seq(Seq(0 .. 255))
    BY <1>3, <2>1, Zenon
  <2> QED
    BY <2>2, Zenon DEF thing
<1>7. \A k \in 1 .. Len(w.things) :
         /\ w.things[k].to <= Len(w.bytes)
         /\ w.things[k].from = IF k = 1 THEN 12 ELSE w.things[k - 1].to
  BY <1>1, <1>2, Zenon
<1>8. w.bytes \in Seq(0 .. 255) /\ Len(w.bytes) \in Nat /\ Len(w.bytes) >= 12
  BY <1>1, <1>5, Zenon
<1>9. \A k \in 1 .. Len(w.things) :
         /\ w.things[k].from \in Nat /\ w.things[k].to \in Nat
         /\ w.things[k].behind \in Nat /\ w.things[k].data \in Seq(0 .. 255)
         /\ w.things[k].name \in Seq(Seq(0 .. 255))
         /\ w.things[k].target \in Seq(Seq(0 .. 255))
         /\ w.things[k].to <= Len(w.bytes)
         /\ w.things[k].from = IF k = 1 THEN 12 ELSE w.things[k - 1].to
  <2> TAKE k \in 1 .. Len(w.things)
  <2>1. /\ w.things[k].from \in Nat /\ w.things[k].to \in Nat
        /\ w.things[k].behind \in Nat /\ w.things[k].data \in Seq(0 .. 255)
        /\ w.things[k].name \in Seq(Seq(0 .. 255))
        /\ w.things[k].target \in Seq(Seq(0 .. 255))
    BY <1>6, Zenon
  <2>2. /\ w.things[k].to <= Len(w.bytes)
        /\ w.things[k].from = IF k = 1 THEN 12 ELSE w.things[k - 1].to
    BY <1>7, Zenon
  <2> QED
    BY <2>1, <2>2, Zenon
<1> QED
  BY <1>2, <1>5, <1>8, <1>9, Zenon

(* Numbers and data that both have are the same.                             *)
LEMMA WordsAgree ==
    ASSUME NP!IInv, NEW w, IsWriting(w), NP!AgreesWith(w.bytes), NEW offset \in Nat,
           offset + 2 <= Len(message), offset + 2 <= Len(w.bytes)
    PROVE  Word(offset) = WordIn(w.bytes, offset)
<1>1. Len(message) \in Nat /\ Len(w.bytes) \in Nat
  BY NameFacts, WritingFacts
<1>2. /\ offset + 1 \in (1 .. Len(message)) \cap (1 .. Len(w.bytes))
      /\ offset + 2 \in (1 .. Len(message)) \cap (1 .. Len(w.bytes))
  BY <1>1
<1>3. message[offset + 1] = w.bytes[offset + 1] /\ message[offset + 2] = w.bytes[offset + 2]
  BY <1>2 DEF NP!AgreesWith
<1> QED
  BY <1>3, Zenon DEF Word, WordIn

LEMMA BytesAgree ==
    ASSUME NP!IInv, NEW w, IsWriting(w), NP!AgreesWith(w.bytes), NEW offset \in Nat,
           NEW length \in Nat, offset + length <= Len(message), offset + length <= Len(w.bytes)
    PROVE  Bytes(offset, length) = DataIn(w.bytes, offset, length)
<1> DEFINE m == offset + 1
           n == offset + length
           s == SubSeq(message, m, n)
           t == SubSeq(w.bytes, m, n)
<1>1. Len(message) \in Nat /\ Len(w.bytes) \in Nat /\ m \in Int /\ n \in Int
  BY NameFacts, WritingFacts
<1>2. \A k \in m .. n : /\ message[k] = w.bytes[k] /\ w.bytes[k] \in 0 .. 255
                       /\ message[k] \in 0 .. 255
  <2>1. \A k \in m .. n : k \in (1 .. Len(message)) \cap (1 .. Len(w.bytes))
    BY <1>1
  <2>2. \A k \in 1 .. Len(w.bytes) : w.bytes[k] \in 0 .. 255
    BY WritingFacts
  <2> HIDE DEF m, n
  <2> TAKE k \in m .. n
  <2>3. k \in (1 .. Len(message)) \cap (1 .. Len(w.bytes))
    BY <2>1, Zenon
  <2>4. message[k] = w.bytes[k]
    BY <2>3, Zenon DEF NP!AgreesWith
  <2>5. w.bytes[k] \in 0 .. 255
    BY <2>2, <2>3
  <2> QED
    BY <2>4, <2>5, Zenon
<1> HIDE DEF m, n
<1>3. /\ s \in Seq(0 .. 255) /\ Len(s) = (IF m <= n THEN n - m + 1 ELSE 0)
      /\ \A k \in 1 .. n - m + 1 : s[k] = message[m + k - 1]
  BY <1>1, <1>2, SubSeqProperties
<1>4. /\ t \in Seq(0 .. 255) /\ Len(t) = (IF m <= n THEN n - m + 1 ELSE 0)
      /\ \A k \in 1 .. n - m + 1 : t[k] = w.bytes[m + k - 1]
  BY <1>1, <1>2, SubSeqProperties
<1>5. \A k \in 1 .. n - m + 1 : m + k - 1 \in m .. n
  BY <1>1
<1> HIDE DEF s, t
<1>6. \A k \in 1 .. Len(s) : s[k] = t[k]
  BY <1>1, <1>2, <1>3, <1>4, <1>5
<1>7. s = t
  BY <1>3, <1>4, <1>6, SeqEqual
<1> QED
  BY <1>7 DEF s, t, m, n, Bytes, DataIn

(* A message with a header counts what the writing counts.                   *)
LEMMA CountsAgree ==
    ASSUME NP!IInv, NEW w, IsWriting(w), NP!AgreesWith(w.bytes), Len(message) >= 12
    PROVE  Counts[1] = WordIn(w.bytes, 4) /\ Total = Len(w.things)
<1>1. Len(message) \in Nat /\ Len(w.bytes) \in Nat /\ Len(w.bytes) >= 12
  BY NameFacts, WritingFacts
<1>2. \A offset \in {0, 2, 4, 6, 8, 10} : Word(offset) = WordIn(w.bytes, offset)
  BY <1>1, WordsAgree
<1>3. /\ Counts[1] = Word(4) /\ Counts[2] = Word(6)
      /\ Counts[3] = Word(8) /\ Counts[4] = Word(10)
  BY DEF Counts
<1>4. WordIn(w.bytes, 4) + WordIn(w.bytes, 6) + WordIn(w.bytes, 8) + WordIn(w.bytes, 10)
           = Len(w.things)
  BY Zenon DEF IsWriting
<1> QED
  BY <1>2, <1>3, <1>4 DEF Total

(* The fields of a word of flags.                                            *)
FlagFields(F, r, o, a, t, d, v, z, c) ==
    /\ (F \div 32768) % 2 = r /\ (F \div 2048) % 16 = o /\ (F \div 1024) % 2 = a
    /\ (F \div 512) % 2 = t /\ (F \div 256) % 2 = d /\ (F \div 128) % 2 = v
    /\ (F \div 16) % 8 = z /\ F % 16 = c

FlagsWord(r, o, a, t, d, v, z, c) ==
    32768 * r + 2048 * o + 1024 * a + 512 * t + 256 * d + 128 * v + 16 * z + c

LEMMA FieldsOfFlags ==
    ASSUME NEW r \in 0 .. 1, NEW o \in 0 .. 15, NEW a \in 0 .. 1, NEW t \in 0 .. 1,
           NEW d \in 0 .. 1, NEW v \in 0 .. 1, NEW z \in 0 .. 7, NEW c \in 0 .. 15
    PROVE  FlagFields(FlagsWord(r, o, a, t, d, v, z, c), r, o, a, t, d, v, z, c)
<1> DEFINE F == 32768 * r + 2048 * o + 1024 * a + 512 * t + 256 * d + 128 * v + 16 * z + c
<1>1. /\ F \div 32768 = r /\ F \div 2048 = 16 * r + o
      /\ F \div 1024 = 32 * r + 2 * o + a
  OBVIOUS
<1>2. /\ F \div 512 = 64 * r + 4 * o + 2 * a + t
      /\ F \div 256 = 128 * r + 8 * o + 4 * a + 2 * t + d
      /\ F \div 128 = 256 * r + 16 * o + 8 * a + 4 * t + 2 * d + v
  OBVIOUS
<1>3. /\ F \div 16 = 2048 * r + 128 * o + 64 * a + 32 * t + 16 * d + 8 * v + z
      /\ F % 16 = c
  OBVIOUS
<1>0. FlagsWord(r, o, a, t, d, v, z, c) = F
  BY DEF FlagsWord
<1> HIDE DEF F
<1>4. /\ r % 2 = r /\ (16 * r + o) % 16 = o /\ (32 * r + 2 * o + a) % 2 = a
  OBVIOUS
<1>5. /\ (64 * r + 4 * o + 2 * a + t) % 2 = t
      /\ (128 * r + 8 * o + 4 * a + 2 * t + d) % 2 = d
      /\ (256 * r + 16 * o + 8 * a + 4 * t + 2 * d + v) % 2 = v
  OBVIOUS
<1>6. (2048 * r + 128 * o + 64 * a + 32 * t + 16 * d + 8 * v + z) % 8 = z
  OBVIOUS
<1> QED
  BY <1>0, <1>1, <1>2, <1>3, <1>4, <1>5, <1>6 DEF FlagFields

(* And its header says what the writing's says.                              *)
LEMMA HeaderAgrees ==
    ASSUME NP!IInv, NEW w, IsWriting(w), NP!AgreesWith(w.bytes), Len(message) >= 12
    PROVE  Header = w.header
<1>0. HeaderWritten(w)
  BY Zenon DEF IsWriting
<1> DEFINE h == w.header
<1>1. /\ h \in [id : Nat, response : BOOLEAN, opcode : 0 .. 15, authoritative : BOOLEAN,
                truncated : BOOLEAN, recursion_desired : BOOLEAN,
                recursion_available : BOOLEAN, rcode : 0 .. 15]
      /\ w.reserved \in 0 .. 7
  BY <1>0 DEF HeaderWritten
<1>2. /\ h.response \in BOOLEAN /\ h.authoritative \in BOOLEAN /\ h.truncated \in BOOLEAN
      /\ h.recursion_desired \in BOOLEAN /\ h.recursion_available \in BOOLEAN
      /\ h.opcode \in 0 .. 15 /\ h.rcode \in 0 .. 15
      /\ h = [id |-> h.id, response |-> h.response, opcode |-> h.opcode,
              authoritative |-> h.authoritative, truncated |-> h.truncated,
              recursion_desired |-> h.recursion_desired,
              recursion_available |-> h.recursion_available, rcode |-> h.rcode]
  BY <1>1
<1>3. Word(0) = WordIn(w.bytes, 0) /\ Word(2) = WordIn(w.bytes, 2)
  <2>1. Len(message) \in Nat /\ Len(w.bytes) \in Nat /\ Len(w.bytes) >= 12
    BY NameFacts, WritingFacts
  <2> QED
    BY <2>1, WordsAgree
<1>4. /\ Word(0) = h.id
      /\ Word(2) = 32768 * Bit(h.response) + 2048 * h.opcode + 1024 * Bit(h.authoritative)
                   + 512 * Bit(h.truncated) + 256 * Bit(h.recursion_desired)
                   + 128 * Bit(h.recursion_available) + 16 * w.reserved + h.rcode
  BY <1>0, <1>3 DEF HeaderWritten
<1> HIDE DEF h
<1>5. \A b \in BOOLEAN : Bit(b) \in 0 .. 1 /\ ((Bit(b) = 1) = b)
  BY DEF Bit
<1>6. PICK r \in 0 .. 1 : r = Bit(h.response) /\ ((r = 1) = h.response)
  BY <1>2, <1>5
<1>7. PICK a \in 0 .. 1 : a = Bit(h.authoritative) /\ ((a = 1) = h.authoritative)
  BY <1>2, <1>5
<1>8. PICK t \in 0 .. 1 : t = Bit(h.truncated) /\ ((t = 1) = h.truncated)
  BY <1>2, <1>5
<1>9. PICK d \in 0 .. 1 : d = Bit(h.recursion_desired) /\ ((d = 1) = h.recursion_desired)
  BY <1>2, <1>5
<1>10. PICK v \in 0 .. 1 : v = Bit(h.recursion_available) /\ ((v = 1) = h.recursion_available)
  BY <1>2, <1>5
<1>11. PICK o \in 0 .. 15 : o = h.opcode
  BY <1>2
<1>12. PICK c \in 0 .. 15 : c = h.rcode
  BY <1>2
<1>13. PICK z \in 0 .. 7 : z = w.reserved
  BY <1>1
<1> DEFINE F == FlagsWord(r, o, a, t, d, v, z, c)
<1>14. FlagFields(F, r, o, a, t, d, v, z, c)
  BY FieldsOfFlags, Zenon
<1>15. F = 32768 * r + 2048 * o + 1024 * a + 512 * t + 256 * d + 128 * v + 16 * z + c
  BY DEF FlagsWord
<1> HIDE DEF F
<1>16. Word(2) = F
  BY <1>4, <1>6, <1>7, <1>8, <1>9, <1>10, <1>11, <1>12, <1>13, <1>15
<1>17. /\ Flag(32768) = h.response /\ Flag(1024) = h.authoritative
       /\ Flag(512) = h.truncated /\ Flag(256) = h.recursion_desired
       /\ Flag(128) = h.recursion_available
  BY <1>2, <1>6, <1>7, <1>8, <1>9, <1>10, <1>14, <1>16 DEF Flag, FlagFields
<1>18. /\ (Word(2) \div 2048) % 16 = h.opcode /\ Word(2) % 16 = h.rcode /\ Word(0) = h.id
  BY <1>4, <1>11, <1>12, <1>14, <1>16 DEF FlagFields
<1>19. Header = h
  BY <1>2, <1>17, <1>18 DEF Header
<1> QED
  BY <1>19 DEF h

(* How each thing is written.                                                *)
LEMMA ThingWritten ==
    ASSUME NEW w, IsWriting(w), NP!AgreesWith(w.bytes), NEW k \in 1 .. Len(w.things)
    PROVE  LET thing == w.things[k]
           IN  /\ NP!Spelled(w.bytes, thing.spelled, thing.from, thing.name, thing.behind)
               /\ k <= WordIn(w.bytes, 4) => QuestionWritten(w.bytes, thing)
               /\ ~(k <= WordIn(w.bytes, 4)) =>
                     /\ RecordWritten(w.bytes, thing)
                     /\ HoldsName(thing.type) /\ thing.data # << >> =>
                           NP!Spelled(w.bytes, thing.targetSpelled, thing.behind + 10,
                                      thing.target, thing.to)
<1> DEFINE thing == w.things[k]
           question == k <= WordIn(w.bytes, 4)
<1>1. /\ w.bytes \in Seq(0 .. 255) /\ thing.behind \in Nat /\ thing.to \in Nat
      /\ thing.name \in Seq(Seq(0 .. 255)) /\ thing.target \in Seq(Seq(0 .. 255))
      /\ DOMAIN w.things = 1 .. Len(w.things)
  BY WritingFacts
<1>2. IF question THEN QuestionWritten(w.bytes, thing) ELSE RecordWritten(w.bytes, thing)
  BY <1>1, Zenon DEF IsWriting
<1> HIDE DEF thing, question
<1>3. NameWritten(w.bytes, thing)
  BY <1>2, Zenon DEF QuestionWritten, RecordWritten
<1>4. NP!Spelled(w.bytes, thing.spelled, thing.from, thing.name, thing.behind)
  BY <1>1, <1>3, SameSpelling, Zenon DEF NameWritten, NP!Spelled, NP!Byte
<1>5. ~question /\ HoldsName(thing.type) /\ thing.data # << >> =>
         NP!Spelled(w.bytes, thing.targetSpelled, thing.behind + 10, thing.target, thing.to)
  BY <1>1, <1>2, SameSpelling, Zenon DEF RecordWritten, NP!Spelled, NP!Byte
<1> QED
  BY <1>2, <1>4, <1>5, Zenon DEF thing, question

(* An item as it was meant is one more of them.                              *)
LEMMA OneMoreMeant ==
    ASSUME NEW w, IsWriting(w), NEW read, Listed(read), Meant(w, read),
           Shown(w, read, Len(read)), Len(read) + 1 <= Len(w.things),
           NEW item, Fields \subseteq DOMAIN item, Conveys(item, w.things[Len(read) + 1])
    PROVE  LET longer == Append(read, item)
           IN  /\ Meant(w, longer) /\ Shown(w, longer, Len(read))
               /\ ShowsTarget(item, w.things[Len(read) + 1]) => Shown(w, longer, Len(longer))
<1> DEFINE longer == Append(read, item)
           n == Len(read)
<1>1. /\ n \in Nat /\ Len(longer) = n + 1 /\ DOMAIN read = 1 .. n
      /\ DOMAIN longer = 1 .. n + 1 /\ \A k \in 1 .. n : longer[k] = read[k]
      /\ longer[n + 1] = item
  BY OneMore
<1> HIDE DEF longer
<1>2. /\ \A k \in DOMAIN longer : k \in 1 .. n \/ k = n + 1
      /\ \A k \in 1 .. n : k <= n
  BY <1>1
<1>3. Meant(w, longer)
  BY <1>1, <1>2 DEF Meant
<1>4. Shown(w, longer, n)
  <2> SUFFICES ASSUME Len(w.bytes) <= Len(message), NEW k \in DOMAIN longer, k <= n
               PROVE  ShowsTarget(longer[k], w.things[k])
    BY DEF Shown
  <2>1. k \in 1 .. n
    BY <1>1
  <2> QED
    BY <1>1, <1>2, <2>1 DEF Shown
<1>5. ASSUME ShowsTarget(item, w.things[n + 1]) PROVE Shown(w, longer, Len(longer))
  <2> SUFFICES ASSUME Len(w.bytes) <= Len(message), NEW k \in DOMAIN longer
               PROVE  ShowsTarget(longer[k], w.things[k])
    BY DEF Shown
  <2> QED
    BY <1>1, <1>2, <1>5 DEF Shown
<1> QED
  BY <1>3, <1>4, <1>5 DEF longer

(* They end where it ends.                                                   *)
LEMMA BehindOneMore ==
    ASSUME NEW read, Listed(read), NEW item
    PROVE  Listed(Append(read, item)) /\ Behind(Append(read, item)) = item.to
<1> DEFINE longer == Append(read, item)
<1>1. /\ Listed(longer) /\ Len(read) \in Nat /\ Len(longer) = Len(read) + 1
      /\ longer[Len(read) + 1] = item
  BY OneMore
<1> HIDE DEF longer
<1>2. longer # << >> /\ longer[Len(longer)] = item
  BY <1>1
<1> QED
  BY <1>1, <1>2 DEF Behind, Last, longer

(* Going on behind them, or ending there.                                    *)
LEMMA GoOnHeard ==
    ASSUME IInv, NEW w, IsWriting(w), NP!AgreesWith(w.bytes), Len(message) >= 12,
           NEW read, Listed(read), Meant(w, read), Shown(w, read, Len(read)),
           GoOn(Behind(read), read)
    PROVE  Heard(w)'
<1> DEFINE n == Len(read)
           thing == w.things[n + 1]
<1>1. /\ items' = read /\ message' = message /\ n \in Nat /\ DOMAIN read = 1 .. n
      /\ read = << >> <=> n = 0
  BY LenProperties, EmptySeq DEF GoOn, ReadNameAt, nameVars, Listed
<1>2. Total = Len(w.things)
  BY CountsAgree DEF IInv
<1>3. Meant(w, items)' /\ Shown(w, items, Len(items))'
  BY <1>1 DEF Meant, Shown
<1>4. CASE n < Total
  <2>1. ReadNameAt(Behind(read)) /\ reading' = "owner"
    BY <1>4 DEF GoOn
  <2>2. n + 1 \in 1 .. Len(w.things) /\ n < Len(w.things)
    BY <1>1, <1>2, <1>4, WritingFacts
  <2>3. Behind(read) = thing.from /\ thing.from \in Nat
    <3>1. thing.from \in Nat /\ thing.from = IF n = 0 THEN 12 ELSE w.things[n].to
      <4>1. /\ thing.from \in Nat
            /\ thing.from = IF n + 1 = 1 THEN 12 ELSE w.things[(n + 1) - 1].to
        BY <2>2, WritingFacts
      <4>2. (n + 1) - 1 = n /\ (n + 1 = 1 <=> n = 0)
        BY <1>1
      <4> QED
        BY <4>1, <4>2
    <3>2. n # 0 => read[n].to = w.things[n].to
      BY <1>1 DEF Meant, Conveys
    <3> QED
      BY <1>1, <3>1, <3>2 DEF Behind, Last
  <2> HIDE DEF thing
  <2>4. NP!Spells(w.bytes, thing.spelled, thing.from, thing.name)
    BY <2>2, ThingWritten DEF NP!Spelled, thing
  <2>5. frames' = <<NP!Call(thing.from)>> /\ result' = "reading" /\ start' = thing.from
    BY <2>1, <2>3 DEF ReadNameAt, N!Call, NP!Call
  <2>6. NP!Told(w.bytes, thing.spelled, thing.name, thing.behind)'
    BY <2>3, <2>4, <2>5, NP!ToldAtNextStart, MessagesAssumption, LimitsAssumption DEF NP!Byte
  <2>7. OwnerHeard(w)'
    BY <1>1, <2>2, <2>5, <2>6 DEF OwnerHeard, thing
  <2> QED
    BY <1>3, <2>1, <2>7 DEF Heard, Errors, N!Errors
<1>5. CASE ~(n < Total)
  <2>1. reading' = "ok"
    BY <1>5 DEF GoOn
  <2> QED
    BY <1>3, <2>1 DEF Heard, Errors, N!Errors
<1> QED
  BY <1>4, <1>5

(* A refusal is right when the message was cut.                              *)
LEMMA RefuseHeard ==
    ASSUME NEW w, IsWriting(w), NEW error \in Errors, Refuse(error),
           Len(message) < Len(w.bytes)
    PROVE  Heard(w)'
<1>1. reading' = error /\ items' = << >> /\ message' = message
  BY DEF Refuse, nameVars
<1>2. error \notin {"owner", "rdata"}
  BY DEF Errors, N!Errors
<1>3. Len(w.things) \in Nat
  BY WritingFacts
<1>4. Meant(w, items)' /\ Shown(w, items, Len(items))'
  BY <1>1, <1>3 DEF Meant, Shown
<1> QED
  BY <1>1, <1>2, <1>4 DEF Heard

(* The name an item is about was read as it was meant, where it was written. *)
LEMMA OwnerMeant ==
    ASSUME IInv, NEW w, IsWriting(w), NP!AgreesWith(w.bytes), Heard(w), OwnerRead
    PROVE  LET thing == w.things[Len(items) + 1]
           IN  /\ Len(items) + 1 \in 1 .. Len(w.things) /\ Len(items) + 1 <= Len(w.things)
               /\ Meant(w, items) /\ Shown(w, items, Len(items))
               /\ start = thing.from /\ N!Name = thing.name /\ N!Cursor = thing.behind
               /\ thing.behind \in Nat /\ thing.to \in Nat /\ thing.to <= Len(w.bytes)
               /\ Len(w.bytes) \in Nat /\ thing.data \in Seq(0 .. 255)
<1>1. reading = "owner" /\ result = "ok" /\ Len(items) \in Nat
  BY OwnerFacts DEF OwnerRead
<1>2. OwnerHeard(w) /\ Meant(w, items) /\ Shown(w, items, Len(items))
  BY <1>1 DEF Heard
<1>3. Len(items) + 1 \in 1 .. Len(w.things) /\ Len(items) + 1 <= Len(w.things)
  BY <1>1, <1>2, WritingFacts DEF OwnerHeard
<1>4. LET thing == w.things[Len(items) + 1]
      IN  start = thing.from /\ N!Name = thing.name /\ N!Cursor = thing.behind
  BY <1>1, <1>2, SameSpelling DEF OwnerHeard, NP!Told
<1> QED
  BY <1>2, <1>3, <1>4, WritingFacts

(* A question is read as it was meant.                                       *)
LEMMA FinishQuestionHeard ==
    ASSUME IInv, NEW w, IsWriting(w), NP!AgreesWith(w.bytes), Heard(w), FinishQuestion
    PROVE  Heard(w)'
<1> DEFINE at == N!Cursor
           thing == w.things[Len(items) + 1]
<1>1. OwnerRead /\ Len(items) < Counts[1] /\ Len(message) >= 12 /\ Len(message) \in Nat
      /\ Len(items) \in Nat
  BY OwnerFacts DEF FinishQuestion
<1>2. /\ Len(items) + 1 \in 1 .. Len(w.things) /\ Len(items) + 1 <= Len(w.things)
      /\ Meant(w, items) /\ Shown(w, items, Len(items))
      /\ start = thing.from /\ N!Name = thing.name /\ at = thing.behind
      /\ thing.behind \in Nat /\ thing.to <= Len(w.bytes) /\ Len(w.bytes) \in Nat
      /\ thing.to \in Nat
  BY <1>1, OwnerMeant
<1>3. Len(items) + 1 <= WordIn(w.bytes, 4)
  <2>1. Counts[1] = WordIn(w.bytes, 4) /\ Counts[1] = Word(4)
    BY <1>1, CountsAgree DEF IInv, Counts
  <2>2. Word(4) \in Nat
    BY <1>1, OwnerFacts
  <2> QED
    BY <1>1, <2>1, <2>2
<1>4. QuestionWritten(w.bytes, thing)
  BY <1>2, <1>3, ThingWritten
<1> HIDE DEF at, thing
<1>5. /\ thing.to = at + 4 /\ thing.ttl = << >> /\ thing.data = << >> /\ at \in Nat
      /\ at + 4 <= Len(w.bytes)
      /\ WordIn(w.bytes, at) = thing.type /\ WordIn(w.bytes, at + 2) = thing.klass
  BY <1>2, <1>4 DEF QuestionWritten, NameWritten
<1>6. CASE ~N!HasBytes(at, 4)
  <2>1. Refuse("dns question truncated")
    BY <1>6 DEF FinishQuestion, at
  <2>2. Len(message) < Len(w.bytes)
    BY <1>1, <1>2, <1>5, <1>6 DEF N!HasBytes
  <2> QED
    BY <2>1, <2>2, RefuseHeard DEF Errors
<1>7. CASE N!HasBytes(at, 4)
  <2> DEFINE item == [from |-> start, to |-> at + 4, name |-> N!Name, type |-> Word(at),
                      klass |-> Word(at + 2), ttl |-> << >>, data |-> << >>,
                      text |-> [kind |-> "none", parts |-> << >>]]
             read == Append(items, item)
  <2>1. GoOn(at + 4, read)
    BY <1>7 DEF FinishQuestion, at
  <2>2. at + 4 <= Len(message)
    BY <1>7 DEF N!HasBytes
  <2>3. Word(at) = thing.type /\ Word(at + 2) = thing.klass
    <3>1. /\ at + 2 <= Len(message) /\ at + 2 <= Len(w.bytes) /\ at + 2 \in Nat
          /\ (at + 2) + 2 <= Len(message) /\ (at + 2) + 2 <= Len(w.bytes)
      <4>1. at \in Nat /\ at + 4 <= Len(w.bytes) /\ Len(message) \in Nat /\ Len(w.bytes) \in Nat
        BY <1>1, <1>2, <1>5, <2>2
      <4> HIDE DEF at
      <4> QED
        BY <2>2, <4>1
    <3> QED
      BY <1>5, <3>1, WordsAgree DEF IInv
  <2>4. Conveys(item, thing) /\ ShowsTarget(item, thing) /\ Fields \subseteq DOMAIN item
    BY <1>2, <1>5, <2>3 DEF Conveys, ShowsTarget, Fields, thing
  <2>5. /\ item.from = start /\ item.to = at + 4 /\ {"from", "to"} \subseteq DOMAIN item
    OBVIOUS
  <2> HIDE DEF item
  <2>6. Meant(w, read) /\ Shown(w, read, Len(read))
    BY <1>2, <2>4, OneMoreMeant DEF IInv, thing
  <2>7. Listed(read) /\ Behind(read) = at + 4
    BY <2>5, BehindOneMore DEF IInv
  <2> HIDE DEF read
  <2> QED
    BY <1>1, <2>1, <2>6, <2>7, GoOnHeard
<1> QED
  BY <1>6, <1>7

(* A record is read as it was meant, or the name in its data is read next.   *)
LEMMA FinishRecordHeard ==
    ASSUME IInv, NEW w, IsWriting(w), NP!AgreesWith(w.bytes), Heard(w), FinishRecord
    PROVE  Heard(w)'
<1> DEFINE at == N!Cursor
           data == at + 10
           length == Word(at + 8)
<1>0. PICK thing : thing = w.things[Len(items) + 1]
  OBVIOUS
<1>1. OwnerRead /\ ~(Len(items) < Counts[1]) /\ Len(message) >= 12 /\ Len(message) \in Nat
      /\ Len(items) \in Nat
  <2>1. OwnerRead /\ Len(items) >= Counts[1]
    BY DEF FinishRecord
  <2>2. Len(message) >= 12 /\ Len(message) \in Nat /\ Len(items) \in Nat /\ Word(4) \in Nat
    BY <2>1, OwnerFacts
  <2> QED
    BY <2>1, <2>2 DEF Counts
<1>2. /\ Len(items) + 1 \in 1 .. Len(w.things) /\ Len(items) + 1 <= Len(w.things)
      /\ Meant(w, items) /\ Shown(w, items, Len(items))
      /\ start = thing.from /\ N!Name = thing.name /\ at = thing.behind
      /\ thing.behind \in Nat /\ thing.to <= Len(w.bytes) /\ Len(w.bytes) \in Nat
      /\ thing.to \in Nat /\ thing.data \in Seq(0 .. 255)
  BY <1>0, <1>1, OwnerMeant
<1>3. ~(Len(items) + 1 <= WordIn(w.bytes, 4))
  <2>1. Counts[1] = WordIn(w.bytes, 4) /\ Counts[1] = Word(4)
    BY <1>1, CountsAgree DEF IInv, Counts
  <2>2. Word(4) \in Nat
    BY <1>1, OwnerFacts
  <2> QED
    BY <1>1, <2>1, <2>2
<1>4. /\ RecordWritten(w.bytes, thing)
      /\ HoldsName(thing.type) /\ thing.data # << >> =>
            NP!Spelled(w.bytes, thing.targetSpelled, thing.behind + 10, thing.target, thing.to)
  BY <1>0, <1>2, <1>3, ThingWritten
<1> HIDE DEF at, length
<1>5. /\ thing.to = data + Len(thing.data) /\ at \in Nat /\ data \in Nat
      /\ Len(thing.data) \in Nat /\ data + Len(thing.data) <= Len(w.bytes)
      /\ thing.ttl = DataIn(w.bytes, at + 4, 4)
      /\ WordIn(w.bytes, at + 8) = Len(thing.data)
      /\ thing.data = DataIn(w.bytes, data, Len(thing.data))
      /\ WordIn(w.bytes, at) = thing.type /\ WordIn(w.bytes, at + 2) = thing.klass
  <2>1. /\ thing.to = data + Len(thing.data) /\ thing.behind = at
        /\ thing.ttl = DataIn(w.bytes, at + 4, 4)
        /\ WordIn(w.bytes, at + 8) = Len(thing.data)
        /\ thing.data = DataIn(w.bytes, data, Len(thing.data))
        /\ WordIn(w.bytes, at) = thing.type /\ WordIn(w.bytes, at + 2) = thing.klass
    BY <1>2, <1>4 DEF RecordWritten, NameWritten
  <2>2. Len(thing.data) \in Nat
    BY <1>2, LenProperties
  <2>3. at \in Nat /\ thing.to <= Len(w.bytes)
    BY <1>2, Zenon
  <2>4. data \in Nat
    BY <2>3
  <2> HIDE DEF data
  <2>5. data + Len(thing.data) <= Len(w.bytes)
    BY <2>1, <2>3, Zenon
  <2> QED
    BY <2>1, <2>2, <2>3, <2>4, <2>5, Zenon
<1>10. /\ at \in Nat /\ Len(message) \in Nat /\ Len(w.bytes) \in Nat
       /\ Len(thing.data) \in Nat /\ (at + 10) + Len(thing.data) <= Len(w.bytes)
       /\ at + 10 <= Len(w.bytes)
  <2>1. /\ at \in Nat /\ Len(thing.data) \in Nat
        /\ (at + 10) + Len(thing.data) <= Len(w.bytes)
    BY <1>5, Zenon
  <2>2. Len(message) \in Nat /\ Len(w.bytes) \in Nat
    BY <1>1, <1>2
  <2> DEFINE n == Len(thing.data)
             m == Len(w.bytes)
             i == at
  <2> HIDE DEF n, m, i, data
  <2>3. i \in Nat /\ n \in Nat /\ m \in Nat /\ (i + 10) + n <= m
    BY <2>1, <2>2 DEF i, n, m
  <2>4. i + 10 <= m
    BY <2>3
  <2> QED
    BY <2>1, <2>2, <2>4 DEF i, n, m
<1>6. CASE ~N!HasBytes(at, 10)
  <2>1. Refuse("dns record truncated")
    BY <1>6 DEF FinishRecord, at
  <2>2. Len(message) < Len(w.bytes)
    BY <1>6, <1>10 DEF N!HasBytes
  <2> QED
    BY <2>1, <2>2, RefuseHeard DEF Errors
<1>7. ASSUME N!HasBytes(at, 10)
      PROVE  /\ length = Len(thing.data) /\ Word(at) = thing.type
             /\ Word(at + 2) = thing.klass /\ Bytes(at + 4, 4) = thing.ttl
  <2>1. at + 10 <= Len(message)
    BY <1>7 DEF N!HasBytes
  <2>2. \A offset \in {at, at + 2, at + 8} :
           /\ offset \in Nat /\ offset + 2 <= Len(message) /\ offset + 2 <= Len(w.bytes)
    BY <1>10, <2>1
  <2>3. \A offset \in {at, at + 2, at + 8} : Word(offset) = WordIn(w.bytes, offset)
    BY <2>2, WordsAgree DEF IInv
  <2>4. Bytes(at + 4, 4) = DataIn(w.bytes, at + 4, 4)
    <3>1. /\ at + 4 \in Nat /\ 4 \in Nat
          /\ (at + 4) + 4 <= Len(message) /\ (at + 4) + 4 <= Len(w.bytes)
      BY <1>10, <2>1
    <3> QED
      BY <3>1, BytesAgree DEF IInv
  <2> QED
    BY <1>5, <2>3, <2>4 DEF length
<1>8. CASE N!HasBytes(at, 10) /\ ~N!HasBytes(data, length)
  <2>1. Refuse("dns rdata truncated")
    BY <1>8 DEF FinishRecord, at, length
  <2>2. Len(message) < Len(w.bytes)
    <3>1. length = Len(thing.data) /\ ~((at + 10) + length <= Len(message))
      BY <1>7, <1>8 DEF N!HasBytes
    <3> DEFINE n == Len(thing.data)
               m == Len(w.bytes)
               l == Len(message)
               i == at
    <3> HIDE DEF n, m, l, i, data
    <3>2. /\ i \in Nat /\ n \in Nat /\ m \in Nat /\ l \in Nat
          /\ (i + 10) + n <= m /\ ~((i + 10) + n <= l)
      BY <1>10, <3>1 DEF i, n, m, l
    <3>3. l < m
      BY <3>2
    <3> QED
      BY <3>3 DEF l, m
  <2> QED
    BY <2>1, <2>2, RefuseHeard DEF Errors
<1>9. CASE N!HasBytes(at, 10) /\ N!HasBytes(data, length)
  <2> DEFINE bytes == Bytes(data, length)
             item == [from |-> start, to |-> data + length, name |-> N!Name, type |-> Word(at),
                      klass |-> Word(at + 2), ttl |-> Bytes(at + 4, 4), data |-> bytes,
                      text |-> TextOf(Word(at), bytes)]
             read == Append(items, item)
  <2>1. IF HoldsName(Word(at)) /\ length > 0
        THEN items' = read /\ reading' = "rdata" /\ ReadNameAt(data)
        ELSE GoOn(data + length, read)
    BY <1>9 DEF FinishRecord, at, length
  <2>2. data + length <= Len(message) /\ length = Len(thing.data) /\ length \in Nat
    BY <1>5, <1>7, <1>9 DEF N!HasBytes
  <2>3. bytes = thing.data
    <3> HIDE DEF data
    <3>1. data + length <= Len(w.bytes)
      BY <1>5, <2>2
    <3>2. bytes = DataIn(w.bytes, data, length)
      BY <1>5, <2>2, <3>1, BytesAgree DEF IInv
    <3> QED
      BY <1>5, <2>2, <3>2
  <2> HIDE DEF bytes
  <2>4. Conveys(item, thing) /\ Fields \subseteq DOMAIN item
    <3>1. data + length = thing.to
      BY <1>5, <2>2
    <3> HIDE DEF data
    <3> QED
      BY <1>2, <1>7, <1>9, <2>3, <3>1 DEF Conveys, Fields
  <2>5. /\ item.to = data + length
    OBVIOUS
  <2> HIDE DEF item
  <2>6. /\ Meant(w, read) /\ Shown(w, read, Len(items))
        /\ ShowsTarget(item, thing) => Shown(w, read, Len(read))
    BY <1>0, <1>2, <2>4, OneMoreMeant DEF IInv
  <2>7. Listed(read) /\ Behind(read) = data + length /\ Len(read) = Len(items) + 1
    BY <2>5, BehindOneMore, OneMore DEF IInv
  <2> HIDE DEF read
  <2>8. thing.data # << >> <=> length > 0
    BY <1>2, <2>2, EmptySeq, LenProperties
  <2>9. CASE HoldsName(Word(at)) /\ length > 0
    <3>1. /\ items' = read /\ reading' = "rdata" /\ ReadNameAt(data) /\ message' = message
          /\ Len(items') \in 1 .. Len(w.things) /\ w.things[Len(items')] = thing
          /\ Len(items') = Len(items) + 1 /\ Len(items') - 1 = Len(items)
      BY <1>0, <1>1, <1>2, <2>1, <2>7, <2>9 DEF ReadNameAt
    <3>2. HoldsName(thing.type) /\ thing.data # << >>
      BY <1>7, <1>9, <2>8, <2>9
    <3>3. NP!Spells(w.bytes, thing.targetSpelled, data, thing.target) /\ data = thing.behind + 10
      BY <1>2, <1>4, <3>2 DEF NP!Spelled
    <3>4. frames' = <<NP!Call(data)>> /\ result' = "reading" /\ start' = data
      BY <3>1 DEF ReadNameAt, N!Call, NP!Call
    <3>5. NP!Told(w.bytes, thing.targetSpelled, thing.target, thing.to)'
      <4>1. data \in Nat
        BY <1>5, Zenon
      <4>2. thing.behind + 10 \in Nat
        BY <3>3, <4>1
      <4>3. NP!Spells(w.bytes, thing.targetSpelled, thing.behind + 10, thing.target)
        BY <3>3, Zenon
      <4>4. frames' = <<NP!Call(thing.behind + 10)>> /\ result' = "reading"
        BY <3>3, <3>4, Zenon
      <4> QED
        BY <4>2, <4>3, <4>4, NP!ToldAtNextStart, MessagesAssumption, LimitsAssumption DEF NP!Byte
    <3>6. Len(items') > WordIn(w.bytes, 4) /\ Len(items') \in DOMAIN w.things
      <4>1. WordIn(w.bytes, 4) \in Nat
        <5>1. Word(4) = WordIn(w.bytes, 4) /\ Word(4) \in Nat
          BY <1>1, CountsAgree, OwnerFacts DEF IInv, Counts
        <5> QED
          BY <5>1
      <4>2. Len(items') > WordIn(w.bytes, 4)
        BY <1>1, <1>3, <3>1, <4>1
      <4> QED
        BY <3>1, <4>2, WritingFacts
    <3>7. TargetHeard(w)'
      <4>1. start' = thing.behind + 10
        BY <3>3, <3>4, Zenon
      <4> QED
        BY <3>1, <3>2, <3>5, <3>6, <4>1 DEF TargetHeard
    <3>8. Meant(w, items)' /\ Shown(w, items, Len(items) - 1)'
      BY <2>6, <3>1 DEF Meant, Shown
    <3> QED
      BY <3>1, <3>7, <3>8 DEF Heard, Errors, N!Errors
  <2>10. CASE ~(HoldsName(Word(at)) /\ length > 0)
    <3>1. GoOn(data + length, read)
      BY <2>1, <2>10
    <3>2. ShowsTarget(item, thing)
      BY <1>7, <1>9, <2>8, <2>10 DEF ShowsTarget
    <3> HIDE DEF data
    <3> QED
      BY <1>1, <2>6, <2>7, <3>1, <3>2, GoOnHeard
  <2> QED
    BY <2>9, <2>10
<1> QED
  BY <1>6, <1>8, <1>9

(* A field of an item that only its text is changed of.                      *)
LEMMA TextOnly ==
    ASSUME NEW item, Fields \subseteq DOMAIN item, NEW text
    PROVE  LET shown == [item EXCEPT !.text = text]
           IN  /\ Fields \subseteq DOMAIN shown /\ shown.text = text
               /\ \A field \in Fields \ {"text"} : shown[field] = item[field]
BY DEF Fields

(* The text of a name in the data is that name.                              *)
LEMMA LastShown ==
    ASSUME NEW w, NEW read, Listed(read), read # << >>, Meant(w, read),
           Shown(w, read, Len(read) - 1), NEW text,
           text = [kind |-> "name", parts |-> w.things[Len(read)].target]
    PROVE  LET shown == [read EXCEPT ![Len(read)].text = text]
           IN  Meant(w, shown) /\ Shown(w, shown, Len(shown))
<1> DEFINE n == Len(read)
           item == [read[n] EXCEPT !.text = text]
           S == {read[k] : k \in DOMAIN read} \cup {item}
           shown == [read EXCEPT ![Len(read)].text = text]
<1>1. /\ n \in Nat /\ DOMAIN read = 1 .. n /\ read \in Seq(S) /\ n # 0
  <2>1. read \in Seq({read[k] : k \in DOMAIN read})
    BY DEF Listed
  <2> QED
    BY <2>1, SeqMonotonic, EmptySeq, LenProperties
<1>2. /\ shown \in Seq(S) /\ Len(shown) = n
      /\ \A k \in 1 .. n : shown[k] = IF k = n THEN item ELSE read[k]
  BY <1>1, ExceptSeq
<1>3. n \in DOMAIN read
  BY <1>1
<1>4. Fields \subseteq DOMAIN read[n] /\ Conveys(read[n], w.things[n])
  BY <1>3 DEF Meant
<1>5. /\ Fields \subseteq DOMAIN item /\ item.text = text
      /\ \A field \in Fields \ {"text"} : item[field] = read[n][field]
  BY <1>4, TextOnly
<1> HIDE DEF item, S, shown
<1>6. DOMAIN shown = 1 .. n
  BY <1>2, LenProperties
<1>7. Conveys(item, w.things[n])
  BY <1>4, <1>5 DEF Conveys, Fields
<1>8. Meant(w, shown)
  BY <1>1, <1>2, <1>5, <1>6, <1>7 DEF Meant
<1>9. Shown(w, shown, Len(shown))
  <2> SUFFICES ASSUME Len(w.bytes) <= Len(message), NEW k \in 1 .. n
               PROVE  ShowsTarget(shown[k], w.things[k])
    BY <1>6 DEF Shown
  <2>1. CASE k = n
    BY <1>2, <1>5, <2>1 DEF ShowsTarget
  <2>2. CASE k # n
    <3>1. k <= n - 1 /\ shown[k] = read[k]
      <4>1. shown[k] = read[k]
        BY <1>2, <2>2
      <4>2. n \in Nat
        BY <1>1
      <4> HIDE DEF n
      <4> QED
        BY <2>2, <4>1, <4>2
    <3> QED
      BY <1>1, <3>1 DEF Shown
  <2> QED
    BY <2>1, <2>2
<1> QED
  BY <1>8, <1>9 DEF shown

(* A name in the data is shown as it was meant, if the message is whole.     *)
LEMMA ShowDataHeard ==
    ASSUME IInv, NEW w, IsWriting(w), NP!AgreesWith(w.bytes), Heard(w), ShowData
    PROVE  Heard(w)'
<1> DEFINE thing == w.things[Len(items)]
           text == [kind |-> "name", parts |-> N!Name]
           shown == [items EXCEPT ![Len(items)].text = text]
<1>1. /\ reading = "rdata" /\ items # << >> /\ Len(message) >= 12 /\ Listed(items)
      /\ Tiled(items) /\ result # "reading"
  BY DEF IInv, ShowData, Staged
<1>2. TargetHeard(w) /\ Meant(w, items) /\ Shown(w, items, Len(items) - 1)
  BY <1>1 DEF Heard
<1>3. NP!Told(w.bytes, thing.targetSpelled, thing.target, thing.to)
  BY <1>2 DEF TargetHeard
<1> HIDE DEF thing
<1>4. CASE result = "ok"
  <2>1. text.parts = thing.target /\ text = [kind |-> "name", parts |-> thing.target]
    BY <1>3, <1>4, SameSpelling DEF NP!Told
  <2> HIDE DEF text
  <2>2. Meant(w, shown) /\ Shown(w, shown, Len(shown))
    BY <1>1, <1>2, <2>1, LastShown DEF thing
  <2>3. Listed(shown) /\ Behind(shown) = Last(items).to
    BY <1>1, TextChanges
  <2>4. GoOn(Last(items).to, shown)
    BY <1>4 DEF ShowData, text
  <2> HIDE DEF shown
  <2> QED
    BY <1>1, <2>2, <2>3, <2>4, GoOnHeard
<1>5. CASE result # "ok"
  <2>1. result \in NP!Errors
    BY <1>1, <1>5, NameFacts DEF IInv, N!Errors, NP!Errors
  <2>2. Len(message) < Len(w.bytes)
    BY <1>3, <2>1 DEF NP!Told
  <2>3. Len(message) \in Nat /\ Len(w.bytes) \in Nat
    BY NameFacts, WritingFacts DEF IInv
  <2>4. Shown(w, items, Len(items))
    BY <2>2, <2>3 DEF Shown
  <2>5. GoOn(Behind(items), items)
    BY <1>1, <1>5 DEF ShowData, Behind
  <2> QED
    BY <1>1, <1>2, <2>4, <2>5, GoOnHeard
<1> QED
  BY <1>4, <1>5

(* A pass of the loop that reads a name goes on along its spelling.          *)
LEMMA ReadNameHeard ==
    ASSUME IInv, NEW w, IsWriting(w), NP!AgreesWith(w.bytes), Heard(w), ReadName
    PROVE  Heard(w)'
<1>1. /\ NP!Next /\ message' = message /\ start' = start
      /\ items' = items /\ reading' = reading /\ reading \in {"owner", "rdata"}
  BY NameStep, SameNext DEF IInv, ReadName
<1>2. \A spelled, from, name, behind :
         NP!Spelled(w.bytes, spelled, from, name, behind)
         /\ NP!Told(w.bytes, spelled, name, behind)
            => NP!Told(w.bytes, spelled, name, behind)'
  BY <1>1, NP!ToldStays, MessagesAssumption, LimitsAssumption DEF NP!Byte, IInv
<1>3. Meant(w, items)' /\ \A upto : Shown(w, items, upto) => Shown(w, items, upto)'
  BY <1>1 DEF Heard, Meant, Shown
<1>4. CASE reading = "owner"
  <2>1. PICK thing : thing = w.things[Len(items) + 1]
    OBVIOUS
  <2>2. /\ Len(items) < Len(w.things) /\ start = thing.from
        /\ NP!Told(w.bytes, thing.spelled, thing.name, thing.behind)
        /\ Shown(w, items, Len(items))
    BY <1>4, <2>1 DEF Heard, OwnerHeard
  <2>3. Len(items) + 1 \in 1 .. Len(w.things)
    <3>1. Len(items) \in Nat /\ Len(w.things) \in Nat
      BY LenProperties, WritingFacts DEF IInv, Listed
    <3> QED
      BY <2>2, <3>1
  <2>4. NP!Spelled(w.bytes, thing.spelled, thing.from, thing.name, thing.behind)
    BY <2>1, <2>3, ThingWritten
  <2>5. NP!Told(w.bytes, thing.spelled, thing.name, thing.behind)'
    BY <1>2, <2>2, <2>4
  <2>6. OwnerHeard(w)'
    BY <1>1, <2>1, <2>2, <2>5 DEF OwnerHeard
  <2> QED
    BY <1>1, <1>3, <1>4, <2>2, <2>6 DEF Heard, Errors, N!Errors
<1>5. CASE reading = "rdata"
  <2>1. PICK thing : thing = w.things[Len(items)]
    OBVIOUS
  <2>2. /\ Len(items) \in DOMAIN w.things /\ start = thing.behind + 10
        /\ HoldsName(thing.type) /\ thing.data # << >> /\ Len(items) > WordIn(w.bytes, 4)
        /\ NP!Told(w.bytes, thing.targetSpelled, thing.target, thing.to)
        /\ Shown(w, items, Len(items) - 1)
    BY <1>5, <2>1 DEF Heard, TargetHeard
  <2>3. Len(items) \in 1 .. Len(w.things) /\ ~(Len(items) <= WordIn(w.bytes, 4))
    <3>1. Len(message) >= 12
      BY <1>5 DEF IInv, Staged
    <3>2. WordIn(w.bytes, 4) = Word(4) /\ Word(4) \in Nat
      <4>1. Len(message) \in Nat /\ 4 \in 0 .. Len(message) - 2
        BY <3>1, NameFacts DEF IInv
      <4> QED
        BY <3>1, <4>1, CountsAgree, TotalIsNumber DEF IInv, Counts
    <3>3. Len(items) \in 1 .. Len(w.things)
      BY <2>2, WritingFacts
    <3> QED
      BY <2>2, <3>2, <3>3
  <2>4. NP!Spelled(w.bytes, thing.targetSpelled, thing.behind + 10, thing.target, thing.to)
    BY <2>1, <2>2, <2>3, ThingWritten
  <2>5. NP!Told(w.bytes, thing.targetSpelled, thing.target, thing.to)'
    BY <1>2, <2>2, <2>4
  <2>6. TargetHeard(w)'
    BY <1>1, <2>1, <2>2, <2>5 DEF TargetHeard
  <2> QED
    BY <1>1, <1>3, <1>5, <2>2, <2>6 DEF Heard, Errors, N!Errors
<1> QED
  BY <1>1, <1>4, <1>5

(* So every step goes on as what was written is meant.                       *)
LEMMA HeardStays ==
    ASSUME IInv, [Next]_vars, NEW w, IsWriting(w), NP!AgreesWith(w.bytes), Heard(w)
    PROVE  NP!AgreesWith(w.bytes)' /\ Heard(w)'
<1>1. message' = message
  BY NameStep DEF IInv, Next, vars, ReadHeader, ReadName, OwnerFails, FinishQuestion,
                  FinishRecord, ShowData, Returned, GoOn, Refuse, ReadNameAt, nameVars
<1>2. NP!AgreesWith(w.bytes)'
  BY <1>1 DEF NP!AgreesWith
<1>3. CASE ReadHeader
  <2>1. Len(message) \in Nat /\ Len(w.bytes) \in Nat /\ Len(w.bytes) >= 12
    BY NameFacts, WritingFacts DEF IInv
  <2>2. CASE Len(message) < 12
    <3>1. Refuse("dns message too short")
      BY <1>3, <2>2 DEF ReadHeader
    <3>2. Len(message) < Len(w.bytes)
      <4> DEFINE l == Len(message)
                 m == Len(w.bytes)
      <4> HIDE DEF l, m
      <4>1. l \in Nat /\ m \in Nat /\ m >= 12 /\ l < 12
        BY <2>1, <2>2 DEF l, m
      <4>2. l < m
        BY <4>1
      <4> QED
        BY <4>2 DEF l, m
    <3> QED
      BY <1>2, <3>1, <3>2, RefuseHeard DEF Errors
  <2>3. CASE ~(Len(message) < 12)
    <3>1. GoOn(Behind(<< >>), << >>) /\ Len(message) >= 12
      BY <1>3, <2>1, <2>3 DEF ReadHeader, Behind
    <3>2. Listed(<< >>)
      BY SeqListed, EmptySeq
    <3>3. Meant(w, << >>) /\ Shown(w, << >>, Len(<< >>))
      BY WritingFacts DEF Meant, Shown
    <3> HIDE DEF Behind
    <3> QED
      BY <1>2, <3>1, <3>2, <3>3, GoOnHeard
  <2> QED
    BY <2>2, <2>3
<1>4. CASE ReadName
  BY <1>2, <1>4, ReadNameHeard
<1>5. CASE OwnerFails
  <2>1. reading = "owner" /\ result \in N!Errors /\ Refuse(result)
    BY <1>5 DEF OwnerFails
  <2>2. result \in NP!Errors /\ result \in Errors
    BY <2>1 DEF N!Errors, NP!Errors, Errors
  <2>3. Len(message) < Len(w.bytes)
    BY <2>1, <2>2 DEF Heard, OwnerHeard, NP!Told
  <2>4. PICK error : error = result
    OBVIOUS
  <2> QED
    BY <1>2, <2>1, <2>2, <2>3, <2>4, RefuseHeard
<1>6. CASE FinishQuestion
  BY <1>2, <1>6, FinishQuestionHeard
<1>7. CASE FinishRecord
  BY <1>2, <1>7, FinishRecordHeard
<1>8. CASE ShowData
  BY <1>2, <1>8, ShowDataHeard
<1>9. CASE UNCHANGED vars
  <2>1. /\ items' = items /\ reading' = reading /\ start' = start
        /\ frames' = frames /\ result' = result
    BY <1>9 DEF vars
  <2>2. \A bytes, spelled, name, behind :
           NP!Told(bytes, spelled, name, behind)' <=> NP!Told(bytes, spelled, name, behind)
    BY <1>1, <2>1 DEF NP!Told, NP!StandsAt, NP!Innermost, NP!Name, NP!Cursor
  <2> QED
    BY <1>1, <1>2, <2>1, <2>2 DEF Heard, Meant, Shown, OwnerHeard, TargetHeard
<1> QED
  BY <1>3, <1>4, <1>5, <1>6, <1>7, <1>8, <1>9 DEF Next, Returned

(* For each of the messages written.                                         *)
AllHeard == \A w \in Written : NP!AgreesWith(w.bytes) => Heard(w)

(* With that, the answer is what was meant, and a message cut is refused.    *)
LEMMA HeardDecodes ==
    ASSUME IInv, NEW w, IsWriting(w), NP!AgreesWith(w.bytes) => Heard(w),
           reading \in Errors \cup {"ok"}
    PROVE  /\ IsPrefix(w.bytes, message) =>
                /\ reading = "ok"
                /\ Header = w.header
                /\ Len(items) = Len(w.things)
                /\ \A k \in DOMAIN items :
                      Conveys(items[k], w.things[k]) /\ ShowsTarget(items[k], w.things[k])
           /\ IsStrictPrefix(message, w.bytes) => reading # "ok"
<1>1. /\ Len(message) \in Nat /\ Len(w.bytes) \in Nat /\ Len(w.bytes) >= 12
      /\ message \in Seq(0 .. 255) /\ w.bytes \in Seq(0 .. 255)
      /\ Len(items) \in Nat /\ DOMAIN items = 1 .. Len(items)
  BY NameFacts, WritingFacts, LenProperties, MessagesAssumption DEF IInv, Listed
<1>2. ASSUME IsPrefix(w.bytes, message) \/ IsPrefix(message, w.bytes)
      PROVE  NP!AgreesWith(w.bytes)
  <2>1. PICK n \in Nat : /\ n = Len(w.bytes) \/ n = Len(message)
                         /\ SubSeq(w.bytes, 1, n) = SubSeq(message, 1, n)
                         /\ n <= Len(w.bytes) /\ n <= Len(message)
    BY <1>1, <1>2 DEF IsPrefix
  <2>2. \A k \in 1 .. n : SubSeq(w.bytes, 1, n)[k] = w.bytes[k]
    BY <1>1, <2>1
  <2>3. \A k \in 1 .. n : SubSeq(message, 1, n)[k] = message[k]
    BY <1>1, <2>1
  <2>4. (1 .. Len(message)) \cap (1 .. Len(w.bytes)) \subseteq 1 .. n
    BY <1>1, <2>1
  <2> QED
    BY <2>1, <2>2, <2>3, <2>4 DEF NP!AgreesWith
<1>3. ASSUME reading = "ok", NP!AgreesWith(w.bytes)
      PROVE  /\ Len(w.bytes) <= Len(message) /\ Header = w.header
             /\ Len(items) = Len(w.things)
             /\ \A k \in DOMAIN items :
                   Conveys(items[k], w.things[k]) /\ ShowsTarget(items[k], w.things[k])
  <2>1. Len(message) >= 12 /\ Len(items) = Total /\ Tiled(items)
    BY <1>3 DEF IInv, Staged
  <2>2. Total = Len(w.things) /\ Header = w.header
    BY <1>3, <2>1, CountsAgree, HeaderAgrees DEF IInv
  <2>3. Meant(w, items) /\ Shown(w, items, Len(items))
    BY <1>3 DEF Heard
  <2>4. Len(w.bytes) <= Len(message)
    <3>1. Len(w.bytes) = IF w.things = << >> THEN 12 ELSE w.things[Len(w.things)].to
      BY Zenon DEF IsWriting
    <3>2. CASE Len(items) = 0
      <4>1. w.things = << >>
        <5>1. w.things \in Seq(Thing) /\ Len(w.things) = 0
          BY <2>1, <2>2, <3>2 DEF IsWriting
        <5> QED
          BY <5>1, EmptySeq
      <4> QED
        BY <1>1, <2>1, <3>1, <4>1
    <3>3. CASE Len(items) # 0
      <4>1. Len(items) \in DOMAIN items /\ Len(items) = Len(w.things)
        BY <1>1, <2>1, <2>2, <3>3
      <4>2. items[Len(items)].to <= Len(message)
            /\ items[Len(items)].to = w.things[Len(w.things)].to
        BY <2>1, <2>3, <4>1 DEF Tiled, Meant, Conveys
      <4>3. w.things # << >>
        BY <1>1, <3>3, <4>1
      <4> QED
        BY <3>1, <4>2, <4>3
    <3> QED
      BY <3>2, <3>3
  <2>5. \A k \in DOMAIN items : k <= Len(items)
    BY <1>1
  <2> QED
    BY <2>1, <2>2, <2>3, <2>4, <2>5 DEF Meant, Shown
<1>4. ASSUME IsPrefix(w.bytes, message) PROVE reading = "ok"
  <2>1. Heard(w) /\ Len(w.bytes) <= Len(message)
    BY <1>2, <1>4 DEF IsPrefix
  <2> QED
    BY <1>1, <2>1 DEF Heard
<1>5. ASSUME IsStrictPrefix(message, w.bytes) PROVE reading # "ok"
  <2>1. IsPrefix(message, w.bytes) /\ message # w.bytes
    BY <1>5 DEF IsStrictPrefix
  <2>2. SUFFICES ASSUME reading = "ok" PROVE FALSE
    OBVIOUS
  <2>3. Len(w.bytes) <= Len(message) /\ NP!AgreesWith(w.bytes)
    BY <1>2, <1>3, <2>1, <2>2
  <2>4. Len(message) = Len(w.bytes)
    BY <1>1, <2>1, <2>3 DEF IsPrefix
  <2>5. message = w.bytes
    BY <1>1, <2>3, <2>4, SeqEqual DEF NP!AgreesWith
  <2> QED
    BY <2>1, <2>5
<1> QED
  BY <1>2, <1>3, <1>4, <1>5

(* Whatever was written is read as it was meant: its header, and for each    *)
(* question and record the name, the numbers, the data and the name in the   *)
(* data, however names were compressed and whatever follows the message; and *)
(* a message that was cut is refused.                                        *)
THEOREM AlwaysDecodesWhatWasWritten == Spec => []DecodesWhatWasWritten
<1>1. Init => AllHeard
  BY WritingFacts, WrittenAssumption
     DEF Init, AllHeard, Heard, Meant, Shown, Errors, N!Errors
<1>2. IInv /\ AllHeard /\ [Next]_vars => AllHeard'
  <2> SUFFICES ASSUME IInv, AllHeard, [Next]_vars, NEW w \in Written, NP!AgreesWith(w.bytes)'
               PROVE  Heard(w)'
    BY DEF AllHeard
  <2>1. message' = message
    BY NameStep DEF IInv, Next, vars, ReadHeader, ReadName, OwnerFails, FinishQuestion,
                    FinishRecord, ShowData, Returned, GoOn, Refuse, ReadNameAt, nameVars
  <2>2. NP!AgreesWith(w.bytes)
    BY <2>1 DEF NP!AgreesWith
  <2> QED
    BY <2>2, HeardStays, WrittenAssumption DEF AllHeard
<1>3. IInv /\ AllHeard => DecodesWhatWasWritten
  BY HeardDecodes, WrittenAssumption DEF AllHeard, DecodesWhatWasWritten
<1> QED
  BY <1>1, <1>2, <1>3, InvariantHolds, PTL DEF Spec
=============================================================================
