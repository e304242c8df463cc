------------------------------ MODULE DnsMessage ------------------------------
(***************************************************************************)
(* Reading a whole DNS message: parse_dns_message, read_question,          *)
(* read_record and render_rdata in src/src/packet/packet.cpp.              *)
(*                                                                         *)
(* Names are read by DnsName, whose variables are message to result here:  *)
(* first the name an item of the message is about, and for some records a  *)
(* second one, to show the record's data as text.  The loops over the four *)
(* sections are one loop over items; an item's place tells its section.    *)
(***************************************************************************)
EXTENDS Integers, SequencesExt

CONSTANTS Messages, DepthLimit, NameLimit        \* as in DnsName

ASSUME MessagesAssumption == Messages \subseteq Seq(0 .. 255)
ASSUME LimitsAssumption == DepthLimit \in Nat /\ NameLimit \in Nat

VARIABLES message, start, frames, result,        \* the name that is read
          items,           \* the questions and records read so far
          reading          \* what is read, or the answer

vars == <<message, start, frames, result, items, reading>>
nameVars == <<message, start, frames, result>>

N == INSTANCE DnsName

Errors == N!Errors \cup {"dns message too short", "dns question truncated",
                         "dns record truncated", "dns rdata truncated"}
Kinds == {"none", "address", "name", "strings", "hex"}

(* A question or record: the bytes from "from" up to "to", the labels of   *)
(* its name, its numbers and, for a record, its data and the text of it.   *)
Item == [from : Nat, to : Nat, name : Seq(Seq(N!Byte)), type : Nat, klass : Nat,
         ttl : Seq(N!Byte), data : Seq(N!Byte),
         text : [kind : Kinds, parts : Seq(Seq(N!Byte))]]

Word(offset) == message[offset + 1] * 256 + message[offset + 2]
Bytes(offset, length) == SubSeq(message, offset + 1, offset + length)

(* The sections as the header counts them, and all that is to be read.     *)
Counts == [section \in 1 .. 4 |-> Word(2 + 2 * section)]
Total == Counts[1] + Counts[2] + Counts[3] + Counts[4]

Flag(bit) == (Word(2) \div bit) % 2 = 1
Header == [id |-> Word(0), response |-> Flag(32768), opcode |-> (Word(2) \div 2048) % 16,
           authoritative |-> Flag(1024), truncated |-> Flag(512),
           recursion_desired |-> Flag(256), recursion_available |-> Flag(128),
           rcode |-> Word(2) % 16]

Init ==
    /\ message \in Messages
    /\ start = 0
    /\ frames = <<N!Call(0)>>
    /\ result = "reading"
    /\ items = << >>
    /\ reading = "header"

-----------------------------------------------------------------------------
(* What a step does to the loops.                                          *)

(* The read of a name begins.                                              *)
ReadNameAt(offset) ==
    /\ start' = offset
    /\ frames' = <<N!Call(offset)>>
    /\ result' = "reading"
    /\ UNCHANGED message

(* With these items read, the loops end or go on at this offset.           *)
GoOn(offset, read) ==
    /\ items' = read
    /\ IF Len(read) < Total
       THEN ReadNameAt(offset) /\ reading' = "owner"
       ELSE reading' = "ok" /\ UNCHANGED nameVars

(* Fault: an item that fails ends the loops, and what was read is the answer. *)
RefuseKeepingItems(error) ==
    /\ reading' = IF reading = "header" THEN error ELSE "ok"
    /\ UNCHANGED <<items, nameVars>>

(* One item that fails loses the message, and the items before it.         *)
Refuse(error) ==
    /\ reading' = error
    /\ items' = << >>
    /\ UNCHANGED nameVars

-----------------------------------------------------------------------------
(* One step of the read.                                                   *)

ReadHeader ==
    /\ reading = "header"
    /\ IF Len(message) < 12 THEN Refuse("dns message too short") ELSE GoOn(12, << >>)

(* One pass of the loop that reads a name.                                 *)
ReadName ==
    /\ reading \in {"owner", "rdata"}
    /\ N!Next
    /\ UNCHANGED <<items, reading>>

OwnerFails ==
    /\ reading = "owner"
    /\ result \in N!Errors
    /\ Refuse(result)

(* The name an item is about was read.                                     *)
OwnerRead == reading = "owner" /\ result = "ok"

(* Type and class follow the name of a question.                           *)
FinishQuestion ==
    /\ OwnerRead
    /\ Len(items) < Counts[1]
    /\ LET at == N!Cursor
       IN  IF ~N!HasBytes(at, 4)
           THEN Refuse("dns question truncated")
           ELSE GoOn(at + 4, Append(items,
                   [from |-> start, to |-> at + 4, name |-> N!Name, type |-> Word(at),
                    klass |-> Word(at + 2), ttl |-> << >>, data |-> << >>,
                    text |-> [kind |-> "none", parts |-> << >>]]))

(* The strings of a TXT record, one behind the other; one that is cut ends *)
(* them.                                                                   *)
Strings(data) ==
    LET from[k \in 1 .. Len(data) + 1] ==
            IF k > Len(data) \/ data[k] > Len(data) - k THEN << >>
            ELSE <<SubSeq(data, k + 1, k + data[k])>> \o from[k + 1 + data[k]]
    IN  from[1]

(* The text of data that holds no name.                                    *)
TextOf(type, data) ==
    IF type = 1 /\ Len(data) = 4 THEN [kind |-> "address", parts |-> <<data>>]
    ELSE IF type = 16 /\ Len(data) > 1 THEN [kind |-> "strings", parts |-> Strings(data)]
    ELSE [kind |-> "hex", parts |-> <<data>>]

(* The records NS, CNAME and PTR hold a name.                              *)
HoldsName(type) == type \in {2, 5, 12}

(* Fault: the data is not measured against the bytes that are left.        *)
FinishRecordUnmeasured ==
    /\ OwnerRead
    /\ Len(items) >= Counts[1]
    /\ LET at == N!Cursor
           data == at + 10
       IN  IF ~N!HasBytes(at, 10)
           THEN Refuse("dns record truncated")
           ELSE LET behind == data + Word(at + 8)
                    type == Word(at)
                    bytes == SubSeq(message, data + 1,
                                    IF behind > Len(message) THEN Len(message) ELSE behind)
                IN  GoOn(behind, Append(items,
                        [from |-> start, to |-> behind, name |-> N!Name, type |-> type,
                         klass |-> Word(at + 2), ttl |-> Bytes(at + 4, 4), data |-> bytes,
                         text |-> TextOf(type, bytes)]))

(* Type, class, time to live and data follow the name of a record.  If the *)
(* data holds a name, that is read next, from the whole message and with a *)
(* cursor of its own.                                                      *)
FinishRecord ==
    /\ OwnerRead
    /\ Len(items) >= Counts[1]
    /\ LET at == N!Cursor
           length == Word(at + 8)
           data == at + 10
       IN  IF ~N!HasBytes(at, 10)
           THEN Refuse("dns record truncated")
           ELSE IF ~N!HasBytes(data, length)
           THEN Refuse("dns rdata truncated")
           ELSE LET type == Word(at)
                    bytes == Bytes(data, length)
                    read == Append(items,
                        [from |-> start, to |-> data + length, name |-> N!Name, type |-> type,
                         klass |-> Word(at + 2), ttl |-> Bytes(at + 4, 4), data |-> bytes,
                         text |-> TextOf(type, bytes)])
                IN  IF HoldsName(type) /\ length > 0
                    THEN items' = read /\ reading' = "rdata" /\ ReadNameAt(data)
                    ELSE GoOn(data + length, read)

(* Fault: the loops go on where the name in the data ends.                 *)
ShowDataMovingOn ==
    /\ reading = "rdata"
    /\ result # "reading"
    /\ LET read == IF result # "ok" THEN items
                   ELSE [items EXCEPT ![Len(items)].text =
                             [kind |-> "name", parts |-> N!Name]]
       IN  GoOn(N!Cursor, read)

(* The name in the data was read, or could not be and the data is shown as *)
(* bytes; the loops go on behind the data, wherever that name ended.       *)
ShowData ==
    /\ reading = "rdata"
    /\ result # "reading"
    /\ LET read == IF result # "ok" THEN items
                   ELSE [items EXCEPT ![Len(items)].text =
                             [kind |-> "name", parts |-> N!Name]]
       IN  GoOn(Last(items).to, read)

(* The call has returned.  A read that stops anywhere else is a deadlock.  *)
Returned == reading \in Errors \cup {"ok"} /\ UNCHANGED vars

Next ==
    \/ ReadHeader
    \/ ReadName
    \/ OwnerFails
    \/ FinishQuestion
    \/ FinishRecord
    \/ ShowData
    \/ Returned

Spec == Init /\ [][Next]_vars

-----------------------------------------------------------------------------
(* Properties.                                                             *)

(* The values that the variables may have.                                 *)
TypeOK ==
    /\ start \in 0 .. Len(message)
    /\ frames \in Seq(N!Frame)
    /\ Len(frames) \in 1 .. DepthLimit + 1
    /\ result \in N!Errors \cup {"reading", "ok"}
    /\ items \in Seq(Item)
    /\ reading \in Errors \cup {"header", "owner", "rdata", "ok"}

(* Where the items that were read end.                                     *)
Behind(read) == IF read = << >> THEN 12 ELSE Last(read).to

(* The items lie in the message side by side, from behind the header on,   *)
(* each with room for a name and its numbers; while a name is read to show *)
(* data, it may end anywhere, and that moves nothing.                      *)
ItemsTile ==
    /\ \A k \in DOMAIN items :
          /\ items[k].from = IF k = 1 THEN 12 ELSE items[k - 1].to
          /\ items[k].from + 5 <= items[k].to
          /\ items[k].to <= Len(message)
    /\ reading = "owner" => start = Behind(items)

(* The work that a message causes is bounded by its length, whatever its   *)
(* header counts: there is no more than one item to five bytes.            *)
WorkBounded == 5 * Len(items) <= Len(message)

(* An answer has all that the header counts, and a refusal has nothing: no *)
(* caller takes a part of a message for the whole.                         *)
AllOrNothing ==
    /\ reading = "ok" => Len(items) = Total
    /\ reading \in Errors => items = << >>
=============================================================================
