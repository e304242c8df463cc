------------------------------ MODULE DnsWriting ------------------------------
(***************************************************************************)
(* What DnsMessage owes to who wrote the message.  A writing is the bytes  *)
(* of a message together with what its writer meant by them: the header,   *)
(* and for each question and record ("thing") its name and how that is     *)
(* spelled, its numbers and its data.  That the bytes mean this is RFC     *)
(* 1035's, and is said here without the reader's code.                     *)
(***************************************************************************)
EXTENDS DnsMessage, DnsSpelling

CONSTANT Written           \* messages, with what was meant by them

WordIn(bytes, offset) == bytes[offset + 1] * 256 + bytes[offset + 2]
DataIn(bytes, offset, length) == SubSeq(bytes, offset + 1, offset + length)

Bit(flag) == IF flag THEN 1 ELSE 0

(* The first two words hold the header's fields, three bits are reserved.  *)
HeaderWritten(w) ==
    /\ w.header \in [id : Nat, response : BOOLEAN, opcode : 0 .. 15,
                     authoritative : BOOLEAN, truncated : BOOLEAN,
                     recursion_desired : BOOLEAN, recursion_available : BOOLEAN,
                     rcode : 0 .. 15]
    /\ w.reserved \in 0 .. 7
    /\ WordIn(w.bytes, 0) = w.header.id
    /\ WordIn(w.bytes, 2) =
           32768 * Bit(w.header.response) + 2048 * w.header.opcode
           + 1024 * Bit(w.header.authoritative) + 512 * Bit(w.header.truncated)
           + 256 * Bit(w.header.recursion_desired) + 128 * Bit(w.header.recursion_available)
           + 16 * w.reserved + w.header.rcode

(* The name a thing is about, then its type and its class.                 *)
NameWritten(bytes, thing) ==
    /\ Spells(bytes, thing.spelled, thing.from, thing.name)
    /\ EndsAt(bytes, thing.spelled, thing.behind)
    /\ WithinLimits(thing.spelled, DepthLimit, NameLimit)
    /\ WordIn(bytes, thing.behind) = thing.type
    /\ WordIn(bytes, thing.behind + 2) = thing.klass

QuestionWritten(bytes, thing) ==
    /\ NameWritten(bytes, thing)
    /\ thing.to = thing.behind + 4
    /\ thing.ttl = << >> /\ thing.data = << >>

(* Time to live, length and data; data that is a name is spelled, too.     *)
RecordWritten(bytes, thing) ==
    /\ NameWritten(bytes, thing)
    /\ thing.to = thing.behind + 10 + Len(thing.data)
    /\ thing.ttl = DataIn(bytes, thing.behind + 4, 4)
    /\ WordIn(bytes, thing.behind + 8) = Len(thing.data)
    /\ thing.data = DataIn(bytes, thing.behind + 10, Len(thing.data))
    /\ HoldsName(thing.type) /\ thing.data # << >> =>
           /\ Spells(bytes, thing.targetSpelled, thing.behind + 10, thing.target)
           /\ EndsAt(bytes, thing.targetSpelled, thing.to)
           /\ WithinLimits(thing.targetSpelled, DepthLimit, NameLimit)

Thing == [from : Nat, behind : Nat, to : Nat, name : Seq(Seq(0 .. 255)),
          spelled : Seq(Mark), type : Nat, klass : Nat, ttl : Seq(0 .. 255),
          data : Seq(0 .. 255), target : Seq(Seq(0 .. 255)), targetSpelled : Seq(Mark)]

(* The header counts the things, that follow it side by side to the end.   *)
IsWriting(w) ==
    /\ w.bytes \in Seq(0 .. 255) /\ Len(w.bytes) >= 12
    /\ w.things \in Seq(Thing)
    /\ HeaderWritten(w)
    /\ WordIn(w.bytes, 4) + WordIn(w.bytes, 6) + WordIn(w.bytes, 8) + WordIn(w.bytes, 10)
           = Len(w.things)
    /\ \A k \in DOMAIN w.things :
          /\ w.things[k].from = IF k = 1 THEN 12 ELSE w.things[k - 1].to
          /\ w.things[k].to <= Len(w.bytes)
          /\ IF k <= WordIn(w.bytes, 4) THEN QuestionWritten(w.bytes, w.things[k])
             ELSE RecordWritten(w.bytes, w.things[k])
    /\ Len(w.bytes) = IF w.things = << >> THEN 12 ELSE w.things[Len(w.things)].to

ASSUME WrittenAssumption == \A w \in Written : IsWriting(w)

-----------------------------------------------------------------------------
(* Properties.                                                             *)

(* An item says what was written, and its text shows a name in the data as *)
(* it was before it was compressed.                                        *)
Conveys(item, thing) ==
    /\ item.from = thing.from /\ item.to = thing.to /\ item.name = thing.name
    /\ item.type = thing.type /\ item.klass = thing.klass
    /\ item.ttl = thing.ttl /\ item.data = thing.data
ShowsTarget(item, thing) ==
    HoldsName(thing.type) /\ thing.data # << >> =>
        item.text = [kind |-> "name", parts |-> thing.target]

(* What was written is read as it was meant, however names were compressed *)
(* and whatever follows the message; and a message that was cut anywhere is *)
(* refused, never read as a shorter one.                                   *)
DecodesWhatWasWritten ==
    reading \in Errors \cup {"ok"} =>
        \A w \in Written :
            /\ IsPrefix(w.bytes, message) =>
                  /\ reading = "ok"
                  /\ Header = w.header
                  /\ Len(items) = Len(w.things)
                  /\ \A k \in DOMAIN items :
                        Conveys(items[k], w.things[k]) /\ ShowsTarget(items[k], w.things[k])
            /\ IsStrictPrefix(message, w.bytes) => reading # "ok"
=============================================================================
