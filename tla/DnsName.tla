------------------------------- MODULE DnsName -------------------------------
(***************************************************************************)
(* Reading one name from a DNS message: read_dns_name in                   *)
(* src/src/packet/packet.cpp.                                              *)
(*                                                                         *)
(* The function calls itself at each compression pointer.  A call is a     *)
(* frame here, the innermost last; a step is one pass of its loop.  When   *)
(* the innermost call returns, all callers append its name to theirs and   *)
(* return too.  A label is the sequence of its bytes; folding its case and *)
(* replacing what is not printable keep its length and are left out.       *)
(***************************************************************************)
EXTENDS Integers, SequencesExt

CONSTANTS Messages,        \* the messages that are read, sequences of bytes
          DepthLimit,      \* pointers that are followed: 12 in the code
          NameLimit        \* characters of a name: 255 in the code

Byte == 0 .. 255

ASSUME MessagesAssumption == Messages \subseteq Seq(Byte)
ASSUME LimitsAssumption == DepthLimit \in Nat /\ NameLimit \in Nat

VARIABLES message,
          start,           \* the offset at which the caller begins
          frames,          \* the calls: where each began, where it is, its name
          result           \* "reading", "ok" or why the read failed

vars == <<message, start, frames, result>>

Frame == [from : Nat, offset : Nat, labels : Seq(Seq(Byte)), size : Nat]
Errors == {"dns name compression loop", "dns name outside message",
           "dns compression pointer truncated", "invalid dns label marker",
           "dns label outside message", "dns name too long"}

(* A call that begins; size is that of its name with the dots.             *)
Call(offset) == [from |-> offset, offset |-> offset, labels |-> << >>, size |-> 0]

Innermost == frames[Len(frames)]
HasBytes(offset, length) == offset + length <= Len(message)

(* The byte at the innermost call's offset, the next to be read.           *)
Marker == message[Innermost.offset + 1]

Init ==
    /\ message \in Messages
    /\ start \in 0 .. Len(message)
    /\ frames = <<Call(start)>>
    /\ result = "reading"

-----------------------------------------------------------------------------
(* One pass of the loop.                                                   *)

Fail(error) ==
    /\ result' = error
    /\ UNCHANGED <<message, start, frames>>

(* The innermost call goes on with this frame.                             *)
Continue(frame) == frames' = [frames EXCEPT ![Len(frames)] = frame]

(* The byte that is there is read, and tells what comes next.              *)
ReadMarker(markers) ==
    /\ result = "reading"
    /\ HasBytes(Innermost.offset, 1)
    /\ Marker \in markers

OutsideMessage ==
    /\ result = "reading"
    /\ ~HasBytes(Innermost.offset, 1)
    /\ Fail("dns name outside message")

(* The name ends, for the innermost call and so for all.                   *)
EndOfName ==
    /\ ReadMarker({0})
    /\ Continue([Innermost EXCEPT !.offset = @ + 1])
    /\ result' = "ok"
    /\ UNCHANGED <<message, start>>

InvalidMarker ==
    /\ ReadMarker(64 .. 191)
    /\ Fail("invalid dns label marker")

(* Fault: the label is taken from its length on, and short of its end.     *)
ReadLabelEarly ==
    /\ ReadMarker(1 .. 63)
    /\ HasBytes(Innermost.offset + 1, Marker)
    /\ Continue([Innermost EXCEPT
          !.offset = @ + 1 + Marker,
          !.labels = Append(@, SubSeq(message, Innermost.offset + 1,
                                               Innermost.offset + Marker))])
    /\ UNCHANGED <<message, start, result>>

(* The label after the marker is added to the name, and with it a dot if   *)
(* the name has labels already; then the name is measured.                 *)
ReadLabel ==
    /\ ReadMarker(1 .. 63)
    /\ LET from == Innermost.offset + 1
           grown == Innermost.size + Marker + (IF Innermost.labels = << >> THEN 0 ELSE 1)
       IN  IF ~HasBytes(from, Marker)
           THEN Fail("dns label outside message")
           ELSE /\ Continue([Innermost EXCEPT
                      !.offset = from + Marker,
                      !.labels = Append(@, SubSeq(message, from + 1, from + Marker)),
                      !.size = grown])
                /\ result' = IF grown > NameLimit THEN "dns name too long" ELSE result
                /\ UNCHANGED <<message, start>>

(* Fault: the pointer moves the offset, and there is no call.              *)
FollowPointerInPlace ==
    /\ ReadMarker(192 .. 255)
    /\ HasBytes(Innermost.offset + 1, 1)
    /\ Continue([Innermost EXCEPT
          !.offset = (Marker % 64) * 256 + message[Innermost.offset + 2]])
    /\ UNCHANGED <<message, start, result>>

(* Fault: when too many calls are under way, what there is is the name.    *)
FollowPointerGivingUp ==
    /\ ReadMarker(192 .. 255)
    /\ HasBytes(Innermost.offset + 1, 1)
    /\ IF Len(frames) > DepthLimit
       THEN Fail("ok")
       ELSE /\ frames' = Append([frames EXCEPT ![Len(frames)].offset = @ + 2],
                                Call((Marker % 64) * 256 + message[Innermost.offset + 2]))
            /\ UNCHANGED <<message, start, result>>

(* A pointer is read and followed by a new call, which refuses to begin    *)
(* when too many calls are under way.                                      *)
FollowPointer ==
    /\ ReadMarker(192 .. 255)
    /\ LET after == Innermost.offset + 1
       IN  IF ~HasBytes(after, 1)
           THEN Fail("dns compression pointer truncated")
           ELSE IF Len(frames) > DepthLimit
           THEN Fail("dns name compression loop")
           ELSE /\ frames' = Append([frames EXCEPT ![Len(frames)].offset = after + 1],
                                    Call((Marker % 64) * 256 + message[after + 1]))
                /\ UNCHANGED <<message, start, result>>

Next == OutsideMessage \/ EndOfName \/ InvalidMarker \/ ReadLabel \/ FollowPointer

(* The loop runs on until it returns: nothing else has to happen for it.   *)
Spec == Init /\ [][Next]_vars /\ WF_vars(Next)

-----------------------------------------------------------------------------
(* What the read answers.                                                  *)

(* The labels of the name: those of each call, one after the other.        *)
Name == FlattenSeq([k \in DOMAIN frames |-> frames[k].labels])

(* The length of the name, with the dots between its labels.               *)
NameSize ==
    IF Name = << >> THEN 0
    ELSE FoldSeq(LAMBDA label, sum : sum + Len(label) + 1, -1, Name)

(* The caller's offset, which only the outermost call moves.               *)
Cursor == frames[1].offset

-----------------------------------------------------------------------------
(* Properties.                                                             *)

(* The values that the variables may have, and what bounds the work that   *)
(* one name can cause: no more calls than DepthLimit and the first one,    *)
(* and none goes on with a name that is too long.                          *)
TypeOK ==
    /\ message \in Messages
    /\ start \in 0 .. Len(message)
    /\ frames \in Seq(Frame)
    /\ Len(frames) \in 1 .. DepthLimit + 1
    /\ result \in Errors \cup {"reading", "ok"}
    /\ result \in {"reading", "ok"} => \A k \in DOMAIN frames : frames[k].size <= NameLimit

(* A name that was read leaves the caller's cursor behind it and inside    *)
(* the message, wherever its pointers lead: in the loops over questions    *)
(* and records the next read starts further on.                            *)
CursorAdvances == result = "ok" => Cursor \in start + 1 .. Len(message)

(* A label that is in the message, behind its own length.                  *)
LabelAt(label, offset) ==
    /\ message[offset] = Len(label)
    /\ offset + Len(label) <= Len(message)
    /\ label = SubSeq(message, offset + 1, offset + Len(label))

(* The labels of a name are in the message, each behind its own length: no *)
(* read goes past the end and no byte is made up.                          *)
LabelsReal ==
    \A k \in DOMAIN frames : \A j \in DOMAIN frames[k].labels :
        \E offset \in DOMAIN message : LabelAt(frames[k].labels[j], offset)

(* Pointers that lead in a circle never give a name: of the calls that     *)
(* made up a name no two began at the same place.                          *)
LoopsRefused ==
    result = "ok" =>
        \A j, k \in DOMAIN frames : frames[j].from = frames[k].from => j = k

(* The read ends, whatever the bytes.                                      *)
Terminates == <>(result # "reading")

(* A name that is too long is refused.                                     *)
NameBounded == result = "ok" => NameSize <= NameLimit
=============================================================================
