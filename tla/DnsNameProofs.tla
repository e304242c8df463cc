---------------------------- MODULE DnsNameProofs ----------------------------
(* What TLAPS proves of DnsName, for every set of messages and all limits.   *)
EXTENDS DnsName, DnsSpelling, WellFoundedInduction, SequenceTheorems, TLAPS

(* Where the caller's cursor is while the read goes on: behind the start as  *)
(* soon as a pointer was followed or the name has ended.                     *)
CursorInside ==
    /\ Cursor \in start .. Len(message)
    /\ Len(frames) > 1 \/ result = "ok" => Cursor > start

IInv == TypeOK /\ LabelsReal /\ CursorInside

(* A byte of a message is a number, and a message has a length.              *)
LEMMA MessageBytes ==
    ASSUME NEW msg \in Messages
    PROVE  /\ msg \in Seq(Byte)
           /\ Len(msg) \in Nat
           /\ DOMAIN msg = 1 .. Len(msg)
           /\ \A k \in 1 .. Len(msg) : msg[k] \in Nat
<1>1. msg \in Seq(Byte)
  BY MessagesAssumption
<1>2. Len(msg) \in Nat /\ DOMAIN msg = 1 .. Len(msg) /\ \A k \in 1 .. Len(msg) : msg[k] \in Byte
  BY <1>1
<1>3. \A b \in Byte : b \in Nat
  BY DEF Byte
<1> QED
  BY <1>1, <1>2, <1>3

(* What the invariant says of the innermost call.                            *)
LEMMA InnermostFrame ==
    ASSUME TypeOK
    PROVE  /\ Len(frames) \in Nat \ {0}
           /\ Len(frames) <= DepthLimit + 1
           /\ Len(frames) \in DOMAIN frames
           /\ 1 \in DOMAIN frames
           /\ Innermost \in Frame
           /\ Innermost.offset \in Nat
           /\ Innermost.size \in Nat
           /\ Innermost.labels \in Seq(Seq(Byte))
<1>1. /\ frames \in Seq(Frame) /\ Len(frames) \in 1 .. DepthLimit + 1
      /\ DOMAIN frames = 1 .. Len(frames) /\ Len(frames) \in Nat
  BY DEF TypeOK
<1>2. /\ Len(frames) # 0 /\ Len(frames) <= DepthLimit + 1
      /\ Len(frames) \in DOMAIN frames /\ 1 \in DOMAIN frames
  BY <1>1, LimitsAssumption
<1>3. Innermost \in Frame
  BY <1>1, <1>2 DEF Innermost
<1> QED
  BY <1>1, <1>2, <1>3 DEF Frame

(* The initial state.                                                        *)
LEMMA InitInvariant == Init => IInv
<1> SUFFICES ASSUME Init PROVE IInv
  OBVIOUS
<1>1. message \in Messages /\ start \in 0 .. Len(message) /\ Len(message) \in Nat
  BY MessageBytes DEF Init
<1>2. Call(start) \in Frame
  BY <1>1 DEF Call, Frame
<1>3. /\ frames = <<Call(start)>> /\ result = "reading"
      /\ Len(frames) = 1 /\ DOMAIN frames = {1} /\ frames[1] = Call(start)
  BY DEF Init
<1>4. TypeOK
  BY <1>1, <1>2, <1>3, LimitsAssumption DEF TypeOK, Call
<1>5. LabelsReal
  BY <1>3 DEF LabelsReal, Call
<1>6. CursorInside
  BY <1>1, <1>3 DEF CursorInside, Cursor, Call
<1> QED
  BY <1>4, <1>5, <1>6 DEF IInv

(* A step that only fails keeps the invariant.                               *)
LEMMA FailKeeps ==
    ASSUME IInv, NEW error \in Errors, Fail(error)
    PROVE  IInv'
<1>1. /\ message' = message /\ start' = start /\ frames' = frames /\ result' = error
      /\ error \notin {"ok", "reading"}
  BY DEF Fail, Errors
<1>2. TypeOK'
  BY <1>1 DEF IInv, TypeOK
<1>3. LabelsReal'
  BY <1>1 DEF IInv, LabelsReal, LabelAt
<1>4. CursorInside'
  BY <1>1 DEF IInv, CursorInside, Cursor
<1> QED
  BY <1>2, <1>3, <1>4 DEF IInv

(* A step in which the innermost call goes on keeps the invariant, if its    *)
(* new frame is one and moves its offset on inside the message.              *)
LEMMA ContinueKeeps ==
    ASSUME IInv, NEW frame \in Frame, Continue(frame),
           message' = message, start' = start,
           result' \in Errors \cup {"reading", "ok"},
           result' \in {"reading", "ok"} => frame.size <= NameLimit,
           result = "reading",
           frame.offset > Innermost.offset, frame.offset <= Len(message),
           \A j \in DOMAIN frame.labels :
               \E offset \in DOMAIN message : LabelAt(frame.labels[j], offset)
    PROVE  IInv'
<1>1. /\ Len(frames) \in Nat \ {0} /\ Len(frames) \in DOMAIN frames /\ 1 \in DOMAIN frames
      /\ frames \in Seq(Frame)
  BY InnermostFrame DEF IInv, TypeOK
<1>2. /\ frames' \in Seq(Frame) /\ Len(frames') = Len(frames)
      /\ DOMAIN frames' = DOMAIN frames
      /\ frames'[Len(frames)] = frame
      /\ \A k \in DOMAIN frames : k # Len(frames) => frames'[k] = frames[k]
  BY <1>1 DEF Continue
<1>3. TypeOK'
  BY <1>1, <1>2 DEF IInv, TypeOK
<1>4. LabelsReal'
  <2> SUFFICES ASSUME NEW k \in DOMAIN frames, NEW j \in DOMAIN frames'[k].labels
               PROVE  \E offset \in DOMAIN message : LabelAt(frames'[k].labels[j], offset)
    BY <1>2 DEF LabelsReal, LabelAt
  <2>1. CASE k = Len(frames)
    BY <1>2, <2>1
  <2>2. CASE k # Len(frames)
    BY <1>2, <2>2 DEF IInv, LabelsReal
  <2> QED
    BY <2>1, <2>2
<1>5. CursorInside'
  <2>1. Len(message) \in Nat /\ start \in Nat /\ frame.offset \in Nat
        /\ Cursor \in start .. Len(message) /\ Innermost.offset \in Nat
    BY MessageBytes, InnermostFrame DEF IInv, TypeOK, CursorInside, Frame
  <2>2. CASE Len(frames) = 1
    BY <1>1, <1>2, <2>1, <2>2 DEF CursorInside, Cursor, Innermost
  <2>3. CASE Len(frames) # 1
    <3>1. frames'[1] = frames[1]
      BY <1>1, <1>2, <2>3
    <3> QED
      BY <1>1, <1>2, <2>1, <2>3, <3>1 DEF IInv, CursorInside, Cursor
  <2> QED
    BY <2>2, <2>3
<1> QED
  BY <1>3, <1>4, <1>5 DEF IInv

(* What stands in a sequence that one element was appended to.               *)
LEMMA BeforeLast ==
    ASSUME NEW S, NEW s \in Seq(S), NEW x, NEW j \in DOMAIN Append(s, x), j # Len(s) + 1
    PROVE  j \in DOMAIN s /\ Append(s, x)[j] = s[j]
<1>1. Len(s) \in Nat /\ DOMAIN s = 1 .. Len(s) /\ DOMAIN Append(s, x) = 1 .. Len(s) + 1
  OBVIOUS
<1>2. j \in 1 .. Len(s)
  BY <1>1
<1> QED
  BY <1>1, <1>2

(* Following a pointer keeps it: the new call has no labels yet.             *)
LEMMA FollowPointerKeeps ==
    ASSUME IInv, FollowPointer
    PROVE  IInv'
<1> DEFINE after == Innermost.offset + 1
           moved == [frames EXCEPT ![Len(frames)].offset = after + 1]
           called == Call((Marker % 64) * 256 + message[after + 1])
<1>1. /\ message \in Messages /\ Len(message) \in Nat /\ start \in Nat
      /\ \A k \in 1 .. Len(message) : message[k] \in Nat
  BY MessageBytes DEF IInv, TypeOK
<1>2. /\ Len(frames) \in Nat \ {0} /\ Len(frames) \in DOMAIN frames /\ 1 \in DOMAIN frames
      /\ frames \in Seq(Frame) /\ Innermost.offset \in Nat /\ DOMAIN frames = 1 .. Len(frames)
      /\ Innermost = frames[Len(frames)] /\ Innermost \in Frame
  BY InnermostFrame DEF IInv, TypeOK, Innermost
<1>3. CASE ~HasBytes(after, 1)
  BY <1>3, FailKeeps DEF FollowPointer, Errors
<1>4. CASE HasBytes(after, 1) /\ Len(frames) > DepthLimit
  BY <1>4, FailKeeps DEF FollowPointer, Errors
<1>5. CASE HasBytes(after, 1) /\ ~(Len(frames) > DepthLimit)
  <2>1. /\ frames' = Append(moved, called)
        /\ message' = message /\ start' = start /\ result' = result /\ result = "reading"
        /\ Marker \in 192 .. 255
    BY <1>5 DEF FollowPointer, ReadMarker
  <2>2. called \in Frame
    <3>1. Innermost.offset \in Nat /\ after + 1 <= Len(message)
      BY <1>2, <1>5 DEF HasBytes
    <3>2. after + 1 \in 1 .. Len(message)
      BY <1>1, <3>1
    <3>3. message[after + 1] \in Nat
      <4> HIDE DEF after
      <4> QED
        BY <1>1, <3>2
    <3>4. Marker % 64 \in Nat
      BY <2>1
    <3>5. (Marker % 64) * 256 + message[after + 1] \in Nat
      BY <3>3, <3>4
    <3> QED
      BY <3>5 DEF Call, Frame
  <2>3. /\ moved \in Seq(Frame) /\ Len(moved) = Len(frames)
        /\ moved[Len(frames)].offset = after + 1
        /\ moved[Len(frames)].labels = Innermost.labels
        /\ moved[Len(frames)].size = Innermost.size
        /\ \A k \in DOMAIN frames : k # Len(frames) => moved[k] = frames[k]
    <3>1. [Innermost EXCEPT !.offset = after + 1] \in Frame
      <4>1. after + 1 \in Nat
        BY <1>2
      <4> QED
        BY <1>2, <4>1 DEF Frame
    <3>2. moved = [frames EXCEPT ![Len(frames)] = [Innermost EXCEPT !.offset = after + 1]]
      BY <1>2
    <3> QED
      BY <1>2, <3>1, <3>2 DEF Frame
  <2> HIDE DEF moved, called
  <2>4. /\ frames' \in Seq(Frame) /\ Len(frames') = Len(frames) + 1
        /\ DOMAIN frames' = 1 .. Len(frames) + 1
        /\ frames'[Len(frames) + 1] = called
        /\ \A k \in DOMAIN frames : frames'[k] = moved[k]
    BY <1>2, <2>1, <2>2, <2>3
  <2>5. called.labels = << >> /\ called.size = 0
    BY DEF called, Call
  <2>6. TypeOK'
    <3>1. \A k \in DOMAIN frames' : frames'[k].size <= NameLimit
      BY <1>2, <2>1, <2>3, <2>4, <2>5, LimitsAssumption DEF IInv, TypeOK
    <3>2. Len(frames') \in 1 .. DepthLimit + 1
      BY <1>2, <1>5, <2>4, LimitsAssumption
    <3> QED
      BY <2>1, <2>4, <3>1, <3>2 DEF IInv, TypeOK
  <2>7. LabelsReal'
    <3> SUFFICES ASSUME NEW k \in DOMAIN frames', NEW j \in DOMAIN frames'[k].labels
                 PROVE  \E offset \in DOMAIN message : LabelAt(frames'[k].labels[j], offset)
      BY <2>1 DEF LabelsReal, LabelAt
    <3>1. CASE k = Len(frames) + 1
      BY <2>4, <2>5, <3>1
    <3>2. CASE k \in DOMAIN frames
      <4>1. frames'[k].labels = frames[k].labels
        BY <1>2, <2>3, <2>4, <3>2
      <4> QED
        BY <3>2, <4>1 DEF IInv, LabelsReal
    <3> QED
      BY <1>2, <2>4, <3>1, <3>2
  <2>8. CursorInside'
    <3>1. /\ frames'[1] = moved[1]
          /\ after + 1 <= Len(message)
          /\ Cursor \in start .. Len(message) /\ (Len(frames) > 1 => Cursor > start)
      BY <1>1, <1>2, <1>5, <2>4 DEF IInv, CursorInside, HasBytes
    <3>2. CASE Len(frames) = 1
      <4>1. Cursor = Innermost.offset /\ frames'[1].offset = after + 1
        BY <1>2, <2>3, <3>1, <3>2 DEF Cursor
      <4> QED
        BY <1>1, <1>2, <2>1, <3>1, <4>1 DEF CursorInside, Cursor
    <3>3. CASE Len(frames) # 1
      <4>1. frames'[1] = frames[1]
        BY <1>2, <2>3, <3>1, <3>3
      <4> QED
        BY <1>1, <1>2, <2>1, <3>1, <3>3, <4>1 DEF CursorInside, Cursor
    <3> QED
      BY <3>2, <3>3
  <2> QED
    BY <2>6, <2>7, <2>8 DEF IInv
<1> QED
  BY <1>3, <1>4, <1>5

(* Reading a label keeps it: what it adds to the name was behind its length. *)
LEMMA ReadLabelKeeps ==
    ASSUME IInv, ReadLabel
    PROVE  IInv'
<1> DEFINE from == Innermost.offset + 1
           label == SubSeq(message, from + 1, from + Marker)
           grown == Innermost.size + Marker + (IF Innermost.labels = << >> THEN 0 ELSE 1)
           frame == [Innermost EXCEPT !.offset = from + Marker,
                                      !.labels = Append(@, label), !.size = grown]
<1>1. /\ message \in Seq(Byte) /\ Len(message) \in Nat /\ start \in Nat
      /\ DOMAIN message = 1 .. Len(message)
  BY MessageBytes DEF IInv, TypeOK
<1>2. /\ Innermost \in Frame /\ Innermost.offset \in Nat /\ Innermost.size \in Nat
      /\ Innermost.labels \in Seq(Seq(Byte)) /\ Len(frames) \in DOMAIN frames
  BY InnermostFrame DEF IInv
<1>3. Marker \in 1 .. 63 /\ result = "reading"
  BY DEF ReadLabel, ReadMarker
<1>4. Marker = message[from]
  BY DEF Marker
<1>5. CASE ~HasBytes(from, Marker)
  BY <1>5, FailKeeps DEF ReadLabel, Errors
<1>6. CASE HasBytes(from, Marker)
  <2>1. /\ Continue(frame)
        /\ result' = IF grown > NameLimit THEN "dns name too long" ELSE result
        /\ message' = message /\ start' = start
    BY <1>6 DEF ReadLabel
  <2>2. /\ from \in DOMAIN message /\ from + Marker <= Len(message)
        /\ label \in Seq(Byte) /\ Len(label) = Marker
    <3>1. from \in Nat \ {0} /\ Marker \in Nat \ {0} /\ from + Marker <= Len(message)
      BY <1>2, <1>3, <1>6 DEF HasBytes
    <3>2. /\ from \in 1 .. Len(message) /\ from + 1 \in 1 .. Len(message)
          /\ from + Marker \in 1 .. Len(message) /\ (from + Marker) - (from + 1) + 1 = Marker
      BY <1>1, <3>1
    <3> HIDE DEF from
    <3>3. label \in Seq(Byte)
      BY <1>1, <3>2
    <3>4. Len(label) = Marker
      BY <1>1, <3>1, <3>2
    <3> QED
      BY <1>1, <3>1, <3>2, <3>3, <3>4
  <2>3. LabelAt(label, from)
    BY <1>4, <2>2 DEF LabelAt
  <2> HIDE DEF label
  <2>4. grown \in Nat /\ from + Marker \in Nat
    <3>1. Innermost.size \in Nat /\ Innermost.offset \in Nat /\ Marker \in Nat
      BY <1>2, <1>3
    <3>2. (IF Innermost.labels = << >> THEN 0 ELSE 1) \in Nat
      OBVIOUS
    <3> QED
      BY <3>1, <3>2
  <2> HIDE DEF grown
  <2>5. /\ frame \in Frame /\ frame.offset = from + Marker /\ frame.size = grown
        /\ frame.labels = Append(Innermost.labels, label)
    <3>1. Append(Innermost.labels, label) \in Seq(Seq(Byte))
      BY <1>2, <2>2
    <3> HIDE DEF from
    <3> QED
      BY <1>2, <2>4, <3>1 DEF Frame
  <2>6. ASSUME NEW j \in DOMAIN frame.labels
        PROVE  \E offset \in DOMAIN message : LabelAt(frame.labels[j], offset)
    <3>1. CASE j = Len(Innermost.labels) + 1
      BY <1>2, <2>2, <2>3, <2>5, <3>1
    <3>2. CASE j # Len(Innermost.labels) + 1
      <4>1. j \in DOMAIN Innermost.labels /\ frame.labels[j] = Innermost.labels[j]
        <5>1. Innermost.labels \in Seq(Seq(Byte))
          BY <1>2
        <5>2. j \in DOMAIN Append(Innermost.labels, label)
          BY <2>5
        <5> HIDE DEF label
        <5>3. /\ j \in DOMAIN Innermost.labels
              /\ Append(Innermost.labels, label)[j] = Innermost.labels[j]
          BY <3>2, <5>1, <5>2, BeforeLast
        <5> QED
          BY <2>5, <5>3
      <4> QED
        BY <1>2, <4>1 DEF IInv, LabelsReal, Innermost
    <3> QED
      BY <3>1, <3>2
  <2> HIDE DEF frame
  <2>7. /\ result' \in Errors \cup {"reading", "ok"}
        /\ result' \in {"reading", "ok"} => frame.size <= NameLimit
    <3>1. CASE grown > NameLimit
      BY <2>1, <3>1 DEF Errors
    <3>2. CASE ~(grown > NameLimit)
      BY <1>3, <2>1, <2>4, <2>5, <3>2, LimitsAssumption
    <3> QED
      BY <3>1, <3>2
  <2>8. frame.offset > Innermost.offset /\ frame.offset <= Len(message)
    BY <1>2, <1>3, <2>2, <2>5
  <2> QED
    BY <1>3, <2>1, <2>5, <2>6, <2>7, <2>8, ContinueKeeps
<1> QED
  BY <1>5, <1>6

(* The end of the name keeps it: the zero that ends it has been read.        *)
LEMMA EndOfNameKeeps ==
    ASSUME IInv, EndOfName
    PROVE  IInv'
<1> DEFINE frame == [Innermost EXCEPT !.offset = @ + 1]
<1>1. /\ Innermost \in Frame /\ Innermost.offset \in Nat /\ Len(frames) \in DOMAIN frames
      /\ Len(message) \in Nat
  BY InnermostFrame, MessageBytes DEF IInv, TypeOK
<1>2. /\ frame \in Frame /\ frame.offset = Innermost.offset + 1
      /\ frame.labels = Innermost.labels /\ frame.size = Innermost.size
  <2>1. Innermost.offset + 1 \in Nat
    BY <1>1
  <2>2. {"offset", "labels", "size"} \subseteq DOMAIN Innermost
    BY <1>1 DEF Frame
  <2> QED
    BY <1>1, <2>1, <2>2 DEF Frame
<1>3. /\ Continue(frame) /\ result' = "ok" /\ result = "reading"
      /\ message' = message /\ start' = start /\ Innermost.offset + 1 <= Len(message)
  BY DEF EndOfName, ReadMarker, HasBytes
<1>4. \A j \in DOMAIN frame.labels :
          \E offset \in DOMAIN message : LabelAt(frame.labels[j], offset)
  BY <1>1, <1>2 DEF IInv, LabelsReal, Innermost
<1>5. frame.size <= NameLimit
  BY <1>1, <1>2, <1>3 DEF IInv, TypeOK, Innermost
<1> HIDE DEF frame
<1>6. frame.offset > Innermost.offset /\ frame.offset <= Len(message)
  BY <1>1, <1>2, <1>3
<1> QED
  BY <1>2, <1>3, <1>4, <1>5, <1>6, ContinueKeeps

(* Every step keeps the invariant.                                           *)
LEMMA NextInvariant == IInv /\ [Next]_vars => IInv'
<1> SUFFICES ASSUME IInv, [Next]_vars PROVE IInv'
  OBVIOUS
<1>1. CASE OutsideMessage
  BY <1>1, FailKeeps DEF OutsideMessage, Errors
<1>2. CASE EndOfName
  BY <1>2, EndOfNameKeeps
<1>3. CASE InvalidMarker
  BY <1>3, FailKeeps DEF InvalidMarker, Errors
<1>4. CASE ReadLabel
  BY <1>4, ReadLabelKeeps
<1>5. CASE FollowPointer
  BY <1>5, FollowPointerKeeps
<1>6. CASE UNCHANGED vars
  BY <1>6 DEF vars, IInv, TypeOK, LabelsReal, LabelAt, CursorInside, Cursor
<1> QED
  BY <1>1, <1>2, <1>3, <1>4, <1>5, <1>6 DEF Next

LEMMA InvariantHolds == Spec => []IInv
BY InitInvariant, NextInvariant, PTL DEF Spec

-----------------------------------------------------------------------------
(* No message makes one name cost more than DepthLimit + 1 calls or a call   *)
(* go on with a name that is too long.                                       *)
THEOREM TypeCorrect == Spec => []TypeOK
<1>1. IInv => TypeOK
  BY DEF IInv
<1> QED
  BY <1>1, InvariantHolds, PTL

(* All labels of a name are in the message, behind their lengths.            *)
THEOREM LabelsAlwaysReal == Spec => []LabelsReal
<1>1. IInv => LabelsReal
  BY DEF IInv
<1> QED
  BY <1>1, InvariantHolds, PTL

(* A name that was read leaves the caller further on inside the message.     *)
THEOREM CursorAlwaysAdvances == Spec => []CursorAdvances
<1>1. IInv => CursorAdvances
  <2> SUFFICES ASSUME IInv, result = "ok" PROVE Cursor \in start + 1 .. Len(message)
    BY DEF CursorAdvances
  <2>1. Cursor \in start .. Len(message) /\ Cursor > start /\ start \in Nat
    BY MessageBytes DEF IInv, TypeOK, CursorInside
  <2> QED
    BY <2>1, MessageBytes DEF IInv, TypeOK
<1> QED
  BY <1>1, InvariantHolds, PTL
-----------------------------------------------------------------------------
(* Why pointers in a circle give no name.  From the place where a call       *)
(* begins its labels lead to one place only, that of the pointer or the zero *)
(* that ends them.  So two calls that began at the same place follow the     *)
(* same pointer, the calls that they make begin at the same place again, and *)
(* so on to the innermost, which would end with a pointer and with a zero.   *)

IsLabel(msg, o) == o < Len(msg) /\ msg[o + 1] \in 1 .. 63
Behind(msg, o)  == o + 1 + msg[o + 1]

(* A set of places that labels neither enter nor leave.                      *)
Saturated(msg, S) == \A o \in Nat : IsLabel(msg, o) => (o \in S <=> Behind(msg, o) \in S)

(* Labels lead from one place to another.                                    *)
Leads(msg, from, to) ==
    \A S \in SUBSET Nat : Saturated(msg, S) => (from \in S <=> to \in S)

LEMMA LabelLength ==
    ASSUME NEW msg \in Messages, NEW o \in Nat, IsLabel(msg, o)
    PROVE  msg[o + 1] \in Nat /\ Behind(msg, o) \in Nat
<1>1. Len(msg) \in Nat /\ \A k \in 1 .. Len(msg) : msg[k] \in Nat
  BY MessageBytes
<1>2. o + 1 \in 1 .. Len(msg)
  BY <1>1 DEF IsLabel
<1>3. msg[o + 1] \in Nat
  BY <1>1, <1>2
<1> QED
  BY <1>3 DEF Behind

LEMMA NoLabel ==
    ASSUME NEW msg, NEW o, msg[o + 1] \in {0} \cup 192 .. 255
    PROVE  ~IsLabel(msg, o)
<1>1. \A x \in {0} \cup 192 .. 255 : x \notin 1 .. 63
  OBVIOUS
<1> QED
  BY <1>1, Zenon DEF IsLabel

(* The place where labels end is the only one.                               *)
LEMMA OneEnd ==
    ASSUME NEW msg \in Messages, NEW from \in Nat, NEW p \in Nat, NEW q \in Nat,
           ~IsLabel(msg, p), ~IsLabel(msg, q), Leads(msg, from, p), Leads(msg, from, q)
    PROVE  p = q
<1> DEFINE Entered(B) == p \in B /\ \A o \in Nat : IsLabel(msg, o) /\ Behind(msg, o) \in B => o \in B
           S == {o \in Nat : \A B \in SUBSET Nat : Entered(B) => o \in B}
<1>1. \A o \in Nat : IsLabel(msg, o) => Behind(msg, o) \in Nat
  BY LabelLength
<1>2. S \in SUBSET Nat /\ Entered(S)
  <2>1. p \in S
    OBVIOUS
  <2>2. ASSUME NEW o \in Nat, IsLabel(msg, o), Behind(msg, o) \in S
        PROVE  o \in S
    BY <2>2
  <2> HIDE DEF S
  <2>3. S \in SUBSET Nat
    BY DEF S
  <2> QED
    BY <2>1, <2>2, <2>3
<1>3. ASSUME NEW B \in SUBSET Nat, Entered(B)
      PROVE  S \subseteq B
  BY <1>3
<1> HIDE DEF S
(* The places that lead to p, without those that lead past it: they are all. *)
<1>4. Saturated(msg, S)
  <2> DEFINE T == {o \in S : IsLabel(msg, o) => Behind(msg, o) \in S}
  <2>1. T \in SUBSET Nat /\ p \in T
    BY <1>2
  <2>2. ASSUME NEW o \in Nat, IsLabel(msg, o), Behind(msg, o) \in T
        PROVE  o \in T
    <3>1. Behind(msg, o) \in S
      BY <2>2
    <3>2. o \in S
      BY <1>2, <2>2, <3>1
    <3> QED
      BY <3>1, <3>2
  <2> HIDE DEF T
  <2>3. Entered(T)
    BY <2>1, <2>2
  <2>4. S \subseteq T
    BY <1>3, <2>1, <2>3
  <2>5. ASSUME NEW o \in Nat, IsLabel(msg, o)
        PROVE  o \in S <=> Behind(msg, o) \in S
    <3>1. o \in S => o \in T
      BY <2>4
    <3>2. o \in S => Behind(msg, o) \in S
      BY <2>5, <3>1 DEF T
    <3>3. Behind(msg, o) \in S => o \in S
      BY <1>2, <2>5
    <3> QED
      BY <3>2, <3>3
  <2> QED
    BY <2>5 DEF Saturated
<1>5. q \in S
  BY <1>2, <1>4 DEF Leads
(* And no other place at which labels end.                                   *)
<1>6. ASSUME q # p PROVE FALSE
  <2> DEFINE U == S \ {q}
  <2>1. U \in SUBSET Nat /\ p \in U
    BY <1>2, <1>6
  <2>2. ASSUME NEW o \in Nat, IsLabel(msg, o), Behind(msg, o) \in U
        PROVE  o \in U
    <3>1. o \in S
      BY <1>2, <2>2
    <3>2. o # q
      BY <2>2
    <3> QED
      BY <3>1, <3>2
  <2> HIDE DEF U
  <2>3. Entered(U)
    BY <2>1, <2>2
  <2>4. S \subseteq U
    BY <1>3, <2>1, <2>3
  <2> QED
    BY <1>5, <2>4 DEF U
<1> QED
  BY <1>6

(* Labels lead on from a place behind one.                                   *)
LEMMA LeadsOn ==
    ASSUME NEW msg, NEW from, NEW o \in Nat, Leads(msg, from, o), IsLabel(msg, o)
    PROVE  Leads(msg, from, Behind(msg, o))
BY DEF Leads, Saturated

(* How far a call has read: up to its pointer if it made a call, up to the   *)
(* zero if the name has ended.                                               *)
Place(calls, answer, k) ==
    calls[k].offset - IF k < Len(calls) THEN 2 ELSE IF answer = "ok" THEN 1 ELSE 0

Target(msg, o) == (msg[o + 1] % 64) * 256 + msg[o + 2]

Traced ==
    /\ \A k \in DOMAIN frames :
          /\ Place(frames, result, k) \in Nat
          /\ Leads(message, frames[k].from, Place(frames, result, k))
    /\ \A k \in DOMAIN frames : k < Len(frames) =>
          /\ message[Place(frames, result, k) + 1] \in 192 .. 255
          /\ frames[k + 1].from = Target(message, Place(frames, result, k))
    /\ result = "ok" => message[Place(frames, result, Len(frames)) + 1] = 0

(* A step of the innermost call leaves every call traced.                    *)
LEMMA TracedOn ==
    ASSUME TypeOK, Traced, NEW frame, Continue(frame), message' = message,
           result = "reading", frame.offset \in Nat, frame.from = Innermost.from,
           NEW place \in Nat, Leads(message, Innermost.from, place),
           place = frame.offset - IF result' = "ok" THEN 1 ELSE 0,
           result' = "ok" => message[place + 1] = 0
    PROVE  Traced'
<1> DEFINE n == Len(frames)
<1>1. /\ n \in Nat \ {0} /\ n \in DOMAIN frames /\ frames \in Seq(Frame) /\ DOMAIN frames = 1 .. n
      /\ frames \in Seq(Frame \cup {frame})
      /\ \A k \in 1 .. n : frames[k].offset \in Nat
  <2>1. /\ n \in Nat \ {0} /\ n \in DOMAIN frames /\ frames \in Seq(Frame)
        /\ DOMAIN frames = 1 .. n
    BY InnermostFrame DEF TypeOK
  <2>2. frames \in Seq(Frame \cup {frame})
    BY <2>1
  <2>3. \A k \in 1 .. n : frames[k] \in Frame
    BY <2>1
  <2>4. \A k \in 1 .. n : frames[k].offset \in Nat
    BY <2>3 DEF Frame
  <2> QED
    BY <2>1, <2>2, <2>4
<1>2. /\ Len(frames') = n /\ DOMAIN frames' = 1 .. n /\ frames'[n] = frame
      /\ \A k \in 1 .. n : k # n => frames'[k] = frames[k]
  <2>1. frames' = [frames EXCEPT ![n] = frame] /\ frame \in Frame \cup {frame}
    BY DEF Continue
  <2>2. frames' \in Seq(Frame \cup {frame}) /\ Len(frames') = n
    BY <1>1, <2>1, ExceptSeq
  <2> QED
    BY <1>1, <2>1, <2>2
<1>0. Len(frames) = n
  OBVIOUS
<1> HIDE DEF n
<1>3. Place(frames', result', n) = place
  <2>1. ~(n < Len(frames'))
    BY <1>1, <1>2
  <2> QED
    BY <1>2, <2>1 DEF Place
<1>4. \A k \in 1 .. n : k # n => Place(frames', result', k) = Place(frames, result, k)
  <2> SUFFICES ASSUME NEW k \in 1 .. n, k # n
               PROVE  Place(frames', result', k) = Place(frames, result, k)
    OBVIOUS
  <2>1. k < Len(frames') /\ k < Len(frames)
    BY <1>1, <1>2, <1>0
  <2> QED
    BY <1>2, <2>1 DEF Place
<1>5. ASSUME NEW k \in 1 .. n
      PROVE  /\ Place(frames', result', k) \in Nat
             /\ Leads(message, frames'[k].from, Place(frames', result', k))
  <2>1. CASE k = n
    BY <1>2, <1>3, <2>1
  <2>2. CASE k # n
    BY <1>1, <1>2, <1>4, <2>2 DEF Traced
  <2> QED
    BY <2>1, <2>2
<1>6. ASSUME NEW k \in 1 .. n, k < n
      PROVE  /\ message[Place(frames', result', k) + 1] \in 192 .. 255
             /\ frames'[k + 1].from = Target(message, Place(frames', result', k))
  <2>1. /\ message[Place(frames, result, k) + 1] \in 192 .. 255
        /\ frames[k + 1].from = Target(message, Place(frames, result, k))
    BY <1>1, <1>6 DEF Traced, n
  <2>2. frames'[k + 1].from = frames[k + 1].from
    <3>1. CASE k + 1 = n
      BY <1>1, <1>2, <3>1 DEF Innermost, n
    <3>2. CASE k + 1 # n
      <4>1. k + 1 \in 1 .. n
        BY <1>1, <1>6
      <4> QED
        BY <1>2, <3>2, <4>1
    <3> QED
      BY <3>1, <3>2
  <2>3. Place(frames', result', k) = Place(frames, result, k)
    BY <1>1, <1>4, <1>6
  <2> QED
    BY <2>1, <2>2, <2>3
<1>7. result' = "ok" => message[Place(frames', result', n) + 1] = 0
  BY <1>3
<1>8. DOMAIN frames' = 1 .. n /\ Len(frames') = n /\ message' = message
  BY <1>1, <1>2
<1>9. \A k \in DOMAIN frames' :
         /\ Place(frames', result', k) \in Nat
         /\ Leads(message', frames'[k].from, Place(frames', result', k))
  BY <1>5, <1>8
<1>10. \A k \in DOMAIN frames' : k < Len(frames') =>
          /\ message'[Place(frames', result', k) + 1] \in 192 .. 255
          /\ frames'[k + 1].from = Target(message', Place(frames', result', k))
  BY <1>6, <1>8
<1>11. result' = "ok" => message'[Place(frames', result', Len(frames')) + 1] = 0
  BY <1>7, <1>8
<1> QED
  BY <1>9, <1>10, <1>11, Zenon DEF Traced

LEMMA FailTraced ==
    ASSUME Traced, result = "reading", NEW error \in Errors, Fail(error)
    PROVE  Traced'
<1>1. message' = message /\ frames' = frames /\ result' # "ok" /\ result # "ok"
  BY DEF Fail, Errors
<1>2. \A k : Place(frames', result', k) = Place(frames, result, k)
  BY <1>1 DEF Place
<1> QED
  BY <1>1, <1>2 DEF Traced

LEMMA NextTraced ==
    ASSUME TypeOK, Traced, [Next]_vars
    PROVE  Traced'
<1> DEFINE n == Len(frames)
<1>1. /\ n \in Nat \ {0} /\ n \in DOMAIN frames /\ frames \in Seq(Frame) /\ DOMAIN frames = 1 .. n
      /\ Innermost = frames[n] /\ Innermost \in Frame /\ Innermost.offset \in Nat
  BY InnermostFrame DEF TypeOK, Innermost
<1>2. result = "reading" => /\ Place(frames, result, n) = Innermost.offset
                            /\ Leads(message, Innermost.from, Innermost.offset)
  <2>1. result = "reading" => Place(frames, result, n) = Innermost.offset
    BY <1>1 DEF Place
  <2> QED
    BY <1>1, <2>1 DEF Traced
<1>3. \A k \in 1 .. Len(message) : message[k] \in Nat
  BY MessageBytes DEF TypeOK
<1>4. CASE OutsideMessage
  BY <1>4, FailTraced DEF OutsideMessage, Errors
<1>5. CASE InvalidMarker
  BY <1>5, FailTraced DEF InvalidMarker, ReadMarker, Errors
<1>6. CASE EndOfName
  <2> DEFINE frame == [Innermost EXCEPT !.offset = @ + 1]
  <2>1. /\ Continue(frame) /\ message' = message /\ result = "reading" /\ result' = "ok"
        /\ message[Innermost.offset + 1] = 0
    BY <1>6 DEF EndOfName, ReadMarker, Marker
  <2>2. /\ frame.from = Innermost.from /\ frame.offset \in Nat
        /\ Innermost.offset = frame.offset - 1
    BY <1>1 DEF Frame
  <2> HIDE DEF frame
  <2> QED
    BY <1>1, <1>2, <2>1, <2>2, TracedOn
<1>7. CASE ReadLabel
  <2> DEFINE from == Innermost.offset + 1
             label == SubSeq(message, from + 1, from + Marker)
             grown == Innermost.size + Marker + (IF Innermost.labels = << >> THEN 0 ELSE 1)
             frame == [Innermost EXCEPT !.offset = from + Marker,
                                        !.labels = Append(@, label), !.size = grown]
  <2>1. Marker \in 1 .. 63 /\ result = "reading" /\ HasBytes(Innermost.offset, 1)
    BY <1>7 DEF ReadLabel, ReadMarker
  <2>2. CASE ~HasBytes(from, Marker)
    BY <1>7, <2>1, <2>2, FailTraced DEF ReadLabel, Errors
  <2>3. CASE HasBytes(from, Marker)
    <3>1. /\ Continue(frame) /\ message' = message /\ result' # "ok"
      BY <1>7, <2>1, <2>3 DEF ReadLabel
    <3>2. frame.from = Innermost.from /\ frame.offset = from + Marker
      <4> HIDE DEF label, grown, from
      <4> QED
        BY <1>1 DEF Frame
    <3>3. IsLabel(message, Innermost.offset) /\ Behind(message, Innermost.offset) = from + Marker
      <4>1. Len(message) \in Nat
        BY MessageBytes DEF TypeOK
      <4>2. Innermost.offset < Len(message)
        BY <1>1, <2>1, <4>1 DEF HasBytes
      <4> QED
        BY <2>1, <4>2 DEF IsLabel, Behind, Marker
    <3>4. Leads(message, Innermost.from, from + Marker)
      BY <1>1, <1>2, <2>1, <3>3, LeadsOn
    <3>5. from + Marker \in Nat
      BY <1>1, <2>1
    <3>6. from + Marker = frame.offset - 0
      BY <3>2, <3>5
    <3> HIDE DEF frame, from
    <3> QED
      BY <2>1, <3>1, <3>2, <3>4, <3>5, <3>6, TracedOn
  <2> QED
    BY <2>2, <2>3
<1>8. CASE FollowPointer
  <2> DEFINE after == Innermost.offset + 1
             moved == [frames EXCEPT ![Len(frames)].offset = after + 1]
             called == Call((Marker % 64) * 256 + message[after + 1])
  <2>1. result = "reading" /\ Marker \in 192 .. 255 /\ HasBytes(Innermost.offset, 1)
    BY <1>8 DEF FollowPointer, ReadMarker
  <2>2. CASE ~HasBytes(after, 1) \/ Len(frames) > DepthLimit
    BY <1>8, <2>1, <2>2, FailTraced DEF FollowPointer, Errors
  <2>3. CASE HasBytes(after, 1) /\ ~(Len(frames) > DepthLimit)
    <3>1. frames' = Append(moved, called) /\ message' = message /\ result' = "reading"
      BY <1>8, <2>1, <2>3 DEF FollowPointer
    <3>2. after + 1 \in Nat /\ after + 1 = Innermost.offset + 2
          /\ after + 1 \in 1 .. Len(message)
      <4>1. Len(message) \in Nat
        BY MessageBytes DEF TypeOK
      <4> QED
        BY <1>1, <2>3, <4>1 DEF HasBytes
    <3>3. /\ moved \in Seq(Frame) /\ Len(moved) = n
          /\ moved[n].offset = Innermost.offset + 2 /\ moved[n].from = Innermost.from
          /\ \A k \in 1 .. n : k # n => moved[k] = frames[k]
      <4>1. [Innermost EXCEPT !.offset = after + 1] \in Frame
        BY <1>1, <3>2 DEF Frame
      <4>2. moved = [frames EXCEPT ![n] = [Innermost EXCEPT !.offset = after + 1]]
        BY <1>1
      <4> QED
        BY <1>1, <3>2, <4>1, <4>2 DEF Frame
    <3>4. called.from = Target(message, Innermost.offset) /\ called \in Frame
          /\ called.offset = called.from /\ called.from \in Nat
      <4>1. message[after + 1] \in Nat /\ message[Innermost.offset + 1] = Marker
        <5> HIDE DEF after
        <5> QED
          BY <1>3, <3>2 DEF Marker
      <4>2. (Marker % 64) * 256 + message[after + 1] \in Nat
        <5>1. Marker % 64 \in Nat
          BY <2>1
        <5> QED
          BY <4>1, <5>1
      <4>3. (Marker % 64) * 256 + message[after + 1] = Target(message, Innermost.offset)
        BY <3>2, <4>1 DEF Target
      <4> QED
        BY <4>2, <4>3 DEF Call, Frame
    <3>0. Len(frames) = n
      OBVIOUS
    <3> HIDE DEF moved, called, n
    <3>5. /\ Len(frames') = n + 1 /\ DOMAIN frames' = 1 .. n + 1
          /\ frames'[n + 1] = called
          /\ \A k \in 1 .. n : frames'[k] = moved[k]
      <4>1. moved \in Seq(Frame) /\ called \in Frame /\ Len(moved) = n /\ DOMAIN moved = 1 .. n
        BY <1>1, <3>3, <3>4
      <4> QED
        BY <1>1, <3>1, <4>1, AppendProperties
    <3> HIDE DEF after
    <3>6. Place(frames', result', n + 1) = called.from
      <4>1. ~(n + 1 < Len(frames'))
        BY <1>1, <3>5
      <4> QED
        BY <3>1, <3>4, <3>5, <4>1 DEF Place
    <3>7. /\ Place(frames', result', n) = Innermost.offset
          /\ Place(frames, result, n) = Innermost.offset
      <4>1. n < Len(frames') /\ frames'[n].offset = Innermost.offset + 2
        BY <1>1, <3>3, <3>5
      <4>2. Place(frames', result', n) = (Innermost.offset + 2) - 2
        BY <4>1 DEF Place
      <4> QED
        BY <1>1, <1>2, <2>1, <4>2
    <3>8. \A k \in 1 .. n : k # n => Place(frames', result', k) = Place(frames, result, k)
      <4> SUFFICES ASSUME NEW k \in 1 .. n, k # n
                   PROVE  Place(frames', result', k) = Place(frames, result, k)
        OBVIOUS
      <4>1. k < Len(frames') /\ k < Len(frames)
        BY <1>1, <3>0, <3>5
      <4>2. frames'[k] = frames[k]
        BY <3>3, <3>5
      <4> QED
        BY <4>1, <4>2 DEF Place
    <3>9. \A k \in 1 .. n : /\ Place(frames', result', k) = Place(frames, result, k)
                            /\ frames'[k].from = frames[k].from
      BY <1>1, <3>3, <3>5, <3>7, <3>8
    <3>10. ASSUME NEW k \in DOMAIN frames'
           PROVE  /\ Place(frames', result', k) \in Nat
                  /\ Leads(message, frames'[k].from, Place(frames', result', k))
      <4>1. CASE k = n + 1
        BY <3>4, <3>5, <3>6, <4>1 DEF Leads
      <4>2. CASE k \in 1 .. n
        BY <1>1, <3>9, <4>2 DEF Traced
      <4> QED
        BY <1>1, <3>5, <4>1, <4>2
    <3>11. ASSUME NEW k \in DOMAIN frames', k < n + 1
           PROVE  /\ message[Place(frames', result', k) + 1] \in 192 .. 255
                  /\ frames'[k + 1].from = Target(message, Place(frames', result', k))
      <4>1. CASE k = n
        BY <1>1, <2>1, <3>4, <3>5, <3>7, <4>1 DEF Marker
      <4>2. CASE k # n
        <5>1. k \in 1 .. n /\ k + 1 \in 1 .. n /\ k < n
          BY <1>1, <3>5, <3>11, <4>2
        <5>2. /\ message[Place(frames, result, k) + 1] \in 192 .. 255
              /\ frames[k + 1].from = Target(message, Place(frames, result, k))
          BY <1>1, <5>1 DEF Traced, n
        <5> QED
          BY <3>9, <5>1, <5>2
      <4> QED
        BY <4>1, <4>2
    <3> QED
      BY <3>1, <3>5, <3>10, <3>11 DEF Traced
  <2> QED
    BY <2>2, <2>3
<1>9. CASE UNCHANGED vars
  <2>1. \A k : Place(frames', result', k) = Place(frames, result, k)
    BY <1>9 DEF vars, Place
  <2> QED
    BY <1>9, <2>1 DEF vars, Traced
<1> QED
  BY <1>4, <1>5, <1>6, <1>7, <1>8, <1>9 DEF Next

(* A nonempty set of numbers up to n has a greatest.                         *)
LEMMA GreatestExists ==
    ASSUME NEW n \in Nat, NEW S \in SUBSET (0 .. n), S # {}
    PROVE  \E g \in S : \A s \in S : s <= g
<1> DEFINE below == {n - s : s \in S}
           less  == OpToRel(<, Nat)
<1>1. below \subseteq Nat /\ below # {}
  <2>1. ASSUME NEW s \in S PROVE n - s \in Nat
    <3>1. s \in Int /\ s <= n
      OBVIOUS
    <3> QED
      BY <3>1
  <2> QED
    BY <2>1
<1>2. PICK m \in below : \A k \in below : ~(<<k, m>> \in less)
  <2> HIDE DEF below, less
  <2>1. IsWellFoundedOn(less, Nat)
    BY NatLessThanWellFounded DEF less
  <2> QED
    BY <1>1, <2>1, WFMin
<1>3. ASSUME NEW k \in below PROVE m <= k
  <2> HIDE DEF below, less
  <2>1. m \in Nat /\ k \in Nat
    BY <1>1
  <2>2. less = {e \in Nat \X Nat : e[1] < e[2]}
    BY DEF OpToRel, less
  <2>3. k < m => <<k, m>> \in less
    BY <2>1, <2>2
  <2> QED
    BY <1>2, <2>1, <2>3
<1>4. PICK g \in S : m = n - g
  OBVIOUS
<1>5. ASSUME NEW s \in S PROVE s <= g
  <2>1. n - g <= n - s
    BY <1>3, <1>4
  <2>2. n \in Int /\ s \in Int /\ g \in Int
    OBVIOUS
  <2> QED
    BY <2>1, <2>2
<1> QED
  BY <1>5

LEMMA TracedRefusesLoops ==
    ASSUME TypeOK, Traced
    PROVE  LoopsRefused
<1> DEFINE n == Len(frames)
           Again == {k \in 1 .. n : \E j \in 1 .. n : j < k /\ frames[j].from = frames[k].from}
<1> SUFFICES ASSUME result = "ok", Again # {} PROVE FALSE
  <2>1. DOMAIN frames = 1 .. n /\ n \in Nat
    BY DEF TypeOK
  <2> SUFFICES ASSUME result = "ok", NEW j \in 1 .. n, NEW k \in 1 .. n,
                      frames[j].from = frames[k].from, j # k
               PROVE  FALSE
    BY <2>1 DEF LoopsRefused
  <2>2. j < k \/ k < j
    BY <2>1
  <2>3. j \in Again \/ k \in Again
    BY <2>2
  <2> QED
    BY <2>3
<1>1. /\ n \in Nat /\ DOMAIN frames = 1 .. n /\ frames \in Seq(Frame) /\ message \in Messages
  BY DEF TypeOK
<1>2. PICK k \in Again : \A s \in Again : s <= k
  <2>1. Again \in SUBSET (0 .. n)
    BY <1>1
  <2> HIDE DEF Again, n
  <2> QED
    BY <1>1, <2>1, GreatestExists
<1>3. PICK j \in 1 .. n : j < k /\ frames[j].from = frames[k].from
  OBVIOUS
<1>4. k \in 1 .. n /\ j + 1 \in 1 .. n /\ j < n
  BY <1>1, <1>3
<1> HIDE DEF n
<1>5. /\ Place(frames, result, j) \in Nat /\ Place(frames, result, k) \in Nat
      /\ frames[k].from \in Nat
      /\ Leads(message, frames[k].from, Place(frames, result, j))
      /\ Leads(message, frames[k].from, Place(frames, result, k))
  <2>1. frames[k] \in Frame
    BY <1>1, <1>4
  <2> QED
    BY <1>1, <1>3, <1>4, <2>1 DEF Traced, Frame
<1>6. /\ message[Place(frames, result, j) + 1] \in 192 .. 255
      /\ frames[j + 1].from = Target(message, Place(frames, result, j))
  BY <1>1, <1>4 DEF Traced, n
<1>7. k < n => /\ message[Place(frames, result, k) + 1] \in 192 .. 255
               /\ frames[k + 1].from = Target(message, Place(frames, result, k))
  BY <1>1, <1>4 DEF Traced, n
<1>8. k = n => message[Place(frames, result, k) + 1] = 0
  BY DEF Traced, n
<1>9. k < n \/ k = n
  BY <1>1, <1>4
<1>10. /\ ~IsLabel(message, Place(frames, result, j))
       /\ ~IsLabel(message, Place(frames, result, k))
  BY <1>6, <1>7, <1>8, <1>9, NoLabel
<1>11. Place(frames, result, j) = Place(frames, result, k)
  BY <1>1, <1>5, <1>10, OneEnd
<1>12. CASE k = n
  BY <1>6, <1>8, <1>11, <1>12
<1>13. CASE k < n
  <2>1. frames[j + 1].from = frames[k + 1].from
    BY <1>6, <1>7, <1>11, <1>13
  <2>2. k + 1 \in 1 .. n /\ j + 1 < k + 1 /\ ~(k + 1 <= k)
    BY <1>1, <1>3, <1>4, <1>13
  <2>3. k + 1 \in Again
    BY <1>4, <2>1, <2>2
  <2> HIDE DEF Again
  <2> QED
    BY <1>2, <2>2, <2>3
<1> QED
  BY <1>9, <1>12, <1>13

(* Of the calls that made up a name no two began at the same place.          *)
THEOREM LoopsAlwaysRefused == Spec => []LoopsRefused
<1>1. Init => Traced
  <2> SUFFICES ASSUME Init PROVE Traced
    OBVIOUS
  <2>1. /\ Len(frames) = 1 /\ DOMAIN frames = {1} /\ frames[1] = Call(start)
        /\ result = "reading" /\ start \in Nat
    <3>1. message \in Messages
      BY DEF Init
    <3>2. Len(message) \in Nat
      BY <3>1, MessageBytes
    <3> QED
      BY <3>2 DEF Init
  <2>2. Place(frames, result, 1) = start /\ frames[1].from = start
    BY <2>1 DEF Place, Call
  <2> QED
    BY <2>1, <2>2 DEF Traced, Leads
<1>2. TypeOK /\ Traced /\ [Next]_vars => Traced'
  BY NextTraced
<1>3. TypeOK /\ Traced => LoopsRefused
  BY TracedRefusesLoops
<1> QED
  BY <1>1, <1>2, <1>3, TypeCorrect, PTL DEF Spec

-----------------------------------------------------------------------------
(* Lists of labels, one after the other.                                     *)

(* A set of numbers that has 0, and with a number the next one, has them all. *)
LEMMA Climb ==
    ASSUME NEW n \in Nat, NEW S \in SUBSET (0 .. n), 0 \in S,
           \A k \in S : k < n => k + 1 \in S
    PROVE  S = 0 .. n
<1> DEFINE below == {k \in 0 .. n : \A j \in 0 .. k : j \in S}
<1>1. below \in SUBSET (0 .. n) /\ below # {}
  <2>1. 0 \in below
    OBVIOUS
  <2> QED
    BY <2>1
<1>2. PICK g \in below : \A k \in below : k <= g
  <2> HIDE DEF below
  <2> QED
    BY <1>1, GreatestExists
<1>3. g \in Nat /\ g <= n /\ g \in S /\ \A j \in 0 .. g : j \in S
  OBVIOUS
<1>4. ASSUME g < n PROVE FALSE
  <2>1. g + 1 \in S /\ g + 1 \in 0 .. n
    BY <1>3, <1>4
  <2>2. \A j \in 0 .. g + 1 : j \in 0 .. g \/ j = g + 1
    BY <1>3
  <2>3. g + 1 \in below
    BY <1>3, <2>1, <2>2
  <2> QED
    BY <1>2, <1>3, <2>3
<1>5. g = n
  BY <1>3, <1>4
<1> QED
  BY <1>3, <1>5

Flattening(seqs, n, g) == g = [i \in 1 .. n |-> IF i = 1 THEN seqs[i] ELSE g[i - 1] \o seqs[i]]

LEMMA FlatteningExists ==
    ASSUME NEW seqs, NEW n \in Nat
    PROVE  \E g : Flattening(seqs, n, g)
<1> DEFINE S == {m \in 0 .. n : \E g : Flattening(seqs, m, g)}
<1>1. 0 \in S
  <2> DEFINE g == [i \in 1 .. 0 |-> i]
  <2>1. g = [i \in 1 .. 0 |-> IF i = 1 THEN seqs[i] ELSE g[i - 1] \o seqs[i]]
    OBVIOUS
  <2>2. Flattening(seqs, 0, g)
    BY <2>1 DEF Flattening
  <2> QED
    BY <2>2
<1>2. ASSUME NEW m \in S, m < n
      PROVE  m + 1 \in S
  <2>1. m \in Nat /\ m + 1 \in 0 .. n
    BY <1>2
  <2>2. PICK g : Flattening(seqs, m, g)
    BY <1>2
  <2> DEFINE last == IF m + 1 = 1 THEN seqs[m + 1] ELSE g[m] \o seqs[m + 1]
             h == [i \in 1 .. m + 1 |-> IF i = m + 1 THEN last ELSE g[i]]
  <2>3. \A i \in 1 .. m : g[i] = IF i = 1 THEN seqs[i] ELSE g[i - 1] \o seqs[i]
    BY <2>2 DEF Flattening
  <2> HIDE DEF last
  <2>0. m + 1 \in 1 .. m + 1 /\ \A i \in 1 .. m : i \in 1 .. m + 1 /\ i # m + 1
    BY <2>1
  <2>4. /\ h = [i \in 1 .. m + 1 |-> h[i]]
        /\ h[m + 1] = last
        /\ \A i \in 1 .. m : h[i] = g[i]
    BY <2>0
  <2> HIDE DEF h
  <2>5. ASSUME NEW i \in 1 .. m + 1
        PROVE  h[i] = IF i = 1 THEN seqs[i] ELSE h[i - 1] \o seqs[i]
    <3>1. CASE i = m + 1
      <4>1. m + 1 # 1 => m \in 1 .. m /\ i - 1 = m
        BY <2>1, <3>1
      <4>2. m + 1 # 1 => h[i - 1] = g[m]
        BY <2>4, <4>1
      <4> QED
        BY <2>4, <3>1, <4>2 DEF last
    <3>2. CASE i # m + 1
      <4>1. i \in 1 .. m /\ (i # 1 => i - 1 \in 1 .. m)
        BY <2>1, <3>2
      <4> QED
        BY <2>3, <2>4, <4>1
    <3> QED
      BY <3>1, <3>2
  <2>6. Flattening(seqs, m + 1, h)
    BY <2>4, <2>5 DEF Flattening
  <2> QED
    BY <2>1, <2>6
<1>3. S = 0 .. n
  <2> HIDE DEF S
  <2>1. S \in SUBSET (0 .. n)
    BY DEF S
  <2> QED
    BY <1>1, <1>2, <2>1, Climb
<1> QED
  BY <1>3

(* Lists that begin the same way are flattened the same way so far.          *)
LEMMA FlatteningAgrees ==
    ASSUME NEW n \in Nat, NEW m \in Nat, n <= m, NEW s, NEW t, NEW g, NEW h,
           Flattening(s, n, g), Flattening(t, m, h), \A i \in 1 .. n : s[i] = t[i]
    PROVE  \A i \in 1 .. n : g[i] = h[i]
<1> DEFINE S == {k \in 0 .. n : k # 0 => g[k] = h[k]}
<1>1. /\ \A i \in 1 .. n : g[i] = IF i = 1 THEN s[i] ELSE g[i - 1] \o s[i]
      /\ \A i \in 1 .. m : h[i] = IF i = 1 THEN t[i] ELSE h[i - 1] \o t[i]
  BY DEF Flattening
<1>2. ASSUME NEW k \in S, k < n
      PROVE  k + 1 \in S
  <2>1. k \in Nat /\ k + 1 \in 1 .. n /\ k + 1 \in 1 .. m /\ (k + 1) - 1 = k
    BY <1>2
  <2>2. /\ g[k + 1] = IF k + 1 = 1 THEN s[k + 1] ELSE g[(k + 1) - 1] \o s[k + 1]
        /\ h[k + 1] = IF k + 1 = 1 THEN t[k + 1] ELSE h[(k + 1) - 1] \o t[k + 1]
    BY <1>1, <2>1
  <2>3. k + 1 # 1 => g[(k + 1) - 1] = h[(k + 1) - 1]
    BY <1>2, <2>1
  <2>4. g[k + 1] = h[k + 1]
    BY <2>1, <2>2, <2>3
  <2> QED
    BY <2>1, <2>4
<1>3. S = 0 .. n
  <2> HIDE DEF S
  <2>1. S \in SUBSET (0 .. n) /\ 0 \in S
    BY DEF S
  <2> QED
    BY <1>2, <2>1, Climb
<1> QED
  BY <1>3

LEMMA FlattenSeqIs ==
    ASSUME NEW seqs, Len(seqs) \in Nat \ {0}
    PROVE  \E g : Flattening(seqs, Len(seqs), g) /\ FlattenSeq(seqs) = g[Len(seqs)]
<1> DEFINE Rule(g) == [i \in 1 .. Len(seqs) |-> IF i = 1 THEN seqs[i] ELSE g[i - 1] \o seqs[i]]
           E == CHOOSE g : g = Rule(g)
<1>1. FlattenSeq(seqs) = E[Len(seqs)]
  BY DEF FlattenSeq
<1>2. PICK g : Flattening(seqs, Len(seqs), g)
  BY FlatteningExists
<1>3. g = Rule(g)
  BY <1>2 DEF Flattening
<1>4. E = Rule(E)
  BY <1>3
<1> HIDE DEF E
<1>5. Flattening(seqs, Len(seqs), E)
  BY <1>4 DEF Flattening
<1> QED
  BY <1>1, <1>5

(* One more list at the end is one more part at the end.                     *)
LEMMA FlattenAppend ==
    ASSUME NEW S, NEW seqs \in Seq(Seq(S)), NEW last \in Seq(S)
    PROVE  FlattenSeq(Append(seqs, last)) =
               IF seqs = << >> THEN last ELSE FlattenSeq(seqs) \o last
<1> DEFINE n == Len(seqs)
           longer == Append(seqs, last)
<1>1. /\ n \in Nat /\ longer \in Seq(Seq(S)) /\ Len(longer) = n + 1
      /\ \A i \in 1 .. n : longer[i] = seqs[i]
      /\ longer[n + 1] = last /\ (seqs = << >> <=> n = 0)
  OBVIOUS
<1> HIDE DEF longer, n
<1>2. PICK h : Flattening(longer, n + 1, h) /\ FlattenSeq(longer) = h[n + 1]
  <2>1. Len(longer) \in Nat \ {0}
    BY <1>1
  <2> QED
    BY <1>1, <2>1, FlattenSeqIs
<1>3. h[n + 1] = IF n + 1 = 1 THEN longer[n + 1] ELSE h[(n + 1) - 1] \o longer[n + 1]
  <2>1. n + 1 \in 1 .. n + 1
    BY <1>1
  <2> QED
    BY <1>2, <2>1 DEF Flattening
<1>4. CASE n = 0
  BY <1>1, <1>2, <1>3, <1>4 DEF longer
<1>5. CASE n # 0
  <2>1. PICK g : Flattening(seqs, n, g) /\ FlattenSeq(seqs) = g[n]
    BY <1>1, <1>5, FlattenSeqIs DEF n
  <2>2. n \in Nat /\ n + 1 \in Nat /\ n <= n + 1 /\ n \in 1 .. n /\ (n + 1) - 1 = n
    BY <1>1, <1>5
  <2>3. \A i \in 1 .. n : g[i] = h[i]
    <3>1. \A i \in 1 .. n : seqs[i] = longer[i]
      BY <1>1
    <3>2. Flattening(longer, n + 1, h)
      BY <1>2
    <3> QED
      BY <2>1, <2>2, <3>1, <3>2, FlatteningAgrees
  <2>4. h[n + 1] = FlattenSeq(seqs) \o last
    <3>1. h[n + 1] = h[(n + 1) - 1] \o longer[n + 1]
      BY <1>1, <1>3, <1>5
    <3>2. h[(n + 1) - 1] = g[n]
      BY <2>2, <2>3
    <3> QED
      BY <1>1, <2>1, <3>1, <3>2
  <2> QED
    BY <1>1, <1>2, <1>5, <2>4 DEF longer
<1> QED
  BY <1>4, <1>5

LEMMA FlattenType ==
    ASSUME NEW S, NEW seqs \in Seq(Seq(S))
    PROVE  FlattenSeq(seqs) \in Seq(S)
<1> DEFINE n == Len(seqs)
<1>1. n \in Nat /\ \A i \in 1 .. n : seqs[i] \in Seq(S)
  OBVIOUS
<1>2. CASE n = 0
  <2>1. seqs = << >>
    BY <1>2
  <2> QED
    BY <2>1 DEF FlattenSeq
<1>3. CASE n # 0
  <2>1. PICK g : Flattening(seqs, n, g) /\ FlattenSeq(seqs) = g[n]
    BY <1>1, <1>3, FlattenSeqIs
  <2> DEFINE T == {k \in 0 .. n : k # 0 => g[k] \in Seq(S)}
  <2>2. ASSUME NEW k \in T, k < n
        PROVE  k + 1 \in T
    <3>1. k \in Nat /\ k + 1 \in 1 .. n /\ (k + 1) - 1 = k
      BY <1>1, <2>2
    <3>2. g[k + 1] = IF k + 1 = 1 THEN seqs[k + 1] ELSE g[(k + 1) - 1] \o seqs[k + 1]
      BY <2>1, <3>1 DEF Flattening
    <3>3. k + 1 # 1 => g[(k + 1) - 1] \in Seq(S)
      BY <2>2, <3>1
    <3>4. seqs[k + 1] \in Seq(S)
      BY <1>1, <3>1
    <3>5. g[k + 1] \in Seq(S)
      BY <3>2, <3>3, <3>4
    <3> QED
      BY <3>1, <3>5
  <2>3. T = 0 .. n
    <3> HIDE DEF T
    <3>1. T \in SUBSET (0 .. n) /\ 0 \in T
      BY <1>1 DEF T
    <3> QED
      BY <1>1, <2>2, <3>1, Climb
  <2>4. n \in T
    BY <1>1, <2>3
  <2> QED
    BY <1>3, <2>1, <2>4
<1> QED
  BY <1>2, <1>3

-----------------------------------------------------------------------------
(* Why a name that is spelled in the message is read as it was spelled.  The *)
(* read goes from one mark of the spelling to the next, whether that is told *)
(* by a label or by a pointer; what it can do otherwise is to run out of a   *)
(* message that was cut.                                                     *)

Labels(calls) == [k \in DOMAIN calls |-> calls[k].labels]

(* The read stands at this mark, and has the labels that were told so far.   *)
StandsAt(mark, name, behind) ==
    /\ Innermost.offset = mark.place
    /\ Len(frames) = mark.calls + 1
    /\ Name = SubSeq(name, 1, mark.told)
    /\ Innermost.size + (IF Innermost.labels = << >> THEN 0 ELSE 1) <= mark.size
    /\ mark.calls # 0 => Cursor = behind

(* These bytes are the message, but either may go on where the other ends.   *)
AgreesWith(bytes) == \A k \in (1 .. Len(message)) \cap (1 .. Len(bytes)) : message[k] = bytes[k]

Told(bytes, spelled, name, behind) ==
    /\ result = "reading" => \E i \in DOMAIN spelled : StandsAt(spelled[i], name, behind)
    /\ result = "ok" => Name = name /\ Cursor = behind
    /\ result \in Errors => Len(message) < Len(bytes)

LEMMA FrameLabels ==
    ASSUME NEW calls \in Seq(Frame)
    PROVE  \A k \in 1 .. Len(calls) : calls[k].labels \in Seq(Seq(Byte))
<1> SUFFICES ASSUME NEW k \in 1 .. Len(calls) PROVE calls[k].labels \in Seq(Seq(Byte))
  OBVIOUS
<1>1. calls[k] \in Frame
  OBVIOUS
<1> QED
  BY <1>1 DEF Frame

(* The labels of the calls when the innermost goes on, or makes a call.      *)
LEMMA LabelsTyped ==
    ASSUME TypeOK
    PROVE  /\ Labels(frames) \in Seq(Seq(Seq(Byte))) /\ Len(Labels(frames)) = Len(frames)
           /\ Name = FlattenSeq(Labels(frames)) /\ Name \in Seq(Seq(Byte))
<1>1. /\ frames \in Seq(Frame) /\ Len(frames) \in Nat /\ DOMAIN frames = 1 .. Len(frames)
  BY DEF TypeOK
<1>2. \A k \in 1 .. Len(frames) : frames[k].labels \in Seq(Seq(Byte))
  BY <1>1, FrameLabels
<1>3. Labels(frames) = [k \in 1 .. Len(frames) |-> frames[k].labels]
  BY <1>1 DEF Labels
<1>4. Labels(frames) \in Seq(Seq(Seq(Byte))) /\ Len(Labels(frames)) = Len(frames)
  BY <1>1, <1>2, <1>3
<1>5. Name = FlattenSeq(Labels(frames))
  BY DEF Name, Labels
<1> QED
  BY <1>4, <1>5, FlattenType

(* The name, cut before what the innermost call adds to it.                  *)
LEMMA NameSplit ==
    ASSUME NEW calls \in Seq(Frame), Len(calls) # 0
    PROVE  LET n == Len(calls)
               before == SubSeq(Labels(calls), 1, n - 1)
           IN  /\ before \in Seq(Seq(Seq(Byte)))
               /\ Labels(calls) = Append(before, calls[n].labels)
               /\ Len(before) = n - 1
               /\ \A k \in 1 .. n - 1 : before[k] = calls[k].labels
<1> DEFINE n == Len(calls)
           labels == Labels(calls)
           before == SubSeq(labels, 1, n - 1)
<1>1. n \in Nat /\ DOMAIN calls = 1 .. n /\ n - 1 \in Nat /\ n \in 1 .. n
  OBVIOUS
<1>2. \A k \in 1 .. n : calls[k].labels \in Seq(Seq(Byte))
  BY <1>1, FrameLabels
<1>3. labels = [k \in 1 .. n |-> calls[k].labels]
  BY <1>1 DEF Labels
<1>4. labels \in Seq(Seq(Seq(Byte))) /\ Len(labels) = n /\ \A k \in 1 .. n : labels[k] = calls[k].labels
  BY <1>1, <1>2, <1>3
<1> HIDE DEF labels, n
<1>5. /\ before \in Seq(Seq(Seq(Byte))) /\ Len(before) = n - 1
      /\ \A k \in 1 .. n - 1 : before[k] = labels[k]
  BY <1>1, <1>4
<1>6. \A k \in 1 .. n - 1 : k \in 1 .. n
  BY <1>1
<1> HIDE DEF before
<1>7. labels = Append(before, calls[n].labels)
  <2>1. calls[n].labels \in Seq(Seq(Byte))
    BY <1>1, <1>2
  <2>2. Append(before, calls[n].labels) \in Seq(Seq(Seq(Byte)))
    BY <1>5, <2>1
  <2>3. /\ Len(Append(before, calls[n].labels)) = n
        /\ \A k \in 1 .. n - 1 : Append(before, calls[n].labels)[k] = labels[k]
        /\ Append(before, calls[n].labels)[n] = labels[n]
    BY <1>1, <1>4, <1>5
  <2>4. \A k \in 1 .. n : Append(before, calls[n].labels)[k] = labels[k]
    BY <1>1, <2>3
  <2> QED
    BY <1>4, <2>2, <2>3, <2>4, SeqEqual
<1>8. \A k \in 1 .. n - 1 : before[k] = calls[k].labels
  BY <1>4, <1>5, <1>6
<1>9. /\ before \in Seq(Seq(Seq(Byte))) /\ Len(before) = n - 1
      /\ labels = Append(before, calls[n].labels)
      /\ \A k \in 1 .. n - 1 : before[k] = calls[k].labels
  BY <1>5, <1>7, <1>8
<1> QED
  BY ONLY <1>9, Zenon DEF before, labels, n

LEMMA Regroup ==
    ASSUME NEW S, NEW s \in Seq(S), NEW t \in Seq(S), NEW u \in Seq(S)
    PROVE  s \o (t \o u) = (s \o t) \o u
BY ConcatAssociative

LEMMA FlattenMore ==
    ASSUME NEW S, NEW before \in Seq(Seq(S)), NEW own \in Seq(S), NEW more \in Seq(S)
    PROVE  FlattenSeq(Append(before, own \o more)) = FlattenSeq(Append(before, own)) \o more
<1> DEFINE x == FlattenSeq(before)
<1>1. own \o more \in Seq(S)
  OBVIOUS
<1>2. x \in Seq(S)
  BY FlattenType
<1>3. CASE before = << >>
  BY <1>1, <1>3, FlattenAppend
<1>4. CASE before # << >>
  <2>1. /\ FlattenSeq(Append(before, own)) = x \o own
        /\ FlattenSeq(Append(before, own \o more)) = x \o (own \o more)
    BY <1>1, <1>4, FlattenAppend
  <2> HIDE DEF x
  <2>2. x \o (own \o more) = (x \o own) \o more
    BY <1>2, Regroup
  <2> QED
    BY <2>1, <2>2
<1> QED
  BY <1>3, <1>4

(* One more label of the innermost call is one more label of the name.       *)
LEMMA NameContinues ==
    ASSUME TypeOK, NEW frame \in Frame, Continue(frame),
           NEW more \in Seq(Seq(Byte)), frame.labels = Innermost.labels \o more
    PROVE  Name' = Name \o more
<1> DEFINE n == Len(frames)
           before == SubSeq(Labels(frames), 1, n - 1)
           before2 == SubSeq(Labels(frames'), 1, n - 1)
<1>1. /\ frames \in Seq(Frame) /\ n \in Nat \ {0} /\ n \in DOMAIN frames
      /\ Innermost.labels \in Seq(Seq(Byte)) /\ Innermost = frames[n]
  BY InnermostFrame DEF TypeOK, Innermost
<1>2. /\ frames' \in Seq(Frame) /\ Len(frames') = n /\ frames'[n] = frame
      /\ \A k \in 1 .. n : k # n => frames'[k] = frames[k]
  BY <1>1 DEF Continue
<1>3. /\ before \in Seq(Seq(Seq(Byte))) /\ Labels(frames) = Append(before, frames[n].labels)
      /\ Len(before) = n - 1 /\ \A k \in 1 .. n - 1 : before[k] = frames[k].labels
  BY <1>1, NameSplit
<1>4. /\ before2 \in Seq(Seq(Seq(Byte))) /\ Labels(frames') = Append(before2, frames'[n].labels)
      /\ Len(before2) = n - 1 /\ \A k \in 1 .. n - 1 : before2[k] = frames'[k].labels
  BY <1>1, <1>2, NameSplit
<1>0. Len(frames) = n
  OBVIOUS
<1> HIDE DEF before, before2, n
<1>5. before2 = before
  <2>1. \A k \in 1 .. n - 1 : k \in 1 .. n /\ k # n
    BY <1>1
  <2>2. \A k \in 1 .. n - 1 : before2[k] = before[k]
    <3> SUFFICES ASSUME NEW k \in 1 .. n - 1 PROVE before2[k] = before[k]
      OBVIOUS
    <3>1. frames'[k] = frames[k]
      BY <1>2, <2>1
    <3>2. before[k] = frames[k].labels /\ before2[k] = frames'[k].labels
      BY <1>3, <1>4
    <3> QED
      BY <3>1, <3>2
  <2> QED
    BY <1>1, <1>3, <1>4, <2>2, SeqEqual
<1>6. Name = FlattenSeq(Labels(frames)) /\ Name' = FlattenSeq(Labels(frames'))
  BY DEF Name, Labels
<1>7. frames'[n].labels = frames[n].labels \o more
  BY <1>1, <1>2
<1>8. frames[n].labels \in Seq(Seq(Byte)) /\ frames'[n].labels \in Seq(Seq(Byte))
  BY <1>1, <1>7
<1>9. FlattenSeq(Append(before, frames[n].labels \o more))
          = FlattenSeq(Append(before, frames[n].labels)) \o more
  <2> DEFINE L == Seq(Byte)
             own == frames[n].labels
  <2>1. before \in Seq(Seq(L)) /\ own \in Seq(L) /\ more \in Seq(L)
    BY <1>3, <1>8
  <2> HIDE DEF L, own
  <2>2. FlattenSeq(Append(before, own \o more)) = FlattenSeq(Append(before, own)) \o more
    BY <2>1, FlattenMore
  <2> QED
    BY <2>2 DEF own
<1> QED
  BY <1>3, <1>4, <1>5, <1>6, <1>7, <1>9

(* A call has told nothing when it begins.                                   *)
LEMMA NameCalls ==
    ASSUME TypeOK, NEW moved \in Seq(Frame), Len(moved) = Len(frames),
           \A k \in 1 .. Len(frames) : moved[k].labels = frames[k].labels,
           NEW called \in Frame, called.labels = << >>, frames' = Append(moved, called)
    PROVE  Name' = Name
<1> DEFINE n == Len(frames)
<1>1. /\ Labels(frames) \in Seq(Seq(Seq(Byte))) /\ Len(Labels(frames)) = n
      /\ Name = FlattenSeq(Labels(frames)) /\ Name \in Seq(Seq(Byte))
  BY LabelsTyped
<1>2. /\ n \in Nat \ {0} /\ frames \in Seq(Frame) /\ DOMAIN frames = 1 .. n /\ DOMAIN moved = 1 .. n
  BY InnermostFrame DEF TypeOK
<1>0. Len(frames) = n /\ Len(moved) = n
  OBVIOUS
<1> HIDE DEF n
<1>3. /\ frames' \in Seq(Frame) /\ DOMAIN frames' = 1 .. n + 1 /\ frames'[n + 1] = called
      /\ \A k \in 1 .. n : frames'[k] = moved[k]
  BY <1>0, <1>2, AppendProperties
<1>4. Labels(frames') = [k \in 1 .. n + 1 |-> frames'[k].labels]
  BY <1>3 DEF Labels
<1>5. Labels(frames) = [k \in 1 .. n |-> frames[k].labels]
  BY <1>2 DEF Labels
<1>6. Labels(frames') = Append(Labels(frames), << >>)
  <2>1. << >> \in Seq(Seq(Byte))
    OBVIOUS
  <2>2. /\ Append(Labels(frames), << >>) \in Seq(Seq(Seq(Byte)))
        /\ Len(Append(Labels(frames), << >>)) = n + 1
        /\ Append(Labels(frames), << >>)[n + 1] = << >>
        /\ \A k \in 1 .. n : Append(Labels(frames), << >>)[k] = Labels(frames)[k]
    BY <1>1, <1>2, <2>1, AppendProperties
  <2>3. \A k \in 1 .. n + 1 : Labels(frames')[k] = Append(Labels(frames), << >>)[k]
    <3> SUFFICES ASSUME NEW k \in 1 .. n + 1
                 PROVE  Labels(frames')[k] = Append(Labels(frames), << >>)[k]
      OBVIOUS
    <3>1. CASE k = n + 1
      BY <1>3, <1>4, <2>2, <3>1
    <3>2. CASE k # n + 1
      <4>1. k \in 1 .. n
        BY <1>2, <3>2
      <4> QED
        BY <1>0, <1>3, <1>4, <1>5, <2>2, <4>1
    <3> QED
      BY <3>1, <3>2
  <2>4. Labels(frames') \in Seq(Seq(Seq(Byte))) /\ Len(Labels(frames')) = n + 1
    <3>1. \A k \in 1 .. n + 1 : frames'[k].labels \in Seq(Seq(Byte))
      <4>1. Len(frames') = n + 1
        BY <1>2, <1>3
      <4> QED
        BY <1>3, <4>1, FrameLabels
    <3> QED
      BY <1>2, <1>4, <3>1
  <2> QED
    BY <2>2, <2>3, <2>4, SeqEqual
<1>7. Name' = FlattenSeq(Labels(frames'))
  BY DEF Name, Labels
<1>8. << >> \in Seq(Seq(Byte)) /\ Labels(frames) # << >>
  BY <1>1, <1>2
<1>9. Name' = Name \o << >>
  BY <1>1, <1>6, <1>7, <1>8, FlattenAppend
<1> QED
  BY <1>1, <1>9

(* What a spelling says at one of its marks.                                 *)
LEMMA MarkFacts ==
    ASSUME NEW bytes \in Seq(Byte), NEW spelled, NEW from, NEW name,
           Spells(bytes, spelled, from, name), NEW i \in DOMAIN spelled
    PROVE  /\ spelled[i].place \in Nat /\ spelled[i].told \in Nat
           /\ spelled[i].calls \in Nat /\ spelled[i].size \in Nat
           /\ spelled[i].place < Len(bytes) /\ spelled[i].told <= Len(name)
           /\ \/ bytes[spelled[i].place + 1] = 0 /\ spelled[i].told = Len(name)
              \/ i + 1 \in DOMAIN spelled /\ Tells(bytes, name, spelled[i], spelled[i + 1])
<1>1. /\ spelled \in Seq(Mark) /\ Len(spelled) \in Nat /\ DOMAIN spelled = 1 .. Len(spelled)
      /\ i \in 1 .. Len(spelled)
  BY DEF Spells
<1>2. spelled[i] \in Mark
  BY <1>1
<1>3. i < Len(spelled) => i + 1 \in DOMAIN spelled
  BY <1>1
<1> QED
  BY <1>2, <1>3 DEF Spells, Mark

(* A read that begins has told nothing, and stands at the first mark: once   *)
(* for a state and once for the one a step leads to.                         *)
LEMMA FirstCall ==
    ASSUME NEW from \in Nat
    PROVE  LET calls == <<Call(from)>>
           IN  /\ Len(calls) = 1 /\ calls[1] = Call(from)
               /\ FlattenSeq([k \in DOMAIN calls |-> calls[k].labels]) = << >>
               /\ Call(from).offset = from /\ Call(from).size = 0 /\ Call(from).labels = << >>
<1> DEFINE calls == <<Call(from)>>
<1>1. /\ Len(calls) = 1 /\ calls[1] = Call(from) /\ DOMAIN calls = {1}
      /\ Call(from).offset = from /\ Call(from).size = 0 /\ Call(from).labels = << >>
  BY DEF Call
<1>2. [k \in DOMAIN calls |-> calls[k].labels] = << << >> >>
  BY <1>1
<1>3. << << >> >> = Append(<< >>, << >>) /\ << >> \in Seq(Seq(Seq(Byte))) /\ << >> \in Seq(Seq(Byte))
  OBVIOUS
<1>4. FlattenSeq(<< << >> >>) = << >>
  BY <1>3, FlattenAppend
<1> QED
  BY <1>1, <1>2, <1>4

LEMMA FirstMark ==
    ASSUME NEW bytes, NEW spelled, NEW from, NEW name, Spells(bytes, spelled, from, name)
    PROVE  /\ 1 \in DOMAIN spelled /\ SubSeq(name, 1, spelled[1].told) = << >>
           /\ spelled[1].place = from /\ spelled[1].calls = 0 /\ spelled[1].size = 0
<1>1. /\ 1 \in DOMAIN spelled
      /\ spelled[1] = [place |-> from, told |-> 0, calls |-> 0, size |-> 0]
  BY DEF Spells
<1>2. SubSeq(name, 1, 0) = << >>
  BY SubSeqEmpty
<1> QED
  BY <1>1, <1>2

LEMMA ToldAtStart ==
    ASSUME NEW bytes, NEW spelled, NEW from \in Nat, NEW name, NEW behind,
           Spells(bytes, spelled, from, name),
           frames = <<Call(from)>>, result = "reading"
    PROVE  Told(bytes, spelled, name, behind)
<1>1. Innermost = Call(from) /\ Name = << >> /\ Len(frames) = 1
      /\ Innermost.offset = from /\ Innermost.size = 0 /\ Innermost.labels = << >>
  BY FirstCall DEF Innermost, Name
<1>2. StandsAt(spelled[1], name, behind)
  <2> DEFINE mark == spelled[1]
  <2>1. mark.place = from /\ mark.calls = 0 /\ mark.size = 0 /\ SubSeq(name, 1, mark.told) = << >>
    BY FirstMark
  <2> HIDE DEF mark
  <2>2. Innermost.size + (IF Innermost.labels = << >> THEN 0 ELSE 1) <= mark.size
    BY <1>1, <2>1
  <2>3. Name = SubSeq(name, 1, mark.told) /\ Innermost.offset = mark.place
    BY <1>1, <2>1, Zenon
  <2>4. Len(frames) = mark.calls + 1
    BY <1>1, <2>1
  <2>5. StandsAt(mark, name, behind)
    BY <2>1, <2>2, <2>3, <2>4, Zenon DEF StandsAt
  <2> QED
    BY <2>5 DEF mark
<1> QED
  BY <1>2, FirstMark DEF Told, Errors

LEMMA ToldAtNextStart ==
    ASSUME NEW bytes, NEW spelled, NEW from \in Nat, NEW name, NEW behind,
           Spells(bytes, spelled, from, name),
           frames' = <<Call(from)>>, result' = "reading"
    PROVE  Told(bytes, spelled, name, behind)'
<1>1. Innermost' = Call(from) /\ Name' = << >> /\ Len(frames') = 1
      /\ Innermost'.offset = from /\ Innermost'.size = 0 /\ Innermost'.labels = << >>
  BY FirstCall DEF Innermost, Name
<1>2. StandsAt(spelled[1], name, behind)'
  <2> DEFINE mark == spelled[1]
  <2>1. mark.place = from /\ mark.calls = 0 /\ mark.size = 0 /\ SubSeq(name, 1, mark.told) = << >>
    BY FirstMark
  <2> HIDE DEF mark
  <2>2. Innermost'.size + (IF Innermost'.labels = << >> THEN 0 ELSE 1) <= mark.size
    BY <1>1, <2>1
  <2>3. Name' = SubSeq(name, 1, mark.told) /\ Innermost'.offset = mark.place
    BY <1>1, <2>1, Zenon
  <2>4. Len(frames') = mark.calls + 1
    BY <1>1, <2>1
  <2>5. StandsAt(mark, name, behind)'
    BY <2>1, <2>2, <2>3, <2>4, Zenon DEF StandsAt
  <2> QED
    BY <2>5 DEF mark
<1> QED
  BY <1>2, FirstMark DEF Told, Errors

(* The name is spelled here, within the limits and in what there is of the   *)
(* message.                                                                  *)
Spelled(bytes, spelled, from, name, behind) ==
    /\ bytes \in Seq(Byte) /\ name \in Seq(Seq(Byte)) /\ behind \in Nat
    /\ Spells(bytes, spelled, from, name)
    /\ EndsAt(bytes, spelled, behind)
    /\ WithinLimits(spelled, DepthLimit, NameLimit)
    /\ AgreesWith(bytes)

(* What is known while the read stands at a mark.                            *)
LEMMA MarkerSeen ==
    ASSUME IInv, NEW bytes, NEW spelled, NEW from, NEW name, NEW behind,
           Spelled(bytes, spelled, from, name, behind),
           NEW i \in DOMAIN spelled, StandsAt(spelled[i], name, behind)
    PROVE  /\ Innermost.offset \in Nat /\ Innermost.offset = spelled[i].place
           /\ Len(message) \in Nat /\ Len(bytes) \in Nat /\ Innermost.offset < Len(bytes)
           /\ \A k \in 1 .. Len(message) : k <= Len(bytes) => message[k] = bytes[k]
           /\ HasBytes(Innermost.offset, 1) => Marker = bytes[spelled[i].place + 1]
<1>1. /\ Innermost.offset \in Nat /\ Innermost.offset = spelled[i].place
      /\ Len(message) \in Nat
  BY InnermostFrame, MessageBytes DEF IInv, TypeOK, StandsAt
<1>2. bytes \in Seq(Byte) /\ Len(bytes) \in Nat /\ Innermost.offset < Len(bytes)
  BY <1>1, MarkFacts DEF Spelled
<1>3. \A k \in 1 .. Len(message) : k <= Len(bytes) => message[k] = bytes[k]
  BY <1>1, <1>2 DEF Spelled, AgreesWith
<1>4. HasBytes(Innermost.offset, 1) => Marker = bytes[spelled[i].place + 1]
  <2> DEFINE at == Innermost.offset
  <2>1. HasBytes(at, 1) => at + 1 \in 1 .. Len(message) /\ at + 1 <= Len(bytes)
    BY <1>1, <1>2 DEF HasBytes
  <2>2. HasBytes(at, 1) => message[at + 1] = bytes[at + 1]
    BY <1>3, <2>1
  <2> QED
    BY <1>1, <2>2 DEF Marker
<1> QED
  BY <1>1, <1>2, <1>3, <1>4

(* The calls after a step in which the innermost goes on.                    *)
LEMMA CallsContinue ==
    ASSUME TypeOK, NEW frame \in Frame, Continue(frame)
    PROVE  /\ Len(frames') = Len(frames) /\ Innermost' = frame
           /\ Cursor' = IF Len(frames) = 1 THEN frame.offset ELSE Cursor
<1>1. frames \in Seq(Frame) /\ Len(frames) \in Nat \ {0} /\ 1 \in DOMAIN frames
  BY InnermostFrame DEF TypeOK
<1>2. /\ Len(frames') = Len(frames) /\ frames'[Len(frames)] = frame
      /\ Len(frames) # 1 => frames'[1] = frames[1]
  BY <1>1 DEF Continue
<1> QED
  BY <1>2 DEF Innermost, Cursor

(* The zero: the whole name was told, and the cursor is behind it.           *)
LEMMA ToldByEnd ==
    ASSUME IInv, NEW bytes, NEW spelled, NEW from, NEW name, NEW behind,
           Spelled(bytes, spelled, from, name, behind),
           NEW i \in DOMAIN spelled, StandsAt(spelled[i], name, behind), EndOfName
    PROVE  Told(bytes, spelled, name, behind)'
<1> DEFINE frame == [Innermost EXCEPT !.offset = @ + 1]
           mark == spelled[i]
<1>1. /\ HasBytes(Innermost.offset, 1) /\ Marker = 0 /\ Continue(frame) /\ result' = "ok"
  BY DEF EndOfName, ReadMarker
<1>2. Innermost \in Frame /\ Innermost.offset \in Nat /\ Innermost.labels \in Seq(Seq(Byte))
  BY InnermostFrame DEF IInv
<1>3. frame \in Frame /\ frame.offset = Innermost.offset + 1 /\ frame.labels = Innermost.labels
  <2>1. Innermost.offset + 1 \in Nat
    BY <1>2
  <2> QED
    BY <1>2, <2>1 DEF Frame
<1> HIDE DEF frame
<1>4. bytes[mark.place + 1] = 0 /\ Innermost.offset = mark.place
  BY <1>1, MarkerSeen
<1>5. mark.told = Len(name) /\ mark.calls \in Nat
  <2>1. \/ mark.told = Len(name)
        \/ Tells(bytes, name, mark, spelled[i + 1])
    BY MarkFacts DEF Spelled
  <2>2. ~Tells(bytes, name, mark, spelled[i + 1])
    BY <1>4 DEF Tells
  <2>3. mark.calls \in Nat
    BY MarkFacts DEF Spelled
  <2> QED
    BY <2>1, <2>2, <2>3
<1>6. Name' = name
  <2>1. << >> \in Seq(Seq(Byte)) /\ frame.labels = Innermost.labels \o << >>
    BY <1>2, <1>3, ConcatEmptySeq
  <2>2. Name' = Name \o << >> /\ Name \in Seq(Seq(Byte))
    BY <1>1, <1>3, <2>1, NameContinues, LabelsTyped DEF IInv
  <2>3. Name = name
    BY <1>5, SubSeqFull DEF StandsAt, Spelled
  <2> QED
    BY <2>2, <2>3, ConcatEmptySeq
<1>7. Cursor' = behind
  <2>1. Cursor' = IF Len(frames) = 1 THEN frame.offset ELSE Cursor
    BY <1>1, <1>3, CallsContinue DEF IInv
  <2>2. CASE mark.calls = 0
    <3>1. behind = mark.place + 1
      BY <1>4, <2>2 DEF Spelled, EndsAt
    <3> QED
      BY <1>3, <1>4, <2>1, <2>2, <3>1 DEF StandsAt
  <2>3. CASE mark.calls # 0
    BY <1>5, <2>1, <2>3 DEF StandsAt
  <2> QED
    BY <2>2, <2>3
<1> QED
  BY <1>1, <1>6, <1>7 DEF Told, Errors

(* A label: the read goes on behind it, if the message has it all.           *)
LEMMA ToldByLabel ==
    ASSUME IInv, NEW bytes, NEW spelled, NEW from, NEW name, NEW behind,
           Spelled(bytes, spelled, from, name, behind),
           NEW i \in DOMAIN spelled, StandsAt(spelled[i], name, behind), ReadLabel
    PROVE  Told(bytes, spelled, name, behind)'
<1> DEFINE at == Innermost.offset
           label == SubSeq(message, at + 1 + 1, at + 1 + Marker)
           grown == Innermost.size + Marker + (IF Innermost.labels = << >> THEN 0 ELSE 1)
           frame == [Innermost EXCEPT !.offset = at + 1 + Marker,
                                      !.labels = Append(@, label), !.size = grown]
           mark == spelled[i]
           next == spelled[i + 1]
<1>1. /\ HasBytes(at, 1) /\ Marker \in 1 .. 63 /\ result = "reading"
      /\ message' = message
      /\ Marker \in Nat /\ Marker # 0
  <2>1. HasBytes(at, 1) /\ Marker \in 1 .. 63 /\ result = "reading" /\ message' = message
    BY DEF ReadLabel, ReadMarker, Fail
  <2> QED
    BY <2>1
<1>2. /\ Innermost \in Frame /\ at \in Nat /\ Innermost.size \in Nat
      /\ Innermost.labels \in Seq(Seq(Byte))
  BY InnermostFrame DEF IInv
<1>3. /\ at = mark.place /\ Len(message) \in Nat /\ Len(bytes) \in Nat /\ at < Len(bytes)
      /\ \A k \in 1 .. Len(message) : k <= Len(bytes) => message[k] = bytes[k]
      /\ Marker = bytes[at + 1] /\ Marker = bytes[mark.place + 1]
      /\ mark.told \in Nat /\ mark.calls \in Nat /\ mark.size \in Nat
  <2>1. mark.told \in Nat /\ mark.calls \in Nat /\ mark.size \in Nat
    BY MarkFacts DEF Spelled
  <2>2. /\ at = mark.place /\ Len(message) \in Nat /\ Len(bytes) \in Nat /\ at < Len(bytes)
        /\ \A k \in 1 .. Len(message) : k <= Len(bytes) => message[k] = bytes[k]
        /\ Marker = bytes[mark.place + 1]
    BY <1>1, MarkerSeen
  <2> QED
    BY <2>1, <2>2
<1> HIDE DEF at, mark
<1>4. /\ i + 1 \in DOMAIN spelled
      /\ at + 1 + Marker <= Len(bytes) /\ mark.told < Len(name)
      /\ name[mark.told + 1] = SubSeq(bytes, at + 2, at + 1 + Marker)
      /\ next = [place |-> at + 1 + Marker, told |-> mark.told + 1,
                 calls |-> mark.calls, size |-> mark.size + 1 + Marker]
      /\ next.place = at + 1 + Marker /\ next.told = mark.told + 1
      /\ next.calls = mark.calls /\ next.size = mark.size + 1 + Marker
  <2>1. /\ bytes[mark.place + 1] # 0 /\ bytes[mark.place + 1] \notin 192 .. 255
    <3>1. \A x \in 1 .. 63 : x # 0 /\ x \notin 192 .. 255
      OBVIOUS
    <3>2. Marker # 0 /\ Marker \notin 192 .. 255
      BY <1>1, <3>1
    <3> QED
      BY <1>3, <3>2
  <2>2. i + 1 \in DOMAIN spelled /\ Tells(bytes, name, mark, next)
    BY <2>1, MarkFacts DEF Spelled, mark
  <2> HIDE DEF next
  <2>3. /\ at + 1 + Marker <= Len(bytes) /\ mark.told < Len(name)
        /\ name[mark.told + 1] = SubSeq(bytes, at + 2, at + 1 + Marker)
        /\ next = [place |-> at + 1 + Marker, told |-> mark.told + 1,
                   calls |-> mark.calls, size |-> mark.size + 1 + Marker]
    BY <1>3, <2>1, <2>2 DEF Tells
  <2>4. i + 1 \in DOMAIN spelled
    BY <2>2
  <2> QED
    BY <2>3, <2>4
<1> HIDE DEF next
<1>5. CASE ~HasBytes(at + 1, Marker)
  <2>1. result' \in Errors /\ Len(message') < Len(bytes)
    <3>1. result' \in Errors
      BY <1>5 DEF ReadLabel, Fail, Errors, at
    <3>2. at + 1 + Marker > Len(message)
      <4>1. ~(at + 1 + Marker <= Len(message)) /\ at + 1 + Marker \in Nat
        BY <1>1, <1>2, <1>5 DEF HasBytes
      <4> QED
        BY <1>3, <4>1
    <3>3. Len(message') = Len(message)
      BY <1>1
    <3> QED
      <4>1. at + 1 + Marker \in Nat /\ at + 1 + Marker <= Len(bytes)
        BY <1>1, <1>2, <1>4
      <4>2. Len(message) < Len(bytes)
        <5> DEFINE e == at + 1 + Marker
        <5>1. e \in Nat /\ e <= Len(bytes) /\ e > Len(message)
          BY <3>2, <4>1
        <5> HIDE DEF e
        <5> QED
          BY <1>3, <5>1
      <4> QED
        BY <3>1, <3>3, <4>2
  <2>2. result' # "ok" /\ result' # "reading"
    BY <2>1 DEF Errors
  <2> QED
    BY <2>1, <2>2 DEF Told
<1>6. CASE HasBytes(at + 1, Marker)
  <2>1. /\ Continue(frame)
        /\ result' = IF grown > NameLimit THEN "dns name too long" ELSE result
    BY <1>6 DEF ReadLabel, at
  <2>2. label = name[mark.told + 1] /\ label \in Seq(Byte)
    <3>1. at + 1 + Marker <= Len(message) /\ at + 1 + Marker \in Nat /\ at + 2 \in Nat
      <4>1. at + 1 + Marker <= Len(message)
        BY <1>6 DEF HasBytes
      <4> QED
        BY <1>1, <1>2, <4>1
    <3>2. \A k \in at + 2 .. at + 1 + Marker : message[k] = bytes[k] /\ message[k] \in Byte
      <4>1. \A k \in at + 2 .. at + 1 + Marker : k \in 1 .. Len(message) /\ k <= Len(bytes)
        <5>1. at + 1 + Marker <= Len(message) /\ at + 1 + Marker <= Len(bytes)
          BY <1>4, <3>1
        <5>2. at \in Nat /\ Len(message) \in Nat /\ Len(bytes) \in Nat /\ Marker \in Nat
          BY <1>1, <1>2, <1>3
        <5> QED
          BY <5>1, <5>2
      <4>2. \A k \in 1 .. Len(message) : message[k] \in Byte
        BY MessageBytes DEF IInv, TypeOK
      <4> QED
        BY <1>3, <4>1, <4>2
    <3>3. SubSeq(message, at + 2, at + 1 + Marker) = SubSeq(bytes, at + 2, at + 1 + Marker)
      <4> DEFINE m == at + 2
                 n == at + 1 + Marker
                 s == SubSeq(message, m, n)
                 t == SubSeq(bytes, m, n)
      <4>1. m \in Int /\ n \in Int
        BY <3>1
      <4>2. \A k \in m .. n : message[k] = bytes[k] /\ message[k] \in Byte /\ bytes[k] \in Byte
        BY <3>2
      <4> HIDE DEF m, n
      <4>3. /\ s \in Seq(Byte) /\ Len(s) = (IF m <= n THEN n - m + 1 ELSE 0)
            /\ \A k \in 1 .. n - m + 1 : s[k] = message[m + k - 1]
        BY <4>1, <4>2, SubSeqProperties
      <4>4. /\ t \in Seq(Byte) /\ Len(t) = (IF m <= n THEN n - m + 1 ELSE 0)
            /\ \A k \in 1 .. n - m + 1 : t[k] = bytes[m + k - 1]
        BY <4>1, <4>2, SubSeqProperties
      <4>5. \A k \in 1 .. n - m + 1 : m + k - 1 \in m .. n
        BY <4>1
      <4> HIDE DEF s, t
      <4>6. \A k \in 1 .. Len(s) : s[k] = t[k]
        BY <4>1, <4>2, <4>3, <4>4, <4>5
      <4>7. s = t
        BY <4>3, <4>4, <4>6, SeqEqual
      <4> QED
        BY <4>7 DEF s, t, m, n
    <3>4. at + 1 + 1 = at + 2
      BY <1>2
    <3>5. name[mark.told + 1] \in Seq(Byte)
      <4>0. /\ mark.told \in Nat /\ mark.told < Len(name)
            /\ name \in Seq(Seq(Byte)) /\ Len(name) \in Nat
        BY <1>3, <1>4, LenProperties DEF Spelled
      <4>1. mark.told + 1 \in 1 .. Len(name) /\ name \in Seq(Seq(Byte))
        BY <4>0
      <4> QED
        BY <4>1, ElementOfSeq
    <3> QED
      BY <1>4, <3>3, <3>4, <3>5
  <2> HIDE DEF label
  <2>3. /\ grown \in Nat /\ at + 1 + Marker \in Nat
        /\ grown + 1 <= mark.size + 1 + Marker /\ mark.size \in Nat
    <3>1. Innermost.size + (IF Innermost.labels = << >> THEN 0 ELSE 1) <= mark.size
      BY DEF StandsAt, mark
    <3>2. \/ grown = Innermost.size + Marker /\ Innermost.size <= mark.size
          \/ grown = Innermost.size + Marker + 1 /\ Innermost.size + 1 <= mark.size
      <4>1. Innermost.size \in Nat /\ Marker \in Nat
        BY <1>1, <1>2
      <4>2. CASE Innermost.labels = << >>
        BY <3>1, <4>1, <4>2
      <4>3. CASE Innermost.labels # << >>
        BY <3>1, <4>1, <4>3
      <4> QED
        BY <4>2, <4>3
    <3> HIDE DEF grown
    <3>3. Innermost.size \in Nat /\ Marker \in Nat /\ mark.size \in Nat /\ at \in Nat
      BY <1>1, <1>2, <1>3
    <3> QED
      BY <3>2, <3>3
  <2>4. grown <= NameLimit
    <3>1. mark.size + 1 + Marker <= NameLimit + 1
      BY <1>4 DEF Spelled, WithinLimits, next
    <3> HIDE DEF grown
    <3> QED
      BY <1>1, <2>3, <3>1, LimitsAssumption
  <2> HIDE DEF grown
  <2>5. /\ frame \in Frame /\ frame.offset = at + 1 + Marker /\ frame.size = grown
        /\ frame.labels = Append(Innermost.labels, label)
    <3>1. Append(Innermost.labels, label) \in Seq(Seq(Byte))
      BY <1>2, <2>2
    <3> HIDE DEF at
    <3> QED
      BY <1>2, <2>3, <3>1 DEF Frame
  <2> HIDE DEF frame
  <2>6. result' = "reading"
    <3>1. ~(grown > NameLimit)
      BY <2>3, <2>4, LimitsAssumption
    <3> QED
      BY <1>1, <2>1, <3>1
  <2>7. Name' = SubSeq(name, 1, mark.told + 1)
    <3>1. frame.labels = Innermost.labels \o <<label>> /\ <<label>> \in Seq(Seq(Byte))
      <4>1. label \in Seq(Byte) /\ Innermost.labels \in Seq(Seq(Byte))
        BY <1>2, <2>2
      <4>2. Append(Innermost.labels, label) = Innermost.labels \o <<label>>
        BY <4>1, AppendIsConcat
      <4>3. <<label>> \in Seq(Seq(Byte))
        BY <4>1
      <4> QED
        BY <2>5, <4>2, <4>3
    <3>2. Name' = Name \o <<label>>
      BY <2>1, <2>5, <3>1, NameContinues DEF IInv
    <3>3. name \in Seq(Seq(Byte)) /\ mark.told \in Nat /\ mark.told + 1 \in 1 .. Len(name)
          /\ Len(name) \in Nat
      <4>0. /\ mark.told \in Nat /\ mark.told < Len(name)
            /\ name \in Seq(Seq(Byte)) /\ Len(name) \in Nat
        BY <1>3, <1>4, LenProperties DEF Spelled
      <4> QED
        BY <4>0
    <3>4. SubSeq(name, 1, mark.told + 1)
              = SubSeq(name, 1, (mark.told + 1) - 1) \o <<name[mark.told + 1]>>
      <4> DEFINE n == mark.told + 1
      <4>1. 1 \in 1 .. Len(name) /\ n \in 1 .. Len(name)
        BY <3>3
      <4> HIDE DEF n
      <4> QED
        BY <3>3, <4>1, SubSeqRecursiveSecond DEF n
    <3>5. (mark.told + 1) - 1 = mark.told
      BY <3>3
    <3> QED
      BY <2>2, <3>2, <3>4, <3>5 DEF StandsAt, mark
  <2>8. /\ Len(frames') = Len(frames) /\ Innermost' = frame
        /\ Cursor' = IF Len(frames) = 1 THEN frame.offset ELSE Cursor
    BY <2>1, <2>5, CallsContinue DEF IInv
  <2>9. StandsAt(next, name, behind)'
    <3>1. Innermost'.offset = next.place /\ Len(frames') = next.calls + 1
      BY <1>4, <2>5, <2>8 DEF StandsAt, mark
    <3>2. Name' = SubSeq(name, 1, next.told)
      BY <1>4, <2>7
    <3>3. Innermost'.size + (IF Innermost'.labels = << >> THEN 0 ELSE 1) <= next.size
      <4>1. Innermost'.size = grown /\ next.size = mark.size + 1 + Marker
        BY <1>4, <2>5, <2>8
      <4> QED
        BY <1>1, <2>3, <4>1
    <3>4. next.calls # 0 => Cursor' = behind
      <4>1. mark.calls \in Nat /\ next.calls = mark.calls /\ Len(frames) = mark.calls + 1
        BY <1>3, <1>4 DEF StandsAt, mark
      <4> QED
        BY <2>8, <4>1 DEF StandsAt, mark
    <3> QED
      BY <3>1, <3>2, <3>3, <3>4 DEF StandsAt
  <2> QED
    BY <1>4, <2>6, <2>9 DEF Told, Errors, next
<1> QED
  BY <1>5, <1>6

(* A pointer: a new call stands where it leads, and has told nothing more.   *)
LEMMA ToldByPointer ==
    ASSUME IInv, NEW bytes, NEW spelled, NEW from, NEW name, NEW behind,
           Spelled(bytes, spelled, from, name, behind),
           NEW i \in DOMAIN spelled, StandsAt(spelled[i], name, behind), FollowPointer
    PROVE  Told(bytes, spelled, name, behind)'
<1> DEFINE at == Innermost.offset
           n == Len(frames)
           moved == [frames EXCEPT ![Len(frames)].offset = at + 1 + 1]
           called == Call((Marker % 64) * 256 + message[at + 1 + 1])
           mark == spelled[i]
           next == spelled[i + 1]
<1>1. /\ HasBytes(at, 1) /\ Marker \in 192 .. 255 /\ result = "reading"
      /\ message' = message /\ Marker \in Nat /\ Marker # 0 /\ Marker \notin 1 .. 63
  <2>1. HasBytes(at, 1) /\ Marker \in 192 .. 255 /\ result = "reading" /\ message' = message
    BY DEF FollowPointer, ReadMarker, Fail
  <2>2. \A x \in 192 .. 255 : x \in Nat /\ x # 0 /\ x \notin 1 .. 63
    OBVIOUS
  <2> QED
    BY <2>1, <2>2
<1>2. /\ Innermost \in Frame /\ at \in Nat /\ frames \in Seq(Frame) /\ n \in Nat \ {0}
      /\ n \in DOMAIN frames /\ DOMAIN frames = 1 .. n /\ 1 \in DOMAIN frames
      /\ Innermost = frames[n]
  <2>1. /\ Innermost \in Frame /\ at \in Nat /\ n \in DOMAIN frames
        /\ frames \in Seq(Frame) /\ Innermost = frames[n]
    BY InnermostFrame DEF IInv, TypeOK, Innermost
  <2>2. n \in Nat \ {0} /\ DOMAIN frames = 1 .. n
    BY <2>1, LenProperties
  <2>3. 1 \in DOMAIN frames
    BY <2>2
  <2> QED
    BY <2>1, <2>2, <2>3, Zenon
<1>3. /\ at = mark.place /\ Len(message) \in Nat /\ Len(bytes) \in Nat /\ at < Len(bytes)
      /\ \A k \in 1 .. Len(message) : k <= Len(bytes) => message[k] = bytes[k]
      /\ Marker = bytes[mark.place + 1]
      /\ mark.told \in Nat /\ mark.calls \in Nat /\ mark.size \in Nat
  <2>1. /\ at = mark.place /\ Len(message) \in Nat /\ Len(bytes) \in Nat /\ at < Len(bytes)
        /\ \A k \in 1 .. Len(message) : k <= Len(bytes) => message[k] = bytes[k]
    BY MarkerSeen
  <2>2. Marker = bytes[mark.place + 1]
    BY <1>1, MarkerSeen
  <2>3. mark.told \in Nat /\ mark.calls \in Nat /\ mark.size \in Nat
    BY MarkFacts DEF Spelled
  <2> QED
    BY <2>1, <2>2, <2>3, Zenon
<1>4. /\ i + 1 \in DOMAIN spelled /\ at + 2 <= Len(bytes)
      /\ next.place = (Marker % 64) * 256 + bytes[at + 2] /\ next.told = mark.told
      /\ next.calls = mark.calls + 1 /\ next.size = mark.size /\ next.calls <= DepthLimit
  <2>1. i + 1 \in DOMAIN spelled /\ Tells(bytes, name, mark, next)
    BY <1>1, <1>3, MarkFacts DEF Spelled
  <2>2. next.calls <= DepthLimit
    BY <2>1 DEF Spelled, WithinLimits
  <2> HIDE DEF mark, next, at
  <2>3. /\ mark.place + 2 <= Len(bytes)
        /\ next = [place |-> (Marker % 64) * 256 + bytes[mark.place + 2],
                   told |-> mark.told, calls |-> mark.calls + 1, size |-> mark.size]
    BY <1>1, <1>3, <2>1 DEF Tells
  <2>4. at = mark.place
    BY <1>3
  <2>5. i + 1 \in DOMAIN spelled
    BY <2>1
  <2> DEFINE to == (Marker % 64) * 256 + bytes[mark.place + 2]
  <2>6. /\ next.place = to /\ next.told = mark.told
        /\ next.calls = mark.calls + 1 /\ next.size = mark.size
    <3> HIDE DEF to
    <3>1. next = [place |-> to, told |-> mark.told, calls |-> mark.calls + 1, size |-> mark.size]
      BY <2>3 DEF to
    <3> QED
      BY <3>1
  <2>7. at + 2 <= Len(bytes)
    BY <2>3, <2>4, Zenon
  <2>8. next.place = (Marker % 64) * 256 + bytes[at + 2]
    BY <2>4, <2>6, Zenon
  <2> QED
    BY <2>2, <2>5, <2>6, <2>7, <2>8
<1>5. behind = at + 2 \/ mark.calls # 0
  <2>1. mark.calls = 0 => behind = mark.place + 2
    <3>1. EndsAt(bytes, spelled, behind)
      BY DEF Spelled
    <3>2. bytes[mark.place + 1] \in 192 .. 255
      BY <1>1, <1>3
    <3> HIDE DEF at
    <3> QED
      BY <3>1, <3>2 DEF EndsAt
  <2> QED
    BY <1>3, <2>1
<1>6. n = mark.calls + 1 /\ (mark.calls # 0 => Cursor = behind)
  BY DEF StandsAt
<1>7. Name = SubSeq(name, 1, mark.told)
  BY DEF StandsAt
<1> HIDE DEF mark, next
<1>8. CASE ~HasBytes(at + 1, 1)
  <2>1. result' \in Errors
    BY <1>8 DEF FollowPointer, Fail, Errors
  <2>2. Len(message') < Len(bytes)
    <3>1. ~(at + 1 + 1 <= Len(message))
      BY <1>8 DEF HasBytes
    <3> HIDE DEF at
    <3>2. at \in Nat /\ Len(message) \in Nat /\ Len(bytes) \in Nat
      BY <1>2, <1>3, Zenon
    <3> QED
      BY <1>1, <1>4, <3>1, <3>2
  <2>3. result' # "ok" /\ result' # "reading"
    BY <2>1 DEF Errors
  <2> QED
    BY <2>1, <2>2, <2>3 DEF Told
<1>9. CASE HasBytes(at + 1, 1)
  <2>0. ~(n > DepthLimit) /\ at + 2 <= Len(message) /\ at + 1 + 1 = at + 2
    <3>1. at + 1 + 1 <= Len(message)
      BY <1>9 DEF HasBytes
    <3> HIDE DEF at, n
    <3> QED
      <4>1. at \in Nat /\ n \in Nat /\ n = mark.calls + 1 /\ mark.calls \in Nat
            /\ mark.calls + 1 <= DepthLimit
        BY <1>2, <1>3, <1>4, <1>6
      <4> QED
        BY <3>1, <4>1, LimitsAssumption
  <2>1. frames' = Append(moved, called) /\ result' = "reading"
    BY <1>1, <1>9, <2>0 DEF FollowPointer
  <2>2. /\ called \in Frame /\ called.offset = next.place
        /\ called.labels = << >> /\ called.size = 0
    <3>1. at + 2 \in 1 .. Len(message) /\ at + 2 <= Len(bytes)
      <4>1. at \in Nat /\ at + 2 <= Len(bytes) /\ Len(message) \in Nat
        BY <1>2, <1>3, <1>4, <2>0
      <4> HIDE DEF at
      <4> QED
        BY <2>0, <4>1
    <3>2. message[at + 2] = bytes[at + 2] /\ message[at + 2] \in Nat
      <4>1. \A k \in 1 .. Len(message) : message[k] \in Nat
        BY MessageBytes DEF IInv, TypeOK
      <4> HIDE DEF at
      <4> QED
        BY <1>3, <3>1, <4>1
    <3>3. (Marker % 64) * 256 + message[at + 2] \in Nat
      <4>1. Marker % 64 \in Nat
        BY <1>1
      <4> HIDE DEF at
      <4> QED
        BY <3>2, <4>1
    <3>4. (Marker % 64) * 256 + message[at + 2] = next.place
      BY <1>4, <3>2
    <3> QED
      BY <2>0, <3>3, <3>4 DEF Call, Frame
  <2>3. /\ moved \in Seq(Frame) /\ Len(moved) = n
        /\ moved[n].offset = at + 2
        /\ \A k \in 1 .. n : moved[k].labels = frames[k].labels
        /\ \A k \in 1 .. n : k # n => moved[k] = frames[k]
    <3>1. [Innermost EXCEPT !.offset = at + 2] \in Frame
      <4>1. at + 2 \in Nat
        BY <1>2
      <4> QED
        BY <1>2, <4>1 DEF Frame
    <3>2. moved = [frames EXCEPT ![n] = [Innermost EXCEPT !.offset = at + 2]]
      BY <1>2, <2>0
    <3>3. [Innermost EXCEPT !.offset = at + 2].labels = Innermost.labels
      BY <1>2 DEF Frame
    <3> DEFINE frame == [Innermost EXCEPT !.offset = at + 2]
    <3>4. frame \in Frame /\ frame.offset = at + 2 /\ frame.labels = frames[n].labels
      BY <1>2, <3>1, <3>3 DEF Frame
    <3> HIDE DEF frame, n, at
    <3>5. /\ moved \in Seq(Frame) /\ Len(moved) = n /\ moved[n] = frame
          /\ \A k \in 1 .. n : k # n => moved[k] = frames[k]
      <4>1. moved = [frames EXCEPT ![n] = frame] /\ Len(frames) = n
        BY <3>2 DEF frame, n
      <4> HIDE DEF moved
      <4> QED
        BY <1>2, <3>4, <4>1, ExceptSeq
    <3> HIDE DEF moved
    <3> QED
      BY <3>4, <3>5
  <2> HIDE DEF moved, called
  <2>4. Name' = Name
    BY <2>1, <2>2, <2>3, NameCalls DEF IInv
  <2>5. /\ Len(frames') = n + 1 /\ frames'[n + 1] = called
        /\ \A k \in 1 .. n : frames'[k] = moved[k]
    <3> HIDE DEF n
    <3> QED
      BY <1>2, <2>1, <2>2, <2>3, AppendProperties
  <2>6. Innermost' = called
    BY <2>5 DEF Innermost
  <2>7. Cursor' = behind
    <3>1. Cursor' = moved[1].offset
      BY <1>2, <2>5 DEF Cursor
    <3>2. CASE mark.calls = 0
      <4>1. n = 1 /\ behind = at + 2
        BY <1>5, <1>6, <3>2
      <4> QED
        BY <2>3, <3>1, <4>1
    <3>3. CASE mark.calls # 0
      <4>1. n # 1 /\ 1 \in 1 .. n /\ Cursor = behind
        BY <1>2, <1>3, <1>6, <3>3
      <4>2. moved[1] = frames[1]
        BY <2>3, <4>1
      <4> QED
        BY <3>1, <4>1, <4>2 DEF Cursor
    <3> QED
      BY <3>2, <3>3
  <2>8. StandsAt(next, name, behind)'
    <3>1. Innermost'.offset = next.place
      BY <2>2, <2>6
    <3>2. Len(frames') = next.calls + 1
      BY <1>4, <1>6, <2>5
    <3>3. Name' = SubSeq(name, 1, next.told)
      BY <1>4, <1>7, <2>4
    <3>4. Innermost'.size + (IF Innermost'.labels = << >> THEN 0 ELSE 1) <= next.size
      BY <1>3, <1>4, <2>2, <2>6
    <3> QED
      BY <2>7, <3>1, <3>2, <3>3, <3>4 DEF StandsAt
  <2> QED
    BY <1>4, <2>1, <2>8 DEF Told, Errors, next
<1> QED
  BY <1>8, <1>9

(* Every step of the read keeps to the spelling.                             *)
LEMMA ToldStays ==
    ASSUME IInv, NEW bytes, NEW spelled, NEW from, NEW name, NEW behind,
           Spelled(bytes, spelled, from, name, behind),
           Told(bytes, spelled, name, behind), [Next]_vars
    PROVE  Told(bytes, spelled, name, behind)'
<1>1. CASE UNCHANGED vars
  BY <1>1 DEF vars, Told, StandsAt, Innermost, Name, Cursor
<1>2. CASE Next
  <2>1. result = "reading" /\ message' = message
    BY <1>2 DEF Next, OutsideMessage, EndOfName, InvalidMarker, ReadLabel, FollowPointer,
                ReadMarker, Fail
  <2>2. PICK i \in DOMAIN spelled : StandsAt(spelled[i], name, behind)
    BY <2>1 DEF Told
  <2>3. CASE OutsideMessage
    <3>1. result' \in Errors /\ ~(Innermost.offset + 1 <= Len(message))
      BY <2>3 DEF OutsideMessage, Fail, Errors, HasBytes
    <3>2. /\ Innermost.offset \in Nat /\ Len(message) \in Nat /\ Len(bytes) \in Nat
          /\ Innermost.offset < Len(bytes)
      BY <2>2, MarkerSeen
    <3>3. Len(message') < Len(bytes)
      BY <2>1, <3>1, <3>2
    <3>4. result' # "ok" /\ result' # "reading"
      BY <3>1 DEF Errors
    <3> QED
      BY <3>1, <3>3, <3>4 DEF Told
  <2>4. CASE InvalidMarker
    <3>1. HasBytes(Innermost.offset, 1) /\ Marker \in 64 .. 191
      BY <2>4 DEF InvalidMarker, ReadMarker
    <3>2. Marker = bytes[spelled[i].place + 1]
      BY <2>2, <3>1, MarkerSeen
    <3>3. Marker = 0 \/ Marker \in 1 .. 63 \/ Marker \in 192 .. 255
      <4>1. bytes[spelled[i].place + 1] = 0 \/ Tells(bytes, name, spelled[i], spelled[i + 1])
        BY <2>2, MarkFacts DEF Spelled
      <4> QED
        BY <3>2, <4>1 DEF Tells
    <3>4. \A x \in 64 .. 191 : x # 0 /\ x \notin 1 .. 63 /\ x \notin 192 .. 255
      OBVIOUS
    <3> QED
      BY <3>1, <3>3, <3>4
  <2> QED
    BY <1>2, <2>2, <2>3, <2>4, ToldByEnd, ToldByLabel, ToldByPointer DEF Next
<1> QED
  BY <1>1, <1>2

(* A name that is spelled where the read begins is read as it was spelled,   *)
(* and leaves the cursor behind it; if the message was cut, it is read so or *)
(* refused.  That is so for every spelling there is, of any length.          *)
SpelledIsRead ==
    \A bytes, spelled, name, behind :
        Spelled(bytes, spelled, start, name, behind) /\ result # "reading" =>
            \/ result = "ok" /\ Name = name /\ Cursor = behind
            \/ result \in Errors /\ Len(message) < Len(bytes)

Followed ==
    \A bytes, spelled, name, behind :
        Spelled(bytes, spelled, start, name, behind) => Told(bytes, spelled, name, behind)

(* read_dns_name reads what the writer of the name meant.                    *)
THEOREM SpelledAlwaysRead == Spec => []SpelledIsRead
<1>1. Init => Followed
  <2> SUFFICES ASSUME Init, NEW bytes, NEW spelled, NEW name, NEW behind,
                      Spelled(bytes, spelled, start, name, behind)
               PROVE  Told(bytes, spelled, name, behind)
    BY DEF Followed
  <2>1. start \in Nat /\ frames = <<Call(start)>> /\ result = "reading"
    <3>1. Len(message) \in Nat
      BY MessageBytes DEF Init
    <3> QED
      BY <3>1 DEF Init
  <2> QED
    BY <2>1, ToldAtStart DEF Spelled
<1>2. IInv /\ Followed /\ [Next]_vars => Followed'
  <2> SUFFICES ASSUME IInv, Followed, [Next]_vars,
                      NEW bytes, NEW spelled, NEW name, NEW behind,
                      Spelled(bytes, spelled, start, name, behind)'
               PROVE  Told(bytes, spelled, name, behind)'
    BY DEF Followed
  <2>1. message' = message /\ start' = start
    BY DEF vars, Next, OutsideMessage, EndOfName, InvalidMarker, ReadLabel, FollowPointer, Fail
  <2>2. Spelled(bytes, spelled, start, name, behind)
    BY <2>1 DEF Spelled, AgreesWith
  <2>3. Told(bytes, spelled, name, behind)
    BY <2>2 DEF Followed
  <2> QED
    BY <2>2, <2>3, ToldStays
<1>3. IInv /\ Followed => SpelledIsRead
  BY DEF IInv, TypeOK, Followed, SpelledIsRead, Told
<1> QED
  BY <1>1, <1>2, <1>3, InvariantHolds, PTL DEF Spec
=============================================================================
