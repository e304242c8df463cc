----------------------------- MODULE DnsSpelling -----------------------------
(***************************************************************************)
(* How a name stands in a DNS message, from the side of who wrote it: RFC  *)
(* 1035's labels and compression pointers, nothing of the reader's code.   *)
(*                                                                         *)
(* A spelling lists the places of the bytes that say what comes next, with *)
(* what was told before each.  A writer knows it; a pointer may lead where *)
(* it likes, forward too, as long as the spelling ends.                    *)
(***************************************************************************)
EXTENDS Integers, Sequences

(* A place, and the labels, pointers and bytes (a length counts as one) of *)
(* the name that were told before it.                                      *)
Mark == [place : Nat, told : Nat, calls : Nat, size : Nat]

(* From one place to the next: behind a label, or where a pointer leads.   *)
Tells(bytes, name, mark, next) ==
    LET marker == bytes[mark.place + 1]
    IN  \/ /\ marker \in 1 .. 63
           /\ mark.place + 1 + marker <= Len(bytes)
           /\ mark.told < Len(name)
           /\ name[mark.told + 1] = SubSeq(bytes, mark.place + 2, mark.place + 1 + marker)
           /\ next = [place |-> mark.place + 1 + marker, told |-> mark.told + 1,
                      calls |-> mark.calls, size |-> mark.size + 1 + marker]
        \/ /\ marker \in 192 .. 255
           /\ mark.place + 2 <= Len(bytes)
           /\ next = [place |-> (marker % 64) * 256 + bytes[mark.place + 2],
                      told |-> mark.told, calls |-> mark.calls + 1, size |-> mark.size]

(* The name is spelled from this offset on, up to a zero.                  *)
Spells(bytes, spelled, from, name) ==
    /\ spelled \in Seq(Mark) /\ spelled # << >>
    /\ spelled[1] = [place |-> from, told |-> 0, calls |-> 0, size |-> 0]
    /\ \A k \in DOMAIN spelled :
          /\ spelled[k].place < Len(bytes)
          /\ spelled[k].told <= Len(name)
          /\ IF k < Len(spelled)
             THEN Tells(bytes, name, spelled[k], spelled[k + 1])
             ELSE bytes[spelled[k].place + 1] = 0 /\ spelled[k].told = Len(name)

(* What follows the name in the message begins here: behind its zero, or   *)
(* behind its first pointer.                                               *)
EndsAt(bytes, spelled, behind) ==
    \A k \in DOMAIN spelled : spelled[k].calls = 0 =>
        LET place == spelled[k].place
        IN  /\ bytes[place + 1] = 0 => behind = place + 1
            /\ bytes[place + 1] \in 192 .. 255 => behind = place + 2

(* A spelling that uses so many pointers at most and so many characters: a *)
(* name has one byte less than its lengths and labels.                     *)
WithinLimits(spelled, pointers, characters) ==
    \A k \in DOMAIN spelled :
        spelled[k].calls <= pointers /\ spelled[k].size <= characters + 1
=============================================================================
