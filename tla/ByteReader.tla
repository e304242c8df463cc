----------------------------- MODULE ByteReader -----------------------------
(***************************************************************************)
(* A view of bytes and a reader that walks over it: ByteView and           *)
(* ByteReader of src/src/core/byte_view.cpp.                               *)
(*                                                                         *)
(* Bytes are left out; what is modelled is which of them a call touches.   *)
(* Sums of offsets and counts have the width of the machine's sizes.       *)
(***************************************************************************)
EXTENDS Integers

CONSTANT SizeMod           \* sizes wrap around here: 2^64

ASSUME SizeModAssumption == SizeMod \in Nat \ {0}

Sizes == 0 .. SizeMod - 1

VARIABLES size,            \* of the view
          data,            \* where its bytes are: see Data
          offset,          \* of the reader
          asked,           \* the count that the last call was given
          span             \* the bytes that the last call touched

readerVars == <<size, data, offset, asked, span>>

(* In memory, or nowhere, as in a view that is made of a null pointer; or  *)
(* the null pointer was followed.  Nothing is said of what comes then.     *)
Data == {"memory", "null", "followed"}

(* at() and slice() look for this first; the readers of integers do not.   *)
ViewValid == data # "null" \/ size = 0

NoSpan == [first |-> 0, length |-> 0]
Span(first, length) == [first |-> first, length |-> length]

-----------------------------------------------------------------------------
Remaining == IF offset <= size THEN size - offset ELSE 0

CanRead(count) == count <= Remaining

(* Fault: the end is computed before it is compared, and may wrap around.  *)
SliceableUpTo(first, length) == (first + length) % SizeMod <= size

(* Fault: a view without data is sliced like any other.                    *)
SliceableBlindly(first, length) == first <= size /\ length <= size - first

(* The tests of ByteView::slice.                                           *)
Sliceable(first, length) == ViewValid /\ first <= size /\ length <= size - first

Min2(a, b) == IF a <= b THEN a ELSE b

-----------------------------------------------------------------------------
ReaderInit ==
    /\ size \in Sizes /\ data \in {"memory", "null"}
    /\ offset = 0 /\ asked = 0 /\ span = NoSpan

(* read_u8, read_be16, read_le16, read_be32, read_le32: all or nothing.    *)
(* They take the pointer of the view as it is.                             *)
ReadInteger(width) ==
    /\ asked' = width /\ size' = size
    /\ IF CanRead(width)
       THEN /\ span' = Span(offset, width) /\ offset' = offset + width
            /\ data' = IF data = "null" THEN "followed" ELSE data
       ELSE span' = NoSpan /\ offset' = offset /\ data' = data

(* Fault: the offset is set to the count.                                  *)
ReadBytesAssigning(count) ==
    /\ asked' = count /\ UNCHANGED <<size, data>>
    /\ IF CanRead(count) /\ Sliceable(offset, count)
       THEN span' = Span(offset, count) /\ offset' = count
       ELSE span' = NoSpan /\ offset' = offset

(* The reader only moves when the view could make the slice.               *)
ReadBytes(count) ==
    /\ asked' = count /\ UNCHANGED <<size, data>>
    /\ IF CanRead(count) /\ Sliceable(offset, count)
       THEN span' = Span(offset, count) /\ offset' = offset + count
       ELSE span' = NoSpan /\ offset' = offset

PeekBytes(count) ==
    /\ asked' = count /\ UNCHANGED <<size, data, offset>>
    /\ span' = IF CanRead(count) /\ Sliceable(offset, count) THEN Span(offset, count) ELSE NoSpan

(* ByteView::at and ByteView::slice, which know of no reader.              *)
ByteAt(first) ==
    /\ asked' = first /\ UNCHANGED <<size, data, offset>>
    /\ span' = IF ViewValid /\ first < size THEN Span(first, 1) ELSE NoSpan

Slice(first, length) ==
    /\ asked' = length /\ UNCHANGED <<size, data, offset>>
    /\ span' = IF Sliceable(first, length) THEN Span(first, length) ELSE NoSpan

Advance(count) ==
    /\ asked' = count /\ UNCHANGED <<size, data>> /\ span' = NoSpan
    /\ offset' = Min2(size, (offset + count) % SizeMod)

ReaderNext ==
    /\ data # "followed"
    /\ \/ \E width \in {1, 2, 4} : ReadInteger(width)
       \/ \E count \in Sizes :
              ReadBytes(count) \/ PeekBytes(count) \/ ByteAt(count) \/ Advance(count)
       \/ \E first, length \in Sizes : Slice(first, length)

-----------------------------------------------------------------------------
(* What a call touches lies within the view, whatever it is asked for, and *)
(* the reader never stands behind the end of it.  Where there are no bytes *)
(* none is touched, unless an integer is read, which follows the pointer.  *)
SpansInside ==
    /\ span.first + span.length <= size
    /\ offset <= size
    /\ data = "null" => span.length = 0

(* A reader goes back only when advance() is asked for so much that the    *)
(* sum wraps around; bytes handed out by reading are never handed out      *)
(* again, and none is passed over.                                         *)
NothingTwice ==
    [][/\ offset' < offset => offset + asked' >= SizeMod
       /\ offset' > offset /\ span' # NoSpan =>
              span'.first = offset /\ span'.first + span'.length = offset']_readerVars
=============================================================================
