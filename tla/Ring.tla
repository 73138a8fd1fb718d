-------------------------------- MODULE Ring --------------------------------
(***************************************************************************)
(* Pointer arithmetic of the two byte rings of a NetFet (dtnetsubs.h,      *)
(* dtnetsubs.c).  A pointer is its offset from the start of its ring, so   *)
(* "first" is 0 and "end" is the ring's size.  One byte of a ring is never *)
(* used: in = out means empty.                                             *)
(***************************************************************************)
EXTENDS Integers

CONSTANT Size                   \* end - first, in bytes

ASSUME SizeAssumption == Size \in Nat /\ Size >= 2

Offsets == 0 .. (Size - 1)

\* Bytes from pointer a forward to pointer b.
Dist(a, b) == IF b >= a THEN b - a ELSE Size - a + b

\* dtFetData, dtSendData and locDtFetData, from one consistent pair of pointers.
Data(in, out) == Dist(out, in)

\* dtFetFree and dtSendFree.
Free(in, out) == Size - Data(in, out) - 1

\* The same macros when "in >= out" was evaluated (as cmp) before the pointers
\* were read again for the subtraction.  The result may be negative.
DataTorn(cmp, in, out) == IF cmp THEN in - out ELSE Size - out + in

FreeTorn(cmp, in, out) == Size - DataTorn(cmp, in, out) - 1

\* Mutant: no byte is kept unused when the ring has wrapped.
RoomAll(in, out) ==
    IF in < out THEN out - in ELSE Size - in - (IF out = 0 THEN 1 ELSE 0)

\* Bytes that may be stored at "in" in one piece.
Room(in, out) ==
    IF in < out THEN out - in - 1
                ELSE Size - in - (IF out = 0 THEN 1 ELSE 0)

\* Mutant: the piece always runs to the end of the ring.
AvailToEnd(in, out) == Size - out

\* Bytes that may be taken from "out" in one piece, of a ring that is not empty.
Avail(in, out) == IF out < in THEN in - out ELSE Size - out

\* The pointer p after k bytes, none of them beyond the end of the ring.
Advance(p, k) == IF p + k = Size THEN 0 ELSE p + k

\* The cells of a piece of k bytes at p.
Piece(p, k) == p .. (p + k - 1)
=============================================================================
