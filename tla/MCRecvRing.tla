----------------------------- MODULE MCRecvRing -----------------------------
(***************************************************************************)
(* Small instances of RecvRing: a ring of 4 bytes (3 usable) that goes     *)
(* round more than once.  The peer's stream, seen as TLV items, repeats    *)
(* items with values of 1 and 0 bytes; other readers do not look at it.    *)
(***************************************************************************)
EXTENDS RecvRing

MCLens == 1 .. 3

\* Bytes 1 2 3 are an item with a value of one byte, bytes 4 5 one without value.
MCLenByte(n) == IF n % 5 = 2 THEN 1 ELSE 0
=============================================================================
