----------------------------- MODULE MCSendRing -----------------------------
(***************************************************************************)
(* A ring of 4 bytes (3 usable).  A send is of one byte or fills the ring, *)
(* in one piece or two; a TLV item with a value of one byte fills it too.  *)
(***************************************************************************)
EXTENDS SendRing

MCLens == {1, 3}
=============================================================================
