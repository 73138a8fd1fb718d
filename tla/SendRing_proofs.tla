-------------------------- MODULE SendRing_proofs ---------------------------
(***************************************************************************)
(* The transmit ring of a NetFet is safe for rings of every size and for   *)
(* every sequence of sends and closes: proofs about SendRing.              *)
(***************************************************************************)
EXTENDS SendRing, TLAPS

-----------------------------------------------------------------------------
(***************************************************************************)
(* Arithmetic of ring pointers, for rings of every size: what the macros   *)
(* of dtnetsubs.h and the wrap of a pointer do to the distances between    *)
(* pointers.                                                               *)
(***************************************************************************)
\* A distance is less than the ring's size, and only a pointer's distance from itself is 0.
LEMMA DistType ==
    ASSUME NEW a \in Offsets, NEW b \in Offsets
    PROVE  Dist(a, b) \in Offsets /\ (Dist(a, b) = 0 <=> a = b)
BY SizeAssumption DEF Offsets, Dist

\* No two pointers are at the same distance.
LEMMA DistInjective ==
    ASSUME NEW a \in Offsets, NEW b \in Offsets, NEW c \in Offsets, Dist(a, b) = Dist(a, c)
    PROVE  b = c
BY SizeAssumption DEF Offsets, Dist

\* A pointer that moves by a piece stays in the ring.
LEMMA AdvanceType ==
    ASSUME NEW a \in Offsets, NEW k \in Nat, a + k <= Size
    PROVE  Advance(a, k) \in Offsets
BY SizeAssumption DEF Offsets, Advance

\* A pointer that moves away from a gets farther from it.
LEMMA AdvanceAway ==
    ASSUME NEW a \in Offsets, NEW b \in Offsets, NEW k \in Nat,
           b + k <= Size, Dist(a, b) + k < Size
    PROVE  Dist(a, Advance(b, k)) = Dist(a, b) + k
BY SizeAssumption DEF Offsets, Dist, Advance

\* A pointer that moves towards b, and not past it, gets nearer to it.
LEMMA AdvanceTowards ==
    ASSUME NEW a \in Offsets, NEW b \in Offsets, NEW k \in Nat,
           a + k <= Size, k <= Dist(a, b)
    PROVE  Dist(Advance(a, k), b) = Dist(a, b) - k
BY SizeAssumption DEF Offsets, Dist, Advance

\* Distances add up as long as they do not go round the ring.
LEMMA DistAdds ==
    ASSUME NEW a \in Offsets, NEW b \in Offsets, NEW c \in Offsets,
           Dist(a, b) + Dist(b, c) < Size
    PROVE  Dist(a, c) = Dist(a, b) + Dist(b, c)
BY SizeAssumption DEF Offsets, Dist

\* A pointer is before b, seen from a, or b lies between.
LEMMA DistSplits ==
    ASSUME NEW a \in Offsets, NEW b \in Offsets, NEW c \in Offsets
    PROVE  Dist(a, c) < Dist(a, b) \/ Dist(a, c) = Dist(a, b) + Dist(b, c)
BY SizeAssumption DEF Offsets, Dist

\* The cells of a piece, seen from where it starts.
LEMMA PieceDist ==
    ASSUME NEW a \in Offsets, NEW k \in Nat, a + k <= Size, NEW c \in Offsets
    PROVE  /\ c \in Piece(a, k) <=> Dist(a, c) < k
           /\ c \in Piece(a, k) => Dist(a, c) = c - a
BY SizeAssumption DEF Offsets, Dist, Piece

\* What may be stored in one piece runs neither past the end of the ring nor into out.
LEMMA RoomFits ==
    ASSUME NEW inp \in Offsets, NEW outp \in Offsets
    PROVE  /\ Room(inp, outp) \in Nat
           /\ inp + Room(inp, outp) <= Size
           /\ Room(inp, outp) <= Free(inp, outp)
BY SizeAssumption DEF Offsets, Room, Free, Data, Dist

\* What may be taken in one piece is at least a byte, and in the ring.
LEMMA AvailFits ==
    ASSUME NEW inp \in Offsets, NEW outp \in Offsets, inp # outp
    PROVE  /\ Avail(inp, outp) \in 1 .. Size
           /\ outp + Avail(inp, outp) <= Size
           /\ Avail(inp, outp) <= Data(inp, outp)
BY SizeAssumption DEF Offsets, Avail, Data, Dist

\* dtSendFree with an old comparison never promises more room than there is, as long
\* as a comparison that said "in >= out" still holds.
LEMMA FreeTornSafe ==
    ASSUME NEW inp \in Offsets, NEW outp \in Offsets, NEW ge \in BOOLEAN,
           ge => outp <= inp
    PROVE  FreeTorn(ge, inp, outp) <= Free(inp, outp)
BY SizeAssumption DEF Offsets, FreeTorn, DataTorn, Free, Data, Dist

-----------------------------------------------------------------------------
(***************************************************************************)
(* What a ring holds, seen as a sequence: the numbers of a stream.         *)
(***************************************************************************)
\* The n numbers after f.
Run(f, n) == [i \in 1 .. n |-> f + i]

\* Two runs of numbers that follow each other are one.
LEMMA RunAppends ==
    ASSUME NEW f \in Int, NEW h \in Nat, NEW n \in Nat
    PROVE  Run(f, h + n) = Run(f, h) \o Run(f + h, n)
BY DEF Run

\* A run without its first n numbers.
LEMMA RunDrops ==
    ASSUME NEW f \in Int, NEW h \in Nat, NEW n \in 0 .. h
    PROVE  Run(f + n, h - n) = SubSeq(Run(f, h), n + 1, Len(Run(f, h)))
BY DEF Run

\* Arithmetic that steps need on terms too large for the prover.
LEMMA Associates ==
    ASSUME NEW f \in Int, NEW g \in Int, NEW h \in Int
    PROVE  (f + g) + h = f + (g + h)
OBVIOUS

\* Likewise.
LEMMA Shifts ==
    ASSUME NEW f \in Int, NEW g \in Nat, NEW h \in 0 .. g
    PROVE  f + g = (f + h) + (g - h)
OBVIOUS

\* Likewise.
LEMMA Cancels ==
    ASSUME NEW f \in Int, NEW g \in Int, NEW h \in Int, f + h = g + h
    PROVE  f = g
OBVIOUS

-----------------------------------------------------------------------------
(***************************************************************************)
(* The ring.                                                               *)
(***************************************************************************)
\* The state of the ring and of what was sent, which most steps leave alone.
ringVars == <<ring, sendin, sendout, spc, size, accepted, wire>>

\* Room for at least a byte means that the next pointer is not the reader's.
LEMMA NextFree ==
    ASSUME NEW a \in Offsets, NEW b \in Offsets, Free(a, b) >= 1
    PROVE  /\ Advance(a, 1) # b /\ Advance(a, 1) \in Offsets
           /\ Free(Advance(a, 1), b) = Free(a, b) - 1
           /\ Data(Advance(a, 1), b) = Data(a, b) + 1
BY SizeAssumption DEF Offsets, Advance, Free, Data, Dist

\* The invariant holds in a FET that dtNewFet has just set up.
LEMMA InitIInv == Init => IInv
<1> SUFFICES ASSUME Init PROVE IInv
  OBVIOUS
<1>1. TypeOK
  BY SizeAssumption DEF Init, TypeOK, Offsets, Ok, OkFull, TlvFull, EAGAIN, ENOTCONN, Results,
     MainStates, SendStates
<1>2. WireInOrder
  BY DEF Init, WireInOrder
<1>3. RingHolds
  BY SizeAssumption DEF Init, RingHolds, Held, First, Data, Dist, Offsets
<1>4. SendPiece /\ Compared /\ Entering /\ Copying
  BY DEF Init, SendPiece, Compared, Entering, Copying
<1> QED
  BY <1>1, <1>2, <1>3, <1>4 DEF IInv

\* A step that leaves the ring and the send thread alone disturbs only what the
\* operation in hand knows.
LEMMA RingFrame ==
    ASSUME IInv, UNCHANGED ringVars
    PROVE  WireInOrder' /\ RingHolds' /\ SendPiece'
BY DEF IInv, ringVars, WireInOrder, RingHolds, SendPiece, Held, First, Data, Dist

\* What the arithmetic of the steps rests on.
LEMMA Basics ==
    ASSUME IInv
    PROVE  /\ sendin \in Offsets /\ sendout \in Offsets
           /\ in \in Offsets /\ out \in Offsets
           /\ Held = Dist(sendout, sendin) /\ Held \in Offsets
           /\ Free(sendin, sendout) = Size - 1 - Held
           /\ len \in Nat /\ src \in Nat /\ accepted \in Nat /\ before \in Nat
           /\ size \in Nat /\ Len(wire) \in Nat /\ First \in Int
<1>1. TypeOK
  BY DEF IInv
<1>2. /\ sendin \in Offsets /\ sendout \in Offsets
      /\ in \in Offsets /\ out \in Offsets
      /\ len \in Nat /\ src \in Nat /\ accepted \in Nat /\ before \in Nat
      /\ size \in Nat /\ Len(wire) \in Nat
  BY <1>1, SizeAssumption DEF TypeOK
<1>3. Held = Dist(sendout, sendin) /\ Held \in Offsets
  BY <1>2, DistType DEF Held, Data
<1>4. Free(sendin, sendout) = Size - 1 - Held
  BY <1>2, <1>3, SizeAssumption DEF Free, Held, Offsets
<1> QED
  BY <1>2, <1>3, <1>4 DEF First

(***************************************************************************)
(* The main thread.                                                        *)
(***************************************************************************)
\* A call of dtSend: it has stored nothing yet.
LEMMA CallSendKeeps ==
    ASSUME IInv, NEW n \in Lens, CallSend(n)
    PROVE  IInv'
<1> USE DEF CallSend, EnterSend, Return, fetVars, sendVars
<1>1. TypeOK'
  BY SendRingAssumption DEF IInv, TypeOK, MainStates, Results, ENOTCONN
<1>2. WireInOrder' /\ RingHolds' /\ SendPiece'
  BY RingFrame DEF ringVars
<1>3. Compared' /\ Entering' /\ Copying'
  BY DEF IInv, TypeOK, Compared, Entering, Copying, Tag
<1> QED
  BY <1>1, <1>2, <1>3 DEF IInv

\* A call of dtSendTlv, which wants room for tag, length and value.
LEMMA CallSendTlvKeeps ==
    ASSUME IInv, NEW n \in Lens, CallSendTlv(n)
    PROVE  IInv'
<1> USE DEF CallSendTlv, fetVars, sendVars
<1>0. n \in Nat
  BY SendRingAssumption
<1>1. TypeOK'
  BY <1>0 DEF IInv, TypeOK, MainStates
<1>2. WireInOrder' /\ RingHolds' /\ SendPiece'
  BY RingFrame DEF ringVars
<1>3. Compared' /\ Entering' /\ Copying'
  BY <1>0 DEF IInv, TypeOK, Compared, Entering, Copying, Tag
<1> QED
  BY <1>1, <1>2, <1>3 DEF IInv

\* dtSendFree's comparison of the pointers.
LEMMA FreeCompareKeeps ==
    ASSUME IInv, FreeCompare
    PROVE  IInv'
<1> USE DEF FreeCompare, fetVars, sendVars
<1>1. TypeOK'
  BY DEF IInv, TypeOK, MainStates, Offsets
<1>2. WireInOrder' /\ RingHolds' /\ SendPiece'
  BY RingFrame DEF ringVars
<1>3. Compared'
  BY DEF IInv, TypeOK, Compared, Offsets
<1>4. Entering' /\ Copying'
  BY DEF IInv, TypeOK, Entering, Copying, Tag
<1> QED
  BY <1>1, <1>2, <1>3, <1>4 DEF IInv

\* dtSendFree's subtraction, and the verdict that the bytes fit.
LEMMA FreeSubtractKeeps ==
    ASSUME IInv, FreeSubtract
    PROVE  IInv'
<1> USE DEF FreeSubtract, Return, fetVars, sendVars
<1>1. TypeOK'
  BY DEF IInv, TypeOK, MainStates, Results, TlvFull, EAGAIN
<1>2. WireInOrder' /\ RingHolds' /\ SendPiece'
  BY RingFrame DEF ringVars
<1>3. FreeTorn(cmp, sendin, sendout) <= Free(sendin, sendout)
  BY FreeTornSafe DEF IInv, TypeOK, Compared
<1>4. FreeTorn(cmp, sendin, sendout) \in Int /\ Free(sendin, sendout) \in Int
  BY SizeAssumption DEF IInv, TypeOK, FreeTorn, DataTorn, Free, Data, Dist, Offsets
<1>5. mpc' \in {"sendo", "pointers"} => len <= Free(sendin, sendout)
  BY <1>3, <1>4 DEF IInv, TypeOK
<1>6. Compared' /\ Copying'
  BY DEF IInv, Compared, Copying
<1>7. Free(sendin, sendout)' = Free(sendin, sendout)
  BY DEF Free, Data, Dist
<1>8. Entering'
  BY <1>4, <1>5, <1>7 DEF IInv, TypeOK, Entering, Tag, Stored
<1> QED
  BY <1>1, <1>2, <1>6, <1>8 DEF IInv

\* dtSendo stores its byte into a free cell, outside what is held.
LEMMA SendoStoreKeeps ==
    ASSUME IInv, SendoStore
    PROVE  IInv'
<1> USE DEF SendoStore
<1>1. Free(sendin, sendout) >= 1
  BY SizeAssumption DEF IInv, TypeOK, Entering, Stored, Free, Data, Dist, Offsets
<1>2. /\ mpc' = "sendoPublish"
      /\ ring' = [ring EXCEPT ![sendin] = src]
  BY <1>1, NextFree DEF IInv, TypeOK
<1>3. TypeOK'
  BY <1>2 DEF IInv, TypeOK, MainStates, sendVars
<1>4. WireInOrder' /\ SendPiece'
  BY DEF IInv, WireInOrder, SendPiece, Held, Data, Dist, sendVars
<1>5. ~(Dist(sendout, sendin) < Held)
  BY Basics DEF Offsets
<1>6. RingHolds'
  BY <1>2, <1>5 DEF IInv, TypeOK, RingHolds, Held, First, Data, sendVars, Dist
<1>7. Free(sendin, sendout)' = Free(sendin, sendout)
  BY DEF Free, Data, Dist
<1>8. Compared' /\ Entering' /\ Copying'
  BY <1>2, <1>7 DEF IInv, TypeOK, Compared, Entering, Copying, Tag, Stored
<1> QED
  BY <1>3, <1>4, <1>6, <1>8 DEF IInv

\* dtSendo moves sendin: the byte joins what is held.
LEMMA SendoPublishKeeps ==
    ASSUME IInv, SendoPublish
    PROVE  IInv'
<1> USE DEF SendoPublish
<1>1. Free(sendin, sendout) >= 1
  BY SizeAssumption DEF IInv, TypeOK, Entering, Stored, Free, Data, Dist, Offsets
<1>2. /\ sendin' = Advance(sendin, 1) /\ sendin' \in Offsets
      /\ Free(sendin', sendout) = Free(sendin, sendout) - 1
      /\ Held' = Held + 1
      /\ ring[sendin] = src /\ src = accepted + 1
  BY <1>1, NextFree DEF IInv, TypeOK, Entering, Held
<1>3. TypeOK'
  BY <1>2 DEF IInv, TypeOK, MainStates, sendVars
<1>4. WireInOrder'
  BY DEF IInv, WireInOrder, sendVars
<1>5. Held \in Nat /\ Free(sendin, sendout) \in Int
  BY Basics, SizeAssumption DEF Offsets
<1>6. SendPiece'
  <2>1. Held' # 0 /\ Held' = Dist(sendout', sendin')
    BY <1>2, <1>5 DEF Held, Data
  <2>2. sendin' # sendout'
    BY <2>1, <1>2, DistType, Basics
  <2> QED
    BY <2>2, <1>2, <1>5, Basics DEF IInv, SendPiece, sendVars
<1>7. RingHolds'
  <2>1. (accepted + 1 = First + Held)'
    BY <1>2, <1>5 DEF IInv, TypeOK, RingHolds, First, sendVars
  <2>2. ASSUME NEW c \in Offsets, Dist(sendout, c) < Held + 1
        PROVE  ring[c] = First + Dist(sendout, c)
    <3>0. Dist(sendout, c) \in Nat
      <4>1. Dist(sendout, c) \in Offsets
        BY DistType, Basics
      <4> QED
        BY <4>1, SizeAssumption DEF Offsets
    <3>1. CASE Dist(sendout, c) < Held
      BY <3>1 DEF IInv, RingHolds
    <3>2. CASE Dist(sendout, c) = Held
      <4>1. c = sendin
        BY <3>2, Basics, DistInjective
      <4> QED
        BY <4>1, <3>2, <1>2 DEF IInv, RingHolds
    <3> QED
      BY <2>2, <3>0, <3>1, <3>2, <1>5
  <2> QED
    BY <2>1, <2>2, <1>2 DEF RingHolds, First, Dist, sendVars
<1>8. Compared' /\ Entering' /\ Copying'
  BY <1>2, <1>5 DEF IInv, TypeOK, Compared, Entering, Copying, Stored
<1> QED
  BY <1>3, <1>4, <1>6, <1>7, <1>8 DEF IInv

\* Back in dtSendTlv: the next header byte, or dtSend of the value.
LEMMA SendoDoneKeeps ==
    ASSUME IInv, SendoDone
    PROVE  IInv'
<1> USE DEF SendoDone, EnterSend, Return, fetVars, sendVars
<1>1. TypeOK'
  BY DEF IInv, TypeOK, Entering, MainStates, Results, ENOTCONN
<1>2. WireInOrder' /\ RingHolds' /\ SendPiece'
  BY RingFrame DEF ringVars
<1>3. Compared' /\ Copying'
  BY DEF IInv, Compared, Copying
<1>4. Free(sendin, sendout)' = Free(sendin, sendout) /\ Free(sendin, sendout) \in Int
  BY SizeAssumption DEF IInv, TypeOK, Free, Data, Dist, Offsets
<1>5. Entering'
  <2>0. /\ src = accepted /\ len >= 2 /\ Stored \in {0, 1}
        /\ len - Stored - 1 <= Free(sendin, sendout)
    BY DEF IInv, Entering
  <2>1. CASE src = before + 1
    <3>1. mpc' = "sendo" /\ len' = len /\ Stored = 0 /\ Stored' = 1 /\ src' = accepted' + 1
      BY <2>0, <2>1, Basics DEF Stored
    <3> QED
      BY <3>1, <2>0, <1>4, Basics DEF Entering
  <2>2. CASE src # before + 1
    <3>1. mpc' \in {"freeCmp", "idle"} /\ src' = accepted' + 1 /\ src' # before' + 1
      BY <2>0, <2>2, Basics, SMTT(30) DEF Stored
    <3> QED
      BY <3>1 DEF Entering, Tag
  <2> QED
    BY <2>1, <2>2
<1> QED
  BY <1>1, <1>2, <1>3, <1>5 DEF IInv

\* dtSend takes its copies of the pointers.
LEMMA PointersKeeps ==
    ASSUME IInv, Pointers
    PROVE  IInv'
<1> USE DEF Pointers, fetVars, sendVars
<1>1. TypeOK'
  BY DEF IInv, TypeOK, MainStates
<1>2. WireInOrder' /\ RingHolds' /\ SendPiece'
  BY RingFrame DEF ringVars
<1>3. Compared' /\ Entering'
  BY DEF IInv, Compared, Entering
<1>4. /\ len <= Size - 1 - Held /\ src = accepted + 1
      /\ Held = Dist(sendout, sendin) /\ Held' = Held
  BY Basics DEF IInv, Entering, Held, Data, Dist
<1>5. Dist(sendin, sendin) = 0 /\ Dist(sendout, sendout) = 0
  BY Basics, DistType
<1>6. \A c \in Offsets : ~(Dist(sendin, c) < 0)
  <2>1. \A c \in Offsets : Dist(sendin, c) \in Offsets
    BY Basics, DistType
  <2> QED
    BY <2>1, SizeAssumption DEF Offsets
<1>7. Copying'
  <2>1. /\ (src = accepted + 1 + Dist(sendin, in))'
        /\ (\A c \in Offsets :
               Dist(sendin, c) < Dist(sendin, in) => ring[c] = accepted + 1 + Dist(sendin, c))'
    BY <1>4, <1>5, <1>6, Basics
  <2>2. /\ (Dist(out, sendout) + Held = Dist(out, sendin))'
        /\ (Dist(out, sendin) + Dist(sendin, in) + len < Size)'
    BY <1>4, <1>5, Basics, SizeAssumption DEF Offsets
  <2> QED
    BY <2>1, <2>2 DEF Copying
<1> QED
  BY <1>1, <1>2, <1>3, <1>7 DEF IInv

\* The piece dtSend copies next: it lies in the free part of the ring, whatever the
\* send thread has given back since dtSend read sendout.
LEMMA CopyFits ==
    ASSUME IInv, mpc = "memcpy"
    PROVE  /\ CopySize \in Nat /\ CopySize <= len /\ in + CopySize <= Size
           /\ Dist(sendin, in) + CopySize < Size
           /\ Advance(in, CopySize) \in Offsets
           /\ Dist(sendin, Advance(in, CopySize)) = Dist(sendin, in) + CopySize
           /\ \A c \in Piece(in, CopySize) :
                  c \in Offsets => /\ Dist(sendin, c) = Dist(sendin, in) + (c - in)
                                  /\ ~(Dist(sendout, c) < Held)
<1>0. /\ Dist(sendin, in) \in Nat /\ Dist(out, sendin) \in Nat /\ Dist(out, sendout) \in Nat
      /\ Held \in Nat /\ Size \in Nat
  <2>1. Dist(sendin, in) \in Offsets /\ Dist(out, sendin) \in Offsets
        /\ Dist(out, sendout) \in Offsets
    BY Basics, DistType
  <2> QED
    BY <2>1, Basics, SizeAssumption DEF Offsets
<1>a. len \in Nat /\ Held = Dist(sendout, sendin)
  BY Basics
<1>1. /\ Dist(out, sendout) + Held = Dist(out, sendin)
      /\ Dist(out, sendin) + Dist(sendin, in) + len < Size
  BY DEF IInv, Copying
<1>2. CopySize \in Nat /\ CopySize <= len /\ in + CopySize <= Size
  <2>1. Room(in, out) \in Nat /\ in + Room(in, out) <= Size
    BY Basics, RoomFits
  <2> QED
    BY <2>1, Basics, SizeAssumption, SMTT(30) DEF CopySize, Offsets
<1>3. Dist(sendin, in) + CopySize < Size
  BY <1>0, <1>1, <1>2, <1>a
<1>4. Advance(in, CopySize) \in Offsets
  BY <1>2, Basics, AdvanceType
<1>5. Dist(sendin, Advance(in, CopySize)) = Dist(sendin, in) + CopySize
  BY <1>2, <1>3, Basics, AdvanceAway
<1>6. ASSUME NEW c \in Offsets, c \in Piece(in, CopySize)
      PROVE  Dist(sendin, c) = Dist(sendin, in) + (c - in) /\ ~(Dist(sendout, c) < Held)
  <2>1. Dist(in, c) < CopySize /\ Dist(in, c) = c - in /\ Dist(in, c) \in Nat
    <3>1. Dist(in, c) < CopySize /\ Dist(in, c) = c - in
      BY <1>2, <1>6, Basics, PieceDist
    <3>2. Dist(in, c) \in Offsets
      BY Basics, DistType
    <3> QED
      BY <3>1, <3>2, SizeAssumption DEF Offsets
  <2>2. Dist(sendin, c) = Dist(sendin, in) + Dist(in, c)
    BY <1>0, <1>3, <1>2, <2>1, Basics, DistAdds, SMTT(30)
  <2>3. Dist(sendout, c) = Held + Dist(sendin, c)
    <3>1. Dist(sendout, sendin) + Dist(sendin, c) < Size
      BY <1>0, <1>1, <1>2, <2>1, <2>2, <1>a
    <3> QED
      BY <3>1, Basics, DistAdds
  <2> QED
    BY <1>0, <2>1, <2>2, <2>3
<1> QED
  BY <1>2, <1>3, <1>4, <1>5, <1>6

\* dtSend copies a piece into free cells.
LEMMA MemcpyKeeps ==
    ASSUME IInv, Memcpy
    PROVE  IInv'
<1> DEFINE k == CopySize
<1>0. /\ mpc = "memcpy" /\ mpc' \in {"memcpy", "publish"}
      /\ ring' = [i \in Offsets |-> IF i \in Piece(in, k) THEN src + (i - in) ELSE ring[i]]
      /\ in' = Advance(in, k) /\ src' = src + k /\ len' = len - k
      /\ UNCHANGED <<sendin, sendout, out, accepted, spc, size, wire>>
  BY DEF Memcpy, sendVars
<1>1. /\ k \in Nat /\ k <= len /\ in + k <= Size /\ in' \in Offsets
      /\ Dist(sendin, in') = Dist(sendin, in) + k
  BY <1>0, CopyFits
<1>2. \A c \in Offsets : c \in Piece(in, k) =>
          /\ Dist(sendin, c) = Dist(sendin, in) + (c - in)
          /\ ~(Dist(sendout, c) < Held)
  BY <1>0, CopyFits
<1>3. /\ src = accepted + 1 + Dist(sendin, in)
      /\ \A c \in Offsets :
             Dist(sendin, c) < Dist(sendin, in) => ring[c] = accepted + 1 + Dist(sendin, c)
      /\ Dist(out, sendout) + Held = Dist(out, sendin)
      /\ Dist(out, sendin) + Dist(sendin, in) + len < Size
  BY <1>0 DEF IInv, Copying
<1> HIDE DEF k
<1>4. \A a, b \in Offsets : Dist(a, b) \in Nat
  BY DistType, SizeAssumption DEF Offsets
<1>a. /\ src \in Nat /\ len \in Nat /\ accepted \in Nat
      /\ sendin \in Offsets /\ sendout \in Offsets /\ in \in Offsets /\ out \in Offsets
  BY Basics
<1>b. Offsets \subseteq Nat /\ Size \in Nat
  BY SizeAssumption DEF Offsets
<1>5. Held' = Held /\ First' = First
  BY <1>0 DEF Held, First, Data, Dist
<1>6. TypeOK'
  <2>1. len' \in Nat /\ src' \in Nat /\ in' \in Offsets
    BY <1>0, <1>1, Basics
  <2>2. ring' \in [Offsets -> Nat]
    <3>1. \A i \in Offsets : i \in Piece(in, k) => src + (i - in) \in Nat
      BY <1>1, <1>a, <1>b DEF Piece
    <3> QED
      BY <1>0, <3>1 DEF IInv, TypeOK
  <2> QED
    BY <1>0, <2>1, <2>2 DEF IInv, TypeOK, Memcpy, MainStates, sendVars
<1>7. WireInOrder' /\ SendPiece' /\ Compared' /\ Entering'
  BY <1>0, <1>5 DEF IInv, WireInOrder, SendPiece, Compared, Entering
<1>8. RingHolds'
  <2>1. \A c \in Offsets : Dist(sendout, c) < Held => ring'[c] = ring[c]
    BY <1>0, <1>2
  <2> QED
    BY <1>0, <1>5, <2>1 DEF IInv, RingHolds
<1>9. Copying'
  <2>1. src' = accepted' + 1 + Dist(sendin', in')
    BY <1>0, <1>1, <1>3, <1>4, <1>a, <1>b
  <2>2. ASSUME NEW c \in Offsets, Dist(sendin, c) < Dist(sendin, in')
        PROVE  ring'[c] = accepted + 1 + Dist(sendin, c)
    <3>1. CASE c \in Piece(in, k)
      <4>1. ring'[c] = src + (c - in)
        BY <1>0, <3>1
      <4> QED
        BY <4>1, <1>2, <1>3, <1>4, <3>1, <1>a, <1>b
    <3>2. CASE c \notin Piece(in, k)
      <4>1. ring'[c] = ring[c]
        BY <1>0, <3>2
      <4>2. ~(Dist(in, c) < k)
        BY <1>1, <3>2, PieceDist, Basics
      <4>3. Dist(sendin, c) < Dist(sendin, in)
        <5>1. \/ Dist(sendin, c) < Dist(sendin, in)
              \/ Dist(sendin, c) = Dist(sendin, in) + Dist(in, c)
          BY <1>a, DistSplits
        <5> QED
          BY <5>1, <4>2, <2>2, <1>1, <1>4, <1>a
      <4> QED
        BY <4>1, <4>3, <1>3
    <3> QED
      BY <3>1, <3>2
  <2>3. Dist(out', sendin') + Dist(sendin', in') + len' < Size
    BY <1>0, <1>1, <1>3, <1>4, <1>a, <1>b
  <2> QED
    BY <1>0, <1>3, <1>5, <2>1, <2>2, <2>3 DEF Copying
<1> QED
  BY <1>6, <1>7, <1>8, <1>9 DEF IInv

\* dtSend moves sendin over all it has copied.
LEMMA PublishKeeps ==
    ASSUME IInv, Publish
    PROVE  IInv'
<1>0. /\ mpc = "publish" /\ mpc' = "post" /\ sendin' = in /\ accepted' = src - 1
      /\ UNCHANGED <<ring, sendout, spc, size, wire>>
  BY DEF Publish, sendVars
<1>1. /\ src = accepted + 1 + Dist(sendin, in)
      /\ \A c \in Offsets :
             Dist(sendin, c) < Dist(sendin, in) => ring[c] = accepted + 1 + Dist(sendin, c)
      /\ Dist(out, sendout) + Held = Dist(out, sendin)
      /\ Dist(out, sendin) + Dist(sendin, in) + len < Size
  BY <1>0 DEF IInv, Copying
<1>2. /\ accepted + 1 = First + Held
      /\ \A c \in Offsets : Dist(sendout, c) < Held => ring[c] = First + Dist(sendout, c)
  BY DEF IInv, RingHolds
<1>3. /\ sendin \in Offsets /\ sendout \in Offsets /\ in \in Offsets /\ out \in Offsets
      /\ Held = Dist(sendout, sendin) /\ First \in Int /\ accepted \in Nat /\ len \in Nat
      /\ size \in Nat
  BY Basics
<1>4. (\A a, b \in Offsets : Dist(a, b) \in Nat) /\ Size \in Nat
  BY DistType, SizeAssumption DEF Offsets
<1>5. Dist(sendout, in) = Held + Dist(sendin, in)
  <2>1. Dist(sendout, sendin) + Dist(sendin, in) < Size
    BY <1>1, <1>3, <1>4
  <2> QED
    BY <2>1, <1>3, DistAdds
<1>6. Held' = Held + Dist(sendin, in) /\ First' = First
  BY <1>0, <1>5 DEF Held, First, Data
<1>7. TypeOK'
  <2>1. accepted' \in Nat
    BY <1>0, <1>1, <1>3, <1>4
  <2> QED
    BY <1>0, <1>3, <2>1 DEF IInv, TypeOK, Publish, MainStates, sendVars
<1>8. WireInOrder'
  BY <1>0 DEF IInv, WireInOrder
<1>9. RingHolds'
  <2>1. accepted' + 1 = First' + Held'
    BY <1>0, <1>1, <1>2, <1>3, <1>4, <1>6
  <2>2. ASSUME NEW c \in Offsets, Dist(sendout, c) < Held + Dist(sendin, in)
        PROVE  ring[c] = First + Dist(sendout, c)
    <3>1. CASE Dist(sendout, c) < Held
      BY <1>2, <3>1
    <3>2. CASE Dist(sendout, c) = Held + Dist(sendin, c)
      <4>1. Dist(sendin, c) < Dist(sendin, in)
        BY <2>2, <3>2, <1>3, <1>4
      <4> QED
        BY <4>1, <3>2, <1>1, <1>2, <1>3, <1>4
    <3> QED
      BY <3>1, <3>2, <1>3, DistSplits
  <2> QED
    BY <1>0, <1>6, <2>1, <2>2 DEF RingHolds
<1>10. SendPiece'
  <2>1. ASSUME spc = "pointers" PROVE in # sendout
    <3>1. Held # 0 /\ Held + Dist(sendin, in) # 0
      BY <2>1, <1>3, <1>4, DistType DEF IInv, SendPiece
    <3> QED
      BY <3>1, <1>3, <1>5, DistType
  <2>2. ASSUME size <= Held PROVE size <= Held'
    BY <2>2, <1>3, <1>4, <1>6
  <2> QED
    BY <1>0, <2>1, <2>2 DEF IInv, SendPiece
<1>11. Compared' /\ Entering' /\ Copying'
  BY <1>0 DEF Compared, Entering, Copying
<1> QED
  BY <1>7, <1>8, <1>9, <1>10, <1>11 DEF IInv

\* The other steps of the main thread, which leave the ring alone and end in a place
\* the invariant says nothing about.
MainQuiet ==
    /\ UNCHANGED <<ring, sendin, sendout, op, len, in, out, src, cmp, accepted, before,
                   sendVars>>
    /\ mpc' \in {"idle", "fullCmp", "closeSocket", "closePost", "closed"}
    /\ ssem' \in {ssem, ssem + 1}
    /\ connected' \in {connected, FALSE} /\ closing' \in {closing, 1, 2}
    /\ connFd' \in {connFd, "dtNC"} /\ socket' \in {socket, "closed"}
    /\ retval' \in {retval, Ok, OkFull}

\* The other steps of the main thread: waking the send thread, results, closing.
LEMMA MainQuietKeeps ==
    ASSUME IInv, MainQuiet
    PROVE  IInv'
<1>1. TypeOK'
  <2>1. ssem' \in Nat /\ closing' \in 0 .. 2
    BY DEF IInv, TypeOK, MainQuiet
  <2>3. connected' \in BOOLEAN
    BY Zenon DEF IInv, TypeOK, MainQuiet
  <2>2. /\ mpc' \in MainStates /\ retval' \in Results
        /\ connFd' \in {"open", "dtNC"} /\ socket' \in {"open", "reset", "shutdown", "closed"}
    BY DEF IInv, TypeOK, MainQuiet, MainStates, Results
  <2> QED
    BY <2>1, <2>2, <2>3 DEF IInv, TypeOK, MainQuiet, sendVars
<1>2. WireInOrder' /\ RingHolds' /\ SendPiece'
  BY RingFrame DEF ringVars, MainQuiet, sendVars
<1>3. Compared' /\ Entering' /\ Copying'
  BY DEF MainQuiet, Compared, Entering, Copying
<1> QED
  BY <1>1, <1>2, <1>3 DEF IInv

\* Every step of the main thread keeps the invariant.
LEMMA MainStepsKeep ==
    ASSUME IInv, MainCalls \/ MainSteps
    PROVE  IInv'
<1>1. ASSUME NEW n \in Lens, CallSend(n) \/ CallSendTlv(n) PROVE IInv'
  BY <1>1, CallSendKeeps, CallSendTlvKeeps
<1>2. CASE FreeCompare \/ FreeSubtract
  BY <1>2, FreeCompareKeeps, FreeSubtractKeeps
<1>3. CASE SendoStore \/ SendoPublish \/ SendoDone
  BY <1>3, SendoStoreKeeps, SendoPublishKeeps, SendoDoneKeeps
<1>4. CASE Pointers \/ Memcpy \/ Publish
  BY <1>4, PointersKeeps, MemcpyKeeps, PublishKeeps
<1>5. CASE Post
  BY <1>5, MainQuietKeeps DEF Post, MainQuiet
<1>6. CASE FullSubtract
  BY <1>6, MainQuietKeeps DEF FullSubtract, MainQuiet, Return, fetVars
<1>7. CASE CloseMark
  BY <1>7, MainQuietKeeps DEF CloseMark, MainQuiet
<1>8. CASE CloseSocket
  BY <1>8, MainQuietKeeps DEF CloseSocket, MainQuiet
<1>9. CASE ClosePost
  BY <1>9, MainQuietKeeps DEF ClosePost, MainQuiet
<1> QED
  BY <1>1, <1>2, <1>3, <1>4, <1>5, <1>6, <1>7, <1>8, <1>9 DEF MainCalls, MainSteps

(***************************************************************************)
(* The send thread, the peer and the data thread.                          *)
(***************************************************************************)
\* Steps that leave the ring alone and do not take up a piece of it.
ThreadQuiet ==
    /\ UNCHANGED <<ring, sendin, sendout, mainVars, sin, size, wire>>
    /\ \/ spc' = spc
       \/ spc # "advance" /\ spc' \in {"top", "empty", "closing", "shutdown", "forget",
                                       "mark", "wait", "exit"}
       \/ spc = "empty" /\ spc' = "pointers" /\ sendin # sendout
    /\ \/ ssem' = ssem
       \/ ssem > 0 /\ ssem' = ssem - 1
    /\ connected' \in {connected, FALSE} /\ closing' \in {closing, 2}
    /\ connFd' \in {connFd, "dtNC"} /\ socket' \in {socket, "shutdown", "reset"}

\* The steps of the send thread around its loop, of the peer and of the data thread.
LEMMA ThreadQuietKeeps ==
    ASSUME IInv, ThreadQuiet
    PROVE  IInv'
<1>0. UNCHANGED <<ring, sendin, sendout, size, wire, accepted>>
  BY DEF ThreadQuiet, mainVars
<1>1. TypeOK'
  <2>1. ssem' \in Nat /\ closing' \in 0 .. 2
    BY DEF IInv, TypeOK, ThreadQuiet
  <2>3. connected' \in BOOLEAN
    BY Zenon DEF IInv, TypeOK, ThreadQuiet
  <2>2. /\ spc' \in SendStates
        /\ connFd' \in {"open", "dtNC"} /\ socket' \in {"open", "reset", "shutdown", "closed"}
    BY DEF IInv, TypeOK, ThreadQuiet, SendStates
  <2> QED
    BY <2>1, <2>2, <2>3 DEF IInv, TypeOK, ThreadQuiet, mainVars
<1>2. WireInOrder'
  BY DEF IInv, WireInOrder, ThreadQuiet
<1>3. Held' = Held /\ First' = First
  <2>1. spc = "advance" <=> spc' = "advance"
    BY DEF ThreadQuiet
  <2> QED
    BY <1>0, <2>1 DEF Held, Data, Dist, First
<1>4. RingHolds'
  BY <1>0, <1>3 DEF IInv, RingHolds
<1>5. SendPiece'
  BY <1>0, <1>3 DEF IInv, SendPiece, ThreadQuiet
<1>6. Compared' /\ Entering' /\ Copying'
  BY <1>0, <1>3 DEF IInv, ThreadQuiet, mainVars, Compared, Entering, Copying, Tag, Stored, Free, Data
<1> QED
  BY <1>1, <1>2, <1>4, <1>5, <1>6 DEF IInv

\* dtSendThread takes its piece from what is held.
LEMMA SendPointersKeeps ==
    ASSUME IInv, SendPointers
    PROVE  IInv'
<1>0. /\ spc = "pointers" /\ spc' = "send" /\ size' = Avail(sendin, sendout)
      /\ UNCHANGED <<ring, sendin, sendout, wire, accepted>>
  BY DEF SendPointers, fetVars, mainVars
<1>1. size' \in 1 .. Size /\ sendout + size' <= Size /\ size' <= Held
  BY <1>0, AvailFits, Basics DEF IInv, SendPiece, Held
<1>2. TypeOK'
  <2>1. size' \in 0 .. Size
    BY <1>1, SizeAssumption
  <2> QED
    BY <2>1 DEF IInv, TypeOK, SendPointers, SendStates, fetVars, mainVars
<1>3. WireInOrder'
  BY <1>0 DEF IInv, WireInOrder
<1>4. Held' = Held /\ First' = First
  BY <1>0 DEF Held, Data, Dist, First
<1>5. RingHolds' /\ SendPiece'
  BY <1>0, <1>1, <1>4 DEF IInv, RingHolds, SendPiece
<1>6. Compared' /\ Entering' /\ Copying'
  BY <1>4 DEF IInv, SendPointers, fetVars, mainVars, Compared, Entering, Copying, Tag,
              Stored, Free, Data
<1> QED
  BY <1>2, <1>3, <1>5, <1>6 DEF IInv

\* send () takes part of the piece: the wire continues the stream.
LEMMA SendBytesKeeps ==
    ASSUME IInv, SendBytes
    PROVE  IInv'
<1>0. /\ spc = "send" /\ spc' = "advance" /\ UNCHANGED <<fetVars, mainVars, sin>>
  BY DEF SendBytes
<1>1. PICK bytes \in 1 .. size :
          /\ wire' = wire \o [i \in 1 .. bytes |-> ring[sendout + i - 1]]
          /\ size' = bytes
  BY DEF SendBytes
<1>2. size \in 0 .. Size /\ size <= Held /\ sendout + size <= Size
  BY <1>0 DEF IInv, TypeOK, SendPiece
<1>3. /\ sendout \in Offsets /\ sendin \in Offsets /\ wire \in Seq(Nat) /\ First = Len(wire) + 1
      /\ ring \in [Offsets -> Nat] /\ Held \in Nat /\ Offsets \subseteq Nat /\ Size \in Nat
      /\ bytes \in Nat /\ bytes <= size /\ size \in Nat
  BY <1>0, <1>1, <1>2, Basics, SizeAssumption DEF IInv, TypeOK, First, Offsets
<1> DEFINE piece == [i \in 1 .. bytes |-> ring[sendout + i - 1]]
<1>4. ASSUME NEW i \in 1 .. bytes
      PROVE  sendout + i - 1 \in Offsets /\ ring[sendout + i - 1] = Len(wire) + i
  <2>1. sendout + i - 1 \in Offsets
    BY <1>2, <1>3 DEF Offsets
  <2>2. Dist(sendout, sendout + i - 1) = i - 1
    BY <1>3 DEF Dist
  <2>3. i - 1 < Held
    BY <1>2, <1>3
  <2>4. ring[sendout + i - 1] = First + Dist(sendout, sendout + i - 1)
    BY <2>1, <2>2, <2>3 DEF IInv, RingHolds
  <2> QED
    BY <1>3, <2>1, <2>2, <2>4
<1>5. piece \in Seq(Nat) /\ Len(piece) = bytes
  <2>1. \A i \in 1 .. bytes : ring[sendout + i - 1] \in Nat
    BY <1>3, <1>4
  <2> QED
    BY <1>3, <2>1
<1>6. /\ wire' \in Seq(Nat) /\ Len(wire') = Len(wire) + bytes
      /\ \A i \in 1 .. Len(wire') : wire'[i] = IF i <= Len(wire) THEN wire[i]
                                               ELSE piece[i - Len(wire)]
  BY <1>1, <1>3, <1>5
<1>7. TypeOK'
  <2>1. size' \in 0 .. Size
    BY <1>1, <1>2, <1>3
  <2> QED
    BY <1>0, <1>6, <2>1 DEF IInv, TypeOK, SendStates, fetVars, mainVars
<1>8. WireInOrder'
  <2> SUFFICES ASSUME NEW i \in 1 .. Len(wire') PROVE wire'[i] = i
    BY DEF WireInOrder
  <2>1. CASE i <= Len(wire)
    <3>1. i \in 1 .. Len(wire)
      BY <2>1, <1>3, <1>6
    <3>2. wire[i] = i
      BY <3>1 DEF IInv, WireInOrder
    <3> QED
      BY <2>1, <3>2, <1>6
  <2>2. CASE i > Len(wire)
    <3>1. i - Len(wire) \in 1 .. bytes
      BY <2>2, <1>3, <1>6
    <3>2. wire'[i] = piece[i - Len(wire)]
      <4>1. ~(i <= Len(wire))
        BY <2>2, <1>3, <1>6
      <4> HIDE DEF piece
      <4> QED
        BY <4>1, <1>6
    <3>3. piece[i - Len(wire)] = Len(wire) + (i - Len(wire))
      BY <3>1, <1>4
    <3> QED
      BY <3>2, <3>3, <1>3
  <2> QED
    BY <2>1, <2>2, <1>3, <1>6
<1>9. Held' = Held /\ First' = First
  BY <1>0, <1>1, <1>3, <1>6 DEF Held, Data, Dist, First, fetVars
<1>10. RingHolds'
  BY <1>0, <1>9 DEF IInv, RingHolds, fetVars, mainVars
<1>11. SendPiece'
  BY <1>0, <1>1, <1>2, <1>3, <1>9 DEF SendPiece, fetVars
<1>12. Compared' /\ Entering' /\ Copying'
  BY <1>0, <1>9 DEF IInv, fetVars, mainVars, Compared, Entering, Copying, Tag, Stored,
                    Free, Data
<1> QED
  BY <1>7, <1>8, <1>10, <1>11, <1>12 DEF IInv

\* dtSendThread gives back what was sent.
LEMMA SendAdvanceKeeps ==
    ASSUME IInv, SendAdvance
    PROVE  IInv'
<1>0. /\ spc = "advance" /\ spc' = "top" /\ sendout' = Advance(sendout, size)
      /\ UNCHANGED <<ring, sendin, sin, size, wire, mainVars>>
  BY DEF SendAdvance
<1>1. size <= Held /\ sendout + size <= Size
  BY <1>0 DEF IInv, SendPiece
<1>2. /\ sendin \in Offsets /\ sendout \in Offsets /\ in \in Offsets /\ out \in Offsets
      /\ Held = Dist(sendout, sendin) /\ Held \in Nat /\ Held < Size /\ Size \in Nat
      /\ Len(wire) \in Nat /\ size \in Nat /\ First \in Int /\ accepted \in Nat
      /\ len \in Nat /\ src \in Nat /\ before \in Nat
  BY Basics, SizeAssumption DEF Offsets
<1>3. \A a, b \in Offsets : Dist(a, b) \in Nat
  BY DistType, SizeAssumption DEF Offsets
<1>4. /\ sendout' \in Offsets /\ Held' = Held - size
  BY <1>0, <1>1, <1>2, AdvanceType, AdvanceTowards DEF Held, Data
<1>5. First' = First + size
  BY <1>0, <1>2 DEF First
<1>6. Dist(sendout, sendout') = size
  BY <1>0, <1>1, <1>2, AdvanceAway, DistType
<1>7. TypeOK'
  BY <1>0, <1>4 DEF IInv, TypeOK, SendAdvance, SendStates, mainVars
<1>8. WireInOrder' /\ SendPiece'
  BY <1>0 DEF IInv, WireInOrder, SendPiece
<1>9. RingHolds'
  <2>1. accepted + 1 = First' + Held'
    BY <1>2, <1>4, <1>5 DEF IInv, RingHolds
  <2>2. ASSUME NEW c \in Offsets, Dist(sendout', c) < Held'
        PROVE  ring[c] = First' + Dist(sendout', c)
    <3>0. Dist(sendout', c) \in Nat /\ Dist(sendout, c) \in Nat
      BY <1>2, <1>3, <1>4
    <3>1. Dist(sendout, c) = size + Dist(sendout', c)
      <4>1. Dist(sendout, sendout') + Dist(sendout', c) < Size
        BY <1>1, <1>2, <1>4, <1>6, <2>2, <3>0
      <4> QED
        BY <4>1, <1>2, <1>4, <1>6, DistAdds
    <3>2. Dist(sendout, c) < Held
      BY <3>0, <3>1, <2>2, <1>2, <1>4
    <3>3. ring[c] = First + Dist(sendout, c)
      BY <3>2 DEF IInv, RingHolds
    <3> QED
      BY <3>0, <3>1, <3>3, <1>2, <1>5
  <2> QED
    BY <1>0, <2>1, <2>2 DEF RingHolds, mainVars
<1>10. Compared'
  <2>1. sendout <= sendin => sendout' <= sendin
    BY <1>0, <1>1, <1>2 DEF Advance, Dist, Offsets
  <2> QED
    BY <1>0, <2>1 DEF IInv, Compared, mainVars
<1>11. Free(sendin, sendout)' = Free(sendin, sendout) + size
  BY <1>0, <1>2, <1>4 DEF Free, Held
<1>12. Free(sendin, sendout) \in Int
  BY <1>2, Basics
<1>13. Entering'
  <2>1. ASSUME NEW n \in Int, n <= Free(sendin, sendout)
        PROVE  n <= Free(sendin, sendout)'
    BY <2>1, <1>2, <1>11, <1>12
  <2>2. /\ Stored' = Stored /\ Stored \in Int
        /\ len - Stored \in Int /\ len - Stored - 1 \in Int /\ Tag' = Tag
    BY <1>0, <1>2 DEF Stored, Tag, mainVars
  <2> QED
    BY <1>0, <1>2, <2>1, <2>2 DEF IInv, Entering, mainVars
<1>14. Copying'
  <2> SUFFICES ASSUME mpc' \in {"memcpy", "publish"}
               PROVE  (/\ src = accepted + 1 + Dist(sendin, in)
                       /\ \A c \in Offsets :
                              Dist(sendin, c) < Dist(sendin, in)
                                  => ring[c] = accepted + 1 + Dist(sendin, c)
                       /\ Dist(out, sendout) + Held = Dist(out, sendin)
                       /\ Dist(out, sendin) + Dist(sendin, in) + len < Size)'
    BY DEF Copying
  <2>1. /\ src = accepted + 1 + Dist(sendin, in)
        /\ \A c \in Offsets :
               Dist(sendin, c) < Dist(sendin, in) => ring[c] = accepted + 1 + Dist(sendin, c)
        /\ Dist(out, sendout) + Held = Dist(out, sendin)
        /\ Dist(out, sendin) + Dist(sendin, in) + len < Size
    BY <1>0 DEF IInv, Copying, mainVars
  <2>0. /\ Dist(out, sendout) \in Nat /\ Dist(out, sendin) \in Nat
        /\ Dist(sendin, in) \in Nat
    BY <1>2, <1>3
  <2>2. Dist(out, sendout') = Dist(out, sendout) + size
    <3>1. Dist(out, sendout) + size < Size
      BY <2>0, <2>1, <1>1, <1>2, SMTT(30)
    <3> QED
      BY <3>1, <1>0, <1>1, <1>2, AdvanceAway
  <2>3. Dist(out, sendout') + Held' = Dist(out, sendin)
    BY <2>0, <2>1, <2>2, <1>2, <1>4
  <2> QED
    BY <1>0, <2>1, <2>3 DEF mainVars
<1> QED
  BY <1>7, <1>8, <1>9, <1>10, <1>13, <1>14 DEF IInv

\* Every step of the send thread keeps the invariant.
LEMMA ThreadStepsKeep ==
    ASSUME IInv, SendThread \/ PeerReset \/ Drop
    PROVE  IInv'
<1> USE DEF ThreadQuiet, fetVars
<1>1. CASE Top
  BY <1>1, ThreadQuietKeeps DEF Top
<1>2. CASE TestEmpty
  BY <1>2, ThreadQuietKeeps DEF TestEmpty
<1>3. CASE TestClosing
  BY <1>3, ThreadQuietKeeps DEF TestClosing
<1>4. CASE SendFails
  BY <1>4, ThreadQuietKeeps DEF SendFails
<1>5. CASE Shutdown
  BY <1>5, ThreadQuietKeeps DEF Shutdown
<1>6. CASE Forget
  BY <1>6, ThreadQuietKeeps DEF Forget
<1>7. CASE Mark
  BY <1>7, ThreadQuietKeeps DEF Mark
<1>8. CASE Wait
  BY <1>8, ThreadQuietKeeps DEF Wait
<1>9. CASE SendPointers \/ SendBytes \/ SendAdvance
  BY <1>9, SendPointersKeeps, SendBytesKeeps, SendAdvanceKeeps
<1>10. CASE PeerReset
  BY <1>10, ThreadQuietKeeps DEF PeerReset, sendVars
<1>11. CASE Drop
  BY <1>11, ThreadQuietKeeps DEF Drop, sendVars
<1> QED
  BY <1>1, <1>2, <1>3, <1>4, <1>5, <1>6, <1>7, <1>8, <1>9, <1>10, <1>11 DEF SendThread

\* So does a step that changes nothing.
LEMMA StutterKeeps ==
    ASSUME IInv, UNCHANGED vars
    PROVE  IInv'
<1>1. ThreadQuiet
  BY DEF ThreadQuiet, vars, fetVars, mainVars, sendVars
<1> QED
  BY <1>1, ThreadQuietKeeps

(***************************************************************************)
(* The theorems.                                                           *)
(***************************************************************************)
\* The invariant holds throughout, for rings of every size and sends of every length.
THEOREM Invariance == Spec => []IInv
<1>1. IInv /\ [Next]_vars => IInv'
  BY MainStepsKeep, ThreadStepsKeep, StutterKeeps DEF Next
<1> QED
  BY InitIInv, <1>1, PTL DEF Spec

\* Every variable of the transmit side keeps its type: the pointers stay in the ring
\* and no length becomes negative.
THEOREM TypeCorrect == Spec => []TypeOK
<1>1. IInv => TypeOK
  BY DEF IInv
<1> QED
  BY Invariance, <1>1, PTL

\* dtSendThread gives the socket the stream the callers stored, in order.
THEOREM WireCorrect == Spec => []WireInOrder
<1>1. IInv => WireInOrder
  BY DEF IInv
<1> QED
  BY Invariance, <1>1, PTL

\* What dtSend and dtSendo are about to store into is free, also by pointers that have
\* moved since they were read: send () never reads a byte while it is written.
THEOREM RaceFree == Spec => []NoDataRace
<1>1. IInv => NoDataRace
  <2> SUFFICES ASSUME IInv, NEW c, c \in Storing, c \in Sending PROVE FALSE
    BY DEF NoDataRace
  <2>1. /\ spc \in {"send", "advance"} /\ c \in Piece(sendout, size)
        /\ size <= Held /\ sendout + size <= Size
    BY DEF Sending, IInv, SendPiece
  <2>2. /\ sendin \in Offsets /\ sendout \in Offsets /\ size \in Nat
        /\ Held = Dist(sendout, sendin) /\ Held \in Nat /\ Size \in Nat
    BY Basics, SizeAssumption DEF Offsets
  <2>3. c \in Offsets
    BY <2>1, <2>2 DEF Piece, Offsets
  <2>4. Dist(sendout, c) < Held
    <3>1. Dist(sendout, c) < size /\ Dist(sendout, c) \in Nat
      BY <2>1, <2>2, <2>3, PieceDist, DistType, SizeAssumption DEF Offsets
    <3> QED
      BY <3>1, <2>1, <2>2
  <2>5. CASE mpc = "memcpy"
    BY <2>5, <2>3, <2>4, CopyFits DEF Storing
  <2>6. CASE mpc # "memcpy"
    <3>1. c = sendin
      BY <2>6 DEF Storing
    <3> QED
      BY <3>1, <2>2, <2>4
  <2> QED
    BY <2>5, <2>6
<1> QED
  BY Invariance, <1>1, PTL

\* What dtSendFree lets through fits, though its two reads of the pointers are torn.
THEOREM AdmissionSafe == Spec => []AdmittedFits
<1>1. IInv => AdmittedFits
  <2> SUFFICES ASSUME IInv, mpc = "memcpy" PROVE len <= Free(in, sendout)
    BY DEF IInv, Entering, AdmittedFits
  <2>1. /\ Dist(out, sendout) + Held = Dist(out, sendin)
        /\ Dist(out, sendin) + Dist(sendin, in) + len < Size
    BY DEF IInv, Copying
  <2>2. /\ sendin \in Offsets /\ sendout \in Offsets /\ in \in Offsets /\ out \in Offsets
        /\ Held = Dist(sendout, sendin) /\ len \in Nat
    BY Basics
  <2>3. (\A a, b \in Offsets : Dist(a, b) \in Nat) /\ Size \in Nat
    BY DistType, SizeAssumption DEF Offsets
  <2>4. Dist(sendout, in) = Held + Dist(sendin, in)
    <3>1. Dist(sendout, sendin) + Dist(sendin, in) < Size
      BY <2>1, <2>2, <2>3
    <3> QED
      BY <3>1, <2>2, DistAdds
  <2> QED
    BY <2>1, <2>2, <2>3, <2>4 DEF Free, Data
<1> QED
  BY Invariance, <1>1, PTL

-----------------------------------------------------------------------------
(***************************************************************************)
(* The ring is a queue.                                                    *)
(***************************************************************************)
\* The bytes in the ring, oldest first.
Bytes == [i \in 1 .. Data(sendin, sendout) |->
             ring[IF sendout + i - 1 < Size THEN sendout + i - 1
                                            ELSE sendout + i - 1 - Size]]

\* How many bytes the send thread has given back.
Given == First - 1

\* The queue is a run of the stream: that is what RingHolds says.
LEMMA BytesAreRun == IInv => Bytes = Run(Given, Held)
<1> SUFFICES ASSUME IInv PROVE Bytes = Run(Given, Held)
  OBVIOUS
<1>1. /\ sendout \in Offsets /\ First \in Int /\ Held \in Nat /\ Held < Size /\ Size \in Nat
  BY Basics, SizeAssumption DEF Offsets
<1>2. ASSUME NEW i \in 1 .. Held
      PROVE  ring[IF sendout + i - 1 < Size THEN sendout + i - 1
                                            ELSE sendout + i - 1 - Size] = First - 1 + i
  <2> DEFINE c == IF sendout + i - 1 < Size THEN sendout + i - 1 ELSE sendout + i - 1 - Size
  <2>1. c \in Offsets /\ Dist(sendout, c) = i - 1
    BY <1>1 DEF Dist, Offsets
  <2>2. ring[c] = First + Dist(sendout, c)
    BY <1>1, <2>1 DEF IInv, RingHolds
  <2> QED
    BY <1>1, <2>1, <2>2
<1> QED
  BY <1>2 DEF Bytes, Run, Held, Given

\* Storing n bytes, taking n bytes and everything else, seen as steps of the queue.
QueuePut(n) ==
    /\ Len(Bytes) + n <= Size - 1
    /\ Bytes' = Bytes \o Run(accepted, n)
    /\ accepted' = accepted + n

QueueTake(n) ==
    /\ Bytes' = SubSeq(Bytes, n + 1, Len(Bytes))
    /\ UNCHANGED accepted

QueueStep ==
    \/ \E n \in 1 .. (Size - 1) : QueuePut(n)
    \/ \E n \in 1 .. Len(Bytes) : QueueTake(n)
    \/ UNCHANGED <<Bytes, accepted>>

\* What the invariant says of the queue.
LEMMA QueueFacts ==
    ASSUME IInv
    PROVE  /\ Held \in Nat /\ Held < Size /\ Size \in Nat /\ Given \in Int /\ accepted \in Nat
           /\ accepted = Given + Held
           /\ Bytes = Run(Given, Held) /\ Len(Bytes) = Held
<1>1. Held \in Nat /\ Held < Size /\ Size \in Nat /\ Given \in Int /\ accepted \in Nat
  BY Basics, SizeAssumption DEF Offsets, Given
<1>2. accepted = Given + Held
  BY <1>1, Basics DEF IInv, RingHolds, Given
<1>3. Bytes = Run(Given, Held)
  BY BytesAreRun
<1>4. Len(Run(Given, Held)) = Held
  BY <1>1 DEF Run
<1> QED
  BY <1>1, <1>2, <1>3, <1>4

\* How far SendoPublish, Publish and SendAdvance move the pointers.
LEMMA SendoStores ==
    ASSUME IInv, SendoPublish
    PROVE  Held' = Held + 1 /\ accepted' = accepted + 1
<1>1. Free(sendin, sendout) >= 1
  BY SizeAssumption
     DEF IInv, TypeOK, Entering, Stored, SendoPublish, Free, Data, Dist, Offsets
<1> QED
  BY <1>1, NextFree, Basics DEF SendoPublish, Held, IInv, Entering

\* dtSend's step moves sendin by what it copied.
LEMMA PublishStores ==
    ASSUME IInv, Publish
    PROVE  Held' = Held + Dist(sendin, in)
<1>1. /\ Dist(out, sendout) + Held = Dist(out, sendin)
      /\ Dist(out, sendin) + Dist(sendin, in) + len < Size
  BY DEF IInv, Copying, Publish
<1>2. /\ sendin \in Offsets /\ sendout \in Offsets /\ in \in Offsets /\ out \in Offsets
      /\ Held = Dist(sendout, sendin) /\ len \in Nat
  BY Basics
<1>3. (\A a, b \in Offsets : Dist(a, b) \in Nat) /\ Size \in Nat
  BY DistType, SizeAssumption DEF Offsets
<1>4. Dist(sendout, sendin) + Dist(sendin, in) < Size
  BY <1>1, <1>2, <1>3
<1> QED
  BY <1>2, <1>4, DistAdds DEF Held, Data, Publish

\* The send thread's step moves sendout by what was sent.
LEMMA AdvanceGivesBack ==
    ASSUME IInv, SendAdvance
    PROVE  size \in 0 .. Held /\ Held' = Held - size /\ accepted' = accepted
<1>1. size <= Held /\ sendout + size <= Size
  BY DEF IInv, SendPiece, SendAdvance
<1>2. /\ sendin \in Offsets /\ sendout \in Offsets /\ size \in Nat
      /\ Held = Dist(sendout, sendin) /\ Held \in Nat
  BY Basics, SizeAssumption DEF Offsets
<1> QED
  BY <1>1, <1>2, AdvanceTowards DEF SendAdvance, mainVars, Held, Data

\* A step that stores n bytes behind sendin is a Put.
LEMMA StoresIsPut ==
    ASSUME IInv, IInv', NEW n \in Nat,
           Held' = Held + n, accepted' = accepted + n
    PROVE  QueueStep
<1>1. /\ Held \in Nat /\ Held < Size /\ Size \in Nat /\ Given \in Int /\ accepted \in Nat
      /\ accepted = Given + Held
      /\ Bytes = Run(Given, Held) /\ Len(Bytes) = Held
  BY QueueFacts
<1>2. /\ Held' \in Nat /\ Held' < Size /\ Given' \in Int /\ accepted' = Given' + Held'
      /\ Bytes' = Run(Given', Held')
  <2>1. (/\ Held \in Nat /\ Held < Size /\ Given \in Int /\ accepted = Given + Held
         /\ Bytes = Run(Given, Held))'
    BY QueueFacts, PTL
  <2> QED
    BY <2>1
<1>3. Given' = Given
  <2>0. Held + n \in Int
    BY <1>1
  <2>1. Given' + (Held + n) = Given + (Held + n)
    <3>1. accepted' = Given' + (Held + n)
      BY <1>2
    <3>2. accepted' = (Given + Held) + n
      BY <1>1
    <3> QED
      BY <3>1, <3>2, <1>1, Associates
  <2> QED
    BY <2>0, <2>1, <1>1, <1>2, Cancels
<1>4. Bytes' = Run(Given, Held + n)
  BY <1>2, <1>3
<1>5. CASE n = 0
  BY <1>1, <1>4, <1>5 DEF QueueStep
<1>6. CASE n # 0
  <2>1. Bytes' = Bytes \o Run(accepted, n)
    <3>1. Run(Given, Held + n) = Run(Given, Held) \o Run(Given + Held, n)
      BY <1>1, RunAppends
    <3> QED
      BY <3>1, <1>1, <1>4
  <2>2. n \in 1 .. (Size - 1) /\ Len(Bytes) + n <= Size - 1
    BY <1>1, <1>2, <1>6
  <2>3. QueuePut(n)
    BY <2>1, <2>2 DEF QueuePut
  <2> QED
    BY <2>2, <2>3 DEF QueueStep
<1> QED
  BY <1>5, <1>6

\* A step that gives n bytes at sendout back is a Take.
LEMMA GivesBackIsTake ==
    ASSUME IInv, IInv', NEW n \in 0 .. Held,
           Held' = Held - n, accepted' = accepted
    PROVE  QueueStep
<1>1. /\ Held \in Nat /\ Held < Size /\ Size \in Nat /\ Given \in Int /\ accepted \in Nat
      /\ accepted = Given + Held
      /\ Bytes = Run(Given, Held) /\ Len(Bytes) = Held
  BY QueueFacts
<1>2. /\ Held' \in Nat /\ Given' \in Int /\ accepted' = Given' + Held'
      /\ Bytes' = Run(Given', Held')
  <2>1. (/\ Held \in Nat /\ Given \in Int /\ accepted = Given + Held
         /\ Bytes = Run(Given, Held))'
    BY QueueFacts, PTL
  <2> QED
    BY <2>1
<1>3. Given' = Given + n
  <2>0. Held - n \in Int /\ Given + n \in Int
    BY <1>1
  <2>1. Given' + (Held - n) = (Given + n) + (Held - n)
    <3>1. accepted' = Given' + (Held - n)
      BY <1>2
    <3>2. accepted' = Given + Held
      BY <1>1
    <3> QED
      BY <3>1, <3>2, <1>1, Shifts
  <2> QED
    BY <2>0, <2>1, <1>1, <1>2, Cancels
<1>4. Bytes' = Run(Given + n, Held - n)
  BY <1>2, <1>3
<1>5. CASE n = 0
  BY <1>1, <1>4, <1>5 DEF QueueStep
<1>6. CASE n # 0
  <2>1. Bytes' = SubSeq(Bytes, n + 1, Len(Bytes))
    BY <1>1, <1>4, RunDrops
  <2>2. n \in 1 .. Len(Bytes)
    BY <1>1, <1>6
  <2> QED
    BY <2>1, <2>2 DEF QueueStep, QueueTake
<1> QED
  BY <1>5, <1>6

\* Each step of either thread is a Put, a Take, or leaves the queue alone.
LEMMA StepsAreQueueSteps ==
    ASSUME IInv, IInv', [Next]_vars
    PROVE  QueueStep
<1>1. CASE SendoPublish
  <2>1. Held' = Held + 1 /\ accepted' = accepted + 1
    BY <1>1, SendoStores
  <2> QED
    BY <2>1, StoresIsPut
<1>2. CASE Publish
  <2>1. accepted' = src - 1 /\ src = accepted + 1 + Dist(sendin, in)
    BY <1>2 DEF Publish, IInv, Copying
  <2>2. Dist(sendin, in) \in Nat /\ accepted \in Nat
    BY Basics, DistType, SizeAssumption DEF Offsets
  <2>3. accepted' = accepted + Dist(sendin, in)
    BY <2>1, <2>2
  <2>4. Held' = Held + Dist(sendin, in)
    BY <1>2, PublishStores
  <2> QED
    BY <2>2, <2>3, <2>4, StoresIsPut
<1>3. CASE SendAdvance
  <2>1. size \in 0 .. Held /\ Held' = Held - size /\ accepted' = accepted
    BY <1>3, AdvanceGivesBack
  <2> QED
    BY <2>1, GivesBackIsTake
<1>4. CASE UNCHANGED <<sendin, sendout, accepted>>
  <2>1. Held' = Held + 0 /\ accepted' = accepted + 0
    BY <1>4, QueueFacts DEF Held, Data, Dist
  <2> QED
    BY <2>1, StoresIsPut
<1>5. \/ SendoPublish \/ Publish \/ SendAdvance
      \/ UNCHANGED <<sendin, sendout, accepted>>
  <2> USE DEF vars, fetVars, mainVars, sendVars
  <2>1. CASE MainCalls
    BY <2>1 DEF MainCalls, CloseMark, CallSend, CallSendTlv
  <2>2. CASE MainSteps
    BY <2>2 DEF MainSteps, FreeCompare, FreeSubtract, SendoStore, SendoDone, Pointers, Memcpy,
                Post, FullSubtract, CloseSocket, ClosePost
  <2>3. CASE SendThread
    BY <2>3 DEF SendThread, Top, TestEmpty, TestClosing, Shutdown, Forget, Mark, Wait,
                SendPointers, SendBytes, SendFails
  <2>4. CASE PeerReset \/ Drop \/ UNCHANGED vars
    BY <2>4 DEF PeerReset, Drop
  <2> QED
    BY <2>1, <2>2, <2>3, <2>4 DEF Next
<1> QED
  BY <1>1, <1>2, <1>3, <1>4, <1>5

\* The two threads, with their torn reads and stale copies, implement a bounded queue
\* of bytes that loses, repeats and reorders nothing.
THEOREM ImplementsQueue == Spec => IsQueue
<1>1. Init => Queue!Init
  BY SizeAssumption DEF Init, Queue!Init, Data, Dist, Offsets
<1>2. QueueStep => [Queue!Next]_<<Bytes, accepted>>
  BY DEF QueueStep, QueuePut, QueueTake, Run, Bytes, Queue!Next, Queue!Put, Queue!Take
<1>3. IInv /\ IInv' /\ [Next]_vars => [Queue!Next]_<<Bytes, accepted>>
  BY <1>2, StepsAreQueueSteps
<1> QED
  BY Invariance, <1>1, <1>3, PTL DEF Spec, IsQueue, Queue!Spec, Bytes

-----------------------------------------------------------------------------
(***************************************************************************)
(* Closing the socket, and refused sends.                                  *)
(***************************************************************************)
\* The send thread is in its shutdown only after a soft close, and whoever closed the
\* socket has forgotten it or is about to.
CloseInv ==
    /\ TypeOK
    /\ spc \in {"shutdown", "forget", "mark"} => closing = 1
    /\ socket \in {"shutdown", "closed"} => connFd = "dtNC" \/ spc = "forget"

\* The main thread and the send thread never both close the socket.
THEOREM SocketSafe == Spec => []SocketClosedOnce
<1>1. Init => CloseInv
  <2>1. Init => TypeOK
    BY InitIInv DEF IInv
  <2> QED
    BY <2>1 DEF Init, CloseInv
<1>2. CloseInv /\ TypeOK' /\ [Next]_vars => CloseInv'
  <2> SUFFICES ASSUME CloseInv, TypeOK', [Next]_vars PROVE CloseInv'
    OBVIOUS
  <2> USE DEF CloseInv, fetVars, mainVars, sendVars
  <2>1. CASE UNCHANGED <<closing, socket, connFd, spc>>
    BY <2>1
  <2>2. CASE CloseMark
    BY <2>2 DEF CloseMark
  <2>3. CASE CloseSocket
    BY <2>3 DEF CloseSocket
  <2>4. CASE UNCHANGED <<closing, socket, connFd>>
             /\ (spc' \in {"shutdown", "forget", "mark"} => closing = 1)
             /\ spc # "forget"
    BY <2>4
  <2>5. CASE Shutdown \/ Forget \/ Mark
    BY <2>5 DEF Shutdown, Forget, Mark
  <2>6. CASE PeerReset
    BY <2>6 DEF PeerReset
  <2>7. CASE MainSteps
    BY <2>7, <2>1, <2>3
       DEF MainSteps, FreeCompare, FreeSubtract, SendoStore, SendoPublish, SendoDone, Pointers,
           Memcpy, Publish, Post, FullSubtract, ClosePost
  <2>8. CASE MainCalls \/ Drop \/ UNCHANGED vars
    BY <2>8, <2>1, <2>2 DEF MainCalls, CallSend, CallSendTlv, Drop, vars
  <2>9. CASE SendThread
    BY <2>9, <2>4, <2>5
       DEF SendThread, Top, TestEmpty, TestClosing, Wait, SendPointers, SendBytes, SendFails,
           SendAdvance
  <2> QED
    BY <2>6, <2>7, <2>8, <2>9 DEF Next
<1>3. CloseInv => SocketClosedOnce
  BY DEF CloseInv, TypeOK, SocketClosedOnce
<1> QED
  BY TypeCorrect, <1>1, <1>2, <1>3, PTL DEF Spec

\* Until it publishes, dtSend has stored nothing, and a refused one never publishes.
RefusedInv ==
    op = "dtSend" =>
        /\ mpc \notin {"sendo", "sendoPublish", "sendoDone"}
        /\ mpc \in {"freeCmp", "freeSub", "pointers", "memcpy", "publish"}
              => accepted = before
        /\ mpc = "idle" /\ retval > 0 => accepted = before

\* dtSend that is refused has stored nothing, whatever else the ring is used for.
THEOREM RefusalSafe == Spec => []RefusedSendsNothing
<1>1. Init => RefusedInv
  BY DEF Init, RefusedInv, Ok
<1>2. RefusedInv /\ [Next]_vars => RefusedInv'
  <2> SUFFICES ASSUME RefusedInv, [Next]_vars PROVE RefusedInv'
    OBVIOUS
  <2> USE DEF RefusedInv, fetVars, mainVars, sendVars
  <2>1. CASE MainCalls
    BY <2>1 DEF MainCalls, CloseMark, CallSend, CallSendTlv, EnterSend, Return
  <2>2. CASE FreeCompare \/ FreeSubtract
    BY <2>2 DEF FreeCompare, FreeSubtract, Return
  <2>3. CASE SendoStore \/ SendoPublish \/ SendoDone
    BY <2>3 DEF SendoStore, SendoPublish, SendoDone
  <2>4. CASE Pointers \/ Memcpy \/ Publish \/ Post
    BY <2>4 DEF Pointers, Memcpy, Publish, Post
  <2>5. CASE FullSubtract
    BY <2>5 DEF FullSubtract, Return, Ok, OkFull
  <2>6. CASE CloseSocket \/ ClosePost
    BY <2>6 DEF CloseSocket, ClosePost
  <2>7. CASE UNCHANGED mainVars
    BY <2>7
  <2>8. SendThread \/ PeerReset \/ Drop \/ UNCHANGED vars => UNCHANGED mainVars
    BY DEF SendThread, Top, TestEmpty, TestClosing, Shutdown, Forget, Mark, Wait, SendPointers,
           SendBytes, SendFails, SendAdvance, PeerReset, Drop, vars
  <2> QED
    BY <2>1, <2>2, <2>3, <2>4, <2>5, <2>6, <2>7, <2>8 DEF Next, MainSteps
<1>3. RefusedInv => RefusedSendsNothing
  BY DEF RefusedInv, RefusedSendsNothing
<1> QED
  BY <1>1, <1>2, <1>3, PTL DEF Spec
=============================================================================
