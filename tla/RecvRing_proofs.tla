-------------------------- MODULE RecvRing_proofs ---------------------------
(***************************************************************************)
(* The receive ring of a NetFet is safe for rings of every size and for    *)
(* every mix of the calls that read it: proofs about RecvRing.             *)
(***************************************************************************)
EXTENDS RecvRing, TLAPS

-----------------------------------------------------------------------------
(***************************************************************************)
(* Arithmetic of ring pointers, for rings of every size: what the macros   *)
(* of dtnetsubs.h and the wrap of a pointer do to the distances between    *)
(* pointers.                                                               *)
(***************************************************************************)
\* A distance is less than the ring's size, and only a pointer's distance from itself is 0.
LEMMA DistType ==
    ASSUME NEW a \in Offsets, NEW b \in Offsets
    PROVE  Dist(a, b) \in Offsets /\ (Dist(a, b) = 0 <=> a = b)
BY SizeAssumption DEF Offsets, Dist

\* No two pointers are at the same distance.
LEMMA DistInjective ==
    ASSUME NEW a \in Offsets, NEW b \in Offsets, NEW c \in Offsets, Dist(a, b) = Dist(a, c)
    PROVE  b = c
BY SizeAssumption DEF Offsets, Dist

\* A pointer that moves by a piece stays in the ring.
LEMMA AdvanceType ==
    ASSUME NEW a \in Offsets, NEW k \in Nat, a + k <= Size
    PROVE  Advance(a, k) \in Offsets
BY SizeAssumption DEF Offsets, Advance

\* A pointer that moves away from a gets farther from it.
LEMMA AdvanceAway ==
    ASSUME NEW a \in Offsets, NEW b \in Offsets, NEW k \in Nat,
           b + k <= Size, Dist(a, b) + k < Size
    PROVE  Dist(a, Advance(b, k)) = Dist(a, b) + k
BY SizeAssumption DEF Offsets, Dist, Advance

\* Distances add up as long as they do not go round the ring.
LEMMA DistAdds ==
    ASSUME NEW a \in Offsets, NEW b \in Offsets, NEW c \in Offsets,
           Dist(a, b) + Dist(b, c) < Size
    PROVE  Dist(a, c) = Dist(a, b) + Dist(b, c)
BY SizeAssumption DEF Offsets, Dist

\* A pointer is before b, seen from a, or b lies between.
LEMMA DistSplits ==
    ASSUME NEW a \in Offsets, NEW b \in Offsets, NEW c \in Offsets
    PROVE  Dist(a, c) < Dist(a, b) \/ Dist(a, c) = Dist(a, b) + Dist(b, c)
BY SizeAssumption DEF Offsets, Dist

\* The cells of a piece, seen from where it starts.
LEMMA PieceDist ==
    ASSUME NEW a \in Offsets, NEW k \in Nat, a + k <= Size, NEW c \in Offsets
    PROVE  /\ c \in Piece(a, k) <=> Dist(a, c) < k
           /\ c \in Piece(a, k) => Dist(a, c) = c - a
BY SizeAssumption DEF Offsets, Dist, Piece

\* What may be stored in one piece runs neither past the end of the ring nor into out.
LEMMA RoomFits ==
    ASSUME NEW inp \in Offsets, NEW outp \in Offsets
    PROVE  /\ Room(inp, outp) \in Nat
           /\ inp + Room(inp, outp) <= Size
           /\ Room(inp, outp) <= Free(inp, outp)
BY SizeAssumption DEF Offsets, Room, Free, Data, Dist

\* A pointer on the way from a to c is as much nearer to c as it is away from a.
LEMMA DistRest ==
    ASSUME NEW a \in Offsets, NEW b \in Offsets, NEW c \in Offsets, Dist(a, b) <= Dist(a, c)
    PROVE  Dist(b, c) = Dist(a, c) - Dist(a, b)
BY SizeAssumption DEF Offsets, Dist

-----------------------------------------------------------------------------
(***************************************************************************)
(* What a ring holds, seen as a sequence: the numbers of a stream.         *)
(***************************************************************************)
\* The n numbers after f.
Run(f, n) == [i \in 1 .. n |-> f + i]

\* Two runs of numbers that follow each other are one.
LEMMA RunAppends ==
    ASSUME NEW f \in Int, NEW h \in Nat, NEW n \in Nat
    PROVE  Run(f, h + n) = Run(f, h) \o Run(f + h, n)
BY DEF Run

\* A run without its first n numbers.
LEMMA RunDrops ==
    ASSUME NEW f \in Int, NEW h \in Nat, NEW n \in 0 .. h
    PROVE  Run(f + n, h - n) = SubSeq(Run(f, h), n + 1, Len(Run(f, h)))
BY DEF Run

\* Arithmetic that steps need on terms too large for the prover.
LEMMA Shifts ==
    ASSUME NEW f \in Int, NEW g \in Nat, NEW h \in 0 .. g
    PROVE  f + g = (f + h) + (g - h)
OBVIOUS

\* Likewise.
LEMMA Cancels ==
    ASSUME NEW f \in Int, NEW g \in Int, NEW h \in Int, f + h = g + h
    PROVE  f = g
OBVIOUS

-----------------------------------------------------------------------------
(***************************************************************************)
(* The ring.                                                               *)
(***************************************************************************)
\* The bytes that wait.
Held == Data(fin, fout)

\* The cells from fout to fin are the stream from the first byte not yet taken.
RingHolds ==
    /\ received = taken + Held
    /\ \A c \in Offsets : Dist(fout, c) < Held => ring[c] = taken + 1 + Dist(fout, c)

\* What recv () stores lies behind fin in the free part of the ring, and is the stream.
DataPiece ==
    /\ received <= MaxBytes
    /\ dpc \in {"recv", "publish"} => size >= 1 /\ fin + size <= Size /\ Held + size < Size
    /\ dpc = "publish" =>
          /\ received + size <= MaxBytes
          /\ \A c \in Piece(fin, size) : ring[c] = received + 1 + (c - fin)

\* dtReado has seen a byte, and copied it.
TakesByte ==
    mpc \in {"reado", "readoOut"} =>
        /\ op = "dtReado" /\ out = fout /\ Held >= 1 /\ base = taken
        /\ mpc = "reado" => buf = <<>>
        /\ mpc = "readoOut" => Len(buf) = 1

\* dtReadoi has read from fout up to the caller's index, and no further than fin.
ReadsAhead ==
    /\ mpc = "endRead" => outidx # -1
    /\ lineidx # -1 => outidx # -1 /\ Dist(fout, lineidx) <= Held
    /\ outidx # -1 => /\ op = "dtReadoi" /\ base = taken
                      /\ Len(buf) = Dist(fout, outidx) /\ Len(buf) <= Held
    /\ mpc = "readoi" => /\ op = "dtReadoi" /\ base = taken
                         /\ out = IF outidx = -1 THEN fout ELSE outidx
                         /\ Len(buf) = Dist(fout, out) /\ Len(buf) < Held

\* The bytes that the call in hand will have copied in the end.
Total == Len(buf) + (IF mpc = "lastOut" THEN 0 ELSE len)

\* dtReadtlv has seen two bytes; then, as the other calls of dtGetw, it copies as many as
\* it was admitted for: they wait in the ring, from out on.
CopiesBlock ==
    /\ mpc = "subtract" => op \in {"dtReadmax", "dtFetData"}
    /\ mpc = "tlvLen" => op = "dtReadtlv" /\ out = fout /\ base = taken /\ Held >= 2
    /\ mpc \in {"toEnd", "wrap", "last", "lastOut"} =>
          /\ op \in {"dtReadw", "dtPeekw", "dtReadtlv", "dtReadmax"}
          /\ op = "dtReadtlv" => LenByte(base + 2) \in Nat /\ Total = LenByte(base + 2) + 2
    /\ mpc = "toEnd" => /\ out = fout /\ base = taken /\ buf = <<>>
                        /\ Size - out <= len /\ len <= Held
    /\ mpc = "wrap" => /\ out = 0 /\ fout # 0 /\ base = taken
                       /\ Len(buf) = Size - fout /\ Len(buf) + len <= Held
    /\ mpc \in {"last", "lastOut"} =>
          /\ out + len < Size /\ Dist(fout, out) + len <= Held
          /\ op # "dtPeekw" => out = fout
          /\ base + Len(buf) = taken + Dist(fout, out) + (IF mpc = "lastOut" THEN len ELSE 0)

\* The inductive invariant.
IInv ==
    /\ TypeOK
    /\ RingHolds /\ DataPiece
    /\ TakesByte /\ ReadsAhead /\ CopiesBlock
    /\ ReadInOrder /\ TlvWhole
    /\ mpc = "noData" => retval = NoData

\* What main thread, data thread and ring have to do with a step that is not theirs.
ringVars == <<ring, fin, fout, dataVars, taken>>

-----------------------------------------------------------------------------
(***************************************************************************)
(* What the steps rest on.                                                 *)
(***************************************************************************)
\* The invariant holds in a FET that dtNewFet has just set up.
LEMMA InitIInv == Init => IInv
<1> SUFFICES ASSUME Init PROVE IInv
  OBVIOUS
<1> USE SizeAssumption, RecvRingAssumption DEF Init
<1>1. TypeOK
  <2>1. ring \in [Offsets -> Nat] /\ buf \in Seq(Nat)
    OBVIOUS
  <2>2. /\ fin \in Offsets /\ fout \in Offsets /\ in \in Offsets /\ out \in Offsets
        /\ size \in 0 .. Size
    BY DEF Offsets
  <2>3. /\ dpc \in DataStates /\ mpc \in MainStates /\ op \in AllOps
        /\ closing \in 0 .. 2 /\ outidx \in Offsets \cup {-1} /\ lineidx \in Offsets \cup {-1}
    BY DEF DataStates, MainStates, AllOps
  <2>4. received \in Nat /\ len \in Nat /\ base \in Nat /\ taken \in Nat /\ retval \in Int
    OBVIOUS
  <2>5. connected \in BOOLEAN /\ cmp \in BOOLEAN
    OBVIOUS
  <2> QED
    BY <2>1, <2>2, <2>3, <2>4, <2>5 DEF TypeOK
<1>2. RingHolds /\ DataPiece
  BY DEF RingHolds, DataPiece, Held, Data, Dist, Offsets
<1>3. TakesByte /\ ReadsAhead /\ CopiesBlock /\ ReadInOrder /\ TlvWhole
  BY DEF TakesByte, ReadsAhead, CopiesBlock, ReadInOrder, TlvWhole
<1> QED
  BY <1>1, <1>2, <1>3 DEF IInv

\* Types and distances.
LEMMA Basics ==
    ASSUME IInv
    PROVE  /\ fin \in Offsets /\ fout \in Offsets /\ in \in Offsets /\ out \in Offsets
           /\ Held = Dist(fout, fin) /\ Held \in Nat /\ Held < Size
           /\ Size \in Nat /\ Size >= 2
           /\ len \in Nat /\ base \in Nat /\ taken \in Nat /\ received \in Nat /\ size \in Nat
           /\ buf \in Seq(Nat) /\ Len(buf) \in Nat
           /\ outidx # -1 => outidx \in Offsets
           /\ lineidx # -1 => lineidx \in Offsets
           /\ retval \in Int /\ MaxBytes \in Nat
<1>1. TypeOK
  BY DEF IInv
<1>2. fin \in Offsets /\ fout \in Offsets /\ in \in Offsets /\ out \in Offsets
  BY <1>1 DEF TypeOK
<1>3. Held = Dist(fout, fin) /\ Held \in Offsets
  BY <1>2, DistType DEF Held, Data
<1>4. Held \in Nat /\ Held < Size /\ Size \in Nat /\ Size >= 2
  BY <1>3, SizeAssumption DEF Offsets
<1> QED
  BY <1>1, <1>2, <1>3, <1>4, RecvRingAssumption, SizeAssumption DEF TypeOK, Offsets

\* Every distance is a natural number less than the ring's size.
LEMMA DistNat ==
    ASSUME NEW a \in Offsets, NEW b \in Offsets
    PROVE  Dist(a, b) \in Nat /\ Dist(a, b) < Size
<1>1. Dist(a, b) \in Offsets
  BY DistType
<1> QED
  BY <1>1, SizeAssumption DEF Offsets

\* A step of the main thread that takes nothing disturbs neither the ring nor the data
\* thread's piece.
LEMMA RingFrame ==
    ASSUME IInv, UNCHANGED ringVars
    PROVE  RingHolds' /\ DataPiece' /\ Held' = Held
BY DEF IInv, ringVars, dataVars, RingHolds, DataPiece, Held, Data, Dist

\* Nor does one that takes the next n bytes.
LEMMA TakeFrame ==
    ASSUME IInv, UNCHANGED <<ring, fin, dataVars>>, NEW n \in 0 .. Held,
           fout' \in Offsets, Dist(fout, fout') = n, taken' = taken + n
    PROVE  RingHolds' /\ DataPiece' /\ Held' = Held - n
<1>0. /\ Held = Dist(fout, fin) /\ Held \in Nat /\ Held < Size /\ Size \in Nat /\ n \in Nat
      /\ fin \in Offsets /\ fout \in Offsets /\ taken \in Nat /\ received \in Nat
  BY Basics
<1>1. Held' = Held - n
  BY <1>0, DistRest DEF Held, Data
<1>2. received' = taken' + Held'
  BY <1>0, <1>1 DEF IInv, RingHolds, dataVars
<1>3. ASSUME NEW c \in Offsets, Dist(fout', c) < Held'
      PROVE  ring[c] = taken' + 1 + Dist(fout', c)
  <2>1. Dist(fout', c) \in Nat
    BY DistNat
  <2>2. Dist(fout, c) = n + Dist(fout', c)
    BY <1>0, <1>1, <1>3, <2>1, DistAdds
  <2>3. ring[c] = taken + 1 + Dist(fout, c)
    BY <1>0, <1>1, <1>3, <2>1, <2>2 DEF IInv, RingHolds
  <2> QED
    BY <1>0, <2>1, <2>2, <2>3
<1>4. RingHolds'
  BY <1>2, <1>3 DEF RingHolds, Dist
<1>5. DataPiece'
  BY <1>0, <1>1 DEF IInv, TypeOK, DataPiece, dataVars
<1> QED
  BY <1>1, <1>4, <1>5

\* A step of the data thread leaves the main thread's knowledge true: what waits in the
\* ring only grows.
LEMMA MainFrame ==
    ASSUME IInv, UNCHANGED <<mainVars, fout>>, Held' \in Nat, Held' >= Held
    PROVE  /\ TakesByte' /\ ReadsAhead' /\ CopiesBlock' /\ ReadInOrder' /\ TlvWhole'
           /\ (mpc = "noData" => retval = NoData)'
<1> USE DEF mainVars
<1>0. Held \in Nat /\ len \in Nat /\ Len(buf) \in Nat
  BY Basics
<1>1. TakesByte'
  BY <1>0 DEF IInv, TakesByte
<1>2. ReadsAhead'
  <2>1. lineidx # -1 => Dist(fout, lineidx) \in Nat
    BY Basics, DistNat
  <2> QED
    BY <1>0, <2>1 DEF IInv, ReadsAhead, Dist
<1>3. CopiesBlock'
  <2>1. Dist(fout, out) \in Nat
    BY Basics, DistNat
  <2> QED
    BY <1>0, <2>1 DEF IInv, CopiesBlock, Total, Dist
<1>4. ReadInOrder' /\ TlvWhole' /\ (mpc = "noData" => retval = NoData)'
  BY DEF IInv, ReadInOrder, TlvWhole
<1> QED
  BY <1>1, <1>2, <1>3, <1>4

\* The byte at c is the one after base + i if it is that far from fout.
LEMMA CellHolds ==
    ASSUME IInv, NEW c \in Offsets, Dist(fout, c) < Held
    PROVE  ring[c] = taken + 1 + Dist(fout, c)
BY DEF IInv, RingHolds

-----------------------------------------------------------------------------
(***************************************************************************)
(* The data thread.                                                        *)
(***************************************************************************)
\* The top of the loop, and the end of the connection, concern neither ring nor reader.
LEMMA DataTopKeeps ==
    ASSUME IInv, DataTop \/ RecvEnd
    PROVE  IInv'
<1> USE DEF DataTop, RecvEnd, fetVars
<1>1. TypeOK'
  BY DEF IInv, TypeOK, DataStates, mainVars
<1>2. Held' = Held /\ Held \in Nat
  BY Basics DEF Held, Data, Dist, mainVars
<1>3. RingHolds' /\ DataPiece'
  BY <1>2 DEF IInv, RingHolds, DataPiece, Dist, mainVars
<1> QED
  BY <1>1, <1>2, <1>3, MainFrame DEF IInv

\* dtRead computes the room in front of fout; the cells there are free.
LEMMA ReadRoomKeeps ==
    ASSUME IInv, ReadRoom
    PROVE  IInv'
<1> USE DEF ReadRoom, fetVars
<1>1. Held' = Held /\ Held \in Nat
  BY Basics DEF Held, Data, Dist, mainVars
<1>2. size' \in Nat /\ fin + size' <= Size /\ Held + size' < Size /\ size' <= Size
  <2>1. size' \in Nat /\ fin + size' <= Size /\ size' <= Free(fin, fout)
    BY Basics, RoomFits
  <2>2. Free(fin, fout) = Size - Held - 1
    BY DEF Free, Held
  <2>3. Held \in Nat /\ Size \in Nat /\ fin \in Nat
    BY Basics DEF Offsets
  <2> QED
    BY <2>1, <2>2, <2>3
<1>3. TypeOK'
  BY <1>2, Basics DEF IInv, TypeOK, DataStates, mainVars
<1>4. RingHolds' /\ DataPiece'
  BY <1>1, <1>2 DEF IInv, RingHolds, DataPiece, Dist, mainVars
<1> QED
  BY <1>1, <1>3, <1>4, MainFrame DEF IInv

\* recv () stores the next bytes of the stream into free cells.
LEMMA RecvKeeps ==
    ASSUME IInv, Recv
    PROVE  IInv'
<1>1. PICK bytes \in 1 .. size :
          /\ received + bytes <= MaxBytes
          /\ size' = bytes
          /\ ring' = [i \in Offsets |->
                         IF i \in Piece(fin, bytes) THEN received + 1 + (i - fin)
                                                    ELSE ring[i]]
  BY DEF Recv
<1>2. /\ dpc = "recv" /\ dpc' = "publish"
      /\ UNCHANGED <<fin, fout, connected, closing, received, mainVars>>
  BY DEF Recv
<1>3. /\ size \in Nat /\ bytes \in Nat /\ fin \in Offsets /\ fout \in Offsets
      /\ Held \in Nat /\ Held = Dist(fout, fin) /\ Size \in Nat /\ received \in Nat
      /\ fin + bytes <= Size /\ Held + bytes < Size /\ bytes <= size /\ size <= Size
  <2>1. size \in Nat /\ fin + size <= Size /\ Held + size < Size /\ fin \in Nat
    BY <1>2, Basics DEF IInv, DataPiece, Offsets
  <2>2. bytes \in Nat /\ bytes <= size
    BY <2>1
  <2>3. Held \in Nat /\ Held = Dist(fout, fin) /\ Size \in Nat /\ received \in Nat
        /\ fin \in Offsets /\ fout \in Offsets
    BY Basics
  <2>4. size <= Size
    BY DEF IInv, TypeOK
  <2> QED
    BY <2>1, <2>2, <2>3, <2>4
<1>4. Held' = Held
  BY <1>2 DEF Held, Data, Dist
<1>5. ASSUME NEW i \in Offsets, i \in Piece(fin, bytes)
      PROVE  i - fin \in Nat
  BY <1>3, <1>5 DEF Piece, Offsets
<1>6. TypeOK'
  <2>1. ring' \in [Offsets -> Nat]
    BY <1>1, <1>3, <1>5 DEF IInv, TypeOK
  <2> QED
    BY <2>1, <1>1, <1>2, <1>3 DEF IInv, TypeOK, DataStates, mainVars
<1>7. ASSUME NEW c \in Offsets, Dist(fout, c) < Held
      PROVE  c \notin Piece(fin, bytes)
  <2> SUFFICES ASSUME c \in Piece(fin, bytes) PROVE FALSE
    OBVIOUS
  <2>1. Dist(fin, c) < bytes /\ Dist(fin, c) \in Nat
    BY <1>3, PieceDist, DistNat
  <2>2. Dist(fout, c) = Dist(fout, fin) + Dist(fin, c)
    <3>1. Dist(fout, fin) + Dist(fin, c) < Size
      BY <1>3, <2>1
    <3> QED
      BY <1>3, <3>1, DistAdds
  <2> QED
    BY <1>3, <1>7, <2>1, <2>2
<1>8. RingHolds'
  BY <1>1, <1>2, <1>4, <1>7 DEF IInv, RingHolds, Dist, mainVars
<1>9. DataPiece'
  <2>1. \A c \in Piece(fin, bytes) : c \in Offsets
    BY <1>3 DEF Piece, Offsets
  <2> QED
    BY <1>1, <1>2, <1>3, <1>4, <2>1 DEF IInv, DataPiece
<1> QED
  BY <1>2, <1>3, <1>4, <1>6, <1>8, <1>9, MainFrame DEF IInv

\* dtRead moves fin over what was stored: it joins what waits.
LEMMA ReadPublishKeeps ==
    ASSUME IInv, ReadPublish
    PROVE  IInv' /\ Held' = Held + size
<1> USE DEF ReadPublish
<1>1. /\ size \in Nat /\ size >= 1 /\ fin + size <= Size /\ Held + size < Size
      /\ received + size <= MaxBytes
      /\ \A c \in Piece(fin, size) : ring[c] = received + 1 + (c - fin)
  BY Basics DEF IInv, DataPiece
<1>2. /\ fin \in Offsets /\ fout \in Offsets /\ Held = Dist(fout, fin)
      /\ Held \in Nat /\ Size \in Nat /\ received \in Nat /\ taken \in Nat
  BY Basics
<1>3. fin' = Advance(fin, size) /\ fin' \in Offsets /\ fout' = fout
  BY <1>1, <1>2, AdvanceType DEF mainVars
<1>4. Held' = Held + size
  BY <1>1, <1>2, <1>3, AdvanceAway DEF Held, Data
<1>5. TypeOK'
  BY <1>1, <1>2, <1>3 DEF IInv, TypeOK, DataStates, mainVars
<1>6. received = taken + Held
  BY DEF IInv, RingHolds
<1>7. ASSUME NEW c \in Offsets, Dist(fout, c) < Held + size
      PROVE  ring[c] = taken + 1 + Dist(fout, c)
  <2>0. Dist(fout, c) \in Nat /\ Dist(fin, c) \in Nat
    BY <1>2, DistNat
  <2>1. CASE Dist(fout, c) < Held
    BY <2>1 DEF IInv, RingHolds
  <2>2. CASE Dist(fout, c) >= Held
    <3>1. Dist(fout, c) = Held + Dist(fin, c)
      BY <1>2, <2>0, <2>2, DistSplits
    <3>2. Dist(fin, c) < size
      BY <1>1, <1>2, <1>7, <2>0, <3>1
    <3>3. c \in Piece(fin, size) /\ c - fin = Dist(fin, c)
      BY <1>1, <1>2, <3>2, PieceDist
    <3>4. ring[c] = received + 1 + Dist(fin, c)
      BY <1>1, <3>3
    <3> QED
      BY <1>2, <1>6, <2>0, <3>1, <3>4
  <2> QED
    BY <1>2, <2>0, <2>1, <2>2
<1>8. RingHolds'
  <2>1. received' = taken' + Held'
    BY <1>1, <1>2, <1>4, <1>6 DEF mainVars
  <2> QED
    BY <1>3, <1>4, <1>7, <2>1 DEF RingHolds, Dist, mainVars
<1>9. DataPiece'
  BY <1>1 DEF DataPiece
<1>10. Held' \in Nat /\ Held' >= Held
  BY <1>1, <1>2, <1>4
<1> QED
  BY <1>3, <1>4, <1>5, <1>8, <1>9, <1>10, MainFrame DEF IInv

-----------------------------------------------------------------------------
(***************************************************************************)
(* The main thread, one byte at a time.                                    *)
(***************************************************************************)
\* The length of an item's value, which dtReadtlv returns.
LEMMA LessTwo ==
    ASSUME NEW n \in Nat, n >= 2
    PROVE  n - 2 \in Int /\ n - 2 # NoData
BY DEF NoData

\* A call that returns bytes does not return "no data".
LEMMA ResultType ==
    ASSUME NEW b \in Seq(Nat), op \in AllOps,
           op \in {"dtReado", "dtReadoi"} => Len(b) >= 1,
           op = "dtReadtlv" => Len(b) >= 2
    PROVE  Result(b) \in Int /\ Result(b) # NoData
<1>1. Len(b) \in Nat
  OBVIOUS
<1>2. CASE op \in {"dtReado", "dtReadoi"}
  <2>1. b[Len(b)] \in Nat
    BY <1>1, <1>2
  <2> QED
    BY <1>2, <2>1 DEF Result, NoData
<1>3. CASE op = "dtReadtlv"
  <2>1. Result(b) = Len(b) - 2
    BY <1>3 DEF Result
  <2>2. Len(b) >= 2
    BY <1>3
  <2>3. Len(b) - 2 \in Int /\ Len(b) - 2 # NoData
    BY <1>1, <2>2, LessTwo
  <2> QED
    BY <2>1, <2>3, Zenon
<1>4. CASE op = "dtReadmax"
  BY <1>1, <1>4 DEF Result, NoData
<1>5. CASE op \notin {"dtReado", "dtReadoi", "dtReadtlv", "dtReadmax"}
  BY <1>5 DEF Result, NoData
<1> QED
  BY <1>2, <1>3, <1>4, <1>5

\* The calls that use neither dtReadoi's index nor a length.
LEMMA CallsKeep ==
    ASSUME IInv, CallReado \/ CallReadtlv \/ CallFetData
    PROVE  IInv'
<1> USE DEF CallReado, CallReadtlv, CallFetData, Call, CopyPointers, Return, fetVars
<1>1. /\ UNCHANGED ringVars /\ UNCHANGED <<fout, taken, outidx, lineidx, len>>
      /\ mpc = "idle" /\ outidx = -1
  BY DEF ringVars, dataVars
<1>2. lineidx = -1
  BY <1>1 DEF IInv, ReadsAhead
<1>3. RingHolds' /\ DataPiece' /\ Held' = Held
  BY <1>1, RingFrame
<1>4. Held = Dist(fout, fin) /\ Held \in Nat /\ fin \in Offsets /\ fout \in Offsets
      /\ (fin # fout => Held >= 1)
  BY Basics, DistType
<1>5. TypeOK'
  <2>1. buf' \in Seq(Nat) /\ base' \in Nat /\ in' \in Offsets /\ out' \in Offsets
    <3>1. CASE CallReado \/ CallReadtlv
      <4>1. buf' = <<>> /\ base' = taken /\ in' = fin /\ out' = fout
        BY <3>1
      <4> QED
        BY <4>1, Basics
    <3>2. CASE CallFetData
      BY <3>2, Basics
    <3> QED
      BY <3>1, <3>2
  <2>2. op' \in AllOps
    BY RecvRingAssumption
  <2>3. mpc' \in MainStates
    BY DEF MainStates
  <2>4. retval' \in Int
    BY Basics DEF NoData
  <2>5. cmp' \in BOOLEAN
    <3>1. cmp \in BOOLEAN
      BY DEF IInv, TypeOK
    <3>2. cmp' = cmp \/ cmp' = TRUE \/ cmp' = FALSE
      OBVIOUS
    <3> QED
      BY <3>1, <3>2
  <2> QED
    BY <1>1, <2>1, <2>2, <2>3, <2>4, <2>5 DEF IInv, TypeOK, dataVars
<1>6. TakesByte' /\ ReadsAhead'
  BY <1>1, <1>2, <1>3, <1>4 DEF TakesByte, ReadsAhead
<1>7. CopiesBlock'
  <2>1. mpc' \in {"idle", "reado", "tlvLen", "noData", "subtract"}
    OBVIOUS
  <2>2. mpc' = "tlvLen" => op' = "dtReadtlv" /\ out' = fout /\ base' = taken /\ Held >= 2
    BY <1>4 DEF Held, Data
  <2>3. mpc' = "subtract" => op' \in {"dtReadmax", "dtFetData"}
    OBVIOUS
  <2> QED
    BY <1>1, <1>3, <2>1, <2>2, <2>3 DEF CopiesBlock
<1>8. ReadInOrder' /\ TlvWhole' /\ (mpc = "noData" => retval = NoData)'
  BY DEF IInv, ReadInOrder, TlvWhole, NoData
<1> QED
  BY <1>3, <1>5, <1>6, <1>7, <1>8 DEF IInv

\* dtReado copies the byte at fout.
LEMMA ReadoByteKeeps ==
    ASSUME IInv, ReadoByte
    PROVE  IInv'
<1> USE DEF ReadoByte, fetVars
<1>1. UNCHANGED ringVars
  BY DEF ringVars, dataVars
<1>2. RingHolds' /\ DataPiece' /\ Held' = Held
  BY <1>1, RingFrame
<1>3. op = "dtReado" /\ out = fout /\ Held >= 1 /\ base = taken
  BY DEF IInv, TakesByte
<1>4. ring[out] = base + 1 /\ base \in Nat /\ ring[out] \in Nat
  <2>1. Dist(fout, out) = 0 /\ Held > 0 /\ out \in Offsets
    BY <1>3, Basics, DistType
  <2>2. ring[out] = taken + 1 + 0
    BY <2>1, CellHolds, Basics
  <2> QED
    BY <1>3, <2>2, Basics
<1>5. buf' = <<base + 1>> /\ Len(buf') = 1
  BY <1>4
<1>6. TypeOK'
  <2>1. buf' \in Seq(Nat)
    BY <1>4
  <2> QED
    BY <2>1 DEF IInv, TypeOK, dataVars, MainStates
<1>7. TakesByte' /\ ReadsAhead' /\ CopiesBlock'
  BY <1>1, <1>2, <1>3, <1>5 DEF IInv, TakesByte, ReadsAhead, CopiesBlock
<1>8. ReadInOrder' /\ TlvWhole' /\ (mpc = "noData" => retval = NoData)'
  BY <1>5 DEF ReadInOrder, TlvWhole
<1> QED
  BY <1>2, <1>6, <1>7, <1>8 DEF IInv

\* dtReado takes it.
LEMMA ReadoUpdateKeeps ==
    ASSUME IInv, ReadoUpdate
    PROVE  IInv' /\ Held' = Held - 1 /\ Held >= 1
<1> USE DEF ReadoUpdate, Return
<1>1. op = "dtReado" /\ out = fout /\ Held >= 1 /\ Len(buf) = 1 /\ outidx = -1 /\ lineidx = -1
  BY DEF IInv, TakesByte, ReadsAhead
<1>r. Result(buf) \in Int /\ Result(buf) # NoData
  <2>1. buf \in Seq(Nat) /\ op \in AllOps
    BY DEF IInv, TypeOK
  <2>2. Len(buf) >= 1
    BY <1>1
  <2>3. op # "dtReadtlv"
    BY <1>1
  <2> QED
    BY <2>1, <2>2, <2>3, ResultType, Zenon
<1>2. fout' \in Offsets /\ Dist(fout, fout') = 1 /\ 1 \in 0 .. Held
  <2>1. Dist(fout, fout) = 0 /\ fout + 1 <= Size /\ 0 + 1 < Size /\ 1 \in Nat
    <3>1. fout \in Offsets /\ Size \in Nat /\ Size >= 2
      BY Basics
    <3>2. Dist(fout, fout) = 0
      BY <3>1, DistType
    <3> QED
      BY <3>1, <3>2 DEF Offsets
  <2>2. Advance(fout, 1) \in Offsets /\ Dist(fout, Advance(fout, 1)) = 0 + 1
    BY <2>1, Basics, AdvanceType, AdvanceAway, SMTT(30)
  <2> QED
    BY <1>1, <2>2, Basics
<1>3. RingHolds' /\ DataPiece' /\ Held' = Held - 1
  BY <1>2, TakeFrame
<1>4. TypeOK'
  <2> QED
    BY <1>2, <1>r, Basics DEF IInv, TypeOK, dataVars, MainStates
<1>5. mpc' = "idle"
  BY <1>r
<1>6. TakesByte' /\ ReadsAhead' /\ CopiesBlock'
  BY <1>1, <1>5 DEF TakesByte, ReadsAhead, CopiesBlock
<1>7. ReadInOrder' /\ TlvWhole' /\ (mpc = "noData" => retval = NoData)'
  BY <1>1, <1>5 DEF IInv, ReadInOrder, TlvWhole
<1> QED
  BY <1>1, <1>3, <1>4, <1>6, <1>7 DEF IInv

\* dtReadoi is asked for a byte behind the caller's index.
LEMMA CallReadoiKeeps ==
    ASSUME IInv, CallReadoi
    PROVE  IInv'
<1> USE DEF CallReadoi, Call, Return, fetVars
<1>1. UNCHANGED ringVars /\ mpc = "idle" /\ op' = "dtReadoi"
  BY DEF ringVars, dataVars
<1>2. RingHolds' /\ DataPiece' /\ Held' = Held
  BY <1>1, RingFrame
<1>3. outidx # -1 <=> ~(outidx < 0)
  <2>1. outidx = -1 \/ outidx \in Nat
    BY Basics DEF Offsets
  <2> QED
    BY <2>1
<1>4. out' \in Offsets /\ in' = fin /\ fin \in Offsets /\ fout \in Offsets
      /\ Held = Dist(fout, fin) /\ Held \in Nat
  BY <1>3, Basics
<1>5. /\ base' = taken /\ buf' \in Seq(Nat)
      /\ out' = IF outidx = -1 THEN fout ELSE outidx
      /\ Len(buf') = Dist(fout, out') /\ Len(buf') <= Held
  <2>1. CASE outidx = -1
    BY <1>3, <1>4, <2>1, DistType
  <2>2. CASE outidx # -1
    BY <1>3, <1>4, <2>2, Basics DEF IInv, ReadsAhead
  <2> QED
    BY <2>1, <2>2
<1>6. mpc' = "readoi" => Len(buf') < Held
  <2> SUFFICES ASSUME mpc' = "readoi" PROVE Len(buf') # Held
    BY <1>4, <1>5, DistNat
  <2> QED
    BY <1>4, <1>5, DistInjective DEF NoData
<1>7. TypeOK'
  BY <1>4, <1>5, Basics, RecvRingAssumption DEF IInv, TypeOK, dataVars, MainStates, NoData
<1>8. ReadsAhead'
  <2>1. outidx # -1 => buf' = buf /\ base = taken /\ Len(buf) = Dist(fout, outidx)
    BY <1>3 DEF IInv, ReadsAhead
  <2>2. UNCHANGED <<outidx, lineidx, fout, taken>>
    OBVIOUS
  <2> QED
    BY <1>1, <1>2, <1>5, <1>6, <2>1, <2>2 DEF IInv, ReadsAhead, NoData
<1>9. TakesByte' /\ CopiesBlock'
  BY DEF TakesByte, CopiesBlock, NoData
<1>10. ReadInOrder'
  <2>1. CASE outidx = -1
    BY <2>1 DEF ReadInOrder
  <2>2. CASE outidx # -1
    BY <1>3, <2>2 DEF IInv, ReadInOrder, ReadsAhead
  <2> QED
    BY <2>1, <2>2
<1>11. TlvWhole' /\ (mpc = "noData" => retval = NoData)'
  BY DEF TlvWhole
<1> QED
  BY <1>2, <1>7, <1>8, <1>9, <1>10, <1>11 DEF IInv

\* dtReadoi copies the byte at out and moves the caller's index behind it.
LEMMA ReadoiByteKeeps ==
    ASSUME IInv, ReadoiByte
    PROVE  IInv'
<1> USE DEF ReadoiByte, fetVars
<1>1. UNCHANGED ringVars
  BY DEF ringVars, dataVars
<1>2. RingHolds' /\ DataPiece' /\ Held' = Held
  BY <1>1, RingFrame
<1>3. /\ op = "dtReadoi" /\ base = taken /\ out \in Offsets
      /\ Len(buf) = Dist(fout, out) /\ Len(buf) < Held
  BY Basics DEF IInv, ReadsAhead
<1>4. /\ fout \in Offsets /\ Held \in Nat /\ Held < Size /\ Size \in Nat /\ Len(buf) \in Nat
      /\ base \in Nat /\ buf \in Seq(Nat) /\ 1 \in Nat
  BY Basics
<1>5. ring[out] = base + Len(buf) + 1 /\ ring[out] \in Nat
  <2>1. ring[out] = taken + 1 + Dist(fout, out)
    BY <1>3, CellHolds
  <2> QED
    BY <1>3, <1>4, <2>1
<1>6. buf' = Append(buf, ring[out]) /\ buf' \in Seq(Nat) /\ Len(buf') = Len(buf) + 1
  BY <1>4, <1>5
<1>7. outidx' \in Offsets /\ Dist(fout, outidx') = Len(buf')
  <2>1. out + 1 <= Size
    BY <1>3, <1>4 DEF Offsets
  <2>2. Dist(fout, out) + 1 < Size
    BY <1>3, <1>4
  <2> QED
    BY <1>3, <1>4, <1>6, <2>1, <2>2, AdvanceType, AdvanceAway
<1>8. mpc' = "idle" /\ retval' \in Int
  <2>1. Len(buf') >= 1
    BY <1>4, <1>6
  <2>2. op # "dtReadtlv" /\ op \in AllOps
    BY <1>3 DEF AllOps
  <2>3. Result(buf') \in Int /\ Result(buf') # NoData
    BY <1>6, <2>1, <2>2, ResultType, Zenon
  <2> QED
    BY <2>3 DEF Return
<1>9. TypeOK'
  BY <1>6, <1>7, <1>8 DEF IInv, TypeOK, dataVars, MainStates
<1>10. outidx' # -1
  BY <1>7, <1>4 DEF Offsets
<1>11. Dist(fout, outidx') <= Held
  BY <1>3, <1>4, <1>6, <1>7
<1>12. ReadsAhead'
  <2>1. lineidx' # -1 => Dist(fout, lineidx') <= Held
    BY <1>11 DEF IInv, ReadsAhead
  <2>2. op' = "dtReadoi" /\ base' = taken' /\ fout' = fout /\ Len(buf') <= Held
    BY <1>3, <1>7, <1>11
  <2> QED
    BY <1>2, <1>7, <1>8, <1>10, <2>1, <2>2 DEF ReadsAhead
<1>13. TakesByte' /\ CopiesBlock'
  BY <1>8 DEF TakesByte, CopiesBlock
<1>14. ReadInOrder'
  <2> SUFFICES ASSUME NEW i \in 1 .. Len(buf') PROVE buf'[i] = base + i
    BY DEF ReadInOrder
  <2>1. CASE i = Len(buf) + 1
    BY <1>4, <1>5, <1>6, <2>1
  <2>2. CASE i # Len(buf) + 1
    <3>1. i \in 1 .. Len(buf)
      BY <1>4, <1>6, <2>2
    <3>2. buf[i] = base + i
      BY <3>1 DEF IInv, ReadInOrder
    <3> QED
      BY <1>4, <1>5, <1>6, <3>1, <3>2
  <2> QED
    BY <2>1, <2>2
<1>15. TlvWhole' /\ (mpc = "noData" => retval = NoData)'
  BY <1>3, <1>8 DEF TlvWhole
<1> QED
  BY <1>2, <1>9, <1>12, <1>13, <1>14, <1>15 DEF IInv

\* dtUpdateOut takes what sockOp has read, up to its last line, or nothing.
LEMMA EndReadKeeps ==
    ASSUME IInv, EndRead
    PROVE  /\ IInv'
           /\ \E n \in 0 .. Held : Held' = Held - n
<1>1. PICK idx \in {outidx, lineidx, fout} \ {-1} :
          fout' = idx /\ taken' = taken + Dist(fout, idx)
  BY DEF EndRead
<1>2. /\ outidx' = -1 /\ lineidx' = -1 /\ mpc' = "idle"
      /\ UNCHANGED <<ring, fin, connected, closing, dataVars, op, in, out, len, cmp,
                     retval, buf, base>>
  BY DEF EndRead
<1>3. op = "dtReadoi"
  <2>1. outidx # -1
    BY Basics DEF EndRead, IInv, ReadsAhead
  <2> QED
    BY <2>1 DEF IInv, ReadsAhead
<1>4. idx \in Offsets /\ fout \in Offsets /\ Held \in Nat
  BY Basics
<1>5. Dist(fout, idx) \in 0 .. Held
  <2>1. Dist(fout, idx) \in Nat
    BY <1>4, DistNat
  <2>2. idx = fout => Dist(fout, idx) = 0
    BY <1>4, DistType
  <2>3. idx = outidx \/ idx = lineidx => Dist(fout, idx) <= Held
    BY <1>1 DEF IInv, ReadsAhead
  <2> QED
    BY <1>4, <2>1, <2>2, <2>3
<1>6. RingHolds' /\ DataPiece' /\ Held' = Held - Dist(fout, idx)
  BY <1>1, <1>2, <1>4, <1>5, TakeFrame
<1>7. TypeOK'
  <2>1. taken' \in Nat
    BY <1>1, <1>5, Basics
  <2> QED
    BY <1>1, <1>2, <1>4, <2>1 DEF IInv, TypeOK, dataVars, MainStates
<1>8. TakesByte' /\ ReadsAhead' /\ CopiesBlock'
  BY <1>2 DEF TakesByte, ReadsAhead, CopiesBlock
<1>9. ReadInOrder' /\ TlvWhole' /\ (mpc = "noData" => retval = NoData)'
  BY <1>2, <1>3 DEF IInv, ReadInOrder, TlvWhole
<1> QED
  BY <1>5, <1>6, <1>7, <1>8, <1>9 DEF IInv

\* A caller that found no data closes the connection if it is gone.
LEMMA AfterNoDataKeeps ==
    ASSUME IInv, AfterNoData
    PROVE  IInv'
<1> USE DEF AfterNoData
<1>1. UNCHANGED ringVars
  BY DEF ringVars, dataVars
<1>2. RingHolds' /\ DataPiece' /\ Held' = Held
  BY <1>1, RingFrame
<1>3. TypeOK'
  BY DEF IInv, TypeOK, dataVars, MainStates
<1>4. retval = NoData
  BY DEF IInv
<1>5. ReadsAhead'
  <2>1. mpc' = "endRead" => outidx # -1
    BY Basics
  <2>2. mpc' # "readoi" /\ UNCHANGED <<outidx, lineidx, fout, op, base, taken, buf>>
    BY DEF dataVars
  <2> QED
    BY <1>2, <2>1, <2>2 DEF IInv, ReadsAhead
<1>6. TakesByte' /\ CopiesBlock'
  BY DEF TakesByte, CopiesBlock
<1>7. ReadInOrder' /\ TlvWhole' /\ (mpc = "noData" => retval = NoData)'
  BY <1>4 DEF IInv, ReadInOrder, TlvWhole, NoData
<1> QED
  BY <1>2, <1>3, <1>5, <1>6, <1>7 DEF IInv

-----------------------------------------------------------------------------
(***************************************************************************)
(* The main thread, a block at a time.                                     *)
(***************************************************************************)
\* dtGetw is entered for n bytes, by a call that has no index of dtReadoi's.
LEMMA EnterGetwKeeps ==
    ASSUME IInv, NEW n \in Nat, EnterGetw(n), outidx = -1,
           UNCHANGED <<fetVars, dataVars, cmp, outidx, lineidx, taken>>,
           op' \in {"dtReadw", "dtPeekw", "dtReadtlv", "dtReadmax"},
           op' = "dtReadtlv" => LenByte(taken + 2) \in Nat /\ n = LenByte(taken + 2) + 2
    PROVE  IInv'
<1>1. /\ UNCHANGED ringVars /\ UNCHANGED <<fout, fin, taken, outidx, lineidx, dataVars>>
      /\ UNCHANGED <<ring, connected, closing, cmp>>
  BY DEF ringVars, dataVars, fetVars
<1>2. RingHolds' /\ DataPiece' /\ Held' = Held
  BY <1>1, RingFrame
<1>3. /\ Held = Dist(fout, fin) /\ Held \in Nat /\ Held < Size /\ Size \in Nat
      /\ fin \in Offsets /\ fout \in Offsets /\ Dist(fout, fout) = 0 /\ taken \in Nat
  BY Basics, DistType
<1>4. in' = fin /\ out' = fout /\ buf' = <<>> /\ base' = taken
  BY DEF EnterGetw, CopyPointers
<1>5. CASE mpc' \in {"toEnd", "last"}
  <2>1. n <= Held /\ len' = n /\ retval' = retval
        /\ mpc' = IF Size - fout <= n THEN "toEnd" ELSE "last"
    BY <1>3, <1>5 DEF EnterGetw, Return, Held, Data, NoData
  <2>2. mpc' = "toEnd" => Size - out' <= len'
    BY <1>4, <2>1
  <2>3. mpc' = "last" => out' + len' < Size
    BY <1>3, <1>4, <2>1 DEF Offsets
  <2>4. Total' = n
    BY <1>4, <1>5, <2>1 DEF Total
  <2>5. CopiesBlock'
    <3>1. op' = "dtReadtlv" => LenByte(base' + 2) \in Nat /\ Total' = LenByte(base' + 2) + 2
      BY <1>4, <2>4
    <3>2. mpc' = "toEnd" => /\ out' = fout' /\ base' = taken' /\ buf' = <<>>
                            /\ Size - out' <= len' /\ len' <= Held'
      BY <1>1, <1>2, <1>4, <2>1, <2>2
    <3>3. mpc' = "last" => /\ out' + len' < Size /\ out' = fout'
                           /\ Dist(fout', out') + len' <= Held'
                           /\ base' + Len(buf') = taken' + Dist(fout', out') + 0
      BY <1>1, <1>2, <1>3, <1>4, <2>1, <2>3
    <3> QED
      BY <1>5, <3>1, <3>2, <3>3 DEF CopiesBlock
  <2>6. TypeOK'
    BY <1>1, <1>3, <1>4, <1>5, <2>1 DEF IInv, TypeOK, dataVars, MainStates, AllOps
  <2>7. TakesByte' /\ TlvWhole' /\ (mpc = "noData" => retval = NoData)'
    BY <1>5 DEF TakesByte, TlvWhole
  <2>8. ReadsAhead' /\ ReadInOrder'
    BY <1>1, <1>4, <1>5 DEF IInv, ReadsAhead, ReadInOrder
  <2> QED
    BY <1>2, <2>5, <2>6, <2>7, <2>8 DEF IInv
<1>6. CASE mpc' \notin {"toEnd", "last"}
  <2>1. mpc' = "noData" /\ retval' = NoData /\ len' = len
    BY <1>6 DEF EnterGetw, Return
  <2>2. TypeOK'
    BY <1>1, <1>3, <1>4, <2>1 DEF IInv, TypeOK, dataVars, MainStates, AllOps, NoData
  <2>3. TakesByte' /\ CopiesBlock' /\ TlvWhole' /\ (mpc = "noData" => retval = NoData)'
    BY <2>1 DEF TakesByte, CopiesBlock, TlvWhole
  <2>4. ReadsAhead' /\ ReadInOrder'
    BY <1>1, <1>4, <2>1 DEF IInv, ReadsAhead, ReadInOrder
  <2> QED
    BY <1>2, <2>2, <2>3, <2>4 DEF IInv
<1> QED
  BY <1>5, <1>6

\* A call of dtReadw or dtPeekw.
LEMMA CallGetwKeeps ==
    ASSUME IInv, NEW n \in Lens, CallGetw(n)
    PROVE  IInv'
<1>1. n \in Nat
  BY RecvRingAssumption
<1>2. outidx = -1 /\ op' \in {"dtReadw", "dtPeekw"} /\ EnterGetw(n)
      /\ UNCHANGED <<fetVars, dataVars, cmp, outidx, lineidx, taken>>
  BY DEF CallGetw, Call
<1> QED
  BY <1>1, <1>2, EnterGetwKeeps

\* dtReadtlv has read the length byte: too long an item, or dtGetw of all of it.
LEMMA ReadtlvLenKeeps ==
    ASSUME IInv, ReadtlvLen
    PROVE  IInv'
<1>1. /\ op = "dtReadtlv" /\ out = fout /\ base = taken /\ Held >= 2
      /\ mpc = "tlvLen" /\ op' = op
  BY DEF IInv, CopiesBlock, ReadtlvLen
<1>2. outidx = -1
  BY <1>1 DEF IInv, ReadsAhead
<1>3. LenByte(ring[Advance(out, 1)]) = LenByte(taken + 2) /\ LenByte(taken + 2) \in Nat
  <2>0. /\ fout \in Offsets /\ Size \in Nat /\ Size >= 2 /\ Held \in Nat /\ taken \in Nat
        /\ received \in Nat /\ MaxBytes \in Nat
    BY Basics
  <2>1. fout + 1 <= Size /\ 1 \in Nat /\ Dist(fout, fout) = 0 /\ 0 + 1 < Size
    BY <2>0, DistType DEF Offsets
  <2>2. Advance(out, 1) \in Offsets /\ Dist(fout, Advance(out, 1)) = 0 + 1
    BY <1>1, <2>0, <2>1, AdvanceType, AdvanceAway
  <2>3. ring[Advance(out, 1)] = taken + 1 + 1
    BY <1>1, <2>0, <2>2, CellHolds
  <2>4. taken + 2 \in 0 .. MaxBytes
    BY <1>1, <2>0 DEF IInv, RingHolds, DataPiece
  <2>5. ring[Advance(out, 1)] = taken + 2
    BY <2>0, <2>3
  <2> QED
    BY <2>4, <2>5, RecvRingAssumption
<1>4. CASE LenByte(taken + 2) + 2 > TlvMax
  <2>1. /\ retval' = TooLong /\ mpc' = "idle" /\ UNCHANGED ringVars
        /\ UNCHANGED <<fetVars, dataVars, cmp, outidx, lineidx, taken, in, out, len, buf, base, op>>
    BY <1>3, <1>4 DEF ReadtlvLen, Return, TooLong, NoData, ringVars, fetVars, dataVars
  <2>2. RingHolds' /\ DataPiece' /\ Held' = Held
    BY <2>1, RingFrame
  <2>3. TypeOK'
    BY <2>1 DEF IInv, TypeOK, fetVars, dataVars, MainStates, TooLong
  <2>4. TakesByte' /\ CopiesBlock' /\ ReadsAhead' /\ (mpc = "noData" => retval = NoData)'
    BY <1>2, <2>1 DEF TakesByte, CopiesBlock, ReadsAhead, IInv
  <2>5. ReadInOrder' /\ TlvWhole'
    BY <2>1 DEF IInv, ReadInOrder, TlvWhole, TooLong
  <2> QED
    BY <2>2, <2>3, <2>4, <2>5 DEF IInv
<1>5. CASE ~(LenByte(taken + 2) + 2 > TlvMax)
  <2>1. EnterGetw(LenByte(taken + 2) + 2)
        /\ UNCHANGED <<fetVars, dataVars, cmp, outidx, lineidx, taken>>
    BY <1>3, <1>5 DEF ReadtlvLen
  <2>2. LenByte(taken + 2) + 2 \in Nat
    BY <1>3
  <2> QED
    BY <1>1, <1>2, <1>3, <2>1, <2>2, EnterGetwKeeps
<1> QED
  BY <1>4, <1>5

\* dtReadmax asks for as much as the torn macro says, dtGetw tests it again.
LEMMA FetDataSubtractKeeps ==
    ASSUME IInv, FetDataSubtract
    PROVE  IInv'
<1>1. op \in {"dtReadmax", "dtFetData"} /\ mpc = "subtract" /\ op' = op
      /\ UNCHANGED <<fetVars, dataVars, cmp, outidx, lineidx, taken>>
  BY DEF IInv, CopiesBlock, FetDataSubtract
<1>2. outidx = -1
  BY <1>1 DEF IInv, ReadsAhead
<1>3. DataTorn(cmp, fin, fout) \in Int
  BY Basics, SMTT(30) DEF DataTorn, Offsets
<1>4. CASE mpc' = "idle" /\ retval' \in Int /\ UNCHANGED <<in, out, len, buf, base>>
  <2>1. UNCHANGED ringVars
    BY <1>1 DEF ringVars, fetVars, dataVars
  <2>2. RingHolds' /\ DataPiece' /\ Held' = Held
    BY <2>1, RingFrame
  <2>3. TypeOK'
    BY <1>1, <1>4 DEF IInv, TypeOK, fetVars, dataVars, MainStates
  <2>4. TakesByte' /\ CopiesBlock' /\ ReadsAhead' /\ (mpc = "noData" => retval = NoData)'
    BY <1>1, <1>2, <1>4 DEF TakesByte, CopiesBlock, ReadsAhead, IInv
  <2>5. ReadInOrder' /\ TlvWhole'
    BY <1>1, <1>4 DEF IInv, ReadInOrder, TlvWhole
  <2> QED
    BY <2>2, <2>3, <2>4, <2>5 DEF IInv
<1>5. ASSUME NEW n \in Nat, op = "dtReadmax", EnterGetw(n)
      PROVE  IInv'
  BY <1>1, <1>2, <1>5, EnterGetwKeeps
<1>6. CASE op = "dtReadmax"
  <2>1. PICK n \in Lens :
           LET actual == IF n < DataTorn(cmp, fin, fout) THEN n ELSE DataTorn(cmp, fin, fout)
           IN  IF actual > 0
               THEN EnterGetw(actual)
               ELSE /\ retval' = actual /\ mpc' = "idle"
                    /\ UNCHANGED <<in, out, len, buf, base>>
    BY <1>6 DEF FetDataSubtract
  <2> DEFINE actual == IF n < DataTorn(cmp, fin, fout) THEN n ELSE DataTorn(cmp, fin, fout)
  <2>2. n \in Nat
    BY RecvRingAssumption
  <2>3. actual \in Int
    BY <1>3, <2>2
  <2>4. CASE actual > 0
    <3>1. actual \in Nat /\ EnterGetw(actual)
      BY <2>1, <2>3, <2>4
    <3> QED
      BY <1>5, <1>6, <3>1
  <2>5. CASE ~(actual > 0)
    <3>1. mpc' = "idle" /\ retval' \in Int /\ UNCHANGED <<in, out, len, buf, base>>
      BY <2>1, <2>3, <2>5
    <3> QED
      BY <1>4, <3>1
  <2> QED
    BY <2>4, <2>5
<1>7. CASE op # "dtReadmax"
  <2>1. mpc' = "idle" /\ retval' \in Int /\ UNCHANGED <<in, out, len, buf, base>>
    BY <1>3, <1>7 DEF FetDataSubtract
  <2> QED
    BY <1>4, <2>1
<1> QED
  BY <1>6, <1>7

\* The cells of a piece that waits, seen from where it starts.
LEMMA PieceHolds ==
    ASSUME IInv, out + len <= Size, Dist(fout, out) + len <= Held, NEW i \in 1 .. len
    PROVE  ring[out + i - 1] = taken + Dist(fout, out) + i /\ ring[out + i - 1] \in Nat
<1>1. /\ out \in Offsets /\ fout \in Offsets /\ len \in Nat /\ Held \in Nat /\ Held < Size
      /\ Size \in Nat /\ Dist(fout, out) \in Nat /\ taken \in Nat
  BY Basics, DistNat
<1>2. out + i - 1 \in Offsets /\ Dist(out, out + i - 1) = i - 1
  BY <1>1 DEF Offsets, Dist
<1>3. Dist(fout, out) + (i - 1) < Size /\ Dist(fout, out) + (i - 1) < Held
  BY <1>1
<1>4. Dist(fout, out + i - 1) = Dist(fout, out) + (i - 1)
  BY <1>1, <1>2, <1>3, DistAdds
<1>5. ring[out + i - 1] = taken + 1 + (Dist(fout, out) + (i - 1))
  BY <1>2, <1>3, <1>4, CellHolds
<1> QED
  BY <1>1, <1>5

\* dtGetw copies the piece up to the end of the ring.
LEMMA GetToEndKeeps ==
    ASSUME IInv, GetToEnd
    PROVE  IInv'
<1> USE DEF GetToEnd, fetVars
<1>1. UNCHANGED ringVars
  BY DEF ringVars, dataVars
<1>2. RingHolds' /\ DataPiece' /\ Held' = Held
  BY <1>1, RingFrame
<1>3. /\ out = fout /\ base = taken /\ buf = <<>> /\ Size - out <= len /\ len <= Held
      /\ op \in {"dtReadw", "dtPeekw", "dtReadtlv", "dtReadmax"}
      /\ op = "dtReadtlv" => LenByte(base + 2) \in Nat /\ Total = LenByte(base + 2) + 2
  BY DEF IInv, CopiesBlock
<1>4. /\ out \in Offsets /\ fout \in Offsets /\ len \in Nat /\ Held \in Nat /\ Held < Size
      /\ Size \in Nat /\ Dist(fout, fout) = 0 /\ base \in Nat
  BY Basics, DistType
<1>5. Size - out \in Nat /\ fout # 0
  BY <1>3, <1>4 DEF Offsets
<1>6. ASSUME NEW i \in 1 .. Size - out
      PROVE  ring[out + i - 1] = base + i /\ ring[out + i - 1] \in Nat
  <2>1. out + i - 1 \in Offsets /\ Dist(fout, out + i - 1) = i - 1 /\ i - 1 < Held
    BY <1>3, <1>4, <1>5 DEF Offsets, Dist
  <2>2. ring[out + i - 1] = taken + 1 + (i - 1)
    BY <2>1, CellHolds
  <2> QED
    BY <1>3, <1>4, <2>2
<1>7. buf' \in Seq(Nat) /\ Len(buf') = Size - out /\ \A i \in 1 .. Len(buf') : buf'[i] = base + i
  <2>1. buf' = [i \in 1 .. Size - out |-> ring[out + i - 1]]
    OBVIOUS
  <2> QED
    BY <1>5, <1>6, <2>1
<1>8. len' \in Nat /\ len' = len - (Size - out) /\ out' = 0 /\ out' \in Offsets
  BY <1>3, <1>4, <1>5 DEF Offsets
<1>9. TypeOK'
  BY <1>7, <1>8 DEF IInv, TypeOK, dataVars, MainStates
<1>10. Total' = Total
  BY <1>3, <1>4, <1>5, <1>7, <1>8 DEF Total
<1>11. CopiesBlock'
  <2>1. Len(buf') = Size - fout' /\ Len(buf') + len' <= Held'
    BY <1>2, <1>3, <1>4, <1>5, <1>7, <1>8 DEF Offsets
  <2> QED
    BY <1>3, <1>5, <1>8, <1>10, <2>1 DEF CopiesBlock
<1>12. TakesByte' /\ ReadsAhead' /\ TlvWhole' /\ (mpc = "noData" => retval = NoData)'
  BY <1>3 DEF IInv, TakesByte, ReadsAhead, TlvWhole
<1>13. ReadInOrder'
  BY <1>7 DEF ReadInOrder
<1> QED
  BY <1>2, <1>9, <1>11, <1>12, <1>13 DEF IInv

\* What dtReadtlv has in the end: the whole item, and no byte more.
LEMMA ItemWhole ==
    ASSUME IInv, op = "dtReadtlv", LenByte(base + 2) \in Nat,
           Len(buf) = LenByte(base + 2) + 2
    PROVE  Len(buf) >= 2 /\ buf[2] = base + 2 /\ Result(buf) = LenByte(buf[2])
<1>1. Len(buf) >= 2 /\ Len(buf) \in Nat
  BY Basics
<1>2. buf[2] = base + 2
  BY <1>1 DEF IInv, ReadInOrder
<1>3. Result(buf) = Len(buf) - 2
  BY DEF Result
<1>4. Len(buf) - 2 = LenByte(base + 2)
  BY Basics
<1> QED
  BY <1>1, <1>2, <1>3, <1>4

\* A call of dtGetw that has all its bytes returns.
LEMMA GetwReturns ==
    ASSUME IInv, op \in {"dtReadw", "dtPeekw", "dtReadtlv", "dtReadmax"}, Return(Result(buf)),
           UNCHANGED <<op, buf, base>>, base \in Nat,
           op = "dtReadtlv" => /\ LenByte(base + 2) \in Nat
                               /\ Len(buf) = LenByte(base + 2) + 2
                               /\ taken' = base + Len(buf)
    PROVE  mpc' = "idle" /\ retval' \in Int /\ TlvWhole'
<1>1. Result(buf) \in Int /\ Result(buf) # NoData
  <2>1. buf \in Seq(Nat)
    BY Basics
  <2>2. op \in AllOps /\ op \notin {"dtReado", "dtReadoi"}
    BY DEF AllOps
  <2>3. op = "dtReadtlv" => Len(buf) >= 2
    BY ItemWhole
  <2> QED
    BY <2>1, <2>2, <2>3, ResultType, Zenon
<1>2. mpc' = "idle" /\ retval' = Result(buf)
  BY <1>1 DEF Return
<1>3. TlvWhole'
  <2> SUFFICES ASSUME op = "dtReadtlv"
               PROVE  retval' = LenByte(buf[2]) /\ taken' = base + retval' + 2
    BY DEF TlvWhole
  <2>1. retval' = LenByte(buf[2]) /\ buf[2] = base + 2
    BY <1>2, ItemWhole
  <2> QED
    BY <2>1
<1> QED
  BY <1>1, <1>2, <1>3

\* dtGetw has wrapped: dtReadw gives the first piece back.
LEMMA GetWrapKeeps ==
    ASSUME IInv, GetWrap
    PROVE  /\ IInv'
           /\ \E n \in 0 .. Held : Held' = Held - n
<1> USE DEF GetWrap
<1>1. /\ out = 0 /\ fout # 0 /\ base = taken
      /\ Len(buf) = Size - fout /\ Len(buf) + len <= Held
      /\ op \in {"dtReadw", "dtPeekw", "dtReadtlv", "dtReadmax"}
      /\ op = "dtReadtlv" => LenByte(base + 2) \in Nat /\ Len(buf) + len = LenByte(base + 2) + 2
  BY DEF IInv, CopiesBlock, Total
<1>2. /\ fout \in Offsets /\ len \in Nat /\ Held \in Nat /\ Held < Size /\ Size \in Nat
      /\ base \in Nat /\ Len(buf) \in Nat /\ 0 \in Offsets
  BY Basics, SizeAssumption DEF Offsets
<1>3. Dist(fout, 0) = Len(buf) /\ Dist(0, 0) = 0
  BY <1>1, <1>2 DEF Dist, Offsets
<1>4. UNCHANGED <<ring, fin, connected, closing, dataVars, op, in, out, len, cmp,
                  outidx, lineidx, buf, base>>
  OBVIOUS
<1>5. /\ RingHolds' /\ DataPiece' /\ fout' \in Offsets /\ taken' \in Nat
      /\ Held' \in Nat /\ Dist(fout', 0) + len <= Held' /\ taken' + Dist(fout', 0) = base + Len(buf)
      /\ (op # "dtPeekw" => fout' = 0) /\ (op = "dtPeekw" => UNCHANGED <<fout, taken>>)
      /\ \E n \in 0 .. Held : Held' = Held - n
  <2>1. CASE op = "dtPeekw"
    <3>1. UNCHANGED ringVars
      BY <2>1 DEF ringVars
    <3>2. RingHolds' /\ DataPiece' /\ Held' = Held
      BY <3>1, RingFrame
    <3>3. Held' = Held - 0 /\ 0 \in 0 .. Held
      BY <3>2, <1>2
    <3> QED
      BY <1>1, <1>2, <1>3, <2>1, <3>2, <3>3
  <2>2. CASE op # "dtPeekw"
    <3>1. fout' = 0 /\ taken' = taken + Len(buf)
      BY <1>3, <2>2
    <3>2. Len(buf) \in 0 .. Held
      BY <1>1, <1>2
    <3>3. RingHolds' /\ DataPiece' /\ Held' = Held - Len(buf)
      BY <1>2, <1>3, <1>4, <3>1, <3>2, TakeFrame
    <3> QED
      BY <1>1, <1>2, <1>3, <2>2, <3>1, <3>2, <3>3
  <2> QED
    BY <2>1, <2>2
<1>6. ReadsAhead' /\ ReadInOrder'
  BY <1>1, <1>4 DEF IInv, ReadsAhead, ReadInOrder, Return
<1>7. CASE len = 0
  <2>1. Return(Result(buf))
    BY <1>7
  <2>2. op = "dtReadtlv" => Len(buf) = LenByte(base + 2) + 2 /\ taken' = base + Len(buf)
    BY <1>1, <1>2, <1>3, <1>5, <1>7
  <2>3. mpc' = "idle" /\ retval' \in Int /\ TlvWhole'
    BY <1>1, <1>2, <1>4, <2>1, <2>2, GetwReturns
  <2>4. TypeOK'
    BY <1>4, <1>5, <2>3 DEF IInv, TypeOK, dataVars, MainStates
  <2>5. TakesByte' /\ CopiesBlock' /\ (mpc = "noData" => retval = NoData)'
    BY <2>3 DEF TakesByte, CopiesBlock
  <2> QED
    BY <1>5, <1>6, <2>3, <2>4, <2>5 DEF IInv
<1>8. CASE len # 0
  <2>1. mpc' = "last" /\ retval' = retval
    BY <1>8
  <2>2. TypeOK'
    BY <1>4, <1>5, <2>1 DEF IInv, TypeOK, dataVars, MainStates
  <2>3. CopiesBlock'
    <3>1. out' + len' < Size /\ out' = 0
      BY <1>1, <1>2, <1>4
    <3>2. Total' = Len(buf) + len
      BY <1>4, <2>1 DEF Total
    <3>3. Dist(fout', out') + len' <= Held'
          /\ base' + Len(buf') = taken' + Dist(fout', out') + 0
      <4>1. Dist(fout', 0) \in Nat
        BY <1>2, <1>5, DistNat
      <4> QED
        BY <1>1, <1>2, <1>4, <1>5, <4>1
    <3> QED
      BY <1>1, <1>4, <1>5, <2>1, <3>1, <3>2, <3>3 DEF CopiesBlock
  <2>4. TakesByte' /\ TlvWhole' /\ (mpc = "noData" => retval = NoData)'
    BY <2>1 DEF TakesByte, TlvWhole
  <2> QED
    BY <1>5, <1>6, <2>2, <2>3, <2>4 DEF IInv
<1> QED
  BY <1>5, <1>7, <1>8

\* dtGetw copies the last piece.
LEMMA GetLastKeeps ==
    ASSUME IInv, GetLast
    PROVE  IInv'
<1> USE DEF GetLast, fetVars
<1>1. UNCHANGED ringVars
  BY DEF ringVars, dataVars
<1>2. RingHolds' /\ DataPiece' /\ Held' = Held
  BY <1>1, RingFrame
<1>3. /\ op \in {"dtReadw", "dtPeekw", "dtReadtlv", "dtReadmax"}
      /\ op = "dtReadtlv" => LenByte(base + 2) \in Nat /\ Len(buf) + len = LenByte(base + 2) + 2
      /\ out + len < Size /\ Dist(fout, out) + len <= Held
      /\ op # "dtPeekw" => out = fout
      /\ base + Len(buf) = taken + Dist(fout, out)
  <2>1. base + Len(buf) = taken + Dist(fout, out) + 0
    BY DEF IInv, CopiesBlock
  <2>2. taken \in Nat /\ Dist(fout, out) \in Nat
    BY Basics, DistNat
  <2>3. taken + Dist(fout, out) + 0 = taken + Dist(fout, out)
    BY <2>2
  <2>4. /\ op \in {"dtReadw", "dtPeekw", "dtReadtlv", "dtReadmax"}
        /\ op = "dtReadtlv" => LenByte(base + 2) \in Nat /\ Len(buf) + len = LenByte(base + 2) + 2
        /\ out + len < Size /\ Dist(fout, out) + len <= Held
        /\ op # "dtPeekw" => out = fout
    BY DEF IInv, CopiesBlock, Total
  <2> QED
    BY <2>1, <2>3, <2>4
<1>4. /\ fout \in Offsets /\ out \in Offsets /\ len \in Nat /\ Held \in Nat /\ Size \in Nat
      /\ base \in Nat /\ taken \in Nat /\ Len(buf) \in Nat /\ buf \in Seq(Nat)
      /\ Dist(fout, out) \in Nat
  BY Basics, DistNat
<1>5. ASSUME NEW i \in 1 .. len
      PROVE  ring[out + i - 1] = base + Len(buf) + i /\ ring[out + i - 1] \in Nat
  <2>1. ring[out + i - 1] = taken + Dist(fout, out) + i /\ ring[out + i - 1] \in Nat
    <3>1. out + len <= Size
      BY <1>3, <1>4 DEF Offsets
    <3> QED
      BY <1>3, <3>1, PieceHolds
  <2> QED
    BY <1>3, <1>4, <2>1
<1> DEFINE last == [i \in 1 .. len |-> ring[out + i - 1]]
<1>6. last \in Seq(Nat) /\ Len(last) = len /\ \A i \in 1 .. len : last[i] = base + Len(buf) + i
  BY <1>4, <1>5
<1>7. buf' = buf \o last
  OBVIOUS
<1>8. buf' \in Seq(Nat) /\ Len(buf') = Len(buf) + len
  BY <1>4, <1>6, <1>7
<1>9. ReadInOrder'
  <2> SUFFICES ASSUME NEW i \in 1 .. Len(buf') PROVE buf'[i] = base + i
    BY DEF ReadInOrder
  <2>1. CASE i <= Len(buf)
    <3>1. buf'[i] = buf[i] /\ i \in 1 .. Len(buf)
      BY <1>4, <1>6, <1>7, <1>8, <2>1
    <3> QED
      BY <3>1 DEF IInv, ReadInOrder
  <2>2. CASE ~(i <= Len(buf))
    <3>1. buf'[i] = last[i - Len(buf)] /\ i - Len(buf) \in 1 .. len
      BY <1>4, <1>6, <1>7, <1>8, <2>2
    <3>2. last[i - Len(buf)] = base + Len(buf) + (i - Len(buf))
      BY <1>6, <3>1
    <3> QED
      BY <1>4, <1>8, <3>1, <3>2
  <2> QED
    BY <2>1, <2>2
<1>10. TypeOK'
  BY <1>8 DEF IInv, TypeOK, dataVars, MainStates
<1>11. CopiesBlock'
  <2>1. Total' = Len(buf) + len
    BY <1>4, <1>8 DEF Total
  <2>2. base' + Len(buf') = taken' + Dist(fout', out') + len'
    BY <1>3, <1>4, <1>8
  <2> QED
    BY <1>2, <1>3, <2>1, <2>2 DEF CopiesBlock
<1>12. TakesByte' /\ ReadsAhead' /\ TlvWhole' /\ (mpc = "noData" => retval = NoData)'
  BY <1>3 DEF IInv, TakesByte, ReadsAhead, TlvWhole
<1> QED
  BY <1>2, <1>9, <1>10, <1>11, <1>12 DEF IInv

\* dtGetw ends: dtReadw gives the last piece back.
LEMMA GetLastOutKeeps ==
    ASSUME IInv, GetLastOut
    PROVE  /\ IInv'
           /\ \E n \in 0 .. Held : Held' = Held - n
<1> USE DEF GetLastOut
<1>1. /\ op \in {"dtReadw", "dtPeekw", "dtReadtlv", "dtReadmax"}
      /\ op = "dtReadtlv" => LenByte(base + 2) \in Nat /\ Len(buf) = LenByte(base + 2) + 2
      /\ out + len < Size /\ Dist(fout, out) + len <= Held
      /\ op # "dtPeekw" => out = fout
      /\ base + Len(buf) = taken + Dist(fout, out) + len
  BY Basics DEF IInv, CopiesBlock, Total
<1>2. /\ fout \in Offsets /\ out \in Offsets /\ len \in Nat /\ Held \in Nat /\ Size \in Nat
      /\ base \in Nat /\ taken \in Nat /\ Dist(fout, out) \in Nat /\ Dist(fout, fout) = 0
  BY Basics, DistNat, DistType
<1>3. UNCHANGED <<ring, fin, connected, closing, dataVars, op, in, out, len, cmp,
                  outidx, lineidx, buf, base>> /\ Return(Result(buf))
  OBVIOUS
<1>4. /\ RingHolds' /\ DataPiece' /\ fout' \in Offsets /\ taken' \in Nat
      /\ (op # "dtPeekw" => taken' = base + Len(buf))
      /\ \E n \in 0 .. Held : Held' = Held - n
  <2>1. CASE op = "dtPeekw"
    <3>1. UNCHANGED ringVars
      BY <2>1 DEF ringVars
    <3>2. RingHolds' /\ DataPiece' /\ Held' = Held
      BY <3>1, RingFrame
    <3>3. Held' = Held - 0 /\ 0 \in 0 .. Held
      BY <3>2, <1>2
    <3> QED
      BY <1>2, <2>1, <3>2, <3>3
  <2>2. CASE op # "dtPeekw"
    <3>1. fout' = fout + len /\ taken' = taken + len
      BY <1>1, <2>2
    <3>2. len \in 0 .. Held /\ fout' \in Offsets /\ Dist(fout, fout') = len
      BY <1>1, <1>2, <2>2, <3>1 DEF Offsets, Dist
    <3>3. RingHolds' /\ DataPiece' /\ Held' = Held - len
      BY <1>3, <3>1, <3>2, TakeFrame
    <3>4. taken' = base + Len(buf)
      BY <1>1, <1>2, <2>2, <3>1
    <3> QED
      BY <1>2, <2>2, <3>1, <3>2, <3>3, <3>4
  <2> QED
    BY <2>1, <2>2
<1>5. mpc' = "idle" /\ retval' \in Int /\ TlvWhole'
  BY <1>1, <1>2, <1>3, <1>4, GetwReturns
<1>6. TypeOK'
  BY <1>3, <1>4, <1>5 DEF IInv, TypeOK, dataVars, MainStates
<1>7. TakesByte' /\ CopiesBlock' /\ (mpc = "noData" => retval = NoData)'
  BY <1>5 DEF TakesByte, CopiesBlock
<1>8. ReadsAhead' /\ ReadInOrder'
  BY <1>1, <1>3, <1>5 DEF IInv, ReadsAhead, ReadInOrder
<1> QED
  BY <1>4, <1>5, <1>6, <1>7, <1>8 DEF IInv

-----------------------------------------------------------------------------
(***************************************************************************)
(* The theorems.                                                           *)
(***************************************************************************)
\* Every step of either thread keeps the invariant.
LEMMA NextKeeps ==
    ASSUME IInv, [Next]_vars
    PROVE  IInv'
<1>1. CASE Calls
  BY <1>1, CallsKeep, CallReadoiKeeps, CallGetwKeeps DEF Calls
<1>2. CASE MainThread /\ ~Calls
  BY <1>2, ReadoByteKeeps, ReadoUpdateKeeps, ReadoiByteKeeps, EndReadKeeps, GetToEndKeeps,
     GetWrapKeeps, GetLastKeeps, GetLastOutKeeps, ReadtlvLenKeeps, FetDataSubtractKeeps,
     AfterNoDataKeeps DEF MainThread
<1>3. CASE DataSteps \/ RecvEnd
  BY <1>3, DataTopKeeps, ReadRoomKeeps, RecvKeeps, ReadPublishKeeps DEF DataSteps
<1>4. CASE UNCHANGED vars
  <2>1. TypeOK' /\ RingHolds' /\ DataPiece'
    BY <1>4 DEF vars, fetVars, dataVars, mainVars, IInv, TypeOK, RingHolds, DataPiece, Held,
       Data, Dist
  <2>2. Held' = Held /\ Held \in Nat
    BY <1>4, Basics DEF vars, fetVars, Held, Data, Dist
  <2> QED
    BY <1>4, <2>1, <2>2, MainFrame DEF vars, fetVars, IInv
<1> QED
  BY <1>1, <1>2, <1>3, <1>4 DEF Next

\* The invariant holds in every state of every ring.
THEOREM Invariance == Spec => []IInv
BY InitIInv, NextKeeps, PTL DEF Spec

\* recv () and the main thread are never at one cell at the same time.
LEMMA RaceFree == IInv => NoDataRace
<1> SUFFICES ASSUME IInv, NEW c \in Storing \cap Reading PROVE FALSE
  BY DEF NoDataRace
<1>0. /\ fin \in Offsets /\ fout \in Offsets /\ out \in Offsets /\ len \in Nat /\ size \in Nat
      /\ Held \in Nat /\ Held < Size /\ Size \in Nat /\ Size >= 2 /\ Held = Dist(fout, fin)
      /\ Dist(fout, out) \in Nat /\ Dist(fout, fout) = 0
  BY Basics, DistNat, DistType
<1>1. c \in Piece(fin, size) /\ fin + size <= Size /\ Held + size < Size
  BY DEF Storing, IInv, DataPiece
<1>2. c \in Offsets
  BY <1>0, <1>1 DEF Piece, Offsets
<1>3. Dist(fout, c) >= Held /\ Dist(fout, c) \in Nat
  <2>1. Dist(fin, c) < size /\ Dist(fin, c) \in Nat
    BY <1>0, <1>1, <1>2, PieceDist, DistNat
  <2>2. Dist(fout, fin) + Dist(fin, c) < Size
    BY <1>0, <1>1, <2>1
  <2>3. Dist(fout, c) = Held + Dist(fin, c)
    BY <1>0, <1>2, <2>2, DistAdds
  <2> QED
    BY <1>0, <2>1, <2>3
<1>4. Dist(fout, c) < Held
  <2>1. CASE mpc = "reado"
    BY <1>0, <2>1 DEF Reading, IInv, TakesByte
  <2>2. CASE mpc = "readoi"
    BY <1>0, <2>2 DEF Reading, IInv, ReadsAhead
  <2>3. CASE mpc = "toEnd"
    <3>1. out = fout /\ Size - out <= Held /\ c \in out .. (Size - 1)
      BY <1>0, <2>3 DEF Reading, IInv, CopiesBlock, Offsets
    <3> QED
      BY <1>0, <1>2, <3>1 DEF Dist, Offsets
  <2>4. CASE mpc = "last"
    <3>1. out + len <= Size /\ Dist(fout, out) + len <= Held /\ c \in Piece(out, len)
      BY <1>0, <2>4 DEF Reading, IInv, CopiesBlock, Offsets
    <3>2. Dist(out, c) < len /\ Dist(out, c) \in Nat
      BY <1>0, <1>2, <3>1, PieceDist, DistNat
    <3>3. Dist(fout, c) = Dist(fout, out) + Dist(out, c)
      BY <1>0, <1>2, <3>1, <3>2, DistAdds
    <3> QED
      BY <1>0, <3>1, <3>2, <3>3
  <2>5. CASE mpc = "tlvLen"
    <3>1. out = fout /\ Held >= 2 /\ c = Advance(out, 1)
      BY <2>5 DEF Reading, IInv, CopiesBlock
    <3>2. Dist(fout, c) = 1
      BY <1>0, <3>1 DEF Advance, Dist, Offsets
    <3> QED
      BY <1>0, <3>1, <3>2
  <2>6. mpc \in {"reado", "readoi", "toEnd", "last", "tlvLen"}
    BY DEF Reading
  <2> QED
    BY <2>1, <2>2, <2>3, <2>4, <2>5, <2>6
<1> QED
  BY <1>0, <1>3, <1>4

\* Readers get the peer's bytes in order, whole items from dtReadtlv, and never a cell that
\* recv () is storing into; pointers stay in the ring.
THEOREM ReceiveCorrect == Spec => []ReceiveSafe
<1>1. IInv => ReceiveSafe
  BY RaceFree DEF IInv, ReceiveSafe
<1> QED
  BY Invariance, <1>1, PTL

-----------------------------------------------------------------------------
(***************************************************************************)
(* The ring is a queue.                                                    *)
(***************************************************************************)
\* The bytes in the ring, oldest first.
Bytes == [i \in 1 .. Data(fin, fout) |->
             ring[IF fout + i - 1 < Size THEN fout + i - 1 ELSE fout + i - 1 - Size]]

\* The queue is a run of the stream: that is what RingHolds says.
LEMMA BytesAreRun == IInv => Bytes = Run(taken, Held)
<1> SUFFICES ASSUME IInv PROVE Bytes = Run(taken, Held)
  OBVIOUS
<1>1. fout \in Offsets /\ taken \in Nat /\ Held \in Nat /\ Held < Size /\ Size \in Nat
  BY Basics
<1>2. ASSUME NEW i \in 1 .. Held
      PROVE  ring[IF fout + i - 1 < Size THEN fout + i - 1 ELSE fout + i - 1 - Size] = taken + i
  <2> DEFINE c == IF fout + i - 1 < Size THEN fout + i - 1 ELSE fout + i - 1 - Size
  <2>1. c \in Offsets /\ Dist(fout, c) = i - 1
    BY <1>1 DEF Dist, Offsets
  <2>2. ring[c] = taken + 1 + Dist(fout, c)
    BY <1>1, <2>1, CellHolds
  <2> QED
    BY <1>1, <2>1, <2>2
<1> QED
  BY <1>2 DEF Bytes, Run, Held

\* What the invariant says of the queue.
LEMMA QueueFacts ==
    ASSUME IInv
    PROVE  /\ Held \in Nat /\ Held < Size /\ Size \in Nat /\ taken \in Int /\ received \in Nat
           /\ received = taken + Held
           /\ Bytes = Run(taken, Held) /\ Len(Bytes) = Held
<1>1. Held \in Nat /\ Held < Size /\ Size \in Nat /\ taken \in Int /\ received \in Nat
  BY Basics
<1>2. Bytes = Run(taken, Held)
  BY BytesAreRun
<1>3. Len(Run(taken, Held)) = Held
  BY <1>1 DEF Run
<1> QED
  BY <1>1, <1>2, <1>3 DEF IInv, RingHolds

\* The same of the next state.
LEMMA QueueFactsNext ==
    ASSUME IInv'
    PROVE  /\ Held' \in Nat /\ Held' < Size /\ taken' \in Int
           /\ received' = taken' + Held'
           /\ Bytes' = Run(taken', Held')
<1>1. (/\ Held \in Nat /\ Held < Size /\ Size \in Nat /\ taken \in Int /\ received \in Nat
       /\ received = taken + Held /\ Bytes = Run(taken, Held))'
  BY QueueFacts, PTL
<1> QED
  BY <1>1

\* The steps of the queue, in terms of the ring.
QueueStep ==
    \/ \E n \in 1 .. (Size - 1) : /\ Len(Bytes) + n <= Size - 1
                                  /\ Bytes' = Bytes \o Run(received, n)
                                  /\ received' = received + n
    \/ \E n \in 1 .. Len(Bytes) : /\ Bytes' = SubSeq(Bytes, n + 1, Len(Bytes))
                                  /\ UNCHANGED received
    \/ UNCHANGED <<Bytes, received>>

\* dtRead publishes what recv () stored: a Put.
LEMMA PublishIsPut ==
    ASSUME IInv, IInv', ReadPublish
    PROVE  QueueStep
<1>1. /\ Held' = Held + size /\ received' = received + size /\ taken' = taken
      /\ size \in Nat /\ size >= 1
  BY ReadPublishKeeps, Basics DEF ReadPublish, mainVars, IInv, DataPiece
<1>2. /\ Held \in Nat /\ Held < Size /\ Size \in Nat /\ taken \in Int /\ received = taken + Held
      /\ Bytes = Run(taken, Held) /\ Len(Bytes) = Held
  BY QueueFacts
<1>3. Held' < Size /\ Bytes' = Run(taken, Held + size)
  BY <1>1, QueueFactsNext
<1>4. Bytes' = Bytes \o Run(received, size)
  <2>1. Run(taken, Held + size) = Run(taken, Held) \o Run(taken + Held, size)
    BY <1>1, <1>2, RunAppends
  <2> QED
    BY <1>2, <1>3, <2>1
<1>5. size \in 1 .. (Size - 1) /\ Len(Bytes) + size <= Size - 1
  BY <1>1, <1>2, <1>3
<1> QED
  BY <1>1, <1>4, <1>5 DEF QueueStep

\* A step that takes n bytes is a Take.
LEMMA TakesIsTake ==
    ASSUME IInv, IInv', NEW n \in 0 .. Held, Held' = Held - n, received' = received
    PROVE  QueueStep
<1>1. /\ Held \in Nat /\ taken \in Int /\ received = taken + Held
      /\ Bytes = Run(taken, Held) /\ Len(Bytes) = Held
  BY QueueFacts
<1>2. /\ taken' \in Int /\ received' = taken' + Held' /\ Bytes' = Run(taken', Held')
  BY QueueFactsNext
<1>3. taken' = taken + n
  <2>0. Held - n \in Int /\ taken + n \in Int
    BY <1>1
  <2>1. taken' + (Held - n) = (taken + n) + (Held - n)
    <3>1. received = taken' + (Held - n)
      BY <1>2
    <3> QED
      BY <3>1, <1>1, Shifts
  <2> QED
    BY <2>0, <2>1, <1>1, <1>2, Cancels
<1>4. Bytes' = Run(taken + n, Held - n)
  BY <1>2, <1>3
<1>5. CASE n = 0
  BY <1>1, <1>4, <1>5 DEF QueueStep
<1>6. CASE n # 0
  <2>1. Bytes' = SubSeq(Bytes, n + 1, Len(Bytes))
    BY <1>1, <1>4, RunDrops
  <2>2. n \in 1 .. Len(Bytes)
    BY <1>1, <1>6
  <2> QED
    BY <2>1, <2>2 DEF QueueStep
<1> QED
  BY <1>5, <1>6

\* Each step of either thread is a Put, a Take, or leaves the queue alone.
LEMMA StepsAreQueueSteps ==
    ASSUME IInv, IInv', [Next]_vars
    PROVE  QueueStep
<1>1. CASE ReadPublish
  BY <1>1, PublishIsPut
<1>2. CASE ReadoUpdate \/ EndRead \/ GetWrap \/ GetLastOut
  <2>1. received' = received
    BY <1>2 DEF ReadoUpdate, EndRead, GetWrap, GetLastOut, dataVars
  <2>2. \E n \in 0 .. Held : Held' = Held - n
    <3>1. CASE ReadoUpdate
      <4>1. Held' = Held - 1 /\ Held >= 1 /\ Held \in Nat
        BY <3>1, ReadoUpdateKeeps, Basics
      <4> QED
        BY <4>1
    <3> QED
      BY <1>2, <3>1, EndReadKeeps, GetWrapKeeps, GetLastOutKeeps
  <2> QED
    BY <2>1, <2>2, TakesIsTake
<1>3. CASE UNCHANGED <<fin, fout, received>>
  <2>1. Held' = Held - 0 /\ 0 \in 0 .. Held
    BY <1>3, QueueFacts DEF Held, Data, Dist
  <2> QED
    BY <1>3, <2>1, TakesIsTake
<1>4. \/ ReadPublish \/ ReadoUpdate \/ EndRead \/ GetWrap \/ GetLastOut
      \/ UNCHANGED <<fin, fout, received>>
  <2> USE DEF vars, fetVars, mainVars, dataVars
  <2>1. CASE Calls
    BY <2>1 DEF Calls, CallReado, CallReadoi, CallReadtlv, CallFetData, CallGetw
  <2>2. CASE MainThread
    BY <2>1, <2>2 DEF MainThread, ReadoByte, ReadoiByte, GetToEnd, GetLast, ReadtlvLen,
       FetDataSubtract, AfterNoData
  <2>3. CASE DataSteps \/ RecvEnd \/ UNCHANGED vars
    BY <2>3 DEF DataSteps, DataTop, ReadRoom, Recv, RecvEnd
  <2> QED
    BY <2>2, <2>3 DEF Next
<1> QED
  BY <1>1, <1>2, <1>3, <1>4

\* Whatever mix of calls empties it, the receive ring implements a bounded queue of bytes
\* that loses, repeats and reorders nothing.
THEOREM ImplementsQueue == Spec => IsQueue
<1>1. Init => Queue!Init
  BY SizeAssumption DEF Init, Queue!Init, Data, Dist, Offsets
<1>2. QueueStep => [Queue!Next]_<<Bytes, received>>
  BY DEF QueueStep, Run, Bytes, Queue!Next, Queue!Put, Queue!Take
<1>3. IInv /\ IInv' /\ [Next]_vars => [Queue!Next]_<<Bytes, received>>
  BY <1>2, StepsAreQueueSteps
<1> QED
  BY Invariance, <1>1, <1>3, PTL DEF Spec, IsQueue, Queue!Spec, Bytes
=============================================================================
