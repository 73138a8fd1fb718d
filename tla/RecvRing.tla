------------------------------ MODULE RecvRing ------------------------------
(***************************************************************************)
(* The receive ring of a NetFet: the data thread (dtDataThread, dtRead)    *)
(* fills it from the socket; the main thread empties it with dtReado,      *)
(* dtReadoi and dtUpdateOut, dtReadw, dtPeekw, dtReadtlv and dtReadmax,    *)
(* and closes the connection when it finds no data and no peer.  The data  *)
(* thread alone stores fet->in, the main thread alone stores fet->out, and *)
(* there is no lock.  One action is the code between two accesses to       *)
(* shared fields.  A byte is its serial number in the peer's stream.       *)
(***************************************************************************)
EXTENDS Ring, Sequences

CONSTANTS
    Lens,           \* lengths asked of dtReadw, dtPeekw and dtReadmax
    Ops,            \* the calls the main thread makes
    LenByte(_),     \* value of the stream's n-th byte as a TLV length
    TlvMax,         \* length of the buffer given to dtReadtlv
    MaxBytes        \* bound: bytes the peer sends

AllOps == {"dtReado", "dtReadoi", "dtReadw", "dtPeekw", "dtReadtlv",
           "dtReadmax", "dtFetData"}

ASSUME RecvRingAssumption ==
    /\ Lens \subseteq Nat
    /\ Ops \subseteq AllOps
    /\ \A n \in 0 .. MaxBytes : LenByte(n) \in Nat
    /\ TlvMax \in Nat /\ MaxBytes \in Nat

VARIABLES
    ring,           \* contents of the ring, offset -> serial number
    fin,            \* fet->in
    fout,           \* fet->out
    connected,      \* fet->connected
    closing,        \* fet->closing
    dpc,            \* where the data thread is
    size,           \* dtRead's size, then the bytes received
    mpc,            \* where the main thread is
    op,             \* the call it is in
    in, out,        \* the call's copies of the pointers
    len,            \* bytes the call has still to copy
    cmp,            \* dtFetData's comparison "in >= out"
    outidx,         \* the caller's index for dtReadoi, -1 for none
    lineidx,        \* that index after the last complete line, -1 for none
    retval,         \* the call's result
    buf,            \* bytes the call has copied so far (history)
    base,           \* bytes taken before the call began (history)
    received,       \* bytes stored in the ring so far (history)
    taken           \* bytes taken from the ring so far (history)

fetVars  == <<ring, fin, fout, connected, closing>>
dataVars == <<dpc, size, received>>
mainVars == <<mpc, op, in, out, len, cmp, outidx, lineidx, retval, buf, base, taken>>
vars     == <<fetVars, dataVars, mainVars>>

NoData  == -1           \* also dtReadw's and dtReadtlv's "no data"
TooLong == -2           \* dtReadtlv: "data is too long for the buffer"

Init ==
    /\ ring = [i \in Offsets |-> 0]
    /\ fin = 0 /\ fout = 0
    /\ connected = TRUE /\ closing = 0
    /\ dpc = "top" /\ size = 0 /\ received = 0
    /\ mpc = "idle" /\ op = "dtReado" /\ in = 0 /\ out = 0 /\ len = 0 /\ cmp = FALSE
    /\ outidx = -1 /\ lineidx = -1 /\ retval = 0 /\ buf = <<>>
    /\ base = 0 /\ taken = 0

-----------------------------------------------------------------------------
(***************************************************************************)
(* Data thread.                                                            *)
(***************************************************************************)

\* Top of dtDataThread's loop.  Without a connection the thread only sleeps.
DataTop ==
    /\ dpc = "top"
    /\ \/ closing # 0 /\ dpc' = "exit"
       \/ closing = 0 /\ connected /\ dpc' = "pointers"
    /\ UNCHANGED <<fetVars, size, received, mainVars>>

\* dtRead: the room there is in one piece.  Without any the thread sleeps a while.
ReadRoom ==
    /\ dpc = "pointers"
    /\ size' = Room(fin, fout)
    /\ dpc' = IF size' = 0 THEN "top" ELSE "recv"
    /\ UNCHANGED <<fetVars, received, mainVars>>

\* recv () stores some bytes of the stream.
Recv ==
    /\ dpc = "recv"
    /\ \E bytes \in 1 .. size :
          /\ received + bytes <= MaxBytes
          /\ size' = bytes
          /\ ring' = [i \in Offsets |->
                         IF i \in Piece(fin, bytes) THEN received + 1 + (i - fin)
                                                    ELSE ring[i]]
    /\ dpc' = "publish"
    /\ UNCHANGED <<fin, fout, connected, closing, received, mainVars>>

ReadPublish ==
    /\ dpc = "publish"
    /\ fin' = Advance(fin, size)
    /\ received' = received + size
    /\ dpc' = "top"
    /\ UNCHANGED <<ring, fout, connected, closing, size, mainVars>>

\* recv () reports the end of the connection, or that the socket was closed.
RecvEnd ==
    /\ dpc = "recv"
    /\ connected' = FALSE
    /\ dpc' = "top"
    /\ UNCHANGED <<ring, fin, fout, closing, size, received, mainVars>>

DataSteps == DataTop \/ ReadRoom \/ Recv \/ ReadPublish

-----------------------------------------------------------------------------
(***************************************************************************)
(* Main thread.                                                            *)
(***************************************************************************)
Call(o) ==
    /\ mpc = "idle" /\ o \in Ops
    /\ outidx = -1 \/ o = "dtReadoi"
    /\ op' = o

\* A call copies the pointers, since they are volatile.
CopyPointers == in' = fin /\ out' = fout

\* What a call that did not fail returns: dtReado and dtReadoi the byte, dtReadtlv the
\* length of the value, dtReadmax the number of bytes, dtReadw and dtPeekw 0.
Result(bytes) ==
    CASE op \in {"dtReado", "dtReadoi"} -> bytes[Len(bytes)]
      [] op = "dtReadtlv" -> Len(bytes) - 2
      [] op = "dtReadmax" -> Len(bytes)
      [] OTHER -> 0

\* A call ends with result r.  A caller that found no data looks whether the
\* connection is still there.
Return(r) == retval' = r /\ mpc' = IF r = NoData THEN "noData" ELSE "idle"

\* Mutant: the last byte of the ring is not seen.
CallReadoButLast ==
    /\ Call("dtReado")
    /\ CopyPointers
    /\ buf' = <<>> /\ base' = taken
    /\ IF Data(fin, fout) <= 1 THEN Return(NoData) ELSE mpc' = "reado" /\ UNCHANGED retval
    /\ UNCHANGED <<fetVars, dataVars, len, cmp, outidx, lineidx, taken>>

CallReado ==
    /\ Call("dtReado")
    /\ CopyPointers
    /\ buf' = <<>> /\ base' = taken
    /\ IF fin = fout THEN Return(NoData) ELSE mpc' = "reado" /\ UNCHANGED retval
    /\ UNCHANGED <<fetVars, dataVars, len, cmp, outidx, lineidx, taken>>

ReadoByte ==
    /\ mpc = "reado"
    /\ buf' = <<ring[out]>>
    /\ mpc' = "readoOut"
    /\ UNCHANGED <<fetVars, dataVars, op, in, out, len, cmp, outidx, lineidx, retval,
                   taken, base>>

ReadoUpdate ==
    /\ mpc = "readoOut"
    /\ fout' = Advance(out, 1)
    /\ taken' = taken + 1
    /\ Return(Result(buf))
    /\ UNCHANGED <<ring, fin, connected, closing, dataVars, op, in, out, len, cmp,
                   outidx, lineidx, buf, base>>

(***************************************************************************)
(* dtReadoi reads ahead of fet->out with an index the caller keeps;        *)
(* at the end of sockOp's read request, dtUpdateOut takes what the caller  *)
(* wants: all of it, as much as the last complete line, or nothing.        *)
(***************************************************************************)
CallReadoi ==
    /\ Call("dtReadoi")
    /\ in' = fin
    /\ out' = IF outidx < 0 THEN fout ELSE outidx
    /\ buf' = IF outidx < 0 THEN <<>> ELSE buf
    /\ base' = taken
    /\ IF in' = out' THEN Return(NoData) ELSE mpc' = "readoi" /\ UNCHANGED retval
    /\ UNCHANGED <<fetVars, dataVars, len, cmp, outidx, lineidx, taken>>

ReadoiByte ==
    /\ mpc = "readoi"
    /\ buf' = Append(buf, ring[out])
    /\ outidx' = Advance(out, 1)
    /\ \/ lineidx' = outidx'
       \/ UNCHANGED lineidx
    /\ Return(Result(buf'))
    /\ UNCHANGED <<fetVars, dataVars, op, in, out, len, cmp, taken, base>>

EndRead ==
    /\ mpc = "endRead" \/ (mpc = "idle" /\ outidx >= 0)
    /\ \E idx \in {outidx, lineidx, fout} \ {-1} :
          /\ fout' = idx
          /\ taken' = taken + Dist(fout, idx)
    /\ outidx' = -1 /\ lineidx' = -1
    /\ mpc' = "idle"
    /\ UNCHANGED <<ring, fin, connected, closing, dataVars, op, in, out, len, cmp,
                   retval, buf, base>>

(***************************************************************************)
(* dtGetw: dtReadw, and dtPeekw which leaves fet->out alone.               *)
(***************************************************************************)
EnterGetw(n) ==
    /\ CopyPointers
    /\ buf' = <<>> /\ base' = taken
    /\ IF Data(fin, fout) < n
       THEN Return(NoData) /\ UNCHANGED len
       ELSE /\ len' = n
            /\ mpc' = IF Size - fout <= n THEN "toEnd" ELSE "last"
            /\ UNCHANGED retval

CallGetw(n) ==
    /\ Call("dtReadw") \/ Call("dtPeekw")
    /\ EnterGetw(n)
    /\ UNCHANGED <<fetVars, dataVars, cmp, outidx, lineidx, taken>>

\* "We'll exhaust the data from here to end of ring, so copy that first".
GetToEnd ==
    /\ mpc = "toEnd"
    /\ buf' = [i \in 1 .. Size - out |-> ring[out + i - 1]]
    /\ len' = len - (Size - out)
    /\ out' = 0
    /\ mpc' = "wrap"
    /\ UNCHANGED <<fetVars, dataVars, op, in, cmp, outidx, lineidx, retval, taken, base>>

\* "and wrap out back to the start of the ring".
GetWrap ==
    /\ mpc = "wrap"
    /\ IF op = "dtPeekw"
       THEN UNCHANGED <<fout, taken>>
       ELSE fout' = 0 /\ taken' = taken + Dist(fout, 0)
    /\ IF len = 0 THEN Return(Result(buf)) ELSE mpc' = "last" /\ UNCHANGED retval
    /\ UNCHANGED <<ring, fin, connected, closing, dataVars, op, in, out, len, cmp,
                   outidx, lineidx, buf, base>>

GetLast ==
    /\ mpc = "last"
    /\ buf' = buf \o [i \in 1 .. len |-> ring[out + i - 1]]
    /\ mpc' = "lastOut"
    /\ UNCHANGED <<fetVars, dataVars, op, in, out, len, cmp, outidx, lineidx, retval,
                   taken, base>>

GetLastOut ==
    /\ mpc = "lastOut"
    /\ IF op = "dtPeekw"
       THEN UNCHANGED <<fout, taken>>
       ELSE fout' = out + len /\ taken' = taken + len
    /\ Return(Result(buf))
    /\ UNCHANGED <<ring, fin, connected, closing, dataVars, op, in, out, len, cmp,
                   outidx, lineidx, buf, base>>

\* dtReadtlv: look at the length byte, then dtReadw of the whole item.
CallReadtlv ==
    /\ Call("dtReadtlv")
    /\ CopyPointers
    /\ buf' = <<>> /\ base' = taken
    /\ IF Data(fin, fout) < 2
       THEN Return(NoData)
       ELSE mpc' = "tlvLen" /\ UNCHANGED retval
    /\ UNCHANGED <<fetVars, dataVars, len, cmp, outidx, lineidx, taken>>

\* Mutant: the length is taken to count the length byte but not the tag.
ReadtlvLenNoTag ==
    /\ mpc = "tlvLen"
    /\ LET datalen == LenByte(ring[Advance(out, 1)])
       IN  IF datalen + 2 > TlvMax
           THEN Return(TooLong) /\ UNCHANGED <<in, out, len, buf, base>>
           ELSE EnterGetw(datalen + 1)
    /\ UNCHANGED <<fetVars, dataVars, op, cmp, outidx, lineidx, taken>>

ReadtlvLen ==
    /\ mpc = "tlvLen"
    /\ LET datalen == LenByte(ring[Advance(out, 1)])
       IN  IF datalen + 2 > TlvMax
           THEN Return(TooLong) /\ UNCHANGED <<in, out, len, buf, base>>
           ELSE EnterGetw(datalen + 2)
    /\ UNCHANGED <<fetVars, dataVars, op, cmp, outidx, lineidx, taken>>

(***************************************************************************)
(* dtFetData reads fet->in twice, here for dtReadmax and for sockOp's      *)
(* "get socket info".                                                      *)
(***************************************************************************)
CallFetData ==
    /\ Call("dtReadmax") \/ Call("dtFetData")
    /\ cmp' = (fin >= fout)
    /\ mpc' = "subtract"
    /\ UNCHANGED <<fetVars, dataVars, in, out, len, outidx, lineidx, retval, buf, base,
                   taken>>

FetDataSubtract ==
    /\ mpc = "subtract"
    /\ LET data == DataTorn(cmp, fin, fout)
       IN  IF op = "dtReadmax"
           THEN \E n \in Lens :
                   LET actual == IF n < data THEN n ELSE data
                   IN  IF actual > 0
                       THEN EnterGetw(actual)
                       ELSE /\ retval' = actual /\ mpc' = "idle"
                            /\ UNCHANGED <<in, out, len, buf, base>>
           ELSE /\ retval' = data /\ mpc' = "idle"
                /\ UNCHANGED <<in, out, len, buf, base>>
    /\ UNCHANGED <<fetVars, dataVars, op, cmp, outidx, lineidx, taken>>

(***************************************************************************)
(* No data: a caller that now sees the connection gone closes the FET.     *)
(***************************************************************************)
AfterNoData ==
    /\ mpc = "noData"
    /\ IF connected
       THEN mpc' = (IF outidx >= 0 THEN "endRead" ELSE "idle") /\ UNCHANGED closing
       ELSE closing' = 2 /\ mpc' = "closed"
    /\ UNCHANGED <<ring, fin, fout, connected, dataVars, op, in, out, len, cmp,
                   outidx, lineidx, retval, buf, taken, base>>

Calls ==
    \/ CallReado \/ CallReadoi \/ CallReadtlv \/ CallFetData
    \/ \E n \in Lens : CallGetw(n)

MainThread ==
    \/ Calls
    \/ ReadoByte \/ ReadoUpdate \/ ReadoiByte \/ EndRead
    \/ GetToEnd \/ GetWrap \/ GetLast \/ GetLastOut
    \/ ReadtlvLen \/ FetDataSubtract \/ AfterNoData

Next == MainThread \/ DataSteps \/ RecvEnd

Spec == Init /\ [][Next]_vars

\* The data thread is scheduled, and the emulator polls its connections for ever: whatever
\* else it asks for, it comes back to dtReado.  Nothing obliges the peer to send or to end
\* the connection.
FairSpec == Spec /\ WF_vars(MainThread) /\ SF_vars(CallReado) /\ WF_vars(DataSteps)

-----------------------------------------------------------------------------
MainStates == {"idle", "reado", "readoOut", "readoi", "endRead", "toEnd", "wrap",
               "last", "lastOut", "tlvLen", "subtract", "noData", "closed"}
DataStates == {"top", "pointers", "recv", "publish", "exit"}

\* Every variable stays within its type; the pointers stay inside the ring.
TypeOK ==
    /\ ring \in [Offsets -> Nat]
    /\ fin \in Offsets /\ fout \in Offsets
    /\ connected \in BOOLEAN /\ closing \in 0 .. 2
    /\ dpc \in DataStates /\ size \in 0 .. Size /\ received \in Nat
    /\ mpc \in MainStates /\ op \in AllOps
    /\ in \in Offsets /\ out \in Offsets /\ len \in Nat /\ cmp \in BOOLEAN
    /\ outidx \in Offsets \cup {-1} /\ lineidx \in Offsets \cup {-1}
    /\ retval \in Int /\ buf \in Seq(Nat)
    /\ base \in Nat /\ taken \in Nat

\* The cells recv () may be storing into, and those a call is about to read.
Storing == IF dpc = "recv" THEN Piece(fin, size) ELSE {}
Reading == CASE mpc \in {"reado", "readoi"} -> {out}
             [] mpc = "toEnd"  -> out .. (Size - 1)
             [] mpc = "last"   -> Piece(out, len)
             [] mpc = "tlvLen" -> {Advance(out, 1)}
             [] OTHER -> {}

\* recv () stores straight into the ring while the main thread reads it: the room
\* dtRead computed from its snapshot of fet->out never reaches an unread byte.
NoDataRace == Storing \cap Reading = {}

\* A call hands out the next bytes of the peer's stream, in order and whole, also
\* when dtGetw copies around the wrap and has given back the first piece already.
ReadInOrder == \A i \in 1 .. Len(buf) : buf[i] = base + i

\* dtReadtlv returns one item: the bytes it took from the ring are as many as the
\* item's length byte, read before the dtReadw, says, also across the wrap.
TlvWhole ==
    op = "dtReadtlv" /\ mpc = "idle" /\ retval >= 0
        => retval = LenByte(buf[2]) /\ taken = base + retval + 2

\* The safety of the receive side, in one invariant.
ReceiveSafe == TypeOK /\ NoDataRace /\ ReadInOrder /\ TlvWhole

\* dtReadmax returns the "Number of bytes actually read".
ReadmaxCount == op = "dtReadmax" /\ mpc = "idle" => retval >= 0

\* sockOp: "success is 24/, 18/sendcount, 18/receivecount".
SocketInfoCount == op = "dtFetData" /\ mpc = "idle" => retval \in 0 .. Size - 1

\* sockOp: "If the connection has closed, the final data is delivered".
DrainedBeforeClose == closing # 0 => outidx = fin \/ (outidx = -1 /\ fout = fin)

\* A byte that was received is read at last, however often the ring was full.
ReceivedIsRead == \A k \in 1 .. MaxBytes : received >= k ~> (taken >= k \/ closing # 0)

\* The ring is a queue of Size - 1 bytes.
Queue == INSTANCE ByteQueue WITH
    Capacity <- Size - 1,
    queue <- [i \in 1 .. Data(fin, fout) |->
                 ring[IF fout + i - 1 < Size THEN fout + i - 1 ELSE fout + i - 1 - Size]],
    stored <- received

\* Every step of the two threads is a Put, a Take or invisible to the queue.
IsQueue == Queue!Spec
=============================================================================
