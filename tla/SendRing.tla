------------------------------ MODULE SendRing ------------------------------
(***************************************************************************)
(* The transmit ring of a NetFet: the main thread fills it (dtSend,        *)
(* dtSendo, dtSendTlv) and closes the connection (dtClose); the send       *)
(* thread (dtSendThread) empties it into the socket.  No lock is held: the *)
(* main thread alone stores sendin, the send thread alone stores sendout,  *)
(* and each reads the other's pointer while it moves.  One action is the   *)
(* code between two accesses to shared fields.                             *)
(*                                                                         *)
(* A byte is its serial number in the stream of bytes the callers asked to *)
(* send, so every misplaced, lost or repeated byte shows.                  *)
(***************************************************************************)
EXTENDS Ring, Sequences

CONSTANTS
    Lens,           \* lengths passed to dtSend and dtSendTlv
    Ops,            \* subset of {"dtSend", "dtSendTlv"} the callers use
    MaxBytes        \* bound: bytes stored in one behaviour

ASSUME SendRingAssumption ==
    /\ Lens \subseteq Nat
    /\ Ops \subseteq {"dtSend", "dtSendTlv"}
    /\ MaxBytes \in Nat

VARIABLES
    ring,           \* contents of the ring, offset -> serial number
    sendin,         \* fet->sendin
    sendout,        \* fet->sendout
    ssem,           \* count of the semaphore fet->ssem
    connected,      \* fet->connected
    closing,        \* fet->closing
    connFd,         \* fet->connFd: "open", or "dtNC"
    socket,         \* the socket: "open", "reset" by the peer, "shutdown" (by
                    \* a soft close) or "closed"
    mpc,            \* where the main thread is
    op,             \* the operation it performs
    len,            \* dtSend's len: bytes still to copy
    in,             \* dtSend's and dtSendo's in
    out,            \* dtSend's out
    src,            \* serial number of the next byte to copy (buf)
    cmp,            \* dtSendFree's comparison "sendin >= sendout"
    retval,         \* the last operation's result
    spc,            \* where the send thread is
    sin,            \* dtSendThread's in
    size,           \* dtSendThread's size, then the bytes sent
    accepted,       \* bytes stored in the ring so far (history)
    before,         \* accepted when the operation began (history)
    wire            \* bytes given to the socket, in order (history)

fetVars  == <<ring, sendin, sendout, ssem, connected, closing, connFd, socket>>
mainVars == <<mpc, op, len, in, out, src, cmp, retval, accepted, before>>
sendVars == <<spc, sin, size, wire>>
vars     == <<fetVars, mainVars, sendVars>>

(***************************************************************************)
(* Results of dtSend and dtSendTlv: -1 "ok", 0 "ok but full", more than 0  *)
(* "nothing was sent".                                                     *)
(***************************************************************************)
OkFull   == 0
Ok       == -1
TlvFull  == 1
EAGAIN   == 11
ENOTCONN == 107
Results  == {OkFull, Ok, TlvFull, EAGAIN, ENOTCONN}

Init ==
    /\ ring = [i \in Offsets |-> 0]
    /\ sendin = 0
    /\ sendout = 0
    /\ ssem = 0
    /\ connected = TRUE
    /\ closing = 0
    /\ connFd = "open"
    /\ socket = "open"
    /\ mpc = "idle" /\ op = "dtSend" /\ len = 0 /\ in = 0 /\ out = 0
    /\ src = 1 /\ cmp = FALSE /\ retval = Ok
    /\ spc = "top" /\ sin = 0 /\ size = 0
    /\ accepted = 0 /\ before = 0 /\ wire = <<>>

-----------------------------------------------------------------------------
(***************************************************************************)
(* Main thread.                                                            *)
(***************************************************************************)
dtConnected == closing = 0 /\ connected

\* An operation ends with result r.
Return(r) == mpc' = "idle" /\ retval' = r

\* dtSend (fet, buf, n) is entered: either refused, or on to the free space.
EnterSend(n) ==
    IF ~dtConnected \/ connFd = "dtNC"
    THEN Return(ENOTCONN) /\ UNCHANGED len
    ELSE mpc' = "freeCmp" /\ len' = n /\ UNCHANGED retval

\* A caller has n bytes to send.
CallSend(n) ==
    /\ mpc = "idle" /\ "dtSend" \in Ops
    /\ accepted + n <= MaxBytes
    /\ op' = "dtSend"
    /\ before' = accepted
    /\ src' = accepted + 1
    /\ EnterSend(n)
    /\ UNCHANGED <<fetVars, in, out, cmp, accepted, sendVars>>

\* A caller has a value of n bytes to send as a TLV item.
CallSendTlv(n) ==
    /\ mpc = "idle" /\ "dtSendTlv" \in Ops
    /\ closing = 0
    /\ accepted + n + 2 <= MaxBytes
    /\ op' = "dtSendTlv"
    /\ before' = accepted
    /\ src' = accepted + 1
    /\ len' = n + 2
    /\ mpc' = "freeCmp"
    /\ UNCHANGED <<fetVars, in, out, cmp, retval, accepted, sendVars>>

\* dtSendFree, first access: the comparison of the two pointers.
FreeCompare ==
    /\ mpc \in {"freeCmp", "fullCmp"}
    /\ cmp' = (sendin >= sendout)
    /\ mpc' = IF mpc = "freeCmp" THEN "freeSub" ELSE "fullSub"
    /\ UNCHANGED <<fetVars, op, len, in, out, src, retval, accepted, before, sendVars>>

\* Mutant: the room for a TLV item is tested against its value only.
FreeSubtractValueOnly ==
    /\ mpc = "freeSub"
    /\ LET tag == op = "dtSendTlv" /\ src = before + 1
       IN  IF (IF tag THEN len - 2 ELSE len) > FreeTorn(cmp, sendin, sendout)
           THEN Return(IF tag THEN TlvFull ELSE EAGAIN)
           ELSE mpc' = (IF tag THEN "sendo" ELSE "pointers") /\ UNCHANGED retval
    /\ UNCHANGED <<fetVars, op, len, in, out, src, cmp, accepted, before, sendVars>>

\* dtSendFree, second access, and the test against the length.
FreeSubtract ==
    /\ mpc = "freeSub"
    /\ LET tag == op = "dtSendTlv" /\ src = before + 1
       IN  IF len > FreeTorn(cmp, sendin, sendout)
           THEN Return(IF tag THEN TlvFull ELSE EAGAIN)
           ELSE mpc' = (IF tag THEN "sendo" ELSE "pointers") /\ UNCHANGED retval
    /\ UNCHANGED <<fetVars, op, len, in, out, src, cmp, accepted, before, sendVars>>

\* dtSendo, the tag and then the length byte: read the pointers and store the
\* byte, unless the ring is full (then the byte is dropped).
SendoStore ==
    /\ mpc = "sendo"
    /\ in' = sendin
    /\ IF Advance(sendin, 1) = sendout
       THEN UNCHANGED ring /\ mpc' = "sendoDone"
       ELSE ring' = [ring EXCEPT ![sendin] = src] /\ mpc' = "sendoPublish"
    /\ UNCHANGED <<sendin, sendout, ssem, connected, closing, connFd, socket,
                   op, len, out, src, cmp, retval, accepted, before, sendVars>>

SendoPublish ==
    /\ mpc = "sendoPublish"
    /\ sendin' = Advance(in, 1)
    /\ accepted' = accepted + 1
    /\ mpc' = "sendoDone"
    /\ UNCHANGED <<ring, sendout, ssem, connected, closing, connFd, socket,
                   op, len, in, out, src, cmp, retval, before, sendVars>>

\* After the tag comes the length byte, after that dtSend of the value.
SendoDone ==
    /\ mpc = "sendoDone"
    /\ src' = src + 1
    /\ IF src = before + 1
       THEN mpc' = "sendo" /\ UNCHANGED <<len, retval>>
       ELSE EnterSend(len - 2)
    /\ UNCHANGED <<fetVars, op, in, out, cmp, accepted, before, sendVars>>

\* dtSend: copy the pointers, since they are volatile.
Pointers ==
    /\ mpc = "pointers"
    /\ in' = sendin
    /\ out' = sendout
    /\ mpc' = IF len > 0 THEN "memcpy" ELSE "publish"
    /\ UNCHANGED <<fetVars, op, len, src, cmp, retval, accepted, before, sendVars>>

\* The piece the next memcpy stores.
CopySize == IF Room(in, out) > len THEN len ELSE Room(in, out)

\* Mutant: "buf" is not moved past the first piece.
MemcpySameSource ==
    /\ mpc = "memcpy"
    /\ ring' = [i \in Offsets |->
                   IF i \in Piece(in, CopySize) THEN before + 1 + (i - in) ELSE ring[i]]
    /\ in' = Advance(in, CopySize)
    /\ src' = src + CopySize
    /\ len' = len - CopySize
    /\ mpc' = IF len' > 0 THEN "memcpy" ELSE "publish"
    /\ UNCHANGED <<sendin, sendout, ssem, connected, closing, connFd, socket,
                   op, out, cmp, retval, accepted, before, sendVars>>

Memcpy ==
    /\ mpc = "memcpy"
    /\ ring' = [i \in Offsets |->
                   IF i \in Piece(in, CopySize) THEN src + (i - in) ELSE ring[i]]
    /\ in' = Advance(in, CopySize)
    /\ src' = src + CopySize
    /\ len' = len - CopySize
    /\ mpc' = IF len' > 0 THEN "memcpy" ELSE "publish"
    /\ UNCHANGED <<sendin, sendout, ssem, connected, closing, connFd, socket,
                   op, out, cmp, retval, accepted, before, sendVars>>

\* Update the IN pointer, then wake the send thread.
Publish ==
    /\ mpc = "publish"
    /\ sendin' = in
    /\ accepted' = src - 1
    /\ mpc' = "post"
    /\ UNCHANGED <<ring, sendout, ssem, connected, closing, connFd, socket,
                   op, len, in, out, src, cmp, retval, before, sendVars>>

\* Mutant: the send thread is not woken.
PostNothing ==
    /\ mpc = "post"
    /\ mpc' = "fullCmp"
    /\ UNCHANGED <<fetVars, op, len, in, out, src, cmp, retval, accepted, before,
                   sendVars>>

Post ==
    /\ mpc = "post"
    /\ ssem' = ssem + 1
    /\ mpc' = "fullCmp"
    /\ UNCHANGED <<ring, sendin, sendout, connected, closing, connFd, socket,
                   op, len, in, out, src, cmp, retval, accepted, before, sendVars>>

\* Mutant: a send that filled the ring is reported as refused.
FullSubtractRefuses ==
    /\ mpc = "fullSub"
    /\ Return(IF FreeTorn(cmp, sendin, sendout) = 0 THEN EAGAIN ELSE Ok)
    /\ UNCHANGED <<fetVars, op, len, in, out, src, cmp, accepted, before, sendVars>>

\* "This send worked but the next one will not."
FullSubtract ==
    /\ mpc = "fullSub"
    /\ Return(IF FreeTorn(cmp, sendin, sendout) = 0 THEN OkFull ELSE Ok)
    /\ UNCHANGED <<fetVars, op, len, in, out, src, cmp, accepted, before, sendVars>>

(***************************************************************************)
(* dtClose, as far as this ring sees it: mark the FET, then for a hard     *)
(* close take the socket away, then wake the send thread.                  *)
(***************************************************************************)
CloseMark ==
    /\ mpc = "idle" /\ closing = 0
    /\ \E hard \in BOOLEAN : closing' = IF hard THEN 2 ELSE 1
    /\ connected' = FALSE
    /\ mpc' = "closeSocket"
    /\ UNCHANGED <<ring, sendin, sendout, ssem, connFd, socket, op, len, in, out,
                   src, cmp, retval, accepted, before, sendVars>>

\* dtCloseSocket of a socket already closed does nothing.
CloseSocket ==
    /\ mpc = "closeSocket"
    /\ IF closing # 1
       THEN /\ socket' = IF connFd = "open" THEN "closed" ELSE socket
            /\ connFd' = "dtNC"
       ELSE UNCHANGED <<socket, connFd>>
    /\ mpc' = "closePost"
    /\ UNCHANGED <<ring, sendin, sendout, ssem, connected, closing, op, len, in,
                   out, src, cmp, retval, accepted, before, sendVars>>

\* Mutant: dtClose leaves the send thread asleep.
ClosePostNothing ==
    /\ mpc = "closePost"
    /\ mpc' = "closed"
    /\ UNCHANGED <<fetVars, op, len, in, out, src, cmp, retval, accepted, before,
                   sendVars>>

ClosePost ==
    /\ mpc = "closePost"
    /\ ssem' = ssem + 1
    /\ mpc' = "closed"
    /\ UNCHANGED <<ring, sendin, sendout, connected, closing, connFd, socket, op,
                   len, in, out, src, cmp, retval, accepted, before, sendVars>>

\* What the emulator starts when it likes, and what it then carries through.
MainCalls == CloseMark \/ \E n \in Lens : CallSend(n) \/ CallSendTlv(n)

MainSteps ==
    \/ FreeCompare \/ FreeSubtract
    \/ SendoStore \/ SendoPublish \/ SendoDone
    \/ Pointers \/ Memcpy \/ Publish \/ Post \/ FullSubtract
    \/ CloseSocket \/ ClosePost

-----------------------------------------------------------------------------
(***************************************************************************)
(* Send thread, dtSendThread.  emulationActive stays TRUE.                 *)
(***************************************************************************)
\* Top of the loop: exit on a hard close, else look for data.
Top ==
    /\ spc = "top"
    /\ spc' = IF closing = 2 THEN "exit" ELSE "empty"
    /\ UNCHANGED <<fetVars, mainVars, sin, size, wire>>

\* dtSendEmpty.
TestEmpty ==
    /\ spc = "empty"
    /\ spc' = IF sendin = sendout THEN "closing" ELSE "pointers"
    /\ UNCHANGED <<fetVars, mainVars, sin, size, wire>>

\* No data was seen: is a soft close pending?
TestClosing ==
    /\ spc = "closing"
    /\ spc' = IF closing = 1 THEN "shutdown" ELSE "wait"
    /\ UNCHANGED <<fetVars, mainVars, sin, size, wire>>

\* Mutant: the FET is marked as closed before its socket is forgotten.
ShutdownMarksFirst ==
    /\ spc = "shutdown"
    /\ socket' = IF connFd = "open" THEN "shutdown" ELSE socket
    /\ closing' = 2
    /\ spc' = "forget"
    /\ UNCHANGED <<ring, sendin, sendout, ssem, connected, connFd,
                   mainVars, sin, size, wire>>

\* "Do the actual shutdown": close the socket, forget it, mark the FET.
Shutdown ==
    /\ spc = "shutdown"
    /\ socket' = IF connFd = "open" THEN "shutdown" ELSE socket
    /\ spc' = "forget"
    /\ UNCHANGED <<ring, sendin, sendout, ssem, connected, closing, connFd,
                   mainVars, sin, size, wire>>

Forget ==
    /\ spc = "forget"
    /\ connFd' = "dtNC"
    /\ spc' = "mark"
    /\ UNCHANGED <<ring, sendin, sendout, ssem, connected, closing, socket,
                   mainVars, sin, size, wire>>

Mark ==
    /\ spc = "mark"
    /\ closing' = 2
    /\ spc' = "exit"
    /\ UNCHANGED <<ring, sendin, sendout, ssem, connected, connFd, socket,
                   mainVars, sin, size, wire>>

\* sem_wait (ssem).
Wait ==
    /\ spc = "wait" /\ ssem > 0
    /\ ssem' = ssem - 1
    /\ spc' = "top"
    /\ UNCHANGED <<ring, sendin, sendout, connected, closing, connFd, socket,
                   mainVars, sin, size, wire>>

\* Copy the pointers; the piece to send follows from them.
SendPointers ==
    /\ spc = "pointers"
    /\ sin' = sendin
    /\ size' = Avail(sendin, sendout)
    /\ spc' = "send"
    /\ UNCHANGED <<fetVars, mainVars, wire>>

\* Mutant: a partial send counts as complete.
SendBytesAll ==
    /\ spc = "send" /\ socket = "open" /\ connFd = "open"
    /\ \E bytes \in 1 .. size :
           wire' = wire \o [i \in 1 .. bytes |-> ring[sendout + i - 1]]
    /\ spc' = "advance"
    /\ UNCHANGED <<fetVars, mainVars, sin, size>>

\* send () takes some or all of the piece.
SendBytes ==
    /\ spc = "send" /\ socket = "open" /\ connFd = "open"
    /\ \E bytes \in 1 .. size :
           /\ wire' = wire \o [i \in 1 .. bytes |-> ring[sendout + i - 1]]
           /\ size' = bytes
    /\ spc' = "advance"
    /\ UNCHANGED <<fetVars, mainVars, sin>>

\* send () fails: the peer reset the connection, or the main thread closed it.
SendFails ==
    /\ spc = "send"
    /\ socket # "open" \/ connFd = "dtNC"
    /\ spc' = "exit"
    /\ UNCHANGED <<fetVars, mainVars, sin, size, wire>>

SendAdvance ==
    /\ spc = "advance"
    /\ sendout' = Advance(sendout, size)
    /\ spc' = "top"
    /\ UNCHANGED <<ring, sendin, ssem, connected, closing, connFd, socket,
                   mainVars, sin, size, wire>>

SendThread ==
    \/ Top \/ TestEmpty \/ TestClosing
    \/ Shutdown \/ Forget \/ Mark \/ Wait
    \/ SendPointers \/ SendBytes \/ SendFails \/ SendAdvance

-----------------------------------------------------------------------------
\* The peer resets the connection.
PeerReset ==
    /\ socket = "open"
    /\ socket' = "reset"
    /\ UNCHANGED <<ring, sendin, sendout, ssem, connected, closing, connFd,
                   mainVars, sendVars>>

\* The data thread saw the end of the connection (dtDataThread, dtRead < 0): it was
\* reset, or the peer shut down its half and still receives.
Drop ==
    /\ connected /\ closing = 0
    /\ connected' = FALSE
    /\ UNCHANGED <<ring, sendin, sendout, ssem, closing, connFd, socket,
                   mainVars, sendVars>>

Next == MainCalls \/ MainSteps \/ SendThread \/ PeerReset \/ Drop

Spec == Init /\ [][Next]_vars

\* A thread that can run is run, and a peer that is there keeps reading, so that
\* send () returns.  Nothing obliges a caller to send or to close.
FairSpec == Spec /\ WF_vars(MainSteps) /\ WF_vars(SendThread)

-----------------------------------------------------------------------------
MainStates == {"idle", "freeCmp", "freeSub", "sendo", "sendoPublish", "sendoDone",
               "pointers", "memcpy", "publish", "post", "fullCmp", "fullSub",
               "closeSocket", "closePost", "closed"}
SendStates == {"top", "empty", "closing", "shutdown", "forget", "mark", "wait",
               "pointers", "send", "advance", "exit"}

\* Every variable stays within its type; the pointers stay inside the ring.
TypeOK ==
    /\ ring \in [Offsets -> Nat]
    /\ sendin \in Offsets /\ sendout \in Offsets
    /\ ssem \in Nat
    /\ connected \in BOOLEAN /\ closing \in 0 .. 2
    /\ connFd \in {"open", "dtNC"} /\ socket \in {"open", "reset", "shutdown", "closed"}
    /\ mpc \in MainStates /\ op \in {"dtSend", "dtSendTlv"}
    /\ len \in Nat /\ in \in Offsets /\ out \in Offsets /\ src \in Nat
    /\ cmp \in BOOLEAN /\ retval \in Results
    /\ spc \in SendStates /\ sin \in Offsets /\ size \in 0 .. Size
    /\ accepted \in Nat /\ before \in Nat
    /\ wire \in Seq(Nat)

\* The cells the main thread is about to store into, and those the send thread
\* is sending or has sent but not yet given back.
Storing == CASE mpc = "memcpy" -> Piece(in, CopySize)
             [] mpc = "sendo" /\ Advance(sendin, 1) # sendout -> {sendin}
             [] OTHER -> {}
Sending == IF spc \in {"send", "advance"} THEN Piece(sendout, size) ELSE {}

\* dtSend copies with a pointer snapshot that may be stale and dtSendThread sends
\* straight from the ring: a memcpy or a dtSendo never touches a byte that send ()
\* is reading, whatever moved between the snapshots.
NoDataRace == Storing \cap Sending = {}

\* What reaches the socket is the stream the callers stored: in order, nothing
\* lost, repeated or overwritten across the wrap of the ring (dtSendThread).
WireInOrder == \A i \in 1 .. Len(wire) : wire[i] = i

\* dtSendFree reads the pointers twice, and the send thread may move sendout in
\* between.  dtSend then goes on only when the bytes really fit, so that its copy
\* loop ends and leaves one byte unused.
AdmittedFits ==
    /\ mpc = "pointers" => len <= Free(sendin, sendout)
    /\ mpc = "memcpy"   => len <= Free(in, sendout)

\* Main thread (dtClose) and send thread (soft close) never both close the socket:
\* a descriptor number closed twice could by then belong to another connection.
SocketClosedOnce ==
    mpc = "closeSocket" /\ closing = 2 /\ connFd = "open" => socket \in {"open", "reset"}

\* dtSend: ">0 if nothing was sent.  Note that this is an all or nothing send".
\* A refused dtSend leaves no byte in the ring.
RefusedSendsNothing ==
    mpc = "idle" /\ op = "dtSend" /\ retval > 0 => accepted = before

\* dtSendTlv on a connection that is up either stores the whole item or nothing,
\* so that the receiver's framing survives a ring that is full.
ConnectedTlvWhole ==
    mpc = "idle" /\ op = "dtSendTlv" /\ retval = EAGAIN /\ socket = "open"
        => accepted = before

\* dtSendThread: "If we have a soft close (shutdown) pending, and we no longer have
\* data to send, do the actual shutdown."
SoftCloseFlushes == spc = "shutdown" => sendin = sendout

\* No wakeup is lost: the bytes in the ring when dtSend posts the semaphore are sent,
\* unless the connection goes.
StoredIsSent ==
    \A k \in 1 .. MaxBytes :
        mpc = "fullCmp" /\ accepted >= k ~> (Len(wire) >= k \/ socket # "open")

\* After dtClose, soft or hard, the send thread ends and can be joined.
CloseEndsThread == closing # 0 ~> spc = "exit"

\* The send thread never sleeps through what it is there for: data and the end.
SendThreadServes == StoredIsSent /\ CloseEndsThread

(***************************************************************************)
(* The inductive invariant behind the safety properties: who owns which    *)
(* cells, and what the pointers an operation has read still say about the  *)
(* pointers as they are now.                                               *)
(***************************************************************************)
\* Bytes in the ring, those sent and not yet given back included.
Held == Data(sendin, sendout)

\* The serial number of the byte at sendout.
First == Len(wire) + 1 - (IF spc = "advance" THEN size ELSE 0)

\* The bytes between sendout and sendin are the stream from First on.
RingHolds ==
    /\ accepted + 1 = First + Held
    /\ \A c \in Offsets : Dist(sendout, c) < Held => ring[c] = First + Dist(sendout, c)

\* The send thread has something to send, and a piece that is in the ring.
SendPiece ==
    /\ spc = "pointers" => sendin # sendout
    /\ spc \in {"send", "advance"} => size <= Held /\ sendout + size <= Size

\* dtSendFree's comparison may be out of date, but then only to the safe side.
Compared == mpc \in {"freeSub", "fullSub"} /\ cmp => sendout <= sendin

\* Up to its copy loop an operation has stored nothing it has not published, except
\* the one byte of dtSendo, and there is room for the rest.
Tag == op = "dtSendTlv" /\ src = before + 1
Stored == src - before - 1      \* bytes of a TLV item before the one in hand
Entering ==
    /\ mpc \in {"freeCmp", "freeSub", "pointers", "sendo", "sendoPublish"} => src = accepted + 1
    /\ mpc \in {"freeCmp", "freeSub"} /\ Tag => len >= 2
    /\ mpc = "pointers" => len <= Free(sendin, sendout)
    /\ mpc \in {"sendo", "sendoPublish", "sendoDone"} => len >= 2 /\ Stored \in {0, 1}
    /\ mpc \in {"sendo", "sendoPublish"} => len - Stored <= Free(sendin, sendout)
    /\ mpc = "sendoPublish" => in = sendin /\ ring[sendin] = src
    /\ mpc = "sendoDone" => src = accepted /\ len - Stored - 1 <= Free(sendin, sendout)

\* In dtSend's copy loop the bytes from sendin to in are copied and not yet published.
\* The piece is cut by dtSend's copy of sendout, behind which the real one moves on.
Copying ==
    mpc \in {"memcpy", "publish"} =>
        /\ src = accepted + 1 + Dist(sendin, in)
        /\ \A c \in Offsets :
               Dist(sendin, c) < Dist(sendin, in) => ring[c] = accepted + 1 + Dist(sendin, c)
        /\ Dist(out, sendout) + Held = Dist(out, sendin)
        /\ Dist(out, sendin) + Dist(sendin, in) + len < Size

\* Together these parts are inductive.
IInv ==
    /\ TypeOK /\ WireInOrder
    /\ RingHolds /\ SendPiece /\ Compared /\ Entering /\ Copying

\* The ring is a queue of Size - 1 bytes.
Queue == INSTANCE ByteQueue WITH
    Capacity <- Size - 1,
    queue <- [i \in 1 .. Data(sendin, sendout) |->
                 ring[IF sendout + i - 1 < Size THEN sendout + i - 1
                                                ELSE sendout + i - 1 - Size]],
    stored <- accepted

\* Every step of the two threads is a Put, a Take or invisible to the queue.
IsQueue == Queue!Spec
=============================================================================
