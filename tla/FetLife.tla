------------------------------ MODULE FetLife -------------------------------
(***************************************************************************)
(* The life of one NetFet (dtnetsubs.c): created by the listen thread or   *)
(* by dtConnect, served by its data thread and its send thread, closed by  *)
(* dtClose and freed by its data thread, while the emulator's main thread  *)
(* finds it in the portset's portVec and uses it.  The rings are reduced   *)
(* to the number of bytes that wait to be sent: SendRing and RecvRing      *)
(* model them.  curPorts and the choice of the slot are in PortSet.        *)
(***************************************************************************)
EXTENDS Integers

CONSTANTS
    Uses,           \* the servers: <<origin, client>>, see the variables
    EarlyEnd,       \* may the connection end while the FET is being created?
    CreateFails,    \* may pthread_create fail for the data thread?
    MaxSends        \* bound: sends in one behaviour

ASSUME FetLifeAssumption ==
    /\ Uses \subseteq {"accept", "connect"} \X {"poll", "callback", "ext"}
    /\ EarlyEnd \in BOOLEAN /\ CreateFails \in BOOLEAN
    /\ MaxSends \in Nat

Threads == {"creator", "main", "data", "send"}

VARIABLES
    origin,         \* how it is made: "accept" or "connect"
    client,         \* who closes: "poll" the main thread when it polls (niu.c,
                    \* operator.c), "callback" the data thread in its data
                    \* callback (console.c, pni.c), "ext" a sockOp request
    pc,             \* where each thread is
    mem,            \* the FET's memory: "none", "live" or "freed"
    slot,           \* does portVec hold the FET?
    connected,      \* fet->connected
    closing,        \* fet->closing
    socket,         \* the socket: "open", or "closed" (with or without FIN)
    connFd,         \* fet->connFd: "open" or "dtNC"
    ssem, rsem,     \* the two semaphores' counts
    sendThread,     \* is fet->sendThread set?
    unsent,         \* bytes in the transmit ring
    resume,         \* where the main thread goes after dtClose
    net,            \* the connection: "connecting", "up", "fin" or "reset"
    opened,         \* connection callbacks for the new connection (history)
    closed,         \* connection callbacks for the close (history)
    sends           \* sends so far

fetVars == <<mem, slot, connected, closing, socket, connFd, ssem, rsem, sendThread,
             unsent>>
who     == <<origin, client>>       \* never changes
hist    == <<net, opened, closed, sends, who>>
vars    == <<pc, fetVars, resume, hist>>

Init ==
    /\ \E u \in Uses : origin = u[1] /\ client = u[2]
    /\ pc = [t \in Threads |-> CASE t = "creator" -> "new"
                                 [] t = "main" -> "idle"
                                 [] OTHER -> "none"]
    /\ mem = "none" /\ slot = FALSE
    /\ connected = FALSE /\ closing = 0
    /\ socket = "open" /\ connFd = "open"
    /\ ssem = 0 /\ rsem = 0 /\ sendThread = FALSE /\ unsent = 0
    /\ net = IF origin = "accept" THEN "up" ELSE "connecting"
    /\ opened = 0 /\ closed = 0 /\ sends = 0 /\ resume = "idle"

Go(t, l) == pc' = [pc EXCEPT ![t] = l]

\* Thread t goes from location "from" to location "to".
Step(t, from, to) == pc[t] = from /\ Go(t, to)

dtActive    == closing = 0
dtConnected == dtActive /\ connected

-----------------------------------------------------------------------------
(***************************************************************************)
(* dtNewFet and its callers.                                               *)
(***************************************************************************)
NewFet ==
    /\ Step("creator", "new", "createData")
    /\ mem' = "live" /\ slot' = TRUE /\ connected' = TRUE
    /\ UNCHANGED <<closing, socket, connFd, ssem, rsem, sendThread, unsent,
                   resume, hist>>

\* dtCreateThread looks for rc < 0, which pthread_create never returns: a thread
\* that could not be created goes unnoticed.
CreateDataThread ==
    /\ pc["creator"] = "createData"
    /\ \/ pc' = [pc EXCEPT !["creator"] = "createSend", !["data"] = "poll"]
       \/ CreateFails /\ Go("creator", "createSend")
    /\ UNCHANGED <<fetVars, resume, hist>>

\* The send thread runs before pthread_create's caller stores its id.
CreateSendThread ==
    /\ pc["creator"] = "createSend"
    /\ pc' = [pc EXCEPT !["creator"] = "storeId", !["send"] = "top"]
    /\ UNCHANGED <<fetVars, resume, hist>>

StoreId ==
    /\ Step("creator", "storeId", "setFrom")
    /\ sendThread' = TRUE
    /\ UNCHANGED <<mem, slot, connected, closing, socket, connFd, ssem, rsem,
                   unsent, resume, hist>>

\* dtAcceptSocket and dtConnect "save relevant data in new FET".
SetFrom ==
    /\ Step("creator", "setFrom", "done")
    /\ UNCHANGED <<fetVars, resume, hist>>

Creator == NewFet \/ CreateDataThread \/ CreateSendThread \/ StoreId \/ SetFrom

-----------------------------------------------------------------------------
(***************************************************************************)
(* dtClose, run by thread t from location "close" (hard) or "shut" (soft:  *)
(* only sockOp's close request).  It ends at "afterClose".                 *)
(***************************************************************************)
CloseTest(t) ==
    /\ \/ Step(t, "close", IF dtActive THEN "closeMark" ELSE "afterClose")
       \/ Step(t, "shut", IF dtActive THEN "shutMark" ELSE "afterClose")
    /\ UNCHANGED <<fetVars, resume, hist>>

CloseMark(t) ==
    /\ \/ Step(t, "closeMark", "closeDetach") /\ closing' = 2
       \/ Step(t, "shutMark", "closeDetach") /\ closing' = 1
    /\ UNCHANGED <<mem, slot, connected, socket, connFd, ssem, rsem, sendThread,
                   unsent, resume, hist>>

CloseDetach(t) ==
    /\ Step(t, "closeDetach", "closeSocket")
    /\ connected' = FALSE /\ slot' = FALSE
    /\ closed' = closed + 1
    /\ UNCHANGED <<mem, closing, socket, connFd, ssem, rsem, sendThread, unsent,
                   net, opened, sends, resume, who>>

CloseSocket(t) ==
    /\ Step(t, "closeSocket", "closeSsem")
    /\ IF closing # 1
       THEN socket' = "closed" /\ connFd' = "dtNC"
       ELSE UNCHANGED <<socket, connFd>>
    /\ UNCHANGED <<mem, slot, connected, closing, ssem, rsem, sendThread, unsent,
                   resume, hist>>

\* Mutant: the data thread is released before the send thread is woken.
CloseSsemSwapped(t) ==
    /\ Step(t, "closeSsem", "closeRsem")
    /\ rsem' = rsem + 1
    /\ UNCHANGED <<mem, slot, connected, closing, socket, connFd, ssem, sendThread,
                   unsent, resume, hist>>

\* Mutant: the send thread is not woken.
CloseSsemNothing(t) ==
    /\ Step(t, "closeSsem", "closeRsem")
    /\ UNCHANGED <<fetVars, resume, hist>>

CloseSsem(t) ==
    /\ Step(t, "closeSsem", "closeRsem")
    /\ ssem' = ssem + 1
    /\ UNCHANGED <<mem, slot, connected, closing, socket, connFd, rsem,
                   sendThread, unsent, resume, hist>>

CloseRsem(t) ==
    /\ Step(t, "closeRsem", "afterClose")
    /\ rsem' = rsem + 1
    /\ UNCHANGED <<mem, slot, connected, closing, socket, connFd, ssem,
                   sendThread, unsent, resume, hist>>

dtClose(t) ==
    \/ CloseTest(t) \/ CloseMark(t) \/ CloseDetach(t)
    \/ CloseSocket(t) \/ CloseSsem(t) \/ CloseRsem(t)

CloseStates == {"close", "shut", "closeMark", "shutMark", "closeDetach", "closeSocket",
                "closeSsem", "closeRsem"}

-----------------------------------------------------------------------------
(***************************************************************************)
(* Data thread, dtDataThread.                                              *)
(***************************************************************************)

\* poll () returns: either the callback for the new connection, or the FET is
\* marked as closed.
PollReady ==
    /\ pc["data"] = "poll" /\ net # "connecting"
    /\ IF net = "reset"
       THEN closing' = 2 /\ UNCHANGED opened
       ELSE opened' = opened + 1 /\ UNCHANGED closing
    /\ Go("data", "top")
    /\ UNCHANGED <<mem, slot, connected, socket, connFd, ssem, rsem, sendThread,
                   unsent, net, closed, sends, resume, who>>

\* Without a connection the thread sleeps, then calls the data callback again.
DataTop ==
    /\ Step("data", "top", IF ~dtActive THEN "join"
                           ELSE IF connected THEN "recv" ELSE "callback")
    /\ UNCHANGED <<fetVars, resume, hist>>

RecvData ==
    /\ Step("data", "recv", "callback")
    /\ net = "up" /\ socket = "open"
    /\ UNCHANGED <<fetVars, resume, hist>>

RecvEnd ==
    /\ Step("data", "recv", "callback")
    /\ net \in {"fin", "reset"} \/ socket = "closed"
    /\ connected' = FALSE
    /\ UNCHANGED <<mem, slot, closing, socket, connFd, ssem, rsem, sendThread,
                   unsent, resume, hist>>

\* consoleInput and pniDataCallback close a FET that has no peer.
DataCallback ==
    /\ Step("data", "callback",
            IF client = "callback" /\ ~dtConnected THEN "close" ELSE "top")
    /\ UNCHANGED <<fetVars, resume, hist>>

DataAfterClose ==
    /\ Step("data", "afterClose", "top")
    /\ UNCHANGED <<fetVars, resume, hist>>

\* pthread_join of a thread id that was not stored yet does not wait.
Join ==
    /\ Step("data", "join", "rsem")
    /\ pc["send"] = "exit" \/ ~sendThread
    /\ UNCHANGED <<fetVars, resume, hist>>

\* "Wait for dtClose to say that the FET can be freed."
Free ==
    /\ Step("data", "rsem", "exit")
    /\ rsem > 0 /\ rsem' = rsem - 1
    /\ mem' = "freed"
    /\ UNCHANGED <<slot, connected, closing, socket, connFd, ssem, sendThread,
                   unsent, resume, hist>>

DataThread ==
    \/ PollReady \/ DataTop \/ RecvEnd \/ DataCallback
    \/ DataAfterClose \/ Join \/ Free
    \/ client = "callback" /\ dtClose("data")

-----------------------------------------------------------------------------
(***************************************************************************)
(* Send thread, dtSendThread.                                              *)
(***************************************************************************)
SendTop ==
    /\ Step("send", "top", CASE closing = 2 -> "exit"
                             [] closing # 2 /\ unsent > 0 -> "send"
                             [] OTHER -> "empty")
    /\ UNCHANGED <<fetVars, resume, hist>>

SendEmpty ==
    /\ Step("send", "empty", IF closing = 1 THEN "shutdown" ELSE "ssem")
    /\ UNCHANGED <<fetVars, resume, hist>>

SendShutdown ==
    /\ Step("send", "shutdown", "exit")
    /\ socket' = "closed" /\ connFd' = "dtNC" /\ closing' = 2
    /\ UNCHANGED <<mem, slot, connected, ssem, rsem, sendThread, unsent, resume,
                   hist>>

SendWait ==
    /\ Step("send", "ssem", "top")
    /\ ssem > 0 /\ ssem' = ssem - 1
    /\ UNCHANGED <<mem, slot, connected, closing, socket, connFd, rsem,
                   sendThread, unsent, resume, hist>>

SendBytes ==
    /\ Step("send", "send", "top")
    /\ net \in {"up", "fin"} /\ socket = "open"
    /\ unsent' = unsent - 1
    /\ UNCHANGED <<mem, slot, connected, closing, socket, connFd, ssem, rsem,
                   sendThread, resume, hist>>

SendFails ==
    /\ Step("send", "send", "exit")
    /\ net = "reset" \/ socket = "closed"
    /\ UNCHANGED <<fetVars, resume, hist>>

SendThread == SendTop \/ SendEmpty \/ SendShutdown \/ SendWait \/ SendBytes \/ SendFails

-----------------------------------------------------------------------------
(***************************************************************************)
(* Main thread.  It takes the FET from portVec and keeps the pointer for   *)
(* one request or one turn of its polling loop.  The socket request that   *)
(* creates a FET returns before the next one uses it.                      *)
(***************************************************************************)
Grab ==
    /\ slot
    /\ client = "ext" => pc["creator"] = "done"
    /\ Step("main", "idle", "look")
    /\ UNCHANGED <<fetVars, resume, hist>>

\* niuInIo, opRequest: no input and no peer means close.
PollLook ==
    /\ client = "poll"
    /\ Step("main", "look", IF ~dtActive THEN "idle"
                            ELSE IF connected THEN "use" ELSE "close")
    /\ UNCHANGED <<fetVars, resume, hist>>

\* checkImmediate, consoleSendOutput, pniCheck: output for a port that is up.
CallbackLook ==
    /\ client = "callback"
    /\ Step("main", "look", IF dtConnected THEN "use" ELSE "idle")
    /\ UNCHANGED <<fetVars, resume, hist>>

\* sockOp: a close, a reset, a write, or a read, which closes a FET without peer.
ExtLook ==
    /\ client = "ext"
    /\ \/ Step("main", "look", "shut") /\ resume' = "idle"
       \/ Step("main", "look", "close") /\ resume' = "idle"
       \/ Step("main", "look", "use") /\ UNCHANGED resume
       \/ dtConnected /\ Step("main", "look", "idle") /\ UNCHANGED resume
       \/ ~dtConnected /\ Step("main", "look", "close") /\ resume' \in {"idle", "update"}
    /\ UNCHANGED <<fetVars, hist>>

\* dtSend: refused without a connection, else store and wake the send thread.
Use ==
    /\ Step("main", "use", "idle")
    /\ IF dtConnected /\ sends < MaxSends
       THEN unsent' = unsent + 1 /\ ssem' = ssem + 1 /\ sends' = sends + 1
       ELSE UNCHANGED <<unsent, ssem, sends>>
    /\ UNCHANGED <<mem, slot, connected, closing, socket, connFd, rsem,
                   sendThread, net, opened, closed, resume, who>>

MainAfterClose ==
    /\ Step("main", "afterClose", resume)
    /\ UNCHANGED <<fetVars, resume, hist>>

\* sockOp's read goes on after dtClose: dtConnected, or dtUpdateOut of what it read.
Update ==
    /\ Step("main", "update", "idle")
    /\ UNCHANGED <<fetVars, resume, hist>>

\* What the polling loop of the emulator, or an operation under way, does next.
MainSteps ==
    \/ Grab \/ PollLook \/ CallbackLook \/ Use
    \/ MainAfterClose \/ Update \/ dtClose("main")

-----------------------------------------------------------------------------
(***************************************************************************)
(* The peer and the network.                                               *)
(***************************************************************************)
Connect ==
    /\ net = "connecting" /\ net' = "up"
    /\ UNCHANGED <<pc, fetVars, resume, opened, closed, sends, who>>

\* Without EarlyEnd a connection lasts until its creator and poll () are done.
MayEnd == EarlyEnd \/ (pc["creator"] = "done" /\ pc["data"] \notin {"none", "poll"})

\* The connection fails: a connect that is refused, or a reset.
Fail ==
    /\ net # "reset" /\ MayEnd
    /\ net' = "reset"
    /\ UNCHANGED <<pc, fetVars, resume, opened, closed, sends, who>>

\* The peer shuts the connection down; it still receives.
PeerFin ==
    /\ net = "up" /\ MayEnd
    /\ net' = "fin"
    /\ UNCHANGED <<pc, fetVars, resume, opened, closed, sends, who>>

Next ==
    \/ Creator \/ MainSteps \/ ExtLook \/ DataThread \/ RecvData \/ SendThread
    \/ Connect \/ Fail \/ PeerFin

Spec == Init /\ [][Next]_vars

\* Every thread that can run is run; the main thread polls for ever; a connect is
\* answered; a peer that is there keeps reading.  Nothing obliges the peer to send
\* or to leave, nor the Cyber program to make a socket request.
FairSpec ==
    /\ Spec
    /\ WF_vars(Creator) /\ WF_vars(MainSteps)
    /\ WF_vars(DataThread) /\ WF_vars(SendThread)
    /\ WF_vars(Connect)

-----------------------------------------------------------------------------
Locations ==
    {"new", "createData", "createSend", "storeId", "setFrom", "done",
     "idle", "look", "use", "update", "afterClose",
     "none", "poll", "top", "recv", "callback", "join", "rsem", "exit",
     "empty", "send", "shutdown", "ssem"} \cup CloseStates

\* Every variable stays within its type.
TypeOK ==
    /\ who \in Uses
    /\ pc \in [Threads -> Locations]
    /\ mem \in {"none", "live", "freed"}
    /\ {slot, connected, sendThread} \subseteq BOOLEAN
    /\ closing \in 0 .. 2
    /\ socket \in {"open", "closed"} /\ connFd \in {"open", "dtNC"}
    /\ ssem \in Nat /\ rsem \in 0 .. 1
    /\ unsent \in 0 .. MaxSends /\ sends \in 0 .. MaxSends
    /\ net \in {"connecting", "up", "fin", "reset"}
    /\ opened \in 0 .. 1 /\ closed \in 0 .. 1 /\ resume \in {"idle", "update"}

\* The locations at which a thread reads or writes the FET.
Derefs(t) ==
    CASE t = "creator" -> {"storeId", "setFrom"}
      [] t = "main" -> {"look", "use", "update"} \cup CloseStates
      [] t = "data" -> {"poll", "top", "recv", "callback", "join", "rsem"} \cup CloseStates
      [] t = "send" -> {"top", "empty", "shutdown", "ssem", "send"}

Safe(t) == mem = "freed" => pc[t] \notin Derefs(t)

\* dtDataThread: "It is done that way to avoid race conditions around freeing the
\* FET."  The FET outlives every use of it by its own two threads.
ThreadsSafe == Safe("data") /\ Safe("send")

\* Where the main thread both polls and closes (niu.c, operator.c), the FET outlives
\* its use of the pointer it took from portVec.
MainSafe == client = "poll" => Safe("main")

\* A descriptor is closed when its FET is gone: otherwise it is leaked for good.
\* Nothing but a soft close (sockOp) may leave it to the send thread.
FreedIsClosed == client # "ext" /\ mem = "freed" => socket = "closed"

\* The safety of a connection's memory and descriptor, in one invariant.
FetSafe == TypeOK /\ ThreadsSafe /\ MainSafe /\ FreedIsClosed

\* dtClose: "The receive thread will free the FET."  So it does, of a FET that was
\* closed and, where the emulator itself polls, of one whose peer is gone.
GoneIsFreed ==
    /\ (closed = 1 /\ pc["data"] # "none") ~> (mem = "freed")
    /\ (client # "ext" /\ pc["data"] = "recv" /\ net \in {"fin", "reset"})
          ~> (mem = "freed")

-----------------------------------------------------------------------------
(***************************************************************************)
(* What comments in the code say of every FET and does not hold of some.   *)
(***************************************************************************)
\* dtDataThread: "the actual close call is made in the main thread, which will also
\* allow this thread to free the FET", so that the main thread never uses a freed one.
PointerSafe == Safe("main")

\* The same of the thread that creates the FET.
CreatorSafe == Safe("creator")

\* dtDataThread on an error of a new connection: "close the socket instead (which
\* will generate a close callback)".
CloseCallbackComes == (closing # 0) ~> (closed = 1)

\* dtCreateThread returns "0 if ok, != 0 if not", and dtNewFet relies on it: a FET it
\* returns has the thread that reads and frees it.
CreatedIsServed == pc["creator"] = "done" => pc["data"] # "none"
=============================================================================
