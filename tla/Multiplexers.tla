---------------------------- MODULE Multiplexers ----------------------------
(***************************************************************************)
(* The terminal multiplexers: the 6676 (src/mux6676.c), which serves all    *)
(* its ports in turn, and the two port multiplexer (src/tpmux.c).  A thread *)
(* accepts connections for ports that are not active; the main thread, on   *)
(* behalf of a PP, sends and receives and finds that a user has left.       *)
(*                                                                         *)
(* Characters typed are numbers from 1 to 127 (a zero, or one with the high *)
(* bit where char is signed, is taken for no input).  accept does not fail. *)
(* A user leaves after what it typed, and does not hear what was sent then. *)
(*                                                                         *)
(* The PP gives and takes a word for each port, or fewer; it reads a        *)
(* character that status announced before it asks again; it disconnects     *)
(* before the next function; its write function has no parameter.           *)
(***************************************************************************)
EXTENDS Integers, Sequences, FiniteSets

CONSTANTS
    Kinds,      \* the multiplexers to look at: "mux6676", "tpmux"
    Ports,      \* 0 .. n
    Users,
    BufSize,    \* 512: output of a port of the two port multiplexer
    MaxTyped, MaxWritten    \* bounds: characters of a user, of the PP

VARIABLES
    kind,
    isActive, connFd,       \* of each port
    descriptors,            \* open descriptors -> users
    scan, accepting,        \* the thread: port it looks at, whether it accepts for it and has accepted
    closing,                \* port whose descriptor the main thread has closed
    muxFcode, muxPort, muxLength,   \* function, selectedUnit, recordLength of the channel's device
    announced, input, output,       \* status bit, input and output of each port (tpmux)
    session,                \* user -> "out", "calling", "in", "left"
    typing, heard,          \* characters typed and not received, sent to each user
    gotKeys, wrote          \* of each user: characters the PP got, wrote (history)

thread == <<scan, accepting>>
ports == <<isActive, connFd, descriptors, closing>>
channel == <<muxFcode, muxPort, muxLength>>
texts == <<announced, input, output>>
people == <<session, typing, heard, gotKeys, wrote>>
muxVars == <<kind, thread, ports, channel, texts, people>>

NoPort == -1
NumPorts == Cardinality(Ports)
Free == CHOOSE fd \in 0 .. Cardinality(Users) :
            /\ fd \notin DOMAIN descriptors
            /\ \A other \in 0 .. fd - 1 : other \in DOMAIN descriptors
Drop(f, x) == [y \in DOMAIN f \ {x} |-> f[y]]
Typed == [i \in 1 .. MaxTyped |-> i]

-----------------------------------------------------------------------------
(* The thread (mux6676Thread, tpMuxThread). *)

\* With all ports active it sleeps and starts again.
LookAtPort ==
    /\ accepting = "no"
    /\ IF isActive[scan] THEN scan' = (scan + 1) % NumPorts /\ UNCHANGED accepting
       ELSE accepting' = "waits" /\ UNCHANGED scan
    /\ UNCHANGED <<kind, ports, channel, texts, people>>

\* Mutant: the port is active before its descriptor is known.
AcceptActivatesFirst(u) ==
    /\ accepting = "waits" /\ session[u] = "calling"
    /\ session' = [session EXCEPT ![u] = "in"]
    /\ descriptors' = [fd \in DOMAIN descriptors \cup {Free} |->
                          IF fd = Free THEN u ELSE descriptors[fd]]
    /\ isActive' = [isActive EXCEPT ![scan] = TRUE]
    /\ accepting' = "done"
    /\ UNCHANGED <<kind, scan, connFd, closing, channel, texts, typing, heard, gotKeys, wrote>>

Accept(u) ==
    /\ accepting = "waits" /\ session[u] = "calling"
    /\ session' = [session EXCEPT ![u] = "in"]
    /\ descriptors' = [fd \in DOMAIN descriptors \cup {Free} |->
                          IF fd = Free THEN u ELSE descriptors[fd]]
    /\ connFd' = [connFd EXCEPT ![scan] = Free]
    /\ accepting' = "done"
    /\ UNCHANGED <<kind, scan, isActive, closing, channel, texts, typing, heard, gotKeys, wrote>>

MarkActive ==
    /\ accepting = "done"
    /\ isActive' = [isActive EXCEPT ![scan] = TRUE]
    /\ accepting' = "no" /\ scan' = 0
    /\ UNCHANGED <<kind, connFd, descriptors, closing, channel, texts, people>>

-----------------------------------------------------------------------------
(* The main thread. *)

Works == closing = NoPort
OnLine(p) == descriptors[connFd[p]]
Queued(p) == IF OnLine(p) \in Users THEN typing[OnLine(p)] ELSE <<>>
HasLeft(p) == session[OnLine(p)] = "left" /\ Queued(p) = <<>>

(* mux6676CheckInput, tpMuxCheckInput: the next character, if there is one; a line that was *)
(* dropped is closed.                                                                       *)
Receive(p) ==
    /\ typing' = [typing EXCEPT ![OnLine(p)] = Tail(@)]
    /\ UNCHANGED <<descriptors, closing>>
CloseLine(p) ==
    /\ descriptors' = Drop(descriptors, connFd[p])
    /\ closing' = p
    /\ UNCHANGED typing

ClosedIsInactive ==
    /\ closing # NoPort
    /\ isActive' = [isActive EXCEPT ![closing] = FALSE]
    /\ closing' = NoPort
    /\ UNCHANGED <<kind, thread, connFd, descriptors, channel, texts, people>>

(* mux6676Func, tpMuxFunc. *)
Function6676(f) ==
    /\ Works /\ kind = "mux6676"
    /\ muxFcode' = f /\ muxLength' = 0
    /\ UNCHANGED <<kind, thread, ports, muxPort, texts, people>>

Pending == \E p \in Ports : announced[p]

FunctionTpm(f) ==
    /\ Works /\ kind = "tpmux" /\ muxFcode # "write"
    /\ f = "status" => ~Pending
    /\ muxFcode' = f
    /\ muxLength' = IF f = "write" THEN 0 ELSE muxLength
    /\ UNCHANGED <<kind, thread, ports, muxPort, texts, people>>

\* Connect to a port, or to none.
ConnectPort(p) ==
    /\ Works /\ kind = "tpmux" /\ muxFcode # "write" /\ ~Pending
    /\ muxFcode' = "none" /\ muxPort' = p
    /\ UNCHANGED <<kind, thread, ports, muxLength, texts, people>>

(* A word of input of the 6676: whether the port is active, and a character. *)
InputWord ==
    LET p == muxLength IN
    /\ Works /\ muxFcode = "input" /\ p \in Ports
    /\ muxLength' = muxLength + 1
    /\ IF isActive[p] /\ Queued(p) # <<>>
       THEN /\ Receive(p)
            /\ gotKeys' = [gotKeys EXCEPT ![OnLine(p)] = Append(@, Head(Queued(p)))]
       ELSE /\ IF isActive[p] /\ HasLeft(p) THEN CloseLine(p)
               ELSE UNCHANGED <<typing, descriptors, closing>>
            /\ UNCHANGED gotKeys
    /\ UNCHANGED <<kind, thread, isActive, connFd, muxFcode, muxPort, texts, session, heard, wrote>>

Sent(u, s) == IF session[u] = "left" THEN UNCHANGED heard
              ELSE heard' = [heard EXCEPT ![u] = @ \o s]
Written(u, c) == wrote' = [wrote EXCEPT ![u] = Append(@, c)]
\* Each character that is written is another one: whose it is and how many came before.
Fresh(u) == <<u, Len(wrote[u])>>
CountWritten == LET n[S \in SUBSET Users] == IF S = {} THEN 0
                                             ELSE LET u == CHOOSE x \in S : TRUE
                                                  IN  Len(wrote[u]) + n[S \ {u}]
                IN  n[Users]

(* A word of output of the 6676, with a character or without. *)
OutputWord(with) ==
    LET p == muxLength IN
    /\ Works /\ muxFcode = "output" /\ p \in Ports
    /\ CountWritten < MaxWritten
    /\ muxLength' = muxLength + 1
    /\ IF isActive[p] /\ with
       THEN /\ Written(OnLine(p), Fresh(OnLine(p)))
            /\ Sent(OnLine(p), <<Fresh(OnLine(p))>>)
       ELSE UNCHANGED <<heard, wrote>>
    /\ UNCHANGED <<kind, thread, ports, muxFcode, muxPort, texts, session, typing, gotKeys>>

(* The status of a port of the two port multiplexer: a character is taken from the line. *)
StatusWord ==
    LET p == muxPort IN
    /\ Works /\ muxFcode = "status" /\ p \in Ports /\ ~announced[p]
    /\ IF isActive[p] /\ Queued(p) # <<>>
       THEN /\ Receive(p)
            /\ input' = [input EXCEPT ![p] = Head(Queued(p))]
            /\ announced' = [announced EXCEPT ![p] = TRUE]
       ELSE /\ IF isActive[p] /\ HasLeft(p) THEN CloseLine(p)
               ELSE UNCHANGED <<typing, descriptors, closing>>
            /\ UNCHANGED <<input, announced>>
    /\ UNCHANGED <<kind, thread, isActive, connFd, channel, output, session, heard, gotKeys, wrote>>

ReadChar ==
    LET p == muxPort IN
    /\ Works /\ muxFcode = "read" /\ p \in Ports /\ announced[p]
    /\ announced' = [announced EXCEPT ![p] = FALSE]
    /\ gotKeys' = [gotKeys EXCEPT ![OnLine(p)] = Append(@, input[p])]
    /\ UNCHANGED <<kind, thread, ports, channel, input, output, session, typing, heard, wrote>>

(* A full buffer goes to the line. *)
WriteChar ==
    LET p == muxPort
        c == Fresh(OnLine(p))
        text == Append(SubSeq(output[p], 1, muxLength), c)
    IN  /\ Works /\ muxFcode = "write" /\ p \in Ports /\ CountWritten < MaxWritten
        /\ IF isActive[p]
           THEN /\ output' = [output EXCEPT ![p] = text]
                /\ muxLength' = Len(text) % BufSize
                /\ Written(OnLine(p), c)
                /\ IF Len(text) = BufSize THEN Sent(OnLine(p), text) ELSE UNCHANGED heard
           ELSE UNCHANGED <<output, muxLength, heard, wrote>>
        /\ UNCHANGED <<kind, thread, ports, muxFcode, muxPort, announced, input, session, typing, gotKeys>>

(* tpMuxDisconnect. *)
TpmDisconnect ==
    LET p == muxPort IN
    /\ Works /\ kind = "tpmux" /\ muxFcode = "write"
    /\ muxFcode' = "none"      \* what follows is another function
    /\ IF p \in Ports /\ isActive[p]
       THEN Sent(OnLine(p), SubSeq(output[p], 1, muxLength)) /\ muxLength' = 0
       ELSE UNCHANGED <<heard, muxLength>>
    /\ UNCHANGED <<kind, thread, ports, muxPort, texts, session, typing, gotKeys, wrote>>

-----------------------------------------------------------------------------
(* The users. *)

Calls(u) ==
    /\ session[u] = "out"
    /\ session' = [session EXCEPT ![u] = "calling"]
    /\ \E n \in 0 .. MaxTyped : typing' = [typing EXCEPT ![u] = SubSeq(Typed, 1, n)]
    /\ UNCHANGED <<kind, thread, ports, channel, texts, heard, gotKeys, wrote>>

Leaves(u) ==
    /\ session[u] = "in"
    /\ session' = [session EXCEPT ![u] = "left"]
    /\ UNCHANGED <<kind, thread, ports, channel, texts, typing, heard, gotKeys, wrote>>

MuxInit ==
    /\ kind \in Kinds
    /\ isActive = [p \in Ports |-> FALSE] /\ connFd = [p \in Ports |-> 0]
    /\ descriptors = [fd \in {} |-> 0] /\ closing = NoPort
    /\ scan = 0 /\ accepting = "no"
    /\ muxFcode = "none" /\ muxPort = NoPort /\ muxLength = 0
    /\ announced = isActive /\ input = connFd /\ output = [p \in Ports |-> <<>>]
    /\ session = [u \in Users |-> "out"]
    /\ typing = [u \in Users |-> <<>>] /\ heard = typing /\ gotKeys = typing /\ wrote = typing

MainThread ==
    \/ ClosedIsInactive \/ InputWord \/ StatusWord \/ ReadChar \/ WriteChar \/ TpmDisconnect
    \/ \E f \in {"output", "input", "none"} : Function6676(f)
    \/ \E f \in {"status", "read", "write", "none"} : FunctionTpm(f)
    \/ \E p \in Ports \cup {NoPort} : ConnectPort(p)
    \/ \E with \in BOOLEAN : OutputWord(with)

MuxNext ==
    \/ MainThread \/ LookAtPort \/ MarkActive
    \/ \E u \in Users : Accept(u) \/ Calls(u) \/ Leaves(u)

-----------------------------------------------------------------------------
(* An active port that is not being closed has an open descriptor, and no other has it, though *)
(* numbers of descriptors that were closed are given again before the port is inactive.        *)
OwnDescriptor ==
    \A p \in Ports : isActive[p] /\ p # closing =>
       /\ connFd[p] \in DOMAIN descriptors
       /\ \A q \in Ports \ {p, closing} : isActive[q] => connFd[q] # connFd[p]

(* What a user types reaches the PP once and in order. *)
KeysInTurn ==
    \A u \in Users : session[u] # "out" =>
       LET taken == {p \in Ports : announced[p] /\ OnLine(p) = u}
           held == IF taken = {} THEN <<>> ELSE <<input[CHOOSE p \in taken : TRUE]>>
       IN  gotKeys[u] \o held \o typing[u] = SubSeq(Typed, 1, Len(gotKeys[u] \o held \o typing[u]))

(* What the PP writes while a user is there is sent to that user, at the latest when it *)
(* disconnects, and to no other user of the port.                                      *)
WrittenIsSent ==
    \A u \in Users : session[u] # "left" =>
       IF muxFcode # "write" THEN heard[u] = wrote[u]
       ELSE heard[u] = SubSeq(wrote[u], 1, Len(heard[u]))

MuxSafe == OwnDescriptor /\ KeysInTurn /\ WrittenIsSent
=============================================================================
