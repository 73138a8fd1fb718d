------------------------- MODULE Connections_proofs -------------------------
(***************************************************************************)
(* Proofs about the connections of dtnetsubs.c.  A FET outlives its use by *)
(* its own threads, for every kind of server and any number of sends       *)
(* (FetLife).  The vector of connections of a server keeps its slots right *)
(* without a lock, for any number of slots and connections (PortSet).  The *)
(* PNI decodes the keys that come on such connections, and announces them  *)
(* to PLATO, for any number of stations and keys (Pni).                    *)
(***************************************************************************)
EXTENDS FetLife, PortSet, Pni, SequenceTheorems, TLAPS

-----------------------------------------------------------------------------
(***************************************************************************)
(* The life of a FET.                                                      *)
(***************************************************************************)
\* The one thread of a server that calls dtClose.
Closer == IF client = "callback" THEN "data" ELSE "main"

\* Where it is after it has marked the FET: closeDetach and beyond.
Detaching == {"closeDetach", "closeSocket", "closeSsem", "closeRsem"}

\* Which thread can be where.
Places ==
    /\ pc["creator"] \in {"new", "createData", "createSend", "storeId", "setFrom", "done"}
    /\ pc["send"] \in {"none", "top", "empty", "send", "shutdown", "ssem", "exit"}
    /\ pc["data"] \in {"none", "poll", "top", "recv", "callback", "join", "rsem", "exit"}
         \cup IF client = "callback"
              THEN {"close", "closeMark", "afterClose"} \cup Detaching ELSE {}
    /\ pc["main"] \in {"idle", "look", "use"}
         \cup (CASE client = "poll" -> {"close", "closeMark", "afterClose"} \cup Detaching
                 [] client = "ext"  -> {"update", "afterClose"} \cup CloseStates
                 [] OTHER           -> {})
    /\ client # "ext" => resume = "idle"

\* What there is of a FET while dtNewFet makes it, and what is left when it is freed.
Created ==
    /\ mem = "none" <=> pc["creator"] = "new"
    /\ mem = "freed" <=> pc["data"] = "exit"
    /\ pc["creator"] \in {"new", "createData"} => pc["data"] = "none"
    /\ pc["send"] = "none" <=> pc["creator"] \in {"new", "createData", "createSend"}
    /\ sendThread <=> pc["creator"] \in {"setFrom", "done"}
    /\ pc["creator"] = "new" => pc["main"] = "idle"

\* Nobody closes a FET, and no connection ends, before its creator is done with it.
Lasting ==
    /\ net \in {"fin", "reset"} => pc["creator"] = "done" /\ pc["data"] \notin {"none", "poll"}
    /\ closing # 0 => pc["creator"] = "done"
    /\ ~connected => pc["creator"] \in {"new", "done"}
    /\ pc[Closer] \in {"close", "shut", "closeMark", "shutMark"} => pc["creator"] = "done"
    /\ client = "ext" /\ pc["main"] # "idle" => pc["creator"] = "done"

\* How far the close is, while the FET is open and once it is marked.
Opened ==
    closing = 0 =>
        /\ closed = 0 /\ rsem = 0 /\ socket = "open"
        /\ slot <=> pc["creator"] # "new"
        /\ pc[Closer] \notin Detaching
        /\ pc["data"] \notin {"join", "rsem", "exit"}
Marked ==
    closing # 0 =>
        /\ pc[Closer] \notin {"closeMark", "shutMark"}
        /\ pc[Closer] = "closeDetach" => slot /\ closed = 0
        /\ pc[Closer] # "closeDetach" => ~slot /\ closed = 1
        /\ rsem = IF mem = "freed" \/ pc[Closer] \in Detaching THEN 0 ELSE 1
        /\ pc[Closer] \in Detaching => mem # "freed"
        /\ client # "ext" =>
              /\ closing = 2
              /\ pc[Closer] \notin {"closeDetach", "closeSocket"} => socket = "closed"

\* The data thread waits for the send thread before it frees the FET.
Joined == pc["data"] \in {"rsem", "exit"} => pc["send"] = "exit"

\* A main thread that polls and closes holds a pointer only while the FET is open.
Pointer ==
    client = "poll" /\ pc["main"] \in {"look", "use", "close", "closeMark"} => closing = 0

\* What the counters and the send thread rest on.
Counts ==
    /\ pc["data"] \in {"none", "poll"} => opened = 0
    /\ unsent <= sends
    /\ pc["send"] = "send" => unsent > 0
    /\ pc["send"] = "shutdown" => closing = 1

\* The inductive invariant.
IInv == /\ TypeOK /\ Places /\ Created /\ Lasting /\ Opened /\ Marked /\ Joined /\ Pointer
        /\ Counts


-----------------------------------------------------------------------------
\* Nothing of the FET changes: a step that only moves a thread keeps the types.
LEMMA MoveType ==
    ASSUME TypeOK, UNCHANGED <<fetVars, resume, hist>>, pc' \in [Threads -> Locations]
    PROVE  TypeOK'
BY DEF TypeOK, fetVars, hist, who

\* A thread within dtClose is the main thread of a server that polls or of socket
\* requests, or the data thread of one that works by callbacks.
LEMMA Closing ==
    ASSUME IInv, NEW t \in Threads, t = Closer, pc[t] \in CloseStates
    PROVE  (t = "main" /\ client \in {"poll", "ext"}) \/ (t = "data" /\ client = "callback")
BY DEF IInv, Places, Closer, CloseStates, Detaching


\* dtNewFet makes the FET.
LEMMA NewFetKeeps == ASSUME IInv, NewFet PROVE IInv'
<1> USE DEF NewFet
<1>1. /\ pc["creator"] = "new" /\ pc'["creator"] = "createData"
      /\ pc'["main"] = pc["main"] /\ pc'["data"] = pc["data"] /\ pc'["send"] = pc["send"]
  BY DEF Step, Go, Threads, IInv, TypeOK
<1>2. TypeOK'
  <2>1. pc' \in [Threads -> Locations]
    BY DEF Step, Go, IInv, TypeOK, Locations, CloseStates
  <2>2. /\ who' \in Uses /\ mem' \in {"none", "live", "freed"}
        /\ {slot, connected, sendThread}' \subseteq BOOLEAN
    BY DEF IInv, TypeOK, who, hist, fetVars
  <2>3. /\ socket' \in {"open", "closed"} /\ connFd' \in {"open", "dtNC"}
        /\ net' \in {"connecting", "up", "fin", "reset"} /\ resume' \in {"idle", "update"}
    BY DEF IInv, TypeOK, hist, fetVars
  <2>4. /\ closing' \in 0 .. 2 /\ ssem' \in Nat /\ rsem' \in 0 .. 1
        /\ unsent' \in 0 .. MaxSends /\ sends' \in 0 .. MaxSends
        /\ opened' \in 0 .. 1 /\ closed' \in 0 .. 1
    BY <1>1 DEF IInv, TypeOK, hist, fetVars
  <2> QED
    BY <2>1, <2>2, <2>3, <2>4 DEF TypeOK
<1>3. Places'
  BY <1>1 DEF IInv, Places, Detaching, CloseStates, fetVars, hist, who
<1>4. Created'
  BY <1>1 DEF IInv, Created
<1>5. Lasting'
  BY <1>1 DEF IInv, Lasting, Closer, hist, who
<1>6. Opened'
  BY <1>1 DEF IInv, Opened, Closer, hist, who
<1>7. Marked'
  BY <1>1 DEF IInv, Places, Created, Lasting, Marked, Closer, Detaching, CloseStates,
     fetVars, hist, who
<1>8. Joined' /\ Pointer' /\ Counts'
  BY <1>1 DEF IInv, Joined, Pointer, Counts, hist, who
<1> QED
  BY <1>2, <1>3, <1>4, <1>5, <1>6, <1>7, <1>8 DEF IInv

\* Its threads are created, in whatever way that ends, and its creator is done with it.
LEMMA CreatorKeeps ==
    ASSUME IInv, CreateDataThread \/ CreateSendThread \/ SetFrom
    PROVE  IInv'
<1> USE DEF CreateDataThread, CreateSendThread, SetFrom
<1>1. /\ pc'["main"] = pc["main"]
      /\ \/ /\ pc["creator"] = "createData" /\ pc'["creator"] = "createSend"
            /\ pc'["data"] \in {"poll", pc["data"]} /\ pc'["send"] = pc["send"]
         \/ /\ pc["creator"] = "createSend" /\ pc'["creator"] = "storeId"
            /\ pc'["data"] = pc["data"] /\ pc'["send"] = "top"
         \/ /\ pc["creator"] = "setFrom" /\ pc'["creator"] = "done"
            /\ pc'["data"] = pc["data"] /\ pc'["send"] = pc["send"]
      /\ UNCHANGED <<fetVars, resume, hist>>
  BY DEF Step, Go, Threads, IInv, TypeOK
<1>2. TypeOK'
  <2>1. pc' \in [Threads -> Locations]
    BY DEF Step, Go, IInv, TypeOK, Locations, CloseStates
  <2> QED
    BY <1>1, <2>1, MoveType DEF IInv
<1>3. Places'
  BY <1>1 DEF IInv, Places, Detaching, CloseStates, fetVars, hist, who
<1>4. Created'
  BY <1>1 DEF IInv, Created, fetVars
<1>5. Lasting'
  BY <1>1 DEF IInv, Lasting, Closer, fetVars, hist, who
<1>6. Opened'
  BY <1>1 DEF IInv, Opened, Closer, Detaching, fetVars, hist, who
<1>7. Marked'
  BY <1>1 DEF IInv, Places, Created, Marked, Closer, Detaching, CloseStates, fetVars, hist,
     who
<1>8. Joined' /\ Pointer' /\ Counts'
  BY <1>1 DEF IInv, Created, Joined, Pointer, Counts, fetVars, hist, who
<1> QED
  BY <1>2, <1>3, <1>4, <1>5, <1>6, <1>7, <1>8 DEF IInv

\* The id of the send thread is stored.
LEMMA StoreIdKeeps == ASSUME IInv, StoreId PROVE IInv'
<1> USE DEF StoreId
<1>1. /\ pc["creator"] = "storeId" /\ pc'["creator"] = "setFrom"
      /\ pc'["main"] = pc["main"] /\ pc'["data"] = pc["data"] /\ pc'["send"] = pc["send"]
  BY DEF Step, Go, Threads, IInv, TypeOK
<1>2. TypeOK'
  <2>1. pc' \in [Threads -> Locations]
    BY DEF Step, Go, IInv, TypeOK, Locations, CloseStates
  <2>2. /\ who' \in Uses /\ mem' \in {"none", "live", "freed"}
        /\ {slot, connected, sendThread}' \subseteq BOOLEAN
    BY DEF IInv, TypeOK, who, hist, fetVars
  <2>3. /\ socket' \in {"open", "closed"} /\ connFd' \in {"open", "dtNC"}
        /\ net' \in {"connecting", "up", "fin", "reset"} /\ resume' \in {"idle", "update"}
    BY DEF IInv, TypeOK, hist, fetVars
  <2>4. /\ closing' \in 0 .. 2 /\ ssem' \in Nat /\ rsem' \in 0 .. 1
        /\ unsent' \in 0 .. MaxSends /\ sends' \in 0 .. MaxSends
        /\ opened' \in 0 .. 1 /\ closed' \in 0 .. 1
    BY <1>1 DEF IInv, TypeOK, hist, fetVars
  <2> QED
    BY <2>1, <2>2, <2>3, <2>4 DEF TypeOK
<1>3. Places'
  BY <1>1 DEF IInv, Places, Detaching, CloseStates, fetVars, hist, who
<1>4. Created'
  BY <1>1 DEF IInv, Created
<1>5. Lasting'
  BY <1>1 DEF IInv, Lasting, Closer, hist, who
<1>6. Opened'
  BY <1>1 DEF IInv, Opened, Closer, hist, who
<1>7. Marked'
  BY <1>1 DEF IInv, Marked, Closer, hist, who
<1>8. Joined' /\ Pointer' /\ Counts'
  BY <1>1 DEF IInv, Joined, Pointer, Counts, hist, who
<1> QED
  BY <1>2, <1>3, <1>4, <1>5, <1>6, <1>7, <1>8 DEF IInv

\* dtClose: only the first close of a FET goes on.
LEMMA CloseTestKeeps == ASSUME IInv, NEW t \in Threads, t = Closer, CloseTest(t) PROVE IInv'
<1> USE DEF CloseTest, dtActive
<1>0. (t = "main" /\ client \in {"poll", "ext"}) \/ (t = "data" /\ client = "callback")
  BY Closing DEF Step, CloseStates
<1>1. /\ \/ pc[t] = "close" /\ pc'[t] = IF closing = 0 THEN "closeMark" ELSE "afterClose"
         \/ pc[t] = "shut" /\ pc'[t] = IF closing = 0 THEN "shutMark" ELSE "afterClose"
      /\ pc'["creator"] = pc["creator"] /\ pc'["send"] = pc["send"]
      /\ t = "main" \/ t = "data"
      /\ t = "main" => pc'["data"] = pc["data"] /\ client \in {"poll", "ext"}
      /\ t = "data" => pc'["main"] = pc["main"] /\ client = "callback"
      /\ UNCHANGED <<fetVars, resume, hist>>
  BY <1>0 DEF Step, Go, Threads, IInv, TypeOK
<1>2. TypeOK'
  <2>1. pc' \in [Threads -> Locations]
    BY DEF Step, Go, IInv, TypeOK, Locations, CloseStates
  <2> QED
    BY <1>1, <2>1, MoveType DEF IInv
<1>3. Places'
  BY <1>1 DEF IInv, Places, Detaching, CloseStates, fetVars, hist, who
<1>4. Created'
  BY <1>1 DEF IInv, Created, fetVars
<1>5. Lasting'
  BY <1>1 DEF IInv, Lasting, hist
<1>6. Opened'
  BY <1>1 DEF IInv, Opened, Closer, Detaching, fetVars, hist, who
<1>7. Marked'
  BY <1>1 DEF IInv, Marked, Closer, Detaching, fetVars, hist, who
<1>8. Joined' /\ Pointer' /\ Counts'
  BY <1>1 DEF IInv, Joined, Pointer, Counts, fetVars, hist, who
<1> QED
  BY <1>2, <1>3, <1>4, <1>5, <1>6, <1>7, <1>8 DEF IInv

\* The FET is marked; from here on nobody else closes it.
LEMMA CloseMarkKeeps == ASSUME IInv, NEW t \in Threads, t = Closer, CloseMark(t) PROVE IInv'
<1> USE DEF CloseMark
<1>0. (t = "main" /\ client \in {"poll", "ext"}) \/ (t = "data" /\ client = "callback")
  BY Closing DEF Step, CloseStates
<1>1. /\ pc[t] \in {"closeMark", "shutMark"} /\ pc'[t] = "closeDetach"
      /\ pc'["creator"] = pc["creator"] /\ pc'["send"] = pc["send"]
      /\ t = "main" \/ t = "data"
      /\ t = "main" => pc'["data"] = pc["data"] /\ client \in {"poll", "ext"}
      /\ t = "data" => pc'["main"] = pc["main"] /\ client = "callback"
  BY <1>0 DEF Step, Go, Threads, IInv, TypeOK
<1>2. TypeOK'
  <2>1. pc' \in [Threads -> Locations]
    BY DEF Step, Go, IInv, TypeOK, Locations, CloseStates
  <2>2. /\ who' \in Uses /\ mem' \in {"none", "live", "freed"}
        /\ {slot, connected, sendThread}' \subseteq BOOLEAN
    BY DEF IInv, TypeOK, who, hist, fetVars
  <2>3. /\ socket' \in {"open", "closed"} /\ connFd' \in {"open", "dtNC"}
        /\ net' \in {"connecting", "up", "fin", "reset"} /\ resume' \in {"idle", "update"}
    BY DEF IInv, TypeOK, hist, fetVars
  <2>4. /\ closing' \in 0 .. 2 /\ ssem' \in Nat /\ rsem' \in 0 .. 1
        /\ unsent' \in 0 .. MaxSends /\ sends' \in 0 .. MaxSends
        /\ opened' \in 0 .. 1 /\ closed' \in 0 .. 1
    BY <1>1 DEF IInv, TypeOK, hist, fetVars
  <2> QED
    BY <2>1, <2>2, <2>3, <2>4 DEF TypeOK
<1>3. Places'
  BY <1>1 DEF IInv, Places, Detaching, CloseStates, fetVars, hist, who
<1>4. Created'
  BY <1>1 DEF IInv, Created
<1>5. Lasting'
  BY <1>1 DEF IInv, Lasting, hist
<1>6. Opened'
  BY <1>1 DEF IInv, Opened
<1>7. Marked'
  <2>1. closing = 0
    BY <1>1 DEF IInv, TypeOK, Marked
  <2>2. slot /\ closed = 0 /\ rsem = 0 /\ mem # "freed"
    BY <2>1, <1>1 DEF IInv, Created, Opened
  <2>3. closing' \in {1, 2} /\ (client # "ext" => closing' = 2)
    BY <1>1, <1>0 DEF IInv, Places, Detaching, Step
  <2>4. client' = client /\ Closer' = t
    BY DEF Closer, hist, who
  <2> QED
    BY <1>1, <2>2, <2>3, <2>4 DEF Marked, Detaching, hist
<1>8. Joined' /\ Pointer' /\ Counts'
  BY <1>1 DEF IInv, Places, Created, Lasting, Opened, Marked, Joined, Pointer, Counts,
     Closer, Detaching, CloseStates, fetVars, hist, who
<1> QED
  BY <1>2, <1>3, <1>4, <1>5, <1>6, <1>7, <1>8 DEF IInv

\* The FET leaves portVec, and its owner is told.
LEMMA CloseDetachKeeps ==
    ASSUME IInv, NEW t \in Threads, t = Closer, CloseDetach(t)
    PROVE  IInv'
<1> USE DEF CloseDetach
<1>0. (t = "main" /\ client \in {"poll", "ext"}) \/ (t = "data" /\ client = "callback")
  BY Closing DEF Step, CloseStates
<1>1. /\ pc[t] = "closeDetach" /\ pc'[t] = "closeSocket"
      /\ pc'["creator"] = pc["creator"] /\ pc'["send"] = pc["send"]
      /\ t = "main" \/ t = "data"
      /\ t = "main" => pc'["data"] = pc["data"] /\ client \in {"poll", "ext"}
      /\ t = "data" => pc'["main"] = pc["main"] /\ client = "callback"
  BY <1>0 DEF Step, Go, IInv, TypeOK
<1>2. TypeOK'
  <2>1. pc' \in [Threads -> Locations]
    BY DEF Step, Go, IInv, TypeOK, Locations, CloseStates
  <2>2. /\ who' \in Uses /\ mem' \in {"none", "live", "freed"}
        /\ {slot, connected, sendThread}' \subseteq BOOLEAN
    BY DEF IInv, TypeOK, who, hist, fetVars
  <2>3. /\ socket' \in {"open", "closed"} /\ connFd' \in {"open", "dtNC"}
        /\ net' \in {"connecting", "up", "fin", "reset"} /\ resume' \in {"idle", "update"}
    BY DEF IInv, TypeOK, hist, fetVars
  <2>4. /\ closing' \in 0 .. 2 /\ ssem' \in Nat /\ rsem' \in 0 .. 1
        /\ unsent' \in 0 .. MaxSends /\ sends' \in 0 .. MaxSends
        /\ opened' \in 0 .. 1 /\ closed' \in 0 .. 1
    BY <1>1 DEF IInv, TypeOK, hist, fetVars, Counts, Opened, Marked, Closer, Detaching, Created
  <2> QED
    BY <2>1, <2>2, <2>3, <2>4 DEF TypeOK
<1>3. Places'
  BY <1>1 DEF IInv, Places, Detaching, CloseStates, fetVars, hist, who
<1>4. Created'
  BY <1>1 DEF IInv, Created
<1>5. Lasting'
  BY <1>1 DEF IInv, Places, Created, Lasting, Opened, Marked, Closer, Detaching,
     CloseStates, fetVars, hist, who
<1>6. Opened'
  BY <1>1 DEF IInv, Opened, Detaching
<1>7. Marked'
  BY <1>1 DEF IInv, Marked, Closer, Detaching, who
<1>8. Joined' /\ Pointer' /\ Counts'
  BY <1>1 DEF IInv, Joined, Pointer, Counts, who
<1> QED
  BY <1>2, <1>3, <1>4, <1>5, <1>6, <1>7, <1>8 DEF IInv

\* The socket is closed, unless the close is a soft one.
LEMMA CloseSocketKeeps ==
    ASSUME IInv, NEW t \in Threads, t = Closer, CloseSocket(t)
    PROVE  IInv'
<1> USE DEF CloseSocket
<1>0. (t = "main" /\ client \in {"poll", "ext"}) \/ (t = "data" /\ client = "callback")
  BY Closing DEF Step, CloseStates
<1>1. /\ pc[t] = "closeSocket" /\ pc'[t] = "closeSsem"
      /\ pc'["creator"] = pc["creator"] /\ pc'["send"] = pc["send"]
      /\ t = "main" \/ t = "data"
      /\ t = "main" => pc'["data"] = pc["data"] /\ client \in {"poll", "ext"}
      /\ t = "data" => pc'["main"] = pc["main"] /\ client = "callback"
  BY <1>0 DEF Step, Go, IInv, TypeOK
<1>2. TypeOK'
  <2>1. pc' \in [Threads -> Locations]
    BY DEF Step, Go, IInv, TypeOK, Locations, CloseStates
  <2>2. /\ who' \in Uses /\ mem' \in {"none", "live", "freed"}
        /\ {slot, connected, sendThread}' \subseteq BOOLEAN
    BY DEF IInv, TypeOK, who, hist, fetVars
  <2>3. /\ socket' \in {"open", "closed"} /\ connFd' \in {"open", "dtNC"}
        /\ net' \in {"connecting", "up", "fin", "reset"} /\ resume' \in {"idle", "update"}
    BY DEF IInv, TypeOK, hist, fetVars
  <2>4. /\ closing' \in 0 .. 2 /\ ssem' \in Nat /\ rsem' \in 0 .. 1
        /\ unsent' \in 0 .. MaxSends /\ sends' \in 0 .. MaxSends
        /\ opened' \in 0 .. 1 /\ closed' \in 0 .. 1
    BY <1>1 DEF IInv, TypeOK, hist, fetVars
  <2> QED
    BY <2>1, <2>2, <2>3, <2>4 DEF TypeOK
<1>3. Places'
  BY <1>1 DEF IInv, Places, Detaching, CloseStates, fetVars, hist, who
<1>4. Created'
  BY <1>1 DEF IInv, Created
<1>5. Lasting'
  BY <1>1 DEF IInv, Lasting, Closer, hist, who
<1>6. Opened'
  BY <1>1 DEF IInv, Opened, Detaching
<1>7. Marked'
  BY <1>1 DEF IInv, Marked, Closer, Detaching, hist, who
<1>8. Joined' /\ Pointer' /\ Counts'
  BY <1>1 DEF IInv, Joined, Pointer, Counts, hist, who
<1> QED
  BY <1>2, <1>3, <1>4, <1>5, <1>6, <1>7, <1>8 DEF IInv

\* The send thread is woken.
LEMMA CloseSsemKeeps == ASSUME IInv, NEW t \in Threads, t = Closer, CloseSsem(t) PROVE IInv'
<1> USE DEF CloseSsem
<1>0. (t = "main" /\ client \in {"poll", "ext"}) \/ (t = "data" /\ client = "callback")
  BY Closing DEF Step, CloseStates
<1>1. /\ pc[t] = "closeSsem" /\ pc'[t] = "closeRsem"
      /\ pc'["creator"] = pc["creator"] /\ pc'["send"] = pc["send"]
      /\ t = "main" \/ t = "data"
      /\ t = "main" => pc'["data"] = pc["data"] /\ client \in {"poll", "ext"}
      /\ t = "data" => pc'["main"] = pc["main"] /\ client = "callback"
  BY <1>0 DEF Step, Go, IInv, TypeOK
<1>2. TypeOK'
  <2>1. pc' \in [Threads -> Locations]
    BY DEF Step, Go, IInv, TypeOK, Locations, CloseStates
  <2>2. /\ who' \in Uses /\ mem' \in {"none", "live", "freed"}
        /\ {slot, connected, sendThread}' \subseteq BOOLEAN
    BY DEF IInv, TypeOK, who, hist, fetVars
  <2>3. /\ socket' \in {"open", "closed"} /\ connFd' \in {"open", "dtNC"}
        /\ net' \in {"connecting", "up", "fin", "reset"} /\ resume' \in {"idle", "update"}
    BY DEF IInv, TypeOK, hist, fetVars
  <2>4. /\ closing' \in 0 .. 2 /\ ssem' \in Nat /\ rsem' \in 0 .. 1
        /\ unsent' \in 0 .. MaxSends /\ sends' \in 0 .. MaxSends
        /\ opened' \in 0 .. 1 /\ closed' \in 0 .. 1
    BY <1>1 DEF IInv, TypeOK, hist, fetVars
  <2> QED
    BY <2>1, <2>2, <2>3, <2>4 DEF TypeOK
<1>3. Places'
  BY <1>1 DEF IInv, Places, Detaching, CloseStates, fetVars, hist, who
<1>4. Created'
  BY <1>1 DEF IInv, Created
<1>5. Lasting'
  BY <1>1 DEF IInv, Lasting, Closer, hist, who
<1>6. Opened'
  BY <1>1 DEF IInv, Opened, Detaching
<1>7. Marked'
  BY <1>1 DEF IInv, Marked, Closer, Detaching, hist, who
<1>8. Joined' /\ Pointer' /\ Counts'
  BY <1>1 DEF IInv, Joined, Pointer, Counts, hist, who
<1> QED
  BY <1>2, <1>3, <1>4, <1>5, <1>6, <1>7, <1>8 DEF IInv

\* The data thread may free the FET.
LEMMA CloseRsemKeeps == ASSUME IInv, NEW t \in Threads, t = Closer, CloseRsem(t) PROVE IInv'
<1> USE DEF CloseRsem
<1>0. (t = "main" /\ client \in {"poll", "ext"}) \/ (t = "data" /\ client = "callback")
  BY Closing DEF Step, CloseStates
<1>1. /\ pc[t] = "closeRsem" /\ pc'[t] = "afterClose"
      /\ pc'["creator"] = pc["creator"] /\ pc'["send"] = pc["send"]
      /\ t = "main" \/ t = "data"
      /\ t = "main" => pc'["data"] = pc["data"] /\ client \in {"poll", "ext"}
      /\ t = "data" => pc'["main"] = pc["main"] /\ client = "callback"
  BY <1>0 DEF Step, Go, IInv, TypeOK
<1>2. TypeOK'
  <2>1. pc' \in [Threads -> Locations]
    BY DEF Step, Go, IInv, TypeOK, Locations, CloseStates
  <2>2. /\ who' \in Uses /\ mem' \in {"none", "live", "freed"}
        /\ {slot, connected, sendThread}' \subseteq BOOLEAN
    BY DEF IInv, TypeOK, who, hist, fetVars
  <2>3. /\ socket' \in {"open", "closed"} /\ connFd' \in {"open", "dtNC"}
        /\ net' \in {"connecting", "up", "fin", "reset"} /\ resume' \in {"idle", "update"}
    BY DEF IInv, TypeOK, hist, fetVars
  <2>4. /\ closing' \in 0 .. 2 /\ ssem' \in Nat /\ rsem' \in 0 .. 1
        /\ unsent' \in 0 .. MaxSends /\ sends' \in 0 .. MaxSends
        /\ opened' \in 0 .. 1 /\ closed' \in 0 .. 1
    BY <1>1 DEF IInv, TypeOK, hist, fetVars, Counts, Opened, Marked, Closer, Detaching, Created
  <2> QED
    BY <2>1, <2>2, <2>3, <2>4 DEF TypeOK
<1>3. Places'
  BY <1>1 DEF IInv, Places, Detaching, CloseStates, fetVars, hist, who
<1>4. Created'
  BY <1>1 DEF IInv, Created
<1>5. Lasting'
  BY <1>1 DEF IInv, Lasting, Closer, hist, who
<1>6. Opened'
  BY <1>1 DEF IInv, Opened, Detaching
<1>7. Marked'
  BY <1>1 DEF IInv, Marked, Closer, Detaching, hist, who
<1>8. Joined' /\ Pointer' /\ Counts'
  BY <1>1 DEF IInv, Joined, Pointer, Counts, hist, who
<1> QED
  BY <1>2, <1>3, <1>4, <1>5, <1>6, <1>7, <1>8 DEF IInv

\* The connection is up, and its owner is told.
LEMMA PollReadyKeeps == ASSUME IInv, PollReady PROVE IInv'
<1> USE DEF PollReady
<1>1. /\ pc["data"] = "poll" /\ pc'["data"] = "top"
      /\ pc'["creator"] = pc["creator"] /\ pc'["main"] = pc["main"] /\ pc'["send"] = pc["send"]
  BY DEF Step, Go, Threads, IInv, TypeOK
<1>2. TypeOK'
  <2>1. pc' \in [Threads -> Locations]
    BY DEF Step, Go, IInv, TypeOK, Locations, CloseStates
  <2>2. /\ who' \in Uses /\ mem' \in {"none", "live", "freed"}
        /\ {slot, connected, sendThread}' \subseteq BOOLEAN
    BY DEF IInv, TypeOK, who, hist, fetVars
  <2>3. /\ socket' \in {"open", "closed"} /\ connFd' \in {"open", "dtNC"}
        /\ net' \in {"connecting", "up", "fin", "reset"} /\ resume' \in {"idle", "update"}
    BY DEF IInv, TypeOK, hist, fetVars
  <2>4. /\ closing' \in 0 .. 2 /\ ssem' \in Nat /\ rsem' \in 0 .. 1
        /\ unsent' \in 0 .. MaxSends /\ sends' \in 0 .. MaxSends
        /\ opened' \in 0 .. 1 /\ closed' \in 0 .. 1
    BY <1>1 DEF IInv, TypeOK, hist, fetVars, Counts
  <2> QED
    BY <2>1, <2>2, <2>3, <2>4 DEF TypeOK
<1>3. Places'
  BY <1>1 DEF IInv, Places, Detaching, CloseStates, fetVars, hist, who
<1>4. Created'
  BY <1>1 DEF IInv, Created
<1>5. Lasting'
  BY <1>1 DEF IInv, Lasting, Closer, who
<1>6. Opened'
  BY <1>1 DEF IInv, Opened, Closer, Detaching, who
<1>7. Marked'
  BY <1>1 DEF IInv, Places, Created, Lasting, Marked, Closer, Detaching, CloseStates,
     fetVars, hist, who
<1>8. Joined' /\ Pointer' /\ Counts'
  BY <1>1 DEF IInv, Places, Created, Lasting, Joined, Pointer, Counts, Closer, Detaching,
     CloseStates, fetVars, hist, who
<1> QED
  BY <1>2, <1>3, <1>4, <1>5, <1>6, <1>7, <1>8 DEF IInv

\* The data thread looks whether the FET is still open.
LEMMA DataTopKeeps == ASSUME IInv, DataTop PROVE IInv'
<1> USE DEF DataTop, dtActive
<1>1. /\ pc["data"] = "top" /\ pc'["data"] \in {"join", "recv", "callback"}
      /\ closing # 0 <=> pc'["data"] = "join"
      /\ pc'["creator"] = pc["creator"] /\ pc'["main"] = pc["main"] /\ pc'["send"] = pc["send"]
      /\ UNCHANGED <<fetVars, resume, hist>>
  BY DEF Step, Go, Threads, IInv, TypeOK
<1>2. TypeOK'
  <2>1. pc' \in [Threads -> Locations]
    BY DEF Step, Go, IInv, TypeOK, Locations, CloseStates
  <2> QED
    BY <1>1, <2>1, MoveType DEF IInv
<1>3. Places'
  BY <1>1 DEF IInv, Places, Detaching, CloseStates, fetVars, hist, who
<1>4. Created'
  BY <1>1 DEF IInv, Created, fetVars
<1>5. Lasting'
  BY <1>1 DEF IInv, Lasting, Closer, fetVars, hist, who
<1>6. Opened'
  BY <1>1 DEF IInv, Opened, Closer, Detaching, fetVars, hist, who
<1>7. Marked'
  BY <1>1 DEF IInv, Marked, Closer, Detaching, fetVars, hist, who
<1>8. Joined' /\ Pointer' /\ Counts'
  BY <1>1 DEF IInv, Joined, Pointer, Counts, fetVars, hist, who
<1> QED
  BY <1>2, <1>3, <1>4, <1>5, <1>6, <1>7, <1>8 DEF IInv

\* Input arrives.
LEMMA RecvDataKeeps == ASSUME IInv, RecvData PROVE IInv'
<1> USE DEF RecvData
<1>1. /\ pc["data"] = "recv" /\ pc'["data"] = "callback"
      /\ pc'["creator"] = pc["creator"] /\ pc'["main"] = pc["main"] /\ pc'["send"] = pc["send"]
      /\ UNCHANGED <<fetVars, resume, hist>>
  BY DEF Step, Go, Threads, IInv, TypeOK
<1>2. TypeOK'
  <2>1. pc' \in [Threads -> Locations]
    BY DEF Step, Go, IInv, TypeOK, Locations, CloseStates
  <2> QED
    BY <1>1, <2>1, MoveType DEF IInv
<1>3. Places'
  BY <1>1 DEF IInv, Places, Detaching, CloseStates, fetVars, hist, who
<1>4. Created'
  BY <1>1 DEF IInv, Created, fetVars
<1>5. Lasting'
  BY <1>1 DEF IInv, Lasting, Closer, fetVars, hist, who
<1>6. Opened'
  BY <1>1 DEF IInv, Opened, Closer, Detaching, fetVars, hist, who
<1>7. Marked'
  BY <1>1 DEF IInv, Marked, Closer, fetVars, hist, who
<1>8. Joined' /\ Pointer' /\ Counts'
  BY <1>1 DEF IInv, Joined, Pointer, Counts, fetVars, hist, who
<1> QED
  BY <1>2, <1>3, <1>4, <1>5, <1>6, <1>7, <1>8 DEF IInv

\* The callback closes the FET if it is its way and the peer is gone.
LEMMA DataCallbackKeeps == ASSUME IInv, DataCallback PROVE IInv'
<1> USE DEF DataCallback, dtActive, dtConnected
<1>1. /\ pc["data"] = "callback" /\ pc'["data"] \in {"close", "top"}
      /\ pc'["data"] = "close" => client = "callback" /\ (closing # 0 \/ ~connected)
      /\ pc'["creator"] = pc["creator"] /\ pc'["main"] = pc["main"] /\ pc'["send"] = pc["send"]
      /\ UNCHANGED <<fetVars, resume, hist>>
  BY DEF Step, Go, Threads, IInv, TypeOK
<1>2. TypeOK'
  <2>1. pc' \in [Threads -> Locations]
    BY DEF Step, Go, IInv, TypeOK, Locations, CloseStates
  <2> QED
    BY <1>1, <2>1, MoveType DEF IInv
<1>3. Places'
  BY <1>1 DEF IInv, Places, Detaching, CloseStates, fetVars, hist, who
<1>4. Created'
  BY <1>1 DEF IInv, Created, fetVars
<1>5. Lasting'
  BY <1>1 DEF IInv, Places, Created, Lasting, Closer, Detaching, CloseStates, fetVars,
     hist, who
<1>6. Opened'
  BY <1>1 DEF IInv, Opened, Closer, Detaching, fetVars, hist, who
<1>7. Marked'
  BY <1>1 DEF IInv, Marked, Closer, Detaching, fetVars, hist, who
<1>8. Joined' /\ Pointer' /\ Counts'
  BY <1>1 DEF IInv, Joined, Pointer, Counts, fetVars, hist, who
<1> QED
  BY <1>2, <1>3, <1>4, <1>5, <1>6, <1>7, <1>8 DEF IInv

\* The callback returns.
LEMMA DataAfterCloseKeeps == ASSUME IInv, DataAfterClose PROVE IInv'
<1> USE DEF DataAfterClose
<1>1. /\ pc["data"] = "afterClose" /\ pc'["data"] = "top"
      /\ pc'["creator"] = pc["creator"] /\ pc'["main"] = pc["main"] /\ pc'["send"] = pc["send"]
      /\ UNCHANGED <<fetVars, resume, hist>>
  BY DEF Step, Go, Threads, IInv, TypeOK
<1>2. TypeOK'
  <2>1. pc' \in [Threads -> Locations]
    BY DEF Step, Go, IInv, TypeOK, Locations, CloseStates
  <2> QED
    BY <1>1, <2>1, MoveType DEF IInv
<1>3. Places'
  BY <1>1 DEF IInv, Places
<1>4. Created'
  BY <1>1 DEF IInv, Created, fetVars
<1>5. Lasting'
  BY <1>1 DEF IInv, Lasting, Closer, fetVars, hist, who
<1>6. Opened'
  BY <1>1 DEF IInv, Opened, Closer, Detaching, fetVars, hist, who
<1>7. Marked'
  BY <1>1 DEF IInv, Marked, Closer, Detaching, fetVars, hist, who
<1>8. Joined' /\ Pointer' /\ Counts'
  BY <1>1 DEF IInv, Joined, Pointer, Counts, fetVars, hist, who
<1> QED
  BY <1>2, <1>3, <1>4, <1>5, <1>6, <1>7, <1>8 DEF IInv

\* The connection has ended.
LEMMA RecvEndKeeps == ASSUME IInv, RecvEnd PROVE IInv'
<1> USE DEF RecvEnd
<1>1. /\ pc["data"] = "recv" /\ pc'["data"] = "callback"
      /\ pc'["creator"] = pc["creator"] /\ pc'["main"] = pc["main"] /\ pc'["send"] = pc["send"]
  BY DEF Step, Go, Threads, IInv, TypeOK
<1>2. TypeOK'
  <2>1. pc' \in [Threads -> Locations]
    BY DEF Step, Go, IInv, TypeOK, Locations, CloseStates
  <2>2. /\ who' \in Uses /\ mem' \in {"none", "live", "freed"}
        /\ {slot, connected, sendThread}' \subseteq BOOLEAN
    BY DEF IInv, TypeOK, who, hist, fetVars
  <2>3. /\ socket' \in {"open", "closed"} /\ connFd' \in {"open", "dtNC"}
        /\ net' \in {"connecting", "up", "fin", "reset"} /\ resume' \in {"idle", "update"}
    BY DEF IInv, TypeOK, hist, fetVars
  <2>4. /\ closing' \in 0 .. 2 /\ ssem' \in Nat /\ rsem' \in 0 .. 1
        /\ unsent' \in 0 .. MaxSends /\ sends' \in 0 .. MaxSends
        /\ opened' \in 0 .. 1 /\ closed' \in 0 .. 1
    BY <1>1 DEF IInv, TypeOK, hist, fetVars
  <2> QED
    BY <2>1, <2>2, <2>3, <2>4 DEF TypeOK
<1>3. Places'
  BY <1>1 DEF IInv, Places, Detaching, CloseStates, fetVars, hist, who
<1>4. Created'
  BY <1>1 DEF IInv, Created
<1>5. Lasting'
  BY <1>1 DEF IInv, Places, Created, Lasting, Opened, Marked, Closer, Detaching,
     CloseStates, fetVars, hist, who
<1>6. Opened'
  BY <1>1 DEF IInv, Opened, Closer, Detaching, hist, who
<1>7. Marked'
  BY <1>1 DEF IInv, Marked, Closer, Detaching, hist, who
<1>8. Joined' /\ Pointer' /\ Counts'
  BY <1>1 DEF IInv, Joined, Pointer, Counts, hist, who
<1> QED
  BY <1>2, <1>3, <1>4, <1>5, <1>6, <1>7, <1>8 DEF IInv

\* The send thread is joined: its id was stored, so that it has ended.
LEMMA JoinKeeps == ASSUME IInv, Join PROVE IInv'
<1> USE DEF Join
<1>1. /\ pc["data"] = "join" /\ pc'["data"] = "rsem" /\ (pc["send"] = "exit" \/ ~sendThread)
      /\ pc'["creator"] = pc["creator"] /\ pc'["main"] = pc["main"] /\ pc'["send"] = pc["send"]
      /\ UNCHANGED <<fetVars, resume, hist>>
  BY DEF Step, Go, Threads, IInv, TypeOK
<1>2. TypeOK'
  <2>1. pc' \in [Threads -> Locations]
    BY DEF Step, Go, IInv, TypeOK, Locations, CloseStates
  <2> QED
    BY <1>1, <2>1, MoveType DEF IInv
<1>3. Places'
  BY <1>1 DEF IInv, Places, Detaching, CloseStates, fetVars, hist, who
<1>4. Created'
  BY <1>1 DEF IInv, Created, fetVars
<1>5. Lasting'
  BY <1>1 DEF IInv, Lasting, Closer, fetVars, hist, who
<1>6. Opened'
  BY <1>1 DEF IInv, Opened, fetVars
<1>7. Marked'
  BY <1>1 DEF IInv, Marked, Closer, Detaching, fetVars, hist, who
<1>8. Joined' /\ Pointer' /\ Counts'
  BY <1>1 DEF IInv, Places, Created, Lasting, Opened, Marked, Joined, Pointer, Counts,
     Closer, Detaching, CloseStates, fetVars, hist, who
<1> QED
  BY <1>2, <1>3, <1>4, <1>5, <1>6, <1>7, <1>8 DEF IInv

\* The FET is freed.
LEMMA FreeKeeps == ASSUME IInv, Free PROVE IInv'
<1> USE DEF Free
<1>1. /\ pc["data"] = "rsem" /\ pc'["data"] = "exit"
      /\ pc'["creator"] = pc["creator"] /\ pc'["main"] = pc["main"] /\ pc'["send"] = pc["send"]
  BY DEF Step, Go, Threads, IInv, TypeOK
<1>2. TypeOK'
  <2>1. pc' \in [Threads -> Locations]
    BY DEF Step, Go, IInv, TypeOK, Locations, CloseStates
  <2>2. /\ who' \in Uses /\ mem' \in {"none", "live", "freed"}
        /\ {slot, connected, sendThread}' \subseteq BOOLEAN
    BY DEF IInv, TypeOK, who, hist, fetVars
  <2>3. /\ socket' \in {"open", "closed"} /\ connFd' \in {"open", "dtNC"}
        /\ net' \in {"connecting", "up", "fin", "reset"} /\ resume' \in {"idle", "update"}
    BY DEF IInv, TypeOK, hist, fetVars
  <2>4. /\ closing' \in 0 .. 2 /\ ssem' \in Nat /\ rsem' \in 0 .. 1
        /\ unsent' \in 0 .. MaxSends /\ sends' \in 0 .. MaxSends
        /\ opened' \in 0 .. 1 /\ closed' \in 0 .. 1
    BY <1>1 DEF IInv, TypeOK, hist, fetVars
  <2> QED
    BY <2>1, <2>2, <2>3, <2>4 DEF TypeOK
<1>3. Places'
  BY <1>1 DEF IInv, Places, Detaching, CloseStates, fetVars, hist, who
<1>4. Created'
  BY <1>1 DEF IInv, Created
<1>5. Lasting'
  BY <1>1 DEF IInv, Lasting, Closer, hist, who
<1>6. Opened'
  BY <1>1 DEF IInv, Opened
<1>7. Marked'
  BY <1>1 DEF IInv, Marked, Closer, Detaching, hist, who
<1>8. Joined' /\ Pointer' /\ Counts'
  BY <1>1 DEF IInv, Joined, Pointer, Counts, hist, who
<1> QED
  BY <1>2, <1>3, <1>4, <1>5, <1>6, <1>7, <1>8 DEF IInv

\* The send thread looks for what there is to do.
LEMMA SendTopKeeps == ASSUME IInv, SendTop PROVE IInv'
<1> USE DEF SendTop
<1>1. /\ pc["send"] = "top" /\ pc'["send"] \in {"exit", "send", "empty"}
      /\ pc'["send"] = "send" => unsent > 0
      /\ pc'["creator"] = pc["creator"] /\ pc'["main"] = pc["main"] /\ pc'["data"] = pc["data"]
      /\ UNCHANGED <<fetVars, resume, hist>>
  BY DEF Step, Go, Threads, IInv, TypeOK
<1>2. TypeOK'
  <2>1. pc' \in [Threads -> Locations]
    BY DEF Step, Go, IInv, TypeOK, Locations, CloseStates
  <2> QED
    BY <1>1, <2>1, MoveType DEF IInv
<1>3. Places'
  BY <1>1 DEF IInv, Places, Detaching, CloseStates, fetVars, hist, who
<1>4. Created'
  BY <1>1 DEF IInv, Created, fetVars
<1>5. Lasting'
  BY <1>1 DEF IInv, Lasting, Closer, fetVars, hist, who
<1>6. Opened'
  BY <1>1 DEF IInv, Opened, Closer, fetVars, hist, who
<1>7. Marked'
  BY <1>1 DEF IInv, Marked, Closer, fetVars, hist, who
<1>8. Joined' /\ Pointer' /\ Counts'
  BY <1>1 DEF IInv, Joined, Pointer, Counts, fetVars, hist, who
<1> QED
  BY <1>2, <1>3, <1>4, <1>5, <1>6, <1>7, <1>8 DEF IInv

\* There is nothing to send.
LEMMA SendEmptyKeeps == ASSUME IInv, SendEmpty PROVE IInv'
<1> USE DEF SendEmpty
<1>1. /\ pc["send"] = "empty" /\ pc'["send"] \in {"shutdown", "ssem"}
      /\ pc'["send"] = "shutdown" => closing = 1
      /\ pc'["creator"] = pc["creator"] /\ pc'["main"] = pc["main"] /\ pc'["data"] = pc["data"]
      /\ UNCHANGED <<fetVars, resume, hist>>
  BY DEF Step, Go, Threads, IInv, TypeOK
<1>2. TypeOK'
  <2>1. pc' \in [Threads -> Locations]
    BY DEF Step, Go, IInv, TypeOK, Locations, CloseStates
  <2> QED
    BY <1>1, <2>1, MoveType DEF IInv
<1>3. Places'
  BY <1>1 DEF IInv, Places, Detaching, CloseStates, fetVars, hist, who
<1>4. Created'
  BY <1>1 DEF IInv, Created, fetVars
<1>5. Lasting'
  BY <1>1 DEF IInv, Lasting, Closer, fetVars, hist, who
<1>6. Opened'
  BY <1>1 DEF IInv, Opened, Closer, fetVars, hist, who
<1>7. Marked'
  BY <1>1 DEF IInv, Marked, Closer, fetVars, hist, who
<1>8. Joined' /\ Pointer' /\ Counts'
  BY <1>1 DEF IInv, Joined, Pointer, Counts, fetVars, hist, who
<1> QED
  BY <1>2, <1>3, <1>4, <1>5, <1>6, <1>7, <1>8 DEF IInv

\* The connection is gone.
LEMMA SendFailsKeeps == ASSUME IInv, SendFails PROVE IInv'
<1> USE DEF SendFails
<1>1. /\ pc["send"] = "send" /\ pc'["send"] = "exit"
      /\ pc'["creator"] = pc["creator"] /\ pc'["main"] = pc["main"] /\ pc'["data"] = pc["data"]
      /\ UNCHANGED <<fetVars, resume, hist>>
  BY DEF Step, Go, Threads, IInv, TypeOK
<1>2. TypeOK'
  <2>1. pc' \in [Threads -> Locations]
    BY DEF Step, Go, IInv, TypeOK, Locations, CloseStates
  <2> QED
    BY <1>1, <2>1, MoveType DEF IInv
<1>3. Places'
  BY <1>1 DEF IInv, Places, Detaching, CloseStates, fetVars, hist, who
<1>4. Created'
  BY <1>1 DEF IInv, Created, fetVars
<1>5. Lasting'
  BY <1>1 DEF IInv, Lasting, Closer, fetVars, hist, who
<1>6. Opened'
  BY <1>1 DEF IInv, Opened, Closer, fetVars, hist, who
<1>7. Marked'
  BY <1>1 DEF IInv, Marked, Closer, fetVars, hist, who
<1>8. Joined' /\ Pointer' /\ Counts'
  BY <1>1 DEF IInv, Joined, Pointer, Counts, fetVars, hist, who
<1> QED
  BY <1>2, <1>3, <1>4, <1>5, <1>6, <1>7, <1>8 DEF IInv

\* What is left of a soft close.
LEMMA SendShutdownKeeps == ASSUME IInv, SendShutdown PROVE IInv'
<1> USE DEF SendShutdown
<1>1. /\ pc["send"] = "shutdown" /\ pc'["send"] = "exit"
      /\ pc'["creator"] = pc["creator"] /\ pc'["main"] = pc["main"] /\ pc'["data"] = pc["data"]
  BY DEF Step, Go, Threads, IInv, TypeOK
<1>2. TypeOK'
  <2>1. pc' \in [Threads -> Locations]
    BY DEF Step, Go, IInv, TypeOK, Locations, CloseStates
  <2>2. /\ who' \in Uses /\ mem' \in {"none", "live", "freed"}
        /\ {slot, connected, sendThread}' \subseteq BOOLEAN
    BY DEF IInv, TypeOK, who, hist, fetVars
  <2>3. /\ socket' \in {"open", "closed"} /\ connFd' \in {"open", "dtNC"}
        /\ net' \in {"connecting", "up", "fin", "reset"} /\ resume' \in {"idle", "update"}
    BY DEF IInv, TypeOK, hist, fetVars
  <2>4. /\ closing' \in 0 .. 2 /\ ssem' \in Nat /\ rsem' \in 0 .. 1
        /\ unsent' \in 0 .. MaxSends /\ sends' \in 0 .. MaxSends
        /\ opened' \in 0 .. 1 /\ closed' \in 0 .. 1
    BY <1>1 DEF IInv, TypeOK, hist, fetVars
  <2> QED
    BY <2>1, <2>2, <2>3, <2>4 DEF TypeOK
<1>3. Places'
  BY <1>1 DEF IInv, Places, Detaching, CloseStates, fetVars, hist, who
<1>4. Created'
  BY <1>1 DEF IInv, Created
<1>5. Lasting'
  BY <1>1 DEF IInv, TypeOK, Places, Created, Lasting, Opened, Marked, Joined, Pointer,
     Counts, Closer, Detaching, CloseStates, fetVars, hist, who
<1>6. Opened'
  BY <1>1 DEF IInv, Opened
<1>7. Marked'
  BY <1>1 DEF IInv, TypeOK, Places, Created, Lasting, Opened, Marked, Joined, Pointer,
     Counts, Closer, Detaching, CloseStates, fetVars, hist, who
<1>8. Joined' /\ Pointer' /\ Counts'
  BY <1>1 DEF IInv, Joined, Pointer, Counts, hist, who
<1> QED
  BY <1>2, <1>3, <1>4, <1>5, <1>6, <1>7, <1>8 DEF IInv

\* The send thread wakes up.
LEMMA SendWaitKeeps == ASSUME IInv, SendWait PROVE IInv'
<1> USE DEF SendWait
<1>1. /\ pc["send"] = "ssem" /\ pc'["send"] = "top"
      /\ pc'["creator"] = pc["creator"] /\ pc'["main"] = pc["main"] /\ pc'["data"] = pc["data"]
  BY DEF Step, Go, Threads, IInv, TypeOK
<1>2. TypeOK'
  <2>1. pc' \in [Threads -> Locations]
    BY DEF Step, Go, IInv, TypeOK, Locations, CloseStates
  <2>2. /\ who' \in Uses /\ mem' \in {"none", "live", "freed"}
        /\ {slot, connected, sendThread}' \subseteq BOOLEAN
    BY DEF IInv, TypeOK, who, hist, fetVars
  <2>3. /\ socket' \in {"open", "closed"} /\ connFd' \in {"open", "dtNC"}
        /\ net' \in {"connecting", "up", "fin", "reset"} /\ resume' \in {"idle", "update"}
    BY DEF IInv, TypeOK, hist, fetVars
  <2>4. /\ closing' \in 0 .. 2 /\ ssem' \in Nat /\ rsem' \in 0 .. 1
        /\ unsent' \in 0 .. MaxSends /\ sends' \in 0 .. MaxSends
        /\ opened' \in 0 .. 1 /\ closed' \in 0 .. 1
    BY <1>1 DEF IInv, TypeOK, hist, fetVars
  <2> QED
    BY <2>1, <2>2, <2>3, <2>4 DEF TypeOK
<1>3. Places'
  BY <1>1 DEF IInv, Places, Detaching, CloseStates, fetVars, hist, who
<1>4. Created'
  BY <1>1 DEF IInv, Created
<1>5. Lasting'
  BY <1>1 DEF IInv, Lasting, Closer, hist, who
<1>6. Opened'
  BY <1>1 DEF IInv, Opened, Closer, hist, who
<1>7. Marked'
  BY <1>1 DEF IInv, Marked, Closer, hist, who
<1>8. Joined' /\ Pointer' /\ Counts'
  BY <1>1 DEF IInv, Joined, Pointer, Counts, hist, who
<1> QED
  BY <1>2, <1>3, <1>4, <1>5, <1>6, <1>7, <1>8 DEF IInv

\* Bytes leave.
LEMMA SendBytesKeeps == ASSUME IInv, SendBytes PROVE IInv'
<1> USE DEF SendBytes
<1>1. /\ pc["send"] = "send" /\ pc'["send"] = "top"
      /\ pc'["creator"] = pc["creator"] /\ pc'["main"] = pc["main"] /\ pc'["data"] = pc["data"]
  BY DEF Step, Go, Threads, IInv, TypeOK
<1>2. TypeOK'
  <2>1. pc' \in [Threads -> Locations]
    BY DEF Step, Go, IInv, TypeOK, Locations, CloseStates
  <2>2. /\ who' \in Uses /\ mem' \in {"none", "live", "freed"}
        /\ {slot, connected, sendThread}' \subseteq BOOLEAN
    BY DEF IInv, TypeOK, who, hist, fetVars
  <2>3. /\ socket' \in {"open", "closed"} /\ connFd' \in {"open", "dtNC"}
        /\ net' \in {"connecting", "up", "fin", "reset"} /\ resume' \in {"idle", "update"}
    BY DEF IInv, TypeOK, hist, fetVars
  <2>4. /\ closing' \in 0 .. 2 /\ ssem' \in Nat /\ rsem' \in 0 .. 1
        /\ unsent' \in 0 .. MaxSends /\ sends' \in 0 .. MaxSends
        /\ opened' \in 0 .. 1 /\ closed' \in 0 .. 1
    <3>1. MaxSends \in Nat /\ unsent > 0 /\ unsent \in 0 .. MaxSends
      BY <1>1, FetLifeAssumption DEF IInv, Counts, TypeOK
    <3> QED
      BY <3>1 DEF IInv, TypeOK, hist, fetVars
  <2> QED
    BY <2>1, <2>2, <2>3, <2>4 DEF TypeOK
<1>3. Places'
  BY <1>1 DEF IInv, Places, Detaching, CloseStates, fetVars, hist, who
<1>4. Created'
  BY <1>1 DEF IInv, Created
<1>5. Lasting'
  BY <1>1 DEF IInv, Lasting, Closer, hist, who
<1>6. Opened'
  BY <1>1 DEF IInv, Opened, Closer, hist, who
<1>7. Marked'
  BY <1>1 DEF IInv, Marked, Closer, hist, who
<1>8. Joined' /\ Pointer' /\ Counts'
  BY <1>1 DEF IInv, TypeOK, Places, Created, Lasting, Opened, Marked, Joined, Pointer,
     Counts, Closer, Detaching, CloseStates, fetVars, hist, who
<1> QED
  BY <1>2, <1>3, <1>4, <1>5, <1>6, <1>7, <1>8 DEF IInv

\* The main thread takes the FET from portVec.
LEMMA GrabKeeps == ASSUME IInv, Grab PROVE IInv'
<1> USE DEF Grab
<1>1. /\ pc["main"] = "idle" /\ pc'["main"] = "look" /\ slot
      /\ client = "ext" => pc["creator"] = "done"
      /\ pc'["creator"] = pc["creator"] /\ pc'["data"] = pc["data"] /\ pc'["send"] = pc["send"]
      /\ UNCHANGED <<fetVars, resume, hist>>
  BY DEF Step, Go, Threads, IInv, TypeOK
<1>2. TypeOK'
  <2>1. pc' \in [Threads -> Locations]
    BY DEF Step, Go, IInv, TypeOK, Locations, CloseStates
  <2> QED
    BY <1>1, <2>1, MoveType DEF IInv
<1>3. Places'
  BY <1>1 DEF IInv, Places, Detaching, CloseStates, fetVars, hist, who
<1>4. Created'
  BY <1>1 DEF IInv, Places, Created, Lasting, Opened, Marked, Closer, Detaching,
     CloseStates, fetVars, hist, who
<1>5. Lasting'
  BY <1>1 DEF IInv, Lasting, Closer, fetVars, hist, who
<1>6. Opened'
  BY <1>1 DEF IInv, Opened, Closer, Detaching, fetVars, hist, who
<1>7. Marked'
  BY <1>1 DEF IInv, Marked, Closer, fetVars, hist, who
<1>8. Joined' /\ Pointer' /\ Counts'
  BY <1>1 DEF IInv, Places, Created, Lasting, Opened, Marked, Joined, Pointer, Counts,
     Closer, Detaching, CloseStates, fetVars, hist, who
<1> QED
  BY <1>2, <1>3, <1>4, <1>5, <1>6, <1>7, <1>8 DEF IInv

\* A server that polls looks at the FET.
LEMMA PollLookKeeps == ASSUME IInv, PollLook PROVE IInv'
<1> USE DEF PollLook, dtActive
<1>1. /\ pc["main"] = "look" /\ pc'["main"] \in {"idle", "use", "close"} /\ client = "poll"
      /\ pc'["main"] # "idle" => closing = 0
      /\ pc'["main"] = "close" => ~connected
      /\ pc'["creator"] = pc["creator"] /\ pc'["data"] = pc["data"] /\ pc'["send"] = pc["send"]
      /\ UNCHANGED <<fetVars, resume, hist>>
  BY DEF Step, Go, Threads, IInv, TypeOK
<1>2. TypeOK'
  <2>1. pc' \in [Threads -> Locations]
    BY DEF Step, Go, IInv, TypeOK, Locations, CloseStates
  <2> QED
    BY <1>1, <2>1, MoveType DEF IInv
<1>3. Places'
  BY <1>1 DEF IInv, Places, hist, who
<1>4. Created'
  BY <1>1 DEF IInv, Created, fetVars
<1>5. Lasting'
  BY <1>1 DEF IInv, Places, Created, Lasting, Closer, Detaching, CloseStates, fetVars,
     hist, who
<1>6. Opened'
  BY <1>1 DEF IInv, Opened, Closer, Detaching, fetVars, hist, who
<1>7. Marked'
  BY <1>1 DEF IInv, Marked, Closer, Detaching, fetVars, hist, who
<1>8. Joined' /\ Pointer' /\ Counts'
  BY <1>1 DEF IInv, Joined, Pointer, Counts, fetVars, hist
<1> QED
  BY <1>2, <1>3, <1>4, <1>5, <1>6, <1>7, <1>8 DEF IInv

\* A server that works by callbacks has output.
LEMMA CallbackLookKeeps == ASSUME IInv, CallbackLook PROVE IInv'
<1> USE DEF CallbackLook
<1>1. /\ pc["main"] = "look" /\ pc'["main"] \in {"idle", "use"} /\ client = "callback"
      /\ pc'["creator"] = pc["creator"] /\ pc'["data"] = pc["data"] /\ pc'["send"] = pc["send"]
      /\ UNCHANGED <<fetVars, resume, hist>>
  BY DEF Step, Go, Threads, IInv, TypeOK
<1>2. TypeOK'
  <2>1. pc' \in [Threads -> Locations]
    BY DEF Step, Go, IInv, TypeOK, Locations, CloseStates
  <2> QED
    BY <1>1, <2>1, MoveType DEF IInv
<1>3. Places'
  BY <1>1 DEF IInv, Places, Detaching, CloseStates, fetVars, hist, who
<1>4. Created'
  BY <1>1 DEF IInv, Created, fetVars
<1>5. Lasting'
  BY <1>1 DEF IInv, Lasting, Closer, fetVars, hist, who
<1>6. Opened'
  BY <1>1 DEF IInv, Opened, Closer, Detaching, fetVars, hist
<1>7. Marked'
  BY <1>1 DEF IInv, Marked, Closer, fetVars, hist, who
<1>8. Joined' /\ Pointer' /\ Counts'
  BY <1>1 DEF IInv, Joined, Pointer, Counts, fetVars, hist, who
<1> QED
  BY <1>2, <1>3, <1>4, <1>5, <1>6, <1>7, <1>8 DEF IInv

\* A socket request.
LEMMA ExtLookKeeps == ASSUME IInv, ExtLook PROVE IInv'
<1> USE DEF ExtLook, dtActive, dtConnected
<1>1. /\ pc["main"] = "look" /\ client = "ext"
      /\ pc'["main"] \in {"shut", "close", "use", "idle"}
      /\ pc'["creator"] = pc["creator"] /\ pc'["data"] = pc["data"] /\ pc'["send"] = pc["send"]
  BY DEF Step, Go, Threads, IInv, TypeOK
<1>2. TypeOK'
  <2>1. pc' \in [Threads -> Locations]
    BY DEF Step, Go, IInv, TypeOK, Locations, CloseStates
  <2>2. /\ who' \in Uses /\ mem' \in {"none", "live", "freed"}
        /\ {slot, connected, sendThread}' \subseteq BOOLEAN
    BY DEF IInv, TypeOK, who, hist, fetVars
  <2>3. /\ socket' \in {"open", "closed"} /\ connFd' \in {"open", "dtNC"}
        /\ net' \in {"connecting", "up", "fin", "reset"} /\ resume' \in {"idle", "update"}
    BY DEF IInv, TypeOK, hist, fetVars
  <2>4. /\ closing' \in 0 .. 2 /\ ssem' \in Nat /\ rsem' \in 0 .. 1
        /\ unsent' \in 0 .. MaxSends /\ sends' \in 0 .. MaxSends
        /\ opened' \in 0 .. 1 /\ closed' \in 0 .. 1
    BY <1>1 DEF IInv, TypeOK, hist, fetVars
  <2> QED
    BY <2>1, <2>2, <2>3, <2>4 DEF TypeOK
<1>3. Places'
  BY <1>1 DEF IInv, Places, Detaching, CloseStates, fetVars, hist, who
<1>4. Created'
  BY <1>1 DEF IInv, Created, fetVars
<1>5. Lasting'
  BY <1>1 DEF IInv, Lasting, hist
<1>6. Opened'
  BY <1>1 DEF IInv, Opened, Closer, Detaching, fetVars, hist, who
<1>7. Marked'
  BY <1>1 DEF IInv, Marked, Closer, Detaching, fetVars, hist, who
<1>8. Joined' /\ Pointer' /\ Counts'
  BY <1>1 DEF IInv, Joined, Pointer, Counts, fetVars, hist, who
<1> QED
  BY <1>2, <1>3, <1>4, <1>5, <1>6, <1>7, <1>8 DEF IInv

\* Output is stored in the ring, or refused.
LEMMA UseKeeps == ASSUME IInv, Use PROVE IInv'
<1> USE DEF Use, dtActive, dtConnected
<1>1. /\ pc["main"] = "use" /\ pc'["main"] = "idle"
      /\ pc'["creator"] = pc["creator"] /\ pc'["data"] = pc["data"] /\ pc'["send"] = pc["send"]
  BY DEF Step, Go, Threads, IInv, TypeOK
<1>2. TypeOK'
  <2>1. pc' \in [Threads -> Locations]
    BY DEF Step, Go, IInv, TypeOK, Locations, CloseStates
  <2>2. /\ who' \in Uses /\ mem' \in {"none", "live", "freed"}
        /\ {slot, connected, sendThread}' \subseteq BOOLEAN
    BY DEF IInv, TypeOK, who, hist, fetVars
  <2>3. /\ socket' \in {"open", "closed"} /\ connFd' \in {"open", "dtNC"}
        /\ net' \in {"connecting", "up", "fin", "reset"} /\ resume' \in {"idle", "update"}
    BY DEF IInv, TypeOK, hist, fetVars
  <2>4. /\ closing' \in 0 .. 2 /\ ssem' \in Nat /\ rsem' \in 0 .. 1
        /\ unsent' \in 0 .. MaxSends /\ sends' \in 0 .. MaxSends
        /\ opened' \in 0 .. 1 /\ closed' \in 0 .. 1
    <3>1. MaxSends \in Nat /\ unsent <= sends /\ unsent \in 0 .. MaxSends /\ sends \in 0 .. MaxSends
      BY <1>1, FetLifeAssumption DEF IInv, Counts, TypeOK
    <3> QED
      BY <3>1 DEF IInv, TypeOK
  <2> QED
    BY <2>1, <2>2, <2>3, <2>4 DEF TypeOK
<1>3. Places'
  BY <1>1 DEF IInv, Places, Detaching, CloseStates, fetVars, hist, who
<1>4. Created'
  BY <1>1 DEF IInv, Created
<1>5. Lasting'
  BY <1>1 DEF IInv, Lasting, Closer, who
<1>6. Opened'
  BY <1>1 DEF IInv, Opened, Closer, Detaching, who
<1>7. Marked'
  BY <1>1 DEF IInv, Marked, Closer, Detaching, who
<1>8. Joined' /\ Pointer' /\ Counts'
  BY <1>1 DEF IInv, TypeOK, Places, Created, Lasting, Opened, Marked, Joined, Pointer,
     Counts, Closer, Detaching, CloseStates, fetVars, hist, who
<1> QED
  BY <1>2, <1>3, <1>4, <1>5, <1>6, <1>7, <1>8 DEF IInv

\* The main thread goes on after dtClose.
LEMMA MainAfterCloseKeeps == ASSUME IInv, MainAfterClose PROVE IInv'
<1> USE DEF MainAfterClose
<1>1. /\ pc["main"] = "afterClose" /\ pc'["main"] = resume
      /\ pc'["creator"] = pc["creator"] /\ pc'["data"] = pc["data"] /\ pc'["send"] = pc["send"]
      /\ UNCHANGED <<fetVars, resume, hist>>
  BY DEF Step, Go, Threads, IInv, TypeOK
<1>2. TypeOK'
  <2>1. pc' \in [Threads -> Locations]
    BY DEF Step, Go, IInv, TypeOK, Locations, CloseStates
  <2> QED
    BY <1>1, <2>1, MoveType DEF IInv
<1>3. Places'
  BY <1>1 DEF IInv, TypeOK, Places, Created, Lasting, Opened, Marked, Joined, Pointer,
     Counts, Closer, Detaching, CloseStates, fetVars, hist, who
<1>4. Created'
  BY <1>1 DEF IInv, Created, fetVars
<1>5. Lasting'
  BY <1>1 DEF IInv, Places, Lasting, Closer, Detaching, CloseStates, fetVars, hist, who
<1>6. Opened'
  BY <1>1 DEF IInv, TypeOK, Places, Created, Lasting, Opened, Marked, Joined, Pointer,
     Counts, Closer, Detaching, CloseStates, fetVars, hist, who
<1>7. Marked'
  BY <1>1 DEF IInv, TypeOK, Places, Created, Lasting, Opened, Marked, Joined, Pointer,
     Counts, Closer, Detaching, CloseStates, fetVars, hist, who
<1>8. Joined' /\ Pointer' /\ Counts'
  BY <1>1 DEF IInv, Places, Joined, Pointer, Counts, fetVars, hist, who
<1> QED
  BY <1>2, <1>3, <1>4, <1>5, <1>6, <1>7, <1>8 DEF IInv

\* The main thread lets go of the pointer.
LEMMA UpdateKeeps == ASSUME IInv, Update PROVE IInv'
<1> USE DEF Update
<1>1. /\ pc["main"] = "update" /\ pc'["main"] = "idle"
      /\ pc'["creator"] = pc["creator"] /\ pc'["data"] = pc["data"] /\ pc'["send"] = pc["send"]
      /\ UNCHANGED <<fetVars, resume, hist>>
  BY DEF Step, Go, Threads, IInv, TypeOK
<1>2. TypeOK'
  <2>1. pc' \in [Threads -> Locations]
    BY DEF Step, Go, IInv, TypeOK, Locations, CloseStates
  <2> QED
    BY <1>1, <2>1, MoveType DEF IInv
<1>3. Places'
  BY <1>1 DEF IInv, Places, hist, who
<1>4. Created'
  BY <1>1 DEF IInv, Created, fetVars
<1>5. Lasting'
  BY <1>1 DEF IInv, Lasting, Closer, fetVars, hist, who
<1>6. Opened'
  BY <1>1 DEF IInv, Opened, Closer, Detaching, fetVars, hist, who
<1>7. Marked'
  BY <1>1 DEF IInv, Marked, Closer, Detaching, fetVars, hist, who
<1>8. Joined' /\ Pointer' /\ Counts'
  BY <1>1 DEF IInv, Joined, Pointer, Counts, fetVars, hist
<1> QED
  BY <1>2, <1>3, <1>4, <1>5, <1>6, <1>7, <1>8 DEF IInv

\* The network: nothing of the FET changes, and no thread moves.
LEMMA NetKeeps == ASSUME EarlyEnd = FALSE, IInv, Connect \/ Fail \/ PeerFin PROVE IInv'
<1>1. /\ UNCHANGED <<pc, fetVars, resume, opened, closed, sends, who>>
      /\ net' \in {"up", "reset", "fin"}
      /\ net' # "up" => pc["creator"] = "done" /\ pc["data"] \notin {"none", "poll"}
  BY DEF Connect, Fail, PeerFin, MayEnd
<1>2. TypeOK'
  BY <1>1 DEF IInv, TypeOK, fetVars, who
<1>3. Places' /\ Created' /\ Joined' /\ Pointer' /\ Counts'
  BY <1>1 DEF IInv, Places, Created, Joined, Pointer, Counts, Detaching, CloseStates, fetVars,
     who
<1>4. Lasting'
  BY <1>1 DEF IInv, Lasting, Closer, fetVars, who
<1>5. Opened' /\ Marked'
  BY <1>1 DEF IInv, Opened, Marked, Closer, fetVars, who
<1> QED
  BY <1>2, <1>3, <1>4, <1>5 DEF IInv

\* Before dtNewFet.
LEMMA InitIInv == Init => IInv
<1> SUFFICES ASSUME Init PROVE IInv
  OBVIOUS
<1>1. /\ pc["creator"] = "new" /\ pc["main"] = "idle" /\ pc["data"] = "none"
      /\ pc["send"] = "none"
  BY DEF Init, Threads
<1>2. TypeOK
  <2>1. who \in Uses
    BY FetLifeAssumption DEF Init, who
  <2>2. pc \in [Threads -> Locations]
    BY DEF Init, Threads, Locations
  <2>3. /\ closing \in 0 .. 2 /\ ssem \in Nat /\ rsem \in 0 .. 1
        /\ unsent \in 0 .. MaxSends /\ sends \in 0 .. MaxSends
        /\ opened \in 0 .. 1 /\ closed \in 0 .. 1
    BY FetLifeAssumption DEF Init
  <2> QED
    BY <2>1, <2>2, <2>3 DEF Init, TypeOK
<1>3. Places /\ Created /\ Lasting
  BY <1>1 DEF Init, Places, Created, Lasting, Closer
<1>4. Opened /\ Marked
  BY <1>1 DEF Init, Opened, Marked, Closer, Detaching
<1>5. Joined /\ Pointer /\ Counts
  BY <1>1 DEF Init, Joined, Pointer, Counts
<1> QED
  BY <1>2, <1>3, <1>4, <1>5 DEF IInv

\* dtClose is called by one thread only: the main thread, or the data thread.
LEMMA OneCloser ==
    ASSUME IInv, NEW t \in Threads, pc[t] \in CloseStates, t \in {"main", "data"}
    PROVE  t = Closer
BY DEF IInv, Places, Closer, CloseStates, Detaching

\* A step of dtClose.
LEMMA CloseKeeps == ASSUME IInv, NEW t \in {"main", "data"}, dtClose(t) PROVE IInv'
<1>1. t \in Threads /\ pc[t] \in CloseStates
  BY DEF dtClose, CloseTest, CloseMark, CloseDetach, CloseSocket, CloseSsem, CloseRsem, Step,
     Threads, CloseStates
<1>2. t = Closer
  BY <1>1, OneCloser
<1> QED
  BY <1>1, <1>2, CloseTestKeeps, CloseMarkKeeps, CloseDetachKeeps, CloseSocketKeeps,
     CloseSsemKeeps, CloseRsemKeeps DEF dtClose

\* The invariant holds of every FET, as long as its connection lasts until the
\* creator and poll () are done with it.
THEOREM Invariance == ASSUME EarlyEnd = FALSE PROVE Spec => []IInv
<1>1. ASSUME IInv, [Next]_vars PROVE IInv'
  <2>1. CASE Creator
    BY <1>1, <2>1, NewFetKeeps, CreatorKeeps, StoreIdKeeps DEF Creator
  <2>2. CASE MainSteps \/ ExtLook
    BY <1>1, <2>2, GrabKeeps, PollLookKeeps, CallbackLookKeeps, ExtLookKeeps, UseKeeps,
       MainAfterCloseKeeps, UpdateKeeps, CloseKeeps DEF MainSteps
  <2>3. CASE DataThread \/ RecvData
    BY <1>1, <2>3, PollReadyKeeps, DataTopKeeps, RecvDataKeeps, RecvEndKeeps,
       DataCallbackKeeps, DataAfterCloseKeeps, JoinKeeps, FreeKeeps, CloseKeeps
       DEF DataThread
  <2>4. CASE SendThread
    BY <1>1, <2>4, SendTopKeeps, SendEmptyKeeps, SendShutdownKeeps, SendWaitKeeps,
       SendBytesKeeps, SendFailsKeeps DEF SendThread
  <2>5. CASE Connect \/ Fail \/ PeerFin
    BY <1>1, <2>5, NetKeeps
  <2>6. CASE UNCHANGED vars
    <3>1. UNCHANGED <<pc, fetVars, resume, hist>>
      BY <2>6 DEF vars
    <3>2. TypeOK'
      BY <1>1, <3>1, MoveType DEF IInv, TypeOK
    <3> QED
      BY <1>1, <3>1, <3>2 DEF IInv, Places, Created, Lasting, Opened, Marked, Joined, Pointer,
         Counts, Closer, Detaching, CloseStates, fetVars, hist, who
  <2> QED
    BY <1>1, <2>1, <2>2, <2>3, <2>4, <2>5, <2>6 DEF Next
<1> QED
  BY <1>1, InitIInv, PTL DEF Spec

\* dtDataThread frees the FET only when its own two threads, and a main thread that
\* polls and closes, are done with it; and its descriptor is closed by then.
THEOREM FetCorrect == ASSUME EarlyEnd = FALSE PROVE Spec => []FetSafe
<1>1. IInv => FetSafe
  <2> SUFFICES ASSUME IInv PROVE FetSafe
    OBVIOUS
  <2>1. mem = "freed" => pc["data"] = "exit" /\ pc["send"] = "exit" /\ closing # 0
    BY DEF IInv, Created, Joined, Opened
  <2>2. ThreadsSafe
    BY <2>1 DEF ThreadsSafe, Safe, Derefs, CloseStates
  <2>3. MainSafe
    BY <2>1 DEF IInv, Places, Pointer, Marked, MainSafe, Safe, Derefs, Closer, Detaching,
       CloseStates
  <2>4. FreedIsClosed
    BY <2>1 DEF IInv, Marked, FreedIsClosed, Detaching
  <2> QED
    BY <2>2, <2>3, <2>4 DEF IInv, FetSafe
<1> QED
  BY <1>1, Invariance, PTL

-----------------------------------------------------------------------------
(***************************************************************************)
(* The slots of a portset.                                                 *)
(***************************************************************************)
\* The FET dtNewFet is making is not known to anyone else yet.
Making == npc # "idle" => new \in Fets /\ fpc[new] = "free"

\* The slot that was found stays empty until it is filled: only dtNewFet fills slots.
SlotFound == npc = "store" => psi \in Slots /\ portVec[psi] = None

\* Listen FETs have no data thread.
Unthreaded == \A f \in Fets : fpc[f] = "opening" => ~listen[f]

\* A port is up to its owner exactly while its connection is between the two callbacks.
Between == {"open", "dec", "decStore", "callback"}
UpIsOpen ==
    \A s \in Slots : up[s] <=> /\ portVec[s] # None
                               /\ ~listen[portVec[s]] /\ fpc[portVec[s]] \in Between

\* The inductive invariant.
SlotsInv == /\ PortSetTypes /\ SlotsAgree /\ Making /\ SlotFound /\ Unthreaded /\ UpIsOpen
        /\ CallbacksAlternate

-----------------------------------------------------------------------------
\* It holds for an empty portset.
LEMMA InitSlotsInv == PortSetInit => SlotsInv
<1> SUFFICES ASSUME PortSetInit PROVE SlotsInv
  OBVIOUS
<1>0. 0 \in Slots /\ 0 \in 0 .. MaxPorts
  BY PortSetAssumption DEF Slots
<1>1. PortSetTypes
  <2>1. /\ server \in Servers /\ portVec \in [Slots -> Fets \cup {None}]
        /\ fpc \in [Fets -> {"free", "opening", "open"} \cup InClose]
        /\ listen \in [Fets -> BOOLEAN]
        /\ up \in [Slots -> BOOLEAN] /\ miss \in BOOLEAN
    BY DEF PortSetInit
  <2>2. npc \in {"idle", "search", "store", "inc", "incStore", "start"}
    BY DEF PortSetInit
  <2>3. /\ curPorts \in Int /\ new \in Fets \cup {None} /\ psi \in 0 .. MaxPorts
        /\ nread \in Int /\ psIndex \in [Fets -> Slots] /\ cread \in [Fets -> Int]
    BY <1>0 DEF PortSetInit
  <2> QED
    BY <2>1, <2>2, <2>3 DEF PortSetTypes
<1>2. SlotsAgree
  BY DEF PortSetInit, SlotsAgree, Held
<1>3. Making /\ SlotFound /\ Unthreaded /\ UpIsOpen /\ CallbacksAlternate
  BY DEF PortSetInit, Making, SlotFound, Unthreaded, UpIsOpen, CallbacksAlternate
<1> QED
  BY <1>1, <1>2, <1>3 DEF SlotsInv

(***************************************************************************)
(* dtNewFet.                                                               *)
(***************************************************************************)
\* The steps before the slot is filled.
LEMMA EnterKeeps == ASSUME SlotsInv, Enter PROVE SlotsInv'
<1> USE DEF Enter, SlotsInv, slotVars, seen
<1>1. npc = "idle" /\ npc' = "search" /\ new' \in Fets /\ fpc[new'] = "free"
  OBVIOUS
<1>2. PortSetTypes'
  BY PortSetAssumption DEF PortSetTypes
<1>3. SlotsAgree'
  BY <1>1 DEF SlotsAgree, Held
<1>4. Making' /\ SlotFound' /\ Unthreaded' /\ UpIsOpen' /\ CallbacksAlternate'
  BY <1>1 DEF Making, SlotFound, Unthreaded, UpIsOpen, CallbacksAlternate
<1> QED
  BY <1>2, <1>3, <1>4

LEMMA SearchKeeps == ASSUME SlotsInv, Search PROVE SlotsInv'
<1> USE DEF Search, SlotsInv, slotVars, seen
<1>1. npc = "search" /\ npc' \in {"idle", "search", "store"}
  OBVIOUS
<1>2. PortSetTypes' /\ SlotFound'
  BY PortSetAssumption DEF PortSetTypes, SlotFound, Slots
<1>3. SlotsAgree'
  BY <1>1 DEF SlotsAgree, Held
<1>4. Making' /\ Unthreaded' /\ UpIsOpen' /\ CallbacksAlternate'
  BY <1>1 DEF Making, Unthreaded, UpIsOpen, CallbacksAlternate
<1> QED
  BY <1>2, <1>3, <1>4

\* The slot is filled: from here on the FET holds it.
LEMMA StoreKeeps == ASSUME SlotsInv, Store PROVE SlotsInv'
<1> USE DEF Store, seen
<1>1. npc = "store" /\ new \in Fets /\ fpc[new] = "free" /\ psi \in Slots
      /\ portVec[psi] = None
  BY DEF SlotsInv, Making, SlotFound
<1>2. /\ npc' \in {"start", "inc"}
      /\ portVec' = [portVec EXCEPT ![psi] = new]
      /\ psIndex' = [psIndex EXCEPT ![new] = psi]
      /\ \E l \in BOOLEAN : listen' = [listen EXCEPT ![new] = l]
  OBVIOUS
<1>3. new \notin Held /\ Held' = Held \cup {new}
  BY <1>1, <1>2 DEF Held
<1>4. PortSetTypes'
  BY <1>1, <1>2 DEF SlotsInv, PortSetTypes
<1>5. SlotsAgree'
  <2>1. \A f \in Held : f \in Fets /\ f # new /\ psIndex[f] \in Slots /\ psIndex[f] # psi
    BY <1>1, <1>3, PortSetAssumption DEF SlotsInv, PortSetTypes, SlotsAgree, Held
  <2>2. \A f \in Held' : portVec'[psIndex'[f]] = f
    BY <1>1, <1>2, <1>3, <2>1 DEF SlotsInv, PortSetTypes, SlotsAgree
  <2>3. \A s \in Slots : portVec'[s] # None =>
            portVec'[s] \in Held' /\ psIndex'[portVec'[s]] = s
    BY <1>1, <1>2, <1>3, <2>1 DEF SlotsInv, PortSetTypes, SlotsAgree
  <2> QED
    BY <2>2, <2>3 DEF SlotsAgree
<1>6. Making' /\ SlotFound' /\ Unthreaded' /\ CallbacksAlternate'
  BY <1>1, <1>2 DEF SlotsInv, PortSetTypes, Making, SlotFound, Unthreaded, CallbacksAlternate
<1>7. UpIsOpen'
  <2>1. \A s \in Slots : portVec[s] # new
    BY <1>1, <1>3, PortSetAssumption DEF SlotsInv, SlotsAgree
  <2>2. \A s \in Slots : s # psi => portVec'[s] = portVec[s]
    BY <1>2 DEF SlotsInv, PortSetTypes
  <2>3. portVec'[psi] = new /\ fpc'[new] = "free"
    BY <1>1, <1>2 DEF SlotsInv, PortSetTypes
  <2>4. \A s \in Slots : listen'[portVec[s]] = listen[portVec[s]] \/ portVec[s] = None
    BY <1>1, <1>2, <2>1 DEF SlotsInv, PortSetTypes
  <2> QED
    BY <1>1, <2>2, <2>3, <2>4 DEF SlotsInv, UpIsOpen, Between
<1> QED
  BY <1>4, <1>5, <1>6, <1>7 DEF SlotsInv

\* curPorts++ touches no slot.
LEMMA IncKeeps == ASSUME SlotsInv, Inc \/ IncStore PROVE SlotsInv'
<1> USE DEF Inc, IncStore, SlotsInv, slotVars, seen
<1>1. npc \in {"inc", "incStore"} /\ npc' \in {"incStore", "start"}
  OBVIOUS
<1>2. PortSetTypes'
  BY DEF PortSetTypes
<1>3. SlotsAgree'
  BY <1>1 DEF SlotsAgree, Held
<1>4. Making' /\ SlotFound' /\ Unthreaded' /\ UpIsOpen' /\ CallbacksAlternate'
  BY <1>1 DEF Making, SlotFound, Unthreaded, UpIsOpen, CallbacksAlternate
<1> QED
  BY <1>2, <1>3, <1>4

\* The FET is handed over to its data thread, or listens.
LEMMA StartKeeps == ASSUME SlotsInv, Start PROVE SlotsInv'
<1> USE DEF Start, SlotsInv, seen
<1>1. npc = "start" /\ npc' = "idle" /\ new \in Fets /\ fpc[new] = "free"
  BY DEF Making
<1>2. /\ fpc' = [fpc EXCEPT ![new] = IF listen[new] THEN "open" ELSE "opening"]
      /\ fpc'[new] \in {"open", "opening"}
      /\ \A f \in Fets : f # new => fpc'[f] = fpc[f]
  BY <1>1 DEF PortSetTypes
<1>3. Held' = Held
  BY <1>1, <1>2 DEF Held
<1>4. PortSetTypes'
  BY <1>1, <1>2 DEF PortSetTypes
<1>5. SlotsAgree'
  BY <1>3 DEF SlotsAgree
<1>6. Making' /\ SlotFound' /\ Unthreaded' /\ CallbacksAlternate'
  BY <1>1, <1>2 DEF PortSetTypes, Making, SlotFound, Unthreaded, CallbacksAlternate
<1>7. fpc'[new] = "open" => listen[new]
  BY <1>1, <1>2 DEF PortSetTypes
<1>8. UpIsOpen'
  BY <1>1, <1>2, <1>7 DEF PortSetTypes, UpIsOpen, Between
<1> QED
  BY <1>4, <1>5, <1>6, <1>8

(***************************************************************************)
(* The steps of a FET that has its slot.                                   *)
(***************************************************************************)
\* The callback for the new connection is the first since the last close.
LEMMA ActivateKeeps == ASSUME SlotsInv, NEW f \in Fets, Activate(f) PROVE SlotsInv'
<1> USE DEF Activate, SlotsInv, newVars
<1>1. /\ fpc[f] = "opening" /\ fpc'[f] = "open" /\ f \in Held /\ ~listen[f]
      /\ \A g \in Fets : g # f => fpc'[g] = fpc[g]
  BY DEF PortSetTypes, Held, Unthreaded
<1>2. psIndex[f] \in Slots /\ portVec[psIndex[f]] = f /\ f # None
  BY <1>1, PortSetAssumption DEF PortSetTypes, SlotsAgree
<1>3. ~up[psIndex[f]]
  BY <1>1, <1>2 DEF UpIsOpen, Between
<1>4. Held' = Held
  BY <1>1 DEF Held
<1>5. PortSetTypes'
  BY <1>2 DEF PortSetTypes
<1>6. SlotsAgree'
  BY <1>4 DEF SlotsAgree
<1>7. Making' /\ SlotFound' /\ Unthreaded' /\ CallbacksAlternate'
  BY <1>1, <1>3 DEF Making, SlotFound, Unthreaded, CallbacksAlternate
<1>8. UpIsOpen'
  <2>1. \A s \in Slots : s # psIndex[f] => portVec[s] # f /\ up'[s] = up[s]
    BY <1>2 DEF PortSetTypes, SlotsAgree
  <2>2. up'[psIndex[f]]
    BY <1>2 DEF PortSetTypes
  <2>3. \A s \in Slots : portVec[s] \in Fets \cup {None}
    BY DEF PortSetTypes
  <2> QED
    BY <1>1, <1>2, <2>1, <2>2, <2>3 DEF UpIsOpen, Between
<1> QED
  BY <1>5, <1>6, <1>7, <1>8

\* dtClose before its callback: the connection is still up to its owner.
LEMMA ClosingKeeps ==
    ASSUME SlotsInv, NEW f \in Fets, Close(f) \/ Dec(f) \/ DecStore(f)
    PROVE  SlotsInv'
<1> USE DEF Close, Dec, DecStore, SlotsInv, newVars, seen
<1>1. /\ fpc[f] \in Between /\ fpc'[f] \in Between
      /\ \A g \in Fets : g # f => fpc'[g] = fpc[g]
  BY DEF PortSetTypes, Between
<1>2. Held' = Held
  BY <1>1 DEF Held, Between
<1>3. PortSetTypes'
  BY DEF PortSetTypes, InClose
<1>4. SlotsAgree'
  BY <1>2 DEF SlotsAgree
<1>5. Making' /\ SlotFound' /\ Unthreaded' /\ CallbacksAlternate'
  BY <1>1 DEF Making, SlotFound, Unthreaded, CallbacksAlternate, Between
<1>6. UpIsOpen'
  BY <1>1 DEF PortSetTypes, UpIsOpen
<1> QED
  BY <1>3, <1>4, <1>5, <1>6

\* The callback for the close finds the port up.
LEMMA CallbackKeeps == ASSUME SlotsInv, NEW f \in Fets, Callback(f) PROVE SlotsInv'
<1> USE DEF Callback, SlotsInv, newVars
<1>1. /\ fpc[f] = "callback" /\ fpc'[f] = "clear" /\ f \in Held
      /\ \A g \in Fets : g # f => fpc'[g] = fpc[g]
  BY DEF PortSetTypes, Held
<1>2. psIndex[f] \in Slots /\ portVec[psIndex[f]] = f /\ f # None
  BY <1>1, PortSetAssumption DEF PortSetTypes, SlotsAgree
<1>3. up[psIndex[f]] <=> ~listen[f]
  BY <1>1, <1>2 DEF UpIsOpen, Between
<1>4. Held' = Held
  BY <1>1 DEF Held
<1>5. PortSetTypes'
  BY <1>2 DEF PortSetTypes, InClose
<1>6. SlotsAgree'
  BY <1>4 DEF SlotsAgree
<1>7. Making' /\ SlotFound' /\ Unthreaded' /\ CallbacksAlternate'
  BY <1>1, <1>3 DEF Making, SlotFound, Unthreaded, CallbacksAlternate
<1>8. UpIsOpen'
  <2>1. \A s \in Slots : s # psIndex[f] => portVec[s] # f /\ up'[s] = up[s]
    BY <1>2 DEF PortSetTypes, SlotsAgree
  <2>2. ~up'[psIndex[f]]
    BY <1>2 DEF PortSetTypes
  <2>3. \A s \in Slots : portVec[s] \in Fets \cup {None}
    BY DEF PortSetTypes
  <2> QED
    BY <1>1, <1>2, <2>1, <2>2, <2>3 DEF UpIsOpen, Between
<1> QED
  BY <1>5, <1>6, <1>7, <1>8

\* The slot is cleared while nobody else holds it.
LEMMA ClearKeeps == ASSUME SlotsInv, NEW f \in Fets, Clear(f) PROVE SlotsInv'
<1> USE DEF Clear, SlotsInv, newVars, seen
<1>1. /\ fpc[f] = "clear" /\ fpc'[f] = "free"
      /\ \A g \in Fets : g # f => fpc'[g] = fpc[g]
  BY DEF PortSetTypes
<1>2. psIndex[f] \in Slots /\ portVec[psIndex[f]] = f /\ f # None
  BY <1>1, PortSetAssumption DEF PortSetTypes, SlotsAgree, Held
<1>3. Held' = Held \ {f}
  BY <1>1 DEF Held, Making
<1>4. PortSetTypes'
  BY <1>2 DEF PortSetTypes
<1>5. \A s \in Slots : /\ s # psIndex[f] => portVec'[s] = portVec[s] /\ portVec[s] # f
                       /\ s = psIndex[f] => portVec'[s] = None
  BY <1>2 DEF PortSetTypes, SlotsAgree
<1>6. SlotsAgree'
  <2>1. \A g \in Held : psIndex[g] \in Slots
    BY DEF PortSetTypes, Held, Making
  <2> QED
    BY <1>2, <1>3, <1>5, <2>1 DEF SlotsAgree
<1>7. Making' /\ SlotFound' /\ Unthreaded' /\ CallbacksAlternate'
  BY <1>1, <1>5 DEF Making, SlotFound, Unthreaded, CallbacksAlternate
<1>8. UpIsOpen'
  <2>1. ~up[psIndex[f]]
    BY <1>1, <1>2 DEF UpIsOpen, Between
  <2>2. \A s \in Slots : portVec[s] \in Fets \cup {None}
    BY DEF PortSetTypes
  <2> QED
    BY <1>1, <1>5, <2>1, <2>2 DEF UpIsOpen
<1> QED
  BY <1>4, <1>6, <1>7, <1>8

-----------------------------------------------------------------------------
(***************************************************************************)
(* The theorems.                                                           *)
(***************************************************************************)
\* The invariant holds in every state of a portset.
THEOREM SlotsInvariance == PortSetSpec => []SlotsInv
<1>1. SlotsInv /\ [PortSetNext]_portSetVars => SlotsInv'
  <2> SUFFICES ASSUME SlotsInv, [PortSetNext]_portSetVars PROVE SlotsInv'
    OBVIOUS
  <2>1. CASE dtNewFet
    BY <2>1, EnterKeeps, SearchKeeps, StoreKeeps, IncKeeps, StartKeeps DEF dtNewFet
  <2>2. ASSUME NEW f \in Fets, Activate(f) \/ dtCloseSlot(f) PROVE SlotsInv'
    BY <2>2, ActivateKeeps, ClosingKeeps, CallbackKeeps, ClearKeeps DEF dtCloseSlot
  <2>3. CASE UNCHANGED portSetVars
    BY <2>3 DEF portSetVars, newVars, slotVars, seen, SlotsInv, PortSetTypes, SlotsAgree, Held, Making,
       SlotFound, Unthreaded, UpIsOpen, CallbacksAlternate
  <2> QED
    BY <2>1, <2>2, <2>3 DEF PortSetNext
<1> QED
  BY <1>1, InitSlotsInv, PTL DEF PortSetSpec

\* SlotsSafe, for portsets of every size and any number of connections: although slots
\* are filled on one thread and cleared on another without a lock, none is given away
\* twice or stays taken for nobody, and open and close callbacks alternate on each port.
THEOREM SlotsCorrect == PortSetSpec => []SlotsSafe
<1>1. SlotsInv => SlotsSafe
  BY DEF SlotsInv, SlotsSafe
<1> QED
  BY <1>1, SlotsInvariance, PTL

-----------------------------------------------------------------------------
(***************************************************************************)
(* The PNI terminal interface.                                             *)
(***************************************************************************)
\* What each variable holds.
Flags == {"XOFF", "TCP", "DOPTS", "DOABT"}
Links == {"free", "welcome", "test", "activate", "up", "gone", "closing"}
RawBytes == [byte : Codes \cup {"xon", "xoff"}, n : Nat]
PniKeys == [class : KeyKinds \cup {"offky2", "type"}, user : 0 .. setting.users, n : Nat]
PortParams == [escState : EscStates, flowFlags : SUBSET Flags, newKbd : BOOLEAN,
               forceLogout : BOOLEAN]
StorePlaces == {"slot", "pointer", "bit", "write"}
Stores == [at : StorePlaces \cup {"idle", "flow", "force", "index"}, stat : Stations, key : PniKeys,
           idx : 0 .. IDXLIM - 1, old : SUBSET (Flags \cup Stations)]
Keybufs == [buf : [0 .. IDXLIM - 1 -> PniKeys], ppidx : 0 .. IDXLIM - 1, cpidx : 0 .. IDXLIM - 1]
PniMessages == [op : Requests \cup {"data"}, stat : Stations, size : Nat]
PniRequests == [req : {"abt", "pts"}, stat : Stations]

PortsFit == pp \in [Stations -> PortParams]
LinesFit ==
    /\ setting \in Settings /\ users \in 0 .. setting.users /\ user \in [Stations -> 0 .. users]
    /\ link \in [Stations -> Links] /\ bytes \in [Stations -> Seq(RawBytes)]
    /\ typed \in [Stations -> Seq(PniKeys)] /\ decoded \in [Stations -> Seq(PniKeys)]
    /\ stopped \subseteq Stations
SentFits == sent \in [Stations -> 0 .. SendRingSize - 1]
StoreFits ==
    /\ store \in [PniThreads -> Stores]
    /\ \A p \in Stations : store[p].at \in StorePlaces \cup {"force", "index"} => store[p].stat = p
    /\ \A t \in PniThreads : /\ store[t].at = "flow" => store[t].old \subseteq Flags
                             /\ store[t].at = "write" => store[t].old \subseteq Stations
    /\ mainAt # "store" => store[main].at = "idle"
KeysFit == kb \in [Stations -> Keybufs] /\ abt \subseteq Stations
CyberFits ==
    /\ pniActive \in BOOLEAN /\ taking \subseteq Stations
    /\ session \in [Stations -> 0 .. setting.users]
    /\ await \in [Stations -> {"nothing", "pts", "abt"}]
RingsFit == /\ fpnib \in Seq(PniMessages) /\ apnifb \in Seq(PniRequests) /\ Len(apnifb) < pniflen
            /\ mainAt \in {"store", "data"} => fpnib # <<>>
MainFits == mainAt \in {"cpu", "store", "data", "messages", "ports"} /\ port \in Stations

PniFits == /\ PortsFit /\ LinesFit /\ SentFits /\ StoreFits /\ KeysFit /\ CyberFits /\ RingsFit
           /\ MainFits

-----------------------------------------------------------------------------
\* The sizes are numbers, and station 0 exists.
LEMMA PniSizes ==
    /\ pniStations \in Nat /\ pniStations > 0 /\ 0 \in Stations /\ Stations \subseteq Nat
    /\ IDXLIM \in Nat /\ IDXLIM > 1 /\ pniflen \in Nat /\ pniflen > 1
    /\ SendRingSize \in Nat /\ SendRingSize > 1
    /\ main \notin Stations /\ main \in PniThreads /\ Stations \subseteq PniThreads
BY PniAssumption DEF Stations, PniThreads, main

\* The keys that the PNI makes itself.
LEMMA OwnKeys == ASSUME LinesFit PROVE OFFKY2 \in PniKeys /\ TermType \in PniKeys
<1>1. setting.users \in Nat
  BY PniAssumption DEF LinesFit
<1> QED
  BY <1>1 DEF PniKeys, OFFKY2, TermType

\* The next cell of a key buffer.
LEMMA SuccFits == ASSUME NEW i \in 0 .. IDXLIM - 1 PROVE Succ(i) \in 0 .. IDXLIM - 1
BY PniSizes DEF Succ

\* No store is in progress, and one begins.
LEMMA NoStoreFits == ASSUME LinesFit PROVE NoStore \in Stores /\ NoStore.at = "idle"
BY OwnKeys, PniSizes DEF NoStore, Stores

LEMMA BeginFits ==
    ASSUME StoreFits, NEW t \in PniThreads, NEW k \in StorePlaces \cup {"idle", "flow", "force", "index"},
           NEW p \in Stations, NEW key \in PniKeys, Begin(t, k, p, key)
    PROVE  /\ store' \in [PniThreads -> Stores]
           /\ store'[t].at = k /\ store'[t].stat = p /\ store'[t].key = key
           /\ store'[t].old = store[t].old
           /\ \A u \in PniThreads \ {t} : store'[u] = store[u]
<1>1. store \in [PniThreads -> Stores] /\ store' = [store EXCEPT ![t] = [@ EXCEPT !.at = k, !.stat = p, !.key = key]]
  BY DEF StoreFits, Begin
<1>2. store[t] \in Stores
  BY <1>1
<1>3. [store[t] EXCEPT !.at = k, !.stat = p, !.key = key] \in Stores
  BY <1>2 DEF Stores
<1>4. store' = [store EXCEPT ![t] = [store[t] EXCEPT !.at = k, !.stat = p, !.key = key]]
  BY <1>1
<1>5. store'[t] = [store[t] EXCEPT !.at = k, !.stat = p, !.key = key]
  BY <1>1, <1>4
<1>6. store' \in [PniThreads -> Stores]
  BY <1>1, <1>3, <1>4
<1> QED
  BY <1>1, <1>2, <1>4, <1>5, <1>6 DEF Stores

LEMMA FinishFits ==
    ASSUME LinesFit, StoreFits, NEW t \in PniThreads, Finish(t)
    PROVE  /\ store' \in [PniThreads -> Stores] /\ store'[t] = NoStore /\ store'[t].at = "idle"
           /\ \A u \in PniThreads \ {t} : store'[u] = store[u]
<1>1. store \in [PniThreads -> Stores] /\ store' = [store EXCEPT ![t] = NoStore]
  BY DEF StoreFits, Finish
<1> QED
  BY <1>1, NoStoreFits

\* One thread's store changes so that it fits.
LEMMA StoreChanges ==
    ASSUME StoreFits, NEW t \in PniThreads, UNCHANGED mainAt, UNCHANGED setting, t = main => mainAt = "store",
           store' \in [PniThreads -> Stores], \A u \in PniThreads \ {t} : store'[u] = store[u],
           t \in Stations /\ store'[t].at \in StorePlaces \cup {"force", "index"} => store'[t].stat = t,
           store'[t].at = "flow" => store'[t].old \subseteq Flags,
           store'[t].at = "write" => store'[t].old \subseteq Stations
    PROVE  StoreFits'
<1>1. \A p \in Stations : store'[p].at \in StorePlaces \cup {"force", "index"} => store'[p].stat = p
  BY PniSizes DEF StoreFits
<1>2. \A u \in PniThreads : /\ store'[u].at = "flow" => store'[u].old \subseteq Flags
                            /\ store'[u].at = "write" => store'[u].old \subseteq Stations
  BY DEF StoreFits
<1>3. mainAt' # "store" => store'[main].at = "idle"
  BY PniSizes DEF StoreFits
<1>4. Stores' = Stores
  BY DEF Stores, PniKeys
<1> QED
  BY <1>1, <1>2, <1>3, <1>4 DEF StoreFits

\* storeKey.
LEMMA StoreKeyFits == ASSUME PniFits, NEW t \in PniThreads, storeKey(t) PROVE PniFits'
<1>1. /\ UNCHANGED <<pniActive, pp, link, termVars, cyberVars, apnifb, mainVars, sent, decoded,
                     userVars, loads>>
  BY DEF storeKey
<1>2. PortsFit' /\ LinesFit' /\ SentFits' /\ CyberFits' /\ RingsFit' /\ MainFits' /\ PniKeys' = PniKeys
  BY <1>1 DEF PniFits, PortsFit, LinesFit, SentFits, CyberFits, RingsFit, MainFits, PniKeys,
     termVars, cyberVars, mainVars, userVars
<1>3. /\ store[t] \in Stores /\ store \in [PniThreads -> Stores] /\ kb \in [Stations -> Keybufs]
      /\ abt \subseteq Stations /\ store[t].stat \in Stations /\ UNCHANGED mainAt /\ UNCHANGED setting
  BY <1>1 DEF PniFits, StoreFits, KeysFit, Stores, mainVars, userVars
<1>4. t = main /\ store[t].at # "idle" => mainAt = "store"
  BY DEF PniFits, StoreFits
<1>5. t \in Stations /\ store[t].at \in StorePlaces \cup {"force", "index"} => store[t].stat = t
  BY DEF PniFits, StoreFits
<1>6. ASSUME Finish(t), store[t].at # "idle" PROVE StoreFits'
  BY <1>6, <1>3, <1>4, FinishFits, StoreChanges DEF PniFits, StorePlaces
<1>7. CASE StoreIndex(t)
  <2>1. UNCHANGED <<kb, abt>> /\ store[t].at = "index"
    BY <1>7 DEF StoreIndex
  <2>2. KeysFit'
    BY <2>1, <1>2, <1>3 DEF KeysFit, Keybufs
  <2>3. CASE Finish(t)
    BY <2>1, <2>2, <2>3, <1>2, <1>6 DEF PniFits
  <2>4. CASE ~Finish(t)
    <3>1. PICK i \in 0 .. IDXLIM - 1 : store' = [store EXCEPT ![t].at = "slot", ![t].idx = i]
      <4>1. kb[store[t].stat] \in Keybufs
        BY <1>3
      <4>2. kb[store[t].stat].ppidx \in 0 .. IDXLIM - 1
        BY <4>1 DEF Keybufs
      <4>3. Succ(kb[store[t].stat].ppidx) \in 0 .. IDXLIM - 1
        BY <4>2, SuccFits
      <4> QED
        BY <1>7, <2>4, <4>2, <4>3 DEF StoreIndex
    <3>2. store'[t] = [store[t] EXCEPT !.at = "slot", !.idx = i] /\ \A u \in PniThreads \ {t} : store'[u] = store[u]
      BY <3>1, <1>3
    <3>3. store'[t] \in Stores /\ store'[t].at = "slot" /\ store'[t].stat = store[t].stat
      BY <3>2, <1>3 DEF Stores, StorePlaces
    <3>4. store' \in [PniThreads -> Stores]
      BY <3>1, <3>2, <3>3, <1>3
    <3>5. StoreFits'
      BY <3>2, <3>3, <3>4, <1>3, <1>4, <1>5, <2>1, StoreChanges DEF PniFits, StorePlaces
    <3> QED
      BY <3>5, <2>2, <1>2 DEF PniFits
  <2> QED
    BY <2>3, <2>4
<1>8. CASE StoreSlot(t)
  <2>1. /\ store[t].at = "slot" /\ kb' = [kb EXCEPT ![store[t].stat].buf[store[t].idx] = store[t].key]
        /\ store' = [store EXCEPT ![t].at = "pointer"] /\ UNCHANGED abt
    BY <1>8 DEF StoreSlot
  <2>2. store'[t] = [store[t] EXCEPT !.at = "pointer"] /\ \A u \in PniThreads \ {t} : store'[u] = store[u]
    BY <2>1, <1>3
  <2>3. store'[t] \in Stores /\ store'[t].at = "pointer" /\ store'[t].stat = store[t].stat
    BY <2>2, <1>3 DEF Stores, StorePlaces
  <2>4. store' \in [PniThreads -> Stores]
    BY <2>1, <2>2, <2>3, <1>3
  <2>5. StoreFits'
    BY <2>1, <2>2, <2>3, <2>4, <1>3, <1>4, <1>5, StoreChanges DEF PniFits, StorePlaces
  <2>6. KeysFit'
    <3>1. kb[store[t].stat] \in Keybufs /\ store[t].key \in PniKeys /\ store[t].idx \in 0 .. IDXLIM - 1
      BY <1>3 DEF Stores
    <3>2. [kb[store[t].stat] EXCEPT !.buf[store[t].idx] = store[t].key] \in Keybufs
      BY <3>1 DEF Keybufs
    <3>3. kb' = [kb EXCEPT ![store[t].stat] = [kb[store[t].stat] EXCEPT !.buf[store[t].idx] = store[t].key]]
      BY <2>1
    <3> QED
      BY <3>2, <3>3, <2>1, <1>2, <1>3 DEF KeysFit, Keybufs
  <2> QED
    BY <2>5, <2>6, <1>2 DEF PniFits
<1>9. CASE StorePointer(t)
  <2>1. /\ store[t].at = "pointer" /\ kb' = [kb EXCEPT ![store[t].stat].ppidx = store[t].idx]
        /\ store' = [store EXCEPT ![t].at = "bit"] /\ UNCHANGED abt
    BY <1>9 DEF StorePointer
  <2>2. store'[t] = [store[t] EXCEPT !.at = "bit"] /\ \A u \in PniThreads \ {t} : store'[u] = store[u]
    BY <2>1, <1>3
  <2>3. store'[t] \in Stores /\ store'[t].at = "bit" /\ store'[t].stat = store[t].stat
    BY <2>2, <1>3 DEF Stores, StorePlaces
  <2>4. store' \in [PniThreads -> Stores]
    BY <2>1, <2>2, <2>3, <1>3
  <2>5. StoreFits'
    BY <2>1, <2>2, <2>3, <2>4, <1>3, <1>4, <1>5, StoreChanges DEF PniFits, StorePlaces
  <2>6. KeysFit'
    <3>1. kb[store[t].stat] \in Keybufs /\ store[t].idx \in 0 .. IDXLIM - 1
      BY <1>3 DEF Stores
    <3>2. [kb[store[t].stat] EXCEPT !.ppidx = store[t].idx] \in Keybufs
      BY <3>1 DEF Keybufs
    <3>3. kb' = [kb EXCEPT ![store[t].stat] = [kb[store[t].stat] EXCEPT !.ppidx = store[t].idx]]
      BY <2>1
    <3> QED
      BY <3>2, <3>3, <2>1, <1>2, <1>3 DEF KeysFit, Keybufs
  <2> QED
    BY <2>5, <2>6, <1>2 DEF PniFits
<1>10. CASE StoreBit(t)
  <2>1. store[t].at = "bit" /\ UNCHANGED kb
    BY <1>10 DEF StoreBit
  <2>2. CASE abt' = abt \cup {store[t].stat} /\ Finish(t)
    <3>1. KeysFit'
      BY <2>1, <2>2, <1>2, <1>3 DEF KeysFit, Keybufs
    <3> QED
      BY <3>1, <2>1, <2>2, <1>2, <1>6 DEF PniFits
  <2>3. CASE store' = [store EXCEPT ![t].at = "write", ![t].old = abt] /\ UNCHANGED abt
    <3>1. KeysFit'
      BY <2>1, <2>3, <1>2, <1>3 DEF KeysFit, Keybufs
    <3>2. store'[t] = [store[t] EXCEPT !.at = "write", !.old = abt] /\ \A u \in PniThreads \ {t} : store'[u] = store[u]
      BY <2>3, <1>3
    <3>3. store'[t] \in Stores /\ store'[t].at = "write" /\ store'[t].stat = store[t].stat /\ store'[t].old = abt
      BY <3>2, <1>3 DEF Stores, StorePlaces
    <3>4. store' \in [PniThreads -> Stores]
      BY <2>3, <3>2, <3>3, <1>3
    <3>5. StoreFits'
      BY <2>1, <3>2, <3>3, <3>4, <1>3, <1>4, <1>5, StoreChanges DEF PniFits, StorePlaces
    <3> QED
      BY <3>1, <3>5, <1>2 DEF PniFits
  <2> QED
    BY <1>10, <2>2, <2>3 DEF StoreBit
<1>11. CASE StoreWrite(t)
  <2>1. store[t].at = "write" /\ UNCHANGED kb /\ Finish(t) /\ abt' = store[t].old \cup {store[t].stat}
    BY <1>11 DEF StoreWrite
  <2>2. store[t].old \subseteq Stations
    BY <2>1 DEF PniFits, StoreFits
  <2>3. KeysFit'
    BY <2>1, <2>2, <1>2, <1>3 DEF KeysFit, Keybufs
  <2> QED
    BY <2>1, <2>3, <1>2, <1>6 DEF PniFits
<1> QED
  BY <1>7, <1>8, <1>9, <1>10, <1>11 DEF storeKey

-----------------------------------------------------------------------------
\* What an action leaves alone stays what it is.
LEMMA FrameFits ==
    ASSUME PniFits, UNCHANGED setting
    PROVE  /\ PniKeys' = PniKeys /\ Keybufs' = Keybufs /\ Stores' = Stores
           /\ UNCHANGED pp => PortsFit'
           /\ UNCHANGED <<users, user, link, bytes, typed, decoded, stopped>> => LinesFit'
           /\ UNCHANGED sent => SentFits'
           /\ UNCHANGED <<store, mainAt>> => StoreFits'
           /\ UNCHANGED <<kb, abt>> => KeysFit'
           /\ UNCHANGED <<pniActive, taking, session, await>> => CyberFits'
           /\ UNCHANGED <<fpnib, apnifb, mainAt>> => RingsFit'
           /\ UNCHANGED <<mainAt, port>> => MainFits'
<1>1. PniKeys' = PniKeys
  BY DEF PniKeys
<1>2. Keybufs' = Keybufs /\ Stores' = Stores
  BY <1>1 DEF Keybufs, Stores
<1>3. UNCHANGED pp => PortsFit'
  BY DEF PniFits, PortsFit
<1>4. UNCHANGED <<users, user, link, bytes, typed, decoded, stopped>> => LinesFit'
  BY <1>1 DEF PniFits, LinesFit
<1>5. UNCHANGED sent => SentFits'
  BY DEF PniFits, SentFits
<1>6. UNCHANGED <<store, mainAt>> => StoreFits'
  BY <1>2 DEF PniFits, StoreFits
<1>7. UNCHANGED <<kb, abt>> => KeysFit'
  BY <1>2 DEF PniFits, KeysFit
<1>8. UNCHANGED <<pniActive, taking, session, await>> => CyberFits'
  BY DEF PniFits, CyberFits
<1>9. UNCHANGED <<fpnib, apnifb, mainAt>> => RingsFit'
  BY DEF PniFits, RingsFit
<1>10. UNCHANGED <<mainAt, port>> => MainFits'
  BY DEF PniFits, MainFits
<1> QED
  BY <1>1, <1>2, <1>3, <1>4, <1>5, <1>6, <1>7, <1>8, <1>9, <1>10

\* The parameters of one port change.
LEMMA PortChanges ==
    ASSUME PortsFit, NEW p \in Stations, NEW e \in EscStates, NEW f \in SUBSET Flags, NEW n \in BOOLEAN,
           NEW l \in BOOLEAN, pp' = [pp EXCEPT ![p].escState = e, ![p].flowFlags = f,
                                               ![p].newKbd = n, ![p].forceLogout = l]
    PROVE  PortsFit'
<1>1. pp \in [Stations -> PortParams] /\ pp[p] \in PortParams
  BY DEF PortsFit
<1>2. [pp[p] EXCEPT !.escState = e, !.flowFlags = f, !.newKbd = n, !.forceLogout = l] \in PortParams
  BY <1>1 DEF PortParams
<1>3. pp' = [pp EXCEPT ![p] = [pp[p] EXCEPT !.escState = e, !.flowFlags = f, !.newKbd = n, !.forceLogout = l]]
  BY <1>1
<1> QED
  BY <1>1, <1>2, <1>3 DEF PortsFit

\* Its flow flags, or one of the others.
LEMMA FlagsChange ==
    ASSUME PortsFit, NEW p \in Stations, NEW f \in SUBSET Flags, pp' = [pp EXCEPT ![p].flowFlags = f]
    PROVE  PortsFit'
<1>1. pp \in [Stations -> PortParams] /\ pp[p] \in PortParams
  BY DEF PortsFit
<1>2. [pp[p] EXCEPT !.flowFlags = f] \in PortParams
  BY <1>1 DEF PortParams
<1> QED
  BY <1>1, <1>2 DEF PortsFit

LEMMA OtherPartsChange ==
    ASSUME PortsFit, NEW p \in Stations, NEW n \in BOOLEAN
    PROVE  /\ pp' = [pp EXCEPT ![p].newKbd = n] => PortsFit'
           /\ pp' = [pp EXCEPT ![p].forceLogout = n] => PortsFit'
<1>1. pp \in [Stations -> PortParams] /\ pp[p] \in PortParams
  BY DEF PortsFit
<1>2. [pp[p] EXCEPT !.newKbd = n] \in PortParams /\ [pp[p] EXCEPT !.forceLogout = n] \in PortParams
  BY <1>1 DEF PortParams
<1>3. CASE pp' = [pp EXCEPT ![p].newKbd = n]
  BY <1>1, <1>2, <1>3 DEF PortsFit
<1>4. CASE pp' = [pp EXCEPT ![p].forceLogout = n]
  BY <1>1, <1>2, <1>4 DEF PortsFit
<1> QED
  BY <1>3, <1>4

\* What a port holds.
LEMMA PortHolds ==
    ASSUME PortsFit, NEW p \in Stations
    PROVE  pp[p] \in PortParams /\ pp[p].escState \in EscStates /\ pp[p].flowFlags \subseteq Flags
           /\ pp[p].newKbd \in BOOLEAN /\ pp[p].forceLogout \in BOOLEAN
BY DEF PortsFit, PortParams

\* What dtSend leaves in the transmit ring.
LEMMA SentFitsIn ==
    ASSUME SentFits, NEW p \in Stations, NEW n \in Nat
    PROVE  /\ Fits(p, n) => sent[p] + n \in 0 .. SendRingSize - 1
           /\ Sent(p, n) \in [Stations -> 0 .. SendRingSize - 1]
<1>1. sent \in [Stations -> 0 .. SendRingSize - 1] /\ sent[p] \in 0 .. SendRingSize - 1
  BY DEF SentFits
<1>2. Fits(p, n) => sent[p] + n \in 0 .. SendRingSize - 1
  BY <1>1, PniSizes DEF Fits, Room
<1> QED
  BY <1>1, <1>2 DEF Sent

LEMMA ArriveFits == ASSUME PniFits, NEW p \in Stations, Arrive(p) PROVE PniFits'
<1>1. /\ users < setting.users /\ users' = users + 1 /\ user' = [user EXCEPT ![p] = users + 1]
      /\ link' = [link EXCEPT ![p] = "welcome"] /\ typed' = [typed EXCEPT ![p] = <<>>]
      /\ decoded' = [decoded EXCEPT ![p] = <<>>] /\ sent' = [sent EXCEPT ![p] = 0]
      /\ stopped' = stopped \ {p} /\ UNCHANGED setting
      /\ UNCHANGED <<pniActive, pp, bytes, stops, keyVars, cyberVars, apnifb, mainVars, loads>>
  BY DEF Arrive
<1>2. PortsFit' /\ StoreFits' /\ KeysFit' /\ CyberFits' /\ RingsFit' /\ MainFits' /\ PniKeys' = PniKeys
  BY <1>1, FrameFits DEF keyVars, cyberVars, mainVars
<1>3. LinesFit'
  <2>1. users \in Nat /\ setting.users \in Nat /\ setting \in Settings
    BY PniAssumption DEF PniFits, LinesFit
  <2>2. users' \in 0 .. setting'.users /\ user' \in [Stations -> 0 .. users']
    BY <1>1, <2>1 DEF PniFits, LinesFit
  <2>3. link' \in [Stations -> Links]
    BY <1>1 DEF PniFits, LinesFit, Links
  <2>4. typed' \in [Stations -> Seq(PniKeys)] /\ decoded' \in [Stations -> Seq(PniKeys)]
    BY <1>1 DEF PniFits, LinesFit
  <2>5. bytes' \in [Stations -> Seq(RawBytes)] /\ stopped' \subseteq Stations /\ setting' \in Settings
    BY <1>1 DEF PniFits, LinesFit
  <2> QED
    BY <2>2, <2>3, <2>4, <2>5, <1>2 DEF LinesFit
<1>4. SentFits'
  BY <1>1, PniSizes DEF PniFits, SentFits
<1> QED
  BY <1>2, <1>3, <1>4 DEF PniFits

LEMMA WelcomeFits == ASSUME PniFits, NEW p \in Stations, Welcome(p) PROVE PniFits'
<1>1. UNCHANGED <<pniActive, termVars, keyVars, cyberVars, apnifb, mainVars, decoded, userVars, loads>>
  BY DEF Welcome
<1>2. StoreFits' /\ KeysFit' /\ CyberFits' /\ RingsFit' /\ MainFits' /\ PniKeys' = PniKeys
  BY <1>1, FrameFits DEF keyVars, cyberVars, mainVars, userVars
<1>3. PortsFit /\ SentFits /\ pp[p] \in PortParams
  BY PortHolds DEF PniFits
<1>4. LinesFit'
  <2>1. link' \in [Stations -> Links]
    BY DEF PniFits, LinesFit, Links, Welcome
  <2> QED
    BY <1>1, <1>2, <2>1 DEF PniFits, LinesFit, termVars, userVars
<1>5. SentFits'
  <2>1. UNCHANGED sent \/ sent' = Sent(p, 1)
    BY DEF Welcome, pniActivateStation
  <2> QED
    BY <2>1, <1>3, SentFitsIn DEF SentFits
<1>6. PortsFit'
  <2>1. CASE WelcomeState(p)
    <3>1. pp' = [pp EXCEPT ![p].escState = "norm", ![p].newKbd = FALSE, ![p].flowFlags = {}]
      BY <2>1 DEF WelcomeState
    <3>2. pp' = [pp EXCEPT ![p] = [pp[p] EXCEPT !.escState = "norm", !.newKbd = FALSE, !.flowFlags = {}]]
      BY <3>1, <1>3 DEF PortsFit
    <3>3. [pp[p] EXCEPT !.escState = "norm", !.newKbd = FALSE, !.flowFlags = {}] \in PortParams
      BY <1>3 DEF PortParams, EscStates
    <3> QED
      BY <3>2, <3>3, <1>3 DEF PortsFit
  <2>2. CASE WelcomeForce(p)
    BY <2>2, <1>3, OtherPartsChange DEF WelcomeForce, PortsFit
  <2>3. CASE pniActivateStation(p)
    BY <2>3, <1>3, FlagsChange DEF pniActivateStation, Flags
  <2>4. CASE UNCHANGED pp
    BY <2>4, <1>3 DEF PortsFit
  <2> QED
    BY <2>1, <2>2, <2>3, <2>4 DEF Welcome
<1> QED
  BY <1>2, <1>4, <1>5, <1>6 DEF PniFits

\* The code of a key.
LEMMA StrokeHolds ==
    ASSUME NEW s \in Strokes
    PROVE  /\ s.bytes \in Seq(Codes) /\ Len(s.bytes) \in Nat \ {0} /\ s.key \in KeyKinds
           /\ \A i \in 1 .. Len(s.bytes) : s.bytes[i] \in Codes
<1>1. s.bytes \in Seq(Codes) \ {<<>>} /\ s.key \in KeyKinds
  BY StrokesAssumption
<1> QED
  BY <1>1

LEMMA TypeFits == ASSUME PniFits, NEW p \in Stations, Type(p) PROVE PniFits'
<1>1. PICK s \in Strokes, k \in 1 .. 6 :
        LET n == Len(typed[p]) + 1
            whole == k = Len(s.bytes)
        IN  /\ link[p] = "up" /\ s.key \in setting.kinds /\ n <= setting.strokes /\ k <= Len(s.bytes)
            /\ bytes[p] = <<>>
            /\ bytes' = [bytes EXCEPT ![p] = [i \in 1 .. k |-> [byte |-> s.bytes[i], n |-> n]]]
            /\ typed' = IF whole /\ s.key # "none"
                        THEN [typed EXCEPT ![p] = Append(@, [class |-> s.key, user |-> user[p],
                                                             n |-> n])]
                        ELSE typed
            /\ link' = IF whole THEN link ELSE [link EXCEPT ![p] = "gone"]
            /\ UNCHANGED <<pniActive, pp, stopped, stops, keyVars, cyberVars, apnifb, mainVars,
                           sent, decoded, userVars, loads>>
  BY DEF Type
<1>2. PortsFit' /\ SentFits' /\ StoreFits' /\ KeysFit' /\ CyberFits' /\ RingsFit' /\ MainFits' /\ PniKeys' = PniKeys
  BY <1>1, FrameFits DEF keyVars, cyberVars, mainVars, userVars
<1>3. LinesFit /\ typed[p] \in Seq(PniKeys) /\ Len(typed[p]) + 1 \in Nat
  BY DEF PniFits, LinesFit
<1>4. link' \in [Stations -> Links]
  BY <1>1, <1>3 DEF LinesFit, Links
<1>5. bytes' \in [Stations -> Seq(RawBytes)]
  <2>1. \A i \in 1 .. k : [byte |-> s.bytes[i], n |-> Len(typed[p]) + 1] \in RawBytes
    BY <1>1, <1>3, StrokeHolds DEF RawBytes
  <2>2. [i \in 1 .. k |-> [byte |-> s.bytes[i], n |-> Len(typed[p]) + 1]] \in Seq(RawBytes)
    BY <2>1
  <2> QED
    BY <1>1, <1>3, <2>2 DEF LinesFit
<1>6. typed' \in [Stations -> Seq(PniKeys)]
  <2>1. user[p] \in 0 .. setting.users
    BY <1>3, PniAssumption DEF LinesFit
  <2>2. [class |-> s.key, user |-> user[p], n |-> Len(typed[p]) + 1] \in PniKeys
    BY <2>1, <1>3, StrokeHolds DEF PniKeys
  <2>3. Append(typed[p], [class |-> s.key, user |-> user[p], n |-> Len(typed[p]) + 1]) \in Seq(PniKeys)
    BY <2>2, <1>3
  <2> QED
    BY <1>1, <1>3, <2>3 DEF LinesFit
<1>7. LinesFit'
  BY <1>1, <1>2, <1>3, <1>4, <1>5, <1>6 DEF LinesFit, userVars
<1> QED
  BY <1>2, <1>7 DEF PniFits

LEMMA FlowFits ==
    ASSUME PniFits, NEW p \in Stations, NEW byte \in {"xon", "xoff"}, Flow(p, byte),
           stopped' \subseteq Stations
    PROVE  PniFits'
<1>1. /\ bytes' = [bytes EXCEPT ![p] = <<[byte |-> byte, n |-> 0]>>]
      /\ UNCHANGED <<pniActive, pp, link, typed, keyVars, cyberVars, apnifb, mainVars, sent,
                     decoded, userVars, loads>>
  BY DEF Flow
<1>2. PortsFit' /\ SentFits' /\ StoreFits' /\ KeysFit' /\ CyberFits' /\ RingsFit' /\ MainFits' /\ PniKeys' = PniKeys
  BY <1>1, FrameFits DEF keyVars, cyberVars, mainVars, userVars
<1>3. bytes' \in [Stations -> Seq(RawBytes)]
  <2>1. [byte |-> byte, n |-> 0] \in RawBytes
    BY DEF RawBytes
  <2>2. <<[byte |-> byte, n |-> 0]>> \in Seq(RawBytes)
    BY <2>1
  <2> QED
    BY <1>1, <2>2 DEF PniFits, LinesFit
<1>4. LinesFit'
  BY <1>1, <1>2, <1>3 DEF PniFits, LinesFit, userVars
<1> QED
  BY <1>2, <1>4 DEF PniFits

LEMMA XoffFits == ASSUME PniFits, NEW p \in Stations, Xoff(p) \/ Xon(p) PROVE PniFits'
<1>1. stopped \subseteq Stations
  BY DEF PniFits, LinesFit
<1>2. CASE Xoff(p)
  BY <1>1, <1>2, FlowFits DEF Xoff
<1>3. CASE Xon(p)
  BY <1>1, <1>3, FlowFits DEF Xon
<1> QED
  BY <1>2, <1>3

LEMMA BreakFits == ASSUME PniFits, NEW p \in Stations, Break(p) PROVE PniFits'
<1>1. /\ link' = [link EXCEPT ![p] = "gone"]
      /\ UNCHANGED <<pniActive, pp, termVars, keyVars, cyberVars, apnifb, mainVars, sent, decoded,
                     userVars, loads>>
  BY DEF Break
<1>2. PortsFit' /\ SentFits' /\ StoreFits' /\ KeysFit' /\ CyberFits' /\ RingsFit' /\ MainFits' /\ PniKeys' = PniKeys
  BY <1>1, FrameFits DEF keyVars, cyberVars, mainVars, userVars
<1>3. LinesFit'
  <2>1. link' \in [Stations -> Links]
    BY <1>1 DEF PniFits, LinesFit, Links
  <2> QED
    BY <1>1, <1>2, <2>1 DEF PniFits, LinesFit, termVars, userVars
<1> QED
  BY <1>2, <1>3 DEF PniFits

\* The values that reading a byte gives.
LEMMA Decoding ==
    ASSUME NEW s \in EscStates, NEW b \in Codes \cup {"xon", "xoff"}, NEW newKbd \in BOOLEAN,
           NEW f \in SUBSET Flags
    PROVE  /\ EscState(s, b) \in EscStates /\ KeyClass(s, b, newKbd) \in KeyKinds
           /\ Flowed(f, b) \in SUBSET Flags
<1>1. EscState(s, b) \in EscStates
  BY SMTT(30) DEF EscState, EscStates
<1>2. KeyClass(s, b, newKbd) \in KeyKinds
  BY DEF KeyClass, KeyKinds
<1>3. Flowed(f, b) \in SUBSET Flags
  BY DEF Flowed, Flags
<1> QED
  BY <1>1, <1>2, <1>3

LEMMA ReadByteFits == ASSUME PniFits, NEW p \in Stations, ReadByte(p) PROVE PniFits'
<1> DEFINE b == Head(bytes[p]).byte
           s == pp[p].escState
           class == KeyClass(s, b, pp[p].newKbd)
           key == [class |-> class, user |-> user[p], n |-> Head(bytes[p]).n]
           flow == s = "norm" /\ pp[p].newKbd /\ b \in {"xon", "xoff"}
           split == flow /\ b = "xoff" /\ "flow" \in setting.cases
           flags == IF flow /\ ~split THEN Flowed(pp[p].flowFlags, b) ELSE pp[p].flowFlags
<1>1. /\ bytes[p] # <<>> /\ store[p].at = "idle"
      /\ bytes' = [bytes EXCEPT ![p] = Tail(bytes[p])]
      /\ \/ class = "none" /\ ~split /\ UNCHANGED store
         \/ class # "none" /\ Begin(p, "force", p, key)
         \/ split /\ store' = [store EXCEPT ![p].at = "flow", ![p].old = pp[p].flowFlags]
      /\ decoded' = IF class # "none" /\ b \notin {"xon", "xoff"}
                    THEN [decoded EXCEPT ![p] = Append(decoded[p], key)] ELSE decoded
  BY DEF ReadByte, PniFits, LinesFit
<1>2. UNCHANGED <<pniActive, link, stopped, typed, stops, kb, abt, cyberVars, apnifb, mainVars, sent,
                  userVars, loads>>
  BY DEF ReadByte
<1>3. SentFits' /\ KeysFit' /\ CyberFits' /\ RingsFit' /\ MainFits' /\ PniKeys' = PniKeys /\ Stores' = Stores
  BY <1>2, FrameFits DEF cyberVars, mainVars, userVars
<1>4. PortsFit /\ LinesFit /\ StoreFits /\ p \in PniThreads /\ p # main
  BY PniSizes DEF PniFits
<1>5. pp[p] \in PortParams /\ s \in EscStates /\ pp[p].flowFlags \subseteq Flags /\ pp[p].newKbd \in BOOLEAN
  BY <1>4, PortHolds
<1>6. bytes[p] \in Seq(RawBytes) /\ Head(bytes[p]) \in RawBytes /\ Tail(bytes[p]) \in Seq(RawBytes)
  BY <1>1, <1>4 DEF LinesFit
<1>7. b \in Codes \cup {"xon", "xoff"} /\ Head(bytes[p]).n \in Nat
  BY <1>6 DEF RawBytes
<1>8. class \in KeyKinds /\ EscState(s, b) \in EscStates /\ flags \in SUBSET Flags
  BY <1>5, <1>7, Decoding
<1>9. key \in PniKeys
  <2>1. user[p] \in 0 .. setting.users
    BY <1>4, PniAssumption DEF LinesFit
  <2> HIDE DEF class, b
  <2> QED
    BY <2>1, <1>7, <1>8 DEF PniKeys
<1>10. PortsFit'
  <2>1. pp' = [pp EXCEPT ![p].escState = EscState(s, b), ![p].flowFlags = flags]
    BY <1>4 DEF ReadByte, PortsFit
  <2> HIDE DEF s, b, flags
  <2>2. [pp[p] EXCEPT !.escState = EscState(s, b), !.flowFlags = flags] \in PortParams
    BY <1>5, <1>8 DEF PortParams
  <2>3. pp' = [pp EXCEPT ![p] = [pp[p] EXCEPT !.escState = EscState(s, b), !.flowFlags = flags]]
    BY <2>1, <1>4 DEF PortsFit
  <2> QED
    BY <2>2, <2>3, <1>4 DEF PortsFit
<1>11. LinesFit'
  <2> HIDE DEF key, class, b
  <2>1. bytes' \in [Stations -> Seq(RawBytes)]
    BY <1>1, <1>4, <1>6 DEF LinesFit
  <2>2. decoded' \in [Stations -> Seq(PniKeys)]
    <3>1. decoded[p] \in Seq(PniKeys) /\ Append(decoded[p], key) \in Seq(PniKeys)
      BY <1>4, <1>9 DEF LinesFit
    <3> QED
      BY <3>1, <1>1, <1>4 DEF LinesFit
  <2> QED
    BY <2>1, <2>2, <1>2, <1>3, <1>4 DEF LinesFit, userVars
<1>12. StoreFits'
  <2> HIDE DEF key, class, split
  <2>1. CASE UNCHANGED store
    BY <2>1, <1>2, FrameFits DEF mainVars, userVars
  <2>2. CASE Begin(p, "force", p, key)
    <3>1. /\ store' \in [PniThreads -> Stores] /\ store'[p].at = "force" /\ store'[p].stat = p
          /\ \A u \in PniThreads \ {p} : store'[u] = store[u]
      BY <2>2, <1>4, <1>9, BeginFits
    <3> QED
      BY <3>1, <1>2, <1>4, StoreChanges DEF mainVars, userVars
  <2>3. CASE store' = [store EXCEPT ![p].at = "flow", ![p].old = pp[p].flowFlags]
    <3>1. store \in [PniThreads -> Stores] /\ store[p] \in Stores
      BY <1>4 DEF StoreFits
    <3>2. store'[p] = [store[p] EXCEPT !.at = "flow", !.old = pp[p].flowFlags]
          /\ \A u \in PniThreads \ {p} : store'[u] = store[u]
      BY <2>3, <1>4, <3>1
    <3>3. store'[p] \in Stores /\ store'[p].at = "flow" /\ store'[p].old = pp[p].flowFlags
      BY <3>1, <3>2, <1>5 DEF Stores
    <3>4. store' \in [PniThreads -> Stores]
      BY <2>3, <3>1, <3>2, <3>3, <1>4
    <3> QED
      BY <3>2, <3>3, <3>4, <1>2, <1>4, <1>5, StoreChanges DEF mainVars, userVars, StorePlaces
  <2> QED
    BY <1>1, <2>1, <2>2, <2>3
<1> QED
  BY <1>3, <1>10, <1>11, <1>12 DEF PniFits

LEMMA WriteFlowFits == ASSUME PniFits, NEW p \in Stations, WriteFlow(p) PROVE PniFits'
<1>1. /\ store[p].at = "flow" /\ pp' = [pp EXCEPT ![p].flowFlags = store[p].old \cup {"XOFF"}] /\ Finish(p)
      /\ UNCHANGED <<pniActive, link, termVars, kb, abt, cyberVars, apnifb, mainVars, sent, decoded,
                     userVars, loads>>
  BY DEF WriteFlow
<1>2. LinesFit' /\ SentFits' /\ KeysFit' /\ CyberFits' /\ RingsFit' /\ MainFits'
  BY <1>1, FrameFits DEF cyberVars, mainVars, userVars, termVars
<1>3. p \in PniThreads /\ p # main /\ LinesFit /\ StoreFits /\ PortsFit
  BY PniSizes DEF PniFits
<1>4. PortsFit'
  BY <1>1, <1>3, FlagsChange DEF StoreFits, Flags
<1>5. StoreFits'
  BY <1>1, <1>3, FinishFits, StoreChanges DEF mainVars, userVars, StorePlaces
<1> QED
  BY <1>2, <1>4, <1>5 DEF PniFits

LEMMA ForceLogoutFits == ASSUME PniFits, NEW p \in Stations, ForceLogout(p) PROVE PniFits'
<1> DEFINE forced == pp[p].forceLogout /\ pniLoggedIn(p)
<1>1. /\ store[p].at = "force" /\ pp' = [pp EXCEPT ![p].forceLogout = forced]
      /\ UNCHANGED <<pniActive, link, termVars, kb, abt, cyberVars, apnifb, mainVars, sent, decoded,
                     userVars, loads>>
  BY DEF ForceLogout
<1>2. LinesFit' /\ SentFits' /\ KeysFit' /\ CyberFits' /\ RingsFit' /\ MainFits'
  BY <1>1, FrameFits DEF cyberVars, mainVars, userVars, termVars
<1>3. p \in PniThreads /\ p # main /\ LinesFit /\ StoreFits /\ PortsFit /\ store \in [PniThreads -> Stores]
  BY PniSizes DEF PniFits, StoreFits
<1>4. PortsFit'
  <2>1. forced \in BOOLEAN
    BY <1>3, PortHolds DEF pniLoggedIn
  <2> HIDE DEF forced
  <2> QED
    BY <1>1, <1>3, <2>1, OtherPartsChange
<1>5. StoreFits'
  <2>1. PICK key \in PniKeys : store' = [store EXCEPT ![p].at = "index", ![p].key = key]
    <3>1. store[p].key \in PniKeys /\ OFFKY2 \in PniKeys
      BY <1>3, OwnKeys DEF Stores
    <3> QED
      BY <3>1, <1>3 DEF ForceLogout
  <2>2. /\ store'[p] = [store[p] EXCEPT !.at = "index", !.key = key]
        /\ \A u \in PniThreads \ {p} : store'[u] = store[u]
    BY <2>1, <1>3
  <2>3. store'[p] \in Stores /\ store'[p].at = "index" /\ store'[p].stat = store[p].stat
    <3>1. store[p] \in Stores /\ key \in PniKeys
      BY <2>1, <1>3
    <3>2. [store[p] EXCEPT !.at = "index", !.key = key] \in Stores
      BY <3>1 DEF Stores
    <3>3. store'[p].at = "index" /\ store'[p].stat = store[p].stat
      BY <2>2, <3>1 DEF Stores
    <3> QED
      BY <2>2, <3>2, <3>3
  <2>4. store' \in [PniThreads -> Stores]
    BY <2>1, <2>2, <2>3, <1>3
  <2>5. store[p].stat = p
    BY <1>1, <1>3 DEF StoreFits
  <2> QED
    BY <2>2, <2>3, <2>4, <2>5, <1>1, <1>3, StoreChanges DEF mainVars, userVars
<1> QED
  BY <1>2, <1>4, <1>5 DEF PniFits

LEMMA DepartFits == ASSUME PniFits, NEW p \in Stations, Depart(p) PROVE PniFits'
<1>1. /\ link' = [link EXCEPT ![p] = "closing"] /\ store[p].at = "idle"
      /\ Begin(p, "index", p, OFFKY2) \/ UNCHANGED store
      /\ UNCHANGED <<pniActive, pp, termVars, kb, abt, cyberVars, apnifb, mainVars, sent, decoded,
                     userVars, loads>>
  BY DEF Depart
<1>2. PortsFit' /\ SentFits' /\ KeysFit' /\ CyberFits' /\ RingsFit' /\ MainFits' /\ PniKeys' = PniKeys
  BY <1>1, FrameFits DEF cyberVars, mainVars, userVars, termVars
<1>3. p \in PniThreads /\ p # main /\ LinesFit /\ StoreFits
  BY PniSizes DEF PniFits
<1>4. LinesFit'
  <2>1. link' \in [Stations -> Links]
    BY <1>1, <1>3 DEF LinesFit, Links
  <2> QED
    BY <1>1, <1>2, <1>3, <2>1 DEF LinesFit, termVars, userVars
<1>5. StoreFits'
  <2>1. CASE UNCHANGED store
    BY <2>1, <1>1, FrameFits DEF mainVars, userVars
  <2>2. CASE Begin(p, "index", p, OFFKY2)
    <3>1. /\ store' \in [PniThreads -> Stores] /\ store'[p].at = "index" /\ store'[p].stat = p
          /\ \A u \in PniThreads \ {p} : store'[u] = store[u]
      BY <2>2, <1>3, OwnKeys, BeginFits
    <3> QED
      BY <3>1, <1>1, <1>3, StoreChanges DEF mainVars, userVars
  <2> QED
    BY <1>1, <2>1, <2>2
<1> QED
  BY <1>2, <1>4, <1>5 DEF PniFits

LEMMA ClosedFits == ASSUME PniFits, NEW p \in Stations, Closed(p) PROVE PniFits'
<1>1. /\ link' = [link EXCEPT ![p] = "free"]
      /\ UNCHANGED <<pniActive, pp, termVars, keyVars, cyberVars, apnifb, mainVars, sent, decoded,
                     userVars, loads>>
  BY DEF Closed
<1>2. PortsFit' /\ SentFits' /\ StoreFits' /\ KeysFit' /\ CyberFits' /\ RingsFit' /\ MainFits' /\ PniKeys' = PniKeys
  BY <1>1, FrameFits DEF keyVars, cyberVars, mainVars, userVars
<1>3. LinesFit'
  <2>1. link' \in [Stations -> Links]
    BY <1>1 DEF PniFits, LinesFit, Links
  <2> QED
    BY <1>1, <1>2, <2>1 DEF PniFits, LinesFit, termVars, userVars
<1> QED
  BY <1>2, <1>3 DEF PniFits

LEMMA DrainFits == ASSUME PniFits, NEW p \in Stations, Drain(p) PROVE PniFits'
<1>1. /\ \E n \in 0 .. sent[p] - 1 : sent' = [sent EXCEPT ![p] = n]
      /\ UNCHANGED <<pniActive, pp, link, termVars, keyVars, cyberVars, apnifb, mainVars, decoded,
                     userVars, loads>>
  BY DEF Drain
<1>2. PortsFit' /\ LinesFit' /\ StoreFits' /\ KeysFit' /\ CyberFits' /\ RingsFit' /\ MainFits'
  BY <1>1, FrameFits DEF keyVars, cyberVars, mainVars, userVars, termVars
<1>3. SentFits'
  <2>1. PICK n \in 0 .. sent[p] - 1 : sent' = [sent EXCEPT ![p] = n]
    BY <1>1
  <2>2. sent[p] \in 0 .. SendRingSize - 1 /\ n \in 0 .. SendRingSize - 1
    BY <2>1, PniSizes DEF PniFits, SentFits
  <2> QED
    BY <2>1, <2>2 DEF PniFits, SentFits
<1> QED
  BY <1>2, <1>3 DEF PniFits

-----------------------------------------------------------------------------
\* The steps of the Cyber.
LEMMA EmptyFits == ASSUME LinesFit PROVE EmptyKeybuf \in Keybufs
BY OwnKeys, PniSizes DEF EmptyKeybuf, Keybufs

LEMMA PniOnFits == ASSUME PniFits, PniOn PROVE PniFits'
<1>1. /\ pniActive' = TRUE /\ kb' = [p \in Stations |-> EmptyKeybuf] /\ abt' = {}
      /\ session' = [p \in Stations |-> 0] /\ await' = [p \in Stations |-> "abt"]
      /\ taking' = {} /\ fpnib' = <<>> /\ apnifb' = <<>> /\ mainAt = "cpu"
      /\ pp' = [p \in Stations |->
                   IF Connected(p) THEN [pp[p] EXCEPT !.flowFlags = {"DOABT"}] ELSE pp[p]]
      /\ sent' = [p \in Stations |-> IF Fits(p, 1) THEN sent[p] + 1 ELSE sent[p]]
      /\ UNCHANGED <<store, messages, mainVars, link, termVars, decoded, userVars>>
  BY DEF PniOn, InCyber
<1>2. LinesFit' /\ StoreFits' /\ MainFits' /\ PniKeys' = PniKeys /\ Keybufs' = Keybufs
  BY <1>1, FrameFits DEF mainVars, userVars, termVars
<1>3. KeysFit'
  BY <1>1, <1>2, EmptyFits DEF PniFits, KeysFit
<1>4. CyberFits'
  <2>1. setting.users \in Nat
    BY PniAssumption DEF PniFits, LinesFit
  <2> QED
    BY <1>1, <2>1 DEF CyberFits, userVars
<1>5. RingsFit'
  BY <1>1, PniSizes DEF RingsFit, mainVars
<1>6. PortsFit'
  <2>1. \A p \in Stations : (IF Connected(p) THEN [pp[p] EXCEPT !.flowFlags = {"DOABT"}] ELSE pp[p]) \in PortParams
    BY PortHolds DEF PniFits, PortParams, Flags
  <2> QED
    BY <1>1, <2>1 DEF PortsFit
<1>7. SentFits'
  <2>1. \A p \in Stations : (IF Fits(p, 1) THEN sent[p] + 1 ELSE sent[p]) \in 0 .. SendRingSize - 1
    BY SentFitsIn DEF PniFits, SentFits
  <2> QED
    BY <1>1, <2>1 DEF SentFits
<1> QED
  BY <1>2, <1>3, <1>4, <1>5, <1>6, <1>7 DEF PniFits

LEMMA PniOffFits == ASSUME PniFits, PniOff PROVE PniFits'
<1>1. /\ pniActive' = FALSE
      /\ sent' = sent \/ sent' = [p \in Stations |-> IF Fits(p, 1) THEN sent[p] + 1 ELSE sent[p]]
      /\ UNCHANGED <<pp, keyVars, cyberVars, apnifb, loads, mainVars, link, termVars, decoded, userVars>>
  BY DEF PniOff, InCyber
<1>2. PortsFit' /\ LinesFit' /\ StoreFits' /\ KeysFit' /\ RingsFit' /\ MainFits'
  BY <1>1, FrameFits DEF mainVars, userVars, termVars, keyVars, cyberVars
<1>3. CyberFits'
  BY <1>1 DEF PniFits, CyberFits, cyberVars, userVars
<1>4. SentFits'
  <2>1. \A p \in Stations : (IF Fits(p, 1) THEN sent[p] + 1 ELSE sent[p]) \in 0 .. SendRingSize - 1
    BY SentFitsIn DEF PniFits, SentFits
  <2> QED
    BY <1>1, <2>1 DEF PniFits, SentFits
<1> QED
  BY <1>2, <1>3, <1>4 DEF PniFits

LEMMA PlatoFits == ASSUME PniFits, Plato PROVE PniFits'
<1>1. UNCHANGED <<pniActive, pp, store, fpnib, await, messages, apnifb, sent, loads, mainVars, link,
                  termVars, decoded, userVars>>
  BY DEF Plato, PlatoScan, PlatoTake, PlatoDone, InCyber, keyVars
<1>2. /\ PortsFit' /\ LinesFit' /\ SentFits' /\ StoreFits' /\ RingsFit' /\ MainFits'
      /\ PniKeys' = PniKeys /\ Keybufs' = Keybufs
  BY <1>1, FrameFits DEF mainVars, userVars, termVars
<1>3. kb \in [Stations -> Keybufs] /\ abt \subseteq Stations /\ taking \subseteq Stations
      /\ session \in [Stations -> 0 .. setting.users] /\ setting.users \in Nat
  BY PniAssumption DEF PniFits, KeysFit, CyberFits, LinesFit
<1>4. CASE PlatoScan
  BY <1>1, <1>2, <1>3, <1>4 DEF PlatoScan, PniFits, KeysFit, CyberFits, userVars
<1>5. CASE \E p \in Stations : PlatoDone(p)
  BY <1>1, <1>2, <1>3, <1>5 DEF PlatoDone, PniFits, KeysFit, CyberFits, userVars, keyVars
<1>6. ASSUME NEW p \in Stations, PlatoTake(p) PROVE PniFits'
  <2>1. kb[p] \in Keybufs
    BY <1>3
  <2>2. Succ(kb[p].cpidx) \in 0 .. IDXLIM - 1
    BY <2>1, SuccFits DEF Keybufs
  <2>3. kb[p].buf[Succ(kb[p].cpidx)] \in PniKeys
    BY <2>1, <2>2 DEF Keybufs
  <2>4. kb' \in [Stations -> Keybufs]
    <3>1. [kb[p] EXCEPT !.cpidx = Succ(kb[p].cpidx)] \in Keybufs
      BY <2>1, <2>2 DEF Keybufs
    <3>2. kb' = [kb EXCEPT ![p] = [kb[p] EXCEPT !.cpidx = Succ(kb[p].cpidx)]]
      BY <1>3, <1>6 DEF PlatoTake
    <3> QED
      BY <3>1, <3>2, <1>3
  <2>5. session' \in [Stations -> 0 .. setting.users]
    <3>1. kb[p].buf[Succ(kb[p].cpidx)].user \in 0 .. setting.users
      BY <2>3 DEF PniKeys
    <3> QED
      BY <3>1, <1>3, <1>6 DEF PlatoTake
  <2>6. UNCHANGED <<abt, taking>>
    BY <1>6 DEF PlatoTake
  <2> QED
    BY <1>1, <1>2, <1>3, <2>4, <2>5, <2>6 DEF PniFits, KeysFit, CyberFits, userVars
<1> QED
  BY <1>4, <1>5, <1>6 DEF Plato

LEMMA FramatFits == ASSUME PniFits, Framat PROVE PniFits'
<1>1. PICK p \in Stations, op \in Requests \cup {"data"}, size \in Nat : FramatSend(p, op, size)
  BY PniAssumption DEF Framat
<1>2. /\ fpnib' = Append(fpnib, [op |-> op, stat |-> p, size |-> size])
      /\ await' = [await EXCEPT ![p] = CASE op = "data" -> "pts" [] op = "abort" -> "abt" [] OTHER -> await[p]]
      /\ mainAt = "cpu"
      /\ UNCHANGED <<pniActive, pp, keyVars, taking, session, apnifb, sent, loads, mainVars, link,
                     termVars, decoded, userVars>>
  BY <1>1 DEF FramatSend, InCyber, PniFits, CyberFits
<1>3. PortsFit' /\ LinesFit' /\ SentFits' /\ StoreFits' /\ KeysFit' /\ MainFits'
  BY <1>2, FrameFits DEF mainVars, userVars, termVars, keyVars
<1>4. RingsFit'
  <2>1. [op |-> op, stat |-> p, size |-> size] \in PniMessages
    BY DEF PniMessages
  <2> QED
    BY <1>2, <2>1 DEF PniFits, RingsFit, mainVars
<1>5. CyberFits'
  BY <1>2 DEF PniFits, CyberFits, userVars
<1> QED
  BY <1>3, <1>4, <1>5 DEF PniFits

LEMMA FramatTakeFits == ASSUME PniFits, FramatTake PROVE PniFits'
<1>1. /\ apnifb # <<>> /\ apnifb' = Tail(apnifb)
      /\ UNCHANGED <<pniActive, pp, keyVars, taking, session, fpnib, messages, sent, loads, mainVars,
                     link, termVars, decoded, userVars>>
  BY DEF FramatTake, InCyber
<1>2. PortsFit' /\ LinesFit' /\ SentFits' /\ StoreFits' /\ KeysFit' /\ MainFits'
  BY <1>1, FrameFits DEF mainVars, userVars, termVars, keyVars
<1>3. RingsFit'
  <2>1. apnifb \in Seq(PniRequests) /\ Len(apnifb) < pniflen
    BY DEF PniFits, RingsFit
  <2>2. Tail(apnifb) \in Seq(PniRequests) /\ Len(Tail(apnifb)) < pniflen
    BY <2>1, <1>1, PniSizes
  <2> QED
    BY <1>1, <2>2 DEF PniFits, RingsFit, mainVars
<1>4. CyberFits'
  <2>1. await' \in [Stations -> {"nothing", "pts", "abt"}]
    BY DEF FramatTake, PniFits, CyberFits
  <2> QED
    BY <1>1, <2>1 DEF PniFits, CyberFits, userVars
<1> QED
  BY <1>2, <1>3, <1>4 DEF PniFits

-----------------------------------------------------------------------------
\* The steps of pniCheck.
LEMMA pniCheckFits == ASSUME PniFits, pniCheck \/ MessagesDone PROVE PniFits'
<1>1. /\ mainAt # "store" /\ mainAt' \in {"messages", "ports"} /\ port' \in {port, 0}
      /\ UNCHANGED <<pniActive, pp, link, termVars, keyVars, cyberVars, apnifb, sent, decoded,
                     userVars, loads>>
  BY DEF pniCheck, MessagesDone
<1>2. PortsFit' /\ LinesFit' /\ SentFits' /\ KeysFit' /\ CyberFits' /\ Stores' = Stores
  BY <1>1, FrameFits DEF userVars, termVars, keyVars, cyberVars
<1>3. StoreFits'
  BY <1>1, <1>2 DEF PniFits, StoreFits, keyVars
<1>4. RingsFit' /\ MainFits'
  BY <1>1, PniSizes DEF PniFits, RingsFit, MainFits, cyberVars
<1> QED
  BY <1>2, <1>3, <1>4 DEF PniFits

LEMMA MessageFits == ASSUME PniFits, Message PROVE PniFits'
<1> DEFINE m == Head(fpnib)
           p == m.stat
<1>1. /\ mainAt = "messages" /\ fpnib # <<>>
      /\ UNCHANGED <<pniActive, link, termVars, kb, abt, taking, session, await, messages, apnifb,
                     port, decoded, userVars, loads>>
  BY DEF Message
<1>2. LinesFit' /\ KeysFit' /\ CyberFits' /\ Stores' = Stores
  BY <1>1, FrameFits DEF userVars, termVars
<1>3. /\ PortsFit /\ SentFits /\ StoreFits /\ store \in [PniThreads -> Stores] /\ store[main].at = "idle"
      /\ RingsFit /\ MainFits /\ LinesFit
  BY <1>1 DEF PniFits, StoreFits
<1>4. m \in PniMessages /\ Tail(fpnib) \in Seq(PniMessages)
  BY <1>1, <1>3 DEF RingsFit
<1>5. p \in Stations /\ m.size \in Nat
  BY <1>4 DEF PniMessages
<1>6. pp[p].flowFlags \subseteq Flags
  BY <1>3, <1>5, PortHolds
<1>7. CASE DataMessage(m) /\ UNCHANGED <<store, fpnib>>
  <2>1. /\ sent' = Sent(p, m.size) /\ mainAt' = "data"
        /\ pp' = pp \/ pp' = [pp EXCEPT ![p].flowFlags = pp[p].flowFlags \cup {"TCP"}]
    BY <1>7, <1>3, <1>5 DEF DataMessage, PortsFit
  <2> HIDE DEF m, p
  <2>2. SentFits'
    BY <2>1, <1>3, <1>5, SentFitsIn DEF SentFits
  <2>3. PortsFit'
    <3>1. pp[p].flowFlags \cup {"TCP"} \in SUBSET Flags
      BY <1>6 DEF Flags
    <3> QED
      BY <2>1, <3>1, <1>3, <1>5, FlagsChange DEF PortsFit
  <2>4. StoreFits' /\ RingsFit' /\ MainFits'
    BY <2>1, <1>1, <1>2, <1>3, <1>7 DEF StoreFits, RingsFit, MainFits
  <2> QED
    BY <1>2, <2>2, <2>3, <2>4 DEF PniFits
<1>8. CASE m.op = "abort" /\ pp' = [pp EXCEPT ![p].flowFlags = pp[p].flowFlags \cup {"DOABT"}]
           /\ fpnib' = Tail(fpnib) /\ UNCHANGED <<store, sent, mainAt>>
  <2> HIDE DEF m, p
  <2>1. PortsFit'
    <3>1. pp[p].flowFlags \cup {"DOABT"} \in SUBSET Flags
      BY <1>6 DEF Flags
    <3> QED
      BY <1>8, <3>1, <1>3, <1>5, FlagsChange
  <2>2. SentFits' /\ StoreFits' /\ RingsFit' /\ MainFits'
    BY <1>1, <1>2, <1>3, <1>4, <1>8 DEF SentFits, StoreFits, RingsFit, MainFits
  <2> QED
    BY <1>2, <2>1, <2>2 DEF PniFits
<1>9. CASE pp' = [pp EXCEPT ![p].newKbd = m.op = "newkbd"]
           /\ fpnib' = Tail(fpnib) /\ UNCHANGED <<store, sent, mainAt>>
  <2>1. (m.op = "newkbd") \in BOOLEAN
    OBVIOUS
  <2>2. PortsFit'
    BY <1>9, <2>1, <1>3, <1>5, OtherPartsChange
  <2>3. SentFits' /\ StoreFits' /\ RingsFit' /\ MainFits'
    BY <1>1, <1>2, <1>3, <1>4, <1>9 DEF SentFits, StoreFits, RingsFit, MainFits
  <2> QED
    BY <1>2, <2>2, <2>3 DEF PniFits
<1>10. CASE Begin(main, "index", p, TermType) /\ mainAt' = "store" /\ UNCHANGED <<pp, fpnib, sent>>
  <2> HIDE DEF m, p
  <2>1. /\ store' \in [PniThreads -> Stores] /\ store'[main].at = "index"
        /\ \A u \in PniThreads \ {main} : store'[u] = store[u]
    BY <1>10, <1>3, <1>5, OwnKeys, PniSizes, BeginFits
  <2>2. StoreFits'
    <3>1. \A u \in PniThreads : /\ store'[u].at = "flow" => store'[u].old \subseteq Flags
                                /\ store'[u].at = "write" => store'[u].old \subseteq Stations
      BY <2>1, <1>3 DEF StoreFits
    <3>2. \A q \in Stations : store'[q].at \in StorePlaces \cup {"force", "index"} => store'[q].stat = q
      BY <2>1, <1>3, PniSizes DEF StoreFits, PniThreads
    <3> QED
      BY <3>1, <3>2, <2>1, <1>2, <1>10 DEF StoreFits
  <2>3. PortsFit' /\ SentFits' /\ RingsFit' /\ MainFits'
    BY <1>1, <1>3, <1>10 DEF PortsFit, SentFits, RingsFit, MainFits
  <2> QED
    BY <1>2, <2>2, <2>3 DEF PniFits
<1> QED
  <2>1. pp' = [pp EXCEPT ![p].flowFlags = @ \cup {"DOABT"}] =>
            pp' = [pp EXCEPT ![p].flowFlags = pp[p].flowFlags \cup {"DOABT"}]
    BY <1>3, <1>5 DEF PortsFit
  <2> QED
    BY <2>1, <1>7, <1>8, <1>9, <1>10 DEF Message

LEMMA MessageDoneFits == ASSUME PniFits, MessageDone PROVE PniFits'
<1>1. /\ fpnib' = Tail(fpnib) /\ mainAt' = "messages" /\ store[main].at = "idle" /\ fpnib # <<>>
      /\ UNCHANGED <<pniActive, link, termVars, keyVars, taking, session, await, messages, apnifb, port,
                     sent, decoded, userVars, loads>>
  BY DEF MessageDone, PniFits, StoreFits, RingsFit
<1>2. LinesFit' /\ SentFits' /\ KeysFit' /\ CyberFits' /\ Stores' = Stores
  BY <1>1, FrameFits DEF userVars, termVars, keyVars
<1>3. Tail(fpnib) \in Seq(PniMessages) /\ Head(fpnib).stat \in Stations
  <2>1. Tail(fpnib) \in Seq(PniMessages) /\ Head(fpnib) \in PniMessages
    BY <1>1 DEF PniFits, RingsFit
  <2> QED
    BY <2>1 DEF PniMessages
<1>4. StoreFits' /\ RingsFit' /\ MainFits'
  BY <1>1, <1>2, <1>3 DEF PniFits, StoreFits, RingsFit, MainFits, keyVars
<1>5. PortsFit'
  <2> DEFINE p == Head(fpnib).stat
  <2>1. PortsFit /\ pp[p].flowFlags \cup {"DOPTS"} \in SUBSET Flags
    BY <1>3, PortHolds DEF PniFits, Flags
  <2>2. pp' = pp \/ pp' = [pp EXCEPT ![p].flowFlags = pp[p].flowFlags \cup {"DOPTS"}]
    BY <1>3, <2>1 DEF MessageDone, PortsFit
  <2> HIDE DEF p
  <2> QED
    BY <2>1, <2>2, <1>3, FlagsChange DEF p, PortsFit
<1> QED
  BY <1>2, <1>4, <1>5 DEF PniFits

\* What pniCheck answers leaves room in the ring.
LEMMA AnswerFits ==
    ASSUME PniFits, NEW p \in Stations
    PROVE  /\ Answer(p).flags \in SUBSET Flags /\ apnifb \o Answer(p).reqs \in Seq(PniRequests)
           /\ Len(apnifb \o Answer(p).reqs) < pniflen
<1> DEFINE f == pp[p].flowFlags
           abort == "DOABT" \in f /\ RoomForRequest
           rest == (IF abort THEN f \ {"DOABT"} ELSE f) \ (IF sent[p] = 0 THEN {"TCP"} ELSE {})
           permit == rest = {"DOPTS"} /\ Len(apnifb) + (IF abort THEN 1 ELSE 0) < pniflen - 1
           A == IF abort THEN <<[req |-> "abt", stat |-> p]>> ELSE <<>>
           P == IF permit THEN <<[req |-> "pts", stat |-> p]>> ELSE <<>>
<1>1. Answer(p) = [flags |-> IF permit THEN {} ELSE rest, reqs |-> A \o P]
  BY DEF Answer
<1>2. f \subseteq Flags /\ apnifb \in Seq(PniRequests) /\ Len(apnifb) < pniflen /\ Len(apnifb) \in Nat
  BY PortHolds DEF PniFits, RingsFit
<1>3. [req |-> "abt", stat |-> p] \in PniRequests /\ [req |-> "pts", stat |-> p] \in PniRequests
  BY DEF PniRequests
<1>4. A \in Seq(PniRequests) /\ P \in Seq(PniRequests)
  BY <1>3
<1>5. Len(A) = (IF abort THEN 1 ELSE 0) /\ Len(P) = (IF permit THEN 1 ELSE 0)
  OBVIOUS
<1>6. Len(apnifb) + Len(A) < pniflen
  BY <1>2, <1>5, PniSizes DEF RoomForRequest
<1>7. Len(apnifb) + Len(A) + Len(P) < pniflen
  <2>1. permit => Len(apnifb) + Len(A) < pniflen - 1
    BY <1>5
  <2>2. Len(P) = (IF permit THEN 1 ELSE 0) /\ (permit \/ ~permit)
    BY <1>5
  <2>3. Len(A) \in Nat
    BY <1>5
  <2> HIDE DEF permit, A, P
  <2> QED
    BY <2>1, <2>2, <2>3, <1>2, <1>6, PniSizes
<1>8. rest \in SUBSET Flags
  BY <1>2
<1> HIDE DEF f, abort, rest, permit, A, P
<1>9. Answer(p).flags \in SUBSET Flags /\ Answer(p).reqs = A \o P
  BY <1>1, <1>8
<1>10. A \o P \in Seq(PniRequests) /\ Len(A \o P) = Len(A) + Len(P) /\ Len(A) \in Nat /\ Len(P) \in Nat
  BY <1>4
<1>11. apnifb \o (A \o P) \in Seq(PniRequests) /\ Len(apnifb \o (A \o P)) = Len(apnifb) + Len(A \o P)
  BY <1>2, <1>10
<1> QED
  BY <1>2, <1>7, <1>9, <1>10, <1>11

LEMMA PortRequestsFits == ASSUME PniFits, PortRequests PROVE PniFits'
<1>1. /\ mainAt = "ports" /\ port \in Stations
      /\ UNCHANGED <<pniActive, link, termVars, keyVars, cyberVars, sent, decoded, userVars, loads>>
  BY DEF PortRequests, PniFits, MainFits
<1>2. LinesFit' /\ SentFits' /\ KeysFit' /\ CyberFits' /\ Stores' = Stores
  BY <1>1, FrameFits DEF userVars, termVars, keyVars, cyberVars
<1>3. mainAt' \in {"ports", "cpu"} /\ port' \in Stations
  <2>1. CASE port + 1 < pniStations
    BY <2>1, <1>1, PniSizes DEF PortRequests, Stations
  <2>2. CASE ~(port + 1 < pniStations)
    BY <2>2, <1>1, PniSizes DEF PortRequests
  <2> QED
    BY <2>1, <2>2
<1>4. MainFits' /\ StoreFits'
  BY <1>1, <1>2, <1>3 DEF PniFits, MainFits, StoreFits, keyVars
<1>5. RingsFit' /\ PortsFit'
  <2>1. Answer(port).flags \in SUBSET Flags /\ PortsFit
    BY <1>1, AnswerFits DEF PniFits
  <2>2. /\ apnifb' = apnifb \o Answer(port).reqs \/ apnifb' = apnifb
        /\ pp' = pp \/ pp' = [pp EXCEPT ![port].flowFlags = Answer(port).flags]
    BY DEF PortRequests
  <2>3. apnifb' \in Seq(PniRequests) /\ Len(apnifb') < pniflen
    BY <2>2, <1>1, AnswerFits DEF PniFits, RingsFit
  <2>4. PortsFit'
    BY <2>1, <2>2, <1>1, FlagsChange DEF PortsFit
  <2> QED
    BY <2>3, <2>4, <1>1, <1>3 DEF PniFits, RingsFit, cyberVars
<1> QED
  BY <1>2, <1>4, <1>5 DEF PniFits

LEMMA PniStartFits == ASSUME PniInit PROVE PniFits
<1> USE DEF PniInit
<1>1. setting \in Settings /\ setting.users \in Nat
  BY PniAssumption
<1>2. LinesFit
  BY <1>1 DEF LinesFit, Links
<1>3. PortsFit
  BY DEF PortsFit, PortParams, NewPort, EscStates
<1>4. SentFits
  BY PniSizes DEF SentFits
<1>5. StoreFits
  BY <1>2, NoStoreFits, PniSizes DEF StoreFits, StorePlaces, PniThreads
<1>6. KeysFit
  BY <1>2, EmptyFits DEF KeysFit
<1>7. CyberFits
  <2>1. session \in [Stations -> 0 .. setting.users]
    BY <1>1
  <2>2. await \in [Stations -> {"nothing", "pts", "abt"}]
    OBVIOUS
  <2> QED
    BY <2>1, <2>2 DEF CyberFits
<1>8. RingsFit /\ MainFits
  BY PniSizes DEF RingsFit, MainFits
<1> QED
  BY <1>2, <1>3, <1>4, <1>5, <1>6, <1>7, <1>8 DEF PniFits

\* Every variable holds what it is for.
LEMMA PniStepFits == ASSUME PniFits, [PniNext]_pniVars PROVE PniFits'
<1>1. CASE UNCHANGED pniVars
  BY <1>1, FrameFits DEF pniVars, userVars, termVars, keyVars, cyberVars, mainVars, PniFits
<1>2. ASSUME NEW p \in Stations, Terminal(p) \/ Xon(p) \/ Drain(p) PROVE PniFits'
  BY <1>2, ArriveFits, TypeFits, XoffFits, BreakFits, DrainFits DEF Terminal
<1>3. ASSUME NEW p \in Stations, PniDataThread(p) PROVE PniFits'
  <2>1. p \in PniThreads
    BY PniSizes
  <2> QED
    BY <1>3, <2>1, WelcomeFits, ReadByteFits, WriteFlowFits, ForceLogoutFits, StoreKeyFits, DepartFits, ClosedFits
       DEF PniDataThread
<1>4. CASE Check
  BY <1>4, pniCheckFits, MessageFits, MessageDoneFits, PortRequestsFits, StoreKeyFits, PniSizes DEF Check
<1> QED
  BY <1>1, <1>2, <1>3, <1>4, PniOnFits, PniOffFits, PlatoFits, FramatFits, FramatTakeFits DEF PniNext

-----------------------------------------------------------------------------
(* Keys are decoded as they were typed: between two keys, within a stroke, or at an XON or *)
(* XOFF, the decoder is where the bytes that came have led it.                             *)

\* The key of a stroke.
KeyOf(p, s) == [class |-> s.key, user |-> user[p], n |-> Len(decoded[p]) + 1]

\* The bytes of stroke s that are left after the first j, and what they are going to give.
RestOfStroke(p, s, q, j) ==
    /\ Decodes(s, q)
    /\ j + Len(bytes[p]) <= Len(s.bytes)
    /\ \A i \in 1 .. Len(bytes[p]) :
           bytes[p][i].byte = s.bytes[j + i] /\ bytes[p][i].n = Len(decoded[p]) + 1
    /\ pp[p].escState = q[j + 1]
    /\ j + Len(bytes[p]) < Len(s.bytes) => link[p] = "gone"
    /\ IF j + Len(bytes[p]) = Len(s.bytes) /\ s.key # "none"
       THEN typed[p] = Append(decoded[p], KeyOf(p, s)) ELSE typed[p] = decoded[p]

DecoderStates(s) == [1 .. Len(s.bytes) + 1 -> EscStates]
MidStroke(p) == \E s \in Strokes : \E q \in DecoderStates(s), j \in 0 .. Len(s.bytes) : RestOfStroke(p, s, q, j)

FlowByte(p) ==
    /\ Len(bytes[p]) = 1 /\ bytes[p][1].byte \in {"xon", "xoff"}
    /\ pp[p].escState = "norm" /\ typed[p] = decoded[p]

Decoder(p) ==
    /\ bytes[p] # <<>> => link[p] \in {"up", "gone"} /\ (FlowByte(p) \/ MidStroke(p))
    /\ bytes[p] = <<>> => typed[p] = decoded[p]
    /\ bytes[p] = <<>> /\ link[p] \in {"test", "activate", "up"} => pp[p].escState = "norm"

DecoderInv == \A p \in Stations : Decoder(p)

\* A step that leaves a connection's line and its decoder alone; the connection may break.
LEMMA DecoderFrame ==
    ASSUME NEW p \in Stations, Decoder(p), bytes'[p] = bytes[p], typed'[p] = typed[p],
           decoded'[p] = decoded[p], user'[p] = user[p], pp'[p].escState = pp[p].escState,
           link'[p] = link[p] \/ (link[p] = "up" /\ link'[p] = "gone")
    PROVE  Decoder(p)'
<1>1. FlowByte(p) => FlowByte(p)'
  BY DEF FlowByte
<1>2. \A s, q, j : RestOfStroke(p, s, q, j) => RestOfStroke(p, s, q, j)'
  <2> TAKE s, q, j
  <2>1. KeyOf(p, s)' = KeyOf(p, s)
    BY DEF KeyOf
  <2> QED
    BY <2>1 DEF RestOfStroke
<1>3. MidStroke(p) => MidStroke(p)'
  BY <1>2 DEF MidStroke
<1> QED
  BY <1>1, <1>3 DEF Decoder

\* The prefixes of a sequence, and what they leave.
LEMMA PrefixHolds ==
    ASSUME NEW S, NEW s \in Seq(S), NEW e \in S
    PROVE  IsPrefix(s, s) /\ IsPrefix(s, Append(s, e)) /\ Append(s, e) # s
<1>1. SubSeq(s, 1, Len(s)) = s
  OBVIOUS
<1>2. Append(s, e) \in Seq(S) /\ Len(Append(s, e)) = Len(s) + 1
  OBVIOUS
<1>3. SubSeq(Append(s, e), 1, Len(s)) = s
  BY <1>2
<1>4. Len(s) \in Nat /\ Len(s) <= Len(Append(s, e)) /\ Len(s) <= Len(s)
  BY <1>2
<1>5. Append(s, e) # s
  BY <1>2, <1>4
<1>6. IsPrefix(s, s)
  BY <1>4, Zenon DEF IsPrefix
<1>7. IsPrefix(s, Append(s, e))
  BY <1>1, <1>3, <1>4, Zenon DEF IsPrefix
<1> QED
  BY <1>5, <1>6, <1>7

\* What is left of a sequence.
LEMMA TailHolds ==
    ASSUME NEW S, NEW s \in Seq(S), s # <<>>
    PROVE  /\ Head(s) = s[1] /\ Head(s) \in S /\ Tail(s) \in Seq(S) /\ Len(s) \in Nat /\ Len(s) >= 1
           /\ Len(Tail(s)) = Len(s) - 1 /\ \A i \in 1 .. Len(s) - 1 : Tail(s)[i] = s[i + 1]
           /\ Len(s) = 1 => Tail(s) = <<>>
           /\ Len(s) > 1 => Tail(s) # <<>>
<1>1. Len(s) \in Nat /\ Len(s) >= 1
  OBVIOUS
<1>2. Head(s) = s[1] /\ Head(s) \in S
  OBVIOUS
<1>3. Tail(s) \in Seq(S) /\ Len(Tail(s)) = Len(s) - 1
  OBVIOUS
<1>4. \A i \in 1 .. Len(s) - 1 : Tail(s)[i] = s[i + 1]
  OBVIOUS
<1>5. Len(Tail(s)) = 0 <=> Tail(s) = <<>>
  BY <1>3, EmptySeq
<1>6. (Len(s) = 1 => Tail(s) = <<>>) /\ (Len(s) > 1 => Tail(s) # <<>>)
  BY <1>1, <1>3, <1>5
<1> QED
  BY <1>1, <1>2, <1>3, <1>4, <1>5, <1>6

\* The types that decoding needs.
LEMMA LineHolds ==
    ASSUME PniFits, NEW p \in Stations
    PROVE  /\ typed[p] \in Seq(PniKeys) /\ decoded[p] \in Seq(PniKeys) /\ bytes[p] \in Seq(RawBytes)
           /\ link[p] \in Links /\ user[p] \in 0 .. setting.users
           /\ Len(bytes[p]) \in Nat /\ Len(typed[p]) \in Nat /\ Len(decoded[p]) \in Nat
<1>1. /\ typed[p] \in Seq(PniKeys) /\ decoded[p] \in Seq(PniKeys) /\ bytes[p] \in Seq(RawBytes)
      /\ link[p] \in Links
  BY DEF PniFits, LinesFit
<1>2. user[p] \in 0 .. setting.users
  BY PniAssumption DEF PniFits, LinesFit
<1> QED
  BY <1>1, <1>2

\* What the decoder's invariant promises.
LEMMA DecoderMeans == ASSUME PniFits, DecoderInv PROVE KeysDecoded
<1> SUFFICES ASSUME NEW p \in Stations
             PROVE  IsPrefix(decoded[p], typed[p]) /\ (link[p] = "up" /\ bytes[p] = <<>> => decoded[p] = typed[p])
  BY DEF KeysDecoded
<1>1. decoded[p] \in Seq(PniKeys) /\ user[p] \in 0 .. setting.users /\ Len(decoded[p]) + 1 \in Nat
  BY LineHolds
<1>2. \A s \in Strokes : KeyOf(p, s) \in PniKeys
  BY <1>1, StrokeHolds DEF KeyOf, PniKeys
<1>3. typed[p] = decoded[p] \/ \E s \in Strokes : typed[p] = Append(decoded[p], KeyOf(p, s))
  BY DEF DecoderInv, Decoder, FlowByte, MidStroke, RestOfStroke
<1>4. IsPrefix(decoded[p], typed[p])
  <2>1. ASSUME typed[p] = decoded[p] PROVE IsPrefix(decoded[p], typed[p])
    <3>1. OFFKY2 \in PniKeys
      BY OwnKeys DEF PniFits
    <3> QED
      BY <2>1, <3>1, <1>1, PrefixHolds
  <2>2. ASSUME NEW s \in Strokes, typed[p] = Append(decoded[p], KeyOf(p, s)) PROVE IsPrefix(decoded[p], typed[p])
    BY <2>2, <1>1, <1>2, PrefixHolds
  <2> QED
    BY <1>3, <2>1, <2>2
<1> QED
  BY <1>4 DEF DecoderInv, Decoder

\* A key is pressed.
LEMMA TypeDecoder == ASSUME PniFits, NEW p \in Stations, Decoder(p), Type(p) PROVE Decoder(p)'
<1>1. PICK s \in Strokes, k \in 1 .. 6 :
        LET n == Len(typed[p]) + 1
            whole == k = Len(s.bytes)
        IN  /\ link[p] = "up" /\ s.key \in setting.kinds /\ n <= setting.strokes /\ k <= Len(s.bytes)
            /\ bytes[p] = <<>>
            /\ bytes' = [bytes EXCEPT ![p] = [i \in 1 .. k |-> [byte |-> s.bytes[i], n |-> n]]]
            /\ typed' = IF whole /\ s.key # "none"
                        THEN [typed EXCEPT ![p] = Append(@, [class |-> s.key, user |-> user[p],
                                                             n |-> n])]
                        ELSE typed
            /\ link' = IF whole THEN link ELSE [link EXCEPT ![p] = "gone"]
            /\ UNCHANGED <<pniActive, pp, stopped, stops, keyVars, cyberVars, apnifb, mainVars,
                           sent, decoded, userVars, loads>>
  BY DEF Type
<1>2. bytes \in [Stations -> Seq(RawBytes)] /\ typed \in [Stations -> Seq(PniKeys)] /\ link \in [Stations -> Links]
  BY DEF PniFits, LinesFit
<1>3. typed[p] = decoded[p] /\ pp[p].escState = "norm"
  BY <1>1 DEF Decoder
<1>4. UNCHANGED <<pp, decoded, user>>
  BY <1>1 DEF userVars
<1>5. bytes'[p] = [i \in 1 .. k |-> [byte |-> s.bytes[i], n |-> Len(typed[p]) + 1]]
  BY <1>1, <1>2
<1>6. Len(bytes'[p]) = k /\ k >= 1 /\ k \in Nat
  BY <1>5
<1>7. Len(s.bytes) \in Nat /\ k <= Len(s.bytes)
  BY <1>1, StrokeHolds
<1>8. PICK q \in DecoderStates(s) : Decodes(s, q)
  BY StrokesAssumption DEF DecoderStates
<1>9. RestOfStroke(p, s, q, 0)'
  <2>1. 0 + Len(bytes'[p]) <= Len(s.bytes) /\ pp'[p].escState = q[0 + 1]
    BY <1>3, <1>4, <1>6, <1>7, <1>8 DEF Decodes
  <2>2. \A i \in 1 .. Len(bytes'[p]) :
           bytes'[p][i].byte = s.bytes[0 + i] /\ bytes'[p][i].n = Len(decoded'[p]) + 1
    BY <1>3, <1>4, <1>5, <1>6
  <2>3. 0 + Len(bytes'[p]) < Len(s.bytes) => link'[p] = "gone"
    BY <1>1, <1>2, <1>6, <1>7
  <2>4. IF 0 + Len(bytes'[p]) = Len(s.bytes) /\ s.key # "none"
        THEN typed'[p] = Append(decoded'[p], KeyOf(p, s)') ELSE typed'[p] = decoded'[p]
    <3>1. KeyOf(p, s)' = [class |-> s.key, user |-> user[p], n |-> Len(typed[p]) + 1]
      BY <1>3, <1>4 DEF KeyOf
    <3>2. CASE k = Len(s.bytes) /\ s.key # "none"
      BY <3>1, <3>2, <1>1, <1>2, <1>3, <1>4, <1>6
    <3>3. CASE ~(k = Len(s.bytes) /\ s.key # "none")
      BY <3>3, <1>1, <1>3, <1>4, <1>6
    <3> QED
      BY <3>2, <3>3
  <2> QED
    BY <2>1, <2>2, <2>3, <2>4, <1>8 DEF RestOfStroke
<1>10. MidStroke(p)'
  <2>1. 0 \in 0 .. Len(s.bytes)
    BY <1>7
  <2> QED
    BY <2>1, <1>8, <1>9 DEF MidStroke
<1>11. bytes'[p] # <<>> /\ link'[p] \in {"up", "gone"}
  BY <1>1, <1>2, <1>6
<1> QED
  BY <1>10, <1>11 DEF Decoder

\* XOFF or XON comes.
LEMMA FlowDecoder ==
    ASSUME PniFits, NEW p \in Stations, Decoder(p), NEW byte \in {"xon", "xoff"}, Flow(p, byte)
    PROVE  Decoder(p)'
<1>1. /\ link[p] = "up" /\ bytes[p] = <<>> /\ bytes' = [bytes EXCEPT ![p] = <<[byte |-> byte, n |-> 0]>>]
      /\ UNCHANGED <<pp, link, typed, decoded>>
  BY DEF Flow
<1>2. bytes'[p] = <<[byte |-> byte, n |-> 0]>>
  BY <1>1 DEF PniFits, LinesFit
<1>3. Len(bytes'[p]) = 1 /\ bytes'[p][1].byte = byte /\ bytes'[p] # <<>>
  BY <1>2
<1> QED
  BY <1>1, <1>3 DEF Decoder, FlowByte

\* A byte is read.
LEMMA ReadByteDecoder == ASSUME PniFits, NEW p \in Stations, Decoder(p), ReadByte(p) PROVE Decoder(p)'
<1> DEFINE B == bytes[p]
           b == Head(B).byte
           s == pp[p].escState
           class == KeyClass(s, b, pp[p].newKbd)
           key == [class |-> class, user |-> user[p], n |-> Head(B).n]
<1>1. /\ link[p] \in {"up", "gone"} /\ B # <<>>
      /\ bytes' = [bytes EXCEPT ![p] = Tail(B)]
      /\ decoded' = IF class # "none" /\ b \notin {"xon", "xoff"}
                    THEN [decoded EXCEPT ![p] = Append(decoded[p], key)] ELSE decoded
      /\ UNCHANGED <<link, typed, userVars>>
  BY DEF ReadByte, PniFits, LinesFit
<1>2. B \in Seq(RawBytes) /\ Len(B) \in Nat /\ Len(B) >= 1 /\ Head(B) = B[1] /\ bytes'[p] = Tail(B)
      /\ decoded[p] \in Seq(PniKeys) /\ Len(decoded[p]) \in Nat
  <2>1. bytes \in [Stations -> Seq(RawBytes)] /\ B \in Seq(RawBytes)
    BY DEF PniFits, LinesFit
  <2> QED
    BY <2>1, <1>1, LineHolds
<1>3. pp'[p].escState = EscState(s, b) /\ pp[p].newKbd \in BOOLEAN
  BY PortHolds DEF ReadByte, PniFits, PortsFit, PortParams
<1>4. decoded'[p] = IF class # "none" /\ b \notin {"xon", "xoff"} THEN Append(decoded[p], key) ELSE decoded[p]
  BY <1>1 DEF PniFits, LinesFit
<1>5. /\ Len(Tail(B)) = Len(B) - 1 /\ \A i \in 1 .. Len(B) - 1 : Tail(B)[i] = B[i + 1]
      /\ Len(B) = 1 => Tail(B) = <<>>
      /\ Len(B) > 1 => Tail(B) # <<>>
  BY <1>1, <1>2, TailHolds
<1>6. Len(B) \in Nat /\ Len(B) >= 1 /\ bytes'[p] = Tail(B)
  BY <1>2
<1>7. Len(B) = 1 \/ Len(B) > 1
  <2>1. \A n \in Nat : n >= 1 => n = 1 \/ n > 1
    OBVIOUS
  <2> QED
    BY <2>1, <1>6, Zenon
<1>8. CASE FlowByte(p)
  <2>1. b \in {"xon", "xoff"} /\ s = "norm" /\ typed[p] = decoded[p] /\ Len(B) = 1
    BY <1>2, <1>8 DEF FlowByte
  <2>2. Tail(B) = <<>>
    BY <2>1, <1>5
  <2>3. decoded'[p] = decoded[p] /\ typed'[p] = typed[p]
    BY <2>1, <1>1, <1>4
  <2>4. EscState(s, b) = "norm"
    BY <2>1 DEF EscState
  <2> QED
    BY <2>1, <2>2, <2>3, <2>4, <1>2, <1>3 DEF Decoder
<1>9. CASE MidStroke(p)
  <2>1. PICK z \in Strokes : \E q \in DecoderStates(z), j \in 0 .. Len(z.bytes) : RestOfStroke(p, z, q, j)
    BY <1>9 DEF MidStroke
  <2>2. PICK q \in DecoderStates(z), j \in 0 .. Len(z.bytes) : RestOfStroke(p, z, q, j)
    BY <2>1
  <2>3. Len(z.bytes) \in Nat \ {0} /\ (\A i \in 1 .. Len(z.bytes) : z.bytes[i] \in Codes) /\ DOMAIN z.bytes = 1 .. Len(z.bytes)
    BY StrokeHolds
  <2>4. j \in Nat /\ j + Len(B) <= Len(z.bytes) /\ j + 1 \in 1 .. Len(z.bytes)
    BY <2>2, <2>3, <1>2 DEF RestOfStroke
  <2>5. b = z.bytes[j + 1] /\ Head(B).n = Len(decoded[p]) + 1
    BY <2>2, <1>2 DEF RestOfStroke
  <2>6. s = q[j + 1]
    BY <2>2 DEF RestOfStroke
  <2>7. /\ q[j + 1 + 1] = EscState(s, b)
        /\ class = IF j + 1 = Len(z.bytes) THEN z.key ELSE "none"
        /\ q[Len(z.bytes) + 1] = "norm"
    BY <2>2, <2>3, <2>4, <2>5, <2>6, <1>3 DEF RestOfStroke, Decodes
  <2>8. b \notin {"xon", "xoff"}
    BY <2>3, <2>4, <2>5 DEF Codes
  <2>9. j + 1 = Len(z.bytes) => key = KeyOf(p, z)
    BY <2>5, <2>7 DEF KeyOf
  <2>10. UNCHANGED <<typed, link, user>>
    BY <1>1 DEF userVars
  <2>11. IF j + Len(B) = Len(z.bytes) /\ z.key # "none"
         THEN typed[p] = Append(decoded[p], KeyOf(p, z)) ELSE typed[p] = decoded[p]
    BY <2>2 DEF RestOfStroke
  <2>12. j + Len(B) < Len(z.bytes) => link[p] = "gone"
    BY <2>2 DEF RestOfStroke
  <2> HIDE DEF class, key, b, s, B
  <2>13. CASE Len(B) = 1
    <3>1. bytes'[p] = <<>>
      BY <2>13, <1>5, <1>6
    <3>2. typed'[p] = decoded'[p]
      <4>1. CASE j + 1 = Len(z.bytes) /\ z.key # "none"
        BY <4>1, <2>13, <2>7, <2>8, <2>9, <2>10, <2>11, <1>4
      <4>2. CASE ~(j + 1 = Len(z.bytes) /\ z.key # "none")
        BY <4>2, <2>13, <2>7, <2>10, <2>11, <1>4
      <4> QED
        BY <4>1, <4>2
    <3>3. link[p] # "gone" => pp'[p].escState = "norm"
      <4>1. link[p] # "gone" => j + 1 = Len(z.bytes)
        BY <2>3, <2>4, <2>12, <2>13
      <4> QED
        BY <4>1, <2>7, <1>3
    <3> QED
      BY <3>1, <3>2, <3>3, <2>10 DEF Decoder
  <2>14. CASE Len(B) > 1
    <3>1. class = "none" /\ decoded'[p] = decoded[p] /\ j + 1 < Len(z.bytes)
      BY <2>3, <2>4, <2>7, <2>14, <1>6, <1>4
    <3>2. bytes'[p] # <<>> /\ Len(bytes'[p]) = Len(B) - 1
      BY <2>14, <1>5, <1>6
    <3>3. j + 1 + Len(bytes'[p]) = j + Len(B)
      BY <3>2, <2>4, <1>6
    <3>4. \A i \in 1 .. Len(bytes'[p]) :
            bytes'[p][i].byte = z.bytes[j + 1 + i] /\ bytes'[p][i].n = Len(decoded'[p]) + 1
      <4> SUFFICES ASSUME NEW i \in 1 .. Len(B) - 1
                   PROVE  Tail(B)[i].byte = z.bytes[j + 1 + i] /\ Tail(B)[i].n = Len(decoded[p]) + 1
        BY <3>1, <3>2, <1>6
      <4>1. i + 1 \in 1 .. Len(B) /\ j + (i + 1) = j + 1 + i
        BY <2>4, <1>6
      <4>2. B[i + 1].byte = z.bytes[j + (i + 1)] /\ B[i + 1].n = Len(decoded[p]) + 1
        BY <4>1, <2>2 DEF RestOfStroke, B
      <4> QED
        BY <4>1, <4>2, <1>5
    <3>5. KeyOf(p, z)' = KeyOf(p, z)
      BY <3>1, <2>10 DEF KeyOf
    <3>6. RestOfStroke(p, z, q, j + 1)'
      <4>1. Decodes(z, q) /\ pp'[p].escState = q[j + 1 + 1]
        BY <2>2, <2>7, <1>3 DEF RestOfStroke, s
      <4>2. j + 1 + Len(bytes'[p]) <= Len(z.bytes)
            /\ (j + 1 + Len(bytes'[p]) < Len(z.bytes) => link'[p] = "gone")
        BY <3>3, <2>4, <2>10, <2>12
      <4>3. IF j + 1 + Len(bytes'[p]) = Len(z.bytes) /\ z.key # "none"
            THEN typed'[p] = Append(decoded'[p], KeyOf(p, z)') ELSE typed'[p] = decoded'[p]
        BY <3>1, <3>3, <3>5, <2>10, <2>11
      <4> QED
        BY <4>1, <4>2, <4>3, <3>4 DEF RestOfStroke
    <3>7. MidStroke(p)'
      <4>1. j + 1 \in 0 .. Len(z.bytes)
        BY <2>4
      <4> QED
        BY <4>1, <3>6, <2>2 DEF MidStroke
    <3> QED
      BY <3>2, <3>7, <2>10, <1>1 DEF Decoder
  <2> QED
    BY <2>13, <2>14, <1>7
<1> QED
  BY <1>1, <1>8, <1>9 DEF Decoder

\* The steps of a connection leave the other connections' lines alone.
LineOnly(p) ==
    \A r \in Stations \ {p} :
        /\ bytes'[r] = bytes[r] /\ typed'[r] = typed[r] /\ decoded'[r] = decoded[r] /\ user'[r] = user[r]
        /\ link'[r] = link[r] /\ pp'[r].escState = pp[r].escState

LEMMA OneLine ==
    ASSUME DecoderInv, NEW p \in Stations, LineOnly(p), Decoder(p)'
    PROVE  DecoderInv'
BY DecoderFrame DEF LineOnly, DecoderInv

\* A step that does not touch the lines.
LEMMA NoLine ==
    ASSUME DecoderInv, UNCHANGED <<bytes, typed, decoded, user, link>>,
           \A p \in Stations : pp'[p].escState = pp[p].escState
    PROVE  DecoderInv'
BY DecoderFrame DEF DecoderInv

LEMMA TerminalDecoder ==
    ASSUME PniFits, DecoderInv, NEW p \in Stations, Terminal(p) \/ Xon(p)
    PROVE  DecoderInv'
<1>1. /\ link \in [Stations -> Links] /\ bytes \in [Stations -> Seq(RawBytes)] /\ user \in [Stations -> 0 .. users]
      /\ typed \in [Stations -> Seq(PniKeys)] /\ decoded \in [Stations -> Seq(PniKeys)]
  BY DEF PniFits, LinesFit
<1>2. Decoder(p)
  BY DEF DecoderInv
<1>3. CASE Arrive(p)
  <2>1. LineOnly(p)
    BY <1>1, <1>3 DEF Arrive, LineOnly
  <2>2. Decoder(p)'
    BY <1>1, <1>2, <1>3 DEF Arrive, Decoder
  <2> QED
    BY <2>1, <2>2, OneLine
<1>4. CASE Type(p)
  <2>1. LineOnly(p)
    BY <1>1, <1>4 DEF Type, LineOnly, userVars
  <2> QED
    BY <2>1, <1>2, <1>4, TypeDecoder, OneLine
<1>5. ASSUME NEW byte \in {"xon", "xoff"}, Flow(p, byte) PROVE DecoderInv'
  <2>1. LineOnly(p)
    BY <1>1, <1>5 DEF Flow, LineOnly, userVars
  <2> QED
    BY <2>1, <1>2, <1>5, FlowDecoder, OneLine
<1>6. CASE Break(p)
  <2>1. LineOnly(p)
    BY <1>1, <1>6 DEF Break, LineOnly, userVars, termVars
  <2>2. Decoder(p)'
    BY <1>1, <1>2, <1>6, DecoderFrame DEF Break, userVars, termVars
  <2> QED
    BY <2>1, <2>2, OneLine
<1> QED
  BY <1>3, <1>4, <1>5, <1>6 DEF Terminal, Xoff, Xon

LEMMA DataThreadDecoder ==
    ASSUME PniFits, DecoderInv, NEW p \in Stations, PniDataThread(p)
    PROVE  DecoderInv'
<1>1. /\ link \in [Stations -> Links] /\ bytes \in [Stations -> Seq(RawBytes)] /\ user \in [Stations -> 0 .. users]
      /\ typed \in [Stations -> Seq(PniKeys)] /\ decoded \in [Stations -> Seq(PniKeys)]
      /\ pp \in [Stations -> PortParams] /\ pp[p] \in PortParams
  BY DEF PniFits, LinesFit, PortsFit
<1>2. Decoder(p)
  BY DEF DecoderInv
<1>3. CASE Welcome(p)
  <2>1. /\ UNCHANGED <<bytes, typed, decoded, user>>
        /\ \A r \in Stations \ {p} : pp'[r] = pp[r] /\ link'[r] = link[r]
    BY <1>1, <1>3 DEF Welcome, WelcomeState, WelcomeForce, pniActivateStation, termVars, userVars
  <2>2. /\ link[p] \in {"welcome", "test", "activate"}
        /\ link[p] = "welcome" => pp'[p].escState = "norm"
        /\ link[p] # "welcome" => pp'[p].escState = pp[p].escState
    BY <1>1, <1>3 DEF Welcome, WelcomeState, WelcomeForce, pniActivateStation, PortParams
  <2>3. bytes[p] = <<>> /\ pp'[p].escState = "norm"
    BY <2>2, <1>2 DEF Decoder
  <2>4. Decoder(p)'
    BY <2>1, <2>3, <1>2 DEF Decoder
  <2> QED
    BY <2>1, <2>4, OneLine DEF LineOnly
<1>4. CASE ReadByte(p)
  <2>1. LineOnly(p)
    BY <1>1, <1>4 DEF ReadByte, LineOnly, userVars
  <2> QED
    BY <2>1, <1>2, <1>4, ReadByteDecoder, OneLine
<1>5. CASE Depart(p) \/ Closed(p)
  <2>1. LineOnly(p)
    BY <1>1, <1>5 DEF Depart, Closed, LineOnly, termVars, userVars
  <2>2. bytes[p] = <<>> /\ UNCHANGED <<bytes, typed, decoded>> /\ link'[p] \in {"closing", "free"}
    BY <1>1, <1>2, <1>5 DEF Depart, Closed, termVars, Decoder
  <2>3. Decoder(p)'
    BY <2>2, <1>2 DEF Decoder
  <2> QED
    BY <2>1, <2>3, OneLine
<1>6. CASE WriteFlow(p) \/ ForceLogout(p)
  <2>1. UNCHANGED <<bytes, typed, decoded, user, link>>
    BY <1>6 DEF WriteFlow, ForceLogout, termVars, userVars
  <2>2. \A r \in Stations : pp'[r].escState = pp[r].escState
    <3>1. CASE WriteFlow(p)
      BY <1>1, <3>1 DEF WriteFlow, PortParams
    <3>2. CASE ForceLogout(p)
      BY <1>1, <3>2 DEF ForceLogout, PortParams
    <3> QED
      BY <1>6, <3>1, <3>2
  <2> QED
    BY <2>1, <2>2, NoLine
<1>7. CASE storeKey(p)
  BY <1>7, NoLine DEF storeKey, termVars, userVars
<1> QED
  BY <1>3, <1>4, <1>5, <1>6, <1>7 DEF PniDataThread

LEMMA MainDecoder ==
    ASSUME PniFits, DecoderInv, PniOn \/ PniOff \/ Plato \/ Framat \/ FramatTake \/ Check \/ (\E p \in Stations : Drain(p))
    PROVE  DecoderInv'
<1>1. pp \in [Stations -> PortParams]
  BY DEF PniFits, PortsFit
<1>2. UNCHANGED <<bytes, typed, decoded, user, link>>
  BY DEF PniOn, PniOff, Plato, PlatoScan, PlatoTake, PlatoDone, Framat, FramatSend, FramatTake, Check, pniCheck,
     Message, MessageDone, MessagesDone, PortRequests, storeKey, Drain, InCyber, termVars, userVars
<1>3. \A p \in Stations : pp'[p].escState = pp[p].escState
  <2>1. CASE PniOn
    BY <1>1, <2>1 DEF PniOn, PortParams
  <2>2. CASE PniOff \/ Plato \/ Framat \/ FramatTake \/ \E p \in Stations : Drain(p)
    BY <2>2 DEF PniOff, Plato, PlatoScan, PlatoTake, PlatoDone, Framat, FramatSend, FramatTake, Drain
  <2>3. CASE pniCheck \/ MessagesDone \/ storeKey(main)
    BY <2>3 DEF pniCheck, MessagesDone, storeKey
  <2>4. CASE Message
    BY <1>1, <2>4 DEF Message, DataMessage, PortParams
  <2>5. CASE MessageDone
    BY <1>1, <2>5 DEF MessageDone, PortParams
  <2>6. CASE PortRequests
    BY <1>1, <2>6 DEF PortRequests, PortParams
  <2> QED
    BY <2>1, <2>2, <2>3, <2>4, <2>5, <2>6 DEF Check
<1> QED
  BY <1>2, <1>3, NoLine

LEMMA DecoderStep == ASSUME PniFits, DecoderInv, [PniNext]_pniVars PROVE DecoderInv'
<1>1. CASE UNCHANGED pniVars
  BY <1>1, NoLine DEF pniVars, termVars, userVars
<1> QED
  BY <1>1, TerminalDecoder, DataThreadDecoder, MainDecoder DEF PniNext

LEMMA DecoderStart == ASSUME PniInit PROVE DecoderInv
BY DEF PniInit, DecoderInv, Decoder

-----------------------------------------------------------------------------
(* Keys are announced: a buffer that is not empty has its bit set, or its keys are being  *)
(* taken, or a thread that stores a key there has its bit still to set.                   *)

WriteRight == \A t \in PniThreads : store[t].at = "write" => "abt" \in setting.cases
AnnounceInv == Announced /\ WriteRight

\* The threads that are storing.
LEMMA StoringFrame ==
    ASSUME NEW t, store'[t] = store[t]
    PROVE  (Storing(t)' <=> Storing(t)) /\ store'[t].stat = store[t].stat
BY DEF Storing

\* A step that takes no bit away and puts no key into a buffer.
LEMMA AnnounceFrame ==
    ASSUME AnnounceInv, UNCHANGED setting,
           \A p \in Stations : kb'[p].cpidx # kb'[p].ppidx =>
               kb[p].cpidx # kb[p].ppidx /\ (p \in abt \cup taking => p \in abt' \cup taking'),
           \A t \in PniThreads : store'[t] = store[t] \/ (~Storing(t) /\ store'[t].at # "write")
    PROVE  AnnounceInv'
<1>1. \A t \in PniThreads : /\ Storing(t) => Storing(t)' /\ store'[t].stat = store[t].stat
                            /\ store'[t].at = "write" => store[t].at = "write"
  BY StoringFrame DEF Storing
<1>2. WriteRight'
  BY <1>1 DEF AnnounceInv, WriteRight
<1>3. Announced'
  BY <1>1 DEF AnnounceInv, Announced
<1> QED
  BY <1>2, <1>3 DEF AnnounceInv

\* storeKey: the bit of the key's station is set last.
LEMMA StoreAnnounced ==
    ASSUME PniFits, AnnounceInv, NEW t \in PniThreads, storeKey(t),
           \A s \in Settings : "abt" \in s.cases => pniStations = 1
    PROVE  AnnounceInv'
<1>1. UNCHANGED <<taking, setting>>
  BY DEF storeKey, cyberVars, userVars
<1>2. /\ store \in [PniThreads -> Stores] /\ kb \in [Stations -> Keybufs] /\ store[t] \in Stores
      /\ store[t].stat \in Stations /\ LinesFit /\ StoreFits
  BY DEF PniFits, StoreFits, KeysFit, Stores
<1>3. ASSUME UNCHANGED <<kb, abt>>, ~Storing(t), ~Storing(t)', \A u \in PniThreads \ {t} : store'[u] = store[u]
      PROVE  Announced'
  BY <1>1, <1>3, StoringFrame DEF AnnounceInv, Announced
<1>4. ASSUME Storing(t), Storing(t)', store'[t].stat = store[t].stat, \A u \in PniThreads \ {t} : store'[u] = store[u],
             UNCHANGED abt, \A p \in Stations \ {store[t].stat} : kb'[p] = kb[p]
      PROVE  Announced'
  <2>1. \A u \in PniThreads : Storing(u) => Storing(u)' /\ store'[u].stat = store[u].stat
    BY <1>4, StoringFrame
  <2> QED
    BY <1>1, <1>4, <2>1 DEF AnnounceInv, Announced
<1>5. CASE StoreIndex(t)
  <2>1. store[t].at = "index" /\ UNCHANGED <<kb, abt>>
    BY <1>5 DEF StoreIndex
  <2>2. CASE Finish(t)
    <3>1. store'[t] = NoStore /\ \A u \in PniThreads \ {t} : store'[u] = store[u]
      BY <2>2, <1>2, FinishFits
    <3>2. ~Storing(t) /\ ~Storing(t)' /\ store'[t].at # "write"
      BY <3>1, <2>1 DEF Storing, NoStore
    <3> QED
      BY <3>1, <3>2, <2>1, <1>1, <1>3 DEF AnnounceInv, WriteRight
  <2>3. CASE ~Finish(t)
    <3>1. PICK i : store' = [store EXCEPT ![t].at = "slot", ![t].idx = i]
      BY <1>5, <2>3 DEF StoreIndex
    <3>2. /\ store'[t] = [store[t] EXCEPT !.at = "slot", !.idx = i]
          /\ \A u \in PniThreads \ {t} : store'[u] = store[u]
      BY <3>1, <1>2
    <3>3. store'[t].at = "slot" /\ store'[t].stat = store[t].stat
      BY <3>2, <1>2 DEF Stores
    <3>4. Announced'
      BY <3>2, <3>3, <2>1, <1>1, StoringFrame DEF AnnounceInv, Announced, Storing
    <3> QED
      BY <3>2, <3>3, <3>4, <1>1 DEF AnnounceInv, WriteRight
  <2> QED
    BY <2>2, <2>3
<1>6. CASE StoreSlot(t) \/ StorePointer(t)
  <2>1. /\ store[t].at \in {"slot", "pointer"} /\ UNCHANGED abt
        /\ \E a \in {"pointer", "bit"} : store' = [store EXCEPT ![t].at = a]
        /\ \A p \in Stations \ {store[t].stat} : kb'[p] = kb[p]
    BY <1>2, <1>6 DEF StoreSlot, StorePointer
  <2>2. PICK a \in {"pointer", "bit"} : store' = [store EXCEPT ![t].at = a]
    BY <2>1
  <2>3. store'[t] = [store[t] EXCEPT !.at = a] /\ \A u \in PniThreads \ {t} : store'[u] = store[u]
    BY <2>2, <1>2
  <2>4. store'[t].at = a /\ store'[t].stat = store[t].stat
    BY <2>3, <1>2 DEF Stores
  <2>5. Storing(t) /\ Storing(t)' /\ store'[t].at # "write"
    BY <2>1, <2>2, <2>4 DEF Storing
  <2>6. Announced'
    BY <2>1, <2>3, <2>4, <2>5, <1>4
  <2> QED
    BY <2>3, <2>5, <2>6, <1>1 DEF AnnounceInv, WriteRight
<1>7. ASSUME Finish(t), UNCHANGED kb, store[t].stat \in abt', abt \subseteq abt' PROVE AnnounceInv'
  <2>1. store'[t] = NoStore /\ \A u \in PniThreads \ {t} : store'[u] = store[u]
    BY <1>7, <1>2, FinishFits
  <2>2. store'[t].at # "write"
    BY <2>1 DEF NoStore
  <2>3. \A p \in Stations \ {store[t].stat} :
            (\A u \in PniThreads : Storing(u)' => store'[u].stat # p) => \A u \in PniThreads : Storing(u) => store[u].stat # p
    BY <2>1, StoringFrame
  <2>4. Announced'
    BY <2>3, <1>1, <1>7 DEF AnnounceInv, Announced
  <2> QED
    BY <2>1, <2>2, <2>4, <1>1 DEF AnnounceInv, WriteRight
<1>8. CASE StoreBit(t)
  <2>1. store[t].at = "bit" /\ UNCHANGED kb
    BY <1>8 DEF StoreBit
  <2>2. CASE abt' = abt \cup {store[t].stat} /\ Finish(t)
    BY <2>1, <2>2, <1>7
  <2>3. CASE "abt" \in setting.cases /\ store' = [store EXCEPT ![t].at = "write", ![t].old = abt] /\ UNCHANGED abt
    <3>1. /\ store'[t] = [store[t] EXCEPT !.at = "write", !.old = abt]
          /\ \A u \in PniThreads \ {t} : store'[u] = store[u]
      BY <2>3, <1>2
    <3>2. store'[t].at = "write" /\ store'[t].stat = store[t].stat
      BY <3>1, <1>2 DEF Stores
    <3>3. Storing(t) /\ Storing(t)'
      BY <2>1, <3>2 DEF Storing
    <3>4. Announced'
      BY <2>1, <2>3, <3>1, <3>2, <3>3, <1>4
    <3> QED
      BY <3>1, <3>4, <2>3, <1>1 DEF AnnounceInv, WriteRight
  <2> QED
    BY <1>8, <2>2, <2>3 DEF StoreBit
<1>9. CASE StoreWrite(t)
  <2>1. store[t].at = "write" /\ UNCHANGED kb /\ Finish(t) /\ abt' = store[t].old \cup {store[t].stat}
    BY <1>9 DEF StoreWrite
  <2>2. "abt" \in setting.cases /\ setting \in Settings
    BY <2>1, <1>2 DEF AnnounceInv, WriteRight, LinesFit
  <2>3. pniStations = 1
    BY <2>2
  <2>4. Stations = {0}
    BY <2>3 DEF Stations
  <2>5. abt \subseteq {0} /\ store[t].stat = 0
    BY <2>4, <1>2 DEF PniFits, KeysFit
  <2> QED
    BY <2>1, <2>5, <1>7
<1> QED
  BY <1>5, <1>6, <1>8, <1>9 DEF storeKey

\* The other steps of the threads.
LEMMA ThreadAnnounced ==
    ASSUME PniFits, AnnounceInv, NEW t \in PniThreads, UNCHANGED <<kb, abt, taking, setting>>,
           ~Storing(t), store'[t].at # "write", \A u \in PniThreads \ {t} : store'[u] = store[u]
    PROVE  AnnounceInv'
BY AnnounceFrame

LEMMA DataThreadAnnounced ==
    ASSUME PniFits, AnnounceInv, NEW p \in Stations, PniDataThread(p), ~storeKey(p)
    PROVE  AnnounceInv'
<1>1. p \in PniThreads /\ StoreFits /\ LinesFit /\ store \in [PniThreads -> Stores]
  BY PniSizes DEF PniFits, StoreFits
<1>2. UNCHANGED <<kb, abt, taking, setting>>
  BY DEF PniDataThread, Welcome, ReadByte, WriteFlow, ForceLogout, Depart, Closed, keyVars, cyberVars, userVars
<1>3. CASE UNCHANGED store
  BY <1>2, <1>3, AnnounceFrame
<1>4. ASSUME NEW k \in {"force", "index"}, NEW key \in PniKeys, Begin(p, k, p, key), store[p].at = "idle"
      PROVE  AnnounceInv'
  <2>1. store'[p].at = k /\ \A u \in PniThreads \ {p} : store'[u] = store[u]
    BY <1>1, <1>4, BeginFits
  <2>2. ~Storing(p) /\ store'[p].at # "write"
    BY <2>1, <1>4 DEF Storing
  <2> QED
    BY <2>1, <2>2, <1>1, <1>2, ThreadAnnounced
<1>5. CASE ReadByte(p)
  <2>1. store[p].at = "idle" /\ ~Storing(p)
    BY <1>5 DEF ReadByte, Storing
  <2>2. \/ UNCHANGED store
        \/ \E key : Begin(p, "force", p, key)
        \/ \E f : store' = [store EXCEPT ![p].at = "flow", ![p].old = f]
    BY <1>5 DEF ReadByte
  <2>3. ASSUME NEW key, Begin(p, "force", p, key) PROVE AnnounceInv'
    <3>1. /\ store'[p] = [store[p] EXCEPT !.at = "force", !.stat = p, !.key = key]
          /\ \A u \in PniThreads \ {p} : store'[u] = store[u]
      BY <2>3, <1>1 DEF Begin
    <3>2. store'[p].at # "write"
      BY <3>1, <1>1 DEF Stores
    <3> QED
      BY <3>1, <3>2, <2>1, <1>1, <1>2, ThreadAnnounced
  <2>4. ASSUME NEW f, store' = [store EXCEPT ![p].at = "flow", ![p].old = f] PROVE AnnounceInv'
    <3>1. /\ store'[p] = [store[p] EXCEPT !.at = "flow", !.old = f]
          /\ \A u \in PniThreads \ {p} : store'[u] = store[u]
      BY <2>4, <1>1
    <3>2. store'[p].at # "write"
      BY <3>1, <1>1 DEF Stores
    <3> QED
      BY <3>1, <3>2, <2>1, <1>1, <1>2, ThreadAnnounced
  <2> QED
    BY <2>2, <2>3, <2>4, <1>3
<1>6. CASE WriteFlow(p)
  <2>1. store[p].at = "flow" /\ Finish(p)
    BY <1>6 DEF WriteFlow
  <2>2. store'[p] = NoStore /\ \A u \in PniThreads \ {p} : store'[u] = store[u]
    BY <2>1, <1>1, FinishFits
  <2>3. ~Storing(p) /\ store'[p].at # "write"
    BY <2>1, <2>2 DEF Storing, NoStore
  <2> QED
    BY <2>2, <2>3, <1>1, <1>2, ThreadAnnounced
<1>7. CASE ForceLogout(p)
  <2>1. store[p].at = "force" /\ \E key : store' = [store EXCEPT ![p].at = "index", ![p].key = key]
    BY <1>7 DEF ForceLogout
  <2>2. PICK key : store' = [store EXCEPT ![p].at = "index", ![p].key = key]
    BY <2>1
  <2>3. store'[p] = [store[p] EXCEPT !.at = "index", !.key = key] /\ \A u \in PniThreads \ {p} : store'[u] = store[u]
    BY <2>2, <1>1
  <2>4. ~Storing(p) /\ store'[p].at # "write"
    BY <2>1, <2>3, <1>1 DEF Storing, Stores
  <2> QED
    BY <2>3, <2>4, <1>1, <1>2, ThreadAnnounced
<1>8. CASE Depart(p)
  <2>1. store[p].at = "idle" /\ (UNCHANGED store \/ Begin(p, "index", p, OFFKY2))
    BY <1>8 DEF Depart
  <2> QED
    BY <2>1, <1>1, <1>3, <1>4, OwnKeys
<1>9. CASE Welcome(p) \/ Closed(p)
  BY <1>9, <1>3 DEF Welcome, Closed, keyVars
<1> QED
  BY <1>5, <1>6, <1>7, <1>8, <1>9 DEF PniDataThread

LEMMA PlatoAnnounced == ASSUME PniFits, AnnounceInv, Plato PROVE AnnounceInv'
<1>1. UNCHANGED <<store, setting>> /\ kb \in [Stations -> Keybufs]
  BY DEF Plato, PlatoScan, PlatoTake, PlatoDone, InCyber, keyVars, userVars, PniFits, KeysFit
<1>2. CASE PlatoScan
  BY <1>1, <1>2, AnnounceFrame DEF PlatoScan
<1>3. ASSUME NEW p \in Stations, PlatoTake(p) PROVE AnnounceInv'
  <2>1. /\ p \in taking /\ kb[p].cpidx # kb[p].ppidx /\ UNCHANGED <<abt, taking>>
        /\ \A r \in Stations \ {p} : kb'[r] = kb[r]
    BY <1>1, <1>3 DEF PlatoTake
  <2> QED
    BY <2>1, <1>1, AnnounceFrame
<1>4. ASSUME NEW p \in Stations, PlatoDone(p) PROVE AnnounceInv'
  <2>1. kb[p].cpidx = kb[p].ppidx /\ UNCHANGED <<kb, abt>> /\ taking' = taking \ {p}
    BY <1>4 DEF PlatoDone, keyVars
  <2> QED
    BY <2>1, <1>1, AnnounceFrame
<1> QED
  BY <1>2, <1>3, <1>4 DEF Plato

LEMMA AnnounceStep ==
    ASSUME PniFits, AnnounceInv, [PniNext]_pniVars, \A s \in Settings : "abt" \in s.cases => pniStations = 1
    PROVE  AnnounceInv'
<1>1. ASSUME UNCHANGED <<kb, abt, taking, setting, store>> PROVE AnnounceInv'
  BY <1>1, AnnounceFrame
<1>2. CASE UNCHANGED pniVars
  BY <1>1, <1>2 DEF pniVars, keyVars, cyberVars, userVars
<1>3. ASSUME NEW p \in Stations, Terminal(p) \/ Xon(p) \/ Drain(p) PROVE AnnounceInv'
  <2>1. UNCHANGED <<kb, abt, taking, setting, store>>
    BY <1>3 DEF Terminal, Arrive, Type, Xoff, Xon, Flow, Break, Drain, keyVars, cyberVars, userVars
  <2> QED
    BY <2>1, <1>1
<1>4. ASSUME NEW p \in Stations, PniDataThread(p) PROVE AnnounceInv'
  <2>1. p \in PniThreads
    BY PniSizes
  <2> QED
    BY <2>1, <1>4, DataThreadAnnounced, StoreAnnounced
<1>5. CASE PniOn
  <2>1. /\ kb' = [p \in Stations |-> EmptyKeybuf] /\ UNCHANGED <<store, setting>>
    BY <1>5 DEF PniOn, InCyber, userVars
  <2>2. \A p \in Stations : kb'[p].cpidx = kb'[p].ppidx
    BY <2>1 DEF EmptyKeybuf
  <2> QED
    BY <2>1, <2>2, AnnounceFrame
<1>6. CASE PniOff \/ Framat \/ FramatTake
  <2>1. UNCHANGED <<kb, abt, taking, setting, store>>
    BY <1>6 DEF PniOff, Framat, FramatSend, FramatTake, InCyber, keyVars, cyberVars, userVars
  <2> QED
    BY <2>1, <1>1
<1>7. CASE pniCheck \/ MessageDone \/ MessagesDone \/ PortRequests
  <2>1. UNCHANGED <<kb, abt, taking, setting, store>>
    BY <1>7 DEF pniCheck, MessageDone, MessagesDone, PortRequests, keyVars, cyberVars, userVars
  <2> QED
    BY <2>1, <1>1
<1>8. CASE Message
  <2>1. UNCHANGED <<kb, abt, taking, setting>> /\ (UNCHANGED store \/ Begin(main, "index", Head(fpnib).stat, TermType))
    BY <1>8 DEF Message, userVars
  <2>2. mainAt = "messages" /\ fpnib # <<>>
    BY <1>8 DEF Message
  <2>3. Head(fpnib) \in PniMessages
    BY <2>2 DEF PniFits, RingsFit
  <2>4. Head(fpnib).stat \in Stations /\ store[main].at = "idle" /\ main \in PniThreads /\ StoreFits /\ TermType \in PniKeys
    BY <2>2, <2>3, PniSizes, OwnKeys DEF PniFits, StoreFits, PniMessages
  <2>5. CASE UNCHANGED store
    BY <2>1, <2>5, <1>1
  <2>6. CASE Begin(main, "index", Head(fpnib).stat, TermType)
    <3>1. store'[main].at = "index" /\ \A u \in PniThreads \ {main} : store'[u] = store[u]
      BY <2>4, <2>6, BeginFits
    <3>2. ~Storing(main) /\ store'[main].at # "write"
      BY <3>1, <2>4 DEF Storing
    <3> QED
      BY <3>1, <3>2, <2>1, <2>4, ThreadAnnounced
  <2> QED
    BY <2>1, <2>5, <2>6
<1>9. CASE storeKey(main)
  BY <1>9, StoreAnnounced, PniSizes
<1> QED
  BY <1>2, <1>3, <1>4, <1>5, <1>6, <1>7, <1>8, <1>9, PlatoAnnounced DEF PniNext, Check

LEMMA AnnounceStart == ASSUME PniInit PROVE AnnounceInv
BY DEF PniInit, AnnounceInv, Announced, WriteRight, EmptyKeybuf, NoStore

-----------------------------------------------------------------------------
\* What each variable holds is what the type invariant says.
LEMMA PniFitsTypes == ASSUME PniFits PROVE PniTypes
<1>1. \A p \in Stations : /\ pp[p].escState \in EscStates
                          /\ pp[p].flowFlags \subseteq {"XOFF", "TCP", "DOPTS", "DOABT"}
  BY PortHolds DEF PniFits, Flags
<1>2. \A p \in Stations : link[p] \in {"free", "welcome", "test", "activate", "up", "gone", "closing"}
  BY DEF PniFits, LinesFit, Links
<1>3. \A p \in Stations : kb[p].ppidx \in 0 .. IDXLIM - 1 /\ kb[p].cpidx \in 0 .. IDXLIM - 1
  BY DEF PniFits, KeysFit, Keybufs
<1>4. \A p \in Stations : /\ session[p] \in 0 .. setting.users /\ await[p] \in {"nothing", "pts", "abt"}
                          /\ sent[p] \in 0 .. SendRingSize - 1
  BY DEF PniFits, CyberFits, SentFits
<1>5. /\ pniActive \in BOOLEAN /\ port \in Stations
      /\ abt \subseteq Stations /\ taking \subseteq Stations /\ stopped \subseteq Stations
      /\ Len(apnifb) < pniflen
      /\ mainAt \in {"cpu", "store", "data", "messages", "ports"}
  BY DEF PniFits, CyberFits, MainFits, KeysFit, LinesFit, RingsFit
<1> QED
  BY <1>1, <1>2, <1>3, <1>4, <1>5 DEF PniTypes

\* The keys of every user are decoded one by one (pniDataCallback), for any number of stations,
\* users, keys and messages and any sizes, and every variable stays within its type.
THEOREM PniDecodes == PniSpec => [](PniTypes /\ KeysDecoded)
<1> DEFINE Inv == PniFits /\ DecoderInv
<1>1. PniInit => Inv
  BY PniStartFits, DecoderStart
<1>2. Inv /\ [PniNext]_pniVars => Inv'
  BY PniStepFits, DecoderStep
<1>3. Inv => PniTypes /\ KeysDecoded
  BY PniFitsTypes, DecoderMeans
<1> QED
  BY <1>1, <1>2, <1>3, PTL DEF PniSpec

\* Nor is a key left in a buffer of which PLATO does not know (storeKey), if a bit is set in one
\* step or there is one station only: two threads can otherwise lose each other's bits.
THEOREM PniCorrect ==
    ASSUME \A s \in Settings : "abt" \in s.cases => pniStations = 1
    PROVE  PniSpec => []PniSafe
<1> DEFINE Inv == PniFits /\ DecoderInv /\ AnnounceInv
<1>1. PniInit => Inv
  BY PniStartFits, DecoderStart, AnnounceStart
<1>2. Inv /\ [PniNext]_pniVars => Inv'
  BY PniStepFits, DecoderStep, AnnounceStep
<1>3. Inv => PniSafe
  BY PniFitsTypes, DecoderMeans DEF PniSafe, AnnounceInv
<1> QED
  BY <1>1, <1>2, <1>3, PTL DEF PniSpec
=============================================================================
