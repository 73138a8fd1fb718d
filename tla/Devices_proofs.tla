--------------------------- MODULE Devices_proofs ---------------------------
(***************************************************************************)
(* Proofs about the devices, for every choice of them: the terminal        *)
(* multiplexers, with any number of ports and users and any size of buffer;*)
(* the 607 tapes, the 405 reader and the 1612 printer, with any reels and  *)
(* decks; the 6603 disk, of any size; the clock, however fast it runs;     *)
(* cards and paper, with any decks.  Storage_proofs is about the others.   *)
(***************************************************************************)
EXTENDS DevicesInvariants, TLAPS, FiniteSetTheorems

-----------------------------------------------------------------------------
(***************************************************************************)
(* The multiplexers.                                                       *)
(***************************************************************************)
\* A set of natural numbers has a smallest one.
LEMMA Smallest ==
    ASSUME NEW S, S \subseteq Nat, S # {}
    PROVE  \E n \in S : \A m \in S : n <= m
<1> DEFINE R == OpToRel(<, Nat)
<1>1. \A m, n \in Nat : m < n => <<m, n>> \in R
  BY DEF OpToRel
<1>2. IsWellFoundedOn(R, Nat)
  BY NatLessThanWellFounded
<1> HIDE DEF R
<1>3. \E n \in S : \A m \in S : ~ (<<m, n>> \in R)
  BY <1>2, WFMin, Zenon
<1>4. PICK n \in S : \A m \in S : ~ (<<m, n>> \in R)
  BY <1>3
<1>5. \A m \in S : ~ (m < n)
  BY <1>1, <1>4
<1> QED
  BY <1>5

\* The module's Cardinality is the same.
LEMMA SameCardinality == \A S : Mux!Cardinality(S) = Cardinality(S)
BY DEF Cardinality, Mux!Cardinality

\* accept gives a descriptor that is not open.
LEMMA FreeIsFree ==
    ASSUME MuxAssumption, Lines
    PROVE  Mux!Free \in 0 .. Cardinality(Users) /\ Mux!Free \notin DOMAIN descriptors
<1> DEFINE n == Cardinality(Users)
           D == DOMAIN descriptors
           S == (0 .. n) \ D
<1>1. n \in Nat
  BY FS_CardinalityType DEF MuxAssumption
<1> HIDE DEF n
<1>2. IsFiniteSet(0 .. n) /\ Cardinality(0 .. n) = n + 1
  BY <1>1, FS_Interval
<1>3. S # {}
  <2> SUFFICES ASSUME D = 0 .. n PROVE FALSE
    BY DEF Lines, n
  <2>1. descriptors \in [0 .. n -> Users]
    BY DEF Lines
  <2>2. \E x, y \in 0 .. n : x # y /\ descriptors[x] = descriptors[y]
    BY <1>1, <1>2, <2>1, FS_PigeonHole DEF MuxAssumption, n
  <2> QED
    BY <2>2 DEF Lines
<1> HIDE DEF S
<1>4. PICK fd \in S : \A m \in S : fd <= m
  <2>1. S \subseteq Nat
    BY <1>1 DEF S
  <2> QED
    BY <1>3, <2>1, Smallest
<1> USE DEF S
<1>5. \A other \in 0 .. fd - 1 : other \in D
  BY <1>1, <1>4
<1> USE DEF n
<1> QED
  BY <1>4, <1>5, SameCardinality DEF Mux!Free

\* The ports are numbers from 0; no port is none of them.
LEMMA Basics ==
    ASSUME MuxAssumption
    PROVE  /\ Mux!NoPort \notin Ports /\ Ports \subseteq Nat
           /\ Mux!NumPorts \in Nat \ {0} /\ Ports = 0 .. Mux!NumPorts - 1
<1>1. Mux!NumPorts = Cardinality(Ports)
  BY SameCardinality DEF Mux!NumPorts
<1>2. Mux!NumPorts \in Nat
  BY <1>1, FS_CardinalityType DEF MuxAssumption
<1> QED
  BY <1>1, <1>2 DEF MuxAssumption, Mux!NoPort

\* A port that holds a descriptor is connected to a user of its own.
LEMMA HolderOwns ==
    ASSUME Lines, NEW p \in Holders
    PROVE  /\ connFd[p] \in DOMAIN descriptors
           /\ Mux!OnLine(p) \in Users
           /\ session[Mux!OnLine(p)] \in {"in", "left"}
           /\ \A q \in Holders : Mux!OnLine(q) = Mux!OnLine(p) => q = p
BY DEF Lines, Mux!OnLine

\* A port that is active and not being closed holds a descriptor.
LEMMA ActiveHolds ==
    ASSUME NEW p \in Ports, isActive[p], p # closing
    PROVE  p \in Holders
BY DEF Holders

\* A character that was announced comes from the user of the port.
LEMMA AnnouncedHolds ==
    ASSUME Lines, Functions, NEW p \in Ports, announced[p]
    PROVE  p \in Holders
BY DEF Functions, Holders

\* The character that was announced to a user is that of the one port the user is on.
LEMMA HeldIs ==
    ASSUME Lines, Functions, NEW p \in Ports, announced[p], NEW u, Mux!OnLine(p) = u
    PROVE  Taken(u) = {p} /\ Held(u) = <<input[p]>>
<1>1. Taken(u) = {p}
  BY AnnouncedHolds, HolderOwns DEF Taken
<1>2. (CHOOSE q \in {p} : TRUE) = p
  OBVIOUS
<1> QED
  BY <1>1, <1>2 DEF Held

\* With no character announced from a user none is held.
LEMMA HeldNone ==
    ASSUME NEW u, \A p \in Ports : announced[p] => Mux!OnLine(p) # u
    PROVE  Taken(u) = {} /\ Held(u) = <<>>
BY DEF Taken, Held

\* What is held is at most one character.
LEMMA HeldType ==
    ASSUME MuxTypes, Lines, Functions, NEW u
    PROVE  Held(u) \in Seq(Nat)
<1>1. CASE \E p \in Ports : announced[p] /\ Mux!OnLine(p) = u
  <2>1. PICK p \in Ports : announced[p] /\ Mux!OnLine(p) = u
    BY <1>1
  <2>2. input[p] \in Nat
    BY DEF MuxTypes
  <2>3. Held(u) = <<input[p]>>
    BY <2>1, HeldIs
  <2> QED
    BY <2>2, <2>3
<1>2. CASE \A p \in Ports : announced[p] => Mux!OnLine(p) # u
  <2>1. Held(u) = <<>>
    BY <1>2, HeldNone
  <2> QED
    BY <2>1
<1> QED
  BY <1>1, <1>2

\* What a step must leave alone for the streams of keys to stay what they are.
LEMMA KeysFrame ==
    ASSUME MInv, UNCHANGED <<announced, input, typing, gotKeys>>,
           \A p \in Ports : announced[p] => Mux!OnLine(p)' = Mux!OnLine(p),
           \A u \in Users : session'[u] = session[u] \/ (session[u] = "in" /\ session'[u] = "left")
                \/ (session[u] = "calling" /\ session'[u] = "in")
    PROVE  Typing'
<1>1. ASSUME NEW u \in Users PROVE Held(u)' = Held(u)
  <2>1. Taken(u)' = Taken(u)
    BY DEF Taken
  <2> QED
    BY <2>1 DEF Held
<1>2. ASSUME NEW u \in Users PROVE Stream(u)' = Stream(u)
  BY <1>1 DEF Stream
<1>3. ASSUME NEW u \in Users
      PROVE  IF session'[u] = "out" THEN gotKeys'[u] = <<>>
             ELSE Stream(u)' = SubSeq(Mux!Typed', 1, Len(Stream(u)'))
  <2>1. session'[u] = "out" <=> session[u] = "out"
    BY DEF MInv, MuxTypes
  <2>2. Mux!Typed' = Mux!Typed
    BY DEF Mux!Typed
  <2> QED
    BY <1>2, <2>1, <2>2 DEF MInv, Typing
<1> QED
  BY <1>3 DEF Typing

\* Likewise for what the PP writes.
LEMMA WriteFrame ==
    ASSUME MInv, UNCHANGED <<muxFcode, muxPort, muxLength, output, heard, wrote>>,
           muxFcode = "write" /\ muxPort \in Ports =>
               /\ isActive'[muxPort] = isActive[muxPort]
               /\ isActive[muxPort] => Mux!OnLine(muxPort)' = Mux!OnLine(muxPort),
           \A u \in Users : session[u] = "left" => session'[u] = "left"
    PROVE  Writing'
<1>1. ASSUME NEW u \in Users PROVE Buffered(u)' = Buffered(u)
  BY DEF Buffered
<1>2. ASSUME NEW u \in Users, session'[u] # "left" PROVE wrote'[u] = heard'[u] \o Buffered(u)'
  BY <1>1, <1>2 DEF MInv, Writing
<1>3. muxFcode' = "write" /\ muxPort' \in Ports =>
          /\ muxLength' < BufSize /\ muxLength' <= Len(output'[muxPort'])
          /\ ~isActive'[muxPort'] => muxLength' = 0
  BY DEF MInv, Writing
<1> QED
  BY <1>2, <1>3 DEF Writing

\* The invariant holds when the multiplexer has been set up.
LEMMA InitMInv == ASSUME MuxAssumption, Mux!MuxInit PROVE MInv
<1> USE DEF Mux!MuxInit
<1>1. MuxTypes
  BY Basics DEF MuxTypes, MuxAssumption
<1>2. Holders = {}
  BY DEF Holders
<1>3. Lines /\ Functions
  BY <1>2 DEF Lines, Functions, Mux!NoPort
<1>4. Typing
  BY DEF Typing
<1>5. Writing
  BY DEF Writing, Buffered
<1> QED
  BY <1>1, <1>3, <1>4, <1>5 DEF MInv

\* The thread looks at the next port, or starts to accept for one that is not active.
LEMMA LookAtPortKeeps == ASSUME MuxAssumption, MInv, Mux!LookAtPort PROVE MInv'
<1> USE DEF Mux!LookAtPort, Mux!ports, Mux!channel, Mux!texts, Mux!people
<1>1. MuxTypes'
  <2>1. (scan + 1) % Mux!NumPorts \in Ports
    BY Basics DEF MInv, MuxTypes
  <2> QED
    BY <2>1 DEF MInv, MuxTypes
<1>2. Holders' = Holders
  BY DEF Holders
<1>3. Lines' /\ Functions'
  BY <1>2 DEF MInv, Lines, Functions
<1>4. Typing'
  BY KeysFrame DEF Mux!OnLine
<1>5. Writing'
  BY WriteFrame DEF Mux!OnLine
<1> QED
  BY <1>1, <1>3, <1>4, <1>5 DEF MInv

\* accept gives the port a descriptor that no other port holds.
LEMMA AcceptKeeps == ASSUME MuxAssumption, MInv, NEW u \in Users, Mux!Accept(u) PROVE MInv'
<1> USE DEF Mux!Accept, Mux!channel, Mux!texts
<1>0. /\ Mux!Free \in Nat /\ Mux!Free \in 0 .. Cardinality(Users)
      /\ Mux!Free \notin DOMAIN descriptors
      /\ Cardinality(Users) \in Nat
  BY FreeIsFree, FS_CardinalityType DEF MInv, MuxAssumption
<1>1. MuxTypes'
  BY <1>0 DEF MInv, MuxTypes
<1>2. scan \in Ports /\ scan \notin Holders /\ Holders' = Holders \cup {scan} /\ closing # scan
  <2>1. scan \in Ports /\ ~isActive[scan] /\ closing # scan
    BY Basics DEF MInv, MuxTypes, Lines
  <2>2. scan \notin Holders
    BY <2>1 DEF Holders
  <2>3. Holders' = Holders \cup {scan}
    BY <2>1 DEF Holders
  <2> QED
    BY <2>1, <2>2, <2>3
<1>3. /\ DOMAIN descriptors' = DOMAIN descriptors \cup {Mux!Free}
      /\ descriptors'[Mux!Free] = u
      /\ \A fd \in DOMAIN descriptors : descriptors'[fd] = descriptors[fd]
  BY <1>0
<1>4. connFd'[scan] = Mux!Free /\ \A p \in Ports \ {scan} : connFd'[p] = connFd[p]
  BY DEF MInv, MuxTypes
<1>5. \A fd \in DOMAIN descriptors : descriptors[fd] # u
  BY DEF MInv, Lines
<1>6. session'[u] = "in" /\ \A v \in Users \ {u} : session'[v] = session[v]
  BY DEF MInv, MuxTypes
<1>7. Lines'
  <2>1. descriptors' \in [DOMAIN descriptors' -> Users]
    BY DEF MInv, Lines
  <2>2. \A a, b \in DOMAIN descriptors' : descriptors'[a] = descriptors'[b] => a = b
    BY <1>3, <1>5 DEF MInv, Lines
  <2>3. \A a \in DOMAIN descriptors' : session'[descriptors'[a]] \in {"in", "left"}
    BY <1>3, <1>5, <1>6 DEF MInv, Lines
  <2>4. \A p \in Holders' : connFd'[p] \in DOMAIN descriptors'
    BY <1>2, <1>3, <1>4 DEF MInv, Lines, Holders
  <2>5. \A p, q \in Holders' : connFd'[p] = connFd'[q] => p = q
    BY <1>0, <1>2, <1>4 DEF MInv, Lines, Holders
  <2>6. DOMAIN descriptors' \subseteq 0 .. Cardinality(Users)
    BY <1>0, <1>3 DEF MInv, Lines
  <2> QED
    BY <2>1, <2>2, <2>3, <2>4, <2>5, <2>6 DEF MInv, Lines
<1>8. Functions'
  BY DEF MInv, Functions
<1>9. ASSUME NEW p \in Holders PROVE Mux!OnLine(p)' = Mux!OnLine(p)
  BY <1>2, <1>3, <1>4 DEF Mux!OnLine, MInv, Lines, Holders
<1>10. Typing'
  <2>1. \A p \in Ports : announced[p] => Mux!OnLine(p)' = Mux!OnLine(p)
    BY <1>9, AnnouncedHolds DEF MInv
  <2> QED
    BY <1>6, <2>1, KeysFrame
<1>11. Writing'
  <2>1. muxFcode = "write" /\ muxPort \in Ports /\ isActive[muxPort] => muxPort \in Holders
    BY Basics DEF MInv, Lines, Holders
  <2> QED
    BY <1>6, <1>9, <2>1, WriteFrame
<1> QED
  BY <1>1, <1>7, <1>8, <1>10, <1>11 DEF MInv

\* A step that keeps the stream of each user, with its keys before it calls, keeps them in turn.
LEMMA KeysStep ==
    ASSUME MInv,
           \A u \in Users : /\ session'[u] = "out" <=> session[u] = "out"
                            /\ session[u] = "out" => gotKeys'[u] = gotKeys[u]
                            /\ session[u] # "out" => Stream(u)' = Stream(u)
    PROVE  Typing'
<1>1. Mux!Typed' = Mux!Typed
  BY DEF Mux!Typed
<1>2. ASSUME NEW u \in Users
      PROVE  IF session'[u] = "out" THEN gotKeys'[u] = <<>>
             ELSE Stream(u)' = SubSeq(Mux!Typed', 1, Len(Stream(u)'))
  BY <1>1 DEF MInv, Typing
<1> QED
  BY <1>2 DEF Typing

\* A character that moves on leaves the stream as it is.
LEMMA MovesOn ==
    ASSUME NEW S, NEW s \in Seq(S), NEW t \in Seq(S), t # <<>>
    PROVE  /\ Head(t) \in S /\ Tail(t) \in Seq(S)
           /\ (Append(s, Head(t)) \o <<>>) \o Tail(t) = (s \o <<>>) \o t
           /\ (s \o <<Head(t)>>) \o Tail(t) = (s \o <<>>) \o t
<1>1. Head(t) \in S /\ Tail(t) \in Seq(S)
  OBVIOUS
<1>2. (Append(s, Head(t)) \o <<>>) \o Tail(t) = (s \o <<>>) \o t
  OBVIOUS
<1>3. (s \o <<Head(t)>>) \o Tail(t) = (s \o <<>>) \o t
  OBVIOUS
<1> QED
  BY <1>1, <1>2, <1>3

\* A character that the PP takes joins those it got.
LEMMA Arrives ==
    ASSUME NEW S, NEW s \in Seq(S), NEW t \in Seq(S), NEW x \in S
    PROVE  Append(s, x) \in Seq(S) /\ (Append(s, x) \o <<>>) \o t = (s \o <<x>>) \o t
OBVIOUS

\* The thread marks the port active, which already holds its descriptor.
LEMMA MarkActiveKeeps == ASSUME MuxAssumption, MInv, Mux!MarkActive PROVE MInv'
<1> USE DEF Mux!MarkActive, Mux!channel, Mux!texts, Mux!people
<1>1. MuxTypes'
  BY DEF MInv, MuxTypes, MuxAssumption
<1>2. /\ scan \in Ports /\ ~isActive[scan] /\ closing # scan
      /\ isActive'[scan] /\ \A p \in Ports \ {scan} : isActive'[p] = isActive[p]
  BY Basics DEF MInv, MuxTypes, Lines
<1>3. Holders' = Holders
  BY <1>2 DEF Holders
<1>4. Lines' /\ Functions'
  BY <1>2, <1>3 DEF MInv, Lines, Functions
<1>5. \A p \in Ports : Mux!OnLine(p)' = Mux!OnLine(p)
  BY DEF Mux!OnLine
<1>6. Typing'
  BY <1>5, KeysFrame
<1>7. Writing'
  <2>1. ASSUME NEW u \in Users PROVE Buffered(u)' = Buffered(u)
    <3>1. CASE muxFcode = "write" /\ muxPort = scan
      <4>1. muxLength = 0 /\ output[scan] \in Seq(Chars)
        BY <1>2, <3>1 DEF MInv, MuxTypes, Writing
      <4>2. SubSeq(output[scan], 1, 0) = <<>>
        BY <4>1
      <4> QED
        BY <1>2, <3>1, <4>1, <4>2 DEF Buffered
    <3>2. CASE ~ (muxFcode = "write" /\ muxPort = scan)
      BY <1>2, <1>5, <3>2 DEF Buffered
    <3> QED
      BY <3>1, <3>2
  <2>2. muxFcode' = "write" /\ muxPort' \in Ports =>
          /\ muxLength' < BufSize /\ muxLength' <= Len(output'[muxPort'])
          /\ ~isActive'[muxPort'] => muxLength' = 0
    BY <1>2 DEF MInv, Writing
  <2> QED
    BY <2>1, <2>2 DEF MInv, Writing
<1> QED
  BY <1>1, <1>4, <1>6, <1>7 DEF MInv

\* The main thread marks the port inactive whose descriptor it has closed.
LEMMA ClosedIsInactiveKeeps == ASSUME MuxAssumption, MInv, Mux!ClosedIsInactive PROVE MInv'
<1> USE DEF Mux!ClosedIsInactive, Mux!thread, Mux!channel, Mux!texts, Mux!people
<1>1. MuxTypes'
  BY DEF MInv, MuxTypes
<1>2. /\ closing \in Ports /\ isActive[closing] /\ (closing # scan \/ accepting = "no")
      /\ ~isActive'[closing] /\ \A p \in Ports \ {closing} : isActive'[p] = isActive[p]
      /\ muxFcode # "write" /\ closing' \notin Ports
  BY Basics DEF MInv, MuxTypes, Lines
<1>3. Holders' = Holders
  BY <1>2 DEF Holders
<1>4. Lines'
  BY <1>2, <1>3 DEF MInv, Lines, MuxTypes
<1>5. Functions'
  BY <1>2 DEF MInv, Functions
<1>6. \A p \in Ports : Mux!OnLine(p)' = Mux!OnLine(p)
  BY DEF Mux!OnLine
<1>7. Typing'
  BY <1>6, KeysFrame
<1>8. Writing'
  BY <1>2, <1>6, WriteFrame
<1> QED
  BY <1>1, <1>4, <1>5, <1>7, <1>8 DEF MInv

\* A new function of the channel; the PP is not writing before it.
LEMMA FunctionKeeps ==
    ASSUME MuxAssumption, MInv, Mux!Works, muxFcode # "write",
           muxFcode' \in {"none", "output", "input", "status", "read", "write"},
           kind = "mux6676" => muxFcode' \in {"none", "output", "input"},
           kind = "tpmux" => muxFcode' \in {"none", "status", "read", "write"},
           muxPort' \in Ports \cup {Mux!NoPort}, muxLength' \in Nat,
           muxFcode' = "write" => muxLength' = 0,
           UNCHANGED <<kind, Mux!thread, Mux!ports, Mux!texts, Mux!people>>
    PROVE  MInv'
<1> USE DEF Mux!thread, Mux!ports, Mux!texts, Mux!people
<1>1. MuxTypes'
  BY DEF MInv, MuxTypes
<1>2. Holders' = Holders
  BY DEF Holders
<1>3. Lines' /\ Functions'
  BY <1>2 DEF MInv, Lines, Functions, Mux!Works
<1>4. Typing'
  BY KeysFrame DEF Mux!OnLine
<1>5. Writing'
  <2>1. ASSUME NEW u \in Users PROVE Buffered(u)' = Buffered(u)
    <3>1. Buffered(u) = <<>>
      BY DEF Buffered
    <3>2. CASE muxFcode' = "write" /\ muxPort' \in Ports
      <4>1. muxLength' = 0 /\ output'[muxPort'] \in Seq(Chars)
        BY <3>2 DEF MInv, MuxTypes
      <4>2. SubSeq(output'[muxPort'], 1, 0) = <<>>
        BY <4>1
      <4> QED
        BY <3>1, <3>2, <4>1, <4>2 DEF Buffered
    <3>3. CASE ~ (muxFcode' = "write" /\ muxPort' \in Ports)
      BY <3>1, <3>3 DEF Buffered
    <3> QED
      BY <3>2, <3>3
  <2>2. ASSUME muxFcode' = "write" /\ muxPort' \in Ports
        PROVE  /\ muxLength' < BufSize /\ muxLength' <= Len(output'[muxPort'])
               /\ ~isActive'[muxPort'] => muxLength' = 0
    <3>1. output[muxPort'] \in Seq(Chars)
      BY <2>2 DEF MInv, MuxTypes
    <3> QED
      BY <2>2, <3>1 DEF MuxAssumption
  <2> QED
    BY <2>1, <2>2 DEF MInv, Writing
<1> QED
  BY <1>1, <1>3, <1>4, <1>5 DEF MInv

\* Every function, and connect, of either multiplexer.
LEMMA FunctionsKeep ==
    ASSUME MuxAssumption, MInv,
           \/ \E f \in {"output", "input", "none"} : Mux!Function6676(f)
           \/ \E f \in {"status", "read", "write", "none"} : Mux!FunctionTpm(f)
           \/ \E p \in Ports \cup {Mux!NoPort} : Mux!ConnectPort(p)
    PROVE  MInv'
<1>1. ASSUME NEW f \in {"output", "input", "none"}, Mux!Function6676(f) PROVE MInv'
  <2>1. muxFcode # "write"
    BY <1>1 DEF Mux!Function6676, MInv, Functions
  <2> QED
    BY <1>1, <2>1, FunctionKeeps DEF Mux!Function6676, MInv, MuxTypes
<1>2. ASSUME NEW f \in {"status", "read", "write", "none"}, Mux!FunctionTpm(f) PROVE MInv'
  <2>1. muxLength' \in Nat /\ (f = "write" => muxLength' = 0)
    BY <1>2 DEF Mux!FunctionTpm, MInv, MuxTypes
  <2> QED
    BY <1>2, <2>1, FunctionKeeps DEF Mux!FunctionTpm, MInv, MuxTypes
<1>3. ASSUME NEW p \in Ports \cup {Mux!NoPort}, Mux!ConnectPort(p) PROVE MInv'
  BY <1>3, FunctionKeeps DEF Mux!ConnectPort, MInv, MuxTypes
<1> QED
  BY <1>1, <1>2, <1>3

\* The descriptor of a port whose user has left is closed.
LEMMA CloseLineKeeps ==
    ASSUME MInv, NEW p \in Ports, isActive[p], closing = Mux!NoPort, Mux!CloseLine(p),
           muxFcode \in {"input", "status"},
           MuxAssumption, UNCHANGED <<isActive, connFd, muxFcode, session, Mux!thread>>
    PROVE  /\ Lines' /\ closing' = p
           /\ \A q \in Holders \ {p} : Mux!OnLine(q)' = Mux!OnLine(q)
<1> USE DEF Mux!CloseLine, Mux!thread
<1>1. p \in Holders /\ (p # scan \/ accepting # "done")
  BY Basics, ActiveHolds DEF MInv, Lines
<1>2. Holders' = Holders \ {p}
  BY <1>1, Basics DEF Holders, MInv, Lines
<1>3. DOMAIN descriptors' = DOMAIN descriptors \ {connFd[p]}
  BY DEF Mux!Drop
<1>4. \A fd \in DOMAIN descriptors' : descriptors'[fd] = descriptors[fd]
  BY DEF Mux!Drop
<1>5. \A q \in Holders \ {p} : connFd[q] \in DOMAIN descriptors'
  BY <1>1, <1>3 DEF MInv, Lines
<1>6. Lines'
  <2>1. descriptors' \in [DOMAIN descriptors' -> Users]
    BY DEF Mux!Drop, MInv, Lines
  <2> QED
    BY <1>2, <1>3, <1>4, <1>5, <2>1 DEF MInv, Lines
<1> QED
  BY <1>4, <1>5, <1>6 DEF Mux!OnLine

\* A character is taken from the line of an active port.
LEMMA TakesOne ==
    ASSUME MInv, NEW p \in Ports, isActive[p], p # closing, Mux!Queued(p) # <<>>
    PROVE  /\ Mux!OnLine(p) \in Users /\ session[Mux!OnLine(p)] \in {"in", "left"}
           /\ Mux!Queued(p) = typing[Mux!OnLine(p)]
           /\ Head(Mux!Queued(p)) \in Nat
           /\ gotKeys[Mux!OnLine(p)] \in Seq(Nat) /\ typing[Mux!OnLine(p)] \in Seq(Nat)
           /\ Mux!Receive(p) => typing' \in [Users -> Seq(Nat)]
<1>1. Mux!OnLine(p) \in Users /\ session[Mux!OnLine(p)] \in {"in", "left"}
  BY ActiveHolds, HolderOwns DEF MInv
<1>2. gotKeys[Mux!OnLine(p)] \in Seq(Nat) /\ typing[Mux!OnLine(p)] \in Seq(Nat)
  BY <1>1 DEF MInv, MuxTypes
<1>3. Mux!Queued(p) = typing[Mux!OnLine(p)]
  BY <1>1 DEF Mux!Queued
<1>4. Head(Mux!Queued(p)) \in Nat /\ Tail(typing[Mux!OnLine(p)]) \in Seq(Nat)
  BY <1>2, <1>3
<1>5. Mux!Receive(p) => typing' \in [Users -> Seq(Nat)]
  BY <1>4 DEF Mux!Receive, MInv, MuxTypes
<1> QED
  BY <1>1, <1>2, <1>3, <1>4, <1>5

\* A word of input of the 6676: a character, or a line that is closed.
LEMMA InputWordKeeps == ASSUME MuxAssumption, MInv, Mux!InputWord PROVE MInv'
<1>0. PICK p \in Ports : p = muxLength
  BY DEF Mux!InputWord
<1>1. /\ closing = Mux!NoPort /\ muxFcode = "input" /\ p # closing
      /\ muxLength' = muxLength + 1 /\ muxFcode' = muxFcode
  BY <1>0, Basics DEF Mux!InputWord, Mux!Works
<1>2. /\ UNCHANGED <<kind, Mux!thread, isActive, connFd, muxFcode, muxPort, Mux!texts, session,
                     heard, wrote>>
      /\ \/ isActive[p] /\ Mux!Queued(p) # <<>> /\ Mux!Receive(p)
            /\ gotKeys' = [gotKeys EXCEPT ![Mux!OnLine(p)] = Append(@, Head(Mux!Queued(p)))]
         \/ isActive[p] /\ Mux!CloseLine(p) /\ UNCHANGED gotKeys
         \/ UNCHANGED <<typing, descriptors, closing, gotKeys>>
  BY <1>0 DEF Mux!InputWord
<1>3. \A q \in Ports : ~announced[q] /\ ~announced'[q]
  BY <1>1, <1>2 DEF MInv, Functions, Mux!texts
<1>4. ASSUME NEW u \in Users PROVE Held(u) = <<>> /\ Held(u)' = <<>>
  <2>1. Taken(u) = {} /\ Taken(u)' = {}
    BY <1>3 DEF Taken
  <2> QED
    BY <2>1 DEF Held
<1>5. ASSUME isActive[p], Mux!Queued(p) # <<>>, Mux!Receive(p),
             gotKeys' = [gotKeys EXCEPT ![Mux!OnLine(p)] = Append(@, Head(Mux!Queued(p)))]
      PROVE  /\ typing' \in [Users -> Seq(Nat)] /\ gotKeys' \in [Users -> Seq(Nat)]
             /\ closing' = closing /\ Lines' /\ Typing'
  <2>1. PICK u \in Users :
        /\ u = Mux!OnLine(p) /\ session[u] \in {"in", "left"} /\ Mux!Queued(p) = typing[u]
        /\ Head(Mux!Queued(p)) \in Nat /\ gotKeys[u] \in Seq(Nat) /\ typing[u] \in Seq(Nat)
        /\ typing' \in [Users -> Seq(Nat)]
    BY <1>1, <1>5, TakesOne
  <2>2. gotKeys' \in [Users -> Seq(Nat)]
    BY <1>5, <2>1 DEF MInv, MuxTypes
  <2>3. UNCHANGED <<descriptors, closing>> /\ Holders' = Holders
    BY <1>2, <1>5 DEF Mux!Receive, Holders, Mux!thread
  <2>4. Lines'
    BY <1>2, <2>3 DEF MInv, Lines, Mux!thread
  <2>5. gotKeys'[u] = Append(gotKeys[u], Head(typing[u])) /\ typing'[u] = Tail(typing[u])
    BY <1>5, <2>1 DEF Mux!Receive, MInv, MuxTypes
  <2>6. \A v \in Users \ {u} : gotKeys'[v] = gotKeys[v] /\ typing'[v] = typing[v]
    BY <1>5, <2>1 DEF Mux!Receive, MInv, MuxTypes
  <2>7. Stream(u)' = Stream(u)
    <3>1. (Append(gotKeys[u], Head(typing[u])) \o <<>>) \o Tail(typing[u])
          = (gotKeys[u] \o <<>>) \o typing[u]
      <4>1. typing[u] # <<>> /\ gotKeys[u] \in Seq(Nat) /\ typing[u] \in Seq(Nat)
        BY <1>5, <2>1
      <4> QED
        BY <4>1, MovesOn
    <3> QED
      BY <1>4, <2>1, <2>5, <3>1 DEF Stream
  <2>8. \A v \in Users \ {u} : Stream(v)' = Stream(v)
    BY <1>4, <2>6 DEF Stream
  <2>9. \A v \in Users : /\ session'[v] = "out" <=> session[v] = "out"
                         /\ session[v] = "out" => gotKeys'[v] = gotKeys[v]
    BY <1>2, <2>1, <2>6
  <2>10. Typing'
    BY <2>7, <2>8, <2>9, KeysStep
  <2> QED
    BY <2>1, <2>2, <2>3, <2>4, <2>10
<1>6. ASSUME isActive[p], Mux!CloseLine(p), UNCHANGED gotKeys
      PROVE  /\ UNCHANGED typing /\ closing' = p /\ Lines'
  BY <1>1, <1>2, <1>6, CloseLineKeeps DEF Mux!CloseLine
<1>7. ASSUME UNCHANGED <<typing, descriptors, closing, gotKeys>>
      PROVE  Lines'
  <2>1. Holders' = Holders
    BY <1>2, <1>7 DEF Holders, Mux!thread
  <2> QED
    BY <1>2, <1>7, <2>1 DEF MInv, Lines, Mux!thread
<1>8. Lines'
  BY <1>2, <1>5, <1>6, <1>7
<1>9. /\ typing' \in [Users -> Seq(Nat)] /\ gotKeys' \in [Users -> Seq(Nat)]
      /\ closing' \in Ports \cup {Mux!NoPort}
  BY <1>1, <1>2, <1>5, <1>6, <1>7 DEF MInv, MuxTypes
<1>10. muxLength' \in Nat
  BY <1>0, <1>1, Basics
<1>11. MuxTypes'
  BY <1>1, <1>2, <1>9, <1>10 DEF MInv, MuxTypes, Mux!thread, Mux!texts
<1>12. Functions'
  BY <1>2, <1>3 DEF MInv, Functions
<1>13. Typing'
  <2>1. CASE UNCHANGED <<typing, gotKeys>>
    <3>1. \A v \in Users : Stream(v)' = Stream(v)
      BY <1>4, <2>1 DEF Stream
    <3> QED
      BY <1>2, <2>1, <3>1, KeysStep
  <2> QED
    BY <1>2, <1>5, <1>6, <2>1
<1>14. Writing'
  <2>1. \A u \in Users : Buffered(u) = <<>> /\ Buffered(u)' = <<>>
    BY <1>1 DEF Buffered
  <2> QED
    BY <1>1, <1>2, <2>1 DEF MInv, Writing
<1> QED
  BY <1>8, <1>11, <1>12, <1>13, <1>14 DEF MInv

\* A status word of the two port multiplexer: a character is announced, or a line closed.
LEMMA StatusWordKeeps == ASSUME MuxAssumption, MInv, Mux!StatusWord PROVE MInv'
<1>0. PICK p \in Ports : p = muxPort
  BY DEF Mux!StatusWord
<1>1. /\ closing = Mux!NoPort /\ muxFcode = "status" /\ p # closing /\ ~announced[p]
      /\ muxFcode' = muxFcode /\ muxLength' = muxLength /\ muxPort' = muxPort
  BY <1>0, Basics DEF Mux!StatusWord, Mux!Works, Mux!channel
<1>2. /\ UNCHANGED <<kind, Mux!thread, isActive, connFd, output, session, heard, gotKeys, wrote>>
      /\ \/ isActive[p] /\ Mux!Queued(p) # <<>> /\ Mux!Receive(p)
            /\ input' = [input EXCEPT ![p] = Head(Mux!Queued(p))]
            /\ announced' = [announced EXCEPT ![p] = TRUE]
         \/ isActive[p] /\ Mux!CloseLine(p) /\ UNCHANGED <<input, announced>>
         \/ UNCHANGED <<typing, descriptors, closing, input, announced>>
  BY <1>0 DEF Mux!StatusWord
<1>k. kind = "tpmux"
  BY <1>1 DEF MInv, MuxTypes, MuxAssumption, Functions
<1>3. ASSUME isActive[p], Mux!Queued(p) # <<>>, Mux!Receive(p),
             input' = [input EXCEPT ![p] = Head(Mux!Queued(p))],
             announced' = [announced EXCEPT ![p] = TRUE]
      PROVE  /\ typing' \in [Users -> Seq(Nat)] /\ input' \in [Ports -> Nat]
             /\ announced' \in [Ports -> BOOLEAN]
             /\ closing' = closing /\ Lines' /\ Functions' /\ Typing'
  <2>1. PICK u \in Users :
        /\ u = Mux!OnLine(p) /\ session[u] \in {"in", "left"} /\ Mux!Queued(p) = typing[u]
        /\ Head(Mux!Queued(p)) \in Nat /\ gotKeys[u] \in Seq(Nat) /\ typing[u] \in Seq(Nat)
        /\ typing' \in [Users -> Seq(Nat)]
    BY <1>1, <1>3, TakesOne
  <2>2. input' \in [Ports -> Nat] /\ announced' \in [Ports -> BOOLEAN]
    BY <1>3, <2>1 DEF MInv, MuxTypes
  <2>3. UNCHANGED <<descriptors, closing>> /\ Holders' = Holders
    BY <1>2, <1>3 DEF Mux!Receive, Holders, Mux!thread
  <2>4. Lines'
    BY <1>1, <1>2, <2>3 DEF MInv, Lines, Mux!thread
  <2>5. /\ announced'[p] /\ input'[p] = Head(typing[u]) /\ typing'[u] = Tail(typing[u])
        /\ \A q \in Ports \ {p} : announced'[q] = announced[q] /\ input'[q] = input[q]
        /\ \A v \in Users \ {u} : typing'[v] = typing[v]
    BY <1>1, <1>3, <2>1 DEF Mux!Receive, MInv, MuxTypes
  <2>6. Functions'
    BY <1>1, <1>2, <1>3, <1>k, <2>3, <2>5 DEF MInv, Functions
  <2>7. \A q \in Ports : Mux!OnLine(q)' = Mux!OnLine(q)
    BY <1>2, <2>3 DEF Mux!OnLine
  <2>8. p \in Holders
    BY <1>1, <1>3, ActiveHolds
  <2>9. Taken(u) = {} /\ Taken(u)' = {p}
    <3>1. \A q \in Ports : announced[q] => Mux!OnLine(q) # u
      BY <1>1, <2>1, <2>8, AnnouncedHolds, HolderOwns DEF MInv
    <3> QED
      BY <1>1, <2>1, <2>5, <2>7, <3>1 DEF Taken
  <2>10. Held(u) = <<>> /\ Held(u)' = <<Head(typing[u])>>
    <3>1. (CHOOSE q \in {p} : TRUE) = p
      OBVIOUS
    <3> QED
      BY <2>5, <2>9, <3>1 DEF Held
  <2>11. Stream(u)' = Stream(u)
    <3>1. (gotKeys[u] \o <<Head(typing[u])>>) \o Tail(typing[u])
          = (gotKeys[u] \o <<>>) \o typing[u]
      <4>1. typing[u] # <<>> /\ gotKeys[u] \in Seq(Nat) /\ typing[u] \in Seq(Nat)
        BY <1>3, <2>1
      <4> QED
        BY <4>1, MovesOn
    <3> QED
      BY <1>2, <2>5, <2>10, <3>1 DEF Stream
  <2>12. ASSUME NEW v \in Users \ {u} PROVE Stream(v)' = Stream(v)
    <3>1. Taken(v)' = Taken(v)
      BY <1>1, <2>1, <2>5, <2>7 DEF Taken
    <3>2. p \notin Taken(v)
      BY <1>1 DEF Taken
    <3>3. ASSUME Taken(v) # {}
          PROVE  input'[CHOOSE q \in Taken(v) : TRUE] = input[CHOOSE q \in Taken(v) : TRUE]
      <4>1. (CHOOSE q \in Taken(v) : TRUE) \in Taken(v)
        BY <3>3
      <4>2. Taken(v) \subseteq Ports
        BY DEF Taken
      <4> QED
        BY <2>5, <3>2, <4>1, <4>2
    <3>4. Held(v)' = Held(v)
      BY <3>1, <3>3 DEF Held
    <3> QED
      BY <1>2, <2>5, <3>4 DEF Stream
  <2>13. Typing'
    BY <1>2, <2>11, <2>12, KeysStep
  <2> QED
    BY <2>1, <2>2, <2>3, <2>4, <2>6, <2>13
<1>4. ASSUME isActive[p], Mux!CloseLine(p), UNCHANGED <<input, announced>>
      PROVE  /\ UNCHANGED typing /\ closing' = p /\ Lines' /\ Functions' /\ Typing'
  <2>1. /\ UNCHANGED typing /\ closing' = p /\ Lines'
        /\ \A q \in Holders \ {p} : Mux!OnLine(q)' = Mux!OnLine(q)
    BY <1>1, <1>2, <1>4, CloseLineKeeps DEF Mux!CloseLine
  <2>2. \A q \in Ports : announced[q] => Mux!OnLine(q)' = Mux!OnLine(q)
    BY <1>1, <2>1, AnnouncedHolds DEF MInv
  <2>3. Typing'
    BY <1>2, <1>4, <2>1, <2>2, KeysFrame
  <2>4. Functions'
    BY <1>1, <1>2, <1>4, <2>1 DEF MInv, Functions
  <2> QED
    BY <2>1, <2>3, <2>4
<1>5. ASSUME UNCHANGED <<typing, descriptors, closing, input, announced>>
      PROVE  Lines' /\ Functions' /\ Typing'
  <2>1. Holders' = Holders
    BY <1>2, <1>5 DEF Holders, Mux!thread
  <2>2. Lines'
    BY <1>1, <1>2, <1>5, <2>1 DEF MInv, Lines, Mux!thread
  <2>3. Functions'
    BY <1>1, <1>2, <1>5 DEF MInv, Functions
  <2>4. Typing'
    BY <1>2, <1>5, KeysFrame DEF Mux!OnLine
  <2> QED
    BY <2>2, <2>3, <2>4
<1>6. /\ typing' \in [Users -> Seq(Nat)] /\ input' \in [Ports -> Nat]
      /\ announced' \in [Ports -> BOOLEAN] /\ closing' \in Ports \cup {Mux!NoPort}
  BY <1>1, <1>2, <1>3, <1>4, <1>5 DEF MInv, MuxTypes
<1>7. MuxTypes'
  BY <1>1, <1>2, <1>6 DEF MInv, MuxTypes, Mux!thread
<1>8. Lines' /\ Functions' /\ Typing'
  BY <1>2, <1>3, <1>4, <1>5
<1>9. Writing'
  <2>1. \A u \in Users : Buffered(u) = <<>> /\ Buffered(u)' = <<>>
    BY <1>1 DEF Buffered
  <2> QED
    BY <1>1, <1>2, <2>1 DEF MInv, Writing
<1> QED
  BY <1>7, <1>8, <1>9 DEF MInv

\* Steps that leave the lines and the keys alone.
LEMMA LinesStay ==
    ASSUME MInv, UNCHANGED <<Mux!thread, Mux!ports, session, announced, input, typing, gotKeys>>
    PROVE  Lines' <=> (closing # Mux!NoPort => muxFcode' \in {"input", "status"})
BY DEF MInv, Lines, Mux!thread, Mux!ports, Holders

\* Likewise for the keys.
LEMMA KeysStay ==
    ASSUME MInv, UNCHANGED <<Mux!ports, session, announced, input, typing, gotKeys>>
    PROVE  Typing'
BY KeysFrame DEF Mux!OnLine, Mux!ports

\* A character more on both sides.
LEMMA OneMore ==
    ASSUME NEW S, NEW h \in Seq(S), NEW c \in S
    PROVE  /\ h \o <<c>> \in Seq(S) /\ Append(h, c) \in Seq(S)
           /\ Append(h \o <<>>, c) = (h \o <<c>>) \o <<>>
OBVIOUS

\* A word of output of the 6676: written, and sent at once.
LEMMA OutputWordKeeps ==
    ASSUME MuxAssumption, MInv, NEW with \in BOOLEAN, Mux!OutputWord(with) PROVE MInv'
<1>0. PICK p \in Ports : p = muxLength
  BY DEF Mux!OutputWord
<1>1. /\ closing = Mux!NoPort /\ muxFcode = "output" /\ muxLength' = p + 1 /\ p # closing
      /\ UNCHANGED <<kind, Mux!thread, Mux!ports, muxFcode, muxPort, Mux!texts, session,
                     typing, gotKeys>>
  BY <1>0, Basics DEF Mux!OutputWord, Mux!Works
<1>2. \/ /\ isActive[p]
         /\ Mux!Written(Mux!OnLine(p), Mux!Fresh(Mux!OnLine(p)))
         /\ Mux!Sent(Mux!OnLine(p), <<Mux!Fresh(Mux!OnLine(p))>>)
      \/ UNCHANGED <<heard, wrote>>
  BY <1>0 DEF Mux!OutputWord
<1>3. Functions' /\ Typing' /\ Lines'
  BY <1>1, KeysStay, LinesStay DEF MInv, Functions, Mux!ports, Mux!texts
<1>4. \A u \in Users : Buffered(u) = <<>> /\ Buffered(u)' = <<>>
  BY <1>1 DEF Buffered
<1>5. /\ heard' \in [Users -> Seq(Chars)] /\ wrote' \in [Users -> Seq(Chars)] /\ Writing'
  <2>1. CASE UNCHANGED <<heard, wrote>>
    BY <1>1, <1>4, <2>1 DEF MInv, MuxTypes, Writing
  <2>2. CASE /\ isActive[p]
             /\ Mux!Written(Mux!OnLine(p), Mux!Fresh(Mux!OnLine(p)))
             /\ Mux!Sent(Mux!OnLine(p), <<Mux!Fresh(Mux!OnLine(p))>>)
    <3>1. PICK u \in Users : u = Mux!OnLine(p)
      BY <1>1, <2>2, ActiveHolds, HolderOwns DEF MInv
    <3>2. heard[u] \in Seq(Chars) /\ wrote[u] \in Seq(Chars)
      BY DEF MInv, MuxTypes
    <3>3. PICK c \in Chars : c = Mux!Fresh(u)
      <4>1. Len(wrote[u]) \in Nat
        BY <3>2
      <4>2. <<u, Len(wrote[u])>> \in Chars
        BY <4>1 DEF Chars
      <4> QED
        BY <4>2 DEF Mux!Fresh
    <3>4. /\ heard[u] \o <<c>> \in Seq(Chars) /\ Append(wrote[u], c) \in Seq(Chars)
          /\ Append(heard[u] \o <<>>, c) = (heard[u] \o <<c>>) \o <<>>
      BY <3>2, OneMore
    <3>5. /\ wrote' = [wrote EXCEPT ![u] = Append(wrote[u], c)]
          /\ session[u] # "left" => heard' = [heard EXCEPT ![u] = heard[u] \o <<c>>]
          /\ session[u] = "left" => heard' = heard
      BY <2>2, <3>1, <3>3 DEF Mux!Written, Mux!Sent
    <3>6. heard' \in [Users -> Seq(Chars)] /\ wrote' \in [Users -> Seq(Chars)]
      BY <3>4, <3>5 DEF MInv, MuxTypes
    <3>7. ASSUME NEW v \in Users, session'[v] # "left" PROVE wrote'[v] = heard'[v] \o <<>>
      <4>1. wrote[v] = heard[v] \o <<>> /\ session[v] # "left"
        BY <1>1, <1>4, <3>7 DEF MInv, Writing
      <4>2. CASE v = u
        BY <3>4, <3>5, <4>1, <4>2 DEF MInv, MuxTypes
      <4>3. CASE v # u
        BY <3>5, <4>1, <4>3 DEF MInv, MuxTypes
      <4> QED
        BY <4>2, <4>3
    <3> QED
      BY <1>1, <1>4, <3>6, <3>7 DEF Writing
  <2> QED
    BY <1>2, <2>1, <2>2
<1>6. p + 1 \in Nat
  BY Basics
<1>7. MuxTypes'
  BY <1>1, <1>5, <1>6 DEF MInv, MuxTypes, Mux!thread, Mux!ports, Mux!texts
<1> QED
  BY <1>3, <1>5, <1>7 DEF MInv

\* The PP reads the character that was announced.
LEMMA ReadCharKeeps == ASSUME MuxAssumption, MInv, Mux!ReadChar PROVE MInv'
<1>0. PICK p \in Ports : p = muxPort
  BY DEF Mux!ReadChar
<1>1. /\ muxFcode = "read" /\ announced[p] /\ announced' = [announced EXCEPT ![p] = FALSE]
      /\ gotKeys' = [gotKeys EXCEPT ![Mux!OnLine(p)] = Append(@, input[p])]
      /\ closing = Mux!NoPort
      /\ UNCHANGED <<kind, Mux!thread, Mux!ports, Mux!channel, input, output, session, typing,
                     heard, wrote>>
  BY <1>0 DEF Mux!ReadChar, Mux!Works
<1>2. PICK u \in Users : u = Mux!OnLine(p) /\ session[u] \in {"in", "left"}
  BY <1>1, AnnouncedHolds, HolderOwns DEF MInv
<1>3. /\ gotKeys[u] \in Seq(Nat) /\ typing[u] \in Seq(Nat) /\ input[p] \in Nat
      /\ Append(gotKeys[u], input[p]) \in Seq(Nat)
  BY DEF MInv, MuxTypes
<1>4. gotKeys' \in [Users -> Seq(Nat)] /\ announced' \in [Ports -> BOOLEAN]
  BY <1>1, <1>2, <1>3 DEF MInv, MuxTypes
<1>5. MuxTypes'
  BY <1>1, <1>4 DEF MInv, MuxTypes, Mux!thread, Mux!ports, Mux!channel
<1>6. Holders' = Holders
  BY <1>1 DEF Holders, Mux!thread, Mux!ports
<1>7. Lines'
  BY <1>1, <1>6 DEF MInv, Lines, Mux!thread, Mux!ports, Mux!channel
<1>8. /\ ~announced'[p] /\ \A q \in Ports \ {p} : announced'[q] = announced[q]
      /\ gotKeys'[u] = Append(gotKeys[u], input[p])
      /\ \A v \in Users \ {u} : gotKeys'[v] = gotKeys[v]
  BY <1>1, <1>2 DEF MInv, MuxTypes
<1>9. Functions'
  BY <1>1, <1>8 DEF MInv, Functions, Mux!ports, Mux!channel
<1>10. \A q \in Ports : Mux!OnLine(q)' = Mux!OnLine(q)
  BY <1>1 DEF Mux!OnLine, Mux!ports
<1>11. Taken(u) = {p} /\ Held(u) = <<input[p]>>
  BY <1>1, <1>2, HeldIs DEF MInv
<1>12. Taken(u)' = {}
  BY <1>8, <1>10, <1>11 DEF Taken
<1>13. Held(u)' = <<>>
  BY <1>12 DEF Held
<1>14. Stream(u)' = Stream(u)
  <2>1. (Append(gotKeys[u], input[p]) \o <<>>) \o typing[u]
        = (gotKeys[u] \o <<input[p]>>) \o typing[u]
    BY <1>3, Arrives
  <2> QED
    BY <1>1, <1>8, <1>11, <1>13, <2>1 DEF Stream
<1>15. ASSUME NEW v \in Users \ {u} PROVE Stream(v)' = Stream(v)
  <2>1. Taken(v)' = Taken(v)
    BY <1>2, <1>8, <1>10 DEF Taken
  <2>2. Held(v)' = Held(v)
    BY <1>1, <2>1 DEF Held
  <2> QED
    BY <1>1, <1>8, <2>2 DEF Stream
<1>16. Typing'
  BY <1>1, <1>2, <1>8, <1>14, <1>15, KeysStep
<1>17. Writing'
  BY <1>1, WriteFrame DEF Mux!channel, Mux!ports, Mux!OnLine
<1> QED
  BY <1>5, <1>7, <1>9, <1>16, <1>17 DEF MInv

\* x is the sequence h, then b, then c.
Joined(S, x, h, b, c) ==
    /\ x \in Seq(S) /\ Len(x) = Len(h) + Len(b) + 1
    /\ \A i \in 1 .. Len(h) + Len(b) + 1 :
          x[i] = IF i <= Len(h) THEN h[i] ELSE IF i <= Len(h) + Len(b) THEN b[i - Len(h)] ELSE c

\* Sequences with the same elements are the same.
LEMMA SameSequence ==
    ASSUME NEW S, NEW x \in Seq(S), NEW y \in Seq(S), Len(x) = Len(y),
           \A i \in 1 .. Len(x) : x[i] = y[i]
    PROVE  x = y
OBVIOUS

\* A character is appended to the text that is then sent ...
LEMMA JoinedToText ==
    ASSUME NEW S, NEW h \in Seq(S), NEW b \in Seq(S), NEW c \in S, NEW t, t = Append(b, c)
    PROVE  Joined(S, h \o t, h, b, c)
BY DEF Joined

\* ... or to all that was written: both are the same.
LEMMA JoinedToAll ==
    ASSUME NEW S, NEW h \in Seq(S), NEW b \in Seq(S), NEW c \in S, NEW w, w = h \o b
    PROVE  Joined(S, Append(w, c), h, b, c)
BY DEF Joined

\* There is one such sequence.
LEMMA JoinedOnce ==
    ASSUME NEW S, NEW h \in Seq(S), NEW b \in Seq(S), NEW c \in S, NEW x, NEW y,
           Joined(S, x, h, b, c), Joined(S, y, h, b, c)
    PROVE  x = y
BY SameSequence DEF Joined

\* The text in the buffer, with a character more.
LEMMA TextGrows ==
    ASSUME NEW S, NEW h \in Seq(S), NEW b \in Seq(S), NEW c \in S,
           NEW text, text = Append(b, c)
    PROVE  /\ text \in Seq(S) /\ Len(text) = Len(b) + 1
           /\ SubSeq(text, 1, Len(b) + 1) = text /\ SubSeq(text, 1, 0) = <<>>
           /\ h \o text \in Seq(S) /\ (h \o text) \o <<>> = h \o text
<1>1. text \in Seq(S) /\ Len(text) = Len(b) + 1
  OBVIOUS
<1>2. SubSeq(text, 1, Len(b) + 1) = text /\ SubSeq(text, 1, 0) = <<>>
  BY <1>1
<1>3. h \o text \in Seq(S) /\ (h \o text) \o <<>> = h \o text
  BY <1>1
<1> QED
  BY <1>1, <1>2, <1>3

\* The first characters of a buffer.
LEMMA FirstPart ==
    ASSUME NEW S, NEW o \in Seq(S), NEW k \in 0 .. Len(o)
    PROVE  SubSeq(o, 1, k) \in Seq(S) /\ Len(SubSeq(o, 1, k)) = k
OBVIOUS

\* A character is put into the buffer of a port, which is sent when it is full.
LEMMA WriteCharKeeps == ASSUME MuxAssumption, MInv, Mux!WriteChar PROVE MInv'
<1>0. PICK p \in Ports : p = muxPort
  BY DEF Mux!WriteChar
<1>1. /\ closing = Mux!NoPort /\ muxFcode = "write" /\ p # closing
      /\ UNCHANGED <<kind, Mux!thread, Mux!ports, muxFcode, muxPort, announced, input, session,
                     typing, gotKeys>>
  BY <1>0, Basics DEF Mux!WriteChar, Mux!Works
<1>2. CASE ~isActive[p]
  <2>1. UNCHANGED <<output, muxLength, heard, wrote>>
    BY <1>0, <1>2 DEF Mux!WriteChar
  <2>2. MuxTypes'
    BY <1>1, <2>1 DEF MInv, MuxTypes, Mux!thread, Mux!ports
  <2>3. Functions' /\ Typing' /\ Lines'
    BY <1>1, KeysStay, LinesStay DEF MInv, Functions, Mux!ports
  <2>4. Writing'
    BY <1>1, <2>1, WriteFrame DEF Mux!ports, Mux!OnLine
  <2> QED
    BY <2>2, <2>3, <2>4 DEF MInv
<1>3. CASE isActive[p]
  <2>1. PICK u \in Users : u = Mux!OnLine(p)
    BY <1>1, <1>3, ActiveHolds, HolderOwns DEF MInv
  <2>2. /\ heard[u] \in Seq(Chars) /\ wrote[u] \in Seq(Chars) /\ output[p] \in Seq(Chars)
        /\ muxLength \in 0 .. Len(output[p]) /\ muxLength < BufSize
    BY <1>0, <1>1 DEF MInv, MuxTypes, Writing
  <2>3. PICK c \in Chars : c = Mux!Fresh(u)
    <3>1. Len(wrote[u]) \in Nat
      BY <2>2
    <3>2. <<u, Len(wrote[u])>> \in Chars
      BY <3>1 DEF Chars
    <3> QED
      BY <3>2 DEF Mux!Fresh
  <2>4. PICK k \in 0 .. Len(output[p]) : k = muxLength
    BY <2>2
  <2>5. PICK text : text = Append(SubSeq(output[p], 1, k), c)
    OBVIOUS
  <2>6. /\ text \in Seq(Chars) /\ Len(text) = k + 1
        /\ SubSeq(text, 1, k + 1) = text /\ SubSeq(text, 1, 0) = <<>>
        /\ heard[u] \o text \in Seq(Chars) /\ (heard[u] \o text) \o <<>> = heard[u] \o text
        /\ \A w : w = heard[u] \o SubSeq(output[p], 1, k) => Append(w, c) = heard[u] \o text
    <3>1. SubSeq(output[p], 1, k) \in Seq(Chars) /\ Len(SubSeq(output[p], 1, k)) = k
      <4>1. output[p] \in Seq(Chars)
        BY <2>2
      <4> QED
        BY <4>1, FirstPart
    <3>2. /\ text \in Seq(Chars) /\ Len(text) = k + 1
          /\ SubSeq(text, 1, k + 1) = text /\ SubSeq(text, 1, 0) = <<>>
          /\ heard[u] \o text \in Seq(Chars) /\ (heard[u] \o text) \o <<>> = heard[u] \o text
      BY <2>2, <2>5, <3>1, TextGrows
    <3>3. Joined(Chars, heard[u] \o text, heard[u], SubSeq(output[p], 1, k), c)
      BY <2>2, <2>5, <3>1, JoinedToText
    <3>4. ASSUME NEW w, w = heard[u] \o SubSeq(output[p], 1, k)
          PROVE  Append(w, c) = heard[u] \o text
      <4>1. Joined(Chars, Append(w, c), heard[u], SubSeq(output[p], 1, k), c)
        BY <2>2, <3>1, <3>4, JoinedToAll
      <4>2. heard[u] \in Seq(Chars)
        BY <2>2
      <4> QED
        BY <3>1, <3>3, <4>1, <4>2, JoinedOnce
    <3> QED
      BY <3>2, <3>4
  <2>7. /\ output' = [output EXCEPT ![p] = text] /\ muxLength' = Len(text) % BufSize
        /\ wrote' = [wrote EXCEPT ![u] = Append(wrote[u], c)]
        /\ Len(text) = BufSize /\ session[u] # "left"
             => heard' = [heard EXCEPT ![u] = heard[u] \o text]
        /\ ~ (Len(text) = BufSize /\ session[u] # "left") => heard' = heard
    BY <1>0, <1>3, <2>1, <2>3, <2>4, <2>5 DEF Mux!WriteChar, Mux!Written, Mux!Sent
  <2>8. muxLength' = IF k + 1 = BufSize THEN 0 ELSE k + 1
    <3>1. BufSize \in Nat \ {0} /\ k \in Nat /\ k < BufSize
      BY <2>2, <2>4 DEF MuxAssumption
    <3>2. (k + 1) % BufSize = IF k + 1 = BufSize THEN 0 ELSE k + 1
      BY <3>1
    <3> QED
      BY <2>6, <2>7, <3>2
  <2>9. Append(wrote[u], c) \in Seq(Chars)
    BY <2>2
  <2>10. /\ output' \in [Ports -> Seq(Chars)] /\ wrote' \in [Users -> Seq(Chars)]
         /\ heard' \in [Users -> Seq(Chars)] /\ muxLength' \in Nat
    <3>1. muxLength' \in Nat
      BY <2>2, <2>4, <2>8
    <3>2. output' \in [Ports -> Seq(Chars)] /\ wrote' \in [Users -> Seq(Chars)]
      BY <2>6, <2>7, <2>9 DEF MInv, MuxTypes
    <3>3. heard' \in [Users -> Seq(Chars)]
      BY <2>6, <2>7 DEF MInv, MuxTypes
    <3> QED
      BY <3>1, <3>2, <3>3
  <2>11. MuxTypes'
    BY <1>1, <2>10 DEF MInv, MuxTypes, Mux!thread, Mux!ports
  <2>12. Functions' /\ Typing' /\ Lines'
    BY <1>1, KeysStay, LinesStay DEF MInv, Functions, Mux!ports
  <2>13. /\ output'[p] = text /\ wrote'[u] = Append(wrote[u], c)
         /\ \A v \in Users \ {u} : wrote'[v] = wrote[v] /\ heard'[v] = heard[v]
    BY <2>7 DEF MInv, MuxTypes
  <2>14. /\ Buffered(u) = SubSeq(output[p], 1, k)
         /\ Buffered(u)' = SubSeq(text, 1, muxLength')
         /\ \A v \in Users \ {u} : Buffered(v) = <<>> /\ Buffered(v)' = <<>>
    BY <1>0, <1>1, <1>3, <2>1, <2>4, <2>13 DEF Buffered, Mux!OnLine, Mux!ports
  <2>15. ASSUME session[u] # "left" PROVE wrote'[u] = heard'[u] \o Buffered(u)'
    <3>1. wrote'[u] = heard[u] \o text
      <4>1. wrote[u] = heard[u] \o SubSeq(output[p], 1, k)
        BY <2>14, <2>15 DEF MInv, Writing
      <4> QED
        BY <2>6, <2>13, <4>1
    <3>2. CASE k + 1 = BufSize
      <4>1. heard'[u] = heard[u] \o text
        BY <2>6, <2>7, <2>15, <3>2 DEF MInv, MuxTypes
      <4> QED
        BY <2>6, <2>8, <2>14, <3>1, <3>2, <4>1
    <3>3. CASE k + 1 # BufSize
      BY <2>6, <2>7, <2>8, <2>14, <3>1, <3>3
    <3> QED
      BY <3>2, <3>3
  <2>16. \A v \in Users : session'[v] # "left" => wrote'[v] = heard'[v] \o Buffered(v)'
    BY <1>1, <2>13, <2>14, <2>15 DEF MInv, Writing
  <2>17. /\ muxLength' < BufSize /\ muxLength' <= Len(output'[p])
         /\ isActive'[p] /\ muxPort' = p
    BY <1>0, <1>1, <1>3, <2>2, <2>4, <2>6, <2>8, <2>13 DEF Mux!ports, MuxAssumption
  <2> QED
    BY <2>11, <2>12, <2>16, <2>17 DEF MInv, Writing
<1> QED
  BY <1>2, <1>3

\* The disconnect sends what is in the buffer.
LEMMA TpmDisconnectKeeps == ASSUME MuxAssumption, MInv, Mux!TpmDisconnect PROVE MInv'
<1>1. /\ closing = Mux!NoPort /\ muxFcode = "write" /\ muxFcode' = "none" /\ kind = "tpmux"
      /\ UNCHANGED <<kind, Mux!thread, Mux!ports, muxPort, Mux!texts, session, typing, gotKeys,
                     wrote>>
  BY DEF Mux!TpmDisconnect, Mux!Works
<1>2. Functions' /\ Typing' /\ Lines'
  BY <1>1, KeysStay, LinesStay DEF MInv, Functions, Mux!ports, Mux!texts
<1>3. \A u \in Users : Buffered(u)' = <<>>
  BY <1>1 DEF Buffered
<1>4. /\ heard' \in [Users -> Seq(Chars)] /\ muxLength' \in Nat
      /\ \A u \in Users : session[u] # "left" => wrote[u] = heard'[u] \o <<>>
  <2>1. CASE muxPort \in Ports /\ isActive[muxPort]
    <3>1. PICK p \in Ports : p = muxPort
      BY <2>1
    <3>2. PICK u \in Users : u = Mux!OnLine(p)
      BY <1>1, <2>1, <3>1, Basics, ActiveHolds, HolderOwns DEF MInv
    <3>3. PICK b \in Seq(Chars) : b = SubSeq(output[p], 1, muxLength)
      <4>1. output[p] \in Seq(Chars) /\ muxLength \in 0 .. Len(output[p])
        BY <1>1, <3>1 DEF MInv, MuxTypes, Writing
      <4>2. SubSeq(output[p], 1, muxLength) \in Seq(Chars)
        BY <4>1, FirstPart
      <4> QED
        BY <4>2
    <3>4. heard[u] \in Seq(Chars)
      BY DEF MInv, MuxTypes
    <3>5. heard[u] \o b \in Seq(Chars) /\ (heard[u] \o b) \o <<>> = heard[u] \o b
      BY <3>4
    <3>6. /\ muxLength' = 0
          /\ session[u] # "left" => heard' = [heard EXCEPT ![u] = heard[u] \o b]
          /\ session[u] = "left" => heard' = heard
      BY <2>1, <3>1, <3>2, <3>3 DEF Mux!TpmDisconnect, Mux!Sent
    <3>7. Buffered(u) = b /\ \A v \in Users \ {u} : Buffered(v) = <<>>
      BY <1>1, <2>1, <3>1, <3>2, <3>3 DEF Buffered
    <3>8. heard' \in [Users -> Seq(Chars)]
      BY <3>5, <3>6 DEF MInv, MuxTypes
    <3>9. ASSUME NEW v \in Users, session[v] # "left" PROVE wrote[v] = heard'[v] \o <<>>
      <4>1. wrote[v] = heard[v] \o Buffered(v)
        BY <3>9 DEF MInv, Writing
      <4>2. CASE v = u
        <5>1. heard'[u] = heard[u] \o b
          BY <3>6, <3>9, <4>2 DEF MInv, MuxTypes
        <5> QED
          BY <3>5, <3>7, <4>1, <4>2, <5>1
      <4>3. CASE v # u
        BY <3>6, <3>7, <4>1, <4>3 DEF MInv, MuxTypes
      <4> QED
        BY <4>2, <4>3
    <3> QED
      BY <3>6, <3>8, <3>9
  <2>2. CASE ~ (muxPort \in Ports /\ isActive[muxPort])
    <3>1. UNCHANGED <<heard, muxLength>>
      BY <2>2 DEF Mux!TpmDisconnect
    <3>2. \A u \in Users : Buffered(u) = <<>>
      BY <2>2 DEF Buffered
    <3> QED
      BY <3>1, <3>2 DEF MInv, MuxTypes, Writing
  <2> QED
    BY <2>1, <2>2
<1>5. MuxTypes'
  BY <1>1, <1>4 DEF MInv, MuxTypes, Mux!thread, Mux!ports, Mux!texts
<1>6. Writing'
  BY <1>1, <1>3, <1>4 DEF Writing
<1> QED
  BY <1>2, <1>5, <1>6 DEF MInv

\* A user who calls or leaves.
LEMMA CallsKeeps == ASSUME MuxAssumption, MInv, NEW u \in Users, Mux!Calls(u) PROVE MInv'
<1>1. /\ session[u] = "out" /\ session' = [session EXCEPT ![u] = "calling"]
      /\ UNCHANGED <<kind, Mux!thread, Mux!ports, Mux!channel, Mux!texts, heard, gotKeys, wrote>>
  BY DEF Mux!Calls
<1>2. PICK n \in 0 .. MaxTyped : typing' = [typing EXCEPT ![u] = SubSeq(Mux!Typed, 1, n)]
  BY DEF Mux!Calls
<1>3. PICK t \in Seq(Nat) : t = SubSeq(Mux!Typed, 1, n) /\ Len(t) = n
  <2>1. Mux!Typed \in Seq(Nat) /\ Len(Mux!Typed) = MaxTyped
    BY DEF Mux!Typed, MuxAssumption
  <2>2. SubSeq(Mux!Typed, 1, n) \in Seq(Nat) /\ Len(SubSeq(Mux!Typed, 1, n)) = n
    BY <2>1, FirstPart
  <2> QED
    BY <2>2
<1>4. MuxTypes'
  BY <1>1, <1>2, <1>3 DEF MInv, MuxTypes, Mux!thread, Mux!ports, Mux!channel, Mux!texts
<1>5. /\ session'[u] = "calling" /\ typing'[u] = t
      /\ \A v \in Users \ {u} : session'[v] = session[v] /\ typing'[v] = typing[v]
  BY <1>1, <1>2, <1>3 DEF MInv, MuxTypes
<1>6. Holders' = Holders
  BY <1>1 DEF Holders, Mux!thread, Mux!ports
<1>7. \A a \in DOMAIN descriptors : descriptors[a] # u
  BY <1>1 DEF MInv, Lines
<1>8. Lines'
  BY <1>1, <1>5, <1>6, <1>7 DEF MInv, Lines, Mux!thread, Mux!ports, Mux!channel
<1>9. Functions'
  BY <1>1 DEF MInv, Functions, Mux!ports, Mux!channel, Mux!texts
<1>10. ASSUME NEW v \in Users PROVE Held(v)' = Held(v)
  BY <1>1 DEF Held, Taken, Mux!OnLine, Mux!ports, Mux!texts
<1>11. Held(u) = <<>>
  BY <1>7, AnnouncedHolds, HeldNone DEF MInv, Lines, Mux!OnLine
<1>12. ASSUME NEW v \in Users
       PROVE  IF session'[v] = "out" THEN gotKeys'[v] = <<>>
              ELSE Stream(v)' = SubSeq(Mux!Typed', 1, Len(Stream(v)'))
  <2>1. CASE v = u
    <3>1. gotKeys'[u] = <<>>
      BY <1>1 DEF MInv, Typing
    <3>2. Stream(u)' = t
      <4>1. Stream(u)' = (<<>> \o <<>>) \o t
        BY <1>5, <1>10, <1>11, <3>1 DEF Stream
      <4> QED
        BY <1>3, <4>1
    <3> QED
      BY <1>3, <1>5, <2>1, <3>2 DEF Mux!Typed
  <2>2. CASE v # u
    <3>1. Stream(v)' = Stream(v) /\ session'[v] = session[v] /\ Mux!Typed' = Mux!Typed
      BY <1>1, <1>5, <1>10, <2>2 DEF Stream, Mux!Typed
    <3> QED
      BY <1>1, <3>1 DEF MInv, Typing
  <2> QED
    BY <2>1, <2>2
<1>13. Typing'
  BY <1>12 DEF Typing
<1>14. Writing'
  BY <1>1, <1>5, WriteFrame DEF Mux!ports, Mux!channel, Mux!texts, Mux!OnLine
<1> QED
  BY <1>4, <1>8, <1>9, <1>13, <1>14 DEF MInv

\* A user leaves: what it has typed is still on the line.
LEMMA LeavesKeeps == ASSUME MuxAssumption, MInv, NEW u \in Users, Mux!Leaves(u) PROVE MInv'
<1>1. /\ session[u] = "in" /\ session' = [session EXCEPT ![u] = "left"]
      /\ UNCHANGED <<kind, Mux!thread, Mux!ports, Mux!channel, Mux!texts, typing, heard,
                     gotKeys, wrote>>
  BY DEF Mux!Leaves
<1>2. MuxTypes'
  BY <1>1 DEF MInv, MuxTypes, Mux!thread, Mux!ports, Mux!channel, Mux!texts
<1>3. session'[u] = "left" /\ \A v \in Users \ {u} : session'[v] = session[v]
  BY <1>1 DEF MInv, MuxTypes
<1>4. Holders' = Holders
  BY <1>1 DEF Holders, Mux!thread, Mux!ports
<1>5. Lines' /\ Functions'
  BY <1>1, <1>3, <1>4 DEF MInv, Lines, Functions, Mux!thread, Mux!ports, Mux!channel, Mux!texts
<1>6. Typing'
  BY <1>1, <1>3, KeysFrame DEF Mux!ports, Mux!texts, Mux!OnLine
<1>7. Writing'
  BY <1>1, <1>3, WriteFrame DEF Mux!ports, Mux!channel, Mux!texts, Mux!OnLine
<1> QED
  BY <1>2, <1>5, <1>6, <1>7 DEF MInv

\* Every step of a multiplexer keeps the invariant.
LEMMA NextMInv == ASSUME MuxAssumption, MInv, Mux!MuxNext \/ UNCHANGED Mux!muxVars PROVE MInv'
<1>1. CASE Mux!MainThread
  BY <1>1, ClosedIsInactiveKeeps, InputWordKeeps, StatusWordKeeps, ReadCharKeeps, WriteCharKeeps,
     TpmDisconnectKeeps, FunctionsKeep, OutputWordKeeps DEF Mux!MainThread
<1>2. CASE Mux!LookAtPort \/ Mux!MarkActive
  BY <1>2, LookAtPortKeeps, MarkActiveKeeps
<1>3. CASE \E u \in Users : Mux!Accept(u) \/ Mux!Calls(u) \/ Mux!Leaves(u)
  BY <1>3, AcceptKeeps, CallsKeeps, LeavesKeeps
<1>4. CASE UNCHANGED Mux!muxVars
  <2> USE <1>4 DEF Mux!muxVars, Mux!thread, Mux!ports, Mux!channel, Mux!texts, Mux!people
  <2>1. MuxTypes'
    BY DEF MInv, MuxTypes
  <2>2. Holders' = Holders
    BY DEF Holders
  <2>3. Lines' /\ Functions'
    BY <2>2 DEF MInv, Lines, Functions
  <2>4. Typing' /\ Writing'
    BY KeysFrame, WriteFrame DEF Mux!OnLine
  <2> QED
    BY <2>1, <2>3, <2>4 DEF MInv
<1> QED
  BY <1>1, <1>2, <1>3, <1>4 DEF Mux!MuxNext

\* The invariant implies the property.
LEMMA MInvSafe == ASSUME MuxAssumption, MInv PROVE Mux!MuxSafe
<1>1. Mux!OwnDescriptor
  BY ActiveHolds DEF MInv, Lines, Mux!OwnDescriptor
<1>2. Mux!KeysInTurn
  BY DEF MInv, Typing, Stream, Held, Taken, Mux!KeysInTurn
<1>3. Mux!WrittenIsSent
  <2>1. ASSUME NEW u \in Users, session[u] # "left", muxFcode # "write" PROVE heard[u] = wrote[u]
    <3>1. heard[u] \in Seq(Chars) /\ wrote[u] = heard[u] \o <<>>
      BY <2>1 DEF MInv, MuxTypes, Writing, Buffered
    <3> QED
      BY <3>1
  <2>2. ASSUME NEW u \in Users, session[u] # "left", muxFcode = "write"
        PROVE  heard[u] = SubSeq(wrote[u], 1, Len(heard[u]))
    <3>1. PICK h \in Seq(Chars) : h = heard[u]
      BY DEF MInv, MuxTypes
    <3>2. Buffered(u) \in Seq(Chars)
      <4>1. CASE muxPort \in Ports
        <5>1. output[muxPort] \in Seq(Chars) /\ muxLength \in 0 .. Len(output[muxPort])
          BY <2>2, <4>1 DEF MInv, MuxTypes, Writing
        <5> QED
          BY <5>1 DEF Buffered
      <4>2. CASE muxPort \notin Ports
        BY <4>2 DEF Buffered
      <4> QED
        BY <4>1, <4>2
    <3>3. PICK b \in Seq(Chars) : b = Buffered(u)
      BY <3>2
    <3>4. SubSeq(h \o b, 1, Len(h)) = h
      OBVIOUS
    <3> QED
      BY <2>2, <3>1, <3>3, <3>4 DEF MInv, Writing
  <2> QED
    BY <2>1, <2>2 DEF Mux!WrittenIsSent
<1> QED
  BY <1>1, <1>2, <1>3 DEF Mux!MuxSafe

-----------------------------------------------------------------------------
(***************************************************************************)
(* Numbers, and records put together.                                      *)
(***************************************************************************)
\* A set of numbers that holds 0 and with each number the next holds all.
LEMMA Induction ==
    ASSUME NEW S, 0 \in S, \A n \in Nat : n \in S => n + 1 \in S
    PROVE  Nat \subseteq S
<1> DEFINE R == OpToRel(<, Nat)
           B == Nat \ S
<1>1. \A m, n \in Nat : m < n => <<m, n>> \in R
  BY DEF OpToRel
<1>2. IsWellFoundedOn(R, Nat)
  BY NatLessThanWellFounded
<1> HIDE DEF R
<1>3. SUFFICES ASSUME B # {} PROVE FALSE
  OBVIOUS
<1>4. \E n \in B : \A m \in B : ~ (<<m, n>> \in R)
  <2>1. B \subseteq Nat
    OBVIOUS
  <2> HIDE DEF B
  <2> QED
    BY <1>2, <1>3, <2>1, WFMin, Zenon
<1>5. PICK n \in B : \A m \in B : ~ (<<m, n>> \in R)
  BY <1>4
<1>6. \A m \in B : ~ (m < n)
  BY <1>1, <1>5
<1>7. n \in Nat /\ n # 0
  BY <1>5
<1>8. n - 1 \in Nat /\ n - 1 < n /\ (n - 1) + 1 = n
  BY <1>7
<1>9. n - 1 \in S
  BY <1>6, <1>8
<1> QED
  BY <1>5, <1>8, <1>9

\* f puts the records of s together one by one, as FlatRecords does.
Flat(f, s, n) == f = [i \in 0 .. n |-> IF i = 0 THEN <<>> ELSE f[i - 1] \o s[i]]

\* There is a function that puts the first n records together: FlatRecords does not choose in
\* vain.
LEMMA FlatExists ==
    ASSUME NEW s, NEW n \in Nat
    PROVE  \E f : Flat(f, s, n)
<1> DEFINE S == {k \in Nat : \E f : Flat(f, s, k)}
<1>1. 0 \in S
  <2> DEFINE f == [i \in 0 .. 0 |-> <<>>]
  <2>1. f = [i \in 0 .. 0 |-> IF i = 0 THEN <<>> ELSE f[i - 1] \o s[i]]
    OBVIOUS
  <2>2. Flat(f, s, 0)
    BY <2>1 DEF Flat
  <2> QED
    BY <2>2
<1>2. ASSUME NEW k \in Nat, k \in S PROVE k + 1 \in S
  <2>1. PICK f : Flat(f, s, k)
    BY <1>2
  <2>2. \A i \in 0 .. k : f[i] = IF i = 0 THEN <<>> ELSE f[i - 1] \o s[i]
    BY <2>1 DEF Flat
  <2> DEFINE g == [i \in 0 .. k + 1 |-> IF i <= k THEN f[i] ELSE f[k] \o s[k + 1]]
  <2>3. ASSUME NEW i \in 0 .. k + 1
        PROVE  g[i] = IF i = 0 THEN <<>> ELSE g[i - 1] \o s[i]
    <3>1. CASE i = 0
      BY <2>2, <3>1
    <3>2. CASE i \in 1 .. k
      <4>1. i - 1 \in 0 .. k + 1 /\ i - 1 <= k /\ i <= k /\ i \in 0 .. k /\ i # 0
        BY <3>2
      <4> QED
        BY <2>2, <4>1
    <3>3. CASE i = k + 1
      <4>1. i - 1 = k /\ k \in 0 .. k + 1 /\ ~ (i <= k) /\ k <= k /\ i # 0
        BY <3>3
      <4>2. g[i] = f[k] \o s[k + 1] /\ g[k] = f[k]
        BY <3>3, <4>1
      <4> HIDE DEF g
      <4> QED
        BY <3>3, <4>1, <4>2
    <3> QED
      BY <3>1, <3>2, <3>3
  <2>4. Flat(g, s, k + 1)
    <3>1. g = [i \in 0 .. k + 1 |-> g[i]]
      OBVIOUS
    <3> HIDE DEF g
    <3>2. [i \in 0 .. k + 1 |-> g[i]]
            = [i \in 0 .. k + 1 |-> IF i = 0 THEN <<>> ELSE g[i - 1] \o s[i]]
      BY <2>3
    <3> QED
      BY <3>1, <3>2 DEF Flat
  <2> QED
    BY <2>4
<1> HIDE DEF S
<1>3. Nat \subseteq S
  BY <1>1, <1>2, Induction
<1> USE DEF S
<1> QED
  BY <1>3

\* FlatRecords is the last value of such a function.
LEMMA FlatIs ==
    ASSUME NEW s, Len(s) \in Nat
    PROVE  \E f : Flat(f, s, Len(s)) /\ Old!FlatRecords(s) = f[Len(s)]
<1> DEFINE up == CHOOSE f : f = [i \in 0 .. Len(s) |-> IF i = 0 THEN <<>> ELSE f[i - 1] \o s[i]]
<1>1. Old!FlatRecords(s) = up[Len(s)]
  BY DEF Old!FlatRecords
<1>2. \E f : f = [i \in 0 .. Len(s) |-> IF i = 0 THEN <<>> ELSE f[i - 1] \o s[i]]
  BY FlatExists DEF Flat
<1>3. up = [i \in 0 .. Len(s) |-> IF i = 0 THEN <<>> ELSE up[i - 1] \o s[i]]
  BY <1>2
<1> QED
  BY <1>1, <1>3 DEF Flat

\* Where two sequences agree their records put together do.
LEMMA FlatAgrees ==
    ASSUME NEW s, NEW t, NEW n \in Nat, NEW m \in Nat, NEW f, NEW g, n <= m,
           \A i \in 1 .. n : s[i] = t[i], Flat(f, s, n), Flat(g, t, m)
    PROVE  f[n] = g[n]
<1> DEFINE S == {k \in Nat : k <= n => f[k] = g[k]}
<1>1. \A i \in 0 .. n : f[i] = IF i = 0 THEN <<>> ELSE f[i - 1] \o s[i]
  BY DEF Flat
<1>2. \A i \in 0 .. m : g[i] = IF i = 0 THEN <<>> ELSE g[i - 1] \o t[i]
  BY DEF Flat
<1>3. 0 \in S
  BY <1>1, <1>2
<1>4. ASSUME NEW k \in Nat, k \in S PROVE k + 1 \in S
  <2>1. CASE k + 1 <= n
    <3>1. k + 1 \in 0 .. n /\ k + 1 \in 0 .. m /\ k + 1 # 0 /\ (k + 1) - 1 = k /\ k + 1 \in 1 .. n
      BY <2>1
    <3>2. f[k + 1] = f[k] \o s[k + 1] /\ g[k + 1] = g[k] \o t[k + 1]
      BY <1>1, <1>2, <3>1
    <3>3. f[k] = g[k] /\ s[k + 1] = t[k + 1]
      BY <1>4, <2>1, <3>1
    <3>4. f[k] \o s[k + 1] = g[k] \o t[k + 1]
      BY <3>3, Zenon
    <3>5. f[k + 1] = g[k + 1]
      BY <3>2, <3>4, Zenon
    <3> QED
      BY <3>5
  <2>2. CASE ~ (k + 1 <= n)
    BY <2>2
  <2> QED
    BY <2>1, <2>2
<1> HIDE DEF S
<1>5. Nat \subseteq S
  BY <1>3, <1>4, Induction
<1> USE DEF S
<1> QED
  BY <1>5

\* Records of words put together are words.
LEMMA FlatType ==
    ASSUME NEW T, NEW s \in Seq(Seq(T)), NEW f, Flat(f, s, Len(s)), NEW n \in 0 .. Len(s)
    PROVE  f[n] \in Seq(T)
<1> DEFINE S == {k \in Nat : k <= Len(s) => f[k] \in Seq(T)}
<1>1. \A i \in 0 .. Len(s) : f[i] = IF i = 0 THEN <<>> ELSE f[i - 1] \o s[i]
  BY DEF Flat
<1>2. 0 \in S
  <2>1. 0 \in 0 .. Len(s)
    OBVIOUS
  <2>2. f[0] = <<>> /\ <<>> \in Seq(T)
    BY <1>1, <2>1
  <2> QED
    BY <2>2
<1>3. ASSUME NEW k \in Nat, k \in S PROVE k + 1 \in S
  <2>1. CASE k + 1 <= Len(s)
    <3>1. k + 1 \in 0 .. Len(s) /\ k + 1 # 0 /\ (k + 1) - 1 = k /\ k + 1 \in 1 .. Len(s)
      BY <2>1
    <3>2. f[k + 1] = f[k] \o s[k + 1]
      BY <1>1, <3>1
    <3>3. PICK x \in Seq(T) : x = f[k]
      BY <1>3, <2>1
    <3>4. PICK y \in Seq(T) : y = s[k + 1]
      BY <3>1
    <3>5. x \o y \in Seq(T)
      BY <3>3, <3>4
    <3>6. f[k + 1] \in Seq(T)
      BY <3>2, <3>3, <3>4, <3>5
    <3> QED
      BY <3>6
  <2>2. CASE ~ (k + 1 <= Len(s))
    BY <2>2
  <2> QED
    BY <2>1, <2>2
<1> HIDE DEF S
<1>4. Nat \subseteq S
  BY <1>2, <1>3, Induction
<1> USE DEF S
<1> QED
  BY <1>4

\* The same of FlatRecords.
LEMMA RecordsType ==
    ASSUME NEW T, NEW s \in Seq(Seq(T))
    PROVE  Old!FlatRecords(s) \in Seq(T)
<1>1. Len(s) \in Nat
  OBVIOUS
<1>2. PICK f : Flat(f, s, Len(s)) /\ Old!FlatRecords(s) = f[Len(s)]
  BY <1>1, FlatIs
<1>3. f[Len(s)] \in Seq(T)
  BY <1>1, <1>2, FlatType
<1> QED
  BY <1>2, <1>3

\* No records are no words.
LEMMA NoRecords == Old!FlatRecords(<<>>) = <<>>
<1> DEFINE e == <<>>
<1>1. Len(e) = 0
  OBVIOUS
<1>2. PICK f : Flat(f, e, Len(e)) /\ Old!FlatRecords(e) = f[Len(e)]
  BY <1>1, FlatIs
<1>3. f[0] = <<>>
  BY <1>1, <1>2 DEF Flat
<1> QED
  BY <1>1, <1>2, <1>3

\* A record more at the end.
LEMMA RecordsGrow ==
    ASSUME NEW R, NEW s \in Seq(R), NEW x \in R
    PROVE  Old!FlatRecords(Append(s, x)) = Old!FlatRecords(s) \o x
<1>1. PICK t \in Seq(R) : t = Append(s, x)
  <2>1. Append(s, x) \in Seq(R)
    OBVIOUS
  <2> QED
    BY <2>1
<1>2. PICK n \in Nat : n = Len(s)
  OBVIOUS
<1>3. Len(t) = n + 1 /\ t[n + 1] = x /\ \A i \in 1 .. n : s[i] = t[i]
  BY <1>1, <1>2
<1>4. PICK f : Flat(f, s, n) /\ Old!FlatRecords(s) = f[n]
  BY <1>2, FlatIs
<1>5. PICK g : Flat(g, t, n + 1) /\ Old!FlatRecords(t) = g[n + 1]
  <2>1. Len(t) \in Nat
    BY <1>2, <1>3
  <2> QED
    BY <1>3, <2>1, FlatIs
<1>6. g[n + 1] = g[n] \o x
  <2>1. n + 1 \in 0 .. n + 1 /\ n + 1 # 0 /\ (n + 1) - 1 = n
    BY <1>2
  <2>2. \A i \in 0 .. n + 1 : g[i] = IF i = 0 THEN <<>> ELSE g[i - 1] \o t[i]
    BY <1>5 DEF Flat
  <2> QED
    BY <1>3, <2>1, <2>2
<1>7. f[n] = g[n]
  <2>1. PICK m \in Nat : m = n + 1
    BY <1>2
  <2>2. Flat(f, s, n) /\ Flat(g, t, m) /\ n <= m /\ n \in Nat
    BY <1>2, <1>4, <1>5, <2>1
  <2>3. \A i \in 1 .. n : s[i] = t[i]
    BY <1>3
  <2> QED
    BY <2>1, <2>2, <2>3, FlatAgrees
<1> QED
  BY <1>1, <1>4, <1>5, <1>6, <1>7

\* What is left without the first element.
LEMMA TailOf ==
    ASSUME NEW R, NEW s \in Seq(R), s # <<>>
    PROVE  /\ Tail(s) \in Seq(R) /\ Len(Tail(s)) \in Nat /\ Len(s) = Len(Tail(s)) + 1
           /\ Head(s) \in R /\ Head(s) = s[1]
           /\ \A i \in 1 .. Len(Tail(s)) : Tail(s)[i] = s[i + 1] /\ Tail(s)[i] \in R
OBVIOUS

\* Concatenation is associative.
LEMMA Associates ==
    ASSUME NEW T, NEW a, NEW b, NEW c, NEW l, NEW r, a \in Seq(T) /\ b \in Seq(T) /\ c \in Seq(T),
           l = (a \o b) \o c /\ r = b \o c
    PROVE  l = a \o r
OBVIOUS

\* A record less at the beginning.
LEMMA RecordsDrop ==
    ASSUME NEW T, NEW s \in Seq(Seq(T)), s # <<>>
    PROVE  Old!FlatRecords(s) = Head(s) \o Old!FlatRecords(Tail(s))
<1> DEFINE Q == Seq(T)
<1> HIDE DEF Q
<1>0. s \in Seq(Q)
  BY DEF Q
<1>1. PICK t \in Seq(Q) : t = Tail(s)
  BY <1>0, TailOf
<1>2. PICK n \in Nat : n = Len(t)
  BY <1>0, <1>1, TailOf
<1>3. PICK h \in Seq(T) : h = Head(s)
  <2>1. Head(s) \in Q
    BY <1>0, TailOf
  <2> QED
    BY <2>1 DEF Q
<1>4. Len(s) = n + 1 /\ s[1] = h /\ \A i \in 1 .. n : t[i] = s[i + 1] /\ t[i] \in Q
  BY <1>0, <1>1, <1>2, <1>3, TailOf
<1>5. PICK f : Flat(f, s, n + 1) /\ Old!FlatRecords(s) = f[n + 1]
  <2>1. Len(s) \in Nat
    BY <1>2, <1>4
  <2> QED
    BY <1>4, <2>1, FlatIs
<1>6. PICK g : Flat(g, t, n) /\ Old!FlatRecords(t) = g[n]
  BY <1>2, FlatIs
<1>7. \A i \in 0 .. n + 1 : f[i] = IF i = 0 THEN <<>> ELSE f[i - 1] \o s[i]
  BY <1>5 DEF Flat
<1>8. \A i \in 0 .. n : g[i] = IF i = 0 THEN <<>> ELSE g[i - 1] \o t[i]
  BY <1>6 DEF Flat
<1>9. \A i \in 0 .. n : g[i] \in Seq(T)
  <2>1. t \in Seq(Seq(T))
    BY <1>1 DEF Q
  <2> QED
    BY <1>2, <1>6, <2>1, FlatType
<1> DEFINE S == {k \in Nat : k <= n => f[k + 1] = h \o g[k]}
<1>10. 0 \in S
  <2>1. 0 \in 0 .. n + 1 /\ 1 \in 0 .. n + 1 /\ 1 # 0 /\ 1 - 1 = 0 /\ 0 \in 0 .. n /\ 0 + 1 = 1
    BY <1>2
  <2>2. f[0] = <<>> /\ g[0] = <<>> /\ f[1] = f[0] \o s[1] /\ s[1] = h
    BY <1>4, <1>7, <1>8, <2>1
  <2>3. <<>> \o h = h \o <<>>
    BY <1>3
  <2>4. f[1] = h \o g[0]
    BY <2>2, <2>3
  <2> QED
    BY <2>1, <2>4
<1>11. ASSUME NEW k \in Nat, k \in S PROVE k + 1 \in S
  <2>1. CASE k + 1 <= n
    <3>1. /\ (k + 1) + 1 \in 0 .. n + 1 /\ (k + 1) + 1 # 0 /\ ((k + 1) + 1) - 1 = k + 1
          /\ k + 1 \in 0 .. n /\ k + 1 # 0 /\ (k + 1) - 1 = k /\ k + 1 \in 1 .. n /\ k \in 0 .. n
      BY <2>1
    <3>2. f[(k + 1) + 1] = f[k + 1] \o s[(k + 1) + 1] /\ g[k + 1] = g[k] \o t[k + 1]
      BY <1>7, <1>8, <3>1
    <3>3. f[k + 1] = h \o g[k] /\ t[k + 1] = s[(k + 1) + 1]
      BY <1>4, <1>11, <2>1, <3>1
    <3>4. PICK x \in Seq(T) : x = t[k + 1]
      BY <1>4, <3>1 DEF Q
    <3>5. PICK y \in Seq(T) : y = g[k]
      BY <1>9, <3>1
    <3>6. f[(k + 1) + 1] = (h \o y) \o x /\ g[k + 1] = y \o x
      BY <3>2, <3>3, <3>4, <3>5, Zenon
    <3>7. h \in Seq(T) /\ y \in Seq(T) /\ x \in Seq(T)
      BY <1>3, <3>4, <3>5
    <3>8. PICK l, r : l = f[(k + 1) + 1] /\ r = g[k + 1]
      OBVIOUS
    <3>9. f[(k + 1) + 1] = h \o g[k + 1]
      <4>1. l = (h \o y) \o x /\ r = y \o x
        BY <3>6, <3>8
      <4>2. l = h \o r
        BY <3>7, <4>1, Associates, SMTT(30)
      <4> QED
        BY <3>8, <4>2
    <3> QED
      BY <3>9
  <2>2. CASE ~ (k + 1 <= n)
    BY <2>2
  <2> QED
    BY <2>1, <2>2
<1> HIDE DEF S
<1>12. Nat \subseteq S
  BY <1>10, <1>11, Induction
<1> USE DEF S
<1>13. f[n + 1] = h \o g[n]
  BY <1>12
<1> QED
  BY <1>1, <1>3, <1>5, <1>6, <1>13

\* Multiplication is monotonic.
LEMMA Times ==
    ASSUME NEW p \in Int, NEW q \in Int, NEW b \in Nat, p <= q
    PROVE  p * b <= q * b
OBVIOUS

\* A digit more of a number: it fits.
LEMMA RadixFits ==
    ASSUME NEW q \in Nat, NEW m \in Nat, q < m, NEW b \in Nat, NEW r \in 0 .. b - 1
    PROVE  q * b + r \in 0 .. m * b - 1
<1>1. (q + 1) * b <= m * b
  BY Times
<1>2. (q + 1) * b = q * b + b
  OBVIOUS
<1>3. q * b \in Nat
  OBVIOUS
<1>4. m * b \in Int
  OBVIOUS
<1> QED
  BY <1>1, <1>2, <1>3, <1>4

\* The last digit and the others are determined by the number.
LEMMA RadixOne ==
    ASSUME NEW p \in Nat, NEW q \in Nat, NEW b \in Nat, NEW r \in 0 .. b - 1, NEW s \in 0 .. b - 1,
           p * b + r = q * b + s
    PROVE  p = q /\ r = s
<1>1. ASSUME NEW x \in Nat, NEW y \in Nat, NEW i \in 0 .. b - 1, NEW j \in 0 .. b - 1, x < y
      PROVE  x * b + i # y * b + j
  <2>1. (x + 1) * b <= y * b
    BY <1>1, Times
  <2>2. (x + 1) * b = x * b + b
    OBVIOUS
  <2>3. x * b \in Nat /\ y * b \in Nat
    OBVIOUS
  <2> QED
    BY <2>1, <2>2, <2>3
<1>2. ~ (p < q) /\ ~ (q < p)
  BY <1>1
<1>3. p = q
  BY <1>2
<1>4. p * b \in Nat
  OBVIOUS
<1> QED
  BY <1>3, <1>4

\* Division by p undoes multiplication by p.
LEMMA DivFits ==
    ASSUME NEW m \in Nat, NEW p \in Nat \ {0}, NEW x \in Nat, x <= m * p
    PROVE  x \div p \in Nat /\ x \div p <= m
<1>1. x = (x \div p) * p + (x % p) /\ x % p \in 0 .. p - 1 /\ x \div p \in Nat
  OBVIOUS
<1>2. PICK d \in Nat : d = x \div p
  BY <1>1
<1>3. d * p <= m * p
  BY <1>1, <1>2
<1>4. ASSUME d > m PROVE FALSE
  <2>1. (m + 1) * p <= d * p
     BY <1>4, Times
  <2>2. (m + 1) * p = m * p + p
     OBVIOUS
  <2>3. m * p \in Nat /\ d * p \in Nat
     OBVIOUS
  <2> QED BY <1>3, <2>1, <2>2, <2>3
<1> QED BY <1>2, <1>4

\* Division is monotonic.
LEMMA DivGrows ==
    ASSUME NEW p \in Nat \ {0}, NEW x \in Nat, NEW y \in Nat, x <= y
    PROVE  x \div p <= y \div p
OBVIOUS

\* A product taken apart.
LEMMA Distributes ==
    ASSUME NEW p \in Nat, NEW x \in Int, NEW y \in Int, NEW a \in Int
    PROVE  a + (x + y) * p = (a + x * p) + y * p
OBVIOUS

-----------------------------------------------------------------------------
(***************************************************************************)
(* The 607 tapes, the 405 reader and the 1612 printer.                     *)
(***************************************************************************)
\* The first records of a reel and the next one.
LEMMA FirstRecords ==
    ASSUME NEW R, NEW s \in Seq(R), NEW n \in Nat, n < Len(s)
    PROVE  /\ SubSeq(s, 1, n) \in Seq(R) /\ s[n + 1] \in R
           /\ SubSeq(s, 1, n + 1) = Append(SubSeq(s, 1, n), s[n + 1])
<1>1. SubSeq(s, 1, n) \in Seq(R) /\ s[n + 1] \in R /\ Len(SubSeq(s, 1, n)) = n
  OBVIOUS
<1>2. SubSeq(s, 1, n + 1) \in Seq(R) /\ Len(SubSeq(s, 1, n + 1)) = n + 1
  OBVIOUS
<1>3. Append(SubSeq(s, 1, n), s[n + 1]) \in Seq(R) /\ Len(Append(SubSeq(s, 1, n), s[n + 1])) = n + 1
  BY <1>1
<1>4. \A i \in 1 .. n + 1 : SubSeq(s, 1, n + 1)[i] = Append(SubSeq(s, 1, n), s[n + 1])[i]
  BY <1>1
<1> QED
  BY <1>1, <1>2, <1>3, <1>4

\* A record more has passed the head.
LEMMA RecordPasses ==
    ASSUME NEW R, NEW s \in Seq(R), NEW n \in Nat, n < Len(s)
    PROVE  Old!FlatRecords(SubSeq(s, 1, n + 1)) = Old!FlatRecords(SubSeq(s, 1, n)) \o s[n + 1]
<1>1. SubSeq(s, 1, n) \in Seq(R) /\ s[n + 1] \in R
  BY FirstRecords
<1>2. SubSeq(s, 1, n + 1) = Append(SubSeq(s, 1, n), s[n + 1])
  BY FirstRecords
<1>3. Old!FlatRecords(Append(SubSeq(s, 1, n), s[n + 1]))
        = Old!FlatRecords(SubSeq(s, 1, n)) \o s[n + 1]
  BY <1>1, RecordsGrow
<1> QED
  BY <1>2, <1>3

\* A word moves from the rest to what was taken.
LEMMA WordTaken ==
    ASSUME NEW T, NEW g, NEW r, NEW h, NEW t, g \in Seq(T) /\ r \in Seq(T) /\ r # <<>>,
           h = Append(g, Head(r)) /\ t = Tail(r)
    PROVE  h \in Seq(T) /\ t \in Seq(T) /\ h \o t = g \o r
OBVIOUS

\* The 607 tapes keep their invariant, TapeSelect to TapeOther.
LEMMA TapeKeeps == ASSUME OldAssumption, TapeInv, Old!Tape607 PROVE TapeInv'
<1> DEFINE Records(u) == Old!FlatRecords(SubSeq(Reels[u], 1, passed[u]))
<1>0. \A u \in Tapes : got[u] \o rest[u] = Records(u)
  BY DEF TapeInv, Old!TapeInOrder, Tapes, Old!Tapes
<1> HIDE DEF Records
<1>1. CASE \E u \in Tapes : Old!TapeSelect(u)
  BY <1>1 DEF TapeInv, Old!TapeSelect, Old!TapeInOrder
<1>2. CASE Old!TapeRewind
  <2>1. /\ passed' = [passed EXCEPT ![unit] = 0] /\ got' = [got EXCEPT ![unit] = <<>>]
        /\ UNCHANGED <<unit, rest>> /\ rest[unit] = <<>> /\ unit \in Tapes
    BY <1>2 DEF Old!TapeRewind, TapeInv
  <2>2. /\ passed' \in [Tapes -> Nat] /\ got' \in [Tapes -> Seq(Nat)]
        /\ \A u \in Tapes : passed'[u] <= Len(Reels[u])
    <3>1. \A u \in Tapes : Len(Reels[u]) \in Nat
      BY DEF OldAssumption
    <3> QED
      BY <2>1, <3>1 DEF TapeInv
  <2>3. ASSUME NEW u \in Tapes
        PROVE  got'[u] \o rest'[u] = Old!FlatRecords(SubSeq(Reels[u], 1, passed'[u]))
    <3>1. CASE u = unit
      <4>1. got'[u] = <<>> /\ passed'[u] = 0 /\ rest'[u] = <<>>
        BY <2>1, <3>1 DEF TapeInv
      <4>2. SubSeq(Reels[u], 1, 0) = <<>>
        BY DEF OldAssumption
      <4>3. <<>> \o <<>> = <<>>
        OBVIOUS
      <4> QED
        BY <4>1, <4>2, <4>3, NoRecords
    <3>2. CASE u # unit
      BY <1>0, <2>1, <3>2 DEF TapeInv, Records
    <3> QED
      BY <3>1, <3>2
  <2> QED
    BY <2>1, <2>2, <2>3 DEF TapeInv, Old!TapeInOrder, Tapes, Old!Tapes
<1>3. CASE Old!TapeRead
  <2>1. CASE UNCHANGED <<passed, rest>>
    BY <1>3, <2>1 DEF Old!TapeRead, TapeInv, Old!TapeInOrder
  <2>2. CASE ~ UNCHANGED <<passed, rest>>
    <3>1. /\ unit \in Tapes /\ rest[unit] = <<>> /\ passed[unit] # Len(Reels[unit])
          /\ passed' = [passed EXCEPT ![unit] = passed[unit] + 1]
          /\ rest' = [rest EXCEPT ![unit] = Reels[unit][passed'[unit]]]
          /\ UNCHANGED <<unit, got>>
      BY <1>3, <2>2 DEF Old!TapeRead, TapeInv
    <3>2. PICK s \in Seq(Seq(Nat)) : s = Reels[unit]
      BY <3>1 DEF OldAssumption
    <3>3. PICK n \in Nat : n = passed[unit] /\ n < Len(s)
      <4>1. passed[unit] \in Nat /\ passed[unit] <= Len(s) /\ passed[unit] # Len(s)
        BY <3>1, <3>2 DEF TapeInv
      <4>2. Len(s) \in Nat
        BY <3>2
      <4> QED
        BY <4>1, <4>2
    <3>4. passed'[unit] = n + 1 /\ rest'[unit] = s[n + 1]
      BY <3>1, <3>2, <3>3 DEF TapeInv
    <3>5. s[n + 1] \in Seq(Nat)
      BY <3>2, <3>3
    <3>6. passed' \in [Tapes -> Nat] /\ rest' \in [Tapes -> Seq(Nat)]
      BY <3>1, <3>2, <3>3, <3>4, <3>5 DEF TapeInv
    <3>7. \A u \in Tapes : passed'[u] <= Len(Reels[u])
      <4>1. n + 1 <= Len(s)
        BY <3>2, <3>3
      <4> QED
        BY <3>1, <3>2, <3>4, <4>1 DEF TapeInv
    <3>8. ASSUME NEW u \in Tapes
          PROVE  got'[u] \o rest'[u] = Old!FlatRecords(SubSeq(Reels[u], 1, passed'[u]))
      <4>1. CASE u = unit
        <5>1. got[u] \o <<>> = Old!FlatRecords(SubSeq(s, 1, n))
          BY <1>0, <3>1, <3>2, <3>3, <4>1 DEF Records
        <5>2. got[u] \in Seq(Nat) /\ got[u] \o <<>> = got[u]
          BY DEF TapeInv
        <5>3. Old!FlatRecords(SubSeq(s, 1, n + 1)) = Old!FlatRecords(SubSeq(s, 1, n)) \o s[n + 1]
          BY <3>2, <3>3, RecordPasses
        <5> QED
          BY <3>1, <3>2, <3>4, <4>1, <5>1, <5>2, <5>3
      <4>2. CASE u # unit
        BY <1>0, <3>1, <4>2 DEF TapeInv, Records
      <4> QED
        BY <4>1, <4>2
    <3> QED
      BY <3>1, <3>6, <3>7, <3>8 DEF TapeInv, Old!TapeInOrder, Tapes, Old!Tapes
  <2> QED
    BY <2>1, <2>2
<1>4. CASE Old!TapeWord
  <2>1. /\ unit \in Tapes /\ rest[unit] # <<>>
        /\ got' = [got EXCEPT ![unit] = Append(got[unit], Head(rest[unit]))]
        /\ rest' = [rest EXCEPT ![unit] = Tail(rest[unit])] /\ UNCHANGED <<unit, passed>>
    BY <1>4 DEF Old!TapeWord, TapeInv
  <2>2. PICK g \in Seq(Nat) : g = got[unit]
    BY <2>1 DEF TapeInv
  <2>3. PICK r \in Seq(Nat) : r = rest[unit]
    BY <2>1 DEF TapeInv
  <2>4. PICK h, t : h = Append(g, Head(r)) /\ t = Tail(r)
    OBVIOUS
  <2>5. h \in Seq(Nat) /\ t \in Seq(Nat) /\ h \o t = g \o r
    <3>1. g \in Seq(Nat) /\ r \in Seq(Nat) /\ r # <<>>
      BY <2>1, <2>2, <2>3
    <3> QED
      BY <2>4, <3>1, WordTaken, SMTT(30)
  <2>6. got' \in [Tapes -> Seq(Nat)] /\ rest' \in [Tapes -> Seq(Nat)]
    BY <2>1, <2>2, <2>3, <2>4, <2>5 DEF TapeInv
  <2>7. ASSUME NEW u \in Tapes PROVE got'[u] \o rest'[u] = Records(u)
    <3>1. CASE u = unit
      <4>1. got'[u] = h /\ rest'[u] = t
        BY <2>1, <2>2, <2>3, <2>4, <3>1 DEF TapeInv
      <4>2. g \o r = Records(u)
        BY <1>0, <2>2, <2>3, <3>1
      <4> QED
        BY <2>5, <4>1, <4>2
    <3>2. CASE u # unit
      BY <1>0, <2>1, <3>2 DEF TapeInv
    <3> QED
      BY <3>1, <3>2
  <2> QED
    BY <2>1, <2>6, <2>7 DEF TapeInv, Records, Old!TapeInOrder, Tapes, Old!Tapes
<1>5. CASE \E f \in {"status", "none"} : Old!TapeOther(f)
  BY <1>5 DEF TapeInv, Old!TapeOther, Old!tapeState, Old!TapeInOrder
<1> QED
  BY <1>1, <1>2, <1>3, <1>4, <1>5 DEF Old!Tape607, Tapes, Old!Tapes

\* A mark more on the paper that is in the printer.
LEMMA OneMark ==
    ASSUME NEW T, NEW f, NEW p, NEW c, NEW l, NEW r, f \in Seq(T) /\ p \in Seq(T) /\ c \in T,
           l = Append(p, c) /\ r = f \o p
    PROVE  l \in Seq(T) /\ f \o l = Append(r, c)
OBVIOUS

\* A sheet more.
LEMMA Grown ==
    ASSUME NEW R, NEW s \in Seq(R), NEW x \in R
    PROVE  Append(s, x) \in Seq(R)
OBVIOUS

\* The printer keeps its invariant.
LEMMA PaperKeeps == ASSUME PaperInv, Old!Printer1612 PROVE PaperInv'
<1> DEFINE Q == Seq(Marks)
<1> HIDE DEF Q
<1>1. /\ paper \in Seq(Marks) /\ printed \in Seq(Marks) /\ unloaded \in Seq(Q)
      /\ Old!FlatRecords(Append(unloaded, paper)) = printed
  BY DEF PaperInv, Old!PaperWhole, Q
<1>2. paper \in Q
  BY <1>1 DEF Q
<1>3. PICK f \in Seq(Marks) : f = Old!FlatRecords(unloaded)
  BY RecordsType DEF PaperInv
<1>4. f \o paper = printed
  BY <1>1, <1>2, <1>3, RecordsGrow
<1>5. ASSUME NEW c \in Marks, Old!Prints(c), UNCHANGED unloaded PROVE PaperInv'
  <2>1. PICK l : l = Append(paper, c)
    OBVIOUS
  <2>2. paper' = l /\ printed' = Append(printed, c)
    BY <1>5, <2>1 DEF Old!Prints
  <2>3. l \in Seq(Marks) /\ f \o l = Append(printed, c)
    <3>1. f \in Seq(Marks) /\ paper \in Seq(Marks) /\ c \in Marks /\ printed = f \o paper
      BY <1>1, <1>3, <1>4
    <3> QED
      BY <2>1, <3>1, OneMark
  <2>4. Old!FlatRecords(Append(unloaded, l)) = f \o l
    <3>1. l \in Q
      BY <2>3 DEF Q
    <3> QED
      BY <1>1, <1>3, <3>1, RecordsGrow
  <2>5. Append(printed, c) \in Seq(Marks)
    BY <1>1
  <2> QED
    BY <1>1, <1>5, <2>2, <2>3, <2>4, <2>5 DEF PaperInv, Old!PaperWhole, Q
<1>6. CASE Old!PrinterFunction("print") \/ Old!PrinterWord
  <2>1. "print" \in Marks /\ "c" \in Marks
    BY DEF Marks
  <2> QED
    BY <1>5, <1>6, <2>1 DEF Old!PrinterFunction, Old!PrinterWord
<1>7. CASE Old!PrinterStatus
  BY <1>7 DEF Old!PrinterStatus, Old!paperState, PaperInv, Old!PaperWhole
<1>8. CASE Old!PrinterLoad
  <2>1. unloaded' = Append(unloaded, paper) /\ paper' = <<>> /\ printed' = printed
    BY <1>8 DEF Old!PrinterLoad, Old!UnloadPaper
  <2>2. Append(unloaded, paper) \in Seq(Q)
    BY <1>1, <1>2, Grown
  <2>3. <<>> \in Q /\ <<>> \in Seq(Marks)
    BY DEF Q
  <2>4. Old!FlatRecords(Append(Append(unloaded, paper), <<>>)) = printed \o <<>>
    BY <1>1, <2>2, <2>3, RecordsGrow
  <2>5. printed \o <<>> = printed
    BY <1>1
  <2> QED
    BY <1>1, <2>1, <2>2, <2>3, <2>4, <2>5 DEF PaperInv, Old!PaperWhole, Q
<1> QED
  BY <1>6, <1>7, <1>8 DEF Old!Printer1612

\* The card reader keeps its invariant.
LEMMA DeckKeeps == ASSUME OldAssumption, DeckInv, Old!Reader405 PROVE DeckInv'
<1>1. /\ deck \in Seq(Nat) \cup {NoFile} /\ open \in Seq(Nat) \cup {NoFile}
      /\ open # NoFile => deck # NoFile
      /\ retry \in Nat /\ MaxRetry \in Nat /\ NoFile \notin Seq(Nat)
  BY DEF DeckInv, OldAssumption
<1>2. cards \in Seq(Nat) /\ waiting \in Seq(Seq(Nat))
  BY DEF DeckInv
<1>3. PICK w \in Seq(Nat) : w = Old!FlatRecords(waiting)
  BY <1>2, RecordsType
<1>4. cards \o Present \o w = Old!FlatRecords(Decks)
  BY <1>3 DEF DeckInv, Old!CardsOnce, Present
<1>5. ASSUME UNCHANGED <<waiting, cards>>, Present' = Present PROVE Old!CardsOnce'
  BY <1>3, <1>4, <1>5 DEF Old!CardsOnce, Present
<1>6. CASE Old!ReaderStatus
  <2>1. /\ UNCHANGED <<deck, waiting, cards>> /\ retry' \in {0, retry}
        /\ open' = IF open = NoFile THEN deck ELSE open
    BY <1>6 DEF Old!ReaderStatus, Old!OpenDeck
  <2>2. Present' = Present
    BY <1>1, <2>1 DEF Present
  <2> QED
    BY <1>1, <1>2, <1>5, <2>1, <2>2 DEF DeckInv
<1>7. CASE Old!ReaderRead
  BY <1>7 DEF Old!ReaderRead, Old!deckState, DeckInv, Old!CardsOnce
\* A word of a file, or its end.
<1>8. ASSUME NEW f \in Seq(Nat), f = Present, Old!FromDeck(f), waiting' = waiting, deck # NoFile,
             retry' \in Nat
      PROVE  DeckInv'
  <2>1. CASE f # <<>>
    <3>1. open' = Tail(f) /\ cards' = Append(cards, Head(f)) /\ deck' = deck
      BY <1>8, <2>1 DEF Old!FromDeck
    <3>2. PICK h, t : h = Append(cards, Head(f)) /\ t = Tail(f)
      OBVIOUS
    <3>3. h \in Seq(Nat) /\ t \in Seq(Nat) /\ h \o t = cards \o f
      <4>1. cards \in Seq(Nat) /\ f \in Seq(Nat) /\ f # <<>>
        BY <1>2, <2>1
      <4> QED
        BY <3>2, <4>1, WordTaken, SMTT(30)
    <3>4. Present' = t
      BY <1>1, <3>1, <3>2, <3>3 DEF Present
    <3>5. cards' \o Present' \o w = Old!FlatRecords(Decks)
      BY <1>4, <1>8, <3>1, <3>2, <3>3, <3>4
    <3> QED
      BY <1>1, <1>2, <1>3, <1>8, <3>1, <3>2, <3>3, <3>5 DEF DeckInv, Old!CardsOnce, Present
  <2>2. CASE f = <<>>
    <3>1. open' = NoFile /\ deck' = NoFile /\ cards' = cards
      BY <1>8, <2>2 DEF Old!FromDeck
    <3>2. Present' = Present
      BY <1>8, <2>2, <3>1 DEF Present
    <3> QED
      BY <1>1, <1>2, <1>5, <1>8, <3>1, <3>2 DEF DeckInv
  <2> QED
    BY <2>1, <2>2
<1>9. CASE Old!ReaderWord
  <2>1. waiting' = waiting
    BY <1>9 DEF Old!ReaderWord
  <2>2. CASE open # NoFile
    <3>1. Old!FromDeck(open) /\ retry' = IF open = <<>> THEN 0 ELSE retry
      BY <1>9, <2>2 DEF Old!ReaderWord
    <3> QED
      BY <1>1, <1>8, <2>1, <2>2, <3>1 DEF Present
  <2>3. CASE open = NoFile /\ retry > MaxRetry /\ deck # NoFile
    <3>1. Old!FromDeck(deck) /\ retry' = 0
      BY <1>9, <2>3 DEF Old!ReaderWord
    <3> QED
      BY <1>1, <1>8, <2>1, <2>3, <3>1 DEF Present
  <2>4. CASE open = NoFile /\ ~ (retry > MaxRetry /\ deck # NoFile)
    <3>1. /\ retry' = IF retry > MaxRetry THEN 0 ELSE retry + 1
          /\ UNCHANGED <<open, deck, cards>>
      BY <1>9, <2>4 DEF Old!ReaderWord
    <3>2. Present' = Present
      BY <3>1 DEF Present
    <3> QED
      BY <1>1, <1>2, <1>5, <2>1, <3>1, <3>2 DEF DeckInv
  <2> QED
    BY <2>2, <2>3, <2>4
<1>10. CASE Old!PutDeck
  <2>1. /\ deck = NoFile /\ waiting # <<>> /\ deck' = Head(waiting) /\ waiting' = Tail(waiting)
        /\ UNCHANGED <<open, retry, cards>>
    BY <1>10 DEF Old!PutDeck
  <2>2. open = NoFile /\ Present = <<>>
    BY <1>1, <2>1 DEF Present
  <2> DEFINE Q == Seq(Nat)
  <2> HIDE DEF Q
  <2>3. Head(waiting) \in Q /\ Tail(waiting) \in Seq(Q)
    <3>1. waiting \in Seq(Q)
      BY <1>2 DEF Q
    <3> QED
      BY <2>1, <3>1, TailOf
  <2>4. PICK h \in Seq(Nat) : h = Head(waiting)
    BY <2>3 DEF Q
  <2>5. PICK t \in Seq(Nat) : t = Old!FlatRecords(Tail(waiting))
    <3>1. Tail(waiting) \in Seq(Seq(Nat))
      BY <2>3 DEF Q
    <3> QED
      BY <3>1, RecordsType
  <2>6. w = h \o t
    BY <1>2, <1>3, <2>1, <2>4, <2>5, RecordsDrop
  <2>7. Present' = h
    BY <1>1, <2>1, <2>2, <2>4 DEF Present
  <2>8. PICK c \in Seq(Nat) : c = cards
    BY <1>2
  <2>9. (c \o h) \o t = c \o w
    <3>1. PICK l, r : l = (c \o h) \o t /\ r = h \o t
      OBVIOUS
    <3>2. c \in Seq(Nat) /\ h \in Seq(Nat) /\ t \in Seq(Nat)
      BY <2>4, <2>5, <2>8
    <3>3. l = c \o r
      BY <3>1, <3>2, Associates
    <3> QED
      BY <2>6, <3>1, <3>3
  <2>10. (c \o <<>>) \o w = c \o w
    BY <2>8
  <2>11. cards' \o Present' \o Old!FlatRecords(waiting') = Old!FlatRecords(Decks)
    BY <1>4, <2>1, <2>2, <2>5, <2>7, <2>8, <2>9, <2>10
  <2>12. Old!CardsOnce'
    BY <2>11 DEF Old!CardsOnce, Present
  <2> QED
    BY <1>1, <1>2, <2>1, <2>2, <2>3, <2>12 DEF DeckInv, Q
<1> QED
  BY <1>6, <1>7, <1>9, <1>10 DEF Old!Reader405

-----------------------------------------------------------------------------
(***************************************************************************)
(* The 6603 disk.                                                          *)
(***************************************************************************)
\* Each word of a sector has a cell in the file (dd6603Seek).
LEMMA CellOf ==
    ASSUME SizeAssumption, NEW a \in Places, NEW n \in InSector
    PROVE  At(a, n) \in Cells
<1>1. PICK t \in 0 .. Tracks - 1, h \in 0 .. Heads - 1, s \in 0 .. OldSectors - 1 : a = <<t, h, s>>
  BY DEF Places
<1>2. PICK d \in Nat, e \in Nat, i \in Nat, z \in Nat :
         d = Tracks /\ e = Heads /\ i = OldSectors /\ z = OldSectorSize
  BY DEF SizeAssumption
<1>3. t \in Nat /\ t < d /\ h \in 0 .. e - 1 /\ s \in 0 .. i - 1 /\ n \in 0 .. z - 1
  BY <1>1, <1>2 DEF InSector
<1>4. t * e + h \in 0 .. d * e - 1
  BY <1>3, RadixFits
<1>5. PICK p \in Nat, m \in Nat : p = t * e + h /\ m = d * e /\ p < m
  <2>1. d * e \in Nat
    BY <1>2
  <2> QED
    BY <1>4, <2>1
<1>6. p * i + s \in 0 .. m * i - 1
  BY <1>3, <1>5, RadixFits
<1>7. PICK q \in Nat, k \in Nat : q = p * i + s /\ k = m * i /\ q < k
  <2>1. m * i \in Nat
    BY <1>2, <1>5
  <2> QED
    BY <1>6, <2>1
<1>8. q * z + n \in 0 .. k * z - 1
  BY <1>3, <1>7, RadixFits
<1>9. At(a, n) = q * z + n
  <2>1. a[1] = t /\ a[2] = h /\ a[3] = s
    BY <1>1
  <2> QED
    BY <1>2, <1>5, <1>7, <2>1 DEF At, Old!SeekPosition
<1>10. Cells = 0 .. k * z - 1
  BY <1>2, <1>5, <1>7 DEF Cells
<1> QED
  BY <1>8, <1>9, <1>10

\* And no two have the same.
LEMMA CellOne ==
    ASSUME SizeAssumption, NEW a \in Places, NEW n \in InSector, NEW b \in Places,
           NEW m \in InSector, At(a, n) = At(b, m)
    PROVE  a = b /\ n = m
<1>1. PICK t \in 0 .. Tracks - 1, h \in 0 .. Heads - 1, s \in 0 .. OldSectors - 1 : a = <<t, h, s>>
  BY DEF Places
<1>2. PICK u \in 0 .. Tracks - 1, g \in 0 .. Heads - 1, r \in 0 .. OldSectors - 1 : b = <<u, g, r>>
  BY DEF Places
<1>3. PICK e \in Nat, i \in Nat, z \in Nat : e = Heads /\ i = OldSectors /\ z = OldSectorSize
  BY DEF SizeAssumption
<1>4. /\ t \in Nat /\ h \in 0 .. e - 1 /\ s \in 0 .. i - 1 /\ n \in 0 .. z - 1
      /\ u \in Nat /\ g \in 0 .. e - 1 /\ r \in 0 .. i - 1 /\ m \in 0 .. z - 1
  BY <1>1, <1>2, <1>3 DEF InSector
<1>5. PICK p \in Nat : p = t * e + h
  <2>1. t * e \in Nat
    BY <1>3, <1>4
  <2> QED
    BY <1>4, <2>1
<1>6. PICK o \in Nat : o = u * e + g
  <2>1. u * e \in Nat
    BY <1>3, <1>4
  <2> QED
    BY <1>4, <2>1
<1>7. PICK q \in Nat : q = p * i + s
  <2>1. p * i \in Nat
    BY <1>3, <1>5
  <2> QED
    BY <1>4, <2>1
<1>8. PICK v \in Nat : v = o * i + r
  <2>1. o * i \in Nat
    BY <1>3, <1>6
  <2> QED
    BY <1>4, <2>1
<1>9. q * z + n = v * z + m
  <2>1. a[1] = t /\ a[2] = h /\ a[3] = s /\ b[1] = u /\ b[2] = g /\ b[3] = r
    BY <1>1, <1>2
  <2> QED
    BY <1>3, <1>5, <1>6, <1>7, <1>8, <2>1 DEF At, Old!SeekPosition
<1>10. q = v /\ n = m
  BY <1>3, <1>4, <1>7, <1>8, <1>9, RadixOne
<1>11. p = o /\ s = r
  BY <1>3, <1>4, <1>5, <1>6, <1>7, <1>8, <1>10, RadixOne
<1>12. t = u /\ h = g
  BY <1>3, <1>4, <1>5, <1>6, <1>11, RadixOne
<1> QED
  BY <1>1, <1>2, <1>10, <1>11, <1>12

\* Positions are numbers.
LEMMA SeekType ==
    ASSUME SizeAssumption, NEW a \in Places
    PROVE  Old!SeekPosition(a[1], a[2], a[3]) \in Int
<1>1. PICK t \in 0 .. Tracks - 1, h \in 0 .. Heads - 1, s \in 0 .. OldSectors - 1 : a = <<t, h, s>>
  BY DEF Places
<1>2. a[1] \in Int /\ a[2] \in Int /\ a[3] \in Int
  BY <1>1
<1>3. Heads \in Int /\ OldSectors \in Int /\ OldSectorSize \in Int
  BY DEF SizeAssumption
<1>4. a[1] * Heads + a[2] \in Int
  BY <1>2, <1>3
<1>5. (a[1] * Heads + a[2]) * OldSectors + a[3] \in Int
  BY <1>2, <1>3, <1>4
<1> QED
  BY <1>3, <1>5 DEF Old!SeekPosition

\* The file's position moves on with the words of a sector.
LEMMA AtNext ==
    ASSUME SizeAssumption, NEW a \in Places, NEW n \in Nat
    PROVE  At(a, n) \in Nat /\ At(a, n) + 1 = At(a, n + 1)
<1>1. 0 \in InSector
  BY DEF SizeAssumption, InSector
<1>2. At(a, 0) \in Cells
  BY <1>1, CellOf
<1>3. At(a, 0) \in Int
  BY <1>2 DEF Cells
<1>4. At(a, 0) \in Nat
  BY <1>2, <1>3 DEF Cells
<1>5. Old!SeekPosition(a[1], a[2], a[3]) \in Int
  BY SeekType
<1>6. PICK p \in Int : p = Old!SeekPosition(a[1], a[2], a[3])
  BY <1>5
<1> QED
  BY <1>4, <1>6 DEF At

\* The 6603 disk keeps its invariant.
LEMMA DiskKeeps == ASSUME SizeAssumption, DiskInv, Old!Disk6603 PROVE DiskInv'
<1>1. ASSUME NEW t \in 0 .. Tracks - 1, NEW h \in 0 .. Heads - 1, Old!SelectCylinder(t, h)
      PROVE  DiskInv'
  <2>1. /\ cell' = [cell EXCEPT !.track = t, !.head = h]
        /\ UNCHANGED <<oldFcode, fpos, disk, asked, written>>
    BY <1>1 DEF Old!SelectCylinder
  <2>2. DiskTypes'
    BY <2>1 DEF DiskInv, DiskTypes
  <2> QED
    BY <2>1, <2>2 DEF DiskInv, Transfers, Stored
<1>2. ASSUME NEW f \in {"diskRead", "diskWrite"}, NEW s \in 0 .. OldSectors - 1,
             Old!SectorFunction(f, s)
      PROVE  DiskInv'
  <2>1. /\ cell' = [cell EXCEPT !.sector = s] /\ UNCHANGED <<disk, written>>
        /\ fpos' = Old!SeekPosition(cell.track, cell.head, s)
        /\ asked' = [asked EXCEPT !.at = <<cell.track, cell.head, s>>, !.n = 0]
    BY <1>2 DEF Old!SectorFunction
  <2>2. PICK a \in Places : a = <<cell.track, cell.head, s>>
    BY DEF DiskInv, DiskTypes, Places
  <2>3. asked'.at = a /\ asked'.n = 0
    BY <2>1, <2>2 DEF DiskInv, DiskTypes
  <2>4. a[1] = cell.track /\ a[2] = cell.head /\ a[3] = s
    BY <2>2
  <2>5. At(a, 0) \in Nat /\ fpos' = At(a, 0)
    <3>1. At(a, 0) \in Nat
      BY AtNext
    <3>2. 0 \in InSector
      BY DEF SizeAssumption, InSector
    <3>3. fpos' = Old!SeekPosition(a[1], a[2], a[3])
      BY <2>1, <2>4
    <3>4. Old!SeekPosition(a[1], a[2], a[3]) \in Int
      BY SeekType
    <3> QED
      BY <3>1, <3>3, <3>4 DEF At
  <2>6. DiskTypes'
    BY <2>1, <2>2, <2>3, <2>5 DEF DiskInv, DiskTypes
  <2>7. Transfers'
    <3>1. asked'.n <= OldSectorSize
      BY <2>3 DEF SizeAssumption
    <3> QED
      BY <2>3, <2>5, <3>1 DEF Transfers
  <2> QED
    BY <2>1, <2>6, <2>7 DEF DiskInv, Stored
<1>3. CASE Old!DiskStatus
  <2>1. /\ oldFcode' = "none" /\ UNCHANGED <<fpos, disk, asked, written>>
        /\ cell' = [cell EXCEPT !.sector = (cell.sector + 1) % OldSectors]
    BY <1>3 DEF Old!DiskStatus
  <2>2. (cell.sector + 1) % OldSectors \in 0 .. OldSectors - 1
    BY DEF DiskInv, DiskTypes, SizeAssumption
  <2>3. DiskTypes'
    BY <2>1, <2>2 DEF DiskInv, DiskTypes
  <2> QED
    BY <2>1, <2>3 DEF DiskInv, Transfers, Stored
\* A word is passed.
<1>4. ASSUME oldFcode \in {"diskRead", "diskWrite"}, asked.n < OldSectorSize, fpos' = fpos + 1,
             asked'.at = asked.at, asked'.n = asked.n + 1
      PROVE  Transfers' /\ fpos' \in Nat
  <2>1. asked.at \in Places /\ asked.n \in Nat /\ OldSectorSize \in Nat
    BY DEF DiskInv, DiskTypes, SizeAssumption
  <2>2. fpos = At(asked.at, asked.n)
    BY <1>4 DEF DiskInv, Transfers
  <2>3. At(asked.at, asked.n) \in Nat /\ At(asked.at, asked.n) + 1 = At(asked.at, asked.n + 1)
    BY <2>1, AtNext
  <2> QED
    BY <1>4, <2>1, <2>2, <2>3 DEF Transfers
<1>5. CASE Old!DiskReads
  <2>1. /\ oldFcode = "diskRead" /\ asked.n < OldSectorSize /\ fpos' = fpos + 1
        /\ asked' = [asked EXCEPT !.n = asked.n + 1] /\ UNCHANGED <<cell, disk, written>>
    BY <1>5 DEF Old!DiskReads
  <2>2. /\ asked'.at = asked.at /\ asked'.n = asked.n + 1
        /\ asked' \in [at : Places, n : Nat, w : Nat]
    BY <2>1 DEF DiskInv, DiskTypes
  <2>3. Transfers' /\ fpos' \in Nat
    BY <1>4, <2>1, <2>2
  <2> QED
    BY <2>1, <2>2, <2>3 DEF DiskInv, DiskTypes, Stored
<1>6. CASE Old!DiskWrites
  <2>1. /\ oldFcode = "diskWrite" /\ asked.n < OldSectorSize /\ fpos' = fpos + 1
        /\ asked' = [asked EXCEPT !.n = asked.n + 1, !.w = asked.w + 1] /\ cell' = cell
        /\ disk' = [disk EXCEPT ![fpos] = asked'.w]
        /\ written' = [written EXCEPT ![asked.at][asked.n] = asked'.w]
    BY <1>6 DEF Old!DiskWrites
  <2>2. /\ asked'.at = asked.at /\ asked'.n = asked.n + 1 /\ asked'.w = asked.w + 1
        /\ asked' \in [at : Places, n : Nat, w : Nat]
    <3>1. asked \in [at : Places, n : Nat, w : Nat]
      BY DEF DiskInv, DiskTypes
    <3>2. asked.n + 1 \in Nat /\ asked.w + 1 \in Nat
      BY <3>1
    <3>3. asked' = [asked EXCEPT !.n = asked.n + 1, !.w = asked.w + 1]
      BY <2>1
    <3> QED
      BY <3>1, <3>2, <3>3
  <2>3. Transfers' /\ fpos' \in Nat
    BY <1>4, <2>1, <2>2
  <2>4. PICK w \in Nat : w = asked'.w
    BY <2>2 DEF DiskInv, DiskTypes
  <2>5. PICK b \in Places, m \in InSector : b = asked.at /\ m = asked.n /\ fpos = At(b, m)
    <3>1. asked.at \in Places /\ asked.n \in Nat
      BY DEF DiskInv, DiskTypes
    <3>2. asked.n \in InSector
      BY <2>1, <3>1 DEF InSector, SizeAssumption
    <3>3. fpos = At(asked.at, asked.n)
      BY <2>1 DEF DiskInv, Transfers
    <3> QED
      BY <3>1, <3>2, <3>3
  <2>6. /\ disk' = [disk EXCEPT ![At(b, m)] = w]
        /\ written' = [written EXCEPT ![b] = [written[b] EXCEPT ![m] = w]]
    BY <2>1, <2>4, <2>5
  <2>7. /\ disk' \in [Cells -> Nat] /\ written' \in [Places -> [InSector -> Nat]]
    BY <2>4, <2>5, <2>6 DEF DiskInv, DiskTypes
  <2>8. ASSUME NEW a \in Places, NEW n \in InSector PROVE disk'[At(a, n)] = written'[a][n]
    <3>1. At(a, n) \in Cells /\ disk[At(a, n)] = written[a][n]
      BY CellOf DEF DiskInv, Stored
    <3>2. CASE a = b /\ n = m
      <4>1. disk'[At(b, m)] = w
        BY <2>6, <3>1, <3>2 DEF DiskInv, DiskTypes
      <4>2. written'[b][m] = w
        BY <2>6 DEF DiskInv, DiskTypes
      <4> QED
        BY <3>2, <4>1, <4>2
    <3>3. CASE ~ (a = b /\ n = m)
      <4>1. At(a, n) # At(b, m)
        BY <3>3, CellOne
      <4>2. disk'[At(a, n)] = disk[At(a, n)]
        BY <2>6, <3>1, <4>1 DEF DiskInv, DiskTypes
      <4>3. written'[a][n] = written[a][n]
        BY <2>6, <3>3 DEF DiskInv, DiskTypes
      <4> QED
        BY <3>1, <4>2, <4>3
    <3> QED
      BY <3>2, <3>3
  <2>9. Stored'
    BY <2>8 DEF Stored
  <2> QED
    BY <2>1, <2>2, <2>3, <2>7, <2>9 DEF DiskInv, DiskTypes
<1> QED
  BY <1>1, <1>2, <1>3, <1>5, <1>6 DEF Old!Disk6603

\* The invariant of the disk implies the property.
LEMMA DiskInvExact == ASSUME SizeAssumption, DiskInv PROVE Old!DiskExact
<1>1. DOMAIN written = Places
  BY DEF DiskInv, DiskTypes
<1>2. ASSUME oldFcode = "diskRead", asked.n < OldSectorSize
      PROVE  disk[fpos] = written[asked.at][asked.n]
  <2>1. asked.at \in Places /\ asked.n \in InSector /\ fpos = At(asked.at, asked.n)
    BY <1>2 DEF DiskInv, DiskTypes, Transfers, InSector, SizeAssumption
  <2> QED
    BY <2>1 DEF DiskInv, Stored
<1>3. \A a \in Places, n \in InSector :
         disk[Old!SeekPosition(a[1], a[2], a[3]) + n] = written[a][n]
  BY DEF DiskInv, Stored, At
<1> QED
  BY <1>1, <1>2, <1>3 DEF Old!DiskExact, InSector

-----------------------------------------------------------------------------
(***************************************************************************)
(* These four devices together.                                            *)
(***************************************************************************)
\* The invariants hold at the start.
LEMMA OldStarts == ASSUME OldAssumption, SizeAssumption, Old!OldInit PROVE OldInv
<1>1. TapeInv
  <2>1. unit = 0 /\ passed = [u \in Tapes |-> 0] /\ rest = [u \in Tapes |-> <<>>] /\ got = rest
    BY DEF Old!OldInit, Tapes, Old!Tapes
  <2>2. unit \in Tapes /\ passed \in [Tapes -> Nat]
    BY <2>1 DEF OldAssumption
  <2>3. rest \in [Tapes -> Seq(Nat)]
    BY <2>1
  <2>4. ASSUME NEW u \in Tapes
        PROVE  /\ passed[u] <= Len(Reels[u])
               /\ got[u] \o rest[u] = Old!FlatRecords(SubSeq(Reels[u], 1, passed[u]))
    <3>1. SubSeq(Reels[u], 1, 0) = <<>> /\ 0 <= Len(Reels[u])
      BY DEF OldAssumption
    <3>2. <<>> \o <<>> = <<>>
      OBVIOUS
    <3> QED
      BY <2>1, <3>1, <3>2, NoRecords
  <2> QED
    BY <2>1, <2>2, <2>3, <2>4 DEF TapeInv, Old!TapeInOrder, Tapes, Old!Tapes
<1>2. DiskInv
  <2>1. /\ cell = [track |-> 0, head |-> 0, sector |-> 0] /\ fpos = 0 /\ oldFcode = "none"
        /\ disk = [p \in Cells |-> 0] /\ asked = [at |-> <<0, 0, 0>>, n |-> 0, w |-> 0]
        /\ written = [a \in Places |-> [n \in InSector |-> 0]]
    BY DEF Old!OldInit, Cells, Places, InSector
  <2>2. 0 \in 0 .. Tracks - 1 /\ 0 \in 0 .. Heads - 1 /\ 0 \in 0 .. OldSectors - 1
    BY DEF SizeAssumption
  <2>3. cell \in [track : 0 .. Tracks - 1, head : 0 .. Heads - 1, sector : 0 .. OldSectors - 1]
    BY <2>1, <2>2
  <2>4. asked \in [at : Places, n : Nat, w : Nat]
    BY <2>1, <2>2 DEF Places
  <2>5. disk \in [Cells -> Nat] /\ written \in [Places -> [InSector -> Nat]]
    BY <2>1
  <2>6. ASSUME NEW a \in Places, NEW n \in InSector PROVE disk[At(a, n)] = written[a][n]
    <3>1. At(a, n) \in Cells
      BY CellOf
    <3> QED
      BY <2>1, <3>1
  <2> QED
    BY <2>1, <2>3, <2>4, <2>5, <2>6 DEF DiskInv, DiskTypes, Transfers, Stored
<1>3. DeckInv
  <2>1. deck = NoFile /\ open = NoFile /\ retry = 0 /\ waiting = Decks /\ cards = <<>>
    BY DEF Old!OldInit
  <2>2. PICK w \in Seq(Nat) : w = Old!FlatRecords(Decks)
    BY RecordsType DEF OldAssumption
  <2>3. <<>> \o <<>> \o w = w
    BY <2>2
  <2>4. Old!CardsOnce
    BY <2>1, <2>2, <2>3 DEF Old!CardsOnce
  <2>5. cards \in Seq(Nat) /\ waiting \in Seq(Seq(Nat))
    BY <2>1 DEF OldAssumption
  <2> QED
    BY <2>1, <2>4, <2>5 DEF DeckInv
<1>4. PaperInv
  <2> DEFINE Q == Seq(Marks)
  <2>1. paper = <<>> /\ unloaded = <<>> /\ printed = <<>>
    BY DEF Old!OldInit
  <2>2. <<>> \in Q
    OBVIOUS
  <2> HIDE DEF Q
  <2>3. unloaded \in Seq(Q)
    BY <2>1
  <2>4. Old!FlatRecords(Append(unloaded, paper)) = Old!FlatRecords(unloaded) \o paper
    BY <2>1, <2>2, <2>3, RecordsGrow
  <2>5. <<>> \o <<>> = <<>>
    OBVIOUS
  <2>6. Old!PaperWhole
    BY <2>1, <2>4, <2>5, NoRecords DEF Old!PaperWhole
  <2> QED
    BY <2>1, <2>2, <2>3, <2>6 DEF PaperInv, Q
<1> QED
  BY <1>1, <1>2, <1>3, <1>4 DEF OldInv

\* Tapes that are left alone keep their invariant.
LEMMA TapeStays ==
    ASSUME TapeInv, UNCHANGED Old!tapeState PROVE TapeInv'
BY DEF TapeInv, Old!tapeState, Old!TapeInOrder

\* So does the disk, as long as nobody else starts a transfer of its kind.
LEMMA DiskStays ==
    ASSUME DiskInv, UNCHANGED Old!diskState,
           oldFcode' = oldFcode \/ oldFcode' \notin {"diskRead", "diskWrite"}
    PROVE  DiskInv'
BY DEF DiskInv, DiskTypes, Transfers, Stored, Old!diskState

\* So does the reader.
LEMMA DeckStays ==
    ASSUME DeckInv, UNCHANGED Old!deckState PROVE DeckInv'
BY DEF DeckInv, Old!deckState, Old!CardsOnce

\* And the printer.
LEMMA PaperStays ==
    ASSUME PaperInv, UNCHANGED Old!paperState PROVE PaperInv'
BY DEF PaperInv, Old!paperState, Old!PaperWhole

\* Each device keeps the invariants of all.
LEMMA OldKeeps ==
    ASSUME OldAssumption, SizeAssumption, OldInv,
           Old!Tape607 \/ Old!Disk6603 \/ Old!Reader405 \/ Old!Printer1612
           \/ UNCHANGED Old!oldVars
    PROVE  OldInv'
<1>0. TapeInv /\ DiskInv /\ DeckInv /\ PaperInv
  BY DEF OldInv
<1>1. CASE Old!Tape607
  <2>1. UNCHANGED <<Old!diskState, Old!deckState, Old!paperState>>
    BY <1>1 DEF Old!Tape607, Old!TapeSelect, Old!TapeRewind, Old!TapeRead, Old!TapeWord,
               Old!TapeOther, Old!TapeOnly
  <2>2. oldFcode' = oldFcode \/ oldFcode' \notin {"diskRead", "diskWrite"}
    BY <1>1 DEF Old!Tape607, Old!TapeSelect, Old!TapeRewind, Old!TapeRead, Old!TapeWord,
               Old!TapeOther
  <2>3. DiskInv' /\ DeckInv' /\ PaperInv'
    BY <1>0, <2>1, <2>2, DiskStays, DeckStays, PaperStays
  <2> QED
    BY <1>0, <1>1, <2>3, TapeKeeps DEF OldInv
<1>2. CASE Old!Disk6603
  <2>1. UNCHANGED <<Old!tapeState, Old!deckState, Old!paperState>>
    BY <1>2 DEF Old!Disk6603, Old!SelectCylinder, Old!SectorFunction, Old!DiskStatus,
               Old!DiskReads, Old!DiskWrites, Old!DiskOnly
  <2>2. TapeInv' /\ DeckInv' /\ PaperInv'
    BY <1>0, <2>1, TapeStays, DeckStays, PaperStays
  <2> QED
    BY <1>0, <1>2, <2>2, DiskKeeps DEF OldInv
<1>3. CASE Old!Reader405
  <2>1. UNCHANGED <<Old!tapeState, Old!diskState, Old!paperState>>
    BY <1>3 DEF Old!Reader405, Old!ReaderStatus, Old!ReaderRead, Old!ReaderWord, Old!PutDeck,
               Old!ReaderOnly
  <2>2. oldFcode' = oldFcode \/ oldFcode' \notin {"diskRead", "diskWrite"}
    BY <1>3 DEF Old!Reader405, Old!ReaderStatus, Old!ReaderRead, Old!ReaderWord, Old!PutDeck
  <2>3. TapeInv' /\ DiskInv' /\ PaperInv'
    BY <1>0, <2>1, <2>2, TapeStays, DiskStays, PaperStays
  <2> QED
    BY <1>0, <1>3, <2>3, DeckKeeps DEF OldInv
<1>4. CASE Old!Printer1612
  <2>1. UNCHANGED <<Old!tapeState, Old!diskState, Old!deckState>>
    BY <1>4 DEF Old!Printer1612, Old!PrinterFunction, Old!PrinterStatus, Old!PrinterWord,
               Old!PrinterLoad, Old!PrinterOnly
  <2>2. oldFcode' = oldFcode \/ oldFcode' \notin {"diskRead", "diskWrite"}
    BY <1>4 DEF Old!Printer1612, Old!PrinterFunction, Old!PrinterStatus, Old!PrinterWord,
               Old!PrinterLoad
  <2>3. TapeInv' /\ DiskInv' /\ DeckInv'
    BY <1>0, <2>1, <2>2, TapeStays, DiskStays, DeckStays
  <2> QED
    BY <1>0, <1>4, <2>3, PaperKeeps DEF OldInv
<1>5. CASE UNCHANGED Old!oldVars
  <2>1. /\ UNCHANGED <<Old!tapeState, Old!diskState, Old!deckState, Old!paperState>>
        /\ oldFcode' = oldFcode
    BY <1>5 DEF Old!oldVars
  <2> QED
    BY <1>0, <2>1, TapeStays, DiskStays, DeckStays, PaperStays DEF OldInv
<1> QED
  BY <1>1, <1>2, <1>3, <1>4, <1>5

\* The invariants imply the properties.
LEMMA OldInvSafe == ASSUME SizeAssumption, OldInv PROVE Old!OldSafe
BY DiskInvExact DEF OldInv, TapeInv, DeckInv, PaperInv, Old!OldSafe

-----------------------------------------------------------------------------
(***************************************************************************)
(* The clock.                                                              *)
(***************************************************************************)
\* The clock never gains more than it may at a reading.
LEMMA GainFits ==
    ASSUME ClockAssumption, NEW t \in Nat, NEW prev \in Nat
    PROVE  GainAt(t, prev) \in Nat /\ GainAt(t, prev) <= MaxMicroseconds
<1>1. PICK p \in Nat \ {0}, m \in Nat : p = PerMicrosecond /\ m = MaxMicroseconds
  BY DEF ClockAssumption
<1>2. PICK c \in Nat : c = IF t < prev THEN 0 ELSE t - prev
  OBVIOUS
<1>3. PICK b \in Nat : b = m * p
  BY <1>1
<1>4. PICK x \in Nat : x = Clock!Smaller(c, b) /\ x <= b
  BY <1>2, <1>3 DEF Clock!Smaller
<1>5. x \div p \in Nat /\ x \div p <= m
  BY <1>1, <1>3, <1>4, DivFits
<1>6. GainAt(t, prev) = x \div p
  BY <1>1, <1>2, <1>3, <1>4 DEF GainAt
<1> QED
  BY <1>1, <1>5, <1>6

\* The later it is read, the more it gains.
LEMMA GainGrows ==
    ASSUME ClockAssumption, NEW t \in Nat, NEW u \in Nat, t <= u, NEW prev \in Nat
    PROVE  GainAt(t, prev) <= GainAt(u, prev)
<1>1. PICK p \in Nat \ {0}, m \in Nat : p = PerMicrosecond /\ m = MaxMicroseconds
  BY DEF ClockAssumption
<1>2. PICK b \in Nat : b = m * p
  BY <1>1
<1>3. PICK c \in Nat : c = IF t < prev THEN 0 ELSE t - prev
  OBVIOUS
<1>4. PICK d \in Nat : d = IF u < prev THEN 0 ELSE u - prev
  OBVIOUS
<1>5. c <= d
  BY <1>3, <1>4
<1>6. PICK x \in Nat, y \in Nat : x = Clock!Smaller(c, b) /\ y = Clock!Smaller(d, b) /\ x <= y
  BY <1>2, <1>3, <1>4, <1>5 DEF Clock!Smaller
<1>7. x \div p <= y \div p
  BY <1>1, <1>6, DivGrows
<1> QED
  BY <1>1, <1>2, <1>3, <1>4, <1>6, <1>7 DEF GainAt

\* The clock keeps its invariant, read by any PP and with the host's clock at any time.
LEMMA ClockKeeps == ASSUME ClockAssumption, ClockInv, Clock!RtcNext PROVE ClockInv'
<1>1. /\ ClockTypes /\ PerMicrosecond \in Nat /\ MaxMicroseconds \in Nat /\ Turn \in Nat
      /\ MaxMicroseconds < Turn
  BY DEF ClockInv, ClockAssumption
<1>2. /\ mtr => long = rtcClock
      /\ rtcPrev = start + rtcClock * PerMicrosecond
      /\ mtr /\ ~setBack => last <= rtcClock + GainAt(now, rtcPrev)
  BY DEF ClockInv, Clock!RtcSafe, Clock!MonitorKeepsTime, Clock!NoDrift, Clock!NeverBack,
         Clock!Gain, GainAt
<1>3. ASSUME ClockTypes', mtr' => long' = rtcClock',
             rtcPrev' = start' + rtcClock' * PerMicrosecond,
             mtr' /\ ~setBack' => last' <= rtcClock' + GainAt(now', rtcPrev')
      PROVE  ClockInv'
  BY <1>3 DEF ClockInv, Clock!RtcSafe, Clock!MonitorKeepsTime, Clock!NoDrift, Clock!NeverBack,
         Clock!Gain, GainAt
<1>4. ASSUME NEW n \in {0, 1}, Clock!RtcIo(n) PROVE ClockInv'
  <2>1. PICK prev \in Nat \ {0} : prev = IF rtcPrev = 0 THEN now ELSE rtcPrev
    BY <1>1 DEF ClockTypes
  <2>2. PICK us \in Nat : us = GainAt(now, prev) /\ us <= MaxMicroseconds
    BY <1>1, <2>1, GainFits DEF ClockTypes
  <2>3. PICK c \in Nat : c = rtcClock
    BY <1>1 DEF ClockTypes
  <2>4. /\ IF n = 0 \/ ~mtr
           THEN rtcPrev' = prev + us * PerMicrosecond /\ rtcClock' = c + us
           ELSE rtcPrev' = prev /\ rtcClock' = c
        /\ mtr' = (mtr \/ n = 0)
        /\ long' = IF n # 0 THEN long
                   ELSE IF ~mtr THEN c + us
                   ELSE long + (((c + us) - long) % Turn)
        /\ last' = c + us
        /\ start' = IF rtcPrev = 0 THEN now ELSE start
        /\ setBack' = IF n = 0 \/ ~mtr THEN FALSE ELSE setBack
        /\ now' = now
    BY <1>4, <2>1, <2>2, <2>3 DEF Clock!RtcIo, Clock!Gain, GainAt
  <2>5. us * PerMicrosecond \in Nat /\ c * PerMicrosecond \in Nat
    BY <1>1
  <2>6. mtr => long = c
    BY <1>2, <2>3
  <2>7. mtr /\ n = 0 => long' = c + us
    <3>1. (c + us) - c = us /\ us % Turn = us
      <4>1. us < Turn
        BY <1>1, <2>2
      <4> QED
        BY <1>1, <4>1
    <3> QED
      BY <2>4, <2>6, <3>1
  <2>8. mtr' => long' = rtcClock'
    BY <2>4, <2>6, <2>7
  <2>9. rtcPrev' = start' + rtcClock' * PerMicrosecond
    <3>1. CASE rtcPrev = 0
      <4>1. c = 0 /\ ~mtr /\ prev = now /\ start' = now
        BY <1>1, <2>1, <2>3, <2>4, <3>1 DEF ClockTypes
      <4>2. rtcPrev' = now + us * PerMicrosecond /\ rtcClock' = us
        BY <2>4, <4>1
      <4> QED
        BY <4>1, <4>2
    <3>2. CASE rtcPrev # 0
      <4>1. prev = start + c * PerMicrosecond /\ start' = start /\ start \in Nat
        BY <1>1, <1>2, <2>1, <2>3, <2>4, <3>2 DEF ClockTypes
      <4>2. start + (c + us) * PerMicrosecond = (start + c * PerMicrosecond) + us * PerMicrosecond
        BY <1>1, <4>1, Distributes
      <4> QED
        BY <2>4, <4>1, <4>2
    <3> QED
      BY <3>1, <3>2
  <2>10. ClockTypes'
    <3>1. rtcPrev' \in Nat \ {0} /\ rtcClock' \in Nat /\ start' \in Nat
      BY <1>1, <2>1, <2>4, <2>5 DEF ClockTypes
    <3>2. long' \in Nat
      BY <1>1, <2>4, <2>7 DEF ClockTypes
    <3>3. mtr' \in BOOLEAN /\ setBack' \in BOOLEAN
      BY <1>1, <2>4 DEF ClockTypes
    <3>4. now' \in Nat \ {0} /\ last' \in Nat
      BY <1>1, <2>4 DEF ClockTypes
    <3> QED
      BY <3>1, <3>2, <3>3, <3>4 DEF ClockTypes
  <2>11. mtr' /\ ~setBack' => last' <= rtcClock' + GainAt(now', rtcPrev')
    <3>1. GainAt(now', rtcPrev') \in Nat
      BY <1>1, <2>10, GainFits DEF ClockTypes
    <3>2. CASE n = 0 \/ ~mtr
      BY <2>4, <3>1, <3>2
    <3>3. CASE ~ (n = 0 \/ ~mtr)
      BY <1>1, <2>1, <2>2, <2>4, <3>3 DEF ClockTypes
    <3> QED
      BY <3>2, <3>3
  <2> QED
    BY <1>3, <2>8, <2>9, <2>10, <2>11
<1>5. ASSUME NEW t \in 1 .. MaxNow, Clock!Host(t) PROVE ClockInv'
  <2>1. /\ now' = t /\ setBack' = (setBack \/ t < now)
        /\ UNCHANGED <<rtcClock, rtcPrev, mtr, long, last, start>>
    BY <1>5 DEF Clock!Host
  <2>2. t \in Nat \ {0}
    BY <1>5
  <2>3. ClockTypes'
    BY <1>1, <2>1, <2>2 DEF ClockTypes
  <2>4. ASSUME mtr', ~setBack' PROVE last' <= rtcClock' + GainAt(now', rtcPrev')
    <3>1. mtr /\ ~setBack /\ ~ (t < now)
      BY <2>1, <2>4
    <3>2. now <= t /\ now \in Nat /\ rtcPrev \in Nat
      BY <1>1, <2>2, <3>1 DEF ClockTypes
    <3>3. GainAt(now, rtcPrev) <= GainAt(t, rtcPrev)
      BY <2>2, <3>2, GainGrows
    <3>4. GainAt(now, rtcPrev) \in Nat /\ GainAt(t, rtcPrev) \in Nat
      BY <2>2, <3>2, GainFits
    <3>5. last \in Nat /\ rtcClock \in Nat
      BY <1>1 DEF ClockTypes
    <3>6. last <= rtcClock + GainAt(now, rtcPrev)
      BY <1>2, <3>1
    <3>7. last <= rtcClock + GainAt(t, rtcPrev)
      BY <3>3, <3>4, <3>5, <3>6
    <3> QED
      BY <2>1, <3>7
  <2> QED
    BY <1>2, <1>3, <2>1, <2>3, <2>4
<1> QED
  BY <1>4, <1>5 DEF Clock!RtcNext

\* It holds at the start.
LEMMA ClockStarts == ASSUME ClockAssumption, Clock!RtcInit PROVE ClockInv
<1>1. now \in Nat \ {0}
  BY DEF ClockAssumption, Clock!RtcInit
<1>2. rtcClock = 0 /\ rtcPrev = 0 /\ ~mtr /\ long = 0 /\ last = 0 /\ start = 0 /\ ~setBack
  BY DEF Clock!RtcInit
<1>3. mtr \in BOOLEAN /\ setBack \in BOOLEAN
  BY DEF Clock!RtcInit
<1>4. ClockTypes
  BY <1>1, <1>2, <1>3 DEF ClockTypes
<1>5. 0 * PerMicrosecond = 0
  BY DEF ClockAssumption
<1>6. Clock!RtcSafe
  BY <1>2, <1>5 DEF Clock!RtcSafe, Clock!MonitorKeepsTime, Clock!NoDrift
<1> QED
  BY <1>4, <1>6 DEF ClockInv

-----------------------------------------------------------------------------
\* The assumptions of the devices are more than the multiplexers need.
LEMMA MuxAssumed == MuxAssumption
BY DevicesAssumption DEF DevicesAssumption, MuxAssumption

\* The other devices leave the multiplexer alone, and the device in use is never changed.
LEMMA OthersKeepMux ==
    ASSUME [Next]_vars, device' = "mux"
    PROVE  device = "mux" /\ (Mux!MuxNext \/ UNCHANGED Mux!muxVars)
<1>1. CASE TapeStep \/ DiskStep \/ CardStep \/ OldStep \/ ClockStep
  <2>1. device # "mux" /\ device' = device
    BY <1>1 DEF TapeStep, DiskStep, CardStep, OldStep, ClockStep, OldOnes
  <2> QED
    BY <2>1
<1>2. CASE MuxStep
  BY <1>2 DEF MuxStep
<1>3. CASE UNCHANGED vars
  BY <1>3 DEF vars, muxVars, Mux!muxVars, Mux!thread, Mux!ports, Mux!channel, Mux!texts,
             Mux!people
<1> QED
  BY <1>1, <1>2, <1>3 DEF Next

\* The invariant holds whenever the device in use is a multiplexer.
THEOREM MuxInvariance == Spec => [](device = "mux" => MInv)
<1>1. Init => (device = "mux" => MInv)
  BY InitMInv, MuxAssumed DEF Init
<1>2. (device = "mux" => MInv) /\ [Next]_vars => (device = "mux" => MInv)'
  BY OthersKeepMux, NextMInv, MuxAssumed
<1> QED
  BY <1>1, <1>2, PTL DEF Spec

\* With any number of ports and users that come and go under the main thread's polls, each port
\* has a descriptor of its own, keys reach the PP once and in order, and what it writes goes to
\* the user it was written for, at the latest with the disconnect (mux6676.c, tpmux.c).
THEOREM MuxCorrect == Spec => []MuxSafe
<1>1. (device = "mux" => MInv) => MuxSafe
  BY MInvSafe, MuxAssumed DEF MuxSafe
<1> QED
  BY <1>1, MuxInvariance, PTL

\* The assumptions of the devices are more than these need.
LEMMA OldAssumed == OldAssumption /\ SizeAssumption /\ ClockAssumption
<1>1. OldAssumption
  BY DevicesAssumption DEF DevicesAssumption, OldAssumption, Tapes
<1>2. SizeAssumption
  BY DevicesAssumption DEF DevicesAssumption, SizeAssumption
<1>3. ClockAssumption
  BY DevicesAssumption DEF DevicesAssumption, ClockAssumption
<1> QED
  BY <1>1, <1>2, <1>3

\* The other devices leave these alone.
LEMMA OthersKeepOld ==
    ASSUME [Next]_vars, device' \in OldOnes
    PROVE  /\ device \in OldOnes
           /\ \/ Old!Tape607 \/ Old!Disk6603 \/ Old!Reader405 \/ Old!Printer1612
              \/ UNCHANGED Old!oldVars
<1>1. CASE TapeStep \/ DiskStep \/ CardStep \/ MuxStep \/ ClockStep
  <2>1. device \notin OldOnes /\ device' = device
    BY <1>1 DEF TapeStep, DiskStep, CardStep, MuxStep, ClockStep, OldOnes
  <2> QED
    BY <2>1
<1>2. CASE OldStep
  BY <1>2 DEF OldStep
<1>3. CASE UNCHANGED vars
  BY <1>3 DEF vars, oldVars, Old!oldVars, Old!tapeState, Old!diskState, Old!deckState,
             Old!paperState
<1> QED
  BY <1>1, <1>2, <1>3 DEF Next

\* And the clock.
LEMMA OthersKeepClock ==
    ASSUME [Next]_vars, device' = "clock"
    PROVE  device = "clock" /\ (Clock!RtcNext \/ UNCHANGED Clock!rtcVars)
<1>1. CASE TapeStep \/ DiskStep \/ CardStep \/ OldStep \/ MuxStep
  <2>1. device # "clock" /\ device' = device
    BY <1>1 DEF TapeStep, DiskStep, CardStep, OldStep, MuxStep, OldOnes
  <2> QED
    BY <2>1
<1>2. CASE ClockStep
  BY <1>2 DEF ClockStep
<1>3. CASE UNCHANGED vars
  BY <1>3 DEF vars, clockVars, Clock!rtcVars
<1> QED
  BY <1>1, <1>2, <1>3 DEF Next

\* A clock that rests keeps its invariant.
LEMMA ClockStays ==
    ASSUME ClockInv, UNCHANGED Clock!rtcVars PROVE ClockInv'
BY DEF ClockInv, ClockTypes, Clock!RtcSafe, Clock!MonitorKeepsTime, Clock!NoDrift,
       Clock!NeverBack, Clock!Gain, Clock!rtcVars

\* The invariants hold whenever the device in use is one of these.
THEOREM OldInvariance ==
    Spec => []((device \in OldOnes => OldInv) /\ (device = "clock" => ClockInv))
<1> DEFINE Inv == (device \in OldOnes => OldInv) /\ (device = "clock" => ClockInv)
<1>1. Init => Inv
  BY OldStarts, ClockStarts, OldAssumed DEF Init
<1>2. Inv /\ [Next]_vars => Inv'
  <2>1. ASSUME Inv, [Next]_vars, device' \in OldOnes PROVE OldInv'
    BY <2>1, OthersKeepOld, OldKeeps, OldAssumed
  <2>2. ASSUME Inv, [Next]_vars, device' = "clock" PROVE ClockInv'
    BY <2>2, OthersKeepClock, ClockKeeps, ClockStays, OldAssumed
  <2> QED
    BY <2>1, <2>2
<1> QED
  BY <1>1, <1>2, PTL DEF Spec

\* However transfers are cut off and taken up again, the words of a 607 tape come in order, none
\* left out or twice; a cell of the 6603 disk holds what was last written at its track, head,
\* sector and word, and reads give that; cards come in the order of the decks and each once; what
\* was printed is on paper.  PP 0 loses no turn and no cycle of the clock however rarely it
\* reads it, and the clock goes back only with the host's (mt607Io, dd6603Io, cr405Io, lp1612Io,
\* rtcIo).
THEOREM OldCorrect == Spec => []OldSafe
<1>1. (device \in OldOnes => OldInv) /\ (device = "clock" => ClockInv) => OldSafe
  BY OldInvSafe, OldAssumed DEF OldSafe, ClockInv
<1> QED
  BY <1>1, OldInvariance, PTL

-----------------------------------------------------------------------------
(***************************************************************************)
(* Cards and paper: the converter with the 3447, the 3446 and the printer.  *)
(***************************************************************************)
\* Both modules put records together in the same way.
LEMMA SameFlat == ASSUME NEW s PROVE Cards!Flat(s) = Old!FlatRecords(s)
BY DEF Cards!Flat, Old!FlatRecords

\* One element more at the end.
LEMMA Longer ==
    ASSUME NEW T, NEW s, NEW c, NEW l, NEW n, s \in Seq(T) /\ c \in T /\ l = Append(s, c) /\ n = Len(s)
    PROVE  l \in Seq(T) /\ Len(l) = n + 1 /\ l[n + 1] = c /\ \A i \in 1 .. n : l[i] = s[i]
OBVIOUS

\* s is c, and then the deck dk.
Starts(s, c, dk) ==
    /\ s = <<c>> \o dk /\ s # <<>> /\ Len(s) = Len(dk) + 1 /\ s[1] = c
    /\ Tail(s) = dk /\ Head(s) = c
    /\ \A i \in 1 .. Len(dk) : s[i + 1] = dk[i]
    /\ dk = <<>> => s = <<c>>

\* A sequence that starts with c and goes on with dk.
LEMMA OneBefore ==
    ASSUME NEW T, NEW c \in T, NEW dk \in Seq(T)
    PROVE  \E s \in Seq(T) : Starts(s, c, dk)
<1>1. PICK o \in Seq(T) : o = <<c>> /\ Len(o) = 1 /\ o[1] = c
  <2>1. <<c>> \in Seq(T) /\ Len(<<c>>) = 1 /\ <<c>>[1] = c
    OBVIOUS
  <2> QED
    BY <2>1
<1>2. PICK s \in Seq(T) : s = o \o dk
  <2>1. o \o dk \in Seq(T)
    BY <1>1
  <2> QED
    BY <2>1
<1>3. Len(s) = Len(dk) + 1 /\ s[1] = c /\ \A i \in 1 .. Len(dk) : s[i + 1] = dk[i]
  BY <1>1, <1>2
<1>4. s # <<>> /\ Head(s) = c
  BY <1>3
<1>5. Tail(s) = dk
  <2>1. Tail(s) \in Seq(T) /\ Len(Tail(s)) = Len(dk) /\ \A i \in 1 .. Len(dk) : Tail(s)[i] = s[i + 1]
    BY <1>3, <1>4, TailOf
  <2>2. \A i \in 1 .. Len(dk) : Tail(s)[i] = dk[i]
    BY <1>3, <2>1
  <2> QED
    BY <2>1, <2>2
<1>6. dk = <<>> => s = o
  BY <1>1, <1>2
<1> QED
  BY <1>1, <1>2, <1>3, <1>4, <1>5, <1>6 DEF Starts

\* What is appended is behind the first.
LEMMA OneBehind ==
    ASSUME NEW T, NEW s \in Seq(T), NEW c \in T
    PROVE  /\ Append(s, c) \in Seq(T) /\ Append(s, c) # <<>>
           /\ s # <<>> => Tail(Append(s, c)) = Append(Tail(s), c)
<1>1. Append(s, c) \in Seq(T) /\ Append(s, c) # <<>>
  <2>1. Append(s, c) \in Seq(T) /\ Len(Append(s, c)) = Len(s) + 1 /\ Len(s) \in Nat
    OBVIOUS
  <2>2. Len(Append(s, c)) # 0
    BY <2>1
  <2> QED
    BY <2>1, <2>2
<1>2. ASSUME s # <<>> PROVE Tail(Append(s, c)) = Append(Tail(s), c)
  <2>1. PICK a \in Seq(T) : a = Append(s, c)
    BY <1>1
  <2>2. a # <<>> /\ Len(a) = Len(s) + 1 /\ a[Len(s) + 1] = c /\ \A i \in 1 .. Len(s) : a[i] = s[i]
    BY <2>1
  <2>3. PICK t : t = Tail(s) /\ t \in Seq(T) /\ Len(s) = Len(t) + 1 /\ Len(t) \in Nat
                 /\ \A i \in 1 .. Len(t) : t[i] = s[i + 1]
    <3>1. /\ Tail(s) \in Seq(T) /\ Len(s) = Len(Tail(s)) + 1 /\ Len(Tail(s)) \in Nat
          /\ \A i \in 1 .. Len(Tail(s)) : Tail(s)[i] = s[i + 1]
      BY <1>2, TailOf
    <3> QED
      BY <3>1
  <2>4. PICK b : b = Tail(a) /\ b \in Seq(T) /\ Len(a) = Len(b) + 1 /\ Len(b) \in Nat
                 /\ \A i \in 1 .. Len(b) : b[i] = a[i + 1]
    <3>1. /\ Tail(a) \in Seq(T) /\ Len(a) = Len(Tail(a)) + 1 /\ Len(Tail(a)) \in Nat
          /\ \A i \in 1 .. Len(Tail(a)) : Tail(a)[i] = a[i + 1]
      BY <2>2, TailOf
    <3> QED
      BY <3>1
  <2>5. Len(b) = Len(t) + 1
    BY <2>2, <2>3, <2>4
  <2>6. \A i \in 1 .. Len(t) : b[i] = t[i]
    BY <2>2, <2>3, <2>4
  <2>7. b[Len(t) + 1] = c
    BY <2>2, <2>3, <2>4
  <2>8. b = Append(t, c)
    <3>1. PICK n \in Nat : Len(t) = n
      BY <2>3
    <3>2. PICK e : e = Append(t, c)
      OBVIOUS
    <3>3. e \in Seq(T) /\ Len(e) = n + 1 /\ e[n + 1] = c /\ \A i \in 1 .. n : e[i] = t[i]
      <4>1. t \in Seq(T) /\ c \in T /\ e = Append(t, c) /\ n = Len(t)
        BY <2>3, <3>1, <3>2
      <4> QED
        BY <4>1, Longer
    <3>4. \A i \in 1 .. n : e[i] = b[i]
      BY <2>6, <3>1, <3>3
    <3>5. Len(e) = Len(b) /\ \A i \in 1 .. Len(e) : e[i] = b[i]
      BY <2>5, <2>7, <3>1, <3>3, <3>4
    <3>6. e = b
      BY <2>4, <3>3, <3>5, SameSequence
    <3> QED
      BY <3>2, <3>6
  <2> QED
    BY <2>1, <2>3, <2>4, <2>8
<1> QED
  BY <1>1, <1>2

\* The cards of a deck are read one by one; an end of information is put behind the last one.
LEMMA DeliveredIs ==
    ASSUME NEW c \in ACard, NEW dk \in Seq(ACard)
    PROVE  /\ Cards!Delivered(<<c>> \o dk) \in Seq(ACard)
           /\ Cards!Delivered(<<c>> \o dk) # <<>>
           /\ dk # <<>> => Tail(Cards!Delivered(<<c>> \o dk)) = Cards!Delivered(dk)
           /\ dk = <<>> /\ c.kind = "eoi" => Cards!Delivered(<<c>> \o dk) = <<c>>
           /\ dk = <<>> /\ c.kind # "eoi" => Tail(Cards!Delivered(<<c>> \o dk)) = Append(<<>>, Cards!Eoi)
<1>1. Cards!Eoi \in ACard /\ Cards!Eoi.kind = "eoi"
  BY DEF Cards!Eoi, ACard
<1>a. PICK s \in Seq(ACard) : Starts(s, c, dk)
  BY OneBefore
<1>2. /\ s = <<c>> \o dk /\ s # <<>> /\ Len(s) = Len(dk) + 1 /\ s[1] = c
      /\ Tail(s) = dk /\ \A i \in 1 .. Len(dk) : s[i + 1] = dk[i]
      /\ dk = <<>> => s = <<c>>
  BY <1>a DEF Starts
<1>3. dk # <<>> => s[Len(s)] = dk[Len(dk)]
  <2>1. dk # <<>> => Len(dk) \in 1 .. Len(dk)
    OBVIOUS
  <2> QED
    BY <1>2, <2>1
<1>4. Append(s, Cards!Eoi) \in Seq(ACard) /\ Append(s, Cards!Eoi) # <<>>
      /\ Tail(Append(s, Cards!Eoi)) = Append(Tail(s), Cards!Eoi)
  BY <1>1, <1>2, OneBehind
<1>6. Cards!Delivered(s) = IF s[Len(s)].kind = "eoi" THEN s ELSE Append(s, Cards!Eoi)
  BY DEF Cards!Delivered
<1>7. Cards!Delivered(dk) = IF dk[Len(dk)].kind = "eoi" THEN dk ELSE Append(dk, Cards!Eoi)
  BY DEF Cards!Delivered
<1>8. dk # <<>> => Tail(Cards!Delivered(s)) = Cards!Delivered(dk)
  BY <1>2, <1>3, <1>4, <1>6, <1>7
<1>9. dk = <<>> => s[Len(s)] = c
  BY <1>2
<1>10. /\ Cards!Delivered(s) \in Seq(ACard) /\ Cards!Delivered(s) # <<>>
       /\ dk # <<>> => Tail(Cards!Delivered(s)) = Cards!Delivered(dk)
       /\ dk = <<>> /\ c.kind = "eoi" => Cards!Delivered(s) = <<c>>
       /\ dk = <<>> /\ c.kind # "eoi" => Tail(Cards!Delivered(s)) = Append(<<>>, Cards!Eoi)
  BY <1>2, <1>4, <1>6, <1>8, <1>9
<1> QED
  BY <1>2, <1>10

\* A deck has a first card, and the others.
LEMMA DeckIs ==
    ASSUME NEW dk \in Decked
    PROVE  /\ Head(dk) \in ACard /\ Tail(dk) \in Seq(ACard) /\ dk = <<Head(dk)>> \o Tail(dk)
           /\ Cards!Delivered(dk) \in Seq(ACard)
<1>1. dk \in Seq(ACard) /\ dk # <<>>
  BY DEF Decked
<1>2. Head(dk) \in ACard /\ Tail(dk) \in Seq(ACard) /\ dk = <<Head(dk)>> \o Tail(dk)
  BY <1>1
<1>3. Cards!Delivered(<<Head(dk)>> \o Tail(dk)) \in Seq(ACard)
  BY <1>2, DeliveredIs
<1> QED
  BY <1>2, <1>3

\* There is one sequence of cards for each deck that waits.
LEMMA BehindType ==
    ASSUME NEW w \in Seq(Decked)
    PROVE  Behind(w) \in Seq(Seq(ACard)) /\ Len(Behind(w)) = Len(w)
<1> DEFINE Q == Seq(ACard)
<1>1. \A i \in 1 .. Len(w) : Cards!Delivered(w[i]) \in Q
  <2>1. \A i \in 1 .. Len(w) : w[i] \in Decked
    OBVIOUS
  <2> QED
    BY <2>1, DeckIs
<1> HIDE DEF Q
<1>2. Behind(w) = [i \in 1 .. Len(w) |-> Cards!Delivered(w[i])]
  BY DEF Behind
<1>3. Behind(w) \in Seq(Q) /\ Len(Behind(w)) = Len(w)
  BY <1>1, <1>2
<1> QED
  BY <1>3 DEF Q

\* The first of them is that of the first deck,
LEMMA BehindFirst ==
    ASSUME NEW w \in Seq(Decked), w # <<>>
    PROVE  /\ Head(w) \in Decked /\ Tail(w) \in Seq(Decked)
           /\ Behind(w) # <<>> /\ Head(Behind(w)) = Cards!Delivered(Head(w))
           /\ Tail(Behind(w)) = Behind(Tail(w))
<1> DEFINE Q == Seq(ACard)
<1> HIDE DEF Q
<1>1. PICK n \in Nat : Len(w) = n + 1
  <2>1. Len(w) \in Nat /\ Len(w) # 0
    OBVIOUS
  <2>2. Len(w) - 1 \in Nat /\ Len(w) = (Len(w) - 1) + 1
    BY <2>1
  <2> QED
    BY <2>2
<1>2. PICK t \in Seq(Decked) : t = Tail(w)
  BY TailOf
<1>3. Len(t) = n /\ Head(w) = w[1] /\ Head(w) \in Decked /\ \A i \in 1 .. n : t[i] = w[i + 1]
  BY <1>1, <1>2, TailOf
<1>4. PICK b \in Seq(Q) : b = Behind(w) /\ Len(b) = n + 1
  BY <1>1, BehindType DEF Q
<1>5. PICK e \in Seq(Q) : e = Behind(t) /\ Len(e) = n
  BY <1>3, BehindType DEF Q
<1>6. \A i \in 1 .. n + 1 : b[i] = Cards!Delivered(w[i])
  BY <1>1, <1>4 DEF Behind
<1>7. \A i \in 1 .. n : e[i] = Cards!Delivered(t[i])
  BY <1>3, <1>5 DEF Behind
<1>8. b # <<>> /\ Head(b) = b[1] /\ Tail(b) \in Seq(Q) /\ Len(Tail(b)) = n
      /\ \A i \in 1 .. n : Tail(b)[i] = b[i + 1]
  BY <1>4, TailOf
<1>9. \A i \in 1 .. n : Tail(b)[i] = e[i]
  BY <1>3, <1>6, <1>7, <1>8
<1>10. Tail(b) = e
  BY <1>5, <1>8, <1>9
<1>11. b[1] = Cards!Delivered(w[1])
  BY <1>6
<1> QED
  BY <1>2, <1>3, <1>4, <1>5, <1>8, <1>10, <1>11

\* and the last one that of the last deck.
LEMMA BehindLast ==
    ASSUME NEW w \in Seq(Decked), NEW dk \in Decked
    PROVE  Append(w, dk) \in Seq(Decked) /\ Behind(Append(w, dk)) = Append(Behind(w), Cards!Delivered(dk))
<1> DEFINE Q == Seq(ACard)
<1>0. Cards!Delivered(dk) \in Q
  BY DeckIs
<1> HIDE DEF Q
<1>1. PICK n \in Nat : Len(w) = n
  OBVIOUS
<1>2. PICK t \in Seq(Decked) : t = Append(w, dk)
  <2>1. Append(w, dk) \in Seq(Decked)
    OBVIOUS
  <2> QED
    BY <2>1
<1>3. Len(t) = n + 1 /\ t[n + 1] = dk /\ \A i \in 1 .. n : t[i] = w[i]
  BY <1>1, <1>2
<1>4. PICK b \in Seq(Q) : b = Behind(w) /\ Len(b) = n
  BY <1>1, BehindType DEF Q
<1>5. PICK e \in Seq(Q) : e = Behind(t) /\ Len(e) = n + 1
  BY <1>3, BehindType DEF Q
<1>6. \A i \in 1 .. n : b[i] = Cards!Delivered(w[i])
  BY <1>1, <1>4 DEF Behind
<1>7. \A i \in 1 .. n + 1 : e[i] = Cards!Delivered(t[i])
  BY <1>3, <1>5 DEF Behind
<1>8. PICK v : v = Cards!Delivered(dk)
  OBVIOUS
<1>9. e[n + 1] = v /\ \A i \in 1 .. n : e[i] = b[i]
  BY <1>3, <1>6, <1>7, <1>8
<1>10. e = Append(b, v)
  BY <1>0, <1>4, <1>5, <1>8, <1>9
<1> QED
  BY <1>2, <1>4, <1>5, <1>8, <1>10

\* The reader with the card c up and dk behind it.
LEMMA CardUpIs ==
    ASSUME NEW rd \in Readers, NEW c \in ACard, NEW dk \in Seq(ACard)
    PROVE  /\ Cards!CardUp(rd, c, dk) \in Readers
           /\ Cards!CardUp(rd, c, dk).open = rd.open /\ Cards!CardUp(rd, c, dk).waiting = rd.waiting
           /\ Cards!CardUp(rd, c, dk).card = c /\ Cards!CardUp(rd, c, dk).deck = dk
<1>1. 0 \in 0 .. Columns + 1
  BY DevicesAssumption DEF DevicesAssumption
<1>2. rd.status \cup (IF c.kind # "text" /\ ~rd.binary THEN {"file"} ELSE {})
                \cup (IF c.kind # "text" THEN {"binary"} ELSE {}) \in SUBSET CardStatus
  BY DEF Readers, CardStatus
<1> QED
  BY <1>1, <1>2 DEF Cards!CardUp, Readers

\* What the decks behind hold, and the next of them.
LEMMA DecksType ==
    ASSUME NEW w \in Seq(Decked)
    PROVE  Old!FlatRecords(Behind(w)) \in Seq(ACard)
BY BehindType, RecordsType

\* The cards of the first deck come before those of the others,
LEMMA DecksDrop ==
    ASSUME NEW w \in Seq(Decked), w # <<>>
    PROVE  Old!FlatRecords(Behind(w)) = Cards!Delivered(Head(w)) \o Old!FlatRecords(Behind(Tail(w)))
<1>1. Behind(w) \in Seq(Seq(ACard)) /\ Behind(w) # <<>>
  BY BehindType, BehindFirst
<1>2. Old!FlatRecords(Behind(w)) = Head(Behind(w)) \o Old!FlatRecords(Tail(Behind(w)))
  BY <1>1, RecordsDrop
<1> QED
  BY <1>2, BehindFirst

\* and those of a deck that is loaded after all others.
LEMMA DecksGrow ==
    ASSUME NEW w \in Seq(Decked), NEW dk \in Decked
    PROVE  Old!FlatRecords(Behind(Append(w, dk))) = Old!FlatRecords(Behind(w)) \o Cards!Delivered(dk)
<1> DEFINE Q == Seq(ACard)
<1>1. Cards!Delivered(dk) \in Q /\ Behind(w) \in Seq(Q)
  BY BehindType, DeckIs
<1> HIDE DEF Q
<1>2. Old!FlatRecords(Append(Behind(w), Cards!Delivered(dk))) = Old!FlatRecords(Behind(w)) \o Cards!Delivered(dk)
  BY <1>1, RecordsGrow
<1> QED
  BY <1>2, BehindLast

\* No deck, no card.
LEMMA NoDecks == Old!FlatRecords(Behind(<<>>)) = <<>>
<1>1. <<>> \in Seq(Decked) /\ Len(<<>>) = 0
  OBVIOUS
<1>2. Behind(<<>>) \in Seq(Seq(ACard)) /\ Len(Behind(<<>>)) = 0
  BY <1>1, BehindType
<1>3. PICK b : b = Behind(<<>>)
  OBVIOUS
<1>4. b = <<>>
  BY <1>2, <1>3
<1> QED
  BY <1>3, <1>4, NoRecords

\* The next deck is put in.
LEMMA NextDeckFits ==
    ASSUME NEW rd \in Readers
    PROVE  ReaderFits(Cards!NextDeck(rd), Old!FlatRecords(Behind(rd.waiting)))
<1>1. rd.waiting \in Seq(Decked)
  BY DEF Readers
<1>2. CASE rd.waiting = <<>>
  <2>1. PICK e : e = [rd EXCEPT !.open = FALSE, !.status = Cards!EofStatus]
    OBVIOUS
  <2>2. e \in Readers /\ e.open = FALSE /\ e.waiting = <<>>
    BY <1>2, <2>1 DEF Readers, Cards!EofStatus, CardStatus
  <2>3. Cards!NextDeck(rd) = e
    BY <1>2, <2>1 DEF Cards!NextDeck
  <2>4. FromUp(e) = <<>>
    BY <2>2 DEF FromUp
  <2>5. <<>> \o <<>> = <<>>
    OBVIOUS
  <2> QED
    BY <1>2, <2>2, <2>3, <2>4, <2>5, NoDecks DEF ReaderFits
<1>3. CASE rd.waiting # <<>>
  <2>1. PICK w \in Seq(Decked) : w = rd.waiting /\ w # <<>>
    BY <1>1, <1>3
  <2>2. Head(w) \in Decked /\ Tail(w) \in Seq(Decked)
    BY <2>1, BehindFirst
  <2>3. PICK dk \in Decked : dk = Head(w)
    BY <2>2
  <2>4. PICK v \in Seq(Decked) : v = Tail(w)
    BY <2>2
  <2>5. PICK e : e = [rd EXCEPT !.open = TRUE, !.waiting = v, !.status = Cards!ReadyStatus]
    OBVIOUS
  <2>6. e \in Readers /\ e.open = TRUE /\ e.waiting = v
    BY <2>5 DEF Readers, Cards!ReadyStatus, CardStatus
  <2>7. Head(dk) \in ACard /\ Tail(dk) \in Seq(ACard) /\ dk = <<Head(dk)>> \o Tail(dk)
    BY DeckIs
  <2>8. PICK u : u = Cards!CardUp(e, Head(dk), Tail(dk))
    OBVIOUS
  <2>9. u \in Readers /\ u.open /\ u.waiting = v /\ u.card = Head(dk) /\ u.deck = Tail(dk)
    BY <2>6, <2>7, <2>8, CardUpIs, ZenonT(30)
  <2>10. FromUp(u) = Cards!Delivered(dk)
    BY <2>7, <2>9 DEF FromUp
  <2>11. Cards!NextDeck(rd) = u
    BY <1>3, <2>1, <2>3, <2>4, <2>5, <2>8 DEF Cards!NextDeck
  <2>12. Old!FlatRecords(Behind(w)) = FromUp(u) \o Old!FlatRecords(Behind(v))
    BY <2>1, <2>3, <2>4, <2>10, DecksDrop
  <2> QED
    BY <2>1, <2>7, <2>9, <2>11, <2>12 DEF ReaderFits
<1> QED
  BY <1>2, <1>3

\* Two sequences, one behind the other.
LEMMA JoinedItems ==
    ASSUME NEW T, NEW a, NEW b, NEW s, NEW m, NEW n, a \in Seq(T) /\ b \in Seq(T),
           s = a \o b /\ m = Len(a) /\ n = Len(b)
    PROVE  s \in Seq(T) /\ Len(s) = m + n
           /\ (\A i \in 1 .. m : s[i] = a[i]) /\ (\A i \in 1 .. n : s[m + i] = b[i])
OBVIOUS

\* What is appended changes nothing at the front.
LEMMA TailOfSum ==
    ASSUME NEW T, NEW a, NEW b, NEW s, a \in Seq(T) /\ a # <<>> /\ b \in Seq(T), s = a \o b
    PROVE  Tail(s) = Tail(a) \o b
<1>1. PICK m \in Nat : Len(a) = m + 1
  <2>1. Len(a) \in Nat /\ Len(a) # 0
    OBVIOUS
  <2>2. Len(a) - 1 \in Nat /\ Len(a) = (Len(a) - 1) + 1
    BY <2>1
  <2> QED
    BY <2>2
<1>2. PICK n \in Nat : Len(b) = n
  OBVIOUS
<1>3. s \in Seq(T) /\ Len(s) = (m + 1) + n /\ s # <<>>
      /\ (\A i \in 1 .. m + 1 : s[i] = a[i]) /\ (\A i \in 1 .. n : s[(m + 1) + i] = b[i])
  <2>1. PICK k : k = m + 1
    OBVIOUS
  <2>2. s = a \o b /\ k = Len(a) /\ n = Len(b) /\ a \in Seq(T) /\ b \in Seq(T)
    BY <1>1, <1>2, <2>1
  <2>3. s \in Seq(T) /\ Len(s) = k + n
        /\ (\A i \in 1 .. k : s[i] = a[i]) /\ (\A i \in 1 .. n : s[k + i] = b[i])
    BY <2>2, JoinedItems
  <2>4. s # <<>>
    BY <2>1, <2>3
  <2> QED
    BY <2>1, <2>3, <2>4
<1>4. PICK t : t = Tail(a)
  OBVIOUS
<1>5. t \in Seq(T) /\ Len(t) = m /\ \A i \in 1 .. m : t[i] = a[i + 1]
  <2>1. Tail(a) \in Seq(T) /\ Len(a) = Len(Tail(a)) + 1 /\ \A i \in 1 .. Len(Tail(a)) : Tail(a)[i] = a[i + 1]
    BY TailOf
  <2>2. Len(t) \in Nat
    BY <1>4, <2>1
  <2> QED
    BY <1>1, <1>4, <2>1, <2>2
<1>6. PICK l : l = Tail(s)
  OBVIOUS
<1>7. l \in Seq(T) /\ Len(l) = m + n /\ \A i \in 1 .. m + n : l[i] = s[i + 1]
  <2>1. Tail(s) \in Seq(T) /\ Len(s) = Len(Tail(s)) + 1 /\ \A i \in 1 .. Len(Tail(s)) : Tail(s)[i] = s[i + 1]
    BY <1>3, TailOf
  <2>2. Len(l) \in Nat
    BY <1>6, <2>1
  <2> QED
    BY <1>3, <1>6, <2>1, <2>2
<1>8. PICK r : r = t \o b
  OBVIOUS
<1>9. r \in Seq(T) /\ Len(r) = m + n
      /\ (\A i \in 1 .. m : r[i] = t[i]) /\ (\A i \in 1 .. n : r[m + i] = b[i])
  <2>1. r = t \o b /\ m = Len(t) /\ n = Len(b) /\ t \in Seq(T) /\ b \in Seq(T)
    BY <1>2, <1>5, <1>8
  <2> QED
    BY <2>1, JoinedItems
<1>10. ASSUME NEW i \in 1 .. m + n PROVE l[i] = r[i]
  <2>1. CASE i <= m
    <3>1. i \in 1 .. m /\ i + 1 \in 1 .. m + 1
      BY <2>1
    <3> QED
      BY <1>3, <1>5, <1>7, <1>9, <3>1, ZenonT(30)
  <2>2. CASE i > m
    <3>1. PICK k \in 1 .. n : i = m + k /\ i + 1 = (m + 1) + k
      <4>1. i - m \in 1 .. n /\ i = m + (i - m) /\ i + 1 = (m + 1) + (i - m)
        BY <2>2
      <4> QED
        BY <4>1
    <3> QED
      BY <1>3, <1>7, <1>9, <3>1
  <2> QED
    BY <2>1, <2>2
<1>11. l = r
  BY <1>7, <1>9, <1>10, SameSequence
<1> QED
  BY <1>4, <1>6, <1>8, <1>11

\* The next card comes up, the reader having a file.
LEMMA NextCardFits ==
    ASSUME NEW rd, NEW d, ReaderFits(rd, d), rd.open
    PROVE  ReaderFits(Cards!NextCard(rd), Tail(d))
<1>1. rd \in Readers /\ rd.card \in ACard /\ rd.deck \in Seq(ACard) /\ rd.waiting \in Seq(Decked)
  BY DEF ReaderFits, Readers
<1>2. PICK f \in Seq(ACard) : f = Old!FlatRecords(Behind(rd.waiting))
  BY <1>1, DecksType
<1>3. PICK a : a = Cards!Delivered(<<rd.card>> \o rd.deck)
  OBVIOUS
<1>4. /\ a \in Seq(ACard) /\ a # <<>>
      /\ rd.deck # <<>> => Tail(a) = Cards!Delivered(rd.deck)
      /\ rd.deck = <<>> /\ rd.card.kind = "eoi" => a = <<rd.card>>
      /\ rd.deck = <<>> /\ rd.card.kind # "eoi" => Tail(a) = Append(<<>>, Cards!Eoi)
  BY <1>1, <1>3, DeliveredIs
<1>5. d = a \o f
  BY <1>2, <1>3 DEF ReaderFits, FromUp
<1>6. Tail(d) = Tail(a) \o f
  BY <1>4, <1>5, TailOfSum
<1>7. ASSUME NEW c \in ACard, NEW dk \in Seq(ACard), Tail(a) = Cards!Delivered(<<c>> \o dk)
      PROVE  ReaderFits(Cards!CardUp(rd, c, dk), Tail(d))
  <2>1. PICK u : u = Cards!CardUp(rd, c, dk)
    OBVIOUS
  <2>2. u \in Readers /\ u.open /\ u.waiting = rd.waiting /\ u.card = c /\ u.deck = dk
    <3>0. /\ Cards!CardUp(rd, c, dk) \in Readers
          /\ Cards!CardUp(rd, c, dk).open = rd.open /\ Cards!CardUp(rd, c, dk).waiting = rd.waiting
          /\ Cards!CardUp(rd, c, dk).card = c /\ Cards!CardUp(rd, c, dk).deck = dk
      BY <1>1, CardUpIs
    <3>1. /\ u \in Readers /\ u.open = rd.open /\ u.waiting = rd.waiting /\ u.card = c /\ u.deck = dk
      BY <2>1, <3>0
    <3>2. rd.open = TRUE
      BY <1>1 DEF Readers
    <3> QED
      BY <3>1, <3>2
  <2>3. FromUp(u) = Tail(a)
    BY <1>7, <2>2 DEF FromUp
  <2>4. Tail(d) = FromUp(u) \o Old!FlatRecords(Behind(u.waiting))
    BY <1>2, <1>6, <2>2, <2>3
  <2>5. ReaderFits(u, Tail(d))
    BY <2>2, <2>4 DEF ReaderFits
  <2> QED
    BY <2>1, <2>5
<1>8. CASE rd.deck # <<>>
  <2>1. rd.deck \in Decked
    BY <1>1, <1>8 DEF Decked
  <2>2. Head(rd.deck) \in ACard /\ Tail(rd.deck) \in Seq(ACard)
        /\ rd.deck = <<Head(rd.deck)>> \o Tail(rd.deck)
    BY <2>1, DeckIs
  <2>3. Tail(a) = Cards!Delivered(<<Head(rd.deck)>> \o Tail(rd.deck))
    BY <1>4, <1>8, <2>2
  <2>4. ReaderFits(Cards!CardUp(rd, Head(rd.deck), Tail(rd.deck)), Tail(d))
    BY <1>7, <2>2, <2>3
  <2> QED
    BY <1>8, <2>4 DEF Cards!NextCard
<1>9. CASE rd.deck = <<>> /\ rd.card.kind # "eoi"
  <2>1. Cards!Eoi \in ACard /\ Cards!Eoi.kind = "eoi" /\ <<>> \in Seq(ACard)
    BY DEF Cards!Eoi, ACard
  <2>2. Cards!Delivered(<<Cards!Eoi>> \o <<>>) = <<Cards!Eoi>>
    BY <2>1, DeliveredIs
  <2>3. Append(<<>>, Cards!Eoi) = <<Cards!Eoi>>
    OBVIOUS
  <2>4. Tail(a) = Cards!Delivered(<<Cards!Eoi>> \o <<>>)
    BY <1>4, <1>9, <2>2, <2>3
  <2>5. ReaderFits(Cards!CardUp(rd, Cards!Eoi, <<>>), Tail(d))
    BY <1>7, <2>1, <2>4
  <2> QED
    BY <1>9, <2>5 DEF Cards!NextCard
<1>10. CASE rd.deck = <<>> /\ rd.card.kind = "eoi"
  <2>1. Tail(<<rd.card>>) = <<>>
    OBVIOUS
  <2>2. Tail(a) = <<>>
    BY <1>4, <1>10, <2>1
  <2>3. Tail(d) = f
    <3>1. <<>> \o f = f
      OBVIOUS
    <3> QED
      BY <1>6, <2>2, <3>1
  <2>4. Cards!NextCard(rd) = Cards!NextDeck(rd)
    BY <1>10 DEF Cards!NextCard
  <2> QED
    BY <1>1, <1>2, <2>3, <2>4, NextDeckFits
<1> QED
  BY <1>8, <1>9, <1>10

\* What does not touch the cards.
LEMMA SameCards ==
    ASSUME NEW rd, NEW d, NEW u, ReaderFits(rd, d), u \in Readers, u.open = rd.open, u.card = rd.card,
           u.deck = rd.deck, u.waiting = rd.waiting
    PROVE  ReaderFits(u, d)
BY DEF ReaderFits, FromUp

\* Another deck is put behind those that wait.
LEMMA DeckBehind ==
    ASSUME NEW rd, NEW d, NEW dk \in Decked, NEW u, ReaderFits(rd, d), u \in Readers,
           u.open = rd.open, u.card = rd.card, u.deck = rd.deck, u.waiting = Append(rd.waiting, dk)
    PROVE  /\ rd.open => ReaderFits(u, d \o Cards!Delivered(dk))
           /\ ~rd.open => d \o Cards!Delivered(dk) = Old!FlatRecords(Behind(u.waiting))
<1>1. rd \in Readers /\ rd.card \in ACard \cup {[Cards!Eoi EXCEPT !.kind = "none"]}
      /\ rd.deck \in Seq(ACard) /\ rd.waiting \in Seq(Decked)
  BY DEF ReaderFits, Readers
<1>2. PICK w : w = Append(rd.waiting, dk)
  OBVIOUS
<1>3. w \in Seq(Decked)
  BY <1>1, <1>2, BehindLast
<1>4. PICK f \in Seq(ACard) : f = Old!FlatRecords(Behind(rd.waiting))
  BY <1>1, DecksType
<1>5. PICK g \in Seq(ACard) : g = Cards!Delivered(dk)
  BY DeckIs
<1>6. Old!FlatRecords(Behind(w)) = f \o g
  BY <1>1, <1>2, <1>4, <1>5, DecksGrow
<1>7. /\ u \in Readers /\ u.open = rd.open /\ u.waiting = w /\ u.deck = rd.deck /\ u.card = rd.card
  BY <1>2
<1>8. PICK a : a = FromUp(rd)
  OBVIOUS
<1>9. a \in Seq(ACard)
  <2>1. CASE rd.open
    <3>1. rd.card \in ACard
      BY <2>1 DEF ReaderFits
    <3> QED
      BY <1>1, <1>8, <2>1, <3>1, DeliveredIs DEF FromUp
  <2>2. CASE ~rd.open
    BY <1>8, <2>2 DEF FromUp
  <2> QED
    BY <2>1, <2>2
<1>10. d = a \o f
  BY <1>4, <1>8 DEF ReaderFits
<1>11. PICK l, r : l = (a \o f) \o g /\ r = f \o g
  OBVIOUS
<1>12. l = a \o r
  <2>1. a \in Seq(ACard) /\ f \in Seq(ACard) /\ g \in Seq(ACard)
    BY <1>9
  <2> QED
    BY <1>11, <2>1, Associates
<1>13. ASSUME rd.open PROVE ReaderFits(u, d \o g)
  <2>1. FromUp(u) = a
    BY <1>7, <1>8 DEF FromUp
  <2>2. d \o g = FromUp(u) \o Old!FlatRecords(Behind(u.waiting))
    BY <1>6, <1>7, <1>10, <1>11, <1>12, <2>1
  <2>3. u.card \in ACard
    BY <1>7, <1>13 DEF ReaderFits
  <2> QED
    BY <1>7, <1>13, <2>2, <2>3 DEF ReaderFits
<1>14. ASSUME ~rd.open PROVE d \o g = Old!FlatRecords(Behind(u.waiting))
  <2>1. a = <<>> /\ rd.waiting = <<>>
    BY <1>8, <1>14 DEF FromUp, ReaderFits
  <2>2. <<>> \o r = r
    <3>1. r \in Seq(ACard)
      BY <1>11
    <3> QED
      BY <3>1
  <2> QED
    BY <1>6, <1>7, <1>10, <1>11, <1>12, <2>1, <2>2
<1> QED
  BY <1>5, <1>7, <1>13, <1>14

\* The cards to come, as the specification says them.
LEMMA UpInOrder ==
    ASSUME ReaderFits(reader, due) PROVE Cards!CardsInOrder
<1> DEFINE left(i) == Cards!Delivered(reader.waiting[i])
           up == IF ~reader.open THEN <<>>
                 ELSE IF reader.deck = <<>> /\ reader.card.kind = "eoi" THEN <<reader.card>>
                 ELSE Cards!Delivered(<<reader.card>> \o reader.deck)
<1>1. reader.deck \in Seq(ACard)
  BY DEF ReaderFits, Readers
<1>2. up = FromUp(reader)
  <2>1. ASSUME reader.open, reader.deck = <<>>, reader.card.kind = "eoi"
        PROVE  Cards!Delivered(<<reader.card>> \o reader.deck) = <<reader.card>>
    <3>1. reader.card \in ACard
      BY <2>1 DEF ReaderFits
    <3> QED
      BY <1>1, <2>1, <3>1, DeliveredIs
  <2> QED
    BY <2>1 DEF FromUp
<1>3. [i \in DOMAIN reader.waiting |-> left(i)] = Behind(reader.waiting)
  BY DEF Behind
<1>4. Cards!CardsInOrder = (due = up \o Cards!Flat([i \in DOMAIN reader.waiting |-> left(i)]))
  BY DEF Cards!CardsInOrder
<1>5. due = FromUp(reader) \o Old!FlatRecords(Behind(reader.waiting))
  BY DEF ReaderFits
<1> QED
  BY <1>2, <1>3, <1>4, <1>5, SameFlat

\* The functions that change the mask of the reader or the punch, ...
LEMMA MaskOps ==
    ASSUME cardPlan \in UnitPlans, NEW f \in Cards!MaskFunctions
    PROVE  \/ f.op \in {"gate", "binary", "bcd", "clear"}
           \/ f.op \in {"select", "release"} /\ f.c \in Selectable
BY DEF Cards!MaskFunctions, UnitPlans

\* ... which leave the cards of the reader alone, ...
LEMMA MaskReader ==
    ASSUME cardPlan \in UnitPlans, NEW f \in Cards!MaskFunctions, NEW rd \in Readers, NEW u,
           u = Cards!MaskFunction(rd, f)
    PROVE  /\ u \in Readers /\ u.open = rd.open /\ u.card = rd.card
           /\ u.deck = rd.deck /\ u.waiting = rd.waiting
<1>1. Selectable \subseteq CardStatus
  BY DEF Selectable, CardStatus
<1>2. CASE f.op = "gate"
  BY <1>2 DEF Cards!MaskFunction
<1>3. CASE f.op = "binary"
  BY <1>3 DEF Cards!MaskFunction, Readers
<1>4. CASE f.op = "bcd"
  BY <1>4 DEF Cards!MaskFunction, Readers
<1>5. CASE f.op = "clear"
  BY <1>5 DEF Cards!MaskFunction, Readers
<1>6. CASE f.op = "select" /\ f.c \in Selectable
  <2>1. u = [rd EXCEPT !.mask = @ \cup {f.c}, !.status = @ \ {f.c}]
    BY <1>6 DEF Cards!MaskFunction
  <2>2. rd.mask \cup {f.c} \in SUBSET Selectable /\ rd.status \ {f.c} \in SUBSET CardStatus
    BY <1>6 DEF Readers
  <2> QED
    BY <2>1, <2>2 DEF Readers
<1>7. CASE f.op = "release" /\ f.c \in Selectable
  <2>1. u = [rd EXCEPT !.mask = @ \ {f.c}, !.status = @ \ {f.c}]
    BY <1>7 DEF Cards!MaskFunction
  <2>2. rd.mask \ {f.c} \in SUBSET Selectable /\ rd.status \ {f.c} \in SUBSET CardStatus
    BY <1>7 DEF Readers
  <2> QED
    BY <2>1, <2>2 DEF Readers
<1> QED
  BY <1>2, <1>3, <1>4, <1>5, <1>6, <1>7, MaskOps

\* ... and those of the punch.
LEMMA MaskPunch ==
    ASSUME cardPlan \in UnitPlans, NEW f \in Cards!MaskFunctions, NEW p \in Punches, NEW u,
           u = Cards!MaskFunction(p, f)
    PROVE  /\ u \in Punches /\ u.card = p.card /\ u.lines = p.lines /\ u.files = p.files
<1>2. CASE f.op = "gate"
  BY <1>2 DEF Cards!MaskFunction
<1>3. CASE f.op = "binary"
  BY <1>3 DEF Cards!MaskFunction, Punches
<1>4. CASE f.op = "bcd"
  BY <1>4 DEF Cards!MaskFunction, Punches
<1>5. CASE f.op = "clear"
  BY <1>5 DEF Cards!MaskFunction, Punches
<1>6. CASE f.op = "select" /\ f.c \in Selectable
  <2>1. u = [p EXCEPT !.mask = @ \cup {f.c}, !.status = @ \ {f.c}]
    BY <1>6 DEF Cards!MaskFunction
  <2>2. p.mask \cup {f.c} \in SUBSET Selectable /\ p.status \ {f.c} \in SUBSET CardStatus
    BY <1>6 DEF Punches
  <2> QED
    BY <2>1, <2>2 DEF Punches
<1>7. CASE f.op = "release" /\ f.c \in Selectable
  <2>1. u = [p EXCEPT !.mask = @ \ {f.c}, !.status = @ \ {f.c}]
    BY <1>7 DEF Cards!MaskFunction
  <2>2. p.mask \ {f.c} \in SUBSET Selectable /\ p.status \ {f.c} \in SUBSET CardStatus
    BY <1>7 DEF Punches
  <2> QED
    BY <2>1, <2>2 DEF Punches
<1> QED
  BY <1>2, <1>3, <1>4, <1>5, <1>6, <1>7, MaskOps

\* A change of status.
LEMMA NewStatus ==
    ASSUME NEW rd, NEW d, NEW st, ReaderFits(rd, d), st \in SUBSET CardStatus
    PROVE  /\ ReaderFits([rd EXCEPT !.status = st], d)
           /\ ReaderFits([rd EXCEPT !.disc = TRUE, !.status = st], d)
<1>1. rd \in Readers
  BY DEF ReaderFits
<1>2. PICK u : u = [rd EXCEPT !.status = st]
  OBVIOUS
<1>3. u \in Readers /\ u.open = rd.open /\ u.card = rd.card /\ u.deck = rd.deck /\ u.waiting = rd.waiting
  BY <1>1, <1>2 DEF Readers
<1>4. PICK v : v = [rd EXCEPT !.disc = TRUE, !.status = st]
  OBVIOUS
<1>5. v \in Readers /\ v.open = rd.open /\ v.card = rd.card /\ v.deck = rd.deck /\ v.waiting = rd.waiting
  BY <1>1, <1>4 DEF Readers
<1>6. ReaderFits(u, d) /\ ReaderFits(v, d)
  BY <1>3, <1>5, SameCards
<1> QED
  BY <1>2, <1>4, <1>6

\* The words of status that the reader and the punch assign.
LEMMA StatusSets ==
    /\ Cards!ReadyStatus \in SUBSET CardStatus /\ Cards!EofStatus \in SUBSET CardStatus
    /\ {"eoiInt"} \in SUBSET CardStatus /\ {"errorInt"} \in SUBSET CardStatus
BY DEF Cards!ReadyStatus, Cards!EofStatus, CardStatus

\* The reader has its type.
LEMMA ReaderType == ASSUME NEW rd, NEW d, ReaderFits(rd, d) PROVE rd \in Readers
BY DEF ReaderFits

\* A card that is read is the next one that is due; the next card comes up behind it.
LEMMA WordRead == ASSUME UnitInv, Cards!ReadWord PROVE ReaderFits(reader', due')
<1>1. reader \in Readers /\ ReaderFits(reader, due)
  BY ReaderType DEF UnitInv
<1>2. reader' = [reader EXCEPT !.col = @ + Cards!Width(reader), !.disc = FALSE] /\ due' = due
      /\ reader.col < Columns
  BY DEF Cards!ReadWord
<1>3. Cards!Width(reader) \in {1, 2}
  BY DEF Cards!Width
<1>4. reader.col + Cards!Width(reader) \in 0 .. Columns + 1
  <2>1. Columns \in Nat
    BY DevicesAssumption DEF DevicesAssumption
  <2>2. reader.col \in 0 .. Columns + 1
    BY <1>1 DEF Readers
  <2> QED
    BY <1>2, <1>3, <2>1, <2>2
<1>5. PICK u : u = [reader EXCEPT !.col = @ + Cards!Width(reader), !.disc = FALSE]
  OBVIOUS
<1>6. u \in Readers /\ u.open = reader.open /\ u.card = reader.card /\ u.deck = reader.deck
      /\ u.waiting = reader.waiting
  BY <1>1, <1>4, <1>5 DEF Readers
<1>7. ReaderFits(u, due)
  BY <1>1, <1>6, SameCards
<1> QED
  BY <1>2, <1>5, <1>7

\* The operator loads a deck.
LEMMA DeckLoaded == ASSUME UnitInv, Cards!LoadDeck PROVE ReaderFits(reader', due')
<1>1. ReaderFits(reader, due) /\ cardPlan \in UnitPlans /\ cardPlan.decks # <<>>
  BY DEF UnitInv, UnitFlow, Cards!LoadDeck
<1>2. PICK dk \in Decked : dk = Head(cardPlan.decks)
  <2>1. cardPlan.decks \in Seq(Decked)
    BY <1>1 DEF UnitPlans
  <2>2. Head(cardPlan.decks) \in Decked
    BY <1>1, <2>1, TailOf
  <2> QED
    BY <2>2
<1>3. PICK u : u = [reader EXCEPT !.waiting = Append(@, dk)]
  OBVIOUS
<1>4. /\ reader' = IF reader.open THEN u ELSE Cards!NextDeck(u)
      /\ due' = due \o Cards!Delivered(dk)
  BY <1>2, <1>3 DEF Cards!LoadDeck
<1>a. PICK w \in Seq(Decked) : w = Append(reader.waiting, dk)
  <2>1. reader.waiting \in Seq(Decked)
    BY <1>1, ReaderType DEF Readers
  <2>2. Append(reader.waiting, dk) \in Seq(Decked)
    BY <2>1, Grown
  <2> QED
    BY <2>2
<1>b. /\ u \in Readers /\ u.open = reader.open /\ u.card = reader.card /\ u.deck = reader.deck
      /\ u.waiting = Append(reader.waiting, dk)
  <2>1. reader \in Readers /\ u = [reader EXCEPT !.waiting = w]
    BY <1>1, <1>3, <1>a, ReaderType
  <2> QED
    BY <1>a, <2>1 DEF Readers
<1>5. /\ reader.open => ReaderFits(u, due \o Cards!Delivered(dk))
      /\ ~reader.open => due \o Cards!Delivered(dk) = Old!FlatRecords(Behind(u.waiting))
  BY <1>1, <1>b, DeckBehind
<1>6. CASE reader.open
  BY <1>4, <1>5, <1>6
<1>7. CASE ~reader.open
  BY <1>4, <1>5, <1>7, <1>b, NextDeckFits
<1> QED
  BY <1>6, <1>7

\* The operator takes all decks away: nothing is due.
LEMMA DecksUnloaded == ASSUME UnitInv, Cards!UnloadReader PROVE ReaderFits(reader', due')
<1>1. reader \in Readers
  BY ReaderType DEF UnitInv
<1>2. PICK u : u = [reader EXCEPT !.open = FALSE, !.status = Cards!EofStatus, !.waiting = <<>>, !.deck = <<>>]
  OBVIOUS
<1>3. u \in Readers /\ u.open = FALSE /\ u.waiting = <<>>
  <2>1. <<>> \in Seq(Decked) /\ <<>> \in Seq(ACard)
    OBVIOUS
  <2>2. PICK e : e = <<>>
    OBVIOUS
  <2>3. u = [reader EXCEPT !.open = FALSE, !.status = Cards!EofStatus, !.waiting = e, !.deck = e]
    BY <1>2, <2>2
  <2>4. u \in Readers /\ u.open = FALSE /\ u.waiting = e
    BY <1>1, <2>1, <2>2, <2>3, StatusSets DEF Readers
  <2> QED
    BY <2>2, <2>4
<1>4. <<>> \o <<>> = <<>>
  OBVIOUS
<1>5. ReaderFits(u, <<>>)
  BY <1>3, <1>4, NoDecks DEF ReaderFits, FromUp
<1> QED
  BY <1>2, <1>5 DEF Cards!UnloadReader

\* The hopper has the next card, or the next deck.
LEMMA CardEnded == ASSUME UnitInv, Cards!CardEnd PROVE ReaderFits(reader', due')
<1>1. ReaderFits(reader, due) /\ reader \in Readers /\ reader.open
  BY ReaderType DEF UnitInv, Cards!CardEnd
<1>2. PICK r : r = Cards!NextCard(reader)
  OBVIOUS
<1>3. ReaderFits(r, Tail(due))
  BY <1>1, <1>2, NextCardFits
<1>4. r.status \in SUBSET CardStatus
  <2>1. r \in Readers
    BY <1>3, ReaderType
  <2> QED
    BY <2>1 DEF Readers
<1>5. PICK st : st = r.status \cup Cards!ReadyStatus \cup {"eoiInt"} \cup
                     (IF "file" \in r.status THEN {"errorInt"} ELSE {})
  OBVIOUS
<1>6. st \in SUBSET CardStatus
  BY <1>4, <1>5, StatusSets
<1>7. ReaderFits([r EXCEPT !.disc = TRUE, !.status = st], Tail(due))
  BY <1>3, <1>6, NewStatus
<1>8. /\ due' = Tail(due)
      /\ reader' = IF cardFcode = "input" THEN r ELSE [r EXCEPT !.disc = TRUE, !.status = st]
  BY <1>1, <1>2, <1>5 DEF Cards!CardEnd, Cards!Passed
<1> QED
  BY <1>3, <1>7, <1>8

\* The rest of a card that the PP leaves is not due.
LEMMA ReaderLeft == ASSUME UnitInv, Cards!DisconnectReader PROVE ReaderFits(reader', due')
<1> DEFINE r == [reader EXCEPT !.status = @ \cup {"eoiInt"}]
           cut == reader.open /\ reader.col # 0
<1>1. ReaderFits(reader, due) /\ reader \in Readers
  BY ReaderType DEF UnitInv
<1>2. reader.status \cup {"eoiInt"} \in SUBSET CardStatus
  BY <1>1, StatusSets DEF Readers
<1>3. ReaderFits(r, due)
  BY <1>1, <1>2, NewStatus
<1>4. r.open = reader.open
  BY <1>1 DEF Readers
<1>5. /\ reader' = (IF cut THEN Cards!NextCard(r) ELSE r)
      /\ due' = IF cut THEN Cards!Passed(reader) ELSE due
  BY DEF Cards!DisconnectReader
<1>6. CASE cut
  <2>1. due' = Tail(due)
    BY <1>5, <1>6 DEF Cards!Passed
  <2>2. r.open
    BY <1>4, <1>6
  <2> HIDE DEF r
  <2>3. ReaderFits(Cards!NextCard(r), Tail(due))
    BY <1>3, <2>2, NextCardFits
  <2> QED
    BY <1>5, <1>6, <2>1, <2>3
<1>7. CASE ~cut
  BY <1>3, <1>5, <1>7
<1> QED
  BY <1>6, <1>7

\* Steps that leave the reader alone leave alone what is due.
LEMMA ReaderStays == ASSUME ReaderRests PROVE UNCHANGED <<reader, due>>
<1>1. CASE \E on \in BOOLEAN : Cards!SelectConverter(on)
  BY <1>1 DEF Cards!SelectConverter, Cards!still
<1>2. CASE \E e \in Cards!Equipment : (\E mode \in {1, 2} : Cards!Connect(mode, e)) \/ Cards!CardMoved(e)
  BY <1>2 DEF Cards!Connect, Cards!CardMoved, Cards!still
<1>p. CASE Cards!DccStatus \/ Cards!Polled
  BY <1>p DEF Cards!DccStatus, Cards!Polled, Cards!still
<1>3. CASE Cards!MasterClear \/ Cards!Rejected \/ Cards!StatusRequest \/ Cards!OutputCards
  BY <1>3 DEF Cards!MasterClear, Cards!Rejected, Cards!StatusRequest, Cards!OutputCards, Cards!still
<1>4. CASE Cards!OutputLine \/ Cards!PunchWord \/ Cards!PunchTakes \/ Cards!PrintWord
  BY <1>4 DEF Cards!OutputLine, Cards!PunchWord, Cards!PunchTakes, Cards!PrintWord
<1>5. CASE Cards!UnloadPunch \/ Cards!UnloadPrinter
  BY <1>5 DEF Cards!UnloadPunch, Cards!UnloadPrinter
<1>6. ASSUME NEW mode \in {1, 2}, \E f \in Cards!MaskFunctions : Cards!PunchFunction(mode, f)
      PROVE  UNCHANGED <<reader, due>>
  BY <1>6 DEF Cards!PunchFunction
<1>7. ASSUME NEW mode \in {1, 2},
             \E c \in {"ready", "end"}, on \in BOOLEAN : Cards!PrinterInterrupts(mode, c, on)
      PROVE  UNCHANGED <<reader, due>>
  BY <1>7 DEF Cards!PrinterInterrupts
<1>8. ASSUME NEW mode \in {1, 2}, Cards!Release(mode) \/ Cards!Space(mode) \/ Cards!FillMemory(mode)
      PROVE  UNCHANGED <<reader, due>>
  BY <1>8 DEF Cards!Release, Cards!Space, Cards!FillMemory
<1> QED
  BY <1>1, <1>2, <1>p, <1>3, <1>4, <1>5, <1>6, <1>7, <1>8 DEF ReaderRests

\* Cards come in the order of the decks, whatever the step.
LEMMA ReaderKeeps == ASSUME UnitInv, Cards!Next PROVE ReaderFits(reader', due')
<1>1. ReaderFits(reader, due) /\ reader \in Readers /\ cardPlan \in UnitPlans
  BY ReaderType DEF UnitInv, UnitFlow
<1>2. ASSUME UNCHANGED <<reader, due>> PROVE ReaderFits(reader', due')
  BY <1>1, <1>2
<1>3. CASE ReaderRests
  BY <1>2, <1>3, ReaderStays
<1>4. ASSUME NEW mode \in {1, 2}, NEW f \in Cards!MaskFunctions, Cards!ReaderFunction(mode, f)
      PROVE  ReaderFits(reader', due')
  <2>1. PICK u : u = Cards!MaskFunction(reader, f)
    OBVIOUS
  <2>2. /\ u \in Readers /\ u.open = reader.open /\ u.card = reader.card
        /\ u.deck = reader.deck /\ u.waiting = reader.waiting
    BY <1>1, <2>1, MaskReader
  <2>3. ReaderFits(u, due)
    BY <1>1, <2>2, SameCards
  <2>4. reader' = u /\ due' = due
    BY <1>4, <2>1 DEF Cards!ReaderFunction
  <2> QED
    BY <2>3, <2>4
<1>5. ASSUME NEW on \in BOOLEAN, Cards!Input(on) PROVE ReaderFits(reader', due')
  BY <1>1, <1>5, NewStatus, StatusSets DEF Cards!Input, Cards!still
<1>6. CASE Cards!NoCards
  BY <1>1, <1>6, NewStatus, StatusSets DEF Cards!NoCards, Cards!still
<1>7. CASE Cards!ReadWord
  BY <1>7, WordRead
<1>8. CASE Cards!CardEnd
  BY <1>8, CardEnded
<1>9. CASE Cards!LoadDeck
  BY <1>9, DeckLoaded
<1>10. CASE Cards!UnloadReader
  BY <1>10, DecksUnloaded
<1>11. CASE Cards!Disconnect
  <2>1. \/ Cards!DisconnectReader
        \/ UNCHANGED <<reader, due>>
    BY <1>11 DEF Cards!Disconnect, Cards!DisconnectPunch, Cards!DisconnectPrinter
  <2> QED
    BY <1>2, <2>1, ReaderLeft
<1>12. ASSUME Cards!ConverterFunctions PROVE ReaderRests \/ \E on \in BOOLEAN : Cards!Input(on)
  BY <1>12 DEF Cards!ConverterFunctions, ReaderRests
<1>13. ASSUME Cards!EquipmentFunctions
       PROVE  \/ ReaderRests
              \/ \E mode \in {1, 2}, f \in Cards!MaskFunctions : Cards!ReaderFunction(mode, f)
  BY <1>13 DEF Cards!EquipmentFunctions, ReaderRests
<1>14. ASSUME Cards!Words PROVE ReaderRests \/ Cards!ReadWord \/ Cards!CardEnd \/ Cards!NoCards
  BY <1>14 DEF Cards!Words, ReaderRests
<1>15. CASE Cards!ConverterFunctions
  BY <1>3, <1>5, <1>12, <1>15
<1>16. CASE Cards!EquipmentFunctions
  BY <1>3, <1>4, <1>13, <1>16
<1>17. CASE Cards!Words
  BY <1>3, <1>6, <1>7, <1>8, <1>14, <1>17
<1>18. CASE Cards!UnloadPunch \/ Cards!UnloadPrinter
  BY <1>3, <1>18 DEF ReaderRests
<1> QED
  BY <1>9, <1>10, <1>11, <1>15, <1>16, <1>17, <1>18 DEF Cards!Next

\* Sequences put together: none of the orders of putting them together matters.
LEMMA AppendsAssociate ==
    ASSUME NEW R, NEW a, NEW b, NEW x, NEW l, NEW r, a \in Seq(R) /\ b \in Seq(R) /\ x \in R,
           l = Append(b, x) /\ r = a \o b
    PROVE  a \o l = Append(r, x) /\ l \in Seq(R) /\ r \in Seq(R)
OBVIOUS

\* The empty sequence adds nothing.
LEMMA Nothing ==
    ASSUME NEW T, NEW a \in Seq(T)
    PROVE  a \o <<>> = a /\ <<>> \o a = a /\ <<>> \in Seq(T)
OBVIOUS

\* A sequence behind another one is a sequence.
LEMMA SumType ==
    ASSUME NEW T, NEW a \in Seq(T), NEW b \in Seq(T)
    PROVE  a \o b \in Seq(T)
OBVIOUS

\* They are a sequence of words.
LEMMA PileType == ASSUME NEW p \in Punches PROVE Pile(p) \in Seq(Nat)
<1> DEFINE Q == Seq(Nat)
<1>1. p.files \in Seq(Seq(Q)) /\ p.lines \in Seq(Q)
  BY DEF Punches
<1> HIDE DEF Q
<1>2. Old!FlatRecords(p.files) \in Seq(Q)
  BY <1>1, RecordsType
<1>3. Old!FlatRecords(p.files) \o p.lines \in Seq(Q)
  BY <1>1, <1>2, SumType
<1>4. Old!FlatRecords(p.files) \o p.lines \in Seq(Seq(Nat))
  BY <1>3 DEF Q
<1> QED
  BY <1>4, RecordsType DEF Pile

\* A card that is punched comes to the end of them,
LEMMA PileGrows ==
    ASSUME NEW p \in Punches, NEW u \in Punches, NEW x \in Seq(Nat), u.files = p.files,
           u.lines = Append(p.lines, x)
    PROVE  Pile(u) = Pile(p) \o x
<1> DEFINE Q == Seq(Nat)
<1>1. p.files \in Seq(Seq(Q)) /\ p.lines \in Seq(Q) /\ x \in Q
  BY DEF Punches
<1> HIDE DEF Q
<1>2. PICK a : a = Old!FlatRecords(p.files)
  OBVIOUS
<1>3. a \in Seq(Q)
  BY <1>1, <1>2, RecordsType
<1>4. PICK l, r : l = Append(p.lines, x) /\ r = a \o p.lines
  OBVIOUS
<1>5. a \o l = Append(r, x) /\ r \in Seq(Q)
  BY <1>1, <1>3, <1>4, AppendsAssociate, SMTT(30)
<1>6. Old!FlatRecords(Append(r, x)) = Old!FlatRecords(r) \o x
  BY <1>1, <1>5, RecordsGrow
<1> QED
  BY <1>2, <1>4, <1>5, <1>6 DEF Pile

\* and to take the file away loses none.
LEMMA PileMoves ==
    ASSUME NEW p \in Punches, NEW u \in Punches, u.files = Append(p.files, p.lines), u.lines = <<>>
    PROVE  Pile(u) = Pile(p)
<1> DEFINE Q == Seq(Nat)
           S == Seq(Q)
<1>1. p.files \in Seq(S) /\ p.lines \in S
  BY DEF Punches
<1>2. Old!FlatRecords(p.files) \in Seq(Q)
  <2> HIDE DEF Q
  <2> QED
    BY <1>1, RecordsType
<1> HIDE DEF S
<1>3. Old!FlatRecords(Append(p.files, p.lines)) = Old!FlatRecords(p.files) \o p.lines
  BY <1>1, RecordsGrow
<1>4. PICK a : a = Old!FlatRecords(p.files) \o p.lines
  OBVIOUS
<1> HIDE DEF Q
<1>5. a \in Seq(Q)
  BY <1>1, <1>2, <1>4, SumType DEF S
<1>6. a \o <<>> = a
  BY <1>5, Nothing
<1> QED
  BY <1>3, <1>4, <1>6 DEF Pile

\* What was given to the punch: the cards, the words of the card in work, and the one held.
LEMMA PunchParts ==
    ASSUME NEW p, NEW h, NEW c, PunchFits(p, h, c)
    PROVE  /\ p \in Punches /\ p.card \in Seq(Nat) /\ h \in Seq(Nat) /\ Pile(p) \in Seq(Nat)
           /\ c = (Pile(p) \o p.card) \o h
<1>1. p \in Punches /\ h \in Seq(Nat) /\ c = (Pile(p) \o p.card) \o h
  BY DEF PunchFits, Pile
<1>2. p.card \in Seq(Nat)
  BY <1>1 DEF Punches
<1> QED
  BY <1>1, <1>2, PileType

\* What does not touch the cards that are punched.
LEMMA SamePunch ==
    ASSUME NEW p, NEW h, NEW c, NEW u, PunchFits(p, h, c), u \in Punches, u.card = p.card,
           u.lines = p.lines, u.files = p.files
    PROVE  PunchFits(u, h, c)
BY DEF PunchFits

\* The card that is punched goes to the file.
LEMMA FlushFits ==
    ASSUME NEW p, NEW h, NEW c, PunchFits(p, h, c)
    PROVE  PunchFits(Cards!FlushCard(p), h, c) /\ Cards!FlushCard(p).card = <<>>
<1>1. /\ p \in Punches /\ p.card \in Seq(Nat) /\ h \in Seq(Nat) /\ Pile(p) \in Seq(Nat)
      /\ c = (Pile(p) \o p.card) \o h
  BY PunchParts
<1>2. CASE p.card = <<>>
  BY <1>2 DEF Cards!FlushCard
<1>3. CASE p.card # <<>>
  <2> DEFINE Q == Seq(Nat)
  <2>1. p.lines \in Seq(Q) /\ p.card \in Q
    BY <1>1 DEF Punches
  <2> HIDE DEF Q
  <2>2. PICK l : l = Append(p.lines, p.card)
    OBVIOUS
  <2>3. PICK n \in Nat : Len(p.lines) = n
    BY <2>1
  <2>4. l \in Seq(Q) /\ Len(l) = n + 1 /\ l[n + 1] = p.card /\ \A i \in 1 .. n : l[i] = p.lines[i]
    BY <2>1, <2>2, <2>3, Longer
  <2>5. l \in Seq(Seq(Nat)) /\ <<>> \in Seq(Nat)
    BY <2>4 DEF Q
  <2>6. PICK e : e = <<>>
    OBVIOUS
  <2>7. PICK u : u = [p EXCEPT !.lines = l, !.card = e]
    OBVIOUS
  <2>8. u \in Punches /\ u.files = p.files /\ u.lines = l /\ u.card = e
    BY <1>1, <2>5, <2>6, <2>7 DEF Punches
  <2>9. Cards!FlushCard(p) = u
    BY <1>3, <2>2, <2>6, <2>7 DEF Cards!FlushCard
  <2>10. Pile(u) = Pile(p) \o p.card
    <3>1. p.card \in Seq(Nat) /\ u.lines = Append(p.lines, p.card)
      BY <2>1, <2>2, <2>8 DEF Q
    <3> QED
      BY <1>1, <2>8, <3>1, PileGrows
  <2>11. PICK x : x = Pile(u)
    OBVIOUS
  <2>12. x \in Seq(Nat)
    BY <2>8, <2>11, PileType
  <2>13. c = (x \o e) \o h
    BY <1>1, <2>6, <2>10, <2>11, <2>12, Nothing
  <2>14. \A i \in DOMAIN u.lines : Len(u.lines[i]) <= Columns
    <3>1. Len(p.card) <= Columns /\ \A i \in 1 .. n : Len(p.lines[i]) <= Columns
      BY <2>1, <2>3 DEF PunchFits
    <3>2. \A i \in 1 .. n + 1 : i \in 1 .. n \/ i = n + 1
      OBVIOUS
    <3>3. \A i \in 1 .. n + 1 : Len(l[i]) <= Columns
      BY <2>4, <3>1, <3>2
    <3>4. DOMAIN l = 1 .. n + 1
      BY <2>4
    <3> QED
      BY <2>8, <3>3, <3>4
  <2>15. Len(u.card) <= Columns
    <3>1. Len(<<>>) = 0 /\ 0 <= Columns
      BY DevicesAssumption DEF DevicesAssumption
    <3> QED
      BY <2>6, <2>8, <3>1
  <2>16. PunchFits(u, h, c)
    BY <1>1, <2>8, <2>11, <2>13, <2>14, <2>15 DEF PunchFits, Pile
  <2> QED
    BY <2>6, <2>8, <2>9, <2>16
<1> QED
  BY <1>2, <1>3

\* The operator takes the file.
LEMMA PunchUnloads ==
    ASSUME NEW p, NEW h, NEW c, PunchFits(p, h, c), NEW u,
           u = [p EXCEPT !.files = Append(@, p.lines), !.lines = <<>>]
    PROVE  PunchFits(u, h, c)
<1>1. /\ p \in Punches /\ p.card \in Seq(Nat) /\ h \in Seq(Nat) /\ Pile(p) \in Seq(Nat)
      /\ c = (Pile(p) \o p.card) \o h
  BY PunchParts
<1> DEFINE S == Seq(Seq(Nat))
<1>2. p.files \in Seq(S) /\ p.lines \in S /\ <<>> \in S
  BY <1>1 DEF Punches
<1> HIDE DEF S
<1>3. PICK fs : fs = Append(p.files, p.lines)
  OBVIOUS
<1>4. fs \in Seq(S)
  BY <1>2, <1>3, Grown
<1>5. PICK e : e = <<>>
  OBVIOUS
<1>6. u \in Punches /\ u.files = fs /\ u.lines = e /\ u.card = p.card
  <2>1. u = [p EXCEPT !.files = fs, !.lines = e]
    BY <1>3, <1>5
  <2>2. e \in S
    BY <1>2, <1>5
  <2> QED
    BY <1>1, <1>4, <2>1, <2>2 DEF Punches, S
<1>7. Pile(u) = Pile(p)
  BY <1>1, <1>3, <1>5, <1>6, PileMoves
<1>8. \A i \in DOMAIN u.lines : Len(u.lines[i]) <= Columns
  <2>1. DOMAIN <<>> = {}
    OBVIOUS
  <2> QED
    BY <1>5, <1>6, <2>1
<1>9. Len(u.card) <= Columns /\ Len(h) <= 1
  BY <1>6 DEF PunchFits
<1> QED
  BY <1>1, <1>6, <1>7, <1>8, <1>9 DEF PunchFits, Pile

\* A word comes into the channel, and the punch takes it.
LEMMA WordComes ==
    ASSUME NEW p, NEW c, NEW w \in Nat, PunchFits(p, <<>>, c)
    PROVE  PunchFits(p, <<w>>, c \o <<w>>)
<1>1. p \in Punches /\ p.card \in Seq(Nat) /\ Pile(p) \in Seq(Nat) /\ c = (Pile(p) \o p.card) \o <<>>
  BY PunchParts
<1>2. PICK a \in Seq(Nat) : a = Pile(p) \o p.card
  BY <1>1, SumType
<1>3. c = a
  BY <1>1, <1>2, Nothing
<1>4. <<w>> \in Seq(Nat) /\ Len(<<w>>) = 1
  OBVIOUS
<1> QED
  BY <1>1, <1>2, <1>3, <1>4 DEF PunchFits, Pile

\* The word in the channel comes on the card.
LEMMA WordGoes ==
    ASSUME NEW p, NEW h, NEW c, NEW u, PunchFits(p, h, c), Len(p.card) < Columns,
           u = [p EXCEPT !.card = @ \o h]
    PROVE  PunchFits(u, <<>>, c)
<1>1. /\ p \in Punches /\ p.card \in Seq(Nat) /\ h \in Seq(Nat) /\ Pile(p) \in Seq(Nat)
      /\ c = (Pile(p) \o p.card) \o h /\ Len(h) <= 1
  BY PunchParts DEF PunchFits
<1>2. PICK m, n : m = Len(p.card) /\ n = Len(h)
  OBVIOUS
<1>3. PICK k : k = p.card \o h
  OBVIOUS
<1>4. k \in Seq(Nat) /\ Len(k) = m + n
  BY <1>1, <1>2, <1>3, JoinedItems
<1>5. Len(k) <= Columns
  <2>0. Columns \in Nat
    BY DevicesAssumption DEF DevicesAssumption
  <2>1. m \in Nat /\ n \in Nat /\ Columns \in Nat
    BY <1>1, <1>2, <2>0
  <2> QED
    BY <1>1, <1>2, <1>4, <2>1
<1>6. u \in Punches /\ u.card = k /\ u.lines = p.lines /\ u.files = p.files
  <2>1. u = [p EXCEPT !.card = k]
    BY <1>3
  <2> QED
    BY <1>1, <1>4, <2>1 DEF Punches
<1>7. PICK x : x = Pile(p)
  OBVIOUS
<1>8. PICK l : l = (x \o p.card) \o h
  OBVIOUS
<1>9. l = x \o k
  <2>0. PICK y : y = p.card
    OBVIOUS
  <2>1. x \in Seq(Nat) /\ y \in Seq(Nat) /\ h \in Seq(Nat)
    BY <1>1, <1>7, <2>0
  <2>2. l = (x \o y) \o h /\ k = y \o h
    BY <1>3, <1>8, <2>0
  <2> QED
    BY <2>1, <2>2, Associates, SMTT(30)
<1>10. x \o k \in Seq(Nat)
  BY <1>1, <1>4, <1>7, SumType
<1>11. c = (x \o k) \o <<>>
  BY <1>1, <1>7, <1>8, <1>9, <1>10, Nothing
<1>12. Pile(u) = x
  BY <1>6, <1>7 DEF Pile
<1>13. <<>> \in Seq(Nat) /\ Len(<<>>) <= 1
  OBVIOUS
<1>14. \A i \in DOMAIN u.lines : Len(u.lines[i]) <= Columns
  BY <1>6 DEF PunchFits
<1> QED
  BY <1>5, <1>6, <1>11, <1>12, <1>13, <1>14 DEF PunchFits, Pile

\* A word that is given to the punch is held.
LEMMA WordPunched == ASSUME UnitInv, Cards!PunchWord PROVE PunchFits(punch', held', cardSent'.cards)
<1>1. PunchFits(punch, held, cardSent.cards) /\ held = <<>> /\ SentType
  BY DEF UnitInv, Cards!PunchWord, SentType
<1>2. PICK w \in Nat : w = cardPlan.words
  BY DEF UnitInv, UnitFlow, UnitPlans
<1>3. held' = <<w>> /\ punch' = punch /\ cardSent' = [cardSent EXCEPT !.cards = @ \o <<w>>]
  BY <1>2 DEF Cards!PunchWord
<1>4. cardSent'.cards = cardSent.cards \o <<w>>
  BY <1>1, <1>3 DEF SentType
<1> QED
  BY <1>1, <1>3, <1>4, WordComes

\* The punch takes the word that is held; with the last column the card is done.
LEMMA WordOnCard == ASSUME UnitInv, Cards!PunchTakes PROVE PunchFits(punch', held', cardSent'.cards)
<1>1. PunchFits(punch, held, cardSent.cards) /\ cardSent' = cardSent
  BY DEF UnitInv, Cards!PunchTakes
<1>2. CASE Cards!Punched(punch) >= Columns
  BY <1>1, <1>2, FlushFits DEF Cards!PunchTakes
<1>3. CASE ~ (Cards!Punched(punch) >= Columns)
  <2>1. held' = <<>> /\ punch' = [punch EXCEPT !.card = @ \o held]
    BY <1>3 DEF Cards!PunchTakes
  <2>2. Len(punch.card) < Columns
    <3>1. punch.card \in Seq(Nat)
      BY <1>1, PunchParts
    <3>2. PICK n \in Nat : n = Len(punch.card)
      BY <3>1
    <3>3. Columns \in Nat
      BY DevicesAssumption DEF DevicesAssumption
    <3>4. Cards!Punched(punch) = n * 1 \/ Cards!Punched(punch) = n * 2
      BY <3>2 DEF Cards!Punched, Cards!PunchWidth
    <3> QED
      BY <1>3, <3>2, <3>3, <3>4
  <2> QED
    BY <1>1, <2>1, <2>2, WordGoes
<1> QED
  BY <1>2, <1>3

\* A card that the PP leaves is punched with the words it has.
LEMMA PunchLeft == ASSUME UnitInv, Cards!DisconnectPunch, UNCHANGED held
                   PROVE  PunchFits(punch', held', cardSent'.cards)
<1>1. PunchFits(punch, held, cardSent.cards) /\ cardSent' = cardSent
  BY DEF UnitInv, Cards!DisconnectPunch
<1>2. PICK u : u = [punch EXCEPT !.status = @ \cup {"eoiInt"}]
  OBVIOUS
<1>3. u \in Punches /\ u.card = punch.card /\ u.lines = punch.lines /\ u.files = punch.files
  <2>1. punch \in Punches
    BY <1>1, PunchParts
  <2>2. punch.status \cup {"eoiInt"} \in SUBSET CardStatus
    BY <2>1, StatusSets DEF Punches
  <2> QED
    BY <1>2, <2>1, <2>2 DEF Punches
<1>4. PunchFits(u, held, cardSent.cards)
  BY <1>1, <1>3, SamePunch
<1>5. punch' = Cards!FlushCard(u)
  BY <1>2 DEF Cards!DisconnectPunch
<1> QED
  BY <1>1, <1>4, <1>5, FlushFits

\* The operator takes the punched cards.
LEMMA FileTaken == ASSUME UnitInv, Cards!UnloadPunch PROVE PunchFits(punch', held', cardSent'.cards)
<1>1. PunchFits(punch, held, cardSent.cards) /\ cardSent' = cardSent /\ held' = held
  BY DEF UnitInv, Cards!UnloadPunch
<1>2. PICK p : p = Cards!FlushCard(punch)
  OBVIOUS
<1>3. PunchFits(p, held, cardSent.cards)
  BY <1>1, <1>2, FlushFits
<1>4. PICK u : u = [p EXCEPT !.files = Append(@, p.lines), !.lines = <<>>]
  OBVIOUS
<1>5. PunchFits(u, held, cardSent.cards)
  BY <1>3, <1>4, PunchUnloads
<1>6. punch' = u
  BY <1>2, <1>4 DEF Cards!UnloadPunch
<1> QED
  BY <1>1, <1>5, <1>6

\* Steps that leave the punch alone give it nothing.
LEMMA PunchStays == ASSUME PunchRests PROVE UNCHANGED <<punch, held, cardSent>>
<1>1. CASE \E on \in BOOLEAN : Cards!SelectConverter(on) \/ Cards!Input(on)
  BY <1>1 DEF Cards!SelectConverter, Cards!Input, Cards!still
<1>2. CASE \E e \in Cards!Equipment : (\E mode \in {1, 2} : Cards!Connect(mode, e)) \/ Cards!CardMoved(e)
  BY <1>2 DEF Cards!Connect, Cards!CardMoved, Cards!still
<1>p. CASE Cards!DccStatus \/ Cards!Polled
  BY <1>p DEF Cards!DccStatus, Cards!Polled, Cards!still
<1>3. CASE Cards!MasterClear \/ Cards!Rejected \/ Cards!StatusRequest \/ Cards!OutputLine
  BY <1>3 DEF Cards!MasterClear, Cards!Rejected, Cards!StatusRequest, Cards!OutputLine, Cards!still
<1>4. CASE Cards!ReadWord \/ Cards!CardEnd \/ Cards!NoCards
  BY <1>4 DEF Cards!ReadWord, Cards!CardEnd, Cards!NoCards, Cards!still
<1>5. CASE Cards!LoadDeck \/ Cards!UnloadReader \/ Cards!UnloadPrinter
  BY <1>5 DEF Cards!LoadDeck, Cards!UnloadReader, Cards!UnloadPrinter
<1>6. ASSUME NEW mode \in {1, 2}, \E f \in Cards!MaskFunctions : Cards!ReaderFunction(mode, f)
      PROVE  UNCHANGED <<punch, held, cardSent>>
  BY <1>6 DEF Cards!ReaderFunction
<1>7. ASSUME NEW mode \in {1, 2},
             \/ \E c \in {"ready", "end"}, on \in BOOLEAN : Cards!PrinterInterrupts(mode, c, on)
             \/ Cards!FillMemory(mode)
      PROVE  UNCHANGED <<punch, held, cardSent>>
  BY <1>7 DEF Cards!PrinterInterrupts, Cards!FillMemory
<1> QED
  BY <1>1, <1>2, <1>p, <1>3, <1>4, <1>5, <1>6, <1>7 DEF PunchRests

\* What the printer adds is not for the punch.
LEMMA JobsOnly ==
    ASSUME SentType,
           \/ UNCHANGED cardSent
           \/ \E item : Cards!Say(item)
           \/ cardSent' = [cardSent EXCEPT !.jobs = Append(@, <<>>)]
    PROVE  cardSent'.cards = cardSent.cards
BY DEF SentType, Cards!Say

\* What was given to the punch is on cards or held, whatever the step.
LEMMA PunchKeeps == ASSUME UnitInv, Cards!Next PROVE PunchFits(punch', held', cardSent'.cards)
<1>1. PunchFits(punch, held, cardSent.cards) /\ punch \in Punches /\ cardPlan \in UnitPlans /\ SentType
  BY PunchParts DEF UnitInv, UnitFlow, SentType
<1>2. ASSUME UNCHANGED <<punch, held>>, cardSent'.cards = cardSent.cards
      PROVE  PunchFits(punch', held', cardSent'.cards)
  BY <1>1, <1>2
<1>3. CASE PunchRests
  BY <1>2, <1>3, PunchStays
<1>4. ASSUME NEW mode \in {1, 2}, NEW f \in Cards!MaskFunctions, Cards!PunchFunction(mode, f)
      PROVE  PunchFits(punch', held', cardSent'.cards)
  <2>1. PICK u : u = Cards!MaskFunction(punch, f)
    OBVIOUS
  <2>2. u \in Punches /\ u.card = punch.card /\ u.lines = punch.lines /\ u.files = punch.files
    BY <1>1, <2>1, MaskPunch
  <2>3. PunchFits(u, held, cardSent.cards)
    BY <1>1, <2>2, SamePunch
  <2>4. punch' = u /\ held' = held /\ cardSent' = cardSent
    BY <1>4, <2>1 DEF Cards!PunchFunction
  <2> QED
    BY <2>3, <2>4
<1>5. CASE Cards!OutputCards
  <2>1. PICK u : u = [punch EXCEPT !.status = Cards!ReadyStatus]
    OBVIOUS
  <2>2. u \in Punches /\ u.card = punch.card /\ u.lines = punch.lines /\ u.files = punch.files
    BY <1>1, <2>1, StatusSets DEF Punches
  <2>3. PunchFits(u, held, cardSent.cards)
    BY <1>1, <2>2, SamePunch
  <2>4. punch' = u /\ held' = held /\ cardSent' = cardSent
    BY <1>5, <2>1 DEF Cards!OutputCards, Cards!still
  <2> QED
    BY <2>3, <2>4
<1>6. ASSUME NEW mode \in {1, 2}, Cards!Release(mode) \/ Cards!Space(mode)
      PROVE  PunchFits(punch', held', cardSent'.cards)
  BY <1>1, <1>2, <1>6, JobsOnly DEF Cards!Release, Cards!Space
<1>7. CASE Cards!PrintWord
  BY <1>1, <1>2, <1>7, JobsOnly DEF Cards!PrintWord
<1>8. CASE Cards!Disconnect
  <2>1. \/ Cards!DisconnectReader \/ Cards!DisconnectPunch \/ Cards!DisconnectPrinter
        \/ UNCHANGED <<punch, cardSent>>
    BY <1>8 DEF Cards!Disconnect
  <2>2. held' = held
    BY <1>8 DEF Cards!Disconnect
  <2>3. CASE Cards!DisconnectReader
    BY <1>2, <2>2, <2>3 DEF Cards!DisconnectReader
  <2>4. CASE Cards!DisconnectPunch
    BY <2>2, <2>4, PunchLeft
  <2>5. CASE Cards!DisconnectPrinter
    BY <1>1, <1>2, <2>2, <2>5, JobsOnly DEF Cards!DisconnectPrinter
  <2> QED
    BY <1>2, <2>1, <2>2, <2>3, <2>4, <2>5
<1>9. ASSUME Cards!ConverterFunctions PROVE PunchRests \/ Cards!OutputCards
  BY <1>9 DEF Cards!ConverterFunctions, PunchRests
<1>10. ASSUME Cards!EquipmentFunctions
       PROVE  \/ PunchRests
              \/ \E mode \in {1, 2} : \/ Cards!Release(mode) \/ Cards!Space(mode)
                                      \/ \E f \in Cards!MaskFunctions : Cards!PunchFunction(mode, f)
  BY <1>10 DEF Cards!EquipmentFunctions, PunchRests
<1>11. ASSUME Cards!Words
       PROVE  PunchRests \/ Cards!PunchWord \/ Cards!PunchTakes \/ Cards!PrintWord
  BY <1>11 DEF Cards!Words, PunchRests
<1>12. CASE Cards!ConverterFunctions
  BY <1>3, <1>5, <1>9, <1>12
<1>13. CASE Cards!EquipmentFunctions
  BY <1>3, <1>4, <1>6, <1>10, <1>13
<1>14. CASE Cards!Words
  BY <1>3, <1>7, <1>11, <1>14, WordPunched, WordOnCard
<1>15. CASE Cards!LoadDeck \/ Cards!UnloadReader \/ Cards!UnloadPrinter
  BY <1>3, <1>15 DEF PunchRests
<1>16. CASE Cards!UnloadPunch
  BY <1>16, FileTaken
<1> QED
  BY <1>8, <1>12, <1>13, <1>14, <1>15, <1>16 DEF Cards!Next

\* The last of a sequence is changed.
Changed(s, x) == [s EXCEPT ![Len(s)] = x]
\* The last job, with an item more.
Said(s, item) == Changed(s, Append(s[Len(s)], item))

\* To change the last element is to put another one in its place.
LEMMA LastChanged ==
    ASSUME NEW R, NEW f, NEW e, NEW x, NEW s, NEW t,
           f \in Seq(R) /\ e \in R /\ x \in R, s = Append(f, e) /\ t = Changed(s, x)
    PROVE  t = Append(f, x)
<1>1. PICK n \in Nat : n = Len(f)
  OBVIOUS
<1>2. s \in Seq(R) /\ Len(s) = n + 1 /\ \A i \in 1 .. n : s[i] = f[i]
  BY <1>1, Longer
<1>3. DOMAIN s = 1 .. n + 1
  BY <1>2
<1>4. t = [s EXCEPT ![n + 1] = x]
  BY <1>2 DEF Changed
<1>5. t \in Seq(R) /\ Len(t) = n + 1 /\ t[n + 1] = x /\ \A i \in 1 .. n : t[i] = s[i]
  <2>1. t = [i \in 1 .. n + 1 |-> IF i = n + 1 THEN x ELSE s[i]]
    BY <1>3, <1>4
  <2>2. \A i \in 1 .. n + 1 : s[i] \in R
    BY <1>2
  <2>a. x \in R
    OBVIOUS
  <2>b. t \in [1 .. n + 1 -> R]
    BY <2>1, <2>2, <2>a
  <2>c. n + 1 \in Nat
    BY <1>1
  <2>3. t \in Seq(R) /\ Len(t) = n + 1
    BY <2>b, <2>c
  <2>4. n + 1 \in 1 .. n + 1 /\ \A i \in 1 .. n : i \in 1 .. n + 1 /\ i # n + 1
    OBVIOUS
  <2>5. t[n + 1] = x /\ \A i \in 1 .. n : t[i] = s[i]
    BY <2>1, <2>4
  <2> QED
    BY <2>3, <2>5
<1>6. PICK l : l = Append(f, x)
  OBVIOUS
<1>7. l \in Seq(R) /\ Len(l) = n + 1 /\ l[n + 1] = x /\ \A i \in 1 .. n : l[i] = f[i]
  BY <1>1, <1>6, Longer
<1>8. \A i \in 1 .. n + 1 : t[i] = l[i]
  <2>1. \A i \in 1 .. n + 1 : i \in 1 .. n \/ i = n + 1
    OBVIOUS
  <2> QED
    BY <1>2, <1>5, <1>7, <2>1
<1>9. t = l
  BY <1>5, <1>7, <1>8, SameSequence
<1> QED
  BY <1>6, <1>9

\* A sequence that is not empty has a last element.
LEMMA LastOf ==
    ASSUME NEW R, NEW s \in Seq(R), s # <<>>
    PROVE  \E f \in Seq(R), e \in R : s = Append(f, e) /\ e = s[Len(s)]
<1>1. PICK n \in Nat : Len(s) = n + 1
  <2>1. Len(s) \in Nat /\ Len(s) # 0
    OBVIOUS
  <2>2. Len(s) - 1 \in Nat /\ Len(s) = (Len(s) - 1) + 1
    BY <2>1
  <2> QED
    BY <2>2
<1>2. n < Len(s)
  BY <1>1
<1>3. /\ SubSeq(s, 1, n) \in Seq(R) /\ s[n + 1] \in R
      /\ SubSeq(s, 1, n + 1) = Append(SubSeq(s, 1, n), s[n + 1])
  BY <1>2, FirstRecords
<1>4. SubSeq(s, 1, n + 1) = s
  <2>1. SubSeq(s, 1, n + 1) \in Seq(R) /\ Len(SubSeq(s, 1, n + 1)) = n + 1
        /\ \A i \in 1 .. n + 1 : SubSeq(s, 1, n + 1)[i] = s[i]
    BY <1>1
  <2> QED
    BY <1>1, <2>1, SameSequence
<1> QED
  BY <1>1, <1>3, <1>4

\* An item more is printed.
LEMMA ItemPrinted ==
    ASSUME NEW l, NEW j, NEW sp, NEW item \in Items, NEW u, NEW k, PrinterFits(l, j, sp), u \in Printers,
           u.files = l.files, u.lines = Append(l.lines, item),
           k = Said(j, item)
    PROVE  PrinterFits(u, k, sp)
<1> DEFINE Q == Seq(Items)
<1>1. /\ l.files \in Seq(Q) /\ l.lines \in Q /\ j \in Seq(Q) /\ j # <<>>
      /\ Old!FlatRecords(Append(l.files, l.lines)) = Old!FlatRecords(j)
      /\ sp => Append(l.files, l.lines) = j
  BY DEF PrinterFits, Printers
<1> HIDE DEF Q
<1>2. PICK f \in Seq(Q), e \in Q : j = Append(f, e) /\ e = j[Len(j)]
  BY <1>1, LastOf
<1>3. PICK ee : ee = Append(e, item)
  OBVIOUS
<1>4. ee \in Q
  <2>1. e \in Seq(Items)
    BY DEF Q
  <2>2. ee \in Seq(Items)
    BY <1>3, <2>1, Grown
  <2> QED
    BY <2>2 DEF Q
<1>5. k = Changed(j, ee)
  BY <1>2, <1>3 DEF Said
<1>6. k = Append(f, ee)
  <2>1. f \in Seq(Q) /\ e \in Q /\ ee \in Q
    BY <1>2, <1>4
  <2>2. j = Append(f, e) /\ k = Changed(j, ee)
    BY <1>2, <1>5
  <2> QED
    BY <2>1, <2>2, LastChanged
<1>7. PICK ll : ll = Append(l.lines, item)
  OBVIOUS
<1>8. ll \in Q
  <2>1. l.lines \in Seq(Items)
    BY <1>1 DEF Q
  <2>2. ll \in Seq(Items)
    BY <1>7, <2>1, Grown
  <2> QED
    BY <2>2 DEF Q
<1>9. PICK a : a = Old!FlatRecords(l.files)
  OBVIOUS
<1>10. PICK b : b = Old!FlatRecords(f)
  OBVIOUS
<1>11. a \in Seq(Items) /\ b \in Seq(Items)
  BY <1>1, <1>2, <1>9, <1>10, RecordsType DEF Q
<1>12. /\ Old!FlatRecords(Append(l.files, l.lines)) = a \o l.lines
       /\ Old!FlatRecords(Append(l.files, ll)) = a \o ll
       /\ Old!FlatRecords(j) = b \o e /\ Old!FlatRecords(k) = b \o ee
  <2>1. Old!FlatRecords(Append(l.files, l.lines)) = Old!FlatRecords(l.files) \o l.lines
    BY <1>1, RecordsGrow
  <2>2. Old!FlatRecords(Append(l.files, ll)) = Old!FlatRecords(l.files) \o ll
    BY <1>1, <1>8, RecordsGrow
  <2>3. Old!FlatRecords(Append(f, e)) = Old!FlatRecords(f) \o e
    BY <1>2, RecordsGrow
  <2>4. Old!FlatRecords(Append(f, ee)) = Old!FlatRecords(f) \o ee
    BY <1>2, <1>4, RecordsGrow
  <2> QED
    BY <1>2, <1>6, <1>9, <1>10, <2>1, <2>2, <2>3, <2>4
<1>13. PICK r : r = a \o l.lines
  OBVIOUS
<1>14. r = b \o e
  BY <1>1, <1>12, <1>13
<1>15. a \o ll = Append(r, item)
  <2>1. PICK ln : ln = l.lines
    OBVIOUS
  <2>2. a \in Seq(Items) /\ ln \in Seq(Items) /\ item \in Items
    BY <1>1, <1>11, <2>1 DEF Q
  <2>3. ll = Append(ln, item) /\ r = a \o ln
    BY <1>7, <1>13, <2>1
  <2>4. a \o ll = Append(r, item)
    BY <2>2, <2>3, OneMore
  <2> QED
    BY <2>4
<1>16. b \o ee = Append(r, item)
  <2>1. b \in Seq(Items) /\ e \in Seq(Items) /\ item \in Items
    BY <1>2, <1>11 DEF Q
  <2>2. ee = Append(e, item) /\ r = b \o e
    BY <1>3, <1>14
  <2> QED
    BY <2>1, <2>2, OneMore
<1>17. ASSUME sp PROVE Append(l.files, ll) = k
  <2>1. PICK g : g = l.files
    OBVIOUS
  <2>2. PICK ln : ln = l.lines
    OBVIOUS
  <2>3. g \in Seq(Q) /\ ln \in Q /\ ll \in Q
    BY <1>1, <1>8, <2>1, <2>2
  <2>4. j = Append(g, ln)
    BY <1>1, <1>17, <2>1, <2>2
  <2>5. e = ln
    <3>1. j[Len(j)] = ln
      BY <2>3, <2>4
    <3> QED
      BY <1>2, <3>1
  <2>6. k = Changed(j, ll)
    BY <1>3, <1>5, <1>7, <2>2, <2>5
  <2>7. k = Append(g, ll)
    <3>1. j = Append(g, ln) /\ k = Changed(j, ll)
      BY <2>4, <2>6
    <3> QED
      BY <2>3, <3>1, LastChanged
  <2> QED
    BY <2>1, <2>7
<1>18. k \in Seq(Q) /\ k # <<>>
  <2>1. PICK n \in Nat : n = Len(f)
    BY <1>2
  <2>2. k \in Seq(Q) /\ Len(k) = n + 1
    <3>1. f \in Seq(Q) /\ ee \in Q /\ k = Append(f, ee) /\ n = Len(f)
      BY <1>2, <1>4, <1>6, <2>1
    <3> QED
      BY <3>1, Longer
  <2> QED
    BY <2>2
<1>19. u.files = l.files /\ u.lines = ll
  BY <1>7
<1>20. Old!FlatRecords(Append(u.files, u.lines)) = Old!FlatRecords(k)
  BY <1>12, <1>15, <1>16, <1>19
<1> QED
  BY <1>17, <1>18, <1>19, <1>20 DEF PrinterFits, Q

\* What does not touch the paper.
LEMMA SamePaper ==
    ASSUME NEW l, NEW j, NEW sp, NEW u, PrinterFits(l, j, sp), u \in Printers,
           u.lines = l.lines, u.files = l.files
    PROVE  PrinterFits(u, j, sp)
BY DEF PrinterFits

\* An empty record more.
LEMMA EmptyRecord ==
    ASSUME NEW s \in Seq(Seq(Items))
    PROVE  /\ Append(s, <<>>) \in Seq(Seq(Items)) /\ Append(s, <<>>) # <<>>
           /\ Old!FlatRecords(Append(s, <<>>)) = Old!FlatRecords(s)
<1> DEFINE Q == Seq(Items)
<1>1. <<>> \in Q /\ s \in Seq(Q)
  OBVIOUS
<1>2. Old!FlatRecords(s) \in Seq(Items)
  BY RecordsType
<1> HIDE DEF Q
<1>3. Old!FlatRecords(Append(s, <<>>)) = Old!FlatRecords(s) \o <<>>
  BY <1>1, RecordsGrow
<1>4. Old!FlatRecords(s) \o <<>> = Old!FlatRecords(s)
  BY <1>2, Nothing
<1>5. Append(s, <<>>) \in Seq(Q) /\ Append(s, <<>>) # <<>>
  BY <1>1, OneBehind
<1> QED
  BY <1>3, <1>4, <1>5 DEF Q

\* The file is renamed and another opened: without separate files at any time, with separate
\* files when a job ends.
LEMMA PaperUnloads ==
    ASSUME NEW l, NEW j, NEW sp, PrinterFits(l, j, sp)
    PROVE  /\ ~sp => PrinterFits(Cards!Unloaded(l), j, sp)
           /\ PrinterFits(Cards!Unloaded(l), Append(j, <<>>), sp)
<1> DEFINE Q == Seq(Items)
<1>1. /\ l \in Printers /\ l.files \in Seq(Q) /\ l.lines \in Q /\ j \in Seq(Q) /\ j # <<>>
      /\ Old!FlatRecords(Append(l.files, l.lines)) = Old!FlatRecords(j)
      /\ sp => Append(l.files, l.lines) = j
      /\ <<>> \in Q
  BY DEF PrinterFits, Printers
<1> HIDE DEF Q
<1>2. PICK fs : fs = Append(l.files, l.lines)
  OBVIOUS
<1>3. fs \in Seq(Q)
  BY <1>1, <1>2, Grown
<1>4. PICK e : e = <<>>
  OBVIOUS
<1>5. PICK u : u = [l EXCEPT !.files = fs, !.lines = e]
  OBVIOUS
<1>6. u \in Printers /\ u.files = fs /\ u.lines = e
  <2>1. e \in Q
    BY <1>1, <1>4
  <2> QED
    BY <1>1, <1>3, <1>5, <2>1 DEF Printers, Q
<1>7. Cards!Unloaded(l) = u
  BY <1>2, <1>4, <1>5 DEF Cards!Unloaded
<1>8. /\ Old!FlatRecords(Append(fs, <<>>)) = Old!FlatRecords(fs)
      /\ Append(j, <<>>) \in Seq(Seq(Items)) /\ Append(j, <<>>) # <<>>
      /\ Old!FlatRecords(Append(j, <<>>)) = Old!FlatRecords(j)
  BY <1>1, <1>3, EmptyRecord DEF Q
<1>9. /\ Old!FlatRecords(Append(u.files, u.lines)) = Old!FlatRecords(j)
      /\ Append(u.files, u.lines) = Append(fs, <<>>)
  BY <1>1, <1>2, <1>4, <1>6, <1>8
<1>10. ~sp => PrinterFits(u, j, sp)
  BY <1>1, <1>6, <1>9 DEF PrinterFits, Q
<1>11. sp => Append(fs, <<>>) = Append(j, <<>>)
  BY <1>1, <1>2
<1>12. PrinterFits(u, Append(j, <<>>), sp)
  BY <1>6, <1>8, <1>9, <1>11 DEF PrinterFits
<1> QED
  BY <1>7, <1>10, <1>12

\* A job ends without a new file.
LEMMA JobEnds ==
    ASSUME NEW l, NEW j, NEW sp, PrinterFits(l, j, sp), ~sp
    PROVE  PrinterFits(l, Append(j, <<>>), sp)
<1>1. /\ l \in Printers /\ j \in Seq(Seq(Items))
      /\ Old!FlatRecords(Append(l.files, l.lines)) = Old!FlatRecords(j)
  BY DEF PrinterFits
<1>2. /\ Append(j, <<>>) \in Seq(Seq(Items)) /\ Append(j, <<>>) # <<>>
      /\ Old!FlatRecords(Append(j, <<>>)) = Old!FlatRecords(j)
  BY <1>1, EmptyRecord
<1> QED
  BY <1>1, <1>2 DEF PrinterFits

\* The printer and the jobs have their types.
LEMMA PrinterTypes ==
    ASSUME NEW l, NEW j, NEW sp, PrinterFits(l, j, sp)
    PROVE  /\ l \in Printers /\ l.lines \in Seq(Items) /\ l.files \in Seq(Seq(Items))
           /\ j \in Seq(Seq(Items)) /\ j # <<>>
BY DEF PrinterFits, Printers

\* What is printed belongs to the last job.
LEMMA JobSaid ==
    ASSUME SentType, NEW item, Cards!Say(item)
    PROVE  cardSent'.jobs = Said(cardSent.jobs, item) /\ cardSent'.cards = cardSent.cards
BY DEF SentType, Cards!Say, Said, Changed

\* A line or a space that comes to the file comes to the last job too.
LEMMA Printed ==
    ASSUME UnitInv, NEW item \in Items, Cards!Say(item), printer'.lines = Append(printer.lines, item),
           printer'.files = printer.files, printer' \in Printers, cardPlan'.separate = cardPlan.separate
    PROVE  PrinterFits(printer', cardSent'.jobs, cardPlan'.separate)
<1>1. PrinterFits(printer, cardSent.jobs, cardPlan.separate) /\ SentType
  BY DEF UnitInv, SentType
<1>2. cardSent'.jobs = Said(cardSent.jobs, item)
  BY <1>1, JobSaid
<1> QED
  BY <1>1, <1>2, ItemPrinted

\* The plan loses words and decks only.
LEMMA WordOff ==
    ASSUME cardPlan \in UnitPlans, Cards!AWord
    PROVE  cardPlan' \in UnitPlans /\ cardPlan'.separate = cardPlan.separate
           /\ cardPlan'.parts = cardPlan.parts /\ cardPlan'.interrupts = cardPlan.interrupts
<1>1. cardPlan.words - 1 \in Nat
  BY DEF Cards!AWord, UnitPlans
<1> QED
  BY <1>1 DEF Cards!AWord, UnitPlans

\* To load a deck changes nothing else in the plan.
LEMMA DeckOff ==
    ASSUME cardPlan \in UnitPlans, Cards!LoadDeck
    PROVE  cardPlan' \in UnitPlans /\ cardPlan'.separate = cardPlan.separate
           /\ cardPlan'.parts = cardPlan.parts /\ cardPlan'.interrupts = cardPlan.interrupts
<1>1. cardPlan.decks \in Seq(Decked) /\ cardPlan.decks # <<>>
  BY DEF Cards!LoadDeck, UnitPlans
<1>2. Tail(cardPlan.decks) \in Seq(Decked)
  BY <1>1, TailOf
<1> QED
  BY <1>2 DEF Cards!LoadDeck, UnitPlans

\* Nor does any other step.
LEMMA PlanKeeps ==
    ASSUME cardPlan \in UnitPlans, Cards!Next
    PROVE  cardPlan' \in UnitPlans /\ cardPlan'.separate = cardPlan.separate
           /\ cardPlan'.parts = cardPlan.parts /\ cardPlan'.interrupts = cardPlan.interrupts
<1>1. CASE Cards!LoadDeck
  BY <1>1, DeckOff
<1>2. CASE Cards!Words
  BY <1>2, WordOff
     DEF Cards!Words, Cards!ReadWord, Cards!CardEnd, Cards!NoCards, Cards!PunchWord, Cards!PunchTakes,
         Cards!PrintWord, Cards!Polled, Cards!CardMoved, Cards!still
<1>3. CASE Cards!Disconnect \/ Cards!UnloadReader \/ Cards!UnloadPunch \/ Cards!UnloadPrinter
  BY <1>3 DEF Cards!Disconnect, Cards!UnloadReader, Cards!UnloadPunch, Cards!UnloadPrinter
<1>4. CASE Cards!ConverterFunctions
  BY <1>4, WordOff
     DEF Cards!ConverterFunctions, Cards!SelectConverter, Cards!Input, Cards!Connect, Cards!MasterClear,
         Cards!Rejected, Cards!DccStatus, Cards!StatusRequest, Cards!OutputCards, Cards!OutputLine, Cards!still
<1>5. CASE Cards!EquipmentFunctions
  <2>1. PICK mode \in {1, 2} :
           \/ \E f \in Cards!MaskFunctions : Cards!ReaderFunction(mode, f) \/ Cards!PunchFunction(mode, f)
           \/ \E c \in {"ready", "end"}, on \in BOOLEAN : Cards!PrinterInterrupts(mode, c, on)
           \/ Cards!Release(mode) \/ Cards!Space(mode) \/ Cards!FillMemory(mode)
    BY <1>5 DEF Cards!EquipmentFunctions
  <2> QED
    BY <2>1, WordOff
       DEF Cards!ReaderFunction, Cards!PunchFunction, Cards!PrinterInterrupts, Cards!Release, Cards!Space,
           Cards!FillMemory
<1> QED
  BY <1>1, <1>2, <1>3, <1>4, <1>5 DEF Cards!Next

\* The interrupts of the printer.
LEMMA PrinterSelects ==
    ASSUME NEW l \in Printers, NEW c \in {"ready", "end"}, NEW on \in BOOLEAN, NEW u,
           u = IF on THEN Cards!Select(l, c)
               ELSE [l EXCEPT !.enabled = @ \ {c}, !.int = @ \ {c}]
    PROVE  u \in Printers /\ u.lines = l.lines /\ u.files = l.files
<1>1. /\ l.int \in SUBSET {"ready", "end"} /\ l.enabled \in SUBSET {"ready", "end"}
  BY DEF Printers
<1>2. /\ l.int \cup {c} \in SUBSET {"ready", "end"} /\ l.enabled \cup {c} \in SUBSET {"ready", "end"}
      /\ l.int \ {c} \in SUBSET {"ready", "end"} /\ l.enabled \ {c} \in SUBSET {"ready", "end"}
  BY <1>1
<1>3. CASE on
  BY <1>2, <1>3 DEF Cards!Select, Printers
<1>4. CASE ~on
  BY <1>2, <1>4 DEF Printers
<1> QED
  BY <1>3, <1>4

\* The printer prints a line.
LEMMA WordPrinted == ASSUME UnitInv, Cards!PrintWord, cardPlan'.separate = cardPlan.separate
                     PROVE  PrinterFits(printer', cardSent'.jobs, cardPlan'.separate)
<1>1. PrinterFits(printer, cardSent.jobs, cardPlan.separate) /\ printer \in Printers
      /\ printer.lines \in Seq(Items)
  BY PrinterTypes DEF UnitInv
<1>2. PICK item \in Items : item = <<"word", cardPlan.words>>
  <2>1. cardPlan.words \in Nat
    BY DEF UnitInv, UnitFlow, UnitPlans
  <2> QED
    BY <2>1 DEF Items
<1>3. CASE cardFcode = "fill"
  BY <1>1, <1>3 DEF Cards!PrintWord
<1>4. CASE cardFcode # "fill"
  <2>1. PICK k : k = Append(printer.lines, item)
    OBVIOUS
  <2>2. k \in Seq(Items)
    BY <1>1, <2>1, Grown
  <2>3. printer' = [printer EXCEPT !.lines = k, !.printed = TRUE, !.keepInt = TRUE] /\ Cards!Say(item)
    BY <1>2, <1>4, <2>1 DEF Cards!PrintWord
  <2>4. printer' \in Printers /\ printer'.lines = k /\ printer'.files = printer.files
    BY <1>1, <2>2, <2>3 DEF Printers
  <2> QED
    BY <2>1, <2>3, <2>4, Printed
<1> QED
  BY <1>3, <1>4

\* The paper moves.
LEMMA LineSpaced ==
    ASSUME UnitInv, NEW item \in Items, Cards!Say(item),
           printer' = [printer EXCEPT !.lines = Append(@, item)], cardPlan'.separate = cardPlan.separate
    PROVE  PrinterFits(printer', cardSent'.jobs, cardPlan'.separate)
<1>1. printer \in Printers /\ printer.lines \in Seq(Items)
  BY PrinterTypes DEF UnitInv
<1>2. PICK k : k = Append(printer.lines, item)
  OBVIOUS
<1>3. k \in Seq(Items)
  BY <1>1, <1>2, Grown
<1>4. printer' = [printer EXCEPT !.lines = k]
  BY <1>2
<1>5. printer' \in Printers /\ printer'.lines = k /\ printer'.files = printer.files
  BY <1>1, <1>3, <1>4 DEF Printers
<1> QED
  BY <1>2, <1>5, Printed

\* A release puts the file aside and starts a job with separate files, and else goes on with it.
LEMMA JobReleased == ASSUME UnitInv, NEW mode, Cards!Release(mode)
                     PROVE  PrinterFits(printer', cardSent'.jobs, cardPlan'.separate)
<1>1. PrinterFits(printer, cardSent.jobs, cardPlan.separate) /\ printer \in Printers /\ SentType
  BY PrinterTypes DEF UnitInv, SentType
<1>2. PICK u : u = [printer EXCEPT !.int = {}, !.printed = FALSE]
  OBVIOUS
<1>3. u \in Printers /\ u.lines = printer.lines /\ u.files = printer.files
  BY <1>1, <1>2 DEF Printers
<1>4. PrinterFits(u, cardSent.jobs, cardPlan.separate)
  BY <1>1, <1>3, SamePaper
<1>5. /\ printer' = IF printer.printed /\ cardPlan.separate THEN Cards!Unloaded(u) ELSE u
      /\ cardSent' = IF printer.printed THEN [cardSent EXCEPT !.jobs = Append(@, <<>>)] ELSE cardSent
      /\ cardPlan' = cardPlan
  BY <1>2 DEF Cards!Release
<1>6. CASE ~printer.printed
  BY <1>4, <1>5, <1>6
<1>7. CASE printer.printed
  <2>1. cardSent'.jobs = Append(cardSent.jobs, <<>>)
    BY <1>1, <1>5, <1>7 DEF SentType
  <2>2. CASE cardPlan.separate
    BY <1>4, <1>5, <1>7, <2>1, <2>2, PaperUnloads
  <2>3. CASE ~cardPlan.separate
    BY <1>4, <1>5, <2>1, <2>3, JobEnds
  <2> QED
    BY <2>2, <2>3
<1> QED
  BY <1>6, <1>7

\* Steps that leave the printer alone print nothing.
LEMMA PrinterStays == ASSUME PrinterRests PROVE UNCHANGED <<printer, cardSent>>
<1>1. CASE \E on \in BOOLEAN : Cards!SelectConverter(on) \/ Cards!Input(on)
  BY <1>1 DEF Cards!SelectConverter, Cards!Input, Cards!still
<1>2. CASE \E e \in Cards!Equipment : (\E mode \in {1, 2} : Cards!Connect(mode, e)) \/ Cards!CardMoved(e)
  BY <1>2 DEF Cards!Connect, Cards!CardMoved, Cards!still
<1>p. CASE Cards!DccStatus \/ Cards!Polled
  BY <1>p DEF Cards!DccStatus, Cards!Polled, Cards!still
<1>3. CASE Cards!MasterClear \/ Cards!Rejected \/ Cards!StatusRequest \/ Cards!OutputCards
  BY <1>3 DEF Cards!MasterClear, Cards!Rejected, Cards!StatusRequest, Cards!OutputCards, Cards!still
<1>4. CASE Cards!ReadWord \/ Cards!CardEnd \/ Cards!NoCards \/ Cards!PunchTakes
  BY <1>4 DEF Cards!ReadWord, Cards!CardEnd, Cards!NoCards, Cards!PunchTakes, Cards!still
<1>5. CASE Cards!LoadDeck \/ Cards!UnloadReader \/ Cards!UnloadPunch
  BY <1>5 DEF Cards!LoadDeck, Cards!UnloadReader, Cards!UnloadPunch
<1>6. ASSUME NEW mode \in {1, 2}, NEW f \in Cards!MaskFunctions,
             Cards!ReaderFunction(mode, f) \/ Cards!PunchFunction(mode, f)
      PROVE  UNCHANGED <<printer, cardSent>>
  BY <1>6 DEF Cards!ReaderFunction, Cards!PunchFunction
<1> QED
  BY <1>1, <1>2, <1>p, <1>3, <1>4, <1>5, <1>6 DEF PrinterRests

\* What was given to the printer is in its files, job by job, whatever the step.
LEMMA PrinterKeeps ==
    ASSUME UnitInv, Cards!Next PROVE PrinterFits(printer', cardSent'.jobs, cardPlan'.separate)
<1>1. PrinterFits(printer, cardSent.jobs, cardPlan.separate) /\ printer \in Printers /\ SentType
  BY PrinterTypes DEF UnitInv, SentType
<1>2. cardPlan'.separate = cardPlan.separate
  BY PlanKeeps DEF UnitInv, UnitFlow
<1>3. ASSUME UNCHANGED printer, cardSent'.jobs = cardSent.jobs
      PROVE  PrinterFits(printer', cardSent'.jobs, cardPlan'.separate)
  BY <1>1, <1>2, <1>3
<1>4. CASE PrinterRests
  BY <1>3, <1>4, PrinterStays
<1>5. ASSUME NEW u \in Printers, printer' = u, u.lines = printer.lines, u.files = printer.files,
             UNCHANGED cardSent
      PROVE  PrinterFits(printer', cardSent'.jobs, cardPlan'.separate)
  <2>1. PrinterFits(u, cardSent.jobs, cardPlan.separate)
    BY <1>1, <1>5, SamePaper
  <2> QED
    BY <1>2, <1>5, <2>1
<1>6. CASE Cards!OutputLine
  <2>1. PICK u : u = [printer EXCEPT !.fill = FALSE, !.int = printer.enabled]
    OBVIOUS
  <2>2. u \in Printers /\ u.lines = printer.lines /\ u.files = printer.files
    BY <1>1, <2>1 DEF Printers
  <2>3. printer' = u /\ UNCHANGED cardSent
    BY <1>6, <2>1 DEF Cards!OutputLine
  <2> QED
    BY <1>5, <2>2, <2>3
<1>7. ASSUME NEW mode \in {1, 2}, NEW c \in {"ready", "end"}, NEW on \in BOOLEAN,
             Cards!PrinterInterrupts(mode, c, on)
      PROVE  PrinterFits(printer', cardSent'.jobs, cardPlan'.separate)
  <2>1. PICK u : u = IF on THEN Cards!Select(printer, c)
                     ELSE [printer EXCEPT !.enabled = @ \ {c}, !.int = @ \ {c}]
    OBVIOUS
  <2>2. u \in Printers /\ u.lines = printer.lines /\ u.files = printer.files
    BY <1>1, <2>1, PrinterSelects
  <2>3. printer' = u /\ UNCHANGED cardSent
    BY <1>7, <2>1 DEF Cards!PrinterInterrupts
  <2> QED
    BY <1>5, <2>2, <2>3
<1>8. ASSUME NEW mode \in {1, 2}, Cards!FillMemory(mode)
      PROVE  PrinterFits(printer', cardSent'.jobs, cardPlan'.separate)
  <2>1. PICK u : u = [printer EXCEPT !.fill = TRUE]
    OBVIOUS
  <2>2. u \in Printers /\ u.lines = printer.lines /\ u.files = printer.files
    BY <1>1, <2>1 DEF Printers
  <2>3. printer' = u /\ UNCHANGED cardSent
    BY <1>8, <2>1 DEF Cards!FillMemory
  <2> QED
    BY <1>5, <2>2, <2>3
<1>9. /\ <<"space", 0>> \in Items /\ <<"line", 0>> \in Items
  BY DEF Items
<1>10. ASSUME NEW mode \in {1, 2}, Cards!Space(mode)
       PROVE  PrinterFits(printer', cardSent'.jobs, cardPlan'.separate)
  BY <1>2, <1>9, <1>10, LineSpaced DEF Cards!Space
<1>11. CASE Cards!PunchWord
  BY <1>1, <1>3, <1>11 DEF Cards!PunchWord, SentType
<1>12. CASE Cards!Disconnect
  <2>1. \/ Cards!DisconnectReader \/ Cards!DisconnectPunch \/ Cards!DisconnectPrinter
        \/ UNCHANGED <<printer, cardSent>>
    BY <1>12 DEF Cards!Disconnect
  <2>2. CASE Cards!DisconnectReader \/ Cards!DisconnectPunch
    BY <1>3, <2>2 DEF Cards!DisconnectReader, Cards!DisconnectPunch
  <2>3. CASE Cards!DisconnectPrinter
    BY <1>2, <1>3, <1>9, <2>3, LineSpaced DEF Cards!DisconnectPrinter
  <2> QED
    BY <1>3, <2>1, <2>2, <2>3
<1>13. CASE Cards!UnloadPrinter
  BY <1>1, <1>13, PaperUnloads DEF Cards!UnloadPrinter
<1>14. ASSUME Cards!ConverterFunctions PROVE PrinterRests \/ Cards!OutputLine
  BY <1>14 DEF Cards!ConverterFunctions, PrinterRests
<1>15. ASSUME Cards!EquipmentFunctions
       PROVE  \/ PrinterRests
              \/ \E mode \in {1, 2} :
                    \/ Cards!Release(mode) \/ Cards!Space(mode) \/ Cards!FillMemory(mode)
                    \/ \E c \in {"ready", "end"}, on \in BOOLEAN : Cards!PrinterInterrupts(mode, c, on)
  BY <1>15 DEF Cards!EquipmentFunctions, PrinterRests
<1>16. ASSUME Cards!Words PROVE PrinterRests \/ Cards!PunchWord \/ Cards!PrintWord
  BY <1>16 DEF Cards!Words, PrinterRests
<1>17. CASE Cards!ConverterFunctions
  BY <1>4, <1>6, <1>14, <1>17
<1>18. CASE Cards!EquipmentFunctions
  BY <1>4, <1>7, <1>8, <1>10, <1>15, <1>18, JobReleased
<1>19. CASE Cards!Words
  BY <1>2, <1>4, <1>11, <1>16, <1>19, WordPrinted
<1>20. CASE Cards!LoadDeck \/ Cards!UnloadReader \/ Cards!UnloadPunch
  BY <1>4, <1>20 DEF PrinterRests
<1> QED
  BY <1>12, <1>13, <1>17, <1>18, <1>19, <1>20 DEF Cards!Next

\* What is connected changes between transfers only.
LEMMA FlowTypes ==
    ASSUME UnitFlow
    PROVE  /\ converter \in Converters
           /\ cardPlan \in UnitPlans
BY DEF UnitFlow

\* A function that is accepted connects nothing else.
LEMMA Accepted ==
    ASSUME UnitFlow, NEW mode, Cards!Accepts(mode)
    PROVE  /\ converter' \in Converters
           /\ converter'.connected = converter.connected
           /\ cardFcode' \in {cardFcode, "word"}
<1>1. CASE mode = 1
  BY <1>1, FlowTypes DEF Cards!Accepts, Converters
<1>2. CASE mode # 1
  BY <1>2, FlowTypes DEF Cards!Accepts, Converters
<1> QED
  BY <1>1, <1>2

\* A step that keeps the connected equipment, and starts no transfer with another one.
FlowStep ==
    /\ converter' \in Converters /\ converter'.connected = converter.connected
    /\ \/ cardFcode' = cardFcode
       \/ cardFcode' \in {"none", "word", "dccStatus", "status"}
       \/ cardFcode' \in {"input", "inputToEor"} /\ converter.connected = "cr"
       \/ cardFcode' = "punch" /\ converter.connected = "cp"
       \/ cardFcode' \in {"print", "fill"} /\ converter.connected = "lp"
    /\ held' # <<>> => cardFcode' = "punch"

\* Such a step keeps transfers with the connected equipment.
LEMMA FlowStays ==
    ASSUME UnitFlow, cardPlan' \in UnitPlans, cardPlan'.parts = cardPlan.parts, FlowStep
    PROVE  UnitFlow'
BY DEF UnitFlow, FlowStep

\* So do the functions of the equipment, ...
LEMMA EquipmentFlow == ASSUME UnitFlow, Cards!EquipmentFunctions, cardPlan' \in UnitPlans,
                              cardPlan'.parts = cardPlan.parts
                       PROVE  UnitFlow'
<1>1. PICK mode \in {1, 2} : Cards!Accepts(mode) /\ UNCHANGED held /\ cardFcode = "none"
  BY DEF Cards!EquipmentFunctions, Cards!ReaderFunction, Cards!PunchFunction,
         Cards!PrinterInterrupts, Cards!Release, Cards!Space, Cards!FillMemory, Cards!Idle, Cards!None
<1>2. held' # <<>> => cardFcode' = "punch"
  BY <1>1 DEF UnitFlow
<1>f. FlowStep
  BY <1>1, <1>2, Accepted DEF FlowStep
<1> QED
  BY <1>f, FlowStays

\* ... those of the converter, ...
LEMMA ConverterFlow == ASSUME UnitFlow, Cards!ConverterFunctions, cardPlan' \in UnitPlans,
                              cardPlan'.parts = cardPlan.parts
                       PROVE  UnitFlow'
<1>0. /\ converter \in Converters
      /\ held # <<>> => cardFcode = "punch"
      /\ converter.connected \in cardPlan.parts \cup {"none"}
  BY DEF UnitFlow
<1>1. ASSUME NEW on \in BOOLEAN, Cards!SelectConverter(on) PROVE UnitFlow'
  <2>1. converter' = [converter EXCEPT !.selected = on, !.status = "ready"] /\ UNCHANGED <<cardFcode, held>>
    BY <1>1 DEF Cards!SelectConverter, Cards!still
  <2>2. /\ converter' \in Converters
        /\ converter'.connected = converter.connected
    BY <1>0, <2>1 DEF Converters
  <2>f. FlowStep
    BY <1>0, <2>1, <2>2 DEF FlowStep
  <2> QED
    BY <1>0, <2>f, FlowStays
<1>2. ASSUME NEW on \in BOOLEAN, Cards!Input(on) PROVE UnitFlow'
  <2>1. /\ UNCHANGED <<converter, held>> /\ converter.connected = "cr" /\ cardFcode = "none"
        /\ cardFcode' \in {"input", "inputToEor"}
    BY <1>2 DEF Cards!Input, Cards!still, Cards!Idle, Cards!Connected, Cards!None
  <2>2. held' = <<>>
    BY <1>0, <2>1
  <2>f. FlowStep
    BY <1>0, <2>1, <2>2 DEF FlowStep
  <2> QED
    BY <1>0, <2>f, FlowStays
<1>3. ASSUME NEW mode \in {1, 2}, NEW e \in {"cr", "cp", "lp"}, Cards!Connect(mode, e) PROVE UnitFlow'
  <2>1. /\ UNCHANGED held /\ cardFcode = "none" /\ cardFcode' \in {"none", "word"}
        /\ converter' = IF e \in cardPlan.parts
                        THEN [converter EXCEPT !.connected = e, !.status = "ready"]
                        ELSE [converter EXCEPT !.connected = "none", !.status = "reject"]
    BY <1>3 DEF Cards!Connect, Cards!still, Cards!Idle, Cards!None
  <2>2. /\ converter' \in Converters
        /\ converter'.connected \in cardPlan.parts \cup {"none"}
    BY <1>0, <2>1 DEF Converters
  <2> QED
    BY <1>0, <2>1, <2>2 DEF UnitFlow
<1>4. CASE Cards!MasterClear
  <2>1. /\ UNCHANGED <<cardFcode, held>> /\ cardFcode = "none"
        /\ converter' = [converter EXCEPT !.status = "ready", !.connected = "none"]
    BY <1>4 DEF Cards!MasterClear, Cards!still, Cards!Idle, Cards!None
  <2>2. /\ converter' \in Converters
        /\ converter'.connected = "none"
    BY <1>0, <2>1 DEF Converters
  <2> QED
    BY <1>0, <2>1, <2>2 DEF UnitFlow
<1>5. CASE Cards!Rejected
  <2>1. converter' = [converter EXCEPT !.status = "reject"] /\ UNCHANGED <<cardFcode, held>>
    BY <1>5 DEF Cards!Rejected, Cards!still
  <2>2. /\ converter' \in Converters
        /\ converter'.connected = converter.connected
    BY <1>0, <2>1 DEF Converters
  <2>f. FlowStep
    BY <1>0, <2>1, <2>2 DEF FlowStep
  <2> QED
    BY <1>0, <2>f, FlowStays
<1>6. CASE Cards!DccStatus \/ Cards!StatusRequest
  <2>1. /\ UNCHANGED held /\ cardFcode' \in {"dccStatus", "status"} /\ cardFcode = "none"
        /\ converter' \in {converter, [converter EXCEPT !.status = "reject"]}
    BY <1>6 DEF Cards!DccStatus, Cards!StatusRequest, Cards!still, Cards!Idle, Cards!None
  <2>2. held' = <<>>
    BY <1>0, <2>1
  <2>3. converter' \in Converters /\ converter'.connected = converter.connected
    BY <1>0, <2>1 DEF Converters
  <2>f. FlowStep
    BY <1>0, <2>1, <2>2, <2>3 DEF FlowStep
  <2> QED
    BY <1>0, <2>f, FlowStays
<1>7. CASE Cards!OutputCards
  <2>1. /\ UNCHANGED <<converter, held>> /\ converter.connected = "cp" /\ cardFcode' = "punch"
    BY <1>7 DEF Cards!OutputCards, Cards!still, Cards!Connected
  <2>f. FlowStep
    BY <1>0, <2>1 DEF FlowStep
  <2> QED
    BY <1>0, <2>f, FlowStays
<1>8. CASE Cards!OutputLine
  <2>1. /\ UNCHANGED <<converter, held>> /\ converter.connected = "lp" /\ cardFcode = "none"
        /\ cardFcode' \in {"print", "fill"}
    BY <1>8 DEF Cards!OutputLine, Cards!Idle, Cards!Connected, Cards!None
  <2>2. held' = <<>>
    BY <1>0, <2>1
  <2>f. FlowStep
    BY <1>0, <2>1, <2>2 DEF FlowStep
  <2> QED
    BY <1>0, <2>f, FlowStays
<1> QED
  BY <1>1, <1>2, <1>3, <1>4, <1>5, <1>6, <1>7, <1>8 DEF Cards!ConverterFunctions, Cards!Equipment

\* ... the words that are read and written, ...
LEMMA WordsFlow == ASSUME UnitFlow, Cards!Words, cardPlan' \in UnitPlans,
                          cardPlan'.parts = cardPlan.parts
                   PROVE  UnitFlow'
<1>0. /\ converter \in Converters
      /\ held # <<>> => cardFcode = "punch"
  BY DEF UnitFlow
<1>1. CASE Cards!ReadWord
  <2>1. /\ UNCHANGED <<converter, held>> /\ cardFcode \in {"input", "inputToEor"}
        /\ cardFcode' = cardFcode \/ cardFcode' = "none"
    BY <1>1 DEF Cards!ReadWord, Cards!Reads, Cards!None
  <2>2. held' = <<>>
    BY <1>0, <2>1
  <2>f. FlowStep
    BY <1>0, <2>1, <2>2 DEF FlowStep
  <2> QED
    BY <1>0, <2>f, FlowStays
<1>2. CASE Cards!PunchWord
  <2>1. UNCHANGED <<converter, cardFcode>> /\ cardFcode = "punch"
    BY <1>2 DEF Cards!PunchWord
  <2>f. FlowStep
    BY <1>0, <2>1 DEF FlowStep
  <2> QED
    BY <1>0, <2>f, FlowStays
<1>3. CASE Cards!PunchTakes
  <2>1. UNCHANGED <<converter, cardFcode>> /\ cardFcode = "punch"
    BY <1>3 DEF Cards!PunchTakes
  <2>f. FlowStep
    BY <1>0, <2>1 DEF FlowStep
  <2> QED
    BY <1>0, <2>f, FlowStays
<1>4. CASE \/ Cards!CardEnd \/ Cards!NoCards \/ Cards!PrintWord \/ Cards!Polled
           \/ \E e \in Cards!Equipment : Cards!CardMoved(e)
  <2>1. UNCHANGED <<converter, cardFcode, held>>
    BY <1>4 DEF Cards!CardEnd, Cards!NoCards, Cards!PrintWord, Cards!Polled, Cards!CardMoved, Cards!still
  <2>f. FlowStep
    BY <1>0, <2>1 DEF FlowStep
  <2> QED
    BY <1>0, <2>f, FlowStays
<1> QED
  BY <1>1, <1>2, <1>3, <1>4 DEF Cards!Words

\* ... and all other steps.
LEMMA FlowKeeps == ASSUME UnitFlow, Cards!Next PROVE UnitFlow'
<1>0. cardPlan' \in UnitPlans /\ cardPlan'.parts = cardPlan.parts
  BY PlanKeeps, FlowTypes
<1>1. CASE Cards!Disconnect
  <2>1. UNCHANGED <<converter, held>> /\ held = <<>> /\ cardFcode' = "none"
    BY <1>1 DEF Cards!Disconnect, Cards!None
  <2>f. FlowStep
    BY <1>0, <2>1, FlowTypes DEF FlowStep
  <2> QED
    BY <1>0, <2>f, FlowStays
<1>2. CASE Cards!LoadDeck \/ Cards!UnloadReader \/ Cards!UnloadPunch \/ Cards!UnloadPrinter
  <2>1. UNCHANGED <<converter, cardFcode, held>>
    BY <1>2 DEF Cards!LoadDeck, Cards!UnloadReader, Cards!UnloadPunch, Cards!UnloadPrinter
  <2>2. held' # <<>> => cardFcode' = "punch"
    BY <2>1 DEF UnitFlow
  <2>f. FlowStep
    BY <1>0, <2>1, <2>2, FlowTypes DEF FlowStep
  <2> QED
    BY <1>0, <2>f, FlowStays
<1> QED
  BY <1>0, <1>1, <1>2, ConverterFlow, EquipmentFlow, WordsFlow DEF Cards!Next

\* What is sent stays a record.
LEMMA SentKeeps == ASSUME UnitInv, Cards!Next PROVE SentType'
<1>1. SentType
  BY DEF UnitInv, SentType
<1>2. PunchFits(punch', held', cardSent'.cards) /\ PrinterFits(printer', cardSent'.jobs, cardPlan'.separate)
  BY PunchKeeps, PrinterKeeps
<1>3. cardSent'.jobs \in Seq(Seq(Items))
  BY <1>2, PrinterTypes
<1>4. cardSent'.cards \in Seq(Nat)
  <2>1. PICK p, h, c : p = punch' /\ h = held' /\ c = cardSent'.cards
    OBVIOUS
  <2>2. /\ p.card \in Seq(Nat) /\ h \in Seq(Nat) /\ Pile(p) \in Seq(Nat)
        /\ c = (Pile(p) \o p.card) \o h
    BY <1>2, <2>1, PunchParts
  <2>3. c \in Seq(Nat)
    BY <2>2, SumType
  <2> QED
    BY <2>1, <2>3
<1>5. ASSUME \/ cardSent' = cardSent
             \/ \E v : cardSent' = [cardSent EXCEPT !.cards = v]
             \/ \E v : cardSent' = [cardSent EXCEPT !.jobs = v]
      PROVE  SentType'
  BY <1>1, <1>3, <1>4, <1>5 DEF SentType
<1>6. ASSUME NEW item, Cards!Say(item) PROVE SentType'
  <2>1. \E v : cardSent' = [cardSent EXCEPT !.jobs = v]
    BY <1>1, <1>6 DEF SentType, Cards!Say
  <2> QED
    BY <1>5, <2>1
<1>7. CASE PunchRests \/ PrinterRests
  BY <1>5, <1>7, PunchStays, PrinterStays
<1>8. CASE Cards!ConverterFunctions
  <2>1. PunchRests \/ PrinterRests
    BY <1>8 DEF Cards!ConverterFunctions, PunchRests, PrinterRests
  <2> QED
    BY <1>7, <2>1
<1>9. CASE Cards!EquipmentFunctions
  <2>1. \/ PunchRests \/ PrinterRests
        \/ \E mode \in {1, 2} : Cards!Release(mode) \/ Cards!Space(mode)
    BY <1>9 DEF Cards!EquipmentFunctions, PunchRests, PrinterRests
  <2>2. ASSUME NEW mode \in {1, 2}, Cards!Release(mode) PROVE SentType'
    BY <1>5, <2>2 DEF Cards!Release
  <2>3. ASSUME NEW mode \in {1, 2}, Cards!Space(mode) PROVE SentType'
    BY <1>6, <2>3 DEF Cards!Space
  <2> QED
    BY <1>7, <2>1, <2>2, <2>3
<1>10. CASE Cards!Words
  <2>1. PunchRests \/ PrinterRests \/ Cards!PunchWord \/ Cards!PrintWord
    BY <1>10 DEF Cards!Words, PunchRests, PrinterRests
  <2>2. CASE Cards!PunchWord
    BY <1>5, <2>2 DEF Cards!PunchWord
  <2>3. CASE Cards!PrintWord
    BY <1>5, <1>6, <2>3 DEF Cards!PrintWord
  <2> QED
    BY <1>7, <2>1, <2>2, <2>3
<1>11. CASE Cards!Disconnect
  <2>1. \/ UNCHANGED cardSent \/ \E item : Cards!Say(item)
    BY <1>11 DEF Cards!Disconnect, Cards!DisconnectReader, Cards!DisconnectPunch, Cards!DisconnectPrinter
  <2> QED
    BY <1>5, <1>6, <2>1
<1>12. CASE Cards!LoadDeck \/ Cards!UnloadReader \/ Cards!UnloadPunch \/ Cards!UnloadPrinter
  <2>1. PunchRests \/ PrinterRests
    BY <1>12 DEF PunchRests, PrinterRests
  <2> QED
    BY <1>7, <2>1
<1> QED
  BY <1>8, <1>9, <1>10, <1>11, <1>12 DEF Cards!Next

\* Which equipment interrupts, before and after a step.
LEMMA InterruptsAre ==
    /\ Cards!Interrupts("cr") = (reader.status \cap reader.mask # {})
    /\ Cards!Interrupts("cp") = (punch.status \cap punch.mask # {})
    /\ Cards!Interrupts("lp") = (printer.int # {})
    /\ Cards!Interrupts("cr")' = (reader'.status \cap reader'.mask # {})
    /\ Cards!Interrupts("cp")' = (punch'.status \cap punch'.mask # {})
    /\ Cards!Interrupts("lp")' = (printer'.int # {})
BY DEF Cards!Interrupts

\* What the equipment shows is as before, for each but those in E.
SameBut(E) ==
    /\ "cr" \notin E => reader'.status = reader.status /\ reader'.mask = reader.mask
    /\ "cp" \notin E => punch'.status = punch.status /\ punch'.mask = punch.mask
    /\ "lp" \notin E => printer'.int = printer.int

\* Equipment with the same status and mask has the same interrupts.
LEMMA SameShown ==
    ASSUME NEW E, SameBut(E), NEW e \in {"cr", "cp", "lp"}, e \notin E
    PROVE  Cards!Interrupts(e)' = Cards!Interrupts(e)
<1>1. CASE e = "cr"
  BY <1>1, InterruptsAre DEF SameBut
<1>2. CASE e = "cp"
  BY <1>2, InterruptsAre DEF SameBut
<1>3. CASE e = "lp"
  BY <1>3, InterruptsAre DEF SameBut
<1> QED
  BY <1>1, <1>2, <1>3

\* Nothing is told, and what changed is noted as stale.
LEMMA QuietShown ==
    ASSUME UnitFlow, Shown, NEW E, SameBut(E), UNCHANGED interrupting, cardPlan'.parts = cardPlan.parts,
           stale \cup E \subseteq stale'
    PROVE  Shown'
<1>1. cardPlan.parts \subseteq {"cr", "cp", "lp"}
  BY DEF UnitFlow, UnitPlans
<1>2. \A e \in cardPlan.parts \ stale : (e \in interrupting) = Cards!Interrupts(e)
  BY DEF Shown, Cards!InterruptsShown
<1>3. ASSUME NEW e \in cardPlan'.parts \ stale' PROVE (e \in interrupting') = Cards!Interrupts(e)'
  <2>1. e \in cardPlan.parts \ stale /\ e \notin E /\ e \in {"cr", "cp", "lp"}
    BY <1>1, <1>3
  <2>2. Cards!Interrupts(e)' = Cards!Interrupts(e)
    BY <2>1, SameShown
  <2>3. (e \in interrupting) = Cards!Interrupts(e)
    BY <1>2, <2>1
  <2> QED
    BY <2>2, <2>3
<1>4. Cards!InterruptsShown'
  BY <1>3 DEF Cards!InterruptsShown
<1> QED
  BY <1>4 DEF Shown

\* The equipment that is connected tells.
LEMMA ToldShown ==
    ASSUME UnitFlow, Shown, NEW o \in {"cr", "cp", "lp"}, converter.connected = o, Cards!Tells(o),
           SameBut({o}), cardPlan'.parts = cardPlan.parts
    PROVE  Shown'
<1>1. cardPlan.parts \subseteq {"cr", "cp", "lp"} /\ o \in cardPlan.parts
  BY DEF UnitFlow, UnitPlans
<1>2. \A e \in cardPlan.parts \ stale : (e \in interrupting) = Cards!Interrupts(e)
  BY DEF Shown, Cards!InterruptsShown
<1>3. /\ interrupting' = IF Cards!Interrupts(o)' THEN interrupting \cup {o} ELSE interrupting \ {o}
      /\ stale' = stale \ {o}
  BY DEF Cards!Tells
<1>4. Cards!Interrupts(o)' \in BOOLEAN
  BY InterruptsAre
<1>5. ASSUME NEW e \in cardPlan'.parts \ stale' PROVE (e \in interrupting') = Cards!Interrupts(e)'
  <2>1. CASE e = o
    <3>1. (o \in interrupting') = Cards!Interrupts(o)'
      BY <1>3, <1>4
    <3> QED
      BY <2>1, <3>1
  <2>2. CASE e # o
    <3>1. e \in cardPlan.parts \ stale /\ e \notin {o} /\ e \in {"cr", "cp", "lp"}
      BY <1>1, <1>3, <1>5, <2>2
    <3>2. Cards!Interrupts(e)' = Cards!Interrupts(e)
      BY <3>1, SameShown
    <3>3. (e \in interrupting) = Cards!Interrupts(e)
      BY <1>2, <3>1
    <3>4. (e \in interrupting') = (e \in interrupting)
      BY <1>3, <2>2
    <3> QED
      BY <3>2, <3>3, <3>4
  <2> QED
    BY <2>1, <2>2
<1>6. Cards!InterruptsShown'
  BY <1>5 DEF Cards!InterruptsShown
<1>7. interrupting' \subseteq cardPlan'.parts
  BY <1>1, <1>3 DEF Shown
<1> QED
  BY <1>6, <1>7 DEF Shown

\* The equipment of the invariant.
LEMMA UnitTypes ==
    ASSUME UnitInv
    PROVE  reader \in Readers /\ punch \in Punches /\ printer \in Printers /\ UnitFlow /\ Shown
BY ReaderType, PunchParts, PrinterTypes DEF UnitInv

\* The steps in which the connected equipment tells.
Told(o) == converter.connected = o /\ Cards!Tells(o) /\ SameBut({o})

\* The steps in which nothing is told.
Quiet == UNCHANGED interrupting /\ \E E : SameBut(E) /\ stale \cup E \subseteq stale'

\* The functions of the equipment tell the converter, or nothing was there to tell.
LEMMA FunctionsShown ==
    ASSUME UnitInv, Cards!EquipmentFunctions
    PROVE  Quiet \/ \E o \in {"cr", "cp", "lp"} : Told(o)
<1>0. printer \in Printers
  BY UnitTypes
<1>1. ASSUME NEW mode \in {1, 2}, NEW f \in Cards!MaskFunctions, Cards!ReaderFunction(mode, f)
      PROVE  Told("cr")
  BY <1>1 DEF Told, SameBut, Cards!ReaderFunction, Cards!Connected
<1>2. ASSUME NEW mode \in {1, 2}, NEW f \in Cards!MaskFunctions, Cards!PunchFunction(mode, f)
      PROVE  Told("cp")
  BY <1>2 DEF Told, SameBut, Cards!PunchFunction, Cards!Connected
<1>3. ASSUME NEW mode \in {1, 2}, NEW c \in {"ready", "end"}, NEW on \in BOOLEAN,
             Cards!PrinterInterrupts(mode, c, on)
      PROVE  Told("lp")
  BY <1>3 DEF Told, SameBut, Cards!PrinterInterrupts, Cards!Connected
<1>4. ASSUME NEW mode \in {1, 2}, Cards!Release(mode) PROVE Quiet
  <2>1. UNCHANGED <<interrupting, reader, punch>>
        /\ stale' = IF printer.int = {} THEN stale ELSE stale \cup {"lp"}
    BY <1>4 DEF Cards!Release
  <2>2. CASE printer.int = {}
    <3>1. printer'.int = {}
      BY <1>0, <1>4 DEF Cards!Release, Cards!Unloaded, Printers
    <3>2. SameBut({}) /\ stale \cup {} \subseteq stale'
      BY <2>1, <2>2, <3>1 DEF SameBut
    <3> QED
      BY <2>1, <3>2 DEF Quiet
  <2>3. CASE printer.int # {}
    <3>1. SameBut({"lp"}) /\ stale \cup {"lp"} \subseteq stale'
      BY <2>1, <2>3 DEF SameBut
    <3> QED
      BY <2>1, <3>1 DEF Quiet
  <2> QED
    BY <2>2, <2>3
<1>5. ASSUME NEW mode \in {1, 2}, Cards!Space(mode) \/ Cards!FillMemory(mode) PROVE Quiet
  <2>1. UNCHANGED <<interrupting, reader, punch, stale>>
    BY <1>5 DEF Cards!Space, Cards!FillMemory
  <2>2. printer'.int = printer.int
    BY <1>0, <1>5 DEF Cards!Space, Cards!FillMemory, Printers
  <2>3. SameBut({}) /\ stale \cup {} \subseteq stale'
    BY <2>1, <2>2 DEF SameBut
  <2> QED
    BY <2>1, <2>3 DEF Quiet
<1> QED
  BY <1>1, <1>2, <1>3, <1>4, <1>5 DEF Cards!EquipmentFunctions

\* Nothing was told when nothing has changed.
LEMMA QuietStep ==
    ASSUME UNCHANGED <<interrupting, stale, reader, punch, printer>> PROVE Quiet
<1>1. SameBut({}) /\ stale \cup {} \subseteq stale'
  BY DEF SameBut
<1> QED
  BY <1>1 DEF Quiet

\* The connected reader or punch tells, and nothing else happens.
LEMMA Teller ==
    ASSUME UNCHANGED <<reader, punch, printer>>, Cards!ConnectedTells
    PROVE  \E o \in {"cr", "cp", "lp"} : Told(o)
<1>1. PICK o \in Cards!Tellers : o = converter.connected /\ Cards!Tells(o)
  BY DEF Cards!ConnectedTells
<1>2. o \in {"cr", "cp", "lp"}
  BY DEF Cards!Tellers
<1>3. Told(o)
  BY <1>1 DEF Told, SameBut
<1> QED
  BY <1>2, <1>3

\* The same of the functions of the converter, ...
LEMMA ConverterShown ==
    ASSUME UnitInv, Cards!ConverterFunctions
    PROVE  Cards!MasterClear \/ Quiet \/ \E o \in {"cr", "cp", "lp"} : Told(o)
<1>1. ASSUME \/ \E on \in BOOLEAN : Cards!SelectConverter(on)
             \/ \E mode \in {1, 2}, e \in Cards!Equipment : Cards!Connect(mode, e)
             \/ Cards!Rejected \/ Cards!DccStatus
      PROVE  Quiet
  <2>1. UNCHANGED <<interrupting, stale, reader, punch, printer>>
    BY <1>1 DEF Cards!SelectConverter, Cards!Connect, Cards!Rejected, Cards!DccStatus
  <2> QED
    BY <2>1, QuietStep
<1>2. ASSUME NEW on \in BOOLEAN, Cards!Input(on) PROVE Told("cr")
  BY <1>2 DEF Told, SameBut, Cards!Input, Cards!Connected
<1>3. ASSUME Cards!OutputCards PROVE Told("cp")
  BY <1>3 DEF Told, SameBut, Cards!OutputCards, Cards!Connected
<1>4. ASSUME Cards!OutputLine PROVE Told("lp")
  BY <1>4 DEF Told, SameBut, Cards!OutputLine, Cards!Connected
<1>5. ASSUME Cards!StatusRequest PROVE Quiet \/ \E o \in {"cr", "cp", "lp"} : Told(o)
  <2>1. UNCHANGED <<reader, punch, printer>>
    BY <1>5 DEF Cards!StatusRequest
  <2>2. CASE converter.connected \in Cards!Tellers
    BY <1>5, <2>1, <2>2, Teller DEF Cards!StatusRequest
  <2>3. CASE converter.connected \notin Cards!Tellers
    <3>1. UNCHANGED <<interrupting, stale>>
      BY <1>5, <2>3 DEF Cards!StatusRequest
    <3> QED
      BY <2>1, <3>1, QuietStep
  <2> QED
    BY <2>2, <2>3
<1> QED
  BY <1>1, <1>2, <1>3, <1>4, <1>5 DEF Cards!ConverterFunctions

\* ... of the words that are read and written, ...
LEMMA WordsShown ==
    ASSUME UnitInv, Cards!Words
    PROVE  Quiet \/ \E o \in {"cr", "cp", "lp"} : Told(o)
<1>0. UnitFlow /\ printer \in Printers
  BY UnitTypes
<1>1. ASSUME Cards!ReadWord \/ Cards!CardEnd \/ Cards!NoCards PROVE Told("cr")
  <2>1. cardFcode \in {"input", "inputToEor"} /\ Cards!Tells("cr") /\ UNCHANGED <<punch, printer>>
    BY <1>1 DEF Cards!ReadWord, Cards!CardEnd, Cards!NoCards, Cards!Reads
  <2> QED
    BY <1>0, <2>1 DEF Told, SameBut, UnitFlow
<1>2. ASSUME Cards!PunchTakes PROVE Told("cp")
  <2>1. cardFcode = "punch" /\ Cards!Tells("cp") /\ UNCHANGED <<reader, printer>>
    BY <1>2 DEF Cards!PunchTakes
  <2> QED
    BY <1>0, <2>1 DEF Told, SameBut, UnitFlow
<1>3. ASSUME Cards!PunchWord \/ \E e \in Cards!Equipment : Cards!CardMoved(e) PROVE Quiet
  <2>1. UNCHANGED <<interrupting, stale, reader, punch, printer>>
    BY <1>3 DEF Cards!PunchWord, Cards!CardMoved
  <2> QED
    BY <2>1, QuietStep
<1>4. ASSUME Cards!PrintWord PROVE Quiet
  <2>1. UNCHANGED <<interrupting, reader, punch, stale>>
    BY <1>4 DEF Cards!PrintWord
  <2>2. printer'.int = printer.int
    BY <1>0, <1>4 DEF Cards!PrintWord, Printers
  <2>3. SameBut({}) /\ stale \cup {} \subseteq stale'
    BY <2>1, <2>2 DEF SameBut
  <2> QED
    BY <2>1, <2>3 DEF Quiet
<1>5. ASSUME Cards!Polled PROVE \E o \in {"cr", "cp", "lp"} : Told(o)
  BY <1>5, Teller DEF Cards!Polled
<1> QED
  BY <1>1, <1>2, <1>3, <1>4, <1>5 DEF Cards!Words

\* The converter is told before the next card is up; when the card changes that, it is stale.
LEMMA ReaderLeftShown ==
    ASSUME UnitFlow, Shown, converter.connected = "cr", Cards!DisconnectReader,
           cardPlan'.parts = cardPlan.parts
    PROVE  Shown'
<1>1. cardPlan.parts \subseteq {"cr", "cp", "lp"} /\ "cr" \in cardPlan.parts
  BY DEF UnitFlow, UnitPlans
<1>2. \A e \in cardPlan.parts \ stale : (e \in interrupting) = Cards!Interrupts(e)
  BY DEF Shown, Cards!InterruptsShown
<1>3. PICK r : r = [reader EXCEPT !.status = @ \cup {"eoiInt"}]
  OBVIOUS
<1>4. PICK on \in BOOLEAN : on = (r.status \cap r.mask # {})
  OBVIOUS
<1>5. /\ interrupting' = IF on THEN interrupting \cup {"cr"} ELSE interrupting \ {"cr"}
      /\ stale' = IF Cards!Interrupts("cr")' # on THEN stale \cup {"cr"} ELSE stale \ {"cr"}
      /\ UNCHANGED <<punch, printer>>
  BY <1>3, <1>4 DEF Cards!DisconnectReader
<1>6. SameBut({"cr"})
  BY <1>5 DEF SameBut
<1>7. ASSUME NEW e \in cardPlan'.parts \ stale' PROVE (e \in interrupting') = Cards!Interrupts(e)'
  <2>1. CASE e = "cr"
    <3>1. Cards!Interrupts("cr")' = on
      BY <1>5, <1>7, <2>1
    <3>2. ("cr" \in interrupting') = on
      BY <1>5
    <3> QED
      BY <2>1, <3>1, <3>2
  <2>2. CASE e # "cr"
    <3>1. e \in cardPlan.parts \ stale /\ e \notin {"cr"} /\ e \in {"cr", "cp", "lp"}
      BY <1>1, <1>5, <1>7, <2>2
    <3>2. Cards!Interrupts(e)' = Cards!Interrupts(e)
      BY <1>6, <3>1, SameShown
    <3>3. (e \in interrupting) = Cards!Interrupts(e)
      BY <1>2, <3>1
    <3>4. (e \in interrupting') = (e \in interrupting)
      BY <1>5, <2>2
    <3> QED
      BY <3>2, <3>3, <3>4
  <2> QED
    BY <2>1, <2>2
<1>8. Cards!InterruptsShown'
  BY <1>7 DEF Cards!InterruptsShown
<1>9. interrupting' \subseteq cardPlan'.parts
  BY <1>1, <1>5 DEF Shown
<1> QED
  BY <1>8, <1>9 DEF Shown

\* ... of a disconnect, which tells the reader before it has changed, ...
LEMMA DisconnectShown ==
    ASSUME UnitInv, Cards!Disconnect
    PROVE  (Cards!DisconnectReader /\ converter.connected = "cr") \/ Quiet \/ Told("cp")
<1>0. printer \in Printers
  BY UnitTypes
<1>1. CASE converter.connected = "cr"
  BY <1>1 DEF Cards!Disconnect
<1>2. CASE converter.connected = "cp"
  BY <1>2 DEF Cards!Disconnect, Cards!DisconnectPunch, Told, SameBut
<1>3. CASE converter.connected = "lp"
  <2>1. Cards!DisconnectPrinter
    BY <1>3 DEF Cards!Disconnect
  <2>2. UNCHANGED <<interrupting, reader, punch, stale>>
    BY <2>1 DEF Cards!DisconnectPrinter
  <2>3. printer'.int = printer.int
    BY <1>0, <2>1 DEF Cards!DisconnectPrinter, Printers
  <2>4. SameBut({}) /\ stale \cup {} \subseteq stale'
    BY <2>2, <2>3 DEF SameBut
  <2> QED
    BY <2>2, <2>4 DEF Quiet
<1>4. CASE converter.connected \notin {"cr", "cp", "lp"}
  <2>1. UNCHANGED <<interrupting, stale, reader, punch, printer>>
    BY <1>4 DEF Cards!Disconnect
  <2> QED
    BY <2>1, QuietStep
<1> QED
  BY <1>1, <1>2, <1>3, <1>4

\* ... and of the operator's commands, which do not tell and leave the converter stale.
LEMMA OperatorShown ==
    ASSUME UnitInv, Cards!LoadDeck \/ Cards!UnloadReader \/ Cards!UnloadPunch \/ Cards!UnloadPrinter
    PROVE  Quiet
<1>0. punch \in Punches /\ printer \in Printers
  BY UnitTypes
<1>1. CASE Cards!LoadDeck \/ Cards!UnloadReader
  <2>1. UNCHANGED <<interrupting, punch, printer>> /\ stale' = stale \cup {"cr"}
    BY <1>1 DEF Cards!LoadDeck, Cards!UnloadReader
  <2>2. SameBut({"cr"}) /\ stale \cup {"cr"} \subseteq stale'
    BY <2>1 DEF SameBut
  <2> QED
    BY <2>1, <2>2 DEF Quiet
<1>2. CASE Cards!UnloadPunch
  <2>1. UNCHANGED <<interrupting, reader, printer, stale>>
    BY <1>2 DEF Cards!UnloadPunch
  <2>2. PICK p : p = Cards!FlushCard(punch)
    OBVIOUS
  <2>3. p.status = punch.status /\ p.mask = punch.mask /\ p \in Punches
    <3>1. CASE punch.card = <<>>
      BY <1>0, <2>2, <3>1 DEF Cards!FlushCard
    <3>2. CASE punch.card # <<>>
      <4> DEFINE Q == Seq(Nat)
      <4>1. punch.lines \in Seq(Q) /\ punch.card \in Q /\ <<>> \in Q
        BY <1>0 DEF Punches
      <4> HIDE DEF Q
      <4>2. PICK ln : ln = Append(punch.lines, punch.card)
        OBVIOUS
      <4>3. ln \in Seq(Q)
        BY <4>1, <4>2, Grown
      <4>4. PICK e \in Q : e = <<>>
        BY <4>1
      <4>5. p = [punch EXCEPT !.lines = ln, !.card = e]
        BY <2>2, <3>2, <4>2, <4>4 DEF Cards!FlushCard
      <4> QED
        BY <1>0, <4>3, <4>4, <4>5 DEF Punches, Q
    <3> QED
      BY <3>1, <3>2
  <2>4. punch' = [p EXCEPT !.files = Append(@, p.lines), !.lines = <<>>]
    BY <1>2, <2>2 DEF Cards!UnloadPunch
  <2>5. punch'.status = p.status /\ punch'.mask = p.mask
    BY <2>3, <2>4 DEF Punches
  <2>6. SameBut({}) /\ stale \cup {} \subseteq stale'
    BY <2>1, <2>3, <2>5 DEF SameBut
  <2> QED
    BY <2>1, <2>6 DEF Quiet
<1>3. CASE Cards!UnloadPrinter
  <2>1. UNCHANGED <<interrupting, reader, punch, stale>>
    BY <1>3 DEF Cards!UnloadPrinter
  <2>2. printer'.int = printer.int
    BY <1>0, <1>3 DEF Cards!UnloadPrinter, Cards!Unloaded, Printers
  <2>3. SameBut({}) /\ stale \cup {} \subseteq stale'
    BY <2>1, <2>2 DEF SameBut
  <2> QED
    BY <2>1, <2>3 DEF Quiet
<1> QED
  BY <1>1, <1>2, <1>3

\* The converter shows the interrupts of the equipment, but where it is stale.
LEMMA ShownKeeps == ASSUME UnitInv, Cards!Next PROVE Shown'
<1>1. UnitFlow /\ Shown
  BY UnitTypes
<1>2. cardPlan'.parts = cardPlan.parts
  BY <1>1, FlowTypes, PlanKeeps
<1>3. CASE Quiet
  <2>1. PICK E : SameBut(E) /\ stale \cup E \subseteq stale'
    BY <1>3 DEF Quiet
  <2>2. UNCHANGED interrupting
    BY <1>3 DEF Quiet
  <2> QED
    BY <1>1, <1>2, <2>1, <2>2, QuietShown
<1>4. ASSUME NEW o \in {"cr", "cp", "lp"}, Told(o) PROVE Shown'
  BY <1>1, <1>2, <1>4, ToldShown DEF Told
<1>5. CASE Cards!MasterClear
  <2> DEFINE c == converter.connected
  <2>1. PICK latest \in Cards!Tellers \cup {"none"} :
           /\ interrupting' = {e \in cardPlan.parts : e = c /\ latest # "none" /\ Cards!Interrupts(latest)}
           /\ stale' = {e \in cardPlan.parts : IF e = c THEN e # latest ELSE Cards!Interrupts(e)}
    BY <1>5 DEF Cards!MasterClear, Cards!None
  <2>2. SameBut({})
    BY <1>5 DEF Cards!MasterClear, SameBut
  <2>3. cardPlan.parts \subseteq {"cr", "cp", "lp"}
    BY <1>1 DEF UnitFlow, UnitPlans
  <2>4. ASSUME NEW e \in cardPlan'.parts \ stale' PROVE (e \in interrupting') = Cards!Interrupts(e)'
    <3>1. e \in cardPlan.parts /\ e \in {"cr", "cp", "lp"}
      BY <1>2, <2>3, <2>4
    <3>2. Cards!Interrupts(e)' = Cards!Interrupts(e)
      BY <2>2, <3>1, SameShown
    <3>3. Cards!Interrupts(e) \in BOOLEAN
      BY <3>1 DEF Cards!Interrupts
    <3>4. CASE e = c
      <4>1. e = latest
        BY <2>1, <2>4, <3>1, <3>4
      <4>2. (e \in interrupting') = Cards!Interrupts(e)
        BY <2>1, <3>1, <3>3, <3>4, <4>1
      <4> QED
        BY <3>2, <4>2
    <3>5. CASE e # c
      <4>1. ~Cards!Interrupts(e)
        BY <2>1, <2>4, <3>1, <3>5
      <4>2. e \notin interrupting'
        BY <2>1, <3>5
      <4> QED
        BY <3>2, <3>3, <4>1, <4>2
    <3> QED
      BY <3>4, <3>5
  <2>5. Cards!InterruptsShown'
    BY <2>4 DEF Cards!InterruptsShown
  <2>6. interrupting' \subseteq cardPlan'.parts
    BY <1>2, <2>1
  <2> QED
    BY <2>5, <2>6 DEF Shown
<1>6. CASE Cards!Disconnect
  BY <1>1, <1>2, <1>3, <1>4, <1>6, DisconnectShown, ReaderLeftShown
<1>7. CASE Cards!LoadDeck \/ Cards!UnloadReader \/ Cards!UnloadPunch \/ Cards!UnloadPrinter
  BY <1>3, <1>7, OperatorShown
<1> QED
  BY <1>3, <1>4, <1>5, <1>6, <1>7, ConverterShown, FunctionsShown, WordsShown DEF Cards!Next

\* The devices at the start.
LEMMA UnitStarts == ASSUME UnitAssumption, Cards!Init PROVE UnitInv
<1>1. /\ cardPlan \in CardPlans /\ converter = [selected |-> TRUE, connected |-> "none", status |-> "ready"]
      /\ interrupting = {} /\ cardFcode = "none" /\ held = <<>>
      /\ due = <<>> /\ cardSent = [cards |-> <<>>, jobs |-> <<<<>>>>]
  BY DEF Cards!Init, Cards!None
<1>2. cardPlan \in UnitPlans
  BY <1>1 DEF UnitAssumption
<1>3. UnitFlow
  <2>1. converter \in Converters /\ converter.connected = "none"
    BY <1>1 DEF Converters
  <2> QED
    BY <1>1, <1>2, <2>1 DEF UnitFlow
<1>4. <<>> \in Seq(Decked) /\ <<>> \in Seq(ACard) /\ <<>> \in Seq(Nat) /\ <<>> \in Seq(Seq(Nat))
      /\ <<>> \in Seq(Seq(Seq(Nat))) /\ <<>> \in Seq(Items) /\ <<>> \in Seq(Seq(Items))
  OBVIOUS
<1>5. PICK e : e = <<>> /\ e \in Seq(Decked) /\ e \in Seq(ACard) /\ e \in Seq(Nat) /\ e \in Seq(Seq(Nat))
               /\ e \in Seq(Seq(Seq(Nat))) /\ e \in Seq(Items) /\ e \in Seq(Seq(Items))
  BY <1>4
<1>6. ReaderFits(reader, due)
  <2>1. reader = [open |-> FALSE, status |-> Cards!EofStatus, mask |-> {}, binary |-> FALSE, col |-> 0,
                  card |-> [Cards!Eoi EXCEPT !.kind = "none"], deck |-> e, waiting |-> e, disc |-> FALSE]
    BY <1>5 DEF Cards!Init
  <2>2. 0 \in 0 .. Columns + 1
    BY DEF UnitAssumption
  <2>3. reader \in Readers /\ reader.open = FALSE /\ reader.waiting = e
    BY <1>5, <2>1, <2>2, StatusSets DEF Readers
  <2>4. <<>> \o <<>> = <<>>
    OBVIOUS
  <2> QED
    BY <1>1, <1>5, <2>3, <2>4, NoDecks DEF ReaderFits, FromUp
<1>7. PunchFits(punch, held, cardSent.cards)
  <2>1. punch = [status |-> Cards!ReadyStatus, mask |-> {}, binary |-> FALSE, card |-> e, lines |-> e,
                 files |-> e]
    BY <1>5 DEF Cards!Init
  <2>2. punch \in Punches /\ punch.card = e /\ punch.lines = e /\ punch.files = e
    BY <1>5, <2>1, StatusSets DEF Punches
  <2>3. Old!FlatRecords(e) = <<>> /\ e \o e = e /\ Len(e) = 0 /\ DOMAIN e = {} /\ 0 <= Columns
    <3>1. <<>> \o <<>> = <<>> /\ Len(<<>>) = 0 /\ DOMAIN <<>> = {}
      OBVIOUS
    <3>2. 0 <= Columns
      BY DEF UnitAssumption
    <3> QED
      BY <1>5, <3>1, <3>2, NoRecords
  <2>4. held = e /\ cardSent.cards = e /\ Old!FlatRecords(e) = e
    BY <1>1, <1>5, <2>3
  <2> QED
    BY <1>5, <2>2, <2>3, <2>4 DEF PunchFits
<1>8. PrinterFits(printer, cardSent.jobs, cardPlan.separate)
  <2>1. printer = [int |-> {}, enabled |-> {}, fill |-> FALSE, printed |-> FALSE, keepInt |-> FALSE,
                   lines |-> e, files |-> e]
    BY <1>5 DEF Cards!Init
  <2>2. printer \in Printers /\ printer.lines = e /\ printer.files = e
    BY <1>5, <2>1 DEF Printers
  <2>3. Append(e, e) = <<e>>
    BY <1>5
  <2>4. cardSent.jobs = <<e>>
    BY <1>1, <1>5
  <2>5. <<e>> \in Seq(Seq(Items)) /\ <<e>> # <<>>
    <3> DEFINE Q == Seq(Items)
    <3>1. e \in Q
      BY <1>5
    <3> HIDE DEF Q
    <3>2. <<e>> \in Seq(Q) /\ Len(<<e>>) = 1
      BY <3>1
    <3>3. <<e>> # <<>>
      BY <3>2
    <3> QED
      BY <3>2, <3>3 DEF Q
  <2> QED
    BY <2>2, <2>3, <2>4, <2>5 DEF PrinterFits
<1>9. Shown
  <2>1. reader.mask = {} /\ punch.mask = {} /\ printer.int = {}
    BY DEF Cards!Init
  <2>2. cardPlan.parts \subseteq {"cr", "cp", "lp"}
    BY <1>2 DEF UnitPlans
  <2>3. ASSUME NEW o \in cardPlan.parts \ stale PROVE (o \in interrupting) = Cards!Interrupts(o)
    <3>1. o \in {"cr", "cp", "lp"}
      BY <2>2, <2>3
    <3>2. Cards!Interrupts(o) = FALSE
      BY <2>1, <3>1, InterruptsAre
    <3>3. (o \in interrupting) = FALSE
      BY <1>1
    <3> QED
      BY <3>2, <3>3
  <2>4. Cards!InterruptsShown
    BY <2>3 DEF Cards!InterruptsShown
  <2> QED
    BY <1>1, <2>4 DEF Shown
<1>10. cardSent \in [cards : Seq(Nat), jobs : Seq(Seq(Items))]
  <2>1. cardSent.jobs \in Seq(Seq(Items))
    BY <1>8, PrinterTypes
  <2> QED
    BY <1>1, <1>4, <2>1
<1> QED
  BY <1>3, <1>6, <1>7, <1>8, <1>9, <1>10 DEF UnitInv

\* Every step keeps the invariant,
LEMMA UnitKeeps == ASSUME UnitInv, Cards!Next PROVE UnitInv'
<1>1. UnitFlow'
  BY UnitTypes, FlowKeeps
<1> QED
  BY <1>1, ShownKeeps, ReaderKeeps, SentKeeps, PunchKeeps, PrinterKeeps DEF UnitInv, SentType

\* a step of another device too,
LEMMA UnitStays == ASSUME UnitInv, UNCHANGED Cards!unitVars PROVE UnitInv'
<1>1. /\ UNCHANGED <<converter, interrupting, cardFcode, held, moving, reader, punch, printer>>
      /\ UNCHANGED <<due, cardSent, stale, cardPlan>>
  BY DEF Cards!unitVars
<1>2. UnitFlow'
  BY <1>1 DEF UnitInv, UnitFlow
<1>3. SameBut({}) /\ stale \cup {} \subseteq stale' /\ UNCHANGED interrupting
      /\ cardPlan'.parts = cardPlan.parts
  BY <1>1 DEF SameBut
<1>4. Shown'
  BY <1>3, UnitTypes, QuietShown
<1> QED
  BY <1>1, <1>2, <1>4 DEF UnitInv

\* and the invariant is more than the safety that is claimed.
LEMMA UnitInvSafe == ASSUME UnitAssumption, UnitInv PROVE Cards!UnitSafe
<1>1. converter.connected \in cardPlan.parts \cup {Cards!None} /\ interrupting \subseteq cardPlan.parts
      /\ (held # <<>> => cardFcode = "punch") /\ Cards!InterruptsShown
  BY DEF UnitInv, UnitFlow, Shown, Cards!None
<1>2. reader.col \in 0 .. Columns + 1
  BY UnitTypes DEF Readers
<1>3. Cards!CardsInOrder
  BY UpInOrder DEF UnitInv
<1>4. Cards!NothingLost
  <2>1. /\ cardSent.cards = Old!FlatRecords(Old!FlatRecords(punch.files) \o punch.lines) \o punch.card \o held
        /\ \A i \in DOMAIN punch.lines : Len(punch.lines[i]) <= Columns
    BY DEF UnitInv, PunchFits
  <2>2. /\ Old!FlatRecords(Append(printer.files, printer.lines)) = Old!FlatRecords(cardSent.jobs)
        /\ cardPlan.separate => Append(printer.files, printer.lines) = cardSent.jobs
    BY DEF UnitInv, PrinterFits
  <2> QED
    BY <2>1, <2>2, SameFlat DEF Cards!NothingLost
<1> QED
  BY <1>1, <1>2, <1>3, <1>4 DEF Cards!UnitSafe

\* What is assumed of the devices is enough for these.
LEMMA UnitAssumed == UnitAssumption
<1>1. Columns \in Nat \ {0}
  BY DevicesAssumption DEF DevicesAssumption
<1>2. CardPlans \subseteq UnitPlans
  BY DevicesAssumption DEF DevicesAssumption, UnitPlans, Decked, Selectable
<1> QED
  BY <1>1, <1>2 DEF UnitAssumption

\* The other devices leave these alone.
LEMMA OthersKeepCards ==
    ASSUME [Next]_vars, device' = "cards"
    PROVE  device = "cards" /\ (Cards!Next \/ UNCHANGED Cards!unitVars)
<1>1. CASE TapeStep \/ DiskStep \/ OldStep \/ ClockStep \/ MuxStep
  <2>1. device # "cards" /\ device' = device
    BY <1>1 DEF TapeStep, DiskStep, OldStep, ClockStep, MuxStep, OldOnes
  <2> QED
    BY <2>1
<1>2. CASE CardStep
  BY <1>2 DEF CardStep
<1>3. CASE UNCHANGED vars
  BY <1>3 DEF vars, cardVars, Cards!unitVars
<1> QED
  BY <1>1, <1>2, <1>3 DEF Next

\* The inductive invariant of cards and paper.
THEOREM PaperInvariance == Spec => [](device = "cards" => UnitInv)
<1>1. Init => (device = "cards" => UnitInv)
  BY UnitStarts, UnitAssumed DEF Init
<1>2. (device = "cards" => UnitInv) /\ [Next]_vars => (device = "cards" => UnitInv)'
  <2>1. ASSUME device = "cards" => UnitInv, [Next]_vars, device' = "cards" PROVE UnitInv'
    BY <2>1, OthersKeepCards, UnitKeeps, UnitStays
  <2> QED
    BY <2>1
<1> QED
  BY <1>1, <1>2, PTL DEF Spec

\* However functions, disconnects and the operator's commands interleave, cards come in the order
\* of the decks and each once, every word that was given to the punch is on a card or in the
\* channel, what was printed is in the printer's files, job by job with separate files, a word in
\* the channel is one for the punch, and the converter shows the interrupts of its equipment but
\* where the code does not tell it (dcc6681Io, cr3447Io, cp3446Io, lp3000Io).
THEOREM PaperCorrect == Spec => []PaperSafe
<1>1. (device = "cards" => UnitInv) => PaperSafe
  BY UnitInvSafe, UnitAssumed DEF PaperSafe
<1> QED
  BY <1>1, PaperInvariance, PTL
=============================================================================
