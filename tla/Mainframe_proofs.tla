-------------------------- MODULE Mainframe_proofs --------------------------
(***************************************************************************)
(* Proofs about the processors.  PPs that exchange words over a channel,   *)
(* for memories of every size and transfers of every length (PpChannel);   *)
(* exchange jumps lose no context and keep monitor code to one CPU, for    *)
(* any number of CPUs, packages and contexts, with CPU_THREADS or without  *)
(* (CpuExchange).  The console's displays are sent whole items in order,   *)
(* and the PP gets each key once and in order, for rings of every size     *)
(* (Console).                                                              *)
(***************************************************************************)
EXTENDS PpChannel, CpuExchange, Console, FiniteSetTheorems, NaturalsInduction, SequenceTheorems, TLAPS

-----------------------------------------------------------------------------
(***************************************************************************)
(* Peripheral processors and a channel.                                    *)
(***************************************************************************)
InWaits  == {"InOne", "InMany"}
OutWaits == {"OutOne", "OutMany"}

\* ppStep is in a loop only for a PP that waits for it.
StepFits ==
    /\ step \in {"input", "take"} => wait[turn] \in InWaits
    /\ step = "output" => wait[turn] \in OutWaits
    /\ step = "outputIo" => wait[turn] \in {"None", "OutMany"}

\* While a block that spares cell 0 is transferred the rest of it still does, and the
\* cell holds the address of the instruction's second word.
Sparing ==
    \A p \in PpIds : wait[p] \in {"InMany", "OutMany"} /\ ret[p] # -1 =>
        /\ regP[p] > 0 /\ regA[p] > 0 /\ regP[p] + regA[p] <= MemSize
        /\ ret[p] = PpIncrement(mem0[p])

\* On a channel without a device only the PPs act; an inactive one is empty.
Quiet ==
    NoDevice => /\ ioDevice = "none" /\ ~disc
                /\ active \/ (~full /\ step \in {"exec", "waits"})

\* A word in such a channel is the last one put, of this session, and not yet taken.
NewestWord ==
    NoDevice /\ full =>
        data = put /\ dataSession = session /\ \A i \in 1 .. Len(taken) : taken[i] < put

\* With two PPs whoever waits began in this session, and before a PP executes on an
\* inactive channel the other one was shown that it is inactive.
Shown ==
    NoDevice /\ PPs <= 2 =>
        \A p \in PpIds : wait[p] # "None" =>
            /\ since[p] = session
            /\ active \/ step # "exec" \/ p = turn

\* The inductive invariant.
IInv == TypeOK /\ StepFits /\ Sparing /\ Quiet /\ NewestWord /\ TakenInOrder /\ Shown

-----------------------------------------------------------------------------
(***************************************************************************)
(* Sizes and types.                                                        *)
(***************************************************************************)
\* A remainder is smaller than what it was divided by.
LEMMA Remainder == \A n \in Int, m \in Nat \ {0} : n % m \in 0 .. (m - 1)
OBVIOUS

\* A number below the divisor is its own remainder.
LEMMA SmallRemainder == \A n \in Nat, m \in Nat \ {0} : n < m => n % m = n
OBVIOUS

\* The machine is one of Setups.
LEMMA Sizes ==
    ASSUME TypeOK
    PROVE  /\ PPs \in Nat \ {0} /\ MemSize \in Nat \ {0}
           /\ AMod \in Nat \ {0} /\ AMod > MemSize
           /\ 0 \in Addresses /\ Addresses \subseteq Nat /\ MemSize \notin Addresses
           /\ turn \in PpIds
           /\ \A a \in Addresses : PpIncrement(a) \in Addresses
<1>1. setup \in Setups /\ turn \in PpIds
  BY DEF TypeOK
<1>2. /\ PPs \in Nat \ {0} /\ MemSize \in Nat \ {0}
      /\ AMod \in Nat \ {0} /\ AMod > MemSize
  BY <1>1, PpChannelAssumption DEF PPs, MemSize, AMod
<1>3. /\ 0 \in Addresses /\ Addresses \subseteq Nat /\ MemSize \notin Addresses
  BY <1>2 DEF Addresses
<1>4. \A a \in Addresses : PpIncrement(a) \in Addresses
  BY <1>2, Remainder DEF PpIncrement, Addresses
<1> QED
  BY <1>1, <1>2, <1>3, <1>4

\* Below the last cell the next address is one more.
LEMMA NextCell ==
    ASSUME TypeOK, NEW a \in Addresses, a + 1 < MemSize
    PROVE  PpIncrement(a) = a + 1
<1>1. a + 1 \in Nat /\ MemSize \in Nat \ {0}
  BY Sizes
<1> QED
  BY <1>1, SmallRemainder DEF PpIncrement

\* P stays within the memory however many words an instruction has.
LEMMA Advances ==
    ASSUME TypeOK, NEW a \in Addresses, NEW n \in Nat
    PROVE  (a + n) % MemSize \in Addresses
<1>1. a + n \in Int /\ MemSize \in Nat \ {0}
  BY Sizes
<1>2. (a + n) % MemSize \in 0 .. (MemSize - 1)
  BY <1>1, Remainder
<1> QED
  BY <1>2 DEF Addresses

\* It never becomes another one.
LEMMA SameMachine ==
    ASSUME UNCHANGED setup
    PROVE  /\ PPs' = PPs /\ MemSize' = MemSize /\ AMod' = AMod
           /\ PpIds' = PpIds /\ Addresses' = Addresses /\ NoDevice' = NoDevice
BY DEF PPs, MemSize, AMod, PpIds, Addresses, NoDevice

\* The parts of the type invariant.
StepTypes ==
    turn \in PpIds /\ step \in {"exec", "waits", "input", "take", "output", "outputIo"}
PpTypes ==
    /\ regP \in [PpIds -> Addresses] /\ mem0 \in [PpIds -> Addresses]
    /\ regA \in [PpIds -> 0 .. (AMod - 1)]
    /\ wait \in [PpIds -> {"None"} \cup InWaits \cup OutWaits]
ChanTypes ==
    /\ active \in BOOLEAN /\ full \in BOOLEAN /\ disc \in BOOLEAN
    /\ ioDevice \in {"none", "in", "out"}
WordTypes ==
    /\ put \in Nat /\ data \in 0 .. put /\ taken \in Seq(0 .. put)
    /\ session \in Nat \ {0} /\ dataSession \in 1 .. session
BlockTypes ==
    since \in [PpIds -> 1 .. session] /\ ret \in [PpIds -> Addresses \cup {-1}]

LEMMA TypeParts ==
    TypeOK <=> setup \in Setups /\ StepTypes /\ PpTypes /\ ChanTypes /\ WordTypes /\ BlockTypes
<1>1. {"None"} \cup InWaits \cup OutWaits = {"None", "InOne", "InMany", "OutOne", "OutMany"}
  BY DEF InWaits, OutWaits
<1> QED
  BY <1>1 DEF TypeOK, StepTypes, PpTypes, ChanTypes, WordTypes, BlockTypes

\* The invariant holds at deadstart: PPs that are not started wait for their block.
LEMMA InitIInv == Init => IInv
<1> SUFFICES ASSUME Init PROVE IInv
  OBVIOUS
<1>1. setup \in Setups
  BY DEF Init
<1>2. /\ PPs \in Nat \ {0} /\ MemSize \in Nat \ {0} /\ AMod \in Nat /\ AMod > MemSize
  BY <1>1, PpChannelAssumption DEF PPs, MemSize, AMod
<1>3. 0 \in Addresses /\ MemSize \in 0 .. (AMod - 1) /\ 0 \in PpIds
  BY <1>2 DEF Addresses, PpIds
<1>4. StepTypes /\ ChanTypes /\ WordTypes
  BY <1>3 DEF Init, StepTypes, ChanTypes, WordTypes
<1>5. PpTypes
  BY <1>3 DEF Init, PpTypes, InWaits
<1>6. BlockTypes
  BY <1>3 DEF Init, BlockTypes
<1>7. StepFits /\ Sparing /\ Quiet /\ NewestWord /\ TakenInOrder /\ Shown
  BY DEF Init, StepFits, Sparing, Quiet, NewestWord, TakenInOrder, Shown
<1> QED
  BY <1>1, <1>4, <1>5, <1>6, <1>7, TypeParts DEF IInv

\* Words taken stay words when there are more of them.
LEMMA Wider ==
    ASSUME NEW n \in Nat, NEW s \in Seq(0 .. n)
    PROVE  s \in Seq(0 .. (n + 1)) /\ \A i \in 1 .. Len(s) : s[i] \in 0 .. n
<1>1. 0 .. n \subseteq 0 .. (n + 1)
  OBVIOUS
<1>2. s \in Seq(0 .. (n + 1))
  BY <1>1, SeqMonotonic
<1>3. \A i \in 1 .. Len(s) : s[i] \in 0 .. n
  OBVIOUS
<1> QED
  BY <1>2, <1>3

(***************************************************************************)
(* The channel's device.                                                   *)
(***************************************************************************)
\* A device keeps the words and the channel within their types, and without one nothing
\* happens.
LEMMA DeviceActs ==
    ASSUME IInv, channelIo, UNCHANGED <<setup, session>>
    PROVE  /\ ChanTypes' /\ WordTypes'
           /\ NoDevice => UNCHANGED <<chanVars, wordVars>>
<1> USE DEF channelIo, DeviceIdle, DeviceGives, DeviceEnds, DeviceTakes, Put, wordVars
<1>1. ChanTypes /\ WordTypes
  BY TypeParts DEF IInv
<1>2. ChanTypes'
  BY <1>1 DEF ChanTypes
<1>3. WordTypes'
  <2>1. CASE DeviceGives
    <3>1. taken \in Seq(0 .. (put + 1))
      BY <1>1, Wider DEF WordTypes
    <3> QED
      BY <1>1, <2>1, <3>1 DEF WordTypes
  <2>2. CASE DeviceTakes
    <3>1. Append(taken, data) \in Seq(0 .. put)
      BY <1>1 DEF WordTypes
    <3> QED
      BY <1>1, <2>2, <3>1 DEF WordTypes
  <2>3. CASE UNCHANGED <<data, wordVars>>
    BY <1>1, <2>3 DEF WordTypes
  <2> QED
    BY <2>1, <2>2, <2>3
<1>4. ASSUME NoDevice PROVE UNCHANGED <<chanVars, wordVars>>
  <2>1. ioDevice = "none"
    BY <1>4 DEF IInv, Quiet
  <2> QED
    BY <2>1 DEF chanVars
<1> QED
  BY <1>2, <1>3, <1>4

\* The words and the channel without a device, in a step that touches neither, or lets
\* the device act.
LEMMA WordsStay ==
    ASSUME IInv, UNCHANGED <<setup, session>>,
           UNCHANGED <<chanVars, wordVars>> \/ channelIo
    PROVE  /\ ChanTypes' /\ WordTypes' /\ NewestWord' /\ TakenInOrder'
           /\ NoDevice' => UNCHANGED <<chanVars, wordVars>>
<1>1. ChanTypes' /\ WordTypes'
  <2>1. CASE channelIo
    BY <2>1, DeviceActs
  <2>2. CASE UNCHANGED <<chanVars, wordVars>>
    BY <2>2, TypeParts DEF IInv, ChanTypes, WordTypes, chanVars, wordVars
  <2> QED
    BY <2>1, <2>2
<1>2. NoDevice' = NoDevice /\ (NoDevice => UNCHANGED <<chanVars, wordVars>>)
  BY DeviceActs, SameMachine
<1>3. NewestWord' /\ TakenInOrder'
  BY <1>2 DEF IInv, NewestWord, TakenInOrder, chanVars, wordVars
<1> QED
  BY <1>1, <1>2, <1>3

(***************************************************************************)
(* Instructions.                                                           *)
(***************************************************************************)
\* An instruction that starts no transfer: of the PPs only P and A change.
LEMMA PlainKeeps ==
    ASSUME IInv, NEW p \in PpIds, Executes(p), UNCHANGED <<setup, turn>>,
           UNCHANGED <<wait, session, blockVars>>,
           regP' \in [PpIds -> Addresses], regA' \in [PpIds -> 0 .. (AMod - 1)],
           mem0' \in [PpIds -> Addresses],
           \A q \in PpIds : q # p => UNCHANGED <<regP[q], regA[q], mem0[q]>>,
           UNCHANGED <<chanVars, wordVars>> \/ channelIo
    PROVE  IInv'
<1> USE DEF Executes, blockVars
<1>1. ChanTypes' /\ WordTypes' /\ NewestWord' /\ TakenInOrder'
  BY WordsStay
<1>2. NoDevice' => UNCHANGED <<chanVars, wordVars>>
  BY WordsStay
<1>3. (setup \in Setups /\ StepTypes /\ PpTypes /\ BlockTypes)'
  BY SameMachine, TypeParts DEF IInv, StepTypes, PpTypes, BlockTypes
<1>4. TypeOK'
  BY <1>1, <1>3, TypeParts, PTL
<1>5. StepFits'
  BY DEF StepFits
<1>6. Sparing'
  BY SameMachine DEF IInv, Sparing, PpIncrement
<1>7. Quiet'
  BY <1>2, SameMachine DEF IInv, Quiet, chanVars
<1>8. Shown'
  BY SameMachine DEF IInv, Shown
<1> QED
  BY <1>1, <1>4, <1>5, <1>6, <1>7, <1>8 DEF IInv

\* LDN, AJM, IJM, FJM and EJM.
LEMMA JumpsKeep ==
    ASSUME IInv, UNCHANGED setup, NEW p \in PpIds,
           \/ \E a \in 0 .. MemSize : LoadA(p, a)
           \/ \E loc \in Addresses, sense \in BOOLEAN :
                  JumpActive(p, sense, loc) \/ JumpFull(p, sense, loc)
    PROVE  IInv'
<1>0. /\ PpTypes /\ MemSize \in Nat \ {0} /\ AMod \in Nat \ {0} /\ AMod > MemSize
      /\ Addresses = 0 .. (MemSize - 1)
  BY TypeParts, Sizes DEF IInv, Addresses
<1>1. regP[p] \in Addresses /\ \A n \in Nat : (regP[p] + n) % MemSize \in Addresses
  <2>1. regP[p] \in Addresses
    BY <1>0 DEF PpTypes
  <2> QED
    BY <2>1, Advances DEF IInv
<1>2. Executes(p) /\ UNCHANGED <<setup, turn, mem0, wait, session, blockVars>>
  BY DEF LoadA, JumpActive, JumpFull
<1>3. UNCHANGED <<chanVars, wordVars>> \/ channelIo
  BY DEF LoadA, JumpActive, JumpFull
<1>4. \E a \in Addresses : SetP(p, a)
  BY <1>1 DEF LoadA, JumpActive, JumpFull, NextP
<1>5. UNCHANGED regA \/ \E a \in 0 .. (AMod - 1) : regA' = [regA EXCEPT ![p] = a]
  BY <1>0 DEF LoadA, JumpActive, JumpFull
<1>6. /\ regP' \in [PpIds -> Addresses] /\ regA' \in [PpIds -> 0 .. (AMod - 1)]
      /\ \A q \in PpIds : q # p => UNCHANGED <<regP[q], regA[q], mem0[q]>>
  BY <1>0, <1>2, <1>4, <1>5 DEF PpTypes, SetP
<1>7. mem0' \in [PpIds -> Addresses]
  BY <1>0, <1>2 DEF PpTypes
<1> QED
  BY <1>2, <1>3, <1>6, <1>7, PlainKeeps

\* A PP that waits executes nothing.
LEMMA StoppedKeeps == ASSUME IInv, UNCHANGED setup, NEW p \in PpIds, Stopped(p) PROVE IInv'
<1> USE DEF Stopped, ppVars, blockVars
<1>1. ChanTypes' /\ WordTypes' /\ NewestWord' /\ TakenInOrder'
  BY WordsStay
<1>2. NoDevice' => UNCHANGED <<chanVars, wordVars>>
  BY WordsStay
<1>3. (setup \in Setups /\ StepTypes /\ PpTypes /\ BlockTypes)'
  BY SameMachine, TypeParts DEF IInv, StepTypes, PpTypes, BlockTypes
<1>4. TypeOK'
  BY <1>1, <1>3, TypeParts, PTL
<1>5. StepFits' /\ Sparing'
  BY SameMachine DEF IInv, StepFits, Sparing, PpIncrement
<1>6. Quiet' /\ Shown'
  BY <1>2, SameMachine DEF IInv, Quiet, Shown, chanVars
<1> QED
  BY <1>1, <1>4, <1>5, <1>6 DEF IInv

\* IAN and OAN: the PP stops to wait for one word, on an active channel only.
LEMMA OneKeeps ==
    ASSUME IInv, UNCHANGED setup, NEW p \in PpIds, NEW noHang \in BOOLEAN,
           IAN(p, noHang) \/ OAN(p, noHang)
    PROVE  IInv'
<1> USE DEF IAN, OAN, Executes, Stop, OneRefused, blockVars
<1>0. /\ PpTypes /\ BlockTypes /\ MemSize \in Nat \ {0} /\ Addresses = 0 .. (MemSize - 1)
      /\ p = turn /\ session \in Nat \ {0}
  BY TypeParts, Sizes DEF IInv, Addresses, WordTypes
<1>1. regP[p] \in Addresses /\ \A n \in Nat : (regP[p] + n) % MemSize \in Addresses
  <2>1. regP[p] \in Addresses
    BY <1>0 DEF PpTypes
  <2> QED
    BY <2>1, Advances DEF IInv
<1>2. \E a \in Addresses : SetP(p, a)
  BY <1>1 DEF NextP
<1>3. /\ UNCHANGED <<turn, regA, mem0, chanVars, wordVars, session, ret>>
      /\ wait[p] = "None" /\ step' = "waits"
      /\ \/ UNCHANGED <<wait, since>>
         \/ /\ \E w \in {"InOne", "OutOne"} : wait' = [wait EXCEPT ![p] = w]
            /\ since' = [since EXCEPT ![p] = session]
  OBVIOUS
<1>4. ChanTypes' /\ WordTypes' /\ NewestWord' /\ TakenInOrder'
  BY WordsStay
<1>5. PpTypes'
  BY <1>0, <1>2, <1>3, SameMachine, ZenonT(30) DEF PpTypes, SetP, InWaits, OutWaits
<1>6. BlockTypes'
  BY <1>0, <1>3, SameMachine DEF BlockTypes
<1>7. (setup \in Setups /\ StepTypes)'
  BY <1>3, SameMachine, TypeParts DEF IInv, StepTypes
<1>8. TypeOK'
  BY <1>4, <1>5, <1>6, <1>7, TypeParts, PTL
<1>9. StepFits'
  BY <1>3 DEF StepFits
<1>10. Sparing'
  BY <1>0, <1>2, <1>3, SameMachine, ZenonT(30) DEF IInv, Sparing, PpIncrement, PpTypes, SetP
<1>11. Quiet'
  BY <1>3, SameMachine DEF IInv, Quiet, chanVars
<1>12. Shown'
  BY <1>0, <1>3, SameMachine, ZenonT(30) DEF IInv, Shown, PpTypes, BlockTypes
<1> QED
  BY <1>4, <1>8, <1>9, <1>10, <1>11, <1>12 DEF IInv

\* IAM and OAM begin a block: where to return to is kept in cell 0.
LEMMA BlockKeeps ==
    ASSUME IInv, UNCHANGED setup, NEW p \in PpIds, NEW w \in {"InMany", "OutMany"},
           NEW loc \in Addresses, Executes(p), Block(p, w, loc),
           UNCHANGED <<turn, regA, chanVars, wordVars, session>>
    PROVE  IInv'
<1> USE DEF Executes, Block, Stop, SetP
<1>0. /\ PpTypes /\ BlockTypes /\ p = turn /\ session \in Nat \ {0}
      /\ regP[p] \in Addresses /\ PpIncrement(regP[p]) \in Addresses
      /\ PpIncrement(PpIncrement(regP[p])) \in Addresses
  BY TypeParts, Sizes DEF IInv, PpTypes, WordTypes
<1>1. /\ wait[p] = "None" /\ step' = "waits" /\ wait'[p] = w
      /\ \A q \in PpIds : q # p => UNCHANGED <<wait[q], since[q], ret[q], regP[q], mem0[q]>>
      /\ regP'[p] = loc /\ mem0'[p] = PpIncrement(regP[p]) /\ since'[p] = session
  BY <1>0 DEF PpTypes, BlockTypes
<1>2. ChanTypes' /\ WordTypes' /\ NewestWord' /\ TakenInOrder'
  BY WordsStay
<1>3. PpTypes'
  BY <1>0, SameMachine DEF PpTypes, InWaits, OutWaits
<1>4. BlockTypes'
  BY <1>0, SameMachine DEF BlockTypes
<1>5. (setup \in Setups /\ StepTypes)'
  BY <1>1, SameMachine, TypeParts DEF IInv, StepTypes
<1>6. TypeOK'
  BY <1>2, <1>3, <1>4, <1>5, TypeParts, PTL
<1>7. StepFits'
  BY <1>1 DEF StepFits
<1>8. ret'[p] # -1 => /\ loc > 0 /\ loc + Count(regA[p]) <= MemSize
                      /\ ret'[p] = PpIncrement(mem0'[p])
  BY <1>0, <1>1 DEF BlockTypes
<1>9. ret'[p] # -1 => loc > 0 /\ regA[p] > 0 /\ loc + regA[p] <= MemSize
  <2>1. regA[p] \in Nat /\ loc \in Nat /\ MemSize \in Nat /\ AMod \in Nat /\ AMod > MemSize
    BY <1>0, Sizes DEF IInv, PpTypes
  <2> QED
    BY <1>8, <2>1 DEF Count
<1>10. Sparing'
  BY <1>0, <1>1, <1>8, <1>9, SameMachine DEF IInv, Sparing, PpIncrement
<1>11. Quiet'
  BY <1>1, SameMachine DEF IInv, Quiet, chanVars
<1>12. Shown'
  BY <1>0, <1>1, SameMachine DEF IInv, Shown
<1> QED
  BY <1>2, <1>6, <1>7, <1>10, <1>11, <1>12 DEF IInv

\* IAM on an inactive channel only saves P.
LEMMA BlocksKeep ==
    ASSUME IInv, UNCHANGED setup, NEW p \in PpIds, NEW loc \in Addresses,
           IAM(p, loc) \/ OAM(p, loc)
    PROVE  IInv'
<1>1. CASE \E w \in {"InMany", "OutMany"} : Block(p, w, loc)
  BY <1>1, BlockKeeps DEF IAM, OAM
<1>2. CASE IAM(p, loc) /\ ~active
  <2>1. /\ PpTypes /\ regP[p] \in Addresses /\ PpIncrement(regP[p]) \in Addresses
        /\ (regP[p] + 2) % MemSize \in Addresses
    BY TypeParts, Sizes, Advances DEF IInv, PpTypes
  <2>2. /\ Executes(p) /\ UNCHANGED <<setup, turn, regA, wait, session, blockVars>>
        /\ UNCHANGED <<chanVars, wordVars>>
        /\ mem0' = [mem0 EXCEPT ![p] = PpIncrement(regP[p])]
        /\ regP' = [regP EXCEPT ![p] = (regP[p] + 2) % MemSize]
    BY <1>2 DEF IAM, NextP, SetP, blockVars
  <2>3. /\ regP' \in [PpIds -> Addresses] /\ regA' \in [PpIds -> 0 .. (AMod - 1)]
        /\ mem0' \in [PpIds -> Addresses]
        /\ \A q \in PpIds : q # p => UNCHANGED <<regP[q], regA[q], mem0[q]>>
    BY <2>1, <2>2 DEF PpTypes
  <2> QED
    BY <2>2, <2>3, PlainKeeps
<1> QED
  BY <1>1, <1>2 DEF IAM, OAM

\* ACN and DCN where they are repeated or skipped, FAN and FNC on an active channel.
LEMMA RefusedKeeps ==
    ASSUME IInv, UNCHANGED setup, NEW p \in PpIds, NEW n \in Nat, Executes(p), NextP(p, n),
           UNCHANGED <<turn, regA, mem0, wait, chanVars, wordVars, session, blockVars>>
    PROVE  IInv'
<1>1. PpTypes /\ (regP[p] + n) % MemSize \in Addresses
  BY TypeParts, Advances DEF IInv, PpTypes
<1>2. /\ regP' \in [PpIds -> Addresses] /\ regA' \in [PpIds -> 0 .. (AMod - 1)]
      /\ mem0' \in [PpIds -> Addresses]
      /\ \A q \in PpIds : q # p => UNCHANGED <<regP[q], regA[q], mem0[q]>>
  BY <1>1 DEF PpTypes, NextP, SetP
<1> QED
  BY <1>2, PlainKeeps

\* An instruction that changes the channel and its session, but only P of the PPs, keeps
\* what is said of the PPs.
LEMMA ChannelStep ==
    ASSUME IInv, UNCHANGED setup, NEW p \in PpIds, NEW n \in Nat, Executes(p), NextP(p, n),
           UNCHANGED <<turn, regA, mem0, wait, blockVars, wordVars, data>>,
           ChanTypes', session' \in {session, session + 1}
    PROVE  TypeOK' /\ StepFits' /\ Sparing'
<1> USE DEF Executes, NextP, SetP, blockVars, wordVars
<1>1. /\ PpTypes /\ BlockTypes /\ WordTypes /\ StepTypes /\ setup \in Setups
      /\ (regP[p] + n) % MemSize \in Addresses
  BY TypeParts, Advances DEF IInv, PpTypes
<1>2. PpTypes'
  BY <1>1, SameMachine DEF PpTypes
<1>3. WordTypes'
  BY <1>1 DEF WordTypes
<1>4. BlockTypes'
  <2>1. 1 .. session \subseteq 1 .. session'
    BY <1>1 DEF WordTypes
  <2> QED
    BY <1>1, <2>1, SameMachine DEF BlockTypes
<1>5. (setup \in Setups /\ StepTypes)'
  BY <1>1, SameMachine DEF StepTypes
<1>6. TypeOK'
  BY <1>2, <1>3, <1>4, <1>5, TypeParts, PTL
<1>7. StepFits'
  BY DEF StepFits
<1>8. Sparing'
  BY <1>1, SameMachine DEF IInv, Sparing, PpIncrement, PpTypes
<1> QED
  BY <1>6, <1>7, <1>8

\* ACN: a new session begins only when nobody waits for the old one.
LEMMA ACNKeeps ==
    ASSUME IInv, UNCHANGED setup, NEW p \in PpIds, NEW noHang \in BOOLEAN, ACN(p, noHang)
    PROVE  IInv'
<1>1. CASE active
  <2>1. \E n \in {0, 1} : NextP(p, n)
    BY <1>1 DEF ACN
  <2>2. /\ Executes(p)
        /\ UNCHANGED <<turn, regA, mem0, wait, chanVars, wordVars, session, blockVars>>
    BY <1>1 DEF ACN, chanVars
  <2> QED
    BY <2>1, <2>2, RefusedKeeps
<1>2. CASE ~active
  <2>1. /\ Executes(p) /\ NextP(p, 1) /\ active' = TRUE /\ session' = session + 1
        /\ UNCHANGED <<turn, regA, mem0, wait, full, data, disc, ioDevice, wordVars,
                       blockVars>>
    BY <1>2 DEF ACN, Activate
  <2>2. ChanTypes'
    BY <2>1, TypeParts DEF IInv, ChanTypes
  <2>3. TypeOK' /\ StepFits' /\ Sparing'
    BY <2>1, <2>2, ChannelStep
  <2>4. NoDevice => ~full
    BY <1>2 DEF IInv, Quiet
  <2>5. Quiet' /\ NewestWord' /\ TakenInOrder'
    BY <2>1, <2>4, SameMachine DEF IInv, Quiet, NewestWord, TakenInOrder, wordVars
  <2>6. NoDevice /\ PPs <= 2 => \A q \in PpIds : wait[q] = "None"
    BY <1>2, <2>1 DEF IInv, Shown, Executes
  <2>7. Shown'
    BY <2>1, <2>6, SameMachine DEF Shown
  <2> QED
    BY <2>3, <2>5, <2>7 DEF IInv
<1> QED
  BY <1>1, <1>2

\* DCN: a word nobody took does not survive it.
LEMMA DCNKeeps ==
    ASSUME IInv, UNCHANGED setup, NEW p \in PpIds, NEW noHang \in BOOLEAN, DCN(p, noHang)
    PROVE  IInv'
<1>1. CASE ~active
  <2>1. \E n \in {0, 1} : NextP(p, n)
    BY <1>1 DEF DCN
  <2>2. /\ Executes(p)
        /\ UNCHANGED <<turn, regA, mem0, wait, chanVars, wordVars, session, blockVars>>
    BY <1>1 DEF DCN, chanVars
  <2> QED
    BY <2>1, <2>2, RefusedKeeps
<1>2. CASE active
  <2>1. /\ Executes(p) /\ NextP(p, 1) /\ active' = FALSE
        /\ full' = (full /\ ioDevice # "none")
        /\ UNCHANGED <<turn, regA, mem0, wait, data, disc, ioDevice, wordVars, session,
                       blockVars>>
    BY <1>2 DEF DCN
  <2>2. ChanTypes'
    BY <2>1, TypeParts DEF IInv, ChanTypes
  <2>3. TypeOK' /\ StepFits' /\ Sparing'
    BY <2>1, <2>2, ChannelStep
  <2>4. NoDevice => full' = FALSE
    BY <2>1 DEF IInv, Quiet
  <2>5. Quiet' /\ NewestWord' /\ TakenInOrder' /\ Shown'
    BY <2>1, <2>4, SameMachine DEF IInv, Quiet, NewestWord, TakenInOrder, Shown, Executes,
       wordVars, blockVars
  <2> QED
    BY <2>3, <2>5 DEF IInv
<1> QED
  BY <1>1, <1>2

\* FAN and FNC: without a device there is none that answers.
LEMMA FNCKeeps ==
    ASSUME IInv, UNCHANGED setup, NEW p \in PpIds, NEW words \in 1 .. 2,
           NEW noHang \in BOOLEAN, FNC(p, words, noHang)
    PROVE  IInv'
<1>1. CASE active
  <2>1. \E n \in {0, 1} : NextP(p, n)
    BY <1>1 DEF FNC
  <2>2. /\ Executes(p)
        /\ UNCHANGED <<turn, regA, mem0, wait, chanVars, wordVars, session, blockVars>>
    BY <1>1 DEF FNC
  <2> QED
    BY <2>1, <2>2, RefusedKeeps
<1>2. CASE ~active
  <2>1. PICK r \in setup.replies : Function(r)
    BY <1>2 DEF FNC
  <2>2. r \in {"in", "out", "processed", "declined"} /\ ~NoDevice
    BY <2>1, TypeParts, PpChannelAssumption DEF IInv, NoDevice
  <2>3. /\ Executes(p) /\ NextP(p, words)
        /\ UNCHANGED <<turn, regA, mem0, wait, blockVars, wordVars, data, disc>>
    BY <1>2 DEF FNC
  <2>4. ChanTypes' /\ session' \in {session, session + 1}
    BY <2>1, <2>2, <2>3, TypeParts DEF IInv, ChanTypes, Function, Activate
  <2>5. TypeOK' /\ StepFits' /\ Sparing'
    BY <2>3, <2>4, ChannelStep
  <2>6. Quiet' /\ NewestWord' /\ TakenInOrder' /\ Shown'
    BY <2>2, SameMachine DEF Quiet, NewestWord, TakenInOrder, Shown
  <2> QED
    BY <2>5, <2>6 DEF IInv
<1> QED
  BY <1>1, <1>2

\* Whatever the PP at its turn executes.
LEMMA ExecuteKeeps == ASSUME IInv, UNCHANGED setup, NEW p \in PpIds, Execute(p) PROVE IInv'
BY StoppedKeeps, JumpsKeep, BlocksKeep, OneKeeps, ACNKeeps, DCNKeeps, FNCKeeps DEF Execute

(***************************************************************************)
(* The words of a block.                                                   *)
(***************************************************************************)
\* The rest of the block of PP p spares cell 0, or the block is over and P is behind its
\* instruction; nothing changes for the other PPs.
BlockGoesOn(p) ==
    /\ PpTypes' /\ UNCHANGED blockVars
    /\ \A q \in PpIds : q # p => UNCHANGED <<wait[q], regP[q], regA[q], mem0[q]>>
    /\ wait'[p] \in {wait[p], "None"}
    /\ ret[p] # -1 /\ wait[p] \in {"InMany", "OutMany"} =>
          IF wait'[p] = "None"
          THEN regP'[p] = ret[p]
          ELSE /\ regP'[p] > 0 /\ regA'[p] > 0 /\ regP'[p] + regA'[p] <= MemSize
               /\ ret[p] = PpIncrement(mem0'[p])

LEMMA GoesOnSparing ==
    ASSUME IInv, UNCHANGED setup, NEW p \in PpIds, BlockGoesOn(p)
    PROVE  Sparing'
BY SameMachine DEF IInv, Sparing, BlockGoesOn, blockVars, PpIncrement

\* The count of words left, and P, of a block that spares cell 0.
LEMMA WordCounts ==
    ASSUME IInv, NEW p \in PpIds
    PROVE  /\ (regA[p] - 1) % AMod \in 0 .. (AMod - 1)
           /\ regA[p] \in Nat /\ regP[p] \in Nat
           /\ ret[p] # -1 /\ wait[p] \in {"InMany", "OutMany"} =>
                 /\ (regA[p] - 1) % AMod = regA[p] - 1
                 /\ regA[p] > 1 => PpIncrement(regP[p]) = regP[p] + 1
                 /\ regP[p] + regA[p] <= MemSize
                 /\ regP[p] > 0 /\ regA[p] > 0
                 /\ ret[p] = PpIncrement(mem0[p])
<1>1. /\ TypeOK /\ PpTypes /\ regP[p] \in Addresses /\ regA[p] \in 0 .. (AMod - 1)
  BY TypeParts DEF IInv, PpTypes
<1>2. /\ regA[p] \in Nat /\ regP[p] \in Nat /\ regA[p] < AMod /\ AMod \in Nat \ {0}
      /\ MemSize \in Nat
  BY <1>1, Sizes
<1>3. (regA[p] - 1) % AMod \in 0 .. (AMod - 1)
  <2>1. regA[p] - 1 \in Int
    BY <1>2
  <2> QED
    BY <1>2, <2>1, Remainder
<1>4. regA[p] > 0 => (regA[p] - 1) % AMod = regA[p] - 1
  <2>1. regA[p] > 0 => regA[p] - 1 \in Nat /\ regA[p] - 1 < AMod
    BY <1>2
  <2> QED
    BY <1>2, <2>1, SmallRemainder
<1>5. regA[p] > 1 /\ regP[p] + regA[p] <= MemSize => PpIncrement(regP[p]) = regP[p] + 1
  <2>1. regA[p] > 1 /\ regP[p] + regA[p] <= MemSize => regP[p] + 1 < MemSize
    BY <1>2
  <2> QED
    BY <1>1, <2>1, NextCell
<1>6. ret[p] # -1 /\ wait[p] \in {"InMany", "OutMany"} =>
          /\ regP[p] > 0 /\ regA[p] > 0 /\ regP[p] + regA[p] <= MemSize
          /\ ret[p] = PpIncrement(mem0[p])
  BY DEF IInv, Sparing
<1> QED
  BY <1>2, <1>3, <1>4, <1>5, <1>6

\* A word of input.
LEMMA TakeWord ==
    ASSUME IInv, UNCHANGED <<setup, blockVars>>, NEW p \in PpIds,
           \/ wait[p] = "InOne" /\ TakeOne(p)
           \/ wait[p] = "InMany" /\ TakeMany(p)
    PROVE  BlockGoesOn(p)
<1> USE DEF SetP, EndBlock
<1>1. /\ PpTypes /\ AMod \in Nat \ {0} /\ AMod > MemSize /\ MemSize \in Nat
      /\ regP[p] \in Addresses /\ regA[p] \in 0 .. (AMod - 1) /\ mem0[p] \in Addresses
      /\ PpIncrement(regP[p]) \in Addresses /\ 0 \in Addresses
      /\ \A a \in Addresses : PpIncrement(a) \in Addresses
  BY TypeParts, Sizes DEF IInv, PpTypes
<1>2. CASE wait[p] = "InOne" /\ TakeOne(p)
  <2>1. \A a \in 0 .. MemSize : a \in 0 .. (AMod - 1)
    BY <1>1
  <2>2. PpTypes'
    BY <1>1, <1>2, <2>1, SameMachine DEF TakeOne, PpTypes
  <2> QED
    BY <1>1, <1>2, <2>2 DEF BlockGoesOn, TakeOne, PpTypes
<1>3. CASE wait[p] = "InMany" /\ TakeMany(p)
  <2> DEFINE left == (regA[p] - 1) % AMod
             next == PpIncrement(regP[p])
  <2>1. PICK m \in IF regP[p] = 0 THEN Addresses ELSE {mem0[p]} :
            /\ regA' = [regA EXCEPT ![p] = left]
            /\ IF disc \/ left = 0
               THEN EndBlock(p, IF left # 0 /\ next = 0 THEN 0 ELSE m)
               ELSE /\ SetP(p, next)
                    /\ mem0' = [mem0 EXCEPT ![p] = m]
                    /\ UNCHANGED wait
    BY <1>3 DEF TakeMany
  <2>2. left \in 0 .. (AMod - 1) /\ m \in Addresses /\ next \in Addresses
    BY <1>1, WordCounts
  <2> HIDE DEF left, next
  <2>3. PpTypes'
    BY <1>1, <2>1, <2>2, SameMachine DEF PpTypes
  <2>4. /\ \A q \in PpIds : q # p => UNCHANGED <<wait[q], regP[q], regA[q], mem0[q]>>
        /\ wait'[p] \in {wait[p], "None"}
        /\ regA'[p] = left
    BY <1>1, <2>1 DEF PpTypes
  <2>5. ASSUME ret[p] # -1
        PROVE  IF wait'[p] = "None"
               THEN regP'[p] = ret[p]
               ELSE /\ regP'[p] > 0 /\ regA'[p] > 0 /\ regP'[p] + regA'[p] <= MemSize
                    /\ ret[p] = PpIncrement(mem0'[p])
    <3>1. /\ left = regA[p] - 1 /\ regA[p] \in Nat /\ regP[p] \in Nat
          /\ regA[p] > 1 => next = regP[p] + 1
          /\ regP[p] + regA[p] <= MemSize /\ regP[p] > 0 /\ regA[p] > 0
          /\ ret[p] = PpIncrement(mem0[p])
      BY <1>3, <2>5, WordCounts DEF left, next
    <3>2. m = mem0[p]
      BY <2>1, <3>1
    <3>3. left # 0 => next > 0 /\ left > 0 /\ next + left <= MemSize
      BY <1>1, <3>1
    <3>4. CASE disc \/ left = 0
      <4>1. EndBlock(p, m)
        BY <2>1, <3>3, <3>4
      <4> QED
        BY <1>1, <3>1, <3>2, <4>1 DEF PpTypes
    <3>5. CASE ~(disc \/ left = 0)
      <4>1. /\ regP'[p] = next /\ mem0'[p] = m /\ wait'[p] = "InMany"
        BY <1>1, <1>3, <2>1, <3>5 DEF PpTypes
      <4> QED
        BY <2>4, <3>1, <3>2, <3>3, <3>5, <4>1
    <3> QED
      BY <3>4, <3>5
  <2> QED
    BY <2>3, <2>4, <2>5 DEF BlockGoesOn
<1> QED
  BY <1>2, <1>3

\* A word of output.
LEMMA GiveOne ==
    ASSUME IInv, UNCHANGED <<setup, blockVars>>, NEW p \in PpIds, wait[p] \in OutWaits,
           GiveWord(p)
    PROVE  BlockGoesOn(p) /\ (wait[p] = "OutOne" => wait'[p] = "None")
<1> USE DEF SetP, EndBlock, OutWaits
<1>1. /\ PpTypes /\ mem0[p] \in Addresses
      /\ PpIncrement(regP[p]) \in Addresses /\ PpIncrement(mem0[p]) \in Addresses
      /\ (regA[p] - 1) % AMod \in 0 .. (AMod - 1)
  BY TypeParts, Sizes, WordCounts DEF IInv, PpTypes
<1>2. CASE wait[p] = "OutOne"
  BY <1>1, <1>2, SameMachine DEF GiveWord, BlockGoesOn, PpTypes
<1>3. CASE wait[p] = "OutMany"
  <2> DEFINE left == (regA[p] - 1) % AMod
             next == PpIncrement(regP[p])
  <2>1. /\ regA' = [regA EXCEPT ![p] = left] /\ regA'[p] = left
        /\ IF left = 0
           THEN EndBlock(p, mem0[p])
           ELSE SetP(p, next) /\ UNCHANGED <<mem0, wait>>
    BY <1>1, <1>3 DEF GiveWord, PpTypes
  <2>2. left \in 0 .. (AMod - 1) /\ next \in Addresses
    BY <1>1
  <2> HIDE DEF left, next
  <2>3. PpTypes'
    BY <1>1, <2>1, <2>2, SameMachine DEF PpTypes
  <2>4. /\ \A q \in PpIds : q # p => UNCHANGED <<wait[q], regP[q], regA[q], mem0[q]>>
        /\ wait'[p] \in {wait[p], "None"}
    BY <1>1, <2>1 DEF PpTypes
  <2>5. ASSUME ret[p] # -1
        PROVE  IF wait'[p] = "None"
               THEN regP'[p] = ret[p]
               ELSE /\ regP'[p] > 0 /\ regA'[p] > 0 /\ regP'[p] + regA'[p] <= MemSize
                    /\ ret[p] = PpIncrement(mem0'[p])
    <3>1. /\ left = regA[p] - 1 /\ regA[p] \in Nat /\ regP[p] \in Nat
          /\ regA[p] > 1 => next = regP[p] + 1
          /\ regP[p] + regA[p] <= MemSize /\ regP[p] > 0 /\ regA[p] > 0
          /\ ret[p] = PpIncrement(mem0[p])
      BY <1>3, <2>5, WordCounts DEF left, next
    <3>2. MemSize \in Nat
      BY Sizes DEF IInv
    <3>3. left # 0 => next > 0 /\ left > 0 /\ next + left <= MemSize
      BY <3>1, <3>2
    <3>4. CASE left = 0
      BY <1>1, <2>1, <3>1, <3>4 DEF PpTypes
    <3>5. CASE left # 0
      <4>1. regP'[p] = next /\ mem0'[p] = mem0[p] /\ wait'[p] = "OutMany"
        BY <1>1, <1>3, <2>1, <3>5 DEF PpTypes
      <4> QED
        BY <2>1, <3>1, <3>3, <3>5, <4>1
    <3> QED
      BY <3>4, <3>5
  <2> QED
    BY <1>3, <2>3, <2>4, <2>5 DEF BlockGoesOn
<1> QED
  BY <1>2, <1>3

\* The channel was deactivated: a zero is stored, and the PP goes on.
LEMMA WaitEnded ==
    ASSUME IInv, UNCHANGED <<setup, blockVars>>, NEW p \in PpIds, wait[p] # "None",
           WaitEnds(p)
    PROVE  BlockGoesOn(p) /\ wait'[p] = "None"
<1> USE DEF SetP, EndBlock
<1>1. /\ PpTypes /\ mem0[p] \in Addresses /\ ZeroAt(p) \in Addresses
      /\ PpIncrement(ZeroAt(p)) \in Addresses /\ PpIncrement(mem0[p]) \in Addresses
      /\ 0 \in 0 .. (AMod - 1)
  BY TypeParts, Sizes DEF IInv, PpTypes, ZeroAt
<1>2. PpTypes'
  BY <1>1, SameMachine DEF WaitEnds, PpTypes
<1>3. /\ \A q \in PpIds : q # p => UNCHANGED <<wait[q], regP[q], regA[q], mem0[q]>>
      /\ wait'[p] = "None"
  BY <1>1 DEF WaitEnds, PpTypes
<1>4. ASSUME ret[p] # -1, wait[p] \in {"InMany", "OutMany"}
      PROVE  regP'[p] = ret[p]
  <2>1. ret[p] = PpIncrement(mem0[p]) /\ ZeroAt(p) = mem0[p]
    BY <1>4, WordCounts DEF ZeroAt
  <2> QED
    BY <1>1, <1>4, <2>1 DEF WaitEnds, PpTypes
<1> QED
  BY <1>2, <1>3, <1>4 DEF BlockGoesOn

(***************************************************************************)
(* The rest of ppStep.                                                     *)
(***************************************************************************)
\* Round the barrel; with two PPs it is the other one's turn.
LEMMA Barrel ==
    ASSUME IInv, UNCHANGED setup, NextPp
    PROVE  /\ StepTypes' /\ StepFits' /\ step' = "exec"
           /\ PPs <= 2 => \A q \in PpIds : q # turn => turn' = q
<1>1. PPs \in Nat \ {0} /\ turn \in 0 .. (PPs - 1)
  BY Sizes DEF IInv, PpIds
<1>2. turn' \in PpIds
  BY <1>1, Remainder DEF NextPp, PpIds
<1>3. ASSUME PPs <= 2, NEW q \in PpIds, q # turn PROVE turn' = q
  <2>1. PPs = 2 /\ q \in {0, 1} /\ turn \in {0, 1}
    BY <1>1, <1>3 DEF PpIds
  <2>2. turn' = (turn + 1) % 2
    BY <2>1 DEF NextPp
  <2> QED
    BY <1>3, <2>1, <2>2
<1> QED
  BY <1>2, <1>3, SameMachine DEF NextPp, StepTypes, StepFits

\* A waiting PP is shown that the channel is inactive, or goes on to its loop.
LEMMA WaitsKeep == ASSUME IInv, UNCHANGED setup, NEW p \in PpIds, Waits(p) PROVE IInv'
<1>0. p = turn /\ UNCHANGED <<wordVars, session, blockVars>>
  BY DEF Waits
<1>1. CASE wait[p] # "None" /\ ~active
  <2>1. /\ WaitEnds(p) /\ NextPp /\ ioDevice' = "none" /\ full' = FALSE
        /\ UNCHANGED <<active, data, disc>>
    BY <1>1 DEF Waits, WaitEnds
  <2>2. BlockGoesOn(p) /\ wait'[p] = "None"
    BY <1>0, <1>1, <2>1, WaitEnded
  <2>3. Sparing' /\ PpTypes' /\ StepTypes' /\ StepFits'
    BY <2>1, <2>2, GoesOnSparing, Barrel DEF BlockGoesOn
  <2>4. ChanTypes' /\ WordTypes' /\ BlockTypes' /\ (setup \in Setups)'
    BY <1>0, <2>1, SameMachine, TypeParts DEF IInv, ChanTypes, WordTypes, BlockTypes,
       wordVars, blockVars
  <2>5. TypeOK'
    BY <2>3, <2>4, TypeParts, PTL
  <2>6. Quiet' /\ NewestWord' /\ TakenInOrder'
    BY <1>0, <1>1, <2>1, Barrel, SameMachine DEF IInv, Quiet, NewestWord, TakenInOrder, wordVars
  <2>7. Shown'
    <3>1. \A q \in PpIds : wait'[q] # "None" => q # p /\ wait'[q] = wait[q]
      BY <2>2 DEF BlockGoesOn
    <3> QED
      BY <1>0, <2>1, <3>1, Barrel, SameMachine DEF IInv, Shown, blockVars
  <2> QED
    BY <2>3, <2>5, <2>6, <2>7 DEF IInv
<1>2. CASE ~(wait[p] # "None" /\ ~active)
  <2>1. WaitStays(p) /\ UNCHANGED <<ppVars, chanVars>>
    BY <1>2 DEF Waits, WaitStays
  <2>2. PpTypes /\ wait[p] \in {"None"} \cup InWaits \cup OutWaits
    BY TypeParts DEF IInv, PpTypes
  <2>3. \/ wait[p] = "None" /\ NextPp
        \/ /\ wait[p] \in InWaits /\ step' = "input" /\ turn' = turn /\ active
        \/ /\ wait[p] \in OutWaits /\ step' = "output" /\ turn' = turn /\ active
    BY <1>2, <2>1, <2>2 DEF WaitStays, InWaits, OutWaits
  <2>4. StepTypes' /\ StepFits'
    <3>1. CASE NextPp
      BY <3>1, Barrel
    <3>2. CASE ~NextPp
      BY <1>0, <2>1, <2>3, <3>2, SameMachine DEF StepTypes, StepFits, ppVars
    <3> QED
      BY <3>1, <3>2
  <2>5. ChanTypes' /\ WordTypes' /\ NewestWord' /\ TakenInOrder'
    BY <1>0, <2>1, WordsStay
  <2>6. PpTypes' /\ BlockTypes' /\ (setup \in Setups)'
    BY <1>0, <2>1, <2>2, SameMachine, TypeParts DEF IInv, PpTypes, BlockTypes, ppVars,
       blockVars
  <2>7. TypeOK'
    BY <2>4, <2>5, <2>6, TypeParts, PTL
  <2>8. Sparing'
    BY <1>0, <2>1, SameMachine DEF IInv, Sparing, PpIncrement, ppVars, blockVars
  <2>9. Quiet'
    BY <1>0, <2>1, <2>3, SameMachine DEF IInv, Quiet, NextPp, chanVars
  <2>10. Shown'
    <3>1. CASE NextPp
      BY <1>0, <2>1, <2>3, <3>1, Barrel, SameMachine DEF IInv, Shown, ppVars, blockVars,
         chanVars, InWaits, OutWaits
    <3>2. CASE ~NextPp
      BY <1>0, <2>1, <2>3, <3>2, SameMachine DEF IInv, Shown, ppVars, blockVars, chanVars
    <3> QED
      BY <3>1, <3>2
  <2> QED
    BY <2>4, <2>5, <2>7, <2>8, <2>9, <2>10 DEF IInv
<1> QED
  BY <1>1, <1>2

\* A step of a loop in which at most the device acts.
LEMMA LoopKeeps ==
    ASSUME IInv, UNCHANGED <<setup, ppVars, session, blockVars>>,
           step \in {"input", "take", "output", "outputIo"},
           UNCHANGED <<chanVars, wordVars>> \/ channelIo,
           \/ NextPp
           \/ turn' = turn /\ step' = "take" /\ wait[turn] \in InWaits
           \/ turn' = turn /\ step' = "output" /\ wait[turn] \in OutWaits
    PROVE  IInv'
<1> USE DEF ppVars, blockVars
<1>1. ChanTypes' /\ WordTypes' /\ NewestWord' /\ TakenInOrder'
  BY WordsStay
<1>2. NoDevice' = NoDevice /\ (NoDevice => UNCHANGED <<chanVars, wordVars>>)
  BY WordsStay, SameMachine
<1>3. NoDevice => active /\ active'
  BY <1>2 DEF IInv, Quiet, chanVars
<1>4. StepTypes' /\ StepFits'
  <2>1. CASE NextPp
    BY <2>1, Barrel
  <2>2. CASE ~NextPp
    BY <2>2, SameMachine, TypeParts DEF IInv, StepTypes, StepFits
  <2> QED
    BY <2>1, <2>2
<1>5. (setup \in Setups /\ PpTypes /\ BlockTypes)'
  BY SameMachine, TypeParts DEF IInv, PpTypes, BlockTypes
<1>6. TypeOK'
  BY <1>1, <1>4, <1>5, TypeParts, PTL
<1>7. Sparing'
  BY SameMachine DEF IInv, Sparing, PpIncrement
<1>8. Quiet' /\ Shown'
  BY <1>2, <1>3, SameMachine DEF IInv, Quiet, Shown, chanVars
<1> QED
  BY <1>1, <1>4, <1>6, <1>7, <1>8 DEF IInv

LEMMA InputKeeps == ASSUME IInv, UNCHANGED setup, NEW p \in PpIds, Input(p) PROVE IInv'
<1>1. wait[turn] \in InWaits
  BY DEF Input, IInv, StepFits
<1> QED
  BY <1>1, LoopKeeps DEF Input

LEMMA OutputIoKeeps ==
    ASSUME IInv, UNCHANGED setup, NEW p \in PpIds, OutputIo(p)
    PROVE  IInv'
<1>1. wait[turn] # "None" => wait[turn] \in OutWaits
  BY DEF OutputIo, IInv, StepFits, OutWaits
<1> QED
  BY <1>1, LoopKeeps DEF OutputIo

\* A word larger than those before it keeps a sequence in order.
LEMMA OrderAppend ==
    ASSUME NEW s \in Seq(Nat), NEW w \in Nat,
           \A i, j \in 1 .. Len(s) : i < j => s[i] < s[j],
           \A i \in 1 .. Len(s) : s[i] < w
    PROVE  \A i, j \in 1 .. Len(Append(s, w)) :
               i < j => Append(s, w)[i] < Append(s, w)[j]
<1> SUFFICES ASSUME NEW i \in 1 .. Len(Append(s, w)), NEW j \in 1 .. Len(Append(s, w)), i < j
             PROVE  Append(s, w)[i] < Append(s, w)[j]
  OBVIOUS
<1>1. Len(Append(s, w)) = Len(s) + 1 /\ Len(s) \in Nat
  OBVIOUS
<1>2. i \in 1 .. Len(s) /\ Append(s, w)[i] = s[i]
  BY <1>1
<1>3. CASE j \in 1 .. Len(s)
  BY <1>2, <1>3
<1>4. CASE j = Len(s) + 1
  BY <1>2, <1>4
<1> QED
  BY <1>1, <1>3, <1>4

\* A word is taken, and the loop looks for more.
LEMMA TakeKeeps == ASSUME IInv, UNCHANGED setup, NEW p \in PpIds, Take(p) PROVE IInv'
<1>1. p = turn /\ wait[p] \in {"InOne", "InMany"} /\ step = "take"
  BY DEF Take, IInv, StepFits, InWaits
<1>2. CASE ~full
  BY <1>1, <1>2, LoopKeeps DEF Take, chanVars, wordVars
<1>3. CASE full
  <2>1. /\ IF wait[p] = "InOne" THEN TakeOne(p) ELSE TakeMany(p)
        /\ taken' = Append(taken, data) /\ full' = FALSE /\ disc' = FALSE
        /\ active' = (active /\ ~disc)
        /\ ioDevice' = IF disc THEN "none" ELSE ioDevice
        /\ UNCHANGED <<data, put, dataSession, session, blockVars>>
    BY <1>3 DEF Take
  <2>2. BlockGoesOn(p)
    BY <1>1, <2>1, TakeWord
  <2>3. NextPp \/ (wait'[p] # "None" /\ step' = "input" /\ turn' = turn)
    BY <1>3 DEF Take
  <2>4. StepTypes' /\ StepFits'
    <3>1. CASE NextPp
      BY <3>1, Barrel
    <3>2. CASE ~NextPp
      BY <1>1, <2>2, <2>3, <3>2, SameMachine DEF StepTypes, StepFits, BlockGoesOn, InWaits
    <3> QED
      BY <3>1, <3>2
  <2>5. WordTypes'
    <3>1. Append(taken, data) \in Seq(0 .. put)
      BY TypeParts DEF IInv, WordTypes
    <3> QED
      BY <2>1, <3>1, TypeParts DEF IInv, WordTypes
  <2>6. ChanTypes' /\ BlockTypes' /\ (setup \in Setups)'
    BY <2>1, SameMachine, TypeParts DEF IInv, ChanTypes, BlockTypes, blockVars
  <2>7. PpTypes' /\ Sparing'
    BY <2>2, GoesOnSparing DEF BlockGoesOn
  <2>8. TypeOK'
    BY <2>4, <2>5, <2>6, <2>7, TypeParts, PTL
  <2>9. NoDevice => active /\ ~disc /\ ioDevice = "none"
    BY <1>1 DEF IInv, Quiet
  <2>10. Quiet' /\ NewestWord'
    <3>1. NoDevice => active' /\ ioDevice' = "none"
      BY <2>1, <2>9, Zenon
    <3>2. ~disc' /\ ~full'
      BY <2>1
    <3> QED
      BY <3>1, <3>2, SameMachine DEF Quiet, NewestWord
  <2>11. TakenInOrder'
    <3>1. ASSUME NoDevice
          PROVE  \A i, j \in 1 .. Len(taken') : i < j => taken'[i] < taken'[j]
      <4>1. data \in Nat /\ \A i \in 1 .. Len(taken) : taken[i] < data
        BY <1>3, <3>1, TypeParts DEF IInv, NewestWord, WordTypes
      <4>2. taken \in Seq(Nat)
        <5>1. taken \in Seq(0 .. put) /\ 0 .. put \subseteq Nat
          BY TypeParts DEF IInv, WordTypes
        <5> QED
          BY <5>1, SeqMonotonic
      <4> QED
        BY <2>1, <3>1, <4>1, <4>2, OrderAppend DEF IInv, TakenInOrder
    <3> QED
      BY <3>1, SameMachine DEF TakenInOrder
  <2>12. Shown'
    <3>1. \A q \in PpIds : wait'[q] # "None" => wait[q] # "None"
      BY <2>2 DEF BlockGoesOn
    <3> QED
      BY <2>1, <2>9, <3>1, SameMachine DEF IInv, Shown, blockVars
  <2> QED
    BY <2>4, <2>7, <2>8, <2>10, <2>11, <2>12 DEF IInv
<1> QED
  BY <1>2, <1>3

\* A word is put on the empty channel.
LEMMA OutputKeeps == ASSUME IInv, UNCHANGED setup, NEW p \in PpIds, Output(p) PROVE IInv'
<1>1. p = turn /\ wait[p] \in OutWaits /\ step = "output"
  BY DEF Output, IInv, StepFits
<1>2. CASE full
  BY <1>1, <1>2, LoopKeeps DEF Output, chanVars, ppVars
<1>3. CASE ~full
  <2>1. /\ Put /\ full' = TRUE /\ GiveWord(p) /\ step' = "outputIo"
        /\ UNCHANGED <<turn, taken, active, disc, ioDevice, session, blockVars>>
    BY <1>3 DEF Output
  <2>2. BlockGoesOn(p) /\ (wait[p] = "OutOne" => wait'[p] = "None")
    BY <1>1, <2>1, GiveOne
  <2>3. StepTypes'
    BY <2>1, SameMachine, TypeParts DEF IInv, StepTypes
  <2>4. StepFits'
    BY <1>1, <2>1, <2>2 DEF StepFits, BlockGoesOn, OutWaits
  <2>5. WordTypes'
    <3>1. /\ put \in Nat /\ session \in Nat \ {0} /\ taken \in Seq(0 .. (put + 1))
      BY TypeParts, Wider DEF IInv, WordTypes
    <3> QED
      BY <2>1, <3>1 DEF WordTypes, Put
  <2>6. ChanTypes' /\ BlockTypes' /\ (setup \in Setups)'
    BY <2>1, SameMachine, TypeParts DEF IInv, ChanTypes, BlockTypes, blockVars
  <2>7. PpTypes' /\ Sparing'
    BY <2>2, GoesOnSparing DEF BlockGoesOn
  <2>8. TypeOK'
    BY <2>3, <2>5, <2>6, <2>7, TypeParts, PTL
  <2>9. NoDevice => active
    BY <1>1 DEF IInv, Quiet
  <2>10. Quiet' /\ TakenInOrder'
    BY <2>1, <2>9, SameMachine DEF IInv, Quiet, TakenInOrder
  <2>11. NewestWord'
    <3>1. put \in Nat /\ \A i \in 1 .. Len(taken) : taken[i] \in 0 .. put
      BY TypeParts, Wider DEF IInv, WordTypes
    <3>2. \A i \in 1 .. Len(taken) : taken[i] < put + 1
      BY <3>1
    <3> QED
      BY <2>1, <3>2 DEF NewestWord, Put
  <2>12. Shown'
    <3>1. \A q \in PpIds : wait'[q] # "None" => wait[q] # "None"
      BY <2>2 DEF BlockGoesOn
    <3> QED
      BY <2>1, <2>9, <3>1, SameMachine DEF IInv, Shown, blockVars
  <2> QED
    BY <2>4, <2>7, <2>8, <2>10, <2>11, <2>12 DEF IInv
<1> QED
  BY <1>2, <1>3

-----------------------------------------------------------------------------
(***************************************************************************)
(* The theorems.                                                           *)
(***************************************************************************)
\* The invariant holds in every state of every machine.
THEOREM Invariance == Spec => []IInv
<1>1. IInv /\ [Next]_vars => IInv'
  <2> SUFFICES ASSUME IInv, [Next]_vars PROVE IInv'
    OBVIOUS
  <2>1. ASSUME UNCHANGED setup, NEW p \in PpIds, Execute(p) \/ Move(p) PROVE IInv'
    BY <2>1, ExecuteKeeps, WaitsKeep, InputKeeps, TakeKeeps, OutputKeeps, OutputIoKeeps
       DEF Move
  <2>2. CASE UNCHANGED vars
    <3>1. /\ StepTypes' /\ PpTypes' /\ ChanTypes' /\ WordTypes' /\ BlockTypes'
          /\ (setup \in Setups)'
      BY <2>2, SameMachine, TypeParts DEF vars, ppVars, chanVars, wordVars, blockVars, IInv,
         StepTypes, PpTypes, ChanTypes, WordTypes, BlockTypes
    <3>2. TypeOK'
      BY <3>1, TypeParts, PTL
    <3>3. (StepFits /\ Sparing /\ Quiet /\ NewestWord /\ TakenInOrder /\ Shown)'
      BY <2>2, SameMachine DEF vars, ppVars, chanVars, wordVars, blockVars, IInv, StepFits,
         Sparing, Quiet, NewestWord, TakenInOrder, Shown, PpIncrement
    <3> QED
      BY <3>2, <3>3 DEF IInv
  <2> QED
    BY <2>1, <2>2 DEF Next
<1> QED
  BY <1>1, InitIInv, PTL DEF Spec

\* ChannelSafe, for every number of PPs, memory size and length of transfers: words come
\* off a channel without a device in the order they were put on it, and none twice.
THEOREM ChannelCorrect == Spec => []ChannelSafe
<1>1. IInv => ChannelSafe
  BY DEF IInv, ChannelSafe
<1> QED
  BY <1>1, Invariance, PTL

\* No step loses a word of an active channel or puts another in its place.
LEMMA StepKeepsWord ==
    ASSUME [Next]_vars, full, active, active'
    PROVE  (full' /\ data' = data) \/ taken' = Append(taken, data)
<1>1. CASE UNCHANGED vars
  BY <1>1 DEF vars, chanVars
<1>2. ASSUME NEW p \in PpIds, Execute(p) PROVE (full' /\ data' = data) \/ taken' = Append(taken, data)
  BY <1>2 DEF Execute, Stopped, LoadA, JumpActive, JumpFull, IAN, OAN, IAM, OAM, ACN, DCN, FNC,
     channelIo, DeviceIdle, DeviceGives, DeviceEnds, DeviceTakes, chanVars
<1>3. ASSUME NEW p \in PpIds, Move(p) PROVE (full' /\ data' = data) \/ taken' = Append(taken, data)
  BY <1>3 DEF Move, Waits, WaitStays, Input, Take, Output, OutputIo,
     channelIo, DeviceIdle, DeviceGives, DeviceEnds, DeviceTakes, chanVars
<1> QED
  BY <1>1, <1>2, <1>3 DEF Next

\* A word that is taken from a channel without a device is of the session in which the
\* transfer began, with two PPs.
LEMMA StepKeepsSession ==
    ASSUME IInv, [Next]_vars, NoDevice, PPs <= 2, taken' # taken
    PROVE  since[turn] = session /\ dataSession = session
<1>1. ASSUME channelIo, UNCHANGED <<setup, session>> PROVE FALSE
  BY <1>1, DeviceActs DEF wordVars
<1>2. PICK p \in PpIds : UNCHANGED setup /\ (Execute(p) \/ Move(p))
  BY DEF Next, vars, wordVars
<1>3. ~Execute(p)
  BY <1>1, <1>2 DEF Execute, Stopped, LoadA, JumpActive, JumpFull, IAN, OAN, IAM, OAM, ACN,
     DCN, FNC, wordVars
<1>4. ~(Waits(p) \/ Input(p) \/ Output(p) \/ OutputIo(p))
  BY <1>1, <1>2 DEF Waits, Input, Output, OutputIo, wordVars
<1>5. Take(p) /\ full
  BY <1>2, <1>3, <1>4 DEF Move, Take
<1>6. wait[turn] # "None" /\ turn \in PpIds
  BY <1>5, TypeParts DEF IInv, Take, StepFits, InWaits, StepTypes
<1> QED
  BY <1>5, <1>6 DEF IInv, NewestWord, Shown

\* WordsKept, for every memory size and length of transfers, and a device that does what
\* it likes: while a channel stays active its word is neither overwritten nor dropped,
\* and no transfer between the two PPs of a channel without a device runs on into the
\* next session.
THEOREM ChannelKeepsWords ==
    ASSUME \A s \in Setups : s.replies = {} => s.pps <= 2
    PROVE  Spec => WordsKept
<1>1. [Next]_vars => [full /\ active /\ active' => \/ full' /\ data' = data
                                                   \/ taken' = Append(taken, data)]_vars
  BY StepKeepsWord
<1>2. IInv /\ [Next]_vars => [NoDevice /\ taken' # taken
                                 => since[turn] = session /\ dataSession = session]_vars
  <2>1. IInv /\ NoDevice => PPs <= 2
    BY TypeParts DEF IInv, NoDevice, PPs
  <2> QED
    BY <2>1, StepKeepsSession
<1> QED
  BY <1>1, <1>2, Invariance, PTL DEF Spec, WordsKept, WordStays, OneSession

\* The P of a PP whose block ended.
LEMMA StepReturns ==
    ASSUME IInv, [Next]_vars, NEW q \in PpIds, wait[q] \in {"InMany", "OutMany"},
           wait'[q] = "None", ret[q] # -1
    PROVE  regP'[q] = ret[q]
<1>1. PICK p \in PpIds : UNCHANGED setup /\ (Execute(p) \/ Move(p))
  BY DEF Next, vars, ppVars
<1>2. ~Execute(p)
  <2>1. PpTypes
    BY TypeParts DEF IInv
  <2> QED
    BY <1>1, <2>1 DEF Execute, Stopped, LoadA, JumpActive, JumpFull, IAN, OAN, IAM, OAM, ACN,
       DCN, FNC, Executes, Stop, Block, OneRefused, ppVars, PpTypes
<1>3. BlockGoesOn(p)
  <2>1. CASE Waits(p)
    BY <1>1, <2>1, WaitEnded DEF Waits, WaitStays, ppVars
  <2>2. CASE Take(p)
    <3>1. wait[p] \in {"InOne", "InMany"}
      BY <2>2 DEF Take, IInv, StepFits, InWaits
    <3> QED
      BY <1>1, <2>2, <3>1, TakeWord DEF Take, ppVars
  <2>3. CASE Output(p)
    <3>1. wait[p] \in OutWaits
      BY <2>3 DEF Output, IInv, StepFits
    <3> QED
      BY <1>1, <2>3, <3>1, GiveOne DEF Output, ppVars
  <2> QED
    BY <1>1, <1>2, <2>1, <2>2, <2>3 DEF Move, Input, OutputIo, ppVars
<1> QED
  BY <1>3 DEF BlockGoesOn

\* ReturnsBehind, for every number of PPs, memory size and length of transfers: a PP goes
\* on behind its IAM or OAM however the block ends, unless the block covers cell 0.
THEOREM BlocksReturn == Spec => ReturnsBehind
<1>1. IInv /\ [Next]_vars =>
          [\A p \in PpIds :
              wait[p] \in {"InMany", "OutMany"} /\ ~Waiting(p)' /\ ret[p] # -1
                  => regP'[p] = ret[p]]_vars
  <2> SUFFICES ASSUME IInv, [Next]_vars, NEW p \in PpIds, wait[p] \in {"InMany", "OutMany"},
                      ~Waiting(p)', ret[p] # -1
               PROVE  regP'[p] = ret[p]
    OBVIOUS
  <2>1. UNCHANGED setup
    BY DEF Next, vars
  <2>2. wait'[p] = "None"
    BY <2>1, SameMachine DEF Waiting
  <2> QED
    BY <2>2, StepReturns
<1> QED
  BY <1>1, Invariance, PTL DEF Spec, ReturnsBehind

-----------------------------------------------------------------------------
(***************************************************************************)
(* Exchange jumps.                                                         *)
(***************************************************************************)
\* A CPU that is in cpuExchangeJump is the one that was asked.
MidExchange ==
    \A c \in CpuIds : pc[c] \in {"load", "store", "done"} => exchangeCpu = c

\* While an exchange is pending no other CPU is in monitor mode.
OneAtATime == exchangeCpu # -1 /\ monitorCpu # -1 => monitorCpu = exchangeCpu

\* The CPU that was asked goes from user to monitor or back; it enters by a PP's package
\* or by the user's own.
Direction ==
    \A c \in CpuIds : exchangeCpu = c =>
        /\ pc[c] \notin {"store", "done"} =>
              IF monitorCpu = c
              THEN /\ context[c] \in Users /\ package[exchangeTo] \in Monitors
                   /\ exchangeTo \in PpPackages \cup {regMa[context[c]]}
              ELSE context[c] \in Monitors /\ package[exchangeTo] \in Users
        /\ pc[c] \in {"store", "done"} => (monitorCpu = c <=> context[c] \in Monitors)

\* A monitor that is about to leave by XJ leaves to a user.
Leaving ==
    \A c \in CpuIds : pc[c] = "issue" /\ monitor[c] = 0 =>
        monitorCpu = c /\ (exchangeCpu # c => package[addr[c]] \in Users)

\* At a user's monitor address there is a monitor, or the user itself.
Homes == \A u \in Users : Stored(regMa[u]) \in Monitors \cup {u}

\* The inductive invariant.
ExchangeInv ==
    /\ ExchangeTypes /\ MidExchange /\ ContextsConserved
    /\ HasMonitor => ModeMatches /\ OneAtATime /\ Direction /\ Leaving /\ Homes

-----------------------------------------------------------------------------
\* CPUs are counted from 0, so that -1 is none of them.
LEMMA CpuNumbers ==
    /\ CpuIds \subseteq Nat /\ 0 \in CpuIds
    /\ -1 \notin CpuIds /\ -2 \notin CpuIds
BY CpuExchangeAssumption DEF CpuIds

\* A context runs in one of the two modes.
LEMMA Modes == \A x \in Contexts : x \in Monitors <=> x \notin Users
BY CpuExchangeAssumption DEF Contexts

\* Nobody, or exactly one CPU, is about to store the context it swapped out.
StoredByCpu ==
    \A c \in CpuIds, a \in Packages : pc[c] = "store" =>
        Stored(a) = IF a = exchangeTo THEN tmp[c] ELSE package[a]
StoredByNone ==
    (\A c \in CpuIds : pc[c] # "store") => \A a \in Packages : Stored(a) = package[a]

LEMMA StoredBy == MidExchange => StoredByCpu /\ StoredByNone
<1> SUFFICES ASSUME MidExchange PROVE StoredByCpu /\ StoredByNone
  OBVIOUS
<1>1. ASSUME NEW c \in CpuIds, pc[c] = "store"
      PROVE  (CHOOSE d \in CpuIds : pc[d] = "store") = c
  <2> DEFINE s == CHOOSE d \in CpuIds : pc[d] = "store"
  <2>1. s \in CpuIds /\ pc[s] = "store"
    BY <1>1
  <2> QED
    BY <1>1, <2>1 DEF MidExchange
<1> QED
  BY <1>1 DEF Stored, StoredByCpu, StoredByNone

\* Where a step of cpuStep ends.
LEMMA StepEnds ==
    ASSUME ExchangeTypes, NEW c \in CpuIds, Return(c) \/ NextWord(c)
    PROVE  /\ pc' = [pc EXCEPT ![c] = "top"] \/ pc' = [pc EXCEPT ![c] = "word"]
           /\ main' \in {InPp, Spinning} \cup CpuIds
           /\ cpucycle' \in [CpuIds -> 0 .. (cpuRatio - 1)]
<1>1. CASE Return(c)
  BY <1>1, CpuExchangeAssumption DEF Return, Goto, ExchangeTypes
<1>2. CASE ~Return(c)
  BY <1>2, CpuExchangeAssumption DEF NextWord, Goto, ExchangeTypes
<1> QED
  BY <1>1, <1>2

\* A request that is accepted or refused keeps its variables within their types.
LEMMA IssueType ==
    ASSUME ExchangeTypes, NEW cp \in CpuIds, NEW a \in Packages, NEW mon \in {-1, 0, 1, 2},
           Issue(cp, a, mon)
    PROVE  /\ monitorCpu' \in CpuIds \cup {-1} /\ exchangeCpu' \in CpuIds \cup {-1}
           /\ exchangeTo' \in Packages
<1>1. Target(cp, a, mon) \in Packages
  BY CpuExchangeAssumption DEF Target, ExchangeTypes
<1> QED
  BY <1>1 DEF Issue, exchangeVars, ExchangeTypes

-----------------------------------------------------------------------------
(***************************************************************************)
(* The type invariant.                                                     *)
(***************************************************************************)
\* The type invariant holds when the machine is dead-started.
LEMMA InitType == ExchangeInit => ExchangeTypes
BY CpuExchangeAssumption, CpuNumbers DEF ExchangeInit, ExchangeTypes, InPp, Spinning, Places, Contexts

\* The requests of the PPs keep it.
LEMMA PpExchangeType ==
    ASSUME ExchangeTypes, NEW cp \in CpuIds, NEW a \in Packages, NEW mon \in {-1, 0, 1, 2},
           PpExchange(cp, a, mon)
    PROVE  ExchangeTypes'
<1>1. main' \in {InPp, Spinning} \cup CpuIds
  BY CpuNumbers DEF PpExchange
<1> QED
  BY <1>1, IssueType DEF PpExchange, ExchangeTypes, contextVars, cpuVars

\* Every step of a CPU keeps it.
LEMMA CpuStepType ==
    ASSUME ExchangeTypes, NEW c \in CpuIds, CpuStep(c)
    PROVE  ExchangeTypes'
<1> USE DEF Goto, exchangeVars, contextVars
<1>1. CASE Top(c)
  BY <1>1, StepEnds DEF Top, ExchangeTypes, Places
<1>2. CASE PlainWord(c)
  <2>1. stopped' \in [CpuIds -> BOOLEAN] /\ word' \in [CpuIds -> machine.words]
    BY <1>2 DEF PlainWord, ExchangeTypes
  <2>2. Return(c) \/ NextWord(c)
    BY <1>2 DEF PlainWord
  <2> QED
    BY <1>2, <2>1, <2>2, StepEnds DEF PlainWord, ExchangeTypes, Places
<1>3. CASE XJ(c)
  BY <1>3 DEF XJ, ExchangeTypes, Places
<1>4. CASE XJIssue(c)
  <2>1. monitor[c] \in {-1, 0, 1, 2} /\ addr[c] \in Packages
    BY DEF ExchangeTypes
  <2>2. /\ monitorCpu' \in CpuIds \cup {-1} /\ exchangeCpu' \in CpuIds \cup {-1}
        /\ exchangeTo' \in Packages
    BY <1>4, <2>1, IssueType DEF XJIssue
  <2> QED
    BY <1>4, <2>2, StepEnds DEF XJIssue, ExchangeTypes, Places
<1>5. CASE Load(c)
  BY <1>5 DEF Load, ExchangeTypes, Places
<1>6. CASE Store(c)
  BY <1>6 DEF Store, ExchangeTypes, Places
<1>7. CASE Done(c)
  BY <1>7 DEF Done, ExchangeTypes, Places
<1>8. CASE ActivateCpu(c)
  BY <1>8, StepEnds DEF ActivateCpu, ExchangeTypes, Places
<1> QED
  BY <1>1, <1>2, <1>3, <1>4, <1>5, <1>6, <1>7, <1>8 DEF CpuStep

-----------------------------------------------------------------------------
(***************************************************************************)
(* The inductive invariant.                                                *)
(***************************************************************************)
\* It holds when the machine is dead-started: every CPU runs a user.
LEMMA ExchangeStarts == ExchangeInit => ExchangeInv
<1> SUFFICES ASSUME ExchangeInit PROVE ExchangeInv
  OBVIOUS
<1>1. ExchangeTypes
  BY InitType
<1>2. /\ \A c \in CpuIds : pc[c] = "top"
      /\ exchangeCpu = -1 /\ monitorCpu = -1 /\ package = FirstPackage
      /\ context = FirstContext
  BY DEF ExchangeInit
<1>3. MidExchange
  BY <1>2 DEF MidExchange
<1>4. \A a \in Packages : Stored(a) = FirstPackage[a]
  BY <1>2, <1>3, StoredBy DEF StoredByNone
<1>5. ContextsConserved
  BY <1>2, <1>4, PackagesAssumption DEF ContextsConserved
<1>6. \A c \in CpuIds : context[c] \in Users
  BY <1>2, CpuExchangeAssumption
<1>7. ModeMatches
  BY <1>2, <1>6, Modes, CpuNumbers DEF ModeMatches, Contexts
<1>8. OneAtATime /\ Direction /\ Leaving
  BY <1>2, CpuNumbers DEF OneAtATime, Direction, Leaving
<1>9. Homes
  BY <1>4, PackagesAssumption, CpuExchangeAssumption DEF Homes
<1> QED
  BY <1>1, <1>3, <1>5, <1>7, <1>8, <1>9 DEF ExchangeInv

\* A step that touches no request and no context keeps it, if it only sets out on an
\* exchange the CPU was asked for, and on an XJ that leaves to a user.
LEMMA QuietKeeps ==
    ASSUME ExchangeInv, ExchangeTypes', UNCHANGED <<machine, exchangeVars, contextVars>>,
           \A d \in CpuIds : /\ pc'[d] = "store" <=> pc[d] = "store"
                             /\ pc'[d] = "done" <=> pc[d] = "done"
                             /\ pc'[d] = "load" => exchangeCpu = d,
           HasMonitor => \A d \in CpuIds : pc'[d] = "issue" /\ monitor'[d] = 0 =>
               monitorCpu = d /\ (exchangeCpu # d => package[addr'[d]] \in Users)
    PROVE  ExchangeInv'
<1> USE DEF exchangeVars, contextVars
<1>1. MidExchange'
  BY DEF ExchangeInv, MidExchange
<1>2. \A a \in Packages : Stored(a)' = Stored(a)
  <2>1. CASE \E c \in CpuIds : pc[c] = "store"
    <3>1. PICK d \in CpuIds : pc[d] = "store"
      BY <2>1
    <3>2. pc'[d] = "store"
      BY <3>1
    <3>3. \A a \in Packages : Stored(a) = IF a = exchangeTo THEN tmp[d] ELSE package[a]
      BY <3>1, StoredBy DEF ExchangeInv, StoredByCpu
    <3>4. StoredByCpu'
      BY <1>1, StoredBy, PTL
    <3> QED
      BY <3>2, <3>3, <3>4 DEF StoredByCpu
  <2>2. CASE \A c \in CpuIds : pc[c] # "store"
    <3>1. StoredByNone'
      BY <1>1, StoredBy, PTL
    <3> QED
      BY <2>2, <3>1, StoredBy DEF ExchangeInv, StoredByNone
  <2> QED
    BY <2>1, <2>2
<1>3. ContextsConserved'
  BY <1>2 DEF ExchangeInv, ContextsConserved
<1>4. ASSUME HasMonitor'
      PROVE  ModeMatches' /\ OneAtATime' /\ Direction' /\ Leaving' /\ Homes'
  <2>1. HasMonitor
    BY <1>4 DEF HasMonitor
  <2>2. ModeMatches' /\ OneAtATime'
    BY <2>1 DEF ExchangeInv, ModeMatches, OneAtATime
  <2>3. Direction'
    BY <2>1 DEF ExchangeInv, Direction
  <2>4. Leaving'
    BY <2>1 DEF Leaving
  <2>5. Homes'
    BY <1>2, <2>1, CpuExchangeAssumption DEF ExchangeInv, Homes
  <2> QED
    BY <2>2, <2>3, <2>4, <2>5
<1> QED
  BY <1>1, <1>3, <1>4 DEF ExchangeInv

\* A request is accepted only when no CPU is in mid exchange; who enters monitor mode
\* then is a user, since no CPU is in it, and goes to a monitor.
LEMMA AcceptKeeps ==
    ASSUME ExchangeInv, ExchangeTypes', NEW cp \in CpuIds, NEW ma \in Packages,
           NEW mon \in {-1, 0, 1, 2}, Issue(cp, ma, mon), IssueResult(mon) = 0,
           UNCHANGED <<machine, contextVars, monitor, addr>>,
           \A d \in CpuIds : pc'[d] = pc[d] \/ (d = cp /\ pc'[d] \in {"top", "word"}),
           mon = 0 => pc'[cp] # "issue",
           HasMonitor => /\ mon # -1
                         /\ mon = 0 => monitorCpu = cp /\ package[ma] \in Users
                         /\ mon = 1 => ma \in PpPackages /\ package[ma] \in Monitors
    PROVE  ExchangeInv'
<1> USE DEF contextVars
<1>1. /\ exchangeCpu = -1
      /\ mon \in {1, 2} => monitorCpu = -1
      /\ exchangeCpu' = cp /\ exchangeTo' = Target(cp, ma, mon)
      /\ monitorCpu' = CASE mon > 0 -> cp [] mon = 0 -> -1 [] OTHER -> monitorCpu
  BY DEF Issue, IssueResult
<1>2. \A d \in CpuIds : pc[d] \notin {"load", "store", "done"}
  BY <1>1, CpuNumbers DEF ExchangeInv, MidExchange
<1>3. \A d \in CpuIds : pc'[d] \notin {"load", "store", "done"}
  BY <1>2
<1>4. MidExchange'
  BY <1>3 DEF MidExchange
<1>5. \A b \in Packages : Stored(b) = package[b] /\ Stored(b)' = package[b]
  <2>1. StoredByNone'
    BY <1>4, StoredBy, PTL
  <2> QED
    BY <1>2, <1>3, <2>1, StoredBy DEF ExchangeInv, StoredByNone
<1>6. ContextsConserved'
  BY <1>5 DEF ExchangeInv, ContextsConserved
<1>7. ASSUME HasMonitor'
      PROVE  ModeMatches' /\ OneAtATime' /\ Direction' /\ Leaving' /\ Homes'
  <2>0. HasMonitor
    BY <1>7 DEF HasMonitor
  <2>1. /\ \A d \in CpuIds : monitorCpu = d <=> context[d] \in Monitors
        /\ \A d \in CpuIds : context[d] \in Users <=> monitorCpu # d
    BY <1>1, <2>0, CpuNumbers, Modes DEF ExchangeInv, ModeMatches, ExchangeTypes
  <2>2. Homes'
    BY <1>5, <2>0, CpuExchangeAssumption DEF ExchangeInv, Homes
  <2>3. CASE mon \in {1, 2}
    <3>1. monitorCpu = -1 /\ monitorCpu' = cp
      BY <1>1, <2>3
    <3>2. \A d \in CpuIds : context[d] \in Users /\ context[d] \notin Monitors
      BY <2>1, <3>1, CpuNumbers
    <3>3. ModeMatches' /\ OneAtATime'
      BY <1>1, <3>1, <3>2 DEF ModeMatches, OneAtATime
    <3>4. /\ package[exchangeTo'] \in Monitors
          /\ exchangeTo' \in PpPackages \cup {regMa[context[cp]]}
      <4>1. CASE mon = 1
        BY <1>1, <2>0, <4>1 DEF Target
      <4>2. CASE mon = 2
        <5>1. exchangeTo' = regMa[context[cp]] /\ regMa[context[cp]] \in Packages
          BY <1>1, <3>2, <4>2, CpuExchangeAssumption DEF Target
        <5>2. package[regMa[context[cp]]] \in Monitors \cup {context[cp]}
          BY <1>5, <2>0, <3>2, <5>1 DEF ExchangeInv, Homes
        <5>3. package[regMa[context[cp]]] # context[cp]
          BY <1>5, <5>1 DEF ExchangeInv, ContextsConserved
        <5> QED
          BY <5>1, <5>2, <5>3
      <4> QED
        BY <2>3, <4>1, <4>2
    <3>5. Direction'
      BY <1>1, <1>3, <3>1, <3>2, <3>4 DEF Direction
    <3>6. Leaving'
      <4>1. \A d \in CpuIds : pc'[d] = "issue" => pc[d] = "issue"
        BY <1>2
      <4> QED
        BY <2>0, <3>1, <4>1, CpuNumbers DEF ExchangeInv, Leaving
    <3> QED
      BY <2>2, <3>3, <3>5, <3>6
  <2>4. CASE mon = 0
    <3>1. monitorCpu = cp /\ monitorCpu' = -1 /\ exchangeTo' = ma /\ package[ma] \in Users
      BY <1>1, <2>0, <2>4 DEF Target
    <3>2. \A d \in CpuIds : d # cp => context[d] \notin Monitors
      BY <2>1, <3>1
    <3>3. ModeMatches' /\ OneAtATime'
      BY <1>1, <3>1, <3>2, CpuNumbers DEF ModeMatches, OneAtATime
    <3>4. Direction'
      BY <1>1, <1>3, <2>1, <3>1, CpuNumbers DEF Direction
    <3>5. Leaving'
      BY <2>0, <2>4, <3>1 DEF ExchangeInv, Leaving
    <3> QED
      BY <2>2, <3>3, <3>4, <3>5
  <2> QED
    BY <2>0, <2>3, <2>4
<1> QED
  BY <1>4, <1>6, <1>7 DEF ExchangeInv

\* A request that is refused changes nothing.
LEMMA RefusedExchange ==
    ASSUME NEW cp, NEW a, NEW mon, Issue(cp, a, mon), IssueResult(mon) # 0
    PROVE  UNCHANGED exchangeVars
BY DEF Issue

(***************************************************************************)
(* The PPs.                                                                *)
(***************************************************************************)
\* EXN, MXN or MAN of a PP.  MAN names no package of its own: the CPU goes to its MA.
LEMMA PpExchangeKeeps ==
    ASSUME ExchangeInv, NEW cp \in CpuIds, NEW a \in Packages, NEW mon \in {-1, 1, 2},
           PpExchange(cp, a, mon),
           HasMonitor => /\ mon \in {1, 2}
                         /\ mon = 1 => a \in PpPackages /\ package[a] \in Monitors
    PROVE  ExchangeInv'
<1>1. ExchangeTypes'
  BY PpExchangeType DEF ExchangeInv
<1>2. Issue(cp, a, mon) /\ UNCHANGED <<machine, contextVars, cpuVars>>
  BY DEF PpExchange
<1>3. UNCHANGED <<pc, monitor, addr>>
  BY <1>2 DEF cpuVars
<1>4. CASE IssueResult(mon) = 0
  BY <1>1, <1>2, <1>3, <1>4, AcceptKeeps
<1>5. CASE IssueResult(mon) # 0
  <2>1. UNCHANGED exchangeVars
    BY <1>2, <1>5, RefusedExchange
  <2>2. HasMonitor => \A d \in CpuIds : pc'[d] = "issue" /\ monitor'[d] = 0 =>
            monitorCpu = d /\ (exchangeCpu # d => package[addr'[d]] \in Users)
    BY <1>3 DEF ExchangeInv, Leaving
  <2> QED
    BY <1>1, <1>2, <1>3, <2>1, <2>2, QuietKeeps DEF ExchangeInv, MidExchange
<1> QED
  BY <1>4, <1>5

\* A round of the PPs.
LEMMA PpStepKeeps == ASSUME ExchangeInv, PpStep PROVE ExchangeInv'
<1>1. ASSUME PpNothing \/ Spin PROVE ExchangeInv'
  <2>1. UNCHANGED <<machine, exchangeVars, contextVars, pc, monitor, addr>>
    BY <1>1 DEF PpNothing, Spin, cpuVars
  <2>2. ExchangeTypes'
    BY <1>1, CpuNumbers DEF PpNothing, Spin, ExchangeInv, ExchangeTypes, exchangeVars, contextVars, cpuVars
  <2>3. HasMonitor => \A d \in CpuIds : pc'[d] = "issue" /\ monitor'[d] = 0 =>
            monitorCpu = d /\ (exchangeCpu # d => package[addr'[d]] \in Users)
    BY <2>1 DEF ExchangeInv, Leaving
  <2> QED
    BY <2>1, <2>2, <2>3, QuietKeeps DEF ExchangeInv, MidExchange
<1>2. ASSUME NEW cp \in CpuIds, EXN(cp) PROVE ExchangeInv'
  <2>1. ~HasMonitor
    BY <1>2 DEF EXN, HasMonitor
  <2> QED
    BY <1>2, <2>1, PpExchangeKeeps DEF EXN
<1>3. ASSUME NEW cp \in CpuIds, MXN(cp) PROVE ExchangeInv'
  <2>1. PICK a \in PpPackages : package[a] \in Monitors /\ PpExchange(cp, a, 1)
    BY <1>3 DEF MXN
  <2>2. a \in Packages
    BY CpuExchangeAssumption
  <2> QED
    BY <2>1, <2>2, PpExchangeKeeps
<1>4. ASSUME NEW cp \in CpuIds, MAN(cp) PROVE ExchangeInv'
  <2>1. exchangeTo \in Packages /\ PpExchange(cp, exchangeTo, 2)
    BY <1>4 DEF MAN, ExchangeInv, ExchangeTypes
  <2> QED
    BY <2>1, PpExchangeKeeps
<1> QED
  BY <1>1, <1>2, <1>3, <1>4 DEF PpStep

(***************************************************************************)
(* The CPUs.                                                               *)
(***************************************************************************)
\* The top of cpuStep and the words without an XJ.
LEMMA TopKeeps == ASSUME ExchangeInv, NEW c \in CpuIds, Top(c) \/ PlainWord(c) PROVE ExchangeInv'
<1>1. ExchangeTypes'
  BY CpuStepType DEF ExchangeInv, CpuStep
<1>2. UNCHANGED <<machine, exchangeVars, contextVars, monitor, addr>>
  BY DEF Top, PlainWord
<1>3. \A d \in CpuIds : d # c => pc'[d] = pc[d]
  BY StepEnds DEF Top, PlainWord, Goto, ExchangeInv, ExchangeTypes
<1>4. /\ pc[c] \in {"top", "word"} /\ pc'[c] \in {"top", "word", "load"}
      /\ pc'[c] = "load" => exchangeCpu = c
  BY StepEnds DEF Top, PlainWord, Goto, ExchangeInv, ExchangeTypes
<1>5. HasMonitor => \A d \in CpuIds : pc'[d] = "issue" /\ monitor'[d] = 0 =>
          monitorCpu = d /\ (exchangeCpu # d => package[addr'[d]] \in Users)
  BY <1>2, <1>3, <1>4 DEF ExchangeInv, Leaving
<1> QED
  BY <1>1, <1>2, <1>3, <1>4, <1>5, QuietKeeps DEF ExchangeInv, MidExchange

\* XJ goes by the mode flag, which says what runs here.
LEMMA XJKeeps == ASSUME ExchangeInv, NEW c \in CpuIds, XJ(c) PROVE ExchangeInv'
<1> USE DEF XJ, Goto
<1>1. ExchangeTypes'
  BY CpuStepType DEF ExchangeInv, CpuStep
<1>2. pc[c] = "word" /\ pc'[c] = "issue" /\ \A d \in CpuIds : d # c => pc'[d] = pc[d]
  BY DEF ExchangeInv, ExchangeTypes
<1>3. \A d \in CpuIds : d # c => monitor'[d] = monitor[d] /\ addr'[d] = addr[d]
  BY DEF ExchangeInv, ExchangeTypes
<1>4. ASSUME HasMonitor, monitor'[c] = 0
      PROVE  monitorCpu = c /\ (exchangeCpu # c => package[addr'[c]] \in Users)
  <2>1. monitorCpu = c
    BY <1>4 DEF ExchangeInv, ExchangeTypes
  <2>2. exchangeCpu # c => context[c] \in Monitors
    BY <1>4, <2>1 DEF ExchangeInv, ModeMatches
  <2> QED
    BY <2>1, <2>2 DEF ExchangeInv, ExchangeTypes
<1>5. HasMonitor => \A d \in CpuIds : pc'[d] = "issue" /\ monitor'[d] = 0 =>
          monitorCpu = d /\ (exchangeCpu # d => package[addr'[d]] \in Users)
  BY <1>2, <1>3, <1>4 DEF ExchangeInv, Leaving
<1> QED
  BY <1>1, <1>2, <1>5, QuietKeeps DEF ExchangeInv, MidExchange

\* The XJ asks for its exchange.
LEMMA XJIssueKeeps == ASSUME ExchangeInv, NEW c \in CpuIds, XJIssue(c) PROVE ExchangeInv'
<1>1. ExchangeTypes'
  BY CpuStepType DEF ExchangeInv, CpuStep
<1>2. /\ Issue(c, addr[c], monitor[c])
      /\ UNCHANGED <<machine, contextVars, monitor, addr>>
      /\ pc[c] = "issue"
  BY DEF XJIssue
<1>3. pc'[c] \in {"top", "word"} /\ \A d \in CpuIds : d # c => pc'[d] = pc[d]
  BY StepEnds DEF XJIssue, Goto, ExchangeInv, ExchangeTypes
<1>4. addr[c] \in Packages /\ monitor[c] \in {0, 2}
  BY DEF ExchangeInv, ExchangeTypes
<1>5. CASE IssueResult(monitor[c]) = 0
  <2>1. exchangeCpu # c
    BY <1>5, CpuNumbers DEF IssueResult
  <2>2. HasMonitor /\ monitor[c] = 0 => monitorCpu = c /\ package[addr[c]] \in Users
    BY <1>2, <2>1 DEF ExchangeInv, Leaving
  <2> QED
    BY <1>1, <1>2, <1>3, <1>4, <1>5, <2>2, AcceptKeeps
<1>6. CASE IssueResult(monitor[c]) # 0
  <2>1. UNCHANGED exchangeVars
    BY <1>2, <1>6, RefusedExchange
  <2>2. HasMonitor => \A d \in CpuIds : pc'[d] = "issue" /\ monitor'[d] = 0 =>
            monitorCpu = d /\ (exchangeCpu # d => package[addr'[d]] \in Users)
    BY <1>2, <1>3 DEF ExchangeInv, Leaving
  <2> QED
    BY <1>1, <1>2, <1>3, <2>1, <2>2, QuietKeeps DEF ExchangeInv, MidExchange
<1> QED
  BY <1>5, <1>6

\* The new registers are loaded: from here on the old context counts as stored.
LEMMA LoadKeeps == ASSUME ExchangeInv, NEW c \in CpuIds, Load(c) PROVE ExchangeInv'
<1> USE DEF Load, Goto, exchangeVars
<1>1. ExchangeTypes'
  BY CpuStepType DEF ExchangeInv, CpuStep
<1>2. /\ pc[c] = "load" /\ pc'[c] = "store" /\ exchangeCpu = c
      /\ \A d \in CpuIds : d # c => pc'[d] = pc[d] /\ exchangeCpu # d
  BY DEF ExchangeInv, ExchangeTypes, MidExchange
<1>3. /\ tmp'[c] = context[c] /\ context'[c] = package[exchangeTo]
      /\ \A d \in CpuIds : d # c => context'[d] = context[d]
      /\ exchangeTo \in Packages
  BY DEF ExchangeInv, ExchangeTypes
<1>4. MidExchange'
  BY <1>2 DEF ExchangeInv, MidExchange
<1>5. \A a \in Packages :
          /\ Stored(a) = package[a]
          /\ Stored(a)' = IF a = exchangeTo THEN context[c] ELSE package[a]
  <2>1. \A d \in CpuIds : pc[d] # "store"
    BY <1>2 DEF ExchangeInv, MidExchange
  <2>2. StoredByCpu'
    BY <1>4, StoredBy, PTL
  <2> QED
    BY <1>2, <1>3, <2>1, <2>2, StoredBy DEF ExchangeInv, StoredByNone, StoredByCpu
<1>6. ContextsConserved'
  <2>1. /\ \A d, e \in CpuIds : d # e => context[d] # context[e]
        /\ \A a, b \in Packages : a # b => package[a] # package[b]
        /\ \A d \in CpuIds, a \in Packages : context[d] # package[a]
    BY <1>5 DEF ExchangeInv, ContextsConserved
  <2>2. \A d, e \in CpuIds : d # e => context'[d] # context'[e]
    BY <1>3, <2>1
  <2>3. \A a, b \in Packages : a # b => Stored(a)' # Stored(b)'
    BY <1>5, <2>1
  <2>4. \A d \in CpuIds, a \in Packages : context'[d] # Stored(a)'
    BY <1>3, <1>5, <2>1
  <2> QED
    BY <2>2, <2>3, <2>4 DEF ContextsConserved
<1>7. ASSUME HasMonitor'
      PROVE  ModeMatches' /\ OneAtATime' /\ Direction' /\ Leaving' /\ Homes'
  <2>0. HasMonitor
    BY <1>7 DEF HasMonitor
  <2>1. ModeMatches' /\ OneAtATime'
    BY <1>2, <1>3, <2>0 DEF ExchangeInv, ModeMatches, OneAtATime
  <2>2. IF monitorCpu = c
        THEN /\ context[c] \in Users /\ package[exchangeTo] \in Monitors
             /\ exchangeTo \in PpPackages \cup {regMa[context[c]]}
        ELSE context[c] \in Monitors /\ package[exchangeTo] \in Users
    BY <1>2, <2>0 DEF ExchangeInv, Direction
  <2>3. Direction'
    BY <1>2, <1>3, <2>2, Modes DEF Direction, Contexts
  <2>4. Leaving'
    BY <1>2, <2>0 DEF ExchangeInv, Leaving
  <2>5. Homes'
    <3>1. ASSUME NEW u \in Users, regMa[u] = exchangeTo
          PROVE  context[c] \in Monitors \cup {u}
      BY <2>2, <3>1, PackagesAssumption
    <3>2. \A u \in Users : regMa[u] \in Packages
      BY CpuExchangeAssumption
    <3> QED
      BY <1>5, <2>0, <3>1, <3>2 DEF ExchangeInv, Homes
  <2> QED
    BY <2>1, <2>3, <2>4, <2>5
<1> QED
  BY <1>1, <1>4, <1>6, <1>7 DEF ExchangeInv

\* The old context is stored.
LEMMA StoreKeeps == ASSUME ExchangeInv, NEW c \in CpuIds, Store(c) PROVE ExchangeInv'
<1> USE DEF Store, Goto, exchangeVars
<1>1. ExchangeTypes'
  BY CpuStepType DEF ExchangeInv, CpuStep
<1>2. /\ pc[c] = "store" /\ pc'[c] = "done" /\ exchangeCpu = c
      /\ \A d \in CpuIds : d # c => pc'[d] = pc[d] /\ exchangeCpu # d
  BY DEF ExchangeInv, ExchangeTypes, MidExchange
<1>3. /\ exchangeTo \in Packages
      /\ \A a \in Packages : package'[a] = IF a = exchangeTo THEN tmp[c] ELSE package[a]
  BY DEF ExchangeInv, ExchangeTypes
<1>4. MidExchange'
  BY <1>2 DEF ExchangeInv, MidExchange
<1>5. \A a \in Packages : Stored(a)' = Stored(a)
  <2>1. \A d \in CpuIds : pc'[d] # "store"
    BY <1>2 DEF ExchangeInv, MidExchange
  <2>2. StoredByNone'
    BY <1>4, StoredBy, PTL
  <2> QED
    BY <1>2, <1>3, <2>1, <2>2, StoredBy DEF ExchangeInv, StoredByNone, StoredByCpu
<1>6. ContextsConserved'
  BY <1>5 DEF ExchangeInv, ContextsConserved
<1>7. ASSUME HasMonitor'
      PROVE  ModeMatches' /\ OneAtATime' /\ Direction' /\ Leaving' /\ Homes'
  <2>0. HasMonitor
    BY <1>7 DEF HasMonitor
  <2>1. ModeMatches' /\ OneAtATime'
    BY <2>0 DEF ExchangeInv, ModeMatches, OneAtATime
  <2>2. Direction'
    BY <1>2, <2>0 DEF ExchangeInv, Direction
  <2>3. \A d \in CpuIds : ~(pc[d] = "issue" /\ monitor[d] = 0)
    BY <1>2, <2>0, CpuNumbers DEF ExchangeInv, Leaving, OneAtATime
  <2>4. Leaving'
    BY <1>2, <2>3 DEF Leaving
  <2>5. Homes'
    BY <1>5, <2>0, CpuExchangeAssumption DEF ExchangeInv, Homes
  <2> QED
    BY <2>1, <2>2, <2>4, <2>5
<1> QED
  BY <1>1, <1>4, <1>6, <1>7 DEF ExchangeInv

\* The exchange counts as done: only now may another be asked for.
LEMMA DoneKeeps == ASSUME ExchangeInv, NEW c \in CpuIds, Done(c) PROVE ExchangeInv'
<1> USE DEF Done, Goto, contextVars
<1>1. ExchangeTypes'
  BY CpuStepType DEF ExchangeInv, CpuStep
<1>2. /\ pc[c] = "done" /\ pc'[c] = "activate" /\ exchangeCpu = c /\ exchangeCpu' = -1
      /\ \A d \in CpuIds : d # c => pc'[d] = pc[d] /\ exchangeCpu # d
  BY DEF ExchangeInv, ExchangeTypes, MidExchange
<1>3. \A d \in CpuIds : pc[d] # "store" /\ pc'[d] \notin {"load", "store", "done"}
  BY <1>2 DEF ExchangeInv, MidExchange
<1>4. MidExchange'
  BY <1>3 DEF MidExchange
<1>5. \A a \in Packages : Stored(a)' = Stored(a)
  <2>1. StoredByNone'
    BY <1>4, StoredBy, PTL
  <2> QED
    BY <1>3, <2>1, StoredBy DEF ExchangeInv, StoredByNone
<1>6. ContextsConserved'
  BY <1>5 DEF ExchangeInv, ContextsConserved
<1>7. ASSUME HasMonitor'
      PROVE  ModeMatches' /\ OneAtATime' /\ Direction' /\ Leaving' /\ Homes'
  <2>0. HasMonitor
    BY <1>7 DEF HasMonitor
  <2>1. ModeMatches'
    BY <1>2, <2>0 DEF ExchangeInv, ModeMatches, Direction
  <2>2. OneAtATime' /\ Direction'
    BY <1>2, CpuNumbers DEF OneAtATime, Direction
  <2>3. \A d \in CpuIds : ~(pc[d] = "issue" /\ monitor[d] = 0)
    BY <1>2, <2>0, CpuNumbers DEF ExchangeInv, Leaving, OneAtATime
  <2>4. Leaving'
    BY <1>2, <2>3 DEF Leaving
  <2>5. Homes'
    BY <1>5, <2>0, CpuExchangeAssumption DEF ExchangeInv, Homes
  <2> QED
    BY <2>1, <2>2, <2>4, <2>5
<1> QED
  BY <1>1, <1>4, <1>6, <1>7 DEF ExchangeInv

\* The first word of the new context is fetched.
LEMMA ActivateKeeps == ASSUME ExchangeInv, NEW c \in CpuIds, ActivateCpu(c) PROVE ExchangeInv'
<1>1. ExchangeTypes'
  BY CpuStepType DEF ExchangeInv, CpuStep
<1>2. UNCHANGED <<machine, exchangeVars, contextVars, monitor, addr>>
  BY DEF ActivateCpu
<1>3. /\ pc[c] = "activate" /\ pc'[c] \in {"top", "word"}
      /\ \A d \in CpuIds : d # c => pc'[d] = pc[d]
  BY StepEnds DEF ActivateCpu, Goto, ExchangeInv, ExchangeTypes
<1>4. HasMonitor => \A d \in CpuIds : pc'[d] = "issue" /\ monitor'[d] = 0 =>
          monitorCpu = d /\ (exchangeCpu # d => package[addr'[d]] \in Users)
  BY <1>2, <1>3 DEF ExchangeInv, Leaving
<1> QED
  BY <1>1, <1>2, <1>3, <1>4, QuietKeeps DEF ExchangeInv, MidExchange

-----------------------------------------------------------------------------
(***************************************************************************)
(* The theorems.                                                           *)
(***************************************************************************)
\* The invariant holds in every state of the machine.
THEOREM ExchangeInvariance == ExchangeSpec => []ExchangeInv
<1>1. ExchangeInv /\ [ExchangeNext]_machineVars => ExchangeInv'
  <2> SUFFICES ASSUME ExchangeInv, [ExchangeNext]_machineVars PROVE ExchangeInv'
    OBVIOUS
  <2>1. CASE PpStep
    BY <2>1, PpStepKeeps
  <2>2. ASSUME NEW c \in CpuIds, CpuStep(c) PROVE ExchangeInv'
    BY <2>2, TopKeeps, XJKeeps, XJIssueKeeps, LoadKeeps, StoreKeeps, DoneKeeps,
       ActivateKeeps DEF CpuStep
  <2>3. CASE UNCHANGED machineVars
    BY <2>3 DEF machineVars, exchangeVars, contextVars, cpuVars, ExchangeInv, ExchangeTypes, MidExchange,
       ContextsConserved, Stored, HasMonitor, ModeMatches, OneAtATime, Direction,
       Leaving, Homes
  <2> QED
    BY <2>1, <2>2, <2>3 DEF ExchangeNext
<1> QED
  BY <1>1, ExchangeStarts, PTL DEF ExchangeSpec

\* ExchangeSafe, for every number of CPUs and packages: exchanges asked for by CPUs and
\* PPs in any order lose no context and duplicate none, and the mode flag that XJ goes
\* by agrees with the code that runs.
THEOREM ExchangeCorrect == ExchangeSpec => []ExchangeSafe
<1>1. ExchangeInv => ExchangeSafe
  BY DEF ExchangeInv, ExchangeSafe, ModeMatches
<1> QED
  BY <1>1, ExchangeInvariance, PTL

\* MonitorAlone, for every number of CPUs: never is monitor code on two of them.
THEOREM MonitorExclusive == ExchangeSpec => []MonitorAlone
<1>1. ExchangeInv => MonitorAlone
  <2> SUFFICES ASSUME ExchangeInv, HasMonitor, NEW c \in CpuIds, NEW d \in CpuIds,
                      context[c] \in Monitors, context[d] \in Monitors, c # d
               PROVE  FALSE
    BY DEF MonitorAlone
  <2>1. \A e \in {c, d} : exchangeCpu # e => monitorCpu = e
    BY DEF ExchangeInv, ModeMatches
  <2> QED
    BY <2>1, CpuNumbers DEF ExchangeInv, OneAtATime
<1> QED
  BY <1>1, ExchangeInvariance, PTL

-----------------------------------------------------------------------------
(***************************************************************************)
(* The console's displays are sent whole items in order, for any sizes of  *)
(* the ring and of the table of polls and any number of displays.          *)
(***************************************************************************)
\* The cells of displayRing, and what they hold.
Cells == 0..(DispBufSize - 1)
Items == {c \in [item : Nat, part : 0..2, of : 0..2] : c.part <= c.of}

\* A stretch of a ring, whose content is given.
StretchOf(r, s, e) == [i \in 1..Span(s, e) |-> r[After(s, i - 1, DispBufSize)]]

\* What was not sent yet.
Unsent == StretchOf(displayRing, displayOut, displayIn)

\* Behind a cell of a sequence of whole items.
Follows(c, e) == IF c.part < c.of THEN e = [c EXCEPT !.part = 2] ELSE e.item > c.item /\ e.part = 1

\* Whole items, each newer than those before it.
IsWhole(f) ==
    /\ f # <<>> => f[1].part = 1 /\ f[Len(f)].part = f[Len(f)].of
    /\ \A i \in 1..(Len(f) - 1) : Follows(f[i], f[i + 1])
    /\ \A i, j \in 1..Len(f) : i <= j => f[i].item <= f[j].item

\* An item begins behind the first n cells of f, or f ends there.
Boundary(f, n) == n \in 0..Len(f) /\ (n < Len(f) => f[n + 1].part = 1)

\* All items of f are of numbers above n.
Above(f, n) == \A i \in 1..Len(f) : f[i].item > n

DisplayTypes ==
    /\ displayRing \in [Cells -> Items] /\ displayOut \in Cells /\ displayIn \in Cells
    /\ pollIn \in 0..(MaxPolls - 1)
    /\ pollBuffer \in [0..(MaxPolls - 1) -> [sum1 : Nat, sum2 : Nat, start : Cells]]
    /\ currentPoll \in [sum1 : Nat, sum2 : Nat, start : Cells]
    /\ made \in Nat
    /\ frame \in [Displays -> Seq(Items)] /\ shown \in [Displays -> Nat]

\* Every poll begins with an item.
PollsAtItems == \A i \in 0..pollIn : Boundary(Unsent, Span(displayOut, Starts[i]))

\* A display was sent whole items, and what is unsent is newer.
FrameIs(f, n) ==
    /\ IsWhole(f) /\ Above(f, n) /\ Above(Unsent, n) /\ Above(Unsent, Newest(f))
    /\ Newest(f) <= made /\ n <= made

DisplayInv ==
    /\ DisplayTypes /\ PollsInOrder /\ PollsAtItems
    /\ IsWhole(Unsent) /\ \A i \in 1..Len(Unsent) : Unsent[i].item <= made
    /\ \A d \in Displays : FrameIs(frame[d], shown[d])

-----------------------------------------------------------------------------
\* Remainders are taken of numbers that are at most one turn away.
LEMMA Modulo ==
    ASSUME NEW n \in Nat \ {0}, NEW x \in Int
    PROVE  /\ 0 <= x /\ x < n => x % n = x
           /\ n <= x /\ x < 2 * n => x % n = x - n
           /\ x < 0 /\ -n <= x => x % n = x + n
<1>1. 0 <= x /\ x < n => x % n = x
  BY Z3
<1>2. n <= x /\ x < 2 * n => x % n = x - n
  BY Z3
<1>3. x < 0 /\ -n <= x => x % n = x + n
  BY Z3
<1> QED
  BY <1>1, <1>2, <1>3

\* The next cell of a ring, and the distance of two.
LEMMA AfterIs ==
    ASSUME NEW size \in Nat \ {0}, NEW a \in 0..(size - 1), NEW n \in (-1)..size
    PROVE  /\ After(a, n, size) \in 0..(size - 1)
           /\ After(a, n, size) = IF a + n >= size THEN a + n - size
                                  ELSE IF a + n < 0 THEN a + n + size ELSE a + n
<1>1. After(a, n, size) = (a + n) % size
  BY DEF After
<1>2. a + n \in Int /\ a + n < 2 * size /\ -size <= a + n
  OBVIOUS
<1>3. ASSUME a + n >= size PROVE (a + n) % size = a + n - size
  <2> DEFINE x == a + n
  <2>1. x \in Int /\ size <= x /\ x < 2 * size
    BY <1>2, <1>3
  <2> HIDE DEF x
  <2>2. x % size = x - size
    BY <2>1, Modulo
  <2> QED
    BY <2>2 DEF x
<1>4. ASSUME a + n < 0 PROVE (a + n) % size = a + n + size
  <2> DEFINE x == a + n
  <2>1. x \in Int /\ x < 0 /\ -size <= x
    BY <1>2, <1>4
  <2> HIDE DEF x
  <2>2. x % size = x + size
    BY <2>1, Modulo
  <2> QED
    BY <2>2 DEF x
<1>5. ASSUME a + n >= 0, a + n < size PROVE (a + n) % size = a + n
  BY <1>2, <1>5, Modulo
<1>6. After(a, n, size) = IF a + n >= size THEN a + n - size
                          ELSE IF a + n < 0 THEN a + n + size ELSE a + n
  BY <1>1, <1>3, <1>4, <1>5
<1> QED
  BY <1>2, <1>6

\* The rings and the table of polls have room.
LEMMA ConsoleSizes == /\ DispBufSize \in Nat \ {0} /\ DispBufSize > 2 /\ KeyBufSize \in Nat \ {0} /\ KeyBufSize > 1
               /\ MaxPolls \in Nat \ {0} /\ MaxPolls > 1 /\ SendBufSize \in Nat
  BY ConsoleAssumption

\* The way from a to b in a ring.
LEMMA TurnIs ==
    ASSUME NEW size \in Nat \ {0}, NEW a \in 0..(size - 1), NEW b \in 0..(size - 1)
    PROVE  /\ (b - a) % size \in 0..(size - 1)
           /\ (b - a) % size = IF b >= a THEN b - a ELSE b - a + size
<1>1. b - a \in Int /\ b - a < size /\ -size <= b - a
  OBVIOUS
<1>2. ASSUME b - a >= 0 PROVE (b - a) % size = b - a
  BY <1>1, <1>2, Modulo
<1>3. ASSUME b - a < 0 PROVE (b - a) % size = b - a + size
  BY <1>1, <1>3, Modulo
<1>4. (b - a) % size = IF b - a >= 0 THEN b - a ELSE b - a + size
  BY <1>1, <1>2, <1>3
<1> QED
  BY <1>4

\* So in displayRing.
LEMMA SpanIs ==
    ASSUME NEW a \in Cells, NEW b \in Cells
    PROVE  /\ Span(a, b) \in 0..(DispBufSize - 1)
           /\ Span(a, b) = IF b >= a THEN b - a ELSE b - a + DispBufSize
  BY TurnIs, ConsoleSizes DEF Cells, Span

\* A way along the ring in two parts.
LEMMA SpanSplits ==
    ASSUME NEW a \in Cells, NEW b \in Cells, NEW c \in Cells, Span(a, b) <= Span(a, c)
    PROVE  Span(b, c) = Span(a, c) - Span(a, b)
<1>1. /\ Span(a, b) = IF b >= a THEN b - a ELSE b - a + DispBufSize
      /\ Span(a, c) = IF c >= a THEN c - a ELSE c - a + DispBufSize
      /\ Span(b, c) = IF c >= b THEN c - b ELSE c - b + DispBufSize
  BY SpanIs
<1>2. a \in 0..(DispBufSize - 1) /\ b \in 0..(DispBufSize - 1) /\ c \in 0..(DispBufSize - 1) /\ DispBufSize \in Nat
  BY ConsoleSizes DEF Cells
<1> QED
  BY <1>1, <1>2

\* Steps along displayRing add up.
LEMMA StepsAdd ==
    ASSUME NEW a \in Cells, NEW b \in Cells, NEW n \in 0..(DispBufSize - 1)
    PROVE  /\ After(a, n, DispBufSize) \in Cells
           /\ Span(a, After(a, n, DispBufSize)) = n
           /\ After(a, n, DispBufSize) = b <=> Span(a, b) = n
           /\ Span(a, b) + n < DispBufSize =>
                 /\ After(b, n, DispBufSize) = After(a, Span(a, b) + n, DispBufSize)
                 /\ Span(a, After(b, n, DispBufSize)) = Span(a, b) + n
<1>1. /\ After(a, n, DispBufSize) \in Cells /\ After(b, n, DispBufSize) \in Cells
      /\ After(a, n, DispBufSize) = IF a + n >= DispBufSize THEN a + n - DispBufSize ELSE a + n
      /\ After(b, n, DispBufSize) = IF b + n >= DispBufSize THEN b + n - DispBufSize ELSE b + n
  <2>1. a \in 0..(DispBufSize - 1) /\ b \in 0..(DispBufSize - 1) /\ n \in (-1)..DispBufSize /\ n >= 0 /\ DispBufSize \in Nat \ {0}
    BY ConsoleSizes DEF Cells
  <2>2. /\ After(a, n, DispBufSize) \in 0..(DispBufSize - 1) /\ After(b, n, DispBufSize) \in 0..(DispBufSize - 1)
        /\ After(a, n, DispBufSize) = IF a + n >= DispBufSize THEN a + n - DispBufSize
                                      ELSE IF a + n < 0 THEN a + n + DispBufSize ELSE a + n
        /\ After(b, n, DispBufSize) = IF b + n >= DispBufSize THEN b + n - DispBufSize
                                      ELSE IF b + n < 0 THEN b + n + DispBufSize ELSE b + n
    BY <2>1, AfterIs
  <2> QED
    BY <2>1, <2>2 DEF Cells
<1>2. Span(a, b) + n < DispBufSize => After(a, Span(a, b) + n, DispBufSize) =
             IF a + (Span(a, b) + n) >= DispBufSize THEN a + (Span(a, b) + n) - DispBufSize ELSE a + (Span(a, b) + n)
  <2> SUFFICES ASSUME Span(a, b) + n < DispBufSize
               PROVE  After(a, Span(a, b) + n, DispBufSize) =
                         IF a + (Span(a, b) + n) >= DispBufSize THEN a + (Span(a, b) + n) - DispBufSize
                         ELSE a + (Span(a, b) + n)
    OBVIOUS
  <2>1. Span(a, b) \in 0..(DispBufSize - 1)
    BY SpanIs
  <2>2. a \in 0..(DispBufSize - 1) /\ Span(a, b) + n \in (-1)..DispBufSize /\ Span(a, b) + n >= 0 /\ DispBufSize \in Nat \ {0}
    BY <2>1, ConsoleSizes DEF Cells
  <2> DEFINE m == Span(a, b) + n
  <2>3. After(a, m, DispBufSize) = IF a + m >= DispBufSize THEN a + m - DispBufSize
                                   ELSE IF a + m < 0 THEN a + m + DispBufSize ELSE a + m
    <3> HIDE DEF m
    <3>1. m \in (-1)..DispBufSize
      BY <2>2 DEF m
    <3> QED
      BY <3>1, <2>2, AfterIs
  <2> QED
    BY <2>2, <2>3
<1>3. /\ Span(a, b) = IF b >= a THEN b - a ELSE b - a + DispBufSize
      /\ Span(a, After(a, n, DispBufSize)) = IF After(a, n, DispBufSize) >= a THEN After(a, n, DispBufSize) - a
                                             ELSE After(a, n, DispBufSize) - a + DispBufSize
      /\ Span(a, After(b, n, DispBufSize)) = IF After(b, n, DispBufSize) >= a THEN After(b, n, DispBufSize) - a
                                             ELSE After(b, n, DispBufSize) - a + DispBufSize
  BY <1>1, SpanIs
<1> QED
  BY <1>1, <1>2, <1>3, ConsoleSizes DEF Cells

\* A stretch and its cells.
LEMMA StretchIs ==
    ASSUME NEW r \in [Cells -> Items], NEW s \in Cells, NEW e \in Cells
    PROVE  /\ StretchOf(r, s, e) \in Seq(Items) /\ Len(StretchOf(r, s, e)) = Span(s, e)
           /\ Span(s, e) \in 0..(DispBufSize - 1)
           /\ \A i \in 1..Span(s, e) : StretchOf(r, s, e)[i] = r[After(s, i - 1, DispBufSize)]
<1>1. Span(s, e) \in 0..(DispBufSize - 1)
  BY SpanIs
<1>2. \A i \in 1..Span(s, e) : i - 1 \in 0..(DispBufSize - 1)
  BY <1>1, ConsoleSizes
<1>3. \A i \in 1..Span(s, e) : After(s, i - 1, DispBufSize) \in Cells
  BY <1>2, StepsAdd
<1>4. StretchOf(r, s, e) \in [1..Span(s, e) -> Items]
  BY <1>3 DEF StretchOf
<1> QED
  BY <1>1, <1>4 DEF StretchOf

\* A stretch within another.
LEMMA StretchWithin ==
    ASSUME NEW r \in [Cells -> Items], NEW a \in Cells, NEW b \in Cells, NEW s \in Cells, NEW e \in Cells,
           Span(a, s) <= Span(a, e), Span(a, e) <= Span(a, b)
    PROVE  /\ Span(s, e) = Span(a, e) - Span(a, s)
           /\ \A i \in 1..Span(s, e) : StretchOf(r, s, e)[i] = StretchOf(r, a, b)[Span(a, s) + i]
<1>1. Span(s, e) = Span(a, e) - Span(a, s)
  BY SpanSplits
<1>2. /\ Span(a, s) \in 0..(DispBufSize - 1) /\ Span(a, e) \in 0..(DispBufSize - 1) /\ Span(a, b) \in 0..(DispBufSize - 1)
  BY SpanIs
<1>3. SUFFICES ASSUME NEW i \in 1..Span(s, e) PROVE StretchOf(r, s, e)[i] = StretchOf(r, a, b)[Span(a, s) + i]
  BY <1>1
<1>4. /\ Span(a, s) + i \in 1..Span(a, b) /\ i - 1 \in 0..(DispBufSize - 1) /\ Span(a, s) + (i - 1) < DispBufSize
      /\ (Span(a, s) + i) - 1 = Span(a, s) + (i - 1)
  BY <1>1, <1>2, ConsoleSizes
<1>5. After(s, i - 1, DispBufSize) = After(a, Span(a, s) + (i - 1), DispBufSize)
  BY <1>4, StepsAdd
<1>6. StretchOf(r, s, e)[i] = r[After(s, i - 1, DispBufSize)]
  BY StretchIs
<1>7. StretchOf(r, a, b)[Span(a, s) + i] = r[After(a, (Span(a, s) + i) - 1, DispBufSize)]
  BY <1>4, StretchIs
<1> QED
  BY <1>4, <1>5, <1>6, <1>7

-----------------------------------------------------------------------------
\* From one beginning of an item to another there are whole items.
LEMMA PartIsWhole ==
    ASSUME NEW q \in Seq(Items), IsWhole(q), NEW a, NEW b, Boundary(q, a), Boundary(q, b), a <= b,
           NEW f \in Seq(Items), Len(f) = b - a, \A i \in 1..Len(f) : f[i] = q[a + i]
    PROVE  IsWhole(f)
<1>1. a \in 0..Len(q) /\ b \in 0..Len(q) /\ Len(q) \in Nat /\ Len(f) \in Nat
  BY DEF Boundary
<1>2. \A i \in 1..Len(f) : a + i \in 1..Len(q)
  BY <1>1
<1>3. \A i \in 1..(Len(f) - 1) : Follows(f[i], f[i + 1])
  <2> SUFFICES ASSUME NEW i \in 1..(Len(f) - 1) PROVE Follows(f[i], f[i + 1])
    OBVIOUS
  <2>1. a + i \in 1..(Len(q) - 1) /\ i \in 1..Len(f) /\ i + 1 \in 1..Len(f) /\ a + (i + 1) = (a + i) + 1
    BY <1>1
  <2> QED
    BY <2>1 DEF IsWhole
<1>4. ASSUME NEW i \in 1..Len(f), NEW j \in 1..Len(f), i <= j PROVE f[i].item <= f[j].item
  <2>1. a + i \in 1..Len(q) /\ a + j \in 1..Len(q) /\ a + i <= a + j
    BY <1>1, <1>2, <1>4
  <2>2. q[a + i].item <= q[a + j].item
    BY <2>1 DEF IsWhole
  <2> QED
    BY <2>2
<1>5. ASSUME f # <<>> PROVE f[1].part = 1 /\ f[Len(f)].part = f[Len(f)].of
  <2>1. Len(f) > 0 /\ a < Len(q) /\ 1 \in 1..Len(f) /\ Len(f) \in 1..Len(f) /\ a + Len(f) = b
    BY <1>1, <1>5
  <2>2. f[1].part = 1
    BY <2>1 DEF Boundary
  <2>3. b \in 1..Len(q) /\ q[b] \in Items /\ f[Len(f)] = q[b]
    BY <1>1, <2>1
  <2>4. CASE b = Len(q)
    BY <1>1, <2>1, <2>2, <2>3, <2>4 DEF IsWhole
  <2>5. CASE b < Len(q)
    <3>1. b \in 1..(Len(q) - 1) /\ q[b + 1].part = 1
      BY <1>1, <2>3, <2>5 DEF Boundary
    <3>2. Follows(q[b], q[b + 1])
      BY <3>1 DEF IsWhole
    <3>3. ~(q[b].part < q[b].of)
      <4> SUFFICES ASSUME q[b].part < q[b].of PROVE FALSE
        OBVIOUS
      <4>1. q[b + 1] = [q[b] EXCEPT !.part = 2]
        BY <3>2 DEF Follows
      <4>2. q[b + 1].part = 2
        BY <4>1, <2>3 DEF Items
      <4> QED
        BY <4>2, <3>1
    <3> QED
      BY <2>2, <2>3, <3>3 DEF Items
  <2> QED
    BY <1>1, <2>2, <2>3, <2>4, <2>5
<1> QED
  BY <1>3, <1>4, <1>5 DEF IsWhole

\* An item behind whole items.
LEMMA OneMore ==
    ASSUME NEW q \in Seq(Items), IsWhole(q), NEW m \in Nat, \A i \in 1..Len(q) : q[i].item <= m,
           NEW n \in 1..2, NEW r \in Seq(Items), Len(r) = Len(q) + n,
           \A i \in 1..Len(q) : r[i] = q[i],
           \A i \in 1..n : r[Len(q) + i] = [item |-> m + 1, part |-> i, of |-> n]
    PROVE  /\ IsWhole(r) /\ \A i \in 1..Len(r) : r[i].item <= m + 1
           /\ \A k \in Nat : Boundary(q, k) => Boundary(r, k)
           /\ \A k \in Nat : k <= m /\ Above(q, k) => Above(r, k)
<1>1. Len(q) \in Nat /\ Len(r) \in Nat /\ Len(r) > 0 /\ r # <<>>
  OBVIOUS
<1>2. \A i \in 1..Len(q) : q[i] \in Items /\ q[i].item \in Nat /\ i \in 1..Len(r)
  BY <1>1 DEF Items
<1>3. \A i \in 1..n : /\ r[Len(q) + i].item = m + 1 /\ r[Len(q) + i].part = i /\ r[Len(q) + i].of = n
                      /\ Len(q) + i \in 1..Len(r)
  <2>1. \A i \in 1..n : Len(q) + i \in 1..Len(r)
    BY <1>1
  <2>2. \A i \in 1..n : r[Len(q) + i] = [item |-> m + 1, part |-> i, of |-> n]
    OBVIOUS
  <2>3. \A i \in 1..n : /\ r[Len(q) + i].item = m + 1 /\ r[Len(q) + i].part = i /\ r[Len(q) + i].of = n
    <3> SUFFICES ASSUME NEW i \in 1..n
                 PROVE  r[Len(q) + i].item = m + 1 /\ r[Len(q) + i].part = i /\ r[Len(q) + i].of = n
      OBVIOUS
    <3>1. PICK c : c = r[Len(q) + i]
      OBVIOUS
    <3>2. c = [item |-> m + 1, part |-> i, of |-> n]
      BY <2>2, <3>1
    <3>3. c.item = m + 1 /\ c.part = i /\ c.of = n
      BY <3>2
    <3> QED
      BY <3>1, <3>3, Zenon
  <2> QED
    BY <2>1, <2>3
<1>4. \A i \in 1..Len(r) : (i \in 1..Len(q) /\ r[i] = q[i]) \/ (i - Len(q) \in 1..n /\ i = Len(q) + (i - Len(q)))
  BY <1>1
<1>5. \A i \in 1..Len(r) : i > Len(q) => r[i].item = m + 1 /\ r[i].part = i - Len(q) /\ r[i].of = n
  BY <1>1, <1>3, <1>4
<1>6. \A i \in 1..Len(r) : r[i].item \in Nat /\ r[i].item <= m + 1 /\ (i <= Len(q) => r[i].item <= m)
  BY <1>1, <1>2, <1>4, <1>5, SMTT(30)
<1>7. r[1].part = 1 /\ r[Len(r)].part = r[Len(r)].of
  <2>1. r[Len(r)].part = r[Len(r)].of
    BY <1>1, <1>5
  <2>2. CASE q = <<>>
    BY <1>1, <1>5, <2>2
  <2>3. CASE q # <<>>
    <3>1. 1 \in 1..Len(q) /\ q[1].part = 1
      BY <1>1, <2>3 DEF IsWhole
    <3> QED
      BY <3>1, <2>1
  <2> QED
    BY <2>1, <2>2, <2>3
<1>8. \A i \in 1..(Len(r) - 1) : Follows(r[i], r[i + 1])
  <2> SUFFICES ASSUME NEW i \in 1..(Len(r) - 1) PROVE Follows(r[i], r[i + 1])
    OBVIOUS
  <2>1. i \in 1..Len(r) /\ i + 1 \in 1..Len(r)
    BY <1>1
  <2>2. CASE i < Len(q)
    <3>1. i \in 1..(Len(q) - 1) /\ i \in 1..Len(q) /\ i + 1 \in 1..Len(q)
      BY <1>1, <2>2
    <3> QED
      BY <3>1 DEF IsWhole
  <2>3. CASE i = Len(q)
    <3>1. q # <<>> /\ i \in 1..Len(q)
      BY <1>1, <2>3
    <3>2. r[i].part = r[i].of /\ r[i].part \in 0..2
      BY <1>2, <3>1, <2>3 DEF IsWhole, Items
    <3>3. r[i + 1].item = m + 1 /\ r[i + 1].part = 1 /\ r[i].item <= m /\ r[i].item \in Nat
      BY <1>5, <1>6, <2>1, <2>3
    <3> QED
      BY <3>2, <3>3 DEF Follows
  <2>4. CASE i > Len(q)
    <3>1. n = 2 /\ i = Len(q) + 1 /\ i + 1 = Len(q) + 2
      BY <1>1, <2>1, <2>4
    <3>2. r[i] = [item |-> m + 1, part |-> 1, of |-> 2] /\ r[i + 1] = [item |-> m + 1, part |-> 2, of |-> 2]
      BY <3>1
    <3>3. r[i + 1] = [r[i] EXCEPT !.part = 2] /\ r[i].part < r[i].of
      BY <3>2
    <3> QED
      BY <3>3 DEF Follows
  <2> QED
    BY <1>1, <2>2, <2>3, <2>4
<1>9. \A i, j \in 1..Len(r) : i <= j => r[i].item <= r[j].item
  <2> SUFFICES ASSUME NEW i \in 1..Len(r), NEW j \in 1..Len(r), i <= j PROVE r[i].item <= r[j].item
    OBVIOUS
  <2>1. CASE j > Len(q)
    BY <1>5, <1>6, <2>1
  <2>2. CASE j <= Len(q)
    <3>1. i \in 1..Len(q) /\ j \in 1..Len(q)
      BY <1>1, <2>2
    <3> QED
      BY <3>1 DEF IsWhole
  <2> QED
    BY <1>1, <2>1, <2>2
<1>10. \A k \in Nat : Boundary(q, k) => Boundary(r, k)
  <2> SUFFICES ASSUME NEW k \in Nat, Boundary(q, k) PROVE Boundary(r, k)
    OBVIOUS
  <2>1. k \in 0..Len(q)
    BY DEF Boundary
  <2>2. k \in 0..Len(r)
    BY <1>1, <2>1
  <2>3. CASE k < Len(q)
    <3>1. k + 1 \in 1..Len(q) /\ q[k + 1].part = 1
      BY <1>1, <2>3 DEF Boundary
    <3> QED
      BY <3>1, <2>2 DEF Boundary
  <2>4. CASE k = Len(q)
    <3>1. k + 1 \in 1..Len(r) /\ r[k + 1].part = 1
      BY <1>1, <1>5, <2>4
    <3> QED
      BY <3>1, <2>2 DEF Boundary
  <2> QED
    BY <1>1, <2>1, <2>3, <2>4
<1>11. ASSUME NEW k \in Nat, k <= m, Above(q, k) PROVE Above(r, k)
  <2> SUFFICES ASSUME NEW i \in 1..Len(r) PROVE r[i].item > k
    BY DEF Above
  <2>1. CASE i > Len(q)
    BY <1>5, <1>11, <2>1
  <2>2. CASE i <= Len(q)
    <3>1. i \in 1..Len(q) /\ r[i] = q[i]
      BY <1>1, <2>2
    <3> QED
      BY <3>1, <1>11 DEF Above
  <2> QED
    BY <1>1, <2>1, <2>2
<1>12. IsWhole(r)
  BY <1>7, <1>8, <1>9 DEF IsWhole
<1> QED
  BY <1>6, <1>10, <1>11, <1>12

\* What a call of Byte leaves in t of a ring: what was in it, or an item more.
StoredFrom(ring, in, n, id, t) ==
    LET q == StretchOf(ring, displayOut, in)
        r == StretchOf(t.ring, displayOut, t.in)
    IN  /\ t.ring \in [Cells -> Items] /\ t.in \in Cells /\ t = [ring |-> t.ring, in |-> t.in]
        /\ \/ t = [ring |-> ring, in |-> in]
           \/ /\ Len(r) = Len(q) + n
              /\ \A i \in 1..Len(q) : r[i] = q[i]
              /\ \A i \in 1..n : r[Len(q) + i] = [item |-> id, part |-> i, of |-> n]

\* Byte stores the whole item or nothing.
LEMMA ByteStores ==
    ASSUME displayOut \in Cells, NEW ring \in [Cells -> Items], NEW in \in Cells, NEW n \in 1..2, NEW id \in Nat,
           NEW s, s = [ring |-> ring, in |-> in]
    PROVE  StoredFrom(ring, in, n, id, Byte(s, n, id))
<1> DEFINE D == DispBufSize
           o == displayOut
           t == Byte(s, n, id)
           q == StretchOf(ring, o, in)
           r == StretchOf(t.ring, o, t.in)
           k == Span(o, in)
<1>0. s.ring = ring /\ s.in = in /\ DOMAIN ring = Cells
  OBVIOUS
<1>1. CASE \E i \in 1..n : After(in, i, D) = o
  <2>1. t = s
    BY <1>0, <1>1 DEF Byte
  <2> QED
    BY <2>1 DEF StoredFrom
<1>2. CASE \A i \in 1..n : After(in, i, D) # o
  <2>1. k \in 0..(D - 1) /\ D \in Nat \ {0} /\ D > 2
    BY SpanIs, ConsoleSizes
  <2>2. k + n <= D - 1
    <3>1. 1 \in 0..(D - 1) /\ 2 \in 0..(D - 1)
      BY <2>1
    <3>0. /\ k = IF in >= o THEN in - o ELSE in - o + D
          /\ Span(in, o) = IF o >= in THEN o - in ELSE o - in + D
          /\ o \in 0..(D - 1) /\ in \in 0..(D - 1) /\ D \in Nat /\ D > 2
      BY SpanIs, ConsoleSizes DEF Cells
    <3>2. ASSUME k = D - 1 PROVE FALSE
      <4>1. After(in, 1, D) = o
        <5>1. 1 \in 0..(DispBufSize - 1) /\ Span(in, o) = 1
          BY <3>0, <3>1, <3>2
        <5> QED
          BY <5>1, StepsAdd
      <4> QED
        BY <4>1, <1>2
    <3>3. ASSUME n = 2, k = D - 2 PROVE FALSE
      <4>1. After(in, 2, D) = o
        <5>1. 2 \in 0..(DispBufSize - 1) /\ Span(in, o) = 2
          BY <2>1, <3>0, <3>1, <3>3
        <5> QED
          BY <5>1, StepsAdd
      <4> QED
        BY <4>1, <1>2, <3>3
    <3> QED
      BY <2>1, <3>2, <3>3
  <2>3. /\ t.in = After(in, n, D)
        /\ t.ring = [i \in Cells |-> IF \E p \in 1..n : i = After(in, p - 1, D)
                                     THEN [item |-> id, of |-> n,
                                           part |-> CHOOSE p \in 1..n : i = After(in, p - 1, D)]
                                     ELSE ring[i]]
        /\ t = [ring |-> t.ring, in |-> t.in]
    BY <1>0, <1>2 DEF Byte
  <2>4. \A p \in 1..n : p - 1 \in 0..(D - 1) /\ k + (p - 1) < D /\ k + (p - 1) \in 0..(D - 1)
    BY <2>1, <2>2
  <2>5. \A p \in 1..n : /\ After(in, p - 1, D) \in Cells
                        /\ After(in, p - 1, D) = After(o, k + (p - 1), D)
                        /\ Span(o, After(in, p - 1, D)) = k + (p - 1)
    BY <2>4, StepsAdd
  <2>6. \A p, w \in 1..n : After(in, p - 1, D) = After(in, w - 1, D) => p = w
    BY <2>1, <2>5
  <2>7. \A p \in 1..n : t.ring[After(in, p - 1, D)] = [item |-> id, part |-> p, of |-> n]
    <3> SUFFICES ASSUME NEW p \in 1..n PROVE t.ring[After(in, p - 1, D)] = [item |-> id, part |-> p, of |-> n]
      OBVIOUS
    <3>1. (CHOOSE w \in 1..n : After(in, p - 1, D) = After(in, w - 1, D)) = p
      BY <2>6
    <3> QED
      BY <2>3, <2>5, <3>1
  <2>8. /\ n \in 0..(D - 1) /\ t.in \in Cells /\ Span(o, t.in) = k + n
    <3>1. n \in 0..(D - 1) /\ k + n < D
      BY <2>1, <2>2
    <3> QED
      BY <3>1, <2>3, StepsAdd
  <2>9. t.ring \in [Cells -> Items]
    <3> SUFFICES ASSUME NEW c \in Cells PROVE t.ring[c] \in Items
      BY <2>3
    <3>1. CASE \E p \in 1..n : c = After(in, p - 1, D)
      <4>1. PICK p \in 1..n : c = After(in, p - 1, D)
        BY <3>1
      <4>2. t.ring[c] = [item |-> id, part |-> p, of |-> n]
        BY <2>7, <4>1
      <4> QED
        BY <4>2 DEF Items
    <3>2. CASE ~(\E p \in 1..n : c = After(in, p - 1, D))
      BY <2>3, <3>2
    <3> QED
      BY <3>1, <3>2
  <2>10. Len(q) = k /\ Len(r) = k + n
    BY <2>8, <2>9, StretchIs, ZenonT(30)
  <2>11. \A i \in 1..k : r[i] = q[i]
    <3> SUFFICES ASSUME NEW i \in 1..k PROVE r[i] = q[i]
      OBVIOUS
    <3>1. i - 1 \in 0..(D - 1) /\ i \in 1..(k + n)
      BY <2>1
    <3>2. After(o, i - 1, D) \in Cells /\ Span(o, After(o, i - 1, D)) = i - 1
      BY <3>1, StepsAdd
    <3>3. ~(\E p \in 1..n : After(o, i - 1, D) = After(in, p - 1, D))
      BY <2>1, <2>5, <3>2
    <3>4. t.ring[After(o, i - 1, D)] = ring[After(o, i - 1, D)]
      BY <2>3, <3>2, <3>3
    <3>5. r[i] = t.ring[After(o, i - 1, D)] /\ q[i] = ring[After(o, i - 1, D)]
      <4>1. \A x \in 1..(k + n) : r[x] = t.ring[After(o, x - 1, D)]
        <5>1. \A x \in 1..Span(o, t.in) : r[x] = t.ring[After(o, x - 1, D)]
          <6>1. t.ring \in [Cells -> Items] /\ t.in \in Cells /\ o \in Cells
            BY <2>8, <2>9
          <6> HIDE DEF t
          <6> QED
            BY <6>1, StretchIs
        <5> QED
          BY <5>1, <2>8
      <4>2. \A x \in 1..k : q[x] = ring[After(o, x - 1, D)]
        BY StretchIs
      <4> QED
        BY <4>1, <4>2, <3>1
    <3> QED
      BY <3>4, <3>5
  <2>12. \A i \in 1..n : r[k + i] = [item |-> id, part |-> i, of |-> n]
    <3> SUFFICES ASSUME NEW i \in 1..n PROVE r[k + i] = [item |-> id, part |-> i, of |-> n]
      OBVIOUS
    <3>1. k + i \in 1..(k + n) /\ (k + i) - 1 = k + (i - 1)
      BY <2>1
    <3>2. r[k + i] = t.ring[After(o, (k + i) - 1, D)]
      <4>1. \A x \in 1..(k + n) : r[x] = t.ring[After(o, x - 1, D)]
        <5>1. \A x \in 1..Span(o, t.in) : r[x] = t.ring[After(o, x - 1, D)]
          <6>1. t.ring \in [Cells -> Items] /\ t.in \in Cells /\ o \in Cells
            BY <2>8, <2>9
          <6> HIDE DEF t
          <6> QED
            BY <6>1, StretchIs
        <5> QED
          BY <5>1, <2>8
      <4> QED
        BY <4>1, <3>1
    <3> QED
      BY <3>1, <3>2, <2>5, <2>7
  <2> QED
    <3>1. /\ Len(r) = Len(q) + n
          /\ \A i \in 1..Len(q) : r[i] = q[i]
          /\ \A i \in 1..n : r[Len(q) + i] = [item |-> id, part |-> i, of |-> n]
      <4> HIDE DEF q, r, k
      <4> QED
        BY <2>10, <2>11, <2>12
    <3>2. t.ring \in [Cells -> Items] /\ t.in \in Cells /\ t = [ring |-> t.ring, in |-> t.in]
      BY <2>3, <2>8, <2>9
    <3>3. StoredFrom(ring, in, n, id, t)
      <4> HIDE DEF t
      <4> QED
        BY <3>1, <3>2 DEF StoredFrom
    <3> QED
      BY <3>3
<1> QED
  BY <1>1, <1>2

\* What the ring has to be when items were stored, m of them so far.
RingInv(ring, in, m) ==
    /\ ring \in [Cells -> Items] /\ in \in Cells /\ m \in Nat
    /\ IsWhole(StretchOf(ring, displayOut, in))
    /\ \A i \in 1..Len(StretchOf(ring, displayOut, in)) : StretchOf(ring, displayOut, in)[i].item <= m
    /\ \A i \in 0..pollIn : Boundary(StretchOf(ring, displayOut, in), Span(displayOut, Starts[i]))
    /\ \A d \in Displays : /\ Above(StretchOf(ring, displayOut, in), shown[d]) /\ shown[d] <= m
                           /\ Above(StretchOf(ring, displayOut, in), Newest(frame[d])) /\ Newest(frame[d]) <= m

\* The newest item of a frame has a number.
LEMMA NewestIs == ASSUME NEW f \in Seq(Items) PROVE Newest(f) \in Nat
<1>1. CASE f = <<>>
  BY <1>1 DEF Newest
<1>2. CASE f # <<>>
  <2>1. Len(f) \in 1..Len(f)
    BY <1>2
  <2>2. f[Len(f)] \in Items
    BY <2>1
  <2> QED
    BY <1>2, <2>2 DEF Newest, Items
<1> QED
  BY <1>1, <1>2

\* Each poll starts in the ring.
LEMMA StartsIn ==
    ASSUME DisplayTypes, NEW i \in 0..pollIn
    PROVE  Starts[i] \in Cells /\ Span(displayOut, Starts[i]) \in 0..(DispBufSize - 1)
<1>1. Starts[i] = IF i = pollIn THEN currentPoll.start ELSE pollBuffer[i].start
  BY DEF Starts
<1>2. i # pollIn => i \in 0..(MaxPolls - 1)
  BY ConsoleSizes DEF DisplayTypes
<1>3. Starts[i] \in Cells
  BY <1>1, <1>2 DEF DisplayTypes
<1> QED
  BY <1>3, SpanIs DEF DisplayTypes

\* What is unsent is a sequence of items.
LEMMA RingIs ==
    ASSUME NEW ring \in [Cells -> Items], NEW in \in Cells, displayOut \in Cells
    PROVE  StretchOf(ring, displayOut, in) \in Seq(Items)
  BY StretchIs

\* An item more in the ring, or none if it is full.
LEMMA ByteGrows ==
    ASSUME DisplayTypes, NEW ring, NEW in, NEW m, RingInv(ring, in, m), NEW n \in 1..2, NEW s, s = [ring |-> ring, in |-> in]
    PROVE  LET t == Byte(s, n, m + 1)
           IN  /\ RingInv(t.ring, t.in, m + 1) /\ t = [ring |-> t.ring, in |-> t.in]
               /\ Span(displayOut, in) <= Span(displayOut, t.in)
<1> DEFINE t == Byte(s, n, m + 1)
           q == StretchOf(ring, displayOut, in)
           r == StretchOf(t.ring, displayOut, t.in)
<1>1. /\ ring \in [Cells -> Items] /\ in \in Cells /\ m \in Nat /\ displayOut \in Cells /\ m + 1 \in Nat
  BY DEF RingInv, DisplayTypes
<1>2. /\ t.ring \in [Cells -> Items] /\ t.in \in Cells /\ t = [ring |-> t.ring, in |-> t.in]
      /\ \/ t = s
         \/ /\ Len(r) = Len(q) + n
            /\ \A i \in 1..Len(q) : r[i] = q[i]
            /\ \A i \in 1..n : r[Len(q) + i] = [item |-> m + 1, part |-> i, of |-> n]
  <2> DEFINE id == m + 1
  <2>1. id \in Nat
    BY <1>1
  <2> HIDE DEF id
  <2>2. StoredFrom(ring, in, n, id, Byte(s, n, id))
    BY <1>1, <2>1, ByteStores
  <2>3. StoredFrom(ring, in, n, m + 1, t) /\ s = [ring |-> ring, in |-> in]
    BY <2>2 DEF id
  <2> HIDE DEF t
  <2> QED
    BY <2>3 DEF StoredFrom
<1>3. /\ IsWhole(q) /\ \A i \in 1..Len(q) : q[i].item <= m
      /\ \A i \in 0..pollIn : Boundary(q, Span(displayOut, Starts[i]))
      /\ \A d \in Displays : /\ Above(q, shown[d]) /\ shown[d] <= m
                             /\ Above(q, Newest(frame[d])) /\ Newest(frame[d]) <= m
  BY DEF RingInv
<1>4. \A d \in Displays : shown[d] \in Nat /\ Newest(frame[d]) \in Nat
  BY NewestIs DEF DisplayTypes
<1>5. \A i \in 0..pollIn : Span(displayOut, Starts[i]) \in Nat
  BY StartsIn
<1>6. q \in Seq(Items) /\ r \in Seq(Items)
  BY <1>1, <1>2, RingIs
<1>7. Len(q) = Span(displayOut, in) /\ Len(r) = Span(displayOut, t.in)
  BY <1>1, <1>2, StretchIs, ZenonT(30)
<1>8. CASE t = s
  <2>1. t.ring = ring /\ t.in = in
    BY <1>8
  <2>2. \A i \in 1..Len(q) : q[i].item <= m + 1
    <3>1. \A i \in 1..Len(q) : q[i].item \in Nat
      BY <1>6 DEF Items
    <3> QED
      BY <1>1, <1>3, <3>1
  <2>3. \A d \in Displays : shown[d] <= m + 1 /\ Newest(frame[d]) <= m + 1
    BY <1>1, <1>3, <1>4
  <2>4. RingInv(ring, in, m + 1)
    BY <1>1, <1>3, <2>2, <2>3 DEF RingInv
  <2>5. Span(displayOut, in) <= Span(displayOut, t.in)
    BY <1>1, <2>1, SpanIs
  <2> QED
    BY <1>2, <2>1, <2>4, <2>5
<1>9. CASE /\ Len(r) = Len(q) + n
           /\ \A i \in 1..Len(q) : r[i] = q[i]
           /\ \A i \in 1..n : r[Len(q) + i] = [item |-> m + 1, part |-> i, of |-> n]
  <2> HIDE DEF q, r
  <2>1. /\ IsWhole(r) /\ \A i \in 1..Len(r) : r[i].item <= m + 1
        /\ \A k \in Nat : Boundary(q, k) => Boundary(r, k)
        /\ \A k \in Nat : k <= m /\ Above(q, k) => Above(r, k)
    BY <1>1, <1>3, <1>6, <1>9, OneMore
  <2>2. \A i \in 0..pollIn : Boundary(r, Span(displayOut, Starts[i]))
    BY <1>3, <1>5, <2>1
  <2>3. \A d \in Displays : /\ Above(r, shown[d]) /\ shown[d] <= m + 1
                            /\ Above(r, Newest(frame[d])) /\ Newest(frame[d]) <= m + 1
    BY <1>1, <1>3, <1>4, <2>1
  <2>4. RingInv(t.ring, t.in, m + 1)
    BY <1>1, <1>2, <2>1, <2>2, <2>3 DEF RingInv, r
  <2>5. Span(displayOut, in) <= Span(displayOut, t.in)
    BY <1>6, <1>7, <1>9
  <2> QED
    BY <1>2, <2>4, <2>5
<1> QED
  BY <1>2, <1>8, <1>9

\* Output: one item or two.
LEMMA OutputGrows ==
    ASSUME DisplayInv, NEW n \in 1..2, NEW k \in 1..2, OutputItem(n, k)
    PROVE  /\ RingInv(displayRing', displayIn', made') /\ UNCHANGED <<displayOut, frame, shown, sendToAll, mp>>
           /\ Span(displayOut, displayIn) <= Span(displayOut, displayIn')
<1> DEFINE s1 == Byte(Here, n, made + 1)
           s2 == Byte(s1, n, made + 2)
<1>1. DisplayTypes /\ made \in Nat /\ Here = [ring |-> displayRing, in |-> displayIn] /\ displayOut \in Cells
  BY DEF DisplayInv, DisplayTypes, Here
<1>2. RingInv(displayRing, displayIn, made)
  BY DEF DisplayInv, DisplayTypes, RingInv, Unsent, PollsAtItems, FrameIs
<1>3. /\ RingInv(s1.ring, s1.in, made + 1) /\ s1 = [ring |-> s1.ring, in |-> s1.in]
      /\ Span(displayOut, displayIn) <= Span(displayOut, s1.in)
  BY <1>1, <1>2, ByteGrows
<1>4. CASE k = 1
  <2>1. displayRing' = s1.ring /\ displayIn' = s1.in /\ made' = made + 1 /\ UNCHANGED <<displayOut, frame, shown, sendToAll, mp>>
    BY <1>4 DEF OutputItem
  <2> QED
    BY <1>3, <2>1
<1>5. CASE k = 2
  <2>1. displayRing' = s2.ring /\ displayIn' = s2.in /\ made' = made + 2 /\ UNCHANGED <<displayOut, frame, shown, sendToAll, mp>>
    BY <1>5 DEF OutputItem
  <2> HIDE DEF s1
  <2>2. made + 2 = (made + 1) + 1
    BY <1>1
  <2>3. /\ RingInv(s2.ring, s2.in, made + 2)
        /\ Span(displayOut, s1.in) <= Span(displayOut, s2.in)
    <3>1. /\ RingInv(s1.ring, s1.in, made + 1) /\ s1 = [ring |-> s1.ring, in |-> s1.in] /\ DisplayTypes
      BY <1>1, <1>3
    <3>2. PICK m1 : m1 = made + 1
      OBVIOUS
    <3>3. RingInv(s1.ring, s1.in, m1)
      BY <3>1, <3>2
    <3>4. /\ RingInv(Byte(s1, n, m1 + 1).ring, Byte(s1, n, m1 + 1).in, m1 + 1)
          /\ Span(displayOut, s1.in) <= Span(displayOut, Byte(s1, n, m1 + 1).in)
      BY <3>1, <3>3, ByteGrows
    <3>5. m1 + 1 = made + 2
      BY <2>2, <3>2
    <3> QED
      BY <3>4, <3>5
  <2>4. Span(displayOut, displayIn) <= Span(displayOut, s2.in)
    <3>1. displayIn \in Cells /\ s1.in \in Cells /\ s2.in \in Cells
      BY <1>2, <1>3, <2>3 DEF RingInv
    <3>2. Span(displayOut, displayIn) \in Int /\ Span(displayOut, s1.in) \in Int /\ Span(displayOut, s2.in) \in Int
      BY <1>1, <3>1, SpanIs
    <3> HIDE DEF s2
    <3> QED
      BY <1>3, <2>3, <3>2
  <2> QED
    BY <2>1, <2>3, <2>4
<1> QED
  BY <1>4, <1>5

\* Characters, coordinates and new modes: the polls stay where they are.
LEMMA OutputItemKeeps ==
    ASSUME DisplayInv, NEW n \in 1..2, NEW k \in 1..2, OutputItem(n, k), UNCHANGED <<pollBuffer, pollIn>>,
           currentPoll' \in [sum1 : Nat, sum2 : Nat, start : Cells], currentPoll'.start = currentPoll.start
    PROVE  DisplayInv'
<1>1. /\ RingInv(displayRing', displayIn', made') /\ UNCHANGED <<displayOut, frame, shown>>
      /\ Span(displayOut, displayIn) <= Span(displayOut, displayIn')
  BY OutputGrows
<1>2. DisplayTypes'
  BY <1>1 DEF DisplayInv, DisplayTypes, RingInv
<1>3. Starts' = Starts
  BY DEF Starts
<1>4. Unsent' = StretchOf(displayRing', displayOut, displayIn')
  BY <1>1 DEF Unsent
<1>5. \A i \in 0..pollIn : Span(displayOut, Starts[i]) \in Nat /\ Span(displayOut, currentPoll.start) \in Int
  <2>1. displayOut \in Cells /\ currentPoll.start \in Cells /\ DisplayTypes
    BY DEF DisplayInv, DisplayTypes
  <2>2. \A i \in 0..pollIn : Span(displayOut, Starts[i]) \in Nat
    BY <2>1, StartsIn
  <2>3. Span(displayOut, currentPoll.start) \in Int
    BY <2>1, SpanIs
  <2> QED
    BY <2>2, <2>3
<1>6. PollsInOrder'
  <2>1. PollsInOrder /\ displayOut' = displayOut /\ pollIn' = pollIn
    BY <1>1 DEF DisplayInv
  <2>2. Span(displayOut, currentPoll.start) <= Span(displayOut, displayIn')
    <3>1. /\ Span(displayOut, currentPoll.start) \in Int /\ Span(displayOut, displayIn) \in Int
          /\ Span(displayOut, displayIn') \in Int
      BY <1>1, SpanIs DEF DisplayInv, DisplayTypes, RingInv
    <3> QED
      BY <3>1, <2>1, <1>1 DEF PollsInOrder
  <2> QED
    BY <2>1, <2>2, <1>3 DEF PollsInOrder, Span
<1>7. PollsAtItems'
  BY <1>1, <1>3, <1>4 DEF PollsAtItems, RingInv, Span
<1>8. IsWhole(Unsent') /\ \A i \in 1..Len(Unsent') : Unsent'[i].item <= made'
  BY <1>1, <1>4 DEF RingInv
<1>9. \A d \in Displays : FrameIs(frame[d], shown[d])'
  <2> SUFFICES ASSUME NEW d \in Displays PROVE FrameIs(frame[d], shown[d])'
    OBVIOUS
  <2>1. /\ frame'[d] = frame[d] /\ shown'[d] = shown[d]
    BY <1>1
  <2>2. IsWhole(frame[d]) /\ Above(frame[d], shown[d])
    BY DEF DisplayInv, FrameIs
  <2>3. /\ Above(Unsent', shown[d]) /\ Above(Unsent', Newest(frame[d])) /\ Newest(frame[d]) <= made' /\ shown[d] <= made'
    BY <1>1, <1>4 DEF RingInv
  <2> QED
    BY <2>1, <2>2, <2>3 DEF FrameIs
<1> QED
  BY <1>2, <1>6, <1>7, <1>8, <1>9 DEF DisplayInv

-----------------------------------------------------------------------------
\* What lies between two starts of items is sent, and the ring is given free up to the second.
Sends(s, e) ==
    /\ s \in Cells /\ e \in Cells /\ Span(displayOut, s) <= Span(displayOut, e)
    /\ Span(displayOut, e) <= Span(displayOut, displayIn)
    /\ Boundary(Unsent, Span(displayOut, s)) /\ Boundary(Unsent, Span(displayOut, e))

\* It has as many as the way from displayOut to displayIn.
LEMMA UnsentIs ==
    ASSUME DisplayInv
    PROVE  Unsent \in Seq(Items) /\ Len(Unsent) = Span(displayOut, displayIn) /\ Len(Unsent) \in 0..(DispBufSize - 1)
  BY StretchIs, ZenonT(30) DEF DisplayInv, DisplayTypes, Unsent

\* The frame that is made of it.
LEMMA FrameSent ==
    ASSUME DisplayInv, NEW s, NEW e, Sends(s, e)
    PROVE  /\ Stretch(s, e) \in Seq(Items) /\ IsWhole(Stretch(s, e))
           /\ Len(Stretch(s, e)) = Span(displayOut, e) - Span(displayOut, s)
           /\ \A i \in 1..Len(Stretch(s, e)) : /\ Stretch(s, e)[i] = Unsent[Span(displayOut, s) + i]
                                               /\ Span(displayOut, s) + i \in 1..Span(displayOut, e)
<1>1. /\ displayRing \in [Cells -> Items] /\ displayOut \in Cells /\ displayIn \in Cells /\ s \in Cells /\ e \in Cells
      /\ Span(displayOut, s) <= Span(displayOut, e) /\ Span(displayOut, e) <= Span(displayOut, displayIn)
  BY DEF Sends, DisplayInv, DisplayTypes
<1>2. Stretch(s, e) = StretchOf(displayRing, s, e)
  BY DEF Stretch, StretchOf
<1>3. /\ Stretch(s, e) \in Seq(Items) /\ Len(Stretch(s, e)) = Span(s, e)
      /\ Span(s, e) = Span(displayOut, e) - Span(displayOut, s)
      /\ \A i \in 1..Span(s, e) : Stretch(s, e)[i] = Unsent[Span(displayOut, s) + i]
  <2>1. StretchOf(displayRing, s, e) \in Seq(Items) /\ Len(StretchOf(displayRing, s, e)) = Span(s, e)
    BY <1>1, StretchIs
  <2>2. /\ Span(s, e) = Span(displayOut, e) - Span(displayOut, s)
        /\ \A i \in 1..Span(s, e) : StretchOf(displayRing, s, e)[i] = Unsent[Span(displayOut, s) + i]
    BY <1>1, StretchWithin DEF Unsent
  <2> QED
    BY <1>2, <2>1, <2>2
<1>4. Span(displayOut, s) \in Nat /\ Span(displayOut, e) \in Nat
  BY <1>1, SpanIs
<1>5. \A i \in 1..Len(Stretch(s, e)) : Span(displayOut, s) + i \in 1..Span(displayOut, e)
  BY <1>3, <1>4
<1>6. IsWhole(Stretch(s, e))
  <2>1. Unsent \in Seq(Items) /\ IsWhole(Unsent)
    BY UnsentIs DEF DisplayInv
  <2>2. Boundary(Unsent, Span(displayOut, s)) /\ Boundary(Unsent, Span(displayOut, e))
    BY DEF Sends
  <2> QED
    BY <1>1, <1>3, <2>1, <2>2, PartIsWhole
<1> QED
  BY <1>3, <1>5, <1>6

\* What is left in the ring.
LEMMA RestIs ==
    ASSUME DisplayInv, NEW s, NEW e, Sends(s, e)
    PROVE  LET rest == StretchOf(displayRing, e, displayIn)
           IN  /\ rest \in Seq(Items) /\ IsWhole(rest) /\ Len(rest) = Len(Unsent) - Span(displayOut, e)
               /\ Len(rest) = Span(e, displayIn)
               /\ \A i \in 1..Len(rest) : /\ rest[i] = Unsent[Span(displayOut, e) + i]
                                          /\ Span(displayOut, e) + i \in 1..Len(Unsent)
<1>1. /\ displayRing \in [Cells -> Items] /\ displayOut \in Cells /\ displayIn \in Cells /\ e \in Cells
      /\ Span(displayOut, e) <= Span(displayOut, displayIn) /\ Boundary(Unsent, Span(displayOut, e))
  BY DEF Sends, DisplayInv, DisplayTypes
<1>2. Unsent \in Seq(Items) /\ Len(Unsent) = Span(displayOut, displayIn) /\ IsWhole(Unsent) /\ Len(Unsent) \in Nat
  BY UnsentIs DEF DisplayInv
<1>3. Boundary(Unsent, Len(Unsent))
  BY <1>2 DEF Boundary
<1>4. Sends(e, displayIn)
  BY <1>1, <1>2, <1>3 DEF Sends
<1>5. Stretch(e, displayIn) = StretchOf(displayRing, e, displayIn)
  BY DEF Stretch, StretchOf
<1>6. Len(StretchOf(displayRing, e, displayIn)) = Span(e, displayIn)
  BY <1>1, StretchIs
<1> QED
  BY <1>2, <1>4, <1>5, <1>6, FrameSent

\* The item behind a boundary is newer than what is before it.
LEMMA BehindBoundary ==
    ASSUME NEW q \in Seq(Items), IsWhole(q), NEW b \in 1..Len(q), Boundary(q, b), NEW i \in 1..Len(q), i > b
    PROVE  q[i].item > q[b].item
<1>1. b \in 1..(Len(q) - 1) /\ b + 1 \in 1..Len(q) /\ b + 1 <= i /\ q[b + 1].part = 1
  BY DEF Boundary
<1>2. Follows(q[b], q[b + 1]) /\ q[b + 1].item <= q[i].item
  BY <1>1 DEF IsWhole
<1>3. q[b] \in Items /\ q[b + 1] \in Items /\ q[i] \in Items
  BY <1>1
<1>4. ~(q[b].part < q[b].of)
  <2> SUFFICES ASSUME q[b].part < q[b].of PROVE FALSE
    OBVIOUS
  <2>1. q[b + 1] = [q[b] EXCEPT !.part = 2]
    BY <1>2 DEF Follows
  <2>2. q[b + 1].part = 2
    BY <1>3, <2>1 DEF Items
  <2> QED
    BY <1>1, <2>2
<1>5. q[b + 1].item > q[b].item
  BY <1>2, <1>4 DEF Follows
<1>6. q[b].item \in Nat /\ q[b + 1].item \in Nat /\ q[i].item \in Nat
  BY <1>3 DEF Items
<1> QED
  BY <1>2, <1>5, <1>6

\* A display to which the frame f goes, when its last one was g and it had seen items up to m before it.
LEMMA FrameFollows ==
    ASSUME DisplayInv, NEW s, NEW e, Sends(s, e), NEW d \in Displays, NEW n \in {shown[d], Newest(frame[d])}
    PROVE  LET f == Stretch(s, e)
               rest == StretchOf(displayRing, e, displayIn)
           IN  /\ f \in Seq(Items) /\ n \in Nat
               /\ IsWhole(f) /\ Above(f, n) /\ Above(rest, n) /\ Above(rest, Newest(f)) /\ Newest(f) <= made /\ n <= made
<1> DEFINE f == Stretch(s, e)
           rest == StretchOf(displayRing, e, displayIn)
           a == Span(displayOut, s)
           b == Span(displayOut, e)
<1>1. /\ f \in Seq(Items) /\ IsWhole(f) /\ Len(f) = b - a
      /\ \A i \in 1..Len(f) : f[i] = Unsent[a + i] /\ a + i \in 1..b
  BY FrameSent
<1>2. /\ rest \in Seq(Items) /\ Len(rest) = Len(Unsent) - b
      /\ \A i \in 1..Len(rest) : rest[i] = Unsent[b + i] /\ b + i \in 1..Len(Unsent)
  BY RestIs
<1>3. /\ Unsent \in Seq(Items) /\ Len(Unsent) \in Nat /\ IsWhole(Unsent) /\ made \in Nat
      /\ \A i \in 1..Len(Unsent) : Unsent[i].item <= made
      /\ frame[d] \in Seq(Items) /\ shown[d] \in Nat /\ FrameIs(frame[d], shown[d])
  BY UnsentIs DEF DisplayInv, DisplayTypes
<1>4. n \in Nat /\ Above(Unsent, n) /\ n <= made
  BY <1>3, NewestIs DEF FrameIs
<1>5. a \in Nat /\ b \in Nat /\ a <= b /\ b <= Len(Unsent) /\ Boundary(Unsent, b)
  <2>1. displayOut \in Cells /\ s \in Cells /\ e \in Cells
    BY DEF Sends, DisplayInv, DisplayTypes
  <2>2. a \in Nat /\ b \in Nat
    BY <2>1, SpanIs
  <2>3. a <= b /\ b <= Len(Unsent) /\ Boundary(Unsent, b)
    BY UnsentIs DEF Sends
  <2> QED
    BY <2>2, <2>3
<1> HIDE DEF f, rest, a, b
<1>6. \A i \in 1..Len(Unsent) : Unsent[i].item \in Nat /\ Unsent[i].item > n
  <2>1. \A i \in 1..Len(Unsent) : Unsent[i] \in Items
    BY <1>3
  <2> QED
    BY <2>1, <1>4 DEF Above, Items
<1>7. Above(f, n) /\ Above(rest, n)
  <2>1. \A i \in 1..Len(f) : a + i \in 1..Len(Unsent)
    BY <1>1, <1>3, <1>5
  <2> QED
    BY <1>1, <1>2, <1>4, <2>1 DEF Above
<1>8. Newest(f) <= made /\ Above(rest, Newest(f))
  <2>1. CASE f = <<>>
    <3>1. Newest(f) = 0
      BY <2>1 DEF Newest
    <3>2. \A i \in 1..Len(rest) : rest[i].item > 0
      BY <1>2, <1>4, <1>6
    <3> QED
      BY <3>1, <3>2, <1>3 DEF Above
  <2>2. CASE f # <<>>
    <3>1. Len(f) \in 1..Len(f) /\ a + Len(f) = b
      BY <1>1, <1>5, <2>2
    <3>2. Newest(f) = Unsent[b].item /\ b \in 1..Len(Unsent)
      BY <3>1, <1>1, <1>3, <1>5, <2>2 DEF Newest
    <3>3. \A i \in 1..Len(rest) : Unsent[b + i].item > Unsent[b].item
      <4> SUFFICES ASSUME NEW i \in 1..Len(rest) PROVE Unsent[b + i].item > Unsent[b].item
        OBVIOUS
      <4>1. b + i \in 1..Len(Unsent) /\ b + i > b
        BY <1>2, <1>5
      <4> QED
        BY <4>1, <3>2, <1>3, <1>5, BehindBoundary
    <3> QED
      BY <3>2, <3>3, <1>2, <1>3 DEF Above
  <2> QED
    BY <2>1, <2>2
<1> QED
  BY <1>1, <1>4, <1>7, <1>8 DEF f, rest

\* The displays and the ring after consoleSendOutput.
LEMMA SendKeeps ==
    ASSUME DisplayInv, NEW s, NEW e, Sends(s, e), SendOutput(s, e), UNCHANGED ringVars
    PROVE  /\ displayOut' = e /\ displayOut' \in Cells /\ Unsent' \in Seq(Items) /\ IsWhole(Unsent')
           /\ Len(Unsent') = Span(e, displayIn)
           /\ \A i \in 1..Len(Unsent') : Unsent'[i].item <= made'
           /\ frame' \in [Displays -> Seq(Items)] /\ shown' \in [Displays -> Nat]
           /\ \A d \in Displays : FrameIs(frame[d], shown[d])'
<1> DEFINE f == Stretch(s, e)
           rest == StretchOf(displayRing, e, displayIn)
<1>1. displayOut' = e /\ displayRing' = displayRing /\ displayIn' = displayIn /\ made' = made
  BY DEF SendOutput, ringVars
<1>2. Unsent' = rest
  BY <1>1 DEF Unsent
<1>3. PICK due \in SUBSET Displays :
         LET goes == {d \in Displays : /\ ~mp[d].stopped /\ Connected(d) /\ ~mp[d].immediate
                                       /\ sendToAll \/ mp[d].sendNow \/ d \in due}
             fits == {d \in goes : Span(s, e) <= free[d]}
         IN  /\ frame' = [d \in Displays |-> IF d \in fits THEN Stretch(s, e) ELSE frame[d]]
             /\ shown' = [d \in Displays |->
                             IF d \in fits /\ frame[d] # <<>> THEN Newest(frame[d]) ELSE shown[d]]
  BY DEF SendOutput
<1>4. \A d \in Displays : \/ frame'[d] = f /\ shown'[d] \in {shown[d], Newest(frame[d])}
                          \/ frame'[d] = frame[d] /\ shown'[d] = shown[d]
  BY <1>3
<1>5. /\ rest \in Seq(Items) /\ IsWhole(rest) /\ Len(rest) = Span(e, displayIn)
      /\ \A i \in 1..Len(rest) : /\ rest[i] = Unsent[Span(displayOut, e) + i]
                                 /\ Span(displayOut, e) + i \in 1..Len(Unsent)
  BY RestIs
<1>6. \A i \in 1..Len(rest) : rest[i].item <= made
  BY <1>5 DEF DisplayInv
<1>7. \A d \in Displays : \A n \in {shown[d], Newest(frame[d])} :
         /\ f \in Seq(Items) /\ n \in Nat
         /\ IsWhole(f) /\ Above(f, n) /\ Above(rest, n) /\ Above(rest, Newest(f)) /\ Newest(f) <= made /\ n <= made
  BY FrameFollows
<1>8. /\ frame' = [d \in Displays |-> frame'[d]] /\ shown' = [d \in Displays |-> shown'[d]]
      /\ frame \in [Displays -> Seq(Items)] /\ shown \in [Displays -> Nat]
  BY <1>3 DEF DisplayInv, DisplayTypes
<1> HIDE DEF f, rest
<1>9. \A d \in Displays : frame'[d] \in Seq(Items) /\ shown'[d] \in Nat
  BY <1>4, <1>7, <1>8
<1>10. \A d \in Displays : FrameIs(frame[d], shown[d])'
  <2> SUFFICES ASSUME NEW d \in Displays PROVE FrameIs(frame[d], shown[d])'
    OBVIOUS
  <2>1. CASE frame'[d] = f /\ shown'[d] \in {shown[d], Newest(frame[d])}
    BY <1>1, <1>2, <1>7, <2>1 DEF FrameIs
  <2>2. CASE frame'[d] = frame[d] /\ shown'[d] = shown[d]
    <3>1. /\ IsWhole(frame[d]) /\ Above(frame[d], shown[d]) /\ Newest(frame[d]) <= made /\ shown[d] <= made
      BY DEF DisplayInv, FrameIs
    <3>2. Above(rest, shown[d]) /\ Above(rest, Newest(frame[d]))
      BY <1>7
    <3> QED
      BY <1>1, <1>2, <2>2, <3>1, <3>2 DEF FrameIs
  <2> QED
    BY <1>4, <2>1, <2>2
<1>11. e \in Cells
  BY DEF Sends
<1> QED
  BY <1>1, <1>2, <1>5, <1>6, <1>8, <1>9, <1>10, <1>11

\* Every start of a poll may begin and end a frame.
LEMMA StartsSend ==
    ASSUME DisplayInv
    PROVE  /\ \A i \in 0..pollIn : Sends(Starts[i], currentPoll.start)
           /\ Starts[0] = displayOut /\ Starts[pollIn] = currentPoll.start
           /\ pollIn \in 0..(MaxPolls - 1)
           /\ currentPoll.start \in Cells /\ Span(displayOut, currentPoll.start) <= Span(displayOut, displayIn)
<1>1. DisplayTypes /\ PollsInOrder /\ PollsAtItems /\ pollIn \in Nat
  BY DEF DisplayInv, DisplayTypes
<1>2. /\ currentPoll.start \in Cells /\ displayOut \in Cells /\ displayIn \in Cells /\ pollIn \in 0..(MaxPolls - 1)
  BY <1>1 DEF DisplayTypes
<1>3. Starts[pollIn] = currentPoll.start /\ pollIn \in 0..pollIn /\ 0 \in 0..pollIn
  BY <1>1 DEF Starts
<1>4. \A i \in 0..pollIn : /\ Starts[i] \in Cells /\ Span(displayOut, Starts[i]) \in Nat
                           /\ Boundary(Unsent, Span(displayOut, Starts[i]))
  BY <1>1, StartsIn DEF PollsAtItems
<1>5. Span(displayOut, currentPoll.start) <= Span(displayOut, displayIn)
  BY <1>1 DEF PollsInOrder
<1>6. \A i \in 0..pollIn : Span(displayOut, Starts[i]) <= Span(displayOut, currentPoll.start)
  BY <1>1, <1>3 DEF PollsInOrder
<1>7. \A i \in 0..pollIn : Sends(Starts[i], currentPoll.start)
  BY <1>2, <1>3, <1>4, <1>5, <1>6 DEF Sends
<1>8. Starts[0] = displayOut
  BY <1>1 DEF PollsInOrder
<1> QED
  BY <1>2, <1>3, <1>5, <1>7, <1>8

\* A set of poll numbers has a largest.
LEMMA LargestIs ==
    ASSUME NEW n \in Nat, NEW S \in SUBSET (0..(n - 1)), S # {}
    PROVE  (CHOOSE i \in S : \A j \in S : j <= i) \in S
<1> DEFINE T == {n - i : i \in S}
<1>1. T \subseteq Nat /\ T # {}
  <2>1. \A i \in S : n - i \in Nat
    OBVIOUS
  <2> QED
    BY <2>1
<1>2. PICK x \in T : \A y \in T : ~(<<y, x>> \in OpToRel(<, Nat))
  BY <1>1, NatLessThanWellFounded, WFMin
<1>3. \A y \in T : ~(y < x)
  BY <1>1, <1>2 DEF OpToRel
<1>4. PICK i \in S : x = n - i
  OBVIOUS
<1>5. \A j \in S : j <= i
  <2> SUFFICES ASSUME NEW j \in S PROVE j <= i
    OBVIOUS
  <2>1. n - j \in T /\ i \in Int /\ j \in Int
    OBVIOUS
  <2> QED
    BY <1>3, <1>4, <2>1
<1> QED
  BY <1>5

\* Where whole items begin and end.
LEMMA Ends ==
    ASSUME NEW q \in Seq(Items), IsWhole(q)
    PROVE  Boundary(q, 0) /\ Boundary(q, Len(q))
<1>1. 0 < Len(q) => q # <<>>
  OBVIOUS
<1> QED
  BY <1>1 DEF IsWhole, Boundary

\* After a frame was sent the polls begin anew.
LEMMA SendCloses ==
    ASSUME DisplayInv, NEW s, NEW e, Sends(s, e), SendOutput(s, e), UNCHANGED ringVars, pollIn' \in {0, 1},
           pollBuffer' \in [0..(MaxPolls - 1) -> [sum1 : Nat, sum2 : Nat, start : Cells]],
           currentPoll' \in [sum1 : Nat, sum2 : Nat, start : Cells],
           Starts'[0] = e, pollIn' = 1 => Starts'[1] = displayIn
    PROVE  DisplayInv'
<1>1. /\ displayOut' = e /\ displayOut' \in Cells /\ Unsent' \in Seq(Items) /\ IsWhole(Unsent')
      /\ Len(Unsent') = Span(e, displayIn)
      /\ \A i \in 1..Len(Unsent') : Unsent'[i].item <= made'
      /\ frame' \in [Displays -> Seq(Items)] /\ shown' \in [Displays -> Nat]
      /\ \A d \in Displays : FrameIs(frame[d], shown[d])'
  BY SendKeeps
<1>2. displayRing' = displayRing /\ displayIn' = displayIn /\ made' = made /\ displayIn \in Cells
  BY DEF ringVars, DisplayInv, DisplayTypes
<1>3. DisplayTypes'
  <2>1. pollIn' \in 0..(MaxPolls - 1)
    BY ConsoleSizes
  <2> QED
    BY <1>1, <1>2, <2>1 DEF DisplayInv, DisplayTypes
<1>4. Span(e, e) = 0 /\ Span(e, displayIn) \in Nat
  <2>1. e \in Cells /\ displayIn \in Cells
    BY <1>1, <1>2
  <2>2. Span(e, displayIn) \in 0..(DispBufSize - 1) /\ Span(e, e) = e - e /\ e \in Int
    BY <2>1, SpanIs DEF Cells
  <2> QED
    BY <2>2
<1>5. Starts' = [i \in 0..pollIn' |-> IF i = pollIn' THEN currentPoll'.start ELSE pollBuffer'[i].start]
  BY DEF Starts
<1>6. currentPoll'.start = Starts'[pollIn']
  BY <1>5
<1>7. \A i \in 0..pollIn' : Span(e, Starts'[i]) = IF i = 0 THEN 0 ELSE Span(e, displayIn)
  BY <1>4
<1>8. PollsInOrder'
  <2>1. \A i, j \in 0..pollIn' : i <= j => Span(e, Starts'[i]) <= Span(e, Starts'[j])
    BY <1>4, <1>7
  <2>2. Span(e, currentPoll'.start) <= Span(e, displayIn)
    BY <1>4, <1>6, <1>7
  <2> QED
    BY <1>1, <1>2, <2>1, <2>2 DEF PollsInOrder, Span
<1>9. PollsAtItems'
  <2>1. Boundary(Unsent', 0) /\ Boundary(Unsent', Span(e, displayIn))
    BY <1>1, Ends
  <2>2. \A i \in 0..pollIn' : Boundary(Unsent', Span(e, Starts'[i]))
    BY <1>7, <2>1
  <2> QED
    BY <1>1, <2>2 DEF PollsAtItems, Span
<1> QED
  BY <1>1, <1>3, <1>8, <1>9 DEF DisplayInv

\* What leaves the ring, the polls and the frames alone keeps the invariant.
LEMMA DisplayStays == ASSUME DisplayInv, UNCHANGED <<ringVars, pollVars, displayOut, frame, shown>> PROVE DisplayInv'
<1>1. UNCHANGED <<displayRing, displayIn, made, pollBuffer, pollIn, currentPoll, displayOut, frame, shown>>
  BY DEF ringVars, pollVars
<1>2. Unsent' = Unsent /\ Starts' = Starts
  BY <1>1 DEF Unsent, Starts
<1>3. DisplayTypes' /\ PollsInOrder'
  BY <1>1, <1>2 DEF DisplayInv, DisplayTypes, PollsInOrder, Span
<1>4. PollsAtItems'
  BY <1>1, <1>2 DEF DisplayInv, PollsAtItems, Span
<1>5. \A d \in Displays : FrameIs(frame[d], shown[d])'
  BY <1>1, <1>2 DEF DisplayInv, FrameIs
<1> QED
  BY <1>1, <1>2, <1>3, <1>4, <1>5 DEF DisplayInv

\* A poll.
LEMMA PollKeeps == ASSUME DisplayInv, consolePoll, UNCHANGED ringVars PROVE DisplayInv'
<1>1. /\ DisplayTypes /\ pollIn \in 0..(MaxPolls - 1) /\ displayIn \in Cells /\ displayOut \in Cells
      /\ pollBuffer \in [0..(MaxPolls - 1) -> [sum1 : Nat, sum2 : Nat, start : Cells]]
      /\ currentPoll \in [sum1 : Nat, sum2 : Nat, start : Cells]
  BY DEF DisplayInv, DisplayTypes
<1>2. CASE UNCHANGED <<pollVars, sentVars>>
  BY <1>2, DisplayStays DEF sentVars
<1>3. ASSUME NEW i \in 0..(pollIn - 1), SendOutput(pollBuffer[i].start, currentPoll.start),
             pollBuffer' = [pollBuffer EXCEPT ![0] = currentPoll], pollIn' = 1, ReinitPoll
      PROVE  DisplayInv'
  <2>1. i \in 0..pollIn /\ i # pollIn /\ Starts[i] = pollBuffer[i].start
    BY <1>1 DEF Starts
  <2>2. Sends(pollBuffer[i].start, currentPoll.start)
    BY <2>1, StartsSend
  <2>3. currentPoll' = [sum1 |-> 0, sum2 |-> 0, start |-> displayIn] /\ 0 \in 0..(MaxPolls - 1)
    BY <1>3, ConsoleSizes DEF ReinitPoll
  <2>4. /\ pollBuffer' \in [0..(MaxPolls - 1) -> [sum1 : Nat, sum2 : Nat, start : Cells]]
        /\ currentPoll' \in [sum1 : Nat, sum2 : Nat, start : Cells] /\ pollBuffer'[0] = currentPoll
    BY <1>1, <1>3, <2>3
  <2>5. Starts'[0] = currentPoll.start /\ Starts'[1] = displayIn
    <3>1. Starts' = [k \in 0..1 |-> IF k = 1 THEN currentPoll'.start ELSE pollBuffer'[k].start]
      BY <1>3 DEF Starts
    <3> QED
      BY <3>1, <2>3, <2>4
  <2> QED
    BY <1>3, <2>2, <2>4, <2>5, SendCloses
<1>4. CASE pollIn # MaxPolls - 1 /\ pollBuffer' = [pollBuffer EXCEPT ![pollIn] = currentPoll] /\ pollIn' = pollIn + 1
           /\ ReinitPoll /\ UNCHANGED sentVars
  <2>1. /\ UNCHANGED <<displayRing, displayIn, made, displayOut, frame, shown>> /\ pollIn + 1 \in 0..(MaxPolls - 1)
        /\ currentPoll' = [sum1 |-> 0, sum2 |-> 0, start |-> displayIn] /\ pollIn \in Nat
    BY <1>1, <1>4, ConsoleSizes DEF ReinitPoll, sentVars, ringVars
  <2>2. DisplayTypes'
    BY <1>1, <1>4, <2>1 DEF DisplayTypes
  <2>3. /\ Starts' = [i \in 0..(pollIn + 1) |-> IF i = pollIn + 1 THEN displayIn ELSE pollBuffer'[i].start]
        /\ Starts = [i \in 0..pollIn |-> IF i = pollIn THEN currentPoll.start ELSE pollBuffer[i].start]
    BY <1>4, <2>1 DEF Starts
  <2>4. /\ \A i \in 0..pollIn : Starts'[i] = Starts[i]
        /\ Starts'[pollIn + 1] = displayIn
    <3>1. \A i \in 0..pollIn : i \in 0..(pollIn + 1) /\ i # pollIn + 1 /\ i \in 0..(MaxPolls - 1)
      BY <1>1, ConsoleSizes
    <3>2. \A i \in 0..pollIn : pollBuffer'[i].start = IF i = pollIn THEN currentPoll.start ELSE pollBuffer[i].start
      BY <1>1, <1>4, <3>1
    <3>3. pollIn + 1 \in 0..(pollIn + 1)
      BY <2>1
    <3> QED
      BY <2>3, <3>1, <3>2, <3>3
  <2>5. Unsent' = Unsent /\ Unsent \in Seq(Items) /\ IsWhole(Unsent) /\ Len(Unsent) = Span(displayOut, displayIn)
    BY <2>1, UnsentIs DEF Unsent, DisplayInv
  <2>6. \A i \in 0..pollIn' : i \in 0..pollIn \/ i = pollIn + 1
    BY <1>4, <2>1
  <2>7. \A i \in 0..pollIn : /\ Span(displayOut, Starts[i]) \in Nat
                             /\ Span(displayOut, Starts[i]) <= Span(displayOut, currentPoll.start)
    BY <1>1, StartsIn, StartsSend DEF Sends
  <2>8. /\ Span(displayOut, currentPoll.start) \in Nat /\ Span(displayOut, displayIn) \in Nat
        /\ Span(displayOut, currentPoll.start) <= Span(displayOut, displayIn)
    BY <1>1, SpanIs, StartsSend
  <2>9. PollsInOrder'
    <3>1. \A i, j \in 0..pollIn' : i <= j => Span(displayOut, Starts'[i]) <= Span(displayOut, Starts'[j])
      <4> SUFFICES ASSUME NEW i \in 0..pollIn', NEW j \in 0..pollIn', i <= j
                   PROVE  Span(displayOut, Starts'[i]) <= Span(displayOut, Starts'[j])
        OBVIOUS
      <4>1. CASE j \in 0..pollIn
        <5>1. i \in 0..pollIn
          BY <2>1, <2>6, <4>1
        <5> QED
          BY <2>4, <4>1, <5>1 DEF DisplayInv, PollsInOrder
      <4>2. CASE j = pollIn + 1 /\ i \in 0..pollIn
        BY <2>4, <2>7, <2>8, <4>2
      <4>3. CASE j = pollIn + 1 /\ i = pollIn + 1
        BY <2>4, <2>8, <4>3
      <4> QED
        BY <2>6, <4>1, <4>2, <4>3
    <3>2. Starts'[0] = displayOut
      <4>1. 0 \in 0..pollIn
        BY <2>1
      <4> QED
        BY <4>1, <2>4, StartsSend
    <3>3. currentPoll'.start = displayIn /\ displayOut' = displayOut /\ displayIn' = displayIn
      BY <2>1
    <3>4. Span(displayOut, displayIn) <= Span(displayOut, displayIn)
      BY <2>8
    <3> QED
      BY <3>1, <3>2, <3>3, <3>4 DEF PollsInOrder, Span
  <2>10. PollsAtItems'
    <3>1. \A i \in 0..pollIn' : Boundary(Unsent, Span(displayOut, Starts'[i]))
      BY <2>4, <2>5, <2>6, Ends DEF DisplayInv, PollsAtItems
    <3> QED
      BY <2>1, <2>5, <3>1 DEF PollsAtItems, Span
  <2>11. \A d \in Displays : FrameIs(frame[d], shown[d])'
    BY <2>1, <2>5 DEF DisplayInv, FrameIs
  <2> QED
    BY <2>1, <2>2, <2>5, <2>9, <2>10, <2>11 DEF DisplayInv
<1> QED
  <2>1. Matches \in SUBSET (0..(pollIn - 1)) /\ pollIn \in Nat
    BY <1>1 DEF Matches
  <2>2. Matches # {} => (CHOOSE i \in Matches : \A j \in Matches : j <= i) \in 0..(pollIn - 1)
    BY <2>1, LargestIs
  <2> QED
    BY <2>2, <1>2, <1>3, <1>4 DEF consolePoll

\* Output that waited long enough.
LEMMA CheckOutputKeeps == ASSUME DisplayInv, CheckOutput PROVE DisplayInv'
<1>1. /\ DisplayTypes /\ pollIn \in Nat /\ displayIn \in Cells /\ displayOut \in Cells
      /\ pollBuffer \in [0..(MaxPolls - 1) -> [sum1 : Nat, sum2 : Nat, start : Cells]]
      /\ currentPoll \in [sum1 : Nat, sum2 : Nat, start : Cells]
      /\ pollBuffer' = pollBuffer /\ UNCHANGED ringVars
  BY DEF DisplayInv, DisplayTypes, CheckOutput
<1>2. CASE pollIn = 0
  <2>1. SendOutput(displayOut, displayIn) /\ pollIn' = 0 /\ currentPoll' = [sum1 |-> 0, sum2 |-> 0, start |-> displayIn]
    BY <1>2 DEF CheckOutput, ReinitPoll
  <2>2. Sends(displayOut, displayIn)
    <3>1. Span(displayOut, displayOut) = 0 /\ Span(displayOut, displayIn) \in Nat
      <4>1. /\ Span(displayOut, displayIn) \in 0..(DispBufSize - 1) /\ Span(displayOut, displayOut) = displayOut - displayOut
            /\ displayOut \in Int
        BY <1>1, SpanIs DEF Cells
      <4> QED
        BY <4>1
    <3>2. Boundary(Unsent, 0) /\ Boundary(Unsent, Span(displayOut, displayIn))
      BY UnsentIs, Ends DEF DisplayInv
    <3> QED
      BY <1>1, <3>1, <3>2 DEF Sends
  <2>3. Starts' = [i \in 0..0 |-> IF i = 0 THEN displayIn ELSE pollBuffer'[i].start]
    BY <2>1 DEF Starts
  <2>4. Starts'[0] = displayIn /\ currentPoll' \in [sum1 : Nat, sum2 : Nat, start : Cells]
    BY <1>1, <2>1, <2>3
  <2> QED
    BY <1>1, <2>1, <2>2, <2>4, SendCloses
<1>3. CASE pollIn # 0
  <2>1. SendOutput(pollBuffer[0].start, currentPoll.start) /\ pollIn' = 0 /\ currentPoll' = currentPoll
    BY <1>3 DEF CheckOutput
  <2>2. 0 \in 0..pollIn /\ Starts[0] = pollBuffer[0].start
    BY <1>1, <1>3 DEF Starts
  <2>3. Sends(pollBuffer[0].start, currentPoll.start)
    BY <2>2, StartsSend
  <2>4. Starts' = [i \in 0..0 |-> IF i = 0 THEN currentPoll.start ELSE pollBuffer'[i].start]
    BY <2>1 DEF Starts
  <2>5. Starts'[0] = currentPoll.start
    BY <2>4
  <2> QED
    BY <1>1, <2>1, <2>3, <2>5, SendCloses
<1> QED
  BY <1>2, <1>3

-----------------------------------------------------------------------------
(***************************************************************************)
(* The keyboard.                                                           *)
(***************************************************************************)
\* One operator types, and in a behaviour with the automatic date no one does.
OneSource == /\ \E d \in Displays : Typists \subseteq {d}
             /\ \A s \in Settings : s.keys = 0 \/ s.date = <<>>

KeyCells == 0..(KeyBufSize - 1)
Codes == Keys \cup {Up(k) : k \in Keys}
At == {"idle", "test", "store", "advance"}

KeyTypes ==
    /\ keyRing \in [KeyCells -> Nat] /\ keyOut \in KeyCells /\ keyIn \in KeyCells
    /\ keyMask \subseteq Keys /\ accepted \in Seq(Codes) /\ seen \in Seq(SUBSET Keys)
    /\ {keyboardSendUp, keyboardTrue, everTrue} \subseteq BOOLEAN
    /\ input \in [Producers -> [at : At, key : Nat, nextin : KeyCells]]
    /\ typed \in Nat /\ setting \in Settings /\ date \in Seq(Keys)

\* The keys in the ring, and those that were read from it.
KeysWaiting == (keyIn - keyOut) % KeyBufSize
Gone == Len(accepted) - KeysWaiting

\* The ring holds the keys that were taken last.
KeysHeld ==
    /\ KeysWaiting <= Len(accepted)
    /\ \A i \in 1..KeysWaiting : keyRing[After(keyOut, i - 1, KeyBufSize)] = accepted[Gone + i]

\* One thread at a time has a key to store, and what it found out before still holds.
Queueing ==
    /\ \A p \in Producers : input[p].at # "idle" => input[p].key \in Codes /\ input[p].nextin = After(keyIn, 1, KeyBufSize)
    /\ \A p \in Producers : input[p].at \in {"store", "advance"} => input[p].nextin # keyOut
    /\ \A p \in Producers : input[p].at = "advance" => keyRing[keyIn] = input[p].key
    /\ \A p, q \in Producers : input[p].at # "idle" /\ input[q].at # "idle" => p = q
Sources ==
    /\ date # <<>> => setting.date # <<>>
    /\ input["main"].at # "idle" => setting.date # <<>>
    /\ \A d \in Displays : input[d].at # "idle" => setting.keys > 0 /\ d \in Typists

\* The presses among the first n of the keys a, and what the PP has seen of them.
PressesOf(a, n) == {i \in 1..n : ~IsUp(a[i])}
SeenIs(a, n, s) ==
    /\ Len(s) = Cardinality(PressesOf(a, n))
    /\ \A i \in PressesOf(a, n) : s[Cardinality(PressesOf(a, i))] = {a[i]}

\* The keys that are down after them.
DownIs(a, n) == {k \in Keys : \E i \in 1..n : a[i] = k /\ \A j \in 1..n : j > i => a[j] # Up(k)}

\* With rollover a key that is shown goes up before the next one.
Rollover ==
    ~everTrue => ~keyboardTrue /\ (keyMask # {} => keyboardSendUp) /\ SeenIs(accepted, Gone, seen)

KeyInv ==
    /\ KeyTypes /\ KeysHeld /\ Queueing /\ Sources /\ Rollover /\ keyMask \subseteq DownIs(accepted, Gone)

-----------------------------------------------------------------------------

\* keyRing has room, and key codes are of 7 bits.
LEMMA KeySizes == KeyBufSize \in Nat \ {0} /\ KeyBufSize > 1 /\ Keys \subseteq 1..127
  BY ConsoleAssumption

\* The number of keys in the ring.
LEMMA WaitingIs ==
    ASSUME KeyTypes
    PROVE  /\ KeysWaiting \in 0..(KeyBufSize - 1)
           /\ KeysWaiting = IF keyIn >= keyOut THEN keyIn - keyOut ELSE keyIn - keyOut + KeyBufSize
  BY TurnIs, KeySizes DEF KeyTypes, KeyCells, KeysWaiting

\* One or more cells along keyRing.
LEMMA NextKeyCell ==
    ASSUME NEW c \in KeyCells, NEW n \in 0..KeyBufSize
    PROVE  /\ After(c, n, KeyBufSize) \in KeyCells
           /\ After(c, n, KeyBufSize) = IF c + n >= KeyBufSize THEN c + n - KeyBufSize ELSE c + n
<1>1. c \in 0..(KeyBufSize - 1) /\ n \in (-1)..KeyBufSize /\ n >= 0 /\ c >= 0 /\ KeyBufSize \in Nat \ {0}
  BY KeySizes DEF KeyCells
<1>2. /\ After(c, n, KeyBufSize) \in 0..(KeyBufSize - 1)
      /\ After(c, n, KeyBufSize) = IF c + n >= KeyBufSize THEN c + n - KeyBufSize
                                   ELSE IF c + n < 0 THEN c + n + KeyBufSize ELSE c + n
  BY <1>1, AfterIs
<1> QED
  BY <1>1, <1>2 DEF KeyCells

\* The code of a press is the key, that of a release the key with bit 7.
LEMMA CodesAre == /\ Codes \subseteq Nat /\ Keys \subseteq Codes
                  /\ \A c \in Codes : ~IsUp(c) => c \in Keys
                  /\ \A k \in Keys : ~IsUp(k) /\ IsUp(Up(k)) /\ Up(k) \in Codes
                  /\ \A c \in Codes : IsUp(c) => c - 128 \in Keys /\ Up(c - 128) = c
<1>1. \A k \in Keys : k \in Nat /\ k >= 1 /\ k <= 127
  BY KeySizes
<1> QED
  BY <1>1 DEF Codes, IsUp, Up

\* Presses are counted one by one.
LEMMA PressesGrow ==
    ASSUME NEW a \in Seq(Codes), NEW n \in Nat
    PROVE  /\ IsFiniteSet(PressesOf(a, n)) /\ Cardinality(PressesOf(a, n)) \in Nat
           /\ IsUp(a[n + 1]) => PressesOf(a, n + 1) = PressesOf(a, n)
           /\ ~IsUp(a[n + 1]) => /\ PressesOf(a, n + 1) = PressesOf(a, n) \cup {n + 1}
                                 /\ Cardinality(PressesOf(a, n + 1)) = Cardinality(PressesOf(a, n)) + 1
           /\ \A i \in PressesOf(a, n) : Cardinality(PressesOf(a, i)) \in 1..Cardinality(PressesOf(a, n))
<1>1. \A m \in Nat : IsFiniteSet(PressesOf(a, m)) /\ Cardinality(PressesOf(a, m)) \in Nat
  <2> SUFFICES ASSUME NEW m \in Nat PROVE IsFiniteSet(PressesOf(a, m)) /\ Cardinality(PressesOf(a, m)) \in Nat
    OBVIOUS
  <2>1. IsFiniteSet(1..m)
    BY FS_Interval
  <2>2. PressesOf(a, m) \subseteq 1..m
    BY DEF PressesOf
  <2>3. IsFiniteSet(PressesOf(a, m))
    BY <2>1, <2>2, FS_Subset
  <2> QED
    BY <2>3, FS_CardinalityType
<1>2. 1..(n + 1) = 1..n \cup {n + 1}
  OBVIOUS
<1>3. IsUp(a[n + 1]) => PressesOf(a, n + 1) = PressesOf(a, n)
  BY <1>2 DEF PressesOf
<1>4. ~IsUp(a[n + 1]) => PressesOf(a, n + 1) = PressesOf(a, n) \cup {n + 1}
  BY <1>2 DEF PressesOf
<1>5. ~(n + 1 \in PressesOf(a, n))
  BY DEF PressesOf
<1>6. ~IsUp(a[n + 1]) => Cardinality(PressesOf(a, n + 1)) = Cardinality(PressesOf(a, n)) + 1
  BY <1>1, <1>4, <1>5, FS_AddElement
<1>7. \A i \in PressesOf(a, n) : Cardinality(PressesOf(a, i)) \in 1..Cardinality(PressesOf(a, n))
  <2> SUFFICES ASSUME NEW i \in PressesOf(a, n) PROVE Cardinality(PressesOf(a, i)) \in 1..Cardinality(PressesOf(a, n))
    OBVIOUS
  <2>1. i \in 1..n /\ ~IsUp(a[i]) /\ i \in Nat
    BY DEF PressesOf
  <2>2. PressesOf(a, i) \subseteq PressesOf(a, n) /\ i \in PressesOf(a, i)
    BY <2>1 DEF PressesOf
  <2>3. Cardinality(PressesOf(a, i)) <= Cardinality(PressesOf(a, n))
    BY <1>1, <2>2, FS_Subset
  <2>4. Cardinality(PressesOf(a, i)) # 0
    BY <1>1, <2>1, <2>2, FS_EmptySet
  <2> QED
    BY <1>1, <2>1, <2>3, <2>4
<1> QED
  BY <1>1, <1>3, <1>4, <1>6, <1>7

\* One more key is read.
LEMMA SeenGrows ==
    ASSUME NEW a \in Seq(Codes), NEW n \in Nat, NEW s \in Seq(SUBSET Keys), SeenIs(a, n, s)
    PROVE  IF IsUp(a[n + 1]) THEN SeenIs(a, n + 1, s) ELSE SeenIs(a, n + 1, Append(s, {a[n + 1]}))
<1>1. CASE IsUp(a[n + 1])
  BY <1>1, PressesGrow DEF SeenIs
<1>2. CASE ~IsUp(a[n + 1])
  <2> DEFINE c == Cardinality(PressesOf(a, n))
             t == Append(s, {a[n + 1]})
  <2>1. /\ PressesOf(a, n + 1) = PressesOf(a, n) \cup {n + 1} /\ Cardinality(PressesOf(a, n + 1)) = c + 1 /\ c \in Nat
        /\ \A i \in PressesOf(a, n) : Cardinality(PressesOf(a, i)) \in 1..c
    BY <1>2, PressesGrow
  <2>2. Len(s) = c /\ \A i \in PressesOf(a, n) : s[Cardinality(PressesOf(a, i))] = {a[i]}
    BY DEF SeenIs
  <2> HIDE DEF c
  <2>3. Len(t) = c + 1 /\ t[c + 1] = {a[n + 1]} /\ \A i \in 1..c : t[i] = s[i]
    BY <2>1, <2>2
  <2> HIDE DEF t
  <2>4. \A i \in PressesOf(a, n + 1) : t[Cardinality(PressesOf(a, i))] = {a[i]}
    BY <2>1, <2>2, <2>3
  <2>5. SeenIs(a, n + 1, t)
    BY <2>1, <2>3, <2>4 DEF SeenIs
  <2> QED
    BY <1>2, <2>5 DEF t
<1> QED
  BY <1>1, <1>2

\* A key more is taken.
LEMMA SeenStays ==
    ASSUME NEW a \in Seq(Codes), NEW c \in Codes, NEW n \in 0..Len(a)
    PROVE  /\ \A s : SeenIs(a, n, s) => SeenIs(Append(a, c), n, s)
           /\ DownIs(Append(a, c), n) = DownIs(a, n)
<1> DEFINE b == Append(a, c)
<1>1. \A i \in 1..n : b[i] = a[i] /\ i \in Nat
  OBVIOUS
<1> HIDE DEF b
<1>2. \A i \in 0..n : PressesOf(b, i) = PressesOf(a, i)
  <2> SUFFICES ASSUME NEW i \in 0..n PROVE PressesOf(b, i) = PressesOf(a, i)
    OBVIOUS
  <2>1. \A j \in 1..i : b[j] = a[j]
    BY <1>1
  <2> QED
    BY <2>1 DEF PressesOf
<1>3. \A i \in PressesOf(a, n) : i \in 1..n /\ i \in 0..n
  BY DEF PressesOf
<1>4. ASSUME NEW s, SeenIs(a, n, s) PROVE SeenIs(b, n, s)
  <2>1. n \in 0..n
    OBVIOUS
  <2> QED
    BY <1>1, <1>2, <1>3, <1>4, <2>1 DEF SeenIs
<1>5. DownIs(b, n) = DownIs(a, n)
  BY <1>1 DEF DownIs
<1> QED
  BY <1>4, <1>5 DEF b

\* A key goes down, or up.
LEMMA DownGrows ==
    ASSUME NEW a \in Seq(Codes), NEW n \in Nat, a[n + 1] \in Codes, NEW mask \in SUBSET DownIs(a, n)
    PROVE  /\ IsUp(a[n + 1]) => mask \ {a[n + 1] - 128} \subseteq DownIs(a, n + 1)
           /\ ~IsUp(a[n + 1]) => mask \cup {a[n + 1]} \subseteq DownIs(a, n + 1)
<1>1. \A i \in 1..(n + 1) : i \in 1..n \/ i = n + 1
  OBVIOUS
<1>2. \A i \in 1..n : i \in 1..(n + 1)
  OBVIOUS
<1>3. ASSUME NEW k \in DownIs(a, n), a[n + 1] # Up(k) PROVE k \in DownIs(a, n + 1)
  <2>1. k \in Keys /\ \E i \in 1..n : a[i] = k /\ \A j \in 1..n : j > i => a[j] # Up(k)
    BY DEF DownIs
  <2>2. PICK i \in 1..n : a[i] = k /\ \A j \in 1..n : j > i => a[j] # Up(k)
    BY <2>1
  <2>3. i \in 1..(n + 1) /\ \A j \in 1..(n + 1) : j > i => a[j] # Up(k)
    BY <1>1, <1>2, <1>3, <2>2
  <2> QED
    BY <2>1, <2>2, <2>3 DEF DownIs
<1>4. CASE IsUp(a[n + 1])
  <2> SUFFICES ASSUME NEW k \in mask, k # a[n + 1] - 128 PROVE k \in DownIs(a, n + 1)
    BY <1>4
  <2>1. k \in Keys /\ k \in DownIs(a, n)
    BY DEF DownIs
  <2>2. a[n + 1] # Up(k)
    BY <2>1, KeySizes DEF Up
  <2> QED
    BY <1>3, <2>1, <2>2
<1>5. CASE ~IsUp(a[n + 1])
  <2>1. a[n + 1] \in DownIs(a, n + 1)
    <3>1. a[n + 1] \in Keys
      BY <1>5, CodesAre
    <3>2. n + 1 \in 1..(n + 1) /\ \A j \in 1..(n + 1) : ~(j > n + 1)
      OBVIOUS
    <3> QED
      BY <3>1, <3>2 DEF DownIs
  <2>2. ASSUME NEW k \in mask PROVE k \in DownIs(a, n + 1)
    <3>1. k \in Keys /\ k \in DownIs(a, n)
      BY DEF DownIs
    <3>2. a[n + 1] # Up(k)
      BY <1>5, <3>1, CodesAre
    <3> QED
      BY <1>3, <3>1, <3>2
  <2> QED
    BY <1>5, <2>1, <2>2
<1> QED
  BY <1>4, <1>5

\* The next key in the ring, if there is one.
LEMMA FirstKey ==
    ASSUME KeyTypes, KeysHeld
    PROVE  /\ Gone \in 0..Len(accepted) /\ Len(accepted) \in Nat
           /\ keyOut # keyIn => /\ KeysWaiting \in 1..(KeyBufSize - 1) /\ Gone + 1 \in 1..Len(accepted)
                                /\ keyRing[keyOut] = accepted[Gone + 1] /\ keyRing[keyOut] \in Codes
<1>1. /\ KeysWaiting \in 0..(KeyBufSize - 1) /\ KeyBufSize \in Nat
      /\ KeysWaiting = IF keyIn >= keyOut THEN keyIn - keyOut ELSE keyIn - keyOut + KeyBufSize
  BY WaitingIs, KeySizes
<1>2. Len(accepted) \in Nat /\ KeysWaiting <= Len(accepted) /\ keyOut \in Nat /\ keyIn \in Nat
      /\ keyIn < KeyBufSize /\ keyOut < KeyBufSize
  BY KeySizes DEF KeyTypes, KeysHeld, KeyCells
<1>3. Gone \in 0..Len(accepted)
  BY <1>1, <1>2 DEF Gone
<1>4. ASSUME keyOut # keyIn
      PROVE  /\ KeysWaiting \in 1..(KeyBufSize - 1) /\ Gone + 1 \in 1..Len(accepted)
             /\ keyRing[keyOut] = accepted[Gone + 1] /\ keyRing[keyOut] \in Codes
  <2>1. KeysWaiting \in 1..(KeyBufSize - 1) /\ 1 \in 1..KeysWaiting /\ 1 - 1 = 0 /\ 0 \in 0..KeyBufSize
    BY <1>1, <1>2, <1>4
  <2>2. Gone + 1 \in 1..Len(accepted)
    BY <1>1, <1>2, <2>1 DEF Gone
  <2>3. After(keyOut, 0, KeyBufSize) = keyOut
    <3>1. keyOut \in KeyCells /\ 0 \in 0..KeyBufSize
      BY <2>1 DEF KeyTypes
    <3>2. After(keyOut, 0, KeyBufSize) = IF keyOut + 0 >= KeyBufSize THEN keyOut + 0 - KeyBufSize ELSE keyOut + 0
      BY <3>1, NextKeyCell
    <3> QED
      BY <1>1, <1>2, <3>2
  <2>4. keyRing[keyOut] = accepted[Gone + 1]
    BY <2>1, <2>3 DEF KeysHeld
  <2>5. accepted[Gone + 1] \in Codes
    BY <2>2 DEF KeyTypes
  <2> QED
    BY <2>1, <2>2, <2>4, <2>5
<1> QED
  BY <1>2, <1>3, <1>4

\* A key is taken out of the ring.
LEMMA KeyRead ==
    ASSUME KeyInv, keyOut # keyIn, keyOut' = After(keyOut, 1, KeyBufSize),
           UNCHANGED <<keyRing, keyIn, input, accepted>>
    PROVE  /\ keyOut' \in KeyCells /\ KeysWaiting' = KeysWaiting - 1 /\ Gone' = Gone + 1 /\ KeysHeld' /\ Queueing'
<1>1. /\ KeyTypes /\ KeysHeld /\ Queueing /\ keyOut \in KeyCells /\ keyIn \in KeyCells
  BY DEF KeyInv, KeyTypes
<1>2. /\ KeyBufSize \in Nat /\ KeyBufSize > 1 /\ 1 \in 0..KeyBufSize /\ 0 \in 0..KeyBufSize
      /\ keyOut \in 0..(KeyBufSize - 1) /\ keyIn \in 0..(KeyBufSize - 1)
  BY <1>1, KeySizes DEF KeyCells
<1>3. keyOut' \in KeyCells /\ keyOut' = IF keyOut + 1 >= KeyBufSize THEN keyOut + 1 - KeyBufSize ELSE keyOut + 1
  BY <1>1, <1>2, NextKeyCell
<1>4. /\ KeysWaiting = IF keyIn >= keyOut THEN keyIn - keyOut ELSE keyIn - keyOut + KeyBufSize
      /\ KeysWaiting' = IF keyIn >= keyOut' THEN keyIn - keyOut' ELSE keyIn - keyOut' + KeyBufSize
  <2>1. KeysWaiting' = (keyIn - keyOut') % KeyBufSize
    BY DEF KeysWaiting
  <2>2. keyOut' \in 0..(KeyBufSize - 1) /\ KeyBufSize \in Nat \ {0}
    BY <1>3, KeySizes DEF KeyCells
  <2> QED
    BY <1>1, <1>2, <2>1, <2>2, WaitingIs, TurnIs
<1>5. KeysWaiting' = KeysWaiting - 1 /\ KeysWaiting \in 1..(KeyBufSize - 1)
  BY <1>2, <1>3, <1>4
<1>6. Len(accepted) \in Nat /\ KeysWaiting <= Len(accepted) /\ Gone \in Nat
  BY <1>1, FirstKey DEF KeysHeld
<1>7. Gone' = Gone + 1
  BY <1>5, <1>6 DEF Gone
<1>8. KeysHeld'
  <2>1. KeysWaiting' <= Len(accepted')
    BY <1>5, <1>6
  <2>2. ASSUME NEW i \in 1..(KeysWaiting - 1)
        PROVE  keyRing[After(keyOut', i - 1, KeyBufSize)] = accepted[(Gone + 1) + i]
    <3>1. i + 1 \in 1..KeysWaiting /\ (i + 1) - 1 = i /\ i \in 0..KeyBufSize /\ i - 1 \in 0..KeyBufSize
          /\ Gone + (i + 1) = (Gone + 1) + i
      BY <1>2, <1>5, <1>6
    <3>2. After(keyOut', i - 1, KeyBufSize) = After(keyOut, i, KeyBufSize)
      <4>1. /\ After(keyOut, i, KeyBufSize) = IF keyOut + i >= KeyBufSize THEN keyOut + i - KeyBufSize ELSE keyOut + i
            /\ After(keyOut', i - 1, KeyBufSize) = IF keyOut' + (i - 1) >= KeyBufSize THEN keyOut' + (i - 1) - KeyBufSize
                                                   ELSE keyOut' + (i - 1)
        BY <1>1, <1>3, <3>1, NextKeyCell
      <4> QED
        BY <4>1, <1>2, <1>3, <1>5
    <3>3. keyRing[After(keyOut, (i + 1) - 1, KeyBufSize)] = accepted[Gone + (i + 1)]
      BY <1>1, <3>1 DEF KeysHeld
    <3> QED
      BY <3>1, <3>2, <3>3
  <2>3. keyRing' = keyRing /\ accepted' = accepted
    OBVIOUS
  <2> QED
    BY <1>5, <1>7, <2>1, <2>2, <2>3 DEF KeysHeld
<1>9. Queueing'
  <2>1. After(keyIn, 1, KeyBufSize) # keyOut'
    <3>1. After(keyIn, 1, KeyBufSize) = IF keyIn + 1 >= KeyBufSize THEN keyIn + 1 - KeyBufSize ELSE keyIn + 1
      BY <1>1, <1>2, NextKeyCell
    <3> QED
      BY <1>2, <1>3, <3>1
  <2>2. \A p \in Producers : input[p].at \in {"store", "advance"} => input[p].nextin = After(keyIn, 1, KeyBufSize)
    BY <1>1 DEF Queueing
  <2> QED
    BY <1>1, <2>1, <2>2 DEF Queueing
<1> QED
  BY <1>3, <1>5, <1>7, <1>8, <1>9

\* A key is read: with rollover it goes up before the next is shown.
LEMMA GetKeyKeeps == ASSUME KeyInv, GetKey, UNCHANGED <<queueVars, fixed, dateVars>> PROVE KeyInv'
<1> DEFINE key == keyRing[keyOut]
<1>1. /\ ~keyboardSendUp /\ keyOut # keyIn /\ keyOut' = After(keyOut, 1, KeyBufSize)
      /\ UNCHANGED <<keyRing, keyIn, input, accepted, typed, setting, everTrue, keyboardTrue, date>>
  BY DEF GetKey, queueVars, fixed, dateVars
<1>2. KeyTypes /\ KeysHeld /\ keyMask \subseteq DownIs(accepted, Gone) /\ Rollover
  BY DEF KeyInv
<1>3. /\ key \in Codes /\ key = accepted[Gone + 1] /\ Gone \in Nat /\ accepted \in Seq(Codes)
      /\ seen \in Seq(SUBSET Keys) /\ keyMask \subseteq Keys
  BY <1>1, <1>2, FirstKey DEF KeyTypes
<1>4. /\ keyOut' \in KeyCells /\ Gone' = Gone + 1 /\ KeysHeld' /\ Queueing'
  BY <1>1, KeyRead
<1>5. Sources'
  BY <1>1 DEF KeyInv, Sources
<1> HIDE DEF key
<1>6. /\ IsUp(key) => keyMask \ {key - 128} \subseteq DownIs(accepted, Gone')
      /\ ~IsUp(key) => keyMask \cup {key} \subseteq DownIs(accepted, Gone') /\ key \in Keys
  BY <1>2, <1>3, <1>4, DownGrows, CodesAre
<1>7. CASE keyboardTrue
  <2>1. /\ keyMask' = IF IsUp(key) THEN keyMask \ {key - 128} ELSE keyMask \cup {key}
        /\ UNCHANGED <<keyboardSendUp, seen>>
    BY <1>7 DEF GetKey, key
  <2>2. keyMask' \subseteq DownIs(accepted, Gone') /\ keyMask' \subseteq Keys
    BY <1>3, <1>6, <2>1
  <2>3. Rollover'
    BY <1>1, <1>2, <1>7 DEF Rollover
  <2>4. KeyTypes'
    BY <1>1, <1>2, <1>4, <2>1, <2>2 DEF KeyTypes
  <2> QED
    BY <1>1, <1>4, <1>5, <2>2, <2>3, <2>4 DEF KeyInv
<1>8. CASE ~keyboardTrue
  <2>1. /\ keyMask' = IF IsUp(key) THEN {} ELSE keyMask \cup {key}
        /\ keyboardSendUp' = ~IsUp(key)
        /\ seen' = IF keyMask' = {} THEN seen ELSE Append(seen, keyMask')
    BY <1>8 DEF GetKey, Deliver, key
  <2>2. keyMask' \subseteq DownIs(accepted, Gone') /\ keyMask' \subseteq Keys
    BY <1>3, <1>6, <2>1
  <2>3. keyboardSendUp' \in BOOLEAN
    BY <2>1 DEF IsUp
  <2>4. seen' \in Seq(SUBSET Keys)
    BY <1>3, <2>1, <2>2
  <2>5. KeyTypes'
    BY <1>1, <1>2, <1>4, <2>2, <2>3, <2>4 DEF KeyTypes
  <2>6. Rollover'
    <3> SUFFICES ASSUME ~everTrue PROVE ~keyboardTrue /\ (keyMask' # {} => keyboardSendUp') /\ SeenIs(accepted, Gone + 1, seen')
      BY <1>1, <1>4 DEF Rollover
    <3>1. keyMask = {} /\ SeenIs(accepted, Gone, seen)
      BY <1>1, <1>2 DEF Rollover
    <3>2. CASE IsUp(key)
      BY <1>3, <1>8, <2>1, <3>1, <3>2, SeenGrows
    <3>3. CASE ~IsUp(key)
      <4>1. keyMask' = {key} /\ seen' = Append(seen, {key}) /\ keyboardSendUp'
        BY <2>1, <3>1, <3>3
      <4> QED
        BY <1>3, <1>8, <3>1, <3>3, <4>1, SeenGrows
    <3> QED
      BY <3>2, <3>3
  <2> QED
    BY <1>1, <1>4, <1>5, <2>2, <2>5, <2>6 DEF KeyInv
<1> QED
  BY <1>7, <1>8

\* No key is read: with rollover the keyboard is up.
LEMMA NoNewsKeeps == ASSUME KeyInv, NoNews, UNCHANGED <<queueVars, fixed, dateVars>> PROVE KeyInv'
<1>1. /\ keyboardSendUp' = FALSE /\ keyMask' = (IF keyboardTrue THEN keyMask ELSE {})
      /\ seen' = IF keyMask' = {} THEN seen ELSE Append(seen, keyMask')
      /\ UNCHANGED <<keyOut, keyRing, keyIn, input, accepted, typed, setting, everTrue, keyboardTrue, date>>
  BY DEF NoNews, Deliver, queueVars, fixed, dateVars
<1>2. KeyTypes /\ Rollover
  BY DEF KeyInv
<1>3. keyMask' \subseteq keyMask /\ keyMask' \subseteq Keys
  BY <1>1, <1>2 DEF KeyTypes
<1>4. seen' \in Seq(SUBSET Keys)
  BY <1>1, <1>2, <1>3 DEF KeyTypes
<1>5. KeyTypes'
  BY <1>1, <1>2, <1>3, <1>4 DEF KeyTypes
<1>6. Gone' = Gone /\ KeysWaiting' = KeysWaiting
  BY <1>1 DEF Gone, KeysWaiting
<1>7. KeysHeld' /\ Queueing' /\ Sources'
  BY <1>1, <1>6 DEF KeyInv, KeysHeld, Queueing, Sources
<1>8. Rollover'
  BY <1>1, <1>2, <1>6 DEF Rollover
<1>9. keyMask' \subseteq DownIs(accepted', Gone')
  BY <1>1, <1>3, <1>6 DEF KeyInv
<1> QED
  BY <1>5, <1>7, <1>8, <1>9 DEF KeyInv

\* Steps that store no key.
LEMMA KeysStay ==
    ASSUME KeyInv, UNCHANGED <<getVars, keyRing, keyIn, accepted, setting, input, typed>>,
           everTrue' \in BOOLEAN, keyboardTrue' \in BOOLEAN, ~everTrue' => ~everTrue /\ ~keyboardTrue',
           date' \in Seq(Keys), date' # <<>> => setting.date # <<>>
    PROVE  KeyInv'
<1>1. UNCHANGED <<keyOut, keyboardSendUp, keyMask, seen, keyRing, keyIn, accepted, setting, input, typed>>
  BY DEF getVars
<1>2. KeyTypes'
  BY <1>1 DEF KeyInv, KeyTypes
<1>3. Gone' = Gone /\ KeysWaiting' = KeysWaiting
  BY <1>1 DEF Gone, KeysWaiting
<1>4. KeysHeld' /\ Queueing'
  BY <1>1, <1>3 DEF KeyInv, KeysHeld, Queueing
<1>5. Sources'
  BY <1>1 DEF KeyInv, Sources
<1>6. Rollover'
  BY <1>1, <1>3 DEF KeyInv, Rollover
<1>7. keyMask' \subseteq DownIs(accepted', Gone')
  BY <1>1, <1>3 DEF KeyInv
<1> QED
  BY <1>2, <1>4, <1>5, <1>6, <1>7 DEF KeyInv

\* Steps of consoleQueueKey before the key is in the ring: of what they change only the ring's
\* free cell and the stepping thread's own record.
LEMMA QueueStays ==
    ASSUME KeyInv, UNCHANGED <<getVars, fixed, keyIn, accepted>>, KeyTypes', Queueing', Sources',
           \A i \in 1..KeysWaiting : keyRing'[After(keyOut, i - 1, KeyBufSize)] = keyRing[After(keyOut, i - 1, KeyBufSize)]
    PROVE  KeyInv'
<1>1. UNCHANGED <<keyOut, keyboardSendUp, keyMask, seen, keyIn, accepted, everTrue, keyboardTrue>>
  BY DEF getVars, fixed
<1>2. Gone' = Gone /\ KeysWaiting' = KeysWaiting
  BY <1>1 DEF Gone, KeysWaiting
<1>3. KeysHeld'
  BY <1>1, <1>2 DEF KeyInv, KeysHeld
<1>4. Rollover'
  BY <1>1, <1>2 DEF KeyInv, Rollover
<1>5. keyMask' \subseteq DownIs(accepted', Gone')
  BY <1>1, <1>2 DEF KeyInv
<1> QED
  BY <1>3, <1>4, <1>5 DEF KeyInv

\* The same with an unchanged ring.
LEMMA RecordStays ==
    ASSUME KeyInv, UNCHANGED <<getVars, fixed, keyIn, keyRing, accepted>>, NEW p \in Producers, NEW r,
           input' = [input EXCEPT ![p] = r], r \in [at : At, key : Nat, nextin : KeyCells],
           r.at # "idle" => r.key \in Codes /\ r.nextin = After(keyIn, 1, KeyBufSize),
           r.at \in {"store", "advance"} => r.nextin # keyOut,
           r.at = "advance" => keyRing[keyIn] = r.key,
           r.at # "idle" => \A q \in Producers : q # p => input[q].at = "idle",
           typed' \in Nat, date' \in Seq(Keys), Sources'
    PROVE  KeyInv'
<1>1. UNCHANGED <<keyOut, keyboardSendUp, keyMask, seen, keyIn, keyRing, accepted, everTrue, keyboardTrue, setting>>
  BY DEF getVars, fixed
<1>2. KeyTypes /\ Queueing
  BY DEF KeyInv
<1>3. \A q \in Producers : input'[q] = IF q = p THEN r ELSE input[q]
  BY <1>2 DEF KeyTypes
<1>4. KeyTypes'
  <2>1. input' \in [Producers -> [at : At, key : Nat, nextin : KeyCells]]
    BY <1>2 DEF KeyTypes
  <2> QED
    BY <1>1, <1>2, <2>1 DEF KeyTypes
<1>5. Queueing'
  <2>1. \A q \in Producers : input'[q].at # "idle" => input'[q].key \in Codes /\ input'[q].nextin = After(keyIn, 1, KeyBufSize)
    BY <1>2, <1>3 DEF Queueing
  <2>2. \A q \in Producers : input'[q].at \in {"store", "advance"} => input'[q].nextin # keyOut
    BY <1>2, <1>3 DEF Queueing
  <2>3. \A q \in Producers : input'[q].at = "advance" => keyRing[keyIn] = input'[q].key
    BY <1>2, <1>3 DEF Queueing
  <2>4. \A q, o \in Producers : input'[q].at # "idle" /\ input'[o].at # "idle" => q = o
    BY <1>2, <1>3 DEF Queueing
  <2> QED
    BY <1>1, <2>1, <2>2, <2>3, <2>4 DEF Queueing
<1> QED
  BY <1>1, <1>4, <1>5, QueueStays

\* Whoever begins to queue a key is alone.
LEMMA AloneMain ==
    ASSUME OneSource, KeyInv, setting.date # <<>>
    PROVE  \A d \in Displays : input[d].at = "idle"
<1>1. setting.keys = 0
  BY DEF OneSource, KeyInv, KeyTypes
<1>2. ~(setting.keys > 0)
  BY <1>1
<1> QED
  BY <1>2 DEF KeyInv, Sources

\* Where keys are typed, nobody else has a key to store.
LEMMA AloneTypist ==
    ASSUME OneSource, KeyInv, NEW d \in Typists, setting.keys > 0
    PROVE  \A q \in Producers : q # d => input[q].at = "idle"
<1>1. setting.keys \in Nat /\ setting.keys # 0
  BY ConsoleAssumption DEF KeyInv, KeyTypes
<1>2. setting.date = <<>>
  BY <1>1 DEF OneSource, KeyInv, KeyTypes
<1>3. input["main"].at = "idle"
  BY <1>2 DEF KeyInv, Sources
<1>4. \A q \in Displays : q # d => input[q].at = "idle"
  BY DEF KeyInv, Sources, OneSource
<1> QED
  BY <1>3, <1>4 DEF Producers

\* A key comes in: none is on its way to the ring.
LEMMA KeyByteKeeps == ASSUME OneSource, KeyInv, NEW d \in Displays, KeyByte(d) PROVE KeyInv'
<1>1. PICK key \in Keys \cup {Up(k) : k \in Keys} :
         /\ d \in Typists /\ typed < setting.keys /\ typed' = typed + 1 /\ QueueKey(d, key)
         /\ UNCHANGED <<keyRing, keyIn, accepted, mainAt, date, unqueued>>
  BY DEF KeyByte
<1>2. key \in Codes /\ key \in Nat
  BY <1>1, CodesAre DEF Codes
<1> DEFINE r == [at |-> "test", key |-> key, nextin |-> After(keyIn, 1, KeyBufSize)]
<1>3. input' = [input EXCEPT ![d] = r] /\ input[d].at = "idle"
  BY <1>1 DEF QueueKey
<1>4. UNCHANGED <<getVars, fixed>> /\ setting' = setting /\ keyRing' = keyRing /\ keyIn' = keyIn /\ accepted' = accepted /\ date' = date
  BY <1>1 DEF unqueued, fixed
<1>5. KeyTypes /\ typed \in Nat /\ setting \in Settings /\ d \in Producers /\ keyIn \in KeyCells
  BY DEF KeyInv, KeyTypes, Producers
<1>6. setting.keys \in Nat /\ setting.keys > 0
  BY <1>1, <1>5, ConsoleAssumption
<1>7. \A q \in Producers : q # d => input[q].at = "idle"
  BY <1>1, <1>6, AloneTypist
<1>8. After(keyIn, 1, KeyBufSize) \in KeyCells
  BY <1>5, NextKeyCell, KeySizes
<1>9. r \in [at : At, key : Nat, nextin : KeyCells] /\ r.at = "test" /\ r.key = key /\ r.nextin = After(keyIn, 1, KeyBufSize)
  BY <1>2, <1>8 DEF At
<1> HIDE DEF r
<1>10. Sources'
  <2>1. \A q \in Producers : input'[q] = IF q = d THEN r ELSE input[q]
    BY <1>3, <1>5 DEF KeyTypes
  <2>2. "main" # d /\ "main" \in Producers
    BY ConsoleAssumption DEF Producers
  <2> QED
    BY <1>1, <1>4, <1>6, <2>1, <2>2 DEF KeyInv, Sources, Producers
<1>11. typed' \in Nat /\ date' \in Seq(Keys)
  BY <1>1, <1>4, <1>5 DEF KeyTypes
<1> QED
  BY <1>2, <1>3, <1>4, <1>5, <1>7, <1>9, <1>10, <1>11, RecordStays

\* A key of the date: none is on its way to the ring.
LEMMA DateByteKeeps == ASSUME OneSource, KeyInv, DateByte PROVE KeyInv'
<1> DEFINE r == [at |-> "test", key |-> Head(date), nextin |-> After(keyIn, 1, KeyBufSize)]
<1>1. /\ date # <<>> /\ input["main"].at = "idle" /\ input' = [input EXCEPT !["main"] = r] /\ date' = Tail(date)
      /\ UNCHANGED <<keyRing, keyIn, accepted, typed>> /\ UNCHANGED <<getVars, fixed>>
  BY DEF DateByte, QueueKey, unqueued
<1>2. KeyTypes /\ "main" \in Producers /\ keyIn \in KeyCells /\ date \in Seq(Keys) /\ setting' = setting
  BY <1>1 DEF KeyInv, KeyTypes, Producers, fixed
<1>3. Head(date) \in Codes /\ Head(date) \in Nat /\ Tail(date) \in Seq(Keys)
  <2>1. Head(date) \in Keys /\ Tail(date) \in Seq(Keys)
    BY <1>1, <1>2
  <2> QED
    BY <2>1, CodesAre
<1>4. setting.date # <<>>
  BY <1>1 DEF KeyInv, Sources
<1>5. \A q \in Producers : q # "main" => input[q].at = "idle"
  BY <1>4, AloneMain DEF Producers
<1>6. After(keyIn, 1, KeyBufSize) \in KeyCells
  BY <1>2, NextKeyCell, KeySizes
<1>7. r \in [at : At, key : Nat, nextin : KeyCells] /\ r.at = "test" /\ r.key = Head(date) /\ r.nextin = After(keyIn, 1, KeyBufSize)
  BY <1>3, <1>6 DEF At
<1> HIDE DEF r
<1>8. Sources'
  <2>1. \A q \in Producers : input'[q] = IF q = "main" THEN r ELSE input[q]
    BY <1>1, <1>2 DEF KeyTypes
  <2>2. ~("main" \in Displays)
    BY ConsoleAssumption
  <2> QED
    BY <1>2, <1>4, <2>1, <2>2 DEF KeyInv, Sources, Producers
<1>9. typed' \in Nat /\ date' \in Seq(Keys)
  BY <1>1, <1>2, <1>3 DEF KeyTypes
<1> QED
  BY <1>1, <1>2, <1>3, <1>5, <1>7, <1>8, <1>9, RecordStays

\* The cell behind nextin is keyIn's; it is the first free one.
LEMMA FreeCell ==
    ASSUME KeyTypes
    PROVE  /\ After(After(keyIn, 1, KeyBufSize), -1, KeyBufSize) = keyIn
           /\ After(keyOut, KeysWaiting, KeyBufSize) = keyIn
           /\ \A i \in 1..KeysWaiting : After(keyOut, i - 1, KeyBufSize) # keyIn /\ After(keyOut, i - 1, KeyBufSize) \in KeyCells
<1>1. /\ KeysWaiting \in 0..(KeyBufSize - 1)
      /\ KeysWaiting = IF keyIn >= keyOut THEN keyIn - keyOut ELSE keyIn - keyOut + KeyBufSize
  BY WaitingIs
<1>2. /\ keyIn \in KeyCells /\ keyOut \in KeyCells /\ KeyBufSize \in Nat \ {0} /\ KeyBufSize > 1
      /\ keyIn \in 0..(KeyBufSize - 1) /\ keyOut \in 0..(KeyBufSize - 1)
  BY KeySizes DEF KeyTypes, KeyCells
<1>3. After(After(keyIn, 1, KeyBufSize), -1, KeyBufSize) = keyIn
  <2> DEFINE n == After(keyIn, 1, KeyBufSize)
  <2>1. 1 \in 0..KeyBufSize /\ -1 \in (-1)..KeyBufSize
    BY <1>2
  <2>2. n \in KeyCells /\ n = IF keyIn + 1 >= KeyBufSize THEN keyIn + 1 - KeyBufSize ELSE keyIn + 1
    BY <1>2, <2>1, NextKeyCell
  <2>3. n \in 0..(KeyBufSize - 1)
    BY <2>2 DEF KeyCells
  <2> HIDE DEF n
  <2>4. After(n, -1, KeyBufSize) = IF n + (-1) >= KeyBufSize THEN n + (-1) - KeyBufSize
                                   ELSE IF n + (-1) < 0 THEN n + (-1) + KeyBufSize ELSE n + (-1)
    BY <1>2, <2>1, <2>3, AfterIs
  <2>5. After(n, -1, KeyBufSize) = keyIn
    BY <1>2, <2>2, <2>3, <2>4
  <2> QED
    BY <2>5 DEF n
<1>4. After(keyOut, KeysWaiting, KeyBufSize) = keyIn
  <2>1. KeysWaiting \in 0..KeyBufSize
    BY <1>1, <1>2
  <2>2. After(keyOut, KeysWaiting, KeyBufSize) = IF keyOut + KeysWaiting >= KeyBufSize THEN keyOut + KeysWaiting - KeyBufSize
                                             ELSE keyOut + KeysWaiting
    BY <1>2, <2>1, NextKeyCell
  <2> QED
    BY <1>1, <1>2, <2>2
<1>5. ASSUME NEW i \in 1..KeysWaiting PROVE After(keyOut, i - 1, KeyBufSize) # keyIn /\ After(keyOut, i - 1, KeyBufSize) \in KeyCells
  <2>1. i - 1 \in 0..KeyBufSize /\ i - 1 < KeysWaiting
    BY <1>1, <1>2
  <2>2. /\ After(keyOut, i - 1, KeyBufSize) \in KeyCells
        /\ After(keyOut, i - 1, KeyBufSize) = IF keyOut + (i - 1) >= KeyBufSize THEN keyOut + (i - 1) - KeyBufSize
                                              ELSE keyOut + (i - 1)
    BY <1>2, <2>1, NextKeyCell
  <2> QED
    BY <1>1, <1>2, <2>1, <2>2
<1> QED
  BY <1>3, <1>4, <1>5

\* The ring has room, and only the main thread's polls make more of it.
LEMMA QueueTestKeeps == ASSUME KeyInv, NEW p \in Producers, QueueTest(p) PROVE KeyInv'
<1> DEFINE r == [input[p] EXCEPT !.at = IF input[p].nextin = keyOut THEN "idle" ELSE "store"]
<1>1. /\ input[p].at = "test" /\ input' = [input EXCEPT ![p] = r]
      /\ UNCHANGED <<keyRing, keyIn, accepted, typed, date, setting>> /\ UNCHANGED <<getVars, fixed>>
  BY DEF QueueTest, unqueued, fixed
<1>2. KeyTypes /\ Queueing /\ Sources
  BY DEF KeyInv
<1>3. input[p] \in [at : At, key : Nat, nextin : KeyCells]
  BY <1>2 DEF KeyTypes
<1>4. /\ r \in [at : At, key : Nat, nextin : KeyCells] /\ r.key = input[p].key /\ r.nextin = input[p].nextin
      /\ r.at \in {"idle", "store"} /\ (r.at = "store" => r.nextin # keyOut)
  BY <1>3 DEF At
<1> HIDE DEF r
<1>5. /\ input[p].key \in Codes /\ input[p].nextin = After(keyIn, 1, KeyBufSize)
      /\ \A q \in Producers : q # p => input[q].at = "idle"
  BY <1>1, <1>2 DEF Queueing
<1>6. \A q \in Producers : input'[q] = IF q = p THEN r ELSE input[q]
  BY <1>1, <1>2 DEF KeyTypes
<1>7. Sources'
  <2>1. \A q \in Producers : input'[q].at # "idle" => input[q].at # "idle"
    BY <1>1, <1>6
  <2> QED
    BY <1>1, <1>2, <2>1 DEF Sources, Producers
<1>8. typed' \in Nat /\ date' \in Seq(Keys)
  BY <1>1, <1>2 DEF KeyTypes
<1> QED
  BY <1>1, <1>4, <1>5, <1>7, <1>8, RecordStays

\* The cell that is stored to is free, whichever keyIn the build uses.
LEMMA QueueStoreKeeps == ASSUME KeyInv, NEW p \in Producers, QueueStore(p) PROVE KeyInv'
<1>1. KeyTypes /\ Queueing /\ Sources
  BY DEF KeyInv
<1>2. input[p].at = "store"
  BY DEF QueueStore
<1>3. /\ input[p].key \in Codes /\ input[p].nextin = After(keyIn, 1, KeyBufSize) /\ input[p].nextin # keyOut
      /\ \A q \in Producers : q # p => input[q].at = "idle"
  BY <1>1, <1>2 DEF Queueing
<1>4. After(input[p].nextin, -1, KeyBufSize) = keyIn
  BY <1>1, <1>3, FreeCell
<1> DEFINE r == [input[p] EXCEPT !.at = "advance"]
<1>5. /\ input' = [input EXCEPT ![p] = r] /\ keyRing' = [keyRing EXCEPT ![keyIn] = input[p].key]
      /\ UNCHANGED <<keyIn, accepted, typed, date, setting, keyOut>> /\ UNCHANGED <<getVars, fixed>>
  BY <1>4 DEF QueueStore, unqueued, fixed, getVars
<1>6. /\ input[p] \in [at : At, key : Nat, nextin : KeyCells] /\ keyIn \in KeyCells /\ keyRing \in [KeyCells -> Nat]
  BY <1>1 DEF KeyTypes
<1>7. /\ r \in [at : At, key : Nat, nextin : KeyCells] /\ r.key = input[p].key /\ r.nextin = input[p].nextin
      /\ r.at = "advance"
  BY <1>6 DEF At
<1> HIDE DEF r
<1>8. \A q \in Producers : input'[q] = IF q = p THEN r ELSE input[q]
  BY <1>5, <1>1 DEF KeyTypes
<1>9. keyRing' \in [KeyCells -> Nat] /\ keyRing'[keyIn] = input[p].key /\ \A c \in KeyCells : c # keyIn => keyRing'[c] = keyRing[c]
  BY <1>5, <1>6
<1>10. KeyTypes'
  <2>1. input' \in [Producers -> [at : At, key : Nat, nextin : KeyCells]]
    BY <1>1, <1>5, <1>7 DEF KeyTypes
  <2> QED
    BY <1>1, <1>5, <1>9, <2>1 DEF KeyTypes, getVars, fixed
<1>11. Queueing'
  <2>1. \A q \in Producers : input'[q].at # "idle" => q = p
    BY <1>3, <1>8
  <2> QED
    BY <1>3, <1>5, <1>7, <1>8, <1>9, <2>1 DEF Queueing
<1>12. Sources'
  <2>1. \A q \in Producers : input'[q].at # "idle" => input[q].at # "idle"
    BY <1>2, <1>8
  <2> QED
    BY <1>1, <1>5, <2>1 DEF Sources, Producers
<1>13. \A i \in 1..KeysWaiting : keyRing'[After(keyOut, i - 1, KeyBufSize)] = keyRing[After(keyOut, i - 1, KeyBufSize)]
  BY <1>1, <1>9, FreeCell
<1> QED
  BY <1>5, <1>10, <1>11, <1>12, <1>13, QueueStays

\* The key is the last in the ring.
LEMMA QueueAdvanceKeeps == ASSUME KeyInv, NEW p \in Producers, QueueAdvance(p) PROVE KeyInv'
<1>1. KeyTypes /\ Queueing /\ Sources /\ KeysHeld /\ Rollover /\ keyMask \subseteq DownIs(accepted, Gone)
  BY DEF KeyInv
<1> DEFINE r == [input[p] EXCEPT !.at = "idle"]
           key == input[p].key
<1>2. /\ input[p].at = "advance" /\ input' = [input EXCEPT ![p] = r] /\ keyIn' = input[p].nextin
      /\ accepted' = Append(accepted, key)
      /\ UNCHANGED <<keyRing, typed, date, setting, keyOut, keyboardSendUp, keyMask, seen, everTrue, keyboardTrue>>
  BY DEF QueueAdvance, unqueued, fixed, getVars
<1>3. /\ key \in Codes /\ keyIn' = After(keyIn, 1, KeyBufSize) /\ keyIn' # keyOut /\ keyRing[keyIn] = key
      /\ \A q \in Producers : q # p => input[q].at = "idle"
  BY <1>1, <1>2 DEF Queueing
<1>4. /\ input[p] \in [at : At, key : Nat, nextin : KeyCells] /\ keyIn \in KeyCells /\ keyOut \in KeyCells
      /\ accepted \in Seq(Codes)
  BY <1>1 DEF KeyTypes
<1>5. r \in [at : At, key : Nat, nextin : KeyCells] /\ r.at = "idle"
  BY <1>4 DEF At
<1> HIDE DEF r, key
<1>6. \A q \in Producers : input'[q] = IF q = p THEN r ELSE input[q]
  BY <1>1, <1>2 DEF KeyTypes
<1>7. /\ keyIn' \in KeyCells /\ accepted' \in Seq(Codes) /\ Len(accepted') = Len(accepted) + 1 /\ Len(accepted) \in Nat
      /\ accepted'[Len(accepted) + 1] = key /\ \A i \in 1..Len(accepted) : accepted'[i] = accepted[i]
  <2>1. keyIn' \in KeyCells
    BY <1>2, <1>4
  <2> QED
    BY <1>2, <1>3, <1>4, <2>1
<1>8. KeyTypes'
  <2>1. input' \in [Producers -> [at : At, key : Nat, nextin : KeyCells]]
    BY <1>1, <1>2, <1>5 DEF KeyTypes
  <2> QED
    BY <1>1, <1>2, <1>7, <2>1 DEF KeyTypes
<1>9. KeysWaiting' = KeysWaiting + 1 /\ KeysWaiting \in Nat
  <2>1. KeysWaiting' = IF keyIn' >= keyOut THEN keyIn' - keyOut ELSE keyIn' - keyOut + KeyBufSize
    <3>1. KeysWaiting' = (keyIn' - keyOut) % KeyBufSize
      BY <1>2 DEF KeysWaiting
    <3> QED
      BY <3>1, <1>4, <1>7, TurnIs, KeySizes DEF KeyCells
  <2>2. /\ KeysWaiting \in 0..(KeyBufSize - 1)
        /\ KeysWaiting = IF keyIn >= keyOut THEN keyIn - keyOut ELSE keyIn - keyOut + KeyBufSize
    BY <1>1, WaitingIs
  <2>3. 1 \in 0..KeyBufSize /\ KeyBufSize \in Nat
    BY KeySizes
  <2>4. keyIn' = IF keyIn + 1 >= KeyBufSize THEN keyIn + 1 - KeyBufSize ELSE keyIn + 1
    BY <1>3, <1>4, <2>3, NextKeyCell
  <2>5. keyIn \in 0..(KeyBufSize - 1) /\ keyOut \in 0..(KeyBufSize - 1)
    BY <1>4 DEF KeyCells
  <2> QED
    BY <1>3, <2>1, <2>2, <2>3, <2>4, <2>5
<1>10. Gone' = Gone /\ Gone \in 0..Len(accepted) /\ Gone + KeysWaiting = Len(accepted)
  <2>1. Gone \in 0..Len(accepted)
    BY <1>1, FirstKey
  <2> QED
    BY <1>7, <1>9, <2>1 DEF Gone
<1>11. KeysHeld'
  <2>1. ASSUME NEW i \in 1..(KeysWaiting + 1)
        PROVE  keyRing[After(keyOut, i - 1, KeyBufSize)] = accepted'[Gone + i]
    <3>1. CASE i \in 1..KeysWaiting
      <4>1. Gone + i \in 1..Len(accepted)
        BY <1>7, <1>9, <1>10, <3>1
      <4> QED
        BY <1>1, <1>7, <3>1, <4>1 DEF KeysHeld
    <3>2. CASE i = KeysWaiting + 1
      <4>1. i - 1 = KeysWaiting /\ Gone + i = Len(accepted) + 1
        BY <1>7, <1>9, <1>10, <3>2
      <4> QED
        BY <1>1, <1>3, <1>7, <4>1, FreeCell
    <3> QED
      BY <1>9, <3>1, <3>2
  <2>2. KeysWaiting' <= Len(accepted')
    BY <1>1, <1>7, <1>9 DEF KeysHeld
  <2> QED
    BY <1>2, <1>9, <1>10, <2>1, <2>2 DEF KeysHeld
<1>12. Queueing'
  <2>1. \A q \in Producers : input'[q].at = "idle"
    BY <1>3, <1>5, <1>6
  <2> QED
    BY <2>1 DEF Queueing
<1>13. Sources'
  <2>1. \A q \in Producers : input'[q].at # "idle" => input[q].at # "idle"
    BY <1>2, <1>5, <1>6
  <2> QED
    BY <1>1, <1>2, <2>1 DEF Sources, Producers
<1>14. Rollover' /\ keyMask' \subseteq DownIs(accepted', Gone')
  BY <1>1, <1>2, <1>3, <1>4, <1>10, SeenStays DEF Rollover
<1> QED
  BY <1>8, <1>11, <1>12, <1>13, <1>14 DEF KeyInv

-----------------------------------------------------------------------------
(***************************************************************************)
(* The steps.                                                              *)
(***************************************************************************)
\* What is output comes behind what is unsent.
LEMMA OutputsKeep ==
    ASSUME DisplayInv, \/ \E function \in {"display", "keyin"} : Select(function)
                       \/ Characters \/ SetKeyboardTrue
                       \/ \E xy \in Coordinates : SetXY(xy)
    PROVE  DisplayInv'
<1>1. currentPoll \in [sum1 : Nat, sum2 : Nat, start : Cells]
  BY DEF DisplayInv, DisplayTypes
<1>2. 1 \in 1..2 /\ 2 \in 1..2
  OBVIOUS
<1>3. ASSUME OutputItem(1, 1), UNCHANGED pollVars PROVE DisplayInv'
  BY <1>1, <1>2, <1>3, OutputItemKeeps DEF pollVars
<1>4. CASE \E function \in {"display", "keyin"} : Select(function)
  BY <1>3, <1>4 DEF Select
<1>5. CASE SetKeyboardTrue
  BY <1>3, <1>5 DEF SetKeyboardTrue
<1>6. CASE Characters
  <2>1. OutputItem(1, 2) /\ UNCHANGED pollVars
    BY <1>6 DEF Characters
  <2> QED
    BY <1>1, <1>2, <2>1, OutputItemKeeps DEF pollVars
<1>7. CASE \E xy \in Coordinates : SetXY(xy)
  <2>1. PICK xy \in Coordinates : SetXY(xy)
    BY <1>7
  <2>2. /\ OutputItem(2, 1) /\ UNCHANGED <<pollBuffer, pollIn>>
        /\ currentPoll' = [currentPoll EXCEPT !.sum1 = @ + xy, !.sum2 = @ + currentPoll.sum1 + xy]
    BY <2>1 DEF SetXY
  <2>3. xy \in Nat
    BY ConsoleAssumption
  <2>4. currentPoll' \in [sum1 : Nat, sum2 : Nat, start : Cells] /\ currentPoll'.start = currentPoll.start
    <3>1. currentPoll.sum1 \in Nat /\ currentPoll.sum2 \in Nat /\ currentPoll.start \in Cells
      BY <1>1
    <3>2. currentPoll.sum1 + xy \in Nat /\ currentPoll.sum2 + currentPoll.sum1 + xy \in Nat
      BY <2>3, <3>1
    <3>3. currentPoll' = [sum1 |-> currentPoll.sum1 + xy, sum2 |-> currentPoll.sum2 + currentPoll.sum1 + xy,
                          start |-> currentPoll.start]
      BY <1>1, <2>2
    <3> QED
      BY <3>1, <3>2, <3>3
  <2> QED
    BY <1>2, <2>2, <2>4, OutputItemKeeps
<1> QED
  BY <1>4, <1>5, <1>6, <1>7

\* The threads of the connections send nothing.
LEMMA PortSteps ==
    ASSUME NEW d \in Displays, DataThread(d) \/ Drain(d)
    PROVE  /\ UNCHANGED <<ringVars, pollVars, displayOut, shown, frame, getVars, setting, keyRing, keyIn,
                          accepted, everTrue, keyboardTrue, date>>
           /\ KeyByte(d) \/ UNCHANGED <<input, typed>>
           /\ UNCHANGED <<fcode, mainAt>>
<1>1. CASE KeyByte(d)
  <2>1. UNCHANGED <<keyRing, keyIn, accepted, mainAt, date, unqueued>>
    BY <1>1 DEF KeyByte
  <2>2. UNCHANGED <<displayRing, displayIn, made, pollVars, sentVars, getVars, fixed, fcode>>
    BY <2>1 DEF unqueued
  <2> QED
    BY <1>1, <2>1, <2>2 DEF sentVars, fixed, ringVars
<1>2. CASE Xoff(d) \/ Xon(d) \/ Rate(d) \/ Connect(d) \/ Callback(d) \/ Disconnect(d) \/ Drain(d)
  BY <1>2 DEF Xoff, Xon, Rate, Connect, Callback, Disconnect, Drain, Change, unchangedByPort, queueVars, dateVars
<1> QED
  BY <1>1, <1>2 DEF DataThread

\* Nor does consoleQueueKey.
LEMMA QueueSteps ==
    ASSUME DateByte \/ DateDone \/ \E p \in Producers : Queue(p)
    PROVE  UNCHANGED <<ringVars, pollVars, displayOut, shown, frame, free, np, fcode>>
<1> USE DEF unqueued, sentVars
<1>1. CASE DateByte \/ DateDone
  BY <1>1 DEF DateByte, DateDone, ringVars
<1>2. CASE \E p \in Producers : Queue(p)
  BY <1>2 DEF Queue, QueueTest, QueueStore, QueueAdvance, ringVars
<1> QED
  BY <1>1, <1>2

\* Every step keeps what is sent in order.
LEMMA DisplayStep == ASSUME DisplayInv, [ConsoleNext]_consoleVars PROVE DisplayInv'
<1>1. CASE \/ \E function \in {"display", "keyin"} : Select(function)
           \/ Characters \/ SetKeyboardTrue
           \/ \E xy \in Coordinates : SetXY(xy)
  BY <1>1, OutputsKeep
<1>2. CASE Poll
  BY <1>2, PollKeeps DEF Poll
<1>3. CASE CheckOutput
  BY <1>3, CheckOutputKeeps
<1>4. CASE KeyIn
  BY <1>4, DisplayStays DEF KeyIn
<1>5. CASE DateByte \/ DateDone \/ \E p \in Producers : Queue(p)
  BY <1>5, QueueSteps, DisplayStays
<1>6. ASSUME NEW d \in Displays, DataThread(d) \/ Drain(d) PROVE DisplayInv'
  BY <1>6, PortSteps, DisplayStays
<1>7. CASE UNCHANGED consoleVars
  <2>1. UNCHANGED <<ringVars, pollVars, displayOut, frame, shown>>
    BY <1>7 DEF consoleVars, sentVars
  <2> QED
    BY <2>1, DisplayStays
<1> QED
  BY <1>1, <1>2, <1>3, <1>4, <1>5, <1>6, <1>7 DEF ConsoleNext, Main

\* Every step keeps what is typed in order.
LEMMA KeyStep == ASSUME OneSource, KeyInv, [ConsoleNext]_consoleVars PROVE KeyInv'
<1>1. /\ keyboardTrue \in BOOLEAN /\ everTrue \in BOOLEAN /\ date \in Seq(Keys) /\ setting \in Settings
      /\ (~everTrue => ~keyboardTrue) /\ (date # <<>> => setting.date # <<>>)
  BY DEF KeyInv, KeyTypes, Rollover, Sources
<1>2. ASSUME UNCHANGED <<getVars, queueVars, fixed, date>> PROVE KeyInv'
  <2>1. UNCHANGED <<getVars, keyRing, keyIn, accepted, setting, input, typed, everTrue, keyboardTrue, date>>
    BY <1>2 DEF queueVars, fixed
  <2> QED
    BY <1>1, <2>1, KeysStay
<1>3. CASE \/ \E function \in {"display", "keyin"} : Select(function)
           \/ \E xy \in Coordinates : SetXY(xy)
           \/ Poll \/ CheckOutput
  BY <1>2, <1>3 DEF Select, SetXY, Poll, CheckOutput, dateVars
<1>4. CASE Characters
  <2>1. UNCHANGED <<getVars, keyRing, keyIn, accepted, setting, input, typed, everTrue, keyboardTrue>>
    BY <1>4 DEF Characters, queueVars, fixed
  <2>2. date' = date \/ date' = setting.date
    BY <1>4 DEF Characters, dateVars
  <2>3. setting.date \in Seq(Keys)
    BY <1>1, ConsoleAssumption
  <2> QED
    BY <1>1, <2>1, <2>2, <2>3, KeysStay
<1>5. CASE SetKeyboardTrue
  <2>1. UNCHANGED <<getVars, keyRing, keyIn, accepted, setting, input, typed, date>>
    BY <1>5 DEF SetKeyboardTrue, queueVars, dateVars
  <2>2. everTrue' = TRUE /\ keyboardTrue' = ~keyboardTrue
    BY <1>5 DEF SetKeyboardTrue
  <2> QED
    BY <1>1, <2>1, <2>2, KeysStay
<1>6. CASE KeyIn
  BY <1>6, NoNewsKeeps, GetKeyKeeps DEF KeyIn
<1>7. CASE DateByte
  BY <1>7, DateByteKeeps
<1>8. CASE DateDone
  <2>1. UNCHANGED <<getVars, queueVars, fixed, date>>
    BY <1>8 DEF DateDone, unqueued, queueVars
  <2> QED
    BY <1>2, <2>1
<1>9. CASE \E p \in Producers : Queue(p)
  BY <1>9, QueueTestKeeps, QueueStoreKeeps, QueueAdvanceKeeps DEF Queue
<1>10. ASSUME NEW d \in Displays, DataThread(d) \/ Drain(d) PROVE KeyInv'
  <2>1. CASE KeyByte(d)
    BY <2>1, KeyByteKeeps
  <2>2. CASE UNCHANGED <<input, typed>>
    BY <1>1, <1>10, <2>2, PortSteps, KeysStay
  <2> QED
    BY <1>10, <2>1, <2>2, PortSteps
<1>11. CASE UNCHANGED consoleVars
  BY <1>2, <1>11 DEF consoleVars
<1> QED
  BY <1>3, <1>4, <1>5, <1>6, <1>7, <1>8, <1>9, <1>10, <1>11 DEF ConsoleNext, Main

\* What a port takes never exceeds the room it has.
FlowTypes ==
    /\ free \in [Displays -> 0..SendBufSize] /\ np \in [Displays -> {"none", "open", "up"}]
    /\ fcode \in {"none", "display", "keyin"} /\ mainAt \in {"idle", "getkey", "date"}

\* dtSend takes no more than there is room for.
LEMMA RoomStays == ASSUME NEW room \in 0..SendBufSize, NEW n \in Nat PROVE Sent(room, n) \in 0..SendBufSize
<1>1. SendBufSize \in Nat
  BY ConsoleAssumption
<1> QED
  BY <1>1 DEF Sent

\* Nor does immediate output.
LEMMA OutputRoom ==
    ASSUME FlowTypes, NEW n \in 1..2, NEW k \in 1..2, OutputItem(n, k)
    PROVE  free' \in [Displays -> 0..SendBufSize]
<1>1. free \in [Displays -> 0..SendBufSize] /\ n \in Nat
  BY DEF FlowTypes
<1>2. \A d \in Displays : /\ Sent(free[d], n) \in 0..SendBufSize /\ Sent(Sent(free[d], n), n) \in 0..SendBufSize
                          /\ free[d] \in 0..SendBufSize
  BY <1>1, RoomStays
<1>3. free' = [d \in Displays |->
                 IF ~Immediate(d) THEN free[d]
                 ELSE IF k = 1 THEN Sent(free[d], n) ELSE Sent(Sent(free[d], n), n)]
  BY DEF OutputItem
<1> QED
  BY <1>2, <1>3

\* Nor a frame with its end of block.
LEMMA SendRoom ==
    ASSUME FlowTypes, NEW s \in Cells, NEW e \in Cells, SendOutput(s, e)
    PROVE  free' \in [Displays -> 0..SendBufSize]
<1>1. free \in [Displays -> 0..SendBufSize]
  BY DEF FlowTypes
<1>2. Span(s, e) \in Nat /\ 1 \in Nat
  BY SpanIs
<1> DEFINE n == Span(s, e)
<1> HIDE DEF n
<1>3. n \in Nat
  BY <1>2 DEF n
<1>4. \A d \in Displays : Sent(Sent(free[d], n), 1) \in 0..SendBufSize /\ free[d] \in 0..SendBufSize
  BY <1>1, <1>3, RoomStays
<1>5. \E goes : free' = [d \in Displays |-> IF d \in goes THEN Sent(Sent(free[d], n), 1) ELSE free[d]]
  BY DEF SendOutput, n
<1> QED
  BY <1>4, <1>5

\* Every step keeps the types of what is about the connections.
LEMMA FlowStep == ASSUME DisplayInv, FlowTypes, [ConsoleNext]_consoleVars PROVE FlowTypes'
<1>1. /\ free \in [Displays -> 0..SendBufSize] /\ np \in [Displays -> {"none", "open", "up"}]
      /\ fcode \in {"none", "display", "keyin"} /\ mainAt \in {"idle", "getkey", "date"}
      /\ 1 \in 1..2 /\ 2 \in 1..2
  BY DEF FlowTypes
<1>2. /\ displayOut \in Cells /\ displayIn \in Cells /\ currentPoll.start \in Cells
      /\ pollIn \in 0..(MaxPolls - 1) /\ \A i \in 0..(MaxPolls - 1) : pollBuffer[i].start \in Cells
  BY DEF DisplayInv, DisplayTypes
<1>3. ASSUME UNCHANGED <<free, np, fcode, mainAt>> PROVE FlowTypes'
  BY <1>3 DEF FlowTypes
<1>4. ASSUME NEW function \in {"display", "keyin"}, Select(function) PROVE FlowTypes'
  <2>1. OutputItem(1, 1) /\ fcode' = function /\ UNCHANGED <<np, mainAt>>
    BY <1>4 DEF Select
  <2>2. free' \in [Displays -> 0..SendBufSize]
    BY <1>1, <2>1, OutputRoom
  <2> QED
    BY <1>1, <2>1, <2>2 DEF FlowTypes
<1>5. CASE Characters
  <2>1. OutputItem(1, 2) /\ UNCHANGED <<np, fcode>> /\ (mainAt' = mainAt \/ mainAt' = "date")
    BY <1>5 DEF Characters
  <2>2. free' \in [Displays -> 0..SendBufSize]
    BY <1>1, <2>1, OutputRoom
  <2> QED
    BY <1>1, <2>1, <2>2 DEF FlowTypes
<1>6. ASSUME NEW xy \in Coordinates, SetXY(xy) PROVE FlowTypes'
  <2>1. OutputItem(2, 1) /\ UNCHANGED <<np, fcode, mainAt>>
    BY <1>6 DEF SetXY
  <2>2. free' \in [Displays -> 0..SendBufSize]
    BY <1>1, <2>1, OutputRoom
  <2> QED
    BY <1>1, <2>1, <2>2 DEF FlowTypes
<1>7. CASE SetKeyboardTrue
  <2>1. OutputItem(1, 1) /\ UNCHANGED <<np, fcode, mainAt>>
    BY <1>7 DEF SetKeyboardTrue
  <2>2. free' \in [Displays -> 0..SendBufSize]
    BY <1>1, <2>1, OutputRoom
  <2> QED
    BY <1>1, <2>1, <2>2 DEF FlowTypes
<1>8. CASE Poll
  <2>1. consolePoll /\ UNCHANGED <<np, fcode>> /\ mainAt' = "getkey"
    BY <1>8 DEF Poll
  <2>2. CASE UNCHANGED sentVars
    BY <1>1, <2>1, <2>2 DEF FlowTypes, sentVars
  <2>3. ASSUME NEW i \in 0..(pollIn - 1), SendOutput(pollBuffer[i].start, currentPoll.start) PROVE FlowTypes'
    <3>1. i \in 0..(MaxPolls - 1)
      BY <1>2, ConsoleAssumption
    <3>2. free' \in [Displays -> 0..SendBufSize]
      BY <1>2, <2>3, <3>1, SendRoom
    <3> QED
      BY <1>1, <2>1, <3>2 DEF FlowTypes
  <2>4. ASSUME Matches # {},
               LET i == CHOOSE i \in Matches : \A j \in Matches : j <= i
               IN  SendOutput(pollBuffer[i].start, currentPoll.start)
        PROVE  FlowTypes'
    <3>1. pollIn \in Nat /\ Matches \in SUBSET (0..(pollIn - 1))
      BY <1>2 DEF Matches
    <3>2. (CHOOSE i \in Matches : \A j \in Matches : j <= i) \in 0..(pollIn - 1)
      BY <2>4, <3>1, LargestIs
    <3> QED
      BY <2>3, <2>4, <3>2
  <2> QED
    BY <2>1, <2>2, <2>4 DEF consolePoll
<1>9. CASE CheckOutput
  <2>1. UNCHANGED <<np, fcode, mainAt>>
    BY <1>9 DEF CheckOutput
  <2>2. SendOutput(displayOut, displayIn) \/ SendOutput(pollBuffer[0].start, currentPoll.start)
    BY <1>9 DEF CheckOutput
  <2>3. 0 \in 0..(MaxPolls - 1)
    BY ConsoleAssumption
  <2>4. free' \in [Displays -> 0..SendBufSize]
    BY <1>2, <2>2, <2>3, SendRoom
  <2> QED
    BY <1>1, <2>1, <2>4 DEF FlowTypes
<1>10. CASE KeyIn
  <2>1. UNCHANGED <<free, np>>
    BY <1>10 DEF KeyIn
  <2>2. UNCHANGED <<fcode, mainAt>> \/ (fcode' = "none" /\ mainAt' = "idle")
    BY <1>10 DEF KeyIn, NoNews, GetKey, Deliver
  <2> QED
    BY <1>1, <2>1, <2>2 DEF FlowTypes
<1>11. CASE DateByte \/ DateDone \/ \E p \in Producers : Queue(p)
  <2>1. UNCHANGED <<free, np, fcode>>
    BY <1>11, QueueSteps
  <2>2. mainAt' = mainAt \/ mainAt' = "idle"
    BY <1>11 DEF DateByte, DateDone, Queue, QueueTest, QueueStore, QueueAdvance
  <2> QED
    BY <1>1, <2>1, <2>2 DEF FlowTypes
<1>12. ASSUME NEW d \in Displays, DataThread(d) \/ Drain(d) PROVE FlowTypes'
  <2>1. UNCHANGED <<fcode, mainAt>>
    BY <1>12, PortSteps
  <2>2. free' = free \/ free' = [free EXCEPT ![d] = SendBufSize]
    BY <1>12 DEF DataThread, KeyByte, unqueued, sentVars, Xoff, Xon, Rate, Connect, Callback, Disconnect, Drain
  <2>3. np' = np \/ \E n \in {"none", "open", "up"} : np' = [np EXCEPT ![d] = n]
    BY <1>12 DEF DataThread, KeyByte, unqueued, Xoff, Xon, Rate, Connect, Callback, Disconnect, Drain
  <2>4. SendBufSize \in 0..SendBufSize
    BY ConsoleAssumption
  <2>5. free' \in [Displays -> 0..SendBufSize]
    BY <1>1, <2>2, <2>4
  <2>6. np' \in [Displays -> {"none", "open", "up"}]
    BY <1>1, <2>3
  <2> QED
    BY <1>1, <2>1, <2>5, <2>6 DEF FlowTypes
<1>13. CASE UNCHANGED consoleVars
  BY <1>3, <1>13 DEF consoleVars, sentVars
<1> QED
  BY <1>4, <1>5, <1>6, <1>7, <1>8, <1>9, <1>10, <1>11, <1>12, <1>13 DEF ConsoleNext, Main

-----------------------------------------------------------------------------
(***************************************************************************)
(* The theorems.                                                           *)
(***************************************************************************)
LEMMA InitDisplay == ConsoleInit => DisplayInv
<1> SUFFICES ASSUME ConsoleInit PROVE DisplayInv
  OBVIOUS
<1>1. /\ DispBufSize \in Nat /\ DispBufSize > 2 /\ MaxPolls \in Nat /\ MaxPolls > 1
      /\ 0 \in Cells /\ 0 \in 0..(MaxPolls - 1) /\ NoItem \in Items
  BY ConsoleAssumption DEF Cells, NoItem, Items
<1>2. /\ displayRing = [i \in Cells |-> NoItem] /\ displayOut = 0 /\ displayIn = 0
      /\ pollBuffer = [i \in 0..(MaxPolls - 1) |-> [sum1 |-> 0, sum2 |-> 0, start |-> 0]]
      /\ pollIn = 0 /\ currentPoll = [sum1 |-> 0, sum2 |-> 0, start |-> 0] /\ made = 0
      /\ frame = [d \in Displays |-> <<>>] /\ shown = [d \in Displays |-> 0]
  BY DEF ConsoleInit, Cells
<1>3. DisplayTypes
  <2>1. pollBuffer \in [0..(MaxPolls - 1) -> [sum1 : Nat, sum2 : Nat, start : Cells]]
    BY <1>1, <1>2
  <2>2. currentPoll \in [sum1 : Nat, sum2 : Nat, start : Cells]
    BY <1>1, <1>2
  <2>3. frame \in [Displays -> Seq(Items)] /\ shown \in [Displays -> Nat]
    BY <1>2
  <2>4. displayRing \in [Cells -> Items]
    BY <1>1, <1>2
  <2> QED
    BY <1>1, <1>2, <2>1, <2>2, <2>3, <2>4 DEF DisplayTypes
<1>4. Span(0, 0) = 0
  <2>1. Span(0, 0) = IF 0 >= 0 THEN 0 - 0 ELSE 0 - 0 + DispBufSize
    BY <1>1, SpanIs
  <2> QED
    BY <2>1
<1>5. Unsent \in Seq(Items) /\ Len(Unsent) = 0
  BY <1>2, <1>3, <1>4, StretchIs DEF DisplayTypes, Unsent
<1>6. Unsent = <<>>
  BY <1>5
<1>7. Starts[0] = 0 /\ \A i \in 0..pollIn : Starts[i] = 0
  BY <1>2 DEF Starts
<1>8. PollsInOrder
  BY <1>2, <1>4, <1>7 DEF PollsInOrder
<1>9. PollsAtItems
  BY <1>2, <1>4, <1>5, <1>7 DEF PollsAtItems, Boundary
<1>10. IsWhole(<<>>) /\ \A n \in Nat : Above(<<>>, n)
  BY DEF IsWhole, Above
<1>11. \A d \in Displays : FrameIs(frame[d], shown[d])
  BY <1>2, <1>6, <1>10 DEF FrameIs, Newest
<1> QED
  BY <1>3, <1>6, <1>8, <1>9, <1>10, <1>11 DEF DisplayInv

\* No key was typed.
LEMMA InitKey == ConsoleInit => KeyInv
<1> SUFFICES ASSUME ConsoleInit PROVE KeyInv
  OBVIOUS
<1>1. /\ keyRing = [i \in KeyCells |-> 0] /\ keyOut = 0 /\ keyIn = 0
      /\ keyboardSendUp = FALSE /\ keyboardTrue \in BOOLEAN /\ keyMask = {}
      /\ input = [p \in Producers |-> [at |-> "idle", key |-> 0, nextin |-> 0]]
      /\ setting \in Settings /\ date = <<>> /\ typed = 0
      /\ accepted = <<>> /\ seen = <<>> /\ everTrue = keyboardTrue
  BY DEF ConsoleInit, KeyCells
<1>2. 0 \in KeyCells
  BY KeySizes DEF KeyCells
<1>3. KeyTypes
  <2>1. input \in [Producers -> [at : At, key : Nat, nextin : KeyCells]]
    BY <1>1, <1>2 DEF At
  <2> QED
    BY <1>1, <1>2, <2>1 DEF KeyTypes
<1>4. KeysWaiting = 0 /\ Len(accepted) = 0 /\ Gone = 0
  <2>1. KeysWaiting = IF keyIn >= keyOut THEN keyIn - keyOut ELSE keyIn - keyOut + KeyBufSize
    BY <1>3, WaitingIs
  <2> QED
    BY <1>1, <2>1 DEF Gone
<1>5. KeysHeld
  BY <1>4 DEF KeysHeld
<1>6. \A p \in Producers : input[p].at = "idle"
  BY <1>1
<1>7. Queueing
  BY <1>6 DEF Queueing
<1>8. Sources
  BY <1>1, <1>6 DEF Sources, Producers
<1>9. Rollover
  <2>1. PressesOf(accepted, 0) = {}
    BY DEF PressesOf
  <2>2. Cardinality(PressesOf(accepted, 0)) = 0
    BY <2>1, FS_EmptySet
  <2>3. SeenIs(accepted, 0, seen)
    BY <1>1, <2>1, <2>2 DEF SeenIs
  <2> QED
    BY <1>1, <1>4, <2>3 DEF Rollover
<1> QED
  BY <1>1, <1>3, <1>5, <1>7, <1>8, <1>9 DEF KeyInv

\* All ports are up.
LEMMA InitFlow == ConsoleInit => FlowTypes
<1>1. SendBufSize \in 0..SendBufSize
  BY ConsoleAssumption
<1> QED
  BY <1>1 DEF ConsoleInit, FlowTypes

\* What every state keeps of the displays, of what they are sent and of the polls (console.c).
\* No condition: whoever types.
THEOREM DisplayInvariance == ConsoleSpec => [](DisplayInv /\ FlowTypes)
<1>1. ConsoleInit => DisplayInv /\ FlowTypes
  BY InitDisplay, InitFlow
<1>2. DisplayInv /\ FlowTypes /\ [ConsoleNext]_consoleVars => (DisplayInv /\ FlowTypes)'
  BY DisplayStep, FlowStep
<1> QED
  BY <1>1, <1>2, PTL DEF ConsoleSpec

\* And of the keyboard, where there is one source of keys (consoleQueueKey, consoleGetKey).
THEOREM KeyInvariance == ASSUME OneSource PROVE ConsoleSpec => []KeyInv
<1>1. KeyInv /\ [ConsoleNext]_consoleVars => KeyInv'
  BY KeyStep
<1> QED
  BY <1>1, InitKey, PTL DEF ConsoleSpec

\* The frames that were sent are whole.
LEMMA WholeFrames == ASSUME DisplayInv PROVE FramesWhole
<1> SUFFICES ASSUME NEW d \in Displays
             PROVE  /\ frame[d] # <<>> => /\ frame[d][1].item > shown[d] /\ frame[d][1].part = 1
                                          /\ frame[d][Len(frame[d])].part = frame[d][Len(frame[d])].of
                    /\ \A i \in 1..(Len(frame[d]) - 1) : Follows(frame[d][i], frame[d][i + 1])
  BY DEF FramesWhole, Follows
<1>1. frame[d] \in Seq(Items) /\ IsWhole(frame[d]) /\ Above(frame[d], shown[d])
  BY DEF DisplayInv, DisplayTypes, FrameIs
<1>2. ASSUME frame[d] # <<>> PROVE frame[d][1].item > shown[d]
  <2>1. 1 \in 1..Len(frame[d])
    BY <1>1, <1>2
  <2> QED
    BY <1>1, <2>1 DEF Above
<1> QED
  BY <1>1, <1>2 DEF IsWhole

\* The keys that were taken are those that were read and those in the ring.
LEMMA ReadIs ==
    ASSUME KeyInv
    PROVE  /\ Read \in Seq(Codes) /\ Len(Read) = Gone /\ Gone \in 0..Len(accepted)
           /\ \A i \in 1..Gone : Read[i] = accepted[i]
           /\ accepted = Read \o InKeyRing
<1>1. /\ KeyTypes /\ KeysHeld /\ accepted \in Seq(Codes)
  BY DEF KeyInv, KeyTypes
<1>2. Gone \in 0..Len(accepted) /\ Len(accepted) \in Nat /\ KeysWaiting \in Nat /\ Gone = Len(accepted) - KeysWaiting
  BY <1>1, FirstKey, WaitingIs DEF Gone
<1>3. InKeyRing = [i \in 1..KeysWaiting |-> keyRing[After(keyOut, i - 1, KeyBufSize)]]
  BY DEF InKeyRing, KeysWaiting
<1>4. \A i \in 1..KeysWaiting : keyRing[After(keyOut, i - 1, KeyBufSize)] \in Nat
  BY <1>1, FreeCell DEF KeyTypes
<1>5. InKeyRing \in Seq(Nat) /\ Len(InKeyRing) = KeysWaiting
  BY <1>2, <1>3, <1>4
<1>6. \A i \in 1..KeysWaiting : InKeyRing[i] = accepted[Gone + i]
  BY <1>1, <1>3 DEF KeysHeld
<1>7. Read = SubSeq(accepted, 1, Gone)
  BY <1>2, <1>5 DEF Read
<1>8. Read \in Seq(Codes) /\ Len(Read) = Gone /\ \A i \in 1..Gone : Read[i] = accepted[i]
  BY <1>1, <1>2, <1>7
<1>9. accepted = Read \o InKeyRing
  <2> DEFINE all == Read \o InKeyRing
  <2>1. Read \in Seq(Codes \cup Nat) /\ InKeyRing \in Seq(Codes \cup Nat)
    BY <1>5, <1>8
  <2>2. /\ all \in Seq(Codes \cup Nat) /\ Len(all) = Len(Read) + Len(InKeyRing)
        /\ \A i \in 1..(Len(Read) + Len(InKeyRing)) :
              all[i] = IF i <= Len(Read) THEN Read[i] ELSE InKeyRing[i - Len(Read)]
    BY <2>1, ConcatProperties
  <2> HIDE DEF all
  <2>3. /\ Len(all) = Len(accepted)
        /\ \A i \in 1..Len(accepted) : all[i] = IF i <= Gone THEN Read[i] ELSE InKeyRing[i - Gone]
    <3>1. Len(Read) + Len(InKeyRing) = Len(accepted) /\ Len(Read) = Gone
      BY <1>2, <1>5, <1>8
    <3> QED
      BY <2>2, <3>1
  <2>4. ASSUME NEW i \in 1..Len(accepted) PROVE all[i] = accepted[i]
    <3>1. CASE i <= Gone
      <4>1. all[i] = Read[i]
        BY <2>3, <3>1
      <4>2. i \in 1..Gone
        BY <1>2, <3>1
      <4> QED
        BY <1>8, <4>1, <4>2
    <3>2. CASE i > Gone
      <4>1. i - Gone \in 1..KeysWaiting /\ Gone + (i - Gone) = i /\ ~(i <= Gone)
        BY <1>2, <3>2
      <4> QED
        BY <1>6, <2>3, <4>1
    <3>3. i \in Int /\ Gone \in Int
      BY <1>2
    <3> QED
      BY <3>1, <3>2, <3>3
  <2>5. all = [i \in 1..Len(accepted) |-> all[i]]
    BY <2>2, <2>3
  <2>6. accepted = [i \in 1..Len(accepted) |-> accepted[i]]
    BY <1>1
  <2>7. all = accepted
    BY <2>4, <2>5, <2>6
  <2> QED
    BY <2>7 DEF all
<1> QED
  BY <1>2, <1>8, <1>9

\* The PP sees them, and none as down that is not.
LEMMA HeardKeys == ASSUME KeyInv PROVE KeysHeard
<1>1. /\ Len(Read) = Gone /\ Gone \in Nat /\ \A i \in 1..Gone : Read[i] = accepted[i]
      /\ accepted = Read \o InKeyRing
  BY ReadIs
<1>2. KeysSeen
  <2>1. \A n : Presses(n) = PressesOf(accepted, n)
    BY DEF Presses, PressesOf
  <2>2. ASSUME ~everTrue
        PROVE  /\ Len(seen) = Cardinality(Presses(Len(Read)))
               /\ \A i \in Presses(Len(Read)) : seen[Cardinality(Presses(i))] = {Read[i]}
    <3>1. SeenIs(accepted, Gone, seen)
      BY <2>2 DEF KeyInv, Rollover
    <3>2. PressesOf(accepted, Gone) \subseteq 1..Gone
      BY DEF PressesOf
    <3> QED
      BY <1>1, <2>1, <3>1, <3>2 DEF SeenIs
  <2> QED
    BY <1>1, <2>2 DEF KeysSeen
<1>3. NoStuckKey
  <2>1. DOMAIN Read = 1..Gone
    BY ReadIs
  <2>2. Pressed = DownIs(accepted, Gone)
    BY <1>1, <2>1, ZenonT(30) DEF Pressed, DownIs
  <2> QED
    BY <2>2 DEF NoStuckKey, KeyInv
<1> QED
  BY <1>2, <1>3 DEF KeysHeard

\* Whatever is output, polled, connected and held back, the polls divide what is unsent
\* without a gap and each display is sent whole items, newer than those before (consolePoll,
\* consoleSendOutput and consoleCheckOutput); whoever types.
THEOREM DisplaysCorrect == ConsoleSpec => [](PollsInOrder /\ FramesWhole)
<1>1. DisplayInv => PollsInOrder /\ FramesWhole
  BY WholeFrames DEF DisplayInv
<1> QED
  BY <1>1, DisplayInvariance, PTL

\* Where one operator types, or the automatic date is typed and nobody else does: every
\* index stays in its ring, and what is unsent is in order.
THEOREM ConsoleCorrect == ASSUME OneSource PROVE ConsoleSpec => []ConsoleSafe
<1>1. DisplayInv /\ FlowTypes /\ KeyInv => ConsoleSafe
  BY DEF DisplayInv, DisplayTypes, FlowTypes, KeyInv, KeyTypes, ConsoleSafe, ConsoleTypeOK, Cells, KeyCells
<1> QED
  BY <1>1, DisplayInvariance, KeyInvariance, PTL

\* And the PP gets each key once and in order, none of them stuck, although consoleQueueKey
\* on the data thread and consoleGetKey on the main thread take no lock.
THEOREM TrafficCorrect == ASSUME OneSource PROVE ConsoleSpec => []TrafficWhole
<1>1. DisplayInv /\ KeyInv => TrafficWhole
  BY WholeFrames, HeardKeys DEF TrafficWhole
<1> QED
  BY <1>1, DisplayInvariance, KeyInvariance, PTL
=============================================================================
