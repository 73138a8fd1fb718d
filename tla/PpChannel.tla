----------------------------- MODULE PpChannel -----------------------------
(***************************************************************************)
(* Peripheral processors on one data channel (pp.c, channel.c).  ppStep    *)
(* walks the barrel: each PP in turn executes one instruction if it is not *)
(* stopped on I/O, then has its wait looked at, then moves words while the *)
(* channel lets it.  Everything runs in the main thread, so the order of   *)
(* the barrel is the only schedule; what a PP executes is arbitrary.       *)
(*                                                                         *)
(* A word is its serial number among the words put on the channel.  Of a   *)
(* PP's memory only cell 0, where a block transfer saves P, is kept.  The  *)
(* flag "stopped" is TRUE exactly while ioWaitType is not WaitNone, and is *)
(* not a variable of its own.  Delays of CWM and of channelProbe are left  *)
(* out.                                                                    *)
(***************************************************************************)
EXTENDS Integers, Sequences, Functions

CONSTANT
    Setups          \* the machines and bounds, of which a behaviour has one: records of
                    \*  pps          ppuCount
                    \*  running      the PPs that were started; the others wait for their
                    \*               deadstart load
                    \*  memSize      cells of a PP's memory (010000 in the code)
                    \*  aMod         values of register A (01000000 in the code)
                    \*  replies      what the devices of the channel answer to a function
                    \*  maxWords     bound: words put on the channel
                    \*  maxSessions  bound: activations of the channel

ASSUME PpChannelAssumption ==
    \A s \in Setups :
        /\ s.pps \in Nat \ {0} /\ s.running \subseteq 0 .. (s.pps - 1)
        /\ s.memSize \in Nat \ {0} /\ s.aMod \in Nat /\ s.aMod > s.memSize
        /\ s.replies \subseteq {"in", "out", "processed", "declined"}
        /\ s.maxWords \in Nat /\ s.maxSessions \in Nat

VARIABLES
    setup,          \* the machine; it never changes
    turn,           \* the PP ppStep is at
    step,           \* how far ppStep is with it
    regP,           \* PP -> register P
    regA,           \* PP -> register A
    mem0,           \* PP -> mem[0]
    wait,           \* PP -> ioWaitType
    active,         \* the channel's active flag
    full,           \* its full flag
    data,           \* its data word
    disc,           \* its discAfterInput flag
    ioDevice,       \* the device selected for I/O: "none", or one for "in" or "out"
    put,            \* words put on the channel (history)
    taken,          \* the words taken from it, in order (history)
    session,        \* activations of the channel (history)
    since,          \* PP -> session in which its transfer began (history)
    dataSession,    \* session in which the data word was put (history)
    ret             \* PP -> where its block transfer has to return to, or -1 when
                    \* the block covers cell 0 (history)

ppVars   == <<regP, regA, mem0, wait>>
chanVars == <<active, full, data, disc, ioDevice>>
wordVars == <<put, taken, dataSession>>
blockVars == <<since, ret>>
vars == <<setup, turn, step, ppVars, chanVars, wordVars, session, blockVars>>

PPs     == setup.pps
MemSize == setup.memSize
AMod    == setup.aMod

PpIds     == 0 .. (PPs - 1)
Addresses == 0 .. (MemSize - 1)

PpIncrement(a) == (a + 1) % MemSize

\* deadStart: every PP not yet started waits for a block on its channel.
Init ==
    /\ setup \in Setups
    /\ turn = 0 /\ step = "exec"
    /\ regP = [p \in PpIds |-> 0]
    /\ regA = [p \in PpIds |-> MemSize]
    /\ mem0 = [p \in PpIds |-> 0]
    /\ wait = [p \in PpIds |-> IF p \in setup.running THEN "None" ELSE "InMany"]
    /\ active = TRUE /\ full = FALSE /\ data = 0 /\ disc = FALSE
    /\ ioDevice = "none"
    /\ put = 0 /\ taken = <<>> /\ dataSession = 1 /\ session = 1
    /\ since = [p \in PpIds |-> 1]
    /\ ret = [p \in PpIds |-> -1]

-----------------------------------------------------------------------------
(***************************************************************************)
(* The device selected on the channel.                                     *)
(***************************************************************************)
\* Words that transfers already begun may still put; they bound new ones.
Count(a) == IF a = 0 THEN AMod ELSE a
Pending(p) == CASE wait[p] = "OutMany" -> Count(regA[p])
                [] wait[p] = "OutOne"  -> 1
                [] OTHER               -> 0
MayPut(n) ==
    FoldFunction(+, put + n, [p \in PpIds |-> Pending(p)]) <= setup.maxWords

\* A new word is placed in the channel's data register.
Put == put' = put + 1 /\ data' = put + 1 /\ dataSession' = session

\* The device has nothing to do.
DeviceIdle == UNCHANGED <<active, full, data, disc, wordVars>>

\* The device gives a word, perhaps the last one.
DeviceGives ==
    /\ ioDevice = "in" /\ ~full /\ MayPut(1)
    /\ Put
    /\ full' = TRUE
    /\ disc' \in {disc, TRUE}
    /\ UNCHANGED <<active, taken>>

\* The device has no more words and drops the channel.
DeviceEnds ==
    /\ ioDevice = "in" /\ ~full
    /\ active' = FALSE
    /\ UNCHANGED <<full, data, disc, wordVars>>

\* The device takes the word.
DeviceTakes ==
    /\ ioDevice = "out" /\ full
    /\ full' = FALSE
    /\ taken' = Append(taken, data)
    /\ UNCHANGED <<active, data, disc, put, dataSession>>

channelIo ==
    /\ IF active /\ ioDevice # "none"
       THEN DeviceIdle \/ DeviceGives \/ DeviceEnds \/ DeviceTakes
       ELSE DeviceIdle
    /\ UNCHANGED ioDevice

-----------------------------------------------------------------------------
(***************************************************************************)
(* Instructions.  p is the PP at its turn; P was incremented before the    *)
(* instruction is decoded, and an instruction that has to be repeated      *)
(* decrements it again.                                                    *)
(***************************************************************************)
Executes(p) == p = turn /\ step = "exec" /\ wait[p] = "None" /\ step' = "waits"

SetP(p, a) == regP' = [regP EXCEPT ![p] = a]
NextP(p, n) == SetP(p, (regP[p] + n) % MemSize)

\* LDN, LDC and the like give A a value.
LoadA(p, a) ==
    /\ Executes(p)
    /\ NextP(p, 1)
    /\ regA' = [regA EXCEPT ![p] = a]
    /\ UNCHANGED <<turn, mem0, wait, chanVars, wordVars, session, blockVars>>

\* AJM and IJM, sense being the flag they jump on.
JumpActive(p, sense, loc) ==
    /\ Executes(p)
    /\ IF active = sense THEN SetP(p, loc) ELSE NextP(p, 2)
    /\ UNCHANGED <<turn, regA, mem0, wait, chanVars, wordVars, session, blockVars>>

\* FJM and EJM: the device may act before the flag is tested.
JumpFull(p, sense, loc) ==
    /\ Executes(p)
    /\ channelIo
    /\ IF full' = sense THEN SetP(p, loc) ELSE NextP(p, 2)
    /\ UNCHANGED <<turn, regA, mem0, wait, session, blockVars>>

\* A transfer begins: the PP stops in wait type w.
Stop(p, w) ==
    /\ wait' = [wait EXCEPT ![p] = w]
    /\ since' = [since EXCEPT ![p] = session]

\* IAN and OAN on an inactive channel: repeated, or skipped with the no-hang bit.
OneRefused(p, noHang) == NextP(p, IF noHang THEN 1 ELSE 0) /\ UNCHANGED <<wait, since>>

IAN(p, noHang) ==
    /\ Executes(p)
    /\ IF active THEN NextP(p, 1) /\ Stop(p, "InOne") ELSE OneRefused(p, noHang)
    /\ UNCHANGED <<turn, regA, mem0, chanVars, wordVars, session, ret>>

OAN(p, noHang) ==
    /\ Executes(p)
    /\ MayPut(1)
    /\ IF active THEN NextP(p, 1) /\ Stop(p, "OutOne") ELSE OneRefused(p, noHang)
    /\ UNCHANGED <<turn, regA, mem0, chanVars, wordVars, session, ret>>

\* Mutant: the address of the first word is saved.
BlockFirstWord(p, w, loc) ==
    /\ mem0' = [mem0 EXCEPT ![p] = regP[p]]
    /\ SetP(p, loc)
    /\ Stop(p, w)
    /\ ret' = [ret EXCEPT ![p] =
                  IF loc > 0 /\ loc + Count(regA[p]) <= MemSize
                  THEN PpIncrement(PpIncrement(regP[p])) ELSE -1]

\* The address of the instruction's second word is saved in cell 0, and the
\* transfer runs from loc.
Block(p, w, loc) ==
    /\ mem0' = [mem0 EXCEPT ![p] = PpIncrement(regP[p])]
    /\ SetP(p, loc)
    /\ Stop(p, w)
    /\ ret' = [ret EXCEPT ![p] =
                  IF loc > 0 /\ loc + Count(regA[p]) <= MemSize
                  THEN PpIncrement(PpIncrement(regP[p])) ELSE -1]

\* On an inactive channel nothing is transferred, but a zero is stored and P saved.
IAM(p, loc) ==
    /\ Executes(p)
    /\ IF active
       THEN Block(p, "InMany", loc)
       ELSE /\ mem0' = [mem0 EXCEPT ![p] = PpIncrement(regP[p])]
            /\ NextP(p, 2)
            /\ UNCHANGED <<wait, since, ret>>
    /\ UNCHANGED <<turn, regA, chanVars, wordVars, session>>

\* OAM does not look at the active flag; ppStep does, before it moves a word.
OAM(p, loc) ==
    /\ Executes(p)
    /\ MayPut(Count(regA[p]))
    /\ Block(p, "OutMany", loc)
    /\ UNCHANGED <<turn, regA, chanVars, wordVars, session>>

\* The channel becomes active: a new session.
Activate == active' = TRUE /\ session' = session + 1

\* ACN; on an active channel it is repeated, or skipped.  The device's activate
\* handler changes nothing here.
ACN(p, noHang) ==
    /\ Executes(p)
    /\ session < setup.maxSessions
    /\ IF active
       THEN NextP(p, IF noHang THEN 1 ELSE 0) /\ UNCHANGED <<active, session>>
       ELSE NextP(p, 1) /\ Activate
    /\ UNCHANGED <<turn, regA, mem0, wait, full, data, disc, ioDevice, wordVars, blockVars>>

\* Mutant: a word nobody took survives the disconnect.
DCNKeepsWord(p, noHang) ==
    /\ Executes(p)
    /\ IF active
       THEN NextP(p, 1) /\ active' = FALSE /\ UNCHANGED full
       ELSE NextP(p, IF noHang THEN 1 ELSE 0) /\ UNCHANGED <<active, full>>
    /\ UNCHANGED <<turn, regA, mem0, wait, data, disc, ioDevice, wordVars, session, blockVars>>

\* DCN; a channel without a device is emptied, one with a device is left full.
DCN(p, noHang) ==
    /\ Executes(p)
    /\ IF active
       THEN NextP(p, 1) /\ active' = FALSE /\ full' = (full /\ ioDevice # "none")
       ELSE NextP(p, IF noHang THEN 1 ELSE 0) /\ UNCHANGED <<active, full>>
    /\ UNCHANGED <<turn, regA, mem0, wait, data, disc, ioDevice, wordVars, session, blockVars>>

\* channelFunction: the devices are asked in turn; r is what comes of it.  A function
\* nobody claims leaves the channel active and full.
Function(r) ==
    /\ ioDevice' = CASE r = "processed" -> ioDevice
                     [] r = "declined"  -> "none"
                     [] OTHER           -> r
    /\ full' = (r = "declined")
    /\ IF r = "declined" THEN session < setup.maxSessions /\ Activate
                         ELSE UNCHANGED <<active, session>>

\* FAN (one word) and FNC (two words).  The no-hang bit skips one word of either.
FNC(p, words, noHang) ==
    /\ Executes(p)
    /\ IF active
       THEN NextP(p, IF noHang THEN 1 ELSE 0) /\ UNCHANGED <<chanVars, session>>
       ELSE NextP(p, words) /\ (\E r \in setup.replies : Function(r)) /\ UNCHANGED <<data, disc>>
    /\ UNCHANGED <<turn, regA, mem0, wait, wordVars, blockVars>>

\* A PP that waits executes nothing.
Stopped(p) ==
    /\ p = turn /\ step = "exec" /\ wait[p] # "None"
    /\ step' = "waits"
    /\ UNCHANGED <<turn, ppVars, chanVars, wordVars, session, blockVars>>

Execute(p) ==
    \/ Stopped(p)
    \/ \E a \in 0 .. MemSize : LoadA(p, a)
    \/ \E loc \in Addresses :
           \/ \E sense \in BOOLEAN : JumpActive(p, sense, loc) \/ JumpFull(p, sense, loc)
           \/ IAM(p, loc) \/ OAM(p, loc)
    \/ \E noHang \in BOOLEAN :
           \/ IAN(p, noHang) \/ OAN(p, noHang)
           \/ ACN(p, noHang) \/ DCN(p, noHang)
           \/ \E words \in 1 .. 2 : FNC(p, words, noHang)

-----------------------------------------------------------------------------
(***************************************************************************)
(* The rest of ppStep's work for one PP.                                   *)
(***************************************************************************)
NextPp == turn' = (turn + 1) % PPs /\ step' = "exec"

\* A block transfer is over: P comes back from cell 0, which now holds m.
EndBlock(p, m) ==
    /\ wait' = [wait EXCEPT ![p] = "None"]
    /\ mem0' = [mem0 EXCEPT ![p] = m]
    /\ SetP(p, PpIncrement(m))

\* Cell 0 after a zero was stored at P.
ZeroAt(p) == IF regP[p] = 0 THEN 0 ELSE mem0[p]

\* The wait goes on, to be served by the loops below.
WaitStays(p) ==
    /\ CASE wait[p] \in {"InOne", "InMany"}   -> step' = "input" /\ UNCHANGED turn
         [] wait[p] \in {"OutOne", "OutMany"} -> step' = "output" /\ UNCHANGED turn
         [] OTHER                             -> NextPp
    /\ UNCHANGED <<ppVars, chanVars>>

\* The channel has been deactivated: the PP goes on.
WaitEnds(p) ==
    /\ ioDevice' = "none" /\ full' = FALSE
    /\ CASE wait[p] = "InMany"  -> EndBlock(p, ZeroAt(p)) /\ UNCHANGED regA
         [] wait[p] = "OutMany" -> EndBlock(p, mem0[p]) /\ UNCHANGED regA
         [] OTHER -> /\ wait' = [wait EXCEPT ![p] = "None"]
                     /\ regA' = [regA EXCEPT ![p] = IF wait[p] = "InOne" THEN 0 ELSE @]
                     /\ UNCHANGED <<regP, mem0>>
    /\ UNCHANGED <<active, data, disc>>
    /\ NextPp

Waits(p) ==
    /\ p = turn /\ step = "waits"
    /\ IF wait[p] # "None" /\ ~active THEN WaitEnds(p) ELSE WaitStays(p)
    /\ UNCHANGED <<wordVars, session, blockVars>>

\* Top of the input loop: an empty channel may be filled by its device.
Input(p) ==
    /\ p = turn /\ step = "input"
    /\ step' = "take"
    /\ IF full THEN UNCHANGED <<chanVars, wordVars>> ELSE channelIo
    /\ UNCHANGED <<turn, ppVars, session, blockVars>>

\* A word of a block is stored at P; in cell 0 it is any value.
TakeMany(p) ==
    LET left == (regA[p] - 1) % AMod
        next == PpIncrement(regP[p])
    IN  \E m \in IF regP[p] = 0 THEN Addresses ELSE {mem0[p]} :
            /\ regA' = [regA EXCEPT ![p] = left]
            /\ IF disc \/ left = 0
               THEN EndBlock(p, IF left # 0 /\ next = 0 THEN 0 ELSE m)
               ELSE /\ SetP(p, next)
                    /\ mem0' = [mem0 EXCEPT ![p] = m]
                    /\ UNCHANGED wait

\* A word of IAN goes to A.
TakeOne(p) ==
    /\ wait' = [wait EXCEPT ![p] = "None"]
    /\ \E a \in 0 .. MemSize : regA' = [regA EXCEPT ![p] = a]
    /\ UNCHANGED <<regP, mem0>>

\* Mutant: the word is taken but the channel is left full.
TakeLeavesFull(p) ==
    /\ p = turn /\ step = "take"
    /\ IF full /\ Len(taken) < setup.maxWords
       THEN /\ IF wait[p] = "InOne" THEN TakeOne(p) ELSE TakeMany(p)
            /\ taken' = Append(taken, data)
       ELSE UNCHANGED <<ppVars, taken>>
    /\ NextPp
    /\ UNCHANGED <<chanVars, put, dataSession, session, blockVars>>

\* Input of one word, after which the loop looks for more.  A word the device marked
\* as its last one disconnects the channel.
Take(p) ==
    /\ p = turn /\ step = "take"
    /\ IF full
       THEN /\ IF wait[p] = "InOne" THEN TakeOne(p) ELSE TakeMany(p)
            /\ taken' = Append(taken, data)
            /\ full' = FALSE
            /\ disc' = FALSE
            /\ active' = (active /\ ~disc)
            /\ ioDevice' = IF disc THEN "none" ELSE ioDevice
            /\ IF wait'[p] = "None" THEN NextPp ELSE step' = "input" /\ UNCHANGED turn
       ELSE NextPp /\ UNCHANGED <<ppVars, taken, full, disc, active, ioDevice>>
    /\ UNCHANGED <<data, put, dataSession, session, blockVars>>

\* One word leaves PP p; with the last one its transfer is over.
GiveWord(p) ==
    IF wait[p] = "OutOne"
    THEN wait' = [wait EXCEPT ![p] = "None"] /\ UNCHANGED <<regP, regA, mem0>>
    ELSE /\ regA' = [regA EXCEPT ![p] = (@ - 1) % AMod]
         /\ IF regA'[p] = 0
            THEN EndBlock(p, mem0[p])
            ELSE SetP(p, PpIncrement(regP[p])) /\ UNCHANGED <<mem0, wait>>

\* One word of output, if the channel is empty.
Output(p) ==
    /\ p = turn /\ step = "output"
    /\ IF full
       THEN NextPp /\ UNCHANGED <<ppVars, full, data, wordVars>>
       ELSE /\ Put /\ full' = TRUE /\ GiveWord(p)
            /\ step' = "outputIo"
            /\ UNCHANGED <<turn, taken>>
    /\ UNCHANGED <<active, disc, ioDevice, session, blockVars>>

\* The device may take the word, which lets the loop go on.
OutputIo(p) ==
    /\ p = turn /\ step = "outputIo"
    /\ channelIo
    /\ IF wait[p] = "None" THEN NextPp ELSE step' = "output" /\ UNCHANGED turn
    /\ UNCHANGED <<ppVars, session, blockVars>>

Move(p) == Waits(p) \/ Input(p) \/ Take(p) \/ Output(p) \/ OutputIo(p)

Next == UNCHANGED setup /\ \E p \in PpIds : Execute(p) \/ Move(p)

Spec == Init /\ [][Next]_vars

\* main () calls ppStep for ever, and no instruction blocks it.
FairSpec == Spec /\ WF_vars(Next)

-----------------------------------------------------------------------------
Waiting(p) == p \in PpIds /\ wait[p] # "None"

\* Every variable stays within its type; a wait is one that an instruction left behind.
TypeOK ==
    /\ setup \in Setups
    /\ turn \in PpIds
    /\ step \in {"exec", "waits", "input", "take", "output", "outputIo"}
    /\ regP \in [PpIds -> Addresses] /\ mem0 \in [PpIds -> Addresses]
    /\ regA \in [PpIds -> 0 .. (AMod - 1)]
    /\ wait \in [PpIds -> {"None", "InOne", "InMany", "OutOne", "OutMany"}]
    /\ active \in BOOLEAN /\ full \in BOOLEAN /\ disc \in BOOLEAN
    /\ ioDevice \in {"none", "in", "out"}
    /\ put \in Nat /\ data \in 0 .. put /\ taken \in Seq(0 .. put)
    /\ session \in Nat \ {0} /\ dataSession \in 1 .. session
    /\ since \in [PpIds -> 1 .. session]
    /\ ret \in [PpIds -> Addresses \cup {-1}]

\* PPs exchange words over a channel that no device is connected to.  (A function that no
\* device claims marks the channel full, and the word in it is an old one.)
NoDevice == setup.replies = {}

\* Whatever the PPs execute and whoever reads, words come off the channel in the order
\* they were put on it, and none of them twice (ppStep's input and output loops).
TakenInOrder ==
    NoDevice => \A i, j \in 1 .. Len(taken) : i < j => taken[i] < taken[j]

\* The type invariant, and the order of words.
ChannelSafe == TypeOK /\ TakenInOrder

\* While the channel stays active a word in it is never overwritten and never dropped:
\* it stays until it is taken, with any number of PPs writing at once.
WordStays ==
    [][full /\ active /\ active' => \/ full' /\ data' = data
                                    \/ taken' = Append(taken, data)]_vars

\* A transfer between two PPs never runs on into the next session of its channel: the
\* barrel shows the inactive channel to the waiting PP before its partner's next
\* instruction, and DCN empties it.  (A third PP may activate the channel in between.)
OneSession ==
    [][NoDevice /\ taken' # taken
          => since[turn] = session /\ dataSession = session]_vars

\* The words of a channel: neither of the two hazards ever happens.
WordsKept == WordStays /\ OneSession

\* However a block transfer ends (count, disconnect, last word), the PP goes on behind its
\* IAM or OAM, as long as the block leaves cell 0 alone.
ReturnsBehind ==
    [][\A p \in PpIds :
          wait[p] \in {"InMany", "OutMany"} /\ ~Waiting(p)' /\ ret[p] # -1
              => regP'[p] = ret[p]]_vars

\* No PP hangs on a channel that was disconnected.
InactiveResumes ==
    \A p \in UNION {0 .. (s.pps - 1) : s \in Setups} :
        Waiting(p) /\ ~active ~> ~Waiting(p) \/ active

\* A transfer comes to its end, and the PP goes on where it should.
TransfersEnd == ReturnsBehind /\ InactiveResumes
=============================================================================
