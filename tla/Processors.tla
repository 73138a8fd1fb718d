----------------------------- MODULE Processors -----------------------------
(***************************************************************************)
(* The processors and what they share: a central processor                 *)
(* (CpuInstructions) and a peripheral processor (PpInstructions) on        *)
(* central memory, the CPU and a DDP (Ddp) on ECS and its flag register.   *)
(* main calls them in turn, so that an instruction, or one call of ddpIo,  *)
(* is a step, and how they alternate is arbitrary.                         *)
(*                                                                         *)
(* Programs use the flag register as it is meant: with ready/select a      *)
(* program takes flags, and it clears only those it took.                  *)
(***************************************************************************)
EXTENDS CpuInstructions, Sequences

CONSTANTS
    DBits, CellBits, CellsPerWord,
    Setups,         \* the machines; see "setup".  Of the others:
                    \*  part       which of the programs they run
                    \*  ppSteps    bound: instructions of the PP
                    \*  ddpCells   bound: cells a PP sends to and takes from the DDP
    Starts,         \* part -> what registers and memories may hold at first
    CpuPrograms,    \* part -> instructions of the CPU
    PpPrograms,     \* part -> instructions of the PP
    DdpFunctions    \* part -> functions for the DDP

ASSUME ProcessorsAssumption ==
    /\ DBits \in Nat \ {0, 1} /\ CellBits \in Nat /\ CellBits >= 3 /\ CellBits >= DBits
    /\ CellsPerWord \in Nat /\ CellsPerWord > 1
    /\ CellBits * CellsPerWord = WordBits /\ 2 * CellBits = EcsBits /\ DBits + CellBits = AddressBits
    /\ \A s \in Setups : /\ {s.raCm, s.flCm} \subseteq Address
                         /\ {s.raEcs, s.flEcs, s.ecsSize, s.maxSteps} \subseteq Nat
                         /\ {s.cmSize, s.ratio} \subseteq Nat \ {0} /\ s.exitMode \in BOOLEAN
                         /\ s.cmSize <= Counts /\ s.flCm <= s.cmSize /\ s.ecsSize <= Words

ASSUME ProgramsAssumption ==
    \A s \in Setups : \A in \in CpuPrograms[s.part] :
        /\ {in.i, in.j, in.k} \subseteq Regs /\ in.K \in Address
        /\ in.op \in {"LX", "AX", "MX"} => in.jk \in 0 .. (2^CountBits - 1)
        /\ in.op \in {"SA", "SB", "SX"} =>
              in.sum \in {"A+K", "B+K", "X+K", "X+B", "A+B", "A-B", "B+B", "B-B"}
        /\ in.op \in MoveOps \cup CompareOps => {in.k1, in.c1, in.k2, in.c2, in.n} \subseteq Nat
                                               /\ 2 * in.n < Words

VARIABLES
    ppP, ppA, ppMem, ppLast, ppSteps,
    chActive, chFull, chData, discAfterInput, selected,
    fcode, addr, abyte, curword, dbyte, stat, sent, got, first,
    held            \* flags that programs of the CPU and of the DDP's PP took (history)

Pp == INSTANCE PpInstructions WITH cpuP <- regP
Dp == INSTANCE Ddp

ASSUME StartsAssumption ==
    \A s \in Setups :
        LET t == Starts[s.part]
        IN  /\ t.regA \subseteq [Regs -> Address] /\ t.regX \subseteq [Regs -> Word]
            /\ \A b \in t.regB : b \in [Regs -> Address] /\ b[0] = 0
            /\ t.cm \in [0 .. (s.cmSize - 1) -> Word]
            /\ t.ppP \subseteq Pp!Cell /\ t.ppA \subseteq 0 .. (Pp!As - 1)
            /\ t.ppMem \subseteq [Pp!Cell -> Pp!Cell]
            /\ PpPrograms[s.part] \subseteq Pp!Instructions
            /\ DdpFunctions[s.part] \subseteq {"read", "write", "status"}

\* Fields as an operating system sets them: none passes the last address, and those of ECS end
\* below the references that clear flags, as ECS has at most 2^21 words of the 2^23 that
\* addresses reach.
FieldsFit  == \A s \in Setups : s.raCm + s.flCm <= Counts
FlagsApart == \A s \in Setups : s.raEcs + s.flEcs <= 2^(EcsBits - 1) + 2 * 2^(EcsBits - 3)

\* Where a PP works the DDP the program of the CPU leaves ECS alone.
DdpAlone == \A s \in Setups : DdpFunctions[s.part] # {} =>
                \A in \in CpuPrograms[s.part] : in.op \notin {"WE", "WXE"}

ppVars == <<ppP, ppA, ppMem, ppLast, ppSteps>>
ddpVars == <<chActive, chFull, chData, discAfterInput, selected,
             fcode, addr, abyte, curword, dbyte, stat, sent, got, first>>

vars == <<setup, cpuVars, memoryVars, ppVars, ddpVars, held>>

Init ==
    /\ setup \in Setups
    /\ \E s \in {Starts[setup.part]} :
           /\ CpuInit(s.regA, s.regB, s.regX, s.cm)
           /\ ppP \in s.ppP /\ ppA \in s.ppA /\ ppMem \in s.ppMem
    /\ ppLast = [op |-> "none"] /\ ppSteps = 0
    /\ Dp!DdpInit
    /\ held = [who \in {"cpu", "ddp"} |-> {}]

\* The flags a program holds after a reference, if the flag register accepts it.
After(who, a) ==
    LET f == FlagFunction(ecsFlagRegister, a)
    IN  held' = [held EXCEPT ![who] = CASE Function(a) = 4 /\ f.ok -> @ \cup FlagWord(a)
                                        [] Function(a) = 7 -> @ \ FlagWord(a)
                                        [] OTHER -> @]

\* No program clears what another one took.
Allowed(who, a) == Function(a) = 7 => FlagWord(a) \subseteq held[who]

Cpu ==
    \E in \in CpuPrograms[setup.part] :
        /\ CpuStep(in)
        /\ IF in.op \in {"RE", "WE", "RXE", "WXE"} /\ FlagTransfer(in)
           THEN Allowed("cpu", EcsAddress(in)) /\ After("cpu", EcsAddress(in))
           ELSE UNCHANGED held
        /\ UNCHANGED <<setup, ppVars, ddpVars>>

Peripheral ==
    /\ ppSteps < setup.ppSteps
    /\ \E in \in PpPrograms[setup.part] : Pp!PpStep(in)
    /\ UNCHANGED <<setup, cpuVars, ecsVars, ddpVars, held>>

\* The PP of the DDP.
Driver ==
    /\ Len(sent) < setup.ddpCells /\ Len(got) < setup.ddpCells
    /\ \/ \E code \in DdpFunctions[setup.part] : Dp!DdpFunction(code)
       \/ Dp!MasterClear
       \/ Dp!PpActivates
       \/ abyte = 0 /\ \E c \in {0, 1, 4, 7} : Dp!PpPuts(c)
       \/ abyte = 1 /\ \E c \in {0, 1} : Allowed("ddp", addr * Dp!Cells + c) /\ Dp!PpPuts(c)
       \/ abyte = 2 /\ Dp!PpPuts((3 * Len(sent) + 1) % Dp!Cells)
       \/ Dp!PpTakes
       \/ Dp!PpDisconnects
    /\ UNCHANGED <<setup, cpuVars, cm, ppVars, held>>

DdpIo ==
    /\ Dp!ddpIo
    /\ IF fcode = "read" /\ abyte = 1 /\ FlagReference(addr * Dp!Cells + chData)
       THEN After("ddp", addr * Dp!Cells + chData) ELSE UNCHANGED held
    /\ UNCHANGED <<setup, cpuVars, cm, ppVars>>

Next == Cpu \/ Peripheral \/ Driver \/ DdpIo

Spec == Init /\ [][Next]_vars

-----------------------------------------------------------------------------
\* Every variable stays within its type.
TypeOK == CpuTypeOK /\ Pp!PpTypeOK /\ Dp!DdpTypeOK

\* No flag is held by two programs, and every flag held is set: ready/select is a lock between
\* the CPU and the PPs on DDPs (cpuEcsFlagRegister, cpuEcsTransfer, ddpIo).
LockExclusive == held["cpu"] \cap held["ddp"] = {} /\ UNION Range(held) \subseteq ecsFlagRegister

\* The type invariant; flags exclude; and what crosses the DDP arrives whole.
ProcessorsSafe == TypeOK /\ LockExclusive /\ Dp!DdpExact

\* Arithmetic is that of the numbers.  Floating sums and products, and quotients that are not
\* rounded, are cut off the exact ones at the bit the instruction names, whatever their signs
\* and alignment (RX/, ZX, MX and CX are not judged); an
\* integer sum is exact modulo 2^60 - 1, and -0 comes of two -0 only.  A right shift cuts
\* towards zero, a left shift comes round, an unpacked word packs to itself, a normalized
\* word has the value it had or is lost to underflow, and a sum is sign extended (float.c,
\* shift.c, cpOp20 to cpOp45 and cpOp70 to cpOp77 of cpu.c).  So are sums of a PP modulo
\* 2^18 - 1; a cell that is counted down from 0 leaves A negative, a cell that is counted
\* holds the low bits of A, and a jump goes by d, or by d - 77 (octal) backwards (ppAdd18 to
\* ppOpSOM of pp.c).
ArithmeticExact == [][/\ steps' # steps => CpuExact(last')
                      /\ ppSteps' # ppSteps => Pp!PpExact(ppLast')]_vars

\* Results and comparisons: see OrderExact in CpuInstructions.
ResultsExact == ArithmeticExact /\ OrderExact

\* Block transfers move what is there, in order and no more: words between central memory and
\* ECS, characters within central memory, cells between a PP and central memory
\* (cpuEcsTransfer, cpuCmuMoveDirect, cpuCmuMoveIndirect, ppOpCRM, ppOpCWM).
BlocksMoved == [][/\ steps' # steps => CpuBlocksExact(last')
                  /\ ppSteps' # ppSteps => Pp!PpBlocksExact(ppLast')]_vars
=============================================================================
