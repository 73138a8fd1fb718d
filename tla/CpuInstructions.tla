-------------------------- MODULE CpuInstructions --------------------------
(***************************************************************************)
(* The instructions of a central processor and the loop of cpuStep that    *)
(* executes them (cpu.c).  A word holds instructions of one or two parcels; *)
(* which instruction stands at a parcel is arbitrary.  Memory references    *)
(* are relative to RA and limited by FL, in central memory and in ECS.      *)
(*                                                                         *)
(* The words that an RJ and an error exit leave are told apart by a few     *)
(* bits and hold an address; "address out of range" is the only exit        *)
(* condition the code ever sets.  Exchange jumps are in CpuExchange, IB in  *)
(* RecvRing and PortSet; tracing is left out.                               *)
(***************************************************************************)
EXTENDS CpuArithmetic, Ecs, Functions

CONSTANTS
    Regs,           \* numbers of registers (0 .. 7)
    LoadRegs,       \* A registers that load X (1 .. 5)
    StoreRegs,      \* A registers that store X (6 .. 7)
    CharsPerWord,   \* characters in a word (10)
    TableBits       \* 2^TableBits entries of a collating table in a word (3)

ASSUME CpuInstructionsAssumption ==
    /\ IsFiniteSet(Regs) /\ Cardinality(Regs) > 1 /\ Regs = 0 .. (Cardinality(Regs) - 1)
    /\ LoadRegs \cup StoreRegs = Regs \ {0} /\ LoadRegs \cap StoreRegs = {}
    /\ CharsPerWord \in Nat \ {0} /\ TableBits \in Nat
    /\ WordBits % CharsPerWord = 0 /\ 2^TableBits <= CharsPerWord

VARIABLES
    setup,          \* the machine and its use; it never changes.  Of the CPU:
                    \*  raCm, flCm, raEcs, flEcs, exitMode   of the exchange package
                    \*  cmSize, ecsSize    cpuMaxMemory and ecsMaxMemory
                    \*  ratio              cpuRatio
                    \*  maxSteps           bound: instructions executed
    last,           \* the instruction just executed
    steps,          \* instructions executed
    regP, regA, regB, regX,
    parcels,        \* parcels of the word still to be executed: opOffset / 15
    cpucycle,       \* words executed in this cpuStep
    cpuStopped,
    cm              \* cpMem

cpuRegisters == <<regA, regB, regX>>
cpuVars == <<last, steps, regP, cpuRegisters, parcels, cpucycle, cpuStopped>>
memoryVars == <<cm, ecs, ecsFlagRegister>>
ecsVars == <<ecs, ecsFlagRegister>>

FlCm == setup.flCm

\* Address 777777 is turned into 0.
Absolute(a) == Add(Counts, a, setup.raCm) % setup.cmSize

\* The k-th word of a block from c, of addresses that cpuAdd18 counts up within memory: in a
\* full memory word 0 follows 777776.
Ring == IF setup.cmSize = Counts THEN Counts - 1 ELSE setup.cmSize
BlockWord(c, k) == (Add(Counts, setup.raCm, c) + k) % Ring

Next18(p) == (p + 1) % Counts

\* An RJ leaves a jump to the instruction after it; an error exit tells P.
JumpWord(p) == Words \div 4 + Next18(p)
ExitWord(p) == Words \div 8 + Next18(p)

\* Where an error exit leaves its word, if RA is in memory.
Exited(m, p) == [m EXCEPT ![setup.raCm] = ExitWord(p)]

-----------------------------------------------------------------------------
(* The end of an instruction.  m is central memory after it.                *)

\* Execution goes on with the word at p.  Out of range that is an error exit (cpuFlError),
\* or, without exit mode, the word at location 0.
Fetch(p, m) ==
    /\ parcels' = 4
    /\ IF p >= FlCm /\ setup.exitMode
       THEN regP' = 0 /\ cm' = Exited(m, p) /\ cpuStopped' = TRUE
       ELSE regP' = p /\ cm' = m /\ cpuStopped' = FALSE

NextCycle == cpucycle' = (cpucycle + 1) % setup.ratio

\* A jump.
GoTo(p, m) ==
    /\ Fetch(p, m)
    /\ IF cpuStopped' THEN cpucycle' = 0 ELSE NextCycle

\* The instruction stops the CPU with P = p; at the end of a word P is advanced.
StopAt(p, left) ==
    /\ regP' = IF left = 0 THEN Next18(p) ELSE p
    /\ parcels' = left
    /\ cpuStopped' = TRUE
    /\ cpucycle' = 0

\* The next parcel, or the next word: whether its fetch stopped the CPU is looked at only
\* when cpuStep is called again.
Continue(left, m) ==
    IF left = 0
    THEN Fetch(Next18(regP), m) /\ NextCycle
    ELSE /\ parcels' = left /\ cm' = m /\ cpuStopped' = FALSE
         /\ UNCHANGED <<regP, cpucycle>>

\* An instruction that does not touch cpuStopped.
Proceed(left, m) ==
    IF cpuStopped THEN StopAt(regP, left) /\ cm' = m ELSE Continue(left, m)

\* An address error in the middle of an instruction, which m has come of so far.
ErrorExit(left, m) ==
    IF setup.exitMode
    THEN StopAt(0, left) /\ cm' = Exited(m, regP)
    ELSE Continue(left, m)

-----------------------------------------------------------------------------
(* Registers.  B0 is always 0.                                              *)

A(n) == regA[n]
B(n) == regB[n]
X(n) == regX[n]
Low18(w) == w % Counts

\* The sum that SAi, SBi and SXi form.
AddressSum(in) ==
    CASE in.sum = "A+K" -> Add(Counts, A(in.j), in.K)
      [] in.sum = "B+K" -> Add(Counts, B(in.j), in.K)
      [] in.sum = "X+K" -> Add(Counts, Low18(X(in.j)), in.K)
      [] in.sum = "X+B" -> Add(Counts, Low18(X(in.j)), B(in.k))
      [] in.sum = "A+B" -> Add(Counts, A(in.j), B(in.k))
      [] in.sum = "A-B" -> Subtract(Counts, A(in.j), B(in.k))
      [] in.sum = "B+B" -> Add(Counts, B(in.j), B(in.k))
      [] in.sum = "B-B" -> Subtract(Counts, B(in.j), B(in.k))

SignExtended(a) == IF Negative(Counts, a) THEN a + (Words - Counts) ELSE a

Boolean(in) ==
    CASE in.op = "BX"   -> X(in.j)
      [] in.op = "BX*"  -> And(WordBits, X(in.j), X(in.k))
      [] in.op = "BX+"  -> Or(WordBits, X(in.j), X(in.k))
      [] in.op = "BX-"  -> Xor(WordBits, X(in.j), X(in.k))
      [] in.op = "BXN"  -> Complement(Words, X(in.k))
      [] in.op = "BXN*" -> And(WordBits, X(in.j), Complement(Words, X(in.k)))
      [] in.op = "BXN+" -> Or(WordBits, X(in.j), Complement(Words, X(in.k)))
      [] in.op = "BXN-" -> Xor(WordBits, X(in.j), Complement(Words, X(in.k)))

\* jk is one count, CXi counts bits.
Shift(in) ==
    CASE in.op = "LX"  -> shiftLeftCircular(X(in.i), in.jk)
      [] in.op = "AX"  -> shiftRightArithmetic(X(in.i), in.jk)
      [] in.op = "LXB" -> LeftByB(X(in.k), B(in.j))
      [] in.op = "AXB" -> RightByB(X(in.k), B(in.j))
      [] in.op = "PX"  -> shiftPack(X(in.k), B(in.j))
      [] in.op = "MX"  -> shiftMask(in.jk)
      [] in.op = "CX"  -> Cardinality(Bits(WordBits, X(in.k)))

Numeric(in) ==
    LET a == X(in.j)
        b == X(in.k)
        minus == Complement(Words, b)
    IN  CASE in.op = "FX+" -> floatAdd(a, b, FALSE, FALSE)
          [] in.op = "FX-" -> floatAdd(a, minus, FALSE, FALSE)
          [] in.op = "DX+" -> floatAdd(a, b, FALSE, TRUE)
          [] in.op = "DX-" -> floatAdd(a, minus, FALSE, TRUE)
          [] in.op = "RX+" -> floatAdd(a, b, TRUE, FALSE)
          [] in.op = "RX-" -> floatAdd(a, minus, TRUE, FALSE)
          [] in.op = "IX+" -> Add(Words, a, b)
          [] in.op = "IX-" -> Subtract(Words, a, b)
          [] in.op = "FX*" -> floatMultiply(a, b, FALSE, FALSE)
          [] in.op = "RX*" -> floatMultiply(a, b, TRUE, FALSE)
          [] in.op = "DX*" -> floatMultiply(a, b, FALSE, TRUE)
          [] in.op = "FX/" -> floatDivide(a, b, FALSE)
          [] in.op = "RX/" -> floatDivide(a, b, TRUE)

BooleanOps == {"BX", "BX*", "BX+", "BX-", "BXN", "BXN*", "BXN+", "BXN-"}
ShiftOps   == {"LX", "AX", "LXB", "AXB", "PX", "MX", "CX"}
NumericOps == {"FX+", "FX-", "DX+", "DX-", "RX+", "RX-", "IX+", "IX-", "FX*", "RX*", "DX*",
               "FX/", "RX/"}

\* What an instruction makes of Xi.
Result(in) ==
    CASE in.op \in BooleanOps -> Boolean(in)
      [] in.op \in ShiftOps   -> Shift(in)
      [] in.op \in NumericOps -> Numeric(in)
      [] in.op = "SX"         -> SignExtended(AddressSum(in))

Long(in) == \/ in.op \in {"RJ", "RE", "WE", "JP", "ZR", "NZ", "PL", "NG", "IR", "OR", "DF",
                          "ID", "EQ", "NE", "GE", "LT"}
            \/ in.op \in {"SA", "SB", "SX"} /\ in.sum \in {"A+K", "B+K", "X+K"}

MoveOps    == {"IM", "DM"}
CompareOps == {"CC", "CU"}

Left(in) == parcels - (IF Long(in) THEN 2 ELSE 1)

SetX(in) ==
    /\ in.op \in BooleanOps \cup ShiftOps \cup NumericOps \cup {"SX"}
    /\ regX' = [regX EXCEPT ![in.i] = Result(in)]
    /\ Proceed(Left(in), cm)
    /\ UNCHANGED <<regA, regB, ecsVars>>

\* NXi, ZXi and UXi leave a count or an exponent in Bj.
SetXB(in) ==
    /\ in.op \in {"NX", "ZX", "UX"}
    /\ LET w == X(in.k)
           n == shiftNormalize(w, in.op = "ZX")
       IN  /\ regX' = [regX EXCEPT ![in.i] = IF in.op = "UX" THEN UnpackedCoeff(w) ELSE n.word]
           /\ regB' = [regB EXCEPT ![in.j] = IF in.j = 0 THEN 0
                                             ELSE IF in.op = "UX" THEN UnpackedExpo(w)
                                             ELSE n.count]
    /\ Proceed(Left(in), cm)
    /\ UNCHANGED <<regA, ecsVars>>

SetB(in) ==
    /\ in.op = "SB"
    /\ regB' = [regB EXCEPT ![in.i] = IF in.i = 0 THEN 0 ELSE AddressSum(in)]
    /\ Proceed(Left(in), cm)
    /\ UNCHANGED <<regA, regX, ecsVars>>

\* Mutant: the limit is not looked at before a store.
SetAUnlimited(in) ==
    LET a == AddressSum(in)
        m == IF in.i \in StoreRegs THEN [cm EXCEPT ![Absolute(a)] = X(in.i)] ELSE cm
    IN  /\ in.op = "SA"
        /\ regA' = [regA EXCEPT ![in.i] = a]
        /\ IF in.i = 0 THEN Proceed(Left(in), m)
           ELSE IF a >= FlCm /\ in.i \in LoadRegs THEN ErrorExit(Left(in), m)
           ELSE Continue(Left(in), m)
        /\ regX' = IF in.i \in LoadRegs
                   THEN [regX EXCEPT ![in.i] = cm'[IF a < FlCm THEN Absolute(a) ELSE 0]]
                   ELSE regX
        /\ UNCHANGED <<regB, ecsVars>>

\* SAi and cpuRegASemantics.  A load out of range reads location 0.
SetA(in) ==
    LET a == AddressSum(in)
        m == IF in.i \in StoreRegs /\ a < FlCm THEN [cm EXCEPT ![Absolute(a)] = X(in.i)]
             ELSE cm
    IN  /\ in.op = "SA"
        /\ regA' = [regA EXCEPT ![in.i] = a]
        /\ IF in.i = 0 THEN Proceed(Left(in), m)
           ELSE IF a >= FlCm THEN ErrorExit(Left(in), m)
           ELSE Continue(Left(in), m)
        /\ regX' = IF in.i \in LoadRegs
                   THEN [regX EXCEPT ![in.i] = cm'[IF a < FlCm THEN Absolute(a) ELSE 0]]
                   ELSE regX
        /\ UNCHANGED <<regB, ecsVars>>

-----------------------------------------------------------------------------
(* Jumps. *)

\* Both zeros are zero to ZR and NZ; 3777 and 4000 are out of range, 1777 and 6000
\* indefinite.
Tested(in) ==
    LET x == X(in.j)
        zero == x \in {0, Words - 1}
        outOfRange == x \div Coeffs \in {OR, 2 * Bias}
        indefinite == x \div Coeffs \in {ID, 3 * Bias}
    IN  CASE in.op = "ZR" -> zero        [] in.op = "NZ" -> ~zero
          [] in.op = "PL" -> ~IsNegative(x) [] in.op = "NG" -> IsNegative(x)
          [] in.op = "IR" -> ~outOfRange [] in.op = "OR" -> outOfRange
          [] in.op = "DF" -> ~indefinite [] in.op = "ID" -> indefinite

\* Operands of different signs are not subtracted.
Compared(in) ==
    LET p == B(in.i)
        q == B(in.j)
        acc18 == Subtract(Counts, p, q)
        signs == <<Negative(Counts, p), Negative(Counts, q)>>
    IN  CASE in.op = "EQ" -> p = q
          [] in.op = "NE" -> p # q
          [] in.op = "GE" -> \/ signs = <<FALSE, TRUE>>
                             \/ signs[1] = signs[2] /\ ~Negative(Counts, acc18)
          [] in.op = "LT" -> \/ signs = <<TRUE, FALSE>>
                             \/ signs[1] = signs[2] /\ Negative(Counts, acc18) /\ acc18 # 0

Jump(in) ==
    /\ \/ in.op \in {"ZR", "NZ", "PL", "NG", "IR", "OR", "DF", "ID"}
          /\ IF Tested(in) THEN GoTo(in.K, cm) ELSE Proceed(Left(in), cm)
       \/ in.op \in {"EQ", "NE", "GE", "LT"}
          /\ IF Compared(in) THEN GoTo(in.K, cm) ELSE Proceed(Left(in), cm)
       \/ in.op = "JP" /\ GoTo(Add(Counts, B(in.i), in.K), cm)
    /\ UNCHANGED <<cpuRegisters, ecsVars>>

\* RJ stores at K and goes on behind it; out of range it goes there too, stopped or not.
RJ(in) ==
    /\ in.op = "RJ"
    /\ IF in.K >= FlCm /\ setup.exitMode
       THEN StopAt(in.K, 0) /\ cm' = Exited(cm, regP)
       ELSE /\ NextCycle
            /\ Fetch(Next18(in.K), IF in.K >= FlCm THEN cm
                                   ELSE [cm EXCEPT ![Absolute(in.K)] = JumpWord(regP)])
    /\ UNCHANGED <<cpuRegisters, ecsVars>>

PS(in) ==
    /\ in.op = "PS"
    /\ StopAt(regP, Left(in))
    /\ UNCHANGED <<cpuRegisters, memoryVars>>

Pass(in) ==
    /\ \/ in.op = "NO"
       \/ in.op \in MoveOps \cup CompareOps /\ parcels # 4
    /\ Proceed(Left(in), cm)
    /\ UNCHANGED <<cpuRegisters, ecsVars>>

-----------------------------------------------------------------------------
(* Extended core storage. *)

\* One word of a write: cpuEcsAccess, for which an address may be a flag reference.
EcsWritten(s, a, w) ==
    IF FlagReference(a)
    THEN LET r == FlagFunction(s.flags, a)
         IN  [s EXCEPT !.failed = ~r.ok, !.flags = r.flags]
    ELSE IF a >= EcsSize THEN [s EXCEPT !.failed = TRUE]
    ELSE [s EXCEPT !.ecs[a] = w]

\* n words from c to the ECS address e; it stops at the first that fails.
Written(e, c, n) ==
    LET after[k \in 0 .. n] ==
            IF k = 0 THEN [ecs |-> ecs, flags |-> ecsFlagRegister, failed |-> FALSE]
            ELSE IF after[k - 1].failed THEN after[k - 1]
            ELSE EcsWritten(after[k - 1], e + k - 1, cm[BlockWord(c, k - 1)])
    IN  after[n]

EcsWord(a) == IF a >= EcsSize THEN 0 ELSE ecs[a]

\* Mutant: what lies beyond ECS is not read as zero.
ReadToEnd(e, c, n) ==
    LET target(a) == (a - Add(Counts, setup.raCm, c)) % Ring
    IN  [a \in DOMAIN cm |-> IF a < Ring /\ target(a) < n /\ e + target(a) < EcsSize
                             THEN EcsWord(e + target(a)) ELSE cm[a]]

\* Central memory after n words were read to c: zeros come from beyond ECS.
ReadWords(e, c, n) ==
    LET target(a) == (a - Add(Counts, setup.raCm, c)) % Ring
    IN  [a \in DOMAIN cm |-> IF a < Ring /\ target(a) < n THEN EcsWord(e + target(a)) ELSE cm[a]]

\* Stopped with P = 0, but no word is left at RA.
EcsAbort(left) == StopAt(0, left) /\ UNCHANGED <<regX, memoryVars>>

\* To the next word: a transfer that is complete, while one that fails goes on behind the
\* instruction, as RX and WX always do.
Accepted == GoTo(Next18(regP), cm)

\* RX and WX, within limits: one word between Xj and the ECS address ea.
EcsRegister(in, ea) ==
    LET s == EcsWritten([ecs |-> ecs, flags |-> ecsFlagRegister, failed |-> FALSE], ea, X(in.j))
    IN  /\ IF in.op = "WXE"
           THEN ecs' = s.ecs /\ ecsFlagRegister' = s.flags /\ UNCHANGED regX
           ELSE regX' = [regX EXCEPT ![in.j] = EcsWord(ea)] /\ UNCHANGED ecsVars
        /\ Proceed(Left(in), cm)

\* RE and WE, within limits: n words.
EcsBlock(in, ea, n) ==
    LET s == Written(ea, A(0), n)
    IN  \/ /\ in.op = "WE"
           /\ ecs' = s.ecs /\ ecsFlagRegister' = s.flags
           /\ IF s.failed THEN Proceed(Left(in), cm) ELSE Accepted
           /\ UNCHANGED regX
        \/ /\ in.op = "RE"
           /\ IF n > 0 /\ ea + n > EcsSize
              THEN Proceed(Left(in), ReadWords(ea, A(0), n))
              ELSE GoTo(Next18(regP), ReadWords(ea, A(0), n))
           /\ UNCHANGED <<regX, ecsVars>>

ToRegister(in) == in.op \in {"RXE", "WXE"}

EcsAddress(in) == X(IF ToRegister(in) THEN in.k ELSE 0) % 2^EcsBits

\* There is ECS; RE and WE stand in the first parcels.
EcsUsable(in) == EcsSize > 0 /\ (~ToRegister(in) => Left(in) = 2)

\* The transfer is a function of the flag register.
FlagTransfer(in) == EcsUsable(in) /\ FlagReference(EcsAddress(in)) /\ FlagReference(setup.flEcs)

\* RE, WE, RX and WX: cpuEcsTransfer.
EcsTransfer(in) ==
    LET sum == IF ToRegister(in) THEN 1 ELSE Add(Counts, B(in.j), in.K)
        n == IF sum = Counts - 1 THEN 0 ELSE sum
        e == EcsAddress(in)
        flag == FlagFunction(ecsFlagRegister, e)
        outside == \/ Negative(Counts, n)
                   \/ ~ToRegister(in) /\ FlCm < A(0) + n
                   \/ setup.flEcs < e + n
    IN  /\ in.op \in {"RE", "WE", "RXE", "WXE"}
        /\ IF ~EcsUsable(in) THEN EcsAbort(Left(in))
           ELSE IF FlagTransfer(in)
           THEN /\ ecsFlagRegister' = flag.flags
                /\ IF flag.ok THEN Accepted ELSE Proceed(Left(in), cm)
                /\ UNCHANGED <<regX, ecs>>
           ELSE IF outside
           THEN IF setup.exitMode THEN EcsAbort(Left(in)) ELSE Accepted /\ UNCHANGED <<regX, ecsVars>>
           ELSE IF ToRegister(in) THEN EcsRegister(in, e + setup.raEcs)
           ELSE EcsBlock(in, e + setup.raEcs, n)
        /\ UNCHANGED <<regA, regB>>

-----------------------------------------------------------------------------
(* Compare and move.  A character's place is its word times CharsPerWord    *)
(* plus its position; which descriptor an indirect move finds is arbitrary. *)

CharBits == WordBits \div CharsPerWord
Weight(place) == 2^(CharBits * (CharsPerWord - 1 - (place % CharsPerWord)))
CharIn(m, place) == (m[Absolute(place \div CharsPerWord)] \div Weight(place)) % (2^CharBits)

\* cpuCmuPutByte
PutChar(m, place, char) ==
    LET a == Absolute(place \div CharsPerWord)
    IN  [m EXCEPT ![a] = @ + (char - CharIn(m, place)) * Weight(place)]

From(in) == in.k1 * CharsPerWord + in.c1
To(in)   == in.k2 * CharsPerWord + in.c2

InField(place) == place < FlCm * CharsPerWord

\* The characters that can be reached, of n.
Reached(from, to, n) == Cardinality({k \in 0 .. (n - 1) : InField(from + k) /\ InField(to + k)})

\* One character after the other: overlapping fields repeat.
Moved(from, to, n) ==
    LET after[k \in 0 .. n] ==
            IF k = 0 THEN cm
            ELSE PutChar(after[k - 1], to + k - 1, CharIn(after[k - 1], from + k - 1))
    IN  after[n]

\* A character's place in the collating table at A0: TableBits of it choose the position.
Collating(char) ==
    (A(0) + (char \div 2^TableBits)) * CharsPerWord + (char % 2^TableBits)

\* The comparison ends with the k-th characters: they differ, collated or not, or cannot be
\* looked up.
TableMissing(a, b) == ~InField(Collating(a)) \/ ~InField(Collating(b))
Ends(collated, a, b) ==
    a # b /\ (collated => \/ TableMissing(a, b)
                          \/ CharIn(cm, Collating(a)) # CharIn(cm, Collating(b)))

\* X0: the characters left, negative if the first is smaller; 0 if all are the same.
Comparison(in, k) ==
    LET a == CharIn(cm, From(in) + k)
        b == CharIn(cm, To(in) + k)
        smaller == IF in.op = "CC" THEN CharIn(cm, Collating(a)) < CharIn(cm, Collating(b))
                   ELSE a < b
    IN  Flip(smaller, in.n - k)

\* Positions beyond the word and a collating table out of range; no exit mode, no transfer.
Illegal(in) ==
    \/ in.c1 >= CharsPerWord \/ in.c2 >= CharsPerWord
    \/ in.op = "CC" /\ (A(0) >= FlCm \/ setup.raCm + A(0) >= setup.cmSize)

\* After an error without exit mode, and at the end, X0 is set and the next word follows.
CmuDone(error, m, x0) ==
    IF error /\ setup.exitMode
    THEN StopAt(0, 3) /\ cm' = Exited(m, regP) /\ UNCHANGED regX
    ELSE GoTo(Next18(regP), m) /\ regX' = [regX EXCEPT ![0] = x0]

\* cpuCmuMoveIndirect and cpuCmuMoveDirect, in the first parcel.
CmuMove(in) ==
    LET n == IF Illegal(in) THEN 0 ELSE Reached(From(in), To(in), in.n)
        noDescriptor == in.op = "IM" /\ Add(Counts, B(in.j), in.K) >= FlCm
    IN  /\ in.op \in MoveOps /\ parcels = 4
        /\ IF noDescriptor /\ setup.exitMode THEN CmuDone(TRUE, cm, 0)
           ELSE CmuDone(Illegal(in) \/ n < in.n, Moved(From(in), To(in), n), 0)
        /\ UNCHANGED <<regA, regB, ecsVars>>

\* cpuCmuCompareCollated and cpuCmuCompareUncollated, in the first parcel.
CmuCompare(in) ==
    LET n == IF Illegal(in) THEN 0 ELSE Reached(From(in), To(in), in.n)
        chars(k) == <<CharIn(cm, From(in) + k), CharIn(cm, To(in) + k)>>
        ends == {k \in 0 .. (n - 1) : Ends(in.op = "CC", chars(k)[1], chars(k)[2])}
        k == Min(ends)
        missing == in.op = "CC" /\ TableMissing(chars(k)[1], chars(k)[2])
    IN  /\ in.op \in CompareOps /\ parcels = 4
        /\ IF ends = {} THEN CmuDone(Illegal(in) \/ n < in.n, cm, 0)
           ELSE CmuDone(missing, cm, IF missing THEN 0 ELSE Comparison(in, k))
        /\ UNCHANGED <<regA, regB, ecsVars>>

-----------------------------------------------------------------------------
(* cpuStep. *)

\* A long instruction in the last parcel.
InvalidPacking(in) ==
    /\ Long(in) /\ parcels = 1
    /\ cpuStopped' = TRUE /\ cpucycle' = 0
    /\ UNCHANGED <<regP, parcels, cpuRegisters, memoryVars>>

Execute(in) ==
    \/ SetX(in) \/ SetXB(in) \/ SetB(in) \/ SetA(in) \/ Jump(in) \/ RJ(in) \/ PS(in)
    \/ Pass(in) \/ EcsTransfer(in) \/ CmuMove(in) \/ CmuCompare(in)

\* Whether the CPU is stopped is asked when cpuStep begins.
CpuStep(in) ==
    /\ steps < setup.maxSteps
    /\ cpucycle = 0 => ~cpuStopped
    /\ steps' = steps + 1
    /\ last' = in
    /\ IF Long(in) /\ parcels = 1 THEN InvalidPacking(in) ELSE Execute(in)

\* as, bs and xs: what the registers may hold at first; m: central memory.
CpuInit(as, bs, xs, m) ==
    /\ last = [op |-> "none"] /\ steps = 0
    /\ regP = 0 /\ regA \in as /\ regB \in bs /\ regX \in xs
    /\ parcels = 4 /\ cpucycle = 0 /\ cpuStopped = FALSE
    /\ cm = m
    /\ ecs = [a \in 0 .. (setup.ecsSize - 1) |-> Words - 1 - a]
    /\ ecsFlagRegister = {}

\* Every variable stays within its type.
CpuTypeOK ==
    /\ steps \in 0 .. setup.maxSteps
    /\ regP \in Address /\ regA \in [Regs -> Address] /\ regB \in [Regs -> Address]
    /\ regB[0] = 0 /\ regX \in [Regs -> Word]
    /\ parcels \in 0 .. 4 /\ cpucycle \in 0 .. (setup.ratio - 1) /\ cpuStopped \in BOOLEAN
    /\ cm \in [0 .. (setup.cmSize - 1) -> Word] /\ ecs \in [0 .. (setup.ecsSize - 1) -> Word]
    /\ ecsFlagRegister \subseteq 0 .. (FlagBits - 1)

-----------------------------------------------------------------------------
(* Properties. *)

InRange(w) == ~Special(Expo(w))

\* One of the words of magnitude m and the sign of s; a zero has either.
WordOf(w, e, m, s) == \/ s >= 0 /\ w = Join(e, m, FALSE)
                      \/ s <= 0 /\ w = Join(e, m, TRUE)

\* The sum in units of the lower part's last bit, of operands cut off there.
ExactSum(v1, v2, round) ==
    LET first == Unbias(Expo(v1)) > Unbias(Expo(v2))
        big == IF first THEN v1 ELSE v2
        small == IF first THEN v2 ELSE v1
        shift == Unbias(Expo(big)) - Unbias(Expo(small))
        both == round /\ shift < CoeffBits
                /\ \/ IsNegative(v1) # IsNegative(v2)
                   \/ Normalized(Coeff(v1)) /\ Normalized(Coeff(v2))
        signed(v, m) == IF IsNegative(v) THEN -m ELSE m
    IN  signed(big, Coeff(big) * Coeffs + (IF round THEN Half ELSE 0))
        + signed(small, (Coeff(small) * Coeffs + (IF both THEN Half ELSE 0)) \div 2^shift)

\* The upper or the lower CoeffBits of it, after a shift if it overflows.
SumExact(w, v1, v2, round, double) ==
    LET sum == ExactSum(v1, v2, round)
        m == IF sum < 0 THEN -sum ELSE sum
        over == m >= Coeffs * Coeffs
        x == Max({Unbias(Expo(v1)), Unbias(Expo(v2))}) + (IF over THEN 1 ELSE 0)
        n == IF over THEN m \div 2 ELSE m
    IN  IF ~double THEN WordOf(w, Rebias(x), n \div Coeffs, sum)
        ELSE IF x - CoeffBits < -ID THEN w = 0
        ELSE WordOf(w, Rebias(x - CoeffBits), n % Coeffs, sum)

\* The upper half of the product, rounded a quarter, with the lower one; both normalized.
ProductExact(w, v1, v2, round, double) ==
    LET p == Coeff(v1) * Coeff(v2) + (IF round THEN Coeffs \div 4 ELSE 0)
        both == Normalized(Coeff(v1)) /\ Normalized(Coeff(v2))
        shift == both /\ p < Coeffs * Half
        n == IF shift THEN 2 * p ELSE p
        x == Unbias(Expo(v1)) + Unbias(Expo(v2)) - (IF shift THEN 1 ELSE 0)
             + (IF double THEN 0 ELSE CoeffBits)
        half == IF double THEN n % Coeffs ELSE n \div Coeffs
        neg == IsNegative(v1) # IsNegative(v2)
    IN  IF Expo(v1) = 0 \/ Expo(v2) = 0
        THEN Magnitude(w) = IF both \/ Expo(v1) # Expo(v2) THEN 0 ELSE half
        ELSE (-ID <= x /\ x <= ID) => w = Join(Rebias(x), half, neg)

\* The quotient of CoeffBits bits, cut off; rounding adds a third of its last bit.
QuotientExact(w, v1, v2) ==
    LET c1 == Coeff(v1)
        c2 == Coeff(v2)
        pre == c1 < c2
        x == Unbias(Expo(v1)) - Unbias(Expo(v2)) - (CoeffBits - 1) - (IF pre THEN 1 ELSE 0)
        q == ((IF pre THEN 2 * c1 ELSE c1) * Half) \div c2
    IN  (Expo(v1) # 0 /\ Expo(v2) # 0 /\ c1 < 2 * c2 /\ -ID <= x /\ x <= ID)
        => w = Join(Rebias(x), q, IsNegative(v1) # IsNegative(v2))

\* One's complement: the sum modulo Words - 1, and -0 only of two -0.
IntegerExact(w, a, b) ==
    /\ (w - a - b) % (Words - 1) = 0
    /\ w = Words - 1 <=> a = Words - 1 /\ b = Words - 1

NumericExact(in, w) ==
    LET a == X(in.j)
        b == X(in.k)
        minus == Complement(Words, b)
    IN  CASE in.op \in {"IX+"} -> IntegerExact(w, a, b)
          [] in.op \in {"IX-"} -> IntegerExact(w, a, minus)
          [] in.op \in {"FX+", "RX+", "DX+"} ->
                InRange(a) /\ InRange(b) => SumExact(w, a, b, in.op = "RX+", in.op = "DX+")
          [] in.op \in {"FX-", "RX-", "DX-"} ->
                InRange(a) /\ InRange(b) => SumExact(w, a, minus, in.op = "RX-", in.op = "DX-")
          [] in.op \in {"FX*", "RX*", "DX*"} ->
                InRange(a) /\ InRange(b) => ProductExact(w, a, b, in.op = "RX*", in.op = "DX*")
          [] in.op = "FX/" -> InRange(a) /\ InRange(b) => QuotientExact(w, a, b)
          [] OTHER -> TRUE

ShiftExact(in) ==
    LET w == regX'[in.i]
        v == Value(Words, w)
        cut(a, n) == IF a < 0 THEN -((-a) \div 2^n) ELSE a \div 2^n
    IN  /\ in.op = "AX" => v = cut(Value(Words, X(in.i)), in.jk)
        /\ in.op = "LX" => Bits(WordBits, w) = {(i + in.jk) % WordBits : i \in Bits(WordBits, X(in.i))}
        /\ in.op = "UX" /\ in.j # 0 => shiftPack(w, regB'[in.j]) = X(in.k)
        /\ in.op = "NX" /\ in.j # 0 /\ InRange(X(in.k)) /\ w # 0 =>
              /\ Normalized(Coeff(w)) /\ IsNegative(w) = IsNegative(X(in.k))
              /\ Coeff(w) = Coeff(X(in.k)) * 2^(regB'[in.j])
              /\ Unbias(Expo(w)) = Unbias(Expo(X(in.k))) - regB'[in.j]
        /\ in.op = "SX" /\ ~(Long(in) /\ parcels = 1) => v = Value(Counts, AddressSum(in))

\* What an instruction computes is exact.
CpuExact(in) ==
    /\ in.op \in NumericOps => NumericExact(in, regX'[in.i])
    /\ in.op \in ShiftOps \cup {"SX", "NX", "UX"} => ShiftExact(in)

\* The words a CPU may write: its field, the word at RA, and, outside the field, word 0 if the
\* field's last address is 777777.
Field == {(setup.raCm + a) % setup.cmSize : a \in 0 .. (Max({FlCm, 1}) - 1)}
         \cup (IF setup.raCm + FlCm = Counts THEN {0} ELSE {})
EcsField == {setup.raEcs + a : a \in 0 .. (setup.flEcs - 1)}

\* No instruction writes outside the CPU's field, in central memory and in ECS: stores,
\* return jumps, error exits, block transfers and character moves alike.  Where the field ends
\* with address 777777 they all write word 0 for it, which cpuAdd18 makes of that address.
Confined == [][/\ \A a \in DOMAIN cm \ Field : cm'[a] = cm[a]
               /\ \A a \in DOMAIN ecs \ EcsField : ecs'[a] = ecs[a]]_cpuVars

\* B registers in the order of their values, -0 before +0.
Rank(b) == 2 * Value(Counts, b) - (IF b = Counts - 1 THEN 1 ELSE 0)

\* The first fields' characters come before the second's.
Precedes(in) ==
    LET char(c) == IF in.op = "CC" THEN CharIn(cm, Collating(c)) ELSE c
        a(k) == char(CharIn(cm, From(in) + k))
        b(k) == char(CharIn(cm, To(in) + k))
    IN  \E k \in 0 .. (in.n - 1) : a(k) < b(k) /\ \A h \in 0 .. (k - 1) : a(h) = b(h)

\* The fields and the collating table are within limits.
Comparable(in) ==
    /\ ~Illegal(in) /\ Reached(From(in), To(in), in.n) = in.n
    /\ in.op = "CC" => InField(Collating(2^CharBits - 1))

\* GE and LT jump in the order of the B registers, never both and never neither, and a
\* comparison of fields leaves X0 negative exactly if the first comes first, in the order of
\* the collating table if there is one, whatever characters stand behind the first that
\* differ (cpOp06, cpOp07, cpuCmuCompareCollated, cpuCmuCompareUncollated).
OrderExact ==
    [][LET in == last'
       IN  /\ in.op = "GE" /\ parcels = 4 => (parcels' = 4 <=> Rank(B(in.i)) >= Rank(B(in.j)))
           /\ in.op = "LT" /\ parcels = 4 => (parcels' = 4 <=> Rank(B(in.i)) < Rank(B(in.j)))
           /\ in.op \in CompareOps /\ parcels = 4 /\ Comparable(in) =>
                 (IsNegative(regX'[0]) <=> Precedes(in))]_cpuVars

\* The words of the field are different ones.  They need not be if it ends with address 777777
\* in a memory of fewer words, where address 0 of that memory stands for it.
WordsApart == setup.raCm + FlCm < Counts \/ setup.cmSize = Counts

\* A block of words holds what it came from, with zeros for what ECS has not got, and the exit
\* tells; a field of characters too, up to a limit, and repeats where it runs into itself.  Each
\* word is where a load finds it: that of address 777777 is word 0.  Only the word at RA may be
\* that of an error exit.
CpuBlocksExact(in) ==
    LET sum == Add(Counts, B(in.j), in.K)
        e == X(0) + setup.raEcs
        field(k) == Absolute(A(0) + k)
        moved == Reached(From(in), To(in), in.n)
        distance == To(in) - From(in)
        source(k) == From(in) + (IF distance > 0 THEN k % distance ELSE k)
        exited(a) == setup.exitMode /\ cpuStopped' /\ a = setup.raCm
    IN  /\ in.op \in {"RE", "WE"} /\ WordsApart /\ sum < Counts \div 2 /\ EcsSize > 0 /\ parcels = 4
           /\ A(0) + sum <= FlCm /\ X(0) + sum <= setup.flEcs /\ setup.flEcs < 2^(EcsBits - 1)
           /\ e + sum <= 2^(EcsBits - 1) =>
           /\ \A k \in 0 .. (sum - 1) :
                 IF in.op = "RE"
                 THEN exited(field(k)) \/ cm'[field(k)] = (IF e + k < EcsSize THEN ecs[e + k] ELSE 0)
                 ELSE e + k < EcsSize => ecs'[e + k] = cm[field(k)]
           /\ parcels' = 2 <=> sum > 0 /\ e + sum > EcsSize
        /\ in.op \in MoveOps /\ WordsApart /\ parcels = 4 /\ ~Illegal(in)
           /\ (in.op = "IM" /\ setup.exitMode => Add(Counts, B(in.j), in.K) < FlCm) =>
           \A p \in 0 .. (FlCm * CharsPerWord - 1) :
              \/ exited(Absolute(p \div CharsPerWord))
              \/ CharIn(cm', p) = IF p \in To(in) .. (To(in) + moved - 1)
                                 THEN CharIn(cm, source(p - To(in))) ELSE CharIn(cm, p)
=============================================================================
