--------------------------- MODULE PpInstructions ---------------------------
(***************************************************************************)
(* The instructions of a peripheral processor that compute, jump, and move *)
(* words to and from central memory (pp.c).  Which instruction stands at P *)
(* is arbitrary; an operand cell behind it is read from memory.  Input,    *)
(* output and jumps on a channel are in PpChannel, exchanges in            *)
(* CpuExchange.                                                            *)
(*                                                                         *)
(* An instruction is a record: op; d; and for those of one pattern, what   *)
(* is done ("LD", "AD", ...) and the mode of its operand: "N" d itself,    *)
(* "C" d with the next cell, "D" the cell at d, "I" the cell that one      *)
(* points to, "M" the cell at the next cell's address, indexed by d.       *)
(***************************************************************************)
EXTENDS OnesComplement, Sequences

CONSTANTS
    DBits,          \* bits of d (6)
    CellBits,       \* bits of a cell and of P (12)
    CellsPerWord    \* cells in a word of central memory (5)

VARIABLES
    ppP, ppA, ppMem,    \* registers P and A, and memory, of the PP
    ppLast, ppSteps,    \* the instruction just executed, and how many were
    cm,                 \* central memory: cpMem
    cpuP                \* P of the CPU, as cpuGetP gives it

ppVars == <<ppP, ppA, ppMem, ppLast, ppSteps>>

Ds    == 2^DBits
Cells == 2^CellBits
ABits == DBits + CellBits
As    == 2^ABits

D    == 0 .. (Ds - 1)
Cell == 0 .. (Cells - 1)

PpIncrement(a) == (a + 1) % Cells

\* The cell behind the instruction; P has been incremented when an instruction executes.
Next == PpIncrement(ppP)
Following == ppMem[Next]

\* A jump of d or, for the larger d, of d - 77 (octal).  P is advanced once more whichever end
\* of memory it left by.
PpAddOffset(d) ==
    LET to == ppP + (IF 2 * d < Ds THEN d ELSE d - (Ds - 1))
    IN  IF to \in Cell THEN to ELSE (to + 1) % Cells

\* Addresses are indexed with an end-around carry, and 7777 (octal) is 0.
IndexLocation(d) ==
    LET sum == (IF d = 0 THEN 0 ELSE ppMem[d]) + Following
    IN  IF sum >= Cells \/ sum = Cells - 1 THEN (sum + 1) % Cells ELSE sum

Location(in) == CASE in.mode = "D" -> in.d
                  [] in.mode = "I" -> ppMem[in.d]
                  [] in.mode = "M" -> IndexLocation(in.d)

Operand(in) == CASE in.mode = "N" -> in.d
                 [] in.mode = "C" -> in.d * Cells + Following
                 [] OTHER         -> ppMem[Location(in)]

\* P behind the instruction and its second cell, if it has one.
Behind(in) == IF in.mode \in {"C", "M"} THEN PpIncrement(Next) ELSE Next

Loads == {"LD", "LC", "AD", "SB", "LM", "LP", "SC"}
Replaces == {"RA", "AO", "SO"}

\* What an instruction makes of A.
NewA(in) ==
    LET m == Operand(in)
    IN  CASE in.op = "LD" -> m
          [] in.op = "LC" -> Complement(As, m)
          [] in.op \in {"AD", "RA"} -> Add(As, ppA, m)
          [] in.op = "SB" -> Subtract(As, ppA, m)
          [] in.op = "LM" -> Xor(ABits, ppA, m)
          [] in.op = "LP" -> And(ABits, ppA, m)
          [] in.op = "SC" -> And(ABits, ppA, Complement(As, m))
          [] in.op = "AO" -> Add(As, m, 1)
          [] in.op = "SO" -> Subtract(As, m, 1)

\* LDN, LDC, LDD, LDI, LDM and their like.
Load(in) ==
    /\ in.op \in Loads
    /\ ppA' = NewA(in)
    /\ ppP' = Behind(in)
    /\ UNCHANGED <<ppMem, cm>>

\* RAD, AOD, SOD and their like: A and the cell.
Replace(in) ==
    /\ in.op \in Replaces
    /\ ppA' = NewA(in)
    /\ ppMem' = [ppMem EXCEPT ![Location(in)] = NewA(in) % Cells]
    /\ ppP' = Behind(in)
    /\ UNCHANGED cm

\* STD, STI, STM
Store(in) ==
    /\ in.op = "ST"
    /\ ppMem' = [ppMem EXCEPT ![Location(in)] = ppA % Cells]
    /\ ppP' = Behind(in)
    /\ UNCHANGED <<ppA, cm>>

\* SHN: left and around, or right and off.
SHN(in) ==
    /\ in.op = "SHN"
    /\ LET n == in.d % ABits
       IN  ppA' = IF 2 * in.d < Ds THEN ((ppA * 2^n) % As) + (ppA \div 2^(ABits - n))
                  ELSE ppA \div 2^(Ds - 1 - in.d)
    /\ ppP' = Next
    /\ UNCHANGED <<ppMem, cm>>

PSN(in) == in.op = "PSN" /\ ppP' = Next /\ UNCHANGED <<ppA, ppMem, cm>>

RPN(in) == in.op = "RPN" /\ ppA' = cpuP /\ ppP' = Next /\ UNCHANGED <<ppMem, cm>>

\* UJN, ZJN, NJN, PJN, MJN
Jumps(in) == CASE in.op = "UJN" -> TRUE
               [] in.op = "ZJN" -> ppA = 0
               [] in.op = "NJN" -> ppA # 0
               [] in.op = "PJN" -> ~Negative(As, ppA)
               [] in.op = "MJN" -> Negative(As, ppA)

ShortJump(in) ==
    /\ in.op \in {"UJN", "ZJN", "NJN", "PJN", "MJN"}
    /\ ppP' = IF Jumps(in) THEN PpAddOffset(in.d) ELSE Next
    /\ UNCHANGED <<ppA, ppMem, cm>>

LJM(in) == in.op = "LJM" /\ ppP' = IndexLocation(in.d) /\ UNCHANGED <<ppA, ppMem, cm>>

\* RJM leaves where to return to.
RJM(in) ==
    /\ in.op = "RJM"
    /\ ppMem' = [ppMem EXCEPT ![IndexLocation(in.d)] = PpIncrement(Next)]
    /\ ppP' = PpIncrement(IndexLocation(in.d))
    /\ UNCHANGED <<ppA, cm>>

-----------------------------------------------------------------------------
(* Central memory.  Addresses are taken modulo its size; the first cell is  *)
(* the upper end of a word.                                                 *)

CmAddress(a) == (a % As) % Cardinality(DOMAIN cm)
CellOf(word, i) == (word \div 2^(CellBits * (CellsPerWord - 1 - i))) % Cells
WordOfCells(m, at) ==
    MapThenSumSet(LAMBDA i : m[(at + i) % Cells] * 2^(CellBits * (CellsPerWord - 1 - i)),
                  0 .. (CellsPerWord - 1))

\* Memory m after n words of central memory from a were read to the cells from at.  The cell
\* written last keeps its value where a block is longer than memory.
ReadTo(m, at, a, n) ==
    LET total == n * CellsPerWord
        word(k) == cm[CmAddress(a + k \div CellsPerWord)]
        last(c) == Max({k \in 0 .. (total - 1) : (at + k) % Cells = c})
        hit == {(at + k) % Cells : k \in 0 .. (total - 1)}
    IN  [c \in Cell |-> IF c \in hit THEN CellOf(word(last(c)), last(c) % CellsPerWord) ELSE m[c]]

\* Central memory after n words were written to a from the cells of m at at.
WrittenFrom(m, at, a, n) ==
    LET last(w) == Max({k \in 0 .. (n - 1) : CmAddress(a + k) = w})
        hit == {CmAddress(a + k) : k \in 0 .. (n - 1)}
    IN  [w \in DOMAIN cm |-> IF w \in hit THEN WordOfCells(m, at + last(w) * CellsPerWord)
                             ELSE cm[w]]

CRD(in) ==
    /\ in.op = "CRD"
    /\ ppMem' = ReadTo(ppMem, in.d, ppA, 1)
    /\ ppP' = Next
    /\ UNCHANGED <<ppA, cm>>

CWD(in) ==
    /\ in.op = "CWD"
    /\ cm' = WrittenFrom(ppMem, in.d, ppA, 1)
    /\ ppP' = Next
    /\ UNCHANGED <<ppA, ppMem>>

\* P is saved in cell 0; CRM takes it from there again, with what the block has put there.
Saved == [ppMem EXCEPT ![0] = Next]

CRM(in) ==
    /\ in.op = "CRM"
    /\ ppMem' = ReadTo(Saved, Following, ppA, ppMem[in.d])
    /\ ppP' = PpIncrement(ppMem'[0])
    /\ ppA' = (ppA + ppMem[in.d]) % As
    /\ UNCHANGED cm

CWM(in) ==
    /\ in.op = "CWM"
    /\ cm' = WrittenFrom(Saved, Following, ppA, ppMem[in.d])
    /\ ppMem' = Saved
    /\ ppP' = PpIncrement(Next)
    /\ ppA' = (ppA + ppMem[in.d]) % As

\* One instruction; the CPU's P is left alone.
PpStep(in) ==
    /\ ppLast' = in /\ ppSteps' = ppSteps + 1
    /\ \/ Load(in) \/ Replace(in) \/ Store(in) \/ SHN(in) \/ PSN(in) \/ RPN(in)
       \/ ShortJump(in) \/ LJM(in) \/ RJM(in) \/ CRD(in) \/ CWD(in) \/ CRM(in) \/ CWM(in)
    /\ UNCHANGED cpuP

Instructions ==
    {[op |-> op, mode |-> "N", d |-> d] : d \in D,
        op \in Loads \cup {"PSN", "RPN", "SHN", "UJN", "ZJN", "NJN", "PJN", "MJN", "CRD", "CWD"}}
    \cup {[op |-> op, mode |-> "C", d |-> d] : op \in {"LD", "AD", "LP", "LM"}, d \in D}
    \cup {[op |-> op, mode |-> m, d |-> d] : op \in {"LD", "AD", "SB", "LM", "ST"} \cup Replaces,
                                             m \in {"D", "I", "M"}, d \in D}
    \cup {[op |-> op, mode |-> "M", d |-> d] : op \in {"LJM", "RJM", "CRM", "CWM"}, d \in D}

\* Every variable stays within its type.
PpTypeOK == ppP \in Cell /\ ppA \in 0 .. (As - 1) /\ ppMem \in [Cell -> Cell]

-----------------------------------------------------------------------------
(* Properties. *)

\* A sum in one's complement, exact modulo As - 1.
SumOf(a, b) == (ppA' - a - b) % (As - 1) = 0 /\ (ppA' = As - 1 <=> a = As - 1 /\ b = As - 1)

\* What an instruction computes is exact.
PpExact(in) ==
    LET m == Operand(in)
    IN  /\ in.op \in {"AD", "RA"} => SumOf(ppA, m)
        /\ in.op = "SB" => SumOf(ppA, Complement(As, m))
        /\ in.op \in {"AO", "SO"} =>
              /\ SumOf(m, IF in.op = "AO" THEN 1 ELSE As - 2)
              /\ Negative(As, ppA') <=> in.op = "SO" /\ m = 0
        /\ in.op \in Replaces =>
              /\ ppMem'[Location(in)] = ppA' % Cells
              /\ \A c \in Cell \ {Location(in)} : ppMem'[c] = ppMem[c]
        /\ in.op = "SHN" /\ 2 * in.d < Ds =>
              Bits(ABits, ppA') = {(i + in.d) % ABits : i \in Bits(ABits, ppA)}
        /\ in.op \in {"UJN", "ZJN", "NJN", "PJN", "MJN"} /\ Jumps(in) =>
              LET to == ppP + (IF 2 * in.d < Ds THEN in.d ELSE in.d - (Ds - 1))
              IN  to \in Cell => ppP' = to

\* A block between central memory and a PP keeps its words in order, high cell first; a PP
\* goes on behind the instruction unless the block covers cell 0, where P was saved.
PpBlocksExact(in) ==
    LET n == ppMem[in.d]
        at == Following
        cell(m, k) == m[(at + k) % Cells]
        word(m, k) == m[CmAddress(ppA + k)]
        fits == n * CellsPerWord <= Cells
        covered == \E k \in 0 .. (n * CellsPerWord - 1) : (at + k) % Cells = 0
        separate == \A j, k \in 0 .. (n - 1) : CmAddress(ppA + j) = CmAddress(ppA + k) => j = k
    IN  /\ in.op = "CRM" /\ fits =>
              /\ \A k \in 0 .. (n - 1), i \in 0 .. (CellsPerWord - 1) :
                    cell(ppMem', k * CellsPerWord + i) = CellOf(word(cm, k), i)
              /\ ~covered => ppP' = PpIncrement(Next) /\ ppMem'[0] = Next
        /\ in.op = "CWM" /\ fits /\ separate =>
              /\ \A k \in 0 .. (n - 1), i \in 0 .. (CellsPerWord - 1) :
                    CellOf(word(cm', k), i) = cell(ppMem', k * CellsPerWord + i)
              /\ ppP' = PpIncrement(Next)
=============================================================================
