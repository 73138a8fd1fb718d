--------------------------- MODULE CpuArithmetic ---------------------------
(***************************************************************************)
(* The arithmetic of a central processor (shift.c, float.c, cpOp03 and      *)
(* cpOp06 to cpOp77 of cpu.c).  A word is a sign, a biased exponent and a   *)
(* coefficient, in one's complement; its widths are parameters.             *)
(***************************************************************************)
EXTENDS OnesComplement, FiniteSets

CONSTANTS
    CoeffBits,      \* bits of a coefficient (48)
    ExpoBits,       \* bits of a biased exponent (11)
    AddressBits,    \* bits of an A or B register (18)
    CountBits,      \* bits of a shift count (6)
    LongCountBits   \* bits of a count from a B register (11)

ASSUME CpuArithmeticAssumption ==
    /\ CoeffBits \in Nat /\ CoeffBits % 2 = 0 /\ CoeffBits >= 4
    /\ ExpoBits \in Nat \ {0, 1} /\ AddressBits \in Nat \ {0}
    /\ {CountBits, LongCountBits} \subseteq Nat
    /\ LET n == 1 + ExpoBits + CoeffBits IN n < 2^CountBits /\ 2^CountBits <= 2 * n
    /\ LongCountBits >= CountBits /\ LongCountBits <= AddressBits /\ CoeffBits < 2^AddressBits
    /\ ExpoBits <= AddressBits /\ AddressBits < 1 + ExpoBits + CoeffBits

WordBits == 1 + ExpoBits + CoeffBits
Words    == 2^WordBits
Coeffs   == 2^CoeffBits
Bias     == 2^(ExpoBits - 1)
Counts   == 2^AddressBits
Word     == 0 .. (Words - 1)
Address  == 0 .. (Counts - 1)

Half == Coeffs \div 2                  \* Sign48, MaskNormalize
ID   == Bias - 1                       \* indefinite
OR   == 2 * Bias - 1                   \* infinite, out of range

IsNegative(w)   == Negative(Words, w)
Flip(neg, w)    == IF neg THEN Complement(Words, w) ELSE w      \* w ^ sign
Magnitude(w)    == Flip(IsNegative(w), w)
Expo(w)         == Magnitude(w) \div Coeffs
Coeff(w)        == Magnitude(w) % Coeffs
Normalized(c)   == c >= Half
Special(e)      == e % Bias = ID       \* not in range

Unbias(e) == IF e < Bias THEN e - Bias + 1 ELSE e - Bias
Rebias(x) == IF x < 0 THEN x + Bias - 1 ELSE x + Bias

Join(e, c, neg) == Flip(neg, e * Coeffs + c)

IND       == ID * Coeffs
OVFL(neg) == (IF neg THEN 2 * Bias ELSE OR) * Coeffs

-----------------------------------------------------------------------------
(* Shifts. *)

shiftLeftCircular(data, count) ==
    LET n == count % 2^CountBits
        k == IF n >= WordBits THEN n - WordBits ELSE n
    IN  ((data * 2^k) % Words) + data \div 2^(WordBits - k)

shiftMask(count) == Words - 2^(WordBits - Min({count, WordBits}))

shiftRightArithmetic(data, count) ==
    LET n == Min({count % 2^CountBits, WordBits})
    IN  data \div 2^n + (IF IsNegative(data) THEN shiftMask(n) ELSE 0)

\* LXi Bj Xk shifts left by a positive count, and right by a negative one: cpOp22.
ShiftRightLong(data, count) ==
    LET n == count % 2^LongCountBits
    IN  IF n >= 2^CountBits THEN 0 ELSE shiftRightArithmetic(data, n)

LeftByB(data, b) ==
    IF Negative(Counts, b) THEN ShiftRightLong(data, Complement(Counts, b))
    ELSE shiftLeftCircular(data, b)

RightByB(data, b) ==
    IF Negative(Counts, b) THEN shiftLeftCircular(data, Complement(Counts, b))
    ELSE ShiftRightLong(data, b)

shiftPack(coeff, expo) ==
    Join((expo + Bias) % (2 * Bias), Coeff(coeff), IsNegative(coeff))

UnpackedExpo(w)  == (Expo(w) - Bias) % Counts
UnpackedCoeff(w) == Flip(IsNegative(w), Coeff(w))

\* The coefficient after n shifts; a rounding bit follows the first one.
Shifted(c, n, round) == c * 2^n + (IF round /\ n > 0 THEN 2^(n - 1) ELSE 0)

NormalizeCount(c, round) ==
    CHOOSE n \in 0 .. CoeffBits :
        /\ n = CoeffBits \/ Normalized(Shifted(c, n, round))
        /\ \A m \in 0 .. (n - 1) : ~Normalized(Shifted(c, m, round))

\* Result and shift count of NXi and ZXi.
shiftNormalize(w, round) ==
    LET n == NormalizeCount(Coeff(w), round)
        e == Rebias(Unbias(Expo(w)) - n)
    IN  IF Special(Expo(w)) THEN [word |-> w, count |-> 0]
        ELSE IF ~round /\ Coeff(w) = 0 THEN [word |-> 0, count |-> CoeffBits]
        ELSE [word |-> IF e < 0 THEN 0
                       ELSE Join(e, Shifted(Coeff(w), n, round), IsNegative(w)),
              count |-> n]

-----------------------------------------------------------------------------
(* Floating addition in a register of 2 * CoeffBits + 2 bits: an upper part *)
(* with sign and overflow bits, and a lower part.                           *)

Uppers == 4 * Coeffs
Upper(neg, c) == IF neg THEN Complement(Uppers, c) ELSE c
Lower(neg, c) == IF neg THEN Complement(Coeffs, c) ELSE c

\* What the operand with the smaller exponent adds to either part.
Aligned(neg, c, round, shift) ==
    IF shift < CoeffBits
    THEN [upper |-> Upper(neg, c \div 2^shift),
          lower |-> Lower(neg, ((c * 2^(CoeffBits - shift)) % Coeffs)
                               + (IF round THEN Half \div 2^shift ELSE 0))]
    ELSE [upper |-> Upper(neg, 0),
          lower |-> Lower(neg, IF shift < 2 * CoeffBits THEN c \div 2^(shift - CoeffBits)
                               ELSE 0)]

\* The end-around carry goes in only where it does not come out again.
Carried(upper, lower) ==
    LET u == upper + (lower \div Coeffs)
        l == lower % Coeffs
        m == l + (u + (l + 1) \div Coeffs) \div Uppers
    IN  [upper |-> (u + m \div Coeffs) % Uppers, lower |-> m % Coeffs]

\* Post-normalized: the upper part, or the lower one, and the exponent.
AddSingle(u, x, neg) ==
    IF u >= Coeffs THEN Join(Rebias(x + 1), u \div 2, neg) ELSE Join(Rebias(x), u, neg)

AddDouble(u, l, x, neg) ==
    LET carry == u >= Coeffs
        low == IF carry THEN (u % 2) * Half + l \div 2 ELSE l
        y == IF carry THEN x + 1 ELSE x
    IN  IF y < CoeffBits - ID THEN 0 ELSE Join(Rebias(y - CoeffBits), low, neg)

\* Mutant: the rounding bit of the larger operand alone.
AddFiniteHalfRound(v1, v2, doRound, doDouble) ==
    LET x1 == Unbias(Expo(v1))
        x2 == Unbias(Expo(v2))
        big == IF x1 > x2 THEN v1 ELSE v2
        small == IF x1 > x2 THEN v2 ELSE v1
        x == Max({x1, x2})
        a == Aligned(IsNegative(small), Coeff(small), FALSE, x - Min({x1, x2}))
        r == Carried(Upper(IsNegative(big), Coeff(big)) + a.upper,
                     Lower(IsNegative(big), IF doRound THEN Half ELSE 0) + a.lower)
        neg == r.upper >= 2 * Coeffs
        u == IF neg THEN Complement(Uppers, r.upper) ELSE r.upper
        l == IF neg THEN Complement(Coeffs, r.lower) ELSE r.lower
    IN  IF doDouble THEN AddDouble(u, l, x, neg) ELSE AddSingle(u, x, neg)

\* A second rounding bit goes in if both are normalized or their signs differ.
AddFinite(v1, v2, doRound, doDouble) ==
    LET x1 == Unbias(Expo(v1))
        x2 == Unbias(Expo(v2))
        big == IF x1 > x2 THEN v1 ELSE v2
        small == IF x1 > x2 THEN v2 ELSE v1
        x == Max({x1, x2})
        round == doRound /\ \/ IsNegative(v1) # IsNegative(v2)
                            \/ Normalized(Coeff(v1)) /\ Normalized(Coeff(v2))
        a == Aligned(IsNegative(small), Coeff(small), round, x - Min({x1, x2}))
        r == Carried(Upper(IsNegative(big), Coeff(big)) + a.upper,
                     Lower(IsNegative(big), IF doRound THEN Half ELSE 0) + a.lower)
        neg == r.upper >= 2 * Coeffs
        u == IF neg THEN Complement(Uppers, r.upper) ELSE r.upper
        l == IF neg THEN Complement(Coeffs, r.lower) ELSE r.lower
    IN  IF doDouble THEN AddDouble(u, l, x, neg) ELSE AddSingle(u, x, neg)

floatAdd(v1, v2, doRound, doDouble) ==
    LET e1 == Expo(v1)
        e2 == Expo(v2)
    IN  IF Special(e1)
        THEN IF \/ e1 = ID \/ e2 = ID
                \/ e2 = OR /\ IsNegative(v1) # IsNegative(v2)
             THEN IND ELSE OVFL(IsNegative(v1))
        ELSE IF Special(e2)
        THEN IF e2 = ID THEN IND ELSE OVFL(IsNegative(v2))
        ELSE AddFinite(v1, v2, doRound, doDouble)

-----------------------------------------------------------------------------
(* Multiplication: a product of 2 * CoeffBits bits, from four products of   *)
(* halves.                                                                  *)

Product(c1, c2, doRound) ==
    LET h == 2^(CoeffBits \div 2)
        middle == (c1 % h) * (c2 \div h) + (c1 \div h) * (c2 % h)
                  + (IF doRound THEN h \div 4 ELSE 0)
        lower == (c1 % h) * (c2 % h) + (middle % h) * h
    IN  [upper |-> (c1 \div h) * (c2 \div h) + middle \div h + lower \div Coeffs,
         lower |-> lower % Coeffs]

\* The half asked for, shifted by one bit if both operands were normalized and the
\* product is not; the exponent of the upper half is CoeffBits larger.
MultiplyFinite(v1, v2, p, doDouble, neg) ==
    LET both == Normalized(Coeff(v1)) /\ Normalized(Coeff(v2))
        adjust == both /\ ~Normalized(p.upper)
        low == IF adjust THEN (2 * p.lower) % Coeffs ELSE p.lower
        up == IF adjust THEN 2 * p.upper + p.lower \div Half ELSE p.upper
        x == Unbias(Expo(v1)) + Unbias(Expo(v2)) + (IF adjust THEN -1 ELSE 0)
             + (IF doDouble THEN 0 ELSE CoeffBits)
    IN  IF x > ID THEN OVFL(neg)
        ELSE IF Rebias(x) < 0 THEN 0
        ELSE Join(Rebias(x), IF doDouble THEN low ELSE up, neg)

\* Two unnormalized integers are multiplied as integers, and an exponent of zero is an
\* underflow.
floatMultiply(v1, v2, doRound, doDouble) ==
    LET neg == IsNegative(v1) # IsNegative(v2)
        e1 == Expo(v1)
        e2 == Expo(v2)
        p == Product(Coeff(v1), Coeff(v2), doRound)
        both == Normalized(Coeff(v1)) /\ Normalized(Coeff(v2))
    IN  IF Special(e1)
        THEN IF e1 = ID \/ e2 = ID \/ e2 = 0 THEN IND ELSE OVFL(neg)
        ELSE IF Special(e2)
        THEN IF e2 = ID \/ e1 = 0 THEN IND ELSE OVFL(neg)
        ELSE IF ~both /\ e1 = 0 /\ e2 = 0
        THEN Flip(neg, IF doDouble THEN p.lower ELSE p.upper)
        ELSE IF e1 = 0 \/ e2 = 0 THEN 0
        ELSE MultiplyFinite(v1, v2, p, doDouble, neg)

-----------------------------------------------------------------------------
(* Division by shifting and subtracting, one bit of the quotient at a time; *)
(* a rounding division shifts in 0101...                                    *)

\* [rest, quotient] after n bits.
Quotient(c1, c2, doRound, firstRound) ==
    LET step[n \in 0 .. CoeffBits] ==
            IF n = 0 THEN [rest |-> c1, quotient |-> 0]
            ELSE LET b == step[n - 1].rest >= c2
                     left == step[n - 1].rest - (IF b THEN c2 ELSE 0)
                     bit == IF doRound THEN (firstRound + n - 1) % 2 ELSE 0
                 IN  [rest |-> 2 * left + bit,
                      quotient |-> 2 * step[n - 1].quotient + (IF b THEN 1 ELSE 0)]
    IN  step[CoeffBits].quotient

DivideFinite(v1, v2, doRound, neg) ==
    LET c1 == Coeff(v1)
        c2 == Coeff(v2)
        pre == c1 < c2
        x == Unbias(Expo(v1)) - Unbias(Expo(v2)) - (IF pre THEN 1 ELSE 0)
        y == x - (CoeffBits - 1)
    IN  IF c1 >= 2 * c2 THEN IND
        ELSE IF y > ID THEN OVFL(neg)
        ELSE IF Rebias(y) < 0 THEN 0
        ELSE Join(Rebias(y),
                  Quotient(IF pre THEN 2 * c1 ELSE c1, c2, doRound,
                           IF pre /\ doRound THEN 1 ELSE 0), neg)

floatDivide(v1, v2, doRound) ==
    LET neg == IsNegative(v1) # IsNegative(v2)
        e1 == Expo(v1)
        e2 == Expo(v2)
    IN  IF Special(e1)
        THEN IF e1 = ID \/ e2 = ID \/ e2 = OR THEN IND ELSE OVFL(neg)
        ELSE IF Special(e2)
        THEN IF e2 = ID THEN IND ELSE 0
        ELSE IF e1 = 0 \/ e2 = 0
        THEN IF e1 # 0 THEN OVFL(neg) ELSE IF e2 # 0 THEN 0 ELSE IND
        ELSE DivideFinite(v1, v2, doRound, neg)
=============================================================================
