--------------------------- MODULE OnesComplement ---------------------------
(***************************************************************************)
(* One's complement arithmetic as the processors do it (ppAdd18 of pp.c,    *)
(* cpuAdd18 of cpu.c, IXi of cpOp36): a register of M = 2^n values, an      *)
(* adder that complements and subtracts, and words seen as sets of bits.    *)
(***************************************************************************)
EXTENDS Integers, FiniteSetsExt

Complement(M, a) == M - 1 - a

\* A borrow goes around the end.
Subtract(M, a, b) == IF a >= b THEN a - b ELSE a - b - 1 + M

Add(M, a, b) == Subtract(M, a, Complement(M, b))

Negative(M, a) == 2 * a >= M

\* What a register stands for; both zeros are 0.
Value(M, a) == IF Negative(M, a) THEN a - (M - 1) ELSE a

Bits(n, a) == {i \in 0 .. (n - 1) : (a \div 2^i) % 2 = 1}
OfBits(bits) == MapThenSumSet(LAMBDA i : 2^i, bits)

And(n, a, b) == OfBits(Bits(n, a) \cap Bits(n, b))
Or(n, a, b)  == OfBits(Bits(n, a) \cup Bits(n, b))
Xor(n, a, b) == OfBits((Bits(n, a) \ Bits(n, b)) \cup (Bits(n, b) \ Bits(n, a)))
=============================================================================
