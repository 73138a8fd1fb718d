-------------------------------- MODULE Ecs --------------------------------
(***************************************************************************)
(* Extended core storage as its users share it: memory, and a flag         *)
(* register whose functions come as addresses with the top bit set (cpu.c).*)
(***************************************************************************)
EXTENDS OnesComplement

CONSTANTS
    EcsBits,        \* bits of an ECS address (24)
    FlagBits        \* bits of the ECS flag register (18)

ASSUME EcsAssumption == FlagBits \in Nat /\ EcsBits \in Nat /\ EcsBits >= FlagBits + 3

VARIABLES
    ecs,            \* ecsMem
    ecsFlagRegister \* the bits that are set

EcsSize == Cardinality(DOMAIN ecs)

FlagReference(a) == (a \div 2^(EcsBits - 1)) % 2 = 1
Function(a)      == (a \div 2^(EcsBits - 3)) % 8
FlagWord(a)      == Bits(FlagBits, a)

\* Mutant: a ready/select of a flag that is set is accepted.
FlagFunctionBlind(flags, a) ==
    LET busy == flags \cap FlagWord(a) # {}
    IN  CASE Function(a) \in {4, 5} -> [ok |-> TRUE, flags |-> flags \cup FlagWord(a)]
          [] Function(a) = 6 -> [ok |-> ~busy, flags |-> flags]
          [] Function(a) = 7 -> [ok |-> TRUE, flags |-> flags \ FlagWord(a)]

\* cpuEcsFlagRegister: ready/select, selective set, status, selective clear.
FlagFunction(flags, a) ==
    LET busy == flags \cap FlagWord(a) # {}
    IN  CASE Function(a) = 4 -> [ok |-> ~busy,
                                 flags |-> IF busy THEN flags ELSE flags \cup FlagWord(a)]
          [] Function(a) = 5 -> [ok |-> TRUE, flags |-> flags \cup FlagWord(a)]
          [] Function(a) = 6 -> [ok |-> ~busy, flags |-> flags]
          [] Function(a) = 7 -> [ok |-> TRUE, flags |-> flags \ FlagWord(a)]
=============================================================================
