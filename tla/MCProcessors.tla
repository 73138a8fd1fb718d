---------------------------- MODULE MCProcessors ----------------------------
(***************************************************************************)
(* Small machines for Processors: words of 9 bits (a sign, 4 bits of        *)
(* exponent, 4 of coefficient), which are 3 cells or characters, and        *)
(* addresses of 5 bits.  Each part has programs and initial values of its   *)
(* own, so that every case of an instruction comes up in one of them.       *)
(***************************************************************************)
EXTENDS Processors

Machine(part) ==
    [part |-> part, raCm |-> 0, flCm |-> 4, raEcs |-> 0, flEcs |-> 0, exitMode |-> TRUE,
     cmSize |-> 4, ecsSize |-> 0, ratio |-> 1, maxSteps |-> 1, ppSteps |-> 0, ddpCells |-> 0]

\* A field that ends with the last address, in a memory of n words, which has that address if
\* n = 32.
AtEnd(part, n, x) == [Machine(part) EXCEPT !.raCm = 29, !.flCm = 3, !.exitMode = x, !.cmSize = n]

MCSetups ==
    {Machine(part) : part \in {"float", "shift", "sums", "compare", "tests"}}
    \cup {[Machine("memory") EXCEPT !.raCm = 1, !.flCm = fl, !.exitMode = x, !.cmSize = 6,
                                    !.ratio = r, !.maxSteps = 3] :
             fl \in {0, 3}, x \in BOOLEAN, r \in {1, 2}}
    \cup {[Machine("ecs") EXCEPT !.raCm = 1, !.flCm = 3, !.raEcs = 1, !.flEcs = fl, !.exitMode = x,
                                 !.cmSize = 6, !.ecsSize = size, !.maxSteps = 2] :
             fl \in {3, 35}, x \in BOOLEAN, size \in {0, 3, 5}}
    \cup {[Machine("cmu") EXCEPT !.raCm = 1, !.flCm = 4, !.exitMode = x, !.cmSize = 6] :
             x \in BOOLEAN}
    \cup {[AtEnd("memoryEnd", 32, x) EXCEPT !.maxSteps = 2] : x \in BOOLEAN}
    \cup {[AtEnd("ecsEnd", 32, x) EXCEPT !.raEcs = 1, !.flEcs = 3, !.ecsSize = 3, !.maxSteps = 2] :
             x \in BOOLEAN}
    \cup {[AtEnd("ecsHalf", 16, x) EXCEPT !.raEcs = 1, !.flEcs = 3, !.ecsSize = 4] : x \in BOOLEAN}
    \cup {AtEnd("cmuEnd", 32, x) : x \in BOOLEAN}
    \cup {[Machine("pp") EXCEPT !.cmSize = 5, !.ppSteps = 1],
          [Machine("ppblocks") EXCEPT !.cmSize = 5, !.ppSteps = 2],
          [Machine("ddp") EXCEPT !.flEcs = 35, !.ecsSize = 2, !.maxSteps = 2, !.ddpCells = 1],
          [Machine("ddpdata") EXCEPT !.ecsSize = 2, !.ddpCells = 7]}

\* What BlockWord says comes of adding 1 again and again.
ASSUME \A size \in {1, 2, 4, 8, 16, 32}, a \in 0 .. 30, k \in 0 .. 40 :
    LET at[i \in 0 .. k] == IF i = 0 THEN a % size ELSE Add(Counts, at[i - 1], 1) % size
    IN  at[k] = (a + k) % (IF size = Counts THEN Counts - 1 ELSE size)

Parts == {s.part : s \in MCSetups}

ASSUME FieldsFit /\ FlagsApart /\ DdpAlone

Const(n) == [r \in Regs |-> n]
Memory(n) == [a \in 0 .. (n - 1) |-> (83 * a + 37) % Words]
Text(n) == [a \in 0 .. (n - 1) |-> IF a % 2 = 0 THEN 83 ELSE 84]  \* 1 2 3 and 1 2 4
WordsOf(exps, coeffs) == {Join(e, c, n) : e \in exps, c \in coeffs, n \in BOOLEAN}
Edges == {0, 1, 15, 16, 30, 31}
MemoryOf(f) == [c \in 0 .. (2^CellBits - 1) |-> f[c + 1]]

Idle == [regA |-> {Const(0)}, regB |-> {Const(0)}, regX |-> {Const(0)}, cm |-> Memory(4),
         ppP |-> {2}, ppA |-> {0}, ppMem |-> {MemoryOf(<<0, 0, 0, 0, 0, 0, 0, 0>>)}]

EcsStart ==
    [Idle EXCEPT !.regA = {Const(a) : a \in {0, 2}},
                 !.regB = {[Const(b) EXCEPT ![0] = 0] : b \in {0, 1}},
                 !.regX = {[r \in Regs |-> IF r = 0 THEN e ELSE 101] :
                              e \in {0, 1, 2, 3, 33, 42, 49, 57}}]
MemoryStart == [Idle EXCEPT !.regB = {[Const(0) EXCEPT ![1] = b] : b \in {2, 31}}]
CmuStart == [Idle EXCEPT !.regA = {Const(a) : a \in {0, 3, 4}}, !.regX = {Const(5)}]

MCStarts ==
    [part \in Parts |->
        CASE part = "float" ->
               [Idle EXCEPT !.regX =
                   {[r \in Regs |-> CASE r = 0 -> a [] r = 1 -> b [] OTHER -> 0] :
                       a \in WordsOf(0 .. 15, {0, 1, 7, 8, 13, 15}),
                       b \in WordsOf({0, 3, 7, 8, 9, 12, 15}, {0, 1, 7, 8, 11, 15})}]
          [] part = "shift" ->
               [Idle EXCEPT !.regX = {Const(w) : w \in Word},
                            !.regB = {[Const(0) EXCEPT ![1] = b] : b \in {0, 1, 9, 15, 22, 30}}]
          [] part = "sums" ->
               [Idle EXCEPT !.regA = {Const(a) : a \in Edges},
                            !.regB = {[Const(b) EXCEPT ![0] = 0] : b \in Edges},
                            !.regX = {Const(x) : x \in {0, 16, 33, 511}}]
          [] part = "compare" ->
               [Idle EXCEPT !.regB = {[r \in Regs |-> CASE r = 0 -> 0 [] r = 1 -> a [] OTHER -> b] :
                                         a \in Address, b \in Address}]
          [] part = "tests" -> [Idle EXCEPT !.regX = {Const(w) : w \in Word}]
          [] part = "memory" -> [MemoryStart EXCEPT !.cm = Memory(6)]
          [] part = "memoryEnd" -> [MemoryStart EXCEPT !.cm = Memory(32)]
          [] part = "ecs" -> [EcsStart EXCEPT !.cm = Memory(6)]
          [] part = "ecsEnd" -> [EcsStart EXCEPT !.cm = Memory(32)]
          [] part = "ecsHalf" -> [EcsStart EXCEPT !.cm = Memory(16)]
          [] part = "cmu" -> [CmuStart EXCEPT !.cm = Text(6)]
          [] part = "cmuEnd" -> [CmuStart EXCEPT !.cm = Text(32)]
          [] part = "pp" ->
               [Idle EXCEPT !.ppP = {0, 2, 7}, !.ppA = 0 .. 31, !.cm = Memory(5),
                            !.ppMem = {MemoryOf(<<0, 7, 3, 0, 4, 2, 1, 6>>),
                                       MemoryOf(<<3, 5, 0, 7, 1, 0, 2, 4>>)}]
          [] part = "ppblocks" ->
               [Idle EXCEPT !.ppA = {0, 3, 4, 31}, !.cm = Memory(5),
                            !.ppMem = {MemoryOf(<<0, 1, 2, at, 4, 2, 0, 3>>) : at \in 0 .. 7}]
          [] OTHER ->
               [Idle EXCEPT !.regX = {[r \in Regs |-> CASE r = 0 -> 33 [] r = 1 -> 57 [] OTHER -> 42]}]]

Op(op, i, j, k, n) == [op |-> op, i |-> i, j |-> j, k |-> k, jk |-> n, K |-> n]
Sum(op, i, sum, K) == [op |-> op, i |-> i, j |-> 1, k |-> 2, K |-> K, sum |-> sum]
Character(op, k1, c1, k2, c2, n) ==
    [op |-> op, i |-> 0, j |-> 1, k |-> 0, K |-> 0, k1 |-> k1, c1 |-> c1, k2 |-> k2, c2 |-> c2,
     n |-> n]
TestOps == {"ZR", "NZ", "PL", "NG", "IR", "OR", "DF", "ID"}

MCCpuPrograms ==
    [part \in Parts |->
        CASE part = "float" -> {Op(op, 2, 0, 1, 0) : op \in NumericOps}
          [] part = "shift" ->
               {Op(op, 2, 1, 0, n) : op \in {"LX", "AX", "MX"}, n \in {0, 1, 5, 8, 9, 10, 15}}
               \cup {Op(op, 2, 1, 0, 0) : op \in {"LXB", "AXB", "PX", "CX", "NX", "ZX", "UX"}}
               \cup {Op("NX", 2, 0, 0, 0), Op("UX", 2, 0, 0, 0)}
               \cup {Op(op, 2, 1, 0, 0) : op \in BooleanOps}
          [] part = "sums" ->
               {Sum(op, i, sum, K) : op \in {"SX", "SB"}, i \in {0, 2}, sum \in {"A+K", "B+K", "X+K"},
                                     K \in Edges}
               \cup {Sum(op, 2, sum, 0) : op \in {"SX", "SB"},
                                          sum \in {"X+B", "A+B", "A-B", "B+B", "B-B"}}
          [] part = "compare" -> {Op(op, 1, 2, 0, 3) : op \in {"EQ", "NE", "GE", "LT"}}
          [] part = "tests" -> {Op(op, 0, 1, 0, 3) : op \in TestOps}
          [] part \in {"memory", "memoryEnd"} ->
               {Sum("SA", i, "B+K", K) : i \in Regs, K \in {0, 1, 31}}
               \cup {Op(op, 1, 0, 0, K) : op \in {"RJ", "JP"}, K \in {0, 2, 3}}
               \cup {Op("NZ", 0, 1, 0, 5), Op("ZR", 0, 1, 0, 5), Op("PS", 0, 0, 0, 0), Op("NO", 0, 0, 0, 0)}
          [] part \in {"ecs", "ecsEnd", "ecsHalf"} ->
               {Op(op, 0, 1, 0, K) : op \in {"RE", "WE"}, K \in {0, 1, 2, 31}}
               \cup {Op(op, 0, 1, 0, 0) : op \in {"RXE", "WXE"}} \cup {Op("NO", 0, 0, 0, 0)}
          [] part \in {"cmu", "cmuEnd"} ->
               {Character(op, k1, c1, k2, c2, n) :
                   op \in MoveOps \cup CompareOps, k1 \in {0, 1, 4}, c1 \in {0, 2}, k2 \in {0, 1, 3, 5},
                   c2 \in {0, 1, 3}, n \in {0, 1, 2, 4, 7}}
          [] part = "ddp" -> {Op("RXE", 0, 1, k, 0) : k \in {0, 1}}
          [] part = "pp" -> {Op("JP", 0, 0, 0, 3)}
          [] OTHER -> {}]

MCPpPrograms ==
    [part \in Parts |->
        CASE part = "pp" -> {in \in Pp!Instructions : in.op \notin {"CRM", "CWM"}}
          [] part = "ppblocks" -> {in \in Pp!Instructions : in.op \in {"CRD", "CWD", "CRM", "CWM"}}
          [] OTHER -> {}]

MCDdpFunctions ==
    [part \in Parts |-> CASE part = "ddp" -> {"read", "status"}
                        [] part = "ddpdata" -> {"read", "write"}
                        [] OTHER -> {}]
=============================================================================
