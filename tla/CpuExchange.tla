---------------------------- MODULE CpuExchange ----------------------------
(***************************************************************************)
(* Exchange jumps (cpu.c, ppOpEXN of pp.c).  A CPU changes context by      *)
(* swapping its registers with an exchange package in central memory.  A   *)
(* CPU asks for it with XJ and a PP with EXN, MXN or MAN; both only leave  *)
(* the request in exchangeCpu and exchangeTo (cpuIssueExchange), and the   *)
(* CPU serves it at the top of its next cpuStep.  monitorCpu is the CPU in *)
(* monitor mode, or -1.                                                    *)
(*                                                                         *)
(* The main thread runs ppStep and then the CPUs in turn; with CPU_THREADS *)
(* every CPU but CPU 0 has a thread of its own.  A context is one value    *)
(* for all registers of an exchange package.                               *)
(***************************************************************************)
EXTENDS Integers

CONSTANTS
    CPUs,           \* cpuCount
    Machines,       \* the builds and their use: with CPU_THREADS or without, the
                    \* exchanges PPs ask for, and the kinds of words in the CPU
                    \* programs: "plain" without an XJ, "upper" with an XJ at its
                    \* start, "lower" with a later one
    cpuRatio,       \* words a CPU executes in one cpuStep
    Monitors,       \* contexts that run in monitor mode
    Users,          \* contexts that run in program mode
    Packages,       \* addresses of exchange packages
    PpPackages,     \* those the PPs use for MXN
    regMa,          \* user context -> its monitor address
    FirstContext,   \* CPU -> the context it starts with
    FirstPackage    \* package -> the context it starts with

CpuIds == 0 .. (CPUs - 1)
Contexts == Monitors \cup Users

\* Places of the main thread: in ppStep, and in ppOpEXN's wait for another thread.
InPp     == -1
Spinning == -2

ASSUME CpuExchangeAssumption ==
    /\ CPUs \in Nat \ {0} /\ cpuRatio \in Nat \ {0}
    /\ Machines \subseteq [threaded : BOOLEAN,
                           ppOps : SUBSET {"EXN", "MXN", "MAN"},
                           words : SUBSET {"plain", "upper", "lower"}]
    /\ Monitors \cap Users = {}
    /\ PpPackages \subseteq Packages
    /\ regMa \in [Users -> Packages]
    /\ FirstContext \in [CpuIds -> Users]
    /\ FirstPackage \in [Packages -> Contexts]

\* What the operating system arranges: no context is in two places; a user has a monitor
\* address of its own, which no PP uses, and in the package there is a monitor or itself.
ASSUME PackagesAssumption ==
    /\ \A c, d \in CpuIds : c # d => FirstContext[c] # FirstContext[d]
    /\ \A a, b \in Packages : a # b => FirstPackage[a] # FirstPackage[b]
    /\ \A c \in CpuIds, a \in Packages : FirstContext[c] # FirstPackage[a]
    /\ \A u, v \in Users : u # v => regMa[u] # regMa[v]
    /\ \A u \in Users : /\ regMa[u] \notin PpPackages
                         /\ FirstPackage[regMa[u]] \in Monitors \cup {u}

VARIABLES
    machine,        \* the machine it is; it never changes
    main,           \* what the main thread runs: InPp, Spinning, or a CPU
    monitorCpu,     \* the CPU in monitor mode, or -1
    exchangeCpu,    \* the CPU that has to exchange, or -1
    exchangeTo,     \* the package it has to exchange with
    package,        \* package -> the context stored in it
    context,        \* CPU -> its registers
    tmp,            \* CPU -> cpuExchangeJump's tmp
    stopped,        \* CPU -> cpuStopped
    pc,             \* CPU -> where it is in cpuStep
    word,           \* CPU -> opWord
    cpucycle,       \* CPU -> words executed in this cpuStep
    monitor,        \* CPU -> cpOp01's monitor
    addr            \* CPU -> cpOp01's addr

exchangeVars == <<monitorCpu, exchangeCpu, exchangeTo>>
contextVars  == <<package, context, tmp>>
cpuVars      == <<stopped, pc, word, cpucycle, monitor, addr>>
machineVars  == <<machine, main, exchangeVars, contextVars, cpuVars>>

ExchangeInit ==
    /\ machine \in Machines
    /\ main = InPp
    /\ monitorCpu = -1 /\ exchangeCpu = -1 /\ exchangeTo = regMa[FirstContext[0]]
    /\ package = FirstPackage
    /\ context = FirstContext /\ tmp = FirstContext
    /\ stopped = [c \in CpuIds |-> TRUE]
    /\ pc = [c \in CpuIds |-> "top"]
    /\ word \in [CpuIds -> machine.words]
    /\ cpucycle = [c \in CpuIds |-> 0]
    /\ monitor = [c \in CpuIds |-> 0]
    /\ addr = [c \in CpuIds |-> regMa[FirstContext[c]]]

-----------------------------------------------------------------------------
(***************************************************************************)
(* cpuIssueExchange, under exchange_mutex: CPU cp is to exchange with      *)
(* package a (its own MA for mon = 2).  The result is 0, or the reason it  *)
(* cannot be done now.                                                     *)
(***************************************************************************)
IssueResult(mon) ==
    IF mon > 0 /\ monitorCpu # -1 THEN 2
    ELSE IF exchangeCpu # -1 THEN 1
    ELSE 0

Target(cp, a, mon) == IF mon = 2 /\ context[cp] \in Users THEN regMa[context[cp]] ELSE a

\* Mutant: monitor mode is entered though another CPU is in it.
IssueAnyMonitor(cp, a, mon) ==
    IF exchangeCpu # -1
    THEN UNCHANGED exchangeVars
    ELSE /\ exchangeTo' = Target(cp, a, mon)
         /\ monitorCpu' = CASE mon > 0 -> cp [] mon = 0 -> -1 [] OTHER -> monitorCpu
         /\ exchangeCpu' = cp

Issue(cp, a, mon) ==
    IF IssueResult(mon) # 0
    THEN UNCHANGED exchangeVars
    ELSE /\ exchangeTo' = Target(cp, a, mon)
         /\ monitorCpu' = CASE mon > 0 -> cp [] mon = 0 -> -1 [] OTHER -> monitorCpu
         /\ exchangeCpu' = cp

-----------------------------------------------------------------------------
(***************************************************************************)
(* The PPs.  Which package a PP may name is the operating system's rule:   *)
(* one of its own with a monitor context in it for MXN, any for EXN.       *)
(***************************************************************************)
InMainThread(c) == c = 0 \/ ~machine.threaded

\* ppOpEXN asks CPU cp to exchange.  Once it is accepted by a CPU with a thread of its
\* own the main thread spins until it is done; if it is refused for want of monitor mode
\* the instruction is a pass, otherwise it is executed again.
PpExchange(cp, a, mon) ==
    /\ main = InPp
    /\ Issue(cp, a, mon)
    /\ main' = IF IssueResult(mon) = 0 /\ machine.threaded /\ cp # 0 THEN Spinning ELSE 0
    /\ UNCHANGED <<machine, contextVars, cpuVars>>

EXN(cp) == "EXN" \in machine.ppOps /\ \E a \in Packages : PpExchange(cp, a, -1)
MXN(cp) ==
    /\ "MXN" \in machine.ppOps
    /\ \E a \in PpPackages : package[a] \in Monitors /\ PpExchange(cp, a, 1)
MAN(cp) == "MAN" \in machine.ppOps /\ PpExchange(cp, exchangeTo, 2)

\* No PP asks for an exchange in this round of ppStep.
PpNothing ==
    /\ main = InPp
    /\ main' = 0
    /\ UNCHANGED <<machine, exchangeVars, contextVars, cpuVars>>

\* "while (exchangeCpu != -1) ;"
Spin ==
    /\ main = Spinning /\ exchangeCpu = -1
    /\ main' = 0
    /\ UNCHANGED <<machine, exchangeVars, contextVars, cpuVars>>

-----------------------------------------------------------------------------
(***************************************************************************)
(* cpuStep of CPU c.                                                       *)
(***************************************************************************)
Runs(c) == InMainThread(c) => main = c

Goto(c, place) == pc' = [pc EXCEPT ![c] = place]

\* cpuStep returns; the main thread goes on to the next CPU it steps, or to the PPs.
Return(c) ==
    /\ Goto(c, "top")
    /\ cpucycle' = [cpucycle EXCEPT ![c] = 0]
    /\ main' = CASE ~InMainThread(c)               -> main
                 [] InMainThread(c + 1) /\ c + 1 \in CpuIds -> c + 1
                 [] OTHER                          -> InPp

\* A word is done: the next one follows in this step, or the step ends.
NextWord(c) ==
    IF cpucycle[c] + 1 < cpuRatio
    THEN /\ Goto(c, "word")
         /\ cpucycle' = [cpucycle EXCEPT ![c] = @ + 1]
         /\ UNCHANGED main
    ELSE Return(c)

\* Mutant: the look at cpuStopped comes first.
TopStoppedFirst(c) ==
    /\ Runs(c) /\ pc[c] = "top"
    /\ CASE stopped[c]                     -> Return(c)
         [] ~stopped[c] /\ exchangeCpu = c -> Goto(c, "load") /\ UNCHANGED <<main,
                                                                             cpucycle>>
         [] OTHER                          -> Goto(c, "word") /\ UNCHANGED <<main,
                                                                             cpucycle>>
    /\ UNCHANGED <<machine, exchangeVars, contextVars, stopped, word, monitor, addr>>

\* Is an exchange pending?  It comes before the look at cpuStopped.  A step always
\* ends on a word boundary or stopped, so cpuExchangeJump never puts it off.
Top(c) ==
    /\ Runs(c) /\ pc[c] = "top"
    /\ CASE exchangeCpu = c               -> Goto(c, "load") /\ UNCHANGED <<main,
                                                                            cpucycle>>
         [] exchangeCpu # c /\ stopped[c] -> Return(c)
         [] OTHER                         -> Goto(c, "word") /\ UNCHANGED <<main,
                                                                            cpucycle>>
    /\ UNCHANGED <<machine, exchangeVars, contextVars, stopped, word, monitor, addr>>

\* A word without an XJ; the CPU may stop in it.  The next word is fetched.
PlainWord(c) ==
    /\ Runs(c) /\ pc[c] = "word" /\ word[c] = "plain"
    /\ \/ stopped' = [stopped EXCEPT ![c] = TRUE] /\ Return(c) /\ UNCHANGED word
       \/ /\ \E w \in machine.words : word' = [word EXCEPT ![c] = w]
          /\ NextWord(c) /\ UNCHANGED stopped
    /\ UNCHANGED <<machine, exchangeVars, contextVars, monitor, addr>>

\* XJ: does this CPU leave monitor mode or enter it?  The monitor goes to a package
\* with a user context in it.
XJ(c) ==
    /\ Runs(c) /\ pc[c] = "word" /\ word[c] \in {"upper", "lower"}
    /\ IF monitorCpu = c
       THEN /\ monitor' = [monitor EXCEPT ![c] = 0]
            /\ \E a \in Packages :
                   /\ context[c] \in Monitors => package[a] \in Users
                   /\ addr' = [addr EXCEPT ![c] = a]
       ELSE monitor' = [monitor EXCEPT ![c] = 2] /\ UNCHANGED addr
    /\ Goto(c, "issue")
    /\ UNCHANGED <<machine, main, exchangeVars, contextVars, stopped, word, cpucycle>>

\* The request is made.  If it is refused P points back to the XJ: at the start of a
\* word that ends the word, later in it cpuStep's inner loop decodes the XJ again.
XJIssue(c) ==
    /\ Runs(c) /\ pc[c] = "issue"
    /\ Issue(c, addr[c], monitor[c])
    /\ IF IssueResult(monitor[c]) # 0 /\ word[c] = "lower"
       THEN Goto(c, "word") /\ UNCHANGED <<main, cpucycle>>
       ELSE NextWord(c)
    /\ UNCHANGED <<machine, contextVars, stopped, word, monitor, addr>>

(***************************************************************************)
(* cpuExchangeJump.                                                        *)
(***************************************************************************)
\* Mutant: the exchange counts as done before the old context is stored.
LoadDone(c) ==
    /\ pc[c] = "load" /\ Runs(c)
    /\ tmp' = [tmp EXCEPT ![c] = context[c]]
    /\ context' = [context EXCEPT ![c] = package[exchangeTo]]
    /\ exchangeCpu' = -1
    /\ Goto(c, "store")
    /\ UNCHANGED <<machine, main, monitorCpu, exchangeTo, package, stopped, word,
                   cpucycle, monitor,
                   addr>>

\* Save the current context aside and load the new one.
Load(c) ==
    /\ pc[c] = "load" /\ Runs(c)
    /\ tmp' = [tmp EXCEPT ![c] = context[c]]
    /\ context' = [context EXCEPT ![c] = package[exchangeTo]]
    /\ Goto(c, "store")
    /\ UNCHANGED <<machine, main, exchangeVars, package, stopped, word, cpucycle,
                   monitor, addr>>

\* Store the old context.
Store(c) ==
    /\ pc[c] = "store" /\ Runs(c)
    /\ package' = [package EXCEPT ![exchangeTo] = tmp[c]]
    /\ Goto(c, "done")
    /\ UNCHANGED <<machine, main, exchangeVars, context, tmp, stopped, word, cpucycle,
                   monitor, addr>>

\* The exchange is done; another may be asked for.
Done(c) ==
    /\ pc[c] = "done" /\ Runs(c)
    /\ exchangeCpu' = -1
    /\ Goto(c, "activate")
    /\ UNCHANGED <<machine, main, monitorCpu, exchangeTo, contextVars, stopped, word,
                   cpucycle,
                   monitor, addr>>

\* Fetch the first word of the new context.  An idle loop counts as stopped.
ActivateCpu(c) ==
    /\ pc[c] = "activate" /\ Runs(c)
    /\ \E s \in BOOLEAN : stopped' = [stopped EXCEPT ![c] = s]
    /\ \E w \in machine.words : word' = [word EXCEPT ![c] = w]
    /\ IF stopped'[c] THEN Return(c) ELSE Goto(c, "word") /\ UNCHANGED <<main, cpucycle>>
    /\ UNCHANGED <<machine, exchangeVars, contextVars, monitor, addr>>

PpStep == PpNothing \/ Spin \/ \E cp \in CpuIds : EXN(cp) \/ MXN(cp) \/ MAN(cp)
CpuStep(c) == Top(c) \/ PlainWord(c) \/ XJ(c) \/ XJIssue(c)
              \/ Load(c) \/ Store(c) \/ Done(c) \/ ActivateCpu(c)

ExchangeNext == PpStep \/ \E c \in CpuIds : CpuStep(c)

ExchangeSpec == ExchangeInit /\ [][ExchangeNext]_machineVars

\* The host runs every thread.
FairExchangeSpec ==
    ExchangeSpec /\ WF_machineVars(PpStep) /\ \A c \in CpuIds : WF_machineVars(CpuStep(c))

-----------------------------------------------------------------------------
Places == {"top", "word", "issue", "load", "store", "done", "activate"}

\* Every variable stays within its type.
ExchangeTypes ==
    /\ machine \in Machines
    /\ main \in {InPp, Spinning} \cup CpuIds
    /\ monitorCpu \in CpuIds \cup {-1} /\ exchangeCpu \in CpuIds \cup {-1}
    /\ exchangeTo \in Packages
    /\ package \in [Packages -> Contexts]
    /\ context \in [CpuIds -> Contexts] /\ tmp \in [CpuIds -> Contexts]
    /\ stopped \in [CpuIds -> BOOLEAN] /\ pc \in [CpuIds -> Places]
    /\ word \in [CpuIds -> machine.words]
    /\ cpucycle \in [CpuIds -> 0 .. (cpuRatio - 1)]
    /\ monitor \in [CpuIds -> {0, 2}] /\ addr \in [CpuIds -> Packages]

\* A package's context, the old context of a CPU in mid exchange counting as stored.
Stored(a) == IF a = exchangeTo /\ \E c \in CpuIds : pc[c] = "store"
             THEN tmp[CHOOSE c \in CpuIds : pc[c] = "store"]
             ELSE package[a]

\* No exchange, whoever asks for it and whenever, loses a context or makes two of one:
\* no two CPUs and packages ever hold the same context.
ContextsConserved ==
    /\ \A c, d \in CpuIds : c # d => context[c] # context[d]
    /\ \A a, b \in Packages : a # b => Stored(a) # Stored(b)
    /\ \A c \in CpuIds, a \in Packages : context[c] # Stored(a)

\* EXN exchanges whatever it is told, and leaves the mode as it was.
HasMonitor == "EXN" \notin machine.ppOps

\* "Another CPU is currently in monitor mode": monitor code, which the operating system
\* relies on to run alone, never runs on two CPUs at once, from the moment its
\* registers are loaded to the moment they are swapped out.
MonitorAlone ==
    HasMonitor => \A c, d \in CpuIds :
        context[c] \in Monitors /\ context[d] \in Monitors => c = d

\* The mode flag and the code agree: monitorCpu is set when the exchange is asked for, and
\* a CPU asked to exchange has not done so yet; otherwise the CPU in monitor mode is the
\* one that runs a monitor context.  XJ decides by the flag which way it goes.
ModeMatches ==
    HasMonitor => \A c \in CpuIds :
        exchangeCpu # c => (monitorCpu = c <=> context[c] \in Monitors)

\* No context is lost, and the mode flag is right.
ExchangeSafe == ExchangeTypes /\ ContextsConserved /\ ModeMatches

\* An exchange that was accepted is carried out, so that neither the PP that spins nor
\* the CPUs that retry wait for ever.
IssuedIsDone == \A c \in CpuIds : exchangeCpu = c ~> exchangeCpu = -1
=============================================================================
