--------------------------- MODULE MCCpuExchange ---------------------------
(* CpuExchange with two CPUs, a monitor context for each, and one for PPs. *)
EXTENDS CpuExchange, TLC

CONSTANTS mon0, mon1, monPp, user0, user1, home0, home1, ppXp

MCMonitors == {mon0, mon1, monPp}
MCUsers == {user0, user1}
MCPackages == {home0, home1, ppXp}
MCPpPackages == {ppXp}
MCRegMa == (user0 :> home0) @@ (user1 :> home1)
MCFirstContext == (0 :> user0) @@ (1 :> user1)
MCFirstPackage == (home0 :> mon0) @@ (home1 :> mon1) @@ (ppXp :> monPp)

\* With CEJ/MEJ, in one thread or several, and without, where PPs exchange by EXN.
Monitored(threaded, xj) ==
    [threaded |-> threaded, ppOps |-> {"MXN", "MAN"}, words |-> {"plain", xj}]
Plain(threaded) ==
    [threaded |-> threaded, ppOps |-> {"EXN"}, words |-> {"plain"}]

MCMachines == {Monitored(b, "upper") : b \in BOOLEAN} \cup {Plain(b) : b \in BOOLEAN}
MCLowerXJ == {Monitored(TRUE, "lower")}
=============================================================================
