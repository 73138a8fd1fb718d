------------------------------- MODULE MCNiu -------------------------------
(* The network interface unit for TLC. *)
EXTENDS Niu

Setting(u, b, cases) == [users |-> u, beats |-> b, cases |-> cases]

\* Two users; one with stray bytes and frames of several words; the alert box, where PLATO
\* comes back and where files do not open.
SomeSettings ==
    {Setting(2, 0, {}), Setting(1, 0, {"stray", "frames"}), Setting(0, 3, {"restart"}),
     Setting(0, 2, {"nofile"})}

\* PLATO comes back after a shutdown or a crash.
Restarted == {Setting(0, 2, {"restart"})}
=============================================================================
