----------------------------- MODULE MCConsole -----------------------------
(* The console for TLC. *)
EXTENDS Console

Setting(items, keys, port, mode, functions, keyed) ==
    [items |-> items, keys |-> keys, port |-> port, mode |-> mode, functions |-> functions,
     date |-> keyed]

(* A display without typing, connections that come and go, typing with little *)
(* display, the automatic date.                                               *)
SomeSettings ==
    {Setting(5, 0, 2, 0, {"display", "keyin"}, <<>>),
     Setting(2, 1, 4, 0, {"display", "keyin"}, <<>>),
     Setting(3, 3, 0, 1, {"keyin"}, <<>>),
     Setting(6, 0, 0, 0, {"display", "keyin"}, <<1, 2>>)}

TwoTypists == {Setting(3, 4, 0, 0, {"keyin"}, <<>>)}
=============================================================================
