---------------------------- MODULE MCPpChannel ----------------------------
(***************************************************************************)
(* Two machines.  Two PPs, of which one is started and loads the other,    *)
(* exchange words over a channel without a device.  One PP with three      *)
(* cells of memory faces a device that does whatever it likes.             *)
(***************************************************************************)
EXTENDS PpChannel

TwoPps ==
    [pps |-> 2, running |-> {0}, memSize |-> 1, aMod |-> 3, replies |-> {},
     maxWords |-> 5, maxSessions |-> 3]

OneDevice ==
    [pps |-> 1, running |-> {0}, memSize |-> 3, aMod |-> 4,
     replies |-> {"in", "out", "processed", "declined"}, maxWords |-> 3, maxSessions |-> 2]

MCSetups == {TwoPps, OneDevice}
=============================================================================
