----------------------------- MODULE MCPortSet ------------------------------
(***************************************************************************)
(* PortSet with three FETs for two slots, so that connections are refused  *)
(* and slots used again.  FETs are alike.  MCServers are niu.c and         *)
(* operator.c, console.c and pni.c, and ext.c.                             *)
(***************************************************************************)
EXTENDS PortSet, TLC

MCServers ==
    {[accepter |-> "listen", closer |-> "main", listens |-> FALSE],
     [accepter |-> "listen", closer |-> "data", listens |-> FALSE],
     [accepter |-> "main", closer |-> "main", listens |-> TRUE]}

Alike == Permutations(Fets)
=============================================================================
