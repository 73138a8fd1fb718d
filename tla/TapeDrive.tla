----------------------------- MODULE TapeDrive -----------------------------
(***************************************************************************)
(* What a PP may expect of tape drives: a reel is a sequence of blocks, a   *)
(* tape mark is the block <<>>.  Every operation moves by whole blocks, and *)
(* writing makes the block just written the last one of the reel.          *)
(* Words are the data; a status is the set of conditions reported.         *)
(*                                                                         *)
(* There are two ways for a unit to get lost: forward from the last block   *)
(* when the rest of an older recording lies behind it, and a reposition     *)
(* over a padded block.  Then nothing is promised until a rewind, but that   *)
(* the other units stay as they are, and the blocks of the reel until a     *)
(* write.                                                                  *)
(***************************************************************************)
EXTENDS Naturals, Sequences

CONSTANTS Units, Words

VARIABLES
    mounted,   \* units with a reel
    reel,      \* the blocks of the reel on each unit
    pos,       \* blocks behind the head
    status,    \* conditions of the last operation
    buffer,    \* words of a block being read that the PP has not taken yet
    padded,    \* units on whose reel blocks may be padded
    older,     \* units on whose reel the rest of an older recording follows
    lost       \* units whose head is not between two blocks

vars == <<mounted, reel, pos, status, buffer, padded, older, lost>>

Block == Seq(Words)

Mark(block) == IF block = <<>> THEN {"tapemark"} ELSE {}

(* What a motion may change. *)
Moves(u) ==
    /\ UNCHANGED <<mounted, padded, older>>
    /\ \A v \in Units \ {u} : status'[v] = status[v]
    /\ UNCHANGED reel
    /\ \A v \in Units \ {u} : pos'[v] = pos[v]
    /\ lost' \ {u} = lost \ {u}

(* Forward over the next block, to read it or to pass it. *)
Forward(u) ==
    /\ pos[u] < Len(reel[u])
    /\ pos'[u] = pos[u] + 1
    /\ LET block == reel[u][pos[u] + 1]
       IN  status'[u] = Mark(block) /\ buffer' \in {<<>>, block}

(* Forward from the end of all that is recorded, or without a reel. *)
EndOfTape(u) ==
    /\ buffer' = <<>>
    /\ status'[u] = IF pos[u] = 0 THEN {} ELSE {"eot"}
    /\ pos[u] = Len(reel[u]) /\ u \notin older
    /\ pos'[u] = pos[u]

(* Backward over the block behind the head.  The words of a block read backward come after a *)
(* word that is none of them, and the first one of the block does not come.                 *)
Backward(u) ==
    /\ pos[u] > 0
    /\ pos'[u] = pos[u] - 1
    /\ LET block == reel[u][pos[u]]
       IN  /\ status'[u] = Mark(block) \cup (IF pos[u] = 1 THEN {"loadpoint"} ELSE {})
           /\ buffer' \in Block
           /\ \/ buffer' = <<>>
              \/ /\ Len(buffer') = Len(block)
                 /\ \A i \in 2..Len(block) : buffer'[i] = block[Len(block) + 2 - i]

AtLoadPoint(u) ==
    /\ buffer' = <<>>
    /\ status'[u] = IF u \in mounted THEN {"loadpoint"} ELSE {}
    /\ pos[u] = 0 /\ pos'[u] = 0

(* A write is announced before its data comes: the conditions are cleared.  A write announced *)
(* to a unit and given to another one that may not be written only clears its load point.    *)
Announce(u) ==
    /\ status'[u] \in {{}, status[u] \ {"loadpoint"}}
    /\ UNCHANGED <<buffer, pos>>

(* The motions of a unit that is not lost. *)
Known(u) ==
    /\ u \notin lost /\ u \notin lost'
    /\ Forward(u) \/ EndOfTape(u) \/ Backward(u) \/ AtLoadPoint(u) \/ Announce(u)

Rewind(u) ==
    /\ u \in mounted /\ u \notin lost'
    /\ status'[u] = {"loadpoint"}
    /\ UNCHANGED buffer
    /\ pos'[u] = 0

(* Rewind and read the first block. *)
RewindRead(u) ==
    /\ u \in mounted /\ u \notin lost'
    /\ IF reel[u] = <<>>
       THEN u \notin older /\ buffer' = <<>> /\ status'[u] = {} /\ pos'[u] = 0
       ELSE buffer' = reel[u][1] /\ status'[u] = Mark(buffer') /\ pos'[u] = 1

GetsLost(u) ==
    /\ u \in mounted /\ u \in lost'
    /\ \/ u \in older /\ (pos[u] = Len(reel[u]) \/ reel[u] = <<>>)
       \/ u \in padded /\ pos[u] > 0 /\ UNCHANGED buffer

(* A lost unit stays lost or comes to the load point. *)
Wander(u) ==
    /\ u \in lost
    /\ u \in lost' \/ (pos'[u] = 0 /\ "loadpoint" \in status'[u])

(* The blocks behind the head, and one more; on a lost unit any may be spoilt. *)
Write(u) ==
    /\ u \in mounted
    /\ UNCHANGED <<mounted, buffer, padded, lost>>
    /\ older' \ {u} = older \ {u}
    /\ reel'[u] \in Seq(Block)
    /\ \A v \in Units \ {u} : reel'[v] = reel[v] /\ pos'[v] = pos[v] /\ status'[v] = status[v]
    /\ u \notin lost =>
          /\ Len(reel'[u]) = pos[u] + 1 /\ pos'[u] = pos[u] + 1
          /\ SubSeq(reel'[u], 1, pos[u]) = SubSeq(reel[u], 1, pos[u])
          /\ status'[u] = IF reel'[u][pos'[u]] = <<>> THEN {"tapemark"}
                                                     ELSE status[u] \ {"loadpoint"}

TakeWord ==
    /\ buffer # <<>>
    /\ buffer' = Tail(buffer)
    /\ UNCHANGED <<mounted, status, reel, pos, padded, older, lost>>

StopReading == buffer' = <<>> /\ UNCHANGED <<mounted, status, reel, pos, padded, older, lost>>

(* The operator puts a reel on a unit that has none; the PP unloads it. *)
Mount(u) ==
    /\ u \notin mounted
    /\ mounted' = mounted \cup {u}
    /\ status' = [status EXCEPT ![u] = {"loadpoint"}]
    /\ UNCHANGED <<pos, buffer, older, lost>>
    /\ padded' \ {u} = padded
    /\ reel'[u] \in Seq(Block)
    /\ \A v \in Units \ {u} : reel'[v] = reel[v]

Unmount(u) ==
    /\ mounted' # mounted /\ mounted' = mounted \ {u}
    /\ padded' = padded \ {u} /\ older' = older \ {u} /\ lost' = lost \ {u}
    /\ status' = [status EXCEPT ![u] = {}]
    /\ UNCHANGED buffer
    /\ reel' = [reel EXCEPT ![u] = <<>>]
    /\ pos' = [pos EXCEPT ![u] = 0]

Init ==
    /\ mounted \subseteq Units /\ padded \subseteq mounted /\ older = {} /\ lost = {}
    /\ reel \in [Units -> Seq(Block)]
    /\ pos = [u \in Units |-> 0]
    /\ status = [u \in Units |-> IF u \in mounted THEN {"loadpoint"} ELSE {}]
    /\ buffer = <<>>

Motion(u) == Moves(u) /\ (Known(u) \/ Rewind(u) \/ RewindRead(u) \/ GetsLost(u) \/ Wander(u))

Next == \/ TakeWord \/ StopReading
        \/ \E u \in Units : Motion(u) \/ Write(u) \/ Mount(u) \/ Unmount(u)

Spec == Init /\ [][Next]_vars
=============================================================================
