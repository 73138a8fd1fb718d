----------------------------- MODULE ByteQueue ------------------------------
(***************************************************************************)
(* What either ring of a NetFet promises its two threads: a bounded queue  *)
(* of bytes.  Bytes leave in the order in which they came, each of them    *)
(* once, and at most Capacity of them wait (the ring's size less the byte  *)
(* it never uses).  A byte is its serial number.                           *)
(***************************************************************************)
EXTENDS Integers, Sequences

CONSTANT Capacity               \* a natural number of bytes

VARIABLES
    queue,          \* the waiting bytes, oldest first
    stored          \* how many bytes were ever put in

Init == queue = <<>> /\ stored = 0

\* The producer stores n bytes at once.
Put(n) ==
    /\ Len(queue) + n <= Capacity
    /\ queue' = queue \o [i \in 1 .. n |-> stored + i]
    /\ stored' = stored + n

\* The consumer takes the n oldest bytes.
Take(n) ==
    /\ queue' = SubSeq(queue, n + 1, Len(queue))
    /\ UNCHANGED stored

Next ==
    \/ \E n \in 1 .. Capacity : Put(n)
    \/ \E n \in 1 .. Len(queue) : Take(n)

Spec == Init /\ [][Next]_<<queue, stored>>
=============================================================================
