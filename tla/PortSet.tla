------------------------------ MODULE PortSet -------------------------------
(***************************************************************************)
(* A NetPortSet (dtnetsubs.c): the vector portVec of the connections of    *)
(* one server, and their number curPorts.  dtNewFet fills a slot on the    *)
(* thread that accepts, dtClose clears it on the thread that closes, the   *)
(* connection callback for a new FET comes from the FET's data thread, and *)
(* no lock is held.  What happens to one FET's memory is in FetLife.       *)
(***************************************************************************)
EXTENDS Integers, FiniteSets

CONSTANTS
    Fets,           \* the FETs there can be at one time
    None,           \* an empty slot (NULL)
    MaxPorts,       \* ps->maxPorts
    Servers,        \* the kinds of server: who calls dtNewFet, "listen" (dtThread)
                    \* or "main" (sockOp); who calls dtClose, "main" or "data"
                    \* (console.c, pni.c); may a FET be a listen FET (dtBind)?
    MaxDrift        \* bound: how far off curPorts may be when a FET is made

ASSUME PortSetAssumption ==
    /\ None \notin Fets
    /\ MaxPorts \in Nat \ {0}
    /\ Servers \subseteq [accepter : {"listen", "main"}, closer : {"main", "data"},
                          listens : BOOLEAN]
    /\ MaxDrift \in Nat

Slots == 0 .. (MaxPorts - 1)

VARIABLES
    server,         \* the server whose portset this is; it never changes
    portVec,        \* ps->portVec
    curPorts,       \* ps->curPorts
    npc,            \* where the accepting thread is in dtNewFet
    new,            \* the FET it makes
    psi,            \* its psi
    nread,          \* its copy of curPorts, in the middle of curPorts++
    fpc,            \* per FET: "free", "opening", "open", or where its dtClose is
    psIndex,        \* fet->psIndex
    listen,         \* fet->listen
    cread,          \* per FET: dtClose's copy of curPorts, in curPorts--
    up,             \* per slot: has its owner seen an open and no close since?
    miss            \* did a callback come out of order? (history)

newVars == <<npc, new, psi, nread>>
slotVars == <<fpc, psIndex, listen, cread>>
seen    == <<up, miss, server>>
portSetVars == <<portVec, curPorts, newVars, slotVars, seen>>

PortSetInit ==
    /\ server \in Servers
    /\ portVec = [s \in Slots |-> None]
    /\ curPorts = 0
    /\ npc = "idle" /\ new = None /\ psi = 0 /\ nread = 0
    /\ fpc = [f \in Fets |-> "free"]
    /\ psIndex = [f \in Fets |-> 0]
    /\ listen = [f \in Fets |-> FALSE]
    /\ cread = [f \in Fets |-> 0]
    /\ up = [s \in Slots |-> FALSE] /\ miss = FALSE

InClose == {"dec", "decStore", "callback", "clear"}

\* The main thread is in one call at a time, also where it both accepts and closes.
MainFree ==
    /\ server.closer = "main" => \A f \in Fets : fpc[f] \notin InClose
    /\ (server.accepter = "main" /\ server.closer = "main") => npc = "idle"

-----------------------------------------------------------------------------
(***************************************************************************)
(* dtNewFet.                                                               *)
(***************************************************************************)
Enter ==
    /\ npc = "idle" /\ (server.accepter = "main" => MainFree)
    /\ curPorts \in -MaxDrift .. MaxPorts + MaxDrift
    /\ \E f \in Fets : fpc[f] = "free" /\ new' = f
    /\ psi' = 0 /\ npc' = "search"
    /\ UNCHANGED <<portVec, curPorts, nread, slotVars, seen>>

\* Mutant: a full vector is not noticed.
SearchPastEnd ==
    /\ npc = "search"
    /\ \/ psi = MaxPorts /\ npc' = "store" /\ UNCHANGED psi
       \/ psi < MaxPorts /\ portVec[psi] = None /\ npc' = "store" /\ UNCHANGED psi
       \/ psi < MaxPorts /\ portVec[psi] # None /\ psi' = psi + 1 /\ UNCHANGED npc
    /\ UNCHANGED <<portVec, curPorts, new, nread, slotVars, seen>>

\* "Find an empty slot in the portVec", one look at a slot per step.
Search ==
    /\ npc = "search"
    /\ \/ psi = MaxPorts /\ npc' = "idle" /\ UNCHANGED psi
       \/ psi < MaxPorts /\ portVec[psi] = None /\ npc' = "store" /\ UNCHANGED psi
       \/ psi < MaxPorts /\ portVec[psi] # None /\ psi' = psi + 1 /\ UNCHANGED npc
    /\ UNCHANGED <<portVec, curPorts, new, nread, slotVars, seen>>

Store ==
    /\ npc = "store"
    /\ portVec' = [portVec EXCEPT ![psi] = new]
    /\ psIndex' = [psIndex EXCEPT ![new] = psi]
    /\ \E l \in BOOLEAN :
          /\ l => server.listens
          /\ listen' = [listen EXCEPT ![new] = l]
          /\ IF l THEN npc' = "start" ELSE npc' = "inc"
    /\ UNCHANGED <<curPorts, new, psi, nread, fpc, cread, seen>>

\* ps->curPorts++, a load and a store.
Inc ==
    /\ npc = "inc" /\ nread' = curPorts /\ npc' = "incStore"
    /\ UNCHANGED <<portVec, curPorts, new, psi, slotVars, seen>>

IncStore ==
    /\ npc = "incStore" /\ curPorts' = nread + 1 /\ npc' = "start"
    /\ UNCHANGED <<portVec, new, psi, nread, slotVars, seen>>

\* The threads are created.  A listen FET has none and is open at once.
Start ==
    /\ npc = "start"
    /\ fpc' = [fpc EXCEPT ![new] = IF listen[new] THEN "open" ELSE "opening"]
    /\ npc' = "idle"
    /\ UNCHANGED <<portVec, curPorts, new, psi, nread, psIndex, listen, cread, seen>>

\* The data thread's callback for the new connection (dtActivateFet2).
Activate(f) ==
    /\ fpc[f] = "opening"
    /\ fpc' = [fpc EXCEPT ![f] = "open"]
    /\ up' = [up EXCEPT ![psIndex[f]] = TRUE]
    /\ miss' = (miss \/ up[psIndex[f]])
    /\ UNCHANGED <<portVec, curPorts, newVars, psIndex, listen, cread, server>>

-----------------------------------------------------------------------------
(***************************************************************************)
(* dtClose.                                                                *)
(***************************************************************************)
Close(f) ==
    /\ fpc[f] = "open" /\ MainFree
    /\ fpc' = [fpc EXCEPT ![f] = "dec"]
    /\ UNCHANGED <<portVec, curPorts, newVars, psIndex, listen, cread, seen>>

\* ps->curPorts--, for whatever kind of FET.
Dec(f) ==
    /\ fpc[f] = "dec"
    /\ fpc' = [fpc EXCEPT ![f] = "decStore"]
    /\ cread' = [cread EXCEPT ![f] = curPorts]
    /\ UNCHANGED <<portVec, curPorts, newVars, psIndex, listen, seen>>

DecStore(f) ==
    /\ fpc[f] = "decStore"
    /\ fpc' = [fpc EXCEPT ![f] = "callback"]
    /\ curPorts' = cread[f] - 1
    /\ UNCHANGED <<portVec, newVars, psIndex, listen, cread, seen>>

Callback(f) ==
    /\ fpc[f] = "callback"
    /\ fpc' = [fpc EXCEPT ![f] = "clear"]
    /\ up' = [up EXCEPT ![psIndex[f]] = FALSE]
    /\ miss' = (miss \/ (~listen[f] /\ ~up[psIndex[f]]))
    /\ UNCHANGED <<portVec, curPorts, newVars, psIndex, listen, cread, server>>

Clear(f) ==
    /\ fpc[f] = "clear"
    /\ fpc' = [fpc EXCEPT ![f] = "free"]
    /\ portVec' = [portVec EXCEPT ![psIndex[f]] = None]
    /\ UNCHANGED <<curPorts, newVars, psIndex, listen, cread, seen>>

dtNewFet == Enter \/ Search \/ Store \/ Inc \/ IncStore \/ Start

dtCloseSlot(f) == Close(f) \/ Dec(f) \/ DecStore(f) \/ Callback(f) \/ Clear(f)

PortSetNext == dtNewFet \/ \E f \in Fets : Activate(f) \/ dtCloseSlot(f)

PortSetSpec == PortSetInit /\ [][PortSetNext]_portSetVars

-----------------------------------------------------------------------------
\* The FETs that have a slot: made by dtNewFet and not yet let go by dtClose.
Held == {f \in Fets : fpc[f] # "free"}
        \cup (IF npc \in {"inc", "incStore", "start"} THEN {new} ELSE {})

\* Every variable stays within its type.
PortSetTypes ==
    /\ server \in Servers
    /\ portVec \in [Slots -> Fets \cup {None}]
    /\ curPorts \in Int
    /\ npc \in {"idle", "search", "store", "inc", "incStore", "start"}
    /\ new \in Fets \cup {None} /\ psi \in 0 .. MaxPorts /\ nread \in Int
    /\ fpc \in [Fets -> {"free", "opening", "open"} \cup InClose]
    /\ psIndex \in [Fets -> Slots] /\ listen \in [Fets -> BOOLEAN]
    /\ cread \in [Fets -> Int]
    /\ up \in [Slots -> BOOLEAN] /\ miss \in BOOLEAN

\* portVec and the FETs agree although one thread fills slots while another clears
\* them: no slot is given away twice, and none stays taken for nobody.
SlotsAgree ==
    /\ \A f \in Held : portVec[psIndex[f]] = f
    /\ \A s \in Slots : portVec[s] # None => portVec[s] \in Held /\ psIndex[portVec[s]] = s

\* On each port its owner sees open and close in turn, although the open comes from
\* a data thread: niuWelcome and pniWelcome keep one login state per port.
CallbacksAlternate == ~miss

\* The slots and their owners' callbacks, in one invariant.
SlotsSafe == PortSetTypes /\ SlotsAgree /\ CallbacksAlternate

\* dtClose counts before its callback "so the callback function has the correct
\* number of open connections".
CountInCallback ==
    \A f \in Fets : fpc[f] = "callback" /\ npc \notin {"inc", "incStore"} =>
        curPorts = Cardinality({g \in Held : ~listen[g] /\ fpc[g] \notin {"callback", "clear"}})
=============================================================================
