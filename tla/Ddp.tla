-------------------------------- MODULE Ddp --------------------------------
(***************************************************************************)
(* The distributive data path (ddp.c): a device by which a PP reads and    *)
(* writes ECS over a channel, cell by cell, and works its flag register.   *)
(* A function is followed by an address of two cells and then by data, as  *)
(* long as the PP cares; the status tells how the last word fared.         *)
(*                                                                         *)
(* The PP and its channel are what PpChannel makes of them: a PP puts a    *)
(* cell when the channel is empty, takes one when it is full, and the      *)
(* channel is dropped behind a cell that is marked as the last one.  The   *)
(* 20 cycles between an address and the first cell are any time at all.    *)
(***************************************************************************)
EXTENDS Ecs, Sequences

CONSTANTS
    CellBits,       \* bits of a cell (12)
    CellsPerWord    \* cells of a word (5)

VARIABLES
    chActive, chFull, chData,   \* the channel
    discAfterInput,
    selected,       \* the DDP is its I/O device
    fcode,          \* the function: "none", "read", "write" or "status"
    addr, abyte,    \* address, and cells of it that have come
    curword, dbyte, \* cells of the word under way, and how many; -1 when there is none
    stat,           \* "accept" or "abort"
    sent, got,      \* cells of data put and taken since the function (history)
    first           \* the address as it came (history)

channelVars == <<chActive, chFull, chData, discAfterInput, selected>>
deviceVars == <<fcode, addr, abyte, curword, dbyte, stat>>
ddpHistory == <<sent, got, first>>
ddpVars == <<channelVars, deviceVars, ddpHistory>>

Cells == 2^CellBits
Zero == [i \in 1 .. CellsPerWord |-> 0]

\* A word as its cells, the upper end first, and back.
ToCells(w) == [i \in 1 .. CellsPerWord |-> (w \div 2^(CellBits * (CellsPerWord - i))) % Cells]
OfCells(cs) ==
    MapThenSumSet(LAMBDA i : cs[i] * 2^(CellBits * (CellsPerWord - i)), 1 .. CellsPerWord)

Shift(cs, c) == Append(Tail(cs), c)

ReadOne(a) == Function(a) % 2 = 1

DdpInit ==
    /\ chActive = FALSE /\ chFull = FALSE /\ chData = 0 /\ discAfterInput = FALSE
    /\ selected = FALSE
    /\ fcode = "none" /\ addr = 0 /\ abyte = 0 /\ curword = Zero /\ dbyte = 0
    /\ stat = "accept" /\ sent = <<>> /\ got = <<>> /\ first = -1

-----------------------------------------------------------------------------
(* The PP: functions on an inactive channel, then data.                     *)

EcsUnchanged == UNCHANGED <<ecs, ecsFlagRegister>>

\* ddpFunc: a transfer begins anew, with what is left in curword and with a channel that may
\* still be marked to be dropped; or the status is asked for.
DdpFunction(code) ==
    /\ ~chActive
    /\ fcode' = code /\ abyte' = 0 /\ dbyte' = 0 /\ addr' = 0
    /\ selected' = TRUE /\ chFull' = FALSE
    /\ sent' = <<>> /\ got' = <<>> /\ first' = -1
    /\ UNCHANGED <<chActive, chData, discAfterInput, curword, stat>> /\ EcsUnchanged

MasterClear ==
    /\ ~chActive
    /\ fcode' = "none" /\ stat' = "accept" /\ chFull' = FALSE
    /\ UNCHANGED <<chActive, chData, discAfterInput, selected, addr, abyte, curword, dbyte,
                   ddpHistory>> /\ EcsUnchanged

PpActivates ==
    /\ ~chActive /\ selected
    /\ chActive' = TRUE
    /\ UNCHANGED <<chFull, chData, discAfterInput, selected, deviceVars, ddpHistory>>
    /\ EcsUnchanged

PpPuts(c) ==
    /\ chActive /\ ~chFull /\ (fcode = "write" \/ (fcode = "read" /\ abyte < 2))
    /\ chFull' = TRUE /\ chData' = c
    /\ UNCHANGED <<chActive, discAfterInput, selected, deviceVars, ddpHistory>>
    /\ EcsUnchanged

\* Behind a cell that is marked the channel is dropped and the device with it.
PpTakes ==
    /\ chActive /\ chFull /\ fcode # "write" /\ (fcode = "read" => abyte = 2)
    /\ chFull' = FALSE
    /\ got' = Append(got, chData)
    /\ chActive' = ~discAfterInput /\ selected' = ~discAfterInput /\ discAfterInput' = FALSE
    /\ UNCHANGED <<chData, deviceVars, sent, first>> /\ EcsUnchanged

PpDisconnects ==
    /\ chActive
    /\ chActive' = FALSE
    /\ UNCHANGED <<chFull, chData, discAfterInput, selected, deviceVars, ddpHistory>>
    /\ EcsUnchanged

-----------------------------------------------------------------------------
(* ddpIo. *)

GiveStatus ==
    /\ fcode = "status" /\ ~chFull
    /\ chFull' = TRUE /\ chData' = (IF stat = "accept" THEN 2 ELSE 1)
    /\ fcode' = "none"
    /\ UNCHANGED <<chActive, discAfterInput, selected, addr, abyte, curword, dbyte, stat, ddpHistory,
                   ecs, ecsFlagRegister>>

\* A cell of the address.  A read whose address is complete is a flag reference or waits for
\* its first word.
TakeAddress ==
    LET a == addr * Cells + chData
        complete == abyte = 1
        flag == complete /\ fcode = "read" /\ FlagReference(a)
        f == FlagFunction(ecsFlagRegister, a)
    IN  /\ fcode \in {"read", "write"} /\ abyte < 2 /\ chFull
        /\ addr' = a /\ abyte' = abyte + 1 /\ chFull' = FALSE
        /\ first' = IF complete THEN a ELSE first
        /\ IF flag
           THEN /\ ecsFlagRegister' = f.flags
                /\ stat' = IF f.ok THEN "accept" ELSE "abort"
                /\ discAfterInput' = (discAfterInput \/ ~f.ok)
                /\ dbyte' = 0 /\ curword' = Zero
           ELSE /\ dbyte' = IF complete /\ fcode = "read" THEN -1 ELSE dbyte
                /\ UNCHANGED <<ecsFlagRegister, stat, discAfterInput, curword>>
        /\ UNCHANGED <<chActive, chData, selected, fcode, sent, got, ecs>>

\* A cell for the PP, the first of a word when there is none under way.  After an abort it is
\* whatever curword holds.
GiveCell ==
    LET fetch == dbyte = -1
        ok == addr < EcsSize
        w == IF fetch /\ ok THEN ToCells(ecs[addr]) ELSE curword
        n == (IF fetch THEN 0 ELSE dbyte) + 1
        whole == n = CellsPerWord
    IN  /\ fcode = "read" /\ abyte = 2 /\ ~chFull
        /\ stat' = IF ~fetch THEN stat ELSE IF ok THEN "accept" ELSE "abort"
        /\ chData' = w[1] /\ chFull' = TRUE
        /\ curword' = Shift(w, 0)
        /\ dbyte' = IF whole THEN -1 ELSE n
        /\ addr' = IF whole THEN addr + 1 ELSE addr
        /\ discAfterInput' = \/ discAfterInput \/ (fetch /\ ~ok)
                             \/ (whole /\ (ReadOne(addr) \/ FlagReference(addr)))
        /\ UNCHANGED <<chActive, selected, fcode, abyte, ddpHistory, ecs, ecsFlagRegister>>

\* A cell from the PP; the last one of a word writes it, or drops the channel: a PP that is
\* still putting cells then drops the device.
TakeCell ==
    LET w == Shift(curword, chData)
        whole == dbyte + 1 = CellsPerWord
        abort == whole /\ addr >= EcsSize
    IN  /\ fcode = "write" /\ abyte = 2 /\ chFull
        /\ curword' = w /\ chFull' = FALSE /\ sent' = Append(sent, chData)
        /\ stat' = IF abort THEN "abort" ELSE "accept"
        /\ chActive' = ~abort /\ selected' \in {TRUE, ~abort}
        /\ dbyte' = IF abort \/ ~whole THEN dbyte + 1 ELSE 0
        /\ ecs' = IF whole /\ ~abort THEN [ecs EXCEPT ![addr] = OfCells(w)] ELSE ecs
        /\ addr' = IF whole /\ ~abort THEN addr + 1 ELSE addr
        /\ UNCHANGED <<chData, discAfterInput, fcode, abyte, got, first, ecsFlagRegister>>

\* Called while the channel is active with the DDP as its I/O device.
ddpIo == chActive /\ selected /\ (GiveStatus \/ TakeAddress \/ GiveCell \/ TakeCell)

-----------------------------------------------------------------------------
\* Every variable stays within its type.
DdpTypeOK ==
    /\ chActive \in BOOLEAN /\ chFull \in BOOLEAN /\ chData \in 0 .. (Cells - 1)
    /\ discAfterInput \in BOOLEAN /\ selected \in BOOLEAN
    /\ fcode \in {"none", "read", "write", "status"}
    /\ addr \in Nat /\ abyte \in 0 .. 2 /\ curword \in [1 .. CellsPerWord -> 0 .. (Cells - 1)]
    /\ dbyte \in Nat \cup {-1} /\ stat \in {"accept", "abort"}
    /\ first \in -1 .. (2^EcsBits - 1)

Words(cells) == Len(cells) \div CellsPerWord
WordAt(cells, k) == [i \in 1 .. CellsPerWord |-> cells[k * CellsPerWord + i]]

\* Words cross the DDP whole, in order and at their addresses, however the PP leaves off and
\* begins again: what was written is what the PP sent, and what it got is what ECS holds, but
\* for one cell after an abort.
DdpExact ==
    /\ \A k \in 0 .. (Words(sent) - 1) :
          first + k < EcsSize => ecs[first + k] = OfCells(WordAt(sent, k))
    /\ fcode = "read" /\ first # -1 /\ ~FlagReference(first) =>
          \A n \in 1 .. Len(got) :
             LET k == (n - 1) \div CellsPerWord
             IN  IF first + k < EcsSize
                 THEN got[n] = ToCells(ecs[first + k])[((n - 1) % CellsPerWord) + 1]
                 ELSE n = Len(got) /\ n % CellsPerWord = 1 /\ stat = "abort" /\ ~chActive
=============================================================================
