------------------------------- MODULE Dd8xx -------------------------------
(***************************************************************************)
(* The 844 and 885 disks of one controller (src/dd8xx.c) and their files    *)
(* (src/dtdisksubs.c, whose transfers are synchronous in every build).      *)
(*                                                                         *)
(* A container is a function from sector addresses to blocks of words; how  *)
(* words lie in it (classic or packed) is left out, except that a new one   *)
(* is classic and one the operator loads is packed.  Containers have their  *)
(* full size.  Status words are not modelled beyond what status says.       *)
(*                                                                         *)
(* A function that comes with an address is one step with its words.        *)
(*                                                                         *)
(* The PP keeps the rules of the decks' drivers: it connects a drive before *)
(* it seeks on it; it transfers on a drive that is there, after a seek that *)
(* was not refused; it seeks again before it transfers when it cut off the  *)
(* transfer before, and so after functions that do not move the position;   *)
(* flaws are set on classic containers.  The operator does not unload a     *)
(* drive in the midst of a transfer.                                        *)
(***************************************************************************)
EXTENDS Integers, Sequences

CONSTANTS
    Units,          \* numbers of the drives
    Type885,        \* those that are 885s
    Cylinders, Tracks, Sectors,
    SectorSize,     \* words of a sector
    FirstWords,     \* what the first word of a sector may be
    Plans           \* what the PP and the operator do: drives with a container, loaded later, addresses
                    \* and steps of seeks, and number of transfers

VARIABLES
    opened, classic, readonly,      \* sets of drives
    container,                      \* drive -> its file
    place,                          \* drive -> cylinder, track and sector (c, t, s)
    interlace, bufPtr, buffer, pos, \* DiskParam and its ioDesc
    selectedUnit, status, fcode, recordLength,    \* activeDevice
    content,        \* drive -> what the PP wrote, by address (history)
    at,             \* drive -> where the PP takes it to be
    asked,          \* drive -> interlace of the PP's last seek
    fresh,          \* drives whose next transfer may start without a seek
    sent,           \* words of the block that is being written
    plan            \* what is left of the plan

files == <<opened, classic, readonly, container, content>>
position == <<place, interlace, bufPtr, buffer, pos>>
mind == <<at, asked, fresh>>
diskVars == <<files, position, selectedUnit, status, fcode, recordLength, mind, sent, plan>>

NoUnit == -1
Null == -1
Place == [c : 0 .. Cylinders, t : 0 .. Tracks, s : 0 .. Sectors]
At(c, t, s) == [c |-> c, t |-> t, s |-> s]
Valid(p) == p.c < Cylinders /\ p.t < Tracks /\ p.s < Sectors
Places == {p \in Place : Valid(p)}
Address(p) == (p.c * Tracks + p.t) * Sectors + p.s
Zero == [i \in 1 .. SectorSize |-> 0]
Serial == [Zero EXCEPT ![1] = SectorSize]
Ready(u) == u \in opened

\* A new container: all zeros, but for the factory data.
New(u) ==
    [p \in Places |-> IF p = At(Cylinders - (IF u \in Type885 THEN 2 ELSE 1), 0, 0)
                      THEN Serial ELSE Zero]

Deadstart(u) == IF u \in Type885 THEN At(Cylinders - 2, Tracks - 1, Sectors - 2)
                                 ELSE At(Cylinders - 1, 0, 3)
UtilityMap == At(Cylinders - 1, 0, 2)

-----------------------------------------------------------------------------
\* Mutant: the odd sectors of a track are never come to.
NextPlaceEven(p, step, gap) ==
    LET s == p.s + step + (IF gap THEN 2 ELSE 0)
        last == p.t + 1 = Tracks
    IN  IF s < Sectors THEN [p EXCEPT !.s = s]
        ELSE At(p.c, IF last THEN 0 ELSE p.t + 1, 0)

(* dd8xxSeekNextSector: with interlace all even sectors of the cylinder come *)
(* first, track by track, then all odd ones.                                *)
NextPlace(p, step, gap) ==
    LET s == p.s + step + (IF gap THEN 2 ELSE 0)
        last == p.t + 1 = Tracks
        odd == step # 1 /\ s \notin {Sectors, Sectors + 2}
    IN  IF s < Sectors THEN [p EXCEPT !.s = s]
        ELSE IF ~last THEN At(p.c, p.t + 1, IF odd THEN 1 ELSE 0)
        ELSE At(p.c, 0, IF step # 1 /\ ~odd THEN 1 ELSE 0)

\* Mutant: the buffer is not emptied.
SeekKeepsBuffer(u, p) ==
    /\ place' = [place EXCEPT ![u] = p]
    /\ bufPtr' = bufPtr
    /\ status' = IF Valid(p) THEN "ok" ELSE "invalid"
    /\ pos' = IF Valid(p) THEN [pos EXCEPT ![u] = p] ELSE pos

(* dd8xxSeek: the buffer is empty, and the file's position moves unless the *)
(* address is invalid.                                                      *)
Seek(u, p) ==
    /\ place' = [place EXCEPT ![u] = p]
    /\ bufPtr' = [bufPtr EXCEPT ![u] = Null]
    /\ status' = IF Valid(p) THEN "ok" ELSE "invalid"
    /\ pos' = IF Valid(p) THEN [pos EXCEPT ![u] = p] ELSE pos

-----------------------------------------------------------------------------
(* Functions (dd8xxFunc) and the words of those that come with an address     *)
(* (dd8xxIo).  The PP gives all words of such a function, and the operator does *)
(* nothing in between.                                                         *)

idle == <<files, selectedUnit>>

Function(f, n) == fcode' = f /\ recordLength' = n /\ sent' = <<>>
Immediate == Function("none", 0)

Transfer(f, n) ==
    /\ plan.transfers > 0
    /\ plan' = [plan EXCEPT !.transfers = @ - 1]
    /\ Function(f, n)

(* Functions of status, checkwords, format, controlware, and those that are accepted *)
(* but not implemented: they give and take words that go nowhere.                    *)
FuncOther ==
    /\ Immediate
    /\ UNCHANGED <<idle, plan, position, status, mind>>

\* The drive that is selected already is not looked at.
Connect(n) ==
    /\ Immediate
    /\ IF n = selectedUnit THEN UNCHANGED <<selectedUnit, status>>
       ELSE /\ selectedUnit' = IF Ready(n) THEN n ELSE NoUnit
            /\ status' = IF Ready(n) THEN "ok" ELSE "none"
    /\ UNCHANGED <<files, position, mind, plan>>

(* A seek on drive n with step 1 (full tracking) or 2 (half).  The step is set on the *)
(* drive that is selected when the function comes; without one it is declined.        *)
SeekFunction(n, step, p) ==
    LET u == selectedUnit IN
    /\ u # NoUnit /\ (n = u \/ ~Ready(n))
    /\ interlace' = [interlace EXCEPT ![u] = step]
    /\ asked' = [asked EXCEPT ![u] = step]
    /\ Immediate
    /\ selectedUnit' = IF n = u THEN u ELSE NoUnit
    /\ IF n = u THEN Seek(u, p) ELSE status' = "none" /\ UNCHANGED <<place, bufPtr, pos>>
    /\ IF n = u /\ Valid(p) THEN at' = [at EXCEPT ![u] = p] /\ fresh' = fresh \cup {u}
       ELSE UNCHANGED at /\ fresh' = fresh \ {u}
    /\ UNCHANGED <<files, plan, buffer>>

MayTransfer(u) == u # NoUnit /\ Ready(u) /\ u \in fresh /\ status = "ok"

FuncRead ==
    LET u == selectedUnit IN
    /\ MayTransfer(u)
    /\ Transfer("read", SectorSize)
    /\ bufPtr' = [bufPtr EXCEPT ![u] = 0]
    /\ buffer' = [buffer EXCEPT ![u] = container[u][pos[u]]]
    /\ fresh' = fresh \ {u}
    /\ UNCHANGED <<idle, place, interlace, pos, status, at, asked>>

FuncWrite ==
    /\ MayTransfer(selectedUnit)
    /\ Transfer("write", SectorSize)
    /\ fresh' = fresh \ {selectedUnit}
    /\ UNCHANGED <<idle, position, status, at, asked>>

(* Factory data and utility map: read from where the drive is, which stays. *)
FuncReadMap ==
    /\ MayTransfer(selectedUnit)
    /\ Transfer("readmap", SectorSize)
    /\ fresh' = fresh \ {selectedUnit}
    /\ UNCHANGED <<idle, position, status, at, asked>>

(* Gap functions are accepted and do not set the length: what is left of a *)
(* transfer that was cut off is made up for.                               *)
FuncGapRead ==
    /\ selectedUnit # NoUnit /\ Ready(selectedUnit) /\ status = "ok" /\ fcode = "read"
    /\ Function("gapread", recordLength)
    /\ UNCHANGED <<idle, plan, position, status, mind>>

(* Whatever unit the function names, it is unit 0 that is deadstarted. *)
FuncDeadstart ==
    /\ Ready(0)
    /\ selectedUnit' = 0
    /\ Seek(0, Deadstart(0))
    /\ at' = [at EXCEPT ![0] = Deadstart(0)]
    /\ fresh' = fresh \ {0}
    /\ Transfer("deadstart", SectorSize)
    /\ UNCHANGED <<files, interlace, buffer, asked>>

-----------------------------------------------------------------------------
(* Words on the channel (dd8xxIo).                                          *)

(* Words that the transfer still has. *)
Left(n) == recordLength' = n /\ fcode' = IF n > 0 THEN fcode ELSE "none"

Filled(u) == IF bufPtr[u] = Null THEN container[u][pos[u]] ELSE buffer[u]
Index(u) == IF bufPtr[u] = Null THEN 0 ELSE bufPtr[u]
(* dd8xxReadClassic, dd8xxReadPacked: nothing but 0 comes after the sector. *)
Word(u) == IF Index(u) < SectorSize THEN Filled(u)[Index(u) + 1] ELSE 0
Advances(u) ==
    /\ buffer' = [buffer EXCEPT ![u] = Filled(u)]
    /\ bufPtr' = [bufPtr EXCEPT ![u] = IF Index(u) < SectorSize THEN Index(u) + 1 ELSE SectorSize]

Limit(a, b) == IF a < b THEN a ELSE b

(* The place the PP expects after a whole sector: the next in its order. *)
InTurn(p, step) ==
    LET half == Sectors \div 2
        i == IF step = 1 THEN p.t * Sectors + p.s
             ELSE (p.s % 2) * Tracks * half + p.t * half + p.s \div 2
        n == (i + 1) % (Tracks * Sectors)
        j == n % (Tracks * half)
    IN  IF step = 1 THEN At(p.c, n \div Sectors, n % Sectors)
        ELSE At(p.c, j \div half, 2 * (j % half) + n \div (Tracks * half))

(* The last word of a sector: on to the next one. *)
SectorDone(u, gap) ==
    /\ Seek(u, NextPlace(place[u], interlace[u], gap))
    /\ at' = [at EXCEPT ![u] = IF gap THEN NextPlace(place[u], interlace[u], gap)
                                      ELSE InTurn(@, asked[u])]
    /\ fresh' = fresh \cup {u}

ReadWord ==
    LET u == selectedUnit IN
    /\ fcode \in {"read", "gapread", "readmap"} /\ recordLength > 0
    /\ Left(recordLength - 1)
    /\ IF recordLength = 1 /\ fcode # "readmap"
       THEN /\ SectorDone(u, fcode = "gapread")
            /\ buffer' = [buffer EXCEPT ![u] = Filled(u)]
       ELSE Advances(u) /\ UNCHANGED <<place, pos, status, at, fresh>>
    /\ UNCHANGED <<idle, plan, interlace, asked, sent>>

(* The first word of a deadstart sector says how many words the PP gets. *)
DeadstartWord ==
    LET u == selectedUnit
        left == (IF recordLength = SectorSize THEN Limit(Word(u), SectorSize) ELSE recordLength) - 1
    IN  /\ fcode = "deadstart" /\ recordLength > 0
        /\ Left(left)
        /\ IF left = 0
           THEN /\ SectorDone(u, FALSE)
                /\ buffer' = [buffer EXCEPT ![u] = Filled(u)]
           ELSE Advances(u) /\ UNCHANGED <<place, pos, status, at, fresh>>
        /\ UNCHANGED <<idle, plan, interlace, asked, sent>>

(* dd8xxWriteClassic, dd8xxWritePacked: the whole sector is written with its last word. *)
Stored(u, w) ==
    LET block == [buffer[u] EXCEPT ![Index(u) + 1] = w]
    IN  IF Index(u) = SectorSize
        THEN UNCHANGED <<buffer, container, content>>
        ELSE /\ buffer' = [buffer EXCEPT ![u] = block]
             /\ container' = IF Index(u) + 1 = SectorSize
                             THEN [container EXCEPT ![u][pos[u]] = block] ELSE container

WriteWord ==
    LET u == selectedUnit IN
    \E w \in IF sent = <<>> THEN FirstWords ELSE {10 * plan.transfers + Len(sent)} :
       /\ fcode = "write" /\ recordLength > 0
       /\ Left(recordLength - 1)
       /\ sent' = IF recordLength = 1 THEN <<>> ELSE Append(sent, w)
       /\ IF u \in readonly
          THEN /\ status' = "none"
               /\ UNCHANGED <<container, content, place, bufPtr, buffer, pos, at, fresh>>
          ELSE /\ Stored(u, w)
               /\ IF recordLength = 1
                  THEN /\ SectorDone(u, FALSE)
                       /\ content' = [content EXCEPT ![u][at[u]] = Append(sent, w)]
                  ELSE /\ bufPtr' = [bufPtr EXCEPT ![u] = Limit(Index(u) + 1, SectorSize)]
                       /\ UNCHANGED <<content, place, pos, status, at, fresh>>
       /\ UNCHANGED <<opened, classic, readonly, interlace, selectedUnit, asked, plan>>

Even(i) == i % 2 = 0
Flaw(p, track) == <<1000 + (IF track THEN 500 ELSE 0) + p.c, 64 * p.t + p.s>>
First(S) == CHOOSE i \in S : \A j \in S : i <= j

(* dd844SetClearFlaw on a copy of the map: words 2, 4, ... are looked at for a *)
(* free entry, 0, 2, ... for the one to clear.                                 *)
FlawSet(map, f) ==
    LET free == {i \in 2 .. SectorSize - 1 : Even(i) /\ map[i + 1] = 0}
    IN  IF free = {} THEN map
        ELSE [map EXCEPT ![First(free) + 1] = f[1], ![First(free) + 2] = f[2]]
FlawClear(map, f) ==
    LET same == {i \in 0 .. SectorSize - 1 : Even(i) /\ <<map[i + 1], map[i + 2]>> = f}
    IN  IF same = {} THEN map
        ELSE [map EXCEPT ![First(same) + 1] = 0, ![First(same) + 2] = 0]

SetClearFlaw(set, track) ==
    LET u == selectedUnit
        map == container[u][UtilityMap]
        flaw == Flaw(place[u], track)
        new == IF set THEN FlawSet(map, flaw) ELSE FlawClear(map, flaw)
    IN  /\ u # NoUnit /\ Ready(u) /\ u \in classic /\ u \notin Type885 \cup readonly
        /\ Transfer("none", 0)
        /\ container' = [container EXCEPT ![u][UtilityMap] = new]
        /\ content' = [content EXCEPT ![u][UtilityMap] = new]
        /\ place' = [place EXCEPT ![u] = UtilityMap] /\ pos' = [pos EXCEPT ![u] = UtilityMap]
        /\ bufPtr' = [bufPtr EXCEPT ![u] = SectorSize] /\ status' = "ok"
        /\ buffer' = [buffer EXCEPT ![u] = new]
        /\ at' = [at EXCEPT ![u] = UtilityMap] /\ fresh' = fresh \ {u}
        /\ UNCHANGED <<opened, classic, readonly, interlace, selectedUnit, asked>>

Functions ==
    \/ FuncOther \/ FuncRead \/ FuncWrite \/ FuncReadMap \/ FuncGapRead \/ FuncDeadstart
    \/ \E n \in Units : Connect(n) \/ \E step \in plan.steps, p \in plan.seeks : SeekFunction(n, step, p)
    \/ \E set, track \in BOOLEAN : SetClearFlaw(set, track)
Words == ReadWord \/ DeadstartWord \/ WriteWord
-----------------------------------------------------------------------------
(* The operator (dd8xxLoad).  A container that is loaded is taken for a packed one; the *)
(* position stays that of the old one.                                                  *)
MidTransfer(u) == u = selectedUnit /\ fcode # "none"

Unload(u) ==
    /\ Ready(u) /\ ~MidTransfer(u)
    /\ opened' = opened \ {u}
    /\ selectedUnit' = IF selectedUnit = u THEN NoUnit ELSE selectedUnit
    /\ fresh' = fresh \ {u}
    /\ UNCHANGED <<classic, readonly, container, content, position, status, fcode, recordLength,
                   at, asked, sent, plan>>

Load(u, mode) ==
    /\ ~Ready(u) /\ u \in plan.loads
    /\ plan' = [plan EXCEPT !.loads = @ \ {u}]
    /\ opened' = opened \cup {u}
    /\ classic' = classic \ {u}
    /\ readonly' = IF mode = "w" THEN readonly \ {u} ELSE readonly \cup {u}
    /\ container' = [container EXCEPT ![u] = New(u)]
    /\ content' = [content EXCEPT ![u] = New(u)]
    /\ UNCHANGED <<position, selectedUnit, status, fcode, recordLength, mind, sent>>

\* dd8xxInit.
Init ==
    /\ \E m \in Plans :
          /\ opened = m.mounted /\ classic = m.mounted \ Type885 /\ fresh = m.mounted
          /\ interlace = [u \in Units |-> IF u \in m.mounted THEN 1 ELSE 0] /\ asked = interlace
          /\ plan = m
    /\ readonly = {} /\ container = [u \in Units |-> New(u)] /\ content = container
    /\ place = [u \in Units |-> At(0, 0, 0)] /\ pos = place /\ at = place
    /\ bufPtr = [u \in Units |-> Null] /\ buffer = [u \in Units |-> Zero]
    /\ selectedUnit = 0 /\ status = "ok" /\ fcode = "none" /\ recordLength = 0
    /\ sent = <<>>

Next == Functions \/ Words \/ \E u \in Units : Unload(u) \/ \E mode \in {"r", "w"} : Load(u, mode)

Spec == Init /\ [][Next]_diskVars

-----------------------------------------------------------------------------
\* Every variable stays within its type.
DiskTypeOK ==
    /\ opened \subseteq Units /\ readonly \subseteq Units
    /\ selectedUnit \in Units \cup {NoUnit}
    /\ status \in {"ok", "invalid", "none"}
    /\ recordLength \in -1 .. SectorSize
    /\ \A u \in Units : place[u] \in Place /\ Valid(pos[u]) /\ bufPtr[u] \in Null .. SectorSize

(* Whatever mixture of seeks, transfers that are cut off, flaws and loads there  *)
(* was, a container holds at each address the last whole block the PP sent there. *)
StoreExact == \A u \in opened : container[u] = content[u]

(* A drive that may go on without a seek is where the PP takes it to be. *)
WherePpThinks == status = "ok" => \A u \in fresh : pos[u] = at[u] /\ bufPtr[u] = Null

DiskSafe == DiskTypeOK /\ StoreExact /\ WherePpThinks

(* A word that is read is the one that was last written at its place. *)
ReadsBack ==
    ReadWord => LET u == selectedUnit
                IN  fcode # "gapread" => Word(u) = content[u][at[u]][SectorSize - recordLength + 1]

(* The map of flaws: an entry is added where none was or taken away, and no other changes. *)
FlawsKept ==
    fcode' = "none" /\ plan'.transfers # plan.transfers =>
        LET u == selectedUnit
            changed == {i \in 0 .. SectorSize - 1 :
                           Even(i) /\ container'[u][UtilityMap][i + 1] # container[u][UtilityMap][i + 1]}
        IN  /\ \A i, j \in changed : i = j
            /\ \A i \in changed : 0 \in {container'[u][UtilityMap][i + 1], container[u][UtilityMap][i + 1]}

DiskSteps == [][ReadsBack /\ FlawsKept]_diskVars
=============================================================================
