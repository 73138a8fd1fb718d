------------------------------- MODULE Mt669 -------------------------------
(***************************************************************************)
(* The 669 tape drives of one controller (src/mt669.c).  A reel is a file   *)
(* in TAP format: each record between two copies of its length, a tape mark *)
(* a single length of zero, and in some images a byte of padding after the  *)
(* data of a record.                                                       *)
(*                                                                         *)
(* A file is a sequence of cells: a length (4 bytes), a word of data, a pad *)
(* byte.  File positions count cells: f[p + 1] is the cell at position p.  *)
(* The images are well formed and a cell of data is never taken for the     *)
(* length of its record; the conversions between bytes and PP words are left *)
(* out.                                                                    *)
(*                                                                         *)
(* recorded and ends remember what was recorded and where in the file it is, *)
(* to say what the reads must give back.                                    *)
(*                                                                         *)
(* A unit is lost when its head need not be between two recorded blocks:    *)
(* inside the record that a reposition went back over, because that takes   *)
(* no account of padding, or in what an older recording left behind the     *)
(* last block written.  What the code makes of the bytes that it finds      *)
(* there is not followed: head is 0 then, which says nothing, Astray stands *)
(* for all that a motion may come to, and after a write nothing is taken    *)
(* for recorded.                                                           *)
(*                                                                         *)
(* One PP owns the channel and drives it as the deck's drivers do: it       *)
(* announces a write on a ready unit with the ring in, rewinds, repositions *)
(* and unloads a ready unit, gives a write at least one word, and           *)
(* disconnects after each transfer; only a connect comes between a write    *)
(* and its words, and nothing between a read and its words.                 *)
(***************************************************************************)
EXTENDS Integers, Sequences

CONSTANTS
    Units,
    Mounted,     \* reels named in the configuration: images of some units (IsImage)
    Images,      \* reels on the operator's shelf: such images
    MaxRecord,   \* words that ioBuffer holds, MaxPpBuf; no record is longer
    Plans        \* what is to happen: see plan

VARIABLES
    file,          \* the cells of the file on each unit
    fcb,           \* units with a file open: those whose initialStatus has St669Ready
    image,         \* [ring, padded] of it; ring is St669WriteEnabled
    head,          \* file position
    lost,          \* units whose head need not be between two recorded blocks
    deviceStatus, blockNo, recordLength, bp,              \* TapeBuf of each unit
    ioBuffer,      \* ... with one word more, MaxRecord, for what lies behind it
    selectedUnit, devLength,                              \* activeDevice
    fcode,         \* its function: "readfwd", "readbkw", "write", or "motion" without data
    anyWrite,
    active,        \* a transfer is going on
    crashed,       \* a word was stored behind ioBuffer, or a block in no file: undefined
    recorded, ends,   \* the blocks of the last recording, and where each ends in the file
    counted,       \* units whose blockNo was reset at the load point since it last went wrong
    writes, loads, \* records written and reels loaded so far
    plan           \* [mounted, writes, loads, all]: which reels of the configuration are there,
                   \* how many writes and loads come at most, and whether the PP does more
                   \* than rewind, read forward and write

reels == <<file, fcb, image, recorded, ends>>
transfer == <<recordLength, bp, ioBuffer, devLength>>
position == <<head, lost, deviceStatus, blockNo, counted>>
vars ==
    <<reels, position, transfer, selectedUnit, fcode, anyWrite, active, crashed, writes, loads,
      plan>>

Length(n) == [kind |-> "length", v |-> n]
Word(w) == [kind |-> "word", v |-> w]
Pad == [kind |-> "pad", v |-> 0]
Nothing == [kind |-> "end of file", v |-> 0]

Cell(f, p) == IF p \in 0..(Len(f) - 1) THEN f[p + 1] ELSE Nothing
Body(f, p, n) == [i \in 1..n |-> Cell(f, p + i).v]      \* data of the record at p
(* Written at p, within or at the end of f. *)
Overwrite(f, p, cells) ==
    LET behind == p + Len(cells)
    IN  [i \in 1..(IF behind > Len(f) THEN behind ELSE Len(f)) |->
            IF i \in (p + 1)..behind THEN cells[i - p] ELSE f[i]]

(* The cells of a record as the controller writes it. *)
Record(block) ==
    LET n == Len(block)
    IN  [i \in 1..(n + 2) |-> IF i \in {1, n + 2} THEN Length(n) ELSE Word(block[i - 1])]

(* The cells of f from p to q are a record of this block, perhaps with a pad behind its data. *)
IsRecord(f, p, q, block, padded) ==
    LET n == Len(block)
    IN  /\ Cell(f, p) = Length(n) /\ \A i \in 1..n : Cell(f, p + i) = Word(block[i])
        /\ Cell(f, q - 1) = Length(n)
        /\ \/ n = 0 /\ q = p + 1
           \/ n > 0 /\ q = p + n + 2
           \/ n > 0 /\ q = p + n + 3 /\ padded /\ Cell(f, q - 2) = Pad

(* The cells of f begin with records of these blocks, which end at these positions. *)
Behind(e, i) == IF i = 0 THEN 0 ELSE e[i]
HoldsBlocks(f, blocks, e, padded) ==
    /\ Len(e) = Len(blocks)
    /\ \A i \in DOMAIN e : IsRecord(f, Behind(e, i - 1), e[i], blocks[i], padded)
    /\ \A i, j \in DOMAIN e : i < j => e[i] < e[j]

(* A reel's file, as other programs make them: its cells are records of its blocks, some of *)
(* them padded where padded is TRUE, and they end at ends.                                 *)
ACell == [kind : {"length", "word", "pad"}, v : Nat]
ABlock == {block \in Seq(Nat) : Len(block) <= MaxRecord}
IsImage(m) ==
    /\ m.cells \in Seq(ACell) /\ m.blocks \in Seq(ABlock) /\ m.ends \in Seq(Nat)
    /\ {m.ring, m.padded} \subseteq BOOLEAN
    /\ HoldsBlocks(m.cells, m.blocks, m.ends, m.padded)
    /\ Len(m.cells) = Behind(m.ends, Len(m.ends))

End(u) == Behind(ends[u], Len(ends[u]))
(* The number of the last record that ends at p or before. *)
LastBehind(e, p) ==
    CHOOSE i \in 0..Len(e) : Behind(e, i) <= p /\ \A k \in DOMAIN e : k > i => e[k] > p
Passed(u) == LastBehind(ends[u], head[u])

(* The recording after a block was written at the head. *)
Recorded(u, block, size) ==
    /\ recorded' = [recorded EXCEPT ![u] = SubSeq(@, 1, Passed(u)) \o <<block>>]
    /\ ends' = [ends EXCEPT ![u] = SubSeq(@, 1, Passed(u)) \o <<head[u] + size>>]

(* The cells of a block written at the head.  When that is lost, any record may be spoilt: a cell *)
(* that belongs to none stands for the file.                                                    *)
Stored(u, block, cells) ==
    \/ /\ u \notin lost
       /\ file' = [file EXCEPT ![u] = Overwrite(@, head[u], cells)]
       /\ head' = [head EXCEPT ![u] = @ + Len(cells)]
       /\ Recorded(u, block, Len(cells))
    \/ /\ u \in lost
       /\ file' = [file EXCEPT ![u] = <<Pad>>]
       /\ recorded' = [recorded EXCEPT ![u] = <<>>]
       /\ ends' = [ends EXCEPT ![u] = <<>>]
       /\ UNCHANGED head

Ready(u) == u \in fcb

\* Mutant: a record is never padded.
RecordEndUnpadded(f, p) ==
    LET n == Cell(f, p).v IN IF n = 0 THEN p + 1 ELSE p + n + 2

(* Where the record or tape mark at p ends: after the second length, which *)
(* comes after a pad if the cell where it should be does not repeat the    *)
(* first.                                                                  *)
RecordEnd(f, p) ==
    LET n == Cell(f, p).v
    IN  IF n = 0 THEN p + 1
        ELSE IF Cell(f, p + n + 1) = Cell(f, p) THEN p + n + 2 ELSE p + n + 3

(* Where the record or tape mark that ends at p begins. *)
RecordStart(f, p) ==
    LET n == Cell(f, p - 1).v
    IN  IF n = 0 THEN p - 1
        ELSE IF Cell(f, p - n - 2) = Cell(f, p - 1) THEN p - n - 2 ELSE p - n - 3

-----------------------------------------------------------------------------
(* The PP starts a function when no transfer is going on. *)
Function(f) == ~active /\ fcode' = f

(* The unit's position, conditions and block number after an operation. *)
Moved(u, p, conditions, block) ==
    /\ head' = [head EXCEPT ![u] = p]
    /\ deviceStatus' = [deviceStatus EXCEPT ![u] = conditions]
    /\ blockNo' = [blockNo EXCEPT ![u] = block]
    /\ counted' = IF p = 0 /\ block = 0 THEN counted \cup {u} ELSE counted
    /\ lost' = lost \ {u}

(* What may become of them where the bytes at the head are taken for lengths: they are a tape    *)
(* mark, the end of the file, a record too long or without its second length, or one by chance; *)
(* the condition "astray" stands for what is reported.                                          *)
Astray(u) ==
    /\ head' = [head EXCEPT ![u] = 0]
    /\ deviceStatus' = [deviceStatus EXCEPT ![u] = {"astray"}]
    /\ lost' = lost \cup {u} /\ counted' = counted \ {u}
    /\ UNCHANGED blockNo
(* Going back it may also come to the load point. *)
BackAstray(u) ==
    \/ Astray(u)
    \/ Moved(u, 0, {"astray", "loadpoint"}, 0)

(* What the channel will transfer: words unpacked into ioBuffer. *)
Data(u, words, first) ==
    /\ devLength' = Len(words)
    /\ recordLength' = [recordLength EXCEPT ![u] = Len(words)]
    /\ bp' = [bp EXCEPT ![u] = first]
    /\ ioBuffer' = [ioBuffer EXCEPT ![u] = [i \in DOMAIN @ |-> IF i < Len(words) THEN words[i + 1]
                                                                               ELSE @[i]]]

Empty(u) ==
    /\ devLength' = 0
    /\ recordLength' = [recordLength EXCEPT ![u] = 0]

NoData(u) == Empty(u) /\ UNCHANGED <<bp, ioBuffer>>

(* Of words read astray only the number matters; 0 stands for each. *)
Unknown == {[i \in 1..n |-> 0] : n \in 1..MaxRecord}
UnknownForward(u) == NoData(u) \/ \E words \in Unknown : Data(u, words, 0)
UnknownBackward(u) == NoData(u) \/ \E words \in Unknown : Data(u, words, Len(words))

(* mt669FuncRead and mt669FuncForespace from position p with b blocks behind. *)
GoForward(u, p, b) ==
    \/ /\ ~Ready(u)
       /\ Moved(u, head[u], {}, blockNo[u])
    \/ /\ Ready(u) /\ p >= Len(file[u])
       /\ IF p = 0 THEN Moved(u, p, {}, 0) ELSE Moved(u, p, {"eot"}, b)
    \/ /\ Ready(u) /\ p < Len(file[u])
       /\ Moved(u, RecordEnd(file[u], p),
                IF Cell(file[u], p).v = 0 THEN {"tapemark"} ELSE {}, b + 1)

Unpacked(u, p) ==
    IF Ready(u) /\ Cell(file[u], p).v # 0
    THEN Data(u, Body(file[u], p, Cell(file[u], p).v), 0)
    ELSE NoData(u)

(* Behind the last block written there may be the rest of an older recording. *)
Leftover(u, p) == Ready(u) /\ p = End(u) /\ p < Len(file[u])
Known(u, p) == u \notin lost /\ ~Leftover(u, p)

unmoving == <<reels, anyWrite, crashed, writes, loads>>

ReadFwd ==
    LET u == selectedUnit IN
    /\ Function("readfwd")
    /\ \/ Known(u, head[u]) /\ GoForward(u, head[u], blockNo[u]) /\ Unpacked(u, head[u])
       \/ ~Known(u, head[u]) /\ Astray(u) /\ UnknownForward(u)
    /\ active' = TRUE
    /\ UNCHANGED <<selectedUnit, unmoving>>

Forespace ==
    LET u == selectedUnit IN
    /\ Function("motion")
    /\ \/ Known(u, head[u]) /\ GoForward(u, head[u], blockNo[u])
       \/ ~Known(u, head[u]) /\ Astray(u)
    /\ Empty(u)
    /\ bp' = IF Ready(u) THEN [bp EXCEPT ![u] = 0] ELSE bp
    /\ UNCHANGED <<ioBuffer, selectedUnit, active, unmoving>>

(* The conditions and the block number when the head has gone back over a record to p. *)
MovedBack(u, p) ==
    Moved(u, p, (IF Cell(file[u], head[u] - 1).v = 0 THEN {"tapemark"} ELSE {}) \cup
                (IF p = 0 THEN {"loadpoint"} ELSE {}),
          IF p = 0 THEN 0 ELSE blockNo[u] - 1)

AtLoadPoint(u) == Moved(u, 0, {"loadpoint"}, 0)

(* Common to mt669FuncBackspace and mt669FuncReadBkw. *)
GoBack(u) ==
    \/ ~Ready(u) /\ Moved(u, head[u], {}, blockNo[u])
    \/ Ready(u) /\ head[u] = 0 /\ AtLoadPoint(u)
    \/ Ready(u) /\ head[u] # 0 /\ MovedBack(u, RecordStart(file[u], head[u]))

Backspace ==
    LET u == selectedUnit IN
    /\ Function("motion")
    /\ (u \notin lost /\ GoBack(u)) \/ (u \in lost /\ BackAstray(u))
    /\ NoData(u)
    /\ UNCHANGED <<selectedUnit, active, unmoving>>

(* bp is set behind the last word, and so the first word that is given is what lies there, and *)
(* the first word of the block is never given.                                                *)
ReadBkw ==
    LET u == selectedUnit
        n == Cell(file[u], head[u] - 1).v
    IN  /\ Function("readbkw")
        /\ \/ /\ u \notin lost /\ GoBack(u)
              /\ IF Ready(u) /\ head[u] # 0 /\ n # 0
                 THEN Data(u, Body(file[u], RecordStart(file[u], head[u]), n), n)
                 ELSE NoData(u)
           \/ u \in lost /\ BackAstray(u) /\ UnknownBackward(u)
        /\ active' = TRUE
        /\ UNCHANGED <<selectedUnit, unmoving>>

(* mt669FuncReposition knows no padding: behind a padded record it comes to a byte of the length *)
(* in front of it.  It leaves the lengths of the transfer.                                     *)
Reposition ==
    LET u == selectedUnit
        n == Cell(file[u], head[u] - 1).v
        start == RecordStart(file[u], head[u])
    IN  /\ Function("motion") /\ Ready(u)
        /\ \/ u \notin lost /\ head[u] = 0 /\ AtLoadPoint(u)
           \/ /\ u \notin lost /\ head[u] # 0
              /\ IF head[u] - (IF n = 0 THEN 1 ELSE n + 2) = start
                 THEN MovedBack(u, start)
                 ELSE /\ head' = [head EXCEPT ![u] = 0]
                      /\ deviceStatus' = [deviceStatus EXCEPT ![u] = {}]
                      /\ blockNo' = [blockNo EXCEPT ![u] = @ - 1]
                      /\ lost' = lost \cup {u} /\ counted' = counted \ {u}
           \/ u \in lost /\ BackAstray(u)
        /\ UNCHANGED <<transfer, selectedUnit, active, unmoving>>

Rewind ==
    /\ Function("motion") /\ Ready(selectedUnit)
    /\ AtLoadPoint(selectedUnit)
    /\ UNCHANGED <<transfer, selectedUnit, active, unmoving>>

ConnectRewindRead(u) ==
    /\ selectedUnit' = u
    /\ IF Ready(u)
       THEN /\ Function("readfwd") /\ active' = TRUE
            /\ \/ ~Leftover(u, 0) /\ GoForward(u, 0, 0) /\ Unpacked(u, 0)
               \/ Leftover(u, 0) /\ Astray(u) /\ UnknownForward(u)
       ELSE Function("motion") /\ UNCHANGED <<position, transfer, active>>
    /\ UNCHANGED unmoving

(* The function stays: a write that was announced to one unit goes to the unit connected now. *)
(* Neither has as many blocks then as it has counted.                                        *)
Connect(u) ==
    /\ active => fcode = "write" /\ devLength = 0
    /\ selectedUnit' = u
    /\ counted' = IF active /\ u # selectedUnit THEN counted \ {u, selectedUnit} ELSE counted
    /\ UNCHANGED <<fcode, head, lost, deviceStatus, blockNo, transfer, active, unmoving>>

(* Fc669ClearUnit, Fc669StopMotion and the functions like them. *)
ClearUnit ==
    /\ Function("motion")
    /\ NoData(selectedUnit)
    /\ UNCHANGED <<position, selectedUnit, active, unmoving>>

-----------------------------------------------------------------------------
(* Writing. *)

MayWrite(u) == Ready(u) /\ image[u].ring /\ writes < plan.writes

WriteEOF ==
    LET u == selectedUnit IN
    /\ Function("motion") /\ MayWrite(u)
    /\ Stored(u, <<>>, <<Length(0)>>)
    /\ deviceStatus' = [deviceStatus EXCEPT ![u] = {"tapemark"}]
    /\ blockNo' = [blockNo EXCEPT ![u] = @ + 1]
    /\ bp' = [bp EXCEPT ![u] = 0]
    /\ writes' = writes + 1
    /\ UNCHANGED <<fcb, image, lost, counted, recordLength, ioBuffer, devLength, selectedUnit,
                   anyWrite, active, crashed, loads>>

(* The block is counted when the function is issued. *)
Write ==
    LET u == selectedUnit IN
    /\ Function("write") /\ MayWrite(u)
    /\ bp' = [bp EXCEPT ![u] = 0]
    /\ devLength' = 0
    /\ anyWrite' = TRUE
    /\ deviceStatus' = [deviceStatus EXCEPT ![u] = {}]
    /\ blockNo' = [blockNo EXCEPT ![u] = @ + 1]
    /\ active' = TRUE
    /\ writes' = writes + 1
    /\ UNCHANGED <<reels, head, lost, counted, recordLength, ioBuffer, selectedUnit, crashed, loads>>

untransferred == <<reels, position, selectedUnit, fcode, anyWrite, writes, loads>>

(* The words go to ioBuffer from bp on, without a bound: behind it lies bp itself. *)
WriteWord ==
    LET u == selectedUnit IN
    /\ active /\ fcode = "write"
    /\ IF bp[u] = MaxRecord
       THEN crashed' = TRUE /\ UNCHANGED transfer
       ELSE /\ devLength' = devLength + 1
            /\ ioBuffer' = [ioBuffer EXCEPT ![u][bp[u]] = 10 * writes + devLength]
            /\ bp' = [bp EXCEPT ![u] = @ + 1]
            /\ UNCHANGED <<recordLength, crashed>>
    /\ UNCHANGED <<active, untransferred>>

(* mt669Io for input: the next word in the direction of the function, or the end. *)
ReadWord ==
    LET u == selectedUnit IN
    /\ active /\ fcode \in {"readfwd", "readbkw"}
    /\ recordLength[u] > 0
    /\ recordLength' = [recordLength EXCEPT ![u] = @ - 1]
    /\ bp' = [bp EXCEPT ![u] = IF fcode = "readfwd" THEN @ + 1 ELSE @ - 1]
    /\ active' = (recordLength[u] > 1)
    /\ UNCHANGED <<ioBuffer, devLength, crashed, untransferred>>

ReadEnd ==
    /\ active /\ fcode \in {"readfwd", "readbkw"}
    /\ recordLength[selectedUnit] = 0
    /\ active' = FALSE
    /\ UNCHANGED <<transfer, crashed, untransferred>>

(* The words are written on the unit that is selected now, from the first of its ioBuffer on; *)
(* on a file that is open for reading fwrite writes nothing.                                 *)
BlockWritten(u) ==
    LET block == [i \in 1..devLength |-> ioBuffer[u][i - 1]]
    IN  /\ Ready(u) /\ UNCHANGED crashed
        /\ deviceStatus' = [deviceStatus EXCEPT ![u] = @ \ {"loadpoint"}]
        /\ bp' = [bp EXCEPT ![u] = 0]
        /\ \/ image[u].ring /\ Stored(u, block, Record(block))
           \/ ~image[u].ring /\ UNCHANGED <<file, head, recorded, ends>>
WrittenNowhere(u) ==
    ~Ready(u) /\ crashed' = TRUE /\ UNCHANGED <<file, head, recorded, ends, deviceStatus, bp>>

\* Mutant: anyWrite is not reset.
DisconnectStillWrites ==
    /\ active /\ (fcode = "write" => devLength > 0)
    /\ active' = FALSE
    /\ \/ anyWrite /\ (BlockWritten(selectedUnit) \/ WrittenNowhere(selectedUnit))
       \/ ~anyWrite /\ UNCHANGED <<file, head, recorded, ends, deviceStatus, bp, crashed>>
    /\ UNCHANGED <<fcb, image, lost, blockNo, counted, recordLength, ioBuffer, devLength,
                   selectedUnit, fcode, anyWrite, writes, loads>>

(* mt669Disconnect, at the end of a write or when the PP has read enough. *)
Disconnect ==
    /\ active /\ (fcode = "write" => devLength > 0)
    /\ active' = FALSE /\ anyWrite' = FALSE
    /\ \/ anyWrite /\ (BlockWritten(selectedUnit) \/ WrittenNowhere(selectedUnit))
       \/ ~anyWrite /\ UNCHANGED <<file, head, recorded, ends, deviceStatus, bp, crashed>>
    /\ UNCHANGED <<fcb, image, lost, blockNo, counted, recordLength, ioBuffer, devLength,
                   selectedUnit, fcode, writes, loads>>

-----------------------------------------------------------------------------
(* Reels.  blockNo stays what it was. *)
RewindUnload ==
    LET u == selectedUnit IN
    /\ ~active /\ Ready(u)
    /\ deviceStatus' = [deviceStatus EXCEPT ![u] = {}]
    /\ fcb' = fcb \ {u}
    /\ file' = [file EXCEPT ![u] = <<>>]
    /\ head' = [head EXCEPT ![u] = 0]
    /\ recorded' = [recorded EXCEPT ![u] = <<>>]
    /\ ends' = [ends EXCEPT ![u] = <<>>]
    /\ lost' = lost \ {u}
    /\ UNCHANGED <<image, blockNo, counted, transfer, selectedUnit, fcode, anyWrite, active, crashed,
                   writes, loads>>

mt669Load(u) ==
    \E new \in Images :
       /\ ~Ready(u) /\ loads < plan.loads
       /\ loads' = loads + 1
       /\ fcb' = fcb \cup {u}
       /\ file' = [file EXCEPT ![u] = new.cells]
       /\ recorded' = [recorded EXCEPT ![u] = new.blocks]
       /\ ends' = [ends EXCEPT ![u] = new.ends]
       /\ image' = [image EXCEPT ![u] = [ring |-> new.ring, padded |-> new.padded]]
       /\ deviceStatus' = [deviceStatus EXCEPT ![u] = {"loadpoint"}]
       /\ counted' = counted \ {u}
       /\ UNCHANGED <<head, lost, blockNo, transfer, selectedUnit, fcode, anyWrite, active, crashed,
                      writes>>

(* mt669Init opens images for reading. *)
Init ==
    /\ plan \in Plans
    /\ fcb = plan.mounted
    /\ recorded = [u \in Units |-> IF u \in fcb THEN Mounted[u].blocks ELSE <<>>]
    /\ file = [u \in Units |-> IF u \in fcb THEN Mounted[u].cells ELSE <<>>]
    /\ ends = [u \in Units |-> IF u \in fcb THEN Mounted[u].ends ELSE <<>>]
    /\ image = [u \in Units |-> [ring |-> FALSE, padded |-> u \in fcb /\ Mounted[u].padded]]
    /\ deviceStatus = [u \in Units |-> IF u \in fcb THEN {"loadpoint"} ELSE {}]
    /\ head = [u \in Units |-> 0] /\ blockNo = [u \in Units |-> 0] /\ lost = {}
    /\ recordLength = [u \in Units |-> 0] /\ bp = [u \in Units |-> 0]
    /\ ioBuffer = [u \in Units |-> [i \in 0..MaxRecord |-> 0]]
    /\ selectedUnit \in Units /\ fcode = "motion" /\ devLength = 0
    /\ anyWrite = FALSE /\ active = FALSE /\ crashed = FALSE
    /\ counted = Units /\ writes = 0 /\ loads = 0

Motion ==
    \/ ReadFwd \/ Rewind
    \/ /\ plan.all
       /\ \/ Forespace \/ Backspace \/ ReadBkw \/ Reposition \/ ClearUnit
          \/ \E u \in Units : ConnectRewindRead(u)
Transfer == WriteWord \/ ReadWord \/ ReadEnd \/ Disconnect

Next ==
    /\ ~crashed /\ UNCHANGED plan
    /\ \/ Motion \/ WriteEOF \/ Write \/ Transfer \/ RewindUnload
       \/ \E u \in Units : Connect(u) \/ mt669Load(u)

Spec == Init /\ [][Next]_vars

-----------------------------------------------------------------------------
(* Types: a transfer stays in its buffer. *)
TypeOK ==
    /\ \A u \in Units : /\ head[u] \in 0..Len(file[u])
                        /\ deviceStatus[u] \subseteq {"loadpoint", "tapemark", "eot", "astray"}
                        /\ recordLength[u] \in 0..MaxRecord /\ bp[u] \in 0..MaxRecord
    /\ selectedUnit \in Units /\ devLength \in 0..MaxRecord
    /\ lost \subseteq fcb /\ crashed \in BOOLEAN
    /\ anyWrite => active /\ fcode = "write"

(* The head is between two records of what was last recorded, unless a reposition went back  *)
(* over a padded record or a read went into the rest of an older recording, until the next    *)
(* rewind; and what was last recorded lies in the file so that its records can be found and   *)
(* unpacked from both sides, whatever mixture of motions and writes there was: over padding   *)
(* and tape marks, and on a file that holds the rest of a longer one.                         *)
HeadBetweenRecords ==
    \A u \in Units :
       /\ u \notin lost => \E i \in 0..Len(ends[u]) : head[u] = Behind(ends[u], i)
       /\ \A i \in DOMAIN ends[u] :
             LET p == Behind(ends[u], i - 1)
             IN  /\ RecordEnd(file[u], p) = ends[u][i] /\ RecordStart(file[u], ends[u][i]) = p
                 /\ Body(file[u], p, Cell(file[u], p).v) = recorded[u][i]
       /\ Len(ends[u]) = Len(recorded[u])

(* blockNo, which Fc669DetailedStatus reports, is the number of blocks behind  *)
(* the head, or one more while a block is being written: from a time at the    *)
(* load point until the next load, until the head is lost, or until a write    *)
(* announced to one unit goes to another one.                                  *)
BlocksCounted ==
    \A u \in counted \cap fcb :
       blockNo[u] = Passed(u) + (IF anyWrite /\ u = selectedUnit THEN 1 ELSE 0)

(* The type invariant, the head on the tape, and the count of blocks.         *)
DriveSafe == TypeOK /\ HeadBetweenRecords /\ BlocksCounted

(* Refinement: through the arithmetic on file positions, a controller with    *)
(* shared lengths and flags, and stale cells behind the head, the PP sees     *)
(* drives that move by whole blocks and give back what was written - backward *)
(* all but the first word of a block - and get lost where TapeDrive says so.  *)
Given ==
    LET u == selectedUnit
    IN  IF ~active \/ fcode = "write" THEN <<>>
        ELSE [i \in 1..recordLength[u] |->
                 ioBuffer[u][IF fcode = "readfwd" THEN bp[u] + i - 1 ELSE bp[u] - i + 1]]

Drive == INSTANCE TapeDrive WITH
    Words <- Nat,
    mounted <- fcb,
    reel <- recorded,
    pos <- [u \in Units |-> Passed(u)],
    status <- deviceStatus,
    buffer <- Given,
    padded <- {u \in fcb : image[u].padded},
    older <- {u \in fcb : End(u) < Len(file[u])}

DriveStep == [Drive!Next]_Drive!vars
=============================================================================
