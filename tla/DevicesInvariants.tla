------------------------ MODULE DevicesInvariants --------------------------
(***************************************************************************)
(* What Devices_proofs shows to hold in every state of the devices: their  *)
(* inductive invariants, the types of their variables, and what they       *)
(* assume of the constants, all of which DevicesAssumption implies.        *)
(***************************************************************************)
EXTENDS Devices

-----------------------------------------------------------------------------
(***************************************************************************)
(* The multiplexers.                                                       *)
(***************************************************************************)
\* A character that the PP writes: whose it is, and its number.
Chars == Users \X Nat

\* What each variable holds.
MuxTypes ==
    /\ kind \in Kinds
    /\ isActive \in [Ports -> BOOLEAN] /\ connFd \in [Ports -> Nat]
    /\ scan \in Ports /\ accepting \in {"no", "waits", "done"}
    /\ closing \in Ports \cup {Mux!NoPort}
    /\ muxFcode \in {"none", "output", "input", "status", "read", "write"}
    /\ muxPort \in Ports \cup {Mux!NoPort} /\ muxLength \in Nat
    /\ announced \in [Ports -> BOOLEAN] /\ input \in [Ports -> Nat]
    /\ output \in [Ports -> Seq(Chars)]
    /\ session \in [Users -> {"out", "calling", "in", "left"}]
    /\ typing \in [Users -> Seq(Nat)] /\ gotKeys \in [Users -> Seq(Nat)]
    /\ heard \in [Users -> Seq(Chars)] /\ wrote \in [Users -> Seq(Chars)]

\* The ports that have a descriptor of their own: active, or about to be.
Holders == {p \in Ports : (isActive[p] /\ p # closing) \/ (accepting = "done" /\ p = scan)}

\* The thread and the main thread never work on one port: the thread accepts for ports that are
\* not active, and the main thread closes descriptors of active ports.  Each descriptor is that
\* of one user and each holder has another one.
Lines ==
    /\ accepting # "no" => ~isActive[scan]
    /\ closing # Mux!NoPort => isActive[closing] /\ muxFcode \in {"input", "status"}
    /\ DOMAIN descriptors \subseteq 0 .. Cardinality(Users)
    /\ descriptors \in [DOMAIN descriptors -> Users]
    /\ \A a, b \in DOMAIN descriptors : descriptors[a] = descriptors[b] => a = b
    /\ \A a \in DOMAIN descriptors : session[descriptors[a]] \in {"in", "left"}
    /\ \A p \in Holders : connFd[p] \in DOMAIN descriptors
    /\ \A p, q \in Holders : connFd[p] = connFd[q] => p = q

\* Each multiplexer knows its functions; the character of a port that status announced comes from
\* its present user, because a port with one is not looked at again.
Functions ==
    /\ kind = "mux6676" => muxFcode \in {"none", "output", "input"}
    /\ kind = "tpmux" => muxFcode \in {"none", "status", "read", "write"}
    /\ \A p \in Ports : announced[p] => isActive[p] /\ p # closing /\ kind = "tpmux"

\* A user's keys are those the PP got, the one it was told of, and those on the line.
Taken(u) == {p \in Ports : announced[p] /\ Mux!OnLine(p) = u}
Held(u) == IF Taken(u) = {} THEN <<>> ELSE <<input[CHOOSE p \in Taken(u) : TRUE]>>
Stream(u) == gotKeys[u] \o Held(u) \o typing[u]
Typing ==
    \A u \in Users : IF session[u] = "out" THEN gotKeys[u] = <<>>
                     ELSE Stream(u) = SubSeq(Mux!Typed, 1, Len(Stream(u)))

\* What was written for a user is what was sent and what the port buffers.
Buffered(u) ==
    IF muxFcode = "write" /\ muxPort \in Ports /\ isActive[muxPort] /\ Mux!OnLine(muxPort) = u
    THEN SubSeq(output[muxPort], 1, muxLength) ELSE <<>>
Writing ==
    /\ muxFcode = "write" /\ muxPort \in Ports =>
          /\ muxLength < BufSize /\ muxLength <= Len(output[muxPort])
          /\ ~isActive[muxPort] => muxLength = 0
    /\ \A u \in Users : session[u] # "left" => wrote[u] = heard[u] \o Buffered(u)

\* The inductive invariant of the multiplexers.
MInv == MuxTypes /\ Lines /\ Functions /\ Typing /\ Writing

\* What is assumed of their constants (DevicesAssumption).
MuxAssumption ==
    /\ IsFiniteSet(Ports) /\ Ports = 0 .. Cardinality(Ports) - 1 /\ 0 \in Ports
    /\ Kinds \subseteq {"mux6676", "tpmux"}
    /\ IsFiniteSet(Users) /\ BufSize \in Nat \ {0} /\ MaxTyped \in Nat

-----------------------------------------------------------------------------
(***************************************************************************)
(* The 607 tapes, the 405 reader and the 1612 printer.                     *)
(***************************************************************************)
\* What has passed the head of each tape is what the PP got and what is left in its buffer.
Tapes == DOMAIN Reels
TapeInv ==
    /\ unit \in Tapes
    /\ passed \in [Tapes -> Nat] /\ \A u \in Tapes : passed[u] <= Len(Reels[u])
    /\ rest \in [Tapes -> Seq(Nat)] /\ got \in [Tapes -> Seq(Nat)]
    /\ Old!TapeInOrder

\* What is printed, the code of a function and characters, is in the printer or unloaded.
Marks == {"print", "c"}
PaperInv ==
    /\ paper \in Seq(Marks) /\ unloaded \in Seq(Seq(Marks)) /\ printed \in Seq(Marks)
    /\ Old!PaperWhole

\* The cards of the decks are those that were read, those of the file that the reader has or will
\* find, and those that wait; it only has a file open that is still there.
Present == IF open # NoFile THEN open ELSE IF deck # NoFile THEN deck ELSE <<>>
DeckInv ==
    /\ deck \in Seq(Nat) \cup {NoFile} /\ open \in Seq(Nat) \cup {NoFile}
    /\ open # NoFile => deck # NoFile
    /\ retry \in Nat /\ waiting \in Seq(Seq(Nat)) /\ cards \in Seq(Nat)
    /\ Old!CardsOnce

\* What is assumed of their constants (DevicesAssumption).
OldAssumption ==
    /\ 0 \in Tapes /\ \A u \in Tapes : Reels[u] \in Seq(Seq(Nat))
    /\ Decks \in Seq(Seq(Nat)) /\ NoFile \notin Seq(Nat) /\ MaxRetry \in Nat

-----------------------------------------------------------------------------
(***************************************************************************)
(* The 6603 disk.                                                          *)
(***************************************************************************)
\* The file holds at the place of each word of each sector what was last written there, and during
\* a transfer the file's position is that of the next word of the sector that was asked for.
Places == (0 .. Tracks - 1) \X (0 .. Heads - 1) \X (0 .. OldSectors - 1)
InSector == 0 .. OldSectorSize - 1
Cells == 0 .. (Tracks * Heads * OldSectors * OldSectorSize - 1)
At(a, n) == Old!SeekPosition(a[1], a[2], a[3]) + n

SizeAssumption == {Tracks, Heads, OldSectors, OldSectorSize} \subseteq Nat \ {0}

DiskTypes ==
    /\ cell \in [track : 0 .. Tracks - 1, head : 0 .. Heads - 1, sector : 0 .. OldSectors - 1]
    /\ fpos \in Nat
    /\ disk \in [Cells -> Nat]
    /\ asked \in [at : Places, n : Nat, w : Nat]
    /\ written \in [Places -> [InSector -> Nat]]
Transfers ==
    oldFcode \in {"diskRead", "diskWrite"} =>
        /\ asked.n <= OldSectorSize
        /\ fpos = At(asked.at, asked.n)
Stored == \A a \in Places, n \in InSector : disk[At(a, n)] = written[a][n]
DiskInv == DiskTypes /\ Transfers /\ Stored

-----------------------------------------------------------------------------
(***************************************************************************)
(* These four devices together.                                            *)
(***************************************************************************)
\* The inductive invariant of the four.
OldInv == TapeInv /\ DiskInv /\ DeckInv /\ PaperInv

-----------------------------------------------------------------------------
(***************************************************************************)
(* The clock.                                                              *)
(***************************************************************************)
\* What the clock would gain at time t; Gain is the same now.
GainAt(t, prev) ==
    Clock!Smaller(IF t < prev THEN 0 ELSE t - prev, MaxMicroseconds * PerMicrosecond)
        \div PerMicrosecond

\* The property of the clock is inductive once it is known that rtcPrev is 0 only at the start.
ClockTypes ==
    /\ now \in Nat \ {0} /\ rtcClock \in Nat /\ rtcPrev \in Nat /\ mtr \in BOOLEAN
    /\ long \in Nat /\ last \in Nat /\ start \in Nat /\ setBack \in BOOLEAN
    /\ rtcPrev = 0 => rtcClock = 0 /\ start = 0 /\ ~mtr
ClockInv == ClockTypes /\ Clock!RtcSafe

ClockAssumption ==
    /\ PerMicrosecond \in Nat \ {0} /\ MaxMicroseconds \in Nat \ {0}
    /\ Turn \in Nat /\ Turn > MaxMicroseconds

-----------------------------------------------------------------------------
(***************************************************************************)
(* Cards and paper: the converter with the 3447, the 3446 and the printer.  *)
(***************************************************************************)
CardStatus == {"ready", "readyInt", "eof", "empty", "eoiInt", "errorInt", "file", "binary"}
Selectable == {"readyInt", "eoiInt", "errorInt"}
Decked == Seq(ACard) \ {<<>>}
Items == {"space", "line", "word"} \X Nat

\* The records that describe the equipment, and the plan of the PP and the operator.
Readers ==
    [open : BOOLEAN, status : SUBSET CardStatus, mask : SUBSET Selectable, binary : BOOLEAN,
     col : 0 .. Columns + 1, card : ACard \cup {[Cards!Eoi EXCEPT !.kind = "none"]},
     deck : Seq(ACard), waiting : Seq(Decked), disc : BOOLEAN]
Punches ==
    [status : SUBSET CardStatus, mask : SUBSET Selectable, binary : BOOLEAN, card : Seq(Nat),
     lines : Seq(Seq(Nat)), files : Seq(Seq(Seq(Nat)))]
Printers ==
    [int : SUBSET {"ready", "end"}, enabled : SUBSET {"ready", "end"}, fill : BOOLEAN,
     printed : BOOLEAN, keepInt : BOOLEAN, lines : Seq(Items), files : Seq(Seq(Items))]
UnitPlans ==
    [parts : SUBSET {"cr", "cp", "lp"}, decks : Seq(Decked), interrupts : SUBSET Selectable,
     words : Nat, separate : BOOLEAN, overread : BOOLEAN]

Converters ==
    [selected : BOOLEAN, connected : {"cr", "cp", "lp", "none"}, status : {"ready", "reject"}]

\* What is assumed of their constants (DevicesAssumption).
UnitAssumption == Columns \in Nat \ {0} /\ CardPlans \subseteq UnitPlans

\* The cards that are to come (CardsInOrder): from the one that is up, and from the decks behind.
Behind(w) == [i \in DOMAIN w |-> Cards!Delivered(w[i])]
FromUp(r) == IF r.open THEN Cards!Delivered(<<r.card>> \o r.deck) ELSE <<>>
ReaderFits(r, d) ==
    /\ r \in Readers
    /\ r.open => r.card \in ACard
    /\ ~r.open => r.waiting = <<>>
    /\ d = FromUp(r) \o Old!FlatRecords(Behind(r.waiting))

\* What was given to the punch is in its files, on the card that is punched, or in the channel.
PunchFits(p, h, c) ==
    /\ p \in Punches /\ h \in Seq(Nat) /\ Len(h) <= 1
    /\ Len(p.card) <= Columns /\ \A i \in DOMAIN p.lines : Len(p.lines[i]) <= Columns
    /\ c = Old!FlatRecords(Old!FlatRecords(p.files) \o p.lines) \o p.card \o h

\* What was given to the printer is in its files, with separate files each job in its own.
PrinterFits(l, j, separate) ==
    /\ l \in Printers /\ j \in Seq(Seq(Items)) /\ j # <<>>
    /\ Old!FlatRecords(Append(l.files, l.lines)) = Old!FlatRecords(j)
    /\ separate => Append(l.files, l.lines) = j

\* A transfer is one with the equipment that is connected.
UnitFlow ==
    /\ cardPlan \in UnitPlans
    /\ converter \in Converters
    /\ converter.connected \in cardPlan.parts \cup {"none"}
    /\ cardFcode \in {"none", "word", "dccStatus", "status", "input", "inputToEor", "punch", "print", "fill"}
    /\ cardFcode \in {"input", "inputToEor"} => converter.connected = "cr"
    /\ cardFcode = "punch" => converter.connected = "cp"
    /\ cardFcode \in {"print", "fill"} => converter.connected = "lp"
    /\ held # <<>> => cardFcode = "punch"

\* The converter knows the interrupts of its equipment.
Shown == interrupting \subseteq cardPlan.parts /\ Cards!InterruptsShown

\* The inductive invariant of cards and paper.
UnitInv ==
    /\ UnitFlow /\ Shown
    /\ ReaderFits(reader, due)
    /\ cardSent \in [cards : Seq(Nat), jobs : Seq(Seq(Items))]
    /\ PunchFits(punch, held, cardSent.cards)
    /\ PrinterFits(printer, cardSent.jobs, cardPlan.separate)

\* The actions that do not touch the reader.
ReaderRests ==
    \/ \E on \in BOOLEAN : Cards!SelectConverter(on)
    \/ \E mode \in {1, 2}, e \in Cards!Equipment : Cards!Connect(mode, e)
    \/ Cards!MasterClear \/ Cards!Rejected \/ Cards!DccStatus \/ Cards!StatusRequest \/ Cards!OutputCards
    \/ Cards!OutputLine
    \/ \E mode \in {1, 2} :
          \/ \E f \in Cards!MaskFunctions : Cards!PunchFunction(mode, f)
          \/ \E c \in {"ready", "end"}, on \in BOOLEAN : Cards!PrinterInterrupts(mode, c, on)
          \/ Cards!Release(mode) \/ Cards!Space(mode) \/ Cards!FillMemory(mode)
    \/ Cards!PunchWord \/ Cards!PunchTakes \/ Cards!PrintWord \/ Cards!Polled
    \/ \E e \in Cards!Equipment : Cards!CardMoved(e)
    \/ Cards!UnloadPunch \/ Cards!UnloadPrinter

\* The cards in the files of the punch, put together.
Pile(p) == Old!FlatRecords(Old!FlatRecords(p.files) \o p.lines)

\* The words and lines that are sent, and what an action does not touch.
SentType == cardSent \in [cards : Seq(Nat), jobs : Seq(Seq(Items))]

\* The actions that do not touch the punch; those of the printer add to what is sent.
PunchRests ==
    \/ \E on \in BOOLEAN : Cards!SelectConverter(on) \/ Cards!Input(on)
    \/ \E mode \in {1, 2}, e \in Cards!Equipment : Cards!Connect(mode, e)
    \/ Cards!MasterClear \/ Cards!Rejected \/ Cards!DccStatus \/ Cards!StatusRequest \/ Cards!OutputLine
    \/ \E mode \in {1, 2} :
          \/ \E f \in Cards!MaskFunctions : Cards!ReaderFunction(mode, f)
          \/ \E c \in {"ready", "end"}, on \in BOOLEAN : Cards!PrinterInterrupts(mode, c, on)
          \/ Cards!FillMemory(mode)
    \/ Cards!ReadWord \/ Cards!CardEnd \/ Cards!NoCards \/ Cards!Polled
    \/ \E e \in Cards!Equipment : Cards!CardMoved(e)
    \/ Cards!LoadDeck \/ Cards!UnloadReader \/ Cards!UnloadPrinter

\* The actions that do not touch the printer.
PrinterRests ==
    \/ \E on \in BOOLEAN : Cards!SelectConverter(on) \/ Cards!Input(on)
    \/ \E mode \in {1, 2}, e \in Cards!Equipment : Cards!Connect(mode, e)
    \/ Cards!MasterClear \/ Cards!Rejected \/ Cards!DccStatus \/ Cards!StatusRequest \/ Cards!OutputCards
    \/ \E mode \in {1, 2} : \E f \in Cards!MaskFunctions :
          Cards!ReaderFunction(mode, f) \/ Cards!PunchFunction(mode, f)
    \/ Cards!ReadWord \/ Cards!CardEnd \/ Cards!NoCards \/ Cards!PunchTakes \/ Cards!Polled
    \/ \E e \in Cards!Equipment : Cards!CardMoved(e)
    \/ Cards!LoadDeck \/ Cards!UnloadReader \/ Cards!UnloadPunch

-----------------------------------------------------------------------------
(***************************************************************************)
(* The 844 and 885 disks.                                                  *)
(***************************************************************************)
\* A sector: whole, of numbers.
Block == [1 .. SectorSize -> Nat]
\* What is to happen on the disks: which packs are mounted and loaded, the PP's seeks and transfers.
DiskPlanType ==
    [mounted : SUBSET Units, loads : SUBSET Units, steps : SUBSET {1, 2}, transfers : Nat,
     seeks : SUBSET Disk!Place]

\* What is assumed of their constants (DevicesAssumption).
DiskAssumption ==
    /\ Units \subseteq Nat /\ 0 \in Units
    /\ Cylinders \in Nat /\ Cylinders > 1 /\ Tracks \in Nat /\ Tracks > 0
    /\ Sectors \in Nat /\ Sectors % 2 = 0 /\ Sectors > 2
    /\ SectorSize \in Nat /\ SectorSize % 2 = 0 /\ SectorSize > 2
    /\ FirstWords \subseteq Nat
    /\ DiskPlans \subseteq DiskPlanType
    /\ \A m \in DiskPlans : 0 \in m.loads => 0 \in m.mounted

\* The files: what the PP sent is what they hold, whether or not they are loaded.
DiskFiles ==
    /\ opened \subseteq Units /\ readonly \subseteq Units
    /\ container \in [Units -> [Disk!Places -> Block]] /\ content = container

\* Where the drives are.
DiskPlaces ==
    /\ place \in [Units -> Disk!Place] /\ pos \in [Units -> Disk!Places]
    /\ at \in [Units -> Disk!Places]
    /\ interlace \in [Units -> {0, 1, 2}] /\ diskAsked = interlace
    /\ bufPtr \in [Units -> Disk!Null .. SectorSize] /\ buffer \in [Units -> Block]

\* What the controller and the PP do.
DiskControl ==
    /\ diskUnit \in Units \cup {Disk!NoUnit} /\ status \in {"ok", "invalid", "none"}
    /\ diskFcode \in {"none", "read", "readmap", "gapread", "deadstart", "write"}
    /\ recordLength \in -1 .. SectorSize /\ diskSent \in Seq(Nat)
    /\ fresh \subseteq Units /\ diskPlan \in DiskPlanType
    /\ 0 \in opened \cup diskPlan.loads => interlace[0] # 0

\* A drive that is where the PP takes it to be, and knows how sectors follow each other.
Settled(u) == place[u] = pos[u] /\ at[u] = pos[u] /\ interlace[u] # 0
Fresh == \A u \in fresh : Settled(u) /\ bufPtr[u] = Disk!Null

\* A transfer: the words that are left are those of the sector behind the buffer's pointer.
OnWord(u) ==
    /\ Disk!Index(u) = SectorSize - recordLength
    /\ bufPtr[u] # Disk!Null => buffer[u] = container[u][pos[u]]
Gathered(u) ==
    /\ Len(diskSent) = SectorSize - recordLength
    /\ u \notin readonly => /\ Disk!Index(u) = Len(diskSent)
                            /\ \A i \in 1 .. Len(diskSent) : buffer[u][i] = diskSent[i]
MidSector(u) ==
    /\ u \in opened /\ u \notin fresh /\ Settled(u) /\ recordLength > 0
    /\ diskFcode \in {"read", "readmap"} => OnWord(u)
    /\ diskFcode = "write" => Gathered(u)

\* During a transfer the selected drive is in the middle of a sector.
DInv ==
    /\ DiskFiles /\ DiskPlaces /\ DiskControl /\ Fresh
    /\ diskFcode # "none" => MidSector(diskUnit)

-----------------------------------------------------------------------------
(***************************************************************************)
(* The 669 tapes.                                                          *)
(***************************************************************************)
Conditions == {"loadpoint", "tapemark", "eot", "astray"}

ReelTypes ==
    /\ fcb \subseteq Units /\ lost \subseteq fcb /\ counted \subseteq Units \ lost
    /\ file \in [Units -> Seq(Tape!ACell)]
    /\ recorded \in [Units -> Seq(Tape!ABlock)] /\ ends \in [Units -> Seq(Nat)]
    /\ image \in [Units -> [ring : BOOLEAN, padded : BOOLEAN]]
HeadTypes ==
    /\ head \in [Units -> Nat] /\ blockNo \in [Units -> Int]
    /\ deviceStatus \in [Units -> SUBSET Conditions]
TapeFlowTypes ==
    /\ tapeUnit \in Units /\ tapeFcode \in {"motion", "readfwd", "readbkw", "write"}
    /\ devLength \in 0..MaxRecord /\ writes \in Nat
    /\ anyWrite \in BOOLEAN /\ active \in BOOLEAN /\ crashed \in BOOLEAN
    /\ tapeLength \in [Units -> 0..MaxRecord] /\ bp \in [Units -> 0..MaxRecord]
    /\ ioBuffer \in [Units -> [0..MaxRecord -> Nat]]

\* What is recorded on a unit is in its file.
OnReel(u) ==
    /\ Tape!HoldsBlocks(file[u], recorded[u], ends[u], image[u].padded)
    /\ u \notin fcb => recorded[u] = <<>> /\ file[u] = <<>>

\* The head is behind record j, and the count is that when it is known; or the head is lost.
HeadAt(u, j) == j \in 0..Len(ends[u]) /\ head[u] = Tape!Behind(ends[u], j)
CountIs(u, n) == u \in fcb /\ u \in counted => blockNo[u] = n
Placed(u) ==
    \/ u \in lost /\ head[u] = 0
    \/ /\ u \notin lost
       /\ \E j \in Nat : HeadAt(u, j) /\ CountIs(u, IF anyWrite /\ u = tapeUnit THEN j + 1 ELSE j)

\* A transfer stays in its buffer; a write comes to a reel without a ring only from another unit.
InBuffer ==
    /\ anyWrite <=> (active /\ tapeFcode = "write")
    /\ anyWrite => devLength <= bp[tapeUnit]
    /\ anyWrite /\ tapeUnit \in counted => image[tapeUnit].ring
    /\ active /\ tapeFcode = "readfwd" => bp[tapeUnit] + tapeLength[tapeUnit] <= MaxRecord
    /\ active /\ tapeFcode = "readbkw" => tapeLength[tapeUnit] <= bp[tapeUnit]

TInv ==
    /\ ReelTypes /\ HeadTypes /\ TapeFlowTypes /\ InBuffer
    /\ \A u \in Units : OnReel(u) /\ Placed(u)

\* The record i of a reel lies between two ends, and can be read forward and backward.
RecordAt(u, i) ==
    LET f == file[u]
        p == Tape!Behind(ends[u], i - 1)
        q == ends[u][i]
        block == recorded[u][i]
    IN  /\ p \in Nat /\ q \in Nat /\ p < q /\ q <= Len(f)
        /\ block \in Seq(Nat) /\ Len(block) <= MaxRecord
        /\ Tape!Cell(f, p).v = Len(block) /\ Tape!Cell(f, q - 1).v = Len(block)
        /\ Tape!RecordEnd(f, p) = q /\ Tape!RecordStart(f, q) = p
        /\ Tape!Body(f, p, Len(block)) = block
        /\ ~image[u].padded => p = IF Len(block) = 0 THEN q - 1 ELSE q - (Len(block) + 2)

\* The unit is behind block j.
AtBlock(u, j) ==
    /\ j \in Nat /\ j <= Len(recorded[u]) /\ Len(ends[u]) = Len(recorded[u]) /\ HeadAt(u, j)
    /\ CountIs(u, IF anyWrite /\ u = tapeUnit THEN j + 1 ELSE j)
    /\ Tape!Passed(u) = j
    /\ j = 0 <=> head[u] = 0
    /\ j > 0 => head[u] = ends[u][j] /\ RecordAt(u, j)
    /\ j < Len(recorded[u]) => RecordAt(u, j + 1) /\ head[u] # Tape!End(u) /\ head[u] < Len(file[u])
    /\ j = Len(recorded[u]) => head[u] = Tape!End(u)

\* What the words of the channel are, by their types.
TransferTypes ==
    /\ devLength \in 0..MaxRecord
    /\ tapeLength \in [Units -> 0..MaxRecord] /\ bp \in [Units -> 0..MaxRecord]
    /\ ioBuffer \in [Units -> [0..MaxRecord -> Nat]]
=============================================================================
