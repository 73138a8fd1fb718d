------------------------------ MODULE Devices ------------------------------
(***************************************************************************)
(* The devices on the channels, one of them at a time: device says which is *)
(* in use.  Each has state of its own, a DevSlot with its context and       *)
(* files, and no device calls another, so that the others rest.            *)
(***************************************************************************)
EXTENDS Integers, Sequences, FiniteSets

CONSTANTS
    Used,       \* the devices to look at
    Units,      \* of the 669 tapes, and drives of the disk controller
    \* 669 tapes
    Mounted, Images, MaxRecord, TapePlans,
    \* 844 and 885 disks
    Type885, Cylinders, Tracks, Sectors, SectorSize, FirstWords, DiskPlans,
    \* cards and paper
    Columns, CardPlans,
    \* 607, 6603 (with Tracks), 405, 1612
    Reels, Heads, OldSectors, OldSectorSize, Decks, NoFile, MaxRetry, MaxWords,
    \* the clock
    PerMicrosecond, MaxMicroseconds, Turn, MaxNow,
    \* the multiplexers
    Kinds, Ports, Users, BufSize, MaxTyped, MaxWritten

OldOnes == {"tape607", "disk6603", "reader405", "printer1612"}
AllDevices == {"tape", "disk", "cards", "clock", "mux"} \cup OldOnes

\* A card of a deck: its kind, and where it lies.
ACard == [kind : {"text", "eor", "eof", "eoi"}, deck : Nat, n : Nat]

ASSUME DevicesAssumption ==
    /\ Used \subseteq AllDevices /\ Units \subseteq Nat /\ 0 \in Units
    /\ MaxRecord \in Nat \ {0}
    /\ Cylinders \in Nat \ {0, 1} /\ {Tracks, Heads, OldSectors, OldSectorSize} \subseteq Nat \ {0}
    /\ {Sectors, SectorSize} \subseteq Nat
    /\ Sectors % 2 = 0 /\ Sectors > 2 /\ SectorSize % 2 = 0 /\ SectorSize > 2
    /\ FirstWords \subseteq Nat
    /\ DiskPlans \subseteq [mounted : SUBSET Units, loads : SUBSET Units, steps : SUBSET {1, 2},
                             transfers : Nat,
                             seeks : SUBSET [c : 0 .. Cylinders, t : 0 .. Tracks, s : 0 .. Sectors]]
    \* Drive 0 can be deadstarted without a seek, and has no interlace when it is only loaded later.
    /\ \A m \in DiskPlans : 0 \in m.loads => 0 \in m.mounted
    /\ Columns \in Nat \ {0} /\ Columns % 2 = 0
    /\ CardPlans \subseteq [parts : SUBSET {"cr", "cp", "lp"}, decks : Seq(Seq(ACard) \ {<<>>}),
                             interrupts : SUBSET {"readyInt", "eoiInt", "errorInt"},
                             words : Nat, separate : BOOLEAN, overread : BOOLEAN]
    /\ 0 \in DOMAIN Reels /\ \A u \in DOMAIN Reels : Reels[u] \in Seq(Seq(Nat))
    /\ Decks \in Seq(Seq(Nat)) /\ NoFile \notin Seq(Nat)
    /\ MaxWords \in Nat /\ MaxRetry \in Nat
    /\ PerMicrosecond \in Nat \ {0} /\ MaxMicroseconds \in Nat \ {0}
    /\ Turn \in Nat /\ Turn > MaxMicroseconds /\ MaxNow \in Nat \ {0}
    /\ Kinds \subseteq {"mux6676", "tpmux"}
    /\ IsFiniteSet(Ports) /\ Ports = 0 .. Cardinality(Ports) - 1 /\ 0 \in Ports
    /\ IsFiniteSet(Users)
    /\ BufSize \in Nat \ {0} /\ MaxTyped \in Nat /\ MaxWritten \in Nat

VARIABLES
    device,
    \* 669 tapes
    file, fcb, image, head, lost, deviceStatus, blockNo, tapeLength, bp, ioBuffer, tapeUnit,
    devLength, tapeFcode, anyWrite, active, crashed, recorded, ends, counted, writes, loads,
    tapePlan,
    \* 844 and 885 disks
    opened, classic, readonly, container, content, place, interlace, bufPtr, buffer, pos,
    diskUnit, status, diskFcode, recordLength, at, diskAsked, fresh, diskSent, diskPlan,
    \* cards and paper
    converter, interrupting, cardFcode, held, moving, reader, punch, printer, due, cardSent, stale,
    cardPlan,
    \* 607, 6603, 405, 1612
    oldFcode, oldStatus, unit, passed, rest, got, cell, fpos, disk, asked, written,
    deck, open, retry, waiting, cards, paper, unloaded, printed,
    \* the clock
    now, rtcClock, rtcPrev, mtr, long, last, start, setBack,
    \* the multiplexers
    kind, isActive, connFd, descriptors, scan, accepting, closing, muxFcode, muxPort, muxLength,
    announced, input, output, session, typing, heard, gotKeys, wrote

Tape == INSTANCE Mt669 WITH recordLength <- tapeLength, selectedUnit <- tapeUnit, fcode <- tapeFcode,
                             plan <- tapePlan, Plans <- TapePlans
Disk == INSTANCE Dd8xx WITH selectedUnit <- diskUnit, fcode <- diskFcode, asked <- diskAsked,
                            sent <- diskSent, plan <- diskPlan, Plans <- DiskPlans
Cards == INSTANCE UnitRecord WITH fcode <- cardFcode, sent <- cardSent, plan <- cardPlan,
                                  Plans <- CardPlans
Old == INSTANCE OldDevices WITH Sectors <- OldSectors, SectorSize <- OldSectorSize
Clock == INSTANCE Rtc
Mux == INSTANCE Multiplexers

tapeVars ==
    <<file, fcb, image, head, lost, deviceStatus, blockNo, tapeLength, bp, ioBuffer, tapeUnit,
      devLength, tapeFcode, anyWrite, active, crashed, recorded, ends, counted, writes, loads,
      tapePlan>>
diskVars ==
    <<opened, classic, readonly, container, content, place, interlace, bufPtr, buffer, pos,
      diskUnit, status, diskFcode, recordLength, at, diskAsked, fresh, diskSent, diskPlan>>
cardVars ==
    <<converter, interrupting, cardFcode, held, moving, reader, punch, printer, due, cardSent,
      stale, cardPlan>>
oldVars ==
    <<oldFcode, oldStatus, unit, passed, rest, got, cell, fpos, disk, asked, written, deck, open,
      retry, waiting, cards, paper, unloaded, printed>>
clockVars ==
    <<now, rtcClock, rtcPrev, mtr, long, last, start, setBack>>
muxVars ==
    <<kind, isActive, connFd, descriptors, scan, accepting, closing, muxFcode, muxPort,
      muxLength, announced, input, output, session, typing, heard, gotKeys, wrote>>
vars == <<device, tapeVars, diskVars, cardVars, oldVars, clockVars, muxVars>>

\* Tape images are well formed.
ASSUME TapeAssumption ==
    /\ DOMAIN Mounted \subseteq Units
    /\ TapePlans \subseteq [mounted : SUBSET DOMAIN Mounted, writes : Nat, loads : Nat,
                             all : BOOLEAN]
    /\ \A u \in DOMAIN Mounted : Tape!IsImage(Mounted[u])
    /\ \A m \in Images : Tape!IsImage(m)

(* The variables of a device that is not used do not matter. *)
TapeRests ==
    /\ file = 0 /\ fcb = 0 /\ image = 0 /\ head = 0 /\ deviceStatus = 0 /\ blockNo = 0
    /\ tapeLength = 0 /\ bp = 0 /\ ioBuffer = 0 /\ tapeUnit = 0 /\ devLength = 0 /\ tapeFcode = 0
    /\ anyWrite = 0 /\ active = 0 /\ recorded = 0 /\ ends = 0 /\ counted = 0 /\ writes = 0
    /\ loads = 0 /\ lost = 0 /\ crashed = 0 /\ tapePlan = 0
DiskRests ==
    /\ opened = 0 /\ classic = 0 /\ readonly = 0 /\ container = 0 /\ content = 0 /\ place = 0
    /\ interlace = 0 /\ bufPtr = 0 /\ buffer = 0 /\ pos = 0 /\ diskUnit = 0 /\ status = 0
    /\ diskFcode = 0 /\ recordLength = 0 /\ at = 0 /\ diskAsked = 0 /\ fresh = 0 /\ diskSent = 0
    /\ diskPlan = 0
CardRests ==
    /\ converter = 0 /\ interrupting = 0 /\ cardFcode = 0 /\ held = 0 /\ moving = 0 /\ reader = 0
    /\ punch = 0 /\ printer = 0 /\ due = 0 /\ cardSent = 0 /\ stale = 0 /\ cardPlan = 0
OldRests ==
    /\ oldFcode = 0 /\ oldStatus = 0 /\ unit = 0 /\ passed = 0 /\ rest = 0 /\ got = 0 /\ cell = 0
    /\ fpos = 0 /\ disk = 0 /\ asked = 0 /\ written = 0 /\ deck = 0 /\ open = 0 /\ retry = 0
    /\ waiting = 0 /\ cards = 0 /\ paper = 0 /\ unloaded = 0 /\ printed = 0
ClockRests ==
    /\ now = 0 /\ rtcClock = 0 /\ rtcPrev = 0 /\ mtr = 0 /\ long = 0 /\ last = 0 /\ start = 0
    /\ setBack = 0
MuxRests ==
    /\ kind = 0 /\ isActive = 0 /\ connFd = 0 /\ descriptors = 0 /\ scan = 0 /\ accepting = 0
    /\ closing = 0 /\ muxFcode = 0 /\ muxPort = 0 /\ muxLength = 0 /\ announced = 0 /\ input = 0
    /\ output = 0 /\ session = 0 /\ typing = 0 /\ heard = 0 /\ gotKeys = 0 /\ wrote = 0

Init ==
    /\ device \in Used
    /\ IF device = "tape" THEN Tape!Init ELSE TapeRests
    /\ IF device = "disk" THEN Disk!Init ELSE DiskRests
    /\ IF device = "cards" THEN Cards!Init ELSE CardRests
    /\ IF device \in OldOnes THEN Old!OldInit ELSE OldRests
    /\ IF device = "clock" THEN Clock!RtcInit ELSE ClockRests
    /\ IF device = "mux" THEN Mux!MuxInit ELSE MuxRests

TapeStep ==
    /\ device = "tape" /\ Tape!Next
    /\ UNCHANGED <<device, diskVars, cardVars, oldVars, clockVars, muxVars>>
DiskStep ==
    /\ device = "disk" /\ Disk!Next
    /\ UNCHANGED <<device, tapeVars, cardVars, oldVars, clockVars, muxVars>>
CardStep ==
    /\ device = "cards" /\ Cards!Next
    /\ UNCHANGED <<device, tapeVars, diskVars, oldVars, clockVars, muxVars>>
OldStep ==
    /\ \/ device = "tape607" /\ Old!Tape607
       \/ device = "disk6603" /\ Old!Disk6603
       \/ device = "reader405" /\ Old!Reader405
       \/ device = "printer1612" /\ Old!Printer1612
    /\ UNCHANGED <<device, tapeVars, diskVars, cardVars, clockVars, muxVars>>
ClockStep ==
    /\ device = "clock" /\ Clock!RtcNext
    /\ UNCHANGED <<device, tapeVars, diskVars, cardVars, oldVars, muxVars>>
MuxStep ==
    /\ device = "mux" /\ Mux!MuxNext
    /\ UNCHANGED <<device, tapeVars, diskVars, cardVars, oldVars, clockVars>>

Next == TapeStep \/ DiskStep \/ CardStep \/ OldStep \/ ClockStep \/ MuxStep

Spec == Init /\ [][Next]_vars

-----------------------------------------------------------------------------
(* However reads both ways, writes, spacing, rewinds and loads of several drives are mixed *)
(* and cut off, the file of each holds what was recorded, as records that can be found from *)
(* both sides, and the head is between two of them unless a reposition over a padded record *)
(* (mt669FuncReposition) or a read into an older recording took it elsewhere.               *)
TapeSafe == device = "tape" => Tape!DriveSafe

(* A container holds the last whole block sent to each address, and a drive that goes on   *)
(* without a seek is where the PP takes it to be, with and without interlace (dd8xxSeek).  *)
DiskSafe == device = "disk" => Disk!DiskSafe

(* No card is skipped, doubled or lost, no line either, and the converter shows which      *)
(* equipment interrupts (cr3447, cp3446, lp3000, dcc6681).                                 *)
PaperSafe == device = "cards" => Cards!UnitSafe

(* Transfers of the 607 tapes, the 6603 disk, the 405 reader and the 1612 printer that are *)
(* cut off and taken up again go on in order.  And the clock: PP 0 loses no turn and no     *)
(* cycle however rarely it reads (rtcIo).                                                  *)
OldSafe ==
    /\ device \in OldOnes => Old!OldSafe
    /\ device = "clock" => Clock!RtcSafe

(* While users come and go under the main thread's polls, each port has a descriptor of    *)
(* its own, keys come once and in order, and output goes to whom it was written for.       *)
MuxSafe == device = "mux" => Mux!MuxSafe

(* The 669 controller implements drives that move by whole blocks (TapeDrive). *)
IsDrive ==
    /\ device = "tape" => Tape!Drive!Init
    /\ [][device = "tape" => Tape!DriveStep]_tapeVars

(* A word that is read from a disk is the one last written at its place, and setting or    *)
(* clearing a flaw changes one entry of the map (dd844SetClearFlaw).                       *)
DiskSteps == [][device = "disk" => Disk!ReadsBack /\ Disk!FlawsKept]_diskVars
=============================================================================
