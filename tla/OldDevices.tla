----------------------------- MODULE OldDevices -----------------------------
(***************************************************************************)
(* The devices of the 6000 series that sit on a channel by themselves: the  *)
(* 607 tapes (src/mt607.c, read only), the 6603 disk (src/dd6603.c), the    *)
(* 405 card reader (src/cr405.c) and the 1612 printer (src/lp1612.c).       *)
(*                                                                         *)
(* Each is a file and a few fields of its DevSlot.  A tape is a sequence of *)
(* well formed records, a tape mark is an empty one; cells of the disk's    *)
(* file are numbers; a card is one word.                                   *)
(*                                                                         *)
(* The PP may leave a transfer at any word and come back to it.  It selects *)
(* a tape unit that is there, and another one, or the load point, only at   *)
(* the end of a record; it takes from a sector of the disk no more words    *)
(* than it has.  The operator puts a deck only where none is.               *)
(***************************************************************************)
EXTENDS Integers, Sequences

CONSTANTS
    Reels,          \* of the tape units: 0 .. n -> sequence of records
    Tracks, Heads, Sectors, SectorSize,
    Decks,          \* the decks the operator has
    MaxRetry,       \* 100: words asked of a reader without a deck before it looks for one
    NoFile,         \* NULL
    MaxWords        \* bound: words the PP writes, characters it prints

VARIABLES
    oldFcode,       \* activeDevice->fcode
    oldStatus,      \* activeChannel->status; of the reader, activeDevice->status
    unit, passed, rest,     \* 607: selected unit, records read of each, words left in its buffer
    cell, fpos, disk,       \* 6603: DiskParam, file position, file
    deck, open, retry, waiting,     \* 405: its file on disk and what is left of the open one
    paper, unloaded,                \* 1612: its file and those that were renamed
    got, cards,     \* words of each tape unit since the load point, cards (history)
    asked, written, \* place on the disk as the PP takes it, what it wrote where (history)
    printed         \* characters and functions for the printer (history)

tapeState == <<unit, passed, rest, got>>
diskState == <<cell, fpos, disk, asked, written>>
deckState == <<deck, open, retry, waiting, cards>>
paperState == <<paper, unloaded, printed>>
oldVars == <<oldFcode, oldStatus, tapeState, diskState, deckState, paperState>>

Tapes == DOMAIN Reels
FlatRecords(s) ==
    LET upTo[i \in 0 .. Len(s)] == IF i = 0 THEN <<>> ELSE upTo[i - 1] \o s[i] IN upTo[Len(s)]

-----------------------------------------------------------------------------
(* 607 tapes (mt607Func, mt607Io). *)

TapeOnly == UNCHANGED <<diskState, deckState, paperState>>

TapeSelect(u) ==
    /\ rest[unit] = <<>>
    /\ oldFcode' = "none" /\ unit' = u
    /\ UNCHANGED <<oldStatus, passed, rest, got>> /\ TapeOnly

TapeRewind ==
    /\ rest[unit] = <<>>
    /\ oldFcode' = "none"
    /\ passed' = [passed EXCEPT ![unit] = 0] /\ got' = [got EXCEPT ![unit] = <<>>]
    /\ UNCHANGED <<oldStatus, unit, rest>> /\ TapeOnly

\* Mutant: what is left of a record that was not read to its end is skipped.
TapeReadSkips ==
    /\ oldFcode' = "tapeRead"
    /\ IF passed[unit] = Len(Reels[unit])
       THEN oldStatus' = "eot" /\ UNCHANGED <<passed, rest>>
       ELSE /\ passed' = [passed EXCEPT ![unit] = @ + 1]
            /\ rest' = [rest EXCEPT ![unit] = Reels[unit][passed'[unit]]]
            /\ oldStatus' = "ready"
    /\ UNCHANGED <<unit, got>> /\ TapeOnly

(* A record is read at once, unless words of the last one are left. *)
TapeRead ==
    /\ oldFcode' = "tapeRead"
    /\ IF rest[unit] # <<>> THEN oldStatus' = "ready" /\ UNCHANGED <<passed, rest>>
       ELSE IF passed[unit] = Len(Reels[unit])
       THEN oldStatus' = "eot" /\ UNCHANGED <<passed, rest>>
       ELSE /\ passed' = [passed EXCEPT ![unit] = @ + 1]
            /\ rest' = [rest EXCEPT ![unit] = Reels[unit][passed'[unit]]]
            /\ oldStatus' = "ready"
    /\ UNCHANGED <<unit, got>> /\ TapeOnly

(* Without a word left the channel is dropped instead. *)
TapeWord ==
    /\ oldFcode = "tapeRead" /\ rest[unit] # <<>>
    /\ got' = [got EXCEPT ![unit] = Append(@, Head(rest[unit]))]
    /\ rest' = [rest EXCEPT ![unit] = Tail(@)]
    /\ UNCHANGED <<oldFcode, oldStatus, unit, passed>> /\ TapeOnly

(* Status requests and the functions that are not supported. *)
TapeOther(f) ==
    /\ oldFcode' = f
    /\ UNCHANGED <<oldStatus, tapeState>> /\ TapeOnly

-----------------------------------------------------------------------------
(* The 6603 disk (dd6603Func, dd6603Io). *)

DiskOnly == UNCHANGED <<tapeState, deckState, paperState>>

(* dd6603Seek, in words. *)
SeekPosition(t, h, s) == ((t * Heads + h) * Sectors + s) * SectorSize

(* Select track or head: what is read or written goes on where it was. *)
SelectCylinder(t, h) ==
    /\ cell' = [cell EXCEPT !.track = t, !.head = h]
    /\ t = cell.track \/ h = cell.head
    /\ UNCHANGED <<oldFcode, oldStatus, fpos, disk, asked, written>> /\ DiskOnly

SectorFunction(f, s) ==
    /\ oldFcode' = f
    /\ cell' = [cell EXCEPT !.sector = s]
    /\ fpos' = SeekPosition(cell.track, cell.head, s)
    /\ asked' = [asked EXCEPT !.at = <<cell.track, cell.head, s>>, !.n = 0]
    /\ UNCHANGED <<oldStatus, disk, written>> /\ DiskOnly

(* The disk turns when status is asked for; the function is over with the word. *)
DiskStatus ==
    /\ oldFcode' = "none"
    /\ cell' = [cell EXCEPT !.sector = (@ + 1) % Sectors]
    /\ oldStatus' = "none"
    /\ UNCHANGED <<fpos, disk, asked, written>> /\ DiskOnly

DiskReads ==
    /\ oldFcode = "diskRead" /\ asked.n < SectorSize
    /\ fpos' = fpos + 1 /\ asked' = [asked EXCEPT !.n = @ + 1]
    /\ UNCHANGED <<oldFcode, oldStatus, cell, disk, written>> /\ DiskOnly

\* Each word is another one.
DiskWrites ==
    /\ oldFcode = "diskWrite" /\ asked.n < SectorSize /\ asked.w < MaxWords
    /\ fpos' = fpos + 1 /\ asked' = [asked EXCEPT !.n = @ + 1, !.w = @ + 1]
    /\ disk' = [disk EXCEPT ![fpos] = asked'.w]
    /\ written' = [written EXCEPT ![asked.at][asked.n] = asked'.w]
    /\ UNCHANGED <<oldFcode, oldStatus, cell>> /\ DiskOnly

-----------------------------------------------------------------------------
(* The 405 reader (cr405Func, cr405Io).  open is the file it has open, deck the one that can be found. *)

ReaderOnly == UNCHANGED <<tapeState, diskState, paperState>>

OpenDeck ==
    /\ retry' = 0
    /\ open' = deck
    /\ oldStatus' = IF deck = NoFile THEN "notready" ELSE "ready"

\* The word of status comes at once.
ReaderStatus ==
    /\ oldFcode' = "none"
    /\ IF open = NoFile THEN OpenDeck ELSE UNCHANGED <<retry, open, oldStatus>>
    /\ UNCHANGED <<deck, waiting, cards>> /\ ReaderOnly

ReaderRead ==
    /\ oldFcode' = "cards"
    /\ UNCHANGED <<oldStatus, deckState>> /\ ReaderOnly

\* A word from file f; at its end the file is removed.
FromDeck(f) ==
    IF f # <<>>
    THEN /\ open' = Tail(f) /\ cards' = Append(cards, Head(f))
         /\ UNCHANGED deck
    ELSE open' = NoFile /\ deck' = NoFile /\ UNCHANGED cards

ReaderWord ==
    /\ oldFcode = "cards"
    /\ CASE open # NoFile ->
              /\ FromDeck(open)
              /\ retry' = IF open = <<>> THEN 0 ELSE retry
              /\ UNCHANGED oldStatus
         [] open = NoFile /\ retry > MaxRetry /\ deck # NoFile ->
              FromDeck(deck) /\ retry' = 0 /\ oldStatus' = "ready"
         [] OTHER ->
              /\ retry' = IF retry > MaxRetry THEN 0 ELSE retry + 1
              /\ oldStatus' = "notready" /\ UNCHANGED <<open, deck, cards>>
    /\ UNCHANGED <<oldFcode, waiting>> /\ ReaderOnly

\* The operator.
PutDeck ==
    /\ deck = NoFile /\ waiting # <<>>
    /\ deck' = Head(waiting) /\ waiting' = Tail(waiting)
    /\ UNCHANGED <<oldFcode, oldStatus, open, retry, cards>> /\ ReaderOnly

-----------------------------------------------------------------------------
(* The 1612 printer (lp1612Func, lp1612Io, lp1612Load). *)

PrinterOnly == UNCHANGED <<tapeState, diskState, deckState>>
Prints(c) == paper' = Append(paper, c) /\ printed' = Append(printed, c)

PrinterFunction(f) ==
    /\ oldFcode' = f /\ Len(printed) < MaxWords
    /\ Prints(f)
    /\ UNCHANGED <<oldStatus, unloaded>> /\ PrinterOnly

\* The word of status comes at once; then the function is 0.
PrinterStatus ==
    /\ oldFcode' = "none" /\ oldStatus' = "none"
    /\ UNCHANGED paperState /\ PrinterOnly

\* Characters are printed after every function, and after none.
PrinterWord ==
    /\ Len(printed) < MaxWords
    /\ Prints("c")
    /\ UNCHANGED <<oldFcode, oldStatus, unloaded>> /\ PrinterOnly

UnloadPaper == unloaded' = Append(unloaded, paper) /\ paper' = <<>>

PrinterLoad ==
    /\ paper # <<>> /\ UnloadPaper
    /\ UNCHANGED <<oldFcode, oldStatus, printed>> /\ PrinterOnly

-----------------------------------------------------------------------------
OldInit ==
    /\ oldFcode = "none" /\ oldStatus = "none"
    /\ unit = 0 /\ passed = [u \in Tapes |-> 0] /\ rest = [u \in Tapes |-> <<>>]
    /\ cell = [track |-> 0, head |-> 0, sector |-> 0] /\ fpos = 0
    /\ disk = [p \in 0 .. (Tracks * Heads * Sectors * SectorSize - 1) |-> 0]
    /\ deck = NoFile /\ open = NoFile /\ retry = 0 /\ waiting = Decks
    /\ paper = <<>> /\ unloaded = <<>> /\ printed = <<>>
    /\ got = [u \in Tapes |-> <<>>] /\ cards = <<>>
    /\ asked = [at |-> <<0, 0, 0>>, n |-> 0, w |-> 0]
    /\ written = [a \in (0 .. Tracks - 1) \X (0 .. Heads - 1) \X (0 .. Sectors - 1) |->
                    [n \in 0 .. SectorSize - 1 |-> 0]]

Tape607 ==
    \/ \E u \in Tapes : TapeSelect(u)
    \/ TapeRewind \/ TapeRead \/ TapeWord
    \/ \E f \in {"status", "none"} : TapeOther(f)

Disk6603 ==
    \/ \E t \in 0 .. Tracks - 1, h \in 0 .. Heads - 1 : SelectCylinder(t, h)
    \/ \E f \in {"diskRead", "diskWrite"}, s \in 0 .. Sectors - 1 : SectorFunction(f, s)
    \/ DiskStatus \/ DiskReads \/ DiskWrites

Reader405 == ReaderStatus \/ ReaderRead \/ ReaderWord \/ PutDeck
Printer1612 == PrinterFunction("print") \/ PrinterStatus \/ PrinterWord \/ PrinterLoad

-----------------------------------------------------------------------------
(* However reads are cut off and taken up again, the words of a tape come one after another, *)
(* none is left out or comes twice.                                                         *)
TapeInOrder ==
    \A u \in Tapes :
        got[u] \o rest[u] = FlatRecords(SubSeq(Reels[u], 1, passed[u]))

(* A cell of the disk holds what was last written at its track, head, sector and word, and  *)
(* the PP gets those of the sector it asked for, whatever it selected or asked since.        *)
DiskExact ==
    /\ \A a \in DOMAIN written, n \in 0 .. SectorSize - 1 :
          disk[SeekPosition(a[1], a[2], a[3]) + n] = written[a][n]
    /\ oldFcode = "diskRead" /\ asked.n < SectorSize => disk[fpos] = written[asked.at][asked.n]

(* Cards come in the order of the decks, and each once. *)
CardsOnce ==
    LET now == IF open # NoFile THEN open ELSE IF deck # NoFile THEN deck ELSE <<>>
    IN  cards \o now \o FlatRecords(waiting) = FlatRecords(Decks)

(* What was printed is on paper. *)
PaperWhole == FlatRecords(Append(unloaded, paper)) = printed

OldSafe == TapeInOrder /\ DiskExact /\ CardsOnce /\ PaperWhole
=============================================================================
