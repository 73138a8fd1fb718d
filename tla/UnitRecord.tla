----------------------------- MODULE UnitRecord -----------------------------
(***************************************************************************)
(* Cards and paper: a 6681 data channel converter (src/dcc6681.c) with a    *)
(* 3447 card reader (src/cr3447.c), a 3446 card punch (src/cp3446.c) and a  *)
(* line printer (src/lp3000.c) on one channel.                             *)
(*                                                                         *)
(* A card is its kind and the place where it lies; a word that is read is   *)
(* the columns it comes from.  A word that is punched or printed is a       *)
(* number; a space and the end of a line are items of their own.  Codes,    *)
(* blanks at the end of a card, form controls and words of status are left  *)
(* out.                                                                     *)
(*                                                                         *)
(* The PP keeps the rules of the drivers: it disconnects before it starts a *)
(* new function and after its last word was taken; it gives a function word *)
(* only to an equipment that is connected.  Unless plan.overread it reads no *)
(* more words than a card has.  Decks are not empty and not taken away from  *)
(* under the reader; the operator unloads the reader when at most one deck   *)
(* waits, and files are renamed at different seconds.                       *)
(***************************************************************************)
EXTENDS Integers, Sequences, FiniteSets

CONSTANTS
    Columns,     \* of a card
    Plans        \* [parts, decks, words, interrupts, separate, overread]: the equipment there is,
                 \* the decks the operator loads, how many words and lines there are, the
                 \* conditions the PP selects, and how the printer and the PP are set up

VARIABLES
    converter,      \* [selected, connected, status]: DccControl
    interrupting,   \* equipment that interrupts
    fcode,          \* function of the transfer that is under way; "word" when the channel is
                    \* still active behind the word of a connect or a function in mode 2
    held,           \* <<w>>: word in the channel that the punch has not taken; <<>>: none
    moving,         \* equipment with a card in motion: not 20 cycles ago
    reader, punch, printer,
    due,            \* cards the PP has to come (history)
    sent,           \* words punched and printed (history)
    stale,          \* equipment whose conditions changed without the converter being told
    plan            \* what is left of the plan

unitVars == <<converter, interrupting, fcode, held, moving, reader, punch, printer, due, sent, stale, plan>>

None == "none"
Equipment == {"cr", "cp", "lp"}
Eoi == [kind |-> "eoi", deck |-> 0, n |-> 0]
ReadyStatus == {"ready", "readyInt"}
EofStatus == {"eof", "empty", "eoiInt", "errorInt"}
Selectable == {"readyInt", "eoiInt", "errorInt"}
Flat(files) ==
    LET upTo[i \in 0 .. Len(files)] == IF i = 0 THEN <<>> ELSE upTo[i - 1] \o files[i]
    IN  upTo[Len(files)]

-----------------------------------------------------------------------------
(* The reader: open and deck are its file and what is left in it. *)

(* The card is up: status tells its kind. *)
CardUp(r, card, rest) ==
    [r EXCEPT !.card = card, !.deck = rest, !.col = 0,
              !.status = @ \cup (IF card.kind # "text" /\ ~r.binary THEN {"file"} ELSE {})
                           \cup (IF card.kind # "text" THEN {"binary"} ELSE {})]

\* cr3447NextDeck.
NextDeck(r) ==
    IF r.waiting = <<>> THEN [r EXCEPT !.open = FALSE, !.status = EofStatus]
    ELSE LET first == Head(r.waiting)
         IN  CardUp([r EXCEPT !.open = TRUE, !.waiting = Tail(@), !.status = ReadyStatus],
                    Head(first), Tail(first))

\* Mutant: an end of information card is made up behind every deck.
NextCardAlwaysEoi(r) ==
    IF r.deck # <<>> THEN CardUp(r, Head(r.deck), Tail(r.deck))
    ELSE IF r.card # Eoi THEN CardUp(r, Eoi, <<>>)
    ELSE NextDeck(r)

(* cr3447NextCard: behind a deck without an end of information card one is made up. *)
NextCard(r) ==
    IF r.deck # <<>> THEN CardUp(r, Head(r.deck), Tail(r.deck))
    ELSE IF r.card.kind # "eoi" THEN CardUp(r, Eoi, <<>>)
    ELSE NextDeck(r)

(* Cards of a deck as the PP gets them. *)
Delivered(deck) == IF deck[Len(deck)].kind = "eoi" THEN deck ELSE Append(deck, Eoi)
Passed(r) == IF r.open THEN Tail(due) ELSE due

-----------------------------------------------------------------------------
(* Interrupts. *)
Interrupts(e) == CASE e = "cr" -> reader.status \cap reader.mask # {}
                   [] e = "cp" -> punch.status \cap punch.mask # {}
                   [] e = "lp" -> printer.int # {}

(* dcc6681Interrupt, called by equipment e when its conditions are those of the next state: the *)
(* flag that changes is that of the connected equipment.                                       *)
Tells(e) ==
    /\ interrupting' = IF Interrupts(e)' THEN interrupting \cup {converter.connected}
                       ELSE interrupting \ {converter.connected}
    /\ stale' = stale \ {e}

(* Masks of reader and punch. *)
MaskFunction(d, f) ==
    CASE f.op = "gate" -> d      \* and others without effect
      [] f.op = "binary" -> [d EXCEPT !.binary = TRUE]
      [] f.op = "bcd" -> [d EXCEPT !.binary = FALSE]
      [] f.op = "clear" -> [d EXCEPT !.mask = {}, !.binary = FALSE]
      [] f.op = "select" -> [d EXCEPT !.mask = @ \cup {f.c}, !.status = @ \ {f.c}]
      [] f.op = "release" -> [d EXCEPT !.mask = @ \ {f.c}, !.status = @ \ {f.c}]

MaskFunctions ==
    [op : {"gate", "binary", "bcd", "clear"}, c : {None}]
    \cup [op : {"select", "release"}, c : plan.interrupts]

\* One of the words and lines there are.
AWord == plan.words > 0 /\ plan' = [plan EXCEPT !.words = @ - 1]

Idle == fcode = None /\ converter.selected
Connected(e) == converter.connected = e /\ e \in plan.parts

(* A function code given to the connected equipment, as mode 1 or as a word (mode 2); behind a   *)
(* word the PP disconnects the channel.                                                        *)
Accepts(mode) ==
    IF mode = 1 THEN converter' = [converter EXCEPT !.status = "ready"] /\ UNCHANGED fcode
    ELSE UNCHANGED converter /\ fcode' = "word"

ReaderFunction(mode, f) ==
    /\ Idle /\ Connected("cr")
    /\ reader' = MaskFunction(reader, f)
    /\ Accepts(mode) /\ Tells("cr")
    /\ UNCHANGED <<held, moving, punch, printer, due, sent, plan>>

PunchFunction(mode, f) ==
    /\ Idle /\ Connected("cp")
    /\ punch' = MaskFunction(punch, f)
    /\ Accepts(mode) /\ Tells("cp")
    /\ UNCHANGED <<held, moving, reader, printer, due, sent, plan>>

(* Functions of the printer (lp3000Func). *)

\* The current interrupt is kept after a line was printed.
Select(l, c) ==
    [l EXCEPT !.enabled = @ \cup {c}, !.keepInt = FALSE,
              !.int = IF l.keepInt THEN l.int \cup {c} ELSE l.int \ {c}]

PrinterInterrupts(mode, c, on) ==
    /\ Idle /\ Connected("lp")
    /\ printer' = IF on THEN Select(printer, c)
                  ELSE [printer EXCEPT !.enabled = @ \ {c}, !.int = @ \ {c}]
    /\ Accepts(mode) /\ Tells("lp")
    /\ UNCHANGED <<held, moving, reader, punch, due, sent, plan>>

(* The file is renamed and a new one is opened (lp3000Unload). *)
Unloaded(l) == [l EXCEPT !.files = Append(@, l.lines), !.lines = <<>>]

(* The release at the end of a job; the converter is not told. *)
Release(mode) ==
    LET released == [printer EXCEPT !.int = {}, !.printed = FALSE]
    IN  /\ Idle /\ Connected("lp")
        /\ printer' = IF printer.printed /\ plan.separate THEN Unloaded(released) ELSE released
        /\ sent' = IF printer.printed THEN [sent EXCEPT !.jobs = Append(@, <<>>)] ELSE sent
        /\ stale' = IF printer.int = {} THEN stale ELSE stale \cup {"lp"}
        /\ Accepts(mode)
        /\ UNCHANGED <<held, moving, reader, punch, interrupting, due, plan>>

Say(item) == sent' = [sent EXCEPT !.jobs[Len(sent.jobs)] = Append(@, item)]

Space(mode) ==
    /\ Idle /\ Connected("lp") /\ AWord
    /\ printer' = [printer EXCEPT !.lines = Append(@, <<"space", 0>>)] /\ Say(<<"space", 0>>)
    /\ Accepts(mode)
    /\ UNCHANGED <<held, moving, reader, punch, interrupting, due, stale>>

FillMemory(mode) ==
    /\ Idle /\ Connected("lp")
    /\ printer' = [printer EXCEPT !.fill = TRUE]
    /\ Accepts(mode)
    /\ UNCHANGED <<held, moving, reader, punch, interrupting, due, sent, stale, plan>>

-----------------------------------------------------------------------------
(* The converter (dcc6681Func). *)

still == <<held, moving, due, sent, plan>>

SelectConverter(on) ==
    /\ fcode = None /\ (on \/ converter.selected)
    /\ converter' = [converter EXCEPT !.selected = on, !.status = "ready"]
    /\ UNCHANGED <<interrupting, fcode, reader, punch, printer, stale, still>>

\* Equipment that is not there is not connected; mode 2 has a word, and a disconnect follows.
Connect(mode, e) ==
    /\ Idle
    /\ converter' = IF e \in plan.parts THEN [converter EXCEPT !.connected = e, !.status = "ready"]
                    ELSE [converter EXCEPT !.connected = None, !.status = "reject"]
    /\ fcode' = IF mode = 1 THEN fcode ELSE "word"
    /\ UNCHANGED <<interrupting, reader, punch, printer, stale, still>>

Tellers == plan.parts \cap {"cr", "cp"}
ConnectedTells == \E e \in Tellers : e = converter.connected /\ Tells(e)

(* One after the other each flag is cleared, and reader and punch tell theirs, which is noted for *)
(* the equipment that was connected: what stays is what the last one behind it says, in the order *)
(* of their numbers, which may be any.  Conditions and masks stay, but their flags do not.       *)
MasterClear ==
    /\ Idle
    /\ converter' = [converter EXCEPT !.status = "ready", !.connected = None]
    /\ \E latest \in Tellers \cup {None} :
          /\ converter.connected \in Tellers => latest # None
          /\ interrupting' = {e \in plan.parts : e = converter.connected /\ latest # None /\ Interrupts(latest)}
          /\ stale' = {e \in plan.parts : IF e = converter.connected THEN e # latest ELSE Interrupts(e)}
    /\ UNCHANGED <<fcode, reader, punch, printer, still>>

Rejected ==
    /\ Idle /\ converter.connected = None
    /\ converter' = [converter EXCEPT !.status = "reject"]
    /\ UNCHANGED <<interrupting, fcode, reader, punch, printer, stale, still>>

(* Status of the converter, ... *)
DccStatus ==
    /\ Idle /\ fcode' = "dccStatus"
    /\ UNCHANGED <<converter, interrupting, reader, punch, printer, stale, still>>

(* ... or of the connected equipment; without one the converter gives its own and says so. *)
StatusRequest ==
    /\ Idle
    /\ fcode' = IF converter.connected = None THEN "dccStatus" ELSE "status"
    /\ converter' = IF converter.connected = None THEN [converter EXCEPT !.status = "reject"]
                    ELSE converter
    /\ UNCHANGED <<reader, punch, printer, still>>
    /\ IF converter.connected \in Tellers THEN ConnectedTells ELSE UNCHANGED <<interrupting, stale>>

Input(toEor) ==
    /\ Idle /\ Connected("cr")
    /\ fcode' = IF toEor THEN "inputToEor" ELSE "input"
    /\ reader' = [reader EXCEPT !.status = ReadyStatus]
    /\ Tells("cr")
    /\ UNCHANGED <<converter, punch, printer, still>>

OutputCards ==
    /\ Idle /\ Connected("cp")
    /\ fcode' = "punch"
    /\ punch' = [punch EXCEPT !.status = ReadyStatus]
    /\ Tells("cp")
    /\ UNCHANGED <<converter, reader, printer, still>>

(* What comes after the function that fills the image memory is not printed. *)
OutputLine ==
    /\ Idle /\ Connected("lp") /\ AWord
    /\ fcode' = IF printer.fill THEN "fill" ELSE "print"
    /\ printer' = [printer EXCEPT !.fill = FALSE, !.int = printer.enabled]
    /\ Tells("lp")
    /\ UNCHANGED <<converter, reader, punch, held, moving, due, sent>>

-----------------------------------------------------------------------------
(* Words (cr3447Io, cp3446Io, lp3000Io). *)

Width(r) == IF r.binary \/ r.card.kind # "text" THEN 1 ELSE 2
Reads == fcode \in {"input", "inputToEor"} /\ "cr" \notin moving

(* The reader gives the next columns, and the PP takes them.  A channel that is to be *)
(* disconnected after input is inactive then, and the reader is not told.            *)
ReadWord ==
    /\ Reads /\ reader.open /\ reader.col < Columns
    /\ AWord
    /\ reader' = [reader EXCEPT !.col = @ + Width(reader), !.disc = FALSE]
    /\ fcode' = IF reader.disc THEN None ELSE fcode
    /\ Tells("cr")
    /\ UNCHANGED <<converter, held, moving, punch, printer, due, sent>>

(* The PP wants more than the card has. *)
CardEnd ==
    LET r == NextCard(reader) IN
    /\ Reads /\ reader.open /\ reader.col >= Columns /\ plan.overread
    /\ reader' = IF fcode = "input" THEN r
                 ELSE [r EXCEPT !.disc = TRUE,
                                !.status = r.status \cup ReadyStatus \cup {"eoiInt"} \cup
                                           (IF "file" \in r.status THEN {"errorInt"} ELSE {})]
    /\ moving' = moving \cup {"cr"}
    /\ due' = Passed(reader)
    /\ Tells("cr")
    /\ UNCHANGED <<converter, fcode, held, punch, printer, sent, plan>>

NoCards ==
    /\ Reads /\ ~reader.open
    /\ reader' = [reader EXCEPT !.status = EofStatus]
    /\ Tells("cr")
    /\ UNCHANGED <<converter, fcode, punch, printer, still>>

(* The card that is punched goes to the file; a new one begins. *)
FlushCard(p) == IF p.card = <<>> THEN p
                ELSE [p EXCEPT !.lines = Append(@, p.card), !.card = <<>>]

PunchWord ==
    /\ fcode = "punch" /\ held = <<>>
    /\ AWord
    /\ held' = <<plan.words>> /\ sent' = [sent EXCEPT !.cards = @ \o held']
    /\ UNCHANGED <<converter, interrupting, fcode, moving, reader, punch, printer, due, stale>>

PunchWidth == IF punch.binary THEN 1 ELSE 2
Punched(p) == Len(p.card) * PunchWidth

(* The word waits while a full card goes. *)
PunchTakes ==
    /\ fcode = "punch" /\ held # <<>> /\ "cp" \notin moving
    /\ IF Punched(punch) >= Columns
       THEN punch' = FlushCard(punch) /\ moving' = moving \cup {"cp"} /\ UNCHANGED held
       ELSE punch' = [punch EXCEPT !.card = @ \o held] /\ held' = <<>> /\ UNCHANGED moving
    /\ Tells("cp")
    /\ UNCHANGED <<converter, fcode, reader, printer, due, sent, plan>>

(* Reader and punch tell whenever they are asked for a word or given one, also when they do not *)
(* take part in it.                                                                          *)
Polled ==
    /\ fcode \in {"status", "input", "inputToEor", "punch"} /\ converter.connected \in Tellers
    /\ UNCHANGED <<converter, fcode, reader, punch, printer, still>>
    /\ ConnectedTells

CardMoved(e) ==
    /\ e \in moving /\ moving' = moving \ {e}
    /\ UNCHANGED <<converter, interrupting, fcode, held, reader, punch, printer, due, sent, stale, plan>>

PrintWord ==
    /\ fcode \in {"print", "fill"}
    /\ AWord
    /\ IF fcode = "fill" THEN UNCHANGED <<printer, sent>>
       ELSE /\ printer' = [printer EXCEPT !.lines = Append(@, <<"word", plan.words>>),
                                          !.printed = TRUE, !.keepInt = TRUE]
            /\ Say(<<"word", plan.words>>)
    /\ UNCHANGED <<converter, interrupting, fcode, held, moving, reader, punch, due, stale>>

(* dcc6681Disconnect tells the equipment that is connected, whatever the function was. *)
DisconnectReader ==
    LET r == [reader EXCEPT !.status = @ \cup {"eoiInt"}]
        cut == reader.open /\ reader.col # 0
    IN  /\ reader' = IF cut THEN NextCard(r) ELSE r
        /\ moving' = IF cut THEN moving \cup {"cr"} ELSE moving
        /\ due' = IF cut THEN Passed(reader) ELSE due
        \* The converter is told before the next card is up.
        /\ interrupting' = IF r.status \cap r.mask # {} THEN interrupting \cup {"cr"}
                           ELSE interrupting \ {"cr"}
        /\ stale' = IF Interrupts("cr")' # (r.status \cap r.mask # {}) THEN stale \cup {"cr"}
                    ELSE stale \ {"cr"}
        /\ UNCHANGED <<punch, printer, sent>>

DisconnectPunch ==
    /\ punch' = FlushCard([punch EXCEPT !.status = @ \cup {"eoiInt"}])
    /\ moving' = IF punch.card = <<>> THEN moving ELSE moving \cup {"cp"}
    /\ Tells("cp")
    /\ UNCHANGED <<reader, printer, due, sent>>

DisconnectPrinter ==
    /\ IF fcode = "print" THEN /\ printer' = [printer EXCEPT !.lines = Append(@, <<"line", 0>>)]
                               /\ Say(<<"line", 0>>)
       ELSE UNCHANGED <<printer, sent>>
    /\ UNCHANGED <<interrupting, stale, moving, reader, punch, due>>

Disconnect ==
    /\ fcode # None /\ held = <<>>
    /\ fcode' = None
    /\ CASE converter.connected = "cr" -> DisconnectReader
         [] converter.connected = "cp" -> DisconnectPunch
         [] converter.connected = "lp" -> DisconnectPrinter
         [] OTHER -> UNCHANGED <<interrupting, stale, moving, reader, punch, printer, due, sent>>
    /\ UNCHANGED <<converter, held, plan>>

-----------------------------------------------------------------------------
(* The operator (cr3447Load, cp3446Load, lp3000Load). *)

LoadDeck ==
    /\ "cr" \in plan.parts /\ plan.decks # <<>>
    /\ plan' = [plan EXCEPT !.decks = Tail(@)]
    /\ LET r == [reader EXCEPT !.waiting = Append(@, Head(plan.decks))]
       IN  reader' = IF reader.open THEN r ELSE NextDeck(r)
    /\ moving' = IF reader.open THEN moving ELSE moving \cup {"cr"}
    /\ due' = due \o Delivered(Head(plan.decks))
    /\ stale' = stale \cup {"cr"}
    /\ UNCHANGED <<converter, interrupting, fcode, held, punch, printer, sent>>

UnloadReader ==
    /\ "cr" \in plan.parts /\ Len(reader.waiting) < 2 /\ (reader.open \/ reader.status # EofStatus)
    /\ reader' = [reader EXCEPT !.open = FALSE, !.status = EofStatus, !.waiting = <<>>, !.deck = <<>>]
    /\ due' = <<>>
    /\ stale' = stale \cup {"cr"}
    /\ UNCHANGED <<converter, interrupting, fcode, held, moving, punch, printer, sent, plan>>

UnloadPunch ==
    LET p == FlushCard(punch) IN
    /\ "cp" \in plan.parts /\ p.lines # <<>>
    /\ punch' = [p EXCEPT !.files = Append(@, p.lines), !.lines = <<>>]
    /\ moving' = IF punch.card = <<>> THEN moving ELSE moving \cup {"cp"}
    /\ UNCHANGED <<converter, interrupting, fcode, held, reader, printer, due, sent, stale, plan>>

UnloadPrinter ==
    /\ "lp" \in plan.parts /\ ~plan.separate /\ printer.lines # <<>>
    /\ printer' = Unloaded(printer)
    /\ UNCHANGED <<converter, interrupting, fcode, held, moving, reader, punch, due, sent, stale, plan>>

-----------------------------------------------------------------------------
Init ==
    /\ plan \in Plans
    /\ converter = [selected |-> TRUE, connected |-> None, status |-> "ready"]
    /\ interrupting = {} /\ fcode = None /\ held = <<>> /\ moving = {} /\ stale = {}
    /\ reader = [open |-> FALSE, status |-> EofStatus, mask |-> {}, binary |-> FALSE, col |-> 0,
                 card |-> [Eoi EXCEPT !.kind = "none"], deck |-> <<>>, waiting |-> <<>>, disc |-> FALSE]
    /\ punch = [status |-> ReadyStatus, mask |-> {}, binary |-> FALSE, card |-> <<>>, lines |-> <<>>,
                files |-> <<>>]
    /\ printer = [int |-> {}, enabled |-> {}, fill |-> FALSE, printed |-> FALSE, keepInt |-> FALSE,
                  lines |-> <<>>, files |-> <<>>]
    /\ due = <<>> /\ sent = [cards |-> <<>>, jobs |-> <<<<>>>>]

ConverterFunctions ==
    \/ \E on \in BOOLEAN : SelectConverter(on) \/ Input(on)
    \/ \E mode \in {1, 2}, e \in Equipment : Connect(mode, e)
    \/ MasterClear \/ Rejected \/ DccStatus \/ StatusRequest \/ OutputCards \/ OutputLine

EquipmentFunctions ==
    \E mode \in {1, 2} :
       \/ \E f \in MaskFunctions :
             ReaderFunction(mode, f) \/ PunchFunction(mode, f)
       \/ \E c \in {"ready", "end"}, on \in BOOLEAN : PrinterInterrupts(mode, c, on)
       \/ Release(mode) \/ Space(mode) \/ FillMemory(mode)

Words ==
    \/ ReadWord \/ CardEnd \/ NoCards \/ PunchWord \/ PunchTakes \/ PrintWord \/ Polled
    \/ \E e \in Equipment : CardMoved(e)

Next == \/ ConverterFunctions \/ EquipmentFunctions \/ Words \/ Disconnect
        \/ LoadDeck \/ UnloadReader \/ UnloadPunch \/ UnloadPrinter

Spec == Init /\ [][Next]_unitVars

-----------------------------------------------------------------------------
(* The card that is up is the next of those that were loaded, and behind each deck there is an *)
(* end of information: no card is skipped or comes twice, however transfers are cut off.      *)
CardsInOrder ==
    LET left(i) == Delivered(reader.waiting[i])
    IN  due = (IF ~reader.open THEN <<>>
               ELSE IF reader.deck = <<>> /\ reader.card.kind = "eoi" THEN <<reader.card>>
               ELSE Delivered(<<reader.card>> \o reader.deck))
              \o Flat([i \in DOMAIN reader.waiting |-> left(i)])

(* What was punched and printed is on cards and paper, once and in order; image memory is not; *)
(* with separate files each job has its own.                                                  *)
NothingLost ==
    /\ Flat(Flat(punch.files) \o punch.lines) \o punch.card \o held = sent.cards
    /\ Flat(Append(printer.files, printer.lines)) = Flat(sent.jobs)
    /\ plan.separate => Append(printer.files, printer.lines) = sent.jobs
    /\ \A i \in DOMAIN punch.lines : Len(punch.lines[i]) <= Columns

(* The converter says which equipment has an interrupt that is selected, for each that told it. *)
InterruptsShown ==
    \A e \in plan.parts \ stale : (e \in interrupting) = Interrupts(e)

UnitSafe ==
    /\ converter.connected \in plan.parts \cup {None} /\ interrupting \subseteq plan.parts
    /\ reader.col \in 0 .. Columns + 1 /\ (held # <<>> => fcode = "punch")
    /\ CardsInOrder /\ NothingLost /\ InterruptsShown

(* An input to the end of the record ends with the card: no word comes from behind the place *)
(* where the channel was to be disconnected ("disconnect to indicate EOR").  The code does    *)
(* not keep this: discAfterInput waits for a word, which is one of the next card.            *)
EorEndsCard == [][ReadWord => ~reader.disc]_unitVars
=============================================================================
