------------------------------ MODULE Console ------------------------------
(***************************************************************************)
(* The operator's console (src/console.c), a 6612 whose displays and       *)
(* keyboards are TCP connections.                                          *)
(*                                                                         *)
(* The main thread runs the channel device.  What a PP outputs goes into   *)
(* displayRing; every keyboard poll closes a stretch of output, and when   *)
(* two polls have the same checksum of coordinates, the stretch between    *)
(* them is taken for one display cycle and sent to the displays.  What is  *)
(* typed comes in on the data thread of each connection, which puts it     *)
(* into keyRing for the main thread's polls.  There is no lock.            *)
(*                                                                         *)
(* Time is a choice: whether a display's interval has passed (the set due  *)
(* of SendOutput) and when consoleCheckOutput finds its interval over.     *)
(***************************************************************************)
EXTENDS Integers, Sequences, FiniteSets

CONSTANTS
    Displays,      \* connection slots of the port set
    Typists,       \* those of them whose keyboards are used
    Keys,          \* key codes, of 7 bits
    Coordinates,   \* data of a set X or set Y word
    DispBufSize,   \* cells of displayRing
    KeyBufSize,    \* cells of keyRing
    MaxPolls,      \* entries of pollBuffer
    SendBufSize,   \* bytes of a connection's transmit ring
    Settings       \* records [items, keys, port, mode, functions, date]: the limits of a
                   \* behaviour and the keys of the automatic date (<<>>: none)

ASSUME ConsoleAssumption ==
    /\ Typists \subseteq Displays /\ "main" \notin Displays
    /\ {DispBufSize, KeyBufSize, MaxPolls, SendBufSize} \subseteq Nat
    /\ DispBufSize > 2 /\ KeyBufSize > 1 /\ MaxPolls > 1
    /\ Keys \subseteq 1..127 /\ Coordinates \subseteq Nat
    /\ \A s \in Settings : /\ {s.items, s.keys, s.port, s.mode} \subseteq Nat
                           /\ s.functions \subseteq {"display", "keyin"}
                           /\ s.date \in Seq(Keys)

VARIABLES
    displayRing, displayOut, displayIn,
    pollBuffer, pollIn, currentPoll,
    keyRing, keyOut, keyIn, keyboardSendUp, keyboardTrue, keyMask,
    sendToAll,
    mp,        \* PortParam of each slot: stopped, sendNow, immediate (interval = 0)
    np,        \* "none", "open" (in portVec, consoleConnect to come) or "up"
    free,      \* room in the slot's transmit ring
    fcode,     \* activeDevice->fcode: "none", "display" or "keyin"
    mainAt,    \* what the main thread is in: "idle", "getkey", "date"
    input,     \* consoleQueueKey in progress, per data thread and "main"
    autoDate,  \* the prompt for the date is looked for
    date,      \* keys of the automatic date still to be queued
    setting, made, typed, changes, switched,  \* the bounds and the counters they hold
    frame, shown,                   \* last frame sent to a slot; newest item before it
    accepted, seen, everTrue        \* keys queued, words the PP got, mode history

ringVars == <<displayRing, displayIn, made>>
pollVars == <<pollBuffer, pollIn, currentPoll>>
sentVars == <<displayOut, sendToAll, mp, free, frame, shown>>
getVars  == <<keyOut, keyboardSendUp, keyMask, seen>>
queueVars == <<keyRing, keyIn, input, accepted, typed>>
fixed == <<setting, everTrue, keyboardTrue, changes, switched>>
dateVars == <<autoDate, date>>
consoleVars == <<ringVars, pollVars, sentVars, getVars, queueVars, fixed, np, fcode, mainAt,
          autoDate, date>>

Producers == Displays \cup {"main"}
Up(key) == 128 + key           \* key | 0200
IsUp(key) == key >= 128
NoItem == [item |-> 0, part |-> 0, of |-> 0]
After(i, n, size) == (i + n) % size

-----------------------------------------------------------------------------
(* Display output.  An item is one or two bytes that belong together. *)

Connected(d) == np[d] # "none"
Immediate(d) == ~mp[d].stopped /\ Connected(d) /\ mp[d].immediate

Sent(room, n) == IF n <= room THEN room - n ELSE room      \* dtSend: all or nothing

\* Mutant: room is tested for the first byte alone.
ByteTestsFirst(s, n, id) ==
    IF After(s.in, 1, DispBufSize) = displayOut
    THEN s
    ELSE [ring |-> [i \in DOMAIN s.ring |->
                       IF \E p \in 1..n : i = After(s.in, p - 1, DispBufSize)
                       THEN [item |-> id, of |-> n,
                             part |-> CHOOSE p \in 1..n : i = After(s.in, p - 1, DispBufSize)]
                       ELSE s.ring[i]],
          in |-> After(s.in, n, DispBufSize)]

(* Store an item of n bytes if it fits before displayOut. *)
Byte(s, n, id) ==
    IF \E i \in 1..n : After(s.in, i, DispBufSize) = displayOut
    THEN s
    ELSE [ring |-> [i \in DOMAIN s.ring |->
                       IF \E p \in 1..n : i = After(s.in, p - 1, DispBufSize)
                       THEN [item |-> id, of |-> n,
                             part |-> CHOOSE p \in 1..n : i = After(s.in, p - 1, DispBufSize)]
                       ELSE s.ring[i]],
          in |-> After(s.in, n, DispBufSize)]

Here == [ring |-> displayRing, in |-> displayIn]

(* The output of k items of n bytes each, to the ring and to the displays that want all. *)
OutputItem(n, k) ==
    LET s == IF k = 1 THEN Byte(Here, n, made + 1) ELSE Byte(Byte(Here, n, made + 1), n, made + 2)
    IN  /\ made + k <= setting.items
        /\ made' = made + k
        /\ displayRing' = s.ring
        /\ displayIn' = s.in
        /\ free' = [d \in Displays |->
                       IF ~Immediate(d) THEN free[d]
                       ELSE IF k = 1 THEN Sent(free[d], n) ELSE Sent(Sent(free[d], n), n)]
        /\ UNCHANGED <<displayOut, sendToAll, mp, frame, shown>>

(* consoleFunc: a new mode, or keyboard input. *)
Select(function) ==
    /\ mainAt = "idle" /\ function \in setting.functions
    /\ OutputItem(1, 1)
    /\ fcode' = function
    /\ UNCHANGED <<pollVars, getVars, queueVars, fixed, np, mainAt, dateVars>>

(* consoleIo, a word with two characters.  It may complete the date prompt, *)
(* which is answered if nothing is typed ahead. *)
Characters ==
    /\ mainAt = "idle" /\ fcode = "display"
    /\ OutputItem(1, 2)
    /\ \/ UNCHANGED <<dateVars, mainAt>>
       \/ /\ autoDate /\ autoDate' = FALSE
          /\ IF keyOut = keyIn /\ ~keyboardTrue
             THEN date' = setting.date /\ mainAt' = "date"
             ELSE UNCHANGED <<date, mainAt>>
    /\ UNCHANGED <<pollVars, getVars, queueVars, fixed, np, fcode>>

(* consoleIo, a coordinate: consoleSetXY. *)
SetXY(data) ==
    /\ mainAt = "idle" /\ fcode = "display"
    /\ OutputItem(2, 1)
    /\ currentPoll' = [currentPoll EXCEPT !.sum1 = @ + data, !.sum2 = @ + currentPoll.sum1 + data]
    /\ UNCHANGED <<pollBuffer, pollIn, getVars, queueVars, fixed, np, fcode, mainAt, dateVars>>

Span(start, end) == (end - start) % DispBufSize
Stretch(start, end) ==
    [i \in 1..Span(start, end) |-> displayRing[After(start, i - 1, DispBufSize)]]

Newest(f) == IF f = <<>> THEN 0 ELSE f[Len(f)].item

(* consoleSendOutput and consoleSendFrame: the range goes out if all of it fits, *)
(* then the end of block. *)
SendOutput(start, end) ==
    \E due \in SUBSET Displays :
       LET goes == {d \in Displays : /\ ~mp[d].stopped /\ Connected(d) /\ ~mp[d].immediate
                                     /\ sendToAll \/ mp[d].sendNow \/ d \in due}
           fits == {d \in goes : Span(start, end) <= free[d]}
       IN  /\ mp' = [d \in Displays |-> IF d \in goes THEN [mp[d] EXCEPT !.sendNow = FALSE]
                                                      ELSE mp[d]]
           /\ free' = [d \in Displays |-> IF d \in goes
                                          THEN Sent(Sent(free[d], Span(start, end)), 1)
                                          ELSE free[d]]
           /\ frame' = [d \in Displays |-> IF d \in fits THEN Stretch(start, end) ELSE frame[d]]
           /\ shown' = [d \in Displays |->
                           IF d \in fits /\ frame[d] # <<>> THEN Newest(frame[d]) ELSE shown[d]]
           /\ displayOut' = end
           /\ sendToAll' = FALSE

\* Mutant: the sums are reset, the start is not.
ReinitPollSums == currentPoll' = [currentPoll EXCEPT !.sum1 = 0, !.sum2 = 0]

ReinitPoll == currentPoll' = [sum1 |-> 0, sum2 |-> 0, start |-> displayIn]

(* The entries of pollBuffer whose checksum is that of the current poll. *)
Matches == {i \in 0..(pollIn - 1) : /\ pollBuffer[i].sum1 = currentPoll.sum1
                                    /\ pollBuffer[i].sum2 = currentPoll.sum2}

(* consolePoll: a cycle is found, or one more poll is recorded, or there are too many. *)
consolePoll ==
    \/ /\ pollIn = MaxPolls - 1
       /\ UNCHANGED <<pollVars, sentVars>>
    \/ /\ pollIn # MaxPolls - 1
       /\ Matches # {}
       /\ LET i == CHOOSE i \in Matches : \A j \in Matches : j <= i
          IN  SendOutput(pollBuffer[i].start, currentPoll.start)
       /\ pollBuffer' = [pollBuffer EXCEPT ![0] = currentPoll]
       /\ pollIn' = 1
       /\ ReinitPoll
    \/ /\ pollIn # MaxPolls - 1
       /\ Matches = {}
       /\ pollBuffer' = [pollBuffer EXCEPT ![pollIn] = currentPoll]
       /\ pollIn' = pollIn + 1
       /\ ReinitPoll
       /\ UNCHANGED sentVars

\* Mutant: only the polls are sent.
CheckOutputPolls ==
    /\ mainAt = "idle"
    /\ displayIn # displayOut /\ pollIn # 0
    /\ SendOutput(pollBuffer[0].start, currentPoll.start)
    /\ pollIn' = 0
    /\ UNCHANGED <<pollBuffer, currentPoll, ringVars, getVars, queueVars, fixed, np, fcode,
                   mainAt, dateVars>>

(* consoleCheckOutput, when no frame went out for an interval. *)
CheckOutput ==
    /\ mainAt = "idle"
    /\ displayIn # displayOut
    /\ IF pollIn = 0
       THEN /\ SendOutput(displayOut, displayIn)
            /\ ReinitPoll
            /\ UNCHANGED pollIn
       ELSE /\ SendOutput(pollBuffer[0].start, currentPoll.start)
            /\ pollIn' = 0
            /\ UNCHANGED currentPoll
    /\ UNCHANGED <<pollBuffer, ringVars, getVars, queueVars, fixed, np, fcode, mainAt, dateVars>>

-----------------------------------------------------------------------------
(* Keyboard input to the PP. *)

(* consoleIo with the keyboard selected begins with the poll. *)
Poll ==
    /\ mainAt = "idle" /\ fcode = "keyin"
    /\ consolePoll
    /\ mainAt' = "getkey"
    /\ UNCHANGED <<ringVars, getVars, queueVars, fixed, np, fcode, dateVars>>

(* The word the PP gets: the keys that are down, ORed.  It is kept as their set. *)
Deliver(mask) ==
    /\ seen' = IF mask = {} THEN seen ELSE Append(seen, mask)
    /\ fcode' = "none"
    /\ mainAt' = "idle"

(* One round of consoleIo's loop: consoleGetKey and what is made of the key. *)
NoNews ==
    /\ mainAt = "getkey"
    /\ keyboardSendUp \/ keyOut = keyIn
    /\ keyboardSendUp' = FALSE
    /\ keyMask' = IF keyboardTrue THEN keyMask ELSE {}
    /\ Deliver(keyMask')
    /\ UNCHANGED <<keyOut, sendToAll>>

\* Mutant: no word of 0 between two keys.
GetKeyNoUp ==
    LET key == keyRing[keyOut]
    IN  /\ mainAt = "getkey" /\ keyOut # keyIn
        /\ keyOut' = After(keyOut, 1, KeyBufSize)
        /\ sendToAll' = TRUE
        /\ keyMask' = IF IsUp(key) THEN keyMask \ {key - 128} ELSE keyMask \cup {key}
        /\ UNCHANGED keyboardSendUp
        /\ IF keyboardTrue THEN UNCHANGED <<fcode, mainAt, seen>> ELSE Deliver(keyMask')

GetKey ==
    LET key == keyRing[keyOut]
    IN  /\ mainAt = "getkey"
        /\ ~keyboardSendUp /\ keyOut # keyIn
        /\ keyOut' = After(keyOut, 1, KeyBufSize)
        /\ sendToAll' = TRUE
        /\ IF keyboardTrue
           THEN /\ keyMask' = IF IsUp(key) THEN keyMask \ {key - 128} ELSE keyMask \cup {key}
                /\ UNCHANGED <<keyboardSendUp, fcode, mainAt, seen>>
           ELSE /\ keyMask' = IF IsUp(key) THEN {} ELSE keyMask \cup {key}
                /\ keyboardSendUp' = ~IsUp(key)
                /\ Deliver(keyMask')

KeyIn ==
    /\ NoNews \/ GetKey
    /\ UNCHANGED <<displayOut, mp, free, frame, shown, ringVars, pollVars, queueVars, fixed,
                   np, dateVars>>

(* consoleSetKeyboardTrue, an operator's command. *)
SetKeyboardTrue ==
    /\ mainAt = "idle"
    /\ switched < setting.mode
    /\ switched' = switched + 1
    /\ keyboardTrue' = ~keyboardTrue
    /\ everTrue' = TRUE
    /\ OutputItem(1, 1)
    /\ UNCHANGED <<setting, changes, pollVars, getVars, queueVars, np, fcode, mainAt, dateVars>>

-----------------------------------------------------------------------------
(* Keyboard input from a connection: consoleInput on its data thread, and   *)
(* the automatic date on the main thread, both by consoleQueueKey.          *)

unqueued == <<autoDate, displayRing, displayIn, made, pollVars, sentVars, getVars, fixed, np, fcode>>

QueueKey(p, key) ==
    /\ input[p].at = "idle"
    /\ input' = [input EXCEPT ![p] = [at |-> "test", key |-> key,
                                      nextin |-> After(keyIn, 1, KeyBufSize)]]

KeyByte(d) ==
    \E key \in Keys \cup {Up(k) : k \in Keys} :
       /\ d \in Typists /\ np[d] = "up"
       /\ typed < setting.keys
       /\ typed' = typed + 1
       /\ QueueKey(d, key)
       /\ UNCHANGED <<keyRing, keyIn, accepted, mainAt, date, unqueued>>

DateByte ==
    /\ mainAt = "date" /\ date # <<>>
    /\ QueueKey("main", Head(date))
    /\ date' = Tail(date)
    /\ UNCHANGED <<keyRing, keyIn, accepted, typed, mainAt, unqueued>>

DateDone ==
    /\ mainAt = "date" /\ date = <<>> /\ input["main"].at = "idle"
    /\ mainAt' = "idle"
    /\ UNCHANGED <<keyRing, keyIn, accepted, typed, input, date, unqueued>>

(* if (nextin != keyOut) *)
QueueTest(p) ==
    /\ input[p].at = "test"
    /\ input' = [input EXCEPT ![p].at = IF input[p].nextin = keyOut THEN "idle" ELSE "store"]
    /\ UNCHANGED <<keyRing, keyIn, accepted, typed, mainAt, date, unqueued>>

(* keyRing[keyIn] = ch.  The build may use the keyIn that nextin was made from *)
(* or read it again.                                                          *)
QueueStore(p) ==
    \E i \in {keyIn, After(input[p].nextin, -1, KeyBufSize)} :
       /\ input[p].at = "store"
       /\ input' = [input EXCEPT ![p].at = "advance"]
       /\ keyRing' = [keyRing EXCEPT ![i] = input[p].key]
       /\ UNCHANGED <<keyIn, accepted, typed, mainAt, date, unqueued>>

(* keyIn = nextin *)
QueueAdvance(p) ==
    /\ input[p].at = "advance"
    /\ input' = [input EXCEPT ![p].at = "idle"]
    /\ keyIn' = input[p].nextin
    /\ accepted' = Append(accepted, input[p].key)
    /\ UNCHANGED <<keyRing, typed, mainAt, date, unqueued>>

-----------------------------------------------------------------------------
(* The rest of consoleInput, and consoleConnect. *)

unchangedByPort == <<ringVars, pollVars, displayOut, sendToAll, shown, getVars, queueVars,
                     setting, switched, everTrue, keyboardTrue, fcode, mainAt, dateVars>>

Change(d) ==
    /\ input[d].at = "idle"
    /\ changes < setting.port
    /\ changes' = changes + 1
    /\ UNCHANGED <<frame, unchangedByPort>>

Xoff(d) == /\ np[d] = "up"
           /\ mp' = [mp EXCEPT ![d].stopped = TRUE]
           /\ Change(d) /\ UNCHANGED <<np, free>>

Xon(d) == /\ np[d] = "up"
          /\ mp' = [mp EXCEPT ![d].stopped = FALSE, ![d].sendNow = TRUE]
          /\ Change(d) /\ UNCHANGED <<np, free>>

Rate(d) == /\ np[d] = "up"
           /\ \E zero \in BOOLEAN : mp' = [mp EXCEPT ![d].immediate = zero]
           /\ Change(d) /\ UNCHANGED <<np, free>>

(* A connection takes the slot; its callback follows on the data thread. *)
Connect(d) == /\ np[d] = "none"
              /\ np' = [np EXCEPT ![d] = "open"]
              /\ free' = [free EXCEPT ![d] = SendBufSize]
              /\ Change(d) /\ UNCHANGED mp

Callback(d) == /\ np[d] = "open"
               /\ np' = [np EXCEPT ![d] = "up"]
               /\ mp' = [mp EXCEPT ![d].stopped = TRUE, ![d].immediate = FALSE]
               /\ UNCHANGED <<changes, free, frame, unchangedByPort>>

Disconnect(d) == /\ np[d] = "up"
                 /\ np' = [np EXCEPT ![d] = "none"]
                 /\ Change(d) /\ UNCHANGED <<mp, free>>

(* The send thread takes what is in the transmit ring. *)
Drain(d) == /\ free[d] < SendBufSize
            /\ free' = [free EXCEPT ![d] = SendBufSize]
            /\ UNCHANGED <<changes, mp, np, frame, unchangedByPort>>

-----------------------------------------------------------------------------
ConsoleInit ==
    /\ displayRing = [i \in 0..(DispBufSize - 1) |-> NoItem]
    /\ displayOut = 0 /\ displayIn = 0
    /\ pollBuffer = [i \in 0..(MaxPolls - 1) |-> [sum1 |-> 0, sum2 |-> 0, start |-> 0]]
    /\ pollIn = 0
    /\ currentPoll = [sum1 |-> 0, sum2 |-> 0, start |-> 0]
    /\ keyRing = [i \in 0..(KeyBufSize - 1) |-> 0]
    /\ keyOut = 0 /\ keyIn = 0
    /\ keyboardSendUp = FALSE /\ keyboardTrue \in BOOLEAN /\ keyMask = {}
    /\ sendToAll = FALSE
    /\ mp = [d \in Displays |-> [stopped |-> TRUE, sendNow |-> FALSE, immediate |-> FALSE]]
    /\ np = [d \in Displays |-> "up"]
    /\ free = [d \in Displays |-> SendBufSize]
    /\ fcode = "none" /\ mainAt = "idle"
    /\ input = [p \in Producers |-> [at |-> "idle", key |-> 0, nextin |-> 0]]
    /\ setting \in Settings
    /\ autoDate = (setting.date # <<>>) /\ date = <<>>
    /\ made = 0 /\ typed = 0 /\ changes = 0 /\ switched = 0
    /\ frame = [d \in Displays |-> <<>>] /\ shown = [d \in Displays |-> 0]
    /\ accepted = <<>> /\ seen = <<>> /\ everTrue = keyboardTrue

Main == \/ \E function \in {"display", "keyin"} : Select(function)
        \/ Characters
        \/ \E data \in Coordinates : SetXY(data)
        \/ Poll \/ KeyIn \/ CheckOutput \/ SetKeyboardTrue \/ DateByte \/ DateDone

Queue(p) == QueueTest(p) \/ QueueStore(p) \/ QueueAdvance(p)

DataThread(d) == \/ KeyByte(d) \/ Xoff(d) \/ Xon(d) \/ Rate(d)
                 \/ Connect(d) \/ Callback(d) \/ Disconnect(d)

ConsoleNext == \/ Main
        \/ \E p \in Producers : Queue(p)
        \/ \E d \in Displays : DataThread(d) \/ Drain(d)

ConsoleSpec == ConsoleInit /\ [][ConsoleNext]_consoleVars

(* The main loop calls consoleCheckOutput for ever, and carries out what it began. *)
Fairness == WF_consoleVars(CheckOutput) /\ WF_consoleVars(KeyIn) /\ WF_consoleVars(DateByte \/ DateDone)
                /\ \A p \in Producers : WF_consoleVars(Queue(p))
ConsoleFairSpec == ConsoleSpec /\ Fairness

-----------------------------------------------------------------------------
(* Types: every index stays in its ring or table. *)
ConsoleTypeOK ==
    /\ displayOut \in 0..(DispBufSize - 1) /\ displayIn \in 0..(DispBufSize - 1)
    /\ pollIn \in 0..(MaxPolls - 1)
    /\ currentPoll.start \in 0..(DispBufSize - 1)
    /\ keyOut \in 0..(KeyBufSize - 1) /\ keyIn \in 0..(KeyBufSize - 1)
    /\ keyMask \subseteq Keys
    /\ free \in [Displays -> 0..SendBufSize]
    /\ np \in [Displays -> {"none", "open", "up"}]
    /\ fcode \in {"none", "display", "keyin"} /\ mainAt \in {"idle", "getkey", "date"}

(* The polls divide what has not been sent, without a gap: the first begins at *)
(* displayOut, each begins no earlier than those before.  So a cycle, or all   *)
(* polls, or the whole ring may be sent and nothing stored is passed over      *)
(* unless a repeated cycle is ("nothing will be lost", console.c:117).         *)
Starts == [i \in 0..pollIn |-> IF i = pollIn THEN currentPoll.start ELSE pollBuffer[i].start]

PollsInOrder ==
    /\ Starts[0] = displayOut
    /\ \A i, j \in 0..pollIn : i <= j => Span(displayOut, Starts[i]) <= Span(displayOut, Starts[j])
    /\ Span(displayOut, currentPoll.start) <= Span(displayOut, displayIn)

(* The type invariant, and the order of the polls.                             *)
ConsoleSafe == ConsoleTypeOK /\ PollsInOrder

(* A frame is made of whole items, in the order in which they were output, and *)
(* all of them newer than those of the frame before: no display gets half a    *)
(* coordinate, or a cell of the ring that was overwritten.                     *)
FramesWhole ==
    \A d \in Displays :
       LET f == frame[d] IN
       /\ f # <<>> => f[1].item > shown[d] /\ f[1].part = 1 /\ f[Len(f)].part = f[Len(f)].of
       /\ \A i \in 1..(Len(f) - 1) :
             IF f[i].part < f[i].of THEN f[i + 1] = [f[i] EXCEPT !.part = 2]
                                    ELSE f[i + 1].item > f[i].item /\ f[i + 1].part = 1

(* The keys that were taken into the ring and that are still there, or were read from it. *)
InKeyRing == [i \in 1..((keyIn - keyOut) % KeyBufSize) |-> keyRing[After(keyOut, i - 1, KeyBufSize)]]
Read == SubSeq(accepted, 1, Len(accepted) - Len(InKeyRing))
Presses(n) == {i \in 1..n : ~IsUp(accepted[i])}

(* With rollover, the PP sees each key that was taken into the ring as a word  *)
(* of its own, once and in order.                                              *)
KeysSeen ==
    /\ accepted = Read \o InKeyRing
    /\ ~everTrue => /\ Len(seen) = Cardinality(Presses(Len(Read)))
                    /\ \A i \in Presses(Len(Read)) : seen[Cardinality(Presses(i))] = {Read[i]}

(* With the true keyboard, a key the PP sees as down is one that was pressed   *)
(* and whose release it has not read yet; also after the operator changed the  *)
(* mode.                                                                       *)
Pressed == {k \in Keys : \E i \in DOMAIN Read :
               /\ Read[i] = k /\ \A j \in DOMAIN Read : j > i => Read[j] # Up(k)}

NoStuckKey == keyMask \subseteq Pressed

(* The PP sees the keyboard as the operator works it, in either mode.          *)
KeysHeard == KeysSeen /\ NoStuckKey

(* What goes to the displays and what comes from the keyboard, in one invariant. *)
TrafficWhole == FramesWhole /\ KeysHeard

(* Stored output goes out, found cycle or not: also when pollBuffer is full.   *)
OutputGoesOut == (displayIn # displayOut) ~> (displayIn = displayOut)

=============================================================================
