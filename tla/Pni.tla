-------------------------------- MODULE Pni --------------------------------
(***************************************************************************)
(* The PNI terminal interface (src/pni.c).  Terminals are connections of a *)
(* port set; PLATO and Framat, its formatter, run in the emulated Cyber    *)
(* and share ECS with the PNI: a key buffer per station, a bit per station *)
(* that says there are keys (abt), a ring of messages to the PNI and one   *)
(* of requests to Framat.  There is no lock.                               *)
(*                                                                         *)
(* The data thread of a connection decodes what is typed and stores keys.  *)
(* The main thread alternates between the Cyber and pniCheck.  PLATO,      *)
(* Framat and the terminals are modelled from what pni.c expects of them.  *)
(***************************************************************************)
EXTENDS Integers, Sequences, SequencesExt

CONSTANTS
    pniStations,   \* number of stations
    IDXLIM,        \* cells of a key buffer
    pniflen,       \* cells of the request ring to Framat
    SendRingSize,  \* bytes of a connection's transmit ring
    Sizes,         \* sizes of data messages
    Strokes,       \* what a terminal sends for one key press: [bytes, key]
    Requests,      \* what Framat sends besides data: "abort", "logout", "type", "newkbd"
    Settings       \* records [users, strokes, stops, messages, loads, kinds, cases]: the most
                   \* of each in a behaviour, the kinds of keys and what the environment does:
                   \*  "early"  users come while PLATO is off
                   \*  "abt"    abt |= bit is interrupted between reading and writing
                   \*  "flow"   flowFlags |= FLOW_XOFF is interrupted likewise
                   \*  "logout" a user is logged out while his terminal has stopped output
                   \*  "late"   a new user comes before PLATO took the keys of the last

Cases == {"early", "abt", "flow", "logout", "late"}
KeyKinds == {"norm", "stop", "esc", "key3", "none"}    \* of keys that are typed

ASSUME PniAssumption ==
    /\ pniStations \in Nat \ {0}
    /\ {IDXLIM, pniflen, SendRingSize} \subseteq Nat \ {0, 1}
    /\ Sizes \subseteq Nat \ {0}
    /\ Requests \subseteq {"abort", "logout", "type", "newkbd"}
    /\ Settings \subseteq [users : Nat, strokes : Nat, stops : Nat, messages : Nat, loads : Nat,
                           kinds : SUBSET KeyKinds, cases : SUBSET Cases]

Stations == 0 .. pniStations - 1
main == -1
PniThreads == Stations \cup {main}     \* the data thread of each station's connection

VARIABLES
    pniActive,
    pp,         \* PortParam: escState, flowFlags, newKbd, forceLogout; np is in link
    link,       \* connection: "free", "welcome", "test", "activate", "up", "gone", "closing"
    bytes,      \* received, not yet read: [byte, n], n the number of the stroke
    store,      \* storeKey in progress, per thread: [at, stat, key, idx, old]
    kb,         \* Keybuf: buf, CKPPIDX and cpidx
    abt,        \* stations whose bit in the process bit list is set
    taking,     \* stations whose keys PLATO is taking
    session,    \* PLATO's user of a station, 0: none (bankadd of the station bank)
    fpnib,      \* messages from Framat
    apnifb,     \* requests to Framat
    mainAt,     \* main thread: "cpu", "store", "data" (output sent), "messages", "ports"
    port,       \* port of pniCheck's second loop
    sent,       \* bytes in a connection's transmit ring
    stopped,    \* terminals that have sent XOFF and not yet XON
    await,      \* what Framat waits for: "pts", "abt" or "nothing"
    user, typed, decoded,      \* users so far; keys this user typed; keys decoded
    setting, users, stops, messages, loads      \* the bounds and what they count

keyVars == <<store, kb, abt>>
cyberVars == <<taking, session, fpnib, await, messages>>
mainVars == <<mainAt, port>>
termVars == <<bytes, stopped, typed, stops>>
userVars == <<user, users, setting>>
pniVars == <<pniActive, pp, link, termVars, keyVars, cyberVars, apnifb, mainVars, sent, decoded,
          userVars, loads>>

OFFKY2 == [class |-> "offky2", user |-> 0, n |-> 0]
TermType == [class |-> "type", user |-> 0, n |-> 0]              \* key 0214
Connected(p) == link[p] \in {"welcome", "test", "activate", "up"}   \* dtConnected (np)
pniLoggedIn(p) == session[p] # 0
Succ(i) == (i + 1) % IDXLIM
NoStore == [at |-> "idle", stat |-> 0, key |-> OFFKY2, idx |-> 0, old |-> {}]
EmptyKeybuf == [buf |-> [i \in 0 .. IDXLIM - 1 |-> OFFKY2], ppidx |-> 0, cpidx |-> 0]
NewPort == [escState |-> "norm", flowFlags |-> {}, newKbd |-> FALSE, forceLogout |-> FALSE]

PniInit ==
    /\ setting \in Settings
    /\ pniActive = FALSE /\ loads = 0
    /\ pp = [p \in Stations |-> NewPort]
    /\ link = [p \in Stations |-> "free"]
    /\ bytes = [p \in Stations |-> <<>>] /\ stopped = {}
    /\ store = [t \in PniThreads |-> NoStore]
    /\ kb = [p \in Stations |-> EmptyKeybuf]
    /\ abt = {} /\ taking = {} /\ session = [p \in Stations |-> 0]
    /\ fpnib = <<>> /\ apnifb = <<>>
    /\ mainAt = "cpu" /\ port = 0
    /\ sent = [p \in Stations |-> 0]
    /\ await = [p \in Stations |-> "nothing"]
    /\ user = [p \in Stations |-> 0] /\ users = 0
    /\ typed = [p \in Stations |-> <<>>] /\ decoded = [p \in Stations |-> <<>>]
    /\ stops = 0 /\ messages = 0

-----------------------------------------------------------------------------
(* storeKey, a step per access to the key buffer. *)

Storing(t) == store[t].at \in {"slot", "pointer", "bit", "write"}

\* The thread goes on to store a key for station p.
Begin(t, at, p, key) == store' = [store EXCEPT ![t] = [@ EXCEPT !.at = at, !.stat = p, !.key = key]]
Finish(t) == store' = [store EXCEPT ![t] = NoStore]

\* The place of the key.  A full buffer takes *offky2* and the stop key only, in the place
\* of the last key.
StoreIndex(t) ==
    LET p == store[t].stat
        last == kb[p].ppidx
        full == Succ(last) = kb[p].cpidx
    IN  /\ store[t].at = "index"
        /\ IF pniActive /\ (~full \/ store[t].key.class \in {"offky2", "stop"})
           THEN store' = [store EXCEPT ![t].at = "slot",
                                       ![t].idx = IF full THEN last ELSE Succ(last)]
           ELSE Finish(t)
        /\ UNCHANGED <<kb, abt>>

StoreSlot(t) ==
    /\ store[t].at = "slot"
    /\ kb' = [kb EXCEPT ![store[t].stat].buf[store[t].idx] = store[t].key]
    /\ store' = [store EXCEPT ![t].at = "pointer"]
    /\ UNCHANGED abt

StorePointer(t) ==
    /\ store[t].at = "pointer"
    /\ kb' = [kb EXCEPT ![store[t].stat].ppidx = store[t].idx]
    /\ store' = [store EXCEPT ![t].at = "bit"]
    /\ UNCHANGED abt

\* Mutant: the bit is set for the first key of an empty buffer only.
StoreBitFirst(t) ==
    LET p == store[t].stat
    IN  /\ store[t].at = "bit"
        /\ abt' = IF kb[p].ppidx = Succ(kb[p].cpidx) THEN abt \cup {p} ELSE abt
        /\ Finish(t)
        /\ UNCHANGED kb

\* "We don't need the readback check ... because nothing else can get in the middle".
StoreBit(t) ==
    /\ store[t].at = "bit"
    /\ \/ abt' = abt \cup {store[t].stat} /\ Finish(t)
       \/ "abt" \in setting.cases /\ store' = [store EXCEPT ![t].at = "write", ![t].old = abt]
          /\ UNCHANGED abt
    /\ UNCHANGED kb

StoreWrite(t) ==
    /\ store[t].at = "write"
    /\ abt' = store[t].old \cup {store[t].stat}
    /\ Finish(t)
    /\ UNCHANGED kb

storeKey(t) ==
    /\ StoreIndex(t) \/ StoreSlot(t) \/ StorePointer(t) \/ StoreBit(t) \/ StoreWrite(t)
    /\ UNCHANGED <<pniActive, pp, link, termVars, cyberVars, apnifb, mainVars, sent, decoded,
                   userVars, loads>>

-----------------------------------------------------------------------------
(* Terminals and the data threads of their connections. *)

\* PLATO has taken all keys of the station, or will log it out behind them.
Settled(p) ==
    \/ kb[p].cpidx = kb[p].ppidx
    \/ kb[p].buf[kb[p].ppidx] = OFFKY2

\* pniWelcome of a new connection.
Arrive(p) ==
    /\ link[p] = "free" /\ users < setting.users
    /\ "early" \in setting.cases \/ pniActive
    /\ "late" \in setting.cases \/ ~pniActive \/ Settled(p)
    /\ users' = users + 1 /\ user' = [user EXCEPT ![p] = users + 1]
    /\ UNCHANGED setting
    /\ link' = [link EXCEPT ![p] = "welcome"]
    /\ typed' = [typed EXCEPT ![p] = <<>>] /\ decoded' = [decoded EXCEPT ![p] = <<>>]
    /\ sent' = [sent EXCEPT ![p] = 0] /\ stopped' = stopped \ {p}
    /\ UNCHANGED <<pniActive, pp, bytes, stops, keyVars, cyberVars, apnifb, mainVars, loads>>

\* Mutant: a new connection goes on with the escape sequence of the last.
WelcomeStateKeepsEsc(p) ==
    /\ link[p] = "welcome"
    /\ pp' = [pp EXCEPT ![p].newKbd = FALSE, ![p].flowFlags = {}]

\* "Initialize port state."
WelcomeState(p) ==
    /\ link[p] = "welcome"
    /\ pp' = [pp EXCEPT ![p].escState = "norm", ![p].newKbd = FALSE, ![p].flowFlags = {}]

\* Mutant: a new user is not kept away from the session of the last.
WelcomeForceNot(p) == UNCHANGED pp

\* "If we're not logged out yet", every key of the new user is to log the station out.
WelcomeForce(p) ==
    pp' = IF pniLoggedIn(p) THEN [pp EXCEPT ![p].forceLogout = TRUE] ELSE pp

\* Room in the transmit ring, and what a dtSend of n bytes leaves in it.
Room(p) == SendRingSize - 1 - sent[p]
Fits(p, n) == Connected(p) /\ n <= Room(p)
Sent(p, n) == [sent EXCEPT ![p] = IF Fits(p, n) THEN @ + n ELSE @]

\* pniActivateStation: flow is on, an abort is due; and the welcome.
pniActivateStation(p) ==
    /\ pp' = [pp EXCEPT ![p].flowFlags = {"DOABT"}]
    /\ sent' = Sent(p, 1)

Welcome(p) ==
    /\ \/ /\ WelcomeState(p)
          /\ link' = [link EXCEPT ![p] = "test"]
          /\ UNCHANGED sent
       \/ /\ link[p] = "test" /\ pniActive
          /\ WelcomeForce(p)
          /\ link' = [link EXCEPT ![p] = "activate"]
          /\ UNCHANGED sent
       \/ /\ link[p] = "test" /\ ~pniActive      \* "PLATO not active"
          /\ link' = [link EXCEPT ![p] = "up"]
          /\ sent' = Sent(p, 1)
          /\ UNCHANGED pp
       \/ /\ link[p] = "activate"
          /\ pniActivateStation(p)
          /\ link' = [link EXCEPT ![p] = "up"]
    /\ UNCHANGED <<pniActive, termVars, keyVars, cyberVars, apnifb, mainVars, decoded, userVars,
                   loads>>

\* A key is pressed.  The connection may break before all its bytes have come.
Type(p) ==
    \E s \in Strokes, k \in 1 .. 6 :
        LET n == Len(typed[p]) + 1
            whole == k = Len(s.bytes)
        IN  /\ link[p] = "up" /\ s.key \in setting.kinds /\ n <= setting.strokes /\ k <= Len(s.bytes)
            /\ bytes[p] = <<>>
            /\ bytes' = [bytes EXCEPT ![p] = [i \in 1 .. k |-> [byte |-> s.bytes[i], n |-> n]]]
            /\ typed' = IF whole /\ s.key # "none"
                        THEN [typed EXCEPT ![p] = Append(@, [class |-> s.key, user |-> user[p],
                                                             n |-> n])]
                        ELSE typed
            /\ link' = IF whole THEN link ELSE [link EXCEPT ![p] = "gone"]
            /\ UNCHANGED <<pniActive, pp, stopped, stops, keyVars, cyberVars, apnifb, mainVars,
                           sent, decoded, userVars, loads>>

\* The terminal stops output when its buffer fills, and starts it again.
Flow(p, byte) ==
    /\ link[p] = "up" /\ bytes[p] = <<>>
    /\ bytes' = [bytes EXCEPT ![p] = <<[byte |-> byte, n |-> 0]>>]
    /\ UNCHANGED <<pniActive, pp, link, typed, keyVars, cyberVars, apnifb, mainVars, sent,
                   decoded, userVars, loads>>

Leaving(p) == \E i \in 1 .. Len(fpnib) : fpnib[i].op = "logout" /\ fpnib[i].stat = p

Xoff(p) ==
    /\ p \notin stopped /\ stops < setting.stops /\ pp[p].newKbd
    /\ "logout" \in setting.cases \/ ~Leaving(p)
    /\ stopped' = stopped \cup {p} /\ stops' = stops + 1
    /\ Flow(p, "xoff")

Xon(p) ==
    /\ p \in stopped
    /\ stopped' = stopped \ {p} /\ UNCHANGED stops
    /\ Flow(p, "xon")

Break(p) ==
    /\ link[p] = "up"
    /\ link' = [link EXCEPT ![p] = "gone"]
    /\ UNCHANGED <<pniActive, pp, termVars, keyVars, cyberVars, apnifb, mainVars, sent, decoded,
                   userVars, loads>>

EscStates == {"norm", "esc", "key3", "xlow", "xhigh", "ylow", "yhigh"}

\* escState after a byte.
EscState(s, b) ==
    CASE s = "norm" -> IF b = "esc" THEN "esc" ELSE "norm"
      [] s = "esc" /\ b = "touch" -> "xlow"
      [] s = "esc" /\ b = "letter" -> "key3"
      [] s \in {"xlow", "xhigh", "ylow"} /\ b = "letter" ->
             [xlow |-> "xhigh", xhigh |-> "ylow", ylow |-> "yhigh"][s]
      [] OTHER -> "norm"

\* The kind of key a byte completes.  XON and XOFF are none with the new key codes.
KeyClass(s, b, newKbd) ==
    CASE s = "norm" /\ b = "stop" -> "stop"
      [] s = "norm" /\ b # "esc" /\ ~(newKbd /\ b \in {"xon", "xoff"}) -> "norm"
      [] s = "esc" /\ b = "control" -> "esc"
      [] s = "key3" /\ b = "letter" -> "key3"
      [] OTHER -> "none"

\* A terminal's codes: each key is decoded, from "norm" to "norm", at its last byte or not at all.
Codes == {"letter", "stop", "esc", "touch", "control"}
Decodes(s, q) ==
    /\ q[1] = "norm" /\ q[Len(s.bytes) + 1] = "norm"
    /\ \A i \in DOMAIN s.bytes, newKbd \in BOOLEAN :
          /\ q[i + 1] = EscState(q[i], s.bytes[i])
          /\ KeyClass(q[i], s.bytes[i], newKbd) = IF i = Len(s.bytes) THEN s.key ELSE "none"

ASSUME StrokesAssumption ==
    \A s \in Strokes : /\ s.bytes \in Seq(Codes) \ {<<>>} /\ s.key \in KeyKinds
                       /\ \E q \in [1 .. Len(s.bytes) + 1 -> EscStates] : Decodes(s, q)

\* flowFlags after XON or XOFF.
Flowed(f, b) ==
    IF b = "xoff" THEN f \cup {"XOFF"}
    ELSE IF f \subseteq {"XOFF"} THEN {"DOPTS"} ELSE f \ {"XOFF"}

\* pniDataCallback reads a byte.
ReadByte(p) ==
    LET b == Head(bytes[p]).byte
        s == pp[p].escState
        class == KeyClass(s, b, pp[p].newKbd)
        key == [class |-> class, user |-> user[p], n |-> Head(bytes[p]).n]
        flow == s = "norm" /\ pp[p].newKbd /\ b \in {"xon", "xoff"}
        split == flow /\ b = "xoff" /\ "flow" \in setting.cases
    IN  /\ link[p] \in {"up", "gone"} /\ bytes[p] # <<>> /\ store[p].at = "idle"
        /\ bytes' = [bytes EXCEPT ![p] = Tail(@)]
        /\ pp' = [pp EXCEPT ![p].escState = EscState(s, b),
                            ![p].flowFlags = IF flow /\ ~split THEN Flowed(@, b) ELSE @]
        /\ \/ class = "none" /\ ~split /\ UNCHANGED store
           \/ class # "none" /\ Begin(p, "force", p, key)
           \/ split /\ store' = [store EXCEPT ![p].at = "flow", ![p].old = pp[p].flowFlags]
        /\ decoded' = IF class # "none" /\ b \notin {"xon", "xoff"}
                      THEN [decoded EXCEPT ![p] = Append(@, key)] ELSE decoded
        /\ UNCHANGED <<pniActive, link, stopped, typed, stops, kb, abt, cyberVars, apnifb,
                       mainVars, sent, userVars, loads>>

WriteFlow(p) ==
    /\ store[p].at = "flow"
    /\ pp' = [pp EXCEPT ![p].flowFlags = store[p].old \cup {"XOFF"}]
    /\ Finish(p)
    /\ UNCHANGED <<pniActive, link, termVars, kb, abt, cyberVars, apnifb, mainVars, sent, decoded,
                   userVars, loads>>

\* A user who is to be logged out first gets *offky2* sent for what he typed.
ForceLogout(p) ==
    /\ store[p].at = "force"
    /\ LET forced == pp[p].forceLogout /\ pniLoggedIn(p)
       IN  /\ store' = [store EXCEPT ![p].at = "index", ![p].key = IF forced THEN OFFKY2 ELSE @]
           /\ pp' = [pp EXCEPT ![p].forceLogout = forced]
    /\ UNCHANGED <<pniActive, link, termVars, kb, abt, cyberVars, apnifb, mainVars, sent, decoded,
                   userVars, loads>>

\* Nothing is left to read of a connection that is gone: dtClose, and in it pniWelcome.
Depart(p) ==
    /\ link[p] = "gone" /\ bytes[p] = <<>> /\ store[p].at = "idle"
    /\ link' = [link EXCEPT ![p] = "closing"]
    /\ IF pniActive /\ pniLoggedIn(p) THEN Begin(p, "index", p, OFFKY2) ELSE UNCHANGED store
    /\ UNCHANGED <<pniActive, pp, termVars, kb, abt, cyberVars, apnifb, mainVars, sent, decoded,
                   userVars, loads>>

Closed(p) ==
    /\ link[p] = "closing" /\ store[p].at = "idle"
    /\ link' = [link EXCEPT ![p] = "free"]
    /\ UNCHANGED <<pniActive, pp, termVars, keyVars, cyberVars, apnifb, mainVars, sent, decoded,
                   userVars, loads>>

\* The send thread gets some of the ring out.
Drain(p) ==
    /\ sent[p] > 0
    /\ \E n \in 0 .. sent[p] - 1 : sent' = [sent EXCEPT ![p] = n]
    /\ UNCHANGED <<pniActive, pp, link, termVars, keyVars, cyberVars, apnifb, mainVars, decoded,
                   userVars, loads>>

-----------------------------------------------------------------------------
(* The main thread in the Cyber: pniOp, PLATO and Framat. *)

InCyber == mainAt = "cpu" /\ UNCHANGED <<mainVars, link, termVars, decoded, userVars>>

\* A new PLATO load turns PNI on.  Its key buffers and rings are empty, nobody is logged
\* in, and Framat awaits an abort of each station before it sends there.
PniOn ==
    /\ InCyber /\ ~pniActive /\ loads < setting.loads
    /\ pniActive' = TRUE /\ loads' = loads + 1
    /\ kb' = [p \in Stations |-> EmptyKeybuf] /\ abt' = {}
    /\ session' = [p \in Stations |-> 0] /\ await' = [p \in Stations |-> "abt"]
    /\ taking' = {} /\ fpnib' = <<>> /\ apnifb' = <<>>
    /\ pp' = [p \in Stations |->
                 IF Connected(p) THEN [pp[p] EXCEPT !.flowFlags = {"DOABT"}] ELSE pp[p]]
    /\ sent' = [p \in Stations |-> IF Fits(p, 1) THEN sent[p] + 1 ELSE sent[p]]
    /\ UNCHANGED <<store, messages>>

\* PLATO goes off, with a message to the terminals (request -0) or without.
PniOff ==
    /\ InCyber /\ pniActive /\ loads < setting.loads
    /\ pniActive' = FALSE
    /\ sent' \in {sent, [p \in Stations |-> IF Fits(p, 1) THEN sent[p] + 1 ELSE sent[p]]}
    /\ UNCHANGED <<pp, keyVars, cyberVars, apnifb, loads>>

\* PLATO finds the bits of stations that have keys, and clears them.
PlatoScan ==
    /\ InCyber /\ pniActive /\ abt # {}
    /\ taking' = taking \cup abt /\ abt' = {}
    /\ UNCHANGED <<pniActive, pp, store, kb, session, fpnib, await, messages, apnifb, sent, loads>>

\* It takes a key.  A user's key may log him in, or out, or do something else.
PlatoTake(p) ==
    LET next == Succ(kb[p].cpidx)
        key == kb[p].buf[next]
    IN  /\ InCyber /\ pniActive /\ p \in taking /\ kb[p].cpidx # kb[p].ppidx
        /\ kb' = [kb EXCEPT ![p].cpidx = next]
        /\ \/ key.class = "offky2" /\ session' = [session EXCEPT ![p] = 0]
           \/ key.class # "offky2" /\ UNCHANGED session
           \/ key.user # 0 /\ session' = [session EXCEPT ![p] = IF @ = 0 THEN key.user ELSE 0]
        /\ UNCHANGED <<pniActive, pp, store, abt, taking, fpnib, await, messages, apnifb, sent,
                       loads>>

PlatoDone(p) ==
    /\ InCyber /\ pniActive /\ p \in taking /\ kb[p].cpidx = kb[p].ppidx
    /\ taking' = taking \ {p}
    /\ UNCHANGED <<pniActive, pp, keyVars, session, fpnib, await, messages, apnifb, sent, loads>>

\* Framat sends a message: data when nothing is awaited, an abort unless one is.
FramatSend(p, op, size) ==
    /\ InCyber /\ pniActive /\ messages < setting.messages
    /\ op = "data" => await[p] = "nothing"
    /\ op = "abort" => await[p] # "abt"
    /\ op = "logout" => "logout" \in setting.cases \/ ~("XOFF" \in pp[p].flowFlags \/ p \in stopped)
    /\ messages' = messages + 1
    /\ fpnib' = Append(fpnib, [op |-> op, stat |-> p, size |-> size])
    /\ await' = [await EXCEPT ![p] = CASE op = "data" -> "pts" [] op = "abort" -> "abt"
                                       [] OTHER -> @]
    /\ UNCHANGED <<pniActive, pp, keyVars, taking, session, apnifb, sent, loads>>

\* Framat takes a request.
FramatTake ==
    /\ InCyber /\ pniActive /\ apnifb # <<>>
    /\ apnifb' = Tail(apnifb)
    /\ LET r == Head(apnifb)
       IN  await' = [await EXCEPT ![r.stat] = IF r.req = "abt" \/ @ = "pts" THEN "nothing" ELSE @]
    /\ UNCHANGED <<pniActive, pp, keyVars, taking, session, fpnib, messages, sent, loads>>

Framat ==
    \E p \in Stations :
        \/ \E op \in Requests : FramatSend(p, op, 0)
        \/ \E size \in Sizes : FramatSend(p, "data", size)

-----------------------------------------------------------------------------
(* The main thread in pniCheck. *)

\* framatReq: a request for Framat, unless the ring is full.
RoomForRequest == Len(apnifb) < pniflen - 1

\* What pniCheck does about the flags of a port: an abort, then the end of TCP flow off,
\* then a permit when it is all that is left.
Answer(p) ==
    LET f == pp[p].flowFlags
        abort == "DOABT" \in f /\ RoomForRequest
        rest == (IF abort THEN f \ {"DOABT"} ELSE f) \ (IF sent[p] = 0 THEN {"TCP"} ELSE {})
        permit == rest = {"DOPTS"} /\ Len(apnifb) + (IF abort THEN 1 ELSE 0) < pniflen - 1
    IN  [flags |-> IF permit THEN {} ELSE rest,
         reqs |-> (IF abort THEN <<[req |-> "abt", stat |-> p]>> ELSE <<>>)
                  \o (IF permit THEN <<[req |-> "pts", stat |-> p]>> ELSE <<>>)]

\* A call that has something to do.
pniCheck ==
    /\ mainAt = "cpu" /\ pniActive
    /\ fpnib # <<>> \/ (\E p \in Stations : Connected(p) /\ Answer(p).flags # pp[p].flowFlags)
    /\ mainAt' = "messages"
    /\ UNCHANGED <<pniActive, pp, link, termVars, keyVars, cyberVars, apnifb, port, sent, decoded,
                   userVars, loads>>

\* Mutant: the permit is asked for only if the output was sent.
DataMessageIfSent(m) ==
    LET off == Connected(m.stat) /\ ~(m.size < Room(m.stat))
    IN  /\ sent' = Sent(m.stat, m.size)
        /\ pp' = [pp EXCEPT ![m.stat].flowFlags = @ \cup {IF off THEN "TCP" ELSE "DOPTS"}]
        /\ mainAt' = "messages"

\* Data is sent.  Flow is off when it was refused, or filled the ring.
DataMessage(m) ==
    LET off == Connected(m.stat) /\ ~(m.size < Room(m.stat))
    IN  /\ sent' = Sent(m.stat, m.size)
        /\ pp' = IF off THEN [pp EXCEPT ![m.stat].flowFlags = @ \cup {"TCP"}] ELSE pp
        /\ mainAt' = "data"

\* A message from Framat.
Message ==
    /\ mainAt = "messages" /\ fpnib # <<>>
    /\ LET m == Head(fpnib)
           p == m.stat
       IN  \/ /\ m.op = "data"
              /\ DataMessage(m)
              /\ UNCHANGED <<store, fpnib>>
           \/ /\ m.op = "abort"
              /\ pp' = [pp EXCEPT ![p].flowFlags = @ \cup {"DOABT"}]
              /\ fpnib' = Tail(fpnib)
              /\ UNCHANGED <<store, sent, mainAt>>
           \/ /\ m.op \in {"logout", "newkbd"}
              /\ pp' = [pp EXCEPT ![p].newKbd = m.op = "newkbd"]
              /\ fpnib' = Tail(fpnib)
              /\ UNCHANGED <<store, sent, mainAt>>
           \/ /\ m.op = "type"
              /\ Begin(main, "index", p, TermType)
              /\ mainAt' = "store"
              /\ UNCHANGED <<pp, fpnib, sent>>
    /\ UNCHANGED <<pniActive, link, termVars, kb, abt, taking, session, await, messages, apnifb,
                   port, decoded, userVars, loads>>

\* "Send Permit to Send at next opportunity", when the data is sent; a key stored.
MessageDone ==
    /\ mainAt = "data" \/ (mainAt = "store" /\ store[main].at = "idle")
    /\ pp' = IF mainAt = "data"
             THEN [pp EXCEPT ![Head(fpnib).stat].flowFlags = @ \cup {"DOPTS"}] ELSE pp
    /\ fpnib' = Tail(fpnib)
    /\ mainAt' = "messages"
    /\ UNCHANGED <<pniActive, link, termVars, keyVars, taking, session, await, messages, apnifb,
                   port, sent, decoded, userVars, loads>>

MessagesDone ==
    /\ mainAt = "messages" /\ fpnib = <<>>
    /\ mainAt' = "ports" /\ port' = 0
    /\ UNCHANGED <<pniActive, pp, link, termVars, keyVars, cyberVars, apnifb, sent, decoded,
                   userVars, loads>>

\* "Send any necessary requests to Framat."
PortRequests ==
    /\ mainAt = "ports"
    /\ IF Connected(port)
       THEN /\ apnifb' = apnifb \o Answer(port).reqs
            /\ pp' = [pp EXCEPT ![port].flowFlags = Answer(port).flags]
       ELSE UNCHANGED <<apnifb, pp>>
    /\ IF port + 1 < pniStations THEN port' = port + 1 /\ UNCHANGED mainAt
                                 ELSE port' = 0 /\ mainAt' = "cpu"
    /\ UNCHANGED <<pniActive, link, termVars, keyVars, cyberVars, sent, decoded, userVars, loads>>

Terminal(p) == Arrive(p) \/ Type(p) \/ Xoff(p) \/ Break(p)
PniDataThread(p) == Welcome(p) \/ ReadByte(p) \/ WriteFlow(p) \/ ForceLogout(p) \/ storeKey(p) \/ Depart(p)
                    \/ Closed(p)
Plato == PlatoScan \/ \E p \in Stations : PlatoTake(p) \/ PlatoDone(p)
Check == pniCheck \/ Message \/ MessageDone \/ MessagesDone \/ PortRequests \/ storeKey(main)

PniNext ==
    \/ \E p \in Stations : Terminal(p) \/ Xon(p) \/ PniDataThread(p) \/ Drain(p)
    \/ PniOn \/ PniOff \/ Plato \/ Framat \/ FramatTake \/ Check

PniSpec == PniInit /\ [][PniNext]_pniVars

\* Threads go on with what they do, the main loop with PLATO, Framat and pniCheck; the send
\* thread sends and a terminal that has stopped output starts it again.
FairPniSpec ==
    /\ PniSpec
    /\ WF_pniVars(Plato) /\ WF_pniVars(FramatTake) /\ WF_pniVars(Check)
    /\ \A p \in Stations : WF_pniVars(PniDataThread(p)) /\ WF_pniVars(Drain(p)) /\ WF_pniVars(Xon(p))

-----------------------------------------------------------------------------
\* Every variable stays within its type.
PniTypes ==
    /\ pniActive \in BOOLEAN /\ port \in Stations
    /\ \A p \in Stations :
        /\ pp[p].escState \in EscStates
        /\ pp[p].flowFlags \subseteq {"XOFF", "TCP", "DOPTS", "DOABT"}
        /\ link[p] \in {"free", "welcome", "test", "activate", "up", "gone", "closing"}
        /\ kb[p].ppidx \in 0 .. IDXLIM - 1 /\ kb[p].cpidx \in 0 .. IDXLIM - 1
        /\ session[p] \in 0 .. setting.users /\ await[p] \in {"nothing", "pts", "abt"}
        /\ sent[p] \in 0 .. SendRingSize - 1
    /\ abt \subseteq Stations /\ taking \subseteq Stations /\ stopped \subseteq Stations
    /\ Len(apnifb) < pniflen
    /\ mainAt \in {"cpu", "store", "data", "messages", "ports"}

\* The keys of a connection are decoded from its bytes one by one, whatever was cut off in
\* the midst of an escape sequence before: pniDataCallback and its escState.
KeysDecoded ==
    \A p \in Stations :
        /\ IsPrefix(decoded[p], typed[p])
        /\ link[p] = "up" /\ bytes[p] = <<>> => decoded[p] = typed[p]

\* "We'll send another *offky2* in the key input handler for each key entered by the user,
\* until PLATO indicates that the logout has been done" (pniWelcome): no key a user typed
\* reaches a session that another user left, however the two threads interleave.
SessionNotInherited ==
    [][\A p \in Stations :
          LET key == kb[p].buf[Succ(kb[p].cpidx)]
          IN  PlatoTake(p) /\ key.user # 0 => session[p] \in {0, key.user}]_pniVars

\* "Now that we've stored the key, set the bit": a key that no thread is storing any more
\* is one PLATO knows of, however bits are set by one thread and cleared by another.
Announced ==
    \A p \in Stations :
        kb[p].cpidx # kb[p].ppidx /\ (\A t \in PniThreads : Storing(t) => store[t].stat # p)
            => p \in abt \cup taking

\* The type invariant, and that keys are decoded and announced.
PniSafe == PniTypes /\ KeysDecoded /\ Announced

\* "Send Permit to Send at next opportunity", "Send Abort done": what Framat waits for
\* comes, with flow off and on, full rings and a reload of PLATO, unless the user goes.
PermitComes ==
    \A p \in Stations :
        await[p] # "nothing" /\ Connected(p)
            ~> (await[p] = "nothing" \/ ~Connected(p) \/ ~pniActive)
=============================================================================
