-------------------------------- MODULE Niu --------------------------------
(***************************************************************************)
(* The network interface unit (src/niu.c): key input, output, the logout   *)
(* handshake and the operator's alert box.                                 *)
(*                                                                         *)
(* Each station is a slot for one terminal connection.  When a connection  *)
(* goes while its user is logged in to PLATO, the NIU sends PLATO the key  *)
(* *offky2* for the station; until PLATO confirms with NOP code 3, it      *)
(* sends *offky2* instead of every key of the station's next user.  Output *)
(* comes in triples of channel words and frames of triples.  PLATO also    *)
(* sends keepalives to the operator's station; a thread of its own raises  *)
(* an alarm when they stop.                                                *)
(*                                                                         *)
(* The main thread serves both channels (niuInIo, niuOutIo); a             *)
(* connection's data thread announces it (niuWelcome).  PLATO, at the      *)
(* other end of both channels, is modelled from what these routines expect *)
(* of it.  A user is the number of his connection.                         *)
(***************************************************************************)
EXTENDS Integers, Sequences

CONSTANTS
    niuStations,    \* number of stations
    niuOpstat,      \* the operator's station, or -1
    MaxUsers,       \* bound: connections in one behaviour
    MaxKeys,        \* bound: keys waiting in one connection's ring, besides a stray
    MaxWords,       \* bound: words on their way to or from PLATO
    Settings        \* records [users, beats, cases]: how many connections and words
                    \* for the alert box there are in a behaviour, and what happens besides:
                    \*  "stray"   a terminal sends a byte that is not part of a key
                    \*  "late"    a new user comes while something of the old one is on its
                    \*            way to or from PLATO
                    \*  "frames"  PLATO sends frames of several words
                    \*  "restart" PLATO sends keepalives again after a shutdown or a crash
                    \*  "overlap" a keepalive comes while the alert thread looks at the count
                    \*  "nofile"  the file of an alert cannot always be opened

ASSUME NiuAssumption ==
    /\ niuStations \in Nat \ {0} /\ niuOpstat \in -1 .. niuStations - 1
    /\ MaxUsers \in Nat /\ MaxKeys \in Nat /\ MaxWords \in Nat
    /\ \A s \in Settings : /\ s.users \in 0 .. MaxUsers /\ s.beats \in Nat
                           /\ s.beats > 0 => niuOpstat >= 0    \* keepalives go to that station

Ports == 0 .. (niuStations - 1)
offky2 == 0                     \* the user number of an *offky2* the NIU made up
NOP3     == "NOP3"              \* PLATO: the station is logged out
echotype == "echotype"          \* PLATO: someone has logged in
resett   == "resett"            \* PLATO: keepalive
resetb   == "resetb"            \* PLATO: controlled shutdown
NoWord   == "none"

VARIABLES
    setting,
    users,          \* connections so far
    np,             \* port -> its user, or 0
    link,           \* port -> "free", "welcome" (niuWelcome runs), "force" (it is about
                    \* to set forceLogout), "up", or "gone"
    ring,           \* port -> bytes received, not yet read: half of a key and its user
    loggedIn, sendLogout, forceLogout,  \* port -> flags of PortParam
    currInput,      \* port -> the user whose key is in currInput
    currInPort, lastInPort,
    channel,        \* the input channel: "empty", "station" or "key"
    fcode,          \* the input function: "input" or "deselect"
    inWords,        \* keys on their way to PLATO: port and user
    outWords,       \* words on their way to the NIU: port, word, end of frame
    currOutput,     \* port -> its word in this frame
    session,        \* port -> PLATO's user of the station, or 0
    niuAlertCount, niuLastAlertCount, emulationActive,
    opAt, opRead,   \* where the main thread is in niuOpdata; its copy of the count
    alertAt,        \* where niuThread is
    beats,          \* keepalives and shutdowns so far
    told,           \* the last alert: "none", "up", "down" or "crash"
    fresh,          \* a keepalive was counted since niuLastAlertCount was set
    wrong           \* an alarm was raised although it was

linkVars  == <<users, np, link>>
flagVars  == <<loggedIn, sendLogout, forceLogout>>
inVars    == <<currInput, currInPort, lastInPort, channel, fcode>>
platoVars == <<inWords, outWords, session>>
opVars    == <<opAt, opRead>>
threadVars == <<niuLastAlertCount, alertAt>>
alertVars == <<niuAlertCount, opVars, threadVars, emulationActive, beats, told, fresh, wrong>>
vars == <<setting, linkVars, ring, flagVars, inVars, platoVars, currOutput, alertVars>>

Init ==
    /\ users = 0
    /\ np = [p \in Ports |-> 0] /\ link = [p \in Ports |-> "free"]
    /\ ring = [p \in Ports |-> <<>>]
    /\ loggedIn = [p \in Ports |-> FALSE]
    /\ sendLogout = [p \in Ports |-> FALSE]
    /\ forceLogout = [p \in Ports |-> FALSE]
    /\ currInput = [p \in Ports |-> 0]
    /\ currInPort = -1 /\ lastInPort = 0
    /\ channel = "empty" /\ fcode = "deselect"
    /\ inWords = <<>> /\ outWords = <<>> /\ session = [p \in Ports |-> 0]
    /\ currOutput = [p \in Ports |-> NoWord]
    /\ setting \in Settings
    /\ niuAlertCount = 0 /\ niuLastAlertCount = 0 /\ emulationActive = TRUE
    /\ opAt = "idle" /\ opRead = 0 /\ alertAt = IF setting.beats > 0 THEN "test" ELSE "exit"
    /\ beats = 0 /\ told = "none" /\ fresh = FALSE /\ wrong = FALSE

-----------------------------------------------------------------------------
(***************************************************************************)
(* Terminals and their data threads.                                       *)
(***************************************************************************)
\* Nothing of port p is on its way to or from PLATO.
Quiet(p) ==
    /\ \A i \in 1 .. Len(inWords) : inWords[i][1] # p
    /\ \A i \in 1 .. Len(outWords) : outWords[i].port # p
    /\ currInPort # p /\ ~(channel = "key" /\ lastInPort = p)

\* niuWelcome of a new connection, first half.
Welcome(p) ==
    /\ link[p] = "free" /\ users < setting.users
    /\ "late" \in setting.cases \/ Quiet(p)
    /\ users' = users + 1
    /\ np' = [np EXCEPT ![p] = users + 1]
    /\ link' = [link EXCEPT ![p] = "welcome"]
    /\ UNCHANGED <<ring, flagVars, inVars, platoVars, currOutput, alertVars, setting>>

\* Mutant: a new user is not kept away from the old one's session.
WelcomeTestNot(p) ==
    /\ link[p] = "welcome"
    /\ link' = [link EXCEPT ![p] = "up"]
    /\ UNCHANGED <<users, np, ring, flagVars, inVars, platoVars, currOutput, alertVars, setting>>

\* niuWelcome: "if we're not logged out yet".
WelcomeTest(p) ==
    /\ link[p] = "welcome"
    /\ link' = [link EXCEPT ![p] = IF loggedIn[p] THEN "force" ELSE "up"]
    /\ UNCHANGED <<users, np, ring, flagVars, inVars, platoVars, currOutput, alertVars, setting>>

WelcomeForce(p) ==
    /\ link[p] = "force"
    /\ forceLogout' = [forceLogout EXCEPT ![p] = TRUE]
    /\ link' = [link EXCEPT ![p] = "up"]
    /\ UNCHANGED <<users, np, ring, loggedIn, sendLogout, inVars, platoVars, currOutput, alertVars, setting>>

\* A key arrives: two bytes, of which only the second has its top bit set.
Key(p) ==
    /\ link[p] = "up" /\ Len(ring[p]) < 2 * MaxKeys
    /\ ring' = [ring EXCEPT ![p] = @ \o << <<1, np[p]>>, <<2, np[p]>> >>]
    /\ UNCHANGED <<linkVars, flagVars, inVars, platoVars, currOutput, alertVars, setting>>

\* A single byte arrives.
Stray(p) ==
    /\ "stray" \in setting.cases /\ link[p] = "up" /\ Len(ring[p]) % 2 = 0 /\ Len(ring[p]) < 2 * MaxKeys
    /\ ring' = [ring EXCEPT ![p] = Append(@, <<2, np[p]>>)]
    /\ UNCHANGED <<linkVars, flagVars, inVars, platoVars, currOutput, alertVars, setting>>

\* The connection goes; its data thread marks it as no longer connected.
Gone(p) ==
    /\ link[p] = "up"
    /\ link' = [link EXCEPT ![p] = "gone"]
    /\ UNCHANGED <<users, np, ring, flagVars, inVars, platoVars, currOutput, alertVars, setting>>

-----------------------------------------------------------------------------
(***************************************************************************)
(* niuInIo.  One step looks at one port of the scan.                       *)
(***************************************************************************)
\* The main thread is not inside niuOpdata, and its loop goes on.
MainFree == opAt = "idle" /\ emulationActive

\* Port p has a key to offer: PLATO gets the station number, then the key.
Offer(p, user) ==
    /\ currInput' = [currInput EXCEPT ![p] = user]
    /\ currInPort' = p /\ lastInPort' = p
    /\ channel' = "station"
    /\ UNCHANGED fcode

NoOffer == UNCHANGED inVars

\* "If we disconnected without logging out, send *offky2*."
ScanLogout(p) ==
    /\ sendLogout[p]
    /\ sendLogout' = [sendLogout EXCEPT ![p] = FALSE]
    /\ Offer(p, offky2)
    /\ UNCHANGED <<linkVars, ring, loggedIn, forceLogout>>

\* Mutant: the old user is not logged out.
ScanCloseForgets(p) ==
    /\ ~sendLogout[p] /\ link[p] = "gone" /\ Len(ring[p]) < 2
    /\ link' = [link EXCEPT ![p] = "free"]
    /\ np' = [np EXCEPT ![p] = 0]
    /\ ring' = [ring EXCEPT ![p] = <<>>]
    /\ NoOffer
    /\ UNCHANGED <<users, flagVars>>

\* The connection is gone and its data read: dtClose, and in it niuWelcome.
ScanClose(p) ==
    /\ ~sendLogout[p] /\ link[p] = "gone" /\ Len(ring[p]) < 2
    /\ link' = [link EXCEPT ![p] = "free"]
    /\ np' = [np EXCEPT ![p] = 0]
    /\ ring' = [ring EXCEPT ![p] = <<>>]
    /\ sendLogout' = [sendLogout EXCEPT ![p] = loggedIn[p]]
    /\ NoOffer
    /\ UNCHANGED <<users, loggedIn, forceLogout>>

\* Two bytes are read.  A user who has to be logged out first gets *offky2* sent for
\* whatever he typed; bytes out of sequence are dropped.
ScanKey(p) ==
    /\ ~sendLogout[p] /\ link[p] \in {"up", "gone"} /\ Len(ring[p]) >= 2
    /\ ring' = [ring EXCEPT ![p] = SubSeq(@, 3, Len(@))]
    /\ IF forceLogout[p]
       THEN Offer(p, offky2)
       ELSE IF ring[p][1][1] = 1 /\ ring[p][2][1] = 2
            THEN Offer(p, ring[p][1][2])
            ELSE NoOffer
    /\ UNCHANGED <<linkVars, flagVars>>

\* Mutant: the scan always starts at the first station.
ScanFirst(p) ==
    LET busy(q) == sendLogout[q] \/ link[q] = "gone" \/ Len(ring[q]) >= 2
    IN  busy(p) /\ \A q \in Ports : busy(q) => p <= q

\* The first port after lastInPort that has something to do.
ScanNext(p) ==
    LET busy(q) == sendLogout[q] \/ link[q] = "gone" \/ Len(ring[q]) >= 2
        ahead(q) == (q - lastInPort - 1) % niuStations
    IN  busy(p) /\ \A q \in Ports : busy(q) => ahead(p) <= ahead(q)

Scan ==
    /\ MainFree
    /\ fcode = "input" /\ channel = "empty" /\ currInPort < 0
    /\ \E p \in Ports :
           ScanNext(p) /\ (ScanLogout(p) \/ ScanClose(p) \/ ScanKey(p))
    /\ UNCHANGED <<platoVars, currOutput, alertVars, setting>>

\* PLATO has taken the station number and gets the key.
SendKey ==
    /\ MainFree
    /\ fcode = "input" /\ channel = "empty" /\ currInPort >= 0
    /\ channel' = "key"
    /\ currInPort' = -1
    /\ UNCHANGED <<linkVars, ring, flagVars, currInput, lastInPort, fcode, platoVars, currOutput, alertVars, setting>>

-----------------------------------------------------------------------------
(***************************************************************************)
(* PLATO and its input and output processors.                              *)
(***************************************************************************)
\* The word is taken from the input channel; a key word completes the pair.
TakeWord ==
    /\ MainFree
    /\ channel # "empty" /\ Len(inWords) < MaxWords
    /\ channel' = "empty"
    /\ inWords' = IF channel = "key"
                  THEN Append(inWords, <<lastInPort, currInput[lastInPort]>>)
                  ELSE inWords
    /\ UNCHANGED <<linkVars, ring, flagVars, currInput, currInPort, lastInPort, fcode,
                   outWords, session, currOutput, alertVars, setting>>

\* A word is on its way to the NIU, the last of its frame or not.
Say(p, word) ==
    \E end \in BOOLEAN :
        /\ end \/ "frames" \in setting.cases
        /\ outWords' = Append(outWords, [port |-> p, word |-> word, end |-> end])

\* PLATO acts on *offky2*: it always answers that the station is logged out.
PlatoLogout(p) ==
    /\ session' = [session EXCEPT ![p] = 0]
    /\ Say(p, NOP3)

\* PLATO acts on a user's key: it may log him in, or out, or do something else.
PlatoKey(p, user) ==
    \/ session[p] = 0 /\ session' = [session EXCEPT ![p] = user] /\ Say(p, echotype)
    \/ session[p] # 0 /\ PlatoLogout(p)
    \/ UNCHANGED <<session, outWords>>

PlatoActs ==
    /\ MainFree
    /\ inWords # <<>> /\ Len(outWords) < MaxWords
    /\ inWords' = Tail(inWords)
    /\ LET p == Head(inWords)[1]
           user == Head(inWords)[2]
       IN  IF user = offky2 THEN PlatoLogout(p) ELSE PlatoKey(p, user)
    /\ UNCHANGED <<linkVars, ring, flagVars, inVars, currOutput, alertVars, setting>>

\* Mutant: NOP 3 ends the forced logout only.
FlaggedKeepsLogin(p, word) ==
    /\ forceLogout' = [forceLogout EXCEPT ![p] = @ /\ word # NOP3]
    /\ loggedIn' = [loggedIn EXCEPT ![p] = @ \/ word = echotype]

\* niuSend: NOP code 3 says the station is logged out, an echo that it is logged in.
Flagged(p, word) ==
    /\ forceLogout' = [forceLogout EXCEPT ![p] = @ /\ word # NOP3]
    /\ loggedIn' = [loggedIn EXCEPT ![p] = (@ /\ word # NOP3) \/ word = echotype]

\* niuSendWord has niuOpdata look at what the operator's station gets.
ToOperator(words) ==
    opAt' = IF niuOpstat >= 0 /\ words[niuOpstat] \in {resett, resetb}
            THEN words[niuOpstat] ELSE "idle"

\* niuOutIo of the triple of channel words that makes a word.  It waits for the end of its
\* frame, when every station gets its word.  A select resets obytes, so PIO and niuOutIo
\* agree on which word of a triple comes next.
niuOutIo ==
    LET w == Head(outWords)
        words == [currOutput EXCEPT ![w.port] = w.word]
    IN  /\ MainFree /\ outWords # <<>>
        /\ outWords' = Tail(outWords)
        /\ Flagged(w.port, w.word)
        /\ IF w.end
           THEN /\ currOutput' = [p \in Ports |-> NoWord]
                /\ ToOperator(words)
           ELSE currOutput' = words /\ UNCHANGED opAt
        /\ UNCHANGED <<setting, linkVars, ring, sendLogout, inVars, inWords, session,
                       niuAlertCount, opRead, threadVars, emulationActive, beats, told, fresh,
                       wrong>>

\* PIO starts: niuInFunc selects input.
Select ==
    /\ MainFree
    /\ fcode = "deselect"
    /\ fcode' = "input"
    /\ currInPort' = -1
    /\ UNCHANGED <<linkVars, ring, flagVars, currInput, lastInPort, channel, platoVars,
                   currOutput, alertVars, setting>>

\* PIO starts or drops: it deselects input, and PLATO has no users any more.
Deselect ==
    /\ MainFree
    /\ fcode = "input"
    /\ fcode' = "deselect"
    /\ loggedIn' = [p \in Ports |-> FALSE]
    /\ sendLogout' = [p \in Ports |-> FALSE]
    /\ forceLogout' = [p \in Ports |-> FALSE]
    /\ channel' = "empty"
    /\ inWords' = <<>> /\ outWords' = <<>> /\ session' = [p \in Ports |-> 0]
    /\ UNCHANGED <<linkVars, ring, currInput, currInPort, lastInPort, currOutput, alertVars,
                   setting>>

-----------------------------------------------------------------------------
(***************************************************************************)
(* The alert box: niuOpdata on the main thread, niuThread.  One action is  *)
(* one access to the count.  The flags of a keepalive (operator call,      *)
(* mode 3) belong to the main thread alone and are left out.               *)
(***************************************************************************)
\* niuDoAlert up to the fork: the operators get the message, if its file can be written.
niuDoAlert(code) == told' = code \/ ("nofile" \in setting.cases /\ UNCHANGED told)

UnderWay ==
    \/ opAt # "idle"
    \/ \E i \in 1 .. Len(outWords) : outWords[i].word \in {resett, resetb}
    \/ \E p \in Ports : currOutput[p] \in {resett, resetb}

BoxStep == UNCHANGED <<setting, linkVars, ring, flagVars, inVars, inWords, session, currOutput>>

\* PLATO sends a keepalive, or says that it shuts down.
PlatoTells ==
    /\ BoxStep /\ MainFree /\ Len(outWords) < MaxWords /\ ~UnderWay
    /\ "overlap" \in setting.cases \/ alertAt = "sleep"
    /\ beats < setting.beats /\ beats' = beats + 1
    /\ \/ /\ "restart" \in setting.cases \/ beats = 0 \/ niuAlertCount # 0
          /\ Say(niuOpstat, resett)
       \/ niuAlertCount # 0 /\ Say(niuOpstat, resetb)
    /\ UNCHANGED <<niuAlertCount, opVars, threadVars, emulationActive, told, fresh, wrong>>

\* niuAlertCount++, its write.
CountUp == niuAlertCount' = opRead + 1

\* niuOpdata.  The first keepalive is a startup; a shutdown turns the watch off.
niuOpdata ==
    /\ BoxStep
    /\ \/ /\ opAt = resett
          /\ IF niuAlertCount = 0 THEN niuDoAlert("up") ELSE UNCHANGED told
          /\ opAt' = "read"
          /\ UNCHANGED <<niuAlertCount, opRead, fresh>>
       \/ /\ opAt = "read"
          /\ opRead' = niuAlertCount /\ opAt' = "write"
          /\ UNCHANGED <<niuAlertCount, told, fresh>>
       \/ /\ opAt = "write"
          /\ CountUp
          /\ fresh' = TRUE /\ opAt' = "idle"
          /\ UNCHANGED <<opRead, told>>
       \/ /\ opAt = resetb
          /\ niuDoAlert("down")
          /\ opAt' = "off"
          /\ UNCHANGED <<niuAlertCount, opRead, fresh>>
       \/ /\ opAt = "off"
          /\ niuAlertCount' = 0 /\ opAt' = "idle"
          /\ UNCHANGED <<opRead, told, fresh>>
    /\ UNCHANGED <<outWords, threadVars, emulationActive, beats, wrong>>

\* The operator ends DtCyber: the main loop ends.
End ==
    /\ setting.beats > 0 /\ MainFree
    /\ emulationActive' = FALSE
    /\ UNCHANGED <<outWords, niuAlertCount, opVars, threadVars, beats, told, fresh, wrong>>
    /\ BoxStep

\* Mutant: the alarm is raised although the watch is off.
WatchAlways == alertAt' = "compare"

\* "Raise the alarm if it is enabled".
Watch == alertAt' = IF niuAlertCount # 0 THEN "compare" ELSE "sleep"

Remember == niuLastAlertCount' = niuAlertCount

\* niuCheckAlert: "... and no progress has been seen since last time".
niuCheckAlert ==
    /\ \/ alertAt = "test" /\ Watch /\ UNCHANGED <<niuLastAlertCount, fresh>>
       \/ /\ alertAt = "compare"
          /\ alertAt' = IF niuAlertCount = niuLastAlertCount THEN "alarm" ELSE "save"
          /\ UNCHANGED <<niuLastAlertCount, fresh>>
       \/ alertAt = "save" /\ Remember /\ fresh' = FALSE /\ alertAt' = "sleep"
    /\ UNCHANGED <<niuAlertCount, told, wrong>>

\* niuDoAlert of a crash.  If the file cannot be opened it does nothing; otherwise the count
\* is reset before the dumps, and the operators hear of it after them.
Alarm ==
    /\ \/ /\ alertAt \in {"alarm", "last"}
          /\ wrong' = (wrong \/ (alertAt = "alarm" /\ fresh))
          /\ \/ niuAlertCount' = 0 /\ alertAt' = IF alertAt = "alarm" THEN "tell" ELSE "tell last"
             \/ /\ "nofile" \in setting.cases
                /\ alertAt' = IF alertAt = "alarm" THEN "reset" ELSE "exit"
                /\ UNCHANGED niuAlertCount
          /\ UNCHANGED told
       \/ /\ alertAt \in {"tell", "tell last"}
          /\ told' = "crash"
          /\ alertAt' = IF alertAt = "tell" THEN "reset" ELSE "exit"
          /\ UNCHANGED <<niuAlertCount, wrong>>
       \/ /\ alertAt = "reset"                \* "Only raise the alarm once"
          /\ niuAlertCount' = 0 /\ alertAt' = "sleep"
          /\ UNCHANGED <<told, wrong>>
    /\ UNCHANGED <<niuLastAlertCount, fresh>>

\* The interval is over.  When DtCyber ends, a watch that was not shut off is an alarm.
Wake ==
    /\ alertAt = "sleep" /\ ("overlap" \in setting.cases \/ ~UnderWay)
    /\ alertAt' = IF emulationActive THEN "test" ELSE IF niuAlertCount # 0 THEN "last" ELSE "exit"
    /\ UNCHANGED <<niuAlertCount, niuLastAlertCount, told, fresh, wrong>>

\* main returns, and takes its threads with it.
Return ==
    /\ ~emulationActive /\ alertAt # "exit"
    /\ alertAt' = "exit"
    /\ UNCHANGED <<outWords, niuAlertCount, opVars, niuLastAlertCount, emulationActive, beats,
                   told, fresh, wrong>>
    /\ BoxStep

niuThread ==
    /\ niuCheckAlert \/ Alarm \/ Wake
    /\ UNCHANGED <<outWords, opVars, emulationActive, beats>>
    /\ BoxStep

Terminal(p) == Welcome(p) \/ Key(p) \/ Stray(p) \/ Gone(p)
DataThread(p) == WelcomeTest(p) \/ WelcomeForce(p)
MainThread == Scan \/ SendKey \/ TakeWord \/ PlatoActs \/ niuOutIo \/ Select
Box == PlatoTells \/ niuOpdata \/ End \/ Return \/ niuThread

Next == (\E p \in Ports : Terminal(p) \/ DataThread(p)) \/ MainThread \/ Deselect \/ Box

Spec == Init /\ [][Next]_vars

\* Both channels are served, PLATO and the threads keep working; nobody has to connect, to
\* type or to send keepalives.
FairSpec ==
    /\ Spec
    /\ \A p \in Ports : WF_vars(DataThread(p))
    /\ WF_vars(Scan \/ SendKey \/ TakeWord)
    /\ WF_vars(PlatoActs) /\ WF_vars(niuOutIo) /\ WF_vars(Select)
    /\ WF_vars(niuOpdata) /\ WF_vars(niuThread)

-----------------------------------------------------------------------------
UserIds == 0 .. MaxUsers

\* Every variable stays within its type.
TypeOK ==
    /\ users \in UserIds
    /\ np \in [Ports -> UserIds]
    /\ link \in [Ports -> {"free", "welcome", "force", "up", "gone"}]
    /\ ring \in [Ports -> Seq({1, 2} \X (1 .. MaxUsers))]
    /\ loggedIn \in [Ports -> BOOLEAN] /\ sendLogout \in [Ports -> BOOLEAN]
    /\ forceLogout \in [Ports -> BOOLEAN] /\ currInput \in [Ports -> UserIds]
    /\ currInPort \in Ports \cup {-1} /\ lastInPort \in Ports
    /\ channel \in {"empty", "station", "key"} /\ fcode \in {"input", "deselect"}
    /\ inWords \in Seq(Ports \X UserIds)
    /\ outWords \in Seq([port : Ports, word : {NOP3, echotype, resett, resetb},
                         end : BOOLEAN])
    /\ currOutput \in [Ports -> {NOP3, echotype, resett, resetb, NoWord}]
    /\ niuAlertCount \in 0 .. beats /\ niuLastAlertCount \in 0 .. setting.beats
    /\ opAt \in {"idle", resett, "read", "write", resetb, "off"} /\ opRead \in 0 .. beats
    /\ alertAt \in {"test", "compare", "save", "alarm", "tell", "reset", "sleep", "last",
                    "tell last", "exit"}
    /\ told \in {"none", "up", "down", "crash"}
    /\ session \in [Ports -> UserIds]

\* niuSend's bookkeeping and PLATO's never drift apart: whenever no word is on its way for
\* a station, the NIU believes it logged in exactly when PLATO does, whatever was
\* lost, sent twice or reset in between.
FlagAgrees ==
    \A p \in Ports :
        (\A i \in 1 .. Len(outWords) : outWords[i].port # p)
            => (loggedIn[p] <=> session[p] # 0)

\* The type invariant, and the agreement of NIU and PLATO.
NiuSafe == TypeOK /\ FlagAgrees

\* "Until we see that, we'll have to keep forcing this station off if a new connection is
\* assigned to it": no key a user typed ever reaches a session another user left.
SessionNotInherited ==
    [][inWords # <<>> /\ inWords' = Tail(inWords) /\ Head(inWords)[2] # offky2
          => session[Head(inWords)[1]] \in {0, Head(inWords)[2]}]_vars

\* "If we disconnected without logging out, send *offky2* which tells PLATO to log out
\* this station": a user who is gone does not stay logged in.
GoneIsLoggedOff ==
    \A p \in Ports, u \in 1 .. MaxUsers :
        session[p] = u /\ np[p] # u ~> session[p] # u

\* The bytes of every ring pair up into keys.  Out of sequence they are dropped without a
\* step of the round robin, so that one station could hold up the others for ever.
InSequence == \A p \in Ports : ring[p] # <<>> => ring[p][1][1] = 1

\* The handshake ends: a user whom the NIU knew to be logged in when his connection
\* went, with none of his keys under way, is logged out.
KnownIsLoggedOff ==
    <>[]InSequence => \A p \in Ports, u \in 1 .. MaxUsers :
        session[p] = u /\ np[p] = u /\ link[p] = "gone" /\ loggedIn[p]
            /\ Len(ring[p]) < 2 /\ Quiet(p)
            ~> session[p] # u

\* No user is shut out for good: one who is kept away from an old session and goes on
\* typing gets through once PLATO has confirmed the logout.
ForceEnds ==
    \A p \in Ports :
        <>[](forceLogout[p] /\ link[p] = "up") => <>[](Len(ring[p]) < 2)

\* Neither a gone user's login nor a new user's exclusion lasts for ever.
LogoutEnds == KnownIsLoggedOff /\ ForceEnds

\* The round robin of niuInIo serves every station that has a key, as long as PIO runs.
KeyIsRead ==
    <>[]InSequence => \A p \in Ports :
        Len(ring[p]) >= 2 ~> (Len(ring[p]) < 2 \/ currInPort = p \/ fcode = "deselect")

\* Every station gets what it waits for: its keys read, its logout done.
StationsServed == LogoutEnds /\ KeyIsRead

\* "Sequence error, drop the byte": a single byte out of sequence costs no more than the
\* key it came with, the station's next keys are heard again.
HeardAfterStray ==
    \A p \in Ports :
        []<>(Len(ring[p]) >= 2 /\ link[p] = "up" /\ ~forceLogout[p])
            => []<>(currInPort = p \/ link[p] = "gone" \/ fcode = "deselect")

\* "Raise the alarm if it is enabled, and no progress has been seen since last time": no
\* alarm is raised when a keepalive was counted since the last look.
NoFalseCrash == ~wrong

\* "Only raise the alarm once", and a shutdown "turns off the status watcher": operators
\* hear of a crash only when the last they heard was that PLATO is up.  This takes files
\* that open and keepalives that do not come while the alert thread looks at the count.
CrashOnce ==
    [][(alertAt \in {"tell", "tell last"} /\ alertAt' # alertAt)
          => told = "up" \/ {"overlap", "nofile"} \cap setting.cases # {}]_vars

\* What the box is for: when the operators were told that PLATO is up and it falls silent,
\* as it does in every behaviour with finitely many keepalives, they hear of it, under the
\* same two conditions and unless DtCyber ends.
SilenceIsReported ==
    told = "up" ~> \/ told # "up" \/ ~emulationActive
                   \/ {"overlap", "nofile"} \cap setting.cases # {}

\* Both of them: no false report, and none is missed.
CrashReported == CrashOnce /\ SilenceIsReported

\* niuThread: "If the alert wasn't shut off, raise the alarm now as part of DtCyber
\* termination".
EndIsReported == told = "up" /\ ~emulationActive ~> told # "up"
=============================================================================
