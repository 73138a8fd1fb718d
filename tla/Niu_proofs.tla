----------------------------- MODULE Niu_proofs -----------------------------
(***************************************************************************)
(* The NIU agrees with PLATO about who is logged in, and nobody types into  *)
(* a session that another user left, for any number of stations, users and  *)
(* words under way: proofs about Niu.                                      *)
(***************************************************************************)
EXTENDS Niu, SequenceTheorems, TLAPS

\* The words that say whether a station is logged in, and those for the alert box.
Tells(w) == w.word \in {NOP3, echotype}
Beats(w) == w.word \in {resett, resetb}

\* A station is free exactly when it has no user; what is in its ring that user typed.
Occupied ==
    \A p \in Ports :
        /\ np[p] = 0 <=> link[p] = "free"
        /\ ring[p] # <<>> => link[p] \in {"up", "gone"}
        /\ \A i \in 1 .. Len(ring[p]) : ring[p][i][2] = np[p]

\* The input channel: PLATO gets a station's number, then its key.
Channel ==
    /\ currInPort >= 0 => lastInPort = currInPort
    /\ channel = "key" => currInPort < 0
    /\ channel = "station" => currInPort >= 0
    /\ fcode = "deselect" => channel = "empty"

\* The last word under way that tells of a station's login tells what PLATO believes; with
\* none under way the NIU believes it too (FlagAgrees).
LastTells ==
    \A i \in 1 .. Len(outWords) :
        /\ Tells(outWords[i])
        /\ \A j \in i + 1 .. Len(outWords) :
              outWords[j].port = outWords[i].port => ~Tells(outWords[j])
        => (session[outWords[i].port] # 0 <=> outWords[i].word = echotype)
Agrees ==
    \A p \in Ports :
        (\A i \in 1 .. Len(outWords) : outWords[i].port = p => ~Tells(outWords[i]))
            => (loggedIn[p] <=> session[p] # 0)

\* There is one word for the alert box at a time, and it goes to the operator.
OneBeat ==
    /\ \A i, j \in 1 .. Len(outWords) :
          Beats(outWords[i]) => /\ outWords[i].port = niuOpstat
                                /\ Beats(outWords[j]) => i = j
    /\ \A p \in Ports : currOutput[p] \in {resett, resetb} => p = niuOpstat
    /\ (\E i \in 1 .. Len(outWords) : Beats(outWords[i])) =>
          opAt = "idle" /\ \A p \in Ports : currOutput[p] \notin {resett, resetb}
    /\ (\E p \in Ports : currOutput[p] \in {resett, resetb}) => opAt = "idle"

\* A keepalive that is not counted yet.
Uncounted ==
    \/ opAt \in {resett, "read", "write"}
    \/ \E i \in 1 .. Len(outWords) : outWords[i].word = resett
    \/ \E p \in Ports : currOutput[p] = resett
Counted ==
    /\ beats <= setting.beats
    /\ Uncounted => niuAlertCount + 1 <= beats
    /\ opAt = "write" => opRead + 1 <= beats

\* The inductive invariant of the whole unit.
IInv == /\ setting \in Settings /\ users <= setting.users /\ beats \in Nat
        /\ TypeOK /\ Occupied /\ Channel /\ LastTells /\ Agrees /\ OneBeat /\ Counted

-----------------------------------------------------------------------------
\* A key that user k typed at p is on its way from the station to PLATO.
UnderWayTo(p, k) ==
    \/ \E i \in 1 .. Len(inWords) : inWords[i] = <<p, k>>
    \/ (currInPort = p \/ (channel = "key" /\ lastInPort = p)) /\ currInput[p] = k

\* The user of a station finds the session of another there.
Foreign(p) == np[p] # 0 /\ session[p] \notin {0, np[p]}

\* Keys under way to PLATO are of one user, and the session is his or there is none.
OneTypist ==
    \A p \in Ports, k \in UserIds \ {offky2} :
        UnderWayTo(p, k) =>
            /\ session[p] \in {0, k}
            /\ np[p] \in {0, k}
            /\ \A other \in UserIds \ {offky2} : UnderWayTo(p, other) => other = k

\* Whoever finds another's session is kept away from it, and nothing can lift that but
\* PLATO's answer to a logout.
KeptAway ==
    \A p \in Ports :
        Foreign(p) =>
            /\ \A i \in 1 .. Len(outWords) : outWords[i].port = p => ~Tells(outWords[i])
            /\ link[p] \in {"welcome", "force"} \/ forceLogout[p]

\* The inductive invariant of the sessions, where a new user does not come before all of
\* the old one is through.
SInv == OneTypist /\ KeptAway

-----------------------------------------------------------------------------
(***************************************************************************)
(* Sequences of words.                                                     *)
(***************************************************************************)
Words == [port : Ports, word : {NOP3, echotype, resett, resetb}, end : BOOLEAN]

\* The first of a sequence goes.
LEMMA TailFacts ==
    ASSUME NEW S, NEW s \in Seq(S), s # <<>>
    PROVE  /\ Tail(s) \in Seq(S) /\ Head(s) = s[1] /\ s[1] \in S /\ Len(s) \in Nat \ {0}
           /\ Len(Tail(s)) = Len(s) - 1
           /\ \A i \in 1 .. Len(s) - 1 : Tail(s)[i] = s[i + 1]
BY HeadTailProperties, EmptySeq, LenProperties

\* One is put behind the last.
LEMMA AppendFacts ==
    ASSUME NEW S, NEW s \in Seq(S), NEW x \in S
    PROVE  /\ Append(s, x) \in Seq(S) /\ Len(s) \in Nat
           /\ Len(Append(s, x)) = Len(s) + 1
           /\ \A i \in 1 .. Len(s) : Append(s, x)[i] = s[i]
           /\ Append(s, x)[Len(s) + 1] = x
BY AppendProperties, LenProperties

\* Two are put behind the last.
LEMMA PairFacts ==
    ASSUME NEW S, NEW s \in Seq(S), NEW x \in S, NEW y \in S
    PROVE  /\ s \o <<x, y>> \in Seq(S) /\ Len(s) \in Nat
           /\ Len(s \o <<x, y>>) = Len(s) + 2
           /\ \A i \in 1 .. Len(s) : (s \o <<x, y>>)[i] = s[i]
           /\ (s \o <<x, y>>)[Len(s) + 1] = x
           /\ (s \o <<x, y>>)[Len(s) + 2] = y
<1> DEFINE t == <<x, y>>
<1>1. t \in Seq(S) /\ Len(t) = 2 /\ t[1] = x /\ t[2] = y /\ Len(s) \in Nat
  BY LenProperties
<1> HIDE DEF t
<1>2. /\ s \o t \in Seq(S)
      /\ Len(s \o t) = Len(s) + Len(t)
      /\ \A i \in 1 .. Len(s) + Len(t) :
            (s \o t)[i] = IF i <= Len(s) THEN s[i] ELSE t[i - Len(s)]
  BY <1>1, ConcatProperties
<1>3. /\ s \o t \in Seq(S)
      /\ Len(s \o t) = Len(s) + 2
      /\ \A i \in 1 .. Len(s) : (s \o t)[i] = s[i]
      /\ (s \o t)[Len(s) + 1] = x
      /\ (s \o t)[Len(s) + 2] = y
  BY <1>1, <1>2
<1> QED
  BY <1>1, <1>3 DEF t

\* What the lemmas below need of the types.
LEMMA Types ==
    ASSUME IInv
    PROVE  /\ niuStations \in Nat \ {0} /\ Ports \subseteq Nat
           /\ outWords \in Seq(Words) /\ Len(outWords) \in Nat
           /\ \A i \in 1 .. Len(outWords) : outWords[i] \in Words
           /\ inWords \in Seq(Ports \X UserIds) /\ Len(inWords) \in Nat
           /\ \A i \in 1 .. Len(inWords) : inWords[i] \in Ports \X UserIds
           /\ UserIds \subseteq Nat /\ setting.users \in 0 .. MaxUsers /\ setting.beats \in Nat
           /\ setting.beats > 0 => niuOpstat \in Ports
<1>1. niuStations \in Nat \ {0} /\ Ports \subseteq Nat /\ UserIds \subseteq Nat
  BY NiuAssumption DEF Ports, UserIds
<1>2. outWords \in Seq(Words) /\ inWords \in Seq(Ports \X UserIds)
  BY DEF IInv, TypeOK, Words
<1>3. /\ setting.users \in 0 .. MaxUsers /\ setting.beats \in Nat
      /\ setting.beats > 0 => niuOpstat \in Ports
  BY NiuAssumption DEF IInv, Ports
<1> QED
  BY <1>1, <1>2, <1>3, LenProperties, ElementOfSeq

-----------------------------------------------------------------------------
(***************************************************************************)
(* What PLATO says, and what the NIU hears.                                *)
(***************************************************************************)
\* PLATO says whether someone is logged in at p, as it is from now on.
LEMMA Told ==
    ASSUME IInv, NEW p \in Ports, NEW end \in BOOLEAN, NEW word \in {NOP3, echotype},
           outWords' = Append(outWords, [port |-> p, word |-> word, end |-> end]),
           loggedIn' = loggedIn, \A q \in Ports \ {p} : session'[q] = session[q],
           session'[p] # 0 <=> word = echotype
    PROVE  LastTells' /\ Agrees'
<1> DEFINE w == [port |-> p, word |-> word, end |-> end]
<1>1. /\ Len(outWords) \in Nat /\ Len(outWords') = Len(outWords) + 1
      /\ \A i \in 1 .. Len(outWords) : outWords'[i] = outWords[i] /\ outWords[i].port \in Ports
      /\ outWords'[Len(outWords) + 1] = w
  <2>1. w \in Words
    BY DEF Words
  <2> QED
    BY <2>1, Types, AppendFacts DEF Words
<1>2. w.port = p /\ w.word = word /\ Tells(w)
  BY DEF Tells
<1> HIDE DEF w
<1>3. LastTells'
  <2> SUFFICES ASSUME NEW i \in 1 .. Len(outWords'), Tells(outWords'[i]),
                      \A j \in i + 1 .. Len(outWords') :
                         outWords'[j].port = outWords'[i].port => ~Tells(outWords'[j])
               PROVE  session'[outWords'[i].port] # 0 <=> outWords'[i].word = echotype
    BY DEF LastTells, Tells
  <2>1. CASE i = Len(outWords) + 1
    BY <2>1, <1>1, <1>2
  <2>2. CASE i \in 1 .. Len(outWords)
    <3>1. outWords[i].port # p
      BY <2>2, <1>1, <1>2
    <3>2. \A j \in i + 1 .. Len(outWords) :
             outWords[j].port = outWords[i].port => ~Tells(outWords[j])
      BY <2>2, <1>1
    <3>3. session[outWords[i].port] # 0 <=> outWords[i].word = echotype
      BY <2>2, <3>2, <1>1 DEF IInv, LastTells
    <3> QED
      BY <2>2, <3>1, <3>3, <1>1
  <2> QED
    BY <2>1, <2>2, <1>1
<1>4. Agrees'
  <2> SUFFICES ASSUME NEW q \in Ports,
                      \A i \in 1 .. Len(outWords') : outWords'[i].port = q => ~Tells(outWords'[i])
               PROVE  loggedIn[q] <=> session'[q] # 0
    BY DEF Agrees, Tells
  <2>1. q # p
    BY <1>1, <1>2
  <2>2. \A i \in 1 .. Len(outWords) : outWords[i].port = q => ~Tells(outWords[i])
    BY <1>1
  <2> QED
    BY <2>1, <2>2 DEF IInv, Agrees
<1> QED
  BY <1>3, <1>4

\* PLATO sends something else.
LEMMA Beaten ==
    ASSUME IInv, NEW p \in Ports, NEW end \in BOOLEAN, NEW word \in {resett, resetb},
           outWords' = Append(outWords, [port |-> p, word |-> word, end |-> end]),
           UNCHANGED <<loggedIn, session>>
    PROVE  LastTells' /\ Agrees'
<1> DEFINE w == [port |-> p, word |-> word, end |-> end]
<1>1. /\ Len(outWords) \in Nat /\ Len(outWords') = Len(outWords) + 1
      /\ \A i \in 1 .. Len(outWords) : outWords'[i] = outWords[i]
      /\ outWords'[Len(outWords) + 1] = w
  <2>1. w \in Words
    BY DEF Words
  <2> QED
    BY <2>1, Types, AppendFacts
<1>2. ~Tells(w)
  BY DEF Tells, NOP3, echotype, resett, resetb
<1> HIDE DEF w
<1>3. LastTells'
  <2> SUFFICES ASSUME NEW i \in 1 .. Len(outWords'), Tells(outWords'[i]),
                      \A j \in i + 1 .. Len(outWords') :
                         outWords'[j].port = outWords'[i].port => ~Tells(outWords'[j])
               PROVE  session[outWords'[i].port] # 0 <=> outWords'[i].word = echotype
    BY DEF LastTells, Tells
  <2>1. i \in 1 .. Len(outWords)
    BY <1>1, <1>2
  <2>2. \A j \in i + 1 .. Len(outWords) :
           outWords[j].port = outWords[i].port => ~Tells(outWords[j])
    BY <2>1, <1>1
  <2> QED
    BY <2>1, <2>2, <1>1 DEF IInv, LastTells
<1>4. Agrees'
  <2> SUFFICES ASSUME NEW q \in Ports,
                      \A i \in 1 .. Len(outWords') : outWords'[i].port = q => ~Tells(outWords'[i])
               PROVE  loggedIn[q] <=> session[q] # 0
    BY DEF Agrees, Tells
  <2>1. \A i \in 1 .. Len(outWords) : outWords[i].port = q => ~Tells(outWords[i])
    BY <1>1
  <2> QED
    BY <2>1 DEF IInv, Agrees
<1> QED
  BY <1>3, <1>4

\* The NIU acts on the first of PLATO's words.
LEMMA Heard ==
    ASSUME IInv, outWords # <<>>, outWords' = Tail(outWords), session' = session,
           loggedIn' = [loggedIn EXCEPT ![Head(outWords).port] =
                           (@ /\ Head(outWords).word # NOP3) \/ Head(outWords).word = echotype]
    PROVE  LastTells' /\ Agrees'
<1> DEFINE w == outWords[1]
<1>1. /\ Len(outWords) \in Nat \ {0} /\ Len(outWords') = Len(outWords) - 1
      /\ \A i \in 1 .. Len(outWords') : outWords'[i] = outWords[i + 1]
      /\ w.port \in Ports /\ Head(outWords) = w
  <2>1. outWords \in Seq(Words)
    BY Types
  <2>2. /\ Head(outWords) = w /\ w \in Words /\ Len(outWords) \in Nat \ {0}
        /\ Len(Tail(outWords)) = Len(outWords) - 1
        /\ \A i \in 1 .. Len(outWords) - 1 : Tail(outWords)[i] = outWords[i + 1]
    BY <2>1, TailFacts
  <2>3. w.port \in Ports
    BY <2>2 DEF Words
  <2> QED
    BY <2>2, <2>3
<1>2. LastTells'
  <2> SUFFICES ASSUME NEW i \in 1 .. Len(outWords'), Tells(outWords'[i]),
                      \A j \in i + 1 .. Len(outWords') :
                         outWords'[j].port = outWords'[i].port => ~Tells(outWords'[j])
               PROVE  session[outWords'[i].port] # 0 <=> outWords'[i].word = echotype
    BY DEF LastTells, Tells
  <2>1. i + 1 \in 1 .. Len(outWords) /\ outWords'[i] = outWords[i + 1]
    BY <1>1
  <2>2. \A j \in i + 2 .. Len(outWords) :
           outWords[j].port = outWords[i + 1].port => ~Tells(outWords[j])
    <3> TAKE j \in i + 2 .. Len(outWords)
    <3>1. j - 1 \in i + 1 .. Len(outWords') /\ outWords'[j - 1] = outWords[j]
      BY <1>1
    <3> QED
      BY <3>1, <2>1
  <2>3. i + 2 = (i + 1) + 1
    BY <1>1
  <2> QED
    BY <2>1, <2>2, <2>3 DEF IInv, LastTells
<1>3. Agrees'
  <2> SUFFICES ASSUME NEW q \in Ports,
                      \A i \in 1 .. Len(outWords') : outWords'[i].port = q => ~Tells(outWords'[i])
               PROVE  loggedIn'[q] <=> session[q] # 0
    BY DEF Agrees, Tells
  <2>1. \A j \in 2 .. Len(outWords) : outWords[j].port = q => ~Tells(outWords[j])
    <3> TAKE j \in 2 .. Len(outWords)
    <3>1. j - 1 \in 1 .. Len(outWords') /\ outWords'[j - 1] = outWords[j]
      BY <1>1
    <3> QED
      BY <3>1
  <2>2. loggedIn \in [Ports -> BOOLEAN]
    BY DEF IInv, TypeOK
  <2>3. CASE w.port = q /\ Tells(w)
    <3>1. session[q] # 0 <=> w.word = echotype
      BY <2>1, <2>3, <1>1 DEF IInv, LastTells
    <3>2. loggedIn'[q] <=> w.word = echotype
      BY <2>2, <2>3, <1>1 DEF Tells, NOP3, echotype
    <3> QED
      BY <3>1, <3>2
  <2>4. CASE ~(w.port = q /\ Tells(w))
    <3>1. loggedIn'[q] <=> loggedIn[q]
      BY <2>2, <2>4, <1>1 DEF Tells
    <3>2. \A j \in 1 .. Len(outWords) : outWords[j].port = q => ~Tells(outWords[j])
      BY <2>1, <2>4, <1>1
    <3> QED
      BY <3>1, <3>2 DEF IInv, Agrees
  <2> QED
    BY <2>3, <2>4
<1> QED
  BY <1>2, <1>3

-----------------------------------------------------------------------------
(***************************************************************************)
(* What an action leaves alone.                                            *)
(***************************************************************************)
\* The types, by the actors that change them.
LinkTypes ==
    /\ users \in UserIds
    /\ np \in [Ports -> UserIds]
    /\ link \in [Ports -> {"free", "welcome", "force", "up", "gone"}]
    /\ ring \in [Ports -> Seq({1, 2} \X (1 .. MaxUsers))]
FlagTypes ==
    /\ loggedIn \in [Ports -> BOOLEAN] /\ sendLogout \in [Ports -> BOOLEAN]
    /\ forceLogout \in [Ports -> BOOLEAN]
InTypes ==
    /\ currInput \in [Ports -> UserIds]
    /\ currInPort \in Ports \cup {-1} /\ lastInPort \in Ports
    /\ channel \in {"empty", "station", "key"} /\ fcode \in {"input", "deselect"}
PlatoTypes ==
    /\ inWords \in Seq(Ports \X UserIds) /\ outWords \in Seq(Words)
    /\ session \in [Ports -> UserIds]
BoxTypes ==
    /\ currOutput \in [Ports -> {NOP3, echotype, resett, resetb, NoWord}]
    /\ niuAlertCount \in 0 .. beats /\ niuLastAlertCount \in 0 .. setting.beats
    /\ opAt \in {"idle", resett, "read", "write", resetb, "off"} /\ opRead \in 0 .. beats
    /\ alertAt \in {"test", "compare", "save", "alarm", "tell", "reset", "sleep", "last",
                    "tell last", "exit"}
    /\ told \in {"none", "up", "down", "crash"}

LEMMA TypeParts == TypeOK <=> LinkTypes /\ FlagTypes /\ InTypes /\ PlatoTypes /\ BoxTypes
BY DEF TypeOK, LinkTypes, FlagTypes, InTypes, PlatoTypes, BoxTypes, Words

\* The same of the next state.
LEMMA TypePartsNext ==
    (TypeOK <=> LinkTypes /\ FlagTypes /\ InTypes /\ PlatoTypes /\ BoxTypes)'
BY TypeParts, PTL

\* What makes up the invariant in the next state.
LEMMA Together ==
    ASSUME LinkTypes', FlagTypes', InTypes', PlatoTypes', BoxTypes',
           Occupied', Channel', LastTells', Agrees', OneBeat', Counted',
           setting' \in Settings, users' <= setting'.users, beats' \in Nat
    PROVE  IInv'
BY TypePartsNext DEF IInv

\* No word comes or goes, and nobody logs in or out.
LEMMA WordsFrame ==
    ASSUME IInv, UNCHANGED <<outWords, session, loggedIn>>
    PROVE  LastTells' /\ Agrees'
BY DEF IInv, LastTells, Agrees, Tells

LEMMA PlatoFrame == ASSUME PlatoTypes, UNCHANGED platoVars PROVE PlatoTypes'
BY DEF PlatoTypes, platoVars

\* Nothing happens to the alert box.
LEMMA BoxFrame ==
    ASSUME IInv, UNCHANGED <<outWords, currOutput, setting, alertVars>>
    PROVE  /\ BoxTypes' /\ OneBeat' /\ Counted'
           /\ setting' \in Settings /\ beats' \in Nat
<1>1. BoxTypes'
  BY TypeParts DEF IInv, BoxTypes, alertVars, opVars, threadVars
<1> QED
  BY <1>1 DEF IInv, OneBeat, Counted, Uncounted, Beats, alertVars, opVars

\* Neither the stations' connections nor the keys in their rings change.
LEMMA StationsFrame ==
    ASSUME IInv, UNCHANGED <<linkVars, ring, setting>>
    PROVE  LinkTypes' /\ Occupied' /\ users' <= setting'.users
BY TypeParts DEF IInv, LinkTypes, Occupied, linkVars

LEMMA ChannelFrame == ASSUME IInv, UNCHANGED inVars PROVE InTypes' /\ Channel'
BY TypeParts DEF IInv, InTypes, Channel, inVars

-----------------------------------------------------------------------------
(***************************************************************************)
(* Terminals and their data threads.                                       *)
(***************************************************************************)
\* A new connection, and how it is welcomed.
LEMMA WelcomeKeeps ==
    ASSUME IInv, NEW p \in Ports, Welcome(p) \/ WelcomeTest(p) \/ WelcomeForce(p)
    PROVE  IInv'
<1> USE DEF Welcome, WelcomeTest, WelcomeForce
<1>0. LinkTypes /\ FlagTypes /\ PlatoTypes
  BY TypeParts DEF IInv
<1>1. users' \in 0 .. setting.users /\ users' \in UserIds
  <2>1. /\ users \in Nat /\ users <= setting.users /\ setting.users \in 0 .. MaxUsers
        /\ MaxUsers \in Nat
    BY <1>0, Types, NiuAssumption DEF IInv, LinkTypes, UserIds
  <2>2. (users < setting.users /\ users' = users + 1) \/ users' = users
    OBVIOUS
  <2> QED
    BY <2>1, <2>2 DEF UserIds
<1>2. np' \in [Ports -> UserIds] /\ np'[p] # 0 /\ \A q \in Ports \ {p} : np'[q] = np[q]
  <2>1. CASE Welcome(p)
    <3>1. np' = [np EXCEPT ![p] = users'] /\ users' # 0
      BY <2>1, <1>0 DEF LinkTypes, UserIds
    <3> QED
      BY <3>1, <1>0, <1>1 DEF LinkTypes
  <2>2. CASE WelcomeTest(p) \/ WelcomeForce(p)
    <3>1. np' = np /\ link[p] # "free"
      BY <2>2
    <3> QED
      BY <3>1, <1>0 DEF IInv, Occupied, LinkTypes
  <2> QED
    BY <2>1, <2>2
<1>3. /\ link' \in [Ports -> {"free", "welcome", "force", "up", "gone"}]
      /\ link[p] \notin {"up", "gone"} /\ link'[p] # "free" /\ ring' = ring
      /\ \A q \in Ports \ {p} : link'[q] = link[q]
  BY <1>0 DEF LinkTypes
<1>4. LinkTypes' /\ FlagTypes' /\ PlatoTypes'
  <2>1. LinkTypes'
    BY <1>0, <1>1, <1>2, <1>3 DEF LinkTypes, UserIds
  <2>2. FlagTypes'
    BY <1>0 DEF FlagTypes, flagVars
  <2> QED
    BY <2>1, <2>2, <1>0, PlatoFrame
<1>5. Occupied'
  <2>1. ring[p] = <<>>
    BY <1>3 DEF IInv, Occupied
  <2>2. \A i \in 1 .. Len(ring[p]) : FALSE
    BY <2>1
  <2> QED
    BY <1>2, <1>3, <2>1, <2>2 DEF IInv, Occupied
<1>6. LastTells' /\ Agrees'
  BY WordsFrame DEF platoVars, flagVars
<1>7. /\ InTypes' /\ Channel' /\ BoxTypes' /\ OneBeat' /\ Counted'
      /\ setting' \in Settings /\ beats' \in Nat
  BY BoxFrame, ChannelFrame DEF platoVars
<1>8. users' <= setting'.users
  BY <1>1, Types
<1> QED
  BY <1>4, <1>5, <1>6, <1>7, <1>8, Together

\* Keys, single bytes, and the end of a connection.
LEMMA TypingKeeps ==
    ASSUME IInv, NEW p \in Ports, Key(p) \/ Stray(p) \/ Gone(p)
    PROVE  IInv'
<1> USE DEF Key, Stray, Gone
<1>1. /\ np[p] \in 1 .. MaxUsers /\ link[p] = "up"
      /\ UNCHANGED <<users, np, flagVars, inVars, platoVars, currOutput, alertVars, setting>>
  <2>1. link[p] = "up" /\ np[p] # 0
    BY DEF IInv, Occupied
  <2>2. np[p] \in UserIds /\ MaxUsers \in Nat
    BY NiuAssumption DEF IInv, TypeOK
  <2>3. np[p] \in 1 .. MaxUsers
    BY <2>1, <2>2 DEF UserIds
  <2>4. UNCHANGED <<users, np, flagVars, inVars, platoVars, currOutput, alertVars, setting>>
    BY DEF linkVars
  <2> QED
    BY <2>1, <2>3, <2>4
<1>2. ring[p] \in Seq({1, 2} \X (1 .. MaxUsers))
  BY DEF IInv, TypeOK
<1>3. /\ ring'[p] \in Seq({1, 2} \X (1 .. MaxUsers))
      /\ \A i \in 1 .. Len(ring'[p]) : ring'[p][i][2] = np[p]
      /\ \A q \in Ports \ {p} : ring'[q] = ring[q]
      /\ ring' = [ring EXCEPT ![p] = ring'[p]]
  <2> DEFINE one == <<1, np[p]>>
             two == <<2, np[p]>>
  <2>1. /\ one \in {1, 2} \X (1 .. MaxUsers) /\ two \in {1, 2} \X (1 .. MaxUsers)
        /\ one[2] = np[p] /\ two[2] = np[p]
    BY <1>1
  <2>2. ring'[p] \in {ring[p], Append(ring[p], two), ring[p] \o <<one, two>>}
    BY DEF IInv, TypeOK
  <2>3. \A i \in 1 .. Len(ring[p]) : ring[p][i][2] = np[p]
    BY DEF IInv, Occupied
  <2>4. /\ \A q \in Ports \ {p} : ring'[q] = ring[q]
        /\ ring' = [ring EXCEPT ![p] = ring'[p]]
    BY DEF IInv, TypeOK
  <2> HIDE DEF one, two
  <2>5. CASE ring'[p] = ring[p]
    BY <2>5, <2>3, <2>4, <1>2
  <2>6. CASE ring'[p] = Append(ring[p], two)
    BY <2>6, <2>1, <2>3, <2>4, <1>2, AppendFacts
  <2>7. CASE ring'[p] = ring[p] \o <<one, two>>
    <3> DEFINE S == {1, 2} \X (1 .. MaxUsers)
    <3>1. ring[p] \in Seq(S) /\ one \in S /\ two \in S
      BY <2>1, <1>2
    <3> HIDE DEF S
    <3>2. /\ ring[p] \o <<one, two>> \in Seq(S) /\ Len(ring[p]) \in Nat
          /\ Len(ring[p] \o <<one, two>>) = Len(ring[p]) + 2
          /\ \A i \in 1 .. Len(ring[p]) : (ring[p] \o <<one, two>>)[i] = ring[p][i]
          /\ (ring[p] \o <<one, two>>)[Len(ring[p]) + 1] = one
          /\ (ring[p] \o <<one, two>>)[Len(ring[p]) + 2] = two
      BY <3>1, PairFacts
    <3>3. /\ ring'[p] \in Seq(S) /\ Len(ring'[p]) = Len(ring[p]) + 2
          /\ \A i \in 1 .. Len(ring[p]) : ring'[p][i] = ring[p][i]
          /\ ring'[p][Len(ring[p]) + 1] = one /\ ring'[p][Len(ring[p]) + 2] = two
      BY <3>2, <2>7
    <3>4. \A i \in 1 .. Len(ring'[p]) : ring'[p][i][2] = np[p]
      <4> TAKE i \in 1 .. Len(ring'[p])
      <4>1. \/ i \in 1 .. Len(ring[p])
            \/ i = Len(ring[p]) + 1 \/ i = Len(ring[p]) + 2
        BY <3>2, <3>3
      <4>2. CASE i \in 1 .. Len(ring[p])
        BY <4>2, <3>3, <2>3
      <4>3. CASE i = Len(ring[p]) + 1
        BY <4>3, <3>3, <2>1
      <4>4. CASE i = Len(ring[p]) + 2
        BY <4>4, <3>3, <2>1
      <4> QED
        BY <4>1, <4>2, <4>3, <4>4
    <3> QED
      BY <3>3, <3>4, <2>4 DEF S
  <2> QED
    BY <2>2, <2>5, <2>6, <2>7
<1>4. link' \in [Ports -> {"free", "welcome", "force", "up", "gone"}]
  BY DEF IInv, TypeOK, linkVars
<1>5. LinkTypes' /\ FlagTypes' /\ PlatoTypes'
  <2>0. LinkTypes /\ FlagTypes /\ PlatoTypes
    BY TypeParts DEF IInv
  <2>1. LinkTypes'
    BY <2>0, <1>1, <1>3, <1>4 DEF LinkTypes
  <2>2. FlagTypes'
    BY <2>0, <1>1 DEF FlagTypes, flagVars
  <2> QED
    BY <2>0, <2>1, <2>2, <1>1, PlatoFrame
<1>6. Occupied'
  <2>1. link'[p] \in {"up", "gone"} /\ \A q \in Ports \ {p} : link'[q] = link[q]
    BY DEF IInv, TypeOK, linkVars
  <2> QED
    BY <1>1, <1>3, <2>1 DEF IInv, Occupied
<1>7. LastTells' /\ Agrees'
  BY <1>1, WordsFrame DEF platoVars, flagVars
<1>8. /\ InTypes' /\ Channel' /\ BoxTypes' /\ OneBeat' /\ Counted'
      /\ setting' \in Settings /\ beats' \in Nat
  BY <1>1, BoxFrame, ChannelFrame DEF platoVars
<1>9. users' <= setting'.users
  BY <1>1 DEF IInv
<1> QED
  BY <1>5, <1>6, <1>7, <1>8, <1>9, Together

-----------------------------------------------------------------------------
(***************************************************************************)
(* The scan of the stations and the input channel.                         *)
(***************************************************************************)
\* A step of niuInIo that looks at a station.
LEMMA ScanKeeps == ASSUME IInv, Scan PROVE IInv'
<1>1. PICK p \in Ports : ScanLogout(p) \/ ScanClose(p) \/ ScanKey(p)
  BY DEF Scan
<1>2. /\ fcode = "input" /\ p >= 0 /\ p \in Nat
      /\ UNCHANGED <<platoVars, currOutput, alertVars, setting>>
  BY Types DEF Scan
<1>3. LinkTypes /\ FlagTypes /\ InTypes /\ PlatoTypes
  BY TypeParts DEF IInv
<1>4. /\ LinkTypes' /\ Occupied' /\ users' <= setting'.users
  <2>1. CASE ScanLogout(p)
    BY <2>1, <1>2, StationsFrame DEF ScanLogout
  <2>2. CASE ScanClose(p)
    <3>1. /\ link' = [link EXCEPT ![p] = "free"] /\ np' = [np EXCEPT ![p] = 0]
          /\ ring' = [ring EXCEPT ![p] = <<>>] /\ users' = users /\ setting' = setting
      BY <2>2, <1>2 DEF ScanClose
    <3>2. 0 \in UserIds /\ <<>> \in Seq({1, 2} \X (1 .. MaxUsers))
      BY NiuAssumption DEF UserIds
    <3>3. LinkTypes'
      BY <3>1, <3>2, <1>3 DEF LinkTypes
    <3>4. np'[p] = 0 /\ link'[p] = "free" /\ ring'[p] = <<>>
      BY <3>1, <1>3 DEF LinkTypes
    <3>5. \A q \in Ports \ {p} : np'[q] = np[q] /\ link'[q] = link[q] /\ ring'[q] = ring[q]
      BY <3>1, <1>3 DEF LinkTypes
    <3>6. \A i \in 1 .. Len(ring'[p]) : FALSE
      BY <3>4
    <3> QED
      BY <3>1, <3>3, <3>4, <3>5, <3>6 DEF IInv, Occupied
  <2>3. CASE ScanKey(p)
    <3> DEFINE S == {1, 2} \X (1 .. MaxUsers)
               rest == SubSeq(ring[p], 3, Len(ring[p]))
    <3>1. /\ ring' = [ring EXCEPT ![p] = rest] /\ Len(ring[p]) >= 2
          /\ link[p] \in {"up", "gone"} /\ UNCHANGED <<linkVars, setting>>
      BY <2>3, <1>2 DEF ScanKey
    <3>2. ring[p] \in Seq(S)
      BY <1>3 DEF LinkTypes
    <3>3. ring \in [Ports -> Seq(S)]
      BY <1>3 DEF LinkTypes
    <3> HIDE DEF S
    <3>4. Len(ring[p]) \in Nat /\ \A i \in 3 .. Len(ring[p]) : ring[p][i] \in S
      BY <3>2, LenProperties, ElementOfSeq
    <3>5. /\ rest \in Seq(S) /\ Len(rest) = Len(ring[p]) - 2
          /\ \A i \in 1 .. Len(ring[p]) - 2 : rest[i] = ring[p][i + 2]
      <4>1. Len(ring[p]) \in Int /\ 3 \in Int
        BY <3>4
      <4>2. /\ rest \in Seq(S)
            /\ Len(rest) = IF 3 <= Len(ring[p]) THEN Len(ring[p]) - 3 + 1 ELSE 0
            /\ \A i \in 1 .. Len(ring[p]) - 3 + 1 : rest[i] = ring[p][3 + i - 1]
        BY <3>4, <4>1, SubSeqProperties
      <4> QED
        BY <4>2, <3>1, <3>4
    <3> HIDE DEF rest
    <3>6. ring' \in [Ports -> Seq(S)] /\ ring'[p] = rest
          /\ \A q \in Ports \ {p} : ring'[q] = ring[q]
      BY <3>1, <3>3, <3>5
    <3>7. LinkTypes'
      BY <3>1, <3>6, <1>3 DEF LinkTypes, linkVars, S
    <3>8. \A i \in 1 .. Len(rest) : rest[i][2] = np[p]
      BY <3>1, <3>4, <3>5 DEF IInv, Occupied
    <3> QED
      BY <3>1, <3>6, <3>7, <3>8 DEF IInv, Occupied, linkVars
  <2> QED
    BY <1>1, <2>1, <2>2, <2>3
<1>5. FlagTypes' /\ loggedIn' = loggedIn
  BY <1>1, <1>3 DEF ScanLogout, ScanClose, ScanKey, flagVars, FlagTypes
<1>6. InTypes' /\ Channel'
  <2>1. CASE UNCHANGED inVars
    BY <2>1, ChannelFrame
  <2>2. CASE \E k \in UserIds : Offer(p, k)
    <3>1. PICK k \in UserIds : Offer(p, k)
      BY <2>2
    <3>2. InTypes'
      BY <3>1, <1>3 DEF Offer, InTypes
    <3> QED
      BY <3>1, <3>2, <1>2 DEF Offer, Channel
  <2>3. UNCHANGED inVars \/ \E k \in UserIds : Offer(p, k)
    <3>1. offky2 \in UserIds
      BY NiuAssumption DEF offky2, UserIds
    <3>2. Len(ring[p]) >= 2 => ring[p][1][2] \in UserIds
      <4>1. Len(ring[p]) \in Nat /\ np[p] \in UserIds
        BY <1>3, LenProperties DEF LinkTypes
      <4>2. SUFFICES ASSUME Len(ring[p]) >= 2 PROVE ring[p][1][2] \in UserIds
        OBVIOUS
      <4>3. 1 \in 1 .. Len(ring[p])
        BY <4>1, <4>2
      <4> QED
        BY <4>1, <4>3 DEF IInv, Occupied
    <3> QED
      BY <1>1, <3>1, <3>2 DEF ScanLogout, ScanClose, ScanKey, NoOffer
  <2> QED
    BY <2>1, <2>2, <2>3
<1>7. PlatoTypes' /\ LastTells' /\ Agrees'
  BY <1>2, <1>3, <1>5, PlatoFrame, WordsFrame DEF platoVars
<1>8. /\ BoxTypes' /\ OneBeat' /\ Counted'
      /\ setting' \in Settings /\ beats' \in Nat
  BY <1>2, BoxFrame DEF platoVars
<1> QED
  BY <1>4, <1>5, <1>6, <1>7, <1>8, Together

\* The key follows its station; PIO takes what is in the channel; it selects input.
LEMMA ChannelKeeps == ASSUME IInv, SendKey \/ TakeWord \/ Select PROVE IInv'
<1> USE DEF SendKey, TakeWord, Select
<1>1. LinkTypes /\ FlagTypes /\ InTypes /\ PlatoTypes
  BY TypeParts DEF IInv
<1>2. /\ UNCHANGED <<linkVars, ring, flagVars, currInput, lastInPort, outWords, session,
                     currOutput, alertVars, setting>>
  BY DEF platoVars
<1>3. LinkTypes' /\ Occupied' /\ users' <= setting'.users
  BY <1>2, StationsFrame
<1>4. FlagTypes' /\ loggedIn' = loggedIn
  BY <1>1, <1>2 DEF FlagTypes, flagVars
<1>5. LastTells' /\ Agrees'
  BY <1>2, <1>4, WordsFrame
<1>6. InTypes'
  BY <1>1, <1>2 DEF InTypes
<1>7. Channel'
  <2>1. currInPort' = -1 \/ currInPort' = currInPort
    OBVIOUS
  <2>2. currInPort \in Int /\ currInPort' \in Int
    BY <1>1, <1>6, Types DEF InTypes
  <2>3. CASE SendKey
    BY <2>3 DEF Channel
  <2>4. CASE TakeWord
    BY <2>4 DEF IInv, Channel
  <2>5. CASE Select
    BY <2>5 DEF IInv, Channel
  <2> QED
    BY <2>3, <2>4, <2>5
<1>8. PlatoTypes'
  <2>1. CASE UNCHANGED platoVars
    BY <2>1, <1>1, PlatoFrame
  <2>2. CASE inWords' = Append(inWords, <<lastInPort, currInput[lastInPort]>>)
    <3>1. <<lastInPort, currInput[lastInPort]>> \in Ports \X UserIds
      BY <1>1 DEF InTypes
    <3> QED
      BY <2>2, <3>1, <1>1, <1>2, AppendFacts DEF PlatoTypes
  <2> QED
    BY <1>2, <2>1, <2>2 DEF platoVars
<1>9. /\ BoxTypes' /\ OneBeat' /\ Counted'
      /\ setting' \in Settings /\ beats' \in Nat
  BY <1>2, BoxFrame
<1> QED
  BY <1>3, <1>4, <1>5, <1>6, <1>7, <1>8, <1>9, Together

-----------------------------------------------------------------------------
(***************************************************************************)
(* PLATO, its words and what the NIU makes of them.                        *)
(***************************************************************************)
\* A word that is not for the alert box is put behind the others.
LEMMA BoxBehind ==
    ASSUME IInv, NEW w \in Words, ~Beats(w), outWords' = Append(outWords, w),
           UNCHANGED <<currOutput, setting, alertVars>>
    PROVE  /\ BoxTypes' /\ OneBeat' /\ Counted'
           /\ setting' \in Settings /\ beats' \in Nat
<1>1. BoxTypes'
  BY TypeParts DEF IInv, BoxTypes, alertVars, opVars, threadVars
<1>2. /\ Len(outWords) \in Nat /\ Len(outWords') = Len(outWords) + 1
      /\ \A i \in 1 .. Len(outWords) : outWords'[i] = outWords[i]
      /\ outWords'[Len(outWords) + 1] = w
  BY Types, AppendFacts
<1>3. \A i \in 1 .. Len(outWords') :
         Beats(outWords'[i]) => i \in 1 .. Len(outWords) /\ Beats(outWords[i])
  BY <1>2
<1>4. OneBeat'
  BY <1>2, <1>3 DEF IInv, OneBeat, alertVars, opVars, Beats
<1>5. Uncounted' => Uncounted
  BY <1>2, <1>3 DEF Uncounted, alertVars, opVars, Beats
<1>6. Counted'
  BY <1>5 DEF IInv, Counted, alertVars, opVars
<1> QED
  BY <1>1, <1>4, <1>6 DEF IInv, alertVars

\* PLATO acts on a key.
LEMMA PlatoActsKeeps == ASSUME IInv, PlatoActs PROVE IInv'
<1> DEFINE p == Head(inWords)[1]
           user == Head(inWords)[2]
<1>1. LinkTypes /\ FlagTypes /\ InTypes /\ PlatoTypes
  BY TypeParts DEF IInv
<1>2. p \in Ports /\ user \in UserIds /\ inWords' \in Seq(Ports \X UserIds)
  <2>1. inWords \in Seq(Ports \X UserIds) /\ inWords # <<>> /\ inWords' = Tail(inWords)
    BY Types DEF PlatoActs
  <2>2. Head(inWords) \in Ports \X UserIds /\ inWords' \in Seq(Ports \X UserIds)
    BY <2>1, TailFacts
  <2> QED
    BY <2>2
<1>3. UNCHANGED <<linkVars, ring, flagVars, inVars, currOutput, alertVars, setting>>
  BY DEF PlatoActs
<1>4. \/ /\ user = 0 \/ session[p] # 0
         /\ session' = [session EXCEPT ![p] = 0] /\ Say(p, NOP3)
      \/ /\ user # 0 /\ session[p] = 0
         /\ session' = [session EXCEPT ![p] = user] /\ Say(p, echotype)
      \/ UNCHANGED <<session, outWords>>
  BY DEF PlatoActs, PlatoKey, PlatoLogout, offky2
<1>5. /\ LinkTypes' /\ Occupied' /\ users' <= setting'.users /\ InTypes' /\ Channel'
  BY <1>3, StationsFrame, ChannelFrame
<1>6. FlagTypes' /\ loggedIn' = loggedIn
  BY <1>1, <1>3 DEF FlagTypes, flagVars
<1> HIDE DEF p, user
<1>7. CASE UNCHANGED <<session, outWords>>
  <2>1. PlatoTypes'
    BY <1>7, <1>1, <1>2 DEF PlatoTypes
  <2>2. LastTells' /\ Agrees'
    BY <1>6, <1>7, WordsFrame
  <2>3. /\ BoxTypes' /\ OneBeat' /\ Counted'
        /\ setting' \in Settings /\ beats' \in Nat
    BY <1>3, <1>7, BoxFrame
  <2> QED
    BY <2>1, <2>2, <2>3, <1>5, <1>6, Together
<1>8. ASSUME NEW word \in {NOP3, echotype}, NEW k \in UserIds,
             session' = [session EXCEPT ![p] = k], Say(p, word), k # 0 <=> word = echotype
      PROVE  IInv'
  <2>1. PICK end \in BOOLEAN :
           outWords' = Append(outWords, [port |-> p, word |-> word, end |-> end])
    BY <1>8 DEF Say
  <2> DEFINE w == [port |-> p, word |-> word, end |-> end]
  <2>2. w \in Words
    BY <1>2 DEF Words
  <2>3. ~Beats(w)
    BY DEF Beats, NOP3, echotype, resett, resetb
  <2>4. PlatoTypes'
    <3>1. outWords' \in Seq(Words)
      BY <2>1, <2>2, Types, AppendFacts
    <3> QED
      BY <3>1, <1>1, <1>2, <1>8 DEF PlatoTypes
  <2>5. session'[p] = k /\ \A q \in Ports \ {p} : session'[q] = session[q]
    BY <1>1, <1>2, <1>8 DEF PlatoTypes
  <2>6. LastTells' /\ Agrees'
    BY <2>1, <2>5, <1>2, <1>6, <1>8, Told
  <2> HIDE DEF w
  <2>7. /\ BoxTypes' /\ OneBeat' /\ Counted'
        /\ setting' \in Settings /\ beats' \in Nat
    BY <2>1, <2>2, <2>3, <1>3, BoxBehind DEF w
  <2> QED
    BY <2>4, <2>6, <2>7, <1>5, <1>6, Together
<1>9. CASE session' = [session EXCEPT ![p] = 0] /\ Say(p, NOP3)
  <2>1. 0 \in UserIds /\ NOP3 # echotype
    BY NiuAssumption DEF UserIds, NOP3, echotype
  <2> QED
    BY <2>1, <1>8, <1>9
<1>10. CASE user # 0 /\ session' = [session EXCEPT ![p] = user] /\ Say(p, echotype)
  BY <1>2, <1>8, <1>10
<1> QED
  BY <1>4, <1>7, <1>9, <1>10

\* PLATO is started or goes: nobody is logged in, nothing is under way.
LEMMA DeselectKeeps == ASSUME IInv, Deselect PROVE IInv'
<1>1. LinkTypes /\ FlagTypes /\ InTypes /\ PlatoTypes /\ BoxTypes
  BY TypeParts DEF IInv
<1>2. /\ UNCHANGED <<linkVars, ring, currInput, currInPort, lastInPort, currOutput, alertVars,
                     setting>>
      /\ fcode' = "deselect" /\ channel' = "empty" /\ outWords' = <<>> /\ inWords' = <<>>
      /\ loggedIn' = [p \in Ports |-> FALSE] /\ session' = [p \in Ports |-> 0]
      /\ sendLogout' = [p \in Ports |-> FALSE] /\ forceLogout' = [p \in Ports |-> FALSE]
  BY DEF Deselect
<1>3. LinkTypes' /\ Occupied' /\ users' <= setting'.users
  BY <1>2, StationsFrame
<1>4. FlagTypes' /\ InTypes'
  BY <1>1, <1>2 DEF FlagTypes, InTypes
<1>5. Channel'
  BY <1>2 DEF IInv, Channel
<1>6. PlatoTypes'
  <2>1. <<>> \in Seq(Words) /\ <<>> \in Seq(Ports \X UserIds) /\ 0 \in UserIds
    BY NiuAssumption DEF UserIds
  <2> QED
    BY <2>1, <1>2 DEF PlatoTypes
<1>7. \A i \in 1 .. Len(outWords') : FALSE
  BY <1>2
<1>8. LastTells' /\ Agrees'
  BY <1>2, <1>7 DEF LastTells, Agrees
<1>9. BoxTypes' /\ setting' \in Settings /\ beats' \in Nat
  BY <1>1, <1>2 DEF IInv, BoxTypes, alertVars, opVars, threadVars
<1>10. OneBeat'
  BY <1>2, <1>7 DEF IInv, OneBeat, alertVars, opVars
<1>11. Counted'
  <2>1. Uncounted' => Uncounted
    BY <1>2, <1>7 DEF Uncounted, alertVars, opVars
  <2> QED
    BY <2>1, <1>2 DEF IInv, Counted, alertVars, opVars
<1> QED
  BY <1>3, <1>4, <1>5, <1>6, <1>8, <1>9, <1>10, <1>11, Together

\* The first word goes to its station, or waits for the end of its frame.
LEMMA OutIoKeeps == ASSUME IInv, niuOutIo PROVE IInv'
<1> DEFINE w == Head(outWords)
           words == [currOutput EXCEPT ![w.port] = w.word]
           Kinds == {NOP3, echotype, resett, resetb, NoWord}
<1>1. LinkTypes /\ FlagTypes /\ InTypes /\ PlatoTypes /\ BoxTypes
  BY TypeParts DEF IInv
<1>2. /\ UNCHANGED <<setting, linkVars, ring, sendLogout, inVars, inWords, session,
                     niuAlertCount, opRead, threadVars, emulationActive, beats, told>>
      /\ outWords # <<>> /\ outWords' = Tail(outWords)
      /\ Flagged(w.port, w.word) /\ opAt = "idle"
      /\ \/ currOutput' = [p \in Ports |-> NoWord] /\ ToOperator(words)
         \/ currOutput' = words /\ opAt' = opAt
  BY DEF niuOutIo, MainFree
<1>3. /\ w = outWords[1] /\ w \in Words /\ outWords' \in Seq(Words)
      /\ Len(outWords) \in Nat \ {0} /\ Len(outWords') = Len(outWords) - 1
      /\ \A i \in 1 .. Len(outWords) - 1 : outWords'[i] = outWords[i + 1]
  BY <1>2, Types, TailFacts
<1>4. w.port \in Ports /\ w.word \in {NOP3, echotype, resett, resetb}
  BY <1>3 DEF Words
<1> HIDE DEF w
<1>5. /\ LinkTypes' /\ Occupied' /\ users' <= setting'.users /\ InTypes' /\ Channel'
  BY <1>2, StationsFrame, ChannelFrame
<1>6. FlagTypes' /\ PlatoTypes'
  BY <1>1, <1>2, <1>3 DEF FlagTypes, PlatoTypes, Flagged
<1>7. LastTells' /\ Agrees'
  BY <1>2, Heard DEF Flagged, w
<1>8. /\ currOutput \in [Ports -> Kinds] /\ words \in [Ports -> Kinds]
      /\ words[w.port] = w.word
      /\ \A p \in Ports \ {w.port} : words[p] = currOutput[p]
  BY <1>1, <1>4 DEF BoxTypes
<1> HIDE DEF words
<1>9. /\ opAt' \in {"idle", resett, resetb}
      /\ opAt' # "idle" => niuOpstat \in Ports /\ words[niuOpstat] = opAt'
  <2>1. niuOpstat >= 0 => niuOpstat \in Ports
    BY NiuAssumption DEF Ports
  <2> QED
    BY <2>1, <1>2 DEF ToOperator
<1>10. \A p \in Ports : currOutput'[p] \in {NoWord, words[p]}
  BY <1>2
<1>11. \A p \in Ports : currOutput'[p] \in {resett, resetb} =>
           words[p] = currOutput'[p] /\ opAt' = "idle"
  <2>1. NoWord \notin {resett, resetb}
    BY DEF NoWord, resett, resetb
  <2> QED
    BY <2>1, <1>2, <1>10
<1>12. BoxTypes'
  <2>1. currOutput' \in [Ports -> Kinds]
    BY <1>2, <1>8
  <2>2. opAt' \in {"idle", resett, "read", "write", resetb, "off"}
    BY <1>9
  <2>3. /\ niuAlertCount' \in 0 .. beats' /\ niuLastAlertCount' \in 0 .. setting'.beats
        /\ opRead' \in 0 .. beats'
        /\ alertAt' \in {"test", "compare", "save", "alarm", "tell", "reset", "sleep",
                         "last", "tell last", "exit"}
        /\ told' \in {"none", "up", "down", "crash"}
    BY <1>1, <1>2 DEF BoxTypes, threadVars
  <2> QED
    BY <2>1, <2>2, <2>3 DEF BoxTypes
<1>13. /\ \A i \in 1 .. Len(outWords') :
             i + 1 \in 1 .. Len(outWords) /\ outWords'[i] = outWords[i + 1]
       /\ 1 \in 1 .. Len(outWords)
  BY <1>3
\* A word for the box that has come is the only one.
<1>14. \A p \in Ports : words[p] \in {resett, resetb} =>
          /\ p = niuOpstat
          /\ \A i \in 1 .. Len(outWords') : ~Beats(outWords'[i])
  <2> SUFFICES ASSUME NEW p \in Ports, words[p] \in {resett, resetb}
               PROVE  /\ p = niuOpstat
                      /\ \A i \in 1 .. Len(outWords') : ~Beats(outWords'[i])
    OBVIOUS
  <2>1. CASE currOutput[p] \in {resett, resetb}
    <3>1. \A i \in 1 .. Len(outWords) : ~Beats(outWords[i])
      BY <2>1 DEF IInv, OneBeat
    <3> QED
      BY <2>1, <3>1, <1>13 DEF IInv, OneBeat, Beats
  <2>2. CASE currOutput[p] \notin {resett, resetb}
    <3>1. p = w.port /\ Beats(outWords[1])
      BY <2>2, <1>3, <1>4, <1>8 DEF Beats
    <3>2. p = niuOpstat /\ \A j \in 1 .. Len(outWords) : Beats(outWords[j]) => j = 1
      BY <3>1, <1>3, <1>13 DEF IInv, OneBeat
    <3>3. \A i \in 1 .. Len(outWords') : i + 1 # 1
      BY <1>3
    <3>4. ASSUME NEW i \in 1 .. Len(outWords') PROVE ~Beats(outWords'[i])
      <4>1. i + 1 \in 1 .. Len(outWords) /\ outWords'[i] = outWords[i + 1] /\ i + 1 # 1
        BY <3>3, <1>13
      <4>2. ~Beats(outWords[i + 1])
        BY <4>1, <3>2
      <4> QED
        BY <4>1, <4>2
    <3> QED
      BY <3>2, <3>4
  <2> QED
    BY <2>1, <2>2
<1>15. OneBeat'
  <2>1. ASSUME NEW i \in 1 .. Len(outWords'), NEW j \in 1 .. Len(outWords'),
               Beats(outWords'[i])
        PROVE  outWords'[i].port = niuOpstat /\ (Beats(outWords'[j]) => i = j)
    <3>1. /\ i + 1 \in 1 .. Len(outWords) /\ outWords'[i] = outWords[i + 1]
          /\ j + 1 \in 1 .. Len(outWords) /\ outWords'[j] = outWords[j + 1]
      BY <1>13
    <3>2. /\ outWords'[i].port = niuOpstat
          /\ Beats(outWords'[j]) => i + 1 = j + 1
      BY <2>1, <3>1 DEF IInv, OneBeat
    <3>3. i + 1 = j + 1 => i = j
      BY <1>3
    <3> QED
      BY <3>2, <3>3
  <2>2. \A p \in Ports : currOutput'[p] \in {resett, resetb} =>
            p = niuOpstat /\ opAt' = "idle"
    BY <1>11, <1>14
  <2>3. ASSUME NEW i \in 1 .. Len(outWords'), Beats(outWords'[i])
        PROVE  opAt' = "idle" /\ \A p \in Ports : currOutput'[p] \notin {resett, resetb}
    BY <2>3, <1>9, <1>11, <1>14
  <2> QED
    BY <2>1, <2>2, <2>3 DEF OneBeat, Beats
<1>16. Counted'
  <2>1. ASSUME NEW p \in Ports, words[p] = resett PROVE Uncounted
    <3>1. CASE p = w.port
      BY <2>1, <3>1, <1>3, <1>8, <1>13 DEF Uncounted
    <3>2. CASE p # w.port
      BY <2>1, <3>2, <1>8 DEF Uncounted
    <3> QED
      BY <3>1, <3>2
  <2>2. Uncounted' => Uncounted
    <3>1. CASE opAt' \in {resett, "read", "write"}
      <4>1. opAt' = resett /\ opAt' # "idle"
        BY <3>1, <1>9 DEF resetb, resett
      <4> QED
        BY <4>1, <2>1, <1>9
    <3>2. ASSUME NEW i \in 1 .. Len(outWords'), outWords'[i].word = resett PROVE Uncounted
      BY <3>2, <1>13 DEF Uncounted
    <3>3. ASSUME NEW p \in Ports, currOutput'[p] = resett PROVE Uncounted
      BY <3>3, <2>1, <1>11
    <3> QED
      BY <3>1, <3>2, <3>3 DEF Uncounted
  <2>3. opAt' # "write"
    BY <1>9 DEF resett, resetb
  <2> QED
    BY <2>2, <2>3, <1>2 DEF IInv, Counted
<1>17. setting' \in Settings /\ beats' \in Nat
  BY <1>2 DEF IInv
<1> QED
  BY <1>5, <1>6, <1>7, <1>12, <1>15, <1>16, <1>17, Together

-----------------------------------------------------------------------------
(***************************************************************************)
(* The alert box.                                                          *)
(***************************************************************************)
\* What the box's steps leave alone.
LEMMA BoxStepFrame ==
    ASSUME IInv, BoxStep
    PROVE  /\ LinkTypes' /\ Occupied' /\ users' <= setting'.users
           /\ FlagTypes' /\ InTypes' /\ Channel' /\ setting' \in Settings
<1>1. UNCHANGED <<setting, linkVars, ring, flagVars, inVars>>
  BY DEF BoxStep
<1>2. FlagTypes'
  BY <1>1, TypeParts DEF IInv, FlagTypes, flagVars
<1> QED
  BY <1>1, <1>2, StationsFrame, ChannelFrame DEF IInv

\* PLATO sends a keepalive or a shutdown.
LEMMA PlatoTellsKeeps == ASSUME IInv, PlatoTells PROVE IInv'
<1>1. PlatoTypes /\ BoxTypes
  BY TypeParts DEF IInv
<1>2. /\ UNCHANGED <<setting, inWords, session, currOutput, niuAlertCount, opVars, threadVars,
                     told, loggedIn>>
      /\ opAt = "idle" /\ ~UnderWay /\ beats < setting.beats /\ beats' = beats + 1
  BY DEF PlatoTells, BoxStep, MainFree, flagVars
<1>3. PICK word \in {resett, resetb}, end \in BOOLEAN :
         outWords' = Append(outWords, [port |-> niuOpstat, word |-> word, end |-> end])
  BY DEF PlatoTells, Say
<1> DEFINE w == [port |-> niuOpstat, word |-> word, end |-> end]
<1>4. beats \in Nat /\ setting.beats \in Nat /\ niuOpstat \in Ports
  <2>1. beats \in Nat /\ setting.beats \in Nat
    BY Types DEF IInv
  <2>2. setting.beats > 0
    BY <2>1, <1>2
  <2> QED
    BY <2>1, <2>2, Types
<1>5. w \in Words /\ w.port = niuOpstat
  BY <1>4 DEF Words
<1>6. /\ Len(outWords) \in Nat /\ Len(outWords') = Len(outWords) + 1
      /\ \A i \in 1 .. Len(outWords) : outWords'[i] = outWords[i]
      /\ outWords'[Len(outWords) + 1] = w /\ outWords' \in Seq(Words)
  BY <1>3, <1>5, Types, AppendFacts
<1>7. LastTells' /\ Agrees'
  BY <1>2, <1>3, <1>4, Beaten
<1> HIDE DEF w
<1>8. PlatoTypes'
  BY <1>1, <1>2, <1>6 DEF PlatoTypes
<1>9. BoxTypes'
  <2>1. niuAlertCount' \in 0 .. beats' /\ opRead' \in 0 .. beats'
    <3>1. /\ niuAlertCount \in 0 .. beats /\ opRead \in 0 .. beats
          /\ niuAlertCount' = niuAlertCount /\ opRead' = opRead /\ beats' = beats + 1
      BY <1>1, <1>2 DEF BoxTypes, opVars
    <3> QED
      BY <3>1, <1>4
  <2> QED
    BY <2>1, <1>1, <1>2 DEF BoxTypes, opVars, threadVars
<1>10. \A i \in 1 .. Len(outWords') : Beats(outWords'[i]) => i = Len(outWords) + 1
  <2>1. \A i \in 1 .. Len(outWords) : ~Beats(outWords[i])
    BY <1>2 DEF UnderWay, Beats
  <2> QED
    BY <2>1, <1>6
<1>11. \A p \in Ports : currOutput'[p] \notin {resett, resetb}
  BY <1>2 DEF UnderWay
<1>12. OneBeat'
  BY <1>2, <1>5, <1>6, <1>10, <1>11 DEF OneBeat, opVars
<1>13. Counted'
  <2>1. niuAlertCount \in 0 .. beats
    BY <1>1 DEF BoxTypes
  <2>2. beats' <= setting.beats /\ niuAlertCount + 1 <= beats'
    BY <2>1, <1>2, <1>4
  <2>3. opAt' # "write"
    BY <1>2 DEF opVars
  <2> QED
    BY <2>2, <2>3, <1>2 DEF Counted
<1>14. beats' \in Nat
  BY <1>2, <1>4
<1> QED
  BY <1>7, <1>8, <1>9, <1>12, <1>13, <1>14, BoxStepFrame, Together DEF PlatoTells

\* The main thread counts a keepalive, or turns the watch off.
LEMMA OpdataKeeps == ASSUME IInv, niuOpdata PROVE IInv'
<1>1. PlatoTypes /\ BoxTypes
  BY TypeParts DEF IInv
<1>2. /\ UNCHANGED <<setting, inWords, outWords, session, currOutput, loggedIn, threadVars,
                     emulationActive, beats>>
      /\ BoxStep
  BY DEF niuOpdata, BoxStep, flagVars
<1>3. PlatoTypes' /\ LastTells' /\ Agrees'
  BY <1>1, <1>2, PlatoFrame, WordsFrame DEF platoVars
\* While it is there no other word for the box is under way.
<1>4. /\ opAt \in {resett, "read", "write", resetb, "off"} /\ opAt # "idle"
      /\ \A i \in 1 .. Len(outWords) : ~Beats(outWords[i])
      /\ \A p \in Ports : currOutput[p] \notin {resett, resetb}
  <2>1. opAt \in {resett, "read", "write", resetb, "off"}
    BY DEF niuOpdata
  <2>2. opAt # "idle"
    BY <2>1 DEF resett, resetb
  <2> QED
    BY <2>1, <2>2 DEF IInv, OneBeat
<1>5. OneBeat'
  BY <1>2, <1>4 DEF OneBeat, Beats
<1>6. /\ Uncounted <=> opAt \in {resett, "read", "write"}
      /\ Uncounted' <=> opAt' \in {resett, "read", "write"}
  BY <1>2, <1>4 DEF Uncounted, Beats
<1>7. beats \in Nat /\ niuAlertCount \in 0 .. beats /\ opRead \in 0 .. beats
  BY <1>1 DEF IInv, BoxTypes
<1>8. /\ opAt' \in {"read", "write", "idle", "off"} /\ told' \in {"none", "up", "down", "crash"}
      /\ opAt' = "read" => opAt = resett
      /\ opAt' = "write" => opAt = "read" /\ opRead' = niuAlertCount
      /\ opAt' = "write" \/ opRead' = opRead
      /\ \/ niuAlertCount' = niuAlertCount
         \/ opAt = "write" /\ opAt' = "idle" /\ niuAlertCount' = opRead + 1
         \/ opAt' = "idle" /\ niuAlertCount' = 0
  <2>1. told \in {"none", "up", "down", "crash"}
    BY <1>1 DEF BoxTypes
  <2> QED
    BY <2>1 DEF niuOpdata, niuDoAlert, CountUp
<1>9. resett \notin {"read", "write", "idle", "off"}
  BY DEF resett
<1>10. niuAlertCount' \in 0 .. beats /\ opRead' \in 0 .. beats
  <2>1. opAt = "write" => opRead + 1 <= beats
    BY DEF IInv, Counted
  <2> QED
    BY <2>1, <1>7, <1>8
<1>11. BoxTypes'
  <2>1. opAt' \in {"idle", resett, "read", "write", resetb, "off"}
    BY <1>8
  <2> QED
    BY <2>1, <1>1, <1>2, <1>8, <1>10 DEF BoxTypes, threadVars
<1>12. Counted'
  <2>1. Uncounted' => opAt' \in {"read", "write"} /\ niuAlertCount' = niuAlertCount /\ Uncounted
    BY <1>6, <1>8, <1>9
  <2>2. Uncounted => niuAlertCount + 1 <= beats
    BY DEF IInv, Counted
  <2>3. Uncounted' => niuAlertCount' + 1 <= beats'
    BY <2>1, <2>2, <1>2
  <2>4. opAt' = "write" => opRead' = niuAlertCount /\ Uncounted
    BY <1>6, <1>8
  <2>5. opAt' = "write" => opRead' + 1 <= beats'
    BY <2>2, <2>4, <1>2
  <2> QED
    BY <2>3, <2>5, <1>2 DEF IInv, Counted
<1> QED
  BY <1>2, <1>3, <1>5, <1>11, <1>12, BoxStepFrame, Together DEF IInv

\* The end of the emulation, and the thread that watches the count.
LEMMA WatchKeeps == ASSUME IInv, End \/ Return \/ niuThread PROVE IInv'
<1>1. PlatoTypes /\ BoxTypes
  BY TypeParts DEF IInv
<1>2. /\ UNCHANGED <<setting, inWords, outWords, session, currOutput, loggedIn, opVars, beats>>
      /\ BoxStep
  BY DEF End, Return, niuThread, BoxStep, flagVars
<1>3. PlatoTypes' /\ LastTells' /\ Agrees'
  BY <1>1, <1>2, PlatoFrame, WordsFrame DEF platoVars
<1>4. OneBeat' /\ (Uncounted' <=> Uncounted)
  BY <1>2 DEF IInv, OneBeat, Uncounted, Beats, opVars
<1>5. /\ niuAlertCount' \in {niuAlertCount, 0}
      /\ niuLastAlertCount' \in {niuLastAlertCount, niuAlertCount}
  BY DEF End, Return, niuThread, niuCheckAlert, Alarm, Wake, Remember, threadVars
<1>6. /\ alertAt' \in {"test", "compare", "save", "alarm", "tell", "reset", "sleep", "last",
                       "tell last", "exit"}
      /\ told' \in {"none", "up", "down", "crash"}
  BY <1>1 DEF BoxTypes, End, Return, niuThread, niuCheckAlert, Watch, Alarm, Wake, threadVars
<1>7. /\ beats \in Nat /\ beats <= setting.beats /\ setting.beats \in Nat
      /\ niuAlertCount \in 0 .. beats /\ niuLastAlertCount \in 0 .. setting.beats
  BY <1>1, Types DEF IInv, Counted, BoxTypes
<1>8. niuAlertCount' \in 0 .. beats /\ niuLastAlertCount' \in 0 .. setting.beats
  BY <1>5, <1>7
<1>9. BoxTypes'
  BY <1>1, <1>2, <1>6, <1>8 DEF BoxTypes, opVars
<1>10. Counted'
  <2>1. Uncounted => niuAlertCount' + 1 <= beats
    <3>1. Uncounted => niuAlertCount + 1 <= beats
      BY DEF IInv, Counted
    <3> QED
      <4>1. CASE niuAlertCount' = niuAlertCount
        BY <4>1, <3>1
      <4>2. CASE niuAlertCount' = 0
        BY <4>2, <3>1, <1>7
      <4> QED
        BY <4>1, <4>2, <1>5
  <2> QED
    BY <2>1, <1>2, <1>4 DEF IInv, Counted, opVars
<1> QED
  BY <1>2, <1>3, <1>4, <1>9, <1>10, BoxStepFrame, Together DEF IInv

-----------------------------------------------------------------------------
(***************************************************************************)
(* The invariant and what follows from it.                                 *)
(***************************************************************************)
LEMMA InitIInv == Init => IInv
<1> SUFFICES ASSUME Init PROVE IInv
  OBVIOUS
<1> USE DEF Init
<1>1. /\ 0 \in UserIds /\ 0 \in Ports /\ -1 \in Ports \cup {-1} /\ setting \in Settings
      /\ setting.users \in Nat /\ setting.beats \in Nat
  <2>1. niuStations \in Nat \ {0} /\ MaxUsers \in Nat
    BY NiuAssumption
  <2>2. setting \in Settings
    OBVIOUS
  <2>3. setting.users \in Nat /\ setting.beats \in Nat
    BY <2>1, <2>2, NiuAssumption
  <2> QED
    BY <2>1, <2>2, <2>3 DEF UserIds, Ports
<1>2. LinkTypes /\ FlagTypes /\ PlatoTypes
  BY <1>1 DEF LinkTypes, FlagTypes, PlatoTypes
<1>3. InTypes
  BY <1>1 DEF InTypes
<1>4. BoxTypes
  BY <1>1 DEF BoxTypes
<1>5. TypeOK
  BY <1>2, <1>3, <1>4, TypeParts
<1>6. Len(outWords) = 0 /\ \A p \in Ports : Len(ring[p]) = 0
  OBVIOUS
<1>7. Occupied
  BY <1>6 DEF Occupied
<1>8. Channel
  BY DEF Channel
<1>9. LastTells /\ Agrees
  BY <1>6 DEF LastTells, Agrees
<1>10. \A p \in Ports : currOutput[p] \notin {resett, resetb}
  BY DEF NoWord, resett, resetb
<1>11. OneBeat
  BY <1>6, <1>10 DEF OneBeat
<1>12. ~Uncounted
  BY <1>6, <1>10 DEF Uncounted, resett
<1>13. Counted
  BY <1>1, <1>12 DEF Counted
<1> QED
  BY <1>1, <1>5, <1>7, <1>8, <1>9, <1>11, <1>13 DEF IInv

LEMMA NextIInv == IInv /\ [Next]_vars => IInv'
<1> SUFFICES ASSUME IInv, [Next]_vars PROVE IInv'
  OBVIOUS
<1>1. ASSUME NEW p \in Ports, Terminal(p) \/ DataThread(p) PROVE IInv'
  BY <1>1, WelcomeKeeps, TypingKeeps DEF Terminal, DataThread
<1>2. CASE MainThread
  BY <1>2, ScanKeeps, ChannelKeeps, PlatoActsKeeps, OutIoKeeps DEF MainThread
<1>3. CASE Deselect
  BY <1>3, DeselectKeeps
<1>4. CASE Box
  BY <1>4, PlatoTellsKeeps, OpdataKeeps, WatchKeeps DEF Box
<1>5. CASE UNCHANGED vars
  <2>1. /\ LinkTypes' /\ Occupied' /\ users' <= setting'.users /\ InTypes' /\ Channel'
    BY <1>5, StationsFrame, ChannelFrame DEF vars
  <2>2. FlagTypes' /\ PlatoTypes'
    BY <1>5, TypeParts, PlatoFrame DEF vars, IInv, FlagTypes, flagVars
  <2>3. LastTells' /\ Agrees'
    BY <1>5, WordsFrame DEF vars, platoVars, flagVars
  <2>4. /\ BoxTypes' /\ OneBeat' /\ Counted' /\ setting' \in Settings /\ beats' \in Nat
    BY <1>5, BoxFrame DEF vars, platoVars
  <2> QED
    BY <2>1, <2>2, <2>3, <2>4, Together
<1> QED
  BY <1>1, <1>2, <1>3, <1>4, <1>5 DEF Next

\* The inductive invariant holds for any number of stations, users and words.
THEOREM Invariance == Spec => []IInv
<1>1. Init => IInv
  BY InitIInv
<1>2. IInv /\ [Next]_vars => IInv'
  BY NextIInv
<1> QED
  BY <1>1, <1>2, PTL DEF Spec

\* Whatever was lost, sent twice or reset: with no word under way to a station, the NIU
\* believes it logged in exactly when PLATO does.
THEOREM NiuCorrect == Spec => []NiuSafe
<1>1. IInv => NiuSafe
  BY DEF IInv, NiuSafe, Agrees, FlagAgrees
<1> QED
  BY <1>1, Invariance, PTL

-----------------------------------------------------------------------------
(***************************************************************************)
(* Nobody types into a session that another user left.                     *)
(***************************************************************************)
\* No key joins those under way, and no user comes or logs in.
LEMMA TypistFrame ==
    ASSUME OneTypist,
           \A p \in Ports : session'[p] \in {0, session[p]} /\ np'[p] \in {0, np[p]},
           \A p \in Ports, k \in UserIds \ {offky2} : UnderWayTo(p, k)' => UnderWayTo(p, k)
    PROVE  OneTypist'
<1> SUFFICES ASSUME NEW p \in Ports, NEW k \in UserIds \ {offky2}, UnderWayTo(p, k)'
             PROVE  /\ session'[p] \in {0, k} /\ np'[p] \in {0, k}
                    /\ \A other \in UserIds \ {offky2} : UnderWayTo(p, other)' => other = k
  BY DEF OneTypist
<1>1. /\ session[p] \in {0, k} /\ np[p] \in {0, k}
      /\ \A other \in UserIds \ {offky2} : UnderWayTo(p, other) => other = k
  BY DEF OneTypist
<1> QED
  BY <1>1

\* Neither users nor sessions change, and no word that tells of a login comes.
LEMMA KeptFrame ==
    ASSUME KeptAway, UNCHANGED <<np, session, link, forceLogout>>,
           \A p \in Ports :
              (\A i \in 1 .. Len(outWords) : outWords[i].port = p => ~Tells(outWords[i]))
              => \A i \in 1 .. Len(outWords') : outWords'[i].port = p => ~Tells(outWords'[i])
    PROVE  KeptAway'
BY DEF KeptAway, Foreign, Tells

\* What is left alone when nothing of the sessions changes.
LEMMA SessionFrame ==
    ASSUME SInv, UNCHANGED <<np, link, forceLogout, inVars, platoVars>>
    PROVE  SInv'
<1>1. OneTypist'
  BY TypistFrame DEF SInv, UnderWayTo, inVars, platoVars
<1>2. KeptAway'
  BY KeptFrame DEF SInv, platoVars, Tells
<1> QED
  BY <1>1, <1>2 DEF SInv

\* A new user, and how he is kept away from another's session.
LEMMA WelcomeKeepsApart ==
    ASSUME IInv, SInv, NEW p \in Ports,
           \/ Welcome(p) /\ "late" \notin setting.cases
           \/ WelcomeTest(p) \/ WelcomeForce(p)
    PROVE  SInv'
<1>1. LinkTypes /\ FlagTypes
  BY TypeParts DEF IInv
<1>2. UNCHANGED <<loggedIn, inVars, platoVars>>
  BY DEF Welcome, WelcomeTest, WelcomeForce, flagVars
<1>3. UNCHANGED <<inWords, outWords, session, currInput, currInPort, lastInPort, channel>>
  BY <1>2 DEF inVars, platoVars
<1>4. \A q \in Ports, k \in UserIds : UnderWayTo(q, k)' <=> UnderWayTo(q, k)
  BY <1>3 DEF UnderWayTo
<1>5. CASE Welcome(p) /\ "late" \notin setting.cases
  <2>1. Quiet(p) /\ np' = [np EXCEPT ![p] = users + 1] /\ forceLogout' = forceLogout
        /\ link' = [link EXCEPT ![p] = "welcome"]
    BY <1>5 DEF Welcome, flagVars
  <2>2. /\ \A q \in Ports \ {p} : np'[q] = np[q] /\ link'[q] = link[q]
        /\ link'[p] = "welcome"
    BY <2>1, <1>1 DEF LinkTypes
  <2>3. \A k : ~UnderWayTo(p, k)
    BY <2>1 DEF Quiet, UnderWayTo
  <2>4. OneTypist'
    <3> SUFFICES ASSUME NEW q \in Ports, NEW k \in UserIds \ {offky2}, UnderWayTo(q, k)'
                 PROVE  /\ session'[q] \in {0, k} /\ np'[q] \in {0, k}
                        /\ \A other \in UserIds \ {offky2} : UnderWayTo(q, other)' => other = k
      BY DEF OneTypist
    <3>1. UnderWayTo(q, k) /\ q # p
      BY <1>4, <2>3
    <3> QED
      BY <3>1, <2>2, <1>3, <1>4 DEF SInv, OneTypist
  <2>5. KeptAway'
    <3> SUFFICES ASSUME NEW q \in Ports, Foreign(q)'
                 PROVE  /\ \A i \in 1 .. Len(outWords) :
                              outWords[i].port = q => ~Tells(outWords[i])
                        /\ link'[q] \in {"welcome", "force"} \/ forceLogout'[q]
      BY <1>3 DEF KeptAway, Tells
    <3>1. CASE q = p
      BY <3>1, <2>1, <2>2 DEF Quiet
    <3>2. CASE q # p
      BY <3>2, <2>1, <2>2, <1>3 DEF SInv, KeptAway, Foreign
    <3> QED
      BY <3>1, <3>2
  <2> QED
    BY <2>4, <2>5 DEF SInv
<1>6. CASE WelcomeTest(p) \/ WelcomeForce(p)
  <2>1. np' = np
    BY <1>6 DEF WelcomeTest, WelcomeForce, linkVars
  <2>2. OneTypist'
    BY <2>1, <1>3, <1>4, TypistFrame DEF SInv
  <2>3. KeptAway'
    <3> SUFFICES ASSUME NEW q \in Ports, Foreign(q)'
                 PROVE  /\ \A i \in 1 .. Len(outWords) :
                              outWords[i].port = q => ~Tells(outWords[i])
                        /\ link'[q] \in {"welcome", "force"} \/ forceLogout'[q]
      BY <1>3 DEF KeptAway, Tells
    <3>1. /\ Foreign(q)
          /\ \A i \in 1 .. Len(outWords) : outWords[i].port = q => ~Tells(outWords[i])
          /\ link[q] \in {"welcome", "force"} \/ forceLogout[q]
      BY <2>1, <1>3 DEF SInv, KeptAway, Foreign
    \* The NIU knows of the session, since no word is under way.
    <3>2. session[q] \in UserIds /\ session[q] # 0
      BY <3>1, TypeParts DEF Foreign, IInv, PlatoTypes
    <3>3. loggedIn[q]
      BY <3>1, <3>2 DEF IInv, Agrees
    <3>4. link'[q] \in {"welcome", "force"} \/ forceLogout'[q]
      <4>1. CASE WelcomeTest(p)
        BY <4>1, <3>1, <3>3, <1>1 DEF WelcomeTest, LinkTypes, flagVars
      <4>2. CASE WelcomeForce(p)
        BY <4>2, <3>1, <1>1 DEF WelcomeForce, LinkTypes, FlagTypes
      <4> QED
        BY <4>1, <4>2, <1>6
    <3> QED
      BY <3>1, <3>4
  <2> QED
    BY <2>2, <2>3 DEF SInv
<1> QED
  BY <1>5, <1>6

\* A connection goes; keys are typed.
LEMMA TypingKeepsApart ==
    ASSUME IInv, SInv, NEW p \in Ports, Key(p) \/ Stray(p) \/ Gone(p)
    PROVE  SInv'
<1>1. CASE Key(p) \/ Stray(p)
  <2>1. UNCHANGED <<np, link, forceLogout, inVars, platoVars>>
    BY <1>1 DEF Key, Stray, linkVars, flagVars
  <2> QED
    BY <2>1, SessionFrame
<1>2. CASE Gone(p)
  <2>1. /\ UNCHANGED <<np, forceLogout, inVars, platoVars>>
        /\ link[p] = "up" /\ \A q \in Ports \ {p} : link'[q] = link[q]
    BY <1>2, TypeParts DEF Gone, flagVars, IInv, LinkTypes
  <2>2. OneTypist'
    BY <2>1, TypistFrame DEF SInv, UnderWayTo, inVars, platoVars
  <2>3. KeptAway'
    <3> SUFFICES ASSUME NEW q \in Ports, Foreign(q)'
                 PROVE  /\ \A i \in 1 .. Len(outWords) :
                              outWords[i].port = q => ~Tells(outWords[i])
                        /\ link'[q] \in {"welcome", "force"} \/ forceLogout[q]
      BY <2>1 DEF KeptAway, Tells, platoVars
    <3>1. /\ \A i \in 1 .. Len(outWords) : outWords[i].port = q => ~Tells(outWords[i])
          /\ link[q] \in {"welcome", "force"} \/ forceLogout[q]
      BY <2>1 DEF SInv, KeptAway, Foreign, platoVars
    <3> QED
      BY <3>1, <2>1
  <2> QED
    BY <2>2, <2>3 DEF SInv
<1> QED
  BY <1>1, <1>2

\* What a station offers is all that joins the keys under way.
LEMMA Offered ==
    ASSUME IInv, NEW p \in Ports, NEW user, Offer(p, user), inWords' = inWords,
           NEW q \in Ports, NEW k \in UserIds \ {offky2}, UnderWayTo(q, k)'
    PROVE  UnderWayTo(q, k) \/ (q = p /\ k = user)
<1>1. /\ currInput' = [currInput EXCEPT ![p] = user] /\ currInPort' = p
      /\ channel' = "station"
  BY DEF Offer
<1>2. currInput \in [Ports -> UserIds]
  BY DEF IInv, TypeOK
<1>3. CASE \E i \in 1 .. Len(inWords) : inWords[i] = <<q, k>>
  BY <1>3 DEF UnderWayTo
<1>4. CASE q = p /\ currInput'[q] = k
  BY <1>1, <1>2, <1>4
<1> QED
  BY <1>1, <1>3, <1>4 DEF UnderWayTo

\* A step of niuInIo that looks at a station: whoever is to be kept away gets his keys
\* turned into logouts.
LEMMA ScanKeepsApart == ASSUME IInv, SInv, Scan PROVE SInv'
<1>1. PICK p \in Ports : ScanLogout(p) \/ ScanClose(p) \/ ScanKey(p)
  BY DEF Scan
<1>2. UNCHANGED platoVars
  BY DEF Scan
<1>3. UNCHANGED <<inWords, outWords, session>>
  BY <1>2 DEF platoVars
<1>4. CASE ScanLogout(p)
  <2>1. Offer(p, offky2) /\ UNCHANGED <<np, link, forceLogout>>
    BY <1>4 DEF ScanLogout, linkVars
  <2>2. OneTypist'
    BY <2>1, <1>3, Offered, TypistFrame DEF SInv
  <2>3. KeptAway'
    BY <2>1, <1>3, KeptFrame DEF SInv, Tells
  <2> QED
    BY <2>2, <2>3 DEF SInv
<1>5. CASE ScanClose(p)
  <2>1. /\ np' = [np EXCEPT ![p] = 0] /\ link' = [link EXCEPT ![p] = "free"]
        /\ UNCHANGED <<inVars, forceLogout>>
    BY <1>5 DEF ScanClose, NoOffer
  <2>2. /\ np'[p] = 0 /\ \A q \in Ports \ {p} : np'[q] = np[q] /\ link'[q] = link[q]
    BY <2>1, TypeParts DEF IInv, LinkTypes
  <2>3. OneTypist'
    <3>1. \A q \in Ports, k \in UserIds : UnderWayTo(q, k)' => UnderWayTo(q, k)
      BY <2>1, <1>3 DEF UnderWayTo, inVars
    <3> QED
      BY <3>1, <2>2, <1>3, TypistFrame DEF SInv
  <2>4. KeptAway'
    BY <2>1, <2>2, <1>3 DEF SInv, KeptAway, Foreign, Tells
  <2> QED
    BY <2>3, <2>4 DEF SInv
<1>6. CASE ScanKey(p)
  <2>1. UNCHANGED <<np, link, forceLogout>>
    BY <1>6 DEF ScanKey, linkVars, flagVars
  <2>2. KeptAway'
    BY <2>1, <1>3, KeptFrame DEF SInv, Tells
  <2>3. CASE Offer(p, offky2)
    BY <2>1, <2>2, <2>3, <1>3, Offered, TypistFrame DEF SInv
  <2>4. CASE UNCHANGED inVars
    BY <2>1, <2>4, <1>2, SessionFrame
  <2>5. CASE ~forceLogout[p] /\ Offer(p, ring[p][1][2])
    <3> DEFINE user == np[p]
    <3>1. ring[p][1][2] = user /\ user \in UserIds /\ user # 0
      <4>1. Len(ring[p]) \in Nat
        BY LenProperties DEF IInv, TypeOK
      <4>2. Len(ring[p]) >= 2 /\ link[p] \in {"up", "gone"}
        BY <1>6 DEF ScanKey
      <4>3. 1 \in 1 .. Len(ring[p])
        BY <4>1, <4>2
      <4>4. ring[p][1][2] = user
        BY <4>3 DEF IInv, Occupied
      <4>5. user \in UserIds /\ user # 0
        BY <4>2 DEF IInv, TypeOK, Occupied
      <4> QED
        BY <4>4, <4>5
    <3>2. session[p] \in {0, user}
      <4>1. ~Foreign(p)
        BY <1>6, <2>5 DEF ScanKey, SInv, KeptAway
      <4> QED
        BY <4>1, <3>1 DEF Foreign
    <3>3. OneTypist'
      <4> SUFFICES ASSUME NEW q \in Ports, NEW k \in UserIds \ {offky2}, UnderWayTo(q, k)'
                   PROVE  /\ session'[q] \in {0, k} /\ np'[q] \in {0, k}
                          /\ \A other \in UserIds \ {offky2} :
                                UnderWayTo(q, other)' => other = k
        BY DEF OneTypist
      <4>1. \A other \in UserIds \ {offky2} :
               UnderWayTo(q, other)' => UnderWayTo(q, other) \/ (q = p /\ other = user)
        BY <2>5, <3>1, <1>3, Offered
      <4>2. \A other \in UserIds \ {offky2} :
               UnderWayTo(q, other) => /\ session[q] \in {0, other} /\ np[q] \in {0, other}
                                       /\ \A o \in UserIds \ {offky2} :
                                            UnderWayTo(q, o) => o = other
        BY DEF SInv, OneTypist
      <4>3. CASE q = p
        <5>1. \A other \in UserIds \ {offky2} : UnderWayTo(p, other)' => other = user
          BY <4>1, <4>2, <4>3, <3>1
        <5>2. k = user
          BY <4>3, <5>1
        <5> QED
          BY <4>3, <5>1, <5>2, <3>2, <2>1, <1>3
      <4>4. CASE q # p
        BY <4>1, <4>2, <4>4, <2>1, <1>3
      <4> QED
        BY <4>3, <4>4
    <3> QED
      BY <2>2, <3>3 DEF SInv
  <2> QED
    BY <1>6, <2>3, <2>4, <2>5 DEF ScanKey, NoOffer
<1> QED
  BY <1>1, <1>4, <1>5, <1>6

\* A key goes from the station to the channel, and from there to PLATO.
LEMMA ChannelKeepsApart == ASSUME IInv, SInv, SendKey \/ TakeWord \/ Select PROVE SInv'
<1>1. UNCHANGED <<np, link, forceLogout, currInput, lastInPort, outWords, session>>
  BY DEF SendKey, TakeWord, Select, linkVars, flagVars, platoVars
<1>2. KeptAway'
  BY <1>1, KeptFrame DEF SInv, Tells
<1>3. -1 \notin Ports /\ \A q \in Ports : q >= 0
  BY Types
<1>4. ASSUME NEW q \in Ports, NEW k \in UserIds \ {offky2}, UnderWayTo(q, k)'
      PROVE  UnderWayTo(q, k)
  <2>1. CASE SendKey
    <3>1. inWords' = inWords /\ currInPort' = -1 /\ currInPort >= 0
      BY <2>1 DEF SendKey, platoVars
    <3>2. currInPort = lastInPort
      BY <3>1 DEF IInv, Channel
    <3> QED
      BY <3>1, <3>2, <1>1, <1>3, <1>4 DEF UnderWayTo
  <2>2. CASE TakeWord
    <3>1. currInPort' = currInPort /\ channel' = "empty"
      BY <2>2 DEF TakeWord
    <3>2. CASE channel = "key"
      <4>1. inWords' = Append(inWords, <<lastInPort, currInput[lastInPort]>>)
        BY <2>2, <3>2 DEF TakeWord
      <4>2. <<lastInPort, currInput[lastInPort]>> \in Ports \X UserIds
        BY TypeParts DEF IInv, InTypes
      <4>3. /\ Len(inWords) \in Nat /\ Len(inWords') = Len(inWords) + 1
            /\ \A i \in 1 .. Len(inWords) : inWords'[i] = inWords[i]
            /\ inWords'[Len(inWords) + 1] = <<lastInPort, currInput[lastInPort]>>
        BY <4>1, <4>2, Types, AppendFacts
      <4>4. ASSUME NEW i \in 1 .. Len(inWords'), inWords'[i] = <<q, k>> PROVE UnderWayTo(q, k)
        <5>1. i \in 1 .. Len(inWords) \/ i = Len(inWords) + 1
          BY <4>3
        <5>2. CASE i \in 1 .. Len(inWords)
          BY <5>2, <4>3, <4>4 DEF UnderWayTo
        <5>3. CASE i = Len(inWords) + 1
          <6>1. <<lastInPort, currInput[lastInPort]>> = <<q, k>>
            BY <5>3, <4>3, <4>4
          <6> QED
            BY <6>1, <3>2 DEF UnderWayTo
        <5> QED
          BY <5>1, <5>2, <5>3
      <4> QED
        BY <4>4, <3>1, <1>1, <1>4 DEF UnderWayTo
    <3>3. CASE channel # "key"
      <4>1. inWords' = inWords
        BY <2>2, <3>3 DEF TakeWord
      <4> QED
        BY <4>1, <3>1, <1>1, <1>4 DEF UnderWayTo
    <3> QED
      BY <3>2, <3>3
  <2>3. CASE Select
    <3>1. inWords' = inWords /\ currInPort' = -1 /\ channel' = channel
      BY <2>3 DEF Select, platoVars
    <3> QED
      BY <3>1, <1>1, <1>3, <1>4 DEF UnderWayTo
  <2> QED
    BY <2>1, <2>2, <2>3
<1>5. OneTypist'
  BY <1>1, <1>4, TypistFrame DEF SInv
<1> QED
  BY <1>2, <1>5 DEF SInv

\* The first key is the one PLATO takes, and under way until then.
LEMMA FirstKey ==
    ASSUME IInv, inWords # <<>>
    PROVE  /\ Head(inWords)[1] \in Ports /\ Head(inWords)[2] \in UserIds
           /\ UnderWayTo(Head(inWords)[1], Head(inWords)[2])
<1>1. /\ Head(inWords) = inWords[1] /\ inWords[1] \in Ports \X UserIds
      /\ Len(inWords) \in Nat \ {0}
  BY Types, TailFacts
<1>2. 1 \in 1 .. Len(inWords) /\ inWords[1] = <<Head(inWords)[1], Head(inWords)[2]>>
  BY <1>1
<1> QED
  BY <1>1, <1>2 DEF UnderWayTo

\* PLATO acts on a key: a user who logs in is the only one whose keys are under way.
LEMMA PlatoActsKeepsApart == ASSUME IInv, SInv, PlatoActs PROVE SInv'
<1> DEFINE p == Head(inWords)[1]
           user == Head(inWords)[2]
<1>1. /\ inWords # <<>> /\ inWords' = Tail(inWords)
      /\ UNCHANGED <<linkVars, flagVars, inVars>>
  BY DEF PlatoActs
<1>2. p \in Ports /\ user \in UserIds /\ UnderWayTo(p, user)
  BY <1>1, FirstKey
<1>3. \/ /\ session' = [session EXCEPT ![p] = 0] /\ Say(p, NOP3)
      \/ /\ user # 0 /\ session' = [session EXCEPT ![p] = user] /\ Say(p, echotype)
      \/ UNCHANGED <<session, outWords>>
  BY DEF PlatoActs, PlatoKey, PlatoLogout, offky2
<1> HIDE DEF p, user
<1>4. UNCHANGED <<np, link, forceLogout, currInput, currInPort, lastInPort, channel>>
  BY <1>1 DEF linkVars, flagVars, inVars
<1>5. ASSUME NEW q \in Ports, NEW k \in UserIds \ {offky2}, UnderWayTo(q, k)'
      PROVE  UnderWayTo(q, k)
  <2>1. /\ Len(inWords) \in Nat \ {0} /\ Len(inWords') = Len(inWords) - 1
        /\ \A i \in 1 .. Len(inWords) - 1 : inWords'[i] = inWords[i + 1]
    BY <1>1, Types, TailFacts
  <2>2. ASSUME NEW i \in 1 .. Len(inWords'), inWords'[i] = <<q, k>> PROVE UnderWayTo(q, k)
    <3>1. i + 1 \in 1 .. Len(inWords) /\ inWords[i + 1] = <<q, k>>
      BY <2>1, <2>2
    <3> QED
      BY <3>1 DEF UnderWayTo
  <2> QED
    BY <2>2, <1>4, <1>5 DEF UnderWayTo
<1>6. session \in [Ports -> UserIds]
  BY DEF IInv, TypeOK
<1>7. CASE UNCHANGED <<session, outWords>>
  BY <1>4, <1>5, <1>7, TypistFrame, KeptFrame DEF SInv, Tells
<1>8. ASSUME NEW k \in {0, user}, NEW word \in {NOP3, echotype},
             session' = [session EXCEPT ![p] = k], Say(p, word)
      PROVE  SInv'
  <2>1. session'[p] = k /\ \A q \in Ports \ {p} : session'[q] = session[q]
    BY <1>2, <1>6, <1>8
  <2>2. PICK end \in BOOLEAN :
           outWords' = Append(outWords, [port |-> p, word |-> word, end |-> end])
    BY <1>8 DEF Say
  <2> DEFINE w == [port |-> p, word |-> word, end |-> end]
  <2>3. w \in Words /\ w.port = p
    BY <1>2 DEF Words
  <2> HIDE DEF w
  <2>4. /\ Len(outWords) \in Nat /\ Len(outWords') = Len(outWords) + 1
        /\ \A i \in 1 .. Len(outWords) : outWords'[i] = outWords[i]
        /\ outWords'[Len(outWords) + 1] = w
    BY <2>2, <2>3, Types, AppendFacts DEF w
  <2>5. OneTypist'
    <3> SUFFICES ASSUME NEW q \in Ports, NEW o \in UserIds \ {offky2}, UnderWayTo(q, o)'
                 PROVE  /\ session'[q] \in {0, o} /\ np'[q] \in {0, o}
                        /\ \A other \in UserIds \ {offky2} :
                              UnderWayTo(q, other)' => other = o
      BY DEF OneTypist
    <3>1. /\ session[q] \in {0, o} /\ np[q] \in {0, o}
          /\ \A other \in UserIds \ {offky2} : UnderWayTo(q, other) => other = o
      BY <1>5 DEF SInv, OneTypist
    <3>2. session'[q] \in {0, o}
      <4>1. CASE q = p /\ user # 0
        <5>1. user \in UserIds \ {offky2}
          BY <4>1, <1>2 DEF offky2
        <5>2. user = o
          BY <4>1, <5>1, <1>2, <3>1
        <5> QED
          BY <4>1, <5>2, <2>1
      <4>2. CASE q = p /\ user = 0
        BY <4>2, <2>1
      <4>3. CASE q # p
        BY <4>3, <2>1, <3>1
      <4> QED
        BY <4>1, <4>2, <4>3
    <3> QED
      BY <3>1, <3>2, <1>4, <1>5
  <2>6. KeptAway'
    <3> SUFFICES ASSUME NEW q \in Ports, Foreign(q)'
                 PROVE  /\ \A i \in 1 .. Len(outWords') :
                              outWords'[i].port = q => ~Tells(outWords'[i])
                        /\ link[q] \in {"welcome", "force"} \/ forceLogout[q]
      BY <1>4 DEF KeptAway, Tells
    <3>1. q # p
      <4>1. CASE k = 0
        BY <4>1, <2>1 DEF Foreign
      <4>2. CASE k = user /\ user # 0
        <5>1. np[p] \in {0, user}
          BY <4>2, <1>2 DEF SInv, OneTypist, offky2
        <5> QED
          BY <4>2, <5>1, <2>1, <1>4 DEF Foreign
      <4> QED
        BY <4>1, <4>2, <1>8
    <3>2. Foreign(q)
      BY <3>1, <2>1, <1>4 DEF Foreign
    <3>3. /\ \A i \in 1 .. Len(outWords) : outWords[i].port = q => ~Tells(outWords[i])
          /\ link[q] \in {"welcome", "force"} \/ forceLogout[q]
      BY <3>2 DEF SInv, KeptAway
    <3> QED
      BY <3>1, <3>3, <2>3, <2>4
  <2> QED
    BY <2>5, <2>6 DEF SInv
<1>9. 0 \in {0, user} /\ user \in {0, user}
  OBVIOUS
<1> QED
  BY <1>3, <1>7, <1>8, <1>9

\* The NIU hears a word.  It lifts the exclusion only when PLATO says that the station is
\* logged out, which it does not while another's session is there.
LEMMA OutIoKeepsApart == ASSUME IInv, SInv, niuOutIo PROVE SInv'
<1> DEFINE w == Head(outWords)
<1>1. /\ UNCHANGED <<np, link, inVars, inWords, session>>
      /\ outWords # <<>> /\ outWords' = Tail(outWords) /\ Flagged(w.port, w.word)
  BY DEF niuOutIo, linkVars
<1>2. /\ w = outWords[1]
      /\ Len(outWords) \in Nat \ {0} /\ Len(outWords') = Len(outWords) - 1
      /\ \A i \in 1 .. Len(outWords) - 1 : outWords'[i] = outWords[i + 1]
  BY <1>1, Types, TailFacts
<1> HIDE DEF w
<1>3. OneTypist'
  BY <1>1, TypistFrame DEF SInv, UnderWayTo, inVars
<1>4. KeptAway'
  <2> SUFFICES ASSUME NEW q \in Ports, Foreign(q)'
               PROVE  /\ \A i \in 1 .. Len(outWords') :
                            outWords'[i].port = q => ~Tells(outWords'[i])
                      /\ link[q] \in {"welcome", "force"} \/ forceLogout'[q]
    BY <1>1 DEF KeptAway, Tells
  <2>1. /\ \A i \in 1 .. Len(outWords) : outWords[i].port = q => ~Tells(outWords[i])
        /\ link[q] \in {"welcome", "force"} \/ forceLogout[q]
    BY <1>1 DEF SInv, KeptAway, Foreign
  <2>2. \A i \in 1 .. Len(outWords') : i + 1 \in 1 .. Len(outWords)
    BY <1>2
  <2>3. \A i \in 1 .. Len(outWords') : outWords'[i].port = q => ~Tells(outWords'[i])
    BY <1>2, <2>1, <2>2
  <2>4. w.port = q => w.word # NOP3
    <3>1. 1 \in 1 .. Len(outWords)
      BY <1>2
    <3> QED
      BY <3>1, <1>2, <2>1 DEF Tells
  <2>5. forceLogout[q] => forceLogout'[q]
    <3>1. forceLogout \in [Ports -> BOOLEAN]
      BY DEF IInv, TypeOK
    <3> QED
      BY <3>1, <2>4, <1>1 DEF Flagged
  <2> QED
    BY <2>1, <2>3, <2>5
<1> QED
  BY <1>3, <1>4 DEF SInv

\* PLATO is started or goes, and with it every session.
LEMMA DeselectKeepsApart == ASSUME IInv, SInv, Deselect PROVE SInv'
<1>1. /\ UNCHANGED <<np, currInput, currInPort, lastInPort>> /\ channel' = "empty"
      /\ inWords' = <<>> /\ session' = [p \in Ports |-> 0]
  BY DEF Deselect, linkVars
<1>2. \A q \in Ports, k \in UserIds : UnderWayTo(q, k)' => UnderWayTo(q, k)
  <2>1. \A i \in 1 .. Len(inWords') : FALSE
    BY <1>1
  <2> QED
    BY <2>1, <1>1 DEF UnderWayTo
<1>3. OneTypist'
  BY <1>1, <1>2, TypistFrame DEF SInv
<1>4. KeptAway'
  BY <1>1 DEF KeptAway, Foreign
<1> QED
  BY <1>3, <1>4 DEF SInv

\* The alert box has nothing to do with the sessions.
LEMMA BoxKeepsApart == ASSUME IInv, SInv, Box PROVE SInv'
<1>1. UNCHANGED <<np, link, forceLogout, inVars, inWords, session>>
  BY DEF Box, PlatoTells, niuOpdata, End, Return, niuThread, BoxStep, linkVars, flagVars
<1>2. OneTypist'
  BY <1>1, TypistFrame DEF SInv, UnderWayTo, inVars
<1>3. CASE PlatoTells
  <2>1. PICK word \in {resett, resetb}, end \in BOOLEAN :
           outWords' = Append(outWords, [port |-> niuOpstat, word |-> word, end |-> end])
    BY <1>3 DEF PlatoTells, Say
  <2> DEFINE w == [port |-> niuOpstat, word |-> word, end |-> end]
  <2>2. w \in Words /\ ~Tells(w)
    <3>1. beats \in Nat /\ beats < setting.beats /\ setting.beats \in Nat
      BY <1>3, Types DEF PlatoTells, IInv
    <3>2. niuOpstat \in Ports
      <4>1. setting.beats > 0
        BY <3>1
      <4> QED
        BY <4>1, Types
    <3>3. w \in Words
      BY <3>2 DEF Words
    <3> QED
      BY <3>3 DEF Tells, NOP3, echotype, resett, resetb
  <2> HIDE DEF w
  <2>3. /\ Len(outWords) \in Nat /\ Len(outWords') = Len(outWords) + 1
        /\ \A i \in 1 .. Len(outWords) : outWords'[i] = outWords[i]
        /\ outWords'[Len(outWords) + 1] = w
    BY <2>1, <2>2, Types, AppendFacts DEF w
  <2>4. ASSUME NEW q \in Ports,
               \A i \in 1 .. Len(outWords) : outWords[i].port = q => ~Tells(outWords[i])
        PROVE  \A i \in 1 .. Len(outWords') : outWords'[i].port = q => ~Tells(outWords'[i])
    BY <2>2, <2>3, <2>4
  <2>5. KeptAway'
    BY <2>4, <1>1, KeptFrame DEF SInv
  <2> QED
    BY <2>5, <1>2 DEF SInv
<1>4. CASE niuOpdata \/ End \/ Return \/ niuThread
  <2>1. outWords' = outWords
    BY <1>4 DEF niuOpdata, End, Return, niuThread
  <2>2. KeptAway'
    BY <2>1, <1>1, KeptFrame DEF SInv, Tells
  <2> QED
    BY <2>2, <1>2 DEF SInv
<1> QED
  BY <1>3, <1>4 DEF Box

LEMMA InitSInv == Init => SInv
<1> SUFFICES ASSUME Init PROVE SInv
  OBVIOUS
<1> USE DEF Init
<1>1. OneTypist
  <2>1. \A q \in Ports, k \in UserIds \ {offky2} : ~UnderWayTo(q, k)
    BY DEF UnderWayTo, offky2
  <2> QED
    BY <2>1 DEF OneTypist
<1>2. KeptAway
  BY DEF KeptAway, Foreign
<1> QED
  BY <1>1, <1>2 DEF SInv

LEMMA NextSInv ==
    ASSUME IInv, SInv, "late" \notin setting.cases, [Next]_vars
    PROVE  SInv'
<1>1. ASSUME NEW p \in Ports, Terminal(p) \/ DataThread(p) PROVE SInv'
  BY <1>1, WelcomeKeepsApart, TypingKeepsApart DEF Terminal, DataThread
<1>2. CASE MainThread
  BY <1>2, ScanKeepsApart, ChannelKeepsApart, PlatoActsKeepsApart, OutIoKeepsApart
     DEF MainThread
<1>3. CASE Deselect
  BY <1>3, DeselectKeepsApart
<1>4. CASE Box
  BY <1>4, BoxKeepsApart
<1>5. CASE UNCHANGED vars
  BY <1>5, SessionFrame DEF vars, linkVars, flagVars
<1> QED
  BY <1>1, <1>2, <1>3, <1>4, <1>5 DEF Next

\* Unless a new user comes while something of the old one is still on its way, no key that
\* a user typed ever reaches a session another user left.
THEOREM SessionKept ==
    ASSUME \A s \in Settings : "late" \notin s.cases
    PROVE  Spec => SessionNotInherited
<1>1. IInv => "late" \notin setting.cases
  BY DEF IInv
<1>2. Init => SInv
  BY InitSInv
<1>3. IInv /\ SInv /\ [Next]_vars => SInv'
  BY <1>1, NextSInv
<1>4. IInv /\ SInv /\ inWords # <<>> /\ Head(inWords)[2] # offky2
        => session[Head(inWords)[1]] \in {0, Head(inWords)[2]}
  BY FirstKey DEF SInv, OneTypist
<1>5. IInv /\ SInv =>
        [inWords # <<>> /\ inWords' = Tail(inWords) /\ Head(inWords)[2] # offky2
          => session[Head(inWords)[1]] \in {0, Head(inWords)[2]}]_vars
  BY <1>4
<1> QED
  BY <1>2, <1>3, <1>5, Invariance, PTL DEF Spec, SessionNotInherited
=============================================================================
