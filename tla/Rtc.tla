-------------------------------- MODULE Rtc --------------------------------
(***************************************************************************)
(* The real time clock of channel 14 (src/rtc.c) when it follows the host's *)
(* clock, that is with an increment of 0.  A PP gets the low bits of the    *)
(* clock; PP 0 (the monitor mtr) makes a longer one of them, and misses a   *)
(* turn when two of its readings are too far apart.                        *)
(*                                                                         *)
(* The host's clock may be set back.                                       *)
(***************************************************************************)
EXTENDS Integers

CONSTANTS
    PerMicrosecond,     \* Hz / 1000000
    MaxMicroseconds,    \* 800: most that the clock gains at a reading
    Turn,               \* 4096: readings a PP can tell apart
    MaxNow              \* bound: the host's clock

VARIABLES
    now,                    \* the host's clock
    rtcClock, rtcPrev, mtr, \* as in rtc.c; rtcPrev is 0 before the first reading
    long,                   \* clock of PP 0, and whether it was read (history)
    last,                   \* the last reading by any PP, its bits not cut off
    start,                  \* the host's clock at the first reading (history)
    setBack                 \* the host's clock was set back since the last reading by PP 0

rtcVars == <<now, rtcClock, rtcPrev, mtr, long, last, start, setBack>>

Smaller(a, b) == IF a < b THEN a ELSE b

\* Mutant: the clock gains whatever time it was behind.
GainUncapped(prev) ==
    LET cycles == IF now < prev THEN 0 ELSE now - prev
    IN  cycles \div PerMicrosecond

(* Microseconds that are added to the clock, given rtcPrev. *)
Gain(prev) ==
    LET cycles == IF now < prev THEN 0 ELSE now - prev
    IN  Smaller(cycles, MaxMicroseconds * PerMicrosecond) \div PerMicrosecond

(* rtcIo for PP n: until PP 0 has read the clock every PP moves it. *)
RtcIo(n) ==
    LET prev == IF rtcPrev = 0 THEN now ELSE rtcPrev
        us == Gain(prev)
        reading == rtcClock + us
    IN  /\ IF n = 0 \/ ~mtr
           THEN rtcPrev' = prev + us * PerMicrosecond /\ rtcClock' = reading
           ELSE rtcPrev' = prev /\ UNCHANGED rtcClock
        /\ mtr' = (mtr \/ n = 0)
        /\ long' = IF n # 0 THEN long
                   ELSE IF ~mtr THEN reading
                   ELSE long + ((reading - long) % Turn)
        /\ last' = reading
        /\ start' = IF rtcPrev = 0 THEN now ELSE start
        /\ setBack' = IF n = 0 \/ ~mtr THEN FALSE ELSE setBack
        /\ UNCHANGED now

Host(t) ==
    /\ t # now /\ now' = t
    /\ setBack' = (setBack \/ t < now)
    /\ UNCHANGED <<rtcClock, rtcPrev, mtr, long, last, start>>

RtcInit ==
    /\ now \in 1 .. PerMicrosecond /\ rtcClock = 0 /\ rtcPrev = 0 /\ mtr = FALSE
    /\ long = 0 /\ last = 0 /\ start = 0 /\ setBack = FALSE

RtcNext == (\E n \in {0, 1} : RtcIo(n)) \/ (\E t \in 1 .. MaxNow : Host(t))

-----------------------------------------------------------------------------
(* PP 0 never loses a turn, however long it does not read and however the host's clock jumps. *)
MonitorKeepsTime == mtr => long = rtcClock

(* No cycle is lost to rounding: the clock and the cycles it stands for agree. *)
NoDrift == rtcPrev = start + rtcClock * PerMicrosecond

(* Readings of all PPs never go back, unless the host's clock did. *)
NeverBack == ~setBack => last <= rtcClock + Gain(rtcPrev)

RtcSafe == MonitorKeepsTime /\ NoDrift /\ (mtr => NeverBack)
=============================================================================
