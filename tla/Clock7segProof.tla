--------------------------- MODULE Clock7segProof ---------------------------
(***************************************************************************)
(* clock7seg.c.  In a prompt loop the GPS sets the second that follows the *)
(* one the receiver has just named, for every length of the second, every  *)
(* sentence offset, every error of the receiver, every loss of pulses and  *)
(* sentences and every interleaving of the three actors.  The              *)
(* display is safe for any number of digits, any split of the segments     *)
(* over the two banks, any texts and any delays.                           *)
(***************************************************************************)
EXTENDS PulseTime, Multiplexer, TLAPS

\* A sentence that is being read, or has just been, started in its second.
SentenceInv ==
  rx # "hunt" =>
    /\ msgSec * TPS + MinOffset <= messageStart
    /\ messageStart <= msgSec * TPS + MaxOffset
    /\ msgSec = sec => off >= MinOffset
    /\ msgSec # 0 /\ msgSec <= sec
    /\ rx = "stamp" => msgSec = sec

\* A time that waits for its pulse and the stamp belong to one sentence: the
\* one that was stored last.
PairInv ==
  rx # "stamp" /\ gGPStime_t # 0 /\ pc \notin {"set", "clear"} =>
    /\ gGPStime_t = saidSec + saidBy
    /\ saidSec * TPS + MinOffset <= gGPStimeMessageReceived
    /\ gGPStimeMessageReceived <= saidSec * TPS + MaxOffset
    /\ saidSec = sec => off >= MinOffset
    /\ saidSec <= sec

\* While the second of the pair is being stored.
StampInv == rx = "stamp" => saidSec = msgSec /\ gGPStime_t = saidSec + saidBy

\* An unhandled pulse is younger than two passes of the loop.
PulseInv ==
  /\ sPPS = cPPSSET => off <= lag \/ (pc # "rest" /\ off <= LoopTime + lag)
  /\ pc \in {"age", "add", "set", "clear", "mark"} => off <= LoopTime + lag

\* The counter is only counted down where it is not zero.
CountInv ==
  /\ pc \in {"age", "add", "set", "clear", "mark", "load"} => sPPS > 0
  /\ pc = "store" => tmp > 0

\* The age check has singled out the last second's sentence.
UseInv ==
  /\ pc = "age" => gGPStime_t # 0
  /\ pc = "add" => saidSec = sec - 1 /\ gGPStime_t = saidSec + saidBy
  /\ pc = "set" => saidSec = sec - 1 /\ gGPStime_t = saidSec + saidBy + 1

IInv ==
  TypeOK /\ SentenceInv /\ PairInv /\ StampInv /\ PulseInv /\ CountInv /\ UseInv

\* Times of different seconds are at least a second apart.
LEMMA SecondsApart ==
  ASSUME NEW T \in Nat, NEW a \in Int, NEW b \in Int, a <= b - 1
  PROVE  a * T <= b * T - T
<1>1. PICK d \in Nat : b = a + 1 + d
  <2>1. b - a - 1 \in Nat
    OBVIOUS
  <2>2. b = a + 1 + (b - a - 1)
    OBVIOUS
  <2> QED BY <2>1, <2>2
<1>2. b * T = a * T + T + d * T
  BY <1>1
<1>3. d * T \in Nat
  BY <1>1
<1> QED BY <1>2, <1>3

\* What an accepted age says of the second it belongs to.
LEMMA AgeNamesSecond ==
  ASSUME NEW s \in Nat, NEW o \in 0 .. TPS - 1, NEW g \in Nat, NEW r \in Nat,
         r <= g * TPS + MaxOffset, s * TPS + o - r < TPS
  PROVE  s <= g + 1
<1> SUFFICES ASSUME s > g + 1 PROVE FALSE
  OBVIOUS
<1>1. g + 1 <= s - 1
  OBVIOUS
<1>2. (g + 1) * TPS <= s * TPS - TPS
  BY <1>1, SecondsApart, TimesAssumption
<1>3. (g + 1) * TPS = g * TPS + TPS
  BY TimesAssumption
<1>4. g * TPS \in Int /\ s * TPS \in Int
  BY TimesAssumption
<1> QED BY <1>2, <1>3, <1>4, TimesAssumption, ScheduleAssumption

LEMMA InitInv == Prompt /\ Init => IInv
<1> SUFFICES ASSUME Prompt, Init PROVE IInv
  OBVIOUS
<1> USE TimesAssumption, OffsetsAssumption, ScheduleAssumption DEF Init
<1>0. error \in Int
  OBVIOUS
<1>1. TypeOK
  <2>1. 0 \in 0 .. TPS - 1 /\ 0 \in 0 .. LoopTime /\ 0 \in 0 .. cPPSSET
    BY DEF cPPSSET
  <2> QED BY <1>0, <2>1 DEF TypeOK, LoopPoints
<1>2. SentenceInv /\ PairInv /\ StampInv /\ PulseInv /\ CountInv /\ UseInv
  BY DEF SentenceInv, PairInv, StampInv, PulseInv, CountInv, UseInv, cPPSSET
<1> QED BY <1>1, <1>2 DEF IInv

LEMMA NextInv == Prompt /\ IInv /\ [Next]_vars => IInv'
<1> SUFFICES ASSUME Prompt, IInv, [Next]_vars PROVE IInv'
  OBVIOUS
<1> USE TimesAssumption, OffsetsAssumption, ScheduleAssumption
    DEF IInv, TypeOK, LoopPoints, cPPSSET, clockVars, rxVars, loopVars, history
<1>1. CASE Tick
  <2>1. TypeOK'
    <3>1. sec' \in Nat /\ off' \in 0 .. TPS - 1
      BY <1>1 DEF Tick
    <3>2. lag' \in 0 .. LoopTime
      BY <1>1 DEF Tick
    <3> QED BY <1>1, <3>1, <3>2 DEF Tick
  <2>2. SentenceInv'
    BY <1>1 DEF Tick, SentenceInv
  <2>3. PairInv' /\ StampInv'
    BY <1>1 DEF Tick, PairInv, StampInv
  <2>4. PulseInv'
    BY <1>1 DEF Tick, PulseInv
  <2>5. CountInv'
    BY <1>1 DEF Tick, CountInv
  <2>6. UseInv'
    BY <1>1 DEF Tick, UseInv, PulseInv, Prompt
  <2> QED BY <2>1, <2>2, <2>3, <2>4, <2>5, <2>6
<1>2. CASE gpio_pps_handler
  BY <1>2 DEF gpio_pps_handler, SentenceInv, PairInv, StampInv, PulseInv, CountInv, UseInv
<1>3. CASE RxStart
  <2>1. Now \in Nat
    BY DEF Now
  <2>2. TypeOK'
    BY <1>3, <2>1 DEF RxStart
  <2>3. SentenceInv'
    BY <1>3 DEF RxStart, SentenceInv, Now
  <2> QED
    BY <1>3, <2>2, <2>3 DEF RxStart, PairInv, StampInv, PulseInv, CountInv, UseInv
<1>4. CASE RxLost
  BY <1>4 DEF RxLost, SentenceInv, PairInv, StampInv, PulseInv, CountInv, UseInv
<1>5. CASE RxTime
  <2>1. pc \notin {"age", "add", "set"}
    BY <1>5 DEF RxTime, SentenceInv, PulseInv, Prompt
  <2>2. PICK b \in Offsets : gGPStime_t' = msgSec + b /\ saidBy' = b
    BY <1>5 DEF RxTime
  <2>3. TypeOK' /\ StampInv'
    BY <1>5, <2>2 DEF RxTime, StampInv
  <2> QED
    BY <1>5, <2>1, <2>3 DEF RxTime, SentenceInv, PairInv, PulseInv, CountInv, UseInv
<1>6. CASE RxStamp
  <2>1. PairInv'
    BY <1>6 DEF RxStamp, SentenceInv, PairInv, StampInv
  <2> QED
    BY <1>6, <2>1 DEF RxStamp, SentenceInv, StampInv, PulseInv, CountInv, UseInv
<1>7. CASE TestPulse
  BY <1>7 DEF TestPulse, SentenceInv, PairInv, StampInv, PulseInv, CountInv, UseInv
<1>8. CASE CheckAge
  <2>1. pc' = "add" => saidSec = sec - 1 /\ gGPStime_t = saidSec + saidBy
    <3> SUFFICES ASSUME pc' = "add"
                 PROVE  saidSec = sec - 1 /\ gGPStime_t = saidSec + saidBy
      OBVIOUS
    <3>1. off < MinOffset
      BY <1>8 DEF CheckAge, PulseInv, Prompt
    <3>2. rx # "stamp"
      BY <3>1 DEF SentenceInv
    <3>3. /\ gGPStime_t = saidSec + saidBy
          /\ gGPStimeMessageReceived <= saidSec * TPS + MaxOffset
          /\ saidSec = sec => off >= MinOffset
          /\ saidSec <= sec
      BY <1>8, <3>2 DEF CheckAge, PairInv, UseInv
    <3>4. sec * TPS + off - gGPStimeMessageReceived < TPS
      BY <1>8 DEF CheckAge, AgeOk, Now
    <3>5. sec <= saidSec + 1
      BY <3>3, <3>4, AgeNamesSecond
    <3> QED BY <3>1, <3>3, <3>5
  <2> QED
    BY <1>8, <2>1
       DEF CheckAge, SentenceInv, PairInv, StampInv, PulseInv, CountInv, UseInv
<1>9. CASE AddSecond
  BY <1>9 DEF AddSecond, SentenceInv, PairInv, StampInv, PulseInv, CountInv, UseInv, Prompt
<1>10. CASE SetClock
  <2>1. gGPStime_t * TPS - Now \in Int
    BY DEF Now
  <2>2. error' \in Int
    BY <1>10, <2>1 DEF SetClock
  <2>3. TypeOK'
    BY <1>10, <2>2 DEF SetClock
  <2>4. (SentenceInv /\ PairInv /\ StampInv /\ PulseInv /\ CountInv /\ UseInv)'
    BY <1>10 DEF SetClock, SentenceInv, PairInv, StampInv, PulseInv, CountInv, UseInv
  <2> QED BY <2>3, <2>4
<1>11. CASE ClearTime
  <2>1. rx # "stamp"
    BY <1>11 DEF ClearTime, SentenceInv, PulseInv, Prompt
  <2> QED
    BY <1>11, <2>1
       DEF ClearTime, SentenceInv, PairInv, StampInv, PulseInv, CountInv, UseInv
<1>12. CASE MarkDefinitive
  BY <1>12 DEF MarkDefinitive, SentenceInv, PairInv, StampInv, PulseInv, CountInv, UseInv
<1>13. CASE LoadPPS
  BY <1>13 DEF LoadPPS, SentenceInv, PairInv, StampInv, PulseInv, CountInv, UseInv
<1>14. CASE StorePPS
  BY <1>14 DEF StorePPS, SentenceInv, PairInv, StampInv, PulseInv, CountInv, UseInv
<1>15. CASE Rest
  BY <1>15 DEF Rest, SentenceInv, PairInv, StampInv, PulseInv, CountInv, UseInv
<1>16. CASE UNCHANGED vars
  BY <1>16 DEF vars, SentenceInv, PairInv, StampInv, PulseInv, CountInv, UseInv
<1> QED
  BY <1>1, <1>2, <1>3, <1>4, <1>5, <1>6, <1>7, <1>8, <1>9, <1>10, <1>11,
     <1>12, <1>13, <1>14, <1>15, <1>16 DEF Next, rx_task, timer_clock_task

(* What waits in gGPStime_t, its stamp and the loop's progress agree with  *)
(* the true time, while the loop is prompt (clock7seg.c:314-359).          *)
THEOREM InductiveInvariant == Prompt => (Spec => []IInv)
<1>1. Prompt /\ Init => IInv
  BY InitInv
<1>2. Prompt /\ IInv /\ [Next]_vars => IInv'
  BY NextInv
<1>3. Prompt <=> Prompt'
  BY DEF Prompt
<1> QED BY <1>1, <1>2, <1>3, PTL DEF Spec

(* The variables keep their types; in particular sPPS, decremented outside *)
(* the interrupt that sets it, never leaves 0..2 (clock7seg.c:359).        *)
THEOREM TypeCorrect == Prompt => (Spec => []TypeOK)
<1>1. IInv => TypeOK
  BY DEF IInv
<1> QED BY <1>1, InductiveInvariant, PTL

(* In a prompt loop the time set from the GPS is one second after what the *)
(* receiver said in the last second, no older sentence's, none half stored *)
(* and none counted on twice (clock7seg.c:325-346).                        *)
THEOREM GpsSetsWhatReceiverSaid == Prompt => (Spec => []UsedTimeIsTheReceivers)
<1>1. IInv => UsedTimeIsTheReceivers
  BY TimesAssumption, OffsetsAssumption
     DEF IInv, TypeOK, UseInv, UsedTimeIsTheReceivers
<1> QED BY <1>1, InductiveInvariant, PTL

\* What the loop sets is the receiver's error and its own delay.
LEMMA SetByReceiver ==
  ASSUME IInv, SetClock
  PROVE  /\ off \in 0 .. 2 * LoopTime
         /\ error' = IF MoreThan10ms((saidBy * TPS - off) - error)
                        THEN saidBy * TPS - off ELSE error
<1> USE TimesAssumption, OffsetsAssumption DEF IInv, TypeOK
<1>1. gGPStime_t = sec + saidBy /\ off \in 0 .. 2 * LoopTime
  BY DEF SetClock, UseInv, PulseInv
<1>2. (sec + saidBy) * TPS = sec * TPS + saidBy * TPS
  OBVIOUS
<1>3. sec * TPS \in Int /\ saidBy * TPS \in Int
  OBVIOUS
<1>4. gGPStime_t * TPS - Now = saidBy * TPS - off
  BY <1>1, <1>2, <1>3 DEF Now
<1>5. error' = IF MoreThan10ms((gGPStime_t * TPS - Now) - error)
                 THEN gGPStime_t * TPS - Now ELSE error
  BY DEF SetClock
<1> QED BY <1>1, <1>4, <1>5

LEMMA OnlySetClockSets ==
  ASSUME [Next]_vars, ~ SetClock
  PROVE  UNCHANGED error
BY DEF Next, rx_task, timer_clock_task, vars, Tick, gpio_pps_handler,
   RxStart, RxLost, RxTime, RxStamp, TestPulse, CheckAge, AddSecond,
   ClearTime, MarkDefinitive, LoadPPS, StorePPS, Rest

LEMMA StepFollowsReceiver ==
  IInv /\ [Next]_vars => [Right(error' - saidBy * TPS)]_error
<1> SUFFICES ASSUME IInv, [Next]_vars, error' # error
             PROVE  Right(error' - saidBy * TPS)
  OBVIOUS
<1>1. SetClock
  BY OnlySetClockSets
<1>2. off \in 0 .. 2 * LoopTime /\ error' = saidBy * TPS - off
  BY <1>1, SetByReceiver
<1>3. saidBy * TPS \in Int
  BY TimesAssumption, OffsetsAssumption DEF IInv, TypeOK
<1> QED BY <1>2, <1>3, TimesAssumption DEF Right

(* In a prompt loop a clock the GPS has changed is off by what the         *)
(* receiver was off by, so a right clock is spoilt only by a sentence that *)
(* was itself wrong (clock7seg.c:345-346).                                 *)
THEOREM GpsAddsNoError == Prompt => (Spec => ClockFollowsReceiver)
<1>1. IInv /\ [Next]_vars => [Right(error' - saidBy * TPS)]_error
  BY StepFollowsReceiver
<1> QED BY <1>1, InductiveInvariant, PTL DEF Spec, ClockFollowsReceiver
-----------------------------------------------------------------------------
(* The pulse that must set the clock.                                      *)

\* The sentence that waits is right and will pass the age check for two passes
\* more.
Stored ==
  /\ rx = "hunt" /\ gGPStime_t # 0 /\ gGPStime_t = sec - 1
  /\ HalfTPS < sec * TPS - gGPStimeMessageReceived
  /\ sec * TPS - gGPStimeMessageReceived < TPS - 2 * LoopTime

\* In the tick of a pulse there is something to do only after the pulse.
EdgeInv ==
  off = 0 /\ (sPPS = cPPSSET \/ pc \in {"age", "add", "set", "clear", "mark"}) => ppsHigh

\* Such a pulse is not counted down before it has set the clock, ...
Pending ==
  /\ sPPS = cPPSSET /\ pc \in {"rest", "top", "age", "add", "set"}
  /\ pc \in {"rest", "top", "age"} => Stored
  /\ pc = "add" => gGPStime_t = sec - 1
  /\ pc = "set" => gGPStime_t = sec

\* ... and once it has, the clock is not set again in this second.
Done ==
  /\ Right(error)
  /\ pc \notin {"age", "add", "set"}
  /\ sPPS = cPPSSET => pc \in {"clear", "mark", "load", "store"}

OwedInv ==
  /\ owed \in Nat /\ owed <= sec /\ sec > 0
  /\ owed = sec => (off > 0 \/ ppsHigh) /\ (Pending \/ Done)

\* The GPS adds no error of its own to the receiver's.
ErrorInv == error \in KnownErrors

PInv == IInv /\ EdgeInv /\ OwedInv /\ ErrorInv

LEMMA InitPInv == Prompt /\ Init => PInv
BY InitInv DEF Init, PInv, EdgeInv, OwedInv, ErrorInv, KnownErrors, cPPSSET

LEMMA StepEdge == Prompt /\ PInv /\ [Next]_vars => EdgeInv'
<1> SUFFICES ASSUME Prompt, PInv, [Next]_vars PROVE EdgeInv'
  OBVIOUS
<1> USE TimesAssumption, OffsetsAssumption, ScheduleAssumption
    DEF PInv, IInv, TypeOK, LoopPoints, cPPSSET, clockVars, rxVars, loopVars, history, EdgeInv
<1>1. CASE Tick
  <2>1. CASE off' = 0
    <3>1. off + 1 = TPS /\ off >= MinOffset /\ lag < LoopTime
      BY <1>1, <2>1 DEF Tick
    <3>2. sPPS # cPPSSET /\ pc \notin {"age", "add", "set", "clear", "mark"}
      BY <3>1 DEF PulseInv, Prompt
    <3> QED BY <1>1, <3>2 DEF Tick
  <2> QED BY <2>1
<1>2. CASE gpio_pps_handler
  BY <1>2 DEF gpio_pps_handler
<1>3. CASE rx_task
  BY <1>3 DEF rx_task, RxStart, RxLost, RxTime, RxStamp
<1>4. CASE timer_clock_task
  <2>1. UNCHANGED <<off, ppsHigh>>
    BY <1>4 DEF timer_clock_task, TestPulse, CheckAge, AddSecond, SetClock, ClearTime,
       MarkDefinitive, LoadPPS, StorePPS, Rest
  <2>2. sPPS' = cPPSSET => sPPS = cPPSSET
    BY <1>4 DEF timer_clock_task, TestPulse, CheckAge, AddSecond, SetClock, ClearTime,
       MarkDefinitive, LoadPPS, StorePPS, Rest
  <2>3. pc' \in {"age", "add", "set", "clear", "mark"} =>
          sPPS = cPPSSET \/ pc \in {"age", "add", "set", "clear", "mark"}
    BY <1>4 DEF timer_clock_task, TestPulse, CheckAge, AddSecond, SetClock, ClearTime,
       MarkDefinitive, LoadPPS, StorePPS, Rest
  <2> QED BY <2>1, <2>2, <2>3
<1>5. CASE UNCHANGED vars
  BY <1>5 DEF vars
<1> QED BY <1>1, <1>2, <1>3, <1>4, <1>5 DEF Next

LEMMA StepError == PInv /\ [Next]_vars => ErrorInv'
<1> SUFFICES ASSUME PInv, [Next]_vars PROVE ErrorInv'
  OBVIOUS
<1>1. CASE SetClock
  <2>1. /\ off \in 0 .. 2 * LoopTime
        /\ error' \in {error, saidBy * TPS - off}
    BY <1>1, SetByReceiver DEF PInv
  <2>2. saidBy \in Offsets /\ saidBy * TPS \in Int
    BY TimesAssumption, OffsetsAssumption DEF PInv, IInv, TypeOK
  <2>3. -off \in -(2 * LoopTime) .. 0 /\ saidBy * TPS - off = saidBy * TPS + (-off)
    BY <2>1, <2>2, TimesAssumption
  <2>4. saidBy * TPS - off \in KnownErrors
    BY <2>2, <2>3 DEF KnownErrors
  <2> QED BY <2>1, <2>4 DEF PInv, ErrorInv, KnownErrors
<1>2. CASE ~ SetClock
  BY <1>2, OnlySetClockSets DEF PInv, ErrorInv, KnownErrors
<1> QED BY <1>1, <1>2

LEMMA StepOwed == Prompt /\ Noticed /\ PInv /\ [Next]_vars => OwedInv'
<1> SUFFICES ASSUME Prompt, Noticed, PInv, [Next]_vars PROVE OwedInv'
  OBVIOUS
<1> USE TimesAssumption, OffsetsAssumption, ScheduleAssumption
    DEF PInv, IInv, TypeOK, LoopPoints, cPPSSET, clockVars, rxVars, loopVars, history
<1>1. CASE Tick
  <2>1. owed' = sec' => sec' = sec /\ off' > 0 /\ owed = sec
    BY <1>1 DEF Tick, OwedInv
  <2>2. UNCHANGED <<error, sPPS, pc, rx, gGPStime_t, gGPStimeMessageReceived, owed>>
    BY <1>1 DEF Tick
  <2>3. sec' = sec => (Pending => Pending') /\ (Done => Done')
    BY <2>2 DEF Pending, Done, Stored, Right
  <2>4. owed' \in Nat /\ owed' <= sec' /\ sec' > 0
    BY <1>1 DEF Tick, OwedInv
  <2> QED BY <2>1, <2>3, <2>4 DEF OwedInv
<1>2. CASE gpio_pps_handler
  <2>1. off = 0 /\ ~ppsHigh /\ ppsHigh' /\ sPPS' = cPPSSET /\ owed' \in {owed, sec}
    BY <1>2 DEF gpio_pps_handler
  <2>2. UNCHANGED <<sec, off, error, pc, rx, gGPStime_t, gGPStimeMessageReceived>>
    BY <1>2 DEF gpio_pps_handler
  <2>3. owed # sec
    BY <2>1 DEF OwedInv
  <2>4. CASE owed' = owed
    BY <2>1, <2>2, <2>3, <2>4 DEF OwedInv
  <2>5. CASE owed' # owed
    <3>1. Fresh /\ pc \notin {"load", "store"}
      BY <1>2, <2>5 DEF gpio_pps_handler
    <3>2. pc \in {"rest", "top"}
      BY <2>1, <3>1 DEF EdgeInv
    <3>3. Stored
      BY <2>1, <3>1 DEF Fresh, Stored, Now
    <3>4. Pending'
      BY <2>1, <2>2, <3>2, <3>3 DEF Pending, Stored
    <3> QED BY <2>1, <2>2, <3>4 DEF OwedInv
  <2> QED BY <2>4, <2>5
<1>3. CASE rx_task
  <2>1. UNCHANGED <<sec, off, ppsHigh, error, pc, sPPS, owed>>
    BY <1>3 DEF rx_task, RxStart, RxLost, RxTime, RxStamp
  <2>2. Done => Done'
    BY <2>1 DEF Done, Right
  <2>3. Pending => Pending'
    <3> SUFFICES ASSUME Pending PROVE Pending'
      OBVIOUS
    <3>1. off < MinOffset
      BY DEF PulseInv, Pending, Prompt
    <3>2. rx # "stamp" /\ ~ RxStart /\ ~ RxTime /\ ~ RxStamp
      BY <3>1 DEF SentenceInv, RxStart, RxTime, RxStamp
    <3>3. RxLost
      BY <1>3, <3>2 DEF rx_task
    <3>4. rx = "line" /\ UNCHANGED gGPStime_t
      BY <3>3 DEF RxLost
    <3> QED BY <2>1, <3>4 DEF Pending, Stored
  <2> QED BY <2>1, <2>2, <2>3 DEF OwedInv
<1>4. CASE SetClock
  <2>1. UNCHANGED <<sec, off, ppsHigh, sPPS, owed>> /\ pc = "set" /\ pc' = "clear"
    BY <1>4 DEF SetClock
  <2>2. Pending => Right(error')
    <3> SUFFICES ASSUME Pending PROVE Right(error')
      OBVIOUS
    <3>1. saidBy = 0
      BY <2>1 DEF Pending, UseInv
    <3>2. /\ off \in 0 .. 2 * LoopTime
          /\ error' = IF MoreThan10ms((-off) - error) THEN -off ELSE error
      BY <1>4, <3>1, SetByReceiver
    <3>3. -off \in -(2 * LoopTime) .. 0
      BY <3>2
    <3>4. Right(-off)
      BY <3>2 DEF Right
    <3>5. Right(error) \/ MoreThan10ms((-off) - error)
      BY <3>3 DEF Noticed, ErrorInv, Right
    <3> QED BY <3>2, <3>4, <3>5
  <2> QED BY <2>1, <2>2 DEF OwedInv, Pending, Done
<1>5. CASE CheckAge
  <2>1. /\ UNCHANGED <<sec, off, ppsHigh, error, sPPS, owed, rx, gGPStime_t,
                      gGPStimeMessageReceived>>
        /\ pc = "age"
    BY <1>5 DEF CheckAge
  <2>2. Stored => pc' = "add"
    <3> SUFFICES ASSUME Stored PROVE pc' = "add"
      OBVIOUS
    <3>1. off <= 2 * LoopTime
      BY <2>1 DEF PulseInv
    <3>2. AgeOk(Now - gGPStimeMessageReceived)
      BY <3>1 DEF AgeOk, Now, Stored
    <3> QED BY <1>5, <3>2 DEF CheckAge, Stored
  <2>3. Pending => Pending'
    BY <2>1, <2>2 DEF Pending, Stored
  <2> QED BY <2>1, <2>3 DEF OwedInv, Done
<1>6. CASE TestPulse \/ AddSecond \/ ClearTime \/ MarkDefinitive \/ LoadPPS \/ StorePPS \/ Rest
  <2>1. UNCHANGED <<sec, off, ppsHigh, error, owed, rx, gGPStimeMessageReceived>>
    BY <1>6 DEF TestPulse, AddSecond, ClearTime, MarkDefinitive, LoadPPS, StorePPS, Rest
  <2>2. Pending => Pending'
    BY <1>6, <2>1 DEF TestPulse, AddSecond, ClearTime, MarkDefinitive, LoadPPS, StorePPS,
       Rest, Pending, Stored
  <2>3. Done => Done'
    BY <1>6, <2>1 DEF TestPulse, AddSecond, ClearTime, MarkDefinitive, LoadPPS, StorePPS,
       Rest, Done, Right
  <2> QED BY <2>1, <2>2, <2>3 DEF OwedInv
<1>7. CASE UNCHANGED vars
  BY <1>7 DEF vars, OwedInv, Pending, Done, Stored, Right
<1> QED BY <1>1, <1>2, <1>3, <1>4, <1>5, <1>6, <1>7 DEF Next, timer_clock_task

(* A pulse that finds a fresh sentence sets the clock within two passes of *)
(* the loop, whatever the loop, the sentences and later pulses do then, if *)
(* abs() can tell that the clock is wrong (clock7seg.c:314-359).           *)
THEOREM FreshPulseIsUsed == Prompt /\ Noticed => (Spec => []FreshPulseSetsClock)
<1>1. Prompt /\ Init => PInv
  BY InitPInv
<1>2. Prompt /\ Noticed /\ PInv /\ [Next]_vars => PInv'
  BY NextInv, StepEdge, StepError, StepOwed DEF PInv
<1>3. PInv => FreshPulseSetsClock
  BY TimesAssumption
     DEF PInv, IInv, TypeOK, OwedInv, Pending, Done, PulseInv, FreshPulseSetsClock
<1>4. (Prompt <=> Prompt') /\ (Noticed <=> Noticed')
  BY DEF Prompt, Noticed, KnownErrors, MoreThan10ms, Int32
<1> QED BY <1>1, <1>2, <1>3, <1>4, PTL DEF Spec

(* A clock that is wrong by less than 24 days is always noticed.           *)
LEMMA SmallErrorsNoticed ==
  ASSUME \A e \in KnownErrors : e < IntMod \div 2 - 2 * LoopTime /\ -e < IntMod \div 2
  PROVE  Noticed
<1> SUFFICES ASSUME NEW e \in KnownErrors, NEW ahead \in -(2 * LoopTime) .. 0,
                    ~ (-(2 * LoopTime + Tol) <= e /\ e <= Tol)
             PROVE  MoreThan10ms(ahead - e)
  BY DEF Noticed
<1>1. PICK half \in Nat : IntMod = 2 * half /\ IntMod \div 2 = half
  BY IntModAssumption
<1>0. e \in Int
  BY TimesAssumption, OffsetsAssumption DEF KnownErrors
<1>2. e \in Int /\ e < half - 2 * LoopTime /\ -e < half /\ LoopTime \in Nat /\ Tol \in Nat
  BY <1>0, <1>1, TimesAssumption
<1> DEFINE n == ahead - e
<1>3. n \in Int /\ -half < n /\ n < half /\ (n < -Tol \/ n > Tol)
  BY <1>2
<1> HIDE DEF n
<1>4. (n + half) % IntMod = n + half
  BY <1>1, <1>3
<1>5. Int32(n) = n
  BY <1>1, <1>3, <1>4 DEF Int32
<1>6. MoreThan10ms(n)
  BY <1>1, <1>2, <1>3, <1>5 DEF MoreThan10ms
<1> QED BY <1>6 DEF n

-----------------------------------------------------------------------------
(* The display.  MuxInv is inductive: which words say4 has stored, and what  *)
(* the segments that the interrupt has switched so far have in common with a *)
(* glyph of these words.                                                     *)

(* A digit is lit between its TurnOn and its TurnOff and at no other time.  *)
LitInv ==
  /\ lit = IF \/ isr = "wait" /\ displayIsOn
              \/ isr = "arm" /\ ~displayIsOn THEN {idig} ELSE {}
  /\ isr \in WordNames \cup {"on"} => ~displayIsOn

(* The glyph a word was packed from: the new text's up to where say4 is.    *)
Rank == [loSet |-> 0, hiSet |-> 1, loClear |-> 2, hiClear |-> 3]

Written(d, w) == wdig > d \/ (wdig = d /\ Rank[w] < Rank[wword])

WordsInv ==
  \A d \in Digits, w \in WordNames :
    words[d][w] = Packed(IF Written(d, w) THEN text[d] ELSE old[d])[w]

(* While the words of idig are loaded, shown has the glyphs they hold.      *)
ShownInv == isr \in WordNames => Glyphs(idig) \subseteq shown

(* What the "set" words leave on in a bank is on in some glyph of shown;    *)
(* what the "clear" words leave behind agrees with some glyph of shown.     *)
Cleaned(bank) == \A s \in bank : s \in seg => \E g \in shown : s \in g
Loaded(bank)  == \A s \in bank : \E g \in shown : (s \in seg) <=> (s \in g)

SegInv ==
  /\ isr \in {"hiSet", "loClear"}   => Cleaned(Lo)
  /\ isr \in {"loClear", "hiClear"} => Cleaned(Hi)
  /\ isr = "hiClear"                => Loaded(Lo)
  /\ isr = "on" \/ lit # {}         => Loaded(Segs)

MuxInv == MuxTypeOK /\ LitInv /\ WordsInv /\ ShownInv /\ SegInv
-----------------------------------------------------------------------------
(* The word the interrupt is about to store was packed from a glyph of      *)
(* shown, however far say4 has come.                                        *)
LEMMA StoredWordIsShown ==
  ASSUME MuxTypeOK, WordsInv, ShownInv, isr \in WordNames
  PROVE  \E g \in shown : words[idig][isr] = Packed(g)[isr]
<1> DEFINE g == IF Written(idig, isr) THEN text[idig] ELSE old[idig]
<1>1. idig \in Digits
  BY DEF MuxTypeOK
<1>2. words[idig][isr] = Packed(g)[isr]
  BY <1>1 DEF WordsInv
<1>3. wdig \in Int /\ idig \in Int
  BY DigitsAssumption DEF MuxTypeOK, Digits
<1>4. g \in Glyphs(idig)
  BY <1>3 DEF Written, Glyphs, WordNames, Rank
<1>5. Glyphs(idig) \subseteq shown
  BY DEF ShownInv
<1> QED
  BY <1>2, <1>4, <1>5

LEMMA DigitsAreNumbers == Digits \subseteq Int /\ NDIGITS \notin Digits
BY DigitsAssumption DEF Digits

LEMMA InitMuxInv == MuxInit => MuxInv
<1> SUFFICES ASSUME MuxInit PROVE MuxInv
  OBVIOUS
<1>1. text \in [Digits -> SUBSET Segs]
  BY TextsAssumption DEF MuxInit
<1>2. \A d \in Digits : Packed(text[d]) \in [WordNames -> SUBSET Segs]
  <2> TAKE d \in Digits
  <2>1. /\ Lo \ text[d] \in SUBSET Segs /\ Hi \ text[d] \in SUBSET Segs
        /\ Lo \cap text[d] \in SUBSET Segs /\ Hi \cap text[d] \in SUBSET Segs
    BY DEF Segs
  <2> QED
    BY <2>1 DEF Packed, WordNames
<1>3. MuxTypeOK
  <2>1. words \in [Digits -> [WordNames -> SUBSET Segs]]
    BY <1>2 DEF MuxInit
  <2>2. idig \in Digits /\ wdig \in 0 .. NDIGITS
    BY DigitsAssumption DEF MuxInit, Digits
  <2> QED
    BY <2>1, <2>2 DEF MuxInit, MuxTypeOK, WordNames
<1>4. LitInv
  BY DEF MuxInit, LitInv, WordNames
<1>5. WordsInv
  BY DEF MuxInit, WordsInv
<1>6. ShownInv /\ SegInv
  BY DEF MuxInit, ShownInv, SegInv, WordNames
<1> QED
  BY <1>3, <1>4, <1>5, <1>6 DEF MuxInv

(* Storing a word in one bank: what it does to each segment.                *)
LEMMA StoreKeepsSegInv ==
  ASSUME MuxInv, StoreWord
  PROVE  SegInv'
<1>1. PICK g \in shown : words[idig][isr] = Packed(g)[isr]
  BY StoredWordIsShown DEF MuxInv, StoreWord
<1>2. isr \in WordNames /\ UNCHANGED <<lit, shown>> /\ lit = {}
  BY DEF MuxInv, LitInv, StoreWord, WordNames
<1>3. CASE isr = "loSet"
  <2>1. seg' = seg \ (Lo \ g) /\ isr' = "hiSet"
    BY <1>1, <1>3 DEF StoreWord, Packed, After
  <2>2. Cleaned(Lo)'
    BY <1>2, <2>1 DEF Cleaned
  <2> QED
    BY <1>2, <2>1, <2>2 DEF SegInv
<1>4. CASE isr = "hiSet"
  <2>1. seg' = seg \ (Hi \ g) /\ isr' = "loClear"
    BY <1>1, <1>4 DEF StoreWord, Packed, After
  <2>2. Cleaned(Lo)' /\ Cleaned(Hi)'
    BY <1>2, <1>4, <2>1 DEF Cleaned, MuxInv, SegInv
  <2> QED
    BY <1>2, <2>1, <2>2 DEF SegInv
<1>5. CASE isr = "loClear"
  <2>1. seg' = seg \cup (Lo \cap g) /\ isr' = "hiClear"
    BY <1>1, <1>5 DEF StoreWord, Packed, After
  <2>2. Cleaned(Hi)'
    BY <1>2, <1>5, <2>1, SegsAssumption DEF Cleaned, MuxInv, SegInv
  <2>3. Loaded(Lo)'
    BY <1>2, <1>5, <2>1 DEF Cleaned, Loaded, MuxInv, SegInv
  <2> QED
    BY <1>2, <2>1, <2>2, <2>3 DEF SegInv
<1>6. CASE isr = "hiClear"
  <2>1. seg' = seg \cup (Hi \cap g) /\ isr' = "on"
    BY <1>1, <1>6 DEF StoreWord, Packed, After
  <2>2. Loaded(Lo)'
    BY <1>2, <1>6, <2>1, SegsAssumption DEF Loaded, MuxInv, SegInv
  <2>3. Loaded(Hi)'
    BY <1>2, <1>6, <2>1 DEF Cleaned, Loaded, MuxInv, SegInv
  <2>4. Loaded(Segs)'
    BY <2>2, <2>3 DEF Loaded, Segs
  <2> QED
    BY <1>2, <2>1, <2>4 DEF SegInv
<1> QED
  BY <1>2, <1>3, <1>4, <1>5, <1>6 DEF WordNames

(* say4 stores the new text's word where it is, and moves on by one.        *)
LEMMA WriteKeepsWordsInv ==
  ASSUME MuxInv, WriteWord
  PROVE  WordsInv' /\ ShownInv'
<1>1. wdig \in Digits /\ wdig \in Int /\ wword \in WordNames
  BY DigitsAssumption DEF MuxInv, MuxTypeOK, WriteWord, Digits
<1>2. words \in [Digits -> [WordNames -> SUBSET Segs]]
  BY DEF MuxInv, MuxTypeOK
<1>3. WordsInv'
  <2> SUFFICES ASSUME NEW d \in Digits, NEW w \in WordNames
               PROVE  words'[d][w] = Packed(IF Written(d, w)' THEN text[d] ELSE old[d])[w]
    BY DEF WordsInv, WriteWord
  <2>1. CASE d = wdig /\ w = wword
    <3>1. words'[d][w] = Packed(text[d])[w]
      BY <1>1, <1>2, <2>1 DEF WriteWord
    <3>2. Written(d, w)'
      BY <1>1, <2>1 DEF Written, WriteWord, WordNames, Rank, After
    <3> QED
      BY <3>1, <3>2
  <2>2. CASE ~(d = wdig /\ w = wword)
    <3>1. words'[d][w] = words[d][w]
      BY <1>1, <1>2, <2>2 DEF WriteWord
    <3>2. Written(d, w)' = Written(d, w)
      BY <1>1, <2>2, DigitsAreNumbers DEF Written, WriteWord, WordNames, Rank, After
    <3> QED
      BY <3>1, <3>2 DEF MuxInv, WordsInv
  <2> QED
    BY <2>1, <2>2
<1>4. ShownInv'
  <2> SUFFICES ASSUME isr \in WordNames PROVE Glyphs(idig)' \subseteq shown'
    BY DEF ShownInv, WriteWord, isrVars
  <2> QED
    BY DEF WriteWord
<1> QED
  BY <1>3, <1>4

LEMMA NextMuxInv == MuxInv /\ [MuxNext]_muxVars => MuxInv'
<1> SUFFICES ASSUME MuxInv, [MuxNext]_muxVars PROVE MuxInv'
  OBVIOUS
<1> USE DigitsAreNumbers
<1>1. CASE TurnOff
  <2>1. MuxTypeOK'
    BY <1>1 DEF MuxInv, MuxTypeOK, TurnOff, sayVars
  <2>2. lit = {idig} /\ lit' = {}
    BY <1>1 DEF MuxInv, LitInv, TurnOff
  <2>3. LitInv'
    BY <1>1, <2>2 DEF TurnOff, LitInv, WordNames
  <2>4. WordsInv' /\ ShownInv' /\ SegInv'
    BY <1>1, <2>2 DEF MuxInv, WordsInv, Written, ShownInv, SegInv, TurnOff, sayVars, WordNames
  <2> QED
    BY <2>1, <2>3, <2>4 DEF MuxInv
<1>2. CASE NextDigit
  <2>1. idig' \in Digits
    BY <1>2, DigitsAssumption DEF MuxInv, MuxTypeOK, NextDigit, Digits
  <2>2. Glyphs(idig)' = Glyphs(idig') /\ shown' = Glyphs(idig)'
    BY <1>2 DEF NextDigit, Glyphs, sayVars
  <2>3. shown' \in SUBSET SUBSET Segs
    BY <1>2, <2>1, <2>2, TextsAssumption DEF MuxInv, MuxTypeOK, Glyphs, NextDigit, sayVars
  <2>4. MuxTypeOK'
    BY <1>2, <2>1, <2>3 DEF MuxInv, MuxTypeOK, NextDigit, sayVars, WordNames
  <2>5. LitInv'
    BY <1>2 DEF MuxInv, LitInv, NextDigit, WordNames
  <2>6. WordsInv'
    BY <1>2 DEF MuxInv, WordsInv, Written, NextDigit, sayVars
  <2>7. ShownInv' /\ SegInv'
    BY <1>2, <2>2, <2>5 DEF MuxInv, LitInv, ShownInv, SegInv, NextDigit, WordNames
  <2> QED
    BY <2>4, <2>5, <2>6, <2>7 DEF MuxInv
<1>3. CASE StoreWord
  <2>1. words[idig][isr] \in SUBSET Segs
    BY <1>3 DEF MuxInv, MuxTypeOK, StoreWord
  <2>2. isr' \in WordNames \cup {"on"}
    BY <1>3 DEF StoreWord, WordNames, After
  <2>3. MuxTypeOK'
    BY <1>3, <2>1, <2>2 DEF MuxInv, MuxTypeOK, StoreWord, sayVars
  <2>4. LitInv'
    BY <1>3, <2>2 DEF MuxInv, LitInv, StoreWord, WordNames
  <2>5. WordsInv' /\ ShownInv'
    BY <1>3 DEF MuxInv, WordsInv, Written, ShownInv, Glyphs, StoreWord, sayVars
  <2> QED
    BY <1>3, <2>3, <2>4, <2>5, StoreKeepsSegInv DEF MuxInv
<1>4. CASE TurnOn
  <2>1. MuxTypeOK'
    BY <1>4 DEF MuxInv, MuxTypeOK, TurnOn, sayVars
  <2>2. LitInv'
    BY <1>4 DEF MuxInv, LitInv, TurnOn, WordNames
  <2>3. WordsInv' /\ ShownInv' /\ SegInv'
    BY <1>4 DEF MuxInv, WordsInv, Written, ShownInv, SegInv, Loaded, TurnOn, sayVars, WordNames
  <2> QED
    BY <2>1, <2>2, <2>3 DEF MuxInv
<1>5. CASE Rearm
  <2>1. MuxTypeOK'
    BY <1>5 DEF MuxInv, MuxTypeOK, Rearm, sayVars
  <2>2. LitInv'
    BY <1>5 DEF MuxInv, MuxTypeOK, LitInv, Rearm, WordNames
  <2>3. WordsInv' /\ ShownInv' /\ SegInv'
    BY <1>5 DEF MuxInv, WordsInv, Written, ShownInv, SegInv, Loaded, Rearm, sayVars, WordNames
  <2> QED
    BY <2>1, <2>2, <2>3 DEF MuxInv
<1>6. CASE StartSay4
  <2>1. MuxTypeOK'
    BY <1>6, DigitsAssumption DEF MuxInv, MuxTypeOK, StartSay4, isrVars, WordNames
  <2>2. WordsInv'
    BY <1>6 DEF MuxInv, MuxTypeOK, WordsInv, Written, StartSay4, Digits, WordNames, Rank
  <2>3. Glyphs(idig)' = Glyphs(idig)
    BY <1>6 DEF MuxInv, MuxTypeOK, StartSay4, isrVars, Glyphs, Digits
  <2>4. LitInv' /\ ShownInv' /\ SegInv'
    BY <1>6, <2>3 DEF MuxInv, LitInv, ShownInv, SegInv, Cleaned, Loaded, StartSay4, isrVars
  <2> QED
    BY <2>1, <2>2, <2>4 DEF MuxInv
<1>7. CASE WriteWord
  <2>1. wdig \in Digits /\ wdig + 1 \in 0 .. NDIGITS
    BY <1>7, DigitsAssumption DEF MuxInv, MuxTypeOK, WriteWord, Digits
  <2>2. text[wdig] \in SUBSET Segs
    BY <2>1, TextsAssumption DEF MuxInv, MuxTypeOK
  <2>3. Packed(text[wdig])[wword] \in SUBSET Segs
    BY <2>2 DEF MuxInv, MuxTypeOK, Packed, WordNames, Segs
  <2>4. words' \in [Digits -> [WordNames -> SUBSET Segs]]
    BY <1>7, <2>1, <2>3 DEF MuxInv, MuxTypeOK, WriteWord
  <2>5. wdig' \in 0 .. NDIGITS /\ wword' \in WordNames
    BY <1>7, <2>1 DEF MuxInv, MuxTypeOK, WriteWord, WordNames, After
  <2>6. shown' \in SUBSET SUBSET Segs /\ shown \subseteq shown'
    BY <1>7, TextsAssumption DEF MuxInv, MuxTypeOK, WriteWord, Glyphs, isrVars
  <2>7. MuxTypeOK'
    BY <1>7, <2>4, <2>5, <2>6 DEF MuxInv, MuxTypeOK, WriteWord, isrVars
  <2>8. LitInv' /\ SegInv'
    BY <1>7, <2>6 DEF MuxInv, LitInv, SegInv, Cleaned, Loaded, WriteWord, isrVars
  <2> QED
    BY <1>7, <2>7, <2>8, WriteKeepsWordsInv DEF MuxInv
<1>8. CASE UNCHANGED muxVars
  BY <1>8 DEF muxVars, MuxInv, MuxTypeOK, LitInv, WordsInv, Written, ShownInv, Glyphs,
              SegInv, Cleaned, Loaded
<1> QED
  BY <1>1, <1>2, <1>3, <1>4, <1>5, <1>6, <1>7, <1>8
  DEF MuxNext, timer_group0_Multiplexer_isr, say4

(* The interrupt and say4, stopped between any two of their stores, keep    *)
(* the invariant (clock7seg.c:135-184, 401-424).                            *)
THEOREM MuxInvariant == MuxSpec => []MuxInv
BY InitMuxInv, NextMuxInv, PTL DEF MuxSpec

(* The display's state stays within its type.                               *)
THEOREM MuxTypeCorrect == MuxSpec => []MuxTypeOK
<1>1. MuxInv => MuxTypeOK
  BY DEF MuxInv
<1> QED
  BY <1>1, MuxInvariant, PTL

(* No two digits are ever lit together, nor a digit other than the one      *)
(* whose words the interrupt loaded (clock7seg.c:143-161).                  *)
THEOREM NeverTwoDigits == MuxSpec => []OneDigitLit
<1>1. MuxInv => OneDigitLit
  BY DEF MuxInv, LitInv, OneDigitLit
<1> QED
  BY <1>1, MuxInvariant, PTL

(* A digit lit while say4 was half-way through its words shows, segment by  *)
(* segment, its old or its new glyph (clock7seg.c:155-158, 408-421).        *)
THEOREM LitDigitShowsItsGlyph == MuxSpec => []ShowsItsGlyph
<1>1. MuxInv => ShowsItsGlyph
  BY DEF MuxInv, SegInv, Loaded, ShowsItsGlyph
<1> QED
  BY <1>1, MuxInvariant, PTL

(* Segments are driven only while every digit is off (clock7seg.c:143-161). *)
THEOREM SegmentsChangeInTheDark == MuxSpec => ChangesInTheDark
<1>1. MuxInv /\ [MuxNext]_muxVars => [seg' # seg => lit = {}]_<<seg, lit>>
  <2> SUFFICES ASSUME MuxInv, [MuxNext]_muxVars, seg' # seg PROVE lit = {}
    OBVIOUS
  <2>1. StoreWord
    BY DEF MuxNext, timer_group0_Multiplexer_isr, say4, TurnOff, NextDigit, TurnOn,
           Rearm, StartSay4, WriteWord, isrVars, muxVars
  <2> QED
    BY <2>1 DEF MuxInv, LitInv, StoreWord, WordNames
<1> QED
  BY <1>1, MuxInvariant, PTL DEF MuxSpec, ChangesInTheDark
=============================================================================
