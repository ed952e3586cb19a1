------------------------------ MODULE PulseTime ------------------------------
(***************************************************************************)
(* How the clock is set from the GPS, below one second: the pulse-per-     *)
(* second interrupt, the serial task that stores the time of an RMC        *)
(* sentence, and the display loop that joins the two.                      *)
(*                                                                         *)
(* Three actors share sPPS, gGPStime_t and gGPStimeMessageReceived with no *)
(* lock: the interrupt and rx_task run on core 0, timer_clock_task on      *)
(* core 1.  Every read or write of a shared variable that another actor    *)
(* can separate from the next one is a step of its own.                    *)
(*                                                                         *)
(* Time is discrete.  One second of true time is TPS ticks; the true time  *)
(* is second sec and off ticks.  The receiver raises the pulse at off = 0  *)
(* and starts the sentence of second sec MinOffset to MaxOffset ticks      *)
(* later.  esp_timer_get_time() counts the same ticks (its unknown origin  *)
(* cancels in every use), so Now stands for it as well.                    *)
(*                                                                         *)
(* What a sentence says need not be true: after a cold start the receiver  *)
(* is two seconds ahead for minutes (clockGps.c:37-43), and gpsparse looks *)
(* neither at the sentence's status nor at its checksum.  The sentence of  *)
(* second s names second s + b, where b is any member of Offsets.          *)
(***************************************************************************)
EXTENDS Integers

CONSTANTS
  TPS,        \* ticks in a second: 1000000 microseconds in the code
  HalfTPS,    \* the lower end of the window an age must fall in: 500000
  MinOffset,  \* a sentence starts at least that long after its pulse,
  MaxOffset,  \* and at most that long
  LoopTime,   \* most ticks one pass of the display loop takes
  Tol,        \* the clock is left alone when it is off by no more: 10 ms
  IntMod,     \* 2^32 ms: what abs() sees is the difference cut to an int
  Errors,     \* the errors the clock may have before the GPS is heard
  Offsets,    \* the seconds a sentence may be off by
  MaxSec      \* the bound on time (model checking only)

ASSUME TimesAssumption ==
  /\ TPS \in Nat /\ HalfTPS \in Nat /\ LoopTime \in Nat
  /\ MinOffset \in Nat /\ MaxOffset \in Nat
  /\ Tol \in Nat /\ MaxSec \in Nat
  /\ Errors \subseteq Int
  /\ HalfTPS < TPS

\* A sentence may be right.
ASSUME OffsetsAssumption == Offsets \subseteq Int /\ 0 \in Offsets

ASSUME IntModAssumption == IntMod \in Nat /\ IntMod > 0 /\ IntMod % 2 = 0

\* A sentence starts before the next pulse.
ASSUME ScheduleAssumption == MinOffset <= MaxOffset /\ MaxOffset < TPS

(* The loop is done with a pulse before the sentence of the same second    *)
(* starts.  The code relies on it and says so nowhere: a pass is about ten *)
(* milliseconds (vTaskDelay(1) and the printf's), the receiver's first     *)
(* sentence comes 50 to 300 milliseconds after the pulse.  It is a         *)
(* hypothesis of the results below, not of the module.                     *)
Prompt == 2 * LoopTime < MinOffset

VARIABLES
  sec, off,                 \* true time
  ppsHigh,                  \* the level of the pulse line
  error,                    \* system clock minus true time, in ticks
  sPPS,                     \* 2 when a pulse has come, then counted down
  gGPStime_t,               \* second the last sentence named, 0 = none
  gGPStimeMessageReceived,  \* when that sentence's '$' was read
  rx, messageStart, msgSec, \* rx_task: progress, sentence start and content
  pc, tmp, lag,             \* the loop: progress, sPPS as loaded, ticks used
  tickDefinitive,           \* tickSecondOfDefinitiveTime
  saidSec, saidBy,          \* history: the second in which gpsparse last stored
                            \* a time, and the seconds that time was off by
  owed                      \* history: the second of the last pulse that must
                            \* set the clock, 0 = none

vars == <<sec, off, ppsHigh, error, sPPS, gGPStime_t, gGPStimeMessageReceived,
          rx, messageStart, msgSec, pc, tmp, lag, tickDefinitive,
          saidSec, saidBy, owed>>
clockVars == <<sec, off, ppsHigh>>
history   == <<saidSec, saidBy, owed>>
rxVars    == <<rx, messageStart, msgSec>>
loopVars  == <<pc, tmp, lag>>

Now == sec * TPS + off        \* esp_timer_get_time()

cPPSSET == 2
LoopPoints == {"top", "age", "add", "set", "clear", "mark", "load", "store", "rest"}

Init ==
  /\ sec = 1 /\ off = 0 /\ ppsHigh = FALSE
  /\ error \in Errors
  /\ sPPS = 0 /\ gGPStime_t = 0 /\ gGPStimeMessageReceived = 0
  /\ rx = "hunt" /\ messageStart = 0 /\ msgSec = 0
  /\ pc = "top" /\ tmp = 0 /\ lag = 0
  /\ tickDefinitive = 0
  /\ saidSec = 0 /\ saidBy = 0 /\ owed = 0
-----------------------------------------------------------------------------
(* The passage of time.  rx_task has the highest priority, so its two      *)
(* adjacent assignments take no time; a pass of the loop takes at most     *)
(* LoopTime.                                                               *)
Tick ==
  /\ rx # "stamp"
  /\ lag < LoopTime
  /\ lag' = lag + 1
  /\ \/ /\ off + 1 < TPS
        /\ off' = off + 1 /\ UNCHANGED sec
     \/ /\ off + 1 = TPS /\ sec < MaxSec
        /\ off' = 0 /\ sec' = sec + 1
  /\ ppsHigh' = FALSE
  /\ UNCHANGED <<error, sPPS, gGPStime_t, gGPStimeMessageReceived, rxVars,
                 pc, tmp, tickDefinitive, history>>

(* A whole sentence that named the last second truly is waiting for its    *)
(* pulse, fresh enough to pass the age check when the loop gets to it.     *)
Fresh ==
  /\ gGPStime_t # 0 /\ gGPStime_t = sec - 1
  /\ rx = "hunt"
  /\ HalfTPS < Now - gGPStimeMessageReceived
  /\ Now - gGPStimeMessageReceived < TPS - 2 * LoopTime

(* The pulse: gpio_pps_handler.  A receiver without a fix gives none.      *)
gpio_pps_handler ==
  /\ off = 0 /\ ~ppsHigh
  /\ ppsHigh' = TRUE
  /\ sPPS' = cPPSSET
  /\ owed' = IF Fresh /\ pc \notin {"load", "store"} THEN sec ELSE owed
  /\ UNCHANGED <<sec, off, error, gGPStime_t, gGPStimeMessageReceived, rxVars,
                 loopVars, tickDefinitive, saidSec, saidBy>>
-----------------------------------------------------------------------------
(* rx_task.  '$' starts a sentence; the comma after its date completes it, *)
(* any time later in the same second; noise or the next '$' may end it     *)
(* before that.                                                            *)
RxStart ==
  /\ rx = "hunt"
  /\ msgSec < sec
  /\ off \in MinOffset .. MaxOffset
  /\ rx' = "line" /\ messageStart' = Now /\ msgSec' = sec
  /\ UNCHANGED <<clockVars, error, sPPS, gGPStime_t, gGPStimeMessageReceived,
                 loopVars, tickDefinitive, history>>

RxLost ==
  /\ rx = "line"
  /\ rx' = "hunt"
  /\ UNCHANGED <<clockVars, error, sPPS, gGPStime_t, gGPStimeMessageReceived,
                 messageStart, msgSec, loopVars, tickDefinitive, history>>

\* gGPStime_t = mktime(&gGPStimeinfo) - _timezone;
RxTime ==
  /\ rx = "line" /\ msgSec = sec
  /\ rx' = "stamp"
  /\ \E b \in Offsets : gGPStime_t' = msgSec + b /\ saidBy' = b
  /\ saidSec' = msgSec
  /\ UNCHANGED <<clockVars, error, sPPS, gGPStimeMessageReceived, messageStart,
                 msgSec, loopVars, tickDefinitive, owed>>

\* gGPStimeMessageReceived = messageStart;
RxStamp ==
  /\ rx = "stamp"
  /\ rx' = "hunt"
  /\ gGPStimeMessageReceived' = messageStart
  /\ UNCHANGED <<clockVars, error, sPPS, gGPStime_t, messageStart, msgSec,
                 loopVars, tickDefinitive, history>>
-----------------------------------------------------------------------------
(* timer_clock_task.                                                       *)

\* A mistake the runs must catch: counting down without looking first.
TestPulse_CountAlways ==
  /\ pc = "top"
  /\ pc' = IF sPPS = cPPSSET /\ gGPStime_t # 0 THEN "age" ELSE "load"
  /\ UNCHANGED <<clockVars, error, sPPS, gGPStime_t, gGPStimeMessageReceived,
                 rxVars, tmp, lag, tickDefinitive, history>>

\* if(sPPS>0){ if (sPPS == cPPSSET && gGPStime_t != 0){
TestPulse ==
  /\ pc = "top"
  /\ pc' = IF sPPS = 0 THEN "rest"
           ELSE IF sPPS = cPPSSET /\ gGPStime_t # 0 THEN "age" ELSE "load"
  /\ UNCHANGED <<clockVars, error, sPPS, gGPStime_t, gGPStimeMessageReceived,
                 rxVars, tmp, lag, tickDefinitive, history>>

\* A mistake the runs must catch: the upper end of the window forgotten.
AgeOk_NoUpper(age) == HalfTPS < age

\* (500000 < ageOfMessage) && (ageOfMessage < 1000000)
AgeOk(age) == HalfTPS < age /\ age < TPS

\* The 64-bit stamp is two words: read while rx_task writes it, the age can
\* be off by 2^32 microseconds, which no window accepts.
CheckAge ==
  /\ pc = "age"
  /\ \/ pc' = IF AgeOk(Now - gGPStimeMessageReceived) THEN "add" ELSE "clear"
     \/ rx = "stamp" /\ pc' = "clear"
  /\ UNCHANGED <<clockVars, error, sPPS, gGPStime_t, gGPStimeMessageReceived,
                 rxVars, tmp, lag, tickDefinitive, history>>

\* A mistake the runs must catch: setting the second of the last pulse.
AddSecond_Forgotten ==
  /\ pc = "add"
  /\ pc' = "set"
  /\ UNCHANGED <<clockVars, error, sPPS, gGPStime_t, gGPStimeMessageReceived,
                 rxVars, tmp, lag, tickDefinitive, history>>

\* gGPStime_t += seconds;
AddSecond ==
  /\ pc = "add"
  /\ pc' = "set"
  /\ gGPStime_t' = gGPStime_t + 1
  /\ UNCHANGED <<clockVars, error, sPPS, gGPStimeMessageReceived, rxVars, tmp,
                 lag, tickDefinitive, history>>

\* A long long passed to abs() keeps its low 32 bits; abs(INT_MIN) < 0.
Int32(n) == ((n + IntMod \div 2) % IntMod) - (IntMod \div 2)
\* A mistake the runs must catch: no abs(), a fast clock is left alone.
MoreThan10ms_OneSided(diff) == Int32(diff) > Tol
MoreThan10ms(diff) ==
  LET d == Int32(diff) IN d > Tol \/ (d < -Tol /\ d # -(IntMod \div 2))

(* The errors a clock may come to have: the first one, and those that the  *)
(* receiver's own leave behind.                                            *)
KnownErrors ==
  Errors \cup {b * TPS + d : b \in Offsets, d \in -(2 * LoopTime) .. 0}

(* No clock is ever wrong by so nearly a multiple of 2^32 ms, 49 days, that *)
(* abs() takes it for right.  A hypothesis as well.                        *)
Noticed ==
  \A e \in KnownErrors, ahead \in -(2 * LoopTime) .. 0 :
    (-(2 * LoopTime + Tol) <= e /\ e <= Tol) \/ MoreThan10ms(ahead - e)

\* The time to set is gGPStime_t, read again; the clock shows Now + error.
SetClock ==
  /\ pc = "set"
  /\ pc' = "clear"
  /\ LET ahead == gGPStime_t * TPS - Now
     IN  error' = IF MoreThan10ms(ahead - error) THEN ahead ELSE error
  /\ UNCHANGED <<clockVars, sPPS, gGPStime_t, gGPStimeMessageReceived, rxVars,
                 tmp, lag, tickDefinitive, history>>

\* gGPStime_t = 0;
ClearTime ==
  /\ pc = "clear"
  /\ pc' = "mark"
  /\ gGPStime_t' = 0
  /\ UNCHANGED <<clockVars, error, sPPS, gGPStimeMessageReceived, rxVars, tmp,
                 lag, tickDefinitive, history>>

\* sClockState.tickSecondOfDefinitiveTime = esp_timer_get_time()/1000000;
MarkDefinitive ==
  /\ pc = "mark"
  /\ pc' = "load"
  /\ tickDefinitive' = sec
  /\ UNCHANGED <<clockVars, error, sPPS, gGPStime_t, gGPStimeMessageReceived,
                 rxVars, tmp, lag, history>>

\* sPPS-=1 is a load and a store; a pulse between the two is lost.
LoadPPS ==
  /\ pc = "load"
  /\ pc' = "store"
  /\ tmp' = sPPS
  /\ UNCHANGED <<clockVars, error, sPPS, gGPStime_t, gGPStimeMessageReceived,
                 rxVars, lag, tickDefinitive, history>>

StorePPS ==
  /\ pc = "store"
  /\ pc' = "rest"
  /\ sPPS' = tmp - 1
  /\ UNCHANGED <<clockVars, error, gGPStime_t, gGPStimeMessageReceived, rxVars,
                 tmp, lag, tickDefinitive, history>>

\* The HTTP block (module TimeSources), vTaskDelay(1) and the next pass's
\* display and brightness work: nothing this module's state depends on.
Rest ==
  /\ pc = "rest"
  /\ pc' = "top"
  /\ lag' = 0
  /\ UNCHANGED <<clockVars, error, sPPS, gGPStime_t, gGPStimeMessageReceived,
                 rxVars, tmp, tickDefinitive, history>>

rx_task == RxStart \/ RxLost \/ RxTime \/ RxStamp

timer_clock_task ==
  \/ TestPulse \/ CheckAge \/ AddSecond \/ SetClock \/ ClearTime
  \/ MarkDefinitive \/ LoadPPS \/ StorePPS \/ Rest

Next == Tick \/ gpio_pps_handler \/ rx_task \/ timer_clock_task

Spec == Init /\ [][Next]_vars
-----------------------------------------------------------------------------
TypeOK ==
  /\ sec \in Nat /\ off \in 0 .. TPS - 1 /\ ppsHigh \in BOOLEAN
  /\ error \in Int
  /\ sPPS \in 0 .. cPPSSET
  /\ gGPStime_t \in Int /\ gGPStimeMessageReceived \in Nat
  /\ rx \in {"hunt", "line", "stamp"} /\ messageStart \in Nat /\ msgSec \in Nat
  /\ pc \in LoopPoints /\ tmp \in 0 .. cPPSSET /\ lag \in 0 .. LoopTime
  /\ tickDefinitive \in Nat
  /\ saidSec \in Nat /\ saidBy \in Offsets

(* In a prompt loop, the time about to be set is one second after what the *)
(* receiver said in the very last second: never an older sentence's time,  *)
(* one half read or one counted on twice, whatever pulses and sentences    *)
(* were lost, late or read in the middle of being written.  It is the      *)
(* second that has just begun if that sentence was right                   *)
(* (clock7seg.c:325-346).                                                  *)
UsedTimeIsTheReceivers ==
  pc = "set" => saidSec = sec - 1 /\ gGPStime_t = sec + saidBy

\* Within the handling delay of the loop (and the tolerance), the clock is right.
Right(e) == -(2 * LoopTime + Tol) <= e /\ e <= Tol

(* In a prompt loop, whenever the GPS changes the clock, the clock is then  *)
(* off by what the receiver was off by, and by nothing else: a clock that  *)
(* is right is spoilt only by a sentence that was itself wrong             *)
(* (clock7seg.c:345-346, clockGps.c:330-342).                              *)
ClockFollowsReceiver == [][Right(error' - saidBy * TPS)]_error

(* A pulse that finds a whole, fresh sentence waiting has set the clock by *)
(* the time the loop has had two passes, unless the interrupt hit the loop *)
(* inside sPPS-=1 (clock7seg.c:314-359, clockMain.c:102).                  *)
FreshPulseSetsClock ==
  owed = sec /\ off > 2 * LoopTime => Right(error)
=============================================================================
