--------------------------- MODULE TimeSourcesProof ---------------------------
(***************************************************************************)
(* For every boot age, alarm age and uptime that the widths leave room for:*)
(* which source may take the clock from which, and when the alarm shows.   *)
(*                                                                         *)
(* The tick is at the boot age or has been moved to a time since boot; all *)
(* else follows from what the loop knew of it when it decided, and from who*)
(* may have moved it since.                                                *)
(***************************************************************************)
EXTENDS TimeSources, TLAPS

TypeOK ==
  /\ gps \in {"none", "prompt", "late"} /\ up \in 0 .. MaxUp
  /\ clock \in [src : {"boot", "gps", "sntp", "http"}, at : 0 .. MaxUp] /\ clock.at <= up
  /\ cfgClock \in ClockSettings /\ sntp \in {"off", "idle", "set"}
  /\ pc \in {"show", "alarm", "pps", "http", "age", "take", "drop"} /\ nowS \in 0 .. up

\* The definitive time is that of the boot age or since boot.
TickInv == tick \in 0 .. up \cup {Mod64 - BootAge}

\* A definitive source has moved the tick, or is on the way to it.
SourceInv ==
  clock.src = "gps" \/ (clock.src = "sntp" /\ sntp # "set") => tick \in clock.at .. up

\* What the loop has decided on still stands, unless SNTP has been heard since.
TakeInv ==
  pc = "take" =>
    /\ clock.src = "gps" => up - clock.at > HttpAge
    /\ clock.src = "sntp" =>
         up - clock.at > HttpAge \/ sntp = "set" \/ tick \in nowS .. up

IInv == TypeOK /\ TickInv /\ SourceInv /\ TakeInv
-----------------------------------------------------------------------------
LEMMA Remainder ==
  ASSUME NEW m \in Nat \ {0}, NEW q \in Int, NEW r \in 0 .. m - 1
  PROVE  (q * m + r) % m = r
OBVIOUS

\* The widths leave room for every age.
LEMMA Widths ==
  /\ HttpAge \in Nat /\ AlarmAge \in Nat /\ BootAge \in Nat /\ MaxUp \in Nat
  /\ AlarmAge < BootAge /\ HttpAge < AlarmAge
  /\ Mod32 \in Nat \ {0} /\ Mod64 \in Nat \ {0} /\ Mod64 >= Mod32
  /\ Mod32 \div 2 \in Nat /\ Mod32 = 2 * (Mod32 \div 2) /\ BootAge + MaxUp < Mod32 \div 2
<1>1. PICK k \in 1 .. Mod64 : Mod64 = k * Mod32
  BY WidthAssumption
<1>2. Mod32 \in Nat \ {0} /\ Mod64 \in Nat
  BY AgesAssumption, WidthAssumption
<1>3. k * Mod32 >= Mod32
  <2>1. k - 1 \in Nat /\ k * Mod32 = Mod32 + (k - 1) * Mod32
    BY <1>2
  <2>2. (k - 1) * Mod32 \in Nat
    BY <1>2, <2>1
  <2> QED BY <1>2, <2>1, <2>2
<1>4. Mod32 \div 2 \in Nat /\ Mod32 = 2 * (Mod32 \div 2)
  BY <1>2, WidthAssumption
<1> QED BY <1>1, <1>2, <1>3, <1>4, AgesAssumption, WidthAssumption

\* The age as it is, which the unsigned difference wraps when it is negative.
LEMMA Ages ==
  ASSUME TickInv, up \in 0 .. MaxUp, NEW t \in 0 .. up
  PROVE  /\ Definitive = IF tick = Mod64 - BootAge THEN -BootAge ELSE tick
         /\ t - Definitive \in -MaxUp .. MaxUp + BootAge
         /\ Since(t) = IF t >= Definitive THEN t - Definitive ELSE t - Definitive + Mod64
<1>1. Definitive = IF tick = Mod64 - BootAge THEN -BootAge ELSE tick
  BY Widths DEF TickInv, Definitive
<1>2. t - Definitive \in -MaxUp .. MaxUp + BootAge
  BY <1>1, Widths DEF TickInv
<1>3. CASE tick = Mod64 - BootAge
  <2>1. t - tick = -1 * Mod64 + (t + BootAge) /\ t + BootAge \in 0 .. Mod64 - 1 /\ Mod64 \in Nat \ {0}
    BY <1>3, Widths
  <2>2. Since(t) = t + BootAge
    BY <2>1, Remainder DEF Since
  <2> QED BY <1>1, <1>2, <1>3, <2>2, Widths
<1>4. CASE tick # Mod64 - BootAge /\ t >= tick
  <2>1. t - tick = 0 * Mod64 + (t - tick) /\ t - tick \in 0 .. Mod64 - 1 /\ Mod64 \in Nat \ {0}
    BY <1>4, Widths DEF TickInv
  <2>2. Since(t) = t - tick
    BY <2>1, Remainder DEF Since
  <2> QED BY <1>1, <1>2, <1>4, <2>2
<1>5. CASE tick # Mod64 - BootAge /\ ~ (t >= tick)
  <2>1. /\ t - tick = -1 * Mod64 + (t - tick + Mod64) /\ t - tick + Mod64 \in 0 .. Mod64 - 1
        /\ Mod64 \in Nat \ {0}
    BY <1>5, Widths DEF TickInv
  <2>2. Since(t) = t - tick + Mod64
    BY <2>1, Remainder DEF Since
  <2> QED BY <1>1, <1>2, <1>5, <2>2
<1> QED BY <1>1, <1>2, <1>3, <1>4, <1>5

\* Cut to an int, it is the age again.
LEMMA IntAges ==
  ASSUME TickInv, up \in 0 .. MaxUp, NEW t \in 0 .. up
  PROVE  IntSince(t) = t - Definitive
<1> DEFINE n == t - Definitive
           half == Mod32 \div 2
<1>1. n \in -MaxUp .. MaxUp + BootAge /\ Since(t) \in {n, n + Mod64}
  BY Ages, Widths
<1>2. PICK k \in 1 .. Mod64 : Mod64 = k * Mod32
  BY WidthAssumption
<1>3. /\ half \in Nat /\ Mod32 = 2 * half /\ BootAge + MaxUp < half /\ Mod32 \in Nat \ {0}
      /\ MaxUp \in Nat /\ BootAge \in Nat /\ Mod64 \in Nat
  BY Widths
<1>4. IntSince(t) = ((Since(t) + half) % Mod32) - half
  BY DEF IntSince
<1> HIDE DEF n, half
<1>5. n \in Int /\ n + half \in 0 .. Mod32 - 1
  BY <1>1, <1>3
<1>6. CASE Since(t) = n
  <2>1. Since(t) + half = 0 * Mod32 + (n + half)
    BY <1>3, <1>5, <1>6
  <2>2. (Since(t) + half) % Mod32 = n + half
    BY <1>3, <1>5, <2>1, Remainder
  <2> QED BY <1>3, <1>4, <1>5, <2>2 DEF n
<1>7. CASE Since(t) = n + Mod64
  <2>1. Since(t) + half = k * Mod32 + (n + half)
    BY <1>2, <1>3, <1>5, <1>7
  <2>2. (k * Mod32 + (n + half)) % Mod32 = n + half
    BY <1>3, <1>5, Remainder
  <2>3. (Since(t) + half) % Mod32 = n + half
    BY <2>1, <2>2, Zenon
  <2> QED BY <1>3, <1>4, <1>5, <2>3 DEF n
<1> QED BY <1>1, <1>6, <1>7
-----------------------------------------------------------------------------
LEMMA Starts == Init => IInv
<1> SUFFICES ASSUME Init PROVE IInv
  OBVIOUS
<1>1. tick = Mod64 - BootAge
  <2>1. 0 - BootAge = -1 * Mod64 + (Mod64 - BootAge) /\ Mod64 - BootAge \in 0 .. Mod64 - 1
    BY Widths
  <2>2. (0 - BootAge) % Mod64 = Mod64 - BootAge
    BY <2>1, Remainder, Widths
  <2> QED BY <2>2 DEF Init
<1> QED
  BY <1>1, Widths DEF Init, IInv, TypeOK, TickInv, SourceInv, TakeInv, ClockSettings

LEMMA Stands == IInv /\ [Next]_vars => IInv'
<1> SUFFICES ASSUME IInv, [Next]_vars PROVE IInv'
  OBVIOUS
<1> USE DEF IInv, TypeOK, TickInv, SourceInv, TakeInv, ClockSettings
<1>1. CASE Second
  BY <1>1, Widths DEF Second
<1>2. CASE SntpSetsClock
  BY <1>2, Widths DEF SntpSetsClock
<1>3. CASE time_sync_notification_cb
  BY <1>3, Widths DEF time_sync_notification_cb
<1>4. CASE AskHttpTime \/ PostHttpTime \/ NoHttpTime \/ SaveClockSetting \/ NoPulse
  BY <1>4, Widths DEF AskHttpTime, PostHttpTime, NoHttpTime, SaveClockSetting, NoPulse
<1>5. CASE ReadTimer \/ ShowAlarm \/ DropHttp \/ TestHttp
  BY <1>5, Widths DEF ReadTimer, ShowAlarm, DropHttp, TestHttp
<1>6. CASE PulseWithTime
  BY <1>6, Widths DEF PulseWithTime
<1>7. CASE TestAge
  BY <1>7, Widths, IntAges, Ages DEF TestAge
<1>8. CASE TakeHttp
  BY <1>8, Widths DEF TakeHttp
<1>9. CASE UNCHANGED vars
  BY <1>9 DEF vars
<1> QED
  BY <1>1, <1>2, <1>3, <1>4, <1>5, <1>6, <1>7, <1>8, <1>9 DEF Next, timer_clock_task, Environment

(* Where the tick may be, and what may have moved it while the loop was    *)
(* deciding, for every uptime (clock7seg.c:354, 360-374, clockMain.c:427). *)
THEOREM InductiveInvariant == Spec => []IInv
BY Starts, Stands, PTL DEF Spec

(* A Date: header never takes the clock from the GPS within HttpAge, nor   *)
(* from SNTP unless that was heard after the loop had read the timer       *)
(* (clock7seg.c:364-368).                                                  *)
THEOREM HttpYields == Spec => HttpYieldsToDefinitive
<1>1. IInv /\ [Next]_vars =>
        [pc = "take" /\ pc' = "drop" /\ clock.src \in {"gps", "sntp"} =>
           \/ up - clock.at > HttpAge
           \/ clock.src = "sntp" /\ (Definitive >= nowS \/ sntp = "set")]_vars
  <2> SUFFICES ASSUME IInv, pc = "take", clock.src \in {"gps", "sntp"}
               PROVE  \/ up - clock.at > HttpAge
                      \/ clock.src = "sntp" /\ (Definitive >= nowS \/ sntp = "set")
    OBVIOUS
  <2>1. tick \in nowS .. up => Definitive >= nowS
    BY DEF Definitive, IInv, TypeOK
  <2> QED BY <2>1 DEF IInv, TakeInv
<1> QED BY <1>1, InductiveInvariant, PTL DEF Spec, HttpYieldsToDefinitive

(* The alarm is in the display when the definitive time is too old, however*)
(* the unsigned difference wraps, and otherwise only when a definitive time*)
(* came in after the timer was read (clock7seg.c:239).                     *)
THEOREM AlarmIsRight == Spec => AlarmWhenStale
<1>1. IInv /\ [Next]_vars =>
        [pc = "alarm" /\ pc' = "pps" =>
           (alarm' <=> nowS - Definitive > AlarmAge \/ Definitive > nowS)]_vars
  <2> SUFFICES ASSUME IInv, Next, pc = "alarm", pc' = "pps"
               PROVE  alarm' <=> nowS - Definitive > AlarmAge \/ Definitive > nowS
    OBVIOUS
  <2>1. alarm' = (Since(nowS) > AlarmAge)
    BY DEF Next, timer_clock_task, Environment, ReadTimer, ShowAlarm, PulseWithTime, NoPulse, TestHttp,
       TestAge, TakeHttp, DropHttp, Second, SntpSetsClock, time_sync_notification_cb, AskHttpTime,
       PostHttpTime, NoHttpTime, SaveClockSetting
  <2>2. /\ nowS - Definitive \in -MaxUp .. MaxUp + BootAge
        /\ Since(nowS) = IF nowS >= Definitive THEN nowS - Definitive ELSE nowS - Definitive + Mod64
    BY Ages DEF IInv, TypeOK
  <2>3. Definitive \in Int /\ nowS \in Int
    BY Widths DEF Definitive, IInv, TypeOK, TickInv
  <2>4. Since(nowS) > AlarmAge <=> nowS - Definitive > AlarmAge \/ Definitive > nowS
    BY <2>2, <2>3, Widths
  <2> QED BY <2>1, <2>4, Zenon
<1> QED BY <1>1, InductiveInvariant, PTL DEF Spec, AlarmWhenStale
=============================================================================
