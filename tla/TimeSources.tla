----------------------------- MODULE TimeSources -----------------------------
(***************************************************************************)
(* Which source sets the system clock, over hours: GPS, SNTP and the Date: *)
(* header of an HTTP response, joined by the age of the last definitive    *)
(* time.  The unit is the second of esp_timer_get_time()/1000000.          *)
(*                                                                         *)
(* timer_clock_task (core 1) reads tickSecondOfDefinitiveTime without a    *)
(* lock while lwIP's SNTP client (another task) sets the clock and then    *)
(* calls back to move the tick, and while the header task posts            *)
(* gHTTPtime_t.  The GPS block of the same loop is one step here; module   *)
(* PulseTime takes it apart.                                               *)
(*                                                                         *)
(* The tick is 64 bits wide and its two words are not written together.  A *)
(* torn value differs from both real ones only at the first update after   *)
(* boot; it is then far from now, as the value at boot is, so reading it   *)
(* is reading the old one.  The tick has two copies (...GPS, ...SNTP) that *)
(* are only displayed and are left out.                                    *)
(***************************************************************************)
EXTENDS Integers

CONSTANTS
  HttpAge,     \* 5*3600: a Date: header is taken when older than that
  AlarmAge,    \* 8*3600: the display alarms when older than that
  BootAge,     \* 24*3600: the age of the definitive time at boot
  Mod32, Mod64,\* the widths of int and uint64_t
  MaxUp        \* the bound on time (model checking only)

ASSUME AgesAssumption ==
  /\ HttpAge \in Nat /\ AlarmAge \in Nat /\ BootAge \in Nat /\ MaxUp \in Nat
  /\ HttpAge < AlarmAge /\ AlarmAge < BootAge
ASSUME WidthAssumption ==
  /\ Mod32 \in Nat /\ Mod64 \in Nat /\ Mod32 > 2 * (BootAge + MaxUp)
  /\ Mod32 % 2 = 0 /\ \E k \in 1 .. Mod64 : Mod64 = k * Mod32

VARIABLES
  gps,         \* the receiver, for good: "none", "prompt" or "late"
  up,          \* esp_timer_get_time()/1000000
  clock,       \* who last set the system clock, and when
  tick,        \* tickSecondOfDefinitiveTime, a uint64_t
  gHTTPtime,   \* gHTTPtime_t # 0
  asked,       \* time_from_headers_task has sent its request
  cfgClock,    \* the "clock" setting
  sntp,        \* the SNTP client: "off", "idle", or "set" before its callback
  pc, nowS,    \* timer_clock_task: progress, the time it has read
  alarm        \* the alarm decimals are in the display

vars == <<gps, up, clock, tick, gHTTPtime, asked, cfgClock, sntp, pc, nowS, alarm>>

ClockSettings == {"gps", "sntp", "open"}

\* A mistake the runs must catch: no boot age.
Init_NoBootAge ==
  /\ gps = "prompt" /\ up = 0 /\ clock = [src |-> "boot", at |-> 0]
  /\ tick = up
  /\ gHTTPtime = FALSE /\ asked = FALSE /\ cfgClock = "open" /\ sntp = "off"
  /\ pc = "show" /\ nowS = 0 /\ alarm = FALSE

\* app_main: "last init was yesterday"; obtain_time starts no SNTP for "gps".
Init ==
  /\ gps \in {"none", "prompt", "late"}
  /\ up = 0
  /\ clock = [src |-> "boot", at |-> 0]
  /\ tick = (up - BootAge) % Mod64
  /\ gHTTPtime = FALSE /\ asked = FALSE
  /\ cfgClock \in ClockSettings
  /\ sntp \in (IF cfgClock = "gps" THEN {"off"} ELSE {"off", "idle"})
  /\ pc = "show" /\ nowS = 0 /\ alarm = FALSE

\* A mistake the runs must catch: a tick of before boot taken for the future.
Since_Saturating(t) == IF tick > t THEN 0 ELSE t - tick

\* Seconds since the definitive time as the code computes them, from a
\* reading t of the timer: unsigned, and as the int they are stored in.
Since(t) == (t - tick) % Mod64
IntSince(t) == ((Since(t) + Mod32 \div 2) % Mod32) - (Mod32 \div 2)

\* The definitive time as a point in time, negative when before boot.
Definitive == IF tick <= up THEN tick ELSE tick - Mod64
-----------------------------------------------------------------------------
Second ==
  /\ up < MaxUp
  /\ up' = up + 1
  /\ UNCHANGED <<gps, clock, tick, gHTTPtime, asked, cfgClock, sntp, pc, nowS, alarm>>

\* lwIP sets the clock, then calls time_sync_notification_cb.
SntpSetsClock ==
  /\ sntp = "idle"
  /\ sntp' = "set"
  /\ clock' = [src |-> "sntp", at |-> up]
  /\ UNCHANGED <<gps, up, tick, gHTTPtime, asked, cfgClock, pc, nowS, alarm>>

time_sync_notification_cb ==
  /\ sntp = "set"
  /\ sntp' = "idle"
  /\ tick' = up
  /\ UNCHANGED <<gps, up, clock, gHTTPtime, asked, cfgClock, pc, nowS, alarm>>

\* time_from_headers_task tests the setting, and asks a web server for any page.
AskHttpTime ==
  /\ ~ asked /\ cfgClock = "open"
  /\ asked' = TRUE
  /\ UNCHANGED <<gps, up, clock, tick, gHTTPtime, cfgClock, sntp, pc, nowS, alarm>>

\* The answer comes, whatever has become of the setting:
\* _http_event_time_from_headers_handler posts its Date: header.
PostHttpTime ==
  /\ asked /\ asked' = FALSE
  /\ gHTTPtime' = TRUE
  /\ UNCHANGED <<gps, up, clock, tick, cfgClock, sntp, pc, nowS, alarm>>

\* No answer, or one without a date.
NoHttpTime ==
  /\ asked /\ asked' = FALSE
  /\ UNCHANGED <<gps, up, clock, tick, gHTTPtime, cfgClock, sntp, pc, nowS, alarm>>

\* The setup page changes the setting; SNTP stays as it was started.
SaveClockSetting ==
  /\ \E c \in ClockSettings : cfgClock' = c
  /\ UNCHANGED <<gps, up, clock, tick, gHTTPtime, asked, sntp, pc, nowS, alarm>>
-----------------------------------------------------------------------------
(* timer_clock_task.                                                       *)
ReadTimer ==
  /\ pc = "show"
  /\ pc' = "alarm"
  /\ nowS' = up
  /\ UNCHANGED <<gps, up, clock, tick, gHTTPtime, asked, cfgClock, sntp, alarm>>

\* A mistake the runs must catch: the alarm is never taken back.
ShowAlarm_Latched ==
  /\ pc = "alarm"
  /\ pc' = "pps"
  /\ alarm' = (alarm \/ Since(nowS) > AlarmAge)
  /\ UNCHANGED <<gps, up, clock, tick, gHTTPtime, asked, cfgClock, sntp, nowS>>

\* if ( secondsSinceDefinitiveTime > 8*3600 ), and say4 with the decimals.
ShowAlarm ==
  /\ pc = "alarm"
  /\ pc' = "pps"
  /\ alarm' = (Since(nowS) > AlarmAge)
  /\ UNCHANGED <<gps, up, clock, tick, gHTTPtime, asked, cfgClock, sntp, nowS>>

\* A mistake the runs must catch: the GPS sets the clock but not the tick.
PulseWithTime_NoTick ==
  /\ pc = "pps" /\ gps # "none"
  /\ pc' = "http"
  /\ clock' = [src |-> "gps", at |-> up]
  /\ UNCHANGED <<gps, up, tick, gHTTPtime, asked, cfgClock, sntp, nowS, alarm>>

\* A pulse with a time moves the tick; the time of a sentence that came late
\* is refused.
PulseWithTime ==
  /\ pc = "pps" /\ gps # "none"
  /\ pc' = "http"
  /\ \/ clock' = [src |-> "gps", at |-> up]
     \/ gps = "late" /\ UNCHANGED clock
  /\ tick' = up
  /\ UNCHANGED <<gps, up, gHTTPtime, asked, cfgClock, sntp, nowS, alarm>>

NoPulse ==
  /\ pc = "pps"
  /\ pc' = "http"
  /\ UNCHANGED <<gps, up, clock, tick, gHTTPtime, asked, cfgClock, sntp, nowS, alarm>>

\* if ( gHTTPtime_t!= 0 ) { int age = esp_timer_get_time()/1000000 - ...
TestHttp ==
  /\ pc = "http"
  /\ IF gHTTPtime THEN pc' = "age" /\ nowS' = up
                  ELSE pc' = "show" /\ UNCHANGED nowS
  /\ UNCHANGED <<gps, up, clock, tick, gHTTPtime, asked, cfgClock, sntp, alarm>>

TestAge ==
  /\ pc = "age"
  /\ pc' = IF IntSince(nowS) > HttpAge THEN "take" ELSE "drop"
  /\ UNCHANGED <<gps, up, clock, tick, gHTTPtime, asked, cfgClock, sntp, nowS, alarm>>

\* settimeofday(&t,NULL);
TakeHttp ==
  /\ pc = "take"
  /\ pc' = "drop"
  /\ clock' = [src |-> "http", at |-> up]
  /\ UNCHANGED <<gps, up, tick, gHTTPtime, asked, cfgClock, sntp, nowS, alarm>>

\* gHTTPtime_t = 0; // gone stale now, and vTaskDelay.
DropHttp ==
  /\ pc = "drop"
  /\ pc' = "show"
  /\ gHTTPtime' = FALSE
  /\ UNCHANGED <<gps, up, clock, tick, asked, cfgClock, sntp, nowS, alarm>>

timer_clock_task ==
  \/ ReadTimer \/ ShowAlarm \/ PulseWithTime \/ NoPulse
  \/ TestHttp \/ TestAge \/ TakeHttp \/ DropHttp

Environment ==
  \/ Second \/ SntpSetsClock \/ time_sync_notification_cb
  \/ AskHttpTime \/ PostHttpTime \/ NoHttpTime \/ SaveClockSetting

Next == timer_clock_task \/ Environment

Spec == Init /\ [][Next]_vars

\* The loop task never blocks for long; a header task that may ask for the time
\* asks, and is not left without an answer for ever.
FairSpec ==
  /\ Spec /\ WF_vars(timer_clock_task)
  /\ WF_vars(AskHttpTime) /\ SF_vars(PostHttpTime)
-----------------------------------------------------------------------------
(* "it has been a long time since a GPS or SNTP update", so "decide to     *)
(* take this update" (clock7seg.c:364-368): a Date: header never overrides *)
(* a time the GPS set within HttpAge; nor one that SNTP set, except when   *)
(* SNTP has called back only since the loop read the timer, or not yet.    *)
HttpYieldsToDefinitive ==
  [][pc = "take" /\ pc' = "drop" /\ clock.src \in {"gps", "sntp"} =>
       \/ up - clock.at > HttpAge
       \/ clock.src = "sntp" /\ (Definitive >= nowS \/ sntp = "set")]_vars

(* "after 8 hours, show the alarm" (clock7seg.c:239), from the first pass   *)
(* after boot on and whatever the wraps: the alarm is in the display when   *)
(* the definitive time is too old and at no other time, except for one pass *)
(* when a definitive time comes in after the timer was read for it.         *)
AlarmWhenStale ==
  [][pc = "alarm" /\ pc' = "pps" =>
       (alarm' <=> nowS - Definitive > AlarmAge \/ Definitive > nowS)]_vars

(* Unless a GPS whose sentences come late keeps moving the tick, a clock    *)
(* set to "open" that nothing has set yet is set in the end: the boot age  *)
(* lets the first header in although the device has not been up for five   *)
(* hours (clockMain.c:427, clock7seg.c:362-363).                           *)
HttpSetsUnsetClock == (<>[](cfgClock = "open" /\ gps # "late")) => <>(clock.src # "boot")

(* A definitive time clears the alarm (clock7seg.c:238-250).               *)
FreshTimeClearsAlarm ==
  (up - Definitive < AlarmAge) ~> (~alarm \/ up - Definitive > AlarmAge)
=============================================================================
