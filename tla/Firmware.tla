------------------------------ MODULE Firmware -------------------------------
(***************************************************************************)
(* The two application partitions, the boot loader that chooses one of     *)
(* them (external), and app_main from its first line to the last, which    *)
(* marks a new image as valid.  partitions_timezone.csv has no factory     *)
(* image to fall back on.  A slot holds an image, or what an upload that   *)
(* was not finished has left of one.                                       *)
(***************************************************************************)
EXTENDS Integers, Sequences, FiniteSets

CONSTANTS
  Images,     \* executables, whole
  Working,    \* those with which app_main reaches its end
  Rest,       \* a slot that is erased, or holds a part of an image
  MaxResets   \* bound on power failures and restarts

ASSUME WorkingAssumption == Working \subseteq Images /\ Rest \notin Images
ASSUME ResetsAssumption == MaxResets \in Nat

VARIABLES
  slots,     \* ota_0 and ota_1
  otadata,   \* the state of each slot's entry
  first,     \* the slot of the entry with the higher sequence number
  running,   \* the slot the code runs from
  stage,     \* where app_main is; "off" before the boot loader has run
  otaState,  \* app_main's variable
  resets

fwVars == <<slots, otadata, first, running, stage, otaState, resets>>

Slots == {0, 1}
Other(s) == 1 - s
States == {"undefined", "new", "pending", "valid", "aborted"}

\* app_main's stages, in their order.
Stages == {"off", "timezoneInit", "ota_state", "spiffs", "settings", "devices", "network",
           "server", "connect", "sntp", "clock", "mark_valid", "done"}

\* A clock as it leaves the programmer: one image, and entries never written.
FwInit ==
  /\ \E image \in Working : slots = [s \in Slots |-> IF s = 0 THEN image ELSE Rest]
  /\ otadata = [s \in Slots |-> "undefined"] /\ first = 0
  /\ running = 0 /\ stage = "off" /\ otaState = "undefined" /\ resets = 0
-----------------------------------------------------------------------------
\* The boot loader: an image that was on trial is given up, a new one goes on trial,
\* and one that is not whole is passed over.
Judged(s) == IF otadata[s] = "pending" THEN "aborted" ELSE otadata[s]
Chosen == IF Judged(first) # "aborted" THEN first ELSE Other(first)

BootLoader ==
  /\ stage = "off" /\ stage' = "timezoneInit"
  /\ otadata' = [s \in Slots |-> IF s = Chosen /\ Judged(s) = "new" THEN "pending" ELSE Judged(s)]
  /\ running' = IF slots[Chosen] \in Images THEN Chosen ELSE Other(Chosen)
  /\ slots[running'] \in Images
  /\ UNCHANGED <<slots, first, otaState, resets>>

\* A stage of app_main is done.
Reach(from, to) == stage = from /\ stage' = to

\* A mistake the runs must catch: an image on trial is marked valid by the stage that
\* reads its state.
ReadOtaState_MarkEarly ==
  /\ Reach("ota_state", "spiffs") /\ otaState' = otadata[running]
  /\ otadata' = [otadata EXCEPT ![running] = IF @ = "pending" THEN "valid" ELSE @]
  /\ UNCHANGED <<slots, first, running, resets>>

\* The ADC, the task that looks for a magnet, half a second; then the state of the
\* running image: without an entry the call fails, and otaState is what was on the stack.
ReadOtaState ==
  /\ Reach("ota_state", "spiffs")
  /\ IF otadata[running] = "undefined"
       THEN otaState' \in States ELSE otaState' = otadata[running]
  /\ UNCHANGED <<slots, otadata, first, running, resets>>

\* The other stages leave the firmware as it is.
Stage(from, to) ==
  Reach(from, to) /\ UNCHANGED <<slots, otadata, first, running, otaState, resets>>

\* The files are mounted, never formatted; without them app_main aborts.
init_spiffs == Stage("spiffs", "settings")

\* nvs_flash_init, the defaults, loadNVSparms, the first TZ.
LoadSettings == Stage("settings", "devices")

\* uart_init, rx_task, the pulse's interrupt, the display's pins, seg7_task.
StartDevices == Stage("devices", "network")

\* esp_netif_init and the event loop.
StartNetwork == Stage("network", "server")

\* httpd_start and the three handlers, each of them run by the server's one task.
start_file_server == Stage("server", "connect")

\* my_connect, which gives up waiting for an address.
Connect == Stage("connect", "sntp")

\* Only with WiFi on; ten looks for the time at most.
obtain_time == Stage("sntp", "clock")

\* The rest of a magnet's ten seconds, timer_clock_task, the receiver and the sensor.
StartClock == Stage("clock", "mark_valid")

\* esp_ota_mark_app_valid_cancel_rollback, "a lot of stuff just worked".
MarkValid ==
  /\ Reach("mark_valid", "done") /\ slots[running] \in Working
  /\ IF otaState = "pending" /\ otadata[running] # "undefined"
       THEN otadata' = [otadata EXCEPT ![running] = "valid"]
       ELSE UNCHANGED otadata
  /\ UNCHANGED <<slots, first, running, otaState, resets>>

app_main ==
  \/ ReadOtaState \/ init_spiffs \/ LoadSettings \/ StartDevices \/ StartNetwork
  \/ start_file_server \/ Connect \/ obtain_time \/ StartClock \/ MarkValid
-----------------------------------------------------------------------------
\* An image that does not work aborts somewhere in app_main, or hangs until somebody
\* switches it off.
Crash ==
  /\ stage \notin {"off", "done"} /\ slots[running] \notin Working
  /\ stage' = "off"
  /\ UNCHANGED <<slots, otadata, first, running, otaState, resets>>

\* The power fails, or the page, the magnet or an ESP_ERROR_CHECK restarts the clock.
Reset ==
  /\ stage # "off" /\ resets < MaxResets /\ resets' = resets + 1
  /\ stage' = "off"
  /\ UNCHANGED <<slots, otadata, first, running, otaState>>
-----------------------------------------------------------------------------
\* What the upload handler calls, in running code.

\* esp_ota_begin refuses while the running image is on trial; the slot that is not
\* running is erased.
esp_ota_begin_fails == otadata[running] = "pending"
EraseSlot == slots' = [slots EXCEPT ![Other(running)] = Rest]

\* esp_ota_end has found the image whole.
WriteSlot(image) == slots' = [slots EXCEPT ![Other(running)] = image]

\* If its entry cannot be written, the boot loader goes by the entries there were.
esp_ota_set_boot_partition_fails == UNCHANGED <<otadata, first>>
esp_ota_set_boot_partition ==
  /\ otadata' = [otadata EXCEPT ![Other(running)] = "new"] /\ first' = Other(running)
=============================================================================
