----------------------------- MODULE ConfigStore -----------------------------
(***************************************************************************)
(* The settings: a default, a working copy in RAM and an override in       *)
(* flash (NVS) for each key.  app_main loads them at boot; the HTTP        *)
(* server's task saves or resets them key by key in the order of           *)
(* formDatas; a magnet waved in the first ten seconds erases every         *)
(* override from a task on the other core.  Power may fail at any step.    *)
(*                                                                         *)
(* NVS takes effect call by call: nvs_set_str and nvs_erase_key write the  *)
(* flash before they return, and nvs_commit has nothing left to do.        *)
(***************************************************************************)
EXTENDS Integers

CONSTANTS
  NKeys,       \* the length of formDatas
  Values,      \* the texts a setting can have
  Default,     \* (*fdata->currentValue)[1], by key
  Hidden,      \* "~", what the form sends for a password left alone
  Absent       \* the query does not have the key; NVS does not have it

Keys == 1 .. NKeys

ASSUME KeysAssumption == NKeys \in Nat \ {0}
ASSUME ValuesAssumption ==
  /\ Default \in [Keys -> Values]
  /\ Hidden \notin Values /\ Absent \notin Values /\ Hidden # Absent

Forms == [Keys -> Values \cup {Hidden, Absent}]

VARIABLES
  nvs,         \* the overrides in flash
  cfg,         \* (*fdata->currentValue)[0]
  main,        \* app_main: "start" (NVS not initialised), "load", "run"
  lk,          \* the key loadNVSparms is at
  cmd,         \* the request the server is at: "idle", "save", "reset"
  form, wk,    \* its query, the key it is at
  stored,      \* the RAM copy of key wk is changed, the flash not yet
  mag, mk,     \* the magnet's task: "watch", "check", "erase", "restart", "gone"
  expected,    \* history: the values a key may have after a restart
  disturbed    \* history: something else wrote NVS during the reset

webVars == <<cmd, form, wk, stored>>
bootVars == <<main, lk>>
magVars == <<mag, mk>>
vars == <<nvs, cfg, bootVars, webVars, magVars, expected, disturbed>>

\* No magnet reset is at work.
MagnetIdle == mag \in {"watch", "gone"}

NoForm == [k \in Keys |-> Absent]

Init ==
  /\ nvs = [k \in Keys |-> Absent]
  /\ cfg = Default
  /\ main = "start" /\ lk = 1
  /\ cmd = "idle" /\ form = NoForm /\ wk = 1 /\ stored = FALSE
  /\ mag = "watch" /\ mk = 1
  /\ expected = [k \in Keys |-> {Default[k]}]
  /\ disturbed = FALSE

\* RAM is lost, and what a task was doing with it.
Restart ==
  /\ cfg' = Default
  /\ main' = "start" /\ lk' = 1
  /\ cmd' = "idle" /\ form' = NoForm /\ wk' = 1 /\ stored' = FALSE
  /\ mag' = "watch" /\ mk' = 1
  /\ disturbed' = FALSE
-----------------------------------------------------------------------------
(* app_main.                                                               *)

\* nvs_flash_init, and the defaults copied into place.
InitNvs ==
  /\ main = "start"
  /\ main' = "load"
  /\ cfg' = Default
  /\ UNCHANGED <<nvs, lk, webVars, magVars, expected, disturbed>>

\* One turn of the loop in loadNVSparms; then the file server is started.
loadNVSparms ==
  /\ main = "load"
  /\ IF lk > NKeys
       THEN main' = "run" /\ UNCHANGED <<cfg, lk>>
       ELSE /\ cfg' = IF nvs[lk] = Absent THEN cfg ELSE [cfg EXCEPT ![lk] = nvs[lk]]
            /\ lk' = lk + 1 /\ UNCHANGED main
  /\ UNCHANGED <<nvs, webVars, magVars, expected, disturbed>>

PowerLoss == Restart /\ UNCHANGED <<nvs, expected>>
-----------------------------------------------------------------------------
(* download_get_handler: save.cmd, reset.cmd, cancel.cmd and reboot.cmd.   *)

\* What the request c with query f means setting k to become.
Asks(c, f, k) == f[k] # Absent /\ (c = "save" => f[k] # Hidden)

Target(c, f, k) ==
  IF ~Asks(c, f, k) THEN cfg[k] ELSE IF c = "save" THEN f[k] ELSE Default[k]

\* A logged in user presses a button (cancel has no effect).
StartCommand ==
  /\ main = "run" /\ cmd = "idle"
  /\ cmd' \in {"save", "reset"} /\ form' \in Forms
  /\ wk' = 1 /\ stored' = FALSE
  /\ expected' = [k \in Keys |-> expected[k] \cup {Target(cmd', form', k)}]
  /\ UNCHANGED <<nvs, cfg, bootVars, magVars, disturbed>>

\* The key is not asked for or has the value already.
SkipKey ==
  /\ cmd # "idle" /\ wk <= NKeys /\ ~stored
  /\ Target(cmd, form, wk) = cfg[wk]
  /\ wk' = wk + 1
  /\ UNCHANGED <<nvs, cfg, bootVars, cmd, form, stored, magVars, expected, disturbed>>

\* free the text, strdup the new one.
ChangeRam ==
  /\ cmd # "idle" /\ wk <= NKeys /\ ~stored
  /\ Target(cmd, form, wk) # cfg[wk]
  /\ cfg' = [cfg EXCEPT ![wk] = Target(cmd, form, wk)]
  /\ stored' = TRUE
  /\ UNCHANGED <<nvs, bootVars, cmd, form, wk, magVars, expected, disturbed>>

\* A mistake the runs must catch: a default is thought to need no override.
SetStr_NotDefaults ==
  /\ cmd = "save" /\ stored
  /\ nvs' = IF cfg[wk] = Default[wk] THEN nvs ELSE [nvs EXCEPT ![wk] = cfg[wk]]
  /\ stored' = FALSE /\ wk' = wk + 1
  /\ disturbed' = (disturbed \/ ~MagnetIdle)
  /\ UNCHANGED <<cfg, bootVars, cmd, form, magVars, expected>>

\* nvs_set_str( handle, fdata->key, (*fdata->currentValue)[0] )
SetStr ==
  /\ cmd = "save" /\ stored
  /\ nvs' = [nvs EXCEPT ![wk] = cfg[wk]]
  /\ stored' = FALSE /\ wk' = wk + 1
  /\ disturbed' = (disturbed \/ ~MagnetIdle)
  /\ UNCHANGED <<cfg, bootVars, cmd, form, magVars, expected>>

\* The partition is full, or the key to erase is not there: ESP_ERROR_CHECK
\* aborts, which restarts the clock.
SetStrFails ==
  /\ cmd = "save" /\ stored
  /\ Restart /\ UNCHANGED <<nvs, expected>>

EraseFails ==
  /\ cmd = "reset" /\ stored /\ nvs[wk] = Absent
  /\ Restart /\ UNCHANGED <<nvs, expected>>

\* A mistake the runs must catch: the loop index is taken after it moved on.
EraseKey_Next ==
  /\ cmd = "reset" /\ stored /\ nvs[wk] # Absent
  /\ nvs' = [k \in Keys |-> IF k = wk + 1 THEN Absent ELSE nvs[k]]
  /\ stored' = FALSE /\ wk' = wk + 1
  /\ disturbed' = (disturbed \/ ~MagnetIdle)
  /\ UNCHANGED <<cfg, bootVars, cmd, form, magVars, expected>>

\* nvs_erase_key( handle, fdata->key )
EraseKey ==
  /\ cmd = "reset" /\ stored /\ nvs[wk] # Absent
  /\ nvs' = [nvs EXCEPT ![wk] = Absent]
  /\ stored' = FALSE /\ wk' = wk + 1
  /\ disturbed' = (disturbed \/ ~MagnetIdle)
  /\ UNCHANGED <<cfg, bootVars, cmd, form, magVars, expected>>

FinishCommand ==
  /\ cmd # "idle" /\ wk > NKeys
  /\ cmd' = "idle" /\ form' = NoForm /\ wk' = 1
  /\ expected' = [k \in Keys |->
       IF Asks(cmd, form, k) THEN {cfg[k]} \cup (IF MagnetIdle THEN {} ELSE {Default[k]})
       ELSE expected[k]]
  /\ UNCHANGED <<nvs, cfg, bootVars, stored, magVars, disturbed>>

\* reboot.cmd
RebootCommand ==
  /\ main = "run" /\ cmd = "idle"
  /\ Restart /\ UNCHANGED <<nvs, expected>>

download_get_handler ==
  StartCommand \/ SkipKey \/ ChangeRam \/ SetStr \/ SetStrFails \/ EraseKey
  \/ EraseFails \/ FinishCommand \/ RebootCommand
-----------------------------------------------------------------------------
(* resetRequestDetector_task, once the magnet has been seen four times.    *)

\* resetNVSparms: nvs_open fails before nvs_flash_init, nothing is erased.
StartReset ==
  /\ mag = "watch"
  /\ IF main = "start" THEN mag' = "restart" ELSE mag' = "check"
  /\ mk' = 1 /\ disturbed' = FALSE
  /\ UNCHANGED <<nvs, cfg, bootVars, webVars, expected>>

\* Ten seconds have passed.
StopWatching ==
  /\ mag = "watch"
  /\ mag' = "gone"
  /\ UNCHANGED <<nvs, cfg, bootVars, webVars, mk, expected, disturbed>>

\* rc = nvs_get_str( handle, fdata->key, NULL, &required_size )
CheckKey ==
  /\ mag = "check"
  /\ IF mk > NKeys THEN mag' = "restart" /\ UNCHANGED mk
     ELSE IF nvs[mk] = Absent THEN mk' = mk + 1 /\ UNCHANGED mag
     ELSE mag' = "erase" /\ UNCHANGED mk
  /\ UNCHANGED <<nvs, cfg, bootVars, webVars, expected, disturbed>>

\* A mistake the runs must catch: a reset key is skipped with its successor.
ResetKey_Twice ==
  /\ mag = "erase" /\ nvs[mk] # Absent
  /\ nvs' = [nvs EXCEPT ![mk] = Absent]
  /\ mag' = "check" /\ mk' = IF mk = NKeys THEN mk + 1 ELSE mk + 2
  /\ expected' = [expected EXCEPT ![mk] = @ \cup {Default[mk]}]
  /\ UNCHANGED <<cfg, bootVars, webVars, disturbed>>

ResetKey ==
  /\ mag = "erase" /\ nvs[mk] # Absent
  /\ nvs' = [nvs EXCEPT ![mk] = Absent]
  /\ mag' = "check" /\ mk' = mk + 1
  /\ expected' = [expected EXCEPT ![mk] = @ \cup {Default[mk]}]
  /\ UNCHANGED <<cfg, bootVars, webVars, disturbed>>

\* The server erased the key since: ESP_ERROR_CHECK aborts.
ResetKeyFails ==
  /\ mag = "erase" /\ nvs[mk] = Absent
  /\ Restart /\ UNCHANGED <<nvs, expected>>

\* esp_restart
ResetDone ==
  /\ mag = "restart"
  /\ Restart /\ UNCHANGED <<nvs, expected>>

resetRequestDetector_task ==
  StartReset \/ StopWatching \/ CheckKey \/ ResetKey \/ ResetKeyFails \/ ResetDone

Next == InitNvs \/ loadNVSparms \/ PowerLoss \/ download_get_handler
        \/ resetRequestDetector_task

Spec == Init /\ [][Next]_vars
-----------------------------------------------------------------------------
TypeOK ==
  /\ nvs \in [Keys -> Values \cup {Absent}] /\ cfg \in [Keys -> Values]
  /\ main \in {"start", "load", "run"} /\ lk \in 1 .. NKeys + 1
  /\ cmd \in {"idle", "save", "reset"} /\ form \in Forms
  /\ wk \in 1 .. NKeys + 1 /\ stored \in BOOLEAN
  /\ mag \in {"watch", "check", "erase", "restart", "gone"} /\ mk \in 1 .. NKeys + 1
  /\ expected \in [Keys -> SUBSET Values] /\ disturbed \in BOOLEAN

AfterBoot(k) == IF nvs[k] = Absent THEN Default[k] ELSE nvs[k]

(* Unless a magnet reset is at work, what the clock works with is what it   *)
(* would come up with after a restart; the one exception is the key whose   *)
(* flash call has not been made yet (clockServer.c:2097-2117, 2761-2792).   *)
RamMatchesFlash ==
  main = "run" /\ MagnetIdle =>
    \A k \in Keys : ~(stored /\ k = wk) => cfg[k] = AfterBoot(k)

(* The ESP_ERROR_CHECK of nvs_erase_key in a reset from the web page does   *)
(* not abort, again unless a magnet reset is at work: a setting that        *)
(* differs from its default has an override (clockServer.c:2106-2117).      *)
EraseFindsItsKey == cmd = "reset" /\ stored /\ MagnetIdle => nvs[wk] # Absent

(* Through any saves, resets, failures and restarts a setting has the value *)
(* it was last given, or that of a request that was cut short since, or its *)
(* default after a magnet reset (clockServer.c:2074-2133, 2761-2813).       *)
SavedStaysSaved == main = "run" => \A k \in Keys : cfg[k] \in expected[k]

(* A magnet reset that starts after NVS is up, and that no save or reset    *)
(* from the web page overlaps, leaves every setting at its default          *)
(* (clockMain.c:180-186, clockServer.c:2794-2813).                          *)
ResetIsComplete ==
  mag = "restart" /\ mk > NKeys /\ ~disturbed => \A k \in Keys : nvs[k] = Absent
=============================================================================
