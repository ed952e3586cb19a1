-------------------------- MODULE ConfigStoreProof --------------------------
(* RAM and flash agree and what is saved stays saved, for any number of     *)
(* keys, any texts and any failure.  An invariant has to say what a magnet  *)
(* reset may leave of the agreement while it is at work.                    *)
EXTENDS ConfigStore, TLAPS

MagnetInv == mag = "erase" => mk \in Keys

(* The key is what a restart would make it, or the magnet's task erased it. *)
Agrees(k) == cfg[k] = AfterBoot(k) \/ (~MagnetIdle /\ nvs[k] = Absent)

(* loadNVSparms has put the overrides in place up to lk; no request is      *)
(* served before it is done.                                                *)
BootInv ==
  /\ main # "run" => cmd = "idle"
  /\ main = "start" => lk = 1
  /\ main = "load" => \A k \in Keys : IF k < lk THEN Agrees(k) ELSE cfg[k] = Default[k]

(* Between its two writes a key that is reset has its default in RAM and an *)
(* override in flash, or the magnet's task has erased it.                   *)
StoredInv ==
  stored => /\ cmd # "idle" /\ wk \in Keys
            /\ cmd = "reset" => /\ cfg[wk] = Default[wk]
                                /\ MagnetIdle => nvs[wk] # Absent

RamInv == main = "run" => \A k \in Keys : ~(stored /\ k = wk) => Agrees(k)

(* Both copies, and what the request at work asks for, are expected.        *)
ExpectedInv ==
  \A k \in Keys :
    /\ AfterBoot(k) \in expected[k]
    /\ main = "run" \/ (main = "load" /\ k < lk) => cfg[k] \in expected[k]
    /\ cmd # "idle" /\ Asks(cmd, form, k) => Target(cmd, form, k) \in expected[k]

(* A magnet reset that nothing has disturbed has no override behind it.     *)
ResetInv ==
  ~MagnetIdle /\ ~disturbed => \A k \in Keys : k < mk => nvs[k] = Absent

IInv == TypeOK /\ MagnetInv /\ BootInv /\ StoredInv /\ RamInv /\ ExpectedInv
-----------------------------------------------------------------------------
LEMMA InitInv == Init => IInv
<1> SUFFICES ASSUME Init PROVE IInv
  OBVIOUS
<1> USE KeysAssumption, ValuesAssumption DEF Keys
<1>1. TypeOK
  <2>1. NoForm \in Forms /\ 1 \in 1 .. NKeys + 1
    BY DEF NoForm, Forms
  <2>2. nvs \in [Keys -> Values \cup {Absent}] /\ expected \in [Keys -> SUBSET Values]
    BY DEF Init
  <2> QED
    BY <2>1, <2>2 DEF Init, TypeOK
<1>2. BootInv /\ StoredInv /\ RamInv /\ MagnetInv
  BY DEF Init, BootInv, StoredInv, RamInv, MagnetInv
<1>3. ExpectedInv
  BY DEF Init, ExpectedInv, AfterBoot
<1> QED
  BY <1>1, <1>2, <1>3 DEF IInv

(* Losing the RAM is harmless at any step: what the flash holds is expected.*)
LEMMA RestartInv ==
  ASSUME IInv, Restart, UNCHANGED <<nvs, expected>>
  PROVE  IInv'
<1> USE KeysAssumption, ValuesAssumption DEF IInv, Keys
<1>1. TypeOK'
  <2>1. NoForm \in Forms /\ 1 \in 1 .. NKeys + 1
    BY DEF NoForm, Forms
  <2> QED
    BY <2>1 DEF TypeOK, Restart
<1>2. BootInv' /\ StoredInv' /\ RamInv' /\ MagnetInv'
  BY DEF Restart, BootInv, StoredInv, RamInv, MagnetInv
<1>3. ExpectedInv'
  BY DEF Restart, ExpectedInv, AfterBoot
<1> QED
  BY <1>1, <1>2, <1>3

LEMMA BootStepInv ==
  ASSUME IInv, InitNvs \/ loadNVSparms
  PROVE  IInv'
<1> USE KeysAssumption, ValuesAssumption DEF IInv
<1>1. CASE InitNvs
  <2>1. TypeOK'
    BY <1>1 DEF TypeOK, InitNvs, webVars, magVars
  <2>2. BootInv'
    BY <1>1 DEF InitNvs, BootInv, webVars, Keys
  <2>3. StoredInv' /\ RamInv' /\ MagnetInv'
    BY <1>1 DEF InitNvs, BootInv, StoredInv, RamInv, MagnetInv, webVars, magVars
  <2>4. ExpectedInv'
    BY <1>1 DEF InitNvs, BootInv, ExpectedInv, AfterBoot, webVars, Keys
  <2> QED
    BY <2>1, <2>2, <2>3, <2>4
<1>2. CASE loadNVSparms
  <2>1. main = "load" /\ cmd = "idle" /\ cmd' = "idle" /\ ~stored /\ ~stored'
    BY <1>2 DEF loadNVSparms, BootInv, StoredInv, webVars, TypeOK
  <2>2. UNCHANGED <<nvs, expected, cmd, form, wk, stored, mag, mk, disturbed>>
    BY <1>2 DEF loadNVSparms, webVars, magVars
  <2>3. CASE lk > NKeys
    <3>1. main' = "run" /\ UNCHANGED <<cfg, lk>>
      BY <1>2, <2>3 DEF loadNVSparms
    <3>2. \A k \in Keys : Agrees(k)
      BY <2>1, <2>3 DEF BootInv, Keys, TypeOK
    <3>3. TypeOK' /\ BootInv' /\ MagnetInv' /\ StoredInv'
      BY <2>1, <2>2, <3>1 DEF TypeOK, BootInv, MagnetInv, StoredInv
    <3>4. RamInv' /\ ExpectedInv'
      <4>1. \A k \in Keys : Agrees(k)'
        BY <2>2, <3>1, <3>2 DEF Agrees, AfterBoot, MagnetIdle
      <4>2. \A k \in Keys : cfg[k] \in expected[k]
        BY <2>1, <2>3 DEF ExpectedInv, Keys, TypeOK
      <4> QED
        BY <2>1, <2>2, <3>1, <4>1, <4>2 DEF RamInv, ExpectedInv, AfterBoot
    <3> QED
      BY <3>3, <3>4
  <2>4. CASE ~(lk > NKeys)
    <3>1. main' = "load" /\ lk' = lk + 1 /\ lk \in Keys
      BY <1>2, <2>1, <2>4 DEF loadNVSparms, TypeOK, Keys
    <3>2. cfg' = [cfg EXCEPT ![lk] = AfterBoot(lk)]
      <4>1. cfg[lk] = Default[lk]
        BY <2>1, <3>1 DEF BootInv, TypeOK, Keys
      <4>2. cfg \in [Keys -> Values]
        BY DEF TypeOK
      <4> QED
        BY <1>2, <2>1, <2>4, <3>1, <4>1, <4>2 DEF loadNVSparms, AfterBoot
    <3>3. AfterBoot(lk) \in Values
      BY <3>1 DEF AfterBoot, TypeOK
    <3>4. TypeOK'
      <4>1. cfg' \in [Keys -> Values] /\ lk' \in 1 .. NKeys + 1
        BY <3>1, <3>2, <3>3 DEF TypeOK, Keys
      <4> QED
        BY <2>1, <2>2, <3>1, <4>1 DEF TypeOK
    <3>5. BootInv'
      BY <2>1, <2>2, <3>1, <3>2 DEF BootInv, Agrees, AfterBoot, MagnetIdle, TypeOK, Keys
    <3>6. MagnetInv' /\ StoredInv' /\ RamInv' /\ ExpectedInv'
      <4>1. \A k \in Keys : k < lk + 1 => cfg'[k] \in expected[k]
        BY <2>1, <3>1, <3>2 DEF ExpectedInv, TypeOK, Keys
      <4>2. \A k \in Keys : AfterBoot(k)' = AfterBoot(k)
        BY <2>2 DEF AfterBoot
      <4>3. ExpectedInv'
        BY <2>1, <2>2, <3>1, <4>1, <4>2 DEF ExpectedInv
      <4> QED
        BY <2>1, <2>2, <3>1, <4>3 DEF MagnetInv, StoredInv, RamInv
    <3> QED
      BY <3>4, <3>5, <3>6
  <2> QED
    BY <2>3, <2>4
<1> QED
  BY <1>1, <1>2

(* What a request asks of a setting is one of the texts.                    *)
LEMMA TargetType ==
  ASSUME TypeOK, NEW c \in {"save", "reset"}, NEW f \in Forms, NEW k \in Keys
  PROVE  Target(c, f, k) \in Values
BY ValuesAssumption DEF TypeOK, Target, Asks, Forms

LEMMA CommandInv ==
  ASSUME IInv, StartCommand \/ SkipKey \/ ChangeRam \/ FinishCommand
  PROVE  IInv'
<1> USE KeysAssumption DEF IInv
<1>0. wk <= NKeys => wk \in Keys
  BY DEF TypeOK, Keys
<1>1. CASE StartCommand
  <2>1. TypeOK'
    <3>1. \A k \in Keys : Target(cmd', form', k) \in Values
      BY <1>1, TargetType DEF StartCommand
    <3>2. expected' \in [Keys -> SUBSET Values]
      BY <1>1, <3>1 DEF StartCommand, TypeOK
    <3>3. cmd' \in {"idle", "save", "reset"} /\ form' \in Forms
      BY <1>1 DEF StartCommand
    <3>4. wk' \in 1 .. NKeys + 1
      BY <1>1 DEF StartCommand
    <3>5. stored' = FALSE
      BY <1>1 DEF StartCommand
    <3> QED
      BY <1>1, <3>2, <3>3, <3>4, <3>5 DEF StartCommand, TypeOK, bootVars, magVars
  <2>2. BootInv' /\ StoredInv' /\ MagnetInv'
    BY <1>1 DEF StartCommand, BootInv, StoredInv, MagnetInv, MagnetIdle, bootVars, magVars
  <2>3. RamInv'
    <3>1. ~stored
      BY <1>1 DEF StartCommand, StoredInv
    <3> QED
      BY <1>1, <3>1 DEF StartCommand, RamInv, Agrees, AfterBoot, MagnetIdle, magVars
  <2>4. ExpectedInv'
    BY <1>1 DEF StartCommand, ExpectedInv, AfterBoot, Target, bootVars
  <2> QED
    BY <2>1, <2>2, <2>3, <2>4
<1>2. CASE SkipKey
  <2>1. TypeOK'
    BY <1>2 DEF SkipKey, TypeOK, bootVars, magVars
  <2>2. BootInv' /\ StoredInv' /\ MagnetInv'
    BY <1>2 DEF SkipKey, BootInv, StoredInv, MagnetInv, bootVars, magVars
  <2>4. RamInv'
    BY <1>2 DEF SkipKey, RamInv, Agrees, AfterBoot, MagnetIdle, bootVars, magVars
  <2>3. ExpectedInv'
    BY <1>2 DEF SkipKey, ExpectedInv, AfterBoot, Target, Asks, bootVars
  <2> QED
    BY <2>1, <2>2, <2>3, <2>4
<1>3. CASE ChangeRam
  <2> DEFINE t == Target(cmd, form, wk)
  <2>1. /\ wk \in Keys /\ cmd \in {"save", "reset"} /\ form \in Forms
        /\ cfg' = [cfg EXCEPT ![wk] = t] /\ t # cfg[wk] /\ stored' = TRUE /\ ~stored
        /\ main = "run" /\ main' = "run"
        /\ UNCHANGED <<nvs, lk, cmd, form, wk, mag, mk, expected, disturbed>>
    BY <1>0, <1>3 DEF ChangeRam, TypeOK, BootInv, bootVars, magVars
  <2>2. t \in Values /\ cfg \in [Keys -> Values]
    BY <2>1, TargetType DEF TypeOK
  <2>3. TypeOK'
    BY <2>1, <2>2 DEF TypeOK
  <2>4. Agrees(wk) /\ Asks(cmd, form, wk)
    BY <2>1 DEF RamInv, Target
  <2>5. StoredInv'
    BY <2>1, <2>2, <2>4 DEF StoredInv, Target, Agrees, AfterBoot, MagnetIdle
  <2>6. BootInv' /\ MagnetInv' /\ RamInv'
    <3>1. \A k \in Keys : k # wk => Agrees(k)
      BY <2>1 DEF RamInv
    <3>2. \A k \in Keys : k # wk => Agrees(k)'
      BY <2>1, <2>2, <3>1 DEF Agrees, AfterBoot, MagnetIdle
    <3> QED
      BY <2>1, <3>2 DEF BootInv, MagnetInv, RamInv
  <2>7. ExpectedInv'
    BY <2>1, <2>2, <2>4 DEF ExpectedInv, AfterBoot, Target, Asks
  <2> QED
    BY <2>3, <2>5, <2>6, <2>7
<1>4. CASE FinishCommand
  <2>1. ~stored /\ \A k \in Keys : k # wk
    BY <1>4 DEF FinishCommand, StoredInv, Keys, TypeOK
  <2>2. main = "run" /\ \A k \in Keys : Agrees(k)
    BY <1>4, <2>1 DEF FinishCommand, RamInv, BootInv
  <2>3. TypeOK'
    BY <1>4, ValuesAssumption DEF FinishCommand, TypeOK, NoForm, Forms, bootVars, magVars
  <2>4. BootInv' /\ StoredInv' /\ MagnetInv' /\ RamInv'
    BY <1>4, <2>1, <2>2 DEF FinishCommand, BootInv, StoredInv, MagnetInv, RamInv,
                Agrees, AfterBoot, MagnetIdle, bootVars, magVars
  <2>5. ExpectedInv'
    <3>1. cmd' = "idle" /\ UNCHANGED <<nvs, cfg, main>>
      BY <1>4 DEF FinishCommand, bootVars
    <3>2. ASSUME NEW k \in Keys
          PROVE  AfterBoot(k) \in expected'[k] /\ cfg[k] \in expected'[k]
      <4>1. CASE Asks(cmd, form, k) /\ MagnetIdle
        BY <1>4, <2>2, <4>1 DEF FinishCommand, Agrees
      <4>2. CASE Asks(cmd, form, k) /\ ~MagnetIdle
        BY <1>4, <2>2, <4>2 DEF FinishCommand, Agrees, AfterBoot
      <4>3. CASE ~Asks(cmd, form, k)
        BY <1>4, <2>2, <4>3 DEF FinishCommand, ExpectedInv
      <4> QED
        BY <4>1, <4>2, <4>3
    <3> QED
      BY <3>1, <3>2 DEF ExpectedInv, AfterBoot
  <2> QED
    BY <2>3, <2>4, <2>5
<1> QED
  BY <1>1, <1>2, <1>3, <1>4

LEMMA FlashInv ==
  ASSUME IInv, SetStr \/ EraseKey
  PROVE  IInv'
<1> USE KeysAssumption DEF IInv
<1>1. PICK v \in {cfg[wk], Absent} :
        /\ nvs' = [nvs EXCEPT ![wk] = v]
        /\ v = Absent => cfg[wk] = Default[wk]
        /\ stored /\ stored' = FALSE /\ wk' = wk + 1 /\ wk \in Keys /\ disturbed' \in BOOLEAN
        /\ UNCHANGED <<cfg, main, lk, cmd, form, mag, mk, expected>>
  <2>1. wk \in Keys /\ disturbed \in BOOLEAN /\ stored \in BOOLEAN
    BY DEF StoredInv, TypeOK, SetStr, EraseKey
  <2>2. cmd = "reset" => cfg[wk] = Default[wk]
    BY DEF StoredInv, SetStr, EraseKey
  <2>3. CASE SetStr
    <3>1. cfg[wk] # Absent
      BY <2>1, ValuesAssumption DEF TypeOK
    <3> QED
      BY <2>1, <2>3, <3>1 DEF SetStr, bootVars, magVars
  <2>4. CASE EraseKey
    BY <2>1, <2>2, <2>4 DEF EraseKey, bootVars, magVars
  <2> QED
    BY <2>3, <2>4
<1>2. main = "run" /\ cfg[wk] \in Values /\ nvs \in [Keys -> Values \cup {Absent}]
  BY <1>1 DEF StoredInv, BootInv, TypeOK
<1>3. \A k \in Keys : k = wk => AfterBoot(k)' = cfg[wk]
  BY <1>1, <1>2, ValuesAssumption DEF AfterBoot
<1>4. \A k \in Keys : k # wk => AfterBoot(k)' = AfterBoot(k)
  BY <1>1, <1>2 DEF AfterBoot
<1>5. TypeOK'
  <2>1. nvs' \in [Keys -> Values \cup {Absent}] /\ wk' \in 1 .. NKeys + 1
    BY <1>1, <1>2 DEF TypeOK, Keys
  <2> QED
    BY <1>1, <2>1 DEF TypeOK
<1>6. BootInv' /\ StoredInv' /\ MagnetInv'
  BY <1>1, <1>2 DEF BootInv, StoredInv, MagnetInv
<1>7. RamInv'
  <2>1. \A k \in Keys : k # wk => Agrees(k)
    BY <1>2 DEF RamInv
  <2>2. \A k \in Keys : k # wk => Agrees(k)'
    BY <1>1, <1>2, <1>4, <2>1 DEF Agrees, MagnetIdle
  <2>3. \A k \in Keys : k = wk => Agrees(k)'
    BY <1>1, <1>3 DEF Agrees
  <2> QED
    BY <2>2, <2>3 DEF RamInv
<1>8. ExpectedInv'
  BY <1>1, <1>2, <1>3, <1>4 DEF ExpectedInv, Target, Asks
<1> QED
  BY <1>5, <1>6, <1>7, <1>8

LEMMA MagnetStepInv ==
  ASSUME IInv, StartReset \/ StopWatching \/ CheckKey \/ ResetKey
  PROVE  IInv'
<1> USE KeysAssumption DEF IInv
<1>1. CASE StartReset \/ StopWatching \/ CheckKey
  <2>1. /\ UNCHANGED <<nvs, cfg, main, lk, cmd, form, wk, stored, expected>>
        /\ MagnetIdle' => MagnetIdle
        /\ disturbed' \in BOOLEAN
    BY <1>1, Zenon DEF StartReset, StopWatching, CheckKey, MagnetIdle, bootVars, webVars, TypeOK
  <2>2. /\ mag' \in {"watch", "check", "erase", "restart", "gone"}
        /\ mk' \in 1 .. NKeys + 1 /\ (mag' = "erase" => mk' \in Keys)
    BY <1>1 DEF StartReset, StopWatching, CheckKey, MagnetInv, TypeOK, Keys
  <2>3. TypeOK'
    BY <2>1, <2>2, Zenon DEF TypeOK
  <2>4. \A k \in Keys : AfterBoot(k)' = AfterBoot(k)
    BY <2>1 DEF AfterBoot
  <2>5. \A k \in Keys : Agrees(k) => Agrees(k)'
    BY <2>1, <2>4 DEF Agrees
  <2>6. BootInv' /\ MagnetInv' /\ StoredInv'
    BY <2>1, <2>2, <2>5 DEF BootInv, MagnetInv, StoredInv
  <2>7. RamInv' /\ ExpectedInv'
    BY <2>1, <2>4, <2>5 DEF RamInv, ExpectedInv, Target, Asks
  <2> QED
    BY <2>3, <2>6, <2>7
<1>2. CASE ResetKey
  <2>1. /\ nvs' = [nvs EXCEPT ![mk] = Absent] /\ mk \in Keys /\ mag' = "check"
        /\ mk' = mk + 1 /\ expected' = [expected EXCEPT ![mk] = @ \cup {Default[mk]}]
        /\ UNCHANGED <<cfg, main, lk, cmd, form, wk, stored, disturbed>>
    BY <1>2 DEF ResetKey, MagnetInv, bootVars, webVars
  <2>2. /\ nvs \in [Keys -> Values \cup {Absent}] /\ expected \in [Keys -> SUBSET Values]
        /\ \A k \in Keys : Default[k] \in Values
    BY ValuesAssumption DEF TypeOK
  <2>3. TypeOK'
    <3>1. nvs' \in [Keys -> Values \cup {Absent}] /\ mk' \in 1 .. NKeys + 1
      BY <2>1, <2>2 DEF Keys
    <3>2. expected' \in [Keys -> SUBSET Values]
      BY <2>1, <2>2
    <3> QED
      BY <2>1, <3>1, <3>2, Zenon DEF TypeOK
  <2>4. ~MagnetIdle'
    BY <2>1 DEF MagnetIdle
  <2>5. \A k \in Keys : Agrees(k) => Agrees(k)'
    <3>1. \A k \in Keys : k = mk => Agrees(k)'
      BY <2>1, <2>2, <2>4 DEF Agrees
    <3>2. \A k \in Keys : k # mk => nvs'[k] = nvs[k] /\ AfterBoot(k)' = AfterBoot(k)
      BY <2>1, <2>2 DEF AfterBoot
    <3> QED
      BY <2>1, <2>4, <3>1, <3>2 DEF Agrees
  <2>6. BootInv' /\ MagnetInv' /\ StoredInv' /\ RamInv'
    BY <2>1, <2>4, <2>5 DEF BootInv, MagnetInv, StoredInv, RamInv
  <2>7. ExpectedInv'
    <3>1. \A k \in Keys : AfterBoot(k)' \in {AfterBoot(k), Default[k]}
      BY <2>1, <2>2 DEF AfterBoot
    <3>2. \A k \in Keys : expected[k] \subseteq expected'[k] /\ (k = mk => Default[k] \in expected'[k])
      BY <2>1, <2>2
    <3>3. \A k \in Keys : k # mk => AfterBoot(k)' = AfterBoot(k)
      BY <2>1, <2>2 DEF AfterBoot
    <3>4. \A k \in Keys : AfterBoot(k)' \in expected'[k]
      BY <3>1, <3>2, <3>3 DEF ExpectedInv
    <3> QED
      BY <2>1, <3>2, <3>4 DEF ExpectedInv, Target, Asks
  <2> QED
    BY <2>3, <2>6, <2>7
<1> QED
  BY <1>1, <1>2

LEMMA NextInv == IInv /\ [Next]_vars => IInv'
<1> SUFFICES ASSUME IInv, [Next]_vars PROVE IInv'
  OBVIOUS
<1>1. CASE StartReset \/ StopWatching \/ CheckKey \/ ResetKey
  BY <1>1, MagnetStepInv
<1>2. CASE UNCHANGED vars
  BY <1>2 DEF vars, bootVars, webVars, magVars, IInv, TypeOK, MagnetInv, BootInv,
     StoredInv, RamInv, Agrees, MagnetIdle, ExpectedInv, AfterBoot, Target, Asks
<1>3. CASE InitNvs \/ loadNVSparms
  BY <1>3, BootStepInv
<1>4. CASE PowerLoss \/ SetStrFails \/ EraseFails \/ RebootCommand
           \/ ResetKeyFails \/ ResetDone
  BY <1>4, RestartInv DEF PowerLoss, SetStrFails, EraseFails, RebootCommand,
     ResetKeyFails, ResetDone
<1>5. CASE StartCommand \/ SkipKey \/ ChangeRam \/ FinishCommand
  BY <1>5, CommandInv
<1>6. CASE SetStr \/ EraseKey
  BY <1>6, FlashInv
<1> QED
  BY <1>1, <1>2, <1>3, <1>4, <1>5, <1>6 DEF Next, download_get_handler,
     resetRequestDetector_task

(* Every step of booting, saving, resetting, failing and restarting keeps   *)
(* the invariant (clockServer.c:2074-2133, 2761-2813).                      *)
THEOREM InductiveInvariant == Spec => []IInv
<1>1. Init => IInv
  BY InitInv
<1>2. IInv /\ [Next]_vars => IInv'
  BY NextInv
<1> QED
  BY <1>1, <1>2, PTL DEF Spec

(* RAM and flash agree but for the key between its two writes, and what a   *)
(* magnet reset at work has erased (clockServer.c:2097-2117).               *)
THEOREM WorkingCopyMatchesFlash == Spec => []RamMatchesFlash
<1>1. IInv => RamMatchesFlash
  BY DEF IInv, RamInv, Agrees, RamMatchesFlash
<1> QED
  BY <1>1, InductiveInvariant, PTL

(* The ESP_ERROR_CHECK around nvs_erase_key aborts only for a magnet reset  *)
(* (clockServer.c:2114).                                                    *)
THEOREM ResetNeverAborts == Spec => []EraseFindsItsKey
<1>1. IInv => EraseFindsItsKey
  BY DEF IInv, StoredInv, EraseFindsItsKey
<1> QED
  BY <1>1, InductiveInvariant, PTL

(* No crash, failed write or restart brings back an overwritten setting     *)
(* (clockServer.c:2074-2133, 2761-2813).                                    *)
THEOREM SettingsSurvive == Spec => []SavedStaysSaved
<1>1. IInv => SavedStaysSaved
  BY DEF IInv, ExpectedInv, SavedStaysSaved
<1> QED
  BY <1>1, InductiveInvariant, PTL
-----------------------------------------------------------------------------
LEMMA ResetStepInv == IInv /\ ResetInv /\ [Next]_vars => ResetInv'
<1> SUFFICES ASSUME IInv, ResetInv, [Next]_vars PROVE ResetInv'
  OBVIOUS
<1>0. nvs \in [Keys -> Values \cup {Absent}] /\ Keys \subseteq Int /\ mk \in Int
  BY DEF IInv, TypeOK, Keys
<1>1. CASE Restart
  BY <1>1 DEF Restart, ResetInv, MagnetIdle
<1>2. CASE UNCHANGED <<nvs, mag, mk, disturbed>>
  BY <1>2 DEF ResetInv, MagnetIdle
<1>3. CASE SetStr
  BY <1>3 DEF SetStr, ResetInv, MagnetIdle, magVars
<1>4. CASE EraseKey
  <2>1. nvs' = [nvs EXCEPT ![wk] = Absent] /\ (disturbed => disturbed') /\ UNCHANGED magVars
    BY <1>4 DEF EraseKey
  <2> QED
    BY <1>0, <2>1 DEF ResetInv, MagnetIdle, magVars
<1>5. CASE StartReset
  BY <1>0, <1>5, KeysAssumption DEF StartReset, ResetInv, Keys
<1>6. CASE StopWatching
  BY <1>6 DEF StopWatching, ResetInv, MagnetIdle
<1>7. CASE CheckKey
  <2>1. ~MagnetIdle /\ UNCHANGED <<nvs, disturbed>>
    BY <1>7 DEF CheckKey, MagnetIdle
  <2>2. mk' = mk \/ (mk' = mk + 1 /\ (mk \in Keys => nvs[mk] = Absent))
    BY <1>7 DEF CheckKey
  <2> QED
    BY <1>0, <2>1, <2>2 DEF ResetInv
<1>8. CASE ResetKey
  <2>1. ~MagnetIdle /\ nvs' = [nvs EXCEPT ![mk] = Absent] /\ mk' = mk + 1 /\ UNCHANGED disturbed
    BY <1>8 DEF ResetKey, MagnetIdle
  <2> QED
    BY <1>0, <2>1 DEF ResetInv
<1>9. CASE ResetKeyFails \/ ResetDone \/ PowerLoss \/ SetStrFails \/ EraseFails \/ RebootCommand
  BY <1>1, <1>9 DEF ResetKeyFails, ResetDone, PowerLoss, SetStrFails, EraseFails, RebootCommand
<1>10. CASE InitNvs \/ loadNVSparms \/ StartCommand \/ SkipKey \/ ChangeRam \/ FinishCommand
            \/ UNCHANGED vars
  BY <1>2, <1>10 DEF InitNvs, loadNVSparms, StartCommand, SkipKey, ChangeRam, FinishCommand,
     vars, magVars
<1> QED
  BY <1>3, <1>4, <1>5, <1>6, <1>7, <1>8, <1>9, <1>10
     DEF Next, download_get_handler, resetRequestDetector_task

(* A magnet reset that nothing from the web page overlaps leaves every      *)
(* setting at its default, though its task looks at a key in one step and   *)
(* erases it in another (clockMain.c:180-186, clockServer.c:2794-2813).     *)
THEOREM ResetErasesEverything == Spec => []ResetIsComplete
<1>1. Init => ResetInv
  BY DEF Init, ResetInv, MagnetIdle
<1>2. IInv /\ ResetInv /\ [Next]_vars => ResetInv'
  BY ResetStepInv
<1>3. IInv /\ ResetInv => ResetIsComplete
  <2> SUFFICES ASSUME IInv, ResetInv, mag = "restart", mk > NKeys, ~disturbed, NEW k \in Keys
               PROVE  nvs[k] = Absent
    BY DEF ResetIsComplete
  <2>1. k \in Int /\ mk \in Int /\ k < mk
    BY KeysAssumption DEF IInv, TypeOK, Keys
  <2> QED
    BY <2>1 DEF ResetInv, MagnetIdle
<1> QED
  BY <1>1, <1>2, <1>3, InductiveInvariant, PTL DEF Spec
=============================================================================
