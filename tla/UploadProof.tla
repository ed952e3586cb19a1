----------------------------- MODULE UploadProof -----------------------------
(* The updates of Upload, for every set of images and of maps and any number *)
(* of parts.  The invariant has parts that lean on each other: which slot    *)
(* runs, what the map's partition holds while it is being replaced, that no  *)
(* request is under way before the server is up, and where an image that was *)
(* installed waits for its start.                                            *)
EXTENDS Upload, DataInduction, TLAPS

\* What is kept works, and is never the slot an upload goes to.
SlotsInv ==
  /\ slots[KeptSlot] \in Working /\ otadata[KeptSlot] \in {"valid", "undefined"}
  /\ stage # "off" =>
       /\ slots[running] \in Images
       /\ running = KeptSlot \/ (running = first /\ otadata[running] = "pending")

RequestInv ==
  /\ request # Idle => ServerUp
  /\ request.kind = "executable" => running = KeptSlot

\* The partition holds the parts of one map from lo on, up to hi.
Holds(flash, map, lo, hi) ==
  \A p \in 1 .. MapParts : flash[p] = IF lo < p /\ p <= hi THEN map ELSE Erased

MapInv ==
  /\ \E map \in Maps, lo \in 0 .. MapParts, hi \in 0 .. MapParts :
       /\ Holds(tzmap, map, lo, hi)
       /\ At("tzmap", "erase") => request.done <= lo
       /\ At("tzmap", "receive") => lo = 0 /\ hi = request.done /\ map = request.body
  /\ timezoneBuildDate # "bad" => request.kind # "tzmap"

Inv == TypeOK /\ SlotsInv /\ RequestInv /\ MapInv /\ MapInUseIsWhole

\* What was installed is in the slot that does not run, the boot loader's next.
InstalledInv ==
  installed # Rest =>
    /\ first = Other(running) /\ otadata[first] = "new" /\ slots[first] = installed
    /\ request.kind # "executable"

-----------------------------------------------------------------------------
(* The slots.                                                                *)

LEMMA SlotFacts ==
  ASSUME TypeOK
  PROVE  /\ KeptSlot \in Slots /\ Other(KeptSlot) \in Slots
         /\ \A s \in Slots : Other(s) \in Slots /\ Other(s) # s /\ Other(Other(s)) = s
         /\ slots[KeptSlot] \in Images \cup {Rest} /\ slots[Other(KeptSlot)] \in Images \cup {Rest}
<1>1. \A s \in Slots : Other(s) \in Slots /\ Other(s) # s /\ Other(Other(s)) = s
  BY DEF Slots, Other
<1>2. KeptSlot \in Slots
  BY <1>1 DEF TypeOK, KeptSlot
<1> QED BY <1>1, <1>2 DEF TypeOK

\* What the slots are to their promise does not change with what leaves them alone.
LEMMA SameSlots ==
  ASSUME SlotsInv, UNCHANGED <<slots, otadata, first>>,
         stage' # "off" => stage # "off" /\ running' = running
  PROVE  SlotsInv' /\ KeptSlot' = KeptSlot /\ [Trial!Next]_<<slots[KeptSlot], slots[Other(KeptSlot)]>>
<1>1. KeptSlot' = KeptSlot
  BY DEF KeptSlot, Other
<1>2. SlotsInv'
  BY <1>1 DEF SlotsInv
<1>3. slots'[KeptSlot'] = slots[KeptSlot] /\ slots'[Other(KeptSlot')] = slots[Other(KeptSlot)]
  BY <1>1
<1> QED BY <1>1, <1>2, <1>3 DEF Other

\* Before the server is up there is no request.
LEMMA NoRequest ==
  ASSUME TypeOK, RequestInv, ~ ServerUp
  PROVE  request = Idle /\ request.kind = "none" /\ request.at = "idle"
BY DEF RequestInv, Idle

\* A step that leaves the map and the request alone.
LEMMA SameMap ==
  ASSUME MapInv, MapInUseIsWhole, UNCHANGED <<tzmap, request>>,
         timezoneBuildDate' \in {timezoneBuildDate, "bad"}
  PROVE  MapInv' /\ MapInUseIsWhole'
BY DEF MapInv, MapInUseIsWhole, Holds, At

\* A step that ends a request, or ends the one there is for another kind of thing.
LEMMA OtherRequest ==
  ASSUME MapInv, MapInUseIsWhole, UNCHANGED tzmap, request'.kind # "tzmap",
         timezoneBuildDate' \in {timezoneBuildDate, "bad"}
  PROVE  MapInv' /\ MapInUseIsWhole'
<1>1. PICK map \in Maps, lo \in 0 .. MapParts, hi \in 0 .. MapParts : Holds(tzmap, map, lo, hi)
  BY DEF MapInv
<1>2. Holds(tzmap', map, lo, hi) /\ ~ At("tzmap", "erase")' /\ ~ At("tzmap", "receive")'
  BY <1>1 DEF At
<1>3. MapInv'
  BY <1>2 DEF MapInv, Holds
<1> QED BY <1>3 DEF MapInUseIsWhole

LEMMA BootLoaderStep ==
  ASSUME Inv, BootLoader, UNCHANGED <<tzVars, request, file, reply, uploads>>, installed' = Rest
  PROVE  Inv' /\ [Trial!Next]_<<slots[KeptSlot], slots[Other(KeptSlot)]>>
<1>1. /\ TypeOK /\ SlotsInv /\ RequestInv /\ MapInv /\ MapInUseIsWhole
      /\ stage = "off" /\ stage' = "timezoneInit" /\ ~ ServerUp
      /\ UNCHANGED <<slots, first, otaState, resets, tzmap, timezoneBuildDate, request>>
  BY DEF Inv, BootLoader, ServerUp, tzVars
<1>2. request' = Idle /\ request'.kind = "none"
  BY <1>1, NoRequest
<1>3. /\ first \in Slots /\ Other(first) \in Slots /\ Other(first) # first
      /\ Other(Other(first)) = first /\ otadata \in [Slots -> States]
  BY <1>1, SlotFacts DEF TypeOK
<1>4. Chosen \in Slots /\ Other(Chosen) \in Slots
  BY <1>3 DEF Chosen
<1>5. /\ otadata' = [s \in Slots |-> IF s = Chosen /\ Judged(s) = "new" THEN "pending" ELSE Judged(s)]
      /\ running' = IF slots[Chosen] \in Images THEN Chosen ELSE Other(Chosen)
  BY DEF BootLoader
<1>6. otadata' \in [Slots -> States] /\ running' \in Slots
  <2>1. \A s \in Slots : Judged(s) \in States
    BY <1>3 DEF Judged, States
  <2> QED BY <1>4, <1>5, <2>1 DEF States
<1>7. TypeOK'
  BY <1>1, <1>6 DEF TypeOK, Stages, BootLoader, tzVars
<1>8. CASE otadata[first] \in {"valid", "undefined"}
  <2>1. KeptSlot = first /\ Judged(first) = otadata[first] /\ Chosen = first
    BY <1>8 DEF KeptSlot, Judged, Chosen
  <2>2. otadata'[first] = otadata[first]
    BY <1>3, <1>5, <1>8, <2>1
  <2>3. KeptSlot' = first
    BY <1>1, <1>8, <2>2 DEF KeptSlot
  <2>4. running' = first /\ slots[first] \in Images
    BY <1>1, <1>5, <2>1, WorkingAssumption DEF SlotsInv
  <2> QED
    <3>1. SlotsInv'
      BY <1>1, <1>8, <2>1, <2>2, <2>3, <2>4 DEF SlotsInv
    <3>2. slots'[KeptSlot'] = slots[KeptSlot] /\ slots'[Other(KeptSlot')] = slots[Other(KeptSlot)]
      BY <1>1, <2>1, <2>3
    <3>3. RequestInv' /\ MapInv' /\ MapInUseIsWhole'
      BY <1>1, <1>2, SameMap DEF RequestInv
    <3> QED BY <1>7, <3>1, <3>2, <3>3 DEF Inv, Other
<1>9. CASE otadata[first] \notin {"valid", "undefined"}
  <2>1. KeptSlot = Other(first) /\ otadata[Other(first)] \in {"valid", "undefined"}
    BY <1>1, <1>9 DEF KeptSlot, SlotsInv
  <2>2. otadata'[Other(first)] = otadata[Other(first)]
    BY <1>3, <1>5, <2>1 DEF Judged
  <2>3. Judged(first) \in {"new", "aborted"}
    BY <1>3, <1>9 DEF Judged, States
  <2>4. CASE Judged(first) = "aborted"
    <3>1. Chosen = Other(first) /\ otadata'[first] = "aborted"
      BY <1>3, <1>5, <2>4 DEF Chosen
    <3>2. KeptSlot' = Other(first)
      BY <1>1, <3>1 DEF KeptSlot, Other
    <3>3. running' = Other(first) /\ slots[Other(first)] \in Images
      BY <1>1, <1>5, <2>1, <3>1, WorkingAssumption DEF SlotsInv
    <3>4. SlotsInv'
      BY <1>1, <2>1, <2>2, <3>2, <3>3 DEF SlotsInv
    <3>5. slots'[KeptSlot'] = slots[KeptSlot] /\ slots'[Other(KeptSlot')] = slots[Other(KeptSlot)]
      BY <1>1, <2>1, <3>2
    <3>6. RequestInv' /\ MapInv' /\ MapInUseIsWhole'
      BY <1>1, <1>2, SameMap DEF RequestInv
    <3> QED BY <1>7, <3>4, <3>5, <3>6 DEF Inv, Other
  <2>5. CASE Judged(first) = "new"
    <3>1. Chosen = first /\ otadata'[first] = "pending"
      BY <1>3, <1>5, <2>5 DEF Chosen
    <3>2. KeptSlot' = Other(first)
      BY <1>1, <3>1 DEF KeptSlot, Other
    <3>3. /\ slots[running'] \in Images
          /\ running' = Other(first) \/ running' = first
      BY <1>5, <3>1 DEF BootLoader
    <3>4. SlotsInv'
      BY <1>1, <2>1, <2>2, <3>1, <3>2, <3>3 DEF SlotsInv
    <3>5. slots'[KeptSlot'] = slots[KeptSlot] /\ slots'[Other(KeptSlot')] = slots[Other(KeptSlot)]
      BY <1>1, <2>1, <3>2
    <3>6. RequestInv' /\ MapInv' /\ MapInUseIsWhole'
      BY <1>1, <1>2, SameMap DEF RequestInv
    <3> QED BY <1>7, <3>4, <3>5, <3>6 DEF Inv, Other
  <2> QED BY <2>3, <2>4, <2>5
<1> QED BY <1>8, <1>9

\* The image that runs has worked: it is kept from now on, or was already.
LEMMA MarkValidStep ==
  ASSUME Inv, MarkValid, UNCHANGED <<tzVars, request, file, reply, uploads, installed>>
  PROVE  Inv' /\ [Trial!Next]_<<slots[KeptSlot], slots[Other(KeptSlot)]>>
<1>1. /\ TypeOK /\ SlotsInv /\ RequestInv /\ MapInv /\ MapInUseIsWhole
      /\ stage = "mark_valid" /\ stage' = "done" /\ ServerUp /\ ServerUp'
      /\ slots[running] \in Working
      /\ UNCHANGED <<slots, first, running, otaState, resets, tzmap, timezoneBuildDate, request>>
  BY DEF Inv, MarkValid, Reach, ServerUp, tzVars
<1>2. /\ first \in Slots /\ running \in Slots /\ Other(first) \in Slots /\ Other(first) # first
      /\ Other(Other(first)) = first /\ otadata \in [Slots -> States]
  BY <1>1, SlotFacts DEF TypeOK
<1>3. CASE UNCHANGED otadata
  <2>1. TypeOK'
    BY <1>1, <1>3 DEF TypeOK, Stages, tzVars
  <2>2. SlotsInv' /\ KeptSlot' = KeptSlot /\ [Trial!Next]_<<slots[KeptSlot], slots[Other(KeptSlot)]>>
    BY <1>1, <1>3, SameSlots
  <2>3. RequestInv' /\ MapInv' /\ MapInUseIsWhole'
    BY <1>1, <2>2, SameMap DEF RequestInv
  <2> QED BY <2>1, <2>2, <2>3 DEF Inv
<1>4. CASE otadata' = [otadata EXCEPT ![running] = "valid"]
  <2>1. otadata' \in [Slots -> States] /\ otadata'[running] = "valid"
    BY <1>2, <1>4 DEF States
  <2>2. TypeOK'
    BY <1>1, <2>1 DEF TypeOK, Stages, tzVars
  <2>3. CASE running = KeptSlot
    <3>1. KeptSlot' = KeptSlot
      <4>1. CASE first = running
        BY <1>1, <2>1, <2>3, <4>1 DEF KeptSlot
      <4>2. CASE first # running
        <5>1. otadata'[first] = otadata[first] /\ running = Other(first)
          BY <1>2, <1>4, <2>3, <4>2 DEF KeptSlot
        <5> QED BY <1>1, <2>3, <4>2, <5>1 DEF KeptSlot, Other
      <4> QED BY <4>1, <4>2
    <3>2. SlotsInv'
      BY <1>1, <2>1, <2>3, <3>1 DEF SlotsInv
    <3>3. slots'[KeptSlot'] = slots[KeptSlot] /\ slots'[Other(KeptSlot')] = slots[Other(KeptSlot)]
      BY <1>1, <3>1
    <3>4. RequestInv' /\ MapInv' /\ MapInUseIsWhole'
      BY <1>1, <3>1, SameMap DEF RequestInv
    <3> QED BY <2>2, <3>2, <3>3, <3>4 DEF Inv, Other
  <2>4. CASE running # KeptSlot
    <3>1. running = first /\ slots[running] \in Images /\ KeptSlot = Other(first)
      BY <1>1, <2>4 DEF SlotsInv, KeptSlot
    <3>2. KeptSlot' = first
      BY <1>1, <2>1, <3>1 DEF KeptSlot
    <3>3. SlotsInv'
      BY <1>1, <2>1, <3>1, <3>2 DEF SlotsInv
    <3>4. request.kind # "executable"
      BY <1>1, <2>4 DEF RequestInv
    <3>5. RequestInv' /\ MapInv' /\ MapInUseIsWhole'
      BY <1>1, <3>4, SameMap DEF RequestInv
    <3>6. slots'[KeptSlot'] = slots[Other(KeptSlot)] /\ slots[Other(KeptSlot)] \in Working
      BY <1>1, <1>2, <3>1, <3>2
    <3>7. slots'[Other(KeptSlot')] \in Images \cup {Rest}
      BY <1>1, <1>2, <3>2 DEF TypeOK
    <3>8. Trial!Confirm
      BY <3>6, <3>7 DEF Trial!Confirm, Other
    <3> QED BY <2>2, <3>3, <3>5, <3>8 DEF Inv, Trial!Next
  <2> QED BY <2>3, <2>4
<1> QED BY <1>3, <1>4 DEF MarkValid

\* The other stages: only app_main's place changes, and its variable.
LEMMA StageStep ==
  ASSUME Inv, app_main, ~ MarkValid, UNCHANGED <<tzVars, request, file, reply, uploads, installed>>
  PROVE  Inv' /\ [Trial!Next]_<<slots[KeptSlot], slots[Other(KeptSlot)]>>
<1>1. TypeOK /\ SlotsInv /\ RequestInv /\ MapInv /\ MapInUseIsWhole
  BY DEF Inv
<1>2. /\ UNCHANGED <<slots, otadata, first, running, resets>>
      /\ otaState' = otaState \/ otaState' \in States \/ otaState' = otadata[running]
      /\ stage \in Stages \ {"off"} /\ stage' \in Stages \ {"off"}
      /\ ServerUp => ServerUp'
  BY DEF app_main, ReadOtaState, init_spiffs, LoadSettings, StartDevices, StartNetwork,
         start_file_server, Connect, obtain_time, StartClock, Stage, Reach, Stages, ServerUp
<1>3. otaState' \in States
  BY <1>1, <1>2 DEF TypeOK
<1>4. TypeOK'
  BY <1>1, <1>2, <1>3 DEF TypeOK, tzVars
<1>5. SlotsInv' /\ KeptSlot' = KeptSlot /\ [Trial!Next]_<<slots[KeptSlot], slots[Other(KeptSlot)]>>
  BY <1>1, <1>2, SameSlots
<1>6. MapInv' /\ MapInUseIsWhole'
  BY <1>1, SameMap DEF tzVars
<1>7. RequestInv'
  BY <1>1, <1>2, <1>5 DEF RequestInv
<1> QED BY <1>4, <1>5, <1>6, <1>7 DEF Inv

\* A map is used only if its first and its last part are there, and so all of it.
LEMMA StartMapStep ==
  ASSUME Inv, StartMap
  PROVE  Inv' /\ [Trial!Next]_<<slots[KeptSlot], slots[Other(KeptSlot)]>>
<1>1. /\ TypeOK /\ SlotsInv /\ RequestInv /\ MapInv /\ MapInUseIsWhole
      /\ stage = "timezoneInit" /\ stage' = "ota_state" /\ ~ ServerUp
      /\ UNCHANGED <<slots, otadata, first, running, otaState, resets, tzmap, request>>
      /\ timezoneBuildDate' =
           IF tzmap[1] \notin OtherSize \cup {Erased} /\ tzmap[MapParts] # Erased
             THEN "build date" ELSE "bad"
  BY DEF Inv, StartMap, timezoneInit, ServerUp
<1>2. request = Idle /\ request.kind = "none" /\ request.at = "idle"
  BY <1>1, NoRequest
<1>3. TypeOK'
  BY <1>1 DEF TypeOK, Stages, StartMap
<1>4. SlotsInv' /\ KeptSlot' = KeptSlot /\ [Trial!Next]_<<slots[KeptSlot], slots[Other(KeptSlot)]>>
  BY <1>1, SameSlots
<1>5. RequestInv'
  BY <1>1, <1>2 DEF RequestInv
<1>6. PICK map \in Maps, lo \in 0 .. MapParts, hi \in 0 .. MapParts : Holds(tzmap, map, lo, hi)
  BY <1>1 DEF MapInv
<1>7. MapInv'
  <2>1. Holds(tzmap', map, lo, hi)
    BY <1>1, <1>6 DEF Holds
  <2>2. request'.kind # "tzmap"
    BY <1>1, <1>2
  <2> QED BY <2>1, <2>2, Zenon DEF MapInv, At
<1>8. MapInUseIsWhole'
  <2>1. SUFFICES ASSUME timezoneBuildDate' # "bad"
                 PROVE  map \notin OtherSize /\ tzmap = [p \in 1 .. MapParts |-> map]
    BY <1>1 DEF MapInUseIsWhole
  <2>2. tzmap[1] # Erased /\ tzmap[MapParts] # Erased /\ tzmap[1] \notin OtherSize
    BY <1>1, <2>1
  <2>3. 1 \in 1 .. MapParts /\ MapParts \in 1 .. MapParts
    BY MapsAssumption
  <2>4. lo = 0 /\ hi = MapParts
    BY <1>6, <2>2, <2>3, MapsAssumption DEF Holds
  <2>5. tzmap \in [1 .. MapParts -> Maps \cup {Erased}]
    BY <1>1, Zenon DEF TypeOK
  <2>6. \A p \in 1 .. MapParts : tzmap[p] = map
    BY <1>6, <2>4, MapsAssumption DEF Holds
  <2> QED BY <2>2, <2>3, <2>5, <2>6
<1> QED BY <1>3, <1>4, <1>5, <1>7, <1>8 DEF Inv

\* A restart forgets the request and the map in use.
LEMMA RestartStep ==
  ASSUME Inv, Restart
  PROVE  Inv' /\ [Trial!Next]_<<slots[KeptSlot], slots[Other(KeptSlot)]>>
<1>1. /\ TypeOK /\ SlotsInv /\ RequestInv /\ MapInv /\ MapInUseIsWhole
      /\ UNCHANGED <<slots, otadata, first, running, otaState, tzmap, file, uploads, installed>>
      /\ stage' = "off" /\ resets' \in 0 .. MaxResets /\ reply' = "none"
      /\ request' = Idle /\ request'.kind = "none" /\ timezoneBuildDate' = "bad"
  <2>1. /\ TypeOK /\ SlotsInv /\ RequestInv /\ MapInv /\ MapInUseIsWhole
        /\ Reset \/ Crash
        /\ request' = Idle /\ timezoneBuildDate' = "bad" /\ reply' = "none"
        /\ UNCHANGED <<tzmap, file, uploads, installed>>
    BY DEF Inv, Restart
  <2>2. /\ UNCHANGED <<slots, otadata, first, running, otaState>> /\ stage' = "off"
        /\ resets' = resets \/ (resets' = resets + 1 /\ resets < MaxResets)
    BY <2>1 DEF Reset, Crash
  <2>3. resets' \in 0 .. MaxResets
    <3>1. resets \in 0 .. MaxResets
      BY <2>1, Zenon DEF TypeOK
    <3> QED BY <2>2, <3>1, ResetsAssumption
  <2>4. request'.kind = "none"
    BY <2>1 DEF Idle
  <2> QED BY <2>1, <2>2, <2>3, <2>4
<1>2. TypeOK'
  BY <1>1 DEF TypeOK, Stages, Requests
<1>3. SlotsInv' /\ KeptSlot' = KeptSlot /\ [Trial!Next]_<<slots[KeptSlot], slots[Other(KeptSlot)]>>
  BY <1>1, SameSlots
<1>4. RequestInv'
  BY <1>1 DEF RequestInv
<1>5. MapInv' /\ MapInUseIsWhole'
  BY <1>1, OtherRequest
<1> QED BY <1>2, <1>3, <1>4, <1>5 DEF Inv

-----------------------------------------------------------------------------
(* The requests.                                                             *)

\* A step of a request that does not touch the firmware.
LEMMA SameFirmware ==
  ASSUME SlotsInv, RequestInv, UNCHANGED fwVars, ServerUp,
         request'.kind = "executable" => request.kind = "executable"
  PROVE  /\ SlotsInv' /\ RequestInv'
         /\ [Trial!Next]_<<slots[KeptSlot], slots[Other(KeptSlot)]>>
<1>1. UNCHANGED <<slots, otadata, first, running, stage, otaState, resets>>
  BY DEF fwVars
<1>2. SlotsInv' /\ KeptSlot' = KeptSlot /\ [Trial!Next]_<<slots[KeptSlot], slots[Other(KeptSlot)]>>
  BY <1>1, SameSlots
<1>3. RequestInv'
  BY <1>1, <1>2 DEF RequestInv, ServerUp
<1> QED BY <1>2, <1>3

\* What is known of a request of each kind.
LEMMA RequestFacts ==
  ASSUME TypeOK, RequestInv
  PROVE  /\ request.kind # "none" => request # Idle /\ ServerUp
         /\ request.kind = "tzmap" =>
              request \in [kind : {"tzmap"}, at : {"erase", "receive"}, body : Maps, done : 0 .. MapParts]
         /\ request.kind = "executable" =>
              request \in [kind : {"executable"}, at : {"receive"}, body : Images \cup {Junk},
                           done : 0 .. Parts]
         /\ request.kind = "file" =>
              request \in [kind : {"file"}, at : {"receive"}, body : {Rest}, done : 0 .. Parts]
<1>1. request \in Requests
  BY Zenon DEF TypeOK
<1>2. request.kind # "none" => request # Idle
  BY DEF Idle
<1> QED BY <1>1, <1>2 DEF Requests, Idle, RequestInv

\* A step of a request that leaves the flash's map and the firmware to the facts given.
LEMMA TypeStep ==
  ASSUME TypeOK, UNCHANGED <<first, running, stage, otaState, resets>>,
         slots' \in [Slots -> Images \cup {Rest}], otadata' \in [Slots -> States],
         tzmap' \in [1 .. MapParts -> Maps \cup {Erased}],
         timezoneBuildDate' \in {timezoneBuildDate, "bad"},
         request' \in Requests, uploads' \in 0 .. MaxUploads,
         file' \in {Absent} \cup 0 .. Parts, reply' \in {reply, "ok", "error"},
         installed' \in {installed, Rest}
  PROVE  TypeOK'
BY Zenon DEF TypeOK

LEMMA BeginCounts ==
  ASSUME TypeOK, uploads < MaxUploads, uploads' = uploads + 1
  PROVE  uploads' \in 0 .. MaxUploads
<1>1. uploads \in 0 .. MaxUploads /\ MaxUploads \in Nat
  BY Zenon, PartsAssumption DEF TypeOK
<1> QED BY <1>1

\* What the partition holds when its next part is erased, or written.
LEMMA ErasedPart ==
  ASSUME NEW flash \in [1 .. MapParts -> Maps \cup {Erased}],
         NEW map, NEW lo \in 0 .. MapParts, NEW hi \in 0 .. MapParts,
         NEW at \in 1 .. MapParts, at <= lo + 1, Holds(flash, map, lo, hi)
  PROVE  Holds([flash EXCEPT ![at] = Erased], map, IF lo < at THEN at ELSE lo, hi)
BY MapsAssumption DEF Holds

LEMMA WrittenPart ==
  ASSUME NEW flash \in [1 .. MapParts -> Maps \cup {Erased}],
         NEW map, NEW at \in 0 .. MapParts, at < MapParts, Holds(flash, map, 0, at)
  PROVE  Holds([flash EXCEPT ![at + 1] = map], map, 0, at + 1)
BY MapsAssumption DEF Holds

LEMMA UploadMapStep ==
  ASSUME Inv, UploadMap
  PROVE  Inv' /\ [Trial!Next]_<<slots[KeptSlot], slots[Other(KeptSlot)]>>
<1>1. /\ TypeOK /\ SlotsInv /\ RequestInv /\ MapInv /\ MapInUseIsWhole
      /\ UNCHANGED fwVars /\ UNCHANGED <<file, installed>>
  BY DEF Inv, UploadMap, BeginMap, EraseMap, ReceiveMap, WriteMapFails, EndMap
<1>2. UNCHANGED <<slots, otadata, first, running, stage, otaState, resets>>
  BY <1>1 DEF fwVars
<1>3. /\ slots \in [Slots -> Images \cup {Rest}] /\ otadata \in [Slots -> States]
      /\ tzmap \in [1 .. MapParts -> Maps \cup {Erased}]
      /\ uploads \in 0 .. MaxUploads /\ file \in {Absent} \cup 0 .. Parts
  BY <1>1, Zenon DEF TypeOK
<1>4. MapParts \in Nat \ {0}
  BY MapsAssumption
<1>5. CASE BeginMap
  <2>1. PICK map \in Maps : Begin("tzmap", "erase", map)
    BY <1>5 DEF BeginMap
  <2>2. /\ ServerUp /\ uploads' \in 0 .. MaxUploads
        /\ request' = [kind |-> "tzmap", at |-> "erase", body |-> map, done |-> 0]
    BY <1>1, <2>1, BeginCounts DEF Begin
  <2>3. UNCHANGED <<tzmap, reply>> /\ timezoneBuildDate' = "bad"
    BY <1>5 DEF BeginMap
  <2>4. request' \in Requests
    BY <1>4, <2>2 DEF Requests
  <2>5. TypeOK'
    BY <1>1, <1>2, <1>3, <2>2, <2>3, <2>4, TypeStep
  <2>6. PICK m \in Maps, lo \in 0 .. MapParts, hi \in 0 .. MapParts : Holds(tzmap, m, lo, hi)
    BY <1>1 DEF MapInv
  <2>7. MapInv'
    <3>1. request'.kind = "tzmap" /\ request'.at = "erase" /\ request'.done = 0
      BY <2>2
    <3>2. Holds(tzmap', m, lo, hi)
      BY <2>3, <2>6
    <3>3. \A mm \in Maps : \A l \in 0 .. MapParts : \A h \in 0 .. MapParts :
            Holds(tzmap', mm, l, h) => MapInv'
      <4> SUFFICES ASSUME NEW mm \in Maps, NEW l \in 0 .. MapParts, NEW h \in 0 .. MapParts,
                          Holds(tzmap', mm, l, h)
                   PROVE  MapInv'
        OBVIOUS
      <4>1. 0 <= l
        BY <1>4
      <4>2. request'.done <= l /\ ~ At("tzmap", "receive")' /\ timezoneBuildDate' = "bad"
        BY <2>3, <3>1, <4>1 DEF At
      <4> QED BY <4>2, Zenon DEF MapInv
    <3> QED BY <3>2, <3>3
  <2>8. MapInUseIsWhole'
    BY <2>3 DEF MapInUseIsWhole
  <2> QED BY <1>1, <2>2, <2>5, <2>7, <2>8, SameFirmware DEF Inv
<1>6. CASE EraseMap
  <2>1. /\ request.kind = "tzmap" /\ request.at = "erase" /\ At("tzmap", "erase")
        /\ UNCHANGED <<timezoneBuildDate, reply, uploads>>
    BY <1>6 DEF EraseMap, At
  <2>2. /\ ServerUp
        /\ request \in [kind : {"tzmap"}, at : {"erase", "receive"}, body : Maps, done : 0 .. MapParts]
    BY <1>1, <2>1, RequestFacts
  <2>3. timezoneBuildDate = "bad"
    BY <1>1, <2>1 DEF MapInv
  <2>4. PICK m \in Maps, lo \in 0 .. MapParts, hi \in 0 .. MapParts :
          Holds(tzmap, m, lo, hi) /\ request.done <= lo
    BY <1>1, <2>1 DEF MapInv
  <2>5. CASE request.done < MapParts
    <3> DEFINE at == request.done + 1
               lo2 == IF lo < at THEN at ELSE lo
    <3>1. /\ tzmap' = [tzmap EXCEPT ![at] = Erased]
          /\ request' = [request EXCEPT !.done = at]
      BY <1>6, <2>5 DEF EraseMap, ErasePart
    <3>2. request.done \in 0 .. MapParts /\ at \in 1 .. MapParts /\ lo2 \in 0 .. MapParts /\ at <= lo2
      BY <1>4, <2>2, <2>5
    <3>3. Holds(tzmap', m, lo2, hi)
      <4>1. at <= lo + 1
        BY <2>4, <3>2
      <4> HIDE DEF at
      <4>2. Holds([tzmap EXCEPT ![at] = Erased], m, lo2, hi)
        BY <1>3, <2>4, <3>2, <4>1, ErasedPart
      <4> QED BY <3>1, <4>2
    <3>4. /\ request' \in [kind : {"tzmap"}, at : {"erase"}, body : Maps, done : 0 .. MapParts]
          /\ request'.kind = "tzmap" /\ request'.at = "erase" /\ request'.done = at
      BY <2>1, <2>2, <3>1, <3>2
    <3>5. MapInv'
      <4>1. Holds(tzmap', m, lo2, hi) /\ request'.done <= lo2
        BY <3>2, <3>3, <3>4
      <4> HIDE DEF lo2, at
      <4> QED BY <2>1, <2>3, <3>2, <3>4, <4>1 DEF MapInv, At, Holds
    <3>6. tzmap' \in [1 .. MapParts -> Maps \cup {Erased}]
      BY <1>3, <3>1, <3>2
    <3>7. request' \in Requests
      BY <3>4 DEF Requests
    <3>8. TypeOK'
      BY <1>1, <1>2, <1>3, <2>1, <3>6, <3>7, TypeStep
    <3>9. MapInUseIsWhole'
      BY <2>1, <2>3 DEF MapInUseIsWhole
    <3> QED BY <1>1, <2>2, <3>4, <3>5, <3>8, <3>9, SameFirmware DEF Inv
  <2>6. CASE ~ (request.done < MapParts)
    <3>1. request' = [request EXCEPT !.at = "receive", !.done = 0] /\ UNCHANGED tzmap
      BY <1>6, <2>6 DEF EraseMap
    <3>2. request.done \in 0 .. MapParts /\ lo = MapParts /\ request.body \in Maps
      BY <1>4, <2>2, <2>4, <2>6
    <3>3. Holds(tzmap', request.body, 0, 0)
      BY <1>4, <2>4, <3>1, <3>2 DEF Holds
    <3>4. /\ request' \in [kind : {"tzmap"}, at : {"receive"}, body : Maps, done : 0 .. MapParts]
          /\ request'.kind = "tzmap" /\ request'.at = "receive" /\ request'.done = 0
          /\ request'.body = request.body
      <4>1. request' = [kind |-> "tzmap", at |-> "receive", body |-> request.body, done |-> 0]
        BY <2>1, <2>2, <3>1
      <4> QED BY <1>4, <3>2, <4>1
    <3>5. MapInv'
      BY <1>4, <2>1, <2>3, <3>2, <3>3, <3>4 DEF MapInv, At, Holds
    <3>7. request' \in Requests
      BY <3>4 DEF Requests
    <3>8. TypeOK'
      BY <1>1, <1>2, <1>3, <2>1, <3>1, <3>7, TypeStep
    <3>9. MapInUseIsWhole'
      BY <2>1, <2>3 DEF MapInUseIsWhole
    <3> QED BY <1>1, <2>2, <3>4, <3>5, <3>8, <3>9, SameFirmware DEF Inv
  <2> QED BY <2>5, <2>6
<1>7. CASE ReceiveMap
  <2>1. /\ request.kind = "tzmap" /\ request.at = "receive" /\ At("tzmap", "receive")
        /\ request.done < MapParts /\ UNCHANGED <<timezoneBuildDate, reply, uploads>>
        /\ tzmap' = [tzmap EXCEPT ![request.done + 1] = request.body]
        /\ request' = [request EXCEPT !.done = request.done + 1]
    BY <1>7 DEF ReceiveMap, Receiving, At, WritePart
  <2>2. /\ ServerUp
        /\ request \in [kind : {"tzmap"}, at : {"erase", "receive"}, body : Maps, done : 0 .. MapParts]
    BY <1>1, <2>1, RequestFacts
  <2>3. timezoneBuildDate = "bad"
    BY <1>1, <2>1 DEF MapInv
  <2>4. Holds(tzmap, request.body, 0, request.done)
    BY <1>1, <2>1 DEF MapInv
  <2>5. request.done \in 0 .. MapParts /\ request.done + 1 \in 1 .. MapParts /\ request.body \in Maps
    BY <1>4, <2>1, <2>2
  <2>6. Holds(tzmap', request.body, 0, request.done + 1)
    BY <1>3, <1>4, <2>1, <2>4, <2>5, WrittenPart
  <2>7. /\ request' \in [kind : {"tzmap"}, at : {"receive"}, body : Maps, done : 0 .. MapParts]
        /\ request'.kind = "tzmap" /\ request'.at = "receive" /\ request'.body = request.body
        /\ request'.done = request.done + 1
    BY <1>4, <2>1, <2>2, <2>5
  <2>8. MapInv'
    <3>1. request'.done \in 0 .. MapParts /\ 0 \in 0 .. MapParts /\ ~ At("tzmap", "erase")'
      BY <1>4, <2>5, <2>7 DEF At
    <3>2. Holds(tzmap', request'.body, 0, request'.done)
      BY <2>6, <2>7
    <3> QED BY <2>1, <2>3, <2>5, <2>7, <3>1, <3>2 DEF MapInv, Holds
  <2>9. TypeOK'
    <3>1. tzmap' \in [1 .. MapParts -> Maps \cup {Erased}] /\ request' \in Requests
      BY <1>3, <2>1, <2>5, <2>7 DEF Requests
    <3> QED BY <1>1, <1>2, <1>3, <2>1, <3>1, TypeStep
  <2>10. MapInUseIsWhole'
    BY <2>1, <2>3 DEF MapInUseIsWhole
  <2> QED BY <1>1, <2>2, <2>7, <2>8, <2>9, <2>10, SameFirmware DEF Inv
<1>8. CASE EndMap \/ (WriteMapFails /\ UNCHANGED tzmap)
  <2>1. /\ request.kind = "tzmap" /\ UNCHANGED <<tzmap, timezoneBuildDate, uploads>>
        /\ request' = Idle /\ request'.kind = "none" /\ reply' \in {"ok", "error"}
    BY <1>8 DEF WriteMapFails, EndMap, Receiving, At, Answer, tzVars, Idle
  <2>2. ServerUp /\ request' \in Requests
    BY <1>1, <2>1, RequestFacts DEF Requests
  <2>3. TypeOK'
    BY <1>1, <1>2, <1>3, <2>1, <2>2, TypeStep
  <2>4. MapInv' /\ MapInUseIsWhole'
    BY <1>1, <2>1, OtherRequest
  <2> QED BY <1>1, <2>1, <2>2, <2>3, <2>4, SameFirmware DEF Inv
<1>9. CASE WriteMapFails /\ WritePart(request.done + 1, request.body)
  <2>1. /\ request.kind = "tzmap" /\ At("tzmap", "receive") /\ request.done < MapParts
        /\ tzmap' = [tzmap EXCEPT ![request.done + 1] = request.body]
        /\ UNCHANGED <<timezoneBuildDate, uploads>>
        /\ request' = Idle /\ request'.kind = "none" /\ reply' = "error"
    BY <1>9 DEF WriteMapFails, Receiving, At, Answer, WritePart, Idle
  <2>2. /\ ServerUp /\ request' \in Requests
        /\ request \in [kind : {"tzmap"}, at : {"erase", "receive"}, body : Maps, done : 0 .. MapParts]
    BY <1>1, <2>1, RequestFacts DEF Requests
  <2>3. timezoneBuildDate = "bad" /\ Holds(tzmap, request.body, 0, request.done)
    BY <1>1, <2>1 DEF MapInv
  <2>4. request.done \in 0 .. MapParts /\ request.done + 1 \in 1 .. MapParts /\ request.body \in Maps
    BY <1>4, <2>1, <2>2
  <2>5. Holds(tzmap', request.body, 0, request.done + 1)
    BY <1>3, <1>4, <2>1, <2>3, <2>4, WrittenPart
  <2>6. MapInv'
    <3>1. 0 \in 0 .. MapParts /\ request.done + 1 \in 0 .. MapParts
      BY <1>4, <2>4
    <3>2. ~ At("tzmap", "erase")' /\ ~ At("tzmap", "receive")' /\ timezoneBuildDate' = "bad"
      BY <2>1, <2>3 DEF At
    <3> QED BY <2>4, <2>5, <3>1, <3>2 DEF MapInv, Holds
  <2>7. MapInUseIsWhole'
    BY <2>1, <2>3 DEF MapInUseIsWhole
  <2>8. TypeOK'
    <3>1. tzmap' \in [1 .. MapParts -> Maps \cup {Erased}]
      BY <1>3, <2>1, <2>4
    <3> QED BY <1>1, <1>2, <1>3, <2>1, <2>2, <3>1, TypeStep
  <2> QED BY <1>1, <2>1, <2>2, <2>6, <2>7, <2>8, SameFirmware DEF Inv
<1> QED BY <1>5, <1>6, <1>7, <1>8, <1>9 DEF UploadMap, WriteMapFails

\* An executable goes to the slot that is not kept.
LEMMA BeginExecutableStep ==
  ASSUME Inv, BeginExecutable
  PROVE  Inv' /\ [Trial!Next]_<<slots[KeptSlot], slots[Other(KeptSlot)]>>
<1>1. /\ TypeOK /\ SlotsInv /\ RequestInv /\ MapInv /\ MapInUseIsWhole
      /\ otadata[running] # "pending" /\ slots' = [slots EXCEPT ![Other(running)] = Rest]
      /\ UNCHANGED <<otadata, first, running, stage, otaState, resets, tzmap,
                     timezoneBuildDate, file, reply>>
      /\ installed' = Rest
  BY DEF Inv, BeginExecutable, esp_ota_begin_fails, EraseSlot, tzVars
<1>2. PICK image \in Images \cup {Junk} : Begin("executable", "receive", image)
  BY DEF BeginExecutable
<1>3. /\ ServerUp /\ stage # "off" /\ uploads < MaxUploads /\ uploads' = uploads + 1
      /\ request' = [kind |-> "executable", at |-> "receive", body |-> image, done |-> 0]
      /\ request'.kind = "executable"
  BY <1>2 DEF Begin, ServerUp
<1>4. /\ slots \in [Slots -> Images \cup {Rest}] /\ otadata \in [Slots -> States]
      /\ tzmap \in [1 .. MapParts -> Maps \cup {Erased}]
      /\ file \in {Absent} \cup 0 .. Parts
  BY <1>1, Zenon DEF TypeOK
<1>5. running = KeptSlot
  BY <1>1, <1>3 DEF SlotsInv
<1>6. /\ KeptSlot \in Slots /\ Other(KeptSlot) \in Slots /\ Other(KeptSlot) # KeptSlot
  BY <1>1, SlotFacts
<1>7. KeptSlot' = KeptSlot
  BY <1>1 DEF KeptSlot, Other
<1>8. /\ slots'[KeptSlot] = slots[KeptSlot] /\ slots'[Other(KeptSlot)] = Rest
      /\ slots' \in [Slots -> Images \cup {Rest}]
  BY <1>1, <1>4, <1>5, <1>6
<1>9. TypeOK'
  <2>1. request' \in Requests
    BY <1>3, PartsAssumption DEF Requests
  <2>2. uploads' \in 0 .. MaxUploads
    BY <1>1, <1>3, BeginCounts
  <2> QED BY <1>1, <1>4, <1>8, <2>1, <2>2, TypeStep
<1>10. SlotsInv'
  BY <1>1, <1>3, <1>5, <1>7, <1>8, WorkingAssumption DEF SlotsInv
<1>11. RequestInv'
  BY <1>1, <1>3, <1>5, <1>7 DEF RequestInv, ServerUp
<1>12. MapInv' /\ MapInUseIsWhole'
  BY <1>1, <1>3, OtherRequest
<1>13. Trial!Install
  <2>1. slots'[KeptSlot'] = slots[KeptSlot] /\ slots'[Other(KeptSlot')] = Rest
    BY <1>7, <1>8
  <2> QED BY <2>1 DEF Trial!Install, Other
<1> QED BY <1>9, <1>10, <1>11, <1>12, <1>13 DEF Inv, Trial!Next

\* A new image is tried next, or nothing is told to the boot loader; the one that runs
\* is kept.
LEMMA InstallImageStep ==
  ASSUME Inv, InstallImage
  PROVE  Inv' /\ [Trial!Next]_<<slots[KeptSlot], slots[Other(KeptSlot)]>>
<1>1. /\ TypeOK /\ SlotsInv /\ RequestInv /\ MapInv /\ MapInUseIsWhole
      /\ request.kind = "executable" /\ request.body \in Images
      /\ slots' = [slots EXCEPT ![Other(running)] = request.body]
      /\ \/ UNCHANGED <<otadata, first>> /\ installed' = installed
         \/ /\ otadata' = [otadata EXCEPT ![Other(running)] = "new"] /\ first' = Other(running)
            /\ installed' = request.body
      /\ request' = Idle /\ request'.kind = "none" /\ reply' = "ok"
      /\ UNCHANGED <<running, stage, otaState, resets, tzmap, timezoneBuildDate, file, uploads>>
  BY DEF Inv, InstallImage, At, WriteSlot, esp_ota_set_boot_partition,
         esp_ota_set_boot_partition_fails, Answer, Idle, tzVars
<1>2. ServerUp /\ stage # "off" /\ running = KeptSlot
  BY <1>1, RequestFacts DEF RequestInv, ServerUp
<1>3. /\ slots \in [Slots -> Images \cup {Rest}] /\ otadata \in [Slots -> States]
      /\ tzmap \in [1 .. MapParts -> Maps \cup {Erased}]
      /\ file \in {Absent} \cup 0 .. Parts /\ uploads \in 0 .. MaxUploads
      /\ first \in Slots /\ installed \in Images \cup {Rest}
  BY <1>1, Zenon DEF TypeOK
<1>4. /\ KeptSlot \in Slots /\ Other(KeptSlot) \in Slots /\ Other(KeptSlot) # KeptSlot
      /\ Other(Other(KeptSlot)) = KeptSlot
  BY <1>1, SlotFacts
<1>5. /\ slots'[KeptSlot] = slots[KeptSlot] /\ slots'[Other(KeptSlot)] = request.body
      /\ slots' \in [Slots -> Images \cup {Rest}]
  BY <1>1, <1>2, <1>3, <1>4
<1>6. /\ otadata'[KeptSlot] = otadata[KeptSlot] /\ otadata' \in [Slots -> States]
      /\ first' \in Slots /\ KeptSlot' = KeptSlot /\ installed' \in Images \cup {Rest}
  <2>1. CASE UNCHANGED <<otadata, first>> /\ installed' = installed
    BY <1>3, <2>1 DEF KeptSlot, Other
  <2>2. CASE /\ otadata' = [otadata EXCEPT ![Other(running)] = "new"] /\ first' = Other(running)
             /\ installed' = request.body
    <3>1. /\ otadata'[KeptSlot] = otadata[KeptSlot] /\ otadata'[Other(KeptSlot)] = "new"
          /\ otadata' \in [Slots -> States]
      BY <1>2, <1>3, <1>4, <2>2 DEF States
    <3>2. first' = Other(KeptSlot) /\ otadata'[first'] = "new"
      BY <1>2, <2>2, <3>1
    <3>3. KeptSlot' = Other(first')
      BY <3>2 DEF KeptSlot, Other
    <3> QED BY <1>1, <1>4, <2>2, <3>1, <3>2, <3>3
  <2> QED BY <1>1, <2>1, <2>2
<1>7. TypeOK'
  <2>1. request' \in Requests
    BY <1>1 DEF Requests
  <2> QED BY <1>1, <1>3, <1>5, <1>6, <2>1, Zenon DEF TypeOK
<1>8. SlotsInv'
  BY <1>1, <1>2, <1>5, <1>6, WorkingAssumption DEF SlotsInv
<1>9. RequestInv'
  BY <1>1 DEF RequestInv
<1>10. MapInv' /\ MapInUseIsWhole'
  BY <1>1, OtherRequest
<1>11. Trial!Install
  <2>1. slots'[KeptSlot'] = slots[KeptSlot] /\ slots'[Other(KeptSlot')] = request.body
    BY <1>5, <1>6
  <2> QED BY <1>1, <2>1 DEF Trial!Install, Other
<1> QED BY <1>7, <1>8, <1>9, <1>10, <1>11 DEF Inv, Trial!Next

\* The other steps of the requests leave the firmware and the map alone.
LEMMA OtherUploadStep ==
  ASSUME Inv,
         \/ RefuseExecutable \/ ReceiveExecutable \/ WriteExecutableFails \/ RejectImage
         \/ UploadFile \/ ReceiveFails \/ delete_post_handler
  PROVE  Inv' /\ [Trial!Next]_<<slots[KeptSlot], slots[Other(KeptSlot)]>>
<1>1. TypeOK /\ SlotsInv /\ RequestInv /\ MapInv /\ MapInUseIsWhole
  BY DEF Inv
<1>2. UNCHANGED fwVars /\ UNCHANGED <<tzmap, timezoneBuildDate, installed>>
  BY DEF RefuseExecutable, ReceiveExecutable, WriteExecutableFails, RejectImage, UploadFile, Refuse,
         BeginFile, RefuseFile, ReceiveFile, WriteFileFails, EndFile, ReceiveFails,
         delete_post_handler, tzVars, fwVars
<1>3. UNCHANGED <<slots, otadata, first, running, stage, otaState, resets>>
  BY <1>2 DEF fwVars
<1>4. /\ slots \in [Slots -> Images \cup {Rest}] /\ otadata \in [Slots -> States]
      /\ tzmap \in [1 .. MapParts -> Maps \cup {Erased}]
      /\ file \in {Absent} \cup 0 .. Parts /\ uploads \in 0 .. MaxUploads
      /\ request \in Requests
  BY <1>1, Zenon DEF TypeOK
<1>5. Parts \in Nat \ {0}
  BY PartsAssumption
<1> DEFINE Result ==
      /\ ServerUp /\ request' \in Requests /\ request'.kind # "tzmap"
      /\ request'.kind = "executable" => request.kind = "executable"
      /\ uploads' \in 0 .. MaxUploads
      /\ file' \in {Absent} \cup 0 .. Parts /\ reply' \in {reply, "ok", "error"}
<1>6. ASSUME RefuseExecutable \/ RefuseFile \/ delete_post_handler
      PROVE  Result
  <2>1. /\ ServerUp /\ request = Idle /\ request' = request
        /\ uploads < MaxUploads /\ uploads' = uploads + 1
        /\ file' \in {file, Absent} /\ reply' \in {"ok", "error"}
    BY <1>6 DEF RefuseExecutable, RefuseFile, Refuse, delete_post_handler
  <2>2. uploads' \in 0 .. MaxUploads
    BY <1>1, <2>1, BeginCounts
  <2> QED BY <1>4, <2>1, <2>2 DEF Idle
<1>7. ASSUME ReceiveExecutable
      PROVE  Result
  <2>1. /\ request.kind = "executable" /\ request.done < Parts
        /\ request' = [request EXCEPT !.done = request.done + 1]
        /\ UNCHANGED <<file, reply, uploads>>
    BY <1>7 DEF ReceiveExecutable, Receiving, At
  <2>2. /\ ServerUp
        /\ request \in [kind : {"executable"}, at : {"receive"}, body : Images \cup {Junk},
                        done : 0 .. Parts]
    BY <1>1, <2>1, RequestFacts
  <2>3. request' \in [kind : {"executable"}, at : {"receive"}, body : Images \cup {Junk},
                      done : 0 .. Parts]
    BY <1>5, <2>1, <2>2
  <2> QED BY <1>4, <2>1, <2>2, <2>3 DEF Requests
<1>8. ASSUME WriteExecutableFails \/ RejectImage \/ WriteFileFails \/ EndFile \/ ReceiveFails
      PROVE  Result
  <2>1. /\ request.kind \in {"tzmap", "executable", "file"} /\ request' = Idle /\ UNCHANGED uploads
        /\ reply' \in {"ok", "error"} /\ file' \in {file, Absent, Parts}
    BY <1>8 DEF WriteExecutableFails, RejectImage, WriteFileFails, EndFile, ReceiveFails, Receiving, At,
       Answer
  <2>2. ServerUp
    BY <1>1, <2>1, RequestFacts
  <2>3. request' \in Requests /\ request'.kind = "none"
    BY <2>1 DEF Requests, Idle
  <2> QED BY <1>4, <1>5, <2>1, <2>2, <2>3
<1>9. ASSUME BeginFile
      PROVE  Result
  <2>1. /\ ServerUp /\ uploads < MaxUploads /\ uploads' = uploads + 1
        /\ request' = [kind |-> "file", at |-> "receive", body |-> Rest, done |-> 0]
        /\ file' = 0 /\ reply' = reply
    BY <1>9 DEF BeginFile, Begin
  <2>2. uploads' \in 0 .. MaxUploads
    BY <1>1, <2>1, BeginCounts
  <2>3. request' \in Requests
    BY <1>5, <2>1 DEF Requests
  <2> QED BY <1>5, <2>1, <2>2, <2>3
<1>10. ASSUME ReceiveFile
      PROVE  Result
  <2>1. /\ request.kind = "file" /\ request.done < Parts
        /\ request' = [request EXCEPT !.done = request.done + 1]
        /\ file' \in {request.done, request.done + 1} /\ UNCHANGED <<reply, uploads>>
    BY <1>10 DEF ReceiveFile, Receiving, At
  <2>2. /\ ServerUp
        /\ request \in [kind : {"file"}, at : {"receive"}, body : {Rest}, done : 0 .. Parts]
    BY <1>1, <2>1, RequestFacts
  <2>3. request' \in [kind : {"file"}, at : {"receive"}, body : {Rest}, done : 0 .. Parts]
    BY <1>5, <2>1, <2>2
  <2>4. file' \in 0 .. Parts
    BY <1>5, <2>1, <2>2
  <2> QED BY <1>4, <2>1, <2>2, <2>3, <2>4 DEF Requests
<1>11. Result
  BY <1>6, <1>7, <1>8, <1>9, <1>10 DEF UploadFile
<1> HIDE DEF Result
<1>12. TypeOK'
  BY <1>1, <1>2, <1>3, <1>4, <1>11, TypeStep DEF Result
<1>13. SlotsInv' /\ RequestInv' /\ [Trial!Next]_<<slots[KeptSlot], slots[Other(KeptSlot)]>>
  BY <1>1, <1>2, <1>11, SameFirmware DEF Result
<1>14. MapInv' /\ MapInUseIsWhole'
  BY <1>1, <1>2, <1>11, OtherRequest DEF Result
<1> QED BY <1>12, <1>13, <1>14 DEF Inv

-----------------------------------------------------------------------------
(* The lookup finds what the map's maker put in a row.  A row is written from *)
(* its end to its beginning and read run by run: after each run that has not *)
(* passed the column the loop stands where a run of the row begins, and at   *)
(* least one byte further than before.                                       *)

\* The tables' rows hold codes and lengths that a short can hold.
Half == (Byte * Byte) \div 2

\* What the proofs use of a byte and half a short.
LEMMA HalfIsHalf ==
  /\ Byte \in Nat \ {0, 1} /\ Byte * Byte \in Nat \ {0}
  /\ Half \in Nat /\ 2 * Half <= Byte * Byte /\ Byte * Byte <= 2 * Half + 1
  /\ Byte \div 2 \in Nat \ {0} /\ 2 * (Byte \div 2) <= Byte
<1>1. Byte \in Nat \ {0, 1}
  BY RowsAssumption
<1>2. \A b \in Nat : /\ b \div 2 \in Nat /\ 2 * (b \div 2) <= b /\ b <= 2 * (b \div 2) + 1
                     /\ b > 1 => b \div 2 > 0
  OBVIOUS
<1>3. Byte * Byte \in Nat \ {0}
  BY <1>1
<1> QED BY <1>1, <1>2, <1>3 DEF Half

LEMMA Negative ==
  ASSUME NEW q \in Nat \ {0}, NEW x \in Int, -q <= x, x < 0
  PROVE  x % q = x + q
OBVIOUS

LEMMA Divided ==
  ASSUME NEW b \in Nat \ {0}, NEW x \in Nat
  PROVE  /\ x \div b \in Nat /\ x % b \in 0 .. b - 1
         /\ x = (x \div b) * b + (x % b)
<1>1. x \div b \in Nat /\ x % b \in 0 .. b - 1
  OBVIOUS
<1>2. x = (x \div b) * b + (x % b)
  BY SMTT(30)
<1> QED BY <1>1, <1>2

LEMMA ShortIsNumber ==
  ASSUME NEW n \in 0 .. Half - 1, NEW x, x = Byte * Byte - n
  PROVE  Short(- x) = n
<1> DEFINE q == Byte * Byte
<1>1. q \in Nat \ {0} /\ Half \in Nat /\ 2 * Half <= q /\ x = q - n
  BY HalfIsHalf
<1>2. Short(- x) = ((- x + Half) % q) - Half
  BY DEF Short, Half
<1> HIDE DEF q
<1>3. - x + Half \in Int /\ - q <= - x + Half /\ - x + Half < 0
  BY <1>1
<1>4. (- x + Half) % q = - x + Half + q
  BY <1>1, <1>3, Negative
<1> QED BY <1>1, <1>2, <1>4

\* A number of two bytes; the first says so.
LEMMA TwoBytes ==
  ASSUME NEW n \in 0 .. Half - 1, ~ (n < Byte \div 2)
  PROVE  \E hi \in Int, lo \in Int :
           /\ WriteNumber(n) = <<hi, lo>> /\ hi > Byte \div 2 - 1
           /\ Short(- (hi * Byte + lo)) = n
<1> DEFINE q == Byte * Byte
           x == q - n
           h == Byte \div 2
           hi == x \div Byte
           lo == x % Byte
<1>1. WriteNumber(n) = <<hi, lo>>
  BY DEF WriteNumber
<1>2. /\ Byte \in Nat \ {0, 1} /\ q \in Nat \ {0} /\ Half \in Nat /\ 2 * Half <= q /\ q <= 2 * Half + 1
      /\ h \in Nat \ {0} /\ 2 * h <= Byte
  BY HalfIsHalf
<1>3. x \in Nat /\ x >= q - Half + 1
  <2> HIDE DEF q
  <2> QED BY <1>2
<1>4. hi \in Nat /\ lo \in 0 .. Byte - 1 /\ x = hi * Byte + lo
  <2> HIDE DEF x
  <2> QED BY <1>2, <1>3, Divided
<1>5. hi > h - 1
  <2> SUFFICES ASSUME ~ (hi > h - 1) PROVE FALSE
    OBVIOUS
  <2> HIDE DEF h, hi, lo, x
  <2>1. hi + 1 <= h
    BY <1>2, <1>4
  <2>2. (hi + 1) * Byte <= h * Byte
    BY <1>2, <1>4, <2>1
  <2>3. x < (hi + 1) * Byte
    BY <1>2, <1>4
  <2>4. 2 * (h * Byte) <= Byte * Byte
    BY <1>2
  <2> DEFINE hb == h * Byte
  <2>5. x < hb /\ 2 * hb <= q /\ hb \in Nat
    BY <1>2, <1>3, <1>4, <2>2, <2>3, <2>4
  <2> HIDE DEF hb, q
  <2> QED BY <1>2, <1>3, <2>5
<1>6. Short(- (hi * Byte + lo)) = n
  <2>1. Short(- x) = n
    BY ShortIsNumber
  <2> HIDE DEF hi, lo, x
  <2> QED BY <1>4, <2>1
<1> HIDE DEF hi, lo, h
<1>7. hi \in Int /\ lo \in Int
  BY <1>2, <1>4
<1> QED BY <1>1, <1>5, <1>6, <1>7 DEF h

NumberAt(n, r, at) == ReadNumber(r, at) = n /\ Bytes(r, at) = Len(WriteNumber(n))

\* A number is read back where it was written, and as many bytes as it took.
LEMMA NumberIsRead ==
  ASSUME NEW n \in 0 .. Half - 1, NEW w \in Seq(Int), NEW t \in Seq(Int)
  PROVE  /\ WriteNumber(n) \in Seq(Int) /\ WriteNumber(n) # <<>>
         /\ NumberAt(n, w \o (WriteNumber(n) \o t), Len(w) + 1)
<1> DEFINE u == WriteNumber(n)
           r == w \o (u \o t)
           at == Len(w) + 1
<1>1. CASE n < Byte \div 2
  <2>1. u = <<n>>
    BY <1>1 DEF WriteNumber
  <2>2. u \in Seq(Int) /\ u # <<>> /\ Len(u) = 1 /\ u[1] = n
    BY <2>1, HalfIsHalf
  <2> HIDE DEF u
  <2>3. ThreeParts(Int, w, u, t)
    BY <2>2, ThreeTexts, Zenon
  <2>4. r[Len(w) + 1] = u[1]
    BY <2>2, <2>3 DEF ThreeParts
  <2>5. r[at] = n /\ ~ (n > Byte \div 2 - 1)
    BY <1>1, <2>2, <2>4, HalfIsHalf
  <2> HIDE DEF r, at
  <2>6. NumberAt(n, r, at)
    BY <2>2, <2>5, Zenon DEF NumberAt, ReadNumber, Bytes, u
  <2> QED BY <2>2, <2>6 DEF r, at, u
<1>2. CASE ~ (n < Byte \div 2)
  <2>1. PICK hi \in Int, lo \in Int :
          u = <<hi, lo>> /\ hi > Byte \div 2 - 1 /\ Short(- (hi * Byte + lo)) = n
    BY <1>2, TwoBytes
  <2>2. u \in Seq(Int) /\ u # <<>> /\ Len(u) = 2 /\ u[1] = hi /\ u[2] = lo
    BY <2>1
  <2> HIDE DEF u
  <2>3. ThreeParts(Int, w, u, t)
    BY <2>2, ThreeTexts, Zenon
  <2>4. r[Len(w) + 1] = u[1] /\ r[Len(w) + 2] = u[2]
    BY <2>2, <2>3 DEF ThreeParts
  <2>5. r[at] = hi /\ r[at + 1] = lo
    <3>1. at + 1 = Len(w) + 2
      OBVIOUS
    <3> HIDE DEF r
    <3> QED BY <2>2, <2>4, <3>1
  <2> HIDE DEF r, at
  <2>6. Bytes(r, at) = 2
    BY <2>1, <2>5 DEF Bytes
  <2>7. ReadNumber(r, at) = n
    BY <2>1, <2>5, <2>6 DEF ReadNumber
  <2>8. NumberAt(n, r, at)
    BY <2>2, <2>6, <2>7 DEF NumberAt, u
  <2> QED BY <2>2, <2>8 DEF r, at, u
<1> QED BY <1>1, <1>2


\* From a column, the run goes on up to the column where RunLength ends it.
LEMMA RunIsOneCode ==
  ASSUME NEW S, NEW row \in Seq(S), NEW i \in 1 .. Len(row)
  PROVE  /\ RunLength(row, i) \in 1 .. Len(row) /\ i + RunLength(row, i) \in i + 1 .. Len(row) + 1
         /\ \A j \in i .. i + RunLength(row, i) - 1 : row[j] = row[i]
<1> DEFINE E == {j \in RunStarts(row) \cup {Len(row) + 1} : j > i}
           n == Min(E)
<1>1. E \in SUBSET Nat /\ Len(row) + 1 \in E /\ \A j \in E : j <= Len(row) + 1
  BY DEF RunStarts
<1>2. n \in E /\ \A j \in E : n <= j
  <2> HIDE DEF E
  <2>1. \E x \in E : \A y \in E : x <= y
    BY <1>1, LeastNumber
  <2> QED BY <2>1, Zenon DEF Min
<1>3. RunLength(row, i) = n - i
  BY DEF RunLength
<1>4. n \in i + 1 .. Len(row) + 1
  BY <1>1, <1>2
<1>5. ASSUME NEW j \in i + 1 .. n - 1
      PROVE  row[j] = row[j - 1]
  <2>1. j \notin E
    <3> HIDE DEF E, n
    <3> QED BY <1>2, <1>4
  <2>2. j \in 1 .. Len(row) /\ j > i /\ j # 1
    <3> HIDE DEF E, n
    <3> QED BY <1>4
  <2>3. j \notin RunStarts(row)
    BY <2>1, <2>2
  <2> QED BY <2>2, <2>3 DEF RunStarts
<1> HIDE DEF E, n
<1>6. ASSUME NEW j \in i .. n - 1
      PROVE  row[j] = row[i]
  <2> SUFFICES ASSUME row[j] # row[i] PROVE FALSE
    OBVIOUS
  <2> DEFINE T == {k \in i .. n - 1 : row[k] # row[i]}
  <2>1. j \in T /\ T \in SUBSET Nat
    OBVIOUS
  <2>2. PICK k \in T : \A l \in T : k <= l
    <3> HIDE DEF T
    <3> QED BY <2>1, LeastNumber
  <2>3. k \in i + 1 .. n - 1 /\ k - 1 \in i .. n - 1 /\ row[k] # row[i]
    BY <1>4, <2>2
  <2>4. k - 1 \notin T
    BY <2>2, <2>3
  <2>5. row[k - 1] = row[i]
    BY <2>3, <2>4
  <2> QED BY <1>5, <2>3, <2>5
<1> QED BY <1>3, <1>4, <1>6

\* A row in the table, from each of its columns on.
Rows(f, row) ==
  \A i \in 1 .. Len(row) + 1 :
    f[i] = IF i > Len(row) THEN <<>>
           ELSE (WriteNumber(row[i]) \o WriteNumber(RunLength(row, i))) \o f[i + RunLength(row, i)]

LEMMA RowIsWritten ==
  ASSUME NEW row \in Seq(0 .. Half - 1)
  PROVE  \E f : Rows(f, row) /\ WriteRow(row) = f[1]
<1> DEFINE n == Len(row)
           m == n + 1
           whole(i) == WriteNumber(row[i]) \o WriteNumber(RunLength(row, i))
           piece == [i \in 1 .. n |-> whole(i)]
           next == [i \in 1 .. n |-> i + RunLength(row, i)]
           Fixed(f) == f = [i \in 1 .. m |-> IF i > n THEN <<>> ELSE whole(i) \o f[i + RunLength(row, i)]]
<1>1. n \in Nat /\ m \in Nat /\ \A i \in 1 .. n : next[i] \in i + 1 .. m
  <2>1. \A i \in 1 .. n : i + RunLength(row, i) \in i + 1 .. m
    BY RunIsOneCode
  <2> QED BY <2>1
<1>2. ASSUME NEW i \in 1 .. m, ~ (i > n)
      PROVE  piece[i] = whole(i) /\ next[i] = i + RunLength(row, i)
  <2>1. i \in 1 .. n
    BY <1>2
  <2> QED BY <2>1, Zenon
<1>3. WriteRow(row) = (CHOOSE f : Fixed(f))[1]
  BY Zenon DEF WriteRow
<1> HIDE DEF n, m, piece, next, whole
<1>4. PICK f : Joins(f, n, m, piece, next)
  BY <1>1, PiecesAreJoined
<1>5. \A i \in 1 .. m : (IF i > n THEN <<>> ELSE piece[i] \o f[next[i]])
                          = IF i > n THEN <<>> ELSE whole(i) \o f[i + RunLength(row, i)]
  BY <1>2, Zenon
<1>6. Fixed(f)
  BY <1>4, <1>5, Zenon DEF Joins
<1> DEFINE g == CHOOSE g : Fixed(g)
<1>7. Fixed(g)
  BY <1>6, Zenon
<1>8. WriteRow(row) = g[1]
  BY <1>3
<1> HIDE DEF g
<1>9. \A i \in 1 .. m : g[i] = IF i > n THEN <<>> ELSE whole(i) \o g[i + RunLength(row, i)]
  BY <1>7, Zenon
<1>10. Rows(g, row)
  BY <1>9, Zenon DEF Rows, n, m, whole
<1> QED BY <1>8, <1>10, Zenon

\* What is left of a row at its end, and at a column before it.
LEMMA RowsAt ==
  ASSUME NEW S, NEW row \in Seq(S), NEW f, Rows(f, row)
  PROVE  /\ f[Len(row) + 1] = <<>>
         /\ \A i \in 1 .. Len(row) :
              f[i] = (WriteNumber(row[i]) \o WriteNumber(RunLength(row, i))) \o f[i + RunLength(row, i)]
<1>1. Len(row) + 1 \in 1 .. Len(row) + 1 /\ Len(row) + 1 > Len(row)
  OBVIOUS
<1>2. \A i \in 1 .. Len(row) : i \in 1 .. Len(row) + 1 /\ ~(i > Len(row))
  OBVIOUS
<1> QED BY <1>1, <1>2, Zenon DEF Rows

\* A code and a length, as bytes.
LEMMA NumbersOfRun ==
  ASSUME NEW row \in Seq(0 .. Half - 1), Len(row) < Half, NEW i \in 1 .. Len(row)
  PROVE  /\ row[i] \in 0 .. Half - 1 /\ RunLength(row, i) \in 0 .. Half - 1
         /\ WriteNumber(row[i]) \in Seq(Int) /\ WriteNumber(row[i]) # <<>>
         /\ WriteNumber(RunLength(row, i)) \in Seq(Int)
<1>1. row[i] \in 0 .. Half - 1
  BY ElementOfSeq
<1>2. RunLength(row, i) \in 0 .. Half - 1
  <2>1. RunLength(row, i) \in 1 .. Len(row)
    BY RunIsOneCode
  <2> QED BY <2>1, HalfIsHalf
<1>3. <<>> \in Seq(Int)
  OBVIOUS
<1> QED BY <1>1, <1>2, <1>3, NumberIsRead

LEMMA RowsAreSeqs ==
  ASSUME NEW row \in Seq(0 .. Half - 1), Len(row) < Half, NEW f, Rows(f, row)
  PROVE  \A i \in 1 .. Len(row) + 1 : f[i] \in Seq(Int)
<1> DEFINE n == Len(row) + 1
           K == {k \in 0 .. n : \A i \in 1 .. n : i >= k => f[i] \in Seq(Int)}
<1>1. n \in Nat /\ n \in K
  <2>1. f[Len(row) + 1] = <<>>
    BY RowsAt, Zenon
  <2>2. n \in Nat /\ n \in 0 .. n /\ \A i \in 1 .. n : i >= n => i = n
    OBVIOUS
  <2>3. f[n] \in Seq(Int)
    BY <2>1
  <2> HIDE DEF n
  <2> QED BY <2>2, <2>3
<1>2. ASSUME NEW k \in 1 .. n, k \in K
      PROVE  k - 1 \in K
  <2>1. ASSUME NEW i \in 1 .. n, i >= k - 1
        PROVE  f[i] \in Seq(Int)
    <3>1. CASE i >= k
      BY <1>2, <3>1
    <3>2. CASE i < k
      <4>1. i \in 1 .. Len(row) /\ i = k - 1
        BY <2>1, <3>2
      <4> DEFINE p == WriteNumber(row[i])
                 q == WriteNumber(RunLength(row, i))
                 t == f[i + RunLength(row, i)]
      <4>2. p \in Seq(Int) /\ q \in Seq(Int)
        BY <4>1, NumbersOfRun
      <4>3. i + RunLength(row, i) \in i + 1 .. n
        BY <4>1, RunIsOneCode
      <4>4. i + RunLength(row, i) \in 1 .. n /\ i + RunLength(row, i) >= k
        <5> DEFINE x == i + RunLength(row, i)
        <5> HIDE DEF x
        <5>1. x \in i + 1 .. n
          BY <4>3 DEF x
        <5>2. x \in 1 .. n /\ x >= k
          BY <4>1, <5>1
        <5> QED BY <5>2 DEF x
      <4>5. t \in Seq(Int)
        BY <1>2, <4>4, Zenon
      <4>6. f[i] = (p \o q) \o t
        BY <4>1, RowsAt
      <4> HIDE DEF p, q, t
      <4> QED BY <4>2, <4>5, <4>6
    <3> QED BY <2>1, <3>1, <3>2
  <2> QED BY <2>1
<1>3. 0 .. n \subseteq K
  <2> HIDE DEF K, n
  <2> QED BY <1>1, <1>2, Downward
<1>4. 0 \in K
  <2> HIDE DEF K
  <2> QED BY <1>1, <1>3
<1> QED BY <1>4

\* f is where the loop is after each of its runs.
Walks(f, r) ==
  /\ f[0] = [at |-> 1, c |-> 0]
  /\ \A n \in 1 .. Len(r) : f[n] = AfterRun(r, f[n - 1])

LEMMA WalkIsThere ==
  ASSUME NEW S, NEW r \in Seq(S)
  PROVE  Walks(Walk(r), r)
<1> DEFINE m == Len(r)
           start == [at |-> 1, c |-> 0]
           Fixed(f) == f = [n \in 0 .. m |-> IF n = 0 THEN start ELSE AfterRun(r, f[n - 1])]
           Up(f, k) == f[0] = start /\ \A n \in 1 .. m : n <= k => f[n] = AfterRun(r, f[n - 1])
           K == {k \in 0 .. m : \E f : f = [n \in 0 .. m |-> f[n]] /\ Up(f, k)}
<1>1. m \in Nat
  OBVIOUS
<1> HIDE DEF m, start
<1>2. 0 \in K
  <2> DEFINE f == [n \in 0 .. m |-> start]
  <2>1. f = [n \in 0 .. m |-> f[n]]
    OBVIOUS
  <2>2. Up(f, 0)
    BY <1>1
  <2> HIDE DEF f, Up
  <2> QED BY <1>1, <2>1, <2>2
<1>3. ASSUME NEW k \in 1 .. m, k - 1 \in K
      PROVE  k \in K
  <2>1. PICK f : f = [n \in 0 .. m |-> f[n]] /\ Up(f, k - 1)
    BY <1>3
  <2> DEFINE new == AfterRun(r, f[k - 1])
             g == [n \in 0 .. m |-> IF n = k THEN new ELSE f[n]]
  <2> HIDE DEF new
  <2>2. g[k] = new /\ \A n \in 0 .. m : n # k => g[n] = f[n]
    BY <1>1
  <2>3. g = [n \in 0 .. m |-> g[n]]
    OBVIOUS
  <2> HIDE DEF g
  <2>4. ASSUME NEW n \in 1 .. m, n <= k
        PROVE  g[n] = AfterRun(r, g[n - 1])
    <3>1. n \in 0 .. m /\ n - 1 \in 0 .. m /\ n - 1 # k
      BY <1>1, <2>4
    <3>2. g[n - 1] = f[n - 1]
      BY <2>2, <3>1
    <3>3. CASE n = k
      BY <2>2, <3>2, <3>3 DEF new
    <3>4. CASE n # k
      <4>1. n <= k - 1
        BY <1>1, <2>4, <3>4
      <4>2. f[n] = AfterRun(r, f[n - 1])
        BY <2>1, <4>1
      <4> QED BY <2>2, <3>1, <3>2, <3>4, <4>2, Zenon
    <3> QED BY <3>3, <3>4
  <2>5. 0 \in 0 .. m /\ 0 # k
    BY <1>1
  <2>6. Up(g, k)
    BY <2>1, <2>2, <2>4, <2>5
  <2>7. k \in 0 .. m
    BY <1>1
  <2> HIDE DEF Up
  <2> QED BY <2>3, <2>6, <2>7
<1>4. m \in K
  <2>1. 0 .. m \subseteq K
    <3> HIDE DEF K
    <3> QED BY <1>1, <1>2, <1>3, Upward
  <2>2. m \in 0 .. m
    BY <1>1
  <2> HIDE DEF K
  <2> QED BY <2>1, <2>2
<1>5. PICK f : f = [n \in 0 .. m |-> f[n]] /\ Up(f, m)
  BY <1>4
<1>6. ASSUME NEW n \in 0 .. m
      PROVE  f[n] = IF n = 0 THEN start ELSE AfterRun(r, f[n - 1])
  <2>1. n = 0 \/ (n \in 1 .. m /\ n <= m /\ n # 0)
    BY <1>1
  <2> QED BY <1>5, <2>1, Zenon
<1>7. Fixed(f)
  BY <1>5, <1>6, Zenon
<1> DEFINE g == CHOOSE g : Fixed(g)
<1>8. Fixed(g)
  BY <1>7, Zenon
<1>9. Walk(r) = g
  BY Zenon DEF Walk, m, start
<1> HIDE DEF g
<1>10. \A n \in 0 .. m : g[n] = IF n = 0 THEN start ELSE AfterRun(r, g[n - 1])
  BY <1>8, Zenon
<1>11. 0 \in 0 .. m /\ \A n \in 1 .. m : n \in 0 .. m /\ n # 0
  BY <1>1
<1>12. g[0] = start /\ \A n \in 1 .. m : g[n] = AfterRun(r, g[n - 1])
  BY <1>10, <1>11, Zenon
<1> QED BY <1>9, <1>12, Zenon DEF Walks, m, start

\* A place in the bytes r of a row: w is before it, and what the row has from column i on after.
Place(r, f, i, w) == w \in Seq(Int) /\ r = w \o f[i]
Here(w, i) == [at |-> Len(w) + 1, c |-> i - 1]

\* One run of the loop goes from the beginning of a run to the beginning of the next.
LEMMA RunIsRead ==
  ASSUME NEW row \in Seq(0 .. Half - 1), Len(row) < Half, NEW f, Rows(f, row),
         NEW r, NEW i \in 1 .. Len(row), NEW w, Place(r, f, i, w)
  PROVE  /\ ReadNumber(r, Len(w) + 1) = row[i]
         /\ \E v : /\ Place(r, f, i + RunLength(row, i), v) /\ Len(v) > Len(w)
                   /\ AfterRun(r, Here(w, i)) = Here(v, i + RunLength(row, i))
<1> DEFINE l == RunLength(row, i)
           p == WriteNumber(row[i])
           q == WriteNumber(l)
           t == f[i + l]
<1>1. /\ row[i] \in 0 .. Half - 1 /\ l \in 0 .. Half - 1
      /\ p \in Seq(Int) /\ p # <<>> /\ q \in Seq(Int)
  BY NumbersOfRun
<1>2. f[i] = (p \o q) \o t
  BY RowsAt, Zenon
<1>3. t \in Seq(Int)
  <2>1. i + l \in 1 .. Len(row) + 1
    <3>1. l \in 1 .. Len(row) /\ i + l \in i + 1 .. Len(row) + 1
      BY RunIsOneCode
    <3> HIDE DEF l
    <3> QED BY <3>1
  <2> QED BY <2>1, RowsAreSeqs
<1>4. w \in Seq(Int) /\ r = w \o f[i]
  BY DEF Place
<1>5. NumberAt(row[i], w \o (p \o (q \o t)), Len(w) + 1)
  <2>1. q \o t \in Seq(Int)
    <3> HIDE DEF q, t
    <3> QED BY <1>1, <1>3
  <2> DEFINE z == q \o t
             x == row[i]
  <2>2. x \in 0 .. Half - 1 /\ z \in Seq(Int)
    BY <1>1, <2>1
  <2> HIDE DEF z, x
  <2>3. NumberAt(x, w \o (WriteNumber(x) \o z), Len(w) + 1)
    BY <1>4, <2>2, NumberIsRead
  <2> QED BY <2>3 DEF z, x
<1>6. NumberAt(l, (w \o p) \o (q \o t), Len(w \o p) + 1)
  <2> DEFINE v == w \o p
  <2>1. v \in Seq(Int)
    <3> HIDE DEF p
    <3> QED BY <1>1, <1>4
  <2>2. l \in 0 .. Half - 1 /\ t \in Seq(Int)
    BY <1>1, <1>3
  <2> HIDE DEF v, l, t
  <2>3. NumberAt(l, v \o (WriteNumber(l) \o t), Len(v) + 1)
    BY <2>1, <2>2, NumberIsRead
  <2> QED BY <2>3 DEF v
<1> HIDE DEF p, q, t, l
<1>7. r = w \o (p \o (q \o t)) /\ r = (w \o p) \o (q \o t) /\ r = ((w \o p) \o q) \o t
  <2>3. q \o t \in Seq(Int) /\ w \o p \in Seq(Int)
    BY <1>1, <1>3, <1>4
  <2>8. /\ ThreeParts(Int, p, q, t) /\ ThreeParts(Int, w, p, q \o t)
        /\ ThreeParts(Int, w \o p, q, t)
    BY <1>1, <1>3, <1>4, <2>3, ThreeTexts, Zenon
  <2>1. (p \o q) \o t = p \o (q \o t)
    BY <2>8, Zenon DEF ThreeParts
  <2>2. r = w \o (p \o (q \o t))
    BY <1>2, <1>4, <2>1
  <2>4. (w \o p) \o (q \o t) = w \o (p \o (q \o t))
    BY <2>8, Zenon DEF ThreeParts
  <2>5. ((w \o p) \o q) \o t = (w \o p) \o (q \o t)
    BY <2>8, Zenon DEF ThreeParts
  <2>6. r = (w \o p) \o (q \o t)
    BY <2>2, <2>4
  <2>7. r = ((w \o p) \o q) \o t
    BY <2>5, <2>6
  <2> QED BY <2>2, <2>6, <2>7
<1>8. /\ ReadNumber(r, Len(w) + 1) = row[i] /\ Bytes(r, Len(w) + 1) = Len(p)
      /\ ReadNumber(r, Len(w \o p) + 1) = l /\ Bytes(r, Len(w \o p) + 1) = Len(q)
  <2>1. NumberAt(row[i], r, Len(w) + 1) /\ NumberAt(l, r, Len(w \o p) + 1)
    BY <1>5, <1>6, <1>7
  <2> QED BY <2>1 DEF NumberAt, p, q
<1> DEFINE v == (w \o p) \o q
<1>9. /\ v \in Seq(Int) /\ Len(w) \in Nat /\ Len(p) \in Nat \ {0} /\ Len(q) \in Nat
      /\ Len(w \o p) = Len(w) + Len(p) /\ Len(v) = Len(w) + Len(p) + Len(q)
  <2>1. w \o p \in Seq(Int) /\ Len(w \o p) = Len(w) + Len(p)
    BY <1>1, <1>4, ConcatProperties
  <2>2. v \in Seq(Int) /\ Len(v) = Len(w \o p) + Len(q)
    BY <1>1, <2>1, ConcatProperties
  <2>3. Len(w) \in Nat /\ Len(p) \in Nat \ {0} /\ Len(q) \in Nat
    BY <1>1, <1>4
  <2> QED BY <2>1, <2>2, <2>3
<1>10. Place(r, f, i + l, v)
  BY <1>7, <1>9 DEF Place, t
<1> HIDE DEF v
<1>11. Len(v) > Len(w)
  BY <1>9
<1>12. AfterRun(r, Here(w, i)) = Here(v, i + l)
  <2>1. Here(w, i).at = Len(w) + 1 /\ Here(w, i).c = i - 1
    BY DEF Here
  <2>2. (Len(w) + 1) + Len(p) = Len(w \o p) + 1
    BY <1>9
  <2>3. (Len(w \o p) + 1) + Len(q) = Len(v) + 1
    BY <1>9
  <2>4. (i - 1) + l = (i + l) - 1
    BY <1>1
  <2>5. AfterRun(r, Here(w, i)) = [at |-> (Len(w \o p) + 1) + Len(q), c |-> (i - 1) + l]
    BY <1>8, <2>1, <2>2, Zenon DEF AfterRun
  <2> QED BY <2>3, <2>4, <2>5, Zenon DEF Here
<1> QED BY <1>8, <1>10, <1>11, <1>12 DEF l

\* Where the walk is while it has not passed a column of the row.
Reached(f, r, n, m) ==
  \E i \in 1 .. m + 1 : \E w : Place(r, f, i, w) /\ Len(w) >= n /\ Walk(r)[n] = Here(w, i)

LEMMA WalkReaches ==
  ASSUME NEW row \in Seq(0 .. Half - 1), Len(row) < Half, NEW f, Rows(f, row),
         NEW r \in Seq(Int), r = f[1]
  PROVE  /\ Reached(f, r, 0, Len(row))
         /\ \A n \in 1 .. Len(r) :
              Reached(f, r, n - 1, Len(row)) /\ Walk(r)[n - 1].c < Len(row)
                => Reached(f, r, n, Len(row))
<1> DEFINE m == Len(row)
<1>1. Walks(Walk(r), r) /\ m \in Nat
  BY WalkIsThere
<1>2. Reached(f, r, 0, m)
  <2>1. Place(r, f, 1, <<>>)
    <3>1. <<>> \in Seq(Int) /\ r = <<>> \o r
      BY ConcatEmptySeq
    <3> QED BY <3>1 DEF Place
  <2>2. Len(<<>>) >= 0 /\ Len(<<>>) + 1 = 1 /\ 1 - 1 = 0 /\ 1 \in 1 .. m + 1
    BY <1>1
  <2>3. Walk(r)[0] = [at |-> 1, c |-> 0]
    BY <1>1 DEF Walks
  <2>4. Walk(r)[0] = Here(<<>>, 1)
    BY <2>2, <2>3, Zenon DEF Here
  <2> HIDE DEF m
  <2> QED BY <2>1, <2>2, <2>4, Zenon DEF Reached
<1>3. ASSUME NEW n \in 1 .. Len(r), Reached(f, r, n - 1, m), Walk(r)[n - 1].c < m
      PROVE  Reached(f, r, n, m)
  <2>1. PICK i \in 1 .. m + 1 : \E w : Place(r, f, i, w) /\ Len(w) >= n - 1 /\ Walk(r)[n - 1] = Here(w, i)
    BY <1>3 DEF Reached
  <2>2. PICK w : Place(r, f, i, w) /\ Len(w) >= n - 1 /\ Walk(r)[n - 1] = Here(w, i)
    BY <2>1
  <2>3. i \in 1 .. m
    <3>1. Walk(r)[n - 1].c = i - 1
      BY <2>2 DEF Here
    <3> QED BY <1>1, <1>3, <3>1
  <2> DEFINE j == i + RunLength(row, i)
  <2>4. PICK v : Place(r, f, j, v) /\ Len(v) > Len(w) /\ AfterRun(r, Here(w, i)) = Here(v, j)
    BY <2>2, <2>3, RunIsRead
  <2>5. j \in 1 .. m + 1
    <3>1. j \in i + 1 .. m + 1
      BY <2>3, RunIsOneCode
    <3> HIDE DEF j
    <3> QED BY <3>1
  <2>6. Walk(r)[n] = Here(v, j)
    BY <1>1, <2>2, <2>4, Zenon DEF Walks
  <2>7. Len(v) >= n
    <3>1. w \in Seq(Int) /\ v \in Seq(Int)
      BY <2>2, <2>4 DEF Place
    <3>2. Len(w) \in Nat /\ Len(v) \in Nat
      BY <3>1
    <3> QED BY <2>2, <2>4, <3>2
  <2> HIDE DEF j, m
  <2> QED BY <2>4, <2>5, <2>6, <2>7, Zenon DEF Reached
<1> QED BY <1>2, <1>3

(* The loop of the lookup stops, and finds what the row's maker was given,  *)
(* for every row and every column of it.                                    *)
LEMMA ZoneIsFound ==
  ASSUME NEW row \in Seq(0 .. Half - 1), Len(row) < Half, NEW col \in 1 .. Len(row)
  PROVE  timezoneGet(WriteRow(row), col) = row[col]
<1> DEFINE r == WriteRow(row)
           m == Len(row)
<1>1. PICK f : Rows(f, row) /\ r = f[1]
  BY RowIsWritten
<1>2. m \in Nat /\ 1 \in 1 .. m /\ 1 \in 1 .. m + 1 /\ col \in Nat
  OBVIOUS
<1>3. r \in Seq(Int) /\ Len(r) \in Nat
  <2>1. f[1] \in Seq(Int)
    BY <1>1, <1>2, RowsAreSeqs
  <2>2. r \in Seq(Int)
    BY <1>1, <2>1
  <2> HIDE DEF r
  <2> QED BY <2>2
<1> HIDE DEF r, m
<1>4. /\ Reached(f, r, 0, m)
      /\ \A n \in 1 .. Len(r) : Reached(f, r, n - 1, m) /\ Walk(r)[n - 1].c < m => Reached(f, r, n, m)
  BY <1>1, <1>3, WalkReaches DEF m
<1> DEFINE c(n) == Walk(r)[n].c
           Stops == {n \in 1 .. Len(r) : ~ (c(n) < col)}
<1>5. ASSUME NEW n \in 0 .. Len(r), \A k \in 1 .. n - 1 : c(k) < col
      PROVE  Reached(f, r, n, m)
  <2> DEFINE K == {k \in 0 .. n : Reached(f, r, k, m)}
  <2>1. 0 \in K
    BY <1>3, <1>4
  <2>2. ASSUME NEW k \in 1 .. n, k - 1 \in K
        PROVE  k \in K
    <3>1. Reached(f, r, k - 1, m) /\ k \in 1 .. Len(r) /\ k \in 0 .. n
      BY <1>3, <2>2
    <3>2. c(k - 1) < m
      <4>1. PICK i \in 1 .. m + 1 : \E w : Walk(r)[k - 1] = Here(w, i)
        BY <3>1 DEF Reached
      <4>2. c(k - 1) = i - 1
        BY <4>1 DEF Here
      <4>3. k = 1 => c(k - 1) = 0
        <5>1. Walk(r)[0] = [at |-> 1, c |-> 0]
          BY <1>3, WalkIsThere DEF Walks
        <5> QED BY <5>1
      <4>4. k # 1 => c(k - 1) < col
        <5>1. k # 1 => k - 1 \in 1 .. n - 1
          BY <3>1
        <5> QED BY <1>5, <5>1
      <4>5. col <= m
        BY DEF m
      <4> HIDE DEF c
      <4> QED BY <1>2, <4>2, <4>3, <4>4, <4>5
    <3> QED BY <1>4, <3>1, <3>2
  <2>3. n \in Nat
    BY <1>3
  <2>4. 0 .. n \subseteq K
    <3> HIDE DEF K
    <3> QED BY <2>1, <2>2, <2>3, Upward
  <2>5. n \in K
    <3> HIDE DEF K
    <3> QED BY <2>3, <2>4
  <2> QED BY <2>5
<1>6. Len(r) >= 1
  <2>1. f[1] = (WriteNumber(row[1]) \o WriteNumber(RunLength(row, 1))) \o f[1 + RunLength(row, 1)]
    BY <1>1, <1>2, RowsAt DEF m
  <2>2. Walks(Walk(r), r) /\ Place(r, f, 1, <<>>)
    <3>1. <<>> \in Seq(Int) /\ r = <<>> \o r
      BY <1>3, ConcatEmptySeq
    <3> QED BY <1>1, <1>3, <3>1, WalkIsThere DEF Place
  <2>3. PICK v : Place(r, f, 1 + RunLength(row, 1), v) /\ Len(v) > Len(<<>>)
    BY <1>1, <1>2, <2>2, RunIsRead DEF m
  <2>4. v \in Seq(Int) /\ r = v \o f[1 + RunLength(row, 1)] /\ f[1 + RunLength(row, 1)] \in Seq(Int)
    <3>1. 1 + RunLength(row, 1) \in 1 + 1 .. m + 1
      BY <1>2, RunIsOneCode DEF m
    <3> DEFINE x == 1 + RunLength(row, 1)
    <3>2. x \in 1 .. m + 1
      <4>1. x \in 1 + 1 .. m + 1
        BY <3>1
      <4> HIDE DEF x
      <4> QED BY <4>1
    <3> HIDE DEF x
    <3>3. f[x] \in Seq(Int)
      BY <1>1, <3>2, RowsAreSeqs DEF m
    <3> QED BY <2>3, <3>3 DEF Place, x
  <2> DEFINE t == f[1 + RunLength(row, 1)]
  <2>5. t \in Seq(Int) /\ r = v \o t
    BY <2>4
  <2> HIDE DEF t
  <2>6. Len(r) = Len(v) + Len(t) /\ Len(v) \in Nat /\ Len(t) \in Nat /\ Len(v) > 0
    BY <2>3, <2>4, <2>5, ConcatProperties
  <2> QED BY <2>6
<1>7. Stops # {}
  <2> SUFFICES ASSUME \A n \in 1 .. Len(r) : c(n) < col PROVE FALSE
    OBVIOUS
  <2>1. Len(r) \in 0 .. Len(r) /\ Len(r) \in 1 .. Len(r) /\ \A k \in 1 .. Len(r) - 1 : k \in 1 .. Len(r)
    BY <1>3, <1>6
  <2>2. Reached(f, r, Len(r), m)
    <3> HIDE DEF c
    <3> QED BY <1>5, <2>1
  <2>3. PICK i \in 1 .. m + 1 : \E w : Place(r, f, i, w) /\ Len(w) >= Len(r) /\ Walk(r)[Len(r)] = Here(w, i)
    BY <2>2 DEF Reached
  <2>4. PICK w : Place(r, f, i, w) /\ Len(w) >= Len(r) /\ Walk(r)[Len(r)] = Here(w, i)
    BY <2>3
  <2>5. c(Len(r)) = i - 1
    BY <2>4 DEF Here
  <2>6. i \in 1 .. m
    <3>1. i - 1 < col /\ col <= m
      BY <2>1, <2>5 DEF m
    <3> QED BY <1>2, <3>1
  <2>7. PICK v : Place(r, f, i + RunLength(row, i), v) /\ Len(v) > Len(w)
    BY <1>1, <2>4, <2>6, RunIsRead DEF m
  <2> DEFINE x == i + RunLength(row, i)
             t == f[x]
  <2>8. x \in 1 .. m + 1
    <3>1. x \in i + 1 .. m + 1
      BY <2>6, RunIsOneCode DEF m
    <3> HIDE DEF x
    <3> QED BY <3>1
  <2>9. t \in Seq(Int) /\ v \in Seq(Int) /\ r = v \o t /\ w \in Seq(Int)
    <3>1. f[x] \in Seq(Int)
      <4> HIDE DEF x
      <4> QED BY <1>1, <2>8, RowsAreSeqs DEF m
    <3> QED BY <2>4, <2>7, <3>1 DEF Place
  <2> HIDE DEF x, t
  <2>10. Len(r) = Len(v) + Len(t) /\ Len(v) \in Nat /\ Len(t) \in Nat /\ Len(w) \in Nat
    BY <2>9, ConcatProperties
  <2> QED BY <2>4, <2>7, <2>10
<1> DEFINE IsLast(n) == c(n) >= col /\ \A k \in 1 .. n - 1 : c(k) < col
           last == CHOOSE n \in 1 .. Len(r) : IsLast(n)
<1>8. timezoneGet(r, col) = ReadNumber(r, Walk(r)[last - 1].at)
  BY Zenon DEF timezoneGet
<1>9. last \in 1 .. Len(r) /\ c(last) >= col /\ \A k \in 1 .. last - 1 : c(k) < col
  <2>1. PICK n \in Stops : \A k \in Stops : n <= k
    <3>1. Stops \in SUBSET Nat
      BY <1>3
    <3> HIDE DEF Stops
    <3> QED BY <1>7, <3>1, LeastNumber
  <2>2. ASSUME NEW k \in 1 .. n - 1
        PROVE  c(k) < col
    <3>1. k \in 1 .. Len(r) /\ ~ (n <= k)
      BY <1>3, <2>1
    <3>2. k \notin Stops
      <4> HIDE DEF Stops
      <4> QED BY <2>1, <3>1
    <3> QED BY <3>1, <3>2
  <2>3. c(n) >= col
    <3>1. n \in 0 .. Len(r) /\ ~ (c(n) < col)
      BY <1>3, <2>1
    <3>2. Reached(f, r, n, m)
      <4> HIDE DEF c
      <4> QED BY <1>5, <2>2, <3>1
    <3>3. PICK i \in 1 .. m + 1 : \E w : Walk(r)[n] = Here(w, i)
      BY <3>2 DEF Reached
    <3>4. c(n) = i - 1
      BY <3>3 DEF Here
    <3> HIDE DEF c
    <3> QED BY <1>2, <3>1, <3>4
  <2>4. n \in 1 .. Len(r) /\ IsLast(n)
    BY <2>1, <2>2, <2>3
  <2> HIDE DEF IsLast
  <2>5. last \in 1 .. Len(r) /\ IsLast(last)
    BY <2>4, Zenon
  <2> QED BY <2>5 DEF IsLast
<1> HIDE DEF last
<1> DEFINE p == last - 1
<1>10. p \in 0 .. Len(r) /\ Reached(f, r, p, m) /\ last = p + 1 /\ p \in Nat
       /\ (p = 0 \/ c(p) < col)
  <2>1. p \in 0 .. Len(r) /\ last = p + 1 /\ p \in Nat /\ (p = 0 \/ p \in 1 .. last - 1)
    BY <1>3, <1>9
  <2>2. ASSUME NEW k \in 1 .. p - 1
        PROVE  c(k) < col
    <3>1. k \in 1 .. last - 1
      BY <1>3, <1>9
    <3> QED BY <1>9, <3>1
  <2> HIDE DEF p
  <2>3. Reached(f, r, p, m)
    <3> HIDE DEF c
    <3> QED BY <1>5, <2>1, <2>2
  <2> QED BY <1>9, <2>1, <2>3
<1> HIDE DEF p
<1>11. PICK i \in 1 .. m + 1 : \E w : Place(r, f, i, w) /\ Walk(r)[p] = Here(w, i)
  BY <1>10 DEF Reached
<1>12. PICK w : Place(r, f, i, w) /\ Walk(r)[p] = Here(w, i)
  BY <1>11
<1>13. c(p) = i - 1 /\ Walk(r)[p].at = Len(w) + 1
  BY <1>12 DEF Here
<1>14. i \in 1 .. m /\ i <= col
  <2>1. p = 0 => c(p) = 0
    <3>1. Walk(r)[0] = [at |-> 1, c |-> 0]
      BY <1>3, WalkIsThere DEF Walks
    <3> QED BY <3>1
  <2>2. col <= m /\ col >= 1
    BY DEF m
  <2> HIDE DEF c
  <2> QED BY <1>2, <1>10, <1>13, <2>1, <2>2
<1> DEFINE x == i + RunLength(row, i)
<1>15. ReadNumber(r, Len(w) + 1) = row[i] /\ \E v : AfterRun(r, Here(w, i)) = Here(v, x)
  BY <1>1, <1>12, <1>14, RunIsRead DEF m
<1>16. col <= x - 1
  <2>1. PICK v : AfterRun(r, Here(w, i)) = Here(v, x)
    BY <1>15
  <2>2. Walk(r)[last] = AfterRun(r, Walk(r)[last - 1])
    BY <1>3, <1>9, WalkIsThere, Zenon DEF Walks
  <2>3. c(last) = x - 1
    BY <1>12, <2>1, <2>2 DEF Here, p
  <2> QED BY <1>9, <2>3
<1>17. row[col] = row[i]
  <2>1. \A j \in i .. x - 1 : row[j] = row[i]
    BY <1>14, RunIsOneCode DEF m
  <2>2. x \in i + 1 .. m + 1
    BY <1>14, RunIsOneCode DEF m
  <2> HIDE DEF x
  <2>3. col \in i .. x - 1
    BY <1>2, <1>14, <1>16, <2>2
  <2> QED BY <2>1, <2>3
<1>18. timezoneGet(r, col) = row[i]
  BY <1>8, <1>13, <1>15 DEF p
<1> QED BY <1>17, <1>18 DEF r
-----------------------------------------------------------------------------
(* The theorems.                                                             *)

LEMMA InitialInv == Init => Inv /\ Trial!Init
<1> SUFFICES ASSUME Init PROVE Inv /\ Trial!Init
  OBVIOUS
<1>1. PICK image \in Working : slots = [s \in Slots |-> IF s = 0 THEN image ELSE Rest]
  BY DEF Init, FwInit
<1>2. PICK map \in Maps : tzmap = [p \in 1 .. MapParts |-> map]
  BY DEF Init, TzInit
<1>3. /\ otadata = [s \in Slots |-> "undefined"] /\ first = 0 /\ running = 0 /\ stage = "off"
      /\ otaState = "undefined" /\ resets = 0 /\ timezoneBuildDate = "bad" /\ request = Idle
      /\ file = Absent /\ reply = "none" /\ uploads = 0 /\ request.kind = "none" /\ installed = Rest
  BY DEF Init, FwInit, TzInit, Idle
<1>4. /\ MapParts \in Nat \ {0} /\ MaxResets \in Nat /\ MaxUploads \in Nat
      /\ Working \subseteq Images
  BY MapsAssumption, ResetsAssumption, PartsAssumption, WorkingAssumption
<1>5. TypeOK
  <2>1. slots \in [Slots -> Images \cup {Rest}] /\ otadata \in [Slots -> States]
    BY <1>1, <1>3, <1>4 DEF States
  <2>2. first \in Slots /\ running \in Slots /\ stage \in Stages /\ otaState \in States
    BY <1>3 DEF Slots, Stages, States
  <2>3. resets \in 0 .. MaxResets /\ uploads \in 0 .. MaxUploads
    BY <1>3, <1>4
  <2>4. tzmap \in [1 .. MapParts -> Maps \cup {Erased}] /\ request \in Requests
    BY <1>2, <1>3 DEF Requests
  <2>5. timezoneBuildDate \in {"bad", "build date"} /\ file \in {Absent} \cup 0 .. Parts
        /\ reply \in {"none", "ok", "error"} /\ installed \in Images \cup {Rest}
    BY <1>3
  <2> QED BY <2>1, <2>2, <2>3, <2>4, <2>5, Zenon DEF TypeOK
<1>6. KeptSlot = 0 /\ slots[0] \in Working /\ slots[Other(0)] \in Images \cup {Rest}
  BY <1>1, <1>3, <1>4 DEF KeptSlot, Slots, Other
<1>7. SlotsInv
  BY <1>3, <1>6 DEF SlotsInv, Slots
<1>8. RequestInv /\ MapInUseIsWhole
  BY <1>3 DEF RequestInv, MapInUseIsWhole
<1>9. MapInv
  <2>1. Holds(tzmap, map, 0, MapParts) /\ 0 \in 0 .. MapParts /\ MapParts \in 0 .. MapParts
    BY <1>2, <1>4 DEF Holds
  <2> QED BY <1>3, <2>1 DEF MapInv, At
<1> QED BY <1>5, <1>6, <1>7, <1>8, <1>9 DEF Inv, Trial!Init

LEMMA StepInv ==
  Inv /\ [Next]_vars => Inv' /\ [Trial!Next]_<<slots[KeptSlot], slots[Other(KeptSlot)]>>
<1> SUFFICES ASSUME Inv, [Next]_vars
             PROVE  Inv' /\ [Trial!Next]_<<slots[KeptSlot], slots[Other(KeptSlot)]>>
  OBVIOUS
<1>1. CASE Start
  BY <1>1, StartMapStep, BootLoaderStep, MarkValidStep, StageStep DEF Start
<1>2. CASE Restart
  BY <1>2, RestartStep
<1>3. CASE Serve
  BY <1>3, UploadMapStep, BeginExecutableStep, InstallImageStep, OtherUploadStep
     DEF Serve, UploadExecutable
<1>4. CASE UNCHANGED vars
  <2>1. /\ UNCHANGED <<slots, otadata, first, running, stage, otaState, resets>>
        /\ UNCHANGED <<tzmap, timezoneBuildDate, request, file, reply, uploads, installed>>
    BY <1>4 DEF vars, fwVars, tzVars
  <2>2. TypeOK'
    BY <2>1, Zenon DEF Inv, TypeOK
  <2>3. SlotsInv' /\ KeptSlot' = KeptSlot /\ [Trial!Next]_<<slots[KeptSlot], slots[Other(KeptSlot)]>>
    BY <2>1, SameSlots DEF Inv
  <2>4. RequestInv'
    BY <2>1, <2>3 DEF Inv, RequestInv, ServerUp
  <2>5. MapInv' /\ MapInUseIsWhole'
    BY <2>1, SameMap DEF Inv
  <2> QED BY <2>2, <2>3, <2>4, <2>5 DEF Inv
<1> QED BY <1>1, <1>2, <1>3, <1>4 DEF Next

(* What the three parts of Inv say holds in every state                      *)
(* (clockServer.c:2258-2603, clockMain.c:317-669, clockTZ.c:42-76).          *)
THEOREM InductiveInvariant == Spec => []Inv
BY InitialInv, StepInv, PTL DEF Spec

(* No upload, restart or crash leaves a request before the server is up, or  *)
(* a slot that holds anything but an image or the rest of one                *)
(* (clockServer.c:2258-2603).                                                *)
THEOREM TypeCorrect == Spec => []TypeOK
<1>1. Inv => TypeOK
  BY DEF Inv
<1> QED BY <1>1, InductiveInvariant, PTL

(* The map in use is whole and of one upload, however many parts it has and  *)
(* wherever the power failed (clockTZ.c:42-76, clockServer.c:2335).          *)
THEOREM MapIsWhole == Spec => []MapInUseIsWhole
<1>1. Inv => MapInUseIsWhole
  BY DEF Inv
<1> QED BY <1>1, InductiveInvariant, PTL

(* In the map in use the lookup finds at every column the code that the maker *)
(* put there (clockTZ.c:99-114, geojsonToBitmap10.jsl:413-438).              *)
THEOREM LookupIsRight == Spec => []LookupFindsTheZone
<1>1. MapInUseIsWhole => LookupFindsTheZone
  <2> SUFFICES ASSUME MapInUseIsWhole, timezoneBuildDate # "bad", NEW p \in 1 .. MapParts,
                      NEW col \in 1 .. Len(tzmap[p])
               PROVE  timezoneGet(Written[tzmap[p]], col) = tzmap[p][col]
    BY DEF LookupFindsTheZone
  <2>1. PICK map \in Maps : tzmap = [q \in 1 .. MapParts |-> map]
    BY DEF MapInUseIsWhole
  <2>2. tzmap[p] = map /\ Written[map] = WriteRow(map)
    BY <2>1 DEF Written
  <2>3. map \in Seq(0 .. Half - 1) /\ Len(map) < Half
    BY RowsAssumption DEF Half
  <2> QED BY <2>2, <2>3, ZoneIsFound
<1> QED BY <1>1, MapIsWhole, PTL

(* The kept image always works and is replaced only by one that has reached  *)
(* the end of app_main (clockServer.c:2344-2355, clockMain.c:666-669).       *)
THEOREM UpdateImplementsTrial == Spec => ImplementsTrialBoot
<1>1. Init => Trial!Init
  BY InitialInv
<1>2. Inv /\ [Next]_vars => [Trial!Next]_<<slots[KeptSlot], slots[Other(KeptSlot)]>>
  BY StepInv
<1> QED BY <1>1, <1>2, InductiveInvariant, PTL DEF Spec, ImplementsTrialBoot, Trial!Spec
-----------------------------------------------------------------------------
(* What was installed.                                                       *)

\* Until the boot loader runs, nothing touches its slot or its entry.
LEMMA InstalledStep ==
  Inv /\ InstalledInv /\ [Next]_vars => InstalledInv'
<1> SUFFICES ASSUME Inv, InstalledInv, [Next]_vars PROVE InstalledInv'
  OBVIOUS
<1>1. /\ first \in Slots /\ running \in Slots /\ otadata \in [Slots -> States]
      /\ slots \in [Slots -> Images \cup {Rest}]
  BY Zenon DEF Inv, TypeOK
<1>2. Other(running) \in Slots /\ Other(running) # running
  BY <1>1 DEF Slots, Other
<1>3. CASE BootLoader /\ installed' = Rest
  BY <1>3 DEF InstalledInv
<1>4. CASE BeginExecutable
  BY <1>4 DEF InstalledInv, BeginExecutable
<1>5. CASE InstallImage
  <2>1. /\ request.kind = "executable" /\ request'.kind = "none" /\ UNCHANGED running
        /\ slots' = [slots EXCEPT ![Other(running)] = request.body]
    BY <1>5 DEF InstallImage, At, WriteSlot, Answer, Idle
  <2>2. CASE UNCHANGED installed
    BY <2>1, <2>2 DEF InstalledInv
  <2>3. CASE /\ otadata' = [otadata EXCEPT ![Other(running)] = "new"] /\ first' = Other(running)
             /\ installed' = request.body
    BY <1>1, <1>2, <2>1, <2>3 DEF InstalledInv, Other
  <2> QED BY <1>5, <2>2, <2>3 DEF InstallImage, esp_ota_set_boot_partition
<1>6. CASE MarkValid /\ UNCHANGED <<request, installed>>
  <2>1. UNCHANGED <<slots, first, running, request, installed>>
    BY <1>6 DEF MarkValid
  <2>2. otadata' = otadata \/ otadata' = [otadata EXCEPT ![running] = "valid"]
    BY <1>6 DEF MarkValid
  <2>3. otadata'[Other(running)] = otadata[Other(running)]
    BY <1>1, <1>2, <2>2
  <2> QED BY <2>1, <2>3 DEF InstalledInv, Other
<1> DEFINE Quietly == /\ UNCHANGED <<slots, otadata, first, running, installed>>
                      /\ request'.kind = "executable" => request.kind = "executable"
<1>7. Quietly => InstalledInv'
  BY DEF InstalledInv, Other
<1>8. CASE (app_main /\ ~ MarkValid /\ UNCHANGED <<request, installed>>) \/ StartMap
  <2>1. UNCHANGED <<slots, otadata, first, running, request, installed>>
    BY <1>8 DEF app_main, ReadOtaState, init_spiffs, LoadSettings, StartDevices, StartNetwork,
       start_file_server, Connect, obtain_time, StartClock, Stage, StartMap
  <2> QED BY <1>7, <2>1
<1>9. CASE Restart
  <2>1. UNCHANGED <<slots, otadata, first, running, installed>> /\ request'.kind = "none"
    BY <1>9 DEF Restart, Reset, Crash, Idle
  <2> QED BY <1>7, <2>1
<1>10. CASE UploadMap \/ UploadFile \/ ReceiveFails \/ delete_post_handler \/ RefuseExecutable
            \/ ReceiveExecutable \/ WriteExecutableFails \/ RejectImage
  <2>1. UNCHANGED <<slots, otadata, first, running, installed>>
    BY <1>10 DEF UploadMap, BeginMap, EraseMap, ReceiveMap, WriteMapFails, EndMap, UploadFile, BeginFile,
       RefuseFile, ReceiveFile, WriteFileFails, EndFile, Refuse, ReceiveFails, delete_post_handler,
       RefuseExecutable, ReceiveExecutable, WriteExecutableFails, RejectImage, fwVars
  <2>2. request'.kind = "executable" => request.kind = "executable"
    <3>1. CASE UploadMap
      <4>1. BeginMap => request'.kind = "tzmap"
        BY DEF BeginMap, Begin
      <4>2. EraseMap \/ ReceiveMap => request'.kind = request.kind
        <5>1. request \in Requests
          BY Zenon DEF Inv, TypeOK
        <5>2. \A n : [request EXCEPT !.done = n].kind = request.kind
          BY <5>1 DEF Requests, Idle
        <5>3. [request EXCEPT !.at = "receive", !.done = 0].kind = request.kind
          BY <5>1 DEF Requests, Idle
        <5> QED BY <5>2, <5>3 DEF EraseMap, ReceiveMap
      <4>3. WriteMapFails \/ EndMap => request'.kind = "none"
        BY DEF WriteMapFails, EndMap, Answer, Idle
      <4> QED BY <3>1, <4>1, <4>2, <4>3 DEF UploadMap
    <3>2. CASE UploadFile
      <4>1. BeginFile => request'.kind = "file"
        BY DEF BeginFile, Begin
      <4>2. ReceiveFile => request'.kind = request.kind
        <5>1. request \in Requests
          BY Zenon DEF Inv, TypeOK
        <5>2. \A n : [request EXCEPT !.done = n].kind = request.kind
          BY <5>1 DEF Requests, Idle
        <5> QED BY <5>2 DEF ReceiveFile
      <4>3. WriteFileFails \/ EndFile => request'.kind = "none"
        BY DEF WriteFileFails, EndFile, Answer, Idle
      <4>4. RefuseFile => request' = request
        BY DEF RefuseFile, Refuse
      <4> QED BY <3>2, <4>1, <4>2, <4>3, <4>4 DEF UploadFile
    <3>3. CASE ReceiveFails \/ WriteExecutableFails \/ RejectImage
      BY <3>3 DEF ReceiveFails, WriteExecutableFails, RejectImage, Answer, Idle
    <3>4. CASE delete_post_handler \/ RefuseExecutable
      BY <3>4 DEF delete_post_handler, RefuseExecutable, Refuse
    <3>5. CASE ReceiveExecutable
      BY <3>5 DEF ReceiveExecutable, Receiving, At
    <3> QED BY <1>10, <3>1, <3>2, <3>3, <3>4, <3>5
  <2> QED BY <1>7, <2>1, <2>2
<1>11. CASE UNCHANGED vars
  BY <1>7, <1>11 DEF vars, fwVars
<1> QED
  BY <1>3, <1>4, <1>5, <1>6, <1>8, <1>9, <1>10, <1>11
  DEF Next, Start, Serve, UploadExecutable

(* An image that was installed is tried at the next start, after any number  *)
(* of uploads, trials and power failures                                     *)
(* (clockServer.c:2346-2347, 2523-2534, clockMain.c:352-373, 666-669).       *)
THEOREM InstalledImageStarts == Spec => InstalledIsTried
<1>1. Init => InstalledInv
  BY DEF Init, InstalledInv
<1>2. Inv /\ InstalledInv /\ [Next]_vars =>
        [installed # Rest /\ stage = "off" /\ stage' # "off" => slots[running'] = installed]_vars
  <2> SUFFICES ASSUME Inv, InstalledInv, Next, installed # Rest, stage = "off", stage' # "off"
               PROVE  slots[running'] = installed
    OBVIOUS
  <2>1. BootLoader
    <3>1. ~ ServerUp /\ request = Idle
      BY DEF ServerUp, Inv, RequestInv
    <3>2. ~ Serve
      BY <3>1 DEF Serve, UploadMap, BeginMap, EraseMap, ReceiveMap, WriteMapFails, EndMap, UploadFile,
         BeginFile, RefuseFile, ReceiveFile, WriteFileFails, EndFile, Begin, Refuse, ReceiveFails,
         Receiving, At, Idle, delete_post_handler, UploadExecutable, BeginExecutable, RefuseExecutable,
         ReceiveExecutable, WriteExecutableFails, RejectImage, InstallImage
    <3>3. ~ StartMap /\ ~ app_main
      BY DEF StartMap, app_main, ReadOtaState, init_spiffs, LoadSettings, StartDevices, StartNetwork,
         start_file_server, Connect, obtain_time, StartClock, MarkValid, Stage, Reach
    <3>4. ~ Restart
      BY DEF Restart, Reset, Crash
    <3> QED BY <3>2, <3>3, <3>4 DEF Next, Start
  <2>2. Judged(first) = "new" /\ slots[first] = installed
    BY DEF InstalledInv, Judged
  <2>3. Chosen = first
    BY <2>2 DEF Chosen
  <2>4. installed \in Images
    BY DEF Inv, TypeOK
  <2> QED BY <2>1, <2>2, <2>3, <2>4 DEF BootLoader
<1>3. Inv /\ InstalledInv /\ [Next]_vars => InstalledInv'
  BY InstalledStep
<1> QED BY <1>1, <1>2, <1>3, InductiveInvariant, PTL DEF Spec, InstalledIsTried
=============================================================================
