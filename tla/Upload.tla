------------------------------- MODULE Upload --------------------------------
(***************************************************************************)
(* upload_post_handler and delete_post_handler, run by the server's one    *)
(* task from when app_main has started it.  The name of an upload decides  *)
(* where it goes: the time zone partition, the slot that is not running,   *)
(* or a SPIFFS file.  The parts of its body arrive one by one; the power   *)
(* may fail between any two steps.                                         *)
(***************************************************************************)
EXTENDS Firmware, TzMap

CONSTANTS
  Parts,       \* the parts of an executable or of a file
  MaxUploads   \* bound on the uploads and deletions

ASSUME PartsAssumption == Parts \in Nat \ {0} /\ MaxUploads \in Nat

VARIABLES
  request,  \* the upload in progress
  file,     \* the SPIFFS file: absent, or how many of its parts are in the flash
  reply,    \* what the last request was answered
  uploads,
  installed \* history: the image that has still to be started, or Rest

vars == <<fwVars, tzVars, request, file, reply, uploads, installed>>

Absent == -1
Junk == "junk"   \* an executable that is none
Idle == [kind |-> "none", at |-> "idle", body |-> Rest, done |-> 0]

Init ==
  /\ FwInit /\ TzInit /\ request = Idle /\ file = Absent /\ reply = "none" /\ uploads = 0
  /\ installed = Rest

ServerUp == stage \in {"connect", "sntp", "clock", "mark_valid", "done"}
Begin(kind, at, body) ==
  /\ ServerUp /\ request = Idle /\ uploads < MaxUploads /\ uploads' = uploads + 1
  /\ request' = [kind |-> kind, at |-> at, body |-> body, done |-> 0]
At(kind, at) == request.kind = kind /\ request.at = at
Receiving(kind, parts) == At(kind, "receive") /\ request.done < parts
Answer(text) == request' = Idle /\ reply' = text
Refuse ==
  /\ ServerUp /\ request = Idle /\ uploads < MaxUploads /\ uploads' = uploads + 1
  /\ reply' = "error" /\ UNCHANGED <<fwVars, tzVars, request, file, installed>>

\* httpd_req_recv fails, in a part of any upload.  A map is left as it is, the handle of
\* an executable is given back, and an unfinished file is removed.
ReceiveFails ==
  /\ \/ Receiving("tzmap", MapParts)
     \/ Receiving("executable", Parts)
     \/ Receiving("file", Parts)
  /\ file' = IF request.kind = "file" THEN Absent ELSE file
  /\ Answer("error")
  /\ UNCHANGED <<fwVars, tzVars, uploads, installed>>
-----------------------------------------------------------------------------
\* The time zone map.

\* "point of no return...erase all".
BeginMap ==
  /\ \E map \in Maps : Begin("tzmap", "erase", map)
  /\ timezoneBuildDate' = "bad"
  /\ UNCHANGED <<fwVars, tzmap, file, reply, installed>>

\* esp_partition_erase_range, from the front; if it fails, ESP_ERROR_CHECK aborts,
\* which is a Reset here.
EraseMap ==
  /\ At("tzmap", "erase")
  /\ IF request.done < MapParts
       THEN /\ ErasePart(request.done + 1)
            /\ request' = [request EXCEPT !.done = @ + 1]
       ELSE /\ request' = [request EXCEPT !.at = "receive", !.done = 0]
            /\ UNCHANGED tzmap
  /\ UNCHANGED <<fwVars, timezoneBuildDate, file, reply, uploads, installed>>

ReceiveMap ==
  /\ Receiving("tzmap", MapParts)
  /\ WritePart(request.done + 1, request.body)
  /\ request' = [request EXCEPT !.done = @ + 1]
  /\ UNCHANGED <<fwVars, timezoneBuildDate, file, reply, uploads, installed>>

\* esp_partition_write fails, its part written or not: nothing is undone.
WriteMapFails ==
  /\ Receiving("tzmap", MapParts)
  /\ WritePart(request.done + 1, request.body) \/ UNCHANGED tzmap
  /\ Answer("error")
  /\ UNCHANGED <<fwVars, timezoneBuildDate, file, uploads, installed>>

\* The body ends with the map, or before; the map is used after the next start, not now.
EndMap ==
  /\ At("tzmap", "receive")
  /\ Answer("ok")
  /\ UNCHANGED <<fwVars, tzVars, file, uploads, installed>>

UploadMap == BeginMap \/ EraseMap \/ ReceiveMap \/ WriteMapFails \/ EndMap
-----------------------------------------------------------------------------
\* The executable.

BeginExecutable ==
  /\ ~ esp_ota_begin_fails
  /\ \E image \in Images \cup {Junk} : Begin("executable", "receive", image)
  /\ EraseSlot /\ installed' = Rest
  /\ UNCHANGED <<otadata, first, running, stage, otaState, resets, tzVars, file, reply>>

\* esp_ota_begin has failed.
RefuseExecutable == esp_ota_begin_fails /\ Refuse

ReceiveExecutable ==
  /\ Receiving("executable", Parts)
  /\ request' = [request EXCEPT !.done = @ + 1]
  /\ UNCHANGED <<fwVars, tzVars, file, reply, uploads, installed>>

\* esp_ota_write fails: the handle is not given back, and what was written stays.
WriteExecutableFails ==
  /\ Receiving("executable", Parts)
  /\ Answer("error")
  /\ UNCHANGED <<fwVars, tzVars, file, uploads, installed>>

\* esp_ota_end does not accept the image.
RejectImage ==
  /\ At("executable", "receive") /\ request.done = Parts /\ request.body \notin Images
  /\ Answer("error")
  /\ UNCHANGED <<fwVars, tzVars, file, uploads, installed>>

\* A mistake the runs must catch: the boot loader is not told.
InstallImage_NotTold ==
  /\ At("executable", "receive") /\ request.done = Parts /\ request.body \in Images
  /\ WriteSlot(request.body) /\ installed' = request.body /\ Answer("ok")
  /\ UNCHANGED <<otadata, first, running, stage, otaState, resets, tzVars, file, uploads>>

\* esp_ota_end has verified it; the clock is not restarted.  The result of
\* esp_ota_set_boot_partition is printed, and the answer is the same.
InstallImage ==
  /\ At("executable", "receive") /\ request.done = Parts /\ request.body \in Images
  /\ WriteSlot(request.body)
  /\ \/ esp_ota_set_boot_partition /\ installed' = request.body
     \/ esp_ota_set_boot_partition_fails /\ UNCHANGED installed
  /\ Answer("ok")
  /\ UNCHANGED <<running, stage, otaState, resets, tzVars, file, uploads>>

UploadExecutable ==
  \/ BeginExecutable \/ RefuseExecutable \/ ReceiveExecutable \/ WriteExecutableFails
  \/ RejectImage \/ InstallImage
-----------------------------------------------------------------------------
\* A file.

BeginFile ==
  /\ file = Absent
  /\ Begin("file", "receive", Rest)
  /\ file' = 0
  /\ UNCHANGED <<fwVars, tzVars, reply, installed>>

\* "File already exists", too large, or a name that is too long or ends in a slash.
RefuseFile == file # Absent /\ Refuse

\* fwrite keeps what is not yet a page, of the last part at least.
ReceiveFile ==
  /\ Receiving("file", Parts)
  /\ request' = [request EXCEPT !.done = @ + 1]
  /\ file' \in {request.done, request.done + 1} /\ file' >= file
  /\ UNCHANGED <<fwVars, tzVars, reply, uploads, installed>>

\* fwrite fails, for one when there is no room: the unfinished file is removed.
WriteFileFails ==
  /\ Receiving("file", Parts)
  /\ file' = Absent /\ Answer("error")
  /\ UNCHANGED <<fwVars, tzVars, uploads, installed>>

\* The result of fclose, which writes the rest, is not looked at.
EndFile ==
  /\ At("file", "receive") /\ request.done = Parts
  /\ file' \in {file, Parts}
  /\ Answer("ok")
  /\ UNCHANGED <<fwVars, tzVars, uploads, installed>>

delete_post_handler ==
  /\ ServerUp /\ request = Idle /\ uploads < MaxUploads /\ uploads' = uploads + 1
  /\ IF file = Absent THEN reply' = "error" ELSE reply' = "ok"
  /\ file' = Absent
  /\ UNCHANGED <<fwVars, tzVars, request, installed>>

UploadFile == BeginFile \/ RefuseFile \/ ReceiveFile \/ WriteFileFails \/ EndFile
-----------------------------------------------------------------------------
\* The first call of app_main.
StartMap ==
  /\ stage = "timezoneInit" /\ stage' = "ota_state"
  /\ timezoneInit
  /\ UNCHANGED <<slots, otadata, first, running, otaState, resets>>
  /\ UNCHANGED <<request, file, reply, uploads, installed>>

\* A restart ends the request that was being handled.
Restart ==
  /\ Reset \/ Crash
  /\ request' = Idle /\ timezoneBuildDate' = "bad" /\ reply' = "none"
  /\ UNCHANGED <<tzmap, file, uploads, installed>>

Start ==
  \/ StartMap
  \/ /\ \/ BootLoader /\ installed' = Rest
        \/ app_main /\ UNCHANGED installed
     /\ UNCHANGED <<tzVars, request, file, reply, uploads>>

Serve == UploadMap \/ UploadExecutable \/ UploadFile \/ ReceiveFails \/ delete_post_handler

Next == Start \/ Restart \/ Serve

\* app_main goes on, and an image that does not work does not stay for ever.
Fairness == WF_vars(Start) /\ WF_vars(Crash /\ Restart)

Spec == Init /\ [][Next]_vars /\ Fairness
-----------------------------------------------------------------------------
Requests ==
  {Idle}
    \cup [kind : {"tzmap"}, at : {"erase", "receive"}, body : Maps, done : 0 .. MapParts]
    \cup [kind : {"executable"}, at : {"receive"}, body : Images \cup {Junk}, done : 0 .. Parts]
    \cup [kind : {"file"}, at : {"receive"}, body : {Rest}, done : 0 .. Parts]

TypeOK ==
  /\ slots \in [Slots -> Images \cup {Rest}] /\ otadata \in [Slots -> States]
  /\ first \in Slots /\ running \in Slots /\ stage \in Stages /\ otaState \in States
  /\ resets \in 0 .. MaxResets /\ uploads \in 0 .. MaxUploads
  /\ tzmap \in [1 .. MapParts -> Maps \cup {Erased}]
  /\ timezoneBuildDate \in {"bad", "build date"}
  /\ request \in Requests
  /\ file \in {Absent} \cup 0 .. Parts /\ reply \in {"none", "ok", "error"}
  /\ installed \in Images \cup {Rest}

(* The slot that is kept whatever becomes of the other one.                 *)
KeptSlot == IF otadata[first] \in {"valid", "undefined"} THEN first ELSE Other(first)

Trial == INSTANCE TrialBoot WITH
  Contents <- Images \cup {Rest}, kept <- slots[KeptSlot], trial <- slots[Other(KeptSlot)]

(* Through uploads, crashes of what was uploaded and power failures in the  *)
(* middle of an upload, the clock keeps an image that works, and replaces   *)
(* it only by one that has reached the end of app_main                      *)
(* (clockServer.c:2344-2355, 2521-2542; clockMain.c:352-373, 666-669).      *)
ImplementsTrialBoot == Trial!Spec

(* Whatever is uploaded, the clock is up again: "a lot of stuff just        *)
(* worked, must be OK?" (clockMain.c:666-669).                              *)
ClockComesUp == []<>(stage = "done")

(* An image that was installed is what the boot loader starts next, unless  *)
(* another upload of one has begun: whatever the slots have been through    *)
(* before, trials that were given up among it, and whatever else is         *)
(* uploaded or loses power until then                                       *)
(* (clockServer.c:2346-2347, 2523-2534, clockMain.c:352-373, 666-669).      *)
InstalledIsTried ==
  [][installed # Rest /\ stage = "off" /\ stage' # "off" => slots[running'] = installed]_vars
=============================================================================
