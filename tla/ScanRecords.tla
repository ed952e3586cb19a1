----------------------------- MODULE ScanRecords -----------------------------
(***************************************************************************)
(* The WiFi neighbourhood.  After each scan the event task sorts the       *)
(* access points by signal and moves them, one by one, to the front of     *)
(* sClockState.scanRecords; the last record drops out for a new one.       *)
(* recent_wifi.json walks the table while further scans come in.  An       *)
(* access point is its bssid; a record keeps the second it was last seen.  *)
(* The task of the events has the higher priority on the core they share:  *)
(* the page moves only between two scans.                                  *)
(***************************************************************************)
EXTENDS Integers, Sequences, SequencesExt, FiniteSets

CONSTANTS
  Bssids,
  NoBssid,   \* the zeros of a record that was never used
  Slots,     \* DIM(sClockState.scanRecords)
  MaxScans   \* bound on the scans

ASSUME SlotsAssumption == Slots \in Nat \ {0} /\ NoBssid \notin Bssids
ASSUME ScansAssumption == MaxScans \in Nat /\ IsFiniteSet(Bssids)

VARIABLES
  now,          \* the scans so far, for esp_timer_get_time()
  scanRecords,  \* [bssid, time], the front first
  storing,      \* the access points the scan handler has still to store
  page          \* recent_wifi.json: the row, the bssid it has shown of it and (for the
                \* properties) what was held all the time, not seen again and not yet shown
tableVars == <<now, scanRecords, storing, page>>

Unused == [bssid |-> NoBssid, time |-> 0]
NoPage == [row |-> 0, bssid |-> NoBssid, missing |-> {}]

TableInit ==
  /\ now = 0 /\ storing = <<>> /\ page = NoPage
  /\ scanRecords = [i \in 1 .. Slots |-> Unused]
-----------------------------------------------------------------------------
\* A mistake the runs must catch: every access point is taken for a new one.
DupPosition_Last(recs, ap) == Slots

\* The record of this access point; without one, the last record.
DupPosition(recs, ap) ==
  CHOOSE p \in 1 .. Slots :
    /\ p = Slots \/ recs[p].bssid = ap.bssid
    /\ \A q \in 1 .. p - 1 : recs[q].bssid # ap.bssid

\* A mistake the runs must catch: the new record changes places with the front.
Store_Swap(recs, ap) ==
  [i \in 1 .. Slots |-> IF i = 1 THEN ap
                        ELSE IF i = DupPosition(recs, ap) THEN recs[1] ELSE recs[i]]

\* A mistake the runs must catch: the newest is kept last, the table moves up.
Store_AtTheEnd(recs, ap) ==
  LET Old == {p \in 1 .. Slots : recs[p].bssid = ap.bssid}
      gap == IF Old = {} THEN 1 ELSE CHOOSE p \in Old : TRUE
  IN  [i \in 1 .. Slots |-> IF i = Slots THEN ap ELSE IF i >= gap THEN recs[i + 1] ELSE recs[i]]

\* The records before it move over it, and it is stored at the front.
Store(recs, ap) ==
  [i \in 1 .. Slots |-> IF i = 1 THEN ap
                        ELSE IF i <= DupPosition(recs, ap) THEN recs[i - 1] ELSE recs[i]]

Held(recs) == {recs[i].bssid : i \in {j \in 1 .. Slots : recs[j] # Unused}}

\* my_scan_done_event_handler: the scan has found these, and qsort has ordered them
\* by their signals, whatever those are.
SortFound(found) ==
  /\ now < MaxScans /\ now' = now + 1 /\ storing = <<>>
  /\ storing' \in SetToSeqs(found)
  /\ UNCHANGED <<scanRecords, page>>

\* One round of its loop.
StoreNext ==
  /\ storing # <<>> /\ storing' = Tail(storing)
  /\ scanRecords' = Store(scanRecords, [bssid |-> Head(storing), time |-> now])
  /\ page' = [page EXCEPT !.missing = (@ \ {Head(storing)}) \cap Held(scanRecords')]
  /\ UNCHANGED now
-----------------------------------------------------------------------------
\* recent_wifi_json_handler has written the head of the page.
BeginPage ==
  /\ storing = <<>> /\ page.row = 0
  /\ page' = [NoPage EXCEPT !.row = 1, !.missing = Held(scanRecords)]
  /\ UNCHANGED <<now, scanRecords, storing>>

\* The fields of a row that say which access point it is.
ShowName ==
  /\ storing = <<>> /\ page.row \in 1 .. Slots /\ page.bssid = NoBssid
  /\ IF scanRecords[page.row] = Unused
       THEN page' = [page EXCEPT !.row = @ + 1]
       ELSE page' = [page EXCEPT !.bssid = scanRecords[page.row].bssid]
  /\ UNCHANGED <<now, scanRecords, storing>>

\* The fields after them, of the access point that is there by now.
ShowRest ==
  /\ storing = <<>> /\ page.row \in 1 .. Slots /\ page.bssid # NoBssid
  /\ page' = [page EXCEPT !.row = @ + 1, !.bssid = NoBssid,
                          !.missing = @ \ ({page.bssid} \cap {scanRecords[page.row].bssid})]
  /\ UNCHANGED <<now, scanRecords, storing>>

EndPage ==
  /\ storing = <<>> /\ page.row = Slots + 1 /\ page' = NoPage
  /\ UNCHANGED <<now, scanRecords, storing>>

Page == BeginPage \/ ShowName \/ ShowRest \/ EndPage

\* The table is in RAM: nothing of it is left after a restart.
Forget ==
  /\ storing' = <<>> /\ page' = NoPage /\ scanRecords' = [i \in 1 .. Slots |-> Unused]
  /\ UNCHANGED now

TableNext ==
  \/ \E found \in SUBSET Bssids : SortFound(found)
  \/ StoreNext \/ Page \/ Forget

TableSpec == TableInit /\ [][TableNext]_tableVars
-----------------------------------------------------------------------------
LastSeen(b) == LET i == CHOOSE j \in 1 .. Slots : scanRecords[j].bssid = b
               IN  scanRecords[i].time

(* However often an access point comes and goes, the table has one record   *)
(* of it (clockConnect.c:252-267).                                          *)
NoDuplicates ==
  \A i, j \in 1 .. Slots :
    scanRecords[i].bssid = scanRecords[j].bssid /\ scanRecords[i] # Unused => i = j

(* An access point is dropped only for others seen since: what stays was    *)
(* seen no earlier than what goes (clockConnect.c:252-267).                 *)
OldestGoesFirst ==
  [][StoreNext =>
       \A b \in Held(scanRecords) \ Held(scanRecords') :
         \A i \in 1 .. Slots : scanRecords'[i].time >= LastSeen(b)]_tableVars

(* The table shifts under the page, and a row may repeat or mix two access  *)
(* points; but one that was in the table all the time and was not seen      *)
(* again has a row of its own, with its own name and its own values         *)
(* (clockServer.c:969-1088).                                                *)
QuietRowsAreShown ==
  page.row = Slots + 1 => page.missing = {}
=============================================================================
