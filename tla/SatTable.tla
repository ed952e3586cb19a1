------------------------------ MODULE SatTable -------------------------------
(***************************************************************************)
(* The satellites in view.  Once a cycle the receiver sends a few GPGSV    *)
(* sentences of four satellites each; gpsparse collects them in a local    *)
(* table and copies it to sClockState.satRecords when the last one is in.  *)
(* The status page reads that table text by text, in the HTTP server's     *)
(* task; reading a text, at most three characters, is one step.            *)
(*                                                                         *)
(* Both tasks run on core 0 and rx_task has the highest priority: it never *)
(* stops for the page, but the page stops for it between any two reads.    *)
(* A row stands for the four records of a sentence, and what it holds for  *)
(* the cycle it was received in (0 is an empty row).                       *)
(***************************************************************************)
EXTENDS Integers, Sequences

CONSTANTS
  MaxGSVRecs,  \* rows in the table, 5
  MaxMessages, \* sentences the receiver may send in a cycle
  MaxCycle     \* bound on the cycles

Rows == 1 .. MaxGSVRecs

ASSUME RowsAssumption ==
  MaxGSVRecs \in Nat \ {0} /\ MaxMessages \in Nat \ {0} /\ MaxCycle \in Nat

VARIABLES
  lossy,       \* may a sentence be lost or damaged
  cycle, nMessages, iMessage, \* the receiver: its cycle, sentences, next one
  localSatRecords, satRecords,
  row,         \* the row the page is at, 0 when there is no page
  col,         \* the column it reads next, 0 when it looks for the row first
  page,        \* what it has read, in the order in which it read
  missed,      \* history: a sentence of this cycle was lost
  whole        \* history: the last cycle that came in whole was published

receiverVars == <<lossy, cycle, nMessages, iMessage>>
pageVars == <<row, col, page>>
satVars == <<receiverVars, localSatRecords, satRecords, pageVars, missed, whole>>

Empty == [r \in Rows |-> 0]

Columns == 4   \* prn, el, az and snr

SatInit ==
  /\ lossy \in BOOLEAN
  /\ cycle = 1 /\ nMessages \in 1 .. MaxMessages /\ iMessage = 1
  /\ localSatRecords = Empty /\ satRecords = Empty
  /\ row = 0 /\ col = 0 /\ page = <<>>
  /\ missed = FALSE /\ whole = TRUE
-----------------------------------------------------------------------------
\* The receiver goes on to the next sentence, or to the next cycle.
Advance ==
  /\ IF iMessage < nMessages
       THEN iMessage' = iMessage + 1 /\ UNCHANGED <<cycle, nMessages>>
       ELSE cycle' = cycle + 1 /\ nMessages' \in 1 .. MaxMessages /\ iMessage' = 1
  /\ UNCHANGED lossy

\* A mistake the runs must catch: the rows of the cycle before are kept.
Collect_NoWipe == [localSatRecords EXCEPT ![iMessage] = cycle]

\* The first sentence wipes the table, and each one fills its row.
Collect ==
  IF iMessage = 1 THEN [Empty EXCEPT ![1] = cycle]
                  ELSE [localSatRecords EXCEPT ![iMessage] = cycle]

\* A mistake the runs must catch: the table is published as it fills.
GotGSV_PublishAll ==
  /\ cycle <= MaxCycle /\ iMessage \in Rows
  /\ localSatRecords' = Collect
  /\ satRecords' = Collect
  /\ whole' = IF iMessage = nMessages THEN ~missed ELSE whole
  /\ missed' = (missed /\ iMessage # nMessages)
  /\ Advance
  /\ UNCHANGED pageVars

\* 0 <= idx && idx < MaxGSVRecs; published when nMessages[0] == iMessage[0].
GotGSV ==
  /\ cycle <= MaxCycle /\ iMessage \in Rows
  /\ localSatRecords' = Collect
  /\ IF iMessage = nMessages THEN satRecords' = Collect /\ whole' = ~missed
                             ELSE UNCHANGED <<satRecords, whole>>
  /\ missed' = (missed /\ iMessage # nMessages)
  /\ Advance
  /\ UNCHANGED pageVars

\* A sentence beyond the last row is ignored.
IgnoredGSV ==
  /\ cycle <= MaxCycle /\ iMessage \notin Rows
  /\ missed' = (iMessage # nMessages)
  /\ Advance
  /\ UNCHANGED <<localSatRecords, satRecords, pageVars, whole>>

\* A sentence that never came, was too long or lost a character.
LostGSV ==
  /\ lossy /\ cycle <= MaxCycle
  /\ missed' = (iMessage # nMessages)
  /\ Advance
  /\ UNCHANGED <<localSatRecords, satRecords, pageVars, whole>>
-----------------------------------------------------------------------------
(* emitsats.                                                               *)

\* Empty buffers, and the loop from the first row.
StartPage ==
  /\ row = 0
  /\ row' = 1 /\ col' = 0 /\ page' = <<>>
  /\ UNCHANGED <<receiverVars, localSatRecords, satRecords, missed, whole>>

\* if(sClockState.satRecords[i].prn[0]==0) break;
EndPage ==
  /\ row > 0 /\ col = 0
  /\ row \in Rows => satRecords[row] = 0
  /\ row' = 0
  /\ UNCHANGED <<receiverVars, localSatRecords, satRecords, col, page, missed, whole>>

FoundRow ==
  /\ row \in Rows /\ col = 0 /\ satRecords[row] # 0
  /\ col' = 1
  /\ UNCHANGED <<receiverVars, localSatRecords, satRecords, row, page, missed, whole>>

\* strlcat(...): each column of the row is read again, and by itself.
ReadText ==
  /\ col > 0
  /\ page' = Append(page, satRecords[row])
  /\ IF col < Columns THEN col' = col + 1 /\ UNCHANGED row
                      ELSE col' = 0 /\ row' = row + 1
  /\ UNCHANGED <<receiverVars, localSatRecords, satRecords, missed, whole>>

GPGSV == GotGSV \/ IgnoredGSV \/ LostGSV
emitsats == StartPage \/ EndPage \/ FoundRow \/ ReadText

SatNext == GPGSV \/ emitsats

SatSpec == SatInit /\ [][SatNext]_satVars
-----------------------------------------------------------------------------
Filled(t) == {r \in Rows : t[r] # 0}

(* When every sentence of the published cycle came in, the table is that    *)
(* cycle: none of its rows missing, none left over from a longer one        *)
(* (clockGps.c:295-323).                                                    *)
WholeCycleIsPublished ==
  whole => \E c \in 0 .. MaxCycle, n \in 0 .. MaxGSVRecs :
             satRecords = [r \in Rows |-> IF r <= n THEN c ELSE 0]

(* Whatever is lost, no row is older than the first one: a page never shows *)
(* rows that the first row's cycle had already replaced                     *)
(* (clockGps.c:311-320).                                                    *)
NoRowOlderThanFirst ==
  \A r \in Filled(satRecords) : satRecords[r] >= satRecords[1]

(* When no sentence is lost, a page moves forward in time: nothing that it *)
(* shows is from a cycle before what it had read above or further left.    *)
(* It may have holes, where a row it had found was gone when it came to    *)
(* read it; what it shows after a hole is from a later cycle than what it  *)
(* shows before the hole (clockServer.c:549-557).                          *)
PageMovesForward ==
  ~lossy => \A i, j \in 1 .. Len(page) :
              i < j /\ page[i] # 0 /\ page[j] # 0 =>
                /\ page[i] <= page[j]
                /\ (\E k \in i .. j : page[k] = 0) => page[i] < page[j]
=============================================================================
