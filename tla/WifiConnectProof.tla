--------------------------- MODULE WifiConnectProof ---------------------------
(* First the table of ScanRecords, for every number of slots and of access   *)
(* points.  That it has one record of each is what makes the page that walks *)
(* it show every one that stays: a record only ever moves down, past the     *)
(* page's row with the row's own name, or not at all.                        *)
(*                                                                           *)
(* Then the connection, for any number of faults, restarts and events that   *)
(* wait: what the queue of the event task may hold, and that the whole clock *)
(* uses the table in no other way than the first part allows.                *)
EXTENDS WifiConnect, FiniteSetTheorems, TLAPS

Records == [bssid : Bssids, time : Int]

TableOK ==
  /\ now \in Int
  /\ scanRecords \in [1 .. Slots -> Records \cup {Unused}]
  /\ storing \in Seq(Bssids)
  /\ page \in [row : 0 .. Slots + 1, bssid : Bssids \cup {NoBssid}, missing : SUBSET Bssids]

\* What the page still has to show is at its row or below it, and at its row only
\* what it has begun to show.
PageInv ==
  /\ \A b \in page.missing : \E i \in 1 .. Slots : i >= page.row /\ scanRecords[i].bssid = b
  /\ page.bssid # NoBssid =>
       /\ page.row \in 1 .. Slots
       /\ scanRecords[page.row].bssid \in page.missing => scanRecords[page.row].bssid = page.bssid

TableInv == TableOK /\ NoDuplicates /\ PageInv

LEMMA RecordFacts ==
  ASSUME TableOK
  PROVE  /\ \A i \in 1 .. Slots : scanRecords[i].bssid \in Bssids \cup {NoBssid}
         /\ \A i \in 1 .. Slots : scanRecords[i] = Unused <=> scanRecords[i].bssid = NoBssid
BY SlotsAssumption DEF TableOK, Records, Unused

\* An access point's position: its record, or the last one.
LEMMA Position ==
  ASSUME TableOK, NoDuplicates, NEW ap \in Records
  PROVE  /\ DupPosition(scanRecords, ap) \in 1 .. Slots
         /\ \A i \in 1 .. Slots :
              scanRecords[i].bssid = ap.bssid => i = DupPosition(scanRecords, ap)
         /\ \/ DupPosition(scanRecords, ap) = Slots
            \/ scanRecords[DupPosition(scanRecords, ap)].bssid = ap.bssid
<1> DEFINE IsIt(p) == /\ p = Slots \/ scanRecords[p].bssid = ap.bssid
                      /\ \A q \in 1 .. p - 1 : scanRecords[q].bssid # ap.bssid
<1>1. Slots \in Nat \ {0} /\ Slots \in 1 .. Slots
  BY SlotsAssumption
<1>2. \A i, j \in 1 .. Slots :
        scanRecords[i].bssid = ap.bssid /\ scanRecords[j].bssid = ap.bssid => i = j
  <2> SUFFICES ASSUME NEW i \in 1 .. Slots, NEW j \in 1 .. Slots,
                      scanRecords[i].bssid = ap.bssid, scanRecords[j].bssid = ap.bssid
               PROVE  i = j
    OBVIOUS
  <2>1. scanRecords[i] # Unused
    BY SlotsAssumption DEF Records, Unused
  <2> QED BY <2>1 DEF NoDuplicates
<1>3. \E p \in 1 .. Slots : IsIt(p)
  <2>1. CASE \E i \in 1 .. Slots : scanRecords[i].bssid = ap.bssid
    <3>1. PICK i \in 1 .. Slots : scanRecords[i].bssid = ap.bssid
      BY <2>1
    <3>2. \A q \in 1 .. i - 1 : q \in 1 .. Slots /\ q # i
      BY <1>1
    <3> QED BY <1>2, <3>1, <3>2
  <2>2. CASE ~ \E i \in 1 .. Slots : scanRecords[i].bssid = ap.bssid
    <3>1. \A q \in 1 .. Slots - 1 : q \in 1 .. Slots
      BY <1>1
    <3> QED BY <1>1, <2>2, <3>1
  <2> QED BY <2>1, <2>2
<1>4. DupPosition(scanRecords, ap) = CHOOSE p \in 1 .. Slots : IsIt(p)
  BY DEF DupPosition
<1> DEFINE at == DupPosition(scanRecords, ap)
<1>5. at \in 1 .. Slots /\ IsIt(at)
  BY <1>3, <1>4
<1> HIDE DEF at
<1>6. ASSUME NEW i \in 1 .. Slots, scanRecords[i].bssid = ap.bssid
      PROVE  i = at
  <2>1. CASE at = Slots
    <3>1. i # Slots => i \in 1 .. at - 1
      BY <1>1, <2>1
    <3> QED BY <1>5, <1>6, <2>1, <3>1
  <2>2. CASE at # Slots
    BY <1>2, <1>5, <1>6, <2>2
  <2> QED BY <2>1, <2>2
<1>7. at = Slots \/ scanRecords[at].bssid = ap.bssid
  BY <1>5
<1> QED BY <1>5, <1>6, <1>7 DEF at

\* What is where after an access point is stored.
LEMMA Stored ==
  ASSUME TableOK, NoDuplicates, NEW ap \in Records
  PROVE  /\ Store(scanRecords, ap) \in [1 .. Slots -> Records \cup {Unused}]
         /\ Store(scanRecords, ap)[1] = ap
         /\ \A i \in 2 .. Slots :
              \/ i - 1 < DupPosition(scanRecords, ap)
                   /\ Store(scanRecords, ap)[i] = scanRecords[i - 1]
              \/ i > DupPosition(scanRecords, ap) /\ Store(scanRecords, ap)[i] = scanRecords[i]
<1> DEFINE at == DupPosition(scanRecords, ap)
<1>1. at \in 1 .. Slots /\ Slots \in Nat \ {0}
  BY Position, SlotsAssumption
<1>2. Store(scanRecords, ap) =
        [i \in 1 .. Slots |-> IF i = 1 THEN ap
                              ELSE IF i <= at THEN scanRecords[i - 1] ELSE scanRecords[i]]
  BY DEF Store
<1> HIDE DEF at
<1>3. \A i \in 2 .. Slots : i \in 1 .. Slots /\ i - 1 \in 1 .. Slots /\ i # 1
  BY <1>1
<1>4. Store(scanRecords, ap)[1] = ap
  BY <1>1, <1>2
<1>5. \A i \in 2 .. Slots :
        \/ i - 1 < at /\ Store(scanRecords, ap)[i] = scanRecords[i - 1]
        \/ i > at /\ Store(scanRecords, ap)[i] = scanRecords[i]
  BY <1>1, <1>2, <1>3
<1>6. Store(scanRecords, ap) \in [1 .. Slots -> Records \cup {Unused}]
  <2>1. \A i \in 1 .. Slots : i = 1 \/ i - 1 \in 1 .. Slots
    BY <1>1
  <2> QED BY <1>2, <2>1 DEF TableOK
<1> QED BY <1>4, <1>5, <1>6 DEF at

LEMMA StoreKeepsOne ==
  ASSUME TableOK, NoDuplicates, NEW ap \in Records, scanRecords' = Store(scanRecords, ap)
  PROVE  NoDuplicates'
<1> DEFINE at == DupPosition(scanRecords, ap)
<1>1. /\ at \in 1 .. Slots /\ Slots \in Nat \ {0}
      /\ \A i \in 1 .. Slots : scanRecords[i].bssid = ap.bssid => i = at
  BY Position, SlotsAssumption
<1>2. /\ scanRecords'[1] = ap
      /\ \A i \in 2 .. Slots :
           \/ i - 1 < at /\ scanRecords'[i] = scanRecords[i - 1]
           \/ i > at /\ scanRecords'[i] = scanRecords[i]
  BY Stored
<1> HIDE DEF at
<1>3. ASSUME NEW i \in 2 .. Slots
      PROVE  scanRecords'[i].bssid # ap.bssid
  <2>1. i - 1 \in 1 .. Slots /\ i \in 1 .. Slots
    BY <1>1
  <2> QED BY <1>1, <1>2, <2>1
<1>4. ASSUME NEW i \in 2 .. Slots, NEW j \in 2 .. Slots, i # j,
             scanRecords'[i].bssid = scanRecords'[j].bssid, scanRecords'[i] # Unused
      PROVE  FALSE
  <2>1. /\ i - 1 \in 1 .. Slots /\ i \in 1 .. Slots /\ j - 1 \in 1 .. Slots /\ j \in 1 .. Slots
        /\ i - 1 # j - 1
    BY <1>1, <1>4
  <2>2. CASE (i - 1 < at /\ j - 1 < at) \/ (i > at /\ j > at)
    BY <1>1, <1>2, <1>4, <2>1, <2>2 DEF NoDuplicates
  <2>3. CASE i - 1 < at /\ scanRecords'[i] = scanRecords[i - 1]
             /\ j > at /\ scanRecords'[j] = scanRecords[j]
    <3>1. i - 1 # j
      BY <1>1, <2>1, <2>3
    <3> QED BY <1>4, <2>1, <2>3, <3>1 DEF NoDuplicates
  <2>4. CASE j - 1 < at /\ scanRecords'[j] = scanRecords[j - 1]
             /\ i > at /\ scanRecords'[i] = scanRecords[i]
    <3>1. j - 1 # i
      BY <1>1, <2>1, <2>4
    <3> QED BY <1>4, <2>1, <2>4, <3>1 DEF NoDuplicates
  <2> QED BY <1>2, <2>2, <2>3, <2>4
<1>5. \A i \in 1 .. Slots : i = 1 \/ i \in 2 .. Slots
  BY <1>1
<1> QED BY <1>2, <1>3, <1>4, <1>5 DEF NoDuplicates

\* The rows the page has still to show move down with the table, not away.
LEMMA StoreKeepsPage ==
  ASSUME TableInv, NEW ap \in Records, scanRecords' = Store(scanRecords, ap),
         page' = [page EXCEPT !.missing = (page.missing \ {ap.bssid}) \cap Held(scanRecords')]
  PROVE  /\ page' \in [row : 0 .. Slots + 1, bssid : Bssids \cup {NoBssid}, missing : SUBSET Bssids]
         /\ PageInv'
<1> DEFINE at == DupPosition(scanRecords, ap)
<1>1. /\ TableOK /\ NoDuplicates /\ PageInv /\ Slots \in Nat \ {0} /\ NoBssid \notin Bssids
      /\ page \in [row : 0 .. Slots + 1, bssid : Bssids \cup {NoBssid}, missing : SUBSET Bssids]
  BY SlotsAssumption DEF TableInv, TableOK
<1>2. /\ scanRecords'[1] = ap /\ at \in 1 .. Slots
      /\ \A i \in 1 .. Slots : scanRecords[i].bssid = ap.bssid => i = at
      /\ \A i \in 2 .. Slots :
           \/ i - 1 < at /\ scanRecords'[i] = scanRecords[i - 1]
           \/ i > at /\ scanRecords'[i] = scanRecords[i]
  BY <1>1, Stored, Position
<1> HIDE DEF at
<1>3. /\ page'.row = page.row /\ page'.bssid = page.bssid
      /\ page'.missing = (page.missing \ {ap.bssid}) \cap Held(scanRecords')
      /\ page' \in [row : 0 .. Slots + 1, bssid : Bssids \cup {NoBssid}, missing : SUBSET Bssids]
  BY <1>1
<1>4. \A b \in page'.missing : b \in page.missing /\ b # ap.bssid /\ b \in Bssids
  BY <1>1, <1>3
\* Its row before, and after.
<1>5. ASSUME NEW b \in page'.missing, NEW i \in 1 .. Slots, scanRecords'[i].bssid = b
      PROVE  \E k \in 1 .. Slots : /\ scanRecords[k].bssid = b /\ k >= page.row
                                   /\ i = k \/ i = k + 1
  <2>1. i \in 2 .. Slots
    BY <1>1, <1>2, <1>4, <1>5
  <2>2. PICK k \in 1 .. Slots : scanRecords[k].bssid = b /\ (i = k \/ i = k + 1)
    <3>1. i \in 1 .. Slots /\ i - 1 \in 1 .. Slots /\ i = (i - 1) + 1
      BY <1>1, <2>1
    <3> QED BY <1>2, <1>5, <2>1, <3>1
  <2>3. PICK m \in 1 .. Slots : scanRecords[m].bssid = b /\ m >= page.row
    BY <1>1, <1>4 DEF PageInv
  <2>4. scanRecords[k] # Unused
    BY <1>1, <1>4, <2>2 DEF Unused
  <2>5. k = m
    BY <1>1, <2>2, <2>3, <2>4 DEF NoDuplicates
  <2> QED BY <2>2, <2>3, <2>5
<1>6. ASSUME NEW b \in page'.missing
      PROVE  \E i \in 1 .. Slots : i >= page'.row /\ scanRecords'[i].bssid = b
  <2>1. b \in Held(scanRecords')
    BY <1>3
  <2>2. PICK i \in 1 .. Slots : scanRecords'[i].bssid = b
    BY <2>1 DEF Held
  <2>3. PICK k \in 1 .. Slots : k >= page.row /\ (i = k \/ i = k + 1)
    BY <1>5, <2>2
  <2>4. i >= page.row
    BY <1>1, <2>3
  <2> QED BY <1>3, <2>2, <2>4
<1>7. ASSUME page'.bssid # NoBssid
      PROVE  /\ page'.row \in 1 .. Slots
             /\ scanRecords'[page'.row].bssid \in page'.missing =>
                  scanRecords'[page'.row].bssid = page'.bssid
  <2>1. page.row \in 1 .. Slots
    BY <1>1, <1>3, <1>7 DEF PageInv
  <2>2. ASSUME scanRecords'[page.row].bssid \in page'.missing
        PROVE  scanRecords'[page.row].bssid = page.bssid
    <3>1. PICK k \in 1 .. Slots : /\ scanRecords[k].bssid = scanRecords'[page.row].bssid
                                  /\ k >= page.row /\ (page.row = k \/ page.row = k + 1)
      BY <1>5, <2>1, <2>2
    <3>2. k = page.row
      BY <1>1, <2>1, <3>1
    <3> QED BY <1>1, <1>3, <1>4, <1>7, <2>2, <3>1, <3>2 DEF PageInv
  <2> QED BY <1>3, <2>1, <2>2
<1> QED BY <1>3, <1>6, <1>7 DEF PageInv

-----------------------------------------------------------------------------
(* The page goes on.                                                         *)

LEMMA ShowNameStep ==
  ASSUME TableInv, ShowName
  PROVE  TableInv'
<1>1. /\ TableOK /\ NoDuplicates /\ PageInv /\ Slots \in Nat \ {0} /\ NoBssid \notin Bssids
      /\ page \in [row : 0 .. Slots + 1, bssid : Bssids \cup {NoBssid}, missing : SUBSET Bssids]
      /\ page.row \in 1 .. Slots /\ page.bssid = NoBssid
      /\ UNCHANGED <<now, scanRecords, storing>>
  BY SlotsAssumption DEF TableInv, TableOK, ShowName
<1>2. CASE scanRecords[page.row] = Unused
  <2>1. page' = [page EXCEPT !.row = page.row + 1]
    BY <1>2 DEF ShowName
  <2>2. /\ page'.row = page.row + 1 /\ page'.bssid = NoBssid /\ page'.missing = page.missing
        /\ page' \in [row : 0 .. Slots + 1, bssid : Bssids \cup {NoBssid}, missing : SUBSET Bssids]
    BY <1>1, <2>1
  <2>3. ASSUME NEW b \in page.missing
        PROVE  \E i \in 1 .. Slots : i >= page'.row /\ scanRecords[i].bssid = b
    <3>1. PICK i \in 1 .. Slots : i >= page.row /\ scanRecords[i].bssid = b
      BY <1>1 DEF PageInv
    <3>2. i # page.row
      BY <1>1, <1>2, <3>1 DEF Unused
    <3>3. i >= page.row + 1
      BY <1>1, <3>1, <3>2
    <3> QED BY <2>2, <3>1, <3>3
  <2>4. PageInv'
    BY <1>1, <2>2, <2>3 DEF PageInv
  <2> QED BY <1>1, <2>2, <2>4 DEF TableInv, TableOK, NoDuplicates
<1>3. CASE scanRecords[page.row] # Unused
  <2>1. page' = [page EXCEPT !.bssid = scanRecords[page.row].bssid]
    BY <1>3 DEF ShowName
  <2>2. scanRecords[page.row].bssid \in Bssids \cup {NoBssid}
    BY <1>1, RecordFacts
  <2>3. /\ page'.row = page.row /\ page'.missing = page.missing
        /\ page'.bssid = scanRecords[page.row].bssid
        /\ page' \in [row : 0 .. Slots + 1, bssid : Bssids \cup {NoBssid}, missing : SUBSET Bssids]
    BY <1>1, <2>1, <2>2
  <2>4. PageInv'
    BY <1>1, <2>3 DEF PageInv
  <2> QED BY <1>1, <2>3, <2>4 DEF TableInv, TableOK, NoDuplicates
<1> QED BY <1>2, <1>3

LEMMA ShowRestStep ==
  ASSUME TableInv, ShowRest
  PROVE  TableInv'
<1>1. /\ TableOK /\ NoDuplicates /\ PageInv /\ Slots \in Nat \ {0} /\ NoBssid \notin Bssids
      /\ page \in [row : 0 .. Slots + 1, bssid : Bssids \cup {NoBssid}, missing : SUBSET Bssids]
      /\ page.row \in 1 .. Slots /\ page.bssid # NoBssid
      /\ UNCHANGED <<now, scanRecords, storing>>
      /\ page' = [page EXCEPT
                    !.row = page.row + 1, !.bssid = NoBssid,
                    !.missing = page.missing \ ({page.bssid} \cap {scanRecords[page.row].bssid})]
  BY SlotsAssumption DEF TableInv, TableOK, ShowRest
<1>2. /\ page'.row = page.row + 1 /\ page'.bssid = NoBssid
      /\ page'.missing = page.missing \ ({page.bssid} \cap {scanRecords[page.row].bssid})
      /\ page' \in [row : 0 .. Slots + 1, bssid : Bssids \cup {NoBssid}, missing : SUBSET Bssids]
  <2> DEFINE rest == page.missing \ ({page.bssid} \cap {scanRecords[page.row].bssid})
  <2>1. rest \in SUBSET Bssids
    BY <1>1
  <2>2. page' = [page EXCEPT !.row = page.row + 1, !.bssid = NoBssid, !.missing = rest]
    BY <1>1, Zenon
  <2> HIDE DEF rest
  <2>3. /\ page'.row = page.row + 1 /\ page'.bssid = NoBssid /\ page'.missing = rest
        /\ page' \in [row : 0 .. Slots + 1, bssid : Bssids \cup {NoBssid}, missing : SUBSET Bssids]
    <3>1. page.row + 1 \in 0 .. Slots + 1
      BY <1>1
    <3>2. page' = [row |-> page.row + 1, bssid |-> NoBssid, missing |-> rest]
      <4>1. page \in [row : 0 .. Slots + 1, bssid : Bssids \cup {NoBssid}, missing : SUBSET Bssids]
        BY <1>1
      <4> QED BY ONLY <2>2, <4>1
    <3> QED BY <2>1, <3>1, <3>2
  <2> QED BY <2>3 DEF rest
<1>3. ASSUME NEW b \in page'.missing
      PROVE  \E i \in 1 .. Slots : i >= page'.row /\ scanRecords[i].bssid = b
  <2>1. b \in page.missing
    BY <1>2
  <2>2. PICK i \in 1 .. Slots : i >= page.row /\ scanRecords[i].bssid = b
    BY <1>1, <2>1 DEF PageInv
  <2>3. i # page.row
    BY <1>1, <1>2, <2>1, <2>2 DEF PageInv
  <2>4. i >= page.row + 1
    BY <1>1, <2>2, <2>3
  <2> QED BY <1>2, <2>2, <2>4
<1>4. PageInv'
  BY <1>1, <1>2, <1>3 DEF PageInv
<1> QED BY <1>1, <1>2, <1>4 DEF TableInv, TableOK, NoDuplicates

LEMMA BeginPageStep ==
  ASSUME TableInv, BeginPage
  PROVE  TableInv'
<1>1. /\ TableOK /\ NoDuplicates /\ Slots \in Nat \ {0} /\ NoBssid \notin Bssids
      /\ UNCHANGED <<now, scanRecords, storing>>
      /\ page' = [row |-> 1, bssid |-> NoBssid, missing |-> Held(scanRecords)]
  BY SlotsAssumption DEF TableInv, BeginPage, NoPage
<1>2. Held(scanRecords) \in SUBSET Bssids
  BY <1>1, RecordFacts DEF Held
<1>3. PageInv'
  <2>1. ASSUME NEW b \in Held(scanRecords)
        PROVE  \E i \in 1 .. Slots : i >= 1 /\ scanRecords[i].bssid = b
    <3>1. PICK i \in 1 .. Slots : scanRecords[i].bssid = b
      BY DEF Held
    <3> QED BY <1>1, <3>1
  <2> QED BY <1>1, <2>1 DEF PageInv
<1>4. TableOK'
  BY <1>1, <1>2 DEF TableOK
<1> QED BY <1>1, <1>3, <1>4 DEF TableInv, NoDuplicates

\* No page, or none any more.
LEMMA NoPageHolds ==
  ASSUME page' = NoPage
  PROVE  /\ PageInv'
         /\ page' \in [row : 0 .. Slots + 1, bssid : Bssids \cup {NoBssid}, missing : SUBSET Bssids]
BY SlotsAssumption DEF NoPage, PageInv

LEMMA SortFoundStep ==
  ASSUME TableInv, NEW found \in SUBSET Bssids, SortFound(found)
  PROVE  TableInv'
<1>1. /\ TableOK /\ NoDuplicates /\ PageInv /\ UNCHANGED <<scanRecords, page>>
      /\ now' = now + 1 /\ storing' \in SetToSeqs(found)
  BY DEF TableInv, SortFound
<1>2. Cardinality(found) \in Nat
  BY ScansAssumption, FS_Subset, FS_CardinalityType
<1>3. storing' \in [1 .. Cardinality(found) -> found]
  BY <1>1 DEF SetToSeqs
<1>4. storing' \in Seq(Bssids)
  <2>1. storing' \in [1 .. Cardinality(found) -> Bssids]
    BY <1>3
  <2> QED BY <1>2, <2>1
<1>5. TableOK'
  BY <1>1, <1>4 DEF TableOK
<1> QED BY <1>1, <1>5 DEF TableInv, NoDuplicates, PageInv

LEMMA StoreNextStep ==
  ASSUME TableInv, StoreNext
  PROVE  TableInv'
<1> DEFINE ap == [bssid |-> Head(storing), time |-> now]
<1>1. /\ TableOK /\ NoDuplicates /\ storing \in Seq(Bssids) /\ storing # <<>> /\ now \in Int
      /\ storing' = Tail(storing) /\ scanRecords' = Store(scanRecords, ap) /\ now' = now
  <2>1. TableOK /\ NoDuplicates
    BY DEF TableInv
  <2>2. storing \in Seq(Bssids) /\ now \in Int
    BY <2>1, Zenon DEF TableOK
  <2>3. storing # <<>> /\ storing' = Tail(storing) /\ now' = now
    BY Zenon DEF StoreNext
  <2>4. scanRecords' = Store(scanRecords, ap)
    BY Zenon DEF StoreNext
  <2> QED BY <2>1, <2>2, <2>3, <2>4
<1>2. Head(storing) \in Bssids /\ storing' \in Seq(Bssids)
  BY <1>1
<1>3. ap \in Records /\ ap.bssid = Head(storing)
  BY <1>1, <1>2 DEF Records
<1>4. page' = [page EXCEPT !.missing = (page.missing \ {ap.bssid}) \cap Held(scanRecords')]
  BY <1>3 DEF StoreNext
<1> HIDE DEF ap
<1>5. NoDuplicates'
  BY <1>1, <1>3, StoreKeepsOne
<1>6. /\ page' \in [row : 0 .. Slots + 1, bssid : Bssids \cup {NoBssid}, missing : SUBSET Bssids]
      /\ PageInv'
  BY <1>1, <1>3, <1>4, StoreKeepsPage
<1>7. scanRecords' \in [1 .. Slots -> Records \cup {Unused}]
  BY <1>1, <1>3, Stored
<1>8. TableOK'
  BY <1>1, <1>2, <1>6, <1>7 DEF TableOK
<1> QED BY <1>5, <1>6, <1>8 DEF TableInv

LEMMA EmptyTable ==
  ASSUME scanRecords' = [i \in 1 .. Slots |-> Unused], storing' = <<>>, page' = NoPage, now' \in Int
  PROVE  TableInv'
<1>1. NoDuplicates'
  BY DEF NoDuplicates
<1>2. TableOK'
  BY NoPageHolds DEF TableOK
<1> QED BY <1>1, <1>2, NoPageHolds DEF TableInv

(* One record for each access point, and what the page has still to show is  *)
(* below what it has shown (clockConnect.c:252-267, clockServer.c:969-1088). *)
THEOREM TableInvariant == TableSpec => []TableInv
<1>1. TableInit => TableInv
  <2> SUFFICES ASSUME TableInit PROVE TableInv
    OBVIOUS
  <2>1. /\ now = 0 /\ storing = <<>> /\ page = [row |-> 0, bssid |-> NoBssid, missing |-> {}]
        /\ scanRecords = [i \in 1 .. Slots |-> Unused] /\ Slots \in Nat \ {0}
    BY SlotsAssumption DEF TableInit, NoPage
  <2>2. TableOK
    BY <2>1 DEF TableOK
  <2>3. NoDuplicates
    BY <2>1 DEF NoDuplicates
  <2>4. PageInv
    BY <2>1 DEF PageInv
  <2> QED BY <2>2, <2>3, <2>4 DEF TableInv
<1>2. TableInv /\ [TableNext]_tableVars => TableInv'
  <2> SUFFICES ASSUME TableInv, [TableNext]_tableVars PROVE TableInv'
    OBVIOUS
  <2>1. CASE \E found \in SUBSET Bssids : SortFound(found)
    BY <2>1, SortFoundStep
  <2>2. CASE StoreNext
    BY <2>2, StoreNextStep
  <2>3. CASE BeginPage \/ ShowName \/ ShowRest
    BY <2>3, BeginPageStep, ShowNameStep, ShowRestStep
  <2>4. CASE EndPage
    <3>1. UNCHANGED <<now, scanRecords, storing>> /\ page' = NoPage
      BY <2>4 DEF EndPage
    <3> QED BY <3>1, NoPageHolds DEF TableInv, TableOK, NoDuplicates
  <2>5. CASE Forget
    <3>1. now' \in Int
      BY <2>5 DEF Forget, TableInv, TableOK
    <3> QED BY <2>5, <3>1, EmptyTable DEF Forget
  <2>6. CASE UNCHANGED tableVars
    BY <2>6 DEF tableVars, TableInv, TableOK, NoDuplicates, PageInv
  <2> QED BY <2>1, <2>2, <2>3, <2>4, <2>5, <2>6 DEF TableNext, Page
<1> QED BY <1>1, <1>2, PTL DEF TableSpec

(* However access points come and go, the table has one record of each       *)
(* (clockConnect.c:252-267).                                                 *)
THEOREM OneRecordEach == TableSpec => []NoDuplicates
<1>1. TableInv => NoDuplicates
  BY DEF TableInv
<1> QED BY <1>1, TableInvariant, PTL

(* Every access point that stays in the table and is not seen again while    *)
(* the page walks it has its row (clockServer.c:969-1088).                   *)
THEOREM QuietRows == TableSpec => []QuietRowsAreShown
<1>1. TableInv => QuietRowsAreShown
  <2> SUFFICES ASSUME TableInv, page.row = Slots + 1, NEW b \in page.missing PROVE FALSE
    BY DEF QuietRowsAreShown
  <2>1. PICK i \in 1 .. Slots : i >= page.row /\ scanRecords[i].bssid = b
    BY DEF TableInv, PageInv
  <2> QED BY <2>1, SlotsAssumption
<1> QED BY <1>1, TableInvariant, PTL

-----------------------------------------------------------------------------
(* The table is ordered by age.                                              *)

\* Nothing was seen after now, and the front was seen last.
AgeInv ==
  /\ now >= 0
  /\ \A i \in 1 .. Slots : scanRecords[i].time <= now
  /\ \A i, j \in 1 .. Slots : i <= j => scanRecords[i].time >= scanRecords[j].time

LEMMA TimesAreNumbers ==
  ASSUME TableOK
  PROVE  \A i \in 1 .. Slots : scanRecords[i].time \in Int
BY DEF TableOK, Records, Unused

\* What the loop of the scan handler stores.
LEMMA StoredRecord ==
  ASSUME TableInv, StoreNext
  PROVE  \E ap \in Records :
           /\ ap.time = now /\ ap # Unused /\ scanRecords' = Store(scanRecords, ap)
           /\ now' = now /\ TableOK /\ NoDuplicates
<1> DEFINE ap == [bssid |-> Head(storing), time |-> now]
<1>1. storing \in Seq(Bssids) /\ now \in Int /\ TableOK /\ NoDuplicates
  BY Zenon DEF TableInv, TableOK
<1>2. storing # <<>> /\ now' = now /\ scanRecords' = Store(scanRecords, ap)
  BY Zenon DEF StoreNext
<1>3. Head(storing) \in Bssids
  BY <1>1, <1>2
<1>4. ap \in Records /\ ap.time = now /\ ap # Unused
  BY <1>1, <1>3, SlotsAssumption DEF Records, Unused
<1> HIDE DEF ap
<1> QED BY <1>1, <1>2, <1>4

\* Where the rows of the table were before the store.
LEMMA RowsMove ==
  ASSUME TableInv, StoreNext
  PROVE  /\ scanRecords'[1].time = now /\ now' = now
         /\ \E at \in 1 .. Slots : \A i \in 2 .. Slots :
              \/ i <= at /\ scanRecords'[i] = scanRecords[i - 1]
              \/ i > at /\ scanRecords'[i] = scanRecords[i]
<1>1. PICK ap \in Records :
        /\ ap.time = now /\ ap # Unused /\ scanRecords' = Store(scanRecords, ap)
        /\ now' = now /\ TableOK /\ NoDuplicates
  BY StoredRecord
<1> DEFINE at == DupPosition(scanRecords, ap)
<1>2. /\ at \in 1 .. Slots /\ scanRecords'[1] = ap
      /\ \A i \in 2 .. Slots :
           \/ i - 1 < at /\ scanRecords'[i] = scanRecords[i - 1]
           \/ i > at /\ scanRecords'[i] = scanRecords[i]
  BY <1>1, Position, Stored
<1> HIDE DEF at
<1>3. \A i \in 2 .. Slots : i - 1 < at <=> i <= at
  BY <1>2, SlotsAssumption
<1> QED BY <1>1, <1>2, <1>3

LEMMA StoreKeepsAge ==
  ASSUME TableInv, AgeInv, StoreNext
  PROVE  AgeInv'
<1>1. PICK at \in 1 .. Slots :
        /\ scanRecords'[1].time = now /\ now' = now
        /\ \A i \in 2 .. Slots :
              \/ i <= at /\ scanRecords'[i] = scanRecords[i - 1]
              \/ i > at /\ scanRecords'[i] = scanRecords[i]
  BY RowsMove
<1>2. /\ \A i \in 1 .. Slots : scanRecords[i].time \in Int
      /\ Slots \in Nat \ {0} /\ now \in Int
  BY TimesAreNumbers, SlotsAssumption DEF TableInv, TableOK
<1>3. \A i \in 2 .. Slots : \E k \in 1 .. Slots :
        scanRecords'[i] = scanRecords[k] /\ ((k = i - 1 /\ i <= at) \/ (k = i /\ i > at))
  <2> SUFFICES ASSUME NEW i \in 2 .. Slots
               PROVE  \E k \in 1 .. Slots :
                 scanRecords'[i] = scanRecords[k] /\ ((k = i - 1 /\ i <= at) \/ (k = i /\ i > at))
    OBVIOUS
  <2>1. i - 1 \in 1 .. Slots /\ i \in 1 .. Slots
    BY <1>2
  <2>2. CASE i <= at /\ scanRecords'[i] = scanRecords[i - 1]
    BY <2>1, <2>2
  <2>3. CASE i > at /\ scanRecords'[i] = scanRecords[i]
    BY <2>1, <2>3
  <2> QED BY <1>1, <2>2, <2>3
<1>4. ASSUME NEW i \in 1 .. Slots
      PROVE  scanRecords'[i].time \in Int /\ scanRecords'[i].time <= now
  <2>1. CASE i = 1
    BY <1>1, <1>2, <2>1
  <2>2. CASE i # 1
    <3>1. i \in 2 .. Slots
      BY <1>2, <2>2
    <3> QED BY <1>2, <1>3, <3>1 DEF AgeInv
  <2> QED BY <2>1, <2>2
<1>5. ASSUME NEW i \in 1 .. Slots, NEW j \in 1 .. Slots, i <= j
      PROVE  scanRecords'[i].time >= scanRecords'[j].time
  <2>1. CASE i = 1
    BY <1>1, <1>2, <1>4, <2>1
  <2>2. CASE i # 1
    <3>1. i \in 2 .. Slots /\ j \in 2 .. Slots
      BY <1>2, <1>5, <2>2
    <3>2. PICK k \in 1 .. Slots :
            scanRecords'[i] = scanRecords[k] /\ ((k = i - 1 /\ i <= at) \/ (k = i /\ i > at))
      BY <1>3, <3>1
    <3>3. PICK m \in 1 .. Slots :
            scanRecords'[j] = scanRecords[m] /\ ((m = j - 1 /\ j <= at) \/ (m = j /\ j > at))
      BY <1>3, <3>1
    <3>4. k <= m
      BY <1>5, <3>2, <3>3
    <3> QED BY <3>2, <3>3, <3>4 DEF AgeInv
  <2> QED BY <2>1, <2>2
<1> QED BY <1>1, <1>4, <1>5 DEF AgeInv

\* What a store drops was in the last row, and nowhere else.
LEMMA DroppedIsLast ==
  ASSUME TableInv, StoreNext, NEW b \in Held(scanRecords) \ Held(scanRecords')
  PROVE  \A j \in 1 .. Slots : scanRecords[j].bssid = b <=> j = Slots
<1>1. PICK ap \in Records :
        /\ ap.time = now /\ ap # Unused /\ scanRecords' = Store(scanRecords, ap)
        /\ now' = now /\ TableOK /\ NoDuplicates
  BY StoredRecord
<1> DEFINE at == DupPosition(scanRecords, ap)
<1>2. /\ at \in 1 .. Slots /\ scanRecords'[1] = ap
      /\ at = Slots \/ scanRecords[at].bssid = ap.bssid
      /\ \A i \in 2 .. Slots :
           \/ i - 1 < at /\ scanRecords'[i] = scanRecords[i - 1]
           \/ i > at /\ scanRecords'[i] = scanRecords[i]
  BY <1>1, Position, Stored
<1>3. Slots \in Nat \ {0} /\ 1 \in 1 .. Slots
  BY SlotsAssumption
<1> HIDE DEF at
<1>4. PICK k \in 1 .. Slots : scanRecords[k] # Unused /\ scanRecords[k].bssid = b
  BY DEF Held
<1>5. \A i \in 1 .. Slots : scanRecords'[i] # Unused => scanRecords'[i].bssid # b
  BY DEF Held
<1>6. k = at
  <2>1. CASE k < at
    <3>1. k + 1 \in 2 .. Slots /\ k + 1 \in 1 .. Slots /\ ~ (k + 1 > at) /\ (k + 1) - 1 = k
      BY <1>2, <1>3, <2>1
    <3>2. scanRecords'[k + 1] = scanRecords[k]
      BY <1>2, <3>1
    <3> QED BY <1>4, <1>5, <3>1, <3>2
  <2>2. CASE k > at
    <3>1. k \in 2 .. Slots /\ ~ (k - 1 < at)
      BY <1>2, <1>3, <2>2
    <3>2. scanRecords'[k] = scanRecords[k]
      BY <1>2, <3>1
    <3> QED BY <1>4, <1>5, <3>2
  <2> QED BY <1>2, <2>1, <2>2
<1>7. k = Slots
  <2>1. b # ap.bssid
    BY <1>1, <1>2, <1>3, <1>5
  <2> QED BY <1>2, <1>4, <1>6, <2>1
<1> QED BY <1>1, <1>4, <1>7 DEF NoDuplicates

LEMMA DropsTheOldest ==
  ASSUME TableInv, AgeInv, StoreNext, NEW b \in Held(scanRecords) \ Held(scanRecords'),
         NEW i \in 1 .. Slots
  PROVE  scanRecords'[i].time >= LastSeen(b)
<1>1. LastSeen(b) = scanRecords[Slots].time
  <2>1. Slots \in 1 .. Slots
    BY SlotsAssumption
  <2>2. \A j \in 1 .. Slots : scanRecords[j].bssid = b <=> j = Slots
    BY DroppedIsLast
  <2>3. (CHOOSE j \in 1 .. Slots : scanRecords[j].bssid = b) = Slots
    BY <2>1, <2>2
  <2> QED BY <2>3 DEF LastSeen
<1>2. PICK at \in 1 .. Slots :
        /\ scanRecords'[1].time = now
        /\ \A r \in 2 .. Slots :
              \/ r <= at /\ scanRecords'[r] = scanRecords[r - 1]
              \/ r > at /\ scanRecords'[r] = scanRecords[r]
  BY RowsMove
<1>3. /\ \A r \in 1 .. Slots : scanRecords[r].time >= scanRecords[Slots].time
      /\ scanRecords[Slots].time <= now /\ scanRecords[Slots].time \in Int /\ now \in Int
  <2>1. Slots \in 1 .. Slots /\ \A r \in 1 .. Slots : r <= Slots
    BY SlotsAssumption
  <2> QED BY <2>1, TimesAreNumbers DEF AgeInv, TableInv, TableOK
<1>4. CASE i = 1
  BY <1>1, <1>2, <1>3, <1>4
<1>5. CASE i # 1
  <2>1. i \in 2 .. Slots /\ i - 1 \in 1 .. Slots
    BY <1>5, SlotsAssumption
  <2> QED BY <1>1, <1>2, <1>3, <2>1
<1> QED BY <1>4, <1>5

LEMMA AgeStep == TableInv /\ AgeInv /\ [TableNext]_tableVars => AgeInv'
<1> SUFFICES ASSUME TableInv, AgeInv, [TableNext]_tableVars PROVE AgeInv'
  OBVIOUS
<1>1. CASE \E found \in SUBSET Bssids : SortFound(found)
  <2>1. now' = now + 1 /\ now \in Int /\ UNCHANGED scanRecords
    BY <1>1 DEF SortFound, TableInv, TableOK
  <2>2. \A i \in 1 .. Slots : scanRecords[i].time \in Int
    BY TimesAreNumbers DEF TableInv
  <2> QED BY <2>1, <2>2 DEF AgeInv
<1>2. CASE StoreNext
  BY <1>2, StoreKeepsAge
<1>3. CASE Page \/ UNCHANGED tableVars
  BY <1>3 DEF Page, BeginPage, ShowName, ShowRest, EndPage, tableVars, AgeInv
<1>4. CASE Forget
  <2>1. /\ now' = now /\ now \in Int /\ now >= 0
        /\ \A i \in 1 .. Slots : scanRecords'[i].time = 0
    BY <1>4 DEF Forget, Unused, TableInv, TableOK, AgeInv
  <2> QED BY <2>1 DEF AgeInv
<1> QED BY <1>1, <1>2, <1>3, <1>4 DEF TableNext

(* An access point drops out only for others that were seen no earlier, for  *)
(* any number of rows and scans: nothing sorts the table, but its records    *)
(* stay in the order they were last seen in (clockConnect.c:252-267).        *)
THEOREM OldestIsDropped == TableSpec => OldestGoesFirst
<1>1. TableInit => AgeInv
  BY DEF TableInit, AgeInv, Unused
<1>2. TableInv /\ AgeInv /\ [TableNext]_tableVars => AgeInv'
  BY AgeStep
<1>3. TableInv /\ AgeInv =>
        [StoreNext => \A b \in Held(scanRecords) \ Held(scanRecords') :
                        \A i \in 1 .. Slots : scanRecords'[i].time >= LastSeen(b)]_tableVars
  BY DropsTheOldest
<1> QED BY <1>1, <1>2, <1>3, TableInvariant, PTL DEF TableSpec, OldestGoesFirst

-----------------------------------------------------------------------------
(* The connection.                                                           *)

AllEvents == StationHandlers \cup {"scan_done"}
StatusEvents == {"got_ip", "disconnected"}
Beginning == {"boot", "station", "started"}

WifiOK ==
  /\ useWIFI \in BOOLEAN /\ events \in Seq(AllEvents)
  /\ main \in Beginning \cup {"joining", "waiting", "done"}
  /\ ipSem \in Nat \cup {NULL} /\ left \in Nat /\ nDisconnects \in Nat
  /\ handler \in {"none", "sleep", "scan"} /\ scanner \in {"none", "created", "test", "take", "delay"}
  /\ link \in {"none", "stopped", "down", "joining", "joined", "online"}
  /\ life \in {"up", "stopping", "off", "aborted"}

\* The driver has nothing to say before the station is started, the address has its
\* semaphore from the same time as somebody waits for it, and scans come last.
BeginInv ==
  /\ ipSem = NULL <=> main \in Beginning \cup {"joining"}
  /\ main \in Beginning => events = <<>> /\ link \in {"stopped", "down"} /\ handler = "none"
  /\ main # "done" => scanner = "none"

\* With WiFi off the station does not join; with it, all its events are handled until a
\* restart.
OffInv ==
  ~ useWIFI => /\ link \in {"stopped", "down"} /\ handler # "sleep" /\ life # "stopping"
               /\ \A i \in 1 .. Len(events) : events[i] = "scan_done"
OnInv ==
  life = "up" /\ useWIFI /\ main # "boot" => StationHandlers \subseteq registered

\* A scan is at one place: with the driver, in the queue, in its handler or in the
\* semaphore; and only when scan_task waits for it.
Queued(event) == {i \in 1 .. Len(events) : events[i] = event}
ScanInv ==
  /\ scanner # "take" => ~ scanning /\ Queued("scan_done") = {} /\ handler # "scan" /\ scanSem # 1
  /\ scanning => Queued("scan_done") = {} /\ handler # "scan" /\ scanSem # 1
  /\ handler = "scan" => Queued("scan_done") = {} /\ scanSem # 1
  /\ scanSem = 1 => Queued("scan_done") = {}
  /\ \A i, j \in Queued("scan_done") : i = j

\* What mystop has still to do is the end of its list.  Once the first handler is gone,
\* no disconnect is answered any more; the driver goes last, and not before a restart.
StopInv ==
  /\ life = "up" => link # "none" /\ (link = "stopped" => main \in {"boot", "station"})
  /\ life = "stopping" =>
       /\ main \in {"waiting", "done"}
       /\ toStop \in Seq(StationHandlers \cup {"stop", "deinit"}) /\ Len(toStop) \in 0 .. 6
       /\ \A i \in 1 .. Len(toStop) : toStop[i] = StopSteps[i + 6 - Len(toStop)]
       /\ Len(toStop) # 6 => "disconnected" \notin registered /\ handler # "sleep"
       /\ Len(toStop) # 0 => link # "none"

\* The last word on the link is in the queue, or has been handled.
LastWord(i) ==
  /\ i \in 1 .. Len(events) /\ events[i] \in StatusEvents
  /\ \A j \in i + 1 .. Len(events) : events[j] \notin StatusEvents
StatusInv ==
  life = "up" =>
    /\ \A i \in 1 .. Len(events) : LastWord(i) => (events[i] = "got_ip" <=> link = "online")
    /\ (\A i \in 1 .. Len(events) : events[i] \notin StatusEvents) =>
         /\ ip_addr_txt = "address" <=> link = "online"
         /\ link = "online" => nDisconnects = 0

IInv == WifiOK /\ BeginInv /\ OffInv /\ OnInv /\ ScanInv /\ StopInv /\ StatusInv

\* The queue.
LEMMA QueueFacts ==
  ASSUME events \in Seq(AllEvents)
  PROVE  /\ Len(events) \in Nat
         /\ \A i \in 1 .. Len(events) : events[i] \in AllEvents
         /\ events # <<>> => /\ Len(Tail(events)) = Len(events) - 1 /\ Head(events) = events[1]
                             /\ 1 \in 1 .. Len(events) /\ Tail(events) \in Seq(AllEvents)
                             /\ \A i \in 1 .. Len(Tail(events)) :
                                  i + 1 \in 1 .. Len(events) /\ Tail(events)[i] = events[i + 1]
         /\ \A e \in AllEvents :
              /\ Append(events, e) \in Seq(AllEvents) /\ Append(events, e) # <<>>
              /\ Len(Append(events, e)) = Len(events) + 1
              /\ Append(events, e)[Len(events) + 1] = e
              /\ \A i \in 1 .. Len(events) : Append(events, e)[i] = events[i]
OBVIOUS

LEMMA EmptyQueue == \A s : s = <<>> => s \in Seq(AllEvents) /\ Len(s) = 0 /\ \A i \in 1 .. Len(s) : FALSE
OBVIOUS

\* No handler answers with an abort but that of an address.
LEMMA ReconnectIsAnswered ==
  ASSUME WifiOK, StopInv, Reconnect
  PROVE  link # "none" /\ UNCHANGED lifeVars /\ link' = IF link = "down" THEN "joining" ELSE link
<1>1. life \in {"up", "stopping"} /\ handler = "sleep" /\ esp_wifi_connect
  BY DEF Reconnect, Running
<1>2. life = "stopping" => Len(toStop) = 6
  BY <1>1 DEF StopInv
<1>3. link # "none"
  BY <1>1, <1>2 DEF StopInv
<1> QED BY <1>1, <1>3 DEF esp_wifi_connect

\* The handler of a scan begins, or finds the driver stopped.
LEMMA ScanIsHandled ==
  ASSUME ScanDone
  PROVE  /\ Receive("scan_done")
         /\ UNCHANGED <<mainVars, ipSem, ip_addr_txt, nDisconnects, scanVars, driverVars>>
         /\ \/ life' = "aborted" /\ UNCHANGED handler /\ link \in {"stopped", "none"}
            \/ handler' = "scan" /\ UNCHANGED lifeVars
BY DEF ScanDone, Abort

\* A start that fails changes nothing else.
LEMMA StartStops ==
  ASSUME StartFails
  PROVE  /\ life' = "aborted" /\ main \in Beginning
         /\ UNCHANGED <<mainVars, ipSem, eventVars, events, scanVars, driverVars, tableVars>>
BY DEF StartFails, Abort, Beginning

LEMMA TypeStep ==
  ASSUME IInv, Next
  PROVE  WifiOK'
<1> USE AddressesAssumption
<1>0. WifiOK /\ BeginInv /\ StopInv /\ events \in Seq(AllEvents)
  BY DEF IInv, WifiOK
<1>1. CASE my_connect
  <2>1. CASE StartStation \/ StartAccessPoint \/ Join
    <3>1. CASE StartStation
      BY <1>0, <3>1 DEF StartStation, WifiOK, Beginning, scanVars, driverVars, lifeVars
    <3>2. CASE StartAccessPoint
      BY <1>0, <3>2 DEF StartAccessPoint, WifiOK, Beginning, eventVars, scanVars, lifeVars
    <3>3. CASE Join
      BY <1>0, <3>3 DEF Join, WifiOK, Beginning, eventVars, scanVars, lifeVars
    <3> QED BY <2>1, <3>1, <3>2, <3>3
  <2>2. CASE CreateSemaphore
    BY <1>0, <2>2 DEF CreateSemaphore, WifiOK, Beginning, eventVars, scanVars, driverVars, lifeVars
  <2>3. CASE WaitForAddress
    <3>1. ipSem' \in Nat \cup {NULL} /\ left' \in Nat
      BY <1>0, <2>3 DEF WaitForAddress, WifiOK, NULL
    <3> QED BY <1>0, <2>3, <3>1 DEF WaitForAddress, WifiOK, eventVars, scanVars, driverVars, lifeVars
  <2>4. CASE CreateTasks
    BY <1>0, <2>4 DEF CreateTasks, WifiOK, eventVars, driverVars, lifeVars
  <2> QED BY <1>1, <2>1, <2>2, <2>3, <2>4 DEF my_connect
<1>2. CASE IgnoreEvent \/ myon_wifi_connect \/ myon_wifi_disconnect
  <2>1. events' \in Seq(AllEvents)
    BY <1>0, <1>2, QueueFacts DEF IgnoreEvent, myon_wifi_connect, myon_wifi_disconnect, Receive
  <2> QED
    BY <1>0, <1>2, <2>1 DEF IgnoreEvent, myon_wifi_connect, myon_wifi_disconnect, Receive,
       WifiOK, mainVars, eventVars, scanVars, driverVars, lifeVars
<1>3. CASE myon_got_ip \/ myon_got_ipv6
  <2>1. events' \in Seq(AllEvents)
    BY <1>0, <1>3, QueueFacts DEF myon_got_ip, myon_got_ipv6, Receive
  <2>2. ipSem' \in Nat \cup {NULL} /\ life' \in {life, "aborted"}
    BY <1>0, <1>3 DEF myon_got_ip, myon_got_ipv6, GiveAddress, Abort, lifeVars, WifiOK, NULL
  <2> QED
    BY <1>0, <1>3, <2>1, <2>2 DEF myon_got_ip, myon_got_ipv6, Receive,
       WifiOK, mainVars, eventVars, scanVars, driverVars
<1>4. CASE Reconnect
  <2>1. UNCHANGED lifeVars /\ link' = IF link = "down" THEN "joining" ELSE link
    BY <1>0, <1>4, ReconnectIsAnswered
  <2> QED BY <1>0, <1>4, <2>1 DEF Reconnect, WifiOK, mainVars, scanVars, lifeVars
<1>5. CASE StoreRecord \/ GiveScan
  BY <1>0, <1>5 DEF StoreRecord, GiveScan, WifiOK, mainVars, eventVars, scanVars, driverVars, lifeVars
<1>6. CASE ScanTask
  BY <1>0, <1>6 DEF ScanTask, CreateScanSemaphore, StartScan, SkipScan, TakeScan, Delay, WifiOK,
     mainVars, eventVars, driverVars, lifeVars
<1>7. CASE Driver \/ LinkDown
  <2>1. \E e \in AllEvents : events' = Append(events, e)
    <3>1. CASE JoinSucceeds
      BY <3>1 DEF JoinSucceeds, Post, AllEvents, StationHandlers
    <3>2. CASE GetAddress
      BY <3>2 DEF GetAddress, Post, AllEvents, StationHandlers
    <3>3. CASE GetAddress6
      BY <3>3 DEF GetAddress6, Post, AllEvents, StationHandlers
    <3>4. CASE ScanEnds
      BY <3>4 DEF ScanEnds, Post, AllEvents
    <3>5. CASE LinkDown
      BY <3>5 DEF LinkDown, Post, AllEvents, StationHandlers
    <3> QED BY <1>7, <3>1, <3>2, <3>3, <3>4, <3>5 DEF Driver
  <2> QED
    <3>1. events' \in Seq(AllEvents)
      BY <1>0, <2>1, QueueFacts
    <3> QED
      BY <1>0, <1>7, <3>1 DEF Driver, JoinSucceeds, LinkDown, GetAddress, GetAddress6, ScanEnds,
         WifiOK, mainVars, eventVars, scanVars, lifeVars
<1>8. CASE Restart \/ mystop
  <2>1. events' \in Seq(AllEvents)
    <3>1. events' = events \/ events' = Append(events, "disconnected")
      BY <1>8 DEF Restart, mystop, Unregister, StopWifi, DeinitWifi, Stopped, Post
    <3>2. "disconnected" \in AllEvents
      BY DEF AllEvents, StationHandlers
    <3> QED BY <1>0, <3>1, <3>2, QueueFacts
  <2> QED
    BY <1>0, <1>8, <2>1 DEF Restart, mystop, Unregister, StopWifi, DeinitWifi, Stopped, WifiOK,
       mainVars, eventVars, scanVars, driverVars
<1>9. CASE Boot
  <2>1. events' \in Seq(AllEvents)
    <3>1. events' = <<>>
      BY <1>9, Zenon DEF Boot
    <3> QED BY <3>1
  <2>2. useWIFI' \in BOOLEAN
    BY <1>9, Zenon DEF Boot
  <2>3. /\ main' = "boot" /\ left' = 0 /\ ipSem' = NULL /\ nDisconnects' = 0 /\ handler' = "none"
        /\ scanner' = "none" /\ link' = "stopped" /\ life' = "up"
    BY <1>9 DEF Boot
  <2> QED BY <2>1, <2>2, <2>3 DEF WifiOK, Beginning
<1>10. CASE RecentWifi
  BY <1>0, <1>10 DEF RecentWifi, WifiOK, mainVars, eventVars, scanVars, driverVars, lifeVars
<1>11. CASE ScanDone
  <2>1. events' \in Seq(AllEvents)
    BY <1>0, <1>11, QueueFacts, ScanIsHandled DEF Receive
  <2> QED
    BY <1>0, <1>11, <2>1, ScanIsHandled DEF WifiOK, mainVars, scanVars, driverVars, lifeVars
<1>12. CASE StartFails
  BY <1>0, <1>12, StartStops DEF WifiOK, mainVars, eventVars, scanVars, driverVars
<1> QED
  BY <1>1, <1>2, <1>3, <1>4, <1>5, <1>6, <1>7, <1>8, <1>9, <1>10, <1>11, <1>12 DEF Next, EventTask

LEMMA BeginStep ==
  ASSUME IInv, Next
  PROVE  BeginInv'
<1>0. WifiOK /\ BeginInv /\ StopInv /\ ScanInv
  BY DEF IInv
<1>1. CASE my_connect
  <2>1. CASE StartStation \/ StartAccessPoint \/ Join
    BY <1>0, <2>1 DEF StartStation, StartAccessPoint, Join, BeginInv, Beginning, eventVars, scanVars,
       driverVars
  <2>2. CASE CreateSemaphore
    BY <1>0, <2>2 DEF CreateSemaphore, BeginInv, Beginning, scanVars, NULL
  <2>3. CASE WaitForAddress
    <3>1. ipSem' # NULL
      BY <1>0, <2>3 DEF WaitForAddress, WifiOK, NULL
    <3> QED BY <1>0, <2>3, <3>1 DEF WaitForAddress, BeginInv, Beginning, scanVars
  <2>4. CASE CreateTasks
    BY <1>0, <2>4 DEF CreateTasks, BeginInv, Beginning
  <2> QED BY <1>1, <2>1, <2>2, <2>3, <2>4 DEF my_connect
<1>2. CASE IgnoreEvent \/ myon_wifi_connect \/ myon_wifi_disconnect
  BY <1>0, <1>2 DEF IgnoreEvent, myon_wifi_connect, myon_wifi_disconnect, Receive,
     BeginInv, mainVars, eventVars, scanVars, driverVars, lifeVars
<1>3. CASE myon_got_ip \/ myon_got_ipv6
  BY <1>0, <1>3 DEF myon_got_ip, myon_got_ipv6, GiveAddress, Receive, WifiOK, BeginInv, NULL,
     mainVars, eventVars, scanVars, driverVars
<1>4. CASE Reconnect \/ StoreRecord \/ GiveScan
  BY <1>0, <1>4 DEF Reconnect, StoreRecord, GiveScan, BeginInv, mainVars, eventVars, scanVars, driverVars
<1>5. CASE ScanTask
  BY <1>0, <1>5 DEF ScanTask, CreateScanSemaphore, StartScan, SkipScan, TakeScan, Delay, BeginInv,
     Beginning, mainVars, eventVars, driverVars
<1>6. CASE Driver \/ LinkDown
  <2>1. main \notin Beginning
    BY <1>0, <1>6 DEF Driver, JoinSucceeds, LinkDown, GetAddress, GetAddress6, ScanEnds, BeginInv, ScanInv,
       Beginning
  <2> QED
    BY <1>0, <1>6, <2>1 DEF Driver, JoinSucceeds, LinkDown, GetAddress, GetAddress6, ScanEnds, BeginInv,
       mainVars, eventVars, scanVars
<1>7. CASE Restart \/ RecentWifi
  BY <1>0, <1>7 DEF Restart, RecentWifi, BeginInv, mainVars, eventVars, scanVars, driverVars
<1>8. CASE mystop
  <2>1. main \notin Beginning
    BY <1>0, <1>8 DEF mystop, Unregister, StopWifi, DeinitWifi, Stopped, StopInv, Beginning
  <2> QED
    BY <1>0, <1>8, <2>1 DEF mystop, Unregister, StopWifi, DeinitWifi, Stopped, BeginInv,
       mainVars, eventVars, scanVars, driverVars
<1>9. CASE Boot
  BY <1>9 DEF Boot, BeginInv, Beginning
<1>10. CASE ScanDone
  BY <1>0, <1>10, ScanIsHandled DEF Receive, BeginInv, mainVars, scanVars, driverVars
<1>11. CASE StartFails
  BY <1>0, <1>11, StartStops DEF BeginInv, mainVars, eventVars, scanVars, driverVars
<1> QED
  BY <1>1, <1>2, <1>3, <1>4, <1>5, <1>6, <1>7, <1>8, <1>9, <1>10, <1>11 DEF Next, EventTask

LEMMA OnStep ==
  ASSUME IInv, Next
  PROVE  OnInv'
<1>0. WifiOK /\ OnInv
  BY DEF IInv
<1>1. CASE my_connect
  BY <1>0, <1>1 DEF my_connect, StartStation, StartAccessPoint, Join, CreateSemaphore, WaitForAddress,
     CreateTasks, OnInv, lifeVars
<1>2. CASE EventTask
  BY <1>0, <1>2 DEF EventTask, IgnoreEvent, myon_got_ip, myon_got_ipv6, myon_wifi_connect,
     myon_wifi_disconnect, Reconnect, ScanDone, StoreRecord, GiveScan, OnInv, GiveAddress,
     esp_wifi_connect, Abort, mainVars, lifeVars
<1>3. CASE ScanTask \/ Driver \/ LinkDown \/ RecentWifi
  BY <1>0, <1>3 DEF ScanTask, CreateScanSemaphore, StartScan, SkipScan, TakeScan, Delay, Driver,
     JoinSucceeds, LinkDown, GetAddress, GetAddress6, ScanEnds, RecentWifi, OnInv, mainVars, lifeVars
<1>4. CASE Restart \/ mystop \/ Boot
  BY <1>0, <1>4 DEF Restart, mystop, Unregister, StopWifi, DeinitWifi, Stopped, Boot, OnInv, mainVars
<1>5. CASE StartFails
  BY <1>5, StartStops DEF OnInv
<1> QED BY <1>1, <1>2, <1>3, <1>4, <1>5 DEF Next

LEMMA StopStep ==
  ASSUME IInv, Next
  PROVE  StopInv'
<1>0. WifiOK /\ BeginInv /\ StopInv
  BY DEF IInv
<1>1. CASE my_connect
  BY <1>0, <1>1 DEF my_connect, StartStation, StartAccessPoint, Join, CreateSemaphore, WaitForAddress,
     CreateTasks, StopInv, eventVars, driverVars, lifeVars
<1>2. CASE IgnoreEvent \/ myon_wifi_connect
  BY <1>0, <1>2 DEF IgnoreEvent, myon_wifi_connect,
     StopInv, mainVars, eventVars, driverVars, lifeVars
<1>3. CASE myon_wifi_disconnect
  BY <1>0, <1>3 DEF myon_wifi_disconnect, Receive, StopInv, mainVars, driverVars, lifeVars
<1>4. CASE myon_got_ip \/ myon_got_ipv6
  BY <1>0, <1>4 DEF myon_got_ip, myon_got_ipv6, GiveAddress, Abort, StopInv,
     mainVars, eventVars, driverVars, lifeVars
<1>5. CASE Reconnect
  <2>1. UNCHANGED lifeVars /\ link' = IF link = "down" THEN "joining" ELSE link
    BY <1>0, <1>5, ReconnectIsAnswered
  <2> QED BY <1>0, <1>5, <2>1 DEF Reconnect, StopInv, mainVars, lifeVars
<1>6. CASE StoreRecord \/ GiveScan
  BY <1>0, <1>6 DEF StoreRecord, GiveScan, StopInv, mainVars, eventVars, driverVars, lifeVars
<1>7. CASE ScanTask \/ Driver \/ LinkDown \/ RecentWifi
  BY <1>0, <1>7 DEF ScanTask, CreateScanSemaphore, StartScan, SkipScan, TakeScan, Delay, Driver,
     JoinSucceeds, LinkDown, GetAddress, GetAddress6, ScanEnds, RecentWifi, StopInv, mainVars, eventVars,
     driverVars, lifeVars
<1>8. CASE Restart
  <2>1. CASE useWIFI /\ main \in {"waiting", "done"}
    <3>1. /\ life' = "stopping" /\ toStop' = StopSteps /\ main' = main /\ link' = link
          /\ life = "up" /\ link # "none"
      BY <1>0, <1>8, <2>1 DEF Restart, mainVars, driverVars, StopInv
    <3>2. /\ StopSteps \in Seq(StationHandlers \cup {"stop", "deinit"}) /\ Len(StopSteps) = 6
      BY DEF StopSteps, StationHandlers
    <3> QED BY <2>1, <3>1, <3>2 DEF StopInv
  <2>2. CASE ~ (useWIFI /\ main \in {"waiting", "done"})
    BY <1>8, <2>2 DEF Restart, StopInv
  <2> QED BY <2>1, <2>2
<1>9. CASE mystop
  <2>1. CASE Stopped
    BY <2>1 DEF Stopped, StopInv
  <2>2. CASE Unregister \/ StopWifi \/ DeinitWifi
    <3>1. /\ life = "stopping" /\ life' = life /\ main' = main /\ toStop # <<>> /\ toStop' = Tail(toStop)
          /\ handler' = handler
      BY <2>2 DEF Unregister, StopWifi, DeinitWifi, mainVars, eventVars
    <3>2. /\ main \in {"waiting", "done"} /\ link # "none"
          /\ toStop \in Seq(StationHandlers \cup {"stop", "deinit"}) /\ Len(toStop) \in 1 .. 6
          /\ \A i \in 1 .. Len(toStop) : toStop[i] = StopSteps[i + 6 - Len(toStop)]
          /\ Len(toStop) # 6 => "disconnected" \notin registered /\ handler # "sleep"
      BY <1>0, <3>1 DEF StopInv
    <3>3. /\ toStop' \in Seq(StationHandlers \cup {"stop", "deinit"}) /\ Len(toStop') = Len(toStop) - 1
          /\ \A i \in 1 .. Len(toStop') : toStop'[i] = toStop[i + 1]
      BY <3>1, <3>2
    <3>4. /\ Len(toStop') \in 0 .. 6
          /\ \A i \in 1 .. Len(toStop') : toStop'[i] = StopSteps[i + 6 - Len(toStop')]
      <4>1. Len(toStop) \in Int /\ Len(toStop') \in 0 .. 6
        <5>1. PICK n \in 1 .. 6 : n = Len(toStop)
          BY <3>2
        <5>2. Len(toStop') = n - 1
          BY <3>3, <5>1, Zenon
        <5>3. n \in Int /\ n - 1 \in 0 .. 6
          OBVIOUS
        <5> QED BY <5>1, <5>2, <5>3, Zenon
      <4>2. ASSUME NEW i \in 1 .. Len(toStop')
            PROVE  toStop'[i] = StopSteps[i + 6 - Len(toStop')]
        <5>1. i + 1 \in 1 .. Len(toStop) /\ (i + 1) + 6 - Len(toStop) = i + 6 - Len(toStop')
          BY <3>3, <4>1
        <5>2. toStop'[i] = toStop[i + 1]
          BY <3>3
        <5>4. toStop[i + 1] = StopSteps[(i + 1) + 6 - Len(toStop)]
          BY <3>2, <5>1, Zenon
        <5>3. StopSteps[(i + 1) + 6 - Len(toStop)] = StopSteps[i + 6 - Len(toStop')]
          BY <5>1, Zenon
        <5> QED BY <5>2, <5>3, <5>4, Zenon
      <4> QED BY <4>1, <4>2
    <3>5. Head(toStop) = StopSteps[7 - Len(toStop)]
      BY <3>1, <3>2
    <3>6. "disconnected" \notin registered' /\ handler' # "sleep"
      <4>1. CASE Len(toStop) = 6
        <5>1. Head(toStop) = "disconnected"
          BY <3>5, <4>1 DEF StopSteps
        <5> QED BY <2>2, <3>1, <5>1 DEF Unregister, StopWifi, DeinitWifi, StationHandlers
      <4>2. CASE Len(toStop) # 6
        BY <2>2, <3>1, <3>2, <4>2 DEF Unregister, StopWifi, DeinitWifi, mainVars
      <4> QED BY <4>1, <4>2
    <3>7. Len(toStop') # 0 => link' # "none"
      <4> HAVE Len(toStop') # 0
      <4>1. Head(toStop) # "deinit"
        <5>1. PICK n \in 1 .. 6 : n = Len(toStop)
          BY <3>2
        <5>2. n - 1 # 0
          BY <3>3, <5>1, Zenon
        <5>3. 7 - n \in 1 .. 5
          BY <5>2
        <5>4. \A k \in 1 .. 5 : StopSteps[k] # "deinit"
          BY DEF StopSteps
        <5> QED BY <3>5, <5>1, <5>3, <5>4
      <4> QED BY <2>2, <3>2, <4>1 DEF Unregister, StopWifi, DeinitWifi, driverVars
    <3>8. life' # "up" /\ main' \in {"waiting", "done"}
      BY <3>1, <3>2
    <3> QED BY <3>3, <3>4, <3>6, <3>7, <3>8 DEF StopInv
  <2> QED BY <1>9, <2>1, <2>2 DEF mystop
<1>10. CASE Boot
  BY <1>10 DEF Boot, StopInv
<1>11. CASE ScanDone
  BY <1>0, <1>11, ScanIsHandled DEF StopInv, mainVars, driverVars, lifeVars
<1>12. CASE StartFails
  BY <1>12, StartStops DEF StopInv
<1> QED
  BY <1>1, <1>2, <1>3, <1>4, <1>5, <1>6, <1>7, <1>8, <1>9, <1>10, <1>11, <1>12 DEF Next, EventTask

LEMMA OffStep ==
  ASSUME IInv, Next
  PROVE  OffInv'
<1>0. WifiOK /\ BeginInv /\ OffInv /\ events \in Seq(AllEvents)
  BY DEF IInv, WifiOK
<1>1. CASE Boot
  <2>1. events' = <<>> /\ link' = "stopped" /\ handler' = "none" /\ life' = "up"
    BY <1>1, Zenon DEF Boot
  <2>2. Len(events') = 0
    BY <2>1
  <2> QED BY <2>1, <2>2 DEF OffInv
<1>2. CASE ~ Boot
  <2>1. useWIFI' = useWIFI
    BY <1>2, StartStops DEF Next, my_connect, StartStation, StartAccessPoint, Join, CreateSemaphore, WaitForAddress,
       CreateTasks, EventTask, IgnoreEvent, myon_got_ip, myon_got_ipv6, myon_wifi_connect,
       myon_wifi_disconnect, Reconnect, ScanDone, StoreRecord, GiveScan, ScanTask, CreateScanSemaphore,
       StartScan, SkipScan, TakeScan, Delay, Driver, JoinSucceeds, LinkDown, GetAddress, GetAddress6,
       ScanEnds, RecentWifi, Restart, mystop, Unregister, StopWifi, DeinitWifi, Stopped, mainVars
  <2> SUFFICES ASSUME ~ useWIFI PROVE OffInv'
    BY <2>1 DEF OffInv
  <2>2. /\ link \in {"stopped", "down"} /\ handler # "sleep" /\ life # "stopping"
        /\ \A i \in 1 .. Len(events) : events[i] = "scan_done"
    BY <1>0 DEF OffInv
  <2>3. link' \in {"stopped", "down"} /\ handler' # "sleep" /\ life' # "stopping"
    <3>1. CASE my_connect
      BY <2>2, <3>1 DEF my_connect, StartStation, StartAccessPoint, Join, CreateSemaphore, WaitForAddress,
         CreateTasks, eventVars, driverVars, lifeVars
    <3>2. CASE IgnoreEvent \/ ScanDone
      BY <2>2, <3>2, ScanIsHandled DEF IgnoreEvent, eventVars, driverVars, lifeVars
    <3>3. CASE myon_got_ip \/ myon_got_ipv6 \/ myon_wifi_connect \/ myon_wifi_disconnect
      <4>1. events # <<>> /\ Head(events) # "scan_done"
        BY <3>3 DEF Receive, myon_got_ip, myon_got_ipv6, myon_wifi_connect, myon_wifi_disconnect
      <4> QED BY <1>0, <2>2, <4>1, QueueFacts
    <3>4. CASE Reconnect
      BY <2>2, <3>4 DEF Reconnect
    <3>5. CASE StoreRecord \/ GiveScan \/ ScanTask \/ RecentWifi \/ Restart
      BY <2>2, <3>5 DEF StoreRecord, GiveScan, ScanTask, CreateScanSemaphore, StartScan, SkipScan,
         TakeScan, Delay, RecentWifi, Restart, eventVars, driverVars, lifeVars
    <3>6. CASE Driver \/ LinkDown
      BY <2>2, <3>6 DEF Driver, JoinSucceeds, LinkDown, GetAddress, GetAddress6, ScanEnds, eventVars,
         lifeVars
    <3>7. CASE mystop
      BY <2>2, <3>7 DEF mystop, Unregister, StopWifi, DeinitWifi, Stopped
    <3>8. CASE StartFails
      BY <2>2, <3>8, StartStops DEF eventVars, driverVars
    <3> QED BY <1>2, <3>1, <3>2, <3>3, <3>4, <3>5, <3>6, <3>7, <3>8 DEF Next, EventTask
  <2>4. \/ events' = events
        \/ events # <<>> /\ events' = Tail(events)
        \/ events' = Append(events, "scan_done")
    <3>1. CASE my_connect
      BY <3>1 DEF my_connect, StartStation, StartAccessPoint, Join, CreateSemaphore, WaitForAddress,
         CreateTasks
    <3>2. CASE EventTask
      BY <3>2 DEF EventTask, IgnoreEvent, myon_got_ip, myon_got_ipv6, myon_wifi_connect,
         myon_wifi_disconnect, Reconnect, ScanDone, StoreRecord, GiveScan, Receive
    <3>3. CASE ScanTask \/ RecentWifi \/ Restart
      BY <3>3 DEF ScanTask, CreateScanSemaphore, StartScan, SkipScan, TakeScan, Delay, RecentWifi, Restart
    <3>4. CASE Driver \/ LinkDown
      BY <2>2, <3>4 DEF Driver, JoinSucceeds, LinkDown, GetAddress, GetAddress6, ScanEnds, Post
    <3>5. CASE mystop
      BY <2>2, <3>5 DEF mystop, Unregister, StopWifi, DeinitWifi, Stopped
    <3>6. CASE StartFails
      BY <3>6, StartStops
    <3> QED BY <1>2, <3>1, <3>2, <3>3, <3>4, <3>5, <3>6 DEF Next
  <2>5. "scan_done" \in AllEvents
    BY DEF AllEvents
  <2>6. \A i \in 1 .. Len(events') : events'[i] = "scan_done"
    <3>1. CASE events' = events
      BY <2>2, <3>1
    <3>2. CASE events # <<>> /\ events' = Tail(events)
      BY <1>0, <2>2, <3>2, QueueFacts
    <3>3. CASE events' = Append(events, "scan_done")
      <4>1. \A i \in 1 .. Len(events') : i \in 1 .. Len(events) \/ i = Len(events) + 1
        BY <1>0, <2>5, <3>3, QueueFacts
      <4> QED BY <1>0, <2>2, <2>5, <3>3, <4>1, QueueFacts
    <3> QED BY <2>4, <3>1, <3>2, <3>3
  <2> QED BY <2>3, <2>6 DEF OffInv
<1> QED BY <1>1, <1>2

\* A step takes an event, adds one, or leaves the queue alone; or the clock starts.
LEMMA QueueStep ==
  ASSUME Next
  PROVE  \/ events' = events
         \/ events # <<>> /\ events' = Tail(events)
         \/ \E e \in AllEvents : events' = Append(events, e)
         \/ Boot /\ events' = <<>>
<1>1. CASE my_connect
  BY <1>1 DEF my_connect, StartStation, StartAccessPoint, Join, CreateSemaphore, WaitForAddress, CreateTasks
<1>2. CASE EventTask
  BY <1>2 DEF EventTask, IgnoreEvent, myon_got_ip, myon_got_ipv6, myon_wifi_connect,
     myon_wifi_disconnect, Reconnect, ScanDone, StoreRecord, GiveScan, Receive
<1>3. CASE ScanTask \/ RecentWifi \/ Restart
  BY <1>3 DEF ScanTask, CreateScanSemaphore, StartScan, SkipScan, TakeScan, Delay, RecentWifi, Restart
<1>4. CASE Driver \/ LinkDown
  BY <1>4 DEF Driver, JoinSucceeds, LinkDown, GetAddress, GetAddress6, ScanEnds, Post, AllEvents,
     StationHandlers
<1>5. CASE mystop
  BY <1>5 DEF mystop, Unregister, StopWifi, DeinitWifi, Stopped, Post, AllEvents, StationHandlers
<1>6. CASE Boot
  <2>1. events' = <<>>
    BY <1>6, Zenon DEF Boot
  <2> QED BY <1>6, <2>1
<1>7. CASE StartFails
  BY <1>7, StartStops
<1> QED BY <1>1, <1>2, <1>3, <1>4, <1>5, <1>6, <1>7 DEF Next

\* What becomes of the scan that is in the queue.
LEMMA ScanTaken ==
  ASSUME events \in Seq(AllEvents), \A i, j \in Queued("scan_done") : i = j,
         events # <<>>, events' = Tail(events)
  PROVE  /\ \A i \in Queued("scan_done")' : i + 1 \in Queued("scan_done")
         /\ Head(events) = "scan_done" => Queued("scan_done")' = {}
<1>1. \A i \in Queued("scan_done")' : i \in Nat /\ i > 0 /\ i + 1 \in Queued("scan_done")
  BY QueueFacts DEF Queued
<1>2. Head(events) = "scan_done" => 1 \in Queued("scan_done")
  BY QueueFacts DEF Queued
<1>3. \A i \in Nat : i > 0 => i + 1 # 1
  OBVIOUS
<1> QED BY <1>1, <1>2, <1>3

LEMMA ScanPosted ==
  ASSUME events \in Seq(AllEvents), NEW e \in AllEvents, events' = Append(events, e)
  PROVE  /\ Queued("scan_done") \subseteq Queued("scan_done")'
         /\ \A i \in Queued("scan_done")' :
              i \in Queued("scan_done") \/ (i = Len(events) + 1 /\ e = "scan_done")
<1>1. \A i \in 1 .. Len(events) : i \in 1 .. Len(events')
  BY QueueFacts
<1>2. \A i \in 1 .. Len(events') : i \in 1 .. Len(events) \/ i = Len(events) + 1
  BY QueueFacts
<1> QED BY <1>1, <1>2, QueueFacts DEF Queued

LEMMA ScanStep ==
  ASSUME IInv, Next
  PROVE  ScanInv'
<1>0. WifiOK /\ BeginInv /\ ScanInv /\ events \in Seq(AllEvents)
  BY DEF IInv, WifiOK
<1>a. \A i, j \in Queued("scan_done") : i = j
  BY <1>0 DEF ScanInv
<1>b. UNCHANGED events => Queued("scan_done")' = Queued("scan_done")
  BY DEF Queued
<1>1. CASE my_connect
  <2>1. Queued("scan_done")' = Queued("scan_done") /\ UNCHANGED <<scanning, scanSem>>
    BY <1>1, <1>b DEF my_connect, StartStation, StartAccessPoint, Join, CreateSemaphore,
       WaitForAddress, CreateTasks, scanVars, driverVars
  <2>2. handler' = handler
    BY <1>1 DEF my_connect, StartStation, StartAccessPoint, Join, CreateSemaphore,
       WaitForAddress, CreateTasks, eventVars
  <2>3. scanner' = scanner \/ scanner # "take"
    BY <1>0, <1>1 DEF my_connect, StartStation, StartAccessPoint, Join, CreateSemaphore,
       WaitForAddress, CreateTasks, scanVars, BeginInv
  <2> QED BY <1>0, <2>1, <2>2, <2>3 DEF ScanInv
<1>2. CASE IgnoreEvent \/ myon_got_ip \/ myon_got_ipv6 \/ myon_wifi_connect \/ myon_wifi_disconnect
  <2>1. events # <<>> /\ events' = Tail(events) /\ handler = "none" /\ handler' # "scan"
    BY <1>2 DEF IgnoreEvent, myon_got_ip, myon_got_ipv6, myon_wifi_connect, myon_wifi_disconnect, Receive,
       eventVars
  <2>2. UNCHANGED <<scanner, scanSem, scanning>>
    BY <1>2 DEF IgnoreEvent, myon_got_ip, myon_got_ipv6, myon_wifi_connect, myon_wifi_disconnect,
       scanVars, driverVars
  <2>3. \A i \in Queued("scan_done")' : i + 1 \in Queued("scan_done") /\ i \in Int
    BY <1>0, <1>a, <2>1, ScanTaken DEF Queued
  <2>4. \A i, j \in Queued("scan_done")' : i = j
    <3> TAKE i, j \in Queued("scan_done")'
    <3>1. i + 1 = j + 1 /\ i \in Int /\ j \in Int
      BY <1>a, <2>3
    <3> QED BY <3>1
  <2>5. Queued("scan_done") = {} => Queued("scan_done")' = {}
    BY <2>3
  <2> QED BY <1>0, <2>1, <2>2, <2>4, <2>5 DEF ScanInv
<1>3. CASE Reconnect \/ StoreRecord \/ GiveScan \/ RecentWifi \/ Restart
  <2>1. Queued("scan_done")' = Queued("scan_done")
    BY <1>3, <1>b DEF Reconnect, StoreRecord, GiveScan, RecentWifi, Restart
  <2> QED BY <1>0, <1>3, <2>1 DEF Reconnect, StoreRecord, GiveScan, RecentWifi, Restart, ScanInv, eventVars,
          scanVars, driverVars
<1>4. CASE ScanDone
  <2>1. /\ events # <<>> /\ events' = Tail(events) /\ Head(events) = "scan_done"
        /\ handler = "none" /\ handler' \in {"none", "scan"}
        /\ UNCHANGED <<scanner, scanSem, scanning>>
    BY <1>4, ScanIsHandled DEF Receive, scanVars, driverVars
  <2>2. Queued("scan_done")' = {} /\ Queued("scan_done") # {}
    BY <1>0, <1>a, <2>1, ScanTaken, QueueFacts DEF Queued
  <2> QED BY <1>0, <2>1, <2>2 DEF ScanInv
<1>5. CASE ScanTask
  <2>1. Queued("scan_done")' = Queued("scan_done")
    BY <1>5, <1>b DEF ScanTask, CreateScanSemaphore, StartScan, SkipScan, TakeScan, Delay
  <2> QED BY <1>0, <1>5, <2>1 DEF ScanTask, CreateScanSemaphore, StartScan, SkipScan, TakeScan, Delay, ScanInv,
          eventVars, driverVars
<1>6. CASE JoinSucceeds \/ LinkDown \/ GetAddress \/ GetAddress6
  <2>1. PICK e \in AllEvents \ {"scan_done"} : events' = Append(events, e)
    BY <1>6 DEF JoinSucceeds, LinkDown, GetAddress, GetAddress6, Post, AllEvents, StationHandlers
  <2>2. Queued("scan_done")' = Queued("scan_done")
    BY <1>0, <2>1, ScanPosted
  <2> QED BY <1>0, <1>6, <2>2 DEF JoinSucceeds, LinkDown, GetAddress, GetAddress6, ScanInv, eventVars,
          scanVars
<1>7. CASE ScanEnds
  <2>1. /\ events' = Append(events, "scan_done") /\ scanning /\ scanning' = FALSE
        /\ UNCHANGED <<scanner, scanSem, handler>>
    BY <1>7 DEF ScanEnds, Post, scanVars, eventVars
  <2>2. Queued("scan_done") = {} /\ scanner = "take"
    BY <1>0, <2>1 DEF ScanInv
  <2>3. \A i \in Queued("scan_done")' : i = Len(events) + 1
    <3>1. "scan_done" \in AllEvents
      BY DEF AllEvents
    <3> QED BY <1>0, <2>1, <2>2, <3>1, ScanPosted
  <2> QED BY <1>0, <2>1, <2>2, <2>3 DEF ScanInv
<1>8. CASE mystop
  <2>1. Queued("scan_done")' = Queued("scan_done")
    <3>1. UNCHANGED events \/ events' = Append(events, "disconnected")
      BY <1>8 DEF mystop, Unregister, StopWifi, DeinitWifi, Stopped, Post
    <3>2. "disconnected" \in AllEvents \ {"scan_done"}
      BY DEF AllEvents, StationHandlers
    <3> QED BY <1>0, <1>b, <3>1, <3>2, ScanPosted
  <2> QED BY <1>0, <1>8, <2>1 DEF mystop, Unregister, StopWifi, DeinitWifi, Stopped, ScanInv, eventVars,
          scanVars, driverVars
<1>9. CASE Boot
  <2>1. /\ events' = <<>> /\ scanning' = FALSE /\ handler' = "none" /\ scanSem' = NULL
        /\ scanner' = "none"
    BY <1>9, Zenon DEF Boot
  <2>2. Queued("scan_done")' = {}
    BY <2>1 DEF Queued
  <2> QED BY <2>1, <2>2 DEF ScanInv, NULL
<1>10. CASE StartFails
  <2>1. /\ Queued("scan_done")' = Queued("scan_done")
        /\ UNCHANGED <<scanner, scanSem, scanning, handler>>
    BY <1>10, <1>b, StartStops DEF scanVars, driverVars, eventVars
  <2> QED BY <1>0, <2>1 DEF ScanInv
<1> QED BY <1>1, <1>2, <1>3, <1>4, <1>5, <1>6, <1>7, <1>8, <1>9, <1>10 DEF Next, EventTask, Driver

Quiet == \A i \in 1 .. Len(events) : events[i] \notin StatusEvents

\* What becomes of the last word on the link.
LEMMA WordTaken ==
  ASSUME events \in Seq(AllEvents), events # <<>>, events' = Tail(events)
  PROVE  /\ \A i \in 1 .. Len(events') : i + 1 \in 1 .. Len(events) /\ events'[i] = events[i + 1]
         /\ \A i \in 1 .. Len(events') : LastWord(i)' => LastWord(i + 1)
         /\ Quiet' => IF Head(events) \in StatusEvents THEN LastWord(1) ELSE Quiet
<1>1. /\ Len(events) \in Nat /\ Len(events') = Len(events) - 1 /\ Head(events) = events[1]
      /\ \A i \in 1 .. Len(events') : i + 1 \in 1 .. Len(events) /\ events'[i] = events[i + 1]
      /\ 1 \in 1 .. Len(events)
  BY QueueFacts
<1>2. \A i \in 2 .. Len(events) : i - 1 \in 1 .. Len(events') /\ events[i] = events'[i - 1]
  <2> TAKE i \in 2 .. Len(events)
  <2>1. i - 1 \in 1 .. Len(events') /\ (i - 1) + 1 = i
    BY <1>1
  <2> QED BY <1>1, <2>1
<1>3. ASSUME NEW i \in 1 .. Len(events'), LastWord(i)'
      PROVE  LastWord(i + 1)
  <2>1. /\ i + 1 \in 1 .. Len(events) /\ events[i + 1] \in StatusEvents
        /\ \A j \in i + 1 .. Len(events') : events'[j] \notin StatusEvents
    BY <1>1, <1>3 DEF LastWord, StatusEvents
  <2>2. ASSUME NEW j \in (i + 1) + 1 .. Len(events)
        PROVE  events[j] \notin StatusEvents
    <3>1. j \in 2 .. Len(events) /\ j - 1 \in i + 1 .. Len(events')
      BY <1>1
    <3> QED BY <1>2, <2>1, <3>1
  <2> QED BY <2>1, <2>2 DEF LastWord
<1>4. ASSUME Quiet'
      PROVE  IF Head(events) \in StatusEvents THEN LastWord(1) ELSE Quiet
  <2>1. \A i \in 2 .. Len(events) : events[i] \notin StatusEvents
    BY <1>2, <1>4 DEF Quiet, StatusEvents
  <2>2. \A i \in 1 .. Len(events) : i = 1 \/ i \in 2 .. Len(events)
    BY <1>1
  <2> QED BY <1>1, <2>1, <2>2 DEF LastWord, Quiet
<1> QED BY <1>1, <1>3, <1>4

LEMMA WordPosted ==
  ASSUME events \in Seq(AllEvents), NEW e \in AllEvents, events' = Append(events, e)
  PROVE  IF e \in StatusEvents
           THEN /\ ~ Quiet'
                /\ \A i \in 1 .. Len(events') : LastWord(i)' => events'[i] = e
           ELSE /\ Quiet' => Quiet
                /\ \A i \in 1 .. Len(events') :
                     LastWord(i)' => LastWord(i) /\ events'[i] = events[i]
<1>1. /\ Len(events) \in Nat /\ Len(events') = Len(events) + 1 /\ events'[Len(events')] = e
      /\ \A i \in 1 .. Len(events) : i \in 1 .. Len(events') /\ events'[i] = events[i]
      /\ \A i \in 1 .. Len(events') : i \in 1 .. Len(events) \/ i = Len(events')
      /\ Len(events') \in 1 .. Len(events')
  BY QueueFacts
<1>2. ASSUME e \in StatusEvents
      PROVE  /\ ~ Quiet'
             /\ \A i \in 1 .. Len(events') : LastWord(i)' => events'[i] = e
  <2>1. \A i \in 1 .. Len(events) : Len(events') \in i + 1 .. Len(events')
    BY <1>1
  <2> QED BY <1>1, <1>2, <2>1 DEF Quiet, LastWord, StatusEvents
<1>3. ASSUME e \notin StatusEvents
      PROVE  /\ Quiet' => Quiet
             /\ \A i \in 1 .. Len(events') : LastWord(i)' => LastWord(i) /\ events'[i] = events[i]
  <2>1. \A i \in 1 .. Len(events) : \A j \in i + 1 .. Len(events) :
          j \in 1 .. Len(events) /\ j \in i + 1 .. Len(events')
    BY <1>1
  <2> QED BY <1>1, <1>3, <2>1 DEF Quiet, LastWord, StatusEvents
<1> QED BY <1>2, <1>3

\* The parts of a step that StatusInv depends on.
LEMMA StatusKept ==
  ASSUME StatusInv, life' = "up" => life = "up", UNCHANGED <<ip_addr_txt, nDisconnects>>,
         link = "online" <=> link' = "online",
         Quiet' => Quiet,
         \A i \in 1 .. Len(events') :
           LastWord(i)' => \E k \in 1 .. Len(events) : LastWord(k) /\ events'[i] = events[k]
  PROVE  StatusInv'
BY DEF StatusInv, Quiet

LEMMA StatusStep ==
  ASSUME IInv, Next
  PROVE  StatusInv'
<1>0. /\ WifiOK /\ BeginInv /\ OffInv /\ OnInv /\ StopInv /\ StatusInv /\ events \in Seq(AllEvents)
      /\ useWIFI \in BOOLEAN
  BY DEF IInv, WifiOK
<1> SUFFICES ASSUME life' = "up" PROVE StatusInv'
  BY DEF StatusInv
<1>a. UNCHANGED events =>
        /\ Quiet' => Quiet
        /\ \A i \in 1 .. Len(events') :
             LastWord(i)' => \E k \in 1 .. Len(events) : LastWord(k) /\ events'[i] = events[k]
  BY DEF Quiet, LastWord, StatusEvents
<1>b. Head(events) \notin StatusEvents /\ events # <<>> /\ events' = Tail(events) =>
        /\ Quiet' => Quiet
        /\ \A i \in 1 .. Len(events') :
             LastWord(i)' => \E k \in 1 .. Len(events) : LastWord(k) /\ events'[i] = events[k]
  BY <1>0, WordTaken
<1>1. CASE StartStation \/ StartAccessPoint \/ Join
  <2>1. main \in Beginning
    BY <1>1 DEF StartStation, StartAccessPoint, Join, Beginning
  <2>2. events = <<>> /\ link # "online"
    BY <1>0, <2>1 DEF BeginInv
  <2>3. events' = <<>> /\ link' # "online" /\ life = "up"
    BY <1>1, <2>2 DEF StartStation, StartAccessPoint, Join, driverVars, lifeVars
  <2>4. ip_addr_txt # "address"
    BY <1>0, <2>2, <2>3 DEF StatusInv
  <2>5. ip_addr_txt' # "address"
    BY <1>1, <2>4 DEF StartStation, StartAccessPoint, Join, eventVars
  <2>6. \A i \in 1 .. Len(events') : FALSE
    BY <2>3
  <2> QED BY <2>3, <2>5, <2>6 DEF StatusInv
<1>2. CASE CreateSemaphore \/ WaitForAddress \/ CreateTasks
  <2>1. UNCHANGED <<ip_addr_txt, nDisconnects, events, link, life>>
    BY <1>2 DEF CreateSemaphore, WaitForAddress, CreateTasks, eventVars, driverVars, lifeVars
  <2> QED BY <1>0, <1>a, <2>1, StatusKept
<1>3. CASE IgnoreEvent \/ myon_got_ipv6 \/ myon_wifi_connect \/ ScanDone
  <2>1. /\ events # <<>> /\ events' = Tail(events)
        /\ UNCHANGED <<ip_addr_txt, nDisconnects, link>>
    BY <1>3, ScanIsHandled DEF IgnoreEvent, myon_got_ipv6, myon_wifi_connect, Receive, eventVars, driverVars
  <2>2. life = "up"
    BY <1>3, ScanIsHandled DEF IgnoreEvent, myon_got_ipv6, myon_wifi_connect, GiveAddress, Abort, lifeVars
  <2>3. main # "boot"
    BY <1>0, <2>1 DEF BeginInv, Beginning
  <2>4. Head(events) \notin StatusEvents
    <3>1. CASE IgnoreEvent
      <4>1. Head(events) \notin registered
        BY <3>1 DEF IgnoreEvent
      <4>2. ~ useWIFI => Head(events) = "scan_done"
        BY <1>0, <2>1, QueueFacts DEF OffInv
      <4>3. useWIFI => StationHandlers \subseteq registered
        BY <1>0, <2>2, <2>3 DEF OnInv
      <4> QED BY <4>1, <4>2, <4>3 DEF StationHandlers, StatusEvents
    <3>2. CASE myon_got_ipv6 \/ myon_wifi_connect \/ ScanDone
      BY <3>2, ScanIsHandled DEF myon_got_ipv6, myon_wifi_connect, Receive, StatusEvents
    <3> QED BY <1>3, <3>1, <3>2
  <2> QED BY <1>0, <1>b, <2>1, <2>2, <2>4, StatusKept
<1>4. CASE myon_got_ip \/ myon_wifi_disconnect
  <2>1. /\ events # <<>> /\ events' = Tail(events) /\ link' = link
        /\ Head(events) = IF myon_got_ip THEN "got_ip" ELSE "disconnected"
        /\ ip_addr_txt' = IF myon_got_ip THEN "address" ELSE "0.0.0.0"
        /\ myon_got_ip => nDisconnects' = 0
    BY <1>4 DEF myon_got_ip, myon_wifi_disconnect, Receive, driverVars
  <2>2. life = "up"
    BY <1>4 DEF myon_got_ip, myon_wifi_disconnect, GiveAddress, Abort, lifeVars
  <2>3. Head(events) \in StatusEvents /\ Head(events) = events[1] /\ 1 \in 1 .. Len(events)
    BY <1>0, <2>1, QueueFacts DEF StatusEvents
  <2>4. Quiet' => (events[1] = "got_ip" <=> link = "online")
    BY <1>0, <2>1, <2>2, <2>3, WordTaken DEF StatusInv
  <2>5. Quiet' => (ip_addr_txt' = "address" <=> link' = "online") /\ (link' = "online" => nDisconnects' = 0)
    BY <2>1, <2>3, <2>4
  <2>6. \A i \in 1 .. Len(events') : LastWord(i)' => (events'[i] = "got_ip" <=> link' = "online")
    BY <1>0, <2>1, <2>2, WordTaken DEF StatusInv
  <2> QED BY <2>5, <2>6 DEF StatusInv, Quiet
<1>5. CASE Reconnect
  <2>1. UNCHANGED lifeVars /\ link' = IF link = "down" THEN "joining" ELSE link
    BY <1>0, <1>5, ReconnectIsAnswered
  <2>2. UNCHANGED <<ip_addr_txt, nDisconnects, events, life>> /\ (link = "online" <=> link' = "online")
    BY <1>5, <2>1 DEF Reconnect, lifeVars
  <2> QED BY <1>0, <1>a, <2>2, StatusKept
<1>6. CASE StoreRecord \/ GiveScan \/ ScanTask \/ RecentWifi
  <2>1. UNCHANGED <<ip_addr_txt, nDisconnects, events, link, life>>
    BY <1>6 DEF StoreRecord, GiveScan, ScanTask, CreateScanSemaphore, StartScan, SkipScan, TakeScan, Delay,
       RecentWifi, eventVars, driverVars, lifeVars
  <2> QED BY <1>0, <1>a, <2>1, StatusKept
<1>7. CASE JoinSucceeds \/ GetAddress6 \/ ScanEnds
  <2>1. UNCHANGED <<ip_addr_txt, nDisconnects, life>> /\ (link = "online" <=> link' = "online")
    BY <1>7 DEF JoinSucceeds, GetAddress6, ScanEnds, eventVars, lifeVars
  <2>2. PICK e \in AllEvents : e \notin StatusEvents /\ events' = Append(events, e)
    BY <1>7 DEF JoinSucceeds, GetAddress6, ScanEnds, Post, AllEvents, StationHandlers, StatusEvents
  <2>3. /\ Quiet' => Quiet
        /\ \A i \in 1 .. Len(events') : LastWord(i)' => LastWord(i) /\ events'[i] = events[i]
    BY <1>0, <2>2, WordPosted
  <2>4. \A i \in 1 .. Len(events') : LastWord(i) => i \in 1 .. Len(events)
    BY DEF LastWord
  <2> QED BY <1>0, <2>1, <2>3, <2>4, StatusKept
<1>8. CASE LinkDown \/ GetAddress
  <2>1. PICK e \in StatusEvents : events' = Append(events, e) /\ (e = "got_ip" <=> link' = "online")
    BY <1>8 DEF LinkDown, GetAddress, Post, StatusEvents
  <2>2. e \in AllEvents
    BY DEF StatusEvents, AllEvents, StationHandlers
  <2>3. ~ Quiet' /\ \A i \in 1 .. Len(events') : LastWord(i)' => events'[i] = e
    BY <1>0, <2>1, <2>2, WordPosted
  <2> QED BY <2>1, <2>3 DEF StatusInv, Quiet
<1>9. CASE Restart \/ mystop
  BY <1>9 DEF Restart, mystop, Unregister, StopWifi, DeinitWifi, Stopped
<1>10. CASE Boot
  <2>1. events' = <<>> /\ link' = "stopped" /\ ip_addr_txt' = ""
    BY <1>10, Zenon DEF Boot
  <2>2. \A i \in 1 .. Len(events') : FALSE
    BY <2>1, EmptyQueue, Zenon
  <2> QED BY <2>1, <2>2 DEF StatusInv
<1>11. CASE StartFails
  BY <1>11, StartStops
<1> QED
  BY <1>1, <1>2, <1>3, <1>4, <1>5, <1>6, <1>7, <1>8, <1>9, <1>10, <1>11
  DEF Next, my_connect, EventTask, Driver

LEMMA Starts == Init => IInv
<1> SUFFICES ASSUME Init PROVE IInv
  OBVIOUS
<1>1. /\ useWIFI \in BOOLEAN /\ main = "boot" /\ left = 0 /\ ipSem = NULL
      /\ ip_addr_txt = "" /\ nDisconnects = 0 /\ handler = "none" /\ events = <<>>
  BY Zenon DEF Init
<1>2. /\ scanner = "none" /\ scanSem = NULL /\ link = "stopped" /\ scanning = FALSE /\ life = "up"
  BY Zenon DEF Init
<1>3. events \in Seq(AllEvents) /\ \A i \in 1 .. Len(events) : FALSE
  BY <1>1, EmptyQueue, Zenon
<1>4. WifiOK /\ BeginInv
  BY <1>1, <1>2, <1>3 DEF WifiOK, BeginInv, Beginning
<1>5. OffInv /\ OnInv /\ StopInv
  BY <1>1, <1>2, <1>3 DEF OffInv, OnInv, StopInv
<1>6. ScanInv
  <2>1. Queued("scan_done") = {}
    BY <1>3 DEF Queued
  <2>2. NULL # 1
    BY DEF NULL
  <2>3. scanSem # 1 /\ scanning = FALSE /\ handler # "scan"
    BY <1>1, <1>2, <2>2
  <2> QED BY <2>1, <2>3 DEF ScanInv
<1>7. StatusInv
  BY <1>1, <1>2, <1>3 DEF StatusInv
<1> QED BY <1>4, <1>5, <1>6, <1>7 DEF IInv

LEMMA Stands == IInv /\ [Next]_vars => IInv'
<1> SUFFICES ASSUME IInv, [Next]_vars PROVE IInv'
  OBVIOUS
<1>1. CASE Next
  BY <1>1, TypeStep, BeginStep, OffStep, OnStep, ScanStep, StopStep, StatusStep DEF IInv
<1>2. CASE UNCHANGED vars
  BY <1>2 DEF vars, IInv, WifiOK, BeginInv, OffInv, OnInv, ScanInv, StopInv, StatusInv, Queued, LastWord
<1> QED BY <1>1, <1>2

(* The invariant of the connection: whatever the network does, how often the *)
(* clock restarts and how long the queue of the event task gets              *)
(* (clockConnect.c:289-300, 500-560, 600-910).                               *)
THEOREM InductiveInvariant == Spec => []IInv
BY Starts, Stands, PTL DEF Spec

(* When no event waits, the status page has the station's address, or none,  *)
(* however many joins have failed (clockConnect.c:351-355, 610-614).         *)
THEOREM AddressIsShown == Spec => []ShowsTheAddress
<1>1. IInv => ShowsTheAddress
  <2> SUFFICES ASSUME IInv, life = "up", events = <<>>
               PROVE  ((ip_addr_txt = "address") <=> (link = "online"))
                      /\ (link = "online" => nDisconnects = 0)
    BY DEF ShowsTheAddress
  <2>1. \A i \in 1 .. Len(events) : FALSE
    OBVIOUS
  <2> QED BY <2>1 DEF IInv, StatusInv
<1> QED BY <1>1, InductiveInvariant, PTL

(* No scan is started before the results of the last one are in the table    *)
(* (clockConnect.c:292, 518-521).                                            *)
THEOREM ScansDoNotOverlap == Spec => []ResultsBeforeNextScan
<1>1. IInv => ResultsBeforeNextScan
  BY DEF IInv, ScanInv, Queued, ResultsBeforeNextScan
<1> QED BY <1>1, InductiveInvariant, PTL

(* Once the WiFi is started, the clock stops in two ways only: an address is *)
(* there before anybody can wait for it, or a scan is handled that ended     *)
(* before mystop has stopped the driver.  No reconnect of a handler meets a  *)
(* driver that mystop has taken away (clockConnect.c:617-621, 898-909; 353   *)
(* against 99, 167 against 904).                                             *)
THEOREM TwoWaysToAbort == Spec => OnlyTwoWaysToAbort
<1> DEFINE Known == /\ handler = "none"
                    /\ \/ main = "joining" /\ Head(events) \in {"got_ip", "got_ip6"}
                       \/ life = "stopping" /\ Head(events) = "scan_done"
<1>1. IInv /\ [Next]_vars =>
        [life' = "aborted" /\ life # "aborted" /\ main \notin Beginning => Known]_vars
  <2> SUFFICES ASSUME IInv, Next, life' = "aborted", life # "aborted", main \notin Beginning
               PROVE  Known
    OBVIOUS
  <2>1. BeginInv /\ WifiOK /\ StopInv
    BY DEF IInv
  <2>2. CASE myon_got_ip \/ myon_got_ipv6
    <3>1. ipSem = NULL /\ Head(events) \in {"got_ip", "got_ip6"} /\ handler = "none"
      BY <2>2 DEF myon_got_ip, myon_got_ipv6, GiveAddress, Receive, lifeVars
    <3> QED BY <2>1, <3>1 DEF BeginInv
  <2>3. CASE ScanDone
    <3>1. /\ link \in {"stopped", "none"} /\ Running /\ Head(events) = "scan_done"
          /\ handler = "none"
      BY <2>3, ScanIsHandled DEF lifeVars, Receive
    <3>2. life = "stopping"
      BY <2>1, <3>1 DEF StopInv, Running, Beginning
    <3> QED BY <3>1, <3>2
  <2>4. CASE Reconnect
    BY <2>1, <2>4, ReconnectIsAnswered DEF lifeVars
  <2>5. CASE StartFails
    BY <2>5, StartStops
  <2>6. CASE my_connect \/ ScanTask \/ Driver \/ LinkDown \/ RecentWifi
    BY <2>6 DEF my_connect, StartStation, StartAccessPoint, Join, CreateSemaphore, WaitForAddress,
       CreateTasks, ScanTask, CreateScanSemaphore, StartScan, SkipScan, TakeScan, Delay, Driver,
       JoinSucceeds, LinkDown, GetAddress, GetAddress6, ScanEnds, RecentWifi, lifeVars
  <2>7. CASE IgnoreEvent \/ myon_wifi_connect \/ myon_wifi_disconnect \/ StoreRecord \/ GiveScan
    BY <2>7 DEF IgnoreEvent, myon_wifi_connect, myon_wifi_disconnect, StoreRecord, GiveScan, lifeVars
  <2>8. CASE Restart \/ mystop \/ Boot
    BY <2>8 DEF Restart, mystop, Unregister, StopWifi, DeinitWifi, Stopped, Boot
  <2> QED BY <2>2, <2>3, <2>4, <2>5, <2>6, <2>7, <2>8 DEF Next, EventTask
<1> QED BY <1>1, InductiveInvariant, PTL DEF Spec, OnlyTwoWaysToAbort, Beginning

-----------------------------------------------------------------------------
(* The clock uses the table as the first part allows, with its scan task,    *)
(* its restarts and its page: so all that is said of the table is true of    *)
(* the table in the clock (clockConnect.c:289-300, clockServer.c:969-1088).  *)
THEOREM TableInTheClock == Spec => TableSpec
<1>1. Init => TableInit
  BY Zenon DEF Init
<1>2. [Next]_vars => [TableNext]_tableVars
  <2> SUFFICES ASSUME [Next]_vars PROVE TableNext \/ UNCHANGED tableVars
    OBVIOUS
  <2>1. CASE my_connect
    BY <2>1 DEF my_connect, StartStation, StartAccessPoint, Join, CreateSemaphore, WaitForAddress, CreateTasks
  <2>2. CASE EventTask
    BY <2>2 DEF EventTask, IgnoreEvent, myon_got_ip, myon_got_ipv6, myon_wifi_connect, myon_wifi_disconnect,
       Reconnect, ScanDone, StoreRecord, GiveScan, TableNext
  <2>3. CASE ScanTask
    BY <2>3 DEF ScanTask, CreateScanSemaphore, StartScan, SkipScan, TakeScan, Delay
  <2>4. CASE Driver \/ LinkDown
    BY <2>4 DEF Driver, JoinSucceeds, LinkDown, GetAddress, GetAddress6, ScanEnds
  <2>5. CASE Restart \/ mystop
    BY <2>5 DEF Restart, mystop, Unregister, StopWifi, DeinitWifi, Stopped
  <2>6. CASE Boot \/ RecentWifi
    BY <2>6 DEF Boot, RecentWifi, TableNext
  <2>7. CASE StartFails
    BY <2>7, StartStops
  <2>8. CASE UNCHANGED vars
    BY <2>8 DEF vars
  <2> QED BY <2>1, <2>2, <2>3, <2>4, <2>5, <2>6, <2>7, <2>8 DEF Next
<1> QED BY <1>1, <1>2, PTL DEF Spec, TableSpec

(* In the clock, restarts included, the table has one record of each access  *)
(* point, the oldest goes first, and the page misses none that stays         *)
(* (clockConnect.c:253-285, clockServer.c:944-1088).                         *)
THEOREM TableOfTheClock ==
  Spec => []NoDuplicates /\ []QuietRowsAreShown /\ OldestGoesFirst
BY TableInTheClock, OneRecordEach, QuietRows, OldestIsDropped, PTL
=============================================================================
