-------------------------------- MODULE TzMap --------------------------------
(***************************************************************************)
(* The time zone map in its flash partition: a header, tables, the rows    *)
(* and last the build date, as src/timezone/geojsonToBitmap10.jsl writes   *)
(* them.  The clock maps the partition into memory at the start and reads  *)
(* it there; an upload erases it and writes it from the front.  A map      *)
(* stands for one of its rows, the time zone's code at every column.       *)
(***************************************************************************)
EXTENDS Integers, Sequences, FiniteSetsExt

CONSTANTS
  Maps,      \* maps, whole
  OtherSize, \* those of another number of rows than 16000
  Erased,    \* a part of the partition that reads FF
  MapParts,  \* the parts an upload writes one by one; the last has the build date
  Byte       \* 256

ASSUME MapsAssumption == MapParts \in Nat \ {0} /\ Erased \notin Maps /\ OtherSize \subseteq Maps

\* geojsonToBitmap10.jsl throws at a code over 426 or a length over 30000, and a short
\* is two bytes.
ASSUME RowsAssumption ==
  /\ Byte \in Nat \ {0, 1}
  /\ \A map \in Maps : /\ map \in Seq(0 .. (Byte * Byte) \div 2 - 1)
                       /\ Len(map) < (Byte * Byte) \div 2

VARIABLES
  tzmap,             \* the partition
  timezoneBuildDate  \* "bad", or "build date": that of the map in use

tzVars == <<tzmap, timezoneBuildDate>>

TzInit ==
  /\ \E map \in Maps : tzmap = [p \in 1 .. MapParts |-> map]
  /\ timezoneBuildDate = "bad"

\* A mistake the runs must catch: the build date is not looked at.
timezoneInit_NoDate ==
  /\ timezoneBuildDate' = IF tzmap[1] \notin OtherSize \cup {Erased} THEN "build date" ELSE "bad"
  /\ UNCHANGED tzmap

\* h->n of an erased header is -1, a map of another size is only looked at, and
\* "uninitialized is FFFFFFFFFFFF".
timezoneInit ==
  /\ timezoneBuildDate' =
       IF tzmap[1] \notin OtherSize \cup {Erased} /\ tzmap[MapParts] # Erased
         THEN "build date" ELSE "bad"
  /\ UNCHANGED tzmap

ErasePart(p) == tzmap' = [tzmap EXCEPT ![p] = Erased]
WritePart(p, map) == tzmap' = [tzmap EXCEPT ![p] = map]
-----------------------------------------------------------------------------
\* The rows are compressed: runs of one code, each a code and a length, each number in
\* one byte or, negated, in two.

\* The columns where a run of the row begins.
RunStarts(row) == {i \in 1 .. Len(row) : i = 1 \/ row[i] # row[i - 1]}
RunLength(row, i) == Min({j \in RunStarts(row) \cup {Len(row) + 1} : j > i}) - i

WriteNumber(n) ==
  IF n < Byte \div 2
    THEN <<n>>
    ELSE <<(Byte * Byte - n) \div Byte, (Byte * Byte - n) % Byte>>

WriteRow(row) ==
  LET from[i \in 1 .. Len(row) + 1] ==
        IF i > Len(row) THEN <<>>
        ELSE WriteNumber(row[i]) \o WriteNumber(RunLength(row, i)) \o from[i + RunLength(row, i)]
  IN from[1]

Written == [map \in Maps |-> WriteRow(map)]

\* A number in a short, and how many bytes it takes.
Short(n) ==
  LET half == (Byte * Byte) \div 2 IN ((n + half) % (Byte * Byte)) - half
Bytes(r, at) == IF r[at] > Byte \div 2 - 1 THEN 2 ELSE 1
ReadNumber(r, at) == IF Bytes(r, at) = 1 THEN r[at] ELSE Short(- (r[at] * Byte + r[at + 1]))

\* A code and a length are read at the byte, and the column moves on.
AfterRun(r, w) ==
  LET lengthAt == w.at + Bytes(r, w.at)
  IN [at |-> lengthAt + Bytes(r, lengthAt), c |-> w.c + ReadNumber(r, lengthAt)]

\* Where the loop is after n runs.
Walk(r) ==
  LET after[n \in 0 .. Len(r)] ==
        IF n = 0 THEN [at |-> 1, c |-> 0] ELSE AfterRun(r, after[n - 1])
  IN after

\* A mistake the runs must catch: the walk goes one run too far where a run ends.
timezoneGet_PastEnd(r, col) ==
  LET last == CHOOSE n \in 1 .. Len(r) :
                /\ Walk(r)[n].c > col \/ Walk(r)[n].at > Len(r)
                /\ \A m \in 1 .. n - 1 : Walk(r)[m].c <= col
  IN ReadNumber(r, Walk(r)[last - 1].at)

\* "until past the desired column".
timezoneGet(r, col) ==
  LET last == CHOOSE n \in 1 .. Len(r) :
                Walk(r)[n].c >= col /\ \A m \in 1 .. n - 1 : Walk(r)[m].c < col
  IN ReadNumber(r, Walk(r)[last - 1].at)
-----------------------------------------------------------------------------
(* A map that was being written when the power failed is never used: the    *)
(* one in use is whole, all of one upload, and of the size the clock knows  *)
(* (clockTZ.c:42-76, clockServer.c:2335).                                   *)
MapInUseIsWhole ==
  timezoneBuildDate # "bad" =>
    \E map \in Maps \ OtherSize : tzmap = [p \in 1 .. MapParts |-> map]

(* The lookup finds in the map in use what its maker put at every column,   *)
(* the first and the last of a run and of the row, and numbers of two       *)
(* bytes, among them (clockTZ.c:99-114, geojsonToBitmap10.jsl:413-438).     *)
LookupFindsTheZone ==
  timezoneBuildDate # "bad" =>
    \A p \in 1 .. MapParts :
      \A col \in 1 .. Len(tzmap[p]) : timezoneGet(Written[tzmap[p]], col) = tzmap[p][col]
=============================================================================
