----------------------------- MODULE NmeaParser ------------------------------
(***************************************************************************)
(* gpsparse: the state machine that takes the GPS receiver's characters    *)
(* one at a time, finds the sentences it wants and cuts them into fields.  *)
(* The line may lose characters or start anywhere, so any character may    *)
(* follow any other.                                                       *)
(***************************************************************************)
EXTENDS Integers, Sequences, FiniteSets

CONSTANTS
  Kinds,       \* the sentences wanted: GPRMC, GPGSV, GPTXT
  Name,        \* the text of the name field, by kind
  NameLength,  \* sizeof name - 1
  Lengths,     \* by kind, the room in each field after the name
  Plain,       \* the characters other than $ , *
  PosField,    \* the field of GPRMC that holds the position
  RollSize,    \* sizeof rollingbuffer
  MaxText      \* bound on the characters from a $ on

Dim(k) == Len(Lengths[k])      \* DIM(words) - 1
Separators == {",", "*"}
Chars == Plain \cup Separators \cup {"$"}

ASSUME NameAssumption == \A k, l \in Kinds : Name[k] = Name[l] => k = l
ASSUME RoomAssumption ==
  /\ "GPRMC" \in Kinds /\ "none" \notin Kinds /\ NameLength \in Nat
  /\ Lengths \in [Kinds -> Seq(Nat)]
  /\ \A k \in Kinds : Len(Name[k]) <= NameLength /\ Dim(k) >= 1
ASSUME CharsAssumption == Plain \cap {"$", ",", "*"} = {}
ASSUME RollAssumption == RollSize \in Nat /\ RollSize >= 8

VARIABLES
  state,       \* -1 hunting for $, 0 in the name, else the field's number
  kind,        \* words, lengths and dimwords, by the name of their sentence
  name, words, \* the text of the name and of the fields after it
  iroll, rolled, \* rollingbuffer's fill, the places written by the last step
  tz,          \* the rule TZ was last set from
  done,        \* the kind of sentence the last character completed
  text,        \* history: the characters from the last $ on
  position     \* history: a sentence with a position was completed

vars == <<state, kind, name, words, iroll, rolled, tz, done, text, position>>

\* The static arrays start out empty, words as wordsGPRMC.
Init ==
  /\ state = -1 /\ kind = "GPRMC"
  /\ name = <<>> /\ words = [i \in 1 .. Dim("GPRMC") |-> <<>>]
  /\ iroll = 0 /\ rolled = {}
  /\ tz = "rule" /\ done = "none"
  /\ text = <<>> /\ position = FALSE

\* if(iroll<sizeof(rollingbuffer)-1) rollingbuffer[iroll++] = *c;
Roll(c) ==
  /\ Len(text) < MaxText
  /\ text' = Append(text, c)
  /\ IF iroll < RollSize - 1 THEN rolled' = {iroll} /\ iroll' = iroll + 1
                             ELSE rolled' = {} /\ UNCHANGED iroll

\* A mistake the runs must catch: $ is looked for only while hunting.
Dollar_OnlyWhenHunting ==
  /\ LET filled == IF iroll < RollSize - 1 THEN iroll + 1 ELSE iroll
         last   == IF filled > 5 THEN filled - 2 ELSE filled
     IN rolled' = last - 1 .. last + 2
  /\ iroll' = 0
  /\ IF state = -1 THEN state' = 0 /\ name' = <<>> ELSE UNCHANGED <<state, name>>
  /\ done' = "none" /\ text' = <<"$">>
  /\ UNCHANGED <<kind, words, tz, position>>

\* '$': the rolling buffer is ended with zeros, copied, and started again.
Dollar ==
  /\ LET filled == IF iroll < RollSize - 1 THEN iroll + 1 ELSE iroll
         last   == IF filled > 5 THEN filled - 2 ELSE filled
     IN rolled' = last - 1 .. last + 2
  /\ iroll' = 0
  /\ state' = 0 /\ name' = <<>>
  /\ done' = "none" /\ text' = <<"$">>
  /\ UNCHANGED <<kind, words, tz, position>>

Hunt(c) ==
  /\ state = -1 /\ c # "$"
  /\ Roll(c)
  /\ done' = "none"
  /\ UNCHANGED <<state, kind, name, words, tz, position>>

\* A mistake the runs must catch: the fields keep the previous sentence.
NameEnd_KeepsFields(c) ==
  /\ state = 0 /\ c \in Separators
  /\ Roll(c)
  /\ \/ \E k \in Kinds :
          /\ name = Name[k]
          /\ kind' = k /\ state' = 1
          /\ words' = [i \in 1 .. Dim(k) |-> IF i \in DOMAIN words THEN words[i] ELSE <<>>]
     \/ /\ \A k \in Kinds : name # Name[k]
        /\ state' = -1 /\ UNCHANGED <<kind, words>>
  /\ done' = "none"
  /\ UNCHANGED <<name, tz, position>>

\* End of the name field: choose the fields and empty them, or give up.
NameEnd(c) ==
  /\ state = 0 /\ c \in Separators
  /\ Roll(c)
  /\ \/ \E k \in Kinds :
          /\ name = Name[k]
          /\ kind' = k /\ state' = 1
          /\ words' = [i \in 1 .. Dim(k) |-> <<>>]
     \/ /\ \A k \in Kinds : name # Name[k]
        /\ state' = -1 /\ UNCHANGED <<kind, words>>
  /\ done' = "none"
  /\ UNCHANGED <<name, tz, position>>

\* GpsToDecimalDegrees makes an empty field 0 degrees.
Located == words[PosField] # <<>>

\* The last field wanted has ended: use the sentence and go hunting.
Complete(c) ==
  /\ state > 0
  /\ c = "*" \/ (c = "," /\ state = Dim(kind))
  /\ Roll(c)
  /\ state' = -1 /\ done' = kind
  /\ IF kind = "GPRMC"
       THEN tz' = (IF Located THEN "here" ELSE "0,0") /\ position' = (position \/ Located)
       ELSE UNCHANGED <<tz, position>>
  /\ UNCHANGED <<kind, name, words>>

NextField(c) ==
  /\ state > 0 /\ c = "," /\ state < Dim(kind)
  /\ Roll(c)
  /\ state' = state + 1
  /\ words' = [words EXCEPT ![state + 1] = <<>>]
  /\ done' = "none"
  /\ UNCHANGED <<kind, name, tz, position>>

\* A mistake the runs must catch: the last character has no room for its nul.
Room_OffByOne ==
  IF state = 0 THEN Len(name) <= NameLength ELSE Len(words[state]) <= Lengths[kind][state]

\* xlen < lengths[state]
Room ==
  IF state = 0 THEN Len(name) < NameLength ELSE Len(words[state]) < Lengths[kind][state]

AddChar(c) ==
  /\ state >= 0 /\ c \in Plain /\ Room
  /\ Roll(c)
  /\ IF state = 0
       THEN name' = Append(name, c) /\ UNCHANGED words
       ELSE words' = [words EXCEPT ![state] = Append(@, c)] /\ UNCHANGED name
  /\ done' = "none"
  /\ UNCHANGED <<state, kind, tz, position>>

\* "something gone wrong, wont fit, return to hunting"
TooLong(c) ==
  /\ state >= 0 /\ c \in Plain /\ ~Room
  /\ Roll(c)
  /\ state' = -1 /\ done' = "none"
  /\ UNCHANGED <<kind, name, words, tz, position>>

gpsparse(c) ==
  \/ c = "$" /\ Dollar
  \/ Hunt(c) \/ NameEnd(c) \/ Complete(c) \/ NextField(c) \/ AddChar(c) \/ TooLong(c)

Next == \E c \in Chars : gpsparse(c)

Spec == Init /\ [][Next]_vars
-----------------------------------------------------------------------------
TypeOK ==
  /\ kind \in Kinds /\ state \in -1 .. Dim(kind)
  /\ name \in Seq(Plain) /\ Len(name) <= NameLength
  /\ words \in [1 .. Dim(kind) -> Seq(Plain)]
  /\ \A i \in 1 .. Dim(kind) : Len(words[i]) <= Lengths[kind][i]
  /\ iroll \in 0 .. RollSize - 1 /\ rolled \subseteq 0 .. RollSize - 1
  /\ tz \in {"rule", "here", "0,0"} /\ done \in Kinds \cup {"none"}
  /\ text \in Seq(Chars) /\ position \in BOOLEAN

(* The sentences, described from their text: a name, then fields that fit,  *)
(* ended by commas, to the last field wanted or to a star.                  *)
Ends(t) == {i \in 1 .. Len(t) : t[i] \in Separators}
Count(t) == Cardinality(Ends(t))
Nth(t, n) == CHOOSE i \in Ends(t) : Cardinality({j \in Ends(t) : j <= i}) = n
Field(t, n) == SubSeq(t, IF n = 1 THEN 2 ELSE Nth(t, n - 1) + 1, Nth(t, n) - 1)

Sentence(k, t) ==
  LET n == Count(t) - 1
  IN /\ n \in 1 .. Dim(k) /\ Len(t) \in Ends(t) /\ t[1] = "$"
     /\ Field(t, 1) = Name[k]
     /\ \A i \in 1 .. n : Len(Field(t, i + 1)) <= Lengths[k][i]
     /\ \A i \in 2 .. n : t[Nth(t, i)] = ","
     /\ t[Len(t)] = "*" \/ n = Dim(k)

(* Whatever was received before its $, a sentence that is wanted and intact *)
(* is recognised at its last character, and nothing else ever is            *)
(* (clockGps.c:145-397).                                                    *)
RecognisesSentences == \A k \in Kinds : done = k <=> Sentence(k, text)

(* The fields of a recognised sentence are its own, in full, and those it   *)
(* does not have are empty (clockGps.c:279-283, 380-389).                   *)
FieldsAreItsOwn ==
  done # "none" =>
    \A i \in 1 .. Dim(done) :
      words[i] = IF i < Count(text) THEN Field(text, i + 1) ELSE <<>>

(* "This value is used before the GPS gets a position" (the tooltip of the  *)
(* time zone rule, clockServer.c:172): TZ is not set from anything else.    *)
RuleUntilPosition == ~position => tz = "rule"
=============================================================================
