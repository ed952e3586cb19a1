------------------------------- MODULE GpsProof -------------------------------
(* What gpsparse does with the receiver's characters, for every length of    *)
(* the fields, every set of characters and every loss of them; and with the  *)
(* satellites in view, for every number of rows, of sentences and of cycles. *)
EXTENDS NmeaParser, SatTable, FiniteSetTheorems, SequenceTheorems, TLAPS

(* The room in every field is a number.                             *)
LEMMA LengthsAreNumbers ==
  ASSUME NEW k \in Kinds
  PROVE  /\ Dim(k) \in Nat /\ Dim(k) >= 1
         /\ \A i \in 1 .. Dim(k) : Lengths[k][i] \in Nat
BY RoomAssumption DEF Dim

LEMMA EmptyFields ==
  ASSUME NEW k \in Kinds
  PROVE  /\ [i \in 1 .. Dim(k) |-> <<>>] \in [1 .. Dim(k) -> Seq(Plain)]
         /\ \A i \in 1 .. Dim(k) : Len([j \in 1 .. Dim(k) |-> <<>>][i]) <= Lengths[k][i]
BY LengthsAreNumbers

LEMMA InitTypeOK == Init => TypeOK
<1> SUFFICES ASSUME Init PROVE TypeOK
  OBVIOUS
<1>1. kind \in Kinds /\ kind = "GPRMC"
  BY RoomAssumption DEF Init
<1>2. /\ words \in [1 .. Dim(kind) -> Seq(Plain)]
      /\ \A i \in 1 .. Dim(kind) : Len(words[i]) <= Lengths[kind][i]
  BY <1>1, EmptyFields DEF Init
<1>3. state \in -1 .. Dim(kind)
  BY <1>1, LengthsAreNumbers DEF Init
<1>4. name \in Seq(Plain) /\ Len(name) <= NameLength
  BY RoomAssumption DEF Init
<1>5. iroll \in 0 .. RollSize - 1 /\ rolled \subseteq 0 .. RollSize - 1
  BY RollAssumption DEF Init
<1>6. text \in Seq(Chars)
  BY DEF Init
<1>7. position = FALSE
  BY DEF Init
<1> QED
  BY <1>1, <1>2, <1>3, <1>4, <1>5, <1>6, <1>7 DEF Init, TypeOK

(* The rolling buffer leaves room for the zeros that end it.                *)
LEMMA RollStaysInside ==
  ASSUME TypeOK, NEW c \in Chars, Roll(c)
  PROVE  /\ iroll' \in 0 .. RollSize - 1 /\ rolled' \subseteq 0 .. RollSize - 1
         /\ text' \in Seq(Chars)
<1>1. iroll \in 0 .. RollSize - 1 /\ text \in Seq(Chars) /\ RollSize \in Nat
  BY RollAssumption DEF TypeOK
<1>2. CASE iroll < RollSize - 1
  <2>1. rolled' = {iroll} /\ iroll' = iroll + 1
    BY <1>2 DEF Roll
  <2>2. iroll' \in 0 .. RollSize - 1 /\ rolled' \subseteq 0 .. RollSize - 1
    BY <1>1, <1>2, <2>1
  <2> QED
    BY <1>1, <2>2 DEF Roll
<1>3. CASE ~(iroll < RollSize - 1)
  <2>1. rolled' = {} /\ iroll' = iroll
    BY <1>3 DEF Roll
  <2> QED
    BY <1>1, <2>1 DEF Roll
<1> QED
  BY <1>2, <1>3

LEMMA DollarStaysInside ==
  ASSUME TypeOK, Dollar
  PROVE  iroll' \in 0 .. RollSize - 1 /\ rolled' \subseteq 0 .. RollSize - 1
<1> DEFINE filled == IF iroll < RollSize - 1 THEN iroll + 1 ELSE iroll
           last   == IF filled > 5 THEN filled - 2 ELSE filled
<1>1. iroll \in 0 .. RollSize - 1 /\ RollSize \in Nat /\ RollSize >= 8
  BY RollAssumption DEF TypeOK
<1>2. iroll' = 0 /\ rolled' = last - 1 .. last + 2
  BY DEF Dollar
<1>3. filled \in 1 .. RollSize - 1
  BY <1>1
<1>4. last \in Int /\ last >= 1 /\ last + 2 <= RollSize - 1
  BY <1>1, <1>3
<1> HIDE DEF last
<1> QED
  BY <1>1, <1>2, <1>4

LEMMA StepTypeOK ==
  ASSUME TypeOK, NEW c \in Chars, gpsparse(c)
  PROVE  TypeOK'
<1>1. kind \in Kinds /\ Dim(kind) \in Nat /\ Dim(kind) >= 1
  BY LengthsAreNumbers DEF TypeOK
<1>2. CASE Dollar
  <2>1. iroll' \in 0 .. RollSize - 1 /\ rolled' \subseteq 0 .. RollSize - 1
    BY <1>2, DollarStaysInside
  <2>2. text' \in Seq(Chars)
    BY <1>2 DEF Dollar, Chars
  <2>3. state' \in -1 .. Dim(kind) /\ name' \in Seq(Plain) /\ Len(name') <= NameLength
    BY <1>1, <1>2, RoomAssumption DEF Dollar
  <2>4. UNCHANGED <<kind, words, tz, position>> /\ done' = "none"
    BY <1>2 DEF Dollar
  <2> QED
    BY <2>1, <2>2, <2>3, <2>4 DEF TypeOK
<1>3. CASE Hunt(c)
  <2>1. Roll(c) /\ UNCHANGED <<state, kind, name, words, tz, position>> /\ done' = "none"
    BY <1>3 DEF Hunt
  <2> QED
    BY <2>1, RollStaysInside DEF TypeOK
<1>4. CASE NameEnd(c)
  <2>1. Roll(c) /\ UNCHANGED <<name, tz, position>> /\ done' = "none"
    BY <1>4 DEF NameEnd
  <2>2. CASE state' = -1 /\ UNCHANGED <<kind, words>>
    <3>1. state' \in -1 .. Dim(kind)
      BY <1>1, <2>2
    <3> QED
      BY <2>1, <2>2, <3>1, RollStaysInside DEF TypeOK
  <2>3. CASE \E k \in Kinds : kind' = k /\ state' = 1 /\ words' = [i \in 1 .. Dim(k) |-> <<>>]
    <3>1. PICK k \in Kinds : kind' = k /\ state' = 1 /\ words' = [i \in 1 .. Dim(k) |-> <<>>]
      BY <2>3
    <3>2. /\ words' \in [1 .. Dim(k) -> Seq(Plain)]
          /\ \A i \in 1 .. Dim(k) : Len(words'[i]) <= Lengths[k][i]
      BY <3>1, EmptyFields
    <3>3. state' \in -1 .. Dim(k)
      BY <3>1, LengthsAreNumbers
    <3> QED
      BY <2>1, <3>1, <3>2, <3>3, RollStaysInside DEF TypeOK
  <2> QED
    BY <1>4, <2>2, <2>3 DEF NameEnd
<1>5. CASE Complete(c)
  <2>1. Roll(c) /\ state' = -1 /\ done' = kind /\ UNCHANGED <<kind, name, words>>
    BY <1>5 DEF Complete
  <2>2. state' \in -1 .. Dim(kind)
    BY <1>1, <2>1
  <2>3. tz' \in {"rule", "here", "0,0"} /\ position' \in BOOLEAN
    BY <1>5 DEF Complete, TypeOK, Located
  <2> QED
    BY <2>1, <2>2, <2>3, RollStaysInside DEF TypeOK
<1>6. CASE NextField(c)
  <2>1. /\ Roll(c) /\ UNCHANGED <<kind, name, tz, position>> /\ done' = "none"
        /\ state' = state + 1 /\ state' \in 1 .. Dim(kind)
        /\ words' = [words EXCEPT ![state'] = <<>>]
    <3>1. state \in -1 .. Dim(kind)
      BY DEF TypeOK
    <3>2. state > 0 /\ state < Dim(kind) /\ state' = state + 1
      BY <1>6 DEF NextField
    <3>3. state' \in 1 .. Dim(kind)
      BY <1>1, <3>1, <3>2
    <3> QED
      BY <1>6, <3>2, <3>3 DEF NextField
  <2>2. /\ words' \in [1 .. Dim(kind) -> Seq(Plain)]
        /\ \A i \in 1 .. Dim(kind) : Len(words'[i]) <= Lengths[kind][i]
    <3>1. /\ words \in [1 .. Dim(kind) -> Seq(Plain)]
          /\ \A i \in 1 .. Dim(kind) : Len(words[i]) <= Lengths[kind][i]
          /\ \A i \in 1 .. Dim(kind) : Lengths[kind][i] \in Nat
      BY <1>1, LengthsAreNumbers DEF TypeOK
    <3>2. <<>> \in Seq(Plain) /\ Len(<<>>) = 0
      OBVIOUS
    <3> QED
      BY <2>1, <3>1, <3>2
  <2>3. state' \in -1 .. Dim(kind)
    BY <1>1, <2>1
  <2> QED
    BY <1>1, <2>1, <2>2, <2>3, RollStaysInside DEF TypeOK
<1>7. CASE AddChar(c)
  <2>1. /\ Roll(c) /\ UNCHANGED <<state, kind, tz, position>> /\ done' = "none"
        /\ c \in Plain /\ state \in 0 .. Dim(kind)
    <3>1. state \in -1 .. Dim(kind)
      BY DEF TypeOK
    <3> QED
      BY <1>1, <1>7, <3>1 DEF AddChar
  <2>2. CASE state = 0
    <3>1. name' \in Seq(Plain) /\ Len(name') <= NameLength /\ UNCHANGED words
      <4>1. name \in Seq(Plain) /\ NameLength \in Nat
        BY RoomAssumption DEF TypeOK
      <4>2. Len(name) < NameLength /\ name' = Append(name, c) /\ UNCHANGED words
        BY <1>7, <2>2 DEF AddChar, Room
      <4> QED
        BY <2>1, <4>1, <4>2
    <3> QED
      BY <2>1, <3>1, RollStaysInside DEF TypeOK
  <2>3. CASE state # 0
    <3>1. /\ state \in 1 .. Dim(kind) /\ UNCHANGED name
          /\ words' = [words EXCEPT ![state] = Append(words[state], c)]
          /\ Len(words[state]) < Lengths[kind][state]
      BY <1>1, <1>7, <2>1, <2>3 DEF AddChar, Room
    <3>2. words[state] \in Seq(Plain) /\ Lengths[kind][state] \in Nat
      BY <1>1, <3>1, LengthsAreNumbers DEF TypeOK
    <3>3. Append(words[state], c) \in Seq(Plain)
          /\ Len(Append(words[state], c)) <= Lengths[kind][state]
      BY <2>1, <3>1, <3>2
    <3>4. /\ words' \in [1 .. Dim(kind) -> Seq(Plain)]
          /\ \A i \in 1 .. Dim(kind) : Len(words'[i]) <= Lengths[kind][i]
      BY <3>1, <3>3 DEF TypeOK
    <3> QED
      BY <2>1, <3>1, <3>4, RollStaysInside DEF TypeOK
  <2> QED
    BY <2>2, <2>3
<1>8. CASE TooLong(c)
  <2>1. Roll(c) /\ state' = -1 /\ done' = "none" /\ UNCHANGED <<kind, name, words, tz, position>>
    BY <1>8 DEF TooLong
  <2>2. state' \in -1 .. Dim(kind)
    BY <1>1, <2>1
  <2> QED
    BY <2>1, <2>2, RollStaysInside DEF TypeOK
<1> QED
  BY <1>2, <1>3, <1>4, <1>5, <1>6, <1>7, <1>8 DEF gpsparse

(* Every field, the name and the rolling buffer stay within their arrays    *)
(* for any stream of characters and any sizes (clockGps.c:223-250, 385-396).*)
THEOREM BuffersNeverOverflow == Spec => []TypeOK
<1>1. TypeOK /\ [Next]_vars => TypeOK'
  <2>1. CASE Next
    BY <2>1, StepTypeOK DEF Next
  <2>2. CASE UNCHANGED vars
    BY <2>2 DEF vars, TypeOK
  <2> QED
    BY <2>1, <2>2
<1> QED
  BY <1>1, InitTypeOK, PTL DEF Spec

-----------------------------------------------------------------------------
(* The sentences.  What gpsparse has stored is what the characters since the *)
(* last $ are the beginning of: a name, or the fields so far of a sentence   *)
(* with a name that is wanted.  The lemmas say how the separators of a text, *)
(* its fields and the field that is still open change with one character.    *)

\* The separators up to a place.
UpTo(t, i) == {j \in Ends(t) : j <= i}

\* The separators of a text can be counted off.
Countable(t) == \A n \in 1 .. Count(t) : \E i \in Ends(t) : Cardinality(UpTo(t, i)) = n

LEMMA EndsFacts ==
  ASSUME NEW t \in Seq(Chars)
  PROVE  /\ Ends(t) \subseteq 1 .. Len(t) /\ IsFiniteSet(Ends(t)) /\ Count(t) \in Nat
         /\ Count(t) = 0 <=> Ends(t) = {}
         /\ \A i : IsFiniteSet(UpTo(t, i)) /\ Cardinality(UpTo(t, i)) \in 0 .. Count(t)
<1>1. Ends(t) \subseteq 1 .. Len(t) /\ Len(t) \in Nat
  BY DEF Ends
<1>2. IsFiniteSet(1 .. Len(t))
  BY <1>1, FS_Interval
<1>3. IsFiniteSet(Ends(t))
  BY <1>1, <1>2, FS_Subset
<1>4. Count(t) \in Nat /\ (Count(t) = 0 <=> Ends(t) = {})
  BY <1>3, FS_CardinalityType, FS_EmptySet DEF Count
<1>5. ASSUME NEW i PROVE IsFiniteSet(UpTo(t, i)) /\ Cardinality(UpTo(t, i)) \in 0 .. Count(t)
  <2>1. UpTo(t, i) \in SUBSET Ends(t)
    BY DEF UpTo
  <2>2. IsFiniteSet(UpTo(t, i)) /\ Cardinality(UpTo(t, i)) <= Count(t)
    BY <1>3, <2>1, FS_Subset DEF Count
  <2> QED BY <1>4, <2>2, FS_CardinalityType
<1> QED BY <1>1, <1>3, <1>4, <1>5

\* Different separators have different numbers.
LEMMA NumbersDiffer ==
  ASSUME NEW t \in Seq(Chars), NEW i \in Ends(t), NEW j \in Ends(t),
         Cardinality(UpTo(t, i)) = Cardinality(UpTo(t, j))
  PROVE  i = j
<1>1. i \in Int /\ j \in Int
  BY EndsFacts
<1>2. ASSUME NEW a \in Ends(t), NEW b \in Ends(t), a \in Int, b \in Int, a <= b,
             Cardinality(UpTo(t, a)) = Cardinality(UpTo(t, b))
      PROVE  a = b
  <2>1. UpTo(t, a) \in SUBSET UpTo(t, b)
    <3> SUFFICES ASSUME NEW x \in UpTo(t, a) PROVE x \in UpTo(t, b)
      OBVIOUS
    <3>1. x \in Ends(t) /\ x <= a
      BY DEF UpTo
    <3>2. x \in Int
      BY <3>1, EndsFacts
    <3>3. x <= b
      BY <1>2, <3>1, <3>2
    <3> QED BY <3>1, <3>3 DEF UpTo
  <2>2. UpTo(t, a) = UpTo(t, b)
    <3>1. IsFiniteSet(UpTo(t, b))
      BY EndsFacts
    <3> QED BY <1>2, <2>1, <3>1, FS_Subset, Zenon
  <2>3. b \in UpTo(t, b) /\ b <= a
    <3>1. b \in UpTo(t, b)
      BY <1>2 DEF UpTo
    <3> QED BY <2>2, <3>1 DEF UpTo
  <2> QED BY <1>2, <2>3
<1> QED BY <1>1, <1>2

LEMMA NthIs ==
  ASSUME NEW t \in Seq(Chars), NEW i \in Ends(t)
  PROVE  Nth(t, Cardinality(UpTo(t, i))) = i
<1> DEFINE n == Cardinality(UpTo(t, i))
           P(x) == Cardinality({j \in Ends(t) : j <= x}) = n
<1>1. P(i)
  BY DEF UpTo
<1>2. Nth(t, n) \in Ends(t) /\ P(Nth(t, n))
  BY <1>1 DEF Nth
<1>3. Cardinality(UpTo(t, Nth(t, n))) = Cardinality(UpTo(t, i))
  BY <1>2 DEF UpTo
<1> QED BY <1>2, <1>3, NumbersDiffer

LEMMA NthExists ==
  ASSUME NEW t \in Seq(Chars), Countable(t), NEW n \in 1 .. Count(t)
  PROVE  Nth(t, n) \in Ends(t) /\ Cardinality(UpTo(t, Nth(t, n))) = n
<1>1. PICK i \in Ends(t) : Cardinality(UpTo(t, i)) = n
  BY DEF Countable
<1> QED BY <1>1, NthIs

\* The next character.
LEMMA AddPlain ==
  ASSUME NEW t \in Seq(Chars), NEW c \in Chars, c \notin Separators
  PROVE  LET u == Append(t, c)
         IN /\ Ends(u) = Ends(t) /\ Count(u) = Count(t)
            /\ \A n : Nth(u, n) = Nth(t, n)
            /\ Countable(t) => Countable(u)
<1> DEFINE u == Append(t, c)
<1>1. u \in Seq(Chars) /\ Len(u) = Len(t) + 1 /\ u[Len(u)] = c /\ Len(t) \in Nat
      /\ \A i \in 1 .. Len(t) : u[i] = t[i]
  OBVIOUS
<1> HIDE DEF u
<1>2. Ends(u) = Ends(t)
  BY <1>1 DEF Ends
<1>3. Count(u) = Count(t) /\ \A n : Nth(u, n) = Nth(t, n)
  BY <1>2 DEF Count, Nth
<1>4. \A i : UpTo(u, i) = UpTo(t, i)
  BY <1>2 DEF UpTo
<1>5. Countable(t) => Countable(u)
  BY <1>2, <1>3, <1>4 DEF Countable
<1> QED BY <1>2, <1>3, <1>5 DEF u

LEMMA AddSeparator ==
  ASSUME NEW t \in Seq(Chars), NEW c \in Separators, Countable(t)
  PROVE  LET u == Append(t, c)
         IN /\ Ends(u) = Ends(t) \cup {Len(t) + 1} /\ Count(u) = Count(t) + 1
            /\ \A n \in 1 .. Count(t) : Nth(u, n) = Nth(t, n)
            /\ Nth(u, Count(t) + 1) = Len(t) + 1
            /\ Countable(u)
<1> DEFINE u == Append(t, c)
<1>1. u \in Seq(Chars) /\ Len(u) = Len(t) + 1 /\ u[Len(u)] = c /\ Len(t) \in Nat
      /\ \A i \in 1 .. Len(t) : u[i] = t[i]
  BY DEF Chars
<1> HIDE DEF u
<1>2. Ends(u) = Ends(t) \cup {Len(t) + 1} /\ Len(t) + 1 \notin Ends(t)
  BY <1>1 DEF Ends
<1>3. Count(u) = Count(t) + 1 /\ Count(t) \in Nat
  BY <1>2, EndsFacts, FS_AddElement DEF Count
<1>4. \A i \in Ends(t) : UpTo(u, i) = UpTo(t, i)
  <2>1. \A i \in Ends(t) : i \in Int /\ i <= Len(t)
    BY EndsFacts
  <2> QED BY <1>1, <1>2, <2>1 DEF UpTo
<1>5. UpTo(u, Len(t) + 1) = Ends(u) /\ Cardinality(UpTo(u, Len(t) + 1)) = Count(t) + 1
  <2>1. \A i \in Ends(u) : i <= Len(t) + 1
    BY <1>1, EndsFacts
  <2> QED BY <1>3, <2>1 DEF UpTo, Count
<1>6. \A n \in 1 .. Count(t) : Nth(u, n) = Nth(t, n)
  <2> SUFFICES ASSUME NEW n \in 1 .. Count(t) PROVE Nth(u, n) = Nth(t, n)
    OBVIOUS
  <2>1. Nth(t, n) \in Ends(t) /\ Cardinality(UpTo(t, Nth(t, n))) = n
    BY NthExists
  <2>2. Nth(t, n) \in Ends(u) /\ Cardinality(UpTo(u, Nth(t, n))) = n
    BY <1>2, <1>4, <2>1
  <2> QED BY <1>1, <2>2, NthIs
<1>7. Nth(u, Count(t) + 1) = Len(t) + 1
  BY <1>1, <1>2, <1>5, NthIs
<1>8. Countable(u)
  <2> SUFFICES ASSUME NEW n \in 1 .. Count(u)
               PROVE  \E i \in Ends(u) : Cardinality(UpTo(u, i)) = n
    BY DEF Countable
  <2>1. CASE n \in 1 .. Count(t)
    BY <1>2, <1>4, <2>1 DEF Countable
  <2>2. CASE n = Count(t) + 1
    BY <1>2, <1>5, <2>2
  <2> QED BY <1>3, <2>1, <2>2
<1> QED BY <1>2, <1>3, <1>6, <1>7, <1>8 DEF u

LEMMA SubSeqOfAppend ==
  ASSUME NEW t \in Seq(Chars), NEW c \in Chars, NEW a \in Nat \ {0}, NEW b \in Int, b <= Len(t)
  PROVE  SubSeq(Append(t, c), a, b) = SubSeq(t, a, b)
OBVIOUS

LEMMA SubSeqGrows ==
  ASSUME NEW t \in Seq(Chars), NEW c \in Chars, NEW a \in 1 .. Len(t) + 1
  PROVE  SubSeq(Append(t, c), a, Len(t) + 1) = Append(SubSeq(t, a, Len(t)), c)
OBVIOUS

LEMMA SubSeqLength ==
  ASSUME NEW t \in Seq(Chars), NEW a \in 1 .. Len(t) + 1
  PROVE  Len(SubSeq(t, a, Len(t))) = Len(t) + 1 - a
OBVIOUS

\* What is still open after the last separator.
OpenField(t) == SubSeq(t, IF Count(t) = 0 THEN 2 ELSE Nth(t, Count(t)) + 1, Len(t))

LEMMA NthInside ==
  ASSUME NEW t \in Seq(Chars), Countable(t), NEW n \in 1 .. Count(t)
  PROVE  Nth(t, n) \in 1 .. Len(t)
BY NthExists, EndsFacts

LEMMA SameFields ==
  ASSUME NEW t \in Seq(Chars), NEW c \in Chars, Countable(t), NEW n \in 1 .. Count(t)
  PROVE  Field(Append(t, c), n) = Field(t, n) /\ Append(t, c)[Nth(Append(t, c), n)] = t[Nth(t, n)]
<1> DEFINE u == Append(t, c)
           from == IF n = 1 THEN 2 ELSE Nth(t, n - 1) + 1
<1>1. Nth(u, n) = Nth(t, n) /\ (n # 1 => Nth(u, n - 1) = Nth(t, n - 1))
  <2>1. n # 1 => n - 1 \in 1 .. Count(t)
    BY EndsFacts
  <2> QED BY <2>1, AddPlain, AddSeparator
<1>2. Nth(t, n) \in 1 .. Len(t) /\ (n # 1 => Nth(t, n - 1) \in 1 .. Len(t))
  BY NthInside, EndsFacts
<1>3. from \in Nat \ {0} /\ Nth(t, n) - 1 \in Int /\ Nth(t, n) - 1 <= Len(t)
  BY <1>2
<1>4. Field(u, n) = SubSeq(u, from, Nth(t, n) - 1)
  BY <1>1 DEF Field
<1>5. Field(t, n) = SubSeq(t, from, Nth(t, n) - 1)
  BY DEF Field
<1> HIDE DEF from
<1>6. Field(u, n) = Field(t, n)
  BY <1>3, <1>4, <1>5, SubSeqOfAppend
<1>7. u[Nth(t, n)] = t[Nth(t, n)]
  BY <1>2
<1> QED BY <1>1, <1>6, <1>7

\* A separator ends the field that was open.
LEMMA EndOfField ==
  ASSUME NEW t \in Seq(Chars), NEW c \in Separators, Countable(t)
  PROVE  Field(Append(t, c), Count(t) + 1) = OpenField(t) /\ OpenField(Append(t, c)) = <<>>
<1> DEFINE u == Append(t, c)
           from == IF Count(t) = 0 THEN 2 ELSE Nth(t, Count(t)) + 1
<1>1. c \in Chars /\ Count(t) \in Nat /\ Len(t) \in Nat /\ Len(u) = Len(t) + 1
  BY EndsFacts DEF Chars
<1>2. Nth(u, Count(t) + 1) = Len(t) + 1 /\ Count(u) = Count(t) + 1
      /\ (Count(t) # 0 => Nth(u, Count(t)) = Nth(t, Count(t)))
  BY <1>1, AddSeparator
<1>3. from \in Nat \ {0}
  BY <1>1, NthInside
<1> HIDE DEF u
<1>4. Field(u, Count(t) + 1) = SubSeq(u, from, Len(t))
  <2> DEFINE n == Count(t) + 1
  <2>1. n - 1 = Count(t) /\ Nth(u, n) - 1 = Len(t) /\ (n = 1 <=> Count(t) = 0)
    BY <1>1, <1>2
  <2> HIDE DEF n
  <2>2. Field(u, n) = SubSeq(u, IF n = 1 THEN 2 ELSE Nth(u, n - 1) + 1, Nth(u, n) - 1)
    BY DEF Field
  <2>3. Field(u, n) = SubSeq(u, from, Len(t))
    <3>1. CASE Count(t) = 0
      BY <2>1, <2>2, <3>1, Zenon
    <3>2. CASE Count(t) # 0
      BY <1>2, <2>1, <2>2, <3>2, Zenon
    <3> QED BY <3>1, <3>2
  <2> QED BY <2>3 DEF n
<1>5. OpenField(t) = SubSeq(t, from, Len(t))
  BY DEF OpenField
<1> HIDE DEF from
<1>6. Field(u, Count(t) + 1) = OpenField(t)
  BY <1>1, <1>3, <1>4, <1>5, SubSeqOfAppend DEF u
<1>7. OpenField(u) = SubSeq(u, Len(t) + 2, Len(t) + 1)
  BY <1>1, <1>2 DEF OpenField
<1>8. OpenField(u) = <<>>
  BY <1>1, <1>7, SubSeqEmpty
<1> QED BY <1>6, <1>8 DEF u

\* Any other character is added to it.
LEMMA MoreOfField ==
  ASSUME NEW t \in Seq(Chars), NEW c \in Chars, c \notin Separators, Countable(t), t # <<>>
  PROVE  /\ OpenField(Append(t, c)) = Append(OpenField(t), c)
         /\ Len(OpenField(Append(t, c))) = Len(OpenField(t)) + 1
<1> DEFINE u == Append(t, c)
           from == IF Count(t) = 0 THEN 2 ELSE Nth(t, Count(t)) + 1
<1>1. Count(t) \in Nat /\ Len(t) \in Nat \ {0} /\ Len(u) = Len(t) + 1
  BY EndsFacts
<1>2. Count(u) = Count(t) /\ Nth(u, Count(t)) = Nth(t, Count(t))
  BY AddPlain
<1>3. from \in 1 .. Len(t) + 1
  BY <1>1, NthInside
<1>4. OpenField(u) = SubSeq(u, from, Len(t) + 1) /\ OpenField(t) = SubSeq(t, from, Len(t))
  BY <1>1, <1>2 DEF OpenField
<1> HIDE DEF from
<1>5. OpenField(u) = Append(OpenField(t), c)
  BY <1>3, <1>4, SubSeqGrows
<1>6. Len(OpenField(t)) = Len(t) + 1 - from
  BY <1>3, <1>4, SubSeqLength
<1>7. Len(OpenField(u)) = Len(u) + 1 - from
  <2>1. u \in Seq(Chars) /\ from \in 1 .. Len(u) + 1
    BY <1>1, <1>3
  <2> QED BY <1>1, <1>4, <2>1, SubSeqLength
<1> QED BY <1>1, <1>3, <1>5, <1>6, <1>7

-----------------------------------------------------------------------------
\* A text that is the beginning of a sentence, in its name or in one of its fields.
Named(t) == t # <<>> /\ t[1] = "$" /\ Count(t) = 0 /\ Len(OpenField(t)) <= NameLength

Begun(k, t) ==
  /\ Count(t) \in 1 .. Dim(k) /\ t[1] = "$"
  /\ Field(t, 1) = Name[k]
  /\ \A i \in 1 .. Count(t) - 1 : Len(Field(t, i + 1)) <= Lengths[k][i]
  /\ \A i \in 2 .. Count(t) : t[Nth(t, i)] = ","
  /\ Len(OpenField(t)) <= Lengths[k][Count(t)]

\* Only one sentence has a name.
LEMMA OneKind ==
  ASSUME NEW k \in Kinds, NEW l \in Kinds, NEW t, Begun(k, t), Begun(l, t)
  PROVE  k = l
BY NameAssumption DEF Begun

\* The first character stays.
LEMMA FirstStays ==
  ASSUME NEW t \in Seq(Chars), NEW c \in Chars, Count(t) # 0 \/ t # <<>>
  PROVE  t # <<>> /\ Append(t, c)[1] = t[1]
<1>1. t # <<>>
  <2>1. Count(<<>>) = 0
    <3>1. Ends(<<>>) = {}
      BY DEF Ends
    <3> QED BY <3>1, FS_EmptySet DEF Count
  <2> QED BY <2>1
<1>2. Len(t) \in Nat /\ Len(t) >= 1
  BY <1>1
<1> QED BY <1>1, <1>2

LEMMA SentenceEnds ==
  ASSUME NEW t \in Seq(Chars), NEW c \in Chars, Countable(t), NEW k \in Kinds
  PROVE  Sentence(k, Append(t, c)) <=>
           c \in Separators /\ Begun(k, t) /\ (c = "*" \/ Count(t) = Dim(k))
<1> DEFINE u == Append(t, c)
           n == Count(t)
<1>1. n \in Nat /\ Dim(k) \in Nat /\ Len(t) \in Nat /\ Len(u) = Len(t) + 1 /\ u[Len(u)] = c
      /\ Ends(t) \subseteq 1 .. Len(t)
  BY EndsFacts, LengthsAreNumbers
<1>2. CASE c \notin Separators
  <2>1. Ends(u) = Ends(t)
    BY <1>2, AddPlain
  <2>2. Len(u) \notin Ends(u)
    BY <1>1, <2>1
  <2>3. ~ Sentence(k, u)
    BY <2>2 DEF Sentence
  <2> QED BY <1>2, <2>3
<1>3. CASE c \in Separators /\ n \notin 1 .. Dim(k)
  <2>1. Count(u) = n + 1
    BY <1>3, AddSeparator
  <2>2. Count(u) - 1 = n
    BY <1>1, <2>1
  <2>3. ~ Sentence(k, u)
    BY <1>3, <2>2 DEF Sentence
  <2> QED BY <1>3, <2>3 DEF Begun
<1>4. CASE c \in Separators /\ n \in 1 .. Dim(k)
  <2>1. Count(u) = n + 1 /\ Ends(u) = Ends(t) \cup {Len(t) + 1}
    BY <1>4, AddSeparator
  <2>2. Count(u) - 1 = n /\ Len(u) \in Ends(u)
    BY <1>1, <2>1
  <2>3. u[1] = t[1]
    BY <1>1, <1>4, FirstStays
  <2>4. \A i \in 1 .. n : Field(u, i) = Field(t, i) /\ u[Nth(u, i)] = t[Nth(t, i)]
    BY SameFields
  <2>5. Field(u, n + 1) = OpenField(t)
    BY <1>4, EndOfField
  <2> HIDE DEF u, n
  <2>6. Sentence(k, u) <=>
          /\ u[1] = "$" /\ Field(u, 1) = Name[k]
          /\ \A i \in 1 .. n : Len(Field(u, i + 1)) <= Lengths[k][i]
          /\ \A i \in 2 .. n : u[Nth(u, i)] = ","
          /\ c = "*" \/ n = Dim(k)
    BY <1>1, <1>4, <2>2 DEF Sentence
  <2>7. (\A i \in 1 .. n : Len(Field(u, i + 1)) <= Lengths[k][i]) <=>
          /\ \A i \in 1 .. n - 1 : Len(Field(t, i + 1)) <= Lengths[k][i]
          /\ Len(OpenField(t)) <= Lengths[k][n]
    <3>1. \A i \in 1 .. n - 1 : i + 1 \in 1 .. n
      BY <1>1
    <3>2. \A i \in 1 .. n - 1 : Field(u, i + 1) = Field(t, i + 1)
      BY <2>4, <3>1
    <3>3. \A i \in 1 .. n : i \in 1 .. n - 1 \/ i = n
      BY <1>1
    <3>4. n \in 1 .. n /\ \A i \in 1 .. n - 1 : i \in 1 .. n
      BY <1>1, <1>4
    <3> QED BY <2>5, <3>2, <3>3, <3>4, Zenon
  <2>8. (\A i \in 2 .. n : u[Nth(u, i)] = ",") <=> (\A i \in 2 .. n : t[Nth(t, i)] = ",")
    <3>1. \A i \in 2 .. n : i \in 1 .. n
      BY <1>1
    <3> QED BY <2>4, <3>1
  <2>9. Field(u, 1) = Field(t, 1)
    BY <1>1, <1>4, <2>4
  <2>10. Begun(k, t) <=>
           /\ t[1] = "$" /\ Field(t, 1) = Name[k]
           /\ \A i \in 1 .. n - 1 : Len(Field(t, i + 1)) <= Lengths[k][i]
           /\ \A i \in 2 .. n : t[Nth(t, i)] = ","
           /\ Len(OpenField(t)) <= Lengths[k][n]
    BY <1>4 DEF Begun, n
  <2>11. Sentence(k, u) <=> Begun(k, t) /\ (c = "*" \/ n = Dim(k))
    BY <2>3, <2>6, <2>7, <2>8, <2>9, <2>10, Zenon
  <2> QED BY <1>4, <2>11 DEF u, n
<1> QED BY <1>2, <1>3, <1>4

LEMMA NameEnds ==
  ASSUME NEW t \in Seq(Chars), NEW c \in Separators, Countable(t), NEW k \in Kinds, Count(t) = 0
  PROVE  Begun(k, Append(t, c)) <=> t # <<>> /\ t[1] = "$" /\ OpenField(t) = Name[k]
<1> DEFINE u == Append(t, c)
<1>1. Count(u) = 1 /\ Field(u, 1) = OpenField(t) /\ OpenField(u) = <<>> /\ c \in Chars
  <2>1. Count(u) = 0 + 1 /\ Field(u, 0 + 1) = OpenField(t) /\ OpenField(u) = <<>>
    BY AddSeparator, EndOfField
  <2> QED BY <2>1 DEF Chars
<1>2. Dim(k) \in Nat /\ Dim(k) >= 1 /\ Lengths[k][1] \in Nat
  BY LengthsAreNumbers
<1>3. Begun(k, u) <=> u[1] = "$" /\ OpenField(t) = Name[k]
  <2>1. Len(OpenField(u)) <= Lengths[k][Count(u)]
    BY <1>1, <1>2
  <2>2. Count(u) \in 1 .. Dim(k) /\ 1 .. Count(u) - 1 = {} /\ 2 .. Count(u) = {}
    BY <1>1, <1>2
  <2> HIDE DEF u
  <2> QED BY <1>1, <2>1, <2>2, Zenon DEF Begun
<1>4. u[1] = "$" <=> t # <<>> /\ t[1] = "$"
  <2>1. CASE t # <<>>
    BY <1>1, <2>1, FirstStays
  <2>2. CASE t = <<>>
    <3>1. Append(<<>>, c)[1] = c
      OBVIOUS
    <3>2. u[1] = c
      BY <2>2, <3>1, Zenon
    <3>3. c # "$"
      BY DEF Separators
    <3> QED BY <2>2, <3>2, <3>3, Zenon
  <2> QED BY <2>1, <2>2
<1> QED BY <1>3, <1>4

LEMMA FieldEnds ==
  ASSUME NEW t \in Seq(Chars), NEW c \in Separators, Countable(t), NEW k \in Kinds, Count(t) # 0
  PROVE  Begun(k, Append(t, c)) <=> Begun(k, t) /\ c = "," /\ Count(t) < Dim(k)
<1> DEFINE u == Append(t, c)
           n == Count(t)
<1>1. /\ n \in Nat \ {0} /\ Dim(k) \in Nat /\ c \in Chars /\ Len(t) \in Nat
      /\ Len(u) = Len(t) + 1 /\ u[Len(t) + 1] = c
  BY EndsFacts, LengthsAreNumbers DEF Chars
<1>2. Count(u) = n + 1 /\ Nth(u, n + 1) = Len(t) + 1 /\ u[1] = t[1]
  BY <1>1, AddSeparator, FirstStays
<1>3. \A i \in 1 .. n : Field(u, i) = Field(t, i) /\ u[Nth(u, i)] = t[Nth(t, i)]
  BY <1>1, SameFields
<1>4. Field(u, n + 1) = OpenField(t) /\ OpenField(u) = <<>>
  BY EndOfField
<1> HIDE DEF u, n
<1>5. CASE n + 1 \notin 1 .. Dim(k)
  <2>1. ~ Begun(k, u)
    BY <1>2, <1>5 DEF Begun
  <2>2. ~ (n < Dim(k))
    BY <1>1, <1>5
  <2> QED BY <2>1, <2>2 DEF u, n
<1>6. CASE n + 1 \in 1 .. Dim(k)
  <2>1. n \in 1 .. Dim(k) /\ n < Dim(k)
    BY <1>1, <1>6
  <2>2. Len(OpenField(u)) <= Lengths[k][Count(u)]
    <3>1. Lengths[k][n + 1] \in Nat
      BY <1>6, LengthsAreNumbers
    <3> QED BY <1>2, <1>4, <3>1
  <2>3. (\A i \in 1 .. Count(u) - 1 : Len(Field(u, i + 1)) <= Lengths[k][i]) <=>
          /\ \A i \in 1 .. n - 1 : Len(Field(t, i + 1)) <= Lengths[k][i]
          /\ Len(OpenField(t)) <= Lengths[k][n]
    <3>1. \A i \in 1 .. n - 1 : i + 1 \in 1 .. n
      BY <1>1
    <3>2. \A i \in 1 .. n - 1 : Field(u, i + 1) = Field(t, i + 1)
      BY <1>3, <3>1
    <3>3. \A i \in 1 .. n : i \in 1 .. n - 1 \/ i = n
      BY <1>1
    <3>4. n \in 1 .. n /\ \A i \in 1 .. n - 1 : i \in 1 .. n
      BY <1>1
    <3>5. Count(u) - 1 = n
      BY <1>1, <1>2
    <3> QED BY <1>4, <3>2, <3>3, <3>4, <3>5, Zenon
  <2>4. (\A i \in 2 .. Count(u) : u[Nth(u, i)] = ",") <=>
          c = "," /\ \A i \in 2 .. n : t[Nth(t, i)] = ","
    <3>1. \A i \in 2 .. n : i \in 1 .. n /\ i \in 2 .. n + 1
      BY <1>1
    <3>2. \A i \in 2 .. n + 1 : i \in 2 .. n \/ i = n + 1
      BY <1>1
    <3>3. n + 1 \in 2 .. n + 1 /\ u[Nth(u, n + 1)] = c
      BY <1>1, <1>2
    <3>4. \A i \in 2 .. n : u[Nth(u, i)] = t[Nth(t, i)]
      BY <1>3, <3>1
    <3> QED BY <1>2, <3>1, <3>2, <3>3, <3>4, Zenon
  <2>5. Field(u, 1) = Field(t, 1)
    BY <1>1, <1>3
  <2>6. Begun(k, t) <=>
           /\ t[1] = "$" /\ Field(t, 1) = Name[k]
           /\ \A i \in 1 .. n - 1 : Len(Field(t, i + 1)) <= Lengths[k][i]
           /\ \A i \in 2 .. n : t[Nth(t, i)] = ","
           /\ Len(OpenField(t)) <= Lengths[k][n]
    BY <2>1 DEF Begun, n
  <2>7. Begun(k, u) <=>
           /\ t[1] = "$" /\ Field(t, 1) = Name[k]
           /\ \A i \in 1 .. Count(u) - 1 : Len(Field(u, i + 1)) <= Lengths[k][i]
           /\ \A i \in 2 .. Count(u) : u[Nth(u, i)] = ","
    BY <1>2, <1>6, <2>2, <2>5 DEF Begun
  <2>8. Begun(k, u) <=> Begun(k, t) /\ c = "," /\ n < Dim(k)
    BY <2>1, <2>3, <2>4, <2>6, <2>7, Zenon
  <2> QED BY <2>8 DEF u, n
<1> QED BY <1>5, <1>6

LEMMA FieldGrows ==
  ASSUME NEW t \in Seq(Chars), NEW c \in Chars, c \notin Separators, Countable(t), t # <<>>
  PROVE  /\ Named(Append(t, c)) <=> Named(t) /\ Len(OpenField(t)) < NameLength
         /\ \A k \in Kinds : Begun(k, Append(t, c)) <=>
              Begun(k, t) /\ Len(OpenField(t)) < Lengths[k][Count(t)]
<1> DEFINE u == Append(t, c)
           n == Count(t)
<1>1. n \in Nat /\ Len(OpenField(t)) \in Nat /\ u # <<>> /\ u[1] = t[1]
  <2>1. u # <<>>
    OBVIOUS
  <2>2. n \in Nat
    BY EndsFacts
  <2>3. Len(OpenField(t)) \in Nat
    <3> DEFINE from == IF Count(t) = 0 THEN 2 ELSE Nth(t, Count(t)) + 1
    <3>1. from \in 1 .. Len(t) + 1
      <4>1. Len(t) \in Nat \ {0}
        OBVIOUS
      <4> QED BY <2>2, <4>1, NthInside
    <3>2. OpenField(t) = SubSeq(t, from, Len(t))
      BY DEF OpenField
    <3> HIDE DEF from
    <3> QED BY <3>1, <3>2
  <2> QED BY <2>1, <2>2, <2>3, FirstStays
<1>2. Count(u) = n /\ \A i : Nth(u, i) = Nth(t, i)
  BY AddPlain
<1>3. Len(OpenField(u)) = Len(OpenField(t)) + 1
  BY MoreOfField
<1>4. \A i \in 1 .. n : Field(u, i) = Field(t, i) /\ u[Nth(u, i)] = t[Nth(t, i)]
  BY SameFields
<1> HIDE DEF u, n
<1>5. Named(u) <=> Named(t) /\ Len(OpenField(t)) < NameLength
  <2>1. NameLength \in Nat
    BY RoomAssumption
  <2>2. Len(OpenField(u)) <= NameLength <=>
          Len(OpenField(t)) <= NameLength /\ Len(OpenField(t)) < NameLength
    BY <1>1, <1>3, <2>1
  <2> QED BY <1>1, <1>2, <2>2, Zenon DEF Named, n
<1>6. ASSUME NEW k \in Kinds
      PROVE  Begun(k, u) <=> Begun(k, t) /\ Len(OpenField(t)) < Lengths[k][n]
  <2>1. CASE n \notin 1 .. Dim(k)
    BY <1>2, <2>1 DEF Begun, n
  <2>2. CASE n \in 1 .. Dim(k)
    <3>1. Len(OpenField(u)) <= Lengths[k][n] <=>
            Len(OpenField(t)) <= Lengths[k][n] /\ Len(OpenField(t)) < Lengths[k][n]
      <4>1. Lengths[k][n] \in Nat
        BY <2>2, LengthsAreNumbers
      <4> QED BY <1>1, <1>3, <4>1
    <3>2. \A i \in 1 .. n - 1 : Field(u, i + 1) = Field(t, i + 1)
      <4>1. \A i \in 1 .. n - 1 : i + 1 \in 1 .. n
        BY <1>1
      <4> QED BY <1>4, <4>1
    <3>3. \A i \in 2 .. n : u[Nth(u, i)] = t[Nth(t, i)]
      <4>1. \A i \in 2 .. n : i \in 1 .. n
        BY <1>1
      <4> QED BY <1>4, <4>1
    <3>4. Field(u, 1) = Field(t, 1)
      BY <1>1, <1>4, <2>2
    <3> QED BY <1>1, <1>2, <2>2, <3>1, <3>2, <3>3, <3>4, Zenon DEF Begun, n
  <2> QED BY <2>1, <2>2
<1> QED BY <1>5, <1>6 DEF u, n

-----------------------------------------------------------------------------
\* What has been read since the last $, in the name or in a field of a sentence wanted.
NameInv == (state = 0 <=> Named(text)) /\ (state = 0 => name = OpenField(text))

FieldInv ==
  /\ state > 0 <=> \E k \in Kinds : Begun(k, text)
  /\ state > 0 =>
       /\ Begun(kind, text) /\ state = Count(text)
       /\ words[state] = OpenField(text)
       /\ \A i \in 1 .. Dim(kind) :
            (i < state => words[i] = Field(text, i + 1)) /\ (i > state => words[i] = <<>>)

ParseInv == Countable(text) /\ NameInv /\ FieldInv

NInv == TypeOK /\ ParseInv /\ RecognisesSentences /\ FieldsAreItsOwn

LEMMA NoSeparators ==
  ASSUME NEW t \in Seq(Chars), Ends(t) = {}
  PROVE  Count(t) = 0 /\ Countable(t) /\ \A k \in Kinds : ~ Begun(k, t) /\ ~ Sentence(k, t)
<1>1. Count(t) = 0
  BY FS_EmptySet DEF Count
<1>2. Countable(t)
  BY <1>1 DEF Countable
<1>3. \A k \in Kinds : ~ Begun(k, t) /\ ~ Sentence(k, t)
  BY <1>1 DEF Begun, Sentence
<1> QED BY <1>1, <1>2, <1>3

LEMMA InitNInv == Init => NInv
<1> SUFFICES ASSUME Init PROVE NInv
  OBVIOUS
<1>1. TypeOK /\ state = -1 /\ text = <<>> /\ done = "none"
  BY InitTypeOK DEF Init
<1>2. text \in Seq(Chars) /\ Ends(text) = {}
  <2>1. Ends(<<>>) = {}
    BY DEF Ends
  <2> QED BY <1>1, <2>1, Zenon DEF TypeOK
<1>3. Countable(text) /\ \A k \in Kinds : ~ Begun(k, text) /\ ~ Sentence(k, text)
  BY <1>2, NoSeparators
<1>4. NameInv /\ FieldInv
  BY <1>1, <1>3 DEF NameInv, Named, FieldInv
<1>5. RecognisesSentences /\ FieldsAreItsOwn
  BY <1>1, <1>3, RoomAssumption DEF RecognisesSentences, FieldsAreItsOwn
<1> QED BY <1>1, <1>3, <1>4, <1>5 DEF NInv, ParseInv

\* A character that is not a $ and completes nothing: what is left to show.
LEMMA Unfinished ==
  ASSUME done' = "none", \A k \in Kinds : ~ Sentence(k, text')
  PROVE  RecognisesSentences' /\ FieldsAreItsOwn'
BY RoomAssumption DEF RecognisesSentences, FieldsAreItsOwn

LEMMA GiveUp ==
  ASSUME state' = -1, ~ Named(text'), \A k \in Kinds : ~ Begun(k, text')
  PROVE  NameInv' /\ FieldInv'
BY DEF NameInv, FieldInv

LEMMA DollarStep ==
  ASSUME NInv, Dollar
  PROVE  ParseInv' /\ RecognisesSentences' /\ FieldsAreItsOwn'
<1>1. state' = 0 /\ name' = <<>> /\ done' = "none" /\ text' = <<"$">>
  BY DEF Dollar
<1>2. text' \in Seq(Chars) /\ Len(text') = 1 /\ text'[1] = "$" /\ text' # <<>>
  BY <1>1 DEF Chars
<1>3. Ends(text') = {}
  <2>1. \A i \in 1 .. Len(text') : i = 1
    BY <1>2
  <2>2. "$" \notin Separators
    BY DEF Separators
  <2> QED BY <1>2, <2>1, <2>2, Zenon DEF Ends
<1>4. Count(text') = 0 /\ Countable(text')
      /\ \A k \in Kinds : ~ Begun(k, text') /\ ~ Sentence(k, text')
  BY <1>2, <1>3, NoSeparators
<1>5. OpenField(text') = <<>>
  <2>1. OpenField(text') = SubSeq(text', 2, Len(text'))
    BY <1>4, Zenon DEF OpenField
  <2> QED BY <1>2, <2>1, SubSeqEmpty
<1>6. Named(text')
  <2>1. Len(OpenField(text')) <= NameLength
    BY <1>5, RoomAssumption
  <2> QED BY <1>2, <1>4, <2>1 DEF Named
<1>7. NameInv' /\ FieldInv'
  BY <1>1, <1>4, <1>5, <1>6 DEF NameInv, FieldInv
<1>8. RecognisesSentences' /\ FieldsAreItsOwn'
  BY <1>1, <1>4, Unfinished
<1> QED BY <1>4, <1>7, <1>8 DEF ParseInv

LEMMA CharStep ==
  ASSUME NInv, NEW c \in Chars,
         Hunt(c) \/ NameEnd(c) \/ Complete(c) \/ NextField(c) \/ AddChar(c) \/ TooLong(c)
  PROVE  /\ text \in Seq(Chars) /\ Countable(text) /\ text' = Append(text, c) /\ c # "$"
         /\ Countable(text)'
<1>1. text' = Append(text, c) /\ c # "$"
  <2>1. \A x \in Plain \cup Separators : x # "$"
    BY CharsAssumption DEF Separators
  <2>2. "," \in Separators /\ "*" \in Separators
    BY DEF Separators
  <2> QED BY <2>1, <2>2 DEF Hunt, NameEnd, Complete, NextField, AddChar, TooLong, Roll
<1>2. text \in Seq(Chars) /\ Countable(text)
  BY DEF NInv, TypeOK, ParseInv
<1>3. Countable(text')
  <2>1. CASE c \in Separators
    BY <1>1, <1>2, <2>1, AddSeparator
  <2>2. CASE c \notin Separators
    BY <1>1, <1>2, <2>2, AddPlain
  <2> QED BY <2>1, <2>2
<1> QED BY <1>1, <1>2, <1>3

LEMMA HuntStep ==
  ASSUME NInv, NEW c \in Chars, Hunt(c)
  PROVE  ParseInv' /\ RecognisesSentences' /\ FieldsAreItsOwn'
<1>1. /\ text \in Seq(Chars) /\ Countable(text) /\ text' = Append(text, c) /\ c # "$"
      /\ Countable(text)'
  BY CharStep
<1>2. state = -1 /\ state' = -1 /\ done' = "none"
  BY DEF Hunt
<1>3. ~ Named(text) /\ \A k \in Kinds : ~ Begun(k, text)
  BY <1>2 DEF NInv, ParseInv, NameInv, FieldInv
<1>4. \A k \in Kinds : ~ Sentence(k, text')
  BY <1>1, <1>3, SentenceEnds
<1>5. ~ Named(text') /\ \A k \in Kinds : ~ Begun(k, text')
  <2>1. CASE text = <<>>
    <3>1. text'[1] = c
      BY <1>1, <2>1
    <3> QED BY <1>1, <3>1 DEF Named, Begun
  <2>2. CASE text # <<>> /\ c \notin Separators
    BY <1>1, <1>3, <2>2, FieldGrows
  <2>3. CASE text # <<>> /\ c \in Separators /\ Count(text) # 0
    <3>1. \A k \in Kinds : ~ Begun(k, text')
      BY <1>1, <1>3, <2>3, FieldEnds
    <3>2. Count(text') # 0
      <4>1. Count(text') = Count(text) + 1 /\ Count(text) \in Nat
        BY <1>1, <2>3, AddSeparator, EndsFacts
      <4> QED BY <4>1
    <3> QED BY <3>1, <3>2 DEF Named
  <2>4. CASE text # <<>> /\ c \in Separators /\ Count(text) = 0
    <3>1. Count(text') # 0
      <4>1. Count(text') = Count(text) + 1
        BY <1>1, <2>4, AddSeparator
      <4> QED BY <2>4, <4>1
    <3>2. ASSUME NEW k \in Kinds, Begun(k, text') PROVE FALSE
      <4>1. text[1] = "$" /\ OpenField(text) = Name[k]
        BY <1>1, <2>4, <3>2, NameEnds
      <4>2. Len(Name[k]) <= NameLength
        BY RoomAssumption
      <4> QED BY <1>3, <2>4, <4>1, <4>2 DEF Named
    <3> QED BY <3>1, <3>2 DEF Named
  <2> QED BY <2>1, <2>2, <2>3, <2>4
<1>6. NameInv' /\ FieldInv'
  BY <1>2, <1>5, GiveUp
<1>7. RecognisesSentences' /\ FieldsAreItsOwn'
  BY <1>2, <1>4, Unfinished
<1> QED BY <1>1, <1>6, <1>7 DEF ParseInv

LEMMA NameEndStep ==
  ASSUME NInv, NEW c \in Chars, NameEnd(c)
  PROVE  ParseInv' /\ RecognisesSentences' /\ FieldsAreItsOwn'
<1>1. /\ text \in Seq(Chars) /\ Countable(text) /\ text' = Append(text, c) /\ c # "$"
      /\ Countable(text)'
  BY CharStep
<1>2. state = 0 /\ c \in Separators /\ done' = "none"
  BY DEF NameEnd
<1>3. text # <<>> /\ text[1] = "$" /\ Count(text) = 0 /\ name = OpenField(text)
  BY <1>2 DEF NInv, ParseInv, NameInv, Named
<1>4. \A k \in Kinds : Begun(k, text') <=> name = Name[k]
  BY <1>1, <1>2, <1>3, NameEnds
<1>5. Count(text') = 1 /\ OpenField(text') = <<>>
  <2>1. Count(text') = Count(text) + 1 /\ OpenField(text') = <<>>
    BY <1>1, <1>2, AddSeparator, EndOfField
  <2> QED BY <1>3, <2>1
<1>6. \A k \in Kinds : ~ Sentence(k, text')
  <2>1. \A k \in Kinds : ~ Begun(k, text)
    BY <1>3, LengthsAreNumbers DEF Begun
  <2> QED BY <1>1, <2>1, SentenceEnds
<1>7. ~ Named(text')
  BY <1>5 DEF Named
<1>8. NameInv' /\ FieldInv'
  <2>1. CASE state' = -1 /\ \A k \in Kinds : name # Name[k]
    BY <1>4, <1>7, <2>1, GiveUp
  <2>2. CASE \E k \in Kinds : name = Name[k] /\ kind' = k /\ state' = 1
                              /\ words' = [i \in 1 .. Dim(k) |-> <<>>]
    <3>1. PICK k \in Kinds : name = Name[k] /\ kind' = k /\ state' = 1
                             /\ words' = [i \in 1 .. Dim(k) |-> <<>>]
      BY <2>2
    <3>2. Dim(k) \in Nat /\ Dim(k) >= 1
      BY LengthsAreNumbers
    <3>3. Begun(k, text')
      BY <1>4, <3>1
    <3>4. words'[1] = <<>> /\ \A i \in 1 .. Dim(k) : words'[i] = <<>> /\ ~ (i < 1)
      BY <3>1, <3>2
    <3>5. NameInv'
      BY <1>7, <3>1 DEF NameInv
    <3>6. FieldInv'
      BY <1>5, <3>1, <3>3, <3>4 DEF FieldInv
    <3> QED BY <3>5, <3>6
  <2> QED BY <2>1, <2>2 DEF NameEnd
<1>9. RecognisesSentences' /\ FieldsAreItsOwn'
  BY <1>2, <1>6, Unfinished
<1> QED BY <1>1, <1>8, <1>9 DEF ParseInv

LEMMA StateType ==
  ASSUME NInv
  PROVE  state \in Int /\ state >= -1 /\ Len(name) \in Nat /\ kind \in Kinds
<1>1. kind \in Kinds /\ name \in Seq(Plain) /\ state \in -1 .. Dim(kind)
  BY Zenon DEF NInv, TypeOK
<1>2. Dim(kind) \in Nat
  BY <1>1, LengthsAreNumbers
<1> QED BY <1>1, <1>2

\* What the step of a parser in a field starts from.
LEMMA InField ==
  ASSUME NInv, state > 0
  PROVE  /\ kind \in Kinds /\ Begun(kind, text) /\ state = Count(text) /\ state \in 1 .. Dim(kind)
         /\ Count(text) # 0 /\ Dim(kind) \in Nat /\ words \in [1 .. Dim(kind) -> Seq(Plain)]
         /\ words[state] = OpenField(text)
         /\ \A k \in Kinds : Begun(k, text) => k = kind
<1>1. kind \in Kinds /\ Begun(kind, text) /\ state = Count(text) /\ words[state] = OpenField(text)
  BY DEF NInv, TypeOK, ParseInv, FieldInv
<1>2. state \in 1 .. Dim(kind) /\ Dim(kind) \in Nat
  BY <1>1, LengthsAreNumbers DEF Begun
<1>3. words \in [1 .. Dim(kind) -> Seq(Plain)]
  BY DEF NInv, TypeOK
<1> QED BY <1>1, <1>2, <1>3, OneKind

\* After a separator or in a field, the text is no open name.
LEMMA NotNamed ==
  ASSUME NInv, NEW c \in Chars, text' = Append(text, c), c \in Separators \/ Count(text) # 0
  PROVE  ~ Named(text')
<1>1. text \in Seq(Chars) /\ Countable(text) /\ Count(text) \in Nat
  BY EndsFacts DEF NInv, TypeOK, ParseInv
<1>2. CASE c \in Separators
  <2>1. Count(text') = Count(text) + 1
    BY <1>1, <1>2, AddSeparator
  <2> QED BY <1>1, <2>1 DEF Named
<1>3. CASE c \notin Separators
  BY <1>1, <1>3, AddPlain DEF Named
<1> QED BY <1>2, <1>3

LEMMA CompleteStep ==
  ASSUME NInv, NEW c \in Chars, Complete(c)
  PROVE  ParseInv' /\ RecognisesSentences' /\ FieldsAreItsOwn'
<1>1. /\ text \in Seq(Chars) /\ Countable(text) /\ text' = Append(text, c) /\ c # "$"
      /\ Countable(text)'
  BY CharStep
<1>2. /\ state > 0 /\ (c = "*" \/ (c = "," /\ state = Dim(kind)))
      /\ state' = -1 /\ done' = kind /\ UNCHANGED <<kind, words>>
  BY DEF Complete
<1>3. /\ kind \in Kinds /\ Begun(kind, text) /\ state = Count(text) /\ state \in 1 .. Dim(kind)
      /\ words[state] = OpenField(text) /\ \A k \in Kinds : Begun(k, text) => k = kind
      /\ Dim(kind) \in Nat
  BY <1>2, InField
<1>4. c \in Separators /\ Count(text) # 0
  <2>1. c \in Separators
    BY <1>2, Zenon DEF Separators
  <2> QED BY <1>2, <2>1, InField
<1>5. \A k \in Kinds : Sentence(k, text') <=> k = kind
  <2>1. c = "*" \/ Count(text) = Dim(kind)
    BY <1>2, <1>3
  <2> QED BY <1>1, <1>3, <1>4, <2>1, SentenceEnds
<1>6. \A k \in Kinds : ~ Begun(k, text')
  <2> SUFFICES ASSUME NEW k \in Kinds, Begun(k, text') PROVE FALSE
    OBVIOUS
  <2>1. Begun(k, text) /\ c = "," /\ Count(text) < Dim(k)
    BY <1>1, <1>4, FieldEnds
  <2>2. state < Dim(kind) /\ state = Dim(kind)
    <3>1. k = kind
      BY <1>3, <2>1
    <3>2. "," # "*"
      OBVIOUS
    <3> QED BY <1>2, <1>3, <2>1, <3>1, <3>2, Zenon
  <2>3. Dim(kind) \in Nat
    BY <1>3
  <2> QED BY <2>2, <2>3
<1>7. NameInv' /\ FieldInv'
  BY <1>1, <1>2, <1>4, <1>6, NotNamed, GiveUp
<1>8. RecognisesSentences'
  BY <1>2, <1>3, <1>5 DEF RecognisesSentences
<1>9. FieldsAreItsOwn'
  <2> SUFFICES ASSUME NEW i \in 1 .. Dim(kind)
               PROVE  words[i] = IF i < Count(text') THEN Field(text', i + 1) ELSE <<>>
    BY <1>2 DEF FieldsAreItsOwn
  <2>1. Count(text') = state + 1
    BY <1>1, <1>3, <1>4, AddSeparator
  <2>2. (i < state => words[i] = Field(text, i + 1)) /\ (i > state => words[i] = <<>>)
    BY <1>2 DEF NInv, ParseInv, FieldInv
  <2>3. CASE i < state
    <3>1. i + 1 \in 1 .. Count(text) /\ i < Count(text')
      BY <1>3, <2>1, <2>3
    <3>2. Field(text', i + 1) = Field(text, i + 1)
      BY <1>1, <3>1, SameFields
    <3> QED BY <2>2, <2>3, <3>1, <3>2
  <2>4. CASE i = state
    <3>1. Field(text', Count(text) + 1) = OpenField(text)
      BY <1>1, <1>4, EndOfField
    <3>2. i < Count(text')
      BY <2>1, <2>4
    <3> QED BY <1>3, <2>4, <3>1, <3>2
  <2>5. CASE i > state
    <3>1. ~ (i < Count(text'))
      BY <1>3, <2>1, <2>5
    <3> QED BY <2>2, <2>5, <3>1
  <2> QED BY <1>3, <2>3, <2>4, <2>5
<1> QED BY <1>1, <1>7, <1>8, <1>9 DEF ParseInv

LEMMA NextFieldStep ==
  ASSUME NInv, NEW c \in Chars, NextField(c)
  PROVE  ParseInv' /\ RecognisesSentences' /\ FieldsAreItsOwn'
<1>1. /\ text \in Seq(Chars) /\ Countable(text) /\ text' = Append(text, c) /\ c # "$"
      /\ Countable(text)'
  BY CharStep
<1>2. /\ state > 0 /\ c = "," /\ state < Dim(kind) /\ state' = state + 1 /\ done' = "none"
      /\ words' = [words EXCEPT ![state + 1] = <<>>] /\ kind' = kind
  BY DEF NextField
<1>3. /\ kind \in Kinds /\ Begun(kind, text) /\ state = Count(text) /\ state \in 1 .. Dim(kind)
      /\ words[state] = OpenField(text) /\ \A k \in Kinds : Begun(k, text) => k = kind
      /\ Dim(kind) \in Nat /\ words \in [1 .. Dim(kind) -> Seq(Plain)]
  BY <1>2, InField
<1>4. c \in Separators /\ Count(text) # 0
  <2>1. c \in Separators
    BY <1>2, Zenon DEF Separators
  <2> QED BY <1>2, <2>1, InField
<1>5. \A k \in Kinds : ~ Sentence(k, text')
  <2> SUFFICES ASSUME NEW k \in Kinds, Sentence(k, text') PROVE FALSE
    OBVIOUS
  <2>1. Begun(k, text) /\ Count(text) = Dim(k)
    BY <1>1, <1>2, SentenceEnds
  <2>2. state < Dim(kind) /\ state = Dim(kind)
    <3>1. k = kind
      BY <1>3, <2>1
    <3> QED BY <1>2, <1>3, <2>1, <3>1, Zenon
  <2>3. Dim(kind) \in Nat
    BY <1>3
  <2> QED BY <2>2, <2>3
<1>6. Begun(kind, text')
  BY <1>1, <1>2, <1>3, <1>4, FieldEnds
<1>7. Count(text') = state + 1 /\ OpenField(text') = <<>>
  BY <1>1, <1>3, <1>4, AddSeparator, EndOfField
<1>8. FieldInv'
  <2>1. state + 1 \in 1 .. Dim(kind) /\ state + 1 > 0
    <3>1. state \in 1 .. Dim(kind) /\ state < Dim(kind) /\ Dim(kind) \in Nat
      BY <1>2, <1>3, Zenon
    <3> QED BY <3>1
  <2>2. words'[state + 1] = <<>> /\ \A i \in 1 .. Dim(kind) : i # state + 1 => words'[i] = words[i]
    BY <1>2, <1>3, <2>1
  <2>3. ASSUME NEW i \in 1 .. Dim(kind)
        PROVE  /\ i < state + 1 => words'[i] = Field(text', i + 1)
               /\ i > state + 1 => words'[i] = <<>>
    <3>1. (i < state => words[i] = Field(text, i + 1)) /\ (i > state => words[i] = <<>>)
      BY <1>2 DEF NInv, ParseInv, FieldInv
    <3>2. CASE i < state
      <4>1. i + 1 \in 1 .. Count(text) /\ i # state + 1 /\ ~ (i > state + 1)
        BY <1>3, <3>2
      <4>2. Field(text', i + 1) = Field(text, i + 1)
        BY <1>1, <4>1, SameFields
      <4> QED BY <2>2, <3>1, <3>2, <4>1, <4>2
    <3>3. CASE i = state
      <4>1. Field(text', Count(text) + 1) = OpenField(text)
        BY <1>1, <1>4, EndOfField
      <4>2. i # state + 1 /\ ~ (i > state + 1)
        BY <1>3, <3>3
      <4> QED BY <1>3, <2>2, <3>3, <4>1, <4>2
    <3>4. CASE i > state
      <4>1. ~ (i < state + 1)
        BY <1>3, <3>4
      <4>2. i > state + 1 => i # state + 1
        BY <1>3
      <4> QED BY <2>2, <3>1, <3>4, <4>1, <4>2
    <3> QED BY <1>3, <3>2, <3>3, <3>4
  <2>4. state' = state + 1 /\ kind' = kind /\ kind \in Kinds
    BY <1>2, <1>3, Zenon
  <2>5. words'[state'] = OpenField(text') /\ state' = Count(text') /\ state' > 0
    BY <1>7, <2>1, <2>2, <2>4, Zenon
  <2> QED BY <1>6, <2>3, <2>4, <2>5, Zenon DEF FieldInv
<1>9. NameInv'
  <2>1. state' # 0
    <3>1. state' = state + 1 /\ state > 0 /\ state \in Int
      BY <1>2, StateType, Zenon
    <3> QED BY <3>1
  <2>2. ~ Named(text')
    BY <1>1, <1>4, NotNamed
  <2> QED BY <2>1, <2>2 DEF NameInv
<1>10. RecognisesSentences' /\ FieldsAreItsOwn'
  BY <1>2, <1>5, Unfinished
<1> QED BY <1>1, <1>8, <1>9, <1>10 DEF ParseInv

\* A plain character in the name, or in a field.
LEMMA PlainStep ==
  ASSUME NInv, NEW c \in Plain, state >= 0, text' = Append(text, c), c \in Chars
  PROVE  /\ c \notin Separators /\ text # <<>> /\ Count(text') = Count(text)
         /\ OpenField(text') = Append(OpenField(text), c)
         /\ \A k \in Kinds : ~ Sentence(k, text')
         /\ state = 0 => /\ Named(text) /\ name = OpenField(text) /\ Len(name) \in Nat
                         /\ \A k \in Kinds : ~ Begun(k, text')
                         /\ Named(text') <=> Len(name) < NameLength
         /\ state > 0 => /\ ~ Named(text')
                         /\ \A k \in Kinds : Begun(k, text') <=>
                              k = kind /\ Len(words[state]) < Lengths[kind][state]
<1>1. text \in Seq(Chars) /\ Countable(text)
  BY DEF NInv, TypeOK, ParseInv
<1>2. c \notin Separators
  BY CharsAssumption DEF Separators
<1>3. text # <<>>
  <2>1. CASE state = 0
    BY <2>1 DEF NInv, ParseInv, NameInv, Named
  <2>2. CASE state > 0
    <3>1. Count(text) # 0
      BY <2>2, InField
    <3> QED BY <1>1, <3>1, FirstStays
  <2>3. state \in Int
    BY StateType
  <2> QED BY <2>1, <2>2, <2>3
<1>4. Count(text') = Count(text) /\ OpenField(text') = Append(OpenField(text), c)
  BY <1>1, <1>2, <1>3, AddPlain, MoreOfField
<1>5. \A k \in Kinds : ~ Sentence(k, text')
  BY <1>1, <1>2, SentenceEnds
<1>6. ASSUME state = 0
      PROVE  /\ Named(text) /\ name = OpenField(text) /\ Len(name) \in Nat
             /\ \A k \in Kinds : ~ Begun(k, text')
             /\ Named(text') <=> Len(name) < NameLength
  <2>1. Named(text) /\ name = OpenField(text)
    BY <1>6 DEF NInv, ParseInv, NameInv
  <2>2. Len(name) \in Nat
    BY StateType
  <2>3. \A k \in Kinds : ~ Begun(k, text')
    BY <1>4, <2>1, LengthsAreNumbers DEF Named, Begun
  <2>4. Named(text') <=> Len(name) < NameLength
    BY <1>1, <1>2, <1>3, <2>1, FieldGrows
  <2> QED BY <2>1, <2>2, <2>3, <2>4
<1>7. ASSUME state > 0
      PROVE  /\ ~ Named(text')
             /\ \A k \in Kinds : Begun(k, text') <=>
                  k = kind /\ Len(words[state]) < Lengths[kind][state]
  <2>1. /\ kind \in Kinds /\ Begun(kind, text) /\ state = Count(text)
        /\ words[state] = OpenField(text) /\ \A k \in Kinds : Begun(k, text) => k = kind
    BY <1>7, InField
  <2>2. Count(text) # 0
    BY <1>7, <2>1
  <2>3. ~ Named(text')
    BY <2>2, NotNamed
  <2>4. \A k \in Kinds : Begun(k, text') <=>
          Begun(k, text) /\ Len(OpenField(text)) < Lengths[k][Count(text)]
    BY <1>1, <1>2, <1>3, FieldGrows
  <2> QED BY <2>1, <2>3, <2>4
<1> QED BY <1>2, <1>3, <1>4, <1>5, <1>6, <1>7

LEMMA AddCharStep ==
  ASSUME NInv, NEW c \in Chars, AddChar(c)
  PROVE  ParseInv' /\ RecognisesSentences' /\ FieldsAreItsOwn'
<1>1. /\ text \in Seq(Chars) /\ Countable(text) /\ text' = Append(text, c)
      /\ Countable(text)'
  BY CharStep
<1>2. c \in Plain /\ state >= 0 /\ Room /\ UNCHANGED <<state, kind>> /\ done' = "none"
  BY DEF AddChar
<1>3. RecognisesSentences' /\ FieldsAreItsOwn'
  BY <1>1, <1>2, PlainStep, Unfinished
<1>4. CASE state = 0
  <2>1. name' = Append(name, c) /\ Len(name) < NameLength
    BY <1>4 DEF AddChar, Room
  <2>2. Named(text') /\ name' = OpenField(text') /\ \A k \in Kinds : ~ Begun(k, text')
    BY <1>1, <1>2, <1>4, <2>1, PlainStep
  <2>3. NameInv' /\ FieldInv'
    BY <1>2, <1>4, <2>2 DEF NameInv, FieldInv
  <2> QED BY <1>1, <1>3, <2>3 DEF ParseInv
<1>5. CASE state > 0
  <2>1. words' = [words EXCEPT ![state] = Append(words[state], c)]
        /\ Len(words[state]) < Lengths[kind][state]
    BY <1>5 DEF AddChar, Room
  <2>2. /\ kind \in Kinds /\ state = Count(text) /\ state \in 1 .. Dim(kind)
        /\ words[state] = OpenField(text) /\ Dim(kind) \in Nat
        /\ words \in [1 .. Dim(kind) -> Seq(Plain)]
    BY <1>5, InField
  <2>3. /\ ~ Named(text') /\ Begun(kind, text') /\ Count(text') = Count(text)
        /\ OpenField(text') = Append(OpenField(text), c)
    BY <1>1, <1>2, <1>5, <2>1, <2>2, PlainStep
  <2>4. words'[state] = OpenField(text') /\ \A i \in 1 .. Dim(kind) : i # state => words'[i] = words[i]
    BY <2>1, <2>2, <2>3
  <2>5. \A i \in 1 .. Dim(kind) : i < state => Field(text', i + 1) = Field(text, i + 1)
    <3> SUFFICES ASSUME NEW i \in 1 .. Dim(kind), i < state
                 PROVE  Field(text', i + 1) = Field(text, i + 1)
      OBVIOUS
    <3>1. i + 1 \in 1 .. Count(text)
      BY <2>2
    <3> QED BY <1>1, <3>1, SameFields
  <2>6. \A i \in 1 .. Dim(kind) :
          (i < state => words[i] = Field(text, i + 1)) /\ (i > state => words[i] = <<>>)
    BY <1>5 DEF NInv, ParseInv, FieldInv
  <2>7. \A i \in 1 .. Dim(kind) :
          (i < state => words'[i] = Field(text', i + 1)) /\ (i > state => words'[i] = <<>>)
    <3>1. \A i \in 1 .. Dim(kind) : i < state \/ i > state => i # state
      BY <2>2
    <3> QED BY <2>4, <2>5, <2>6, <3>1, Zenon
  <2>8. NameInv' /\ FieldInv'
    BY <1>2, <1>5, <2>2, <2>3, <2>4, <2>7 DEF NameInv, FieldInv
  <2> QED BY <1>1, <1>3, <2>8 DEF ParseInv
<1>6. state \in Int
  BY StateType
<1> QED BY <1>2, <1>4, <1>5, <1>6

LEMMA TooLongStep ==
  ASSUME NInv, NEW c \in Chars, TooLong(c)
  PROVE  ParseInv' /\ RecognisesSentences' /\ FieldsAreItsOwn'
<1>1. /\ text \in Seq(Chars) /\ Countable(text) /\ text' = Append(text, c)
      /\ Countable(text)'
  BY CharStep
<1>2. c \in Plain /\ state >= 0 /\ ~ Room /\ state' = -1 /\ done' = "none"
  BY DEF TooLong
<1>3. RecognisesSentences' /\ FieldsAreItsOwn'
  BY <1>1, <1>2, PlainStep, Unfinished
<1>4. ~ Named(text') /\ \A k \in Kinds : ~ Begun(k, text')
  <2>1. CASE state = 0
    BY <1>1, <1>2, <2>1, PlainStep DEF Room
  <2>2. CASE state > 0
    BY <1>1, <1>2, <2>2, PlainStep DEF Room
  <2>3. state \in Int
    BY StateType
  <2> QED BY <1>2, <2>1, <2>2, <2>3
<1> QED BY <1>1, <1>2, <1>3, <1>4, GiveUp DEF ParseInv

LEMMA NextNInv == NInv /\ [Next]_vars => NInv'
<1> SUFFICES ASSUME NInv, [Next]_vars PROVE NInv'
  OBVIOUS
<1>1. ASSUME NEW c \in Chars, gpsparse(c)
      PROVE  NInv'
  <2>1. TypeOK'
    BY <1>1, StepTypeOK DEF NInv
  <2>2. ParseInv' /\ RecognisesSentences' /\ FieldsAreItsOwn'
    BY <1>1, DollarStep, HuntStep, NameEndStep, CompleteStep, NextFieldStep, AddCharStep, TooLongStep
       DEF gpsparse
  <2> QED BY <2>1, <2>2 DEF NInv
<1>2. CASE UNCHANGED vars
  <2>1. TypeOK'
    BY <1>2 DEF NInv, TypeOK, vars
  <2>2. UNCHANGED <<text, state, name, kind, words, done>>
    BY <1>2 DEF vars
  <2> QED BY <2>1, <2>2 DEF NInv, ParseInv, NameInv, FieldInv, RecognisesSentences, FieldsAreItsOwn
<1> QED BY <1>1, <1>2 DEF Next

(* The parser's state, the name and the fields are those of the unfinished  *)
(* sentence that the text is, and it hunts when the text is none            *)
(* (clockGps.c:145-397).                                                    *)
THEOREM ParserInvariant == Spec => []NInv
BY InitNInv, NextNInv, PTL DEF Spec

(* After any noise, an intact sentence is recognised at its last character, *)
(* and nothing else is, for any names, fields and characters                *)
(* (clockGps.c:145-397).                                                    *)
THEOREM SentencesAreRecognised == Spec => []RecognisesSentences
<1>1. NInv => RecognisesSentences
  BY DEF NInv
<1> QED BY <1>1, ParserInvariant, PTL

(* A recognised sentence has its own fields, whatever the one before it had *)
(* left in the buffers (clockGps.c:279-283, 380-389).                       *)
THEOREM SentencesHaveTheirFields == Spec => []FieldsAreItsOwn
<1>1. NInv => FieldsAreItsOwn
  BY DEF NInv
<1> QED BY <1>1, ParserInvariant, PTL

-----------------------------------------------------------------------------
(* The table of SatTable: what is collected is never newer above than below, *)
(* and while no sentence was missed it is the cycle that is coming in, and   *)
(* nothing else.                                                             *)

TableOK ==
  /\ cycle \in Nat \ {0} /\ nMessages \in 1 .. MaxMessages /\ iMessage \in 1 .. nMessages
  /\ localSatRecords \in [Rows -> Nat] /\ satRecords \in [Rows -> Nat]
  /\ missed \in BOOLEAN

NotOlder(t) == \A r \in Filled(t) : t[r] >= t[1]

LocalInv ==
  /\ NotOlder(localSatRecords) /\ \A r \in Rows : localSatRecords[r] <= cycle
  /\ ~ missed /\ iMessage > 1 =>
       \A r \in Rows : localSatRecords[r] = IF r < iMessage THEN cycle ELSE 0

SatInv == TableOK /\ LocalInv /\ NoRowOlderThanFirst /\ WholeCycleIsPublished

\* The table with the row of the sentence that has come in.
LEMMA Collected ==
  ASSUME TableOK, LocalInv, iMessage \in Rows
  PROVE  /\ Collect \in [Rows -> Nat] /\ NotOlder(Collect) /\ \A r \in Rows : Collect[r] <= cycle
         /\ ~ missed => \A r \in Rows : Collect[r] = IF r <= iMessage THEN cycle ELSE 0
<1>1. /\ MaxGSVRecs \in Nat \ {0} /\ 1 \in Rows /\ Rows \subseteq Nat \ {0}
      /\ cycle \in Nat \ {0} /\ iMessage \in Nat \ {0}
      /\ localSatRecords \in [Rows -> Nat]
  BY RowsAssumption DEF TableOK, Rows
<1>2. CASE iMessage = 1
  <2>1. Collect = [r \in Rows |-> IF r = 1 THEN cycle ELSE 0]
    BY <1>1, <1>2 DEF Collect, Empty
  <2> QED BY <1>1, <1>2, <2>1 DEF NotOlder, Filled
<1>3. CASE iMessage # 1
  <2>1. Collect = [localSatRecords EXCEPT ![iMessage] = cycle]
    BY <1>3 DEF Collect
  <2>2. /\ Collect \in [Rows -> Nat] /\ Collect[iMessage] = cycle
        /\ \A r \in Rows : r # iMessage => Collect[r] = localSatRecords[r]
    BY <1>1, <2>1
  <2>3. NotOlder(Collect) /\ \A r \in Rows : Collect[r] <= cycle
    BY <1>1, <1>3, <2>2 DEF LocalInv, NotOlder, Filled
  <2>4. ASSUME ~ missed
        PROVE  \A r \in Rows : Collect[r] = IF r <= iMessage THEN cycle ELSE 0
    <3>1. \A r \in Rows : localSatRecords[r] = IF r < iMessage THEN cycle ELSE 0
      BY <1>1, <1>3, <2>4 DEF LocalInv
    <3> QED BY <1>1, <2>2, <3>1
  <2> QED BY <2>2, <2>3, <2>4
<1> QED BY <1>2, <1>3

\* The receiver goes on; what it sends next is of this cycle, or begins another.
LEMMA Advanced ==
  ASSUME TableOK, Advance
  PROVE  /\ cycle' \in Nat \ {0} /\ nMessages' \in 1 .. MaxMessages /\ iMessage' \in 1 .. nMessages'
         /\ cycle <= cycle'
         /\ iMessage' > 1 => cycle' = cycle /\ iMessage' = iMessage + 1 /\ iMessage # nMessages
BY RowsAssumption DEF TableOK, Advance

\* A sentence that is not collected: the next rows are not of a whole cycle.
LEMMA NotCollected ==
  ASSUME SatInv, Advance, missed' = (iMessage # nMessages),
         UNCHANGED <<localSatRecords, satRecords, whole>>
  PROVE  SatInv'
<1>1. TableOK /\ LocalInv /\ NoRowOlderThanFirst /\ WholeCycleIsPublished
  BY DEF SatInv
<1>2. /\ cycle' \in Nat \ {0} /\ nMessages' \in 1 .. MaxMessages /\ iMessage' \in 1 .. nMessages'
      /\ cycle <= cycle' /\ (iMessage' > 1 => iMessage # nMessages)
  BY <1>1, Advanced
<1>3. TableOK'
  BY <1>1, <1>2 DEF TableOK
<1>4. LocalInv'
  <2>1. \A r \in Rows : localSatRecords'[r] <= cycle'
    BY <1>1, <1>2 DEF TableOK, LocalInv
  <2>2. iMessage' > 1 => missed'
    BY <1>2
  <2>3. NotOlder(localSatRecords')
    BY <1>1 DEF LocalInv
  <2> QED BY <2>1, <2>2, <2>3 DEF LocalInv, NotOlder, Filled
<1>5. NoRowOlderThanFirst' /\ WholeCycleIsPublished'
  BY <1>1 DEF NoRowOlderThanFirst, WholeCycleIsPublished, Filled
<1> QED BY <1>3, <1>4, <1>5 DEF SatInv

LEMMA GotGSVStep ==
  ASSUME SatInv, GotGSV
  PROVE  SatInv'
<1>1. TableOK /\ LocalInv /\ NoRowOlderThanFirst /\ WholeCycleIsPublished
  BY DEF SatInv
<1>2. /\ cycle <= MaxCycle /\ iMessage \in Rows /\ localSatRecords' = Collect /\ Advance
      /\ missed' = (missed /\ iMessage # nMessages)
  BY DEF GotGSV
<1>3. /\ Collect \in [Rows -> Nat] /\ NotOlder(Collect) /\ \A r \in Rows : Collect[r] <= cycle
      /\ ~ missed => \A r \in Rows : Collect[r] = IF r <= iMessage THEN cycle ELSE 0
  BY <1>1, <1>2, Collected
<1>4. /\ cycle' \in Nat \ {0} /\ nMessages' \in 1 .. MaxMessages /\ iMessage' \in 1 .. nMessages'
      /\ cycle <= cycle'
      /\ iMessage' > 1 => cycle' = cycle /\ iMessage' = iMessage + 1 /\ iMessage # nMessages
  BY <1>1, <1>2, Advanced
<1>5. /\ cycle \in Nat \ {0} /\ iMessage \in Nat \ {0} /\ Rows \subseteq Nat
  BY <1>1, <1>2, RowsAssumption DEF TableOK, Rows
<1>6. LocalInv'
  <2>1. \A r \in Rows : localSatRecords'[r] <= cycle'
    BY <1>2, <1>3, <1>4, <1>5
  <2>2. ASSUME ~ missed', iMessage' > 1
        PROVE  \A r \in Rows : localSatRecords'[r] = IF r < iMessage' THEN cycle' ELSE 0
    <3>1. ~ missed /\ cycle' = cycle /\ iMessage' = iMessage + 1
      BY <1>2, <1>4, <2>2
    <3>2. \A r \in Rows : r < iMessage + 1 <=> r <= iMessage
      BY <1>5
    <3> QED BY <1>2, <1>3, <3>1, <3>2
  <2>3. NotOlder(localSatRecords')
    BY <1>2, <1>3
  <2> QED BY <2>1, <2>2, <2>3 DEF LocalInv, NotOlder, Filled
<1>7. CASE iMessage = nMessages
  <2>1. satRecords' = Collect /\ whole' = ~ missed
    BY <1>7 DEF GotGSV
  <2>2. TableOK'
    BY <1>1, <1>2, <1>3, <1>4, <2>1 DEF TableOK
  <2>3. NoRowOlderThanFirst'
    BY <1>3, <2>1 DEF NoRowOlderThanFirst, NotOlder, Filled
  <2>4. WholeCycleIsPublished'
    <3>1. SUFFICES ASSUME ~ missed
                   PROVE  \E c \in 0 .. MaxCycle, n \in 0 .. MaxGSVRecs :
                            Collect = [r \in Rows |-> IF r <= n THEN c ELSE 0]
      BY <2>1 DEF WholeCycleIsPublished
    <3>2. cycle \in 0 .. MaxCycle /\ iMessage \in 0 .. MaxGSVRecs
      BY <1>2, <1>5, RowsAssumption DEF Rows
    <3>3. Collect = [r \in Rows |-> IF r <= iMessage THEN cycle ELSE 0]
      BY <1>3, <3>1
    <3> QED BY <3>2, <3>3
  <2> QED BY <1>6, <2>2, <2>3, <2>4 DEF SatInv
<1>8. CASE iMessage # nMessages
  <2>1. UNCHANGED <<satRecords, whole>>
    BY <1>8 DEF GotGSV
  <2>2. TableOK'
    BY <1>1, <1>2, <1>3, <1>4, <2>1 DEF TableOK
  <2>3. NoRowOlderThanFirst' /\ WholeCycleIsPublished'
    BY <1>1, <2>1 DEF NoRowOlderThanFirst, WholeCycleIsPublished, Filled
  <2> QED BY <1>6, <2>2, <2>3 DEF SatInv
<1> QED BY <1>7, <1>8

(* What is collected and what is published fit together in every state       *)
(* (clockGps.c:285-329).                                                     *)
THEOREM TableInvariant == SatSpec => []SatInv
<1>1. SatInit => SatInv
  <2> SUFFICES ASSUME SatInit PROVE SatInv
    OBVIOUS
  <2>1. /\ cycle = 1 /\ nMessages \in 1 .. MaxMessages /\ iMessage = 1 /\ missed = FALSE
        /\ localSatRecords = [r \in Rows |-> 0] /\ satRecords = [r \in Rows |-> 0]
    BY DEF SatInit, Empty
  <2>2. TableOK
    <3>1. cycle \in Nat \ {0} /\ nMessages \in 1 .. MaxMessages /\ iMessage \in 1 .. nMessages
      BY <2>1, RowsAssumption
    <3>2. localSatRecords \in [Rows -> Nat] /\ satRecords \in [Rows -> Nat] /\ missed \in BOOLEAN
      BY <2>1
    <3> QED BY <3>1, <3>2 DEF TableOK
  <2>3. LocalInv
    BY <2>1 DEF LocalInv, NotOlder, Filled
  <2>4. NoRowOlderThanFirst
    BY <2>1 DEF NoRowOlderThanFirst, Filled
  <2>5. WholeCycleIsPublished
    <3>1. satRecords = [r \in Rows |-> IF r <= 0 THEN 0 ELSE 0] /\ 0 \in 0 .. MaxCycle
          /\ 0 \in 0 .. MaxGSVRecs
      BY <2>1, RowsAssumption
    <3> QED BY <3>1 DEF WholeCycleIsPublished
  <2> QED BY <2>2, <2>3, <2>4, <2>5 DEF SatInv
<1>2. SatInv /\ [SatNext]_satVars => SatInv'
  <2> SUFFICES ASSUME SatInv, [SatNext]_satVars PROVE SatInv'
    OBVIOUS
  <2>1. CASE GotGSV
    BY <2>1, GotGSVStep
  <2>2. CASE IgnoredGSV \/ LostGSV
    BY <2>2, NotCollected DEF IgnoredGSV, LostGSV
  <2>3. CASE emitsats \/ UNCHANGED satVars
    <3>1. UNCHANGED <<cycle, nMessages, iMessage, localSatRecords, satRecords, missed, whole>>
      BY <2>3 DEF emitsats, StartPage, EndPage, FoundRow, ReadText, satVars, receiverVars
    <3> QED BY <3>1 DEF SatInv, TableOK, LocalInv, NotOlder, NoRowOlderThanFirst,
                        WholeCycleIsPublished, Filled
  <2> QED BY <2>1, <2>2, <2>3 DEF SatNext, GPGSV
<1> QED BY <1>1, <1>2, PTL DEF SatSpec

(* Whatever sentences are lost, no published row is older than the first     *)
(* (clockGps.c:311-320).                                                     *)
THEOREM FirstRowIsOldest == SatSpec => []NoRowOlderThanFirst
<1>1. SatInv => NoRowOlderThanFirst
  BY DEF SatInv
<1> QED BY <1>1, TableInvariant, PTL

(* A cycle that came in whole is published as it is                          *)
(* (clockGps.c:295-323).                                                     *)
THEOREM CycleIsWhole == SatSpec => []WholeCycleIsPublished
<1>1. SatInv => WholeCycleIsPublished
  BY DEF SatInv
<1> QED BY <1>1, TableInvariant, PTL

\* Without a loss only the sentences that have no row are missed; the table is then
\* one cycle's, which is over, and all a page has read of it is of no later cycle.
Uniform == \A r \in Rows : satRecords[r] \in {0, satRecords[1]} /\ satRecords[r] < cycle

\* What a page still has to read is empty if this table left a hole in it.
HoleInv ==
  \A i, k \in 1 .. Len(page) :
    i < k /\ page[k] = 0 /\ page[i] # 0 /\ page[i] = satRecords[1] /\ row > 0 =>
      \A r \in Rows : r >= row => satRecords[r] = 0

PageTypeOK ==
  /\ page \in Seq(Nat) /\ row \in Nat /\ col \in Nat
  /\ col > 0 => row \in Rows

\* What no loss leaves of the receiver and of the table.
NoLossInv == (missed => iMessage \notin Rows) /\ whole /\ Uniform

PageInv ==
  /\ PageTypeOK
  /\ ~ lossy =>
       /\ NoLossInv /\ HoleInv
       /\ \A i \in 1 .. Len(page) : page[i] <= satRecords[1]
       /\ PageMovesForward

LEMMA FirstRow == TableOK => 1 \in Rows /\ satRecords[1] \in Nat /\ \A r \in Rows : satRecords[r] \in Nat
BY RowsAssumption DEF Rows, TableOK

LEMMA Texts ==
  ASSUME PageTypeOK
  PROVE  Len(page) \in Nat /\ \A i \in 1 .. Len(page) : page[i] \in Nat
<1>1. \A S, s : s \in Seq(S) => Len(s) \in Nat /\ \A i \in 1 .. Len(s) : s[i] \in S
  OBVIOUS
<1> QED BY <1>1, Zenon DEF PageTypeOK

\* Without a loss, the receiver publishes a later cycle or nothing.
LEMMA ReceiverNoLoss ==
  ASSUME SatInv, ~ lossy, NoLossInv, GPGSV
  PROVE  /\ NoLossInv'
         /\ satRecords' = satRecords \/ satRecords[1] < satRecords'[1]
<1>1. TableOK /\ LocalInv
  BY DEF SatInv
<1>2. Advance
  BY DEF GPGSV, GotGSV, IgnoredGSV, LostGSV, Advance
<1>3. /\ cycle' \in Nat /\ cycle \in Nat /\ cycle <= cycle' /\ nMessages' \in 1 .. MaxMessages
      /\ iMessage' \in 1 .. nMessages'
      /\ iMessage' > 1 => cycle' = cycle /\ iMessage' = iMessage + 1 /\ iMessage # nMessages
  BY <1>1, <1>2, Advanced DEF TableOK
<1>4. missed' => iMessage' \notin Rows
  <2>1. CASE GotGSV
    BY <2>1 DEF GotGSV, NoLossInv
  <2>2. CASE IgnoredGSV
    <3> SUFFICES ASSUME missed' PROVE iMessage' \notin Rows
      OBVIOUS
    <3>1. iMessage \notin Rows /\ iMessage # nMessages
      BY <2>2 DEF IgnoredGSV
    <3>2. iMessage' = iMessage + 1
      BY <1>1, <1>2, <3>1 DEF Advance, TableOK
    <3> QED BY <1>1, <3>1, <3>2, RowsAssumption DEF TableOK, Rows
  <2> QED BY <2>1, <2>2 DEF GPGSV, LostGSV
<1>5. CASE satRecords' = satRecords
  <2>1. Uniform'
    BY <1>1, <1>3, <1>5, FirstRow DEF Uniform, NoLossInv
  <2>2. whole'
    BY DEF NoLossInv, GPGSV, GotGSV, IgnoredGSV, LostGSV
  <2> QED BY <1>4, <1>5, <2>1, <2>2 DEF NoLossInv
<1>6. CASE satRecords' # satRecords
  <2>1. /\ satRecords' = Collect /\ iMessage \in Rows /\ iMessage = nMessages
        /\ whole' = ~ missed
    BY <1>6 DEF GPGSV, GotGSV, IgnoredGSV, LostGSV
  <2>2. ~ missed
    BY <2>1 DEF NoLossInv
  <2>3. \A r \in Rows : Collect[r] = IF r <= iMessage THEN cycle ELSE 0
    BY <1>1, <2>1, <2>2, Collected
  <2>4. 1 \in Rows /\ 1 <= iMessage /\ satRecords'[1] = cycle
    BY <2>1, <2>3, RowsAssumption DEF Rows
  <2>5. cycle' = cycle + 1
    BY <1>1, <1>2, <2>1 DEF Advance, TableOK
  <2>6. cycle \in Nat /\ 0 < cycle + 1 /\ cycle < cycle + 1
    BY <1>3
  <2>7. Uniform'
    BY <2>1, <2>3, <2>4, <2>5, <2>6 DEF Uniform
  <2>8. satRecords[1] < satRecords'[1]
    BY <2>4 DEF Uniform, NoLossInv
  <2> QED BY <1>4, <2>1, <2>2, <2>7, <2>8 DEF NoLossInv
<1> QED BY <1>5, <1>6

\* The receiver's steps leave the page, and publish only a later cycle.
LEMMA ReceiverPage ==
  ASSUME SatInv, PageInv, GPGSV
  PROVE  PageInv'
<1>1. UNCHANGED <<lossy, row, col, page>>
  BY DEF GPGSV, GotGSV, IgnoredGSV, LostGSV, pageVars, Advance
<1>2. PageTypeOK'
  BY <1>1 DEF PageInv, PageTypeOK
<1>3. CASE lossy
  BY <1>1, <1>2, <1>3 DEF PageInv
<1>4. CASE ~ lossy
  <2>1. NoLossInv' /\ (satRecords' = satRecords \/ satRecords[1] < satRecords'[1])
    BY <1>4, ReceiverNoLoss DEF PageInv
  <2>2. /\ HoleInv /\ \A i \in 1 .. Len(page) : page[i] <= satRecords[1]
        /\ \A i \in 1 .. Len(page) : page[i] \in Nat
    BY <1>4, Texts DEF PageInv
  <2>3. PageMovesForward'
    BY <1>1, <1>4 DEF PageInv, PageMovesForward
  <2>4. satRecords[1] \in Nat /\ satRecords'[1] \in Nat
    <3>1. TableOK /\ TableOK'
      <4>1. SatInv'
        BY GotGSVStep, NotCollected DEF GPGSV, IgnoredGSV, LostGSV
      <4> QED BY <4>1 DEF SatInv
    <3>2. satRecords'[1] \in Nat
      BY <3>1, RowsAssumption DEF TableOK, Rows
    <3> QED BY <3>1, <3>2, FirstRow
  <2>5. CASE satRecords' = satRecords
    BY <1>1, <1>2, <2>1, <2>2, <2>3, <2>5 DEF PageInv, HoleInv
  <2>6. CASE satRecords[1] < satRecords'[1]
    <3>1. \A i \in 1 .. Len(page) : page[i] <= satRecords'[1] /\ page[i] # satRecords'[1]
      BY <2>2, <2>4, <2>6
    <3>2. HoleInv'
      BY <1>1, <3>1 DEF HoleInv
    <3> QED BY <1>1, <1>2, <2>1, <2>3, <3>1, <3>2 DEF PageInv
  <2> QED BY <2>1, <2>5, <2>6
<1> QED BY <1>3, <1>4

LEMMA ReadTextPage ==
  ASSUME SatInv, PageInv, ReadText
  PROVE  PageInv'
<1> DEFINE last == satRecords[row]
           n == Len(page)
<1>1. /\ TableOK /\ col \in Nat /\ row \in Rows /\ last \in Nat /\ page \in Seq(Nat)
      /\ row \in Nat /\ row > 0 /\ Rows \subseteq Nat
  BY FirstRow, RowsAssumption DEF SatInv, PageInv, PageTypeOK, ReadText, Rows
<1>2. /\ page' = Append(page, last)
      /\ UNCHANGED <<lossy, cycle, nMessages, iMessage, satRecords, missed, whole>>
      /\ (col' = col + 1 /\ row' = row) \/ (col' = 0 /\ row' = row + 1)
  BY DEF ReadText, receiverVars
<1>3. PageTypeOK'
  BY <1>1, <1>2 DEF PageTypeOK
<1> HIDE DEF last
<1>4. /\ Len(page') = n + 1 /\ n \in Nat /\ page'[n + 1] = last
      /\ \A i \in 1 .. n : page'[i] = page[i] /\ page[i] \in Nat
  BY <1>1, <1>2
<1>5. \A i \in 1 .. Len(page') : i \in 1 .. n \/ i = n + 1
  BY <1>4
<1>6. ASSUME ~ lossy
      PROVE  /\ NoLossInv' /\ HoleInv' /\ PageMovesForward'
             /\ \A i \in 1 .. Len(page') : page'[i] <= satRecords[1]
  <2>1. /\ Uniform /\ satRecords[1] \in Nat /\ whole
        /\ \A i \in 1 .. n : page[i] <= satRecords[1]
        /\ \A i, k \in 1 .. n : i < k /\ page[k] = 0 /\ page[i] # 0 /\ page[i] = satRecords[1] =>
              \A r \in Rows : r >= row => satRecords[r] = 0
        /\ \A i, j \in 1 .. n : i < j /\ page[i] # 0 /\ page[j] # 0 =>
              /\ page[i] <= page[j]
              /\ (\E k \in i .. j : page[k] = 0) => page[i] < page[j]
    BY <1>1, <1>6, FirstRow DEF PageInv, NoLossInv, HoleInv, PageMovesForward
  <2>2. last = 0 \/ last = satRecords[1]
    BY <1>1, <2>1 DEF Uniform, last
  <2>3. NoLossInv'
    BY <1>2, <1>6 DEF PageInv, NoLossInv, Uniform
  <2>4. \A i \in 1 .. Len(page') : page'[i] <= satRecords[1]
    BY <1>4, <1>5, <2>1, <2>2
  <2>5. last = 0 => \A r \in Rows : r >= row => satRecords[r] = 0
    <3>1. WholeCycleIsPublished
      BY DEF SatInv
    <3>2. PICK c \in 0 .. MaxCycle, m \in 0 .. MaxGSVRecs :
            satRecords = [r \in Rows |-> IF r <= m THEN c ELSE 0]
      BY <2>1, <3>1 DEF WholeCycleIsPublished
    <3>3. last = IF row <= m THEN c ELSE 0
      BY <1>1, <3>2 DEF last
    <3> QED BY <1>1, <3>2, <3>3, RowsAssumption
  <2>6. HoleInv'
    <3> SUFFICES ASSUME NEW i \in 1 .. Len(page'), NEW k \in 1 .. Len(page'), i < k,
                        page'[k] = 0, page'[i] # 0, page'[i] = satRecords[1],
                        NEW r \in Rows, r >= row'
                 PROVE  satRecords[r] = 0
      BY <1>2 DEF HoleInv
    <3>1. i \in 1 .. n /\ page'[i] = page[i] /\ r >= row
      BY <1>1, <1>2, <1>4, <1>5
    <3>2. CASE k \in 1 .. n
      BY <1>4, <2>1, <3>1, <3>2
    <3>3. CASE k = n + 1
      BY <1>4, <2>5, <3>1, <3>3
    <3> QED BY <1>5, <3>2, <3>3
  <2>7. PageMovesForward'
    <3> SUFFICES ASSUME NEW i \in 1 .. Len(page'), NEW j \in 1 .. Len(page'), i < j,
                        page'[i] # 0, page'[j] # 0
                 PROVE  /\ page'[i] <= page'[j]
                        /\ (\E k \in i .. j : page'[k] = 0) => page'[i] < page'[j]
      BY DEF PageMovesForward
    <3>1. i \in 1 .. n /\ page'[i] = page[i]
      BY <1>4, <1>5
    <3>2. CASE j \in 1 .. n
      <4>1. \A k \in i .. j : k \in 1 .. n /\ page'[k] = page[k]
        BY <1>4, <3>1, <3>2
      <4> QED BY <1>4, <2>1, <3>1, <3>2, <4>1
    <3>3. CASE j = n + 1
      <4>1. page'[j] = satRecords[1] /\ last # 0
        BY <1>4, <2>2, <3>3
      <4>2. ASSUME NEW k \in i .. j, page'[k] = 0
            PROVE  page[i] # satRecords[1]
        <5>1. k \in 1 .. n /\ i < k /\ page[k] = 0
          BY <1>4, <3>1, <3>3, <4>1, <4>2
        <5>2. last = satRecords[row]
          BY DEF last
        <5> QED BY <1>1, <2>1, <3>1, <4>1, <5>1, <5>2
      <4>3. page[i] <= satRecords[1] /\ page[i] \in Nat
        BY <1>4, <2>1, <3>1
      <4> QED BY <2>1, <3>1, <4>1, <4>2, <4>3
    <3> QED BY <1>5, <3>2, <3>3
  <2> QED BY <2>3, <2>4, <2>6, <2>7
<1> QED BY <1>2, <1>3, <1>6 DEF PageInv

(* While no sentence is lost, a page only ever goes on to the same cycle or  *)
(* a later one, and to a later one after a hole, wherever the receiver's     *)
(* task cuts into it, between looking for a row and reading it included      *)
(* (clockServer.c:549-557).                                                  *)
THEOREM PageGoesForward == SatSpec => []PageMovesForward
<1>1. SatInit => PageInv
  <2> SUFFICES ASSUME SatInit PROVE PageInv
    OBVIOUS
  <2>1. page = <<>> /\ col = 0 /\ row = 0 /\ missed = FALSE /\ cycle = 1 /\ whole
    BY DEF SatInit
  <2>2. \A r \in Rows : satRecords[r] = 0
    BY DEF SatInit, Empty
  <2>3. page \in Seq(Nat) /\ \A i \in 1 .. Len(page) : FALSE
    BY <2>1
  <2>4. 1 \in Rows
    BY RowsAssumption DEF Rows
  <2>5. NoLossInv
    BY <2>1, <2>2, <2>4 DEF NoLossInv, Uniform
  <2> QED BY <2>1, <2>3, <2>5 DEF PageInv, PageTypeOK, HoleInv, PageMovesForward
<1>2. SatInv /\ PageInv /\ [SatNext]_satVars => PageInv'
  <2> SUFFICES ASSUME SatInv, PageInv, [SatNext]_satVars PROVE PageInv'
    OBVIOUS
  <2>1. CASE GPGSV
    BY <2>1, ReceiverPage
  <2>2. CASE ReadText
    BY <2>2, ReadTextPage
  <2>3. CASE StartPage
    <3>1. /\ page' = <<>> /\ col' = 0 /\ row' = 1
          /\ UNCHANGED <<lossy, cycle, iMessage, satRecords, missed, whole>>
      BY <2>3 DEF StartPage, receiverVars
    <3>2. page' \in Seq(Nat) /\ \A i \in 1 .. Len(page') : FALSE
      BY <3>1
    <3> QED BY <3>1, <3>2
            DEF PageInv, PageTypeOK, NoLossInv, HoleInv, Uniform, PageMovesForward
  <2>4. CASE EndPage \/ FoundRow \/ UNCHANGED satVars
    <3>1. /\ UNCHANGED <<page, lossy, cycle, iMessage, satRecords, missed, whole>>
          /\ (row' = 0 /\ col' = 0) \/ (row' = row /\ col' = col)
             \/ (row' = row /\ row \in Rows /\ col' = 1)
      BY <2>4 DEF EndPage, FoundRow, receiverVars, satVars, pageVars
    <3>2. PageTypeOK' /\ (row' > 0 => row' = row)
      BY <3>1 DEF PageInv, PageTypeOK
    <3> QED BY <3>1, <3>2 DEF PageInv, NoLossInv, HoleInv, Uniform, PageMovesForward
  <2> QED BY <2>1, <2>2, <2>3, <2>4 DEF SatNext, emitsats
<1>3. PageInv => PageMovesForward
  BY DEF PageInv, PageMovesForward
<1> QED BY <1>1, <1>2, <1>3, TableInvariant, PTL DEF SatSpec
=============================================================================
