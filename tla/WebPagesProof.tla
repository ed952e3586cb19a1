---------------------------- MODULE WebPagesProof ----------------------------
(* The pages of the web server: the response buffer of RespBuffer for every  *)
(* size of buffer and of texts, and the setup page's forms for all texts and *)
(* passwords.  TypeOK and NothingIsLost are inductive together.              *)
EXTENDS RespBuffer, SetupPage, DataInduction, SequenceTheorems, TLAPS

Inv == TypeOK /\ NothingIsLost

LEMMA Regroup ==
  \A a, b, c \in Seq(Texts) : a \o (b \o c) = (a \o b) \o c
<1> TAKE a, b, c \in Seq(Texts)
<1>1. (a \o b) \o c = a \o (b \o c)
  BY ConcatAssociative
<1> QED BY <1>1, Zenon

LEMMA ContentIsSeq ==
  ASSUME NEW t \in Texts
  PROVE  /\ SizeOf[t] \in Nat /\ Content(t) \in Seq(Texts)
         /\ Content(t) = <<>> <=> SizeOf[t] = 0
BY SizesAssumption DEF Content

\* What a page under way looks like.
LEMMA Serving ==
  ASSUME Inv, serving = TRUE
  PROVE  client = [got |-> client.got, ended |-> FALSE]
<1>1. client.ended = FALSE
  BY Zenon DEF Inv, TypeOK, NothingIsLost
<1>2. client \in [got : Seq(Texts), ended : BOOLEAN]
  BY DEF Inv, TypeOK
<1> QED BY <1>1, <1>2

LEMMA Chunks ==
  ASSUME NEW g, NEW s, NEW n \in Nat
  PROVE  /\ Chunk([got |-> g, ended |-> FALSE], s, 0) = [got |-> g, ended |-> TRUE]
         /\ n > 0 => Chunk([got |-> g, ended |-> FALSE], s, n)
                       = [got |-> g \o s, ended |-> FALSE]
BY DEF Chunk

\* A flush gives the browser the buffer, whether or not there was any.
LEMMA FlushDelivers ==
  ASSUME Inv, serving = TRUE
  PROVE  Flush(client) = [got |-> written, ended |-> FALSE]
<1>2. client = [got |-> client.got, ended |-> FALSE]
  BY Serving
<1>3. client.got \in Seq(Texts) /\ buffer \in Seq(Texts) /\ strlen \in Nat
  BY SizesAssumption DEF Inv, TypeOK
<1>4. CASE strlen > 0
  <2>1. Flush(client) = Chunk([got |-> client.got, ended |-> FALSE], buffer, strlen)
    BY <1>2, <1>4 DEF Flush
  <2>2. @ = [got |-> client.got \o buffer, ended |-> FALSE]
    BY <1>3, <1>4, Chunks
  <2> QED BY <2>1, <2>2 DEF Inv, NothingIsLost
<1>5. CASE strlen = 0
  <2>1. Flush(client) = client
    BY <1>5 DEF Flush
  <2>2. buffer = <<>>
    BY <1>5 DEF Inv, NothingIsLost
  <2>3. client.got = written
    BY <1>3, <2>2, ConcatEmptySeq DEF Inv, NothingIsLost
  <2> QED BY <2>1, <2>3, <1>2
<1> QED BY <1>3, <1>4, <1>5

-----------------------------------------------------------------------------
(* One lemma for each way a step may end: the page goes on with other texts  *)
(* in the buffer, or it is over.                                             *)

\* What makes the invariant, for a page that is being written.
LEMMA PageGoesOn ==
  ASSUME serving' = TRUE, allocated' \in BOOLEAN,
         NEW g \in Seq(Texts), client' = [got |-> g, ended |-> FALSE],
         buffer' \in Seq(Texts), written' = g \o buffer',
         strlen' \in 0 .. bufsiz - 1, strlen' = 0 <=> buffer' = <<>>,
         strlen' > 0 => allocated' = TRUE
  PROVE  Inv'
<1>1. client'.got = g /\ client'.ended = FALSE
  OBVIOUS
<1>2. client' \in [got : Seq(Texts), ended : BOOLEAN]
  OBVIOUS
<1>3. written' \in Seq(Texts)
  BY ConcatProperties
<1>4. TypeOK'
  BY <1>2, <1>3 DEF TypeOK
<1>5. NothingIsLost'
  BY <1>1 DEF NothingIsLost
<1> QED BY <1>4, <1>5 DEF Inv

LEMMA EmitTextKeepsInv ==
  ASSUME Inv, NEW t \in Texts, EmitText(t)
  PROVE  Inv'
<1>1. /\ serving = TRUE /\ serving' = TRUE /\ allocated' = TRUE
      /\ written' = written \o Content(t)
  BY DEF EmitText
<1>2. /\ client.got \in Seq(Texts) /\ buffer \in Seq(Texts) /\ written \in Seq(Texts)
      /\ strlen \in 0 .. bufsiz - 1 /\ (strlen = 0 <=> buffer = <<>>)
      /\ client.got \o buffer = written
  BY DEF Inv, TypeOK, NothingIsLost
<1>3. bufsiz \in Nat \ {0}
  BY SizesAssumption
<1>4. /\ SizeOf[t] \in Nat /\ Content(t) \in Seq(Texts)
      /\ Content(t) = <<>> <=> SizeOf[t] = 0
  BY ContentIsSeq
<1>5. CASE AppendText(t)
  <2>1. /\ buffer' = buffer \o Content(t) /\ strlen' = strlen + SizeOf[t]
        /\ client' = client /\ strlen + SizeOf[t] <= bufsiz - 1
    BY <1>5 DEF AppendText, Fits
  <2>2. client' = [got |-> client.got, ended |-> FALSE]
    BY <1>1, <2>1, Serving
  <2>3. written' = client.got \o buffer'
    <3>1. client.got \o (buffer \o Content(t)) = (client.got \o buffer) \o Content(t)
      BY <1>2, <1>4, Regroup, ZenonT(40)
    <3>2. client.got \o buffer' = written \o Content(t)
      BY <1>2, <2>1, <3>1, Zenon
    <3> QED BY <1>1, <3>2, Zenon
  <2>4. buffer' \in Seq(Texts)
    BY <1>2, <1>4, <2>1, ConcatProperties
  <2>5. strlen' \in 0 .. bufsiz - 1
    BY <1>2, <1>3, <1>4, <2>1
  <2>6. strlen' = 0 <=> strlen = 0 /\ SizeOf[t] = 0
    BY <1>2, <1>3, <1>4, <2>1
  <2>7. buffer' = <<>> <=> buffer = <<>> /\ Content(t) = <<>>
    BY <1>2, <1>4, <2>1, ConcatEqualIffEmpty
  <2>8. strlen' = 0 <=> buffer' = <<>>
    BY <1>2, <1>4, <2>6, <2>7
  <2> QED BY <1>1, <1>2, <2>2, <2>3, <2>4, <2>5, <2>8, PageGoesOn
<1>6. CASE FlushAndSend(t)
  <2>1. /\ client' = Chunk([got |-> written, ended |-> FALSE], <<t>>, SizeOf[t])
        /\ buffer' = <<>> /\ strlen' = 0
    BY <1>1, <1>6, FlushDelivers DEF FlushAndSend
  <2>2. SizeOf[t] > 0
    BY <1>3, <1>4, <1>6 DEF FlushAndSend, Fits
  <2>3. Content(t) = <<t>>
    BY <2>2 DEF Content
  <2>4. client' = [got |-> written', ended |-> FALSE]
    BY <1>1, <1>4, <2>1, <2>2, <2>3, Chunks
  <2>5. written' \in Seq(Texts)
    BY <1>1, <1>2, <1>4, ConcatProperties
  <2>6. written' = written' \o buffer'
    BY <2>1, <2>5, ConcatEmptySeq
  <2>7. buffer' \in Seq(Texts) /\ strlen' \in 0 .. bufsiz - 1
    BY <1>3, <2>1
  <2> QED BY <1>1, <2>1, <2>4, <2>5, <2>6, <2>7, PageGoesOn
<1>7. CASE FlushAndKeep(t)
  <2>1. /\ client' = [got |-> written, ended |-> FALSE]
        /\ buffer' = Content(t) /\ strlen' = SizeOf[t] /\ SizeOf[t] <= bufsiz - 1
    BY <1>1, <1>7, FlushDelivers DEF FlushAndKeep, Fits
  <2>2. strlen' \in 0 .. bufsiz - 1
    BY <1>3, <1>4, <2>1
  <2>3. /\ buffer' \in Seq(Texts) /\ written' = written \o buffer'
        /\ (strlen' = 0 <=> buffer' = <<>>)
    BY <1>1, <1>4, <2>1
  <2> QED BY <1>1, <1>2, <2>1, <2>2, <2>3, PageGoesOn
<1> QED BY <1>5, <1>6, <1>7 DEF EmitText

LEMMA EmitFileKeepsInv ==
  ASSUME Inv, NEW t \in Texts, EmitFile(t)
  PROVE  Inv'
<1>1. /\ serving = TRUE /\ serving' = TRUE /\ allocated' = allocated
      /\ written' = written \o <<t>> /\ buffer' = <<>> /\ strlen' = 0
      /\ client' = Chunk(Flush(client), <<t>>, SizeOf[t]) /\ SizeOf[t] > 0
  BY DEF EmitFile
<1>2. /\ written \in Seq(Texts) /\ allocated' \in BOOLEAN /\ SizeOf[t] \in Nat
      /\ bufsiz \in Nat \ {0} /\ <<t>> \in Seq(Texts)
  BY <1>1, SizesAssumption DEF Inv, TypeOK
<1>3. client' = [got |-> written', ended |-> FALSE]
  BY <1>1, <1>2, FlushDelivers, Chunks
<1>4. written' \in Seq(Texts)
  BY <1>1, <1>2, ConcatProperties
<1>5. written' = written' \o buffer'
  BY <1>1, <1>4, ConcatEmptySeq
<1>6. buffer' \in Seq(Texts) /\ strlen' \in 0 .. bufsiz - 1 /\ ~(strlen' > 0)
  BY <1>1, <1>2
<1> QED BY <1>1, <1>2, <1>3, <1>4, <1>5, <1>6, PageGoesOn

\* What makes the invariant when no page is being written.
LEMMA PageIsOver ==
  ASSUME serving' = FALSE, allocated' = FALSE,
         NEW g \in Seq(Texts), client' = [got |-> g, ended |-> TRUE],
         buffer' = <<>>, written' = g, strlen' = 0
  PROVE  Inv'
<1>1. client'.got = g /\ client'.ended = TRUE
  OBVIOUS
<1>2. client' \in [got : Seq(Texts), ended : BOOLEAN] /\ strlen' \in 0 .. bufsiz - 1
  BY SizesAssumption
<1>3. TypeOK'
  <2>1. ~(strlen' > 0) /\ FALSE \in BOOLEAN /\ <<>> \in Seq(Texts)
    OBVIOUS
  <2> QED BY <1>2, <2>1, Zenon DEF TypeOK
<1>4. g \o <<>> = g
  BY ConcatEmptySeq
<1>5. NothingIsLost'
  BY <1>1, <1>4 DEF NothingIsLost
<1> QED BY <1>3, <1>5 DEF Inv

(* The two parts of Inv hold in every state: strcat has room, and the page   *)
(* is always what the browser has and the buffer holds                       *)
(* (clockHtml.c:34-106).                                                     *)
THEOREM InductiveInvariant == Spec => []Inv
<1>1. Init => Inv
  <2> SUFFICES ASSUME Init PROVE Inv
    OBVIOUS
  <2>1. client.got = <<>> /\ client.ended = TRUE /\ <<>> \o <<>> = <<>>
    BY DEF Init
  <2>2. TypeOK
    <3>1. strlen \in 0 .. bufsiz - 1 /\ ~(strlen > 0)
      BY SizesAssumption DEF Init
    <3>2. <<>> \in Seq(Texts) /\ client \in [got : Seq(Texts), ended : BOOLEAN]
      BY DEF Init
    <3>3. serving \in BOOLEAN /\ allocated \in BOOLEAN /\ written = <<>> /\ buffer = <<>>
      BY Zenon DEF Init
    <3> QED BY <3>1, <3>2, <3>3, Zenon DEF TypeOK
  <2>3. NothingIsLost
    BY <2>1 DEF Init, NothingIsLost
  <2> QED BY <2>2, <2>3 DEF Inv
<1>2. Inv /\ [Next]_vars => Inv'
  <2> SUFFICES ASSUME Inv, [Next]_vars PROVE Inv'
    OBVIOUS
  <2>1. CASE BeginPage
    <3>1. serving = FALSE /\ serving' = TRUE /\ UNCHANGED <<allocated, buffer, strlen>>
          /\ client' = [got |-> <<>>, ended |-> FALSE] /\ written' = <<>>
      BY <2>1 DEF BeginPage
    <3>2. /\ buffer = <<>> /\ (strlen = 0 <=> buffer = <<>>) /\ allocated \in BOOLEAN
          /\ strlen \in 0 .. bufsiz - 1
      BY <3>1 DEF Inv, TypeOK, NothingIsLost
    <3>3. <<>> \in Seq(Texts) /\ <<>> \o buffer' = <<>> /\ strlen = 0
      BY <3>1, <3>2
    <3>4. allocated' \in BOOLEAN /\ ~(strlen' > 0)
      BY <3>1, <3>2, <3>3
    <3> QED BY <3>1, <3>2, <3>3, <3>4, PageGoesOn
  <2>2. CASE EmitNull
    <3>1. /\ serving = TRUE /\ serving' = FALSE /\ allocated' = FALSE /\ written' = written
          /\ buffer' = <<>> /\ strlen' = 0 /\ client' = Chunk(Flush(client), <<>>, 0)
      BY <2>2 DEF EmitNull
    <3>2. client' = [got |-> written, ended |-> TRUE]
      BY <3>1, FlushDelivers, Chunks
    <3> QED BY <3>1, <3>2, PageIsOver DEF Inv, TypeOK
  <2>3. CASE \E t \in Texts : EmitText(t) \/ EmitFile(t)
    BY <2>3, EmitTextKeepsInv, EmitFileKeepsInv
  <2>4. CASE UNCHANGED vars
    BY <2>4 DEF vars, Inv, TypeOK, NothingIsLost
  <2> QED BY <2>1, <2>2, <2>3, <2>4 DEF Next
<1> QED BY <1>1, <1>2, PTL DEF Spec

(* The buffer is never written past its end (clockHtml.c:46-62).             *)
THEOREM BufferNeverOverflows == Spec => []TypeOK
<1>1. Inv => TypeOK
  BY DEF Inv
<1> QED BY <1>1, InductiveInvariant, PTL

(* Nothing of a page is lost, reordered or left for the next page            *)
(* (clockHtml.c:34-106).                                                     *)
THEOREM PageIsWhole == Spec => []NothingIsLost
<1>1. Inv => NothingIsLost
  BY DEF Inv
<1> QED BY <1>1, InductiveInvariant, PTL

-----------------------------------------------------------------------------
(* The refinement.                                                           *)

LEMMA PrefixOfConcat ==
  \A a, b \in Seq(Texts) : Stream!Prefix(a, a \o b) /\ Stream!Prefix(a, a)
<1> TAKE a, b \in Seq(Texts)
<1> QED BY ConcatProperties DEF Stream!Prefix

\* What a step delivers when the page goes on: nothing, the buffer, or all.
LEMMA DeliveryIsWrite ==
  ASSUME Inv, Inv', NEW t \in Texts, serving = TRUE, serving' = TRUE,
         written' = written \o <<t>>,
         \/ client'.got = client.got
         \/ client'.got = written
         \/ client'.got = written'
  PROVE  Stream!Write(t)
<1>1. /\ client.got \in Seq(Texts) /\ buffer \in Seq(Texts) /\ written \in Seq(Texts)
      /\ client.got \o buffer = written
  BY DEF Inv, TypeOK, NothingIsLost
<1>2. /\ client'.got \in Seq(Texts) /\ buffer' \in Seq(Texts)
      /\ client'.got \o buffer' = written'
  BY DEF Inv, TypeOK, NothingIsLost
<1>3. Stream!Prefix(client.got, client'.got)
  <2>1. CASE client'.got = client.got
    BY <1>1, <2>1, PrefixOfConcat, Zenon
  <2>2. CASE client'.got = written
    BY <1>1, <2>2, PrefixOfConcat, Zenon
  <2>3. CASE client'.got = written'
    <3>1. <<t>> \in Seq(Texts) /\ buffer \o <<t>> \in Seq(Texts)
      BY <1>1, ConcatProperties
    <3>2. written' = client.got \o (buffer \o <<t>>)
      BY <1>1, <3>1, Regroup, ZenonT(40)
    <3>3. Stream!Prefix(client.got, client.got \o (buffer \o <<t>>))
      BY <1>1, <3>1, PrefixOfConcat, Zenon
    <3> QED BY <2>3, <3>2, <3>3, Zenon
  <2> QED BY <2>1, <2>2, <2>3
<1>4. Stream!Prefix(client'.got, written')
  BY <1>2, PrefixOfConcat, Zenon
<1>5. written' = Append(written, t)
  BY <1>1, AppendIsConcat
<1>6. ((serving = FALSE) = FALSE) /\ ((serving = FALSE)' = (serving = FALSE))
  BY Zenon
<1> QED BY <1>3, <1>4, <1>5, <1>6, Zenon DEF Stream!Write

LEMMA EmitTextImplementsWrite ==
  ASSUME Inv, Inv', NEW t \in Texts, EmitText(t)
  PROVE  Stream!Write(t) \/ UNCHANGED Stream!vars
<1>1. /\ serving = TRUE /\ serving' = TRUE /\ written' = written \o Content(t)
  BY DEF EmitText
<1>2. /\ written \in Seq(Texts) /\ strlen \in 0 .. bufsiz - 1
      /\ bufsiz \in Nat \ {0} /\ SizeOf[t] \in Nat
  BY SizesAssumption DEF Inv, TypeOK
<1>3. CASE SizeOf[t] = 0
  <2>1. AppendText(t)
    BY <1>2, <1>3 DEF EmitText, FlushAndSend, FlushAndKeep, Fits
  <2>2. client' = client
    BY <2>1 DEF AppendText
  <2>3. written' = written
    BY <1>1, <1>2, <1>3, ConcatEmptySeq DEF Content
  <2> QED BY <1>1, <2>2, <2>3, Zenon DEF Stream!vars
<1>4. CASE SizeOf[t] > 0
  <2>1. Content(t) = <<t>>
    BY <1>4 DEF Content
  <2>2. CASE AppendText(t)
    BY <1>1, <2>1, <2>2, DeliveryIsWrite DEF AppendText
  <2>3. CASE FlushAndSend(t)
    <3>1. client' = Chunk([got |-> written, ended |-> FALSE], <<t>>, SizeOf[t])
      BY <1>1, <2>3, FlushDelivers DEF FlushAndSend
    <3>2. client' = [got |-> written', ended |-> FALSE]
      BY <1>1, <1>2, <1>4, <2>1, <3>1, Chunks
    <3> QED BY <1>1, <2>1, <3>2, DeliveryIsWrite
  <2>4. CASE FlushAndKeep(t)
    <3>1. client' = [got |-> written, ended |-> FALSE]
      BY <1>1, <2>4, FlushDelivers DEF FlushAndKeep
    <3> QED BY <1>1, <2>1, <3>1, DeliveryIsWrite
  <2> QED BY <2>2, <2>3, <2>4 DEF EmitText
<1> QED BY <1>2, <1>3, <1>4

LEMMA EmitFileImplementsWrite ==
  ASSUME Inv, Inv', NEW t \in Texts, EmitFile(t)
  PROVE  Stream!Write(t)
<1>1. /\ serving = TRUE /\ serving' = TRUE /\ written' = written \o <<t>>
      /\ client' = Chunk(Flush(client), <<t>>, SizeOf[t]) /\ SizeOf[t] > 0
      /\ SizeOf[t] \in Nat
  BY SizesAssumption DEF EmitFile
<1>2. client' = [got |-> written', ended |-> FALSE]
  BY <1>1, FlushDelivers, Chunks
<1> QED BY <1>1, <1>2, DeliveryIsWrite

(* A handler may ignore the buffer: what it emits reaches the browser as     *)
(* ResponseStream says, whatever the sizes (clockHtml.c:34-106).             *)
THEOREM BufferImplementsStream == Spec => ImplementsStream
<1>1. Init => Stream!Init
  <2> SUFFICES ASSUME Init PROVE Stream!Init
    OBVIOUS
  <2>1. written = <<>> /\ client.got = <<>> /\ serving = FALSE
    BY DEF Init
  <2>2. (serving = FALSE) = TRUE
    BY <2>1, Zenon
  <2> QED BY <2>1, <2>2, Zenon DEF Stream!Init
<1>2. Inv /\ Inv' /\ [Next]_vars => [Stream!Next]_Stream!vars
  <2> SUFFICES ASSUME Inv, Inv', [Next]_vars PROVE Stream!Next \/ UNCHANGED Stream!vars
    BY Zenon
  <2>1. CASE BeginPage
    <3>1. /\ serving = FALSE /\ serving' = TRUE /\ written' = <<>> /\ client'.got = <<>>
      BY <2>1 DEF BeginPage
    <3>2. (serving = FALSE) = TRUE /\ (serving = FALSE)' = FALSE
      BY <3>1, Zenon
    <3>3. Stream!Begin
      BY <3>1, <3>2, Zenon DEF Stream!Begin
    <3> QED BY <3>3, Zenon DEF Stream!Next
  <2>2. CASE EmitNull
    <3>1. /\ serving = TRUE /\ serving' = FALSE /\ written' = written
          /\ client' = Chunk(Flush(client), <<>>, 0)
      BY <2>2 DEF EmitNull
    <3>2. client' = [got |-> written, ended |-> TRUE]
      BY <3>1, FlushDelivers, Chunks
    <3>3. client'.got = written
      BY <3>2
    <3>4. (serving = FALSE) = FALSE /\ (serving = FALSE)' = TRUE
      BY <3>1, Zenon
    <3>5. Stream!Finish
      BY <3>1, <3>3, <3>4, Zenon DEF Stream!Finish
    <3> QED BY <3>5, Zenon DEF Stream!Next
  <2>3. CASE \E t \in Texts : EmitText(t) \/ EmitFile(t)
    <3>1. PICK t \in Texts : EmitText(t) \/ EmitFile(t)
      BY <2>3
    <3>2. Stream!Write(t) \/ UNCHANGED Stream!vars
      BY <3>1, EmitTextImplementsWrite, EmitFileImplementsWrite
    <3> QED BY <3>2, Zenon DEF Stream!Next
  <2>4. CASE UNCHANGED vars
    BY <2>4 DEF vars, Stream!vars
  <2> QED BY <2>1, <2>2, <2>3, <2>4 DEF Next
<1> QED BY <1>1, <1>2, InductiveInvariant, PTL DEF Spec, ImplementsStream, Stream!Spec
-----------------------------------------------------------------------------
(* What a browser sends of a text, urldecode2 gives back.  Both are functions *)
(* from the end of a text to its beginning: the texts they make are taken    *)
(* apart character by character, and what is decoded from where a character  *)
(* begins is the text from that character on.                                *)


\* The digits of the escapes of ASCII, and the characters they stand for.
LEMMA Digits ==
  /\ "2" \in Range(HexDigits) /\ "B" \in Range(HexDigits) /\ "5" \in Range(HexDigits)
  /\ "6" \in Range(HexDigits) /\ "7" \in Range(HexDigits)
  /\ HexValue("2") = 2 /\ HexValue("5") = 5 /\ HexValue("6") = 6 /\ HexValue("7") = 7
  /\ HexValue("B") = 11
<1>1. /\ HexDigits = [i \in 0 .. 15 |-> HexDigits[i]]
      /\ HexDigits[2] = "2" /\ HexDigits[5] = "5" /\ HexDigits[6] = "6" /\ HexDigits[7] = "7"
      /\ HexDigits[11] = "B"
  BY DEF HexDigits
<1>2. \A i \in 0 .. 15 : /\ HexDigits[i] = "2" => i = 2
                         /\ HexDigits[i] = "5" => i = 5
                         /\ HexDigits[i] = "6" => i = 6
                         /\ HexDigits[i] = "7" => i = 7
                         /\ HexDigits[i] = "B" => i = 11
  BY DEF HexDigits
<1>3. 2 \in 0 .. 15 /\ 5 \in 0 .. 15 /\ 6 \in 0 .. 15 /\ 7 \in 0 .. 15 /\ 11 \in 0 .. 15
  OBVIOUS
<1>4. \A c : (\E i \in 0 .. 15 : HexDigits[i] = c) => HexValue(c) \in 0 .. 15 /\ HexDigits[HexValue(c)] = c
  BY Zenon DEF HexValue
<1>5. /\ "2" \in Range(HexDigits) /\ "B" \in Range(HexDigits) /\ "5" \in Range(HexDigits)
      /\ "6" \in Range(HexDigits) /\ "7" \in Range(HexDigits)
  BY <1>1, <1>3 DEF Range
<1> QED BY <1>1, <1>2, <1>3, <1>4, <1>5

LEMMA Signs ==
  /\ Character(43) = "+" /\ Character(37) = "%" /\ Character(38) = "&" /\ Character(39) = "'"
<1>1. /\ DOMAIN Codes = {" ", "+", "%", "'", "&", "A", Byte}
      /\ Codes[" "] = 32 /\ Codes["+"] = 43 /\ Codes["%"] = 37 /\ Codes["'"] = 39 /\ Codes["A"] = 65
      /\ Codes["&"] = 38 /\ Codes[Byte] = 233
  BY DEF Codes, Byte
<1>2. ASSUME NEW n, \E c \in DOMAIN Codes : Codes[c] = n
      PROVE  Character(n) \in DOMAIN Codes /\ Codes[Character(n)] = n
  BY <1>2, Zenon DEF Character
<1> HIDE DEF Character
<1>3. ASSUME NEW c \in DOMAIN Codes
      PROVE  /\ Codes[c] = 43 => c = "+"
             /\ Codes[c] = 37 => c = "%"
             /\ Codes[c] = 38 => c = "&"
             /\ Codes[c] = 39 => c = "'"
  <2> DEFINE k == Codes[c]
             blank == " "
             e9 == Byte
  <2>1. c = blank \/ c = "+" \/ c = "%" \/ c = "'" \/ c = "&" \/ c = "A" \/ c = e9
    <3>1. c \in {blank, "+", "%", "'", "&", "A", e9}
      BY <1>1, Zenon
    <3> HIDE DEF blank, e9
    <3> QED BY <3>1
  <2>3. (c = blank => k = 32) /\ (c = "+" => k = 43) /\ (c = "%" => k = 37)
    BY <1>1, Zenon
  <2>4. (c = "'" => k = 39) /\ (c = "&" => k = 38)
    BY <1>1, Zenon
  <2>5. (c = "A" => k = 65) /\ (c = e9 => k = 233)
    <3>1. Codes["A"] = 65 /\ Codes[Byte] = 233
      BY <1>1, Zenon
    <3>2. c = "A" => k = 65
      BY <3>1
    <3>3. c = e9 => k = 233
      BY <3>1
    <3> QED BY <3>2, <3>3
  <2> HIDE DEF k, blank, e9
  <2>2. (k = 43 => c = "+") /\ (k = 37 => c = "%") /\ (k = 38 => c = "&") /\ (k = 39 => c = "'")
    BY <2>1, <2>3, <2>4, <2>5
  <2> QED BY <2>2 DEF k
<1>4. Character(43) = "+"
  <2>1. \E c \in DOMAIN Codes : Codes[c] = 43
    BY <1>1, Zenon
  <2>2. Character(43) \in DOMAIN Codes /\ Codes[Character(43)] = 43
    BY <1>2, <2>1
  <2> QED BY <1>3, <2>2, Zenon
<1>5. Character(37) = "%"
  <2>1. \E c \in DOMAIN Codes : Codes[c] = 37
    BY <1>1, Zenon
  <2>2. Character(37) \in DOMAIN Codes /\ Codes[Character(37)] = 37
    BY <1>2, <2>1
  <2> QED BY <1>3, <2>2, Zenon
<1>6. Character(39) = "'"
  <2>1. \E c \in DOMAIN Codes : Codes[c] = 39
    BY <1>1, Zenon
  <2>2. Character(39) \in DOMAIN Codes /\ Codes[Character(39)] = 39
    BY <1>2, <2>1
  <2> QED BY <1>3, <2>2, Zenon
<1>7. Character(38) = "&"
  <2>1. \E c \in DOMAIN Codes : Codes[c] = 38
    BY <1>1, Zenon
  <2>2. Character(38) \in DOMAIN Codes /\ Codes[Character(38)] = 38
    BY <1>2, <2>1
  <2> QED BY <1>3, <2>2, Zenon
<1> QED BY <1>4, <1>5, <1>6, <1>7

\* f makes what is sent of v from each of its characters on, and d what is decoded
\* of e from each place on.
Encodes(f, v) ==
  \A i \in 1 .. Len(v) + 1 : f[i] = IF i > Len(v) THEN <<>> ELSE Encoded(v[i]) \o f[i + 1]

DecodedAt(f, e, i) ==
  f[i] = IF Escape(e, i)
           THEN <<Character(16 * HexValue(e[i + 1]) + HexValue(e[i + 2]))>> \o f[i + 3]
           ELSE (IF e[i] = "+" THEN <<" ">> ELSE <<e[i]>>) \o f[i + 1]

Decodes(f, e) ==
  \A i \in 1 .. Len(e) + 3 : IF i > Len(e) THEN f[i] = <<>> ELSE DecodedAt(f, e, i)

\* EncodedText and urldecode2 are such functions.
LEMMA Encoder ==
  ASSUME NEW S, NEW v \in Seq(S)
  PROVE  \E f : Encodes(f, v) /\ EncodedText(v) = f[1]
<1> DEFINE n == Len(v)
           m == n + 1
           piece == [i \in 1 .. n |-> Encoded(v[i])]
           next == [i \in 1 .. n |-> i + 1]
           Fixed(f) == f = [i \in 1 .. m |-> IF i > n THEN <<>> ELSE Encoded(v[i]) \o f[i + 1]]
<1>1. n \in Nat /\ m \in Nat /\ \A i \in 1 .. n : next[i] \in i + 1 .. m
  OBVIOUS
<1>2. \A i \in 1 .. m : ~(i > n) => piece[i] = Encoded(v[i]) /\ next[i] = i + 1
  OBVIOUS
<1>3. EncodedText(v) = (CHOOSE f : Fixed(f))[1]
  BY Zenon DEF EncodedText
<1> HIDE DEF n, m, piece, next
<1>4. PICK f : Joins(f, n, m, piece, next)
  BY <1>1, PiecesAreJoined
<1>5. \A i \in 1 .. m : (IF i > n THEN <<>> ELSE piece[i] \o f[next[i]])
                          = IF i > n THEN <<>> ELSE Encoded(v[i]) \o f[i + 1]
  BY <1>2, Zenon
<1>6. Fixed(f)
  BY <1>4, <1>5, Zenon DEF Joins
<1> DEFINE g == CHOOSE g : Fixed(g)
<1>7. Fixed(g)
  BY <1>6, Zenon
<1>8. EncodedText(v) = g[1]
  BY <1>3
<1> HIDE DEF g
<1>9. \A i \in 1 .. m : g[i] = IF i > n THEN <<>> ELSE Encoded(v[i]) \o g[i + 1]
  BY <1>7, Zenon
<1>10. Encodes(g, v)
  BY <1>9 DEF Encodes, n, m
<1> QED BY <1>8, <1>10, Zenon

LEMMA Decoder ==
  ASSUME NEW S, NEW e \in Seq(S)
  PROVE  \E f : Decodes(f, e) /\ urldecode2(e) = f[1]
<1> DEFINE n == Len(e)
           m == n + 3
           unescaped(i) == <<Character(16 * HexValue(e[i + 1]) + HexValue(e[i + 2]))>>
           plain(i) == IF e[i] = "+" THEN <<" ">> ELSE <<e[i]>>
           piece == [i \in 1 .. n |-> IF Escape(e, i) THEN unescaped(i) ELSE plain(i)]
           next == [i \in 1 .. n |-> IF Escape(e, i) THEN i + 3 ELSE i + 1]
           Fixed(f) == f = [i \in 1 .. m |->
             IF i > n THEN <<>>
             ELSE IF Escape(e, i) THEN unescaped(i) \o f[i + 3] ELSE plain(i) \o f[i + 1]]
<1>1. n \in Nat /\ m \in Nat /\ \A i \in 1 .. n : next[i] \in i + 1 .. m
  OBVIOUS
<1>2. ASSUME NEW i \in 1 .. m, ~(i > n)
      PROVE  /\ piece[i] = IF Escape(e, i) THEN unescaped(i) ELSE plain(i)
             /\ next[i] = IF Escape(e, i) THEN i + 3 ELSE i + 1
  <2>1. i \in 1 .. n
    BY <1>2
  <2> QED BY <2>1, Zenon
<1>3. urldecode2(e) = (CHOOSE f : Fixed(f))[1]
  BY Zenon DEF urldecode2
<1> HIDE DEF n, m, piece, next, unescaped, plain
<1>4. PICK f : Joins(f, n, m, piece, next)
  BY <1>1, PiecesAreJoined
<1>5. \A i \in 1 .. m :
        (IF i > n THEN <<>> ELSE piece[i] \o f[next[i]])
        = IF i > n THEN <<>>
          ELSE IF Escape(e, i) THEN unescaped(i) \o f[i + 3] ELSE plain(i) \o f[i + 1]
  BY <1>2, Zenon
<1>6. Fixed(f)
  BY <1>4, <1>5, Zenon DEF Joins
<1> DEFINE g == CHOOSE g : Fixed(g)
<1>7. Fixed(g)
  BY <1>6, Zenon
<1>8. urldecode2(e) = g[1]
  BY <1>3
<1> HIDE DEF g
<1>9. \A i \in 1 .. m :
        g[i] = IF i > n THEN <<>>
               ELSE IF Escape(e, i) THEN unescaped(i) \o g[i + 3] ELSE plain(i) \o g[i + 1]
  BY <1>7, Zenon
<1>10. Decodes(g, e)
  BY <1>9, Zenon DEF Decodes, DecodedAt, n, m, unescaped, plain
<1> QED BY <1>8, <1>10, Zenon

LEMMA EncodesAt ==
  ASSUME NEW S, NEW v \in Seq(S), NEW f, Encodes(f, v)
  PROVE  /\ f[Len(v) + 1] = <<>>
         /\ \A k \in 1 .. Len(v) : f[k] = Encoded(v[k]) \o f[k + 1]
<1>1. Len(v) + 1 \in 1 .. Len(v) + 1 /\ Len(v) + 1 > Len(v)
  OBVIOUS
<1>2. \A k \in 1 .. Len(v) : k \in 1 .. Len(v) + 1 /\ ~(k > Len(v))
  OBVIOUS
<1> QED BY <1>1, <1>2, Zenon DEF Encodes

LEMMA DecodesAt ==
  ASSUME NEW X, NEW e \in Seq(X), NEW d, Decodes(d, e)
  PROVE  d[Len(e) + 1] = <<>> /\ \A p \in 1 .. Len(e) : DecodedAt(d, e, p)
<1>1. Len(e) + 1 \in 1 .. Len(e) + 3 /\ Len(e) + 1 > Len(e)
  OBVIOUS
<1>2. \A p \in 1 .. Len(e) : p \in 1 .. Len(e) + 3 /\ ~(p > Len(e))
  OBVIOUS
<1> QED BY <1>1, <1>2, Zenon DEF Decodes

\* What a character is sent as.
LEMMA EncodedCharacter ==
  ASSUME NEW c, c \notin BeyondAscii, NEW X, {c, "+", "%", "2", "B", "5", "6", "7"} \subseteq X
  PROVE  Encoded(c) \in Seq(X) /\ Encoded(c) # <<>>
<1> DEFINE E == {<<"+">>, <<c>>, <<"%", "2", "B">>, <<"%", "2", "5">>, <<"%", "2", "6">>,
                 <<"%", "2", "7">>}
<1>1. \A u \in E : u \in Seq(X) /\ u # <<>>
  <2>1. <<"+">> \in Seq(X) /\ <<"+">> # <<>>
    OBVIOUS
  <2>2. <<c>> \in Seq(X) /\ <<c>> # <<>>
    OBVIOUS
  <2>3. <<"%", "2", "B">> \in Seq(X) /\ <<"%", "2", "B">> # <<>>
    OBVIOUS
  <2>4. <<"%", "2", "5">> \in Seq(X) /\ <<"%", "2", "5">> # <<>>
    OBVIOUS
  <2>5. <<"%", "2", "7">> \in Seq(X) /\ <<"%", "2", "7">> # <<>>
    OBVIOUS
  <2>6. <<"%", "2", "6">> \in Seq(X) /\ <<"%", "2", "6">> # <<>>
    OBVIOUS
  <2> QED BY <2>1, <2>2, <2>3, <2>4, <2>5, <2>6, Zenon
<1>2. Encoded(c) \in E
  <2>1. c # Latin /\ c # Foreign
    BY DEF BeyondAscii
  <2> QED BY <2>1, Zenon DEF Encoded
<1> HIDE DEF E
<1> QED BY <1>1, <1>2

LEMMA EncodedIsSeq ==
  ASSUME NEW S, NEW v \in Seq(S), NEW f, Encodes(f, v),
         S \cap BeyondAscii = {},
         NEW X, S \cup {"+", "%", "2", "B", "5", "6", "7"} \subseteq X
  PROVE  \A k \in 1 .. Len(v) + 1 : f[k] \in Seq(X)
<1> DEFINE n == Len(v) + 1
           K == {k \in 0 .. n : k = 0 \/ f[k] \in Seq(X)}
<1>1. n \in Nat /\ n \in K
  <2>1. f[Len(v) + 1] = <<>>
    BY EncodesAt, Zenon
  <2>2. n \in Nat /\ n \in 0 .. n
    OBVIOUS
  <2>3. <<>> \in Seq(X)
    OBVIOUS
  <2> QED BY <2>1, <2>2, <2>3, Zenon
<1>2. ASSUME NEW k \in 1 .. n, k \in K
      PROVE  k - 1 \in K
  <2>1. CASE k = 1
    BY <2>1
  <2>2. CASE k # 1
    <3>1. k - 1 \in 1 .. Len(v) /\ (k - 1) + 1 = k
      BY <2>2
    <3>2. f[k - 1] = Encoded(v[k - 1]) \o f[k]
      <4>1. f[k - 1] = Encoded(v[k - 1]) \o f[(k - 1) + 1]
        BY <3>1, EncodesAt, Zenon
      <4> QED BY <3>1, <4>1, Zenon
    <3>3. v[k - 1] \in X /\ v[k - 1] \notin BeyondAscii
      BY <3>1
    <3>4. Encoded(v[k - 1]) \in Seq(X)
      BY <3>3, EncodedCharacter
    <3>5. f[k] \in Seq(X)
      BY <1>2
    <3>6. f[k - 1] \in Seq(X)
      BY <3>2, <3>4, <3>5, ConcatProperties, Zenon
    <3> QED BY <3>1, <3>6
  <2> QED BY <2>1, <2>2
<1>3. 0 .. n \subseteq K
  <2> HIDE DEF K, n
  <2> QED BY <1>1, <1>2, Downward
<1> QED BY <1>3

\* A text that stands in another at a place.
StandsAt(u, e, p) ==
  /\ p \in 1 .. Len(e) /\ p + Len(u) <= Len(e) + 1
  /\ \A j \in 1 .. Len(u) : e[p + j - 1] = u[j]

\* Decoding what a character was sent as gives the character, and goes on after it.
LEMMA DecodeStep ==
  ASSUME NEW X, NEW e \in Seq(X), NEW d, Decodes(d, e), NEW c, c \notin BeyondAscii,
         NEW p, StandsAt(Encoded(c), e, p)
  PROVE  d[p] = <<c>> \o d[p + Len(Encoded(c))]
<1> p \in 1 .. Len(e) /\ p + Len(Encoded(c)) <= Len(e) + 1
    /\ \A j \in 1 .. Len(Encoded(c)) : e[p + j - 1] = Encoded(c)[j]
  BY DEF StandsAt
<1>1. d[p] = IF Escape(e, p)
               THEN <<Character(16 * HexValue(e[p + 1]) + HexValue(e[p + 2]))>> \o d[p + 3]
               ELSE (IF e[p] = "+" THEN <<" ">> ELSE <<e[p]>>) \o d[p + 1]
  <2>1. DecodedAt(d, e, p)
    BY DecodesAt, Zenon
  <2> QED BY <2>1 DEF DecodedAt
<1>2. CASE c = " "
  <2>1. Encoded(c) = <<"+">>
    BY <1>2 DEF Encoded, Latin, Foreign
  <2>2. e[p] = "+" /\ Len(Encoded(c)) = 1
    BY <2>1
  <2> QED BY <1>1, <1>2, <2>2 DEF Escape
<1>3. ASSUME NEW h, NEW l, Encoded(c) = <<"%", h, l>>, h \in Range(HexDigits), l \in Range(HexDigits),
             Character(16 * HexValue(h) + HexValue(l)) = c
      PROVE  d[p] = <<c>> \o d[p + Len(Encoded(c))]
  <2>1. Len(Encoded(c)) = 3 /\ e[p] = "%" /\ e[p + 1] = h /\ e[p + 2] = l /\ p + 2 <= Len(e)
    BY <1>3
  <2>2. Escape(e, p)
    BY <1>3, <2>1 DEF Escape
  <2> QED BY <1>1, <1>3, <2>1, <2>2, Zenon
<1>4. CASE c = "+"
  <2>1. Encoded(c) = <<"%", "2", "B">>
    BY <1>4 DEF Encoded, Latin, Foreign
  <2>2. 16 * HexValue("2") + HexValue("B") = 43
    BY Digits
  <2>3. Character(16 * HexValue("2") + HexValue("B")) = c
    BY <1>4, <2>2, Signs, Zenon
  <2>4. "2" \in Range(HexDigits) /\ "B" \in Range(HexDigits)
    BY Digits, Zenon
  <2> QED BY <1>3, <2>1, <2>3, <2>4, Zenon
<1>5. CASE c = "%"
  <2>1. Encoded(c) = <<"%", "2", "5">>
    BY <1>5 DEF Encoded, Latin, Foreign
  <2>2. 16 * HexValue("2") + HexValue("5") = 37
    BY Digits
  <2>3. Character(16 * HexValue("2") + HexValue("5")) = c
    BY <1>5, <2>2, Signs, Zenon
  <2>4. "2" \in Range(HexDigits) /\ "5" \in Range(HexDigits)
    BY Digits, Zenon
  <2> QED BY <1>3, <2>1, <2>3, <2>4, Zenon
<1>6. CASE c = "'"
  <2>1. Encoded(c) = <<"%", "2", "7">>
    BY <1>6 DEF Encoded, Latin, Foreign
  <2>2. 16 * HexValue("2") + HexValue("7") = 39
    BY Digits
  <2>3. Character(16 * HexValue("2") + HexValue("7")) = c
    BY <1>6, <2>2, Signs, Zenon
  <2>4. "2" \in Range(HexDigits) /\ "7" \in Range(HexDigits)
    BY Digits, Zenon
  <2> QED BY <1>3, <2>1, <2>3, <2>4, Zenon
<1>8. CASE c = "&"
  <2>1. Encoded(c) = <<"%", "2", "6">>
    BY <1>8 DEF Encoded, Latin, Foreign
  <2>2. 16 * HexValue("2") + HexValue("6") = 38
    BY Digits
  <2>3. Character(16 * HexValue("2") + HexValue("6")) = c
    BY <1>8, <2>2, Signs, Zenon
  <2>4. "2" \in Range(HexDigits) /\ "6" \in Range(HexDigits)
    BY Digits, Zenon
  <2> QED BY <1>3, <2>1, <2>3, <2>4, Zenon
<1>7. CASE c \notin {" ", "+", "%", "'", "&"}
  <2>1. Encoded(c) = <<c>>
    BY <1>7 DEF Encoded, BeyondAscii
  <2>2. e[p] = c /\ Len(Encoded(c)) = 1
    BY <2>1
  <2> QED BY <1>1, <1>7, <2>2 DEF Escape
<1> QED BY <1>2, <1>4, <1>5, <1>6, <1>7, <1>8

\* In e, the character c follows what is sent as w, and t follows it.
IsNext(X, e, c, w, t) ==
  Encoded(c) \in Seq(X) /\ Encoded(c) # <<>> /\ w \o (Encoded(c) \o t) = e

DecodedNext(X, e, d, c, w, t) ==
  /\ w \o Encoded(c) \in Seq(X)
  /\ (w \o Encoded(c)) \o t = e
  /\ d[Len(w) + 1] = <<c>> \o d[Len(w \o Encoded(c)) + 1]

LEMMA DecodesNext ==
  ASSUME NEW X, NEW e \in Seq(X), NEW d, Decodes(d, e), NEW c, c \notin BeyondAscii,
         NEW w \in Seq(X), NEW t \in Seq(X),
         IsNext(X, e, c, w, t)
  PROVE  DecodedNext(X, e, d, c, w, t)
<1> USE DEF IsNext
<1> DEFINE u == Encoded(c)
           p == Len(w) + 1
<1>1. /\ w \o u \in Seq(X)
      /\ (w \o u) \o t = e
      /\ Len(w \o u) = Len(w) + Len(u)
      /\ Len(e) = Len(w) + Len(u) + Len(t)
      /\ \A j \in 1 .. Len(u) : e[Len(w) + j] = u[j]
  <2>1. u \in Seq(X) /\ w \o (u \o t) = e
    OBVIOUS
  <2> HIDE DEF u
  <2>2. /\ w \o u \in Seq(X)
        /\ (w \o u) \o t = w \o (u \o t)
        /\ Len(w \o u) = Len(w) + Len(u)
        /\ Len(w \o (u \o t)) = Len(w) + Len(u) + Len(t)
        /\ \A j \in 1 .. Len(u) : (w \o (u \o t))[Len(w) + j] = u[j]
    <3>1. ThreeParts(X, w, u, t)
      BY <2>1, ThreeTexts, Zenon
    <3> QED BY <3>1, Zenon DEF ThreeParts
  <2> HIDE DEF p
  <2> QED BY <2>1, <2>2
<1>2. Len(w) \in Nat /\ Len(u) \in Nat \ {0} /\ Len(t) \in Nat
  <2>1. u \in Seq(X) /\ u # <<>>
    OBVIOUS
  <2> HIDE DEF u
  <2> QED BY <2>1
<1>3. p \in 1 .. Len(e) /\ p + Len(u) <= Len(e) + 1 /\ p + Len(u) = Len(w \o u) + 1
  <2> HIDE DEF u
  <2> DEFINE lw == Len(w)
             lu == Len(u)
             lt == Len(t)
             le == Len(e)
             lwu == Len(w \o u)
  <2>1. lw \in Nat /\ lu \in Nat \ {0} /\ lt \in Nat /\ le = lw + lu + lt /\ lwu = lw + lu /\ p = lw + 1
    BY <1>1, <1>2, Zenon
  <2> HIDE DEF lw, lu, lt, le, lwu, p
  <2>2. p \in 1 .. le /\ p + lu <= le + 1 /\ p + lu = lwu + 1
    BY <2>1
  <2> QED BY <2>2, Zenon DEF lu, le, lwu
<1>4. ASSUME NEW j \in 1 .. Len(u)
      PROVE  e[p + j - 1] = u[j]
  <2> HIDE DEF u
  <2>1. p + j - 1 = Len(w) + j
    BY <1>2
  <2>2. e[Len(w) + j] = u[j]
    BY <1>1, Zenon
  <2> QED BY <2>1, <2>2, Zenon
<1>5. \A j \in 1 .. Len(u) : e[p + j - 1] = u[j]
  BY <1>4, Zenon
<1> HIDE DEF p
<1>6. d[p] = <<c>> \o d[p + Len(u)]
  <2>1. StandsAt(Encoded(c), e, p)
    BY <1>3, <1>5, Zenon DEF StandsAt
  <2> QED BY <2>1, DecodeStep
<1> QED BY <1>1, <1>3, <1>6, Zenon DEF p, DecodedNext

\* What comes from the browser is what was typed.
LEMMA DecodingUndoesEncoding ==
  ASSUME NEW S, NEW v \in Seq(S), S \cap BeyondAscii = {}
  PROVE  Received(v) = v
<1> DEFINE X == S \cup {"+", "%", "2", "B", "5", "6", "7"}
           e == EncodedText(v)
           n == Len(v) + 1
<1>1. PICK f : Encodes(f, v) /\ e = f[1]
  BY Encoder
<1>2. \A k \in 1 .. n : f[k] \in Seq(X)
  BY <1>1, EncodedIsSeq
<1>3. n \in Nat /\ 1 \in 1 .. n
  OBVIOUS
<1>4. e \in Seq(X)
  BY <1>1, <1>2, <1>3
<1>5. PICK d : Decodes(d, e) /\ urldecode2(e) = d[1]
  BY <1>4, Decoder
<1> DEFINE Right(k) == \A w \in Seq(X) : w \o f[k] = e => d[Len(w) + 1] = SubSeq(v, k, Len(v))
           K == {k \in 0 .. n : k = 0 \/ Right(k)}
<1>13. \A k \in 1 .. Len(v) : /\ v[k] \in X /\ v[k] \notin BeyondAscii
                              /\ {v[k], "+", "%", "2", "B", "5", "6", "7"} \subseteq X
  OBVIOUS
<1> HIDE DEF X, e
<1>6. n \in K
  <2>1. f[n] = <<>>
    BY <1>1, EncodesAt
  <2>2. ASSUME NEW w \in Seq(X), w \o f[n] = e
        PROVE  d[Len(w) + 1] = SubSeq(v, n, Len(v))
    <3>1. w = e
      BY <2>1, <2>2
    <3>2. d[Len(e) + 1] = <<>>
      BY <1>4, <1>5, DecodesAt
    <3>3. SubSeq(v, n, Len(v)) = <<>>
      OBVIOUS
    <3> QED BY <3>1, <3>2, <3>3
  <2> QED BY <2>2
<1>7. ASSUME NEW k \in 1 .. n, k \in K
      PROVE  k - 1 \in K
  <2>1. CASE k = 1
    BY <2>1
  <2>2. ASSUME k # 1, NEW w \in Seq(X), w \o f[k - 1] = e
        PROVE  d[Len(w) + 1] = SubSeq(v, k - 1, Len(v))
    <3>1. k - 1 \in 1 .. Len(v) /\ (k - 1) + 1 = k
      BY <2>2
    <3> DEFINE c == v[k - 1]
    <3>2. f[k - 1] = Encoded(c) \o f[k]
      <4>1. f[k - 1] = Encoded(v[k - 1]) \o f[(k - 1) + 1]
        BY <1>1, <3>1, EncodesAt, Zenon
      <4> QED BY <3>1, <4>1, Zenon
    <3>3. Encoded(c) \in Seq(X) /\ Encoded(c) # <<>> /\ c \notin BeyondAscii
      BY <1>13, <3>1, EncodedCharacter
    <3>4. f[k] \in Seq(X)
      BY <1>2
    <3>5. SubSeq(v, k - 1, Len(v)) = <<c>> \o SubSeq(v, k, Len(v))
      <4>1. Len(v) \in (k - 1) .. Len(v)
        BY <3>1
      <4> QED BY <3>1, <4>1, SubSeqRecursiveFirst
    <3> HIDE DEF c
    <3>6. /\ w \o Encoded(c) \in Seq(X)
          /\ (w \o Encoded(c)) \o f[k] = e
          /\ d[Len(w) + 1] = <<c>> \o d[Len(w \o Encoded(c)) + 1]
      <4>1. w \o (Encoded(c) \o f[k]) = e
        BY <2>2, <3>2, Zenon
      <4> DEFINE t == f[k]
      <4>2. t \in Seq(X) /\ w \o (Encoded(c) \o t) = e
        BY <3>4, <4>1
      <4> HIDE DEF t
      <4>3. /\ w \o Encoded(c) \in Seq(X)
            /\ (w \o Encoded(c)) \o t = e
            /\ d[Len(w) + 1] = <<c>> \o d[Len(w \o Encoded(c)) + 1]
        <5>1. Decodes(d, e)
          BY <1>5
        <5>2. IsNext(X, e, c, w, t)
          BY <3>3, <4>2, Zenon DEF IsNext
        <5>3. DecodedNext(X, e, d, c, w, t)
          BY <1>4, <3>3, <4>2, <5>1, <5>2, DecodesNext, Zenon
        <5> QED BY <5>3, Zenon DEF DecodedNext
      <4> QED BY <4>3 DEF t
    <3>7. Right(k)
      <4> HIDE DEF Right
      <4>1. k = 0 \/ Right(k)
        BY <1>7
      <4>2. k # 0
        BY <3>1
      <4> QED BY <4>1, <4>2
    <3>8. d[Len(w \o Encoded(c)) + 1] = SubSeq(v, k, Len(v))
      BY <3>6, <3>7, Zenon
    <3> QED BY <3>5, <3>6, <3>8, Zenon
  <2>3. k - 1 \in 0 .. n
    OBVIOUS
  <2> QED BY <2>1, <2>2, <2>3
<1>8. 0 .. n \subseteq K
  <2> HIDE DEF K, n
  <2> QED BY <1>3, <1>6, <1>7, Downward
<1>9. Right(1)
  <2>1. 1 \in K
    <3> HIDE DEF K
    <3> QED BY <1>3, <1>8
  <2>2. 1 # 0
    OBVIOUS
  <2> HIDE DEF Right
  <2> QED BY <2>1, <2>2
<1>10. <<>> \in Seq(X) /\ <<>> \o f[1] = e
  BY <1>1, <1>4
<1>11. d[Len(<<>>) + 1] = SubSeq(v, 1, Len(v))
  BY <1>9, <1>10
<1>12. Len(<<>>) + 1 = 1 /\ SubSeq(v, 1, Len(v)) = v
  OBVIOUS
<1> QED BY <1>5, <1>11, <1>12 DEF e, Received

(* Decoding gives back what was encoded, of every text in ASCII              *)
(* (clockServer.c:1607, 2729-2758).                                          *)
THEOREM DecodingGivesBack == RoundTrip
<1>1. ASSUME NEW v \in Entries \cup Secrets, Ascii(v)
      PROVE  Received(v) = v
  <2>1. v \in Seq(Range(v)) /\ Range(v) \cap BeyondAscii = {}
    BY <1>1, EntriesAssumption DEF Ascii
  <2> QED BY <2>1, DecodingUndoesEncoding
<1>2. Received(Hidden) = Hidden
  <2>1. Hidden \in Seq({"~"}) /\ {"~"} \cap BeyondAscii = {}
    BY DEF Hidden, BeyondAscii, Latin, Byte, Foreign
  <2> QED BY <2>1, DecodingUndoesEncoding
<1> QED BY <1>1, <1>2 DEF RoundTrip

\* f makes what the box shows of v from each of its characters on.
ShowsAt(f, v, i) ==
  f[i] = IF v[i] = "'" THEN <<>>
         ELSE IF i < Len(v) /\ v[i] = "&" /\ v[i + 1] \in DOMAIN References
           THEN <<References[v[i + 1]]>> \o f[i + 2]
         ELSE <<IF v[i] = Byte THEN Foreign ELSE v[i]>> \o f[i + 1]

\* Attribute is such a function of a text without an apostrophe.
LEMMA Shower ==
  ASSUME NEW S, NEW v \in Seq(S), "'" \notin Range(v)
  PROVE  \E f : /\ Attribute(v) = f[1] /\ f[Len(v) + 1] = <<>>
               /\ \A i \in 1 .. Len(v) : ShowsAt(f, v, i)
<1> DEFINE n == Len(v)
           m == n + 2
           refers(i) == i < n /\ v[i] = "&" /\ v[i + 1] \in DOMAIN References
           referred(i) == <<References[v[i + 1]]>>
           shown(i) == <<IF v[i] = Byte THEN Foreign ELSE v[i]>>
           piece == [i \in 1 .. n |-> IF refers(i) THEN referred(i) ELSE shown(i)]
           next == [i \in 1 .. n |-> IF refers(i) THEN i + 2 ELSE i + 1]
           Fixed(f) == f = [i \in 1 .. m |->
             IF i > n THEN <<>>
             ELSE IF v[i] = "'" THEN <<>>
             ELSE IF refers(i) THEN referred(i) \o f[i + 2] ELSE shown(i) \o f[i + 1]]
<1>1. n \in Nat /\ m \in Nat /\ \A i \in 1 .. n : next[i] \in i + 1 .. m
  OBVIOUS
<1>2. ASSUME NEW i \in 1 .. m, ~(i > n)
      PROVE  /\ piece[i] = IF refers(i) THEN referred(i) ELSE shown(i)
             /\ next[i] = IF refers(i) THEN i + 2 ELSE i + 1
             /\ v[i] # "'"
  <2>1. i \in 1 .. n
    BY <1>2
  <2>2. v[i] # "'"
    BY <2>1 DEF Range
  <2> QED BY <2>1, <2>2, Zenon
<1>3. Attribute(v) = (CHOOSE f : Fixed(f))[1]
  BY Zenon DEF Attribute
<1> HIDE DEF n, m, piece, next, refers, referred, shown
<1>4. PICK f : Joins(f, n, m, piece, next)
  BY <1>1, PiecesAreJoined
<1>5. \A i \in 1 .. m :
        (IF i > n THEN <<>> ELSE piece[i] \o f[next[i]])
        = IF i > n THEN <<>>
          ELSE IF v[i] = "'" THEN <<>>
          ELSE IF refers(i) THEN referred(i) \o f[i + 2] ELSE shown(i) \o f[i + 1]
  BY <1>2, Zenon
<1>6. Fixed(f)
  BY <1>4, <1>5, Zenon DEF Joins
<1> DEFINE g == CHOOSE g : Fixed(g)
<1>7. Fixed(g)
  BY <1>6, Zenon
<1>8. Attribute(v) = g[1]
  BY <1>3
<1> HIDE DEF g
<1>9. \A i \in 1 .. m :
        g[i] = IF i > n THEN <<>>
               ELSE IF v[i] = "'" THEN <<>>
               ELSE IF refers(i) THEN referred(i) \o g[i + 2] ELSE shown(i) \o g[i + 1]
  BY <1>7, Zenon
<1>10. g[Len(v) + 1] = <<>>
  <2>1. n + 1 \in 1 .. m /\ n + 1 > n
    BY <1>1 DEF m
  <2> QED BY <1>9, <2>1, Zenon DEF n
<1>11. ASSUME NEW i \in 1 .. Len(v) PROVE ShowsAt(g, v, i)
  <2>1. i \in 1 .. m /\ ~(i > n)
    BY <1>1 DEF n, m
  <2> QED BY <1>9, <2>1, Zenon DEF ShowsAt, n, refers, referred, shown
<1> QED BY <1>8, <1>10, <1>11, Zenon

\* The box shows a text as it is, if nothing in it has a meaning in value='...'.
LEMMA PlainTextIsShown ==
  ASSUME NEW S, NEW v \in Seq(S), "'" \notin Range(v), ~ HasReference(v), Ascii(v)
  PROVE  Attribute(v) = v
<1>1. PICK f : /\ Attribute(v) = f[1] /\ f[Len(v) + 1] = <<>>
               /\ \A i \in 1 .. Len(v) : ShowsAt(f, v, i)
  BY Shower
<1> DEFINE n == Len(v) + 1
           K == {k \in 0 .. n : k = 0 \/ f[k] = SubSeq(v, k, Len(v))}
<1>2. n \in Nat /\ n \in K
  <2>1. SubSeq(v, n, Len(v)) = <<>> /\ n \in 0 .. n /\ n \in Nat
    OBVIOUS
  <2> QED BY <1>1, <2>1, Zenon
<1>3. ASSUME NEW k \in 1 .. n, k \in K
      PROVE  k - 1 \in K
  <2>1. CASE k = 1
    BY <2>1
  <2>2. CASE k # 1
    <3>1. k - 1 \in 1 .. Len(v) /\ (k - 1) + 1 = k /\ k - 1 \in 0 .. n
      BY <2>2
    <3>2. v[k - 1] # "'" /\ v[k - 1] # Byte
      BY <3>1 DEF Range, Ascii, BeyondAscii
    <3>3. ~ (k - 1 < Len(v) /\ v[k - 1] = "&" /\ v[(k - 1) + 1] \in DOMAIN References)
      <4>1. k - 1 < Len(v) => k - 1 \in 1 .. Len(v) - 1
        BY <3>1
      <4> QED BY <4>1, Zenon DEF HasReference
    <3>4. f[k - 1] = <<v[k - 1]>> \o f[(k - 1) + 1]
      <4>1. ShowsAt(f, v, k - 1)
        BY <1>1, <3>1, Zenon
      <4> QED BY <3>2, <3>3, <4>1, Zenon DEF ShowsAt
    <3>5. f[(k - 1) + 1] = SubSeq(v, k, Len(v))
      <4>1. k # 0
        OBVIOUS
      <4> QED BY <1>3, <3>1, <4>1, Zenon
    <3>6. SubSeq(v, k - 1, Len(v)) = <<v[k - 1]>> \o SubSeq(v, k, Len(v))
      <4>1. Len(v) \in (k - 1) .. Len(v)
        BY <3>1
      <4> QED BY <3>1, <4>1, SubSeqRecursiveFirst
    <3> QED BY <3>1, <3>4, <3>5, <3>6, Zenon
  <2> QED BY <2>1, <2>2
<1>4. 0 .. n \subseteq K
  <2> HIDE DEF K, n
  <2> QED BY <1>2, <1>3, Downward
<1>5. 1 \in K /\ 1 # 0 /\ SubSeq(v, 1, Len(v)) = v
  <2>1. 1 \in 0 .. n /\ SubSeq(v, 1, Len(v)) = v
    OBVIOUS
  <2> HIDE DEF K, n
  <2> QED BY <1>4, <2>1
<1> QED BY <1>1, <1>5, Zenon
-----------------------------------------------------------------------------
(* The setup page.  The page shows the settings, except in the boxes that    *)
(* were changed, until a setting changes; a request holds what the boxes     *)
(* hold, since the browser waits for the answer.                             *)

CfgInv == cfg = [k \in Keys |-> cfg[k]] /\ \A k \in Keys : cfg[k] \in Values(k)

BoxesInv ==
  /\ boxes = [k \in Keys |-> boxes[k]]
  /\ \A k \in Keys : boxes[k] \subseteq Typed(k) \cup (IF k \in Passwords THEN {Hidden} ELSE {})
  /\ \A k \in Keys \cap touched : \E v \in Typed(k) : boxes[k] = {v}
  /\ fresh => \A k \in Keys \ touched : boxes[k] = Shown(k)

\* What a form has of a box.
Sent(k) == LET v == CHOOSE v \in boxes[k] : TRUE IN IF k \in Radios THEN v ELSE EncodedText(v)

RequestInv ==
  request # NoRequest =>
    \A k \in DOMAIN request.form : k \in Keys /\ boxes[k] # {} /\ request.form[k] = Sent(k)

PageInv == CfgInv /\ BoxesInv /\ RequestInv

LEMMA KeysFacts ==
  /\ \A panel \in formPanels : panel \subseteq Keys
  /\ Radios \cap Passwords = {}
<1>1. Keys = {"wfiname", "wfipass", "mypass", "wifi"}
  <2>1. DOMAIN formDatas = 1 .. 4 /\ formDatas[1] = "wfiname" /\ formDatas[2] = "wfipass"
        /\ formDatas[3] = "mypass" /\ formDatas[4] = "wifi"
    BY DEF formDatas
  <2>2. \A i \in 1 .. 4 : i = 1 \/ i = 2 \/ i = 3 \/ i = 4
    OBVIOUS
  <2> QED BY <2>1, <2>2 DEF Keys, Range
<1> QED BY <1>1 DEF formPanels, Radios, Passwords

\* What the page shows of a setting is something a box can hold.
LEMMA ShownIsTyped ==
  ASSUME CfgInv, NEW k \in Keys
  PROVE  Shown(k) \subseteq Typed(k) \cup (IF k \in Passwords THEN {Hidden} ELSE {})
<1>1. cfg[k] \in Values(k)
  BY DEF CfgInv
<1>2. CASE k \in Radios
  BY <1>2 DEF Shown, Typed
<1>3. CASE k \in Passwords /\ k \notin Radios
  BY <1>3 DEF Shown
<1>4. CASE k \notin Passwords /\ k \notin Radios
  <2>1. cfg[k] \in Settings
    BY <1>1, <1>4 DEF Values
  <2>2. Shown(k) = {Attribute(cfg[k])} /\ Typed(k) = Entries
    BY <1>4, Zenon DEF Shown, Typed
  <2> QED BY <2>1, <2>2, EntriesAssumption
<1> QED BY <1>2, <1>3, <1>4

\* The server gets what comes of what is in the box.
LEMMA ParamIsReceived ==
  ASSUME PageInv, request # NoRequest, NEW k \in DOMAIN request.form
  PROVE  k \in Keys /\ \E v \in boxes[k] : Param(k) = IF k \in Radios THEN v ELSE Received(v)
<1>1. k \in Keys /\ boxes[k] # {} /\ request.form[k] = Sent(k)
  BY DEF PageInv, RequestInv
<1> DEFINE v == CHOOSE v \in boxes[k] : TRUE
<1>2. v \in boxes[k]
  BY <1>1
<1>3. Sent(k) = IF k \in Radios THEN v ELSE EncodedText(v)
  BY DEF Sent
<1> HIDE DEF v
<1>4. Param(k) = IF k \in Radios THEN v ELSE Received(v)
  BY <1>1, <1>3, Zenon DEF Param, Received
<1> QED BY <1>1, <1>2, <1>4, Zenon

LEMMA HiddenIsReceived == Received(Hidden) = Hidden
<1>1. Hidden \in Seq({"~"}) /\ {"~"} \cap BeyondAscii = {}
  BY DEF Hidden, BeyondAscii, Latin, Byte, Foreign
<1> QED BY <1>1, DecodingUndoesEncoding

LEMMA SettingIsValue ==
  ASSUME PageInv, request # NoRequest, NEW k \in Keys
  PROVE  Setting(k) \in Values(k)
<1>1. cfg[k] \in Values(k)
  BY DEF PageInv, CfgInv
<1>2. Default[k] \in Values(k)
  BY DefaultAssumption
<1>3. CASE k \in DOMAIN request.form
  <2>1. PICK v \in boxes[k] : Param(k) = IF k \in Radios THEN v ELSE Received(v)
    BY <1>3, ParamIsReceived
  <2>2. v \in Typed(k) \cup (IF k \in Passwords THEN {Hidden} ELSE {})
    BY DEF PageInv, BoxesInv
  <2>3. Param(k) \in Values(k) \/ (k \notin Radios /\ Param(k) = Hidden)
    <3>1. CASE k \in Radios
      <4>1. v \in vals
        BY <2>2, <3>1, KeysFacts DEF Typed
      <4> QED BY <2>1, <3>1, <4>1 DEF Values
    <3>2. CASE k \in Passwords /\ k \notin Radios
      <4>1. v \in Secrets \/ v = Hidden
        BY <2>2, <3>2 DEF Typed
      <4> QED BY <2>1, <3>2, <4>1, HiddenIsReceived, Zenon DEF Values
    <3>3. CASE k \notin Radios \cup Passwords
      <4>1. v \in Entries
        BY <2>2, <3>3 DEF Typed
      <4>2. Received(v) \in Settings
        BY <4>1, EntriesAssumption
      <4> QED BY <2>1, <3>3, <4>2, Zenon DEF Values
    <3> QED BY <3>1, <3>2, <3>3
  <2>4. \/ Setting(k) \in {cfg[k], Default[k]}
        \/ Setting(k) = Param(k) /\ ~ (k \notin Radios /\ Param(k) = Hidden)
    BY Zenon DEF Setting
  <2> QED BY <1>1, <1>2, <2>3, <2>4
<1>4. CASE k \notin DOMAIN request.form
  BY <1>1, <1>4 DEF Setting
<1> QED BY <1>3, <1>4

LEMMA InitPageInv == SetupInit => PageInv
<1> SUFFICES ASSUME SetupInit PROVE PageInv
  OBVIOUS
<1>1. CfgInv
  <2>1. cfg = Default
    BY DEF SetupInit
  <2> QED BY <2>1, DefaultAssumption DEF CfgInv, Values
<1>2. boxes = [k \in Keys |-> Shown(k)] /\ touched = {} /\ request = NoRequest
  BY DEF SetupInit
<1>3. BoxesInv
  BY <1>1, <1>2, ShownIsTyped DEF BoxesInv
<1> QED BY <1>1, <1>2, <1>3 DEF PageInv, RequestInv

LEMMA NextPageInv ==
  ASSUME PageInv, [SetupNext]_setupVars
  PROVE  PageInv'
<1>1. CfgInv /\ BoxesInv /\ RequestInv
  BY DEF PageInv
<1>2. CASE OpenPage
  <2>1. /\ boxes' = [k \in Keys |-> Shown(k)] /\ touched' = {} /\ UNCHANGED <<cfg, request>>
        /\ request' = NoRequest
    BY <1>2 DEF OpenPage, setup_html_handler_real
  <2>2. CfgInv' /\ \A k \in Keys : Shown(k)' = Shown(k)
    BY <1>1, <2>1 DEF CfgInv, Shown
  <2>3. BoxesInv'
    BY <1>1, <2>1, <2>2, ShownIsTyped DEF BoxesInv
  <2> QED BY <2>1, <2>2, <2>3 DEF PageInv, RequestInv
<1>3. CASE Type
  <2>0. PICK k \in Keys : \E v \in Typed(k) :
          boxes' = [boxes EXCEPT ![k] = {v}] /\ touched' = touched \cup {k}
    BY <1>3 DEF Type
  <2>1. PICK v \in Typed(k) : boxes' = [boxes EXCEPT ![k] = {v}] /\ touched' = touched \cup {k}
    BY <2>0
  <2>2. UNCHANGED <<cfg, request, fresh>> /\ request' = NoRequest
    BY <1>3 DEF Type
  <2>3. /\ boxes' = [l \in Keys |-> boxes'[l]] /\ boxes'[k] = {v}
        /\ \A l \in Keys : l # k => boxes'[l] = boxes[l]
    BY <1>1, <2>1 DEF BoxesInv
  <2>4. CfgInv' /\ \A l \in Keys : Shown(l)' = Shown(l)
    BY <1>1, <2>2 DEF CfgInv, Shown
  <2>5. BoxesInv'
    BY <1>1, <2>1, <2>2, <2>3, <2>4 DEF BoxesInv
  <2> QED BY <2>2, <2>4, <2>5 DEF PageInv, RequestInv
<1>4. CASE Press
  <2>1. PICK panel \in formPanels, cmd \in {"save", "reset", "cancel"} :
          request' = [cmd |-> cmd, form |-> Form(panel)]
    BY <1>4 DEF Press
  <2>2. UNCHANGED <<cfg, boxes, touched, fresh>>
    BY <1>4 DEF Press
  <2>3. CfgInv' /\ BoxesInv'
    BY <1>1, <2>2 DEF CfgInv, BoxesInv, Shown
  <2>4. request'.form = Form(panel) /\ panel \subseteq Keys
    BY <2>1, KeysFacts
  <2>5. \A k \in DOMAIN Form(panel) : k \in panel /\ boxes[k] # {} /\ Form(panel)[k] = Sent(k)
    BY DEF Form, Sent
  <2>6. RequestInv'
    BY <2>2, <2>4, <2>5 DEF RequestInv, Sent
  <2> QED BY <2>3, <2>6 DEF PageInv
<1>5. CASE AskPassword \/ GiveUp \/ UNCHANGED setupVars
  <2>1. UNCHANGED <<cfg, boxes, touched, fresh>> /\ request' \in {request, NoRequest}
    BY <1>5 DEF AskPassword, GiveUp, setupVars
  <2>2. CfgInv' /\ BoxesInv'
    BY <1>1, <2>1 DEF CfgInv, BoxesInv, Shown
  <2>3. RequestInv'
    BY <1>1, <2>1 DEF RequestInv, Sent
  <2> QED BY <2>2, <2>3 DEF PageInv
<1>6. CASE download_get_handler \/ CutShort
  <2>1. /\ request # NoRequest /\ request' = NoRequest /\ fresh' = FALSE /\ UNCHANGED <<boxes, touched>>
        /\ \E saved \in SUBSET Keys : cfg' = [k \in Keys |-> IF k \in saved THEN Setting(k) ELSE cfg[k]]
    <3>1. CASE download_get_handler
      <4>1. cfg' = [k \in Keys |-> IF k \in Keys THEN Setting(k) ELSE cfg[k]]
        BY <3>1 DEF download_get_handler
      <4> QED BY <3>1, <4>1 DEF download_get_handler
    <3>2. CASE CutShort
      <4>1. PICK n \in 0 .. Len(formDatas) - 1 :
              cfg' = [k \in Keys |-> IF k \in Range(SubSeq(formDatas, 1, n)) THEN Setting(k) ELSE cfg[k]]
        BY <3>2 DEF CutShort
      <4> DEFINE saved == Keys \cap Range(SubSeq(formDatas, 1, n))
      <4>2. cfg' = [k \in Keys |-> IF k \in saved THEN Setting(k) ELSE cfg[k]]
        BY <4>1
      <4>3. saved \in SUBSET Keys
        OBVIOUS
      <4> HIDE DEF saved
      <4> QED BY <3>2, <4>2, <4>3 DEF CutShort
    <3> QED BY <1>6, <3>1, <3>2
  <2>2. CfgInv'
    BY <1>1, <2>1, SettingIsValue DEF CfgInv, Values
  <2>3. BoxesInv'
    BY <1>1, <2>1 DEF BoxesInv
  <2> QED BY <2>1, <2>2, <2>3 DEF PageInv, RequestInv
<1>7. CASE OtherClient
  <2>0. PICK k \in Keys : \E v \in Values(k) : cfg' = [cfg EXCEPT ![k] = v]
    BY <1>7 DEF OtherClient
  <2>1. PICK v \in Values(k) : cfg' = [cfg EXCEPT ![k] = v]
    BY <2>0
  <2>2. fresh' = FALSE /\ UNCHANGED <<boxes, request, touched>>
    BY <1>7 DEF OtherClient
  <2>3. CfgInv'
    BY <1>1, <2>1 DEF CfgInv, Values
  <2>4. BoxesInv' /\ RequestInv'
    BY <1>1, <2>2 DEF BoxesInv, RequestInv, Sent
  <2> QED BY <2>3, <2>4 DEF PageInv
<1> QED BY <1>2, <1>3, <1>4, <1>5, <1>6, <1>7 DEF SetupNext

(* What the page holds and what a request brings are kept apart from what   *)
(* the settings are, whoever changes them (clockServer.c:1600-1667).        *)
THEOREM SetupInvariant == SetupSpec => []PageInv
BY InitPageInv, NextPageInv, PTL DEF SetupSpec

LEMMA UntouchedStep ==
  ASSUME PageInv, [SetupNext]_setupVars, Served("save"), fresh, NEW k \in Keys \ touched
  PROVE  \/ cfg'[k] = cfg[k]
         \/ /\ k \notin Radios \cup Passwords
            /\ "'" \in Range(cfg[k]) \/ HasReference(cfg[k]) \/ ~ Ascii(cfg[k])
<1>1. request.cmd = "save" /\ request # NoRequest /\ request' = NoRequest
  <2>1. NoRequest.cmd = "none"
    BY DEF NoRequest
  <2> QED BY <2>1, Zenon DEF Served
<1>2. cfg'[k] = cfg[k] \/ cfg'[k] = Setting(k)
  <2>1. CASE download_get_handler \/ CutShort
    BY <2>1 DEF download_get_handler, CutShort
  <2>2. CASE ~ (download_get_handler \/ CutShort)
    <3>1. cfg' = cfg
      BY <1>1, <2>2, Zenon
      DEF SetupNext, OpenPage, Type, Press, AskPassword, GiveUp, OtherClient, setupVars
    <3> QED BY <3>1
  <2> QED BY <2>1, <2>2
<1>3. CASE k \in DOMAIN request.form
  <2>0. boxes[k] = Shown(k)
    BY DEF PageInv, BoxesInv
  <2>1. PICK v \in Shown(k) : Param(k) = IF k \in Radios THEN v ELSE Received(v)
    BY <1>1, <1>3, <2>0, ParamIsReceived
  <2>2. Setting(k) = IF k \notin Radios /\ Param(k) = Hidden THEN cfg[k] ELSE Param(k)
    BY <1>1, <1>3 DEF Setting
  <2>3. CASE k \in Radios
    <3>1. Param(k) = cfg[k]
      BY <2>1, <2>3 DEF Shown
    <3> QED BY <1>2, <2>2, <2>3, <3>1, Zenon
  <2>4. CASE k \in Passwords /\ k \notin Radios
    <3>1. Param(k) = Hidden
      BY <2>1, <2>4, HiddenIsReceived, Zenon DEF Shown
    <3> QED BY <1>2, <2>2, <2>4, <3>1, Zenon
  <2>5. CASE k \notin Radios \cup Passwords
    <3>1. Param(k) = Received(Attribute(cfg[k])) /\ k \notin Radios /\ k \notin Passwords
      BY <2>1, <2>5, Zenon DEF Shown
    <3>2. CASE "'" \notin Range(cfg[k]) /\ ~ HasReference(cfg[k]) /\ Ascii(cfg[k])
      <4>1. cfg[k] \in Settings
        BY <3>1 DEF PageInv, CfgInv, Values
      <4>2. cfg[k] \in Seq(Range(cfg[k])) /\ Range(cfg[k]) \cap BeyondAscii = {}
        BY <3>2, <4>1, EntriesAssumption DEF Ascii
      <4>3. Attribute(cfg[k]) = cfg[k] /\ Received(cfg[k]) = cfg[k]
        BY <3>2, <4>2, PlainTextIsShown, DecodingUndoesEncoding
      <4>4. Param(k) = cfg[k]
        BY <3>1, <4>3, Zenon
      <4> QED BY <1>2, <2>2, <4>4, Zenon
    <3> QED BY <2>5, <3>2
  <2> QED BY <2>3, <2>4, <2>5
<1>4. CASE k \notin DOMAIN request.form
  <2>1. Setting(k) = cfg[k]
    BY <1>4 DEF Setting
  <2> QED BY <1>2, <2>1
<1> QED BY <1>3, <1>4

(* Saving a page changes no setting the user has not touched, for any texts *)
(* and passwords, except texts with an apostrophe, a reference to a         *)
(* character or a character beyond ASCII                                    *)
(* (clockServer.c:1600, 1607, 1612-1667, 2091-2120).                        *)
THEOREM SaveTouchesNothingElse == SetupSpec => UntouchedStays
<1>1. ASSUME PageInv, [SetupNext]_setupVars
      PROVE  [Served("save") /\ fresh => \A k \in Keys \ touched :
                \/ cfg'[k] = cfg[k]
                \/ /\ k \notin Radios \cup Passwords
                   /\ "'" \in Range(cfg[k]) \/ HasReference(cfg[k]) \/ ~ Ascii(cfg[k])]_setupVars
  BY <1>1, UntouchedStep
<1> QED BY <1>1, SetupInvariant, PTL DEF SetupSpec, UntouchedStays

LEMMA TypedStep ==
  ASSUME PageInv, download_get_handler, request.cmd = "save",
         NEW k \in DOMAIN request.form \cap touched, NEW v \in boxes[k], k \in Radios \/ Ascii(v)
  PROVE  cfg'[k] = v
<1>1. request # NoRequest /\ cfg' = [l \in Keys |-> Setting(l)]
  BY DEF download_get_handler
<1>2. k \in Keys /\ \E u \in boxes[k] : Param(k) = IF k \in Radios THEN u ELSE Received(u)
  BY <1>1, ParamIsReceived
<1>3. boxes[k] = {v} /\ v \in Typed(k)
  BY <1>2 DEF PageInv, BoxesInv
<1>4. Param(k) = v
  <2>1. CASE k \in Radios
    BY <1>2, <1>3, <2>1, Zenon
  <2>2. CASE k \notin Radios
    <3>1. v \in Entries \cup Secrets /\ Ascii(v)
      BY <1>3, <2>2 DEF Typed
    <3>2. Received(v) = v
      BY <3>1, DecodingGivesBack, Zenon DEF RoundTrip
    <3> QED BY <1>2, <1>3, <2>2, <3>2, Zenon
  <2> QED BY <2>1, <2>2
<1>5. k \notin Radios => Param(k) # Hidden
  BY <1>3, <1>4, DefaultAssumption DEF Typed
<1>6. cfg'[k] = Setting(k)
  BY <1>1, <1>2
<1>7. Setting(k) = Param(k)
  BY <1>5 DEF Setting
<1> QED BY <1>4, <1>6, <1>7

(* A save that is answered has stored what was typed in the boxes of its    *)
(* panel, if it is in ASCII (clockServer.c:1607, 2094-2105, 2729-2758).     *)
THEOREM SaveStoresWhatIsTyped == SetupSpec => TypedIsSaved
<1>1. ASSUME PageInv
      PROVE  download_get_handler /\ request.cmd = "save" =>
               \A k \in DOMAIN request.form \cap touched : \A v \in boxes[k] :
                 k \in Radios \/ Ascii(v) => cfg'[k] = v
  BY <1>1, TypedStep
<1> QED BY <1>1, SetupInvariant, PTL DEF SetupSpec, TypedIsSaved
=============================================================================
