----------------------------- MODULE RespBuffer ------------------------------
(***************************************************************************)
(* The page handlers emit a page in hundreds of small texts.  clockHtml.c  *)
(* gathers them in a buffer of bufsiz characters and sends it as one       *)
(* chunk; a text too large for the buffer goes out on its own.             *)
(*                                                                         *)
(* In HTTP a chunk of no characters ends the response, and whatever comes  *)
(* after it is not part of the page: the client is modelled so.  The       *)
(* buffer is a static that outlives the response.  Only the HTTP server's  *)
(* task calls this code, so a call is one action.  A text is what it is    *)
(* and its size; an empty text leaves no trace in a page.                  *)
(***************************************************************************)
EXTENDS Sequences, Naturals

CONSTANTS
  bufsiz,    \* the buffer's size with its terminating 0, 256
  Texts,
  SizeOf,    \* the characters of a text
  MaxTexts   \* bound on the texts of a page

ASSUME SizesAssumption ==
  bufsiz \in Nat \ {0} /\ MaxTexts \in Nat /\ SizeOf \in [Texts -> Nat]

VARIABLES
  serving,   \* a handler is writing a page
  written,   \* history: the texts it emitted
  allocated, \* the buffer is not NULL
  buffer, strlen,
  client     \* what the browser got, and whether it saw the end

vars == <<serving, written, allocated, buffer, strlen, client>>

Init ==
  /\ serving = FALSE /\ written = <<>>
  /\ allocated = FALSE /\ buffer = <<>> /\ strlen = 0
  /\ client = [got |-> <<>>, ended |-> TRUE]
-----------------------------------------------------------------------------
Content(t) == IF SizeOf[t] = 0 THEN <<>> ELSE <<t>>

\* httpd_resp_sendstr_chunk, and how a browser takes the chunk.
Chunk(cl, s, n) ==
  IF cl.ended = TRUE THEN cl
  ELSE IF n = 0 THEN [got |-> cl.got, ended |-> TRUE]
  ELSE [got |-> cl.got \o s, ended |-> FALSE]

\* A mistake the runs must catch: an empty buffer is sent too.
Flush_Empty(cl) == Chunk(cl, buffer, strlen)

\* if(strlen(buffer)>0) httpd_resp_sendstr_chunk(req,buffer);
Flush(cl) == IF strlen > 0 THEN Chunk(cl, buffer, strlen) ELSE cl

\* A mistake the runs must catch: no room is left for the terminating 0.
Fits_NoNul(n) == n <= bufsiz

Fits(n) == n <= bufsiz - 1
-----------------------------------------------------------------------------
BeginPage ==
  /\ serving = FALSE /\ serving' = TRUE
  /\ written' = <<>> /\ client' = [got |-> <<>>, ended |-> FALSE]
  /\ UNCHANGED <<allocated, buffer, strlen>>

\* bufferedhttpd_resp_sendstr_chunk, when the text fits beside the others ...
AppendText(t) ==
  /\ Fits(strlen + SizeOf[t])
  /\ buffer' = buffer \o Content(t) /\ strlen' = strlen + SizeOf[t]
  /\ UNCHANGED client

\* ... when it would not fit in an empty buffer ...
FlushAndSend(t) ==
  /\ ~Fits(strlen + SizeOf[t]) /\ ~Fits(SizeOf[t])
  /\ client' = Chunk(Flush(client), <<t>>, SizeOf[t])
  /\ buffer' = <<>> /\ strlen' = 0

\* ... and when it takes the place of the texts before it.
FlushAndKeep(t) ==
  /\ ~Fits(strlen + SizeOf[t]) /\ Fits(SizeOf[t])
  /\ client' = Flush(client)
  /\ buffer' = Content(t) /\ strlen' = SizeOf[t]

EmitText(t) ==
  /\ serving = TRUE /\ Len(written) < MaxTexts
  /\ written' = written \o Content(t)
  /\ allocated' = TRUE
  /\ AppendText(t) \/ FlushAndSend(t) \/ FlushAndKeep(t)
  /\ UNCHANGED serving

\* bufferedhttpd_resp_send_chunk: a file in the flash, of known size, not empty.
EmitFile(t) ==
  /\ serving = TRUE /\ Len(written) < MaxTexts /\ SizeOf[t] > 0
  /\ written' = written \o <<t>>
  /\ client' = Chunk(Flush(client), <<t>>, SizeOf[t])
  /\ buffer' = <<>> /\ strlen' = 0
  /\ UNCHANGED <<serving, allocated>>

\* A mistake the runs must catch: the last texts stay for the next page.
EmitNull_NoFlush ==
  /\ serving = TRUE /\ serving' = FALSE
  /\ client' = Chunk(client, <<>>, 0)
  /\ UNCHANGED <<allocated, buffer, strlen, written>>

\* emit(NULL), the last call of every handler: flush, free, end the response.
EmitNull ==
  /\ serving = TRUE /\ serving' = FALSE
  /\ client' = Chunk(Flush(client), <<>>, 0)
  /\ allocated' = FALSE /\ buffer' = <<>> /\ strlen' = 0
  /\ UNCHANGED written

Next == BeginPage \/ EmitNull \/ \E t \in Texts : EmitText(t) \/ EmitFile(t)

Spec == Init /\ [][Next]_vars
-----------------------------------------------------------------------------
(* The buffer never holds more than its bufsiz - 1 characters, and there is *)
(* one whenever it holds any: strcat never writes past it or through NULL   *)
(* (clockHtml.c:36-38, 54, 59).                                             *)
TypeOK ==
  /\ serving \in BOOLEAN /\ allocated \in BOOLEAN
  /\ written \in Seq(Texts) /\ buffer \in Seq(Texts)
  /\ strlen \in 0 .. bufsiz - 1
  /\ strlen > 0 => allocated = TRUE
  /\ client \in [got : Seq(Texts), ended : BOOLEAN]

(* While a page is written the browser has not seen its end, and what it    *)
(* got and what the buffer holds are the page, in order; after it, the      *)
(* buffer is gone and nothing of one page is left for the next one          *)
(* (clockHtml.c:34-76, 100-106).                                            *)
NothingIsLost ==
  /\ client.got \o buffer = written
  /\ strlen = 0 <=> buffer = <<>>
  /\ client.ended = TRUE <=> serving = FALSE
  /\ serving = FALSE => buffer = <<>> /\ allocated = FALSE

Stream == INSTANCE ResponseStream
            WITH received <- client.got, finished <- (serving = FALSE)

(* The handlers may ignore the buffer: their texts reach the browser as     *)
(* ResponseStream says (clockHtml.c:34-106).                                *)
ImplementsStream == Stream!Spec
=============================================================================
