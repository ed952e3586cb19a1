--------------------------- MODULE ResponseStream ----------------------------
(* What a page handler may expect of the response it writes: the client      *)
(* gets every text, once, in the order written, possibly late; when the      *)
(* handler is done it has them all, and the end of the response.             *)
EXTENDS Sequences, Naturals

CONSTANT Texts

VARIABLES
  written,   \* what the handler wrote
  received,  \* what the client got
  finished   \* no response is being written

vars == <<written, received, finished>>

Prefix(s, t) == Len(s) <= Len(t) /\ \A i \in 1 .. Len(s) : s[i] = t[i]

Init == written = <<>> /\ received = <<>> /\ finished = TRUE

Begin ==
  /\ finished = TRUE /\ finished' = FALSE
  /\ written' = <<>> /\ received' = <<>>

\* Each write may deliver some of what is written, never anything else.
Write(t) ==
  /\ finished = FALSE /\ UNCHANGED finished
  /\ written' = Append(written, t)
  /\ Prefix(received, received') /\ Prefix(received', written')

Finish ==
  /\ finished = FALSE /\ finished' = TRUE
  /\ received' = written /\ UNCHANGED written

Next == Begin \/ Finish \/ \E t \in Texts : Write(t)

Spec == Init /\ [][Next]_vars
=============================================================================
