---------------------------- MODULE MC_PulseTime ----------------------------
(* A second of eight ticks, a receiver whose sentences start three to five *)
(* ticks after the pulse (late enough to be refused, too), and a clock     *)
(* that is right, slow or fast by more than a second at first.  A sentence *)
(* is right, two seconds ahead as after a cold start, or a second behind.  *)
EXTENDS PulseTime

MCErrors == {0, -11, 13}
MCOffsets == {-1, 0, 2}
=============================================================================
