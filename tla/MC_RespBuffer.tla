---------------------------- MODULE MC_RespBuffer ----------------------------
(* A buffer of four characters: a text that is empty, two that share it,    *)
(* one that fills it and one that never fits.                               *)
EXTENDS RespBuffer
CONSTANTS none, one, two, full, large
MCTexts == {none, one, two, full, large}
MCSizeOf == [t \in MCTexts |-> CASE t = none -> 0 [] t = one -> 1
                                 [] t = two -> 2 [] t = full -> 3 [] t = large -> 4]
=============================================================================
