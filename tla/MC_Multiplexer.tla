--------------------------- MODULE MC_Multiplexer ---------------------------
(* Two digits of two segments, one in each bank; between them the texts     *)
(* take each segment through every change: stay off, stay on, on, off.      *)
EXTENDS Multiplexer
CONSTANTS a, b
MCTexts == {[d \in Digits |-> IF d = 0 THEN {} ELSE {a, b}],
            [d \in Digits |-> IF d = 0 THEN {a} ELSE {b}],
            [d \in Digits |-> IF d = 0 THEN {a, b} ELSE {a}]}
=============================================================================
