---------------------------- MODULE MC_NmeaParser ----------------------------
(* Names of one letter; a sentence of two fields, the first of them longer, *)
(* and a sentence of three.                                                 *)
EXTENDS NmeaParser
MCName    == [k \in Kinds |-> IF k = "GPRMC" THEN <<"R">> ELSE <<"S">>]
MCLengths == [k \in Kinds |-> IF k = "GPRMC" THEN <<2, 1>> ELSE <<1, 1, 1>>]
=============================================================================
