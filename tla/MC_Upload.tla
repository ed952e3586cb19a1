------------------------------ MODULE MC_Upload ------------------------------
(* Two maps of six columns with runs of one to five, and codes of one byte *)
(* and of two, and a map of another size; a byte of three bits.            *)
EXTENDS Upload

SmallMap == <<0>>
ThreeMaps == {<<0, 0, 0, 9, 9, 9>>, <<2, 5, 5, 5, 5, 5>>, SmallMap}
SmallMaps == {SmallMap}
EmptyFlash == <<>>
=============================================================================
