---------------------------- MODULE MC_SetupPage ----------------------------
(* A text that the form has to encode, one that looks encoded, the          *)
(* characters beyond ASCII, and what the page does not show as it is: texts *)
(* with an apostrophe, with a reference and with a byte beyond ASCII.       *)
EXTENDS SetupPage

MCEntries ==
  {<<"%", "4", "1">>, <<" ", "+">>, <<"+", "+">>, <<Latin>>, <<Foreign>>, <<"&", "'">>, <<"&">>}
MCSecrets == {<<"8">>, <<Latin>>}
MCSettings ==
  {<<"%", "4", "1">>, <<"%", "4", "1", "'">>, <<" ", "+">>, <<"+", "+">>, <<Byte>>,
   <<"&", "num65533">>, <<"&", "&", "num39">>, <<"&", "'">>, <<"&">>}
MCDefault == [k \in Keys |->
  CASE k = "wifi" -> "off" [] k \in Passwords -> <<"8">> [] OTHER -> <<" ", "+">>]
=============================================================================
