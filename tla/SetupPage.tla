------------------------------ MODULE SetupPage ------------------------------
(***************************************************************************)
(* The setup page in a browser, and what the server makes of its forms.    *)
(* The settings are those of a panel with a radio, a text and a password,  *)
(* and of one with a password.  The server's task handles one request at a *)
(* time, so that a request is one step here; what happens inside a save,   *)
(* in RAM and in flash, is in ConfigStore.                                 *)
(***************************************************************************)
EXTENDS Integers, Sequences, FiniteSets, SequencesExt, Functions

CONSTANTS
  Entries,    \* what a text box can hold: sequences of characters
  Secrets,    \* what is typed into a password box
  Settings,   \* what a setting with a text box can be
  Default     \* the value of each setting as delivered

\* struct FormData, struct KEYVAL and struct FormPanel.
formDatas == <<"wfiname", "wfipass", "mypass", "wifi">>
Keys == Range(formDatas)
Radios == {"wifi"}
Passwords == {"wfipass", "mypass"}
vals == {"on", "off"}
formPanels == {{"mypass"}, {"wifi", "wfiname", "wfipass"}}

Hidden == <<"~">>
-----------------------------------------------------------------------------
(* Texts.  A character in ASCII is itself; of those beyond it there is one  *)
(* of the form's charset, which browsers take for Windows-1252, the byte it *)
(* is sent as, and one of another charset.  After "&" the rest of a         *)
(* reference to a character is one character here.                          *)
Latin == "latin"     \* an e acute
Byte == "E9"         \* what is sent of it, which no text in UTF-8 has alone
Foreign == "foreign" \* the replacement character, U+FFFD
References == [rest \in {"num39", "num65533"} |-> IF rest = "num39" THEN "'" ELSE Foreign]

BeyondAscii == {Latin, Byte, Foreign}
Ascii(v) == BeyondAscii \cap Range(v) = {}
HasReference(v) ==
  \E i \in 1 .. Len(v) - 1 : v[i] = "&" /\ v[i + 1] \in DOMAIN References

\* What the box shows of value='...' in a page in UTF-8: an apostrophe ends the
\* attribute, and a reference is the character it refers to.
Attribute(v) ==
  LET from[i \in 1 .. Len(v) + 2] ==
        IF i > Len(v) THEN <<>>
        ELSE IF v[i] = "'" THEN <<>>
        ELSE IF i < Len(v) /\ v[i] = "&" /\ v[i + 1] \in DOMAIN References
          THEN <<References[v[i + 1]]>> \o from[i + 2]
        ELSE <<IF v[i] = Byte THEN Foreign ELSE v[i]>> \o from[i + 1]
  IN from[1]

\* How a form with accept-charset='ASCII' sends a character.
Encoded(c) ==
  CASE c = " " -> <<"+">>
    [] c = "+" -> <<"%", "2", "B">>
    [] c = "%" -> <<"%", "2", "5">>
    [] c = "'" -> <<"%", "2", "7">>
    [] c = "&" -> <<"%", "2", "6">>
    [] c = Latin -> <<"%", "E", "9">>
    [] c = Foreign -> <<"%", "2", "6", "num65533">>
    [] OTHER -> <<c>>

EncodedText(v) ==
  LET from[i \in 1 .. Len(v) + 1] ==
        IF i > Len(v) THEN <<>> ELSE Encoded(v[i]) \o from[i + 1]
  IN from[1]

HexDigits == [i \in 0 .. 15 |->
  <<"0", "1", "2", "3", "4", "5", "6", "7", "8", "9", "A", "B", "C", "D", "E", "F">>[i + 1]]
HexValue(c) == CHOOSE i \in 0 .. 15 : HexDigits[i] = c
Codes == [c \in {" ", "+", "%", "'", "&", "A", Byte} |->
  CASE c = " " -> 32 [] c = "%" -> 37 [] c = "&" -> 38 [] c = "'" -> 39 [] c = "+" -> 43
    [] c = "A" -> 65 [] c = Byte -> 233]
Character(code) == CHOOSE c \in DOMAIN Codes : Codes[c] = code

\* "%" and two digits.
Escape(v, i) ==
  v[i] = "%" /\ i + 2 <= Len(v) /\ v[i + 1] \in Range(HexDigits) /\ v[i + 2] \in Range(HexDigits)

\* A mistake the runs must catch: the plus sign is left as it is.
urldecode2_Plus(v) ==
  LET from[i \in 1 .. Len(v) + 3] ==
        IF i > Len(v) THEN <<>>
        ELSE IF Escape(v, i)
          THEN <<Character(16 * HexValue(v[i + 1]) + HexValue(v[i + 2]))>> \o from[i + 3]
        ELSE <<v[i]>> \o from[i + 1]
  IN from[1]

urldecode2(v) ==
  LET from[i \in 1 .. Len(v) + 3] ==
        IF i > Len(v) THEN <<>>
        ELSE IF Escape(v, i)
          THEN <<Character(16 * HexValue(v[i + 1]) + HexValue(v[i + 2]))>> \o from[i + 3]
        ELSE (IF v[i] = "+" THEN <<" ">> ELSE <<v[i]>>) \o from[i + 1]
  IN from[1]

\* What the server makes of the text in a box.
Received(v) == urldecode2(EncodedText(v))

(* Decoding gives back what was encoded, of every text in ASCII.  The run   *)
(* checks it of its own texts through TypedIsSaved and UntouchedStays,      *)
(* which rest on it.                                                        *)
RoundTrip == \A v \in Entries \cup Secrets \cup {Hidden} : Ascii(v) => Received(v) = v
-----------------------------------------------------------------------------
Typed(k) == IF k \in Radios THEN vals ELSE IF k \in Passwords THEN Secrets ELSE Entries

\* What a setting can be: a client other than a browser may give a radio a value of no
\* button.
Values(k) ==
  IF k \in Radios THEN vals \cup {"none"}
  ELSE IF k \in Passwords THEN {Received(v) : v \in Secrets} ELSE Settings

ASSUME DefaultAssumption ==
  /\ Default = [k \in Keys |-> Default[k]] /\ \A k \in Keys : Default[k] \in Values(k)
  /\ Hidden \notin Entries \cup Secrets

\* A text is characters; a box shows what a setting is, and what it holds may become one.
ASSUME EntriesAssumption ==
  /\ \A v \in Entries \cup Secrets \cup Settings : v \in Seq(Range(v))
  /\ \A v \in Settings : Attribute(v) \in Entries
  /\ \A v \in Entries : Received(v) \in Settings

VARIABLES
  cfg,       \* the settings
  boxes,     \* what the page in the browser has in its boxes; none if not checked
  password,  \* the one the browser sends
  request,   \* on its way to the server
  touched,   \* history: the keys the user has changed since the page came
  fresh      \* history: no setting has changed since the page came

setupVars == <<cfg, boxes, password, request, touched, fresh>>

NoRequest == [cmd |-> "none", form |-> <<>>]

\* What setup_html_handler_real writes for a setting: a password is never in the page,
\* and no button is checked if none has the setting's value.
Shown(k) ==
  IF k \in Radios THEN {v \in vals : v = cfg[k]}
  ELSE IF k \in Passwords THEN {Hidden} ELSE {Attribute(cfg[k])}

SetupInit ==
  /\ cfg = Default /\ boxes = [k \in Keys |-> Shown(k)] /\ password \in Secrets
  /\ request = NoRequest /\ touched = {} /\ fresh = TRUE
-----------------------------------------------------------------------------
\* The browser.

\* The page is asked for, after a redirect too, and comes.
setup_html_handler_real ==
  /\ boxes' = [k \in Keys |-> Shown(k)] /\ touched' = {} /\ fresh' = TRUE

OpenPage ==
  /\ request = NoRequest
  /\ setup_html_handler_real
  /\ UNCHANGED <<cfg, password, request>>

\* enablewifi greys the router's name and password out.
Enabled(k) == k \in {"wfiname", "wfipass"} => boxes["wifi"] # {"off"}

Type ==
  /\ request = NoRequest
  /\ \E k \in Keys : Enabled(k) /\ \E v \in Typed(k) : boxes' = [boxes EXCEPT ![k] = {v}]
                             /\ touched' = touched \cup {k}
  /\ UNCHANGED <<cfg, password, request, fresh>>

\* A disabled box and a radio without a checked button are not sent.
Form(panel) ==
  [k \in {p \in panel : Enabled(p) /\ boxes[p] # {}} |->
     LET v == CHOOSE v \in boxes[k] : TRUE IN IF k \in Radios THEN v ELSE EncodedText(v)]

\* One of the BUTTONS of a panel's form.
Press ==
  /\ request = NoRequest
  /\ \E panel \in formPanels, cmd \in {"save", "reset", "cancel"} :
       request' = [cmd |-> cmd, form |-> Form(panel)]
  /\ UNCHANGED <<cfg, boxes, password, touched, fresh>>

\* After a 401 the browser asks for the password and sends the request again.
AskPassword ==
  /\ request # NoRequest /\ password # cfg["mypass"]
  /\ password' \in Secrets
  /\ UNCHANGED <<cfg, boxes, request, touched, fresh>>

\* The user gives up, or the clock is gone.
GiveUp ==
  /\ request # NoRequest /\ request' = NoRequest
  /\ UNCHANGED <<cfg, boxes, password, touched, fresh>>
-----------------------------------------------------------------------------
\* The server.

Param(k) == IF k \in Radios THEN request.form[k] ELSE urldecode2(request.form[k])

\* A mistake the runs must catch: the sign for a hidden password is taken for one.
Setting_NoHidden(k) ==
  IF k \notin DOMAIN request.form \/ request.cmd = "cancel" THEN cfg[k]
  ELSE IF request.cmd = "reset" THEN Default[k] ELSE Param(k)

\* What the request makes of a setting.
Setting(k) ==
  IF k \notin DOMAIN request.form \/ request.cmd = "cancel" THEN cfg[k]
  ELSE IF request.cmd = "reset" THEN Default[k]
  ELSE IF k \notin Radios /\ Param(k) = Hidden THEN cfg[k] ELSE Param(k)

isLoggedIn == password = cfg["mypass"]

\* save.cmd, reset.cmd, cancel.cmd, then the redirect to the page.
download_get_handler ==
  /\ request # NoRequest /\ isLoggedIn
  /\ cfg' = [k \in Keys |-> Setting(k)]
  /\ request' = NoRequest /\ fresh' = FALSE
  /\ UNCHANGED <<boxes, password, touched>>

\* NVS is full, or the power fails: the first of the settings are changed, the clock
\* restarts, and the page stays where it is.
CutShort ==
  /\ request # NoRequest /\ isLoggedIn
  /\ \E n \in 0 .. Len(formDatas) - 1 :
       cfg' = [k \in Keys |-> IF k \in Range(SubSeq(formDatas, 1, n)) THEN Setting(k) ELSE cfg[k]]
  /\ request' = NoRequest /\ fresh' = FALSE
  /\ UNCHANGED <<boxes, password, touched>>

\* Another browser, curl or the magnet.
OtherClient ==
  /\ \E k \in Keys : \E v \in Values(k) : cfg' = [cfg EXCEPT ![k] = v]
  /\ fresh' = FALSE
  /\ UNCHANGED <<boxes, password, request, touched>>

SetupNext ==
  \/ OpenPage \/ Type \/ Press \/ AskPassword \/ GiveUp
  \/ download_get_handler \/ CutShort \/ OtherClient

SetupSpec == SetupInit /\ [][SetupNext]_setupVars
-----------------------------------------------------------------------------
Served(cmd) == request.cmd = cmd /\ request' = NoRequest

(* "Save each section as you make changes": a setting that the user has     *)
(* not touched keeps its value when the page is saved, the hidden           *)
(* passwords, greyed boxes and unchecked radios among them; unless settings *)
(* have changed since the page came, or it is a text that the page cannot   *)
(* show as it is: nothing is escaped in value='...', which is neither for   *)
(* apostrophes and references nor for bytes beyond ASCII                    *)
(* (clockServer.c:1600, 1607, 1612-1667, 2091-2120).                        *)
UntouchedStays ==
  [][Served("save") /\ fresh => \A k \in Keys \ touched :
       \/ cfg'[k] = cfg[k]
       \/ /\ k \notin Radios \cup Passwords
          /\ "'" \in Range(cfg[k]) \/ HasReference(cfg[k]) \/ ~ Ascii(cfg[k])]_setupVars

(* A save that is answered has stored what is in the boxes of its panel,    *)
(* through the browser's encoding and urldecode2: as it was typed, if that  *)
(* is in the charset of the form, ASCII                                     *)
(* (clockServer.c:1607, 2094-2105, 2729-2758).                              *)
TypedIsSaved ==
  [][download_get_handler /\ request.cmd = "save" =>
       \A k \in DOMAIN request.form \cap touched : \A v \in boxes[k] :
         k \in Radios \/ Ascii(v) => cfg'[k] = v]_setupVars
=============================================================================
