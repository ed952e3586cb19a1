----------------------------- MODULE Multiplexer -----------------------------
(***************************************************************************)
(* The four-digit display.  A timer interrupt on core 1 lights one digit   *)
(* at a time; say4 prepares, for each digit, the four register words the   *)
(* interrupt will store.  Nothing locks the words: say4 runs in            *)
(* timer_clock_task under the interrupt's feet, and during start-up in     *)
(* app_main on the other core, so the two interleave word by word.         *)
(*                                                                         *)
(* A segment's pin is low when it is on (SEGON = 0): a "set" word turns    *)
(* segments off and a "clear" word turns them on.  Words are sets of       *)
(* segments; Lo and Hi are the segments on GPIO pins below and above 32.   *)
(***************************************************************************)
EXTENDS Integers

CONSTANTS
  NDIGITS,     \* the number of digits, 4
  Lo, Hi,      \* the segments by bank
  Texts,       \* what say4 is asked to show: a glyph for each digit
  Delays,      \* the on and off delays the brightness rule yields
  Costs        \* timer counts the end of the interrupt takes

Digits == 0 .. NDIGITS - 1
Segs   == Lo \cup Hi

ASSUME DigitsAssumption == NDIGITS \in Nat \ {0}
ASSUME SegsAssumption   == Lo \cap Hi = {}
ASSUME TextsAssumption  == Texts \subseteq [Digits -> SUBSET Segs]
ASSUME DelayAssumption  ==
  /\ Delays \subseteq Nat /\ Costs \subseteq Nat
  /\ \A d \in Delays, c \in Costs : c < d   \* MINDELAY

WordNames == {"loSet", "hiSet", "loClear", "hiClear"}
\* The order in which say4 writes and the interrupt reads the words.
After == [loSet |-> "hiSet", hiSet |-> "loClear", loClear |-> "hiClear"]

VARIABLES
  seg, lit,    \* the segments driven on, the digits driven on
  idig, displayIsOn,
  isr,         \* the interrupt: "wait", the word it stores next, "on", "arm"
  armed,       \* the next alarm is ahead of the counter
  words,       \* sLoSet, sHiSet, sLoClear, sHiClear
  text, old,   \* the text being written or last written, the one before
  wdig, wword, \* say4: the digit and the word it writes next; NDIGITS = done
  shown        \* history: glyphs the words of idig held while it was loaded

muxVars == <<seg, lit, idig, displayIsOn, isr, armed, words, text, old,
             wdig, wword, shown>>
isrVars == <<seg, lit, idig, displayIsOn, isr, armed>>
sayVars == <<words, text, old, wdig, wword>>

\* A mistake the runs must catch: the words that turn segments off are forgotten.
Packed_OnlyOn(g) == [loSet   |-> {}, hiSet   |-> {},
                     loClear |-> Lo \cap g, hiClear |-> Hi \cap g]

\* makegpio: the words that show the glyph g.
Packed(g) == [loSet   |-> Lo \ g, hiSet   |-> Hi \ g,
              loClear |-> Lo \cap g, hiClear |-> Hi \cap g]

\* The glyphs found in the words of digit d.
Glyphs(d) ==
  IF wdig > d THEN {text[d]}
  ELSE IF wdig < d \/ wword = "loSet" THEN {old[d]}
  ELSE {old[d], text[d]}

\* app_main turns all digits off and calls say4 before the timer starts.
MuxInit ==
  /\ seg = {} /\ lit = {}
  /\ idig = 0 /\ displayIsOn = FALSE
  /\ isr = "wait" /\ armed = TRUE
  /\ text \in Texts /\ old = text
  /\ words = [d \in Digits |-> Packed(text[d])]
  /\ wdig = NDIGITS /\ wword = "loSet"
  /\ shown = {}
-----------------------------------------------------------------------------
(* timer_group0_Multiplexer_isr.                                           *)

\* A mistake the runs must catch: the digit is advanced before the lit one is turned off.
TurnOff_Advanced ==
  /\ isr = "wait" /\ armed /\ displayIsOn
  /\ armed' = FALSE
  /\ idig' = (idig + 1) % NDIGITS
  /\ lit' = lit \ {idig'}
  /\ isr' = "arm"
  /\ UNCHANGED <<seg, displayIsOn, sayVars, shown>>

\* MYgpio_set_level(digs[(idig)&3], DIGOFF);
TurnOff ==
  /\ isr = "wait" /\ armed /\ displayIsOn
  /\ armed' = FALSE
  /\ lit' = lit \ {idig}
  /\ isr' = "arm"
  /\ UNCHANGED <<seg, idig, displayIsOn, sayVars, shown>>

\* A mistake the runs must catch: the digit is turned on before its segments are driven.
NextDigit_OnEarly ==
  /\ isr = "wait" /\ armed /\ ~displayIsOn
  /\ armed' = FALSE
  /\ idig' = (idig + 1) % NDIGITS
  /\ lit' = {idig'}
  /\ isr' = "loSet"
  /\ shown' = Glyphs(idig')
  /\ UNCHANGED <<seg, displayIsOn, sayVars>>

\* idig=(idig+1)&(NDIGITS-1);
NextDigit ==
  /\ isr = "wait" /\ armed /\ ~displayIsOn
  /\ armed' = FALSE
  /\ idig' = (idig + 1) % NDIGITS
  /\ isr' = "loSet"
  /\ shown' = Glyphs(idig')
  /\ UNCHANGED <<seg, lit, displayIsOn, sayVars>>

\* GPIO.out_w1ts = sLoSet[idig]; and the three stores after it.
StoreWord ==
  /\ isr \in WordNames
  /\ seg' = IF isr \in {"loSet", "hiSet"} THEN seg \ words[idig][isr]
                                          ELSE seg \cup words[idig][isr]
  /\ isr' = IF isr = "hiClear" THEN "on" ELSE After[isr]
  /\ UNCHANGED <<lit, idig, displayIsOn, armed, sayVars, shown>>

\* MYgpio_set_level(digs[idig], DIGON);
TurnOn ==
  /\ isr = "on"
  /\ lit' = lit \cup {idig}
  /\ isr' = "arm"
  /\ UNCHANGED <<seg, idig, displayIsOn, armed, sayVars, shown>>

\* A mistake the runs must catch: the alarm is set ahead of the counter read on entry to the interrupt.
Rearm_FromEntry ==
  /\ isr = "arm"
  /\ displayIsOn' = ~displayIsOn
  /\ \E delay \in Delays, entry, cost \in Costs : armed' = (entry + cost < delay)
  /\ isr' = "wait"
  /\ UNCHANGED <<seg, lit, idig, sayVars, shown>>

\* The alarm is put delay counts ahead of the counter, which goes on
\* counting meanwhile; an alarm that is behind it never comes.
Rearm ==
  /\ isr = "arm"
  /\ displayIsOn' = ~displayIsOn
  /\ \E delay \in Delays, cost \in Costs : armed' = (cost < delay)
  /\ isr' = "wait"
  /\ UNCHANGED <<seg, lit, idig, sayVars, shown>>

timer_group0_Multiplexer_isr == TurnOff \/ NextDigit \/ StoreWord \/ TurnOn \/ Rearm
-----------------------------------------------------------------------------
(* say4, one word at a time.  Its own copies (sLoSet_ and the others) are  *)
(* complete when they are stored; only one task at a time calls it.        *)
StartSay4 ==
  /\ wdig = NDIGITS
  /\ text' \in Texts /\ old' = text
  /\ wdig' = 0 /\ wword' = "loSet"
  /\ UNCHANGED <<words, isrVars, shown>>

\* A mistake the runs must catch: the words are built where the interrupt reads them, from nothing.
WriteWord_InPlace ==
  /\ wdig < NDIGITS
  /\ IF wword = "loSet" /\ words[wdig] # [w \in WordNames |-> {}]
        THEN /\ words' = [words EXCEPT ![wdig] = [w \in WordNames |-> {}]]
             /\ UNCHANGED <<wword, wdig>>
        ELSE /\ words' = [words EXCEPT ![wdig][wword] = Packed(text[wdig])[wword]]
             /\ IF wword = "hiClear" THEN wword' = "loSet" /\ wdig' = wdig + 1
                                     ELSE wword' = After[wword] /\ UNCHANGED wdig
  /\ UNCHANGED <<text, old, isrVars>>
  /\ shown' = shown \cup IF isr \in WordNames THEN Glyphs(idig)' ELSE {}

WriteWord ==
  /\ wdig < NDIGITS
  /\ words' = [words EXCEPT ![wdig][wword] = Packed(text[wdig])[wword]]
  /\ IF wword = "hiClear" THEN wword' = "loSet" /\ wdig' = wdig + 1
                          ELSE wword' = After[wword] /\ UNCHANGED wdig
  /\ UNCHANGED <<text, old, isrVars>>
  /\ shown' = shown \cup IF isr \in WordNames THEN Glyphs(idig)' ELSE {}

say4 == StartSay4 \/ WriteWord

MuxNext == timer_group0_Multiplexer_isr \/ say4

MuxSpec == MuxInit /\ [][MuxNext]_muxVars

\* An armed timer interrupts, and an interrupt runs to its end.
MuxFairSpec == MuxSpec /\ WF_muxVars(timer_group0_Multiplexer_isr)
-----------------------------------------------------------------------------
MuxTypeOK ==
  /\ seg \in SUBSET Segs /\ lit \in SUBSET Digits
  /\ idig \in Digits /\ displayIsOn \in BOOLEAN
  /\ isr \in WordNames \cup {"wait", "on", "arm"} /\ armed \in BOOLEAN
  /\ words \in [Digits -> [WordNames -> SUBSET Segs]]
  /\ text \in Texts /\ old \in Texts
  /\ wdig \in 0 .. NDIGITS /\ wword \in WordNames
  /\ shown \in SUBSET SUBSET Segs

(* The segments change only in the dark, so no digit ever shows what is    *)
(* meant for another one (clock7seg.c:143-160).                            *)
ChangesInTheDark == [][seg' # seg => lit = {}]_<<seg, lit>>

(* At most one digit is lit, the one whose segments are driven.            *)
OneDigitLit == lit \subseteq {idig}

(* A lit digit shows its glyph; caught while say4 was storing its words it  *)
(* may mix the old and the new one, but a segment that both have in common *)
(* never flickers (clock7seg.c:155-158, 408-421).                          *)
ShowsItsGlyph ==
  lit # {} =>
    \A s \in Segs : \E g \in shown : (s \in seg) <=> (s \in g)

(* Once say4 stops being called, the display settles on its last text      *)
(* (clock7seg.c:143-161, 401-424).                                         *)
SettlesOnText ==
  <>[](wdig = NDIGITS) => <>[](lit # {} => seg = text[idig])

(* Whatever say4 does, every digit is lit again and again                  *)
(* (clock7seg.c:135-184).                                                  *)
EveryDigitIsLit == \A d \in Digits : []<>(d \in lit)
=============================================================================
