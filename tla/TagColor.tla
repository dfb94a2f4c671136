------------------------------ MODULE TagColor ------------------------------
(***************************************************************************)
(* Colours as the user interface handles them.  A colour is stored as      *)
(* #RRGGBBAA; the browser's colour input edits #RRGGBB and a slider edits  *)
(* the alpha.  A hex string is the sequence of its digits, without the     *)
(* hash and without the case of its letters; the empty one stands for the  *)
(* colour of a tag that has none.                                          *)
(***************************************************************************)
EXTENDS Integers, Sequences

Digit == 0..15
Rgb == [1..6 -> Digit]
Alpha == 0..255
NoColor == <<>>
Color == [1..8 -> Digit] \cup {NoColor}

\* Fault: the alpha digits are never looked at.
ParseOpaque(color) ==
  [rgb |-> [i \in 1..6 |-> IF i <= Len(color) THEN color[i] ELSE 0], alpha |-> 255]

\* What is missing of the six digits is padded with zeros: no colour is black.
Parse(color) ==
  [rgb |-> [i \in 1..6 |-> IF i <= Len(color) THEN color[i] ELSE 0],
   alpha |-> IF Len(color) >= 8 THEN 16 * color[7] + color[8] ELSE 255]

Compose(rgb, alpha) ==
  [i \in 1..8 |-> IF i <= 6 THEN rgb[i] ELSE IF i = 7 THEN alpha \div 16 ELSE alpha % 16]

-----------------------------------------------------------------------------
Gray == <<14, 5, 14, 7, 14, 11>>   \* NEUTRAL_BG
Black == <<0, 0, 0, 0, 0, 0>>
White == <<15, 15, 15, 15, 15, 15>>

Background(color) == IF color = NoColor THEN Gray ELSE color
=============================================================================
