----------------------------- MODULE AnsiColors -----------------------------
(***************************************************************************)
(* src/ansicolors.rs: how text marked with colour codes, "$c" and four     *)
(* characters, becomes the bytes a terminal shows in colour.  A text is a  *)
(* sequence of characters and codes; the output is one of characters and   *)
(* of the escape sequences ansi_term paints around a text.                 *)
(*                                                                         *)
(* A code that a scan of a text finds is one the regular expression finds: *)
(* three ASCII digits and a character.                                     *)
(***************************************************************************)
EXTENDS Integers, SequencesExt

(* A definition named X_mutation is X with a bug one could write; the       *)
(* properties must notice it (README, "Mutants").                           *)

Char(c)       == [char |-> c]
ColourCode(n) == [style |-> n \div 1000, bg |-> n \div 100 % 10, fg |-> n % 100]

IsCode(t)    == "fg" \in DOMAIN t
IsChar(t)    == "char" \in DOMAIN t
IsLF(t)      == t = Char("LF")
IsLineEnd(t) == t \in {Char("LF"), Char("CR")}

DefaultCode == ColourCode(7)                                \* "0007"

-----------------------------------------------------------------------------
(* convert_code.  Styles and colours are numbered as in its tables, None    *)
(* and Black being 0; foregrounds 8 to 15 are the bold ones, a letter       *)
(* stands for its number, and any other foreground is White.                *)

Bold == 1
White == 7

StyleOf(code)   == IF code.style \in 0 .. 6 THEN code.style ELSE 0
FgOf(code)      == IF code.fg \in 0 .. 15 THEN code.fg ELSE White
FgStyleOf(code) == IF FgOf(code) >= 8 THEN Bold ELSE 0

(* A bold style on a plain colour is left out.                              *)
Styles(code) ==
  IF StyleOf(code) = 0 \/ (StyleOf(code) = Bold /\ FgStyleOf(code) = 0)
  THEN <<FgStyleOf(code)>>
  ELSE <<StyleOf(code), FgStyleOf(code)>>

ConvertCode(code) ==
  [styles |-> Styles(code),
   bg     |-> IF code.bg \in 0 .. 7 THEN code.bg ELSE 0,
   colour |-> FgOf(code) % 8]

SameParams_ignoresBg(p, q) == p.styles = q.styles /\ p.colour = q.colour

SameParams(p, q) == p = q                                 \* PartialEq

-----------------------------------------------------------------------------
(* The matches of the regular expression, from the left.                    *)

(* Each code has its match.  Its text ends before a line end or the next    *)
(* code; a run of line ends there is captured, but only looked at, so that  *)
(* the next match is searched from the line end on.  As "." does not match  *)
(* LF, that match begins after the last LF before its code, and so does the *)
(* preamble.                                                                *)
TextEnd(m, c) ==
  Min({Len(m) + 1} \cup {i \in c + 1 .. Len(m) : IsLineEnd(m[i]) \/ IsCode(m[i])})
EolEnd(m, e) == Min({Len(m) + 1} \cup {i \in e .. Len(m) : ~IsLineEnd(m[i])})

(* The match of the code at c is searched from the end of the one before.   *)
SearchedFrom(m, c) ==
  LET b == SelectLastInSubSeq(m, 1, c - 1, IsCode)
  IN  IF b = 0 THEN 1 ELSE TextEnd(m, b)

(* The match of the code at c, searched from position p.                    *)
Capture(m, p, c) ==
  LET start == Max({p, 1 + SelectLastInSubSeq(m, p, c - 1, IsLF)})
      e     == TextEnd(m, c)
  IN  [preamble |-> SubSeq(m, start, c - 1), code |-> m[c],
       text |-> SubSeq(m, c + 1, e - 1), eol |-> SubSeq(m, e, EolEnd(m, e) - 1)]

Part(code, text, eol) == [code |-> code, text |-> text, eol |-> eol]

Split_noPreamble(cap) == <<Part(cap.code, cap.text, cap.eol)>>

(* A preamble becomes a part of its own.                                    *)
Split(cap) ==
  (IF cap.preamble = <<>> THEN <<>> ELSE <<Part(DefaultCode, cap.preamble, <<>>)>>)
  \o <<Part(cap.code, cap.text, cap.eol)>>

(* A text without a code is one part, line ends and all.                    *)
Parts(m) ==
  IF \A i \in DOMAIN m : ~IsCode(m[i]) THEN <<Part(DefaultCode, m, <<>>)>>
  ELSE FlattenSeq([i \in DOMAIN m |->
         IF IsCode(m[i]) THEN Split(Capture(m, SearchedFrom(m, i), i)) ELSE <<>>])

-----------------------------------------------------------------------------
(* convert_string.                                                          *)

Reset == [off |-> TRUE]

Paint_skipsEmpty(params, text) ==
  IF text = <<>> THEN <<>> ELSE <<params>> \o text \o <<Reset>>

(* ansi_term: the escape sequences are there even if the text is empty.     *)
Paint(params, text) == <<params>> \o text \o <<Reset>>

(* A part is painted unless the one before it was of the same parameters.   *)
ConvertString(m, ansi_mode) ==
  LET parts     == Parts(m)
      params(i) == ConvertCode(parts[i].code)
      Plain(i)  == ~ansi_mode \/ (i > 1 /\ SameParams(params(i), params(i - 1)))
  IN  FlattenSeq([i \in DOMAIN parts |->
        (IF Plain(i) THEN parts[i].text ELSE Paint(params(i), parts[i].text))
        \o parts[i].eol])
=============================================================================
