----------------------------- MODULE Term2html -----------------------------
(***************************************************************************)
(* How the server of the web interface makes the page's terminal from what *)
(* a command has printed so far.  A text is a sequence of tokens: the      *)
(* characters, "NL", the codes that erase a line ("EL") or set the column  *)
(* ("CHA0"), and those that select a rendition.  The HTML is a sequence of *)
(* characters with their style.                                            *)
(***************************************************************************)
EXTENDS Integers, Sequences, SequencesExt

(* Select graphic rendition, and its form without a parameter.             *)
Renditions == {"0", "1", "7", "31", "44", "91"}
Codes == Renditions \cup {"m", "EL", "CHA0"}

Plain == [fg |-> -1, bg |-> -1, bold |-> FALSE, negative |-> FALSE]

Rendition(state, code) ==
  CASE code = "0"  -> Plain
    [] code = "1"  -> [state EXCEPT !.bold = TRUE]
    [] code = "7"  -> [state EXCEPT !.negative = TRUE]
    [] code = "31" -> [state EXCEPT !.fg = 1]
    [] code = "91" -> [state EXCEPT !.fg = 9]
    [] code = "44" -> [state EXCEPT !.bg = 4]

(* Bold makes one of the first eight colours bright; there is no colour -1.*)
Bright(color, bold) == IF bold /\ color \in 0 .. 7 THEN color + 8 ELSE color

Css(state) ==
  LET fg == Bright(IF state.negative THEN state.bg ELSE state.fg, state.bold)
      bg == IF state.negative THEN state.fg ELSE state.bg
  IN [class |-> IF fg = -1 THEN -2 ELSE state.fg, bg |-> bg, bold |-> state.bold]

(* What comes before a code that erases is removed up to the beginning of  *)
(* its line, codes of renditions included; a column 0 keeps nothing.       *)
Erased(text) ==
  LET Erases(i) == \E j \in i .. Len(text) :
        text[j] \in {"EL", "CHA0"} /\ \A k \in i .. j : text[k] # "NL"
  IN SelectSeq([i \in DOMAIN text |-> IF Erases(i) THEN "" ELSE text[i]],
               LAMBDA token : token # "")

(* A rendition counts if text follows it at once.  Text that follows       *)
(* another code, or none, has no style, whatever the state is.             *)
Step(out, text, i) ==
  IF text[i] \in Codes
  THEN LET counts == text[i] \in Renditions /\ i < Len(text) /\ text[i + 1] \notin Codes
       IN [out EXCEPT !.state = IF counts THEN Rendition(@, text[i]) ELSE @,
                      !.styled = counts]
  ELSE [out EXCEPT !.html = Append(@, [ch |-> text[i],
          css |-> Css(IF out.styled THEN out.state ELSE Plain)])]

term2html(text0) ==
  LET text == Erased(text0)
  IN FoldLeftDomain(LAMBDA out, i : Step(out, text, i),
                    [state |-> Plain, styled |-> FALSE, html |-> <<>>], text).html

(* The lines that are complete.                                            *)
Finished(html) ==
  LET ends == {i \in DOMAIN html : html[i].ch = "NL"}
  IN IF ends = {} THEN <<>> ELSE SubSeq(html, 1, CHOOSE i \in ends : \A j \in ends : j <= i)
=============================================================================
