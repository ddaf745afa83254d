----------------------------- MODULE HtermCells ------------------------------
(* What a row of the terminal is to a program: cells, one for each column,   *)
(* with blanks after the last one.  No nodes, no widths.  A wide character   *)
(* is two cells.  Module Hterm compares the operations of HtermScreen, which *)
(* work on nodes, with those of this module.                                 *)
EXTENDS Integers, Sequences, SequencesExt

Blank == [ch |-> " ", attr |-> {}]
Cell(ch, attr) == [ch |-> ch, attr |-> IF ch = " " THEN attr \ {"bold"} ELSE attr]

CellsOf(str, attr) ==
  FoldLeft(LAMBDA line, ch : line \o IF ch = "W" THEN <<Cell("W", attr), Cell("W2", attr)>>
                                     ELSE <<Cell(ch, attr)>>,
           <<>>, str)

CellAt(line, c) == IF c < Len(line) THEN line[c + 1] ELSE Blank
SameLine(a, b) == \A c \in 0..Len(a \o b) : CellAt(a, c) = CellAt(b, c)

(* Before column c, and from it.                                             *)
CellsTo(line, c) == [i \in 1..c |-> CellAt(line, i - 1)]
CellsFrom(line, c) == SubSeq(line, c + 1, Len(line))

(* Column c does not cut a wide character.                                   *)
NoHalf(line, c) == CellAt(line, c).ch # "W2"

CellsDelete(line, c, n) == CellsTo(line, c) \o CellsFrom(line, c + n)
CellsInsert(line, c, cells) == CellsTo(line, c) \o cells \o CellsFrom(line, c)
CellsOverwrite(line, c, cells) == CellsInsert(CellsDelete(line, c, Len(cells)), c, cells)
=============================================================================
