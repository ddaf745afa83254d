--------------------------- MODULE HtermSelection ----------------------------
(* Selecting in the terminal (js/hterm_all.js): expandSelection of           *)
(* hterm.Screen, which a double click calls, and getSelectionText of         *)
(* hterm.Terminal.  A point is a row, a node of it and an offset in the      *)
(* node; a line is a row with those it overflows into.                       *)
EXTENDS HtermScreen

RowText(row) == FoldLeft(LAMBDA str, node : str \o node.text, <<>>, row.nodes)
Joined(rows) == FoldLeft(LAMBDA str, row : str \o RowText(row), <<>>, rows)

LineStartRow(rows, r) ==
  CHOOSE k \in 1..r : /\ \A i \in k..r - 1 : rows[i].overflow
                      /\ k > 1 => ~rows[k - 1].overflow
LineEndRow(rows, r) ==
  CHOOSE k \in r..Len(rows) : /\ \A i \in r..k - 1 : rows[i].overflow
                              /\ k < Len(rows) => ~rows[k].overflow
LineText(rows, r) == Joined(SubSeq(rows, r, LineEndRow(rows, r)))

(* Positions in a line, from a point and back.                               *)

PositionWithinRow(nodes, p) == Before(nodes, p.node) + p.off
PositionWithOverflow(rows, r, p) ==
  Len(Joined(SubSeq(rows, r, p.row - 1))) + PositionWithinRow(rows[p.row].nodes, p)

(* Mutant: the offset in the row is taken for the one in the node.           *)
NodeAndOffsetOfRow(nodes, position) ==
  LET i == CHOOSE i \in DOMAIN nodes :
             /\ position <= Before(nodes, i) + NodeWidth(nodes[i])
             /\ \A j \in 1..i - 1 : position > Before(nodes, j) + NodeWidth(nodes[j])
  IN  [node |-> i, off |-> Least(position, NodeWidth(nodes[i]))]

(* Between two nodes, and between two rows, the end of the first is taken.   *)
NodeAndOffsetWithinRow(nodes, position) ==
  LET i == CHOOSE i \in DOMAIN nodes :
             /\ position <= Before(nodes, i) + NodeWidth(nodes[i])
             /\ \A j \in 1..i - 1 : position > Before(nodes, j) + NodeWidth(nodes[j])
  IN  [node |-> i, off |-> position - Before(nodes, i)]

WidthUpTo(rows, r, k) == Len(Joined(SubSeq(rows, r, k)))

RowOfPosition(rows, r, end, position) ==
  CHOOSE k \in r..end : /\ position <= WidthUpTo(rows, r, k)
                        /\ \A j \in r..k - 1 : position > WidthUpTo(rows, r, j)

PointInRow(row, at) == [row |-> row, node |-> at.node, off |-> at.off]

PointOfPosition(rows, r, row, position) ==
  PointInRow(row, NodeAndOffsetWithinRow(rows[row].nodes,
                                         position - WidthUpTo(rows, r, row - 1)))

NodeAndOffsetWithOverflow(rows, r, position) ==
  PointOfPosition(rows, r, RowOfPosition(rows, r, LineEndRow(rows, r), position), position)

-----------------------------------------------------------------------------
(* The characters of a match: "(" stands for the brackets and quotes, which  *)
(* like a space are in none; ";" for what is only inside one; "." for what   *)
(* may begin but not end one.                                                *)
Inside(ch) == ch \notin {" ", "("}
Left(ch)   == Inside(ch) /\ ch # ";"
Right(ch)  == Left(ch) /\ ch # "."

(* The range from one position of the line to another.                       *)
SetRange(rows, r, start, end) ==
  [start |-> NodeAndOffsetWithOverflow(rows, r, start),
   end   |-> NodeAndOffsetWithOverflow(rows, r, end)]

(* Where a match up to the end of a text may begin, and where one from its   *)
(* beginning on may end.                                                     *)
Lefts(upTo) ==
  {n \in 0..Len(upTo) - 1 :
     Left(upTo[n + 1]) /\ \A i \in n + 2..Len(upTo) : Inside(upTo[i])}
Rights(from) ==
  {n \in 1..Len(from) : Right(from[n]) /\ \A i \in 1..n - 1 : Inside(from[i])}

(* What is found to the left counts characters and is used as a column.      *)
FirstOf(lefts) == CHOOSE n \in lefts : \A k \in lefts : n <= k
LastOf(from, start, rights) ==
  start + StrWidth(SubSeq(from, 1, CHOOSE n \in rights : \A k \in rights : k <= n))

ExpandTo(rows, range, r, start, end, first, last) ==
  IF first > start \/ last < end THEN range ELSE SetRange(rows, r, first, last)

ExpandInLine(rows, range, r, text, start, end) ==
  LET from == WcSubstr(text, start, StrWidth(text))
      lefts == Lefts(WcSubstr(text, 0, end))
      rights == Rights(from)
  IN  IF " " \in Range(WcSubstr(text, start, end - start)) \/ lefts = {} \/ rights = {} THEN range
      ELSE ExpandTo(rows, range, r, start, end, FirstOf(lefts), LastOf(from, start, rights))

ExpandFrom(rows, range, r) ==
  ExpandInLine(rows, range, r, LineText(rows, r), PositionWithOverflow(rows, r, range.start),
               PositionWithOverflow(rows, r, range.end))

ExpandSelection(rows, range) == ExpandFrom(rows, range, LineStartRow(rows, range.start.row))

(* Terminal.getRowsText of rows from to to; the rows before are elsewhere.   *)
RowsText(rows, from, to) ==
  FoldLeft(LAMBDA str, i : str \o RowText(rows[i])
             \o IF i < to /\ ~rows[i].overflow THEN <<"LF">> ELSE <<>>,
           <<>>, [i \in 1..to - from + 1 |-> from + i - 1])

(* text without what is before and after the selection in its rows.          *)
Cut(text, before, after) == WcSubstr(text, before, StrWidth(text) - after - before)

SelectionText(rows, range) ==
  LET nodes == rows[range.end.row].nodes
  IN  Cut(RowsText(rows, range.start.row, range.end.row),
          PositionWithinRow(rows[range.start.row].nodes, range.start),
          Before(nodes, Len(nodes) + 1) - PositionWithinRow(nodes, range.end))
=============================================================================
