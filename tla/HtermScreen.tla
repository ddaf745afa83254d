----------------------------- MODULE HtermScreen -----------------------------
(* hterm.Screen (js/hterm_all.js): the rows of one screen of the terminal.   *)
(* A row is a list of DOM nodes, each a run of text of one style, and the    *)
(* cursor is kept twice: as row and column, and as a node with an offset.    *)
(* Rows and columns count from 0 as in the code, nodes from 1.               *)
EXTENDS Integers, Sequences, FiniteSets, SequencesExt

(* Characters are strings; "W" stands for those of two columns.  Of the      *)
(* attributes of a text, "bold" stands for what does not show on a space and *)
(* "back" for a background or a line.                                        *)
Attributes == {"bold", "back"}

CharWidth(ch) == IF ch = "W" THEN 2 ELSE 1
StrWidth(str) == Len(str) + Cardinality({i \in DOMAIN str : CharWidth(str[i]) = 2})
Spaces(n)     == [i \in 1..n |-> " "]

Least(a, b) == IF a < b THEN a ELSE b
Most(a, b)  == IF a > b THEN a ELSE b

(* lib.wc.substr: from the character that column start lies in.              *)
WcFrom(str, start) ==
  LET before == {i \in 0..Len(str) : StrWidth(SubSeq(str, 1, i)) <= start}
  IN  IF start < 0 THEN str
      ELSE SubSeq(str, 1 + CHOOSE i \in before : \A j \in before : j <= i, Len(str))

(* lib.wc.substr from column 0: no more characters than fit in width.        *)
WcTo(str, width) ==
  LET fits == {i \in 0..Len(str) : StrWidth(SubSeq(str, 1, i)) <= width}
  IN  SubSeq(str, 1, CHOOSE i \in fits : \A j \in fits : j <= i)

WcSubstr(str, start, width) == WcTo(WcFrom(str, start), width)

-----------------------------------------------------------------------------
(* Nodes.  A text node is what has no style; a span of a wide character has  *)
(* wc set, which the style of the screen has only while one is printed.      *)

Style(attr) == [attr |-> attr, wc |-> FALSE]
IsDefault(style) == style.attr = {} /\ ~style.wc

Container(style, text) == [attr |-> style.attr, wc |-> style.wc, text |-> text]
TextNode(text) == Container(Style({}), text)
IsText(node)   == IsDefault(node)

MatchesContainer(style, node) ==
  IF IsText(node) THEN IsDefault(style)
  ELSE ~style.wc /\ ~node.wc /\ style.attr = node.attr

NodeWidth(node) == IF node.wc THEN StrWidth(node.text) ELSE Len(node.text)

NodeSubstr(node, start, width) ==
  IF node.wc THEN WcSubstr(node.text, start, width)
  ELSE SubSeq(node.text, start + 1, Least(start + width, Len(node.text)))

(* Without a width; a negative start counts from the end, as in JavaScript.  *)
NodeFrom(node, start) ==
  IF node.wc THEN WcFrom(node.text, start)
  ELSE SubSeq(node.text,
              1 + (IF start < 0 THEN Most(0, Len(node.text) + start) ELSE start),
              Len(node.text))

RECURSIVE Before(_, _)
Before(nodes, i) == IF i = 1 THEN 0 ELSE Before(nodes, i - 1) + NodeWidth(nodes[i - 1])

(* What nodeWidth says of a whole row: a wide character counts once.         *)
RowWidth(nodes)  == FoldLeft(LAMBDA n, node : n + Len(node.text), 0, nodes)

(* splitWidecharString: wide characters one by one, the others in runs.      *)
SplitWide(str) ==
  FoldLeft(LAMBDA toks, ch :
             IF ch = "W" THEN Append(toks, [str |-> <<ch>>, wc |-> TRUE])
             ELSE IF toks # <<>> /\ ~Last(toks).wc
                  THEN Front(toks) \o <<[str |-> Append(Last(toks).str, ch), wc |-> FALSE]>>
                  ELSE Append(toks, [str |-> <<ch>>, wc |-> FALSE]),
           <<>>, str)

-----------------------------------------------------------------------------
(* A screen: its rows, its width, its style, and the cursor.  Of a row,      *)
(* overflow says that its line goes on in the next row, index is its number  *)
(* in the scrollback, cur says that it is cursorRowNode_.                    *)

EmptyRow(index) == [nodes |-> <<TextNode(<<>>)>>, overflow |-> FALSE,
                    index |-> index, cur |-> FALSE]

EmptyScreen(columns) ==
  [rows |-> <<>>, cols |-> columns, style |-> Style({}),
   row |-> 0, col |-> 0, overflow |-> FALSE, node |-> 1, off |-> 0, hung |-> FALSE]

Height(s) == Len(s.rows)

CursorRow(s) == CHOOSE i \in DOMAIN s.rows : s.rows[i].cur
CursorNodes(s) == s.rows[CursorRow(s)].nodes

(* The row and the node the cursor is in, after an operation on them.        *)
PutLine(s, l) ==
  [s EXCEPT !.rows[CursorRow(s)].nodes = l.nodes, !.node = l.at, !.off = l.off]

(* The last node is taken for what is beyond the end of the text.            *)
NodeAt(nodes, from, column) ==
  CHOOSE i \in from..Len(nodes) :
    /\ i = Len(nodes) \/ Before(nodes, i + 1) > column
    /\ \A j \in from..i - 1 : Before(nodes, j + 1) <= column

(* The cursor goes to a row, to a column of it, and to node i, where the     *)
(* column is taken for column at.                                            *)
PutCursor(s, row, col, nodes, i, at) ==
  [s EXCEPT
     !.rows = [j \in DOMAIN @ |->
                 IF j = row + 1 THEN [@[j] EXCEPT !.cur = TRUE, !.nodes = nodes]
                 ELSE [@[j] EXCEPT !.cur = FALSE]],
     !.row = row, !.col = col, !.overflow = FALSE,
     !.node = i, !.off = at - Before(nodes, i)]

(* The search begins at node first, the cursor's, when the row is the same   *)
(* and the column is not before it: its column is what the cursor says.      *)
MoveCursor(s, row, col, nodes, near) ==
  LET first == IF near THEN s.node ELSE 1
      at == col - (IF near THEN s.col - s.off ELSE 0) + Before(nodes, first)
  IN  PutCursor(s, row, col, nodes, NodeAt(nodes, first, at), at)

SetCursorPosition(s, r, c) ==
  LET row == Most(0, Least(r, Height(s) - 1))
      col == Most(0, Least(c, s.cols - 1))
      line == s.rows[row + 1]
  IN  IF s.rows = <<>> THEN s
      ELSE MoveCursor(s, row, col,
                      IF line.nodes = <<>> THEN <<TextNode(<<>>)>> ELSE line.nodes,
                      line.cur /\ col >= s.col - s.off)

SetColumnCount(s, n) ==
  LET t == [s EXCEPT !.cols = n]
  IN  IF s.col >= n THEN SetCursorPosition(t, s.row, n - 1) ELSE t

ClearCursorRow(s) ==
  LET text == IF IsDefault(s.style) THEN <<>> ELSE Spaces(s.cols)
  IN  [PutLine(s, [nodes |-> <<Container(s.style, text)>>, at |-> 1, off |-> 0])
         EXCEPT !.rows[CursorRow(s)].overflow = FALSE,
                !.col = 0, !.overflow = FALSE]

(* Mutant: a row does not learn that its line goes on.                       *)
CommitNothing(s) == s

CommitLineOverflow(s) == [s EXCEPT !.rows[CursorRow(s)].overflow = TRUE]

-----------------------------------------------------------------------------
(* Text.                                                                     *)

ShowsOnSpace(style) == "back" \in style.attr \/ style.wc

(* Mutant: the missing spaces are written in the style of the text.          *)
FillUpInStyle(l, style, str) ==
  [l |-> l, str |-> Spaces(Most(0, l.off - NodeWidth(l.nodes[l.at]))) \o str]

(* The cursor may be beyond the text: the spaces that are missing go before  *)
(* str, to the end of the cursor's node, or into a node of their own.        *)
FillUp(l, style, str) ==
  LET node == l.nodes[l.at]
      missing == l.off - NodeWidth(node)
      ws == Spaces(missing)
  IN  IF missing <= 0 THEN [l |-> l, str |-> str]
      ELSE IF ~ShowsOnSpace(style) THEN [l |-> l, str |-> ws \o str]
      ELSE IF ~ShowsOnSpace(node)
           THEN [l |-> [l EXCEPT !.nodes[l.at].text = @ \o ws], str |-> str]
      ELSE [l |-> [nodes |-> InsertAt(l.nodes, l.at + 1, TextNode(ws)),
                   at |-> l.at + 1, off |-> missing],
            str |-> str]

(* Between two halves of the cursor's node.  A wide character has no halves: *)
(* its node leaves the row, what follows it is the end of the row.           *)
InsertBetween(l, style, str) ==
  LET node == l.nodes[l.at]
      left == [node EXCEPT !.text = NodeSubstr(node, 0, l.off)]
      right == [node EXCEPT !.text = WcFrom(node.text, l.off)]
      new == Container(style, str)
      prefix == SubSeq(l.nodes, 1, l.at - 1)
      suffix == SubSeq(l.nodes, l.at + 1, Len(l.nodes))
  IN  IF left.text = <<>>
      THEN [nodes |-> prefix \o <<right>> \o suffix \o <<new>>,
            at |-> Len(l.nodes) + 1, off |-> StrWidth(str)]
      ELSE [nodes |-> prefix \o <<left, new, right>> \o suffix,
            at |-> l.at + 1, off |-> StrWidth(str)]

(* str into a line without a gap; width is that of what was to be inserted.  *)
InsertFilled(l, style, str, width) ==
  LET node == l.nodes[l.at]
      atEnd == l.off >= NodeWidth(node)
      next == l.at + 1
  IN  IF MatchesContainer(style, node)
      THEN [l EXCEPT !.nodes[l.at].text =
                       IF atEnd THEN @ \o str
                       ELSE NodeSubstr(node, 0, l.off) \o str \o NodeFrom(node, l.off),
                     !.off = @ + width]
      ELSE IF l.off = 0
      THEN IF l.at > 1 /\ MatchesContainer(style, l.nodes[l.at - 1])
           THEN [l EXCEPT !.nodes[l.at - 1].text = @ \o str, !.at = @ - 1,
                          !.off = NodeWidth(l.nodes[l.at - 1]) + StrWidth(str)]
           ELSE [l EXCEPT !.nodes = InsertAt(@, l.at, Container(style, str)),
                          !.off = StrWidth(str)]
      ELSE IF atEnd
      THEN IF next <= Len(l.nodes) /\ MatchesContainer(style, l.nodes[next])
           THEN [l EXCEPT !.nodes[next].text = str \o @, !.at = next,
                          !.off = StrWidth(str)]
           ELSE [l EXCEPT !.nodes = InsertAt(@, next, Container(style, str)),
                          !.at = next, !.off = StrWidth(str)]
      ELSE InsertBetween(l, style, str)

InsertInLine(line, style, str) ==
  LET f == FillUp(line, style, str) IN InsertFilled(f.l, style, f.str, StrWidth(str))

CursorLine(s) == [nodes |-> CursorNodes(s), at |-> s.node, off |-> s.off]

InsertString(s, str) ==
  [PutLine(s, InsertInLine(CursorLine(s), s.style, str))
     EXCEPT !.rows[CursorRow(s)].overflow = FALSE, !.col = @ + StrWidth(str)]

(* One node of the loop of deleteChars: what is left of it, and how much     *)
(* remains to be deleted.  Half a wide character becomes a space.            *)
ShortenNode(node, short, style, off, count) ==
  LET less == NodeWidth(node) - NodeWidth(short)
      half == off < NodeWidth(node) /\ NodeWidth(short) # 0 /\ less = 0
  IN  [node  |-> IF half THEN [node EXCEPT !.text = <<>>] ELSE short,
       space |-> IF half THEN <<Container(style, <<" ">>)>> ELSE <<>>,
       count |-> count - less - (IF half THEN 1 ELSE 0)]

DeleteInNode(node, style, off, count) ==
  ShortenNode(node,
              [node EXCEPT !.text = NodeSubstr(node, 0, off) \o NodeFrom(node, off + count)],
              style, off, count)

(* The space that replaced half a character is the next node of the loop: if *)
(* the count is not 0 by then it is below 0, and the loop does not end.      *)
(* d has the nodes that were dealt with.                                     *)
Deleted(d, x, first) ==
  [nodes |-> d.nodes \o (IF ~first /\ x.node.text = <<>> THEN <<>> ELSE <<x.node>>) \o x.space,
   count |-> x.count, hung |-> x.space # <<>> /\ x.count # 0]

RECURSIVE DeleteLoop(_, _, _, _)
DeleteLoop(l, style, d, i) ==
  IF i > Len(l.nodes) THEN d
  ELSE IF d.count = 0 \/ d.hung
  THEN [d EXCEPT !.nodes = @ \o SubSeq(l.nodes, i, Len(l.nodes))]
  ELSE LET x == DeleteInNode(l.nodes[i], style, IF i = l.at THEN l.off ELSE 0, d.count)
       IN  DeleteLoop(l, style, Deleted(d, x, i = l.at), i + 1)

(* An empty span is not left under the cursor.                               *)
DropEmpty(l) ==
  LET node == l.nodes[l.at] IN
  IF IsText(node) \/ node.text # <<>> THEN l
  ELSE IF l.at > 1
  THEN [nodes |-> RemoveAt(l.nodes, l.at), at |-> l.at - 1,
        off |-> NodeWidth(l.nodes[l.at - 1])]
  ELSE IF Len(l.nodes) > 1
  THEN [nodes |-> Tail(l.nodes), at |-> 1, off |-> 0]
  ELSE [nodes |-> <<TextNode(<<>>)>>, at |-> 1, off |-> 0]

DeleteChars(s, n) ==
  LET count == Least(n, s.cols - s.col)
      kept == [nodes |-> SubSeq(CursorNodes(s), 1, s.node - 1), count |-> count, hung |-> FALSE]
      d == DeleteLoop(CursorLine(s), s.style, kept, s.node)
  IN  IF count = 0 THEN s
      ELSE [PutLine(s, DropEmpty([nodes |-> d.nodes, at |-> s.node, off |-> s.off]))
              EXCEPT !.hung = @ \/ d.hung]

(* Nothing is done when the text is there already.                           *)
OverwriteString(s, str) ==
  LET room == s.cols - s.col
      node == CursorNodes(s)[s.node]
  IN  IF room = 0 THEN s
      ELSE IF MatchesContainer(s.style, node) /\ s.off <= Len(node.text)
                /\ NodeFrom(node, s.off) = str
      THEN [s EXCEPT !.off = @ + StrWidth(str), !.col = @ + StrWidth(str)]
      ELSE InsertString(DeleteChars(s, Least(StrWidth(str), room)), str)

(* Nothing stays behind the cursor, and one column of its own node.          *)
ClipAtCursor(s) ==
  LET nodes == CursorNodes(s)
      node == nodes[s.node]
      cut == IF s.off < NodeWidth(node) - 1
             THEN [node EXCEPT !.text = NodeSubstr(node, 0, s.off + 1)] ELSE node
  IN  PutLine(s, [nodes |-> SubSeq(nodes, 1, s.node - 1) \o <<cut>>,
                  at |-> s.node, off |-> s.off])

MaybeClipCurrentRow(s) ==
  LET edge == SetCursorPosition(s, s.row, s.cols - 1)
  IN  IF RowWidth(CursorNodes(s)) <= s.cols
      THEN IF s.col >= s.cols THEN [edge EXCEPT !.overflow = TRUE] ELSE s
      ELSE IF s.col < s.cols THEN SetCursorPosition(ClipAtCursor(edge), s.row, s.col)
      ELSE [ClipAtCursor(edge) EXCEPT !.overflow = TRUE]
=============================================================================
