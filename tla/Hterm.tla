-------------------------------- MODULE Hterm --------------------------------
(* The terminal of the page under what the program writes, in pieces cut     *)
(* anywhere, and under new sizes of the window.                              *)
EXTENDS HtermVT, HtermSelection

CONSTANTS Streams,     \* by theme: the sequences of characters a program writes
          Sizes,       \* by theme: the sizes of the window
          Columns,     \* the width of a new screen
          MaxWrites,   \* bound: sequences written
          MaxResizes,  \* bound: new sizes
          Samples      \* the strings CellsAgree inserts

ASSUME ThemesAssumption == DOMAIN Streams = DOMAIN Sizes

VARIABLES theme,     \* the streams and sizes of this behaviour
          m,         \* terminal and parser
          rest,      \* written and not yet received
          promise,   \* the terminal, had the last stream come in one piece
          text,      \* everything written, for the theme "text"
          writes, resizes

vars == <<theme, m, rest, promise, text, writes, resizes>>

C == INSTANCE HtermCells

Size(columns, rows) == [columns |-> columns, rows |-> rows]
NoPromise == [none |-> TRUE]

CellsIn(nodes) == FoldLeft(LAMBDA line, node : line \o C!CellsOf(node.text, node.attr), <<>>, nodes)

(* Three things are known not to work and are no steps here: insertLines     *)
(* below the scroll region, where the row moves and the cursor does not; an  *)
(* operation on text at the second half of a wide character; and the end of  *)
(* a string, ESC \, in two pieces.                                           *)
AtHalf(t) == ~C!NoHalf(CellsIn(CursorNodes(Screen(t))), Column(t))
Returns(stream) == Head(stream) = "CR" \/ (Head(stream) # "ESC" /\ Screen(m).overflow
                                             /\ m.options.wraparound)
Sound(stream) ==
  /\ (\E i \in DOMAIN stream : stream[i] = "L") => Row(m) <= VTScrollBottom(m)
  /\ AtHalf(m) => Returns(stream)
Cuttable(stream, n) ==
  n = Len(stream) \/ ~(stream[n] = "ESC" /\ stream[n + 1] = "\\")

Init ==
  /\ theme \in DOMAIN Streams
  /\ \E size \in Sizes[theme] : m = RealizeSize(NewVT(Columns), size.columns, size.rows)
  /\ rest = <<>> /\ promise = NoPromise /\ text = <<>>
  /\ writes = 0 /\ resizes = 0

(* A stream is written, and its first piece is received.                     *)
Write ==
  /\ rest = <<>> /\ writes < MaxWrites
  /\ \E stream \in Streams[theme] :
       /\ Sound(stream)
       /\ \E n \in DOMAIN stream :
            /\ Cuttable(stream, n)
            /\ m' = Interpret(m, SubSeq(stream, 1, n))
            /\ rest' = SubSeq(stream, n + 1, Len(stream))
            /\ promise' = IF n = Len(stream) THEN NoPromise ELSE Interpret(m, stream)
       /\ text' = IF theme = "text" THEN text \o stream ELSE text
  /\ writes' = writes + 1
  /\ UNCHANGED <<theme, resizes>>

Receive ==
  /\ rest # <<>>
  /\ m' = Interpret(m, rest)
  /\ rest' = <<>>
  /\ UNCHANGED <<theme, promise, text, writes, resizes>>

(* onResize_: the window has a new size.                                     *)
Resize ==
  /\ resizes < MaxResizes
  /\ \E size \in Sizes[theme] :
       /\ size # Size(m.width, m.height)
       /\ m' = RealizeSize(m, size.columns, size.rows)
       /\ rest # <<>> => ~AtHalf(m')
  /\ resizes' = resizes + 1
  /\ promise' = NoPromise
  /\ UNCHANGED <<theme, rest, text, writes>>

(* The keys that clear everything.                                           *)
Wipe ==
  /\ theme = "modes" /\ rest = <<>> /\ writes < MaxWrites
  /\ m' = WipeContents(m)
  /\ promise' = NoPromise
  /\ writes' = writes + 1
  /\ UNCHANGED <<theme, rest, text, resizes>>

Next == Write \/ Receive \/ Resize \/ Wipe
Spec == Init /\ [][Next]_vars

-----------------------------------------------------------------------------
(* Properties.                                                               *)

Hung == m.primary.hung \/ m.alternate.hung

(* The cursor the screen works with (row node, node, offset) is where its    *)
(* row and column say, the screen has the height of the terminal, and the    *)
(* rows are numbered from the first of the scrollback on: what selection,    *)
(* drawing and every operation on text rely on (hterm.Screen, moveRows_).    *)
CursorSound ==
  LET s == Screen(m)
  IN  /\ Height(s) = m.height /\ s.cols = m.width
      /\ s.row \in 0..m.height - 1 /\ s.col \in 0..m.width - 1
      /\ \A i \in DOMAIN s.rows : /\ s.rows[i].cur <=> i = s.row + 1
                                  /\ s.rows[i].index = Len(m.scrollback) + i - 1
      /\ s.node \in DOMAIN CursorNodes(s)
      /\ ~Hung => s.col = Before(CursorNodes(s), s.node) + s.off
      /\ \A i \in DOMAIN m.scrollback : m.scrollback[i].index = i - 1

(* Deleting, inserting and overwriting at the cursor, which split, join and  *)
(* drop nodes, do to the row what they would do to a row of cells, whatever  *)
(* the nodes the row has come to consist of (insertString, deleteChars and   *)
(* overwriteString).  Half a wide character is not among the cases: the code *)
(* does not get it right.                                                    *)
CellsAgree ==
  LET s == Screen(m)
      line == CellsIn(CursorNodes(s))
      room == s.cols - s.col
      Ok(after, cells) ==
        /\ C!SameLine(CellsIn(CursorNodes(after)), cells)
        /\ after.col = Before(CursorNodes(after), after.node) + after.off
      Whole(n) == C!NoHalf(line, s.col) /\ C!NoHalf(line, s.col + n)
  IN  rest = <<>> /\ ~Hung =>
        /\ \A n \in 1..room : Whole(n) => Ok(DeleteChars(s, n), C!CellsDelete(line, s.col, n))
        /\ \A str \in Samples :
             LET cells == C!CellsOf(str, s.style.attr)
                 wide == [s EXCEPT !.style.wc = "W" \in Range(str)]
             IN  /\ Whole(0) => Ok(InsertString(wide, str), C!CellsInsert(line, s.col, cells))
                 /\ Whole(Len(cells)) /\ Len(cells) <= room =>
                      Ok(OverwriteString(wide, str), C!CellsOverwrite(line, s.col, cells))

(* Where the output is cut into pieces makes no difference: the same text on *)
(* the rows, the same cursor, modes and parser (interpret, which keeps the   *)
(* parse function and its arguments from one piece to the next).             *)
PiecesAgree ==
  LET Rows(t) == [i \in 1..Len(t.scrollback) + Height(Screen(t)) |->
                    LET row == (t.scrollback \o Screen(t).rows)[i]
                    IN  <<C!CellsTo(CellsIn(row.nodes), t.width), row.overflow>>]
      a == m  b == promise
  IN  (rest = <<>> /\ promise # NoPromise /\ ~Hung) =>
        /\ Rows(a) = Rows(b)
        /\ SaveCursor(a) = SaveCursor(b)
        /\ a.func \in {"csi", "osc", "string"} => a.args = b.args
        /\ <<a.func, a.GL, a.sets, a.saved, a.modes, a.options, a.tabStops, a.sent, a.title>>
             = <<b.func, b.GL, b.sets, b.saved, b.modes, b.options, b.tabStops, b.sent, b.title>>

(* Of a program that only prints lines nothing is lost: scrollback and       *)
(* screen together, with the rows that go on joined (getRowsText), are the   *)
(* lines it printed, also after the window became lower or higher.           *)
TextKept ==
  LET rows == m.scrollback \o Screen(m).rows
      Text(i) == FoldLeft(LAMBDA str, node : str \o node.text, <<>>, rows[i].nodes)
      read == FoldLeft(LAMBDA str, i : str \o Text(i)
                         \o IF rows[i].overflow \/ i = Len(rows) THEN <<>> ELSE <<"LF">>,
                       <<>>, [i \in DOMAIN rows |-> i])
      Shown(str) == SelectSeq(str, LAMBDA ch : ch # "CR")
      ends == {n \in 0..Len(read) : \A i \in n + 1..Len(read) : read[i] = "LF"}
      written == Shown(text)
      wends == {n \in 0..Len(written) : \A i \in n + 1..Len(written) : written[i] = "LF"}
      Trim(str, cut) == SubSeq(str, 1, CHOOSE n \in cut : \A k \in cut : n <= k)
  IN  theme = "text" /\ rest = <<>> => Trim(read, ends) = Trim(written, wends)

(* A double click on a character that is no bracket selects the word of the  *)
(* line around it, across nodes of different styles and across the rows the  *)
(* line overflows into, and what is copied then is that word: the browser's  *)
(* range is a pair of nodes and offsets, the copied text is cut out of the   *)
(* text of whole rows (expandSelection, getSelectionText).  In lines with    *)
(* wide characters the code takes characters for columns.                    *)
WordSelected ==
  LET rows == Screen(m).rows
      Word(line, n) ==
        {<<i, j>> \in (1..n) \X (n..Len(line)) :
           Left(line[i]) /\ Right(line[j]) /\ \A k \in i..j : Inside(line[k])}
  IN  theme \in {"text", "edit"} /\ rest = <<>> /\ ~Hung =>
        \A r \in DOMAIN rows :
          LET line == LineText(rows, r)
              At(n) == NodeAndOffsetWithOverflow(rows, r, n)
          IN  (LineStartRow(rows, r) = r /\ "W" \notin Range(line)) =>
                \A n \in DOMAIN line :
                  LET words == Word(line, n)
                      longest == CHOOSE w \in words :
                                   \A v \in words : w[1] <= v[1] /\ v[2] <= w[2]
                      range == ExpandSelection(rows, [start |-> At(n - 1), end |-> At(n)])
                  IN  words # {} => SelectionText(rows, range) = SubSeq(line, longest[1], longest[2])
=============================================================================
