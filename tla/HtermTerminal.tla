---------------------------- MODULE HtermTerminal ----------------------------
(* hterm.Terminal (js/hterm_all.js): two screens, the scrollback before      *)
(* them, the scroll region, the tab stops and the modes, and the operations  *)
(* the escape sequences call.  What a page shows of the rows is in module    *)
(* HtermScrollPort.  An operator takes the terminal and returns it.          *)
EXTENDS HtermScreen

CONSTANT TabWidth
ASSUME TabWidthAssumption == TabWidth \in Nat \ {0}

None == -100

Options == [autoCarriageReturn |-> FALSE, insertMode |-> FALSE, originMode |-> FALSE,
            wraparound |-> TRUE, reverseWraparound |-> FALSE, cursorVisible |-> FALSE]

NewTerminal(columns) ==
  [primary |-> EmptyScreen(columns), alternate |-> EmptyScreen(columns),
   isAlternate |-> FALSE, scrollback |-> <<>>, width |-> 0, height |-> 0,
   top |-> None, bottom |-> None, tabStops |-> {}, defaultTabStops |-> TRUE,
   options |-> Options, title |-> <<>>, sent |-> <<>>]

(* The current screen, and an operation on it.                               *)
Screen(t) == IF t.isAlternate THEN t.alternate ELSE t.primary
With(t, s) == IF t.isAlternate THEN [t EXCEPT !.alternate = s] ELSE [t EXCEPT !.primary = s]
On(t, Op(_)) == With(t, Op(Screen(t)))

Row(t) == Screen(t).row
Column(t) == Screen(t).col
Clamp(n, low, high) == Most(low, Least(n, high))
Ints(low, high) == [k \in 1..Most(0, high - low + 1) |-> low + k - 1]

-----------------------------------------------------------------------------
(* The cursor.                                                               *)

SaveCursor(t) == [row |-> Row(t), col |-> Column(t), overflow |-> Screen(t).overflow]

RestoreCursor(t, cursor) ==
  LET row == Clamp(cursor.row, 0, t.height - 1)
      col == Clamp(cursor.col, 0, t.width - 1)
      over == cursor.col > col \/ (cursor.col = col /\ cursor.overflow)
  IN  On(t, LAMBDA s : LET p == SetCursorPosition(s, row, col)
                       IN  [p EXCEPT !.overflow = over \/ @])

ClearCursorOverflow(t) == On(t, LAMBDA s : [s EXCEPT !.overflow = FALSE])

VTScrollTop(t) == IF t.top # None THEN t.top ELSE 0
VTScrollBottom(t) == IF t.bottom # None THEN t.bottom ELSE t.height - 1

SetVTScrollRegion(t, top, bottom) ==
  LET whole == top = 0 /\ bottom = t.height - 1
  IN  [t EXCEPT !.top = IF whole THEN None ELSE top,
                !.bottom = IF whole THEN None ELSE bottom]

SetAbsolutePosition(t, row, col) ==
  On(t, LAMBDA s : SetCursorPosition(s, Clamp(row, 0, t.height - 1),
                                        Clamp(col, 0, t.width - 1)))

SetRelativePosition(t, row, col) ==
  On(t, LAMBDA s : SetCursorPosition(
                     s, Clamp(row + VTScrollTop(t), VTScrollTop(t), VTScrollBottom(t)),
                     Clamp(col, 0, t.width - 1)))

SetPosition(t, row, col) ==
  IF t.options.originMode THEN SetRelativePosition(t, row, col)
  ELSE SetAbsolutePosition(t, row, col)

SetCursorColumn(t, col) == SetAbsolutePosition(t, Row(t), col)
SetCursorRow(t, row) == SetAbsolutePosition(t, row, Column(t))

CursorDown(t, count) ==
  LET low == IF t.options.originMode THEN VTScrollTop(t) ELSE 0
      high == IF t.options.originMode THEN VTScrollBottom(t) ELSE t.height - 1
  IN  SetCursorRow(t, Clamp(Row(t) + count, low, high))

CursorUp(t, count) == CursorDown(t, -count)

CursorRight(t, count) == SetCursorColumn(t, Clamp(Column(t) + count, 0, t.width - 1))

(* The remainder of a negative number is negative, as in JavaScript.         *)
WrapLeft(t, count) ==
  LET col == Column(t) - count
      row == Row(t) - count \div t.width - 1
  IN  IF col >= 0 THEN SetPosition(t, Row(t), col)
      ELSE SetPosition(t, Most(0, IF row < 0 THEN t.height - (-row % t.height) ELSE row),
                       t.width - (-col % t.width))

CursorLeft(t, count) ==
  IF ~t.options.reverseWraparound THEN SetCursorColumn(t, Most(Column(t) - count, 0))
  ELSE IF ~Screen(t).overflow THEN WrapLeft(t, count)
  ELSE IF count = 1 THEN ClearCursorOverflow(t)
  ELSE WrapLeft(ClearCursorOverflow(t), count - 1)

-----------------------------------------------------------------------------
(* Tab stops: the array is sorted and has no column twice, hence a set.      *)

SetTabStop(t, col) == [t EXCEPT !.tabStops = @ \cup {col}]
ClearTabStopAtCursor(t) == [t EXCEPT !.tabStops = @ \ {Column(t)}]
ClearAllTabStops(t) == [t EXCEPT !.tabStops = {}, !.defaultTabStops = FALSE]

SetDefaultTabStops(t, start) ==
  [t EXCEPT !.tabStops = @ \cup {c \in Most(start, 1)..t.width - 1 : c % TabWidth = 0},
            !.defaultTabStops = TRUE]

ForwardTabStop(t) ==
  LET next == {c \in t.tabStops : c > Column(t)}
      edge == SetCursorColumn(t, t.width - 1)
  IN  IF next # {} THEN SetCursorColumn(t, CHOOSE c \in next : \A d \in next : c <= d)
      ELSE On(edge, LAMBDA s : [s EXCEPT !.overflow = Screen(t).overflow])

BackwardTabStop(t) ==
  LET before == {c \in t.tabStops : c < Column(t)}
  IN  SetCursorColumn(t, IF before = {} THEN 1 ELSE CHOOSE c \in before : \A d \in before : d <= c)

-----------------------------------------------------------------------------
(* Rows.                                                                     *)

ScrollOut(t, n) ==
  LET s == Screen(t)
      out == [i \in 1..n |-> [s.rows[i] EXCEPT !.cur = FALSE]]
  IN  With([t EXCEPT !.scrollback = @ \o out],
           [s EXCEPT !.rows = SubSeq(@, n + 1, Len(@))])

Renumber(t, s, start, end) ==
  [s EXCEPT !.rows = [i \in DOMAIN @ |->
     IF i - 1 \in start..end - 1 THEN [@[i] EXCEPT !.index = Len(t.scrollback) + i - 1]
     ELSE @[i]]]

(* Mutant: the number of a new row without the rows of the scrollback.       *)
AppendRowsFromScreen(t, count) ==
  LET s == Screen(t)
      new == [i \in 1..count |-> EmptyRow(Height(s) + i - 1)]
      grown == With(t, [s EXCEPT !.rows = @ \o new])
      extra == Height(s) + count - t.height
      done == IF extra > 0 THEN ScrollOut(grown, extra) ELSE grown
  IN  SetAbsolutePosition(done, Least(Height(s), Height(Screen(done)) - 1), 0)

AppendRows(t, count) ==
  LET s == Screen(t)
      new == [i \in 1..count |-> EmptyRow(Len(t.scrollback) + Height(s) + i - 1)]
      grown == With(t, [s EXCEPT !.rows = @ \o new])
      extra == Height(s) + count - t.height
      done == IF extra > 0 THEN ScrollOut(grown, extra) ELSE grown
  IN  SetAbsolutePosition(done, Least(Height(s), Height(Screen(done)) - 1), 0)

MoveRows(t, from, count, to) ==
  On(t, LAMBDA s :
    LET rest == SubSeq(s.rows, 1, from) \o SubSeq(s.rows, from + count + 1, Height(s))
        moved == SubSeq(s.rows, from + 1, from + count)
        after == [s EXCEPT !.rows = SubSeq(rest, 1, to) \o moved
                                      \o SubSeq(rest, to + 1, Len(rest))]
    IN  Renumber(t, after, Least(from, to), Most(from, to) + count))

ClearRow(t, i) == On(SetAbsolutePosition(t, i, 0), ClearCursorRow)
ClearRows(t, rows) == FoldLeft(ClearRow, t, rows)

InsertLines(t, n) ==
  LET bottom == VTScrollBottom(t)
      count == Least(n, bottom - Row(t))
      moveCount == bottom - Row(t) - count + 1
      moved == IF moveCount = 0 THEN t ELSE MoveRows(t, Row(t), moveCount, Row(t) + count)
  IN  ClearRows(moved, Reverse(Ints(Row(t), Row(t) + count - 1)))

DeleteLines(t, n) ==
  LET maxCount == VTScrollBottom(t) - Row(t) + 1
      count == Least(n, maxCount)
      start == VTScrollBottom(t) - count + 1
      moved == IF count = maxCount THEN t ELSE MoveRows(t, Row(t), count, start)
  IN  ClearCursorOverflow(
        RestoreCursor(ClearRows(moved, Ints(start, start + count - 1)), SaveCursor(t)))

VTScrollUp(t, count) ==
  RestoreCursor(DeleteLines(SetCursorRow(t, VTScrollTop(t)), count), SaveCursor(t))

VTScrollDown(t, count) ==
  RestoreCursor(InsertLines(SetAbsolutePosition(t, VTScrollTop(t), 0), count), SaveCursor(t))

NewLine(t) ==
  LET atEnd == Row(t) = Height(Screen(t)) - 1
  IN  IF t.bottom # None /\ Row(t) = t.bottom THEN SetCursorColumn(VTScrollUp(t, 1), 0)
      ELSE IF ~atEnd THEN SetAbsolutePosition(t, Row(t) + 1, 0)
      ELSE IF t.bottom # None THEN SetAbsolutePosition(t, Row(t), 0)
      ELSE AppendRows(t, 1)

LineFeed(t) == SetCursorColumn(NewLine(t), Column(t))
FormFeed(t) == IF t.options.autoCarriageReturn THEN NewLine(t) ELSE LineFeed(t)

ReverseLineFeed(t) ==
  IF Row(t) = VTScrollTop(t) THEN InsertLines(t, 1) ELSE SetCursorRow(t, Row(t) - 1)

-----------------------------------------------------------------------------
(* Text.                                                                     *)

PrintToken(t, token) ==
  On(t, LAMBDA s :
    LET styled == [s EXCEPT !.style.wc = @ \/ token.wc]
        done == IF t.options.insertMode THEN InsertString(styled, token.str)
                ELSE OverwriteString(styled, token.str)
    IN  [done EXCEPT !.style.wc = FALSE])

BreakLine(t) ==
  IF t.options.wraparound /\ Screen(t).overflow THEN NewLine(On(t, CommitLineOverflow)) ELSE t

(* The loop of print: of what is left of str, what fits in the row of the    *)
(* cursor, and then the rest, after a line break if there is to be one.      *)
RECURSIVE PrintFrom(_, _, _)
PrintRow(t, str, start) ==
  LET width == StrWidth(str)
      over == Column(t) + width - start >= t.width
      room == IF over THEN t.width - Column(t) ELSE width - start
      stay == over /\ ~t.options.wraparound
      substr == IF stay THEN WcSubstr(str, start, room - 1) \o WcFrom(str, width - 1)
                ELSE WcSubstr(str, start, room)
  IN  PrintFrom(On(FoldLeft(PrintToken, t, SplitWide(substr)), MaybeClipCurrentRow),
                str, start + (IF stay THEN width ELSE room))

PrintFrom(t, str, start) ==
  IF start >= StrWidth(str) THEN t ELSE PrintRow(BreakLine(t), str, start)

PrintString(t, str) == PrintFrom(t, str, 0)

Overwrite(t, str) == On(t, LAMBDA s : OverwriteString(s, str))

EraseToLeft(t) ==
  RestoreCursor(Overwrite(SetCursorColumn(t, 0), Spaces(Column(t) + 1)), SaveCursor(t))

(* Without a count opt is 0.                                                 *)
EraseToRight(t, opt) ==
  LET s == Screen(t)
      room == t.width - s.col
      count == IF opt > 0 THEN Least(opt, room) ELSE room
      short == "back" \notin s.style.attr
                 /\ RowWidth(s.rows[s.row + 1].nodes) <= s.col + count
  IN  IF s.overflow THEN t
      ELSE IF short
      THEN ClearCursorOverflow(On(t, LAMBDA x : DeleteChars(x, count)))
      ELSE ClearCursorOverflow(RestoreCursor(Overwrite(t, Spaces(count)), SaveCursor(t)))

EraseLine(t) == ClearCursorOverflow(RestoreCursor(On(t, ClearCursorRow), SaveCursor(t)))

EraseAbove(t) ==
  ClearCursorOverflow(
    RestoreCursor(ClearRows(EraseToLeft(t), Ints(0, Row(t) - 1)), SaveCursor(t)))

EraseBelow(t) ==
  ClearCursorOverflow(
    RestoreCursor(ClearRows(EraseToRight(t, 0), Ints(Row(t) + 1, t.height - 1)),
                  SaveCursor(t)))

Fill(t, ch) ==
  LET One(u, row) == FoldLeft(LAMBDA v, col : Overwrite(SetAbsolutePosition(v, row, col), <<ch>>),
                              u, Ints(0, t.width - 1))
  IN  RestoreCursor(FoldLeft(One, t, Ints(0, t.height - 1)), SaveCursor(t))

InsertSpace(t, count) ==
  ClearCursorOverflow(
    RestoreCursor(On(t, LAMBDA s : MaybeClipCurrentRow(InsertString(s, Spaces(count)))),
                  SaveCursor(t)))

DeleteCharsHere(t, count) ==
  LET s == Screen(t)
      deleted == Least(count, s.cols - s.col)
      short == On(t, LAMBDA x : DeleteChars(x, count))
      filled == On(SetCursorColumn(short, t.width - deleted),
                   LAMBDA x : InsertString(x, Spaces(deleted)))
  IN  ClearCursorOverflow(
        IF deleted # 0 /\ ~IsDefault(s.style) THEN RestoreCursor(filled, SaveCursor(short))
        ELSE short)

ClearHome(s) ==
  LET One(u, i) == ClearCursorRow(SetCursorPosition(u, i, 0))
  IN  IF Height(s) = 0 THEN s
      ELSE SetCursorPosition(FoldLeft(One, s, Ints(0, Height(s) - 1)), 0, 0)

Clear(t) == On(t, LAMBDA s : SetCursorPosition(ClearHome(s), s.row, s.col))

-----------------------------------------------------------------------------
(* The size.                                                                 *)

RealizeWidth(t, columns) ==
  LET old == Screen(t).cols
      u == On([t EXCEPT !.width = columns], LAMBDA s : SetColumnCount(s, columns))
  IN  IF columns > old
      THEN IF t.defaultTabStops THEN SetDefaultTabStops(u, old) ELSE u
      ELSE [u EXCEPT !.tabStops = {c \in @ : c < columns}]

(* Rows are dropped from the end while they are empty and below the cursor.  *)
Droppable(s) ==
  LET spare == {i \in DOMAIN s.rows :
                  /\ i > s.row + 1
                  /\ \A j \in i..Height(s) : RowWidth(s.rows[j].nodes) = 0}
  IN  Height(s) - (IF spare = {} THEN Height(s)
                   ELSE (CHOOSE i \in spare : \A j \in spare : i <= j) - 1)

RealizeHeight(t, rows) ==
  LET s == Screen(t)
      cursor == SaveCursor(t)
      delta == rows - Height(s)
      sized == [t EXCEPT !.height = rows]
      drop == Least(Droppable(s), -delta)
      out == -delta - drop
      shrunk == ScrollOut(On(sized, LAMBDA x : [x EXCEPT !.rows = SubSeq(@, 1, Height(s) - drop)]),
                          out)
      back == SubSeq(t.scrollback, Len(t.scrollback) - delta + 1, Len(t.scrollback))
      grown == With([sized EXCEPT !.scrollback = SubSeq(@, 1, Len(@) - delta)],
                    [s EXCEPT !.rows = back \o @])
      resized == IF delta < 0 THEN shrunk
                 ELSE IF delta = 0 THEN sized
                 ELSE IF delta <= Len(t.scrollback) THEN grown
                 ELSE AppendRows(sized, delta)
      row == IF delta < 0 THEN Most(cursor.row - out, 0)
             ELSE IF delta <= Len(t.scrollback) THEN cursor.row + delta
             ELSE cursor.row
  IN  RestoreCursor(SetVTScrollRegion(resized, None, None), [cursor EXCEPT !.row = row])

RealizeSize(t, columns, rows) ==
  LET wide == IF columns = t.width THEN t ELSE RealizeWidth(t, columns)
  IN  IF rows = t.height THEN wide ELSE RealizeHeight(wide, rows)

(* A screen whose rows have other numbers than those after the scrollback    *)
(* gets new ones; its size is the size of the terminal again.                *)
SetAlternateMode(t, state) ==
  LET swapped == [t EXCEPT !.isAlternate = state]
      s == Screen(swapped)
      stale == s.rows # <<>> /\ s.rows[1].index # Len(t.scrollback)
      numbered == IF stale THEN On(swapped, LAMBDA x : Renumber(t, x, 0, Height(x))) ELSE swapped
      sized == RealizeHeight(RealizeWidth(numbered, t.width), t.height)
  IN  RestoreCursor(sized, SaveCursor(t))

-----------------------------------------------------------------------------
(* Modes and resets.                                                         *)

SetOption(t, option, state) == [t EXCEPT !.options[option] = state]
SetOriginMode(t, state) == SetPosition(SetOption(t, "originMode", state), 0, 0)

SoftReset(t) ==
  SetVTScrollRegion([t EXCEPT !.options = [Options EXCEPT !.cursorVisible = TRUE]], None, None)

(* The first half of a full reset; the other is in module HtermVT.           *)
ResetScreens(t) ==
  LET tabs == SetDefaultTabStops(ClearAllTabStops(t), 0)
      Blank(s) == [ClearHome(s) EXCEPT !.style = Style({})]
  IN  [tabs EXCEPT !.primary = Blank(@), !.alternate = Blank(@)]

(* It is the current screen whose rows are numbered for both, and nothing    *)
(* more is done when it has fewer rows than the other (an exception).        *)
WipeContents(t) ==
  LET bare == [t EXCEPT !.scrollback = <<>>]
      Number(u, rows) == On(u, LAMBDA s : Renumber(u, s, 0, rows))
      one == [Number(bare, Height(t.primary)) EXCEPT !.primary = ClearHome(@)]
      two == [Number(one, Height(t.alternate)) EXCEPT !.alternate = ClearHome(@)]
      rows == Height(Screen(t))
  IN  IF Height(t.primary) > rows THEN Number(bare, rows)
      ELSE IF Height(t.alternate) > rows THEN Number(one, rows)
      ELSE two
=============================================================================
