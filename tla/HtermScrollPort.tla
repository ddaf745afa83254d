--------------------------- MODULE HtermScrollPort ---------------------------
(* hterm.ScrollPort (js/hterm_all.js), with the parts of hterm.Terminal it   *)
(* shows: which rows the terminal has, and which of them the document of the *)
(* page holds.  A row has an identity, that of its DOM node, and a number,   *)
(* its rowIndex, which changes when rows move; the page finds rows by their  *)
(* number.  What a row says and what it looks like is in module HtermScreen. *)
(* A character is one pixel high and wide, and only heights are modelled.    *)
(* At the end: whether the program or the user has what is done with the     *)
(* mouse, and the timer that lets the cursor blink.                          *)
EXTENDS Integers, Sequences, FiniteSets, SequencesExt, Functions

None == 0
TopFold == -1
BottomFold == -2
TopBag == -3
BottomBag == -4
Hidden == -1

Least(a, b) == IF a < b THEN a ELSE b
Most(a, b)  == IF a > b THEN a ELSE b

(* queue has the timers without delay, in the order they were set and run,   *)
(* each once (a second one would do what the first did); later has the       *)
(* scrollDown timer of 10 ms, the collapse timer of 50 ms after a copy, and  *)
(* scrolled, the browser's event after scrollTop changed.                    *)
Schedule(p, timer)  == IF timer \in Range(p.queue) THEN p ELSE [p EXCEPT !.queue = Append(@, timer)]
ScheduleLater(p, timer, due) == IF due THEN [p EXCEPT !.later = @ \union {timer}] ELSE p

RowCount(p) == Len(p.back) + Len(p.screen)

GetRowNode(p, i) ==
  IF i < Len(p.back) THEN p.back[i + 1]
  ELSE IF i < RowCount(p) THEN p.screen[i - Len(p.back) + 1] ELSE None

(* back, screen and hidden are the scrollback and the two screens; top is    *)
(* scrollTop, area the height of what can be scrolled, win the height of the *)
(* window, vis the rows it had when it was last measured, bags the rows      *)
(* whose text the two select bags have.                                      *)
NewPage(height, window) ==
  [back |-> <<>>, screen |-> [i \in 1..height |-> i], hidden |-> <<>>, alt |-> FALSE,
   index |-> [i \in 1..height |-> i - 1], text |-> {}, row |-> 0, height |-> height,
   win |-> window, vis |-> 0, top |-> 0, area |-> 0, end |-> TRUE,
   dom |-> <<>>, prev |-> <<>>, bags |-> (TopBag :> <<>> @@ BottomBag :> <<>>),
   sel |-> <<None, None>>, first |-> None, last |-> None,
   cursor |-> Hidden, thrown |-> FALSE, wiped |-> FALSE,
   queue |-> <<>>, later |-> {}]

(* What is lower than before cannot stay scrolled as far.                    *)
SyncScrollHeight(p) ==
  LET top == Least(p.top, Most(0, RowCount(p) - p.win))
  IN  ScheduleLater([p EXCEPT !.area = RowCount(p), !.top = top], "scrolled", top # p.top)

SyncRowNodesDimensions(p) == [p EXCEPT !.vis = p.win]

Resize(p) == Schedule(SyncRowNodesDimensions(SyncScrollHeight(p)), "resized")

(* The two folds are in the document from the start; the bags are not.       *)
DecoratePort(p) == Resize([p EXCEPT !.dom = <<TopFold, BottomFold>>])

(* The terminal in its div is drawn after the page has been told the size.   *)
Decorate(p) == Schedule(DecoratePort(p), "redraw")

-----------------------------------------------------------------------------
(* The document.  A selected row that is taken out of it, were it to be put  *)
(* somewhere else at once, is no longer selected.                            *)

Position(p, x) == CHOOSE i \in DOMAIN p.dom : p.dom[i] = x
Following(p, x) == p.dom[Position(p, x) + 1]

Take(p, rows) ==
  [p EXCEPT !.dom = SelectSeq(@, LAMBDA x : x \notin rows),
            !.sel = [i \in 1..2 |-> IF @[i] \in rows THEN None ELSE @[i]]]

Place(p, x, before) ==
  LET q == Take(p, {x})
      i == IF x = before THEN Position(p, x) ELSE Position(q, before)
  IN  [q EXCEPT !.dom = InsertAt(@, i, x)]

PlaceAfter(p, x, node) ==
  LET q == Take(p, {x})
  IN  [q EXCEPT !.dom = InsertAt(@, Position(q, node) + 1, x)]

(* The nodes from i to j, if there are any.                                  *)
Nodes(p, i, j) == {p.dom[k] : k \in Most(i, 1)..Least(j, Len(p.dom))}

-----------------------------------------------------------------------------
(* The selection (hterm.ScrollPort.Selection.sync).                          *)

SyncSelection(p) ==
  LET a == p.sel[1]  f == p.sel[2]
      forward == p.index[a] <= p.index[f]
  IN  IF None \in {a, f} THEN [p EXCEPT !.first = None, !.last = None]
      ELSE [p EXCEPT !.first = IF forward THEN a ELSE f,
                     !.last = IF forward THEN f ELSE a]

IsMultiline(p) == p.index[p.first] # p.index[p.last]

-----------------------------------------------------------------------------
(* Drawing.                                                                  *)

(* Rows between the two selected ones are of no use on the same side.        *)
DropBetween(p) ==
  IF Position(p, p.first) > Position(p, p.last) THEN [p EXCEPT !.thrown = TRUE]
  ELSE Take(p, Nodes(p, Position(p, p.first) + 1, Position(p, p.last) - 1))

DrawTopFold(p, topRow) ==
  IF p.first = None \/ p.index[p.first] >= topRow
  THEN [p EXCEPT !.dom = <<TopFold>> \o SelectSeq(@, LAMBDA x : x # TopFold)]
  ELSE LET q == IF ~IsMultiline(p) \/ p.index[p.last] >= topRow
                THEN PlaceAfter(p, TopFold, p.first)
                ELSE DropBetween(PlaceAfter(p, TopFold, p.last))
       IN  Take(q, Nodes(q, 1, Position(q, p.first) - 1))

DrawBottomFold(p, bottomRow) ==
  IF p.thrown THEN p
  ELSE IF p.last = None \/ p.index[p.last] <= bottomRow
  THEN [p EXCEPT !.dom = SelectSeq(@, LAMBDA x : x # BottomFold) \o <<BottomFold>>]
  ELSE IF ~({p.first, p.last} \subseteq Range(p.dom)) THEN [p EXCEPT !.thrown = TRUE]
  ELSE LET q == IF ~IsMultiline(p) \/ p.index[p.first] <= bottomRow
                THEN Place(p, BottomFold, p.last)
                ELSE DropBetween(Place(p, BottomFold, p.first))
       IN  Take(q, Nodes(q, Position(q, p.last) + 1, Len(q.dom)))

(* removeUntilNode throws when the target is not between node and the fold.  *)
RemoveUntil(p, node, target) ==
  LET between == Nodes(p, Position(p, node), Position(p, BottomFold))
  IN  IF target \notin between THEN [p EXCEPT !.thrown = TRUE]
      ELSE Take(p, Nodes(p, Position(p, node), Position(p, target) - 1))

FetchRowNode(p, cache, i) == IF i \in DOMAIN cache THEN cache[i] ELSE GetRowNode(p, i)

(* One turn of the loop, at node, for the row of number i.  What is fetched  *)
(* goes into the next cache while there is one (caching): no row would not.  *)
DrawRow(d, i) ==
  LET p == d.p  node == d.node
      new == FetchRowNode(p, p.prev, i)
      At(row) == row \in DOMAIN p.index /\ p.index[row] = i
      Skip(q, x) == [d EXCEPT !.p = q, !.stop = q.thrown,
                         !.node = IF q.thrown THEN node ELSE Following(q, x)]
      Fetched(q, next) ==
        IF new = None THEN [d EXCEPT !.stop = TRUE, !.p.thrown = d.caching]
        ELSE [d EXCEPT !.p = q, !.node = next, !.cache = (i :> new) @@ @]
      inserted == Place(p, new, node)
  IN  IF d.stop THEN d
      ELSE IF node = BottomFold THEN Fetched(inserted, node)
      ELSE IF At(node) THEN Skip(p, node)
      ELSE IF At(p.first) THEN Skip(RemoveUntil(p, node, p.first), p.first)
      ELSE IF At(p.last) THEN Skip(RemoveUntil(p, node, p.last), p.last)
      ELSE IF node \in {p.first, p.last} THEN Fetched(inserted, node)
      ELSE IF node = new THEN Fetched(p, Following(p, node))
      ELSE Fetched(Take(inserted, {node}), Following(Take(inserted, {node}), new))

DrawVisibleRows(p, caching) ==
  LET count == Least(p.vis, RowCount(p))
      d == FoldLeft(DrawRow, [p |-> p, node |-> Following(p, TopFold), cache |-> <<>>,
                              stop |-> p.thrown, caching |-> caching],
                    [k \in 1..count |-> p.top + k - 1])
  IN  IF d.p.thrown THEN d
      ELSE [d EXCEPT !.p = RemoveUntil(d.p, d.node, BottomFold)]

(* An exception (thrown) leaves the document as it is by then, and what was  *)
(* measured and cached as it was; so does a row that is not there, which     *)
(* cannot be cached.                                                         *)
Redraw(p) ==
  LET q == SyncScrollHeight(SyncSelection([p EXCEPT !.thrown = FALSE]))
      folds == DrawBottomFold(DrawTopFold(q, q.top), q.top + q.vis - 1)
      d == DrawVisibleRows(folds, TRUE)
  IN  IF d.p.thrown THEN d.p
      ELSE [SyncRowNodesDimensions(d.p)
              EXCEPT !.prev = d.cache, !.end = q.top + p.win >= q.area, !.wiped = FALSE]

Invalidate(p) ==
  LET bare == Take(p, Nodes(p, Position(p, TopFold) + 1, Position(p, BottomFold) - 1))
  IN  DrawVisibleRows([bare EXCEPT !.prev = <<>>, !.thrown = FALSE], FALSE).p

-----------------------------------------------------------------------------
(* Copying.  The browser copies what is selected of the document, in its     *)
(* order; for the rows that are not in it their text is put into a bag above *)
(* the fold or below the other, where it stays until the next time.          *)

RowsFrom(p, start, end) == [k \in 1..Most(0, end - start) |-> GetRowNode(p, start + k - 1)]

ResetSelectBags(p) ==
  [Take(p, {TopBag, BottomBag}) EXCEPT !.bags = [b \in DOMAIN @ |-> IF b \in Range(p.dom) THEN <<>> ELSE @[b]]]

(* A row that is drawn, with the fold on its other side.                     *)
Beside(p, fold) ==
  LET i == Position(p, fold) IN p.dom[IF fold = TopFold THEN i + 1 ELSE i - 1]

BackfillTop(p) ==
  LET start == p.index[p.first]  end == p.index[p.last]
      until == IF end < p.top THEN end ELSE p.index[Beside(p, TopFold)]
  IN  IF start >= p.top THEN p
      ELSE SyncRowNodesDimensions(
             [PlaceAfter(p, TopBag, p.first) EXCEPT !.bags[TopBag] = RowsFrom(p, start + 1, until)])

(* Mutant: the last drawn row is copied twice.                               *)
BackfillBottomAgain(p) ==
  LET start == p.index[p.first]  end == p.index[p.last]  bottom == p.top + p.vis - 1
      from == IF start > bottom THEN start + 1 ELSE p.index[Beside(p, BottomFold)]
  IN  IF end <= bottom THEN p
      ELSE [Place(p, BottomBag, p.last) EXCEPT !.bags[BottomBag] = RowsFrom(p, from, end)]

BackfillBottom(p) ==
  LET start == p.index[p.first]  end == p.index[p.last]  bottom == p.top + p.vis - 1
      from == IF start > bottom THEN start + 1 ELSE p.index[Beside(p, BottomFold)] + 1
  IN  IF end <= bottom THEN p
      ELSE [Place(p, BottomBag, p.last) EXCEPT !.bags[BottomBag] = RowsFrom(p, from, end)]

OnCopy(p) ==
  LET q == SyncSelection(ResetSelectBags(p))
  IN  IF q.first = None \/ q.index[q.last] - q.index[q.first] < 2 THEN q
      ELSE BackfillBottom(BackfillTop(q))

(* What the browser then copies of the selection, which has no copy of its   *)
(* own (useDefaultWindowCopy).                                               *)
Copied(p) ==
  LET nodes == SubSeq(p.dom, Position(p, p.first), Position(p, p.last))
  IN  FlattenSeq([i \in DOMAIN nodes |->
        IF nodes[i] \in DOMAIN p.bags THEN p.bags[nodes[i]]
        ELSE IF nodes[i] \in {TopFold, BottomFold} THEN <<>> ELSE <<nodes[i]>>])

(* A program's text is selected to be copied, and the selection put back.    *)
CopyStringToClipboard(p) ==
  LET q == OnCopy([p EXCEPT !.sel = <<None, None>>]) IN [q EXCEPT !.sel = p.sel]

-----------------------------------------------------------------------------
(* Scrolling.                                                                *)

SetScrollTop(p, top) ==
  LET to == Most(0, Least(top, p.area - p.win))
  IN  ScheduleLater([p EXCEPT !.top = to], "scrolled", to # p.top)

ScrollRowToTop(p, row) ==
  LET q == SyncScrollHeight(p)
      to == Least(row, q.area - q.win)
      r == [q EXCEPT !.end = row + q.vis >= q.area]
  IN  IF to = r.top THEN r ELSE Schedule(SetScrollTop(r, to), "redraw")

ScrollRowToBottom(p, row) ==
  LET q == SyncScrollHeight(p)
  IN  SetScrollTop([q EXCEPT !.end = row + q.vis >= q.area], Most(0, row - q.vis))

ScrollEnd(p) == ScrollRowToBottom(p, RowCount(p))

(* Mutant: the cursor is left where it was when the page is scrolled.        *)
OnScrollOnly(p) == IF p.win # p.vis THEN Resize(p) ELSE Redraw(p)

(* The event comes before the one that says the window has a new size.       *)
OnScroll(p) ==
  IF p.win # p.vis THEN Resize(p)
  ELSE IF Redraw(p).thrown THEN Redraw(p)
  ELSE Schedule(Redraw(p), "sync")

SyncCursor(p) ==
  LET row == Len(p.back) + p.row
  IN  [p EXCEPT !.cursor = IF row > p.top + p.vis - 1 THEN Hidden ELSE row - p.top]

-----------------------------------------------------------------------------
(* The rows of hterm.Terminal.                                               *)

(* From the row start on to before end.                                      *)
Renumber(p, start, end) ==
  [p EXCEPT !.index =
     [id \in DOMAIN @ |->
        IF \E i \in start + 1..end : p.screen[i] = id
        THEN Len(p.back) + (CHOOSE i \in start + 1..end : p.screen[i] = id) - 1
        ELSE @[id]]]

ShiftRows(p, n) ==
  [p EXCEPT !.back = @ \o SubSeq(p.screen, 1, n), !.screen = SubSeq(@, n + 1, Len(@))]

AppendRows(p, n) ==
  LET fresh == [i \in 1..n |-> Len(p.index) + i]
      q == [p EXCEPT !.screen = @ \o fresh,
                     !.index = @ \o [i \in 1..n |-> RowCount(p) + i - 1]]
      extra == Most(0, Len(q.screen) - p.height)
      r == ShiftRows(q, extra)
  IN  ScheduleLater([r EXCEPT !.row = Least(Len(p.screen), Len(r.screen) - 1)],
                    "scrollDown", extra > 0 /\ p.end)

MoveRows(p, from, count, to) ==
  LET moved == SubSeq(p.screen, from + 1, from + count)
      rest == SubSeq(p.screen, 1, from) \o SubSeq(p.screen, from + count + 1, Len(p.screen))
      q == [p EXCEPT !.screen = SubSeq(rest, 1, to) \o moved \o SubSeq(rest, to + 1, Len(rest))]
  IN  Schedule(Renumber(q, Least(from, to), Most(from, to) + count), "invalidate")

(* The rows that a lower terminal has no place for: the empty ones below the *)
(* cursor are gone, the first ones go to the scrollback.                     *)
Droppable(p) ==
  LET kept == {i \in DOMAIN p.screen : i <= p.row + 1 \/ p.screen[i] \in p.text}
  IN  Len(p.screen) - (CHOOSE i \in kept : \A j \in kept : j <= i)

RealizeHeight(p, height) ==
  LET delta == height - Len(p.screen)
      sized == [p EXCEPT !.height = height]
      drop == Least(Droppable(p), -delta)
      out == -delta - drop
      lower == [ShiftRows([sized EXCEPT !.screen = SubSeq(@, 1, Len(@) - drop)], out)
                  EXCEPT !.row = Most(0, @ - out)]
      n == Len(p.back)
      higher == [sized EXCEPT !.screen = SubSeq(p.back, n - delta + 1, n) \o @,
                              !.back = SubSeq(@, 1, n - delta), !.row = @ + delta]
  IN  IF delta = 0 THEN sized
      ELSE IF delta < 0 THEN lower
      ELSE IF delta <= n THEN higher
      ELSE [AppendRows(sized, delta) EXCEPT !.row = p.row]

SetAlternateMode(p, state) ==
  LET s == IF state = p.alt THEN p
           ELSE [p EXCEPT !.alt = state, !.screen = p.hidden, !.hidden = p.screen]
      stale == s.screen # <<>> /\ s.index[s.screen[1]] # Len(s.back)
      numbered == IF stale THEN Renumber(s, 0, Len(s.screen)) ELSE s
      row(q) == [q EXCEPT !.row = Least(p.row, p.height - 1)]
  IN  Resize(row(Invalidate(SyncScrollHeight(RealizeHeight(numbered, p.height)))))

WipeContents(p) ==
  LET bare == [p EXCEPT !.back = <<>>, !.prev = <<>>, !.wiped = TRUE,
                        !.text = @ \ Range(p.screen \o p.hidden)]
  IN  Invalidate(SyncCursor([Renumber(bare, 0, Len(bare.screen)) EXCEPT !.row = 0]))
-----------------------------------------------------------------------------
(* The mouse.  report is the mode of the program, reporting whether it gets  *)
(* the events, engaged whether the node that keeps the browser from          *)
(* scrolling is at the pointer, down whether the button is; collapses says   *)
(* that the selection is given up in this event, sent what the program is    *)
(* told of it, and told (history) whether it was told of the press.          *)
NewMouse == [report |-> "off", reporting |-> FALSE, engaged |-> FALSE, down |-> FALSE,
             collapses |-> FALSE, sent |-> "nothing", told |-> FALSE]

(* Mutant: it decides at every event.                                        *)
DecideAlways(m, event, alt) ==
  [m EXCEPT !.reporting = ~alt /\ m.report # "off",
            !.collapses = event = "mousedown" /\ ~alt /\ m.report # "off"]

(* Terminal.onMouse_ decides at the press, unless it is in the scroll bar.   *)
Decide(m, event, alt) ==
  IF event # "mousedown" THEN [m EXCEPT !.collapses = FALSE]
  ELSE IF alt \/ m.report = "off" THEN [m EXCEPT !.reporting = FALSE, !.collapses = FALSE]
  ELSE [m EXCEPT !.reporting = TRUE, !.collapses = TRUE]

(* VT.onTerminalMouse_; clicks are no events to the program.                 *)
OnTerminalMouse(m, event) ==
  [m EXCEPT !.sent =
     CASE m.report = "off"      -> "nothing"
       [] event = "mousewheel"  -> "wheel"
       [] event = "mousedown"   -> "press"
       [] event = "mouseup"     -> "release"
       [] event = "mousemove" /\ m.report = "drag" /\ m.down -> "drag"
       [] OTHER                 -> "nothing"]

(* The node is engaged at a press and let go at the next move or release     *)
(* that the program does not get; while it is not, moves select nothing.     *)
Block(m, event) ==
  IF m.reporting
  THEN [m EXCEPT !.engaged = @ \/ event = "mousedown",
                 !.collapses = @ \/ (~m.engaged /\ event = "mousemove")]
  ELSE [m EXCEPT !.engaged = @ /\ event \notin {"mousemove", "mouseup"}]

(* After a release without a selection the next wheel is for the program.    *)
OnMouse(m, event, alt, scrollbar, selected) ==
  LET d == Decide([m EXCEPT !.sent = "nothing"], event, alt)
      b == Block(d, event)
      v == IF b.reporting THEN OnTerminalMouse(b, event) ELSE b
      pressed == [v EXCEPT !.down = (@ \/ event = "mousedown") /\ event # "mouseup",
                           !.told = IF event = "mousedown" THEN v.sent = "press" ELSE @]
  IN  IF event = "mousedown" /\ scrollbar
      THEN [m EXCEPT !.sent = "nothing", !.collapses = FALSE, !.down = TRUE, !.told = FALSE]
      ELSE IF event = "mouseup" /\ (~selected \/ v.collapses)
      THEN [pressed EXCEPT !.reporting = v.report # "off"]
      ELSE pressed

(* setDECMode with 1000 and 1002.                                            *)
SetMouseMode(m, mode, state) ==
  [m EXCEPT !.report = IF ~state THEN "off" ELSE IF mode = "1000" THEN "click" ELSE "drag"]

-----------------------------------------------------------------------------
(* The cursor: options.cursorBlink, options.cursorVisible, the timer, the    *)
(* opacity and the focus of the node, and the preference cursor-blink.       *)
NewCursor(preference) ==
  [blink |-> preference, visible |-> FALSE, timer |-> FALSE, opaque |-> TRUE, focus |-> TRUE,
   preference |-> preference]

OnCursorBlink(c) ==
  IF ~c.blink THEN [c EXCEPT !.timer = FALSE]
  ELSE [c EXCEPT !.opaque = ~c.focus \/ ~@, !.timer = TRUE]

SetCursorVisible(c, state) ==
  IF ~state THEN [c EXCEPT !.visible = FALSE, !.timer = FALSE, !.opaque = FALSE]
  ELSE IF c.blink /\ ~c.timer THEN OnCursorBlink([c EXCEPT !.visible = TRUE, !.opaque = TRUE])
  ELSE [c EXCEPT !.visible = TRUE, !.opaque = TRUE, !.timer = c.blink]

SetCursorBlink(c, state) ==
  LET b == [c EXCEPT !.blink = state, !.timer = @ /\ state]
  IN  IF c.visible THEN SetCursorVisible(b, TRUE) ELSE b

(* DECSTR takes blinking from the timer, which a hidden cursor has not: then *)
(* the cursor is steady afterwards, after RIS too, whatever the preference.  *)
SoftReset(c) == SetCursorVisible([c EXCEPT !.blink = c.timer], TRUE)
Reset(c) == SoftReset(SetCursorBlink(c, c.preference))

OnFocusChange(c, focused) == [c EXCEPT !.focus = focused]
=============================================================================
