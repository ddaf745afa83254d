------------------------------ MODULE WebTerminal ------------------------------
(* The page /ssh/<user>: js/wetty.js makes a terminal of hterm_all.js in it  *)
(* when its socket connects, and srvctl-gui.js runs ssh in a pty for each    *)
(* connection: what the page shows, the keys of the user, the preferences,   *)
(* the timers and the events of the browser, and what is sent either way.    *)
(* The socket is the channel of MessageChannel: in order, what was under way *)
(* is lost with the connection, and what is emitted without one waits for    *)
(* the next.                                                                 *)
EXTENDS HtermScrollPort, Keyboard

CONSTANTS Sizes,       \* the heights of the window
          NewHeight,   \* the height of a terminal that was just made
          PtyHeight,   \* the height srvctl-gui.js gives a pty
          Themes,      \* what the shell writes and the user does, and the bounds
          Racing       \* also what is known to go wrong: see Show and StoreElsewhere

ASSUME HeightsAssumption == Sizes \subseteq Nat \ {0} /\ NewHeight \in Nat \ {0}

VARIABLES theme,     \* one of Themes
          page,      \* the terminal that is seen
          conn,      \* "down", "init" while lib.init runs, or "up"
          buf,       \* what came before there was a terminal
          toShell,   \* the sizes on their way to the server
          pty,       \* the height the shell of this connection knows
          resizing,  \* the resize event of the window is to come
          atEnd,     \* the user has not scrolled away from the end
          settings,  \* preferences and keyboard
          held,      \* the alt keys that are down
          mouse,     \* what is done with the mouse, and who gets it
          cursor,    \* how the cursor looks
          done       \* how often each of what the theme bounds was done

conVars == <<theme, conn, buf, toShell, pty>>
pointerVars == <<mouse, cursor>>
userVars == <<settings, held, mouse, cursor>>
vars == <<theme, page, conn, buf, toShell, pty, resizing, atEnd, settings, held, mouse, cursor,
          done>>

NoPage == [none |-> TRUE]
HasPage == page # NoPage

Init ==
  /\ theme \in Themes
  /\ page = NoPage /\ conn = "init" /\ buf = <<>> /\ toShell = <<>> /\ pty = PtyHeight
  /\ resizing = FALSE /\ atEnd = TRUE
  /\ settings = NoPreferences([n \in Names |-> IF n \in DOMAIN theme.stored THEN theme.stored[n] ELSE Unset])
  /\ held = {} /\ mouse = NewMouse /\ cursor \in {NewCursor(b) : b \in theme.blinks}
  /\ done = [what \in DOMAIN theme.max |-> 0]

Count(what) == done[what] < theme.max[what] /\ done' = [done EXCEPT ![what] = @ + 1]

(* A row that is gone from the terminal and is still in the document has the *)
(* number of one that is not: it is known that the page then goes on showing *)
(* it, and without Racing this is no step.                                   *)
Ghosts(p) ==
  LET there == Range(p.back \o p.screen)
  IN  {id \in Range(p.dom) \ {TopFold, BottomFold, TopBag, BottomBag} :
         id \notin there /\ \E other \in there : p.index[other] = p.index[id]}
Show(p) == (Racing \/ Ghosts(p) \subseteq Ghosts(page)) /\ page' = p

-----------------------------------------------------------------------------
(* The sizes sent take their time where that is the theme, else none.        *)

Send(size) ==
  IF theme.slow THEN toShell' = Append(toShell, size) /\ UNCHANGED pty
  ELSE pty' = size /\ UNCHANGED toShell

(* What the shell writes: Terminal.interpret, then the cursor is to follow.  *)

Printed(p) == [p EXCEPT !.text = @ \union {p.screen[p.row + 1]}]

NewLine(p) == IF p.row = Len(p.screen) - 1 THEN AppendRows(p, 1) ELSE [p EXCEPT !.row = @ + 1]

(* InsertLines and deleteLines of one line at the cursor.                    *)
InsertLine(p) ==
  LET count == Len(p.screen) - 1 - p.row
      q == IF count = 0 THEN p ELSE MoveRows(p, p.row, count, p.row + 1)
  IN  IF count = 0 THEN p ELSE [q EXCEPT !.text = @ \ {q.screen[p.row + 1]}]
DeleteLine(p) ==
  LET bottom == Len(p.screen) - 1
      q == IF p.row = bottom THEN p ELSE MoveRows(p, p.row, 1, bottom)
  IN  [q EXCEPT !.text = @ \ {q.screen[bottom + 1]}]

Interpreted(p, output) ==
  Schedule(CASE output = "text"      -> Printed(p)
             [] output = "line"      -> NewLine(p)
             [] output = "home"      -> [p EXCEPT !.row = 0]
             [] output = "insert"    -> InsertLine(p)
             [] output = "delete"    -> DeleteLine(p)
             [] output = "alternate" -> SetAlternateMode(p, TRUE)
             [] output = "primary"   -> SetAlternateMode(p, FALSE)
             [] output = "clipboard" -> CopyStringToClipboard(p), "sync")

Output ==
  /\ conn = "up" \/ (conn = "init" /\ theme.slow)
  /\ Count("outputs")
  /\ \E output \in theme.outputs :
       LET follows == output = "text" /\ On(settings.keyboard, "scrollOnOutput")
           p == Interpreted(page, output)
       IN  IF HasPage
           THEN /\ Show(IF follows THEN ScrollEnd(p) ELSE p) /\ UNCHANGED buf
                /\ atEnd' = (atEnd \/ follows)
           ELSE buf' = Append(buf, output) /\ UNCHANGED <<page, atEnd>>
  /\ UNCHANGED <<theme, conn, toShell, pty, resizing, userVars>>

-----------------------------------------------------------------------------
(* Connections.                                                              *)

(* The timers of a new manager run at once where preferences are no theme.   *)
Started(s) ==
  IF theme.changes # {} THEN SetProfile(s)
  ELSE Tick(Tick(Tick(Tick(SetProfile(s)))))

(* Mutant: a terminal that is there is kept for the next connection.         *)
ReadyOnce ==
  /\ conn = "init"
  /\ IF HasPage THEN UNCHANGED <<page, pty, toShell, atEnd>>
     ELSE /\ \E window \in Sizes :
               page' = FoldLeft(Interpreted, SyncCursor(Decorate(NewPage(NewHeight, window))), buf)
          /\ Send(NewHeight) /\ atEnd' = TRUE
  /\ conn' = "up" /\ buf' = <<>>
  /\ settings' = IF HasPage THEN settings ELSE Started(settings)
  /\ UNCHANGED <<theme, resizing, held, mouse, cursor, done>>

(* The end of lib.init: a terminal in the div, which covers any before it,   *)
(* the size it has now to the server, and what came before it was there.     *)
Ready ==
  /\ conn = "init" /\ (Racing \/ settings.events = <<>>)
  /\ \E window \in Sizes :
       /\ HasPage => window = page.win
       /\ page' = FoldLeft(Interpreted, SyncCursor(Decorate(NewPage(NewHeight, window))), buf)
  /\ conn' = "up"
  /\ Send(NewHeight)
  /\ settings' = Started(settings)
  /\ mouse' = NewMouse /\ cursor' = SetCursorVisible(NewCursor(cursor.preference), TRUE)
  /\ buf' = <<>> /\ atEnd' = TRUE
  /\ UNCHANGED <<theme, resizing, held, done>>

Disconnect ==
  /\ conn # "down"
  /\ Count("losses")
  /\ conn' = "down"
  /\ toShell' = <<>>
  /\ UNCHANGED <<theme, page, buf, pty, resizing, atEnd, userVars>>

Connect ==
  /\ conn = "down"
  /\ conn' = "init" /\ pty' = PtyHeight
  /\ UNCHANGED <<theme, page, buf, toShell, resizing, atEnd, userVars, done>>

(* socket.on('resize') of srvctl-gui.js.                                     *)
ResizePty ==
  /\ conn # "down" /\ toShell # <<>>
  /\ pty' = Head(toShell) /\ toShell' = Tail(toShell)
  /\ UNCHANGED <<theme, page, conn, buf, resizing, atEnd, userVars, done>>

-----------------------------------------------------------------------------
(* Preferences and modes.                                                    *)

Settled == settings.queue = <<>> /\ settings.events = <<>>

PreferenceTimer ==
  /\ settings.queue # <<>>
  /\ settings' = Tick(settings)
  /\ UNCHANGED <<conVars, page, resizing, atEnd, held, pointerVars, done>>

StorageEvent ==
  /\ HasPage /\ settings.events # <<>>
  /\ settings' = OnStorage(settings)
  /\ UNCHANGED <<conVars, page, resizing, atEnd, held, pointerVars, done>>

(* A value that says the same to the keyboard.                               *)
Same(name, a, b) ==
  \/ Observed(name, a) = Observed(name, b)
  \/ {Observed(name, a), Observed(name, b)} \subseteq {"false", "null", ""}

(* It is known, and without Racing no step, that this page is left with      *)
(* another value when the storage is changed between reading it and the      *)
(* timer that gives what was read, or changed twice at the same time, also   *)
(* as wetty.js sets its own for a new terminal (see Ready); when a       *)
(* value is removed and "" is not the default; and when alt-sends-what is    *)
(* changed while a program has set mode 1039.                                *)
StoreElsewhere ==
  /\ Count("changes")
  /\ \E change \in theme.changes :
       LET name == change[1]  value == change[2]
       IN  /\ settings.stored[name] # value
           /\ \/ Racing
              \/ /\ Settled
                 /\ value = Unset => Same(name, "", Defaults[name])
                 /\ name = "altSendsWhat" => settings.keyboard.previousAltSendsWhat = "null"
           /\ settings' = IF HasPage THEN StoredElsewhere(settings, name, value)
                          ELSE [settings EXCEPT !.stored[name] = value]
  /\ UNCHANGED <<conVars, page, resizing, atEnd, held, pointerVars>>

(* What a program sets before the preferences were read they take back.      *)
SetMode ==
  /\ conn = "up" /\ Count("outputs")
  /\ \E mode \in theme.modes, state \in BOOLEAN :
       /\ mode = "1039" => Racing \/ Settled
       /\ settings' = Program(settings, mode, state)
  /\ UNCHANGED <<conVars, page, resizing, atEnd, held, pointerVars>>

-----------------------------------------------------------------------------
(* The user.                                                                 *)

(* The window is lower or higher before the page is told so.                 *)
ResizeWindow ==
  /\ HasPage /\ ~resizing /\ Count("resizes")
  /\ \E window \in Sizes \ {page.win} :
       page' = ScheduleLater([page EXCEPT !.win = window], "scrolled", TRUE)
  /\ resizing' = TRUE
  /\ UNCHANGED <<conVars, atEnd, userVars>>

OnWindowResized ==
  /\ resizing
  /\ Show(Resize(page)) /\ resizing' = FALSE
  /\ UNCHANGED <<conVars, atEnd, userVars, done>>

(* The user scrolls and selects what is drawn, not while the window changes. *)
Acts(action) ==
  /\ HasPage /\ ~resizing /\ action \in theme.actions
  /\ Count("actions")
  /\ UNCHANGED <<conVars, resizing>>

Shown == Nodes(page, Position(page, TopFold) + 1, Position(page, BottomFold) - 1)
                \ {TopBag, BottomBag}
Selected == None \notin Range(page.sel)

Mouse(event, alt, scrollbar) ==
  /\ mouse' = OnMouse(mouse, event, alt, scrollbar, Selected)
  /\ UNCHANGED <<settings, held, cursor>>

(* What the program gets of the wheel does not scroll the page.              *)
Wheel ==
  /\ Acts("wheel")
  /\ Mouse("mousewheel", FALSE, FALSE)
  /\ IF mouse'.sent = "wheel" THEN UNCHANGED <<page, atEnd>>
     ELSE /\ \E delta \in {-1, 1} : page' = SetScrollTop(page, page.top + delta)
          /\ atEnd' = FALSE

Unselected(p) == [p EXCEPT !.sel = <<None, None>>]

(* A press that is left to the browser gives up the selection, and what is   *)
(* then moved over is selected.  It is known that a release is told to the   *)
(* program without its press when that was in the scroll bar or elsewhere.   *)
MouseDown ==
  /\ Acts("mouse") /\ ~mouse.down
  /\ \E alt, scrollbar \in BOOLEAN :
       /\ scrollbar => Racing \/ ~mouse.reporting
       /\ Mouse("mousedown", alt, scrollbar)
       /\ page' = IF scrollbar THEN page ELSE Unselected(page)
  /\ UNCHANGED atEnd

MouseMove ==
  /\ Acts("mouse")
  /\ Mouse("mousemove", FALSE, FALSE)
  /\ IF mouse'.collapses THEN page' = Unselected(page)
     ELSE IF mouse.down /\ ~mouse.reporting
     THEN \E a, f \in Shown : page' = [page EXCEPT !.sel = IF Selected THEN <<@[1], f>> ELSE <<a, f>>]
     ELSE UNCHANGED page
  /\ UNCHANGED atEnd

(* What is selected when the button is released is copied (copyOnSelect).    *)
MouseUp ==
  /\ Acts("mouse") /\ (Racing \/ mouse.down)
  /\ Mouse("mouseup", FALSE, FALSE)
  /\ page' = IF Selected /\ ~mouse.reporting THEN OnCopy(page) ELSE page
  /\ UNCHANGED atEnd

(* All of a drag, of which the program gets nothing, or with shift a press   *)
(* that moves the end of the selection; both end with a release.             *)
Select ==
  /\ Acts("select") /\ ~mouse.reporting
  /\ \E a, f \in Shown : page' = OnCopy([page EXCEPT !.sel = <<a, f>>])
  /\ UNCHANGED <<atEnd, userVars>>

ExtendSelection ==
  /\ Acts("extend") /\ ~mouse.reporting /\ Selected
  /\ \E f \in Shown : page' = OnCopy([page EXCEPT !.sel[2] = f])
  /\ UNCHANGED <<atEnd, userVars>>

(* The menu of the browser, or Ctrl+C or Meta+C, which have the selection    *)
(* given up a little later, whatever it is then (clearSelectionAfterCopy).   *)
Copy ==
  /\ Acts("copy") /\ Selected
  /\ \E byKey \in BOOLEAN : page' = ScheduleLater(OnCopy(page), "collapse", byKey)
  /\ UNCHANGED <<atEnd, userVars>>

Collapse ==
  /\ HasPage /\ "collapse" \in page.later
  /\ page' = Unselected([page EXCEPT !.later = @ \ {"collapse"}])
  /\ UNCHANGED <<conVars, resizing, atEnd, userVars, done>>

(* Terminal.onVTKeystroke: what is sent is no state here.                    *)
Keystroke ==
  IF On(settings.keyboard, "scrollOnKeystroke") THEN page' = ScrollEnd(page) /\ atEnd' = TRUE
  ELSE UNCHANGED <<page, atEnd>>

(* What keys do to the page: where there are more rows than the other screen *)
(* has they can be wiped, else that fails half way.                          *)
ScrollTo(row) == page' = ScrollRowToTop(page, row) /\ atEnd' = FALSE
KeyDoes(what) ==
  CASE what = "home"   -> ScrollTo(0)
    [] what = "end"    -> page' = ScrollEnd(page) /\ atEnd' = TRUE
    [] what = "pgup"   -> ScrollTo(page.top - page.height + 1)
    [] what = "pgdown" -> ScrollTo(page.top + page.height - 1)
    [] what = "wipe"   -> Len(page.hidden) <= Len(page.screen) /\ Show(WipeContents(page)) /\ UNCHANGED atEnd
    [] what = "font"   -> (\E window \in Sizes : page' = Resize([page EXCEPT !.win = window])) /\ UNCHANGED atEnd
    [] OTHER           -> UNCHANGED <<page, atEnd>>

(* A key, with what the browser makes of it where it is left to the browser. *)
Press ==
  /\ Acts("press")
  /\ \E e \in theme.presses :
       LET kb == settings.keyboard
           act == OnKeyDown(kb, e)
       IN  /\ e.alt => held # {}
           /\ "left" \in held => e.alt
           /\ IF act.form = "CANCEL" THEN KeyDoes(act.c)
              ELSE IF act # PASS THEN Keystroke
              ELSE \E charCode \in (IF e.alt THEN BOOLEAN ELSE {TRUE}) :
                     IF HasCharacters(e.key) /\ ~e.ctrl /\ ~e.meta
                          /\ OnKeyPress(kb, e, charCode).form # "CANCEL"
                     THEN Keystroke ELSE UNCHANGED <<page, atEnd>>
  /\ UNCHANGED userVars

(* The browser does not tell of keys that go up while the page is not the    *)
(* one they go to, only that it no longer is.                                *)
AltKeyDown ==
  /\ Acts("alt")
  /\ \E side \in {"left", "right"} :
       /\ held' = held \union {side}
       /\ settings' = [settings EXCEPT !.keyboard = AltDown(@, side)]
  /\ UNCHANGED <<page, atEnd, pointerVars>>
AltKeyUp ==
  /\ Acts("alt")
  /\ \E side \in held :
       /\ held' = held \ {side}
       /\ settings' = [settings EXCEPT !.keyboard = AltUp(@, side)]
  /\ UNCHANGED <<page, atEnd, pointerVars>>
LoseFocus ==
  /\ Acts("alt")
  /\ held' \in SUBSET held
  /\ settings' = [settings EXCEPT !.keyboard = Blur(@)]
  /\ UNCHANGED <<page, atEnd, pointerVars>>

-----------------------------------------------------------------------------
(* Timers and the scroll event.                                              *)

(* Terminal.onResize_, which sends the size whether or not it is new.        *)
Notify(p) ==
  Schedule(Schedule(IF p.win = p.height THEN p ELSE RealizeHeight(p, p.win), "sync"), "bottom")

Run(p, timer) ==
  CASE timer = "redraw"     -> Redraw(p)
    [] timer = "invalidate" -> Invalidate(p)
    [] timer = "resized"    -> Notify(p)
    [] timer = "bottom"     -> Schedule(ScrollEnd(p), "redraw")
    [] timer = "sync"       -> SyncCursor(p)

Timer ==
  /\ HasPage /\ page.queue # <<>>
  /\ LET timer == Head(page.queue)
     IN  /\ Show(Run([page EXCEPT !.queue = Tail(@)], timer))
         /\ IF timer = "resized" THEN Send(page.win) ELSE UNCHANGED <<toShell, pty>>
         /\ atEnd' = (atEnd \/ timer = "bottom")
  /\ UNCHANGED <<theme, conn, buf, resizing, userVars, done>>

ScrollDown ==
  /\ HasPage /\ "scrollDown" \in page.later
  /\ page' = ScrollEnd([page EXCEPT !.later = @ \ {"scrollDown"}])
  /\ atEnd' = TRUE
  /\ UNCHANGED <<conVars, resizing, userVars, done>>

OnScrolled ==
  /\ HasPage /\ "scrolled" \in page.later
  /\ Show(OnScroll([page EXCEPT !.later = @ \ {"scrolled"}]))
  /\ UNCHANGED <<conVars, resizing, atEnd, userVars, done>>

-----------------------------------------------------------------------------
(* The mouse and the cursor: what a program sets, the timer and the focus.   *)

Says(what) ==
  /\ conn = "up" /\ Count("outputs")
  /\ what \in theme.programs
  /\ UNCHANGED <<conVars, page, resizing, atEnd, settings, held>>

MouseMode ==
  /\ Says("mouse")
  /\ \E mode \in {"1000", "1002"}, state \in BOOLEAN : mouse' = SetMouseMode(mouse, mode, state)
  /\ UNCHANGED cursor

(* DECTCEM, mode 25, and the shapes of DECSCUSR that blink or do not.        *)
CursorMode ==
  /\ Says("cursor")
  /\ \E state \in BOOLEAN : cursor' \in {SetCursorVisible(cursor, state), SetCursorBlink(cursor, state)}
  /\ UNCHANGED mouse

(* DECSTR (soft) and RIS, whose other effects on the page are not here.      *)
ResetTerminal ==
  /\ Says("reset")
  /\ mouse' = [mouse EXCEPT !.report = "off"]
  /\ cursor' \in {SoftReset(cursor), Reset(cursor)}

CursorPreference ==
  /\ HasPage /\ Count("changes") /\ theme.blinks # {FALSE}
  /\ \E state \in BOOLEAN : cursor' = [SetCursorBlink(cursor, state) EXCEPT !.preference = state]
  /\ UNCHANGED <<conVars, page, resizing, atEnd, settings, held, mouse>>

CursorTimer ==
  /\ HasPage /\ cursor.timer
  /\ cursor' = OnCursorBlink(cursor)
  /\ UNCHANGED <<conVars, page, resizing, atEnd, settings, held, mouse, done>>

Focus ==
  /\ Acts("focus")
  /\ \E focused \in BOOLEAN : cursor' = OnFocusChange(cursor, focused)
  /\ UNCHANGED <<page, atEnd, settings, held, mouse>>

Next ==
  \/ Output \/ Ready \/ Disconnect \/ Connect \/ ResizePty
  \/ PreferenceTimer \/ StorageEvent \/ StoreElsewhere \/ SetMode
  \/ ResizeWindow \/ OnWindowResized
  \/ Wheel \/ MouseDown \/ MouseMove \/ MouseUp \/ Select \/ ExtendSelection \/ Copy \/ Collapse
  \/ MouseMode \/ CursorMode \/ ResetTerminal \/ CursorPreference \/ CursorTimer \/ Focus
  \/ Press \/ AltKeyDown \/ AltKeyUp \/ LoseFocus
  \/ Timer \/ ScrollDown \/ OnScrolled

Quiet == HasPage /\ page.queue = <<>> /\ page.later = {} /\ ~resizing

(* As long as anything is due the browser or the server goes on with some of *)
(* it, in whatever order: a timer, an event, a connection or a message, the  *)
(* steps that leave the counters as they are.  The cursor's timer is none of *)
(* them.                                                                     *)
Idle == Quiet /\ conn = "up" /\ toShell = <<>>
GoesOn == UNCHANGED done

Spec == Init /\ [][Next]_vars /\ (<>[]~Idle => []<><<GoesOn>>_<<conVars, page, resizing, settings>>)

-----------------------------------------------------------------------------
(* Properties.                                                               *)

(* When nothing is under way any more the rows between the folds are as they *)
(* should be: the nodes the terminal has for those numbers, in their order   *)
(* (drawVisibleRows_), also after rows moved, screens were swapped and       *)
(* windows were resized, whatever came while a timer was due.                *)
(* Only after everything was cleared nothing is drawn until there is reason. *)
Drawn ==
  Quiet /\ ~page.wiped =>
    SubSeq(page.dom, Position(page, TopFold) + 1, Position(page, BottomFold) - 1)
      = [k \in 1..Least(page.vis, RowCount(page)) |-> GetRowNode(page, page.top + k - 1)]

(* Then the cursor is on the row it is in, or hidden when that is not shown, *)
(* and the end is shown unless the user has scrolled away from it            *)
(* (syncCursorPosition_, scheduleScrollDown_).                               *)
CursorFollows ==
  Quiet /\ ~page.wiped =>
    /\ page.cursor = SyncCursor(page).cursor
    /\ atEnd => page.top = Most(0, RowCount(page) - page.vis)

(* Drawing around a selection does not disturb it, nor does it fail: only    *)
(* rows that were said to be no longer valid take it with them (redraw_,     *)
(* invalidate), and rows that are gone from the terminal.                    *)
SelectionKept ==
  [][HasPage /\ Range(page.sel) \subseteq Range(page.back \o page.screen)
       /\ "invalidate" \notin Range(page.queue) /\ (Timer \/ OnScrolled)
       => page'.sel = page.sel /\ ~page'.thrown]_vars

(* When nothing is under way, what the browser copies of a selection are its *)
(* rows, each once and in order, those that are not drawn too, however often *)
(* the user scrolled, extended it and copied before, and what a program      *)
(* copied (onCopy_).                                                         *)
CopiesAll ==
  [][Copy /\ Quiet /\ Range(page.sel) \subseteq Range(page.back \o page.screen)
       => Copied(page') = RowsFrom(page', page'.index[page'.first], page'.index[page'.last] + 1)]_vars

(* What is done with the mouse from a press to its release is the program's  *)
(* or the user's, whatever modes are set meanwhile: the program is told of a *)
(* drag or a release if and, where it still wants reports, only if it was    *)
(* told of the press, and moving the mouse alone gives up no selection       *)
(* (onMouse_).                                                               *)
DragGoesOneWay ==
  [][/\ mouse'.sent \in {"drag", "release"} /\ mouse'.sent # mouse.sent => mouse.told
     /\ MouseUp /\ mouse.told /\ mouse.report # "off" => mouse'.sent = "release"
     /\ MouseMove /\ ~mouse.down => page'.sel = page.sel]_vars

(* The cursor has one timer if and only if it is to be seen and to blink; if *)
(* it is not to be seen it is not, and one that does not blink is seen       *)
(* (setCursorBlink, setCursorVisible, softReset).                            *)
Blinks ==
  HasPage => /\ cursor.timer <=> cursor.blink /\ cursor.visible
             /\ ~cursor.visible => ~cursor.opaque
             /\ cursor.visible /\ ~cursor.timer => cursor.opaque

(* When nothing is under way any more the keyboard works by what is stored   *)
(* for all pages or by the defaults, but for what a program has set since,   *)
(* whatever was stored on which page and by wetty.js at the start            *)
(* (setProfile, readStorage, onStorageChange_).                              *)
SettingsApplied ==
  HasPage /\ Settled =>
    \A name \in Names \ settings.overridden :
      LET stored == settings.stored[name]
          value == IF stored = Unset THEN Defaults[name] ELSE stored
      IN  Same(name, settings.keyboard[name], value)

(* A program is told which of shift, alt and control were down with a key of *)
(* the cursor or the editing keys: 1 and the sum of 1, 2 and 4, and only     *)
(* without any of them the keys of the cursor are those of its mode; whatever *)
(* modes and preferences there are, and unless the page has the key.  With   *)
(* alt, [HOME] is not held to this (e.altey).                                *)
KeysTold(kb) ==
  \A key \in DOMAIN Cursors \union DOMAIN Edits \union {"end"}, shift, ctrl, alt \in BOOLEAN :
    LET act == OnKeyDown(kb, [key |-> key, shift |-> shift, ctrl |-> ctrl, alt |-> alt,
                              meta |-> FALSE, selected |-> FALSE])
        mods == (IF shift THEN 1 ELSE 0) + (IF alt /\ ~On(kb, "altIsMeta") THEN 2 ELSE 0)
                  + (IF ctrl THEN 4 ELSE 0)
    IN  act.form \in {"CSI", "SS3"} =>
          /\ act.mod = 1 + mods
          /\ mods # 0 \/ key \in DOMAIN Edits => act.form = "CSI"
          /\ ~(shift \/ ctrl \/ alt) /\ key \in DOMAIN Cursors \union {"end"} =>
               act.form = (IF kb.applicationCursor THEN "SS3" ELSE "CSI")
ModifiersTold == [][settings'.keyboard # settings.keyboard => KeysTold(settings'.keyboard)]_settings

(* No alt key is taken to be down that is not, which would give AltGr's      *)
(* characters no more: also one that went up while the page was not the one  *)
(* that is told (onBlur_).                                                   *)
NoAltLeft == settings.keyboard.altKeyPressed \subseteq held

(* Timers, events and messages end, with the shell at the height of the      *)
(* terminal and the terminal at the height of the window, whatever happens   *)
(* to connections while the window is resized (onTerminalResize, 'resize').  *)
SizeAgrees == <>[](Idle /\ pty = page.win /\ page.height = page.win)

(* What is seen: the rows, the cursor, and its blinking.                     *)
ScreenRight == Drawn /\ CursorFollows /\ Blinks

(* A selection lasts, and what is copied is what is selected.                *)
SelectionHolds == SelectionKept /\ CopiesAll

(* The keyboard has the settings that are stored, and no alt key too many.   *)
KeyboardRight == SettingsApplied /\ NoAltLeft
=============================================================================
