------------------------------ MODULE Overlay ------------------------------
(***************************************************************************)
(* What lies over the page of the web interface: the menus of its buttons  *)
(* and the one dialog, as bootstrap shows and hides them by handlers it    *)
(* binds and takes away.  The dialog does not fade, so it is shown and     *)
(* hidden at once; scroll bars and sizes are left out.                     *)
(***************************************************************************)
EXTENDS Naturals, FiniteSets

CONSTANT Menus

(* The menus that are open; whether the dialog has been made and is shown; *)
(* the elements that dim the page, and the class of its body; the handlers *)
(* bound for the dialog, one of mouseup among them while a press waits; a  *)
(* click to be ignored; and, of the mouse, where the button went down.     *)
NewOverlay == [open |-> {}, made |-> FALSE, isShown |-> FALSE, backdrops |-> 0,
               modalOpen |-> FALSE, handlers |-> {}, ignore |-> FALSE,
               press |-> "none"]

(* Without the dialog the page gets the clicks of a mouse that is not down.*)
Clickable(d) == d.backdrops = 0 /\ d.press = "none"

-----------------------------------------------------------------------------
clearMenus(d) == [d EXCEPT !.open = {}]

(* The button of a menu closes all menus, and opens its own if it was not. *)
Toggle(d, menu) ==
  IF menu \in d.open THEN clearMenus(d)
  ELSE [clearMenus(d) EXCEPT !.open = @ \cup {menu}]

(* A key on a button or in its menu.  No item of a menu is a link, so that *)
(* the arrows find none; a click on the list itself closes it.             *)
KeyDown(d, menu, key, inside) ==
  LET isActive == menu \in d.open IN
  IF isActive # (key = "esc") THEN d
  ELSE IF inside THEN clearMenus(d) ELSE Toggle(d, menu)

-----------------------------------------------------------------------------
removeBackdrop(d) == [d EXCEPT !.backdrops = @ - 1]

Backdrop(d) ==
  IF d.isShown THEN [d EXCEPT !.backdrops = @ + 1, !.handlers = @ \cup {"click"}]
  ELSE removeBackdrop(d)

enforceFocus(d) == [d EXCEPT !.handlers = @ \cup {"focusin"}]

(* escape and resize bind a handler, or take it away.                      *)
Listen(d) ==
  [d EXCEPT !.handlers = IF d.isShown THEN @ \cup {"escape", "resize"}
                         ELSE @ \ {"escape", "resize"}]

Show(d) ==
  LET e == Listen([d EXCEPT !.isShown = TRUE, !.modalOpen = TRUE]) IN
  IF d.isShown THEN d
  ELSE enforceFocus(Backdrop([e EXCEPT !.handlers = @ \cup {"dismiss", "mousedown"}]))

hideModal(d) == [Backdrop(d) EXCEPT !.modalOpen = FALSE]

(* All handlers of the dialog are taken away.  A click that was to be      *)
(* ignored still is, when the dialog is shown again.                       *)
Hide(d) ==
  LET e == Listen([d EXCEPT !.isShown = FALSE]) IN
  IF ~d.isShown THEN d
  ELSE hideModal([e EXCEPT
         !.handlers = @ \ {"focusin", "dismiss", "click", "mouseup", "mousedown"}])

ToggleDialog(d) == IF d.isShown THEN Hide(d) ELSE Show(d)

Plugin(d) == IF d.made THEN ToggleDialog(d) ELSE Show([d EXCEPT !.made = TRUE])

(* A button of the page that is for the dialog; the click then reaches the *)
(* document and closes the menus.                                          *)
OpenBy(d) == clearMenus(Plugin(d))

(* A button of the dialog that hides it.  The handler of clicks beside the *)
(* dialog runs as well, for the last time.                                 *)
Dismiss(d) ==
  IF "dismiss" \notin d.handlers THEN d ELSE [Hide(d) EXCEPT !.ignore = FALSE]

Escape(d) == IF "escape" \in d.handlers THEN Hide(d) ELSE d

(* A click in the dialog or, "beside" it, on the element that covers the   *)
(* page.                                                                   *)
Click(d, where) ==
  IF "click" \notin d.handlers THEN d
  ELSE IF d.ignore THEN [d EXCEPT !.ignore = FALSE]
  ELSE IF where = "beside" THEN Hide(d) ELSE d

(* The button of the mouse goes down.  In the dialog, a handler waits for  *)
(* it to come up.                                                          *)
MouseDown(d, where) ==
  [d EXCEPT !.press = where,
            !.handlers = IF where = "dialog" /\ "mousedown" \in @
                         THEN @ \cup {"mouseup"} ELSE @]

(* It comes up, out of the window or where somebody hears of it.  A press  *)
(* that went from one element to another is a click on what covers the     *)
(* page in some browsers, and none in others.                              *)
MouseUp(d, where) ==
  LET up == [d EXCEPT !.press = "none",
               !.handlers = IF where = "outside" THEN @ ELSE @ \ {"mouseup"},
               !.ignore = @ \/ (where = "beside" /\ "mouseup" \in d.handlers)]
  IN IF where = "outside" THEN {up}
     ELSE IF where = d.press THEN {Click(up, where)}
     ELSE {up, Click(up, "beside")}
=============================================================================
