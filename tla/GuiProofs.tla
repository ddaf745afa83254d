------------------------------ MODULE GuiProofs ------------------------------
(***************************************************************************)
(* Theorems about Gui, for any users, hosts, lists, pages and              *)
(* circumstances: a command runs where its user meant it, a page has one   *)
(* at a time, and the menus and the dialog do not get in each other's way. *)
(***************************************************************************)
EXTENDS Gui, FiniteSetTheorems, SequenceTheorems, TLAPS

-----------------------------------------------------------------------------
(* The overlays of a page.                                                 *)
Presses == {"none", "dialog", "beside"}

Bound == {"click", "focusin", "escape", "resize", "dismiss", "mousedown"}

Overlays ==
  [open : SUBSET Menus, made : BOOLEAN, isShown : BOOLEAN, backdrops : Nat,
   modalOpen : BOOLEAN, handlers : SUBSET (Bound \cup {"mouseup"}), ignore : BOOLEAN,
   press : Presses]

(* While the dialog is shown all its handlers are bound, and one waits for *)
(* the end of a press that began in it.                                    *)
OverlayOK(d) ==
  /\ d \in Overlays
  /\ \A a, b \in d.open : a = b
  /\ d.backdrops = (IF d.isShown THEN 1 ELSE 0) /\ d.modalOpen = d.isShown
  /\ d.isShown => /\ Bound \subseteq d.handlers
                  /\ d.press = "dialog" => "mouseup" \in d.handlers
  /\ ~d.isShown => d.handlers = {}

(* At first nothing lies over the page.                                    *)
LEMMA NewOverlayOK == OverlayOK(NewOverlay) /\ ~NewOverlay.isShown /\ NewOverlay.open = {}
BY DEF OverlayOK, NewOverlay, Overlays, Presses

(* The buttons and keys of the menus.                                      *)
LEMMA ClearMenus ==
  ASSUME NEW d, OverlayOK(d)
  PROVE  /\ OverlayOK(clearMenus(d)) /\ clearMenus(d).open = {}
         /\ clearMenus(d).isShown = d.isShown /\ clearMenus(d).press = d.press
BY DEF OverlayOK, clearMenus, Overlays

(* A menu opens and closes, and the dialog stays as it was.                *)
LEMMA ToggleOK ==
  ASSUME NEW d, OverlayOK(d), NEW menu \in Menus
  PROVE  /\ OverlayOK(Toggle(d, menu)) /\ Toggle(d, menu).isShown = d.isShown
         /\ Toggle(d, menu).press = d.press
<1>1. CASE menu \in d.open
  BY <1>1, ClearMenus DEF Toggle
<1>2. CASE menu \notin d.open
  BY <1>2 DEF Toggle, OverlayOK, clearMenus, Overlays
<1> QED BY <1>1, <1>2

(* So it does with the keys.                                               *)
LEMMA KeyDownOK ==
  ASSUME NEW d, OverlayOK(d), NEW menu \in Menus, NEW key, NEW inside \in BOOLEAN
  PROVE  /\ OverlayOK(KeyDown(d, menu, key, inside))
         /\ KeyDown(d, menu, key, inside).isShown = d.isShown
         /\ KeyDown(d, menu, key, inside).press = d.press
BY ToggleOK, ClearMenus DEF KeyDown

(* The dialog is shown, by a page that gets the click.                     *)
LEMMA ShowOK ==
  ASSUME NEW d, OverlayOK(d), ~d.isShown, d.press = "none"
  PROVE  OverlayOK(Show(d)) /\ Show(d).isShown /\ Show(d).press = "none"
<1>1. PICK e : e = [d EXCEPT !.isShown = TRUE, !.modalOpen = TRUE]
  OBVIOUS
<1>2. PICK f : f = [e EXCEPT !.handlers = @ \cup {"escape", "resize"}]
  OBVIOUS
<1>3. PICK g : g = [f EXCEPT !.handlers = @ \cup {"dismiss", "mousedown"}]
  OBVIOUS
<1>4. PICK h : h = Backdrop(g)
  OBVIOUS
<1>5. /\ e \in Overlays /\ e.isShown /\ e.modalOpen /\ e.backdrops = 0 /\ e.press = "none"
      /\ e.open = d.open
  BY <1>1 DEF OverlayOK, Overlays
<1>6. /\ f \in Overlays /\ f.isShown /\ f.modalOpen /\ f.backdrops = 0 /\ f.press = "none"
      /\ f.open = d.open /\ {"escape", "resize"} \subseteq f.handlers /\ f = Listen(e)
  BY <1>2, <1>5 DEF Overlays, Listen, Bound
<1>7. /\ g \in Overlays /\ g.isShown /\ g.modalOpen /\ g.backdrops = 0 /\ g.press = "none"
      /\ g.open = d.open /\ {"escape", "resize", "dismiss", "mousedown"} \subseteq g.handlers
  BY <1>3, <1>6 DEF Overlays, Bound
<1>8. /\ h \in Overlays /\ h.isShown /\ h.modalOpen /\ h.backdrops = 1 /\ h.press = "none"
      /\ h.open = d.open /\ h = Backdrop(g)
      /\ {"escape", "resize", "dismiss", "mousedown", "click"} \subseteq h.handlers
  <2>1. PICK n \in Nat : n = g.backdrops + 1
    BY <1>7
  <2>2. h = [g EXCEPT !.backdrops = n, !.handlers = g.handlers \cup {"click"}]
    BY <1>4, <1>7, <2>1 DEF Backdrop
  <2>3. /\ h \in Overlays /\ h.isShown = g.isShown /\ h.modalOpen = g.modalOpen
        /\ h.backdrops = n /\ h.press = g.press /\ h.open = g.open
        /\ h.handlers = g.handlers \cup {"click"}
    BY <1>7, <2>2 DEF Overlays, Bound
  <2> QED BY <2>1, <2>3, <1>4, <1>7
<1>9. g = [f EXCEPT !.handlers = f.handlers \cup {"dismiss", "mousedown"}]
  BY <1>3
<1>10. Show(d) = enforceFocus(h)
  <2>1. Show(d) = enforceFocus(Backdrop([Listen(e) EXCEPT !.handlers =
                    Listen(e).handlers \cup {"dismiss", "mousedown"}]))
    BY <1>1, Zenon DEF Show
  <2> QED BY <2>1, <1>6, <1>8, <1>9, Zenon
<1>11. Show(d) = [h EXCEPT !.handlers = @ \cup {"focusin"}]
  BY <1>10 DEF enforceFocus
<1> QED BY <1>8, <1>11 DEF OverlayOK, Overlays, Bound

(* A click that reaches the page opens the dialog anew.                    *)
LEMMA OpenByOK ==
  ASSUME NEW d, OverlayOK(d), Clickable(d)
  PROVE  /\ OverlayOK(OpenBy(d)) /\ OpenBy(d).isShown /\ OpenBy(d).press = "none"
         /\ OpenBy(d).open = {} /\ ~d.isShown
<1>1. ~d.isShown /\ d.press = "none"
  BY DEF Clickable, OverlayOK
<1>2. PICK e : e = [d EXCEPT !.made = TRUE]
  OBVIOUS
<1>3. OverlayOK(e) /\ ~e.isShown /\ e.press = "none"
  BY <1>1, <1>2 DEF OverlayOK, Overlays
<1>4. OverlayOK(Plugin(d)) /\ Plugin(d).isShown /\ Plugin(d).press = "none"
  BY <1>1, <1>2, <1>3, ShowOK DEF Plugin, ToggleDialog
<1> QED BY <1>1, <1>4, ClearMenus DEF OpenBy

(* It is hidden, and nothing stays behind.                                 *)
LEMMA HideOK ==
  ASSUME NEW d, OverlayOK(d)
  PROVE  /\ OverlayOK(Hide(d)) /\ ~Hide(d).isShown /\ Hide(d).press = d.press
         /\ Hide(d).open = d.open
<1>1. CASE ~d.isShown
  BY <1>1 DEF Hide
<1>2. CASE d.isShown
  <2>1. PICK e : e = [d EXCEPT !.isShown = FALSE]
    OBVIOUS
  <2>2. PICK f : f = [e EXCEPT !.handlers = @ \ {"escape", "resize"}]
    OBVIOUS
  <2>3. PICK g : g = [f EXCEPT !.handlers =
                        @ \ {"focusin", "dismiss", "click", "mouseup", "mousedown"}]
    OBVIOUS
  <2>4. PICK h : h = [g EXCEPT !.backdrops = @ - 1]
    OBVIOUS
  <2>5. /\ e \in Overlays /\ ~e.isShown /\ e.backdrops = 1 /\ e.press = d.press
        /\ e.open = d.open
    BY <1>2, <2>1 DEF OverlayOK, Overlays
  <2>6. /\ f \in Overlays /\ ~f.isShown /\ f.backdrops = 1 /\ f.press = d.press
        /\ f.open = d.open /\ f = Listen(e)
        /\ "escape" \notin f.handlers /\ "resize" \notin f.handlers
    BY <2>2, <2>5 DEF Overlays, Listen
  <2>7. /\ g \in Overlays /\ ~g.isShown /\ g.backdrops = 1 /\ g.press = d.press
        /\ g.open = d.open /\ g.handlers = {}
    BY <2>3, <2>6 DEF Overlays, Bound
  <2>8. /\ h \in Overlays /\ ~h.isShown /\ h.backdrops = 0 /\ h.press = d.press
        /\ h.open = d.open /\ h.handlers = {} /\ h = Backdrop(g)
    BY <2>4, <2>7 DEF Overlays, Backdrop, removeBackdrop
  <2>9. Hide(d) = [h EXCEPT !.modalOpen = FALSE]
    BY <1>2, <2>1, <2>3, <2>6, <2>8 DEF Hide, hideModal
  <2> QED BY <2>8, <2>9 DEF OverlayOK, Overlays
<1> QED BY <1>1, <1>2

(* The button of the dialog hides it.                                      *)
LEMMA DismissOK ==
  ASSUME NEW d, OverlayOK(d)
  PROVE  /\ OverlayOK(Dismiss(d)) /\ ~Dismiss(d).isShown /\ Dismiss(d).press = d.press
         /\ Dismiss(d).open = d.open
<1>1. CASE "dismiss" \in d.handlers
  <2>1. PICK e : e = Hide(d) /\ OverlayOK(e) /\ ~e.isShown /\ e.press = d.press /\ e.open = d.open
    BY HideOK
  <2>2. Dismiss(d) = [e EXCEPT !.ignore = FALSE]
    BY <1>1, <2>1 DEF Dismiss
  <2> QED BY <2>1, <2>2 DEF OverlayOK, Overlays
<1>2. CASE "dismiss" \notin d.handlers
  BY <1>2 DEF Dismiss, OverlayOK, Bound
<1> QED BY <1>1, <1>2

(* Escape hides the dialog or nothing.                                     *)
LEMMA EscapeOK ==
  ASSUME NEW d, OverlayOK(d)
  PROVE  /\ OverlayOK(Escape(d)) /\ (Escape(d).isShown => d.isShown)
         /\ Escape(d).press = d.press /\ Escape(d).open = d.open
BY HideOK DEF Escape

(* The mouse, in the dialog and beside it.                                 *)
LEMMA ClickOK ==
  ASSUME NEW d, OverlayOK(d), NEW where
  PROVE  /\ OverlayOK(Click(d, where)) /\ (Click(d, where).isShown => d.isShown)
         /\ Click(d, where).press = d.press /\ Click(d, where).open = d.open
         /\ d.ignore \/ where # "beside" => Click(d, where).isShown = d.isShown
<1>1. CASE "click" \in d.handlers /\ d.ignore
  BY <1>1 DEF Click, OverlayOK, Overlays
<1>2. CASE ~("click" \in d.handlers /\ d.ignore)
  BY <1>2, HideOK DEF Click, OverlayOK, Bound
<1> QED BY <1>1, <1>2

(* A press is remembered by where it began.                                *)
LEMMA MouseDownOK ==
  ASSUME NEW d, OverlayOK(d), NEW where \in {"dialog", "beside"}, d.isShown
  PROVE  /\ OverlayOK(MouseDown(d, where)) /\ MouseDown(d, where).isShown
         /\ MouseDown(d, where).press = where /\ MouseDown(d, where).open = d.open
BY DEF OverlayOK, MouseDown, Overlays, Presses, Bound

(* A press that began in the dialog does not hide it.                      *)
LEMMA MouseUpOK ==
  ASSUME NEW d, OverlayOK(d), d.press # "none",
         NEW where \in {"dialog", "beside", "outside"}, NEW e \in MouseUp(d, where)
  PROVE  /\ OverlayOK(e) /\ (e.isShown => d.isShown) /\ e.press = "none" /\ e.open = d.open
         /\ d.press = "dialog" => e.isShown = d.isShown
<1>1. PICK raised : raised = [d EXCEPT !.press = "none",
                 !.handlers = IF where = "outside" THEN @ ELSE @ \ {"mouseup"},
                 !.ignore = @ \/ (where = "beside" /\ "mouseup" \in d.handlers)]
  OBVIOUS
<1>2. /\ OverlayOK(raised) /\ raised.isShown = d.isShown
      /\ raised.press = "none" /\ raised.open = d.open
      /\ d.isShown /\ d.press = "dialog" /\ where = "beside" => raised.ignore
  BY <1>1 DEF OverlayOK, Overlays, Presses, Bound
<1>3. \/ e = raised
      \/ where # "outside" /\ where = d.press /\ e = Click(raised, where)
      \/ where # "outside" /\ where # d.press /\ e = Click(raised, "beside")
  BY <1>1 DEF MouseUp
<1>4. CASE e = raised
  BY <1>2, <1>4
<1>5. CASE where = d.press /\ e = Click(raised, where)
  BY <1>2, <1>5, ClickOK
<1>6. CASE where # "outside" /\ where # d.press /\ e = Click(raised, "beside")
  <2>1. d.press = "dialog" => where = "beside"
    BY <1>6
  <2>2. d.press = "dialog" /\ d.isShown => e.isShown
    BY <2>1, <1>2, <1>6, ClickOK
  <2> QED BY <2>2, <1>2, <1>6, ClickOK DEF OverlayOK, Overlays
<1> QED BY <1>3, <1>4, <1>5, <1>6

-----------------------------------------------------------------------------
(* The page.                                                               *)
Modals == [cmd : {None, "status", "info", "start"} \cup Dialogs, meant : Targets,
           argument : {"", "name", "fqdn"}, typed : BOOLEAN]

Html == {term2html(text) : text \in Seq(STRING)} \cup {<<>>, ErrorText}

MainsOf(u) == [Positions(u) -> Lists \cup {None}]

Pages ==
  [open : BOOLEAN, lock : BOOLEAN, hix : Nat, cix : Nat, main : Mains \cup {<<>>},
   picked : Targets, modal : Modals, over : Overlays, terminal : Html, sent : Nat]

(* No dialog is opened before all lists are there, and then none arrives.  *)
Sure == "hasty" \notin env.events /\ OnePage

AllKnown(main) == main # <<>> /\ \A i \in DOMAIN main : main[i] # None

ModalOK(m) == m \in Modals /\ (m.argument # "" => m.typed)

(* The lists of a page are those of its user, and one of his hosts is      *)
(* selected.                                                               *)
Listed(t, p) ==
  p.main # <<>> => /\ NameOf[t] \in Users /\ p.main \in MainsOf(NameOf[t])
                   /\ p.hix \in Positions(NameOf[t])

(* A container that is selected is the one the user picked.                *)
Chosen(t, p) ==
  p.cix # 0 => /\ p.main # <<>> /\ p.main[p.hix] # None
               /\ p.cix \in DOMAIN p.main[p.hix]
               /\ p.picked = Target(t, p.hix, p.main[p.hix][p.cix])

(* A dialog that is shown is for the host that is selected.                *)
Shown(sure, t, p) ==
  p.over.isShown => /\ p.main # <<>> /\ p.modal.meant.ve = None
                    /\ sure => AllKnown(p.main) /\ p.modal.meant = Target(t, p.hix, None)

PageOK(sure, t, p) ==
  /\ p \in Pages /\ OverlayOK(p.over) /\ ModalOK(p.modal)
  /\ p.lock => p.over.open = {}
  /\ Listed(t, p) /\ Chosen(t, p) /\ Shown(sure, t, p)
  /\ ~p.open => p = NoPage

(* The dialog of a page that has just been opened.                         *)
LEMMA NoModalOK == ModalOK(NoModal)
BY DEF ModalOK, Modals, NoModal, Targets

(* A command of a menu says what it was chosen for.                        *)
LEMMA PlainlyOK ==
  ASSUME NEW cmd \in {"status", "info", "start"}, NEW meant \in Targets
  PROVE  /\ ModalOK(Plainly(cmd, meant)) /\ Plainly(cmd, meant).cmd = cmd
         /\ Plainly(cmd, meant).meant = meant
BY DEF Plainly, ModalOK, Modals, NoModal

(* So does a dialog that is opened.                                        *)
LEMMA ResetOK ==
  ASSUME NEW modal, NEW cmd \in Dialogs, NEW meant \in Targets
  PROVE  /\ ModalOK(reset_modal(modal, cmd, meant))
         /\ reset_modal(modal, cmd, meant).meant = meant
BY DEF reset_modal, ModalOK, Modals, NoModal

(* What stands at a position is a host.                                    *)
LEMMA HostOf ==
  ASSUME NEW u \in Users, NEW i \in Positions(u)
  PROVE  HostsOf[u][i] \in Hosts
BY ConstantsAssumption DEF Positions

(* A user has a first host.                                                *)
LEMMA FirstPosition == ASSUME NEW u \in Users PROVE 1 \in Positions(u)
<1>1. HostsOf[u] \in Seq(Hosts) /\ HostsOf[u] # <<>>
  BY ConstantsAssumption
<1>2. Len(HostsOf[u]) \in Nat \ {0}
  BY <1>1
<1> QED BY <1>2 DEF Positions

(* What a user sees at a position is a target.                             *)
LEMMA TargetOK ==
  ASSUME NEW t \in Tabs, NameOf[t] \in Users, NEW i \in Positions(NameOf[t]),
         NEW ve \in Containers \cup {None}
  PROVE  /\ Target(t, i, ve) \in Targets /\ Target(t, i, ve).ve = ve
         /\ Target(t, i, ve).host = HostsOf[NameOf[t]][i]
BY HostOf DEF Target, Targets

(* What is in the list of a host.                                          *)
LEMMA InList ==
  ASSUME NEW u \in Users, NEW main \in MainsOf(u), NEW i \in Positions(u), main[i] # None,
         NEW j \in DOMAIN main[i]
  PROVE  main[i][j] \in Containers /\ j \in Nat \ {0}
<1>1. main[i] \in Lists
  BY DEF MainsOf
<1>2. main[i] \in Seq(Containers)
  BY <1>1, ConstantsAssumption
<1> QED BY <1>2

(* The lists of a user are as many as his hosts.                           *)
LEMMA MainOf ==
  ASSUME NEW u \in Users, NEW main \in MainsOf(u)
  PROVE  main \in Mains /\ DOMAIN main = Positions(u) /\ main # <<>>
<1>1. main \in Mains /\ DOMAIN main = Positions(u)
  BY DEF MainsOf, Mains
<1>2. 1 \in DOMAIN main
  BY <1>1, FirstPosition
<1> QED BY <1>1, <1>2

(* A page that is not open.                                                *)
LEMMA NoPageOK ==
  ASSUME NEW t \in Tabs, NEW sure \in BOOLEAN
  PROVE  PageOK(sure, t, NoPage)
<1>1. NoPage.over = NewOverlay /\ NoPage.modal = NoModal
  BY DEF NoPage
<1>2. NewOverlay \in Overlays /\ NoModal \in Modals /\ None \in Targets
  BY NewOverlayOK, NoModalOK DEF OverlayOK, ModalOK, Targets
<1>3. NoPage \in Pages
  BY <1>2 DEF NoPage, Pages, Html
<1>4. NoPage.main = <<>> /\ NoPage.cix = 0
  BY DEF NoPage
<1> QED BY <1>1, <1>3, <1>4, NewOverlayOK, NoModalOK DEF PageOK, Listed, Chosen, Shown

(* When the menus are made anew the rest of the page stays.                *)
LEMMA RebuiltOK ==
  ASSUME NEW t \in Tabs, NEW sure \in BOOLEAN, NEW old, NEW p \in Pages,
         OverlayOK(p.over), ModalOK(p.modal),
         Listed(t, p), Chosen(t, p), Shown(sure, t, p), p.open, NEW q, q = Rebuilt(old, p)
  PROVE  /\ PageOK(sure, t, q) /\ q.open /\ q.lock = p.lock /\ q.main = p.main /\ q.hix = p.hix
         /\ q.over.press = p.over.press /\ q.over.isShown = p.over.isShown
<1>1. PICK over : over = clearMenus(p.over) /\ OverlayOK(over) /\ over.open = {}
                  /\ over.isShown = p.over.isShown /\ over.press = p.over.press
  BY ClearMenus
<1>2. PICK r : r = [p EXCEPT !.over = over]
  OBVIOUS
<1>3. (q = p /\ ~p.lock) \/ q = r
  BY <1>1, <1>2 DEF Rebuilt
<1>4. CASE q = p /\ ~p.lock
  BY <1>4 DEF PageOK
<1>5. CASE q = r
  <2>1. over \in Overlays
    BY <1>1 DEF OverlayOK
  <2>2. /\ q \in Pages /\ q.over = over /\ q.modal = p.modal /\ q.main = p.main
        /\ q.hix = p.hix /\ q.cix = p.cix /\ q.picked = p.picked /\ q.open = p.open
        /\ q.lock = p.lock
    BY <1>2, <1>5, <2>1 DEF Pages
  <2>3. Listed(t, q) /\ Chosen(t, q) /\ Shown(sure, t, q)
    BY <1>1, <2>2, Zenon DEF Listed, Chosen, Shown
  <2> QED BY <1>1, <2>2, <2>3 DEF PageOK
<1> QED BY <1>3, <1>4, <1>5

(* What the mouse and the keyboard do to a page that is open: its lists    *)
(* and its lock stay, and so does what it sends.                           *)
LEMMA EditedOK ==
  ASSUME NEW t \in Tabs, NEW sure \in BOOLEAN, NEW p, PageOK(sure, t, p), p.open,
         NEW over, OverlayOK(over), over.isShown => p.over.isShown,
         p.lock => over.open = {},
         NEW q, q = [p EXCEPT !.over = over]
  PROVE  /\ PageOK(sure, t, q) /\ q.open /\ q.lock = p.lock /\ q.main = p.main
         /\ q.over = over /\ q.modal = p.modal
<1>1. over \in Overlays /\ p \in Pages
  BY DEF OverlayOK, PageOK
<1>2. /\ q \in Pages /\ q.over = over /\ q.modal = p.modal /\ q.main = p.main
      /\ q.hix = p.hix /\ q.cix = p.cix /\ q.picked = p.picked /\ q.open = p.open
      /\ q.lock = p.lock
  BY <1>1 DEF Pages
<1>3. Listed(t, q) /\ Chosen(t, q)
  BY <1>2, Zenon DEF PageOK, Listed, Chosen
<1>4. Shown(sure, t, q)
  BY <1>2, Zenon DEF PageOK, Shown
<1> QED BY <1>2, <1>3, <1>4 DEF PageOK

(* A page of which the buttons work: no dialog, and one of the hosts of    *)
(* its user is selected.                                                   *)
LEMMA FreeIs ==
  ASSUME NEW t \in Tabs, NEW sure \in BOOLEAN, PageOK(sure, t, page[t]), Loaded(t),
         Clickable(page[t].over)
  PROVE  /\ page[t].open /\ page[t].main # <<>> /\ NameOf[t] \in Users
         /\ page[t].main \in MainsOf(NameOf[t]) /\ page[t].hix \in Positions(NameOf[t])
         /\ ~page[t].over.isShown /\ page[t].over.press = "none"
<1>1. page[t].open /\ page[t].main # <<>>
  BY DEF Loaded
<1>2. ~page[t].over.isShown /\ page[t].over.press = "none"
  BY DEF Clickable, PageOK, OverlayOK
<1> QED BY <1>1, <1>2 DEF PageOK, Listed

-----------------------------------------------------------------------------
(* What is sent.                                                           *)
Orders == [type : {"sc-command"}, hix : Nat, modal : Modals, ve : Containers \cup {None}]

UpMsgs == Orders \cup [type : {"get-main"}]

(* A message or a connection of user u has what the user meant.            *)
Meant(sure, u, m) ==
  /\ ModalOK(m.modal)
  /\ m.modal.cmd = "add-fedora" => is_fqdn(m.modal.argument)
  /\ u \in Users => m.hix \in Positions(u)
  /\ u \in Users /\ sure /\ m.modal.meant # None =>
       HostsOf[u][m.hix] = m.modal.meant.host /\ m.ve = m.modal.meant.ve

(* The user means the selected host, or the selected container.            *)
Aim(sure, t, p, modal) ==
  /\ ModalOK(modal)
  /\ modal.cmd = "add-fedora" => is_fqdn(modal.argument)
  /\ \/ modal.meant = Target(t, p.hix, None)
     \/ p.main[p.hix] # None /\ p.cix \in DOMAIN p.main[p.hix]
          /\ modal.meant = Target(t, p.hix, p.main[p.hix][p.cix])
     \/ ~sure /\ modal.meant.ve = None

(* A page sends an order, and is locked.                                   *)
Ordered(sure, t) ==
  \E q : /\ page' = [page EXCEPT ![t] = q]
         /\ PageOK(sure, t, q) /\ q.open /\ q.lock /\ q.main = page[t].main
         /\ q.over.press = page[t].over.press
         /\ \/ up' = up
            \/ \E m \in Orders : /\ Meant(sure, NameOf[t], m)
                                 /\ up' = [up EXCEPT ![t] = Append(up[t], m)]

(* A command that is sent is what its user saw when he chose it.           *)
LEMMA CommandOrders ==
  ASSUME NEW t \in Tabs, NEW sure \in BOOLEAN, up \in [Tabs -> Seq(UpMsgs)],
         NEW p \in Pages, OverlayOK(p.over), ModalOK(p.modal),
         Listed(t, p), Chosen(t, p), Shown(sure, t, p), p.open, p.main # <<>>,
         p.main = page[t].main, p.over.press = page[t].over.press,
         NEW modal, Aim(sure, t, p, modal), Command(t, p, modal)
  PROVE  Ordered(sure, t)
<1>1. /\ NameOf[t] \in Users /\ p.main \in MainsOf(NameOf[t])
      /\ p.hix \in Positions(NameOf[t]) /\ p.hix \in Nat
  BY DEF Listed, Pages
<1>2. PICK onHost \in BOOLEAN, L \in {p.main[p.hix]} :
        L = p.main[p.hix] /\ onHost = (modal.meant = None \/ modal.meant.ve = None)
  OBVIOUS
<1>3. PICK throws \in BOOLEAN : throws = (~onHost /\ (L = None \/ p.cix \notin DOMAIN L))
  OBVIOUS
<1>4. PICK n \in Nat, html \in Html : n = p.sent + 1 /\ html = <<>>
  BY DEF Pages, Html
<1>5. PICK r : r = [p EXCEPT !.lock = TRUE, !.sent = n, !.terminal = html]
  OBVIOUS
<1>6. PICK m : m = [type |-> "sc-command", hix |-> p.hix, modal |-> modal,
                    ve |-> IF onHost THEN None ELSE L[p.cix]]
  OBVIOUS
<1>7. PICK s : s = IF throws THEN up[t] ELSE Append(up[t], m)
  OBVIOUS
<1>8. PICK q : q = Rebuilt(page[t], r)
  OBVIOUS
<1>9. page' = [page EXCEPT ![t] = q] /\ up' = [up EXCEPT ![t] = s]
  BY <1>2, <1>3, <1>4, <1>5, <1>6, <1>7, <1>8 DEF Command
<1>10. /\ PageOK(sure, t, q) /\ q.open /\ q.lock /\ q.main = p.main
       /\ q.over.press = p.over.press
  <2>1. /\ r \in Pages /\ r.over = p.over /\ r.modal = p.modal /\ r.main = p.main
        /\ r.hix = p.hix /\ r.cix = p.cix /\ r.picked = p.picked /\ r.open = p.open /\ r.lock
    BY <1>4, <1>5 DEF Pages
  <2>2. Listed(t, r) /\ Chosen(t, r) /\ Shown(sure, t, r)
    BY <2>1, Zenon DEF Listed, Chosen, Shown
  <2>3. OverlayOK(r.over) /\ ModalOK(r.modal) /\ r.open
    BY <2>1
  <2> QED BY <1>8, <2>1, <2>2, <2>3, RebuiltOK
<1>11. CASE throws
  <2>1. up' = up
    BY <1>7, <1>9, <1>11
  <2> QED BY <1>9, <1>10, <2>1 DEF Ordered
<1>12. CASE ~throws
  <2>1. s = Append(up[t], m)
    BY <1>7, <1>12
  <2>2. ~onHost => L # None /\ p.cix \in DOMAIN L /\ L[p.cix] \in Containers
    BY <1>1, <1>2, <1>3, <1>12, InList
  <2>3. /\ onHost => m.ve = None
        /\ ~onHost => m.ve = L[p.cix]
        /\ m.hix = p.hix /\ m.modal = modal /\ m.type = "sc-command"
    BY <1>6
  <2>4. ModalOK(modal) /\ (modal.cmd = "add-fedora" => is_fqdn(modal.argument))
    BY DEF Aim
  <2>5. m.ve \in Containers \cup {None} /\ m.modal \in Modals /\ m.hix \in Nat
    BY <1>1, <2>2, <2>3, <2>4 DEF ModalOK
  <2>6. m \in Orders
    BY <1>6, <2>3, <2>5 DEF Orders
  <2>7. ASSUME sure, modal.meant # None
        PROVE  HostsOf[NameOf[t]][m.hix] = modal.meant.host /\ m.ve = modal.meant.ve
    <3>1. CASE modal.meant = Target(t, p.hix, None)
      <4>1. PICK target : target = Target(t, p.hix, None)
        OBVIOUS
      <4>2. target.ve = None /\ target.host = HostsOf[NameOf[t]][p.hix]
        BY <4>1 DEF Target
      <4> QED BY <1>2, <2>3, <3>1, <4>1, <4>2
    <3>2. CASE /\ L # None /\ p.cix \in DOMAIN L
               /\ modal.meant = Target(t, p.hix, L[p.cix])
      <4>1. L[p.cix] \in Containers
        BY <1>1, <1>2, <3>2, InList
      <4>2. PICK target : target = Target(t, p.hix, L[p.cix])
        OBVIOUS
      <4>3. target.ve = L[p.cix] /\ target.host = HostsOf[NameOf[t]][p.hix]
        BY <4>2 DEF Target
      <4> QED BY <1>2, <2>3, <2>7, <3>2, <4>2, <4>3
    <3> QED BY <1>2, <2>7, <3>1, <3>2 DEF Aim
  <2>8. Meant(sure, NameOf[t], m)
    BY <1>1, <2>3, <2>4, <2>7 DEF Meant
  <2> QED BY <1>9, <1>10, <2>1, <2>6, <2>8 DEF Ordered
<1> QED BY <1>11, <1>12

-----------------------------------------------------------------------------
(* The steps of a person, as far as the rest of the system knows them.     *)
PagesOK == page \in [Tabs -> Pages] /\ \A t \in Tabs : PageOK(Sure, t, page[t])

(* What goes on in the page itself.                                        *)
Edited(t) ==
  /\ \E q : /\ page' = [page EXCEPT ![t] = q]
            /\ PageOK(Sure, t, q) /\ q.open /\ q.lock = page[t].lock
            /\ q.main = page[t].main
            /\ page[t].over.press = "dialog" /\ q.over.press = "none" =>
                 q.over.isShown = page[t].over.isShown
  /\ page[t].open
  /\ UNCHANGED <<server, up, down, calm>>

Sends(t) ==
  /\ Ordered(Sure, t) /\ page[t].open /\ ~page[t].lock
  /\ UNCHANGED <<server, down, calm>>

(* What only changes what lies over the page is an edit of it.             *)
LEMMA OverEdits ==
  ASSUME NEW t \in Tabs, NEW p \in Pages, PageOK(Sure, t, p), p.open,
         p.lock = page[t].lock, p.main = page[t].main, page[t].open,
         NEW over, OverlayOK(over), over.isShown => p.over.isShown,
         p.lock => over.open = {},
         page[t].over.press = "dialog" /\ over.press = "none" =>
           over.isShown = page[t].over.isShown,
         Over(t, p, over)
  PROVE  Edited(t)
<1>1. PICK q : q = [p EXCEPT !.over = over]
  OBVIOUS
<1>2. Sure \in BOOLEAN
  BY DEF Sure
<1>3. PageOK(Sure, t, q) /\ q.open /\ q.lock = p.lock /\ q.main = p.main /\ q.over = over
  BY <1>1, <1>2, EditedOK
<1>4. page' = [page EXCEPT ![t] = q]
  BY <1>1 DEF Over
<1> QED BY <1>3, <1>4 DEF Edited, Over

(* The menus are used without leaving the page.                            *)
LEMMA UseMenusEdits ==
  ASSUME NEW t \in Tabs, PagesOK, UseMenus(t)
  PROVE  Edited(t)
<1>1. /\ PageOK(Sure, t, page[t]) /\ page[t] \in Pages /\ OverlayOK(page[t].over)
      /\ page[t].open /\ ~page[t].lock /\ page[t].over.press = "none"
  BY DEF PagesOK, PageOK, UseMenus, Free, Loaded, Clickable
<1>2. PICK over : /\ Over(t, page[t], over) /\ OverlayOK(over)
                  /\ over.isShown = page[t].over.isShown
  <2>1. CASE Over(t, page[t], clearMenus(page[t].over))
    BY <1>1, <2>1, ClearMenus
  <2>2. CASE \E menu \in Menus :
               \/ Over(t, page[t], Toggle(page[t].over, menu))
               \/ \E key \in {"esc", "arrow"}, inside \in BOOLEAN :
                    Over(t, page[t], KeyDown(page[t].over, menu, key, inside))
    BY <1>1, <2>2, ToggleOK, KeyDownOK
  <2> QED BY <2>1, <2>2 DEF UseMenus
<1> QED BY <1>1, <1>2, OverEdits

(* The dialog is for the host that is selected when it is opened.          *)
LEMMA OpenModalEdits ==
  ASSUME NEW t \in Tabs, PagesOK, OpenModal(t)
  PROVE  Edited(t)
<1>1. PageOK(Sure, t, page[t]) /\ page[t] \in Pages /\ Sure \in BOOLEAN
  BY DEF PagesOK, Sure
<1>2. /\ page[t].open /\ page[t].main # <<>> /\ NameOf[t] \in Users
      /\ page[t].hix \in Positions(NameOf[t])
      /\ ~page[t].over.isShown /\ page[t].over.press = "none"
  BY <1>1, FreeIs DEF OpenModal
<1>3. PICK cmd \in Dialogs, target \in {Target(t, page[t].hix, None)} :
        /\ target = Target(t, page[t].hix, None)
        /\ Over(t, [page[t] EXCEPT !.modal = reset_modal(@, cmd, target)],
                OpenBy(page[t].over))
  BY DEF OpenModal
<1>4. PICK modal, over :
        modal = reset_modal(page[t].modal, cmd, target) /\ over = OpenBy(page[t].over)
  OBVIOUS
<1>5. target \in Targets /\ target.ve = None
  <2>1. PICK i \in Positions(NameOf[t]) : i = page[t].hix
    BY <1>2
  <2>2. Target(t, i, None) \in Targets /\ Target(t, i, None).ve = None
    <3>1. NameOf[t] \in Users
      BY <1>2
    <3>2. PICK ve \in Containers \cup {None} : ve = None
      OBVIOUS
    <3>3. Target(t, i, ve) \in Targets /\ Target(t, i, ve).ve = ve
      BY <3>1, TargetOK
    <3> QED BY <3>2, <3>3
  <2> QED BY <1>3, <2>1, <2>2
<1>6. ModalOK(modal) /\ modal.meant = target
  BY <1>4, <1>5, ResetOK
<1>7. OverlayOK(over) /\ over.isShown /\ over.press = "none" /\ over.open = {}
  BY <1>1, <1>4, OpenByOK DEF OpenModal, PageOK
<1>8. PICK q : q = [page[t] EXCEPT !.modal = modal, !.over = over]
  OBVIOUS
<1>9. page' = [page EXCEPT ![t] = q]
  BY <1>3, <1>4, <1>8 DEF Over
<1>10. modal \in Modals /\ over \in Overlays
  BY <1>6, <1>7 DEF ModalOK, OverlayOK
<1>11. /\ q \in Pages /\ q.over = over /\ q.modal = modal /\ q.main = page[t].main
       /\ q.hix = page[t].hix /\ q.cix = page[t].cix /\ q.picked = page[t].picked
       /\ q.open = page[t].open /\ q.lock = page[t].lock
  BY <1>1, <1>8, <1>10 DEF Pages
<1>12. Listed(t, q) /\ Chosen(t, q)
  BY <1>1, <1>11, Zenon DEF PageOK, Listed, Chosen
<1>13. Sure => AllKnown(page[t].main)
  BY <1>2 DEF OpenModal, Sure, AllKnown
<1>14. Shown(Sure, t, q)
  BY <1>2, <1>3, <1>5, <1>6, <1>11, <1>13 DEF Shown
<1>15. PageOK(Sure, t, q)
  BY <1>2, <1>6, <1>7, <1>11, <1>12, <1>14 DEF PageOK
<1> QED BY <1>2, <1>3, <1>9, <1>11, <1>15 DEF Edited, Over

(* What is typed stays in the dialog.                                      *)
LEMMA TypeEdits ==
  ASSUME NEW t \in Tabs, PagesOK, Type(t)
  PROVE  Edited(t)
<1>1. PageOK(Sure, t, page[t]) /\ page[t] \in Pages /\ page[t].over.isShown
  BY DEF PagesOK, Type
<1>2. page[t].open
  BY <1>1, NewOverlayOK DEF PageOK, NoPage
<1>3. PICK argument \in {"name", "fqdn"} :
        Over(t, [page[t] EXCEPT !.modal.argument = argument, !.modal.typed = TRUE],
             page[t].over)
  BY DEF Type
<1>4. PICK modal : modal = [page[t].modal EXCEPT !.argument = argument, !.typed = TRUE]
  OBVIOUS
<1>5. page[t].modal \in Modals
  BY <1>1 DEF PageOK, ModalOK
<1>6. ModalOK(modal) /\ modal \in Modals /\ modal.meant = page[t].modal.meant
  BY <1>4, <1>5 DEF ModalOK, Modals
<1>7. PICK p : p = [page[t] EXCEPT !.modal = modal]
  OBVIOUS
<1>8. p = [page[t] EXCEPT !.modal.argument = argument, !.modal.typed = TRUE]
  BY <1>1, <1>4, <1>5, <1>7 DEF Pages, Modals
<1>9. /\ p \in Pages /\ p.over = page[t].over /\ p.modal = modal /\ p.main = page[t].main
      /\ p.hix = page[t].hix /\ p.cix = page[t].cix /\ p.picked = page[t].picked
      /\ p.open = page[t].open /\ p.lock = page[t].lock
  BY <1>1, <1>6, <1>7 DEF Pages
<1>10. Listed(t, p) /\ Chosen(t, p)
  BY <1>1, <1>9, Zenon DEF PageOK, Listed, Chosen
<1>11. Shown(Sure, t, p)
  BY <1>1, <1>6, <1>9, Zenon DEF PageOK, Shown
<1>12. PageOK(Sure, t, p)
  BY <1>1, <1>2, <1>6, <1>9, <1>10, <1>11 DEF PageOK
<1>13. Over(t, p, page[t].over)
  BY <1>3, <1>8
<1> QED BY <1>1, <1>2, <1>9, <1>12, <1>13, OverEdits DEF PageOK

(* To leave the dialog changes the page alone.                             *)
LEMMA LeaveEdits ==
  ASSUME NEW t \in Tabs, PagesOK, Leave(t)
  PROVE  Edited(t)
<1>1. PageOK(Sure, t, page[t]) /\ page[t] \in Pages /\ page[t].over.isShown
  BY DEF PagesOK, Leave
<1>2. page[t].open /\ OverlayOK(page[t].over) /\ (page[t].lock => page[t].over.open = {})
  BY <1>1, NewOverlayOK DEF PageOK, NoPage
<1>3. PICK over : /\ Over(t, page[t], over) /\ OverlayOK(over)
                  /\ over.press = page[t].over.press /\ over.open = page[t].over.open
  BY <1>2, DismissOK, EscapeOK DEF Leave
<1> QED BY <1>1, <1>2, <1>3, OverEdits

(* So does the mouse.                                                      *)
LEMMA MouseEdits ==
  ASSUME NEW t \in Tabs, PagesOK, Mouse(t)
  PROVE  Edited(t)
<1>1. PageOK(Sure, t, page[t]) /\ page[t] \in Pages
  BY DEF PagesOK, Mouse
<1>2. OverlayOK(page[t].over) /\ (page[t].lock => page[t].over.open = {})
  BY <1>1 DEF PageOK
<1>3. page[t].over.isShown \/ page[t].over.press # "none"
  BY DEF Mouse
<1>4. page[t].open
  BY <1>1, <1>3 DEF PageOK, NoPage, NewOverlay
<1>5. PICK over :
        /\ Over(t, page[t], over) /\ OverlayOK(over) /\ over.open = page[t].over.open
        /\ over.isShown => page[t].over.isShown
        /\ page[t].over.press = "dialog" /\ over.press = "none" =>
             over.isShown = page[t].over.isShown
  <2>1. CASE page[t].over.isShown /\ page[t].over.press = "none"
               /\ \E where \in {"dialog", "beside"} :
                    Over(t, page[t], MouseDown(page[t].over, where))
    BY <1>2, <2>1, MouseDownOK
  <2>2. CASE page[t].over.press # "none" /\ \E where \in {"dialog", "beside", "outside"} :
               \E over \in MouseUp(page[t].over, where) : Over(t, page[t], over)
    BY <1>2, <2>2, MouseUpOK
  <2> QED BY <2>1, <2>2 DEF Mouse
<1> QED BY <1>1, <1>2, <1>4, <1>5, OverEdits

(* A host is selected, and no container.                                   *)
LEMMA SethixOK ==
  ASSUME NEW t \in Tabs, NEW sure \in BOOLEAN, NEW p, PageOK(sure, t, p),
         p.main # <<>>, NEW q, q.main = p.main, q.cix = 0,
         q.hix \in Positions(NameOf[t]), ~q.over.isShown
  PROVE  Listed(t, q) /\ Chosen(t, q) /\ Shown(sure, t, q)
BY DEF PageOK, Listed, Chosen, Shown

(* To select a host that has no list yet asks for the list.                *)
LEMMA ClickHostSends ==
  ASSUME NEW t \in Tabs, PagesOK, up \in [Tabs -> Seq(UpMsgs)], NEW i, ClickHost(t, i)
  PROVE  Sends(t)
<1>1. PageOK(Sure, t, page[t]) /\ page[t] \in Pages /\ Sure \in BOOLEAN /\ ~page[t].lock
  BY DEF PagesOK, Sure, ClickHost, Free
<1>2. /\ page[t].open /\ page[t].main # <<>> /\ NameOf[t] \in Users
      /\ page[t].main \in MainsOf(NameOf[t])
      /\ ~page[t].over.isShown /\ page[t].over.press = "none"
  BY <1>1, FreeIs DEF ClickHost, Free
<1>3. i \in Positions(NameOf[t])
  BY <1>2, MainOf DEF ClickHost
<1>4. PICK meant \in Targets : meant = Target(t, i, None)
  BY <1>2, <1>3, TargetOK
<1>5. PICK over : /\ over = clearMenus(page[t].over) /\ OverlayOK(over)
                  /\ ~over.isShown /\ over.press = page[t].over.press
  BY <1>1, <1>2, ClearMenus DEF PageOK
<1>6. PICK q : q = [page[t] EXCEPT !.hix = i, !.cix = 0, !.picked = meant, !.over = over]
  OBVIOUS
<1>7. q = [sethix([page[t] EXCEPT !.over = over], i) EXCEPT !.picked = meant]
  BY <1>1, <1>6 DEF sethix, Pages
<1>8. Command(t, q, Plainly("status", meant))
  BY <1>4, <1>5, <1>7 DEF ClickHost
<1>9. /\ q \in Pages /\ q.over = over /\ q.modal = page[t].modal /\ q.main = page[t].main
      /\ q.open = page[t].open /\ q.hix = i
      /\ Listed(t, q) /\ Chosen(t, q) /\ Shown(Sure, t, q)
  <2>1. over \in Overlays /\ i \in Nat /\ 0 \in Nat
    BY <1>3, <1>5 DEF OverlayOK, Positions
  <2>2. /\ q \in Pages /\ q.over = over /\ q.modal = page[t].modal /\ q.main = page[t].main
        /\ q.open = page[t].open /\ q.hix = i /\ q.cix = 0
    BY <1>1, <1>4, <1>6, <2>1 DEF Pages
  <2> QED BY <1>1, <1>2, <1>3, <1>5, <2>2, SethixOK
<1>10. Aim(Sure, t, q, Plainly("status", meant))
  BY <1>4, <1>9, PlainlyOK DEF Aim
<1>11. Ordered(Sure, t)
  BY <1>1, <1>2, <1>5, <1>8, <1>9, <1>10, CommandOrders DEF PageOK
<1> QED BY <1>1, <1>2, <1>11 DEF Sends, ClickHost

(* The container that is clicked is the one the user meant.                *)
LEMMA ClickContainerSends ==
  ASSUME NEW t \in Tabs, PagesOK, up \in [Tabs -> Seq(UpMsgs)], NEW i, ClickContainer(t, i)
  PROVE  Sends(t)
<1>1. PageOK(Sure, t, page[t]) /\ page[t] \in Pages /\ Sure \in BOOLEAN /\ ~page[t].lock
  BY DEF PagesOK, Sure, ClickContainer, Free
<1>2. /\ page[t].open /\ page[t].main # <<>> /\ NameOf[t] \in Users
      /\ page[t].main \in MainsOf(NameOf[t]) /\ page[t].hix \in Positions(NameOf[t])
      /\ ~page[t].over.isShown /\ page[t].over.press = "none"
  BY <1>1, FreeIs DEF ClickContainer, Free
<1>3. PICK L \in Lists \cup {None} : L = page[t].main[page[t].hix]
  BY <1>2 DEF MainsOf
<1>4. L # None /\ i \in DOMAIN L
  BY <1>3 DEF ClickContainer
<1>5. L[i] \in Containers /\ i \in Nat
  BY <1>2, <1>3, <1>4, InList
<1>6. PICK meant \in Targets : meant = Target(t, page[t].hix, L[i])
  BY <1>2, <1>5, TargetOK
<1>7. PICK q : q = [page[t] EXCEPT !.cix = i, !.picked = meant]
  OBVIOUS
<1>8. Command(t, q, Plainly("info", meant))
  BY <1>3, <1>6, <1>7 DEF ClickContainer
<1>9. /\ q \in Pages /\ q.over = page[t].over /\ q.modal = page[t].modal
      /\ q.main = page[t].main /\ q.hix = page[t].hix /\ q.cix = i /\ q.picked = meant
      /\ q.open = page[t].open
  BY <1>1, <1>5, <1>7 DEF Pages
<1>10. Listed(t, q) /\ Shown(Sure, t, q)
  BY <1>1, <1>9, Zenon DEF PageOK, Listed, Shown
<1>11. Chosen(t, q)
  BY <1>2, <1>3, <1>4, <1>6, <1>9 DEF Chosen
<1>12. Aim(Sure, t, q, Plainly("info", meant))
  BY <1>3, <1>4, <1>6, <1>9, PlainlyOK DEF Aim
<1>13. Ordered(Sure, t)
  BY <1>1, <1>2, <1>8, <1>9, <1>10, <1>11, <1>12, CommandOrders DEF PageOK
<1> QED BY <1>1, <1>2, <1>13 DEF Sends, ClickContainer

(* A menu sends its command.                                               *)
LEMMA MenuSends ==
  ASSUME NEW t \in Tabs, PagesOK, up \in [Tabs -> Seq(UpMsgs)], Menu(t)
  PROVE  Sends(t)
<1>1. PageOK(Sure, t, page[t]) /\ page[t] \in Pages /\ Sure \in BOOLEAN /\ ~page[t].lock
  BY DEF PagesOK, Sure, Menu, Free
<1>2. /\ page[t].open /\ page[t].main # <<>> /\ NameOf[t] \in Users
      /\ page[t].main \in MainsOf(NameOf[t]) /\ page[t].hix \in Positions(NameOf[t])
  BY <1>1, FreeIs DEF Menu, Free
<1>3. PICK meant : /\ Command(t, page[t], Plainly("start", meant))
                   /\ meant = IF page[t].cix = 0 THEN Target(t, page[t].hix, None)
                              ELSE page[t].picked
  BY DEF Menu
<1>4. /\ \/ meant = Target(t, page[t].hix, None)
         \/ page[t].main[page[t].hix] # None /\ page[t].cix \in DOMAIN page[t].main[page[t].hix]
              /\ meant = Target(t, page[t].hix, page[t].main[page[t].hix][page[t].cix])
      /\ meant \in Targets
  BY <1>1, <1>2, <1>3, TargetOK DEF PageOK, Chosen, Pages
<1>5. Aim(Sure, t, page[t], Plainly("start", meant))
  BY <1>4, PlainlyOK DEF Aim
<1>6. Ordered(Sure, t)
  BY <1>1, <1>2, <1>3, <1>5, CommandOrders DEF PageOK
<1> QED BY <1>1, <1>2, <1>6 DEF Sends, Menu

(* The dialog sends what it was opened for.                                *)
LEMMA ApplyOK ==
  ASSUME NEW t \in Tabs, PagesOK, up \in [Tabs -> Seq(UpMsgs)], Apply(t)
  PROVE  Edited(t) \/ Sends(t)
<1>1. PageOK(Sure, t, page[t]) /\ page[t] \in Pages /\ Sure \in BOOLEAN
  BY DEF PagesOK, Sure
<1>2. page[t].open /\ page[t].main # <<>> /\ page[t].over.isShown /\ page[t].over.press = "none"
  BY DEF Apply, Loaded
<1>3. PICK over : /\ over = Dismiss(page[t].over) /\ OverlayOK(over) /\ ~over.isShown
                  /\ over.press = "none" /\ over.open = page[t].over.open
  BY <1>1, <1>2, DismissOK DEF PageOK
<1>4. PICK p : p = [page[t] EXCEPT !.over = over]
  OBVIOUS
<1>5. /\ PageOK(Sure, t, p) /\ p.open /\ p.lock = page[t].lock /\ p.main = page[t].main
      /\ p.over = over /\ p.modal = page[t].modal
  BY <1>1, <1>2, <1>3, <1>4, EditedOK DEF PageOK
<1>6. p \in Pages /\ p.hix = page[t].hix
  BY <1>1, <1>4, <1>5 DEF PageOK, Pages
<1>7. CASE p.lock
  <2>1. Over(t, p, over)
    BY <1>3, <1>4, <1>5, <1>7 DEF Apply
  <2>2. p.lock => over.open = {}
    BY <1>5 DEF PageOK
  <2>3. over.isShown => p.over.isShown
    BY <1>3
  <2> QED BY <1>2, <1>3, <1>5, <1>6, <2>1, <2>2, <2>3, OverEdits
<1>8. CASE ~p.lock
  <2>1. Command(t, p, p.modal) /\ UNCHANGED <<server, down, calm>>
    BY <1>3, <1>4, <1>8 DEF Apply
  <2>2. p.modal.cmd = "add-fedora" => is_fqdn(p.modal.argument)
    BY <1>3, <1>4 DEF Apply
  <2>3. Aim(Sure, t, p, p.modal)
    BY <1>1, <1>2, <1>5, <1>6, <2>2 DEF Aim, PageOK, Shown
  <2>4. Ordered(Sure, t)
    BY <1>1, <1>2, <1>3, <1>5, <1>6, <2>1, <2>3, CommandOrders DEF PageOK
  <2> QED BY <1>2, <1>5, <1>8, <2>1, <2>4 DEF Sends
<1> QED BY <1>7, <1>8

(* What a user does with a page opens it, edits it, or sends.              *)
LEMMA PersonIs ==
  ASSUME NEW t \in Tabs, PagesOK, up \in [Tabs -> Seq(UpMsgs)], Person(t)
  PROVE  Open(t) \/ Edited(t) \/ Sends(t)
BY MenuSends, UseMenusEdits, OpenModalEdits, TypeEdits, LeaveEdits, MouseEdits, ApplyOK,
   ClickHostSends, ClickContainerSends DEF Person

-----------------------------------------------------------------------------
(* What is on its way.                                                     *)
DownMsgs == [type : {"lock"}] \cup [type : {"set-terminal"}, html : Html]
              \cup [type : {"set-main"}, main : Mains]

Sockets == [state : {"off", "new", "on", "dead"}, uix : Nat]

Connections ==
  [tab : Tabs, uix : Nat, hix : Nat, kind : {"ls", "command"}, user : Users,
   host : Hosts, ve : Containers \cup {None}, modal : Modals,
   state : {"connecting", "running", "broken"}, lost : BOOLEAN, adat : Seq(STRING)]

(* What page t has sent.  It asks for its lists once, and first.           *)
UpOf(sure, t, s) ==
  /\ s \in Seq(UpMsgs)
  /\ \A i \in DOMAIN s : IF s[i].type = "get-main" THEN i = 1
                         ELSE Meant(sure, NameOf[t], s[i])

(* What was sent to page t: the lists of its user.                         *)
DownOf(t, s) ==
  /\ s \in Seq(DownMsgs)
  /\ \A i \in DOMAIN s : s[i].type = "set-main" =>
       NameOf[t] \in Users /\ s[i].main \in MainsOf(NameOf[t])

(* A connection is that of the user on the certificate of its page.        *)
ConnOK(sure, k) ==
  /\ k \in Connections /\ k.user = NameOf[k.tab]
  /\ k.hix \in Positions(k.user) /\ k.host = HostsOf[k.user][k.hix]
  /\ Meant(sure, k.user, k)

UpOK == up \in [Tabs -> Seq(UpMsgs)] /\ \A t \in Tabs : UpOf(Sure, t, up[t])
DownOK == down \in [Tabs -> Seq(DownMsgs)] /\ \A t \in Tabs : DownOf(t, down[t])
ConnsOK == \A k \in conns : ConnOK(Sure, k)

(* The index of a user, once it was looked up, stays right.                *)
ServerOK ==
  /\ users \in Seq(Users)
  /\ lists \in [Users -> Mains] /\ \A u \in Users : lists[u] \in MainsOf(u)
  /\ sock \in [Tabs -> Sockets]
  /\ \A t \in Tabs : sock[t].uix # 0 =>
       sock[t].uix \in DOMAIN users /\ users[sock[t].uix] = NameOf[t]

(* Nothing is under way for a page that was not opened.                    *)
Closed ==
  \A t \in Tabs :
    /\ page[t].open => t \in env.tabs
    /\ ~page[t].open => /\ up[t] = <<>> /\ down[t] = <<>> /\ sock[t] = Off
                        /\ \A k \in conns : k.tab # t

(* A page asks for its lists, or the server asks its hosts for them.       *)
Fetch(s) == \E i \in DOMAIN s : s[i].type = "get-main"
Fetching(ks, t) == \E k \in ks : k.tab = t /\ k.kind = "ls"
SetMain(s, i) == i \in DOMAIN s /\ s[i].type = "set-main"

(* Where a user has one page, the lists are unknown until it asks, and     *)
(* when it has them all none is still under way.                           *)
Unknowns == \A t \in env.tabs :
  NameOf[t] \in Users /\ (~page[t].open \/ Fetch(up[t])) =>
    \A i \in Positions(NameOf[t]) : lists[NameOf[t]][i] = None
AskedOnce == \A t \in Tabs : Fetch(up[t]) => ~Fetching(conns, t)
LastSeen == \A t \in Tabs : AllKnown(page[t].main) =>
  ~Fetch(up[t]) /\ ~Fetching(conns, t) /\ \A i : ~SetMain(down[t], i)
LastSent == \A t \in Tabs, i \in Nat : SetMain(down[t], i) /\ AllKnown(down[t][i].main) =>
  /\ ~Fetch(up[t]) /\ ~Fetching(conns, t)
  /\ \A j \in Nat : SetMain(down[t], j) => j <= i
NotYet == \A k \in conns : k.kind = "ls" => lists[k.user][k.hix] = None
OncePerHost == \A k, l \in conns :
  k.kind = "ls" /\ l.kind = "ls" /\ k.tab = l.tab /\ k.hix = l.hix => k = l
Told == OnePage =>
  Unknowns /\ AskedOnce /\ LastSeen /\ LastSent /\ NotYet /\ OncePerHost

(* Where nothing breaks, a page has one command under way, if it is locked.*)
Calm == env.events \cap {"broken", "disconnect", "restart"} = {}
Asking(s) == {i \in DOMAIN s : s[i].type = "sc-command"}
Locks(s) == {i \in DOMAIN s : s[i].type = "lock"}
Running(ks, t) == {k \in ks : k.tab = t /\ k.kind = "command" /\ ~k.lost}
AtMostOne(S) == \A x, y \in S : x = y
OneOf(locked, R, A, U) ==
  /\ AtMostOne(R) /\ AtMostOne(A) /\ AtMostOne(U)
  /\ R # {} => A = {} /\ U = {}
  /\ A # {} => U = {}
  /\ ~locked => R = {} /\ A = {} /\ U = {}
One == Calm => \A t \in Tabs :
  OneOf(page[t].lock, Running(conns, t), Asking(up[t]), Locks(down[t]))

(* The inductive invariant.                                                *)
Inv ==
  /\ env \in Envs /\ calm \in BOOLEAN
  /\ PagesOK /\ UpOK /\ DownOK /\ ConnsOK /\ ServerOK /\ Closed /\ Told /\ One

(* What the circumstances promise does not change while they stay.         *)
LEMMA SureIs ==
  Sure \in BOOLEAN /\ (env' = env => Sure' = Sure /\ OnePage' = OnePage /\ Calm' = Calm)
BY DEF Sure, OnePage, Calm

(* The pages of the circumstances are pages.                               *)
LEMMA TabsOfEnv == ASSUME env \in Envs PROVE env.tabs \subseteq Tabs
BY ConstantsAssumption DEF Env

(* What was sent last: an order, the lists, or anything else.              *)
LEMMA AppendUp ==
  ASSUME NEW t, NEW sure \in BOOLEAN, NEW s, UpOf(sure, t, s),
         NEW m \in Orders, Meant(sure, NameOf[t], m), NEW r, r = Append(s, m)
  PROVE  /\ UpOf(sure, t, r) /\ (Fetch(r) => Fetch(s))
         /\ Asking(s) = {} => AtMostOne(Asking(r))
<1>1. /\ m \in UpMsgs /\ m.type = "sc-command" /\ r \in Seq(UpMsgs)
      /\ s \in Seq(UpMsgs) /\ Len(r) = Len(s) + 1 /\ Len(s) \in Nat
      /\ \A i \in 1 .. Len(s) : r[i] = s[i]
      /\ r[Len(s) + 1] = m
  BY DEF UpOf, UpMsgs, Orders
<1>2. DOMAIN r = 1 .. Len(s) + 1 /\ DOMAIN s = 1 .. Len(s)
  BY <1>1
<1>3. \A i \in DOMAIN r : i \in DOMAIN s \/ i = Len(s) + 1
  BY <1>1, <1>2
<1> QED BY <1>1, <1>2, <1>3 DEF UpOf, Fetch, Asking, AtMostOne

(* A message is put behind those under way.                                *)
LEMMA AppendIs ==
  ASSUME NEW S, NEW s \in Seq(S), NEW m \in S, NEW r, r = Append(s, m)
  PROVE  /\ r \in Seq(S) /\ Len(s) \in Nat /\ DOMAIN s = 1 .. Len(s)
         /\ DOMAIN r = 1 .. Len(s) + 1
         /\ \A i \in DOMAIN r :
              (i \in DOMAIN s /\ r[i] = s[i]) \/ (i = Len(s) + 1 /\ r[i] = m)
         /\ \A i \in DOMAIN s : i \in DOMAIN r /\ r[i] = s[i]
<1>1. /\ r \in Seq(S) /\ Len(r) = Len(s) + 1 /\ Len(s) \in Nat
      /\ \A i \in 1 .. Len(s) : r[i] = s[i]
      /\ r[Len(s) + 1] = m
  OBVIOUS
<1>2. DOMAIN r = 1 .. Len(s) + 1 /\ DOMAIN s = 1 .. Len(s)
  BY <1>1
<1>3. \A i \in DOMAIN r : (i \in DOMAIN s /\ r[i] = s[i]) \/ (i = Len(s) + 1 /\ r[i] = m)
  <2> SUFFICES ASSUME NEW i \in DOMAIN r
               PROVE  (i \in DOMAIN s /\ r[i] = s[i]) \/ (i = Len(s) + 1 /\ r[i] = m)
    OBVIOUS
  <2>1. i \in 1 .. Len(s) \/ i = Len(s) + 1
    BY <1>1, <1>2
  <2> QED BY <1>1, <1>2, <2>1
<1> QED BY <1>1, <1>2, <1>3

(* What the server sends keeps the messages to a page sound.               *)
LEMMA AppendDown ==
  ASSUME NEW t, NEW s, DownOf(t, s), NEW m \in DownMsgs,
         m.type = "set-main" => NameOf[t] \in Users /\ m.main \in MainsOf(NameOf[t])
  PROVE  DownOf(t, Append(s, m))
<1>1. PICK r : r = Append(s, m)
  OBVIOUS
<1>2. /\ r \in Seq(DownMsgs)
      /\ \A i \in DOMAIN r : (i \in DOMAIN s /\ r[i] = s[i]) \/ r[i] = m
  BY <1>1, AppendIs DEF DownOf
<1> QED BY <1>1, <1>2 DEF DownOf

(* Only an unlock adds to the unlocks under way.                           *)
LEMMA AppendLock ==
  ASSUME NEW s \in Seq(DownMsgs), NEW m \in DownMsgs
  PROVE  /\ m.type # "lock" => Locks(Append(s, m)) = Locks(s)
         /\ m.type = "lock" /\ Locks(s) = {} => AtMostOne(Locks(Append(s, m)))
<1>1. PICK r : r = Append(s, m)
  OBVIOUS
<1>2. /\ \A i \in DOMAIN r :
           (i \in DOMAIN s /\ r[i] = s[i]) \/ (i = Len(s) + 1 /\ r[i] = m)
      /\ \A i \in DOMAIN s : i \in DOMAIN r /\ r[i] = s[i]
  BY <1>1, AppendIs
<1>3. m.type # "lock" => Locks(r) = Locks(s)
  BY <1>2 DEF Locks
<1>4. m.type = "lock" /\ Locks(s) = {} => AtMostOne(Locks(r))
  BY <1>2 DEF Locks, AtMostOne
<1> QED BY <1>1, <1>3, <1>4

(* Only lists that are sent add to the lists under way.                    *)
LEMMA AppendOther ==
  ASSUME NEW s \in Seq(DownMsgs), NEW m \in DownMsgs, m.type # "set-main",
         NEW i, NEW r, r = Append(s, m), SetMain(r, i)
  PROVE  SetMain(s, i) /\ r[i] = s[i]
<1>1. \A j \in DOMAIN r :
        (j \in DOMAIN s /\ r[j] = s[j]) \/ (j = Len(s) + 1 /\ r[j] = m)
  BY AppendIs
<1> QED BY <1>1 DEF SetMain

(* The first message arrives.                                              *)
LEMMA TailIs ==
  ASSUME NEW S, NEW s \in Seq(S), s # <<>>, NEW r, r = Tail(s)
  PROVE  /\ r \in Seq(S) /\ Head(s) = s[1] /\ 1 \in DOMAIN s /\ s[1] \in S
         /\ \A i \in DOMAIN r : i \in Nat \ {0} /\ i + 1 \in DOMAIN s /\ r[i] = s[i + 1]
<1>1. Len(s) \in Nat \ {0} /\ DOMAIN s = 1 .. Len(s)
  BY EmptySeq
<1>2. r \in Seq(S) /\ Len(r) = Len(s) - 1 /\ \A i \in 1 .. Len(r) : r[i] = s[i + 1]
  BY <1>1
<1> QED BY <1>1, <1>2

(* What is left of the messages of a page is sound.                        *)
LEMMA TailUp ==
  ASSUME NEW t, NEW sure \in BOOLEAN, NEW s, UpOf(sure, t, s), s # <<>>
  PROVE  UpOf(sure, t, Tail(s)) /\ ~Fetch(Tail(s))
<1>1. PICK r : r = Tail(s)
  OBVIOUS
<1>2. /\ r \in Seq(UpMsgs)
      /\ \A i \in DOMAIN r : i \in Nat \ {0} /\ i + 1 \in DOMAIN s /\ r[i] = s[i + 1]
  BY <1>1, TailIs DEF UpOf
<1>3. \A i \in DOMAIN r : r[i].type # "get-main" /\ Meant(sure, NameOf[t], r[i])
  BY <1>2 DEF UpOf
<1> QED BY <1>1, <1>2, <1>3 DEF UpOf, Fetch

(* The first message is sound.                                             *)
LEMMA HeadUp ==
  ASSUME NEW t, NEW sure \in BOOLEAN, NEW s, UpOf(sure, t, s), s # <<>>
  PROVE  /\ Head(s) \in UpMsgs
         /\ Head(s).type = "get-main" => Fetch(s)
         /\ Head(s).type # "get-main" => Meant(sure, NameOf[t], Head(s))
<1>1. s \in Seq(UpMsgs) /\ Head(s) = s[1] /\ 1 \in DOMAIN s /\ s[1] \in UpMsgs
  BY TailIs DEF UpOf
<1> QED BY <1>1 DEF UpOf, Fetch

(* Of one command that was sent none is left when it is taken.             *)
LEMMA TailAsking ==
  ASSUME NEW s \in Seq(UpMsgs), s # <<>>
  PROVE  /\ AtMostOne(Asking(s)) => AtMostOne(Asking(Tail(s)))
         /\ Head(s).type = "sc-command" => Asking(s) # {}
         /\ Head(s).type = "sc-command" /\ AtMostOne(Asking(s)) => Asking(Tail(s)) = {}
         /\ Asking(s) = {} => Asking(Tail(s)) = {}
<1>1. PICK r : r = Tail(s)
  OBVIOUS
<1>2. /\ Head(s) = s[1] /\ 1 \in DOMAIN s
      /\ \A i \in DOMAIN r : i \in Nat \ {0} /\ i + 1 \in DOMAIN s /\ r[i] = s[i + 1]
  BY <1>1, TailIs
<1>3. \A i \in Asking(r) : i \in Nat \ {0} /\ i + 1 \in Asking(s)
  BY <1>2 DEF Asking
<1>4. AtMostOne(Asking(s)) => AtMostOne(Asking(r))
  BY <1>3 DEF AtMostOne
<1>5. Head(s).type = "sc-command" => 1 \in Asking(s)
  BY <1>2 DEF Asking
<1>6. Head(s).type = "sc-command" /\ AtMostOne(Asking(s)) => Asking(r) = {}
  BY <1>3, <1>5 DEF AtMostOne
<1> QED BY <1>1, <1>3, <1>4, <1>5, <1>6

Follows(r, s) ==
  \A i : SetMain(r, i) => i \in Nat \ {0} /\ SetMain(s, i + 1) /\ r[i] = s[i + 1]

(* What is left of the messages to a page is sound.                        *)
LEMMA TailDown ==
  ASSUME NEW t, NEW s, DownOf(t, s), s # <<>>, NEW r, r = Tail(s)
  PROVE  /\ DownOf(t, r) /\ Head(s) \in DownMsgs
         /\ Head(s).type = "set-main" => SetMain(s, 1)
         /\ Head(s).type = "set-main" =>
              NameOf[t] \in Users /\ Head(s).main \in MainsOf(NameOf[t])
         /\ Follows(r, s) /\ Head(s) = s[1]
         /\ AtMostOne(Locks(s)) => AtMostOne(Locks(r))
         /\ Head(s).type = "lock" => Locks(s) # {}
         /\ Head(s).type = "lock" /\ AtMostOne(Locks(s)) => Locks(r) = {}
         /\ Locks(s) = {} => Locks(r) = {}
<1>1. /\ s \in Seq(DownMsgs) /\ r \in Seq(DownMsgs) /\ Head(s) = s[1] /\ 1 \in DOMAIN s
      /\ \A i \in DOMAIN r : i \in Nat \ {0} /\ i + 1 \in DOMAIN s /\ r[i] = s[i + 1]
      /\ s[1] \in DownMsgs
  BY TailIs DEF DownOf
<1>2. DownOf(t, r)
  BY <1>1 DEF DownOf
<1>3. Head(s).type = "set-main" =>
        SetMain(s, 1) /\ NameOf[t] \in Users /\ Head(s).main \in MainsOf(NameOf[t])
  BY <1>1 DEF DownOf, SetMain
<1>4. Follows(r, s)
  BY <1>1 DEF SetMain, Follows
<1>5. \A i \in Locks(r) : i \in Nat \ {0} /\ i + 1 \in Locks(s)
  BY <1>1 DEF Locks
<1>6. AtMostOne(Locks(s)) => AtMostOne(Locks(r))
  BY <1>5 DEF AtMostOne
<1>7. Head(s).type = "lock" => 1 \in Locks(s)
  BY <1>1 DEF Locks
<1>8. Head(s).type = "lock" /\ AtMostOne(Locks(s)) => Locks(r) = {}
  BY <1>5, <1>7 DEF AtMostOne
<1>9. (Head(s).type = "lock" => Locks(s) # {}) /\ (Locks(s) = {} => Locks(r) = {})
  BY <1>5, <1>7
<1> QED BY <1>1, <1>2, <1>3, <1>4, <1>6, <1>8, <1>9

(* A part of what a page sent is lost.                                     *)
LEMMA LostUp ==
  ASSUME NEW t, NEW sure \in BOOLEAN, NEW s, UpOf(sure, t, s), NEW n \in 1 .. Len(s) + 1,
         NEW r, r = SubSeq(s, n, Len(s))
  PROVE  UpOf(sure, t, r) /\ (Fetch(r) => Fetch(s))
<1>1. s \in Seq(UpMsgs) /\ Len(s) \in Nat /\ DOMAIN s = 1 .. Len(s)
  BY DEF UpOf
<1>2. /\ r \in Seq(UpMsgs) /\ Len(r) = Len(s) - n + 1
      /\ \A i \in 1 .. Len(r) : r[i] = s[n + i - 1]
  BY <1>1, SubSeqProperties
<1>3. \A i \in DOMAIN r : n + i - 1 \in DOMAIN s /\ r[i] = s[n + i - 1] /\ (n + i - 1 = 1 => i = 1)
  BY <1>1, <1>2
<1> QED BY <1>2, <1>3 DEF UpOf, Fetch

-----------------------------------------------------------------------------
(* What a step keeps, part by part.                                        *)
LEMMA PagesStep ==
  ASSUME PagesOK, env' = env, NEW t \in Tabs, NEW q, PageOK(Sure, t, q),
         page' = [page EXCEPT ![t] = q]
  PROVE  PagesOK'
<1>1. Sure' = Sure /\ q \in Pages
  BY SureIs DEF PageOK
<1>2. page' \in [Tabs -> Pages] /\ \A s \in Tabs : page'[s] = IF s = t THEN q ELSE page[s]
  BY <1>1 DEF PagesOK
<1>3. \A s \in Tabs : PageOK(Sure, s, page'[s])
  BY <1>2 DEF PagesOK
<1> QED BY <1>1, <1>2, <1>3 DEF PagesOK

(* The pages stay sound while they stay.                                   *)
LEMMA PagesSame == PagesOK /\ env' = env /\ page' = page => PagesOK'
BY SureIs DEF PagesOK

(* The messages of one page change.                                        *)
LEMMA UpStep ==
  ASSUME UpOK, env' = env, NEW t \in Tabs, NEW s, UpOf(Sure, t, s),
         up' = [up EXCEPT ![t] = s]
  PROVE  UpOK'
<1>1. Sure' = Sure /\ s \in Seq(UpMsgs)
  BY SureIs DEF UpOf
<1>2. up' \in [Tabs -> Seq(UpMsgs)] /\ \A x \in Tabs : up'[x] = IF x = t THEN s ELSE up[x]
  BY <1>1 DEF UpOK
<1>3. \A x \in Tabs : UpOf(Sure, x, up'[x])
  BY <1>2 DEF UpOK
<1> QED BY <1>1, <1>2, <1>3 DEF UpOK

(* No message of a page changes.                                           *)
LEMMA UpSame == UpOK /\ env' = env /\ up' = up => UpOK'
BY SureIs DEF UpOK

(* The messages to one page change.                                        *)
LEMMA DownStep ==
  ASSUME DownOK, NEW t \in Tabs, NEW s, DownOf(t, s), down' = [down EXCEPT ![t] = s]
  PROVE  DownOK'
<1>1. s \in Seq(DownMsgs)
  BY DEF DownOf
<1>2. /\ down' \in [Tabs -> Seq(DownMsgs)]
      /\ \A x \in Tabs : down'[x] = IF x = t THEN s ELSE down[x]
  BY <1>1 DEF DownOK
<1>3. \A x \in Tabs : DownOf(x, down'[x])
  BY <1>2 DEF DownOK
<1> QED BY <1>2, <1>3 DEF DownOK

(* No message to a page changes.                                           *)
LEMMA DownSame == DownOK /\ down' = down => DownOK'
BY DEF DownOK

(* Connections end, or sound ones begin.                                   *)
LEMMA ConnsStep ==
  ASSUME ConnsOK, env' = env, \A k \in conns' : k \in conns \/ ConnOK(Sure, k)
  PROVE  ConnsOK'
BY SureIs DEF ConnsOK

(* The server has changed nothing.                                         *)
LEMMA ServerSame == ServerOK /\ UNCHANGED <<users, lists, sock>> => ServerOK'
BY DEF ServerOK

(* Nothing new is asked for, or sent, or known.                            *)
LEMMA ToldStays ==
  ASSUME Told, env' = env, lists' = lists,
         \A t \in Tabs : /\ page[t].open => page'[t].open
                         /\ AllKnown(page'[t].main) => AllKnown(page[t].main)
                         /\ Fetch(up'[t]) => Fetch(up[t])
                         /\ Fetching(conns', t) => Fetching(conns, t)
                         /\ \A i : SetMain(down'[t], i) =>
                              SetMain(down[t], i) /\ down'[t][i] = down[t][i],
         env.tabs \subseteq Tabs,
         OnePage => NotYet' /\ OncePerHost'
  PROVE  Told'
<1> SUFFICES ASSUME OnePage PROVE Told'
  BY SureIs DEF Told
<1>1. Unknowns /\ AskedOnce /\ LastSeen /\ LastSent
  BY DEF Told
<1>2. Unknowns'
  BY <1>1 DEF Unknowns
<1>3. AskedOnce'
  BY <1>1 DEF AskedOnce
<1>4. LastSeen'
  BY <1>1 DEF LastSeen
<1>5. LastSent'
  BY <1>1 DEF LastSent
<1> QED BY <1>2, <1>3, <1>4, <1>5 DEF Told

(* When only connections end, what was asked once stays so.                *)
LEMMA SameConns ==
  ASSUME Told, env' = env, lists' = lists, conns' \subseteq conns, OnePage
  PROVE  NotYet' /\ OncePerHost'
BY DEF Told, NotYet, OncePerHost

(* Only what is under way for page t changes.                              *)
LEMMA OneStep ==
  ASSUME One, env' = env, NEW t \in Tabs,
         \A s \in Tabs \ {t} :
           /\ page'[s].lock = page[s].lock /\ up'[s] = up[s] /\ down'[s] = down[s]
           /\ Running(conns', s) = Running(conns, s),
         Calm /\ OneOf(page[t].lock, Running(conns, t), Asking(up[t]), Locks(down[t])) =>
           OneOf(page'[t].lock, Running(conns', t), Asking(up'[t]), Locks(down'[t]))
  PROVE  One'
BY SureIs DEF One

-----------------------------------------------------------------------------
(* The beginning.                                                          *)
LEMMA InvInit == Init => Inv
<1> SUFFICES ASSUME Init PROVE Inv
  OBVIOUS
<1>1. Sure \in BOOLEAN
  BY SureIs
<1>2. PagesOK
  <2>1. \A t \in Tabs : PageOK(Sure, t, NoPage)
    BY <1>1, NoPageOK
  <2>2. \A t \in Tabs : NoPage \in Pages
    BY <2>1 DEF PageOK
  <2> QED BY <2>1, <2>2 DEF Init, PagesOK
<1>3. UpOK
  <2>1. \A t \in Tabs : UpOf(Sure, t, <<>>)
    BY DEF UpOf
  <2> QED BY <2>1 DEF Init, UpOK
<1>4. DownOK
  <2>1. \A t \in Tabs : DownOf(t, <<>>)
    BY DEF DownOf
  <2> QED BY <2>1 DEF Init, DownOK
<1>5. ConnsOK
  BY DEF Init, ConnsOK
<1>6. ServerOK
  <2>1. users \in Seq(Users)
    BY DEF Init
  <2>2. \A u \in Users : Unknown(u) \in MainsOf(u)
    BY DEF Unknown, MainsOf
  <2>3. lists = [u \in Users |-> Unknown(u)]
    BY DEF Init
  <2>4. lists \in [Users -> Mains] /\ \A u \in Users : lists[u] \in MainsOf(u)
    BY <2>2, <2>3, MainOf
  <2>5. Off \in Sockets /\ Off.uix = 0
    BY DEF Off, Sockets
  <2> QED BY <2>1, <2>4, <2>5 DEF Init, ServerOK
<1>7. \A t \in Tabs : /\ ~page[t].open /\ page[t].main = <<>> /\ ~page[t].lock
                      /\ up[t] = <<>> /\ down[t] = <<>> /\ sock[t] = Off
  BY DEF Init, NoPage
<1>8. conns = {}
  BY DEF Init
<1>9. Closed
  BY <1>7, <1>8 DEF Closed
<1>10. Told
  <2>1. \A u \in Users : \A i \in Positions(u) : lists[u][i] = None
    BY DEF Init, Unknown
  <2>2. \A t \in Tabs : ~Fetch(up[t]) /\ (\A i : ~SetMain(down[t], i)) /\ ~AllKnown(page[t].main)
    BY <1>7 DEF Fetch, SetMain, AllKnown
  <2>3. Unknowns
    BY <2>1 DEF Unknowns
  <2> QED BY <1>8, <2>2, <2>3 DEF Told, AskedOnce, LastSeen, LastSent, NotYet, OncePerHost
<1>11. One
  BY <1>7, <1>8 DEF One, OneOf, Running, Asking, Locks, AtMostOne
<1> QED BY <1>2, <1>3, <1>4, <1>5, <1>6, <1>9, <1>10, <1>11 DEF Inv, Init

(* In the page itself nothing happens that the server would hear of.       *)
LEMMA EditedInv ==
  ASSUME Inv, env' = env, NEW t \in Tabs, Edited(t)
  PROVE  Inv'
<1>1. PICK q : /\ page' = [page EXCEPT ![t] = q]
               /\ PageOK(Sure, t, q) /\ q.open /\ q.lock = page[t].lock
               /\ q.main = page[t].main
  BY DEF Edited
<1>2. page[t].open /\ UNCHANGED <<users, lists, sock, conns, up, down, calm>>
  BY DEF Edited, server
<1>3. PagesOK'
  BY <1>1, PagesStep DEF Inv
<1>4. UpOK' /\ DownOK' /\ ServerOK' /\ ConnsOK'
  BY <1>2, UpSame, DownSame, ServerSame, ConnsStep DEF Inv
<1>5. \A s \in Tabs : /\ page'[s].open = page[s].open /\ page'[s].main = page[s].main
                      /\ page'[s].lock = page[s].lock
  BY <1>1, <1>2 DEF Inv, PagesOK
<1>6. Closed'
  BY <1>2, <1>5 DEF Inv, Closed
<1>7. Told'
  BY <1>2, <1>5, ToldStays, SameConns, TabsOfEnv DEF Inv
<1>8. One'
  BY <1>2, <1>5, OneStep DEF Inv
<1> QED BY <1>2, <1>3, <1>4, <1>6, <1>7, <1>8 DEF Inv

(* A page that sends keeps the invariant.                                  *)
LEMMA SendsInv ==
  ASSUME Inv, env' = env, NEW t \in Tabs, Sends(t)
  PROVE  Inv'
<1>1. PICK q : /\ page' = [page EXCEPT ![t] = q]
               /\ PageOK(Sure, t, q) /\ q.open /\ q.lock /\ q.main = page[t].main
               /\ \/ up' = up
                  \/ \E m \in Orders : /\ Meant(Sure, NameOf[t], m)
                                       /\ up' = [up EXCEPT ![t] = Append(up[t], m)]
  BY DEF Sends, Ordered
<1>2. page[t].open /\ ~page[t].lock /\ UNCHANGED <<users, lists, sock, conns, down, calm>>
  BY DEF Sends, server
<1>3. PagesOK'
  BY <1>1, PagesStep DEF Inv
<1>4. DownOK' /\ ServerOK' /\ ConnsOK'
  BY <1>2, DownSame, ServerSame, ConnsStep DEF Inv
<1>5. \A s \in Tabs : /\ page'[s].open = page[s].open /\ page'[s].main = page[s].main
                      /\ s # t => page'[s].lock = page[s].lock
  BY <1>1, <1>2 DEF Inv, PagesOK
<1>6. page'[t].lock
  BY <1>1 DEF Inv, PagesOK
<1>7. PICK s : /\ up' = [up EXCEPT ![t] = s] /\ UpOf(Sure, t, s) /\ (Fetch(s) => Fetch(up[t]))
               /\ Asking(up[t]) = {} => AtMostOne(Asking(s))
  <2>1. UpOf(Sure, t, up[t]) /\ up \in [Tabs -> Seq(UpMsgs)]
    BY DEF Inv, UpOK
  <2>2. CASE up' = up
    <3>1. up' = [up EXCEPT ![t] = up[t]]
      BY <2>1, <2>2
    <3> QED BY <2>1, <3>1 DEF AtMostOne
  <2>3. ASSUME NEW m \in Orders, Meant(Sure, NameOf[t], m),
               up' = [up EXCEPT ![t] = Append(up[t], m)]
        PROVE  \E s : /\ up' = [up EXCEPT ![t] = s] /\ UpOf(Sure, t, s)
                      /\ Fetch(s) => Fetch(up[t])
                      /\ Asking(up[t]) = {} => AtMostOne(Asking(s))
    BY <2>1, <2>3, SureIs, AppendUp
  <2> QED BY <1>1, <2>2, <2>3
<1>8. UpOK'
  BY <1>7, UpStep DEF Inv
<1>9. \A x \in Tabs : up'[x] = IF x = t THEN s ELSE up[x]
  BY <1>7 DEF Inv, UpOK
<1>10. Closed'
  BY <1>2, <1>5, <1>9 DEF Inv, Closed
<1>11. Told'
  <2>1. \A x \in Tabs : Fetch(up'[x]) => Fetch(up[x])
    BY <1>7, <1>9
  <2> QED BY <1>2, <1>5, <2>1, ToldStays, SameConns, TabsOfEnv DEF Inv
<1>12. One'
  <2>1. ASSUME OneOf(page[t].lock, Running(conns, t), Asking(up[t]), Locks(down[t]))
        PROVE  OneOf(page'[t].lock, Running(conns', t), Asking(up'[t]), Locks(down'[t]))
    BY <1>2, <1>6, <1>7, <1>9, <2>1 DEF OneOf, AtMostOne
  <2> QED BY <1>2, <1>5, <1>9, <2>1, OneStep DEF Inv
<1> QED BY <1>2, <1>3, <1>4, <1>8, <1>10, <1>11, <1>12 DEF Inv

(* A page that is opened asks for the lists, which nobody knows yet.       *)
LEMMA OpenInv ==
  ASSUME Inv, env' = env, NEW t \in Tabs, Open(t)
  PROVE  Inv'
<1>1. t \in env.tabs /\ ~page[t].open /\ UNCHANGED <<users, lists, down, conns, calm>>
  BY DEF Open
<1>2. PICK q : q = [NoPage EXCEPT !.open = TRUE, !.lock = TRUE, !.sent = 1]
  OBVIOUS
<1>3. page' = [page EXCEPT ![t] = q]
  BY <1>2 DEF Open
<1>4. PageOK(Sure, t, q) /\ q.open /\ q.lock /\ q.main = <<>>
  <2>1. PageOK(Sure, t, NoPage) /\ NoPage \in Pages
    BY NoPageOK, SureIs DEF PageOK
  <2>2. /\ q \in Pages /\ q.open /\ q.lock /\ q.main = <<>> /\ q.over = NewOverlay
        /\ q.modal = NoModal /\ q.cix = 0
    BY <1>2, <2>1 DEF Pages, NoPage
  <2> QED BY <2>2, NewOverlayOK, NoModalOK DEF PageOK, Listed, Chosen, Shown
<1>5. PICK m : m = [type |-> "sc-command", hix |-> 1, ve |-> None,
                    modal |-> Plainly("status", None)]
  OBVIOUS
<1>6. PICK s : s = <<[type |-> "get-main"], m>>
  OBVIOUS
<1>7. up' = [up EXCEPT ![t] = s]
  BY <1>5, <1>6 DEF Open
<1>8. m \in Orders /\ Meant(Sure, NameOf[t], m) /\ m.type = "sc-command"
  <2>1. None \in Targets
    BY DEF Targets
  <2>2. /\ ModalOK(Plainly("status", None)) /\ Plainly("status", None).cmd = "status"
        /\ Plainly("status", None).meant = None
    BY <2>1, PlainlyOK
  <2>3. m.hix = 1 /\ m.modal = Plainly("status", None) /\ m.type = "sc-command"
    BY <1>5
  <2>4. m \in Orders
    BY <1>5, <2>2 DEF Orders, ModalOK
  <2> QED BY <2>2, <2>3, <2>4, FirstPosition DEF Meant
<1>9. /\ s \in Seq(UpMsgs) /\ DOMAIN s = {1, 2} /\ s[1].type = "get-main" /\ s[2] = m
  BY <1>6, <1>8 DEF UpMsgs
<1>10. UpOf(Sure, t, s)
  BY <1>8, <1>9 DEF UpOf
<1>11. PagesOK' /\ UpOK' /\ DownOK' /\ ConnsOK'
  BY <1>1, <1>3, <1>4, <1>7, <1>10, PagesStep, UpStep, DownSame, ConnsStep DEF Inv
<1>12. /\ \A x \in Tabs : page'[x] = IF x = t THEN q ELSE page[x]
       /\ \A x \in Tabs : up'[x] = IF x = t THEN s ELSE up[x]
  BY <1>3, <1>7 DEF Inv, PagesOK, UpOK
<1>13. PICK o : o = [Off EXCEPT !.state = "new"] /\ sock' = [sock EXCEPT ![t] = o]
  BY DEF Open
<1>14. o \in Sockets /\ o.uix = 0
  BY <1>13 DEF Sockets, Off
<1>15. /\ sock' \in [Tabs -> Sockets]
       /\ \A x \in Tabs : sock'[x] = IF x = t THEN o ELSE sock[x]
  BY <1>13, <1>14 DEF Inv, ServerOK
<1>16. ServerOK'
  BY <1>1, <1>14, <1>15 DEF Inv, ServerOK
<1>17. Closed'
  BY <1>1, <1>4, <1>12, <1>15 DEF Inv, Closed
<1>18. down[t] = <<>> /\ \A k \in conns : k.tab # t
  BY <1>1 DEF Inv, Closed
<1>19. Told'
  <2> SUFFICES ASSUME OnePage PROVE Told'
    BY SureIs DEF Told
  <2>1. Unknowns /\ AskedOnce /\ LastSeen /\ LastSent /\ NotYet /\ OncePerHost
    BY DEF Inv, Told
  <2>2. Unknowns'
    BY <1>1, <1>4, <1>12, <2>1, TabsOfEnv DEF Unknowns, Inv
  <2>3. ~Fetching(conns, t)
    BY <1>18 DEF Fetching
  <2>4. \A i : ~SetMain(down[t], i)
    BY <1>18 DEF SetMain
  <2>5. AskedOnce'
    BY <1>1, <1>12, <2>1, <2>3 DEF AskedOnce
  <2>6. LastSeen'
    BY <1>1, <1>4, <1>12, <2>1 DEF LastSeen, AllKnown
  <2>7. LastSent'
    BY <1>1, <1>12, <2>1, <2>4 DEF LastSent
  <2> QED BY <1>1, <2>1, <2>2, <2>5, <2>6, <2>7, SureIs DEF Told, NotYet, OncePerHost
<1>20. One'
  <2>1. /\ Running(conns', t) = {} /\ Locks(down'[t]) = {} /\ page'[t].lock
    BY <1>1, <1>4, <1>12, <1>18 DEF Running, Locks
  <2>2. AtMostOne(Asking(s))
    BY <1>9 DEF AtMostOne, Asking
  <2>3. OneOf(page'[t].lock, Running(conns', t), Asking(up'[t]), Locks(down'[t]))
    BY <1>12, <2>1, <2>2 DEF OneOf, AtMostOne
  <2> QED BY <1>1, <1>12, <2>3, OneStep DEF Inv
<1> QED BY <1>1, <1>11, <1>16, <1>17, <1>19, <1>20 DEF Inv

(* What a message does to a page.  Lists that arrive when all are known    *)
(* would select another host under a dialog that is open.                  *)
LEMMA ReceivePage ==
  ASSUME Inv, NEW t \in Tabs, Receive(t)
  PROVE  \E q : /\ page' = [page EXCEPT ![t] = q] /\ PageOK(Sure, t, q) /\ q.open
                /\ page[t].open /\ q.over.press = page[t].over.press
                /\ Head(down[t]).type = "set-main" => q.main = Head(down[t]).main
                /\ Head(down[t]).type # "set-main" => q.main = page[t].main
                /\ Head(down[t]).type = "lock" => ~q.lock
                /\ Head(down[t]).type # "lock" => q.lock = page[t].lock
<1>1. /\ page[t].open /\ page[t] \in Pages /\ PageOK(Sure, t, page[t]) /\ down[t] # <<>>
      /\ DownOf(t, down[t]) /\ Sure \in BOOLEAN
  BY SureIs DEF Inv, Closed, PagesOK, DownOK, Receive
<1>2. PICK m \in DownMsgs : m = Head(down[t])
  BY <1>1, TailDown
<1>3. PICK p : p = IF m.type = "lock" THEN [page[t] EXCEPT !.lock = FALSE]
                   ELSE IF m.type = "set-terminal" THEN [page[t] EXCEPT !.terminal = m.html]
                   ELSE [page[t] EXCEPT !.main = m.main, !.hix = 1, !.cix = 0]
  OBVIOUS
<1>4. PICK q : q = Rebuilt(page[t], p)
  OBVIOUS
<1>5. page' = [page EXCEPT ![t] = q]
  <2>1. sethix([page[t] EXCEPT !.main = m.main], 1)
          = [page[t] EXCEPT !.main = m.main, !.hix = 1, !.cix = 0]
    BY <1>1 DEF sethix, Pages
  <2> QED BY <1>2, <1>3, <1>4, <2>1 DEF Receive
<1> DEFINE Fits ==
      /\ p \in Pages /\ p.over = page[t].over /\ p.modal = page[t].modal /\ p.open
      /\ m.type = "set-main" => p.main = m.main
      /\ m.type # "set-main" => p.main = page[t].main
      /\ m.type = "lock" => ~p.lock
      /\ m.type # "lock" => p.lock = page[t].lock
      /\ Listed(t, p) /\ Chosen(t, p) /\ Shown(Sure, t, p)
<1>6. ASSUME m.type = "lock" PROVE Fits
  <2>1. /\ p \in Pages /\ p.over = page[t].over /\ p.modal = page[t].modal /\ p.open
        /\ p.main = page[t].main /\ p.hix = page[t].hix /\ p.cix = page[t].cix
        /\ p.picked = page[t].picked /\ ~p.lock
    BY <1>1, <1>3, <1>6 DEF Pages
  <2>2. Listed(t, p) /\ Chosen(t, p) /\ Shown(Sure, t, p)
    BY <1>1, <2>1, Zenon DEF PageOK, Listed, Chosen, Shown
  <2> QED BY <1>6, <2>1, <2>2
<1>7. ASSUME m.type = "set-terminal" PROVE Fits
  <2>1. m.html \in Html
    BY <1>7 DEF DownMsgs
  <2>2. /\ p \in Pages /\ p.over = page[t].over /\ p.modal = page[t].modal /\ p.open
        /\ p.main = page[t].main /\ p.hix = page[t].hix /\ p.cix = page[t].cix
        /\ p.picked = page[t].picked /\ p.lock = page[t].lock
    BY <1>1, <1>3, <1>7, <2>1 DEF Pages
  <2>3. Listed(t, p) /\ Chosen(t, p) /\ Shown(Sure, t, p)
    BY <1>1, <2>2, Zenon DEF PageOK, Listed, Chosen, Shown
  <2> QED BY <1>7, <2>2, <2>3
<1>8. ASSUME m.type = "set-main" PROVE Fits
  <2>1. /\ NameOf[t] \in Users /\ m.main \in MainsOf(NameOf[t]) /\ SetMain(down[t], 1)
    BY <1>1, <1>2, <1>8, TailDown
  <2>2. m.main \in Mains /\ m.main # <<>> /\ 1 \in Positions(NameOf[t])
    BY <2>1, MainOf, FirstPosition
  <2>3. /\ p \in Pages /\ p.over = page[t].over /\ p.modal = page[t].modal /\ p.open
        /\ p.main = m.main /\ p.hix = 1 /\ p.cix = 0 /\ p.lock = page[t].lock
    BY <1>1, <1>3, <1>8, <2>2 DEF Pages
  <2>4. Listed(t, p) /\ Chosen(t, p)
    BY <2>1, <2>2, <2>3 DEF Listed, Chosen
  <2>5. Sure => ~AllKnown(page[t].main)
    BY <2>1 DEF Inv, Told, LastSeen, Sure
  <2>6. Shown(Sure, t, p)
    BY <1>1, <2>2, <2>3, <2>5 DEF Shown, PageOK
  <2> QED BY <1>8, <2>3, <2>4, <2>6
<1>9. Fits
  BY <1>6, <1>7, <1>8 DEF DownMsgs
<1>10. OverlayOK(p.over) /\ ModalOK(p.modal)
  BY <1>1, <1>9 DEF PageOK
<1>11. /\ PageOK(Sure, t, q) /\ q.open /\ q.lock = p.lock /\ q.main = p.main
       /\ q.over.press = p.over.press
  BY <1>1, <1>4, <1>9, <1>10, RebuiltOK
<1> QED BY <1>1, <1>2, <1>5, <1>9, <1>11

(* A page that receives keeps it.                                          *)
LEMMA ReceiveInv ==
  ASSUME Inv, env' = env, NEW t \in Tabs, Receive(t)
  PROVE  Inv'
<1>1. PICK q : /\ page' = [page EXCEPT ![t] = q] /\ PageOK(Sure, t, q) /\ q.open
               /\ page[t].open
               /\ Head(down[t]).type = "set-main" => q.main = Head(down[t]).main
               /\ Head(down[t]).type # "set-main" => q.main = page[t].main
               /\ Head(down[t]).type = "lock" => ~q.lock
               /\ Head(down[t]).type # "lock" => q.lock = page[t].lock
  BY ReceivePage
<1>2. PICK s, r : s = down[t] /\ r = Tail(s)
  OBVIOUS
<1>3. /\ s # <<>> /\ down' = [down EXCEPT ![t] = r]
      /\ UNCHANGED <<users, lists, sock, conns, up, calm>>
  BY <1>2 DEF Receive, server
<1>4. DownOf(t, s)
  BY <1>2 DEF Inv, DownOK
<1>5. /\ DownOf(t, r) /\ Head(s) = s[1]
      /\ Head(s).type = "set-main" => SetMain(s, 1)
      /\ \A i : SetMain(r, i) => i \in Nat \ {0} /\ SetMain(s, i + 1) /\ r[i] = s[i + 1]
      /\ AtMostOne(Locks(s)) => AtMostOne(Locks(r))
      /\ Head(s).type = "lock" => Locks(s) # {}
      /\ Head(s).type = "lock" /\ AtMostOne(Locks(s)) => Locks(r) = {}
      /\ Locks(s) = {} => Locks(r) = {}
  <2>1. s # <<>> /\ r = Tail(s) /\ DownOf(t, s)
    BY <1>2, <1>3, <1>4
  <2>2. Follows(r, s)
    BY <2>1, TailDown
  <2>3. \A i : SetMain(r, i) => i \in Nat \ {0} /\ SetMain(s, i + 1) /\ r[i] = s[i + 1]
    BY <2>2 DEF Follows
  <2> QED BY <2>1, <2>3, TailDown
<1>6. PagesOK' /\ UpOK' /\ DownOK' /\ ServerOK' /\ ConnsOK'
  BY <1>1, <1>3, <1>5, PagesStep, UpSame, DownStep, ServerSame, ConnsStep DEF Inv
<1>7. /\ \A x \in Tabs : page'[x] = IF x = t THEN q ELSE page[x]
      /\ \A x \in Tabs : down'[x] = IF x = t THEN r ELSE down[x]
  BY <1>1, <1>3 DEF Inv, PagesOK, DownOK
<1>8. Closed'
  BY <1>1, <1>3, <1>7 DEF Inv, Closed
<1>9. Told'
  <2> SUFFICES ASSUME OnePage PROVE Told'
    BY SureIs DEF Told
  <2>1. Unknowns /\ AskedOnce /\ LastSeen /\ LastSent /\ NotYet /\ OncePerHost
    BY DEF Inv, Told
  <2>2. Unknowns'
    <3>1. env.tabs \subseteq Tabs
      BY TabsOfEnv DEF Inv
    <3>2. \A x \in Tabs : page'[x].open \/ page'[x].open = page[x].open
      BY <1>1, <1>7
    <3> QED BY <1>1, <1>3, <2>1, <3>1, <3>2 DEF Unknowns
  <2>3. AskedOnce'
    BY <1>3, <2>1 DEF AskedOnce
  <2>4. AllKnown(q.main) => ~Fetch(up[t]) /\ ~Fetching(conns, t) /\ \A i : ~SetMain(r, i)
    <3>1. CASE Head(s).type = "set-main"
      <4>1. /\ SetMain(s, 1) /\ q.main = s[1].main
        BY <1>1, <1>2, <1>5, <3>1
      <4>2. AllKnown(q.main) => /\ ~Fetch(up[t]) /\ ~Fetching(conns, t)
                                /\ \A j \in Nat : SetMain(s, j) => j <= 1
        BY <1>2, <2>1, <4>1 DEF LastSent
      <4>3. \A i : SetMain(r, i) => i \in Nat \ {0} /\ SetMain(s, i + 1)
        BY <1>5
      <4> QED BY <4>2, <4>3
    <3>2. CASE Head(s).type # "set-main"
      BY <1>1, <1>2, <1>5, <2>1, <3>2 DEF LastSeen
    <3> QED BY <3>1, <3>2
  <2>5. LastSeen'
    BY <1>3, <1>7, <2>1, <2>4 DEF LastSeen
  <2>6. LastSent'
    <3> SUFFICES ASSUME NEW x \in Tabs, NEW i \in Nat, SetMain(down'[x], i),
                        AllKnown(down'[x][i].main)
                 PROVE  /\ ~Fetch(up'[x]) /\ ~Fetching(conns', x)
                        /\ \A j \in Nat : SetMain(down'[x], j) => j <= i
      BY DEF LastSent
    <3>1. CASE x # t
      BY <1>3, <1>7, <2>1, <3>1 DEF LastSent
    <3>2. CASE x = t
      <4>1. SetMain(s, i + 1) /\ AllKnown(s[i + 1].main) /\ i + 1 \in Nat
        BY <1>5, <1>7, <3>2
      <4>2. /\ ~Fetch(up[t]) /\ ~Fetching(conns, t)
            /\ \A j \in Nat : SetMain(s, j) => j <= i + 1
        BY <1>2, <2>1, <4>1 DEF LastSent
      <4>3. \A j \in Nat : SetMain(r, j) => j + 1 \in Nat /\ SetMain(s, j + 1)
        BY <1>5
      <4> QED BY <1>3, <1>7, <3>2, <4>2, <4>3
    <3> QED BY <3>1, <3>2
  <2> QED BY <1>3, <2>1, <2>2, <2>3, <2>5, <2>6, SureIs DEF Told, NotYet, OncePerHost
<1>10. One'
  <2>1. ASSUME OneOf(page[t].lock, Running(conns, t), Asking(up[t]), Locks(down[t]))
        PROVE  OneOf(page'[t].lock, Running(conns', t), Asking(up'[t]), Locks(down'[t]))
    BY <1>1, <1>2, <1>3, <1>5, <1>7, <2>1 DEF OneOf
  <2> QED BY <1>3, <1>7, <2>1, OneStep DEF Inv
<1> QED BY <1>3, <1>6, <1>8, <1>9, <1>10 DEF Inv

-----------------------------------------------------------------------------
(* The server.                                                             *)
LEMMA LoadInv ==
  ASSUME Inv, env' = env, NEW u \in Users, Load(u)
  PROVE  Inv'
<1>1. /\ users' = Append(users, u) /\ lists' = [lists EXCEPT ![u] = Unknown(u)]
      /\ UNCHANGED <<sock, up, down, page, conns, calm>>
  BY DEF Load
<1>2. PagesOK' /\ UpOK' /\ DownOK' /\ ConnsOK'
  BY <1>1, PagesSame, UpSame, DownSame, ConnsStep DEF Inv
<1>3. Unknown(u) \in MainsOf(u) /\ \A i \in Positions(u) : Unknown(u)[i] = None
  BY DEF Unknown, MainsOf
<1>4. \A x \in Users : lists'[x] = IF x = u THEN Unknown(u) ELSE lists[x]
  BY <1>1 DEF Inv, ServerOK
<1>5. ServerOK'
  <2>1. users \in Seq(Users) /\ users' \in Seq(Users)
    BY <1>1 DEF Inv, ServerOK
  <2>2. \A i \in DOMAIN users : i \in DOMAIN users' /\ users'[i] = users[i]
    BY <1>1, <2>1
  <2>3. Unknown(u) \in Mains
    BY <1>3, MainOf
  <2>4. lists' \in [Users -> Mains] /\ \A x \in Users : lists'[x] \in MainsOf(x)
    BY <1>1, <1>3, <1>4, <2>3 DEF Inv, ServerOK
  <2> QED BY <1>1, <2>1, <2>2, <2>4 DEF Inv, ServerOK
<1>6. Closed'
  BY <1>1 DEF Inv, Closed
<1>7. Told'
  <2> SUFFICES ASSUME OnePage PROVE Told'
    BY SureIs DEF Told
  <2>1. Unknowns /\ AskedOnce /\ LastSeen /\ LastSent /\ NotYet /\ OncePerHost
    BY DEF Inv, Told
  <2>2. Unknowns'
    BY <1>1, <1>3, <1>4, <2>1 DEF Unknowns
  <2>3. NotYet'
    BY <1>1, <1>3, <1>4, <2>1 DEF NotYet, Inv, ConnsOK, ConnOK, Connections
  <2>4. AskedOnce' /\ LastSeen' /\ LastSent' /\ OncePerHost'
    BY <1>1, <2>1 DEF AskedOnce, LastSeen, LastSent, OncePerHost
  <2> QED BY <2>2, <2>3, <2>4 DEF Told
<1>8. One'
  BY <1>1, SureIs DEF Inv, One
<1> QED BY <1>1, <1>2, <1>5, <1>6, <1>7, <1>8 DEF Inv

(* The index that is looked up is that of the name on the certificate.     *)
LEMMA ConnectInv ==
  ASSUME Inv, env' = env, NEW t \in Tabs, Connect(t)
  PROVE  Inv'
<1>1. sock[t].state = "new" /\ UNCHANGED <<users, lists, up, down, page, conns, calm>>
  BY DEF Connect
<1>2. PICK n : n = IF \E i \in DOMAIN users : users[i] = NameOf[t]
                   THEN CHOOSE i \in DOMAIN users : users[i] = NameOf[t] ELSE 0
  OBVIOUS
<1>3. users \in Seq(Users) /\ DOMAIN users \subseteq Nat
  BY DEF Inv, ServerOK
<1>4. n \in Nat /\ (n # 0 => n \in DOMAIN users /\ users[n] = NameOf[t])
  <2>1. CASE \E i \in DOMAIN users : users[i] = NameOf[t]
    BY <1>2, <1>3, <2>1
  <2>2. CASE ~\E i \in DOMAIN users : users[i] = NameOf[t]
    BY <1>2, <2>2
  <2> QED BY <2>1, <2>2
<1>5. PICK o : /\ sock' = [sock EXCEPT ![t] = o]
               /\ o = [state |-> "dead", uix |-> 0] \/ o = [state |-> "on", uix |-> n]
  BY <1>2 DEF Connect
<1>6. o \in Sockets /\ (o.uix # 0 => o.uix \in DOMAIN users /\ users[o.uix] = NameOf[t])
  BY <1>4, <1>5 DEF Sockets
<1>7. /\ sock' \in [Tabs -> Sockets]
      /\ \A x \in Tabs : sock'[x] = IF x = t THEN o ELSE sock[x]
  BY <1>5, <1>6 DEF Inv, ServerOK
<1>8. ServerOK'
  BY <1>1, <1>6, <1>7 DEF Inv, ServerOK
<1>9. page[t].open
  BY <1>1 DEF Inv, Closed, Off
<1>10. Closed'
  BY <1>1, <1>7, <1>9 DEF Inv, Closed
<1>11. PagesOK' /\ UpOK' /\ DownOK' /\ ConnsOK'
  BY <1>1, PagesSame, UpSame, DownSame, ConnsStep DEF Inv
<1>12. Told'
  BY <1>1, ToldStays, SameConns, TabsOfEnv DEF Inv
<1>13. One'
  BY <1>1, SureIs DEF Inv, One
<1> QED BY <1>1, <1>8, <1>10, <1>11, <1>12, <1>13 DEF Inv

(* A connection is made for the user of the page, to the host of the order.*)
LEMMA ConnIs ==
  ASSUME ServerOK, NEW t \in Tabs, sock[t].uix # 0, NEW kind \in {"ls", "command"},
         NEW hix \in Positions(NameOf[t]), NEW m, m.ve \in Containers \cup {None},
         m.modal \in Modals, NEW k, k = Conn(t, kind, hix, m)
  PROVE  /\ k \in Connections /\ k.tab = t /\ k.kind = kind /\ k.hix = hix
         /\ k.user = NameOf[t] /\ k.host = HostsOf[NameOf[t]][hix] /\ k.ve = m.ve
         /\ k.modal = m.modal
<1>1. PICK u \in Users, n \in Nat : u = users[sock[t].uix] /\ u = NameOf[t] /\ n = sock[t].uix
  BY DEF ServerOK, Sockets
<1>2. PICK host \in Hosts : host = HostsOf[u][hix]
  BY <1>1, HostOf
<1>3. hix \in Nat
  BY DEF Positions
<1>4. PICK ve \in Containers \cup {None}, modal \in Modals : ve = m.ve /\ modal = m.modal
  OBVIOUS
<1>5. <<>> \in Seq(STRING)
  OBVIOUS
<1>6. k = [tab |-> t, uix |-> n, hix |-> hix, kind |-> kind, user |-> u, host |-> host,
           ve |-> ve, modal |-> modal, state |-> "connecting", lost |-> FALSE, adat |-> <<>>]
  BY <1>1, <1>2, <1>4 DEF Conn
<1> QED BY <1>1, <1>2, <1>3, <1>4, <1>5, <1>6 DEF Connections

(* The server takes a message.                                             *)
LEMMA ServeInv ==
  ASSUME Inv, env' = env, NEW t \in Tabs, Serve(t)
  PROVE  Inv'
<1>1. PICK s, r, m : s = up[t] /\ r = Tail(s) /\ m = Head(s)
  OBVIOUS
<1>2. /\ s # <<>> /\ up' = [up EXCEPT ![t] = r]
      /\ UNCHANGED <<users, lists, sock, down, page, calm>>
  BY <1>1 DEF Serve
<1>3. UpOf(Sure, t, s) /\ Sure \in BOOLEAN
  BY <1>1, SureIs DEF Inv, UpOK
<1>4. /\ UpOf(Sure, t, r) /\ ~Fetch(r) /\ m \in UpMsgs
      /\ m.type = "get-main" => Fetch(s)
      /\ m.type # "get-main" => Meant(Sure, NameOf[t], m)
      /\ AtMostOne(Asking(s)) => AtMostOne(Asking(r))
      /\ m.type = "sc-command" => Asking(s) # {}
      /\ m.type = "sc-command" /\ AtMostOne(Asking(s)) => Asking(r) = {}
      /\ Asking(s) = {} => Asking(r) = {}
  <2>1. s # <<>> /\ r = Tail(s) /\ m = Head(s) /\ s \in Seq(UpMsgs)
    BY <1>1, <1>2, <1>3 DEF UpOf
  <2>2. UpOf(Sure, t, r) /\ ~Fetch(r)
    BY <1>3, <2>1, TailUp
  <2>3. /\ m \in UpMsgs
        /\ m.type = "get-main" => Fetch(s)
        /\ m.type # "get-main" => Meant(Sure, NameOf[t], m)
    BY <1>3, <2>1, HeadUp
  <2> QED BY <2>1, <2>2, <2>3, TailAsking
<1>5. page[t].open /\ t \in env.tabs
  BY <1>1, <1>2 DEF Inv, Closed
<1>6. \A x \in Tabs : up'[x] = IF x = t THEN r ELSE up[x]
  BY <1>2 DEF Inv, UpOK
<1>7. PICK new :
        /\ conns' = conns \cup new
        /\ \A k \in new : ConnOK(Sure, k) /\ k.tab = t
        /\ new # {} /\ m.type # "sc-command" =>
             /\ NameOf[t] \in Users /\ m.type = "get-main"
             /\ \A k \in new : k.kind = "ls" /\ k.user = NameOf[t]
             /\ \A k, l \in new : k.hix = l.hix => k = l
        /\ m.type = "sc-command" => (\A k \in new : k.kind = "command") /\ AtMostOne(new)
  <2> DEFINE New == IF sock[t].state = "dead" \/ sock[t].uix = 0 THEN {}
                    ELSE IF m.type = "get-main"
                      THEN {Conn(t, "ls", i, Ls) : i \in Positions(users[sock[t].uix])}
                    ELSE {Conn(t, "command", m.hix, m)}
  <2>1. conns' = conns \cup New
    BY <1>1 DEF Serve
  <2>2. CASE sock[t].state = "dead" \/ sock[t].uix = 0
    <3>1. New = {}
      BY <2>2
    <3> HIDE DEF New
    <3> QED BY <2>1, <3>1 DEF AtMostOne
  <2>3. CASE ~(sock[t].state = "dead" \/ sock[t].uix = 0) /\ m.type = "get-main"
    <3>1. users[sock[t].uix] = NameOf[t] /\ NameOf[t] \in Users /\ sock[t].uix # 0
      BY <2>3 DEF Inv, ServerOK
    <3>2. New = {Conn(t, "ls", i, Ls) : i \in Positions(NameOf[t])}
      BY <2>3, <3>1
    <3> HIDE DEF New
    <3>3. Ls.ve = None /\ Ls.modal = NoModal
      BY DEF Ls
    <3>4. ASSUME NEW i \in Positions(NameOf[t]), NEW k, k = Conn(t, "ls", i, Ls)
          PROVE  ConnOK(Sure, k) /\ k.tab = t /\ k.kind = "ls" /\ k.user = NameOf[t] /\ k.hix = i
      <4>1. NoModal \in Modals /\ ModalOK(NoModal)
        BY NoModalOK DEF ModalOK
      <4>2. /\ k \in Connections /\ k.tab = t /\ k.kind = "ls" /\ k.hix = i
            /\ k.user = NameOf[t] /\ k.host = HostsOf[NameOf[t]][i] /\ k.ve = None
            /\ k.modal = NoModal
        BY <3>1, <3>3, <3>4, <4>1, ConnIs DEF Inv
      <4>3. NoModal.meant = None /\ NoModal.cmd # "add-fedora"
        BY ConstantsAssumption DEF NoModal, Dialogs
      <4>4. Meant(Sure, k.user, k)
        BY <4>1, <4>2, <4>3 DEF Meant
      <4> QED BY <4>2, <4>4 DEF ConnOK
    <3>5. /\ \A k \in New : ConnOK(Sure, k) /\ k.tab = t /\ k.kind = "ls" /\ k.user = NameOf[t]
          /\ \A k, l \in New : k.hix = l.hix => k = l
      BY <3>2, <3>4
    <3> QED BY <2>1, <2>3, <3>1, <3>5
  <2>4. CASE ~(sock[t].state = "dead" \/ sock[t].uix = 0) /\ m.type # "get-main"
    <3>1. users[sock[t].uix] = NameOf[t] /\ NameOf[t] \in Users /\ sock[t].uix # 0
      BY <2>4 DEF Inv, ServerOK
    <3>2. PICK k : k = Conn(t, "command", m.hix, m)
      OBVIOUS
    <3>3. New = {k}
      BY <2>4, <3>2
    <3> HIDE DEF New
    <3>4. m \in Orders /\ m.type = "sc-command" /\ Meant(Sure, NameOf[t], m)
      BY <1>4, <2>4 DEF UpMsgs, Orders
    <3>5. m.hix \in Positions(NameOf[t]) /\ m.modal \in Modals /\ m.ve \in Containers \cup {None}
      BY <3>1, <3>4 DEF Meant, Orders
    <3>6. /\ k \in Connections /\ k.tab = t /\ k.kind = "command" /\ k.hix = m.hix
          /\ k.user = NameOf[t] /\ k.host = HostsOf[NameOf[t]][m.hix] /\ k.ve = m.ve
          /\ k.modal = m.modal
      BY <3>1, <3>2, <3>5, ConnIs DEF Inv
    <3>7. Meant(Sure, k.user, k)
      BY <3>4, <3>6 DEF Meant
    <3>8. ConnOK(Sure, k)
      BY <3>5, <3>6, <3>7 DEF ConnOK
    <3> QED BY <2>1, <3>3, <3>4, <3>6, <3>8 DEF AtMostOne
  <2> QED BY <2>2, <2>3, <2>4
<1>8. PagesOK' /\ UpOK' /\ DownOK' /\ ServerOK' /\ ConnsOK'
  BY <1>2, <1>4, <1>7, PagesSame, UpStep, DownSame, ServerSame, ConnsStep DEF Inv
<1>9. Closed'
  BY <1>2, <1>5, <1>6, <1>7 DEF Inv, Closed
<1>10. Told'
  <2> SUFFICES ASSUME OnePage PROVE Told'
    BY SureIs DEF Told
  <2>1. Unknowns /\ AskedOnce /\ LastSeen /\ LastSent /\ NotYet /\ OncePerHost
    BY DEF Inv, Told
  <2>2. Unknowns'
    BY <1>2, <1>4, <1>5, <1>6, <2>1, TabsOfEnv DEF Unknowns, Inv
  <2>3. \A x \in Tabs : /\ Fetch(up'[x]) => Fetch(up[x]) /\ x # t
                        /\ x # t => (Fetching(conns', x) => Fetching(conns, x))
    BY <1>4, <1>6, <1>7 DEF Fetching
  <2>4. Fetching(conns', t) => Fetching(conns, t) \/ Fetch(up[t])
    BY <1>1, <1>4, <1>7 DEF Fetching, UpMsgs, Orders
  <2>5. AskedOnce'
    BY <2>1, <2>3 DEF AskedOnce
  <2>6. LastSeen'
    BY <1>2, <2>1, <2>3, <2>4 DEF LastSeen
  <2>7. LastSent'
    BY <1>2, <2>1, <2>3, <2>4 DEF LastSent
  <2>8. CASE m.type = "sc-command"
    BY <1>2, <1>7, <2>1, <2>2, <2>5, <2>6, <2>7, <2>8, SureIs DEF Told, NotYet, OncePerHost
  <2>9. CASE m.type # "sc-command"
    <3>1. new # {} => /\ m.type = "get-main" /\ ~Fetching(conns, t)
                      /\ \A i \in Positions(NameOf[t]) : lists[NameOf[t]][i] = None
      BY <1>1, <1>4, <1>5, <1>7, <2>1, <2>9 DEF AskedOnce, Unknowns
    <3>2. \A k \in new : /\ k.kind = "ls" /\ k.tab = t /\ k.user = NameOf[t]
                         /\ k.hix \in Positions(NameOf[t])
      BY <1>7, <2>9 DEF ConnOK
    <3>3. NotYet'
      BY <1>2, <1>7, <2>1, <3>1, <3>2 DEF NotYet
    <3>4. \A k \in conns, l \in new : k.kind = "ls" => k.tab # l.tab
      BY <3>1, <3>2 DEF Fetching
    <3>5. OncePerHost'
      BY <1>7, <2>1, <2>9, <3>4 DEF OncePerHost
    <3> QED BY <2>2, <2>5, <2>6, <2>7, <3>3, <3>5 DEF Told
  <2> QED BY <2>8, <2>9
<1>11. One'
  <2>1. \A x \in Tabs \ {t} : Running(conns', x) = Running(conns, x)
    BY <1>7 DEF Running
  <2>2. m.type # "sc-command" => Running(conns', t) = Running(conns, t)
    BY <1>7 DEF Running
  <2>3. m.type = "sc-command" /\ Running(conns, t) = {} => AtMostOne(Running(conns', t))
    BY <1>7 DEF Running, AtMostOne
  <2>4. ASSUME OneOf(page[t].lock, Running(conns, t), Asking(up[t]), Locks(down[t]))
        PROVE  OneOf(page'[t].lock, Running(conns', t), Asking(up'[t]), Locks(down'[t]))
    BY <1>1, <1>2, <1>4, <1>6, <2>2, <2>3, <2>4 DEF OneOf, AtMostOne
  <2> QED BY <1>2, <1>6, <2>1, <2>4, OneStep DEF Inv
<1> QED BY <1>2, <1>8, <1>9, <1>10, <1>11 DEF Inv

-----------------------------------------------------------------------------
(* What ssh reports of a connection, as far as the page hears of it.       *)

(* A connection is over; if it was of a command, the page is unlocked,     *)
(* after it was told of an error if there was one.                         *)
Ends(k) ==
  /\ conns' = conns \ {k}
  /\ \/ down' = down
     \/ /\ k.kind = "command" /\ ~k.lost
        /\ \/ down' = [down EXCEPT ![k.tab] = Append(down[k.tab], Lock)]
           \/ down' = [down EXCEPT ![k.tab] = Append(Append(down[k.tab], Failed), Lock)]
  /\ UNCHANGED <<users, lists, sock, up, page, calm>>

(* It goes on.  The page is unlocked only where ssh breaks.                *)
Goes(k) ==
  \E l \in Connections :
    /\ l.tab = k.tab /\ l.hix = k.hix /\ l.kind = k.kind /\ l.user = k.user
    /\ l.host = k.host /\ l.ve = k.ve /\ l.modal = k.modal /\ l.lost = k.lost
    /\ conns' = (conns \ {k}) \cup {l}
    /\ \/ down' = down
       \/ \E m \in DownMsgs :
            /\ m.type = "set-terminal"
            /\ down' = [down EXCEPT ![k.tab] = Append(down[k.tab], m)]
       \/ /\ ~Calm
          /\ down' = [down EXCEPT ![k.tab] = Append(Append(down[k.tab], Failed), Lock)]
    /\ UNCHANGED <<users, lists, sock, up, page, calm>>

(* A list of containers is there.                                          *)
Arrives(k) ==
  /\ k.kind = "ls" /\ conns' = conns \ {k}
  /\ \E L \in Lists : lists' = [lists EXCEPT ![k.user][k.hix] = L]
  /\ Emit(k, [type |-> "set-main", main |-> lists'[k.user]])
  /\ UNCHANGED <<users, sock, up, page, calm>>

(* The message that unlocks a page, and that of an error.                  *)
LEMMA LockIs == /\ Lock \in DownMsgs /\ Lock.type = "lock"
                /\ Failed \in DownMsgs /\ Failed.type = "set-terminal"
<1>1. ErrorText \in Html
  BY DEF Html
<1> QED BY <1>1 DEF Lock, Failed, DownMsgs

(* A command that is executed goes on.                                     *)
LEMMA BecomeGoes ==
  ASSUME NEW k \in Connections, Become(k, "running"),
         UNCHANGED <<users, lists, sock, up, down, page, calm>>
  PROVE  Goes(k)
<1>1. PICK l : l = [k EXCEPT !.state = "running"]
  OBVIOUS
<1>2. /\ l \in Connections /\ l.tab = k.tab /\ l.hix = k.hix /\ l.kind = k.kind
      /\ l.user = k.user /\ l.host = k.host /\ l.ve = k.ve /\ l.modal = k.modal
      /\ l.lost = k.lost
  BY <1>1 DEF Connections
<1>3. conns' = (conns \ {k}) \cup {l}
  BY <1>1 DEF Become
<1> QED BY <1>2, <1>3 DEF Goes

(* One that breaks goes on until its stream closes.                        *)
LEMMA BrokenGoes ==
  ASSUME NEW k \in Connections, Broken(k)
  PROVE  Goes(k)
<1>1. PICK l : l = [k EXCEPT !.state = "broken", !.adat = <<>>]
  OBVIOUS
<1>2. PICK none : none = <<>> /\ none \in Seq(STRING)
  <2>1. <<>> \in Seq(STRING)
    OBVIOUS
  <2> QED BY <2>1
<1>3. /\ l \in Connections /\ l.tab = k.tab /\ l.hix = k.hix /\ l.kind = k.kind
      /\ l.user = k.user /\ l.host = k.host /\ l.ve = k.ve /\ l.modal = k.modal
      /\ l.lost = k.lost
  <2>1. l = [k EXCEPT !.state = "broken", !.adat = none]
    BY <1>1, <1>2
  <2>2. PICK g : g = [k EXCEPT !.state = "broken"]
    OBVIOUS
  <2>3. /\ g \in Connections /\ g.tab = k.tab /\ g.hix = k.hix /\ g.kind = k.kind
        /\ g.user = k.user /\ g.host = k.host /\ g.ve = k.ve /\ g.modal = k.modal
        /\ g.lost = k.lost
    BY <2>2 DEF Connections
  <2>4. l = [g EXCEPT !.adat = none]
    BY <2>1, <2>2
  <2> QED BY <1>2, <2>3, <2>4 DEF Connections
<1>4. /\ conns' = (conns \ {k}) \cup {l}
      /\ UNCHANGED <<users, lists, sock, up, page, calm>>
  BY <1>1 DEF Broken
<1>5. ~Calm
  BY DEF Broken, Calm
<1>6. \/ down' = down
      \/ down' = [down EXCEPT ![k.tab] = Append(Append(down[k.tab], Failed), Lock)]
  BY DEF Broken, EmitError
<1> QED BY <1>3, <1>4, <1>5, <1>6 DEF Goes

(* A connection ends, goes on, or brings a list.                           *)
LEMMA AnswerIs ==
  ASSUME Inv, NEW k \in conns, Answer(k) \/ Data(k)
  PROVE  Ends(k) \/ Goes(k) \/ Arrives(k)
<1>1. k \in Connections /\ k.kind \in {"ls", "command"} /\ k.adat \in Seq(STRING)
  BY DEF Inv, ConnsOK, ConnOK, Connections
<1>2. CASE Refused(k)
  BY <1>2 DEF Refused, Ends, EmitError
<1>3. CASE Ready(k)
  <2>1. CASE Become(k, "running")
    BY <1>1, <1>3, <2>1, BecomeGoes DEF Ready
  <2>2. CASE conns' = conns \ {k}
    BY <1>3, <2>2 DEF Ready, Ends
  <2> QED BY <1>3, <2>1, <2>2 DEF Ready
<1>4. CASE Broken(k)
  BY <1>1, <1>4, BrokenGoes
<1>5. CASE Close(k)
  BY <1>1, <1>5 DEF Close, Ends, Arrives, Emit
<1>6. CASE Data(k)
  <2>0. PICK data \in Pieces :
          /\ conns' = (conns \ {k}) \cup {[k EXCEPT !.adat = k.adat \o data]}
          /\ Emit(k, [type |-> "set-terminal", html |-> term2html(k.adat \o data)])
    BY <1>6 DEF Data, Collected
  <2>1. PICK adat :
          /\ adat = k.adat \o data
          /\ conns' = (conns \ {k}) \cup {[k EXCEPT !.adat = adat]}
          /\ Emit(k, [type |-> "set-terminal", html |-> term2html(adat)])
    BY <2>0
  <2>2. adat \in Seq(STRING)
    BY <1>1, <2>1, ConstantsAssumption
  <2>3. PICK html \in Html : html = term2html(adat)
    BY <2>2 DEF Html
  <2>4. PICK m : m = [type |-> "set-terminal", html |-> html]
    OBVIOUS
  <2>5. m \in DownMsgs /\ m.type = "set-terminal"
    BY <2>4 DEF DownMsgs
  <2>6. \/ down' = down
        \/ down' = [down EXCEPT ![k.tab] = Append(down[k.tab], m)]
    BY <2>1, <2>3, <2>4 DEF Emit
  <2>7. PICK l : l = [k EXCEPT !.adat = adat]
    OBVIOUS
  <2>8. /\ l \in Connections /\ l.tab = k.tab /\ l.hix = k.hix /\ l.kind = k.kind
        /\ l.user = k.user /\ l.host = k.host /\ l.ve = k.ve /\ l.modal = k.modal
        /\ l.lost = k.lost
    BY <1>1, <2>2, <2>7 DEF Connections
  <2>9. /\ conns' = (conns \ {k}) \cup {l}
        /\ UNCHANGED <<users, lists, sock, up, page, calm>>
    BY <1>6, <2>1, <2>7 DEF Data
  <2> QED BY <2>5, <2>6, <2>8, <2>9 DEF Goes
<1> QED BY <1>2, <1>3, <1>4, <1>5, <1>6 DEF Answer

(* What is on its way to a page after one more message that brings no list.*)
Grown(t, s, r, unlocks) ==
  /\ DownOf(t, r)
  /\ ~unlocks => Locks(r) = Locks(s)
  /\ Locks(s) = {} => AtMostOne(Locks(r))
  /\ \A i : SetMain(r, i) => SetMain(s, i) /\ r[i] = s[i]

LEMMA OneMore ==
  ASSUME NEW t, NEW s, DownOf(t, s), NEW m \in DownMsgs, m.type # "set-main",
         NEW r, r = Append(s, m)
  PROVE  Grown(t, s, r, m.type = "lock")
<1>1. s \in Seq(DownMsgs)
  BY DEF DownOf
<1>2. DownOf(t, r)
  BY AppendDown
<1>3. /\ m.type # "lock" => Locks(r) = Locks(s)
      /\ m.type = "lock" /\ Locks(s) = {} => AtMostOne(Locks(r))
  BY <1>1, AppendLock
<1>4. ASSUME NEW i, SetMain(r, i)
      PROVE  SetMain(s, i) /\ r[i] = s[i]
  BY <1>1, <1>4, AppendOther, ZenonT(40)
<1>5. Locks(s) = {} => AtMostOne(Locks(r))
  BY <1>3 DEF AtMostOne
<1> QED BY <1>2, <1>3, <1>4, <1>5 DEF Grown

(* The message of an error, and the one that unlocks.                      *)
LEMMA TwoMore ==
  ASSUME NEW t, NEW s, DownOf(t, s), NEW r, r = Append(Append(s, Failed), Lock)
  PROVE  Grown(t, s, r, TRUE)
<1>1. PICK m \in DownMsgs, l \in DownMsgs :
        m = Failed /\ m.type = "set-terminal" /\ l = Lock /\ l.type = "lock"
  BY LockIs
<1>2. PICK q : q = Append(s, m)
  OBVIOUS
<1>3. Grown(t, s, q, FALSE)
  <2>1. Grown(t, s, q, m.type = "lock")
    BY <1>1, <1>2, OneMore
  <2>2. (m.type = "lock") = FALSE
    BY <1>1
  <2> QED BY <2>1, <2>2
<1>4. Grown(t, q, r, TRUE)
  <2>1. DownOf(t, q) /\ r = Append(q, l) /\ l.type # "set-main"
    BY <1>1, <1>2, <1>3 DEF Grown
  <2>2. Grown(t, q, r, l.type = "lock")
    BY <2>1, OneMore
  <2>3. (l.type = "lock") = TRUE
    BY <1>1
  <2> QED BY <2>2, <2>3
<1> QED BY <1>3, <1>4 DEF Grown

(* What a page got, whether its messages went to it or were lost.          *)
LEMMA GrownOK ==
  ASSUME DownOK, NEW t \in Tabs, NEW unlocks \in BOOLEAN, NEW r,
         Grown(t, down[t], r, unlocks), down' = [down EXCEPT ![t] = r]
  PROVE  /\ DownOK'
         /\ \A x \in Tabs \ {t} : down'[x] = down[x]
         /\ ~unlocks => Locks(down'[t]) = Locks(down[t])
         /\ Locks(down[t]) = {} => AtMostOne(Locks(down'[t]))
         /\ \A x \in Tabs : \A i : SetMain(down'[x], i) =>
              SetMain(down[x], i) /\ down'[x][i] = down[x][i]
<1>1. DownOf(t, r)
  BY DEF Grown
<1>2. DownOK'
  BY <1>1, DownStep
<1>3. \A x \in Tabs : down'[x] = IF x = t THEN r ELSE down[x]
  BY DEF DownOK
<1> QED BY <1>2, <1>3 DEF Grown

(* The same for the messages that are sent.                                *)
LEMMA EmittedOK ==
  ASSUME DownOK, NEW t \in Tabs, NEW m \in DownMsgs, m.type # "set-main",
         down' = [down EXCEPT ![t] = Append(down[t], m)]
  PROVE  /\ DownOK'
         /\ \A x \in Tabs \ {t} : down'[x] = down[x]
         /\ m.type # "lock" => Locks(down'[t]) = Locks(down[t])
         /\ Locks(down[t]) = {} => AtMostOne(Locks(down'[t]))
         /\ \A x \in Tabs : \A i : SetMain(down'[x], i) =>
              SetMain(down[x], i) /\ down'[x][i] = down[x][i]
<1>1. DownOf(t, down[t])
  BY DEF DownOK
<1>2. PICK r : r = Append(down[t], m)
  OBVIOUS
<1>3. PICK unlocks \in BOOLEAN : unlocks = (m.type = "lock")
  OBVIOUS
<1>4. Grown(t, down[t], r, unlocks)
  BY <1>1, <1>2, <1>3, OneMore
<1> QED BY <1>2, <1>3, <1>4, GrownOK

LEMMA EmittedErrorOK ==
  ASSUME DownOK, NEW t \in Tabs,
         down' = [down EXCEPT ![t] = Append(Append(down[t], Failed), Lock)]
  PROVE  /\ DownOK'
         /\ \A x \in Tabs \ {t} : down'[x] = down[x]
         /\ Locks(down[t]) = {} => AtMostOne(Locks(down'[t]))
         /\ \A x \in Tabs : \A i : SetMain(down'[x], i) =>
              SetMain(down[x], i) /\ down'[x][i] = down[x][i]
<1>1. DownOf(t, down[t])
  BY DEF DownOK
<1>2. PICK r : r = Append(Append(down[t], Failed), Lock)
  OBVIOUS
<1>3. Grown(t, down[t], r, TRUE)
  BY <1>1, <1>2, TwoMore
<1> QED BY <1>2, <1>3, GrownOK

(* The page of a connection was opened.                                    *)
LEMMA TabOfConn ==
  ASSUME Inv, NEW k \in conns
  PROVE  /\ k.tab \in Tabs /\ page[k.tab].open /\ k.tab \in env.tabs /\ ConnOK(Sure, k)
         /\ k \in Connections
BY DEF Inv, ConnsOK, ConnOK, Connections, Closed

(* A connection that ends keeps the invariant.                             *)
LEMMA EndsInv ==
  ASSUME Inv, env' = env, NEW k \in conns, Ends(k)
  PROVE  Inv'
<1>1. /\ conns' = conns \ {k} /\ conns' \subseteq conns
      /\ UNCHANGED <<users, lists, sock, up, page, calm>>
  BY DEF Ends
<1>2. PICK t \in Tabs : t = k.tab /\ page[t].open
  BY TabOfConn
<1>3. /\ DownOK'
      /\ \A x \in Tabs \ {t} : down'[x] = down[x]
      /\ \A x \in Tabs : \A i : SetMain(down'[x], i) =>
           SetMain(down[x], i) /\ down'[x][i] = down[x][i]
      /\ \/ down' = down
         \/ /\ k.kind = "command" /\ ~k.lost
            /\ Locks(down[t]) = {} => AtMostOne(Locks(down'[t]))
  <2>1. CASE down' = down
    BY <2>1, DownSame DEF Inv
  <2>2. CASE /\ k.kind = "command" /\ ~k.lost
             /\ down' = [down EXCEPT ![t] = Append(down[t], Lock)]
    <3>1. PICK m \in DownMsgs : m = Lock /\ m.type = "lock"
      BY LockIs
    <3>2. down' = [down EXCEPT ![t] = Append(down[t], m)]
      BY <2>2, <3>1
    <3>3. DownOK
      BY DEF Inv
    <3> QED BY <2>2, <3>1, <3>2, <3>3, EmittedOK
  <2>3. CASE /\ k.kind = "command" /\ ~k.lost
             /\ down' = [down EXCEPT ![t] = Append(Append(down[t], Failed), Lock)]
    BY <2>3, EmittedErrorOK DEF Inv
  <2> QED BY <1>2, <2>1, <2>2, <2>3 DEF Ends
<1>4. PagesOK' /\ UpOK' /\ ServerOK' /\ ConnsOK'
  BY <1>1, PagesSame, UpSame, ServerSame, ConnsStep DEF Inv
<1>5. Closed'
  BY <1>1, <1>2, <1>3 DEF Inv, Closed
<1>6. Told'
  BY <1>1, <1>3, ToldStays, SameConns, TabsOfEnv DEF Inv, Fetching
<1>7. One'
  <2>1. \A x \in Tabs \ {t} : Running(conns', x) = Running(conns, x)
    BY <1>1, <1>2 DEF Running
  <2>2. Running(conns', t) = Running(conns, t) \ {k}
    BY <1>1 DEF Running
  <2>3. k.kind = "command" /\ ~k.lost => k \in Running(conns, t)
    BY <1>2 DEF Running
  <2>4. ASSUME OneOf(page[t].lock, Running(conns, t), Asking(up[t]), Locks(down[t]))
        PROVE  OneOf(page'[t].lock, Running(conns', t), Asking(up'[t]), Locks(down'[t]))
    <3>1. CASE down' = down
      BY <1>1, <2>2, <2>4, <3>1 DEF OneOf, AtMostOne
    <3>2. CASE /\ k.kind = "command" /\ ~k.lost
               /\ Locks(down[t]) = {} => AtMostOne(Locks(down'[t]))
      <4>1. /\ Asking(up[t]) = {} /\ Locks(down[t]) = {} /\ page[t].lock
            /\ Running(conns', t) = {}
        BY <2>2, <2>3, <2>4, <3>2 DEF OneOf, AtMostOne
      <4> QED BY <1>1, <3>2, <4>1 DEF OneOf, AtMostOne
    <3> QED BY <1>3, <3>1, <3>2
  <2> QED BY <1>1, <1>3, <2>1, <2>4, OneStep DEF Inv
<1> QED BY <1>1, <1>3, <1>4, <1>5, <1>6, <1>7 DEF Inv

(* A connection that goes on keeps it.                                     *)
LEMMA GoesInv ==
  ASSUME Inv, env' = env, NEW k \in conns, Goes(k)
  PROVE  Inv'
<1>1. PICK l \in Connections :
        /\ l.tab = k.tab /\ l.hix = k.hix /\ l.kind = k.kind /\ l.user = k.user
        /\ l.host = k.host /\ l.ve = k.ve /\ l.modal = k.modal /\ l.lost = k.lost
        /\ conns' = (conns \ {k}) \cup {l}
        /\ \/ down' = down
           \/ \E m \in DownMsgs :
                /\ m.type = "set-terminal"
                /\ down' = [down EXCEPT ![k.tab] = Append(down[k.tab], m)]
           \/ /\ ~Calm
              /\ down' = [down EXCEPT ![k.tab] = Append(Append(down[k.tab], Failed), Lock)]
        /\ UNCHANGED <<users, lists, sock, up, page, calm>>
  BY DEF Goes
<1>2. PICK t \in Tabs : t = k.tab /\ page[t].open
  BY TabOfConn
<1>3. /\ DownOK'
      /\ \A x \in Tabs \ {t} : down'[x] = down[x]
      /\ \A x \in Tabs : \A i : SetMain(down'[x], i) =>
           SetMain(down[x], i) /\ down'[x][i] = down[x][i]
      /\ Calm => Locks(down'[t]) = Locks(down[t])
  <2>1. CASE down' = down
    BY <2>1, DownSame DEF Inv
  <2>2. ASSUME NEW m \in DownMsgs, m.type = "set-terminal",
               down' = [down EXCEPT ![t] = Append(down[t], m)]
        PROVE  /\ DownOK'
               /\ \A x \in Tabs \ {t} : down'[x] = down[x]
               /\ \A x \in Tabs : \A i : SetMain(down'[x], i) =>
                    SetMain(down[x], i) /\ down'[x][i] = down[x][i]
               /\ Calm => Locks(down'[t]) = Locks(down[t])
    BY <2>2, EmittedOK DEF Inv
  <2>3. CASE /\ ~Calm
             /\ down' = [down EXCEPT ![t] = Append(Append(down[t], Failed), Lock)]
    BY <2>3, EmittedErrorOK DEF Inv
  <2> QED BY <1>1, <1>2, <2>1, <2>2, <2>3
<1>4. ConnOK(Sure, l)
  BY <1>1, TabOfConn DEF ConnOK, Meant
<1>5. PagesOK' /\ UpOK' /\ ServerOK' /\ ConnsOK'
  BY <1>1, <1>4, PagesSame, UpSame, ServerSame, ConnsStep DEF Inv
<1>6. Closed'
  BY <1>1, <1>2, <1>3 DEF Inv, Closed
<1>7. Told'
  <2>1. \A x \in Tabs : Fetching(conns', x) => Fetching(conns, x)
    BY <1>1 DEF Fetching
  <2>2. OnePage => NotYet' /\ OncePerHost'
    BY <1>1 DEF Inv, Told, NotYet, OncePerHost
  <2> QED BY <1>1, <1>3, <2>1, <2>2, ToldStays, TabsOfEnv DEF Inv
<1>8. One'
  <2>1. \A x \in Tabs \ {t} : Running(conns', x) = Running(conns, x)
    BY <1>1, <1>2 DEF Running
  <2>2. CASE k \in Running(conns, t)
    <3>1. Running(conns', t) = (Running(conns, t) \ {k}) \cup {l}
      BY <1>1, <1>2, <2>2 DEF Running
    <3>2. ASSUME Calm, OneOf(page[t].lock, Running(conns, t), Asking(up[t]), Locks(down[t]))
          PROVE  OneOf(page'[t].lock, Running(conns', t), Asking(up'[t]), Locks(down'[t]))
      BY <1>1, <1>3, <2>2, <3>1, <3>2 DEF OneOf, AtMostOne
    <3> QED BY <1>1, <1>3, <2>1, <3>2, OneStep DEF Inv
  <2>3. CASE k \notin Running(conns, t)
    <3>1. Running(conns', t) = Running(conns, t)
      BY <1>1, <1>2, <2>3 DEF Running
    <3> QED BY <1>1, <1>3, <2>1, <3>1, OneStep DEF Inv
  <2> QED BY <2>2, <2>3
<1> QED BY <1>1, <1>3, <1>5, <1>6, <1>7, <1>8 DEF Inv

(* A list arrives, the last one only when no other is still to come.       *)
LEMMA ArrivesInv ==
  ASSUME Inv, env' = env, NEW k \in conns, Arrives(k)
  PROVE  Inv'
<1>1. /\ k.kind = "ls" /\ conns' = conns \ {k}
      /\ UNCHANGED <<users, sock, up, page, calm>>
  BY DEF Arrives
<1>2. PICK t \in Tabs : t = k.tab /\ page[t].open /\ t \in env.tabs
  BY TabOfConn
<1>3. PICK u \in Users, hix \in Nat :
        u = k.user /\ hix = k.hix /\ u = NameOf[t] /\ hix \in Positions(u)
  BY <1>2, TabOfConn DEF ConnOK, Connections
<1>4. PICK L \in Lists : lists' = [lists EXCEPT ![u][hix] = L]
  BY <1>3 DEF Arrives
<1>5. lists \in [Users -> Mains] /\ \A x \in Users : lists[x] \in MainsOf(x)
  BY DEF Inv, ServerOK
<1>6. PICK main : main = [lists[u] EXCEPT ![hix] = L]
  OBVIOUS
<1>7. /\ main \in MainsOf(u) /\ main[hix] = L
      /\ \A j \in Positions(u) : j # hix => main[j] = lists[u][j]
  <2>1. lists[u] \in [Positions(u) -> Lists \cup {None}]
    BY <1>5 DEF MainsOf
  <2>2. main \in [Positions(u) -> Lists \cup {None}] /\ main[hix] = L
    BY <1>3, <1>6, <2>1
  <2>3. \A j \in Positions(u) : j # hix => main[j] = lists[u][j]
    BY <1>6, <2>1
  <2> QED BY <2>2, <2>3 DEF MainsOf
<1>8. lists' = [lists EXCEPT ![u] = main]
  BY <1>4, <1>5, <1>6
<1>9. main \in Mains /\ DOMAIN main = Positions(u)
  BY <1>7, MainOf
<1>10. /\ lists' \in [Users -> Mains]
       /\ \A x \in Users : lists'[x] = IF x = u THEN main ELSE lists[x]
  BY <1>5, <1>8, <1>9
<1>11. PICK m : m = [type |-> "set-main", main |-> main]
  OBVIOUS
<1>12. m \in DownMsgs /\ m.type = "set-main" /\ m.main = main
  BY <1>9, <1>11 DEF DownMsgs
<1>13. PICK s, r : s = down[t] /\ r = Append(s, m)
  OBVIOUS
<1>14. down' = down \/ down' = [down EXCEPT ![t] = r]
  BY <1>2, <1>3, <1>10, <1>11, <1>13 DEF Arrives, Emit
<1>15. DownOf(t, s) /\ s \in Seq(DownMsgs)
  BY <1>13 DEF Inv, DownOK, DownOf
<1>16. DownOf(t, r)
  BY <1>3, <1>7, <1>12, <1>13, <1>15, AppendDown
<1>17. DownOK'
  BY <1>14, <1>16, DownStep, DownSame DEF Inv
<1>18. \A x \in Tabs : down'[x] = down[x] \/ (x = t /\ down'[x] = r)
  BY <1>14 DEF Inv, DownOK
<1>19. /\ Len(s) \in Nat /\ DOMAIN s = 1 .. Len(s)
       /\ \A i \in DOMAIN r :
            (i \in DOMAIN s /\ r[i] = s[i]) \/ (i = Len(s) + 1 /\ r[i] = m)
  BY <1>12, <1>13, <1>15, AppendIs
<1>20. ServerOK'
  BY <1>1, <1>5, <1>7, <1>10 DEF Inv, ServerOK
<1>21. PagesOK' /\ UpOK' /\ ConnsOK'
  BY <1>1, PagesSame, UpSame, ConnsStep DEF Inv
<1>22. Closed'
  BY <1>1, <1>2, <1>18 DEF Inv, Closed
<1>23. Told'
  <2> SUFFICES ASSUME OnePage PROVE Told'
    BY SureIs DEF Told
  <2>1. Unknowns /\ AskedOnce /\ LastSeen /\ LastSent /\ NotYet /\ OncePerHost
    BY DEF Inv, Told
  <2>2. Fetching(conns, t) /\ ~Fetch(up[t])
    BY <1>1, <1>2, <2>1 DEF Fetching, AskedOnce
  <2>3. \A x \in Tabs : x \in env.tabs /\ NameOf[x] = u => x = t
    BY <1>2, <1>3 DEF OnePage
  <2>4. Unknowns'
    <3> SUFFICES ASSUME NEW x \in env.tabs, NameOf[x] \in Users,
                        ~page'[x].open \/ Fetch(up'[x]), NEW i \in Positions(NameOf[x])
                 PROVE  lists'[NameOf[x]][i] = None
      BY DEF Unknowns
    <3>1. x \in Tabs /\ (~page[x].open \/ Fetch(up[x]))
      BY <1>1, TabsOfEnv DEF Inv
    <3>2. NameOf[x] # u
      BY <1>2, <2>2, <2>3, <3>1
    <3> QED BY <1>10, <2>1, <3>1, <3>2 DEF Unknowns
  <2>5. \A x \in Tabs : Fetching(conns', x) => Fetching(conns, x)
    BY <1>1 DEF Fetching
  <2>6. AskedOnce'
    BY <1>1, <2>1, <2>5 DEF AskedOnce
  <2>7. LastSeen'
    <3> SUFFICES ASSUME NEW x \in Tabs, AllKnown(page[x].main)
                 PROVE  ~Fetch(up[x]) /\ ~Fetching(conns', x) /\ \A i : ~SetMain(down'[x], i)
      BY <1>1 DEF LastSeen
    <3>1. ~Fetch(up[x]) /\ ~Fetching(conns, x) /\ \A i : ~SetMain(down[x], i)
      BY <2>1 DEF LastSeen
    <3>2. x # t
      BY <2>2, <3>1
    <3> QED BY <1>18, <2>5, <3>1, <3>2
  <2>8. ASSUME NEW l \in conns, l # k, l.kind = "ls", l.user = u
        PROVE  l.tab = t /\ l.hix \in Positions(u) /\ l.hix # hix /\ lists[u][l.hix] = None
    <3>1. /\ l.tab \in Tabs /\ l.tab \in env.tabs /\ l.user = NameOf[l.tab]
          /\ l.hix \in Positions(l.user)
      BY TabOfConn DEF ConnOK
    <3>2. l.tab = t
      BY <2>3, <2>8, <3>1
    <3>3. l.hix # hix
      BY <1>1, <1>2, <1>3, <2>1, <2>8, <3>2 DEF OncePerHost
    <3> QED BY <2>1, <2>8, <3>1, <3>2, <3>3 DEF NotYet
  <2>9. AllKnown(main) => ~Fetching(conns', t)
    <3> SUFFICES ASSUME AllKnown(main), NEW l \in conns, l # k, l.kind = "ls", l.tab = t
                 PROVE  FALSE
      BY <1>1 DEF Fetching
    <3>1. l.user = u
      BY <1>3, TabOfConn DEF ConnOK
    <3>2. l.hix \in Positions(u) /\ main[l.hix] = None
      BY <1>7, <2>8, <3>1
    <3> QED BY <1>9, <3>2 DEF AllKnown
  <2>10. LastSent'
    <3> SUFFICES ASSUME NEW x \in Tabs, NEW i \in Nat, SetMain(down'[x], i),
                        AllKnown(down'[x][i].main)
                 PROVE  /\ ~Fetch(up[x]) /\ ~Fetching(conns', x)
                        /\ \A j \in Nat : SetMain(down'[x], j) => j <= i
      BY <1>1 DEF LastSent
    <3>1. CASE down'[x] = down[x]
      BY <2>1, <2>5, <3>1 DEF LastSent
    <3>2. CASE x = t /\ down'[x] = r
      <4>1. i \in DOMAIN r
        BY <3>2 DEF SetMain
      <4>2. CASE i \in DOMAIN s /\ r[i] = s[i]
        <5>1. SetMain(down[t], i) /\ AllKnown(down[t][i].main)
          BY <1>13, <3>2, <4>2 DEF SetMain
        <5> QED BY <2>1, <2>2, <5>1 DEF LastSent
      <4>3. CASE i = Len(s) + 1 /\ r[i] = m
        <5>1. AllKnown(main)
          BY <1>12, <3>2, <4>3
        <5>2. \A j \in Nat : SetMain(r, j) => j <= i
          BY <1>19, <4>3 DEF SetMain
        <5> QED BY <2>2, <2>9, <3>2, <5>1, <5>2
      <4> QED BY <1>19, <4>1, <4>2, <4>3
    <3> QED BY <1>18, <3>1, <3>2
  <2>11. NotYet'
    <3> SUFFICES ASSUME NEW l \in conns, l # k, l.kind = "ls"
                 PROVE  lists'[l.user][l.hix] = None
      BY <1>1 DEF NotYet
    <3>1. l.user \in Users /\ lists[l.user][l.hix] = None
      BY <2>1, TabOfConn DEF NotYet, Connections
    <3>2. CASE l.user = u
      BY <1>7, <1>10, <2>8, <3>2
    <3>3. CASE l.user # u
      BY <1>10, <3>1, <3>3
    <3> QED BY <3>2, <3>3
  <2>12. OncePerHost'
    BY <1>1, <2>1 DEF OncePerHost
  <2> QED BY <2>4, <2>6, <2>7, <2>10, <2>11, <2>12 DEF Told
<1>24. One'
  <2>1. \A x \in Tabs : Running(conns', x) = Running(conns, x)
    BY <1>1 DEF Running
  <2>2. Locks(down'[t]) = Locks(down[t])
    BY <1>12, <1>13, <1>15, <1>18, AppendLock
  <2> QED BY <1>1, <1>18, <2>1, <2>2, OneStep DEF Inv
<1> QED BY <1>1, <1>17, <1>20, <1>21, <1>22, <1>23, <1>24 DEF Inv

-----------------------------------------------------------------------------
(* The connection of a page is lost, or the server restarts.               *)
LEMMA DisconnectInv ==
  ASSUME Inv, env' = env, NEW t \in Tabs, Disconnect(t)
  PROVE  Inv'
<1>1. ~Calm /\ sock[t].state # "off" /\ calm' = FALSE /\ UNCHANGED <<users, lists, page>>
  BY DEF Disconnect, Calm
<1>2. page[t].open
  BY <1>1 DEF Inv, Closed, Off
<1>3. PICK o : o = [Off EXCEPT !.state = "new"] /\ sock' = [sock EXCEPT ![t] = o]
  BY DEF Disconnect
<1>4. o \in Sockets /\ o.uix = 0
  BY <1>3 DEF Sockets, Off
<1>5. /\ sock' \in [Tabs -> Sockets]
      /\ \A x \in Tabs : sock'[x] = IF x = t THEN o ELSE sock[x]
  BY <1>3, <1>4 DEF Inv, ServerOK
<1>6. PICK s : /\ up' = [up EXCEPT ![t] = s]
               /\ \E n \in 1 .. Len(up[t]) + 1 : s = SubSeq(up[t], n, Len(up[t]))
  BY DEF Disconnect
<1>7. UpOf(Sure, t, s) /\ (Fetch(s) => Fetch(up[t]))
  <2>1. PICK n \in 1 .. Len(up[t]) + 1 : s = SubSeq(up[t], n, Len(up[t]))
    BY <1>6
  <2>2. PICK x : x = up[t] /\ UpOf(Sure, t, x)
    BY DEF Inv, UpOK
  <2>3. n \in 1 .. Len(x) + 1 /\ s = SubSeq(x, n, Len(x))
    BY <2>1, <2>2
  <2>4. UpOf(Sure, t, s) /\ (Fetch(s) => Fetch(x))
    BY <2>2, <2>3, SureIs, LostUp
  <2> QED BY <2>2, <2>4
<1>8. \A x \in Tabs : up'[x] = IF x = t THEN s ELSE up[x]
  BY <1>6 DEF Inv, UpOK
<1>9. DownOf(t, <<>>) /\ down' = [down EXCEPT ![t] = <<>>]
  BY DEF DownOf, Disconnect
<1>10. \A x \in Tabs : down'[x] = IF x = t THEN <<>> ELSE down[x]
  BY <1>9 DEF Inv, DownOK
<1>11. \A l \in conns' : \E k \in conns :
         /\ l \in Connections /\ l.tab = k.tab /\ l.hix = k.hix /\ l.kind = k.kind
         /\ l.user = k.user /\ l.host = k.host /\ l.ve = k.ve /\ l.modal = k.modal
         /\ l = IF k.tab = t THEN [k EXCEPT !.lost = TRUE] ELSE k
  <2> SUFFICES ASSUME NEW k \in conns, NEW l, l = IF k.tab = t THEN [k EXCEPT !.lost = TRUE] ELSE k
               PROVE  /\ l \in Connections /\ l.tab = k.tab /\ l.hix = k.hix /\ l.kind = k.kind
                      /\ l.user = k.user /\ l.host = k.host /\ l.ve = k.ve /\ l.modal = k.modal
    BY DEF Disconnect
  <2> QED BY TabOfConn DEF Connections
<1>12. \A l \in conns' : ConnOK(Sure, l)
  BY <1>11, TabOfConn DEF ConnOK, Meant
<1>13. PagesOK' /\ UpOK' /\ DownOK' /\ ConnsOK'
  BY <1>1, <1>6, <1>7, <1>9, <1>12, PagesSame, UpStep, DownStep, ConnsStep DEF Inv
<1>14. ServerOK'
  BY <1>1, <1>4, <1>5 DEF Inv, ServerOK
<1>15. Closed'
  BY <1>1, <1>2, <1>5, <1>8, <1>10, <1>11 DEF Inv, Closed
<1>16. Told'
  <2>1. \A x \in Tabs : Fetching(conns', x) => Fetching(conns, x)
    BY <1>11 DEF Fetching
  <2>2. \A x \in Tabs : Fetch(up'[x]) => Fetch(up[x])
    BY <1>7, <1>8
  <2>3. \A x \in Tabs : \A i : SetMain(down'[x], i) =>
          SetMain(down[x], i) /\ down'[x][i] = down[x][i]
    BY <1>10 DEF SetMain
  <2>4. OnePage => NotYet'
    BY <1>1, <1>11 DEF Inv, Told, NotYet
  <2>5. OnePage => OncePerHost'
    <3> SUFFICES ASSUME OnePage, NEW a \in conns', NEW b \in conns', a.kind = "ls",
                        b.kind = "ls", a.tab = b.tab, a.hix = b.hix
                 PROVE  a = b
      BY DEF OncePerHost
    <3>1. PICK k \in conns : /\ a.tab = k.tab /\ a.hix = k.hix /\ a.kind = k.kind
                             /\ a = IF k.tab = t THEN [k EXCEPT !.lost = TRUE] ELSE k
      BY <1>11
    <3>2. PICK l \in conns : /\ b.tab = l.tab /\ b.hix = l.hix /\ b.kind = l.kind
                             /\ b = IF l.tab = t THEN [l EXCEPT !.lost = TRUE] ELSE l
      BY <1>11
    <3>3. k = l
      <4>1. OncePerHost
        BY DEF Inv, Told
      <4>2. k.kind = "ls" /\ l.kind = "ls" /\ k.tab = l.tab /\ k.hix = l.hix
        BY <3>1, <3>2
      <4> QED BY <4>1, <4>2 DEF OncePerHost
    <3> QED BY <3>1, <3>2, <3>3
  <2> QED BY <1>1, <2>1, <2>2, <2>3, <2>4, <2>5, ToldStays, TabsOfEnv DEF Inv
<1>17. One'
  BY <1>1, SureIs DEF One
<1> QED BY <1>1, <1>13, <1>14, <1>15, <1>16, <1>17 DEF Inv

(* The server restarts.                                                    *)
LEMMA RestartInv ==
  ASSUME Inv, env' = env, Restart
  PROVE  Inv'
<1>1. /\ ~Calm /\ users' = <<>> /\ conns' = {} /\ calm' = FALSE
      /\ down' = [t \in Tabs |-> <<>>] /\ UNCHANGED <<lists, up, page>>
  BY DEF Restart, Calm
<1>2. PICK o : o = [Off EXCEPT !.state = "new"]
               /\ sock' = [t \in Tabs |-> IF sock[t].state = "off" THEN Off ELSE o]
  BY DEF Restart
<1>3. o \in Sockets /\ o.uix = 0 /\ Off \in Sockets /\ Off.uix = 0
  BY <1>2 DEF Sockets, Off
<1>4. sock' \in [Tabs -> Sockets] /\ \A t \in Tabs : sock'[t].uix = 0
  BY <1>2, <1>3
<1>5. \A t \in Tabs : DownOf(t, <<>>) /\ <<>> \in Seq(DownMsgs)
  BY DEF DownOf
<1>6. DownOK'
  BY <1>1, <1>5 DEF DownOK
<1>7. PagesOK' /\ UpOK' /\ ConnsOK'
  BY <1>1, PagesSame, UpSame, ConnsStep DEF Inv
<1>8. ServerOK'
  BY <1>1, <1>4 DEF Inv, ServerOK
<1>9. Closed'
  <2>1. \A t \in Tabs : sock[t] = Off => sock'[t] = Off
    BY <1>2 DEF Off
  <2> QED BY <1>1, <2>1 DEF Inv, Closed
<1>10. Told'
  <2>1. \A x \in Tabs : ~Fetching(conns', x) /\ \A i : ~SetMain(down'[x], i)
    BY <1>1 DEF Fetching, SetMain
  <2>2. OnePage => NotYet' /\ OncePerHost'
    BY <1>1 DEF NotYet, OncePerHost
  <2> QED BY <1>1, <2>1, <2>2, ToldStays, TabsOfEnv DEF Inv
<1>11. One'
  BY <1>1, SureIs DEF One
<1> QED BY <1>1, <1>6, <1>7, <1>8, <1>9, <1>10, <1>11 DEF Inv

-----------------------------------------------------------------------------
(* The invariant is inductive.                                             *)
LEMMA InvNext == Inv /\ [Next]_vars => Inv'
<1> SUFFICES ASSUME Inv, [Next]_vars PROVE Inv'
  OBVIOUS
<1>1. CASE UNCHANGED vars
  BY <1>1 DEF vars, Inv, PagesOK, UpOK, DownOK, ConnsOK, ServerOK, Closed, Told, One, Sure,
              OnePage, Calm, Unknowns, AskedOnce, LastSeen, LastSent, NotYet, OncePerHost
<1>2. CASE Next
  <2>1. env' = env /\ PagesOK /\ up \in [Tabs -> Seq(UpMsgs)]
    BY <1>2 DEF Next, Inv, UpOK
  <2>2. ASSUME NEW t \in Tabs, Person(t) PROVE Inv'
    BY <2>1, <2>2, PersonIs, OpenInv, EditedInv, SendsInv
  <2>3. ASSUME NEW t \in Tabs, Network(t) PROVE Inv'
    BY <2>1, <2>3, ReceiveInv, ConnectInv, ServeInv DEF Network
  <2>4. ASSUME NEW t \in Tabs, Disconnect(t) PROVE Inv'
    BY <2>1, <2>4, DisconnectInv
  <2>5. ASSUME NEW u \in Users, Load(u) PROVE Inv'
    BY <2>1, <2>5, LoadInv
  <2>6. ASSUME NEW k \in conns, Answer(k) \/ Data(k) PROVE Inv'
    BY <2>1, <2>6, AnswerIs, EndsInv, GoesInv, ArrivesInv
  <2>7. CASE Restart
    BY <2>1, <2>7, RestartInv
  <2> QED BY <1>2, <2>2, <2>3, <2>4, <2>5, <2>6, <2>7 DEF Next
<1> QED BY <1>1, <1>2

(* It holds of every behaviour.                                            *)
LEMMA InvHolds == Spec => []Inv
BY InvInit, InvNext, PTL DEF Spec

-----------------------------------------------------------------------------
(* A set of at most one element.                                           *)
LEMMA CardinalityOfOne ==
  ASSUME NEW S, AtMostOne(S)
  PROVE  (Cardinality(S) = 0 /\ S = {}) \/ (Cardinality(S) = 1 /\ S # {})
<1>1. CASE S = {}
  BY <1>1, FS_EmptySet
<1>2. CASE S # {}
  <2>1. PICK x : S = {x}
    BY <1>2 DEF AtMostOne
  <2> QED BY <2>1, FS_Singleton
<1> QED BY <1>1, <1>2

(* What the invariant says of the types.                                   *)
LEMMA InvTypeOK == Inv => TypeOK
<1> SUFFICES ASSUME Inv PROVE TypeOK
  OBVIOUS
<1>1. env \in Envs /\ \A i \in DOMAIN users : users[i] \in Users
  BY DEF Inv, ServerOK
<1>2. /\ \A u \in Users : lists[u] \in [Positions(u) -> Lists \cup {None}]
      /\ sock \in [Tabs -> [state : {"off", "new", "on", "dead"}, uix : Nat]]
  BY DEF Inv, ServerOK, MainsOf, Sockets
<1>3. ASSUME NEW t \in Tabs
      PROVE  /\ page[t].lock \in BOOLEAN /\ page[t].sent \in Nat
             /\ page[t].main \in Mains \cup {<<>>}
             /\ page[t].picked \in Targets /\ page[t].modal.meant \in Targets
  BY <1>3 DEF Inv, PagesOK, Pages, Modals
<1>4. ASSUME NEW t \in Tabs, NEW i \in DOMAIN up[t]
      PROVE  up[t][i].type \in {"get-main", "sc-command"}
  <2>1. up[t] \in Seq(UpMsgs)
    BY DEF Inv, UpOK
  <2>2. up[t][i] \in UpMsgs
    BY <2>1
  <2> QED BY <2>2 DEF UpMsgs, Orders
<1>5. ASSUME NEW t \in Tabs, NEW i \in DOMAIN down[t]
      PROVE  down[t][i].type \in {"set-main", "set-terminal", "lock"}
  <2>1. down[t] \in Seq(DownMsgs)
    BY DEF Inv, DownOK
  <2>2. down[t][i] \in DownMsgs
    BY <2>1
  <2> QED BY <2>2 DEF DownMsgs
<1>6. ASSUME NEW k \in conns
      PROVE  /\ k.user \in Users /\ k.host \in Hosts
             /\ k.ve \in Containers \cup {None} /\ k.modal.meant \in Targets
  BY TabOfConn DEF Connections, Modals
<1> QED BY <1>1, <1>2, <1>3, <1>4, <1>5, <1>6 DEF TypeOK

(* What it says of the commands of a page.                                 *)
LEMMA InvOneCommand == Inv => OneCommand
<1> SUFFICES ASSUME Inv, Calm, NEW t \in Tabs
             PROVE  /\ Cardinality(Of(t)) + Cardinality(Asked(t)) + Cardinality(Unlocks(t)) <= 1
                    /\ ~page[t].lock => Of(t) = {} /\ Asked(t) = {} /\ Unlocks(t) = {}
  BY DEF OneCommand, Calm
<1>1. OneOf(page[t].lock, Running(conns, t), Asking(up[t]), Locks(down[t]))
  BY DEF Inv, One
<1>2. Of(t) = Running(conns, t) /\ Asked(t) = Asking(up[t]) /\ Unlocks(t) = Locks(down[t])
  BY DEF Of, Running, Asked, Asking, Unlocks, Locks
<1>3. OneOf(page[t].lock, Of(t), Asked(t), Unlocks(t))
  BY <1>1, <1>2
<1>4. /\ \/ (Cardinality(Of(t)) = 0 /\ Of(t) = {})
         \/ (Cardinality(Of(t)) = 1 /\ Of(t) # {})
      /\ \/ (Cardinality(Asked(t)) = 0 /\ Asked(t) = {})
         \/ (Cardinality(Asked(t)) = 1 /\ Asked(t) # {})
      /\ (Cardinality(Unlocks(t)) = 0 /\ Unlocks(t) = {}) \/ Cardinality(Unlocks(t)) = 1
  BY <1>3, CardinalityOfOne DEF OneOf
<1>5. Cardinality(Of(t)) + Cardinality(Asked(t)) + Cardinality(Unlocks(t)) <= 1
  BY <1>3, <1>4 DEF OneOf
<1> QED BY <1>3, <1>5 DEF OneOf

(* What it says of where a command runs.                                   *)
LEMMA InvRightTarget == Inv => RightTarget
BY TabOfConn DEF RightTarget, ConnOK, Meant, Sure, Connections

(* A command of a page runs as the user its certificate names, on the host *)
(* and for the container he saw when he chose it, whatever order users,    *)
(* lists and answers arrive in, connections that are lost and restarts     *)
(* included; and a page has one command under way, while it is locked.     *)
THEOREM GuiSafe == Spec => []GuiInv
<1>1. Inv => GuiInv
  BY InvTypeOK, InvOneCommand, InvRightTarget DEF GuiInv
<1> QED BY <1>1, InvHolds, PTL

(* The menus and the dialog do not get in each other's way, and the dialog *)
(* sends what was typed since it was opened.                               *)
THEOREM DialogSafe == Spec => []DialogSound
<1>1. Inv => OneOverlay
  <2> SUFFICES ASSUME Inv, NEW t \in Tabs
               PROVE  LET d == page[t].over IN
                      /\ Cardinality(d.open) <= (IF page[t].lock THEN 0 ELSE 1)
                      /\ d.backdrops = (IF d.isShown THEN 1 ELSE 0) /\ d.modalOpen = d.isShown
                      /\ ~d.isShown => d.handlers = {}
    BY DEF OneOverlay
  <2>1. PageOK(Sure, t, page[t])
    BY DEF Inv, PagesOK
  <2>2. PICK d : d = page[t].over /\ OverlayOK(d) /\ (page[t].lock => d.open = {})
    BY <2>1 DEF PageOK
  <2>3. AtMostOne(d.open)
    BY <2>2 DEF OverlayOK, AtMostOne
  <2>4. Cardinality(d.open) <= (IF page[t].lock THEN 0 ELSE 1)
    BY <2>2, <2>3, CardinalityOfOne
  <2>5. /\ d.backdrops = (IF d.isShown THEN 1 ELSE 0) /\ d.modalOpen = d.isShown
        /\ ~d.isShown => d.handlers = {}
    BY <2>2 DEF OverlayOK
  <2> QED BY <2>2, <2>4, <2>5
<1>2. Inv => OwnArgument
  BY TabOfConn DEF OwnArgument, ConnOK, Meant, ModalOK
<1>3. Inv => DialogSound
  BY <1>1, <1>2 DEF DialogSound
<1> QED BY <1>3, InvHolds, PTL

(* A press that begins in the dialog does not hide it, wherever it ends.   *)
THEOREM DragKept == Spec => DragStays
<1> DEFINE Kept == \A t \in Tabs :
             page[t].over.press = "dialog" /\ page'[t].over.press = "none" =>
               page'[t].over.isShown = page[t].over.isShown
<1>1. Inv /\ [Next]_vars => [Kept]_page
  <2> SUFFICES ASSUME Inv, Next, page' # page PROVE Kept
    BY DEF vars
  <2>1. PICK t \in Tabs : Person(t) \/ Receive(t)
    BY DEF Next, Network, Connect, Serve, Disconnect, Load, Answer, Data, Refused, Ready,
           Broken, Close, Restart
  <2>2. PICK q : /\ page' = [page EXCEPT ![t] = q]
                 /\ page[t].over.press = "dialog" /\ q.over.press = "none" =>
                      q.over.isShown = page[t].over.isShown
    <3>1. CASE Receive(t)
      BY <3>1, ReceivePage
    <3>2. CASE Open(t)
      <4>1. page[t].over.press = "none"
        BY <3>2 DEF Open, Inv, PagesOK, PageOK, NoPage, NewOverlay
      <4> QED BY <3>2, <4>1 DEF Open
    <3>3. CASE Edited(t)
      BY <3>3 DEF Edited
    <3>4. CASE Sends(t)
      BY <3>4 DEF Sends, Ordered
    <3> QED BY <2>1, <3>1, <3>2, <3>3, <3>4, PersonIs DEF Inv, UpOK
  <2> QED BY <2>2 DEF Inv, PagesOK
<1>2. Spec => [][Kept]_page
  BY <1>1, InvHolds, PTL DEF Spec
<1> QED BY <1>2 DEF DragStays
=============================================================================
