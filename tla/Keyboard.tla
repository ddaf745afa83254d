------------------------------- MODULE Keyboard -------------------------------
(* hterm.Keyboard and its KeyMap (js/hterm_all.js): what a key does, by the  *)
(* settings of the user and the modes a program has set.  What is sent is    *)
(* given by its form: a control sequence with its number, its final letter   *)
(* and the parameter for modifiers, ESC O and a letter, a control character, *)
(* a character, or one with the high bit; esc says that ESC comes before it. *)
(* The keys that differ in nothing but their character are one key here.     *)
(* The second part is the preferences that set the keyboard.                 *)
EXTENDS Integers, Sequences

Act(form) == [form |-> form, n |-> 0, c |-> "", mod |-> 1, esc |-> FALSE]
PASS    == Act("PASS")
CANCEL  == Act("CANCEL")
DEFAULT == Act("DEFAULT")
STRIP   == Act("STRIP")
CSI(n, c) == [Act("CSI") EXCEPT !.n = n, !.c = c]
SS3(c)  == [Act("SS3") EXCEPT !.c = c]
Ctl(c)  == [Act("CTL") EXCEPT !.c = c]
Char(c) == [Act("CHAR") EXCEPT !.c = c]
(* What the key does to the page.                                            *)
Do(what) == [Act("CANCEL") EXCEPT !.c = what]

(* What the terminal is made with.  The fields that preferences set have the *)
(* preferences' values: "true", "false" or what else they allow.             *)
NewKeyboard ==
  [altGrMode |-> "none", shiftInsertPaste |-> "true", homeKeysScroll |-> "false",
   pageKeysScroll |-> "false", ctrlPlusMinusZeroZoom |-> "true", ctrlCCopy |-> "false",
   ctrlVPaste |-> "false", backspaceSendsBackspace |-> "false", metaSendsEscape |-> "true",
   passMetaV |-> "true", altSendsWhat |-> "escape", altIsMeta |-> "false",
   altBackspaceIsMetaBackspace |-> "false", mediaKeysAreFKeys |-> "false",
   passAltNumber |-> "null", passCtrlNumber |-> "null", passMetaNumber |-> "null",
   scrollOnKeystroke |-> "null", scrollOnOutput |-> "null",
   applicationCursor |-> FALSE, previousAltSendsWhat |-> "null", altKeyPressed |-> {}]

On(kb, field) == kb[field] \notin {"false", "null", ""}

-----------------------------------------------------------------------------
(* The table of keys.                                                        *)

FunctionKeys  == <<"F1", "F2", "F3", "F4", "F5", "F6", "F7", "F8", "F9", "F10", "F11", "F12">>
FunctionFirst == <<"P", "Q", "R", "S">>
FunctionCode  == <<0, 0, 0, 0, 15, 17, 18, 19, 20, 21, 23, 24>>
FunctionAlt   == <<23, 24, 25, 26, 28, 29, 31, 32, 33, 34, 42, 43>>
Cursors == [up |-> "A", down |-> "B", right |-> "C", left |-> "D"]
Edits   == [insert |-> 2, del |-> 3, pgup |-> 5, pgdown |-> 6]
Ends    == [home |-> "H", end |-> "F"]
Digits  == [two |-> "@", three |-> "[", six |-> "^", eight |-> "?"]
Zooms   == {"zero", "minus", "plus"}
Letters == {"q", "j", "k", "c", "v", "b", "n"}
Marks   == {";", ",", "/", "grave", " "}
Specials == {"esc", "bksp", "tab", "enter", "caps", "kp0", "back", "fscr"}
Keys == {FunctionKeys[i] : i \in DOMAIN FunctionKeys} \union DOMAIN Cursors \union DOMAIN Edits
          \union DOMAIN Ends \union DOMAIN Digits \union Zooms \union Letters \union Marks \union Specials

(* KeyCap has two characters, one for a space, or a name in brackets.        *)
HasCharacters(key) == key \in DOMAIN Digits \union Zooms \union Letters \union Marks
Cap(key, shift) ==
  IF HasCharacters(key) THEN [Char(key) EXCEPT !.n = IF shift THEN 1 ELSE 0]
  ELSE [Char("[") EXCEPT !.n = IF shift THEN 1 ELSE 0]

Modified(e) == e.shift \/ e.ctrl \/ e.alt \/ e.meta

(* Copying and pasting are the browser's; what clearSelectionAfterCopy does  *)
(* 50 ms after a copy is a step of its own, Collapse of WebTerminal.         *)
CtrlC(kb, e) ==
  IF e.selected /\ On(kb, "ctrlCCopy") /\ ~e.shift THEN PASS
  ELSE IF e.selected /\ ~On(kb, "ctrlCCopy") /\ e.shift THEN Do("copy") ELSE Ctl("C")
CtrlV(kb, e) == IF e.shift # On(kb, "ctrlVPaste") THEN PASS ELSE Ctl("V")
MetaC(kb, e) == IF e.shift \/ ~e.selected THEN Cap("c", e.shift) ELSE PASS
MetaV(kb, e) == IF e.shift \/ On(kb, "passMetaV") THEN PASS ELSE DEFAULT
Window(e, else) == IF e.shift THEN Do("window") ELSE else

PlusMinusZero(kb, e) ==
  IF On(kb, "ctrlPlusMinusZeroZoom") = e.shift
  THEN IF e.key = "minus" THEN Ctl("_") ELSE CANCEL
  ELSE Do("font")

(* The ends of a line: e.altey is a misspelt field, never set.               *)
KeyEnd(kb, e) ==
  IF On(kb, "homeKeysScroll") = e.shift
  THEN IF (e.alt /\ e.key = "end") \/ e.ctrl \/ e.shift \/ ~kb.applicationCursor
       THEN CSI(0, Ends[e.key]) ELSE SS3(Ends[e.key])
  ELSE Do(e.key)

KeyPage(kb, e) ==
  IF On(kb, "pageKeysScroll") = e.shift THEN CSI(Edits[e.key], "~") ELSE Do(e.key)

KeyDel(kb, e) ==
  IF On(kb, "altBackspaceIsMetaBackspace") /\ kb.altKeyPressed # {} /\ ~e.alt
  THEN [Ctl("?") EXCEPT !.esc = TRUE] ELSE CSI(3, "~")

(* Media keys where they are not function keys: [BACK] is of no use.         *)
Media(kb, e, act) ==
  IF On(kb, "mediaKeysAreFKeys") THEN act ELSE IF e.key = "back" THEN CANCEL ELSE PASS

Backspace(kb, plain) == Ctl(IF On(kb, "backspaceSendsBackspace") # plain THEN "?" ELSE "H")

(* The columns of the table.                                                 *)
Normal(kb, e) ==
  LET key == e.key
      i == CHOOSE j \in DOMAIN FunctionKeys : FunctionKeys[j] = key
      first(c) == IF Modified(e) THEN CSI(0, c) ELSE SS3(c)
  IN  CASE key \in {FunctionKeys[j] : j \in DOMAIN FunctionKeys} ->
             IF i <= 4 THEN first(FunctionFirst[i]) ELSE CSI(FunctionCode[i], "~")
        [] key \in DOMAIN Cursors ->
             IF Modified(e) \/ ~kb.applicationCursor THEN CSI(0, Cursors[key]) ELSE SS3(Cursors[key])
        [] key \in DOMAIN Ends -> KeyEnd(kb, e)
        [] key \in {"pgup", "pgdown"} -> KeyPage(kb, e)
        [] key = "insert" -> IF On(kb, "shiftInsertPaste") /\ e.shift THEN PASS ELSE CSI(2, "~")
        [] key = "del"   -> KeyDel(kb, e)
        [] key = "esc"   -> Ctl("[")
        [] key = "bksp"  -> Backspace(kb, TRUE)
        [] key = "tab"   -> IF e.shift THEN CSI(0, "Z") ELSE Ctl("I")
        [] key = "enter" -> Ctl("M")
        [] key = "caps"  -> PASS
        [] key = "back"  -> Media(kb, e, first("P"))
        [] key = "fscr"  -> Media(kb, e, first("S"))
        [] OTHER         -> DEFAULT

Control(kb, e) ==
  LET key == e.key
  IN  CASE key \in {"two", "three", "six", "eight"} ->
             IF On(kb, "passCtrlNumber") /\ ~e.shift THEN PASS ELSE Ctl(Digits[key])
        [] key \in Zooms -> PlusMinusZero(kb, e)
        [] key = "q"     -> Ctl("Q")
        [] key = "j"     -> IF e.shift THEN PASS ELSE Ctl("J")
        [] key = "b"     -> IF e.shift THEN PASS ELSE Ctl("B")
        [] key = "k"     -> IF e.shift THEN Do("wipe") ELSE Ctl("K")
        [] key = "c"     -> CtrlC(kb, e)
        [] key = "v"     -> CtrlV(kb, e)
        [] key = "n"     -> Window(e, Ctl("N"))
        [] key = "grave"     -> Ctl(IF e.shift THEN "^" ELSE "@")
        [] key = " "     -> Ctl("@")
        [] key = "/"     -> IF e.shift THEN Char("U+FFFF") ELSE Ctl("_")
        [] key = ","     -> IF e.alt THEN PASS ELSE STRIP
        [] key \in {";", "tab"} -> STRIP
        [] key = "bksp"  -> Backspace(kb, FALSE)
        [] key = "enter" -> CANCEL
        [] key = "caps"  -> PASS
        [] OTHER         -> DEFAULT

Alt(kb, e) ==
  LET key == e.key
      i == CHOOSE j \in DOMAIN FunctionKeys : FunctionKeys[j] = key
  IN  CASE key \in {FunctionKeys[j] : j \in DOMAIN FunctionKeys} -> CSI(FunctionAlt[i], "~")
        [] key \in DOMAIN Digits \union {"zero"} ->
             IF On(kb, "passAltNumber") /\ ~e.shift THEN PASS ELSE DEFAULT
        [] key = "enter" -> CANCEL
        [] key \in {"tab", "caps"} -> PASS
        [] key = "back"  -> CSI(23, "~")
        [] key = "fscr"  -> CSI(26, "~")
        [] OTHER         -> DEFAULT

Meta(kb, e) ==
  LET key == e.key
  IN  CASE key \in DOMAIN Digits -> IF On(kb, "passMetaNumber") /\ ~e.shift THEN PASS ELSE DEFAULT
        [] key \in Zooms -> PlusMinusZero(kb, e)
        [] key = "grave"     -> PASS
        [] key = "b"     -> IF e.shift THEN PASS ELSE DEFAULT
        [] key = "c"     -> MetaC(kb, e)
        [] key = "v"     -> MetaV(kb, e)
        [] key = "n"     -> Window(e, DEFAULT)
        [] OTHER         -> DEFAULT

-----------------------------------------------------------------------------
(* A key goes down.                                                          *)

(* Bits for the alt keys that are down.                                      *)
AltDown(kb, side) == [kb EXCEPT !.altKeyPressed = @ \union {side}]
AltUp(kb, side)   == [kb EXCEPT !.altKeyPressed = @ \ {side}]

Blur(kb)          == [kb EXCEPT !.altKeyPressed = {}]

(* With AltGr a key gives its third character, not what alt and ctrl do.     *)
AltGr(kb, e) ==
  /\ HasCharacters(e.key)
  /\ CASE kb.altGrMode = "ctrl-alt"  -> e.ctrl /\ e.alt /\ ~On(kb, "altIsMeta")
       [] kb.altGrMode = "right-alt" -> "right" \in kb.altKeyPressed
       [] kb.altGrMode = "left-alt"  -> "left" \in kb.altKeyPressed
       [] OTHER                      -> FALSE

(* Mutant: alt is looked at without control.                                 *)
ModParameterFirst(shift, alt, ctrl) ==
  CASE shift /\ ~(alt \/ ctrl) -> 2
    [] alt /\ ~shift            -> 3
    [] shift /\ alt             -> 4
    [] ctrl /\ ~(shift \/ alt)  -> 5
    [] shift /\ ctrl            -> 6
    [] OTHER                    -> 1

(* What a mod parameter says: 1 for none, and the sum of 1, 2 and 4.         *)
ModParameter(shift, alt, ctrl) ==
  CASE shift /\ ~(alt \/ ctrl)  -> 2
    [] alt /\ ~(shift \/ ctrl)  -> 3
    [] shift /\ alt /\ ~ctrl    -> 4
    [] ctrl /\ ~(shift \/ alt)  -> 5
    [] shift /\ ctrl /\ ~alt    -> 6
    [] alt /\ ctrl /\ ~shift    -> 7
    [] shift /\ alt /\ ctrl     -> 8
    [] OTHER                    -> 1

(* Sh hides shift from what follows, whichever it chose.                     *)
MasksShift(e, column) ==
  \/ e.key = "tab" /\ column \in {"normal", "strip"}
  \/ e.key \in {"grave", "j", "k", "/"} /\ column = "control"
  \/ e.key = "b" /\ column \in {"control", "meta"}

(* What is sent for an action when nothing hides it from the terminal.       *)
Sent(kb, e, act, column, ctrl, alt, meta) ==
  LET shift == e.shift /\ ~MasksShift(e, column)
      plain == IF act # DEFAULT THEN act
               ELSE IF ctrl /\ ~HasCharacters(e.key) THEN Ctl("[") ELSE Cap(e.key, e.shift)
      eighth == IF alt /\ kb.altSendsWhat = "8-bit" /\ plain.form \in {"CTL", "CHAR"} /\ ~plain.esc
                THEN [plain EXCEPT !.form = "8BIT"] ELSE plain
  IN  IF act.form = "CSI" /\ (alt \/ ctrl \/ shift)
      THEN [act EXCEPT !.mod = ModParameter(shift, alt, ctrl)]
      ELSE [eighth EXCEPT !.esc = @ \/ (alt /\ kb.altSendsWhat = "escape")
                                    \/ (meta /\ On(kb, "metaSendsEscape"))]

OnKeyDown(kb, e) ==
  LET isMeta == On(kb, "altIsMeta")
      gr == AltGr(kb, e)
      ctrl == e.ctrl /\ ~gr
      alt == e.alt /\ ~isMeta /\ ~gr
      meta == e.meta \/ (isMeta /\ e.alt)
      asked == IF ctrl THEN "control" ELSE IF alt THEN "alt" ELSE IF meta THEN "meta" ELSE "normal"
      own == CASE asked = "control" -> Control(kb, e)
               [] asked = "alt"     -> Alt(kb, e)
               [] asked = "meta"    -> Meta(kb, e)
               [] OTHER             -> Normal(kb, e)
      column == IF own = DEFAULT THEN "normal" ELSE asked
      act == IF own = DEFAULT THEN Normal(kb, e) ELSE own
      passed == (alt /\ kb.altSendsWhat = "browser-key" /\ act = DEFAULT)
                  \/ act = PASS \/ (act = DEFAULT /\ ~(ctrl \/ alt \/ meta))
      stripped == IF HasCharacters(e.key) THEN Cap(e.key, e.shift) ELSE Normal(kb, e)
  IN  IF passed THEN PASS
      ELSE IF act = STRIP THEN Sent(kb, e, stripped, "strip", FALSE, FALSE, meta)
      ELSE IF act.form = "CANCEL" THEN act
      ELSE Sent(kb, e, act, column, ctrl /\ column # "control", alt /\ column # "alt",
                meta /\ column # "meta")

(* String.fromCharCode of a key's own character: it is taken for a number.   *)
FromCharCode(key) ==
  LET codes == [two |-> "B", three |-> "C", six |-> "F", eight |-> "H"]
  IN  Ctl(IF key \in DOMAIN codes THEN codes[key] ELSE "@")

(* What the browser was left to make of it comes back as a character, if it  *)
(* is one (onKeyPress_).  With alt, where it made none, the character with   *)
(* the high bit is made, and not used: a control character is sent.          *)
OnKeyPress(kb, e, charCode) ==
  IF (e.ctrl \/ e.meta) /\ e.key \in {"c", "v"} THEN PASS
  ELSE IF e.alt /\ kb.altSendsWhat = "browser-key" /\ ~charCode THEN FromCharCode(e.key)
  ELSE IF charCode THEN Cap(e.key, e.shift) ELSE CANCEL

(* A program sets a mode of the keyboard: DECCKM, DECBKM, 1036 and 1039.     *)
SetKeyboardMode(kb, mode, state) ==
  LET text == IF state THEN "true" ELSE "false"
  IN  CASE mode = "1"    -> [kb EXCEPT !.applicationCursor = state]
        [] mode = "67"   -> [kb EXCEPT !.backspaceSendsBackspace = text]
        [] mode = "1036" -> [kb EXCEPT !.metaSendsEscape = text]
        [] mode = "1039" ->
             IF state /\ kb.previousAltSendsWhat = "null"
             THEN [kb EXCEPT !.previousAltSendsWhat = kb.altSendsWhat, !.altSendsWhat = "escape"]
             ELSE IF ~state /\ kb.previousAltSendsWhat # "null"
             THEN [kb EXCEPT !.altSendsWhat = kb.previousAltSendsWhat, !.previousAltSendsWhat = "null"]
             ELSE kb

-------------------------------------------------------------------------------
(* lib.PreferenceManager on lib.Storage.Local, as hterm.Terminal.setProfile  *)
(* uses them: what is stored in the browser for all its pages, what the      *)
(* manager of the terminal on this page holds of it, the timers and storage  *)
(* events between the two, and the observers that set the keyboard.          *)

(* No value of its own: DEFAULT_VALUE in a record, no item in the storage.   *)
Unset == "undefined"

(* What hterm.PreferenceManager defines for the keyboard and for scrolling.  *)
Defaults ==
  [altGrMode |-> "null", shiftInsertPaste |-> "true", homeKeysScroll |-> "false",
   pageKeysScroll |-> "false", ctrlPlusMinusZeroZoom |-> "true", ctrlCCopy |-> "false",
   ctrlVPaste |-> "false", backspaceSendsBackspace |-> "false", metaSendsEscape |-> "true",
   passMetaV |-> "true", altSendsWhat |-> "escape", altIsMeta |-> "false",
   altBackspaceIsMetaBackspace |-> "false", mediaKeysAreFKeys |-> "false",
   passAltNumber |-> "null", passCtrlNumber |-> "null", passMetaNumber |-> "null",
   scrollOnKeystroke |-> "true", scrollOnOutput |-> "false"]
Names == DOMAIN Defaults

(* The three that js/wetty.js sets after it has made a terminal and that     *)
(* concern this model; the default window copy is not about the keyboard.    *)
WettySets == <<"ctrlCCopy", "ctrlVPaste">>

(* What the observer of setProfile makes of a value, in a browser that is    *)
(* not on OS X and speaks another language than American English.            *)
Observed(name, value) ==
  CASE name = "altGrMode" ->
         IF value = "null" THEN "right-alt"
         ELSE IF value \in {"ctrl-alt", "left-alt", "right-alt"} THEN value ELSE "none"
    [] name = "altSendsWhat" -> IF value \in {"8-bit", "browser-key"} THEN value ELSE "escape"
    [] name \in {"passAltNumber", "passCtrlNumber"} -> IF value = "null" THEN "true" ELSE value
    [] name = "passMetaNumber" -> IF value = "null" THEN "false" ELSE value
    [] OTHER -> value

(* A manager knows neither null nor a list as the same as another.           *)
Diff(a, b) == a # b \/ a = "null"

(* The preferences of a page: queue has the timers of the manager, in order, *)
(* events the storage events on their way to the page, and overridden the    *)
(* fields of the keyboard that a program has set since an observer did.      *)
NoPreferences(stored) ==
  [stored |-> stored, current |-> [n \in Names |-> Unset], queue |-> <<>>, events |-> <<>>,
   keyboard |-> NewKeyboard, overridden |-> {}]

Get(s, name) == IF s.current[name] = Unset THEN Defaults[name] ELSE s.current[name]

NotifyChange(s, name) ==
  [s EXCEPT !.keyboard[name] = Observed(name, Get(s, name)), !.overridden = @ \ {name}]

NotifyAll(s) ==
  [s EXCEPT !.keyboard = [f \in DOMAIN @ |-> IF f \in Names THEN Observed(f, Get(s, f)) ELSE @[f]],
            !.overridden = {}]

(* A value that is the default takes the item out of the storage.            *)
Set(s, name, value) ==
  LET own == IF Diff(Defaults[name], value) THEN value ELSE Unset
  IN  IF ~Diff(Get(s, name), value) THEN s
      ELSE [s EXCEPT !.current[name] = own, !.stored[name] = own,
                     !.queue = Append(@, [do |-> "notify", name |-> name, items |-> <<>>])]

(* The storage is read at once, and what was read given back by a timer.     *)
ReadStorage(s) ==
  [s EXCEPT !.queue = Append(@, [do |-> "items", name |-> "", items |-> s.stored])]

(* A new terminal: a new manager, that reads, and what wetty.js then sets.   *)
SetProfile(s) ==
  LET new == [NoPreferences(s.stored) EXCEPT !.events = s.events]
  IN  Set(Set(ReadStorage(new), WettySets[1], "true"), WettySets[2], "true")

RunTimer(s, timer) ==
  CASE timer.do = "items" ->
         [s EXCEPT !.current = [n \in Names |-> IF timer.items[n] = Unset THEN @[n] ELSE timer.items[n]],
                   !.queue = Append(@, [do |-> "ready", name |-> "", items |-> <<>>])]
    [] timer.do = "ready"  -> NotifyAll(s)
    [] timer.do = "notify" -> NotifyChange(s, timer.name)

Tick(s) == RunTimer([s EXCEPT !.queue = Tail(@)], Head(s.queue))

(* Another page of the browser stores a value or removes it; the event comes *)
(* where the item has changed.                                               *)
StoredElsewhere(s, name, value) ==
  [s EXCEPT !.stored[name] = value,
            !.events = Append(@, [name |-> name, value |-> value])]

(* Mutant: the observers are not told.                                       *)
OnStorageQuiet(s) ==
  LET event == Head(s.events)
  IN  [s EXCEPT !.events = Tail(@), !.current[event.name] = event.value]

(* Local.onStorage_ says "" of an item that was removed, and the manager     *)
(* takes it for a value; only Unset would be none.                           *)
OnStorage(s) ==
  LET event == Head(s.events)
      value == IF event.value = Unset THEN "" ELSE event.value
      q == [s EXCEPT !.events = Tail(@)]
  IN  IF Diff(s.current[event.name], value)
      THEN NotifyChange([q EXCEPT !.current[event.name] = value], event.name) ELSE q

(* A program sets a mode of the keyboard.                                    *)
Program(s, mode, state) ==
  LET field == CASE mode = "67" -> {"backspaceSendsBackspace"}
                 [] mode = "1036" -> {"metaSendsEscape"}
                 [] mode = "1039" -> {"altSendsWhat"}
                 [] OTHER -> {}
      restored == mode = "1039" /\ ~state
  IN  [s EXCEPT !.keyboard = SetKeyboardMode(@, mode, state),
                !.overridden = IF restored THEN @ \ field ELSE @ \union field]
=============================================================================
