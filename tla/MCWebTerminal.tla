---------------------------- MODULE MCWebTerminal ----------------------------
(* Module WebTerminal with a window of two or three rows.  A selection whose *)
(* rows the shell moves is not among the themes.                             *)
EXTENDS WebTerminal

Theme(out, act, max) ==
  [slow |-> max.losses > 0, outputs |-> out, actions |-> act, max |-> max,
   presses |-> {}, modes |-> {}, changes |-> {}, stored |-> <<>>,
   programs |-> {}, blinks |-> {FALSE}]

Key(key, mods) == [key |-> key, shift |-> "shift" \in mods, ctrl |-> "ctrl" \in mods,
                   alt |-> "alt" \in mods, meta |-> FALSE, selected |-> FALSE]
Keying(t, presses) == [t EXCEPT !.presses = presses]
Scrolling == {Key("pgup", {"shift"}), Key("pgdown", {"shift"}), Key("home", {"shift"}),
              Key("q", {}), Key("k", {"shift", "ctrl"}), Key("minus", {"ctrl"})}

Bounds(o, a, r, l, c) == [outputs |-> o, actions |-> a, resizes |-> r, losses |-> l, changes |-> c]

Changes == {<<"altSendsWhat", "8-bit">>, <<"altSendsWhat", Unset>>, <<"scrollOnOutput", "true">>,
            <<"pageKeysScroll", "true">>, <<"altGrMode", "none">>, <<"ctrlCCopy", Unset>>,
            <<"scrollOnKeystroke", "false">>, <<"backspaceSendsBackspace", "true">>}

Setting(act, modes, max) ==
  [Theme({"text"}, act, max)
     EXCEPT !.modes = modes, !.changes = Changes,
            !.presses = {Key("q", {}), Key("up", {"alt"}), Key("pgup", {"shift"})},
            !.stored = [altSendsWhat |-> "browser-key", ctrlCCopy |-> "true"]]

Pointing(t, programs, blinks) == [t EXCEPT !.programs = programs, !.blinks = blinks]

MCThemes ==
  {Theme({"text", "line", "insert", "delete", "home", "alternate", "primary"}, {}, Bounds(3, 0, 0, 0, 0)),
   Theme({"text", "line", "insert", "delete", "alternate"}, {}, Bounds(2, 0, 1, 0, 0)),
   Keying(Theme({"text", "line"}, {"wheel", "press"}, Bounds(2, 2, 0, 0, 0)), Scrolling),
   Keying(Theme({"text", "line"}, {"wheel", "press"}, Bounds(2, 1, 1, 0, 0)), Scrolling),
   Theme({"line", "alternate"}, {"select", "wheel"}, Bounds(2, 2, 0, 0, 0)),
   Theme({"line"}, {"select", "wheel"}, Bounds(1, 1, 1, 0, 0)),
   Theme({"line", "clipboard"}, {"select", "extend", "wheel", "copy"}, Bounds(2, 4, 0, 0, 0)),
   Pointing(Theme({}, {"mouse", "wheel"}, Bounds(2, 5, 0, 0, 0)), {"mouse", "reset"}, {FALSE}),
   Pointing(Theme({}, {"focus"}, Bounds(3, 2, 0, 1, 1)), {"cursor", "reset"}, BOOLEAN),
   Theme({"line"}, {}, Bounds(1, 0, 1, 2, 0)),
   Setting({}, {"67", "1039"}, Bounds(2, 0, 0, 0, 2)),
   Setting({}, {"1039"}, Bounds(1, 0, 0, 1, 1)),
   Setting({"press", "alt"}, {"1", "1039"}, Bounds(1, 2, 0, 0, 1)),
   Setting({"alt"}, {}, Bounds(0, 4, 0, 0, 0))}
=============================================================================
