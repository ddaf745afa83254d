------------------------------- MODULE HtermVT -------------------------------
(* hterm.VT (js/hterm_all.js): the parser of what a program writes.  The     *)
(* parser keeps a function and its arguments from one piece of the output to *)
(* the next; what it recognises it does to the terminal of HtermTerminal.    *)
(* Here both are one record, m.  Control characters have names ("ESC"); an   *)
(* argument is the sequence of its digits.                                   *)
EXTENDS HtermTerminal

CONSTANT MaxString    \* maxStringSequence
ASSUME MaxStringAssumption == MaxString \in Nat \ {0}

Digits == {"0", "1", "2", "3", "4", "5", "6", "7", "8", "9"}
Digit(ch) == CHOOSE d \in 0..9 : ToString(d) = ch
Num(arg) == FoldLeft(LAMBDA n, ch : 10 * n + Digit(ch), 0, arg)

Intermediates == {" ", "!", "$", "'", "*", "?", ">"}
Finals == {"@", "A", "B", "C", "D", "E", "F", "G", "H", "I", "J", "K", "L", "M", "P",
           "S", "T", "W", "X", "Z", "hpa", "a", "b", "c", "d", "f", "g", "h", "i", "l", "m",
           "n", "p", "q", "r", "s", "t", "u", "v", "w", "x", "z", "\\", "]", "[", "^"}
Controls == {"NUL", "ENQ", "BEL", "BS", "HT", "LF", "VT", "FF", "CR", "SO", "SI", "DC1",
             "CAN", "SUB", "ESC", "DEL", "C1"}

(* The character sets: "0" draws lines with the letter q.                    *)
CharacterMaps == {"B", "0"}
MapString(map, str) ==
  [i \in DOMAIN str |-> IF map = "0" /\ str[i] = "q" THEN "-" ELSE str[i]]

Sets == [G0 |-> "B", G1 |-> "0", G2 |-> "B", G3 |-> "B"]

CursorState(m) ==
  [cursor |-> SaveCursor(m), style |-> Screen(m).style, GL |-> m.GL, sets |-> m.sets]

Save(m) == [m EXCEPT !.saved = CursorState(m)]
Restore(m) ==
  [On(RestoreCursor(m, m.saved.cursor), LAMBDA s : [s EXCEPT !.style = m.saved.style])
     EXCEPT !.GL = m.saved.GL, !.sets = m.saved.sets]

NewVT(columns) ==
  LET t == NewTerminal(columns)
      parser == [func |-> "unknown", code |-> "", args |-> <<>>, lead |-> <<>>, trail |-> <<>>,
                 GL |-> "G0", sets |-> Sets, modes |-> {}, mouse |-> "off",
                 saved |-> [cursor |-> SaveCursor(t), style |-> Style({}), GL |-> "G0", sets |-> Sets]]
  IN  parser @@ t

ResetVT(m) ==
  LET sets == [m EXCEPT !.GL = "G0", !.sets = Sets, !.mouse = "off"]
  IN  Save(sets)

(* Terminal.reset: the parser is set back when the screens are clear, and    *)
(* what it saves then is a cursor at home.                                   *)
Reset(m) == SoftReset(ResetVT(ResetScreens(m)))

(* The string goes to the program as if it had been typed.                   *)
Reply(m, str) == [m EXCEPT !.sent = Append(@, str)]

-----------------------------------------------------------------------------
(* Modes.                                                                    *)

SetANSIMode(m, code, state) ==
  IF code = 4 THEN SetOption(m, "insertMode", state)
  ELSE IF code = 20 THEN SetOption(m, "autoCarriageReturn", state)
  ELSE m

(* Flags of the keyboard, of the colours and of scrolling.                   *)
FlagModes == {1, 5, 40, 67, 1010, 1011, 1036, 1039, 2004}

(* 1048 falls through to 1049.                                               *)
SetDECMode(m, code, state) ==
  CASE code \in FlagModes -> [m EXCEPT !.modes = IF state THEN @ \cup {code} ELSE @ \ {code}]
    [] code = 6 -> SetOriginMode(m, state)
    [] code = 7 -> SetOption(m, "wraparound", state)
    [] code = 25 -> SetOption(m, "cursorVisible", state)
    [] code = 45 -> SetOption(m, "reverseWraparound", state)
    [] code = 1000 -> [m EXCEPT !.mouse = IF state THEN "click" ELSE "off"]
    [] code = 1002 -> [m EXCEPT !.mouse = IF state THEN "drag" ELSE "off"]
    [] code \in {47, 1047} -> SetAlternateMode(m, state)
    [] code \in {1048, 1049} ->
         IF state THEN Clear(SetAlternateMode(Save(m), TRUE))
         ELSE Restore(SetAlternateMode(IF code = 1048 THEN Save(m) ELSE m, FALSE))
    [] OTHER -> m

SetModes(m, dec, state) ==
  FoldLeft(LAMBDA n, arg : IF dec THEN SetDECMode(n, Num(arg), state)
                                  ELSE SetANSIMode(n, Num(arg), state),
           m, m.args)

(* Of the attributes those of module HtermScreen: bold, and a background of  *)
(* one argument.                                                             *)
SelectRendition(attr, code) ==
  CASE code = 0 -> {}
    [] code = 1 -> attr \cup {"bold"}
    [] code = 22 -> attr \ {"bold"}
    [] code \in 40..47 -> attr \cup {"back"}
    [] code = 49 -> attr \ {"back"}
    [] OTHER -> attr

CharacterAttributes(m) ==
  On(m, LAMBDA s : [s EXCEPT !.style.attr =
                      IF m.args = <<>> THEN {}
                      ELSE FoldLeft(LAMBDA attr, arg : SelectRendition(attr, Num(arg)), @, m.args)])

-----------------------------------------------------------------------------
(* Control sequences.                                                        *)

Arg(m, i) == IF i <= Len(m.args) THEN m.args[i] ELSE <<>>
IArg(m, i, default) == IF Num(Arg(m, i)) = 0 THEN default ELSE Num(Arg(m, i))

CsiCursor(m, ch) ==
  LET n == IArg(m, 1, 1)
  IN  CASE ch = "A" -> CursorUp(m, n)
        [] ch = "B" -> CursorDown(m, n)
        [] ch = "C" -> CursorRight(m, n)
        [] ch = "D" -> CursorLeft(m, n)
        [] ch = "E" -> SetCursorColumn(CursorDown(m, n), 0)
        [] ch = "F" -> SetCursorColumn(CursorUp(m, n), 0)
        [] ch \in {"G", "hpa"} -> SetCursorColumn(m, n - 1)
        [] ch \in {"H", "f"} -> SetPosition(m, n - 1, IArg(m, 2, 1) - 1)
        [] ch = "d" -> SetCursorRow(m, n - 1)

CsiTabs(m, ch) ==
  LET count == Clamp(IArg(m, 1, 1), 1, m.width)
      Many(Tab(_)) == FoldLeft(LAMBDA n, i : Tab(n), m, Ints(1, count))
  IN  CASE ch = "I" -> Many(ForwardTabStop)
        [] ch = "Z" -> Many(BackwardTabStop)
        [] ch = "g" -> IF Arg(m, 1) \in {<<>>, <<"0">>} THEN ClearTabStopAtCursor(m)
                       ELSE IF Arg(m, 1) = <<"3">> THEN ClearAllTabStops(m)
                       ELSE m

(* 3, which should take the scrollback away, is taken for 2.                 *)
EraseInDisplay(m) ==
  LET arg == Arg(m, 1)
  IN  CASE arg \in {<<>>, <<"0">>} -> EraseBelow(m)
        [] arg = <<"1">> -> EraseAbove(m)
        [] arg \in {<<"2">>, <<"3">>} -> Clear(m)
        [] OTHER -> m

EraseInLine(m) ==
  LET arg == Arg(m, 1)
  IN  CASE arg \in {<<>>, <<"0">>} -> EraseToRight(m, 0)
        [] arg = <<"1">> -> EraseToLeft(m)
        [] arg = <<"2">> -> EraseLine(m)
        [] OTHER -> m

CsiText(m, ch) ==
  LET n == IArg(m, 1, 1)
  IN  CASE ch = "@" -> InsertSpace(m, n)
        [] ch = "L" -> InsertLines(m, n)
        [] ch = "M" -> DeleteLines(m, n)
        [] ch = "P" -> DeleteCharsHere(m, n)
        [] ch = "S" -> VTScrollUp(m, n)
        [] ch = "T" -> IF Len(m.args) <= 1 THEN VTScrollDown(m, n) ELSE m
        [] ch = "X" -> EraseToRight(m, n)

DeviceStatus(m) ==
  CASE Arg(m, 1) = <<"5">> -> Reply(m, <<"ok">>)
    [] Arg(m, 1) = <<"6">> -> Reply(m, <<"cursor", Row(m) + 1, Column(m) + 1>>)
    [] OTHER -> m

DeviceAttributes(m) == IF Arg(m, 1) \in {<<>>, <<"0">>} THEN Reply(m, <<"vt100">>) ELSE m

SetScrollingRegion(m) ==
  LET Line(arg) == IF arg = <<>> THEN None ELSE Num(arg) - 1
  IN  SetPosition(SetVTScrollRegion(m, Line(Arg(m, 1)), Line(Arg(m, 2))), 0, 0)

CsiRest(m, ch) ==
  CASE ch = "c" -> DeviceAttributes(m)
    [] ch = "m" -> CharacterAttributes(m)
    [] ch = "n" -> DeviceStatus(m)
    [] ch = "r" -> SetScrollingRegion(m)
    [] ch = "s" -> Save(m)
    [] ch = "u" -> Restore(m)
    [] OTHER -> m

(* Those with the same letter that a leading "?" makes private.              *)
CsiPrivate(m, ch, private) ==
  CASE ch \in {"h", "l"} -> SetModes(m, private, ch = "h")
    [] ch = "J" -> EraseInDisplay(m)
    [] ch = "K" -> EraseInLine(m)

(* With a leading or a trailing character.                                   *)
CsiModified(m, code) ==
  CASE code = <<"?", "n">> -> IF Arg(m, 1) = <<"6">> THEN DeviceStatus(m) ELSE m
    [] code = <<"!", "p">> -> SoftReset(ResetVT(m))
    [] OTHER -> m

CsiPlain(m, ch) ==
  CASE ch \in {"A", "B", "C", "D", "E", "F", "G", "hpa", "H", "f", "d"} -> CsiCursor(m, ch)
    [] ch \in {"I", "Z", "g"} -> CsiTabs(m, ch)
    [] ch \in {"@", "L", "M", "P", "S", "T", "X"} -> CsiText(m, ch)
    [] OTHER -> CsiRest(m, ch)

Csi(m, ch) ==
  LET modifier == m.lead \o m.trail
  IN  IF ch \in {"h", "l", "J", "K"} /\ modifier \in {<<>>, <<"?">>}
      THEN CsiPrivate(m, ch, modifier # <<>>)
      ELSE IF modifier # <<>> THEN CsiModified(m, Append(modifier, ch))
      ELSE CsiPlain(m, ch)

-----------------------------------------------------------------------------
(* Control characters and escapes.                                           *)

ToFunction(m, func) == [m EXCEPT !.func = func]
StartString(m, func) == [m EXCEPT !.func = func, !.args = <<>>]

Control(m, ch) ==
  CASE ch = "BS" -> CursorLeft(m, 1)
    [] ch = "HT" -> ForwardTabStop(m)
    [] ch \in {"LF", "VT", "FF"} -> FormFeed(m)
    [] ch = "CR" -> SetCursorColumn(m, 0)
    [] ch = "SO" -> [m EXCEPT !.GL = "G1"]
    [] ch = "SI" -> [m EXCEPT !.GL = "G0"]
    [] ch \in {"CAN", "SUB"} -> PrintString(ToFunction(m, "unknown"), <<"?">>)
    [] ch = "ESC" -> ToFunction(m, "esc")
    [] OTHER -> m

Designates == [ch \in {"(", ")", "-", "*", ".", "+", "/"} |->
                 CASE ch = "(" -> "G0" [] ch \in {")", "-"} -> "G1"
                   [] ch \in {"*", "."} -> "G2" [] OTHER -> "G3"]

(* ESC D to M, then 7 to c: each leaves the parser to its default function   *)
(* unless it gives it another.                                               *)
Escape(m, ch) ==
  CASE ch = "D" -> LineFeed(m)
    [] ch = "E" -> CursorDown(SetCursorColumn(m, 0), 1)
    [] ch = "H" -> SetTabStop(m, Column(m))
    [] ch = "M" -> ReverseLineFeed(m)
    [] ch = "Z" -> Reply(m, <<"vt100">>)
    [] ch = "7" -> Save(m)
    [] ch = "8" -> Restore(m)
    [] ch = "=" -> [m EXCEPT !.modes = @ \cup {"keypad"}]
    [] ch = ">" -> [m EXCEPT !.modes = @ \ {"keypad"}]
    [] ch = "c" -> Reset(ResetVT(m))
    [] ch = "n" -> [m EXCEPT !.GL = "G2"]
    [] ch = "o" -> [m EXCEPT !.GL = "G3"]
    [] OTHER -> m

EscapeFunction(m, ch) ==
  CASE ch = "[" -> [StartString(m, "csi") EXCEPT !.lead = <<>>, !.trail = <<>>]
    [] ch = "]" -> StartString(m, "osc")
    [] ch \in {"P", "^", "_"} -> StartString(m, "string")
    [] ch \in {" ", "%"} -> ToFunction(m, "skip")
    [] ch = "#" -> ToFunction(m, "size")
    [] ch \in DOMAIN Designates -> [ToFunction(m, "set") EXCEPT !.code = ch]
    [] OTHER -> ToFunction(Escape(m, ch), "unknown")

-----------------------------------------------------------------------------
(* The parse functions: each takes what is left of the piece, and says what  *)
(* is left then.                                                             *)

Then(m, buf) == [m |-> m, buf |-> buf]
Rest(buf) == SubSeq(buf, 2, Len(buf))

ParseUnknown(m, buf) ==
  LET at == {i \in DOMAIN buf : buf[i] \in Controls}
      next == CHOOSE i \in at : \A j \in at : i <= j
      end == IF at = {} THEN Len(buf) + 1 ELSE next
      shown == IF end = 1 THEN m
               ELSE PrintString(m, MapString(m.sets[m.GL], SubSeq(buf, 1, end - 1)))
  IN  IF at = {} THEN Then([shown EXCEPT !.args = <<>>], <<>>)
      ELSE Then(Control(shown, buf[end]), SubSeq(buf, end + 1, Len(buf)))

(* Mutant: a control sequence that a piece does not finish is forgotten.     *)
ParseCSIWhole(m, buf) ==
  LET ch == Head(buf)
      started == IF m.args = <<>> THEN <<<<>>>> ELSE m.args
  IN  Then(CASE ch \in Finals -> ToFunction(Csi(m, ch), "unknown")
             [] Len(buf) = 1 -> ToFunction(m, "unknown")
             [] ch \in Digits ->
                  [m EXCEPT !.args = [started EXCEPT ![Len(started)] = Append(@, ch)]]
             [] ch = ";" -> [m EXCEPT !.args = Append(started, <<>>)]
             [] OTHER -> [m EXCEPT !.lead = Append(@, ch)],
           Rest(buf))

ParseCSI(m, buf) ==
  LET ch == Head(buf)
      default == ToFunction(m, "unknown")
      started == IF m.args = <<>> THEN <<<<>>>> ELSE m.args
  IN  Then(CASE ch \in Digits /\ m.trail = <<>> ->
                  [m EXCEPT !.args = [started EXCEPT ![Len(started)] = Append(@, ch)]]
             [] ch = ";" /\ m.trail = <<>> -> [m EXCEPT !.args = Append(started, <<>>)]
             [] ch \in Finals -> ToFunction(Csi(m, ch), "unknown")
             [] ch \in Intermediates /\ m.args = <<>> -> [m EXCEPT !.lead = Append(@, ch)]
             [] ch \in Intermediates /\ m.args # <<>> -> [m EXCEPT !.trail = Append(@, ch)]
             [] ch \in Controls -> Control(m, ch)
             [] OTHER -> default,
           Rest(buf))

ParseESC(m, buf) ==
  IF Head(buf) = "ESC" THEN Then(m, Rest(buf))
  ELSE Then(EscapeFunction(m, Head(buf)), Rest(buf))

(* ESC ( ESC calls the parse function without its argument: the exception    *)
(* loses the rest of the piece.                                              *)
ParseCharacterSet(m, buf) ==
  LET ch == Head(buf)
      default == ToFunction(m, "unknown")
  IN  IF ch = "ESC" THEN Then(default, <<>>)
      ELSE Then(IF ch \in CharacterMaps
                THEN [default EXCEPT !.sets[Designates[m.code]] = ch] ELSE default, Rest(buf))

ParseOne(m, buf) ==
  Then(ToFunction(IF m.func = "size" /\ Head(buf) = "8" THEN Fill(m, "E") ELSE m, "unknown"),
       Rest(buf))

(* parseUntilStringTerminator_: done with the string in args, more to come,  *)
(* or aborted: what was read is parsed again as text.                        *)
UntilTerminator(m, buf) ==
  LET ends == {i \in DOMAIN buf : \/ buf[i] = "BEL"
                                  \/ buf[i] = "ESC" /\ i < Len(buf) /\ buf[i + 1] = "\\"}
      end == CHOOSE i \in ends : \A j \in ends : i <= j
      before == IF m.args = <<>> THEN <<>> ELSE m.args[1]
      string == before \o (IF ends = {} THEN buf ELSE SubSeq(buf, 1, end - 1))
      abort == Len(string) > MaxString
                 \/ (ends = {} /\ \E i \in DOMAIN string : string[i] = "ESC")
      again == before \o buf
      after == SubSeq(buf, end + (IF buf[end] = "ESC" THEN 2 ELSE 1), Len(buf))
  IN  IF abort THEN Then([m EXCEPT !.func = "unknown", !.args = <<>>], again)
      ELSE IF ends = {} THEN Then([m EXCEPT !.args = <<string>>], <<>>)
      ELSE Then([m EXCEPT !.func = "done", !.args = <<string>>], after)

(* Of the commands those that set the title.                                 *)
OSC(m) ==
  LET string == m.args[1]
  IN  IF Len(string) >= 2 /\ string[1] \in {"0", "2"} /\ string[2] = ";"
      THEN [m EXCEPT !.title = SubSeq(string, 3, Len(string))]
      ELSE m

ParseString(m, buf) ==
  LET r == UntilTerminator(m, buf)
  IN  IF r.m.func # "done" THEN r
      ELSE Then(ToFunction(IF m.func = "osc" THEN OSC(r.m) ELSE r.m, "unknown"), r.buf)

Parse(m, buf) ==
  CASE m.func = "unknown" -> ParseUnknown(m, buf)
    [] m.func = "csi" -> ParseCSI(m, buf)
    [] m.func = "esc" -> ParseESC(m, buf)
    [] m.func = "set" -> ParseCharacterSet(m, buf)
    [] m.func \in {"skip", "size"} -> ParseOne(m, buf)
    [] OTHER -> ParseString(m, buf)

RECURSIVE ParseAll(_)
ParseAll(r) == IF r.buf = <<>> THEN r.m ELSE ParseAll(Parse(r.m, r.buf))

Interpret(m, buf) == ParseAll(Then(m, buf))
=============================================================================
