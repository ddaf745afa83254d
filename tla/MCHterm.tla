------------------------------ MODULE MCHterm --------------------------------
(* Module Hterm with streams of four themes on screens of a few characters.  *)
EXTENDS Hterm

CSI(str) == <<"ESC", "[">> \o str

MCStreams ==
  [text  |-> {<<"a", ".">>, <<"c">>, <<"CR", "LF">>, <<".", "b", " ", ";">>},
   edit  |-> {<<"a", ";">>, <<"c", "W">>, <<"CR">>, CSI(<<"2", "G">>), CSI(<<"P">>), CSI(<<"2", "@">>),
              CSI(<<"X">>), CSI(<<"D">>),
              CSI(<<"K">>), CSI(<<"1", "K">>), CSI(<<"1", "m">>), CSI(<<"4", "4", "m">>),
              CSI(<<"4", "h">>)},
   lines |-> {<<"a", "CR", "LF">>, <<"b", "c", "d">>, CSI(<<"2", ";", "3", "r">>), CSI(<<"L">>),
              CSI(<<"M">>), CSI(<<"2", "S">>), CSI(<<"T">>), <<"ESC", "M">>,
              CSI(<<"3", "H">>), CSI(<<"?", "6", "h">>), CSI(<<"?", "7", "l">>), CSI(<<"1", "J">>)},
   modes |-> {<<"a", "HT", "q">>, <<"ESC", "7">>, <<"ESC", "8">>, <<"LF", "c">>,
              CSI(<<"?", "4", "7", "h">>), CSI(<<"?", "1", "0", "4", "9", "l">>),
              <<"ESC", "(", "0", "ESC", "]", "2", ";", "t", "ESC", "\\">>,
              CSI(<<"3", "g">>) \o CSI(<<"6", "n">>), CSI(<<"!", "p">>),
              CSI(<<"?", "4", "5", "h">>) \o <<"BS", "b">>, <<"ESC", "c">>}]

MCSizes ==
  [text  |-> {Size(3, 2), Size(3, 3), Size(3, 1)},
   edit  |-> {Size(4, 2), Size(3, 2)},
   lines |-> {Size(2, 4)},
   modes |-> {Size(4, 2), Size(3, 3)}]

MCSamples == {<<"x">>, <<"y", "z">>, <<"W">>}
=============================================================================
