------------------------------- MODULE MCGui -------------------------------
(* Small instances of Gui for TLC.                                         *)
EXTENDS Gui, TLC

CONSTANTS alice, bob, eve, h1, h2, c1, c2, t1, t2, t3

MCHostsOf == alice :> <<h1, h2>> @@ bob :> <<h2>>
MCLists   == {<<c1>>, <<c1, c2>>, <<c2>>}
MCNameOf  == t1 :> alice @@ t2 :> bob @@ t3 :> eve

(* What a command prints: a line in red, a progress bar, two lines.        *)
MCPieces == {<<"31", "x", "NL">>, <<"x", "EL">>, <<"1">>, <<"m", "y", "NL">>}

(* One page: a slow and unreliable ssh; a page and the server that lose    *)
(* each other; two users and a stranger whose pages connect at any time;   *)
(* the mouse and the keyboard; and a command that prints, over an ssh that *)
(* may break.                                                              *)
MCEnvs ==
  {[tabs |-> {t1}, commands |-> 3, events |-> {"refused", "broken"}],
   [tabs |-> {t1}, commands |-> 4, events |-> {"refused"}],
   [tabs |-> {t1}, commands |-> 3, events |-> {"early", "disconnect", "exec"}],
   [tabs |-> {t1}, commands |-> 3, events |-> {"early", "restart", "hasty"}],
   [tabs |-> {t2, t3}, commands |-> 3, events |-> {"early", "restart"}],
   [tabs |-> {t2}, commands |-> 3, events |-> {"detail"}],
   [tabs |-> {t2}, commands |-> 3, events |-> {"output"}],
   [tabs |-> {t2}, commands |-> 2, events |-> {"output", "broken"}]}
=============================================================================
