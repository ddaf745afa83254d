---------------------------- MODULE MessageChannel ----------------------------
(* What a page of the web interface may expect of socket.emit and socket.on: *)
(* sessions, one after the other, each with a queue of messages in either    *)
(* direction.  What the page says while it is not connected waits for the    *)
(* next session; what is under way when a session ends may arrive or not.    *)
(* SocketIo implements it, WebTerminal is built on it.                       *)
EXTENDS Naturals, Sequences, SequencesExt

CONSTANTS
  Sessions,    (* the sessions a page has one after the other: 1..n          *)
  Up,          (* what pages say: numbers, in the order they are said        *)
  Down         (* what the server says                                       *)

NoSession == 0

VARIABLES
  cur,         (* the session the page has, or had last                      *)
  connected,   (* whether the page takes itself for connected                *)
  over,        (* the sessions the page has given up                         *)
  waiting,     (* what the page said while it was not connected              *)
  up,          (* up[s]: on its way to the server                            *)
  got,         (* got[s]: what the server received, in order                 *)
  down,        (* down[s]: on its way to the page                            *)
  seen         (* seen[s]: what the page received, in order                  *)

chanVars == <<cur, connected, over, waiting, up, got, down, seen>>

Init ==
  /\ cur = NoSession
  /\ connected = FALSE
  /\ over = {}
  /\ waiting = <<>>
  /\ up = [s \in Sessions |-> <<>>]
  /\ got = [s \in Sessions |-> <<>>]
  /\ down = [s \in Sessions |-> <<>>]
  /\ seen = [s \in Sessions |-> <<>>]

(* The page says m.                                                          *)
Emit(m) ==
  /\ IF connected
     THEN up' = [up EXCEPT ![cur] = Append(@, m)] /\ UNCHANGED waiting
     ELSE waiting' = Append(waiting, m) /\ UNCHANGED up
  /\ UNCHANGED <<cur, connected, over, got, down, seen>>

(* The page receives the next n messages of session s.                       *)
Receive(s, n) ==
  /\ seen' = [seen EXCEPT ![s] = @ \o SubSeq(down[s], 1, n)]
  /\ down' = [down EXCEPT ![s] = SubSeq(@, n + 1, Len(@))]

(* A session begins; what waited goes first.  The server may have spoken.    *)
Connect(s) ==
  /\ ~connected /\ s > cur /\ s \notin over
  /\ cur' = s /\ connected' = TRUE
  /\ up' = [up EXCEPT ![s] = waiting]
  /\ waiting' = <<>>
  /\ \E n \in 0..Len(down[s]) : Receive(s, n)
  /\ UNCHANGED <<over, got>>

(* The end of what the page said is lost, and what was to come.              *)
Cut(s) ==
  /\ \E n \in 0..Len(up[s]) : up' = [up EXCEPT ![s] = SubSeq(@, 1, n)]
  /\ \E n \in 0..Len(down[s]) :
       down' = [down EXCEPT ![s] = SubSeq(@, n + 1, Len(@))]

(* The page gives up a session, the one it has or one it never had.          *)
GiveUp(s) ==
  /\ s \notin over
  /\ connected => s = cur
  /\ over' = over \cup {s} /\ connected' = FALSE
  /\ Cut(s)
  /\ UNCHANGED <<cur, waiting, got, seen>>

(* The server receives the next message, or several at once: also those of a *)
(* session that was given up.                                                *)
Deliver(s) ==
  /\ \E n \in 1..Len(up[s]) :
       /\ got' = [got EXCEPT ![s] = @ \o SubSeq(up[s], 1, n)]
       /\ up' = [up EXCEPT ![s] = SubSeq(@, n + 1, Len(@))]
  /\ UNCHANGED <<cur, connected, over, waiting, down, seen>>

(* What was under way in a session that is over may be lost.                 *)
Lose(s) ==
  /\ s \in over
  /\ Cut(s)
  /\ UNCHANGED <<cur, connected, over, waiting, got, seen>>

(* The server says m.                                                        *)
Say(s, m) ==
  /\ down' = [down EXCEPT ![s] = Append(@, m)]
  /\ UNCHANGED <<cur, connected, over, waiting, up, got, seen>>

(* The page receives what comes next, one message or several at once.        *)
Show(s) ==
  /\ connected /\ s = cur
  /\ \E n \in 1..Len(down[s]) : Receive(s, n)
  /\ UNCHANGED <<cur, connected, over, waiting, up, got>>

Next ==
  \/ \E m \in Up : Emit(m)
  \/ \E s \in Sessions :
       \/ Connect(s) \/ GiveUp(s) \/ Deliver(s) \/ Lose(s) \/ Show(s)
       \/ \E m \in Down : Say(s, m)

Spec == Init /\ [][Next]_chanVars
=============================================================================
