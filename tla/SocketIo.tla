------------------------------ MODULE SocketIo ------------------------------
(* The socket.io client the pages load (js/socket.io.js): the Manager that   *)
(* connects and reconnects, the Socket with its buffers, the engine that     *)
(* begins with long polling and moves to a websocket, and the transports.    *)
(* What the server's engine does is external; the network may fail at every  *)
(* request and frame, at most MaxFaults times.                               *)
EXTENDS Naturals, Sequences, SequencesExt

CONSTANTS
  MaxSessions,   (* bound: sessions the server opens                         *)
  MaxUp,         (* bound: what the page emits: 1, 2, ...                    *)
  MaxDown,       (* bound: what the server emits in a session                *)
  MaxFaults      (* bound: failures of the network                           *)

ASSUME BoundsAssumption ==
  {MaxSessions, MaxUp, MaxDown, MaxFaults} \subseteq Nat

Sessions == 1..MaxSessions
Up       == 1..MaxUp
Down     == 1..MaxDown

VARIABLES
  mgr,       (* Manager: st, rec(onnecting), timer of the next attempt       *)
  sock,      (* Socket: connected, sendBuffer, receiveBuffer                 *)
  eng,       (* the engine of this attempt, with its transport               *)
  net,       (* net[s]: the requests and frames of session s                 *)
  hand,      (* the request for a session, and the one it is answered with    *)
  srv,       (* external: srv[s], the session at the server                  *)
  emitted,   (* how much the page emitted                                    *)
  got,       (* got[s]: the events the server received                       *)
  seen,      (* seen[s]: the events the page received                        *)
  last,      (* history: the session of the last connect                     *)
  faults     (* how often the network failed                                 *)

vars == <<mgr, sock, eng, net, hand, srv, emitted, got, seen, last, faults>>

-----------------------------------------------------------------------------
(* Packets: events have a number, the others are of the protocols.           *)
Event(m)  == [type |-> "event", m |-> m]
Ctl(t)    == [type |-> t, m |-> 0]
Ids(packets) ==
  LET e == SelectSeq(packets, LAMBDA p : p.type = "event")
  IN  [i \in DOMAIN e |-> e[i].m]

NoEngine ==
  [id |-> 0, st |-> "closed", tr |-> "polling", ts |-> "closed",
   polling |-> FALSE, writable |-> FALSE, upgrading |-> FALSE,
   buf |-> <<>>, prev |-> 0, probe |-> "none"]

(* Socket.open of the engine: the first transport polls for a session.       *)
NewEngine ==
  [NoEngine EXCEPT !.st = "opening", !.ts = "opening", !.polling = TRUE]

Quiet ==
  [get  |-> [st |-> "none", data |-> <<>>],
   post |-> [st |-> "none", data |-> <<>>, stored |-> FALSE],
   ws   |-> [st |-> "none", up |-> <<>>, down |-> <<>>],
   bye  |-> FALSE]     (* a close packet is under way                        *)

Init ==
  /\ mgr = [st |-> "opening", rec |-> FALSE, timer |-> FALSE]
  /\ sock = [connected |-> FALSE, sendBuffer |-> <<>>, receiveBuffer |-> <<>>]
  /\ eng = NewEngine
  /\ net = [s \in Sessions |-> Quiet]
  /\ hand = [st |-> "sent", s |-> 0]
  /\ srv = [s \in Sessions |->
              [st |-> "none", tr |-> "polling", out |-> <<>>, said |-> 0,
               probed |-> FALSE]]
  /\ emitted = 0
  /\ got = [s \in Sessions |-> <<>>]
  /\ seen = [s \in Sessions |-> <<>>]
  /\ last = 0
  /\ faults = 0

-----------------------------------------------------------------------------
(* What one task of the page does, as functions of the client c: the engine  *)
(* e, the network n of its session, and sock, mgr and what was seen.         *)

Client(s) == [e |-> eng, n |-> net[s], sock |-> sock, mgr |-> mgr,
              seen |-> seen[s], last |-> last]

Become(s, c) ==
  /\ eng' = c.e /\ sock' = c.sock /\ mgr' = c.mgr /\ last' = c.last
  /\ net' = [net EXCEPT ![s] = c.n]
  /\ seen' = [seen EXCEPT ![s] = c.seen]

(* XHR.doPoll and doWrite: a request of its own for each.                    *)
GetRequest == [st |-> "sent", data |-> <<>>]
PostRequest(packets) == [st |-> "sent", data |-> packets, stored |-> FALSE]

(* Polling.write: one POST with all packets.                                 *)
PollingWrite(c, packets) ==
  [c EXCEPT !.e.writable = FALSE, !.n.post = PostRequest(packets)]

(* WS.write: a frame for each packet.                                        *)
WsWrite(c, packets) ==
  [c EXCEPT !.e.writable = FALSE, !.n.ws.up = @ \o packets]

Send(c, packets) ==
  IF c.e.tr = "polling" THEN PollingWrite(c, packets) ELSE WsWrite(c, packets)

(* The buffer keeps what is being written until the transport has drained.   *)
Flush(c) ==
  IF c.e.st # "closed" /\ c.e.writable /\ ~c.e.upgrading /\ c.e.buf # <<>>
  THEN [Send(c, c.e.buf) EXCEPT !.e.prev = Len(c.e.buf)]
  ELSE c

SendPacket(c, p) ==
  IF c.e.st \in {"closing", "closed"} THEN c
  ELSE Flush([c EXCEPT !.e.buf = Append(@, p)])

(* A faulty OnDrain: what was written stays in the buffer.                   *)
OnDrainKept(c) == Flush([c EXCEPT !.e.prev = 0])

OnDrain(c) ==
  Flush([c EXCEPT !.e.buf = SubSeq(@, c.e.prev + 1, Len(@)), !.e.prev = 0])

Poll(c) ==
  [c EXCEPT !.e.polling = TRUE, !.n.get = GetRequest]

(* The transport is paused: the engine goes over to the websocket, unless    *)
(* the probe failed meanwhile.                                               *)
Paused(c) ==
  IF c.e.probe = "failed"
  THEN [c EXCEPT !.e.ts = "paused"]
  ELSE Flush([Send([c EXCEPT !.e.tr = "websocket", !.e.ts = "open",
                             !.e.probe = "done"], <<Ctl("upgrade")>>)
                EXCEPT !.e.upgrading = FALSE])

PausedIfIdle(c) ==
  IF c.e.ts = "pausing" /\ ~c.e.polling /\ c.e.writable THEN Paused(c) ELSE c

(* The page's end of a websocket is closed: what is on its way to the page   *)
(* is ignored.                                                               *)
EndWs(w) ==
  IF w.st = "broken" THEN [w EXCEPT !.up = <<>>, !.down = <<>>]
  ELSE [w EXCEPT !.st = "ended", !.down = <<>>]

(* Probe's freezeTransport: the websocket is closed and ignored from now on. *)
Freeze(c) ==
  IF c.e.probe \in {"opening", "pinged", "pausing"}
  THEN [c EXCEPT !.e.probe = "failed", !.n.ws = EndWs(@)]
  ELSE c

(* Polling.doClose: an open transport says so to the server; the poll that   *)
(* is out is aborted.                                                        *)
ClosePolling(c) ==
  [c EXCEPT !.n.bye = @ \/ c.e.ts = "open", !.n.get = Quiet.get]

CloseTransport(c) ==
  IF c.e.tr = "polling" THEN ClosePolling(c) ELSE [c EXCEPT !.n.ws = EndWs(@)]

(* A faulty TryAgain: reconnecting already, and therefore no timer.          *)
TryOnce == [st |-> "closed", rec |-> TRUE, timer |-> FALSE]

(* Manager.reconnect: one timer, whatever asked for it.                      *)
TryAgain == [st |-> "closed", rec |-> TRUE, timer |-> TRUE]

(* Manager.onclose and Socket.onclose.                                       *)
SocketClosed(c) == [c EXCEPT !.sock.connected = FALSE, !.mgr = TryAgain]

(* Socket.onClose of the engine: no answer is heard any more, the buffer is  *)
(* given up.                                                                 *)
OnClose(c) ==
  SocketClosed([Freeze(CloseTransport(c)) EXCEPT !.e = NoEngine])

(* Manager.packet: what the encoder makes of an event is one packet.         *)
Packet(c, p) == SendPacket(c, p)

(* Socket.emitBuffered: what waited, first what came and then what goes.     *)
EmitBuffered(c) ==
  LET open == [c EXCEPT !.seen = @ \o c.sock.receiveBuffer,
                        !.sock.receiveBuffer = <<>>]
  IN  [FoldLeft(Packet, open, open.sock.sendBuffer) EXCEPT !.sock.sendBuffer = <<>>]

OnConnect(c, s) ==
  EmitBuffered([c EXCEPT !.sock.connected = TRUE, !.last = s])

OnEvent(c, m) ==
  IF c.sock.connected
  THEN [c EXCEPT !.seen = Append(@, m)]
  ELSE [c EXCEPT !.sock.receiveBuffer = Append(@, m)]

(* Socket.onpacket, of the packets a message of the engine holds.            *)
OnMessage(c, p) ==
  CASE p.type = "connect" -> OnConnect(c, c.e.id)
    [] p.type = "event"   -> OnEvent(c, p.m)
    [] OTHER              -> c

OnPacket(c, p) ==
  IF c.e.st \in {"opening", "open"} THEN OnMessage(c, p) ELSE c

(* Manager.onopen and onreconnect.                                           *)
ManagerOpen == [st |-> "open", rec |-> FALSE, timer |-> FALSE]

(* Socket.onOpen of the engine: the probe of the websocket begins.           *)
OnOpen(c) ==
  [c EXCEPT !.e.st = "open", !.mgr = ManagerOpen,
            !.e.probe = "opening", !.n.ws.st = "opening"]

OnHandshake(c, s) ==
  Poll(OnOpen([c EXCEPT !.e.id = s, !.e.ts = "open", !.e.writable = TRUE]))

-----------------------------------------------------------------------------
(* The page.                                                                 *)

Emit ==
  /\ emitted < MaxUp
  /\ emitted' = emitted + 1
  /\ LET p == Event(emitted') IN
     IF sock.connected
     THEN Become(eng.id, SendPacket(Client(eng.id), p))
     ELSE /\ sock' = [sock EXCEPT !.sendBuffer = Append(@, p)]
          /\ UNCHANGED <<mgr, eng, net, seen, last>>
  /\ UNCHANGED <<hand, srv, got, faults>>

(* The timer of reconnect: Manager.open makes a new engine.                  *)
Reconnect ==
  /\ mgr.timer
  /\ mgr' = [mgr EXCEPT !.st = "opening", !.timer = FALSE]
  /\ eng' = NewEngine
  /\ hand' = [st |-> "sent", s |-> 0]
  /\ UNCHANGED <<sock, net, srv, emitted, got, seen, last, faults>>

(* The answer to the first poll.                                             *)
Handshake ==
  /\ hand.st = "answered"
  /\ hand' = [st |-> "none", s |-> 0]
  /\ Become(hand.s, OnHandshake(Client(hand.s), hand.s))
  /\ UNCHANGED <<srv, emitted, got, faults>>

(* It failed: an error of the Manager that is opening, which tries again.    *)
HandshakeFails ==
  /\ hand.st = "failed"
  /\ hand' = [st |-> "none", s |-> 0]
  /\ eng' = NoEngine
  /\ mgr' = TryAgain
  /\ UNCHANGED <<sock, net, srv, emitted, got, seen, last, faults>>

(* Polling.onData: the packets of an answer, and the next poll or the pause. *)
GetDone(s) ==
  /\ eng.id = s /\ eng.tr = "polling" /\ eng.polling
  /\ net[s].get.st = "answered"
  /\ LET c == FoldLeft(OnPacket, Client(s), net[s].get.data)
         d == [c EXCEPT !.e.polling = FALSE, !.n.get = Quiet.get]
     IN  Become(s, IF d.e.ts = "open" THEN Poll(d) ELSE PausedIfIdle(d))
  /\ UNCHANGED <<hand, srv, emitted, got, faults>>

(* Polling.write's callback: drained.                                        *)
PostDone(s) ==
  /\ eng.id = s /\ eng.tr = "polling" /\ net[s].post.st = "answered"
  /\ LET c == [Client(s) EXCEPT !.n.post = Quiet.post, !.e.writable = TRUE]
     IN  Become(s, PausedIfIdle(OnDrain(c)))
  /\ UNCHANGED <<hand, srv, emitted, got, faults>>

(* A poll or a write failed: Transport.onError, Socket.onError, onClose.     *)
PollingFails(s) ==
  /\ eng.id = s /\ eng.tr = "polling"
  /\ "failed" \in {net[s].get.st, net[s].post.st}
  /\ Become(s, OnClose(Client(s)))
  /\ UNCHANGED <<hand, srv, emitted, got, faults>>

(* Probe's onTransportOpen.                                                  *)
ProbeOpens(s) ==
  /\ eng.id = s /\ eng.probe = "opening" /\ net[s].ws.st = "opening"
  /\ eng' = [eng EXCEPT !.probe = "pinged"]
  /\ net' = [net EXCEPT ![s].ws.st = "open",
                        ![s].ws.up = Append(@, Ctl("probe"))]
  /\ UNCHANGED <<mgr, sock, hand, srv, emitted, got, seen, last, faults>>

(* Probe's pong: the engine stops writing and pauses the poll.               *)
ProbePongs(s) ==
  /\ eng.id = s /\ eng.probe = "pinged"
  /\ net[s].ws.st = "open" /\ net[s].ws.down # <<>>
  /\ LET c == [Client(s) EXCEPT !.n.ws.down = Tail(@), !.e.probe = "pausing",
                                !.e.upgrading = TRUE, !.e.ts = "pausing"]
     IN  Become(s, PausedIfIdle(c))
  /\ UNCHANGED <<hand, srv, emitted, got, faults>>

(* Probe's onerror: polling goes on.                                         *)
ProbeFails(s) ==
  /\ eng.id = s /\ eng.probe \in {"opening", "pinged", "pausing"}
  /\ net[s].ws.st = "broken"
  /\ Become(s, Freeze(Client(s)))
  /\ UNCHANGED <<hand, srv, emitted, got, faults>>

(* A frame of the websocket.                                                 *)
WsData(s) ==
  /\ eng.id = s /\ eng.tr = "websocket"
  /\ net[s].ws.st = "open" /\ net[s].ws.down # <<>>
  /\ Become(s, OnPacket([Client(s) EXCEPT !.n.ws.down = Tail(@)],
                        Head(net[s].ws.down)))
  /\ UNCHANGED <<hand, srv, emitted, got, faults>>

(* WS.write's done: the "fake drain" of the next tick.                       *)
WsDrain(s) ==
  /\ eng.id = s /\ eng.tr = "websocket" /\ ~eng.writable
  /\ Become(s, OnDrain([Client(s) EXCEPT !.e.writable = TRUE]))
  /\ UNCHANGED <<hand, srv, emitted, got, faults>>

WsFails(s) ==
  /\ eng.id = s /\ eng.tr = "websocket" /\ net[s].ws.st = "broken"
  /\ Become(s, OnClose(Client(s)))
  /\ UNCHANGED <<hand, srv, emitted, got, faults>>

(* Nothing can come: no poll is out, or the one that is has no answer ahead  *)
(* and nothing is written that would provoke one.                            *)
Silent(s) ==
  /\ eng.tr = "polling"
  /\ \/ eng.ts = "paused"
     \/ /\ eng.ts = "pausing" /\ net[s].ws.st \in {"broken", "ended"}
        /\ net[s].get.st = "sent" /\ srv[s].out = <<>> /\ ~srv[s].probed

(* Socket.onHeartbeat's timer: no packet for pingInterval + pingTimeout.     *)
PingTimeout(s) ==
  /\ eng.id = s /\ eng.st = "open"
  /\ Silent(s)
  /\ Become(s, OnClose(Client(s)))
  /\ UNCHANGED <<hand, srv, emitted, got, faults>>

-----------------------------------------------------------------------------
(* The server (external): engine.io and socket.io of node.                   *)

Accept ==
  /\ hand.st = "sent"
  /\ \E s \in Sessions :
       /\ srv[s].st = "none" /\ \A r \in 1..s - 1 : srv[r].st # "none"
       /\ srv' = [srv EXCEPT ![s].st = "open", ![s].out = <<Ctl("connect")>>]
       /\ hand' = [st |-> "answered", s |-> s]
  /\ UNCHANGED <<mgr, sock, eng, net, emitted, got, seen, last, faults>>

ServerSays(s) ==
  /\ srv[s].st = "open"
  /\ srv[s].said < MaxDown
  /\ srv' = [srv EXCEPT ![s].said = @ + 1,
                        ![s].out = Append(@, Event(srv[s].said + 1))]
  /\ UNCHANGED <<mgr, sock, eng, net, hand, emitted, got, seen, last, faults>>

(* What the server has for the page goes into the poll that is out, or into  *)
(* the websocket; while a probe is on, an empty poll is answered by noop.    *)
ServerFlush(s) ==
  /\ srv[s].st = "open"
  /\ \/ /\ srv[s].tr = "polling" /\ net[s].get.st = "sent"
        /\ srv[s].out # <<>> \/ srv[s].probed
        /\ net' = [net EXCEPT ![s].get =
                     [st |-> "answered",
                      data |-> IF srv[s].out = <<>> THEN <<Ctl("noop")>>
                               ELSE srv[s].out]]
     \/ /\ srv[s].tr = "websocket" /\ srv[s].out # <<>>
        /\ net' = [net EXCEPT ![s].ws.down = @ \o srv[s].out]
  /\ srv' = [srv EXCEPT ![s].out = <<>>]
  /\ UNCHANGED <<mgr, sock, eng, hand, emitted, got, seen, last, faults>>

ServerStores(s) ==
  /\ srv[s].st = "open" /\ net[s].post.st = "sent"
  /\ net' = [net EXCEPT ![s].post.st = "answered", ![s].post.stored = TRUE]
  /\ got' = [got EXCEPT ![s] = @ \o Ids(net[s].post.data)]
  /\ UNCHANGED <<mgr, sock, eng, hand, srv, emitted, seen, last, faults>>

ServerWs(s) ==
  /\ srv[s].st = "open" /\ net[s].ws.st \in {"open", "ended"}
  /\ net[s].ws.up # <<>>
  /\ LET p == Head(net[s].ws.up) IN
     /\ got' = [got EXCEPT ![s] = @ \o Ids(<<p>>)]
     /\ srv' = [srv EXCEPT
          ![s].probed = (@ \/ p.type = "probe") /\ p.type # "upgrade",
          ![s].tr = IF p.type = "upgrade" THEN "websocket" ELSE @]
     /\ net' = [net EXCEPT
          ![s].ws.up = Tail(@),
          ![s].ws.down = IF p.type = "probe" THEN Append(@, Ctl("pong")) ELSE @]
  /\ UNCHANGED <<mgr, sock, eng, hand, emitted, seen, last, faults>>

(* A close packet arrives, or the websocket is gone: the session is over if  *)
(* it was on it, and the probe if it was not.                                *)
ServerCloses(s) ==
  /\ srv[s].st = "open"
  /\ \/ /\ net[s].bye
        /\ srv' = [srv EXCEPT ![s].st = "closed"]
     \/ /\ \/ net[s].ws.st = "broken"
           \/ net[s].ws.st = "ended" /\ net[s].ws.up = <<>>
        /\ srv[s].tr = "websocket" \/ srv[s].probed
        /\ srv' = [srv EXCEPT
             ![s].st = IF srv[s].tr = "websocket" THEN "closed" ELSE @,
             ![s].probed = FALSE]
  /\ UNCHANGED <<mgr, sock, eng, net, hand, emitted, got, seen, last, faults>>

(* Requests of a session the server does not know are refused.               *)
ServerRefuses(s) ==
  /\ srv[s].st = "closed"
  /\ \/ /\ net[s].get.st = "sent"
        /\ net' = [net EXCEPT ![s].get.st = "failed"]
     \/ /\ net[s].post.st = "sent"
        /\ net' = [net EXCEPT ![s].post.st = "failed"]
     \/ /\ net[s].ws.st = "open"
        /\ net' = [net EXCEPT ![s].ws.st = "broken"]
  /\ UNCHANGED <<mgr, sock, eng, hand, srv, emitted, got, seen, last, faults>>

-----------------------------------------------------------------------------
(* The network and the clocks (external).                                    *)

RequestLost(s) ==
  \/ /\ net[s].get.st \in {"sent", "answered"}
     /\ net' = [net EXCEPT ![s].get.st = "failed"]
  \/ /\ net[s].post.st \in {"sent", "answered"}
     /\ net' = [net EXCEPT ![s].post.st = "failed"]
  \/ /\ net[s].ws.st \in {"opening", "open"}
     /\ net' = [net EXCEPT ![s].ws.st = "broken"]

Fault ==
  /\ faults < MaxFaults
  /\ faults' = faults + 1
  /\ \/ /\ \E s \in Sessions : RequestLost(s)
        /\ UNCHANGED <<mgr, sock, eng, hand, srv, seen, last>>
     \/ /\ hand.st \in {"sent", "answered"}
        /\ hand' = [st |-> "failed", s |-> 0]
        /\ UNCHANGED <<mgr, sock, eng, net, srv, seen, last>>
     \/ \E s \in Sessions :     (* the server hears nothing for too long      *)
          /\ srv[s].st = "open"
          /\ srv' = [srv EXCEPT ![s].st = "closed"]
          /\ UNCHANGED <<mgr, sock, eng, net, hand, seen, last>>
     \/ /\ eng.st = "open"      (* and so does the page                       *)
        /\ Become(eng.id, OnClose(Client(eng.id)))
        /\ UNCHANGED <<hand, srv>>
  /\ UNCHANGED <<emitted, got>>

-----------------------------------------------------------------------------
(* The tasks of the page that end: each happens once per attempt, request or *)
(* frame.  Polling goes round for as long as the server answers at once.     *)
Tasks ==
  \/ Reconnect \/ Handshake \/ HandshakeFails
  \/ \E s \in Sessions :
       \/ PostDone(s) \/ PollingFails(s)
       \/ ProbeOpens(s) \/ ProbePongs(s) \/ ProbeFails(s)
       \/ WsData(s) \/ WsDrain(s) \/ WsFails(s) \/ PingTimeout(s)

Serving ==
  \/ Accept
  \/ \E s \in Sessions :
       ServerStores(s) \/ ServerWs(s) \/ ServerCloses(s) \/ ServerRefuses(s)

Polled   == \E s \in Sessions : GetDone(s)
Answered == \E s \in Sessions : ServerFlush(s)

Next ==
  \/ Emit \/ Tasks \/ Polled
  \/ Serving \/ Answered \/ \E s \in Sessions : ServerSays(s)
  \/ Fault

(* Events of the browser are delivered, its timers fire, the server works;   *)
(* nobody has to type, and nothing has to fail.                              *)
Fairness == WF_vars(Tasks) /\ WF_vars(Polled) /\ WF_vars(Serving) /\ WF_vars(Answered)

Spec == Init /\ [][Next]_vars /\ Fairness

-----------------------------------------------------------------------------
(* What is written and not received, what is buffered behind it; and what    *)
(* the server has said and the page not seen.                                *)
UnderWay(s) ==
  LET n == net[s]
      unread == IF n.post.stored \/ (n.post.st = "failed" /\ eng.id # s)
                 THEN <<>> ELSE Ids(n.post.data)
      behind == IF eng.id = s
                THEN Ids(SubSeq(eng.buf, eng.prev + 1, Len(eng.buf))) ELSE <<>>
  IN  unread \o Ids(n.ws.up) \o behind

Unseen(s) ==
  sock.receiveBuffer
    \o Ids(net[s].get.data) \o Ids(net[s].ws.down) \o Ids(srv[s].out)

Channel == INSTANCE MessageChannel WITH
  cur <- last, connected <- sock.connected,
  over <- {s \in Sessions : srv[s].st # "none" /\ s \notin {eng.id, hand.s}},
  waiting <- Ids(sock.sendBuffer),
  up <- [s \in Sessions |-> UnderWay(s)], got <- got,
  down <- [s \in Sessions |-> Unseen(s)], seen <- seen

(* The page and the server have a queue of messages in either direction for  *)
(* each session, whatever the transports do: nothing is repeated, overtaken  *)
(* or left out in the move from polling to the websocket, what is said while *)
(* there is no session comes first in the next.                              *)
ImplementsChannel == Channel!Spec

(* What the page emits while it is connected is received, or the page loses  *)
(* the connection and learns of it: also when the websocket fails while the  *)
(* poll is being paused, after which the engine never writes again.          *)
Delivered == []<>(~sock.connected \/ UnderWay(last) = <<>>)

(* The page is connected again after every failure.                          *)
Reconnects == []<>sock.connected

(* What goes on for ever: what was emitted arrives or the page learns that *)
(* it did not, and the page is connected again.                            *)
GoesOn == Delivered /\ Reconnects
=============================================================================
