------------------------------ MODULE MCProxy ------------------------------
(* Small instances of Proxy for TLC.                                       *)
EXTENDS Proxy, TLC

CONSTANTS h1, h2, c1, c2, d1, p1, p2, q1

(* Two containers and two callers at h1, one each at h2.                   *)
MCHome == (c1 :> h1) @@ (c2 :> h1) @@ (d1 :> h2)
MCAt   == (p1 :> h1) @@ (p2 :> h1) @@ (q1 :> h2)

Circumstances(callers, at1, at2, overlap, acme, faults, last) ==
  [callers |-> callers, cmds |-> (h1 :> at1) @@ (h2 :> at2),
   overlap |-> overlap, acme |-> acme, faults |-> faults,
   again |-> FALSE, daily |-> FALSE, last |-> last]

(* All commands at one host, one after the other.                          *)
OneHost == Circumstances({p1}, Cmds, {}, {}, {c1}, {"le"}, 2)

(* Commands that overlap, when no certificate is wanted.                   *)
Overlapping ==
  Circumstances({p1, p2}, Growing, {}, Growing, {}, {}, 1)

(* Two hosts that do not always reach each other; containers come at both  *)
(* and go at one.                                                          *)
TwoHosts ==
  Circumstances({p1, q1}, Growing, Growing \cup {"remove"}, {}, {}, {"net"}, 1)

(* Days, with certificates at both hosts.                                  *)
Days == [Circumstances({p1, q1}, Growing, Growing, {}, {c1, d1}, {}, 3)
           EXCEPT !.daily = TRUE]

(* A proxy that goes down.                                                 *)
Falling ==
  [Circumstances({p1}, Growing, {}, {}, {c1, c2}, {"crash", "acme"}, 2)
     EXCEPT !.again = TRUE]

MCEnvs == {OneHost, Overlapping, TwoHosts, Days, Falling}
=============================================================================
