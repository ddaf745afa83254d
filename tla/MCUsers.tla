------------------------------ MODULE MCUsers ------------------------------
(* Small instances of Users for TLC.                                       *)
EXTENDS Users, TLC

CONSTANTS h1, h2, u1, u2, w1, w2, w3, c2, p1, p2

MCOn == c2 :> h2

Symmetry == Permutations({w1, w2, w3})

(* One command at a time.  One user: passwords are chosen; the user is     *)
(* listed and unlisted; commands are killed and hosts are not reached.     *)
(* Two users, and nothing goes wrong.                                      *)
MCEnvs ==
  {[users |-> {u1}, commands |-> Commands, events |-> {"edit"},
    together |-> 1],
   [users |-> {u1}, commands |-> Commands, events |-> {"list", "unlist"},
    together |-> 1],
   [users |-> {u1}, commands |-> Commands, events |-> {"kill", "net"},
    together |-> 1],
   [users |-> {u1}, commands |-> Commands \ {"new-password"},
    events |-> {"kill", "net"}, together |-> 1],
   [users |-> {u1, u2}, commands |-> {"add-user", "regenerate"},
    events |-> {}, together |-> 1]}
=============================================================================
