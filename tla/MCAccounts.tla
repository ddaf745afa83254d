----------------------------- MODULE MCAccounts -----------------------------
(* Small instances of Accounts for TLC.                                    *)
EXTENDS Accounts, TLC

MCPersonOf == "b1" :> "ann" @@ "b2" :> "ann" @@ "b3" :> "bob"

(* The id of ann at facebook is that of bob at twitter.                    *)
MCIdOf ==
  "ann" :> [facebook |-> "1", twitter |-> "2", google |-> "3"] @@
  "bob" :> [facebook |-> "4", twitter |-> "1", google |-> "5"]

(* Two people, one with two browsers: what one person does with two        *)
(* providers, two requests at a time, and a site that is restarted.        *)
MCEnvs ==
  {[browsers |-> {"b1", "b3"}, requests |-> 2, restarts |-> 0,
    fields |-> {"local", "google"}],
   [browsers |-> {"b1", "b3"}, requests |-> 2, restarts |-> 0,
    fields |-> {"facebook", "twitter"}],
   [browsers |-> {"b1", "b2"}, requests |-> 3, restarts |-> 0,
    fields |-> {"google"}],
   [browsers |-> {"b1"}, requests |-> 4, restarts |-> 1,
    fields |-> {"local", "facebook"}]}
=============================================================================
