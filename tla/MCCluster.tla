----------------------------- MODULE MCCluster -----------------------------
(* Small instances of Cluster for TLC.                                     *)
EXTENDS Cluster, TLC

CONSTANTS h1, h2, h3, c1, c2, p1, p2

Symmetry == Permutations(Callers)

(* One name that moves between three hosts, command by command; two names  *)
(* with their homes, two commands at a time with hosts that are not        *)
(* reached or lost; and one name, with commands that are interrupted, or   *)
(* that overlap on a host.                                                 *)
Homed(homes, together, faults) ==
  [kind |-> "ssh_config", at |-> {h1, h2}, homes |-> (c1 :> {h1} @@ homes),
   together |-> together, faults |-> faults]

MCEnvs ==
  {[kind |-> kind, at |-> Hosts, homes |-> (c1 :> Hosts @@ c2 :> {}),
    together |-> 1, faults |-> {}] : kind \in Kinds}
  \cup {Homed(c2 :> {h2}, 2, {"net"}), Homed(c2 :> {}, 1, {"kill"}),
        Homed(c2 :> {}, 2, {"overlap"})}
=============================================================================
