---------------------------- MODULE MCLifecycle ----------------------------
(* Small instances of Lifecycle for TLC.                                   *)
EXTENDS Lifecycle

CONSTANTS c1, c2, root, alice

(* Nothing goes wrong, with and without reboots; commands are interrupted  *)
(* and meet containers that are slow or fail; a backup is in use.          *)
MCEnvs ==
  {[names |-> {c1, c2}, commands |-> Commands, settled |-> TRUE,
    faults |-> {}],
   [names |-> {c1, c2}, commands |-> Commands \ {"reboot", "reboot-all"},
    settled |-> TRUE, faults |-> {}],
   [names |-> {c1}, commands |-> Commands, settled |-> FALSE,
    faults |-> {"kill", "slow", "start", "capitals"}],
   [names |-> {c1}, commands |-> Commands, settled |-> FALSE,
    faults |-> {"slow", "start", "busy"}]}

(* Two callers at the same time, and nothing that removes a container.     *)
Keepers ==
  {[names |-> {c1}, commands |-> Commands \ {"remove", "destroy"},
    settled |-> FALSE, faults |-> {}]}
=============================================================================
