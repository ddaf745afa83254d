----------------------------- MODULE MCBackups -----------------------------
(* Small instances of Backups for TLC.                                     *)
EXTENDS Backups, TLC

CONSTANTS d1, d2, w1, w2, p1, p2

Symmetry == Permutations(Dbs) \cup Permutations(Passwords)
              \cup Permutations(Callers)

Circumstances(cmds, together, faults) ==
  [cmds |-> cmds, together |-> together, faults |-> faults]

Copying1 == {"backup", "backup-hosts", "backup-db"}

(* Backups and passwords one at a time, with all that stops or fails; the  *)
(* same, interrupted anywhere; two backups at a time; and a container that *)
(* is removed and restored.                                                *)
MCEnvs == {
  Circumstances(Copying1 \cup Inside, 1, {"db", "dump", "stop", "net"}),
  Circumstances(Copying1, 1, {"kill", "dump"}),
  Circumstances({"secure-mariadb", "reset-db-root-passwd", "backup"}, 1, {"kill"}),
  Circumstances({"backup", "backup-db"}, 2, {"dump"}),
  Circumstances({"backup", "remove", "restore"}, 1, {"hand", "record"})}

RestoreEnvs == {Circumstances({"backup", "remove", "restore"}, 1, {})}
=============================================================================
