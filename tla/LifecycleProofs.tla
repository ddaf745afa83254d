-------------------------- MODULE LifecycleProofs --------------------------
(***************************************************************************)
(* Theorems about Lifecycle, for any containers and circumstances, while   *)
(* one command runs at a time: shares follow their containers, nothing is  *)
(* left of one that was removed, a disabled one is not started, a command  *)
(* ends with what it is for, and no files are lost.                        *)
(***************************************************************************)
EXTENDS Lifecycle, FiniteSetTheorems, SequenceTheorems, TLAPS

(* What a command has still to do, and what it does next.                  *)
Rest(s) == {s[i] : i \in 1 .. Len(s)}
First(j, x) == j.steps # <<>> /\ Head(j.steps) = x

(* The commands, by what they do.                                          *)
Starting   == {"add", "start", "start-all"}
Rebooting  == {"reboot", "reboot-all"}
Removing   == {"remove", "destroy"}
Stopping   == {"stop", "disable", "stop-all"}
Unmounting == {"stop", "disable", "kill", "kill-all", "remove", "destroy"}

-----------------------------------------------------------------------------
(* The programs, by what their steps have to do with each other.           *)

(* The commands that x is a step of; n loops of the command are left.      *)
Uses(x, cmd, n) ==
  /\ x = "create" => cmd = "add"
  /\ x = "enable" => cmd = "start"
  /\ x = "disable" => cmd = "disable"
  /\ x = "if-stopped" => cmd \in {"start", "start-all"}
  /\ x = "if-stopped-yet" => cmd = "stop-all" /\ n = 1
  /\ x = "if-running" => cmd \notin Starting \cup Removing \cup {"regenerate"}
                         /\ (cmd = "stop-all" => n = 2)
  /\ x \in {"lxc-start", "backup-ready", "backup-mount", "backup-remount"} =>
       cmd \in Starting
  /\ x = "online" => cmd \in Starting \cup {"reboot"}
  /\ x = "shutdown" => cmd \in Stopping /\ (cmd = "stop-all" => n = 2)
  /\ x = "reboot" => cmd \in Rebooting
  /\ x = "lxc-stop" => cmd \in {"kill", "kill-all"} \cup Removing
  /\ x = "rsync" => cmd = "remove"
  /\ x \in {"rm", "bind-look", "bind-umount", "bind-rmdir", "backup-umount",
            "backup-rmdir"} => cmd \in Removing
  /\ x = "bind-mount" => cmd \in Starting \cup {"regenerate"}
  /\ x \in {"nfs-ready", "nfs-mount"} =>
       cmd \in Starting \cup Rebooting \cup {"regenerate"}
  /\ x \in {"nfs-look", "nfs-umount", "nfs-rmdir"} =>
       cmd \notin Starting /\ (cmd = "stop-all" => n = 3)

(* The step x is right before y.                                           *)
Adjacent(x, y, cmd) ==
  /\ x = "bind-look" => y = "bind-umount"
  /\ x = "nfs-look" => y = "nfs-umount"
  /\ x = "bind-umount" <=> y = "bind-rmdir"
  /\ x = "nfs-umount" <=> y = "nfs-rmdir"
  /\ x = "nfs-ready" => y = "nfs-mount"
  /\ x = "backup-mount" <=> y = "backup-remount"
  /\ y = "backup-rmdir" => x = "backup-umount"
  /\ y = "rm" => x = "rsync" \/ cmd = "destroy"

(* Some time after x there is y.                                           *)
Before(x, y) ==
  /\ x # "rm" /\ y \notin {"create", "enable"}
  /\ y = "if-stopped" => x = "enable"
  /\ y = "lxc-start" => x \in {"create", "enable", "if-stopped", "bind-mount"}
  /\ x = "backup-ready" => y \notin {"online", "nfs-mount"}
  /\ x \in {"shutdown", "lxc-stop"} => y # "nfs-umount"

(* There are steps after x, in R.                                          *)
Followed(x, cmd, R) ==
  /\ x \in {"bind-look", "nfs-look", "bind-umount", "nfs-umount", "nfs-ready",
            "backup-mount"} => R # {}
  /\ x = "if-running" /\ cmd = "disable" => "disable" \in R
  /\ x = "if-stopped" => "lxc-start" \in R
  /\ x = "lxc-start" => "online" \in R
  /\ x = "online" /\ cmd \in Starting => "nfs-mount" \in R
  /\ x = "nfs-umount" /\ cmd = "regenerate" => "nfs-mount" \in R
  /\ x = "nfs-umount" /\ cmd \in Unmounting => {"shutdown", "lxc-stop"} \cap R # {}

(* s is what is left of a loop of cmd, of which n are left.                *)
InOrder(s, cmd, n) ==
  /\ \A i \in 1 .. Len(s) :
       /\ Uses(s[i], cmd, n)
       /\ Followed(s[i], cmd, {s[k] : k \in i + 1 .. Len(s)})
  /\ \A i \in 1 .. Len(s) : i + 1 <= Len(s) => Adjacent(s[i], s[i + 1], cmd)
  /\ \A i, k \in 1 .. Len(s) : i < k => Before(s[i], s[k])

(* s is such a loop from its beginning.                                    *)
Begins(s, cmd, n) ==
  /\ cmd = "add" => "create" \in Rest(s)
  /\ cmd = "start" => "enable" \in Rest(s)
  /\ cmd \in {"start", "start-all"} => "if-stopped" \in Rest(s)
  /\ cmd \in Starting => "lxc-start" \in Rest(s)
  /\ cmd \in Unmounting => "nfs-umount" \in Rest(s)
  /\ cmd \in Removing => {"bind-umount", "backup-umount", "lxc-stop"} \subseteq Rest(s)
  /\ cmd = "stop-all" /\ n = 3 => "nfs-umount" \in Rest(s)
  /\ cmd = "stop-all" /\ n = 2 => "shutdown" \in Rest(s)
  /\ Head(s) \notin {"bind-rmdir", "nfs-rmdir", "backup-rmdir", "rm", "backup-remount"}

Whole(s, cmd, n) == s \in Seq(Steps) /\ s # <<>> /\ InOrder(s, cmd, n) /\ Begins(s, cmd, n)

(* The loops of cmd that are left.                                         *)
LoopsOf(cmd) ==
  IF cmd = "stop-all"
  THEN {Loops(cmd), Tail(Loops(cmd)), Tail(Tail(Loops(cmd)))}
  ELSE {Loops(cmd)}

JobRecord ==
  [cmd : Commands \cup {"none"}, c : Names, exact : BOOLEAN, list : SUBSET Names,
   loops : Seq(Seq(Steps)), steps : Seq(Steps), again : BOOLEAN]

Running(e, j) ==
  /\ j \in JobRecord /\ j.cmd \in Commands \cap e.commands
  /\ j.exact \/ "capitals" \in e.faults
  /\ j.loops \in LoopsOf(j.cmd)
  /\ InOrder(j.steps, j.cmd, Len(j.loops))
  /\ j.steps # <<>> /\ j.cmd \notin ForAll => j.list = {}
  /\ j.cmd \notin ForAll => \A c, d \in j.list : c = d
  /\ j.again => j.cmd = "stop-all" /\ Len(j.loops) = 1

(* j is the command that runs, NoJob if none does.                         *)
Only(j, jobs) ==
  \/ j = NoJob /\ \A q \in Callers : jobs[q] = NoJob
  \/ /\ j.cmd # "none"
     /\ \E p \in Callers : jobs[p] = j /\ \A q \in Callers \ {p} : jobs[q] = NoJob

-----------------------------------------------------------------------------
(* A container that is not there is not disabled; one that add makes was   *)
(* not there; a container is started only when it is not disabled.         *)
EnabledOK(rf, di) == \A c \in Names : rf[c] = "none" => ~di[c]

AddOK(j, rf, di) ==
  j.cmd = "add" => /\ \A c \in j.list : rf[c] = "none"
                   /\ j.steps # <<>> => ~di[j.c]

StartOK(j, di) ==
  j.cmd \in {"start", "start-all"} /\ j.steps # <<>> =>
    /\ "if-stopped" \in Rest(j.steps) \/ ~di[j.c]
    /\ j.cmd = "start" => "enable" \in Rest(j.steps) \/ ~di[j.c]

(* The containers that a command has before it are there.                  *)
ExistsOK(j, rf) ==
  /\ j.cmd \notin {"none", "add"} \cup Removing =>
       /\ \A c \in j.list : rf[c] # "none"
       /\ j.steps # <<>> => rf[j.c] # "none"
  /\ j.cmd = "add" /\ j.steps # <<>> =>
       "create" \in Rest(j.steps) \/ rf[j.c] # "none"

(* What is removed is not mounted or copied; a writable backup is about to *)
(* be remounted.                                                           *)
DirsOK(e, j, mn) ==
  /\ \A k \in {"bind", "nfs"} : First(j, RmdirAt[k]) => mn[k][j.c] = "none"
  /\ First(j, "backup-rmdir") => mn["backup"][j.c] = "none" \/ "busy" \in e.faults

CopyOK(e, j, rf, tm) ==
  First(j, "rm") => j.cmd = "destroy" \/ tm[j.c] = rf[j.c] \/ "rsync" \in e.faults

WritableOK(e, j, mn) ==
  \A c \in Names : mn["backup"][c] = "rw" =>
    "kill" \in e.faults \/ (c = j.c /\ First(j, "backup-remount"))

(* Where nothing goes wrong: a container that is not there does not run    *)
(* and has nothing mounted; remove has done what it has not to do any more.*)
GoneOK(rf, rn, mn) ==
  \A c \in Names : rf[c] = "none" =>
    rn[c] = "stopped" /\ \A k \in Kinds : mn[k][c] = "none"

RemoveOK(j, rn, mn) ==
  j.cmd \in Removing /\ j.steps # <<>> =>
    /\ "bind-umount" \in Rest(j.steps) \/ mn["bind"][j.c] = "none"
    /\ "backup-umount" \in Rest(j.steps) \/ mn["backup"][j.c] = "none"
    /\ "lxc-stop" \in Rest(j.steps) \/ rn[j.c] = "stopped"

UnmountOK(j, nf) ==
  j.cmd \in Unmounting /\ j.steps # <<>> =>
    "nfs-umount" \in Rest(j.steps) \/ nf[j.c] = "none"

(* stop-all: the first loop unmounts, the second one shuts down, the third *)
(* one waits.                                                              *)
StopAllOK(j, rn, nf) ==
  j.cmd = "stop-all" =>
    /\ \A c \in Names :
         \/ nf[c] = "none"
         \/ Len(j.loops) = 3 /\ (c \in j.list \/ (c = j.c /\ "nfs-umount" \in Rest(j.steps)))
    /\ Len(j.loops) = 2 => \A c \in Names : rn[c] = "up" =>
         c \in j.list \/ (c = j.c /\ "shutdown" \in Rest(j.steps))
    /\ Len(j.loops) = 1 => \A c \in Names : rn[c] # "up"
    /\ Len(j.loops) = 1 /\ ~j.again => \A c \in Names : rn[c] # "stopped" =>
         c \in j.list \/ (c = j.c /\ j.steps # <<>>)

(* Containers go down only while they are stopped, and up only while they  *)
(* are started, as a command begins when all are settled.                  *)
SettledOK(j, rn) ==
  /\ j.cmd \notin {"none"} \cup Stopping => \A c \in Names : rn[c] # "halting"
  /\ j.cmd \notin {"none"} \cup Starting \cup Rebooting =>
       \A c \in Names : rn[c] \notin {"booting", "rebooting"}

(* The share of a container that goes down is unmounted.                   *)
SharesOK(rn, nf) ==
  \A c \in Names : rn[c] \in {"stopped", "halting"} => nf[c] = "none"

(* Where nobody reboots: start waits for the container and mounts its      *)
(* share; where a share is not mounted, it will be, or the container stops.*)
NoReboots(e) == e.commands \cap Rebooting = {}

BootOK(j, rn) ==
  \A c \in Names :
    /\ rn[c] # "rebooting"
    /\ rn[c] = "booting" => /\ c = j.c /\ "online" \in Rest(j.steps)
                            /\ "lxc-start" \notin Rest(j.steps)

Cares(j) ==
  \/ j.cmd \in Starting /\ "nfs-mount" \in Rest(j.steps) /\ "lxc-start" \notin Rest(j.steps)
  \/ j.cmd = "regenerate" /\ "nfs-mount" \in Rest(j.steps)
  \/ j.cmd \in Unmounting /\ {"shutdown", "lxc-stop"} \cap Rest(j.steps) # {}

UpOK(j, rn, nf) ==
  \A c \in Names : rn[c] = "up" =>
    nf[c] # "none" \/ j.cmd = "stop-all" \/ (c = j.c /\ Cares(j))

(* start and add start.                                                    *)
StartedOK(j, rn) ==
  j.cmd \in {"start", "add"} /\ j.list = {} =>
    "lxc-start" \in Rest(j.steps) \/ rn[j.c] \in {"booting", "up", "rebooting"}

-----------------------------------------------------------------------------
(* What holds of the one command j and the state of the host, whatever     *)
(* goes wrong, and what holds where nothing does.                          *)
FilesOK(j, rf, di) ==
  EnabledOK(rf, di) /\ AddOK(j, rf, di) /\ StartOK(j, di) /\ ExistsOK(j, rf)

NextOK(e, j, rf, tm, mn) ==
  DirsOK(e, j, mn) /\ CopyOK(e, j, rf, tm) /\ WritableOK(e, j, mn)

NfsOK(j, rn, nf) ==
  /\ UnmountOK(j, nf) /\ StopAllOK(j, rn, nf) /\ SettledOK(j, rn) /\ SharesOK(rn, nf)
  /\ StartedOK(j, rn)

WatchOK(j, rn, nf) == BootOK(j, rn) /\ UpOK(j, rn, nf)

WellIn(e) == e.settled /\ e.faults = {}

Holds(e, j, rf, tm, rn, di, mn) ==
  /\ FilesOK(j, rf, di) /\ NextOK(e, j, rf, tm, mn)
  /\ WellIn(e) => GoneOK(rf, rn, mn) /\ RemoveOK(j, rn, mn) /\ NfsOK(j, rn, mn["nfs"])
  /\ WellIn(e) /\ NoReboots(e) => WatchOK(j, rn, mn["nfs"])

Runs == {"stopped", "booting", "up", "halting", "rebooting"}
Mounts == [Kinds -> [Names -> {"none", "rw", "ro"}]]

StateOK ==
  /\ env \in Envs
  /\ rootfs \in [Names -> Files] /\ tmp \in [Names -> Files]
  /\ store \in [Names -> BOOLEAN] /\ disabled \in [Names -> BOOLEAN]
  /\ run \in [Names -> Runs] /\ mnt \in Mounts
  /\ job \in [Callers -> JobRecord]

(* The invariant, of the command that runs.                                *)
Alone(e, j, jobs) == Only(j, jobs) /\ (j = NoJob \/ Running(e, j))

Is(j) ==
  StateOK /\ Alone(env, j, job) /\ Holds(env, j, rootfs, tmp, run, disabled, mnt)

Inv == \E j \in JobRecord : Is(j)

-----------------------------------------------------------------------------
(* The programs, written out.                                              *)
AddLoop == <<"create", "bind-mount", "lxc-start", "bind-mount", "online",
             "nfs-ready", "nfs-mount", "backup-ready", "backup-mount",
             "backup-remount">>
StartLoop == <<"enable", "if-stopped", "lxc-start", "bind-mount", "online",
               "nfs-ready", "nfs-mount", "backup-ready", "backup-mount",
               "backup-remount">>
StartAllLoop == <<"if-stopped", "lxc-start", "bind-mount", "online",
                  "nfs-ready", "nfs-mount", "backup-ready", "backup-mount",
                  "backup-remount">>
StopLoop == <<"nfs-look", "nfs-umount", "nfs-rmdir", "if-running",
              "nfs-look", "nfs-umount", "nfs-rmdir", "shutdown">>
DisableLoop == <<"nfs-look", "nfs-umount", "nfs-rmdir", "if-running",
                 "nfs-look", "nfs-umount", "nfs-rmdir", "shutdown",
                 "disable">>
ShutdownLoop == <<"if-running", "shutdown">>
WaitLoop == <<"if-stopped-yet">>
KillLoop == <<"if-running", "nfs-look", "nfs-umount", "nfs-rmdir",
              "lxc-stop">>
RebootLoop == <<"if-running", "nfs-look", "nfs-umount", "nfs-rmdir",
                "reboot", "online", "nfs-ready", "nfs-mount">>
RebootAllLoop == <<"if-running", "nfs-look", "nfs-umount", "nfs-rmdir",
                   "reboot", "nfs-ready", "nfs-mount">>
RemoveLoop == <<"bind-look", "bind-umount", "bind-rmdir", "nfs-look",
                "nfs-umount", "nfs-rmdir", "backup-umount", "backup-rmdir",
                "lxc-stop", "rsync", "rm">>
DestroyLoop == <<"bind-look", "bind-umount", "bind-rmdir", "nfs-look",
                 "nfs-umount", "nfs-rmdir", "backup-umount", "backup-rmdir",
                 "lxc-stop", "rm">>
RegenerateLoop == <<"bind-mount", "nfs-look", "nfs-umount", "nfs-rmdir",
                    "nfs-ready", "nfs-mount">>

(* The steps are words.                                                    *)
LEMMA Words ==
  {"create", "enable", "disable", "if-running", "if-stopped", "if-stopped-yet",
   "lxc-start", "online", "shutdown", "reboot", "lxc-stop", "rsync", "rm",
   "bind-mount", "bind-look", "bind-umount", "bind-rmdir", "nfs-look", "nfs-umount",
   "nfs-rmdir", "backup-umount", "backup-rmdir", "nfs-ready", "nfs-mount",
   "backup-ready", "backup-mount", "backup-remount"} \subseteq Steps
BY DEF Steps, BindUnmount, NfsUnmount, BackupUnmount, NfsMount, BackupMount

(* A program of m steps is in order, step by step.                         *)
Checks(s, m, cmd, n) ==
  /\ s \in Seq(Steps) /\ Len(s) = m /\ s # <<>>
  /\ \A i \in 1 .. m : Uses(s[i], cmd, n)
  /\ \A i \in 1 .. m : Followed(s[i], cmd, {s[k] : k \in i + 1 .. m})
  /\ \A i \in 1 .. m : i + 1 <= m => Adjacent(s[i], s[i + 1], cmd)
  /\ \A i, k \in 1 .. m : i < k => Before(s[i], s[k])

(* A program that passes the checks is in order.                           *)
LEMMA ChecksAll ==
  ASSUME NEW s, NEW m, NEW cmd, NEW n, Checks(s, m, cmd, n), Begins(s, cmd, n)
  PROVE  Whole(s, cmd, n)
BY DEF Checks, Whole, InOrder

(* The order of the steps of add.                                          *)
LEMMA AddWhole == Whole(AddLoop, "add", 1)
<1>1. Checks(AddLoop, 10, "add", 1)
  BY Words DEF Checks, AddLoop, Uses, Adjacent, Before, Followed, Starting, Rebooting,
     Removing, Stopping, Unmounting
<1>2. Begins(AddLoop, "add", 1)
  BY DEF AddLoop, Begins, Rest, Starting, Unmounting, Removing
<1> QED BY <1>1, <1>2, ChecksAll

(* The order of the steps of start.                                        *)
LEMMA StartWhole == Whole(StartLoop, "start", 1)
<1>1. Checks(StartLoop, 10, "start", 1)
  BY Words DEF Checks, StartLoop, Uses, Adjacent, Before, Followed, Starting, Rebooting,
     Removing, Stopping, Unmounting
<1>2. Begins(StartLoop, "start", 1)
  BY DEF StartLoop, Begins, Rest, Starting, Unmounting, Removing
<1> QED BY <1>1, <1>2, ChecksAll

(* The order of the steps of start-all.                                    *)
LEMMA StartAllWhole == Whole(StartAllLoop, "start-all", 1)
<1>1. Checks(StartAllLoop, 9, "start-all", 1)
  BY Words DEF Checks, StartAllLoop, Uses, Adjacent, Before, Followed, Starting, Rebooting,
     Removing, Stopping, Unmounting
<1>2. Begins(StartAllLoop, "start-all", 1)
  BY DEF StartAllLoop, Begins, Rest, Starting, Unmounting, Removing
<1> QED BY <1>1, <1>2, ChecksAll

(* The order of the steps of stop.                                         *)
LEMMA StopWhole == Whole(StopLoop, "stop", 1)
<1>1. Checks(StopLoop, 8, "stop", 1)
  BY Words DEF Checks, StopLoop, Uses, Adjacent, Before, Followed, Starting, Rebooting,
     Removing, Stopping, Unmounting
<1>2. Begins(StopLoop, "stop", 1)
  BY DEF StopLoop, Begins, Rest, Starting, Unmounting, Removing
<1> QED BY <1>1, <1>2, ChecksAll

(* The order of the steps of disable.                                      *)
LEMMA DisableWhole == Whole(DisableLoop, "disable", 1)
<1>1. Checks(DisableLoop, 9, "disable", 1)
  BY Words DEF Checks, DisableLoop, Uses, Adjacent, Before, Followed, Starting, Rebooting,
     Removing, Stopping, Unmounting
<1>2. Begins(DisableLoop, "disable", 1)
  BY DEF DisableLoop, Begins, Rest, Starting, Unmounting, Removing
<1> QED BY <1>1, <1>2, ChecksAll

(* The order of the steps of the first loop of stop-all.                   *)
LEMMA UnmountWhole == Whole(NfsUnmount, "stop-all", 3)
<1>1. Checks(NfsUnmount, 3, "stop-all", 3)
  BY Words DEF Checks, NfsUnmount, Uses, Adjacent, Before, Followed, Starting, Rebooting,
     Removing, Stopping, Unmounting
<1>2. Begins(NfsUnmount, "stop-all", 3)
  BY DEF NfsUnmount, Begins, Rest, Starting, Unmounting, Removing
<1> QED BY <1>1, <1>2, ChecksAll

(* The order of the steps of the second loop of stop-all.                  *)
LEMMA ShutdownWhole == Whole(ShutdownLoop, "stop-all", 2)
<1>1. Checks(ShutdownLoop, 2, "stop-all", 2)
  BY Words DEF Checks, ShutdownLoop, Uses, Adjacent, Before, Followed, Starting, Rebooting,
     Removing, Stopping, Unmounting
<1>2. Begins(ShutdownLoop, "stop-all", 2)
  BY DEF ShutdownLoop, Begins, Rest, Starting, Unmounting, Removing
<1> QED BY <1>1, <1>2, ChecksAll

(* The order of the steps of the third loop of stop-all.                   *)
LEMMA WaitWhole == Whole(WaitLoop, "stop-all", 1)
<1>1. Checks(WaitLoop, 1, "stop-all", 1)
  BY Words DEF Checks, WaitLoop, Uses, Adjacent, Before, Followed, Starting, Rebooting,
     Removing, Stopping, Unmounting
<1>2. Begins(WaitLoop, "stop-all", 1)
  BY DEF WaitLoop, Begins, Rest, Starting, Unmounting, Removing
<1> QED BY <1>1, <1>2, ChecksAll

(* The order of the steps of kill and kill-all.                            *)
LEMMA KillWhole ==
  ASSUME NEW cmd \in {"kill", "kill-all"}
  PROVE  Whole(KillLoop, cmd, 1)
<1>1. Checks(KillLoop, 5, cmd, 1)
  BY Words DEF Checks, KillLoop, Uses, Adjacent, Before, Followed, Starting, Rebooting,
     Removing, Stopping, Unmounting
<1>2. Begins(KillLoop, cmd, 1)
  BY DEF KillLoop, Begins, Rest, Starting, Unmounting, Removing
<1> QED BY <1>1, <1>2, ChecksAll

(* The order of the steps of reboot.                                       *)
LEMMA RebootWhole == Whole(RebootLoop, "reboot", 1)
<1>1. Checks(RebootLoop, 8, "reboot", 1)
  BY Words DEF Checks, RebootLoop, Uses, Adjacent, Before, Followed, Starting, Rebooting,
     Removing, Stopping, Unmounting
<1>2. Begins(RebootLoop, "reboot", 1)
  BY DEF RebootLoop, Begins, Rest, Starting, Unmounting, Removing
<1> QED BY <1>1, <1>2, ChecksAll

(* The order of the steps of reboot-all.                                   *)
LEMMA RebootAllWhole == Whole(RebootAllLoop, "reboot-all", 1)
<1>1. Checks(RebootAllLoop, 7, "reboot-all", 1)
  BY Words DEF Checks, RebootAllLoop, Uses, Adjacent, Before, Followed, Starting, Rebooting,
     Removing, Stopping, Unmounting
<1>2. Begins(RebootAllLoop, "reboot-all", 1)
  BY DEF RebootAllLoop, Begins, Rest, Starting, Unmounting, Removing
<1> QED BY <1>1, <1>2, ChecksAll

(* The order of the steps of remove.                                       *)
LEMMA RemoveWhole == Whole(RemoveLoop, "remove", 1)
<1>1. Checks(RemoveLoop, 11, "remove", 1)
  BY Words DEF Checks, RemoveLoop, Uses, Adjacent, Before, Followed, Starting, Rebooting,
     Removing, Stopping, Unmounting
<1>2. Begins(RemoveLoop, "remove", 1)
  BY DEF RemoveLoop, Begins, Rest, Starting, Unmounting, Removing
<1> QED BY <1>1, <1>2, ChecksAll

(* The order of the steps of destroy.                                      *)
LEMMA DestroyWhole == Whole(DestroyLoop, "destroy", 1)
<1>1. Checks(DestroyLoop, 10, "destroy", 1)
  BY Words DEF Checks, DestroyLoop, Uses, Adjacent, Before, Followed, Starting, Rebooting,
     Removing, Stopping, Unmounting
<1>2. Begins(DestroyLoop, "destroy", 1)
  BY DEF DestroyLoop, Begins, Rest, Starting, Unmounting, Removing
<1> QED BY <1>1, <1>2, ChecksAll

(* The order of the steps of regenerate.                                   *)
LEMMA RegenerateWhole == Whole(RegenerateLoop, "regenerate", 1)
<1>1. Checks(RegenerateLoop, 6, "regenerate", 1)
  BY Words DEF Checks, RegenerateLoop, Uses, Adjacent, Before, Followed, Starting, Rebooting,
     Removing, Stopping, Unmounting
<1>2. Begins(RegenerateLoop, "regenerate", 1)
  BY DEF RegenerateLoop, Begins, Rest, Starting, Unmounting, Removing
<1> QED BY <1>1, <1>2, ChecksAll
-----------------------------------------------------------------------------
(* u is s followed by t, index by index.                                   *)
Glue(s, t, u) ==
  /\ s \in Seq(Steps) /\ t \in Seq(Steps) /\ u \in Seq(Steps)
  /\ Len(u) = Len(s) + Len(t)
  /\ \A i \in 1 .. Len(u) : u[i] = IF i <= Len(s) THEN s[i] ELSE t[i - Len(s)]

(* Two literal programs glued together are the literal program.            *)
LEMMA Glued ==
  ASSUME NEW s, NEW t, NEW u, Glue(s, t, u)
  PROVE  s \o t = u
<1>1. PICK st : st = s \o t
  OBVIOUS
<1>2. /\ st \in Seq(Steps) /\ Len(st) = Len(s) + Len(t)
      /\ \A i \in 1 .. Len(st) : st[i] = IF i <= Len(s) THEN s[i] ELSE t[i - Len(s)]
  BY <1>1, ConcatProperties DEF Glue
<1>3. st = u
  BY <1>2, SeqEqual DEF Glue
<1> QED BY <1>1, <1>3

(* lxc_start, and the programs that end with it.                           *)
LEMMA StartPrograms ==
  /\ <<"create", "bind-mount">> \o lxc_start = AddLoop
  /\ <<"enable", "if-stopped">> \o lxc_start = StartLoop
  /\ <<"if-stopped">> \o lxc_start = StartAllLoop
<1> DEFINE a == <<"lxc-start", "bind-mount", "online">>
           b == <<"lxc-start", "bind-mount", "online", "nfs-ready", "nfs-mount">>
           c == <<"lxc-start", "bind-mount", "online", "nfs-ready", "nfs-mount",
                  "backup-ready", "backup-mount", "backup-remount">>
<1>1. Glue(a, NfsMount, b) /\ Glue(b, BackupMount, c)
  BY Words DEF Glue, NfsMount, BackupMount
<1>2. /\ Glue(<<"create", "bind-mount">>, c, AddLoop)
      /\ Glue(<<"enable", "if-stopped">>, c, StartLoop)
      /\ Glue(<<"if-stopped">>, c, StartAllLoop)
  BY Words DEF Glue, AddLoop, StartLoop, StartAllLoop
<1>3. lxc_start = a \o NfsMount \o BackupMount
  BY DEF lxc_start
<1> HIDE DEF a, b, c
<1>4. a \o NfsMount = b /\ b \o BackupMount = c
  BY <1>1, Glued, Zenon
<1>5. lxc_start = c
  BY <1>3, <1>4
<1> QED BY <1>2, <1>5, Glued, Zenon

(* The programs that unmount what is mounted over NFS.                     *)
LEMMA StopPrograms ==
  /\ NfsUnmount \o <<"if-running">> \o NfsUnmount \o <<"shutdown">> = StopLoop
  /\ NfsUnmount \o <<"if-running">> \o NfsUnmount \o <<"shutdown", "disable">>
       = DisableLoop
  /\ <<"if-running">> \o NfsUnmount \o <<"lxc-stop">> = KillLoop
  /\ <<"if-running">> \o NfsUnmount \o <<"reboot", "online">> \o NfsMount = RebootLoop
  /\ <<"if-running">> \o NfsUnmount \o <<"reboot">> \o NfsMount = RebootAllLoop
  /\ <<"bind-mount">> \o NfsUnmount \o NfsMount = RegenerateLoop
<1> DEFINE a == <<"nfs-look", "nfs-umount", "nfs-rmdir", "if-running">>
           b == <<"nfs-look", "nfs-umount", "nfs-rmdir", "if-running",
                  "nfs-look", "nfs-umount", "nfs-rmdir">>
           c == <<"if-running", "nfs-look", "nfs-umount", "nfs-rmdir">>
           d == <<"if-running", "nfs-look", "nfs-umount", "nfs-rmdir",
                  "reboot", "online">>
           e == <<"if-running", "nfs-look", "nfs-umount", "nfs-rmdir", "reboot">>
           f == <<"bind-mount", "nfs-look", "nfs-umount", "nfs-rmdir">>
<1>1. /\ Glue(NfsUnmount, <<"if-running">>, a) /\ Glue(a, NfsUnmount, b)
      /\ Glue(b, <<"shutdown">>, StopLoop)
      /\ Glue(b, <<"shutdown", "disable">>, DisableLoop)
  BY Words DEF Glue, NfsUnmount, StopLoop, DisableLoop
<1>2. /\ Glue(<<"if-running">>, NfsUnmount, c) /\ Glue(c, <<"lxc-stop">>, KillLoop)
      /\ Glue(c, <<"reboot", "online">>, d) /\ Glue(d, NfsMount, RebootLoop)
      /\ Glue(c, <<"reboot">>, e) /\ Glue(e, NfsMount, RebootAllLoop)
  BY Words DEF Glue, NfsUnmount, NfsMount, KillLoop, RebootLoop, RebootAllLoop
<1>3. Glue(<<"bind-mount">>, NfsUnmount, f) /\ Glue(f, NfsMount, RegenerateLoop)
  BY Words DEF Glue, NfsUnmount, NfsMount, RegenerateLoop
<1> HIDE DEF a, b, c, d, e, f
<1>4. /\ NfsUnmount \o <<"if-running">> = a /\ a \o NfsUnmount = b
      /\ b \o <<"shutdown">> = StopLoop /\ b \o <<"shutdown", "disable">> = DisableLoop
  BY <1>1, Glued, Zenon
<1>5. /\ <<"if-running">> \o NfsUnmount = c /\ c \o <<"lxc-stop">> = KillLoop
      /\ c \o <<"reboot", "online">> = d /\ d \o NfsMount = RebootLoop
      /\ c \o <<"reboot">> = e /\ e \o NfsMount = RebootAllLoop
  BY <1>2, Glued, Zenon
<1>6. <<"bind-mount">> \o NfsUnmount = f /\ f \o NfsMount = RegenerateLoop
  BY <1>3, Glued, Zenon
<1> QED BY <1>4, <1>5, <1>6

(* The programs that remove a container.                                   *)
LEMMA RemovePrograms ==
  /\ BindUnmount \o NfsUnmount \o BackupUnmount \o <<"lxc-stop", "rsync", "rm">>
       = RemoveLoop
  /\ BindUnmount \o NfsUnmount \o BackupUnmount \o <<"lxc-stop", "rm">> = DestroyLoop
<1> DEFINE a == <<"bind-look", "bind-umount", "bind-rmdir", "nfs-look",
                  "nfs-umount", "nfs-rmdir">>
           b == <<"bind-look", "bind-umount", "bind-rmdir", "nfs-look",
                  "nfs-umount", "nfs-rmdir", "backup-umount", "backup-rmdir">>
<1>1. /\ Glue(BindUnmount, NfsUnmount, a) /\ Glue(a, BackupUnmount, b)
      /\ Glue(b, <<"lxc-stop", "rsync", "rm">>, RemoveLoop)
      /\ Glue(b, <<"lxc-stop", "rm">>, DestroyLoop)
  BY Words DEF Glue, BindUnmount, NfsUnmount, BackupUnmount, RemoveLoop, DestroyLoop
<1> HIDE DEF a, b
<1>2. /\ BindUnmount \o NfsUnmount = a /\ a \o BackupUnmount = b
      /\ b \o <<"lxc-stop", "rsync", "rm">> = RemoveLoop
      /\ b \o <<"lxc-stop", "rm">> = DestroyLoop
  BY <1>1, Glued, Zenon
<1> QED BY <1>2

(* What is left of a command of one loop, and of stop-all.                 *)
LEMMA OneLoop ==
  ASSUME NEW cmd \in Commands \ {"stop-all"}
  PROVE  \E s : Loops(cmd) = <<s>> /\ Whole(s, cmd, 1)
<1>1. CASE cmd = "add"
  BY <1>1, StartPrograms, AddWhole DEF Loops
<1>2. CASE cmd = "start"
  BY <1>2, StartPrograms, StartWhole DEF Loops
<1>3. CASE cmd = "start-all"
  BY <1>3, StartPrograms, StartAllWhole DEF Loops
<1>4. CASE cmd = "stop"
  BY <1>4, StopPrograms, StopWhole DEF Loops
<1>5. CASE cmd = "disable"
  BY <1>5, StopPrograms, DisableWhole DEF Loops
<1>6. CASE cmd \in {"kill", "kill-all"}
  BY <1>6, StopPrograms, KillWhole DEF Loops
<1>7. CASE cmd = "reboot"
  BY <1>7, StopPrograms, RebootWhole DEF Loops
<1>8. CASE cmd = "reboot-all"
  BY <1>8, StopPrograms, RebootAllWhole DEF Loops
<1>9. CASE cmd = "remove"
  BY <1>9, RemovePrograms, RemoveWhole DEF Loops
<1>10. CASE cmd = "destroy"
  BY <1>10, RemovePrograms, DestroyWhole DEF Loops
<1>11. CASE cmd = "regenerate"
  BY <1>11, StopPrograms, RegenerateWhole DEF Loops
<1> QED BY <1>1, <1>2, <1>3, <1>4, <1>5, <1>6, <1>7, <1>8, <1>9, <1>10, <1>11
        DEF Commands

(* stop-all goes over the containers three times.                          *)
LEMMA ThreeLoops ==
  /\ Loops("stop-all") = <<NfsUnmount, ShutdownLoop, WaitLoop>>
  /\ Tail(Loops("stop-all")) = <<ShutdownLoop, WaitLoop>>
  /\ Tail(Tail(Loops("stop-all"))) = <<WaitLoop>>
<1>1. Loops("stop-all") = <<NfsUnmount, ShutdownLoop, WaitLoop>>
  BY DEF Loops, ShutdownLoop, WaitLoop
<1>2. Tail(<<NfsUnmount, ShutdownLoop, WaitLoop>>) = <<ShutdownLoop, WaitLoop>>
  OBVIOUS
<1>3. Tail(<<ShutdownLoop, WaitLoop>>) = <<WaitLoop>>
  OBVIOUS
<1> QED BY <1>1, <1>2, <1>3

(* Each of the loops that may be left of a command is a whole program.     *)
LEMMA LoopsLeft ==
  ASSUME NEW cmd \in Commands, NEW l \in LoopsOf(cmd)
  PROVE  /\ l \in Seq(Seq(Steps)) /\ Len(l) \in 1 .. 3
         /\ Whole(Head(l), cmd, Len(l))
         /\ Len(l) > 1 => /\ cmd = "stop-all" /\ Tail(l) \in LoopsOf(cmd)
                          /\ Len(Tail(l)) = Len(l) - 1
<1>1. CASE cmd # "stop-all"
  <2>1. l = Loops(cmd)
    BY <1>1 DEF LoopsOf
  <2>2. PICK s : Loops(cmd) = <<s>> /\ Whole(s, cmd, 1)
    BY <1>1, OneLoop
  <2> QED BY <2>1, <2>2 DEF Whole
<1>2. CASE cmd = "stop-all"
  <2>1. /\ NfsUnmount \in Seq(Steps) /\ ShutdownLoop \in Seq(Steps) /\ WaitLoop \in Seq(Steps)
        /\ Whole(NfsUnmount, cmd, 3) /\ Whole(ShutdownLoop, cmd, 2)
        /\ Whole(WaitLoop, cmd, 1)
    BY <1>2, UnmountWhole, ShutdownWhole, WaitWhole DEF Whole
  <2>2. CASE l = <<NfsUnmount, ShutdownLoop, WaitLoop>>
    <3>1. l \in Seq(Seq(Steps)) /\ Len(l) = 3 /\ Head(l) = NfsUnmount
      BY <2>1, <2>2
    <3>2. Len(<<ShutdownLoop, WaitLoop>>) = 2
      OBVIOUS
    <3>3. Tail(l) = <<ShutdownLoop, WaitLoop>> /\ Tail(l) \in LoopsOf(cmd)
      BY <1>2, <2>2, ThreeLoops DEF LoopsOf
    <3> QED BY <1>2, <2>1, <3>1, <3>2, <3>3
  <2>3. CASE l = <<ShutdownLoop, WaitLoop>>
    BY <1>2, <2>1, <2>3, ThreeLoops DEF LoopsOf
  <2>4. CASE l = <<WaitLoop>>
    BY <1>2, <2>1, <2>4, ThreeLoops DEF LoopsOf
  <2> QED BY <1>2, <2>2, <2>3, <2>4, ThreeLoops DEF LoopsOf
<1> QED BY <1>1, <1>2
-----------------------------------------------------------------------------
(* How a command moves through its programs.                               *)

(* In j the step x is next, and those in R come later.                     *)
Comes(j, x, R) ==
  /\ j.steps # <<>> /\ Rest(j.steps) = {x} \cup R
  /\ Uses(x, j.cmd, Len(j.loops)) /\ Followed(x, j.cmd, R)
  /\ \A y \in R : Before(x, y)

(* j becomes j2: at most the steps in D are not left any more, the last    *)
(* one that was passed is w.                                               *)
Moves(j, j2, D, w) ==
  /\ j2.cmd = j.cmd /\ j2.c = j.c /\ j2.list = j.list /\ j2.loops = j.loops
  /\ j.steps # <<>> /\ j.cmd # "none"
  /\ j.cmd \notin ForAll => j.list = {}
  /\ Rest(j2.steps) \subseteq Rest(j.steps)
  /\ Rest(j.steps) \ D \subseteq Rest(j2.steps)
  /\ j2.steps # <<>> => Adjacent(w, Head(j2.steps), j.cmd)

(* The rest of a program is in order.                                      *)
LEMMA TailInOrder ==
  ASSUME NEW s \in Seq(Steps), s # <<>>, NEW cmd, NEW n, InOrder(s, cmd, n)
  PROVE  /\ Tail(s) \in Seq(Steps) /\ InOrder(Tail(s), cmd, n)
         /\ Rest(s) = {Head(s)} \cup Rest(Tail(s))
         /\ Uses(Head(s), cmd, n) /\ Followed(Head(s), cmd, Rest(Tail(s)))
         /\ \A y \in Rest(Tail(s)) : Before(Head(s), y)
         /\ Tail(s) # <<>> => Adjacent(Head(s), Head(Tail(s)), cmd)
<1>1. PICK t : t = Tail(s)
  OBVIOUS
<1>2. /\ t \in Seq(Steps) /\ Len(s) \in Nat /\ Len(s) >= 1 /\ Len(t) = Len(s) - 1
      /\ \A i \in 1 .. Len(t) : t[i] = s[i + 1]
      /\ Head(s) = s[1] /\ (t # <<>> => Len(t) >= 1 /\ Head(t) = t[1])
  BY <1>1
<1>3. Rest(t) = {s[k] : k \in 2 .. Len(s)}
  <2>1. ASSUME NEW k \in 2 .. Len(s)
        PROVE  s[k] \in Rest(t)
    <3>1. k - 1 \in 1 .. Len(t) /\ t[k - 1] = s[k]
      BY <1>2
    <3> QED BY <3>1 DEF Rest
  <2>2. ASSUME NEW i \in 1 .. Len(t)
        PROVE  i + 1 \in 2 .. Len(s)
    BY <1>2
  <2>3. Rest(t) \subseteq {s[k] : k \in 2 .. Len(s)}
    BY <1>2, <2>2 DEF Rest
  <2> QED BY <2>1, <2>3
<1>4. Rest(s) = {Head(s)} \cup Rest(t)
  <2>1. \A k \in 1 .. Len(s) : k = 1 \/ k \in 2 .. Len(s)
    BY <1>2
  <2>2. 1 \in 1 .. Len(s) /\ \A k \in 2 .. Len(s) : k \in 1 .. Len(s)
    BY <1>2
  <2> QED BY <1>2, <1>3, <2>1, <2>2 DEF Rest
<1>5. Uses(Head(s), cmd, n) /\ Followed(Head(s), cmd, Rest(t))
  <2>1. 1 \in 1 .. Len(s) /\ 1 + 1 = 2
    BY <1>2
  <2>2. Uses(s[1], cmd, n) /\ Followed(s[1], cmd, {s[k] : k \in 1 + 1 .. Len(s)})
    BY <2>1 DEF InOrder
  <2> QED BY <2>1, <2>2, <1>2, <1>3
<1>6. \A y \in Rest(t) : Before(Head(s), y)
  BY <1>2, <1>3 DEF InOrder
<1>7. t # <<>> => Adjacent(Head(s), Head(t), cmd)
  <2>1. ASSUME t # <<>>
        PROVE  1 \in 1 .. Len(s) /\ 1 + 1 <= Len(s) /\ t[1] = s[1 + 1]
    BY <1>2, <2>1
  <2> QED BY <2>1, <1>2 DEF InOrder
<1>8. InOrder(t, cmd, n)
  <2>1. ASSUME NEW i \in 1 .. Len(t)
        PROVE  Uses(t[i], cmd, n) /\ Followed(t[i], cmd, {t[k] : k \in i + 1 .. Len(t)})
    <3>1. PICK m : m = i + 1 /\ m \in 1 .. Len(s) /\ t[i] = s[m]
      BY <1>2
    <3>2. {t[k] : k \in i + 1 .. Len(t)} = {s[k] : k \in m + 1 .. Len(s)}
      <4>1. ASSUME NEW k \in m + 1 .. Len(s)
            PROVE  k - 1 \in i + 1 .. Len(t) /\ t[k - 1] = s[k]
        BY <3>1, <1>2
      <4>2. ASSUME NEW k \in i + 1 .. Len(t)
            PROVE  k + 1 \in m + 1 .. Len(s) /\ t[k] = s[k + 1]
        BY <3>1, <1>2
      <4>3. {s[k] : k \in m + 1 .. Len(s)} \subseteq {t[k] : k \in i + 1 .. Len(t)}
        BY <4>1
      <4>4. {t[k] : k \in i + 1 .. Len(t)} \subseteq {s[k] : k \in m + 1 .. Len(s)}
        BY <4>2
      <4> QED BY <4>3, <4>4
    <3>3. Uses(s[m], cmd, n) /\ Followed(s[m], cmd, {s[k] : k \in m + 1 .. Len(s)})
      BY <3>1 DEF InOrder
    <3> QED BY <3>1, <3>2, <3>3
  <2>2. ASSUME NEW i \in 1 .. Len(t), i + 1 <= Len(t)
        PROVE  Adjacent(t[i], t[i + 1], cmd)
    <3>1. PICK m : m = i + 1 /\ m \in 1 .. Len(s) /\ m + 1 <= Len(s)
      BY <1>2, <2>2
    <3>2. t[i] = s[m] /\ t[i + 1] = s[m + 1]
      BY <3>1, <1>2, <2>2
    <3> QED BY <3>1, <3>2 DEF InOrder
  <2>3. ASSUME NEW i \in 1 .. Len(t), NEW k \in 1 .. Len(t), i < k
        PROVE  Before(t[i], t[k])
    <3>1. /\ i + 1 \in 1 .. Len(s) /\ k + 1 \in 1 .. Len(s) /\ i + 1 < k + 1
          /\ t[i] = s[i + 1] /\ t[k] = s[k + 1]
      BY <1>2, <2>3
    <3> QED BY <3>1 DEF InOrder
  <2> QED BY <2>1, <2>2, <2>3 DEF InOrder
<1> QED BY <1>1, <1>2, <1>4, <1>5, <1>6, <1>7, <1>8

(* A sequence with nothing left is empty.                                  *)
LEMMA RestEmpty ==
  ASSUME NEW s \in Seq(Steps)
  PROVE  s = <<>> <=> Rest(s) = {}
<1>1. s # <<>> => Len(s) \in Nat /\ 1 \in 1 .. Len(s)
  OBVIOUS
<1>2. s = <<>> => Len(s) = 0
  OBVIOUS
<1> QED BY <1>1, <1>2 DEF Rest

(* A caller without a command has nothing to do.                           *)
LEMMA NoJobType ==
  /\ NoJob \in JobRecord /\ NoJob.cmd = "none" /\ NoJob.steps = <<>>
  /\ NoJob.list = {} /\ NoJob.loops = <<>> /\ NoJob.again = FALSE
  /\ Rest(NoJob.steps) = {}
<1>1. (CHOOSE c \in Names : TRUE) \in Names
  BY ConstantsAssumption
<1>2. NoJob \in JobRecord /\ NoJob.cmd = "none" /\ NoJob.steps = <<>>
      /\ NoJob.list = {} /\ NoJob.loops = <<>> /\ NoJob.again = FALSE
  BY <1>1 DEF NoJob, JobRecord
<1> QED BY <1>2, RestEmpty, <<>> \in Seq(Steps)

(* What a running command is made of.                                      *)
LEMMA RunningType ==
  ASSUME NEW e, NEW j, Running(e, j)
  PROVE  /\ j \in JobRecord /\ j.cmd \in Commands /\ j.cmd # "none" /\ j.cmd \in e.commands
         /\ j.c \in Names /\ j.list \subseteq Names /\ j.steps \in Seq(Steps)
         /\ j.exact \in BOOLEAN /\ j.again \in BOOLEAN
         /\ j.loops \in LoopsOf(j.cmd) /\ InOrder(j.steps, j.cmd, Len(j.loops))
BY DEF Running, JobRecord, Commands

(* Who has something to do is the one whose command runs.                  *)
LEMMA TheOne ==
  ASSUME NEW e, NEW j \in JobRecord, Alone(e, j, job), NEW p \in Callers,
         job[p].cmd # "none" \/ job[p].steps # <<>>
  PROVE  /\ j = job[p] /\ Running(e, j)
         /\ \A q \in Callers \ {p} : job[q] = NoJob
BY NoJobType DEF Alone, Only

(* Where a step is next, its command is the one that runs, and what comes  *)
(* after the step is in order.                                             *)
LEMMA Here ==
  ASSUME NEW e, NEW j \in JobRecord, Alone(e, j, job), NEW p \in Callers, NEW x, At(p, x)
  PROVE  /\ j = job[p] /\ Running(e, j) /\ \A q \in Callers \ {p} : job[q] = NoJob
         /\ First(j, x) /\ Comes(j, x, Rest(Tail(j.steps)))
<1>1. job[p].steps # <<>> /\ Head(job[p].steps) = x
  BY DEF At
<1>2. j = job[p] /\ Running(e, j) /\ \A q \in Callers \ {p} : job[q] = NoJob
  BY <1>1, TheOne
<1>3. Comes(j, x, Rest(Tail(j.steps)))
  BY <1>1, <1>2, RunningType, TailInOrder DEF Comes
<1> QED BY <1>1, <1>2, <1>3 DEF First

(* The command of p becomes j2.                                            *)
LEMMA Becomes ==
  ASSUME job \in [Callers -> JobRecord], NEW e, NEW p \in Callers, NEW j2 \in JobRecord,
         \A q \in Callers \ {p} : job[q] = NoJob,
         j2 = NoJob \/ Running(e, j2), job' = [job EXCEPT ![p] = j2]
  PROVE  /\ job' \in [Callers -> JobRecord] /\ job'[p] = j2 /\ Alone(e, j2, job')
<1>1. /\ job' \in [Callers -> JobRecord] /\ job'[p] = j2
      /\ \A q \in Callers \ {p} : job'[q] = NoJob
  OBVIOUS
<1>2. Only(j2, job')
  BY <1>1, RunningType, NoJobType DEF Only
<1> QED BY <1>1, <1>2 DEF Alone

(* It has s to do.                                                         *)
HasToDo(e, j, s, j2) ==
  /\ Running(e, j2) /\ j2 \in JobRecord
  /\ j2.cmd = j.cmd /\ j2.c = j.c /\ j2.list = j.list /\ j2.loops = j.loops
  /\ j2.exact = j.exact /\ j2.again = j.again /\ j2.steps = s
  /\ j.cmd # "none" /\ (j.cmd \notin ForAll => j.list = {})

(* A command with other steps that are in order is a running command.      *)
LEMMA StepsSet ==
  ASSUME NEW e, NEW j, Running(e, j), j.steps # <<>>,
         NEW s, s \in Seq(Steps), InOrder(s, j.cmd, Len(j.loops)),
         NEW j2, j2 = [j EXCEPT !.steps = s]
  PROVE  HasToDo(e, j, s, j2)
<1>1. j \in JobRecord /\ j.cmd # "none"
  BY RunningType
<1>2. /\ j2 \in JobRecord /\ j2.cmd = j.cmd /\ j2.c = j.c /\ j2.list = j.list
      /\ j2.loops = j.loops /\ j2.exact = j.exact /\ j2.again = j.again /\ j2.steps = s
  BY <1>1 DEF JobRecord
<1>3. Running(e, j2)
  BY <1>2 DEF Running
<1> QED BY <1>1, <1>2, <1>3 DEF HasToDo, Running

(* The command of p goes on, from j to j2.                                 *)
Goes(e, p, j, j2, D, w) ==
  /\ job' \in [Callers -> JobRecord] /\ Alone(e, j2, job') /\ Running(e, j2)
  /\ Moves(j, j2, D, w) /\ j2.again = j.again

(* A step is done.                                                         *)
LEMMA Advance ==
  ASSUME job \in [Callers -> JobRecord], NEW e, NEW j \in JobRecord, Alone(e, j, job),
         NEW p \in Callers, NEW x, At(p, x), Done(p)
  PROVE  \E j2 \in JobRecord : /\ Goes(e, p, j, j2, {x}, x)
                               /\ Rest(j2.steps) = Rest(Tail(j.steps))
<1>1. /\ j = job[p] /\ Running(e, j) /\ \A q \in Callers \ {p} : job[q] = NoJob
      /\ First(j, x) /\ Comes(j, x, Rest(Tail(j.steps)))
  BY Here
<1>2. PICK s \in Seq(Steps) : s = Tail(j.steps)
  BY <1>1, RunningType, TailInOrder DEF First
<1>3. /\ InOrder(s, j.cmd, Len(j.loops))
      /\ s # <<>> => Adjacent(x, Head(s), j.cmd)
  BY <1>1, <1>2, RunningType, TailInOrder DEF First
<1>4. PICK j2 : j2 = [j EXCEPT !.steps = s]
  OBVIOUS
<1>5. HasToDo(e, j, s, j2)
  BY <1>1, <1>3, <1>4, StepsSet DEF First
<1>j. job' = [job EXCEPT ![p] = j2]
  BY <1>1, <1>2, <1>4 DEF Done
<1>g. job' \in [Callers -> JobRecord] /\ Alone(e, j2, job')
  BY <1>1, <1>5, <1>j, Becomes DEF HasToDo
<1>6. Moves(j, j2, {x}, x)
  BY <1>1, <1>2, <1>3, <1>5 DEF Moves, Comes, HasToDo
<1> QED BY <1>2, <1>5, <1>6, <1>g DEF Goes, HasToDo

(* A step and the next one are passed.                                     *)
LEMMA Pass ==
  ASSUME job \in [Callers -> JobRecord], NEW e, NEW j \in JobRecord, Alone(e, j, job),
         NEW p \in Callers, NEW x, At(p, x),
         x \in {"bind-umount", "nfs-umount", "nfs-ready"},
         job' = [job EXCEPT ![p].steps = Tail(Tail(@))]
  PROVE  \E j2, y :
           /\ j2 \in JobRecord
           /\ Adjacent(x, y, j.cmd) /\ Goes(e, p, j, j2, {x, y}, y)
           /\ Rest(Tail(j.steps)) = {y} \cup Rest(j2.steps)
<1>1. /\ j = job[p] /\ Running(e, j) /\ \A q \in Callers \ {p} : job[q] = NoJob
      /\ First(j, x) /\ Comes(j, x, Rest(Tail(j.steps)))
  BY Here
<1>2. PICK r : r = Tail(j.steps)
  OBVIOUS
<1>3. /\ r \in Seq(Steps) /\ InOrder(r, j.cmd, Len(j.loops))
      /\ r # <<>> => Adjacent(x, Head(r), j.cmd)
  BY <1>1, <1>2, RunningType, TailInOrder DEF First
<1>4. r # <<>>
  BY <1>1, <1>2, <1>3, RestEmpty DEF Comes, Followed
<1>5. PICK s, y : s = Tail(r) /\ y = Head(r)
  OBVIOUS
<1>6. /\ s \in Seq(Steps) /\ InOrder(s, j.cmd, Len(j.loops))
      /\ Rest(r) = {y} \cup Rest(s)
      /\ s # <<>> => Adjacent(y, Head(s), j.cmd)
  BY <1>3, <1>4, <1>5, TailInOrder
<1>7. PICK j2 : j2 = [j EXCEPT !.steps = s]
  OBVIOUS
<1>8. HasToDo(e, j, s, j2)
  BY <1>1, <1>6, <1>7, StepsSet DEF First
<1>j. job' = [job EXCEPT ![p] = j2]
  BY <1>1, <1>2, <1>5, <1>7
<1>g. job' \in [Callers -> JobRecord] /\ Alone(e, j2, job')
  BY <1>1, <1>8, <1>j, Becomes DEF HasToDo
<1>9. Moves(j, j2, {x, y}, y)
  BY <1>1, <1>2, <1>6, <1>8 DEF Moves, Comes, HasToDo
<1> QED BY <1>2, <1>3, <1>4, <1>5, <1>6, <1>8, <1>9, <1>g DEF Goes, HasToDo

(* A look finds nothing mounted: three steps are passed.                   *)
LEMMA PassAll ==
  ASSUME job \in [Callers -> JobRecord], NEW e, NEW j \in JobRecord, Alone(e, j, job),
         NEW p \in Callers, NEW k \in {"bind", "nfs"}, At(p, LookAt[k]),
         job' = [job EXCEPT ![p].steps = Tail(Tail(Tail(@)))]
  PROVE  \E j2 \in JobRecord :
           Goes(e, p, j, j2, {LookAt[k], UmountAt[k], RmdirAt[k]}, RmdirAt[k])
<1> DEFINE x == LookAt[k]
           y == UmountAt[k]
           z == RmdirAt[k]
<1>0. \/ x = "bind-look" /\ y = "bind-umount" /\ z = "bind-rmdir"
      \/ x = "nfs-look" /\ y = "nfs-umount" /\ z = "nfs-rmdir"
  BY DEF LookAt, UmountAt, RmdirAt
<1> HIDE DEF x, y, z
<1>1. /\ j = job[p] /\ Running(e, j) /\ \A q \in Callers \ {p} : job[q] = NoJob
      /\ First(j, x) /\ Comes(j, x, Rest(Tail(j.steps)))
  BY Here DEF x
<1>2. PICK r : r = Tail(j.steps)
  OBVIOUS
<1>3. /\ r \in Seq(Steps) /\ InOrder(r, j.cmd, Len(j.loops))
      /\ r # <<>> => Adjacent(x, Head(r), j.cmd)
  BY <1>1, <1>2, RunningType, TailInOrder DEF First
<1>4. r # <<>> /\ Head(r) = y
  <2>1. r # <<>>
    BY <1>0, <1>1, <1>2, <1>3, RestEmpty DEF Comes, Followed
  <2> QED BY <1>0, <1>3, <2>1 DEF Adjacent
<1>5. PICK t : t = Tail(r)
  OBVIOUS
<1>6. /\ t \in Seq(Steps) /\ InOrder(t, j.cmd, Len(j.loops))
      /\ Rest(r) = {y} \cup Rest(t) /\ Followed(y, j.cmd, Rest(t))
      /\ t # <<>> => Adjacent(y, Head(t), j.cmd)
  BY <1>3, <1>4, <1>5, TailInOrder
<1>7. t # <<>> /\ Head(t) = z
  <2>1. t # <<>>
    BY <1>0, <1>6, RestEmpty DEF Followed
  <2> QED BY <1>0, <1>6, <2>1 DEF Adjacent
<1>8. PICK s : s = Tail(t)
  OBVIOUS
<1>9. /\ s \in Seq(Steps) /\ InOrder(s, j.cmd, Len(j.loops))
      /\ Rest(t) = {z} \cup Rest(s)
      /\ s # <<>> => Adjacent(z, Head(s), j.cmd)
  BY <1>6, <1>7, <1>8, TailInOrder
<1>10. PICK j2 : j2 = [j EXCEPT !.steps = s]
  OBVIOUS
<1>11. HasToDo(e, j, s, j2)
  BY <1>1, <1>9, <1>10, StepsSet DEF First
<1>j. job' = [job EXCEPT ![p] = j2]
  BY <1>1, <1>2, <1>5, <1>8, <1>10
<1>g. job' \in [Callers -> JobRecord] /\ Alone(e, j2, job')
  BY <1>1, <1>11, <1>j, Becomes DEF HasToDo
<1>12. Moves(j, j2, {x, y, z}, z)
  BY <1>1, <1>2, <1>6, <1>9, <1>11 DEF Moves, Comes, HasToDo
<1> QED BY <1>11, <1>12, <1>g DEF Goes, HasToDo, x, y, z

(* The rest of what is to be done with the container is left out; disable  *)
(* still disables it.                                                      *)
LEMMA LeaveOut ==
  ASSUME job \in [Callers -> JobRecord], NEW e, NEW j \in JobRecord, Alone(e, j, job),
         NEW p \in Callers, NEW x, At(p, x), Skip(p),
         x \in {"if-running", "if-stopped", "lxc-start", "backup-ready"}
  PROVE  \E j2 \in JobRecord :
           /\ Goes(e, p, j, j2, Rest(j.steps), x)
           /\ Rest(j2.steps) = IF j.cmd = "disable" THEN {"disable"} ELSE {}
           /\ j2.steps # <<>> <=> j.cmd = "disable"
<1>1. /\ j = job[p] /\ Running(e, j) /\ \A q \in Callers \ {p} : job[q] = NoJob
      /\ First(j, x) /\ Comes(j, x, Rest(Tail(j.steps)))
  BY Here
<1>2. PICK s : s = IF j.cmd = "disable" THEN <<"disable">> ELSE <<>>
  OBVIOUS
<1>3. /\ s \in Seq(Steps)
      /\ Rest(s) = IF j.cmd = "disable" THEN {"disable"} ELSE {}
      /\ s # <<>> <=> j.cmd = "disable"
      /\ s # <<>> => Head(s) = "disable"
  BY <1>2, Words DEF Rest
<1>4. InOrder(s, j.cmd, Len(j.loops))
  <2>1. CASE j.cmd = "disable"
    <3>1. Len(s) = 1 /\ s[1] = "disable" /\ 1 .. Len(s) = {1}
      BY <1>2, <2>1
    <3> QED BY <2>1, <3>1 DEF InOrder, Uses, Followed
  <2>2. CASE j.cmd # "disable"
    <3>1. Len(s) = 0
      BY <1>2, <2>2
    <3> QED BY <3>1 DEF InOrder
  <2> QED BY <2>1, <2>2
<1>5. /\ Rest(s) \subseteq Rest(j.steps)
      /\ s # <<>> => Adjacent(x, Head(s), j.cmd)
  <2>1. CASE j.cmd = "disable"
    <3>1. x = "if-running"
      BY <1>1, <2>1 DEF Comes, Uses, Starting
    <3>2. "disable" \in Rest(j.steps)
      BY <1>1, <2>1, <3>1 DEF Comes, Followed
    <3> QED BY <1>3, <2>1, <3>1, <3>2 DEF Adjacent
  <2>2. CASE j.cmd # "disable"
    BY <1>3, <2>2
  <2> QED BY <2>1, <2>2
<1>6. PICK j2 : j2 = [j EXCEPT !.steps = s]
  OBVIOUS
<1>7. HasToDo(e, j, s, j2)
  BY <1>1, <1>3, <1>4, <1>6, StepsSet DEF First
<1>j. job' = [job EXCEPT ![p] = j2]
  BY <1>1, <1>2, <1>6 DEF Skip
<1>g. job' \in [Callers -> JobRecord] /\ Alone(e, j2, job')
  BY <1>1, <1>7, <1>j, Becomes DEF HasToDo
<1>8. Moves(j, j2, Rest(j.steps), x)
  BY <1>1, <1>5, <1>7 DEF Moves, Comes, HasToDo
<1> QED BY <1>3, <1>7, <1>8, <1>g DEF Goes, HasToDo
-----------------------------------------------------------------------------
(* What a step leaves as it is.                                            *)
LEMMA FilesKept ==
  ASSUME NEW j, NEW j2, NEW D, NEW w, Moves(j, j2, D, w), NEW rf, NEW di,
         FilesOK(j, rf, di),
         \/ D \cap {"create", "enable", "if-stopped"} = {}
         \/ j.cmd \notin Starting \/ j2.steps = <<>>
  PROVE  FilesOK(j2, rf, di)
<1> USE DEF Moves
<1>1. AddOK(j2, rf, di)
  BY DEF FilesOK, AddOK, ForAll
<1>2. StartOK(j2, di)
  BY DEF FilesOK, StartOK, Starting
<1>3. ExistsOK(j2, rf)
  BY DEF FilesOK, ExistsOK, Starting
<1> QED BY <1>1, <1>2, <1>3 DEF FilesOK

(* Unless a share was just unmounted, no directory is about to be removed. *)
LEMMA DirsKept ==
  ASSUME NEW j, NEW j2, NEW D, NEW w, Moves(j, j2, D, w), NEW e, NEW mn,
         w \notin {"bind-umount", "nfs-umount", "backup-umount"}
  PROVE  DirsOK(e, j2, mn)
BY DEF Moves, DirsOK, First, Adjacent, RmdirAt

(* Unless rsync was just done, rm is not next, but in destroy.             *)
LEMMA CopyKept ==
  ASSUME NEW j, NEW j2, NEW D, NEW w, Moves(j, j2, D, w), NEW e, NEW rf, NEW tm,
         w # "rsync"
  PROVE  CopyOK(e, j2, rf, tm)
BY DEF Moves, CopyOK, First, Adjacent

(* No backup is writable but the one about to be remounted.                *)
LEMMA WritableKept ==
  ASSUME NEW e, NEW j, NEW j2, NEW mn, NEW mn2, WritableOK(e, j, mn),
         ~First(j, "backup-remount"), mn2["backup"] = mn["backup"]
  PROVE  WritableOK(e, j2, mn2)
BY DEF WritableOK

(* The three of them, after a step that does not touch the backups.        *)
LEMMA NextKept ==
  ASSUME NEW j, NEW j2, NEW D, NEW w, Moves(j, j2, D, w), NEW e, NEW rf, NEW tm, NEW mn,
         NEW rf2, NEW tm2, NEW mn2, NextOK(e, j, rf, tm, mn),
         w \notin {"bind-umount", "nfs-umount", "backup-umount", "rsync"},
         ~First(j, "backup-remount"), mn2["backup"] = mn["backup"]
  PROVE  NextOK(e, j2, rf2, tm2, mn2)
<1>1. DirsOK(e, j2, mn2)
  BY DirsKept
<1>2. CopyOK(e, j2, rf2, tm2)
  BY CopyKept
<1>3. WritableOK(e, j2, mn2)
  BY WritableKept DEF NextOK
<1> QED BY <1>1, <1>2, <1>3 DEF NextOK

(* What remove has done stays done.                                        *)
LEMMA RemoveKept ==
  ASSUME NEW j, NEW j2, NEW D, NEW w, Moves(j, j2, D, w), NEW rn, NEW mn,
         NEW rn2, NEW mn2, RemoveOK(j, rn, mn),
         \/ j.cmd \notin Removing
         \/ /\ rn2 = rn /\ mn2["bind"] = mn["bind"] /\ mn2["backup"] = mn["backup"]
            /\ D \cap {"bind-umount", "backup-umount", "lxc-stop"} = {}
  PROVE  RemoveOK(j2, rn2, mn2)
BY DEF Moves, RemoveOK

(* The shares still follow their containers after a step that neither      *)
(* unmounts one nor starts or stops a container.                           *)
LEMMA NfsKept ==
  ASSUME NEW j, NEW j2, NEW D, NEW w, Moves(j, j2, D, w), j2.again = j.again,
         NEW rn, NEW nf, NfsOK(j, rn, nf),
         D \cap {"nfs-umount", "shutdown", "lxc-start"} = {},
         j.cmd = "stop-all" => Len(j.loops) # 1
  PROVE  NfsOK(j2, rn, nf)
<1> USE DEF Moves
<1>1. UnmountOK(j2, nf)
  BY DEF NfsOK, UnmountOK
<1>2. StopAllOK(j2, rn, nf)
  BY DEF NfsOK, StopAllOK
<1>3. SettledOK(j2, rn) /\ SharesOK(rn, nf)
  BY DEF NfsOK, SettledOK
<1>4. StartedOK(j2, rn)
  BY DEF NfsOK, StartedOK
<1> QED BY <1>1, <1>2, <1>3, <1>4 DEF NfsOK

(* Who cares for a container that boots or has no share still does.        *)
LEMMA WatchKept ==
  ASSUME NEW j, NEW j2, NEW D, NEW w, Moves(j, j2, D, w), NEW rn, NEW nf,
         WatchOK(j, rn, nf),
         D \cap {"online", "nfs-mount", "shutdown", "lxc-stop"} = {}
  PROVE  WatchOK(j2, rn, nf)
<1>1. BootOK(j2, rn)
  BY DEF Moves, WatchOK, BootOK
<1>2. Cares(j) => Cares(j2)
  BY DEF Moves, Cares
<1>3. UpOK(j2, rn, nf)
  BY <1>2 DEF Moves, WatchOK, UpOK
<1> QED BY <1>1, <1>3 DEF WatchOK

(* The invariant, from its parts.                                          *)
LEMMA Again ==
  ASSUME env' = env, StateOK', NEW j2 \in JobRecord, Alone(env, j2, job'),
         FilesOK(j2, rootfs', disabled'), NextOK(env, j2, rootfs', tmp', mnt'),
         WellIn(env) => /\ GoneOK(rootfs', run', mnt') /\ RemoveOK(j2, run', mnt')
                        /\ NfsOK(j2, run', mnt'["nfs"]),
         WellIn(env) /\ NoReboots(env) => WatchOK(j2, run', mnt'["nfs"])
  PROVE  Inv'
<1>1. Holds(env', j2, rootfs', tmp', run', disabled', mnt')
  BY DEF Holds
<1>2. Alone(env', j2, job')
  OBVIOUS
<1> QED BY <1>1, <1>2 DEF Inv, Is

(* A step that changes nothing but its command.                            *)
LEMMA QuietStep ==
  ASSUME NEW j \in JobRecord, Is(j), NEW p, NEW x, NEW j2 \in JobRecord,
         Goes(env, p, j, j2, {x}, x), First(j, x),
         x \notin {"create", "enable", "if-stopped", "bind-umount", "nfs-umount",
                   "backup-umount", "rsync", "backup-remount", "lxc-stop", "shutdown",
                   "lxc-start", "online", "nfs-mount"},
         j.cmd = "stop-all" => Len(j.loops) # 1,
         UNCHANGED <<env, rootfs, tmp, run, disabled, mnt>>, store' \in [Names -> BOOLEAN]
  PROVE  Inv'
<1>1. Moves(j, j2, {x}, x) /\ j2.again = j.again /\ Alone(env, j2, job')
      /\ job' \in [Callers -> JobRecord]
  BY DEF Goes
<1>2. StateOK'
  BY <1>1 DEF Is, StateOK
<1>3. FilesOK(j2, rootfs', disabled')
  BY <1>1, FilesKept DEF Is, Holds
<1>4. NextOK(env, j2, rootfs', tmp', mnt')
  <2>1. ~First(j, "backup-remount")
    BY DEF First
  <2> QED BY <1>1, <2>1, NextKept DEF Is, Holds
<1>5. WellIn(env) => /\ GoneOK(rootfs', run', mnt') /\ RemoveOK(j2, run', mnt')
                     /\ NfsOK(j2, run', mnt'["nfs"])
  BY <1>1, RemoveKept, NfsKept DEF Is, Holds
<1>6. WellIn(env) /\ NoReboots(env) => WatchOK(j2, run', mnt'["nfs"])
  BY <1>1, WatchKept DEF Is, Holds
<1> QED BY <1>1, <1>2, <1>3, <1>4, <1>5, <1>6, Again

(* A step is done: how the command goes on.                                *)
LEMMA StepDone ==
  ASSUME NEW j \in JobRecord, Is(j), NEW p \in Callers, NEW x, At(p, x), Done(p)
  PROVE  \E j2 \in JobRecord : /\ Goes(env, p, j, j2, {x}, x)
                               /\ Rest(j2.steps) = Rest(Tail(j.steps))
BY Advance DEF Is, StateOK

(* Where the command is.                                                   *)
LEMMA StepHere ==
  ASSUME NEW j \in JobRecord, Is(j), NEW p \in Callers, NEW x, At(p, x)
  PROVE  /\ j = job[p] /\ First(j, x) /\ Comes(j, x, Rest(Tail(j.steps)))
         /\ j.c \in Names /\ j.cmd \in Commands /\ j.cmd \in env.commands
         /\ Running(env, j)
BY Here, RunningType DEF Is

(* The parts of the invariant.                                             *)
LEMMA Parts ==
  ASSUME NEW j \in JobRecord, Is(j)
  PROVE  /\ StateOK /\ Alone(env, j, job)
         /\ FilesOK(j, rootfs, disabled) /\ NextOK(env, j, rootfs, tmp, mnt)
         /\ WellIn(env) => /\ GoneOK(rootfs, run, mnt) /\ RemoveOK(j, run, mnt)
                           /\ NfsOK(j, run, mnt["nfs"])
         /\ WellIn(env) /\ NoReboots(env) => WatchOK(j, run, mnt["nfs"])
BY DEF Is, Holds

(* What a command has to do, goes by.                                      *)
LEMMA GoesOn ==
  ASSUME NEW e, NEW p, NEW j, NEW j2, NEW D, NEW w, Goes(e, p, j, j2, D, w)
  PROVE  /\ job' \in [Callers -> JobRecord] /\ Alone(e, j2, job') /\ Running(e, j2)
         /\ Moves(j, j2, D, w) /\ j2.again = j.again
         /\ j2.cmd = j.cmd /\ j2.c = j.c /\ j2.list = j.list /\ j2.loops = j.loops
         /\ Rest(j2.steps) \subseteq Rest(j.steps)
BY DEF Goes, Moves

(* A share is mounted or unmounted.                                        *)
LEMMA MountEffect ==
  ASSUME mnt \in Mounts, NEW k \in Kinds, NEW c \in Names, NEW how \in {"none", "rw", "ro"},
         mnt' = [mnt EXCEPT ![k][c] = how]
  PROVE  /\ mnt' \in Mounts /\ mnt'[k][c] = how
         /\ \A d \in Names \ {c} : mnt'[k][d] = mnt[k][d]
         /\ \A l \in Kinds \ {k} : mnt'[l] = mnt[l]
BY DEF Mounts
-----------------------------------------------------------------------------
(* The steps of a command, one by one: tests.                              *)
LEMMA IfRunningStep ==
  ASSUME NEW j \in JobRecord, Is(j), NEW p \in Callers, IfRunning(p), env' = env
  PROVE  Inv'
<1> DEFINE x == "if-running"
<1>1. /\ At(p, x) /\ UNCHANGED <<env, rootfs, tmp, store, run, disabled, mnt>>
      /\ job \in [Callers -> JobRecord] /\ Alone(env, j, job)
      /\ store \in [Names -> BOOLEAN]
  BY DEF IfRunning, Is, StateOK
<1>2. j = job[p] /\ Running(env, j) /\ First(j, x) /\ Comes(j, x, Rest(Tail(j.steps)))
  BY <1>1, Here
<1>3. /\ j.cmd \notin Starting \cup Removing
      /\ j.cmd = "stop-all" => Len(j.loops) = 2
  BY <1>2 DEF Comes, Uses
<1>4. CASE is_running(j.c)
  <2>1. Done(p)
    BY <1>2, <1>4 DEF IfRunning
  <2>2. PICK j2 \in JobRecord : Goes(env, p, j, j2, {x}, x)
    BY <1>1, <2>1, Advance
  <2> QED BY <1>1, <1>2, <1>3, <2>2, QuietStep
<1>5. CASE ~is_running(j.c)
  <2>1. Skip(p) /\ run[j.c] = "stopped"
    BY <1>2, <1>5 DEF IfRunning, is_running
  <2>2. PICK j2 \in JobRecord :
          /\ Goes(env, p, j, j2, Rest(j.steps), x)
          /\ Rest(j2.steps) = IF j.cmd = "disable" THEN {"disable"} ELSE {}
    BY <1>1, <2>1, LeaveOut
  <2>3. /\ Moves(j, j2, Rest(j.steps), x) /\ j2.again = j.again /\ Alone(env, j2, job')
        /\ job' \in [Callers -> JobRecord]
    BY <2>2 DEF Goes
  <2>4. StateOK'
    BY <1>1, <2>3 DEF Is, StateOK
  <2>5. FilesOK(j2, rootfs', disabled')
    BY <1>1, <1>3, <2>3, FilesKept DEF Is, Holds
  <2>6. NextOK(env, j2, rootfs', tmp', mnt')
    <3>1. ~First(j, "backup-remount")
      BY <1>2 DEF First
    <3> QED BY <1>1, <2>3, <3>1, NextKept DEF Is, Holds
  <2>7. ASSUME WellIn(env)
        PROVE  GoneOK(rootfs', run', mnt') /\ RemoveOK(j2, run', mnt')
    BY <1>1, <1>3, <2>3, <2>7, RemoveKept DEF Is, Holds
  <2>8. ASSUME WellIn(env)
        PROVE  NfsOK(j2, run', mnt'["nfs"]) /\ SettledOK(j, run)
    <3>1. NfsOK(j, run, mnt["nfs"]) /\ j.c \in Names
      BY <2>8, <1>2, RunningType DEF Is, Holds
    <3>2. mnt["nfs"][j.c] = "none"
      BY <3>1, <2>1 DEF NfsOK, SharesOK
    <3>3. UnmountOK(j2, mnt["nfs"])
      BY <3>2, <2>3 DEF Moves, UnmountOK
    <3>4. StopAllOK(j2, run, mnt["nfs"])
      <4>1. j2.cmd = j.cmd /\ j2.c = j.c /\ j2.list = j.list /\ j2.loops = j.loops
        BY <2>3 DEF Moves
      <4>2. ASSUME j.cmd = "stop-all"
            PROVE  /\ Len(j.loops) = 2
                   /\ \A c \in Names : mnt["nfs"][c] = "none"
                   /\ \A c \in Names : run[c] = "up" => c \in j.list
        <5>1. StopAllOK(j, run, mnt["nfs"]) /\ Len(j.loops) = 2
          BY <3>1, <1>3, <4>2 DEF NfsOK
        <5>2. \A c \in Names : mnt["nfs"][c] = "none"
          BY <5>1, <4>2 DEF StopAllOK
        <5>3. \A c \in Names : run[c] = "up" => c \in j.list
          BY <5>1, <4>2, <2>1 DEF StopAllOK
        <5> QED BY <5>1, <5>2, <5>3
      <4>3. ASSUME j2.cmd = "stop-all"
            PROVE  /\ Len(j2.loops) = 2
                   /\ \A c \in Names : mnt["nfs"][c] = "none"
                   /\ \A c \in Names : run[c] = "up" => c \in j2.list
        BY <4>1, <4>2, <4>3
      <4> QED BY <4>3 DEF StopAllOK
    <3>5. SettledOK(j2, run) /\ SharesOK(run, mnt["nfs"]) /\ StartedOK(j2, run)
      BY <3>1, <1>3, <2>3 DEF Moves, NfsOK, SettledOK, StartedOK, Starting
    <3> QED BY <3>1, <3>3, <3>4, <3>5, <1>1 DEF NfsOK
  <2>9. ASSUME WellIn(env), NoReboots(env)
        PROVE  WatchOK(j2, run', mnt'["nfs"])
    <3>1. WatchOK(j, run, mnt["nfs"]) /\ SettledOK(j, run)
      BY <2>8, <2>9 DEF Is, Holds
    <3>2. j.cmd \notin {"none"} \cup Starting \cup Rebooting
      BY <1>2, <1>3, <2>9, RunningType DEF NoReboots
    <3>3. BootOK(j2, run)
      BY <3>1, <3>2 DEF SettledOK, BootOK
    <3>4. UpOK(j2, run, mnt["nfs"])
      BY <3>1, <2>1, <2>3 DEF Moves, WatchOK, UpOK
    <3> QED BY <3>3, <3>4, <1>1 DEF WatchOK
  <2> QED BY <1>1, <2>3, <2>4, <2>5, <2>6, <2>7, <2>8, <2>9, Again
<1> QED BY <1>4, <1>5

(* start-all leaves out what is disabled or runs; start enabled it before. *)
LEMMA IfStoppedStep ==
  ASSUME NEW j \in JobRecord, Is(j), NEW p \in Callers, IfStopped(p), env' = env
  PROVE  Inv'
<1> DEFINE x == "if-stopped"
<1>1. /\ At(p, x) /\ UNCHANGED <<env, rootfs, tmp, store, run, disabled, mnt>>
      /\ IF ~disabled[job[p].c] /\ ~is_running(job[p].c) THEN Done(p) ELSE Skip(p)
  BY DEF IfStopped
<1>2. /\ j = job[p] /\ First(j, x) /\ Comes(j, x, Rest(Tail(j.steps)))
      /\ j.c \in Names /\ j.cmd \in Commands
  BY <1>1, StepHere
<1>3. /\ FilesOK(j, rootfs, disabled) /\ NextOK(env, j, rootfs, tmp, mnt)
      /\ WellIn(env) => /\ GoneOK(rootfs, run, mnt) /\ RemoveOK(j, run, mnt)
                        /\ NfsOK(j, run, mnt["nfs"])
      /\ WellIn(env) /\ NoReboots(env) => WatchOK(j, run, mnt["nfs"])
      /\ StateOK /\ Alone(env, j, job)
  BY Parts
<1>4. /\ j.cmd \in {"start", "start-all"} /\ ~First(j, "backup-remount")
      /\ "lxc-start" \in Rest(j.steps)
      /\ "enable" \notin Rest(j.steps)
  BY <1>2 DEF Comes, Uses, Followed, Before, First
<1>5. CASE ~disabled[j.c] /\ ~is_running(j.c)
  <2>1. PICK j2 \in JobRecord : Goes(env, p, j, j2, {x}, x)
    BY <1>1, <1>2, <1>5, StepDone
  <2>2. /\ job' \in [Callers -> JobRecord] /\ Alone(env, j2, job')
        /\ Moves(j, j2, {x}, x) /\ j2.again = j.again /\ j2.cmd = j.cmd /\ j2.c = j.c
    BY <2>1, GoesOn
  <2>3. StateOK'
    BY <1>1, <1>3, <2>2 DEF StateOK
  <2>4. FilesOK(j2, rootfs', disabled')
    <3>1. StartOK(j2, disabled)
      BY <1>5, <2>2 DEF StartOK
    <3>2. ExistsOK(j2, rootfs) /\ AddOK(j2, rootfs, disabled)
      BY <1>3, <1>4, <2>2 DEF FilesOK, ExistsOK, AddOK, Moves
    <3> QED BY <1>1, <1>3, <3>1, <3>2 DEF FilesOK
  <2>5. NextOK(env, j2, rootfs', tmp', mnt')
    BY <1>1, <1>3, <1>4, <2>2, NextKept
  <2>6. WellIn(env) => /\ GoneOK(rootfs', run', mnt') /\ RemoveOK(j2, run', mnt')
                       /\ NfsOK(j2, run', mnt'["nfs"])
    BY <1>1, <1>3, <1>4, <2>2, RemoveKept, NfsKept
  <2>7. WellIn(env) /\ NoReboots(env) => WatchOK(j2, run', mnt'["nfs"])
    BY <1>1, <1>3, <2>2, WatchKept
  <2> QED BY <1>1, <2>2, <2>3, <2>4, <2>5, <2>6, <2>7, Again
<1>6. CASE ~(~disabled[j.c] /\ ~is_running(j.c))
  <2>1. PICK j2 \in JobRecord : Goes(env, p, j, j2, Rest(j.steps), x) /\ j2.steps = <<>>
    BY <1>1, <1>2, <1>3, <1>4, <1>6, LeaveOut DEF StateOK
  <2>2. /\ job' \in [Callers -> JobRecord] /\ Alone(env, j2, job')
        /\ Moves(j, j2, Rest(j.steps), x) /\ j2.cmd = j.cmd /\ j2.c = j.c
    BY <2>1, GoesOn
  <2>3. StateOK'
    BY <1>1, <1>3, <2>2 DEF StateOK
  <2>4. FilesOK(j2, rootfs', disabled')
    BY <1>1, <1>3, <2>1, <2>2, FilesKept
  <2>5. NextOK(env, j2, rootfs', tmp', mnt')
    BY <1>1, <1>3, <1>4, <2>2, NextKept
  <2>6. WellIn(env) => GoneOK(rootfs', run', mnt') /\ RemoveOK(j2, run', mnt')
    BY <1>1, <1>3, <1>4, <2>2, RemoveKept DEF Removing
  <2>7. ASSUME WellIn(env)
        PROVE  NfsOK(j2, run', mnt'["nfs"])
    <3>1. NfsOK(j, run, mnt["nfs"])
      BY <1>3, <2>7
    <3>2. UnmountOK(j2, mnt["nfs"]) /\ StopAllOK(j2, run, mnt["nfs"])
      BY <1>4, <2>2 DEF UnmountOK, StopAllOK, Unmounting
    <3>3. SettledOK(j2, run) /\ SharesOK(run, mnt["nfs"])
      BY <3>1, <2>2 DEF NfsOK, SettledOK
    <3>4. StartedOK(j2, run)
      <4>1. j.cmd = "start" => ~disabled[j.c]
        BY <1>2, <1>3, <1>4 DEF FilesOK, StartOK, First
      <4>2. j.cmd = "start" => run[j.c] # "stopped" /\ run[j.c] # "halting"
        BY <3>1, <4>1, <1>2, <1>6 DEF is_running, NfsOK, SettledOK, Stopping
      <4>3. run[j.c] \in Runs
        BY <1>2, <1>3 DEF StateOK
      <4>4. j.cmd = "start" => run[j.c] \in {"booting", "up", "rebooting"}
        BY <4>2, <4>3 DEF Runs
      <4> QED BY <4>4, <1>4, <2>2 DEF StartedOK
    <3> QED BY <1>1, <3>1, <3>2, <3>3, <3>4 DEF NfsOK
  <2>8. ASSUME WellIn(env), NoReboots(env)
        PROVE  WatchOK(j2, run', mnt'["nfs"])
    <3>1. WatchOK(j, run, mnt["nfs"])
      BY <1>3, <2>8
    <3>2. BootOK(j2, run)
      BY <1>4, <3>1 DEF WatchOK, BootOK
    <3>3. ~Cares(j)
      BY <1>4 DEF Cares, Unmounting
    <3>4. UpOK(j2, run, mnt["nfs"])
      BY <2>2, <3>1, <3>3 DEF WatchOK, UpOK
    <3> QED BY <1>1, <3>2, <3>4 DEF WatchOK
  <2> QED BY <1>1, <2>2, <2>3, <2>4, <2>5, <2>6, <2>7, <2>8, Again
<1> QED BY <1>5, <1>6

(* stop-all looks whether a container still runs.                          *)
LEMMA IfStoppedYetStep ==
  ASSUME NEW j \in JobRecord, Is(j), NEW p \in Callers, IfStoppedYet(p), env' = env
  PROVE  Inv'
<1> DEFINE x == "if-stopped-yet"
<1>1. /\ At(p, x) /\ UNCHANGED <<env, rootfs, tmp, store, run, disabled, mnt>>
      /\ job' = [job EXCEPT ![p] =
                  [job[p] EXCEPT !.steps = Tail(@), !.again = @ \/ is_running(job[p].c)]]
  BY DEF IfStoppedYet
<1>2. /\ j = job[p] /\ First(j, x) /\ Comes(j, x, Rest(Tail(j.steps)))
      /\ j.c \in Names /\ j.cmd \in Commands /\ Running(env, j)
      /\ \A q \in Callers \ {p} : job[q] = NoJob
  BY <1>1, StepHere, Here DEF Is
<1>3. /\ FilesOK(j, rootfs, disabled) /\ NextOK(env, j, rootfs, tmp, mnt)
      /\ WellIn(env) => /\ GoneOK(rootfs, run, mnt) /\ RemoveOK(j, run, mnt)
                        /\ NfsOK(j, run, mnt["nfs"])
      /\ WellIn(env) /\ NoReboots(env) => WatchOK(j, run, mnt["nfs"])
      /\ StateOK /\ Alone(env, j, job)
  BY Parts
<1>4. /\ j.cmd = "stop-all" /\ Len(j.loops) = 1 /\ ~First(j, "backup-remount")
      /\ j.steps # <<>>
  BY <1>2 DEF Comes, Uses, First
<1>5. PICK s \in Seq(Steps), b \in BOOLEAN :
        s = Tail(j.steps) /\ b = (j.again \/ is_running(j.c))
  <2>1. Tail(j.steps) \in Seq(Steps)
    BY <1>2, <1>4, RunningType, TailInOrder
  <2>2. (j.again \/ is_running(j.c)) \in BOOLEAN
    OBVIOUS
  <2> QED BY <2>1, <2>2
<1>6. PICK j2 : j2 = [j EXCEPT !.steps = s, !.again = b]
  OBVIOUS
<1>7. /\ j2 \in JobRecord /\ j2.cmd = j.cmd /\ j2.c = j.c /\ j2.list = j.list
      /\ j2.loops = j.loops /\ j2.exact = j.exact /\ j2.again = b /\ j2.steps = s
  BY <1>5, <1>6, <1>2 DEF JobRecord
<1>8. InOrder(s, j.cmd, Len(j.loops)) /\ Rest(j.steps) = {x} \cup Rest(s)
      /\ (s # <<>> => Adjacent(x, Head(s), j.cmd))
  <2>1. /\ j.steps \in Seq(Steps) /\ InOrder(j.steps, j.cmd, Len(j.loops))
        /\ Head(j.steps) = x
    BY <1>2, RunningType DEF First
  <2> QED BY <1>4, <1>5, <2>1, TailInOrder
<1>9. Running(env, j2)
  BY <1>2, <1>4, <1>7, <1>8 DEF Running, ForAll
<1>10. job' = [job EXCEPT ![p] = j2]
  BY <1>1, <1>2, <1>5, <1>6, <1>3 DEF StateOK, JobRecord
<1>11. job' \in [Callers -> JobRecord] /\ Alone(env, j2, job')
  BY <1>2, <1>3, <1>7, <1>9, <1>10, Becomes DEF StateOK
<1>12. Moves(j, j2, {x}, x)
  BY <1>4, <1>7, <1>8 DEF Moves, ForAll
<1>13. StateOK'
  BY <1>1, <1>3, <1>11 DEF StateOK
<1>14. FilesOK(j2, rootfs', disabled')
  BY <1>1, <1>3, <1>12, FilesKept
<1>15. NextOK(env, j2, rootfs', tmp', mnt')
  BY <1>1, <1>3, <1>4, <1>12, NextKept
<1>16. WellIn(env) => GoneOK(rootfs', run', mnt') /\ RemoveOK(j2, run', mnt')
  BY <1>1, <1>3, <1>12, RemoveKept
<1>17. ASSUME WellIn(env)
       PROVE  NfsOK(j2, run', mnt'["nfs"])
  <2>1. NfsOK(j, run, mnt["nfs"])
    BY <1>3, <1>17
  <2>2. UnmountOK(j2, mnt["nfs"]) /\ StartedOK(j2, run) /\ SettledOK(j2, run)
        /\ SharesOK(run, mnt["nfs"])
    BY <2>1, <1>4, <1>7 DEF NfsOK, UnmountOK, StartedOK, SettledOK, Unmounting
  <2>3. /\ \A c \in Names : mnt["nfs"][c] = "none"
        /\ \A c \in Names : run[c] # "up"
    BY <2>1, <1>4 DEF NfsOK, StopAllOK
  <2>4. ~b => \A c \in Names : run[c] # "stopped" => c \in j.list
    BY <2>1, <1>4, <1>5 DEF NfsOK, StopAllOK, is_running
  <2>5. StopAllOK(j2, run, mnt["nfs"])
    BY <2>3, <2>4, <1>4, <1>7 DEF StopAllOK
  <2> QED BY <1>1, <2>2, <2>5 DEF NfsOK
<1>18. ASSUME WellIn(env), NoReboots(env)
       PROVE  WatchOK(j2, run', mnt'["nfs"])
  <2>1. SettledOK(j, run)
    BY <1>3, <1>18 DEF NfsOK
  <2>2. BootOK(j2, run)
    BY <2>1, <1>4 DEF SettledOK, BootOK, Starting, Rebooting
  <2>3. UpOK(j2, run, mnt["nfs"])
    BY <1>4, <1>7 DEF UpOK
  <2> QED BY <1>1, <2>2, <2>3 DEF WatchOK
<1> QED BY <1>1, <1>7, <1>11, <1>13, <1>14, <1>15, <1>16, <1>17, <1>18, Again

(* start waited until the container answered.                              *)
LEMMA OnlineStep ==
  ASSUME NEW j \in JobRecord, Is(j), NEW p \in Callers, Online(p), env' = env
  PROVE  Inv'
<1> DEFINE x == "online"
<1>1. /\ At(p, x) /\ UNCHANGED <<env, rootfs, tmp, store, run, disabled, mnt>>
      /\ (run[job[p].c] # "booting" \/ "slow" \in env.faults) /\ Done(p)
  BY DEF Online
<1>2. /\ j = job[p] /\ First(j, x) /\ Comes(j, x, Rest(Tail(j.steps)))
      /\ j.c \in Names /\ j.cmd \in Commands
  BY <1>1, StepHere
<1>3. /\ FilesOK(j, rootfs, disabled) /\ NextOK(env, j, rootfs, tmp, mnt)
      /\ WellIn(env) => /\ GoneOK(rootfs, run, mnt) /\ RemoveOK(j, run, mnt)
                        /\ NfsOK(j, run, mnt["nfs"])
      /\ WellIn(env) /\ NoReboots(env) => WatchOK(j, run, mnt["nfs"])
      /\ StateOK
  BY Parts
<1>4. j.cmd # "stop-all" /\ ~First(j, "backup-remount")
  BY <1>2 DEF Comes, Uses, Starting, First
<1>5. PICK j2 \in JobRecord : Goes(env, p, j, j2, {x}, x)
  BY <1>1, StepDone
<1>6. /\ job' \in [Callers -> JobRecord] /\ Alone(env, j2, job')
      /\ Moves(j, j2, {x}, x) /\ j2.again = j.again /\ j2.cmd = j.cmd /\ j2.c = j.c
  BY <1>5, GoesOn
<1>7. StateOK'
  BY <1>1, <1>3, <1>6 DEF StateOK
<1>8. FilesOK(j2, rootfs', disabled')
  BY <1>1, <1>3, <1>6, FilesKept
<1>9. NextOK(env, j2, rootfs', tmp', mnt')
  BY <1>1, <1>3, <1>4, <1>6, NextKept
<1>10. WellIn(env) => /\ GoneOK(rootfs', run', mnt') /\ RemoveOK(j2, run', mnt')
                      /\ NfsOK(j2, run', mnt'["nfs"])
  BY <1>1, <1>3, <1>4, <1>6, RemoveKept, NfsKept
<1>11. ASSUME WellIn(env), NoReboots(env)
       PROVE  WatchOK(j2, run', mnt'["nfs"])
  <2>1. WatchOK(j, run, mnt["nfs"]) /\ run[j.c] # "booting"
    BY <1>1, <1>2, <1>3, <1>11 DEF WellIn
  <2>2. BootOK(j2, run)
    BY <2>1 DEF WatchOK, BootOK
  <2>3. Cares(j) => Cares(j2)
    BY <1>6 DEF Moves, Cares
  <2>4. UpOK(j2, run, mnt["nfs"])
    BY <2>1, <2>3, <1>6 DEF WatchOK, UpOK
  <2> QED BY <1>1, <2>2, <2>4 DEF WatchOK
<1> QED BY <1>1, <1>6, <1>7, <1>8, <1>9, <1>10, <1>11, Again

(* add makes a container that was not there, and so is not disabled.       *)
LEMMA CreateStep ==
  ASSUME NEW j \in JobRecord, Is(j), NEW p \in Callers, Create(p), env' = env
  PROVE  Inv'
<1> DEFINE x == "create"
<1>1. /\ At(p, x) /\ UNCHANGED <<env, tmp, store, run, disabled, mnt>> /\ Done(p)
      /\ rootfs' = [rootfs EXCEPT ![job[p].c] = "whole"]
  BY DEF Create
<1>2. /\ j = job[p] /\ First(j, x) /\ Comes(j, x, Rest(Tail(j.steps)))
      /\ j.c \in Names /\ j.cmd \in Commands
  BY <1>1, StepHere
<1>3. /\ FilesOK(j, rootfs, disabled) /\ NextOK(env, j, rootfs, tmp, mnt)
      /\ WellIn(env) => /\ GoneOK(rootfs, run, mnt) /\ RemoveOK(j, run, mnt)
                        /\ NfsOK(j, run, mnt["nfs"])
      /\ WellIn(env) /\ NoReboots(env) => WatchOK(j, run, mnt["nfs"])
      /\ StateOK
  BY Parts
<1>4. j.cmd = "add" /\ ~First(j, "backup-remount")
  BY <1>2 DEF Comes, Uses, First
<1>5. PICK j2 \in JobRecord : Goes(env, p, j, j2, {x}, x)
  BY <1>1, StepDone
<1>6. /\ job' \in [Callers -> JobRecord] /\ Alone(env, j2, job')
      /\ Moves(j, j2, {x}, x) /\ j2.again = j.again /\ j2.cmd = j.cmd /\ j2.c = j.c
  BY <1>5, GoesOn
<1>7. /\ rootfs' \in [Names -> Files] /\ rootfs'[j.c] = "whole"
      /\ \A c \in Names : rootfs'[c] = "none" => rootfs[c] = "none"
  BY <1>1, <1>2, <1>3 DEF StateOK, Files
<1>8. StateOK'
  BY <1>1, <1>3, <1>6, <1>7 DEF StateOK
<1>9. FilesOK(j2, rootfs', disabled')
  <2>1. EnabledOK(rootfs', disabled)
    BY <1>3, <1>7 DEF FilesOK, EnabledOK
  <2>2. AddOK(j2, rootfs', disabled)
    BY <1>2, <1>3, <1>4, <1>6 DEF FilesOK, AddOK, Moves, First, ForAll
  <2>3. StartOK(j2, disabled) /\ ExistsOK(j2, rootfs')
    BY <1>4, <1>6, <1>7 DEF StartOK, ExistsOK
  <2> QED BY <1>1, <2>1, <2>2, <2>3 DEF FilesOK
<1>10. NextOK(env, j2, rootfs', tmp', mnt')
  BY <1>1, <1>3, <1>4, <1>6, NextKept
<1>11. WellIn(env) => /\ GoneOK(rootfs', run', mnt') /\ RemoveOK(j2, run', mnt')
                      /\ NfsOK(j2, run', mnt'["nfs"])
  <2>1. WellIn(env) => GoneOK(rootfs', run', mnt')
    BY <1>1, <1>3, <1>7 DEF GoneOK
  <2>2. WellIn(env) => RemoveOK(j2, run', mnt') /\ NfsOK(j2, run', mnt'["nfs"])
    BY <1>1, <1>3, <1>4, <1>6, RemoveKept, NfsKept
  <2> QED BY <2>1, <2>2
<1>12. WellIn(env) /\ NoReboots(env) => WatchOK(j2, run', mnt'["nfs"])
  BY <1>1, <1>3, <1>6, WatchKept
<1> QED BY <1>1, <1>6, <1>8, <1>9, <1>10, <1>11, <1>12, Again

(* start enables a container; disable disables one that is there.          *)
LEMMA EnableStep ==
  ASSUME NEW j \in JobRecord, Is(j), NEW p \in Callers, Enable(p) \/ Disable(p), env' = env
  PROVE  Inv'
<1>1. PICK x \in {"enable", "disable"} :
        /\ At(p, x) /\ UNCHANGED <<env, rootfs, tmp, store, run, mnt>> /\ Done(p)
        /\ \/ x = "enable" /\ disabled' = [disabled EXCEPT ![job[p].c] = FALSE]
           \/ x = "disable"
              /\ disabled' = [disabled EXCEPT ![job[p].c] = rootfs[job[p].c] # "none"]
  BY DEF Enable, Disable
<1>2. /\ j = job[p] /\ First(j, x) /\ Comes(j, x, Rest(Tail(j.steps)))
      /\ j.c \in Names /\ j.cmd \in Commands
  BY <1>1, StepHere
<1>3. /\ FilesOK(j, rootfs, disabled) /\ NextOK(env, j, rootfs, tmp, mnt)
      /\ WellIn(env) => /\ GoneOK(rootfs, run, mnt) /\ RemoveOK(j, run, mnt)
                        /\ NfsOK(j, run, mnt["nfs"])
      /\ WellIn(env) /\ NoReboots(env) => WatchOK(j, run, mnt["nfs"])
      /\ StateOK
  BY Parts
<1>4. /\ \/ x = "enable" /\ j.cmd = "start"
         \/ x = "disable" /\ j.cmd = "disable"
      /\ ~First(j, "backup-remount")
  <2>1. x \in {"enable", "disable"}
    BY <1>1
  <2> QED BY <1>2, <2>1 DEF Comes, Uses, First
<1>5. PICK j2 \in JobRecord : Goes(env, p, j, j2, {x}, x)
  BY <1>1, StepDone
<1>6. /\ job' \in [Callers -> JobRecord] /\ Alone(env, j2, job')
      /\ Moves(j, j2, {x}, x) /\ j2.again = j.again /\ j2.cmd = j.cmd /\ j2.c = j.c
  BY <1>5, GoesOn
<1>7. /\ disabled' \in [Names -> BOOLEAN]
      /\ x = "enable" => ~disabled'[j.c]
      /\ \A c \in Names : disabled'[c] => disabled[c] \/ rootfs[c] # "none"
  BY <1>1, <1>2, <1>3 DEF StateOK
<1>8. StateOK'
  BY <1>1, <1>3, <1>6, <1>7 DEF StateOK
<1>9. FilesOK(j2, rootfs', disabled')
  <2>1. EnabledOK(rootfs, disabled')
    BY <1>3, <1>7 DEF FilesOK, EnabledOK
  <2>2. AddOK(j2, rootfs, disabled') /\ StartOK(j2, disabled')
    BY <1>4, <1>6, <1>7 DEF AddOK, StartOK
  <2>3. ExistsOK(j2, rootfs)
    BY <1>3, <1>4, <1>6 DEF FilesOK, ExistsOK, Moves, Removing
  <2> QED BY <1>1, <2>1, <2>2, <2>3 DEF FilesOK
<1>10. NextOK(env, j2, rootfs', tmp', mnt')
  BY <1>1, <1>3, <1>4, <1>6, NextKept
<1>11. WellIn(env) => /\ GoneOK(rootfs', run', mnt') /\ RemoveOK(j2, run', mnt')
                      /\ NfsOK(j2, run', mnt'["nfs"])
  BY <1>1, <1>3, <1>4, <1>6, RemoveKept, NfsKept
<1>12. WellIn(env) /\ NoReboots(env) => WatchOK(j2, run', mnt'["nfs"])
  BY <1>1, <1>3, <1>6, WatchKept
<1> QED BY <1>1, <1>6, <1>8, <1>9, <1>10, <1>11, <1>12, Again

(* Where lxc-start is next, the container is there and is not disabled.    *)
LEMMA AtLxcStart ==
  ASSUME NEW j \in JobRecord, Is(j), NEW p \in Callers, At(p, "lxc-start")
  PROVE  rootfs[j.c] # "none" /\ ~disabled[j.c]
<1>1. /\ j.steps # <<>> /\ j.c \in Names /\ Comes(j, "lxc-start", Rest(Tail(j.steps)))
  BY StepHere DEF Comes
<1>2. /\ j.cmd \in {"add", "start", "start-all"}
      /\ {"create", "enable", "if-stopped"} \cap Rest(j.steps) = {}
  BY <1>1 DEF Comes, Uses, Before, Starting
<1>3. AddOK(j, rootfs, disabled) /\ StartOK(j, disabled) /\ ExistsOK(j, rootfs)
  BY Parts DEF FilesOK
<1>4. ~disabled[j.c]
  BY <1>1, <1>2, <1>3 DEF AddOK, StartOK
<1>5. rootfs[j.c] # "none"
  BY <1>1, <1>2, <1>3 DEF ExistsOK, Removing
<1> QED BY <1>4, <1>5

(* The container boots, and is waited for; or it runs already.             *)
LEMMA LxcStartStep ==
  ASSUME NEW j \in JobRecord, Is(j), NEW p \in Callers, LxcStart(p), env' = env
  PROVE  Inv'
<1> DEFINE x == "lxc-start"
<1>1. /\ At(p, x) /\ UNCHANGED <<env, rootfs, tmp, store, disabled, mnt>>
      /\ \/ /\ is_running(job[p].c) \/ rootfs[job[p].c] = "none" \/ "start" \in env.faults
            /\ Skip(p) /\ run' = run
         \/ Done(p) /\ run' = [run EXCEPT ![job[p].c] = "booting"]
  BY DEF LxcStart
<1>2. /\ j = job[p] /\ First(j, x) /\ Comes(j, x, Rest(Tail(j.steps)))
      /\ j.c \in Names /\ j.cmd \in Commands
  BY <1>1, StepHere
<1>3. /\ FilesOK(j, rootfs, disabled) /\ NextOK(env, j, rootfs, tmp, mnt)
      /\ WellIn(env) => /\ GoneOK(rootfs, run, mnt) /\ RemoveOK(j, run, mnt)
                        /\ NfsOK(j, run, mnt["nfs"])
      /\ WellIn(env) /\ NoReboots(env) => WatchOK(j, run, mnt["nfs"])
      /\ StateOK /\ Alone(env, j, job)
  BY Parts
<1>4. /\ j.cmd \in Starting /\ j.cmd \notin Removing \cup Unmounting \cup {"disable"}
      /\ j.cmd # "stop-all" /\ ~First(j, "backup-remount") /\ x \in Rest(j.steps)
      /\ "online" \in Rest(Tail(j.steps)) /\ x \notin Rest(Tail(j.steps))
  BY <1>2 DEF Comes, Uses, Followed, Before, First, Starting, Removing, Unmounting
<1>5. rootfs[j.c] # "none"
  BY <1>1, AtLxcStart
<1>w. ASSUME WellIn(env), NoReboots(env)
      PROVE  /\ \A c \in Names : run[c] \notin {"booting", "rebooting"}
             /\ \A c \in Names : run[c] = "up" => mnt["nfs"][c] # "none"
  <2>1. BootOK(j, run) /\ UpOK(j, run, mnt["nfs"])
    BY <1>3, <1>w DEF WatchOK
  <2>2. ~Cares(j)
    BY <1>4 DEF Cares, Starting
  <2> QED BY <1>4, <2>1, <2>2 DEF BootOK, UpOK
<1>6. CASE Skip(p) /\ run' = run
           /\ (is_running(j.c) \/ rootfs[j.c] = "none" \/ "start" \in env.faults)
  <2>1. PICK j2 \in JobRecord : Goes(env, p, j, j2, Rest(j.steps), x) /\ j2.steps = <<>>
    BY <1>1, <1>2, <1>3, <1>4, <1>6, LeaveOut DEF StateOK
  <2>2. /\ job' \in [Callers -> JobRecord] /\ Alone(env, j2, job')
        /\ Moves(j, j2, Rest(j.steps), x) /\ j2.cmd = j.cmd /\ j2.c = j.c
    BY <2>1, GoesOn
  <2>3. StateOK'
    BY <1>1, <1>3, <1>6, <2>2 DEF StateOK
  <2>4. FilesOK(j2, rootfs', disabled')
    BY <1>1, <1>3, <2>1, <2>2, FilesKept
  <2>5. NextOK(env, j2, rootfs', tmp', mnt')
    BY <1>1, <1>3, <1>4, <2>2, NextKept
  <2>6. WellIn(env) => GoneOK(rootfs', run', mnt') /\ RemoveOK(j2, run', mnt')
    BY <1>1, <1>3, <1>4, <1>6, <2>2, RemoveKept
  <2>7. ASSUME WellIn(env)
        PROVE  NfsOK(j2, run', mnt'["nfs"])
    <3>1. NfsOK(j, run, mnt["nfs"])
      BY <1>3, <2>7
    <3>2. UnmountOK(j2, mnt["nfs"]) /\ StopAllOK(j2, run, mnt["nfs"])
      BY <1>4, <2>2 DEF UnmountOK, StopAllOK
    <3>3. SettledOK(j2, run) /\ SharesOK(run, mnt["nfs"])
      BY <3>1, <2>2 DEF NfsOK, SettledOK
    <3>4. run[j.c] # "stopped"
      BY <1>5, <1>6, <2>7 DEF WellIn, is_running
    <3>5. run[j.c] # "halting"
      BY <1>2, <1>4, <3>1 DEF NfsOK, SettledOK, Stopping, Starting
    <3>6. run[j.c] \in Runs
      BY <1>2, <1>3 DEF StateOK
    <3>7. StartedOK(j2, run)
      BY <2>2, <3>4, <3>5, <3>6 DEF StartedOK, Runs
    <3> QED BY <1>1, <1>6, <3>1, <3>2, <3>3, <3>7 DEF NfsOK
  <2>8. ASSUME WellIn(env), NoReboots(env)
        PROVE  WatchOK(j2, run', mnt'["nfs"])
    BY <1>1, <1>6, <1>w, <2>8 DEF WatchOK, BootOK, UpOK
  <2> QED BY <1>1, <2>2, <2>3, <2>4, <2>5, <2>6, <2>7, <2>8, Again
<1>7. CASE Done(p) /\ run' = [run EXCEPT ![j.c] = "booting"]
  <2>1. PICK j2 \in JobRecord : /\ Goes(env, p, j, j2, {x}, x)
                                /\ Rest(j2.steps) = Rest(Tail(j.steps))
    BY <1>1, <1>7, StepDone
  <2>2. /\ job' \in [Callers -> JobRecord] /\ Alone(env, j2, job')
        /\ Moves(j, j2, {x}, x) /\ j2.again = j.again /\ j2.cmd = j.cmd /\ j2.c = j.c
    BY <2>1, GoesOn
  <2>r. /\ run' \in [Names -> Runs] /\ run'[j.c] = "booting"
        /\ \A c \in Names \ {j.c} : run'[c] = run[c]
    BY <1>2, <1>3, <1>7 DEF StateOK, Runs
  <2>3. StateOK'
    BY <1>1, <1>3, <2>2, <2>r DEF StateOK
  <2>4. FilesOK(j2, rootfs', disabled')
    BY <1>1, <1>3, <2>2, FilesKept
  <2>5. NextOK(env, j2, rootfs', tmp', mnt')
    BY <1>1, <1>3, <1>4, <2>2, NextKept
  <2>6. ASSUME WellIn(env)
        PROVE  GoneOK(rootfs', run', mnt') /\ RemoveOK(j2, run', mnt')
    <3>1. GoneOK(rootfs, run', mnt)
      BY <1>3, <1>5, <2>6, <2>r DEF GoneOK
    <3>2. RemoveOK(j2, run', mnt)
      BY <1>4, <2>2 DEF RemoveOK
    <3> QED BY <1>1, <3>1, <3>2
  <2>7. ASSUME WellIn(env)
        PROVE  NfsOK(j2, run', mnt'["nfs"])
    <3>1. NfsOK(j, run, mnt["nfs"])
      BY <1>3, <2>7
    <3>2. UnmountOK(j2, mnt["nfs"]) /\ StopAllOK(j2, run', mnt["nfs"])
      BY <1>4, <2>2 DEF UnmountOK, StopAllOK
    <3>3. SettledOK(j2, run')
      BY <3>1, <1>4, <2>2, <2>r DEF NfsOK, SettledOK
    <3>4. SharesOK(run', mnt["nfs"])
      BY <3>1, <2>r DEF NfsOK, SharesOK
    <3>5. StartedOK(j2, run')
      BY <2>2, <2>r DEF StartedOK
    <3> QED BY <1>1, <3>2, <3>3, <3>4, <3>5 DEF NfsOK
  <2>8. ASSUME WellIn(env), NoReboots(env)
        PROVE  WatchOK(j2, run', mnt'["nfs"])
    <3>1. BootOK(j2, run')
      BY <1>4, <1>w, <2>1, <2>2, <2>8, <2>r DEF BootOK
    <3>2. UpOK(j2, run', mnt["nfs"])
      BY <1>w, <2>8, <2>r DEF UpOK
    <3> QED BY <1>1, <3>1, <3>2 DEF WatchOK
  <2> QED BY <1>1, <2>2, <2>3, <2>4, <2>5, <2>6, <2>7, <2>8, Again
<1> QED BY <1>1, <1>2, <1>6, <1>7

(* A container goes down only after its share was unmounted.               *)
LEMMA ShutdownStep ==
  ASSUME NEW j \in JobRecord, Is(j), NEW p \in Callers, Shutdown(p), env' = env
  PROVE  Inv'
<1> DEFINE x == "shutdown"
<1>1. /\ At(p, x) /\ UNCHANGED <<env, rootfs, tmp, store, disabled, mnt>> /\ Done(p)
      /\ \/ run[job[p].c] \in {"up", "booting"}
            /\ run' = [run EXCEPT ![job[p].c] = "halting"]
         \/ run[job[p].c] # "up" /\ run' = run
  BY DEF Shutdown
<1>2. /\ j = job[p] /\ First(j, x) /\ Comes(j, x, Rest(Tail(j.steps)))
      /\ j.c \in Names /\ j.cmd \in Commands
  BY <1>1, StepHere
<1>3. /\ FilesOK(j, rootfs, disabled) /\ NextOK(env, j, rootfs, tmp, mnt)
      /\ WellIn(env) => /\ GoneOK(rootfs, run, mnt) /\ RemoveOK(j, run, mnt)
                        /\ NfsOK(j, run, mnt["nfs"])
      /\ WellIn(env) /\ NoReboots(env) => WatchOK(j, run, mnt["nfs"])
      /\ StateOK
  BY Parts
<1>4. /\ j.cmd \in Stopping /\ j.cmd \notin Removing \cup Starting \cup Rebooting
      /\ j.cmd = "stop-all" \/ j.cmd \in Unmounting
      /\ j.cmd = "stop-all" => Len(j.loops) = 2
      /\ ~First(j, "backup-remount") /\ "nfs-umount" \notin Rest(j.steps)
      /\ j.steps # <<>>
  BY <1>2 DEF Comes, Uses, Before, First, Starting, Stopping, Rebooting, Removing,
              Unmounting
<1>5. PICK j2 \in JobRecord : Goes(env, p, j, j2, {x}, x)
  BY <1>1, StepDone
<1>6. /\ job' \in [Callers -> JobRecord] /\ Alone(env, j2, job')
      /\ Moves(j, j2, {x}, x) /\ j2.again = j.again /\ j2.cmd = j.cmd /\ j2.c = j.c
      /\ j2.list = j.list /\ j2.loops = j.loops
      /\ Rest(j2.steps) \subseteq Rest(j.steps)
  BY <1>5, GoesOn
<1>7. /\ run' \in [Names -> Runs] /\ \A c \in Names \ {j.c} : run'[c] = run[c]
      /\ \/ run'[j.c] = "halting" /\ run[j.c] # "stopped"
         \/ run'[j.c] = run[j.c] /\ run[j.c] # "up"
  BY <1>1, <1>2, <1>3 DEF StateOK, Runs
<1>8. StateOK'
  BY <1>1, <1>3, <1>6, <1>7 DEF StateOK
<1>9. FilesOK(j2, rootfs', disabled')
  BY <1>1, <1>3, <1>6, FilesKept
<1>10. NextOK(env, j2, rootfs', tmp', mnt')
  BY <1>1, <1>3, <1>4, <1>6, NextKept
<1>11. ASSUME WellIn(env)
       PROVE  GoneOK(rootfs', run', mnt') /\ RemoveOK(j2, run', mnt')
  <2>1. GoneOK(rootfs, run', mnt)
    BY <1>3, <1>7, <1>11 DEF GoneOK
  <2> QED BY <1>1, <1>4, <1>6, <2>1 DEF RemoveOK
<1>12. ASSUME WellIn(env)
       PROVE  NfsOK(j2, run', mnt'["nfs"]) /\ SettledOK(j, run)
  <2>1. NfsOK(j, run, mnt["nfs"])
    BY <1>3, <1>12
  <2>2. mnt["nfs"][j.c] = "none"
    <3>1. j.cmd \in Unmounting => mnt["nfs"][j.c] = "none"
      BY <1>4, <2>1 DEF NfsOK, UnmountOK
    <3>2. ASSUME j.cmd = "stop-all"
          PROVE  mnt["nfs"][j.c] = "none"
      <4>1. StopAllOK(j, run, mnt["nfs"]) /\ Len(j.loops) = 2
        BY <1>4, <2>1, <3>2 DEF NfsOK
      <4> QED BY <4>1, <3>2, <1>2 DEF StopAllOK
    <3> QED BY <1>4, <3>1, <3>2
  <2>3. UnmountOK(j2, mnt["nfs"])
    BY <1>6, <2>2 DEF UnmountOK
  <2>4. StopAllOK(j2, run', mnt["nfs"])
    <3>1. ASSUME j.cmd = "stop-all"
          PROVE  /\ Len(j.loops) = 2
                 /\ \A c \in Names : mnt["nfs"][c] = "none"
                 /\ \A c \in Names : run'[c] = "up" => c \in j.list
      <4>1. StopAllOK(j, run, mnt["nfs"]) /\ Len(j.loops) = 2
        BY <1>4, <2>1, <3>1 DEF NfsOK
      <4>2. \A c \in Names : mnt["nfs"][c] = "none"
        BY <4>1, <3>1 DEF StopAllOK
      <4>3. \A c \in Names \ {j.c} : run[c] = "up" => c \in j.list
        BY <4>1, <3>1 DEF StopAllOK
      <4> QED BY <4>1, <4>2, <4>3, <1>7
    <3>2. ASSUME j2.cmd = "stop-all"
          PROVE  /\ Len(j2.loops) = 2
                 /\ \A c \in Names : mnt["nfs"][c] = "none"
                 /\ \A c \in Names : run'[c] = "up" => c \in j2.list
      BY <1>6, <3>1, <3>2
    <3> QED BY <3>2 DEF StopAllOK
  <2>5. SettledOK(j2, run')
    BY <1>4, <1>6, <1>7, <2>1 DEF NfsOK, SettledOK
  <2>6. SharesOK(run', mnt["nfs"])
    BY <1>7, <2>1, <2>2 DEF NfsOK, SharesOK
  <2>7. StartedOK(j2, run')
    BY <1>4, <1>6 DEF StartedOK, Stopping
  <2> QED BY <1>1, <2>1, <2>3, <2>4, <2>5, <2>6, <2>7 DEF NfsOK
<1>13. ASSUME WellIn(env), NoReboots(env)
       PROVE  WatchOK(j2, run', mnt'["nfs"])
  <2>1. WatchOK(j, run, mnt["nfs"]) /\ SettledOK(j, run)
    BY <1>3, <1>12, <1>13
  <2>2. BootOK(j2, run')
    <3>1. \A c \in Names : run[c] \notin {"booting", "rebooting"}
      BY <1>2, <1>4, <2>1 DEF SettledOK, Commands
    <3> QED BY <1>7, <3>1 DEF BootOK
  <2>3. UpOK(j2, run', mnt["nfs"])
    <3>1. \A c \in Names : run'[c] = "up" => c # j.c /\ run[c] = "up"
      BY <1>7
    <3> QED BY <1>6, <2>1, <3>1 DEF WatchOK, UpOK
  <2> QED BY <1>1, <2>2, <2>3 DEF WatchOK
<1> QED BY <1>1, <1>6, <1>8, <1>9, <1>10, <1>11, <1>12, <1>13, Again

(* A container that reboots keeps what is mounted.                         *)
LEMMA RebootStep ==
  ASSUME NEW j \in JobRecord, Is(j), NEW p \in Callers, Reboot(p), env' = env
  PROVE  Inv'
<1> DEFINE x == "reboot"
<1>1. /\ At(p, x) /\ UNCHANGED <<env, rootfs, tmp, store, disabled, mnt>> /\ Done(p)
      /\ run' = [run EXCEPT ![job[p].c] = IF @ = "up" THEN "rebooting" ELSE @]
  BY DEF Reboot
<1>2. /\ j = job[p] /\ First(j, x) /\ Comes(j, x, Rest(Tail(j.steps)))
      /\ j.c \in Names /\ j.cmd \in Commands /\ j.cmd \in env.commands
  BY <1>1, StepHere
<1>3. /\ FilesOK(j, rootfs, disabled) /\ NextOK(env, j, rootfs, tmp, mnt)
      /\ WellIn(env) => /\ GoneOK(rootfs, run, mnt) /\ RemoveOK(j, run, mnt)
                        /\ NfsOK(j, run, mnt["nfs"])
      /\ StateOK
  BY Parts
<1>4. /\ j.cmd \in Rebooting /\ ~First(j, "backup-remount")
      /\ j.cmd \notin Removing \cup Unmounting \cup {"stop-all", "start", "add"}
  BY <1>2 DEF Comes, Uses, First, Rebooting, Removing, Unmounting
<1>5. PICK j2 \in JobRecord : Goes(env, p, j, j2, {x}, x)
  BY <1>1, StepDone
<1>6. /\ job' \in [Callers -> JobRecord] /\ Alone(env, j2, job')
      /\ Moves(j, j2, {x}, x) /\ j2.cmd = j.cmd /\ j2.c = j.c
  BY <1>5, GoesOn
<1>7. /\ run' \in [Names -> Runs] /\ \A c \in Names \ {j.c} : run'[c] = run[c]
      /\ \/ run'[j.c] = "rebooting" /\ run[j.c] # "stopped"
         \/ run'[j.c] = run[j.c]
  BY <1>1, <1>2, <1>3 DEF StateOK, Runs
<1>8. StateOK'
  BY <1>1, <1>3, <1>6, <1>7 DEF StateOK
<1>9. FilesOK(j2, rootfs', disabled')
  BY <1>1, <1>3, <1>6, FilesKept
<1>10. NextOK(env, j2, rootfs', tmp', mnt')
  BY <1>1, <1>3, <1>4, <1>6, NextKept
<1>11. ASSUME WellIn(env)
       PROVE  GoneOK(rootfs', run', mnt') /\ RemoveOK(j2, run', mnt')
  <2>1. GoneOK(rootfs, run', mnt)
    BY <1>3, <1>7, <1>11 DEF GoneOK
  <2> QED BY <1>1, <1>4, <1>6, <2>1 DEF RemoveOK
<1>12. ASSUME WellIn(env)
       PROVE  NfsOK(j2, run', mnt'["nfs"])
  <2>1. NfsOK(j, run, mnt["nfs"])
    BY <1>3, <1>12
  <2>2. UnmountOK(j2, mnt["nfs"]) /\ StopAllOK(j2, run', mnt["nfs"]) /\ StartedOK(j2, run')
    BY <1>4, <1>6 DEF UnmountOK, StopAllOK, StartedOK
  <2>3. SettledOK(j2, run')
    BY <1>4, <1>6, <1>7, <2>1 DEF NfsOK, SettledOK, Rebooting
  <2>4. SharesOK(run', mnt["nfs"])
    BY <1>7, <2>1 DEF NfsOK, SharesOK
  <2> QED BY <1>1, <2>2, <2>3, <2>4 DEF NfsOK
<1>13. ~NoReboots(env)
  BY <1>2, <1>4 DEF NoReboots
<1> QED BY <1>1, <1>6, <1>8, <1>9, <1>10, <1>11, <1>12, <1>13, Again

(* A container is killed only after its share was unmounted.               *)
LEMMA LxcStopStep ==
  ASSUME NEW j \in JobRecord, Is(j), NEW p \in Callers, LxcStop(p), env' = env
  PROVE  Inv'
<1> DEFINE x == "lxc-stop"
<1>1. /\ At(p, x) /\ UNCHANGED <<env, rootfs, tmp, store, disabled, mnt>> /\ Done(p)
      /\ run' = [run EXCEPT ![job[p].c] =
                   IF job[p].exact \/ job[p].cmd \in {"kill", "kill-all"}
                   THEN "stopped" ELSE @]
  BY DEF LxcStop
<1>2. /\ j = job[p] /\ First(j, x) /\ Comes(j, x, Rest(Tail(j.steps)))
      /\ j.c \in Names /\ j.cmd \in Commands /\ Running(env, j)
  BY <1>1, StepHere
<1>3. /\ FilesOK(j, rootfs, disabled) /\ NextOK(env, j, rootfs, tmp, mnt)
      /\ WellIn(env) => /\ GoneOK(rootfs, run, mnt) /\ RemoveOK(j, run, mnt)
                        /\ NfsOK(j, run, mnt["nfs"])
      /\ WellIn(env) /\ NoReboots(env) => WatchOK(j, run, mnt["nfs"])
      /\ StateOK
  BY Parts
<1>4. /\ j.cmd \in Unmounting /\ j.cmd \notin Starting \cup Rebooting
      /\ j.cmd \notin {"stop-all", "start", "add"}
      /\ ~First(j, "backup-remount") /\ "nfs-umount" \notin Rest(j.steps)
      /\ j.steps # <<>>
  BY <1>2 DEF Comes, Uses, Before, First, Starting, Rebooting, Removing, Unmounting
<1>5. PICK j2 \in JobRecord : Goes(env, p, j, j2, {x}, x)
  BY <1>1, StepDone
<1>6. /\ job' \in [Callers -> JobRecord] /\ Alone(env, j2, job')
      /\ Moves(j, j2, {x}, x) /\ j2.cmd = j.cmd /\ j2.c = j.c
  BY <1>5, GoesOn
<1>7. /\ run' \in [Names -> Runs] /\ \A c \in Names \ {j.c} : run'[c] = run[c]
      /\ run'[j.c] = "stopped" \/ run'[j.c] = run[j.c]
      /\ WellIn(env) => run'[j.c] = "stopped"
  <2>1. WellIn(env) => j.exact
    BY <1>2 DEF Running, WellIn
  <2> QED BY <1>1, <1>2, <1>3, <2>1 DEF StateOK, Runs
<1>8. StateOK'
  BY <1>1, <1>3, <1>6, <1>7 DEF StateOK
<1>9. FilesOK(j2, rootfs', disabled')
  BY <1>1, <1>3, <1>6, FilesKept
<1>10. NextOK(env, j2, rootfs', tmp', mnt')
  BY <1>1, <1>3, <1>4, <1>6, NextKept
<1>11. ASSUME WellIn(env)
       PROVE  GoneOK(rootfs', run', mnt') /\ RemoveOK(j2, run', mnt')
  <2>1. GoneOK(rootfs, run', mnt)
    BY <1>3, <1>7, <1>11 DEF GoneOK
  <2>2. RemoveOK(j2, run', mnt)
    BY <1>3, <1>6, <1>7, <1>11 DEF RemoveOK, Moves
  <2> QED BY <1>1, <2>1, <2>2
<1>12. ASSUME WellIn(env)
       PROVE  NfsOK(j2, run', mnt'["nfs"]) /\ SettledOK(j, run)
  <2>1. NfsOK(j, run, mnt["nfs"])
    BY <1>3, <1>12
  <2>2. mnt["nfs"][j.c] = "none"
    BY <1>4, <2>1 DEF NfsOK, UnmountOK
  <2>3. /\ UnmountOK(j2, mnt["nfs"]) /\ StopAllOK(j2, run', mnt["nfs"])
        /\ StartedOK(j2, run')
    BY <1>4, <1>6, <2>2 DEF UnmountOK, StopAllOK, StartedOK
  <2>4. SettledOK(j2, run')
    BY <1>4, <1>6, <1>7, <1>12, <2>1 DEF NfsOK, SettledOK
  <2>5. SharesOK(run', mnt["nfs"])
    BY <1>7, <2>1, <2>2 DEF NfsOK, SharesOK
  <2> QED BY <1>1, <2>1, <2>3, <2>4, <2>5 DEF NfsOK
<1>13. ASSUME WellIn(env), NoReboots(env)
       PROVE  WatchOK(j2, run', mnt'["nfs"])
  <2>1. WatchOK(j, run, mnt["nfs"]) /\ SettledOK(j, run) /\ run'[j.c] = "stopped"
    BY <1>3, <1>7, <1>12, <1>13
  <2>2. BootOK(j2, run')
    <3>1. \A c \in Names : run[c] \notin {"booting", "rebooting"}
      BY <1>2, <1>4, <2>1 DEF SettledOK, Commands
    <3> QED BY <1>7, <2>1, <3>1 DEF BootOK
  <2>3. UpOK(j2, run', mnt["nfs"])
    <3>1. \A c \in Names : run'[c] = "up" => c # j.c /\ run[c] = "up"
      BY <1>7, <2>1
    <3> QED BY <1>6, <2>1, <3>1 DEF WatchOK, UpOK
  <2> QED BY <1>1, <2>2, <2>3 DEF WatchOK
<1> QED BY <1>1, <1>6, <1>8, <1>9, <1>10, <1>11, <1>12, <1>13, Again
-----------------------------------------------------------------------------
(* The steps that mount.                                                   *)
LEMMA BindMountStep ==
  ASSUME NEW j \in JobRecord, Is(j), NEW p \in Callers, BindMount(p), env' = env
  PROVE  Inv'
<1> DEFINE x == "bind-mount"
<1>1. /\ At(p, x) /\ UNCHANGED <<env, rootfs, tmp, store, run, disabled>> /\ Done(p)
      /\ IF rootfs[job[p].c] = "none" THEN mnt' = mnt
         ELSE mnt' = [mnt EXCEPT !["bind"][job[p].c] = "rw"]
  BY DEF BindMount, Mount
<1>2. /\ j = job[p] /\ First(j, x) /\ Comes(j, x, Rest(Tail(j.steps)))
      /\ j.c \in Names /\ j.cmd \in Commands
  BY <1>1, StepHere
<1>3. /\ FilesOK(j, rootfs, disabled) /\ NextOK(env, j, rootfs, tmp, mnt)
      /\ WellIn(env) => /\ GoneOK(rootfs, run, mnt) /\ RemoveOK(j, run, mnt)
                        /\ NfsOK(j, run, mnt["nfs"])
      /\ WellIn(env) /\ NoReboots(env) => WatchOK(j, run, mnt["nfs"])
      /\ StateOK
  BY Parts
<1>4. j.cmd \notin Removing \cup {"stop-all"} /\ ~First(j, "backup-remount")
  BY <1>2 DEF Comes, Uses, First, Starting, Removing
<1>5. PICK j2 \in JobRecord : Goes(env, p, j, j2, {x}, x)
  BY <1>1, StepDone
<1>6. /\ job' \in [Callers -> JobRecord] /\ Alone(env, j2, job')
      /\ Moves(j, j2, {x}, x) /\ j2.again = j.again /\ j2.cmd = j.cmd /\ j2.c = j.c
  BY <1>5, GoesOn
<1>7. /\ mnt' \in Mounts /\ mnt'["nfs"] = mnt["nfs"] /\ mnt'["backup"] = mnt["backup"]
      /\ \A c \in Names : mnt'["bind"][c] = mnt["bind"][c] \/ rootfs[c] # "none"
  <2>1. CASE rootfs[j.c] = "none"
    BY <1>1, <1>2, <1>3, <2>1 DEF StateOK
  <2>2. CASE rootfs[j.c] # "none"
    <3>1. mnt' = [mnt EXCEPT !["bind"][j.c] = "rw"]
      BY <1>1, <1>2, <2>2
    <3>2. /\ mnt' \in Mounts /\ \A d \in Names \ {j.c} : mnt'["bind"][d] = mnt["bind"][d]
          /\ \A l \in Kinds \ {"bind"} : mnt'[l] = mnt[l]
      BY <1>2, <1>3, <3>1, MountEffect DEF StateOK, Kinds
    <3> QED BY <2>2, <3>2 DEF Kinds
  <2> QED BY <2>1, <2>2
<1>8. StateOK'
  BY <1>1, <1>3, <1>6, <1>7 DEF StateOK
<1>9. FilesOK(j2, rootfs', disabled')
  BY <1>1, <1>3, <1>6, FilesKept
<1>10. NextOK(env, j2, rootfs', tmp', mnt')
  BY <1>1, <1>3, <1>4, <1>6, <1>7, NextKept
<1>11. WellIn(env) => GoneOK(rootfs', run', mnt')
  BY <1>1, <1>3, <1>7 DEF GoneOK, Kinds
<1>12. WellIn(env) => RemoveOK(j2, run', mnt') /\ NfsOK(j2, run', mnt'["nfs"])
  BY <1>1, <1>3, <1>4, <1>6, <1>7, RemoveKept, NfsKept
<1>13. WellIn(env) /\ NoReboots(env) => WatchOK(j2, run', mnt'["nfs"])
  BY <1>1, <1>3, <1>6, <1>7, WatchKept
<1> QED BY <1>1, <1>6, <1>8, <1>9, <1>10, <1>11, <1>12, <1>13, Again

(* A share is left out only when it is mounted or nothing answers.         *)
LEMMA NfsReadyStep ==
  ASSUME NEW j \in JobRecord, Is(j), NEW p \in Callers, NfsReady(p), env' = env
  PROVE  Inv'
<1> DEFINE x == "nfs-ready"
<1>1. /\ At(p, x) /\ UNCHANGED <<env, rootfs, tmp, store, run, disabled, mnt>>
      /\ \E answer \in Answers(job[p].c) :
           IF answer /\ mnt["nfs"][job[p].c] = "none" /\ rootfs[job[p].c] # "none"
           THEN Done(p) ELSE job' = [job EXCEPT ![p].steps = Tail(Tail(@))]
  BY DEF NfsReady
<1>2. /\ j = job[p] /\ First(j, x) /\ Comes(j, x, Rest(Tail(j.steps)))
      /\ j.c \in Names /\ j.cmd \in Commands
  BY <1>1, StepHere
<1>3. /\ FilesOK(j, rootfs, disabled) /\ NextOK(env, j, rootfs, tmp, mnt)
      /\ WellIn(env) => /\ GoneOK(rootfs, run, mnt) /\ RemoveOK(j, run, mnt)
                        /\ NfsOK(j, run, mnt["nfs"])
      /\ WellIn(env) /\ NoReboots(env) => WatchOK(j, run, mnt["nfs"])
      /\ StateOK /\ Alone(env, j, job)
  BY Parts
<1>4. j.cmd \notin Removing \cup {"stop-all"} /\ ~First(j, "backup-remount")
  BY <1>2 DEF Comes, Uses, First, Starting, Rebooting, Removing
<1>5. CASE Done(p)
  <2>1. PICK j2 \in JobRecord : Goes(env, p, j, j2, {x}, x)
    BY <1>1, <1>5, StepDone
  <2>2. store' \in [Names -> BOOLEAN]
    BY <1>1, <1>3 DEF StateOK
  <2> QED BY <1>1, <1>2, <1>4, <2>1, <2>2, QuietStep
<1>6. CASE /\ job' = [job EXCEPT ![p].steps = Tail(Tail(@))]
           /\ run[j.c] = "up" => mnt["nfs"][j.c] # "none" \/ rootfs[j.c] = "none"
  <2>1. PICK j2, y :
          j2 \in JobRecord /\ Adjacent(x, y, j.cmd) /\ Goes(env, p, j, j2, {x, y}, y)
    BY <1>1, <1>3, <1>6, Pass DEF StateOK
  <2>2. y = "nfs-mount"
    BY <2>1 DEF Adjacent
  <2>3. /\ job' \in [Callers -> JobRecord] /\ Alone(env, j2, job')
        /\ Moves(j, j2, {x, y}, y) /\ j2.again = j.again /\ j2.cmd = j.cmd /\ j2.c = j.c
        /\ Rest(j2.steps) \subseteq Rest(j.steps)
    BY <2>1, GoesOn
  <2>4. StateOK'
    BY <1>1, <1>3, <2>3 DEF StateOK
  <2>5. FilesOK(j2, rootfs', disabled')
    BY <1>1, <1>3, <2>2, <2>3, FilesKept
  <2>6. NextOK(env, j2, rootfs', tmp', mnt')
    BY <1>1, <1>3, <1>4, <2>2, <2>3, NextKept
  <2>7. WellIn(env) => /\ GoneOK(rootfs', run', mnt') /\ RemoveOK(j2, run', mnt')
                       /\ NfsOK(j2, run', mnt'["nfs"])
    BY <1>1, <1>3, <1>4, <2>2, <2>3, RemoveKept, NfsKept
  <2>8. ASSUME WellIn(env), NoReboots(env)
        PROVE  WatchOK(j2, run', mnt'["nfs"])
    <3>1. WatchOK(j, run, mnt["nfs"]) /\ GoneOK(rootfs, run, mnt)
      BY <1>3, <2>8
    <3>2. BootOK(j2, run)
      BY <2>2, <2>3, <3>1 DEF WatchOK, BootOK, Moves
    <3>3. run[j.c] = "up" => mnt["nfs"][j.c] # "none"
      BY <1>2, <1>6, <3>1 DEF GoneOK
    <3>4. UpOK(j2, run, mnt["nfs"])
      BY <2>3, <3>1, <3>3 DEF WatchOK, UpOK
    <3> QED BY <1>1, <3>2, <3>4 DEF WatchOK
  <2> QED BY <1>1, <2>1, <2>3, <2>4, <2>5, <2>6, <2>7, <2>8, Again
<1>7. PICK answer \in Answers(j.c) :
        IF answer /\ mnt["nfs"][j.c] = "none" /\ rootfs[j.c] # "none"
        THEN Done(p) ELSE job' = [job EXCEPT ![p].steps = Tail(Tail(@))]
  BY <1>1, <1>2
<1>8. run[j.c] = "up" => answer = TRUE
  BY <1>7 DEF Answers
<1>9. CASE answer /\ mnt["nfs"][j.c] = "none" /\ rootfs[j.c] # "none"
  BY <1>5, <1>7, <1>9
<1>10. CASE ~(answer /\ mnt["nfs"][j.c] = "none" /\ rootfs[j.c] # "none")
  <2>1. job' = [job EXCEPT ![p].steps = Tail(Tail(@))]
    BY <1>7, <1>10
  <2>2. run[j.c] = "up" => mnt["nfs"][j.c] # "none" \/ rootfs[j.c] = "none"
    BY <1>8, <1>10
  <2> QED BY <1>6, <2>1, <2>2
<1> QED BY <1>9, <1>10

(* A share is mounted only of a container that answers.                    *)
LEMMA NfsMountedStep ==
  ASSUME NEW j \in JobRecord, Is(j), NEW p \in Callers, NfsMounted(p), env' = env
  PROVE  Inv'
<1> DEFINE x == "nfs-mount"
<1>1. /\ At(p, x) /\ UNCHANGED <<env, rootfs, tmp, store, run, disabled>> /\ Done(p)
      /\ \E answer \in Answers(job[p].c) :
           IF answer THEN mnt' = [mnt EXCEPT !["nfs"][job[p].c] = "rw"] ELSE mnt' = mnt
  BY DEF NfsMounted, Mount
<1>2. /\ j = job[p] /\ First(j, x) /\ Comes(j, x, Rest(Tail(j.steps)))
      /\ j.c \in Names /\ j.cmd \in Commands
  BY <1>1, StepHere
<1>3. /\ FilesOK(j, rootfs, disabled) /\ NextOK(env, j, rootfs, tmp, mnt)
      /\ WellIn(env) => /\ GoneOK(rootfs, run, mnt) /\ RemoveOK(j, run, mnt)
                        /\ NfsOK(j, run, mnt["nfs"])
      /\ WellIn(env) /\ NoReboots(env) => WatchOK(j, run, mnt["nfs"])
      /\ StateOK
  BY Parts
<1>4. /\ j.cmd \notin Removing \cup Unmounting \cup {"none", "stop-all"} \cup Stopping
      /\ "create" \notin Rest(j.steps) /\ j.steps # <<>>
      /\ ~First(j, "backup-remount")
  BY <1>2 DEF Comes, Uses, Before, First, Starting, Rebooting, Removing, Unmounting,
              Stopping
<1>5. PICK j2 \in JobRecord : Goes(env, p, j, j2, {x}, x)
  BY <1>1, StepDone
<1>6. /\ job' \in [Callers -> JobRecord] /\ Alone(env, j2, job')
      /\ Moves(j, j2, {x}, x) /\ j2.again = j.again /\ j2.cmd = j.cmd /\ j2.c = j.c
  BY <1>5, GoesOn
<1>7. /\ mnt' \in Mounts /\ mnt'["bind"] = mnt["bind"] /\ mnt'["backup"] = mnt["backup"]
      /\ \A c \in Names \ {j.c} : mnt'["nfs"][c] = mnt["nfs"][c]
      /\ \/ mnt'["nfs"][j.c] = "rw" /\ run[j.c] # "stopped"
         \/ mnt'["nfs"][j.c] = mnt["nfs"][j.c] /\ run[j.c] # "up"
  <2>1. PICK answer \in Answers(j.c) :
          IF answer THEN mnt' = [mnt EXCEPT !["nfs"][j.c] = "rw"] ELSE mnt' = mnt
    BY <1>1, <1>2
  <2>2. run[j.c] = "up" => answer = TRUE
    BY <2>1 DEF Answers
  <2>3. run[j.c] = "stopped" => answer = FALSE
    BY <2>1 DEF Answers
  <2>4. CASE mnt' = [mnt EXCEPT !["nfs"][j.c] = "rw"] /\ answer = TRUE
    <3>1. /\ mnt' \in Mounts /\ mnt'["nfs"][j.c] = "rw"
          /\ \A d \in Names \ {j.c} : mnt'["nfs"][d] = mnt["nfs"][d]
          /\ \A l \in Kinds \ {"nfs"} : mnt'[l] = mnt[l]
      BY <1>2, <1>3, <2>4, MountEffect DEF StateOK, Kinds
    <3> QED BY <2>3, <2>4, <3>1 DEF Kinds
  <2>5. CASE mnt' = mnt /\ answer # TRUE
    BY <1>3, <2>2, <2>5 DEF StateOK
  <2>6. run[j.c] \in Runs
    BY <1>2, <1>3 DEF StateOK
  <2>7. answer \in BOOLEAN
    BY <2>1, <2>6 DEF Answers, Runs
  <2> QED BY <2>1, <2>4, <2>5, <2>7
<1>e. rootfs[j.c] # "none"
  <2>1. ExistsOK(j, rootfs)
    BY <1>3 DEF FilesOK
  <2> QED BY <1>4, <2>1 DEF ExistsOK
<1>8. StateOK'
  BY <1>1, <1>3, <1>6, <1>7 DEF StateOK
<1>9. FilesOK(j2, rootfs', disabled')
  BY <1>1, <1>3, <1>6, FilesKept
<1>10. NextOK(env, j2, rootfs', tmp', mnt')
  BY <1>1, <1>3, <1>4, <1>6, <1>7, NextKept
<1>11. WellIn(env) => GoneOK(rootfs', run', mnt')
  BY <1>1, <1>3, <1>7, <1>e DEF GoneOK, Kinds
<1>12. WellIn(env) => RemoveOK(j2, run', mnt')
  BY <1>3, <1>4, <1>6, RemoveKept
<1>13. ASSUME WellIn(env)
       PROVE  NfsOK(j2, run', mnt'["nfs"])
  <2>1. NfsOK(j, run, mnt["nfs"])
    BY <1>3, <1>13
  <2>2. UnmountOK(j2, mnt'["nfs"]) /\ StopAllOK(j2, run, mnt'["nfs"])
    BY <1>4, <1>6 DEF UnmountOK, StopAllOK
  <2>3. SettledOK(j2, run)
    BY <1>6, <2>1 DEF NfsOK, SettledOK
  <2>4. SharesOK(run, mnt'["nfs"])
    <3>1. \A c \in Names : run[c] # "halting"
      BY <1>4, <2>1 DEF NfsOK, SettledOK
    <3> QED BY <1>7, <2>1, <3>1 DEF NfsOK, SharesOK
  <2>5. StartedOK(j2, run)
    BY <1>6, <2>1 DEF NfsOK, StartedOK, Moves
  <2> QED BY <1>1, <2>2, <2>3, <2>4, <2>5 DEF NfsOK
<1>14. ASSUME WellIn(env), NoReboots(env)
       PROVE  WatchOK(j2, run', mnt'["nfs"])
  <2>1. WatchOK(j, run, mnt["nfs"])
    BY <1>3, <1>14
  <2>2. BootOK(j2, run)
    BY <1>6, <2>1 DEF WatchOK, BootOK, Moves
  <2>3. UpOK(j2, run, mnt'["nfs"])
    BY <1>6, <1>7, <2>1 DEF WatchOK, UpOK
  <2> QED BY <1>1, <2>2, <2>3 DEF WatchOK
<1> QED BY <1>1, <1>6, <1>8, <1>9, <1>10, <1>11, <1>12, <1>13, <1>14, Again

(* The last part of start may be left out.                                 *)
LEMMA BackupReadyStep ==
  ASSUME NEW j \in JobRecord, Is(j), NEW p \in Callers, BackupReady(p), env' = env
  PROVE  Inv'
<1> DEFINE x == "backup-ready"
<1>1. /\ At(p, x) /\ UNCHANGED <<env, rootfs, tmp, store, run, disabled, mnt>>
      /\ Done(p) \/ Skip(p)
  BY DEF BackupReady
<1>2. /\ j = job[p] /\ First(j, x) /\ Comes(j, x, Rest(Tail(j.steps)))
      /\ j.c \in Names /\ j.cmd \in Commands
  BY <1>1, StepHere
<1>3. /\ FilesOK(j, rootfs, disabled) /\ NextOK(env, j, rootfs, tmp, mnt)
      /\ WellIn(env) => /\ GoneOK(rootfs, run, mnt) /\ RemoveOK(j, run, mnt)
                        /\ NfsOK(j, run, mnt["nfs"])
      /\ WellIn(env) /\ NoReboots(env) => WatchOK(j, run, mnt["nfs"])
      /\ StateOK /\ Alone(env, j, job)
  BY Parts
<1>4. /\ j.cmd \in Starting /\ j.cmd \notin Removing \cup Unmounting \cup {"disable"}
      /\ j.cmd # "stop-all" /\ ~First(j, "backup-remount")
      /\ {"lxc-start", "online", "nfs-mount"} \cap Rest(j.steps) = {}
  BY <1>2 DEF Comes, Uses, Before, First, Starting, Removing, Unmounting
<1>5. CASE Done(p)
  <2>1. PICK j2 \in JobRecord : Goes(env, p, j, j2, {x}, x)
    BY <1>1, <1>5, StepDone
  <2>2. store' \in [Names -> BOOLEAN]
    BY <1>1, <1>3 DEF StateOK
  <2> QED BY <1>1, <1>2, <1>4, <2>1, <2>2, QuietStep
<1>6. CASE Skip(p)
  <2>1. PICK j2 \in JobRecord : Goes(env, p, j, j2, Rest(j.steps), x) /\ j2.steps = <<>>
    BY <1>1, <1>2, <1>3, <1>4, <1>6, LeaveOut DEF StateOK
  <2>2. /\ job' \in [Callers -> JobRecord] /\ Alone(env, j2, job')
        /\ Moves(j, j2, Rest(j.steps), x) /\ j2.cmd = j.cmd /\ j2.c = j.c
        /\ j2.list = j.list
    BY <2>1, GoesOn
  <2>3. StateOK'
    BY <1>1, <1>3, <2>2 DEF StateOK
  <2>4. FilesOK(j2, rootfs', disabled')
    BY <1>1, <1>3, <2>1, <2>2, FilesKept
  <2>5. NextOK(env, j2, rootfs', tmp', mnt')
    BY <1>1, <1>3, <1>4, <2>2, NextKept
  <2>6. WellIn(env) => GoneOK(rootfs', run', mnt') /\ RemoveOK(j2, run', mnt')
    BY <1>1, <1>3, <1>4, <2>2, RemoveKept
  <2>7. ASSUME WellIn(env)
        PROVE  NfsOK(j2, run', mnt'["nfs"])
    <3>1. NfsOK(j, run, mnt["nfs"])
      BY <1>3, <2>7
    <3>2. UnmountOK(j2, mnt["nfs"]) /\ StopAllOK(j2, run, mnt["nfs"])
      BY <1>4, <2>2 DEF UnmountOK, StopAllOK
    <3>3. SettledOK(j2, run) /\ SharesOK(run, mnt["nfs"])
      BY <3>1, <2>2 DEF NfsOK, SettledOK
    <3>4. StartedOK(j2, run)
      BY <1>4, <2>2, <3>1 DEF NfsOK, StartedOK
    <3> QED BY <1>1, <3>2, <3>3, <3>4 DEF NfsOK
  <2>8. ASSUME WellIn(env), NoReboots(env)
        PROVE  WatchOK(j2, run', mnt'["nfs"])
    <3>1. WatchOK(j, run, mnt["nfs"])
      BY <1>3, <2>8
    <3>2. BootOK(j2, run)
      BY <1>4, <3>1 DEF WatchOK, BootOK
    <3>3. ~Cares(j)
      BY <1>4 DEF Cares, Starting
    <3>4. UpOK(j2, run, mnt["nfs"])
      BY <2>2, <3>1, <3>3 DEF WatchOK, UpOK
    <3> QED BY <1>1, <3>2, <3>4 DEF WatchOK
  <2> QED BY <1>1, <2>2, <2>3, <2>4, <2>5, <2>6, <2>7, <2>8, Again
<1> QED BY <1>1, <1>5, <1>6

(* A backup is writable until it is remounted, which is next.              *)
LEMMA BackupMountedStep ==
  ASSUME NEW j \in JobRecord, Is(j), NEW p \in Callers, BackupMounted(p), env' = env
  PROVE  Inv'
<1> DEFINE x == "backup-mount"
<1>1. /\ At(p, x) /\ UNCHANGED <<env, rootfs, tmp, store, run, disabled>> /\ Done(p)
      /\ mnt' = [mnt EXCEPT !["backup"][job[p].c] = "rw"]
  BY DEF BackupMounted, Mount
<1>2. /\ j = job[p] /\ First(j, x) /\ Comes(j, x, Rest(Tail(j.steps)))
      /\ j.c \in Names /\ j.cmd \in Commands
  BY <1>1, StepHere
<1>3. /\ FilesOK(j, rootfs, disabled) /\ NextOK(env, j, rootfs, tmp, mnt)
      /\ WellIn(env) => /\ GoneOK(rootfs, run, mnt) /\ RemoveOK(j, run, mnt)
                        /\ NfsOK(j, run, mnt["nfs"])
      /\ WellIn(env) /\ NoReboots(env) => WatchOK(j, run, mnt["nfs"])
      /\ StateOK
  BY Parts
<1>4. /\ j.cmd \notin Removing \cup {"none", "stop-all"} /\ j.steps # <<>>
      /\ ~First(j, "backup-remount") /\ "create" \notin Rest(j.steps)
      /\ Rest(Tail(j.steps)) # {}
  BY <1>2 DEF Comes, Uses, Before, Followed, First, Starting, Removing
<1>5. PICK j2 \in JobRecord : /\ Goes(env, p, j, j2, {x}, x)
                              /\ Rest(j2.steps) = Rest(Tail(j.steps))
  BY <1>1, StepDone
<1>6. /\ job' \in [Callers -> JobRecord] /\ Alone(env, j2, job') /\ Running(env, j2)
      /\ Moves(j, j2, {x}, x) /\ j2.again = j.again /\ j2.cmd = j.cmd /\ j2.c = j.c
  BY <1>5, GoesOn
<1>7. /\ mnt' \in Mounts /\ mnt'["bind"] = mnt["bind"] /\ mnt'["nfs"] = mnt["nfs"]
      /\ \A c \in Names \ {j.c} : mnt'["backup"][c] = mnt["backup"][c]
  <2>1. mnt' = [mnt EXCEPT !["backup"][j.c] = "rw"]
    BY <1>1, <1>2
  <2>2. /\ mnt' \in Mounts
        /\ \A d \in Names \ {j.c} : mnt'["backup"][d] = mnt["backup"][d]
        /\ \A l \in Kinds \ {"backup"} : mnt'[l] = mnt[l]
    BY <1>2, <1>3, <2>1, MountEffect DEF StateOK, Kinds
  <2> QED BY <2>2 DEF Kinds
<1>e. rootfs[j.c] # "none"
  <2>1. ExistsOK(j, rootfs)
    BY <1>3 DEF FilesOK
  <2> QED BY <1>4, <2>1 DEF ExistsOK
<1>8. StateOK'
  BY <1>1, <1>3, <1>6, <1>7 DEF StateOK
<1>9. FilesOK(j2, rootfs', disabled')
  BY <1>1, <1>3, <1>6, FilesKept
<1>10. NextOK(env, j2, rootfs', tmp', mnt')
  <2>1. DirsOK(env, j2, mnt') /\ CopyOK(env, j2, rootfs', tmp')
    BY <1>6, DirsKept, CopyKept
  <2>2. First(j2, "backup-remount")
    <3>1. j2.steps # <<>>
      BY <1>4, <1>5, <1>6, RunningType, RestEmpty
    <3> QED BY <1>6, <3>1 DEF Moves, Adjacent, First
  <2>3. WritableOK(env, j2, mnt')
    <3>1. WritableOK(env, j, mnt)
      BY <1>3 DEF NextOK
    <3> QED BY <1>4, <1>6, <1>7, <2>2, <3>1 DEF WritableOK
  <2> QED BY <2>1, <2>3 DEF NextOK
<1>11. WellIn(env) => GoneOK(rootfs', run', mnt')
  BY <1>1, <1>3, <1>7, <1>e DEF GoneOK, Kinds
<1>12. WellIn(env) => RemoveOK(j2, run', mnt') /\ NfsOK(j2, run', mnt'["nfs"])
  BY <1>1, <1>3, <1>4, <1>6, <1>7, RemoveKept, NfsKept
<1>13. WellIn(env) /\ NoReboots(env) => WatchOK(j2, run', mnt'["nfs"])
  BY <1>1, <1>3, <1>6, <1>7, WatchKept
<1> QED BY <1>1, <1>6, <1>8, <1>9, <1>10, <1>11, <1>12, <1>13, Again

(* A backup is remounted read-only.                                        *)
LEMMA BackupRemountStep ==
  ASSUME NEW j \in JobRecord, Is(j), NEW p \in Callers, BackupRemount(p), env' = env
  PROVE  Inv'
<1> DEFINE x == "backup-remount"
<1>1. /\ At(p, x) /\ UNCHANGED <<env, rootfs, tmp, store, run, disabled>> /\ Done(p)
      /\ IF mnt["backup"][job[p].c] = "none" THEN mnt' = mnt
         ELSE mnt' = [mnt EXCEPT !["backup"][job[p].c] = "ro"]
  BY DEF BackupRemount, Mount
<1>2. /\ j = job[p] /\ First(j, x) /\ Comes(j, x, Rest(Tail(j.steps)))
      /\ j.c \in Names /\ j.cmd \in Commands
  BY <1>1, StepHere
<1>3. /\ FilesOK(j, rootfs, disabled) /\ NextOK(env, j, rootfs, tmp, mnt)
      /\ WellIn(env) => /\ GoneOK(rootfs, run, mnt) /\ RemoveOK(j, run, mnt)
                        /\ NfsOK(j, run, mnt["nfs"])
      /\ WellIn(env) /\ NoReboots(env) => WatchOK(j, run, mnt["nfs"])
      /\ StateOK
  BY Parts
<1>4. j.cmd \notin Removing \cup {"stop-all"}
  BY <1>2 DEF Comes, Uses, Starting, Removing
<1>5. PICK j2 \in JobRecord : Goes(env, p, j, j2, {x}, x)
  BY <1>1, StepDone
<1>6. /\ job' \in [Callers -> JobRecord] /\ Alone(env, j2, job')
      /\ Moves(j, j2, {x}, x) /\ j2.again = j.again /\ j2.cmd = j.cmd /\ j2.c = j.c
  BY <1>5, GoesOn
<1>7. /\ mnt' \in Mounts /\ mnt'["bind"] = mnt["bind"] /\ mnt'["nfs"] = mnt["nfs"]
      /\ \A c \in Names \ {j.c} : mnt'["backup"][c] = mnt["backup"][c]
      /\ \/ mnt["backup"][j.c] = "none" /\ mnt'["backup"][j.c] = "none"
         \/ mnt["backup"][j.c] # "none" /\ mnt'["backup"][j.c] = "ro"
  <2>1. CASE mnt["backup"][j.c] = "none"
    BY <1>1, <1>2, <1>3, <2>1 DEF StateOK
  <2>2. CASE mnt["backup"][j.c] # "none"
    <3>1. mnt' = [mnt EXCEPT !["backup"][j.c] = "ro"]
      BY <1>1, <1>2, <2>2
    <3>2. /\ mnt' \in Mounts /\ mnt'["backup"][j.c] = "ro"
          /\ \A d \in Names \ {j.c} : mnt'["backup"][d] = mnt["backup"][d]
          /\ \A l \in Kinds \ {"backup"} : mnt'[l] = mnt[l]
      BY <1>2, <1>3, <3>1, MountEffect DEF StateOK, Kinds
    <3> QED BY <2>2, <3>2 DEF Kinds
  <2> QED BY <2>1, <2>2
<1>8. StateOK'
  BY <1>1, <1>3, <1>6, <1>7 DEF StateOK
<1>9. FilesOK(j2, rootfs', disabled')
  BY <1>1, <1>3, <1>6, FilesKept
<1>10. NextOK(env, j2, rootfs', tmp', mnt')
  <2>1. DirsOK(env, j2, mnt') /\ CopyOK(env, j2, rootfs', tmp')
    BY <1>6, DirsKept, CopyKept
  <2>2. WritableOK(env, j2, mnt')
    <3>1. WritableOK(env, j, mnt)
      BY <1>3 DEF NextOK
    <3>2. \A c \in Names : mnt'["backup"][c] = "rw" => c # j.c /\ mnt["backup"][c] = "rw"
      BY <1>7
    <3> QED BY <3>1, <3>2 DEF WritableOK
  <2> QED BY <2>1, <2>2 DEF NextOK
<1>11. ASSUME WellIn(env)
       PROVE  GoneOK(rootfs', run', mnt')
  <2>1. GoneOK(rootfs, run, mnt)
    BY <1>3, <1>11
  <2>2. \A c \in Names : rootfs[c] = "none" => mnt'["backup"][c] = "none"
    BY <1>7, <2>1 DEF GoneOK, Kinds
  <2> QED BY <1>1, <1>7, <2>1, <2>2 DEF GoneOK, Kinds
<1>12. WellIn(env) => RemoveOK(j2, run', mnt') /\ NfsOK(j2, run', mnt'["nfs"])
  BY <1>1, <1>3, <1>4, <1>6, <1>7, RemoveKept, NfsKept
<1>13. WellIn(env) /\ NoReboots(env) => WatchOK(j2, run', mnt'["nfs"])
  BY <1>1, <1>3, <1>6, <1>7, WatchKept
<1> QED BY <1>1, <1>6, <1>8, <1>9, <1>10, <1>11, <1>12, <1>13, Again
-----------------------------------------------------------------------------
(* The steps that unmount and remove.                                      *)
LEMMA LookStep ==
  ASSUME NEW j \in JobRecord, Is(j), NEW p \in Callers, NEW k \in Kinds, Look(p, k),
         env' = env
  PROVE  Inv'
<1> DEFINE x == LookAt[k]
<1>1. /\ k \in {"bind", "nfs"} /\ At(p, x)
      /\ UNCHANGED <<env, rootfs, tmp, store, run, disabled, mnt>>
      /\ IF mnt[k][job[p].c] # "none" THEN Done(p)
         ELSE job' = [job EXCEPT ![p].steps = Tail(Tail(Tail(@)))]
  BY DEF Look, Kinds
<1>2. /\ j = job[p] /\ First(j, x) /\ Comes(j, x, Rest(Tail(j.steps)))
      /\ j.c \in Names /\ j.cmd \in Commands
  BY <1>1, StepHere
<1>3. /\ FilesOK(j, rootfs, disabled) /\ NextOK(env, j, rootfs, tmp, mnt)
      /\ WellIn(env) => /\ GoneOK(rootfs, run, mnt) /\ RemoveOK(j, run, mnt)
                        /\ NfsOK(j, run, mnt["nfs"])
      /\ WellIn(env) /\ NoReboots(env) => WatchOK(j, run, mnt["nfs"])
      /\ StateOK /\ Alone(env, j, job)
  BY Parts
<1>x. \/ k = "bind" /\ x = "bind-look" /\ UmountAt[k] = "bind-umount"
         /\ RmdirAt[k] = "bind-rmdir"
      \/ k = "nfs" /\ x = "nfs-look" /\ UmountAt[k] = "nfs-umount"
         /\ RmdirAt[k] = "nfs-rmdir"
  BY <1>1 DEF LookAt, UmountAt, RmdirAt
<1> HIDE DEF x
<1>4. /\ ~First(j, "backup-remount") /\ j.cmd \notin Starting
      /\ k = "bind" => j.cmd \in Removing /\ j.cmd # "stop-all"
      /\ k = "nfs" /\ j.cmd = "stop-all" => Len(j.loops) = 3
      /\ j.cmd = "stop-all" => Len(j.loops) # 1
  BY <1>2, <1>x DEF Comes, Uses, First, Removing, Starting
<1>5. CASE Done(p)
  <2>1. PICK j2 \in JobRecord : Goes(env, p, j, j2, {x}, x)
    BY <1>1, <1>5, StepDone DEF x
  <2>2. store' \in [Names -> BOOLEAN]
    BY <1>1, <1>3 DEF StateOK
  <2> QED BY <1>1, <1>2, <1>x, <1>4, <2>1, <2>2, QuietStep
<1>6. CASE /\ job' = [job EXCEPT ![p].steps = Tail(Tail(Tail(@)))]
           /\ mnt[k][j.c] = "none"
  <2>1. PICK j2 \in JobRecord :
          Goes(env, p, j, j2, {LookAt[k], UmountAt[k], RmdirAt[k]}, RmdirAt[k])
    BY <1>1, <1>3, <1>6, PassAll DEF StateOK, x
  <2>d. PICK D : D = {LookAt[k], UmountAt[k], RmdirAt[k]}
    OBVIOUS
  <2>2. /\ job' \in [Callers -> JobRecord] /\ Alone(env, j2, job')
        /\ Moves(j, j2, D, RmdirAt[k]) /\ j2.again = j.again
        /\ j2.cmd = j.cmd /\ j2.c = j.c /\ j2.list = j.list /\ j2.loops = j.loops
        /\ Rest(j2.steps) \subseteq Rest(j.steps)
    BY <2>1, <2>d, GoesOn
  <2>e. \/ k = "bind" /\ D = {"bind-look", "bind-umount", "bind-rmdir"}
        \/ k = "nfs" /\ D = {"nfs-look", "nfs-umount", "nfs-rmdir"}
    BY <1>x, <2>d DEF x
  <2>3. StateOK'
    BY <1>1, <1>3, <2>2 DEF StateOK
  <2>4. FilesOK(j2, rootfs', disabled')
    BY <1>1, <1>3, <1>4, <2>2, FilesKept
  <2>5. NextOK(env, j2, rootfs', tmp', mnt')
    BY <1>1, <1>3, <1>4, <1>x, <2>2, NextKept
  <2>6. WellIn(env) => GoneOK(rootfs', run', mnt')
    BY <1>1, <1>3
  <2>7. ASSUME WellIn(env)
        PROVE  RemoveOK(j2, run', mnt')
    <3>1. RemoveOK(j, run, mnt)
      BY <1>3, <2>7
    <3> QED BY <1>1, <1>6, <2>2, <2>e, <3>1 DEF RemoveOK, Moves
  <2>8. ASSUME WellIn(env)
        PROVE  NfsOK(j2, run', mnt'["nfs"])
    <3>1. NfsOK(j, run, mnt["nfs"])
      BY <1>3, <2>8
    <3>2. CASE k = "bind"
      BY <1>1, <1>4, <2>2, <2>e, <3>1, <3>2, NfsKept
    <3>3. CASE k = "nfs"
      <4>1. mnt["nfs"][j.c] = "none"
        BY <1>6, <3>3
      <4>2. UnmountOK(j2, mnt["nfs"])
        BY <2>2, <4>1 DEF UnmountOK
      <4>3. StopAllOK(j2, run, mnt["nfs"])
        <5>1. ASSUME j.cmd = "stop-all"
              PROVE  /\ Len(j.loops) = 3
                     /\ \A c \in Names : mnt["nfs"][c] = "none" \/ c \in j.list
          <6>1. StopAllOK(j, run, mnt["nfs"]) /\ Len(j.loops) = 3
            BY <1>4, <3>1, <3>3, <5>1 DEF NfsOK
          <6> QED BY <6>1, <5>1, <4>1 DEF StopAllOK
        <5>2. ASSUME j2.cmd = "stop-all"
              PROVE  /\ Len(j2.loops) = 3
                     /\ \A c \in Names : mnt["nfs"][c] = "none" \/ c \in j2.list
          BY <2>2, <5>1, <5>2
        <5>3. ASSUME j2.cmd = "stop-all", NEW c \in Names
              PROVE  \/ mnt["nfs"][c] = "none"
                     \/ Len(j2.loops) = 3
                        /\ (c \in j2.list \/ (c = j2.c /\ "nfs-umount" \in Rest(j2.steps)))
          BY <5>2, <5>3
        <5>4. j2.cmd = "stop-all" => Len(j2.loops) # 2 /\ Len(j2.loops) # 1
          BY <5>2
        <5> QED BY <5>3, <5>4 DEF StopAllOK
      <4>4. SettledOK(j2, run) /\ SharesOK(run, mnt["nfs"])
        BY <2>2, <3>1 DEF NfsOK, SettledOK
      <4>5. StartedOK(j2, run)
        BY <1>4, <2>2 DEF StartedOK, Starting
      <4> QED BY <1>1, <4>2, <4>3, <4>4, <4>5 DEF NfsOK
    <3> QED BY <1>1, <3>2, <3>3
  <2>9. WellIn(env) /\ NoReboots(env) => WatchOK(j2, run', mnt'["nfs"])
    BY <1>1, <1>3, <2>2, <2>e, WatchKept
  <2> QED BY <1>1, <2>2, <2>3, <2>4, <2>5, <2>6, <2>7, <2>8, <2>9, Again
<1> QED BY <1>1, <1>2, <1>5, <1>6

(* A share is unmounted, or it was not mounted at all.                     *)
LEMMA UmountStep ==
  ASSUME NEW j \in JobRecord, Is(j), NEW p \in Callers, NEW k \in Kinds, Umount(p, k),
         env' = env
  PROVE  Inv'
<1> DEFINE x == UmountAt[k]
           y == RmdirAt[k]
<1>1. /\ k \in {"bind", "nfs"} /\ At(p, x)
      /\ UNCHANGED <<env, rootfs, tmp, store, run, disabled>>
      /\ IF mnt[k][job[p].c] # "none"
         THEN mnt' = [mnt EXCEPT ![k][job[p].c] = "none"] /\ Done(p)
         ELSE job' = [job EXCEPT ![p].steps = Tail(Tail(@))] /\ mnt' = mnt
  BY DEF Umount, Mount, Kinds
<1>2. /\ j = job[p] /\ First(j, x) /\ Comes(j, x, Rest(Tail(j.steps)))
      /\ j.c \in Names /\ j.cmd \in Commands /\ j.cmd \in env.commands
  BY <1>1, StepHere
<1>3. /\ FilesOK(j, rootfs, disabled) /\ NextOK(env, j, rootfs, tmp, mnt)
      /\ WellIn(env) => /\ GoneOK(rootfs, run, mnt) /\ RemoveOK(j, run, mnt)
                        /\ NfsOK(j, run, mnt["nfs"])
      /\ WellIn(env) /\ NoReboots(env) => WatchOK(j, run, mnt["nfs"])
      /\ StateOK /\ Alone(env, j, job)
  BY Parts
<1>x. \/ k = "bind" /\ x = "bind-umount" /\ y = "bind-rmdir"
      \/ k = "nfs" /\ x = "nfs-umount" /\ y = "nfs-rmdir"
  BY <1>1 DEF UmountAt, RmdirAt
<1> HIDE DEF x, y
<1>4. /\ ~First(j, "backup-remount") /\ j.cmd \notin Starting
      /\ k = "bind" => j.cmd \in Removing /\ j.cmd # "stop-all"
      /\ k = "nfs" /\ j.cmd = "stop-all" => Len(j.loops) = 3
      /\ j.cmd = "stop-all" => Len(j.loops) # 1
  <2>1. CASE x = "bind-umount"
    BY <1>2, <1>x, <2>1 DEF Comes, Uses, First, Removing, Starting
  <2>2. CASE x = "nfs-umount"
    <3>1. First(j, "nfs-umount") /\ Uses("nfs-umount", j.cmd, Len(j.loops)) /\ k = "nfs"
      BY <1>2, <1>x, <2>2 DEF Comes
    <3> QED BY <3>1 DEF Uses, First, Starting
  <2> QED BY <1>x, <2>1, <2>2
(* What is left of the command, after one step or two.                     *)
<1>5. \E j2, D, w :
        /\ j2 \in JobRecord /\ Goes(env, p, j, j2, D, w)
        /\ \/ D = {x} /\ w = x /\ Rest(j2.steps) = Rest(Tail(j.steps))
              /\ mnt[k][j.c] # "none"
           \/ D = {x, y} /\ w = y /\ mnt[k][j.c] = "none"
  <2>1. CASE mnt[k][j.c] # "none"
    <3>1. Done(p)
      BY <1>1, <1>2, <2>1
    <3>2. PICK j2 \in JobRecord : /\ Goes(env, p, j, j2, {x}, x)
                                  /\ Rest(j2.steps) = Rest(Tail(j.steps))
      BY <1>1, <3>1, StepDone
    <3> QED BY <2>1, <3>2
  <2>2. CASE mnt[k][j.c] = "none"
    <3>1. job' = [job EXCEPT ![p].steps = Tail(Tail(@))]
      BY <1>1, <1>2, <2>2
    <3>2. PICK j2, z :
            j2 \in JobRecord /\ Adjacent(x, z, j.cmd) /\ Goes(env, p, j, j2, {x, z}, z)
      BY <1>1, <1>3, <1>x, <3>1, Pass DEF StateOK
    <3>3. z = y
      BY <1>x, <3>2 DEF Adjacent
    <3> QED BY <2>2, <3>2, <3>3
  <2> QED BY <2>1, <2>2
<1>6. PICK j2, D, w :
        /\ j2 \in JobRecord /\ Goes(env, p, j, j2, D, w)
        /\ \/ D = {x} /\ w = x /\ Rest(j2.steps) = Rest(Tail(j.steps))
              /\ mnt[k][j.c] # "none"
           \/ D = {x, y} /\ w = y /\ mnt[k][j.c] = "none"
  BY <1>5
<1>7. /\ job' \in [Callers -> JobRecord] /\ Alone(env, j2, job')
      /\ Moves(j, j2, D, w) /\ j2.again = j.again
      /\ j2.cmd = j.cmd /\ j2.c = j.c /\ j2.list = j.list /\ j2.loops = j.loops
      /\ Rest(j2.steps) \subseteq Rest(j.steps)
  BY <1>6, GoesOn
<1>8. /\ mnt' \in Mounts /\ mnt'[k][j.c] = "none"
      /\ \A d \in Names \ {j.c} : mnt'[k][d] = mnt[k][d]
      /\ \A l \in Kinds \ {k} : mnt'[l] = mnt[l]
  <2>1. CASE mnt[k][j.c] # "none"
    <3>1. mnt' = [mnt EXCEPT ![k][j.c] = "none"]
      BY <1>1, <1>2, <2>1
    <3> QED BY <1>2, <1>3, <3>1, MountEffect DEF StateOK
  <2>2. CASE mnt[k][j.c] = "none"
    BY <1>1, <1>2, <1>3, <2>2 DEF StateOK
  <2> QED BY <2>1, <2>2
<1>m. /\ \A l \in Kinds, c \in Names : mnt[l][c] = "none" => mnt'[l][c] = "none"
      /\ mnt'["backup"] = mnt["backup"]
      /\ k = "bind" => mnt'["nfs"] = mnt["nfs"]
      /\ k = "nfs" => /\ mnt'["nfs"][j.c] = "none"
                      /\ \A d \in Names \ {j.c} : mnt'["nfs"][d] = mnt["nfs"][d]
  BY <1>1, <1>2, <1>8 DEF Kinds
<1>9. StateOK'
  BY <1>1, <1>3, <1>7, <1>8 DEF StateOK
<1>10. FilesOK(j2, rootfs', disabled')
  BY <1>1, <1>3, <1>4, <1>7, FilesKept
<1>11. NextOK(env, j2, rootfs', tmp', mnt')
  <2>1. CopyOK(env, j2, rootfs', tmp')
    BY <1>6, <1>7, <1>x, CopyKept
  <2>2. WritableOK(env, j2, mnt')
    BY <1>3, <1>4, <1>m, WritableKept DEF NextOK
  <2>3. DirsOK(env, j2, mnt')
    <3>1. CASE w = y
      BY <1>7, <1>x, <3>1, DirsKept
    <3>2. CASE w = x
      <4>1. k = "bind" => ~First(j2, "nfs-rmdir") /\ ~First(j2, "backup-rmdir")
        BY <1>7, <1>x, <3>2 DEF Moves, Adjacent, First
      <4>2. k = "nfs" => ~First(j2, "bind-rmdir") /\ ~First(j2, "backup-rmdir")
        BY <1>7, <1>x, <3>2 DEF Moves, Adjacent, First
      <4> QED BY <1>1, <1>7, <1>8, <4>1, <4>2 DEF DirsOK, RmdirAt
    <3> QED BY <1>6, <3>1, <3>2
  <2> QED BY <2>1, <2>2, <2>3 DEF NextOK
<1>12. ASSUME WellIn(env)
       PROVE  GoneOK(rootfs', run', mnt')
  BY <1>1, <1>3, <1>m, <1>12 DEF GoneOK
<1>13. ASSUME WellIn(env)
       PROVE  RemoveOK(j2, run', mnt')
  <2>1. RemoveOK(j, run, mnt)
    BY <1>3, <1>13
  <2>2. {"backup-umount", "lxc-stop"} \cap D = {} /\ ("bind-umount" \in D => k = "bind")
    BY <1>6, <1>x
  <2>3. "bind" \in Kinds /\ (k = "bind" => mnt'["bind"][j.c] = "none")
    BY <1>8 DEF Kinds
  <2> QED BY <1>1, <1>2, <1>7, <1>m, <2>1, <2>2, <2>3 DEF RemoveOK, Moves
<1>14. ASSUME WellIn(env)
       PROVE  NfsOK(j2, run', mnt'["nfs"])
  <2>1. NfsOK(j, run, mnt["nfs"])
    BY <1>3, <1>14
  <2>2. CASE k = "bind"
    <3>1. D \cap {"nfs-umount", "shutdown", "lxc-start"} = {}
      BY <1>6, <1>x, <2>2
    <3> QED BY <1>1, <1>4, <1>7, <1>m, <2>1, <2>2, <3>1, NfsKept
  <2>3. CASE k = "nfs"
    <3>1. /\ mnt'["nfs"][j.c] = "none"
          /\ \A c \in Names : mnt["nfs"][c] = "none" => mnt'["nfs"][c] = "none"
      BY <1>m, <2>3 DEF Kinds
    <3>2. UnmountOK(j2, mnt'["nfs"])
      BY <1>7, <3>1 DEF UnmountOK
    <3>3. StopAllOK(j2, run, mnt'["nfs"])
      <4>1. ASSUME j.cmd = "stop-all"
            PROVE  /\ Len(j.loops) = 3
                   /\ \A c \in Names : mnt'["nfs"][c] = "none" \/ c \in j.list
        <5>1. StopAllOK(j, run, mnt["nfs"]) /\ Len(j.loops) = 3
          BY <1>4, <2>1, <2>3, <4>1 DEF NfsOK
        <5>2. \A c \in Names \ {j.c} : mnt["nfs"][c] = "none" \/ c \in j.list
          BY <5>1, <4>1 DEF StopAllOK
        <5> QED BY <5>1, <5>2, <3>1
      <4>2. ASSUME j2.cmd = "stop-all"
            PROVE  /\ Len(j2.loops) = 3
                   /\ \A c \in Names : mnt'["nfs"][c] = "none" \/ c \in j2.list
        BY <1>7, <4>1, <4>2
      <4>3. ASSUME j2.cmd = "stop-all", NEW c \in Names
            PROVE  \/ mnt'["nfs"][c] = "none"
                   \/ Len(j2.loops) = 3
                      /\ (c \in j2.list \/ (c = j2.c /\ "nfs-umount" \in Rest(j2.steps)))
        BY <4>2, <4>3
      <4>4. j2.cmd = "stop-all" => Len(j2.loops) # 2 /\ Len(j2.loops) # 1
        BY <4>2
      <4> QED BY <4>3, <4>4 DEF StopAllOK
    <3>4. SettledOK(j2, run)
      BY <1>7, <2>1 DEF NfsOK, SettledOK
    <3>5. SharesOK(run, mnt'["nfs"])
      BY <2>1, <3>1 DEF NfsOK, SharesOK
    <3>6. StartedOK(j2, run)
      BY <1>4, <1>7 DEF StartedOK, Starting
    <3> QED BY <1>1, <3>2, <3>3, <3>4, <3>5, <3>6 DEF NfsOK
  <2> QED BY <1>1, <2>2, <2>3
<1>15. ASSUME WellIn(env), NoReboots(env)
       PROVE  WatchOK(j2, run', mnt'["nfs"])
  <2>1. WatchOK(j, run, mnt["nfs"])
    BY <1>3, <1>15
  <2>2. D \cap {"online", "nfs-mount", "shutdown", "lxc-stop"} = {}
    BY <1>6, <1>x
  <2>3. WatchOK(j2, run, mnt["nfs"])
    BY <1>7, <2>1, <2>2, WatchKept
  <2>4. CASE k = "bind"
    BY <1>1, <1>m, <2>3, <2>4
  <2>5. CASE k = "nfs"
    <3>1. BootOK(j2, run)
      BY <2>3 DEF WatchOK
    <3>2. CASE mnt["nfs"][j.c] = "none"
      <4>1. \A c \in Names : mnt'["nfs"][c] = mnt["nfs"][c]
        BY <1>m, <2>5, <3>2
      <4>2. UpOK(j2, run, mnt'["nfs"])
        BY <2>3, <4>1 DEF WatchOK, UpOK
      <4> QED BY <1>1, <3>1, <4>2 DEF WatchOK
    <3>3. CASE mnt["nfs"][j.c] # "none"
      <4>1. /\ Rest(j2.steps) = Rest(Tail(j.steps)) /\ x = "nfs-umount"
            /\ Followed(x, j.cmd, Rest(j2.steps))
        BY <1>2, <1>6, <1>x, <2>5, <3>3 DEF Comes
      <4>2. /\ j.cmd = "regenerate" => "nfs-mount" \in Rest(j2.steps)
            /\ j.cmd \in Unmounting => {"shutdown", "lxc-stop"} \cap Rest(j2.steps) # {}
        BY <4>1 DEF Followed
      <4>3. j.cmd = "stop-all" \/ j.cmd = "regenerate" \/ j.cmd \in Unmounting
        <5>1. j.cmd \notin Rebooting
          BY <1>2, <1>15 DEF NoReboots
        <5> QED BY <1>2, <1>4, <5>1 DEF Commands, Rebooting, Starting, Unmounting
      <4>4. j2.cmd = "stop-all" \/ Cares(j2)
        BY <1>7, <4>2, <4>3 DEF Cares
      <4>5. UpOK(j2, run, mnt'["nfs"])
        BY <1>7, <1>m, <2>3, <2>5, <4>4 DEF WatchOK, UpOK
      <4> QED BY <1>1, <3>1, <4>5 DEF WatchOK
    <3> QED BY <3>2, <3>3
  <2> QED BY <1>1, <2>4, <2>5
<1> QED BY <1>1, <1>6, <1>7, <1>9, <1>10, <1>11, <1>12, <1>13, <1>14, <1>15, Again

(* A backup is unmounted, if it is not in use.                             *)
LEMMA BackupUmountStep ==
  ASSUME NEW j \in JobRecord, Is(j), NEW p \in Callers, BackupUmount(p), env' = env
  PROVE  Inv'
<1> DEFINE x == "backup-umount"
<1>1. /\ At(p, x) /\ UNCHANGED <<env, rootfs, tmp, store, run, disabled>> /\ Done(p)
      /\ \/ mnt' = [mnt EXCEPT !["backup"][job[p].c] = "none"]
         \/ "busy" \in env.faults /\ mnt' = mnt
  BY DEF BackupUmount, Mount
<1>2. /\ j = job[p] /\ First(j, x) /\ Comes(j, x, Rest(Tail(j.steps)))
      /\ j.c \in Names /\ j.cmd \in Commands
  BY <1>1, StepHere
<1>3. /\ FilesOK(j, rootfs, disabled) /\ NextOK(env, j, rootfs, tmp, mnt)
      /\ WellIn(env) => /\ GoneOK(rootfs, run, mnt) /\ RemoveOK(j, run, mnt)
                        /\ NfsOK(j, run, mnt["nfs"])
      /\ WellIn(env) /\ NoReboots(env) => WatchOK(j, run, mnt["nfs"])
      /\ StateOK
  BY Parts
<1>4. j.cmd # "stop-all" /\ ~First(j, "backup-remount")
  BY <1>2 DEF Comes, Uses, Removing, First
<1>5. PICK j2 \in JobRecord : Goes(env, p, j, j2, {x}, x)
  BY <1>1, StepDone
<1>6. /\ job' \in [Callers -> JobRecord] /\ Alone(env, j2, job')
      /\ Moves(j, j2, {x}, x) /\ j2.again = j.again /\ j2.cmd = j.cmd /\ j2.c = j.c
  BY <1>5, GoesOn
<1>7. /\ mnt' \in Mounts /\ mnt'["bind"] = mnt["bind"] /\ mnt'["nfs"] = mnt["nfs"]
      /\ \A c \in Names : mnt'["backup"][c] \in {"none", mnt["backup"][c]}
      /\ mnt'["backup"][j.c] = "none" \/ "busy" \in env.faults
  <2>1. CASE mnt' = mnt /\ "busy" \in env.faults
    BY <1>3, <2>1 DEF StateOK
  <2>2. CASE mnt' = [mnt EXCEPT !["backup"][j.c] = "none"]
    <3>2. /\ mnt' \in Mounts /\ mnt'["backup"][j.c] = "none"
          /\ \A d \in Names \ {j.c} : mnt'["backup"][d] = mnt["backup"][d]
          /\ \A l \in Kinds \ {"backup"} : mnt'[l] = mnt[l]
      BY <1>2, <1>3, <2>2, MountEffect DEF StateOK, Kinds
    <3> QED BY <2>2, <3>2 DEF Kinds
  <2> QED BY <1>1, <1>2, <2>1, <2>2
<1>8. StateOK'
  BY <1>1, <1>3, <1>6, <1>7 DEF StateOK
<1>9. FilesOK(j2, rootfs', disabled')
  BY <1>1, <1>3, <1>6, FilesKept
<1>10. NextOK(env, j2, rootfs', tmp', mnt')
  <2>1. CopyOK(env, j2, rootfs', tmp')
    BY <1>6, CopyKept
  <2>2. WritableOK(env, j2, mnt')
    <3>1. WritableOK(env, j, mnt)
      BY <1>3 DEF NextOK
    <3> QED BY <1>4, <1>7, <3>1 DEF WritableOK
  <2>3. DirsOK(env, j2, mnt')
    <3>1. ~First(j2, "bind-rmdir") /\ ~First(j2, "nfs-rmdir")
      BY <1>6 DEF Moves, Adjacent, First
    <3> QED BY <1>6, <1>7, <3>1 DEF DirsOK, RmdirAt
  <2> QED BY <2>1, <2>2, <2>3 DEF NextOK
<1>11. ASSUME WellIn(env)
       PROVE  GoneOK(rootfs', run', mnt') /\ RemoveOK(j2, run', mnt')
  <2>1. GoneOK(rootfs, run, mnt) /\ RemoveOK(j, run, mnt)
        /\ mnt'["backup"][j.c] = "none"
    BY <1>3, <1>7, <1>11 DEF WellIn
  <2>2. GoneOK(rootfs, run, mnt')
    BY <1>7, <2>1 DEF GoneOK, Kinds
  <2>3. RemoveOK(j2, run, mnt')
    BY <1>6, <1>7, <2>1 DEF RemoveOK, Moves
  <2> QED BY <1>1, <2>2, <2>3
<1>12. WellIn(env) => NfsOK(j2, run', mnt'["nfs"])
  BY <1>1, <1>3, <1>4, <1>6, <1>7, NfsKept
<1>13. WellIn(env) /\ NoReboots(env) => WatchOK(j2, run', mnt'["nfs"])
  BY <1>1, <1>3, <1>6, <1>7, WatchKept
<1> QED BY <1>1, <1>6, <1>8, <1>9, <1>10, <1>11, <1>12, <1>13, Again

(* The directory of a share that is not mounted is removed: the container  *)
(* and, where commands are not interrupted, the backups stay.              *)
LEMMA RmdirKeeps ==
  ASSUME NEW j \in JobRecord, Is(j), NEW p \in Callers, NEW k \in Kinds, Rmdir(p, k)
  PROVE  /\ rootfs' = rootfs /\ store' \in [Names -> BOOLEAN]
         /\ store' = store \/ {"kill", "busy"} \subseteq env.faults
<1>1. /\ At(p, RmdirAt[k])
      /\ IF mnt[k][job[p].c] # "rw" THEN UNCHANGED <<rootfs, store>>
         ELSE IF k = "backup" THEN /\ store' = [store EXCEPT ![job[p].c] = FALSE]
                                   /\ UNCHANGED rootfs
         ELSE \E answer \in (IF k = "bind" THEN {TRUE} ELSE Answers(job[p].c)) :
                /\ rootfs' = [rootfs EXCEPT ![job[p].c] =
                     IF answer /\ @ = "whole" THEN "damaged" ELSE @]
                /\ UNCHANGED store
  BY DEF Rmdir
<1>2. j = job[p] /\ First(j, RmdirAt[k]) /\ j.c \in Names
  BY <1>1, StepHere
<1>3. StateOK /\ DirsOK(env, j, mnt) /\ WritableOK(env, j, mnt)
  BY Parts DEF NextOK
<1>4. CASE mnt[k][j.c] # "rw"
  BY <1>1, <1>2, <1>3, <1>4 DEF StateOK
<1>5. CASE mnt[k][j.c] = "rw"
  <2>1. k = "backup"
    BY <1>2, <1>3, <1>5 DEF DirsOK, Kinds
  <2>2. First(j, "backup-rmdir") /\ ~First(j, "backup-remount")
    BY <1>2, <2>1 DEF RmdirAt, First
  <2>3. "busy" \in env.faults /\ "kill" \in env.faults
    BY <1>2, <1>3, <1>5, <2>1, <2>2 DEF DirsOK, WritableOK
  <2>4. rootfs' = rootfs /\ store' = [store EXCEPT ![j.c] = FALSE]
    BY <1>1, <1>2, <1>5, <2>1
  <2> QED BY <1>2, <1>3, <2>3, <2>4 DEF StateOK
<1> QED BY <1>4, <1>5

(* The directory of a share is removed.                                    *)
LEMMA RmdirStep ==
  ASSUME NEW j \in JobRecord, Is(j), NEW p \in Callers, NEW k \in Kinds, Rmdir(p, k),
         env' = env
  PROVE  Inv'
<1> DEFINE x == RmdirAt[k]
<1>1. At(p, x) /\ Done(p) /\ UNCHANGED <<env, tmp, run, disabled, mnt>>
  BY DEF Rmdir
<1>2. rootfs' = rootfs /\ store' \in [Names -> BOOLEAN]
  BY RmdirKeeps
<1>3. First(j, x) /\ Comes(j, x, Rest(Tail(j.steps)))
  BY <1>1, StepHere
<1>x. x \in {"bind-rmdir", "nfs-rmdir", "backup-rmdir"}
  BY DEF RmdirAt, Kinds
<1> HIDE DEF x
<1>4. j.cmd = "stop-all" => Len(j.loops) # 1
  BY <1>3, <1>x DEF Comes, Uses, Removing
<1>5. PICK j2 \in JobRecord : Goes(env, p, j, j2, {x}, x)
  BY <1>1, StepDone
<1> QED BY <1>1, <1>2, <1>3, <1>x, <1>4, <1>5, QuietStep

(* remove copies the files.                                                *)
LEMMA RsyncStep ==
  ASSUME NEW j \in JobRecord, Is(j), NEW p \in Callers, Rsync(p), env' = env
  PROVE  Inv'
<1> DEFINE x == "rsync"
<1>1. /\ At(p, x) /\ UNCHANGED <<env, rootfs, store, run, disabled, mnt>> /\ Done(p)
      /\ \E whole \in (IF "rsync" \in env.faults THEN BOOLEAN ELSE {TRUE}) :
           tmp' = [tmp EXCEPT ![job[p].c] = IF whole THEN rootfs[job[p].c] ELSE "damaged"]
  BY DEF Rsync
<1>2. /\ j = job[p] /\ First(j, x) /\ Comes(j, x, Rest(Tail(j.steps)))
      /\ j.c \in Names /\ j.cmd \in Commands
  BY <1>1, StepHere
<1>3. /\ FilesOK(j, rootfs, disabled) /\ NextOK(env, j, rootfs, tmp, mnt)
      /\ WellIn(env) => /\ GoneOK(rootfs, run, mnt) /\ RemoveOK(j, run, mnt)
                        /\ NfsOK(j, run, mnt["nfs"])
      /\ WellIn(env) /\ NoReboots(env) => WatchOK(j, run, mnt["nfs"])
      /\ StateOK
  BY Parts
<1>4. j.cmd # "stop-all" /\ ~First(j, "backup-remount")
  BY <1>2 DEF Comes, Uses, First
<1>5. PICK j2 \in JobRecord : Goes(env, p, j, j2, {x}, x)
  BY <1>1, StepDone
<1>6. /\ job' \in [Callers -> JobRecord] /\ Alone(env, j2, job')
      /\ Moves(j, j2, {x}, x) /\ j2.again = j.again /\ j2.cmd = j.cmd /\ j2.c = j.c
  BY <1>5, GoesOn
<1>7. /\ tmp' \in [Names -> Files]
      /\ tmp'[j.c] = rootfs[j.c] \/ "rsync" \in env.faults
  <2>1. PICK whole \in (IF "rsync" \in env.faults THEN BOOLEAN ELSE {TRUE}) :
          tmp' = [tmp EXCEPT ![j.c] = IF whole THEN rootfs[j.c] ELSE "damaged"]
    BY <1>1, <1>2
  <2>2. "rsync" \in env.faults \/ whole = TRUE
    BY <2>1
  <2>3. rootfs[j.c] \in Files /\ "damaged" \in Files
    BY <1>2, <1>3 DEF StateOK, Files
  <2> QED BY <1>2, <1>3, <2>1, <2>2, <2>3 DEF StateOK
<1>8. StateOK'
  BY <1>1, <1>3, <1>6, <1>7 DEF StateOK
<1>9. FilesOK(j2, rootfs', disabled')
  BY <1>1, <1>3, <1>6, FilesKept
<1>10. NextOK(env, j2, rootfs', tmp', mnt')
  <2>1. DirsOK(env, j2, mnt') /\ WritableOK(env, j2, mnt')
    BY <1>1, <1>3, <1>4, <1>6, DirsKept, WritableKept DEF NextOK
  <2>2. CopyOK(env, j2, rootfs', tmp')
    BY <1>1, <1>6, <1>7 DEF CopyOK
  <2> QED BY <2>1, <2>2 DEF NextOK
<1>11. WellIn(env) => /\ GoneOK(rootfs', run', mnt') /\ RemoveOK(j2, run', mnt')
                      /\ NfsOK(j2, run', mnt'["nfs"])
  BY <1>1, <1>3, <1>4, <1>6, RemoveKept, NfsKept
<1>12. WellIn(env) /\ NoReboots(env) => WatchOK(j2, run', mnt'["nfs"])
  BY <1>1, <1>3, <1>6, WatchKept
<1> QED BY <1>1, <1>6, <1>8, <1>9, <1>10, <1>11, <1>12, Again

(* A container goes when it is stopped and nothing of it is mounted.       *)
LEMMA RmStep ==
  ASSUME NEW j \in JobRecord, Is(j), NEW p \in Callers, Rm(p), env' = env
  PROVE  Inv'
<1> DEFINE x == "rm"
<1>1. /\ At(p, x) /\ UNCHANGED <<env, tmp, store, run, mnt>> /\ Done(p)
      /\ rootfs' = [rootfs EXCEPT ![job[p].c] = "none"]
      /\ disabled' = [disabled EXCEPT ![job[p].c] = FALSE]
  BY DEF Rm
<1>2. /\ j = job[p] /\ First(j, x) /\ Comes(j, x, Rest(Tail(j.steps)))
      /\ j.c \in Names /\ j.cmd \in Commands
  BY <1>1, StepHere
<1>3. /\ FilesOK(j, rootfs, disabled) /\ NextOK(env, j, rootfs, tmp, mnt)
      /\ WellIn(env) => /\ GoneOK(rootfs, run, mnt) /\ RemoveOK(j, run, mnt)
                        /\ NfsOK(j, run, mnt["nfs"])
      /\ WellIn(env) /\ NoReboots(env) => WatchOK(j, run, mnt["nfs"])
      /\ StateOK
  BY Parts
<1>4. /\ j.cmd \in Removing /\ j.cmd \in Unmounting /\ ~First(j, "backup-remount")
      /\ j.cmd \notin Starting \cup {"stop-all"} /\ j.steps # <<>>
      /\ {"bind-umount", "backup-umount", "nfs-umount", "lxc-stop"} \cap Rest(j.steps) = {}
  BY <1>2 DEF Comes, Uses, Before, Removing, Unmounting, Starting, First
<1>5. PICK j2 \in JobRecord : Goes(env, p, j, j2, {x}, x)
  BY <1>1, StepDone
<1>6. /\ job' \in [Callers -> JobRecord] /\ Alone(env, j2, job')
      /\ Moves(j, j2, {x}, x) /\ j2.again = j.again /\ j2.cmd = j.cmd /\ j2.c = j.c
  BY <1>5, GoesOn
<1>7. /\ rootfs' \in [Names -> Files] /\ disabled' \in [Names -> BOOLEAN]
      /\ rootfs'[j.c] = "none" /\ ~disabled'[j.c]
      /\ \A c \in Names \ {j.c} : rootfs'[c] = rootfs[c] /\ disabled'[c] = disabled[c]
  BY <1>1, <1>2, <1>3 DEF StateOK, Files
<1>8. StateOK'
  BY <1>1, <1>3, <1>6, <1>7 DEF StateOK
<1>9. FilesOK(j2, rootfs', disabled')
  <2>1. EnabledOK(rootfs', disabled')
    BY <1>3, <1>7 DEF FilesOK, EnabledOK
  <2>2. AddOK(j2, rootfs', disabled') /\ StartOK(j2, disabled') /\ ExistsOK(j2, rootfs')
    BY <1>4, <1>6 DEF AddOK, StartOK, ExistsOK, Starting
  <2> QED BY <2>1, <2>2 DEF FilesOK
<1>10. NextOK(env, j2, rootfs', tmp', mnt')
  BY <1>1, <1>3, <1>4, <1>6, NextKept
<1>11. ASSUME WellIn(env)
       PROVE  GoneOK(rootfs', run', mnt')
  <2>1. GoneOK(rootfs, run, mnt) /\ RemoveOK(j, run, mnt) /\ UnmountOK(j, mnt["nfs"])
    BY <1>3, <1>11 DEF NfsOK
  <2>2. /\ run[j.c] = "stopped" /\ mnt["bind"][j.c] = "none"
        /\ mnt["backup"][j.c] = "none" /\ mnt["nfs"][j.c] = "none"
    BY <1>4, <2>1 DEF RemoveOK, UnmountOK
  <2>3. \A k \in Kinds : mnt[k][j.c] = "none"
    BY <2>2 DEF Kinds
  <2>4. run' = run /\ mnt' = mnt
    BY <1>1
  <2> SUFFICES ASSUME NEW c \in Names, rootfs'[c] = "none"
               PROVE  run[c] = "stopped" /\ \A k \in Kinds : mnt[k][c] = "none"
    BY <2>4 DEF GoneOK
  <2>5. CASE c = j.c
    BY <2>2, <2>3, <2>5
  <2>6. CASE c # j.c
    BY <1>7, <2>1, <2>6 DEF GoneOK
  <2> QED BY <2>5, <2>6
<1>12. WellIn(env) => RemoveOK(j2, run', mnt') /\ NfsOK(j2, run', mnt'["nfs"])
  BY <1>1, <1>3, <1>4, <1>6, RemoveKept, NfsKept
<1>13. WellIn(env) /\ NoReboots(env) => WatchOK(j2, run', mnt'["nfs"])
  BY <1>1, <1>3, <1>6, WatchKept
<1> QED BY <1>1, <1>6, <1>8, <1>9, <1>10, <1>11, <1>12, <1>13, Again
-----------------------------------------------------------------------------
(* The beginning, the loops and the end of a command.                      *)
LEMMA NextContainerStep ==
  ASSUME NEW j \in JobRecord, Is(j), NEW p \in Callers, NEW c \in Names,
         NextContainer(p, c), env' = env
  PROVE  Inv'
<1>1. /\ job[p].steps = <<>> /\ c \in job[p].list
      /\ job' = [job EXCEPT ![p] =
                  [job[p] EXCEPT !.c = c, !.list = @ \ {c}, !.steps = Head(job[p].loops)]]
      /\ UNCHANGED <<env, rootfs, tmp, store, run, disabled, mnt>>
  BY DEF NextContainer
<1>2. /\ FilesOK(j, rootfs, disabled) /\ NextOK(env, j, rootfs, tmp, mnt)
      /\ WellIn(env) => /\ GoneOK(rootfs, run, mnt) /\ RemoveOK(j, run, mnt)
                        /\ NfsOK(j, run, mnt["nfs"])
      /\ WellIn(env) /\ NoReboots(env) => WatchOK(j, run, mnt["nfs"])
      /\ StateOK /\ Alone(env, j, job)
  BY Parts
<1>3. /\ j = job[p] /\ Running(env, j) /\ \A q \in Callers \ {p} : job[q] = NoJob
  <2>1. job[p] # NoJob
    BY <1>1, NoJobType
  <2> QED BY <1>2, <2>1 DEF Alone, Only
<1>4. /\ j.cmd \in Commands /\ j.cmd # "none" /\ j.list \subseteq Names
      /\ j.loops \in LoopsOf(j.cmd) /\ j.steps = <<>> /\ c \in j.list
      /\ Rest(j.steps) = {}
  BY <1>1, <1>3, RunningType, RestEmpty
<1>5. PICK s : s = Head(j.loops) /\ Whole(s, j.cmd, Len(j.loops))
  BY <1>4, LoopsLeft
<1>6. s \in Seq(Steps) /\ s # <<>> /\ InOrder(s, j.cmd, Len(j.loops))
      /\ Begins(s, j.cmd, Len(j.loops))
  BY <1>5 DEF Whole
<1>7. PICK j2 : j2 = [j EXCEPT !.c = c, !.list = @ \ {c}, !.steps = s]
  OBVIOUS
<1>8. /\ j2 \in JobRecord /\ j2.cmd = j.cmd /\ j2.c = c /\ j2.list = j.list \ {c}
      /\ j2.loops = j.loops /\ j2.exact = j.exact /\ j2.again = j.again /\ j2.steps = s
  BY <1>4, <1>6, <1>7 DEF JobRecord
<1>9. Running(env, j2)
  <2>1. j.cmd \notin ForAll => j.list \ {c} = {}
    BY <1>3, <1>4 DEF Running
  <2> QED BY <1>3, <1>6, <1>8, <2>1 DEF Running
<1>10. job' = [job EXCEPT ![p] = j2]
  BY <1>1, <1>2, <1>3, <1>5, <1>7 DEF StateOK, JobRecord
<1>11. job' \in [Callers -> JobRecord] /\ Alone(env, j2, job')
  BY <1>2, <1>3, <1>8, <1>9, <1>10, Becomes DEF StateOK
<1>12. StateOK'
  BY <1>1, <1>2, <1>11 DEF StateOK
<1>13. FilesOK(j2, rootfs', disabled')
  <2>1. EnabledOK(rootfs, disabled) /\ AddOK(j, rootfs, disabled) /\ ExistsOK(j, rootfs)
    BY <1>2 DEF FilesOK
  <2>2. AddOK(j2, rootfs, disabled)
    BY <1>4, <1>8, <2>1 DEF AddOK, EnabledOK
  <2>3. StartOK(j2, disabled)
    BY <1>6, <1>8 DEF StartOK, Begins
  <2>4. ExistsOK(j2, rootfs)
    <3>1. j.cmd \notin {"none", "add"} \cup Removing =>
            \A d \in j.list : rootfs[d] # "none"
      BY <2>1 DEF ExistsOK
    <3>2. j.cmd = "add" => "create" \in Rest(s)
      BY <1>6 DEF Begins
    <3> QED BY <1>4, <1>8, <3>1, <3>2 DEF ExistsOK
  <2> QED BY <1>1, <2>1, <2>2, <2>3, <2>4 DEF FilesOK
<1>14. NextOK(env, j2, rootfs', tmp', mnt')
  <2>1. DirsOK(env, j2, mnt') /\ CopyOK(env, j2, rootfs', tmp')
    BY <1>6, <1>8 DEF DirsOK, CopyOK, First, Begins, RmdirAt
  <2>2. WritableOK(env, j2, mnt')
    BY <1>1, <1>2, <1>4 DEF NextOK, WritableOK, First
  <2> QED BY <2>1, <2>2 DEF NextOK
<1>15. ASSUME WellIn(env)
       PROVE  GoneOK(rootfs', run', mnt') /\ RemoveOK(j2, run', mnt')
  <2>1. RemoveOK(j2, run, mnt)
    BY <1>6, <1>8 DEF RemoveOK, Begins
  <2> QED BY <1>1, <1>2, <1>15, <2>1
<1>16. ASSUME WellIn(env)
       PROVE  NfsOK(j2, run', mnt'["nfs"])
  <2>1. NfsOK(j, run, mnt["nfs"])
    BY <1>2, <1>16
  <2>2. UnmountOK(j2, mnt["nfs"])
    BY <1>6, <1>8 DEF UnmountOK, Begins
  <2>3. StopAllOK(j2, run, mnt["nfs"])
    <3>1. CASE j.cmd = "stop-all"
      <4>1. StopAllOK(j, run, mnt["nfs"])
        BY <2>1 DEF NfsOK
      <4>2. ASSUME NEW d \in Names
            PROVE  \/ mnt["nfs"][d] = "none"
                   \/ /\ Len(j2.loops) = 3
                      /\ d \in j2.list \/ (d = j2.c /\ "nfs-umount" \in Rest(j2.steps))
        <5>1. mnt["nfs"][d] = "none" \/ (Len(j.loops) = 3 /\ d \in j.list)
          BY <1>4, <3>1, <4>1 DEF StopAllOK
        <5>2. Len(j.loops) = 3 => "nfs-umount" \in Rest(s)
          BY <1>6, <3>1 DEF Begins
        <5> QED BY <1>8, <5>1, <5>2
      <4>3. ASSUME Len(j2.loops) = 2, NEW d \in Names, run[d] = "up"
            PROVE  d \in j2.list \/ (d = j2.c /\ "shutdown" \in Rest(j2.steps))
        <5>1. d \in j.list
          BY <1>4, <1>8, <3>1, <4>1, <4>3 DEF StopAllOK
        <5>2. "shutdown" \in Rest(s)
          BY <1>6, <1>8, <3>1, <4>3 DEF Begins
        <5> QED BY <1>8, <5>1, <5>2
      <4>4. Len(j2.loops) = 1 => \A d \in Names : run[d] # "up"
        BY <1>8, <3>1, <4>1 DEF StopAllOK
      <4>5. ASSUME Len(j2.loops) = 1, ~j2.again, NEW d \in Names, run[d] # "stopped"
            PROVE  d \in j2.list \/ (d = j2.c /\ j2.steps # <<>>)
        <5>1. d \in j.list
          BY <1>4, <1>8, <3>1, <4>1, <4>5 DEF StopAllOK
        <5> QED BY <1>6, <1>8, <5>1
      <4> QED BY <4>2, <4>3, <4>4, <4>5 DEF StopAllOK
    <3>2. CASE j.cmd # "stop-all"
      BY <1>8, <3>2 DEF StopAllOK
    <3> QED BY <3>1, <3>2
  <2>4. SettledOK(j2, run) /\ SharesOK(run, mnt["nfs"])
    BY <1>8, <2>1 DEF NfsOK, SettledOK
  <2>5. StartedOK(j2, run)
    BY <1>6, <1>8 DEF StartedOK, Begins, Starting
  <2> QED BY <1>1, <2>2, <2>3, <2>4, <2>5 DEF NfsOK
<1>17. ASSUME WellIn(env), NoReboots(env)
       PROVE  WatchOK(j2, run', mnt'["nfs"])
  <2>1. WatchOK(j, run, mnt["nfs"])
    BY <1>2, <1>17
  <2>2. BootOK(j2, run)
    BY <1>4, <2>1 DEF WatchOK, BootOK
  <2>3. ~Cares(j)
    BY <1>4 DEF Cares
  <2>4. UpOK(j2, run, mnt["nfs"])
    BY <1>8, <2>1, <2>3 DEF WatchOK, UpOK
  <2> QED BY <1>1, <2>2, <2>4 DEF WatchOK
<1> QED BY <1>1, <1>8, <1>11, <1>12, <1>13, <1>14, <1>15, <1>16, <1>17, Again

(* A command is over, or it is interrupted.                                *)
LEMMA NothingRuns ==
  ASSUME StateOK, NEW p \in Callers, \A q \in Callers \ {p} : job[q] = NoJob,
         job' = [job EXCEPT ![p] = NoJob], env' = env,
         UNCHANGED <<rootfs, tmp, store, run, disabled, mnt>>,
         EnabledOK(rootfs, disabled),
         \A c \in Names : mnt["backup"][c] = "rw" => "kill" \in env.faults,
         WellIn(env) => GoneOK(rootfs, run, mnt) /\ SharesOK(run, mnt["nfs"]),
         WellIn(env) /\ NoReboots(env) =>
           \A c \in Names : /\ run[c] \notin {"booting", "rebooting"}
                            /\ run[c] = "up" => mnt["nfs"][c] # "none"
  PROVE  Inv'
<1>1. /\ NoJob \in JobRecord /\ NoJob.cmd = "none" /\ NoJob.steps = <<>>
      /\ NoJob.list = {} /\ Rest(NoJob.steps) = {}
  BY NoJobType
<1> DEFINE z == NoJob
<1> HIDE DEF z
<1>2. z = NoJob
  BY DEF z
<1>3. job' \in [Callers -> JobRecord] /\ Alone(env, z, job')
  BY <1>1, <1>2, Becomes DEF StateOK
<1>4. StateOK'
  BY <1>3 DEF StateOK
<1>5. FilesOK(z, rootfs', disabled')
  BY <1>1, <1>2 DEF FilesOK, AddOK, StartOK, ExistsOK
<1>6. NextOK(env, z, rootfs', tmp', mnt')
  BY <1>1, <1>2 DEF NextOK, DirsOK, CopyOK, WritableOK, First
<1>7. WellIn(env) => /\ GoneOK(rootfs', run', mnt') /\ RemoveOK(z, run', mnt')
                     /\ NfsOK(z, run', mnt'["nfs"])
  <2>1. RemoveOK(z, run, mnt)
    BY <1>1, <1>2 DEF RemoveOK
  <2>2. UnmountOK(z, mnt["nfs"])
    BY <1>1, <1>2 DEF UnmountOK
  <2>3. StopAllOK(z, run, mnt["nfs"]) /\ SettledOK(z, run) /\ StartedOK(z, run)
    BY <1>1, <1>2 DEF StopAllOK, SettledOK, StartedOK
  <2> QED BY <2>1, <2>2, <2>3 DEF NfsOK
<1>8. WellIn(env) /\ NoReboots(env) => WatchOK(z, run', mnt'["nfs"])
  BY DEF WatchOK, BootOK, UpOK
<1> QED BY <1>1, <1>2, <1>3, <1>4, <1>5, <1>6, <1>7, <1>8, Again

(* A command is interrupted.                                               *)
LEMMA KillStep ==
  ASSUME NEW j \in JobRecord, Is(j), NEW p \in Callers, Kill(p), env' = env
  PROVE  Inv'
<1>1. /\ "kill" \in env.faults /\ job[p].cmd # "none" /\ job' = [job EXCEPT ![p] = NoJob]
      /\ UNCHANGED <<rootfs, tmp, store, run, disabled, mnt>>
  BY DEF Kill
<1>2. FilesOK(j, rootfs, disabled) /\ StateOK /\ Alone(env, j, job)
  BY Parts
<1>3. \A q \in Callers \ {p} : job[q] = NoJob
  BY <1>1, <1>2, TheOne
<1>4. ~WellIn(env)
  BY <1>1 DEF WellIn
<1> QED BY <1>1, <1>2, <1>3, <1>4, NothingRuns DEF FilesOK

(* stop-all goes over the containers once more.                            *)
LEMMA OnceMore ==
  ASSUME NEW j \in JobRecord, Is(j), NEW p \in Callers, env' = env,
         j = job[p], Running(env, j), \A q \in Callers \ {p} : job[q] = NoJob,
         j.cmd = "stop-all", j.steps = <<>>, j.list = {}, Len(j.loops) \in 1 .. 3,
         UNCHANGED <<rootfs, tmp, store, run, disabled, mnt>>,
         NEW j2 \in JobRecord, Running(env, j2), job' = [job EXCEPT ![p] = j2],
         j2.cmd = j.cmd, j2.steps = <<>>, j2.list = lxc_ls, ~j2.again,
         \/ Len(j2.loops) = 1 /\ Len(j.loops) = 1
         \/ Len(j2.loops) = 1 /\ Len(j.loops) = 2
         \/ Len(j2.loops) = 2 /\ Len(j.loops) = 3
  PROVE  Inv'
<1>1. /\ FilesOK(j, rootfs, disabled) /\ NextOK(env, j, rootfs, tmp, mnt)
      /\ WellIn(env) => /\ GoneOK(rootfs, run, mnt) /\ RemoveOK(j, run, mnt)
                        /\ NfsOK(j, run, mnt["nfs"])
      /\ StateOK
  BY Parts
<1>2. job' \in [Callers -> JobRecord] /\ Alone(env, j2, job')
  BY <1>1, Becomes DEF StateOK
<1>3. StateOK'
  BY <1>1, <1>2 DEF StateOK
<1>r. Rest(j.steps) = {} /\ Rest(j2.steps) = {}
  BY RestEmpty, <<>> \in Seq(Steps)
<1>4. FilesOK(j2, rootfs', disabled')
  BY <1>1 DEF FilesOK, AddOK, StartOK, ExistsOK, Removing, lxc_ls
<1>5. NextOK(env, j2, rootfs', tmp', mnt')
  BY <1>1 DEF NextOK, DirsOK, CopyOK, WritableOK, First
<1>6. ASSUME WellIn(env)
      PROVE  /\ GoneOK(rootfs', run', mnt') /\ RemoveOK(j2, run', mnt')
             /\ NfsOK(j2, run', mnt'["nfs"]) /\ SettledOK(j2, run)
  <2>1. NfsOK(j, run, mnt["nfs"]) /\ StopAllOK(j, run, mnt["nfs"])
        /\ GoneOK(rootfs, run, mnt)
    BY <1>1, <1>6 DEF NfsOK
  <2>2. RemoveOK(j2, run, mnt) /\ UnmountOK(j2, mnt["nfs"]) /\ StartedOK(j2, run)
    BY DEF RemoveOK, UnmountOK, StartedOK
  <2>3. StopAllOK(j2, run, mnt["nfs"])
    <3>1. \A c \in Names : mnt["nfs"][c] = "none"
      BY <1>r, <2>1 DEF StopAllOK
    <3>2. \A c \in Names : run[c] # "stopped" => c \in j2.list
      BY <2>1 DEF GoneOK, lxc_ls
    <3>3. Len(j2.loops) = 1 => \A c \in Names : run[c] # "up"
      <4>1. Len(j.loops) = 1 => \A c \in Names : run[c] # "up"
        BY <2>1 DEF StopAllOK
      <4>2. Len(j.loops) = 2 => \A c \in Names : run[c] # "up"
        BY <1>r, <2>1 DEF StopAllOK
      <4> QED BY <4>1, <4>2
    <3> QED BY <3>1, <3>2, <3>3 DEF StopAllOK
  <2>4. SettledOK(j2, run) /\ SharesOK(run, mnt["nfs"])
    BY <2>1 DEF NfsOK, SettledOK
  <2> QED BY <2>1, <2>2, <2>3, <2>4 DEF NfsOK
<1>7. ASSUME WellIn(env), NoReboots(env)
      PROVE  WatchOK(j2, run', mnt'["nfs"])
  <2>1. BootOK(j2, run)
    BY <1>6, <1>7 DEF SettledOK, BootOK, Starting, Rebooting
  <2>2. UpOK(j2, run, mnt["nfs"])
    BY DEF UpOK
  <2> QED BY <2>1, <2>2 DEF WatchOK
<1> QED BY <1>2, <1>3, <1>4, <1>5, <1>6, <1>7, Again

(* The loop over the containers is done: once more, the next one, the end. *)
LEMMA NextLoopStep ==
  ASSUME NEW j \in JobRecord, Is(j), NEW p \in Callers, NextLoop(p), env' = env
  PROVE  Inv'
<1>1. /\ job[p].cmd # "none" /\ job[p].steps = <<>> /\ job[p].list = {}
      /\ job' = [job EXCEPT ![p] =
           IF job[p].again THEN [job[p] EXCEPT !.list = lxc_ls, !.again = FALSE]
           ELSE IF Len(job[p].loops) > 1
             THEN [job[p] EXCEPT !.list = lxc_ls, !.loops = Tail(@)]
           ELSE NoJob]
      /\ UNCHANGED <<rootfs, tmp, store, run, disabled, mnt>>
  BY DEF NextLoop
<1>2. /\ FilesOK(j, rootfs, disabled) /\ NextOK(env, j, rootfs, tmp, mnt)
      /\ WellIn(env) => /\ GoneOK(rootfs, run, mnt) /\ NfsOK(j, run, mnt["nfs"])
      /\ WellIn(env) /\ NoReboots(env) => WatchOK(j, run, mnt["nfs"])
      /\ StateOK /\ Alone(env, j, job)
  BY Parts
<1>3. j = job[p] /\ Running(env, j) /\ \A q \in Callers \ {p} : job[q] = NoJob
  BY <1>1, <1>2, TheOne
<1>4. /\ j.cmd \in Commands /\ j.cmd # "none" /\ j.again \in BOOLEAN
      /\ j.loops \in LoopsOf(j.cmd) /\ j.steps = <<>> /\ j.list = {}
      /\ Rest(j.steps) = {} /\ lxc_ls \subseteq Names
  BY <1>1, <1>3, RunningType, RestEmpty DEF lxc_ls
<1>5. /\ Len(j.loops) \in 1 .. 3
      /\ Len(j.loops) > 1 => /\ j.cmd = "stop-all" /\ Tail(j.loops) \in LoopsOf(j.cmd)
                             /\ Len(Tail(j.loops)) = Len(j.loops) - 1
  BY <1>4, LoopsLeft
<1>6. CASE j.again
  <2>1. PICK j2 : j2 = [j EXCEPT !.list = lxc_ls, !.again = FALSE]
    OBVIOUS
  <2>2. /\ j2 \in JobRecord /\ j2.cmd = j.cmd /\ j2.c = j.c /\ j2.list = lxc_ls
        /\ j2.loops = j.loops /\ j2.exact = j.exact /\ j2.again = FALSE
        /\ j2.steps = <<>>
    BY <1>4, <2>1 DEF JobRecord
  <2>3. j.cmd = "stop-all" /\ Len(j.loops) = 1
    BY <1>3, <1>6 DEF Running
  <2>4. Running(env, j2)
    BY <1>3, <1>4, <2>2, <2>3 DEF Running, ForAll
  <2>5. job' = [job EXCEPT ![p] = j2]
    BY <1>1, <1>3, <1>6, <2>1
  <2>6. Len(j2.loops) = 1 /\ ~j2.again
    BY <2>2, <2>3
  <2>7. UNCHANGED <<rootfs, tmp, store, run, disabled, mnt>>
    BY <1>1
  <2> QED BY <1>3, <1>4, <1>5, <2>2, <2>3, <2>4, <2>5, <2>6, <2>7, OnceMore
<1>7. CASE ~j.again /\ Len(j.loops) > 1
  <2>1. PICK l : l = Tail(j.loops)
    OBVIOUS
  <2>2. /\ j.cmd = "stop-all" /\ l \in LoopsOf(j.cmd) /\ Len(l) = Len(j.loops) - 1
        /\ l \in Seq(Seq(Steps))
    BY <1>4, <1>5, <1>7, <2>1, LoopsLeft
  <2>3. PICK j2 : j2 = [j EXCEPT !.list = lxc_ls, !.loops = l]
    OBVIOUS
  <2>4. /\ j2 \in JobRecord /\ j2.cmd = j.cmd /\ j2.c = j.c /\ j2.list = lxc_ls
        /\ j2.loops = l /\ j2.exact = j.exact /\ j2.again = FALSE
        /\ j2.steps = <<>>
    BY <1>4, <1>7, <2>2, <2>3 DEF JobRecord
  <2>i. InOrder(<<>>, j.cmd, Len(l))
    <3>1. Len(<<>>) = 0
      OBVIOUS
    <3> QED BY <3>1 DEF InOrder
  <2>5. Running(env, j2)
    BY <1>3, <1>4, <2>2, <2>4, <2>i DEF Running, ForAll
  <2>6. job' = [job EXCEPT ![p] = j2]
    BY <1>1, <1>3, <1>7, <2>1, <2>3
  <2>7. \/ Len(l) = 1 /\ Len(j.loops) = 2
        \/ Len(l) = 2 /\ Len(j.loops) = 3
    <3>1. PICK n \in 1 .. 3 : n = Len(j.loops)
      BY <1>5
    <3>2. n > 1 /\ Len(l) = n - 1
      BY <1>7, <2>2, <3>1
    <3>3. n = 2 \/ n = 3
      BY <3>2
    <3> QED BY <3>1, <3>2, <3>3
  <2>8. UNCHANGED <<rootfs, tmp, store, run, disabled, mnt>>
    BY <1>1
  <2> QED BY <1>3, <1>4, <1>5, <2>2, <2>4, <2>5, <2>6, <2>7, <2>8, OnceMore
<1>8. CASE ~j.again /\ ~(Len(j.loops) > 1)
  <2>1. job' = [job EXCEPT ![p] = NoJob] /\ Len(j.loops) = 1
    <3>1. PICK n \in 1 .. 3 : n = Len(j.loops)
      BY <1>5
    <3>2. ~(n > 1)
      BY <1>8, <3>1
    <3>3. n = 1
      BY <3>2
    <3>4. job' = [job EXCEPT ![p] = NoJob]
      BY <1>1, <1>3, <1>8
    <3> QED BY <3>1, <3>3, <3>4
  <2>2. EnabledOK(rootfs, disabled)
    BY <1>2 DEF FilesOK
  <2>3. \A c \in Names : mnt["backup"][c] = "rw" => "kill" \in env.faults
    BY <1>2, <1>4 DEF NextOK, WritableOK, First
  <2>4. WellIn(env) => GoneOK(rootfs, run, mnt) /\ SharesOK(run, mnt["nfs"])
    BY <1>2 DEF NfsOK
  <2>5. ASSUME WellIn(env), NoReboots(env), NEW c \in Names
        PROVE  /\ run[c] \notin {"booting", "rebooting"}
               /\ run[c] = "up" => mnt["nfs"][c] # "none"
    <3>1. BootOK(j, run) /\ UpOK(j, run, mnt["nfs"]) /\ StopAllOK(j, run, mnt["nfs"])
      BY <1>2, <2>5 DEF NfsOK, WatchOK
    <3>2. run[c] \notin {"booting", "rebooting"}
      BY <1>4, <3>1 DEF BootOK
    <3>3. j.cmd = "stop-all" => run[c] # "up"
      BY <2>1, <3>1 DEF StopAllOK
    <3>4. ~Cares(j)
      BY <1>4 DEF Cares
    <3>5. run[c] = "up" => mnt["nfs"][c] # "none"
      BY <3>1, <3>3, <3>4 DEF UpOK
    <3> QED BY <3>2, <3>5
  <2> QED BY <1>1, <1>2, <1>3, <2>1, <2>2, <2>3, <2>4, <2>5, NothingRuns
<1> QED BY <1>4, <1>6, <1>7, <1>8

(* A command is typed, while no other one runs.                            *)
LEMMA CommandStep ==
  ASSUME MaxActive = 1, NEW j \in JobRecord, Is(j), NEW p \in Callers,
         NEW cmd \in env.commands, NEW c \in env.names, NEW exact \in BOOLEAN,
         Command(p, cmd, c, exact), env' = env
  PROVE  Inv'
<1>1. /\ Cardinality(Active) < 1
      /\ env.settled => \A d \in Names : run[d] \in {"stopped", "up"}
      /\ IF cmd = "add" THEN rootfs[c] = "none"
         ELSE cmd \notin ForAll => rootfs[c] # "none"
      /\ exact \/ ("capitals" \in env.faults /\ cmd \notin ForAll)
      /\ job' = [job EXCEPT ![p] =
           [NoJob EXCEPT !.cmd = cmd, !.exact = exact, !.loops = Loops(cmd),
                         !.list = IF cmd \in ForAll THEN lxc_ls ELSE {c}]]
      /\ UNCHANGED <<rootfs, tmp, store, run, disabled, mnt>>
  BY DEF Command
<1>2. /\ FilesOK(j, rootfs, disabled) /\ NextOK(env, j, rootfs, tmp, mnt)
      /\ WellIn(env) => /\ GoneOK(rootfs, run, mnt) /\ NfsOK(j, run, mnt["nfs"])
      /\ WellIn(env) /\ NoReboots(env) => WatchOK(j, run, mnt["nfs"])
      /\ StateOK /\ Alone(env, j, job)
  BY Parts
<1>3. cmd \in Commands /\ c \in Names /\ lxc_ls \subseteq Names
  BY <1>2, ConstantsAssumption DEF StateOK, Env, lxc_ls
<1>4. Active = {}
  <2>1. IsFiniteSet(Active)
    <3>1. Active \subseteq Callers
      BY DEF Active
    <3> QED BY <3>1, ConstantsAssumption, FS_Subset
  <2>2. Cardinality(Active) \in Nat
    BY <2>1, FS_CardinalityType
  <2>3. Cardinality(Active) = 0
    BY <1>1, <2>2
  <2> QED BY <2>1, <2>3, FS_EmptySet
<1>5. j = NoJob /\ \A q \in Callers : job[q] = NoJob
  BY <1>2, <1>4 DEF Alone, Only, Active
<1>n. /\ j.cmd = "none" /\ j.steps = <<>> /\ Rest(j.steps) = {} /\ NoJob.cmd = "none"
      /\ NoJob \in JobRecord /\ NoJob.steps = <<>> /\ NoJob.again = FALSE
  BY <1>5, NoJobType
<1>6. Loops(cmd) \in LoopsOf(cmd) /\ Loops(cmd) \in Seq(Seq(Steps))
  <2>1. Loops(cmd) \in LoopsOf(cmd)
    BY DEF LoopsOf
  <2> QED BY <1>3, <2>1, LoopsLeft
<1>7. PICK l, z : l = Loops(cmd) /\ z = (IF cmd \in ForAll THEN lxc_ls ELSE {c})
  OBVIOUS
<1>z. z \subseteq Names
  BY <1>3, <1>7
<1>8. PICK j2 : j2 = [NoJob EXCEPT !.cmd = cmd, !.exact = exact, !.loops = l, !.list = z]
  OBVIOUS
<1>9. /\ j2 \in JobRecord /\ j2.cmd = cmd /\ j2.exact = exact /\ j2.loops = l
      /\ j2.list = z /\ j2.steps = <<>> /\ j2.again = FALSE
  BY <1>3, <1>6, <1>7, <1>8, <1>n, <1>z DEF JobRecord
<1>i. InOrder(<<>>, cmd, Len(l))
  <2>1. Len(<<>>) = 0
    OBVIOUS
  <2> QED BY <2>1 DEF InOrder
<1>10. Running(env, j2)
  BY <1>1, <1>3, <1>6, <1>7, <1>9, <1>i DEF Running
<1>11. job' = [job EXCEPT ![p] = j2]
  BY <1>1, <1>7, <1>8
<1>12. job' \in [Callers -> JobRecord] /\ Alone(env, j2, job')
  BY <1>2, <1>5, <1>9, <1>10, <1>11, Becomes DEF StateOK
<1>13. StateOK'
  BY <1>1, <1>2, <1>12 DEF StateOK
<1>14. FilesOK(j2, rootfs', disabled')
  <2>1. AddOK(j2, rootfs, disabled)
    BY <1>1, <1>7, <1>9 DEF AddOK, ForAll
  <2>2. StartOK(j2, disabled)
    BY <1>9 DEF StartOK
  <2>3. ExistsOK(j2, rootfs)
    BY <1>1, <1>7, <1>9 DEF ExistsOK, lxc_ls
  <2> QED BY <1>1, <1>2, <2>1, <2>2, <2>3 DEF FilesOK
<1>15. NextOK(env, j2, rootfs', tmp', mnt')
  BY <1>1, <1>2, <1>9, <1>n DEF NextOK, DirsOK, CopyOK, WritableOK, First
<1>16. ASSUME WellIn(env)
       PROVE  /\ GoneOK(rootfs', run', mnt') /\ RemoveOK(j2, run', mnt')
              /\ NfsOK(j2, run', mnt'["nfs"])
  <2>1. /\ NfsOK(j, run, mnt["nfs"]) /\ GoneOK(rootfs, run, mnt)
        /\ \A d \in Names : run[d] \in {"stopped", "up"}
    BY <1>1, <1>2, <1>16 DEF WellIn
  <2>2. RemoveOK(j2, run, mnt) /\ UnmountOK(j2, mnt["nfs"])
    BY <1>9 DEF RemoveOK, UnmountOK
  <2>3. StopAllOK(j2, run, mnt["nfs"])
    <3>1. CASE cmd = "stop-all"
      <4>1. Len(l) = 3
        BY <1>7, <3>1, ThreeLoops
      <4>2. \A d \in Names : mnt["nfs"][d] = "none" \/ d \in z
        BY <1>7, <2>1, <3>1 DEF GoneOK, lxc_ls, ForAll, Kinds
      <4>3. \A d \in Names : mnt["nfs"][d] = "none" \/ (Len(j2.loops) = 3 /\ d \in j2.list)
        BY <1>9, <4>1, <4>2
      <4>4. Len(j2.loops) # 2 /\ Len(j2.loops) # 1
        BY <1>9, <4>1
      <4> QED BY <4>3, <4>4 DEF StopAllOK
    <3>2. CASE cmd # "stop-all"
      BY <1>9, <3>2 DEF StopAllOK
    <3> QED BY <3>1, <3>2
  <2>4. SettledOK(j2, run) /\ SharesOK(run, mnt["nfs"])
    BY <2>1 DEF NfsOK, SettledOK
  <2>5. StartedOK(j2, run)
    BY <1>7, <1>9 DEF StartedOK, ForAll
  <2> QED BY <1>1, <2>1, <2>2, <2>3, <2>4, <2>5 DEF NfsOK
<1>17. ASSUME WellIn(env), NoReboots(env)
       PROVE  WatchOK(j2, run', mnt'["nfs"])
  <2>1. WatchOK(j, run, mnt["nfs"]) /\ \A d \in Names : run[d] \in {"stopped", "up"}
    BY <1>1, <1>2, <1>17 DEF WellIn
  <2>2. BootOK(j2, run)
    BY <2>1 DEF BootOK
  <2>3. ~Cares(j)
    BY <1>n DEF Cares
  <2>4. UpOK(j2, run, mnt["nfs"])
    BY <1>n, <2>1, <2>3 DEF WatchOK, UpOK
  <2> QED BY <1>1, <2>2, <2>4 DEF WatchOK
<1> QED BY <1>1, <1>9, <1>12, <1>13, <1>14, <1>15, <1>16, <1>17, Again

(* Where a container is waited for, its share is mounted later.            *)
LEMMA MountsLater ==
  ASSUME NEW s, NEW cmd \in Starting, NEW n, s \in Seq(Steps), InOrder(s, cmd, n),
         "online" \in Rest(s)
  PROVE  "nfs-mount" \in Rest(s)
<1>1. PICK i \in 1 .. Len(s) : s[i] = "online"
  BY DEF Rest
<1>2. Followed(s[i], cmd, {s[k] : k \in i + 1 .. Len(s)})
  BY DEF InOrder
<1>3. PICK k \in i + 1 .. Len(s) : s[k] = "nfs-mount"
  BY <1>1, <1>2 DEF Followed
<1>4. k \in 1 .. Len(s)
  BY <1>1, <1>3
<1> QED BY <1>3, <1>4 DEF Rest

(* A container boots, halts or reboots by itself.                          *)
LEMMA ContainerStep ==
  ASSUME NEW j \in JobRecord, Is(j), NEW c \in Names, Container(c), env' = env
  PROVE  Inv'
<1>1. /\ UNCHANGED <<env, rootfs, tmp, store, disabled, mnt, job>>
      /\ \/ run[c] = "booting" /\ run' = [run EXCEPT ![c] = "up"]
         \/ run[c] = "halting" /\ run' = [run EXCEPT ![c] = "stopped"]
         \/ run[c] = "rebooting" /\ run' = [run EXCEPT ![c] = "booting"]
  BY DEF Container, Booted, Halted, Rebooted
<1>2. /\ FilesOK(j, rootfs, disabled) /\ NextOK(env, j, rootfs, tmp, mnt)
      /\ WellIn(env) => /\ GoneOK(rootfs, run, mnt) /\ RemoveOK(j, run, mnt)
                        /\ NfsOK(j, run, mnt["nfs"])
      /\ WellIn(env) /\ NoReboots(env) => WatchOK(j, run, mnt["nfs"])
      /\ StateOK /\ Alone(env, j, job)
  BY Parts
<1>3. /\ run' \in [Names -> Runs] /\ \A d \in Names \ {c} : run'[d] = run[d]
      /\ \/ run[c] = "booting" /\ run'[c] = "up"
         \/ run[c] = "halting" /\ run'[c] = "stopped"
         \/ run[c] = "rebooting" /\ run'[c] = "booting"
  BY <1>1, <1>2 DEF StateOK, Runs
<1>c. j.c \in Names
  BY DEF JobRecord
<1>4. StateOK' /\ Alone(env, j, job')
  BY <1>1, <1>2, <1>3 DEF StateOK
<1>5. FilesOK(j, rootfs', disabled') /\ NextOK(env, j, rootfs', tmp', mnt')
  BY <1>1, <1>2
<1>6. ASSUME WellIn(env)
      PROVE  /\ GoneOK(rootfs', run', mnt') /\ RemoveOK(j, run', mnt')
             /\ NfsOK(j, run', mnt'["nfs"])
  <2>1. /\ NfsOK(j, run, mnt["nfs"]) /\ GoneOK(rootfs, run, mnt) /\ RemoveOK(j, run, mnt)
    BY <1>2, <1>6
  <2>2. GoneOK(rootfs, run', mnt)
    BY <1>3, <2>1 DEF GoneOK
  <2>3. RemoveOK(j, run', mnt)
    BY <1>3, <1>c, <2>1 DEF RemoveOK
  <2>4. UnmountOK(j, mnt["nfs"])
    BY <2>1 DEF NfsOK
  <2>5. StopAllOK(j, run', mnt["nfs"])
    <3>1. CASE j.cmd = "stop-all"
      <4>1. run[c] = "halting" /\ run'[c] = "stopped"
        BY <1>3, <2>1, <3>1 DEF NfsOK, SettledOK, Starting, Rebooting
      <4>2. /\ \A d \in Names : run'[d] = "up" => run[d] = "up"
            /\ \A d \in Names : run'[d] # "stopped" => run[d] # "stopped"
        BY <1>3, <4>1
      <4> QED BY <2>1, <4>2 DEF NfsOK, StopAllOK
    <3>2. CASE j.cmd # "stop-all"
      BY <3>2 DEF StopAllOK
    <3> QED BY <3>1, <3>2
  <2>6. SettledOK(j, run')
    BY <1>3, <2>1 DEF NfsOK, SettledOK
  <2>7. SharesOK(run', mnt["nfs"])
    BY <1>3, <2>1 DEF NfsOK, SharesOK
  <2>8. StartedOK(j, run')
    <3>1. SettledOK(j, run) /\ StartedOK(j, run)
      BY <2>1 DEF NfsOK
    <3>2. j.cmd \in {"start", "add"} => run[c] # "halting"
      BY <3>1 DEF SettledOK, Stopping
    <3> QED BY <1>3, <1>c, <3>1, <3>2 DEF StartedOK
  <2> QED BY <1>1, <2>2, <2>3, <2>4, <2>5, <2>6, <2>7, <2>8 DEF NfsOK
<1>7. ASSUME WellIn(env), NoReboots(env)
      PROVE  WatchOK(j, run', mnt'["nfs"])
  <2>1. BootOK(j, run) /\ UpOK(j, run, mnt["nfs"]) /\ SettledOK(j, run)
    BY <1>2, <1>7 DEF WatchOK, NfsOK
  <2>2. run[c] # "rebooting"
    BY <2>1 DEF BootOK
  <2>3. BootOK(j, run')
    BY <1>3, <2>1, <2>2 DEF BootOK
  <2>4. run[c] = "booting" => c = j.c /\ Cares(j)
    <3>1. ASSUME run[c] = "booting"
          PROVE  /\ c = j.c /\ "online" \in Rest(j.steps)
                 /\ "lxc-start" \notin Rest(j.steps)
                 /\ j.cmd \in {"none"} \cup Starting \cup Rebooting
      BY <2>1, <3>1 DEF BootOK, SettledOK
    <3>2. ASSUME run[c] = "booting"
          PROVE  Running(env, j)
      BY <1>2, <3>1, <3>2, NoJobType DEF Alone
    <3>3. ASSUME run[c] = "booting"
          PROVE  j.cmd \in Starting
      <4>1. j.cmd \in env.commands /\ j.cmd # "none"
        BY <3>2, <3>3, RunningType
      <4> QED BY <1>7, <3>1, <3>3, <4>1 DEF NoReboots
    <3>4. ASSUME run[c] = "booting"
          PROVE  "nfs-mount" \in Rest(j.steps)
      BY <3>1, <3>2, <3>3, <3>4, RunningType, MountsLater
    <3> QED BY <3>1, <3>3, <3>4 DEF Cares
  <2>5. UpOK(j, run', mnt["nfs"])
    BY <1>3, <2>1, <2>2, <2>4 DEF UpOK
  <2> QED BY <1>1, <2>3, <2>5 DEF WatchOK
<1> QED BY <1>1, <1>4, <1>5, <1>6, <1>7, Again
-----------------------------------------------------------------------------
(* The invariant holds at the beginning.                                   *)
LEMMA InitInv ==
  ASSUME Init
  PROVE  Inv
<1>1. /\ env \in Envs /\ rootfs \in [Names -> {"none", "whole"}]
      /\ tmp = [c \in Names |-> "none"] /\ store = [c \in Names |-> TRUE]
      /\ run = [c \in Names |-> "stopped"] /\ disabled = [c \in Names |-> FALSE]
      /\ mnt = [k \in Kinds |-> [c \in Names |-> "none"]]
      /\ job = [p \in Callers |-> NoJob]
  BY DEF Init
<1>2. /\ NoJob \in JobRecord /\ NoJob.cmd = "none" /\ NoJob.steps = <<>>
      /\ NoJob.list = {} /\ Rest(NoJob.steps) = {}
  BY NoJobType
<1> DEFINE z == NoJob
<1> HIDE DEF z
<1>3. z = NoJob
  BY DEF z
<1>4. StateOK
  BY <1>1, <1>2 DEF StateOK, Files, Runs, Mounts
<1>5. Alone(env, z, job)
  BY <1>1, <1>3 DEF Alone, Only
<1>6. FilesOK(z, rootfs, disabled)
  BY <1>1, <1>2, <1>3 DEF FilesOK, EnabledOK, AddOK, StartOK, ExistsOK
<1>7. NextOK(env, z, rootfs, tmp, mnt)
  <2>1. \A c \in Names : mnt["backup"][c] = "none"
    BY <1>1 DEF Kinds
  <2> QED BY <1>2, <1>3, <2>1 DEF NextOK, DirsOK, CopyOK, WritableOK, First
<1>8. GoneOK(rootfs, run, mnt) /\ RemoveOK(z, run, mnt)
  <2>1. GoneOK(rootfs, run, mnt)
    BY <1>1 DEF GoneOK
  <2> QED BY <1>2, <1>3, <2>1 DEF RemoveOK
<1>9. NfsOK(z, run, mnt["nfs"])
  <2>1. \A c \in Names : run[c] = "stopped" /\ mnt["nfs"][c] = "none"
    BY <1>1 DEF Kinds
  <2>2. UnmountOK(z, mnt["nfs"]) /\ StopAllOK(z, run, mnt["nfs"]) /\ StartedOK(z, run)
    BY <1>2, <1>3 DEF UnmountOK, StopAllOK, StartedOK
  <2>3. SettledOK(z, run) /\ SharesOK(run, mnt["nfs"])
    BY <2>1 DEF SettledOK, SharesOK
  <2> QED BY <2>2, <2>3 DEF NfsOK
<1>10. WatchOK(z, run, mnt["nfs"])
  BY <1>1 DEF WatchOK, BootOK, UpOK
<1>11. Is(z)
  BY <1>4, <1>5, <1>6, <1>7, <1>8, <1>9, <1>10 DEF Is, Holds
<1> QED BY <1>2, <1>3, <1>11 DEF Inv

(* Each step of a command keeps the invariant.                             *)
LEMMA StepInv ==
  ASSUME NEW j \in JobRecord, Is(j), NEW p \in Callers, Step(p), env' = env
  PROVE  Inv'
<1>1. CASE \E c \in Names : NextContainer(p, c)
  BY <1>1, NextContainerStep
<1>2. CASE NextLoop(p)
  BY <1>2, NextLoopStep
<1>3. CASE IfRunning(p) \/ IfStopped(p) \/ IfStoppedYet(p) \/ Online(p)
  BY <1>3, IfRunningStep, IfStoppedStep, IfStoppedYetStep, OnlineStep
<1>4. CASE Create(p) \/ Enable(p) \/ Disable(p)
  BY <1>4, CreateStep, EnableStep
<1>5. CASE LxcStart(p) \/ Shutdown(p) \/ Reboot(p) \/ LxcStop(p)
  BY <1>5, LxcStartStep, ShutdownStep, RebootStep, LxcStopStep
<1>6. CASE BindMount(p) \/ NfsReady(p) \/ NfsMounted(p)
  BY <1>6, BindMountStep, NfsReadyStep, NfsMountedStep
<1>7. CASE BackupReady(p) \/ BackupMounted(p) \/ BackupRemount(p)
  BY <1>7, BackupReadyStep, BackupMountedStep, BackupRemountStep
<1>8. CASE \E k \in Kinds : Look(p, k) \/ Umount(p, k) \/ Rmdir(p, k)
  BY <1>8, LookStep, UmountStep, RmdirStep
<1>9. CASE BackupUmount(p) \/ Rsync(p) \/ Rm(p)
  BY <1>9, BackupUmountStep, RsyncStep, RmStep
<1> QED BY <1>1, <1>2, <1>3, <1>4, <1>5, <1>6, <1>7, <1>8, <1>9 DEF Step

(* Where one command runs at a time, every step keeps the invariant.       *)
LEMMA NextInv ==
  ASSUME MaxActive = 1, Inv, [Next]_vars
  PROVE  Inv'
<1>1. PICK j \in JobRecord : Is(j)
  BY DEF Inv
<1>2. ASSUME NEW p \in Callers, Type(p), env' = env
      PROVE  Inv'
  <2>1. PICK cmd \in env.commands, c \in env.names, exact \in BOOLEAN :
          Command(p, cmd, c, exact)
    BY <1>2 DEF Type
  <2> QED BY <1>1, <1>2, <2>1, CommandStep
<1>3. ASSUME NEW p \in Callers, Step(p) \/ Kill(p), env' = env
      PROVE  Inv'
  BY <1>1, <1>3, StepInv, KillStep
<1>4. ASSUME NEW c \in Names, Container(c), env' = env
      PROVE  Inv'
  BY <1>1, <1>4, ContainerStep
<1>5. CASE UNCHANGED vars
  <2>1. Is(j)'
    BY <1>1, <1>5 DEF vars, Is, StateOK
  <2> QED BY <2>1 DEF Inv
<1> QED BY <1>2, <1>3, <1>4, <1>5 DEF Next
-----------------------------------------------------------------------------
(* Nothing is under way: types, no remains of what was removed, and shares *)
(* that follow their containers.                                           *)
LEMMA InvSafe ==
  ASSUME Inv
  PROVE  LifecycleInv
<1>1. PICK j \in JobRecord : Is(j)
  BY DEF Inv
<1>2. /\ StateOK /\ Alone(env, j, job)
      /\ WellIn(env) => GoneOK(rootfs, run, mnt) /\ NfsOK(j, run, mnt["nfs"])
      /\ WellIn(env) /\ NoReboots(env) => WatchOK(j, run, mnt["nfs"])
  BY <1>1, Parts
<1>3. TypeOK
  <2>1. ASSUME NEW p \in Callers
        PROVE  /\ job[p].cmd \in Commands \cup {"none"}
               /\ job[p].cmd = "none" => job[p] = NoJob
               /\ job[p].c \in Names /\ job[p].list \subseteq Names
               /\ job[p].steps \in Seq(Steps)
    <3>1. job[p] \in JobRecord
      BY <1>2 DEF StateOK
    <3>2. job[p].cmd = "none" => job[p] = NoJob
      BY <1>2 DEF Alone, Only
    <3> QED BY <3>1, <3>2 DEF JobRecord
  <2>2. \A p \in Callers :
          /\ job[p].cmd \in Commands \cup {"none"}
          /\ job[p].cmd = "none" => job[p] = NoJob
          /\ job[p].c \in Names /\ job[p].list \subseteq Names
          /\ job[p].steps \in Seq(Steps)
    BY <2>1
  <2> QED BY <1>2, <2>2 DEF TypeOK, StateOK, Runs, Mounts
<1>4. Orderly <=> WellIn(env)
  BY DEF Orderly, WellIn
<1>5. RemovedIsGone
  BY <1>2, <1>4 DEF RemovedIsGone, GoneOK
<1>6. SharesFollow
  <2>1. ASSUME Orderly, Quiet, NEW c \in Names, run[c] = "stopped"
        PROVE  mnt["nfs"][c] = "none"
    BY <1>2, <1>4, <2>1 DEF NfsOK, SharesOK
  <2>2. ASSUME Orderly, Quiet, NEW c \in Names, run[c] = "up",
               env.commands \cap {"reboot", "reboot-all"} = {}
        PROVE  mnt["nfs"][c] # "none"
    <3>1. UpOK(j, run, mnt["nfs"])
      BY <1>2, <1>4, <2>2 DEF NoReboots, Rebooting, WatchOK
    <3>2. j = NoJob
      BY <1>2, <2>2 DEF Alone, Only, Quiet, Active
    <3>3. j.cmd = "none" /\ Rest(j.steps) = {}
      BY <3>2, NoJobType
    <3> QED BY <2>2, <3>1, <3>3 DEF UpOK, Cares
  <2> QED BY <2>1, <2>2 DEF SharesFollow
<1> QED BY <1>3, <1>5, <1>6 DEF LifecycleInv

(* A step starts only a container that is not disabled.                    *)
LEMMA StepStays ==
  ASSUME Inv, [Next]_vars, NEW c \in Names, disabled[c], run[c] = "stopped"
  PROVE  run'[c] = "stopped"
<1>1. PICK j \in JobRecord : Is(j)
  BY DEF Inv
<1>2. run \in [Names -> Runs]
  BY <1>1, Parts DEF StateOK
<1>3. ASSUME NEW p \in Callers, LxcStart(p)
      PROVE  run'[c] = "stopped"
  <2>1. ~disabled[j.c] /\ j = job[p]
    BY <1>1, <1>3, AtLxcStart, StepHere DEF LxcStart
  <2>2. c # job[p].c
    BY <2>1
  <2> QED BY <1>2, <1>3, <2>2 DEF LxcStart
<1>4. ASSUME NEW p \in Callers, Shutdown(p)
      PROVE  run'[c] = "stopped"
  BY <1>2, <1>4 DEF Shutdown
<1>5. ASSUME NEW p \in Callers, Reboot(p)
      PROVE  run'[c] = "stopped"
  BY <1>2, <1>5 DEF Reboot
<1>6. ASSUME NEW p \in Callers, LxcStop(p)
      PROVE  run'[c] = "stopped"
  BY <1>2, <1>6 DEF LxcStop
<1>7. ASSUME NEW d \in Names, Container(d)
      PROVE  run'[c] = "stopped"
  BY <1>2, <1>7 DEF Container, Booted, Halted, Rebooted
<1>8. ASSUME NEW p \in Callers, Step(p)
      PROVE  run'[c] = "stopped"
  <2>1. CASE \E d \in Names : NextContainer(p, d)
    BY <2>1 DEF NextContainer
  <2>2. CASE NextLoop(p)
    BY <2>2 DEF NextLoop
  <2>3. CASE IfRunning(p) \/ IfStopped(p) \/ IfStoppedYet(p) \/ Online(p)
    BY <2>3 DEF IfRunning, IfStopped, IfStoppedYet, Online
  <2>4. CASE Create(p) \/ Enable(p) \/ Disable(p)
    BY <2>4 DEF Create, Enable, Disable
  <2>5. CASE BindMount(p) \/ NfsReady(p) \/ NfsMounted(p)
    BY <2>5 DEF BindMount, NfsReady, NfsMounted
  <2>6. CASE BackupReady(p) \/ BackupMounted(p) \/ BackupRemount(p)
    BY <2>6 DEF BackupReady, BackupMounted, BackupRemount
  <2>7. CASE \E k \in Kinds : Look(p, k) \/ Umount(p, k) \/ Rmdir(p, k)
    BY <2>7 DEF Look, Umount, Rmdir
  <2>8. CASE BackupUmount(p) \/ Rsync(p) \/ Rm(p)
    BY <2>8 DEF BackupUmount, Rsync, Rm
  <2> QED BY <1>3, <1>4, <1>5, <1>6, <1>8, <2>1, <2>2, <2>3, <2>4, <2>5, <2>6, <2>7, <2>8
          DEF Step
<1>9. ASSUME NEW p \in Callers, Type(p) \/ Kill(p)
      PROVE  run'[c] = "stopped"
  BY <1>9 DEF Type, Command, Kill
<1>10. CASE UNCHANGED vars
  BY <1>10 DEF vars
<1> QED BY <1>7, <1>8, <1>9, <1>10 DEF Next

(* Only the loop of a command ends it, if it is not interrupted.           *)
LEMMA CommandKept ==
  ASSUME job \in [Callers -> JobRecord], NEW q \in Callers, NEW s,
         job' = [job EXCEPT ![q].steps = s], NEW p \in Callers
  PROVE  job'[p].cmd = job[p].cmd
<1>1. CASE p = q
  BY <1>1 DEF JobRecord
<1>2. CASE p # q
  BY <1>2
<1> QED BY <1>1, <1>2

(* No step ends a command but the end of its last loop.                    *)
LEMMA OnlyLoopEnds ==
  ASSUME job \in [Callers -> JobRecord], NEW q \in Callers, Step(q), NEW p \in Callers,
         job'[p].cmd # job[p].cmd
  PROVE  p = q /\ NextLoop(p)
<1>1. Done(q) => job'[p].cmd = job[p].cmd
  BY CommandKept DEF Done
<1>2. Skip(q) => job'[p].cmd = job[p].cmd
  BY CommandKept DEF Skip
<1>3. job' = [job EXCEPT ![q].steps = Tail(Tail(@))] => job'[p].cmd = job[p].cmd
  BY CommandKept
<1>4. job' = [job EXCEPT ![q].steps = Tail(Tail(Tail(@)))] => job'[p].cmd = job[p].cmd
  BY CommandKept
<1>5. ASSUME NEW c \in Names, NextContainer(q, c)
      PROVE  job'[p].cmd = job[p].cmd
  <2>1. job' = [job EXCEPT ![q] =
                 [job[q] EXCEPT !.c = c, !.list = @ \ {c}, !.steps = Head(job[q].loops)]]
    BY <1>5 DEF NextContainer
  <2>2. CASE p = q
    BY <2>1, <2>2 DEF JobRecord
  <2>3. CASE p # q
    BY <2>1, <2>3
  <2> QED BY <2>2, <2>3
<1>6. ASSUME IfStoppedYet(q)
      PROVE  job'[p].cmd = job[p].cmd
  <2>1. job' = [job EXCEPT ![q] =
                 [job[q] EXCEPT !.steps = Tail(@), !.again = @ \/ is_running(job[q].c)]]
    BY <1>6 DEF IfStoppedYet
  <2>2. CASE p = q
    BY <2>1, <2>2 DEF JobRecord
  <2>3. CASE p # q
    BY <2>1, <2>3
  <2> QED BY <2>2, <2>3
<1>7. ~(IfRunning(q) \/ IfStopped(q) \/ Online(q))
  BY <1>1, <1>2 DEF IfRunning, IfStopped, Online
<1>8. ~(Create(q) \/ Enable(q) \/ Disable(q))
  BY <1>1 DEF Create, Enable, Disable
<1>9. ~(LxcStart(q) \/ Shutdown(q) \/ Reboot(q) \/ LxcStop(q))
  BY <1>1, <1>2 DEF LxcStart, Shutdown, Reboot, LxcStop
<1>10. ~(BindMount(q) \/ NfsReady(q) \/ NfsMounted(q))
  BY <1>1, <1>3 DEF BindMount, NfsReady, NfsMounted
<1>11. ~(BackupReady(q) \/ BackupMounted(q) \/ BackupRemount(q))
  BY <1>1, <1>2 DEF BackupReady, BackupMounted, BackupRemount
<1>12. ~\E k \in Kinds : Look(q, k) \/ Umount(q, k) \/ Rmdir(q, k)
  BY <1>1, <1>3, <1>4 DEF Look, Umount, Rmdir
<1>13. ~(BackupUmount(q) \/ Rsync(q) \/ Rm(q))
  BY <1>1 DEF BackupUmount, Rsync, Rm
<1>14. NextLoop(q)
  BY <1>5, <1>6, <1>7, <1>8, <1>9, <1>10, <1>11, <1>12, <1>13 DEF Step
<1>15. p = q
  BY <1>14 DEF NextLoop
<1> QED BY <1>14, <1>15

(* What a command has done when it ends.                                   *)
LEMMA StepDelivers ==
  ASSUME Inv, [Next]_vars, NEW p \in Callers, Orderly, job[p].cmd # "none",
         job'[p].cmd = "none"
  PROVE  CASE job[p].cmd \in {"start", "add"} ->
                run[job[p].c] \in {"booting", "up", "rebooting"}
           [] job[p].cmd = "stop-all" ->
                \A c \in Names : run[c] = "stopped" /\ mnt["nfs"][c] = "none"
           [] OTHER -> TRUE
<1>1. PICK j \in JobRecord : Is(j)
  BY DEF Inv
<1>2. /\ StateOK /\ Alone(env, j, job) /\ WellIn(env)
      /\ NfsOK(j, run, mnt["nfs"])
  BY <1>1, Parts DEF Orderly, WellIn
<1>3. /\ j = job[p] /\ Running(env, j) /\ job \in [Callers -> JobRecord]
      /\ \A q \in Callers \ {p} : job[q] = NoJob
  BY <1>2, TheOne DEF StateOK
<1>4. ASSUME NextLoop(p)
      PROVE  /\ j.steps = <<>> /\ j.list = {} /\ Rest(j.steps) = {}
             /\ ~j.again /\ Len(j.loops) = 1
  <2>1. /\ j.steps = <<>> /\ j.list = {}
        /\ job' = [job EXCEPT ![p] =
             IF j.again THEN [j EXCEPT !.list = lxc_ls, !.again = FALSE]
             ELSE IF Len(j.loops) > 1
               THEN [j EXCEPT !.list = lxc_ls, !.loops = Tail(@)]
             ELSE NoJob]
    BY <1>3, <1>4 DEF NextLoop
  <2>2. j.cmd # "none"
    BY <1>3
  <2>3. ~j.again /\ ~(Len(j.loops) > 1)
    BY <1>3, <2>1, <2>2 DEF JobRecord
  <2>4. Len(j.loops) \in 1 .. 3
    BY <1>3, RunningType, LoopsLeft
  <2>5. Len(j.loops) = 1
    <3>1. PICK n \in 1 .. 3 : n = Len(j.loops)
      BY <2>4
    <3>2. ~(n > 1)
      BY <2>3, <3>1
    <3>3. n = 1
      BY <3>2
    <3> QED BY <3>1, <3>3
  <2>6. Rest(j.steps) = {}
    BY <2>1, RestEmpty, <<>> \in Seq(Steps)
  <2> QED BY <2>1, <2>3, <2>5, <2>6
<1>5. NextLoop(p)
  <2>1. ASSUME NEW q \in Callers, Step(q)
        PROVE  NextLoop(p)
    BY <1>3, <2>1, OnlyLoopEnds
  <2>2. ASSUME NEW q \in Callers, Type(q)
        PROVE  FALSE
    <3>1. job[q].cmd = "none" /\ \E j2 : job' = [job EXCEPT ![q] = j2]
      BY <2>2 DEF Type, Command
    <3>2. p # q
      BY <3>1
    <3>3. job'[p] = job[p]
      BY <3>1, <3>2
    <3> QED BY <3>3
  <2>3. ASSUME NEW q \in Callers, Kill(q)
        PROVE  FALSE
    BY <1>2, <2>3 DEF Kill, WellIn
  <2>4. ASSUME NEW c \in Names, Container(c)
        PROVE  FALSE
    BY <2>4 DEF Container
  <2>5. ASSUME UNCHANGED vars
        PROVE  FALSE
    BY <2>5 DEF vars
  <2> QED BY <2>1, <2>2, <2>3, <2>4, <2>5 DEF Next
<1>6. CASE j.cmd \in {"start", "add"}
  <2>1. StartedOK(j, run)
    BY <1>2 DEF NfsOK
  <2> QED BY <1>3, <1>4, <1>5, <1>6, <2>1 DEF StartedOK
<1>7. CASE j.cmd = "stop-all"
  <2>1. StopAllOK(j, run, mnt["nfs"])
    BY <1>2 DEF NfsOK
  <2>2. \A c \in Names : mnt["nfs"][c] = "none"
    BY <1>4, <1>5, <1>7, <2>1 DEF StopAllOK
  <2>3. \A c \in Names : run[c] = "stopped"
    BY <1>4, <1>5, <1>7, <2>1 DEF StopAllOK
  <2> QED BY <1>3, <1>7, <2>2, <2>3
<1>8. CASE j.cmd \notin {"start", "add", "stop-all"}
  BY <1>3, <1>8
<1> QED BY <1>6, <1>7, <1>8

(* Where rsync is reliable, and not both commands are interrupted and      *)
(* backups are in use: only destroy deletes the files of a container that  *)
(* are not copied, and nothing deletes the backups.                        *)
LEMMA StepKeepsFiles ==
  ASSUME Inv, [Next]_vars, NEW c \in Names,
         "rsync" \notin env.faults, ~({"kill", "busy"} \subseteq env.faults)
  PROVE  /\ rootfs[c] = "whole" =>
              \/ rootfs'[c] = "whole"
              \/ rootfs'[c] = "none" /\ tmp[c] = "whole"
              \/ rootfs'[c] = "none" /\ \E p \in Active : job[p].cmd = "destroy"
                                                        /\ job[p].c = c
         /\ store[c] => store'[c]
<1> DEFINE Kept == rootfs[c] = "whole" =>
              \/ rootfs'[c] = "whole"
              \/ rootfs'[c] = "none" /\ tmp[c] = "whole"
              \/ rootfs'[c] = "none" /\ \E p \in Active : job[p].cmd = "destroy"
                                                        /\ job[p].c = c
<1>1. PICK j \in JobRecord : Is(j)
  BY DEF Inv
<1>2. /\ rootfs \in [Names -> Files] /\ store \in [Names -> BOOLEAN]
      /\ CopyOK(env, j, rootfs, tmp)
  BY <1>1, Parts DEF StateOK, NextOK
<1>3. CASE UNCHANGED <<rootfs, store>>
  BY <1>3
<1>4. ASSUME NEW p \in Callers, Create(p)
      PROVE  Kept /\ store' = store
  BY <1>2, <1>4 DEF Create
<1>5. ASSUME NEW p \in Callers, NEW k \in Kinds, Rmdir(p, k)
      PROVE  UNCHANGED <<rootfs, store>>
  BY <1>1, <1>5, RmdirKeeps
<1>6. ASSUME NEW p \in Callers, Rm(p)
      PROVE  Kept /\ store' = store
  <2>1. rootfs' = [rootfs EXCEPT ![job[p].c] = "none"] /\ At(p, "rm") /\ store' = store
    BY <1>6 DEF Rm
  <2>2. /\ j = job[p] /\ First(j, "rm") /\ j.c \in Names /\ j.cmd \in Commands
    BY <1>1, <2>1, StepHere
  <2>3. j.cmd = "destroy" \/ tmp[j.c] = rootfs[j.c]
    BY <1>2, <2>2 DEF CopyOK
  <2>4. p \in Active
    BY <2>2 DEF Active, Commands
  <2>5. CASE c = j.c
    <3>1. rootfs'[c] = "none"
      BY <1>2, <2>1, <2>2, <2>5
    <3> QED BY <2>1, <2>2, <2>3, <2>4, <2>5, <3>1
  <2>6. CASE c # j.c
    <3>1. rootfs'[c] = rootfs[c]
      BY <1>2, <2>1, <2>2, <2>6
    <3> QED BY <2>1, <3>1
  <2> QED BY <2>5, <2>6
<1>7. ASSUME NEW p \in Callers, Step(p)
      PROVE  Kept /\ (store[c] => store'[c])
  <2>1. CASE \E d \in Names : NextContainer(p, d)
    BY <2>1, <1>3 DEF NextContainer
  <2>2. CASE NextLoop(p)
    BY <2>2, <1>3 DEF NextLoop
  <2>3. CASE IfRunning(p) \/ IfStopped(p) \/ IfStoppedYet(p) \/ Online(p)
    BY <2>3, <1>3 DEF IfRunning, IfStopped, IfStoppedYet, Online
  <2>4. CASE Enable(p) \/ Disable(p)
    BY <2>4, <1>3 DEF Enable, Disable
  <2>5. CASE LxcStart(p) \/ Shutdown(p) \/ Reboot(p) \/ LxcStop(p)
    BY <2>5, <1>3 DEF LxcStart, Shutdown, Reboot, LxcStop
  <2>6. CASE BindMount(p) \/ NfsReady(p) \/ NfsMounted(p)
    BY <2>6, <1>3 DEF BindMount, NfsReady, NfsMounted
  <2>7. CASE BackupReady(p) \/ BackupMounted(p) \/ BackupRemount(p)
    BY <2>7, <1>3 DEF BackupReady, BackupMounted, BackupRemount
  <2>8. CASE \E k \in Kinds : Look(p, k) \/ Umount(p, k)
    BY <2>8, <1>3 DEF Look, Umount
  <2>9. CASE BackupUmount(p) \/ Rsync(p)
    BY <2>9, <1>3 DEF BackupUmount, Rsync
  <2>10. CASE \E k \in Kinds : Rmdir(p, k)
    BY <2>10, <1>3, <1>5
  <2>11. CASE Create(p)
    BY <2>11, <1>4
  <2>12. CASE Rm(p)
    BY <2>12, <1>6
  <2> QED BY <1>7, <2>1, <2>2, <2>3, <2>4, <2>5, <2>6, <2>7, <2>8, <2>9, <2>10, <2>11,
             <2>12 DEF Step
<1>8. ASSUME NEW p \in Callers, Type(p) \/ Kill(p)
      PROVE  UNCHANGED <<rootfs, store>>
  BY <1>8 DEF Type, Command, Kill
<1>9. ASSUME NEW d \in Names, Container(d)
      PROVE  UNCHANGED <<rootfs, store>>
  BY <1>9 DEF Container
<1>10. CASE UNCHANGED vars
  BY <1>3, <1>10 DEF vars
<1> QED BY <1>3, <1>7, <1>8, <1>9, <1>10 DEF Next

-----------------------------------------------------------------------------
(* One command at a time keeps the invariant.                              *)
LEMMA SpecInv ==
  ASSUME MaxActive = 1
  PROVE  Spec => []Inv
<1>1. Init => Inv
  BY InitInv
<1>2. Inv /\ [Next]_vars => Inv'
  BY NextInv
<1> QED BY <1>1, <1>2, PTL DEF Spec

(* While one command runs at a time and nothing goes wrong: a container    *)
(* that was removed does not run and has nothing mounted; between commands *)
(* one that is stopped has no NFS share mounted, and one that is up has    *)
(* it, if nobody reboots.                                                  *)
THEOREM LifecycleSafe ==
  ASSUME MaxActive = 1
  PROVE  Spec => []LifecycleInv
<1>1. Inv => LifecycleInv
  BY InvSafe
<1>2. Spec => []Inv
  BY SpecInv
<1> QED BY <1>1, <1>2, PTL

(* Whatever goes wrong, no command that runs alone starts a container that *)
(* is disabled, not even start-all: start enables it first.                *)
THEOREM DisabledSafe ==
  ASSUME MaxActive = 1
  PROVE  Spec => DisabledStays
<1>1. Inv /\ [Next]_vars =>
        \A c \in Names : disabled[c] /\ run[c] = "stopped" => run'[c] = "stopped"
  BY StepStays
<1>2. Inv /\ [Next]_vars =>
        [\A c \in Names : disabled[c] /\ run[c] = "stopped" => run'[c] = "stopped"]_vars
  BY <1>1
<1>3. Spec => []Inv
  BY SpecInv
<1> QED BY <1>2, <1>3, PTL DEF Spec, DisabledStays

(* Where nothing goes wrong, start and add end only when the container was *)
(* told to run and does not go down, and stop-all only when nothing runs   *)
(* and no NFS share is mounted.                                            *)
THEOREM DeliversWhatItSays ==
  ASSUME MaxActive = 1
  PROVE  Spec => Delivered
<1> DEFINE Ends == \A p \in Callers :
        Orderly /\ job[p].cmd # "none" /\ job'[p].cmd = "none" =>
          CASE job[p].cmd \in {"start", "add"} ->
                 run[job[p].c] \in {"booting", "up", "rebooting"}
            [] job[p].cmd = "stop-all" ->
                 \A c \in Names : run[c] = "stopped" /\ mnt["nfs"][c] = "none"
            [] OTHER -> TRUE
<1>1. Inv /\ [Next]_vars => Ends
  BY StepDelivers
<1>2. Inv /\ [Next]_vars => [Ends]_vars
  BY <1>1
<1>3. Spec => []Inv
  BY SpecInv
<1>4. Spec => [][Ends]_vars
  <2> HIDE DEF Ends
  <2> QED BY <1>2, <1>3, PTL DEF Spec
<1> QED BY <1>4 DEF Delivered

(* While one command runs at a time, rsync is reliable, and there are not  *)
(* both commands that are interrupted and backups that are in use: the     *)
(* files of a container go only when there is a whole copy of them or by   *)
(* destroy, and no backup is deleted with the directory it is mounted on.  *)
THEOREM NothingLost ==
  ASSUME MaxActive = 1,
         \A e \in Envs : "rsync" \notin e.faults /\ ~({"kill", "busy"} \subseteq e.faults)
  PROVE  Spec => NothingDeleted
<1> DEFINE Kept == \A c \in Names :
       /\ rootfs[c] = "whole" =>
            \/ rootfs'[c] = "whole"
            \/ rootfs'[c] = "none" /\ tmp[c] = "whole"
            \/ rootfs'[c] = "none" /\ \E p \in Active : job[p].cmd = "destroy"
                                                      /\ job[p].c = c
       /\ store[c] => store'[c]
<1>1. Inv => env \in Envs
  BY DEF Inv, Is, StateOK
<1>2. Inv /\ [Next]_vars => Kept
  BY <1>1, StepKeepsFiles
<1>3. Inv /\ [Next]_vars => [Kept]_vars
  BY <1>2
<1>4. Spec => []Inv
  BY SpecInv
<1>5. Spec => [][Kept]_vars
  <2> HIDE DEF Kept
  <2> QED BY <1>3, <1>4, PTL DEF Spec
<1> QED BY <1>5 DEF NothingDeleted
=============================================================================
