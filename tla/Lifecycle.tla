----------------------------- MODULE Lifecycle -----------------------------
(***************************************************************************)
(* The life of the containers of one host: whether they run, whether they  *)
(* are disabled, and what is mounted for their users under /home: the bind *)
(* mounts, the NFS shares and the backups.  A command is a sequence of     *)
(* steps, carried out on one container or on each container in turn; a     *)
(* step is a shell command that tests or changes what other commands and   *)
(* the container itself can see.  The containers boot, halt and reboot on  *)
(* their own time.                                                         *)
(***************************************************************************)
EXTENDS Naturals, Sequences, FiniteSets

CONSTANTS
  Names,      \* containers
  Callers,    \* invocations of srvctl
  MaxActive,  \* how many of them may run at the same time
  Envs        \* the circumstances to look at, see Env

Commands == {"add", "start", "start-all", "stop", "disable", "stop-all", "kill",
             "kill-all", "reboot", "reboot-all", "remove", "destroy",
             "regenerate"}

(* A command is interrupted; a container boots for longer than is waited   *)
(* for; lxc-start fails; rsync fails; a backup is in use when it is to be  *)
(* unmounted; a name is typed with capital letters.                        *)
Faults == {"kill", "slow", "start", "rsync", "busy", "capitals"}

(* Circumstances: the containers there may be, the commands that are used, *)
(* whether they are typed only when no container is on its way up or down, *)
(* and what may go wrong.                                                  *)
Env == [names : SUBSET Names, commands : SUBSET Commands, settled : BOOLEAN,
        faults : SUBSET Faults]

ASSUME ConstantsAssumption ==
  /\ IsFiniteSet(Names) /\ Names # {} /\ IsFiniteSet(Callers)
  /\ MaxActive \in Nat \ {0}
  /\ Envs \subseteq Env

VARIABLES
  env,      \* the circumstances, which do not change
  rootfs,   \* rootfs[c]: the files of container c, "none": no container
  tmp,      \* tmp[c]: the copy of them that remove makes in $TMP
  store,    \* store[c]: are the backups of c in $BACKUP_PATH?
  run,      \* run[c]: what c is doing
  disabled, \* disabled[c]: is there a file settings/disabled?
  mnt,      \* mnt[k][c]: how the share of kind k of c is mounted
  job       \* job[p]: the command caller p is running

vars == <<env, rootfs, tmp, store, run, disabled, mnt, job>>

Kinds == {"bind", "nfs", "backup"}

NoJob == [cmd |-> "none", c |-> CHOOSE c \in Names : TRUE, exact |-> TRUE,
          list |-> {}, loops |-> <<>>, steps |-> <<>>, again |-> FALSE]

Active == {p \in Callers : job[p].cmd # "none"}

(* lxc-info says RUNNING until the container has halted.                   *)
is_running(c) == run[c] # "stopped"

(* Is there an answer from sshd and from the NFS server of c?  While it    *)
(* goes down, there may be one; they are taken to come up together.        *)
Answers(c) == CASE run[c] = "up" -> {TRUE}
                [] run[c] \in {"stopped", "booting"} -> {FALSE}
                [] run[c] \in {"halting", "rebooting"} -> BOOLEAN

lxc_ls == {c \in Names : rootfs[c] # "none"}

-----------------------------------------------------------------------------
(* The commands, as what they do to a container, loop after loop.          *)
BindUnmount   == <<"bind-look", "bind-umount", "bind-rmdir">>
NfsUnmount    == <<"nfs-look", "nfs-umount", "nfs-rmdir">>
BackupUnmount == <<"backup-umount", "backup-rmdir">>
LookAt        == [bind |-> "bind-look", nfs |-> "nfs-look"]
UmountAt      == [bind |-> "bind-umount", nfs |-> "nfs-umount"]
RmdirAt       == [bind |-> "bind-rmdir", nfs |-> "nfs-rmdir",
                  backup |-> "backup-rmdir"]
NfsMount      == <<"nfs-ready", "nfs-mount">>
BackupMount   == <<"backup-ready", "backup-mount", "backup-remount">>

lxc_start == <<"lxc-start", "bind-mount", "online">> \o NfsMount \o BackupMount

Loops(cmd) ==
  CASE cmd = "add"        -> << <<"create", "bind-mount">> \o lxc_start >>
    [] cmd = "start"      -> << <<"enable", "if-stopped">> \o lxc_start >>
    [] cmd = "start-all"  -> << <<"if-stopped">> \o lxc_start >>
    [] cmd = "stop"       -> << NfsUnmount \o <<"if-running">> \o NfsUnmount
                                  \o <<"shutdown">> >>
    [] cmd = "disable"    -> << NfsUnmount \o <<"if-running">> \o NfsUnmount
                                  \o <<"shutdown", "disable">> >>
    [] cmd = "stop-all"   -> << NfsUnmount, <<"if-running", "shutdown">>,
                                <<"if-stopped-yet">> >>
    [] cmd \in {"kill", "kill-all"} ->
         << <<"if-running">> \o NfsUnmount \o <<"lxc-stop">> >>
    [] cmd = "reboot"     -> << <<"if-running">> \o NfsUnmount
                                  \o <<"reboot", "online">> \o NfsMount >>
    [] cmd = "reboot-all" -> << <<"if-running">> \o NfsUnmount
                                  \o <<"reboot">> \o NfsMount >>
    [] cmd = "remove"     -> << BindUnmount \o NfsUnmount \o BackupUnmount
                                  \o <<"lxc-stop", "rsync", "rm">> >>
    [] cmd = "destroy"    -> << BindUnmount \o NfsUnmount \o BackupUnmount
                                  \o <<"lxc-stop", "rm">> >>
    [] cmd = "regenerate" -> << <<"bind-mount">> \o NfsUnmount \o NfsMount >>

ForAll == {"start-all", "stop-all", "kill-all", "reboot-all", "regenerate"}

(* A command is typed.  authorize wants the container to exist, add wants  *)
(* it not to; lxc-stop is given the name as it was typed by remove.        *)
Command(p, cmd, c, exact) ==
  /\ job[p].cmd = "none"
  /\ Cardinality(Active) < MaxActive
  /\ env.settled => \A d \in Names : run[d] \in {"stopped", "up"}
  /\ IF cmd = "add" THEN rootfs[c] = "none"
     ELSE cmd \notin ForAll => rootfs[c] # "none"
  /\ exact \/ ("capitals" \in env.faults /\ cmd \notin ForAll)
  /\ job' = [job EXCEPT ![p] =
       [NoJob EXCEPT !.cmd = cmd, !.exact = exact, !.loops = Loops(cmd),
                     !.list = IF cmd \in ForAll THEN lxc_ls ELSE {c}]]
  /\ UNCHANGED <<rootfs, tmp, store, run, disabled, mnt>>

(* The next container of the list.                                         *)
NextContainer(p, c) ==
  /\ job[p].steps = <<>> /\ c \in job[p].list
  /\ job' = [job EXCEPT ![p] =
              [job[p] EXCEPT !.c = c, !.list = @ \ {c}, !.steps = Head(job[p].loops)]]
  /\ UNCHANGED <<rootfs, tmp, store, run, disabled, mnt>>

(* The list is done: the next loop over the containers, the last loop of   *)
(* stop-all once more if a container was still running, or the end.        *)
NextLoop(p) ==
  LET j == job[p] IN
  /\ j.cmd # "none" /\ j.steps = <<>> /\ j.list = {}
  /\ job' = [job EXCEPT ![p] =
       IF j.again THEN [j EXCEPT !.list = lxc_ls, !.again = FALSE]
       ELSE IF Len(j.loops) > 1
         THEN [j EXCEPT !.list = lxc_ls, !.loops = Tail(@)]
       ELSE NoJob]
  /\ UNCHANGED <<rootfs, tmp, store, run, disabled, mnt>>

At(p, step) == job[p].steps # <<>> /\ Head(job[p].steps) = step
Done(p)     == job' = [job EXCEPT ![p].steps = Tail(@)]
Skip(p)     == job' = [job EXCEPT ![p].steps =
                         IF job[p].cmd = "disable" THEN <<"disable">> ELSE <<>>]

-----------------------------------------------------------------------------
(* Tests of the state of the container.                                    *)
IfRunning(p) ==
  /\ At(p, "if-running")
  /\ IF is_running(job[p].c) THEN Done(p) ELSE Skip(p)
  /\ UNCHANGED <<rootfs, tmp, store, run, disabled, mnt>>

IfStopped(p) ==
  /\ At(p, "if-stopped")
  /\ IF ~disabled[job[p].c] /\ ~is_running(job[p].c) THEN Done(p) ELSE Skip(p)
  /\ UNCHANGED <<rootfs, tmp, store, run, disabled, mnt>>

(* Mutant: the containers are looked at once.                              *)
IfStoppedYetOnce(p) ==
  /\ At(p, "if-stopped-yet")
  /\ Done(p)
  /\ UNCHANGED <<rootfs, tmp, store, run, disabled, mnt>>

IfStoppedYet(p) ==
  /\ At(p, "if-stopped-yet")
  /\ job' = [job EXCEPT ![p] =
              [job[p] EXCEPT !.steps = Tail(@), !.again = @ \/ is_running(job[p].c)]]
  /\ UNCHANGED <<rootfs, tmp, store, run, disabled, mnt>>

(* wait_for_ve_online: any sshd that answers will do, the one that is      *)
(* about to be stopped too; after a hundred tries it is given up.          *)
Online(p) ==
  /\ At(p, "online")
  /\ run[job[p].c] # "booting" \/ "slow" \in env.faults
  /\ Done(p)
  /\ UNCHANGED <<rootfs, tmp, store, run, disabled, mnt>>

-----------------------------------------------------------------------------
(* Changes of the state of the container.                                  *)
Create(p) ==
  /\ At(p, "create")
  /\ rootfs' = [rootfs EXCEPT ![job[p].c] = "whole"]
  /\ Done(p)
  /\ UNCHANGED <<tmp, store, run, disabled, mnt>>

Enable(p) ==
  /\ At(p, "enable")
  /\ disabled' = [disabled EXCEPT ![job[p].c] = FALSE]
  /\ Done(p)
  /\ UNCHANGED <<rootfs, tmp, store, run, mnt>>

Disable(p) ==
  /\ At(p, "disable")
  /\ disabled' = [disabled EXCEPT ![job[p].c] = rootfs[job[p].c] # "none"]
  /\ Done(p)
  /\ UNCHANGED <<rootfs, tmp, store, run, mnt>>

(* lxc-start fails if the container runs, or if it is not there.           *)
LxcStart(p) ==
  LET c == job[p].c IN
  /\ At(p, "lxc-start")
  /\ \/ /\ is_running(c) \/ rootfs[c] = "none" \/ "start" \in env.faults
        /\ Skip(p) /\ UNCHANGED run
     \/ /\ ~is_running(c) /\ rootfs[c] # "none"
        /\ Done(p) /\ run' = [run EXCEPT ![c] = "booting"]
  /\ UNCHANGED <<rootfs, tmp, store, disabled, mnt>>

(* Mutant: the shutdown is never sent.                                     *)
ShutdownUnsent(p) == At(p, "shutdown") /\ Done(p)
                     /\ UNCHANGED <<rootfs, tmp, store, run, disabled, mnt>>

(* lxc-attach -- shutdown -P now comes back at once.  An init that is      *)
(* booting may refuse it, one that is going down does.                     *)
Shutdown(p) ==
  LET c == job[p].c IN
  /\ At(p, "shutdown")
  /\ \/ run[c] \in {"up", "booting"} /\ run' = [run EXCEPT ![c] = "halting"]
     \/ run[c] # "up" /\ UNCHANGED run
  /\ Done(p)
  /\ UNCHANGED <<rootfs, tmp, store, disabled, mnt>>

(* ssh c reboot: nothing happens if there is no answer.                    *)
Reboot(p) ==
  LET c == job[p].c IN
  /\ At(p, "reboot")
  /\ run' = [run EXCEPT ![c] = IF @ = "up" THEN "rebooting" ELSE @]
  /\ Done(p)
  /\ UNCHANGED <<rootfs, tmp, store, disabled, mnt>>

(* lxc-stop -k: remove passes the argument as typed, kill the name.        *)
LxcStop(p) ==
  LET c == job[p].c IN
  /\ At(p, "lxc-stop")
  /\ run' = [run EXCEPT ![c] =
       IF job[p].exact \/ job[p].cmd \in {"kill", "kill-all"} THEN "stopped"
       ELSE @]
  /\ Done(p)
  /\ UNCHANGED <<rootfs, tmp, store, disabled, mnt>>

(* What the containers do by themselves.                                   *)
Booted(c)   == run[c] = "booting"   /\ run' = [run EXCEPT ![c] = "up"]
Halted(c)   == run[c] = "halting"   /\ run' = [run EXCEPT ![c] = "stopped"]
Rebooted(c) == run[c] = "rebooting" /\ run' = [run EXCEPT ![c] = "booting"]

Container(c) ==
  /\ Booted(c) \/ Halted(c) \/ Rebooted(c)
  /\ UNCHANGED <<rootfs, tmp, store, disabled, mnt, job>>

-----------------------------------------------------------------------------
(* Mounts.                                                                 *)
Mount(p, k, how) == mnt' = [mnt EXCEPT ![k][job[p].c] = how]

BindMount(p) ==
  /\ At(p, "bind-mount")
  /\ IF rootfs[job[p].c] = "none" THEN UNCHANGED mnt ELSE Mount(p, "bind", "rw")
  /\ Done(p)
  /\ UNCHANGED <<rootfs, tmp, store, run, disabled>>

(* nfs_mount: the container runs, its NFS server answers, and the share is *)
(* not in the output of mount; then it is mounted, if there is an answer.  *)
NfsReady(p) ==
  LET c == job[p].c IN
  /\ At(p, "nfs-ready")
  /\ \E answer \in Answers(c) :
       IF answer /\ mnt["nfs"][c] = "none" /\ rootfs[c] # "none" THEN Done(p)
       ELSE job' = [job EXCEPT ![p].steps = Tail(Tail(@))]
  /\ UNCHANGED <<rootfs, tmp, store, run, disabled, mnt>>

NfsMounted(p) ==
  /\ At(p, "nfs-mount")
  /\ \E answer \in Answers(job[p].c) :
       IF answer THEN Mount(p, "nfs", "rw") ELSE UNCHANGED mnt
  /\ Done(p)
  /\ UNCHANGED <<rootfs, tmp, store, run, disabled>>

BackupReady(p) ==
  LET c == job[p].c IN
  /\ At(p, "backup-ready")
  /\ IF is_running(c) /\ store[c] /\ mnt["backup"][c] = "none" THEN Done(p)
     ELSE Skip(p)
  /\ UNCHANGED <<rootfs, tmp, store, run, disabled, mnt>>

BackupMounted(p) ==
  /\ At(p, "backup-mount")
  /\ Mount(p, "backup", "rw")
  /\ Done(p)
  /\ UNCHANGED <<rootfs, tmp, store, run, disabled>>

(* Mutant: the mount stays writable.                                       *)
BackupRemountNot(p) == At(p, "backup-remount") /\ Done(p)
                       /\ UNCHANGED <<rootfs, tmp, store, run, disabled, mnt>>

BackupRemount(p) ==
  /\ At(p, "backup-remount")
  /\ IF mnt["backup"][job[p].c] = "none" THEN UNCHANGED mnt
     ELSE Mount(p, "backup", "ro")
  /\ Done(p)
  /\ UNCHANGED <<rootfs, tmp, store, run, disabled>>

(* bind_unmount and nfs_unmount: a share that is mounted is unmounted, and *)
(* its directory is removed if that succeeded.                             *)
Look(p, k) ==
  /\ k # "backup" /\ At(p, LookAt[k])
  /\ IF mnt[k][job[p].c] # "none" THEN Done(p)
     ELSE job' = [job EXCEPT ![p].steps = Tail(Tail(Tail(@)))]
  /\ UNCHANGED <<rootfs, tmp, store, run, disabled, mnt>>

(* Mutant: only the bind mounts are unmounted.                             *)
UmountBindOnly(p, k) ==
  /\ k # "backup" /\ At(p, UmountAt[k])
  /\ IF k = "bind" THEN Mount(p, k, "none") ELSE UNCHANGED mnt
  /\ job' = [job EXCEPT ![p].steps = Tail(Tail(@))]
  /\ UNCHANGED <<rootfs, tmp, store, run, disabled>>

Umount(p, k) ==
  /\ k # "backup" /\ At(p, UmountAt[k])
  /\ IF mnt[k][job[p].c] # "none"
     THEN Mount(p, k, "none") /\ Done(p)
     ELSE /\ job' = [job EXCEPT ![p].steps = Tail(Tail(@))]
          /\ UNCHANGED mnt
  /\ UNCHANGED <<rootfs, tmp, store, run, disabled>>

(* backup_unmount: a busy file system is not unmounted, and its directory  *)
(* is removed all the same.                                                *)
BackupUmount(p) ==
  /\ At(p, "backup-umount")
  /\ Mount(p, "backup", "none") \/ ("busy" \in env.faults /\ UNCHANGED mnt)
  /\ Done(p)
  /\ UNCHANGED <<rootfs, tmp, store, run, disabled>>

(* rm -rf of the directory of the share.  What is mounted there writable   *)
(* at that moment is deleted with it.                                      *)
Rmdir(p, k) ==
  LET c == job[p].c IN
  /\ At(p, RmdirAt[k])
  /\ IF mnt[k][c] # "rw" THEN UNCHANGED <<rootfs, store>>
     ELSE IF k = "backup" THEN /\ store' = [store EXCEPT ![c] = FALSE]
                               /\ UNCHANGED rootfs
     ELSE \E answer \in (IF k = "bind" THEN {TRUE} ELSE Answers(c)) :
            /\ rootfs' = [rootfs EXCEPT ![c] =
                 IF answer /\ @ = "whole" THEN "damaged" ELSE @]
            /\ UNCHANGED store
  /\ Done(p)
  /\ UNCHANGED <<tmp, run, disabled, mnt>>

-----------------------------------------------------------------------------
(* remove: the copy, and the removal whether the copy is complete or not.  *)
Rsync(p) ==
  LET c == job[p].c IN
  /\ At(p, "rsync")
  /\ \E whole \in (IF "rsync" \in env.faults THEN BOOLEAN ELSE {TRUE}) :
       tmp' = [tmp EXCEPT ![c] = IF whole THEN rootfs[c] ELSE "damaged"]
  /\ Done(p)
  /\ UNCHANGED <<rootfs, store, run, disabled, mnt>>

Rm(p) ==
  LET c == job[p].c IN
  /\ At(p, "rm")
  /\ rootfs' = [rootfs EXCEPT ![c] = "none"]
  /\ disabled' = [disabled EXCEPT ![c] = FALSE]
  /\ Done(p)
  /\ UNCHANGED <<tmp, store, run, mnt>>

(* The command is interrupted, or its terminal goes away.                  *)
Kill(p) ==
  /\ "kill" \in env.faults
  /\ job[p].cmd # "none"
  /\ job' = [job EXCEPT ![p] = NoJob]
  /\ UNCHANGED <<rootfs, tmp, store, run, disabled, mnt>>

-----------------------------------------------------------------------------
(* A host with some stopped containers, and with backups of each name.     *)
Init ==
  /\ env      \in Envs
  /\ rootfs   \in {f \in [Names -> {"none", "whole"}] :
                     \A c \in Names \ env.names : f[c] = "none"}
  /\ tmp      = [c \in Names |-> "none"]
  /\ store    = [c \in Names |-> TRUE]
  /\ run      = [c \in Names |-> "stopped"]
  /\ disabled = [c \in Names |-> FALSE]
  /\ mnt      = [k \in Kinds |-> [c \in Names |-> "none"]]
  /\ job      = [p \in Callers |-> NoJob]

Type(p) ==
  \E cmd \in env.commands, c \in env.names, exact \in BOOLEAN :
    Command(p, cmd, c, exact)

Step(p) ==
  \/ \E c \in Names : NextContainer(p, c)
  \/ NextLoop(p)
  \/ IfRunning(p) \/ IfStopped(p) \/ IfStoppedYet(p) \/ Online(p)
  \/ Create(p) \/ Enable(p) \/ Disable(p)
  \/ LxcStart(p) \/ Shutdown(p) \/ Reboot(p) \/ LxcStop(p)
  \/ BindMount(p) \/ NfsReady(p) \/ NfsMounted(p)
  \/ BackupReady(p) \/ BackupMounted(p) \/ BackupRemount(p)
  \/ \E k \in Kinds : Look(p, k) \/ Umount(p, k) \/ Rmdir(p, k)
  \/ BackupUmount(p) \/ Rsync(p) \/ Rm(p)

Next ==
  /\ \/ \E p \in Callers : Type(p) \/ Step(p) \/ Kill(p)
     \/ \E c \in Names : Container(c)
  /\ UNCHANGED env

(* A command that runs goes on, and a container that was told to boot,     *)
(* halt or reboot does so; nobody has to type anything.                    *)
Fairness ==
  /\ \A p \in Callers : WF_vars(Step(p) /\ UNCHANGED env)
  /\ \A c \in Names : WF_vars(Container(c) /\ UNCHANGED env)

Spec == Init /\ [][Next]_vars /\ Fairness

-----------------------------------------------------------------------------
Files == {"none", "whole", "damaged"}

Steps == {"create", "enable", "disable", "if-running", "if-stopped",
          "if-stopped-yet", "lxc-start", "online", "shutdown", "reboot",
          "lxc-stop", "rsync", "rm", "bind-mount"}
           \cup {BindUnmount[i] : i \in 1 .. 3} \cup {NfsUnmount[i] : i \in 1 .. 3}
           \cup {BackupUnmount[i] : i \in 1 .. 2}
           \cup {NfsMount[i] : i \in 1 .. 2} \cup {BackupMount[i] : i \in 1 .. 3}

(* The type of the containers, their mounts and the running commands.      *)
TypeOK ==
  /\ env \in Envs
  /\ rootfs \in [Names -> Files] /\ tmp \in [Names -> Files]
  /\ store \in [Names -> BOOLEAN] /\ disabled \in [Names -> BOOLEAN]
  /\ run \in [Names -> {"stopped", "booting", "up", "halting", "rebooting"}]
  /\ mnt \in [Kinds -> [Names -> {"none", "rw", "ro"}]]
  /\ \A p \in Callers :
       /\ job[p].cmd \in Commands \cup {"none"}
       /\ job[p].cmd = "none" => job[p] = NoJob
       /\ job[p].c \in Names /\ job[p].list \subseteq Names
       /\ job[p].steps \in Seq(Steps)

Quiet == Active = {}

(* Nothing goes wrong, and commands find the containers up or stopped.     *)
Orderly == env.settled /\ env.faults = {}

(* Nothing is deleted but by destroy: a container goes only when there is  *)
(* a whole copy of it, and no removal of the directory of a share reaches  *)
(* the files of a container or of a backup that is still mounted there.    *)
NothingDeleted ==
  [][\A c \in Names :
       /\ rootfs[c] = "whole" =>
            \/ rootfs'[c] = "whole"
            \/ rootfs'[c] = "none" /\ tmp[c] = "whole"
            \/ rootfs'[c] = "none" /\ \E p \in Active : job[p].cmd = "destroy"
                                                      /\ job[p].c = c
       /\ store[c] => store'[c]]_vars

(* A container that was removed does not run and has nothing mounted.      *)
RemovedIsGone ==
  Orderly /\ Quiet => \A c \in Names :
    rootfs[c] = "none" =>
      run[c] = "stopped" /\ \A k \in Kinds : mnt[k][c] = "none"

(* When nothing is under way, the NFS share follows the container: one     *)
(* that is stopped has none left, as each command that stops it unmounts   *)
(* first, and one that is up has it, where nobody reboots: a reboot may    *)
(* look for the server before it is up.                                    *)
SharesFollow ==
  Orderly /\ Quiet => \A c \in Names :
    /\ run[c] = "stopped" => mnt["nfs"][c] = "none"
    /\ run[c] = "up" /\ env.commands \cap {"reboot", "reboot-all"} = {}
         => mnt["nfs"][c] # "none"

(* A disabled container is not started: only start enables it first.       *)
DisabledStays ==
  [][\A c \in Names : disabled[c] /\ run[c] = "stopped"
                        => run'[c] = "stopped"]_vars

(* A container that is disabled comes to a stop.                           *)
DisabledStops ==
  \A c \in Names : Orderly /\ disabled[c] ~> run[c] = "stopped" \/ ~disabled[c]

(* When start or add is done, the container runs and is not going down;    *)
(* when stop-all is done, nothing runs and no NFS share is mounted.        *)
Delivered ==
  [][\A p \in Callers :
       Orderly /\ job[p].cmd # "none" /\ job'[p].cmd = "none" =>
         CASE job[p].cmd \in {"start", "add"} ->
                run[job[p].c] \in {"booting", "up", "rebooting"}
           [] job[p].cmd = "stop-all" ->
                \A c \in Names : run[c] = "stopped" /\ mnt["nfs"][c] = "none"
           [] OTHER -> TRUE]_vars

(* Every command comes to its end, the waiting of stop-all too.            *)
CommandsEnd ==
  \A p \in Callers : Orderly /\ job[p].cmd # "none" ~> job[p].cmd = "none"

(* When nothing is under way: types, no remains of a container that was    *)
(* removed, and shares that follow their containers.                       *)
LifecycleInv == TypeOK /\ RemovedIsGone /\ SharesFollow

(* What disable promises: the container comes to a stop, and stays so.     *)
Disabled == DisabledStays /\ DisabledStops

(* What a command promises: it ends, with what it is for.                  *)
EndsAsPromised == Delivered /\ CommandsEnd
=============================================================================
