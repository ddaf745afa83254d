------------------------------ MODULE Backups ------------------------------
(***************************************************************************)
(* What is kept of a container and of its databases.  A container dumps    *)
(* its databases to a directory named by the time, and removes the older   *)
(* ones; its host archives /srv with these dumps; another host mirrors     *)
(* /srv with rsync.  Dumps need the password of the database's root, which *)
(* is set by secure-mariadb and reset-db-root-passwd and read from a file. *)
(* restore is to bring a removed container back from its archive.          *)
(***************************************************************************)
EXTENDS Naturals, FiniteSets, Functions

CONSTANTS
  Dbs,        \* the databases of the container
  Passwords,
  Callers,    \* invocations of srvctl, on the host, its peer or inside
  MaxPoints,  \* bound: directories of dumps made
  None,       \* no password, no file
  Envs        \* the circumstances to look at, see Env

(* Inside the container; on its host; on the host that mirrors it.         *)
Inside == {"backup-db", "secure-mariadb", "reset-db-root-passwd"}
Cmds   == Inside \cup {"backup", "backup-hosts", "remove", "restore"}

(* A command is interrupted; the database stops; a dump fails; the         *)
(* container stops; a host is not reached; an operator moves an archive to *)
(* where restore looks; someone adds a dynamic name like the container's.  *)
Faults == {"kill", "db", "dump", "stop", "net", "hand", "record"}

Env == [cmds : SUBSET Cmds, together : Nat \ {0}, faults : SUBSET Faults]

ConstantsOK ==
  /\ IsFiniteSet(Dbs) /\ IsFiniteSet(Callers) /\ MaxPoints \in Nat
  /\ None \notin Passwords
  /\ Envs \subseteq Env

ASSUME ConstantsAssumption == ConstantsOK

VARIABLES
  env,     \* the circumstances, which do not change
  ve,      \* the container: "gone", "stopped" or "running"
  db,      \* its database: "up", "down", or "safe" without passwords
  rootpw,  \* the password of the database's root
  mdf,     \* the password in the file; None: no file
  points,  \* points[t]: the databases dumped to the directory made at t
  clock,   \* the time of the latest directory
  arch,    \* the dumps in the archive of the host
  mirror,  \* the dumps in the mirror of the other host
  from,    \* the dumps in the directory that restore reads
  auth,    \* there is a dynamic name like the container's
  rough,   \* a command was cut short between password and file
  job      \* job[p]: the command that caller p is running

vars == <<env, ve, db, rootpw, mdf, points, clock, arch, mirror, from, auth,
          rough, job>>
inside == <<ve, db, rootpw, mdf, points, clock>>
copies == <<arch, mirror, from>>

Nothing == [t \in {} |-> {}]

(* Among these directories is one with dumps of all databases.             *)
Complete(dumps) == Dbs \in Range(dumps)

NoJob == [cmd |-> "none", pc |-> "none", clean |-> FALSE, old |-> {},
          point |-> 0, todo |-> {}, succ |-> TRUE, pw |-> None,
          list |-> Nothing, had |-> Nothing, began |-> 0, smooth |-> TRUE]

Active == {p \in Callers : job[p].cmd # "none"}
At(p, pc) == job[p].pc = pc
To(p, pc) == job' = [job EXCEPT ![p].pc = pc]
Leave(p) == job' = [job EXCEPT ![p] = NoJob]

(* The database lets root in with the password in the file, if there is    *)
(* one, and without a password otherwise.                                  *)
Enters(pw) == db = "safe" \/ (db = "up" /\ rootpw = pw)
Connects == Enters(mdf)

-----------------------------------------------------------------------------
(* Where each command begins.                                              *)
First(cmd) ==
  CASE cmd = "backup"               -> "look"
    [] cmd = "backup-hosts"         -> "reach"
    [] cmd = "backup-db"            -> "check"
    [] cmd = "secure-mariadb"       -> "secure"
    [] cmd = "reset-db-root-passwd" -> "reset"
    [] OTHER                        -> cmd

Dumping == {"backup", "backup-hosts", "backup-db"}

(* A command is typed, or run by cron.  The bound: one that may dump is    *)
(* started only while all that run can still make a directory.             *)
Command(p, cmd, clean, pw) ==
  /\ job[p].cmd = "none"
  /\ cmd \in Dumping => clock + Cardinality(Active) < MaxPoints
  /\ Cardinality(Active) < env.together
  /\ cmd \in env.cmds
  /\ cmd \in Inside => ve = "running"
  /\ cmd \in {"backup", "remove"} => ve # "gone"
  /\ cmd # "backup-db" => clean
  /\ job' = [job EXCEPT ![p] =
       [NoJob EXCEPT !.cmd = cmd, !.pc = First(cmd), !.clean = clean,
                     !.pw = pw, !.began = clock,
                     !.smooth = ve = "running" /\ db = "up" /\ ~rough]]
  /\ UNCHANGED <<inside, copies, auth, rough>>

(* What follows the dumps, whatever came of them.                          *)
AfterDumps(p) ==
  CASE job[p].cmd = "backup"       -> To(p, "archive")
    [] job[p].cmd = "backup-hosts" -> To(p, "rsync")
    [] OTHER                       -> Leave(p)

(* run_backup: the databases of a running container are dumped first.      *)
Look(p) ==
  /\ At(p, "look")
  /\ To(p, IF ve = "running" THEN "check" ELSE "archive")
  /\ UNCHANGED <<inside, copies, auth, rough>>

(* srvctl_backup: the containers the host lists.                           *)
Reach(p) ==
  /\ At(p, "reach")
  /\ IF ve = "gone" THEN Leave(p)
     ELSE To(p, IF ve = "running" THEN "check" ELSE "rsync")
  /\ UNCHANGED <<inside, copies, auth, rough>>

(* The host, or the container from there, is not reached.                  *)
Unreached(p) ==
  /\ "net" \in env.faults
  /\ At(p, "reach") \/ (job[p].cmd = "backup-hosts" /\ At(p, "rsync"))
  /\ Leave(p)
  /\ UNCHANGED <<inside, copies, auth, rough>>

-----------------------------------------------------------------------------
(* Mutant: the file with the password is not used.                         *)
CheckBare(p) ==
  /\ At(p, "check")
  /\ IF ve = "running" /\ Enters(None) THEN To(p, "old") ELSE AfterDumps(p)
  /\ UNCHANGED <<inside, copies, auth, rough>>

(* check_mariadb_connection exits when it can not enter.                   *)
Check(p) ==
  /\ At(p, "check")
  /\ IF ve = "running" /\ Connects THEN To(p, "old") ELSE AfterDumps(p)
  /\ UNCHANGED <<inside, copies, auth, rough>>

(* backup-db lists the older dumps before it makes a directory.            *)
Old(p) ==
  /\ At(p, "old")
  /\ job' = [job EXCEPT ![p] = [job[p] EXCEPT !.old = DOMAIN points, !.pc = "mkdir"]]
  /\ UNCHANGED <<inside, copies, auth, rough>>

(* The directory is named by the second; no two begin within one.          *)
Mkdir(p) ==
  /\ At(p, "mkdir")
  /\ clock' = clock + 1
  /\ points' = [t \in DOMAIN points \cup {clock'} |->
                  IF t = clock' THEN {} ELSE points[t]]
  /\ job' = [job EXCEPT ![p] = [job[p] EXCEPT !.point = clock', !.pc = "show"]]
  /\ UNCHANGED <<ve, db, rootpw, mdf, copies, auth, rough>>

(* The databases are those mysql shows, none if it can not enter.          *)
Show(p) ==
  /\ At(p, "show")
  /\ job' = [job EXCEPT ![p] =
              [job[p] EXCEPT !.todo = IF Connects THEN Dbs ELSE {}, !.pc = "dump"]]
  /\ UNCHANGED <<inside, copies, auth, rough>>

DumpFails == {~Connects} \cup (IF "dump" \in env.faults THEN {TRUE} ELSE {})

(* Mutant: a dump that fails is passed over.                               *)
DumpIgnored(p, d) ==
  /\ At(p, "dump") /\ d \in job[p].todo
  /\ \E fails \in DumpFails :
       /\ points' = IF job[p].point \in DOMAIN points /\ ~fails
                    THEN [points EXCEPT ![job[p].point] = @ \cup {d}]
                    ELSE points
       /\ job' = [job EXCEPT ![p] =
                   [job[p] EXCEPT !.todo = @ \ {d}, !.smooth = @ /\ ~fails]]
  /\ UNCHANGED <<ve, db, rootpw, mdf, clock, copies, auth, rough>>

(* One database after the other; a dump also fails when its directory has  *)
(* been removed by another backup-db.                                      *)
Dump(p, d) ==
  /\ At(p, "dump") /\ d \in job[p].todo
  /\ \E fails \in DumpFails :
       LET there == job[p].point \in DOMAIN points IN
       /\ points' = IF there /\ ~fails
                    THEN [points EXCEPT ![job[p].point] = @ \cup {d}]
                    ELSE points
       /\ job' = [job EXCEPT ![p] =
                   [job[p] EXCEPT !.todo = @ \ {d}, !.succ = @ /\ there /\ ~fails,
                                  !.smooth = @ /\ ~fails]]
  /\ UNCHANGED <<ve, db, rootpw, mdf, clock, copies, auth, rough>>

(* If all dumps succeeded the older ones are removed.                      *)
Clean(p) ==
  /\ At(p, "dump") /\ job[p].todo = {}
  /\ points' = IF job[p].succ /\ job[p].clean
               THEN Restrict(points, DOMAIN points \ job[p].old) ELSE points
  /\ AfterDumps(p)
  /\ UNCHANGED <<ve, db, rootpw, mdf, clock, copies, auth, rough>>

-----------------------------------------------------------------------------
(* run_backup updates its archive of /srv, unless that is empty.  7z opens *)
(* the archive and lists the files ...                                     *)
Archive(p) ==
  /\ At(p, "archive")
  /\ IF DOMAIN points = {} THEN Leave(p)
     ELSE job' = [job EXCEPT ![p] =
                   [job[p] EXCEPT !.list = points, !.had = arch, !.pc = "read"]]
  /\ UNCHANGED <<inside, copies, auth, rough>>

Of(dumps, t) == IF t \in DOMAIN dumps THEN dumps[t] ELSE {}

(* ... and reads those it does not have yet, unless they have vanished.    *)
(* What was not listed is not in the new archive, which replaces the old   *)
(* one at once.                                                            *)
ArchiveRead(p) ==
  /\ At(p, "read")
  /\ LET list == job[p].list IN
     arch' = [t \in DOMAIN list |->
                list[t] \cap (Of(points, t) \cup Of(job[p].had, t))]
  /\ Leave(p)
  /\ UNCHANGED <<inside, mirror, from, auth, rough>>

Copying(q) == At(q, "copy")

(* server_backup: unless an rsync of this directory runs, one begins; it   *)
(* lists /srv and removes from the mirror what is not listed.              *)
RsyncList(p) ==
  /\ At(p, "rsync")
  /\ IF ve = "gone" \/ \E q \in Callers : Copying(q)
     THEN Leave(p) /\ UNCHANGED mirror
     ELSE /\ mirror' = Restrict(mirror, DOMAIN mirror \cap DOMAIN points)
          /\ job' = [job EXCEPT ![p] = [job[p] EXCEPT !.old = DOMAIN points, !.pc = "copy"]]
  /\ UNCHANGED <<inside, arch, from, auth, rough>>

(* What was listed is copied, unless it has vanished.                      *)
RsyncCopy(p) ==
  /\ At(p, "copy")
  /\ LET copied == job[p].old \cap DOMAIN points IN
     mirror' = [t \in DOMAIN mirror \cup copied |->
                  IF t \in copied THEN points[t] ELSE mirror[t]]
  /\ Leave(p)
  /\ UNCHANGED <<inside, arch, from, auth, rough>>

-----------------------------------------------------------------------------
(* secure-mariadb does nothing once there is a file; otherwise it needs to *)
(* enter without a password.                                               *)
Secure(p) ==
  /\ At(p, "secure")
  /\ IF mdf = None /\ Enters(None) THEN To(p, "secure-file") ELSE Leave(p)
  /\ UNCHANGED <<inside, copies, auth, rough>>

(* The password is written to the file first ...                           *)
SecureFile(p) ==
  /\ At(p, "secure-file")
  /\ mdf' = job[p].pw
  /\ To(p, "secure-sql")
  /\ UNCHANGED <<ve, db, rootpw, points, clock, copies, auth, rough>>

(* ... and then given to the database, if that still can be entered.       *)
SecureSql(p) ==
  /\ At(p, "secure-sql")
  /\ rootpw' = IF Enters(None) THEN job[p].pw ELSE rootpw
  /\ rough' = (rough \/ ~Enters(None))
  /\ Leave(p)
  /\ UNCHANGED <<ve, db, mdf, points, clock, copies, auth>>

(* reset-db-root-passwd enters without a password, or stops the database   *)
(* and starts it without passwords; when that fails it exits.              *)
Reset(p) ==
  /\ At(p, "reset")
  /\ \/ db' = db /\ Enters(None) /\ To(p, "reset-sql")
     \/ db' = "safe" /\ ~Enters(None) /\ To(p, "reset-sql")
     \/ db' = "down" /\ ~Enters(None) /\ "db" \in env.faults /\ Leave(p)
  /\ UNCHANGED <<ve, rootpw, mdf, points, clock, copies, auth, rough>>

(* The database gets the new password ...                                  *)
ResetSql(p) ==
  /\ At(p, "reset-sql")
  /\ rootpw' = IF Enters(None) THEN job[p].pw ELSE rootpw
  /\ rough' = (rough \/ ~Enters(None))
  /\ To(p, "reset-file")
  /\ UNCHANGED <<ve, db, mdf, points, clock, copies, auth>>

(* ... the file is written anew ...                                        *)
ResetFile(p) ==
  /\ At(p, "reset-file")
  /\ mdf' = job[p].pw
  /\ rough' = (rootpw # job[p].pw)
  /\ To(p, "reset-reboot")
  /\ UNCHANGED <<ve, db, rootpw, points, clock, copies, auth>>

(* ... and the container reboots, which ends the database without          *)
(* passwords and all that runs inside.                                     *)
InsideNow(p) == job[p].pc \in {"check", "old", "mkdir", "show", "dump",
  "secure", "secure-file", "secure-sql", "reset", "reset-sql", "reset-file",
  "reset-reboot"}

Hindered(p) ==
  [job[p] EXCEPT !.smooth = @ /\ job[p].cmd = "none"]

(* What becomes of the commands when what runs inside ends.                *)
Cut(p) ==
  CASE InsideNow(p) /\ job[p].cmd = "backup" ->
         [job[p] EXCEPT !.pc = "archive", !.smooth = FALSE]
    [] InsideNow(p) /\ job[p].cmd = "backup-hosts" ->
         [job[p] EXCEPT !.pc = "rsync", !.smooth = FALSE]
    [] InsideNow(p) /\ job[p].cmd \in Inside -> NoJob
    [] OTHER -> Hindered(p)

(* Between the password of the database and that of the file.              *)
Between(p) == job[p].pc \in {"secure-sql", "reset-file"}

ResetReboot(p) ==
  /\ At(p, "reset-reboot")
  /\ db' = "up"
  /\ job' = [q \in Callers |-> Cut(q)]
  /\ rough' = (rough \/ \E q \in Callers : Between(q))
  /\ UNCHANGED <<ve, rootpw, mdf, points, clock, copies, auth>>

-----------------------------------------------------------------------------
(* What was inside the container goes with it.                             *)
Emptied ==
  /\ db' = "down" /\ rootpw' = None /\ mdf' = None /\ rough' = FALSE

(* remove kills the container, moves its files away and forgets the name.  *)
Remove(p) ==
  /\ At(p, "remove")
  /\ ve' = "gone" /\ Emptied /\ points' = Nothing
  /\ auth' = FALSE
  /\ job' = [q \in Callers |-> IF q = p THEN NoJob ELSE Cut(q)]
  /\ UNCHANGED <<clock, copies>>

(* restore: authorize knows no removed container, unless a dynamic name is *)
(* like its name, and restore refuses one that exists.  It adds a new      *)
(* container and unpacks what it finds, not where backup puts it.          *)
Restore(p) ==
  /\ At(p, "restore")
  /\ IF ve = "gone" /\ auth
     THEN ve' = "running" /\ Emptied /\ points' = from
     ELSE UNCHANGED <<ve, db, rootpw, mdf, points, rough>>
  /\ Leave(p)
  /\ UNCHANGED <<clock, copies, auth>>

-----------------------------------------------------------------------------
(* Between the test of the connection and the list of databases.           *)
Listing(p) == job[p].pc \in {"old", "mkdir", "show"}

(* The database stops, and is started again; not while it is being listed. *)
DbDown ==
  /\ "db" \in env.faults
  /\ db = "up" /\ \A p \in Callers : ~Listing(p)
  /\ db' = "down"
  /\ job' = [p \in Callers |-> Hindered(p)]
  /\ UNCHANGED <<ve, rootpw, mdf, points, clock, copies, auth, rough>>

DbUp ==
  /\ db = "down" /\ ve = "running"
  /\ db' = "up"
  /\ UNCHANGED <<ve, rootpw, mdf, points, clock, copies, auth, rough, job>>

(* The container stops, and is started again.                              *)
Stop ==
  /\ "stop" \in env.faults
  /\ ve = "running"
  /\ ve' = "stopped" /\ db' = "down"
  /\ rough' = (rough \/ \E p \in Callers : Between(p))
  /\ job' = [p \in Callers |-> Cut(p)]
  /\ UNCHANGED <<rootpw, mdf, points, clock, copies, auth>>

Start ==
  /\ ve = "stopped"
  /\ ve' = "running" /\ db' = "up"
  /\ UNCHANGED <<rootpw, mdf, points, clock, copies, auth, rough, job>>

Kill(p) ==
  /\ "kill" \in env.faults
  /\ job[p].cmd # "none"
  /\ Leave(p)
  /\ rough' = (rough \/ Between(p))
  /\ UNCHANGED <<inside, copies, auth>>

(* An operator moves the archive to where restore looks for it.            *)
ByHand ==
  /\ "hand" \in env.faults
  /\ arch # Nothing
  /\ from' = arch /\ arch' = Nothing
  /\ UNCHANGED <<inside, mirror, auth, rough, job>>

(* add-dyndns of a name like that of the container that is gone.           *)
Record ==
  /\ "record" \in env.faults
  /\ ve = "gone" /\ ~auth
  /\ auth' = TRUE
  /\ UNCHANGED <<inside, copies, rough, job>>

(* The bound is reached and nothing runs.                                  *)
BoundReached ==
  /\ clock = MaxPoints /\ Active = {}
  /\ UNCHANGED <<inside, copies, auth, rough, job>>

-----------------------------------------------------------------------------
Init ==
  /\ env \in Envs
  /\ ve = "running" /\ db = "up"
  /\ rootpw = None /\ mdf = None
  /\ points = Nothing /\ clock = 0
  /\ arch = Nothing /\ mirror = Nothing /\ from = Nothing
  /\ auth = FALSE /\ rough = FALSE
  /\ job = [p \in Callers |-> NoJob]

Step(p) ==
  \/ \E cmd \in Cmds, clean \in BOOLEAN, pw \in Passwords :
       Command(p, cmd, clean, pw)
  \/ Look(p) \/ Reach(p) \/ Unreached(p)
  \/ Check(p) \/ Old(p) \/ Mkdir(p) \/ Show(p) \/ Clean(p)
  \/ \E d \in Dbs : Dump(p, d)
  \/ Archive(p) \/ ArchiveRead(p) \/ RsyncList(p) \/ RsyncCopy(p)
  \/ Secure(p) \/ SecureFile(p) \/ SecureSql(p)
  \/ Reset(p) \/ ResetSql(p) \/ ResetFile(p) \/ ResetReboot(p)
  \/ Remove(p) \/ Restore(p)
  \/ Kill(p)

Next ==
  /\ \/ \E p \in Callers : Step(p)
     \/ DbDown \/ DbUp \/ Stop \/ Start \/ ByHand \/ Record \/ BoundReached
  /\ UNCHANGED env

Spec == Init /\ [][Next]_vars

-----------------------------------------------------------------------------
(* The variables keep their types: a directory of dumps is made at a time  *)
(* that has passed, and the copies hold what was once in one.              *)
TypeOK ==
  /\ ve \in {"gone", "stopped", "running"}
  /\ db \in {"up", "down", "safe"} /\ (db # "down" => ve = "running")
  /\ rootpw \in Passwords \cup {None} /\ mdf \in Passwords \cup {None}
  /\ clock \in 0 .. MaxPoints
  /\ \A dumps \in {points, arch, mirror, from} :
       /\ DOMAIN dumps \subseteq 1 .. clock
       /\ \A t \in DOMAIN dumps : dumps[t] \subseteq Dbs
  /\ auth \in BOOLEAN /\ rough \in BOOLEAN
  /\ \A p \in Callers :
       /\ job[p].cmd \in Cmds \cup {"none"}
       /\ job[p].point \in 0 .. clock /\ job[p].began \in 0 .. clock
       /\ job[p].todo \subseteq Dbs /\ job[p].old \subseteq 1 .. clock
       /\ DOMAIN job[p].list \cup DOMAIN job[p].had \subseteq 1 .. clock

(* Passwords are set while nothing else runs.  Otherwise a dump may find a *)
(* password in the file that the database does not have yet, or no longer, *)
(* list no databases, and take that for a success.  Nor does the model say *)
(* more of it: a dump has looked for the file once, when it began, and     *)
(* Connects looks each time, which is the same where nobody writes it.     *)
Setting == {"secure-mariadb", "reset-db-root-passwd"}
Undisturbed == env.together = 1 \/ env.cmds \cap Setting = {}

(* A container that has dumps of all its databases keeps such dumps as     *)
(* long as it exists: backup-db removes the older ones only after newer    *)
(* ones are complete, also when several of them run at once.               *)
DumpKept ==
  [][Undisturbed /\ Complete(points) /\ ve # "gone" /\ ve' # "gone" =>
       Complete(points')]_vars

(* One command at a time, in a container that is not removed: the archive  *)
(* never loses dumps of all databases once it has them, unless an operator *)
(* moves it away, and the mirror has such dumps after rsync if the         *)
(* container has; what an interrupted dump or rsync leaves does not change *)
(* that.                                                                   *)
CopiesKept ==
  [][env.together = 1 /\ "remove" \notin env.cmds =>
       /\ Complete(arch) => Complete(arch') \/ (arch' = Nothing /\ from' = arch)
       /\ (\E p \in Callers : Copying(p)) /\ mirror' # mirror
            /\ Complete(points) => Complete(mirror')]_vars

(* Types, and complete dumps, in the container and in their copies, are    *)
(* not lost.                                                               *)
BackupsKept == []TypeOK /\ DumpKept /\ CopiesKept

(* A backup whose container and database ran throughout, and whose dumps   *)
(* did not fail, ends with dumps of all databases in the archive that are  *)
(* newer than its beginning, unless another backup-db removes a directory  *)
(* that 7z has listed and not read yet.  The password is in the way only   *)
(* after it was being set while the database stopped, and no more after a  *)
(* reset.                                                                  *)
BackupDelivers ==
  [][\A p \in Callers :
       Undisturbed /\ job[p].pc \in {"archive", "read"} /\ job'[p] = NoJob
         /\ job[p].smooth /\ "kill" \notin env.faults
         /\ DOMAIN job[p].list \subseteq DOMAIN points =>
         \E t \in DOMAIN arch' : t > job[p].began /\ arch'[t] = Dbs]_vars

(* "Attempt to restore all user-data, and create a new container operating *)
(* system": after restore of a container that is gone, whose archive has   *)
(* dumps of all databases, these are in the container again.               *)
RestoreRestores ==
  [][\A p \in Callers :
       At(p, "restore") /\ job'[p] = NoJob /\ "kill" \notin env.faults
         /\ ve = "gone" /\ Complete(arch) =>
         ve' = "running" /\ Complete(points')]_vars
=============================================================================
