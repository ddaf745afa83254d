-------------------------- MODULE ContainerNumbers --------------------------
(***************************************************************************)
(* The registry of one host: the directories under $SRV, the counter file  *)
(* /var/srvctl-host/counter, and the commands that number a container:     *)
(* add, regenerate and remove, with the import of a directory by hand.     *)
(* A caller is one invocation of srvctl; several may run at once, the code *)
(* takes no lock, and each shell command that touches a shared file is a   *)
(* step of its own.                                                        *)
(***************************************************************************)
EXTENDS Naturals, FiniteSets

CONSTANTS
  Names,      \* container names, as directories of $SRV
  Args,       \* what may be typed after "add": full names and short ones
  Expand,     \* Expand[a]: the full name of argument a ("$C.$SDN" if short)
  Callers,    \* the users who run commands
  Envs        \* the circumstances to look at, see Env

(* Circumstances: the callers that come through srvctl-sudo.sh, the types  *)
(* of containers and the arguments in use, a bound beyond which nothing is *)
(* added, how many commands run at a time, whether one may be killed or    *)
(* fail to copy a rootfs, and whether root may drop a directory into $SRV. *)
Env == [sudoers : SUBSET Callers, ctypes : SUBSET {"fedora", "apache"},
        args : SUBSET Args, max : Nat, together : Nat \ {0},
        mayFail : BOOLEAN, mayImport : BOOLEAN]

ASSUME ConstantsAssumption ==
  /\ Names # {} /\ IsFiniteSet(Callers)
  /\ Expand \in [Args -> Names]
  /\ Envs \subseteq Env

VARIABLES
  env,      \* the circumstances, which do not change
  ve,       \* ve[c]: the directory $SRV/c
  counter,  \* the number in the counter file, 0 when there is no file
  job       \* job[p]: the command caller p is running

vars == <<env, ve, counter, job>>

(* A number starts at 1 and an octet at 1, so 0 stands for a missing file. *)
NoNumber == 0
NoIp     == <<0, 0>>

(* The two last octets of the address of container number n.               *)
ToIp(n) == <<1 + (n \div 250), 1 + (n % 250)>>

NoVe == [dir |-> FALSE, users |-> {}, ctype |-> "none", hostname |-> FALSE,
         num |-> NoNumber, ip |-> NoIp, config |-> FALSE]

Idle == [cmd |-> "none", pc |-> "idle", c |-> CHOOSE c \in Names : TRUE,
         ctype |-> "none", n |-> 0, todo |-> {}, all |-> FALSE]

Dirs    == {c \in Names : ve[c].dir}
Active  == {p \in Callers : job[p].pc # "idle"}
isSUDO(p) == p \in env.sudoers

(* lxc_ls: lxc-ls lists the directories with a file "config"; a caller     *)
(* that came through sudo sees those that name it in settings/users.       *)
lxc_ls(p) == {c \in Dirs : ve[c].config /\ (isSUDO(p) => p \in ve[c].users)}

Step(p, to) == job' = [job EXCEPT ![p].pc = to]
Return(p)   == job' = [job EXCEPT ![p] = Idle]

CanStart(p) ==
  /\ job[p].pc = "idle"
  /\ Cardinality(Active) < env.together

(* The bound: a directory that wants a number is made below it only.       *)
Room == counter <= env.max /\ \A c \in Names : ve[c].num <= env.max

(* Mutant of AddCheck: the directory is not looked up.                     *)
AddCheckUnlooked(p, a, t) ==
  /\ CanStart(p) /\ Room
  /\ job' = [job EXCEPT ![p] = [Idle EXCEPT !.cmd = "add", !.pc = "max",
                                            !.c = Expand[a], !.ctype = t]]
  /\ UNCHANGED <<ve, counter>>

-----------------------------------------------------------------------------
(* add, up to the numbering.  The directory is looked up by the argument   *)
(* as it was typed; the argument is made a full name only afterwards.      *)
AddCheck(p, a, t) ==
  /\ CanStart(p) /\ Room
  /\ a \notin Dirs
  /\ job' = [job EXCEPT ![p] = [Idle EXCEPT !.cmd = "add", !.pc = "max",
                                            !.c = Expand[a], !.ctype = t]]
  /\ UNCHANGED <<ve, counter>>

(* regenerate is for root; "all" rewrites every config.                    *)
RegenerateStart(p, all) ==
  /\ CanStart(p) /\ ~isSUDO(p)
  /\ job' = [job EXCEPT ![p] = [Idle EXCEPT !.cmd = "regenerate",
                                            !.pc = "max", !.all = all]]
  /\ UNCHANGED <<ve, counter>>

(* regenerate_counter, the scan: one more than the highest number seen.    *)
ScanNumbers(p) ==
  LET seen == {ve[c].num : c \in lxc_ls(p)} IN
  /\ job[p].pc = "max"
  /\ \E m \in {0} \cup seen :
       /\ \A k \in seen : k <= m
       /\ job' = [job EXCEPT ![p] = [job[p] EXCEPT !.n = m + 1, !.pc = "reset"]]
  /\ UNCHANGED <<ve, counter>>

(* regenerate_counter, the file: corrected if there is one.                *)
ResetCounter(p) ==
  /\ job[p].pc = "reset"
  /\ counter' = IF counter = 0 THEN 0 ELSE job[p].n
  /\ job' = [job EXCEPT ![p] =
              [job[p] EXCEPT !.pc   = IF job[p].cmd = "add" THEN "read" ELSE "scan",
                             !.todo = IF job[p].cmd = "add" THEN {} ELSE Dirs]]
  /\ UNCHANGED ve

(* counter=$(($(cat counter)+1)); a missing file reads as nothing, so 1.   *)
ReadCounter(p) ==
  /\ job[p].pc = "read"
  /\ job' = [job EXCEPT ![p] = [job[p] EXCEPT !.n = counter + 1, !.pc = "write"]]
  /\ UNCHANGED <<ve, counter>>

(* Mutant of WriteCounter: the increased counter is not written back.      *)
WriteCounterLost(p) ==
  /\ job[p].pc = "write"
  /\ Step(p, IF job[p].cmd = "add" THEN "mkdir" ELSE "number")
  /\ UNCHANGED <<ve, counter>>

WriteCounter(p) ==
  /\ job[p].pc = "write"
  /\ counter' = job[p].n
  /\ Step(p, IF job[p].cmd = "add" THEN "mkdir" ELSE "number")
  /\ UNCHANGED ve

(* mkdir -p, then settings/users and ctype are written over.               *)
MakeDir(p) ==
  /\ job[p].pc = "mkdir"
  /\ ve' = [ve EXCEPT ![job[p].c] =
             [ve[job[p].c] EXCEPT !.dir = TRUE, !.users = {p}, !.ctype = job[p].ctype]]
  /\ Step(p, "rootfs")
  /\ UNCHANGED counter

(* The rootfs of an OS container is a copy with a hostname of its own, and *)
(* cp needs the directory; an apache container has no /etc/hostname, and   *)
(* mkdir -p makes its directory again if that is gone.                     *)
MakeRootfs(p) ==
  LET c == job[p].c  os == job[p].ctype # "apache" IN
  /\ job[p].pc = "rootfs"
  /\ os => ve[c].dir
  /\ ve' = [ve EXCEPT ![c] = [ve[c] EXCEPT !.dir = TRUE, !.hostname = @ \/ os]]
  /\ Step(p, "number")
  /\ UNCHANGED counter

(* exit 31: cp failed, with or without /etc/hostname among what it copied. *)
RootfsFails(p) ==
  LET c == job[p].c IN
  /\ job[p].pc = "rootfs" /\ job[p].ctype # "apache"
  /\ env.mayFail \/ ~ve[c].dir
  /\ \E copied \in BOOLEAN :
       ve' = [ve EXCEPT ![c].hostname = @ \/ (copied /\ ve[c].dir)]
  /\ Return(p)
  /\ UNCHANGED counter

(* echo $counter > config.counter                                          *)
WriteNumber(p) ==
  /\ job[p].pc = "number"
  /\ ve' = [ve EXCEPT ![job[p].c].num = IF ve[job[p].c].dir THEN job[p].n
                                                            ELSE NoNumber]
  /\ Step(p, "config")
  /\ UNCHANGED counter

(* generate_lxc_config: config.ipv4 from config.counter, and "config" for  *)
(* an OS container; an apache container gets an apache.config instead.     *)
generate_lxc_config(v) ==
  [v EXCEPT !.ctype  = IF @ = "none" THEN "fedora" ELSE @,
            !.ip     = ToIp(v.num),
            !.config = @ \/ v.ctype # "apache"]

WriteConfig(p) ==
  LET c == job[p].c IN
  /\ job[p].pc = "config"
  /\ ve' = [ve EXCEPT ![c] = IF @.dir THEN generate_lxc_config(@) ELSE @]
  /\ IF job[p].cmd = "add" THEN Return(p) ELSE Step(p, "scan")
  /\ UNCHANGED counter

(* Mutant of ScanDir: a directory is numbered whether it has a number or   *)
(* not.                                                                    *)
ScanDirAgain(p, c) ==
  /\ job[p].pc = "scan" /\ c \in job[p].todo
  /\ job' = [job EXCEPT ![p] =
              [job[p] EXCEPT !.todo = @ \ {c}, !.c = c,
                             !.pc = IF ve[c].hostname THEN "read" ELSE "scan"]]
  /\ UNCHANGED <<ve, counter>>

(* regenerate_config_files: one directory of the listing made at the start *)
(* of the loop, in any order of names.                                     *)
ScanDir(p, c) ==
  /\ job[p].pc = "scan" /\ c \in job[p].todo
  /\ job' = [job EXCEPT ![p] =
              [job[p] EXCEPT !.todo = @ \ {c}, !.c = c,
                             !.pc = IF ~ve[c].hostname THEN "scan"
                                    ELSE IF ve[c].num = NoNumber THEN "read"
                                    ELSE IF ve[c].ip = NoIp \/ ~ve[c].config \/ job[p].all
                                      THEN "config" ELSE "scan"]]
  /\ UNCHANGED <<ve, counter>>

RegenerateDone(p) ==
  /\ job[p].pc = "scan" /\ job[p].todo = {}
  /\ Return(p)
  /\ UNCHANGED <<ve, counter>>

(* remove: authorize wants a file "config", and a sudo user in the list.   *)
Remove(p, c) ==
  /\ CanStart(p)
  /\ c \in lxc_ls(p)
  /\ ve' = [ve EXCEPT ![c] = NoVe]
  /\ UNCHANGED <<counter, job>>

(* A directory brought from elsewhere without srvctl's own files.          *)
Import(p, c) ==
  /\ env.mayImport /\ ~isSUDO(p)
  /\ CanStart(p) /\ Room
  /\ c \notin Dirs
  /\ ve' = [ve EXCEPT ![c] = [NoVe EXCEPT !.dir = TRUE, !.users = {p},
                                          !.hostname = TRUE]]
  /\ UNCHANGED <<counter, job>>

(* The command is interrupted: what it wrote so far stays.                 *)
Kill(p) ==
  /\ env.mayFail
  /\ job[p].pc # "idle"
  /\ Return(p)
  /\ UNCHANGED <<ve, counter>>

-----------------------------------------------------------------------------
Init ==
  /\ env \in Envs
  /\ ve = [c \in Names |-> NoVe]
  /\ counter = 0
  /\ job = [p \in Callers |-> Idle]

Add(p) ==
  \/ \E a \in env.args, t \in env.ctypes : AddCheck(p, a, t)
  \/ MakeDir(p) \/ MakeRootfs(p) \/ RootfsFails(p)

Regenerate(p) ==
  \/ \E all \in BOOLEAN : RegenerateStart(p, all)
  \/ \E c \in Names : ScanDir(p, c)
  \/ RegenerateDone(p)

Numbering(p) ==
  \/ ScanNumbers(p) \/ ResetCounter(p)
  \/ ReadCounter(p) \/ WriteCounter(p)
  \/ WriteNumber(p) \/ WriteConfig(p)

Next ==
  /\ \E p \in Callers :
       \/ Add(p) \/ Regenerate(p) \/ Numbering(p)
       \/ \E c \in Names : Remove(p, c) \/ Import(p, c)
       \/ Kill(p)
  /\ UNCHANGED env

Spec == Init /\ [][Next]_vars

-----------------------------------------------------------------------------
Ve  == [dir : BOOLEAN, users : SUBSET Callers,
        ctype : {"none", "fedora", "apache"}, hostname : BOOLEAN,
        num : Nat, ip : Nat \X Nat, config : BOOLEAN]

Job == [cmd : {"none", "add", "regenerate"},
        pc : {"idle", "max", "reset", "read", "write", "mkdir", "rootfs",
              "number", "config", "scan"},
        c : Names, ctype : {"none", "fedora", "apache"}, n : Nat,
        todo : SUBSET Names, all : BOOLEAN]

(* The type of the registry, the counter file and the running commands.    *)
TypeOK ==
  /\ env \in Env
  /\ ve \in [Names -> Ve]
  /\ counter \in Nat
  /\ job \in [Callers -> Job]

Numbered == {c \in Dirs : ve[c].num # NoNumber}

(* No two containers of the host have the same number: it makes the MAC,   *)
(* the IPv4 address, the IPv6 address and the name of the interface.       *)
DistinctNumbers ==
  \A c, d \in Numbered : ve[c].num = ve[d].num => c = d

(* No two configured containers have the same address.                     *)
DistinctAddresses ==
  \A c, d \in Dirs :
    ve[c].config /\ ve[d].config /\ ve[c].ip = ve[d].ip => c = d

(* One command at a time, and names are typed in full.                     *)
OneByOne == env.together = 1 /\ \A a \in env.args : Expand[a] = a

(* A container keeps its number, hence its address, for as long as it      *)
(* exists: neither a command of another user, nor regenerate, nor a        *)
(* command cut short renumbers it, when commands come one by one.          *)
NumberKept ==
  [][OneByOne => \A c \in Names :
       ve[c].config /\ ve'[c].dir => ve'[c].num = ve[c].num]_vars

(* A container keeps its users for as long as it exists: adding a name     *)
(* that is taken ends at "already exists!" and changes nothing, when       *)
(* commands come one by one.                                               *)
UsersKept ==
  [][OneByOne => \A c \in Names :
       ve[c].dir /\ ve'[c].dir => ve[c].users \subseteq ve'[c].users]_vars

-----------------------------------------------------------------------------
(* The use of a host under which the numbering is right: one command at a  *)
(* time, to its end, by root, and OS containers only.                      *)
Disciplined ==
  /\ env.together = 1
  /\ env.sudoers = {}
  /\ "apache" \notin env.ctypes
  /\ ~env.mayFail

(* The counter gives every container of a host a number of its own, and    *)
(* with it an address of its own, when the host is used like that.         *)
NumbersDistinct ==
  Disciplined => DistinctNumbers /\ DistinctAddresses

(* What such commands keep true: the conjuncts of the invariant that makes *)
(* DistinctNumbers inductive.                                              *)

(* At most one command runs.                                               *)
OneCommand == \A p, q \in Active : p = q

(* Nothing is left of a directory removed.                                 *)
NothingLeft ==
  \A c \in Names : ~ve[c].dir => ve[c].num = NoNumber /\ ~ve[c].config

(* Only OS containers.                                                     *)
OsOnly ==
  /\ \A c \in Names : ve[c].ctype # "apache"
  /\ NothingLeft
  /\ \A p \in Callers : job[p].ctype # "apache"

(* A numbered directory is seen by lxc_ls, or is about to be configured.   *)
NumberedSeen ==
  \A c \in Numbered :
    ve[c].config \/ \E p \in Callers : job[p].pc = "config" /\ job[p].c = c

(* The counter file is never behind a number in use.                       *)
CounterAhead == \A c \in Names : ve[c].num <= counter

(* The number a command is about to use is free, at each of its steps.     *)
NumberFree ==
  \A p \in Callers :
    /\ job[p].pc = "reset" => \A c \in Names : ve[c].num < job[p].n
    /\ job[p].pc = "write" => job[p].n = counter + 1
    /\ job[p].pc \in {"mkdir", "rootfs", "number"} =>
         job[p].n = counter /\ \A c \in Names : ve[c].num < counter

(* A configured directory has a number, and the address of its number but  *)
(* for the moment between a new number and its configuration.              *)
AddressSettled ==
  /\ \A c \in Dirs :
       ve[c].config =>
         /\ ve[c].num # NoNumber
         /\ \/ ve[c].ip = ToIp(ve[c].num)
            \/ \E p \in Callers : job[p].pc = "config" /\ job[p].c = c
  /\ \A p \in Callers :
       job[p].pc = "config" /\ ve[job[p].c].dir
         => ve[job[p].c].num # NoNumber

OrderlyNumbers ==
  /\ OneCommand /\ OsOnly /\ NumberedSeen
  /\ CounterAhead /\ NumberFree /\ AddressSettled
  /\ DistinctNumbers /\ DistinctAddresses

(* The numbering invariant of a disciplined use.                           *)
NumberingInv == Disciplined => OrderlyNumbers

(* What commands that come one by one keep true, whoever types them,       *)
(* whatever they make, and wherever they are killed: the conjuncts of the  *)
(* invariant behind NumberKept and UsersKept.                              *)

ConfiguredNumbered == \A c \in Names : ve[c].config => ve[c].num # NoNumber

(* add is about a directory that was not there when it began, and not      *)
(* configured before it ends.                                              *)
AddMakesNew ==
  \A p \in Callers :
    job[p].cmd = "add" =>
      /\ job[p].pc \in {"max", "reset", "read", "write", "mkdir"}
           => ~ve[job[p].c].dir
      /\ job[p].pc \in {"rootfs", "number"} => ~ve[job[p].c].config

(* regenerate numbers a directory that has no number.                      *)
RegenerateNumbers ==
  \A p \in Callers :
    job[p].cmd = "regenerate" /\ job[p].pc \in {"read", "write", "number"}
      => ve[job[p].c].num = NoNumber

(* There is a number when one is written, and one was written before it is *)
(* used; directories are made by add, and looked through by regenerate.    *)
NumberInHand ==
  \A p \in Callers :
    /\ job[p].pc \in {"write", "mkdir", "rootfs", "number"} => job[p].n > 0
    /\ job[p].pc = "config" /\ ve[job[p].c].dir
         => ve[job[p].c].num # NoNumber
    /\ job[p].pc \in {"mkdir", "rootfs"} => job[p].cmd = "add"
    /\ job[p].pc = "scan" => job[p].cmd # "add"
    /\ job[p].pc # "idle" => job[p].cmd # "none"

KeepsNumbers ==
  /\ OneCommand /\ NothingLeft /\ ConfiguredNumbered
  /\ AddMakesNew /\ RegenerateNumbers /\ NumberInHand

(* The invariant of commands that come one by one.                         *)
KeepingInv == OneByOne => KeepsNumbers
=============================================================================
