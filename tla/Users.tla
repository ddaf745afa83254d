------------------------------- MODULE Users -------------------------------
(***************************************************************************)
(* The users of the hosts of a cluster: their accounts, their passwords    *)
(* and their access to containers.  Every host keeps a store               *)
(* (/var/srvctl-users), which the hosts get from the one that holds the    *)
(* root certificate, and every user has a password in a file of his home.  *)
(* A command goes through phases, a phase through users and containers,    *)
(* and for each of them through steps.                                     *)
(***************************************************************************)
EXTENDS Naturals, Sequences, FiniteSets

CONSTANTS
  Hosts, Root,   \* the hosts, and ROOTCA_HOST
  Users,
  Containers, On,\* containers, and the host each of them is on
  Passwords, None,
  Callers,       \* invocations of srvctl
  Envs           \* the circumstances to look at, see Env

Commands == {"add-user", "new-password", "update-password", "regenerate"}

(* Users may edit ~/.password and choose one that is in use, root may edit *)
(* settings/users, and that while commands run; a command is interrupted,  *)
(* a host is not reached.                                                  *)
Events == {"edit", "same", "list", "unlist", "meanwhile", "kill", "net"}

(* Circumstances: which users there may be, what may happen, and how many  *)
(* commands run at a time.                                                 *)
Env == [users : SUBSET Users, commands : SUBSET Commands,
        events : SUBSET Events, together : Nat \ {0}]

ASSUME ConstantsAssumption ==
  /\ IsFiniteSet(Hosts) /\ Root \in Hosts
  /\ On \in [Containers -> Hosts]
  /\ None \notin Passwords
  /\ IsFiniteSet(Callers)
  /\ Envs \subseteq Env

VARIABLES
  env,    \* the circumstances, which do not change
  home,   \* home[h][u]: the account of u on h, with ~/.password and its hash
  store,  \* store[h][u]: the directory /var/srvctl-users/u of h
  login,  \* login[h][u]: the password that lets u in
  listed, \* listed[c]: the users in settings/users of c
  access, \* access[c]: the users whose keys let them in as root of c
  shared, \* shared[c][u]: the hash that c may check the password of u with
  job     \* job[p]: the command that caller p is running

vars == <<env, home, store, login, listed, access, shared, job>>

Word == Passwords \cup {None}

NoHome  == [there |-> FALSE, password |-> None, sha |-> None]
NoStore == [there |-> FALSE, passcode |-> None, password |-> None,
            sha |-> None, mark |-> None, keys |-> FALSE]
NoJob   == [cmd |-> "none", h |-> Root, phases |-> <<>>, containers |-> {},
            users |-> {}, c |-> {}, u |-> {}, steps |-> <<>>, cur |-> None,
            password |-> None]

(* Mutant: every host makes its own passcodes and keys.                    *)
AuthorityAny(h) == h \in Hosts

Authority(h) == h = Root

Active == {p \in Callers : job[p].cmd # "none"}
Here(h) == {c \in Containers : On[c] = h}
Homes(h) == {u \in Users : home[h][u].there}

(* get_password: random, and never one that is already in use, in a file   *)
(* or by a command.                                                        *)
Unused == {w \in Passwords :
  /\ \A h \in Hosts, u \in Users :
       w \notin {home[h][u].password, home[h][u].sha, login[h][u],
                store[h][u].passcode, store[h][u].password,
                store[h][u].sha, store[h][u].mark}
  /\ \A p \in Callers : w \notin {job[p].cur, job[p].password}}

-----------------------------------------------------------------------------
(* The commands, and the steps of a phase for one user.                    *)
Phases(cmd) ==
  CASE cmd = "add-user"        -> <<"add">>
    [] cmd = "new-password"    -> <<"new">>
    [] cmd = "update-password" -> <<"hashes">>
    [] cmd = "regenerate"      -> <<"sync", "configs", "hashes", "structure",
                                    "share", "sync">>

StepsFor(phase) ==
  CASE phase = "add"       -> <<"add", "list">>
    [] phase = "new"       -> <<"choose", "collect">>
    [] phase = "configs"   -> <<"config">>
    [] phase = "hashes"    -> <<"collect">>
    [] phase = "structure" -> <<"add", "append">>

(* A command is typed; add-user may name a container of the host.          *)
Command(p, cmd, h, u, C) ==
  /\ cmd \in env.commands
  /\ job[p].cmd = "none"
  /\ Cardinality(Active) < env.together
  /\ cmd \in {"new-password", "update-password"} => home[h][u].there
  /\ C # {} => cmd = "add-user"
  /\ job' = [job EXCEPT ![p] =
       [NoJob EXCEPT !.cmd = cmd, !.h = h, !.phases = Phases(cmd), !.c = C,
                     !.users = IF cmd = "regenerate" THEN {} ELSE {u},
                     !.steps = IF cmd = "regenerate" THEN <<"sync">> ELSE <<>>]]
  /\ UNCHANGED <<home, store, login, listed, access, shared>>

At(p, step) == job[p].steps # <<>> /\ Head(job[p].steps) = step
Done(p)     == job' = [job EXCEPT ![p].steps = Tail(@)]

NextUser(p, u) ==
  /\ job[p].steps = <<>> /\ u \in job[p].users
  /\ job' = [job EXCEPT ![p] =
              [job[p] EXCEPT !.users = @ \ {u}, !.u = {u},
                             !.steps = StepsFor(Head(job[p].phases))]]
  /\ UNCHANGED <<home, store, login, listed, access, shared>>

(* regenerate_users_structure and regenerate_var_ve: a container.          *)
NextContainer(p, c) ==
  /\ job[p].steps = <<>> /\ job[p].users = {} /\ c \in job[p].containers
  /\ job' = [job EXCEPT ![p] =
              [job[p] EXCEPT !.containers = @ \ {c}, !.c = {c},
                             !.steps = IF Head(job[p].phases) = "share"
                                       THEN <<"share">> ELSE <<"reset">>]]
  /\ UNCHANGED <<home, store, login, listed, access, shared>>

NextPhase(p) ==
  LET j == job[p]
      phase == Head(Tail(j.phases))
  IN
  /\ j.cmd # "none" /\ j.steps = <<>> /\ j.users = {} /\ j.containers = {}
  /\ job' = [job EXCEPT ![p] =
       IF Len(j.phases) = 1 THEN NoJob
       ELSE [j EXCEPT !.phases = Tail(@),
               !.steps = IF phase = "sync" THEN <<"sync">> ELSE <<>>,
               !.users = IF phase \in {"configs", "hashes"} THEN Homes(j.h)
                         ELSE {},
               !.containers = IF phase \in {"structure", "share"} THEN Here(j.h)
                              ELSE {}]]
  /\ UNCHANGED <<home, store, login, listed, access, shared>>

-----------------------------------------------------------------------------
(* regenerate_users_sync, with the hosts that are reached.  What rsync     *)
(* finds in the store of Root overwrites the store of the other host; only *)
(* $HOSTNAME.password is each host's own.                                  *)
Copied(mine, his) ==
  IF ~his.there THEN mine
  ELSE [there    |-> TRUE,
        passcode |-> IF his.passcode # None THEN his.passcode ELSE mine.passcode,
        password |-> IF his.password # None THEN his.password ELSE mine.password,
        sha      |-> IF his.sha # None THEN his.sha ELSE mine.sha,
        keys     |-> his.keys \/ mine.keys,
        mark     |-> mine.mark]

Sync(p) ==
  LET h == job[p].h
      targets == IF h = Root THEN Hosts \ {Root} ELSE {h}
  IN
  /\ At(p, "sync")
  /\ \E reached \in (IF "net" \in env.events THEN SUBSET targets ELSE {targets}) :
       store' = [g \in Hosts |-> [u \in Users |->
                  IF g \in reached THEN Copied(store[g][u], store[Root][u])
                  ELSE store[g][u]]]
  /\ Done(p)
  /\ UNCHANGED <<home, login, listed, access, shared>>

(* generate_user_configs: Root puts the keys of the user together.         *)
Config(p) ==
  LET h == job[p].h IN
  /\ At(p, "config")
  /\ \E u \in job[p].u :
       store' = IF Authority(h) THEN [store EXCEPT ![h][u] =
                                         [store[h][u] EXCEPT !.there = TRUE, !.keys = TRUE]]
                ELSE store
  /\ Done(p)
  /\ UNCHANGED <<home, login, listed, access, shared>>

(* add_user, which leaves alone who has an account, a home and a store.    *)
Add(p) ==
  LET h == job[p].h IN
  /\ At(p, "add")
  /\ \E u \in job[p].u :
       /\ home' = [home EXCEPT ![h][u].there = TRUE]
       /\ job' = [job EXCEPT ![p].steps =
            IF home[h][u].there /\ store[h][u].there THEN Tail(@)
            ELSE <<"collect">> \o Tail(@)]
  /\ UNCHANGED <<store, login, listed, access, shared>>

(* add-user: the container gets the user, and the structure is renewed.    *)
List(p) ==
  LET j == job[p] IN
  /\ At(p, "list")
  /\ listed' = [c \in Containers |-> IF c \in j.c THEN listed[c] \cup j.u
                                     ELSE listed[c]]
  /\ job' = [job EXCEPT ![p] =
              [job[p] EXCEPT !.steps = <<>>,
                             !.phases = IF j.c = {} THEN @ ELSE <<"structure">>,
                             !.containers = IF j.c = {} THEN {} ELSE Here(j.h)]]
  /\ UNCHANGED <<home, store, login, access, shared>>

(* new-password: ~/.password is replaced, then update_password.            *)
Choose(p) ==
  /\ At(p, "choose")
  /\ \E u \in job[p].u, w \in Unused :
       home' = [home EXCEPT ![job[p].h][u].password = w]
  /\ Done(p)
  /\ UNCHANGED <<store, login, listed, access, shared>>

-----------------------------------------------------------------------------
(* update_password.  The files of the home and of the store are put        *)
(* together: a password in the home wins.                                  *)
Gathered(h, u, w) ==
  LET m == home[h][u]
      s == store[h][u]
      passcode == IF Authority(h) /\ s.passcode = None THEN w ELSE s.passcode
      kept == IF Authority(h) /\ s.password = None THEN passcode ELSE s.password
      password == IF m.password # None THEN m.password ELSE kept
  IN [home  |-> [m EXCEPT !.sha = IF @ # None THEN @ ELSE s.sha,
                          !.password = password],
      store |-> [s EXCEPT !.there = TRUE, !.passcode = passcode,
                          !.password = password,
                          !.sha = IF m.sha # None THEN m.sha ELSE @]]

(* Is a passcode needed, and is there one?                                 *)
NewPasscodes(h, u) ==
  IF Authority(h) /\ store[h][u].passcode = None THEN Unused ELSE {None}

(* Mutant: the password is marked as set before it is.                     *)
CollectMarkFirst(p) ==
  LET h == job[p].h IN
  /\ At(p, "collect")
  /\ \E u \in job[p].u : \E w \in NewPasscodes(h, u) :
       LET g   == Gathered(h, u, w)
           cur == IF g.store.mark # None THEN g.store.mark ELSE job[p].cur
           new == g.store.password # None /\ g.store.password # cur
       IN /\ home'  = [home EXCEPT ![h][u] = g.home]
          /\ store' = [store EXCEPT ![h][u] = g.store]
          /\ job' = [job EXCEPT ![p] =
                [job[p] EXCEPT !.password = g.store.password,
                               !.cur = IF g.store.password = None THEN @ ELSE cur,
                               !.steps = IF new
                                         THEN <<"mark", "passwd", "sha", "save">> \o Tail(@)
                                         ELSE Tail(@)]]
  /\ UNCHANGED <<login, listed, access, shared>>

(* current_password keeps the value it got for the user before if there is *)
(* no $HOSTNAME.password for this one.  Without a password nothing is set. *)
Collect(p) ==
  LET h == job[p].h IN
  /\ At(p, "collect")
  /\ \E u \in job[p].u : \E w \in NewPasscodes(h, u) :
       LET g   == Gathered(h, u, w)
           cur == IF g.store.mark # None THEN g.store.mark ELSE job[p].cur
           new == g.store.password # None /\ g.store.password # cur
       IN /\ home'  = [home EXCEPT ![h][u] = g.home]
          /\ store' = [store EXCEPT ![h][u] = g.store]
          /\ job' = [job EXCEPT ![p] =
                [job[p] EXCEPT !.password = g.store.password,
                               !.cur = IF g.store.password = None THEN @ ELSE cur,
                               !.steps = IF new
                                         THEN <<"passwd", "mark", "sha", "save">> \o Tail(@)
                                         ELSE Tail(@)]]
  /\ UNCHANGED <<login, listed, access, shared>>

Passwd(p) ==
  /\ At(p, "passwd")
  /\ \E u \in job[p].u : login' = [login EXCEPT ![job[p].h][u] = job[p].password]
  /\ Done(p)
  /\ UNCHANGED <<home, store, listed, access, shared>>

Mark(p) ==
  /\ At(p, "mark")
  /\ \E u \in job[p].u :
       store' = [store EXCEPT ![job[p].h][u].mark = job[p].password]
  /\ Done(p)
  /\ UNCHANGED <<home, login, listed, access, shared>>

(* The hash goes to the store, and from there to the home.                 *)
Sha(p) ==
  LET h == job[p].h IN
  /\ At(p, "sha")
  /\ \E u \in job[p].u :
       /\ store' = [store EXCEPT ![h][u].sha = job[p].password]
       /\ home'  = [home EXCEPT ![h][u].sha = job[p].password]
  /\ Done(p)
  /\ UNCHANGED <<login, listed, access, shared>>

Save(p) ==
  /\ At(p, "save")
  /\ \E u \in job[p].u :
       home' = [home EXCEPT ![job[p].h][u].password = job[p].password]
  /\ Done(p)
  /\ UNCHANGED <<store, login, listed, access, shared>>

-----------------------------------------------------------------------------
(* Mutant: keys are appended to those that are there.                      *)
ResetNot(p) ==
  /\ At(p, "reset")
  /\ \E c \in job[p].c :
       job' = [job EXCEPT ![p] = [job[p] EXCEPT !.steps = Tail(@), !.users = listed[c]]]
  /\ UNCHANGED <<home, store, login, listed, access, shared>>

(* regenerate_users_structure: root's keys only, and then those of the     *)
(* users that are listed at that moment.                                   *)
Reset(p) ==
  /\ At(p, "reset")
  /\ \E c \in job[p].c :
       /\ access' = [access EXCEPT ![c] = {}]
       /\ job' = [job EXCEPT ![p] = [job[p] EXCEPT !.steps = Tail(@), !.users = listed[c]]]
  /\ UNCHANGED <<home, store, login, listed, shared>>

AppendKeys(p) ==
  /\ At(p, "append")
  /\ \E c \in job[p].c, u \in job[p].u :
       access' = [access EXCEPT ![c] =
                    IF store[job[p].h][u].keys THEN @ \cup {u} ELSE @]
  /\ Done(p)
  /\ UNCHANGED <<home, store, login, listed, shared>>

(* regenerate_var_ve: the hashes of the listed users.                      *)
Share(p) ==
  /\ At(p, "share")
  /\ \E c \in job[p].c :
       shared' = [shared EXCEPT ![c] = [u \in Users |->
                    IF u \in listed[c] THEN store[job[p].h][u].sha ELSE None]]
  /\ Done(p)
  /\ UNCHANGED <<home, store, login, listed, access>>

-----------------------------------------------------------------------------
(* What people do to the files, and the end of a command that is killed.   *)
Edit(h, u, w) ==
  /\ "edit" \in env.events
  /\ Active = {} \/ "meanwhile" \in env.events
  /\ w \in Unused \/ "same" \in env.events
  /\ home[h][u].there
  /\ home' = [home EXCEPT ![h][u].password = w]
  /\ UNCHANGED <<store, login, listed, access, shared, job>>

Relist(c, u) ==
  /\ Active = {} \/ "meanwhile" \in env.events
  /\ \/ "list" \in env.events /\ listed' = [listed EXCEPT ![c] = @ \cup {u}]
     \/ "unlist" \in env.events /\ listed' = [listed EXCEPT ![c] = @ \ {u}]
  /\ UNCHANGED <<home, store, login, access, shared, job>>

Kill(p) ==
  /\ "kill" \in env.events
  /\ job[p].cmd # "none"
  /\ job' = [job EXCEPT ![p] = NoJob]
  /\ UNCHANGED <<home, store, login, listed, access, shared>>

Init ==
  /\ env    \in Envs
  /\ home   = [h \in Hosts |-> [u \in Users |-> NoHome]]
  /\ store  = [h \in Hosts |-> [u \in Users |-> NoStore]]
  /\ login  = [h \in Hosts |-> [u \in Users |-> None]]
  /\ listed = [c \in Containers |-> {}]
  /\ access = [c \in Containers |-> {}]
  /\ shared = [c \in Containers |-> [u \in Users |-> None]]
  /\ job    = [p \in Callers |-> NoJob]

Type(p) ==
  \E cmd \in Commands, h \in Hosts, u \in env.users :
    \E C \in {{}} \cup {{c} : c \in Here(h)} : Command(p, cmd, h, u, C)

Step(p) ==
  \/ \E u \in Users : NextUser(p, u)
  \/ \E c \in Containers : NextContainer(p, c)
  \/ NextPhase(p)
  \/ Sync(p) \/ Config(p) \/ Add(p) \/ List(p) \/ Choose(p)
  \/ Collect(p) \/ Passwd(p) \/ Mark(p) \/ Sha(p) \/ Save(p)
  \/ Reset(p) \/ AppendKeys(p) \/ Share(p)

People ==
  \/ \E h \in Hosts, u \in env.users, w \in Passwords : Edit(h, u, w)
  \/ \E c \in Containers, u \in env.users : Relist(c, u)

Next ==
  /\ (\E p \in Callers : Type(p) \/ Step(p) \/ Kill(p)) \/ People
  /\ UNCHANGED env

Spec == Init /\ [][Next]_vars

-----------------------------------------------------------------------------
(* The type of the files and of the passwords commands work with.          *)
TypeOK ==
  /\ env \in Envs
  /\ home \in [Hosts -> [Users ->
       [there : BOOLEAN, password : Word, sha : Word]]]
  /\ store \in [Hosts -> [Users ->
       [there : BOOLEAN, passcode : Word, password : Word, sha : Word,
        mark : Word, keys : BOOLEAN]]]
  /\ login \in [Hosts -> [Users -> Word]]
  /\ listed \in [Containers -> SUBSET Users]
  /\ access \in [Containers -> SUBSET Users]
  /\ shared \in [Containers -> [Users -> Word]]
  /\ \A p \in Callers : job[p].password \in Word /\ job[p].cur \in Word

Quiet  == Active = {}
Single == env.together = 1

(* Nobody chooses a password.                                              *)
Unchanged == env.commands \cap {"new-password"} = {} /\ "edit" \notin env.events

(* When no command runs, a user's login, the password that was marked as   *)
(* set, the password in the home and its hash go together.                 *)
LoginMatches ==
  Quiet /\ Single /\ env.events \cap {"kill", "edit"} = {} =>
    \A h \in Hosts, u \in Users :
      store[h][u].mark # None =>
        /\ login[h][u] = store[h][u].mark
        /\ home[h][u].password = login[h][u]
        /\ home[h][u].sha = login[h][u]

(* Commands may be killed anywhere: the next update of a password that     *)
(* comes to its end makes the login and the home agree again.              *)
Repaired ==
  [][\A p \in Callers :
       /\ Single /\ env.events \cap {"same", "meanwhile"} = {}
       /\ At(p, "collect") \/ At(p, "save")
       /\ job'[p].cmd # "none" /\ Len(job'[p].steps) < Len(job[p].steps)
       => \A u \in job[p].u :
            home'[job[p].h][u].password # None
              => login'[job[p].h][u] = home'[job[p].h][u].password]_vars

(* As long as nobody chooses a password, a user has the same one on every  *)
(* host that has set one, whatever order the hosts are visited in, which   *)
(* of them are reached and where commands are killed.                      *)
SamePassword ==
  Unchanged => \A g, h \in Hosts, u \in Users :
    login[g][u] # None /\ login[h][u] # None => login[g][u] = login[h][u]

(* After a regenerate that reached ROOTCA_HOST, exactly those may enter a  *)
(* container of the host who are listed and whose keys Root has collected, *)
(* and the container has the hash of the password they log in with.        *)
AccessListed ==
  [][\A p \in Callers :
       /\ Single /\ env.events \cap {"net", "kill", "same", "meanwhile"} = {}
       /\ job[p].cmd = "regenerate" /\ job'[p].cmd = "none"
       => \A c \in Here(job[p].h) :
            /\ access[c] = {u \in listed[c] : store[Root][u].keys}
            /\ \A u \in Users :
                 shared[c][u] = IF u \in listed[c] THEN login[job[p].h][u]
                                ELSE None]_vars

(* Types, logins that match, and one password for a user on all hosts.     *)
UsersInv == TypeOK /\ LoginMatches /\ SamePassword
=============================================================================
