------------------------------- MODULE Proxy -------------------------------
(***************************************************************************)
(* The reverse proxy.  Each host writes the pound services and the         *)
(* certificates of its containers to a directory named by the host,        *)
(* fetches the directories of its peers, writes the files that include     *)
(* them all, and restarts pound, which reads everything or does not start. *)
(* Certificates are obtained with letsencrypt, through pound itself, once  *)
(* a day.  Commands at one host may overlap, step by step; while they run  *)
(* no command runs at another host.                                        *)
(***************************************************************************)
EXTENDS Integers, FiniteSets

CONSTANTS
  Hosts, Names,
  Home,        \* Home[c]: the host of container c
  Callers, At, \* At[p]: the host where caller p types commands
  Margin,      \* days before its end that a certificate is renewed
  Life,        \* days that a new certificate is valid
  Envs         \* the circumstances to look at, see Env

Cmds == {"add", "remove", "settings", "regenerate", "import-crt", "diagnose"}

(* pound crashes; letsencrypt fails; the acme server does not run; the     *)
(* network between the hosts goes and comes.                               *)
Faults == {"crash", "le", "acme", "net"}

(* Circumstances: the callers, the commands at each host, which of them    *)
(* overlap, the names that resolve to their host and want a certificate,   *)
(* the faults, whether an operator tries regenerate again and again,       *)
(* whether every host regenerates every day, and a bound, the last day.    *)
Env == [callers : SUBSET Callers, cmds : [Hosts -> SUBSET Cmds],
        overlap : SUBSET Cmds, acme : SUBSET Names, faults : SUBSET Faults,
        again : BOOLEAN, daily : BOOLEAN, last : Nat \ {0}]

ASSUME ConstantsAssumption ==
  /\ Home \in [Names -> Hosts]
  /\ At \in [Callers -> Hosts] /\ IsFiniteSet(Callers)
  /\ Margin \in Nat \ {0} /\ Life \in Nat /\ Margin < Life
  /\ Envs \subseteq Env

VARIABLES
  env,    \* the circumstances, which do not change
  ve,     \* ve[c]: "gone", or whether pound is to serve or redirect it
  pem,    \* pem[c]: the container's cert/pound.pem
  le,     \* le[c]: the certificate kept by letsencrypt
  known,  \* known[h][d]: the names of host d in /etc/hosts of host h
  dir,    \* dir[h][d]: the directory /var/pound/d of host h
  main,   \* main[h]: the directories that the main files of h include
  pound,  \* pound[h]: whether it runs, and what it has read
  stamp,  \* stamp[h]: the day in /var/srvctl-host/letsencrypt
  done,   \* done[h]: a regenerate began and ended today (if env.daily)
  day,
  cut,    \* the hosts do not reach each other
  job     \* job[p]: the command that caller p is running

vars == <<env, ve, pem, le, known, dir, main, pound, stamp, done, day, cut,
          job>>
certs == <<pem, le, stamp>>
files == <<known, dir, main>>
times == <<done, day, cut>>

(* A certificate is the day it ends.  Broken: only the key is written.     *)
NoCert == 0
Broken == -1

NoService == [kind |-> "none", cert |-> NoCert]
Empty     == [top |-> FALSE, inc |-> {}, has |-> [c \in Names |-> NoService]]
Down      == [up |-> FALSE, reads |-> [c \in Names |-> NoService]]
NoJob     == [cmd |-> "none", pc |-> "none", c |-> CHOOSE c \in Names : TRUE,
              all |-> FALSE, todo |-> {}, today |-> 0]

Active == {p \in Callers : job[p].cmd # "none"}
Own(h) == {c \in Names : Home[c] = h /\ ve[c] # "gone"}
Peers(h) == Hosts \ {h}
Reached(h) == IF cut THEN {h} ELSE Hosts

On(p, pc)  == job[p].pc = pc
To(p, pc)  == job' = [job EXCEPT ![p].pc = pc]
Loop(p, pc, todo) ==
  job' = [job EXCEPT ![p] = [job[p] EXCEPT !.pc = pc, !.todo = todo, !.c = NoJob.c]]

(* The loops are in the order of lxc-ls.                                   *)
Next1(p) == CHOOSE c \in job[p].todo : TRUE
Pick(p, c, pc) ==
  /\ job[p].todo # {} /\ c = Next1(p)
  /\ job' = [job EXCEPT ![p] = [job[p] EXCEPT !.todo = @ \ {c}, !.c = c, !.pc = pc]]
Leave(p)   == job' = [job EXCEPT ![p] = NoJob]

-----------------------------------------------------------------------------
(* What a command does before its first file, and where it goes on.        *)
First(cmd) ==
  CASE cmd = "settings"   -> "wipe"
    [] cmd = "import-crt" -> "import"
    [] OTHER              -> "hosts"

Start(p, cmd, c, all) ==
  /\ job[p].cmd = "none"
  /\ p \in env.callers /\ cmd \in env.cmds[At[p]]
  /\ \A q \in Active : At[q] = At[p] /\ {cmd, job[q].cmd} \subseteq env.overlap
  /\ job' = [job EXCEPT ![p] =
       [NoJob EXCEPT !.cmd = cmd, !.pc = First(cmd), !.c = c, !.all = all,
                     !.today = day]]
  /\ UNCHANGED <<le, stamp, files, pound, times>>

(* The directory of the container, with its number and address.            *)
Add(p, c) ==
  /\ Home[c] = At[p] /\ ve[c] = "gone"
  /\ Start(p, "add", c, FALSE)
  /\ ve' = [ve EXCEPT ![c] = "serve"]
  /\ pem' = [pem EXCEPT ![c] = NoCert]

(* remove and destroy take the certificate with the container.             *)
Remove(p, c) ==
  /\ c \in Own(At[p])
  /\ Start(p, "remove", c, FALSE)
  /\ ve' = [ve EXCEPT ![c] = "gone"]
  /\ pem' = [pem EXCEPT ![c] = NoCert]

(* settings VE redirect URL, or redirect disable; the others are alike.    *)
Settings(p, c) ==
  /\ c \in Own(At[p])
  /\ Start(p, "settings", c, FALSE)
  /\ ve' = [ve EXCEPT ![c] = IF @ = "serve" THEN "redirect" ELSE "serve"]
  /\ UNCHANGED pem

Regenerate(p, all) ==
  /\ Start(p, "regenerate", NoJob.c, all)
  /\ UNCHANGED <<ve, pem>>

ImportCrt(p, c) ==
  /\ c \in Own(At[p])
  /\ Start(p, "import-crt", c, FALSE)
  /\ UNCHANGED <<ve, pem>>

(* diagnose removes the certificates that end soon.                        *)
Diagnose(p) ==
  /\ p \in env.callers /\ "diagnose" \in env.cmds[At[p]]
  /\ Active = {}
  /\ pem' = [c \in Names |->
       IF c \in Own(At[p]) /\ pem[c] <= day + Margin THEN NoCert ELSE pem[c]]
  /\ UNCHANGED <<ve, le, stamp, files, pound, times, job>>

-----------------------------------------------------------------------------
(* regenerate_etc_hosts: the own names, and those of the peers reached.    *)
EtcHosts(p) ==
  LET h == At[p] IN
  /\ On(p, "hosts")
  /\ known' = [known EXCEPT ![h] = [d \in Hosts |->
       IF d = h THEN Own(h) ELSE IF d \in Reached(h) THEN known[d][d]
       ELSE @[d]]]
  /\ CASE job[p].cmd = "add"        -> Loop(p, "acme", {job[p].c})
       [] job[p].cmd = "regenerate" -> To(p, "stamp")
       [] OTHER                     -> To(p, "wipe")
  /\ UNCHANGED <<ve, certs, dir, main, pound, times>>

(* Mutant: the day is stamped after the certificates, if these are got.    *)
StampNot(p) ==
  LET h == At[p] IN
  /\ On(p, "stamp")
  /\ IF stamp[h] = job[p].today /\ ~job[p].all
     THEN To(p, "wipe") ELSE Loop(p, "acme", Own(h))
  /\ UNCHANGED <<ve, certs, files, pound, times>>

(* regenerate_letsencrypt: once a day, or with "all".                      *)
Stamp(p) ==
  LET h == At[p] IN
  /\ On(p, "stamp")
  /\ IF stamp[h] = job[p].today /\ ~job[p].all
     THEN To(p, "wipe") /\ UNCHANGED stamp
     ELSE Loop(p, "acme", Own(h)) /\ stamp' = [stamp EXCEPT ![h] = job[p].today]
  /\ UNCHANGED <<ve, pem, le, files, pound, times>>

(* openssl x509 -checkend                                                  *)
Lasts(cert) == cert > day + Margin

(* get_acme_certificate: a container that needs none, or whose certificate *)
(* lasts.                                                                  *)
AcmeSkip(p, c) ==
  /\ On(p, "acme") /\ Pick(p, c, "acme")
  /\ Lasts(pem[c]) \/ (~Lasts(le[c]) /\ c \notin env.acme)
  /\ UNCHANGED <<ve, certs, files, pound, times>>

(* The certificate that letsencrypt has lasts: deployed, the key first.    *)
AcmeDeploy(p, c) ==
  /\ On(p, "acme") /\ Pick(p, c, "deploy")
  /\ ~Lasts(pem[c]) /\ Lasts(le[c])
  /\ pem' = [pem EXCEPT ![c] = IF ve[c] # "gone" THEN Broken ELSE @]
  /\ UNCHANGED <<ve, le, stamp, files, pound, times>>

(* exit 99, exit 98: letsencrypt needs pound and the acme server, and the  *)
(* whole command ends without them.                                        *)
AcmeExit(p, c) ==
  /\ On(p, "acme") /\ job[p].todo # {} /\ c = Next1(p) /\ c \in env.acme
  /\ ~Lasts(pem[c]) /\ ~Lasts(le[c])
  /\ ~pound[At[p]].up \/ "acme" \in env.faults
  /\ Leave(p)
  /\ UNCHANGED <<ve, certs, files, pound, times>>

(* letsencrypt certonly, then deployed; a failure is passed over, and what *)
(* does not verify is removed.                                             *)
AcmeGet(p, c) ==
  /\ On(p, "acme") /\ c \in env.acme
  /\ ~Lasts(pem[c]) /\ ~Lasts(le[c]) /\ pound[At[p]].up
  /\ \/ /\ Pick(p, c, "deploy")
        /\ le' = [le EXCEPT ![c] = day + Life]
        /\ pem' = [pem EXCEPT ![c] = IF ve[c] # "gone" THEN Broken ELSE @]
     \/ /\ "le" \in env.faults
        /\ Pick(p, c, "acme")
        /\ \/ UNCHANGED pem
           \/ pem' = [pem EXCEPT ![c] = NoCert]
        /\ UNCHANGED le
  /\ UNCHANGED <<ve, stamp, files, pound, times>>

Deploy(p) ==
  LET c == job[p].c IN
  /\ On(p, "deploy")
  /\ pem' = [pem EXCEPT ![c] = IF ve[c] # "gone" THEN le[c] ELSE @]
  /\ Loop(p, "acme", job[p].todo)
  /\ UNCHANGED <<ve, le, stamp, files, pound, times>>

AcmeDone(p) ==
  /\ On(p, "acme") /\ job[p].todo = {}
  /\ To(p, "wipe")
  /\ UNCHANGED <<ve, certs, files, pound, times>>

(* import-crt: a signed certificate replaces the container's; pound is     *)
(* restarted but reads its own copy.                                       *)
Import(p) ==
  LET c == job[p].c IN
  /\ On(p, "import")
  /\ pem' = [pem EXCEPT ![c] = IF ve[c] # "gone" THEN day + Life ELSE @]
  /\ To(p, "restart")
  /\ UNCHANGED <<ve, le, stamp, files, pound, times>>

-----------------------------------------------------------------------------
(* regenerate_pound_files: the own directory is removed and made again ... *)
Wipe(p) ==
  /\ On(p, "wipe")
  /\ dir' = [dir EXCEPT ![At[p]][At[p]] = Empty]
  /\ To(p, "header")
  /\ UNCHANGED <<ve, certs, known, main, pound, times>>

(* ... with the files that the main files include, empty ...               *)
Header(p) ==
  /\ On(p, "header")
  /\ dir' = [dir EXCEPT ![At[p]][At[p]] =
                     [dir[At[p]][At[p]] EXCEPT !.top = TRUE, !.inc = {}]]
  /\ Loop(p, "write", Own(At[p]))
  /\ UNCHANGED <<ve, certs, known, main, pound, times>>

(* The services of a container, under its name and its aliases, all redirect *)
(* elsewhere if its settings say so; one that has just been removed has no   *)
(* settings.                                                                 *)
Services(c) ==
  [kind |-> IF ve[c] = "gone" THEN "serve" ELSE ve[c], cert |-> pem[c]]

(* ... then for each container its certificate and its services ...        *)
WriteService(p, c) ==
  /\ On(p, "write") /\ Pick(p, c, "include")
  /\ dir' = [dir EXCEPT ![At[p]][At[p]].has[c] = Services(c)]
  /\ UNCHANGED <<ve, certs, known, main, pound, times>>

(* ... and the lines that include these.                                   *)
IncludeService(p) ==
  /\ On(p, "include")
  /\ dir' = [dir EXCEPT ![At[p]][At[p]].inc = @ \cup {job[p].c}]
  /\ Loop(p, "write", job[p].todo)
  /\ UNCHANGED <<ve, certs, known, main, pound, times>>

(* settings and remove restart pound then, without the next steps.         *)
WriteDone(p) ==
  /\ On(p, "write") /\ job[p].todo = {}
  /\ To(p, IF job[p].cmd \in {"add", "regenerate"} THEN "truncate"
           ELSE "restart")
  /\ UNCHANGED <<ve, certs, files, pound, times>>

(* regenerate_pound_sync: the main files are emptied ...                   *)
Truncate(p) ==
  /\ On(p, "truncate")
  /\ main' = [main EXCEPT ![At[p]] = {}]
  /\ To(p, "fetch")
  /\ UNCHANGED <<ve, certs, known, dir, pound, times>>

(* ... the directories of the peers reached are fetched, if they exist ... *)
Fetch(p) ==
  LET h == At[p] IN
  /\ On(p, "fetch")
  /\ dir' = [dir EXCEPT ![h] = [d \in Hosts |->
       IF d \in Reached(h) \ {h} /\ dir[d][d].top THEN dir[d][d] ELSE @[d]]]
  /\ To(p, "own")
  /\ UNCHANGED <<ve, certs, known, main, pound, times>>

(* Mutant: only the peers are included.                                    *)
AddOwnNot(p) ==
  /\ On(p, "own")
  /\ To(p, "peers")
  /\ UNCHANGED <<ve, certs, files, pound, times>>

(* pound_add_includes $HOSTNAME: if its files are there.                   *)
AddOwn(p) ==
  LET h == At[p] IN
  /\ On(p, "own")
  /\ main' = [main EXCEPT ![h] = IF dir[h][h].top THEN @ \cup {h} ELSE @]
  /\ To(p, "peers")
  /\ UNCHANGED <<ve, certs, known, dir, pound, times>>

(* pound_add_includes $_S                                                  *)
AddPeers(p) ==
  LET h == At[p] IN
  /\ On(p, "peers")
  /\ main' = [main EXCEPT ![h] = @ \cup {d \in Peers(h) : dir[h][d].top}]
  /\ To(p, "restart")
  /\ UNCHANGED <<ve, certs, known, dir, pound, times>>

-----------------------------------------------------------------------------
(* pound starts if each file that is included exists and each certificate  *)
(* is one.  A name that is not in /etc/hosts may be known to the DNS.      *)
Complete(h) ==
  \A d \in main[h] :
    /\ dir[h][d].top
    /\ \A c \in dir[h][d].inc :
         dir[h][d].has[c].kind # "none" /\ dir[h][d].has[c].cert # Broken

Resolves(h) ==
  \A d \in main[h] : dir[h][d].inc \subseteq UNION {known[h][e] : e \in Hosts}

Includes(h, c) == {d \in main[h] : c \in dir[h][d].inc}

(* The own directory is included first, and the first service matches.     *)
Reads(h) ==
  [c \in Names |->
     IF h \in Includes(h, c) THEN dir[h][h].has[c]
     ELSE IF Includes(h, c) # {}
       THEN dir[h][CHOOSE d \in Includes(h, c) : TRUE].has[c]
     ELSE NoService]

(* restart_pound                                                           *)
Restart(p) ==
  LET h == At[p] IN
  /\ On(p, "restart")
  /\ \/ /\ Complete(h)
        /\ pound' = [pound EXCEPT ![h] = [up |-> TRUE, reads |-> Reads(h)]]
     \/ /\ ~(Complete(h) /\ Resolves(h))
        /\ pound' = [pound EXCEPT ![h] = Down]
  /\ done' = [done EXCEPT ![h] =
       @ \/ (env.daily /\ job[p].cmd = "regenerate" /\ job[p].today = day)]
  /\ Leave(p)
  /\ UNCHANGED <<ve, certs, files, day, cut>>

-----------------------------------------------------------------------------
(* The days; with env.daily no day ends without a regenerate at each host. *)
Midnight ==
  /\ day < env.last
  /\ env.daily => \A h \in Hosts : done[h]
  /\ day' = day + 1
  /\ done' = [h \in Hosts |-> FALSE]
  /\ UNCHANGED <<ve, certs, files, pound, cut, job>>

Crash(h) ==
  /\ "crash" \in env.faults /\ pound[h].up
  /\ pound' = [pound EXCEPT ![h] = Down]
  /\ UNCHANGED <<ve, certs, files, times, job>>

(* Between commands the network goes and comes.                            *)
Net ==
  /\ "net" \in env.faults /\ Active = {}
  /\ cut' = ~cut
  /\ UNCHANGED <<ve, certs, files, pound, done, day, job>>

-----------------------------------------------------------------------------
Init ==
  /\ env \in Envs
  /\ ve = [c \in Names |-> "gone"]
  /\ pem = [c \in Names |-> NoCert] /\ le = [c \in Names |-> NoCert]
  /\ known = [h \in Hosts |-> [d \in Hosts |-> {}]]
  /\ dir = [h \in Hosts |-> [d \in Hosts |-> Empty]]
  /\ main = [h \in Hosts |-> {}]
  /\ pound = [h \in Hosts |-> [Down EXCEPT !.up = TRUE]]
  /\ stamp = [h \in Hosts |-> 0] /\ done = [h \in Hosts |-> FALSE]
  /\ day = 1 /\ cut = FALSE
  /\ job = [p \in Callers |-> NoJob]

Certificates(p) ==
  \/ Stamp(p) \/ Deploy(p) \/ AcmeDone(p) \/ Import(p)
  \/ \E c \in Names : AcmeSkip(p, c) \/ AcmeDeploy(p, c)
                        \/ AcmeExit(p, c) \/ AcmeGet(p, c)

Files(p) ==
  \/ EtcHosts(p) \/ Wipe(p) \/ Header(p) \/ IncludeService(p) \/ WriteDone(p)
  \/ \E c \in Names : WriteService(p, c)

Sync(p) == Truncate(p) \/ Fetch(p) \/ AddOwn(p) \/ AddPeers(p)

(* A command that has begun goes on.                                       *)
Goes(p) == (Certificates(p) \/ Files(p) \/ Sync(p) \/ Restart(p)) /\ UNCHANGED env

(* The operator who tries again.                                           *)
Again(p) == env.again /\ Regenerate(p, FALSE) /\ UNCHANGED env

Command(p) ==
  \/ \E c \in Names : Add(p, c) \/ Remove(p, c) \/ Settings(p, c)
                        \/ ImportCrt(p, c)
  \/ \E all \in BOOLEAN : Regenerate(p, all)
  \/ Diagnose(p)

Next ==
  \/ \E p \in Callers : Goes(p)
  \/ /\ \/ \E p \in Callers : Command(p)
        \/ \E h \in Hosts : Crash(h)
        \/ Midnight \/ Net
     /\ UNCHANGED env

Spec ==
  /\ Init /\ [][Next]_vars
  /\ \A p \in Callers : WF_vars(Goes(p)) /\ SF_vars(Again(p))

-----------------------------------------------------------------------------
Service == [kind : {"none", "serve", "redirect"}, cert : -1 .. env.last + Life]

(* Of the directories, the certificates and the commands: their types; and *)
(* what is kept under the name of a host is of containers of that host.    *)
TypeOK ==
  /\ ve \in [Names -> {"gone", "serve", "redirect"}]
  /\ pem \in [Names -> -1 .. env.last + Life]
  /\ le \in [Names -> 0 .. env.last + Life]
  /\ \A h, d \in Hosts : /\ known[h][d] \subseteq {c \in Names : Home[c] = d}
                         /\ dir[h][d].top \in BOOLEAN
                         /\ dir[h][d].inc \subseteq {c \in Names : Home[c] = d}
                         /\ dir[h][d].has \in [Names -> Service]
  /\ main \in [Hosts -> SUBSET Hosts]
  /\ \A h \in Hosts : /\ pound[h].up \in BOOLEAN
                      /\ pound[h].reads \in [Names -> Service]
  /\ day \in 1 .. env.last /\ stamp \in [Hosts -> 0 .. env.last]
  /\ \A p \in Callers : job[p].todo \subseteq Names

(* The commands that bring a container; they end with all main files.      *)
Growing == {"add", "regenerate"}

(* Only these overlap, and only where no certificate is due; and names are *)
(* removed at one host: elsewhere they stay in the copies of its directory *)
(* until the next regenerate, and pound may not resolve them.              *)
Disciplined ==
  /\ env.overlap = {} \/ (env.overlap \subseteq Growing /\ env.acme = {})
  /\ \A h, d \in Hosts : "remove" \in env.cmds[h] \cap env.cmds[d] => h = d

(* When the commands at a host have ended, however they overlapped, pound  *)
(* runs there, serves each of its containers as the settings say, and none *)
(* that has been removed.                                                  *)
Served ==
  Disciplined /\ env.faults \subseteq {"le", "net"} /\ Active = {} =>
    \A h \in Hosts :
      /\ pound[h].up
      /\ \A c \in Names : Home[c] = h =>
           pound[h].reads[c].kind = IF ve[c] = "gone" THEN "none" ELSE ve[c]

(* When each host regenerates every day, one command after the other, and  *)
(* gets the certificates it asks for, pound never uses a certificate that  *)
(* has ended for a container of its host.                                  *)
NotEnded ==
  Disciplined /\ env.daily /\ env.overlap = {} /\ env.faults \subseteq {"net"} =>
    \A h \in Hosts, c \in env.acme :
      Home[c] = h /\ pound[h].up /\ pound[h].reads[c].cert # NoCert
        => pound[h].reads[c].cert > day

(* pound, if it went down, comes back when regenerate is tried again there,*)
(* also when certificates are due and can not be got.                      *)
Recovers ==
  \A h \in Hosts :
    env.again /\ (\E p \in env.callers : At[p] = h) /\ ~pound[h].up
      ~> pound[h].up

(* Types, and pound serves what the settings say with certificates that    *)
(* have not ended.                                                         *)
ProxyInv == TypeOK /\ Served /\ NotEnded
=============================================================================
