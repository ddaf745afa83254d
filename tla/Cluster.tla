------------------------------ MODULE Cluster ------------------------------
(***************************************************************************)
(* What the hosts of a cluster tell each other about their containers.     *)
(* Each host keeps one section of every host's names, regenerates its own, *)
(* fetches the others and puts them together: for /etc/hosts, for the      *)
(* domains mail is relayed for, and for the ssh client.  In the same way   *)
(* it publishes its zones in a tarball and includes those of the others,   *)
(* as their slave, in the configuration of its name server.                *)
(*                                                                         *)
(* Nothing locks a host.  Unless the circumstances say "overlap" its       *)
(* operators wait for one command before they type the next; where they do *)
(* not, two commands write and append to the same files, and named gets a  *)
(* part of its zones, or none, or one of them twice and fails.  A section  *)
(* is written, and a file put together, in one step.                       *)
(***************************************************************************)
EXTENDS Naturals, Sequences, FiniteSets

CONSTANTS
  Hosts,
  Names,      \* of containers
  Callers,    \* invocations of srvctl
  Envs        \* the circumstances to look at, see Env

Kinds == {"etchosts", "relaydomains", "ssh_config"}

(* A command is interrupted; a host is not reached, or is lost while it is *)
(* read; a name is typed without its domain; a command is typed while      *)
(* another runs on the host.                                               *)
Faults == {"kill", "net", "short", "overlap"}

(* Circumstances: which of the sections is looked at, where commands are   *)
(* typed and where a name may be added, how many commands run at a time,   *)
(* what goes wrong.                                                        *)
Env == [kind : Kinds, at : SUBSET Hosts, homes : [Names -> SUBSET Hosts],
        together : Nat \ {0}, faults : SUBSET Faults]

ASSUME ConstantsAssumption ==
  IsFiniteSet(Hosts) /\ IsFiniteSet(Callers) /\ Envs \subseteq Env

VARIABLES
  env,      \* the circumstances, which do not change
  ve,       \* ve[h]: the containers of h
  ready,    \* ready[h]: those that add has finished
  section,  \* section[h][g]: the names in the section of g that h keeps
  known,    \* known[h]: pairs of name and host in the file put together
  tar,      \* tar[h]: the zones h publishes for its slaves; none: no file
  includes, \* includes[h]: the zones in the configuration of the name server
  mixed,    \* the hosts where two commands write that at once: there includes
            \* has what may be in it
  named,    \* named[h]: the zones the name server of h has loaded
  job       \* job[p]: the command that caller p is running

vars == <<env, ve, ready, section, known, tar, includes, mixed, named, job>>
files == <<section, known, tar, includes, mixed, named>>

NoTar == [there |-> FALSE, zones |-> {}]
NoJob == [cmd |-> "none", h |-> CHOOSE h \in Hosts : TRUE,
          c |-> CHOOSE c \in Names : TRUE, exact |-> TRUE,
          steps |-> <<>>, peers |-> {}]

Active == {p \in Callers : job[p].cmd # "none"}
Peers(h) == Hosts \ {h}

(* Two definitions of a zone are an error, which stops the name server.    *)
Loads(i) == \A g, h \in Hosts : i[g] \cap i[h] # {} => g = h

-----------------------------------------------------------------------------
(* The commands, as the steps that concern other hosts.                    *)
Share == <<"truncate", "write", "pull", "combine">>
Dns   == <<"empty", "zones", "delete", "publish", "fetch", "restart">>

Steps(cmd, kind) ==
  CASE cmd = "add" ->
         <<"check", "mkdir">>
           \o (CASE kind = "etchosts"   -> Share
                 [] kind = "ssh_config" -> <<"append">>
                 [] OTHER               -> <<>>)
           \o Dns \o <<"finish">>
           \o (IF kind = "relaydomains" THEN Share ELSE <<>>)
    [] cmd = "remove" -> <<"rm">> \o (IF kind = "ssh_config" THEN <<>> ELSE Share)
                           \o Dns
    [] cmd = "regenerate" -> Share \o Dns

(* A command is typed.                                                     *)
Command(p, cmd, h, c, exact) ==
  /\ job[p].cmd = "none"
  /\ Cardinality(Active) < env.together
  /\ "overlap" \in env.faults \/ \A q \in Active : job[q].h # h
  /\ cmd = "add" => c \notin ve[h] /\ h \in env.homes[c]
  /\ cmd = "remove" => c \in ve[h]
  /\ exact \/ "short" \in env.faults
  /\ job' = [job EXCEPT ![p] =
       [NoJob EXCEPT !.cmd = cmd, !.h = h, !.c = c, !.exact = exact,
                     !.steps = Steps(cmd, env.kind), !.peers = Peers(h)]]
  /\ UNCHANGED <<ve, ready, files>>

At(p, step) == job[p].steps # <<>> /\ Head(job[p].steps) = step

Done(p) ==
  job' = [job EXCEPT ![p] = [job[p] EXCEPT !.steps = Tail(@), !.peers = Peers(job[p].h)]]

(* A loop over the other hosts.                                            *)
Visited(p, g) ==
  job' = [job EXCEPT ![p].peers = @ \ {g}]

Looped(p) ==
  /\ At(p, "check") \/ At(p, "pull") \/ At(p, "fetch")
  /\ job[p].peers = {}
  /\ Done(p)
  /\ UNCHANGED <<ve, ready, files>>

Ended(p) ==
  /\ job[p].cmd # "none" /\ job[p].steps = <<>>
  /\ job' = [job EXCEPT ![p] = NoJob]
  /\ UNCHANGED <<ve, ready, files>>

Reached == IF "net" \in env.faults THEN BOOLEAN ELSE {TRUE}

-----------------------------------------------------------------------------
(* add: is the name in use on g?  What was typed is compared, and a host   *)
(* that does not answer has no containers.                                 *)
Check(p, g) ==
  /\ At(p, "check") /\ g \in job[p].peers
  /\ \E reached \in Reached :
       IF reached /\ job[p].exact /\ job[p].c \in ve[g]
       THEN job' = [job EXCEPT ![p] = NoJob] ELSE Visited(p, g)
  /\ UNCHANGED <<ve, ready, files>>

Mkdir(p) ==
  /\ At(p, "mkdir")
  /\ ve' = [ve EXCEPT ![job[p].h] = @ \cup {job[p].c}]
  /\ Done(p)
  /\ UNCHANGED <<ready, files>>

(* What add does after the name server: certificates, pound, the start.    *)
Finish(p) ==
  /\ At(p, "finish")
  /\ ready' = [ready EXCEPT ![job[p].h] = @ \cup {job[p].c}]
  /\ Done(p)
  /\ UNCHANGED <<ve, files>>

Rm(p) ==
  /\ At(p, "rm")
  /\ ve'    = [ve EXCEPT ![job[p].h] = @ \ {job[p].c}]
  /\ ready' = [ready EXCEPT ![job[p].h] = @ \ {job[p].c}]
  /\ Done(p)
  /\ UNCHANGED files

-----------------------------------------------------------------------------
(* The own section is emptied and appended to, the others are fetched from *)
(* hosts that say who they are, and all are put together.                  *)
Truncate(p) ==
  /\ At(p, "truncate")
  /\ section' = [section EXCEPT ![job[p].h][job[p].h] = {}]
  /\ Done(p)
  /\ UNCHANGED <<ve, ready, known, tar, includes, mixed, named>>

Write(p) ==
  LET h == job[p].h IN
  /\ At(p, "write")
  /\ section' = [section EXCEPT ![h][h] = @ \cup ve[h]]
  /\ Done(p)
  /\ UNCHANGED <<ve, ready, known, tar, includes, mixed, named>>

(* add: the entry for ssh is appended to the own section.                  *)
AppendOwn(p) ==
  LET h == job[p].h IN
  /\ At(p, "append")
  /\ section' = [section EXCEPT ![h][h] = @ \cup {job[p].c}]
  /\ Done(p)
  /\ UNCHANGED <<ve, ready, known, tar, includes, mixed, named>>

(* Mutant: what is fetched is added to what is there.                      *)
PullAppend(p, g) ==
  LET h == job[p].h IN
  /\ At(p, "pull") /\ g \in job[p].peers
  /\ section' = [section EXCEPT ![h][g] = @ \cup section[g][g]]
  /\ Visited(p, g)
  /\ UNCHANGED <<ve, ready, known, tar, includes, mixed, named>>

(* ssh g cat section > section: the copy is emptied first.                 *)
Pull(p, g) ==
  LET h == job[p].h IN
  /\ At(p, "pull") /\ g \in job[p].peers
  /\ \E reached \in Reached, read \in Reached :
       section' = IF ~reached THEN section
                  ELSE [section EXCEPT ![h][g] =
                          IF read THEN section[g][g] ELSE {}]
  /\ Visited(p, g)
  /\ UNCHANGED <<ve, ready, known, tar, includes, mixed, named>>

Combine(p) ==
  LET h == job[p].h IN
  /\ At(p, "combine")
  /\ known' = [known EXCEPT ![h] = {d \in Names \X Hosts : d[1] \in section[h][d[2]]}]
  /\ Done(p)
  /\ UNCHANGED <<ve, ready, section, tar, includes, mixed, named>>

-----------------------------------------------------------------------------
(* regenerate_dns.  All zones are dropped from the configuration, the own  *)
(* ones are appended, and published in a tarball that is deleted before.   *)
(* What one command has written is lost, or is there twice, when another   *)
(* empties the files in between and writes its own.                        *)
Rivals(p) ==
  {q \in Callers \ {p} :
     /\ job[q].h = job[p].h
     /\ \E step \in {"zones", "delete", "publish", "fetch", "restart"} : At(q, step)}

Empty(p) ==
  LET h == job[p].h IN
  /\ At(p, "empty")
  /\ IF Rivals(p) = {}
     THEN /\ includes' = [includes EXCEPT ![h] = [g \in Hosts |-> {}]]
          /\ mixed' = mixed \ {h}
     ELSE mixed' = mixed \cup {h} /\ UNCHANGED includes
  /\ Done(p)
  /\ UNCHANGED <<ve, ready, section, known, tar, named>>

Zones(p) ==
  LET h == job[p].h IN
  /\ At(p, "zones")
  /\ includes' = [includes EXCEPT ![h][h] = @ \cup ve[h]]
  /\ Done(p)
  /\ UNCHANGED <<ve, ready, section, known, tar, mixed, named>>

(* What a reader finds there of the zones of g.                            *)
Found(h, g) == IF h \in mixed THEN SUBSET includes[h][g] ELSE {includes[h][g]}

Delete(p) ==
  /\ At(p, "delete")
  /\ tar' = [tar EXCEPT ![job[p].h] = NoTar]
  /\ Done(p)
  /\ UNCHANGED <<ve, ready, section, known, includes, mixed, named>>

(* Mutant: the tarball holds the zones this host is a slave for, too.      *)
PublishAll(p) ==
  LET h == job[p].h IN
  /\ At(p, "publish")
  /\ tar' = [tar EXCEPT ![h] =
               [there |-> TRUE,
                zones |-> UNION {includes[h][g] \cup named[h][g] : g \in Hosts}]]
  /\ Done(p)
  /\ UNCHANGED <<ve, ready, section, known, includes, mixed, named>>

Publish(p) ==
  LET h == job[p].h IN
  /\ At(p, "publish")
  /\ \E found \in Found(h, h) :
       tar' = [tar EXCEPT ![h] = [there |-> TRUE, zones |-> found]]
  /\ Done(p)
  /\ UNCHANGED <<ve, ready, section, known, includes, mixed, named>>

(* The zones of g are included if g is reached and has a tarball.          *)
Fetch(p, g) ==
  LET h == job[p].h IN
  /\ At(p, "fetch") /\ g \in job[p].peers
  /\ \E reached \in Reached :
       LET old == IF reached /\ h \notin mixed THEN {} ELSE includes[h][g]
           new == IF reached THEN tar[g].zones ELSE {}
       IN includes' = [includes EXCEPT ![h][g] = old \cup new]
  /\ Visited(p, g)
  /\ UNCHANGED <<ve, ready, section, known, tar, mixed, named>>

(* The name server starts with the new zones, or the command ends here.    *)
Restart(p) ==
  LET h == job[p].h IN
  /\ At(p, "restart")
  /\ \/ \E found \in [Hosts -> SUBSET Names] :
          /\ \A g \in Hosts : found[g] \in Found(h, g)
          /\ Loads(found)
          /\ named' = [named EXCEPT ![h] = found]
          /\ Done(p)
     \/ /\ h \in mixed \/ ~Loads(includes[h])
        /\ named' = [named EXCEPT ![h] = [g \in Hosts |-> {}]]
        /\ job' = [job EXCEPT ![p] = NoJob]
  /\ UNCHANGED <<ve, ready, section, known, tar, includes, mixed>>

(* The command is interrupted.                                             *)
Kill(p) ==
  /\ "kill" \in env.faults
  /\ job[p].cmd # "none"
  /\ job' = [job EXCEPT ![p] = NoJob]
  /\ UNCHANGED <<ve, ready, files>>

-----------------------------------------------------------------------------
Nothing == [h \in Hosts |-> [g \in Hosts |-> {}]]

Init ==
  /\ env \in Envs
  /\ ve       = [h \in Hosts |-> {}]
  /\ ready    = [h \in Hosts |-> {}]
  /\ section  = Nothing
  /\ known    = [h \in Hosts |-> {}]
  /\ tar      = [h \in Hosts |-> NoTar]
  /\ includes = Nothing
  /\ mixed    = {}
  /\ named    = Nothing
  /\ job      = [p \in Callers |-> NoJob]

Type(p) ==
  \E cmd \in {"add", "remove", "regenerate"}, h \in env.at, c \in Names :
    \E exact \in BOOLEAN : Command(p, cmd, h, c, exact)

Step(p) ==
  \/ Looped(p) \/ Ended(p)
  \/ Mkdir(p) \/ Finish(p) \/ Rm(p)
  \/ Truncate(p) \/ Write(p) \/ AppendOwn(p) \/ Combine(p)
  \/ Empty(p) \/ Zones(p) \/ Delete(p) \/ Publish(p) \/ Restart(p)
  \/ \E g \in Hosts : Check(p, g) \/ Pull(p, g) \/ Fetch(p, g)

Next ==
  /\ \E p \in Callers : Type(p) \/ Step(p) \/ Kill(p)
  /\ UNCHANGED env

Spec == Init /\ [][Next]_vars

-----------------------------------------------------------------------------
Sections == [Hosts -> [Hosts -> SUBSET Names]]

(* The type of what the hosts keep and publish.                            *)
TypeOK ==
  /\ env \in Envs
  /\ ve \in [Hosts -> SUBSET Names] /\ ready \in [Hosts -> SUBSET Names]
  /\ section \in Sections /\ includes \in Sections /\ named \in Sections
  /\ known \in [Hosts -> SUBSET (Names \X Hosts)] /\ mixed \subseteq Hosts
  /\ tar \in [Hosts -> [there : BOOLEAN, zones : SUBSET Names]]

Quiet == Active = {}

(* Either every name has its home, or the hosts are asked one at a time    *)
(* and all answer: then no name gets onto two hosts.                       *)
Settled == \A c \in Names : Cardinality(env.homes[c]) <= 1
Orderly == env.together = 1 /\ env.faults = {}

(* A name is on one host, and so is its zone: no name server is ever given *)
(* the zones of two hosts for it, whatever sections and tarballs of        *)
(* whatever age it reads and whatever commands run together.               *)
OneMaster ==
  Settled \/ Orderly =>
    /\ \A g, h \in Hosts : ve[g] \cap ve[h] # {} => g = h
    /\ \A p \in Callers : At(p, "restart") => Loads(includes[job[p].h])

(* add does not stop half way: every container there is gets its           *)
(* certificate and its place in pound, and is started.  It may stop where  *)
(* another command overlaps with it on the host.                           *)
AddFinishes ==
  Quiet /\ (Orderly \/ (Settled /\ env.faults \cap {"kill", "overlap"} = {})) =>
    \A h \in Hosts : ve[h] = ready[h]

(* When a regenerate is done while nobody else was at work and all hosts   *)
(* could be read, the host knows the containers of all hosts, and is the   *)
(* master or the slave of their zones.  The ssh client may know some that  *)
(* were removed.                                                           *)
Converged ==
  [][\A p \in Callers :
       LET h == job[p].h IN
       Orderly /\ job[p].cmd = "regenerate" /\ job'[p].cmd = "none"
         => /\ \A g \in Hosts : \A c \in ve[g] : <<c, g>> \in known[h]
            /\ env.kind # "ssh_config" =>
                 \A d \in known[h] : d[1] \in ve[d[2]]
            /\ named[h] = ve]_vars

(* Types, one master for a zone, and no add that stopped half way.         *)
ClusterInv == TypeOK /\ OneMaster /\ AddFinishes
=============================================================================
