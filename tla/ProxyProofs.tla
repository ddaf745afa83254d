----------------------------- MODULE ProxyProofs -----------------------------
(***************************************************************************)
(* Theorems about Proxy, for any hosts, containers, callers, days and      *)
(* circumstances: pound runs and serves what the settings say when the     *)
(* commands at a host have ended, and never uses a certificate that has    *)
(* ended.                                                                  *)
(***************************************************************************)
EXTENDS Proxy, TLAPS

-----------------------------------------------------------------------------
(* Types, and where a command may be.                                      *)
Mine(h) == {c \in Names : Home[c] = h}

Places(cmd) ==
  CASE cmd = "none"       -> {"none"}
    [] cmd = "import-crt" -> {"import", "restart"}
    [] cmd = "settings"   -> {"wipe", "header", "write", "include", "restart"}
    [] cmd = "remove"     -> {"hosts", "wipe", "header", "write", "include", "restart"}
    [] cmd = "add"        -> {"hosts", "acme", "deploy", "wipe", "header", "write",
                              "include", "truncate", "fetch", "own", "peers", "restart"}
    [] cmd = "regenerate" -> {"hosts", "stamp", "acme", "deploy", "wipe", "header", "write",
                              "include", "truncate", "fetch", "own", "peers", "restart"}

PlaceNames == {"none", "import", "hosts", "stamp", "acme", "deploy", "wipe", "header",
               "write", "include", "truncate", "fetch", "own", "peers", "restart"}

Cases == {"none", "import-crt", "settings", "remove", "add", "regenerate"}

Directory == [top : BOOLEAN, inc : SUBSET Names, has : [Names -> Service]]
JobRecord ==
  [cmd : Cases, pc : PlaceNames, c : Names \cup {NoJob.c},
   all : BOOLEAN, todo : SUBSET Names, today : 0 .. env.last]

FilesOK ==
  /\ env \in Envs
  /\ ve \in [Names -> {"gone", "serve", "redirect"}]
  /\ pem \in [Names -> -1 .. env.last + Life]
  /\ le \in [Names -> 0 .. env.last + Life]
  /\ known \in [Hosts -> [Hosts -> SUBSET Names]]
  /\ dir \in [Hosts -> [Hosts -> Directory]]
  /\ \A h, d \in Hosts : known[h][d] \subseteq Mine(d) /\ dir[h][d].inc \subseteq Mine(d)
  /\ main \in [Hosts -> SUBSET Hosts]
  /\ pound \in [Hosts -> [up : BOOLEAN, reads : [Names -> Service]]]
  /\ day \in 1 .. env.last /\ stamp \in [Hosts -> 0 .. env.last]
  /\ done \in [Hosts -> BOOLEAN] /\ cut \in BOOLEAN

JobsOK ==
  /\ job \in [Callers -> JobRecord]
  /\ \A p \in Callers :
       /\ job[p].pc \in Places(job[p].cmd)
       /\ job[p].todo \subseteq Mine(At[p])
       /\ job[p].pc \in {"deploy", "include", "import"} => job[p].c \in Mine(At[p])
       /\ job[p].pc = "hosts" /\ job[p].cmd = "add" => job[p].c \in Mine(At[p])
       /\ job[p].today <= day
       /\ job[p].cmd # "none" => job[p].cmd \in env.cmds[At[p]]
  /\ \A p, q \in Callers : job[p].cmd # "none" /\ job[q].cmd # "none" =>
       \/ p = q
       \/ At[p] = At[q] /\ {job[p].cmd, job[q].cmd} \subseteq env.overlap

-----------------------------------------------------------------------------
(* Where a command is, at a host.                                          *)
Rebuild == {"hosts", "stamp", "acme", "deploy", "wipe", "header"}
Build   == {"write", "include"}
Link    == {"truncate", "fetch", "own", "peers", "restart"}

At1(p, h, X) == At[p] = h /\ job[p].pc \in X
Around(h, X) == \E p \in Callers : At1(p, h, X)
Grows(h, X)  == \E p \in Callers : At1(p, h, X) /\ job[p].cmd \in Growing
Idle(h)      == \A p \in Callers : At[p] = h => job[p].cmd = "none"

(* A command has c still to write, or is about to include it.              *)
InTodo(h, c)    == \E p \in Callers : At1(p, h, Build) /\ c \in job[p].todo
Including(h, c) == \E p \in Callers : At1(p, h, {"include"}) /\ job[p].c = c

Reliable == Disciplined /\ env.faults \subseteq {"le", "net"}

(* /etc/hosts has the own names, and a loop writes own names only.         *)
Listed(h) ==
  /\ \A c \in Own(h) : c \in known[h][h] \/ Around(h, {"hosts"})
  /\ \A p \in Callers : At1(p, h, Build) => job[p].todo \subseteq Own(h)
  /\ \A p \in Callers : At1(p, h, {"include"}) => job[p].c \in Own(h)

(* The own directory, when no command is about to make it again.           *)
Written(h) == Around(h, Rebuild) \/
  /\ dir[h][h].inc \subseteq Own(h)
  /\ \A c \in Names : \/ InTodo(h, c)
                      \/ c \in dir[h][h].inc \/ Including(h, c)
                           => dir[h][h].has[c].kind = ve[c]
  /\ \A c \in Own(h) : c \in dir[h][h].inc \/ InTodo(h, c) \/ Including(h, c)

(* Its top files are there, but for the moment after it was removed.       *)
Topped(h) == Around(h, {"header"}) \/ dir[h][h].top \/
  /\ \A p \in Callers : At1(p, h, Build \cup Link) => job[p].cmd = "import-crt"
  /\ h \notin main[h]
  /\ \A g \in Hosts : dir[g][h].inc = {}

Included(h) ==
  Own(h) # {} => h \in main[h] \/ Grows(h, Rebuild \cup Build \cup {"truncate", "fetch", "own"})

OwnOK == Reliable => \A h \in Hosts : Listed(h) /\ Written(h) /\ Topped(h) /\ Included(h)

(* What host h has of its peer d.                                          *)
Copied(h, d) ==
  /\ d \in main[h] => dir[h][d].top
  /\ \A c \in dir[h][d].inc : dir[h][d].has[c].kind # "none"
  /\ "remove" \notin env.cmds[d] => dir[h][d].inc \subseteq Own(d)

BeforeFetch == Rebuild \cup Build \cup {"truncate", "fetch"}
Resolved(h, d) ==
  /\ \/ dir[h][d].inc \subseteq known[h][d]
     \/ d \in Reached(h) /\ dir[d][d].top /\ Grows(h, BeforeFetch)
  /\ Grows(h, BeforeFetch \ {"hosts"}) /\ d \in Reached(h) => known[h][d] = known[d][d]

PeersOK == Reliable => \A h, d \in Hosts : h # d => Copied(h, d) /\ Resolved(h, d)

(* No certificate is Broken but while it is deployed.                      *)
CertsOK == Reliable =>
  /\ env.acme = {} => \A c \in Names : le[c] = NoCert
  /\ env.acme = {} => \A p \in Callers : job[p].pc # "deploy"
  /\ \A c \in Names : ve[c] = "gone" => pem[c] = NoCert
  /\ \A c \in Names : pem[c] = Broken =>
       \E p \in Callers : job[p].pc = "deploy" /\ job[p].c = c
  /\ \A h, d \in Hosts, c \in Names : dir[h][d].has[c].cert # Broken
  /\ \A h \in Hosts, c \in Names : pound[h].reads[c].cert # Broken

PoundOK == Reliable => \A h \in Hosts :
  /\ pound[h].up \/ (env.overlap # {} /\ ~Idle(h))
  /\ Idle(h) => \A c \in Mine(h) :
       pound[h].reads[c].kind = IF ve[c] = "gone" THEN "none" ELSE ve[c]

-----------------------------------------------------------------------------
(* Certificates that are due are got every day.                            *)
Dated == Disciplined /\ env.daily /\ env.overlap = {} /\ env.faults \subseteq {"net"}

Good(x, k) == x \in {NoCert, Broken} \/ x > k

DaysOK == Dated =>
  /\ \A p \in Callers : job[p].cmd = "regenerate" /\ job[p].pc \notin {"hosts", "stamp"}
       => stamp[At[p]] = job[p].today
  /\ \A h \in Hosts : done[h] => stamp[h] = day
  /\ \A p \in Callers : job[p].cmd # "none" /\ job[p].today < day => ~done[At[p]]

(* A certificate x of host h is good today, and tomorrow once a regenerate *)
(* has ended today; where w holds it lasts.                                *)
Lasting(x, h, w) ==
  /\ Good(x, day)
  /\ done[h] => Good(x, day + 1)
  /\ stamp[h] = day /\ w => Good(x, day + Margin)

Getting(h, c) == \E p \in Callers :
  At1(p, h, {"acme", "deploy"}) /\ job[p].cmd = "regenerate" /\ c \in job[p].todo
Built(h) == \E p \in Callers :
  At1(p, h, {"header"} \cup Build \cup Link) /\ job[p].cmd = "regenerate"

DatesOK == Dated => \A c \in env.acme : LET h == Home[c] IN
  /\ Lasting(pem[c], h, ~Getting(h, c))
  /\ \A p \in Callers : job[p].pc = "deploy" /\ job[p].c = c =>
       le[c] # NoCert /\ Lasting(le[c], h, TRUE)
  /\ Lasting(dir[h][h].has[c].cert, h, Built(h))
  /\ Lasting(pound[h].reads[c].cert, h, FALSE)

Inv == /\ FilesOK /\ JobsOK /\ OwnOK /\ PeersOK /\ CertsOK /\ PoundOK
       /\ DaysOK /\ DatesOK
-----------------------------------------------------------------------------
(* The commands that may be at a place.                                    *)
LEMMA Placing ==
  ASSUME NEW cmd \in Cases, NEW pc \in Places(cmd)
  PROVE  /\ pc \in PlaceNames
         /\ pc = "none" <=> cmd = "none"
         /\ pc = "import" => cmd = "import-crt"
         /\ pc = "stamp" => cmd = "regenerate"
         /\ pc \in {"acme", "deploy", "truncate", "fetch", "own", "peers"} =>
              cmd \in Growing
         /\ pc = "hosts" => cmd \in {"add", "remove", "regenerate"}
         /\ pc \in Rebuild \cup Build => cmd # "import-crt"
         /\ cmd \notin Growing /\ pc \in Rebuild => pc \in {"hosts", "wipe", "header"}
  BY DEF Cases, Places, PlaceNames, Growing, Rebuild, Build

LEMMA Placed ==
  ASSUME JobsOK, NEW p \in Callers
  PROVE  /\ job[p].cmd \in Cases /\ job[p].pc \in PlaceNames
         /\ job[p].todo \subseteq Mine(At[p]) /\ job[p].today \in 0 .. env.last
         /\ job[p].today <= day
         /\ job[p].pc = "none" <=> job[p].cmd = "none"
         /\ job[p].pc = "import" => job[p].cmd = "import-crt"
         /\ job[p].pc = "stamp" => job[p].cmd = "regenerate"
         /\ job[p].pc \in {"acme", "deploy", "truncate", "fetch", "own", "peers"} =>
              job[p].cmd \in Growing
         /\ job[p].pc = "hosts" => job[p].cmd \in {"add", "remove", "regenerate"}
         /\ job[p].pc \in Rebuild \cup Build => job[p].cmd # "import-crt"
         /\ job[p].cmd \notin Growing /\ job[p].pc \in Rebuild =>
              job[p].pc \in {"hosts", "wipe", "header"}
<1>1. job[p].cmd \in Cases /\ job[p].pc \in Places(job[p].cmd)
  BY DEF JobsOK, JobRecord
<1>2. job[p].todo \subseteq Mine(At[p]) /\ job[p].today \in 0 .. env.last /\ job[p].today <= day
  BY DEF JobsOK, JobRecord
<1> HIDE DEF JobsOK
<1> QED BY <1>1, <1>2, Placing

(* What a step of a command does to the commands.                          *)
Moves(p, pc, todo, c) ==
  /\ \A q \in Callers \ {p} : job'[q] = job[q]
  /\ job'[p].cmd = job[p].cmd /\ job'[p].today = job[p].today
  /\ job'[p].pc = pc /\ job'[p].todo = todo /\ job'[p].c = c
  /\ job' \in [Callers -> [cmd : Cases, pc : PlaceNames, c : Names \cup {NoJob.c},
                           all : BOOLEAN, todo : SUBSET Names, today : 0 .. env.last]]

LEMMA Going ==
  ASSUME JobsOK, NEW p \in Callers, NEW pc \in PlaceNames
  PROVE  /\ To(p, pc) => Moves(p, pc, job[p].todo, job[p].c)
         /\ \A todo \in SUBSET Names : Loop(p, pc, todo) => Moves(p, pc, todo, NoJob.c)
         /\ \A c : Pick(p, c, pc) => c \in job[p].todo /\ Moves(p, pc, job[p].todo \ {c}, c)
<1>1. job \in [Callers -> JobRecord]
  BY DEF JobsOK
<1> DEFINE Jobs == [cmd : Cases, pc : PlaceNames, c : Names \cup {NoJob.c},
                    all : BOOLEAN, todo : SUBSET Names, today : 0 .. env.last]
<1>2. job \in [Callers -> Jobs]
  BY <1>1 DEF JobRecord
<1> HIDE DEF NoJob
<1>a. /\ \A r \in Jobs : [r EXCEPT !.pc = pc] \in Jobs
      /\ \A r \in Jobs, todo \in SUBSET Names : [r EXCEPT !.todo = todo] \in Jobs
      /\ \A r \in Jobs : [r EXCEPT !.c = NoJob.c] \in Jobs
  <2>1. \A r \in Jobs : [r EXCEPT !.pc = pc] \in Jobs
    OBVIOUS
  <2>2. \A r \in Jobs, todo \in SUBSET Names : [r EXCEPT !.todo = todo] \in Jobs
    OBVIOUS
  <2>3. \A r \in Jobs : [r EXCEPT !.c = NoJob.c] \in Jobs
    OBVIOUS
  <2> HIDE DEF Jobs
  <2> QED BY <2>1, <2>2, <2>3
<1>b. ASSUME NEW r \in Jobs, job' = [job EXCEPT ![p] = r],
             r.cmd = job[p].cmd, r.today = job[p].today
      PROVE  Moves(p, r.pc, r.todo, r.c)
  <2>1. job' \in [Callers -> Jobs] /\ job'[p] = r /\ \A q \in Callers \ {p} : job'[q] = job[q]
    <3> HIDE DEF Jobs
    <3> QED BY <1>2, <1>b
  <2> QED BY <1>b, <2>1 DEF Moves
<1>3. ASSUME To(p, pc)
      PROVE  Moves(p, pc, job[p].todo, job[p].c)
  <2> DEFINE r == [job[p] EXCEPT !.pc = pc]
  <2>1. job' = [job EXCEPT ![p] = r]
    BY <1>3 DEF To
  <2>2. r \in Jobs
    <3> HIDE DEF Jobs
    <3> QED BY <1>2, <1>a
  <2>3. /\ r.cmd = job[p].cmd /\ r.today = job[p].today
        /\ r.pc = pc /\ r.todo = job[p].todo /\ r.c = job[p].c
    BY <1>2
  <2> HIDE DEF r, Jobs
  <2> QED BY <1>b, <2>1, <2>2, <2>3
<1>4. ASSUME NEW todo \in SUBSET Names, Loop(p, pc, todo)
      PROVE  Moves(p, pc, todo, NoJob.c)
  <2> DEFINE r == [[[job[p] EXCEPT !.pc = pc] EXCEPT !.todo = todo] EXCEPT !.c = NoJob.c]
  <2>1. job' = [job EXCEPT ![p] = r]
    BY <1>2, <1>4 DEF Loop
  <2>2. r \in Jobs
    <3> HIDE DEF Jobs
    <3> QED BY <1>2, <1>a
  <2>3. /\ r.cmd = job[p].cmd /\ r.today = job[p].today
        /\ r.pc = pc /\ r.todo = todo /\ r.c = NoJob.c
    BY <1>2
  <2> HIDE DEF r, Jobs
  <2> QED BY <1>b, <2>1, <2>2, <2>3
<1>5. ASSUME NEW c, Pick(p, c, pc)
      PROVE  c \in job[p].todo /\ Moves(p, pc, job[p].todo \ {c}, c)
  <2>1. c \in job[p].todo
    BY <1>5 DEF Pick, Next1
  <2>2. c \in Names
    BY <1>2, <2>1
  <2>3. job[p].todo \ {c} \in SUBSET Names
    BY <1>2
  <2>4. /\ \A q \in Callers \ {p} : job'[q] = job[q]
        /\ job'[p] = [[[job[p] EXCEPT !.todo = job[p].todo \ {c}] EXCEPT !.c = c] EXCEPT !.pc = pc]
        /\ DOMAIN job' = DOMAIN job /\ job' = [q \in Callers |-> job'[q]]
    BY <1>2, <1>5 DEF Pick
  <2>5. job'[p] \in Jobs
    <3>1. \A r \in Jobs, todo \in SUBSET Names : [r EXCEPT !.todo = todo] \in Jobs
      OBVIOUS
    <3>2. \A r \in Jobs, d \in Names : [r EXCEPT !.c = d] \in Jobs
      OBVIOUS
    <3>3. \A r \in Jobs : [r EXCEPT !.pc = pc] \in Jobs
      OBVIOUS
    <3> HIDE DEF Jobs
    <3>4. job[p] \in Jobs
      BY <1>2
    <3>5. [job[p] EXCEPT !.todo = job[p].todo \ {c}] \in Jobs
      BY <3>1, <3>4, <2>3
    <3>6. [[job[p] EXCEPT !.todo = job[p].todo \ {c}] EXCEPT !.c = c] \in Jobs
      BY <3>2, <3>5, <2>2
    <3> QED BY <3>3, <3>6, <2>4
  <2>6. job' \in [Callers -> Jobs]
    BY <1>2, <2>4, <2>5
  <2> QED BY <1>2, <2>1, <2>4, <2>6 DEF Moves
<1> QED BY <1>3, <1>4, <1>5
-----------------------------------------------------------------------------
(* What the steps that build the own directory make of it.                 *)
OwnDir(h, top, inc, has) ==
  /\ dir' \in [Hosts -> [Hosts -> Directory]]
  /\ dir'[h][h].top = top /\ dir'[h][h].inc = inc /\ dir'[h][h].has = has
  /\ \A g, d \in Hosts : g # h \/ d # h => dir'[g][d] = dir[g][d]
  /\ \A g, d \in Hosts : dir'[g][d].inc \subseteq Mine(d)

LEMMA Building ==
  ASSUME FilesOK, NEW h \in Hosts, NEW D \in Directory, D.inc \subseteq Mine(h),
         dir' = [dir EXCEPT ![h][h] = D]
  PROVE  OwnDir(h, D.top, D.inc, D.has)
  BY DEF FilesOK, OwnDir

LEMMA Services1 ==
  ASSUME FilesOK, NEW c \in Names
  PROVE  Services(c) \in Service
  BY DEF FilesOK, Services, Service

LEMMA Dirs ==
  ASSUME FilesOK, NEW h \in Hosts, NEW d \in Hosts
  PROVE  /\ dir[h][d] \in Directory /\ dir[h][d].inc \subseteq Mine(d)
         /\ dir[h][d].top \in BOOLEAN /\ dir[h][d].has \in [Names -> Service]
  BY DEF FilesOK, Directory

LEMMA Wiping ==
  ASSUME FilesOK, NEW p \in Callers, Wipe(p)
  PROVE  OwnDir(At[p], FALSE, {}, Empty.has) /\ \A c \in Names : Empty.has[c] = NoService
<1>1. env.last \in Nat /\ Life \in Nat
  BY ConstantsAssumption DEF FilesOK, Env
<1>2. NoService \in Service
  BY <1>1 DEF NoService, NoCert, Service
<1>3. Empty \in Directory /\ dir' = [dir EXCEPT ![At[p]][At[p]] = Empty]
  BY <1>2 DEF Wipe, Empty, Directory
<1>4. At[p] \in Hosts
  BY ConstantsAssumption
<1>5. Empty.top = FALSE /\ Empty.inc = {} /\ \A c \in Names : Empty.has[c] = NoService
  BY DEF Empty
<1> QED BY <1>3, <1>4, <1>5, Building

LEMMA Heading ==
  ASSUME FilesOK, NEW p \in Callers, Header(p)
  PROVE  OwnDir(At[p], TRUE, {}, dir[At[p]][At[p]].has)
<1>1. At[p] \in Hosts
  BY ConstantsAssumption
<1> DEFINE h == At[p]  D == dir[h][h]  E == [[D EXCEPT !.top = TRUE] EXCEPT !.inc = {}]
<1>2. dir \in [Hosts -> [Hosts -> Directory]] /\ D \in Directory
  BY <1>1 DEF FilesOK
<1>3. dir' = [dir EXCEPT ![h][h] = [dir[h][h] EXCEPT !.top = TRUE, !.inc = {}]]
  BY DEF Header
<1>4. dir' = [dir EXCEPT ![h][h] = E]
  BY <1>1, <1>2, <1>3
<1>5. E \in Directory /\ E.top = TRUE /\ E.inc = {} /\ E.has = D.has
  BY <1>2 DEF Directory
<1> HIDE DEF E
<1> QED BY <1>1, <1>4, <1>5, Building

LEMMA Writing ==
  ASSUME FilesOK, NEW p \in Callers, NEW c \in Names, WriteService(p, c)
  PROVE  LET D == dir[At[p]][At[p]] IN
         OwnDir(At[p], D.top, D.inc, [D.has EXCEPT ![c] = Services(c)])
<1>1. At[p] \in Hosts
  BY ConstantsAssumption
<1> DEFINE h == At[p]  D == dir[h][h]  has == [D.has EXCEPT ![c] = Services(c)]
           E == [D EXCEPT !.has = has]
<1>2. dir \in [Hosts -> [Hosts -> Directory]] /\ D \in Directory /\ D.inc \subseteq Mine(h)
  BY <1>1 DEF FilesOK
<1>3. dir' = [dir EXCEPT ![h][h].has[c] = Services(c)]
  BY DEF WriteService
<1>4. dir' = [dir EXCEPT ![h][h] = E]
  BY <1>1, <1>2, <1>3
<1>5. has \in [Names -> Service]
  BY <1>2, Services1 DEF Directory
<1> HIDE DEF has
<1>6. E \in Directory /\ E.top = D.top /\ E.inc = D.inc /\ E.has = has
  BY <1>2, <1>5 DEF Directory
<1> HIDE DEF E
<1>7. OwnDir(h, D.top, D.inc, has)
  BY <1>1, <1>2, <1>4, <1>6, Building
<1> QED BY <1>7 DEF has

LEMMA IncludingIt ==
  ASSUME FilesOK, NEW p \in Callers, IncludeService(p), job[p].c \in Mine(At[p])
  PROVE  LET D == dir[At[p]][At[p]] IN
         OwnDir(At[p], D.top, D.inc \cup {job[p].c}, D.has)
<1>1. At[p] \in Hosts
  BY ConstantsAssumption
<1> DEFINE h == At[p]  D == dir[h][h]  inc == D.inc \cup {job[p].c}
           E == [D EXCEPT !.inc = inc]
<1>2. dir \in [Hosts -> [Hosts -> Directory]] /\ D \in Directory /\ D.inc \subseteq Mine(h)
  BY <1>1 DEF FilesOK
<1>3. dir' = [dir EXCEPT ![h][h].inc = dir[h][h].inc \cup {job[p].c}]
  BY DEF IncludeService
<1>4. dir' = [dir EXCEPT ![h][h] = E]
  BY <1>1, <1>2, <1>3
<1>5. inc \in SUBSET Names /\ inc \subseteq Mine(h)
  BY <1>2 DEF Directory, Mine
<1> HIDE DEF inc
<1>6. E \in Directory /\ E.top = D.top /\ E.inc = inc /\ E.has = D.has
  BY <1>2, <1>5 DEF Directory
<1> HIDE DEF E
<1>7. OwnDir(h, D.top, inc, D.has)
  BY <1>1, <1>4, <1>5, <1>6, Building
<1> QED BY <1>7 DEF inc
-----------------------------------------------------------------------------
(* Types are kept: the commands ...                                        *)
LEMMA JobsMoved ==
  ASSUME JobsOK, env' = env, day' = day, NEW p \in Callers, job[p].cmd # "none",
         NEW pc, NEW todo, NEW c, Moves(p, pc, todo, c),
         pc \in Places(job[p].cmd), pc # "none", todo \subseteq Mine(At[p]),
         pc \in {"deploy", "include", "import", "hosts"} => c \in Mine(At[p])
  PROVE  JobsOK'
<1>1. job' \in [Callers -> JobRecord']
  BY DEF Moves, JobRecord
<1>2. ASSUME NEW q \in Callers
      PROVE  /\ job'[q].pc \in Places(job'[q].cmd)
             /\ job'[q].todo \subseteq Mine(At[q])
             /\ job'[q].pc \in {"deploy", "include", "import"} => job'[q].c \in Mine(At[q])
             /\ job'[q].pc = "hosts" /\ job'[q].cmd = "add" => job'[q].c \in Mine(At[q])
             /\ job'[q].today <= day'
             /\ job'[q].cmd # "none" => job'[q].cmd \in env'.cmds[At[q]]
  <2>1. CASE q = p
    BY <2>1 DEF Moves, JobsOK
  <2>2. CASE q # p
    BY <2>2 DEF Moves, JobsOK
  <2> QED BY <2>1, <2>2
<1>3. \A q \in Callers : job'[q].cmd = job[q].cmd
  BY DEF Moves
<1>4. ASSUME NEW q \in Callers, NEW r \in Callers, job'[q].cmd # "none", job'[r].cmd # "none"
      PROVE  q = r \/ (At[q] = At[r] /\ {job'[q].cmd, job'[r].cmd} \subseteq env'.overlap)
  BY <1>3, <1>4 DEF JobsOK
<1>5. \A h : Mine(h)' = Mine(h)
  BY DEF Mine
<1> QED BY <1>1, <1>2, <1>4, <1>5 DEF JobsOK

LEMMA NoJobTyped == env.last \in Nat => NoJob \in JobRecord /\ NoJob.pc \in Places(NoJob.cmd)
<1> DEFINE x == CHOOSE c \in Names : TRUE
<1>1. NoJob = [cmd |-> "none", pc |-> "none", c |-> x, all |-> FALSE, todo |-> {}, today |-> 0]
  BY DEF NoJob
<1> HIDE DEF x
<1>2. NoJob.c = x /\ NoJob.cmd = "none" /\ NoJob.pc = "none"
  BY <1>1
<1> QED BY <1>1, <1>2 DEF JobRecord, Cases, PlaceNames, Places

LEMMA JobsLeft ==
  ASSUME FilesOK, JobsOK, env' = env, day' = day, NEW p \in Callers, Leave(p)
  PROVE  JobsOK' /\ job'[p] = NoJob /\ \A q \in Callers \ {p} : job'[q] = job[q]
<1>1. env.last \in Nat /\ day \in Nat
  BY ConstantsAssumption DEF FilesOK, Env
<1>2. job' \in [Callers -> JobRecord] /\ job'[p] = NoJob /\ \A q \in Callers \ {p} : job'[q] = job[q]
  BY <1>1, NoJobTyped DEF JobsOK, Leave
<1>3. JobRecord' = JobRecord
  BY DEF JobRecord
<1>4. NoJob.cmd = "none" /\ NoJob.pc = "none" /\ NoJob.todo = {} /\ NoJob.today = 0
  BY DEF NoJob
<1>5. ASSUME NEW q \in Callers
      PROVE  /\ job'[q].pc \in Places(job'[q].cmd)
             /\ job'[q].todo \subseteq Mine(At[q])
             /\ job'[q].pc \in {"deploy", "include", "import"} => job'[q].c \in Mine(At[q])
             /\ job'[q].pc = "hosts" /\ job'[q].cmd = "add" => job'[q].c \in Mine(At[q])
             /\ job'[q].today <= day'
             /\ job'[q].cmd # "none" => job'[q].cmd \in env'.cmds[At[q]]
  <2>1. CASE q = p
    BY <2>1, <1>1, <1>2, <1>4, NoJobTyped
  <2>2. CASE q # p
    BY <2>2, <1>2 DEF JobsOK
  <2> QED BY <2>1, <2>2
<1>6. ASSUME NEW q \in Callers, NEW r \in Callers, job'[q].cmd # "none", job'[r].cmd # "none"
      PROVE  q = r \/ (At[q] = At[r] /\ {job'[q].cmd, job'[r].cmd} \subseteq env'.overlap)
  BY <1>2, <1>4, <1>6 DEF JobsOK
<1>7. \A h : Mine(h)' = Mine(h)
  BY DEF Mine
<1>8. JobsOK'
  BY <1>2, <1>3, <1>5, <1>6, <1>7 DEF JobsOK
<1> QED BY <1>2, <1>8

LEMMA JobsStarted ==
  ASSUME FilesOK, JobsOK, env' = env, NEW p \in Callers,
         NEW cmd \in Cases \ {"none"}, NEW c \in Names \cup {NoJob.c}, NEW all \in BOOLEAN,
         cmd \in {"add", "import-crt"} => c \in Mine(At[p]),
         Start(p, cmd, c, all)
  PROVE  /\ JobsOK'
         /\ \A q \in Callers \ {p} : job'[q] = job[q]
         /\ job[p].cmd = "none" /\ job'[p].cmd = cmd /\ job'[p].pc = First(cmd) /\ job'[p].c = c
         /\ job'[p].todo = {} /\ job'[p].today = day /\ First(cmd) \in {"hosts", "wipe", "import"}
<1>1. env.last \in Nat /\ day \in 1 .. env.last
  BY ConstantsAssumption DEF FilesOK, Env
<1>2. First(cmd) \in PlaceNames /\ First(cmd) \in Places(cmd)
      /\ First(cmd) \in {"hosts", "wipe", "import"}
      /\ (First(cmd) = "hosts" <=> cmd \in {"add", "remove", "regenerate"})
      /\ (First(cmd) = "import" <=> cmd = "import-crt")
  BY DEF First, Cases, Places, PlaceNames
<1> DEFINE j == [NoJob EXCEPT !.cmd = cmd, !.pc = First(cmd), !.c = c, !.all = all,
                              !.today = day]
<1>3. NoJob \in JobRecord /\ NoJob.todo = {}
  BY <1>1, NoJobTyped DEF NoJob
<1>4. /\ j \in JobRecord /\ j.cmd = cmd /\ j.pc = First(cmd) /\ j.c = c
      /\ j.todo = {} /\ j.today = day
  <2> HIDE DEF NoJob
  <2>1. NoJob \in [cmd : Cases, pc : PlaceNames, c : Names \cup {NoJob.c},
                   all : BOOLEAN, todo : SUBSET Names, today : 0 .. env.last]
    BY <1>3 DEF JobRecord
  <2>2. cmd \in Cases /\ First(cmd) \in PlaceNames /\ day \in 0 .. env.last
    BY <1>1, <1>2
  <2> HIDE DEF First
  <2>3. j \in [cmd : Cases, pc : PlaceNames, c : Names \cup {NoJob.c},
               all : BOOLEAN, todo : SUBSET Names, today : 0 .. env.last]
    BY <2>1, <2>2
  <2>4. j.cmd = cmd /\ j.pc = First(cmd) /\ j.c = c /\ j.todo = NoJob.todo /\ j.today = day
    BY <2>1
  <2> QED BY <1>3, <2>3, <2>4 DEF JobRecord
<1>5. job' = [job EXCEPT ![p] = j]
  BY DEF Start
<1> HIDE DEF j
<1>6. /\ job' \in [Callers -> JobRecord] /\ job'[p] = j
      /\ \A q \in Callers \ {p} : job'[q] = job[q]
  BY <1>4, <1>5 DEF JobsOK
<1>7. j.cmd = cmd /\ j.pc = First(cmd) /\ j.c = c /\ j.todo = {} /\ j.today = day
  BY <1>4
<1>8. JobRecord' = JobRecord /\ day' = day
  BY DEF JobRecord, Start, times
<1>9. cmd \in env.cmds[At[p]] /\ job[p].cmd = "none"
  BY DEF Start
<1>10. ASSUME NEW q \in Callers
      PROVE  /\ job'[q].pc \in Places(job'[q].cmd)
             /\ job'[q].todo \subseteq Mine(At[q])
             /\ job'[q].pc \in {"deploy", "include", "import"} => job'[q].c \in Mine(At[q])
             /\ job'[q].pc = "hosts" /\ job'[q].cmd = "add" => job'[q].c \in Mine(At[q])
             /\ job'[q].today <= day'
             /\ job'[q].cmd # "none" => job'[q].cmd \in env'.cmds[At[q]]
  <2>1. CASE q = p
    BY <2>1, <1>1, <1>2, <1>6, <1>7, <1>8, <1>9
  <2>2. CASE q # p
    BY <2>2, <1>6, <1>8 DEF JobsOK
  <2> QED BY <2>1, <2>2
<1>11. ASSUME NEW q \in Callers, NEW r \in Callers, job'[q].cmd # "none", job'[r].cmd # "none"
      PROVE  q = r \/ (At[q] = At[r] /\ {job'[q].cmd, job'[r].cmd} \subseteq env'.overlap)
  <2>1. \A s \in Active : At[s] = At[p] /\ {cmd, job[s].cmd} \subseteq env.overlap
    BY DEF Start
  <2>2. \A s \in Callers : s # p /\ job'[s].cmd # "none" => s \in Active
    BY <1>6 DEF Active
  <2>3. CASE q = p
    BY <2>1, <2>2, <2>3, <1>6, <1>7, <1>11
  <2>4. CASE r = p
    BY <2>1, <2>2, <2>4, <1>6, <1>7, <1>11
  <2>5. CASE q # p /\ r # p
    BY <2>5, <1>6, <1>11 DEF JobsOK
  <2> QED BY <2>3, <2>4, <2>5
<1>12. \A h : Mine(h)' = Mine(h)
  BY DEF Mine
<1>13. JobsOK'
  BY <1>6, <1>8, <1>10, <1>11, <1>12 DEF JobsOK
<1> QED BY <1>2, <1>6, <1>7, <1>9, <1>13
-----------------------------------------------------------------------------
(* Where each step of a command leads.                                     *)
LEMMA Leading ==
  ASSUME FilesOK, JobsOK, NEW p \in Callers
  PROVE  /\ EtcHosts(p) => job[p].pc = "hosts" /\
            \/ job[p].cmd = "add" /\ Moves(p, "acme", {job[p].c}, NoJob.c)
            \/ job[p].cmd = "regenerate" /\ Moves(p, "stamp", job[p].todo, job[p].c)
            \/ job[p].cmd = "remove" /\ Moves(p, "wipe", job[p].todo, job[p].c)
         /\ Stamp(p) => job[p].pc = "stamp" /\
            \/ Moves(p, "wipe", job[p].todo, job[p].c)
            \/ Moves(p, "acme", Own(At[p]), NoJob.c)
         /\ AcmeDone(p) => job[p].pc = "acme" /\
            job[p].todo = {} /\ Moves(p, "wipe", job[p].todo, job[p].c)
         /\ Deploy(p) => job[p].pc = "deploy" /\
            Moves(p, "acme", job[p].todo, NoJob.c)
         /\ Import(p) => job[p].pc = "import" /\
            Moves(p, "restart", job[p].todo, job[p].c)
         /\ Wipe(p) => job[p].pc = "wipe" /\
            Moves(p, "header", job[p].todo, job[p].c)
         /\ Header(p) => job[p].pc = "header" /\
            Moves(p, "write", Own(At[p]), NoJob.c)
         /\ IncludeService(p) => job[p].pc = "include" /\
            Moves(p, "write", job[p].todo, NoJob.c)
         /\ WriteDone(p) => job[p].pc = "write" /\
            /\ job[p].todo = {}
            /\ Moves(p, IF job[p].cmd \in {"add", "regenerate"} THEN "truncate" ELSE "restart",
                     job[p].todo, job[p].c)
         /\ Truncate(p) => job[p].pc = "truncate" /\
            Moves(p, "fetch", job[p].todo, job[p].c)
         /\ Fetch(p) => job[p].pc = "fetch" /\
            Moves(p, "own", job[p].todo, job[p].c)
         /\ AddOwn(p) => job[p].pc = "own" /\
            Moves(p, "peers", job[p].todo, job[p].c)
         /\ AddPeers(p) => job[p].pc = "peers" /\
            Moves(p, "restart", job[p].todo, job[p].c)
<1> USE DEF On
<1>1. Own(At[p]) \in SUBSET Names
  BY DEF Own
<1>2. job[p].todo \in SUBSET Names /\ job[p].c \in Names \cup {NoJob.c}
  BY DEF JobsOK, JobRecord
<1>3. \A pc \in PlaceNames : To(p, pc) => Moves(p, pc, job[p].todo, job[p].c)
  BY Going
<1>4. \A pc \in PlaceNames, todo \in SUBSET Names :
        Loop(p, pc, todo) => Moves(p, pc, todo, NoJob.c)
  BY Going
<1>5. /\ {"acme", "stamp", "wipe", "restart", "header", "write", "truncate", "fetch", "own",
          "peers"} \subseteq PlaceNames
  BY DEF PlaceNames
<1> HIDE DEF JobsOK
<1>6. EtcHosts(p) => job[p].pc = "hosts" /\
        \/ job[p].cmd = "add" /\ Moves(p, "acme", {job[p].c}, NoJob.c)
        \/ job[p].cmd = "regenerate" /\ Moves(p, "stamp", job[p].todo, job[p].c)
        \/ job[p].cmd = "remove" /\ Moves(p, "wipe", job[p].todo, job[p].c)
  <2> SUFFICES ASSUME EtcHosts(p)
               PROVE  job[p].pc = "hosts" /\
                 \/ job[p].cmd = "add" /\ Moves(p, "acme", {job[p].c}, NoJob.c)
                 \/ job[p].cmd = "regenerate" /\ Moves(p, "stamp", job[p].todo, job[p].c)
                 \/ job[p].cmd = "remove" /\ Moves(p, "wipe", job[p].todo, job[p].c)
    OBVIOUS
  <2>1. job[p].pc = "hosts"
    BY DEF EtcHosts
  <2>2. job[p].cmd \in {"add", "remove", "regenerate"}
    BY <2>1, Placed
  <2>3. CASE job[p].cmd = "add"
    <3>1. job[p].c \in Names
      BY <2>1, <2>3 DEF JobsOK, Mine
    <3>2. Loop(p, "acme", {job[p].c})
      BY <2>3 DEF EtcHosts
    <3> QED BY <1>4, <1>5, <2>1, <2>3, <3>1, <3>2
  <2>4. CASE job[p].cmd = "regenerate"
    <3>1. To(p, "stamp")
      BY <2>4 DEF EtcHosts
    <3> QED BY <1>3, <1>5, <2>1, <2>4, <3>1
  <2>5. CASE job[p].cmd = "remove"
    <3>1. To(p, "wipe")
      BY <2>5 DEF EtcHosts
    <3> QED BY <1>3, <1>5, <2>1, <2>5, <3>1
  <2> QED BY <2>2, <2>3, <2>4, <2>5
<1>7. Stamp(p) => job[p].pc = "stamp" /\
        \/ Moves(p, "wipe", job[p].todo, job[p].c)
        \/ Moves(p, "acme", Own(At[p]), NoJob.c)
  BY <1>1, <1>2, <1>3, <1>4, <1>5 DEF Stamp
<1>8. AcmeDone(p) => job[p].pc = "acme" /\
        job[p].todo = {} /\ Moves(p, "wipe", job[p].todo, job[p].c)
  BY <1>1, <1>2, <1>3, <1>4, <1>5 DEF AcmeDone
<1>9. Deploy(p) => job[p].pc = "deploy" /\
        Moves(p, "acme", job[p].todo, NoJob.c)
  BY <1>1, <1>2, <1>3, <1>4, <1>5 DEF Deploy
<1>10. Import(p) => job[p].pc = "import" /\
        Moves(p, "restart", job[p].todo, job[p].c)
  BY <1>1, <1>2, <1>3, <1>4, <1>5 DEF Import
<1>11. Wipe(p) => job[p].pc = "wipe" /\
        Moves(p, "header", job[p].todo, job[p].c)
  BY <1>1, <1>2, <1>3, <1>4, <1>5 DEF Wipe
<1>12. Header(p) => job[p].pc = "header" /\
        Moves(p, "write", Own(At[p]), NoJob.c)
  BY <1>1, <1>2, <1>3, <1>4, <1>5 DEF Header
<1>13. IncludeService(p) => job[p].pc = "include" /\
        Moves(p, "write", job[p].todo, NoJob.c)
  BY <1>1, <1>2, <1>3, <1>4, <1>5 DEF IncludeService
<1>14. WriteDone(p) => job[p].pc = "write" /\
        /\ job[p].todo = {}
        /\ Moves(p, IF job[p].cmd \in {"add", "regenerate"} THEN "truncate" ELSE "restart",
                 job[p].todo, job[p].c)
  BY <1>1, <1>2, <1>3, <1>4, <1>5 DEF WriteDone
<1>15. Truncate(p) => job[p].pc = "truncate" /\
        Moves(p, "fetch", job[p].todo, job[p].c)
  BY <1>1, <1>2, <1>3, <1>4, <1>5 DEF Truncate
<1>16. Fetch(p) => job[p].pc = "fetch" /\
        Moves(p, "own", job[p].todo, job[p].c)
  BY <1>1, <1>2, <1>3, <1>4, <1>5 DEF Fetch
<1>17. AddOwn(p) => job[p].pc = "own" /\
        Moves(p, "peers", job[p].todo, job[p].c)
  BY <1>1, <1>2, <1>3, <1>4, <1>5 DEF AddOwn
<1>18. AddPeers(p) => job[p].pc = "peers" /\
        Moves(p, "restart", job[p].todo, job[p].c)
  BY <1>1, <1>2, <1>3, <1>4, <1>5 DEF AddPeers
<1> QED BY <1>6, <1>7, <1>8, <1>9, <1>10, <1>11, <1>12, <1>13, <1>14, <1>15, <1>16, <1>17, <1>18

(* A step of a command takes no certificate out of the hands of another,   *)
(* nor out of its own unless it is getting them.                           *)
LEMMA Untaken ==
  ASSUME NEW p \in Callers, NEW pc, NEW todo, NEW c, Moves(p, pc, todo, c), NEW h, NEW k,
         job[p].pc \notin {"acme", "deploy"} \/ job[p].todo = {}
  PROVE  Getting(h, k) => Getting(h, k)'
<1> SUFFICES ASSUME NEW q \in Callers, At1(q, h, {"acme", "deploy"}),
                    job[q].cmd = "regenerate", k \in job[q].todo
             PROVE  Getting(h, k)'
  BY DEF Getting
<1>1. q # p
  BY DEF At1
<1>2. job'[q] = job[q]
  BY <1>1 DEF Moves
<1> QED BY <1>2 DEF Getting, At1

(* A step of a command to another place than deploy puts no command there. *)
LEMMA Undeployed ==
  ASSUME NEW p \in Callers, NEW pc, NEW todo, NEW c, Moves(p, pc, todo, c), pc # "deploy"
  PROVE  \A q \in Callers :
           job'[q].pc = "deploy" => job[q].pc = "deploy" /\ job'[q].c = job[q].c
<1> SUFFICES ASSUME NEW q \in Callers, job'[q].pc = "deploy"
             PROVE  job'[q] = job[q]
  OBVIOUS
<1>1. q # p
  BY DEF Moves
<1> QED BY <1>1 DEF Moves

LEMMA LeadingTo ==
  ASSUME FilesOK, JobsOK, NEW p \in Callers, NEW c \in Names
  PROVE  /\ AcmeSkip(p, c) => job[p].pc = "acme" /\ c \in job[p].todo /\
            Moves(p, "acme", job[p].todo \ {c}, c)
         /\ AcmeDeploy(p, c) => job[p].pc = "acme" /\ c \in job[p].todo /\
            Moves(p, "deploy", job[p].todo \ {c}, c)
         /\ AcmeGet(p, c) => job[p].pc = "acme" /\ c \in job[p].todo /\
            \/ Moves(p, "deploy", job[p].todo \ {c}, c)
            \/ Moves(p, "acme", job[p].todo \ {c}, c)
         /\ WriteService(p, c) => job[p].pc = "write" /\ c \in job[p].todo /\
            Moves(p, "include", job[p].todo \ {c}, c)
<1> USE DEF On
<1>1. \A pc \in PlaceNames : Pick(p, c, pc) =>
        c \in job[p].todo /\ Moves(p, pc, job[p].todo \ {c}, c)
  BY Going
<1>2. {"acme", "deploy", "include"} \subseteq PlaceNames
  BY DEF PlaceNames
<1> HIDE DEF JobsOK
<1>3. AcmeSkip(p, c) => job[p].pc = "acme" /\ c \in job[p].todo /\
        Moves(p, "acme", job[p].todo \ {c}, c)
  BY <1>1, <1>2 DEF AcmeSkip
<1>4. AcmeDeploy(p, c) => job[p].pc = "acme" /\ c \in job[p].todo /\
        Moves(p, "deploy", job[p].todo \ {c}, c)
  BY <1>1, <1>2 DEF AcmeDeploy
<1>5. AcmeGet(p, c) => job[p].pc = "acme" /\ c \in job[p].todo /\
        \/ Moves(p, "deploy", job[p].todo \ {c}, c)
        \/ Moves(p, "acme", job[p].todo \ {c}, c)
  BY <1>1, <1>2 DEF AcmeGet
<1>6. WriteService(p, c) => job[p].pc = "write" /\ c \in job[p].todo /\
        Moves(p, "include", job[p].todo \ {c}, c)
  BY <1>1, <1>2 DEF WriteService
<1> QED BY <1>3, <1>4, <1>5, <1>6
-----------------------------------------------------------------------------
(* The next place of a command is one of its places.                       *)
LEMMA Following ==
  ASSUME NEW cmd \in Cases, NEW pc \in Places(cmd)
  PROVE  /\ pc = "hosts" /\ cmd = "add" => "acme" \in Places(cmd)
         /\ pc = "hosts" /\ cmd = "regenerate" => "stamp" \in Places(cmd)
         /\ pc = "hosts" /\ cmd = "remove" => "wipe" \in Places(cmd)
         /\ pc \in {"stamp", "acme", "deploy"} => {"acme", "deploy", "wipe"} \subseteq Places(cmd)
         /\ pc = "import" => "restart" \in Places(cmd)
         /\ pc \in {"wipe", "header", "write", "include"} =>
              {"header", "write", "include"} \subseteq Places(cmd)
         /\ pc = "write" =>
              (IF cmd \in {"add", "regenerate"} THEN "truncate" ELSE "restart") \in Places(cmd)
         /\ pc \in {"truncate", "fetch", "own", "peers"} =>
              {"fetch", "own", "peers", "restart"} \subseteq Places(cmd)
  BY DEF Cases, Places

LEMMA FollowingIt ==
  ASSUME JobsOK, NEW p \in Callers
  PROVE  LET pc == job[p].pc cmd == job[p].cmd IN
         /\ pc = "hosts" /\ cmd = "add" => "acme" \in Places(cmd)
         /\ pc = "hosts" /\ cmd = "regenerate" => "stamp" \in Places(cmd)
         /\ pc = "hosts" /\ cmd = "remove" => "wipe" \in Places(cmd)
         /\ pc \in {"stamp", "acme", "deploy"} => {"acme", "deploy", "wipe"} \subseteq Places(cmd)
         /\ pc = "import" => "restart" \in Places(cmd)
         /\ pc \in {"wipe", "header", "write", "include"} =>
              {"header", "write", "include"} \subseteq Places(cmd)
         /\ pc = "write" =>
              (IF cmd \in {"add", "regenerate"} THEN "truncate" ELSE "restart") \in Places(cmd)
         /\ pc \in {"truncate", "fetch", "own", "peers"} =>
              {"fetch", "own", "peers", "restart"} \subseteq Places(cmd)
<1>1. job[p].cmd \in Cases /\ job[p].pc \in Places(job[p].cmd)
  BY DEF JobsOK, JobRecord
<1> QED BY <1>1, Following

LEMMA JobsKept ==
  ASSUME FilesOK, JobsOK, [Next]_vars
  PROVE  JobsOK'
<1>1. \A h : Own(h) \subseteq Mine(h)
  BY DEF Own, Mine
<1>2. env' = env
  BY DEF Next, Goes, Again, vars
<1>3. ASSUME NEW p \in Callers, NEW c \in Names, Add(p, c)
      PROVE  JobsOK'
  <2>1. Start(p, "add", c, FALSE) /\ c \in Mine(At[p]) /\ c \in Names
    BY <1>3 DEF Add, Own, Mine
  <2>2. "add" \in Cases
    BY DEF Cases
  <2> QED BY <1>2, <2>1, <2>2, JobsStarted
<1>4. ASSUME NEW p \in Callers, NEW c \in Names, Remove(p, c)
      PROVE  JobsOK'
  <2>1. Start(p, "remove", c, FALSE)
    BY <1>4 DEF Remove, Own, Mine
  <2>2. "remove" \in Cases
    BY DEF Cases
  <2> QED BY <1>2, <2>1, <2>2, JobsStarted
<1>5. ASSUME NEW p \in Callers, NEW c \in Names, Settings(p, c)
      PROVE  JobsOK'
  <2>1. Start(p, "settings", c, FALSE)
    BY <1>5 DEF Settings, Own, Mine
  <2>2. "settings" \in Cases
    BY DEF Cases
  <2> QED BY <1>2, <2>1, <2>2, JobsStarted
<1>6. ASSUME NEW p \in Callers, NEW c \in Names, ImportCrt(p, c)
      PROVE  JobsOK'
  <2>1. Start(p, "import-crt", c, FALSE) /\ c \in Mine(At[p])
    BY <1>6 DEF ImportCrt, Own, Mine
  <2>2. "import-crt" \in Cases
    BY DEF Cases
  <2> QED BY <1>2, <2>1, <2>2, JobsStarted
<1>7. ASSUME NEW p \in Callers, NEW all \in BOOLEAN, Regenerate(p, all)
      PROVE  JobsOK'
  <2>1. Start(p, "regenerate", NoJob.c, all)
    BY <1>7 DEF Regenerate, Own, Mine
  <2>2. "regenerate" \in Cases
    BY DEF Cases
  <2> QED BY <1>2, <2>1, <2>2, JobsStarted
<1>8. ASSUME NEW p \in Callers, Diagnose(p)
      PROVE  JobsOK'
  <2>1. job' = job /\ day' = day
    BY <1>8 DEF Diagnose, times
  <2>2. JobsOK' <=> JobsOK
    BY <1>2, <2>1 DEF JobsOK, JobRecord, Mine
  <2> QED BY <2>2
<1>9. ASSUME NEW p \in Callers, EtcHosts(p)
      PROVE  JobsOK'
  <2>1. day' = day
    BY <1>9 DEF EtcHosts, times
  <2>2. job[p].cmd # "none" /\ job[p].todo \subseteq Mine(At[p]) /\ job[p].pc = "hosts"
    BY <1>9, Placed, Leading
  <2>3. CASE job[p].cmd = "add" /\ Moves(p, "acme", {job[p].c}, NoJob.c)
    <3>1. job[p].c \in Mine(At[p])
      BY <2>2, <2>3 DEF JobsOK
    <3> QED BY <1>2, <2>1, <2>2, <2>3, <3>1, FollowingIt, JobsMoved
  <2>4. CASE job[p].cmd = "regenerate" /\ Moves(p, "stamp", job[p].todo, job[p].c)
    BY <1>2, <2>1, <2>2, <2>4, FollowingIt, JobsMoved
  <2>5. CASE job[p].cmd = "remove" /\ Moves(p, "wipe", job[p].todo, job[p].c)
    BY <1>2, <2>1, <2>2, <2>5, FollowingIt, JobsMoved
  <2> QED BY <1>9, <2>3, <2>4, <2>5, Leading
<1>10. ASSUME NEW p \in Callers, Stamp(p)
      PROVE  JobsOK'
  <2>1. day' = day
    BY <1>10 DEF Stamp, times
  <2>2. job[p].cmd # "none" /\ job[p].todo \subseteq Mine(At[p])
    BY <1>10, Placed, Leading
  <2> QED BY <1>10, <1>1, <1>2, <2>1, <2>2, Leading, FollowingIt, JobsMoved
<1>11. ASSUME NEW p \in Callers, AcmeDone(p)
      PROVE  JobsOK'
  <2>1. day' = day
    BY <1>11 DEF AcmeDone, times
  <2>2. job[p].cmd # "none" /\ job[p].todo \subseteq Mine(At[p])
    BY <1>11, Placed, Leading
  <2> QED BY <1>11, <1>1, <1>2, <2>1, <2>2, Leading, FollowingIt, JobsMoved
<1>12. ASSUME NEW p \in Callers, Deploy(p)
      PROVE  JobsOK'
  <2>1. day' = day
    BY <1>12 DEF Deploy, times
  <2>2. job[p].cmd # "none" /\ job[p].todo \subseteq Mine(At[p])
    BY <1>12, Placed, Leading
  <2> QED BY <1>12, <1>1, <1>2, <2>1, <2>2, Leading, FollowingIt, JobsMoved
<1>13. ASSUME NEW p \in Callers, Import(p)
      PROVE  JobsOK'
  <2>1. day' = day
    BY <1>13 DEF Import, times
  <2>2. job[p].cmd # "none" /\ job[p].todo \subseteq Mine(At[p])
    BY <1>13, Placed, Leading
  <2> QED BY <1>13, <1>1, <1>2, <2>1, <2>2, Leading, FollowingIt, JobsMoved
<1>14. ASSUME NEW p \in Callers, Wipe(p)
      PROVE  JobsOK'
  <2>1. day' = day
    BY <1>14 DEF Wipe, times
  <2>2. job[p].cmd # "none" /\ job[p].todo \subseteq Mine(At[p])
    BY <1>14, Placed, Leading
  <2> QED BY <1>14, <1>1, <1>2, <2>1, <2>2, Leading, FollowingIt, JobsMoved
<1>15. ASSUME NEW p \in Callers, Header(p)
      PROVE  JobsOK'
  <2>1. day' = day
    BY <1>15 DEF Header, times
  <2>2. job[p].cmd # "none" /\ job[p].todo \subseteq Mine(At[p])
    BY <1>15, Placed, Leading
  <2> QED BY <1>15, <1>1, <1>2, <2>1, <2>2, Leading, FollowingIt, JobsMoved
<1>16. ASSUME NEW p \in Callers, IncludeService(p)
      PROVE  JobsOK'
  <2>1. day' = day
    BY <1>16 DEF IncludeService, times
  <2>2. job[p].cmd # "none" /\ job[p].todo \subseteq Mine(At[p])
    BY <1>16, Placed, Leading
  <2> QED BY <1>16, <1>1, <1>2, <2>1, <2>2, Leading, FollowingIt, JobsMoved
<1>17. ASSUME NEW p \in Callers, WriteDone(p)
      PROVE  JobsOK'
  <2>1. day' = day
    BY <1>17 DEF WriteDone, times
  <2>2. job[p].cmd # "none" /\ job[p].todo \subseteq Mine(At[p]) /\ job[p].pc = "write"
    BY <1>17, Placed, Leading
  <2>3. PICK pc \in {"truncate", "restart"} :
          Moves(p, pc, job[p].todo, job[p].c) /\ pc \in Places(job[p].cmd)
    BY <1>17, <2>2, Leading, FollowingIt
  <2> QED BY <1>2, <2>1, <2>2, <2>3, JobsMoved
<1>18. ASSUME NEW p \in Callers, Truncate(p)
      PROVE  JobsOK'
  <2>1. day' = day
    BY <1>18 DEF Truncate, times
  <2>2. job[p].cmd # "none" /\ job[p].todo \subseteq Mine(At[p])
    BY <1>18, Placed, Leading
  <2> QED BY <1>18, <1>1, <1>2, <2>1, <2>2, Leading, FollowingIt, JobsMoved
<1>19. ASSUME NEW p \in Callers, Fetch(p)
      PROVE  JobsOK'
  <2>1. day' = day
    BY <1>19 DEF Fetch, times
  <2>2. job[p].cmd # "none" /\ job[p].todo \subseteq Mine(At[p])
    BY <1>19, Placed, Leading
  <2> QED BY <1>19, <1>1, <1>2, <2>1, <2>2, Leading, FollowingIt, JobsMoved
<1>20. ASSUME NEW p \in Callers, AddOwn(p)
      PROVE  JobsOK'
  <2>1. day' = day
    BY <1>20 DEF AddOwn, times
  <2>2. job[p].cmd # "none" /\ job[p].todo \subseteq Mine(At[p])
    BY <1>20, Placed, Leading
  <2> QED BY <1>20, <1>1, <1>2, <2>1, <2>2, Leading, FollowingIt, JobsMoved
<1>21. ASSUME NEW p \in Callers, AddPeers(p)
      PROVE  JobsOK'
  <2>1. day' = day
    BY <1>21 DEF AddPeers, times
  <2>2. job[p].cmd # "none" /\ job[p].todo \subseteq Mine(At[p])
    BY <1>21, Placed, Leading
  <2> QED BY <1>21, <1>1, <1>2, <2>1, <2>2, Leading, FollowingIt, JobsMoved
<1>22. ASSUME NEW p \in Callers, Restart(p)
      PROVE  JobsOK'
  <2>1. day' = day /\ Leave(p)
    BY <1>22 DEF Restart
  <2> QED BY <1>2, <2>1, JobsLeft
<1>23. ASSUME NEW p \in Callers, NEW c \in Names, AcmeSkip(p, c)
      PROVE  JobsOK'
  <2>1. day' = day
    BY <1>23 DEF AcmeSkip, times
  <2>2. job[p].cmd # "none" /\ c \in Mine(At[p]) /\ job[p].todo \ {c} \subseteq Mine(At[p])
    BY <1>23, Placed, LeadingTo
  <2>3. PICK pc \in {"acme", "deploy", "include"} :
          Moves(p, pc, job[p].todo \ {c}, c) /\ pc \in Places(job[p].cmd)
    BY <1>23, LeadingTo, FollowingIt
  <2> QED BY <1>2, <2>1, <2>2, <2>3, JobsMoved
<1>24. ASSUME NEW p \in Callers, NEW c \in Names, AcmeDeploy(p, c)
      PROVE  JobsOK'
  <2>1. day' = day
    BY <1>24 DEF AcmeDeploy, times
  <2>2. job[p].cmd # "none" /\ c \in Mine(At[p]) /\ job[p].todo \ {c} \subseteq Mine(At[p])
    BY <1>24, Placed, LeadingTo
  <2>3. PICK pc \in {"acme", "deploy", "include"} :
          Moves(p, pc, job[p].todo \ {c}, c) /\ pc \in Places(job[p].cmd)
    BY <1>24, LeadingTo, FollowingIt
  <2> QED BY <1>2, <2>1, <2>2, <2>3, JobsMoved
<1>25. ASSUME NEW p \in Callers, NEW c \in Names, AcmeExit(p, c)
      PROVE  JobsOK'
  <2>1. day' = day /\ Leave(p)
    BY <1>25 DEF AcmeExit, times
  <2> QED BY <1>2, <2>1, JobsLeft
<1>26. ASSUME NEW p \in Callers, NEW c \in Names, AcmeGet(p, c)
      PROVE  JobsOK'
  <2>1. day' = day
    BY <1>26 DEF AcmeGet, times
  <2>2. job[p].cmd # "none" /\ c \in Mine(At[p]) /\ job[p].todo \ {c} \subseteq Mine(At[p])
    BY <1>26, Placed, LeadingTo
  <2>3. PICK pc \in {"acme", "deploy", "include"} :
          Moves(p, pc, job[p].todo \ {c}, c) /\ pc \in Places(job[p].cmd)
    BY <1>26, LeadingTo, FollowingIt
  <2> QED BY <1>2, <2>1, <2>2, <2>3, JobsMoved
<1>27. ASSUME NEW p \in Callers, NEW c \in Names, WriteService(p, c)
      PROVE  JobsOK'
  <2>1. day' = day
    BY <1>27 DEF WriteService, times
  <2>2. job[p].cmd # "none" /\ c \in Mine(At[p]) /\ job[p].todo \ {c} \subseteq Mine(At[p])
    BY <1>27, Placed, LeadingTo
  <2>3. PICK pc \in {"acme", "deploy", "include"} :
          Moves(p, pc, job[p].todo \ {c}, c) /\ pc \in Places(job[p].cmd)
    BY <1>27, LeadingTo, FollowingIt
  <2> QED BY <1>2, <2>1, <2>2, <2>3, JobsMoved
<1>28. ASSUME NEW h \in Hosts, Crash(h)
      PROVE  JobsOK'
  <2>1. job' = job /\ day' = day
    BY <1>28 DEF Crash, times
  <2>2. JobsOK' <=> JobsOK
    BY <1>2, <2>1 DEF JobsOK, JobRecord, Mine
  <2> QED BY <2>2
<1>29. ASSUME Midnight
      PROVE  JobsOK'
  <2>1. job' = job /\ day' = day + 1 /\ day \in Nat
    BY <1>29 DEF Midnight, FilesOK
  <2>2. \A p \in Callers : job'[p].today <= day'
    BY <2>1 DEF JobsOK, JobRecord
  <2> QED BY <1>2, <2>1, <2>2 DEF JobsOK, JobRecord, Mine
<1>30. ASSUME Net
      PROVE  JobsOK'
  <2>1. job' = job /\ day' = day
    BY <1>30 DEF Net, times
  <2>2. JobsOK' <=> JobsOK
    BY <1>2, <2>1 DEF JobsOK, JobRecord, Mine
  <2> QED BY <2>2
<1>31. ASSUME UNCHANGED vars
      PROVE  JobsOK'
  <2>1. job' = job /\ day' = day
    BY <1>31 DEF vars
  <2>2. JobsOK' <=> JobsOK
    BY <1>2, <2>1 DEF JobsOK, JobRecord, Mine
  <2> QED BY <2>2
<1> QED
  BY <1>3, <1>4, <1>5, <1>6, <1>7, <1>8, <1>9, <1>10, <1>11, <1>12, <1>13, <1>14,
     <1>15, <1>16, <1>17, <1>18, <1>19, <1>20, <1>21, <1>22, <1>23, <1>24, <1>25,
     <1>26, <1>27, <1>28, <1>29, <1>30, <1>31, Zenon
  DEF Next, Goes, Certificates, Files, Sync, Command, vars
-----------------------------------------------------------------------------
(* What pound reads: of a container of the host what its own directory has *)
(* of it, if it is included.                                               *)
LEMMA Reading ==
  ASSUME FilesOK, NEW h \in Hosts
  PROVE  /\ Reads(h) \in [Names -> Service]
         /\ \A c \in Mine(h) : Reads(h)[c] =
              IF h \in main[h] /\ c \in dir[h][h].inc THEN dir[h][h].has[c] ELSE NoService
         /\ \A c \in Names : Reads(h)[c] = NoService \/
              \E d \in Hosts : Reads(h)[c] = dir[h][d].has[c]
<1>1. env.last \in Nat /\ Life \in Nat
  BY ConstantsAssumption DEF FilesOK, Env
<1>2. NoService \in Service
  BY <1>1 DEF NoService, NoCert, Service
<1>3. main[h] \subseteq Hosts
  BY DEF FilesOK
<1>4. \A c \in Names : Includes(h, c) \subseteq main[h] /\ Includes(h, c) \subseteq Hosts
  BY <1>3 DEF Includes
<1>5. \A c \in Mine(h) : Includes(h, c) = IF h \in main[h] /\ c \in dir[h][h].inc THEN {h} ELSE {}
  <2> SUFFICES ASSUME NEW c \in Mine(h)
               PROVE  Includes(h, c) = IF h \in main[h] /\ c \in dir[h][h].inc THEN {h} ELSE {}
    OBVIOUS
  <2>1. \A d \in Includes(h, c) : d = h
    BY <1>3, Dirs DEF Includes, Mine
  <2> QED BY <2>1 DEF Includes
<1>6. \A c \in Names : Reads(h)[c] =
        IF h \in Includes(h, c) THEN dir[h][h].has[c]
        ELSE IF Includes(h, c) # {}
          THEN dir[h][CHOOSE d \in Includes(h, c) : TRUE].has[c]
        ELSE NoService
  BY DEF Reads
<1>7. \A c \in Names : Includes(h, c) # {} =>
        (CHOOSE d \in Includes(h, c) : TRUE) \in Includes(h, c)
  OBVIOUS
<1>8. \A c \in Names : Reads(h)[c] = NoService \/
        \E d \in Hosts : Reads(h)[c] = dir[h][d].has[c]
  BY <1>4, <1>6, <1>7
<1>9. \A c \in Names : Reads(h)[c] \in Service
  BY <1>2, <1>8, Dirs
<1>10. Reads(h) = [c \in Names |-> Reads(h)[c]]
  BY DEF Reads
<1>11. Reads(h) \in [Names -> Service]
  BY <1>9, <1>10
<1>12. \A c \in Mine(h) : Reads(h)[c] =
              IF h \in main[h] /\ c \in dir[h][h].inc THEN dir[h][h].has[c] ELSE NoService
  BY <1>5, <1>6 DEF Mine
<1> QED BY <1>8, <1>11, <1>12

(* What is copied from the peers.                                          *)
LEMMA Fetching ==
  ASSUME FilesOK, NEW p \in Callers, Fetch(p)
  PROVE  /\ dir' \in [Hosts -> [Hosts -> Directory]]
         /\ \A g, d \in Hosts : g # At[p] => dir'[g][d] = dir[g][d]
         /\ \A d \in Hosts : dir'[At[p]][d] =
              IF d \in Reached(At[p]) \ {At[p]} /\ dir[d][d].top THEN dir[d][d]
              ELSE dir[At[p]][d]
         /\ \A g, d \in Hosts : dir'[g][d].inc \subseteq Mine(d)
<1>1. At[p] \in Hosts
  BY ConstantsAssumption
<1> DEFINE h == At[p]
           row == [d \in Hosts |-> IF d \in Reached(h) \ {h} /\ dir[d][d].top THEN dir[d][d]
                                   ELSE dir[h][d]]
<1>2. dir' = [dir EXCEPT ![h] = row]
  BY <1>1 DEF Fetch
<1>3. row \in [Hosts -> Directory]
  BY <1>1, Dirs
<1>4. \A d \in Hosts : row[d] = IF d \in Reached(h) \ {h} /\ dir[d][d].top THEN dir[d][d]
                                ELSE dir[h][d]
  OBVIOUS
<1> HIDE DEF row
<1>5. dir \in [Hosts -> [Hosts -> Directory]]
  BY DEF FilesOK
<1>6. \A d \in Hosts : row[d].inc \subseteq Mine(d)
  BY <1>1, <1>4, Dirs
<1>7. dir'[h] = row /\ \A g \in Hosts : g # h => dir'[g] = dir[g]
  BY <1>1, <1>2, <1>5
<1>8. \A g, d \in Hosts : dir'[g][d].inc \subseteq Mine(d)
  BY <1>6, <1>7, Dirs
<1> QED BY <1>2, <1>3, <1>4, <1>5, <1>7, <1>8

LEMMA FilesKept ==
  ASSUME FilesOK, JobsOK, [Next]_vars
  PROVE  FilesOK'
<1>1. env' = env
  BY DEF Next, Goes, Again, vars
<1>2. env.last \in Nat /\ Life \in Nat /\ Margin \in Nat
  BY ConstantsAssumption DEF FilesOK, Env
<1>3. \A h : Mine(h)' = Mine(h)
  BY DEF Mine
<1>4. Directory' = Directory /\ Service' = Service
  BY <1>1 DEF Directory, Service
<1>5. \A p \in Callers : At[p] \in Hosts
  BY ConstantsAssumption
<1>6. ASSUME NEW p \in Callers, NEW c \in Names, Add(p, c)
      PROVE  FilesOK'
  BY <1>6, <1>1, <1>2, <1>3, <1>4, <1>5 DEF FilesOK, certs, files, times, Add, Start, NoCert
<1>7. ASSUME NEW p \in Callers, NEW c \in Names, Remove(p, c)
      PROVE  FilesOK'
  BY <1>7, <1>1, <1>2, <1>3, <1>4, <1>5 DEF FilesOK, certs, files, times, Remove, Start, NoCert
<1>8. ASSUME NEW p \in Callers, NEW c \in Names, Settings(p, c)
      PROVE  FilesOK'
  BY <1>8, <1>1, <1>2, <1>3, <1>4, <1>5 DEF FilesOK, certs, files, times, Settings, Start, NoCert
<1>9. ASSUME NEW p \in Callers, NEW c \in Names, ImportCrt(p, c)
      PROVE  FilesOK'
  BY <1>9, <1>1, <1>2, <1>3, <1>4, <1>5 DEF FilesOK, certs, files, times, ImportCrt, Start, NoCert
<1>10. ASSUME NEW p \in Callers, NEW all \in BOOLEAN, Regenerate(p, all)
      PROVE  FilesOK'
  BY <1>10, <1>1, <1>2, <1>3, <1>4, <1>5 DEF FilesOK, certs, files, times, Regenerate, Start, NoCert
<1>11. ASSUME NEW p \in Callers, Diagnose(p)
      PROVE  FilesOK'
  BY <1>11, <1>1, <1>2, <1>3, <1>4, <1>5 DEF FilesOK, certs, files, times, Diagnose, NoCert, Broken
<1>12. ASSUME NEW p \in Callers, EtcHosts(p)
      PROVE  FilesOK'
  <2>1. known' \in [Hosts -> [Hosts -> SUBSET Names]]
    BY <1>12, <1>5 DEF EtcHosts, FilesOK, Own, Reached
  <2>2. \A g, d \in Hosts : known'[g][d] \subseteq Mine(d)
    BY <1>12, <1>5 DEF EtcHosts, FilesOK, Own, Mine
  <2> QED BY <1>12, <2>1, <2>2, <1>1, <1>2, <1>3, <1>4 DEF FilesOK, certs, times, EtcHosts
<1>13. ASSUME NEW p \in Callers, Stamp(p)
      PROVE  FilesOK'
  <2>1. job[p].today \in 0 .. env.last
    BY Placed
  <2>2. stamp' \in [Hosts -> 0 .. env.last]
    BY <1>13, <2>1, <1>5 DEF FilesOK, Stamp
  <2> QED BY <1>13, <2>2, <1>1, <1>3, <1>4 DEF FilesOK, files, times, Stamp
<1>14. ASSUME NEW p \in Callers, AcmeDone(p)
      PROVE  FilesOK'
  BY <1>14, <1>1, <1>2, <1>3, <1>4, <1>5 DEF FilesOK, certs, files, times, AcmeDone
<1>15. ASSUME NEW p \in Callers, Deploy(p)
      PROVE  FilesOK'
  <2>0. job[p].pc = "deploy"
    BY <1>15, Leading
  <2>1. job[p].c \in Names
    BY <2>0 DEF JobsOK, Mine
  <2>2. pem' \in [Names -> -1 .. env.last + Life]
    BY <1>15, <2>1, <1>2 DEF FilesOK, Deploy
  <2> QED BY <1>15, <2>2, <1>1, <1>3, <1>4 DEF FilesOK, files, times, Deploy
<1>16. ASSUME NEW p \in Callers, Import(p)
      PROVE  FilesOK'
  <2>0. job[p].pc = "import"
    BY <1>16, Leading
  <2>1. job[p].c \in Names
    BY <2>0 DEF JobsOK, Mine
  <2>2. pem' \in [Names -> -1 .. env.last + Life]
    BY <1>16, <2>1, <1>2 DEF FilesOK, Import
  <2> QED BY <1>16, <2>2, <1>1, <1>3, <1>4 DEF FilesOK, files, times, Import
<1>17. ASSUME NEW p \in Callers, Wipe(p)
      PROVE  FilesOK'
  <2>1. OwnDir(At[p], FALSE, {}, Empty.has)
    BY <1>17, Wiping
  <2> QED BY <1>17, <2>1, <1>1, <1>2, <1>3, <1>4 DEF OwnDir, FilesOK, certs, files, times, Wipe
<1>18. ASSUME NEW p \in Callers, Header(p)
      PROVE  FilesOK'
  <2>1. OwnDir(At[p], TRUE, {}, dir[At[p]][At[p]].has)
    BY <1>18, Heading
  <2> QED BY <1>18, <2>1, <1>1, <1>2, <1>3, <1>4 DEF OwnDir, FilesOK, certs, files, times, Header
<1>19. ASSUME NEW p \in Callers, IncludeService(p)
      PROVE  FilesOK'
  <2>a. job[p].pc = "include"
    BY <1>19, Leading
  <2>0. job[p].c \in Mine(At[p])
    BY <2>a DEF JobsOK
  <2>1. OwnDir(At[p], dir[At[p]][At[p]].top, dir[At[p]][At[p]].inc \cup {job[p].c},
            dir[At[p]][At[p]].has)
    BY <1>19, <2>0, IncludingIt
  <2> QED BY <1>19, <2>1, <1>1, <1>2, <1>3, <1>4 DEF OwnDir, FilesOK, certs, files, times, IncludeService
<1>20. ASSUME NEW p \in Callers, WriteDone(p)
      PROVE  FilesOK'
  BY <1>20, <1>1, <1>2, <1>3, <1>4, <1>5 DEF FilesOK, certs, files, times, WriteDone
<1>21. ASSUME NEW p \in Callers, Truncate(p)
      PROVE  FilesOK'
  BY <1>21, <1>1, <1>2, <1>3, <1>4, <1>5 DEF FilesOK, certs, files, times, Truncate
<1>22. ASSUME NEW p \in Callers, Fetch(p)
      PROVE  FilesOK'
  <2>1. /\ dir' \in [Hosts -> [Hosts -> Directory]]
        /\ \A g, d \in Hosts : dir'[g][d].inc \subseteq Mine(d)
    BY <1>22, Fetching
  <2> QED BY <1>22, <2>1, <1>1, <1>2, <1>3, <1>4 DEF FilesOK, certs, times, Fetch
<1>23. ASSUME NEW p \in Callers, AddOwn(p)
      PROVE  FilesOK'
  BY <1>23, <1>1, <1>2, <1>3, <1>4, <1>5 DEF FilesOK, certs, files, times, AddOwn
<1>24. ASSUME NEW p \in Callers, AddPeers(p)
      PROVE  FilesOK'
  BY <1>24, <1>1, <1>2, <1>3, <1>4, <1>5 DEF FilesOK, certs, files, times, AddPeers, Peers
<1>25. ASSUME NEW p \in Callers, Restart(p)
      PROVE  FilesOK'
  <2>1. Reads(At[p]) \in [Names -> Service] /\ Down.reads \in [Names -> Service]
    <3>1. NoService \in Service
      BY <1>2 DEF NoService, NoCert, Service
    <3> QED BY <3>1, <1>5, Reading DEF Down
  <2>2. /\ [up |-> TRUE, reads |-> Reads(At[p])] \in [up : BOOLEAN, reads : [Names -> Service]]
        /\ Down \in [up : BOOLEAN, reads : [Names -> Service]]
    BY <2>1 DEF Down
  <2>3. pound' \in [Hosts -> [up : BOOLEAN, reads : [Names -> Service]]]
    BY <1>25, <2>2, <1>5 DEF Restart, FilesOK
  <2>4. done' \in [Hosts -> BOOLEAN]
    BY <1>25, <1>5 DEF Restart, FilesOK, Env
  <2> QED BY <1>25, <2>3, <2>4, <1>1, <1>2, <1>3, <1>4 DEF FilesOK, certs, files, Restart
<1>26. ASSUME NEW p \in Callers, NEW c \in Names, AcmeSkip(p, c)
      PROVE  FilesOK'
  BY <1>26, <1>1, <1>2, <1>3, <1>4, <1>5 DEF FilesOK, certs, files, times, AcmeSkip
<1>27. ASSUME NEW p \in Callers, NEW c \in Names, AcmeDeploy(p, c)
      PROVE  FilesOK'
  BY <1>27, <1>1, <1>2, <1>3, <1>4, <1>5 DEF FilesOK, certs, files, times,
     AcmeDeploy, NoCert, Broken
<1>28. ASSUME NEW p \in Callers, NEW c \in Names, AcmeExit(p, c)
      PROVE  FilesOK'
  BY <1>28, <1>1, <1>2, <1>3, <1>4, <1>5 DEF FilesOK, certs, files, times, AcmeExit
<1>29. ASSUME NEW p \in Callers, NEW c \in Names, AcmeGet(p, c)
      PROVE  FilesOK'
  <2>1. le' \in [Names -> 0 .. env.last + Life]
    <3>1. le' = [le EXCEPT ![c] = day + Life] \/ le' = le
      BY <1>29 DEF AcmeGet
    <3>2. le \in [Names -> 0 .. env.last + Life] /\ day \in 1 .. env.last
      BY DEF FilesOK
    <3> QED BY <3>1, <3>2, <1>2
  <2>2. pem' \in [Names -> -1 .. env.last + Life]
    <3>1. \E x \in {NoCert, Broken, pem[c]} : pem' = [pem EXCEPT ![c] = x] \/ pem' = pem
      BY <1>29 DEF AcmeGet
    <3>2. pem \in [Names -> -1 .. env.last + Life]
      BY DEF FilesOK
    <3> QED BY <3>1, <3>2, <1>2 DEF NoCert, Broken
  <2> QED BY <1>29, <2>1, <2>2, <1>1, <1>3, <1>4 DEF FilesOK, files, times, AcmeGet
<1>30. ASSUME NEW p \in Callers, NEW c \in Names, WriteService(p, c)
      PROVE  FilesOK'
  <2>1. OwnDir(At[p], dir[At[p]][At[p]].top, dir[At[p]][At[p]].inc,
            [dir[At[p]][At[p]].has EXCEPT ![c] = Services(c)])
    BY <1>30, Writing
  <2> QED BY <1>30, <2>1, <1>1, <1>2, <1>3, <1>4 DEF OwnDir, FilesOK, certs, files, times, WriteService
<1>31. ASSUME NEW h \in Hosts, Crash(h)
      PROVE  FilesOK'
  <2>1. Down.reads \in [Names -> Service] /\ Down \in [up : BOOLEAN, reads : [Names -> Service]]
    BY <1>2 DEF Down, NoService, NoCert, Service
  <2>2. pound' \in [Hosts -> [up : BOOLEAN, reads : [Names -> Service]]]
    BY <1>31, <2>1 DEF Crash, FilesOK
  <2> QED BY <1>31, <2>2, <1>1, <1>2, <1>3, <1>4 DEF FilesOK, certs, files, times, Crash
<1>32. ASSUME Midnight
      PROVE  FilesOK'
  BY <1>32, <1>1, <1>2, <1>3, <1>4, <1>5 DEF FilesOK, certs, files, times, Midnight
<1>33. ASSUME Net
      PROVE  FilesOK'
  BY <1>33, <1>1, <1>2, <1>3, <1>4, <1>5 DEF FilesOK, certs, files, times, Net
<1>34. ASSUME UNCHANGED vars
      PROVE  FilesOK'
  BY <1>34, <1>1, <1>2, <1>3, <1>4, <1>5 DEF FilesOK, certs, files, times, vars
<1> QED
  BY <1>6, <1>7, <1>8, <1>9, <1>10, <1>11, <1>12, <1>13, <1>14, <1>15, <1>16, <1>17,
     <1>18, <1>19, <1>20, <1>21, <1>22, <1>23, <1>24, <1>25, <1>26, <1>27, <1>28,
     <1>29, <1>30, <1>31, <1>32, <1>33, <1>34, Zenon
  DEF Next, Goes, Certificates, Files, Sync, Command, vars
-----------------------------------------------------------------------------
(* The own names and the own directory of a host.                          *)
Away(h) ==
  /\ \A q \in Callers : At[q] = h => job'[q] = job[q]
  /\ \A c \in Mine(h) : ve'[c] = ve[c]
  /\ known'[h][h] = known[h][h] /\ dir'[h][h] = dir[h][h] /\ main'[h] = main[h]
  /\ \A g \in Hosts : dir[g][h].inc = {} /\ dir[h][h].inc = {} => dir'[g][h].inc = {}

Owning(h) == Listed(h) /\ Written(h) /\ Topped(h) /\ Included(h)

LEMMA OwnSame ==
  ASSUME NEW h, \A c \in Mine(h) : ve'[c] = ve[c]
  PROVE  Own(h)' = Own(h)
  BY DEF Own, Mine

LEMMA SameJobs ==
  ASSUME NEW h, \A q \in Callers : At[q] = h => job'[q] = job[q]
  PROVE  /\ \A X : Around(h, X)' <=> Around(h, X)
         /\ \A X : Grows(h, X)' <=> Grows(h, X)
         /\ \A c : InTodo(h, c)' <=> InTodo(h, c)
         /\ \A c : Including(h, c)' <=> Including(h, c)
         /\ \A p \in Callers : \A X : At1(p, h, X)' <=> At1(p, h, X)
  BY DEF Around, Grows, InTodo, Including, At1

LEMMA OwningAway ==
  ASSUME FilesOK, NEW h \in Hosts, Away(h), Owning(h)
  PROVE  Owning(h)'
<1>1. Own(h)' = Own(h) /\ Own(h) \subseteq Mine(h)
  BY OwnSame DEF Away, Own, Mine
<1>2. /\ \A X : Around(h, X)' <=> Around(h, X)
      /\ \A X : Grows(h, X)' <=> Grows(h, X)
      /\ \A c : InTodo(h, c)' <=> InTodo(h, c)
      /\ \A c : Including(h, c)' <=> Including(h, c)
      /\ \A p \in Callers : \A X : At1(p, h, X)' <=> At1(p, h, X)
      /\ \A p \in Callers : \A X : At1(p, h, X) => job'[p] = job[p]
  BY SameJobs DEF Away, At1
<1>3. Listed(h)'
  BY <1>1, <1>2 DEF Listed, Owning, Away
<1>4. Written(h)'
  <2>1. CASE Around(h, Rebuild)
    BY <1>2, <2>1 DEF Written
  <2>2. CASE ~Around(h, Rebuild)
    <3>1. dir[h][h].inc \subseteq Own(h)
      BY <2>2 DEF Owning, Written
    <3>2. \A c \in Names : \/ InTodo(h, c)
                           \/ c \in dir[h][h].inc \/ Including(h, c)
                                => dir[h][h].has[c].kind = ve[c]
      BY <2>2 DEF Owning, Written
    <3>3. \A c \in Own(h) : c \in dir[h][h].inc \/ InTodo(h, c) \/ Including(h, c)
      BY <2>2 DEF Owning, Written
    <3>4. \A c \in Names : Including(h, c) => c \in Own(h)
      BY DEF Including, Owning, Listed
    <3>5. \A c \in Names : c \in dir[h][h].inc \/ Including(h, c) => ve'[c] = ve[c]
      BY <1>1, <3>1, <3>4 DEF Away
    <3>6. dir'[h][h] = dir[h][h]
      BY DEF Away
    <3> QED BY <1>1, <1>2, <3>1, <3>2, <3>3, <3>5, <3>6 DEF Written
  <2> QED BY <2>1, <2>2
<1>5. Topped(h)'
  <2>1. CASE Around(h, {"header"}) \/ dir[h][h].top
    BY <1>2, <2>1 DEF Topped, Away
  <2>2. CASE ~(Around(h, {"header"}) \/ dir[h][h].top)
    <3>1. /\ \A p \in Callers : At1(p, h, Build \cup Link) => job[p].cmd = "import-crt"
          /\ h \notin main[h]
          /\ \A g \in Hosts : dir[g][h].inc = {}
      BY <2>2 DEF Owning, Topped
    <3> QED BY <1>2, <3>1 DEF Topped, Away
  <2> QED BY <2>1, <2>2
<1>6. Included(h)'
  BY <1>1, <1>2 DEF Included, Owning, Away
<1> QED BY <1>3, <1>4, <1>5, <1>6 DEF Owning

(* A step of p at its host, in the words of the places.                    *)
LEMMA MovesAt ==
  ASSUME JobsOK, NEW p \in Callers, NEW pc, NEW todo, NEW c, Moves(p, pc, todo, c)
  PROVE  LET h == At[p] IN
    /\ \A X : pc \in X => Around(h, X)'
    /\ \A X : job[p].pc \notin X \/ pc \in X => (Around(h, X) => Around(h, X)')
    /\ \A X : Around(h, X)' => pc \in X \/ Around(h, X)
    /\ \A X : pc \in X /\ job[p].cmd \in Growing => Grows(h, X)'
    /\ \A X : job[p].pc \notin X \/ pc \in X \/ job[p].cmd \notin Growing =>
         (Grows(h, X) => Grows(h, X)')
    /\ \A X : Grows(h, X)' => (pc \in X /\ job[p].cmd \in Growing) \/ Grows(h, X)
    /\ \A d : InTodo(h, d) /\ ~(job[p].pc \in Build /\ d \in job[p].todo) => InTodo(h, d)'
    /\ \A d : pc \in Build /\ d \in todo => InTodo(h, d)'
    /\ \A d : Including(h, d) /\ ~(job[p].pc = "include" /\ d = job[p].c) => Including(h, d)'
    /\ \A d : Including(h, d)' => Including(h, d) \/ (pc = "include" /\ d = c)
    /\ pc = "include" => Including(h, c)'
    /\ \A q \in Callers : \A X : At1(q, h, X)' => (q = p /\ pc \in X) \/ (q # p /\ At1(q, h, X))
    /\ \A q \in Callers \ {p} : job'[q] = job[q]
<1> DEFINE h == At[p]
<1>1. /\ \A q \in Callers \ {p} : job'[q] = job[q]
      /\ job'[p].cmd = job[p].cmd /\ job'[p].pc = pc /\ job'[p].todo = todo /\ job'[p].c = c
  BY DEF Moves
<1>2. \A X : pc \in X => Around(h, X)'
  BY <1>1 DEF Around, At1
<1>3. \A X : job[p].pc \notin X \/ pc \in X => (Around(h, X) => Around(h, X)')
  BY <1>1 DEF Around, At1
<1>4. \A X : Around(h, X)' => pc \in X \/ Around(h, X)
  BY <1>1 DEF Around, At1
<1>5. \A X : pc \in X /\ job[p].cmd \in Growing => Grows(h, X)'
  BY <1>1 DEF Grows, At1
<1>6. \A X : job[p].pc \notin X \/ pc \in X \/ job[p].cmd \notin Growing =>
         (Grows(h, X) => Grows(h, X)')
  BY <1>1 DEF Grows, At1
<1>7. \A d : InTodo(h, d) /\ ~(job[p].pc \in Build /\ d \in job[p].todo) => InTodo(h, d)'
  BY <1>1 DEF InTodo, At1
<1>8. \A d : pc \in Build /\ d \in todo => InTodo(h, d)'
  BY <1>1 DEF InTodo, At1
<1>9. \A d : Including(h, d) /\ ~(job[p].pc = "include" /\ d = job[p].c) => Including(h, d)'
  BY <1>1 DEF Including, At1
<1>10. \A d : Including(h, d)' => Including(h, d) \/ (pc = "include" /\ d = c)
  BY <1>1 DEF Including, At1
<1>11. pc = "include" => Including(h, c)'
  BY <1>1 DEF Including, At1
<1>12. \A q \in Callers : \A X : At1(q, h, X)' => (q = p /\ pc \in X) \/ (q # p /\ At1(q, h, X))
  BY <1>1 DEF At1
<1>13. \A X : Grows(h, X)' => (pc \in X /\ job[p].cmd \in Growing) \/ Grows(h, X)
  BY <1>1 DEF Grows, At1
<1> QED BY <1>1, <1>2, <1>3, <1>4, <1>5, <1>6, <1>7, <1>8, <1>9, <1>10, <1>11, <1>12, <1>13

(* A step that gets certificates leaves the own directory alone.           *)
LEMMA OwningCerts ==
  ASSUME FilesOK, JobsOK, NEW p \in Callers, Owning(At[p]),
         NEW pc \in {"acme", "deploy", "wipe"}, NEW todo, NEW c, Moves(p, pc, todo, c),
         job[p].pc \in {"stamp", "acme", "deploy"},
         ve' = ve, known' = known, dir' = dir, main' = main
  PROVE  Owning(At[p])'
<1> DEFINE h == At[p]
<1>1. /\ Own(h)' = Own(h) /\ pc \in Rebuild /\ pc \notin Build \cup Link
      /\ job[p].cmd \in Growing /\ job[p].pc \notin {"hosts", "header"}
  BY Placed DEF Own, Rebuild, Build, Link
<1>2. Listed(h)'
  <2>1. \A d \in Own(h) : d \in known[h][h] \/ Around(h, {"hosts"})'
    BY <1>1, MovesAt DEF Owning, Listed
  <2>2. \A q \in Callers : /\ At1(q, h, Build)' => job'[q] = job[q] /\ At1(q, h, Build)
                           /\ At1(q, h, {"include"})' => job'[q] = job[q] /\ At1(q, h, {"include"})
    BY <1>1, MovesAt DEF Build
  <2> QED BY <1>1, <2>1, <2>2 DEF Owning, Listed
<1>3. Written(h)'
  BY <1>1, MovesAt DEF Written
<1>4. Topped(h)'
  <2>1. Around(h, {"header"}) => Around(h, {"header"})'
    BY <1>1, MovesAt
  <2>2. \A q \in Callers : At1(q, h, Build \cup Link)' =>
          job'[q] = job[q] /\ At1(q, h, Build \cup Link)
    BY <1>1, MovesAt
  <2> QED BY <2>1, <2>2 DEF Owning, Topped
<1>5. Included(h)'
  BY <1>1, MovesAt DEF Included
<1> QED BY <1>2, <1>3, <1>4, <1>5 DEF Owning

(* A command that begins, in the words of the places.                      *)
Begins(p, cmd, pc) ==
  /\ \A q \in Callers \ {p} : job'[q] = job[q]
  /\ job[p].cmd = "none" /\ job'[p].cmd = cmd /\ job'[p].pc = pc /\ job'[p].todo = {}

LEMMA BeginsAt ==
  ASSUME JobsOK, NEW p \in Callers, NEW pc \in {"hosts", "wipe", "import"}, NEW cmd,
         Begins(p, cmd, pc)
  PROVE  LET h == At[p] IN
    /\ \A X : pc \in X => Around(h, X)'
    /\ \A X : "none" \notin X => (Around(h, X) => Around(h, X)')
    /\ \A X : pc \in X /\ cmd \in Growing => Grows(h, X)'
    /\ \A X : "none" \notin X => (Grows(h, X) => Grows(h, X)')
    /\ \A X : Grows(h, X)' => (pc \in X /\ cmd \in Growing) \/ Grows(h, X)
    /\ \A d : InTodo(h, d) => InTodo(h, d)'
    /\ \A d : Including(h, d) <=> Including(h, d)'
    /\ \A q \in Callers : \A X : At1(q, h, X)' => (q = p /\ pc \in X) \/ (q # p /\ At1(q, h, X))
    /\ job[p].pc = "none"
<1> DEFINE h == At[p]
<1>1. /\ \A q \in Callers \ {p} : job'[q] = job[q]
      /\ job'[p].cmd = cmd /\ job'[p].pc = pc /\ job[p].pc = "none" /\ job'[p].todo = {}
  BY Placed DEF Begins
<1>2. \A X : pc \in X => Around(h, X)'
  BY <1>1 DEF Around, At1
<1>3. \A X : "none" \notin X => (Around(h, X) => Around(h, X)')
  BY <1>1 DEF Around, At1
<1>4. \A X : pc \in X /\ cmd \in Growing => Grows(h, X)'
  BY <1>1 DEF Grows, At1
<1>5. \A X : "none" \notin X => (Grows(h, X) => Grows(h, X)')
  BY <1>1 DEF Grows, At1
<1>6. \A d : InTodo(h, d) => InTodo(h, d)'
  BY <1>1 DEF InTodo, At1, Build
<1>7. \A d : Including(h, d) <=> Including(h, d)'
  BY <1>1 DEF Including, At1
<1>8. \A q \in Callers : \A X : At1(q, h, X)' => (q = p /\ pc \in X) \/ (q # p /\ At1(q, h, X))
  BY <1>1 DEF At1
<1>9. \A X : Grows(h, X)' => (pc \in X /\ cmd \in Growing) \/ Grows(h, X)
  BY <1>1 DEF Grows, At1
<1> QED BY <1>1, <1>2, <1>3, <1>4, <1>5, <1>6, <1>7, <1>8, <1>9

(* Commands begin beside others only if these bring containers.            *)
LEMMA Beside ==
  ASSUME FilesOK, JobsOK, Reliable, NEW p \in Callers, NEW q \in Callers, p # q,
         job[p].cmd # "none", job[q].cmd # "none"
  PROVE  /\ At[p] = At[q] /\ env.overlap # {} /\ env.acme = {}
         /\ job[p].cmd \in Growing /\ job[q].cmd \in Growing
  BY DEF JobsOK, Reliable, Disciplined

LEMMA OwningStart ==
  ASSUME FilesOK, JobsOK, JobsOK', Reliable, Reliable', FilesOK', NEW p \in Callers, Owning(At[p]),
         NEW cmd, NEW pc \in {"hosts", "wipe", "import"}, Begins(p, cmd, pc), cmd # "none",
         known' = known, dir' = dir, main' = main,
         \/ ve' = ve
         \/ /\ cmd = "add" /\ pc = "hosts"
            /\ \E c \in Names : ve[c] = "gone" /\ ve' = [ve EXCEPT ![c] = "serve"]
         \/ /\ cmd = "remove" /\ pc = "hosts"
            /\ \E c \in Names : ve' = [ve EXCEPT ![c] = "gone"]
         \/ /\ cmd = "settings" /\ pc = "wipe"
            /\ \E c \in Names, x \in {"serve", "redirect"} : ve[c] # "gone" /\ ve' = [ve EXCEPT ![c] = x]
  PROVE  Owning(At[p])'
<1> DEFINE h == At[p]
<1>1. h \in Hosts /\ ve \in [Names -> {"gone", "serve", "redirect"}]
  BY ConstantsAssumption DEF FilesOK
<1>2. \/ Own(h)' = Own(h)
      \/ cmd = "add" /\ pc = "hosts" /\ Own(h) \subseteq Own(h)'
      \/ cmd = "remove" /\ pc = "hosts" /\ Own(h)' \subseteq Own(h)
  BY <1>1 DEF Own
<1>3. \A q \in Callers \ {p} : job[q].cmd # "none" => cmd \in Growing
  <2> SUFFICES ASSUME NEW q \in Callers \ {p}, job[q].cmd # "none"
               PROVE  cmd \in Growing
    OBVIOUS
  <2>1. job'[q].cmd # "none" /\ job'[p].cmd = cmd
    BY DEF Begins
  <2>2. {job'[p].cmd, job'[q].cmd} \subseteq env'.overlap
    BY <2>1 DEF JobsOK
  <2> QED BY <2>1, <2>2 DEF Reliable, Disciplined
<1>4. \A q \in Callers : At1(q, h, Build)' => /\ q # p /\ At1(q, h, Build) /\ job'[q] = job[q]
                                              /\ cmd \in Growing
  <2>1. pc \notin Build
    BY DEF Build
  <2>2. ASSUME NEW q \in Callers, At1(q, h, Build)'
        PROVE  q # p /\ At1(q, h, Build) /\ job'[q] = job[q] /\ cmd \in Growing
    <3>1. q # p /\ At1(q, h, Build) /\ job'[q] = job[q]
      BY <2>1, <2>2, BeginsAt DEF Begins
    <3>2. job[q].cmd # "none"
      BY <3>1, Placed DEF At1, Build
    <3> QED BY <1>3, <3>1, <3>2
  <2> QED BY <2>2
<1>5. \A q \in Callers : At1(q, h, {"include"})' => At1(q, h, Build)' /\ At1(q, h, {"include"})
  BY <1>4, BeginsAt DEF At1, Build
<1>6. cmd \in Growing => Own(h) \subseteq Own(h)'
  BY <1>2 DEF Growing
<1>7. Listed(h)'
  <2>1. \A c \in Own(h)' : c \in known[h][h] \/ Around(h, {"hosts"})'
    <3>1. CASE pc = "hosts"
      BY <3>1, BeginsAt
    <3>2. CASE pc # "hosts"
      BY <1>2, <3>2, BeginsAt DEF Owning, Listed
    <3> QED BY <3>1, <3>2
  <2>2. ASSUME NEW q \in Callers, At1(q, h, Build)'
        PROVE  job'[q].todo \subseteq Own(h)'
    BY <1>4, <1>6, <2>2 DEF Owning, Listed
  <2>3. ASSUME NEW q \in Callers, At1(q, h, {"include"})'
        PROVE  job'[q].c \in Own(h)'
    BY <1>4, <1>5, <1>6, <2>3 DEF Owning, Listed
  <2> QED BY <2>1, <2>2, <2>3 DEF Listed
<1>8. Written(h)'
  <2>1. CASE pc \in Rebuild
    BY <2>1, BeginsAt DEF Written
  <2>2. CASE pc \notin Rebuild
    <3>1. ve' = ve /\ Own(h)' = Own(h) /\ "none" \notin Rebuild
      BY <2>2, <1>2 DEF Rebuild, Own
    <3>2. Around(h, Rebuild) => Around(h, Rebuild)'
      BY <3>1, BeginsAt
    <3>3. \A d : InTodo(h, d) => InTodo(h, d)'
      BY BeginsAt
    <3>4. \A d : Including(h, d) <=> Including(h, d)'
      BY BeginsAt
    <3> QED BY <3>1, <3>2, <3>3, <3>4 DEF Written, Owning
  <2> QED BY <2>1, <2>2
<1>9. Topped(h)'
  <2>1. Around(h, {"header"}) => Around(h, {"header"})'
    BY BeginsAt
  <2>2. pc \notin Build \cup Link
    BY DEF Build, Link
  <2>3. \A q \in Callers : At1(q, h, Build \cup Link)' =>
          job'[q] = job[q] /\ At1(q, h, Build \cup Link)
    <3> SUFFICES ASSUME NEW q \in Callers, At1(q, h, Build \cup Link)'
                 PROVE  job'[q] = job[q] /\ At1(q, h, Build \cup Link)
      OBVIOUS
    <3>1. q # p
      BY <2>2 DEF At1, Begins
    <3>2. job'[q] = job[q]
      BY <3>1 DEF Begins
    <3> QED BY <3>2 DEF At1
  <2> QED BY <2>1, <2>3 DEF Owning, Topped
<1>10. Included(h)'
  <2>1. "none" \notin Rebuild \cup Build \cup {"truncate", "fetch", "own"} /\ "hosts" \in Rebuild
    BY DEF Rebuild, Build
  <2>2. CASE cmd = "add" /\ pc = "hosts"
    BY <2>1, <2>2, BeginsAt DEF Included, Growing
  <2>3. CASE Own(h)' \subseteq Own(h)
    BY <2>1, <2>3, BeginsAt DEF Included, Owning
  <2> QED BY <1>2, <2>2, <2>3
<1> QED BY <1>7, <1>8, <1>9, <1>10 DEF Owning

LEMMA OwningImport ==
  ASSUME FilesOK, JobsOK, Reliable, NEW p \in Callers, Owning(At[p]), Import(p)
  PROVE  Owning(At[p])'
<1> DEFINE h == At[p]
<1>1. h \in Hosts
  BY ConstantsAssumption
<1>2. /\ Moves(p, "restart", job[p].todo, job[p].c) /\ job[p].cmd = "import-crt"
      /\ job[p].pc = "import"
      /\ ve' = ve /\ known' = known /\ dir' = dir /\ main' = main /\ Own(h)' = Own(h)
  BY <1>1, Leading, Placed DEF Import, files, Own
<1>3. Listed(h)'
  <2>1. \A d \in Own(h) : d \in known'[h][h] \/ Around(h, {"hosts"})'
    BY <1>2, MovesAt DEF Owning, Listed
  <2>2. \A q \in Callers : /\ At1(q, h, Build)' => job'[q] = job[q] /\ At1(q, h, Build)
                           /\ At1(q, h, {"include"})' => job'[q] = job[q] /\ At1(q, h, {"include"})
    BY <1>2, MovesAt DEF Build
  <2> QED BY <1>2, <2>1, <2>2 DEF Owning, Listed
<1>4. Written(h)'
  <2>1. Around(h, Rebuild) => Around(h, Rebuild)'
    BY <1>2, MovesAt DEF Rebuild
  <2>2. \A d : InTodo(h, d) => InTodo(h, d)'
    BY <1>2 DEF InTodo, At1, Build, Moves
  <2>3. \A d : Including(h, d) <=> Including(h, d)'
    BY <1>2 DEF Including, At1, Moves
  <2> QED BY <1>2, <2>1, <2>2, <2>3 DEF Owning, Written
<1>5. Topped(h)'
  <2>1. Around(h, {"header"}) => Around(h, {"header"})'
    BY <1>2, MovesAt
  <2>2. \A q \in Callers : At1(q, h, Build \cup Link)' =>
          \/ q = p /\ job'[q].cmd = "import-crt"
          \/ job'[q] = job[q] /\ At1(q, h, Build \cup Link)
    BY <1>2, MovesAt DEF Build, Link, Moves
  <2> QED BY <1>2, <2>1, <2>2 DEF Owning, Topped
<1>6. Included(h)'
  <2>1. Grows(h, Rebuild \cup Build \cup {"truncate", "fetch", "own"}) =>
          Grows(h, Rebuild \cup Build \cup {"truncate", "fetch", "own"})'
    BY <1>2, MovesAt, Placed DEF Rebuild, Build, Growing
  <2> QED BY <1>2, <2>1 DEF Owning, Included
<1> QED BY <1>3, <1>4, <1>5, <1>6 DEF Owning

LEMMA OwningWipe ==
  ASSUME FilesOK, JobsOK, Reliable, NEW p \in Callers, Owning(At[p]), Wipe(p)
  PROVE  Owning(At[p])'
<1> DEFINE h == At[p]
<1>1. h \in Hosts
  BY ConstantsAssumption
<1>2. /\ Moves(p, "header", job[p].todo, job[p].c)
      /\ job[p].pc = "wipe"
      /\ ve' = ve /\ known' = known /\ main' = main /\ Own(h)' = Own(h)
  BY <1>1, Leading DEF Wipe, certs, Own
<1>3. Listed(h)'
  <2>1. \A d \in Own(h) : d \in known'[h][h] \/ Around(h, {"hosts"})'
    BY <1>2, MovesAt DEF Owning, Listed
  <2>2. \A q \in Callers : /\ At1(q, h, Build)' => job'[q] = job[q] /\ At1(q, h, Build)
                           /\ At1(q, h, {"include"})' => job'[q] = job[q] /\ At1(q, h, {"include"})
    BY <1>2, MovesAt DEF Build
  <2> QED BY <1>2, <2>1, <2>2 DEF Owning, Listed
<1>4. Written(h)'
  BY <1>2, MovesAt DEF Written, Rebuild
<1>5. Topped(h)'
  BY <1>2, MovesAt DEF Topped
<1>6. Included(h)'
  <2>1. Grows(h, Rebuild \cup Build \cup {"truncate", "fetch", "own"}) =>
          Grows(h, Rebuild \cup Build \cup {"truncate", "fetch", "own"})'
    BY <1>2, MovesAt, Placed DEF Rebuild, Build, Growing
  <2> QED BY <1>2, <2>1 DEF Owning, Included
<1> QED BY <1>3, <1>4, <1>5, <1>6 DEF Owning

LEMMA OwningEtcHosts ==
  ASSUME FilesOK, JobsOK, Reliable, NEW p \in Callers, Owning(At[p]), EtcHosts(p)
  PROVE  Owning(At[p])'
<1> DEFINE h == At[p]
<1>1. h \in Hosts
  BY ConstantsAssumption
<1>2. /\ ve' = ve /\ dir' = dir /\ main' = main /\ Own(h)' = Own(h) /\ known'[h][h] = Own(h)
      /\ job[p].pc = "hosts"
      /\ \E todo, c : \E pc \in {"acme", "stamp", "wipe"} :
           Moves(p, pc, todo, c) /\ (pc = "wipe" => job[p].cmd = "remove")
  BY <1>1, Leading DEF EtcHosts, certs, Own, FilesOK
<1>a. PICK todo, c, pc : pc \in {"acme", "stamp", "wipe"} /\ Moves(p, pc, todo, c)
  BY <1>2
<1>3. Listed(h)'
  <2>1. \A q \in Callers : /\ At1(q, h, Build)' => job'[q] = job[q] /\ At1(q, h, Build)
                           /\ At1(q, h, {"include"})' => job'[q] = job[q] /\ At1(q, h, {"include"})
    BY <1>a, MovesAt DEF Build
  <2> QED BY <1>2, <2>1 DEF Owning, Listed
<1>4. Written(h)'
  BY <1>a, MovesAt DEF Written, Rebuild
<1>5. Topped(h)'
  <2>1. Around(h, {"header"}) => Around(h, {"header"})'
    BY <1>2, <1>a, MovesAt
  <2>2. \A q \in Callers : At1(q, h, Build \cup Link)' =>
          job'[q] = job[q] /\ At1(q, h, Build \cup Link)
    BY <1>a, MovesAt DEF Build, Link
  <2> QED BY <1>2, <2>1, <2>2 DEF Owning, Topped
<1>6. Included(h)'
  <2>1. Grows(h, Rebuild \cup Build \cup {"truncate", "fetch", "own"}) =>
          Grows(h, Rebuild \cup Build \cup {"truncate", "fetch", "own"})'
    BY <1>a, MovesAt DEF Rebuild
  <2> QED BY <1>2, <2>1 DEF Owning, Included
<1> QED BY <1>3, <1>4, <1>5, <1>6 DEF Owning

LEMMA OwningHeader ==
  ASSUME FilesOK, JobsOK, Reliable, NEW p \in Callers, Owning(At[p]), Header(p)
  PROVE  Owning(At[p])'
<1> DEFINE h == At[p]
<1>1. h \in Hosts
  BY ConstantsAssumption
<1>2. /\ Moves(p, "write", Own(h), NoJob.c) /\ job[p].pc = "header"
      /\ ve' = ve /\ known' = known /\ main' = main /\ Own(h)' = Own(h)
      /\ dir'[h][h].top /\ dir'[h][h].inc = {}
  BY <1>1, Leading, Heading DEF Header, certs, Own, OwnDir
<1>3. Listed(h)'
  <2>1. \A d \in Own(h) : d \in known'[h][h] \/ Around(h, {"hosts"})'
    <3>1. Around(h, {"hosts"}) => Around(h, {"hosts"})'
      BY <1>2, MovesAt
    <3>2. \A d \in Own(h) : d \in known[h][h] \/ Around(h, {"hosts"})
      BY DEF Owning, Listed
    <3> QED BY <1>2, <3>1, <3>2
  <2>2. \A q \in Callers : /\ At1(q, h, Build)' => q = p \/ (job'[q] = job[q] /\ At1(q, h, Build))
                           /\ At1(q, h, {"include"})' => job'[q] = job[q] /\ At1(q, h, {"include"})
    BY <1>2, MovesAt DEF Build
  <2>3. job'[p].todo = Own(h)
    BY <1>2 DEF Moves
  <2> QED BY <1>2, <2>1, <2>2, <2>3 DEF Owning, Listed
<1>4. Written(h)'
  <2>1. \A d \in Own(h) : InTodo(h, d)'
    BY <1>2 DEF InTodo, At1, Build, Moves
  <2>2. \A d : Including(h, d)' => d \in Own(h)
    BY <1>2, MovesAt DEF Owning, Listed, Including
  <2> QED BY <1>2, <2>1, <2>2 DEF Written
<1>5. Topped(h)'
  BY <1>2 DEF Topped
<1>6. Included(h)'
  <2>1. Grows(h, Rebuild \cup Build \cup {"truncate", "fetch", "own"}) =>
          Grows(h, Rebuild \cup Build \cup {"truncate", "fetch", "own"})'
    BY <1>2, MovesAt, Placed DEF Rebuild, Build, Growing
  <2> QED BY <1>2, <2>1 DEF Owning, Included
<1> QED BY <1>3, <1>4, <1>5, <1>6 DEF Owning

LEMMA OwningWrite ==
  ASSUME FilesOK, JobsOK, Reliable, NEW p \in Callers, NEW c \in Names, Owning(At[p]), WriteService(p, c)
  PROVE  Owning(At[p])'
<1> DEFINE h == At[p]
<1>1. h \in Hosts
  BY ConstantsAssumption
<1>2. /\ Moves(p, "include", job[p].todo \ {c}, c) /\ job[p].pc = "write" /\ c \in job[p].todo
      /\ ve' = ve /\ known' = known /\ main' = main /\ Own(h)' = Own(h)
      /\ dir'[h][h].top = dir[h][h].top /\ dir'[h][h].inc = dir[h][h].inc
      /\ dir'[h][h].has = [dir[h][h].has EXCEPT ![c] = Services(c)]
  BY <1>1, LeadingTo, Writing DEF WriteService, certs, Own, OwnDir
<1>a. c \in Own(h) /\ job[p].todo \subseteq Own(h)
  BY <1>2 DEF Owning, Listed, At1, Build
<1>3. Listed(h)'
  <2>1. \A d \in Own(h) : d \in known'[h][h] \/ Around(h, {"hosts"})'
    BY <1>2, MovesAt DEF Owning, Listed
  <2>2. \A q \in Callers : /\ At1(q, h, Build)' => q = p \/ (job'[q] = job[q] /\ At1(q, h, Build))
                           /\ At1(q, h, {"include"})' => q = p \/ (job'[q] = job[q] /\ At1(q, h, {"include"}))
    BY <1>2, MovesAt DEF Build
  <2>3. job'[p].todo \subseteq Own(h) /\ job'[p].c \in Own(h)
    BY <1>2, <1>a DEF Moves
  <2> QED BY <1>2, <2>1, <2>2, <2>3 DEF Owning, Listed
<1>4. Written(h)'
  <2>1. Around(h, Rebuild) => Around(h, Rebuild)'
    BY <1>2, MovesAt DEF Rebuild
  <2>2. \A d : d # c /\ InTodo(h, d) => InTodo(h, d)'
    BY <1>2 DEF InTodo, At1, Build, Moves
  <2>3. \A d : d # c => (Including(h, d) <=> Including(h, d)')
    BY <1>2 DEF Including, At1, Moves
  <2>4. Including(h, c)'
    BY <1>2, MovesAt
  <2>5. dir'[h][h].has[c].kind = ve[c]
    BY <1>1, <1>2, <1>a, Dirs DEF Services, Own
  <2>6. \A d \in Names \ {c} : dir'[h][h].has[d] = dir[h][h].has[d]
    BY <1>1, <1>2, Dirs
  <2>7. CASE Around(h, Rebuild)
    BY <2>1, <2>7 DEF Written
  <2>8. CASE ~Around(h, Rebuild)
    <3>1. dir[h][h].inc \subseteq Own(h)
      BY <2>8 DEF Owning, Written
    <3>2. \A d \in Names : \/ InTodo(h, d)
                           \/ d \in dir[h][h].inc \/ Including(h, d)
                                => dir[h][h].has[d].kind = ve[d]
      BY <2>8 DEF Owning, Written
    <3>3. \A d \in Own(h) : d \in dir[h][h].inc \/ InTodo(h, d) \/ Including(h, d)
      BY <2>8 DEF Owning, Written
    <3>4. \A d \in Names : \/ InTodo(h, d)'
                           \/ d \in dir[h][h].inc \/ Including(h, d)'
                                => dir'[h][h].has[d].kind = ve[d]
      BY <2>2, <2>3, <2>5, <2>6, <3>2
    <3>5. \A d \in Own(h) : d \in dir[h][h].inc \/ InTodo(h, d)' \/ Including(h, d)'
      BY <2>2, <2>3, <2>4, <3>3
    <3> QED BY <1>2, <3>1, <3>4, <3>5 DEF Written
  <2> QED BY <2>7, <2>8
<1>5. Topped(h)'
  <2>1. At1(p, h, Build \cup Link) /\ job[p].cmd # "import-crt"
    BY <1>2, Placed DEF At1, Build, Link, Growing
  <2>2. Around(h, {"header"}) \/ dir[h][h].top
    BY <2>1 DEF Owning, Topped
  <2>3. Around(h, {"header"}) => Around(h, {"header"})'
    BY <1>2, MovesAt
  <2> QED BY <1>2, <2>2, <2>3 DEF Topped
<1>6. Included(h)'
  <2>1. Grows(h, Rebuild \cup Build \cup {"truncate", "fetch", "own"}) =>
          Grows(h, Rebuild \cup Build \cup {"truncate", "fetch", "own"})'
    BY <1>2, MovesAt, Placed DEF Rebuild, Build, Growing
  <2> QED BY <1>2, <2>1 DEF Owning, Included
<1> QED BY <1>3, <1>4, <1>5, <1>6 DEF Owning

LEMMA OwningInclude ==
  ASSUME FilesOK, JobsOK, Reliable, NEW p \in Callers, Owning(At[p]), IncludeService(p)
  PROVE  Owning(At[p])'
<1> DEFINE h == At[p]
<1>1. h \in Hosts
  BY ConstantsAssumption
<1>c. job[p].pc = "include" /\ Moves(p, "write", job[p].todo, NoJob.c)
  BY Leading
<1>b. job[p].c \in Mine(h)
  BY <1>c DEF JobsOK
<1>2. /\ Moves(p, "write", job[p].todo, NoJob.c) /\ job[p].pc = "include"
      /\ ve' = ve /\ known' = known /\ main' = main /\ Own(h)' = Own(h)
      /\ dir'[h][h].top = dir[h][h].top /\ dir'[h][h].inc = dir[h][h].inc \cup {job[p].c}
      /\ dir'[h][h].has = dir[h][h].has
  BY <1>1, <1>c, <1>b, IncludingIt DEF IncludeService, certs, Own, OwnDir
<1>a. job[p].c \in Own(h) /\ job[p].todo \subseteq Own(h) /\ Including(h, job[p].c)
  BY <1>2 DEF Owning, Listed, At1, Build, Including
<1>3. Listed(h)'
  <2>1. \A d \in Own(h) : d \in known'[h][h] \/ Around(h, {"hosts"})'
    <3>1. Around(h, {"hosts"}) => Around(h, {"hosts"})'
      BY <1>2, MovesAt
    <3>2. \A d \in Own(h) : d \in known[h][h] \/ Around(h, {"hosts"})
      BY DEF Owning, Listed
    <3> QED BY <1>2, <3>1, <3>2
  <2>2. \A q \in Callers : /\ At1(q, h, Build)' => q = p \/ (job'[q] = job[q] /\ At1(q, h, Build))
                           /\ At1(q, h, {"include"})' => job'[q] = job[q] /\ At1(q, h, {"include"})
    BY <1>2, MovesAt DEF Build
  <2>3. job'[p].todo \subseteq Own(h)
    BY <1>2, <1>a DEF Moves
  <2> QED BY <1>2, <2>1, <2>2, <2>3 DEF Owning, Listed
<1>4. Written(h)'
  <2>1. Around(h, Rebuild) => Around(h, Rebuild)'
    BY <1>2, MovesAt DEF Rebuild
  <2>2. \A d : InTodo(h, d) => InTodo(h, d)'
    BY <1>2 DEF InTodo, At1, Build, Moves
  <2>3. \A d : Including(h, d)' => Including(h, d)
    BY <1>2 DEF Including, At1, Moves
  <2>4. \A d : Including(h, d) => Including(h, d)' \/ d = job[p].c
    BY <1>2 DEF Including, At1, Moves
  <2> QED BY <1>2, <1>a, <2>1, <2>2, <2>3, <2>4 DEF Owning, Written
<1>5. Topped(h)'
  <2>1. At1(p, h, Build \cup Link) /\ job[p].cmd # "import-crt"
    BY <1>2, Placed DEF At1, Build, Link, Growing
  <2>2. Around(h, {"header"}) \/ dir[h][h].top
    BY <2>1 DEF Owning, Topped
  <2>3. Around(h, {"header"}) => Around(h, {"header"})'
    BY <1>2, MovesAt
  <2> QED BY <1>2, <2>2, <2>3 DEF Topped
<1>6. Included(h)'
  <2>1. Grows(h, Rebuild \cup Build \cup {"truncate", "fetch", "own"}) =>
          Grows(h, Rebuild \cup Build \cup {"truncate", "fetch", "own"})'
    BY <1>2, MovesAt, Placed DEF Rebuild, Build, Growing
  <2> QED BY <1>2, <2>1 DEF Owning, Included
<1> QED BY <1>3, <1>4, <1>5, <1>6 DEF Owning

LEMMA OwningWriteDone ==
  ASSUME FilesOK, JobsOK, Reliable, NEW p \in Callers, Owning(At[p]), WriteDone(p)
  PROVE  Owning(At[p])'
<1> DEFINE h == At[p]
<1>1. h \in Hosts
  BY ConstantsAssumption
<1>2. /\ \E pc \in {"truncate", "restart"} :
           Moves(p, pc, job[p].todo, job[p].c) /\ (job[p].cmd \in Growing => pc = "truncate")
      /\ job[p].pc = "write" /\ job[p].todo = {} /\ ve' = ve /\ known' = known
      /\ dir' = dir /\ main' = main /\ Own(h)' = Own(h)
  BY <1>1, Leading DEF WriteDone, files, Own, Growing
<1>a. PICK pc \in {"truncate", "restart"} :
           Moves(p, pc, job[p].todo, job[p].c) /\ (job[p].cmd \in Growing => pc = "truncate")
  BY <1>2
<1>3. Listed(h)'
  <2>1. \A d \in Own(h) : d \in known'[h][h] \/ Around(h, {"hosts"})'
    BY <1>2, <1>a, MovesAt DEF Owning, Listed
  <2>2. \A q \in Callers : /\ At1(q, h, Build)' => job'[q] = job[q] /\ At1(q, h, Build)
                           /\ At1(q, h, {"include"})' => job'[q] = job[q] /\ At1(q, h, {"include"})
    BY <1>2, <1>a, MovesAt DEF Build
  <2> QED BY <1>2, <2>1, <2>2 DEF Owning, Listed
<1>4. Written(h)'
  <2>1. Around(h, Rebuild) => Around(h, Rebuild)'
    BY <1>2, <1>a, MovesAt DEF Rebuild
  <2>2. \A d : InTodo(h, d) => InTodo(h, d)'
    BY <1>2 DEF InTodo, At1, Build, Moves
  <2>3. \A d : Including(h, d) <=> Including(h, d)'
    BY <1>2 DEF Including, At1, Moves
  <2> QED BY <1>2, <2>1, <2>2, <2>3 DEF Owning, Written
<1>5. Topped(h)'
  <2>1. At1(p, h, Build \cup Link) /\ job[p].cmd # "import-crt"
    BY <1>2, Placed DEF At1, Build, Link, Growing
  <2>2. Around(h, {"header"}) \/ dir[h][h].top
    BY <2>1 DEF Owning, Topped
  <2>3. Around(h, {"header"}) => Around(h, {"header"})'
    BY <1>2, <1>a, MovesAt
  <2> QED BY <1>2, <2>2, <2>3 DEF Topped
<1>6. Included(h)'
  <2>1. Grows(h, Rebuild \cup Build \cup {"truncate", "fetch", "own"}) =>
          Grows(h, Rebuild \cup Build \cup {"truncate", "fetch", "own"})'
    BY <1>2, <1>a, MovesAt, Placed DEF Rebuild, Build, Growing
  <2> QED BY <1>2, <2>1 DEF Owning, Included
<1> QED BY <1>3, <1>4, <1>5, <1>6 DEF Owning

LEMMA OwningTruncate ==
  ASSUME FilesOK, JobsOK, Reliable, NEW p \in Callers, Owning(At[p]), Truncate(p)
  PROVE  Owning(At[p])'
<1> DEFINE h == At[p]
<1>1. h \in Hosts
  BY ConstantsAssumption
<1>2. /\ Moves(p, "fetch", job[p].todo, job[p].c)
      /\ job[p].pc = "truncate"
      /\ ve' = ve /\ known' = known /\ dir' = dir /\ Own(h)' = Own(h)
  BY <1>1, Leading DEF Truncate, certs, Own
<1>3. Listed(h)'
  <2>1. \A d \in Own(h) : d \in known'[h][h] \/ Around(h, {"hosts"})'
    BY <1>2, MovesAt DEF Owning, Listed
  <2>2. \A q \in Callers : /\ At1(q, h, Build)' => job'[q] = job[q] /\ At1(q, h, Build)
                           /\ At1(q, h, {"include"})' => job'[q] = job[q] /\ At1(q, h, {"include"})
    BY <1>2, MovesAt DEF Build
  <2> QED BY <1>2, <2>1, <2>2 DEF Owning, Listed
<1>4. Written(h)'
  <2>1. Around(h, Rebuild) => Around(h, Rebuild)'
    BY <1>2, MovesAt DEF Rebuild
  <2>2. \A d : InTodo(h, d) => InTodo(h, d)'
    BY <1>2 DEF InTodo, At1, Build, Moves
  <2>3. \A d : Including(h, d) <=> Including(h, d)'
    BY <1>2 DEF Including, At1, Moves
  <2> QED BY <1>2, <2>1, <2>2, <2>3 DEF Owning, Written
<1>5. Topped(h)'
  <2>1. At1(p, h, Build \cup Link) /\ job[p].cmd # "import-crt"
    BY <1>2, Placed DEF At1, Build, Link, Growing
  <2>2. Around(h, {"header"}) \/ dir[h][h].top
    BY <2>1 DEF Owning, Topped
  <2>3. Around(h, {"header"}) => Around(h, {"header"})'
    BY <1>2, MovesAt
  <2> QED BY <1>2, <2>2, <2>3 DEF Topped
<1>6. Included(h)'
  <2>1. Grows(h, Rebuild \cup Build \cup {"truncate", "fetch", "own"})'
    BY <1>2, MovesAt, Placed DEF Rebuild, Build
  <2> QED BY <2>1 DEF Included
<1> QED BY <1>3, <1>4, <1>5, <1>6 DEF Owning

LEMMA OwningFetch ==
  ASSUME FilesOK, JobsOK, Reliable, NEW p \in Callers, Owning(At[p]), Fetch(p)
  PROVE  Owning(At[p])'
<1> DEFINE h == At[p]
<1>1. h \in Hosts
  BY ConstantsAssumption
<1>2. /\ Moves(p, "own", job[p].todo, job[p].c)
      /\ job[p].pc = "fetch"
      /\ ve' = ve /\ known' = known /\ dir'[h][h] = dir[h][h] /\ main' = main /\ Own(h)' = Own(h)
  BY <1>1, Leading, Fetching DEF Fetch, certs, Own
<1>3. Listed(h)'
  <2>1. \A d \in Own(h) : d \in known'[h][h] \/ Around(h, {"hosts"})'
    BY <1>2, MovesAt DEF Owning, Listed
  <2>2. \A q \in Callers : /\ At1(q, h, Build)' => job'[q] = job[q] /\ At1(q, h, Build)
                           /\ At1(q, h, {"include"})' => job'[q] = job[q] /\ At1(q, h, {"include"})
    BY <1>2, MovesAt DEF Build
  <2> QED BY <1>2, <2>1, <2>2 DEF Owning, Listed
<1>4. Written(h)'
  <2>1. Around(h, Rebuild) => Around(h, Rebuild)'
    BY <1>2, MovesAt DEF Rebuild
  <2>2. \A d : InTodo(h, d) => InTodo(h, d)'
    BY <1>2 DEF InTodo, At1, Build, Moves
  <2>3. \A d : Including(h, d) <=> Including(h, d)'
    BY <1>2 DEF Including, At1, Moves
  <2> QED BY <1>2, <2>1, <2>2, <2>3 DEF Owning, Written
<1>5. Topped(h)'
  <2>1. At1(p, h, Build \cup Link) /\ job[p].cmd # "import-crt"
    BY <1>2, Placed DEF At1, Build, Link, Growing
  <2>2. Around(h, {"header"}) \/ dir[h][h].top
    BY <2>1 DEF Owning, Topped
  <2>3. Around(h, {"header"}) => Around(h, {"header"})'
    BY <1>2, MovesAt
  <2> QED BY <1>2, <2>2, <2>3 DEF Topped
<1>6. Included(h)'
  <2>1. Grows(h, Rebuild \cup Build \cup {"truncate", "fetch", "own"})'
    BY <1>2, MovesAt, Placed DEF Rebuild, Build
  <2> QED BY <2>1 DEF Included
<1> QED BY <1>3, <1>4, <1>5, <1>6 DEF Owning

LEMMA OwningAddOwn ==
  ASSUME FilesOK, JobsOK, Reliable, NEW p \in Callers, Owning(At[p]), AddOwn(p)
  PROVE  Owning(At[p])'
<1> DEFINE h == At[p]
<1>1. h \in Hosts
  BY ConstantsAssumption
<1>2. /\ Moves(p, "peers", job[p].todo, job[p].c)
      /\ job[p].pc = "own"
      /\ ve' = ve /\ known' = known /\ dir' = dir /\ Own(h)' = Own(h)
      /\ main' = [main EXCEPT ![h] = IF dir[h][h].top THEN @ \cup {h} ELSE @]
  BY <1>1, Leading DEF AddOwn, certs, Own
<1>3. Listed(h)'
  <2>1. \A d \in Own(h) : d \in known'[h][h] \/ Around(h, {"hosts"})'
    BY <1>2, MovesAt DEF Owning, Listed
  <2>2. \A q \in Callers : /\ At1(q, h, Build)' => job'[q] = job[q] /\ At1(q, h, Build)
                           /\ At1(q, h, {"include"})' => job'[q] = job[q] /\ At1(q, h, {"include"})
    BY <1>2, MovesAt DEF Build
  <2> QED BY <1>2, <2>1, <2>2 DEF Owning, Listed
<1>4. Written(h)'
  <2>1. Around(h, Rebuild) => Around(h, Rebuild)'
    BY <1>2, MovesAt DEF Rebuild
  <2>2. \A d : InTodo(h, d) => InTodo(h, d)'
    BY <1>2 DEF InTodo, At1, Build, Moves
  <2>3. \A d : Including(h, d) <=> Including(h, d)'
    BY <1>2 DEF Including, At1, Moves
  <2> QED BY <1>2, <2>1, <2>2, <2>3 DEF Owning, Written
<1>5. Topped(h)'
  <2>1. At1(p, h, Build \cup Link) /\ job[p].cmd # "import-crt"
    BY <1>2, Placed DEF At1, Build, Link, Growing
  <2>2. Around(h, {"header"}) \/ dir[h][h].top
    BY <2>1 DEF Owning, Topped
  <2>3. Around(h, {"header"}) => Around(h, {"header"})'
    BY <1>2, MovesAt
  <2> QED BY <1>2, <2>2, <2>3 DEF Topped
<1>6. Included(h)'
  <2>1. CASE dir[h][h].top
    BY <1>1, <1>2, <2>1 DEF Included, FilesOK
  <2>2. CASE ~dir[h][h].top
    <3>1. At1(p, h, Build \cup Link) /\ job[p].cmd # "import-crt"
      BY <1>2, Placed DEF At1, Build, Link, Growing
    <3>2. PICK q \in Callers : At1(q, h, {"header"})
      BY <2>2, <3>1 DEF Owning, Topped, Around
    <3>3. q # p /\ job'[q] = job[q] /\ job[q].cmd # "none" /\ job[p].cmd # "none"
      BY <1>2, <3>2, MovesAt, Placed DEF At1
    <3>4. job[q].cmd \in Growing
      BY <3>3, Beside
    <3>5. Grows(h, Rebuild \cup Build \cup {"truncate", "fetch", "own"})'
      BY <3>2, <3>3, <3>4 DEF Grows, At1, Rebuild
    <3> QED BY <3>5 DEF Included
  <2> QED BY <2>1, <2>2
<1> QED BY <1>3, <1>4, <1>5, <1>6 DEF Owning

LEMMA OwningAddPeers ==
  ASSUME FilesOK, JobsOK, Reliable, NEW p \in Callers, Owning(At[p]), AddPeers(p)
  PROVE  Owning(At[p])'
<1> DEFINE h == At[p]
<1>1. h \in Hosts
  BY ConstantsAssumption
<1>2. /\ Moves(p, "restart", job[p].todo, job[p].c)
      /\ job[p].pc = "peers"
      /\ ve' = ve /\ known' = known /\ dir' = dir /\ Own(h)' = Own(h) /\ (h \in main'[h] <=> h \in main[h])
  BY <1>1, Leading DEF AddPeers, certs, Own, FilesOK, Peers
<1>3. Listed(h)'
  <2>1. \A d \in Own(h) : d \in known'[h][h] \/ Around(h, {"hosts"})'
    BY <1>2, MovesAt DEF Owning, Listed
  <2>2. \A q \in Callers : /\ At1(q, h, Build)' => job'[q] = job[q] /\ At1(q, h, Build)
                           /\ At1(q, h, {"include"})' => job'[q] = job[q] /\ At1(q, h, {"include"})
    BY <1>2, MovesAt DEF Build
  <2> QED BY <1>2, <2>1, <2>2 DEF Owning, Listed
<1>4. Written(h)'
  <2>1. Around(h, Rebuild) => Around(h, Rebuild)'
    BY <1>2, MovesAt DEF Rebuild
  <2>2. \A d : InTodo(h, d) => InTodo(h, d)'
    BY <1>2 DEF InTodo, At1, Build, Moves
  <2>3. \A d : Including(h, d) <=> Including(h, d)'
    BY <1>2 DEF Including, At1, Moves
  <2> QED BY <1>2, <2>1, <2>2, <2>3 DEF Owning, Written
<1>5. Topped(h)'
  <2>1. At1(p, h, Build \cup Link) /\ job[p].cmd # "import-crt"
    BY <1>2, Placed DEF At1, Build, Link, Growing
  <2>2. Around(h, {"header"}) \/ dir[h][h].top
    BY <2>1 DEF Owning, Topped
  <2>3. Around(h, {"header"}) => Around(h, {"header"})'
    BY <1>2, MovesAt
  <2> QED BY <1>2, <2>2, <2>3 DEF Topped
<1>6. Included(h)'
  <2>1. Grows(h, Rebuild \cup Build \cup {"truncate", "fetch", "own"}) =>
          Grows(h, Rebuild \cup Build \cup {"truncate", "fetch", "own"})'
    BY <1>2, MovesAt, Placed DEF Rebuild, Build, Growing
  <2> QED BY <1>2, <2>1 DEF Owning, Included
<1> QED BY <1>3, <1>4, <1>5, <1>6 DEF Owning

LEMMA LeavesAt ==
  ASSUME NEW p \in Callers, job'[p] = NoJob, \A q \in Callers \ {p} : job'[q] = job[q],
         job[p].pc = "restart"
  PROVE  LET h == At[p] IN
    /\ \A X : "restart" \notin X => (Around(h, X) => Around(h, X)')
    /\ \A X : "none" \notin X => (Around(h, X)' => Around(h, X))
    /\ \A X : "restart" \notin X => (Grows(h, X) => Grows(h, X)')
    /\ \A X : "none" \notin X => (Grows(h, X)' => Grows(h, X))
    /\ \A d : InTodo(h, d) => InTodo(h, d)'
    /\ \A d : Including(h, d) <=> Including(h, d)'
    /\ \A q \in Callers : \A X : "none" \notin X /\ At1(q, h, X)' =>
         q # p /\ At1(q, h, X) /\ job'[q] = job[q]
<1> DEFINE h == At[p]
<1>1. job'[p].pc = "none"
  BY DEF NoJob
<1>2. \A X : "restart" \notin X => (Around(h, X) => Around(h, X)')
  BY <1>1 DEF Around, At1
<1>3. \A X : "none" \notin X => (Around(h, X)' => Around(h, X))
  BY <1>1 DEF Around, At1
<1>4. \A X : "restart" \notin X => (Grows(h, X) => Grows(h, X)')
  BY <1>1 DEF Grows, At1
<1>5. \A X : "none" \notin X => (Grows(h, X)' => Grows(h, X))
  BY <1>1 DEF Grows, At1
<1>6. \A d : InTodo(h, d) => InTodo(h, d)'
  BY <1>1 DEF InTodo, At1, Build
<1>7. \A d : Including(h, d) <=> Including(h, d)'
  BY <1>1 DEF Including, At1
<1>8. \A q \in Callers : \A X : "none" \notin X /\ At1(q, h, X)' =>
         q # p /\ At1(q, h, X) /\ job'[q] = job[q]
  BY <1>1 DEF At1
<1> QED BY <1>2, <1>3, <1>4, <1>5, <1>6, <1>7, <1>8

LEMMA OwningRestart ==
  ASSUME FilesOK, JobsOK, Reliable, NEW p \in Callers, Owning(At[p]), Restart(p),
         job'[p] = NoJob, \A q \in Callers \ {p} : job'[q] = job[q]
  PROVE  Owning(At[p])'
<1> DEFINE h == At[p]
<1>1. /\ job[p].pc = "restart" /\ ve' = ve /\ known' = known /\ dir' = dir /\ main' = main
      /\ Own(h)' = Own(h)
  BY DEF Restart, files, Own, On
<1>2. /\ \A q \in Callers : At1(q, h, Build)' => job'[q] = job[q] /\ At1(q, h, Build)
      /\ \A q \in Callers : At1(q, h, {"include"})' => job'[q] = job[q] /\ At1(q, h, {"include"})
      /\ \A q \in Callers : At1(q, h, Build \cup Link)' =>
           job'[q] = job[q] /\ At1(q, h, Build \cup Link)
  BY <1>1, LeavesAt DEF Build, Link
<1>3. /\ Around(h, {"hosts"}) => Around(h, {"hosts"})'
      /\ Around(h, {"header"}) => Around(h, {"header"})'
      /\ Around(h, Rebuild) => Around(h, Rebuild)'
      /\ Grows(h, Rebuild \cup Build \cup {"truncate", "fetch", "own"}) =>
           Grows(h, Rebuild \cup Build \cup {"truncate", "fetch", "own"})'
  BY <1>1, LeavesAt DEF Rebuild, Build
<1>4. \A d : InTodo(h, d) => InTodo(h, d)'
  BY <1>1, LeavesAt
<1>5. \A d : Including(h, d) <=> Including(h, d)'
  BY <1>1, LeavesAt
<1>6. Listed(h)'
  BY <1>1, <1>2, <1>3 DEF Owning, Listed
<1>7. Written(h)'
  BY <1>1, <1>3, <1>4, <1>5 DEF Owning, Written
<1>8. Topped(h)'
  BY <1>1, <1>2, <1>3 DEF Owning, Topped
<1>9. Included(h)'
  BY <1>1, <1>3 DEF Owning, Included
<1> QED BY <1>6, <1>7, <1>8, <1>9 DEF Owning

(* A command at a host that is used as it should be never gives up.        *)
LEMMA NoExit ==
  ASSUME FilesOK, JobsOK, PoundOK, Reliable, NEW p \in Callers, NEW c \in Names
  PROVE  ~AcmeExit(p, c)
<1> SUFFICES ASSUME AcmeExit(p, c)
             PROVE  FALSE
  OBVIOUS
<1>1. c \in env.acme /\ "acme" \notin env.faults /\ ~pound[At[p]].up
  BY DEF AcmeExit, Reliable
<1>2. env.overlap = {}
  BY <1>1 DEF Reliable, Disciplined
<1>3. At[p] \in Hosts
  BY ConstantsAssumption
<1> QED BY <1>1, <1>2, <1>3 DEF PoundOK

LEMMA OwnKept ==
  ASSUME FilesOK, JobsOK, OwnOK, PoundOK, [Next]_vars
  PROVE  OwnOK'
<1>1. env' = env
  BY DEF Next, Goes, Again, vars
<1>2. FilesOK' /\ JobsOK'
  BY FilesKept, JobsKept
<1>3. SUFFICES ASSUME Reliable
               PROVE  OwnOK'
  BY <1>1 DEF OwnOK, Reliable, Disciplined
<1>4. Reliable' /\ \A h \in Hosts : Owning(h)
  BY <1>1, <1>3 DEF OwnOK, Reliable, Disciplined, Owning
<1>5. \A p \in Callers : At[p] \in Hosts
  BY ConstantsAssumption
<1>6. ASSUME \A h \in Hosts : Away(h) \/ Owning(h)'
      PROVE  OwnOK'
  BY <1>4, <1>6, OwningAway DEF OwnOK, Owning
<1> HIDE DEF OwnOK
<1>7. ASSUME NEW p \in Callers, NEW c \in Names, Add(p, c)
      PROVE  OwnOK'
  <2>1. Start(p, "add", c, FALSE)
    BY <1>7 DEF Add
  <2>2. Begins(p, "add", "hosts")
    BY <2>1 DEF Start, Begins, NoJob, First, JobsOK
  <2>3. known' = known /\ dir' = dir /\ main' = main
    BY <2>1 DEF Start, files
  <2>4. \A h \in Hosts : h # At[p] => Away(h)
    BY <1>7, <1>5, <2>2, <2>3 DEF Away, Begins, Add, FilesOK, Mine, Own
  <2>5. Owning(At[p])'
    <3>1. Owning(At[p])
      BY <1>4, <1>5
    <3>2. ve[c] = "gone" /\ ve' = [ve EXCEPT ![c] = "serve"]
      BY <1>7 DEF Add, FilesOK, Own
    <3> HIDE DEF Owning
    <3> QED BY <1>2, <1>3, <1>4, <2>2, <2>3, <3>1, <3>2, OwningStart
  <2> QED BY <1>6, <2>4, <2>5
<1>8. ASSUME NEW p \in Callers, NEW c \in Names, Remove(p, c)
      PROVE  OwnOK'
  <2>1. Start(p, "remove", c, FALSE)
    BY <1>8 DEF Remove
  <2>2. Begins(p, "remove", "hosts")
    BY <2>1 DEF Start, Begins, NoJob, First, JobsOK
  <2>3. known' = known /\ dir' = dir /\ main' = main
    BY <2>1 DEF Start, files
  <2>4. \A h \in Hosts : h # At[p] => Away(h)
    BY <1>8, <1>5, <2>2, <2>3 DEF Away, Begins, Remove, FilesOK, Mine, Own
  <2>5. Owning(At[p])'
    <3>1. Owning(At[p])
      BY <1>4, <1>5
    <3>2. ve' = [ve EXCEPT ![c] = "gone"]
      BY <1>8 DEF Remove, FilesOK, Own
    <3> HIDE DEF Owning
    <3> QED BY <1>2, <1>3, <1>4, <2>2, <2>3, <3>1, <3>2, OwningStart
  <2> QED BY <1>6, <2>4, <2>5
<1>9. ASSUME NEW p \in Callers, NEW c \in Names, Settings(p, c)
      PROVE  OwnOK'
  <2>1. Start(p, "settings", c, FALSE)
    BY <1>9 DEF Settings
  <2>2. Begins(p, "settings", "wipe")
    BY <2>1 DEF Start, Begins, NoJob, First, JobsOK
  <2>3. known' = known /\ dir' = dir /\ main' = main
    BY <2>1 DEF Start, files
  <2>4. \A h \in Hosts : h # At[p] => Away(h)
    BY <1>9, <1>5, <2>2, <2>3 DEF Away, Begins, Settings, FilesOK, Mine, Own
  <2>5. Owning(At[p])'
    <3>1. Owning(At[p])
      BY <1>4, <1>5
    <3>2. \E x \in {"serve", "redirect"} : ve[c] # "gone" /\ ve' = [ve EXCEPT ![c] = x]
      BY <1>9 DEF Settings, FilesOK, Own
    <3> HIDE DEF Owning
    <3> QED BY <1>2, <1>3, <1>4, <2>2, <2>3, <3>1, <3>2, OwningStart
  <2> QED BY <1>6, <2>4, <2>5
<1>10. ASSUME NEW p \in Callers, NEW c \in Names, ImportCrt(p, c)
      PROVE  OwnOK'
  <2>1. Start(p, "import-crt", c, FALSE)
    BY <1>10 DEF ImportCrt
  <2>2. Begins(p, "import-crt", "import")
    BY <2>1 DEF Start, Begins, NoJob, First, JobsOK
  <2>3. known' = known /\ dir' = dir /\ main' = main
    BY <2>1 DEF Start, files
  <2>4. \A h \in Hosts : h # At[p] => Away(h)
    BY <1>10, <1>5, <2>2, <2>3 DEF Away, Begins, ImportCrt, FilesOK, Mine, Own
  <2>5. Owning(At[p])'
    <3>1. Owning(At[p])
      BY <1>4, <1>5
    <3>2. ve' = ve
      BY <1>10 DEF ImportCrt, FilesOK, Own
    <3> HIDE DEF Owning
    <3> QED BY <1>2, <1>3, <1>4, <2>2, <2>3, <3>1, <3>2, OwningStart
  <2> QED BY <1>6, <2>4, <2>5
<1>11. ASSUME NEW p \in Callers, NEW all \in BOOLEAN, Regenerate(p, all)
      PROVE  OwnOK'
  <2>1. Start(p, "regenerate", NoJob.c, all)
    BY <1>11 DEF Regenerate
  <2>2. Begins(p, "regenerate", "hosts")
    BY <2>1 DEF Start, Begins, NoJob, First, JobsOK
  <2>3. known' = known /\ dir' = dir /\ main' = main
    BY <2>1 DEF Start, files
  <2>4. \A h \in Hosts : h # At[p] => Away(h)
    BY <1>11, <1>5, <2>2, <2>3 DEF Away, Begins, Regenerate, FilesOK, Mine, Own
  <2>5. Owning(At[p])'
    <3>1. Owning(At[p])
      BY <1>4, <1>5
    <3>2. ve' = ve
      BY <1>11 DEF Regenerate, FilesOK, Own
    <3> HIDE DEF Owning
    <3> QED BY <1>2, <1>3, <1>4, <2>2, <2>3, <3>1, <3>2, OwningStart
  <2> QED BY <1>6, <2>4, <2>5
<1>12. ASSUME NEW p \in Callers, Diagnose(p)
      PROVE  OwnOK'
  <2>1. job' = job /\ ve' = ve /\ known' = known /\ dir' = dir /\ main' = main
    BY <1>12 DEF Diagnose, files
  <2> QED BY <1>6, <2>1 DEF Away
<1>13. ASSUME NEW p \in Callers, EtcHosts(p)
      PROVE  OwnOK'
  <2>1. \A q \in Callers \ {p} : job'[q] = job[q]
    BY <1>13, Leading DEF Moves
  <2>2. \A h \in Hosts : h # At[p] => Away(h)
    BY <1>13, <1>5, <2>1 DEF Away, EtcHosts, certs, files, times, FilesOK, Mine
  <2>3. Owning(At[p])'
    BY <1>13, <1>3, <1>4, <1>5, OwningEtcHosts
  <2> QED BY <1>6, <2>2, <2>3
<1>14. ASSUME NEW p \in Callers, Stamp(p)
      PROVE  OwnOK'
  <2>1. /\ \E todo, d : \E pc \in {"acme", "deploy", "wipe"} : Moves(p, pc, todo, d)
        /\ job[p].pc \in {"stamp", "acme", "deploy"}
        /\ ve' = ve /\ known' = known /\ dir' = dir /\ main' = main
    BY <1>14, Leading DEF Stamp, files
  <2>2. \A h \in Hosts : h # At[p] => Away(h)
    BY <2>1, <1>5 DEF Away, Moves
  <2>3. Owning(At[p])'
    BY <2>1, <1>4, <1>5, OwningCerts
  <2> QED BY <1>6, <2>2, <2>3
<1>15. ASSUME NEW p \in Callers, AcmeDone(p)
      PROVE  OwnOK'
  <2>1. /\ \E todo, d : \E pc \in {"acme", "deploy", "wipe"} : Moves(p, pc, todo, d)
        /\ job[p].pc \in {"stamp", "acme", "deploy"}
        /\ ve' = ve /\ known' = known /\ dir' = dir /\ main' = main
    BY <1>15, Leading DEF AcmeDone, files
  <2>2. \A h \in Hosts : h # At[p] => Away(h)
    BY <2>1, <1>5 DEF Away, Moves
  <2>3. Owning(At[p])'
    BY <2>1, <1>4, <1>5, OwningCerts
  <2> QED BY <1>6, <2>2, <2>3
<1>16. ASSUME NEW p \in Callers, Deploy(p)
      PROVE  OwnOK'
  <2>1. /\ \E todo, d : \E pc \in {"acme", "deploy", "wipe"} : Moves(p, pc, todo, d)
        /\ job[p].pc \in {"stamp", "acme", "deploy"}
        /\ ve' = ve /\ known' = known /\ dir' = dir /\ main' = main
    BY <1>16, Leading DEF Deploy, files
  <2>2. \A h \in Hosts : h # At[p] => Away(h)
    BY <2>1, <1>5 DEF Away, Moves
  <2>3. Owning(At[p])'
    BY <2>1, <1>4, <1>5, OwningCerts
  <2> QED BY <1>6, <2>2, <2>3
<1>17. ASSUME NEW p \in Callers, Import(p)
      PROVE  OwnOK'
  <2>1. \A q \in Callers \ {p} : job'[q] = job[q]
    BY <1>17, Leading DEF Moves
  <2>2. \A h \in Hosts : h # At[p] => Away(h)
    BY <1>17, <1>5, <2>1 DEF Away, Import, certs, files, times, FilesOK, Mine
  <2>3. Owning(At[p])'
    BY <1>17, <1>3, <1>4, <1>5, OwningImport
  <2> QED BY <1>6, <2>2, <2>3
<1>18. ASSUME NEW p \in Callers, Wipe(p)
      PROVE  OwnOK'
  <2>1. \A q \in Callers \ {p} : job'[q] = job[q]
    BY <1>18, Leading DEF Moves
  <2>2. \A h \in Hosts : h # At[p] => Away(h)
    BY <1>18, <1>5, <2>1, Wiping DEF Away, Wipe, certs, files, times, FilesOK, Mine, OwnDir
  <2>3. Owning(At[p])'
    BY <1>18, <1>3, <1>4, <1>5, OwningWipe
  <2> QED BY <1>6, <2>2, <2>3
<1>19. ASSUME NEW p \in Callers, Header(p)
      PROVE  OwnOK'
  <2>1. \A q \in Callers \ {p} : job'[q] = job[q]
    BY <1>19, Leading DEF Moves
  <2>2. \A g, h \in Hosts : h # At[p] => dir'[g][h] = dir[g][h]
    BY <1>19, Heading DEF OwnDir
  <2>3. ve' = ve /\ known' = known /\ main' = main
    BY <1>19 DEF Header, certs
  <2>4. \A h \in Hosts : h # At[p] => Away(h)
    BY <2>1, <2>2, <2>3 DEF Away
  <2>5. Owning(At[p])'
    BY <1>19, <1>3, <1>4, <1>5, OwningHeader
  <2> QED BY <1>6, <2>4, <2>5
<1>20. ASSUME NEW p \in Callers, IncludeService(p)
      PROVE  OwnOK'
  <2>0. job[p].pc = "include"
    BY <1>20, Leading
  <2>4. job[p].c \in Mine(At[p])
    BY <2>0 DEF JobsOK
  <2>1. \A q \in Callers \ {p} : job'[q] = job[q]
    BY <1>20, Leading DEF Moves
  <2>2. \A h \in Hosts : h # At[p] => Away(h)
    <3>1. \A g, h \in Hosts : h # At[p] => dir'[g][h] = dir[g][h]
      BY <1>20, <2>4, IncludingIt DEF OwnDir
    <3>2. ve' = ve /\ known' = known /\ main' = main
      BY <1>20 DEF IncludeService, certs
    <3> QED BY <2>1, <3>1, <3>2 DEF Away
  <2>3. Owning(At[p])'
    BY <1>20, <1>3, <1>4, <1>5, OwningInclude
  <2> QED BY <1>6, <2>2, <2>3
<1>21. ASSUME NEW p \in Callers, WriteDone(p)
      PROVE  OwnOK'
  <2>1. \A q \in Callers \ {p} : job'[q] = job[q]
    BY <1>21, Leading DEF Moves
  <2>2. \A h \in Hosts : h # At[p] => Away(h)
    BY <1>21, <1>5, <2>1 DEF Away, WriteDone, certs, files, times, FilesOK, Mine
  <2>3. Owning(At[p])'
    BY <1>21, <1>3, <1>4, <1>5, OwningWriteDone
  <2> QED BY <1>6, <2>2, <2>3
<1>22. ASSUME NEW p \in Callers, Truncate(p)
      PROVE  OwnOK'
  <2>1. \A q \in Callers \ {p} : job'[q] = job[q]
    BY <1>22, Leading DEF Moves
  <2>2. \A h \in Hosts : h # At[p] => Away(h)
    BY <1>22, <1>5, <2>1 DEF Away, Truncate, certs, files, times, FilesOK, Mine
  <2>3. Owning(At[p])'
    BY <1>22, <1>3, <1>4, <1>5, OwningTruncate
  <2> QED BY <1>6, <2>2, <2>3
<1>23. ASSUME NEW p \in Callers, Fetch(p)
      PROVE  OwnOK'
  <2>1. \A q \in Callers \ {p} : job'[q] = job[q]
    BY <1>23, Leading DEF Moves
  <2>2. \A h \in Hosts : h # At[p] => Away(h)
    BY <1>23, <1>5, <2>1, Fetching DEF Away, Fetch, certs, files, times, FilesOK, Mine
  <2>3. Owning(At[p])'
    BY <1>23, <1>3, <1>4, <1>5, OwningFetch
  <2> QED BY <1>6, <2>2, <2>3
<1>24. ASSUME NEW p \in Callers, AddOwn(p)
      PROVE  OwnOK'
  <2>1. \A q \in Callers \ {p} : job'[q] = job[q]
    BY <1>24, Leading DEF Moves
  <2>2. \A h \in Hosts : h # At[p] => Away(h)
    BY <1>24, <1>5, <2>1 DEF Away, AddOwn, certs, files, times, FilesOK, Mine
  <2>3. Owning(At[p])'
    BY <1>24, <1>3, <1>4, <1>5, OwningAddOwn
  <2> QED BY <1>6, <2>2, <2>3
<1>25. ASSUME NEW p \in Callers, AddPeers(p)
      PROVE  OwnOK'
  <2>1. \A q \in Callers \ {p} : job'[q] = job[q]
    BY <1>25, Leading DEF Moves
  <2>2. \A h \in Hosts : h # At[p] => Away(h)
    BY <1>25, <1>5, <2>1 DEF Away, AddPeers, certs, files, times, FilesOK, Mine
  <2>3. Owning(At[p])'
    BY <1>25, <1>3, <1>4, <1>5, OwningAddPeers
  <2> QED BY <1>6, <2>2, <2>3
<1>26. ASSUME NEW p \in Callers, Restart(p)
      PROVE  OwnOK'
  <2>1. job'[p] = NoJob /\ \A q \in Callers \ {p} : job'[q] = job[q]
    BY <1>26, JobsLeft, <1>1 DEF Restart, Leave, JobsOK
  <2>2. \A h \in Hosts : h # At[p] => Away(h)
    BY <1>26, <1>5, <2>1 DEF Away, Restart, files
  <2>3. Owning(At[p])'
    BY <1>26, <1>3, <1>4, <1>5, <2>1, OwningRestart
  <2> QED BY <1>6, <2>2, <2>3
<1>27. ASSUME NEW p \in Callers, NEW c \in Names, AcmeSkip(p, c)
      PROVE  OwnOK'
  <2>1. /\ \E todo, d : \E pc \in {"acme", "deploy", "wipe"} : Moves(p, pc, todo, d)
        /\ job[p].pc \in {"stamp", "acme", "deploy"}
        /\ ve' = ve /\ known' = known /\ dir' = dir /\ main' = main
    BY <1>27, LeadingTo DEF AcmeSkip, files
  <2>2. \A h \in Hosts : h # At[p] => Away(h)
    BY <2>1, <1>5 DEF Away, Moves
  <2>3. Owning(At[p])'
    BY <2>1, <1>4, <1>5, OwningCerts
  <2> QED BY <1>6, <2>2, <2>3
<1>28. ASSUME NEW p \in Callers, NEW c \in Names, AcmeDeploy(p, c)
      PROVE  OwnOK'
  <2>1. /\ \E todo, d : \E pc \in {"acme", "deploy", "wipe"} : Moves(p, pc, todo, d)
        /\ job[p].pc \in {"stamp", "acme", "deploy"}
        /\ ve' = ve /\ known' = known /\ dir' = dir /\ main' = main
    BY <1>28, LeadingTo DEF AcmeDeploy, files
  <2>2. \A h \in Hosts : h # At[p] => Away(h)
    BY <2>1, <1>5 DEF Away, Moves
  <2>3. Owning(At[p])'
    BY <2>1, <1>4, <1>5, OwningCerts
  <2> QED BY <1>6, <2>2, <2>3
<1>29. ASSUME NEW p \in Callers, NEW c \in Names, AcmeExit(p, c)
      PROVE  OwnOK'
  BY <1>29, <1>3, NoExit
<1>30. ASSUME NEW p \in Callers, NEW c \in Names, AcmeGet(p, c)
      PROVE  OwnOK'
  <2>1. /\ \E todo, d : \E pc \in {"acme", "deploy", "wipe"} : Moves(p, pc, todo, d)
        /\ job[p].pc \in {"stamp", "acme", "deploy"}
        /\ ve' = ve /\ known' = known /\ dir' = dir /\ main' = main
    BY <1>30, LeadingTo DEF AcmeGet, files
  <2>2. \A h \in Hosts : h # At[p] => Away(h)
    BY <2>1, <1>5 DEF Away, Moves
  <2>3. Owning(At[p])'
    BY <2>1, <1>4, <1>5, OwningCerts
  <2> QED BY <1>6, <2>2, <2>3
<1>31. ASSUME NEW p \in Callers, NEW c \in Names, WriteService(p, c)
      PROVE  OwnOK'
  <2>1. \A q \in Callers \ {p} : job'[q] = job[q]
    BY <1>31, LeadingTo DEF Moves
  <2>2. \A h \in Hosts : h # At[p] => Away(h)
    <3>1. \A g, h \in Hosts : h # At[p] => dir'[g][h] = dir[g][h]
      BY <1>31, Writing DEF OwnDir
    <3>2. ve' = ve /\ known' = known /\ main' = main
      BY <1>31 DEF WriteService, certs
    <3> QED BY <2>1, <3>1, <3>2 DEF Away
  <2>3. Owning(At[p])'
    BY <1>31, <1>3, <1>4, <1>5, OwningWrite
  <2> QED BY <1>6, <2>2, <2>3
<1>32. ASSUME NEW h \in Hosts, Crash(h)
      PROVE  OwnOK'
  <2>1. job' = job /\ ve' = ve /\ known' = known /\ dir' = dir /\ main' = main
    BY <1>32 DEF Crash, files
  <2> QED BY <1>6, <2>1 DEF Away
<1>33. ASSUME Midnight
      PROVE  OwnOK'
  <2>1. job' = job /\ ve' = ve /\ known' = known /\ dir' = dir /\ main' = main
    BY <1>33 DEF Midnight, files
  <2> QED BY <1>6, <2>1 DEF Away
<1>34. ASSUME Net
      PROVE  OwnOK'
  <2>1. job' = job /\ ve' = ve /\ known' = known /\ dir' = dir /\ main' = main
    BY <1>34 DEF Net, files
  <2> QED BY <1>6, <2>1 DEF Away
<1>35. ASSUME UNCHANGED vars
      PROVE  OwnOK'
  <2>1. job' = job /\ ve' = ve /\ known' = known /\ dir' = dir /\ main' = main
    BY <1>35 DEF vars
  <2> QED BY <1>6, <2>1 DEF Away
<1> QED
  BY <1>7, <1>8, <1>9, <1>10, <1>11, <1>12, <1>13, <1>14, <1>15, <1>16, <1>17,
     <1>18, <1>19, <1>20, <1>21, <1>22, <1>23, <1>24, <1>25, <1>26, <1>27, <1>28,
     <1>29, <1>30, <1>31, <1>32, <1>33, <1>34, <1>35, Zenon
  DEF Next, Goes, Certificates, Files, Sync, Command, vars
-----------------------------------------------------------------------------
(* While a command runs at a host, nothing happens at the others.          *)
LEMMA Elsewhere ==
  ASSUME JobsOK, NEW p \in Callers, job[p].cmd # "none", NEW d, d # At[p]
  PROVE  /\ \A X : "none" \notin X => ~Around(d, X) /\ ~Grows(d, X)
         /\ \A c : ~InTodo(d, c) /\ ~Including(d, c)
         /\ \A q \in Callers : At[q] = d => job[q].cmd = "none"
<1>1. \A q \in Callers : At[q] = d => job[q].cmd = "none" /\ job[q].pc = "none"
  <2> SUFFICES ASSUME NEW q \in Callers, At[q] = d
               PROVE  job[q].cmd = "none" /\ job[q].pc = "none"
    OBVIOUS
  <2>1. job[q].cmd = "none"
    BY DEF JobsOK
  <2> QED BY <2>1, Placed
<1> QED BY <1>1 DEF Around, Grows, InTodo, Including, At1, Build

(* What a host has written when nothing happens there.                     *)
LEMMA Settled ==
  ASSUME FilesOK, JobsOK, NEW d \in Hosts, Owning(d),
         \A X : "none" \notin X => ~Around(d, X),
         \A c : ~InTodo(d, c) /\ ~Including(d, c)
  PROVE  /\ dir[d][d].inc \subseteq Own(d)
         /\ \A c \in dir[d][d].inc : dir[d][d].has[c].kind = ve[c] /\ ve[c] # "none"
         /\ Own(d) \subseteq known[d][d]
         /\ dir[d][d].top \/ (d \notin main[d] /\ \A g \in Hosts : dir[g][d].inc = {})
         /\ \A c \in Own(d) : c \in dir[d][d].inc
<1>1. ~Around(d, Rebuild) /\ ~Around(d, {"hosts"}) /\ ~Around(d, {"header"})
  BY DEF Rebuild
<1>2. dir[d][d].inc \subseteq Own(d)
  BY <1>1 DEF Owning, Written
<1>3. \A c \in Own(d) : c \in Names /\ ve[c] # "none"
  BY DEF Own, FilesOK
<1>4. \A c \in dir[d][d].inc : dir[d][d].has[c].kind = ve[c]
  BY <1>1, <1>2, <1>3 DEF Owning, Written
<1>5. Own(d) \subseteq known[d][d]
  BY <1>1 DEF Owning, Listed
<1>6. dir[d][d].top \/ (d \notin main[d] /\ \A g \in Hosts : dir[g][d].inc = {})
  BY <1>1 DEF Owning, Topped
<1>7. \A c \in Own(d) : c \in dir[d][d].inc
  BY <1>1 DEF Owning, Written
<1> QED BY <1>2, <1>3, <1>4, <1>5, <1>6, <1>7

AllCopied   == \A h, d \in Hosts : h # d => Copied(h, d)
AllResolved == \A h, d \in Hosts : h # d => Resolved(h, d)

LEMMA CopiedSame ==
  ASSUME env' = env, AllCopied, FilesOK,
         \A h, d \in Hosts : h # d => dir'[h][d] = dir[h][d] /\ (d \in main'[h] => d \in main[h]),
         \A d \in Hosts : "remove" \notin env.cmds[d] => Own(d) \subseteq Own(d)'
  PROVE  AllCopied'
  BY DEF AllCopied, Copied

LEMMA CopiedKept ==
  ASSUME FilesOK, JobsOK, OwnOK, Reliable, AllCopied, [Next]_vars
  PROVE  AllCopied'
<1>1. env' = env
  BY DEF Next, Goes, Again, vars
<1>2. \A h \in Hosts : Owning(h)
  BY DEF OwnOK, Owning
<1>3. \A p \in Callers : At[p] \in Hosts
  BY ConstantsAssumption
<1>4. ASSUME NEW p \in Callers, NEW c \in Names, Add(p, c)
      PROVE  AllCopied'
  <2>1. dir' = dir /\ main' = main
    BY <1>4 DEF Add, Start, files
  <2>2. \A d \in Hosts : "remove" \notin env.cmds[d] => Own(d) \subseteq Own(d)'
    BY <1>4 DEF Add, Own, FilesOK
  <2> QED BY <1>1, <2>1, <2>2, CopiedSame
<1>5. ASSUME NEW p \in Callers, NEW c \in Names, Remove(p, c)
      PROVE  AllCopied'
  <2>1. dir' = dir /\ main' = main
    BY <1>5 DEF Remove, Start, files
  <2>2. \A d \in Hosts : "remove" \notin env.cmds[d] => Own(d) \subseteq Own(d)'
    BY <1>5 DEF Remove, Start, Own, FilesOK
  <2> QED BY <1>1, <2>1, <2>2, CopiedSame
<1>6. ASSUME NEW p \in Callers, NEW c \in Names, Settings(p, c)
      PROVE  AllCopied'
  <2>1. dir' = dir /\ main' = main
    BY <1>6 DEF Settings, Start, files
  <2>2. \A d \in Hosts : "remove" \notin env.cmds[d] => Own(d) \subseteq Own(d)'
    BY <1>6 DEF Settings, Own, FilesOK
  <2> QED BY <1>1, <2>1, <2>2, CopiedSame
<1>7. ASSUME NEW p \in Callers, NEW c \in Names, ImportCrt(p, c)
      PROVE  AllCopied'
  <2>1. dir' = dir /\ main' = main
    BY <1>7 DEF ImportCrt, Start, files
  <2>2. \A d \in Hosts : "remove" \notin env.cmds[d] => Own(d) \subseteq Own(d)'
    BY <1>7 DEF ImportCrt, Own, FilesOK
  <2> QED BY <1>1, <2>1, <2>2, CopiedSame
<1>8. ASSUME NEW p \in Callers, NEW all \in BOOLEAN, Regenerate(p, all)
      PROVE  AllCopied'
  <2>1. dir' = dir /\ main' = main
    BY <1>8 DEF Regenerate, Start, files
  <2>2. \A d \in Hosts : "remove" \notin env.cmds[d] => Own(d) \subseteq Own(d)'
    BY <1>8 DEF Regenerate, Own, FilesOK
  <2> QED BY <1>1, <2>1, <2>2, CopiedSame
<1>9. ASSUME NEW p \in Callers, Diagnose(p)
      PROVE  AllCopied'
  <2>1. dir' = dir /\ main' = main /\ \A d \in Hosts : Own(d)' = Own(d)
    BY <1>9 DEF Diagnose, certs, files, Own
  <2> QED BY <1>1, <2>1, CopiedSame
<1>10. ASSUME NEW p \in Callers, EtcHosts(p)
      PROVE  AllCopied'
  <2>1. dir' = dir /\ main' = main /\ \A d \in Hosts : Own(d)' = Own(d)
    BY <1>10 DEF EtcHosts, certs, files, Own
  <2> QED BY <1>1, <2>1, CopiedSame
<1>11. ASSUME NEW p \in Callers, Stamp(p)
      PROVE  AllCopied'
  <2>1. dir' = dir /\ main' = main /\ \A d \in Hosts : Own(d)' = Own(d)
    BY <1>11 DEF Stamp, certs, files, Own
  <2> QED BY <1>1, <2>1, CopiedSame
<1>12. ASSUME NEW p \in Callers, AcmeDone(p)
      PROVE  AllCopied'
  <2>1. dir' = dir /\ main' = main /\ \A d \in Hosts : Own(d)' = Own(d)
    BY <1>12 DEF AcmeDone, certs, files, Own
  <2> QED BY <1>1, <2>1, CopiedSame
<1>13. ASSUME NEW p \in Callers, Deploy(p)
      PROVE  AllCopied'
  <2>1. dir' = dir /\ main' = main /\ \A d \in Hosts : Own(d)' = Own(d)
    BY <1>13 DEF Deploy, certs, files, Own
  <2> QED BY <1>1, <2>1, CopiedSame
<1>14. ASSUME NEW p \in Callers, Import(p)
      PROVE  AllCopied'
  <2>1. dir' = dir /\ main' = main /\ \A d \in Hosts : Own(d)' = Own(d)
    BY <1>14 DEF Import, certs, files, Own
  <2> QED BY <1>1, <2>1, CopiedSame
<1>15. ASSUME NEW p \in Callers, Wipe(p)
      PROVE  AllCopied'
  <2>1. main' = main /\ \A d \in Hosts : Own(d)' = Own(d)
    BY <1>15 DEF Wipe, certs, Own
  <2>2. OwnDir(At[p], FALSE, {}, Empty.has)
    BY <1>15, Wiping
  <2>3. \A h, d \in Hosts : h # d => dir'[h][d] = dir[h][d]
    BY <2>2 DEF OwnDir
  <2> QED BY <1>1, <2>1, <2>3, CopiedSame
<1>16. ASSUME NEW p \in Callers, Header(p)
      PROVE  AllCopied'
  <2>1. main' = main /\ \A d \in Hosts : Own(d)' = Own(d)
    BY <1>16 DEF Header, certs, Own
  <2>2. OwnDir(At[p], TRUE, {}, dir[At[p]][At[p]].has)
    BY <1>16, Heading
  <2>3. \A h, d \in Hosts : h # d => dir'[h][d] = dir[h][d]
    BY <2>2 DEF OwnDir
  <2> QED BY <1>1, <2>1, <2>3, CopiedSame
<1>17. ASSUME NEW p \in Callers, IncludeService(p)
      PROVE  AllCopied'
  <2>0. job[p].pc = "include"
    BY <1>17, Leading
  <2>4. job[p].c \in Mine(At[p])
    BY <2>0 DEF JobsOK
  <2>1. main' = main /\ \A d \in Hosts : Own(d)' = Own(d)
    BY <1>17 DEF IncludeService, certs, Own
  <2>2. OwnDir(At[p], dir[At[p]][At[p]].top, dir[At[p]][At[p]].inc \cup {job[p].c},
            dir[At[p]][At[p]].has)
    BY <1>17, <2>4, IncludingIt
  <2>3. \A h, d \in Hosts : h # d => dir'[h][d] = dir[h][d]
    BY <2>2 DEF OwnDir
  <2> QED BY <1>1, <2>1, <2>3, CopiedSame
<1>18. ASSUME NEW p \in Callers, WriteDone(p)
      PROVE  AllCopied'
  <2>1. dir' = dir /\ main' = main /\ \A d \in Hosts : Own(d)' = Own(d)
    BY <1>18 DEF WriteDone, certs, files, Own
  <2> QED BY <1>1, <2>1, CopiedSame
<1>19. ASSUME NEW p \in Callers, Truncate(p)
      PROVE  AllCopied'
  <2>1. dir' = dir /\ \A d \in Hosts : Own(d)' = Own(d)
    BY <1>19 DEF Truncate, certs, Own
  <2>2. \A h, d \in Hosts : h # d => (d \in main'[h] => d \in main[h])
    BY <1>19, <1>3 DEF Truncate, FilesOK
  <2> QED BY <1>1, <2>1, <2>2, CopiedSame
<1>20. ASSUME NEW p \in Callers, Fetch(p)
      PROVE  AllCopied'
  <2>1. main' = main /\ \A d \in Hosts : Own(d)' = Own(d)
    BY <1>20 DEF Fetch, certs, Own
  <2>2. job[p].cmd # "none"
    BY <1>20, Leading, Placed
  <2> SUFFICES ASSUME NEW h \in Hosts, NEW d \in Hosts, h # d
               PROVE  Copied(h, d)'
    BY DEF AllCopied
  <2>3. CASE dir'[h][d] = dir[h][d]
    BY <1>1, <2>1, <2>3 DEF AllCopied, Copied
  <2>4. CASE h = At[p] /\ dir'[h][d] = dir[d][d] /\ dir[d][d].top
    <3>1. /\ dir[d][d].inc \subseteq Own(d)
          /\ \A c \in dir[d][d].inc : dir[d][d].has[c].kind # "none"
      <4>1. /\ \A X : "none" \notin X => ~Around(d, X)
            /\ \A c : ~InTodo(d, c) /\ ~Including(d, c)
        BY <2>2, <2>4, Elsewhere
      <4> QED BY <1>2, <4>1, Settled
    <3> QED BY <1>1, <2>1, <2>4, <3>1 DEF Copied
  <2>5. \/ dir'[h][d] = dir[h][d]
        \/ h = At[p] /\ dir'[h][d] = dir[d][d] /\ dir[d][d].top
    BY <1>20, Fetching
  <2> QED BY <2>3, <2>4, <2>5
<1>21. ASSUME NEW p \in Callers, AddOwn(p)
      PROVE  AllCopied'
  <2>1. dir' = dir /\ \A d \in Hosts : Own(d)' = Own(d)
    BY <1>21 DEF AddOwn, certs, Own
  <2>2. \A h, d \in Hosts : h # d => (d \in main'[h] => d \in main[h])
    BY <1>21, <1>3 DEF AddOwn, FilesOK
  <2> QED BY <1>1, <2>1, <2>2, CopiedSame
<1>22. ASSUME NEW p \in Callers, AddPeers(p)
      PROVE  AllCopied'
  <2>1. dir' = dir /\ \A d \in Hosts : Own(d)' = Own(d)
    BY <1>22 DEF AddPeers, certs, Own
  <2>2. \A h, d \in Hosts : h # d /\ d \in main'[h] => d \in main[h] \/ dir[h][d].top
    BY <1>22, <1>3 DEF AddPeers, FilesOK
  <2> QED BY <1>1, <2>1, <2>2 DEF AllCopied, Copied
<1>23. ASSUME NEW p \in Callers, Restart(p)
      PROVE  AllCopied'
  <2>1. dir' = dir /\ main' = main /\ \A d \in Hosts : Own(d)' = Own(d)
    BY <1>23 DEF Restart, certs, files, Own
  <2> QED BY <1>1, <2>1, CopiedSame
<1>24. ASSUME NEW p \in Callers, NEW c \in Names, AcmeSkip(p, c)
      PROVE  AllCopied'
  <2>1. dir' = dir /\ main' = main /\ \A d \in Hosts : Own(d)' = Own(d)
    BY <1>24 DEF AcmeSkip, certs, files, Own
  <2> QED BY <1>1, <2>1, CopiedSame
<1>25. ASSUME NEW p \in Callers, NEW c \in Names, AcmeDeploy(p, c)
      PROVE  AllCopied'
  <2>1. dir' = dir /\ main' = main /\ \A d \in Hosts : Own(d)' = Own(d)
    BY <1>25 DEF AcmeDeploy, certs, files, Own
  <2> QED BY <1>1, <2>1, CopiedSame
<1>26. ASSUME NEW p \in Callers, NEW c \in Names, AcmeExit(p, c)
      PROVE  AllCopied'
  <2>1. dir' = dir /\ main' = main /\ \A d \in Hosts : Own(d)' = Own(d)
    BY <1>26 DEF AcmeExit, certs, files, Own
  <2> QED BY <1>1, <2>1, CopiedSame
<1>27. ASSUME NEW p \in Callers, NEW c \in Names, AcmeGet(p, c)
      PROVE  AllCopied'
  <2>1. dir' = dir /\ main' = main /\ \A d \in Hosts : Own(d)' = Own(d)
    BY <1>27 DEF AcmeGet, certs, files, Own
  <2> QED BY <1>1, <2>1, CopiedSame
<1>28. ASSUME NEW p \in Callers, NEW c \in Names, WriteService(p, c)
      PROVE  AllCopied'
  <2>1. main' = main /\ \A d \in Hosts : Own(d)' = Own(d)
    BY <1>28 DEF WriteService, certs, Own
  <2>2. OwnDir(At[p], dir[At[p]][At[p]].top, dir[At[p]][At[p]].inc,
            [dir[At[p]][At[p]].has EXCEPT ![c] = Services(c)])
    BY <1>28, Writing
  <2>3. \A h, d \in Hosts : h # d => dir'[h][d] = dir[h][d]
    BY <2>2 DEF OwnDir
  <2> QED BY <1>1, <2>1, <2>3, CopiedSame
<1>29. ASSUME NEW h \in Hosts, Crash(h)
      PROVE  AllCopied'
  <2>1. dir' = dir /\ main' = main /\ \A d \in Hosts : Own(d)' = Own(d)
    BY <1>29 DEF Crash, certs, files, Own
  <2> QED BY <1>1, <2>1, CopiedSame
<1>30. ASSUME Midnight
      PROVE  AllCopied'
  <2>1. dir' = dir /\ main' = main /\ \A d \in Hosts : Own(d)' = Own(d)
    BY <1>30 DEF Midnight, certs, files, Own
  <2> QED BY <1>1, <2>1, CopiedSame
<1>31. ASSUME Net
      PROVE  AllCopied'
  <2>1. dir' = dir /\ main' = main /\ \A d \in Hosts : Own(d)' = Own(d)
    BY <1>31 DEF Net, certs, files, Own
  <2> QED BY <1>1, <2>1, CopiedSame
<1>32. ASSUME UNCHANGED vars
      PROVE  AllCopied'
  <2>1. dir' = dir /\ main' = main /\ \A d \in Hosts : Own(d)' = Own(d)
    BY <1>32 DEF vars, Own
  <2> QED BY <1>1, <2>1, CopiedSame
<1> QED
  BY <1>4, <1>5, <1>6, <1>7, <1>8, <1>9, <1>10, <1>11, <1>12, <1>13, <1>14, <1>15,
     <1>16, <1>17, <1>18, <1>19, <1>20, <1>21, <1>22, <1>23, <1>24, <1>25, <1>26,
     <1>27, <1>28, <1>29, <1>30, <1>31, <1>32, Zenon
  DEF Next, Goes, Certificates, Files, Sync, Command, vars

-----------------------------------------------------------------------------
(* What pound may resolve of the peers.                                    *)
Early == BeforeFetch \ {"hosts"}

LEMMA ResolvedSame ==
  ASSUME NEW h, NEW d, Resolved(h, d), cut' = cut, known'[h][d] = known[h][d],
         dir'[h][d].inc = dir[h][d].inc,
         Grows(h, BeforeFetch) => Grows(h, BeforeFetch)' /\ dir'[d][d].top = dir[d][d].top,
         Grows(h, Early)' => Grows(h, Early) /\ known'[d][d] = known[d][d]
  PROVE  Resolved(h, d)'
<1>1. Reached(h)' = Reached(h)
  BY DEF Reached
<1>2. \/ dir'[h][d].inc \subseteq known'[h][d]
      \/ d \in Reached(h) /\ dir'[d][d].top /\ Grows(h, BeforeFetch)'
  BY DEF Resolved
<1>3. Grows(h, Early)' /\ d \in Reached(h) => known'[h][d] = known'[d][d]
  BY DEF Resolved, Early
<1> QED BY <1>1, <1>2, <1>3 DEF Resolved, Early

LEMMA NotNone == "none" \notin BeforeFetch /\ "none" \notin Early /\ "hosts" \notin Early
  BY DEF BeforeFetch, Rebuild, Build, Early

LEMMA ResolvedAway ==
  ASSUME JobsOK, NEW p \in Callers, job[p].cmd # "none",
         \A q \in Callers \ {p} : job'[q] = job[q],
         NEW h, NEW d, h # At[p], Resolved(h, d), cut' = cut, known'[h][d] = known[h][d],
         dir'[h][d].inc = dir[h][d].inc
  PROVE  Resolved(h, d)'
<1>1. ~Grows(h, BeforeFetch) /\ ~Grows(h, Early)
  BY NotNone, Elsewhere
<1>2. Grows(h, Early)' <=> Grows(h, Early)
  BY SameJobs
<1> QED BY <1>1, <1>2, ResolvedSame

(* A step that leaves the files alone.                                     *)
LEMMA ResolvedFiles ==
  ASSUME JobsOK, FilesOK, AllResolved, NEW p \in Callers,
         \A q \in Callers \ {p} : job'[q] = job[q],
         cut' = cut, known' = known,
         \A h, d \in Hosts : h # d => dir'[h][d].inc = dir[h][d].inc,
         \A d \in Hosts : dir'[d][d].top = dir[d][d].top,
         Grows(At[p], BeforeFetch) => Grows(At[p], BeforeFetch)',
         Grows(At[p], Early)' => Grows(At[p], Early)
  PROVE  AllResolved'
<1> SUFFICES ASSUME NEW h \in Hosts, NEW d \in Hosts, h # d
             PROVE  Resolved(h, d)'
  BY DEF AllResolved
<1>1. Resolved(h, d)
  BY DEF AllResolved
<1>2. CASE h = At[p]
  BY <1>1, <1>2, ResolvedSame
<1>3. CASE h # At[p]
  <2>1. /\ Grows(h, BeforeFetch)' <=> Grows(h, BeforeFetch)
        /\ Grows(h, Early)' <=> Grows(h, Early)
    BY <1>3, SameJobs
  <2> QED BY <1>1, <2>1, ResolvedSame
<1> QED BY <1>2, <1>3

LEMMA ResolvedHosts ==
  ASSUME FilesOK, JobsOK, OwnOK, Reliable, AllCopied, AllResolved,
         NEW p \in Callers, EtcHosts(p)
  PROVE  AllResolved'
<1> SUFFICES ASSUME NEW h \in Hosts, NEW d \in Hosts, h # d
             PROVE  Resolved(h, d)'
  BY DEF AllResolved
<1> DEFINE g == At[p]
<1>1. Resolved(h, d) /\ Copied(h, d) /\ Owning(d)
  BY DEF AllResolved, AllCopied, OwnOK, Owning
<1>2. g \in Hosts
  BY ConstantsAssumption
<1>3. /\ job[p].pc = "hosts" /\ dir' = dir /\ cut' = cut
      /\ known' = [known EXCEPT ![g] = [e \in Hosts |->
           IF e = g THEN Own(g) ELSE IF e \in Reached(g) THEN known[e][e] ELSE @[e]]]
      /\ \E todo, c : \E pc \in {"acme", "stamp", "wipe"} :
           Moves(p, pc, todo, c) /\ (pc = "wipe" => job[p].cmd = "remove")
  BY Leading DEF EtcHosts, times
<1>4. /\ \A e, f \in Hosts : e # g => known'[e][f] = known[e][f]
      /\ \A e \in Hosts : e # g =>
           known'[g][e] = IF e \in Reached(g) THEN known[e][e] ELSE known[g][e]
  BY <1>2, <1>3 DEF FilesOK
<1>5. job[p].cmd # "none" /\ \A q \in Callers \ {p} : job'[q] = job[q]
  BY <1>3, Placed DEF Moves
<1>6. CASE h # g
  BY <1>1, <1>3, <1>4, <1>5, <1>6, ResolvedAway
<1>7. CASE h = g
  <2>1. /\ dir[d][d].inc \subseteq Own(d) /\ Own(d) \subseteq known[d][d]
        /\ dir[d][d].top \/ dir[h][d].inc = {}
    <3>1. /\ \A X : "none" \notin X => ~Around(d, X)
          /\ \A c : ~InTodo(d, c) /\ ~Including(d, c)
      BY <1>5, <1>7, Elsewhere
    <3> QED BY <1>1, <3>1, Settled
  <2>2. Reached(h)' = Reached(h)
    BY <1>3 DEF Reached
  <2>3. d \in Reached(h) => known'[h][d] = known'[d][d]
    BY <1>4, <1>7
  <2>4. CASE d \notin Reached(h)
    BY <1>1, <1>3, <1>4, <1>7, <2>2, <2>4 DEF Resolved
  <2>5. CASE d \in Reached(h) /\ dir[h][d].inc = {}
    BY <1>3, <2>2, <2>3, <2>5 DEF Resolved
  <2>6. CASE d \in Reached(h) /\ dir[d][d].top /\ job[p].cmd = "remove"
    <3>1. "remove" \in env.cmds[g] /\ "remove" \notin env.cmds[d]
      BY <1>2, <1>5, <1>7, <2>6 DEF JobsOK, Reliable, Disciplined
    <3>2. dir[h][d].inc \subseteq known[d][d]
      BY <1>1, <2>1, <3>1 DEF Copied
    <3> QED BY <1>3, <1>4, <1>7, <2>2, <2>3, <2>6, <3>2 DEF Resolved
  <2>7. CASE d \in Reached(h) /\ dir[d][d].top /\ job[p].cmd # "remove"
    <3>1. job[p].cmd \in Growing
      BY <1>3, <2>7, Placed DEF Growing
    <3>2. PICK todo, c, pc : pc \in {"acme", "stamp", "wipe"} /\ Moves(p, pc, todo, c)
      BY <1>3
    <3>3. Grows(h, BeforeFetch)'
      BY <1>7, <3>1, <3>2, MovesAt DEF BeforeFetch, Rebuild
    <3> QED BY <1>3, <2>2, <2>3, <2>7, <3>3 DEF Resolved
  <2> QED BY <2>1, <2>4, <2>5, <2>6, <2>7
<1> QED BY <1>6, <1>7

LEMMA ResolvedFetch ==
  ASSUME FilesOK, JobsOK, OwnOK, Reliable, AllResolved, NEW p \in Callers, Fetch(p)
  PROVE  AllResolved'
<1> SUFFICES ASSUME NEW h \in Hosts, NEW d \in Hosts, h # d
             PROVE  Resolved(h, d)'
  BY DEF AllResolved
<1> DEFINE g == At[p]
<1>1. Resolved(h, d) /\ Owning(d)
  BY DEF AllResolved, OwnOK, Owning
<1>2. g \in Hosts
  BY ConstantsAssumption
<1>3. job[p].pc = "fetch" /\ known' = known /\ cut' = cut /\ Moves(p, "own", job[p].todo, job[p].c)
  BY Leading DEF Fetch, times
<1>4. job[p].cmd \in Growing /\ job[p].cmd # "none" /\ \A q \in Callers \ {p} : job'[q] = job[q]
  BY <1>3, Placed DEF Moves
<1>5. CASE h # g
  <2>1. dir'[h][d] = dir[h][d]
    BY <1>5, Fetching
  <2> QED BY <1>1, <1>3, <1>4, <1>5, <2>1, ResolvedAway
<1>6. CASE h = g
  <2>1. /\ dir[d][d].inc \subseteq Own(d) /\ Own(d) \subseteq known[d][d]
        /\ dir[d][d].top \/ dir[h][d].inc = {}
    <3>1. /\ \A X : "none" \notin X => ~Around(d, X)
          /\ \A c : ~InTodo(d, c) /\ ~Including(d, c)
      BY <1>4, <1>6, Elsewhere
    <3> QED BY <1>1, <3>1, Settled
  <2>2. Reached(h)' = Reached(h)
    BY <1>3 DEF Reached
  <2>3. Grows(h, Early)
    BY <1>3, <1>4, <1>6 DEF Grows, At1, Early, BeforeFetch
  <2>4. d \in Reached(h) => known[h][d] = known[d][d]
    BY <1>1, <2>3 DEF Resolved, Early
  <2>5. dir'[h][d] = IF d \in Reached(h) /\ dir[d][d].top THEN dir[d][d] ELSE dir[h][d]
    BY <1>6, Fetching
  <2>6. CASE d \in Reached(h) /\ dir[d][d].top
    BY <1>3, <2>1, <2>2, <2>4, <2>5, <2>6 DEF Resolved
  <2>7. CASE ~(d \in Reached(h) /\ dir[d][d].top)
    <3>1. dir'[h][d].inc \subseteq known'[h][d]
      BY <1>1, <1>3, <2>5, <2>7 DEF Resolved
    <3> QED BY <1>3, <2>2, <2>4, <3>1 DEF Resolved
  <2> QED BY <2>6, <2>7
<1> QED BY <1>5, <1>6

LEMMA ResolvedKept ==
  ASSUME FilesOK, JobsOK, OwnOK, PoundOK, Reliable, AllCopied, AllResolved,
         [Next]_vars
  PROVE  AllResolved'
<1>1. env' = env
  BY DEF Next, Goes, Again, vars
<1>2. \A p \in Callers : At[p] \in Hosts
  BY ConstantsAssumption
<1>3. ASSUME NEW p \in Callers, NEW c \in Names, Add(p, c)
      PROVE  AllResolved'
  <2>1. Start(p, "add", c, FALSE)
    BY <1>3 DEF Add
  <2>2. Begins(p, "add", "hosts")
    BY <2>1 DEF Start, Begins, NoJob, First, JobsOK
  <2>3. known' = known /\ dir' = dir /\ cut' = cut
    BY <2>1 DEF Start, files, times
  <2>4. /\ Grows(At[p], BeforeFetch) => Grows(At[p], BeforeFetch)'
        /\ Grows(At[p], Early)' =>
             ("hosts" \in Early /\ "add" \in Growing) \/ Grows(At[p], Early)
    BY <2>2, BeginsAt, NotNone
  <2>5. ~("hosts" \in Early /\ "add" \in Growing)
    BY DEF Early, BeforeFetch, Rebuild, Build, Growing
  <2> QED BY <2>2, <2>3, <2>4, <2>5, ResolvedFiles DEF Begins
<1>4. ASSUME NEW p \in Callers, NEW c \in Names, Remove(p, c)
      PROVE  AllResolved'
  <2>1. Start(p, "remove", c, FALSE)
    BY <1>4 DEF Remove
  <2>2. Begins(p, "remove", "hosts")
    BY <2>1 DEF Start, Begins, NoJob, First, JobsOK
  <2>3. known' = known /\ dir' = dir /\ cut' = cut
    BY <2>1 DEF Start, files, times
  <2>4. /\ Grows(At[p], BeforeFetch) => Grows(At[p], BeforeFetch)'
        /\ Grows(At[p], Early)' =>
             ("hosts" \in Early /\ "remove" \in Growing) \/ Grows(At[p], Early)
    BY <2>2, BeginsAt, NotNone
  <2>5. ~("hosts" \in Early /\ "remove" \in Growing)
    BY DEF Early, BeforeFetch, Rebuild, Build, Growing
  <2> QED BY <2>2, <2>3, <2>4, <2>5, ResolvedFiles DEF Begins
<1>5. ASSUME NEW p \in Callers, NEW c \in Names, Settings(p, c)
      PROVE  AllResolved'
  <2>1. Start(p, "settings", c, FALSE)
    BY <1>5 DEF Settings
  <2>2. Begins(p, "settings", "wipe")
    BY <2>1 DEF Start, Begins, NoJob, First, JobsOK
  <2>3. known' = known /\ dir' = dir /\ cut' = cut
    BY <2>1 DEF Start, files, times
  <2>4. /\ Grows(At[p], BeforeFetch) => Grows(At[p], BeforeFetch)'
        /\ Grows(At[p], Early)' =>
             ("wipe" \in Early /\ "settings" \in Growing) \/ Grows(At[p], Early)
    BY <2>2, BeginsAt, NotNone
  <2>5. ~("wipe" \in Early /\ "settings" \in Growing)
    BY DEF Early, BeforeFetch, Rebuild, Build, Growing
  <2> QED BY <2>2, <2>3, <2>4, <2>5, ResolvedFiles DEF Begins
<1>6. ASSUME NEW p \in Callers, NEW c \in Names, ImportCrt(p, c)
      PROVE  AllResolved'
  <2>1. Start(p, "import-crt", c, FALSE)
    BY <1>6 DEF ImportCrt
  <2>2. Begins(p, "import-crt", "import")
    BY <2>1 DEF Start, Begins, NoJob, First, JobsOK
  <2>3. known' = known /\ dir' = dir /\ cut' = cut
    BY <2>1 DEF Start, files, times
  <2>4. /\ Grows(At[p], BeforeFetch) => Grows(At[p], BeforeFetch)'
        /\ Grows(At[p], Early)' =>
             ("import" \in Early /\ "import-crt" \in Growing) \/ Grows(At[p], Early)
    BY <2>2, BeginsAt, NotNone
  <2>5. ~("import" \in Early /\ "import-crt" \in Growing)
    BY DEF Early, BeforeFetch, Rebuild, Build, Growing
  <2> QED BY <2>2, <2>3, <2>4, <2>5, ResolvedFiles DEF Begins
<1>7. ASSUME NEW p \in Callers, NEW all \in BOOLEAN, Regenerate(p, all)
      PROVE  AllResolved'
  <2>1. Start(p, "regenerate", NoJob.c, all)
    BY <1>7 DEF Regenerate
  <2>2. Begins(p, "regenerate", "hosts")
    BY <2>1 DEF Start, Begins, NoJob, First, JobsOK
  <2>3. known' = known /\ dir' = dir /\ cut' = cut
    BY <2>1 DEF Start, files, times
  <2>4. /\ Grows(At[p], BeforeFetch) => Grows(At[p], BeforeFetch)'
        /\ Grows(At[p], Early)' =>
             ("hosts" \in Early /\ "regenerate" \in Growing) \/ Grows(At[p], Early)
    BY <2>2, BeginsAt, NotNone
  <2>5. ~("hosts" \in Early /\ "regenerate" \in Growing)
    BY DEF Early, BeforeFetch, Rebuild, Build, Growing
  <2> QED BY <2>2, <2>3, <2>4, <2>5, ResolvedFiles DEF Begins
<1>8. ASSUME NEW p \in Callers, Diagnose(p)
      PROVE  AllResolved'
  <2>1. job' = job /\ known' = known /\ dir' = dir /\ cut' = cut
    BY <1>8 DEF Diagnose, files, times
  <2>2. \A h, X : Grows(h, X)' <=> Grows(h, X)
    BY <2>1 DEF Grows, At1
  <2> QED BY <2>1, <2>2, ResolvedSame DEF AllResolved
<1>9. ASSUME NEW p \in Callers, EtcHosts(p)
      PROVE  AllResolved'
  BY <1>9, ResolvedHosts
<1>10. ASSUME NEW p \in Callers, Stamp(p)
      PROVE  AllResolved'
  <2>1. cut' = cut /\ known' = known /\ dir' = dir
    BY <1>10 DEF Stamp, files, times
  <2>2. job[p].pc \in {"stamp", "acme", "deploy"} /\ \E todo, d : \E pc \in {"acme", "deploy", "wipe"} : Moves(p, pc, todo, d)
    BY <1>10, Leading
  <2>3. PICK todo, d, pc : pc \in {"acme", "deploy", "wipe"} /\ Moves(p, pc, todo, d)
    BY <2>2
  <2>4. Grows(At[p], BeforeFetch) => Grows(At[p], BeforeFetch)'
    BY <2>2, <2>3, MovesAt, Placed DEF BeforeFetch, Rebuild, Build, Growing
  <2>5. Grows(At[p], Early)' => Grows(At[p], Early)
    <3>1. job[p].pc \in Early /\ job[p].cmd \in Growing => Grows(At[p], Early)
      BY DEF Grows, At1
    <3>2. Grows(At[p], Early)' => (pc \in Early /\ job[p].cmd \in Growing) \/ Grows(At[p], Early)
      BY <2>3, MovesAt
    <3>3. pc \in Early => job[p].pc \in Early
      BY <2>2, <2>3 DEF Early, BeforeFetch, Rebuild, Build, Link
    <3> QED BY <3>1, <3>2, <3>3
  <2>6. \A q \in Callers \ {p} : job'[q] = job[q]
    BY <2>3 DEF Moves
  <2> QED BY <2>1, <2>4, <2>5, <2>6, ResolvedFiles
<1>11. ASSUME NEW p \in Callers, AcmeDone(p)
      PROVE  AllResolved'
  <2>1. cut' = cut /\ known' = known /\ dir' = dir
    BY <1>11 DEF AcmeDone, files, times
  <2>2. job[p].pc \in {"stamp", "acme", "deploy"} /\ \E todo, d : \E pc \in {"acme", "deploy", "wipe"} : Moves(p, pc, todo, d)
    BY <1>11, Leading
  <2>3. PICK todo, d, pc : pc \in {"acme", "deploy", "wipe"} /\ Moves(p, pc, todo, d)
    BY <2>2
  <2>4. Grows(At[p], BeforeFetch) => Grows(At[p], BeforeFetch)'
    BY <2>2, <2>3, MovesAt, Placed DEF BeforeFetch, Rebuild, Build, Growing
  <2>5. Grows(At[p], Early)' => Grows(At[p], Early)
    <3>1. job[p].pc \in Early /\ job[p].cmd \in Growing => Grows(At[p], Early)
      BY DEF Grows, At1
    <3>2. Grows(At[p], Early)' => (pc \in Early /\ job[p].cmd \in Growing) \/ Grows(At[p], Early)
      BY <2>3, MovesAt
    <3>3. pc \in Early => job[p].pc \in Early
      BY <2>2, <2>3 DEF Early, BeforeFetch, Rebuild, Build, Link
    <3> QED BY <3>1, <3>2, <3>3
  <2>6. \A q \in Callers \ {p} : job'[q] = job[q]
    BY <2>3 DEF Moves
  <2> QED BY <2>1, <2>4, <2>5, <2>6, ResolvedFiles
<1>12. ASSUME NEW p \in Callers, Deploy(p)
      PROVE  AllResolved'
  <2>1. cut' = cut /\ known' = known /\ dir' = dir
    BY <1>12 DEF Deploy, files, times
  <2>2. job[p].pc \in {"stamp", "acme", "deploy"} /\ \E todo, d : \E pc \in {"acme", "deploy", "wipe"} : Moves(p, pc, todo, d)
    BY <1>12, Leading
  <2>3. PICK todo, d, pc : pc \in {"acme", "deploy", "wipe"} /\ Moves(p, pc, todo, d)
    BY <2>2
  <2>4. Grows(At[p], BeforeFetch) => Grows(At[p], BeforeFetch)'
    BY <2>2, <2>3, MovesAt, Placed DEF BeforeFetch, Rebuild, Build, Growing
  <2>5. Grows(At[p], Early)' => Grows(At[p], Early)
    <3>1. job[p].pc \in Early /\ job[p].cmd \in Growing => Grows(At[p], Early)
      BY DEF Grows, At1
    <3>2. Grows(At[p], Early)' => (pc \in Early /\ job[p].cmd \in Growing) \/ Grows(At[p], Early)
      BY <2>3, MovesAt
    <3>3. pc \in Early => job[p].pc \in Early
      BY <2>2, <2>3 DEF Early, BeforeFetch, Rebuild, Build, Link
    <3> QED BY <3>1, <3>2, <3>3
  <2>6. \A q \in Callers \ {p} : job'[q] = job[q]
    BY <2>3 DEF Moves
  <2> QED BY <2>1, <2>4, <2>5, <2>6, ResolvedFiles
<1>13. ASSUME NEW p \in Callers, Import(p)
      PROVE  AllResolved'
  <2>1. cut' = cut /\ known' = known /\ dir' = dir
    BY <1>13 DEF Import, files, times
  <2>2. job[p].pc \in {"import"} /\ \E todo, d : \E pc \in {"restart"} : Moves(p, pc, todo, d)
    BY <1>13, Leading
  <2>3. PICK todo, d, pc : pc \in {"restart"} /\ Moves(p, pc, todo, d)
    BY <2>2
  <2>4. Grows(At[p], BeforeFetch) => Grows(At[p], BeforeFetch)'
    BY <2>2, <2>3, MovesAt, Placed DEF BeforeFetch, Rebuild, Build, Growing
  <2>5. Grows(At[p], Early)' => Grows(At[p], Early)
    <3>1. job[p].pc \in Early /\ job[p].cmd \in Growing => Grows(At[p], Early)
      BY DEF Grows, At1
    <3>2. Grows(At[p], Early)' => (pc \in Early /\ job[p].cmd \in Growing) \/ Grows(At[p], Early)
      BY <2>3, MovesAt
    <3>3. pc \in Early => job[p].pc \in Early
      BY <2>2, <2>3 DEF Early, BeforeFetch, Rebuild, Build, Link
    <3> QED BY <3>1, <3>2, <3>3
  <2>6. \A q \in Callers \ {p} : job'[q] = job[q]
    BY <2>3 DEF Moves
  <2> QED BY <2>1, <2>4, <2>5, <2>6, ResolvedFiles
<1>14. ASSUME NEW p \in Callers, Wipe(p)
      PROVE  AllResolved'
  <2>1. cut' = cut /\ known' = known /\ job[p].pc = "wipe"
        /\ \E todo, d : Moves(p, "header", todo, d)
    BY <1>14, Leading DEF Wipe, times
  <2>2. OwnDir(At[p], FALSE, {}, Empty.has)
    BY <1>14, Wiping
  <2>3. PICK todo, d : Moves(p, "header", todo, d)
    BY <2>1
  <2>4. \A q \in Callers \ {p} : job'[q] = job[q]
    BY <2>3 DEF Moves
  <2>5. Grows(At[p], BeforeFetch) => Grows(At[p], BeforeFetch)'
    BY <2>3, MovesAt DEF BeforeFetch, Rebuild, Build
  <2>6. Grows(At[p], Early)' => Grows(At[p], Early)
    <3>1. job[p].pc \in Early /\ job[p].cmd \in Growing => Grows(At[p], Early)
      BY DEF Grows, At1
    <3>2. Grows(At[p], Early)' => job[p].cmd \in Growing \/ Grows(At[p], Early)
      BY <2>3, MovesAt
    <3>3. job[p].pc \in Early
      BY <2>1 DEF Early, BeforeFetch, Rebuild, Build
    <3> QED BY <3>1, <3>2, <3>3
  <2>7. /\ \A g, e \in Hosts : g # e => dir'[g][e].inc = dir[g][e].inc
        /\ \A e \in Hosts : e # At[p] => dir'[e][e].top = dir[e][e].top
    BY <2>2 DEF OwnDir
  <2>8. job[p].cmd # "none"
    BY <2>1, Placed
  <2>9. ASSUME NEW g \in Hosts, NEW e \in Hosts, g # e
        PROVE  Resolved(g, e)'
    <3>1. Resolved(g, e)
      BY <2>9 DEF AllResolved
    <3>2. CASE g = At[p]
      BY <2>1, <2>5, <2>6, <2>7, <2>9, <3>1, <3>2, ResolvedSame
    <3>3. CASE g # At[p]
      BY <2>1, <2>4, <2>7, <2>8, <2>9, <3>1, <3>3, ResolvedAway
    <3> QED BY <3>2, <3>3
  <2> QED BY <2>9 DEF AllResolved
<1>15. ASSUME NEW p \in Callers, Header(p)
      PROVE  AllResolved'
  <2>1. cut' = cut /\ known' = known /\ job[p].pc = "header"
        /\ \E todo, d : Moves(p, "write", todo, d)
    BY <1>15, Leading DEF Header, times
  <2>2. OwnDir(At[p], TRUE, {}, dir[At[p]][At[p]].has)
    BY <1>15, Heading
  <2>3. PICK todo, d : Moves(p, "write", todo, d)
    BY <2>1
  <2>4. \A q \in Callers \ {p} : job'[q] = job[q]
    BY <2>3 DEF Moves
  <2>5. Grows(At[p], BeforeFetch) => Grows(At[p], BeforeFetch)'
    BY <2>3, MovesAt DEF BeforeFetch, Rebuild, Build
  <2>6. Grows(At[p], Early)' => Grows(At[p], Early)
    <3>1. job[p].pc \in Early /\ job[p].cmd \in Growing => Grows(At[p], Early)
      BY DEF Grows, At1
    <3>2. Grows(At[p], Early)' => job[p].cmd \in Growing \/ Grows(At[p], Early)
      BY <2>3, MovesAt
    <3>3. job[p].pc \in Early
      BY <2>1 DEF Early, BeforeFetch, Rebuild, Build
    <3> QED BY <3>1, <3>2, <3>3
  <2>7. /\ \A g, e \in Hosts : g # e => dir'[g][e].inc = dir[g][e].inc
        /\ \A e \in Hosts : e # At[p] => dir'[e][e].top = dir[e][e].top
    BY <2>2 DEF OwnDir
  <2>8. job[p].cmd # "none"
    BY <2>1, Placed
  <2>9. ASSUME NEW g \in Hosts, NEW e \in Hosts, g # e
        PROVE  Resolved(g, e)'
    <3>1. Resolved(g, e)
      BY <2>9 DEF AllResolved
    <3>2. CASE g = At[p]
      BY <2>1, <2>5, <2>6, <2>7, <2>9, <3>1, <3>2, ResolvedSame
    <3>3. CASE g # At[p]
      BY <2>1, <2>4, <2>7, <2>8, <2>9, <3>1, <3>3, ResolvedAway
    <3> QED BY <3>2, <3>3
  <2> QED BY <2>9 DEF AllResolved
<1>16. ASSUME NEW p \in Callers, IncludeService(p)
      PROVE  AllResolved'
  <2>8. job[p].pc = "include"
    BY <1>16, Leading
  <2>9. job[p].c \in Mine(At[p])
    BY <2>8 DEF JobsOK
  <2>1. cut' = cut /\ known' = known /\ job[p].pc = "include"
        /\ \E todo, d : Moves(p, "write", todo, d)
    BY <1>16, Leading DEF IncludeService, times
  <2>2. OwnDir(At[p], dir[At[p]][At[p]].top, dir[At[p]][At[p]].inc \cup {job[p].c},
            dir[At[p]][At[p]].has)
    BY <1>16, <2>9, IncludingIt
  <2>3. PICK todo, d : Moves(p, "write", todo, d)
    BY <2>1
  <2>4. \A q \in Callers \ {p} : job'[q] = job[q]
    BY <2>3 DEF Moves
  <2>5. Grows(At[p], BeforeFetch) => Grows(At[p], BeforeFetch)'
    BY <2>3, MovesAt DEF BeforeFetch, Rebuild, Build
  <2>6. Grows(At[p], Early)' => Grows(At[p], Early)
    <3>1. job[p].pc \in Early /\ job[p].cmd \in Growing => Grows(At[p], Early)
      BY DEF Grows, At1
    <3>2. Grows(At[p], Early)' => job[p].cmd \in Growing \/ Grows(At[p], Early)
      BY <2>3, MovesAt
    <3>3. job[p].pc \in Early
      BY <2>1 DEF Early, BeforeFetch, Rebuild, Build
    <3> QED BY <3>1, <3>2, <3>3
  <2>7. /\ \A g, e \in Hosts : g # e => dir'[g][e].inc = dir[g][e].inc
        /\ \A e \in Hosts : dir'[e][e].top = dir[e][e].top
    BY <2>2 DEF OwnDir
  <2> QED BY <2>1, <2>4, <2>5, <2>6, <2>7, ResolvedFiles
<1>17. ASSUME NEW p \in Callers, WriteDone(p)
      PROVE  AllResolved'
  <2>1. cut' = cut /\ known' = known /\ dir' = dir
    BY <1>17 DEF WriteDone, files, times
  <2>2. job[p].pc \in {"write"} /\ \E todo, d : \E pc \in {"truncate", "restart"} : Moves(p, pc, todo, d)
           /\ (job[p].cmd \in Growing => pc = "truncate")
    BY <1>17, Leading DEF Growing
  <2>3. PICK todo, d, pc : pc \in {"truncate", "restart"} /\ Moves(p, pc, todo, d)
           /\ (job[p].cmd \in Growing => pc = "truncate")
    BY <2>2
  <2>4. Grows(At[p], BeforeFetch) => Grows(At[p], BeforeFetch)'
    BY <2>2, <2>3, MovesAt, Placed DEF BeforeFetch, Rebuild, Build, Growing
  <2>5. Grows(At[p], Early)' => Grows(At[p], Early)
    <3>1. job[p].pc \in Early /\ job[p].cmd \in Growing => Grows(At[p], Early)
      BY DEF Grows, At1
    <3>2. Grows(At[p], Early)' => (pc \in Early /\ job[p].cmd \in Growing) \/ Grows(At[p], Early)
      BY <2>3, MovesAt
    <3>3. pc \in Early => job[p].pc \in Early
      BY <2>2, <2>3 DEF Early, BeforeFetch, Rebuild, Build, Link
    <3> QED BY <3>1, <3>2, <3>3
  <2>6. \A q \in Callers \ {p} : job'[q] = job[q]
    BY <2>3 DEF Moves
  <2> QED BY <2>1, <2>4, <2>5, <2>6, ResolvedFiles
<1>18. ASSUME NEW p \in Callers, Truncate(p)
      PROVE  AllResolved'
  <2>1. cut' = cut /\ known' = known /\ dir' = dir
    BY <1>18 DEF Truncate, files, times
  <2>2. job[p].pc \in {"truncate"} /\ \E todo, d : \E pc \in {"fetch"} : Moves(p, pc, todo, d)
    BY <1>18, Leading
  <2>3. PICK todo, d, pc : pc \in {"fetch"} /\ Moves(p, pc, todo, d)
    BY <2>2
  <2>4. Grows(At[p], BeforeFetch) => Grows(At[p], BeforeFetch)'
    BY <2>2, <2>3, MovesAt, Placed DEF BeforeFetch, Rebuild, Build, Growing
  <2>5. Grows(At[p], Early)' => Grows(At[p], Early)
    <3>1. job[p].pc \in Early /\ job[p].cmd \in Growing => Grows(At[p], Early)
      BY DEF Grows, At1
    <3>2. Grows(At[p], Early)' => (pc \in Early /\ job[p].cmd \in Growing) \/ Grows(At[p], Early)
      BY <2>3, MovesAt
    <3>3. pc \in Early => job[p].pc \in Early
      BY <2>2, <2>3 DEF Early, BeforeFetch, Rebuild, Build, Link
    <3> QED BY <3>1, <3>2, <3>3
  <2>6. \A q \in Callers \ {p} : job'[q] = job[q]
    BY <2>3 DEF Moves
  <2> QED BY <2>1, <2>4, <2>5, <2>6, ResolvedFiles
<1>19. ASSUME NEW p \in Callers, Fetch(p)
      PROVE  AllResolved'
  BY <1>19, ResolvedFetch
<1>20. ASSUME NEW p \in Callers, AddOwn(p)
      PROVE  AllResolved'
  <2>1. cut' = cut /\ known' = known /\ dir' = dir
    BY <1>20 DEF AddOwn, files, times
  <2>2. job[p].pc \in {"own"} /\ \E todo, d : \E pc \in {"peers"} : Moves(p, pc, todo, d)
    BY <1>20, Leading
  <2>3. PICK todo, d, pc : pc \in {"peers"} /\ Moves(p, pc, todo, d)
    BY <2>2
  <2>4. Grows(At[p], BeforeFetch) => Grows(At[p], BeforeFetch)'
    BY <2>2, <2>3, MovesAt, Placed DEF BeforeFetch, Rebuild, Build, Growing
  <2>5. Grows(At[p], Early)' => Grows(At[p], Early)
    <3>1. job[p].pc \in Early /\ job[p].cmd \in Growing => Grows(At[p], Early)
      BY DEF Grows, At1
    <3>2. Grows(At[p], Early)' => (pc \in Early /\ job[p].cmd \in Growing) \/ Grows(At[p], Early)
      BY <2>3, MovesAt
    <3>3. pc \in Early => job[p].pc \in Early
      BY <2>2, <2>3 DEF Early, BeforeFetch, Rebuild, Build, Link
    <3> QED BY <3>1, <3>2, <3>3
  <2>6. \A q \in Callers \ {p} : job'[q] = job[q]
    BY <2>3 DEF Moves
  <2> QED BY <2>1, <2>4, <2>5, <2>6, ResolvedFiles
<1>21. ASSUME NEW p \in Callers, AddPeers(p)
      PROVE  AllResolved'
  <2>1. cut' = cut /\ known' = known /\ dir' = dir
    BY <1>21 DEF AddPeers, files, times
  <2>2. job[p].pc \in {"peers"} /\ \E todo, d : \E pc \in {"restart"} : Moves(p, pc, todo, d)
    BY <1>21, Leading
  <2>3. PICK todo, d, pc : pc \in {"restart"} /\ Moves(p, pc, todo, d)
    BY <2>2
  <2>4. Grows(At[p], BeforeFetch) => Grows(At[p], BeforeFetch)'
    BY <2>2, <2>3, MovesAt, Placed DEF BeforeFetch, Rebuild, Build, Growing
  <2>5. Grows(At[p], Early)' => Grows(At[p], Early)
    <3>1. job[p].pc \in Early /\ job[p].cmd \in Growing => Grows(At[p], Early)
      BY DEF Grows, At1
    <3>2. Grows(At[p], Early)' => (pc \in Early /\ job[p].cmd \in Growing) \/ Grows(At[p], Early)
      BY <2>3, MovesAt
    <3>3. pc \in Early => job[p].pc \in Early
      BY <2>2, <2>3 DEF Early, BeforeFetch, Rebuild, Build, Link
    <3> QED BY <3>1, <3>2, <3>3
  <2>6. \A q \in Callers \ {p} : job'[q] = job[q]
    BY <2>3 DEF Moves
  <2> QED BY <2>1, <2>4, <2>5, <2>6, ResolvedFiles
<1>22. ASSUME NEW p \in Callers, Restart(p)
      PROVE  AllResolved'
  <2>1. job'[p] = NoJob /\ \A q \in Callers \ {p} : job'[q] = job[q]
    BY <1>22, JobsLeft, <1>1 DEF Restart, Leave, JobsOK
  <2>2. cut' = cut /\ known' = known /\ dir' = dir /\ job[p].pc = "restart"
    BY <1>22 DEF Restart, files, On
  <2>3. /\ Grows(At[p], BeforeFetch) => Grows(At[p], BeforeFetch)'
        /\ Grows(At[p], Early)' => Grows(At[p], Early)
    BY <2>1, <2>2, LeavesAt, NotNone DEF BeforeFetch, Rebuild, Build
  <2> QED BY <2>1, <2>2, <2>3, ResolvedFiles
<1>23. ASSUME NEW p \in Callers, NEW c \in Names, AcmeSkip(p, c)
      PROVE  AllResolved'
  <2>1. cut' = cut /\ known' = known /\ dir' = dir
    BY <1>23 DEF AcmeSkip, files, times
  <2>2. job[p].pc \in {"stamp", "acme", "deploy"} /\ \E todo, d : \E pc \in {"acme", "deploy", "wipe"} : Moves(p, pc, todo, d)
    BY <1>23, LeadingTo
  <2>3. PICK todo, d, pc : pc \in {"acme", "deploy", "wipe"} /\ Moves(p, pc, todo, d)
    BY <2>2
  <2>4. Grows(At[p], BeforeFetch) => Grows(At[p], BeforeFetch)'
    BY <2>2, <2>3, MovesAt, Placed DEF BeforeFetch, Rebuild, Build, Growing
  <2>5. Grows(At[p], Early)' => Grows(At[p], Early)
    <3>1. job[p].pc \in Early /\ job[p].cmd \in Growing => Grows(At[p], Early)
      BY DEF Grows, At1
    <3>2. Grows(At[p], Early)' => (pc \in Early /\ job[p].cmd \in Growing) \/ Grows(At[p], Early)
      BY <2>3, MovesAt
    <3>3. pc \in Early => job[p].pc \in Early
      BY <2>2, <2>3 DEF Early, BeforeFetch, Rebuild, Build, Link
    <3> QED BY <3>1, <3>2, <3>3
  <2>6. \A q \in Callers \ {p} : job'[q] = job[q]
    BY <2>3 DEF Moves
  <2> QED BY <2>1, <2>4, <2>5, <2>6, ResolvedFiles
<1>24. ASSUME NEW p \in Callers, NEW c \in Names, AcmeDeploy(p, c)
      PROVE  AllResolved'
  <2>1. cut' = cut /\ known' = known /\ dir' = dir
    BY <1>24 DEF AcmeDeploy, files, times
  <2>2. job[p].pc \in {"stamp", "acme", "deploy"} /\ \E todo, d : \E pc \in {"acme", "deploy", "wipe"} : Moves(p, pc, todo, d)
    BY <1>24, LeadingTo
  <2>3. PICK todo, d, pc : pc \in {"acme", "deploy", "wipe"} /\ Moves(p, pc, todo, d)
    BY <2>2
  <2>4. Grows(At[p], BeforeFetch) => Grows(At[p], BeforeFetch)'
    BY <2>2, <2>3, MovesAt, Placed DEF BeforeFetch, Rebuild, Build, Growing
  <2>5. Grows(At[p], Early)' => Grows(At[p], Early)
    <3>1. job[p].pc \in Early /\ job[p].cmd \in Growing => Grows(At[p], Early)
      BY DEF Grows, At1
    <3>2. Grows(At[p], Early)' => (pc \in Early /\ job[p].cmd \in Growing) \/ Grows(At[p], Early)
      BY <2>3, MovesAt
    <3>3. pc \in Early => job[p].pc \in Early
      BY <2>2, <2>3 DEF Early, BeforeFetch, Rebuild, Build, Link
    <3> QED BY <3>1, <3>2, <3>3
  <2>6. \A q \in Callers \ {p} : job'[q] = job[q]
    BY <2>3 DEF Moves
  <2> QED BY <2>1, <2>4, <2>5, <2>6, ResolvedFiles
<1>25. ASSUME NEW p \in Callers, NEW c \in Names, AcmeExit(p, c)
      PROVE  AllResolved'
  BY <1>25, NoExit
<1>26. ASSUME NEW p \in Callers, NEW c \in Names, AcmeGet(p, c)
      PROVE  AllResolved'
  <2>1. cut' = cut /\ known' = known /\ dir' = dir
    BY <1>26 DEF AcmeGet, files, times
  <2>2. job[p].pc \in {"stamp", "acme", "deploy"} /\ \E todo, d : \E pc \in {"acme", "deploy", "wipe"} : Moves(p, pc, todo, d)
    BY <1>26, LeadingTo
  <2>3. PICK todo, d, pc : pc \in {"acme", "deploy", "wipe"} /\ Moves(p, pc, todo, d)
    BY <2>2
  <2>4. Grows(At[p], BeforeFetch) => Grows(At[p], BeforeFetch)'
    BY <2>2, <2>3, MovesAt, Placed DEF BeforeFetch, Rebuild, Build, Growing
  <2>5. Grows(At[p], Early)' => Grows(At[p], Early)
    <3>1. job[p].pc \in Early /\ job[p].cmd \in Growing => Grows(At[p], Early)
      BY DEF Grows, At1
    <3>2. Grows(At[p], Early)' => (pc \in Early /\ job[p].cmd \in Growing) \/ Grows(At[p], Early)
      BY <2>3, MovesAt
    <3>3. pc \in Early => job[p].pc \in Early
      BY <2>2, <2>3 DEF Early, BeforeFetch, Rebuild, Build, Link
    <3> QED BY <3>1, <3>2, <3>3
  <2>6. \A q \in Callers \ {p} : job'[q] = job[q]
    BY <2>3 DEF Moves
  <2> QED BY <2>1, <2>4, <2>5, <2>6, ResolvedFiles
<1>27. ASSUME NEW p \in Callers, NEW c \in Names, WriteService(p, c)
      PROVE  AllResolved'
  <2>1. cut' = cut /\ known' = known /\ job[p].pc = "write"
        /\ \E todo, d : Moves(p, "include", todo, d)
    BY <1>27, LeadingTo DEF WriteService, times
  <2>2. OwnDir(At[p], dir[At[p]][At[p]].top, dir[At[p]][At[p]].inc,
            [dir[At[p]][At[p]].has EXCEPT ![c] = Services(c)])
    BY <1>27, Writing
  <2>3. PICK todo, d : Moves(p, "include", todo, d)
    BY <2>1
  <2>4. \A q \in Callers \ {p} : job'[q] = job[q]
    BY <2>3 DEF Moves
  <2>5. Grows(At[p], BeforeFetch) => Grows(At[p], BeforeFetch)'
    BY <2>3, MovesAt DEF BeforeFetch, Rebuild, Build
  <2>6. Grows(At[p], Early)' => Grows(At[p], Early)
    <3>1. job[p].pc \in Early /\ job[p].cmd \in Growing => Grows(At[p], Early)
      BY DEF Grows, At1
    <3>2. Grows(At[p], Early)' => job[p].cmd \in Growing \/ Grows(At[p], Early)
      BY <2>3, MovesAt
    <3>3. job[p].pc \in Early
      BY <2>1 DEF Early, BeforeFetch, Rebuild, Build
    <3> QED BY <3>1, <3>2, <3>3
  <2>7. /\ \A g, e \in Hosts : g # e => dir'[g][e].inc = dir[g][e].inc
        /\ \A e \in Hosts : dir'[e][e].top = dir[e][e].top
    BY <2>2 DEF OwnDir
  <2> QED BY <2>1, <2>4, <2>5, <2>6, <2>7, ResolvedFiles
<1>28. ASSUME NEW h \in Hosts, Crash(h)
      PROVE  AllResolved'
  <2>1. job' = job /\ known' = known /\ dir' = dir /\ cut' = cut
    BY <1>28 DEF Crash, files, times
  <2>2. \A g, X : Grows(g, X)' <=> Grows(g, X)
    BY <2>1 DEF Grows, At1
  <2> QED BY <2>1, <2>2, ResolvedSame DEF AllResolved
<1>29. ASSUME Midnight
      PROVE  AllResolved'
  <2>1. job' = job /\ known' = known /\ dir' = dir /\ cut' = cut
    BY <1>29 DEF Midnight, files, times
  <2>2. \A h, X : Grows(h, X)' <=> Grows(h, X)
    BY <2>1 DEF Grows, At1
  <2> QED BY <2>1, <2>2, ResolvedSame DEF AllResolved
<1>30. ASSUME Net
      PROVE  AllResolved'
  <2>1. job' = job /\ known' = known /\ dir' = dir /\ \A p \in Callers : job[p].cmd = "none"
    BY <1>30 DEF Net, files, Active
  <2>2. \A p \in Callers : job[p].pc = "none"
    BY <2>1, Placed
  <2>3. \A h : ~Grows(h, BeforeFetch) /\ ~Grows(h, Early) /\ ~Grows(h, Early)'
    BY <2>1, <2>2, NotNone DEF Grows, At1
  <2> QED BY <2>1, <2>3 DEF AllResolved, Resolved, Early
<1>31. ASSUME UNCHANGED vars
      PROVE  AllResolved'
  <2>1. job' = job /\ known' = known /\ dir' = dir /\ cut' = cut
    BY <1>31 DEF vars
  <2>2. \A h, X : Grows(h, X)' <=> Grows(h, X)
    BY <2>1 DEF Grows, At1
  <2> QED BY <2>1, <2>2, ResolvedSame DEF AllResolved
<1> QED
  BY <1>3, <1>4, <1>5, <1>6, <1>7, <1>8, <1>9, <1>10, <1>11, <1>12, <1>13, <1>14,
     <1>15, <1>16, <1>17, <1>18, <1>19, <1>20, <1>21, <1>22, <1>23, <1>24, <1>25,
     <1>26, <1>27, <1>28, <1>29, <1>30, <1>31, Zenon
  DEF Next, Goes, Certificates, Files, Sync, Command, vars

LEMMA PeersKept ==
  ASSUME FilesOK, JobsOK, OwnOK, PeersOK, PoundOK, [Next]_vars
  PROVE  PeersOK'
<1>1. env' = env
  BY DEF Next, Goes, Again, vars
<1>2. Reliable' <=> Reliable
  BY <1>1 DEF Reliable, Disciplined
<1> SUFFICES ASSUME Reliable
             PROVE  AllCopied' /\ AllResolved'
  BY <1>2 DEF PeersOK, AllCopied, AllResolved
<1>3. AllCopied /\ AllResolved
  BY DEF PeersOK, AllCopied, AllResolved
<1> QED BY <1>3, CopiedKept, ResolvedKept

-----------------------------------------------------------------------------
(* No certificate is broken but while it is deployed.                      *)
Unbroken == \A h, d \in Hosts, c \in Names : dir[h][d].has[c].cert # Broken
Sound    == \A h \in Hosts, c \in Names : pound[h].reads[c].cert # Broken
Deploys(p) ==
  /\ job[p].pc = "deploy" => job'[p].pc = "deploy" /\ job'[p].c = job[p].c
  /\ job'[p].pc = "deploy" => job[p].pc = "deploy"

(* A step that deploys nothing.                                            *)
LEMMA CertsSame ==
  ASSUME Reliable, CertsOK, env' = env, le' = le, Unbroken', Sound',
         \A p \in Callers : Deploys(p),
         \A c \in Names : ve'[c] = "gone" => pem'[c] = NoCert,
         \A c \in Names : pem'[c] = Broken => pem[c] = Broken
  PROVE  CertsOK'
<1>1. Reliable'
  BY DEF Reliable, Disciplined
<1>2. /\ env.acme = {} => \A c \in Names : le'[c] = NoCert
      /\ env.acme = {} => \A p \in Callers : job'[p].pc # "deploy"
  BY DEF CertsOK, Deploys
<1>3. \A c \in Names : pem'[c] = Broken =>
        \E p \in Callers : job'[p].pc = "deploy" /\ job'[p].c = c
  BY DEF CertsOK, Deploys
<1> QED BY <1>1, <1>2, <1>3 DEF CertsOK, Unbroken, Sound

LEMMA CertsDeploy ==
  ASSUME FilesOK, JobsOK, Reliable, CertsOK, env' = env, NEW p \in Callers, Deploy(p)
  PROVE  CertsOK'
<1> DEFINE c == job[p].c
<1>1. /\ job[p].pc = "deploy" /\ Moves(p, "acme", job[p].todo, NoJob.c)
      /\ ve' = ve /\ le' = le /\ dir' = dir /\ pound' = pound
      /\ pem' = [pem EXCEPT ![c] = IF ve[c] # "gone" THEN le[c] ELSE @]
  BY Leading DEF Deploy, files
<1>2. c \in Names /\ job[p].cmd # "none" /\ env.acme # {}
  <2>1. c \in Names
    BY <1>1 DEF JobsOK, Mine
  <2>2. job[p].cmd # "none"
    BY <1>1, Placed
  <2> QED BY <1>1, <2>1, <2>2 DEF CertsOK
<1>3. \A d \in Names : pem'[d] # Broken
  <2> SUFFICES ASSUME NEW d \in Names, pem'[d] = Broken
               PROVE  FALSE
    OBVIOUS
  <2>1. CASE d = c
    BY <1>1, <1>2, <2>1 DEF FilesOK, CertsOK, Broken, NoCert
  <2>2. CASE d # c
    <3>1. pem[d] = Broken
      BY <1>1, <1>2, <2>2 DEF FilesOK
    <3>2. PICK q \in Callers : job[q].pc = "deploy" /\ job[q].c = d
      BY <3>1 DEF CertsOK
    <3>3. q # p /\ job[q].cmd # "none"
      BY <2>2, <3>2, Placed
    <3> QED BY <1>2, <3>3, Beside
  <2> QED BY <2>1, <2>2
<1>4. \A d \in Names : ve'[d] = "gone" => pem'[d] = NoCert
  BY <1>1, <1>2 DEF FilesOK, CertsOK
<1>5. Reliable'
  BY DEF Reliable, Disciplined
<1> QED BY <1>1, <1>2, <1>3, <1>4, <1>5 DEF CertsOK

LEMMA CertsBegin ==
  ASSUME FilesOK, JobsOK, Reliable, CertsOK, env' = env, env.acme # {},
         NEW p \in Callers, job[p].pc = "acme", NEW c \in Names, NEW todo, Moves(p, "deploy", todo, c),
         ve' = ve, dir' = dir, pound' = pound,
         pem' = [pem EXCEPT ![c] = IF ve[c] # "gone" THEN Broken ELSE @]
  PROVE  CertsOK'
<1>1. \A d \in Names : pem'[d] = Broken =>
        \E q \in Callers : job'[q].pc = "deploy" /\ job'[q].c = d
  <2> SUFFICES ASSUME NEW d \in Names, pem'[d] = Broken
               PROVE  \E q \in Callers : job'[q].pc = "deploy" /\ job'[q].c = d
    OBVIOUS
  <2>1. CASE d = c
    BY <2>1 DEF Moves
  <2>2. CASE d # c
    <3>1. PICK q \in Callers : job[q].pc = "deploy" /\ job[q].c = d
      BY <2>2 DEF FilesOK, CertsOK
    <3> QED BY <3>1 DEF Moves
  <2> QED BY <2>1, <2>2
<1>2. \A d \in Names : ve'[d] = "gone" => pem'[d] = NoCert
  BY DEF FilesOK, CertsOK
<1>3. Reliable'
  BY DEF Reliable, Disciplined
<1> QED BY <1>1, <1>2, <1>3 DEF CertsOK

LEMMA CertsKept ==
  ASSUME FilesOK, JobsOK, PoundOK, CertsOK, [Next]_vars
  PROVE  CertsOK'
<1>1. env' = env
  BY DEF Next, Goes, Again, vars
<1>2. SUFFICES ASSUME Reliable
               PROVE  CertsOK'
  BY <1>1 DEF CertsOK, Reliable, Disciplined
<1>3. Unbroken /\ Sound /\ \A c \in Names : ve[c] = "gone" => pem[c] = NoCert
  BY <1>2 DEF CertsOK, Unbroken, Sound
<1>4. \A p \in Callers : At[p] \in Hosts
  BY ConstantsAssumption
<1> HIDE DEF CertsOK
<1>5. ASSUME NEW p \in Callers, NEW c \in Names, Add(p, c)
      PROVE  CertsOK'
  <2>1. \A q \in Callers : Deploys(q)
    <3>1. Start(p, "add", c, FALSE)
      BY <1>5 DEF Add
    <3>2. job[p].cmd = "none" /\ job'[p].pc \in {"hosts", "wipe", "import"}
          /\ \A q \in Callers \ {p} : job'[q] = job[q]
      BY <3>1 DEF Start, First, JobsOK
    <3> QED BY <3>2, Placed DEF Deploys
  <2>2. /\ le' = le
        /\ \A d \in Names : ve'[d] = "gone" => pem'[d] = NoCert
        /\ \A d \in Names : pem'[d] = Broken => pem[d] = Broken
    BY <1>5, <1>3 DEF Add, Start, FilesOK, NoCert, Broken
  <2>3. Unbroken'
    BY <1>5, <1>3 DEF Add, Start, files, Unbroken
  <2>4. Sound'
    BY <1>5, <1>3 DEF Add, Start, Sound
  <2> QED BY <1>1, <1>2, <2>1, <2>2, <2>3, <2>4, CertsSame
<1>6. ASSUME NEW p \in Callers, NEW c \in Names, Remove(p, c)
      PROVE  CertsOK'
  <2>1. \A q \in Callers : Deploys(q)
    <3>1. Start(p, "remove", c, FALSE)
      BY <1>6 DEF Remove
    <3>2. job[p].cmd = "none" /\ job'[p].pc \in {"hosts", "wipe", "import"}
          /\ \A q \in Callers \ {p} : job'[q] = job[q]
      BY <3>1 DEF Start, First, JobsOK
    <3> QED BY <3>2, Placed DEF Deploys
  <2>2. /\ le' = le
        /\ \A d \in Names : ve'[d] = "gone" => pem'[d] = NoCert
        /\ \A d \in Names : pem'[d] = Broken => pem[d] = Broken
    BY <1>6, <1>3 DEF Remove, Start, FilesOK, NoCert, Broken
  <2>3. Unbroken'
    BY <1>6, <1>3 DEF Remove, Start, files, Unbroken
  <2>4. Sound'
    BY <1>6, <1>3 DEF Remove, Start, Sound
  <2> QED BY <1>1, <1>2, <2>1, <2>2, <2>3, <2>4, CertsSame
<1>7. ASSUME NEW p \in Callers, NEW c \in Names, Settings(p, c)
      PROVE  CertsOK'
  <2>1. \A q \in Callers : Deploys(q)
    <3>1. Start(p, "settings", c, FALSE)
      BY <1>7 DEF Settings
    <3>2. job[p].cmd = "none" /\ job'[p].pc \in {"hosts", "wipe", "import"}
          /\ \A q \in Callers \ {p} : job'[q] = job[q]
      BY <3>1 DEF Start, First, JobsOK
    <3> QED BY <3>2, Placed DEF Deploys
  <2>2. /\ le' = le
        /\ \A d \in Names : ve'[d] = "gone" => pem'[d] = NoCert
        /\ \A d \in Names : pem'[d] = Broken => pem[d] = Broken
    BY <1>7, <1>3 DEF Settings, Start, FilesOK, Own
  <2>3. Unbroken'
    BY <1>7, <1>3 DEF Settings, Start, files, Unbroken
  <2>4. Sound'
    BY <1>7, <1>3 DEF Settings, Start, Sound
  <2> QED BY <1>1, <1>2, <2>1, <2>2, <2>3, <2>4, CertsSame
<1>8. ASSUME NEW p \in Callers, NEW c \in Names, ImportCrt(p, c)
      PROVE  CertsOK'
  <2>1. \A q \in Callers : Deploys(q)
    <3>1. Start(p, "import-crt", c, FALSE)
      BY <1>8 DEF ImportCrt
    <3>2. job[p].cmd = "none" /\ job'[p].pc \in {"hosts", "wipe", "import"}
          /\ \A q \in Callers \ {p} : job'[q] = job[q]
      BY <3>1 DEF Start, First, JobsOK
    <3> QED BY <3>2, Placed DEF Deploys
  <2>2. /\ le' = le
        /\ \A d \in Names : ve'[d] = "gone" => pem'[d] = NoCert
        /\ \A d \in Names : pem'[d] = Broken => pem[d] = Broken
    BY <1>8, <1>3 DEF ImportCrt, Start
  <2>3. Unbroken'
    BY <1>8, <1>3 DEF ImportCrt, Start, files, Unbroken
  <2>4. Sound'
    BY <1>8, <1>3 DEF ImportCrt, Start, Sound
  <2> QED BY <1>1, <1>2, <2>1, <2>2, <2>3, <2>4, CertsSame
<1>9. ASSUME NEW p \in Callers, NEW all \in BOOLEAN, Regenerate(p, all)
      PROVE  CertsOK'
  <2>1. \A q \in Callers : Deploys(q)
    <3>1. Start(p, "regenerate", NoJob.c, all)
      BY <1>9 DEF Regenerate
    <3>2. job[p].cmd = "none" /\ job'[p].pc \in {"hosts", "wipe", "import"}
          /\ \A q \in Callers \ {p} : job'[q] = job[q]
      BY <3>1 DEF Start, First, JobsOK
    <3> QED BY <3>2, Placed DEF Deploys
  <2>2. /\ le' = le
        /\ \A d \in Names : ve'[d] = "gone" => pem'[d] = NoCert
        /\ \A d \in Names : pem'[d] = Broken => pem[d] = Broken
    BY <1>9, <1>3 DEF Regenerate, Start
  <2>3. Unbroken'
    BY <1>9, <1>3 DEF Regenerate, Start, files, Unbroken
  <2>4. Sound'
    BY <1>9, <1>3 DEF Regenerate, Start, Sound
  <2> QED BY <1>1, <1>2, <2>1, <2>2, <2>3, <2>4, CertsSame
<1>10. ASSUME NEW p \in Callers, Diagnose(p)
      PROVE  CertsOK'
  <2>1. \A q \in Callers : Deploys(q)
    BY <1>10 DEF Diagnose, Deploys
  <2>2. /\ le' = le
        /\ \A d \in Names : ve'[d] = "gone" => pem'[d] = NoCert
        /\ \A d \in Names : pem'[d] = Broken => pem[d] = Broken
    BY <1>10, <1>3 DEF Diagnose, NoCert, Broken
  <2>3. Unbroken'
    BY <1>10, <1>3 DEF Diagnose, files, Unbroken
  <2>4. Sound'
    BY <1>10, <1>3 DEF Diagnose, Sound
  <2> QED BY <1>1, <1>2, <2>1, <2>2, <2>3, <2>4, CertsSame
<1>11. ASSUME NEW p \in Callers, EtcHosts(p)
      PROVE  CertsOK'
  <2>1. \A q \in Callers : Deploys(q)
    BY <1>11, Leading DEF Moves, Deploys
  <2>2. /\ le' = le
        /\ \A d \in Names : ve'[d] = "gone" => pem'[d] = NoCert
        /\ \A d \in Names : pem'[d] = Broken => pem[d] = Broken
    BY <1>11, <1>3 DEF EtcHosts, certs
  <2>3. Unbroken'
    BY <1>11, <1>3 DEF EtcHosts, files, Unbroken
  <2>4. Sound'
    BY <1>11, <1>3 DEF EtcHosts, Sound
  <2> QED BY <1>1, <1>2, <2>1, <2>2, <2>3, <2>4, CertsSame
<1>12. ASSUME NEW p \in Callers, Stamp(p)
      PROVE  CertsOK'
  <2>1. \A q \in Callers : Deploys(q)
    BY <1>12, Leading DEF Moves, Deploys
  <2>2. /\ le' = le
        /\ \A d \in Names : ve'[d] = "gone" => pem'[d] = NoCert
        /\ \A d \in Names : pem'[d] = Broken => pem[d] = Broken
    BY <1>12, <1>3 DEF Stamp, certs
  <2>3. Unbroken'
    BY <1>12, <1>3 DEF Stamp, files, Unbroken
  <2>4. Sound'
    BY <1>12, <1>3 DEF Stamp, Sound
  <2> QED BY <1>1, <1>2, <2>1, <2>2, <2>3, <2>4, CertsSame
<1>13. ASSUME NEW p \in Callers, AcmeDone(p)
      PROVE  CertsOK'
  <2>1. \A q \in Callers : Deploys(q)
    BY <1>13, Leading DEF Moves, Deploys
  <2>2. /\ le' = le
        /\ \A d \in Names : ve'[d] = "gone" => pem'[d] = NoCert
        /\ \A d \in Names : pem'[d] = Broken => pem[d] = Broken
    BY <1>13, <1>3 DEF AcmeDone, certs
  <2>3. Unbroken'
    BY <1>13, <1>3 DEF AcmeDone, files, Unbroken
  <2>4. Sound'
    BY <1>13, <1>3 DEF AcmeDone, Sound
  <2> QED BY <1>1, <1>2, <2>1, <2>2, <2>3, <2>4, CertsSame
<1>14. ASSUME NEW p \in Callers, Deploy(p)
      PROVE  CertsOK'
  BY <1>14, <1>1, <1>2, CertsDeploy
<1>15. ASSUME NEW p \in Callers, Import(p)
      PROVE  CertsOK'
  <2>1. \A q \in Callers : Deploys(q)
    BY <1>15, Leading DEF Moves, Deploys
  <2>2. /\ le' = le
        /\ \A d \in Names : ve'[d] = "gone" => pem'[d] = NoCert
        /\ \A d \in Names : pem'[d] = Broken => pem[d] = Broken
    <3>1. job[p].c \in Names
      BY <1>15 DEF Import, On, JobsOK, Mine
    <3>2. day + Life # Broken
      BY ConstantsAssumption DEF FilesOK, Env, Broken
    <3> QED BY <1>15, <1>3, <3>1, <3>2 DEF Import, FilesOK
  <2>3. Unbroken'
    BY <1>15, <1>3 DEF Import, files, Unbroken
  <2>4. Sound'
    BY <1>15, <1>3 DEF Import, Sound
  <2> QED BY <1>1, <1>2, <2>1, <2>2, <2>3, <2>4, CertsSame
<1>16. ASSUME NEW p \in Callers, Wipe(p)
      PROVE  CertsOK'
  <2>1. \A q \in Callers : Deploys(q)
    BY <1>16, Leading DEF Moves, Deploys
  <2>2. /\ le' = le
        /\ \A d \in Names : ve'[d] = "gone" => pem'[d] = NoCert
        /\ \A d \in Names : pem'[d] = Broken => pem[d] = Broken
    BY <1>16, <1>3 DEF Wipe, certs
  <2>3. Unbroken'
    <3>1. \A g, d \in Hosts : g # At[p] \/ d # At[p] => dir'[g][d] = dir[g][d]
      BY <1>16, Wiping DEF OwnDir
    <3>2. \A c \in Names : dir'[At[p]][At[p]].has[c].cert # Broken
      <4>1. OwnDir(At[p], FALSE, {}, Empty.has) /\ \A c \in Names : Empty.has[c] = NoService
        BY <1>16, Wiping
      <4>2. dir'[At[p]][At[p]].has = Empty.has
        BY <4>1 DEF OwnDir
      <4>3. NoService.cert # Broken
        BY DEF NoService, NoCert, Broken
      <4> QED BY <4>1, <4>2, <4>3
    <3> QED BY <1>3, <3>1, <3>2 DEF Unbroken
  <2>4. Sound'
    BY <1>16, <1>3 DEF Wipe, Sound
  <2> QED BY <1>1, <1>2, <2>1, <2>2, <2>3, <2>4, CertsSame
<1>17. ASSUME NEW p \in Callers, Header(p)
      PROVE  CertsOK'
  <2>1. \A q \in Callers : Deploys(q)
    BY <1>17, Leading DEF Moves, Deploys
  <2>2. /\ le' = le
        /\ \A d \in Names : ve'[d] = "gone" => pem'[d] = NoCert
        /\ \A d \in Names : pem'[d] = Broken => pem[d] = Broken
    BY <1>17, <1>3 DEF Header, certs
  <2>3. Unbroken'
    <3>1. \A g, d \in Hosts : g # At[p] \/ d # At[p] => dir'[g][d] = dir[g][d]
      BY <1>17, Heading DEF OwnDir
    <3>2. \A c \in Names : dir'[At[p]][At[p]].has[c].cert # Broken
      <4>1. OwnDir(At[p], TRUE, {}, dir[At[p]][At[p]].has)
        BY <1>17, Heading
      <4>2. dir'[At[p]][At[p]].has = dir[At[p]][At[p]].has
        BY <4>1 DEF OwnDir
      <4> QED BY <1>3, <1>4, <4>2 DEF Unbroken
    <3> QED BY <1>3, <3>1, <3>2 DEF Unbroken
  <2>4. Sound'
    BY <1>17, <1>3 DEF Header, Sound
  <2> QED BY <1>1, <1>2, <2>1, <2>2, <2>3, <2>4, CertsSame
<1>18. ASSUME NEW p \in Callers, IncludeService(p)
      PROVE  CertsOK'
  <2>1. \A q \in Callers : Deploys(q)
    BY <1>18, Leading DEF Moves, Deploys
  <2>2. /\ le' = le
        /\ \A d \in Names : ve'[d] = "gone" => pem'[d] = NoCert
        /\ \A d \in Names : pem'[d] = Broken => pem[d] = Broken
    BY <1>18, <1>3 DEF IncludeService, certs
  <2>3. Unbroken'
    <3>3. job[p].pc = "include"
      BY <1>18, Leading
    <3>4. job[p].c \in Mine(At[p])
      BY <3>3 DEF JobsOK
    <3>1. \A g, d \in Hosts : g # At[p] \/ d # At[p] => dir'[g][d] = dir[g][d]
      BY <1>18, <3>4, IncludingIt DEF OwnDir
    <3>2. \A c \in Names : dir'[At[p]][At[p]].has[c].cert # Broken
      BY <1>18, <1>3, <1>4, <3>4, IncludingIt DEF OwnDir, Unbroken
    <3> QED BY <1>3, <3>1, <3>2 DEF Unbroken
  <2>4. Sound'
    BY <1>18, <1>3 DEF IncludeService, Sound
  <2> QED BY <1>1, <1>2, <2>1, <2>2, <2>3, <2>4, CertsSame
<1>19. ASSUME NEW p \in Callers, WriteDone(p)
      PROVE  CertsOK'
  <2>1. \A q \in Callers : Deploys(q)
    BY <1>19, Leading DEF Moves, Deploys
  <2>2. /\ le' = le
        /\ \A d \in Names : ve'[d] = "gone" => pem'[d] = NoCert
        /\ \A d \in Names : pem'[d] = Broken => pem[d] = Broken
    BY <1>19, <1>3 DEF WriteDone, certs
  <2>3. Unbroken'
    BY <1>19, <1>3 DEF WriteDone, files, Unbroken
  <2>4. Sound'
    BY <1>19, <1>3 DEF WriteDone, Sound
  <2> QED BY <1>1, <1>2, <2>1, <2>2, <2>3, <2>4, CertsSame
<1>20. ASSUME NEW p \in Callers, Truncate(p)
      PROVE  CertsOK'
  <2>1. \A q \in Callers : Deploys(q)
    BY <1>20, Leading DEF Moves, Deploys
  <2>2. /\ le' = le
        /\ \A d \in Names : ve'[d] = "gone" => pem'[d] = NoCert
        /\ \A d \in Names : pem'[d] = Broken => pem[d] = Broken
    BY <1>20, <1>3 DEF Truncate, certs
  <2>3. Unbroken'
    BY <1>20, <1>3 DEF Truncate, files, Unbroken
  <2>4. Sound'
    BY <1>20, <1>3 DEF Truncate, Sound
  <2> QED BY <1>1, <1>2, <2>1, <2>2, <2>3, <2>4, CertsSame
<1>21. ASSUME NEW p \in Callers, Fetch(p)
      PROVE  CertsOK'
  <2>1. \A q \in Callers : Deploys(q)
    BY <1>21, Leading DEF Moves, Deploys
  <2>2. /\ le' = le
        /\ \A d \in Names : ve'[d] = "gone" => pem'[d] = NoCert
        /\ \A d \in Names : pem'[d] = Broken => pem[d] = Broken
    BY <1>21, <1>3 DEF Fetch, certs
  <2>3. Unbroken'
    <3>1. \A g, d \in Hosts : dir'[g][d] = dir[g][d] \/ dir'[g][d] = dir[d][d]
      BY <1>21, Fetching
    <3> QED BY <1>3, <3>1 DEF Unbroken
  <2>4. Sound'
    BY <1>21, <1>3 DEF Fetch, Sound
  <2> QED BY <1>1, <1>2, <2>1, <2>2, <2>3, <2>4, CertsSame
<1>22. ASSUME NEW p \in Callers, AddOwn(p)
      PROVE  CertsOK'
  <2>1. \A q \in Callers : Deploys(q)
    BY <1>22, Leading DEF Moves, Deploys
  <2>2. /\ le' = le
        /\ \A d \in Names : ve'[d] = "gone" => pem'[d] = NoCert
        /\ \A d \in Names : pem'[d] = Broken => pem[d] = Broken
    BY <1>22, <1>3 DEF AddOwn, certs
  <2>3. Unbroken'
    BY <1>22, <1>3 DEF AddOwn, files, Unbroken
  <2>4. Sound'
    BY <1>22, <1>3 DEF AddOwn, Sound
  <2> QED BY <1>1, <1>2, <2>1, <2>2, <2>3, <2>4, CertsSame
<1>23. ASSUME NEW p \in Callers, AddPeers(p)
      PROVE  CertsOK'
  <2>1. \A q \in Callers : Deploys(q)
    BY <1>23, Leading DEF Moves, Deploys
  <2>2. /\ le' = le
        /\ \A d \in Names : ve'[d] = "gone" => pem'[d] = NoCert
        /\ \A d \in Names : pem'[d] = Broken => pem[d] = Broken
    BY <1>23, <1>3 DEF AddPeers, certs
  <2>3. Unbroken'
    BY <1>23, <1>3 DEF AddPeers, files, Unbroken
  <2>4. Sound'
    BY <1>23, <1>3 DEF AddPeers, Sound
  <2> QED BY <1>1, <1>2, <2>1, <2>2, <2>3, <2>4, CertsSame
<1>24. ASSUME NEW p \in Callers, Restart(p)
      PROVE  CertsOK'
  <2>1. \A q \in Callers : Deploys(q)
    <3>1. job[p].pc = "restart"
      BY <1>24 DEF Restart, On
    <3>2. job'[p] = NoJob /\ \A q \in Callers \ {p} : job'[q] = job[q]
      BY <1>24, JobsLeft, <1>1 DEF Restart, Leave, JobsOK
    <3> QED BY <3>1, <3>2 DEF Deploys, NoJob
  <2>2. /\ le' = le
        /\ \A d \in Names : ve'[d] = "gone" => pem'[d] = NoCert
        /\ \A d \in Names : pem'[d] = Broken => pem[d] = Broken
    BY <1>24, <1>3 DEF Restart, certs
  <2>3. Unbroken'
    BY <1>24, <1>3 DEF Restart, files, Unbroken
  <2>4. Sound'
    <3> SUFFICES ASSUME NEW h \in Hosts, NEW c \in Names
                 PROVE  pound'[h].reads[c].cert # Broken
      BY DEF Sound
    <3>1. CASE pound'[h] = pound[h]
      BY <1>3, <3>1 DEF Sound
    <3>2. CASE pound'[h] = Down
      BY <3>2 DEF Down, NoService, NoCert, Broken
    <3>3. CASE pound'[h] = [up |-> TRUE, reads |-> Reads(h)]
      BY <1>3, <3>3, Reading DEF Unbroken, NoService, NoCert, Broken
    <3> QED BY <1>24, <1>4, <3>1, <3>2, <3>3 DEF Restart, FilesOK
  <2> QED BY <1>1, <1>2, <2>1, <2>2, <2>3, <2>4, CertsSame
<1>25. ASSUME NEW p \in Callers, NEW c \in Names, AcmeSkip(p, c)
      PROVE  CertsOK'
  <2>1. \A q \in Callers : Deploys(q)
    BY <1>25, LeadingTo DEF Moves, Deploys
  <2>2. /\ le' = le
        /\ \A d \in Names : ve'[d] = "gone" => pem'[d] = NoCert
        /\ \A d \in Names : pem'[d] = Broken => pem[d] = Broken
    BY <1>25, <1>3 DEF AcmeSkip, certs
  <2>3. Unbroken'
    BY <1>25, <1>3 DEF AcmeSkip, files, Unbroken
  <2>4. Sound'
    BY <1>25, <1>3 DEF AcmeSkip, Sound
  <2> QED BY <1>1, <1>2, <2>1, <2>2, <2>3, <2>4, CertsSame
<1>26. ASSUME NEW p \in Callers, NEW c \in Names, AcmeDeploy(p, c)
      PROVE  CertsOK'
  <2>1. env.acme # {}
    <3>1. le[c] # NoCert
      BY <1>26, ConstantsAssumption DEF AcmeDeploy, Lasts, FilesOK, Env, NoCert
    <3> QED BY <1>2, <3>1 DEF CertsOK
  <2>2. job[p].pc = "acme" /\ Moves(p, "deploy", job[p].todo \ {c}, c)
    BY <1>26, LeadingTo
  <2> QED BY <1>26, <1>1, <1>2, <2>1, <2>2, CertsBegin DEF AcmeDeploy, files
<1>27. ASSUME NEW p \in Callers, NEW c \in Names, AcmeExit(p, c)
      PROVE  CertsOK'
  BY <1>27, <1>2, NoExit
<1>28. ASSUME NEW p \in Callers, NEW c \in Names, AcmeGet(p, c)
      PROVE  CertsOK'
  <2>1. env.acme # {} /\ job[p].pc = "acme"
    BY <1>28, LeadingTo DEF AcmeGet
  <2>2. /\ ve' = ve /\ dir' = dir /\ pound' = pound
    BY <1>28 DEF AcmeGet, files
  <2>3. CASE Pick(p, c, "deploy") /\ pem' = [pem EXCEPT ![c] = IF ve[c] # "gone" THEN Broken ELSE @]
    <3>1. Moves(p, "deploy", job[p].todo \ {c}, c)
      BY <2>3, Going DEF PlaceNames
    <3> QED BY <1>1, <1>2, <2>1, <2>2, <2>3, <3>1, CertsBegin
  <2>4. CASE Pick(p, c, "acme") /\ le' = le /\ (pem' = pem \/ pem' = [pem EXCEPT ![c] = NoCert])
    <3>1. Moves(p, "acme", job[p].todo \ {c}, c)
      BY <2>4, Going DEF PlaceNames
    <3>2. \A q \in Callers : Deploys(q)
      BY <2>1, <3>1 DEF Moves, Deploys
    <3>3. /\ \A d \in Names : ve'[d] = "gone" => pem'[d] = NoCert
          /\ \A d \in Names : pem'[d] = Broken => pem[d] = Broken
      BY <1>3, <2>2, <2>4 DEF FilesOK, NoCert, Broken
    <3>4. Unbroken' /\ Sound'
      BY <1>3, <2>2 DEF Unbroken, Sound
    <3> QED BY <1>1, <1>2, <2>4, <3>2, <3>3, <3>4, CertsSame
  <2> QED BY <1>28, <2>3, <2>4 DEF AcmeGet
<1>29. ASSUME NEW p \in Callers, NEW c \in Names, WriteService(p, c)
      PROVE  CertsOK'
  <2>1. \A q \in Callers : Deploys(q)
    BY <1>29, LeadingTo DEF Moves, Deploys
  <2>2. /\ le' = le
        /\ \A d \in Names : ve'[d] = "gone" => pem'[d] = NoCert
        /\ \A d \in Names : pem'[d] = Broken => pem[d] = Broken
    BY <1>29, <1>3 DEF WriteService, certs
  <2>3. Unbroken'
    <3>1. OwnDir(At[p], dir[At[p]][At[p]].top, dir[At[p]][At[p]].inc,
             [dir[At[p]][At[p]].has EXCEPT ![c] = Services(c)])
      BY <1>29, Writing
    <3>2. \A g, d \in Hosts : g # At[p] \/ d # At[p] => dir'[g][d] = dir[g][d]
      BY <3>1 DEF OwnDir
    <3>3. pem[c] # Broken
      <4> SUFFICES ASSUME pem[c] = Broken
                   PROVE  FALSE
        OBVIOUS
      <4>1. PICK q \in Callers : job[q].pc = "deploy"
        BY <1>2 DEF CertsOK
      <4>2. q # p /\ job[q].cmd # "none" /\ job[p].cmd # "none"
        BY <1>29, <4>1, LeadingTo, Placed
      <4>3. env.acme = {}
        BY <1>2, <4>2, Beside
      <4> QED BY <1>2, <4>1, <4>3 DEF CertsOK
    <3>4. dir[At[p]][At[p]].has \in [Names -> Service]
      BY <1>4, Dirs
    <3>5. dir'[At[p]][At[p]].has = [dir[At[p]][At[p]].has EXCEPT ![c] = Services(c)]
      BY <3>1 DEF OwnDir
    <3>6. \A d \in Names : dir'[At[p]][At[p]].has[d].cert # Broken
      BY <1>3, <1>4, <3>3, <3>4, <3>5 DEF Unbroken, Services
    <3> QED BY <1>3, <3>2, <3>6 DEF Unbroken
  <2>4. Sound'
    BY <1>29, <1>3 DEF WriteService, Sound
  <2> QED BY <1>1, <1>2, <2>1, <2>2, <2>3, <2>4, CertsSame
<1>30. ASSUME NEW h \in Hosts, Crash(h)
      PROVE  CertsOK'
  <2>1. \A q \in Callers : Deploys(q)
    BY <1>30 DEF Crash, Deploys
  <2>2. /\ le' = le
        /\ \A d \in Names : ve'[d] = "gone" => pem'[d] = NoCert
        /\ \A d \in Names : pem'[d] = Broken => pem[d] = Broken
    BY <1>30, <1>3 DEF Crash, certs
  <2>3. Unbroken'
    BY <1>30, <1>3 DEF Crash, files, Unbroken
  <2>4. Sound'
    BY <1>30, <1>3 DEF Crash, Sound, Down, NoService, NoCert, Broken, FilesOK
  <2> QED BY <1>1, <1>2, <2>1, <2>2, <2>3, <2>4, CertsSame
<1>31. ASSUME Midnight
      PROVE  CertsOK'
  <2>1. \A q \in Callers : Deploys(q)
    BY <1>31 DEF Midnight, Deploys
  <2>2. /\ le' = le
        /\ \A d \in Names : ve'[d] = "gone" => pem'[d] = NoCert
        /\ \A d \in Names : pem'[d] = Broken => pem[d] = Broken
    BY <1>31, <1>3 DEF Midnight, certs
  <2>3. Unbroken'
    BY <1>31, <1>3 DEF Midnight, files, Unbroken
  <2>4. Sound'
    BY <1>31, <1>3 DEF Midnight, Sound
  <2> QED BY <1>1, <1>2, <2>1, <2>2, <2>3, <2>4, CertsSame
<1>32. ASSUME Net
      PROVE  CertsOK'
  <2>1. \A q \in Callers : Deploys(q)
    BY <1>32 DEF Net, Deploys
  <2>2. /\ le' = le
        /\ \A d \in Names : ve'[d] = "gone" => pem'[d] = NoCert
        /\ \A d \in Names : pem'[d] = Broken => pem[d] = Broken
    BY <1>32, <1>3 DEF Net, certs
  <2>3. Unbroken'
    BY <1>32, <1>3 DEF Net, files, Unbroken
  <2>4. Sound'
    BY <1>32, <1>3 DEF Net, Sound
  <2> QED BY <1>1, <1>2, <2>1, <2>2, <2>3, <2>4, CertsSame
<1>33. ASSUME UNCHANGED vars
      PROVE  CertsOK'
  <2>1. \A q \in Callers : Deploys(q)
    BY <1>33 DEF vars, Deploys
  <2>2. /\ le' = le
        /\ \A d \in Names : ve'[d] = "gone" => pem'[d] = NoCert
        /\ \A d \in Names : pem'[d] = Broken => pem[d] = Broken
    BY <1>33, <1>3 DEF vars
  <2>3. Unbroken'
    BY <1>33, <1>3 DEF vars, Unbroken
  <2>4. Sound'
    BY <1>33, <1>3 DEF vars, Sound
  <2> QED BY <1>1, <1>2, <2>1, <2>2, <2>3, <2>4, CertsSame
<1> QED
  BY <1>5, <1>6, <1>7, <1>8, <1>9, <1>10, <1>11, <1>12, <1>13, <1>14, <1>15, <1>16,
     <1>17, <1>18, <1>19, <1>20, <1>21, <1>22, <1>23, <1>24, <1>25, <1>26, <1>27,
     <1>28, <1>29, <1>30, <1>31, <1>32, <1>33, Zenon
  DEF Next, Goes, Certificates, Files, Sync, Command, vars

-----------------------------------------------------------------------------
(* pound, of one host.                                                     *)
PoundAt(h) ==
  /\ pound[h].up \/ (env.overlap # {} /\ ~Idle(h))
  /\ Idle(h) => \A c \in Mine(h) :
       pound[h].reads[c].kind = IF ve[c] = "gone" THEN "none" ELSE ve[c]

(* A step elsewhere, and one that leaves a command at the host.            *)
LEMMA PoundSame ==
  ASSUME NEW h, PoundAt(h), env' = env, pound'[h] = pound[h],
         \/ ~Idle(h)'
         \/ /\ \A q \in Callers : At[q] = h => job'[q].cmd = job[q].cmd
            /\ \A c \in Mine(h) : ve'[c] = ve[c]
  PROVE  PoundAt(h)'
<1>1. CASE ~Idle(h)'
  BY <1>1 DEF PoundAt, Idle
<1>2. CASE /\ \A q \in Callers : At[q] = h => job'[q].cmd = job[q].cmd
           /\ \A c \in Mine(h) : ve'[c] = ve[c]
  <2>1. Idle(h)' <=> Idle(h)
    BY <1>2 DEF Idle
  <2> QED BY <1>2, <2>1 DEF PoundAt
<1> QED BY <1>1, <1>2

(* When the last command at a host restarts pound, all is there.           *)
LEMMA Whole ==
  ASSUME FilesOK, JobsOK, OwnOK, PeersOK, CertsOK, Reliable, NEW p \in Callers,
         job[p].pc = "restart", \A q \in Callers \ {p} : job[q].cmd = "none"
  PROVE  LET h == At[p] IN
         /\ Complete(h) /\ Resolves(h)
         /\ \A c \in Mine(h) :
              Reads(h)[c].kind = IF ve[c] = "gone" THEN "none" ELSE ve[c]
<1> DEFINE h == At[p]
           D == dir[h][h]
<1>1. h \in Hosts /\ main[h] \subseteq Hosts
  BY ConstantsAssumption DEF FilesOK
<1>2. /\ \A X : "none" \notin X /\ "restart" \notin X => ~Around(h, X) /\ ~Grows(h, X)
      /\ \A c : ~InTodo(h, c) /\ ~Including(h, c)
  <2>1. \A q \in Callers : job[q].pc \in {"none", "restart"}
    BY Placed
  <2> QED BY <2>1 DEF Around, Grows, At1, InTodo, Including, Build
<1>3. /\ ~Around(h, Rebuild) /\ ~Around(h, {"hosts"}) /\ ~Around(h, {"header"})
      /\ ~Grows(h, Rebuild \cup Build \cup {"truncate", "fetch", "own"})
      /\ ~Grows(h, BeforeFetch)
  BY <1>2 DEF Rebuild, Build, BeforeFetch
<1>4. Listed(h) /\ Written(h) /\ Topped(h) /\ Included(h)
  BY <1>1 DEF OwnOK
<1>5. Own(h) \subseteq known[h][h]
  BY <1>3, <1>4 DEF Listed
<1>6. /\ D.inc \subseteq Own(h) /\ Own(h) \subseteq D.inc
      /\ \A c \in D.inc : D.has[c].kind = ve[c]
  BY <1>2, <1>3, <1>4 DEF Written, Own
<1>7. h \in main[h] => D.top
  BY <1>3, <1>4 DEF Topped
<1>8. Own(h) # {} => h \in main[h]
  BY <1>3, <1>4 DEF Included
<1>9. \A d \in Hosts : d # h => Copied(h, d) /\ Resolved(h, d)
  BY <1>1 DEF PeersOK
<1>10. \A d \in Hosts, c \in Names : dir[h][d].has[c].cert # Broken
  BY <1>1 DEF CertsOK
<1>11. \A c \in Own(h) : c \in Names /\ ve[c] # "gone" /\ ve[c] # "none"
  BY DEF Own, FilesOK
<1>12. Complete(h)
  <2> SUFFICES ASSUME NEW d \in main[h]
               PROVE  /\ dir[h][d].top
                      /\ \A c \in dir[h][d].inc :
                           dir[h][d].has[c].kind # "none" /\ dir[h][d].has[c].cert # Broken
    BY DEF Complete
  <2>1. dir[h][d].inc \subseteq Names
    BY <1>1, Dirs DEF Mine
  <2>2. CASE d = h
    BY <1>6, <1>7, <1>10, <1>11, <2>1, <2>2, <1>1
  <2>3. CASE d # h
    BY <1>1, <1>9, <1>10, <2>1, <2>3 DEF Copied
  <2> QED BY <2>2, <2>3
<1>13. Resolves(h)
  <2> SUFFICES ASSUME NEW d \in main[h]
               PROVE  dir[h][d].inc \subseteq UNION {known[h][e] : e \in Hosts}
    BY DEF Resolves
  <2>1. dir[h][d].inc \subseteq known[h][d]
    <3>1. CASE d = h
      BY <1>5, <1>6, <3>1
    <3>2. CASE d # h
      BY <1>1, <1>3, <1>9, <3>2 DEF Resolved
    <3> QED BY <3>1, <3>2
  <2> QED BY <1>1, <2>1
<1>14. \A c \in Mine(h) : Reads(h)[c].kind = IF ve[c] = "gone" THEN "none" ELSE ve[c]
  <2> SUFFICES ASSUME NEW c \in Mine(h)
               PROVE  Reads(h)[c].kind = IF ve[c] = "gone" THEN "none" ELSE ve[c]
    OBVIOUS
  <2>1. Reads(h)[c] = IF h \in main[h] /\ c \in D.inc THEN D.has[c] ELSE NoService
    BY <1>1, Reading
  <2>2. CASE h \in main[h] /\ c \in D.inc
    BY <1>6, <1>11, <2>1, <2>2
  <2>3. CASE ~(h \in main[h] /\ c \in D.inc)
    <3>1. c \notin Own(h)
      BY <1>6, <1>8, <2>3
    <3>2. ve[c] = "gone"
      BY <3>1 DEF Own, Mine
    <3> QED BY <2>1, <2>3, <3>2 DEF NoService
  <2> QED BY <2>2, <2>3
<1> QED BY <1>12, <1>13, <1>14

LEMMA PoundRestart ==
  ASSUME FilesOK, JobsOK, OwnOK, PeersOK, CertsOK, PoundOK, Reliable, env' = env,
         NEW p \in Callers, Restart(p), NEW h \in Hosts
  PROVE  PoundAt(h)'
<1>1. /\ job[p].pc = "restart" /\ job[p].cmd # "none"
      /\ job'[p] = NoJob /\ \A q \in Callers \ {p} : job'[q] = job[q]
  <2>1. job[p].pc = "restart" /\ Leave(p)
    BY DEF Restart, On
  <2>2. job[p].cmd # "none"
    BY <2>1, Placed
  <2> QED BY <2>1, <2>2, JobsLeft DEF JobsOK, Leave
<1>2. PoundAt(h) /\ At[p] \in Hosts /\ ve' = ve
  BY ConstantsAssumption DEF PoundOK, PoundAt, Restart
<1>3. CASE h # At[p]
  <2>1. pound'[h] = pound[h]
    BY <1>2, <1>3 DEF Restart, FilesOK
  <2> QED BY <1>1, <1>2, <1>3, <2>1, PoundSame
<1>4. CASE h = At[p] /\ \E q \in Callers \ {p} : job[q].cmd # "none"
  <2>1. PICK q \in Callers \ {p} : job[q].cmd # "none"
    BY <1>4
  <2>2. At[q] = h /\ env.overlap # {}
    BY <1>1, <1>4, <2>1, Beside
  <2> QED BY <1>1, <2>1, <2>2 DEF PoundAt, Idle
<1>5. CASE h = At[p] /\ \A q \in Callers \ {p} : job[q].cmd = "none"
  <2>1. /\ Complete(h) /\ Resolves(h)
        /\ \A c \in Mine(h) :
             Reads(h)[c].kind = IF ve[c] = "gone" THEN "none" ELSE ve[c]
    BY <1>1, <1>5, Whole
  <2>2. pound'[h] = [up |-> TRUE, reads |-> Reads(h)]
    BY <1>5, <2>1 DEF Restart, FilesOK
  <2> QED BY <1>2, <2>1, <2>2 DEF PoundAt
<1> QED BY <1>3, <1>4, <1>5

LEMMA PoundKept ==
  ASSUME FilesOK, JobsOK, OwnOK, PeersOK, CertsOK, PoundOK, [Next]_vars
  PROVE  PoundOK'
<1>1. env' = env
  BY DEF Next, Goes, Again, vars
<1>2. SUFFICES ASSUME Reliable
               PROVE  PoundOK'
  BY <1>1 DEF PoundOK, Reliable, Disciplined
<1>3. Reliable' /\ \A h \in Hosts : PoundAt(h)
  BY <1>1, <1>2 DEF PoundOK, Reliable, Disciplined, PoundAt
<1>4. ASSUME \A h \in Hosts : PoundAt(h)'
      PROVE  PoundOK'
  BY <1>4 DEF PoundOK, PoundAt
<1>5. ASSUME NEW p \in Callers, pound' = pound, job'[p].cmd # "none",
             \A q \in Callers \ {p} : job'[q] = job[q],
             \A c \in Names : Home[c] # At[p] => ve'[c] = ve[c]
      PROVE  PoundOK'
  <2> SUFFICES ASSUME NEW h \in Hosts
               PROVE  PoundAt(h)'
    BY <1>4
  <2>1. CASE h = At[p]
    <3>1. ~Idle(h)'
      BY <1>5, <2>1 DEF Idle
    <3> QED BY <1>1, <1>3, <1>5, <3>1, PoundSame
  <2>2. CASE h # At[p]
    BY <1>1, <1>3, <1>5, <2>2, PoundSame DEF Mine
  <2> QED BY <2>1, <2>2
<1> HIDE DEF PoundOK
<1>6. ASSUME NEW p \in Callers, NEW c \in Names, Add(p, c)
      PROVE  PoundOK'
  <2>1. Start(p, "add", c, FALSE)
    BY <1>6 DEF Add
  <2>2. pound' = pound /\ job'[p].cmd # "none" /\ \A q \in Callers \ {p} : job'[q] = job[q]
    BY <2>1 DEF Start, JobsOK
  <2>3. \A d \in Names : Home[d] # At[p] => ve'[d] = ve[d]
    BY <1>6 DEF Add, FilesOK, Own
  <2> QED BY <1>5, <2>2, <2>3
<1>7. ASSUME NEW p \in Callers, NEW c \in Names, Remove(p, c)
      PROVE  PoundOK'
  <2>1. Start(p, "remove", c, FALSE)
    BY <1>7 DEF Remove
  <2>2. pound' = pound /\ job'[p].cmd # "none" /\ \A q \in Callers \ {p} : job'[q] = job[q]
    BY <2>1 DEF Start, JobsOK
  <2>3. \A d \in Names : Home[d] # At[p] => ve'[d] = ve[d]
    BY <1>7 DEF Remove, FilesOK, Own
  <2> QED BY <1>5, <2>2, <2>3
<1>8. ASSUME NEW p \in Callers, NEW c \in Names, Settings(p, c)
      PROVE  PoundOK'
  <2>1. Start(p, "settings", c, FALSE)
    BY <1>8 DEF Settings
  <2>2. pound' = pound /\ job'[p].cmd # "none" /\ \A q \in Callers \ {p} : job'[q] = job[q]
    BY <2>1 DEF Start, JobsOK
  <2>3. \A d \in Names : Home[d] # At[p] => ve'[d] = ve[d]
    BY <1>8 DEF Settings, FilesOK, Own
  <2> QED BY <1>5, <2>2, <2>3
<1>9. ASSUME NEW p \in Callers, NEW c \in Names, ImportCrt(p, c)
      PROVE  PoundOK'
  <2>1. Start(p, "import-crt", c, FALSE)
    BY <1>9 DEF ImportCrt
  <2>2. pound' = pound /\ job'[p].cmd # "none" /\ \A q \in Callers \ {p} : job'[q] = job[q]
    BY <2>1 DEF Start, JobsOK
  <2>3. \A d \in Names : Home[d] # At[p] => ve'[d] = ve[d]
    BY <1>9 DEF ImportCrt, FilesOK, Own
  <2> QED BY <1>5, <2>2, <2>3
<1>10. ASSUME NEW p \in Callers, NEW all \in BOOLEAN, Regenerate(p, all)
      PROVE  PoundOK'
  <2>1. Start(p, "regenerate", NoJob.c, all)
    BY <1>10 DEF Regenerate
  <2>2. pound' = pound /\ job'[p].cmd # "none" /\ \A q \in Callers \ {p} : job'[q] = job[q]
    BY <2>1 DEF Start, JobsOK
  <2>3. \A d \in Names : Home[d] # At[p] => ve'[d] = ve[d]
    BY <1>10 DEF Regenerate, FilesOK, Own
  <2> QED BY <1>5, <2>2, <2>3
<1>11. ASSUME NEW p \in Callers, Diagnose(p)
      PROVE  PoundOK'
  <2>1. pound' = pound /\ ve' = ve /\ job' = job
    BY <1>11 DEF Diagnose
  <2> QED BY <1>1, <1>3, <1>4, <2>1, PoundSame
<1>12. ASSUME NEW p \in Callers, EtcHosts(p)
      PROVE  PoundOK'
  <2>1. /\ job'[p].cmd = job[p].cmd /\ \A q \in Callers \ {p} : job'[q] = job[q]
        /\ job[p].pc # "none"
    BY <1>12, Leading DEF Moves
  <2>2. pound' = pound /\ ve' = ve
    BY <1>12 DEF EtcHosts, certs, files
  <2> QED BY <1>5, <2>1, <2>2, Placed
<1>13. ASSUME NEW p \in Callers, Stamp(p)
      PROVE  PoundOK'
  <2>1. /\ job'[p].cmd = job[p].cmd /\ \A q \in Callers \ {p} : job'[q] = job[q]
        /\ job[p].pc # "none"
    BY <1>13, Leading DEF Moves
  <2>2. pound' = pound /\ ve' = ve
    BY <1>13 DEF Stamp, certs, files
  <2> QED BY <1>5, <2>1, <2>2, Placed
<1>14. ASSUME NEW p \in Callers, AcmeDone(p)
      PROVE  PoundOK'
  <2>1. /\ job'[p].cmd = job[p].cmd /\ \A q \in Callers \ {p} : job'[q] = job[q]
        /\ job[p].pc # "none"
    BY <1>14, Leading DEF Moves
  <2>2. pound' = pound /\ ve' = ve
    BY <1>14 DEF AcmeDone, certs, files
  <2> QED BY <1>5, <2>1, <2>2, Placed
<1>15. ASSUME NEW p \in Callers, Deploy(p)
      PROVE  PoundOK'
  <2>1. /\ job'[p].cmd = job[p].cmd /\ \A q \in Callers \ {p} : job'[q] = job[q]
        /\ job[p].pc # "none"
    BY <1>15, Leading DEF Moves
  <2>2. pound' = pound /\ ve' = ve
    BY <1>15 DEF Deploy, certs, files
  <2> QED BY <1>5, <2>1, <2>2, Placed
<1>16. ASSUME NEW p \in Callers, Import(p)
      PROVE  PoundOK'
  <2>1. /\ job'[p].cmd = job[p].cmd /\ \A q \in Callers \ {p} : job'[q] = job[q]
        /\ job[p].pc # "none"
    BY <1>16, Leading DEF Moves
  <2>2. pound' = pound /\ ve' = ve
    BY <1>16 DEF Import, certs, files
  <2> QED BY <1>5, <2>1, <2>2, Placed
<1>17. ASSUME NEW p \in Callers, Wipe(p)
      PROVE  PoundOK'
  <2>1. /\ job'[p].cmd = job[p].cmd /\ \A q \in Callers \ {p} : job'[q] = job[q]
        /\ job[p].pc # "none"
    BY <1>17, Leading DEF Moves
  <2>2. pound' = pound /\ ve' = ve
    BY <1>17 DEF Wipe, certs, files
  <2> QED BY <1>5, <2>1, <2>2, Placed
<1>18. ASSUME NEW p \in Callers, Header(p)
      PROVE  PoundOK'
  <2>1. /\ job'[p].cmd = job[p].cmd /\ \A q \in Callers \ {p} : job'[q] = job[q]
        /\ job[p].pc # "none"
    BY <1>18, Leading DEF Moves
  <2>2. pound' = pound /\ ve' = ve
    BY <1>18 DEF Header, certs, files
  <2> QED BY <1>5, <2>1, <2>2, Placed
<1>19. ASSUME NEW p \in Callers, IncludeService(p)
      PROVE  PoundOK'
  <2>1. /\ job'[p].cmd = job[p].cmd /\ \A q \in Callers \ {p} : job'[q] = job[q]
        /\ job[p].pc # "none"
    BY <1>19, Leading DEF Moves
  <2>2. pound' = pound /\ ve' = ve
    BY <1>19 DEF IncludeService, certs, files
  <2> QED BY <1>5, <2>1, <2>2, Placed
<1>20. ASSUME NEW p \in Callers, WriteDone(p)
      PROVE  PoundOK'
  <2>1. /\ job'[p].cmd = job[p].cmd /\ \A q \in Callers \ {p} : job'[q] = job[q]
        /\ job[p].pc # "none"
    BY <1>20, Leading DEF Moves
  <2>2. pound' = pound /\ ve' = ve
    BY <1>20 DEF WriteDone, certs, files
  <2> QED BY <1>5, <2>1, <2>2, Placed
<1>21. ASSUME NEW p \in Callers, Truncate(p)
      PROVE  PoundOK'
  <2>1. /\ job'[p].cmd = job[p].cmd /\ \A q \in Callers \ {p} : job'[q] = job[q]
        /\ job[p].pc # "none"
    BY <1>21, Leading DEF Moves
  <2>2. pound' = pound /\ ve' = ve
    BY <1>21 DEF Truncate, certs, files
  <2> QED BY <1>5, <2>1, <2>2, Placed
<1>22. ASSUME NEW p \in Callers, Fetch(p)
      PROVE  PoundOK'
  <2>1. /\ job'[p].cmd = job[p].cmd /\ \A q \in Callers \ {p} : job'[q] = job[q]
        /\ job[p].pc # "none"
    BY <1>22, Leading DEF Moves
  <2>2. pound' = pound /\ ve' = ve
    BY <1>22 DEF Fetch, certs, files
  <2> QED BY <1>5, <2>1, <2>2, Placed
<1>23. ASSUME NEW p \in Callers, AddOwn(p)
      PROVE  PoundOK'
  <2>1. /\ job'[p].cmd = job[p].cmd /\ \A q \in Callers \ {p} : job'[q] = job[q]
        /\ job[p].pc # "none"
    BY <1>23, Leading DEF Moves
  <2>2. pound' = pound /\ ve' = ve
    BY <1>23 DEF AddOwn, certs, files
  <2> QED BY <1>5, <2>1, <2>2, Placed
<1>24. ASSUME NEW p \in Callers, AddPeers(p)
      PROVE  PoundOK'
  <2>1. /\ job'[p].cmd = job[p].cmd /\ \A q \in Callers \ {p} : job'[q] = job[q]
        /\ job[p].pc # "none"
    BY <1>24, Leading DEF Moves
  <2>2. pound' = pound /\ ve' = ve
    BY <1>24 DEF AddPeers, certs, files
  <2> QED BY <1>5, <2>1, <2>2, Placed
<1>25. ASSUME NEW p \in Callers, Restart(p)
      PROVE  PoundOK'
  BY <1>25, <1>1, <1>2, <1>4, PoundRestart
<1>26. ASSUME NEW p \in Callers, NEW c \in Names, AcmeSkip(p, c)
      PROVE  PoundOK'
  <2>1. /\ job'[p].cmd = job[p].cmd /\ \A q \in Callers \ {p} : job'[q] = job[q]
        /\ job[p].pc # "none"
    BY <1>26, LeadingTo DEF Moves
  <2>2. pound' = pound /\ ve' = ve
    BY <1>26 DEF AcmeSkip, certs, files
  <2> QED BY <1>5, <2>1, <2>2, Placed
<1>27. ASSUME NEW p \in Callers, NEW c \in Names, AcmeDeploy(p, c)
      PROVE  PoundOK'
  <2>1. /\ job'[p].cmd = job[p].cmd /\ \A q \in Callers \ {p} : job'[q] = job[q]
        /\ job[p].pc # "none"
    BY <1>27, LeadingTo DEF Moves
  <2>2. pound' = pound /\ ve' = ve
    BY <1>27 DEF AcmeDeploy, certs, files
  <2> QED BY <1>5, <2>1, <2>2, Placed
<1>28. ASSUME NEW p \in Callers, NEW c \in Names, AcmeExit(p, c)
      PROVE  PoundOK'
  BY <1>28, <1>2, NoExit
<1>29. ASSUME NEW p \in Callers, NEW c \in Names, AcmeGet(p, c)
      PROVE  PoundOK'
  <2>1. /\ job'[p].cmd = job[p].cmd /\ \A q \in Callers \ {p} : job'[q] = job[q]
        /\ job[p].pc # "none"
    BY <1>29, LeadingTo DEF Moves
  <2>2. pound' = pound /\ ve' = ve
    BY <1>29 DEF AcmeGet, certs, files
  <2> QED BY <1>5, <2>1, <2>2, Placed
<1>30. ASSUME NEW p \in Callers, NEW c \in Names, WriteService(p, c)
      PROVE  PoundOK'
  <2>1. /\ job'[p].cmd = job[p].cmd /\ \A q \in Callers \ {p} : job'[q] = job[q]
        /\ job[p].pc # "none"
    BY <1>30, LeadingTo DEF Moves
  <2>2. pound' = pound /\ ve' = ve
    BY <1>30 DEF WriteService, certs, files
  <2> QED BY <1>5, <2>1, <2>2, Placed
<1>31. ASSUME NEW h \in Hosts, Crash(h)
      PROVE  PoundOK'
  BY <1>31, <1>2 DEF Crash, Reliable
<1>32. ASSUME Midnight
      PROVE  PoundOK'
  <2>1. pound' = pound /\ ve' = ve /\ job' = job
    BY <1>32 DEF Midnight
  <2> QED BY <1>1, <1>3, <1>4, <2>1, PoundSame
<1>33. ASSUME Net
      PROVE  PoundOK'
  <2>1. pound' = pound /\ ve' = ve /\ job' = job
    BY <1>33 DEF Net
  <2> QED BY <1>1, <1>3, <1>4, <2>1, PoundSame
<1>34. ASSUME UNCHANGED vars
      PROVE  PoundOK'
  <2>1. pound' = pound /\ ve' = ve /\ job' = job
    BY <1>34 DEF vars
  <2> QED BY <1>1, <1>3, <1>4, <2>1, PoundSame
<1> QED
  BY <1>6, <1>7, <1>8, <1>9, <1>10, <1>11, <1>12, <1>13, <1>14, <1>15, <1>16, <1>17,
     <1>18, <1>19, <1>20, <1>21, <1>22, <1>23, <1>24, <1>25, <1>26, <1>27, <1>28,
     <1>29, <1>30, <1>31, <1>32, <1>33, <1>34, Zenon
  DEF Next, Goes, Certificates, Files, Sync, Command, vars

-----------------------------------------------------------------------------
(* With one command after the other a day ends when it was stamped.        *)
LEMMA Alone ==
  ASSUME FilesOK, JobsOK, Dated, NEW p \in Callers, NEW q \in Callers,
         job[p].cmd # "none", job[q].cmd # "none"
  PROVE  p = q
  BY DEF JobsOK, Dated

LEMMA DatedReliable ==
  ASSUME Dated
  PROVE  Reliable /\ "crash" \notin env.faults /\ "le" \notin env.faults
  BY DEF Dated, Reliable

Stamped(p) == job[p].cmd = "regenerate" /\ job[p].pc \notin {"hosts", "stamp"}

LEMMA DaysSame ==
  ASSUME FilesOK, Dated, DaysOK, env' = env, stamp' = stamp, done' = done, day' = day,
         \A p \in Callers : job'[p].cmd # "none" =>
           \/ job'[p].today = day /\ ~Stamped(p)'
           \/ /\ job[p].cmd # "none" /\ job'[p].today = job[p].today
              /\ Stamped(p)' => Stamped(p)
  PROVE  DaysOK'
<1>1. \A p \in Callers : Stamped(p)' => stamp[At[p]] = job'[p].today
  BY DEF DaysOK, Stamped
<1>2. \A p \in Callers : job'[p].cmd # "none" /\ job'[p].today < day => ~done[At[p]]
  <2>1. ~(day < day)
    BY DEF FilesOK
  <2> QED BY <2>1 DEF DaysOK
<1> QED BY <1>1, <1>2 DEF DaysOK, Stamped

LEMMA DaysStamp ==
  ASSUME FilesOK, JobsOK, Dated, DaysOK, env' = env, NEW p \in Callers, Stamp(p)
  PROVE  DaysOK'
<1> DEFINE h == At[p]
<1>1. /\ job[p].pc = "stamp" /\ job[p].cmd = "regenerate" /\ job[p].today <= day
      /\ job[p].today \in 0 .. env.last
  <2>1. job[p].pc = "stamp"
    BY DEF Stamp, On
  <2> QED BY <2>1, Placed
<1>2. /\ job'[p].cmd = job[p].cmd /\ job'[p].today = job[p].today
      /\ \A q \in Callers \ {p} : job'[q] = job[q]
  BY Leading DEF Moves
<1>3. h \in Hosts /\ day' = day /\ done' = done /\ day \in Nat
  BY ConstantsAssumption DEF Stamp, times, FilesOK
<1>4. stamp' = [stamp EXCEPT ![h] = job[p].today]
  BY DEF Stamp, FilesOK
<1>5. \A q \in Callers \ {p} : job[q].cmd = "none"
  BY <1>1, Alone
<1>6. \A q \in Callers : job'[q].cmd = "regenerate" => stamp'[At[q]] = job'[q].today
  BY <1>2, <1>3, <1>4, <1>5 DEF FilesOK
<1>7. \A g \in Hosts : done[g] => stamp'[g] = day
  <2>1. done[h] => job[p].today = day
    BY <1>1, <1>3 DEF DaysOK
  <2> QED BY <1>3, <1>4, <2>1 DEF DaysOK, FilesOK
<1>8. \A q \in Callers : job'[q].cmd # "none" /\ job'[q].today < day => ~done[At[q]]
  BY <1>2, <1>5 DEF DaysOK
<1> QED BY <1>3, <1>6, <1>7, <1>8 DEF DaysOK

LEMMA DaysRestart ==
  ASSUME FilesOK, JobsOK, Dated, DaysOK, env' = env, NEW p \in Callers, Restart(p)
  PROVE  DaysOK'
<1> DEFINE h == At[p]
<1>1. /\ job[p].pc = "restart" /\ job[p].cmd # "none"
      /\ job'[p] = NoJob /\ \A q \in Callers \ {p} : job'[q] = job[q]
  <2>1. job[p].pc = "restart" /\ Leave(p)
    BY DEF Restart, On
  <2>2. job[p].cmd # "none"
    BY <2>1, Placed
  <2> QED BY <2>1, <2>2, JobsLeft DEF JobsOK, Leave
<1>2. \A q \in Callers : job'[q].cmd = "none"
  BY <1>1, Alone DEF NoJob
<1>3. \A g \in Hosts : done'[g] => stamp[g] = day
  <2>1. /\ h \in Hosts
        /\ done' = [done EXCEPT ![h] =
             @ \/ (env.daily /\ job[p].cmd = "regenerate" /\ job[p].today = day)]
    BY ConstantsAssumption DEF Restart
  <2>2. job[p].cmd = "regenerate" => stamp[h] = job[p].today
    BY <1>1 DEF DaysOK
  <2> QED BY <2>1, <2>2 DEF DaysOK, FilesOK
<1>4. stamp' = stamp /\ day' = day
  BY DEF Restart, certs
<1> QED BY <1>2, <1>3, <1>4 DEF DaysOK

LEMMA DaysKept ==
  ASSUME FilesOK, JobsOK, PoundOK, DaysOK, [Next]_vars
  PROVE  DaysOK'
<1>1. env' = env
  BY DEF Next, Goes, Again, vars
<1>2. SUFFICES ASSUME Dated
               PROVE  DaysOK'
  BY <1>1 DEF DaysOK, Dated, Disciplined
<1>3. Reliable /\ "crash" \notin env.faults
  BY <1>2, DatedReliable
<1> HIDE DEF DaysOK
<1>4. ASSUME NEW p \in Callers, NEW c \in Names, Add(p, c)
      PROVE  DaysOK'
  <2>1. Start(p, "add", c, FALSE)
    BY <1>4 DEF Add
  <2>2. /\ job'[p].today = day /\ ~Stamped(p)' /\ \A q \in Callers \ {p} : job'[q] = job[q]
    BY <2>1 DEF Start, First, JobsOK, Stamped, NoJob
  <2>3. stamp' = stamp /\ done' = done /\ day' = day
    BY <2>1 DEF Start, times
  <2> QED BY <1>1, <1>2, <2>2, <2>3, DaysSame DEF Stamped
<1>5. ASSUME NEW p \in Callers, NEW c \in Names, Remove(p, c)
      PROVE  DaysOK'
  <2>1. Start(p, "remove", c, FALSE)
    BY <1>5 DEF Remove
  <2>2. /\ job'[p].today = day /\ ~Stamped(p)' /\ \A q \in Callers \ {p} : job'[q] = job[q]
    BY <2>1 DEF Start, First, JobsOK, Stamped, NoJob
  <2>3. stamp' = stamp /\ done' = done /\ day' = day
    BY <2>1 DEF Start, times
  <2> QED BY <1>1, <1>2, <2>2, <2>3, DaysSame DEF Stamped
<1>6. ASSUME NEW p \in Callers, NEW c \in Names, Settings(p, c)
      PROVE  DaysOK'
  <2>1. Start(p, "settings", c, FALSE)
    BY <1>6 DEF Settings
  <2>2. /\ job'[p].today = day /\ ~Stamped(p)' /\ \A q \in Callers \ {p} : job'[q] = job[q]
    BY <2>1 DEF Start, First, JobsOK, Stamped, NoJob
  <2>3. stamp' = stamp /\ done' = done /\ day' = day
    BY <2>1 DEF Start, times
  <2> QED BY <1>1, <1>2, <2>2, <2>3, DaysSame DEF Stamped
<1>7. ASSUME NEW p \in Callers, NEW c \in Names, ImportCrt(p, c)
      PROVE  DaysOK'
  <2>1. Start(p, "import-crt", c, FALSE)
    BY <1>7 DEF ImportCrt
  <2>2. /\ job'[p].today = day /\ ~Stamped(p)' /\ \A q \in Callers \ {p} : job'[q] = job[q]
    BY <2>1 DEF Start, First, JobsOK, Stamped, NoJob
  <2>3. stamp' = stamp /\ done' = done /\ day' = day
    BY <2>1 DEF Start, times
  <2> QED BY <1>1, <1>2, <2>2, <2>3, DaysSame DEF Stamped
<1>8. ASSUME NEW p \in Callers, NEW all \in BOOLEAN, Regenerate(p, all)
      PROVE  DaysOK'
  <2>1. Start(p, "regenerate", NoJob.c, all)
    BY <1>8 DEF Regenerate
  <2>2. /\ job'[p].today = day /\ ~Stamped(p)' /\ \A q \in Callers \ {p} : job'[q] = job[q]
    BY <2>1 DEF Start, First, JobsOK, Stamped, NoJob
  <2>3. stamp' = stamp /\ done' = done /\ day' = day
    BY <2>1 DEF Start, times
  <2> QED BY <1>1, <1>2, <2>2, <2>3, DaysSame DEF Stamped
<1>9. ASSUME NEW p \in Callers, Diagnose(p)
      PROVE  DaysOK'
  <2>1. stamp' = stamp /\ done' = done /\ day' = day /\ job' = job
    BY <1>9 DEF Diagnose, times, certs
  <2> QED BY <1>1, <1>2, <2>1, DaysSame DEF Stamped
<1>10. ASSUME NEW p \in Callers, EtcHosts(p)
      PROVE  DaysOK'
  <2>1. \A q \in Callers : job'[q].cmd # "none" =>
          /\ job[q].cmd # "none" /\ job'[q].today = job[q].today
          /\ Stamped(q)' => Stamped(q)
    BY <1>10, Leading DEF Moves, Stamped
  <2>2. stamp' = stamp /\ done' = done /\ day' = day
    BY <1>10 DEF EtcHosts, certs, times
  <2> QED BY <1>1, <1>2, <2>1, <2>2, DaysSame
<1>11. ASSUME NEW p \in Callers, Stamp(p)
      PROVE  DaysOK'
  BY <1>11, <1>1, <1>2, DaysStamp
<1>12. ASSUME NEW p \in Callers, AcmeDone(p)
      PROVE  DaysOK'
  <2>1. \A q \in Callers : job'[q].cmd # "none" =>
          /\ job[q].cmd # "none" /\ job'[q].today = job[q].today
          /\ Stamped(q)' => Stamped(q)
    BY <1>12, Leading DEF Moves, Stamped
  <2>2. stamp' = stamp /\ done' = done /\ day' = day
    BY <1>12 DEF AcmeDone, certs, times
  <2> QED BY <1>1, <1>2, <2>1, <2>2, DaysSame
<1>13. ASSUME NEW p \in Callers, Deploy(p)
      PROVE  DaysOK'
  <2>1. \A q \in Callers : job'[q].cmd # "none" =>
          /\ job[q].cmd # "none" /\ job'[q].today = job[q].today
          /\ Stamped(q)' => Stamped(q)
    BY <1>13, Leading DEF Moves, Stamped
  <2>2. stamp' = stamp /\ done' = done /\ day' = day
    BY <1>13 DEF Deploy, certs, times
  <2> QED BY <1>1, <1>2, <2>1, <2>2, DaysSame
<1>14. ASSUME NEW p \in Callers, Import(p)
      PROVE  DaysOK'
  <2>1. \A q \in Callers : job'[q].cmd # "none" =>
          /\ job[q].cmd # "none" /\ job'[q].today = job[q].today
          /\ Stamped(q)' => Stamped(q)
    BY <1>14, Leading DEF Moves, Stamped
  <2>2. stamp' = stamp /\ done' = done /\ day' = day
    BY <1>14 DEF Import, certs, times
  <2> QED BY <1>1, <1>2, <2>1, <2>2, DaysSame
<1>15. ASSUME NEW p \in Callers, Wipe(p)
      PROVE  DaysOK'
  <2>1. \A q \in Callers : job'[q].cmd # "none" =>
          /\ job[q].cmd # "none" /\ job'[q].today = job[q].today
          /\ Stamped(q)' => Stamped(q)
    BY <1>15, Leading DEF Moves, Stamped
  <2>2. stamp' = stamp /\ done' = done /\ day' = day
    BY <1>15 DEF Wipe, certs, times
  <2> QED BY <1>1, <1>2, <2>1, <2>2, DaysSame
<1>16. ASSUME NEW p \in Callers, Header(p)
      PROVE  DaysOK'
  <2>1. \A q \in Callers : job'[q].cmd # "none" =>
          /\ job[q].cmd # "none" /\ job'[q].today = job[q].today
          /\ Stamped(q)' => Stamped(q)
    BY <1>16, Leading DEF Moves, Stamped
  <2>2. stamp' = stamp /\ done' = done /\ day' = day
    BY <1>16 DEF Header, certs, times
  <2> QED BY <1>1, <1>2, <2>1, <2>2, DaysSame
<1>17. ASSUME NEW p \in Callers, IncludeService(p)
      PROVE  DaysOK'
  <2>1. \A q \in Callers : job'[q].cmd # "none" =>
          /\ job[q].cmd # "none" /\ job'[q].today = job[q].today
          /\ Stamped(q)' => Stamped(q)
    BY <1>17, Leading DEF Moves, Stamped
  <2>2. stamp' = stamp /\ done' = done /\ day' = day
    BY <1>17 DEF IncludeService, certs, times
  <2> QED BY <1>1, <1>2, <2>1, <2>2, DaysSame
<1>18. ASSUME NEW p \in Callers, WriteDone(p)
      PROVE  DaysOK'
  <2>1. \A q \in Callers : job'[q].cmd # "none" =>
          /\ job[q].cmd # "none" /\ job'[q].today = job[q].today
          /\ Stamped(q)' => Stamped(q)
    BY <1>18, Leading DEF Moves, Stamped
  <2>2. stamp' = stamp /\ done' = done /\ day' = day
    BY <1>18 DEF WriteDone, certs, times
  <2> QED BY <1>1, <1>2, <2>1, <2>2, DaysSame
<1>19. ASSUME NEW p \in Callers, Truncate(p)
      PROVE  DaysOK'
  <2>1. \A q \in Callers : job'[q].cmd # "none" =>
          /\ job[q].cmd # "none" /\ job'[q].today = job[q].today
          /\ Stamped(q)' => Stamped(q)
    BY <1>19, Leading DEF Moves, Stamped
  <2>2. stamp' = stamp /\ done' = done /\ day' = day
    BY <1>19 DEF Truncate, certs, times
  <2> QED BY <1>1, <1>2, <2>1, <2>2, DaysSame
<1>20. ASSUME NEW p \in Callers, Fetch(p)
      PROVE  DaysOK'
  <2>1. \A q \in Callers : job'[q].cmd # "none" =>
          /\ job[q].cmd # "none" /\ job'[q].today = job[q].today
          /\ Stamped(q)' => Stamped(q)
    BY <1>20, Leading DEF Moves, Stamped
  <2>2. stamp' = stamp /\ done' = done /\ day' = day
    BY <1>20 DEF Fetch, certs, times
  <2> QED BY <1>1, <1>2, <2>1, <2>2, DaysSame
<1>21. ASSUME NEW p \in Callers, AddOwn(p)
      PROVE  DaysOK'
  <2>1. \A q \in Callers : job'[q].cmd # "none" =>
          /\ job[q].cmd # "none" /\ job'[q].today = job[q].today
          /\ Stamped(q)' => Stamped(q)
    BY <1>21, Leading DEF Moves, Stamped
  <2>2. stamp' = stamp /\ done' = done /\ day' = day
    BY <1>21 DEF AddOwn, certs, times
  <2> QED BY <1>1, <1>2, <2>1, <2>2, DaysSame
<1>22. ASSUME NEW p \in Callers, AddPeers(p)
      PROVE  DaysOK'
  <2>1. \A q \in Callers : job'[q].cmd # "none" =>
          /\ job[q].cmd # "none" /\ job'[q].today = job[q].today
          /\ Stamped(q)' => Stamped(q)
    BY <1>22, Leading DEF Moves, Stamped
  <2>2. stamp' = stamp /\ done' = done /\ day' = day
    BY <1>22 DEF AddPeers, certs, times
  <2> QED BY <1>1, <1>2, <2>1, <2>2, DaysSame
<1>23. ASSUME NEW p \in Callers, Restart(p)
      PROVE  DaysOK'
  BY <1>23, <1>1, <1>2, DaysRestart
<1>24. ASSUME NEW p \in Callers, NEW c \in Names, AcmeSkip(p, c)
      PROVE  DaysOK'
  <2>1. \A q \in Callers : job'[q].cmd # "none" =>
          /\ job[q].cmd # "none" /\ job'[q].today = job[q].today
          /\ Stamped(q)' => Stamped(q)
    BY <1>24, LeadingTo DEF Moves, Stamped
  <2>2. stamp' = stamp /\ done' = done /\ day' = day
    BY <1>24 DEF AcmeSkip, certs, times
  <2> QED BY <1>1, <1>2, <2>1, <2>2, DaysSame
<1>25. ASSUME NEW p \in Callers, NEW c \in Names, AcmeDeploy(p, c)
      PROVE  DaysOK'
  <2>1. \A q \in Callers : job'[q].cmd # "none" =>
          /\ job[q].cmd # "none" /\ job'[q].today = job[q].today
          /\ Stamped(q)' => Stamped(q)
    BY <1>25, LeadingTo DEF Moves, Stamped
  <2>2. stamp' = stamp /\ done' = done /\ day' = day
    BY <1>25 DEF AcmeDeploy, certs, times
  <2> QED BY <1>1, <1>2, <2>1, <2>2, DaysSame
<1>26. ASSUME NEW p \in Callers, NEW c \in Names, AcmeExit(p, c)
      PROVE  DaysOK'
  BY <1>26, <1>3, NoExit
<1>27. ASSUME NEW p \in Callers, NEW c \in Names, AcmeGet(p, c)
      PROVE  DaysOK'
  <2>1. \A q \in Callers : job'[q].cmd # "none" =>
          /\ job[q].cmd # "none" /\ job'[q].today = job[q].today
          /\ Stamped(q)' => Stamped(q)
    BY <1>27, LeadingTo DEF Moves, Stamped
  <2>2. stamp' = stamp /\ done' = done /\ day' = day
    BY <1>27 DEF AcmeGet, certs, times
  <2> QED BY <1>1, <1>2, <2>1, <2>2, DaysSame
<1>28. ASSUME NEW p \in Callers, NEW c \in Names, WriteService(p, c)
      PROVE  DaysOK'
  <2>1. \A q \in Callers : job'[q].cmd # "none" =>
          /\ job[q].cmd # "none" /\ job'[q].today = job[q].today
          /\ Stamped(q)' => Stamped(q)
    BY <1>28, LeadingTo DEF Moves, Stamped
  <2>2. stamp' = stamp /\ done' = done /\ day' = day
    BY <1>28 DEF WriteService, certs, times
  <2> QED BY <1>1, <1>2, <2>1, <2>2, DaysSame
<1>29. ASSUME NEW h \in Hosts, Crash(h)
      PROVE  DaysOK'
  BY <1>29, <1>3 DEF Crash
<1>30. ASSUME Midnight
      PROVE  DaysOK'
  <2>1. /\ stamp' = stamp /\ job' = job /\ done' = [h \in Hosts |-> FALSE]
    BY <1>30 DEF Midnight, certs
  <2>2. \A p \in Callers : At[p] \in Hosts
    BY ConstantsAssumption
  <2> QED BY <1>2, <2>1, <2>2 DEF DaysOK
<1>31. ASSUME Net
      PROVE  DaysOK'
  <2>1. stamp' = stamp /\ done' = done /\ day' = day /\ job' = job
    BY <1>31 DEF Net, times, certs
  <2> QED BY <1>1, <1>2, <2>1, DaysSame DEF Stamped
<1>32. ASSUME UNCHANGED vars
      PROVE  DaysOK'
  <2>1. stamp' = stamp /\ done' = done /\ day' = day /\ job' = job
    BY <1>32 DEF vars
  <2> QED BY <1>1, <1>2, <2>1, DaysSame DEF Stamped
<1> QED
  BY <1>4, <1>5, <1>6, <1>7, <1>8, <1>9, <1>10, <1>11, <1>12, <1>13, <1>14, <1>15,
     <1>16, <1>17, <1>18, <1>19, <1>20, <1>21, <1>22, <1>23, <1>24, <1>25, <1>26,
     <1>27, <1>28, <1>29, <1>30, <1>31, <1>32, Zenon
  DEF Next, Goes, Certificates, Files, Sync, Command, vars

-----------------------------------------------------------------------------
(* The certificates of one container.                                      *)
Dates(c) == LET h == Home[c] IN
  /\ Lasting(pem[c], h, ~Getting(h, c))
  /\ \A p \in Callers : job[p].pc = "deploy" /\ job[p].c = c =>
       le[c] # NoCert /\ Lasting(le[c], h, TRUE)
  /\ Lasting(dir[h][h].has[c].cert, h, Built(h))
  /\ Lasting(pound[h].reads[c].cert, h, FALSE)

(* A certificate that is not due, or that is none.                         *)
Fresh(x) == Good(x, day + Margin)

LEMMA FreshLasts ==
  ASSUME FilesOK, NEW x \in -1 .. env.last + Life, Fresh(x), NEW h, NEW w
  PROVE  Lasting(x, h, w)
<1>1. day \in Nat /\ Margin \in Nat \ {0} /\ env.last + Life \in Nat
  BY ConstantsAssumption DEF FilesOK, Env
<1> QED BY <1>1 DEF Fresh, Lasting, Good

LEMMA LastsFresh ==
  ASSUME FilesOK, NEW x, Lasts(x)
  PROVE  Fresh(x) /\ x # NoCert
<1>1. day \in Nat /\ Margin \in Nat
  BY ConstantsAssumption DEF FilesOK
<1> QED BY <1>1 DEF Lasts, Fresh, Good, NoCert

LEMMA NoneFresh == Fresh(NoCert) /\ Fresh(Broken)
  BY DEF Fresh, Good

LEMMA NewFresh ==
  ASSUME FilesOK
  PROVE  Fresh(day + Life) /\ day + Life # NoCert
  BY ConstantsAssumption DEF FilesOK, Fresh, Good, NoCert

LEMMA CertTypes ==
  ASSUME FilesOK, NEW c \in Names
  PROVE  /\ pem[c] \in -1 .. env.last + Life /\ le[c] \in -1 .. env.last + Life
         /\ \A h, d \in Hosts : dir[h][d].has[c].cert \in -1 .. env.last + Life
         /\ \A h \in Hosts : pound[h].reads[c].cert \in -1 .. env.last + Life
<1>1. env.last + Life \in Nat
  BY ConstantsAssumption DEF FilesOK, Env
<1>2. pem[c] \in -1 .. env.last + Life /\ le[c] \in -1 .. env.last + Life
  BY <1>1 DEF FilesOK
<1>3. \A h, d \in Hosts : dir[h][d].has \in [Names -> Service]
  BY Dirs
<1>4. \A h \in Hosts : pound[h].reads \in [Names -> Service]
  BY DEF FilesOK
<1> QED BY <1>2, <1>3, <1>4 DEF Service

(* A step after which each certificate is as before, or lasts.             *)
LEMMA DatesSame ==
  ASSUME FilesOK, FilesOK', NEW c \in Names, Dates(c), env' = env, day' = day,
         stamp'[Home[c]] = stamp[Home[c]], done'[Home[c]] = done[Home[c]],
         \/ Fresh(pem'[c]) \/ Lasting(pem'[c], Home[c], TRUE)
         \/ pem'[c] = pem[c] /\ (Getting(Home[c], c) => Getting(Home[c], c)'),
         \A p \in Callers : job'[p].pc = "deploy" /\ job'[p].c = c =>
           \/ job[p].pc = "deploy" /\ job[p].c = c /\ le'[c] = le[c]
           \/ Fresh(le'[c]) /\ le'[c] # NoCert,
         LET D(x) == x[Home[c]][Home[c]].has[c].cert IN
         \/ Fresh(D(dir')) \/ Lasting(D(dir'), Home[c], TRUE)
         \/ D(dir') = D(dir) /\ (Built(Home[c])' => Built(Home[c])),
         \/ Fresh(pound'[Home[c]].reads[c].cert)
         \/ pound'[Home[c]].reads[c].cert = pound[Home[c]].reads[c].cert
  PROVE  Dates(c)'
<1> DEFINE h == Home[c]
<1>1. h \in Hosts
  BY ConstantsAssumption
<1>2. \A x \in -1 .. env.last + Life : \A w : Fresh(x) => Lasting(x, h, w)
  BY FreshLasts
<1>3. /\ pem'[c] \in -1 .. env.last + Life /\ le'[c] \in -1 .. env.last + Life
      /\ dir'[h][h].has[c].cert \in -1 .. env.last + Life
      /\ pound'[h].reads[c].cert \in -1 .. env.last + Life
  <2>1. env.last + Life \in Nat
    BY ConstantsAssumption DEF FilesOK, Env
  <2>2. pem'[c] \in -1 .. env.last + Life /\ le'[c] \in -1 .. env.last + Life
    BY <2>1 DEF FilesOK
  <2>3. dir'[h][h] \in Directory' /\ pound'[h].reads \in [Names -> Service']
    BY <1>1 DEF FilesOK
  <2> QED BY <2>2, <2>3 DEF Directory, Service
<1>4. \A x, w : Lasting(x, h, w)' <=> Lasting(x, h, w)
  BY DEF Lasting
<1>5. Lasting(pem'[c], h, ~Getting(h, c)')
  BY <1>2, <1>3 DEF Dates, Lasting
<1>6. \A p \in Callers : job'[p].pc = "deploy" /\ job'[p].c = c =>
        le'[c] # NoCert /\ Lasting(le'[c], h, TRUE)
  BY <1>2, <1>3 DEF Dates
<1>7. Lasting(dir'[h][h].has[c].cert, h, Built(h)')
  BY <1>2, <1>3 DEF Dates, Lasting
<1>8. Lasting(pound'[h].reads[c].cert, h, FALSE)
  BY <1>2, <1>3 DEF Dates
<1> QED BY <1>5, <1>6, <1>7, <1>8 DEF Dates, Lasting

LEMMA DatesStamp ==
  ASSUME FilesOK, FilesOK', JobsOK, Dated, CertsOK, NEW c \in Names, Dates(c), env' = env,
         NEW p \in Callers, Stamp(p)
  PROVE  Dates(c)'
<1> DEFINE h == Home[c]
<1>1. /\ job[p].pc = "stamp" /\ job[p].cmd # "none"
      /\ pem' = pem /\ le' = le /\ dir' = dir /\ pound' = pound /\ day' = day /\ done' = done
      /\ h \in Hosts /\ At[p] \in Hosts
  <2>1. job[p].pc = "stamp"
    BY DEF Stamp, On
  <2> QED BY <2>1, Placed, ConstantsAssumption DEF Stamp, files, times
<1>2. /\ \A q \in Callers \ {p} : job'[q] = job[q] /\ job[q].pc = "none"
      /\ job'[p].cmd = job[p].cmd
      /\ \/ job'[p].pc = "wipe" /\ stamp' = stamp
         \/ /\ job'[p].pc = "acme" /\ job'[p].todo = Own(At[p])
            /\ stamp' = [stamp EXCEPT ![At[p]] = job[p].today]
  <2>1. \A q \in Callers \ {p} : job[q].pc = "none"
    BY <1>1, Alone, Placed
  <2>2. \/ Moves(p, "wipe", job[p].todo, job[p].c) /\ stamp' = stamp
        \/ Moves(p, "acme", Own(At[p]), NoJob.c) /\ stamp' = [stamp EXCEPT ![At[p]] = job[p].today]
    <3>1. Own(At[p]) \in SUBSET Names
      BY DEF Own
    <3> QED BY <3>1, Going DEF Stamp, PlaceNames
  <2> QED BY <2>1, <2>2 DEF Moves
<1>3. ~Getting(h, c) /\ ~Built(h)'
  BY <1>1, <1>2 DEF Getting, Built, At1, Build, Link
<1>4. \A q \in Callers : job'[q].pc # "deploy"
  BY <1>2
<1>5. CASE stamp'[h] = stamp[h]
  BY <1>1, <1>3, <1>4, <1>5, DatesSame
<1>6. CASE stamp'[h] # stamp[h]
  <2>1. h = At[p] /\ job'[p].pc = "acme" /\ job'[p].todo = Own(h) /\ job[p].cmd = "regenerate"
    BY <1>1, <1>2, <1>6, Placed DEF FilesOK
  <2>2. CASE c \in Own(h)
    <3>1. Getting(h, c)'
      BY <1>2, <2>1, <2>2 DEF Getting, At1
    <3> QED BY <1>1, <1>3, <1>4, <3>1 DEF Dates, Lasting
  <2>3. CASE c \notin Own(h)
    <3>1. pem'[c] = NoCert
      BY <1>1, <2>3, DatedReliable DEF Own, CertsOK
    <3> QED BY <1>1, <1>3, <1>4, <3>1 DEF Dates, Lasting, Good
  <2> QED BY <2>2, <2>3
<1> QED BY <1>5, <1>6

LEMMA DatesRestart ==
  ASSUME FilesOK, FilesOK', JobsOK, Dated, DaysOK, NEW c \in Names, Dates(c), env' = env,
         NEW p \in Callers, Restart(p)
  PROVE  Dates(c)'
<1> DEFINE h == Home[c]
           D == dir[h][h].has[c].cert
<1>1. /\ job[p].pc = "restart" /\ job[p].cmd # "none"
      /\ job'[p] = NoJob /\ \A q \in Callers \ {p} : job'[q] = job[q]
  <2>1. job[p].pc = "restart" /\ Leave(p)
    BY DEF Restart, On
  <2>2. job[p].cmd # "none"
    BY <2>1, Placed
  <2> QED BY <2>1, <2>2, JobsLeft DEF JobsOK, Leave
<1>2. /\ pem' = pem /\ le' = le /\ dir' = dir /\ day' = day /\ stamp' = stamp
      /\ h \in Hosts /\ At[p] \in Hosts /\ day \in Nat /\ Margin \in Nat \ {0}
  BY ConstantsAssumption DEF Restart, certs, files, FilesOK
<1>3. \A q \in Callers \ {p} : job[q].pc = "none"
  BY <1>1, Alone, Placed
<1>4. ~Getting(h, c) /\ ~Built(h)' /\ \A q \in Callers : job'[q].pc # "deploy"
  BY <1>1, <1>3 DEF Getting, Built, At1, NoJob, Build, Link
<1>5. CASE h # At[p]
  <2>1. done'[h] = done[h] /\ pound'[h] = pound[h]
    BY <1>2, <1>5 DEF Restart, FilesOK
  <2> QED BY <1>2, <1>4, <2>1, DatesSame
<1>6. CASE h = At[p]
  <2>1. pound'[h].reads[c].cert \in {D, NoCert}
    <3>1. pound'[h] = Down \/ pound'[h] = [up |-> TRUE, reads |-> Reads(h)]
      BY <1>2, <1>6 DEF Restart, FilesOK
    <3>2. Reads(h)[c] \in {dir[h][h].has[c], NoService}
      BY <1>2, Reading DEF Mine
    <3>3. CASE pound'[h] = Down
      <4>1. pound'[h].reads[c] = NoService
        BY <1>2, <3>3 DEF Down
      <4> QED BY <4>1 DEF NoService
    <3>4. CASE pound'[h] = [up |-> TRUE, reads |-> Reads(h)]
      <4>1. pound'[h].reads[c] \in {dir[h][h].has[c], NoService}
        BY <3>2, <3>4
      <4>2. NoService.cert = NoCert
        BY DEF NoService
      <4> HIDE DEF NoService
      <4> QED BY <4>1, <4>2
    <3> QED BY <3>1, <3>3, <3>4
  <2>2. CASE done'[h] = done[h]
    BY <1>2, <1>4, <2>1, <2>2 DEF Dates, Lasting, Good
  <2>3. CASE done'[h] # done[h]
    <3>1. job[p].cmd = "regenerate" /\ job[p].today = day
      BY <1>2, <1>6, <2>3 DEF Restart, FilesOK
    <3>2. stamp[h] = day
      BY <1>1, <1>6, <3>1 DEF DaysOK
    <3>3. Built(h)
      BY <1>1, <1>6, <3>1 DEF Built, At1, Link
    <3>4. Good(pem[c], day + Margin) /\ Good(D, day + Margin) /\ Good(pound'[h].reads[c].cert, day + Margin)
      BY <1>4, <2>1, <3>2, <3>3 DEF Dates, Lasting, Good
    <3>5. \A x \in {pem[c], D, pound'[h].reads[c].cert} : Good(x, day) /\ Good(x, day + 1)
      <4>1. /\ pem[c] \in -1 .. env.last + Life /\ D \in -1 .. env.last + Life
            /\ env.last + Life \in Nat
        BY <1>2, CertTypes, ConstantsAssumption DEF FilesOK, Env
      <4>2. pound'[h].reads[c].cert \in Int
        <5>1. D \in Int /\ NoCert \in Int
          BY <4>1 DEF NoCert
        <5> HIDE DEF D
        <5> QED BY <2>1, <5>1
      <4> QED BY <1>2, <3>4, <4>1, <4>2 DEF Good
    <3> QED BY <1>2, <1>4, <3>4, <3>5 DEF Dates, Lasting
  <2> QED BY <2>2, <2>3
<1> QED BY <1>5, <1>6

LEMMA DatesMidnight ==
  ASSUME FilesOK, Dated, DaysOK, NEW c \in Names, Dates(c), Midnight
  PROVE  Dates(c)'
<1> DEFINE h == Home[c]
<1>1. /\ pem' = pem /\ le' = le /\ dir' = dir /\ pound' = pound /\ job' = job /\ stamp' = stamp
      /\ day' = day + 1 /\ ~done'[h] /\ done[h] /\ h \in Hosts /\ day \in Nat
  BY ConstantsAssumption DEF Midnight, certs, files, FilesOK, Dated
<1>2. stamp'[h] # day'
  BY <1>1 DEF DaysOK, FilesOK
<1>3. \A x, w : Lasting(x, h, w) => \A v : Lasting(x, h, v)'
  BY <1>1, <1>2 DEF Lasting
<1>4. \A q \in Callers : job'[q].pc = "deploy" /\ job'[q].c = c => le'[c] # NoCert /\ Lasting(le[c], h, TRUE)'
  BY <1>1, <1>3 DEF Dates
<1> QED BY <1>1, <1>3, <1>4 DEF Dates

LEMMA DatesKept ==
  ASSUME FilesOK, JobsOK, CertsOK, PoundOK, DaysOK, DatesOK, [Next]_vars
  PROVE  DatesOK'
<1>1. env' = env
  BY DEF Next, Goes, Again, vars
<1>2. FilesOK'
  BY FilesKept
<1>3. SUFFICES ASSUME Dated
               PROVE  DatesOK'
  BY <1>1 DEF DatesOK, Dated, Disciplined
<1>4. Reliable /\ "crash" \notin env.faults /\ "le" \notin env.faults
  BY <1>3, DatedReliable
<1>5. env.acme \subseteq Names /\ \A k \in env.acme : Dates(k) /\ Home[k] \in Hosts
  BY <1>3, ConstantsAssumption DEF DatesOK, Dates, FilesOK, Env
<1>6. \A p \in Callers : At[p] \in Hosts
  BY ConstantsAssumption
<1>7. ASSUME \A k \in env.acme : Dates(k)'
      PROVE  DatesOK'
  BY <1>1, <1>7 DEF DatesOK, Dates
<1> HIDE DEF DatesOK, Dates
<1>8. ASSUME NEW p \in Callers, NEW c \in Names, Add(p, c)
      PROVE  DatesOK'
  <2> SUFFICES ASSUME NEW k \in env.acme
               PROVE  Dates(k)'
    BY <1>7
  <2>6. Start(p, "add", c, FALSE)
    BY <1>8 DEF Add
  <2>7. /\ \A q \in Callers \ {p} : job'[q] = job[q]
        /\ job[p].cmd = "none" /\ job'[p].pc \in {"hosts", "wipe", "import"}
    BY <2>6 DEF Start, First, JobsOK
  <2>8. job[p].pc = "none"
    BY <2>7, Placed
  <2>1. day' = day /\ stamp' = stamp /\ done' = done
    BY <1>8 DEF Add, Start, certs, times
  <2>2. \/ Fresh(pem'[k]) \/ Lasting(pem'[k], Home[k], TRUE)
        \/ pem'[k] = pem[k] /\ (Getting(Home[k], k) => Getting(Home[k], k)')
    <3>1. pem'[k] \in {pem[k], NoCert}
      BY <1>8, <1>5 DEF Add, FilesOK
    <3>2. Getting(Home[k], k) => Getting(Home[k], k)'
      BY <2>7, <2>8 DEF Getting, At1
    <3> QED BY <3>1, <3>2, NoneFresh
  <2>3. \A q \in Callers : job'[q].pc = "deploy" /\ job'[q].c = k =>
          \/ job[q].pc = "deploy" /\ job[q].c = k /\ le'[k] = le[k]
          \/ Fresh(le'[k]) /\ le'[k] # NoCert
    BY <2>6, <2>7 DEF Start
  <2>4. \/ Fresh(dir'[Home[k]][Home[k]].has[k].cert)
        \/ Lasting(dir'[Home[k]][Home[k]].has[k].cert, Home[k], TRUE)
        \/ /\ dir'[Home[k]][Home[k]].has[k].cert = dir[Home[k]][Home[k]].has[k].cert
           /\ Built(Home[k])' => Built(Home[k])
    BY <2>6, <2>7 DEF Start, files, Built, At1, Build, Link
  <2>5. pound'[Home[k]].reads[k].cert = pound[Home[k]].reads[k].cert
    BY <2>6 DEF Start
  <2> QED BY <1>1, <1>2, <1>5, <2>1, <2>2, <2>3, <2>4, <2>5, DatesSame
<1>9. ASSUME NEW p \in Callers, NEW c \in Names, Remove(p, c)
      PROVE  DatesOK'
  <2> SUFFICES ASSUME NEW k \in env.acme
               PROVE  Dates(k)'
    BY <1>7
  <2>6. Start(p, "remove", c, FALSE)
    BY <1>9 DEF Remove
  <2>7. /\ \A q \in Callers \ {p} : job'[q] = job[q]
        /\ job[p].cmd = "none" /\ job'[p].pc \in {"hosts", "wipe", "import"}
    BY <2>6 DEF Start, First, JobsOK
  <2>8. job[p].pc = "none"
    BY <2>7, Placed
  <2>1. day' = day /\ stamp' = stamp /\ done' = done
    BY <1>9 DEF Remove, Start, certs, times
  <2>2. \/ Fresh(pem'[k]) \/ Lasting(pem'[k], Home[k], TRUE)
        \/ pem'[k] = pem[k] /\ (Getting(Home[k], k) => Getting(Home[k], k)')
    <3>1. pem'[k] \in {pem[k], NoCert}
      BY <1>9, <1>5 DEF Remove, FilesOK
    <3>2. Getting(Home[k], k) => Getting(Home[k], k)'
      BY <2>7, <2>8 DEF Getting, At1
    <3> QED BY <3>1, <3>2, NoneFresh
  <2>3. \A q \in Callers : job'[q].pc = "deploy" /\ job'[q].c = k =>
          \/ job[q].pc = "deploy" /\ job[q].c = k /\ le'[k] = le[k]
          \/ Fresh(le'[k]) /\ le'[k] # NoCert
    BY <2>6, <2>7 DEF Start
  <2>4. \/ Fresh(dir'[Home[k]][Home[k]].has[k].cert)
        \/ Lasting(dir'[Home[k]][Home[k]].has[k].cert, Home[k], TRUE)
        \/ /\ dir'[Home[k]][Home[k]].has[k].cert = dir[Home[k]][Home[k]].has[k].cert
           /\ Built(Home[k])' => Built(Home[k])
    BY <2>6, <2>7 DEF Start, files, Built, At1, Build, Link
  <2>5. pound'[Home[k]].reads[k].cert = pound[Home[k]].reads[k].cert
    BY <2>6 DEF Start
  <2> QED BY <1>1, <1>2, <1>5, <2>1, <2>2, <2>3, <2>4, <2>5, DatesSame
<1>10. ASSUME NEW p \in Callers, NEW c \in Names, Settings(p, c)
      PROVE  DatesOK'
  <2> SUFFICES ASSUME NEW k \in env.acme
               PROVE  Dates(k)'
    BY <1>7
  <2>6. Start(p, "settings", c, FALSE)
    BY <1>10 DEF Settings
  <2>7. /\ \A q \in Callers \ {p} : job'[q] = job[q]
        /\ job[p].cmd = "none" /\ job'[p].pc \in {"hosts", "wipe", "import"}
    BY <2>6 DEF Start, First, JobsOK
  <2>8. job[p].pc = "none"
    BY <2>7, Placed
  <2>1. day' = day /\ stamp' = stamp /\ done' = done
    BY <1>10 DEF Settings, Start, certs, times
  <2>2. \/ Fresh(pem'[k]) \/ Lasting(pem'[k], Home[k], TRUE)
        \/ pem'[k] = pem[k] /\ (Getting(Home[k], k) => Getting(Home[k], k)')
    <3>1. pem'[k] \in {pem[k], NoCert}
      BY <1>10, <1>5 DEF Settings, FilesOK
    <3>2. Getting(Home[k], k) => Getting(Home[k], k)'
      BY <2>7, <2>8 DEF Getting, At1
    <3> QED BY <3>1, <3>2, NoneFresh
  <2>3. \A q \in Callers : job'[q].pc = "deploy" /\ job'[q].c = k =>
          \/ job[q].pc = "deploy" /\ job[q].c = k /\ le'[k] = le[k]
          \/ Fresh(le'[k]) /\ le'[k] # NoCert
    BY <2>6, <2>7 DEF Start
  <2>4. \/ Fresh(dir'[Home[k]][Home[k]].has[k].cert)
        \/ Lasting(dir'[Home[k]][Home[k]].has[k].cert, Home[k], TRUE)
        \/ /\ dir'[Home[k]][Home[k]].has[k].cert = dir[Home[k]][Home[k]].has[k].cert
           /\ Built(Home[k])' => Built(Home[k])
    BY <2>6, <2>7 DEF Start, files, Built, At1, Build, Link
  <2>5. pound'[Home[k]].reads[k].cert = pound[Home[k]].reads[k].cert
    BY <2>6 DEF Start
  <2> QED BY <1>1, <1>2, <1>5, <2>1, <2>2, <2>3, <2>4, <2>5, DatesSame
<1>11. ASSUME NEW p \in Callers, NEW c \in Names, ImportCrt(p, c)
      PROVE  DatesOK'
  <2> SUFFICES ASSUME NEW k \in env.acme
               PROVE  Dates(k)'
    BY <1>7
  <2>6. Start(p, "import-crt", c, FALSE)
    BY <1>11 DEF ImportCrt
  <2>7. /\ \A q \in Callers \ {p} : job'[q] = job[q]
        /\ job[p].cmd = "none" /\ job'[p].pc \in {"hosts", "wipe", "import"}
    BY <2>6 DEF Start, First, JobsOK
  <2>8. job[p].pc = "none"
    BY <2>7, Placed
  <2>1. day' = day /\ stamp' = stamp /\ done' = done
    BY <1>11 DEF ImportCrt, Start, certs, times
  <2>2. \/ Fresh(pem'[k]) \/ Lasting(pem'[k], Home[k], TRUE)
        \/ pem'[k] = pem[k] /\ (Getting(Home[k], k) => Getting(Home[k], k)')
    <3>1. pem'[k] \in {pem[k], NoCert}
      BY <1>11, <1>5 DEF ImportCrt, FilesOK
    <3>2. Getting(Home[k], k) => Getting(Home[k], k)'
      BY <2>7, <2>8 DEF Getting, At1
    <3> QED BY <3>1, <3>2, NoneFresh
  <2>3. \A q \in Callers : job'[q].pc = "deploy" /\ job'[q].c = k =>
          \/ job[q].pc = "deploy" /\ job[q].c = k /\ le'[k] = le[k]
          \/ Fresh(le'[k]) /\ le'[k] # NoCert
    BY <2>6, <2>7 DEF Start
  <2>4. \/ Fresh(dir'[Home[k]][Home[k]].has[k].cert)
        \/ Lasting(dir'[Home[k]][Home[k]].has[k].cert, Home[k], TRUE)
        \/ /\ dir'[Home[k]][Home[k]].has[k].cert = dir[Home[k]][Home[k]].has[k].cert
           /\ Built(Home[k])' => Built(Home[k])
    BY <2>6, <2>7 DEF Start, files, Built, At1, Build, Link
  <2>5. pound'[Home[k]].reads[k].cert = pound[Home[k]].reads[k].cert
    BY <2>6 DEF Start
  <2> QED BY <1>1, <1>2, <1>5, <2>1, <2>2, <2>3, <2>4, <2>5, DatesSame
<1>12. ASSUME NEW p \in Callers, NEW all \in BOOLEAN, Regenerate(p, all)
      PROVE  DatesOK'
  <2> SUFFICES ASSUME NEW k \in env.acme
               PROVE  Dates(k)'
    BY <1>7
  <2>6. Start(p, "regenerate", NoJob.c, all)
    BY <1>12 DEF Regenerate
  <2>7. /\ \A q \in Callers \ {p} : job'[q] = job[q]
        /\ job[p].cmd = "none" /\ job'[p].pc \in {"hosts", "wipe", "import"}
    BY <2>6 DEF Start, First, JobsOK
  <2>8. job[p].pc = "none"
    BY <2>7, Placed
  <2>1. day' = day /\ stamp' = stamp /\ done' = done
    BY <1>12 DEF Regenerate, Start, certs, times
  <2>2. \/ Fresh(pem'[k]) \/ Lasting(pem'[k], Home[k], TRUE)
        \/ pem'[k] = pem[k] /\ (Getting(Home[k], k) => Getting(Home[k], k)')
    <3>1. pem'[k] \in {pem[k], NoCert}
      BY <1>12, <1>5 DEF Regenerate, FilesOK
    <3>2. Getting(Home[k], k) => Getting(Home[k], k)'
      BY <2>7, <2>8 DEF Getting, At1
    <3> QED BY <3>1, <3>2, NoneFresh
  <2>3. \A q \in Callers : job'[q].pc = "deploy" /\ job'[q].c = k =>
          \/ job[q].pc = "deploy" /\ job[q].c = k /\ le'[k] = le[k]
          \/ Fresh(le'[k]) /\ le'[k] # NoCert
    BY <2>6, <2>7 DEF Start
  <2>4. \/ Fresh(dir'[Home[k]][Home[k]].has[k].cert)
        \/ Lasting(dir'[Home[k]][Home[k]].has[k].cert, Home[k], TRUE)
        \/ /\ dir'[Home[k]][Home[k]].has[k].cert = dir[Home[k]][Home[k]].has[k].cert
           /\ Built(Home[k])' => Built(Home[k])
    BY <2>6, <2>7 DEF Start, files, Built, At1, Build, Link
  <2>5. pound'[Home[k]].reads[k].cert = pound[Home[k]].reads[k].cert
    BY <2>6 DEF Start
  <2> QED BY <1>1, <1>2, <1>5, <2>1, <2>2, <2>3, <2>4, <2>5, DatesSame
<1>13. ASSUME NEW p \in Callers, Diagnose(p)
      PROVE  DatesOK'
  <2> SUFFICES ASSUME NEW k \in env.acme
               PROVE  Dates(k)'
    BY <1>7
  <2>1. day' = day /\ stamp' = stamp /\ done' = done
    BY <1>13 DEF Diagnose, certs, times
  <2>2. \/ Fresh(pem'[k]) \/ Lasting(pem'[k], Home[k], TRUE)
        \/ pem'[k] = pem[k] /\ (Getting(Home[k], k) => Getting(Home[k], k)')
    <3>1. pem'[k] \in {pem[k], NoCert} /\ job' = job
      BY <1>13, <1>5 DEF Diagnose
    <3> QED BY <3>1, NoneFresh DEF Getting, At1
  <2>3. \A q \in Callers : job'[q].pc = "deploy" /\ job'[q].c = k =>
          \/ job[q].pc = "deploy" /\ job[q].c = k /\ le'[k] = le[k]
          \/ Fresh(le'[k]) /\ le'[k] # NoCert
    BY <1>13 DEF Diagnose
  <2>4. \/ Fresh(dir'[Home[k]][Home[k]].has[k].cert)
        \/ Lasting(dir'[Home[k]][Home[k]].has[k].cert, Home[k], TRUE)
        \/ /\ dir'[Home[k]][Home[k]].has[k].cert = dir[Home[k]][Home[k]].has[k].cert
           /\ Built(Home[k])' => Built(Home[k])
    BY <1>13 DEF Diagnose, files, Built, At1
  <2>5. pound'[Home[k]].reads[k].cert = pound[Home[k]].reads[k].cert
    BY <1>13 DEF Diagnose
  <2> QED BY <1>1, <1>2, <1>5, <2>1, <2>2, <2>3, <2>4, <2>5, DatesSame
<1>14. ASSUME NEW p \in Callers, EtcHosts(p)
      PROVE  DatesOK'
  <2> SUFFICES ASSUME NEW k \in env.acme
               PROVE  Dates(k)'
    BY <1>7
  <2>1. day' = day /\ stamp' = stamp /\ done' = done
    BY <1>14 DEF EtcHosts, certs, times
  <2>2. \/ Fresh(pem'[k]) \/ Lasting(pem'[k], Home[k], TRUE)
        \/ pem'[k] = pem[k] /\ (Getting(Home[k], k) => Getting(Home[k], k)')
    <3>1. pem' = pem
      BY <1>14 DEF EtcHosts, certs
    <3>2. Getting(Home[k], k) => Getting(Home[k], k)'
      BY <1>14, Leading, Untaken
    <3> QED BY <3>1, <3>2
  <2>3. \A q \in Callers : job'[q].pc = "deploy" /\ job'[q].c = k =>
          \/ job[q].pc = "deploy" /\ job[q].c = k /\ le'[k] = le[k]
          \/ Fresh(le'[k]) /\ le'[k] # NoCert
    <3>1. le' = le
      BY <1>14 DEF EtcHosts, certs
    <3>2. \A q \in Callers : job'[q].pc = "deploy" => job[q].pc = "deploy" /\ job'[q].c = job[q].c
      BY <1>14, Leading, Undeployed
    <3> QED BY <3>1, <3>2
  <2>4. \/ Fresh(dir'[Home[k]][Home[k]].has[k].cert)
        \/ Lasting(dir'[Home[k]][Home[k]].has[k].cert, Home[k], TRUE)
        \/ /\ dir'[Home[k]][Home[k]].has[k].cert = dir[Home[k]][Home[k]].has[k].cert
           /\ Built(Home[k])' => Built(Home[k])
    <3>1. dir' = dir
      BY <1>14 DEF EtcHosts, files
    <3>2. job'[p].pc \in Link => job[p].pc \in Build \cup Link
      BY <1>14, Leading DEF Moves, Build, Link
    <3>3. /\ job'[p].cmd = job[p].cmd /\ \A q \in Callers \ {p} : job'[q] = job[q]
          /\ job'[p].pc \notin {"header"} \cup Build
      BY <1>14, Leading DEF Moves, Build
    <3>4. Built(Home[k])' => Built(Home[k])
      BY <3>2, <3>3 DEF Built, At1
    <3> QED BY <3>1, <3>4
  <2>5. pound'[Home[k]].reads[k].cert = pound[Home[k]].reads[k].cert
    BY <1>14 DEF EtcHosts
  <2> QED BY <1>1, <1>2, <1>5, <2>1, <2>2, <2>3, <2>4, <2>5, DatesSame
<1>15. ASSUME NEW p \in Callers, Stamp(p)
      PROVE  DatesOK'
  BY <1>15, <1>1, <1>2, <1>3, <1>5, <1>7, DatesStamp
<1>16. ASSUME NEW p \in Callers, AcmeDone(p)
      PROVE  DatesOK'
  <2> SUFFICES ASSUME NEW k \in env.acme
               PROVE  Dates(k)'
    BY <1>7
  <2>1. day' = day /\ stamp' = stamp /\ done' = done
    BY <1>16 DEF AcmeDone, certs, times
  <2>2. \/ Fresh(pem'[k]) \/ Lasting(pem'[k], Home[k], TRUE)
        \/ pem'[k] = pem[k] /\ (Getting(Home[k], k) => Getting(Home[k], k)')
    <3>1. pem' = pem
      BY <1>16 DEF AcmeDone, certs
    <3>2. Getting(Home[k], k) => Getting(Home[k], k)'
      BY <1>16, Leading, Untaken
    <3> QED BY <3>1, <3>2
  <2>3. \A q \in Callers : job'[q].pc = "deploy" /\ job'[q].c = k =>
          \/ job[q].pc = "deploy" /\ job[q].c = k /\ le'[k] = le[k]
          \/ Fresh(le'[k]) /\ le'[k] # NoCert
    <3>1. le' = le
      BY <1>16 DEF AcmeDone, certs
    <3>2. \A q \in Callers : job'[q].pc = "deploy" => job[q].pc = "deploy" /\ job'[q].c = job[q].c
      BY <1>16, Leading, Undeployed
    <3> QED BY <3>1, <3>2
  <2>4. \/ Fresh(dir'[Home[k]][Home[k]].has[k].cert)
        \/ Lasting(dir'[Home[k]][Home[k]].has[k].cert, Home[k], TRUE)
        \/ /\ dir'[Home[k]][Home[k]].has[k].cert = dir[Home[k]][Home[k]].has[k].cert
           /\ Built(Home[k])' => Built(Home[k])
    <3>1. dir' = dir
      BY <1>16 DEF AcmeDone, files
    <3>2. job'[p].pc \in Link => job[p].pc \in Build \cup Link
      BY <1>16, Leading DEF Moves, Build, Link
    <3>3. /\ job'[p].cmd = job[p].cmd /\ \A q \in Callers \ {p} : job'[q] = job[q]
          /\ job'[p].pc \notin {"header"} \cup Build
      BY <1>16, Leading DEF Moves, Build
    <3>4. Built(Home[k])' => Built(Home[k])
      BY <3>2, <3>3 DEF Built, At1
    <3> QED BY <3>1, <3>4
  <2>5. pound'[Home[k]].reads[k].cert = pound[Home[k]].reads[k].cert
    BY <1>16 DEF AcmeDone
  <2> QED BY <1>1, <1>2, <1>5, <2>1, <2>2, <2>3, <2>4, <2>5, DatesSame
<1>17. ASSUME NEW p \in Callers, Deploy(p)
      PROVE  DatesOK'
  <2> SUFFICES ASSUME NEW k \in env.acme
               PROVE  Dates(k)'
    BY <1>7
  <2>1. day' = day /\ stamp' = stamp /\ done' = done
    BY <1>17 DEF Deploy, certs, times
  <2>2. \/ Fresh(pem'[k]) \/ Lasting(pem'[k], Home[k], TRUE)
        \/ pem'[k] = pem[k] /\ (Getting(Home[k], k) => Getting(Home[k], k)')
    <3>1. /\ job[p].pc = "deploy" /\ Moves(p, "acme", job[p].todo, NoJob.c) /\ job[p].c \in Names
          /\ pem' = [pem EXCEPT ![job[p].c] = IF ve[job[p].c] # "gone" THEN le[job[p].c] ELSE @]
      BY <1>17, Leading DEF Deploy, JobsOK, Mine
    <3>2. CASE k = job[p].c
      <4>1. pem'[k] = NoCert \/ pem'[k] = le[k]
        BY <1>4, <3>1, <3>2 DEF FilesOK, CertsOK
      <4>2. Lasting(le[k], Home[k], TRUE)
        BY <1>5, <3>1, <3>2 DEF Dates
      <4> QED BY <4>1, <4>2, NoneFresh
    <3>3. CASE k # job[p].c
      <4>1. pem'[k] = pem[k]
        BY <3>1, <3>3 DEF FilesOK
      <4> SUFFICES ASSUME Getting(Home[k], k)
                   PROVE  Getting(Home[k], k)'
        BY <4>1
      <4>2. PICK q \in Callers : /\ At1(q, Home[k], {"acme", "deploy"})
                                /\ job[q].cmd = "regenerate" /\ k \in job[q].todo
        BY DEF Getting
      <4>3. CASE q = p
        BY <3>1, <4>2, <4>3 DEF Moves, Getting, At1
      <4>4. CASE q # p
        BY <3>1, <4>2, <4>4 DEF Moves, Getting, At1
      <4> QED BY <4>3, <4>4
    <3> QED BY <3>2, <3>3
  <2>3. \A q \in Callers : job'[q].pc = "deploy" /\ job'[q].c = k =>
          \/ job[q].pc = "deploy" /\ job[q].c = k /\ le'[k] = le[k]
          \/ Fresh(le'[k]) /\ le'[k] # NoCert
    <3>1. le' = le
      BY <1>17 DEF Deploy, certs
    <3>2. \A q \in Callers : job'[q].pc = "deploy" => job[q].pc = "deploy" /\ job'[q].c = job[q].c
      BY <1>17, Leading, Undeployed
    <3> QED BY <3>1, <3>2
  <2>4. \/ Fresh(dir'[Home[k]][Home[k]].has[k].cert)
        \/ Lasting(dir'[Home[k]][Home[k]].has[k].cert, Home[k], TRUE)
        \/ /\ dir'[Home[k]][Home[k]].has[k].cert = dir[Home[k]][Home[k]].has[k].cert
           /\ Built(Home[k])' => Built(Home[k])
    <3>1. dir' = dir
      BY <1>17 DEF Deploy, files
    <3>2. job'[p].pc \in Link => job[p].pc \in Build \cup Link
      BY <1>17, Leading DEF Moves, Build, Link
    <3>3. /\ job'[p].cmd = job[p].cmd /\ \A q \in Callers \ {p} : job'[q] = job[q]
          /\ job'[p].pc \notin {"header"} \cup Build
      BY <1>17, Leading DEF Moves, Build
    <3>4. Built(Home[k])' => Built(Home[k])
      BY <3>2, <3>3 DEF Built, At1
    <3> QED BY <3>1, <3>4
  <2>5. pound'[Home[k]].reads[k].cert = pound[Home[k]].reads[k].cert
    BY <1>17 DEF Deploy
  <2> QED BY <1>1, <1>2, <1>5, <2>1, <2>2, <2>3, <2>4, <2>5, DatesSame
<1>18. ASSUME NEW p \in Callers, Import(p)
      PROVE  DatesOK'
  <2> SUFFICES ASSUME NEW k \in env.acme
               PROVE  Dates(k)'
    BY <1>7
  <2>1. day' = day /\ stamp' = stamp /\ done' = done
    BY <1>18 DEF Import, certs, times
  <2>2. \/ Fresh(pem'[k]) \/ Lasting(pem'[k], Home[k], TRUE)
        \/ pem'[k] = pem[k] /\ (Getting(Home[k], k) => Getting(Home[k], k)')
    <3>1. /\ job[p].pc = "import" /\ Moves(p, "restart", job[p].todo, job[p].c) /\ job[p].c \in Names
          /\ pem' = [pem EXCEPT ![job[p].c] = IF ve[job[p].c] # "gone" THEN day + Life ELSE @]
      BY <1>18, Leading DEF Import, JobsOK, Mine
    <3>2. pem'[k] = day + Life \/ pem'[k] = pem[k]
      BY <1>5, <3>1 DEF FilesOK
    <3>3. Getting(Home[k], k) => Getting(Home[k], k)'
      BY <3>1 DEF Moves, Getting, At1
    <3> QED BY <3>2, <3>3, NewFresh
  <2>3. \A q \in Callers : job'[q].pc = "deploy" /\ job'[q].c = k =>
          \/ job[q].pc = "deploy" /\ job[q].c = k /\ le'[k] = le[k]
          \/ Fresh(le'[k]) /\ le'[k] # NoCert
    <3>1. le' = le
      BY <1>18 DEF Import, certs
    <3>2. \A q \in Callers : job'[q].pc = "deploy" => job[q].pc = "deploy" /\ job'[q].c = job[q].c
      BY <1>18, Leading, Undeployed
    <3> QED BY <3>1, <3>2
  <2>4. \/ Fresh(dir'[Home[k]][Home[k]].has[k].cert)
        \/ Lasting(dir'[Home[k]][Home[k]].has[k].cert, Home[k], TRUE)
        \/ /\ dir'[Home[k]][Home[k]].has[k].cert = dir[Home[k]][Home[k]].has[k].cert
           /\ Built(Home[k])' => Built(Home[k])
    <3>1. Built(Home[k])' => Built(Home[k])
      <4>1. job[p].pc = "import"
        BY <1>18, Leading
      <4>2. job[p].cmd = "import-crt" /\ job'[p].cmd # "regenerate"
        BY <1>18, <4>1, Placed, Leading DEF Moves
      <4> QED BY <1>18, <4>2, Leading DEF Moves, Built, At1
    <3> QED BY <1>18, <3>1 DEF Import, files
  <2>5. pound'[Home[k]].reads[k].cert = pound[Home[k]].reads[k].cert
    BY <1>18 DEF Import
  <2> QED BY <1>1, <1>2, <1>5, <2>1, <2>2, <2>3, <2>4, <2>5, DatesSame
<1>19. ASSUME NEW p \in Callers, Wipe(p)
      PROVE  DatesOK'
  <2> SUFFICES ASSUME NEW k \in env.acme
               PROVE  Dates(k)'
    BY <1>7
  <2>1. day' = day /\ stamp' = stamp /\ done' = done
    BY <1>19 DEF Wipe, certs, times
  <2>2. \/ Fresh(pem'[k]) \/ Lasting(pem'[k], Home[k], TRUE)
        \/ pem'[k] = pem[k] /\ (Getting(Home[k], k) => Getting(Home[k], k)')
    <3>1. pem' = pem
      BY <1>19 DEF Wipe, certs
    <3>2. Getting(Home[k], k) => Getting(Home[k], k)'
      BY <1>19, Leading, Untaken
    <3> QED BY <3>1, <3>2
  <2>3. \A q \in Callers : job'[q].pc = "deploy" /\ job'[q].c = k =>
          \/ job[q].pc = "deploy" /\ job[q].c = k /\ le'[k] = le[k]
          \/ Fresh(le'[k]) /\ le'[k] # NoCert
    <3>1. le' = le
      BY <1>19 DEF Wipe, certs
    <3>2. \A q \in Callers : job'[q].pc = "deploy" => job[q].pc = "deploy" /\ job'[q].c = job[q].c
      BY <1>19, Leading, Undeployed
    <3> QED BY <3>1, <3>2
  <2>4. \/ Fresh(dir'[Home[k]][Home[k]].has[k].cert)
        \/ Lasting(dir'[Home[k]][Home[k]].has[k].cert, Home[k], TRUE)
        \/ /\ dir'[Home[k]][Home[k]].has[k].cert = dir[Home[k]][Home[k]].has[k].cert
           /\ Built(Home[k])' => Built(Home[k])
    <3>1. OwnDir(At[p], FALSE, {}, Empty.has)
      BY <1>19, Wiping
    <3>2. \A d \in Hosts : d # At[p] => dir'[d][d] = dir[d][d]
      BY <3>1 DEF OwnDir
    <3>3. Built(Home[k])' => Built(Home[k]) \/ (Home[k] = At[p] /\ job'[p].pc = "header")
      BY <1>19, Leading DEF Moves, Built, At1, Build, Link
    <3>4. CASE Home[k] # At[p]
      BY <1>5, <3>2, <3>3, <3>4
    <3>5. CASE Home[k] = At[p]
      <4>1. \A c \in Names : Empty.has[c] = NoService
        BY <1>19, Wiping
      <4>2. dir'[At[p]][At[p]].has = Empty.has
        BY <3>1 DEF OwnDir
      <4>3. dir'[Home[k]][Home[k]].has[k].cert = NoCert
        BY <1>5, <3>5, <4>1, <4>2 DEF NoService
      <4> QED BY <4>3, NoneFresh
    <3> QED BY <3>4, <3>5
  <2>5. pound'[Home[k]].reads[k].cert = pound[Home[k]].reads[k].cert
    BY <1>19 DEF Wipe
  <2> QED BY <1>1, <1>2, <1>5, <2>1, <2>2, <2>3, <2>4, <2>5, DatesSame
<1>20. ASSUME NEW p \in Callers, Header(p)
      PROVE  DatesOK'
  <2> SUFFICES ASSUME NEW k \in env.acme
               PROVE  Dates(k)'
    BY <1>7
  <2>1. day' = day /\ stamp' = stamp /\ done' = done
    BY <1>20 DEF Header, certs, times
  <2>2. \/ Fresh(pem'[k]) \/ Lasting(pem'[k], Home[k], TRUE)
        \/ pem'[k] = pem[k] /\ (Getting(Home[k], k) => Getting(Home[k], k)')
    <3>1. pem' = pem
      BY <1>20 DEF Header, certs
    <3>2. Getting(Home[k], k) => Getting(Home[k], k)'
      BY <1>20, Leading, Untaken
    <3> QED BY <3>1, <3>2
  <2>3. \A q \in Callers : job'[q].pc = "deploy" /\ job'[q].c = k =>
          \/ job[q].pc = "deploy" /\ job[q].c = k /\ le'[k] = le[k]
          \/ Fresh(le'[k]) /\ le'[k] # NoCert
    <3>1. le' = le
      BY <1>20 DEF Header, certs
    <3>2. \A q \in Callers : job'[q].pc = "deploy" => job[q].pc = "deploy" /\ job'[q].c = job[q].c
      BY <1>20, Leading, Undeployed
    <3> QED BY <3>1, <3>2
  <2>4. \/ Fresh(dir'[Home[k]][Home[k]].has[k].cert)
        \/ Lasting(dir'[Home[k]][Home[k]].has[k].cert, Home[k], TRUE)
        \/ /\ dir'[Home[k]][Home[k]].has[k].cert = dir[Home[k]][Home[k]].has[k].cert
           /\ Built(Home[k])' => Built(Home[k])
    <3>1. OwnDir(At[p], TRUE, {}, dir[At[p]][At[p]].has)
      BY <1>20, Heading
    <3>2. \A d \in Hosts : d # At[p] => dir'[d][d] = dir[d][d]
      BY <3>1 DEF OwnDir
    <3>3. Built(Home[k])' => Built(Home[k]) \/ (Home[k] = At[p] /\ job'[p].pc = "header")
      BY <1>20, Leading DEF Moves, Built, At1, Build, Link
    <3>4. CASE Home[k] # At[p]
      BY <1>5, <3>2, <3>3, <3>4
    <3>5. CASE Home[k] = At[p]
      <4>1. dir'[At[p]][At[p]].has = dir[At[p]][At[p]].has
        BY <3>1 DEF OwnDir
      <4>2. job'[p].pc # "header"
        BY <1>20, Leading DEF Moves
      <4> QED BY <3>3, <3>5, <4>1, <4>2
    <3> QED BY <3>4, <3>5
  <2>5. pound'[Home[k]].reads[k].cert = pound[Home[k]].reads[k].cert
    BY <1>20 DEF Header
  <2> QED BY <1>1, <1>2, <1>5, <2>1, <2>2, <2>3, <2>4, <2>5, DatesSame
<1>21. ASSUME NEW p \in Callers, IncludeService(p)
      PROVE  DatesOK'
  <2> SUFFICES ASSUME NEW k \in env.acme
               PROVE  Dates(k)'
    BY <1>7
  <2>6. job[p].c \in Mine(At[p])
    <3>1. job[p].pc = "include"
      BY <1>21, Leading
    <3> QED BY <3>1 DEF JobsOK
  <2>1. day' = day /\ stamp' = stamp /\ done' = done
    BY <1>21 DEF IncludeService, certs, times
  <2>2. \/ Fresh(pem'[k]) \/ Lasting(pem'[k], Home[k], TRUE)
        \/ pem'[k] = pem[k] /\ (Getting(Home[k], k) => Getting(Home[k], k)')
    <3>1. pem' = pem
      BY <1>21 DEF IncludeService, certs
    <3>2. Getting(Home[k], k) => Getting(Home[k], k)'
      BY <1>21, Leading, Untaken
    <3> QED BY <3>1, <3>2
  <2>3. \A q \in Callers : job'[q].pc = "deploy" /\ job'[q].c = k =>
          \/ job[q].pc = "deploy" /\ job[q].c = k /\ le'[k] = le[k]
          \/ Fresh(le'[k]) /\ le'[k] # NoCert
    <3>1. le' = le
      BY <1>21 DEF IncludeService, certs
    <3>2. \A q \in Callers : job'[q].pc = "deploy" => job[q].pc = "deploy" /\ job'[q].c = job[q].c
      BY <1>21, Leading, Undeployed
    <3> QED BY <3>1, <3>2
  <2>4. \/ Fresh(dir'[Home[k]][Home[k]].has[k].cert)
        \/ Lasting(dir'[Home[k]][Home[k]].has[k].cert, Home[k], TRUE)
        \/ /\ dir'[Home[k]][Home[k]].has[k].cert = dir[Home[k]][Home[k]].has[k].cert
           /\ Built(Home[k])' => Built(Home[k])
    <3>1. OwnDir(At[p], dir[At[p]][At[p]].top, dir[At[p]][At[p]].inc \cup {job[p].c},
             dir[At[p]][At[p]].has)
      BY <1>21, <2>6, IncludingIt
    <3>2. \A d \in Hosts : d # At[p] => dir'[d][d] = dir[d][d]
      BY <3>1 DEF OwnDir
    <3>3. Built(Home[k])' => Built(Home[k]) \/ (Home[k] = At[p] /\ job'[p].pc = "header")
      BY <1>21, Leading DEF Moves, Built, At1, Build, Link
    <3>4. CASE Home[k] # At[p]
      BY <1>5, <3>2, <3>3, <3>4
    <3>5. CASE Home[k] = At[p]
      <4>1. dir'[At[p]][At[p]].has = dir[At[p]][At[p]].has
        BY <3>1 DEF OwnDir
      <4>2. job'[p].pc # "header"
        BY <1>21, Leading DEF Moves
      <4> QED BY <3>3, <3>5, <4>1, <4>2
    <3> QED BY <3>4, <3>5
  <2>5. pound'[Home[k]].reads[k].cert = pound[Home[k]].reads[k].cert
    BY <1>21 DEF IncludeService
  <2> QED BY <1>1, <1>2, <1>5, <2>1, <2>2, <2>3, <2>4, <2>5, DatesSame
<1>22. ASSUME NEW p \in Callers, WriteDone(p)
      PROVE  DatesOK'
  <2> SUFFICES ASSUME NEW k \in env.acme
               PROVE  Dates(k)'
    BY <1>7
  <2>1. day' = day /\ stamp' = stamp /\ done' = done
    BY <1>22 DEF WriteDone, certs, times
  <2>2. \/ Fresh(pem'[k]) \/ Lasting(pem'[k], Home[k], TRUE)
        \/ pem'[k] = pem[k] /\ (Getting(Home[k], k) => Getting(Home[k], k)')
    <3>1. pem' = pem
      BY <1>22 DEF WriteDone, certs
    <3>2. Getting(Home[k], k) => Getting(Home[k], k)'
      BY <1>22, Leading, Untaken
    <3> QED BY <3>1, <3>2
  <2>3. \A q \in Callers : job'[q].pc = "deploy" /\ job'[q].c = k =>
          \/ job[q].pc = "deploy" /\ job[q].c = k /\ le'[k] = le[k]
          \/ Fresh(le'[k]) /\ le'[k] # NoCert
    <3>1. le' = le
      BY <1>22 DEF WriteDone, certs
    <3>2. \A q \in Callers : job'[q].pc = "deploy" => job[q].pc = "deploy" /\ job'[q].c = job[q].c
      BY <1>22, Leading, Undeployed
    <3> QED BY <3>1, <3>2
  <2>4. \/ Fresh(dir'[Home[k]][Home[k]].has[k].cert)
        \/ Lasting(dir'[Home[k]][Home[k]].has[k].cert, Home[k], TRUE)
        \/ /\ dir'[Home[k]][Home[k]].has[k].cert = dir[Home[k]][Home[k]].has[k].cert
           /\ Built(Home[k])' => Built(Home[k])
    <3>1. dir' = dir
      BY <1>22 DEF WriteDone, files
    <3>2. job'[p].pc \in Link => job[p].pc \in Build \cup Link
      BY <1>22, Leading DEF Moves, Build, Link
    <3>3. /\ job'[p].cmd = job[p].cmd /\ \A q \in Callers \ {p} : job'[q] = job[q]
          /\ job'[p].pc \notin {"header"} \cup Build
      BY <1>22, Leading DEF Moves, Build
    <3>4. Built(Home[k])' => Built(Home[k])
      BY <3>2, <3>3 DEF Built, At1
    <3> QED BY <3>1, <3>4
  <2>5. pound'[Home[k]].reads[k].cert = pound[Home[k]].reads[k].cert
    BY <1>22 DEF WriteDone
  <2> QED BY <1>1, <1>2, <1>5, <2>1, <2>2, <2>3, <2>4, <2>5, DatesSame
<1>23. ASSUME NEW p \in Callers, Truncate(p)
      PROVE  DatesOK'
  <2> SUFFICES ASSUME NEW k \in env.acme
               PROVE  Dates(k)'
    BY <1>7
  <2>1. day' = day /\ stamp' = stamp /\ done' = done
    BY <1>23 DEF Truncate, certs, times
  <2>2. \/ Fresh(pem'[k]) \/ Lasting(pem'[k], Home[k], TRUE)
        \/ pem'[k] = pem[k] /\ (Getting(Home[k], k) => Getting(Home[k], k)')
    <3>1. pem' = pem
      BY <1>23 DEF Truncate, certs
    <3>2. Getting(Home[k], k) => Getting(Home[k], k)'
      BY <1>23, Leading, Untaken
    <3> QED BY <3>1, <3>2
  <2>3. \A q \in Callers : job'[q].pc = "deploy" /\ job'[q].c = k =>
          \/ job[q].pc = "deploy" /\ job[q].c = k /\ le'[k] = le[k]
          \/ Fresh(le'[k]) /\ le'[k] # NoCert
    <3>1. le' = le
      BY <1>23 DEF Truncate, certs
    <3>2. \A q \in Callers : job'[q].pc = "deploy" => job[q].pc = "deploy" /\ job'[q].c = job[q].c
      BY <1>23, Leading, Undeployed
    <3> QED BY <3>1, <3>2
  <2>4. \/ Fresh(dir'[Home[k]][Home[k]].has[k].cert)
        \/ Lasting(dir'[Home[k]][Home[k]].has[k].cert, Home[k], TRUE)
        \/ /\ dir'[Home[k]][Home[k]].has[k].cert = dir[Home[k]][Home[k]].has[k].cert
           /\ Built(Home[k])' => Built(Home[k])
    <3>1. dir' = dir
      BY <1>23 DEF Truncate, files
    <3>2. job'[p].pc \in Link => job[p].pc \in Build \cup Link
      BY <1>23, Leading DEF Moves, Build, Link
    <3>3. /\ job'[p].cmd = job[p].cmd /\ \A q \in Callers \ {p} : job'[q] = job[q]
          /\ job'[p].pc \notin {"header"} \cup Build
      BY <1>23, Leading DEF Moves, Build
    <3>4. Built(Home[k])' => Built(Home[k])
      BY <3>2, <3>3 DEF Built, At1
    <3> QED BY <3>1, <3>4
  <2>5. pound'[Home[k]].reads[k].cert = pound[Home[k]].reads[k].cert
    BY <1>23 DEF Truncate
  <2> QED BY <1>1, <1>2, <1>5, <2>1, <2>2, <2>3, <2>4, <2>5, DatesSame
<1>24. ASSUME NEW p \in Callers, Fetch(p)
      PROVE  DatesOK'
  <2> SUFFICES ASSUME NEW k \in env.acme
               PROVE  Dates(k)'
    BY <1>7
  <2>1. day' = day /\ stamp' = stamp /\ done' = done
    BY <1>24 DEF Fetch, certs, times
  <2>2. \/ Fresh(pem'[k]) \/ Lasting(pem'[k], Home[k], TRUE)
        \/ pem'[k] = pem[k] /\ (Getting(Home[k], k) => Getting(Home[k], k)')
    <3>1. pem' = pem
      BY <1>24 DEF Fetch, certs
    <3>2. Getting(Home[k], k) => Getting(Home[k], k)'
      BY <1>24, Leading, Untaken
    <3> QED BY <3>1, <3>2
  <2>3. \A q \in Callers : job'[q].pc = "deploy" /\ job'[q].c = k =>
          \/ job[q].pc = "deploy" /\ job[q].c = k /\ le'[k] = le[k]
          \/ Fresh(le'[k]) /\ le'[k] # NoCert
    <3>1. le' = le
      BY <1>24 DEF Fetch, certs
    <3>2. \A q \in Callers : job'[q].pc = "deploy" => job[q].pc = "deploy" /\ job'[q].c = job[q].c
      BY <1>24, Leading, Undeployed
    <3> QED BY <3>1, <3>2
  <2>4. \/ Fresh(dir'[Home[k]][Home[k]].has[k].cert)
        \/ Lasting(dir'[Home[k]][Home[k]].has[k].cert, Home[k], TRUE)
        \/ /\ dir'[Home[k]][Home[k]].has[k].cert = dir[Home[k]][Home[k]].has[k].cert
           /\ Built(Home[k])' => Built(Home[k])
    <3>1. dir'[Home[k]][Home[k]] = dir[Home[k]][Home[k]]
      BY <1>24, <1>5, <1>6, Fetching
    <3>2. Built(Home[k])' => Built(Home[k])
      BY <1>24, Leading DEF Moves, Built, At1, Link
    <3> QED BY <3>1, <3>2
  <2>5. pound'[Home[k]].reads[k].cert = pound[Home[k]].reads[k].cert
    BY <1>24 DEF Fetch
  <2> QED BY <1>1, <1>2, <1>5, <2>1, <2>2, <2>3, <2>4, <2>5, DatesSame
<1>25. ASSUME NEW p \in Callers, AddOwn(p)
      PROVE  DatesOK'
  <2> SUFFICES ASSUME NEW k \in env.acme
               PROVE  Dates(k)'
    BY <1>7
  <2>1. day' = day /\ stamp' = stamp /\ done' = done
    BY <1>25 DEF AddOwn, certs, times
  <2>2. \/ Fresh(pem'[k]) \/ Lasting(pem'[k], Home[k], TRUE)
        \/ pem'[k] = pem[k] /\ (Getting(Home[k], k) => Getting(Home[k], k)')
    <3>1. pem' = pem
      BY <1>25 DEF AddOwn, certs
    <3>2. Getting(Home[k], k) => Getting(Home[k], k)'
      BY <1>25, Leading, Untaken
    <3> QED BY <3>1, <3>2
  <2>3. \A q \in Callers : job'[q].pc = "deploy" /\ job'[q].c = k =>
          \/ job[q].pc = "deploy" /\ job[q].c = k /\ le'[k] = le[k]
          \/ Fresh(le'[k]) /\ le'[k] # NoCert
    <3>1. le' = le
      BY <1>25 DEF AddOwn, certs
    <3>2. \A q \in Callers : job'[q].pc = "deploy" => job[q].pc = "deploy" /\ job'[q].c = job[q].c
      BY <1>25, Leading, Undeployed
    <3> QED BY <3>1, <3>2
  <2>4. \/ Fresh(dir'[Home[k]][Home[k]].has[k].cert)
        \/ Lasting(dir'[Home[k]][Home[k]].has[k].cert, Home[k], TRUE)
        \/ /\ dir'[Home[k]][Home[k]].has[k].cert = dir[Home[k]][Home[k]].has[k].cert
           /\ Built(Home[k])' => Built(Home[k])
    <3>1. dir' = dir
      BY <1>25 DEF AddOwn, files
    <3>2. job'[p].pc \in Link => job[p].pc \in Build \cup Link
      BY <1>25, Leading DEF Moves, Build, Link
    <3>3. /\ job'[p].cmd = job[p].cmd /\ \A q \in Callers \ {p} : job'[q] = job[q]
          /\ job'[p].pc \notin {"header"} \cup Build
      BY <1>25, Leading DEF Moves, Build
    <3>4. Built(Home[k])' => Built(Home[k])
      BY <3>2, <3>3 DEF Built, At1
    <3> QED BY <3>1, <3>4
  <2>5. pound'[Home[k]].reads[k].cert = pound[Home[k]].reads[k].cert
    BY <1>25 DEF AddOwn
  <2> QED BY <1>1, <1>2, <1>5, <2>1, <2>2, <2>3, <2>4, <2>5, DatesSame
<1>26. ASSUME NEW p \in Callers, AddPeers(p)
      PROVE  DatesOK'
  <2> SUFFICES ASSUME NEW k \in env.acme
               PROVE  Dates(k)'
    BY <1>7
  <2>1. day' = day /\ stamp' = stamp /\ done' = done
    BY <1>26 DEF AddPeers, certs, times
  <2>2. \/ Fresh(pem'[k]) \/ Lasting(pem'[k], Home[k], TRUE)
        \/ pem'[k] = pem[k] /\ (Getting(Home[k], k) => Getting(Home[k], k)')
    <3>1. pem' = pem
      BY <1>26 DEF AddPeers, certs
    <3>2. Getting(Home[k], k) => Getting(Home[k], k)'
      BY <1>26, Leading, Untaken
    <3> QED BY <3>1, <3>2
  <2>3. \A q \in Callers : job'[q].pc = "deploy" /\ job'[q].c = k =>
          \/ job[q].pc = "deploy" /\ job[q].c = k /\ le'[k] = le[k]
          \/ Fresh(le'[k]) /\ le'[k] # NoCert
    <3>1. le' = le
      BY <1>26 DEF AddPeers, certs
    <3>2. \A q \in Callers : job'[q].pc = "deploy" => job[q].pc = "deploy" /\ job'[q].c = job[q].c
      BY <1>26, Leading, Undeployed
    <3> QED BY <3>1, <3>2
  <2>4. \/ Fresh(dir'[Home[k]][Home[k]].has[k].cert)
        \/ Lasting(dir'[Home[k]][Home[k]].has[k].cert, Home[k], TRUE)
        \/ /\ dir'[Home[k]][Home[k]].has[k].cert = dir[Home[k]][Home[k]].has[k].cert
           /\ Built(Home[k])' => Built(Home[k])
    <3>1. dir' = dir
      BY <1>26 DEF AddPeers, files
    <3>2. job'[p].pc \in Link => job[p].pc \in Build \cup Link
      BY <1>26, Leading DEF Moves, Build, Link
    <3>3. /\ job'[p].cmd = job[p].cmd /\ \A q \in Callers \ {p} : job'[q] = job[q]
          /\ job'[p].pc \notin {"header"} \cup Build
      BY <1>26, Leading DEF Moves, Build
    <3>4. Built(Home[k])' => Built(Home[k])
      BY <3>2, <3>3 DEF Built, At1
    <3> QED BY <3>1, <3>4
  <2>5. pound'[Home[k]].reads[k].cert = pound[Home[k]].reads[k].cert
    BY <1>26 DEF AddPeers
  <2> QED BY <1>1, <1>2, <1>5, <2>1, <2>2, <2>3, <2>4, <2>5, DatesSame
<1>27. ASSUME NEW p \in Callers, Restart(p)
      PROVE  DatesOK'
  BY <1>27, <1>1, <1>2, <1>3, <1>5, <1>7, DatesRestart
<1>28. ASSUME NEW p \in Callers, NEW c \in Names, AcmeSkip(p, c)
      PROVE  DatesOK'
  <2> SUFFICES ASSUME NEW k \in env.acme
               PROVE  Dates(k)'
    BY <1>7
  <2>1. day' = day /\ stamp' = stamp /\ done' = done
    BY <1>28 DEF AcmeSkip, certs, times
  <2>2. \/ Fresh(pem'[k]) \/ Lasting(pem'[k], Home[k], TRUE)
        \/ pem'[k] = pem[k] /\ (Getting(Home[k], k) => Getting(Home[k], k)')
    <3>1. CASE k = c
      BY <1>28, <3>1, <1>5, LastsFresh DEF AcmeSkip, certs
    <3>2. CASE k # c
      <4>1. pem' = pem
        BY <1>28 DEF AcmeSkip, certs
      <4>2. Moves(p, "acme", job[p].todo \ {c}, c)
        BY <1>28, LeadingTo
      <4>3. Getting(Home[k], k) => Getting(Home[k], k)'
        BY <3>2, <4>2 DEF Moves, Getting, At1
      <4> QED BY <4>1, <4>3
    <3> QED BY <3>1, <3>2
  <2>3. \A q \in Callers : job'[q].pc = "deploy" /\ job'[q].c = k =>
          \/ job[q].pc = "deploy" /\ job[q].c = k /\ le'[k] = le[k]
          \/ Fresh(le'[k]) /\ le'[k] # NoCert
    <3>1. le' = le
      BY <1>28 DEF AcmeSkip, certs
    <3>2. \A q \in Callers : job'[q].pc = "deploy" => job[q].pc = "deploy" /\ job'[q].c = job[q].c
      BY <1>28, LeadingTo, Undeployed
    <3> QED BY <3>1, <3>2
  <2>4. \/ Fresh(dir'[Home[k]][Home[k]].has[k].cert)
        \/ Lasting(dir'[Home[k]][Home[k]].has[k].cert, Home[k], TRUE)
        \/ /\ dir'[Home[k]][Home[k]].has[k].cert = dir[Home[k]][Home[k]].has[k].cert
           /\ Built(Home[k])' => Built(Home[k])
    <3>1. dir' = dir
      BY <1>28 DEF AcmeSkip, files
    <3>2. job'[p].pc \in Link => job[p].pc \in Build \cup Link
      BY <1>28, LeadingTo DEF Moves, Build, Link
    <3>3. /\ job'[p].cmd = job[p].cmd /\ \A q \in Callers \ {p} : job'[q] = job[q]
          /\ job'[p].pc \notin {"header"} \cup Build
      BY <1>28, LeadingTo DEF Moves, Build
    <3>4. Built(Home[k])' => Built(Home[k])
      BY <3>2, <3>3 DEF Built, At1
    <3> QED BY <3>1, <3>4
  <2>5. pound'[Home[k]].reads[k].cert = pound[Home[k]].reads[k].cert
    BY <1>28 DEF AcmeSkip
  <2> QED BY <1>1, <1>2, <1>5, <2>1, <2>2, <2>3, <2>4, <2>5, DatesSame
<1>29. ASSUME NEW p \in Callers, NEW c \in Names, AcmeDeploy(p, c)
      PROVE  DatesOK'
  <2> SUFFICES ASSUME NEW k \in env.acme
               PROVE  Dates(k)'
    BY <1>7
  <2>6. job[p].pc = "acme" /\ c \in job[p].todo /\ Moves(p, "deploy", job[p].todo \ {c}, c)
    BY <1>29, LeadingTo
  <2>7. pem' = [pem EXCEPT ![c] = IF ve[c] # "gone" THEN Broken ELSE @] /\ dir' = dir
    BY <1>29, <1>4 DEF AcmeDeploy, files
  <2>1. day' = day /\ stamp' = stamp /\ done' = done
    BY <1>29 DEF AcmeDeploy, certs, times
  <2>2. \/ Fresh(pem'[k]) \/ Lasting(pem'[k], Home[k], TRUE)
        \/ pem'[k] = pem[k] /\ (Getting(Home[k], k) => Getting(Home[k], k)')
    <3>1. CASE k = c
      <4>1. pem'[k] = Broken \/ pem'[k] = NoCert
        BY <1>29, <1>4, <1>5, <2>7, <3>1 DEF FilesOK, CertsOK
      <4> QED BY <4>1, NoneFresh
    <3>2. CASE k # c
      <4>1. pem'[k] = pem[k]
        BY <1>5, <2>7, <3>2 DEF FilesOK
      <4>2. Getting(Home[k], k) => Getting(Home[k], k)'
        BY <2>6, <3>2 DEF Moves, Getting, At1
      <4> QED BY <4>1, <4>2
    <3> QED BY <3>1, <3>2
  <2>3. \A q \in Callers : job'[q].pc = "deploy" /\ job'[q].c = k =>
          \/ job[q].pc = "deploy" /\ job[q].c = k /\ le'[k] = le[k]
          \/ Fresh(le'[k]) /\ le'[k] # NoCert
    BY <1>29, <2>6, LastsFresh DEF AcmeDeploy, Moves
  <2>4. \/ Fresh(dir'[Home[k]][Home[k]].has[k].cert)
        \/ Lasting(dir'[Home[k]][Home[k]].has[k].cert, Home[k], TRUE)
        \/ /\ dir'[Home[k]][Home[k]].has[k].cert = dir[Home[k]][Home[k]].has[k].cert
           /\ Built(Home[k])' => Built(Home[k])
    BY <2>6, <2>7 DEF Moves, Built, At1, Build, Link
  <2>5. pound'[Home[k]].reads[k].cert = pound[Home[k]].reads[k].cert
    BY <1>29 DEF AcmeDeploy
  <2> QED BY <1>1, <1>2, <1>5, <2>1, <2>2, <2>3, <2>4, <2>5, DatesSame
<1>30. ASSUME NEW p \in Callers, NEW c \in Names, AcmeExit(p, c)
      PROVE  DatesOK'
  BY <1>30, <1>4, NoExit
<1>31. ASSUME NEW p \in Callers, NEW c \in Names, AcmeGet(p, c)
      PROVE  DatesOK'
  <2> SUFFICES ASSUME NEW k \in env.acme
               PROVE  Dates(k)'
    BY <1>7
  <2>6. job[p].pc = "acme" /\ c \in job[p].todo /\ Moves(p, "deploy", job[p].todo \ {c}, c)
    <3>1. Pick(p, c, "deploy")
      BY <1>31, <1>4 DEF AcmeGet
    <3> QED BY <1>31, <3>1, LeadingTo, Going DEF PlaceNames
  <2>7. pem' = [pem EXCEPT ![c] = IF ve[c] # "gone" THEN Broken ELSE @] /\ dir' = dir
    BY <1>31, <1>4 DEF AcmeGet, files
  <2>1. day' = day /\ stamp' = stamp /\ done' = done
    BY <1>31 DEF AcmeGet, certs, times
  <2>2. \/ Fresh(pem'[k]) \/ Lasting(pem'[k], Home[k], TRUE)
        \/ pem'[k] = pem[k] /\ (Getting(Home[k], k) => Getting(Home[k], k)')
    <3>1. CASE k = c
      <4>1. pem'[k] = Broken \/ pem'[k] = NoCert
        BY <1>31, <1>4, <1>5, <2>7, <3>1 DEF FilesOK, CertsOK
      <4> QED BY <4>1, NoneFresh
    <3>2. CASE k # c
      <4>1. pem'[k] = pem[k]
        BY <1>5, <2>7, <3>2 DEF FilesOK
      <4>2. Getting(Home[k], k) => Getting(Home[k], k)'
        BY <2>6, <3>2 DEF Moves, Getting, At1
      <4> QED BY <4>1, <4>2
    <3> QED BY <3>1, <3>2
  <2>3. \A q \in Callers : job'[q].pc = "deploy" /\ job'[q].c = k =>
          \/ job[q].pc = "deploy" /\ job[q].c = k /\ le'[k] = le[k]
          \/ Fresh(le'[k]) /\ le'[k] # NoCert
    <3>1. le' = [le EXCEPT ![c] = day + Life]
      BY <1>31, <1>4 DEF AcmeGet
    <3> QED BY <1>5, <2>6, <3>1, NewFresh DEF Moves, FilesOK
  <2>4. \/ Fresh(dir'[Home[k]][Home[k]].has[k].cert)
        \/ Lasting(dir'[Home[k]][Home[k]].has[k].cert, Home[k], TRUE)
        \/ /\ dir'[Home[k]][Home[k]].has[k].cert = dir[Home[k]][Home[k]].has[k].cert
           /\ Built(Home[k])' => Built(Home[k])
    BY <2>6, <2>7 DEF Moves, Built, At1, Build, Link
  <2>5. pound'[Home[k]].reads[k].cert = pound[Home[k]].reads[k].cert
    BY <1>31 DEF AcmeGet
  <2> QED BY <1>1, <1>2, <1>5, <2>1, <2>2, <2>3, <2>4, <2>5, DatesSame
<1>32. ASSUME NEW p \in Callers, NEW c \in Names, WriteService(p, c)
      PROVE  DatesOK'
  <2> SUFFICES ASSUME NEW k \in env.acme
               PROVE  Dates(k)'
    BY <1>7
  <2>1. day' = day /\ stamp' = stamp /\ done' = done
    BY <1>32 DEF WriteService, certs, times
  <2>2. \/ Fresh(pem'[k]) \/ Lasting(pem'[k], Home[k], TRUE)
        \/ pem'[k] = pem[k] /\ (Getting(Home[k], k) => Getting(Home[k], k)')
    <3>1. pem' = pem
      BY <1>32 DEF WriteService, certs
    <3>2. Getting(Home[k], k) => Getting(Home[k], k)'
      BY <1>32, LeadingTo, Untaken
    <3> QED BY <3>1, <3>2
  <2>3. \A q \in Callers : job'[q].pc = "deploy" /\ job'[q].c = k =>
          \/ job[q].pc = "deploy" /\ job[q].c = k /\ le'[k] = le[k]
          \/ Fresh(le'[k]) /\ le'[k] # NoCert
    <3>1. le' = le
      BY <1>32 DEF WriteService, certs
    <3>2. \A q \in Callers : job'[q].pc = "deploy" => job[q].pc = "deploy" /\ job'[q].c = job[q].c
      BY <1>32, LeadingTo, Undeployed
    <3> QED BY <3>1, <3>2
  <2>4. \/ Fresh(dir'[Home[k]][Home[k]].has[k].cert)
        \/ Lasting(dir'[Home[k]][Home[k]].has[k].cert, Home[k], TRUE)
        \/ /\ dir'[Home[k]][Home[k]].has[k].cert = dir[Home[k]][Home[k]].has[k].cert
           /\ Built(Home[k])' => Built(Home[k])
    <3>1. OwnDir(At[p], dir[At[p]][At[p]].top, dir[At[p]][At[p]].inc,
             [dir[At[p]][At[p]].has EXCEPT ![c] = Services(c)])
      BY <1>32, Writing
    <3>2. \A d \in Hosts : d # At[p] => dir'[d][d] = dir[d][d]
      BY <3>1 DEF OwnDir
    <3>3. Built(Home[k])' => Built(Home[k]) \/ (Home[k] = At[p] /\ job'[p].pc = "header")
      BY <1>32, LeadingTo DEF Moves, Built, At1, Build, Link
    <3>4. CASE Home[k] # At[p]
      BY <1>5, <3>2, <3>3, <3>4
    <3>5. CASE Home[k] = At[p]
      <4>1. /\ dir'[At[p]][At[p]].has = [dir[At[p]][At[p]].has EXCEPT ![c] = Services(c)]
            /\ dir[At[p]][At[p]].has \in [Names -> Service]
        BY <1>6, <3>1, Dirs DEF OwnDir
      <4>2. CASE k = c
        <5>1. dir'[At[p]][At[p]].has[k].cert = pem[k]
          BY <4>1, <4>2 DEF Services
        <5>2. ~Getting(Home[k], k)
          <6>1. job[p].pc = "write"
            BY <1>32, LeadingTo
          <6>2. \A q \in Callers : job[q].pc \in {"none", "write"}
            BY <1>3, <6>1, Alone, Placed
          <6> QED BY <6>2 DEF Getting, At1
        <5> QED BY <1>5, <3>5, <5>1, <5>2 DEF Dates
      <4>3. CASE k # c
        <5>1. job'[p].pc # "header"
          BY <1>32, LeadingTo DEF Moves
        <5> QED BY <1>5, <3>3, <3>5, <4>1, <4>3, <5>1
      <4> QED BY <4>2, <4>3
    <3> QED BY <3>4, <3>5
  <2>5. pound'[Home[k]].reads[k].cert = pound[Home[k]].reads[k].cert
    BY <1>32 DEF WriteService
  <2> QED BY <1>1, <1>2, <1>5, <2>1, <2>2, <2>3, <2>4, <2>5, DatesSame
<1>33. ASSUME NEW h \in Hosts, Crash(h)
      PROVE  DatesOK'
  BY <1>33, <1>4 DEF Crash
<1>34. ASSUME Midnight
      PROVE  DatesOK'
  BY <1>34, <1>3, <1>5, <1>7, DatesMidnight
<1>35. ASSUME Net
      PROVE  DatesOK'
  <2> SUFFICES ASSUME NEW k \in env.acme
               PROVE  Dates(k)'
    BY <1>7
  <2>1. day' = day /\ stamp' = stamp /\ done' = done
    BY <1>35 DEF Net, certs, times
  <2>2. \/ Fresh(pem'[k]) \/ Lasting(pem'[k], Home[k], TRUE)
        \/ pem'[k] = pem[k] /\ (Getting(Home[k], k) => Getting(Home[k], k)')
    BY <1>35 DEF Net, certs, Getting, At1
  <2>3. \A q \in Callers : job'[q].pc = "deploy" /\ job'[q].c = k =>
          \/ job[q].pc = "deploy" /\ job[q].c = k /\ le'[k] = le[k]
          \/ Fresh(le'[k]) /\ le'[k] # NoCert
    BY <1>35 DEF Net, certs
  <2>4. \/ Fresh(dir'[Home[k]][Home[k]].has[k].cert)
        \/ Lasting(dir'[Home[k]][Home[k]].has[k].cert, Home[k], TRUE)
        \/ /\ dir'[Home[k]][Home[k]].has[k].cert = dir[Home[k]][Home[k]].has[k].cert
           /\ Built(Home[k])' => Built(Home[k])
    BY <1>35 DEF Net, files, Built, At1
  <2>5. pound'[Home[k]].reads[k].cert = pound[Home[k]].reads[k].cert
    BY <1>35 DEF Net
  <2> QED BY <1>1, <1>2, <1>5, <2>1, <2>2, <2>3, <2>4, <2>5, DatesSame
<1>36. ASSUME UNCHANGED vars
      PROVE  DatesOK'
  <2> SUFFICES ASSUME NEW k \in env.acme
               PROVE  Dates(k)'
    BY <1>7
  <2>1. day' = day /\ stamp' = stamp /\ done' = done
    BY <1>36 DEF vars
  <2>2. \/ Fresh(pem'[k]) \/ Lasting(pem'[k], Home[k], TRUE)
        \/ pem'[k] = pem[k] /\ (Getting(Home[k], k) => Getting(Home[k], k)')
    BY <1>36 DEF vars, Getting, At1
  <2>3. \A q \in Callers : job'[q].pc = "deploy" /\ job'[q].c = k =>
          \/ job[q].pc = "deploy" /\ job[q].c = k /\ le'[k] = le[k]
          \/ Fresh(le'[k]) /\ le'[k] # NoCert
    BY <1>36 DEF vars
  <2>4. \/ Fresh(dir'[Home[k]][Home[k]].has[k].cert)
        \/ Lasting(dir'[Home[k]][Home[k]].has[k].cert, Home[k], TRUE)
        \/ /\ dir'[Home[k]][Home[k]].has[k].cert = dir[Home[k]][Home[k]].has[k].cert
           /\ Built(Home[k])' => Built(Home[k])
    BY <1>36 DEF vars, Built, At1
  <2>5. pound'[Home[k]].reads[k].cert = pound[Home[k]].reads[k].cert
    BY <1>36 DEF vars
  <2> QED BY <1>1, <1>2, <1>5, <2>1, <2>2, <2>3, <2>4, <2>5, DatesSame
<1> QED
  BY <1>8, <1>9, <1>10, <1>11, <1>12, <1>13, <1>14, <1>15, <1>16, <1>17, <1>18,
     <1>19, <1>20, <1>21, <1>22, <1>23, <1>24, <1>25, <1>26, <1>27, <1>28, <1>29,
     <1>30, <1>31, <1>32, <1>33, <1>34, <1>35, <1>36, Zenon
  DEF Next, Goes, Certificates, Files, Sync, Command, vars

-----------------------------------------------------------------------------
LEMMA InvInit ==
  ASSUME Init
  PROVE  Inv
<1>1. /\ env \in Envs /\ env.last \in Nat \ {0} /\ Life \in Nat
      /\ env.last + Life \in Nat /\ 0 \in -1 .. env.last + Life /\ 0 \in 0 .. env.last + Life
  <2>1. env.last \in Nat \ {0} /\ Life \in Nat
    BY ConstantsAssumption DEF Init, Env
  <2> QED BY <2>1 DEF Init
<1>2. \A p \in Callers : job[p] = NoJob
  BY DEF Init
<1>3. NoJob.cmd = "none" /\ NoJob.pc = "none" /\ NoJob.todo = {} /\ NoJob.today = 0
  BY DEF NoJob
<1>4. \A p \in Callers : job[p].cmd = "none" /\ job[p].pc = "none"
  BY <1>2, <1>3
<1>5. \A h \in Hosts : Own(h) = {}
  BY DEF Init, Own
<1>6. NoService \in Service /\ [c \in Names |-> NoService] \in [Names -> Service]
  BY <1>1 DEF NoService, Service, NoCert
<1>7. Empty \in Directory /\ Empty.inc = {} /\ \A c \in Names : Empty.has[c] = NoService
  BY <1>6 DEF Empty, Directory
<1>8. \A h, d \in Hosts : dir[h][d] = Empty /\ known[h][d] = {}
  BY DEF Init
<1>9. /\ \A X : "none" \notin X => \A h : ~Around(h, X) /\ ~Grows(h, X)
      /\ \A h, c : ~InTodo(h, c) /\ ~Including(h, c)
  BY <1>4 DEF Around, Grows, At1, InTodo, Including, Build
<1>10. FilesOK
  <2>1. /\ ve \in [Names -> {"gone", "serve", "redirect"}]
        /\ pem \in [Names -> -1 .. env.last + Life] /\ le \in [Names -> 0 .. env.last + Life]
        /\ day \in 1 .. env.last /\ stamp \in [Hosts -> 0 .. env.last]
        /\ done \in [Hosts -> BOOLEAN] /\ cut \in BOOLEAN /\ main \in [Hosts -> SUBSET Hosts]
    <3>1. NoCert \in -1 .. env.last + Life /\ NoCert \in 0 .. env.last + Life
      BY <1>1 DEF NoCert
    <3>2. /\ ve \in [Names -> {"gone", "serve", "redirect"}]
          /\ pem \in [Names -> -1 .. env.last + Life] /\ le \in [Names -> 0 .. env.last + Life]
      BY <3>1 DEF Init
    <3>3. /\ done \in [Hosts -> BOOLEAN] /\ cut \in BOOLEAN /\ main \in [Hosts -> SUBSET Hosts]
      BY DEF Init
    <3>4. 0 \in 0 .. env.last /\ 1 \in 1 .. env.last
      BY <1>1
    <3>5. day \in 1 .. env.last /\ stamp \in [Hosts -> 0 .. env.last]
      BY <3>4 DEF Init
    <3> QED BY <3>2, <3>3, <3>5
  <2>2. /\ known \in [Hosts -> [Hosts -> SUBSET Names]]
        /\ dir \in [Hosts -> [Hosts -> Directory]]
        /\ \A h, d \in Hosts : known[h][d] \subseteq Mine(d) /\ dir[h][d].inc \subseteq Mine(d)
    BY <1>7, <1>8 DEF Init
  <2>3. pound \in [Hosts -> [up : BOOLEAN, reads : [Names -> Service]]]
    BY <1>6 DEF Init, Down
  <2> QED BY <1>1, <2>1, <2>2, <2>3 DEF FilesOK
<1>11. JobsOK
  <2>1. NoJob \in JobRecord /\ NoJob.pc \in Places(NoJob.cmd)
    BY <1>1, NoJobTyped
  <2>2. job \in [Callers -> JobRecord]
    BY <2>1 DEF Init
  <2>3. day = 1
    BY DEF Init
  <2> QED BY <1>2, <1>3, <2>1, <2>2, <2>3 DEF JobsOK
<1>12. OwnOK
  <2> SUFFICES ASSUME NEW h \in Hosts
               PROVE  Listed(h) /\ Written(h) /\ Topped(h) /\ Included(h)
    BY DEF OwnOK
  <2>1. Listed(h) /\ Included(h)
    BY <1>4, <1>5 DEF Listed, Included, At1, Build
  <2>2. Written(h)
    BY <1>5, <1>7, <1>8, <1>9 DEF Written
  <2>3. Topped(h)
    <3>1. \A p \in Callers : ~At1(p, h, Build \cup Link)
      BY <1>4 DEF At1, Build, Link
    <3>2. h \notin main[h]
      BY DEF Init
    <3> QED BY <1>7, <1>8, <3>1, <3>2 DEF Topped
  <2> QED BY <2>1, <2>2, <2>3
<1>13. PeersOK
  <2>1. \A h, d \in Hosts : Copied(h, d)
    BY <1>7, <1>8 DEF Init, Copied
  <2>2. \A h, d \in Hosts : Resolved(h, d)
    <3>1. \A h : ~Grows(h, BeforeFetch \ {"hosts"})
      BY <1>4 DEF Grows, At1, BeforeFetch, Rebuild, Build
    <3> QED BY <1>7, <1>8, <3>1 DEF Resolved
  <2> QED BY <2>1, <2>2 DEF PeersOK
<1>14. \A h \in Hosts, c \in Names : pound[h].reads[c] = NoService /\ pound[h].up
  BY DEF Init, Down
<1>15. NoService.cert = NoCert /\ NoService.kind = "none" /\ NoCert # Broken
  BY DEF NoService, NoCert, Broken
<1>16. CertsOK
  <2>1. \A h, d \in Hosts, c \in Names : dir[h][d].has[c].cert # Broken
    BY <1>7, <1>8, <1>15
  <2>2. \A c \in Names : pem[c] = NoCert /\ le[c] = NoCert
    BY DEF Init
  <2> QED BY <1>4, <1>14, <1>15, <2>1, <2>2 DEF CertsOK
<1>17. PoundOK
  <2>1. \A c \in Names : ve[c] = "gone"
    BY DEF Init
  <2>2. \A h \in Hosts : pound[h].up
    BY DEF Init, Down
  <2> QED BY <1>14, <1>15, <2>1, <2>2 DEF PoundOK, Mine
<1>18. DaysOK
  BY <1>4 DEF Init, DaysOK
<1>19. DatesOK
  <2>1. env.acme \subseteq Names /\ \A c \in Names : Home[c] \in Hosts
    BY <1>1, ConstantsAssumption DEF Env
  <2>2. \A h, w : Lasting(NoCert, h, w)
    BY DEF Lasting, Good
  <2>3. \A c \in Names : /\ pem[c] = NoCert
                         /\ \A h \in Hosts : dir[h][h].has[c].cert = NoCert
                                             /\ pound[h].reads[c].cert = NoCert
    BY <1>7, <1>8, <1>14, <1>15 DEF Init
  <2> QED BY <1>4, <2>1, <2>2, <2>3 DEF DatesOK
<1> QED BY <1>10, <1>11, <1>12, <1>13, <1>16, <1>17, <1>18, <1>19 DEF Inv

LEMMA InvKept ==
  ASSUME Inv, [Next]_vars
  PROVE  Inv'
BY JobsKept, FilesKept, OwnKept, PeersKept, CertsKept, PoundKept, DaysKept, DatesKept DEF Inv

(* What the invariant says of a state in which it holds.                   *)
LEMMA InvProxy ==
  ASSUME Inv
  PROVE  ProxyInv
<1>1. FilesOK /\ JobsOK /\ CertsOK /\ PoundOK /\ DatesOK
  BY DEF Inv
<1>2. TypeOK
  <2>1. \A h, d \in Hosts : /\ known[h][d] \subseteq Mine(d)
                            /\ dir[h][d].top \in BOOLEAN
                            /\ dir[h][d].inc \subseteq Mine(d)
                            /\ dir[h][d].has \in [Names -> Service]
    BY <1>1, Dirs DEF FilesOK
  <2>2. \A h \in Hosts : pound[h].up \in BOOLEAN /\ pound[h].reads \in [Names -> Service]
    BY <1>1 DEF FilesOK
  <2>3. \A p \in Callers : job[p].todo \subseteq Names
    BY <1>1 DEF JobsOK, Mine
  <2> QED BY <1>1, <2>1, <2>2, <2>3 DEF TypeOK, FilesOK, Mine
<1>3. Served
  <2> SUFFICES ASSUME Reliable, Active = {}, NEW h \in Hosts
               PROVE  /\ pound[h].up
                      /\ \A c \in Names : Home[c] = h =>
                           pound[h].reads[c].kind = IF ve[c] = "gone" THEN "none" ELSE ve[c]
    BY DEF Served, Reliable
  <2>1. Idle(h)
    BY DEF Active, Idle
  <2> QED BY <1>1, <2>1 DEF PoundOK, Mine
<1>4. NotEnded
  <2> SUFFICES ASSUME Dated, NEW h \in Hosts, NEW c \in env.acme, Home[c] = h,
                      pound[h].reads[c].cert # NoCert
               PROVE  pound[h].reads[c].cert > day
    BY DEF NotEnded, Dated
  <2>1. c \in Names
    BY <1>1, ConstantsAssumption DEF FilesOK, Env
  <2>2. pound[h].reads[c].cert # Broken
    BY <1>1, <2>1, DatedReliable DEF CertsOK
  <2>3. Good(pound[h].reads[c].cert, day)
    BY <1>1 DEF DatesOK, Lasting
  <2> QED BY <2>2, <2>3 DEF Good
<1> QED BY <1>2, <1>3, <1>4 DEF ProxyInv

(* In every reachable state, for any hosts, containers, callers and        *)
(* circumstances: what is kept has its type; when the commands have ended, *)
(* pound runs and serves what the settings say; and when each host         *)
(* regenerates every day, pound uses no certificate that has ended.        *)
THEOREM ProxySafe == Spec => []ProxyInv
<1>1. Spec => []Inv
  BY InvInit, InvKept, PTL DEF Spec
<1> QED BY <1>1, InvProxy, PTL
=============================================================================
