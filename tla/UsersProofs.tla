----------------------------- MODULE UsersProofs -----------------------------
(***************************************************************************)
(* Theorems about Users, for any hosts, users, containers, passwords and   *)
(* circumstances: logins, marks, files and hashes go together, hosts agree *)
(* on a password, an update that was cut off is repaired by the next one,  *)
(* and containers admit exactly those who are listed.                      *)
(***************************************************************************)
EXTENDS Users, FiniteSetTheorems, SequenceTheorems, TLAPS

-----------------------------------------------------------------------------
(* What may be left of the phases of a command, and of the steps of a      *)
(* phase.                                                                  *)
FromSync      == <<"sync", "configs", "hashes", "structure", "share", "sync">>
FromConfigs   == <<"configs", "hashes", "structure", "share", "sync">>
FromHashes    == <<"hashes", "structure", "share", "sync">>
FromStructure == <<"structure", "share", "sync">>
FromShare     == <<"share", "sync">>
FromLast      == <<"sync">>

Ahead(cmd) ==
  CASE cmd = "add-user"        -> {<<"add">>, <<"structure">>}
    [] cmd = "new-password"    -> {<<"new">>}
    [] cmd = "update-password" -> {<<"hashes">>}
    [] cmd = "regenerate"      -> {FromSync, FromConfigs, FromHashes,
                                   FromStructure, FromShare, FromLast}

StepNames == {"add", "list", "choose", "collect", "config", "append", "sync",
              "passwd", "mark", "sha", "save", "reset", "share"}

Left(phase) ==
  CASE phase = "sync"    -> {<<>>, <<"sync">>}
    [] phase = "configs" -> {<<>>, <<"config">>}
    [] phase = "share"   -> {<<>>, <<"share">>}
    [] phase = "hashes"  ->
         {<<>>, <<"collect">>, <<"passwd", "mark", "sha", "save">>,
          <<"mark", "sha", "save">>, <<"sha", "save">>, <<"save">>}
    [] phase = "new"     ->
         {<<>>, <<"choose", "collect">>,
          <<"collect">>, <<"passwd", "mark", "sha", "save">>,
          <<"mark", "sha", "save">>, <<"sha", "save">>, <<"save">>}
    [] phase = "add"     ->
         {<<>>, <<"add", "list">>, <<"list">>,
          <<"collect", "list">>, <<"passwd", "mark", "sha", "save", "list">>,
          <<"mark", "sha", "save", "list">>, <<"sha", "save", "list">>,
          <<"save", "list">>}
    [] phase = "structure" ->
         {<<>>, <<"reset">>, <<"add", "append">>, <<"append">>,
          <<"collect", "append">>, <<"passwd", "mark", "sha", "save", "append">>,
          <<"mark", "sha", "save", "append">>, <<"sha", "save", "append">>,
          <<"save", "append">>}

PhaseNames == {"add", "new", "hashes", "sync", "configs", "structure", "share"}

JobRecord ==
  [cmd : Commands \cup {"none"}, h : Hosts,
   phases : {<<>>} \cup UNION {Ahead(cmd) : cmd \in Commands},
   containers : SUBSET Containers, users : SUBSET Users,
   c : SUBSET Containers, u : SUBSET Users,
   steps : UNION {Left(phase) : phase \in PhaseNames}, cur : Word, password : Word]

(* A command that runs: where it is, and for whom.                         *)
Running(e, j) ==
  LET phase == Head(j.phases) IN
  /\ j.cmd \in e.commands
  /\ j.phases \in Ahead(j.cmd)
  /\ j.steps \in Left(phase)
  /\ j.users # {} => phase \notin {"sync", "share"}
  /\ j.containers # {} => phase \in {"structure", "share"}
  /\ j.containers \subseteq Here(j.h)
  /\ j.steps # <<>> /\ Head(j.steps) \notin {"sync", "reset", "share"} =>
       \E u \in Users : j.u = {u}
  /\ phase = "structure" /\ (j.steps # <<>> \/ j.users # {}) => \E c \in Here(j.h) : j.c = {c}
  /\ phase = "share" /\ j.steps # <<>> => \E c \in Here(j.h) : j.c = {c}
  /\ phase = "structure" /\ j.steps # <<>> /\ Head(j.steps) = "reset" => j.users = {}
  /\ phase = "add" /\ j.steps # <<>> => j.users = {}
  /\ phase = "add" => \A a, b \in j.users : a = b

JobsOK ==
  /\ job \in [Callers -> JobRecord]
  /\ \A p \in Callers : job[p] = NoJob \/ Running(env, job[p])
  /\ Single => \A p, q \in Callers : job[p].cmd # "none" /\ job[q].cmd # "none" => p = q

-----------------------------------------------------------------------------
Setting == {"passwd", "mark", "sha", "save"}
First(j, X) == j.steps # <<>> /\ Head(j.steps) \in X

(* A password is being set: x is the next step, w the password.            *)
SetOK(x, w, m, s, l) ==
  /\ w # None /\ m.password = w /\ s.password = w
  /\ x \in {"mark", "sha", "save"} => l = w
  /\ x \in {"sha", "save"} => s.mark = w
  /\ x = "save" => s.sha = w /\ m.sha = w

Steady == Single /\ ~({"edit", "meanwhile"} \subseteq env.events)

SetsOK == Steady => \A p \in Callers : First(job[p], Setting) =>
  \A u \in job[p].u :
    SetOK(Head(job[p].steps), job[p].password, home[job[p].h][u],
          store[job[p].h][u], login[job[p].h][u])

(* What was set is what the login, the hash and the mark say.              *)
Matches(m, s, l) ==
  IF s.mark = None THEN l = None
  ELSE l = s.mark /\ m.sha = l /\ m.password # None

Busy(h, u, X) == \E p \in Callers :
  job[p].h = h /\ u \in job[p].u /\ First(job[p], X)

KillFree == Single /\ "kill" \notin env.events /\ ~({"edit", "meanwhile"} \subseteq env.events)

MatchOK == KillFree => \A h \in Hosts, u \in Users :
  /\ Busy(h, u, Setting) \/ Matches(home[h][u], store[h][u], login[h][u])
  /\ "edit" \notin env.events /\ store[h][u].mark # None =>
       Busy(h, u, Setting \cup {"collect"}) \/ home[h][u].password = login[h][u]

(* The password of a user comes from Root.                                 *)
FromRoot(r, m, s, l) ==
  {m.password, s.password, s.passcode, l} \subseteq {None, r.passcode}
OneSource == Unchanged =>
  /\ \A h \in Hosts, u \in Users :
       FromRoot(store[Root][u], home[h][u], store[h][u], login[h][u])
  /\ \A p \in Callers : First(job[p], Setting) => \A u \in job[p].u :
       job[p].password \in {None, store[Root][u].passcode}

(* When passwords are chosen by get_password only and nobody interferes.   *)
Careful == Single /\ env.events \cap {"same", "meanwhile"} = {}

Sound(m, s, l) ==
  /\ s.sha # None => s.password # None
  /\ m.sha # None => m.password # None
  /\ s.mark # None => m.password # None
  /\ s.mark # None /\ s.mark = m.password => l = s.mark
SoundOK == Careful => \A h \in Hosts, u \in Users :
  Sound(home[h][u], store[h][u], login[h][u])

WordsOf(m, s, l) ==
  {m.password, m.sha, s.passcode, s.password, s.sha, s.mark, l}
Has(u, w) == \E h \in Hosts : w \in WordsOf(home[h][u], store[h][u], login[h][u])
Apart == Careful =>
  /\ \A u, v \in Users : \A w \in Passwords : Has(u, w) /\ Has(v, w) => u = v
  /\ \A p \in Callers, u \in Users :
       store[job[p].h][u].mark = None /\ Has(u, job[p].cur) => job[p].cur = None

(* Keys come from Root.                                                    *)
KeysOK == \A h \in Hosts, u \in Users :
  store[h][u].keys => store[h][u].there /\ store[Root][u].keys

(* What a regenerate has done, of the homes m, the stores s, the logins l, *)
(* and of containers: the lists ls, those who may enter, a, and hashes sh. *)
Orderly == Single /\ env.events \cap {"net", "kill", "same", "meanwhile"} = {}

Known(s, h) == \A u \in Users : s[h][u].keys = s[Root][u].keys
AllHashed(m, s, l, h, U) ==
  \A u \in Users \ U : m[h][u].there => s[h][u].sha = l[h][u]
Busied(j, X) == IF First(j, X) THEN j.u ELSE {}

(* A container that has its keys, but for those of the users in U, and     *)
(* whose users have accounts, but for those in V.                          *)
Admits(m, s, ls, a, c, h, U, V) ==
  /\ a[c] = {u \in ls[c] \ U : s[h][u].keys}
  /\ \A u \in ls[c] \ V : m[h][u].there
SharedOK(l, ls, sh, c, h) ==
  \A u \in Users : sh[c][u] = IF u \in ls[c] THEN l[h][u] ELSE None

InStructure(j, m, s, l, ls, a) ==
  /\ AllHashed(m, s, l, j.h, Busied(j, Setting \cup {"collect"}))
  /\ Busied(j, StepNames) \cap j.users = {}
  /\ \A c \in j.c :
       First(j, {"reset"}) \/ j.users \cup Busied(j, StepNames) \subseteq ls[c]
  /\ \A c \in Here(j.h) \ j.containers :
       \/ First(j, {"reset"}) /\ c \in j.c
       \/ c \notin j.c /\ Admits(m, s, ls, a, c, j.h, {}, {})
       \/ /\ c \in j.c
          /\ Admits(m, s, ls, a, c, j.h, j.users \cup Busied(j, StepNames),
                    j.users \cup Busied(j, {"add"}))

InShare(j, m, s, l, ls, a, sh) ==
  /\ AllHashed(m, s, l, j.h, {})
  /\ \A c \in Here(j.h) : Admits(m, s, ls, a, c, j.h, {}, {})
  /\ \A c \in Here(j.h) \ j.containers :
       SharedOK(l, ls, sh, c, j.h) \/ (c \in j.c /\ j.steps # <<>>)

AtEnd(j, s, l, ls, a, sh) ==
  \A c \in Here(j.h) :
    a[c] = {u \in ls[c] : s[Root][u].keys} /\ SharedOK(l, ls, sh, c, j.h)

Progress(j, m, s, l, ls, a, sh) ==
  /\ j.phases # FromSync \/ j.steps = <<>> => Known(s, j.h)
  /\ j.phases = FromHashes =>
       AllHashed(m, s, l, j.h, j.users \cup Busied(j, StepNames))
  /\ j.phases = FromStructure => InStructure(j, m, s, l, ls, a)
  /\ j.phases = FromShare => InShare(j, m, s, l, ls, a, sh)
  /\ j.phases = FromLast => AtEnd(j, s, l, ls, a, sh)

ProgressOK == Orderly => \A p \in Callers :
  job[p].cmd = "regenerate" =>
    Progress(job[p], home, store, login, listed, access, shared)

Inv == /\ TypeOK /\ JobsOK /\ SetsOK /\ MatchOK /\ OneSource /\ SoundOK /\ Apart
       /\ KeysOK /\ ProgressOK

-----------------------------------------------------------------------------
(* The lists of steps, one by one.                                         *)
Lists == UNION {Left(phase) : phase \in PhaseNames}

(* The first step of a list, and what comes after it.                      *)
LEMMA FirstSteps ==
  /\ \A x : <<x>> # <<>> /\ Head(<<x>>) = x /\ Tail(<<x>>) = <<>>
  /\ \A x, y : <<x, y>> # <<>> /\ Head(<<x, y>>) = x /\ Tail(<<x, y>>) = <<y>>
  /\ \A x, y, z : /\ <<x, y, z>> # <<>> /\ Head(<<x, y, z>>) = x
                  /\ Tail(<<x, y, z>>) = <<y, z>>
  /\ \A x, y, z, a : /\ <<x, y, z, a>> # <<>> /\ Head(<<x, y, z, a>>) = x
                     /\ Tail(<<x, y, z, a>>) = <<y, z, a>>
  /\ \A x, y, z, a, b : /\ <<x, y, z, a, b>> # <<>> /\ Head(<<x, y, z, a, b>>) = x
                        /\ Tail(<<x, y, z, a, b>>) = <<y, z, a, b>>
OBVIOUS

(* u is s followed by t.                                                   *)
Glues(s, t, u) ==
  /\ s \in Seq(StepNames) /\ t \in Seq(StepNames) /\ u \in Seq(StepNames)
  /\ Len(u) = Len(s) + Len(t)
  /\ \A i \in 1 .. Len(u) : u[i] = IF i <= Len(s) THEN s[i] ELSE t[i - Len(s)]

LEMMA Glued ==
  ASSUME NEW s, NEW t, NEW u, Glues(s, t, u)
  PROVE  s \o t = u
<1>1. PICK st : st = s \o t
  OBVIOUS
<1>2. /\ st \in Seq(StepNames) /\ Len(st) = Len(s) + Len(t)
      /\ \A i \in 1 .. Len(st) : st[i] = IF i <= Len(s) THEN s[i] ELSE t[i - Len(s)]
  BY <1>1, ConcatProperties DEF Glues
<1>3. st = u
  BY <1>2, SeqEqual DEF Glues
<1> QED BY <1>1, <1>3

(* Steps put before a list of at most one.                                 *)
LEMMA Prefixed ==
  /\ <<"collect">> \o <<"list">> = <<"collect", "list">>
  /\ <<"collect">> \o <<"append">> = <<"collect", "append">>
  /\ <<"passwd", "mark", "sha", "save">> \o <<>> = <<"passwd", "mark", "sha", "save">>
  /\ <<"passwd", "mark", "sha", "save">> \o <<"list">> =
       <<"passwd", "mark", "sha", "save", "list">>
  /\ <<"passwd", "mark", "sha", "save">> \o <<"append">> =
       <<"passwd", "mark", "sha", "save", "append">>
<1>1. /\ Glues(<<"collect">>, <<"list">>, <<"collect", "list">>)
      /\ Glues(<<"collect">>, <<"append">>, <<"collect", "append">>)
  BY DEF Glues, StepNames
<1>2. Glues(<<"passwd", "mark", "sha", "save">>, <<>>, <<"passwd", "mark", "sha", "save">>)
  BY DEF Glues, StepNames
<1>3. Glues(<<"passwd", "mark", "sha", "save">>, <<"list">>,
           <<"passwd", "mark", "sha", "save", "list">>)
  BY DEF Glues, StepNames
<1>4. Glues(<<"passwd", "mark", "sha", "save">>, <<"append">>,
           <<"passwd", "mark", "sha", "save", "append">>)
  BY DEF Glues, StepNames
<1> QED BY <1>1, <1>2, <1>3, <1>4, Glued, Zenon

(* What is done after a user was added.                                    *)
After(phase) ==
  IF phase = "add" THEN <<"list">> ELSE IF phase = "structure" THEN <<"append">> ELSE <<>>

(* What follows a step.                                                    *)
Follows(x, t, phase) ==
  /\ x \in {"sync", "config", "list", "append", "reset", "share"} => t = <<>>
  /\ x \in {"add", "collect", "save"} => t = After(phase)
  /\ x = "choose" => t = <<"collect">>
  /\ x = "passwd" => First([steps |-> t], {"mark"})
  /\ x = "mark" => First([steps |-> t], {"sha"})
  /\ x = "sha" => First([steps |-> t], {"save"})

(* And in which phase it is.                                               *)
Within(x, phase) ==
  /\ x = "sync" => phase = "sync"
  /\ x = "config" => phase = "configs"
  /\ x = "choose" => phase = "new"
  /\ x = "list" => phase = "add"
  /\ x \in {"append", "reset"} => phase = "structure"
  /\ x = "share" => phase = "share"
  /\ x = "add" => phase \in {"add", "structure"}
  /\ x \in Setting \cup {"collect"} => phase \in {"hashes", "new", "add", "structure"}

(* A list of steps that is not empty: x is first, t is what comes then.    *)
Splits(s, x, t) == s # <<>> /\ Head(s) = x /\ Tail(s) = t

Step1(phase, s, x, t) ==
  Splits(s, x, t) /\ x \in StepNames /\ t \in Left(phase) /\ Follows(x, t, phase)
    /\ Within(x, phase)

(* A password is set in four steps, before what is left, r.                *)
LEMMA Splitting ==
  /\ \A x : Splits(<<x>>, x, <<>>)
  /\ \A x, y : Splits(<<x, y>>, x, <<y>>)
  /\ \A x, y, z : Splits(<<x, y, z>>, x, <<y, z>>)
  /\ \A x, y, z, a : Splits(<<x, y, z, a>>, x, <<y, z, a>>)
  /\ \A x, y, z, a, b : Splits(<<x, y, z, a, b>>, x, <<y, z, a, b>>)
BY FirstSteps DEF Splits

LEMMA StepsLeft ==
  ASSUME NEW phase \in PhaseNames, NEW s \in Left(phase), s # <<>>
  PROVE  /\ Head(s) \in StepNames
         /\ Tail(s) \in Left(phase)
         /\ Follows(Head(s), Tail(s), phase)
         /\ Within(Head(s), phase)
<1>f. /\ First([steps |-> <<"mark", "sha", "save">>], {"mark"})
      /\ First([steps |-> <<"sha", "save">>], {"sha"})
      /\ First([steps |-> <<"save">>], {"save"})
      /\ First([steps |-> <<"mark", "sha", "save", "list">>], {"mark"})
      /\ First([steps |-> <<"sha", "save", "list">>], {"sha"})
      /\ First([steps |-> <<"save", "list">>], {"save"})
      /\ First([steps |-> <<"mark", "sha", "save", "append">>], {"mark"})
      /\ First([steps |-> <<"sha", "save", "append">>], {"sha"})
      /\ First([steps |-> <<"save", "append">>], {"save"})
  BY Splitting DEF First, Splits
<1>1. CASE phase = "sync"
  <2>1. Step1("sync", <<"sync">>, "sync", <<>>)
    BY <1>f, Splitting DEF Step1, Left, Follows, After, Within, Setting, StepNames
  <2> QED BY <1>1, <2>1 DEF Left, Step1, Splits
<1>2. CASE phase = "configs"
  <2>1. Step1("configs", <<"config">>, "config", <<>>)
    BY <1>f, Splitting DEF Step1, Left, Follows, After, Within, Setting, StepNames
  <2> QED BY <1>2, <2>1 DEF Left, Step1, Splits
<1>3. CASE phase = "share"
  <2>1. Step1("share", <<"share">>, "share", <<>>)
    BY <1>f, Splitting DEF Step1, Left, Follows, After, Within, Setting, StepNames
  <2> QED BY <1>3, <2>1 DEF Left, Step1, Splits
<1>4. CASE phase = "hashes"
  <2>1. Step1("hashes", <<"collect">>, "collect", <<>>)
    BY <1>f, Splitting DEF Step1, Left, Follows, After, Within, Setting, StepNames
  <2>2. Step1("hashes", <<"passwd", "mark", "sha", "save">>, "passwd", <<"mark", "sha", "save">>)
    BY <1>f, Splitting DEF Step1, Left, Follows, After, Within, Setting, StepNames
  <2>3. Step1("hashes", <<"mark", "sha", "save">>, "mark", <<"sha", "save">>)
    BY <1>f, Splitting DEF Step1, Left, Follows, After, Within, Setting, StepNames
  <2>4. Step1("hashes", <<"sha", "save">>, "sha", <<"save">>)
    BY <1>f, Splitting DEF Step1, Left, Follows, After, Within, Setting, StepNames
  <2>5. Step1("hashes", <<"save">>, "save", <<>>)
    BY <1>f, Splitting DEF Step1, Left, Follows, After, Within, Setting, StepNames
  <2> QED BY <1>4, <2>1, <2>2, <2>3, <2>4, <2>5 DEF Left, Step1, Splits
<1>5. CASE phase = "new"
  <2>1. Step1("new", <<"choose", "collect">>, "choose", <<"collect">>)
    BY <1>f, Splitting DEF Step1, Left, Follows, After, Within, Setting, StepNames
  <2>2. Step1("new", <<"collect">>, "collect", <<>>)
    BY <1>f, Splitting DEF Step1, Left, Follows, After, Within, Setting, StepNames
  <2>3. Step1("new", <<"passwd", "mark", "sha", "save">>, "passwd", <<"mark", "sha", "save">>)
    BY <1>f, Splitting DEF Step1, Left, Follows, After, Within, Setting, StepNames
  <2>4. Step1("new", <<"mark", "sha", "save">>, "mark", <<"sha", "save">>)
    BY <1>f, Splitting DEF Step1, Left, Follows, After, Within, Setting, StepNames
  <2>5. Step1("new", <<"sha", "save">>, "sha", <<"save">>)
    BY <1>f, Splitting DEF Step1, Left, Follows, After, Within, Setting, StepNames
  <2>6. Step1("new", <<"save">>, "save", <<>>)
    BY <1>f, Splitting DEF Step1, Left, Follows, After, Within, Setting, StepNames
  <2> QED BY <1>5, <2>1, <2>2, <2>3, <2>4, <2>5, <2>6 DEF Left, Step1, Splits
<1>6. CASE phase = "add"
  <2>1. Step1("add", <<"add", "list">>, "add", <<"list">>)
    BY <1>f, Splitting DEF Step1, Left, Follows, After, Within, Setting, StepNames
  <2>2. Step1("add", <<"list">>, "list", <<>>)
    BY <1>f, Splitting DEF Step1, Left, Follows, After, Within, Setting, StepNames
  <2>3. Step1("add", <<"collect", "list">>, "collect", <<"list">>)
    BY <1>f, Splitting DEF Step1, Left, Follows, After, Within, Setting, StepNames
  <2>4. Step1("add", <<"passwd", "mark", "sha", "save", "list">>, "passwd", <<"mark", "sha", "save", "list">>)
    BY <1>f, Splitting DEF Step1, Left, Follows, After, Within, Setting, StepNames
  <2>5. Step1("add", <<"mark", "sha", "save", "list">>, "mark", <<"sha", "save", "list">>)
    BY <1>f, Splitting DEF Step1, Left, Follows, After, Within, Setting, StepNames
  <2>6. Step1("add", <<"sha", "save", "list">>, "sha", <<"save", "list">>)
    BY <1>f, Splitting DEF Step1, Left, Follows, After, Within, Setting, StepNames
  <2>7. Step1("add", <<"save", "list">>, "save", <<"list">>)
    BY <1>f, Splitting DEF Step1, Left, Follows, After, Within, Setting, StepNames
  <2> QED BY <1>6, <2>1, <2>2, <2>3, <2>4, <2>5, <2>6, <2>7 DEF Left, Step1, Splits
<1>7. CASE phase = "structure"
  <2>1. Step1("structure", <<"reset">>, "reset", <<>>)
    BY <1>f, Splitting DEF Step1, Left, Follows, After, Within, Setting, StepNames
  <2>2. Step1("structure", <<"add", "append">>, "add", <<"append">>)
    BY <1>f, Splitting DEF Step1, Left, Follows, After, Within, Setting, StepNames
  <2>3. Step1("structure", <<"append">>, "append", <<>>)
    BY <1>f, Splitting DEF Step1, Left, Follows, After, Within, Setting, StepNames
  <2>4. Step1("structure", <<"collect", "append">>, "collect", <<"append">>)
    BY <1>f, Splitting DEF Step1, Left, Follows, After, Within, Setting, StepNames
  <2>5. Step1("structure", <<"passwd", "mark", "sha", "save", "append">>, "passwd", <<"mark", "sha", "save", "append">>)
    BY <1>f, Splitting DEF Step1, Left, Follows, After, Within, Setting, StepNames
  <2>6. Step1("structure", <<"mark", "sha", "save", "append">>, "mark", <<"sha", "save", "append">>)
    BY <1>f, Splitting DEF Step1, Left, Follows, After, Within, Setting, StepNames
  <2>7. Step1("structure", <<"sha", "save", "append">>, "sha", <<"save", "append">>)
    BY <1>f, Splitting DEF Step1, Left, Follows, After, Within, Setting, StepNames
  <2>8. Step1("structure", <<"save", "append">>, "save", <<"append">>)
    BY <1>f, Splitting DEF Step1, Left, Follows, After, Within, Setting, StepNames
  <2> QED BY <1>7, <2>1, <2>2, <2>3, <2>4, <2>5, <2>6, <2>7, <2>8 DEF Left, Step1, Splits
<1> QED BY <1>1, <1>2, <1>3, <1>4, <1>5, <1>6, <1>7 DEF PhaseNames

(* Steps are put before the others when a user is added and when a         *)
(* password is to be set.                                                  *)
LEMMA Longer ==
  ASSUME NEW phase \in PhaseNames, NEW s \in Left(phase), s # <<>>
  PROVE  /\ Head(s) = "collect" =>
              \E l \in Left(phase) :
                 /\ l = <<"passwd", "mark", "sha", "save">> \o Tail(s)
                 /\ First([steps |-> l], {"passwd"})
         /\ Head(s) = "add" =>
              \E l \in Left(phase) :
                 l = <<"collect">> \o Tail(s) /\ First([steps |-> l], {"collect"})
<1>1. Follows(Head(s), Tail(s), phase) /\ Within(Head(s), phase)
  BY StepsLeft
<1>2. CASE Head(s) = "collect"
  <2>1. Tail(s) = After(phase) /\ phase \in {"hashes", "new", "add", "structure"}
    BY <1>1, <1>2 DEF Follows, Within
  <2>2. PICK l : l = <<"passwd", "mark", "sha", "save">> \o After(phase)
    OBVIOUS
  <2>3. /\ phase \in {"hashes", "new"} => l = <<"passwd", "mark", "sha", "save">>
        /\ phase = "add" => l = <<"passwd", "mark", "sha", "save", "list">>
        /\ phase = "structure" => l = <<"passwd", "mark", "sha", "save", "append">>
    BY <2>2, Prefixed DEF After
  <2>4. l # <<>> /\ Head(l) = "passwd"
    <3>1. CASE phase \in {"hashes", "new"}
      <4>1. Splits(l, "passwd", <<"mark", "sha", "save">>)
        BY <2>3, <3>1, Splitting
      <4> QED BY <4>1 DEF Splits
    <3>2. CASE phase = "add"
      <4>1. Splits(l, "passwd", <<"mark", "sha", "save", "list">>)
        BY <2>3, <3>2, Splitting
      <4> QED BY <4>1 DEF Splits
    <3>3. CASE phase = "structure"
      <4>1. Splits(l, "passwd", <<"mark", "sha", "save", "append">>)
        BY <2>3, <3>3, Splitting
      <4> QED BY <4>1 DEF Splits
    <3> QED BY <2>1, <3>1, <3>2, <3>3
  <2>5. l \in Left(phase)
    BY <2>1, <2>3 DEF Left
  <2> QED BY <1>2, <2>1, <2>2, <2>4, <2>5 DEF First
<1>3. CASE Head(s) = "add"
  <2>1. Tail(s) = After(phase) /\ phase \in {"add", "structure"}
    BY <1>1, <1>3 DEF Follows, Within
  <2>2. PICK l : l = <<"collect">> \o After(phase)
    OBVIOUS
  <2>3. /\ phase = "add" => l = <<"collect", "list">>
        /\ phase = "structure" => l = <<"collect", "append">>
    BY <2>2, Prefixed DEF After
  <2>4. l # <<>> /\ Head(l) = "collect"
    <3>1. CASE phase = "add"
      <4>1. Splits(l, "collect", <<"list">>)
        BY <2>3, <3>1, Splitting
      <4> QED BY <4>1 DEF Splits
    <3>2. CASE phase = "structure"
      <4>1. Splits(l, "collect", <<"append">>)
        BY <2>3, <3>2, Splitting
      <4> QED BY <4>1 DEF Splits
    <3> QED BY <2>1, <3>1, <3>2
  <2>5. l \in Left(phase)
    BY <2>1, <2>3 DEF Left
  <2> QED BY <1>3, <2>1, <2>2, <2>4, <2>5 DEF First
<1> QED BY <1>2, <1>3

(* Where a regenerate is.                                                  *)
LEMMA Stages ==
  /\ /\ FromSync # <<>> /\ Head(FromSync) = "sync" /\ Len(FromSync) = 6
     /\ Tail(FromSync) = FromConfigs
  /\ /\ FromConfigs # <<>> /\ Head(FromConfigs) = "configs" /\ Len(FromConfigs) = 5
     /\ Tail(FromConfigs) = FromHashes
  /\ /\ FromHashes # <<>> /\ Head(FromHashes) = "hashes" /\ Len(FromHashes) = 4
     /\ Tail(FromHashes) = FromStructure
  /\ /\ FromStructure # <<>> /\ Head(FromStructure) = "structure"
     /\ Len(FromStructure) = 3 /\ Tail(FromStructure) = FromShare
  /\ /\ FromShare # <<>> /\ Head(FromShare) = "share" /\ Len(FromShare) = 2
     /\ Tail(FromShare) = FromLast
  /\ FromLast # <<>> /\ Head(FromLast) = "sync" /\ Len(FromLast) = 1
<1>1. /\ FromSync # <<>> /\ Head(FromSync) = "sync" /\ Len(FromSync) = 6
      /\ Tail(FromSync) = FromConfigs
  BY DEF FromSync, FromConfigs
<1>2. /\ FromConfigs # <<>> /\ Head(FromConfigs) = "configs" /\ Len(FromConfigs) = 5
      /\ Tail(FromConfigs) = FromHashes
  BY DEF FromConfigs, FromHashes
<1>3. /\ FromHashes # <<>> /\ Head(FromHashes) = "hashes" /\ Len(FromHashes) = 4
      /\ Tail(FromHashes) = FromStructure
  BY DEF FromHashes, FromStructure
<1>4. /\ FromStructure # <<>> /\ Head(FromStructure) = "structure"
      /\ Len(FromStructure) = 3 /\ Tail(FromStructure) = FromShare
  BY DEF FromStructure, FromShare
<1>5. /\ FromShare # <<>> /\ Head(FromShare) = "share" /\ Len(FromShare) = 2
      /\ Tail(FromShare) = FromLast
  BY DEF FromShare, FromLast
<1>6. FromLast # <<>> /\ Head(FromLast) = "sync" /\ Len(FromLast) = 1
  BY DEF FromLast
<1> QED BY <1>1, <1>2, <1>3, <1>4, <1>5, <1>6

(* The phases of a command: which one it is in, and which one is next.     *)
Next1(phases) ==
  CASE phases = FromSync      -> FromConfigs
    [] phases = FromConfigs   -> FromHashes
    [] phases = FromHashes    -> FromStructure
    [] phases = FromStructure -> FromShare
    [] phases = FromShare     -> FromLast

LEMMA PhasesLeft ==
  ASSUME NEW cmd \in Commands, NEW phases \in Ahead(cmd)
  PROVE  /\ phases # <<>> /\ Head(phases) \in PhaseNames
         /\ Len(phases) = 1 <=> cmd # "regenerate" \/ phases = FromLast
         /\ cmd = "regenerate" /\ phases # FromLast =>
              /\ Tail(phases) = Next1(phases) /\ Next1(phases) \in Ahead(cmd)
<1>1. CASE cmd # "regenerate"
  <2>1. \E x \in PhaseNames : phases = <<x>>
    BY <1>1 DEF Ahead, Commands, PhaseNames
  <2> QED BY <1>1, <2>1
<1>2. CASE cmd = "regenerate"
  <2>1. phases \in {FromSync, FromConfigs, FromHashes, FromStructure, FromShare, FromLast}
    BY <1>2 DEF Ahead
  <2>2. Len(phases) = 1 <=> phases = FromLast
    BY <2>1, Stages
  <2>3. phases # <<>> /\ Head(phases) \in PhaseNames
    BY <2>1, Stages DEF PhaseNames
  <2>4. phases # FromLast => Tail(phases) = Next1(phases) /\ Next1(phases) \in Ahead(cmd)
    BY <1>2, <2>1, Stages DEF Next1, Ahead
  <2> QED BY <1>2, <2>2, <2>3, <2>4
<1> QED BY <1>1, <1>2

(* A command of its own phases.                                            *)
LEMMA PhaseOf ==
  ASSUME NEW cmd \in Commands, NEW phases \in Ahead(cmd)
  PROVE  /\ cmd = "add-user" => Head(phases) \in {"add", "structure"}
         /\ cmd = "new-password" <=> Head(phases) = "new"
         /\ cmd = "update-password" => Head(phases) = "hashes"
         /\ cmd = "regenerate" => Head(phases) \notin {"add", "new"}
BY Stages DEF Commands, Ahead

-----------------------------------------------------------------------------
(* A caller without a command.                                             *)
LEMMA NoJobType ==
  /\ NoJob \in JobRecord /\ NoJob.cmd = "none" /\ NoJob.steps = <<>>
  /\ NoJob.cur = None /\ NoJob.users = {} /\ NoJob.u = {}
BY ConstantsAssumption, StepsLeft DEF NoJob, JobRecord, Word, Left, PhaseNames

(* The circumstances are as Env says.                                      *)
LEMMA EnvType ==
  ASSUME env \in Envs
  PROVE  /\ env.users \subseteq Users /\ env.commands \subseteq Commands
         /\ env.events \subseteq Events /\ env.together \in Nat \ {0}
BY ConstantsAssumption DEF Env

(* Where a command is that has something to do.                            *)
LEMMA Here1 ==
  ASSUME env \in Envs, JobsOK, NEW p \in Callers, job[p].steps # <<>>
  PROVE  LET j == job[p] IN
         /\ j \in JobRecord /\ Running(env, j)
         /\ j.cmd \in Commands /\ Head(j.phases) \in PhaseNames
         /\ Head(j.steps) \in StepNames /\ Tail(j.steps) \in Left(Head(j.phases))
         /\ Follows(Head(j.steps), Tail(j.steps), Head(j.phases))
         /\ Within(Head(j.steps), Head(j.phases))
<1>1. job[p] \in JobRecord /\ Running(env, job[p])
  BY NoJobType DEF JobsOK
<1>2. job[p].cmd \in Commands /\ Head(job[p].phases) \in PhaseNames
  BY <1>1, EnvType, PhasesLeft DEF Running
<1> QED BY <1>1, <1>2, StepsLeft DEF Running

(* A command goes on, or ends.                                             *)
LEMMA GoesOn ==
  ASSUME JobsOK, NEW p \in Callers, NEW j2 \in JobRecord, env' = env,
         job[p].cmd # "none", j2 = NoJob \/ Running(env, j2),
         job' = [job EXCEPT ![p] = j2]
  PROVE  JobsOK'
<1>1. /\ job' \in [Callers -> JobRecord]
      /\ \A q \in Callers : job'[q] = IF q = p THEN j2 ELSE job[q]
  BY DEF JobsOK
<1>2. \A q \in Callers : job'[q] = NoJob \/ Running(env', job'[q])
  BY <1>1 DEF JobsOK
<1>3. Single' => \A q, r \in Callers : job'[q].cmd # "none" /\ job'[r].cmd # "none" => q = r
  BY <1>1 DEF JobsOK, Single
<1> QED BY <1>1, <1>2, <1>3 DEF JobsOK

(* Only one command runs at a time, if that is so.                         *)
LEMMA AloneThen ==
  ASSUME env \in Envs, JobsOK, Single, NEW p \in Callers, job[p].cmd # "none"
  PROVE  \A q \in Callers : q # p => job[q] = NoJob
<1> SUFFICES ASSUME NEW q \in Callers, q # p, job[q] # NoJob PROVE FALSE
  OBVIOUS
<1>1. Running(env, job[q])
  BY DEF JobsOK
<1>2. job[q].cmd = "none" /\ job[q] \in JobRecord
  BY DEF JobsOK
<1> QED BY <1>1, <1>2, EnvType DEF Running, Commands
(* The next step, of those that are left or of others of the phase.        *)
LEMMA StepsOn ==
  ASSUME env \in Envs, NEW j \in JobRecord, Running(env, j), j.steps # <<>>,
         NEW t \in Left(Head(j.phases)), NEW w \in Word, NEW x \in Word, NEW j2,
         j2 = [j EXCEPT !.steps = t, !.cur = x, !.password = w],
         \/ t = <<>>
         \/ /\ Head(t) \notin {"sync", "reset", "share"}
            /\ Head(j.steps) \notin {"sync", "reset", "share"}
  PROVE  j2 \in JobRecord /\ Running(env, j2)
<1>1. Head(j.phases) \in PhaseNames
  BY EnvType, PhasesLeft DEF Running
<1>2. j2 \in JobRecord
  BY <1>1 DEF JobRecord
<1>3. Running(env, j2)
  BY DEF Running, JobRecord
<1> QED BY <1>2, <1>3

(* What comes after a step that was not the last one.                      *)
LEMMA TailHead ==
  ASSUME NEW phase \in PhaseNames, NEW s \in Left(phase), s # <<>>
  PROVE  \/ Tail(s) = <<>>
         \/ /\ Head(s) \notin {"sync", "reset", "share"}
            /\ Tail(s) # <<>> /\ Head(Tail(s)) \in {"list", "append", "collect", "mark", "sha", "save"}
<1>1. Follows(Head(s), Tail(s), phase) /\ Head(s) \in StepNames
  BY StepsLeft
<1>2. /\ <<"list">> # <<>> /\ Head(<<"list">>) = "list"
      /\ <<"append">> # <<>> /\ Head(<<"append">>) = "append"
      /\ <<"collect">> # <<>> /\ Head(<<"collect">>) = "collect"
  OBVIOUS
<1> QED BY <1>1, <1>2 DEF Follows, After, StepNames, First

(* A command does a step p of its list.                                    *)
Steps(p, j2) ==
  /\ job' = [job EXCEPT ![p] = j2]
  /\ j2 \in JobRecord /\ Running(env, j2) /\ JobsOK'
  /\ \A q \in Callers : job'[q] = IF q = p THEN j2 ELSE job[q]

LEMMA StepDone ==
  ASSUME env \in Envs, JobsOK, env' = env, NEW p \in Callers, job[p].steps # <<>>, Done(p)
  PROVE  Steps(p, [job[p] EXCEPT !.steps = Tail(@)])
<1>1. PICK j \in JobRecord : j = job[p]
  BY DEF JobsOK
<1>2. PICK j2 : j2 = [j EXCEPT !.steps = Tail(@)]
  OBVIOUS
<1>3. /\ Running(env, j) /\ Head(j.phases) \in PhaseNames /\ Tail(j.steps) \in Left(Head(j.phases))
      /\ j.cmd \in Commands
  BY <1>1, Here1
<1>4. j2 = [j EXCEPT !.steps = Tail(j.steps), !.cur = j.cur, !.password = j.password]
  BY <1>2 DEF JobRecord
<1>5. j.cur \in Word /\ j.password \in Word /\ j.steps \in Left(Head(j.phases))
  BY <1>3 DEF JobRecord, Running
<1>6. \/ Tail(j.steps) = <<>>
      \/ /\ Head(Tail(j.steps)) \notin {"sync", "reset", "share"}
         /\ Head(j.steps) \notin {"sync", "reset", "share"}
  BY <1>1, <1>3, <1>5, TailHead
<1>7. j2 \in JobRecord /\ Running(env, j2)
  BY <1>1, <1>3, <1>4, <1>5, <1>6, StepsOn
<1>8. job' = [job EXCEPT ![p] = j2]
  BY <1>1, <1>2 DEF Done
<1>9. JobsOK'
  BY <1>1, <1>3, <1>7, <1>8, GoesOn DEF Commands
<1> QED BY <1>1, <1>2, <1>7, <1>8, <1>9 DEF Steps, JobsOK

(* What get_password returns is a password.                                *)
LEMMA UnusedWord ==
  ASSUME NEW w \in Unused
  PROVE  w \in Passwords /\ w \in Word /\ w # None
BY ConstantsAssumption DEF Unused, Word

-----------------------------------------------------------------------------
(* A command begins.                                                       *)
Begun(cmd, h, u, C) ==
  [NoJob EXCEPT !.cmd = cmd, !.h = h, !.phases = Phases(cmd), !.c = C,
                !.users = IF cmd = "regenerate" THEN {} ELSE {u},
                !.steps = IF cmd = "regenerate" THEN <<"sync">> ELSE <<>>]

LEMMA CommandBegins ==
  ASSUME env \in Envs, JobsOK, env' = env, NEW p \in Callers, NEW cmd \in Commands,
         NEW h \in Hosts, NEW u \in Users, NEW C \in SUBSET Containers, Command(p, cmd, h, u, C)
  PROVE  Steps(p, Begun(cmd, h, u, C)) /\ (Single => Active = {})
<1>1. PICK j2 : j2 = Begun(cmd, h, u, C)
  OBVIOUS
<1>2. /\ j2.cmd = cmd /\ j2.h = h /\ j2.phases = Phases(cmd) /\ j2.c = C
      /\ j2.users = (IF cmd = "regenerate" THEN {} ELSE {u})
      /\ j2.steps = (IF cmd = "regenerate" THEN <<"sync">> ELSE <<>>)
      /\ j2.containers = {} /\ j2.u = {} /\ j2.cur = None /\ j2.password = None
  BY <1>1 DEF Begun, NoJob
<1>3. Phases(cmd) \in Ahead(cmd) /\ Phases(cmd) # <<>>
  BY DEF Phases, Ahead, Commands, FromSync
<1>4. Head(Phases(cmd)) = "sync" <=> cmd = "regenerate"
  BY Stages DEF Phases, Commands, FromSync
<1>5. Head(Phases(cmd)) \in PhaseNames /\ Head(Phases(cmd)) \notin {"structure", "share"}
  BY Stages, <1>3, PhasesLeft DEF Phases, Commands, FromSync
<1>6. j2.steps \in Left(Head(Phases(cmd)))
  BY <1>2, <1>4, <1>5 DEF Left, PhaseNames
<1>7. <<"sync">> # <<>> /\ Head(<<"sync">>) = "sync"
  OBVIOUS
<1>8. j2 \in JobRecord
  <2>1. /\ j2.phases \in {<<>>} \cup UNION {Ahead(c) : c \in Commands}
        /\ j2.steps \in UNION {Left(phase) : phase \in PhaseNames}
        /\ j2.users \subseteq Users /\ None \in Word
    BY <1>2, <1>3, <1>5, <1>6 DEF Word
  <2>2. j2 = [cmd |-> j2.cmd, h |-> j2.h, phases |-> j2.phases, containers |-> j2.containers,
              users |-> j2.users, c |-> j2.c, u |-> j2.u, steps |-> j2.steps,
              cur |-> j2.cur, password |-> j2.password]
    BY <1>1 DEF Begun, NoJob
  <2> QED BY <1>2, <2>1, <2>2 DEF JobRecord
<1>9. Running(env, j2)
  BY <1>2, <1>3, <1>4, <1>5, <1>6, <1>7 DEF Running, Command
<1>10. job' = [job EXCEPT ![p] = j2] /\ job[p].cmd = "none"
  BY <1>1 DEF Command, Begun
<1>11. Single => Active = {}
  <2> SUFFICES ASSUME Single PROVE Active = {}
    OBVIOUS
  <2>1. IsFiniteSet(Active)
    BY ConstantsAssumption, FS_Subset DEF Active
  <2>2. Cardinality(Active) \in Nat /\ Cardinality(Active) < 1
    BY <2>1, FS_CardinalityType DEF Command, Single
  <2> QED BY <2>1, <2>2, FS_EmptySet
<1>12. /\ job' \in [Callers -> JobRecord]
       /\ \A q \in Callers : job'[q] = IF q = p THEN j2 ELSE job[q]
  BY <1>8, <1>10 DEF JobsOK
<1>13. JobsOK'
  <2>1. \A q \in Callers : job'[q] = NoJob \/ Running(env', job'[q])
    BY <1>9, <1>12 DEF JobsOK
  <2>2. Single' => \A q, r \in Callers : job'[q].cmd # "none" /\ job'[r].cmd # "none" => q = r
    BY <1>11, <1>12 DEF JobsOK, Single, Active
  <2> QED BY <1>12, <2>1, <2>2 DEF JobsOK
<1> QED BY <1>1, <1>8, <1>9, <1>10, <1>11, <1>12, <1>13 DEF Steps

(* Where a command is that has no step left.                               *)
LEMMA Between ==
  ASSUME env \in Envs, JobsOK, NEW p \in Callers,
         job[p].cmd # "none" \/ job[p].users # {} \/ job[p].containers # {}
  PROVE  LET j == job[p] IN
         /\ j \in JobRecord /\ Running(env, j) /\ j.cmd \in Commands
         /\ j.phases \in Ahead(j.cmd) /\ Head(j.phases) \in PhaseNames
<1>1. job[p] \in JobRecord /\ Running(env, job[p])
  BY NoJobType DEF JobsOK, NoJob
<1> QED BY <1>1, EnvType, PhasesLeft DEF Running

LEMMA NextUserSteps ==
  ASSUME env \in Envs, JobsOK, env' = env, NEW p \in Callers, NEW u \in Users, NextUser(p, u)
  PROVE  Steps(p, [job[p] EXCEPT !.users = @ \ {u}, !.u = {u},
                                 !.steps = StepsFor(Head(job[p].phases))])
<1>1. PICK j \in JobRecord : j = job[p]
  BY DEF JobsOK
<1>2. PICK j2 : j2 = [j EXCEPT !.users = @ \ {u}, !.u = {u}, !.steps = StepsFor(Head(j.phases))]
  OBVIOUS
<1>3. /\ Running(env, j) /\ j.cmd \in Commands /\ Head(j.phases) \in PhaseNames
      /\ j.steps = <<>> /\ j.users # {}
  BY <1>1, Between DEF NextUser
<1>4. Head(j.phases) \in {"add", "new", "configs", "hashes", "structure"}
  BY <1>3 DEF Running, PhaseNames
<1>5. StepsFor(Head(j.phases)) \in Left(Head(j.phases))
  BY <1>4 DEF StepsFor, Left
<1>6. StepsFor(Head(j.phases)) # <<>> /\ Head(StepsFor(Head(j.phases))) \notin {"sync", "reset", "share"}
  BY <1>4 DEF StepsFor
<1>7. j2 \in JobRecord
  BY <1>2, <1>3, <1>5 DEF JobRecord
<1>8. Running(env, j2)
  <2>1. /\ j2.cmd = j.cmd /\ j2.h = j.h /\ j2.phases = j.phases /\ j2.c = j.c /\ j2.u = {u}
        /\ j2.users = j.users \ {u} /\ j2.steps = StepsFor(Head(j.phases))
        /\ j2.containers = j.containers
    BY <1>2 DEF JobRecord
  <2>2. Head(j.phases) = "add" => j2.users = {}
    <3>1. u \in j.users
      BY <1>1 DEF NextUser
    <3> QED BY <1>3, <2>1, <3>1 DEF Running
  <2>3. j2.steps # <<>> /\ Head(j2.steps) \notin {"sync", "reset", "share"}
    BY <1>6, <2>1
  <2>4. Head(j.phases) = "structure" => \E c \in Here(j.h) : j.c = {c}
    BY <1>3 DEF Running
  <2>5. j.cmd \in env.commands /\ j.phases \in Ahead(j.cmd) /\ j.containers \subseteq Here(j.h)
        /\ (j.containers # {} => Head(j.phases) \in {"structure", "share"})
    BY <1>3 DEF Running
  <2>6. \E v \in Users : j2.u = {v}
    BY <2>1
  <2> QED BY <1>4, <1>5, <2>1, <2>2, <2>3, <2>4, <2>5, <2>6 DEF Running
<1>9. job' = [job EXCEPT ![p] = j2]
  <2>1. job' = [job EXCEPT ![p] =
                 [job[p] EXCEPT !.users = @ \ {u}, !.u = {u},
                                !.steps = StepsFor(Head(job[p].phases))]]
    BY DEF NextUser
  <2> QED BY <1>1, <1>2, <2>1, Zenon
<1>10. JobsOK'
  BY <1>1, <1>3, <1>7, <1>8, <1>9, GoesOn DEF Commands
<1> QED BY <1>1, <1>2, <1>7, <1>8, <1>9, <1>10 DEF Steps, JobsOK

LEMMA NextContainerSteps ==
  ASSUME env \in Envs, JobsOK, env' = env, NEW p \in Callers, NEW c \in Containers,
         NextContainer(p, c)
  PROVE  /\ Steps(p, [job[p] EXCEPT !.containers = @ \ {c}, !.c = {c},
                        !.steps = IF Head(job[p].phases) = "share"
                                  THEN <<"share">> ELSE <<"reset">>])
         /\ Head(job[p].phases) \in {"structure", "share"}
<1>1. PICK j \in JobRecord : j = job[p]
  BY DEF JobsOK
<1>2. PICK j2 : j2 = [j EXCEPT !.containers = @ \ {c}, !.c = {c},
                        !.steps = IF Head(j.phases) = "share" THEN <<"share">> ELSE <<"reset">>]
  OBVIOUS
<1>3. /\ Running(env, j) /\ j.cmd \in Commands /\ Head(j.phases) \in PhaseNames
      /\ j.steps = <<>> /\ j.users = {} /\ c \in j.containers
  BY <1>1, Between DEF NextContainer
<1>4. Head(j.phases) \in {"structure", "share"} /\ c \in Here(j.h)
  BY <1>3 DEF Running, PhaseNames
<1>5. /\ j2.steps \in Left(Head(j.phases))
      /\ j2.steps = (IF Head(j.phases) = "share" THEN <<"share">> ELSE <<"reset">>)
  BY <1>2, <1>4 DEF Left, JobRecord
<1>6. j2.steps # <<>> /\ Head(j2.steps) \in {"sync", "reset", "share"}
  BY <1>5
<1>7. j2 \in JobRecord
  BY <1>2, <1>3, <1>5 DEF JobRecord
<1>8. Running(env, j2)
  BY <1>2, <1>3, <1>4, <1>5, <1>6 DEF Running, JobRecord
<1>9. job' = [job EXCEPT ![p] = j2]
  <2>1. job' = [job EXCEPT ![p] =
                 [job[p] EXCEPT !.containers = @ \ {c}, !.c = {c},
                                !.steps = IF Head(job[p].phases) = "share"
                                          THEN <<"share">> ELSE <<"reset">>]]
    BY DEF NextContainer
  <2> QED BY <1>1, <1>2, <2>1, Zenon
<1>10. JobsOK'
  BY <1>1, <1>3, <1>7, <1>8, <1>9, GoesOn DEF Commands
<1> QED BY <1>1, <1>2, <1>4, <1>7, <1>8, <1>9, <1>10 DEF Steps, JobsOK

(* A phase ends: the command does, or the next one begins.                 *)
NextOne(j) ==
  LET phase == Head(Tail(j.phases)) IN
  [j EXCEPT !.phases = Tail(@),
            !.steps = IF phase = "sync" THEN <<"sync">> ELSE <<>>,
            !.users = IF phase \in {"configs", "hashes"} THEN Homes(j.h) ELSE {},
            !.containers = IF phase \in {"structure", "share"} THEN Here(j.h) ELSE {}]

LEMMA NextPhaseSteps ==
  ASSUME env \in Envs, JobsOK, env' = env, NEW p \in Callers, NextPhase(p)
  PROVE  /\ JobsOK' /\ job[p].cmd # "none"
         /\ \/ /\ job' = [job EXCEPT ![p] = NoJob]
               /\ job[p].cmd = "regenerate" => job[p].phases = FromLast
            \/ /\ job[p].cmd = "regenerate" /\ job[p].phases # FromLast
               /\ Steps(p, NextOne(job[p]))
               /\ Tail(job[p].phases) = Next1(job[p].phases)
<1>1. PICK j \in JobRecord : j = job[p]
  BY DEF JobsOK
<1>2. /\ Running(env, j) /\ j.cmd \in Commands /\ j.phases \in Ahead(j.cmd)
      /\ j.steps = <<>> /\ j.users = {} /\ j.containers = {} /\ j.cmd # "none"
  BY <1>1, Between DEF NextPhase, Commands
<1>3. Len(j.phases) = 1 <=> j.cmd # "regenerate" \/ j.phases = FromLast
  BY <1>2, PhasesLeft
<1>4. CASE Len(j.phases) = 1
  <2>1. job' = [job EXCEPT ![p] = NoJob]
    BY <1>1, <1>4 DEF NextPhase
  <2>2. JobsOK'
    BY <1>1, <1>2, <2>1, NoJobType, GoesOn
  <2> QED BY <1>1, <1>2, <1>3, <1>4, <2>1, <2>2
<1>5. CASE Len(j.phases) # 1
  <2>1. PICK j2 : j2 = NextOne(j)
    OBVIOUS
  <2>2. job' = [job EXCEPT ![p] = j2]
    BY <1>1, <1>5, <2>1 DEF NextPhase, NextOne
  <2>3. /\ j.cmd = "regenerate" /\ j.phases # FromLast
        /\ Tail(j.phases) = Next1(j.phases) /\ Next1(j.phases) \in Ahead(j.cmd)
    BY <1>2, <1>3, <1>5, PhasesLeft
  <2>4. PICK phase : phase = Head(Tail(j.phases))
    OBVIOUS
  <2>5. phase \in PhaseNames /\ phase \notin {"add", "new"}
    BY <1>2, <2>3, <2>4, PhasesLeft, PhaseOf
  <2>6. /\ j2.cmd = j.cmd /\ j2.h = j.h /\ j2.phases = Tail(j.phases) /\ j2.c = j.c /\ j2.u = j.u
        /\ j2.steps = (IF phase = "sync" THEN <<"sync">> ELSE <<>>)
        /\ j2.users = (IF phase \in {"configs", "hashes"} THEN Homes(j.h) ELSE {})
        /\ j2.containers = (IF phase \in {"structure", "share"} THEN Here(j.h) ELSE {})
    BY <2>1, <2>4 DEF NextOne, JobRecord
  <2>7. <<"sync">> # <<>> /\ Head(<<"sync">>) = "sync"
    OBVIOUS
  <2>8. j2.steps \in Left(phase)
    BY <2>5, <2>6 DEF Left, PhaseNames
  <2>9. j2 \in JobRecord
    <3>1. Homes(j.h) \subseteq Users /\ Here(j.h) \subseteq Containers
      BY DEF Homes, Here
    <3>2. /\ j2.steps \in UNION {Left(x) : x \in PhaseNames}
          /\ j2.phases \in UNION {Ahead(x) : x \in Commands}
      BY <1>2, <2>3, <2>5, <2>6, <2>8
    <3> QED BY <2>1, <2>6, <3>1, <3>2 DEF NextOne, JobRecord
  <2>10. Running(env, j2)
    BY <1>2, <2>3, <2>4, <2>5, <2>6, <2>7, <2>8 DEF Running
  <2>11. JobsOK'
    BY <1>1, <1>2, <2>2, <2>9, <2>10, GoesOn
  <2> QED BY <1>1, <1>2, <2>1, <2>2, <2>3, <2>9, <2>10, <2>11 DEF Steps, JobsOK
<1> QED BY <1>4, <1>5

(* A command is killed.                                                    *)
LEMMA KillSteps ==
  ASSUME env \in Envs, JobsOK, env' = env, NEW p \in Callers, Kill(p)
  PROVE  JobsOK' /\ job' = [job EXCEPT ![p] = NoJob] /\ "kill" \in env.events
BY NoJobType, GoesOn DEF Kill

(* add_user goes on to the password of a user without a home or a store.   *)
LEMMA AddSteps ==
  ASSUME env \in Envs, JobsOK, env' = env, NEW p \in Callers, Add(p)
  PROVE  LET j == job[p] IN
         \E u \in Users, t \in Left(Head(j.phases)) :
           /\ j.u = {u} /\ Head(j.phases) \in {"add", "structure"}
           /\ Steps(p, [j EXCEPT !.steps = t])
           /\ home' = [home EXCEPT ![j.h][u].there = TRUE]
           /\ IF home[j.h][u].there /\ store[j.h][u].there THEN t = Tail(j.steps)
              ELSE First([steps |-> t], {"collect"})
<1>1. PICK j \in JobRecord : j = job[p]
  BY DEF JobsOK
<1>2. j.steps # <<>> /\ Head(j.steps) = "add"
  BY <1>1 DEF Add, At
<1>3. /\ Running(env, j) /\ Head(j.phases) \in PhaseNames /\ j.cmd \in Commands
      /\ Tail(j.steps) \in Left(Head(j.phases)) /\ Within("add", Head(j.phases))
      /\ j.steps \in Left(Head(j.phases))
  BY <1>1, <1>2, Here1 DEF Running
<1>4. PICK u \in Users : j.u = {u}
  BY <1>2, <1>3 DEF Running
<1>5. /\ home' = [home EXCEPT ![j.h][u].there = TRUE]
      /\ job' = [job EXCEPT ![p].steps =
            IF home[j.h][u].there /\ store[j.h][u].there THEN Tail(@)
            ELSE <<"collect">> \o Tail(@)]
  BY <1>1, <1>4 DEF Add
<1>6. PICK t \in Left(Head(j.phases)) :
        /\ t = IF home[j.h][u].there /\ store[j.h][u].there THEN Tail(j.steps)
               ELSE <<"collect">> \o Tail(j.steps)
        /\ IF home[j.h][u].there /\ store[j.h][u].there THEN t = Tail(j.steps)
           ELSE First([steps |-> t], {"collect"})
  BY <1>2, <1>3, Longer
<1>7. t = <<>> \/ Head(t) \notin {"sync", "reset", "share"}
  BY <1>2, <1>3, <1>6, TailHead DEF First
<1>8. PICK j2 : j2 = [j EXCEPT !.steps = t]
  OBVIOUS
<1>9. j2 = [j EXCEPT !.steps = t, !.cur = j.cur, !.password = j.password]
  BY <1>8 DEF JobRecord
<1>10. j.cur \in Word /\ j.password \in Word
  BY DEF JobRecord
<1>11. j2 \in JobRecord /\ Running(env, j2)
  BY <1>2, <1>3, <1>7, <1>9, <1>10, StepsOn
<1>12. job' = [job EXCEPT ![p] = j2]
  BY <1>1, <1>5, <1>6, <1>8
<1>13. JobsOK'
  BY <1>1, <1>3, <1>11, <1>12, GoesOn DEF Commands
<1>14. Steps(p, j2)
  BY <1>11, <1>12, <1>13 DEF Steps, JobsOK
<1> QED BY <1>1, <1>3, <1>4, <1>5, <1>6, <1>8, <1>14 DEF Within

(* add-user lists the user and goes on to the containers of the host.      *)
LEMMA ListSteps ==
  ASSUME env \in Envs, JobsOK, env' = env, NEW p \in Callers, List(p)
  PROVE  LET j == job[p] IN
         /\ j.cmd = "add-user" /\ j.u \subseteq Users
         /\ Steps(p, [j EXCEPT !.steps = <<>>,
                        !.phases = IF j.c = {} THEN @ ELSE <<"structure">>,
                        !.containers = IF j.c = {} THEN {} ELSE Here(j.h)])
<1>1. PICK j \in JobRecord : j = job[p]
  BY DEF JobsOK
<1>2. PICK j2 : j2 = [j EXCEPT !.steps = <<>>,
                        !.phases = IF j.c = {} THEN @ ELSE <<"structure">>,
                        !.containers = IF j.c = {} THEN {} ELSE Here(j.h)]
  OBVIOUS
<1>3. j.steps # <<>> /\ Head(j.steps) = "list"
  BY <1>1 DEF List, At
<1>4. /\ Running(env, j) /\ j.cmd \in Commands
      /\ Within("list", Head(j.phases)) /\ j.phases \in Ahead(j.cmd)
  BY <1>1, <1>3, Here1 DEF Running
<1>5. Head(j.phases) = "add" /\ j.cmd = "add-user"
  BY <1>4, PhaseOf DEF Within, Commands
<1>6. /\ j2.cmd = j.cmd /\ j2.h = j.h /\ j2.c = j.c /\ j2.u = j.u /\ j2.users = j.users
      /\ j2.steps = <<>>
      /\ j2.phases = (IF j.c = {} THEN j.phases ELSE <<"structure">>)
      /\ j2.containers = (IF j.c = {} THEN {} ELSE Here(j.h))
  BY <1>2 DEF JobRecord
<1>7. /\ Head(<<"structure">>) = "structure" /\ <<"structure">> \in Ahead("add-user")
      /\ <<>> \in Left("structure") /\ <<>> \in Left("add")
  BY DEF Ahead, Left
<1>8. j2 \in JobRecord
  <2>1. /\ j2.phases \in {<<>>} \cup UNION {Ahead(cmd) : cmd \in Commands}
        /\ j2.steps \in UNION {Left(phase) : phase \in PhaseNames}
        /\ j2.containers \subseteq Containers
    BY <1>4, <1>5, <1>6, <1>7 DEF Here, PhaseNames, JobRecord
  <2> QED BY <1>2, <1>6, <2>1 DEF JobRecord
<1>9. Running(env, j2)
  <2>1. j.users = {} /\ j.containers = {}
    BY <1>3, <1>4, <1>5 DEF Running
  <2>2. CASE j.c = {}
    BY <1>4, <1>5, <1>6, <1>7, <2>1, <2>2 DEF Running
  <2>3. CASE j.c # {}
    BY <1>4, <1>5, <1>6, <1>7, <2>1, <2>3 DEF Running
  <2> QED BY <2>2, <2>3
<1>10. job' = [job EXCEPT ![p] = j2]
  <2>1. job' = [job EXCEPT ![p] =
                 [job[p] EXCEPT !.steps = <<>>,
                                !.phases = IF job[p].c = {} THEN @ ELSE <<"structure">>,
                                !.containers = IF job[p].c = {} THEN {} ELSE Here(job[p].h)]]
    BY DEF List
  <2> QED BY <1>1, <1>2, <2>1, Zenon
<1>11. JobsOK'
  BY <1>1, <1>4, <1>8, <1>9, <1>10, GoesOn DEF Commands
<1> QED BY <1>1, <1>2, <1>5, <1>8, <1>9, <1>10, <1>11 DEF Steps, JobsOK, JobRecord

-----------------------------------------------------------------------------
(* The files of users.                                                     *)
HomeRecord  == [there : BOOLEAN, password : Word, sha : Word]
StoreRecord == [there : BOOLEAN, passcode : Word, password : Word, sha : Word,
                mark : Word, keys : BOOLEAN]

FilesType ==
  /\ home \in [Hosts -> [Users -> HomeRecord]]
  /\ store \in [Hosts -> [Users -> StoreRecord]]
  /\ login \in [Hosts -> [Users -> Word]]

(* The files and the login of one user at one host become m, s and l.      *)
Puts(h, u, m, s, l) ==
  /\ FilesType'
  /\ \A g \in Hosts, v \in Users :
       /\ home'[g][v]  = IF g = h /\ v = u THEN m ELSE home[g][v]
       /\ store'[g][v] = IF g = h /\ v = u THEN s ELSE store[g][v]
       /\ login'[g][v] = IF g = h /\ v = u THEN l ELSE login[g][v]

LEMMA OneEntry ==
  ASSUME NEW S, NEW f \in [Hosts -> [Users -> S]], NEW h \in Hosts, NEW u \in Users,
         NEW x \in S, NEW f2, f2 = [f EXCEPT ![h][u] = x]
  PROVE  /\ f2 \in [Hosts -> [Users -> S]]
         /\ \A g \in Hosts, v \in Users : f2[g][v] = IF g = h /\ v = u THEN x ELSE f[g][v]
OBVIOUS

(* What a step is done for.                                                *)
LEMMA StepFor ==
  ASSUME env \in Envs, JobsOK, NEW p \in Callers, NEW x, At(p, x),
         x \notin {"sync", "reset", "share"}
  PROVE  \E u \in Users : job[p].u = {u}
BY Here1 DEF At, Running

LEMMA PutsAll ==
  ASSUME FilesType, NEW h \in Hosts, NEW u \in Users, NEW m \in HomeRecord,
         NEW s \in StoreRecord, NEW l \in Word,
         home' = [home EXCEPT ![h][u] = m], store' = [store EXCEPT ![h][u] = s],
         login' = [login EXCEPT ![h][u] = l]
  PROVE  Puts(h, u, m, s, l)
<1>1. /\ home' \in [Hosts -> [Users -> HomeRecord]]
      /\ \A g \in Hosts, v \in Users :
           home'[g][v] = IF g = h /\ v = u THEN m ELSE home[g][v]
  BY OneEntry DEF FilesType
<1>2. /\ store' \in [Hosts -> [Users -> StoreRecord]]
      /\ \A g \in Hosts, v \in Users :
           store'[g][v] = IF g = h /\ v = u THEN s ELSE store[g][v]
  BY OneEntry DEF FilesType
<1>3. /\ login' \in [Hosts -> [Users -> Word]]
      /\ \A g \in Hosts, v \in Users :
           login'[g][v] = IF g = h /\ v = u THEN l ELSE login[g][v]
  BY OneEntry DEF FilesType
<1> QED BY <1>1, <1>2, <1>3 DEF Puts, FilesType

LEMMA SameEntry ==
  ASSUME FilesType, NEW h \in Hosts, NEW u \in Users
  PROVE  /\ home[h][u] \in HomeRecord /\ store[h][u] \in StoreRecord /\ login[h][u] \in Word
         /\ home = [home EXCEPT ![h][u] = home[h][u]]
         /\ store = [store EXCEPT ![h][u] = store[h][u]]
         /\ login = [login EXCEPT ![h][u] = login[h][u]]
BY DEF FilesType

(* A step x of a list, done for u: t is left, and m, s and l are written.  *)
Does(p, x, u, t, m, s, l) ==
  LET j == job[p] IN
  /\ At(p, x) /\ u \in Users /\ j.u = {u} /\ j.h \in Hosts
  /\ t \in Left(Head(j.phases)) /\ Steps(p, [j EXCEPT !.steps = t])
  /\ Puts(j.h, u, m, s, l)
  /\ UNCHANGED <<listed, access, shared>>

(* A step that is not one of those that come first in their list.          *)
LEMMA DoneDoes ==
  ASSUME env \in Envs, JobsOK, env' = env, FilesType, NEW p \in Callers,
         NEW x \in StepNames, At(p, x), Done(p), NEW u \in Users, job[p].u = {u},
         NEW m \in HomeRecord, NEW s \in StoreRecord, NEW l \in Word,
         home' = [home EXCEPT ![job[p].h][u] = m],
         store' = [store EXCEPT ![job[p].h][u] = s],
         login' = [login EXCEPT ![job[p].h][u] = l],
         UNCHANGED <<listed, access, shared>>
  PROVE  /\ Does(p, x, u, Tail(job[p].steps), m, s, l)
         /\ Follows(x, Tail(job[p].steps), Head(job[p].phases))
         /\ Within(x, Head(job[p].phases))
<1>1. job[p].steps # <<>> /\ job[p].h \in Hosts
  BY DEF At, JobsOK, JobRecord
<1>2. Steps(p, [job[p] EXCEPT !.steps = Tail(@)])
  BY <1>1, StepDone
<1>3. Puts(job[p].h, u, m, s, l)
  BY <1>1, PutsAll
<1>4. /\ Tail(job[p].steps) \in Left(Head(job[p].phases))
      /\ Follows(x, Tail(job[p].steps), Head(job[p].phases))
      /\ Within(x, Head(job[p].phases))
  BY <1>1, Here1 DEF At
<1>5. [job[p] EXCEPT !.steps = Tail(@)] = [job[p] EXCEPT !.steps = Tail(job[p].steps)]
  OBVIOUS
<1> QED BY <1>1, <1>2, <1>3, <1>4, <1>5 DEF Does
(* The store of a user when generate_user_configs has been at it.          *)
WithKeys(h, s) ==
  IF Authority(h) THEN [s EXCEPT !.there = TRUE, !.keys = TRUE] ELSE s

(* Root puts the keys together.                                          *)
LEMMA ConfigDoes ==
  ASSUME env \in Envs, JobsOK, env' = env, FilesType, NEW p \in Callers, Config(p)
  PROVE  \E u \in Users :
           LET j == job[p]
               m == home[j.h][u]
               s == store[j.h][u]
               l == login[j.h][u]
               t == Tail(j.steps)
           IN  /\ Does(p, "config", u, t, m, WithKeys(j.h, s), l)
               /\ Follows("config", t, Head(j.phases)) /\ Within("config", Head(j.phases))
<1>1. At(p, "config") /\ Done(p)
  BY DEF Config
<1>2. PICK u \in Users : job[p].u = {u}
  BY <1>1, StepFor
<1>3. job[p] \in JobRecord /\ job[p].h \in Hosts /\ job[p].password \in Word
  BY DEF JobsOK, JobRecord
<1> DEFINE h == job[p].h
           m == home[h][u]
           s == store[h][u]
           l == login[h][u]
<1>5. m \in HomeRecord /\ WithKeys(h, s) \in StoreRecord /\ l \in Word
  <2>1. m \in HomeRecord /\ s \in StoreRecord /\ l \in Word
    BY <1>3, SameEntry
  <2>2. [s EXCEPT !.there = TRUE, !.keys = TRUE] \in StoreRecord
    BY <2>1 DEF StoreRecord
  <2> QED BY <2>1, <2>2 DEF WithKeys
<1>4. store' = IF Authority(h) THEN [store EXCEPT ![h][u] =
                                      [store[h][u] EXCEPT !.there = TRUE, !.keys = TRUE]]
               ELSE store
  BY <1>1, <1>2 DEF Config
<1>7. store' = [store EXCEPT ![h][u] = WithKeys(h, s)]
  <2>1. CASE Authority(h)
    <3>1. PICK f \in [Hosts -> [Users -> StoreRecord]] : f = store
      BY DEF FilesType
    <3> QED BY <1>4, <2>1, <3>1 DEF WithKeys
  <2>2. CASE ~Authority(h)
    BY <1>3, <1>4, <2>2, SameEntry DEF WithKeys
  <2> QED BY <2>1, <2>2
<1>6. /\ home' = [home EXCEPT ![h][u] = m]
      /\ login' = [login EXCEPT ![h][u] = l]
      /\ UNCHANGED <<listed, access, shared>>
  BY <1>2, <1>3, SameEntry DEF Config
<1> QED BY <1>1, <1>2, <1>5, <1>6, <1>7, DoneDoes DEF StepNames

(* A new password is chosen.                                             *)
LEMMA ChooseDoes ==
  ASSUME env \in Envs, JobsOK, env' = env, FilesType, NEW p \in Callers, Choose(p)
  PROVE  \E u \in Users, w \in Unused :
           LET j == job[p]
               m == home[j.h][u]
               s == store[j.h][u]
               l == login[j.h][u]
               t == Tail(j.steps)
           IN  /\ Does(p, "choose", u, t, [m EXCEPT !.password = w], s, l)
               /\ Follows("choose", t, Head(j.phases)) /\ Within("choose", Head(j.phases))
<1>1. At(p, "choose") /\ Done(p)
  BY DEF Choose
<1>2. PICK u \in Users : job[p].u = {u}
  BY <1>1, StepFor
<1>3. job[p] \in JobRecord /\ job[p].h \in Hosts /\ job[p].password \in Word
  BY DEF JobsOK, JobRecord
<1> DEFINE h == job[p].h
           m == home[h][u]
           s == store[h][u]
           l == login[h][u]
<1>4. PICK w \in Unused : home' = [home EXCEPT ![h][u].password = w]
  BY <1>2 DEF Choose
<1>5. [m EXCEPT !.password = w] \in HomeRecord /\ s \in StoreRecord /\ l \in Word
  <2>1. m \in HomeRecord /\ s \in StoreRecord /\ l \in Word
    BY <1>3, SameEntry
  <2>2. w \in Word
    BY <1>4, UnusedWord
  <2> HIDE DEF m, s, l
  <2> QED BY <2>1, <2>2 DEF HomeRecord
<1>6. /\ home' = [home EXCEPT ![h][u] = [m EXCEPT !.password = w]]
      /\ store' = [store EXCEPT ![h][u] = s]
      /\ login' = [login EXCEPT ![h][u] = l]
      /\ UNCHANGED <<listed, access, shared>>
  <2>1. home' = [home EXCEPT ![h][u] = [m EXCEPT !.password = w]]
    BY <1>4
  <2>2. UNCHANGED <<store, login, listed, access, shared>>
    BY <1>2 DEF Choose
  <2> QED BY <1>3, <2>1, <2>2, SameEntry
<1>7. PICK m2 \in HomeRecord : m2 = [m EXCEPT !.password = w]
  BY <1>5
<1>8. /\ Does(p, "choose", u, Tail(job[p].steps), m2, s, l)
      /\ Follows("choose", Tail(job[p].steps), Head(job[p].phases))
      /\ Within("choose", Head(job[p].phases))
  BY <1>1, <1>2, <1>5, <1>6, <1>7, DoneDoes DEF StepNames
<1> QED BY <1>4, <1>7, <1>8

(* The login is set.                                                     *)
LEMMA PasswdDoes ==
  ASSUME env \in Envs, JobsOK, env' = env, FilesType, NEW p \in Callers, Passwd(p)
  PROVE  \E u \in Users :
           LET j == job[p]
               m == home[j.h][u]
               s == store[j.h][u]
               l == login[j.h][u]
               t == Tail(j.steps)
           IN  /\ Does(p, "passwd", u, t, m, s, j.password)
               /\ Follows("passwd", t, Head(j.phases)) /\ Within("passwd", Head(j.phases))
<1>1. At(p, "passwd") /\ Done(p)
  BY DEF Passwd
<1>2. PICK u \in Users : job[p].u = {u}
  BY <1>1, StepFor
<1>3. job[p] \in JobRecord /\ job[p].h \in Hosts /\ job[p].password \in Word
  BY DEF JobsOK, JobRecord
<1> DEFINE h == job[p].h
           m == home[h][u]
           s == store[h][u]
           l == login[h][u]
<1>5. m \in HomeRecord /\ s \in StoreRecord /\ job[p].password \in Word
  BY <1>3, SameEntry DEF HomeRecord, StoreRecord
<1>6. /\ home' = [home EXCEPT ![h][u] = m]
      /\ store' = [store EXCEPT ![h][u] = s]
      /\ login' = [login EXCEPT ![h][u] = job[p].password]
      /\ UNCHANGED <<listed, access, shared>>
  BY <1>2, <1>3, SameEntry DEF Passwd
<1> QED BY <1>1, <1>2, <1>5, <1>6, DoneDoes DEF StepNames

(* The password is marked as set.                                        *)
LEMMA MarkDoes ==
  ASSUME env \in Envs, JobsOK, env' = env, FilesType, NEW p \in Callers, Mark(p)
  PROVE  \E u \in Users :
           LET j == job[p]
               m == home[j.h][u]
               s == store[j.h][u]
               l == login[j.h][u]
               t == Tail(j.steps)
           IN  /\ Does(p, "mark", u, t, m, [s EXCEPT !.mark = j.password], l)
               /\ Follows("mark", t, Head(j.phases)) /\ Within("mark", Head(j.phases))
<1>1. At(p, "mark") /\ Done(p)
  BY DEF Mark
<1>2. PICK u \in Users : job[p].u = {u}
  BY <1>1, StepFor
<1>3. job[p] \in JobRecord /\ job[p].h \in Hosts /\ job[p].password \in Word
  BY DEF JobsOK, JobRecord
<1> DEFINE h == job[p].h
           m == home[h][u]
           s == store[h][u]
           l == login[h][u]
<1>5. m \in HomeRecord /\ [s EXCEPT !.mark = job[p].password] \in StoreRecord /\ l \in Word
  BY <1>3, SameEntry DEF HomeRecord, StoreRecord
<1>6. /\ home' = [home EXCEPT ![h][u] = m]
      /\ store' = [store EXCEPT ![h][u] = [s EXCEPT !.mark = job[p].password]]
      /\ login' = [login EXCEPT ![h][u] = l]
      /\ UNCHANGED <<listed, access, shared>>
  BY <1>2, <1>3, SameEntry DEF Mark
<1> QED BY <1>1, <1>2, <1>5, <1>6, DoneDoes DEF StepNames

(* The hash goes to the store and to the home.                           *)
LEMMA ShaDoes ==
  ASSUME env \in Envs, JobsOK, env' = env, FilesType, NEW p \in Callers, Sha(p)
  PROVE  \E u \in Users :
           LET j == job[p]
               m == home[j.h][u]
               s == store[j.h][u]
               l == login[j.h][u]
               t == Tail(j.steps)
           IN  /\ Does(p, "sha", u, t, [m EXCEPT !.sha = j.password], [s EXCEPT !.sha = j.password], l)
               /\ Follows("sha", t, Head(j.phases)) /\ Within("sha", Head(j.phases))
<1>1. At(p, "sha") /\ Done(p)
  BY DEF Sha
<1>2. PICK u \in Users : job[p].u = {u}
  BY <1>1, StepFor
<1>3. job[p] \in JobRecord /\ job[p].h \in Hosts /\ job[p].password \in Word
  BY DEF JobsOK, JobRecord
<1> DEFINE h == job[p].h
           m == home[h][u]
           s == store[h][u]
           l == login[h][u]
<1>5. [m EXCEPT !.sha = job[p].password] \in HomeRecord /\ [s EXCEPT !.sha = job[p].password] \in StoreRecord /\ l \in Word
  BY <1>3, SameEntry DEF HomeRecord, StoreRecord
<1>6. /\ home' = [home EXCEPT ![h][u] = [m EXCEPT !.sha = job[p].password]]
      /\ store' = [store EXCEPT ![h][u] = [s EXCEPT !.sha = job[p].password]]
      /\ login' = [login EXCEPT ![h][u] = l]
      /\ UNCHANGED <<listed, access, shared>>
  BY <1>2, <1>3, SameEntry DEF Sha
<1> QED BY <1>1, <1>2, <1>5, <1>6, DoneDoes DEF StepNames

(* The password goes to the home.                                        *)
LEMMA SaveDoes ==
  ASSUME env \in Envs, JobsOK, env' = env, FilesType, NEW p \in Callers, Save(p)
  PROVE  \E u \in Users :
           LET j == job[p]
               m == home[j.h][u]
               s == store[j.h][u]
               l == login[j.h][u]
               t == Tail(j.steps)
           IN  /\ Does(p, "save", u, t, [m EXCEPT !.password = j.password], s, l)
               /\ Follows("save", t, Head(j.phases)) /\ Within("save", Head(j.phases))
<1>1. At(p, "save") /\ Done(p)
  BY DEF Save
<1>2. PICK u \in Users : job[p].u = {u}
  BY <1>1, StepFor
<1>3. job[p] \in JobRecord /\ job[p].h \in Hosts /\ job[p].password \in Word
  BY DEF JobsOK, JobRecord
<1> DEFINE h == job[p].h
           m == home[h][u]
           s == store[h][u]
           l == login[h][u]
<1>5. [m EXCEPT !.password = job[p].password] \in HomeRecord /\ s \in StoreRecord /\ l \in Word
  BY <1>3, SameEntry DEF HomeRecord, StoreRecord
<1>6. /\ home' = [home EXCEPT ![h][u] = [m EXCEPT !.password = job[p].password]]
      /\ store' = [store EXCEPT ![h][u] = s]
      /\ login' = [login EXCEPT ![h][u] = l]
      /\ UNCHANGED <<listed, access, shared>>
  BY <1>2, <1>3, SameEntry DEF Save
<1> QED BY <1>1, <1>2, <1>5, <1>6, DoneDoes DEF StepNames

(* An account, and what comes then.                                        *)
LEMMA AddDoes ==
  ASSUME env \in Envs, JobsOK, env' = env, FilesType, NEW p \in Callers, Add(p)
  PROVE  \E u \in Users : \E t :
           LET j == job[p]
               m == home[j.h][u]
               s == store[j.h][u]
               l == login[j.h][u]
           IN  /\ Does(p, "add", u, t, [m EXCEPT !.there = TRUE], s, l)
               /\ Head(j.phases) \in {"add", "structure"}
               /\ IF m.there /\ s.there THEN t = After(Head(j.phases))
                  ELSE First([steps |-> t], {"collect"})
<1>1. PICK j : j = job[p]
  OBVIOUS
<1>2. PICK u \in Users, t \in Left(Head(j.phases)) :
        /\ j.u = {u} /\ Head(j.phases) \in {"add", "structure"}
        /\ Steps(p, [j EXCEPT !.steps = t])
        /\ home' = [home EXCEPT ![j.h][u].there = TRUE]
        /\ IF home[j.h][u].there /\ store[j.h][u].there THEN t = Tail(j.steps)
           ELSE First([steps |-> t], {"collect"})
  BY <1>1, AddSteps
<1>3. j.h \in Hosts /\ j.steps # <<>> /\ Head(j.steps) = "add" /\ At(p, "add")
  BY <1>1 DEF JobsOK, JobRecord, Add, At
<1>4. Tail(j.steps) = After(Head(j.phases))
  BY <1>1, <1>3, Here1 DEF Follows
<1>5. PICK m2 : m2 = [home[j.h][u] EXCEPT !.there = TRUE]
  OBVIOUS
<1>6. /\ m2 \in HomeRecord /\ store[j.h][u] \in StoreRecord /\ login[j.h][u] \in Word
      /\ home' = [home EXCEPT ![j.h][u] = m2]
  <2>1. m2 \in HomeRecord /\ store[j.h][u] \in StoreRecord /\ login[j.h][u] \in Word
    <3>1. PICK m \in HomeRecord : m = home[j.h][u]
      BY <1>3, SameEntry
    <3>2. [m EXCEPT !.there = TRUE] \in HomeRecord
      BY DEF HomeRecord
    <3> QED BY <1>3, <1>5, <3>1, <3>2, SameEntry
  <2>2. home' = [home EXCEPT ![j.h][u] = m2]
    BY <1>2, <1>3, <1>5
  <2> QED BY <2>1, <2>2
<1>7. /\ store' = [store EXCEPT ![j.h][u] = store[j.h][u]]
      /\ login' = [login EXCEPT ![j.h][u] = login[j.h][u]]
      /\ UNCHANGED <<listed, access, shared>>
  BY <1>3, SameEntry DEF Add
<1>8. Puts(j.h, u, m2, store[j.h][u], login[j.h][u])
  BY <1>3, <1>6, <1>7, PutsAll
<1>9. Does(p, "add", u, t, m2, store[j.h][u], login[j.h][u])
  BY <1>1, <1>2, <1>3, <1>7, <1>8 DEF Does
<1> QED BY <1>1, <1>2, <1>4, <1>5, <1>9

(* What update_password makes of the files: the passcode, the password,    *)
(* the value it compares with, and the files.                              *)
Passcode(h, s, w) == IF Authority(h) /\ s.passcode = None THEN w ELSE s.passcode
Kept(h, m, s, w) ==
  IF m.password # None THEN m.password
  ELSE IF Authority(h) /\ s.password = None THEN Passcode(h, s, w) ELSE s.password
Current(s, cur) == IF s.mark # None THEN s.mark ELSE cur
IsNew(h, m, s, w, cur) ==
  Kept(h, m, s, w) # None /\ Kept(h, m, s, w) # Current(s, cur)
GotHome(h, m, s, w) ==
  [m EXCEPT !.sha = IF @ # None THEN @ ELSE s.sha, !.password = Kept(h, m, s, w)]
GotStore(h, m, s, w) ==
  [s EXCEPT !.there = TRUE, !.passcode = Passcode(h, s, w), !.password = Kept(h, m, s, w),
            !.sha = IF m.sha # None THEN m.sha ELSE @]

(* What is left of the job when it has collected g.                        *)
CollectedBy(g, j) ==
  LET cur == Current(g.store, j.cur)
      new == g.store.password # None /\ g.store.password # cur
  IN [j EXCEPT !.password = g.store.password,
               !.cur = IF g.store.password = None THEN @ ELSE cur,
               !.steps = IF new THEN <<"passwd", "mark", "sha", "save">> \o Tail(@)
                                ELSE Tail(@)]

LEMMA GatheredIs ==
  ASSUME NEW h, NEW u, NEW w, store[h][u] \in StoreRecord
  PROVE  LET m == home[h][u]
             s == store[h][u]
         IN  /\ Gathered(h, u, w).home = GotHome(h, m, s, w)
             /\ Gathered(h, u, w).store = GotStore(h, m, s, w)
             /\ GotStore(h, m, s, w).password = Kept(h, m, s, w)
             /\ GotStore(h, m, s, w).mark = s.mark
BY DEF Gathered, GotHome, GotStore, Kept, Passcode, StoreRecord

LEMMA GotType ==
  ASSUME NEW h, NEW m \in HomeRecord, NEW s \in StoreRecord, NEW w \in Word
  PROVE  /\ Kept(h, m, s, w) \in Word
         /\ GotHome(h, m, s, w) \in HomeRecord /\ GotStore(h, m, s, w) \in StoreRecord
<1>1. Kept(h, m, s, w) \in Word /\ Passcode(h, s, w) \in Word
  BY DEF Kept, Passcode, HomeRecord, StoreRecord
<1> QED BY <1>1 DEF GotHome, GotStore, HomeRecord, StoreRecord

(* collect, done for u, whose passcode is w: t is left.                    *)
CollectDone(p, u, w, t) ==
  LET j == job[p]
      m == home[j.h][u]
      s == store[j.h][u]
      l == login[j.h][u]
  IN  /\ w \in NewPasscodes(j.h, u) /\ w \in Word
      /\ At(p, "collect") /\ j.u = {u} /\ j.h \in Hosts
      /\ t \in Left(Head(j.phases)) /\ Within("collect", Head(j.phases))
      /\ Steps(p, [j EXCEPT !.steps = t, !.password = Kept(j.h, m, s, w),
                     !.cur = IF Kept(j.h, m, s, w) = None THEN @
                             ELSE Current(s, j.cur)])
      /\ Puts(j.h, u, GotHome(j.h, m, s, w), GotStore(j.h, m, s, w), l)
      /\ IF IsNew(j.h, m, s, w, j.cur) THEN First([steps |-> t], {"passwd"})
         ELSE t = After(Head(j.phases))
      /\ UNCHANGED <<listed, access, shared>>

LEMMA CollectDoes ==
  ASSUME env \in Envs, JobsOK, env' = env, FilesType, NEW p \in Callers, Collect(p)
  PROVE  \E u \in Users : \E w, t : CollectDone(p, u, w, t)
<1>1. PICK j \in JobRecord : j = job[p]
  BY DEF JobsOK
<1>2. j.steps # <<>> /\ Head(j.steps) = "collect" /\ At(p, "collect") /\ j.h \in Hosts
      /\ j.cur \in Word
  BY <1>1 DEF Collect, At, JobRecord
<1>3. /\ Running(env, j) /\ Head(j.phases) \in PhaseNames /\ j.cmd \in Commands
      /\ Tail(j.steps) \in Left(Head(j.phases)) /\ Within("collect", Head(j.phases))
      /\ j.steps \in Left(Head(j.phases)) /\ Tail(j.steps) = After(Head(j.phases))
  BY <1>1, <1>2, Here1 DEF Running, Follows
<1>4. PICK u \in job[p].u : \E w \in NewPasscodes(job[p].h, u) :
        /\ home'  = [home EXCEPT ![job[p].h][u] = Gathered(job[p].h, u, w).home]
        /\ store' = [store EXCEPT ![job[p].h][u] = Gathered(job[p].h, u, w).store]
        /\ job' = [job EXCEPT ![p] = CollectedBy(Gathered(job[p].h, u, w), job[p])]
  BY Zenon DEF Collect, CollectedBy, Current
<1>5. PICK w \in NewPasscodes(job[p].h, u) :
        /\ home'  = [home EXCEPT ![job[p].h][u] = Gathered(job[p].h, u, w).home]
        /\ store' = [store EXCEPT ![job[p].h][u] = Gathered(job[p].h, u, w).store]
        /\ job' = [job EXCEPT ![p] = CollectedBy(Gathered(job[p].h, u, w), job[p])]
  BY <1>4
<1> DEFINE h == j.h
           m == home[h][u]
           s == store[h][u]
           l == login[h][u]
<1>6. /\ m \in HomeRecord /\ s \in StoreRecord /\ l \in Word
      /\ j.u = {u} /\ u \in Users
  <2>1. \E v \in Users : j.u = {v}
    BY <1>1, <1>2, StepFor
  <2>2. j.u = {u} /\ u \in Users
    BY <1>1, <2>1
  <2> QED BY <1>2, <2>2, SameEntry
<1>7. w \in Word
  BY UnusedWord DEF NewPasscodes, Word
<1> DEFINE k == Kept(h, m, s, w)
           cur == Current(s, j.cur)
           new == IsNew(h, m, s, w, j.cur)
<1>8. /\ home'  = [home EXCEPT ![h][u] = GotHome(h, m, s, w)]
      /\ store' = [store EXCEPT ![h][u] = GotStore(h, m, s, w)]
  <2>1. /\ Gathered(h, u, w).home = GotHome(h, m, s, w)
        /\ Gathered(h, u, w).store = GotStore(h, m, s, w)
    BY <1>6, GatheredIs
  <2>2. /\ home'  = [home EXCEPT ![h][u] = Gathered(h, u, w).home]
        /\ store' = [store EXCEPT ![h][u] = Gathered(h, u, w).store]
    BY <1>1, <1>5
  <2> QED BY <2>1, <2>2
<1>a. PICK t : t = IF new THEN <<"passwd", "mark", "sha", "save">> \o Tail(j.steps)
                   ELSE Tail(j.steps)
  OBVIOUS
<1>b. PICK x : x = IF k = None THEN j.cur ELSE cur
  OBVIOUS
<1>c. job' = [job EXCEPT ![p] = [job[p] EXCEPT !.password = k, !.cur = x, !.steps = t]]
  <2>1. /\ Gathered(h, u, w).store.password = k /\ Gathered(h, u, w).store.mark = s.mark
    BY <1>6, GatheredIs
  <2>2. job' = [job EXCEPT ![p] = CollectedBy(Gathered(job[p].h, u, w), job[p])]
    BY <1>5
  <2> QED BY <1>1, <1>a, <1>b, <2>1, <2>2 DEF CollectedBy, Current, IsNew
<1>9. /\ t \in Left(Head(j.phases))
      /\ IF new THEN First([steps |-> t], {"passwd"}) ELSE t = After(Head(j.phases))
  BY <1>2, <1>3, <1>a, Longer
<1>10. t = <<>> \/ Head(t) \notin {"sync", "reset", "share"}
  BY <1>2, <1>3, <1>9, TailHead DEF First
<1>11. k \in Word /\ cur \in Word /\ GotHome(h, m, s, w) \in HomeRecord
       /\ GotStore(h, m, s, w) \in StoreRecord
  BY <1>2, <1>6, <1>7, GotType DEF Current, StoreRecord
<1>d. x \in Word
  BY <1>2, <1>11, <1>b
<1> HIDE DEF k, cur, new
<1>12. PICK j2 : j2 = [j EXCEPT !.steps = t, !.cur = x, !.password = k]
  OBVIOUS
<1>13. j2 = [j EXCEPT !.steps = t, !.password = k, !.cur = IF k = None THEN @ ELSE cur]
  BY <1>b, <1>12 DEF JobRecord
<1>14. job' = [job EXCEPT ![p] = j2]
  BY <1>1, <1>c, <1>12 DEF JobRecord
<1>15. j2 \in JobRecord /\ Running(env, j2)
  BY <1>2, <1>3, <1>9, <1>10, <1>11, <1>12, <1>d, StepsOn
<1>16. JobsOK'
  BY <1>1, <1>3, <1>14, <1>15, GoesOn DEF Commands
<1>17. Steps(p, j2)
  BY <1>14, <1>15, <1>16 DEF Steps, JobsOK
<1>18. login' = [login EXCEPT ![h][u] = l] /\ UNCHANGED <<listed, access, shared>>
  BY <1>2, <1>6, SameEntry DEF Collect
<1>19. Puts(h, u, GotHome(h, m, s, w), GotStore(h, m, s, w), l)
  BY <1>2, <1>6, <1>8, <1>11, <1>18, PutsAll
<1>20. CollectDone(p, u, w, t)
  BY <1>1, <1>2, <1>3, <1>5, <1>6, <1>7, <1>9, <1>13, <1>17, <1>18, <1>19
     DEF k, cur, new, CollectDone
<1> QED BY <1>6, <1>20

-----------------------------------------------------------------------------
(* What other steps do to jobs: no password is set before or after.        *)
Idle(p) ==
  /\ JobsOK'
  /\ \A q \in Callers : q # p => job'[q] = job[q]
  /\ ~First(job[p], Setting \cup {"collect"}) \/ "kill" \in env.events
  /\ ~First(job'[p], Setting)
  /\ \/ job'[p].cur = None
     \/ job'[p].cur = job[p].cur /\ job'[p].h = job[p].h
  /\ \/ job'[p].cmd = job[p].cmd
     \/ job[p].cmd = "none"
     \/ "kill" \in env.events
     \/ NextPhase(p) /\ (job[p].cmd = "regenerate" => job[p].phases = FromLast)

(* Steps that are about jobs, lists and containers.                        *)
Plain(p) ==
  \/ \E cmd \in Commands, h \in Hosts, u \in Users, C \in SUBSET Containers :
       Command(p, cmd, h, u, C)
  \/ \E u \in Users : NextUser(p, u)
  \/ \E c \in Containers : NextContainer(p, c)
  \/ NextPhase(p) \/ List(p) \/ Reset(p) \/ AppendKeys(p) \/ Share(p) \/ Kill(p)

LEMMA NotFirst ==
  /\ \A j, X : j.steps = <<>> => ~First(j, X)
  /\ \A j : j.steps = <<"sync">> \/ j.steps = <<"share">> \/ j.steps = <<"reset">> =>
       ~First(j, Setting)
  /\ \A j : Head(j.steps) \in {"sync", "list", "reset", "append", "share"} =>
       ~First(j, Setting \cup {"collect"})
<1>1. /\ Head(<<"sync">>) = "sync" /\ Head(<<"share">>) = "share" /\ Head(<<"reset">>) = "reset"
  OBVIOUS
<1> QED BY <1>1 DEF First, Setting

(* A step that is the last one of its list.                                *)
LEMMA LastStep ==
  ASSUME env \in Envs, JobsOK, env' = env, NEW p \in Callers,
         NEW x \in {"sync", "append", "share"}, At(p, x), Done(p)
  PROVE  /\ Steps(p, [job[p] EXCEPT !.steps = <<>>]) /\ Idle(p)
         /\ Within(x, Head(job[p].phases))
<1>1. PICK j \in JobRecord : j = job[p]
  BY DEF JobsOK
<1>2. j.steps # <<>> /\ Head(j.steps) = x
  BY <1>1 DEF At
<1>3. Tail(j.steps) = <<>> /\ Within(x, Head(j.phases))
  BY <1>1, <1>2, Here1 DEF Follows
<1>4. Steps(p, [j EXCEPT !.steps = <<>>])
  <2>1. [j EXCEPT !.steps = Tail(@)] = [j EXCEPT !.steps = <<>>]
    BY <1>3
  <2> QED BY <1>1, <1>2, <2>1, StepDone
<1>5. PICK j2 : j2 = [j EXCEPT !.steps = <<>>]
  OBVIOUS
<1>6. j2.steps = <<>> /\ j2.cur = j.cur /\ j2.h = j.h /\ j2.cmd = j.cmd
  BY <1>5 DEF JobRecord
<1>7. ~First(j2, Setting) /\ ~First(j, Setting \cup {"collect"})
  <2>1. Head(j.steps) \in {"sync", "list", "reset", "append", "share"}
    BY <1>2
  <2>2. ~First(j, Setting \cup {"collect"})
    BY <2>1 DEF First, Setting
  <2> QED BY <1>6, <2>2 DEF First
<1> QED BY <1>1, <1>3, <1>4, <1>5, <1>6, <1>7 DEF Steps, Idle

(* root's keys only, and the users of the container come next.             *)
LEMMA ResetSteps ==
  ASSUME env \in Envs, JobsOK, env' = env, NEW p \in Callers, Reset(p),
         listed \in [Containers -> SUBSET Users]
  PROVE  LET j == job[p] IN
         /\ At(p, "reset") /\ Head(j.phases) = "structure" /\ j.users = {}
         /\ \E c \in Here(j.h) :
              /\ j.c = {c} /\ access' = [access EXCEPT ![c] = {}]
              /\ Steps(p, [j EXCEPT !.steps = <<>>, !.users = listed[c]])
<1>1. PICK j \in JobRecord : j = job[p]
  BY DEF JobsOK
<1>2. j.steps # <<>> /\ Head(j.steps) = "reset" /\ At(p, "reset")
  BY <1>1 DEF At, Reset
<1>3. /\ Tail(j.steps) = <<>> /\ Head(j.phases) = "structure" /\ Running(env, j)
      /\ j.cmd \in Commands
  BY <1>1, <1>2, Here1 DEF Follows, Within
<1>4. PICK c \in Here(j.h) : j.c = {c}
  BY <1>2, <1>3 DEF Running
<1>5. c \in Containers /\ listed[c] \subseteq Users
  BY DEF Here
<1>6. access' = [access EXCEPT ![c] = {}] /\ j.users = {}
  BY <1>1, <1>2, <1>3, <1>4 DEF Reset, Running
<1>7. PICK j2 : j2 = [j EXCEPT !.steps = <<>>, !.users = listed[c]]
  OBVIOUS
<1>8. job' = [job EXCEPT ![p] = j2]
  BY <1>1, <1>3, <1>4, <1>7 DEF Reset
<1>9. <<>> \in Left("structure") /\ "structure" \in PhaseNames
  BY DEF Left, PhaseNames
<1>10. j2 \in JobRecord
  BY <1>5, <1>7, <1>9 DEF JobRecord
<1>11. Running(env, j2)
  <2>1. /\ j2.cmd = j.cmd /\ j2.h = j.h /\ j2.phases = j.phases /\ j2.c = j.c /\ j2.u = j.u
        /\ j2.users = listed[c] /\ j2.steps = <<>> /\ j2.containers = j.containers
    BY <1>7 DEF JobRecord
  <2> QED BY <1>3, <1>4, <1>9, <2>1 DEF Running
<1>12. JobsOK'
  BY <1>1, <1>3, <1>8, <1>10, <1>11, GoesOn DEF Commands
<1>13. Steps(p, j2)
  BY <1>8, <1>10, <1>11, <1>12 DEF Steps, JobsOK
<1> QED BY <1>1, <1>2, <1>3, <1>4, <1>6, <1>7, <1>13

LEMMA PlainIdle ==
  ASSUME env \in Envs, JobsOK, env' = env, NEW p \in Callers, Plain(p),
         listed \in [Containers -> SUBSET Users]
  PROVE  Idle(p) /\ UNCHANGED <<home, store, login>>
<1>1. UNCHANGED <<home, store, login>>
  BY DEF Plain, Command, NextUser, NextContainer, NextPhase, List, Reset, AppendKeys, Share, Kill
<1> SUFFICES Idle(p)
  BY <1>1
<1>2. PICK j \in JobRecord : j = job[p]
  BY DEF JobsOK
<1>3. ASSUME NEW cmd \in Commands, NEW h \in Hosts, NEW u \in Users, NEW C \in SUBSET Containers,
             Command(p, cmd, h, u, C)
      PROVE  Idle(p)
  <2>1. PICK j2 : j2 = Begun(cmd, h, u, C)
    OBVIOUS
  <2>2. Steps(p, j2)
    BY <1>3, <2>1, CommandBegins
  <2>3. j2.cur = None /\ j2.steps = IF cmd = "regenerate" THEN <<"sync">> ELSE <<>>
    BY <2>1 DEF Begun, NoJob
  <2>4. job[p].cmd = "none"
    BY <1>3 DEF Command
  <2>5. job[p] = NoJob
    BY <2>4, EnvType DEF JobsOK, Running, Commands
  <2>6. ~First(job[p], Setting \cup {"collect"}) /\ ~First(j2, Setting)
    BY <2>3, <2>5, NoJobType, NotFirst
  <2> QED BY <2>2, <2>3, <2>4, <2>6 DEF Idle, Steps
<1>4. ASSUME NEW u \in Users, NextUser(p, u)
      PROVE  Idle(p)
  <2>1. PICK j2 : j2 = [j EXCEPT !.users = @ \ {u}, !.u = {u}, !.steps = StepsFor(Head(j.phases))]
    OBVIOUS
  <2>2. Steps(p, j2)
    BY <1>2, <1>4, <2>1, NextUserSteps
  <2>3. /\ j2.cur = j.cur /\ j2.h = j.h /\ j2.cmd = j.cmd
        /\ j2.steps = StepsFor(Head(j.phases)) /\ j.steps = <<>>
    BY <1>2, <1>4, <2>1 DEF JobRecord, NextUser
  <2>4. Head(j.phases) \in {"add", "new", "configs", "hashes", "structure"}
    <3>1. /\ Running(env, j) /\ Head(j.phases) \in PhaseNames /\ j.users # {}
      BY <1>2, <1>4, Between DEF NextUser
    <3> QED BY <3>1 DEF Running, PhaseNames
  <2>5. Head(j2.steps) \in {"add", "choose", "config", "collect"}
    BY <2>3, <2>4 DEF StepsFor
  <2>6. ~First(j, Setting \cup {"collect"}) /\ ~First(j2, Setting)
    BY <2>3, <2>5, NotFirst DEF First, Setting
  <2> QED BY <1>2, <2>2, <2>3, <2>6 DEF Idle, Steps
<1>5. ASSUME NEW c \in Containers, NextContainer(p, c)
      PROVE  Idle(p)
  <2>1. PICK j2 : j2 = [j EXCEPT !.containers = @ \ {c}, !.c = {c},
                        !.steps = IF Head(j.phases) = "share" THEN <<"share">> ELSE <<"reset">>]
    OBVIOUS
  <2>2. Steps(p, j2)
    BY <1>2, <1>5, <2>1, NextContainerSteps
  <2>3. /\ j2.cur = j.cur /\ j2.h = j.h /\ j2.cmd = j.cmd
        /\ j2.steps = (IF Head(j.phases) = "share" THEN <<"share">> ELSE <<"reset">>)
        /\ j.steps = <<>>
    BY <1>2, <1>5, <2>1 DEF JobRecord, NextContainer
  <2>6. ~First(j, Setting \cup {"collect"}) /\ ~First(j2, Setting)
    BY <2>3, NotFirst
  <2> QED BY <1>2, <2>2, <2>3, <2>6 DEF Idle, Steps
<1>6. CASE NextPhase(p)
  <2>0. ~First(j, Setting \cup {"collect"})
    BY <1>2, <1>6, NotFirst DEF NextPhase
  <2>1. CASE /\ JobsOK' /\ job' = [job EXCEPT ![p] = NoJob]
             /\ job[p].cmd = "regenerate" => job[p].phases = FromLast
    <3>1. \A q \in Callers : job'[q] = IF q = p THEN NoJob ELSE job[q]
      BY <2>1 DEF JobsOK
    <3>2. ~First(NoJob, Setting) /\ NoJob.cur = None
      BY NoJobType, NotFirst
    <3> QED BY <1>2, <1>6, <2>0, <2>1, <3>1, <3>2 DEF Idle
  <2>2. CASE Steps(p, NextOne(j))
    <3>1. PICK j2 : j2 = NextOne(j)
      OBVIOUS
    <3>2. /\ j2.cur = j.cur /\ j2.h = j.h /\ j2.cmd = j.cmd
          /\ j2.steps = <<"sync">> \/ j2.steps = <<>>
      BY <3>1 DEF NextOne, JobRecord
    <3>3. ~First(j2, Setting)
      BY <3>2, NotFirst
    <3> QED BY <1>2, <2>0, <2>2, <3>1, <3>2, <3>3 DEF Idle, Steps
  <2> QED BY <1>2, <1>6, <2>1, <2>2, NextPhaseSteps
<1>7. CASE List(p)
  <2>1. PICK j2 : j2 = [j EXCEPT !.steps = <<>>,
                        !.phases = IF j.c = {} THEN @ ELSE <<"structure">>,
                        !.containers = IF j.c = {} THEN {} ELSE Here(j.h)]
    OBVIOUS
  <2>2. Steps(p, j2)
    BY <1>2, <1>7, <2>1, ListSteps
  <2>3. j2.cur = j.cur /\ j2.h = j.h /\ j2.cmd = j.cmd /\ j2.steps = <<>>
    BY <2>1 DEF JobRecord
  <2>4. ~First(j, Setting \cup {"collect"}) /\ ~First(j2, Setting)
    <3>1. Head(j.steps) \in {"reset", "list"}
      BY <1>2, <1>7 DEF List, At
    <3>2. ~First(j, Setting \cup {"collect"})
      BY <3>1 DEF First, Setting
    <3> QED BY <2>3, <3>2 DEF First
  <2> QED BY <1>2, <2>2, <2>3, <2>4 DEF Idle, Steps
<1>8. CASE Reset(p)
  <2>1. PICK c \in Here(j.h) : Steps(p, [j EXCEPT !.steps = <<>>, !.users = listed[c]])
    BY <1>2, <1>8, ResetSteps
  <2>2. PICK j2 : j2 = [j EXCEPT !.steps = <<>>, !.users = listed[c]]
    OBVIOUS
  <2>3. j2.cur = j.cur /\ j2.h = j.h /\ j2.cmd = j.cmd /\ j2.steps = <<>>
    BY <2>2 DEF JobRecord
  <2>4. ~First(j, Setting \cup {"collect"}) /\ ~First(j2, Setting)
    <3>1. Head(j.steps) \in {"reset", "list"}
      BY <1>2, <1>8 DEF Reset, At
    <3>2. ~First(j, Setting \cup {"collect"})
      BY <3>1 DEF First, Setting
    <3> QED BY <2>3, <3>2 DEF First
  <2> QED BY <1>2, <2>1, <2>2, <2>3, <2>4 DEF Idle, Steps
<1>9. CASE AppendKeys(p)
  BY <1>9, LastStep DEF AppendKeys
<1>10. CASE Share(p)
  BY <1>10, LastStep DEF Share
<1>11. CASE Kill(p)
  <2>1. JobsOK' /\ job' = [job EXCEPT ![p] = NoJob] /\ "kill" \in env.events
    BY <1>11, KillSteps
  <2>2. \A q \in Callers : job'[q] = IF q = p THEN NoJob ELSE job[q]
    BY <2>1 DEF JobsOK
  <2>3. ~First(NoJob, Setting) /\ NoJob.cur = None
    BY NoJobType, NotFirst
  <2> QED BY <2>1, <2>2, <2>3 DEF Idle
<1> QED BY <1>1, <1>3, <1>4, <1>5, <1>6, <1>7, <1>8, <1>9, <1>10, <1>11 DEF Plain

-----------------------------------------------------------------------------
(* What steps do to the files of a user, field by field.                   *)
LEMMA EntryType ==
  ASSUME FilesType, NEW h \in Hosts, NEW u \in Users
  PROVE  /\ home[h][u] \in HomeRecord /\ store[h][u] \in StoreRecord /\ login[h][u] \in Word
         /\ home[h][u].there \in BOOLEAN /\ home[h][u].password \in Word /\ home[h][u].sha \in Word
         /\ store[h][u].there \in BOOLEAN /\ store[h][u].keys \in BOOLEAN
         /\ store[h][u].passcode \in Word /\ store[h][u].password \in Word
         /\ store[h][u].sha \in Word /\ store[h][u].mark \in Word
<1>1. home[h][u] \in HomeRecord /\ store[h][u] \in StoreRecord /\ login[h][u] \in Word
  BY DEF FilesType
<1> QED BY <1>1 DEF HomeRecord, StoreRecord

(* A command goes on with the steps t for the same user and container.     *)
Later(j, k, t) ==
  /\ k.cmd = j.cmd /\ k.h = j.h /\ k.phases = j.phases /\ k.containers = j.containers
  /\ k.users = j.users /\ k.c = j.c /\ k.u = j.u /\ k.steps = t

Goes(p, t) ==
  /\ JobsOK'
  /\ \A q \in Callers : q # p => job'[q] = job[q]
  /\ Later(job[p], job'[p], t)

LEMMA GoesTo ==
  ASSUME JobsOK, NEW p \in Callers, NEW t, NEW j2,
         \/ j2 = [job[p] EXCEPT !.steps = t]
         \/ \E x, y : j2 = [job[p] EXCEPT !.steps = t, !.password = x, !.cur = y],
         Steps(p, j2)
  PROVE  Goes(p, t)
<1>1. PICK j \in JobRecord : j = job[p]
  BY DEF JobsOK
<1>2. Later(j, j2, t)
  <2>1. CASE j2 = [j EXCEPT !.steps = t]
    BY <2>1 DEF JobRecord, Later
  <2>2. ASSUME NEW x, NEW y, j2 = [j EXCEPT !.steps = t, !.password = x, !.cur = y]
        PROVE  Later(j, j2, t)
    BY <2>2 DEF JobRecord, Later
  <2>3. \/ j2 = [j EXCEPT !.steps = t]
        \/ \E x, y : j2 = [j EXCEPT !.steps = t, !.password = x, !.cur = y]
    BY <1>1
  <2> QED BY <2>1, <2>2, <2>3
<1> QED BY <1>1, <1>2 DEF Goes, Steps

(* What a step x for a user writes: k is the password that is being set,   *)
(* w a new one.                                                            *)
Wrote(x, h, w, k, m, s, l, m2, s2, l2) ==
  /\ m2.there = (m.there \/ x = "add")
  /\ m2.password = IF x = "choose" THEN w ELSE IF x = "save" THEN k ELSE m.password
  /\ m2.sha = IF x = "sha" THEN k ELSE m.sha
  /\ s2.there = (s.there \/ (x = "config" /\ h = Root))
  /\ s2.keys = (s.keys \/ (x = "config" /\ h = Root))
  /\ s2.passcode = s.passcode /\ s2.password = s.password
  /\ s2.sha = IF x = "sha" THEN k ELSE s.sha
  /\ s2.mark = IF x = "mark" THEN k ELSE s.mark
  /\ l2 = IF x = "passwd" THEN k ELSE l

Writing == {"config", "add", "choose", "passwd", "mark", "sha", "save"}

Writes(p, x, u, w, t) ==
  LET j == job[p] IN
  /\ x \in Writing /\ At(p, x) /\ j.u = {u} /\ j.h \in Hosts /\ Within(x, Head(j.phases))
  /\ x = "choose" => w \in Unused
  /\ \/ Follows(x, t, Head(j.phases)) /\ (x = "add" => home[j.h][u].there)
     \/ /\ x = "add" /\ First([steps |-> t], {"collect"})
        /\ ~(home[j.h][u].there /\ store[j.h][u].there)
  /\ t \in Left(Head(j.phases))
  /\ Goes(p, t) /\ job'[p].cur = j.cur /\ job'[p].password = j.password
  /\ Puts(j.h, u, home'[j.h][u], store'[j.h][u], login'[j.h][u])
  /\ Wrote(x, j.h, w, j.password, home[j.h][u], store[j.h][u], login[j.h][u],
           home'[j.h][u], store'[j.h][u], login'[j.h][u])
  /\ UNCHANGED <<listed, access, shared>>

LEMMA DoesWrites ==
  ASSUME JobsOK, NEW p \in Callers, NEW x \in Writing, NEW u \in Users, NEW w, NEW t,
         NEW m2, NEW s2, NEW l2,
         Does(p, x, u, t, m2, s2, l2), Within(x, Head(job[p].phases)),
         x = "choose" => w \in Unused,
         \/ Follows(x, t, Head(job[p].phases)) /\ (x = "add" => home[job[p].h][u].there)
         \/ /\ x = "add" /\ First([steps |-> t], {"collect"})
            /\ ~(home[job[p].h][u].there /\ store[job[p].h][u].there),
         Wrote(x, job[p].h, w, job[p].password, home[job[p].h][u], store[job[p].h][u],
               login[job[p].h][u], m2, s2, l2)
  PROVE  Writes(p, x, u, w, t)
<1>1. /\ home'[job[p].h][u] = m2 /\ store'[job[p].h][u] = s2 /\ login'[job[p].h][u] = l2
  BY DEF Does, Puts
<1>2. PICK j2 : j2 = [job[p] EXCEPT !.steps = t]
  OBVIOUS
<1>3. Steps(p, j2)
  BY <1>2 DEF Does
<1>4. Goes(p, t)
  BY <1>2, <1>3, GoesTo
<1>5. j2.cur = job[p].cur /\ j2.password = job[p].password
  <2>1. PICK j \in JobRecord : j = job[p]
    BY DEF JobsOK
  <2>2. [j EXCEPT !.steps = t].cur = j.cur /\ [j EXCEPT !.steps = t].password = j.password
    BY DEF JobRecord
  <2> QED BY <1>2, <2>1, <2>2
<1>6. job'[p].cur = job[p].cur /\ job'[p].password = job[p].password
  BY <1>3, <1>5 DEF Steps
<1> QED BY <1>1, <1>4, <1>6 DEF Does, Writes

Written(p) == \E x \in Writing, u \in Users : \E w, t : Writes(p, x, u, w, t)

LEMMA ConfigWrites ==
  ASSUME env \in Envs, JobsOK, env' = env, FilesType, NEW p \in Callers, Config(p)
  PROVE  Written(p)
<1>1. PICK u \in Users :
        LET j == job[p]
            t == Tail(j.steps)
        IN  /\ Does(p, "config", u, t, home[j.h][u], WithKeys(j.h, store[j.h][u]), login[j.h][u])
            /\ Follows("config", t, Head(j.phases)) /\ Within("config", Head(j.phases))
  BY ConfigDoes
<1>2. job[p].h \in Hosts
  BY <1>1 DEF Does
<1>3. PICK s \in StoreRecord : s = store[job[p].h][u]
  BY <1>2, EntryType
<1>4. PICK m \in HomeRecord : m = home[job[p].h][u]
  BY <1>2, EntryType
<1>5. PICK s2 : s2 = WithKeys(job[p].h, s)
  OBVIOUS
<1>6. /\ s2.there = (s.there \/ job[p].h = Root) /\ s2.keys = (s.keys \/ job[p].h = Root)
      /\ s2.passcode = s.passcode /\ s2.password = s.password
      /\ s2.sha = s.sha /\ s2.mark = s.mark
  BY <1>5 DEF WithKeys, Authority, StoreRecord
<1>7. m.there = (m.there \/ FALSE)
  BY DEF HomeRecord
<1>8. Wrote("config", job[p].h, None, job[p].password, m, s, login[job[p].h][u],
            m, s2, login[job[p].h][u])
  BY <1>6, <1>7 DEF Wrote
<1>9. Writes(p, "config", u, None, Tail(job[p].steps))
  BY <1>1, <1>3, <1>4, <1>5, <1>8, DoesWrites DEF Writing
<1> QED BY <1>9 DEF Written, Writing

LEMMA AddWrites ==
  ASSUME env \in Envs, JobsOK, env' = env, FilesType, NEW p \in Callers, Add(p)
  PROVE  Written(p)
<1>1. PICK u, t :
        LET j == job[p] IN
        /\ u \in Users
        /\ Does(p, "add", u, t, [home[j.h][u] EXCEPT !.there = TRUE], store[j.h][u], login[j.h][u])
        /\ Head(j.phases) \in {"add", "structure"}
        /\ IF home[j.h][u].there /\ store[j.h][u].there THEN t = After(Head(j.phases))
           ELSE First([steps |-> t], {"collect"})
  BY AddDoes
<1>2. job[p].h \in Hosts /\ u \in Users
  BY <1>1 DEF Does
<1>3. PICK s \in StoreRecord : s = store[job[p].h][u]
  BY <1>2, EntryType
<1>4. PICK m \in HomeRecord : m = home[job[p].h][u]
  BY <1>2, EntryType
<1>5. PICK m2 : m2 = [m EXCEPT !.there = TRUE]
  OBVIOUS
<1>6. m2.there = TRUE /\ m2.password = m.password /\ m2.sha = m.sha
  BY <1>5 DEF HomeRecord
<1>7. s.there = (s.there \/ FALSE) /\ s.keys = (s.keys \/ FALSE)
  BY DEF StoreRecord
<1>8. Wrote("add", job[p].h, None, job[p].password, m, s, login[job[p].h][u],
            m2, s, login[job[p].h][u])
  BY <1>6, <1>7 DEF Wrote
<1>9. Within("add", Head(job[p].phases))
  BY <1>1 DEF Within, Setting
<1>10. \/ Follows("add", t, Head(job[p].phases)) /\ home[job[p].h][u].there
       \/ /\ First([steps |-> t], {"collect"})
          /\ ~(home[job[p].h][u].there /\ store[job[p].h][u].there)
  BY <1>1 DEF Follows
<1>11. Writes(p, "add", u, None, t)
  BY <1>1, <1>2, <1>3, <1>4, <1>5, <1>8, <1>9, <1>10, DoesWrites DEF Writing
<1> QED BY <1>2, <1>11 DEF Written, Writing

LEMMA ChooseWrites ==
  ASSUME env \in Envs, JobsOK, env' = env, FilesType, NEW p \in Callers, Choose(p)
  PROVE  Written(p)
<1>1. PICK u \in Users, w \in Unused :
        LET j == job[p]
            t == Tail(j.steps)
        IN  /\ Does(p, "choose", u, t, [home[j.h][u] EXCEPT !.password = w], store[j.h][u],
                    login[j.h][u])
            /\ Follows("choose", t, Head(j.phases)) /\ Within("choose", Head(j.phases))
  BY ChooseDoes
<1>2. job[p].h \in Hosts
  BY <1>1 DEF Does
<1>3. PICK s \in StoreRecord : s = store[job[p].h][u]
  BY <1>2, EntryType
<1>4. PICK m \in HomeRecord : m = home[job[p].h][u]
  BY <1>2, EntryType
<1>5. PICK m2 : m2 = [m EXCEPT !.password = w]
  OBVIOUS
<1>6. m2.there = (m.there \/ FALSE) /\ m2.password = w /\ m2.sha = m.sha
  BY <1>5 DEF HomeRecord
<1>7. s.there = (s.there \/ FALSE) /\ s.keys = (s.keys \/ FALSE)
  BY DEF StoreRecord
<1>8. Wrote("choose", job[p].h, w, job[p].password, m, s, login[job[p].h][u],
            m2, s, login[job[p].h][u])
  BY <1>6, <1>7 DEF Wrote
<1>9. Writes(p, "choose", u, w, Tail(job[p].steps))
  BY <1>1, <1>3, <1>4, <1>5, <1>8, DoesWrites DEF Writing
<1> QED BY <1>9 DEF Written, Writing

LEMMA PasswdWrites ==
  ASSUME env \in Envs, JobsOK, env' = env, FilesType, NEW p \in Callers, Passwd(p)
  PROVE  Written(p)
<1>1. PICK u \in Users :
        LET j == job[p]
            t == Tail(j.steps)
        IN  /\ Does(p, "passwd", u, t, home[j.h][u], store[j.h][u], j.password)
            /\ Follows("passwd", t, Head(j.phases)) /\ Within("passwd", Head(j.phases))
  BY PasswdDoes
<1>2. job[p].h \in Hosts
  BY <1>1 DEF Does
<1>3. PICK s \in StoreRecord : s = store[job[p].h][u]
  BY <1>2, EntryType
<1>4. PICK m \in HomeRecord : m = home[job[p].h][u]
  BY <1>2, EntryType
<1>7. /\ m.there = (m.there \/ FALSE)
      /\ s.there = (s.there \/ FALSE) /\ s.keys = (s.keys \/ FALSE)
  BY DEF HomeRecord, StoreRecord
<1>8. Wrote("passwd", job[p].h, None, job[p].password, m, s, login[job[p].h][u],
            m, s, job[p].password)
  BY <1>7 DEF Wrote
<1>9. Writes(p, "passwd", u, None, Tail(job[p].steps))
  BY <1>1, <1>3, <1>4, <1>8, DoesWrites DEF Writing
<1> QED BY <1>9 DEF Written, Writing

LEMMA MarkWrites ==
  ASSUME env \in Envs, JobsOK, env' = env, FilesType, NEW p \in Callers, Mark(p)
  PROVE  Written(p)
<1>1. PICK u \in Users :
        LET j == job[p]
            t == Tail(j.steps)
        IN  /\ Does(p, "mark", u, t, home[j.h][u], [store[j.h][u] EXCEPT !.mark = j.password],
                    login[j.h][u])
            /\ Follows("mark", t, Head(j.phases)) /\ Within("mark", Head(j.phases))
  BY MarkDoes
<1>2. job[p].h \in Hosts
  BY <1>1 DEF Does
<1>3. PICK s \in StoreRecord : s = store[job[p].h][u]
  BY <1>2, EntryType
<1>4. PICK m \in HomeRecord : m = home[job[p].h][u]
  BY <1>2, EntryType
<1>5. PICK s2 : s2 = [s EXCEPT !.mark = job[p].password]
  OBVIOUS
<1>7. /\ m.there = (m.there \/ FALSE)
      /\ s2.there = (s.there \/ FALSE) /\ s2.keys = (s.keys \/ FALSE)
      /\ s2.passcode = s.passcode /\ s2.password = s.password /\ s2.sha = s.sha
      /\ s2.mark = job[p].password
  BY <1>5 DEF HomeRecord, StoreRecord
<1>8. Wrote("mark", job[p].h, None, job[p].password, m, s, login[job[p].h][u],
            m, s2, login[job[p].h][u])
  BY <1>7 DEF Wrote
<1>9. Writes(p, "mark", u, None, Tail(job[p].steps))
  BY <1>1, <1>3, <1>4, <1>5, <1>8, DoesWrites DEF Writing
<1> QED BY <1>9 DEF Written, Writing

LEMMA ShaWrites ==
  ASSUME env \in Envs, JobsOK, env' = env, FilesType, NEW p \in Callers, Sha(p)
  PROVE  Written(p)
<1>1. PICK u \in Users :
        LET j == job[p]
            t == Tail(j.steps)
        IN  /\ Does(p, "sha", u, t, [home[j.h][u] EXCEPT !.sha = j.password],
                    [store[j.h][u] EXCEPT !.sha = j.password], login[j.h][u])
            /\ Follows("sha", t, Head(j.phases)) /\ Within("sha", Head(j.phases))
  BY ShaDoes
<1>2. job[p].h \in Hosts
  BY <1>1 DEF Does
<1>3. PICK s \in StoreRecord : s = store[job[p].h][u]
  BY <1>2, EntryType
<1>4. PICK m \in HomeRecord : m = home[job[p].h][u]
  BY <1>2, EntryType
<1>5. PICK s2 : s2 = [s EXCEPT !.sha = job[p].password]
  OBVIOUS
<1>6. PICK m2 : m2 = [m EXCEPT !.sha = job[p].password]
  OBVIOUS
<1>7. /\ m2.there = (m.there \/ FALSE) /\ m2.password = m.password
      /\ m2.sha = job[p].password
      /\ s2.there = (s.there \/ FALSE) /\ s2.keys = (s.keys \/ FALSE)
      /\ s2.passcode = s.passcode /\ s2.password = s.password /\ s2.mark = s.mark
      /\ s2.sha = job[p].password
  BY <1>5, <1>6 DEF HomeRecord, StoreRecord
<1>8. Wrote("sha", job[p].h, None, job[p].password, m, s, login[job[p].h][u],
            m2, s2, login[job[p].h][u])
  BY <1>7 DEF Wrote
<1>9. Writes(p, "sha", u, None, Tail(job[p].steps))
  BY <1>1, <1>3, <1>4, <1>5, <1>6, <1>8, DoesWrites DEF Writing
<1> QED BY <1>9 DEF Written, Writing

LEMMA SaveWrites ==
  ASSUME env \in Envs, JobsOK, env' = env, FilesType, NEW p \in Callers, Save(p)
  PROVE  Written(p)
<1>1. PICK u \in Users :
        LET j == job[p]
            t == Tail(j.steps)
        IN  /\ Does(p, "save", u, t, [home[j.h][u] EXCEPT !.password = j.password],
                    store[j.h][u], login[j.h][u])
            /\ Follows("save", t, Head(j.phases)) /\ Within("save", Head(j.phases))
  BY SaveDoes
<1>2. job[p].h \in Hosts
  BY <1>1 DEF Does
<1>3. PICK s \in StoreRecord : s = store[job[p].h][u]
  BY <1>2, EntryType
<1>4. PICK m \in HomeRecord : m = home[job[p].h][u]
  BY <1>2, EntryType
<1>6. PICK m2 : m2 = [m EXCEPT !.password = job[p].password]
  OBVIOUS
<1>7. /\ m2.there = (m.there \/ FALSE) /\ m2.sha = m.sha
      /\ m2.password = job[p].password
      /\ s.there = (s.there \/ FALSE) /\ s.keys = (s.keys \/ FALSE)
  BY <1>6 DEF HomeRecord, StoreRecord
<1>8. Wrote("save", job[p].h, None, job[p].password, m, s, login[job[p].h][u],
            m2, s, login[job[p].h][u])
  BY <1>7 DEF Wrote
<1>9. Writes(p, "save", u, None, Tail(job[p].steps))
  BY <1>1, <1>3, <1>4, <1>6, <1>8, DoesWrites DEF Writing
<1> QED BY <1>9 DEF Written, Writing

(* What update_password writes before it sets a password.                  *)
Got(h, w, m, s, l, m2, s2, l2) ==
  LET sha == IF m.sha # None THEN m.sha ELSE s.sha IN
  /\ m2.there = m.there /\ m2.password = Kept(h, m, s, w) /\ m2.sha = sha
  /\ s2.there = TRUE /\ s2.keys = s.keys /\ s2.passcode = Passcode(h, s, w)
  /\ s2.password = Kept(h, m, s, w) /\ s2.sha = sha /\ s2.mark = s.mark
  /\ l2 = l

Collects(p, u, w, t) ==
  LET j == job[p]
      m == home[j.h][u]
      s == store[j.h][u]
      k == Kept(j.h, m, s, w)
  IN
  /\ At(p, "collect") /\ u \in Users /\ j.u = {u} /\ j.h \in Hosts
  /\ Within("collect", Head(j.phases))
  /\ w \in NewPasscodes(j.h, u) /\ w \in Word
  /\ t \in Left(Head(j.phases)) /\ Goes(p, t)
  /\ job'[p].password = k
  /\ job'[p].cur = IF k = None THEN j.cur ELSE Current(s, j.cur)
  /\ Puts(j.h, u, home'[j.h][u], store'[j.h][u], login'[j.h][u])
  /\ Got(j.h, w, m, s, login[j.h][u], home'[j.h][u], store'[j.h][u], login'[j.h][u])
  /\ IF IsNew(j.h, m, s, w, j.cur) THEN First([steps |-> t], {"passwd"})
     ELSE t = After(Head(j.phases))
  /\ UNCHANGED <<listed, access, shared>>

LEMMA CollectCollects ==
  ASSUME env \in Envs, JobsOK, env' = env, FilesType, NEW p \in Callers, Collect(p)
  PROVE  \E u, w, t : Collects(p, u, w, t)
<1>1. PICK j \in JobRecord : j = job[p]
  BY DEF JobsOK
<1>v. PICK u \in Users : \E w, t : CollectDone(p, u, w, t)
  BY CollectDoes
<1>c. PICK w, t : CollectDone(p, u, w, t)
  BY <1>v
<1>2. LET m == home[j.h][u]
          s == store[j.h][u]
          l == login[j.h][u]
      IN  /\ u \in Users /\ w \in NewPasscodes(j.h, u) /\ w \in Word
          /\ At(p, "collect") /\ j.u = {u} /\ j.h \in Hosts
          /\ t \in Left(Head(j.phases)) /\ Within("collect", Head(j.phases))
          /\ Steps(p, [j EXCEPT !.steps = t, !.password = Kept(j.h, m, s, w),
                         !.cur = IF Kept(j.h, m, s, w) = None THEN @
                                 ELSE Current(s, j.cur)])
          /\ Puts(j.h, u, GotHome(j.h, m, s, w), GotStore(j.h, m, s, w), l)
          /\ IF IsNew(j.h, m, s, w, j.cur) THEN First([steps |-> t], {"passwd"})
             ELSE t = After(Head(j.phases))
          /\ UNCHANGED <<listed, access, shared>>
  BY <1>1, <1>c DEF CollectDone
<1>3. PICK m \in HomeRecord : m = home[j.h][u]
  BY <1>2, EntryType
<1>4. PICK s \in StoreRecord : s = store[j.h][u]
  BY <1>2, EntryType
<1>5. PICK l \in Word : l = login[j.h][u]
  BY <1>2, EntryType
<1>6. PICK k : k = Kept(j.h, m, s, w)
  OBVIOUS
<1>7. PICK x : x = IF k = None THEN j.cur ELSE Current(s, j.cur)
  OBVIOUS
<1>8. PICK j2 : j2 = [j EXCEPT !.steps = t, !.password = k, !.cur = x]
  OBVIOUS
<1>9. [j EXCEPT !.steps = t, !.password = k, !.cur = IF k = None THEN @ ELSE Current(s, j.cur)] = j2
  BY <1>7, <1>8
<1>10. Steps(p, j2)
  BY <1>2, <1>3, <1>4, <1>6, <1>9
<1>11. j2.password = k /\ j2.cur = x
  BY <1>8 DEF JobRecord
<1>12. Goes(p, t)
  BY <1>1, <1>8, <1>10, GoesTo
<1>13. /\ home'[j.h][u] = GotHome(j.h, m, s, w) /\ store'[j.h][u] = GotStore(j.h, m, s, w)
       /\ login'[j.h][u] = l
  BY <1>2, <1>3, <1>4, <1>5 DEF Puts
<1>14. Puts(j.h, u, home'[j.h][u], store'[j.h][u], login'[j.h][u])
  BY <1>2, <1>3, <1>4, <1>5, <1>13
<1>15. PICK m2 : m2 = GotHome(j.h, m, s, w)
  OBVIOUS
<1>16. PICK s2 : s2 = GotStore(j.h, m, s, w)
  OBVIOUS
<1>17. Got(j.h, w, m, s, l, m2, s2, l)
  BY <1>15, <1>16 DEF Got, GotHome, GotStore, HomeRecord, StoreRecord
<1>18. job'[p].password = k /\ job'[p].cur = x
  BY <1>10, <1>11 DEF Steps
<1>19. Collects(p, u, w, t)
  BY <1>1, <1>2, <1>3, <1>4, <1>5, <1>6, <1>7, <1>12, <1>13, <1>14, <1>15, <1>16, <1>17, <1>18
     DEF Collects
<1> QED BY <1>19

(* A store that a host has copied from Root.                               *)
Copies(g) == \A v \in Users : store'[g][v] = Copied(store[g][v], store[Root][v])

Syncs(p) ==
  LET j == job[p] IN
  /\ At(p, "sync") /\ Head(j.phases) = "sync" /\ j.h \in Hosts
  /\ Idle(p) /\ Goes(p, <<>>)
  /\ FilesType'
  /\ \A g \in Hosts : (\A v \in Users : store'[g][v] = store[g][v]) \/ (g # Root /\ Copies(g))
  /\ "net" \notin env.events => j.h = Root \/ Copies(j.h)
  /\ UNCHANGED <<home, login, listed, access, shared>>

LEMMA CopiedType ==
  ASSUME NEW mine \in StoreRecord, NEW his \in StoreRecord
  PROVE  Copied(mine, his) \in StoreRecord
BY DEF Copied, StoreRecord

LEMMA SyncSyncs ==
  ASSUME env \in Envs, JobsOK, env' = env, FilesType, NEW p \in Callers, Sync(p)
  PROVE  Syncs(p)
<1>1. At(p, "sync") /\ Done(p) /\ UNCHANGED <<home, login, listed, access, shared>>
  BY DEF Sync
<1>2. Idle(p) /\ Steps(p, [job[p] EXCEPT !.steps = <<>>]) /\ Head(job[p].phases) = "sync"
  BY <1>1, LastStep DEF Within
<1>3. Goes(p, <<>>)
  BY <1>2, GoesTo
<1> DEFINE h == job[p].h
           targets == IF h = Root THEN Hosts \ {Root} ELSE {h}
<1>4. PICK reached \in (IF "net" \in env.events THEN SUBSET targets ELSE {targets}) :
        store' = [g \in Hosts |-> [u \in Users |->
                    IF g \in reached THEN Copied(store[g][u], store[Root][u])
                    ELSE store[g][u]]]
  BY DEF Sync
<1>5. h \in Hosts /\ Root \in Hosts
  BY ConstantsAssumption DEF JobsOK, JobRecord
<1>6. reached \subseteq targets /\ ("net" \notin env.events => reached = targets)
  BY <1>4
<1>7. reached \subseteq Hosts \ {Root}
  BY <1>5, <1>6
<1>8. \A g \in Hosts, v \in Users :
        store'[g][v] = IF g \in reached THEN Copied(store[g][v], store[Root][v]) ELSE store[g][v]
  BY <1>4
<1>9. FilesType'
  <2>1. \A g \in Hosts, v \in Users :
          store[g][v] \in StoreRecord /\ Copied(store[g][v], store[Root][v]) \in StoreRecord
    BY <1>5, EntryType, CopiedType
  <2>2. store' \in [Hosts -> [Users -> StoreRecord]]
    BY <1>4, <2>1
  <2> QED BY <1>1, <2>2 DEF FilesType
<1>10. \A g \in Hosts :
         (\A v \in Users : store'[g][v] = store[g][v]) \/ (g # Root /\ Copies(g))
  BY <1>7, <1>8 DEF Copies
<1>11. "net" \notin env.events => h = Root \/ Copies(h)
  BY <1>5, <1>6, <1>8 DEF Copies
<1> QED BY <1>1, <1>2, <1>3, <1>5, <1>9, <1>10, <1>11 DEF Syncs

(* Users edit a password, root edits a list.                               *)
Edits(h, u, w) ==
  /\ "edit" \in env.events
  /\ Active = {} \/ "meanwhile" \in env.events
  /\ w \in Unused \/ "same" \in env.events
  /\ w \in Passwords /\ h \in Hosts /\ u \in Users /\ JobsOK'
  /\ Puts(h, u, home'[h][u], store[h][u], login[h][u])
  /\ home'[h][u].there = home[h][u].there /\ home'[h][u].sha = home[h][u].sha
  /\ home'[h][u].password = w
  /\ UNCHANGED <<store, login, listed, access, shared, job>>

LEMMA EditEdits ==
  ASSUME env \in Envs, JobsOK, env' = env, FilesType, NEW h \in Hosts, NEW u \in Users,
         NEW w \in Passwords, Edit(h, u, w)
  PROVE  Edits(h, u, w)
<1>1. JobsOK'
  BY DEF Edit, JobsOK, Single
<1>2. PICK m \in HomeRecord : m = home[h][u]
  BY EntryType
<1>3. PICK m2 : m2 = [m EXCEPT !.password = w]
  OBVIOUS
<1>4. m2 \in HomeRecord /\ m2.there = m.there /\ m2.sha = m.sha /\ m2.password = w
  BY <1>3 DEF HomeRecord, Word
<1>5. home' = [home EXCEPT ![h][u] = m2]
  BY <1>2, <1>3 DEF Edit
<1>6. /\ store' = [store EXCEPT ![h][u] = store[h][u]]
      /\ login' = [login EXCEPT ![h][u] = login[h][u]]
  BY SameEntry DEF Edit
<1>7. Puts(h, u, m2, store[h][u], login[h][u])
  BY <1>4, <1>5, <1>6, EntryType, PutsAll
<1>8. home'[h][u] = m2
  BY <1>7 DEF Puts
<1> QED BY <1>1, <1>2, <1>4, <1>7, <1>8 DEF Edit, Edits

-----------------------------------------------------------------------------
(* Every step is one of these.                                             *)
Moves ==
  \/ \E p \in Callers : Plain(p) /\ Idle(p) /\ UNCHANGED <<home, store, login>>
  \/ \E p \in Callers : Written(p)
  \/ \E p \in Callers : \E u, w, t : Collects(p, u, w, t)
  \/ \E p \in Callers : Syncs(p)
  \/ \E h \in Hosts, u \in Users, w \in Passwords : Edits(h, u, w)
  \/ \E c \in Containers, u \in Users : Relist(c, u)
  \/ UNCHANGED vars

LEMMA TypeParts ==
  ASSUME TypeOK
  PROVE  env \in Envs /\ FilesType /\ listed \in [Containers -> SUBSET Users]
BY DEF TypeOK, FilesType, HomeRecord, StoreRecord

LEMMA NextMoves ==
  ASSUME TypeOK, JobsOK, [Next]_vars
  PROVE  env' = env /\ Moves
<1>1. env' = env
  BY DEF Next, vars
<1> SUFFICES Moves
  BY <1>1
<1>2. env \in Envs /\ FilesType /\ listed \in [Containers -> SUBSET Users]
  BY TypeParts
<1>3. env.users \subseteq Users
  BY <1>2, EnvType
<1>4. ASSUME NEW p \in Callers, Plain(p)
      PROVE  Moves
  BY <1>1, <1>2, <1>4, PlainIdle DEF Moves
<1>5. ASSUME NEW p \in Callers, Type(p)
      PROVE  Moves
  <2>1. \E cmd \in Commands, h \in Hosts, u \in Users, C \in SUBSET Containers :
          Command(p, cmd, h, u, C)
    <3>1. PICK cmd \in Commands, h \in Hosts, u \in env.users :
            \E C \in {{}} \cup {{c} : c \in Here(h)} : Command(p, cmd, h, u, C)
      BY <1>5 DEF Type
    <3>2. PICK C \in {{}} \cup {{c} : c \in Here(h)} : Command(p, cmd, h, u, C)
      BY <3>1
    <3>3. C \in SUBSET Containers /\ u \in Users
      BY <1>3 DEF Here
    <3> QED BY <3>2, <3>3
  <2> QED BY <1>4, <2>1 DEF Plain
<1>6. ASSUME NEW p \in Callers, Step(p)
      PROVE  Moves
  <2>1. \/ Plain(p)
        \/ Config(p) \/ Add(p) \/ Choose(p) \/ Passwd(p) \/ Mark(p) \/ Sha(p) \/ Save(p)
        \/ Collect(p) \/ Sync(p)
    BY <1>6 DEF Step, Plain
  <2>2. CASE Config(p) \/ Add(p) \/ Choose(p) \/ Passwd(p) \/ Mark(p) \/ Sha(p) \/ Save(p)
    <3>1. Written(p)
      BY <1>1, <1>2, <2>2, ConfigWrites, AddWrites, ChooseWrites, PasswdWrites, MarkWrites,
         ShaWrites, SaveWrites
    <3> QED BY <3>1 DEF Moves
  <2>3. CASE Collect(p)
    <3>1. \E u, w, t : Collects(p, u, w, t)
      BY <1>1, <1>2, <2>3, CollectCollects
    <3> QED BY <3>1, Zenon DEF Moves
  <2>4. CASE Sync(p)
    BY <1>1, <1>2, <2>4, SyncSyncs DEF Moves
  <2> QED BY <1>4, <2>1, <2>2, <2>3, <2>4
<1>7. ASSUME NEW p \in Callers, Kill(p)
      PROVE  Moves
  BY <1>4, <1>7 DEF Plain
<1>8. CASE People
  <2>1. ASSUME NEW h \in Hosts, NEW u \in env.users, NEW w \in Passwords, Edit(h, u, w)
        PROVE  Moves
    <3>1. u \in Users
      BY <1>3
    <3>2. Edits(h, u, w)
      BY <1>1, <1>2, <2>1, <3>1, EditEdits
    <3> QED BY <3>1, <3>2 DEF Moves
  <2>2. ASSUME NEW c \in Containers, NEW u \in env.users, Relist(c, u)
        PROVE  Moves
    <3>1. u \in Users
      BY <1>3
    <3> QED BY <2>2, <3>1 DEF Moves
  <2> QED BY <1>8, <2>1, <2>2, Zenon DEF People
<1>9. CASE UNCHANGED vars
  BY <1>9, Zenon DEF Moves
<1> QED BY <1>1, <1>5, <1>6, <1>7, <1>8, <1>9 DEF Next

(* What a plain step leaves in the lists and in the containers.            *)
ListsType ==
  /\ listed \in [Containers -> SUBSET Users]
  /\ access \in [Containers -> SUBSET Users]
  /\ shared \in [Containers -> [Users -> Word]]

LEMMA PlainLists ==
  ASSUME env \in Envs, JobsOK, env' = env, FilesType, ListsType, NEW p \in Callers, Plain(p)
  PROVE  ListsType'
<1>1. \/ UNCHANGED <<listed, access, shared>>
      \/ List(p) \/ Reset(p) \/ AppendKeys(p) \/ Share(p)
  BY DEF Plain, Command, NextUser, NextContainer, NextPhase, Kill
<1>2. CASE UNCHANGED <<listed, access, shared>>
  BY <1>2 DEF ListsType
<1>3. CASE List(p)
  <2>1. job[p].u \subseteq Users
    BY <1>3, ListSteps
  <2> QED BY <1>3, <2>1 DEF List, ListsType
<1>4. CASE Reset(p)
  BY <1>4 DEF Reset, ListsType
<1>5. CASE AppendKeys(p)
  <2>1. PICK c \in job[p].c, u \in job[p].u :
          access' = [access EXCEPT ![c] = IF store[job[p].h][u].keys THEN @ \cup {u} ELSE @]
    BY <1>5 DEF AppendKeys
  <2>2. \E v \in Users : job[p].u = {v}
    BY <1>5, StepFor DEF AppendKeys
  <2>3. u \in Users
    BY <2>1, <2>2
  <2>4. access' \in [Containers -> SUBSET Users]
    BY <2>1, <2>3 DEF ListsType
  <2> QED BY <1>5, <2>4 DEF AppendKeys, ListsType
<1>6. CASE Share(p)
  <2>1. PICK c \in job[p].c :
          shared' = [shared EXCEPT ![c] = [u \in Users |->
                       IF u \in listed[c] THEN store[job[p].h][u].sha ELSE None]]
    BY <1>6 DEF Share
  <2>2. job[p].h \in Hosts
    BY DEF JobsOK, JobRecord
  <2>3. [u \in Users |-> IF u \in listed[c] THEN store[job[p].h][u].sha ELSE None] \in [Users -> Word]
    BY <2>2, EntryType DEF Word
  <2>4. shared' \in [Containers -> [Users -> Word]]
    BY <2>1, <2>3 DEF ListsType
  <2> QED BY <1>6, <2>4 DEF Share, ListsType
<1> QED BY <1>1, <1>2, <1>3, <1>4, <1>5, <1>6

LEMMA TypeStep ==
  ASSUME TypeOK, JobsOK, env' = env, Moves
  PROVE  TypeOK' /\ JobsOK'
<1>1. env \in Envs /\ FilesType /\ ListsType
  BY TypeParts DEF TypeOK, ListsType
<1> SUFFICES FilesType' /\ ListsType' /\ JobsOK'
  <2>1. ASSUME JobsOK'
        PROVE  \A p \in Callers : job'[p].password \in Word /\ job'[p].cur \in Word
    BY <2>1 DEF JobsOK, JobRecord
  <2> QED BY <1>1, <2>1 DEF TypeOK, FilesType, HomeRecord, StoreRecord, ListsType
<1>2. ASSUME NEW p \in Callers, Plain(p), Idle(p), UNCHANGED <<home, store, login>>
      PROVE  FilesType' /\ ListsType' /\ JobsOK'
  <2>1. ListsType'
    BY <1>1, <1>2, PlainLists
  <2> QED BY <1>1, <1>2, <2>1 DEF FilesType, Idle
<1>3. ASSUME NEW p \in Callers, Written(p)
      PROVE  FilesType' /\ ListsType' /\ JobsOK'
  <2>1. PICK x \in Writing, u \in Users : \E w, t : Writes(p, x, u, w, t)
    BY <1>3 DEF Written
  <2>2. PICK w, t : Writes(p, x, u, w, t)
    BY <2>1
  <2>3. JobsOK'
    BY <2>2 DEF Writes, Goes
  <2>4. FilesType'
    BY <2>2 DEF Writes, Puts
  <2>5. UNCHANGED <<listed, access, shared>>
    BY <2>2 DEF Writes
  <2> QED BY <1>1, <2>3, <2>4, <2>5 DEF ListsType
<1>4. ASSUME NEW p \in Callers, NEW u, NEW w, NEW t, Collects(p, u, w, t)
      PROVE  FilesType' /\ ListsType' /\ JobsOK'
  BY <1>1, <1>4 DEF Collects, Puts, Goes, ListsType
<1>5. ASSUME NEW p \in Callers, Syncs(p)
      PROVE  FilesType' /\ ListsType' /\ JobsOK'
  BY <1>1, <1>5 DEF Syncs, Goes, ListsType
<1>6. ASSUME NEW h \in Hosts, NEW u \in Users, NEW w \in Passwords, Edits(h, u, w)
      PROVE  FilesType' /\ ListsType' /\ JobsOK'
  BY <1>1, <1>6 DEF Edits, Puts, ListsType
<1>7. ASSUME NEW c \in Containers, NEW u \in Users, Relist(c, u)
      PROVE  FilesType' /\ ListsType' /\ JobsOK'
  <2>1. ListsType'
    BY <1>1, <1>7 DEF Relist, ListsType
  <2>2. FilesType'
    BY <1>1, <1>7 DEF Relist, FilesType
  <2>3. JobsOK'
    BY <1>7 DEF Relist, JobsOK, Single
  <2> QED BY <2>1, <2>2, <2>3
<1>8. CASE UNCHANGED vars
  <2>1. JobsOK'
    BY <1>8 DEF vars, JobsOK, Single
  <2> QED BY <1>1, <1>8, <2>1 DEF vars, FilesType, ListsType
<1> QED BY <1>2, <1>3, <1>4, <1>5, <1>6, <1>7, <1>8, Zenon DEF Moves

-----------------------------------------------------------------------------
(* Keys come from Root, and never go.                                      *)
LEMMA KeysStep ==
  ASSUME TypeOK, JobsOK, KeysOK, env' = env, Moves
  PROVE  KeysOK'
<1>0. FilesType /\ env \in Envs /\ Root \in Hosts
  BY TypeParts, ConstantsAssumption
<1>1. ASSUME store' = store
      PROVE  KeysOK'
  BY <1>1 DEF KeysOK
<1>2. ASSUME NEW h \in Hosts, NEW u \in Users, Puts(h, u, home'[h][u], store'[h][u], login'[h][u]),
             store[h][u].keys => store'[h][u].there /\ store'[h][u].keys,
             store'[h][u].keys => store'[h][u].there,
             store'[h][u].keys => store[h][u].keys \/ h = Root
      PROVE  KeysOK'
  <2>1. \A g \in Hosts, v \in Users : g # h \/ v # u => store'[g][v] = store[g][v]
    BY <1>2 DEF Puts
  <2> SUFFICES ASSUME NEW g \in Hosts, NEW v \in Users, store'[g][v].keys
               PROVE  store'[g][v].there /\ store'[Root][v].keys
    BY DEF KeysOK
  <2>2. CASE g = h /\ v = u
    BY <1>0, <1>2, <2>1, <2>2 DEF KeysOK
  <2>3. CASE g # h \/ v # u
    <3>1. store[g][v].keys /\ store[g][v].there /\ store[Root][v].keys
      BY <2>1, <2>3 DEF KeysOK
    <3>2. store'[Root][v].keys
      BY <1>0, <1>2, <2>1, <3>1
    <3> QED BY <2>1, <2>3, <3>1, <3>2
  <2> QED BY <2>2, <2>3
<1>3. ASSUME NEW p \in Callers, Written(p)
      PROVE  KeysOK'
  <2>0. PICK x \in Writing, u \in Users : \E w, t : Writes(p, x, u, w, t)
    BY <1>3 DEF Written
  <2>1. PICK w, t : Writes(p, x, u, w, t)
    BY <2>0
  <2>2. PICK h \in Hosts : h = job[p].h
    BY <2>1 DEF Writes
  <2>3. /\ Puts(h, u, home'[h][u], store'[h][u], login'[h][u])
        /\ store'[h][u].there = (store[h][u].there \/ (x = "config" /\ h = Root))
        /\ store'[h][u].keys = (store[h][u].keys \/ (x = "config" /\ h = Root))
    BY <2>1, <2>2 DEF Writes, Wrote
  <2>4. store[h][u].keys => store[h][u].there
    BY DEF KeysOK
  <2>5. store[h][u].there \in BOOLEAN /\ store[h][u].keys \in BOOLEAN
    BY <1>0, EntryType
  <2> QED BY <1>2, <2>3, <2>4, <2>5
<1>4. ASSUME NEW p \in Callers, NEW u, NEW w, NEW t, Collects(p, u, w, t)
      PROVE  KeysOK'
  <2>1. PICK h \in Hosts : h = job[p].h
    BY <1>4 DEF Collects
  <2>2. /\ Puts(h, u, home'[h][u], store'[h][u], login'[h][u]) /\ u \in Users
        /\ store'[h][u].there = TRUE /\ store'[h][u].keys = store[h][u].keys
    BY <1>4, <2>1 DEF Collects, Got
  <2> QED BY <1>2, <2>2
<1>5. ASSUME NEW p \in Callers, Syncs(p)
      PROVE  KeysOK'
  <2>1. \A g \in Hosts : (\A v \in Users : store'[g][v] = store[g][v]) \/ (g # Root /\ Copies(g))
    BY <1>5 DEF Syncs
  <2>2. \A v \in Users : store'[Root][v] = store[Root][v]
    BY <1>0, <2>1
  <2> SUFFICES ASSUME NEW g \in Hosts, NEW v \in Users, store'[g][v].keys
               PROVE  store'[g][v].there /\ store'[Root][v].keys
    BY DEF KeysOK
  <2>3. /\ store[g][v].keys => store[g][v].there /\ store[Root][v].keys
        /\ store[g][v].keys \in BOOLEAN /\ store[Root][v].keys \in BOOLEAN
    BY <1>0, EntryType DEF KeysOK
  <2>4. CASE store'[g][v] = store[g][v]
    BY <2>2, <2>3, <2>4
  <2>5. CASE store'[g][v] = Copied(store[g][v], store[Root][v])
    <3>1. CASE ~store[Root][v].there
      BY <2>2, <2>3, <2>5, <3>1 DEF Copied
    <3>2. CASE store[Root][v].there
      BY <2>2, <2>3, <2>5, <3>2 DEF Copied
    <3> QED BY <3>1, <3>2
  <2> QED BY <2>1, <2>4, <2>5 DEF Copies
<1>6. ASSUME NEW h \in Hosts, NEW u \in Users, NEW w \in Passwords, Edits(h, u, w)
      PROVE  KeysOK'
  BY <1>1, <1>6 DEF Edits
<1>7. ASSUME NEW c \in Containers, NEW u \in Users, Relist(c, u)
      PROVE  KeysOK'
  BY <1>1, <1>7 DEF Relist
<1>8. CASE UNCHANGED vars
  BY <1>1, <1>8 DEF vars
<1> QED BY <1>1, <1>3, <1>4, <1>5, <1>6, <1>7, <1>8, Zenon DEF Moves

-----------------------------------------------------------------------------
(* Passwords come from Root.                                               *)
Keeps == \A v \in Users : store[Root][v].passcode \in {None, store'[Root][v].passcode}

LEMMA SourceKept ==
  ASSUME FilesType, Root \in Hosts, OneSource, Unchanged, Keeps, NEW g \in Hosts, NEW v \in Users
  PROVE  /\ FromRoot(store'[Root][v], home[g][v], store[g][v], login[g][v])
         /\ \A p \in Callers : First(job[p], Setting) => \A u \in job[p].u \cap Users :
              job[p].password \in {None, store'[Root][u].passcode}
BY DEF OneSource, FromRoot, Keeps

LEMMA OneSourceStep ==
  ASSUME TypeOK, JobsOK, OneSource, env' = env, Moves
  PROVE  OneSource'
<1>0. FilesType /\ env \in Envs /\ Root \in Hosts
  BY TypeParts, ConstantsAssumption
<1> SUFFICES ASSUME Unchanged
             PROVE  /\ \A h \in Hosts, u \in Users :
                         FromRoot(store'[Root][u], home'[h][u], store'[h][u], login'[h][u])
                    /\ \A p \in Callers : First(job'[p], Setting) => \A u \in job'[p].u :
                         job'[p].password \in {None, store'[Root][u].passcode}
  BY DEF OneSource, Unchanged
<1> DEFINE Goal1 == \A h \in Hosts, u \in Users :
                      FromRoot(store'[Root][u], home'[h][u], store'[h][u], login'[h][u])
           Goal2 == \A p \in Callers : First(job'[p], Setting) => \A u \in job'[p].u :
                      job'[p].password \in {None, store'[Root][u].passcode}
<1>u. \A p \in Callers : job[p].u \subseteq Users
  BY DEF JobsOK, JobRecord
<1>1. ASSUME UNCHANGED <<home, store, login>>
      PROVE  Goal1 /\ Keeps
  BY <1>1 DEF OneSource, Keeps
<1>2. ASSUME NEW h \in Hosts, NEW u \in Users, Puts(h, u, home'[h][u], store'[h][u], login'[h][u]),
             store[h][u].passcode \in {None, store'[h][u].passcode},
             Keeps => FromRoot(store'[Root][u], home'[h][u], store'[h][u], login'[h][u])
      PROVE  Goal1 /\ Keeps
  <2>1. \A g \in Hosts, v \in Users : g # h \/ v # u =>
          home'[g][v] = home[g][v] /\ store'[g][v] = store[g][v] /\ login'[g][v] = login[g][v]
    BY <1>2 DEF Puts
  <2>2. Keeps
    BY <1>0, <1>2, <2>1 DEF Keeps
  <2>3. ASSUME NEW g \in Hosts, NEW v \in Users
        PROVE  FromRoot(store'[Root][v], home'[g][v], store'[g][v], login'[g][v])
    <3>1. CASE g = h /\ v = u
      BY <1>2, <2>2, <3>1
    <3>2. CASE g # h \/ v # u
      BY <1>0, <2>1, <2>2, <3>2, SourceKept
    <3> QED BY <3>1, <3>2
  <2> QED BY <2>2, <2>3
<1>3. ASSUME NEW p \in Callers, \A q \in Callers : q # p => job'[q] = job[q], Keeps,
             First(job'[p], Setting) => \A u \in job'[p].u :
               job'[p].password \in {None, store'[Root][u].passcode}
      PROVE  Goal2
  <2> SUFFICES ASSUME NEW q \in Callers, First(job'[q], Setting), NEW u \in job'[q].u
               PROVE  job'[q].password \in {None, store'[Root][u].passcode}
    OBVIOUS
  <2>1. CASE q = p
    BY <1>3, <2>1
  <2>2. CASE q # p
    <3>1. job'[q] = job[q]
      BY <1>3, <2>2
    <3>2. u \in job[q].u /\ u \in Users /\ First(job[q], Setting)
      BY <3>1, <1>u
    <3> QED BY <1>0, <1>3, <3>1, <3>2, SourceKept
  <2> QED BY <2>1, <2>2
<1>4. ASSUME NEW p \in Callers, Idle(p), UNCHANGED <<home, store, login>>
      PROVE  Goal1 /\ Goal2
  <2>1. Goal1 /\ Keeps
    BY <1>1, <1>4
  <2>2. Goal2
    BY <1>3, <1>4, <2>1 DEF Idle
  <2> QED BY <2>1, <2>2
<1>5. ASSUME NEW p \in Callers, Written(p)
      PROVE  Goal1 /\ Goal2
  <2>0. PICK x \in Writing, u \in Users : \E w, t : Writes(p, x, u, w, t)
    BY <1>5 DEF Written
  <2>1. PICK w, t : Writes(p, x, u, w, t)
    BY <2>0
  <2>2. PICK h \in Hosts : h = job[p].h
    BY <2>1 DEF Writes
  <2>3. /\ Puts(h, u, home'[h][u], store'[h][u], login'[h][u])
        /\ Wrote(x, h, w, job[p].password, home[h][u], store[h][u], login[h][u],
                 home'[h][u], store'[h][u], login'[h][u])
        /\ At(p, x) /\ job[p].u = {u} /\ Within(x, Head(job[p].phases)) /\ Goes(p, t)
        /\ job'[p].password = job[p].password
        /\ Follows(x, t, Head(job[p].phases)) \/ First([steps |-> t], {"collect"})
    BY <2>1, <2>2 DEF Writes
  <2>4. x # "choose"
    <3> SUFFICES ASSUME x = "choose" PROVE FALSE
      OBVIOUS
    <3>1. /\ Running(env, job[p]) /\ job[p].cmd \in Commands /\ job[p].phases \in Ahead(job[p].cmd)
      BY <1>0, <2>3, Here1 DEF At, Running
    <3>2. Head(job[p].phases) = "new"
      BY <2>3 DEF Within
    <3>3. job[p].cmd = "new-password"
      BY <3>1, <3>2, PhaseOf
    <3> QED BY <3>1, <3>3 DEF Running, Unchanged
  <2>5. x \in Setting => job[p].password \in {None, store[Root][u].passcode}
    BY <2>3 DEF OneSource, First, At
  <2>6. FromRoot(store[Root][u], home[h][u], store[h][u], login[h][u])
    BY DEF OneSource
  <2>7. /\ store'[h][u].passcode = store[h][u].passcode
        /\ \A v \in Users : store'[Root][v].passcode = store[Root][v].passcode
    BY <1>0, <2>3 DEF Puts, Wrote
  <2>8. FromRoot(store'[Root][u], home'[h][u], store'[h][u], login'[h][u])
    BY <2>3, <2>4, <2>5, <2>6, <2>7 DEF FromRoot, Wrote, Setting
  <2>9. Goal1 /\ Keeps
    BY <1>2, <2>3, <2>7, <2>8
  <2>10. First(job'[p], Setting) => x \in Setting
    BY <2>3 DEF Goes, Later, First, Follows, After, Writing, Setting
  <2>11. job'[p].u = {u}
    BY <2>3 DEF Goes, Later
  <2>12. Goal2
    BY <1>3, <2>3, <2>5, <2>7, <2>9, <2>10, <2>11 DEF Goes
  <2> QED BY <2>9, <2>12
<1>6. ASSUME NEW p \in Callers, NEW u, NEW w, NEW t, Collects(p, u, w, t)
      PROVE  Goal1 /\ Goal2
  <2>1. PICK h \in Hosts : h = job[p].h
    BY <1>6 DEF Collects
  <2>2. /\ Puts(h, u, home'[h][u], store'[h][u], login'[h][u]) /\ u \in Users
        /\ Got(h, w, home[h][u], store[h][u], login[h][u],
               home'[h][u], store'[h][u], login'[h][u])
        /\ job[p].u = {u} /\ Goes(p, t) /\ job'[p].password = Kept(h, home[h][u], store[h][u], w)
        /\ w \in NewPasscodes(h, u)
    BY <1>6, <2>1 DEF Collects
  <2>3. /\ FromRoot(store[Root][u], home[h][u], store[h][u], login[h][u])
        /\ FromRoot(store[Root][u], home[Root][u], store[Root][u], login[Root][u])
    BY <1>0, <2>2 DEF OneSource
  <2>4. store'[h][u].passcode = Passcode(h, store[h][u], w)
    BY <2>2 DEF Got
  <2>5. store[h][u].passcode \in {None, store'[h][u].passcode}
    BY <2>4 DEF Passcode
  <2>6. h # Root => store'[Root][u] = store[Root][u]
    BY <1>0, <2>2 DEF Puts
  <2>7. Kept(h, home[h][u], store[h][u], w) \in {None, store'[Root][u].passcode}
    <3>1. CASE h = Root
      BY <2>3, <2>4, <3>1 DEF Kept, Passcode, FromRoot, Authority
    <3>2. CASE h # Root
      BY <2>3, <2>6, <3>2 DEF Kept, Passcode, FromRoot, Authority
    <3> QED BY <3>1, <3>2
  <2>8. store[h][u].passcode \in {None, store'[Root][u].passcode}
        /\ login[h][u] \in {None, store'[Root][u].passcode}
        /\ store'[h][u].passcode \in {None, store'[Root][u].passcode}
    <3>1. CASE h = Root
      BY <2>3, <2>4, <3>1 DEF Passcode, FromRoot, Authority
    <3>2. CASE h # Root
      BY <2>3, <2>4, <2>6, <3>2 DEF Passcode, FromRoot, Authority
    <3> QED BY <3>1, <3>2
  <2>9. FromRoot(store'[Root][u], home'[h][u], store'[h][u], login'[h][u])
    BY <2>2, <2>7, <2>8 DEF FromRoot, Got
  <2>10. Goal1 /\ Keeps
    BY <1>2, <2>2, <2>5, <2>9
  <2>11. job'[p].u = {u}
    BY <2>2 DEF Goes, Later
  <2>12. Goal2
    BY <1>3, <2>2, <2>7, <2>10, <2>11 DEF Goes
  <2> QED BY <2>10, <2>12
<1>7. ASSUME NEW p \in Callers, Syncs(p)
      PROVE  Goal1 /\ Goal2
  <2>1. /\ \A g \in Hosts : (\A v \in Users : store'[g][v] = store[g][v]) \/ (g # Root /\ Copies(g))
        /\ UNCHANGED <<home, login>> /\ Idle(p)
    BY <1>7 DEF Syncs
  <2>2. \A v \in Users : store'[Root][v] = store[Root][v]
    BY <1>0, <2>1
  <2>3. Keeps
    BY <2>2 DEF Keeps
  <2>4. ASSUME NEW g \in Hosts, NEW v \in Users
        PROVE  FromRoot(store'[Root][v], home'[g][v], store'[g][v], login'[g][v])
    <3>1. /\ FromRoot(store[Root][v], home[g][v], store[g][v], login[g][v])
          /\ FromRoot(store[Root][v], home[Root][v], store[Root][v], login[Root][v])
      BY <1>0 DEF OneSource
    <3>2. CASE store'[g][v] = store[g][v]
      BY <2>1, <2>2, <3>1, <3>2
    <3>3. CASE store'[g][v] = Copied(store[g][v], store[Root][v])
      <4>1. /\ store'[g][v].passcode \in {store[g][v].passcode, store[Root][v].passcode}
            /\ store'[g][v].password \in {store[g][v].password, store[Root][v].password}
        BY <3>3 DEF Copied
      <4> QED BY <2>1, <2>2, <3>1, <4>1 DEF FromRoot
    <3> QED BY <2>1, <3>2, <3>3 DEF Copies
  <2>5. Goal2
    BY <1>3, <2>1, <2>3 DEF Idle
  <2> QED BY <2>4, <2>5
<1>8. ASSUME NEW h \in Hosts, NEW u \in Users, NEW w \in Passwords, Edits(h, u, w)
      PROVE  Goal1 /\ Goal2
  BY <1>8 DEF Edits, Unchanged
<1>9. ASSUME UNCHANGED <<home, store, login, job>>
      PROVE  Goal1 /\ Goal2
  <2>1. Goal1
    BY <1>1, <1>9
  <2>2. Goal2
    BY <1>9 DEF OneSource
  <2> QED BY <2>1, <2>2
<1>10. ASSUME NEW c \in Containers, NEW u \in Users, Relist(c, u)
       PROVE  Goal1 /\ Goal2
  BY <1>9, <1>10 DEF Relist
<1>11. CASE UNCHANGED vars
  BY <1>9, <1>11 DEF vars
<1> QED BY <1>4, <1>5, <1>6, <1>7, <1>8, <1>10, <1>11, Zenon DEF Moves

-----------------------------------------------------------------------------
(* One command at a time: nobody else has a step to do.                    *)
LEMMA Others ==
  ASSUME env \in Envs, JobsOK, Single, NEW p \in Callers, job[p].steps # <<>>
  PROVE  \A q \in Callers : q # p => job[q] = NoJob /\ job[q].steps = <<>>
<1>1. job[p] \in JobRecord /\ job[p].cmd \in Commands
  BY Here1
<1>2. job[p].cmd # "none"
  BY <1>1 DEF Commands
<1> QED BY <1>2, AloneThen, NoJobType

(* Without a command there is none.                                        *)
LEMMA Idling ==
  ASSUME env \in Envs, JobsOK, Active = {}
  PROVE  \A q \in Callers : job[q] = NoJob /\ job[q].steps = <<>>
<1> SUFFICES ASSUME NEW q \in Callers PROVE job[q] = NoJob
  BY NoJobType
<1>1. job[q].cmd = "none"
  BY DEF Active
<1> QED BY <1>1, EnvType DEF JobsOK, Running, Commands

(* The next step of a list after one that writes.                          *)
LEMMA WritesFirst ==
  ASSUME NEW x \in Writing, NEW t, NEW phase,
         Follows(x, t, phase) \/ (x = "add" /\ First([steps |-> t], {"collect"}))
  PROVE  /\ First([steps |-> t], Setting) =>
              \/ x = "passwd" /\ Head(t) = "mark"
              \/ x = "mark" /\ Head(t) = "sha"
              \/ x = "sha" /\ Head(t) = "save"
         /\ x \in {"passwd", "mark", "sha"} => First([steps |-> t], Setting)
         /\ x = "choose" => First([steps |-> t], {"collect"})
<1>1. /\ Head(<<"list">>) = "list" /\ Head(<<"append">>) = "append"
      /\ <<"collect">> # <<>> /\ Head(<<"collect">>) = "collect"
  OBVIOUS
<1> QED BY <1>1 DEF Writing, Follows, First, Setting, After

LEMMA SetsStep ==
  ASSUME TypeOK, JobsOK, SetsOK, env' = env, Moves
  PROVE  SetsOK'
<1>0. FilesType /\ env \in Envs /\ Root \in Hosts
  BY TypeParts, ConstantsAssumption
<1> SUFFICES ASSUME Steady
             PROVE  \A p \in Callers : First(job'[p], Setting) =>
                      \A u \in job'[p].u :
                        SetOK(Head(job'[p].steps), job'[p].password, home'[job'[p].h][u],
                              store'[job'[p].h][u], login'[job'[p].h][u])
  BY DEF SetsOK, Steady, Single
<1> DEFINE Goal(p) == First(job'[p], Setting) =>
                      \A u \in job'[p].u :
                        SetOK(Head(job'[p].steps), job'[p].password, home'[job'[p].h][u],
                              store'[job'[p].h][u], login'[job'[p].h][u])
<1>1. ASSUME NEW p \in Callers, job'[p] = job[p], UNCHANGED <<home, store, login>>
      PROVE  Goal(p)
  BY <1>1 DEF SetsOK
<1>2. ASSUME NEW p \in Callers, job[p].steps # <<>>,
             \A q \in Callers : q # p => job'[q] = job[q]
      PROVE  \A q \in Callers : q # p => Goal(q)
  <2>1. \A q \in Callers : q # p => job'[q].steps = <<>>
    BY <1>0, <1>2, Others DEF Steady
  <2> QED BY <2>1 DEF First
<1>3. ASSUME NEW p \in Callers, Idle(p), UNCHANGED <<home, store, login>>
      PROVE  \A q \in Callers : Goal(q)
  BY <1>1, <1>3 DEF Idle
<1>4. ASSUME NEW p \in Callers, Written(p)
      PROVE  \A q \in Callers : Goal(q)
  <2>0. PICK x \in Writing, u \in Users : \E w, t : Writes(p, x, u, w, t)
    BY <1>4 DEF Written
  <2>1. PICK w, t : Writes(p, x, u, w, t)
    BY <2>0
  <2>2. PICK h \in Hosts : h = job[p].h
    BY <2>1 DEF Writes
  <2>3. /\ Wrote(x, h, w, job[p].password, home[h][u], store[h][u], login[h][u],
                 home'[h][u], store'[h][u], login'[h][u])
        /\ At(p, x) /\ job[p].u = {u} /\ Goes(p, t)
        /\ job'[p].password = job[p].password
        /\ Follows(x, t, Head(job[p].phases)) \/ (x = "add" /\ First([steps |-> t], {"collect"}))
    BY <2>1, <2>2 DEF Writes
  <2>4. job[p].steps # <<>> /\ Head(job[p].steps) = x
    BY <2>3 DEF At
  <2>5. x \in Setting =>
          SetOK(x, job[p].password, home[h][u], store[h][u], login[h][u])
    BY <2>2, <2>3, <2>4 DEF SetsOK, First
  <2>6. job'[p].h = h /\ job'[p].u = {u} /\ job'[p].steps = t
    BY <2>2, <2>3 DEF Goes, Later
  <2>7. First(job'[p], Setting) =>
              \/ x = "passwd" /\ Head(t) = "mark"
              \/ x = "mark" /\ Head(t) = "sha"
              \/ x = "sha" /\ Head(t) = "save"
    BY <2>3, <2>6, WritesFirst DEF First
  <2>8. Goal(p)
    BY <2>3, <2>5, <2>6, <2>7 DEF SetOK, Wrote, Setting
  <2> QED BY <1>2, <2>3, <2>4, <2>8 DEF Goes
<1>5. ASSUME NEW p \in Callers, NEW u, NEW w, NEW t, Collects(p, u, w, t)
      PROVE  \A q \in Callers : Goal(q)
  <2>1. PICK h \in Hosts : h = job[p].h
    BY <1>5 DEF Collects
  <2> DEFINE k == Kept(h, home[h][u], store[h][u], w)
  <2>2. /\ Got(h, w, home[h][u], store[h][u], login[h][u],
               home'[h][u], store'[h][u], login'[h][u])
        /\ job[p].u = {u} /\ Goes(p, t) /\ job'[p].password = k /\ job[p].steps # <<>>
        /\ IF IsNew(h, home[h][u], store[h][u], w, job[p].cur)
           THEN First([steps |-> t], {"passwd"}) ELSE t = After(Head(job[p].phases))
    BY <1>5, <2>1 DEF Collects, At
  <2>3. job'[p].h = h /\ job'[p].u = {u} /\ job'[p].steps = t
    BY <2>1, <2>2 DEF Goes, Later
  <2>4. CASE IsNew(h, home[h][u], store[h][u], w, job[p].cur)
    <3>1. Head(t) = "passwd" /\ k # None
      BY <2>2, <2>4 DEF First, IsNew
    <3>2. SetOK("passwd", k, home'[h][u], store'[h][u], login'[h][u])
      BY <2>2, <3>1 DEF SetOK, Got
    <3>3. Goal(p)
      BY <2>2, <2>3, <3>1, <3>2
    <3> QED BY <1>2, <2>2, <3>3 DEF Goes
  <2>5. CASE ~IsNew(h, home[h][u], store[h][u], w, job[p].cur)
    <3>1. Head(<<"list">>) = "list" /\ Head(<<"append">>) = "append"
      OBVIOUS
    <3>2. Goal(p)
      BY <2>2, <2>3, <2>5, <3>1 DEF After, First, Setting
    <3> QED BY <1>2, <2>2, <3>2 DEF Goes
  <2> QED BY <2>4, <2>5
<1>6. ASSUME NEW p \in Callers, Syncs(p)
      PROVE  \A q \in Callers : Goal(q)
  <2>1. job[p].steps # <<>> /\ Goes(p, <<>>)
    BY <1>6 DEF Syncs, At
  <2>2. Goal(p)
    BY <2>1 DEF Goes, Later, First
  <2> QED BY <1>2, <2>1, <2>2 DEF Goes
<1>7. ASSUME NEW h \in Hosts, NEW u \in Users, NEW w \in Passwords, Edits(h, u, w)
      PROVE  \A q \in Callers : Goal(q)
  <2>1. Active = {} /\ UNCHANGED job
    BY <1>7 DEF Edits, Steady
  <2>2. \A q \in Callers : job'[q].steps = <<>>
    BY <1>0, <2>1, Idling
  <2> QED BY <2>2 DEF First
<1>8. ASSUME NEW c \in Containers, NEW u \in Users, Relist(c, u)
      PROVE  \A q \in Callers : Goal(q)
  BY <1>1, <1>8 DEF Relist
<1>9. ASSUME UNCHANGED vars
      PROVE  \A q \in Callers : Goal(q)
  BY <1>1, <1>9 DEF vars
<1> HIDE DEF Goal
<1>10. \A q \in Callers : Goal(q)
  BY <1>3, <1>4, <1>5, <1>6, <1>7, <1>8, <1>9, Zenon DEF Moves
<1> QED BY <1>10 DEF Goal

LEMMA MatchStep ==
  ASSUME TypeOK, JobsOK, SetsOK, MatchOK, env' = env, Moves
  PROVE  MatchOK'
<1>0. FilesType /\ env \in Envs /\ Root \in Hosts
  BY TypeParts, ConstantsAssumption
<1> DEFINE Fine(h, u, m, s, l, b1, b2) ==
             /\ b1 \/ Matches(m, s, l)
             /\ "edit" \notin env.events /\ s.mark # None => b2 \/ m.password = l
           Now(h, u) == Fine(h, u, home[h][u], store[h][u], login[h][u],
                             Busy(h, u, Setting), Busy(h, u, Setting \cup {"collect"}))
           Then(h, u) == Fine(h, u, home'[h][u], store'[h][u], login'[h][u],
                              Busy(h, u, Setting)', Busy(h, u, Setting \cup {"collect"})')
<1> SUFFICES ASSUME KillFree, NEW h \in Hosts, NEW u \in Users
             PROVE  Then(h, u)
  BY DEF MatchOK, KillFree, Single
<1>1. Now(h, u)
  BY DEF MatchOK
<1>2. Steady /\ Single /\ "kill" \notin env.events
  BY DEF KillFree, Steady
(* Nobody but p has steps.                                                 *)
<1>3. ASSUME NEW p \in Callers, job[p].steps # <<>>,
             \A q \in Callers : q # p => job'[q] = job[q]
      PROVE  /\ \A X : Busy(h, u, X) <=> job[p].h = h /\ u \in job[p].u /\ First(job[p], X)
             /\ \A X : Busy(h, u, X)' <=> job'[p].h = h /\ u \in job'[p].u /\ First(job'[p], X)
  <2>1. \A q \in Callers : q # p => job[q].steps = <<>> /\ job'[q].steps = <<>>
    BY <1>0, <1>2, <1>3, Others
  <2>2. \A X : \A q \in Callers : q # p => ~First(job[q], X) /\ ~First(job'[q], X)
    BY <2>1 DEF First
  <2> QED BY <2>2, Zenon DEF Busy
<1>4. ASSUME NEW p \in Callers, Idle(p), UNCHANGED <<home, store, login>>
      PROVE  Then(h, u)
  <2>1. ~First(job[p], Setting \cup {"collect"}) /\ ~First(job[p], Setting)
    BY <1>2, <1>4 DEF Idle, First
  <2>2. \A q \in Callers : q # p => job'[q] = job[q]
    BY <1>4 DEF Idle
  <2>3. Busy(h, u, Setting) => Busy(h, u, Setting)'
    BY <2>1, <2>2 DEF Busy
  <2>4. Busy(h, u, Setting \cup {"collect"}) => Busy(h, u, Setting \cup {"collect"})'
    BY <2>1, <2>2 DEF Busy
  <2> QED BY <1>1, <1>4, <2>3, <2>4
<1>5. ASSUME NEW p \in Callers, Written(p)
      PROVE  Then(h, u)
  <2>0. PICK x \in Writing, v \in Users : \E w, t : Writes(p, x, v, w, t)
    BY <1>5 DEF Written
  <2>1. PICK w, t : Writes(p, x, v, w, t)
    BY <2>0
  <2>2. PICK g \in Hosts : g = job[p].h
    BY <2>1 DEF Writes
  <2>3. /\ Wrote(x, g, w, job[p].password, home[g][v], store[g][v], login[g][v],
                 home'[g][v], store'[g][v], login'[g][v])
        /\ Puts(g, v, home'[g][v], store'[g][v], login'[g][v])
        /\ At(p, x) /\ job[p].u = {v} /\ Goes(p, t) /\ (x = "choose" => w \in Unused)
        /\ Follows(x, t, Head(job[p].phases)) \/ (x = "add" /\ First([steps |-> t], {"collect"}))
    BY <2>1, <2>2 DEF Writes
  <2>4. job[p].steps # <<>> /\ Head(job[p].steps) = x
    BY <2>3 DEF At
  <2>5. job'[p].h = g /\ job'[p].u = {v} /\ job'[p].steps = t
    BY <2>2, <2>3 DEF Goes, Later
  <2>6. /\ \A X : Busy(h, u, X) <=> g = h /\ u = v /\ First(job[p], X)
        /\ \A X : Busy(h, u, X)' <=> g = h /\ u = v /\ First(job'[p], X)
    BY <1>3, <2>2, <2>3, <2>4, <2>5 DEF Goes
  <2>7. CASE g # h \/ u # v
    <3>1. home'[h][u] = home[h][u] /\ store'[h][u] = store[h][u] /\ login'[h][u] = login[h][u]
      BY <2>3, <2>7 DEF Puts
    <3> QED BY <1>1, <2>6, <2>7, <3>1
  <2>8. CASE g = h /\ u = v
    <3>1. CASE x \in {"passwd", "mark", "sha"}
      <4>1. First(job'[p], Setting) /\ First(job'[p], Setting \cup {"collect"})
        BY <2>3, <2>5, <3>1, WritesFirst DEF First
      <4> QED BY <2>6, <2>8, <4>1
    <3>2. CASE x = "save"
      <4>1. SetOK("save", job[p].password, home[g][v], store[g][v], login[g][v])
        BY <1>2, <2>2, <2>3, <2>4, <3>2 DEF SetsOK, First, Setting
      <4>2. Matches(home'[g][v], store'[g][v], login'[g][v]) /\ home'[g][v].password = login'[g][v]
        BY <2>3, <3>2, <4>1 DEF SetOK, Wrote, Matches
      <4> QED BY <2>8, <4>2
    <3>3. CASE x \in {"config", "add", "choose"}
      <4>1. ~Busy(h, u, Setting) /\ ~Busy(h, u, Setting \cup {"collect"})
        BY <2>4, <2>6, <3>3 DEF First, Setting
      <4>2. Matches(home[h][u], store[h][u], login[h][u])
        BY <1>1, <4>1
      <4>3. x = "choose" => w # None
        BY <2>3, UnusedWord
      <4>4. /\ home'[h][u].sha = home[h][u].sha /\ store'[h][u].mark = store[h][u].mark
            /\ login'[h][u] = login[h][u]
            /\ home'[h][u].password = IF x = "choose" THEN w ELSE home[h][u].password
        BY <2>3, <2>8, <3>3 DEF Wrote
      <4>5. Matches(home'[h][u], store'[h][u], login'[h][u])
        BY <4>2, <4>3, <4>4 DEF Matches
      <4>6. x = "choose" => First(job'[p], Setting \cup {"collect"})
        BY <2>3, <2>5, WritesFirst DEF First
      <4> QED BY <1>1, <2>6, <2>8, <4>1, <4>4, <4>5, <4>6
    <3> QED BY <3>1, <3>2, <3>3 DEF Writing
  <2> QED BY <2>7, <2>8
<1>6. ASSUME NEW p \in Callers, NEW v, NEW w, NEW t, Collects(p, v, w, t)
      PROVE  Then(h, u)
  <2>1. PICK g \in Hosts : g = job[p].h
    BY <1>6 DEF Collects
  <2>2. /\ Got(g, w, home[g][v], store[g][v], login[g][v],
               home'[g][v], store'[g][v], login'[g][v])
        /\ Puts(g, v, home'[g][v], store'[g][v], login'[g][v]) /\ v \in Users
        /\ job[p].u = {v} /\ Goes(p, t) /\ job[p].steps # <<>> /\ Head(job[p].steps) = "collect"
        /\ IF IsNew(g, home[g][v], store[g][v], w, job[p].cur)
           THEN First([steps |-> t], {"passwd"}) ELSE t = After(Head(job[p].phases))
    BY <1>6, <2>1 DEF Collects, At
  <2>3. job'[p].h = g /\ job'[p].u = {v} /\ job'[p].steps = t
    BY <2>1, <2>2 DEF Goes, Later
  <2>4. /\ \A X : Busy(h, u, X) <=> g = h /\ u = v /\ First(job[p], X)
        /\ \A X : Busy(h, u, X)' <=> g = h /\ u = v /\ First(job'[p], X)
    BY <1>3, <2>1, <2>2, <2>3 DEF Goes
  <2>5. CASE g # h \/ u # v
    <3>1. home'[h][u] = home[h][u] /\ store'[h][u] = store[h][u] /\ login'[h][u] = login[h][u]
      BY <2>2, <2>5 DEF Puts
    <3> QED BY <1>1, <2>4, <2>5, <3>1
  <2>6. CASE g = h /\ u = v
    <3>1. CASE IsNew(g, home[g][v], store[g][v], w, job[p].cur)
      <4>1. First(job'[p], Setting) /\ First(job'[p], Setting \cup {"collect"})
        BY <2>2, <2>3, <3>1 DEF First, Setting
      <4> QED BY <2>4, <2>6, <4>1
    <3>2. CASE ~IsNew(g, home[g][v], store[g][v], w, job[p].cur)
      <4>1. ~Busy(h, u, Setting)
        BY <2>2, <2>4 DEF First, Setting
      <4>2. Matches(home[h][u], store[h][u], login[h][u])
        BY <1>1, <4>1
      <4>3. /\ store'[h][u].mark = store[h][u].mark /\ login'[h][u] = login[h][u]
            /\ store[h][u].mark # None => home[h][u].password # None /\ home[h][u].sha # None
        BY <2>2, <2>6, <4>2 DEF Got, Matches
      <4>4. store[h][u].mark # None =>
              /\ home'[h][u].sha = home[h][u].sha
              /\ home'[h][u].password = home[h][u].password
              /\ Kept(g, home[g][v], store[g][v], w) = home[h][u].password
        BY <2>2, <2>6, <4>3 DEF Got, Kept
      <4>5. Matches(home'[h][u], store'[h][u], login'[h][u])
        BY <4>2, <4>3, <4>4 DEF Matches
      <4>6. store[h][u].mark # None => home'[h][u].password = login'[h][u]
        BY <2>6, <3>2, <4>2, <4>3, <4>4 DEF IsNew, Current, Matches
      <4> QED BY <4>3, <4>5, <4>6
    <3> QED BY <3>1, <3>2
  <2> QED BY <2>5, <2>6
<1>7. ASSUME NEW p \in Callers, Syncs(p)
      PROVE  Then(h, u)
  <2>1. /\ job[p].steps # <<>> /\ Head(job[p].steps) = "sync" /\ Goes(p, <<>>)
        /\ UNCHANGED <<home, login>>
        /\ (\A v \in Users : store'[h][v] = store[h][v]) \/ Copies(h)
    BY <1>7 DEF Syncs, At
  <2>2. ~Busy(h, u, Setting) /\ ~Busy(h, u, Setting \cup {"collect"})
    BY <1>3, <2>1 DEF First, Setting, Goes
  <2>3. store'[h][u].mark = store[h][u].mark
    <3>1. CASE store'[h][u] = Copied(store[h][u], store[Root][u])
      BY <3>1 DEF Copied
    <3> QED BY <2>1, <3>1 DEF Copies
  <2> QED BY <1>1, <2>1, <2>2, <2>3 DEF Matches
<1>8. ASSUME NEW g \in Hosts, NEW v \in Users, NEW w \in Passwords, Edits(g, v, w)
      PROVE  Then(h, u)
  <2>1. /\ "edit" \in env.events /\ UNCHANGED <<store, login, job>>
        /\ home'[h][u].sha = home[h][u].sha
        /\ home'[h][u].password \in {home[h][u].password, w} /\ w # None
    BY <1>8, ConstantsAssumption DEF Edits, Puts
  <2>2. Busy(h, u, Setting)' <=> Busy(h, u, Setting)
    BY <2>1 DEF Busy
  <2> QED BY <1>1, <2>1, <2>2 DEF Matches
<1>9. ASSUME UNCHANGED <<home, store, login, job>>
      PROVE  Then(h, u)
  <2>1. /\ Busy(h, u, Setting)' <=> Busy(h, u, Setting)
        /\ Busy(h, u, Setting \cup {"collect"})' <=> Busy(h, u, Setting \cup {"collect"})
    BY <1>9 DEF Busy
  <2> QED BY <1>1, <1>9, <2>1
<1>10. ASSUME NEW c \in Containers, NEW v \in Users, Relist(c, v)
       PROVE  Then(h, u)
  BY <1>9, <1>10 DEF Relist
<1>11. ASSUME UNCHANGED vars
       PROVE  Then(h, u)
  BY <1>9, <1>11 DEF vars
<1> HIDE DEF Then
<1> QED BY <1>4, <1>5, <1>6, <1>7, <1>8, <1>10, <1>11, Zenon DEF Moves

-----------------------------------------------------------------------------
(* What get_password returns is nowhere in use.                            *)
LEMMA UnusedFresh ==
  ASSUME NEW w \in Unused
  PROVE  /\ \A h \in Hosts, u \in Users : w \notin WordsOf(home[h][u], store[h][u], login[h][u])
         /\ \A u \in Users : ~Has(u, w)
         /\ \A p \in Callers : w # job[p].cur /\ w # job[p].password
<1>1. ASSUME NEW h \in Hosts, NEW u \in Users
      PROVE  w \notin WordsOf(home[h][u], store[h][u], login[h][u])
  BY DEF Unused, WordsOf
<1>2. ASSUME NEW p \in Callers
      PROVE  w # job[p].cur /\ w # job[p].password
  BY DEF Unused
<1> QED BY <1>1, <1>2 DEF Has

LEMMA SoundStep ==
  ASSUME TypeOK, JobsOK, SetsOK, SoundOK, env' = env, Moves
  PROVE  SoundOK'
<1>0. FilesType /\ env \in Envs /\ Root \in Hosts
  BY TypeParts, ConstantsAssumption
<1> DEFINE Then(h, u) == Sound(home'[h][u], store'[h][u], login'[h][u])
<1> SUFFICES ASSUME Careful, NEW h \in Hosts, NEW u \in Users
             PROVE  Then(h, u)
  BY DEF SoundOK, Careful, Single
<1>1. \A g \in Hosts, v \in Users : Sound(home[g][v], store[g][v], login[g][v])
  BY DEF SoundOK
<1>2. Steady
  BY DEF Careful, Steady
<1>3. ASSUME UNCHANGED <<home, store, login>>
      PROVE  Then(h, u)
  BY <1>1, <1>3
<1>4. ASSUME NEW g \in Hosts, NEW v \in Users, g # h \/ v # u,
             Puts(g, v, home'[g][v], store'[g][v], login'[g][v])
      PROVE  Then(h, u)
  BY <1>1, <1>4 DEF Puts
<1>5. ASSUME NEW p \in Callers, Written(p)
      PROVE  Then(h, u)
  <2>0. PICK x \in Writing, v \in Users : \E w, t : Writes(p, x, v, w, t)
    BY <1>5 DEF Written
  <2>1. PICK w, t : Writes(p, x, v, w, t)
    BY <2>0
  <2>2. PICK g \in Hosts : g = job[p].h
    BY <2>1 DEF Writes
  <2>3. /\ Wrote(x, g, w, job[p].password, home[g][v], store[g][v], login[g][v],
                 home'[g][v], store'[g][v], login'[g][v])
        /\ Puts(g, v, home'[g][v], store'[g][v], login'[g][v])
        /\ job[p].u = {v} /\ (x = "choose" => w \in Unused)
        /\ job[p].steps # <<>> /\ Head(job[p].steps) = x
    BY <2>1, <2>2 DEF Writes, At
  <2>4. CASE g # h \/ v # u
    BY <1>4, <2>3, <2>4
  <2>5. CASE g = h /\ v = u
    <3>1. Sound(home[h][u], store[h][u], login[h][u])
      BY <1>1
    <3>2. x \in Setting => SetOK(x, job[p].password, home[h][u], store[h][u], login[h][u])
      BY <1>2, <2>2, <2>3, <2>5 DEF SetsOK, First
    <3>3. Wrote(x, h, w, job[p].password, home[h][u], store[h][u], login[h][u],
                home'[h][u], store'[h][u], login'[h][u])
      BY <2>3, <2>5
    <3>4. CASE x \in {"config", "add"}
      BY <3>1, <3>3, <3>4 DEF Sound, Wrote
    <3>5. CASE x = "choose"
      <4>1. w # None /\ w # store[h][u].mark
        BY <2>3, <3>5, UnusedWord, UnusedFresh DEF WordsOf
      <4> QED BY <3>1, <3>3, <3>5, <4>1 DEF Sound, Wrote
    <3>6. CASE x \in Setting
      BY <3>1, <3>2, <3>3, <3>6 DEF Sound, Wrote, SetOK, Setting
    <3> QED BY <3>4, <3>5, <3>6 DEF Writing, Setting
  <2> QED BY <2>4, <2>5
<1>6. ASSUME NEW p \in Callers, NEW v, NEW w, NEW t, Collects(p, v, w, t)
      PROVE  Then(h, u)
  <2>1. PICK g \in Hosts : g = job[p].h
    BY <1>6 DEF Collects
  <2>2. /\ Got(g, w, home[g][v], store[g][v], login[g][v],
               home'[g][v], store'[g][v], login'[g][v])
        /\ Puts(g, v, home'[g][v], store'[g][v], login'[g][v]) /\ v \in Users
    BY <1>6, <2>1 DEF Collects
  <2>3. CASE g # h \/ v # u
    BY <1>4, <2>2, <2>3
  <2>4. CASE g = h /\ v = u
    BY <1>1, <2>2, <2>4 DEF Sound, Got, Kept
  <2> QED BY <2>3, <2>4
<1>7. ASSUME NEW p \in Callers, Syncs(p)
      PROVE  Then(h, u)
  <2>1. /\ UNCHANGED <<home, login>>
        /\ (\A v \in Users : store'[h][v] = store[h][v]) \/ Copies(h)
    BY <1>7 DEF Syncs
  <2>2. /\ Sound(home[h][u], store[h][u], login[h][u])
        /\ Sound(home[Root][u], store[Root][u], login[Root][u])
    BY <1>0, <1>1
  <2>3. CASE store'[h][u] = store[h][u]
    BY <2>1, <2>2, <2>3
  <2>4. CASE store'[h][u] = Copied(store[h][u], store[Root][u])
    <3>1. store'[h][u] = store[h][u] \/
            /\ store'[h][u].sha = IF store[Root][u].sha # None THEN store[Root][u].sha
                                  ELSE store[h][u].sha
            /\ store'[h][u].password = IF store[Root][u].password # None
                                       THEN store[Root][u].password ELSE store[h][u].password
            /\ store'[h][u].mark = store[h][u].mark
      BY <2>4 DEF Copied
    <3> QED BY <2>1, <2>2, <3>1 DEF Sound
  <2> QED BY <2>1, <2>3, <2>4 DEF Copies
<1>8. ASSUME NEW g \in Hosts, NEW v \in Users, NEW w \in Passwords, Edits(g, v, w)
      PROVE  Then(h, u)
  <2>1. UNCHANGED <<store, login>> /\ w \in Unused
    BY <1>8 DEF Edits, Careful
  <2>2. /\ home'[g][v].there = home[g][v].there /\ home'[g][v].sha = home[g][v].sha
        /\ home'[g][v].password = w
        /\ Puts(g, v, home'[g][v], store'[g][v], login'[g][v])
    BY <1>8, <2>1 DEF Edits
  <2>3. CASE g # h \/ v # u
    BY <1>4, <2>2, <2>3
  <2>4. CASE g = h /\ v = u
    <3>1. w # None /\ w # store[h][u].mark
      BY <2>1, UnusedWord, UnusedFresh DEF WordsOf
    <3> QED BY <1>1, <2>1, <2>2, <2>4, <3>1 DEF Sound
  <2> QED BY <2>3, <2>4
<1>9. ASSUME NEW c \in Containers, NEW v \in Users, Relist(c, v)
      PROVE  Then(h, u)
  BY <1>3, <1>9 DEF Relist
<1>10. ASSUME UNCHANGED vars
       PROVE  Then(h, u)
  BY <1>3, <1>10 DEF vars
<1> HIDE DEF Then
<1> QED BY <1>3, <1>5, <1>6, <1>7, <1>8, <1>9, <1>10, Zenon DEF Moves

(* One user's words stay his.                                              *)
HasThen(u, w) == \E h \in Hosts : w \in WordsOf(home'[h][u], store'[h][u], login'[h][u])

LEMMA ApartKept ==
  ASSUME FilesType, JobsOK, JobsOK', Apart, Careful, NEW f, NEW u0 \in Users,
         f = None \/ f \in Unused,
         \A v \in Users, x \in Word : HasThen(v, x) => Has(v, x) \/ x = None \/ (x = f /\ v = u0),
         \A h \in Hosts, v \in Users : store'[h][v].mark = None => store[h][v].mark = None,
         \A q \in Callers :
           \/ job'[q].cur = None
           \/ job'[q].cur = job[q].cur /\ job'[q].h = job[q].h
           \/ \E v \in Users : job'[q].cur = store[job'[q].h][v].mark
  PROVE  /\ \A u, v \in Users : \A w \in Passwords : HasThen(u, w) /\ HasThen(v, w) => u = v
         /\ \A p \in Callers, u \in Users :
              store'[job'[p].h][u].mark = None /\ HasThen(u, job'[p].cur) => job'[p].cur = None
<1>1. \A w \in Passwords : w \in Word /\ w # None
  BY ConstantsAssumption DEF Word
<1>2. f # None => \A u \in Users : ~Has(u, f)
  BY UnusedFresh
<1>3. \A u, v \in Users : \A w \in Passwords : Has(u, w) /\ Has(v, w) => u = v
  BY DEF Apart
<1>4. ASSUME NEW u \in Users, NEW v \in Users, NEW w \in Passwords, HasThen(u, w), HasThen(v, w)
      PROVE  u = v
  <2>1. /\ Has(u, w) \/ (w = f /\ u = u0)
        /\ Has(v, w) \/ (w = f /\ v = u0)
    BY <1>1, <1>4
  <2> QED BY <1>1, <1>2, <1>3, <2>1
<1>5. ASSUME NEW p \in Callers, NEW u \in Users, store'[job'[p].h][u].mark = None,
             HasThen(u, job'[p].cur), job'[p].cur # None
      PROVE  FALSE
  <2>1. /\ job[p].h \in Hosts /\ job'[p].h \in Hosts /\ job[p].cur \in Word /\ job'[p].cur \in Word
    BY DEF JobsOK, JobRecord
  <2>2. store[job'[p].h][u].mark = None
    BY <1>5, <2>1
  <2>3. PICK c \in Word : c = job'[p].cur
    BY <2>1
  <2>6. Has(u, c) \/ (c = f /\ u = u0)
    BY <1>5, <2>3
  <2>4. CASE job'[p].cur = job[p].cur /\ job'[p].h = job[p].h
    <3>1. Has(u, job[p].cur) => job[p].cur = None
      BY <2>2, <2>4 DEF Apart
    <3>2. f # None => f # job[p].cur
      BY UnusedFresh
    <3> QED BY <1>5, <2>3, <2>6, <2>4, <3>1, <3>2
  <2>5. ASSUME NEW v \in Users, job'[p].cur = store[job'[p].h][v].mark
        PROVE  FALSE
    <3>1. Has(v, c)
      BY <2>1, <2>3, <2>5 DEF Has, WordsOf
    <3>2. c \in Passwords
      BY <1>5, <2>3 DEF Word
    <3>3. u = v
      BY <1>2, <1>3, <1>5, <2>3, <2>6, <3>1, <3>2
    <3> QED BY <1>5, <2>2, <2>5, <3>3
  <2> QED BY <1>5, <2>4, <2>5
<1> QED BY <1>4, <1>5

LEMMA ApartStep ==
  ASSUME TypeOK, JobsOK, JobsOK', SetsOK, Apart, env' = env, Moves
  PROVE  Apart'
<1>0. FilesType /\ env \in Envs /\ Root \in Hosts
  BY TypeParts, ConstantsAssumption
<1> DEFINE Then ==
      /\ \A u, v \in Users : \A w \in Passwords : HasThen(u, w) /\ HasThen(v, w) => u = v
      /\ \A p \in Callers, u \in Users :
           store'[job'[p].h][u].mark = None /\ HasThen(u, job'[p].cur) => job'[p].cur = None
<1> SUFFICES ASSUME Careful, Users # {}
             PROVE  Then
  <2>1. CASE Users = {}
    BY <2>1 DEF Apart
  <2>2. CASE Users # {} /\ Careful
    BY <2>2 DEF Apart, Has, HasThen
  <2>3. CASE ~Careful
    BY <2>3 DEF Apart, Careful, Single
  <2> QED BY <2>1, <2>2, <2>3
<1>2. Steady
  BY DEF Careful, Steady
<1> DEFINE CurSame(q) == \/ job'[q].cur = None
                         \/ job'[q].cur = job[q].cur /\ job'[q].h = job[q].h
(* The files are the same.                                                 *)
<1>3. ASSUME UNCHANGED <<home, store, login>>, \A q \in Callers : CurSame(q)
      PROVE  Then
  <2>1. \A v, x : HasThen(v, x) => Has(v, x)
    BY <1>3 DEF HasThen, Has
  <2>2. PICK u0 \in Users : TRUE
    OBVIOUS
  <2>3. \A h \in Hosts, v \in Users : store'[h][v].mark = None => store[h][v].mark = None
    BY <1>3
  <2> HIDE DEF Then
  <2> QED BY <1>0, <1>3, <2>1, <2>3, ApartKept DEF Then
(* One entry changes: to words of the user, or to f.                       *)
<1>4. ASSUME NEW g \in Hosts, NEW v \in Users, NEW f, f = None \/ f \in Unused,
             Puts(g, v, home'[g][v], store'[g][v], login'[g][v]),
             WordsOf(home'[g][v], store'[g][v], login'[g][v]) \subseteq
               WordsOf(home[g][v], store[g][v], login[g][v]) \cup {None, f},
             store'[g][v].mark = None => store[g][v].mark = None,
             \A q \in Callers : CurSame(q) \/ \E u \in Users : job'[q].cur = store[job'[q].h][u].mark
      PROVE  Then
  <2>1. ASSUME NEW u \in Users, NEW x, HasThen(u, x)
        PROVE  Has(u, x) \/ x = None \/ (x = f /\ u = v)
    <3>1. PICK h \in Hosts : x \in WordsOf(home'[h][u], store'[h][u], login'[h][u])
      BY <2>1 DEF HasThen
    <3>2. CASE h = g /\ u = v
      <4>1. x \in WordsOf(home[h][u], store[h][u], login[h][u]) \/ x = None \/ x = f
        BY <1>4, <3>1, <3>2
      <4> QED BY <3>2, <4>1 DEF Has
    <3>3. CASE h # g \/ u # v
      <4>1. x \in WordsOf(home[h][u], store[h][u], login[h][u])
        BY <1>4, <3>1, <3>3 DEF Puts
      <4> QED BY <4>1 DEF Has
    <3> QED BY <3>2, <3>3
  <2>2. \A h \in Hosts, u \in Users : store'[h][u].mark = None => store[h][u].mark = None
    BY <1>4 DEF Puts
  <2> QED BY <1>0, <1>4, <2>1, <2>2, ApartKept
<1>5. ASSUME NEW p \in Callers, Idle(p), UNCHANGED <<home, store, login>>
      PROVE  Then
  <2>1. \A q \in Callers : CurSame(q)
    BY <1>5 DEF Idle
  <2> QED BY <1>3, <1>5, <2>1
<1>6. ASSUME NEW p \in Callers, Written(p)
      PROVE  Then
  <2>0. PICK x \in Writing, v \in Users : \E w, t : Writes(p, x, v, w, t)
    BY <1>6 DEF Written
  <2>1. PICK w, t : Writes(p, x, v, w, t)
    BY <2>0
  <2>2. PICK g \in Hosts : g = job[p].h
    BY <2>1 DEF Writes
  <2>3. /\ Wrote(x, g, w, job[p].password, home[g][v], store[g][v], login[g][v],
                 home'[g][v], store'[g][v], login'[g][v])
        /\ Puts(g, v, home'[g][v], store'[g][v], login'[g][v])
        /\ job[p].u = {v} /\ (x = "choose" => w \in Unused)
        /\ job[p].steps # <<>> /\ Head(job[p].steps) = x
        /\ Goes(p, t) /\ job'[p].cur = job[p].cur
    BY <2>1, <2>2 DEF Writes, At
  <2>4. x \in Setting => SetOK(x, job[p].password, home[g][v], store[g][v], login[g][v])
    BY <1>2, <2>2, <2>3 DEF SetsOK, First
  <2>5. PICK f : f = IF x = "choose" THEN w ELSE None
    OBVIOUS
  <2>6. WordsOf(home'[g][v], store'[g][v], login'[g][v]) \subseteq
          WordsOf(home[g][v], store[g][v], login[g][v]) \cup {None, f}
    <3>1. x \in Setting => job[p].password \in WordsOf(home[g][v], store[g][v], login[g][v])
      BY <2>4 DEF SetOK, WordsOf
    <3>2. /\ home'[g][v].password \in WordsOf(home[g][v], store[g][v], login[g][v]) \cup {f}
          /\ home'[g][v].sha \in WordsOf(home[g][v], store[g][v], login[g][v])
          /\ store'[g][v].passcode \in WordsOf(home[g][v], store[g][v], login[g][v])
          /\ store'[g][v].password \in WordsOf(home[g][v], store[g][v], login[g][v])
          /\ store'[g][v].sha \in WordsOf(home[g][v], store[g][v], login[g][v])
          /\ store'[g][v].mark \in WordsOf(home[g][v], store[g][v], login[g][v])
          /\ login'[g][v] \in WordsOf(home[g][v], store[g][v], login[g][v])
      BY <2>3, <2>5, <3>1 DEF Wrote, WordsOf, Setting
    <3>3. ASSUME NEW y \in WordsOf(home'[g][v], store'[g][v], login'[g][v])
          PROVE  y \in {home'[g][v].password, home'[g][v].sha, store'[g][v].passcode,
                        store'[g][v].password, store'[g][v].sha, store'[g][v].mark, login'[g][v]}
      BY DEF WordsOf
    <3> QED BY <3>2, <3>3
  <2>7. store'[g][v].mark = None => store[g][v].mark = None
    BY <2>3, <2>4 DEF Wrote, SetOK, Setting
  <2>8. \A q \in Callers : CurSame(q)
    BY <2>3 DEF Goes, Later
  <2>9. f = None \/ f \in Unused
    BY <2>3, <2>5
  <2> QED BY <1>4, <2>3, <2>6, <2>7, <2>8, <2>9
<1>7. ASSUME NEW p \in Callers, NEW v, NEW w, NEW t, Collects(p, v, w, t)
      PROVE  Then
  <2>1. PICK g \in Hosts : g = job[p].h
    BY <1>7 DEF Collects
  <2> DEFINE k == Kept(g, home[g][v], store[g][v], w)
  <2>2. /\ Got(g, w, home[g][v], store[g][v], login[g][v],
               home'[g][v], store'[g][v], login'[g][v])
        /\ Puts(g, v, home'[g][v], store'[g][v], login'[g][v]) /\ v \in Users
        /\ Goes(p, t) /\ w \in NewPasscodes(g, v)
        /\ job'[p].cur = IF k = None THEN job[p].cur ELSE Current(store[g][v], job[p].cur)
    BY <1>7, <2>1 DEF Collects
  <2>3. w = None \/ w \in Unused
    BY <2>2 DEF NewPasscodes
  <2>4. WordsOf(home'[g][v], store'[g][v], login'[g][v]) \subseteq
          WordsOf(home[g][v], store[g][v], login[g][v]) \cup {None, w}
    <3>1. /\ k \in WordsOf(home[g][v], store[g][v], login[g][v]) \cup {w}
          /\ Passcode(g, store[g][v], w) \in WordsOf(home[g][v], store[g][v], login[g][v]) \cup {w}
      BY DEF Kept, Passcode, WordsOf
    <3>2. /\ home'[g][v].password = k /\ store'[g][v].password = k
          /\ store'[g][v].passcode = Passcode(g, store[g][v], w)
          /\ home'[g][v].sha \in WordsOf(home[g][v], store[g][v], login[g][v])
          /\ store'[g][v].sha \in WordsOf(home[g][v], store[g][v], login[g][v])
          /\ store'[g][v].mark \in WordsOf(home[g][v], store[g][v], login[g][v])
          /\ login'[g][v] \in WordsOf(home[g][v], store[g][v], login[g][v])
      BY <2>2 DEF Got, WordsOf
    <3>3. ASSUME NEW y \in WordsOf(home'[g][v], store'[g][v], login'[g][v])
          PROVE  y \in {home'[g][v].password, home'[g][v].sha, store'[g][v].passcode,
                        store'[g][v].password, store'[g][v].sha, store'[g][v].mark, login'[g][v]}
      BY DEF WordsOf
    <3> QED BY <3>1, <3>2, <3>3
  <2>5. store'[g][v].mark = None => store[g][v].mark = None
    BY <2>2 DEF Got
  <2>6. job'[p].h = g
    BY <2>1, <2>2 DEF Goes, Later
  <2>7. CurSame(p) \/ job'[p].cur = store[job'[p].h][v].mark
    BY <2>1, <2>2, <2>6 DEF Current
  <2>8. \A q \in Callers : CurSame(q) \/ \E u \in Users : job'[q].cur = store[job'[q].h][u].mark
    BY <2>2, <2>7 DEF Goes
  <2> QED BY <1>4, <2>2, <2>3, <2>4, <2>5, <2>8
<1>8. ASSUME NEW p \in Callers, Syncs(p)
      PROVE  Then
  <2>1. /\ UNCHANGED <<home, login>> /\ Idle(p)
        /\ \A g \in Hosts : (\A v \in Users : store'[g][v] = store[g][v]) \/ Copies(g)
    BY <1>8 DEF Syncs
  <2>2. \A q \in Callers : CurSame(q)
    BY <2>1 DEF Idle
  <2>3. ASSUME NEW g \in Hosts, NEW v \in Users
        PROVE  /\ \A x \in WordsOf(home'[g][v], store'[g][v], login'[g][v]) : Has(v, x)
               /\ store'[g][v].mark = store[g][v].mark
    <3>1. CASE store'[g][v] = store[g][v]
      BY <2>1, <3>1 DEF Has
    <3>2. CASE store'[g][v] = Copied(store[g][v], store[Root][v])
      <4>1. /\ store'[g][v].passcode \in {store[g][v].passcode, store[Root][v].passcode}
            /\ store'[g][v].password \in {store[g][v].password, store[Root][v].password}
            /\ store'[g][v].sha \in {store[g][v].sha, store[Root][v].sha}
            /\ store'[g][v].mark = store[g][v].mark
        BY <3>2 DEF Copied
      <4>2. \A x \in WordsOf(home'[g][v], store'[g][v], login'[g][v]) :
              \/ x \in WordsOf(home[g][v], store[g][v], login[g][v])
              \/ x \in WordsOf(home[Root][v], store[Root][v], login[Root][v])
        BY <2>1, <4>1 DEF WordsOf
      <4> QED BY <1>0, <4>1, <4>2 DEF Has
    <3> QED BY <2>1, <3>1, <3>2 DEF Copies
  <2>4. \A v \in Users, x \in Word : HasThen(v, x) => Has(v, x)
    BY <2>3 DEF HasThen
  <2>5. PICK u0 \in Users : TRUE
    OBVIOUS
  <2> QED BY <1>0, <2>2, <2>3, <2>4, ApartKept
<1>9. ASSUME NEW g \in Hosts, NEW v \in Users, NEW w \in Passwords, Edits(g, v, w)
      PROVE  Then
  <2>1. UNCHANGED <<store, login, job>> /\ w \in Unused
    BY <1>9 DEF Edits, Careful
  <2>2. /\ home'[g][v].sha = home[g][v].sha /\ home'[g][v].password = w
        /\ Puts(g, v, home'[g][v], store'[g][v], login'[g][v])
    BY <1>9, <2>1 DEF Edits
  <2>3. WordsOf(home'[g][v], store'[g][v], login'[g][v]) \subseteq
          WordsOf(home[g][v], store[g][v], login[g][v]) \cup {None, w}
    BY <2>1, <2>2 DEF WordsOf
  <2> QED BY <1>4, <2>1, <2>2, <2>3
<1>10. ASSUME NEW c \in Containers, NEW v \in Users, Relist(c, v)
       PROVE  Then
  BY <1>3, <1>10 DEF Relist
<1>11. ASSUME UNCHANGED vars
       PROVE  Then
  BY <1>3, <1>11 DEF vars
<1> HIDE DEF Then
<1> QED BY <1>5, <1>6, <1>7, <1>8, <1>9, <1>10, <1>11, Zenon DEF Moves

-----------------------------------------------------------------------------
(* What a regenerate has left of its phases.                               *)
LEMMA Distinct ==
  /\ FromSync \notin {FromConfigs, FromHashes, FromStructure, FromShare, FromLast}
  /\ FromConfigs \notin {FromHashes, FromStructure, FromShare, FromLast}
  /\ FromHashes \notin {FromStructure, FromShare, FromLast}
  /\ FromStructure \notin {FromShare, FromLast}
  /\ FromShare # FromLast
<1>1. /\ Len(FromSync) = 6 /\ Len(FromConfigs) = 5 /\ Len(FromHashes) = 4
      /\ Len(FromStructure) = 3 /\ Len(FromShare) = 2 /\ Len(FromLast) = 1
  BY Stages
<1> QED BY <1>1

LEMMA RegenPhase ==
  ASSUME NEW j, j.cmd = "regenerate", Running(env, j)
  PROVE  /\ j.phases \in {FromSync, FromConfigs, FromHashes, FromStructure, FromShare, FromLast}
         /\ Head(j.phases) = "sync" <=> j.phases \in {FromSync, FromLast}
         /\ Head(j.phases) = "configs" <=> j.phases = FromConfigs
         /\ Head(j.phases) = "hashes" <=> j.phases = FromHashes
         /\ Head(j.phases) = "structure" <=> j.phases = FromStructure
         /\ Head(j.phases) = "share" <=> j.phases = FromShare
<1>1. j.phases \in {FromSync, FromConfigs, FromHashes, FromStructure, FromShare, FromLast}
  BY DEF Running, Ahead
<1>2. /\ Head(FromSync) = "sync" /\ Head(FromConfigs) = "configs" /\ Head(FromHashes) = "hashes"
      /\ Head(FromStructure) = "structure" /\ Head(FromShare) = "share" /\ Head(FromLast) = "sync"
  BY Stages
<1> QED BY <1>1, <1>2

(* While one command runs, nobody else takes a step.                       *)
LEMMA OnlyMe ==
  ASSUME env \in Envs, JobsOK, env' = env, Single, "kill" \notin env.events,
         NEW p \in Callers, job[p].cmd # "none", NEW q \in Callers, q # p
  PROVE  ~Plain(q) /\ ~Written(q) /\ ~Syncs(q) /\ \A u, w, t : ~Collects(q, u, w, t)
<1>1. job[q] = NoJob
  BY AloneThen
<1>2. /\ job[q].cmd = "none" /\ job[q].steps = <<>> /\ job[q].users = {} /\ job[q].containers = {}
  BY <1>1 DEF NoJob
<1>3. \A x : ~At(q, x)
  BY <1>2 DEF At
<1>4. ~Written(q) /\ ~Syncs(q)
  BY <1>3 DEF Written, Writes, Syncs
<1>5. \A u, w, t : ~Collects(q, u, w, t)
  BY <1>3 DEF Collects
<1>6. ~Plain(q)
  <2>1. Active # {}
    BY DEF Active
  <2>2. \A cmd \in Commands, h \in Hosts, u \in Users, C \in SUBSET Containers :
          ~Command(q, cmd, h, u, C)
    BY <2>1, CommandBegins
  <2>3. /\ \A u \in Users : ~NextUser(q, u)
        /\ \A c \in Containers : ~NextContainer(q, c)
        /\ ~NextPhase(q) /\ ~Kill(q)
    BY <1>2 DEF NextUser, NextContainer, NextPhase, Kill
  <2>4. ~List(q) /\ ~Reset(q) /\ ~AppendKeys(q) /\ ~Share(q)
    BY <1>3 DEF List, Reset, AppendKeys, Share
  <2> QED BY <2>2, <2>3, <2>4 DEF Plain
<1> QED BY <1>4, <1>5, <1>6

(* An update_password that finds nothing to do has found the mark.         *)
LEMMA CollectKept ==
  ASSUME Careful, Apart, JobsOK, FilesType, NEW p \in Callers, NEW u \in Users, NEW w,
         w \in NewPasscodes(job[p].h, u),
         Kept(job[p].h, home[job[p].h][u], store[job[p].h][u], w) # None,
         ~IsNew(job[p].h, home[job[p].h][u], store[job[p].h][u], w, job[p].cur)
  PROVE  /\ store[job[p].h][u].mark # None
         /\ Kept(job[p].h, home[job[p].h][u], store[job[p].h][u], w) = store[job[p].h][u].mark
<1>1. PICK h \in Hosts : h = job[p].h
  BY DEF JobsOK, JobRecord
<1>2. PICK k : k = Kept(h, home[h][u], store[h][u], w)
  OBVIOUS
<1>3. k # None /\ k = Current(store[h][u], job[p].cur)
  BY <1>1, <1>2 DEF IsNew
<1> SUFFICES ASSUME store[h][u].mark = None
             PROVE  FALSE
  BY <1>1, <1>2, <1>3 DEF Current
<1>4. k = job[p].cur
  BY <1>3 DEF Current
<1>5. Has(u, k) => k = None
  BY <1>1, <1>4 DEF Apart
<1>6. w = None \/ w \in Unused
  BY <1>1 DEF NewPasscodes
<1>7. w \in Unused => w # job[p].cur
  BY UnusedFresh
<1>8. k \in {home[h][u].password, store[h][u].passcode, store[h][u].password, w}
  BY <1>2 DEF Kept, Passcode
<1>9. k # w
  BY <1>3, <1>4, <1>6, <1>7
<1>10. Has(u, k)
  BY <1>8, <1>9 DEF Has, WordsOf
<1> QED BY <1>3, <1>5, <1>10

(* Then the hash is that of the login.                                     *)
LEMMA CollectHashed ==
  ASSUME Careful, KillFree, Apart, SoundOK, MatchOK, env \in Envs, JobsOK, FilesType,
         NEW p \in Callers, NEW u, NEW w, NEW t, Collects(p, u, w, t),
         ~IsNew(job[p].h, home[job[p].h][u], store[job[p].h][u], w, job[p].cur)
  PROVE  store'[job[p].h][u].sha = login'[job[p].h][u]
<1>1. PICK h \in Hosts : h = job[p].h
  BY DEF JobsOK, JobRecord
<1>2. PICK k : k = Kept(h, home[h][u], store[h][u], w)
  OBVIOUS
<1>3. /\ u \in Users /\ w \in NewPasscodes(h, u) /\ At(p, "collect")
      /\ Got(h, w, home[h][u], store[h][u], login[h][u], home'[h][u], store'[h][u], login'[h][u])
  BY <1>1 DEF Collects
<1>4. ~Busy(h, u, Setting)
  <2>1. job[p].steps # <<>> /\ Head(job[p].steps) = "collect"
    BY <1>3 DEF At
  <2>2. ~First(job[p], Setting)
    BY <2>1 DEF First, Setting
  <2>3. \A q \in Callers : q # p => ~First(job[q], Setting)
    BY <2>1, Others DEF Careful, First
  <2> QED BY <2>2, <2>3 DEF Busy
<1>5. Matches(home[h][u], store[h][u], login[h][u])
  BY <1>3, <1>4 DEF MatchOK
<1>6. Sound(home[h][u], store[h][u], login[h][u])
  BY <1>3 DEF SoundOK
<1>7. CASE k = None
  <2>1. home[h][u].password = None /\ store[h][u].password = None
    BY <1>2, <1>7 DEF Kept
  <2>2. store[h][u].sha = None /\ home[h][u].sha = None /\ store[h][u].mark = None
    BY <1>6, <2>1 DEF Sound
  <2> QED BY <1>1, <1>3, <1>5, <2>2 DEF Matches, Got
<1>8. CASE k # None
  <2>1. store[h][u].mark # None
    BY <1>1, <1>2, <1>3, <1>8, CollectKept
  <2> QED BY <1>1, <1>3, <1>5, <2>1 DEF Matches, Got
<1> QED BY <1>7, <1>8

(* Who is hashed when one user's files change.                             *)
LEMMA HashedThen ==
  ASSUME NEW h \in Hosts, NEW u \in Users, NEW U, NEW V,
         AllHashed(home, store, login, h, U), U \subseteq V \cup {u},
         \A v \in Users : v # u =>
           /\ home'[h][v].there = home[h][v].there
           /\ store'[h][v].sha = store[h][v].sha /\ login'[h][v] = login[h][v],
         \/ u \in V
         \/ store'[h][u].sha = login'[h][u]
         \/ /\ u \notin U /\ home[h][u].there
            /\ store'[h][u].sha = store[h][u].sha /\ login'[h][u] = login[h][u]
  PROVE  AllHashed(home', store', login', h, V)
<1> SUFFICES ASSUME NEW v \in Users \ V, home'[h][v].there
             PROVE  store'[h][v].sha = login'[h][v]
  BY DEF AllHashed
<1>1. CASE v # u
  BY <1>1 DEF AllHashed
<1>2. CASE v = u
  BY <1>2 DEF AllHashed
<1> QED BY <1>1, <1>2

-----------------------------------------------------------------------------
(* A regenerate goes on to a user, a container, a phase.                   *)
LEMMA ProgressParts ==
  ASSUME NEW j, NEW m, NEW s, NEW l, NEW ls, NEW a, NEW sh,
         Progress(j, m, s, l, ls, a, sh), j.cmd = "regenerate", Running(env, j)
  PROVE  /\ j.phases # FromSync \/ j.steps = <<>> => Known(s, j.h)
         /\ Head(j.phases) = "hashes" =>
              AllHashed(m, s, l, j.h, j.users \cup Busied(j, StepNames))
         /\ Head(j.phases) = "structure" => InStructure(j, m, s, l, ls, a)
         /\ Head(j.phases) = "share" => InShare(j, m, s, l, ls, a, sh)
BY RegenPhase DEF Progress

(* What is to be shown, phase by phase.                                    *)
LEMMA ProgressFrom ==
  ASSUME NEW j, NEW m, NEW s, NEW l, NEW ls, NEW a, NEW sh,
         j.cmd = "regenerate", Running(env, j),
         j.phases # FromSync \/ j.steps = <<>> => Known(s, j.h),
         Head(j.phases) = "hashes" =>
           AllHashed(m, s, l, j.h, j.users \cup Busied(j, StepNames)),
         Head(j.phases) = "structure" => InStructure(j, m, s, l, ls, a),
         Head(j.phases) = "share" => InShare(j, m, s, l, ls, a, sh),
         j.phases = FromLast => AtEnd(j, s, l, ls, a, sh)
  PROVE  Progress(j, m, s, l, ls, a, sh)
BY RegenPhase DEF Progress

(* Who is done for, with nothing to do but the steps t.                    *)
LEMMA BusiedIs ==
  ASSUME NEW j
  PROVE  /\ j.steps = <<>> => \A X : Busied(j, X) = {}
         /\ \A X : j.steps # <<>> /\ Head(j.steps) \notin X => Busied(j, X) = {}
         /\ \A X : j.steps # <<>> /\ Head(j.steps) \in X => Busied(j, X) = j.u
BY DEF Busied, First

LEMMA NextUserProgress ==
  ASSUME env \in Envs, JobsOK, env' = env, NEW p \in Callers, NEW u \in Users, NextUser(p, u),
         job[p].cmd = "regenerate",
         Progress(job[p], home, store, login, listed, access, shared)
  PROVE  Progress(job'[p], home, store, login, listed, access, shared)
<1>1. PICK j \in JobRecord : j = job[p]
  BY DEF JobsOK
<1>2. PICK k \in JobRecord : k = job'[p]
  <2>1. JobsOK'
    BY NextUserSteps DEF Steps
  <2> QED BY <2>1 DEF JobsOK
<1>3. /\ k.cmd = j.cmd /\ k.h = j.h /\ k.phases = j.phases /\ k.containers = j.containers
      /\ k.users = j.users \ {u} /\ k.c = j.c /\ k.u = {u} /\ k.steps = StepsFor(Head(j.phases))
      /\ Running(env, k) /\ Running(env, j) /\ j.steps = <<>> /\ u \in j.users
  <2>1. PICK j2 : j2 = [j EXCEPT !.users = @ \ {u}, !.u = {u}, !.steps = StepsFor(Head(j.phases))]
    OBVIOUS
  <2>2. Steps(p, j2)
    BY <1>1, <2>1, NextUserSteps
  <2>3. k = j2
    BY <1>2, <2>2 DEF Steps
  <2>4. Running(env, j)
    BY <1>1, Between
  <2> QED BY <1>1, <2>1, <2>2, <2>3, <2>4 DEF Steps, JobRecord, NextUser
<1>4. Head(j.phases) \in {"configs", "hashes", "structure"}
  <2>1. Head(j.phases) \notin {"sync", "share"}
    BY <1>3 DEF Running
  <2> QED BY <1>1, <1>3, <2>1, RegenPhase
<1>5. /\ k.steps # <<>>
      /\ Head(j.phases) = "structure" => Head(k.steps) = "add"
      /\ Head(k.steps) \in StepNames
  BY <1>3, <1>4 DEF StepsFor, StepNames
<1>6. /\ Busied(k, StepNames) = {u} /\ (\A X : Busied(j, X) = {})
      /\ ~First(j, {"reset"})
  <2>1. Busied(k, StepNames) = k.u
    BY <1>5, BusiedIs
  <2>2. \A X : Busied(j, X) = {}
    BY <1>3, BusiedIs
  <2> QED BY <1>3, <2>1, <2>2 DEF First
<1>7. k.users \cup {u} = j.users
  BY <1>3
<1>8. Known(store, k.h)
  <2>1. j.phases # FromSync \/ j.steps = <<>>
    BY <1>3
  <2> QED BY <1>1, <1>3, <2>1, ProgressParts
<1>9. ASSUME Head(j.phases) = "hashes"
      PROVE  AllHashed(home, store, login, k.h, k.users \cup Busied(k, StepNames))
  <2>1. AllHashed(home, store, login, j.h, j.users \cup {})
    BY <1>1, <1>3, <1>6, <1>9, ProgressParts
  <2> QED BY <1>3, <1>6, <1>7, <2>1 DEF AllHashed
<1>10. ASSUME Head(j.phases) = "structure"
       PROVE  InStructure(k, home, store, login, listed, access)
  <2>1. InStructure(j, home, store, login, listed, access)
    BY <1>1, <1>3, <1>10, ProgressParts
  <2>2. Busied(k, {"add"}) = {u} /\ Busied(k, Setting \cup {"collect"}) = {}
    <3>1. k.steps # <<>> /\ Head(k.steps) = "add"
      BY <1>5, <1>10
    <3>2. Head(k.steps) \in {"add"} /\ Head(k.steps) \notin Setting \cup {"collect"}
      BY <3>1 DEF Setting
    <3>3. Busied(k, {"add"}) = k.u
      BY <3>1, <3>2, BusiedIs
    <3>4. Busied(k, Setting \cup {"collect"}) = {}
      BY <3>1, <3>2, BusiedIs
    <3> QED BY <1>3, <3>3, <3>4
  <2>3. AllHashed(home, store, login, k.h, Busied(k, Setting \cup {"collect"}))
    BY <1>3, <1>6, <2>1, <2>2 DEF InStructure
  <2>4. \A c \in k.c : k.users \cup Busied(k, StepNames) \subseteq listed[c]
    BY <1>3, <1>6, <1>7, <2>1 DEF InStructure
  <2>5. Busied(k, StepNames) \cap k.users = {}
    BY <1>3, <1>6
  <2>6. ASSUME NEW c \in Here(k.h) \ k.containers
        PROVE  \/ c \notin k.c /\ Admits(home, store, listed, access, c, k.h, {}, {})
               \/ /\ c \in k.c
                  /\ Admits(home, store, listed, access, c, k.h,
                            k.users \cup Busied(k, StepNames), k.users \cup Busied(k, {"add"}))
    <3>1. \/ c \notin j.c /\ Admits(home, store, listed, access, c, j.h, {}, {})
          \/ /\ c \in j.c
             /\ Admits(home, store, listed, access, c, j.h, j.users \cup {}, j.users \cup {})
      BY <1>3, <1>6, <2>1 DEF InStructure
    <3>2. k.users \cup Busied(k, StepNames) = j.users \cup {}
      BY <1>6, <1>7
    <3>3. k.users \cup Busied(k, {"add"}) = j.users \cup {}
      BY <1>7, <2>2
    <3> QED BY <1>3, <3>1, <3>2, <3>3
  <2> QED BY <2>3, <2>4, <2>5, <2>6 DEF InStructure
<1>11. Head(k.phases) # "share" /\ k.phases # FromLast
  BY <1>3, <1>4, Stages
<1> QED BY <1>1, <1>2, <1>3, <1>8, <1>9, <1>10, <1>11, ProgressFrom

LEMMA NextContainerProgress ==
  ASSUME env \in Envs, JobsOK, env' = env, NEW p \in Callers, NEW c \in Containers,
         NextContainer(p, c), job[p].cmd = "regenerate",
         Progress(job[p], home, store, login, listed, access, shared)
  PROVE  Progress(job'[p], home, store, login, listed, access, shared)
<1>1. PICK j \in JobRecord : j = job[p]
  BY DEF JobsOK
<1>2. PICK k \in JobRecord : k = job'[p]
  <2>1. JobsOK'
    BY NextContainerSteps DEF Steps
  <2> QED BY <2>1 DEF JobsOK
<1>3. /\ k.cmd = j.cmd /\ k.h = j.h /\ k.phases = j.phases /\ k.containers = j.containers \ {c}
      /\ k.users = {} /\ j.users = {} /\ k.c = {c}
      /\ k.steps = (IF Head(j.phases) = "share" THEN <<"share">> ELSE <<"reset">>)
      /\ Running(env, k) /\ Running(env, j) /\ j.steps = <<>>
      /\ Head(j.phases) \in {"structure", "share"}
  <2>1. PICK j2 : j2 = [j EXCEPT !.containers = @ \ {c}, !.c = {c},
                          !.steps = IF Head(j.phases) = "share" THEN <<"share">> ELSE <<"reset">>]
    OBVIOUS
  <2>2. Steps(p, j2) /\ Head(j.phases) \in {"structure", "share"}
    BY <1>1, <2>1, NextContainerSteps
  <2>3. k = j2
    BY <1>2, <2>2 DEF Steps
  <2>4. Running(env, j)
    BY <1>1, Between
  <2> QED BY <1>1, <2>1, <2>2, <2>3, <2>4 DEF Steps, JobRecord, NextContainer
<1>4. \A X : Busied(j, X) = {}
  BY <1>3, BusiedIs
<1>5. Known(store, k.h)
  <2>1. j.phases # FromSync \/ j.steps = <<>>
    BY <1>3
  <2> QED BY <1>1, <1>3, <2>1, ProgressParts
<1>6. ASSUME Head(j.phases) = "structure"
      PROVE  InStructure(k, home, store, login, listed, access)
  <2>1. InStructure(j, home, store, login, listed, access)
    BY <1>1, <1>3, <1>6, ProgressParts
  <2>2. k.steps # <<>> /\ Head(k.steps) = "reset"
    BY <1>3, <1>6
  <2>3. Busied(k, Setting \cup {"collect"}) = {} /\ First(k, {"reset"}) /\ ~First(j, {"reset"})
    <3>1. Head(k.steps) \notin Setting \cup {"collect"}
      BY <2>2 DEF Setting
    <3> QED BY <1>3, <2>2, <3>1, BusiedIs DEF First
  <2>4. AllHashed(home, store, login, k.h, Busied(k, Setting \cup {"collect"}))
    BY <1>3, <1>4, <2>1, <2>3 DEF InStructure
  <2>5. ASSUME NEW d \in Here(k.h) \ k.containers
        PROVE  \/ d \in k.c
               \/ d \notin k.c /\ Admits(home, store, listed, access, d, k.h, {}, {})
    <3>1. CASE d = c
      BY <1>3, <3>1
    <3>2. CASE d # c
      <4>1. d \in Here(j.h) \ j.containers
        BY <1>3, <3>2
      <4>2. \/ d \notin j.c /\ Admits(home, store, listed, access, d, j.h, {}, {})
            \/ d \in j.c /\ Admits(home, store, listed, access, d, j.h, {} \cup {}, {} \cup {})
        BY <1>3, <1>4, <2>1, <2>3, <4>1 DEF InStructure
      <4>3. {} \cup {} = {}
        OBVIOUS
      <4> QED BY <1>3, <3>2, <4>2, <4>3
    <3> QED BY <3>1, <3>2
  <2>6. Busied(k, StepNames) \cap k.users = {}
    BY <1>3
  <2> QED BY <2>3, <2>4, <2>5, <2>6 DEF InStructure
<1>7. ASSUME Head(j.phases) = "share"
      PROVE  InShare(k, home, store, login, listed, access, shared)
  <2>1. InShare(j, home, store, login, listed, access, shared)
    BY <1>1, <1>3, <1>7, ProgressParts
  <2>2. k.steps # <<>>
    BY <1>3, <1>7
  <2> QED BY <1>3, <2>1, <2>2 DEF InShare
<1>8. Head(k.phases) # "hashes" /\ k.phases # FromLast
  BY <1>3, Stages
<1> QED BY <1>1, <1>2, <1>3, <1>5, <1>6, <1>7, <1>8, ProgressFrom

LEMMA NextPhaseProgress ==
  ASSUME env \in Envs, JobsOK, env' = env, ListsType, NEW p \in Callers, NextPhase(p),
         job[p].cmd = "regenerate", job'[p].cmd = "regenerate",
         Progress(job[p], home, store, login, listed, access, shared)
  PROVE  Progress(job'[p], home, store, login, listed, access, shared)
<1>1. PICK j \in JobRecord : j = job[p]
  BY DEF JobsOK
<1>2. /\ j.phases # FromLast /\ Steps(p, NextOne(j)) /\ Tail(j.phases) = Next1(j.phases)
      /\ Running(env, j)
  <2>1. job' # [job EXCEPT ![p] = NoJob]
    BY NoJobType DEF JobsOK
  <2> QED BY <1>1, <2>1, NextPhaseSteps, Between
<1>3. PICK k \in JobRecord : k = job'[p]
  BY <1>2 DEF Steps
<1>4. j.steps = <<>> /\ j.users = {} /\ j.containers = {}
  BY <1>1 DEF NextPhase
<1>5. /\ k.cmd = j.cmd /\ k.h = j.h /\ k.phases = Next1(j.phases) /\ Running(env, k)
      /\ k.steps = IF Head(k.phases) = "sync" THEN <<"sync">> ELSE <<>>
      /\ k.users = IF Head(k.phases) \in {"configs", "hashes"} THEN Homes(j.h) ELSE {}
      /\ k.containers = IF Head(k.phases) \in {"structure", "share"} THEN Here(j.h) ELSE {}
  <2>1. PICK j2 : j2 = NextOne(j)
    OBVIOUS
  <2>2. k = j2 /\ Running(env, j2)
    BY <1>2, <1>3, <2>1 DEF Steps
  <2>3. /\ j2.cmd = j.cmd /\ j2.h = j.h /\ j2.phases = Tail(j.phases)
        /\ j2.steps = IF Head(Tail(j.phases)) = "sync" THEN <<"sync">> ELSE <<>>
        /\ j2.users = IF Head(Tail(j.phases)) \in {"configs", "hashes"} THEN Homes(j.h) ELSE {}
        /\ j2.containers = IF Head(Tail(j.phases)) \in {"structure", "share"} THEN Here(j.h)
                           ELSE {}
    BY <2>1 DEF NextOne, JobRecord
  <2> QED BY <1>2, <2>2, <2>3
<1>6. \A X : Busied(j, X) = {}
  BY <1>4, BusiedIs
<1>7. Known(store, k.h)
  BY <1>1, <1>2, <1>4, <1>5, ProgressParts
<1>8. j.phases \in {FromSync, FromConfigs, FromHashes, FromStructure, FromShare}
  BY <1>1, <1>2, RegenPhase
<1>9. CASE j.phases = FromSync
  <2>1. k.phases = FromConfigs /\ Head(k.phases) = "configs"
    BY <1>5, <1>9, Stages DEF Next1
  <2> QED BY <1>1, <1>3, <1>5, <1>7, <2>1, Distinct, ProgressFrom
<1>10. CASE j.phases = FromConfigs
  <2>1. k.phases = FromHashes /\ Head(k.phases) = "hashes"
    BY <1>5, <1>10, Stages, Distinct DEF Next1
  <2>2. k.users = Homes(k.h)
    BY <1>5, <2>1
  <2>3. AllHashed(home, store, login, k.h, k.users \cup Busied(k, StepNames))
    BY <2>2 DEF AllHashed, Homes
  <2> QED BY <1>1, <1>3, <1>5, <1>7, <2>1, <2>3, Distinct, ProgressFrom
<1>11. CASE j.phases = FromHashes
  <2>1. k.phases = FromStructure /\ Head(k.phases) = "structure"
    BY <1>5, <1>11, Stages, Distinct DEF Next1
  <2>2. AllHashed(home, store, login, j.h, {} \cup {})
    BY <1>1, <1>2, <1>4, <1>6, <1>11, ProgressParts, Stages
  <2>3. k.steps = <<>> /\ k.users = {} /\ k.containers = Here(k.h)
    BY <1>5, <2>1
  <2>4. \A X : Busied(k, X) = {}
    BY <2>3, BusiedIs
  <2>5. AllHashed(home, store, login, k.h, Busied(k, Setting \cup {"collect"}))
    BY <1>5, <2>2, <2>4 DEF AllHashed
  <2>6. InStructure(k, home, store, login, listed, access)
    BY <2>3, <2>4, <2>5 DEF InStructure
  <2> QED BY <1>1, <1>3, <1>5, <1>7, <2>1, <2>6, Distinct, ProgressFrom
<1>12. CASE j.phases = FromStructure
  <2>1. k.phases = FromShare /\ Head(k.phases) = "share"
    BY <1>5, <1>12, Stages, Distinct DEF Next1
  <2>2. InStructure(j, home, store, login, listed, access)
    BY <1>1, <1>2, <1>12, ProgressParts, Stages
  <2>3. k.steps = <<>> /\ k.containers = Here(k.h)
    BY <1>5, <2>1
  <2>4. AllHashed(home, store, login, k.h, {})
    BY <1>5, <1>6, <2>2 DEF InStructure
  <2>5. ASSUME NEW c \in Here(k.h)
        PROVE  Admits(home, store, listed, access, c, k.h, {}, {})
    <3>1. ~First(j, {"reset"})
      BY <1>4 DEF First
    <3>2. \/ Admits(home, store, listed, access, c, j.h, {}, {})
          \/ Admits(home, store, listed, access, c, j.h, {} \cup {}, {} \cup {})
      BY <1>4, <1>5, <1>6, <2>2, <3>1 DEF InStructure
    <3>3. {} \cup {} = {}
      OBVIOUS
    <3> QED BY <1>5, <3>2, <3>3
  <2>6. InShare(k, home, store, login, listed, access, shared)
    BY <2>3, <2>4, <2>5 DEF InShare
  <2> QED BY <1>1, <1>3, <1>5, <1>7, <2>1, <2>6, Distinct, ProgressFrom
<1>13. CASE j.phases = FromShare
  <2>1. k.phases = FromLast /\ Head(k.phases) = "sync"
    BY <1>5, <1>13, Stages, Distinct DEF Next1
  <2>2. InShare(j, home, store, login, listed, access, shared)
    BY <1>1, <1>2, <1>13, ProgressParts, Stages
  <2>3. ASSUME NEW c \in Here(k.h)
        PROVE  /\ access[c] = {u \in listed[c] : store[Root][u].keys}
               /\ SharedOK(login, listed, shared, c, k.h)
    <3>1. /\ Admits(home, store, listed, access, c, k.h, {}, {})
          /\ SharedOK(login, listed, shared, c, k.h)
      BY <1>4, <1>5, <2>2 DEF InShare
    <3>2. access[c] = {u \in listed[c] : store[k.h][u].keys}
      BY <3>1 DEF Admits
    <3>3. listed[c] \subseteq Users
      BY DEF ListsType, Here
    <3> QED BY <1>7, <3>1, <3>2, <3>3 DEF Known
  <2>4. AtEnd(k, store, login, listed, access, shared)
    BY <2>3 DEF AtEnd
  <2> QED BY <1>1, <1>3, <1>5, <1>7, <2>1, <2>4, Distinct, ProgressFrom
<1> QED BY <1>8, <1>9, <1>10, <1>11, <1>12, <1>13

(* A container is reset, gets a key, gets its hashes.                      *)
LEMMA ResetProgress ==
  ASSUME env \in Envs, JobsOK, env' = env, ListsType, NEW p \in Callers, Reset(p),
         job[p].cmd = "regenerate",
         Progress(job[p], home, store, login, listed, access, shared)
  PROVE  Progress(job'[p], home', store', login', listed', access', shared')
<1>1. PICK j \in JobRecord : j = job[p]
  BY DEF JobsOK
<1>2. PICK c \in Here(j.h) :
        /\ j.c = {c} /\ access' = [access EXCEPT ![c] = {}]
        /\ Steps(p, [j EXCEPT !.steps = <<>>, !.users = listed[c]])
  BY <1>1, ResetSteps DEF ListsType
<1>3. PICK k \in JobRecord : k = job'[p]
  BY <1>2 DEF Steps
<1>4. /\ k.cmd = j.cmd /\ k.h = j.h /\ k.phases = j.phases /\ k.containers = j.containers
      /\ k.users = listed[c] /\ k.c = {c} /\ k.steps = <<>> /\ Running(env, k)
  <2>1. PICK j2 : j2 = [j EXCEPT !.steps = <<>>, !.users = listed[c]]
    OBVIOUS
  <2>2. k = j2 /\ Running(env, j2)
    BY <1>2, <1>3, <2>1 DEF Steps
  <2> QED BY <1>2, <2>1, <2>2 DEF JobRecord
<1>5. /\ j.steps # <<>> /\ Head(j.steps) = "reset" /\ Head(j.phases) = "structure"
      /\ j.users = {} /\ Running(env, j)
  BY <1>1, ResetSteps, Here1 DEF At, ListsType
<1>6. UNCHANGED <<home, store, login, listed, shared>>
  BY DEF Reset
<1>7. c \in Containers /\ access'[c] = {}
      /\ \A d \in Containers : d # c => access'[d] = access[d]
  BY <1>2 DEF ListsType, Here
<1>8. InStructure(j, home, store, login, listed, access)
  BY <1>1, <1>5, ProgressParts
<1>9. Known(store, k.h)
  <2>1. j.phases # FromSync
    BY <1>5, Stages
  <2> QED BY <1>1, <1>4, <1>5, <2>1, ProgressParts
<1>10. \A X : Busied(k, X) = {}
  BY <1>4, BusiedIs
<1>11. Busied(j, Setting \cup {"collect"}) = {}
  <2>1. Head(j.steps) \notin Setting \cup {"collect"}
    BY <1>5 DEF Setting
  <2> QED BY <1>5, <2>1, BusiedIs
<1>12. AllHashed(home, store, login, k.h, Busied(k, Setting \cup {"collect"}))
  BY <1>4, <1>8, <1>10, <1>11 DEF InStructure
<1>13. ASSUME NEW d \in Here(k.h) \ k.containers
       PROVE  \/ d \notin k.c /\ Admits(home, store, listed, access', d, k.h, {}, {})
              \/ /\ d \in k.c
                 /\ Admits(home, store, listed, access', d, k.h, k.users \cup Busied(k, StepNames),
                           k.users \cup Busied(k, {"add"}))
  <2>1. k.users \cup Busied(k, StepNames) = listed[c] /\ k.users \cup Busied(k, {"add"}) = listed[c]
    BY <1>4, <1>10
  <2>2. CASE d = c
    <3>1. Admits(home, store, listed, access', c, k.h, listed[c], listed[c])
      BY <1>7 DEF Admits
    <3> QED BY <1>4, <2>1, <2>2, <3>1
  <2>3. CASE d # c
    <3>1. Admits(home, store, listed, access, d, k.h, {}, {})
      BY <1>2, <1>4, <1>8, <2>3 DEF InStructure
    <3>2. access'[d] = access[d]
      BY <1>7, <2>3 DEF Here
    <3> QED BY <1>4, <2>3, <3>1, <3>2 DEF Admits
  <2> QED BY <2>2, <2>3
<1>14. InStructure(k, home, store, login, listed, access')
  <2>1. Busied(k, StepNames) \cap k.users = {}
    BY <1>10
  <2>2. \A d \in k.c : k.users \cup Busied(k, StepNames) \subseteq listed[d]
    BY <1>4, <1>10
  <2> QED BY <1>12, <1>13, <2>1, <2>2 DEF InStructure
<1>15. Head(k.phases) = "structure" /\ k.phases # FromLast
  BY <1>4, <1>5, Stages
<1>16. Progress(k, home, store, login, listed, access', shared)
  BY <1>1, <1>4, <1>9, <1>14, <1>15, ProgressFrom
<1> QED BY <1>3, <1>6, <1>16

LEMMA AppendProgress ==
  ASSUME env \in Envs, JobsOK, env' = env, ListsType, NEW p \in Callers, AppendKeys(p),
         job[p].cmd = "regenerate",
         Progress(job[p], home, store, login, listed, access, shared)
  PROVE  Progress(job'[p], home', store', login', listed', access', shared')
<1>1. PICK j \in JobRecord : j = job[p]
  BY DEF JobsOK
<1>2. j.steps # <<>> /\ Head(j.steps) = "append"
  BY <1>1 DEF AppendKeys, At
<1>3. /\ Running(env, j) /\ Head(j.phases) = "structure"
  BY <1>1, <1>2, Here1 DEF Within
<1>4. PICK u \in Users : j.u = {u}
  BY <1>2, <1>3 DEF Running
<1>5. PICK c \in Here(j.h) : j.c = {c}
  BY <1>2, <1>3 DEF Running
<1>6. /\ Steps(p, [j EXCEPT !.steps = <<>>])
      /\ access' = [access EXCEPT ![c] = IF store[j.h][u].keys THEN @ \cup {u} ELSE @]
      /\ UNCHANGED <<home, store, login, listed, shared>>
  <2>1. Steps(p, [j EXCEPT !.steps = <<>>])
    BY <1>1, LastStep DEF AppendKeys
  <2> QED BY <1>1, <1>4, <1>5, <2>1 DEF AppendKeys
<1>7. PICK k \in JobRecord : k = job'[p]
  BY <1>6 DEF Steps
<1>8. /\ k.cmd = j.cmd /\ k.h = j.h /\ k.phases = j.phases /\ k.containers = j.containers
      /\ k.users = j.users /\ k.c = {c} /\ k.steps = <<>> /\ Running(env, k)
  <2>1. PICK j2 : j2 = [j EXCEPT !.steps = <<>>]
    OBVIOUS
  <2>2. k = j2 /\ Running(env, j2)
    BY <1>6, <1>7, <2>1 DEF Steps
  <2> QED BY <1>5, <2>1, <2>2 DEF JobRecord
<1>9. /\ c \in Containers
      /\ access'[c] = IF store[j.h][u].keys THEN access[c] \cup {u} ELSE access[c]
      /\ \A d \in Containers : d # c => access'[d] = access[d]
  BY <1>6 DEF ListsType, Here
<1>10. InStructure(j, home, store, login, listed, access)
  BY <1>1, <1>3, ProgressParts
<1>11. /\ Busied(j, Setting \cup {"collect"}) = {} /\ Busied(j, {"add"}) = {}
       /\ Busied(j, StepNames) = {u} /\ ~First(j, {"reset"})
  <2>1. /\ Head(j.steps) \notin Setting \cup {"collect"} /\ Head(j.steps) \notin {"add"}
        /\ Head(j.steps) \in StepNames /\ Head(j.steps) # "reset"
    BY <1>2 DEF Setting, StepNames
  <2>2. Busied(j, Setting \cup {"collect"}) = {} /\ Busied(j, {"add"}) = {}
    BY <1>2, <2>1, BusiedIs
  <2>3. Busied(j, StepNames) = {u}
    BY <1>2, <1>4, <2>1, BusiedIs
  <2> QED BY <2>1, <2>2, <2>3 DEF First
<1>12. \A X : Busied(k, X) = {}
  BY <1>8, BusiedIs
<1>13. u \in listed[c] /\ u \notin j.users /\ j.users \subseteq listed[c]
  BY <1>5, <1>10, <1>11 DEF InStructure
<1>14. ASSUME NEW d \in Here(k.h) \ k.containers
       PROVE  \/ d \notin k.c /\ Admits(home, store, listed, access', d, k.h, {}, {})
              \/ /\ d \in k.c
                 /\ Admits(home, store, listed, access', d, k.h, k.users \cup Busied(k, StepNames),
                           k.users \cup Busied(k, {"add"}))
  <2>1. k.users \cup Busied(k, StepNames) = j.users /\ k.users \cup Busied(k, {"add"}) = j.users
    BY <1>8, <1>12
  <2>2. CASE d = c
    <3>1. Admits(home, store, listed, access, c, j.h, j.users \cup Busied(j, StepNames),
                 j.users \cup Busied(j, {"add"}))
      BY <1>5, <1>8, <1>10, <1>11, <2>2 DEF InStructure
    <3>2. /\ access[c] = {v \in listed[c] \ (j.users \cup {u}) : store[j.h][v].keys}
          /\ \A v \in listed[c] \ j.users : home[j.h][v].there
      BY <1>11, <3>1 DEF Admits
    <3>3. access'[c] = {v \in listed[c] \ j.users : store[j.h][v].keys}
      BY <1>9, <1>13, <3>2
    <3>4. Admits(home, store, listed, access', c, j.h, j.users, j.users)
      BY <3>2, <3>3 DEF Admits
    <3> QED BY <1>8, <2>1, <2>2, <3>4
  <2>3. CASE d # c
    <3>1. Admits(home, store, listed, access, d, k.h, {}, {})
      BY <1>5, <1>8, <1>10, <2>3 DEF InStructure
    <3>2. access'[d] = access[d]
      BY <1>9, <2>3 DEF Here
    <3> QED BY <1>8, <2>3, <3>1, <3>2 DEF Admits
  <2> QED BY <2>2, <2>3
<1>15. InStructure(k, home, store, login, listed, access')
  <2>1. Busied(k, StepNames) \cap k.users = {}
    BY <1>12
  <2>2. \A d \in k.c : k.users \cup Busied(k, StepNames) \subseteq listed[d]
    BY <1>8, <1>12, <1>13
  <2>3. AllHashed(home, store, login, k.h, Busied(k, Setting \cup {"collect"}))
    BY <1>8, <1>10, <1>11, <1>12 DEF InStructure
  <2> QED BY <1>14, <2>1, <2>2, <2>3 DEF InStructure
<1>16. Known(store, k.h) /\ Head(k.phases) = "structure" /\ k.phases # FromLast
  <2>1. j.phases # FromSync /\ j.phases # FromLast
    BY <1>3, Stages
  <2> QED BY <1>1, <1>3, <1>8, <2>1, ProgressParts
<1>17. Progress(k, home, store, login, listed, access', shared)
  BY <1>1, <1>8, <1>15, <1>16, ProgressFrom
<1> QED BY <1>6, <1>7, <1>17

LEMMA ShareProgress ==
  ASSUME env \in Envs, JobsOK, env' = env, ListsType, NEW p \in Callers, Share(p),
         job[p].cmd = "regenerate",
         Progress(job[p], home, store, login, listed, access, shared)
  PROVE  Progress(job'[p], home', store', login', listed', access', shared')
<1>1. PICK j \in JobRecord : j = job[p]
  BY DEF JobsOK
<1>2. j.steps # <<>> /\ Head(j.steps) = "share"
  BY <1>1 DEF Share, At
<1>3. /\ Running(env, j) /\ Head(j.phases) = "share"
  BY <1>1, <1>2, Here1 DEF Within
<1>4. PICK c \in Here(j.h) : j.c = {c}
  BY <1>2, <1>3 DEF Running
<1>5. /\ Steps(p, [j EXCEPT !.steps = <<>>])
      /\ shared' = [shared EXCEPT ![c] = [u \in Users |->
                      IF u \in listed[c] THEN store[j.h][u].sha ELSE None]]
      /\ UNCHANGED <<home, store, login, listed, access>>
  <2>1. Steps(p, [j EXCEPT !.steps = <<>>])
    BY <1>1, LastStep DEF Share
  <2> QED BY <1>1, <1>4, <2>1 DEF Share
<1>6. PICK k \in JobRecord : k = job'[p]
  BY <1>5 DEF Steps
<1>7. /\ k.cmd = j.cmd /\ k.h = j.h /\ k.phases = j.phases /\ k.containers = j.containers
      /\ k.steps = <<>> /\ Running(env, k)
  <2>1. PICK j2 : j2 = [j EXCEPT !.steps = <<>>]
    OBVIOUS
  <2>2. k = j2 /\ Running(env, j2)
    BY <1>5, <1>6, <2>1 DEF Steps
  <2> QED BY <2>1, <2>2 DEF JobRecord
<1>8. /\ c \in Containers
      /\ \A u \in Users : shared'[c][u] = IF u \in listed[c] THEN store[j.h][u].sha ELSE None
      /\ \A d \in Containers : d # c => shared'[d] = shared[d]
  BY <1>5 DEF ListsType, Here
<1>9. InShare(j, home, store, login, listed, access, shared)
  BY <1>1, <1>3, ProgressParts
<1>10. ASSUME NEW d \in Here(k.h) \ k.containers
       PROVE  SharedOK(login, listed, shared', d, k.h)
  <2>1. CASE d = c
    <3>1. Admits(home, store, listed, access, c, j.h, {}, {})
      BY <1>9 DEF InShare
    <3>2. \A u \in listed[c] : home[j.h][u].there
      BY <3>1 DEF Admits
    <3>3. \A u \in Users : home[j.h][u].there => store[j.h][u].sha = login[j.h][u]
      BY <1>9 DEF InShare, AllHashed
    <3> QED BY <1>7, <1>8, <2>1, <3>2, <3>3 DEF SharedOK
  <2>2. CASE d # c
    <3>1. SharedOK(login, listed, shared, d, k.h)
      BY <1>4, <1>7, <1>9, <2>2 DEF InShare
    <3> QED BY <1>8, <2>2, <3>1 DEF SharedOK, Here
  <2> QED BY <2>1, <2>2
<1>11. InShare(k, home, store, login, listed, access, shared')
  BY <1>7, <1>9, <1>10 DEF InShare
<1>12. Known(store, k.h) /\ Head(k.phases) = "share" /\ k.phases # FromLast
  <2>1. j.phases # FromSync /\ j.phases # FromLast
    BY <1>3, Stages
  <2> QED BY <1>1, <1>3, <1>7, <2>1, ProgressParts
<1>13. Progress(k, home, store, login, listed, access, shared')
  BY <1>1, <1>7, <1>11, <1>12, ProgressFrom
<1> QED BY <1>5, <1>6, <1>13

(* A step for one user of a container.                                     *)
LEMMA StructureGoes ==
  ASSUME NEW j, NEW k, NEW t, NEW u \in Users, ListsType,
         InStructure(j, home, store, login, listed, access), Later(j, k, t),
         j.steps # <<>>, j.u = {u}, Head(j.steps) \in {"add", "collect"} \cup Setting,
         t # <<>>, Head(t) \in {"append", "collect"} \cup Setting,
         \A v \in Users : /\ store'[j.h][v].keys = store[j.h][v].keys
                          /\ home[j.h][v].there => home'[j.h][v].there,
         Head(j.steps) = "add" => home'[j.h][u].there,
         AllHashed(home', store', login', j.h, Busied(k, Setting \cup {"collect"}))
  PROVE  InStructure(k, home', store', login', listed, access)
<1>1. /\ k.h = j.h /\ k.containers = j.containers /\ k.users = j.users /\ k.c = j.c /\ k.u = {u}
      /\ k.steps = t
  BY DEF Later
<1>2. Busied(j, StepNames) = {u} /\ Busied(k, StepNames) = {u} /\ ~First(j, {"reset"})
  <2>1. Head(j.steps) \in StepNames /\ Head(t) \in StepNames /\ Head(j.steps) # "reset"
    BY DEF Setting, StepNames
  <2>2. Busied(j, StepNames) = {u}
    BY <2>1, BusiedIs
  <2>3. Busied(k, StepNames) = {u}
    BY <1>1, <2>1, BusiedIs
  <2> QED BY <2>1, <2>2, <2>3 DEF First
<1>3. Busied(k, {"add"}) = {} /\ (Head(j.steps) # "add" => Busied(j, {"add"}) = {})
      /\ Busied(j, {"add"}) \subseteq {u}
  <2>1. Head(t) \notin {"add"}
    BY DEF Setting
  <2>2. Busied(k, {"add"}) = {}
    BY <1>1, <2>1, BusiedIs
  <2> QED BY <2>2 DEF Busied, First
<1>4. /\ Busied(k, StepNames) \cap k.users = {}
      /\ \A c \in k.c : k.users \cup Busied(k, StepNames) \subseteq listed[c]
  BY <1>1, <1>2 DEF InStructure
<1>5. ASSUME NEW c \in Here(k.h) \ k.containers
      PROVE  \/ c \notin k.c /\ Admits(home', store', listed, access, c, k.h, {}, {})
             \/ /\ c \in k.c
                /\ Admits(home', store', listed, access, c, k.h, k.users \cup Busied(k, StepNames),
                          k.users \cup Busied(k, {"add"}))
  <2>0. listed[c] \subseteq Users
    BY DEF ListsType, Here
  <2>1. \A U, V : Admits(home, store, listed, access, c, j.h, U, V) =>
                  Admits(home', store', listed, access, c, j.h, U, V)
    BY <2>0 DEF Admits
  <2>2. CASE c \notin j.c
    <3>1. Admits(home, store, listed, access, c, j.h, {}, {})
      BY <1>1, <1>2, <2>2 DEF InStructure
    <3> QED BY <1>1, <2>1, <2>2, <3>1
  <2>3. CASE c \in j.c
    <3>1. Admits(home, store, listed, access, c, j.h, j.users \cup {u},
                 j.users \cup Busied(j, {"add"}))
      BY <1>1, <1>2, <2>3 DEF InStructure
    <3>2. /\ access[c] = {v \in listed[c] \ (j.users \cup {u}) : store[j.h][v].keys}
          /\ \A v \in listed[c] \ (j.users \cup Busied(j, {"add"})) : home[j.h][v].there
      BY <3>1 DEF Admits
    <3>3. \A v \in listed[c] \ j.users : home'[j.h][v].there
      BY <1>3, <2>0, <3>2
    <3>4. access[c] = {v \in listed[c] \ (j.users \cup {u}) : store'[j.h][v].keys}
      BY <2>0, <3>2
    <3>5. Admits(home', store', listed, access, c, j.h, j.users \cup {u}, j.users)
      BY <3>3, <3>4 DEF Admits
    <3>6. j.users \cup Busied(k, {"add"}) = j.users
      BY <1>3
    <3> QED BY <1>1, <1>2, <2>3, <3>5, <3>6
  <2> QED BY <2>2, <2>3
<1> QED BY <1>1, <1>4, <1>5 DEF InStructure

(* A regenerate writes the files of a user.                                *)
LEMMA WrittenProgress ==
  ASSUME env \in Envs, JobsOK, env' = env, FilesType, ListsType, SetsOK, Steady,
         NEW p \in Callers, Written(p), job[p].cmd = "regenerate",
         Progress(job[p], home, store, login, listed, access, shared)
  PROVE  Progress(job'[p], home', store', login', listed', access', shared')
<1>1. PICK j \in JobRecord : j = job[p]
  BY DEF JobsOK
<1>2. PICK x \in Writing, u \in Users : \E w, t : Writes(p, x, u, w, t)
  BY DEF Written
<1>3. PICK w, t : Writes(p, x, u, w, t)
  BY <1>2
<1>4. PICK h \in Hosts : h = j.h
  BY DEF JobRecord
<1>5. PICK k \in JobRecord : k = job'[p]
  BY <1>3 DEF Writes, Goes, JobsOK
<1>6. /\ Wrote(x, h, w, j.password, home[h][u], store[h][u], login[h][u],
               home'[h][u], store'[h][u], login'[h][u])
      /\ Puts(h, u, home'[h][u], store'[h][u], login'[h][u])
      /\ j.u = {u} /\ Later(j, k, t) /\ Within(x, Head(j.phases))
      /\ j.steps # <<>> /\ Head(j.steps) = x
      /\ \/ Follows(x, t, Head(j.phases)) /\ (x = "add" => home[h][u].there)
         \/ x = "add" /\ First([steps |-> t], {"collect"})
      /\ UNCHANGED <<listed, access, shared>>
  BY <1>1, <1>3, <1>4, <1>5 DEF Writes, At, Goes
<1>7. Running(env, j) /\ Running(env, k) /\ k.cmd = "regenerate" /\ k.h = h /\ k.u = {u}
      /\ k.phases = j.phases /\ k.users = j.users /\ k.steps = t
  <2>1. Running(env, j)
    BY <1>1, <1>6, Here1
  <2>2. k.cmd = "regenerate" /\ k.h = h /\ k.phases = j.phases /\ k.users = j.users
        /\ k.steps = t /\ k.u = {u}
    BY <1>1, <1>4, <1>6 DEF Later
  <2>3. JobsOK' /\ k # NoJob
    BY <1>3, <2>2, NoJobType DEF Writes, Goes
  <2>4. Running(env, k)
    BY <1>5, <2>3 DEF JobsOK
  <2> QED BY <2>1, <2>2, <2>4
<1>8. /\ Head(j.phases) \in {"configs", "hashes", "structure"}
      /\ x \in {"config", "add"} \cup Setting
      /\ x = "config" => Head(j.phases) = "configs"
      /\ x = "add" => Head(j.phases) = "structure"
      /\ x \in Setting => Head(j.phases) \in {"hashes", "structure"}
  <2>1. Head(j.phases) \notin {"new", "add"}
    BY <1>1, <1>7, PhaseOf DEF Running, Commands
  <2> QED BY <1>6, <2>1 DEF Within, Writing, Setting
<1>9. /\ \A v \in Users : v # u =>
           /\ home'[h][v] = home[h][v] /\ store'[h][v] = store[h][v] /\ login'[h][v] = login[h][v]
      /\ \A g \in Hosts, v \in Users : g # h => store'[g][v] = store[g][v]
  BY <1>6 DEF Puts
<1>10. Known(store', h)
  <2>1. Known(store, h)
    <3>1. j.phases # FromSync
      BY <1>8, Stages
    <3> QED BY <1>1, <1>4, <1>7, <3>1, ProgressParts
  <2>2. CASE h = Root
    BY <2>2 DEF Known
  <2>3. CASE h # Root
    <3>1. Root \in Hosts /\ store[h][u].keys \in BOOLEAN
      BY ConstantsAssumption, EntryType
    <3>2. store'[h][u].keys = store[h][u].keys
      BY <1>6, <2>3, <3>1 DEF Wrote
    <3> QED BY <1>9, <2>1, <2>3, <3>1, <3>2 DEF Known
  <2> QED BY <2>2, <2>3
<1>11. x \in Setting => SetOK(x, j.password, home[h][u], store[h][u], login[h][u])
  BY <1>1, <1>4, <1>6 DEF SetsOK, First
<1>12. x = "save" => store'[h][u].sha = login'[h][u]
  BY <1>6, <1>11 DEF SetOK, Wrote, Setting
<1>13. x \in Setting \ {"save"} => t # <<>> /\ Head(t) \in Setting
  BY <1>6 DEF Follows, First, Setting
<1>14. ASSUME Head(j.phases) = "hashes"
       PROVE  AllHashed(home', store', login', h, k.users \cup Busied(k, StepNames))
  <2>1. AllHashed(home, store, login, h, j.users \cup Busied(j, StepNames))
    <3>1. Progress(j, home, store, login, listed, access, shared) /\ j.cmd = "regenerate"
      BY <1>1
    <3>2. Running(env, j)
      BY <1>7
    <3> QED BY <1>4, <1>14, <3>1, <3>2, ProgressParts
  <2>2. Busied(j, StepNames) \subseteq {u}
    BY <1>6 DEF Busied
  <2>3. x \in Setting
    BY <1>8, <1>14
  <2>4. u \in Busied(k, StepNames) \/ store'[h][u].sha = login'[h][u]
    <3>1. CASE x = "save"
      BY <1>12, <3>1
    <3>2. CASE x # "save"
      <4>1. k.steps # <<>> /\ Head(k.steps) \in StepNames
        BY <1>7, <1>13, <2>3, <3>2 DEF Setting, StepNames
      <4>2. Busied(k, StepNames) = k.u
        BY <4>1, BusiedIs
      <4> QED BY <1>7, <4>2
    <3> QED BY <3>1, <3>2
  <2>5. j.users \cup Busied(j, StepNames) \subseteq (k.users \cup Busied(k, StepNames)) \cup {u}
    BY <1>7, <2>2
  <2> QED BY <1>9, <2>1, <2>4, <2>5, HashedThen
<1>15. ASSUME Head(j.phases) = "structure"
       PROVE  InStructure(k, home', store', login', listed, access)
  <2>1. InStructure(j, home, store, login, listed, access)
    BY <1>1, <1>7, <1>15, ProgressParts
  <2>2. x \in {"add"} \cup Setting
    BY <1>8, <1>15
  <2>3. /\ t # <<>> /\ Head(t) \in {"append", "collect"} \cup Setting
        /\ x = "add" /\ Head(t) # "collect" => home[h][u].there
        /\ x = "add" => Head(t) \in {"append", "collect"}
    <3>1. After("structure") = <<"append">> /\ <<"append">> # <<>> /\ Head(<<"append">>) = "append"
      BY DEF After
    <3>2. CASE x \in {"add", "save"}
      BY <1>6, <1>15, <3>1, <3>2 DEF Follows, First
    <3>3. CASE x \in Setting \ {"save"}
      BY <1>13, <3>3 DEF Setting
    <3> QED BY <2>2, <3>2, <3>3
  <2>4. /\ store'[h][u].keys = store[h][u].keys
        /\ home[h][u].there => home'[h][u].there
        /\ x = "add" => home'[h][u].there
    <3>1. store[h][u].keys \in BOOLEAN /\ home[h][u].there \in BOOLEAN /\ x # "config"
      BY <2>2, EntryType DEF Setting
    <3> QED BY <1>6, <3>1 DEF Wrote
  <2>5. AllHashed(home, store, login, h, Busied(j, Setting \cup {"collect"}))
    BY <1>4, <2>1 DEF InStructure
  <2>6. Busied(j, Setting \cup {"collect"}) \subseteq Busied(k, Setting \cup {"collect"}) \cup {u}
    BY <1>6 DEF Busied
  <2>7. \/ u \in Busied(k, Setting \cup {"collect"})
        \/ store'[h][u].sha = login'[h][u]
        \/ /\ u \notin Busied(j, Setting \cup {"collect"}) /\ home[h][u].there
           /\ store'[h][u].sha = store[h][u].sha /\ login'[h][u] = login[h][u]
    <3>1. CASE Head(t) \in {"collect"} \cup Setting
      <4>1. Head(k.steps) \in Setting \cup {"collect"} /\ k.steps # <<>>
        BY <1>7, <2>3, <3>1
      <4>2. Busied(k, Setting \cup {"collect"}) = k.u
        BY <4>1, BusiedIs
      <4> QED BY <1>7, <4>2
    <3>2. CASE x = "save"
      BY <1>12, <3>2
    <3>3. CASE x = "add" /\ Head(t) \notin {"collect"} \cup Setting
      <4>1. Head(j.steps) \notin Setting \cup {"collect"}
        BY <1>6, <3>3 DEF Setting
      <4>2. Busied(j, Setting \cup {"collect"}) = {}
        BY <1>6, <4>1, BusiedIs
      <4> QED BY <1>6, <2>3, <3>3, <4>2 DEF Wrote
    <3> QED BY <1>13, <2>2, <3>1, <3>2, <3>3
  <2>8. AllHashed(home', store', login', h, Busied(k, Setting \cup {"collect"}))
    BY <1>9, <2>5, <2>6, <2>7, HashedThen
  <2>9. \A v \in Users : /\ store'[h][v].keys = store[h][v].keys
                         /\ home[h][v].there => home'[h][v].there
    BY <1>9, <2>4
  <2>10. Head(j.steps) \in {"add", "collect"} \cup Setting
    BY <1>6, <2>2
  <2> QED BY <1>4, <1>6, <2>1, <2>3, <2>4, <2>8, <2>9, <2>10, StructureGoes
<1>16. Head(k.phases) = Head(j.phases) /\ Head(k.phases) # "share" /\ k.phases # FromLast
  BY <1>7, <1>8, Stages
<1>17. Progress(k, home', store', login', listed, access, shared)
  BY <1>7, <1>10, <1>14, <1>15, <1>16, ProgressFrom
<1> QED BY <1>5, <1>6, <1>17

(* A regenerate puts the files of a user together.                         *)
LEMMA CollectsProgress ==
  ASSUME env \in Envs, JobsOK, env' = env, FilesType, ListsType,
         Careful, KillFree, Apart, SoundOK, MatchOK,
         NEW p \in Callers, NEW u, NEW w, NEW t, Collects(p, u, w, t), job[p].cmd = "regenerate",
         Progress(job[p], home, store, login, listed, access, shared)
  PROVE  Progress(job'[p], home', store', login', listed', access', shared')
<1>1. PICK j \in JobRecord : j = job[p]
  BY DEF JobsOK
<1>2. PICK h \in Hosts : h = j.h
  BY DEF JobRecord
<1>3. PICK k \in JobRecord : k = job'[p]
  BY DEF Collects, Goes, JobsOK
<1>4. /\ Got(h, w, home[h][u], store[h][u], login[h][u], home'[h][u], store'[h][u], login'[h][u])
      /\ Puts(h, u, home'[h][u], store'[h][u], login'[h][u])
      /\ u \in Users /\ j.u = {u} /\ Later(j, k, t) /\ Within("collect", Head(j.phases))
      /\ j.steps # <<>> /\ Head(j.steps) = "collect"
      /\ IF IsNew(h, home[h][u], store[h][u], w, j.cur) THEN First([steps |-> t], {"passwd"})
         ELSE t = After(Head(j.phases))
      /\ UNCHANGED <<listed, access, shared>>
  BY <1>1, <1>2, <1>3 DEF Collects, At, Goes
<1>5. Running(env, j) /\ Running(env, k) /\ k.cmd = "regenerate" /\ k.h = h /\ k.u = {u}
      /\ k.phases = j.phases /\ k.users = j.users /\ k.steps = t
  <2>1. Running(env, j)
    BY <1>1, <1>4, Here1
  <2>2. k.cmd = "regenerate" /\ k.h = h /\ k.phases = j.phases /\ k.users = j.users
        /\ k.steps = t /\ k.u = {u}
    BY <1>1, <1>2, <1>4 DEF Later
  <2>3. JobsOK' /\ k # NoJob
    BY <2>2, NoJobType DEF Collects, Goes
  <2>4. Running(env, k)
    BY <1>3, <2>3 DEF JobsOK
  <2> QED BY <2>1, <2>2, <2>4
<1>6. Head(j.phases) \in {"hashes", "structure"}
  <2>1. Head(j.phases) \notin {"new", "add"}
    BY <1>1, <1>5, PhaseOf DEF Running, Commands
  <2> QED BY <1>4, <2>1 DEF Within, Setting
<1>7. /\ \A v \in Users : v # u =>
           /\ home'[h][v] = home[h][v] /\ store'[h][v] = store[h][v] /\ login'[h][v] = login[h][v]
      /\ \A g \in Hosts, v \in Users : g # h => store'[g][v] = store[g][v]
  BY <1>4 DEF Puts
<1>8. Known(store', h)
  <2>1. Known(store, h)
    <3>1. j.phases # FromSync
      BY <1>6, Stages
    <3> QED BY <1>1, <1>2, <1>5, <3>1, ProgressParts
  <2>2. CASE h = Root
    BY <2>2 DEF Known
  <2>3. CASE h # Root
    <3>1. Root \in Hosts /\ store'[h][u].keys = store[h][u].keys
      BY <1>4, ConstantsAssumption DEF Got
    <3> QED BY <1>7, <2>1, <2>3, <3>1 DEF Known
  <2> QED BY <2>2, <2>3
<1>9. \/ t # <<>> /\ Head(t) = "passwd"
      \/ t = After(Head(j.phases)) /\ store'[h][u].sha = login'[h][u]
  <2>1. CASE IsNew(h, home[h][u], store[h][u], w, j.cur)
    BY <1>4, <2>1 DEF First
  <2>2. CASE ~IsNew(h, home[h][u], store[h][u], w, j.cur)
    BY <1>1, <1>2, <1>4, <2>2, CollectHashed
  <2> QED BY <2>1, <2>2
<1>10. \A X : Busied(j, X) \subseteq {u}
  BY <1>4 DEF Busied
<1>11. t # <<>> /\ Head(t) = "passwd" =>
         Busied(k, StepNames) = {u} /\ Busied(k, Setting \cup {"collect"}) = {u}
  <2>1. ASSUME t # <<>>, Head(t) = "passwd"
        PROVE  Busied(k, StepNames) = {u} /\ Busied(k, Setting \cup {"collect"}) = {u}
    <3>1. k.steps # <<>> /\ Head(k.steps) \in StepNames /\ Head(k.steps) \in Setting \cup {"collect"}
      BY <1>5, <2>1 DEF StepNames, Setting
    <3>2. Busied(k, StepNames) = k.u /\ Busied(k, Setting \cup {"collect"}) = k.u
      BY <3>1, BusiedIs
    <3> QED BY <1>5, <3>2
  <2> QED BY <2>1
<1>12. ASSUME Head(j.phases) = "hashes"
       PROVE  AllHashed(home', store', login', h, k.users \cup Busied(k, StepNames))
  <2>1. AllHashed(home, store, login, h, j.users \cup Busied(j, StepNames))
    BY <1>1, <1>2, <1>5, <1>12, ProgressParts
  <2>2. u \in Busied(k, StepNames) \/ store'[h][u].sha = login'[h][u]
    BY <1>9, <1>11
  <2>3. j.users \cup Busied(j, StepNames) \subseteq (k.users \cup Busied(k, StepNames)) \cup {u}
    BY <1>5, <1>10
  <2> QED BY <1>4, <1>7, <2>1, <2>2, <2>3, HashedThen
<1>13. ASSUME Head(j.phases) = "structure"
       PROVE  InStructure(k, home', store', login', listed, access)
  <2>1. InStructure(j, home, store, login, listed, access)
    BY <1>1, <1>5, <1>13, ProgressParts
  <2>2. t # <<>> /\ Head(t) \in {"append", "collect"} \cup Setting
    <3>1. After("structure") = <<"append">> /\ <<"append">> # <<>> /\ Head(<<"append">>) = "append"
      BY DEF After
    <3> QED BY <1>9, <1>13, <3>1 DEF Setting
  <2>3. AllHashed(home, store, login, h, Busied(j, Setting \cup {"collect"}))
    BY <1>2, <2>1 DEF InStructure
  <2>4. Busied(j, Setting \cup {"collect"}) \subseteq Busied(k, Setting \cup {"collect"}) \cup {u}
    BY <1>10
  <2>5. u \in Busied(k, Setting \cup {"collect"}) \/ store'[h][u].sha = login'[h][u]
    BY <1>9, <1>11
  <2>6. AllHashed(home', store', login', h, Busied(k, Setting \cup {"collect"}))
    BY <1>4, <1>7, <2>3, <2>4, <2>5, HashedThen
  <2>7. \A v \in Users : /\ store'[h][v].keys = store[h][v].keys
                         /\ home[h][v].there => home'[h][v].there
    BY <1>4, <1>7 DEF Got
  <2>8. Head(j.steps) \in {"add", "collect"} \cup Setting /\ Head(j.steps) # "add"
    BY <1>4
  <2> QED BY <1>2, <1>4, <2>1, <2>2, <2>6, <2>7, <2>8, StructureGoes
<1>14. Head(k.phases) = Head(j.phases) /\ Head(k.phases) # "share" /\ k.phases # FromLast
  BY <1>5, <1>6, Stages
<1>15. Progress(k, home', store', login', listed, access, shared)
  BY <1>5, <1>8, <1>12, <1>13, <1>14, ProgressFrom
<1> QED BY <1>3, <1>4, <1>15

(* Root's store has come over: the host knows whose keys there are.        *)
LEMMA SyncsProgress ==
  ASSUME env \in Envs, JobsOK, env' = env, FilesType, ListsType, KeysOK,
         "net" \notin env.events,
         NEW p \in Callers, Syncs(p), job[p].cmd = "regenerate",
         Progress(job[p], home, store, login, listed, access, shared)
  PROVE  Progress(job'[p], home', store', login', listed', access', shared')
<1>1. PICK j \in JobRecord : j = job[p]
  BY DEF JobsOK
<1>2. PICK h \in Hosts : h = j.h
  BY DEF JobRecord
<1>3. PICK k \in JobRecord : k = job'[p]
  BY DEF Syncs, Goes, JobsOK
<1>4. /\ j.steps # <<>> /\ Head(j.phases) = "sync" /\ Later(j, k, <<>>)
      /\ \A g \in Hosts : (\A v \in Users : store'[g][v] = store[g][v]) \/ (g # Root /\ Copies(g))
      /\ h = Root \/ Copies(h)
      /\ UNCHANGED <<home, login, listed, access, shared>>
  BY <1>1, <1>2, <1>3 DEF Syncs, Goes, At
<1>5. Running(env, j) /\ Running(env, k) /\ k.cmd = "regenerate" /\ k.h = h
      /\ k.phases = j.phases /\ k.steps = <<>>
  <2>1. Running(env, j)
    BY <1>1, <1>4, Here1
  <2>2. k.cmd = "regenerate" /\ k.h = h /\ k.phases = j.phases /\ k.steps = <<>>
    BY <1>1, <1>2, <1>4 DEF Later
  <2>3. JobsOK' /\ k # NoJob
    BY <2>2, NoJobType DEF Syncs, Goes
  <2>4. Running(env, k)
    BY <1>3, <2>3 DEF JobsOK
  <2> QED BY <2>1, <2>2, <2>4
<1>6. Root \in Hosts /\ \A v \in Users : store'[Root][v] = store[Root][v]
  BY <1>4, ConstantsAssumption
<1>7. Known(store', h)
  <2>1. CASE h = Root
    BY <2>1 DEF Known
  <2>2. ASSUME Copies(h), NEW v \in Users
        PROVE  store'[h][v].keys = store'[Root][v].keys
    <3>1. store'[h][v] = Copied(store[h][v], store[Root][v])
      BY <2>2 DEF Copies
    <3>2. /\ store[h][v].keys => store[Root][v].keys
          /\ store[Root][v].keys => store[Root][v].there
      BY <1>6 DEF KeysOK
    <3>3. store[h][v].keys \in BOOLEAN /\ store[Root][v].keys \in BOOLEAN
      BY <1>6, EntryType
    <3> QED BY <1>6, <3>1, <3>2, <3>3 DEF Copied
  <2> QED BY <1>4, <2>1, <2>2 DEF Known
<1>8. ASSUME j.phases = FromLast
      PROVE  AtEnd(k, store', login', listed', access', shared')
  <2>1. AtEnd(j, store, login, listed, access, shared)
    BY <1>1, <1>8 DEF Progress
  <2>2. ASSUME NEW c \in Here(k.h)
        PROVE  /\ access'[c] = {u \in listed'[c] : store'[Root][u].keys}
               /\ SharedOK(login', listed', shared', c, k.h)
    <3>1. /\ access[c] = {u \in listed[c] : store[Root][u].keys}
          /\ SharedOK(login, listed, shared, c, k.h)
      BY <1>2, <1>5, <2>1 DEF AtEnd
    <3>2. listed[c] \subseteq Users /\ listed' = listed /\ access' = access
      BY <1>4 DEF ListsType, Here
    <3>3. {u \in listed[c] : store[Root][u].keys} = {u \in listed'[c] : store'[Root][u].keys}
      BY <1>6, <3>2
    <3>4. SharedOK(login', listed', shared', c, k.h)
      BY <1>4, <3>1
    <3> QED BY <3>1, <3>2, <3>3, <3>4
  <2> QED BY <2>2 DEF AtEnd
<1>9. Head(k.phases) = "sync"
  BY <1>4, <1>5
<1>10. Progress(k, home', store', login', listed', access', shared')
  BY <1>5, <1>7, <1>8, <1>9, ProgressFrom
<1> QED BY <1>3, <1>10

LEMMA PlainProgress ==
  ASSUME env \in Envs, JobsOK, env' = env, ListsType, "kill" \notin env.events,
         NEW p \in Callers, Plain(p), job'[p].cmd = "regenerate",
         job[p].cmd = "regenerate" =>
           Progress(job[p], home, store, login, listed, access, shared)
  PROVE  Progress(job'[p], home', store', login', listed', access', shared')
<1> DEFINE Then == Progress(job'[p], home', store', login', listed', access', shared')
<1>1. ASSUME NEW cmd \in Commands, NEW h \in Hosts, NEW u \in Users, NEW C \in SUBSET Containers,
             Command(p, cmd, h, u, C)
      PROVE  Then
  <2>1. PICK k : k = Begun(cmd, h, u, C)
    OBVIOUS
  <2>2. job'[p] = k
    BY <1>1, <2>1, CommandBegins DEF Steps
  <2>3. k.cmd = cmd /\ k.phases = Phases(cmd)
        /\ k.steps = IF cmd = "regenerate" THEN <<"sync">> ELSE <<>>
    BY <2>1 DEF Begun, NoJob
  <2>4. k.phases = FromSync /\ k.steps # <<>>
    BY <2>2, <2>3 DEF Phases, FromSync
  <2> QED BY <2>2, <2>4, Distinct DEF Progress
<1>2. ASSUME job[p].cmd = "regenerate",
             \/ \E u \in Users : NextUser(p, u)
             \/ \E c \in Containers : NextContainer(p, c)
             \/ NextPhase(p)
      PROVE  Then
  <2>1. UNCHANGED <<home, store, login, listed, access, shared>>
    BY <1>2 DEF NextUser, NextContainer, NextPhase
  <2>2. Progress(job'[p], home, store, login, listed, access, shared)
    BY <1>2, NextUserProgress, NextContainerProgress, NextPhaseProgress
  <2> QED BY <2>1, <2>2
<1>3. ASSUME job[p].cmd = "regenerate", Reset(p) \/ AppendKeys(p) \/ Share(p)
      PROVE  Then
  BY <1>3, ResetProgress, AppendProgress, ShareProgress
<1>4. ASSUME \/ \E u \in Users : NextUser(p, u)
             \/ \E c \in Containers : NextContainer(p, c)
             \/ NextPhase(p) \/ List(p) \/ Reset(p) \/ AppendKeys(p) \/ Share(p)
      PROVE  job[p].cmd = "regenerate" /\ ~List(p)
  <2>1. PICK j \in JobRecord : j = job[p]
    BY DEF JobsOK
  <2>2. j.cmd # "none"
    <3>1. CASE j.steps # <<>>
      BY <2>1, <3>1, Here1 DEF Commands
    <3>2. CASE j.users # {} \/ j.containers # {}
      BY <2>1, <3>2, Between DEF Commands
    <3>3. CASE j.steps = <<>> /\ j.users = {} /\ j.containers = {}
      BY <1>4, <2>1, <3>3 DEF NextUser, NextContainer, NextPhase, List, Reset, AppendKeys, Share, At
    <3> QED BY <3>1, <3>2, <3>3
  <2>3. Idle(p)
    BY <1>4, PlainIdle DEF Plain, ListsType
  <2>4. j.cmd = "regenerate"
    <3>1. CASE job'[p].cmd = j.cmd
      BY <3>1
    <3>2. CASE NextPhase(p) /\ job'[p].cmd # j.cmd
      <4>1. job'[p] # NoJob
        BY NoJobType
      <4>2. \/ job' = [job EXCEPT ![p] = NoJob]
            \/ j.cmd = "regenerate"
        BY <2>1, <3>2, NextPhaseSteps
      <4> QED BY <4>1, <4>2 DEF JobsOK
    <3> QED BY <2>1, <2>2, <2>3, <3>1, <3>2 DEF Idle
  <2>5. List(p) => j.cmd = "add-user"
    BY <2>1, ListSteps
  <2> QED BY <2>1, <2>4, <2>5
<1>5. ~Kill(p)
  BY DEF Kill
<1> HIDE DEF Then
<1>6. Then
  BY <1>1, <1>2, <1>3, <1>4, <1>5 DEF Plain
<1> QED BY <1>6 DEF Then

LEMMA ProgressStep ==
  ASSUME TypeOK, JobsOK, SetsOK, MatchOK, SoundOK, Apart, KeysOK, ProgressOK, env' = env, Moves
  PROVE  ProgressOK'
<1>0. FilesType /\ env \in Envs /\ ListsType
  BY TypeParts DEF TypeOK, ListsType
<1> DEFINE Then(p) == Progress(job'[p], home', store', login', listed', access', shared')
<1> SUFFICES ASSUME Orderly, NEW p \in Callers, job'[p].cmd = "regenerate"
             PROVE  Then(p)
  BY DEF ProgressOK, Orderly, Single
<1>1. job[p].cmd = "regenerate" => Progress(job[p], home, store, login, listed, access, shared)
  BY DEF ProgressOK
<1>2. /\ Single /\ Steady /\ KillFree /\ Careful
      /\ "kill" \notin env.events /\ "net" \notin env.events /\ "meanwhile" \notin env.events
  BY DEF Orderly, Steady, KillFree, Careful
<1>3. ASSUME NEW q \in Callers, q # p, \A r \in Callers : r # q => job'[r] = job[r],
             Plain(q) \/ Written(q) \/ Syncs(q) \/ \E u, w, t : Collects(q, u, w, t)
      PROVE  FALSE
  <2>1. job[p].cmd # "none"
    BY <1>3
  <2> QED BY <1>0, <1>2, <1>3, <2>1, OnlyMe
<1>4. ASSUME NEW q \in Callers, Plain(q), Idle(q)
      PROVE  Then(p)
  <2>1. \A r \in Callers : r # q => job'[r] = job[r]
    BY <1>4 DEF Idle
  <2>2. q = p
    BY <1>3, <1>4, <2>1
  <2> QED BY <1>0, <1>1, <1>2, <1>4, <2>2, PlainProgress
<1>5. ASSUME NEW q \in Callers, Written(q)
      PROVE  Then(p)
  <2>1. Goes(q, job'[q].steps)
    BY <1>5 DEF Written, Writes, Goes, Later
  <2>2. q = p /\ job[p].cmd = "regenerate"
    BY <1>3, <1>5, <2>1 DEF Goes, Later
  <2> QED BY <1>0, <1>1, <1>2, <1>5, <2>2, WrittenProgress
<1>6. ASSUME NEW q \in Callers, NEW u, NEW w, NEW t, Collects(q, u, w, t)
      PROVE  Then(p)
  <2>1. Goes(q, t)
    BY <1>6 DEF Collects
  <2>2. q = p /\ job[p].cmd = "regenerate"
    BY <1>3, <1>6, <2>1 DEF Goes, Later
  <2> QED BY <1>0, <1>1, <1>2, <1>6, <2>2, CollectsProgress
<1>7. ASSUME NEW q \in Callers, Syncs(q)
      PROVE  Then(p)
  <2>1. Goes(q, <<>>)
    BY <1>7 DEF Syncs
  <2>2. q = p /\ job[p].cmd = "regenerate"
    BY <1>3, <1>7, <2>1 DEF Goes, Later
  <2> QED BY <1>0, <1>1, <1>2, <1>7, <2>2, SyncsProgress
<1>8. ASSUME Active = {}, UNCHANGED job
      PROVE  FALSE
  BY <1>8 DEF Active
<1>9. ASSUME NEW g \in Hosts, NEW v \in Users, NEW w \in Passwords, Edits(g, v, w)
      PROVE  Then(p)
  BY <1>2, <1>8, <1>9 DEF Edits
<1>10. ASSUME NEW c \in Containers, NEW v \in Users, Relist(c, v)
       PROVE  Then(p)
  BY <1>2, <1>8, <1>10 DEF Relist
<1>11. ASSUME UNCHANGED vars
       PROVE  Then(p)
  BY <1>1, <1>11 DEF vars
<1> HIDE DEF Then
<1> QED BY <1>4, <1>5, <1>6, <1>7, <1>9, <1>10, <1>11, Zenon DEF Moves

-----------------------------------------------------------------------------
(* The invariant.                                                          *)
LEMMA InvInit == Init => Inv
<1> SUFFICES ASSUME Init PROVE Inv
  OBVIOUS
<1>1. /\ env \in Envs /\ Root \in Hosts /\ job = [p \in Callers |-> NoJob]
      /\ \A h \in Hosts, u \in Users :
           home[h][u] = NoHome /\ store[h][u] = NoStore /\ login[h][u] = None
  BY ConstantsAssumption DEF Init
<1>2. \A p \in Callers : job[p] = NoJob
  BY <1>1
<1>3. /\ NoHome.there = FALSE /\ NoHome.password = None /\ NoHome.sha = None
      /\ NoStore.there = FALSE /\ NoStore.keys = FALSE /\ NoStore.passcode = None
      /\ NoStore.password = None /\ NoStore.sha = None /\ NoStore.mark = None
  BY DEF NoHome, NoStore
<1>4. None \in Word /\ None \notin Passwords
  BY ConstantsAssumption DEF Word
<1>5. \A p \in Callers, X \in SUBSET StepNames : ~First(job[p], X)
  BY <1>2, NoJobType, NotFirst
<1>6. Setting \in SUBSET StepNames
  BY DEF Setting, StepNames
<1>7. TypeOK
  <2>1. NoHome \in [there : BOOLEAN, password : Word, sha : Word]
    BY <1>4 DEF NoHome
  <2>2. NoStore \in [there : BOOLEAN, passcode : Word, password : Word, sha : Word,
                     mark : Word, keys : BOOLEAN]
    BY <1>4 DEF NoStore
  <2>3. \A p \in Callers : job[p].password \in Word /\ job[p].cur \in Word
    BY <1>2, <1>4 DEF NoJob
  <2> QED BY <1>1, <1>4, <2>1, <2>2, <2>3 DEF Init, TypeOK
<1>8. JobsOK
  BY <1>1, <1>2, NoJobType DEF JobsOK
<1>9. SetsOK
  BY <1>5, <1>6 DEF SetsOK
<1>10. MatchOK
  BY <1>1, <1>3 DEF MatchOK, Matches
<1>11. OneSource
  BY <1>1, <1>3, <1>5, <1>6 DEF OneSource, FromRoot
<1>12. SoundOK
  BY <1>1, <1>3 DEF SoundOK, Sound
<1>13. Apart
  <2>1. \A u \in Users : \A w : Has(u, w) => w = None
    BY <1>1, <1>3 DEF Has, WordsOf
  <2> QED BY <1>4, <2>1 DEF Apart
<1>14. KeysOK
  BY <1>1, <1>3 DEF KeysOK
<1>15. ProgressOK
  BY <1>2, NoJobType DEF ProgressOK
<1> QED BY <1>7, <1>8, <1>9, <1>10, <1>11, <1>12, <1>13, <1>14, <1>15 DEF Inv

LEMMA InvNext == Inv /\ [Next]_vars => Inv'
<1> SUFFICES ASSUME Inv, [Next]_vars PROVE Inv'
  OBVIOUS
<1>1. /\ TypeOK /\ JobsOK /\ SetsOK /\ MatchOK /\ OneSource /\ SoundOK /\ Apart
      /\ KeysOK /\ ProgressOK
  BY DEF Inv
<1>2. env' = env /\ Moves
  BY <1>1, NextMoves
<1>3. TypeOK' /\ JobsOK'
  BY <1>1, <1>2, TypeStep
<1>4. KeysOK' /\ SetsOK' /\ MatchOK' /\ SoundOK'
  BY <1>1, <1>2, KeysStep, SetsStep, MatchStep, SoundStep
<1>5. OneSource'
  BY <1>1, <1>2, OneSourceStep
<1>6. Apart'
  BY <1>1, <1>2, <1>3, ApartStep
<1>7. ProgressOK'
  BY <1>1, <1>2, ProgressStep
<1> QED BY <1>3, <1>4, <1>5, <1>6, <1>7 DEF Inv

LEMMA SpecInv == Spec => []Inv
BY InvInit, InvNext, PTL DEF Spec

LEMMA InvUsers == Inv => UsersInv
<1> SUFFICES ASSUME Inv PROVE UsersInv
  OBVIOUS
<1>1. env \in Envs
  BY TypeParts DEF Inv
<1>2. LoginMatches
  <2> SUFFICES ASSUME Quiet, Single, env.events \cap {"kill", "edit"} = {},
                      NEW h \in Hosts, NEW u \in Users, store[h][u].mark # None
               PROVE  /\ login[h][u] = store[h][u].mark
                      /\ home[h][u].password = login[h][u]
                      /\ home[h][u].sha = login[h][u]
    BY DEF LoginMatches
  <2>1. \A q \in Callers : job[q].steps = <<>>
    BY <1>1, Idling DEF Inv, Quiet
  <2>2. \A X : ~Busy(h, u, X)
    BY <2>1, NotFirst DEF Busy
  <2>3. KillFree /\ "edit" \notin env.events
    BY DEF KillFree
  <2>4. Matches(home[h][u], store[h][u], login[h][u]) /\ home[h][u].password = login[h][u]
    BY <2>2, <2>3 DEF Inv, MatchOK
  <2> QED BY <2>4 DEF Matches
<1>3. SamePassword
  BY DEF Inv, SamePassword, OneSource, FromRoot
<1> QED BY <1>2, <1>3 DEF Inv, UsersInv

-----------------------------------------------------------------------------
(* Types; logins, marks, passwords and hashes that go together when no     *)
(* command runs; and one password for a user on all hosts: in every state, *)
(* for any hosts, users and containers.                                    *)
THEOREM UsersSafe == Spec => []UsersInv
BY SpecInv, InvUsers, PTL

(* A list of steps that goes on with a new password is a longer one.       *)
LEMMA LongerLists ==
  ASSUME NEW phase \in PhaseNames, NEW s \in Left(phase), NEW t \in Left(phase),
         s # <<>>, Head(s) = "collect", t # <<>>, Head(t) = "passwd"
  PROVE  ~(Len(t) < Len(s))
<1>1. /\ \A x : Len(<<x>>) = 1
      /\ \A x, y : Len(<<x, y>>) = 2
      /\ \A x, y, z, a : Len(<<x, y, z, a>>) = 4
      /\ \A x, y, z, a, b : Len(<<x, y, z, a, b>>) = 5
  OBVIOUS
<1>2. Len(s) \in {1, 2}
  BY <1>1, FirstSteps DEF Left, PhaseNames
<1>3. Len(t) \in {4, 5}
  BY <1>1, FirstSteps DEF Left, PhaseNames
<1>4. \A a \in {1, 2} : \A b \in {4, 5} : ~(b < a)
  OBVIOUS
<1> QED BY <1>2, <1>3, <1>4

(* The length of what is left.                                             *)
LEMMA LeftLength ==
  ASSUME NEW phase \in PhaseNames, NEW s \in Left(phase)
  PROVE  Len(s) \in Nat
BY DEF Left, PhaseNames

LEMMA StepRepairs ==
  ASSUME Inv, Inv', [Next]_vars, NEW p \in Callers, Careful, At(p, "collect") \/ At(p, "save"),
         job'[p].cmd # "none", Len(job'[p].steps) < Len(job[p].steps),
         NEW u \in job[p].u, home'[job[p].h][u].password # None
  PROVE  login'[job[p].h][u] = home'[job[p].h][u].password
<1> DEFINE Then == login'[job[p].h][u] = home'[job[p].h][u].password
<1>0. TypeOK /\ JobsOK /\ SetsOK /\ Apart /\ SoundOK' /\ env \in Envs /\ FilesType
  BY TypeParts DEF Inv
<1>1. env' = env /\ Moves
  BY <1>0, NextMoves
<1>2. PICK j \in JobRecord : j = job[p]
  BY <1>0 DEF JobsOK
<1>3. /\ j.steps # <<>> /\ Head(j.steps) \in {"collect", "save"} /\ Running(env, j)
      /\ Head(j.phases) \in PhaseNames /\ j.steps \in Left(Head(j.phases)) /\ j.cmd # "none"
  <2>1. j.steps # <<>> /\ Head(j.steps) \in {"collect", "save"}
    BY <1>2 DEF At
  <2> QED BY <1>0, <1>2, <2>1, Here1 DEF Running, Commands
<1>4. job'[p] # job[p]
  <2>1. Len(j.steps) \in Nat
    BY <1>3, LeftLength
  <2> QED BY <1>2, <2>1
<1>5. Steady
  BY DEF Careful, Steady
<1>6. ASSUME NEW q \in Callers, Plain(q), Idle(q)
      PROVE  Then
  <2>1. q = p
    BY <1>4, <1>6 DEF Idle
  <2>2. ~Kill(p)
    BY NoJobType, <1>0 DEF Kill, JobsOK
  <2>3. \A cmd, h, v, C : ~Command(p, cmd, h, v, C)
    BY <1>2, <1>3 DEF Command
  <2>4. /\ \A v \in Users : ~NextUser(p, v)
        /\ \A c \in Containers : ~NextContainer(p, c)
        /\ ~NextPhase(p)
    BY <1>2, <1>3 DEF NextUser, NextContainer, NextPhase
  <2>5. ~List(p) /\ ~Reset(p) /\ ~AppendKeys(p) /\ ~Share(p)
    BY <1>2, <1>3 DEF List, Reset, AppendKeys, Share, At
  <2> QED BY <1>6, <2>1, <2>2, <2>3, <2>4, <2>5 DEF Plain
<1>7. ASSUME NEW q \in Callers, Written(q)
      PROVE  Then
  <2>1. PICK x \in Writing, v \in Users : \E w, t : Writes(q, x, v, w, t)
    BY <1>7 DEF Written
  <2>2. PICK w, t : Writes(q, x, v, w, t)
    BY <2>1
  <2>3. q = p
    BY <1>4, <2>2 DEF Writes, Goes
  <2>4. x = "save"
    BY <1>2, <1>3, <2>2, <2>3 DEF Writes, At, Writing
  <2>5. u = v
    BY <2>2, <2>3 DEF Writes
  <2>6. SetOK("save", j.password, home[j.h][u], store[j.h][u], login[j.h][u])
    BY <1>0, <1>2, <1>5, <2>2, <2>3, <2>4 DEF SetsOK, First, Setting, Writes, At
  <2>7. home'[j.h][u].password = j.password /\ login'[j.h][u] = login[j.h][u]
    BY <1>2, <2>2, <2>3, <2>4, <2>5 DEF Writes, Wrote
  <2> QED BY <1>2, <2>6, <2>7 DEF SetOK
<1>8. ASSUME NEW q \in Callers, NEW v, NEW w, NEW t, Collects(q, v, w, t)
      PROVE  Then
  <2>1. q = p
    BY <1>4, <1>8 DEF Collects, Goes
  <2>2. u = v /\ v \in Users /\ j.h \in Hosts
    BY <1>2, <1>8, <2>1 DEF Collects
  <2>3. PICK k : k = Kept(j.h, home[j.h][u], store[j.h][u], w)
    OBVIOUS
  <2>4. /\ Head(j.steps) = "collect" /\ t \in Left(Head(j.phases)) /\ job'[p].steps = t
        /\ w \in NewPasscodes(j.h, u)
        /\ home'[j.h][u].password = k /\ store'[j.h][u].mark = store[j.h][u].mark
        /\ IsNew(j.h, home[j.h][u], store[j.h][u], w, j.cur) => t # <<>> /\ Head(t) = "passwd"
    BY <1>2, <1>8, <2>1, <2>2, <2>3 DEF Collects, At, Goes, Later, Got, First
  <2>5. ~IsNew(j.h, home[j.h][u], store[j.h][u], w, j.cur)
    BY <1>2, <1>3, <2>4, LongerLists
  <2>6. store[j.h][u].mark # None /\ k = store[j.h][u].mark
    BY <1>0, <1>2, <2>2, <2>3, <2>4, <2>5, CollectKept
  <2>7. Sound(home'[j.h][u], store'[j.h][u], login'[j.h][u])
    BY <1>0, <1>1, <2>2 DEF SoundOK, Careful, Single
  <2> QED BY <1>2, <2>4, <2>6, <2>7 DEF Sound
<1>9. ASSUME NEW q \in Callers, Syncs(q)
      PROVE  Then
  <2>1. q = p
    BY <1>4, <1>9 DEF Syncs, Goes
  <2> QED BY <1>2, <1>3, <1>9, <2>1 DEF Syncs, At
<1>10. ASSUME NEW h \in Hosts, NEW v \in Users, NEW w \in Passwords, Edits(h, v, w)
       PROVE  Then
  BY <1>4, <1>10 DEF Edits
<1>11. ASSUME NEW c \in Containers, NEW v \in Users, Relist(c, v)
       PROVE  Then
  BY <1>4, <1>11 DEF Relist
<1>12. ASSUME UNCHANGED vars
       PROVE  Then
  BY <1>4, <1>12 DEF vars
<1> HIDE DEF Then
<1>13. Then
  BY <1>1, <1>6, <1>7, <1>8, <1>9, <1>10, <1>11, <1>12, Zenon DEF Moves
<1> QED BY <1>13 DEF Then

(* Wherever commands were killed, the next update of a password that comes *)
(* to its end leaves a login that is the password in the home.             *)
THEOREM RepairedSafe == Spec => Repaired
<1> DEFINE Repairs == \A p \in Callers :
       /\ Single /\ env.events \cap {"same", "meanwhile"} = {}
       /\ At(p, "collect") \/ At(p, "save")
       /\ job'[p].cmd # "none" /\ Len(job'[p].steps) < Len(job[p].steps)
       => \A u \in job[p].u :
            home'[job[p].h][u].password # None
              => login'[job[p].h][u] = home'[job[p].h][u].password
<1>1. Inv /\ Inv' /\ [Next]_vars => Repairs
  BY StepRepairs DEF Careful
<1>2. Inv /\ Inv' /\ [Next]_vars => [Repairs]_vars
  BY <1>1
<1>3. Spec => []Inv
  BY SpecInv
<1>4. Spec => [][Repairs]_vars
  <2> HIDE DEF Repairs
  <2> QED BY <1>2, <1>3, PTL DEF Spec
<1> QED BY <1>4 DEF Repaired

LEMMA StepAdmits ==
  ASSUME Inv, [Next]_vars, NEW p \in Callers, Orderly,
         job[p].cmd = "regenerate", job'[p].cmd = "none"
  PROVE  AtEnd(job[p], store, login, listed, access, shared)
<1>0. TypeOK /\ JobsOK /\ ProgressOK /\ env \in Envs /\ FilesType
  BY TypeParts DEF Inv
<1>1. env' = env /\ Moves
  BY <1>0, NextMoves
<1>2. job'[p] # job[p]
  OBVIOUS
<1> SUFFICES job[p].phases = FromLast
  BY <1>0 DEF ProgressOK, Progress
<1> DEFINE Last == job[p].phases = FromLast
<1>3. ASSUME NEW q \in Callers, Plain(q), Idle(q)
      PROVE  Last
  <2>1. q = p
    BY <1>2, <1>3 DEF Idle
  <2> QED BY <1>3, <2>1 DEF Idle, Orderly
<1>4. ASSUME NEW q \in Callers, Written(q)
      PROVE  Last
  <2>1. \E t : Goes(q, t)
    BY <1>4 DEF Written, Writes
  <2> QED BY <1>2, <2>1 DEF Goes, Later
<1>5. ASSUME NEW q \in Callers, NEW u, NEW w, NEW t, Collects(q, u, w, t)
      PROVE  Last
  BY <1>2, <1>5 DEF Collects, Goes, Later
<1>6. ASSUME NEW q \in Callers, Syncs(q)
      PROVE  Last
  BY <1>2, <1>6 DEF Syncs, Goes, Later
<1>7. ASSUME NEW h \in Hosts, NEW u \in Users, NEW w \in Passwords, Edits(h, u, w)
      PROVE  Last
  BY <1>2, <1>7 DEF Edits
<1>8. ASSUME NEW c \in Containers, NEW u \in Users, Relist(c, u)
      PROVE  Last
  BY <1>2, <1>8 DEF Relist
<1>9. ASSUME UNCHANGED vars
      PROVE  Last
  BY <1>2, <1>9 DEF vars
<1> HIDE DEF Last
<1>10. Last
  BY <1>1, <1>3, <1>4, <1>5, <1>6, <1>7, <1>8, <1>9, Zenon DEF Moves
<1> QED BY <1>10 DEF Last

(* A regenerate that ends leaves containers of its host that admit exactly *)
(* the listed users whose keys Root has, with the hashes of their logins.  *)
THEOREM AccessSafe == Spec => AccessListed
<1> DEFINE Admitted == \A p \in Callers :
       /\ Single /\ env.events \cap {"net", "kill", "same", "meanwhile"} = {}
       /\ job[p].cmd = "regenerate" /\ job'[p].cmd = "none"
       => \A c \in Here(job[p].h) :
            /\ access[c] = {u \in listed[c] : store[Root][u].keys}
            /\ \A u \in Users :
                 shared[c][u] = IF u \in listed[c] THEN login[job[p].h][u]
                                ELSE None
<1>1. Inv /\ [Next]_vars => Admitted
  BY StepAdmits DEF Orderly, AtEnd, SharedOK
<1>2. Inv /\ [Next]_vars => [Admitted]_vars
  BY <1>1
<1>3. Spec => []Inv
  BY SpecInv
<1>4. Spec => [][Admitted]_vars
  <2> HIDE DEF Admitted
  <2> QED BY <1>2, <1>3, PTL DEF Spec
<1> QED BY <1>4 DEF AccessListed
=============================================================================
