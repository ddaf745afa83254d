---------------------------- MODULE ClusterProofs ----------------------------
(***************************************************************************)
(* Theorems about Cluster, for any hosts, names and circumstances: a name  *)
(* is on one host and its zone has one master, an add does not stop half   *)
(* way, and a regenerate that was not disturbed knows the whole cluster.   *)
(***************************************************************************)
EXTENDS Cluster, FiniteSetTheorems, SequenceTheorems, TLAPS

Commands == {"add", "remove", "regenerate"}

Word == {"check", "mkdir", "append", "rm", "finish", "truncate", "write", "pull",
         "combine", "empty", "zones", "delete", "publish", "fetch", "restart"}

(* The steps of the commands, written out.                                 *)
AddHosts == <<"check", "mkdir", "truncate", "write", "pull", "combine", "empty", "zones",
              "delete", "publish", "fetch", "restart", "finish">>
AddRelay == <<"check", "mkdir", "empty", "zones", "delete", "publish", "fetch", "restart",
              "finish", "truncate", "write", "pull", "combine">>
AddSsh   == <<"check", "mkdir", "append", "empty", "zones", "delete", "publish", "fetch",
              "restart", "finish">>
RemoveFiles == <<"rm", "truncate", "write", "pull", "combine", "empty", "zones", "delete",
                 "publish", "fetch", "restart">>
RemoveSsh   == <<"rm", "empty", "zones", "delete", "publish", "fetch", "restart">>
Regenerate  == <<"truncate", "write", "pull", "combine", "empty", "zones", "delete",
                 "publish", "fetch", "restart">>

(* What a command has still to do is the end of its program.               *)
Suffix(s, S) == \E n \in 1 .. Len(S) + 1 : s = SubSeq(S, n, Len(S))
Rest(s) == {s[i] : i \in 1 .. Len(s)}
Left(p) == Rest(job[p].steps)

(* It is done in order: what comes later is left as long as what comes     *)
(* before it is.                                                           *)
InOrder(L, cmd, kind) ==
  /\ "check" \in L => "mkdir" \in L
  /\ "mkdir" \in L =>
       /\ cmd = "add" /\ "empty" \in L /\ "finish" \in L
       /\ IF kind = "ssh_config" THEN "append" \in L ELSE "write" \in L
  /\ "rm" \in L => /\ cmd = "remove" /\ "empty" \in L
                   /\ kind = "ssh_config" \/ "write" \in L
  /\ "append" \in L => cmd = "add" /\ kind = "ssh_config" /\ "write" \notin L
  /\ "finish" \in L => cmd = "add"
  /\ "truncate" \in L => "write" \in L
  /\ "write" \in L => "pull" \in L
  /\ "pull" \in L => "combine" \in L
  /\ cmd = "regenerate" /\ "combine" \in L => "empty" \in L
  /\ "empty" \in L => "zones" \in L
  /\ "zones" \in L => "delete" \in L
  /\ "delete" \in L => "publish" \in L
  /\ "publish" \in L => "fetch" \in L
  /\ "fetch" \in L => "restart" \in L

(* And what is done next, x, comes after what is not left.                 *)
NextUp(x, L) ==
  /\ x \in L
  /\ x # "check" => "check" \notin L
  /\ x = "finish" => "mkdir" \notin L
  /\ x = "truncate" => "mkdir" \notin L
  /\ x = "write" => "truncate" \notin L
  /\ x = "pull" => "write" \notin L
  /\ x = "combine" => "pull" \notin L
  /\ x \in {"truncate", "write", "pull", "combine", "append", "finish"} =>
       "empty" \in L \/ "restart" \notin L
  /\ x = "zones" => "empty" \notin L
  /\ x = "delete" => "zones" \notin L
  /\ x = "publish" => "delete" \notin L
  /\ x = "fetch" => "publish" \notin L
  /\ x = "restart" => "fetch" \notin L

-----------------------------------------------------------------------------
(* u is s followed by t, index by index.                                   *)
Glue(s, t, u) ==
  /\ s \in Seq(Word) /\ t \in Seq(Word) /\ u \in Seq(Word)
  /\ Len(u) = Len(s) + Len(t)
  /\ \A i \in 1 .. Len(u) : u[i] = IF i <= Len(s) THEN s[i] ELSE t[i - Len(s)]

(* Two literal programs glued together are the literal program.            *)
LEMMA Glued ==
  ASSUME NEW s, NEW t, NEW u, Glue(s, t, u)
  PROVE  s \o t = u
<1>1. PICK st : st = s \o t
  OBVIOUS
<1>2. /\ st \in Seq(Word) /\ Len(st) = Len(s) + Len(t)
      /\ \A i \in 1 .. Len(st) : st[i] = IF i <= Len(s) THEN s[i] ELSE t[i - Len(s)]
  BY <1>1, ConcatProperties DEF Glue
<1>3. st = u
  BY <1>2, SeqEqual DEF Glue
<1> QED BY <1>1, <1>3

(* The programs are those of Steps.                                        *)
LEMMA AddPrograms ==
  /\ Steps("add", "etchosts") = AddHosts
  /\ Steps("add", "relaydomains") = AddRelay
  /\ Steps("add", "ssh_config") = AddSsh
<1> DEFINE a == <<"check", "mkdir">>
           b == <<"check", "mkdir", "truncate", "write", "pull", "combine">>
           c == <<"check", "mkdir", "truncate", "write", "pull", "combine", "empty", "zones",
                  "delete", "publish", "fetch", "restart">>
           d == <<"check", "mkdir", "empty", "zones", "delete", "publish", "fetch", "restart">>
           e == <<"check", "mkdir", "empty", "zones", "delete", "publish", "fetch", "restart",
                  "finish">>
           f == <<"check", "mkdir", "append">>
           g == <<"check", "mkdir", "append", "empty", "zones", "delete", "publish", "fetch",
                  "restart">>
<1>1. /\ Glue(a, Share, b) /\ Glue(b, Dns, c) /\ Glue(c, <<"finish">>, AddHosts)
      /\ Glue(AddHosts, <<>>, AddHosts)
  BY DEF Glue, Word, Share, Dns, AddHosts
<1>2. /\ Glue(a, <<>>, a) /\ Glue(a, Dns, d) /\ Glue(d, <<"finish">>, e)
      /\ Glue(e, Share, AddRelay)
  BY DEF Glue, Word, Share, Dns, AddRelay
<1>3. /\ Glue(a, <<"append">>, f) /\ Glue(f, Dns, g) /\ Glue(g, <<"finish">>, AddSsh)
      /\ Glue(AddSsh, <<>>, AddSsh)
  BY DEF Glue, Word, Dns, AddSsh
<1>4. /\ Steps("add", "etchosts") = a \o Share \o Dns \o <<"finish">> \o <<>>
      /\ Steps("add", "relaydomains") = a \o <<>> \o Dns \o <<"finish">> \o Share
      /\ Steps("add", "ssh_config") = a \o <<"append">> \o Dns \o <<"finish">> \o <<>>
  BY DEF Steps
<1> HIDE DEF a, b, c, d, e, f, g
<1>5. /\ a \o Share = b /\ b \o Dns = c /\ c \o <<"finish">> = AddHosts
      /\ AddHosts \o <<>> = AddHosts
  BY <1>1, Glued, Zenon
<1>6. /\ a \o <<>> = a /\ a \o Dns = d /\ d \o <<"finish">> = e /\ e \o Share = AddRelay
  BY <1>2, Glued, Zenon
<1>7. /\ a \o <<"append">> = f /\ f \o Dns = g /\ g \o <<"finish">> = AddSsh
      /\ AddSsh \o <<>> = AddSsh
  BY <1>3, Glued, Zenon
<1> QED BY <1>4, <1>5, <1>6, <1>7

(* The programs of remove and regenerate, written out.                     *)
LEMMA OtherPrograms ==
  /\ \A kind \in {"etchosts", "relaydomains"} : Steps("remove", kind) = RemoveFiles
  /\ Steps("remove", "ssh_config") = RemoveSsh
  /\ \A kind : Steps("regenerate", kind) = Regenerate
<1> DEFINE a == <<"rm">>
           b == <<"rm", "truncate", "write", "pull", "combine">>
<1>1. /\ Glue(a, Share, b) /\ Glue(b, Dns, RemoveFiles)
      /\ Glue(a, <<>>, a) /\ Glue(a, Dns, RemoveSsh) /\ Glue(Share, Dns, Regenerate)
  BY DEF Glue, Word, Share, Dns, RemoveFiles, RemoveSsh, Regenerate
<1>2. /\ \A kind \in {"etchosts", "relaydomains"} : Steps("remove", kind) = a \o Share \o Dns
      /\ Steps("remove", "ssh_config") = a \o <<>> \o Dns
      /\ \A kind : Steps("regenerate", kind) = Share \o Dns
  BY DEF Steps
<1> HIDE DEF a, b
<1>3. /\ a \o Share = b /\ b \o Dns = RemoveFiles /\ a \o <<>> = a
      /\ a \o Dns = RemoveSsh /\ Share \o Dns = Regenerate
  BY <1>1, Glued, Zenon
<1> QED BY <1>2, <1>3

(* Every program is a sequence of steps.                                   *)
LEMMA StepsType ==
  ASSUME NEW cmd \in Commands, NEW kind \in Kinds
  PROVE  Steps(cmd, kind) \in Seq(Word)
<1>1. /\ AddHosts \in Seq(Word) /\ AddRelay \in Seq(Word) /\ AddSsh \in Seq(Word)
      /\ RemoveFiles \in Seq(Word) /\ RemoveSsh \in Seq(Word) /\ Regenerate \in Seq(Word)
  BY DEF Word, AddHosts, AddRelay, AddSsh, RemoveFiles, RemoveSsh, Regenerate
<1> QED BY <1>1, AddPrograms, OtherPrograms DEF Commands, Kinds

(* L holds the steps of S from the n-th on.                                *)
From(L, S, n) == \A w : w \in L <=> \E j \in n .. Len(S) : w = S[j]

(* Where in a program S the command is that has s to do.                   *)
LEMMA SuffixOf ==
  ASSUME NEW S \in Seq(Word), NEW n \in 1 .. Len(S) + 1,
         NEW s, s = SubSeq(S, n, Len(S))
  PROVE  /\ s = <<>> => n = Len(S) + 1
         /\ From(Rest(s), S, n)
         /\ s # <<>> => /\ n <= Len(S) /\ Head(s) = S[n]
                        /\ Tail(s) = SubSeq(S, n + 1, Len(S))
<1>1. Len(S) \in Nat /\ n \in Nat /\ \A i \in n .. Len(S) : S[i] \in Word
  OBVIOUS
<1>2. /\ s \in Seq(Word)
      /\ n <= Len(S) => Len(s) = Len(S) - n + 1
      /\ n > Len(S) => Len(s) = 0
      /\ \A i \in 1 .. Len(S) - n + 1 : s[i] = S[n + i - 1]
  BY <1>1, SubSeqProperties
<1>3. s = <<>> => n = Len(S) + 1
  BY <1>1, <1>2
<1>4. s # <<>> => n <= Len(S) /\ Head(s) = S[n] /\ Tail(s) = SubSeq(S, n + 1, Len(S))
  <2>1. s # <<>> => n <= Len(S)
    BY <1>1, <1>2
  <2>2. n <= Len(S) => n \in 1 .. Len(S) /\ Len(S) \in n .. Len(S)
    BY <1>1
  <2> QED BY <2>1, <2>2, HeadTailOfSubSeq
<1>5. ASSUME NEW w, NEW j \in n .. Len(S), w = S[j]
      PROVE  w \in Rest(s)
  <2>1. j - n + 1 \in 1 .. Len(S) - n + 1 /\ s[j - n + 1] = S[j]
    BY <1>1, <1>2
  <2>2. j - n + 1 \in 1 .. Len(s)
    BY <1>1, <1>2
  <2> QED BY <2>1, <2>2, <1>5 DEF Rest
<1>6. ASSUME NEW w, w \in Rest(s)
      PROVE  \E j \in n .. Len(S) : w = S[j]
  <2>1. PICK i \in 1 .. Len(s) : w = s[i]
    BY <1>6 DEF Rest
  <2>2. n + i - 1 \in n .. Len(S) /\ i \in 1 .. Len(S) - n + 1
    BY <1>1, <1>2
  <2> QED BY <2>1, <2>2, <1>2
<1> QED BY <1>3, <1>4, <1>5, <1>6 DEF From

(* The order of the steps, from the programs as they are written out.      *)
LEMMA Order ==
  ASSUME NEW cmd \in Commands, NEW kind \in Kinds,
         NEW S, S = Steps(cmd, kind), NEW n \in 1 .. Len(S) + 1,
         NEW L, From(L, S, n)
  PROVE  /\ InOrder(L, cmd, kind)
         /\ n <= Len(S) => NextUp(S[n], L)
         /\ \A j \in n + 1 .. Len(S) : S[j] # S[n]
         /\ n = 1 => /\ "empty" \in L
                     /\ cmd = "add" => "check" \in L
                     /\ cmd = "regenerate" => "write" \in L
                     /\ "write" \in L => "truncate" \in L
<1>all. n = 1 => \A w : w \in L <=> \E j \in 1 .. Len(S) : w = S[j]
  BY DEF From
<1>0. n = 1 => \A j \in 1 .. Len(S) : S[j] \in L
  BY <1>all
<1> USE DEF From
<1>1. CASE cmd = "add" /\ kind = "etchosts"
  <2>1. S = AddHosts
    BY <1>1, AddPrograms
  <2>2. Len(S) = 13 /\ S \in Seq(Word)
    BY <2>1 DEF AddHosts, Word
  <2>s. /\ S[1] = "check" /\ S[2] = "mkdir" /\ S[3] = "truncate" /\ S[4] = "write"
        /\ S[5] = "pull" /\ S[6] = "combine" /\ S[7] = "empty" /\ S[8] = "zones"
        /\ S[9] = "delete"
        /\ S[10] = "publish" /\ S[11] = "fetch" /\ S[12] = "restart" /\ S[13] = "finish"
    BY <2>1 DEF AddHosts
  <2>3. \A j \in n + 1 .. Len(S) : S[j] # S[n]
    BY <2>1, <2>2 DEF AddHosts
  <2>4. n <= Len(S) => NextUp(S[n], L)
    BY <2>1, <2>2 DEF AddHosts, NextUp
  <2>5. InOrder(L, cmd, kind)
    <3>1. /\ ("check" \in L <=> n <= 1) /\ ("mkdir" \in L <=> n <= 2)
          /\ ("truncate" \in L <=> n <= 3)
      BY <2>2, <2>s
    <3>2. /\ ("write" \in L <=> n <= 4) /\ ("pull" \in L <=> n <= 5)
          /\ ("combine" \in L <=> n <= 6)
      BY <2>2, <2>s
    <3>3. /\ ("empty" \in L <=> n <= 7) /\ ("zones" \in L <=> n <= 8)
          /\ ("delete" \in L <=> n <= 9)
          /\ ("publish" \in L <=> n <= 10)
      BY <2>2, <2>s
    <3>4. /\ ("fetch" \in L <=> n <= 11) /\ ("restart" \in L <=> n <= 12)
          /\ ("finish" \in L <=> n <= 13)
      BY <2>2, <2>s
    <3>5. /\ "append" \notin L /\ "rm" \notin L
      BY <2>2, <2>s
    <3> QED BY <3>1, <3>2, <3>3, <3>4, <3>5, <1>1 DEF InOrder
  <2>6. n = 1 => /\ "empty" \in L
                 /\ cmd = "add" => "check" \in L
                 /\ cmd = "regenerate" => "write" \in L
                 /\ "write" \in L => "truncate" \in L
    <3> HIDE DEF From
    <3>1. n = 1 => \A j \in 1 .. 13 : S[j] \in L
      BY <1>0, <2>2
    <3> QED BY <3>1, <2>s, <1>1
  <2> QED BY <2>3, <2>4, <2>5, <2>6
<1>2. CASE cmd = "add" /\ kind = "relaydomains"
  <2>1. S = AddRelay
    BY <1>2, AddPrograms
  <2>2. Len(S) = 13 /\ S \in Seq(Word)
    BY <2>1 DEF AddRelay, Word
  <2>s. /\ S[1] = "check" /\ S[2] = "mkdir" /\ S[3] = "empty" /\ S[4] = "zones"
        /\ S[5] = "delete"
        /\ S[6] = "publish" /\ S[7] = "fetch" /\ S[8] = "restart" /\ S[9] = "finish"
        /\ S[10] = "truncate" /\ S[11] = "write" /\ S[12] = "pull" /\ S[13] = "combine"
    BY <2>1 DEF AddRelay
  <2>3. \A j \in n + 1 .. Len(S) : S[j] # S[n]
    BY <2>1, <2>2 DEF AddRelay
  <2>4. n <= Len(S) => NextUp(S[n], L)
    BY <2>1, <2>2 DEF AddRelay, NextUp
  <2>5. InOrder(L, cmd, kind)
    <3>1. /\ ("check" \in L <=> n <= 1) /\ ("mkdir" \in L <=> n <= 2)
          /\ ("empty" \in L <=> n <= 3) /\ ("zones" \in L <=> n <= 4)
      BY <2>2, <2>s
    <3>2. /\ ("delete" \in L <=> n <= 5) /\ ("publish" \in L <=> n <= 6)
          /\ ("fetch" \in L <=> n <= 7)
      BY <2>2, <2>s
    <3>3. /\ ("restart" \in L <=> n <= 8) /\ ("finish" \in L <=> n <= 9)
          /\ ("truncate" \in L <=> n <= 10)
      BY <2>2, <2>s
    <3>4. /\ ("write" \in L <=> n <= 11) /\ ("pull" \in L <=> n <= 12)
          /\ ("combine" \in L <=> n <= 13)
      BY <2>2, <2>s
    <3>5. /\ "append" \notin L /\ "rm" \notin L
      BY <2>2, <2>s
    <3> QED BY <3>1, <3>2, <3>3, <3>4, <3>5, <1>2 DEF InOrder
  <2>6. n = 1 => /\ "empty" \in L
                 /\ cmd = "add" => "check" \in L
                 /\ cmd = "regenerate" => "write" \in L
                 /\ "write" \in L => "truncate" \in L
    <3> HIDE DEF From
    <3>1. n = 1 => \A j \in 1 .. 13 : S[j] \in L
      BY <1>0, <2>2
    <3> QED BY <3>1, <2>s, <1>2
  <2> QED BY <2>3, <2>4, <2>5, <2>6
<1>3. CASE cmd = "add" /\ kind = "ssh_config"
  <2>1. S = AddSsh
    BY <1>3, AddPrograms
  <2>2. Len(S) = 10 /\ S \in Seq(Word)
    BY <2>1 DEF AddSsh, Word
  <2>s. /\ S[1] = "check" /\ S[2] = "mkdir" /\ S[3] = "append" /\ S[4] = "empty"
        /\ S[5] = "zones"
        /\ S[6] = "delete" /\ S[7] = "publish" /\ S[8] = "fetch" /\ S[9] = "restart"
        /\ S[10] = "finish"
    BY <2>1 DEF AddSsh
  <2>3. \A j \in n + 1 .. Len(S) : S[j] # S[n]
    BY <2>1, <2>2 DEF AddSsh
  <2>4. n <= Len(S) => NextUp(S[n], L)
    BY <2>1, <2>2 DEF AddSsh, NextUp
  <2>5. InOrder(L, cmd, kind)
    <3>1. /\ ("check" \in L <=> n <= 1) /\ ("mkdir" \in L <=> n <= 2)
          /\ ("append" \in L <=> n <= 3)
      BY <2>2, <2>s
    <3>2. /\ ("empty" \in L <=> n <= 4) /\ ("zones" \in L <=> n <= 5)
          /\ ("delete" \in L <=> n <= 6)
          /\ ("publish" \in L <=> n <= 7)
      BY <2>2, <2>s
    <3>3. /\ ("fetch" \in L <=> n <= 8) /\ ("restart" \in L <=> n <= 9)
          /\ ("finish" \in L <=> n <= 10)
      BY <2>2, <2>s
    <3>4. /\ "rm" \notin L /\ "truncate" \notin L /\ "write" \notin L
          /\ "pull" \notin L /\ "combine" \notin L
      BY <2>2, <2>s
    <3> QED BY <3>1, <3>2, <3>3, <3>4, <1>3 DEF InOrder
  <2>6. n = 1 => /\ "empty" \in L
                 /\ cmd = "add" => "check" \in L
                 /\ cmd = "regenerate" => "write" \in L
                 /\ "write" \in L => "truncate" \in L
    <3>2. "write" \notin L
      BY <2>2, <2>s
    <3> HIDE DEF From
    <3>1. n = 1 => \A j \in 1 .. 10 : S[j] \in L
      BY <1>0, <2>2
    <3> QED BY <3>1, <3>2, <2>s, <1>3
  <2> QED BY <2>3, <2>4, <2>5, <2>6
<1>4. CASE cmd = "remove" /\ kind # "ssh_config"
  <2>1. S = RemoveFiles
    BY <1>4, OtherPrograms DEF Kinds
  <2>2. Len(S) = 11 /\ S \in Seq(Word)
    BY <2>1 DEF RemoveFiles, Word
  <2>s. /\ S[1] = "rm" /\ S[2] = "truncate" /\ S[3] = "write" /\ S[4] = "pull"
        /\ S[5] = "combine" /\ S[6] = "empty" /\ S[7] = "zones" /\ S[8] = "delete"
        /\ S[9] = "publish"
        /\ S[10] = "fetch" /\ S[11] = "restart"
    BY <2>1 DEF RemoveFiles
  <2>3. \A j \in n + 1 .. Len(S) : S[j] # S[n]
    BY <2>1, <2>2 DEF RemoveFiles
  <2>4. n <= Len(S) => NextUp(S[n], L)
    BY <2>1, <2>2 DEF RemoveFiles, NextUp
  <2>5. InOrder(L, cmd, kind)
    <3>1. /\ ("rm" \in L <=> n <= 1) /\ ("truncate" \in L <=> n <= 2)
          /\ ("write" \in L <=> n <= 3) /\ ("pull" \in L <=> n <= 4)
          /\ ("combine" \in L <=> n <= 5)
      BY <2>2, <2>s
    <3>3. /\ ("empty" \in L <=> n <= 6) /\ ("zones" \in L <=> n <= 7)
          /\ ("delete" \in L <=> n <= 8) /\ ("publish" \in L <=> n <= 9)
          /\ ("fetch" \in L <=> n <= 10) /\ ("restart" \in L <=> n <= 11)
      BY <2>2, <2>s
    <3>2. /\ "check" \notin L /\ "mkdir" \notin L /\ "append" \notin L
          /\ "finish" \notin L
      BY <2>2, <2>s
    <3> QED BY <3>1, <3>2, <3>3, <1>4 DEF InOrder
  <2>6. n = 1 => /\ "empty" \in L
                 /\ cmd = "add" => "check" \in L
                 /\ cmd = "regenerate" => "write" \in L
                 /\ "write" \in L => "truncate" \in L
    <3> HIDE DEF From
    <3>1. n = 1 => \A j \in 1 .. 11 : S[j] \in L
      BY <1>0, <2>2
    <3> QED BY <3>1, <2>s, <1>4
  <2> QED BY <2>3, <2>4, <2>5, <2>6
<1>5. CASE cmd = "remove" /\ kind = "ssh_config"
  <2>1. S = RemoveSsh
    BY <1>5, OtherPrograms
  <2>2. Len(S) = 7 /\ S \in Seq(Word)
    BY <2>1 DEF RemoveSsh, Word
  <2>s. /\ S[1] = "rm" /\ S[2] = "empty" /\ S[3] = "zones" /\ S[4] = "delete"
        /\ S[5] = "publish"
        /\ S[6] = "fetch" /\ S[7] = "restart"
    BY <2>1 DEF RemoveSsh
  <2>3. \A j \in n + 1 .. Len(S) : S[j] # S[n]
    BY <2>1, <2>2 DEF RemoveSsh
  <2>4. n <= Len(S) => NextUp(S[n], L)
    BY <2>1, <2>2 DEF RemoveSsh, NextUp
  <2>5. InOrder(L, cmd, kind)
    <3>1. /\ ("rm" \in L <=> n <= 1) /\ ("empty" \in L <=> n <= 2)
          /\ ("zones" \in L <=> n <= 3)
          /\ ("delete" \in L <=> n <= 4) /\ ("publish" \in L <=> n <= 5)
          /\ ("fetch" \in L <=> n <= 6) /\ ("restart" \in L <=> n <= 7)
      BY <2>2, <2>s
    <3>2. /\ "check" \notin L /\ "mkdir" \notin L /\ "append" \notin L
          /\ "finish" \notin L /\ "truncate" \notin L /\ "write" \notin L
          /\ "pull" \notin L /\ "combine" \notin L
      BY <2>2, <2>s
    <3> QED BY <3>1, <3>2, <1>5 DEF InOrder
  <2>6. n = 1 => /\ "empty" \in L
                 /\ cmd = "add" => "check" \in L
                 /\ cmd = "regenerate" => "write" \in L
                 /\ "write" \in L => "truncate" \in L
    <3>2. "write" \notin L
      BY <2>2, <2>s
    <3> HIDE DEF From
    <3>1. n = 1 => \A j \in 1 .. 7 : S[j] \in L
      BY <1>0, <2>2
    <3> QED BY <3>1, <3>2, <2>s, <1>5
  <2> QED BY <2>3, <2>4, <2>5, <2>6
<1>6. CASE cmd = "regenerate"
  <2>1. S = Regenerate
    BY <1>6, OtherPrograms
  <2>2. Len(S) = 10 /\ S \in Seq(Word)
    BY <2>1 DEF Regenerate, Word
  <2>s. /\ S[1] = "truncate" /\ S[2] = "write" /\ S[3] = "pull" /\ S[4] = "combine"
        /\ S[5] = "empty" /\ S[6] = "zones" /\ S[7] = "delete" /\ S[8] = "publish"
        /\ S[9] = "fetch" /\ S[10] = "restart"
    BY <2>1 DEF Regenerate
  <2>3. \A j \in n + 1 .. Len(S) : S[j] # S[n]
    BY <2>1, <2>2 DEF Regenerate
  <2>4. n <= Len(S) => NextUp(S[n], L)
    BY <2>1, <2>2 DEF Regenerate, NextUp
  <2>5. InOrder(L, cmd, kind)
    <3>1. /\ ("truncate" \in L <=> n <= 1) /\ ("write" \in L <=> n <= 2)
          /\ ("pull" \in L <=> n <= 3) /\ ("combine" \in L <=> n <= 4)
          /\ ("empty" \in L <=> n <= 5) /\ ("zones" \in L <=> n <= 6)
          /\ ("delete" \in L <=> n <= 7)
          /\ ("publish" \in L <=> n <= 8) /\ ("fetch" \in L <=> n <= 9)
          /\ ("restart" \in L <=> n <= 10)
      BY <2>2, <2>s
    <3>2. /\ "check" \notin L /\ "mkdir" \notin L /\ "append" \notin L
          /\ "rm" \notin L /\ "finish" \notin L
      BY <2>2, <2>s
    <3> QED BY <3>1, <3>2, <1>6 DEF InOrder
  <2>6. n = 1 => /\ "empty" \in L
                 /\ cmd = "add" => "check" \in L
                 /\ cmd = "regenerate" => "write" \in L
                 /\ "write" \in L => "truncate" \in L
    <3> HIDE DEF From
    <3>1. n = 1 => \A j \in 1 .. 10 : S[j] \in L
      BY <1>0, <2>2
    <3> QED BY <3>1, <2>s, <1>6
  <2> QED BY <2>3, <2>4, <2>5, <2>6
<1> QED BY <1>1, <1>2, <1>3, <1>4, <1>5, <1>6 DEF Commands, Kinds

-----------------------------------------------------------------------------
(* The commands that run, each with the rest of its program: one on a host *)
(* at a time unless they overlap, only one where no two run together.      *)
JobRecord ==
  [cmd : Commands \cup {"none"}, h : Hosts \cup {NoJob.h}, c : Names \cup {NoJob.c},
   exact : BOOLEAN, steps : Seq(Word), peers : SUBSET Hosts]

Running(j) ==
  /\ j.cmd \in Commands /\ j.h \in Hosts /\ j.c \in Names /\ j.peers \subseteq Peers(j.h)
  /\ j.exact \/ "short" \in env.faults
  /\ Suffix(j.steps, Steps(j.cmd, env.kind))

Jobs ==
  /\ job \in [Callers -> JobRecord]
  /\ \A p \in Callers : job[p] = NoJob \/ Running(job[p])
  /\ \A p, q \in Callers :
       /\ job[p].cmd # "none" /\ job[q].cmd # "none"
       /\ env.together = 1 \/ ("overlap" \notin env.faults /\ job[p].h = job[q].h)
       => p = q

(* The circumstances are as Env says.                                      *)
LEMMA EnvType ==
  ASSUME env \in Envs
  PROVE  /\ env.kind \in Kinds /\ env.at \subseteq Hosts /\ env.faults \subseteq Faults
         /\ env.homes \in [Names -> SUBSET Hosts] /\ env.together \in Nat \ {0}
BY ConstantsAssumption DEF Env

(* A caller without a command has nothing to do.                           *)
LEMMA NoJobType ==
  /\ NoJob \in JobRecord /\ NoJob.cmd = "none" /\ NoJob.steps = <<>>
  /\ Rest(<<>>) = {}
BY DEF NoJob, JobRecord, Rest

(* Where a command is.                                                     *)
LEMMA Place ==
  ASSUME env \in Envs, NEW j, Running(j)
  PROVE  /\ j.steps \in Seq(Word)
         /\ InOrder(Rest(j.steps), j.cmd, env.kind)
         /\ j.steps # <<>> =>
              /\ NextUp(Head(j.steps), Rest(j.steps))
              /\ Rest(Tail(j.steps)) = Rest(j.steps) \ {Head(j.steps)}
              /\ Suffix(Tail(j.steps), Steps(j.cmd, env.kind))
              /\ Tail(j.steps) \in Seq(Word)
<1> DEFINE s == j.steps
<1>1. PICK S : S = Steps(j.cmd, env.kind)
  OBVIOUS
<1>2. j.cmd \in Commands /\ env.kind \in Kinds
  BY EnvType DEF Running
<1>3. PICK n \in 1 .. Len(S) + 1 : s = SubSeq(S, n, Len(S))
  BY <1>1 DEF Running, Suffix
<1>4. S \in Seq(Word)
  BY <1>1, <1>2, StepsType
<1>5. /\ From(Rest(s), S, n)
      /\ s # <<>> => n <= Len(S) /\ Head(s) = S[n] /\ Tail(s) = SubSeq(S, n + 1, Len(S))
  BY <1>3, <1>4, SuffixOf
<1>6. /\ InOrder(Rest(s), j.cmd, env.kind)
      /\ n <= Len(S) => NextUp(S[n], Rest(s))
      /\ \A i \in n + 1 .. Len(S) : S[i] # S[n]
  <2>1. PICK cmd \in Commands, kind \in Kinds, L \in {Rest(s)} :
          cmd = j.cmd /\ kind = env.kind /\ L = Rest(s)
    BY <1>2
  <2>2. S = Steps(cmd, kind) /\ From(L, S, n)
    BY <2>1, <1>1, <1>5
  <2> HIDE DEF s
  <2>3. /\ InOrder(L, cmd, kind) /\ (n <= Len(S) => NextUp(S[n], L))
        /\ \A i \in n + 1 .. Len(S) : S[i] # S[n]
    BY ONLY cmd \in Commands, kind \in Kinds, n \in 1 .. Len(S) + 1, <2>2, Order
  <2> QED BY <2>1, <2>3
<1>7. ASSUME s # <<>>
      PROVE  /\ Rest(Tail(s)) = Rest(s) \ {Head(s)}
             /\ Suffix(Tail(s), S)
  <2>1. n + 1 \in 1 .. Len(S) + 1
    BY <1>4, <1>5, <1>7
  <2>2. From(Rest(Tail(s)), S, n + 1)
    <3>1. PICK m \in 1 .. Len(S) + 1, t \in {Tail(s)} : m = n + 1 /\ t = Tail(s)
      BY <2>1
    <3>2. t = SubSeq(S, m, Len(S))
      BY <3>1, <1>5, <1>7
    <3>3. From(Rest(t), S, m)
      BY <3>2, <1>4, SuffixOf
    <3> QED BY <3>1, <3>3
  <2>3. \A i \in n .. Len(S) : i = n \/ i \in n + 1 .. Len(S)
    BY <1>4
  <2>4. Rest(Tail(s)) = Rest(s) \ {Head(s)}
    BY <2>2, <2>3, <1>5, <1>6, <1>7 DEF From
  <2> QED BY <2>1, <2>4, <1>5, <1>7 DEF Suffix
<1>8. s \in Seq(Word) /\ (s # <<>> => Tail(s) \in Seq(Word))
  <2>1. \A i \in n .. Len(S) : S[i] \in Word
    BY <1>4
  <2> QED BY <2>1, <1>3, <1>4, SubSeqProperties
<1> QED BY <1>1, <1>5, <1>6, <1>7, <1>8

-----------------------------------------------------------------------------
(* What a step of p does to the commands.                                  *)
Others(p) ==
  /\ job' \in [Callers -> JobRecord]
  /\ \A q \in Callers \ {p} : job'[q] = job[q]

Keeps(p) ==
  /\ job'[p].cmd = job[p].cmd /\ job'[p].h = job[p].h
  /\ job'[p].c = job[p].c /\ job'[p].exact = job[p].exact

(* Who has something to do is running a command.                           *)
LEMMA AtRuns ==
  ASSUME Jobs, NEW p \in Callers, job[p].cmd # "none" \/ job[p].steps # <<>>
  PROVE  Running(job[p]) /\ job[p].cmd # "none" /\ job[p] \in JobRecord
BY NoJobType DEF Jobs, Running, Commands

(* A step of one command leaves the commands in order.                     *)
LEMMA JobsKept ==
  ASSUME Jobs, env' = env, NEW p \in Callers, Others(p),
         job'[p] = NoJob \/ (job[p].cmd # "none" /\ Keeps(p) /\ Running(job'[p]))
  PROVE  Jobs'
<1>1. \A q \in Callers : job'[q] = NoJob \/ Running(job'[q])
  BY DEF Jobs, Others
<1>2. \A q \in Callers : job'[q].cmd # "none" => job[q].cmd # "none" /\ job'[q].h = job[q].h
  BY NoJobType DEF Others, Keeps
<1> QED BY <1>1, <1>2 DEF Jobs, Others, Running

(* A command does its next step.                                           *)
LEMMA Advance ==
  ASSUME env \in Envs, env' = env, Jobs, NEW p \in Callers, NEW x, At(p, x), Done(p)
  PROVE  /\ Jobs' /\ Others(p) /\ Keeps(p)
         /\ Running(job[p]) /\ NextUp(x, Left(p))
         /\ job'[p].peers = Peers(job[p].h)
         /\ Left(p)' = Left(p) \ {x}
<1>1. job[p].steps # <<>> /\ Head(job[p].steps) = x
  BY DEF At
<1>2. Running(job[p]) /\ job[p].cmd # "none" /\ job[p] \in JobRecord
  BY <1>1, AtRuns
<1>3. /\ NextUp(x, Left(p)) /\ Rest(Tail(job[p].steps)) = Left(p) \ {x}
      /\ Suffix(Tail(job[p].steps), Steps(job[p].cmd, env.kind))
      /\ Tail(job[p].steps) \in Seq(Word)
  BY <1>1, <1>2, Place DEF Left
<1> DEFINE j == [job[p] EXCEPT !.steps = Tail(@), !.peers = Peers(job[p].h)]
<1>4. job' = [job EXCEPT ![p] = j]
  BY DEF Done
<1>5. /\ j \in JobRecord /\ j.cmd = job[p].cmd /\ j.h = job[p].h /\ j.c = job[p].c
      /\ j.exact = job[p].exact /\ j.steps = Tail(job[p].steps)
      /\ j.peers = Peers(job[p].h)
  BY <1>2, <1>3 DEF JobRecord, Peers
<1> HIDE DEF j
<1>6. job'[p] = j /\ Others(p)
  BY <1>4, <1>5 DEF Jobs, Others
<1>7. Keeps(p) /\ Running(job'[p])
  BY <1>2, <1>3, <1>5, <1>6 DEF Keeps, Running
<1>8. Jobs'
  BY <1>2, <1>6, <1>7, JobsKept
<1> QED BY <1>2, <1>3, <1>5, <1>6, <1>7, <1>8 DEF Left

(* A command has looked at one more host.                                  *)
LEMMA Visit ==
  ASSUME env \in Envs, env' = env, Jobs, NEW p \in Callers, NEW x, At(p, x),
         NEW g \in Hosts, Visited(p, g)
  PROVE  /\ Jobs' /\ Others(p) /\ Keeps(p)
         /\ Running(job[p]) /\ NextUp(x, Left(p))
         /\ job'[p].peers = job[p].peers \ {g}
         /\ Left(p)' = Left(p)
<1>1. job[p].steps # <<>> /\ Head(job[p].steps) = x
  BY DEF At
<1>2. Running(job[p]) /\ job[p].cmd # "none" /\ job[p] \in JobRecord
  BY <1>1, AtRuns
<1>3. NextUp(x, Left(p))
  BY <1>1, <1>2, Place DEF Left
<1> DEFINE j == [job[p] EXCEPT !.peers = @ \ {g}]
<1>4. job' = [job EXCEPT ![p] = j]
  BY DEF Visited
<1>5. /\ j \in JobRecord /\ j.cmd = job[p].cmd /\ j.h = job[p].h /\ j.c = job[p].c
      /\ j.exact = job[p].exact /\ j.steps = job[p].steps
      /\ j.peers = job[p].peers \ {g}
  BY <1>2 DEF JobRecord
<1> HIDE DEF j
<1>6. job'[p] = j /\ Others(p)
  BY <1>4, <1>5 DEF Jobs, Others
<1>7. Keeps(p) /\ Running(job'[p])
  BY <1>2, <1>3, <1>5, <1>6 DEF Keeps, Running
<1>8. Jobs'
  BY <1>2, <1>6, <1>7, JobsKept
<1> QED BY <1>2, <1>3, <1>5, <1>6, <1>7, <1>8 DEF Left

(* A command is gone.                                                      *)
LEMMA Stop ==
  ASSUME env' = env, Jobs, NEW p \in Callers, job' = [job EXCEPT ![p] = NoJob]
  PROVE  Jobs' /\ Others(p) /\ job'[p] = NoJob /\ Left(p)' = {}
<1>1. Others(p) /\ job'[p] = NoJob
  BY NoJobType DEF Jobs, Others
<1> QED BY <1>1, JobsKept, NoJobType DEF Left

(* A command is typed: it has all its steps before it.                     *)
LEMMA Begin ==
  ASSUME env \in Envs, env' = env, Jobs, NEW p \in Callers,
         NEW cmd \in Commands, NEW h \in env.at, NEW c \in Names, NEW exact \in BOOLEAN,
         Command(p, cmd, h, c, exact)
  PROVE  /\ Jobs' /\ Others(p) /\ job[p] = NoJob /\ h \in Hosts
         /\ job'[p].cmd = cmd /\ job'[p].h = h /\ job'[p].c = c
         /\ job'[p].peers = Peers(h)
         /\ InOrder(Left(p)', cmd, env.kind)
         /\ "empty" \in Left(p)'
         /\ cmd = "add" => "check" \in Left(p)'
         /\ cmd = "regenerate" => "write" \in Left(p)'
         /\ "write" \in Left(p)' => "truncate" \in Left(p)'
         /\ env.together = 1 => \A q \in Callers : job[q] = NoJob
<1> DEFINE S == Steps(cmd, env.kind)
           j == [NoJob EXCEPT !.cmd = cmd, !.h = h, !.c = c, !.exact = exact,
                              !.steps = S, !.peers = Peers(h)]
<1>1. job' = [job EXCEPT ![p] = j] /\ job[p].cmd = "none"
  BY DEF Command
<1>2. h \in Hosts /\ env.kind \in Kinds /\ env.together \in Nat \ {0}
  BY EnvType
<1>3. S \in Seq(Word)
  BY <1>2, StepsType
<1>4. /\ j \in JobRecord /\ j.cmd = cmd /\ j.h = h /\ j.c = c
      /\ j.exact = exact /\ j.steps = S /\ j.peers = Peers(h)
  BY <1>2, <1>3, NoJobType DEF JobRecord, Peers
<1> HIDE DEF j
<1>5. job'[p] = j /\ Others(p)
  BY <1>1, <1>4 DEF Jobs, Others
<1>6. job[p] = NoJob
  BY <1>1, AtRuns DEF Jobs, Running, Commands
<1>7. S = SubSeq(S, 1, Len(S)) /\ Suffix(S, S) /\ From(Rest(S), S, 1)
  <2> HIDE DEF S
  <2>1. S = SubSeq(S, 1, Len(S)) /\ Len(S) \in Nat
    BY <1>3, SubSeqFull
  <2>2. 1 \in 1 .. Len(S) + 1
    BY <2>1
  <2>3. From(Rest(S), S, 1)
    BY <2>1, <2>2, <1>3, SuffixOf
  <2> QED BY <2>1, <2>2, <2>3 DEF Suffix
<1>8. /\ InOrder(Rest(S), cmd, env.kind) /\ "empty" \in Rest(S)
      /\ cmd = "add" => "check" \in Rest(S)
      /\ cmd = "regenerate" => "write" \in Rest(S)
      /\ "write" \in Rest(S) => "truncate" \in Rest(S)
  <2>1. PICK T, L : T = S /\ L = Rest(S)
    OBVIOUS
  <2>s. PICK kind \in Kinds, n \in 1 .. Len(T) + 1 : kind = env.kind /\ n = 1
    BY <2>1, <1>2, <1>3
  <2>2. T = Steps(cmd, kind) /\ From(L, T, n)
    BY <2>1, <2>s, <1>7
  <2> HIDE DEF S
  <2>3. /\ InOrder(L, cmd, kind) /\ "empty" \in L
        /\ cmd = "add" => "check" \in L
        /\ cmd = "regenerate" => "write" \in L
        /\ "write" \in L => "truncate" \in L
    BY <2>2, <2>s, Order
  <2> QED BY <2>1, <2>s, <2>3
<1>9. Running(j)
  BY <1>2, <1>4, <1>7 DEF Running, Peers, Command
<1>10. IsFiniteSet(Active)
  BY ConstantsAssumption, FS_Subset DEF Active
<1>11. env.together = 1 => Active = {}
  <2>1. ASSUME env.together = 1
        PROVE  Cardinality(Active) = 0
    BY <2>1, <1>10, FS_CardinalityType DEF Command
  <2> QED BY <2>1, <1>10, FS_EmptySet
<1>12. \A q \in Callers : q \notin Active => job[q] = NoJob
  BY AtRuns DEF Active, Jobs, Running, Commands
<1>13. \A q \in Callers : q \in Active => "overlap" \in env.faults \/ job[q].h # h
  BY DEF Command
<1>14. Jobs'
  <2>1. \A q \in Callers : job'[q] = NoJob \/ Running(job'[q])
    BY <1>5, <1>9 DEF Jobs, Others
  <2>2. \A q \in Callers \ {p} : job'[q].cmd # "none" =>
           /\ q \in Active /\ env.together # 1
           /\ "overlap" \in env.faults \/ job'[q].h # h
    BY <1>5, <1>11, <1>13 DEF Others, Active
  <2>3. ASSUME NEW q \in Callers, NEW r \in Callers,
               job'[q].cmd # "none", job'[r].cmd # "none",
               env.together = 1 \/ ("overlap" \notin env.faults /\ job'[q].h = job'[r].h)
        PROVE  q = r
    BY <2>2, <2>3, <1>4, <1>5 DEF Jobs, Others
  <2> QED BY <2>1, <2>3, <1>5 DEF Jobs, Others, Running
<1> QED BY <1>2, <1>4, <1>5, <1>6, <1>8, <1>11, <1>12, <1>14 DEF Left

-----------------------------------------------------------------------------
(* Where commands do not overlap no two write the configuration at once.   *)
Unmixed == "overlap" \notin env.faults => mixed = {}

(* A command that empties it has no rival there.                           *)
LEMMA NoRivals ==
  ASSUME env \in Envs, Jobs, "overlap" \notin env.faults, NEW p \in Callers, At(p, "empty")
  PROVE  Rivals(p) = {}
<1> SUFFICES ASSUME NEW q \in Rivals(p)
             PROVE  FALSE
  OBVIOUS
<1>1. q \in Callers \ {p} /\ job[q].h = job[p].h /\ job[q].steps # <<>>
  BY DEF Rivals, At
<1>2. job[q].cmd # "none" /\ job[p].cmd # "none"
  BY <1>1, AtRuns DEF At
<1> QED BY <1>1, <1>2 DEF Jobs

(* No step makes it so.                                                    *)
LEMMA UnmixedStep ==
  ASSUME TypeOK, Jobs, Unmixed, Next
  PROVE  Unmixed'
<1>e. env' = env /\ env \in Envs
  BY DEF Next, TypeOK
<1>1. PICK p \in Callers : Type(p) \/ Step(p) \/ Kill(p)
  BY DEF Next
<1>2. CASE Empty(p)
  <2>1. "overlap" \notin env.faults => Rivals(p) = {}
    BY <1>2, <1>e, NoRivals DEF Empty
  <2> QED BY <1>2, <1>e, <2>1 DEF Empty, Unmixed
<1>3. CASE ~Empty(p)
  <2>1. mixed' = mixed
    BY <1>1, <1>3
       DEF Step, Looped, Ended, Mkdir, Finish, Rm, Truncate, Write, AppendOwn, Combine,
           Zones, Delete, Publish, Restart, Check, Pull, Fetch, Kill, Type, Command, files
  <2> QED BY <2>1, <1>e DEF Unmixed
<1> QED BY <1>2, <1>3

(* Where one command runs at a time and all goes well.                     *)
LEMMA Alone ==
  ASSUME env \in Envs, Orderly, Jobs, NEW p \in Callers, Others(p),
         job[p].cmd # "none" \/ \A q \in Callers : job[q] = NoJob
  PROVE  \A q \in Callers \ {p} :
           job[q] = NoJob /\ job'[q] = NoJob /\ Left(q) = {} /\ Left(q)' = {}
<1>1. \A q \in Callers \ {p} : job[q] = NoJob
  BY NoJobType DEF Jobs, Running, Commands, Orderly
<1> QED BY <1>1, NoJobType DEF Others, Left

(* Where a command is that is at x, and what becomes of it when x is done. *)
Here(p, x) ==
  /\ NextUp(x, Left(p)) /\ InOrder(Left(p), job[p].cmd, env.kind)
  /\ job[p].cmd \in Commands /\ job[p].cmd # "none"
  /\ job[p].h \in Hosts /\ job[p].c \in Names /\ job[p].peers \subseteq Peers(job[p].h)
  /\ job[p].exact \/ "short" \in env.faults

DoneBy(p, x) ==
  /\ Others(p) /\ Keeps(p)
  /\ job'[p].peers = Peers(job[p].h)
  /\ Left(p)' = Left(p) \ {x}

(* The facts about a command that is at x, by name.                        *)
LEMMA HereIs ==
  ASSUME env \in Envs, Jobs, NEW p \in Callers, NEW x, At(p, x)
  PROVE  Here(p, x)
BY AtRuns, Place DEF At, Left, Running, Here, Commands

(* The tarball of a host holds its zones unless a command has still to     *)
(* publish them.  A command that has dropped all zones from the            *)
(* configuration includes its own once it has written them, and those of   *)
(* the hosts it has visited since.                                         *)
Pending(p) == "publish" \in Left(p) /\ "mkdir" \notin Left(p)

Published(g) ==
  \/ \E p \in Callers : job[p].h = g /\ Pending(p)
  \/ tar[g].zones = ve[g]

Ahead(p, g) ==
  \/ "zones" \in Left(p)
  \/ g # job[p].h /\ "publish" \in Left(p)
  \/ "fetch" \in Left(p) /\ g \in job[p].peers

Included(p) ==
  "empty" \notin Left(p) /\ "restart" \in Left(p) =>
    \A g \in Hosts : includes[job[p].h][g] = IF Ahead(p, g) THEN {} ELSE ve[g]

Fresh == Orderly => (\A g \in Hosts : Published(g)) /\ (\A p \in Callers : Included(p))

(* What is included changes on one host: nothing is left there, unless a   *)
(* rival may have written, and then the own zones are added.               *)
LEMMA EmptySets ==
  ASSUME includes \in Sections, NEW p \in Callers, job[p].h \in Hosts, Empty(p)
  PROVE  \A g \in Hosts :
           /\ \A h \in Hosts \ {job[p].h} : includes'[h][g] = includes[h][g]
           /\ includes'[job[p].h][g] = IF Rivals(p) = {} THEN {} ELSE includes[job[p].h][g]
<1>1. CASE Rivals(p) = {}
  <2>1. includes' = [includes EXCEPT ![job[p].h] = [g \in Hosts |-> {}]]
    BY <1>1 DEF Empty
  <2> QED BY <2>1, <1>1 DEF Sections
<1>2. CASE Rivals(p) # {}
  BY <1>2 DEF Empty
<1> QED BY <1>1, <1>2

LEMMA ZonesSets ==
  ASSUME includes \in Sections, NEW p \in Callers, job[p].h \in Hosts, Zones(p)
  PROVE  \A g \in Hosts :
           /\ \A h \in Hosts \ {job[p].h} : includes'[h][g] = includes[h][g]
           /\ includes'[job[p].h][g] =
                includes[job[p].h][g] \cup (IF g = job[p].h THEN ve[job[p].h] ELSE {})
<1> DEFINE h == job[p].h
<1>1. PICK z : z = includes[h][h] \cup ve[h]
  OBVIOUS
<1>2. includes' = [includes EXCEPT ![h][h] = z]
  BY <1>1 DEF Zones
<1> QED BY <1>1, <1>2 DEF Sections

(* No step breaks Fresh.                                                   *)
LEMMA FreshStep ==
  ASSUME TypeOK, Jobs, Unmixed, Fresh, Next
  PROVE  Fresh'
<1> SUFFICES ASSUME Orderly
             PROVE  (\A g \in Hosts : Published(g)') /\ (\A p \in Callers : Included(p)')
  BY DEF Fresh, Next, Orderly
<1>e. /\ env' = env /\ env \in Envs /\ env.together = 1 /\ Reached = {TRUE}
      /\ "overlap" \notin env.faults /\ mixed = {}
  BY DEF Next, TypeOK, Orderly, Reached, Unmixed
<1>t. /\ ve \in [Hosts -> SUBSET Names] /\ includes \in Sections
      /\ tar \in [Hosts -> [there : BOOLEAN, zones : SUBSET Names]]
  BY DEF TypeOK
<1>f. (\A g \in Hosts : Published(g)) /\ (\A p \in Callers : Included(p))
  BY DEF Fresh
<1>1. PICK p \in Callers : Type(p) \/ Step(p) \/ Kill(p)
  BY DEF Next
<1>2. ASSUME Others(p), job[p].cmd # "none" \/ \A q \in Callers : job[q] = NoJob,
             \A g \in Hosts : (job'[p].h = g /\ Pending(p)') \/ tar'[g].zones = ve'[g],
             Included(p)'
      PROVE  (\A g \in Hosts : Published(g)') /\ (\A q \in Callers : Included(q)')
  BY <1>2, <1>e, Alone DEF Published, Included, Pending
<1>3. ASSUME Others(p), job[p].cmd # "none" \/ \A q \in Callers : job[q] = NoJob
      PROVE  \A g \in Hosts : (job[p].h = g /\ Pending(p)) \/ tar[g].zones = ve[g]
  BY <1>3, <1>e, <1>f, Alone DEF Published, Pending
<1>4. ASSUME NEW cmd \in Commands, NEW h \in env.at, NEW c \in Names, NEW exact \in BOOLEAN,
             Command(p, cmd, h, c, exact)
      PROVE  (\A g \in Hosts : Published(g)') /\ (\A q \in Callers : Included(q)')
  <2>1. Others(p) /\ "empty" \in Left(p)' /\ \A q \in Callers : job[q] = NoJob
    BY <1>4, <1>e, Begin
  <2>2. UNCHANGED <<ve, tar, includes>>
    BY <1>4 DEF Command, files
  <2>3. \A g \in Hosts : tar[g].zones = ve[g]
    BY <2>1, <1>f, NoJobType DEF Published, Pending, Left
  <2> QED BY <2>1, <2>2, <2>3, <1>2 DEF Included
<1>5. ASSUME job' = [job EXCEPT ![p] = NoJob], UNCHANGED <<ve, tar>>, job[p].cmd # "none",
             ~Pending(p)
      PROVE  (\A g \in Hosts : Published(g)') /\ (\A q \in Callers : Included(q)')
  <2>1. Others(p) /\ Left(p)' = {}
    BY <1>5, <1>e, Stop
  <2> QED BY <2>1, <1>2, <1>3, <1>5 DEF Included, Pending
<1>6. CASE Type(p)
  BY <1>6, <1>4 DEF Type, Commands
<1>7. CASE Kill(p)
  BY <1>7 DEF Kill, Orderly
<1>8. CASE Ended(p)
  <2>1. Left(p) = {}
    BY <1>8, NoJobType DEF Ended, Left
  <2> QED BY <2>1, <1>8, <1>5 DEF Ended, files, Pending
<1>9. ASSUME NEW x, At(p, x), Done(p)
      PROVE  /\ Here(p, x) /\ DoneBy(p, x)
             /\ \A g \in Hosts : (job[p].h = g /\ Pending(p)) \/ tar[g].zones = ve[g]
  BY <1>9, <1>e, <1>3, HereIs, Advance DEF Here, DoneBy
<1>10. CASE Looped(p)
  <2>1. PICK x \in {"check", "pull", "fetch"} : At(p, x)
    BY <1>10 DEF Looped
  <2>2. /\ Here(p, x) /\ DoneBy(p, x) /\ job[p].peers = {}
        /\ \A g \in Hosts : (job[p].h = g /\ Pending(p)) \/ tar[g].zones = ve[g]
    BY <2>1, <1>10, <1>9 DEF Looped
  <2>3. UNCHANGED <<ve, tar, includes>>
    BY <1>10 DEF Looped, files
  <2>4. Pending(p)' <=> Pending(p)
    BY <2>1, <2>2 DEF Pending, DoneBy, Here, NextUp, InOrder
  <2>5. Included(p)'
    BY <2>1, <2>2, <2>3, <1>f DEF Included, Ahead, Here, NextUp, InOrder, DoneBy, Keeps
  <2> QED BY <2>2, <2>3, <2>4, <2>5, <1>2 DEF DoneBy, Keeps, Here
<1>11. CASE Mkdir(p) \/ Finish(p) \/ Rm(p) \/ Truncate(p) \/ Write(p) \/ AppendOwn(p) \/ Combine(p)
  <2>1. PICK x \in {"mkdir", "finish", "rm", "truncate", "write", "append", "combine"} :
          At(p, x) /\ Done(p)
    BY <1>11 DEF Mkdir, Finish, Rm, Truncate, Write, AppendOwn, Combine
  <2>2. /\ Here(p, x) /\ DoneBy(p, x)
        /\ \A g \in Hosts : (job[p].h = g /\ Pending(p)) \/ tar[g].zones = ve[g]
    BY <2>1, <1>9
  <2>3. /\ UNCHANGED <<tar, includes>> /\ \A g \in Hosts \ {job[p].h} : ve'[g] = ve[g]
        /\ x \notin {"mkdir", "rm"} => ve' = ve
    BY <1>11, <1>t, <2>1, <2>2 DEF Mkdir, Finish, Rm, Truncate, Write, AppendOwn, Combine, files, At
  <2>4. (Pending(p) => Pending(p)') /\ (x \in {"mkdir", "rm"} => Pending(p)')
    BY <2>1, <2>2 DEF Pending, DoneBy, Here, NextUp, InOrder
  <2>5. Included(p)'
    BY <2>1, <2>2, <2>3, <1>f DEF Included, Ahead, Here, NextUp, InOrder, DoneBy, Keeps
  <2> QED BY <2>2, <2>3, <2>4, <2>5, <1>2 DEF DoneBy, Keeps, Here
<1>e12. CASE Empty(p)
  <2>2. /\ Here(p, "empty") /\ DoneBy(p, "empty")
        /\ \A g \in Hosts : (job[p].h = g /\ Pending(p)) \/ tar[g].zones = ve[g]
    BY <1>e12, <1>9 DEF Empty
  <2>3. UNCHANGED <<ve, tar>> /\ \A g \in Hosts : includes'[job[p].h][g] = {}
    <3>1. Rivals(p) = {} /\ job[p].h \in Hosts
      BY <2>2, <1>e12, <1>e, NoRivals DEF Empty, Here
    <3> QED BY <3>1, <1>e12, <1>t, EmptySets DEF Empty
  <2>4. Pending(p) => Pending(p)'
    BY <2>2 DEF Pending, DoneBy
  <2>5. "zones" \in Left(p)'
    BY <2>2 DEF DoneBy, Here, NextUp, InOrder
  <2>6. Included(p)'
    BY <2>2, <2>3, <2>5 DEF Included, Ahead, DoneBy, Keeps, Here
  <2> QED BY <2>2, <2>3, <2>4, <2>6, <1>2 DEF DoneBy, Keeps, Here
<1>12. CASE Zones(p)
  <2>2. /\ Here(p, "zones") /\ DoneBy(p, "zones")
        /\ \A g \in Hosts : (job[p].h = g /\ Pending(p)) \/ tar[g].zones = ve[g]
    BY <1>12, <1>9 DEF Zones
  <2>1. /\ "empty" \notin Left(p) /\ "publish" \in Left(p) /\ "restart" \in Left(p)
        /\ job[p].h \in Hosts /\ "zones" \in Left(p)
    BY <2>2 DEF Here, NextUp, InOrder
  <2>3. /\ UNCHANGED <<ve, tar>>
        /\ \A g \in Hosts : includes'[job[p].h][g] = IF g = job[p].h THEN ve[g] ELSE {}
    <3>1. \A g \in Hosts : includes[job[p].h][g] = {}
      BY <2>1, <1>f DEF Included, Ahead
    <3>2. ASSUME NEW g \in Hosts
          PROVE  includes'[job[p].h][g] = IF g = job[p].h THEN ve[g] ELSE {}
      <4>1. includes'[job[p].h][g] =
               includes[job[p].h][g] \cup (IF g = job[p].h THEN ve[job[p].h] ELSE {})
        BY <2>1, <1>12, <1>t, ZonesSets
      <4> QED BY <4>1, <3>1
    <3> QED BY <3>2, <1>12 DEF Zones
  <2>4. Pending(p) => Pending(p)'
    BY <2>2 DEF Pending, DoneBy
  <2>5. Included(p)'
    BY <2>2, <2>1, <2>3 DEF Included, Ahead, Here, NextUp, InOrder, DoneBy, Keeps, Peers
  <2> QED BY <2>2, <2>3, <2>4, <2>5, <1>2 DEF DoneBy, Keeps, Here
<1>13. CASE Delete(p)
  <2>2. /\ Here(p, "delete") /\ DoneBy(p, "delete")
        /\ \A g \in Hosts : (job[p].h = g /\ Pending(p)) \/ tar[g].zones = ve[g]
    BY <1>13, <1>9 DEF Delete
  <2>3. /\ UNCHANGED <<ve, includes>>
        /\ \A g \in Hosts \ {job[p].h} : tar'[g] = tar[g]
    BY <1>13, <1>t, <2>2 DEF Delete, Here
  <2>4. Pending(p)'
    BY <2>2 DEF Pending, DoneBy, Here, NextUp, InOrder
  <2>5. Included(p)'
    BY <2>2, <2>3, <1>f DEF Included, Ahead, Here, NextUp, InOrder, DoneBy, Keeps, Peers
  <2> QED BY <2>2, <2>3, <2>4, <2>5, <1>2 DEF DoneBy, Keeps, Here
<1>14. CASE Publish(p)
  <2>2. /\ Here(p, "publish") /\ DoneBy(p, "publish")
        /\ \A g \in Hosts : (job[p].h = g /\ Pending(p)) \/ tar[g].zones = ve[g]
    BY <1>14, <1>9 DEF Publish
  <2>3. /\ UNCHANGED <<ve, includes>>
        /\ \A g \in Hosts \ {job[p].h} : tar'[g] = tar[g]
        /\ tar'[job[p].h].zones = includes[job[p].h][job[p].h]
    BY <1>14, <1>e, <1>t, <2>2 DEF Publish, Here, Found
  <2>4. includes[job[p].h][job[p].h] = ve[job[p].h]
    BY <2>2, <1>f DEF Included, Ahead, Here, NextUp, InOrder, Peers
  <2>5. Included(p)'
    BY <2>2, <2>3, <1>f DEF Included, Ahead, Here, NextUp, InOrder, DoneBy, Keeps, Peers
  <2> QED BY <2>2, <2>3, <2>4, <2>5, <1>2 DEF DoneBy, Keeps, Here
<1>15. CASE Restart(p)
  <2>1. UNCHANGED <<ve, tar, includes>> /\ At(p, "restart")
    BY <1>15 DEF Restart
  <2>2. Here(p, "restart")
    BY <2>1, <1>e, HereIs
  <2>3. CASE Done(p)
    <3>1. DoneBy(p, "restart") /\ \A g \in Hosts : tar[g].zones = ve[g]
      BY <2>1, <2>2, <2>3, <1>9 DEF Pending, Here, NextUp, InOrder
    <3>2. Included(p)'
      BY <3>1 DEF Included, DoneBy
    <3> QED BY <2>1, <2>2, <3>1, <3>2, <1>2 DEF DoneBy, Keeps, Here
  <2>4. CASE job' = [job EXCEPT ![p] = NoJob]
    BY <2>1, <2>2, <2>4, <1>5 DEF Here, Pending, NextUp, InOrder
  <2> QED BY <1>15, <2>3, <2>4 DEF Restart
<1>16. ASSUME NEW g \in Hosts, Check(p, g) \/ Pull(p, g) \/ Fetch(p, g)
       PROVE  (\A h \in Hosts : Published(h)') /\ (\A q \in Callers : Included(q)')
  <2>1. PICK x \in {"check", "pull", "fetch"} : At(p, x) /\ g \in job[p].peers
    BY <1>16 DEF Check, Pull, Fetch
  <2>2. Here(p, x)
    BY <2>1, <1>e, HereIs
  <2>3. UNCHANGED <<ve, tar>>
    BY <1>16 DEF Check, Pull, Fetch, files
  <2>4. CASE x = "check" /\ job' = [job EXCEPT ![p] = NoJob]
    BY <2>2, <2>3, <2>4, <1>5 DEF Here, Pending, NextUp, InOrder
  <2>5. CASE Visited(p, g)
    <3>1. /\ Others(p) /\ Keeps(p) /\ job'[p].peers = job[p].peers \ {g}
          /\ Left(p)' = Left(p)
      BY <2>1, <2>5, <1>e, Visit
    <3>2. \A h \in Hosts : (job[p].h = h /\ Pending(p)) \/ tar[h].zones = ve[h]
      BY <2>2, <3>1, <1>3 DEF Here
    <3>3. CASE x # "fetch"
      <4>1. includes' = includes
        BY <3>3, <2>1, <1>16 DEF Check, Pull, Fetch, At, files
      <4>2. Included(p)'
        BY <2>1, <2>2, <2>3, <3>1, <3>3, <4>1, <1>f
           DEF Included, Ahead, Here, NextUp, InOrder, Keeps
      <4> QED BY <2>2, <2>3, <3>1, <3>2, <4>2, <1>2 DEF Pending, Keeps, Here
    <3>4. CASE x = "fetch"
      <4>1. \A h \in Hosts : includes'[job[p].h][h] =
               IF h = g THEN tar[g].zones ELSE includes[job[p].h][h]
        BY <3>4, <2>1, <2>2, <1>16, <1>t, <1>e DEF Check, Pull, Fetch, At, Here, Sections
      <4>2. tar[g].zones = ve[g]
        BY <2>1, <2>2, <3>2 DEF Here, Peers
      <4>3. Included(p)'
        BY <2>1, <2>2, <2>3, <3>1, <3>4, <4>1, <4>2, <1>f
           DEF Included, Ahead, Here, NextUp, InOrder, Keeps
      <4> QED BY <2>2, <2>3, <3>1, <3>2, <4>3, <1>2 DEF Pending, Keeps, Here
    <3> QED BY <3>3, <3>4
  <2> QED BY <1>16, <2>1, <2>4, <2>5 DEF Check, Pull, Fetch, At
<1> QED BY <1>1, <1>6, <1>7, <1>8, <1>10, <1>11, <1>e12, <1>12, <1>13, <1>14, <1>15, <1>16
        DEF Step
-----------------------------------------------------------------------------
(* A host has only names that have it as a home, and so it is with the     *)
(* zones it publishes and those the others include as its slaves.          *)
Home(h) == {c \in Names : h \in env.homes[c]}

Homes ==
  /\ \A h \in Hosts : ve[h] \subseteq Home(h) /\ tar[h].zones \subseteq Home(h)
  /\ \A g, h \in Hosts : includes[h][g] \subseteq Home(g)
  /\ \A p \in Callers : job[p].cmd = "add" => job[p].c \in Home(job[p].h)

(* Where all goes well a name is on one host, and add makes a container    *)
(* only of a name that is on none.                                         *)
Unused(p) ==
  "mkdir" \in Left(p) =>
    \A g \in Hosts : job[p].c \notin ve[g] \/ ("check" \in Left(p) /\ g \in job[p].peers)

Apart ==
  Orderly =>
    /\ \A g, h \in Hosts : ve[g] \cap ve[h] # {} => g = h
    /\ \A p \in Callers : Unused(p)

(* What a command includes of g is in its tarball or was included before.  *)
LEMMA FetchSets ==
  ASSUME NEW p, NEW g, Fetch(p, g)
  PROVE  \E z : /\ z \subseteq tar[g].zones \cup includes[job[p].h][g]
                /\ includes' = [includes EXCEPT ![job[p].h][g] = z]
<1> DEFINE old(reached) == IF reached /\ job[p].h \notin mixed THEN {} ELSE includes[job[p].h][g]
           new(reached) == IF reached THEN tar[g].zones ELSE {}
<1>1. PICK reached \in Reached :
        includes' = [includes EXCEPT ![job[p].h][g] = old(reached) \cup new(reached)]
  BY DEF Fetch
<1>2. old(reached) \cup new(reached) \subseteq tar[g].zones \cup includes[job[p].h][g]
  OBVIOUS
<1> HIDE DEF old, new
<1> QED BY <1>1, <1>2

(* No step breaks the types.                                               *)
LEMMA TypeStep ==
  ASSUME TypeOK, Jobs, Next
  PROVE  TypeOK'
<1>e. env' = env /\ env \in Envs /\ env' \in Envs
  BY DEF Next, TypeOK
<1>t. /\ ve \in [Hosts -> SUBSET Names] /\ ready \in [Hosts -> SUBSET Names]
      /\ section \in Sections /\ includes \in Sections /\ named \in Sections
      /\ known \in [Hosts -> SUBSET (Names \X Hosts)] /\ mixed \subseteq Hosts
      /\ tar \in [Hosts -> [there : BOOLEAN, zones : SUBSET Names]]
  BY DEF TypeOK
<1>1. PICK p \in Callers : Type(p) \/ Step(p) \/ Kill(p)
  BY DEF Next
<1>2. CASE Type(p) \/ Kill(p) \/ Looped(p) \/ Ended(p) \/ \E g \in Hosts : Check(p, g)
  BY <1>2, <1>e, <1>t DEF TypeOK, Type, Command, Kill, Looped, Ended, Check, files
<1>h. ASSUME NEW x, At(p, x)
      PROVE  job[p].h \in Hosts /\ job[p].c \in Names /\ job[p].peers \subseteq Hosts
  BY <1>h, <1>e, HereIs DEF Here, Peers
<1>3. CASE Mkdir(p) \/ Finish(p) \/ Rm(p)
  BY <1>3, <1>e, <1>t, <1>h DEF TypeOK, Mkdir, Finish, Rm, files
<1>k. ASSUME \/ Truncate(p) \/ Write(p) \/ AppendOwn(p) \/ Combine(p) \/ Empty(p)
             \/ Zones(p) \/ Restart(p) \/ Delete(p) \/ Publish(p)
             \/ \E g \in Hosts : Pull(p, g) \/ Fetch(p, g)
      PROVE  job[p].h \in Hosts /\ job[p].c \in Names /\ job[p].peers \subseteq Hosts
  <2>1. \E x : At(p, x)
    BY <1>k
       DEF Truncate, Write, AppendOwn, Combine, Empty, Zones, Restart, Delete, Publish, Pull,
                Fetch
  <2> QED BY <2>1, <1>h
<1>s. \A s \in Sections, h \in Hosts, g \in Hosts, n \in SUBSET Names :
        [s EXCEPT ![h][g] = n] \in Sections
  BY DEF Sections
<1>4. CASE Truncate(p)
  BY <1>4, <1>e, <1>t, <1>k, <1>s DEF TypeOK, Truncate
<1>5. CASE Write(p)
  <2>1. section[job[p].h][job[p].h] \cup ve[job[p].h] \in SUBSET Names
    BY <1>5, <1>t, <1>k DEF Sections
  <2> QED BY <1>5, <1>e, <1>t, <1>k, <1>s, <2>1 DEF TypeOK, Write
<1>6. CASE AppendOwn(p)
  <2>1. section[job[p].h][job[p].h] \cup {job[p].c} \in SUBSET Names
    BY <1>6, <1>t, <1>k DEF Sections
  <2> QED BY <1>6, <1>e, <1>t, <1>k, <1>s, <2>1 DEF TypeOK, AppendOwn
<1>7. CASE Combine(p)
  BY <1>7, <1>e, <1>t, <1>k DEF TypeOK, Combine
<1>e8. CASE Empty(p)
  <2>1. \A f \in [Hosts -> SUBSET Names] : [includes EXCEPT ![job[p].h] = f] \in Sections
    BY <1>t DEF Sections
  <2>2. includes' \in Sections /\ mixed' \subseteq Hosts
    BY <2>1, <1>e8, <1>t, <1>k DEF Empty
  <2> QED BY <1>e8, <1>e, <1>t, <2>2 DEF TypeOK, Empty
<1>8. CASE Zones(p)
  <2>1. includes[job[p].h][job[p].h] \cup ve[job[p].h] \in SUBSET Names
    BY <1>8, <1>t, <1>k DEF Sections
  <2> QED BY <1>8, <1>e, <1>t, <1>k, <1>s, <2>1 DEF TypeOK, Zones
<1>9. CASE Restart(p)
  <2>1. [g \in Hosts |-> {}] \in [Hosts -> SUBSET Names]
    OBVIOUS
  <2>2. \A f \in [Hosts -> SUBSET Names] : [named EXCEPT ![job[p].h] = f] \in Sections
    BY <1>t DEF Sections
  <2>3. named' \in Sections
    BY <1>9, <2>1, <2>2 DEF Restart
  <2> QED BY <1>9, <1>e, <1>t, <2>3 DEF TypeOK, Restart
<1>10. CASE Delete(p)
  BY <1>10, <1>e, <1>t, <1>k DEF TypeOK, Delete, NoTar
<1>11. CASE Publish(p)
  <2>1. PICK found \in Found(job[p].h, job[p].h) :
          tar' = [tar EXCEPT ![job[p].h] = [there |-> TRUE, zones |-> found]]
    BY <1>11 DEF Publish
  <2>2. found \in SUBSET Names
    BY <1>11, <1>t, <1>k DEF Sections, Found
  <2>3. [there |-> TRUE, zones |-> found] \in [there : BOOLEAN, zones : SUBSET Names]
    BY <2>2
  <2> QED BY <1>11, <1>e, <1>t, <1>k, <2>1, <2>3 DEF TypeOK, Publish
<1>12. ASSUME NEW g \in Hosts, Pull(p, g)
       PROVE  TypeOK'
  <2>1. section[g][g] \in SUBSET Names
    BY <1>t DEF Sections
  <2>2. PICK reached \in Reached, read \in Reached :
          section' = IF ~reached THEN section
                     ELSE [section EXCEPT ![job[p].h][g] =
                             IF read THEN section[g][g] ELSE {}]
    BY <1>12 DEF Pull
  <2>3. section' \in Sections
    BY <2>1, <2>2, <1>12, <1>t, <1>k, <1>s
  <2> QED BY <1>12, <1>e, <1>t, <2>3 DEF TypeOK, Pull
<1>13. ASSUME NEW g \in Hosts, Fetch(p, g)
       PROVE  TypeOK'
  <2>1. tar[g].zones \in SUBSET Names /\ includes[job[p].h][g] \in SUBSET Names
    BY <1>13, <1>t, <1>k DEF Sections
  <2>2. PICK z \in SUBSET Names : includes' = [includes EXCEPT ![job[p].h][g] = z]
    <3>1. \E z : /\ z \subseteq tar[g].zones \cup includes[job[p].h][g]
                 /\ includes' = [includes EXCEPT ![job[p].h][g] = z]
      BY <1>13, FetchSets
    <3> QED BY <3>1, <2>1
  <2>3. includes' \in Sections
    BY <2>2, <1>13, <1>t, <1>k, <1>s
  <2> QED BY <1>13, <1>e, <1>t, <2>3 DEF TypeOK, Fetch
<1> QED BY <1>1, <1>2, <1>3, <1>4, <1>5, <1>6, <1>7, <1>e8, <1>8, <1>9, <1>10, <1>11, <1>12, <1>13
        DEF Step

(* The steps of p, with what becomes of the command.                       *)
LEMMA JobsStep ==
  ASSUME TypeOK, Jobs, Next
  PROVE  /\ Jobs'
         /\ \E p \in Callers :
              /\ Type(p) \/ Step(p) \/ Kill(p)
              /\ Others(p)
              /\ job'[p] = NoJob \/ Keeps(p) \/ Type(p)
<1>e. env' = env /\ env \in Envs
  BY DEF Next, TypeOK
<1>1. PICK p \in Callers : Type(p) \/ Step(p) \/ Kill(p)
  BY DEF Next
<1>2. CASE Type(p)
  BY <1>2, <1>e, Begin DEF Type, Commands
<1>3. CASE Kill(p) \/ Ended(p) \/ job' = [job EXCEPT ![p] = NoJob]
  BY <1>1, <1>3, <1>e, Stop DEF Kill, Ended
<1>4. CASE \E x : At(p, x) /\ Done(p)
  BY <1>1, <1>4, <1>e, Advance
<1>5. CASE \E x : At(p, x) /\ \E g \in Hosts : Visited(p, g)
  BY <1>1, <1>5, <1>e, Visit
<1>6. Step(p) =>
        \/ Ended(p) \/ job' = [job EXCEPT ![p] = NoJob]
        \/ \E x : At(p, x) /\ (Done(p) \/ \E g \in Hosts : Visited(p, g))
  BY DEF Step, Looped, Mkdir, Finish, Rm, Truncate, Write, AppendOwn, Combine, Empty,
         Zones, Delete, Publish, Restart, Check, Pull, Fetch
<1> QED BY <1>1, <1>2, <1>3, <1>4, <1>5, <1>6

(* No step brings a name to a host that is not its home.                   *)
LEMMA HomesStep ==
  ASSUME TypeOK, Jobs, Homes, Next
  PROVE  Homes'
<1>e. /\ env' = env /\ env \in Envs
      /\ env.homes \in [Names -> SUBSET Hosts] /\ \A h : Home(h)' = Home(h)
  BY EnvType DEF Next, TypeOK, Home
<1>t. /\ ve \in [Hosts -> SUBSET Names] /\ includes \in Sections
      /\ tar \in [Hosts -> [there : BOOLEAN, zones : SUBSET Names]]
  BY DEF TypeOK
<1>f. /\ \A h \in Hosts : ve[h] \subseteq Home(h) /\ tar[h].zones \subseteq Home(h)
      /\ \A g, h \in Hosts : includes[h][g] \subseteq Home(g)
      /\ \A p \in Callers : job[p].cmd = "add" => job[p].c \in Home(job[p].h)
  BY DEF Homes
<1>1. PICK p \in Callers :
        /\ Type(p) \/ Step(p) \/ Kill(p)
        /\ Others(p)
        /\ job'[p] = NoJob \/ Keeps(p) \/ Type(p)
  BY JobsStep
<1>2. \A q \in Callers : job'[q].cmd = "add" => job'[q].c \in Home(job'[q].h)
  <2>1. CASE Type(p)
    <3>1. PICK cmd \in Commands, h \in env.at, c \in Names, exact \in BOOLEAN :
            Command(p, cmd, h, c, exact)
      BY <2>1 DEF Type, Commands
    <3>2. job'[p].cmd = cmd /\ job'[p].h = h /\ job'[p].c = c
      BY <3>1, <1>e, Begin
    <3>3. cmd = "add" => c \in Home(h)
      BY <3>1 DEF Command, Home
    <3> QED BY <3>2, <3>3, <1>1, <1>f DEF Others
  <2>2. CASE job'[p] = NoJob \/ Keeps(p)
    BY <2>2, <1>1, <1>f, NoJobType DEF Others, Keeps
  <2> QED BY <1>1, <2>1, <2>2
<1>h. ASSUME NEW x, At(p, x)
      PROVE  Here(p, x)
  BY <1>h, <1>e, HereIs
<1>3. \A h \in Hosts : ve'[h] \subseteq Home(h)
  <2>1. CASE Mkdir(p)
    BY <2>1, <1>f, <1>t, <1>h DEF Mkdir, Here, NextUp, InOrder
  <2>2. CASE Rm(p)
    BY <2>2, <1>f, <1>t, <1>h DEF Rm, Here
  <2>3. CASE ve' = ve
    BY <2>3, <1>f
  <2>4. Type(p) \/ Kill(p) \/ Step(p) => ve' = ve \/ Mkdir(p) \/ Rm(p)
    BY DEF Step, Looped, Ended, Finish, Truncate, Write, AppendOwn, Combine, Empty,
           Zones, Delete, Publish, Restart, Check, Pull, Fetch, Kill, Type, Command, files
  <2> QED BY <1>1, <2>1, <2>2, <2>3, <2>4
<1>4. \A h \in Hosts : tar'[h].zones \subseteq Home(h)
  <2>1. CASE Delete(p)
    BY <2>1, <1>f, <1>t, <1>h DEF Delete, Here, NoTar
  <2>2. CASE Publish(p)
    BY <2>2, <1>f, <1>t, <1>h DEF Publish, Here, Found
  <2>3. CASE tar' = tar
    BY <2>3, <1>f
  <2>4. Type(p) \/ Kill(p) \/ Step(p) => tar' = tar \/ Delete(p) \/ Publish(p)
    BY DEF Step, Looped, Ended, Mkdir, Finish, Rm, Truncate, Write, AppendOwn, Combine,
           Empty, Zones, Restart, Check, Pull, Fetch, Kill, Type, Command, files
  <2> QED BY <1>1, <2>1, <2>2, <2>3, <2>4
<1>5. \A g, h \in Hosts : includes'[h][g] \subseteq Home(g)
  <2>1. CASE Zones(p)
    <3>1. Here(p, "zones")
      BY <2>1, <1>h DEF Zones
    <3>2. ASSUME NEW g \in Hosts
          PROVE  includes'[job[p].h][g] \subseteq Home(g)
      <4>1. includes'[job[p].h][g] \subseteq
               includes[job[p].h][g] \cup IF g = job[p].h THEN ve[g] ELSE {}
        BY <2>1, <3>1, <1>t, ZonesSets DEF Here
      <4> QED BY <4>1, <3>1, <1>f DEF Here
    <3>3. \A g \in Hosts, h \in Hosts \ {job[p].h} : includes'[h][g] = includes[h][g]
      BY <2>1, <3>1, <1>t, ZonesSets DEF Here
    <3> QED BY <3>2, <3>3, <1>f
  <2>5. CASE Empty(p)
    <3>1. Here(p, "empty")
      BY <2>5, <1>h DEF Empty
    <3>2. \A g, h \in Hosts : includes'[h][g] \subseteq includes[h][g]
      BY <2>5, <3>1, <1>t, EmptySets DEF Here
    <3> QED BY <3>2, <1>f
  <2>2. ASSUME NEW g \in Hosts, Fetch(p, g)
        PROVE  \A f, h \in Hosts : includes'[h][f] \subseteq Home(f)
    <3>1. Here(p, "fetch")
      BY <2>2, <1>h DEF Fetch
    <3>2. PICK z : /\ z \subseteq tar[g].zones \cup includes[job[p].h][g]
                   /\ includes' = [includes EXCEPT ![job[p].h][g] = z]
      BY <2>2, FetchSets
    <3>3. z \subseteq Home(g)
      BY <3>1, <3>2, <1>f DEF Here
    <3> QED BY <3>1, <3>2, <3>3, <1>f, <1>t DEF Here, Sections
  <2>3. CASE includes' = includes
    BY <2>3, <1>f
  <2>4. Type(p) \/ Kill(p) \/ Step(p) =>
          includes' = includes \/ Empty(p) \/ Zones(p) \/ \E g \in Hosts : Fetch(p, g)
    BY DEF Step, Looped, Ended, Mkdir, Finish, Rm, Truncate, Write, AppendOwn, Combine,
           Delete, Publish, Restart, Check, Pull, Kill, Type, Command, files
  <2> QED BY <1>1, <2>1, <2>2, <2>3, <2>4, <2>5
<1> QED BY <1>2, <1>3, <1>4, <1>5, <1>e DEF Homes

(* No step puts a name on a second host.                                   *)
LEMMA ApartStep ==
  ASSUME TypeOK, Jobs, Apart, Next
  PROVE  Apart'
<1> SUFFICES ASSUME Orderly
             PROVE  /\ \A g, h \in Hosts : ve'[g] \cap ve'[h] # {} => g = h
                    /\ \A p \in Callers : Unused(p)'
  BY DEF Apart, Next, Orderly
<1>e. env' = env /\ env \in Envs /\ env.together = 1 /\ Reached = {TRUE} /\ env.faults = {}
  BY DEF Next, TypeOK, Orderly, Reached
<1>t. ve \in [Hosts -> SUBSET Names]
  BY DEF TypeOK
<1>f. /\ \A g, h \in Hosts : ve[g] \cap ve[h] # {} => g = h
      /\ \A p \in Callers : Unused(p)
  BY DEF Apart
<1>1. PICK p \in Callers :
        /\ Type(p) \/ Step(p) \/ Kill(p)
        /\ Others(p)
        /\ job'[p] = NoJob \/ Keeps(p) \/ Type(p)
  BY JobsStep
<1>2. ASSUME job[p].cmd # "none" \/ \A q \in Callers : job[q] = NoJob, Unused(p)'
      PROVE  \A q \in Callers : Unused(q)'
  BY <1>1, <1>2, <1>e, Alone DEF Unused
<1>h. ASSUME NEW x, At(p, x)
      PROVE  Here(p, x)
  BY <1>h, <1>e, HereIs
<1>d. ASSUME NEW x, At(p, x), Done(p)
      PROVE  Here(p, x) /\ DoneBy(p, x)
  BY <1>d, <1>e, <1>h, Advance DEF DoneBy
<1>3. CASE Type(p)
  <2>1. PICK cmd \in Commands, h \in env.at, c \in Names, exact \in BOOLEAN :
          Command(p, cmd, h, c, exact)
    BY <1>3 DEF Type, Commands
  <2>2. /\ h \in Hosts /\ \A q \in Callers : job[q] = NoJob
        /\ job'[p].cmd = cmd /\ job'[p].h = h /\ job'[p].c = c
        /\ job'[p].peers = Peers(h)
        /\ InOrder(Left(p)', cmd, env.kind)
        /\ cmd = "add" => "check" \in Left(p)'
    BY <2>1, <1>e, Begin
  <2>3. ve' = ve /\ (cmd = "add" => c \notin ve[h])
    BY <2>1 DEF Command
  <2>4. Unused(p)'
    BY <2>2, <2>3 DEF Unused, InOrder, Peers
  <2> QED BY <2>2, <2>3, <2>4, <1>2, <1>f
<1>4. CASE Kill(p)
  BY <1>4, <1>e DEF Kill
<1>5. CASE Ended(p) \/ (job' = [job EXCEPT ![p] = NoJob] /\ Running(job[p]) /\ ve' = ve)
  <2>1. Left(p)' = {} /\ ve' = ve /\ job[p].cmd # "none"
    BY <1>5, <1>e, Stop DEF Ended, Running, Commands
  <2> QED BY <2>1, <1>2, <1>f DEF Unused
<1>6. CASE Mkdir(p)
  <2>1. Here(p, "mkdir") /\ DoneBy(p, "mkdir")
    BY <1>6, <1>d DEF Mkdir
  <2>2. \A g \in Hosts : job[p].c \notin ve[g]
    BY <2>1, <1>f DEF Unused, Here, NextUp
  <2>3. ve' = [ve EXCEPT ![job[p].h] = @ \cup {job[p].c}]
    BY <1>6 DEF Mkdir
  <2>4. \A g, h \in Hosts : ve'[g] \cap ve'[h] # {} => g = h
    BY <2>1, <2>2, <2>3, <1>t, <1>f DEF Here
  <2>5. Unused(p)'
    BY <2>1 DEF Unused, DoneBy
  <2> QED BY <2>1, <2>4, <2>5, <1>2 DEF Here
<1>7. CASE Rm(p)
  <2>1. Here(p, "rm") /\ DoneBy(p, "rm")
    BY <1>7, <1>d DEF Rm
  <2>2. ve' = [ve EXCEPT ![job[p].h] = @ \ {job[p].c}]
    BY <1>7 DEF Rm
  <2>3. \A g, h \in Hosts : ve'[g] \cap ve'[h] # {} => g = h
    BY <2>1, <2>2, <1>t, <1>f DEF Here
  <2>4. Unused(p)'
    BY <2>1 DEF Unused, DoneBy, Here, NextUp, InOrder
  <2> QED BY <2>1, <2>3, <2>4, <1>2 DEF Here
<1>8. ASSUME NEW x, At(p, x), Done(p), x \notin {"mkdir", "rm", "check"}, ve' = ve
      PROVE  /\ \A g, h \in Hosts : ve'[g] \cap ve'[h] # {} => g = h
             /\ \A q \in Callers : Unused(q)'
  <2>1. Here(p, x) /\ DoneBy(p, x)
    BY <1>8, <1>d
  <2>2. Unused(p)'
    BY <2>1, <1>8, <1>f DEF Unused, DoneBy, Here, Keeps
  <2> QED BY <2>1, <2>2, <1>2, <1>8, <1>f DEF Here
<1>9. CASE Looped(p)
  <2>1. PICK x \in {"check", "pull", "fetch"} : At(p, x)
    BY <1>9 DEF Looped
  <2>2. Done(p) /\ ve' = ve /\ job[p].peers = {}
    BY <1>9 DEF Looped
  <2>3. CASE x = "check"
    <3>1. Here(p, x) /\ DoneBy(p, x)
      BY <2>1, <2>2, <1>d
    <3>2. Unused(p)'
      BY <3>1, <2>2, <1>f DEF Unused, DoneBy, Keeps
    <3> QED BY <2>2, <3>1, <3>2, <1>2, <1>f DEF Here
  <2> QED BY <2>1, <2>2, <2>3, <1>8
<1>10. CASE \/ Finish(p) \/ Truncate(p) \/ Write(p) \/ AppendOwn(p) \/ Combine(p)
            \/ Empty(p) \/ Zones(p) \/ Delete(p) \/ Publish(p)
            \/ (Restart(p) /\ Done(p))
  <2>1. PICK x \in {"finish", "truncate", "write", "append", "combine", "empty", "zones",
                    "delete", "publish", "restart"} : At(p, x) /\ Done(p)
    BY <1>10
       DEF Finish, Truncate, Write, AppendOwn, Combine, Empty, Zones, Delete, Publish, Restart
  <2>2. ve' = ve
    BY <1>10
       DEF Finish, Truncate, Write, AppendOwn, Combine, Empty, Zones, Delete, Publish, Restart
  <2> QED BY <2>1, <2>2, <1>8
<1>11. ASSUME NEW g \in Hosts, Check(p, g) \/ Pull(p, g) \/ Fetch(p, g), Visited(p, g)
       PROVE  /\ \A f, h \in Hosts : ve'[f] \cap ve'[h] # {} => f = h
              /\ \A q \in Callers : Unused(q)'
  <2>1. PICK x \in {"check", "pull", "fetch"} : At(p, x)
    BY <1>11 DEF Check, Pull, Fetch
  <2>2. Here(p, x)
    BY <2>1, <1>h
  <2>3. /\ Keeps(p) /\ Left(p)' = Left(p) /\ job'[p].peers = job[p].peers \ {g}
    BY <2>1, <1>11, <1>e, Visit
  <2>4. ve' = ve
    BY <1>11 DEF Check, Pull, Fetch
  <2>5. Unused(p)'
    <3>1. CASE ~Check(p, g)
      <4>1. "check" \notin Left(p)
        BY <2>1, <2>2, <3>1, <1>11 DEF Here, NextUp, Check, Pull, Fetch, At
      <4> QED BY <4>1, <2>3, <2>4, <1>f DEF Unused, Keeps
    <3>2. CASE Check(p, g)
      <4>1. job[p].exact
        BY <2>2, <1>e DEF Here
      <4>2. job[p].c \notin ve[g]
        <5> SUFFICES ASSUME job[p].c \in ve[g]
                     PROVE  FALSE
          OBVIOUS
        <5>1. job' = [job EXCEPT ![p] = NoJob]
          BY <3>2, <4>1, <1>e DEF Check
        <5> QED BY <5>1, <2>2, <2>3, <1>e, Stop, NoJobType DEF Keeps, Here
      <4> QED BY <4>2, <2>3, <2>4, <1>f DEF Unused, Keeps
    <3> QED BY <3>1, <3>2
  <2> QED BY <2>2, <2>4, <2>5, <1>2, <1>f DEF Here
<1>12. CASE \E g \in Hosts : Check(p, g) \/ Pull(p, g) \/ Fetch(p, g)
  <2>1. PICK g \in Hosts : Check(p, g) \/ Pull(p, g) \/ Fetch(p, g)
    BY <1>12
  <2>2. Visited(p, g) \/ (job' = [job EXCEPT ![p] = NoJob] /\ ve' = ve)
    BY <2>1 DEF Check, Pull, Fetch
  <2>3. \E x : At(p, x)
    BY <2>1 DEF Check, Pull, Fetch
  <2>4. Running(job[p])
    BY <2>3, AtRuns DEF At
  <2> QED BY <2>1, <2>2, <2>4, <1>5, <1>11
<1>13. CASE Restart(p) /\ job' = [job EXCEPT ![p] = NoJob]
  <2>1. Running(job[p]) /\ ve' = ve
    BY <1>13, AtRuns DEF Restart, At
  <2> QED BY <1>13, <2>1, <1>5
<1> QED BY <1>1, <1>3, <1>4, <1>5, <1>6, <1>7, <1>9, <1>10, <1>12, <1>13 DEF Step, Restart

(* Where every name has its home it has no other.                          *)
LEMMA SettledHome ==
  ASSUME env \in Envs, Settled, NEW c \in Names,
         NEW g \in env.homes[c], NEW h \in env.homes[c]
  PROVE  g = h
<1>1. env.homes[c] \subseteq Hosts /\ IsFiniteSet(Hosts)
  BY EnvType, ConstantsAssumption
<1>2. IsFiniteSet(env.homes[c]) /\ Cardinality(env.homes[c]) \in Nat
  BY <1>1, FS_Subset, FS_CardinalityType
<1>3. Cardinality(env.homes[c]) <= 1
  BY DEF Settled
<1>4. Cardinality({g, h}) <= Cardinality(env.homes[c])
  BY <1>2, FS_Subset
<1>5. ASSUME g # h
      PROVE  Cardinality({g, h}) = 2
  <2>1. IsFiniteSet({g}) /\ Cardinality({g}) = 1
    BY FS_Singleton
  <2>2. Cardinality({g} \cup {h}) = 2
    <3>1. Cardinality({g} \cup {h}) = Cardinality({g}) + 1
      BY <2>1, <1>5, FS_AddElement
    <3> QED BY <2>1, <3>1
  <2>3. {g} \cup {h} = {g, h}
    OBVIOUS
  <2> QED BY <2>2, <2>3
<1> QED BY <1>2, <1>3, <1>4, <1>5

(* The name server of a host is not given a zone twice.                    *)
LEMMA LoadsThere ==
  ASSUME TypeOK, Jobs, Homes, Apart, Fresh, Settled \/ Orderly,
         NEW p \in Callers, At(p, "restart")
  PROVE  Loads(includes[job[p].h])
<1>1. env \in Envs /\ includes \in Sections /\ ve \in [Hosts -> SUBSET Names]
  BY DEF TypeOK
<1>2. Here(p, "restart")
  BY <1>1, HereIs
<1>3. CASE Orderly
  <2>1. \A g \in Hosts : includes[job[p].h][g] = ve[g]
    BY <1>2, <1>3 DEF Fresh, Included, Ahead, Here, NextUp, InOrder
  <2> QED BY <2>1, <1>3 DEF Loads, Apart
<1>4. CASE Settled
  <2>1. ASSUME NEW g \in Hosts, NEW h \in Hosts, NEW c \in Home(g) \cap Home(h)
        PROVE  g = h
    BY <2>1, <1>1, <1>4, SettledHome DEF Home
  <2> QED BY <2>1, <1>2 DEF Homes, Loads, Here
<1> QED BY <1>3, <1>4

(* So it starts with what is there, where no other command wrote to that.  *)
LEMMA Restarted ==
  ASSUME TypeOK, Jobs, Unmixed, Homes, Apart, Fresh, Settled \/ Orderly,
         "overlap" \notin env.faults, NEW p \in Callers, Restart(p)
  PROVE  /\ At(p, "restart") /\ Done(p)
         /\ UNCHANGED <<ve, ready, section, known, tar, includes>>
         /\ named' = [named EXCEPT ![job[p].h] = includes[job[p].h]]
<1> DEFINE h == job[p].h
<1>1. At(p, "restart") /\ UNCHANGED <<ve, ready, section, known, tar, includes>>
  BY DEF Restart
<1>2. mixed = {} /\ Loads(includes[h]) /\ h \in Hosts
  BY <1>1, LoadsThere, HereIs DEF Unmixed, TypeOK, Here
<1>3. PICK found \in [Hosts -> SUBSET Names] :
        /\ \A g \in Hosts : found[g] \in Found(h, g)
        /\ named' = [named EXCEPT ![h] = found] /\ Done(p)
  BY <1>2 DEF Restart
<1>4. includes[h] \in [Hosts -> SUBSET Names]
  BY <1>2 DEF TypeOK, Sections
<1>5. \A g \in Hosts : found[g] = includes[h][g]
  BY <1>2, <1>3 DEF Found
<1>6. found = includes[h]
  BY <1>4, <1>5
<1> QED BY <1>1, <1>3, <1>6
-----------------------------------------------------------------------------
(* A container is ready unless its add has still to finish.                *)
Open(p) == job[p].cmd = "add" /\ "mkdir" \notin Left(p) /\ "finish" \in Left(p)

OpenAt(h, c) == \E p \in Callers : Open(p) /\ job[p].h = h /\ job[p].c = c

Undisturbed == Orderly \/ (Settled /\ env.faults \cap {"kill", "overlap"} = {})

Opened ==
  Undisturbed =>
    \A h \in Hosts, c \in Names : c \in ve[h] <=> c \in ready[h] \/ OpenAt(h, c)

(* No step leaves a container half made.                                   *)
LEMMA OpenedStep ==
  ASSUME TypeOK, Jobs, Unmixed, Homes, Apart, Fresh, Opened, Next
  PROVE  Opened'
<1> SUFFICES ASSUME Undisturbed
             PROVE  \A h \in Hosts, c \in Names :
                      c \in ve'[h] <=> c \in ready'[h] \/ OpenAt(h, c)'
  BY DEF Opened, Undisturbed, Next, Orderly, Settled
<1>e. env' = env /\ env \in Envs
  BY DEF Next, TypeOK
<1>t. ve \in [Hosts -> SUBSET Names] /\ ready \in [Hosts -> SUBSET Names]
  BY DEF TypeOK
<1>f. \A h \in Hosts, c \in Names : c \in ve[h] <=> c \in ready[h] \/ OpenAt(h, c)
  BY DEF Opened
<1>1. PICK p \in Callers :
        /\ Type(p) \/ Step(p) \/ Kill(p)
        /\ Others(p)
        /\ job'[p] = NoJob \/ Keeps(p) \/ Type(p)
  BY JobsStep
<1>o. \A q \in Callers \ {p} : job'[q] = job[q] /\ (Open(q)' <=> Open(q))
  BY <1>1 DEF Others, Open, Left
<1>2. ASSUME UNCHANGED <<ve, ready>>, ~Open(p), ~Open(p)'
      PROVE  \A h \in Hosts, c \in Names : c \in ve'[h] <=> c \in ready'[h] \/ OpenAt(h, c)'
  BY <1>2, <1>o, <1>f DEF OpenAt
<1>3. ASSUME UNCHANGED <<ve, ready>>, Keeps(p), Open(p)' <=> Open(p)
      PROVE  \A h \in Hosts, c \in Names : c \in ve'[h] <=> c \in ready'[h] \/ OpenAt(h, c)'
  BY <1>3, <1>o, <1>f DEF OpenAt, Keeps
<1>h. ASSUME NEW x, At(p, x)
      PROVE  Here(p, x)
  BY <1>h, <1>e, HereIs
<1>d. ASSUME NEW x, At(p, x), Done(p)
      PROVE  Here(p, x) /\ DoneBy(p, x)
  BY <1>d, <1>e, <1>h, Advance DEF DoneBy
<1>4. CASE Type(p)
  <2>1. PICK cmd \in Commands, h \in env.at, c \in Names, exact \in BOOLEAN :
          Command(p, cmd, h, c, exact)
    BY <1>4 DEF Type, Commands
  <2>2. /\ job[p] = NoJob /\ job'[p].cmd = cmd
        /\ InOrder(Left(p)', cmd, env.kind)
        /\ cmd = "add" => "check" \in Left(p)'
    BY <2>1, <1>e, Begin
  <2>3. UNCHANGED <<ve, ready>>
    BY <2>1 DEF Command
  <2>4. ~Open(p) /\ ~Open(p)'
    BY <2>2, NoJobType DEF Open, InOrder
  <2> QED BY <2>3, <2>4, <1>2
<1>5. CASE Kill(p)
  BY <1>5, <1>e DEF Kill, Undisturbed, Orderly
<1>6. ASSUME UNCHANGED <<ve, ready>>, ~Open(p), job' = [job EXCEPT ![p] = NoJob]
      PROVE  \A h \in Hosts, c \in Names : c \in ve'[h] <=> c \in ready'[h] \/ OpenAt(h, c)'
  <2>1. ~Open(p)'
    BY <1>6, <1>e, Stop DEF Open
  <2> QED BY <2>1, <1>6, <1>2
<1>7. CASE Ended(p)
  <2>1. ~Open(p) /\ UNCHANGED <<ve, ready>> /\ job' = [job EXCEPT ![p] = NoJob]
    BY <1>7, NoJobType DEF Ended, Open, Left
  <2> QED BY <2>1, <1>6
<1>8. CASE Mkdir(p)
  <2>1. Here(p, "mkdir") /\ DoneBy(p, "mkdir")
    BY <1>8, <1>d DEF Mkdir
  <2>2. ~Open(p) /\ Open(p)'
    BY <2>1 DEF Open, DoneBy, Keeps, Here, NextUp, InOrder
  <2>3. ve' = [ve EXCEPT ![job[p].h] = @ \cup {job[p].c}] /\ ready' = ready
    BY <1>8 DEF Mkdir
  <2>4. ASSUME NEW h \in Hosts, NEW c \in Names
        PROVE  OpenAt(h, c)' <=> OpenAt(h, c) \/ (h = job[p].h /\ c = job[p].c)
    BY <2>1, <2>2, <1>o DEF OpenAt, DoneBy, Keeps
  <2> QED BY <2>1, <2>3, <2>4, <1>t, <1>f DEF Here
<1>9. CASE Finish(p)
  <2>1. Here(p, "finish") /\ DoneBy(p, "finish")
    BY <1>9, <1>d DEF Finish
  <2>2. Open(p) /\ ~Open(p)'
    BY <2>1 DEF Open, DoneBy, Keeps, Here, NextUp, InOrder
  <2>3. ready' = [ready EXCEPT ![job[p].h] = @ \cup {job[p].c}] /\ ve' = ve
    BY <1>9 DEF Finish
  <2>4. ASSUME NEW h \in Hosts, NEW c \in Names
        PROVE  OpenAt(h, c) <=> OpenAt(h, c)' \/ (h = job[p].h /\ c = job[p].c)
    BY <2>1, <2>2, <1>o DEF OpenAt, DoneBy, Keeps
  <2> QED BY <2>1, <2>3, <2>4, <1>t, <1>f DEF Here
<1>10. CASE Rm(p)
  <2>1. Here(p, "rm") /\ DoneBy(p, "rm")
    BY <1>10, <1>d DEF Rm
  <2>2. ~Open(p) /\ ~Open(p)'
    BY <2>1 DEF Open, DoneBy, Keeps, Here, NextUp, InOrder
  <2>3. /\ ve' = [ve EXCEPT ![job[p].h] = @ \ {job[p].c}]
        /\ ready' = [ready EXCEPT ![job[p].h] = @ \ {job[p].c}]
    BY <1>10 DEF Rm
  <2>4. ASSUME NEW q \in Callers, Open(q)
        PROVE  job[q].h # job[p].h
    <3>1. job[q].cmd # "none" /\ q # p
      BY <2>2, <2>4 DEF Open
    <3> QED BY <3>1, <2>1 DEF Jobs, Here, Undisturbed, Orderly
  <2>5. ASSUME NEW h \in Hosts, NEW c \in Names
        PROVE  (OpenAt(h, c)' <=> OpenAt(h, c)) /\ (OpenAt(h, c) => h # job[p].h)
    BY <2>2, <2>4, <1>o DEF OpenAt
  <2> QED BY <2>1, <2>3, <2>5, <1>t, <1>f DEF Here
<1>11. ASSUME NEW x, At(p, x), Done(p), x \notin {"mkdir", "finish"}, UNCHANGED <<ve, ready>>
       PROVE  \A h \in Hosts, c \in Names : c \in ve'[h] <=> c \in ready'[h] \/ OpenAt(h, c)'
  <2>1. Here(p, x) /\ DoneBy(p, x)
    BY <1>11, <1>d
  <2>2. Keeps(p) /\ (Open(p)' <=> Open(p))
    BY <2>1, <1>11 DEF Open, DoneBy, Keeps
  <2> QED BY <2>2, <1>3, <1>11
<1>12. CASE \/ Looped(p) \/ Truncate(p) \/ Write(p) \/ AppendOwn(p) \/ Combine(p)
            \/ Empty(p) \/ Zones(p) \/ Delete(p) \/ Publish(p)
  <2>1. PICK x \in Word \ {"mkdir", "finish"} : At(p, x) /\ Done(p)
    BY <1>12
       DEF Looped, Truncate, Write, AppendOwn, Combine, Empty, Zones, Delete, Publish, Word
  <2>2. UNCHANGED <<ve, ready>>
    BY <1>12 DEF Looped, Truncate, Write, AppendOwn, Combine, Empty, Zones, Delete, Publish
  <2> QED BY <2>1, <2>2, <1>11
<1>13. CASE Restart(p)
  <2>1. "overlap" \notin env.faults /\ (Settled \/ Orderly)
    BY DEF Undisturbed, Orderly
  <2>2. At(p, "restart") /\ Done(p) /\ UNCHANGED <<ve, ready>>
    BY <1>13, <2>1, Restarted
  <2> QED BY <2>2, <1>11
<1>14. ASSUME NEW g \in Hosts, Check(p, g) \/ Pull(p, g) \/ Fetch(p, g)
       PROVE  \A h \in Hosts, c \in Names : c \in ve'[h] <=> c \in ready'[h] \/ OpenAt(h, c)'
  <2>1. UNCHANGED <<ve, ready>>
    BY <1>14 DEF Check, Pull, Fetch
  <2>2. PICK x : /\ At(p, x)
                 /\ Visited(p, g) \/ (x = "check" /\ job' = [job EXCEPT ![p] = NoJob])
    BY <1>14 DEF Check, Pull, Fetch
  <2>3. CASE Visited(p, g)
    <3>1. Keeps(p) /\ Left(p)' = Left(p)
      BY <2>2, <2>3, <1>14, <1>e, Visit
    <3> QED BY <3>1, <2>1, <1>3 DEF Open, Keeps
  <2>4. CASE x = "check" /\ job' = [job EXCEPT ![p] = NoJob]
    <3>1. ~Open(p)
      BY <2>2, <2>4, <1>h DEF Here, NextUp, InOrder, Open
    <3> QED BY <3>1, <2>1, <2>4, <1>6
  <2> QED BY <2>2, <2>3, <2>4
<1> QED BY <1>1, <1>4, <1>5, <1>7, <1>8, <1>9, <1>10, <1>12, <1>13, <1>14 DEF Step

-----------------------------------------------------------------------------
(* The own section of a host names its containers unless a command has     *)
(* still to write them there.                                              *)
Stale(p) == "write" \in Left(p) /\ "mkdir" \notin Left(p)
Appends(p) == "append" \in Left(p) /\ "mkdir" \notin Left(p)

Held(g) ==
  \/ \E p \in Callers : job[p].h = g /\ Stale(p)
  \/ /\ \A c \in ve[g] : \/ c \in section[g][g]
                         \/ \E p \in Callers : job[p].h = g /\ job[p].c = c /\ Appends(p)
     /\ env.kind # "ssh_config" => section[g][g] = ve[g]

(* It is empty before they are written there.                              *)
Emptied(p) ==
  "write" \in Left(p) => "truncate" \in Left(p) \/ section[job[p].h][job[p].h] = {}

Own == Orderly => (\A g \in Hosts : Held(g)) /\ (\A p \in Callers : Emptied(p))

(* What a regenerate has done so far, on the host it runs on.              *)
Knows(h) ==
  /\ \A g \in Hosts : \A c \in ve[g] : <<c, g>> \in known[h]
  /\ env.kind # "ssh_config" => \A d \in known[h] : d[1] \in ve[d[2]]

Pulled(p) ==
  \A g \in Hosts : \/ "pull" \in Left(p) /\ g \in job[p].peers
                   \/ section[job[p].h][g] = section[g][g]

Progress(p) ==
  /\ "write" \notin Left(p) /\ "combine" \in Left(p) => Pulled(p)
  /\ "combine" \notin Left(p) => Knows(job[p].h)
  /\ "restart" \notin Left(p) => named[job[p].h] = ve

Gathered == Orderly => \A p \in Callers : job[p].cmd = "regenerate" => Progress(p)

(* A section is only written after it is emptied.                          *)
LEMMA EmptiedStep ==
  ASSUME TypeOK, Jobs, Own, Next, Orderly
  PROVE  \A p \in Callers : Emptied(p)'
<1>e. env' = env /\ env \in Envs
  BY DEF Next, TypeOK
<1>t. section \in Sections
  BY DEF TypeOK
<1>1. PICK p \in Callers :
        /\ Type(p) \/ Step(p) \/ Kill(p)
        /\ Others(p)
        /\ job'[p] = NoJob \/ Keeps(p) \/ Type(p)
  BY JobsStep
<1>2. ASSUME job[p].cmd # "none" \/ \A q \in Callers : job[q] = NoJob, Emptied(p)'
      PROVE  \A q \in Callers : Emptied(q)'
  BY <1>1, <1>2, <1>e, Alone DEF Emptied
<1>3. CASE Type(p)
  <2>1. PICK cmd \in Commands, h \in env.at, c \in Names, exact \in BOOLEAN :
          Command(p, cmd, h, c, exact)
    BY <1>3 DEF Type, Commands
  <2>2. /\ \A q \in Callers : job[q] = NoJob
        /\ "write" \in Left(p)' => "truncate" \in Left(p)'
    BY <2>1, <1>e, Begin DEF Orderly
  <2> QED BY <2>2, <1>2 DEF Emptied
<1>4. CASE Kill(p)
  BY <1>4 DEF Kill, Orderly
<1>5. CASE job' = [job EXCEPT ![p] = NoJob] /\ job[p].cmd # "none"
  <2>1. Left(p)' = {}
    BY <1>5, <1>e, Stop
  <2> QED BY <2>1, <1>5, <1>2 DEF Emptied
<1>6. ASSUME NEW x, At(p, x)
      PROVE  /\ Here(p, x) /\ Emptied(p)
             /\ Done(p) => DoneBy(p, x)
             /\ \A g \in Hosts : Visited(p, g) => Keeps(p) /\ Left(p)' = Left(p)
  BY <1>6, <1>e, HereIs, Advance, Visit DEF DoneBy, Own
<1>7. CASE Truncate(p) \/ Write(p) \/ AppendOwn(p)
  <2>1. PICK x \in {"truncate", "write", "append"} : At(p, x)
    BY <1>7 DEF Truncate, Write, AppendOwn
  <2>2. Here(p, x) /\ DoneBy(p, x)
    BY <2>1, <1>6, <1>7 DEF Truncate, Write, AppendOwn
  <2>3. x = "truncate" => section'[job[p].h][job[p].h] = {}
    BY <2>1, <2>2, <1>7, <1>t DEF Truncate, Write, AppendOwn, At, Here, Sections
  <2>4. Emptied(p)'
    BY <2>1, <2>2, <2>3 DEF Emptied, Here, NextUp, InOrder, DoneBy, Keeps
  <2> QED BY <2>2, <2>4, <1>2 DEF Here
<1>8. ASSUME NEW x \in Word \ {"truncate"}, At(p, x), section' = section,
             Done(p) \/ \E g \in Hosts : Visited(p, g)
      PROVE  \A q \in Callers : Emptied(q)'
  <2>1. Here(p, x) /\ Keeps(p) /\ Left(p)' \in {Left(p), Left(p) \ {x}} /\ Emptied(p)
    BY <1>8, <1>6 DEF DoneBy
  <2>2. Emptied(p)'
    BY <2>1, <1>8 DEF Emptied, Keeps
  <2> QED BY <2>1, <2>2, <1>2 DEF Here
<1>9. CASE \/ Looped(p) \/ Mkdir(p) \/ Finish(p) \/ Rm(p) \/ Combine(p)
           \/ Empty(p) \/ Zones(p) \/ Delete(p) \/ Publish(p) \/ Restart(p)
  <2>1. PICK x \in Word \ {"truncate"} :
          At(p, x) /\ (Done(p) \/ job' = [job EXCEPT ![p] = NoJob])
    BY <1>9
       DEF Looped, Mkdir, Finish, Rm, Combine, Empty, Zones, Delete, Publish, Restart, Word
  <2>2. section' = section /\ job[p].cmd # "none"
    BY <1>9, <2>1, <1>6
       DEF Looped, Mkdir, Finish, Rm, Combine, Empty, Zones, Delete, Publish, Restart, files, Here
  <2> QED BY <2>1, <2>2, <1>5, <1>8
<1>10. ASSUME NEW g \in Hosts, Check(p, g) \/ Pull(p, g) \/ Fetch(p, g)
       PROVE  \A q \in Callers : Emptied(q)'
  <2>1. PICK x \in {"check", "pull", "fetch"} :
          /\ At(p, x) /\ g \in job[p].peers
          /\ Visited(p, g) \/ job' = [job EXCEPT ![p] = NoJob]
    BY <1>10 DEF Check, Pull, Fetch
  <2>2. Here(p, x) /\ g # job[p].h
    BY <2>1, <1>6 DEF Here, Peers
  <2>3. CASE Visited(p, g)
    <3>1. Keeps(p) /\ Left(p)' = Left(p) /\ Emptied(p)
      BY <2>1, <2>3, <1>10, <1>6
    <3>2. section'[job[p].h][job[p].h] = section[job[p].h][job[p].h]
      <4>1. CASE Pull(p, g)
        <5>1. PICK z \in {section, [section EXCEPT ![job[p].h][g] = section[g][g]],
                          [section EXCEPT ![job[p].h][g] = {}]} : section' = z
          BY <4>1 DEF Pull
        <5> QED BY <5>1, <2>2, <1>t DEF Sections, Here
      <4>2. CASE ~Pull(p, g)
        BY <4>2, <1>10 DEF Check, Fetch, files
      <4> QED BY <4>1, <4>2
    <3>3. Emptied(p)'
      BY <3>1, <3>2 DEF Emptied, Keeps
    <3> QED BY <2>2, <3>3, <1>2 DEF Here
  <2> QED BY <2>1, <2>2, <2>3, <1>5 DEF Here
<1> QED BY <1>1, <1>3, <1>4, <1>5, <1>7, <1>9, <1>10 DEF Step, Ended

(* No step leaves the own section behind the containers for good.          *)
LEMMA OwnStep ==
  ASSUME TypeOK, Jobs, Unmixed, Homes, Apart, Fresh, Own, Next
  PROVE  Own'
<1> SUFFICES ASSUME Orderly
             PROVE  \A g \in Hosts : Held(g)'
  BY EmptiedStep DEF Own, Next, Orderly
<1>e. env' = env /\ env \in Envs
  BY DEF Next, TypeOK
<1>t. ve \in [Hosts -> SUBSET Names] /\ section \in Sections
  BY DEF TypeOK
<1>1. PICK p \in Callers :
        /\ Type(p) \/ Step(p) \/ Kill(p)
        /\ Others(p)
        /\ job'[p] = NoJob \/ Keeps(p) \/ Type(p)
  BY JobsStep
(* Nobody else is at work: Held in terms of p.                             *)
<1> DEFINE Has(g) == /\ \A c \in ve[g] : \/ c \in section[g][g]
                                         \/ job[p].h = g /\ job[p].c = c /\ Appends(p)
                     /\ env.kind # "ssh_config" => section[g][g] = ve[g]
           Held1(g) == (job[p].h = g /\ Stale(p)) \/ Has(g)
<1>2. ASSUME job[p].cmd # "none" \/ \A q \in Callers : job[q] = NoJob
      PROVE  \A g \in Hosts : Held1(g) /\ (Held1(g)' => Held(g)')
  <2>1. \A q \in Callers \ {p} : ~Stale(q) /\ ~Appends(q)
    BY <1>1, <1>2, <1>e, Alone DEF Stale, Appends
  <2>2. \A g \in Hosts : Held(g)
    BY DEF Own
  <2>3. \A g \in Hosts : Held1(g)
    BY <2>1, <2>2 DEF Held
  <2>4. \A g \in Hosts : Held1(g)' => Held(g)'
    BY DEF Held
  <2> QED BY <2>3, <2>4
<1>h. ASSUME NEW x, At(p, x)
      PROVE  Here(p, x)
  BY <1>h, <1>e, HereIs
<1>d. ASSUME NEW x, At(p, x), Done(p)
      PROVE  /\ Here(p, x) /\ DoneBy(p, x)
             /\ \A g \in Hosts : Held1(g) /\ (Held1(g)' => Held(g)')
  <2>1. Here(p, x) /\ DoneBy(p, x)
    BY <1>d, <1>e, <1>h, Advance DEF DoneBy
  <2> QED BY <2>1, <1>2 DEF Here
<1>4. CASE Type(p)
  <2>1. PICK cmd \in Commands, h \in env.at, c \in Names, exact \in BOOLEAN :
          Command(p, cmd, h, c, exact)
    BY <1>4 DEF Type, Commands
  <2>2. /\ job[p] = NoJob /\ \A q \in Callers : job[q] = NoJob
    BY <2>1, <1>e, Begin DEF Orderly
  <2>3. UNCHANGED <<ve, section>>
    BY <2>1 DEF Command, files
  <2>4. ~Stale(p) /\ ~Appends(p)
    BY <2>2, NoJobType DEF Stale, Appends, Left
  <2>5. \A g \in Hosts : Held1(g)'
    BY <2>2, <2>3, <2>4, <1>2, <1>e
  <2> HIDE DEF Held1
  <2> QED BY <2>2, <2>5, <1>2
<1>5. CASE Kill(p)
  BY <1>5, <1>e DEF Kill, Orderly
(* The command ends, or is stopped before it has done a thing.             *)
<1>6. ASSUME UNCHANGED <<ve, section>>, job[p].cmd # "none", ~Stale(p), ~Appends(p)
      PROVE  \A g \in Hosts : Held(g)'
  <2>1. \A g \in Hosts : Held1(g)'
    BY <1>6, <1>2, <1>e
  <2> HIDE DEF Held1
  <2> QED BY <2>1, <1>6, <1>2
<1>7. CASE Ended(p)
  <2>1. ~Stale(p) /\ ~Appends(p) /\ UNCHANGED <<ve, section>> /\ job[p].cmd # "none"
    BY <1>7, NoJobType DEF Ended, Stale, Appends, Left, files
  <2> QED BY <2>1, <1>6
<1>8. CASE Mkdir(p)
  <2>1. /\ Here(p, "mkdir") /\ DoneBy(p, "mkdir")
        /\ \A g \in Hosts : Held1(g) /\ (Held1(g)' => Held(g)')
    BY <1>8, <1>d DEF Mkdir
  <2>2. /\ ve' = [ve EXCEPT ![job[p].h] = @ \cup {job[p].c}] /\ section' = section
    BY <1>8 DEF Mkdir, files
  <2>3. ~Stale(p) /\ ~Appends(p)
    BY <2>1 DEF Stale, Appends, Here, NextUp
  <2>4. IF env.kind = "ssh_config" THEN Appends(p)' ELSE Stale(p)'
    BY <2>1 DEF Stale, Appends, Here, NextUp, InOrder, DoneBy
  <2>5. ASSUME NEW g \in Hosts
        PROVE  Held1(g)'
    <3>1. Has(g) /\ job'[p].h = job[p].h /\ job'[p].c = job[p].c
      BY <2>1, <2>3 DEF DoneBy, Keeps
    <3>2. ve'[g] = IF g = job[p].h THEN ve[g] \cup {job[p].c} ELSE ve[g]
      BY <2>2, <1>t
    <3>3. CASE env.kind # "ssh_config" /\ g = job[p].h
      BY <3>1, <3>3, <2>4
    <3>4. CASE g # job[p].h
      BY <3>1, <3>2, <3>4, <2>2, <2>3, <1>e
    <3>5. CASE env.kind = "ssh_config" /\ g = job[p].h
      <4>1. \A c \in ve[g] : c \in section[g][g]
        BY <3>1, <2>3
      <4> QED BY <3>1, <3>2, <3>5, <4>1, <2>2, <2>4, <1>e
    <3> QED BY <3>3, <3>4, <3>5
  <2> HIDE DEF Held1
  <2> QED BY <2>1, <2>5
<1>9. CASE Rm(p)
  <2>1. /\ Here(p, "rm") /\ DoneBy(p, "rm")
        /\ \A g \in Hosts : Held1(g) /\ (Held1(g)' => Held(g)')
    BY <1>9, <1>d DEF Rm
  <2>2. /\ ve' = [ve EXCEPT ![job[p].h] = @ \ {job[p].c}] /\ section' = section
    BY <1>9 DEF Rm, files
  <2>3. /\ ~Appends(p) /\ job'[p].h = job[p].h
        /\ IF env.kind = "ssh_config" THEN TRUE ELSE Stale(p)'
    BY <2>1 DEF Stale, Appends, Here, NextUp, InOrder, DoneBy, Keeps
  <2>4. Stale(p) => Stale(p)'
    BY <2>1 DEF Stale, DoneBy
  <2>5. ASSUME NEW g \in Hosts
        PROVE  Held1(g)'
    <3>1. Held1(g)
      BY <2>1
    <3>2. ve'[g] \subseteq ve[g] /\ (g # job[p].h => ve'[g] = ve[g])
      BY <2>2, <1>t
    <3> QED BY <3>1, <3>2, <2>2, <2>3, <2>4, <1>e
  <2> HIDE DEF Held1
  <2> QED BY <2>1, <2>5
<1>10. ASSUME NEW x, At(p, x), Done(p), x \notin {"mkdir", "rm", "write", "append"},
              ve' = ve, \A g \in Hosts : g # job[p].h => section'[g][g] = section[g][g],
              x = "truncate" \/ \A g \in Hosts : section'[g][g] = section[g][g]
       PROVE  \A g \in Hosts : Held(g)'
  <2>1. /\ Here(p, x) /\ DoneBy(p, x)
        /\ \A g \in Hosts : Held1(g) /\ (Held1(g)' => Held(g)')
    BY <1>10, <1>d
  <2>2. (Stale(p)' <=> Stale(p)) /\ (Appends(p)' <=> Appends(p)) /\ Keeps(p)
    BY <2>1, <1>10 DEF Stale, Appends, DoneBy
  <2>3. x = "truncate" => Stale(p)
    BY <2>1 DEF Stale, Here, NextUp, InOrder
  <2>4. ASSUME NEW g \in Hosts
        PROVE  Held1(g)'
    <3>1. Held1(g)
      BY <2>1
    <3> QED BY <3>1, <2>2, <2>3, <1>10, <1>e DEF Keeps
  <2> HIDE DEF Held1
  <2> QED BY <2>1, <2>4
<1>11. CASE Truncate(p)
  <2>1. At(p, "truncate") /\ Done(p) /\ ve' = ve
    BY <1>11 DEF Truncate
  <2>2. \A g \in Hosts : g # job[p].h => section'[g][g] = section[g][g]
    BY <1>11, <2>1, <1>h, <1>t DEF Truncate, Sections, Here
  <2> QED BY <2>1, <2>2, <1>10
<1>12. CASE \/ Looped(p) \/ Finish(p) \/ Combine(p)
            \/ Empty(p) \/ Zones(p) \/ Delete(p) \/ Publish(p)
  <2>1. PICK x \in Word \ {"mkdir", "rm", "write", "append"} : At(p, x) /\ Done(p)
    BY <1>12 DEF Looped, Finish, Combine, Empty, Zones, Delete, Publish, Word
  <2>2. UNCHANGED <<ve, section>>
    BY <1>12 DEF Looped, Finish, Combine, Empty, Zones, Delete, Publish, files
  <2> QED BY <2>1, <2>2, <1>10
<1>13. CASE Restart(p)
  <2>2. At(p, "restart") /\ Done(p) /\ UNCHANGED <<ve, section>>
    BY <1>13, Restarted DEF Orderly
  <2> QED BY <2>2, <1>10
<1>14. CASE Write(p)
  <2>1. /\ Here(p, "write") /\ DoneBy(p, "write")
        /\ \A g \in Hosts : Held1(g) /\ (Held1(g)' => Held(g)')
    BY <1>14, <1>d DEF Write
  <2>2. /\ ve' = ve
        /\ \A g \in Hosts : section'[g][g] = IF g = job[p].h THEN ve[g] ELSE section[g][g]
    <3>1. section[job[p].h][job[p].h] = {}
      BY <2>1 DEF Own, Emptied, Here, NextUp
    <3> QED BY <3>1, <1>14, <1>t, <2>1 DEF Write, Sections, Here
  <2>3. (Appends(p)' <=> Appends(p)) /\ Keeps(p)
    BY <2>1 DEF Appends, DoneBy
  <2>4. ASSUME NEW g \in Hosts
        PROVE  Held1(g)'
    <3>1. Held1(g)
      BY <2>1
    <3> QED BY <3>1, <2>2, <2>3, <1>e DEF Keeps
  <2> HIDE DEF Held1
  <2> QED BY <2>1, <2>4
<1>15. CASE AppendOwn(p)
  <2>1. /\ Here(p, "append") /\ DoneBy(p, "append")
        /\ \A g \in Hosts : Held1(g) /\ (Held1(g)' => Held(g)')
    BY <1>15, <1>d DEF AppendOwn
  <2>2. /\ ve' = ve
        /\ \A g \in Hosts : section'[g][g] =
             IF g = job[p].h THEN section[g][g] \cup {job[p].c} ELSE section[g][g]
    BY <1>15, <1>t, <2>1 DEF AppendOwn, Sections, Here
  <2>3. (Stale(p)' <=> Stale(p)) /\ Keeps(p) /\ env.kind = "ssh_config"
    BY <2>1 DEF Stale, DoneBy, Here, NextUp, InOrder
  <2>4. ASSUME NEW g \in Hosts
        PROVE  Held1(g)'
    <3>1. Held1(g)
      BY <2>1
    <3> QED BY <3>1, <2>2, <2>3, <1>e DEF Keeps
  <2> HIDE DEF Held1
  <2> QED BY <2>1, <2>4
<1>16. ASSUME NEW g \in Hosts, Check(p, g) \/ Pull(p, g) \/ Fetch(p, g)
       PROVE  \A h \in Hosts : Held(h)'
  <2>1. PICK x : /\ At(p, x) /\ g \in job[p].peers
                 /\ Visited(p, g) \/ (x = "check" /\ job' = [job EXCEPT ![p] = NoJob])
    BY <1>16 DEF Check, Pull, Fetch
  <2>2. Here(p, x)
    BY <2>1, <1>h
  <2>3. ve' = ve /\ \A h \in Hosts : section'[h][h] = section[h][h]
    <3>1. g # job[p].h /\ job[p].h \in Hosts
      BY <2>1, <2>2 DEF Here, Peers
    <3>2. ASSUME Pull(p, g), NEW h \in Hosts
          PROVE  section'[h][h] = section[h][h]
      <4>1. PICK reached \in Reached, read \in Reached :
              section' = IF ~reached THEN section
                         ELSE [section EXCEPT ![job[p].h][g] =
                                 IF read THEN section[g][g] ELSE {}]
        BY <3>2 DEF Pull
      <4> QED BY <4>1, <3>1, <1>t DEF Sections
    <3> QED BY <3>2, <1>16 DEF Check, Pull, Fetch, files
  <2>4. CASE Visited(p, g)
    <3>1. Keeps(p) /\ Left(p)' = Left(p) /\ job[p].cmd # "none"
      BY <2>1, <2>2, <2>4, <1>e, Visit DEF Here
    <3>2. ASSUME NEW h \in Hosts
          PROVE  Held1(h)'
      <4>1. Held1(h)
        BY <3>1, <1>2
      <4> QED BY <4>1, <3>1, <2>3, <1>e DEF Keeps, Stale, Appends
    <3> HIDE DEF Held1
    <3> QED BY <3>1, <3>2, <1>2
  <2>5. CASE x = "check" /\ job' = [job EXCEPT ![p] = NoJob]
    <3>1. ~Stale(p) /\ ~Appends(p) /\ job[p].cmd # "none"
      BY <2>2, <2>5 DEF Here, NextUp, InOrder, Stale, Appends
    <3>2. ASSUME NEW h \in Hosts
          PROVE  Held1(h)'
      <4>1. Held1(h)
        BY <3>1, <1>2
      <4> QED BY <4>1, <3>1, <2>3, <1>e
    <3> HIDE DEF Held1
    <3> QED BY <3>1, <3>2, <1>2
  <2> QED BY <2>1, <2>4, <2>5
<1> QED BY <1>1, <1>4, <1>5, <1>7, <1>8, <1>9, <1>11, <1>12, <1>13, <1>14, <1>15, <1>16 DEF Step

(* No step takes from a regenerate what it has gathered.                   *)
LEMMA GatheredStep ==
  ASSUME TypeOK, Jobs, Unmixed, Homes, Apart, Fresh, Own, Gathered, Next
  PROVE  Gathered'
<1> SUFFICES ASSUME Orderly, NEW r \in Callers, job'[r].cmd = "regenerate"
             PROVE  Progress(r)'
  BY DEF Gathered, Next, Orderly
<1>e. env' = env /\ env \in Envs /\ Reached = {TRUE}
  BY DEF Next, TypeOK, Orderly, Reached
<1>t. /\ ve \in [Hosts -> SUBSET Names] /\ section \in Sections /\ named \in Sections
      /\ includes \in Sections /\ known \in [Hosts -> SUBSET (Names \X Hosts)]
  BY DEF TypeOK
<1>1. PICK p \in Callers :
        /\ Type(p) \/ Step(p) \/ Kill(p)
        /\ Others(p)
        /\ job'[p] = NoJob \/ Keeps(p) \/ Type(p)
  BY JobsStep
<1>h. ASSUME NEW x, At(p, x)
      PROVE  Here(p, x)
  BY <1>h, <1>e, HereIs
<1>2. CASE Type(p)
  <2>1. PICK cmd \in Commands, h \in env.at, c \in Names, exact \in BOOLEAN :
          Command(p, cmd, h, c, exact)
    BY <1>2 DEF Type, Commands
  <2>2. /\ \A q \in Callers \ {p} : job'[q] = NoJob
        /\ job'[p].cmd = cmd /\ InOrder(Left(p)', cmd, env.kind)
        /\ cmd = "regenerate" => "write" \in Left(p)'
    BY <2>1, <1>1, <1>e, Begin DEF Orderly, Others
  <2>3. r = p /\ cmd = "regenerate"
    BY <2>2, NoJobType
  <2> QED BY <2>2, <2>3 DEF Progress, InOrder
<1>3. CASE Kill(p)
  BY <1>3 DEF Kill, Orderly
<1>4. CASE job' = [job EXCEPT ![p] = NoJob] /\ job[p].cmd # "none"
  <2>1. \A q \in Callers : job'[q] = NoJob
    BY <1>1, <1>4, <1>e, Alone, Stop
  <2> QED BY <2>1, NoJobType
<1>5. CASE Ended(p)
  BY <1>4, <1>5 DEF Ended
(* The regenerate itself goes on.                                          *)
<1>6. ASSUME Others(p), Keeps(p), job[p].cmd # "none"
      PROVE  r = p /\ job[p].cmd = "regenerate" /\ Progress(p)
  <2>1. r = p
    BY <1>6, <1>e, Alone, NoJobType
  <2> QED BY <2>1, <1>6 DEF Keeps, Gathered
<1>d. ASSUME NEW x, At(p, x), Done(p)
      PROVE  /\ Here(p, x) /\ DoneBy(p, x)
             /\ r = p /\ job[p].cmd = "regenerate" /\ Progress(p)
  <2>1. Here(p, x) /\ DoneBy(p, x)
    BY <1>d, <1>e, <1>h, Advance DEF DoneBy
  <2> QED BY <2>1, <1>6 DEF Here, DoneBy
<1>7. ASSUME NEW x, At(p, x), Done(p), UNCHANGED <<ve, section, known, named>>,
             x \notin {"write", "combine", "restart"},
             x = "pull" => job[p].peers = {}
      PROVE  Progress(r)'
  <2>1. /\ Here(p, x) /\ DoneBy(p, x)
        /\ r = p /\ job[p].cmd = "regenerate" /\ Progress(p)
    BY <1>7, <1>d
  <2>2. /\ "write" \in Left(p)' <=> "write" \in Left(p)
        /\ "combine" \in Left(p)' <=> "combine" \in Left(p)
        /\ "restart" \in Left(p)' <=> "restart" \in Left(p)
        /\ job'[p].h = job[p].h
    BY <2>1, <1>7 DEF DoneBy, Keeps
  <2>3. Knows(job[p].h)' <=> Knows(job[p].h)
    BY <2>2, <1>7, <1>e DEF Knows
  <2>4. Pulled(p) /\ "write" \notin Left(p) /\ "combine" \in Left(p) => Pulled(p)'
    <3>1. CASE x = "pull"
      BY <2>2, <3>1, <1>7 DEF Pulled
    <3>2. CASE x # "pull" /\ "pull" \notin Left(p)
      BY <2>2, <3>2, <1>7 DEF Pulled
    <3>3. CASE x # "pull" /\ "pull" \in Left(p)
      <4>1. "pull" \in Left(p)' /\ job'[p].peers = Peers(job[p].h)
        BY <2>1, <3>3 DEF DoneBy
      <4>2. \A g \in Hosts : g \in Peers(job[p].h) \/ g = job[p].h
        BY DEF Peers
      <4> QED BY <4>1, <4>2, <2>2, <1>7 DEF Pulled
    <3> QED BY <3>1, <3>2, <3>3
  <2>5. Progress(p)'
    BY <2>1, <2>2, <2>3, <2>4, <1>7 DEF Progress, Knows
  <2> QED BY <2>1, <2>5
<1>8. CASE Looped(p)
  <2>1. PICK x \in {"check", "pull", "fetch"} : At(p, x)
    BY <1>8 DEF Looped
  <2> QED BY <2>1, <1>8, <1>7 DEF Looped, files
<1>9. CASE Empty(p) \/ Zones(p) \/ Delete(p) \/ Publish(p)
  <2>1. PICK x \in {"empty", "zones", "delete", "publish"} : At(p, x) /\ Done(p)
    BY <1>9 DEF Empty, Zones, Delete, Publish
  <2>2. UNCHANGED <<ve, section, known, named>>
    BY <1>9 DEF Empty, Zones, Delete, Publish
  <2> QED BY <2>1, <2>2, <1>7
<1>10. CASE Mkdir(p) \/ Finish(p) \/ Rm(p) \/ AppendOwn(p)
  <2>1. PICK x \in {"mkdir", "finish", "rm", "append"} : At(p, x) /\ Done(p)
    BY <1>10 DEF Mkdir, Finish, Rm, AppendOwn
  <2>2. Here(p, x) /\ job[p].cmd = "regenerate"
    BY <2>1, <1>d
  <2> QED BY <2>1, <2>2 DEF Here, NextUp, InOrder
<1>11. CASE Truncate(p)
  <2>1. /\ Here(p, "truncate") /\ DoneBy(p, "truncate")
        /\ r = p /\ job[p].cmd = "regenerate"
    BY <1>11, <1>d DEF Truncate
  <2> QED BY <2>1 DEF Progress, Here, NextUp, InOrder, DoneBy
<1>12. CASE Write(p)
  <2>1. /\ Here(p, "write") /\ DoneBy(p, "write")
        /\ r = p /\ job[p].cmd = "regenerate"
    BY <1>12, <1>d DEF Write
  <2>2. /\ "pull" \in Left(p)' /\ "combine" \in Left(p)' /\ "restart" \in Left(p)'
        /\ job'[p].peers = Peers(job[p].h) /\ job'[p].h = job[p].h
    BY <2>1 DEF Here, NextUp, InOrder, DoneBy, Keeps
  <2>3. Pulled(p)'
    BY <2>2 DEF Pulled, Peers
  <2> QED BY <2>1, <2>2, <2>3 DEF Progress
<1>13. CASE Combine(p)
  <2>1. /\ Here(p, "combine") /\ DoneBy(p, "combine")
        /\ r = p /\ job[p].cmd = "regenerate" /\ Progress(p)
    BY <1>13, <1>d DEF Combine
  <2>2. /\ "pull" \notin Left(p) /\ "write" \notin Left(p) /\ "append" \notin Left(p)
        /\ "combine" \in Left(p) /\ "combine" \notin Left(p)'
        /\ "restart" \in Left(p)' /\ job'[p].h = job[p].h /\ job[p].h \in Hosts
    BY <2>1 DEF Here, NextUp, InOrder, DoneBy, Keeps
  <2>3. \A g \in Hosts : section[job[p].h][g] = section[g][g]
    BY <2>1, <2>2 DEF Progress, Pulled
  <2>4. \A q \in Callers : ~Stale(q) /\ ~Appends(q)
    <3>1. \A q \in Callers \ {p} : Left(q) = {}
      BY <1>1, <2>1, <1>e, Alone DEF Here
    <3> QED BY <2>2, <3>1 DEF Stale, Appends
  <2>5. \A g \in Hosts : /\ \A c \in ve[g] : c \in section[g][g]
                         /\ env.kind # "ssh_config" => section[g][g] = ve[g]
    BY <2>4 DEF Own, Held
  <2>6. /\ ve' = ve
        /\ known'[job[p].h] = {d \in Names \X Hosts : d[1] \in section[job[p].h][d[2]]}
    BY <1>13, <1>t, <2>2 DEF Combine
  <2>7. ASSUME NEW g \in Hosts, NEW c \in ve[g]
        PROVE  <<c, g>> \in known'[job[p].h]
    <3>1. c \in Names /\ c \in section[job[p].h][g]
      BY <2>3, <2>5, <1>t
    <3> QED BY <3>1, <2>6
  <2>8. ASSUME NEW d \in known'[job[p].h], env.kind # "ssh_config"
        PROVE  d[1] \in ve[d[2]]
    <3>1. d \in Names \X Hosts /\ d[1] \in section[job[p].h][d[2]]
      BY <2>6, <2>8
    <3>2. d[2] \in Hosts
      BY <3>1
    <3> QED BY <3>1, <3>2, <2>3, <2>5, <2>8
  <2>9. Knows(job[p].h)'
    BY <2>6, <2>7, <2>8, <2>2, <1>e DEF Knows
  <2> QED BY <2>1, <2>2, <2>9 DEF Progress
<1>14. CASE Restart(p)
  <2>2. /\ At(p, "restart") /\ Done(p) /\ UNCHANGED <<ve, section, known>>
        /\ named' = [named EXCEPT ![job[p].h] = includes[job[p].h]]
    BY <1>14, Restarted DEF Orderly
  <2>3. /\ Here(p, "restart") /\ DoneBy(p, "restart")
        /\ r = p /\ job[p].cmd = "regenerate" /\ Progress(p)
    BY <2>2, <1>d
  <2>4. /\ "combine" \notin Left(p) /\ "combine" \notin Left(p)'
        /\ "empty" \notin Left(p) /\ "zones" \notin Left(p)
        /\ "fetch" \notin Left(p) /\ "publish" \notin Left(p)
        /\ "restart" \in Left(p)
        /\ job'[p].h = job[p].h /\ job[p].h \in Hosts
    BY <2>3 DEF Here, NextUp, InOrder, DoneBy, Keeps
  <2>5. \A g \in Hosts : includes[job[p].h][g] = ve[g]
    BY <2>4 DEF Fresh, Included, Ahead
  <2>6. named'[job[p].h] = ve
    <3>1. includes[job[p].h] \in [Hosts -> SUBSET Names]
      BY <2>4, <1>t DEF Sections
    <3>2. includes[job[p].h] = ve
      BY <3>1, <2>5, <1>t
    <3> QED BY <3>2, <2>2, <2>4, <1>t DEF Sections
  <2>7. Knows(job[p].h)'
    BY <2>2, <2>3, <2>4, <1>e DEF Progress, Knows
  <2> QED BY <2>2, <2>3, <2>4, <2>6, <2>7 DEF Progress
<1>15. ASSUME NEW g \in Hosts, Check(p, g) \/ Pull(p, g) \/ Fetch(p, g)
       PROVE  Progress(r)'
  <2>1. PICK x : /\ At(p, x) /\ g \in job[p].peers
                 /\ Visited(p, g) \/ (x = "check" /\ job' = [job EXCEPT ![p] = NoJob])
                 /\ x = "pull" <=> Pull(p, g)
    BY <1>15 DEF Check, Pull, Fetch, At
  <2>2. Here(p, x)
    BY <2>1, <1>h
  <2>3. CASE job' = [job EXCEPT ![p] = NoJob]
    BY <2>2, <2>3, <1>4 DEF Here
  <2>4. CASE Visited(p, g)
    <3>1. /\ Keeps(p) /\ Left(p)' = Left(p) /\ Others(p)
          /\ job'[p].peers = job[p].peers \ {g}
      BY <2>1, <2>4, <1>e, Visit
    <3>2. r = p /\ job[p].cmd = "regenerate" /\ Progress(p)
      BY <3>1, <2>2, <1>6 DEF Here
    <3>3. UNCHANGED <<ve, known, named>> /\ (x # "pull" => section' = section)
      BY <1>15, <2>1 DEF Check, Pull, Fetch, files
    <3>4. Knows(job[p].h)' <=> Knows(job[p].h)
      BY <3>1, <3>3, <1>e DEF Knows, Keeps
    <3>5. ASSUME Pulled(p), "pull" \in Left(p), x = "pull"
          PROVE  Pulled(p)'
      <4>1. Pull(p, g) /\ g # job[p].h /\ job[p].h \in Hosts
        BY <3>5, <2>1, <2>2 DEF Here, Peers
      <4>2. section' = [section EXCEPT ![job[p].h][g] = section[g][g]]
        BY <4>1, <1>e DEF Pull
      <4>3. \A f \in Hosts : /\ section'[f][f] = section[f][f]
                             /\ section'[job[p].h][f] = IF f = g THEN section[g][g]
                                                        ELSE section[job[p].h][f]
        BY <4>1, <4>2, <1>t DEF Sections
      <4> QED BY <4>3, <3>1, <3>5 DEF Pulled, Keeps
    <3>6. x \in {"pull", "fetch"} /\ (x # "pull" => "pull" \notin Left(p))
      BY <2>1, <2>2, <3>2, <1>15 DEF Here, NextUp, InOrder, Check, Pull, Fetch, At
    <3>7. Pulled(p) => Pulled(p)'
      <4>1. CASE x = "pull"
        BY <4>1, <3>5, <2>2 DEF Here, NextUp
      <4>2. CASE x # "pull"
        BY <4>2, <3>1, <3>3, <3>6 DEF Pulled, Keeps
      <4> QED BY <4>1, <4>2
    <3>8. Progress(p)'
      BY <3>1, <3>2, <3>3, <3>4, <3>7 DEF Progress, Knows, Keeps
    <3> QED BY <3>2, <3>8
  <2> QED BY <2>1, <2>3, <2>4
<1> QED BY <1>1, <1>2, <1>3, <1>5, <1>8, <1>9, <1>10, <1>11, <1>12, <1>13, <1>14, <1>15 DEF Step

-----------------------------------------------------------------------------
(* The inductive invariant.                                                *)
Safe == TypeOK /\ Jobs /\ Unmixed /\ Homes /\ Apart /\ Fresh /\ Opened /\ Own /\ Gathered

(* The invariant holds of a new cluster,                                   *)
LEMMA SafeInit ==
  ASSUME Init
  PROVE  Safe
<1>1. TypeOK
  BY DEF Init, TypeOK, Nothing, Sections, NoTar
<1>2. Jobs
  BY NoJobType DEF Init, Jobs
<1>3. \A p \in Callers : job[p] = NoJob /\ Left(p) = {}
  BY NoJobType DEF Init, Left
<1>4. /\ \A h \in Hosts : ve[h] = {} /\ ready[h] = {} /\ tar[h].zones = {}
      /\ \A g, h \in Hosts : includes[h][g] = {}
  BY DEF Init, Nothing, NoTar
<1>5. Unmixed /\ Homes /\ Apart
  BY <1>3, <1>4, NoJobType DEF Init, Unmixed, Homes, Apart, Unused
<1>6. Fresh /\ Opened
  BY <1>3, <1>4, NoJobType DEF Fresh, Published, Included, Opened, OpenAt, Open
<1>7. Own /\ Gathered
  <2>1. \A g \in Hosts : section[g][g] = {}
    BY DEF Init, Nothing
  <2> QED BY <2>1, <1>3, <1>4, NoJobType DEF Own, Held, Emptied, Gathered
<1> QED BY <1>1, <1>2, <1>5, <1>6, <1>7 DEF Safe

(* is kept by every step,                                                  *)
LEMMA SafeStep ==
  ASSUME Safe, [Next]_vars
  PROVE  Safe'
<1>1. CASE Next
  BY <1>1, TypeStep, JobsStep, UnmixedStep, HomesStep, ApartStep, FreshStep, OpenedStep,
           OwnStep, GatheredStep
        DEF Safe
<1>2. CASE UNCHANGED vars
  BY <1>2 DEF vars, Safe, TypeOK, Jobs, Running, Unmixed, Homes, Home, Apart, Orderly, Unused, Left,
              Fresh, Published, Pending, Included, Ahead, Opened, Undisturbed, Settled,
              OpenAt, Open, Own, Held, Emptied, Stale, Appends, Gathered, Progress, Pulled, Knows
<1> QED BY <1>1, <1>2

(* and says all that ClusterInv says.                                      *)
LEMMA SafeImplies ==
  ASSUME Safe
  PROVE  ClusterInv
<1>1. OneMaster
  <2> SUFFICES ASSUME Settled \/ Orderly
               PROVE  /\ \A g, h \in Hosts : ve[g] \cap ve[h] # {} => g = h
                      /\ \A p \in Callers : At(p, "restart") => Loads(includes[job[p].h])
    BY DEF OneMaster
  <2>1. \A p \in Callers : At(p, "restart") => Loads(includes[job[p].h])
    BY LoadsThere DEF Safe
  <2>2. ASSUME NEW g \in Hosts, NEW h \in Hosts, NEW c \in ve[g] \cap ve[h], Settled
        PROVE  g = h
    <3>1. c \in Home(g) /\ c \in Home(h) /\ env \in Envs
      BY <2>2 DEF Safe, Homes, TypeOK
    <3> QED BY <3>1, <2>2, SettledHome DEF Home
  <2> QED BY <2>1, <2>2 DEF Safe, Apart
<1>2. AddFinishes
  <2> SUFFICES ASSUME Quiet, Undisturbed, NEW h \in Hosts
               PROVE  ve[h] = ready[h]
    BY DEF AddFinishes, Undisturbed
  <2>1. \A c \in Names : ~OpenAt(h, c)
    BY DEF OpenAt, Open, Quiet, Active
  <2>2. ve[h] \subseteq Names /\ ready[h] \subseteq Names
    BY DEF Safe, TypeOK
  <2> QED BY <2>1, <2>2 DEF Safe, Opened
<1> QED BY <1>1, <1>2 DEF ClusterInv, Safe

(* Every name has one home or hosts are asked one at a time: then no name  *)
(* is on two hosts, no name server is given the zones of two hosts for it, *)
(* whether or not commands overlap, and no add stops half way where none   *)
(* is interrupted and none overlap.                                        *)
THEOREM ClusterSafe == Spec => []ClusterInv
<1>1. Init => Safe
  BY SafeInit
<1>2. Safe /\ [Next]_vars => Safe'
  BY SafeStep
<1>3. Safe => ClusterInv
  BY SafeImplies
<1> QED BY <1>1, <1>2, <1>3, PTL DEF Spec

(* A regenerate that nobody disturbed and that is done knows the names of  *)
(* all hosts, and its name server is the master or the slave of the zones. *)
THEOREM ClusterConverges == Spec => Converged
<1> DEFINE Ends(p) ==
      Orderly /\ job[p].cmd = "regenerate" /\ job'[p].cmd = "none"
        => /\ \A g \in Hosts : \A c \in ve[g] : <<c, g>> \in known[job[p].h]
           /\ env.kind # "ssh_config" =>
                \A d \in known[job[p].h] : d[1] \in ve[d[2]]
           /\ named[job[p].h] = ve
<1>1. Init => Safe
  BY SafeInit
<1>2. Safe /\ [Next]_vars => Safe'
  BY SafeStep
<1>3. Safe /\ [Next]_vars => [\A p \in Callers : Ends(p)]_vars
  <2> SUFFICES ASSUME Safe, Next, NEW r \in Callers, Orderly,
                      job[r].cmd = "regenerate", job'[r].cmd = "none"
               PROVE  Knows(job[r].h) /\ named[job[r].h] = ve
    BY DEF Knows
  <2>e. env' = env /\ env \in Envs /\ Jobs /\ Gathered
    BY DEF Next, Safe, TypeOK
  <2>1. PICK p \in Callers :
          /\ Type(p) \/ Step(p) \/ Kill(p)
          /\ Others(p)
          /\ job'[p] = NoJob \/ Keeps(p) \/ Type(p)
    BY JobsStep DEF Safe
  <2>2. r = p /\ ~Keeps(p)
    BY <2>1 DEF Others, Keeps
  <2>3. ~Type(p) /\ ~Kill(p)
    <3>1. \A cmd, h, c, exact : Command(p, cmd, h, c, exact) => job[p].cmd = "none"
      BY DEF Command
    <3>2. ~Type(p)
      BY <2>2, <3>1 DEF Type
    <3> QED BY <3>2 DEF Kill, Orderly
  <2>4. ASSUME NEW x, At(p, x)
        PROVE  Here(p, x) /\ ~Done(p) /\ \A g \in Hosts : ~Visited(p, g)
    <3>1. Here(p, x)
      BY <2>4, <2>e, HereIs
    <3>2. ~Done(p)
      BY <2>4, <2>2, <2>e, Advance
    <3>3. \A g \in Hosts : ~Visited(p, g)
      BY <2>4, <2>2, <2>e, Visit
    <3> QED BY <3>1, <3>2, <3>3
  <2>5. \A g \in Hosts : ~Check(p, g) /\ ~Pull(p, g) /\ ~Fetch(p, g)
    <3>1. ~At(p, "check")
      BY <2>2, <2>4 DEF Here, NextUp, InOrder
    <3> QED BY <3>1, <2>4 DEF Check, Pull, Fetch
  <2>6. ~Restart(p)
    BY <2>4, Restarted DEF Safe, Orderly
  <2>7. Ended(p)
    <3>1. \A x : At(p, x) => ~Done(p)
      BY <2>4
    <3> QED BY <2>1, <2>3, <2>5, <2>6, <3>1
            DEF Step, Looped, Mkdir, Finish, Rm, Truncate, Write, AppendOwn, Combine, Empty,
                Zones, Delete, Publish
  <2>8. Left(p) = {}
    BY <2>7, NoJobType DEF Ended, Left
  <2> QED BY <2>2, <2>8, <2>e DEF Gathered, Progress
<1>4. Spec => [][\A p \in Callers : Ends(p)]_vars
  BY <1>1, <1>2, <1>3, PTL DEF Spec
<1> QED BY <1>4 DEF Converged
=============================================================================
