--------------------------- MODULE ContainerProofs ---------------------------
(***************************************************************************)
(* Theorems about what a host keeps of its containers.  Of ContainerNumbers*)
(* first: with one command at a time, no sudo user, no apache container    *)
(* and no interrupted command, numbers and addresses are distinct for any  *)
(* set of names and callers; a container keeps its number and its users    *)
(* under less.  Then of Backups, which is the instance B below: the dumps  *)
(* of the databases of a container, in the container, in its archive and   *)
(* in its mirror, are not lost, and a backup that nothing stops delivers   *)
(* them, for any databases, passwords and callers.                         *)
(***************************************************************************)
EXTENDS ContainerNumbers, Integers, FiniteSetTheorems, TLAPS

-----------------------------------------------------------------------------
(* ToIp gives different addresses to different numbers.                    *)
LEMMA ToIpInjective ==
  ASSUME NEW m \in Nat, NEW n \in Nat, ToIp(m) = ToIp(n)
  PROVE  m = n
<1>1. m \div 250 = n \div 250 /\ m % 250 = n % 250
  BY DEF ToIp
<1>2. m = 250 * (m \div 250) + (m % 250)
  OBVIOUS
<1>3. n = 250 * (n \div 250) + (n % 250)
  OBVIOUS
<1> QED BY <1>1, <1>2, <1>3

(* The octets of the first 63750 numbers are octets.                       *)
LEMMA ToIpOctets ==
  ASSUME NEW n \in Nat, n < 63750
  PROVE  ToIp(n) \in (1 .. 255) \X (1 .. 250)
<1>1. n \div 250 \in 0 .. 254 /\ n % 250 \in 0 .. 249
  OBVIOUS
<1> QED BY <1>1 DEF ToIp

LEMMA ToIpType == \A n \in Nat : ToIp(n) \in Nat \X Nat
BY DEF ToIp

LEMMA IdleType == Idle \in Job
BY ConstantsAssumption DEF Idle, Job

LEMMA VeType ==
  ASSUME NEW v \in Ve
  PROVE  generate_lxc_config(v) \in Ve
<1>1. ToIp(v.num) \in Nat \X Nat
  BY ToIpType DEF Ve
<1> QED BY <1>1 DEF Ve, generate_lxc_config

-----------------------------------------------------------------------------
(* Every step keeps the type of the registry, of the counter file and of   *)
(* the running commands.                                                   *)
THEOREM TypeCorrect == Spec => []TypeOK
<1> USE DEF TypeOK
<1>1. Init => TypeOK
  BY IdleType, ConstantsAssumption DEF Init, Ve, NoVe, NoIp, NoNumber
<1>2. TypeOK /\ [Next]_vars => TypeOK'
  <2> SUFFICES ASSUME TypeOK, Next PROVE TypeOK'
    BY DEF vars
  <2>1. PICK p \in Callers :
          \/ Add(p) \/ Regenerate(p) \/ Numbering(p)
          \/ \E c \in Names : Remove(p, c) \/ Import(p, c)
          \/ Kill(p)
    BY DEF Next
  <2>env. env' = env /\ env' \in Env
    BY DEF Next
  <2> USE IdleType, <2>env
  <2> job[p] \in Job /\ job[p].c \in Names /\ ve[job[p].c] \in Ve
    BY DEF Job
  <2>2. ASSUME NEW a \in env.args, NEW t \in env.ctypes, AddCheck(p, a, t)
        PROVE  TypeOK'
    <3>1. a \in Args /\ t \in {"fedora", "apache"}
      BY DEF Env
    <3> QED
      BY <2>2, <3>1, ConstantsAssumption DEF AddCheck, Job, Idle
  <2>3. CASE MakeDir(p)
    <3>1. job' \in [Callers -> Job]
      BY <2>3 DEF MakeDir, Step, Job
    <3>2. [ve[job[p].c] EXCEPT !.dir = TRUE, !.users = {p}, !.ctype = job[p].ctype] \in Ve
      BY DEF Job, Ve
    <3>3. ve' \in [Names -> Ve]
      BY <2>3, <3>2 DEF MakeDir
    <3> QED BY <2>3, <3>1, <3>3 DEF MakeDir
  <2>4. CASE MakeRootfs(p)
    <3>1. job' \in [Callers -> Job]
      BY <2>4 DEF MakeRootfs, Step, Job
    <3>2. ve' \in [Names -> Ve]
      BY <2>4 DEF MakeRootfs, Job, Ve
    <3> QED BY <2>4, <3>1, <3>2 DEF MakeRootfs
  <2>5. CASE RootfsFails(p)
    <3>1. PICK b \in BOOLEAN : ve' = [ve EXCEPT ![job[p].c].hostname = b]
      BY <2>5 DEF RootfsFails, Ve
    <3>2. ve' \in [Names -> Ve]
      BY <3>1 DEF Ve
    <3> QED BY <2>5, <3>2 DEF RootfsFails, Return
  <2>6. ASSUME NEW all \in BOOLEAN, RegenerateStart(p, all)
        PROVE  TypeOK'
    BY <2>6 DEF RegenerateStart, Job, Idle
  <2>7. ASSUME NEW c \in Names, ScanDir(p, c)
        PROVE  TypeOK'
    <3>1. PICK pc \in {"scan", "read", "config"} :
            job' = [job EXCEPT ![p] = [job[p] EXCEPT !.todo = @ \ {c}, !.c = c, !.pc = pc]]
      BY <2>7 DEF ScanDir
    <3>2. job' \in [Callers -> Job]
      BY <3>1 DEF Job
    <3> QED BY <2>7, <3>2 DEF ScanDir
  <2>8. CASE RegenerateDone(p)
    BY <2>8 DEF RegenerateDone, Return
  <2>9. CASE ScanNumbers(p)
    <3>1. {0} \cup {ve[c].num : c \in lxc_ls(p)} \subseteq Nat
      BY DEF lxc_ls, Dirs, Ve
    <3>2. PICK m \in {0} \cup {ve[c].num : c \in lxc_ls(p)} :
            job' = [job EXCEPT ![p] = [job[p] EXCEPT !.n = m + 1, !.pc = "reset"]]
      BY <2>9 DEF ScanNumbers
    <3>3. m + 1 \in Nat
      BY <3>1
    <3>4. job' \in [Callers -> Job]
      BY <3>2, <3>3 DEF Job
    <3> QED BY <2>9, <3>4 DEF ScanNumbers
  <2>10. CASE ResetCounter(p)
    BY <2>10 DEF ResetCounter, Job, Dirs
  <2>11. CASE ReadCounter(p)
    <3>1. /\ job' = [job EXCEPT ![p] = [job[p] EXCEPT !.n = counter + 1, !.pc = "write"]]
          /\ counter + 1 \in Nat
      BY <2>11 DEF ReadCounter
    <3>2. job' \in [Callers -> Job]
      BY <3>1 DEF Job
    <3> QED BY <2>11, <3>2 DEF ReadCounter
  <2>12. CASE WriteCounter(p)
    BY <2>12 DEF WriteCounter, Step, Job
  <2>13. CASE WriteNumber(p)
    BY <2>13 DEF WriteNumber, Step, Job, Ve, NoNumber
  <2>14. CASE WriteConfig(p)
    BY <2>14, VeType DEF WriteConfig, Step, Return, Job
  <2>15. ASSUME NEW c \in Names, Remove(p, c)
         PROVE  TypeOK'
    BY <2>15 DEF Remove, Ve, NoVe, NoIp, NoNumber
  <2>16. ASSUME NEW c \in Names, Import(p, c)
         PROVE  TypeOK'
    BY <2>16 DEF Import, Ve, NoVe, NoIp, NoNumber
  <2>17. CASE Kill(p)
    BY <2>17 DEF Kill, Return
  <2> QED
    BY <2>1, <2>2, <2>3, <2>4, <2>5, <2>6, <2>7, <2>8, <2>9, <2>10, <2>11,
       <2>12, <2>13, <2>14, <2>15, <2>16, <2>17
    DEF Add, Regenerate, Numbering
<1> QED BY <1>1, <1>2, PTL DEF Spec

-----------------------------------------------------------------------------
(* Starting a command with env.together = 1 means that no other one runs.     *)
LEMMA StartAlone ==
  ASSUME TypeOK, env.together = 1, NEW p \in Callers, CanStart(p)
  PROVE  \A q \in Callers : job[q].pc = "idle"
<1>1. IsFiniteSet(Active)
  BY ConstantsAssumption, FS_Subset DEF Active
<1>2. Cardinality(Active) \in Nat
  BY <1>1, FS_CardinalityType
<1>3. Cardinality(Active) = 0
  BY <1>2 DEF CanStart
<1>4. Active = {}
  BY <1>1, <1>3, FS_EmptySet
<1> QED BY <1>4 DEF Active

(* Each step of a disciplined use keeps the numbering invariant.           *)
LEMMA NumberingStep ==
  ASSUME Disciplined, TypeOK, TypeOK', OrderlyNumbers, Next
  PROVE  OrderlyNumbers'
<1> USE DEF OrderlyNumbers
<1>p. PICK p \in Callers :
          \/ Add(p) \/ Regenerate(p) \/ Numbering(p)
          \/ \E c \in Names : Remove(p, c) \/ Import(p, c)
          \/ Kill(p)
  BY DEF Next
<1>t. /\ job \in [Callers -> Job] /\ ve \in [Names -> Ve] /\ counter \in Nat
      /\ job[p] \in Job /\ job[p].c \in Names /\ ve[job[p].c] \in Ve
      /\ \A c \in Names : ve[c] \in Ve /\ ve[c].num \in Nat
      /\ \A q \in Callers : job[q] \in Job /\ job[q].n \in Nat
  BY DEF TypeOK, Job, Ve
<1>alone. ASSUME job[p].pc # "idle"
          PROVE  \A q \in Callers : q # p => job[q].pc = "idle"
  BY <1>alone DEF OneCommand, Active
<1>start. ASSUME CanStart(p)
          PROVE  \A q \in Callers : job[q].pc = "idle"
  BY <1>start, StartAlone DEF Disciplined
<1>idle. Idle.pc = "idle" /\ Idle.ctype = "none"
  BY DEF Idle
<1>1. ASSUME NEW a \in env.args, NEW t \in env.ctypes, AddCheck(p, a, t)
      PROVE  OrderlyNumbers'
  BY <1>1, <1>t, <1>start, ConstantsAssumption
     DEF AddCheck, CanStart, Idle, Disciplined, OneCommand, Active, OsOnly, NothingLeft,
     NumberedSeen, Numbered, CounterAhead,
         NumberFree, AddressSettled, DistinctNumbers, DistinctAddresses, Dirs, Job
<1>2. CASE MakeDir(p)
  <2> DEFINE c0 == job[p].c
  <2>1. /\ job[p].pc \in {"mkdir", "rootfs"} /\ job'[p].pc = "rootfs"
        /\ job'[p].n = job[p].n /\ job'[p].ctype = job[p].ctype
        /\ \A q \in Callers : q # p => job'[q] = job[q] /\ job[q].pc = "idle"
        /\ counter' = counter
    BY <1>2, <1>t, <1>alone DEF MakeDir, Step, Job
  <2>2. /\ ve'[c0].ctype \in {ve[c0].ctype, job[p].ctype} /\ ve'[c0].dir
        /\ \A c \in Names : c # c0 => ve'[c] = ve[c]
        /\ \A c \in Names : /\ ve'[c].num = ve[c].num
                            /\ ve'[c].config = ve[c].config
                            /\ ve'[c].ip = ve[c].ip
    BY <1>2, <1>t DEF MakeDir, Ve
  <2>3. OneCommand' /\ OsOnly' /\ CounterAhead'
    BY <2>1, <2>2, <1>t DEF OneCommand, Active, OsOnly, NothingLeft, CounterAhead
  <2>4. NumberedSeen' /\ AddressSettled'
    BY <2>1, <2>2, <1>t
    DEF NumberedSeen, Numbered, AddressSettled, Dirs, NoNumber, OsOnly, NothingLeft
  <2>5. NumberFree'
    BY <2>1, <2>2, <1>t DEF NumberFree
  <2>6. DistinctNumbers' /\ DistinctAddresses'
    BY <2>1, <2>2, <1>t
    DEF DistinctNumbers, DistinctAddresses, Numbered, Dirs, OsOnly, NothingLeft
  <2> QED BY <2>3, <2>4, <2>5, <2>6
<1>3. CASE MakeRootfs(p)
  <2> DEFINE c0 == job[p].c
  <2>1. /\ job[p].pc \in {"mkdir", "rootfs"} /\ job'[p].pc = "number"
        /\ job'[p].n = job[p].n /\ job'[p].ctype = job[p].ctype
        /\ \A q \in Callers : q # p => job'[q] = job[q] /\ job[q].pc = "idle"
        /\ counter' = counter
    BY <1>3, <1>t, <1>alone DEF MakeRootfs, Step, Job
  <2>2. /\ ve'[c0].ctype \in {ve[c0].ctype, job[p].ctype} /\ ve'[c0].dir
        /\ \A c \in Names : c # c0 => ve'[c] = ve[c]
        /\ \A c \in Names : /\ ve'[c].num = ve[c].num
                            /\ ve'[c].config = ve[c].config
                            /\ ve'[c].ip = ve[c].ip
    BY <1>3, <1>t DEF MakeRootfs, Ve
  <2>3. OneCommand' /\ OsOnly' /\ CounterAhead'
    BY <2>1, <2>2, <1>t DEF OneCommand, Active, OsOnly, NothingLeft, CounterAhead
  <2>4. NumberedSeen' /\ AddressSettled'
    BY <2>1, <2>2, <1>t
    DEF NumberedSeen, Numbered, AddressSettled, Dirs, NoNumber, OsOnly, NothingLeft
  <2>5. NumberFree'
    BY <2>1, <2>2, <1>t DEF NumberFree
  <2>6. DistinctNumbers' /\ DistinctAddresses'
    BY <2>1, <2>2, <1>t
    DEF DistinctNumbers, DistinctAddresses, Numbered, Dirs, OsOnly, NothingLeft
  <2> QED BY <2>3, <2>4, <2>5, <2>6
<1>4. CASE RootfsFails(p)
  <2>1. /\ job[p].pc = "rootfs" /\ job'[p] = Idle /\ counter' = counter
        /\ \A q \in Callers : q # p => job'[q] = job[q] /\ job[q].pc = "idle"
    BY <1>4, <1>t, <1>alone DEF RootfsFails, Return
  <2>2. /\ \A c \in Names : /\ ve'[c].num = ve[c].num /\ ve'[c].config = ve[c].config
                            /\ ve'[c].ip = ve[c].ip /\ ve'[c].dir = ve[c].dir
                            /\ ve'[c].ctype = ve[c].ctype
    BY <1>4, <1>t DEF RootfsFails, Ve
  <2>3. Idle.pc = "idle" /\ Idle.ctype = "none"
    BY DEF Idle
  <2>4. OneCommand' /\ OsOnly' /\ CounterAhead'
    BY <2>1, <2>2, <2>3 DEF OneCommand, Active, OsOnly, NothingLeft, CounterAhead
  <2>5. NumberedSeen' /\ NumberFree'
    BY <2>1, <2>2, <2>3 DEF NumberedSeen, Numbered, Dirs, NumberFree
  <2>6. AddressSettled'
    BY <2>1, <2>2, <2>3 DEF AddressSettled, Dirs
  <2>7. DistinctNumbers' /\ DistinctAddresses'
    BY <2>2 DEF DistinctNumbers, DistinctAddresses, Numbered, Dirs
  <2> QED BY <2>4, <2>5, <2>6, <2>7
<1>5. ASSUME NEW all \in BOOLEAN, RegenerateStart(p, all)
      PROVE  OrderlyNumbers'
  BY <1>5, <1>t, <1>start DEF RegenerateStart, CanStart, Idle, OneCommand, Active, OsOnly,
     NothingLeft, NumberedSeen, Numbered, CounterAhead,
         NumberFree, AddressSettled, DistinctNumbers, DistinctAddresses, Dirs, Job
<1>6. ASSUME NEW c \in Names, ScanDir(p, c)
      PROVE  OrderlyNumbers'
  <2>1. job[p].pc = "scan" /\ ve' = ve /\ counter' = counter
    BY <1>6 DEF ScanDir
  <2>2. /\ job'[p].pc \in {"scan", "read", "config"} /\ job'[p].ctype = job[p].ctype
        /\ job'[p].pc = "config" => job'[p].c = c /\ ve[c].num # NoNumber
        /\ \A q \in Callers : q # p => job'[q] = job[q]
    BY <1>6, <1>t DEF ScanDir, Job
  <2>3. \A q \in Callers : q # p => job[q].pc = "idle"
    BY <2>1, <1>alone
  <2>4. \A q \in Callers : job[q].pc # "config"
    BY <2>1, <2>3
  <2>5. OneCommand' /\ OsOnly' /\ CounterAhead'
    BY <2>1, <2>2, <2>3 DEF OneCommand, Active, OsOnly, NothingLeft, CounterAhead
  <2>6. NumberedSeen' /\ NumberFree'
    BY <2>1, <2>2, <2>3, <2>4 DEF NumberedSeen, Numbered, Dirs, NumberFree
  <2>7. AddressSettled'
    BY <2>1, <2>2, <2>3, <2>4 DEF AddressSettled, Dirs
  <2>8. DistinctNumbers' /\ DistinctAddresses'
    BY <2>1 DEF DistinctNumbers, DistinctAddresses, Numbered, Dirs
  <2> QED BY <2>5, <2>6, <2>7, <2>8
<1>7. CASE RegenerateDone(p)
  BY <1>7, <1>t, <1>alone, <1>idle DEF RegenerateDone, Return, OneCommand, Active, OsOnly,
     NothingLeft, NumberedSeen, Numbered, CounterAhead,
         NumberFree, AddressSettled, DistinctNumbers, DistinctAddresses, Dirs, Job
<1>8. CASE ScanNumbers(p)
  <2>1. job[p].pc = "max" /\ ve' = ve /\ counter' = counter
    BY <1>8 DEF ScanNumbers
  <2>2. \A q \in Callers : q # p => job[q].pc = "idle"
    BY <2>1, <1>alone
  <2>3. \A c \in Names : c \in lxc_ls(p) \/ ve[c].num = 0
    <3>1. \A c \in Numbered : ve[c].config
      BY <2>1, <2>2 DEF NumberedSeen
    <3>2. \A c \in Names : c \in Numbered \/ ve[c].num = 0
      BY DEF Numbered, Dirs, OsOnly, NothingLeft, NoNumber
    <3> QED BY <3>1, <3>2 DEF lxc_ls, isSUDO, Disciplined, Numbered
  <2>4. PICK m \in Nat : /\ \A c \in lxc_ls(p) : ve[c].num <= m
                         /\ job' = [job EXCEPT ![p] =
                                     [job[p] EXCEPT !.n = m + 1, !.pc = "reset"]]
    <3>1. {0} \cup {ve[c].num : c \in lxc_ls(p)} \subseteq Nat
      BY <1>t DEF lxc_ls, Dirs
    <3> QED BY <1>8, <3>1 DEF ScanNumbers
  <2>5. \A c \in Names : ve[c].num < m + 1
    BY <1>t, <2>3, <2>4
  <2>6. /\ job'[p].pc = "reset" /\ job'[p].n = m + 1 /\ job'[p].ctype = job[p].ctype
        /\ \A q \in Callers : q # p => job'[q] = job[q]
    BY <2>4, <1>t DEF Job
  <2>7. OneCommand' /\ OsOnly' /\ CounterAhead'
    BY <2>1, <2>2, <2>6 DEF OneCommand, Active, OsOnly, NothingLeft, CounterAhead
  <2>8. NumberFree'
    BY <2>1, <2>2, <2>5, <2>6 DEF NumberFree
  <2>9. NumberedSeen' /\ AddressSettled'
    BY <2>1, <2>2, <2>6 DEF NumberedSeen, Numbered, AddressSettled, Dirs
  <2>10. DistinctNumbers' /\ DistinctAddresses'
    BY <2>1 DEF DistinctNumbers, DistinctAddresses, Numbered, Dirs
  <2> QED BY <2>7, <2>8, <2>9, <2>10
<1>9. CASE ResetCounter(p)
  BY <1>9, <1>t, <1>alone DEF ResetCounter, OneCommand, Active, OsOnly, NothingLeft,
     NumberedSeen, Numbered, CounterAhead,
         NumberFree, AddressSettled, DistinctNumbers, DistinctAddresses, Dirs, Job
<1>10. CASE ReadCounter(p)
  BY <1>10, <1>t, <1>alone DEF ReadCounter, OneCommand, Active, OsOnly, NothingLeft,
     NumberedSeen, Numbered, CounterAhead,
         NumberFree, AddressSettled, DistinctNumbers, DistinctAddresses, Dirs, Job
<1>11. CASE WriteCounter(p)
  BY <1>11, <1>t, <1>alone DEF WriteCounter, Step, OneCommand, Active, OsOnly, NothingLeft,
     NumberedSeen, Numbered, CounterAhead,
         NumberFree, AddressSettled, DistinctNumbers, DistinctAddresses, Dirs, Job
<1>12. CASE WriteNumber(p)
  <2> DEFINE c0 == job[p].c
  <2>1. /\ job[p].pc = "number" /\ job'[p].pc = "config" /\ job'[p].c = c0
        /\ job'[p].ctype = job[p].ctype /\ p \in Callers
        /\ \A q \in Callers : q # p => job'[q] = job[q] /\ job[q].pc = "idle"
        /\ counter' = counter /\ c0 \in Names
    BY <1>12, <1>t, <1>alone DEF WriteNumber, Step, Job
  <2>2. /\ ve'[c0].num = IF ve[c0].dir THEN counter ELSE NoNumber
        /\ \A c \in Names : c # c0 => ve'[c] = ve[c]
        /\ \A c \in Names : /\ ve'[c].dir = ve[c].dir
                            /\ ve'[c].ctype = ve[c].ctype
                            /\ ve'[c].config = ve[c].config
                            /\ ve'[c].ip = ve[c].ip
        /\ \A c \in Names : ve[c].num < counter
    BY <1>12, <1>t DEF WriteNumber, Ve, NumberFree
  <2>3. OneCommand' /\ OsOnly' /\ CounterAhead'
    BY <2>1, <2>2, <1>t DEF OneCommand, Active, OsOnly, NothingLeft, CounterAhead, NoNumber
  <2>4. NumberedSeen' /\ AddressSettled'
    BY <2>1, <2>2, <1>t
    DEF NumberedSeen, Numbered, AddressSettled, Dirs, NoNumber, OsOnly, NothingLeft
  <2>5. NumberFree'
    BY <2>1 DEF NumberFree
  <2>6. DistinctNumbers'
    BY <2>1, <2>2, <1>t DEF DistinctNumbers, Numbered, Dirs
  <2>7. DistinctAddresses'
    BY <2>1, <2>2 DEF DistinctAddresses, Dirs
  <2> QED BY <2>3, <2>4, <2>5, <2>6, <2>7
<1>13. CASE WriteConfig(p)
  <2> DEFINE c0 == job[p].c
  <2>1. /\ job[p].pc = "config" /\ job'[p].pc \in {"idle", "scan"}
        /\ job'[p].ctype # "apache"
        /\ \A q \in Callers : q # p => job'[q] = job[q] /\ job[q].pc = "idle"
        /\ counter' = counter /\ c0 \in Names
    BY <1>13, <1>t, <1>alone, <1>idle DEF WriteConfig, Step, Return, Job, OsOnly, NothingLeft
  <2>2. /\ \A c \in Names : c # c0 => ve'[c] = ve[c]
        /\ \A c \in Names : ve'[c].dir = ve[c].dir /\ ve'[c].num = ve[c].num
        /\ ve'[c0].ctype # "apache"
        /\ ve[c0].dir => ve'[c0].config /\ ve'[c0].ip = ToIp(ve[c0].num)
        /\ ~ve[c0].dir => ~ve'[c0].config
    BY <1>13, <1>t DEF WriteConfig, generate_lxc_config, Ve, OsOnly, NothingLeft
  <2>3. OneCommand' /\ OsOnly' /\ CounterAhead'
    BY <2>1, <2>2, <1>t DEF OneCommand, Active, OsOnly, NothingLeft, CounterAhead
  <2>4. NumberedSeen' /\ NumberFree'
    BY <2>1, <2>2, <1>t DEF NumberedSeen, Numbered, Dirs, NumberFree
  <2>5. \A c \in Names : ve'[c].dir /\ ve'[c].config =>
          ve'[c].num # NoNumber /\ ve'[c].ip = ToIp(ve'[c].num)
    BY <2>1, <2>2, <1>t DEF AddressSettled, Dirs
  <2>6. AddressSettled'
    BY <2>1, <2>5 DEF AddressSettled, Dirs
  <2>7. DistinctNumbers'
    BY <2>2 DEF DistinctNumbers, Numbered, Dirs
  <2>8. DistinctAddresses'
    <3> SUFFICES ASSUME NEW c \in Dirs', NEW d \in Dirs',
                        ve'[c].config, ve'[d].config, ve'[c].ip = ve'[d].ip
                 PROVE  c = d
      BY DEF DistinctAddresses
    <3>1. ve'[c].num \in Nat /\ ve'[d].num \in Nat
      BY <2>2, <1>t DEF Dirs
    <3>2. ve'[c].num = ve'[d].num
      BY <2>5, <3>1, ToIpInjective DEF Dirs
    <3> QED BY <2>5, <2>7, <3>2 DEF DistinctNumbers, Numbered, Dirs
  <2> QED BY <2>3, <2>4, <2>6, <2>7, <2>8
<1>14. ASSUME NEW c \in Names, Remove(p, c)
       PROVE  OrderlyNumbers'
  BY <1>14, <1>t, <1>start DEF Remove, CanStart, NoVe, NoNumber, OneCommand, Active, OsOnly,
     NothingLeft, NumberedSeen, Numbered, CounterAhead,
         NumberFree, AddressSettled, DistinctNumbers, DistinctAddresses, Dirs, Job
<1>15. ASSUME NEW c \in Names, Import(p, c)
       PROVE  OrderlyNumbers'
  BY <1>15, <1>t, <1>start DEF Import, CanStart, NoVe, NoNumber, OneCommand, Active, OsOnly,
     NothingLeft, NumberedSeen, Numbered, CounterAhead,
         NumberFree, AddressSettled, DistinctNumbers, DistinctAddresses, Dirs, Job
<1>16. CASE Kill(p)
  BY <1>16 DEF Kill, Disciplined
<1> QED
  BY <1>p, <1>1, <1>2, <1>3, <1>4, <1>5, <1>6, <1>7, <1>8, <1>9, <1>10,
     <1>11, <1>12, <1>13, <1>14, <1>15, <1>16
  DEF Add, Regenerate, Numbering

(* The numbering invariant of a disciplined use.                           *)
THEOREM NumberingCorrect == Spec => []NumberingInv
<1>1. Init => NumberingInv
  BY DEF Init, NumberingInv, OrderlyNumbers, OneCommand, Active, OsOnly, NothingLeft,
         NumberedSeen, Numbered, CounterAhead, NumberFree, AddressSettled,
         DistinctNumbers, DistinctAddresses, Dirs, NoVe, NoNumber, Idle
<1>2. TypeOK /\ TypeOK' /\ NumberingInv /\ [Next]_vars => NumberingInv'
  <2> SUFFICES ASSUME TypeOK, TypeOK', NumberingInv, [Next]_vars, Disciplined'
               PROVE  OrderlyNumbers'
    BY DEF NumberingInv
  <2>1. env' = env
    BY DEF Next, vars
  <2>2. Disciplined /\ OrderlyNumbers
    BY <2>1 DEF Disciplined, NumberingInv
  <2>3. CASE Next
    BY <2>2, <2>3, NumberingStep
  <2>4. CASE UNCHANGED vars
    BY <2>2, <2>4
    DEF vars, OrderlyNumbers, OneCommand, Active, OsOnly, NothingLeft, NumberedSeen,
        Numbered, CounterAhead, NumberFree, AddressSettled, DistinctNumbers,
        DistinctAddresses, Dirs
  <2> QED BY <2>3, <2>4
<1> QED BY <1>1, <1>2, TypeCorrect, PTL DEF Spec

(* The counter gives every container of a host a number of its own, and    *)
(* with it an address of its own, when root runs one command at a time to  *)
(* its end and uses OS containers only.                                    *)
THEOREM NumbersDistinctCorrect == Spec => []NumbersDistinct
<1>1. NumberingInv => NumbersDistinct
  BY DEF NumberingInv, OrderlyNumbers, NumbersDistinct
<1> QED BY <1>1, NumberingCorrect, PTL

-----------------------------------------------------------------------------
(* Each step of commands that come one by one keeps what they rely on.     *)
LEMMA KeepingStep ==
  ASSUME OneByOne, TypeOK, KeepsNumbers, Next
  PROVE  KeepsNumbers'
<1> USE DEF KeepsNumbers
<1>p. PICK p \in Callers :
          \/ Add(p) \/ Regenerate(p) \/ Numbering(p)
          \/ \E c \in Names : Remove(p, c) \/ Import(p, c)
          \/ Kill(p)
  BY DEF Next
<1>t. /\ job \in [Callers -> Job] /\ ve \in [Names -> Ve] /\ counter \in Nat
      /\ job[p] \in Job /\ job[p].c \in Names /\ ve[job[p].c] \in Ve
      /\ \A c \in Names : ve[c] \in Ve /\ ve[c].num \in Nat
      /\ \A q \in Callers : job[q] \in Job /\ job[q].n \in Nat
  BY DEF TypeOK, Job, Ve
<1>alone. ASSUME job[p].pc # "idle"
          PROVE  \A q \in Callers : q # p => job[q].pc = "idle"
  BY <1>alone DEF OneCommand, Active
<1>start. ASSUME CanStart(p)
          PROVE  \A q \in Callers : job[q].pc = "idle"
  BY <1>start, StartAlone DEF OneByOne
<1> USE DEF OneCommand, Active, NothingLeft, ConfiguredNumbered, AddMakesNew,
            RegenerateNumbers, NumberInHand, NoNumber
<1>1. ASSUME NEW a \in env.args, NEW t \in env.ctypes, AddCheck(p, a, t)
      PROVE  KeepsNumbers'
  <2>1. a \in Args /\ Expand[a] = a /\ a \in Names
    BY <1>t, ConstantsAssumption DEF OneByOne, TypeOK, Env
  <2> QED BY <1>1, <2>1, <1>t, <1>start DEF AddCheck, CanStart, Idle, Dirs, Job
<1>2. CASE MakeDir(p)
  <2>1. /\ job[p].pc = "mkdir" /\ job'[p] = [job[p] EXCEPT !.pc = "rootfs"]
        /\ \A q \in Callers : q # p => job'[q] = job[q] /\ job[q].pc = "idle"
    BY <1>2, <1>t, <1>alone DEF MakeDir, Step, Job
  <2>2. /\ job'[p].pc = "rootfs" /\ job'[p].cmd = job[p].cmd /\ job'[p].c = job[p].c
        /\ job'[p].n = job[p].n
    BY <2>1, <1>t DEF Job
  <2>3. \A c \in Names : /\ ve'[c].num = ve[c].num /\ ve'[c].config = ve[c].config
                         /\ ve'[c].dir <=> ve[c].dir \/ c = job[p].c
    BY <1>2, <1>t DEF MakeDir, Ve
  <2>4. job[p].cmd = "add" => ~ve[job[p].c].config
    BY <2>1, <1>t
  <2>5. OneCommand' /\ NothingLeft' /\ ConfiguredNumbered'
    BY <2>1, <2>2, <2>3, <1>t
  <2>6. job'[p].n > 0 /\ job'[p].cmd = "add" /\ ~ve'[job'[p].c].config
    <3>1. job[p].cmd = "add" /\ job[p].n > 0
      BY <2>1
    <3> QED BY <2>2, <2>3, <2>4, <3>1, <1>t
  <2>7. AddMakesNew' /\ RegenerateNumbers'
    BY <2>1, <2>2, <2>6
  <2>8. NumberInHand'
    BY <2>1, <2>2, <2>6
  <2> QED BY <2>5, <2>7, <2>8
<1>3. CASE MakeRootfs(p)
  <2>1. /\ job[p].pc = "rootfs" /\ job'[p] = [job[p] EXCEPT !.pc = "number"]
        /\ \A q \in Callers : q # p => job'[q] = job[q] /\ job[q].pc = "idle"
    BY <1>3, <1>t, <1>alone DEF MakeRootfs, Step, Job
  <2>2. /\ job'[p].pc = "number" /\ job'[p].cmd = job[p].cmd /\ job'[p].c = job[p].c
        /\ job'[p].n = job[p].n
    BY <2>1, <1>t DEF Job
  <2>3. \A c \in Names : /\ ve'[c].num = ve[c].num /\ ve'[c].config = ve[c].config
                         /\ ve'[c].dir <=> ve[c].dir \/ c = job[p].c
    BY <1>3, <1>t DEF MakeRootfs, Ve
  <2>4. /\ job[p].cmd = "add" /\ job[p].n > 0 /\ ~ve[job[p].c].config
        /\ job'[p].n > 0 /\ job'[p].cmd = "add" /\ ~ve'[job'[p].c].config
    <3>1. job[p].cmd = "add"
      BY <2>1
    <3>2. job[p].n > 0 /\ ~ve[job[p].c].config
      BY <2>1, <3>1
    <3> QED BY <2>2, <2>3, <3>1, <3>2, <1>t
  <2>5. OneCommand' /\ NothingLeft' /\ ConfiguredNumbered'
    BY <2>1, <2>2, <2>3, <1>t
  <2>6. AddMakesNew'
    BY <2>1, <2>2, <2>4
  <2>7. RegenerateNumbers'
    BY <2>1, <2>2, <2>4
  <2>8. NumberInHand'
    <3>1. \A q \in Callers : q = p \/ job'[q].pc = "idle"
      BY <2>1
    <3> QED BY <2>2, <2>4, <3>1
  <2> QED BY <2>5, <2>6, <2>7, <2>8
<1>4. CASE RootfsFails(p)
  BY <1>4, <1>t, <1>alone DEF RootfsFails, Return, Idle, Ve, Job
<1>5. ASSUME NEW all \in BOOLEAN, RegenerateStart(p, all)
      PROVE  KeepsNumbers'
  BY <1>5, <1>t, <1>start DEF RegenerateStart, CanStart, Idle, Job
<1>6. ASSUME NEW c \in Names, ScanDir(p, c)
      PROVE  KeepsNumbers'
  <2>1. job[p].pc = "scan" /\ ve' = ve
    BY <1>6 DEF ScanDir
  <2>2. /\ job'[p].pc \in {"scan", "read", "config"} /\ job'[p].cmd = job[p].cmd
        /\ job'[p].c = c /\ job[p].cmd # "add"
        /\ job'[p].pc = "config" => ve[c].num # NoNumber
        /\ job'[p].pc = "read" => ve[c].num = NoNumber
        /\ \A q \in Callers : q # p => job'[q] = job[q]
    BY <1>6, <1>t DEF ScanDir, Job
  <2>3. \A q \in Callers : q # p => job[q].pc = "idle"
    BY <2>1, <1>alone
  <2>4. job[p].cmd # "none"
    BY <2>1
  <2>5. OneCommand' /\ NothingLeft' /\ ConfiguredNumbered'
    BY <2>1, <2>2, <2>3
  <2>6. RegenerateNumbers' /\ NumberInHand'
    BY <2>1, <2>2, <2>3, <2>4
  <2>7. AddMakesNew'
    BY <2>1, <2>2, <2>3
  <2> QED BY <2>5, <2>6, <2>7
<1>7. CASE RegenerateDone(p)
  BY <1>7, <1>t, <1>alone DEF RegenerateDone, Return, Idle, Job
<1>8. CASE ScanNumbers(p)
  BY <1>8, <1>t, <1>alone DEF ScanNumbers, Job
<1>9. CASE ResetCounter(p)
  BY <1>9, <1>t, <1>alone DEF ResetCounter, Job
<1>10. CASE ReadCounter(p)
  BY <1>10, <1>t, <1>alone DEF ReadCounter, Job
<1>11. CASE WriteCounter(p)
  BY <1>11, <1>t, <1>alone DEF WriteCounter, Step, Job
<1>12. CASE WriteNumber(p)
  BY <1>12, <1>t, <1>alone DEF WriteNumber, Step, Job, Ve
<1>13. CASE WriteConfig(p)
  <2>1. /\ job[p].pc = "config" /\ job'[p].pc \in {"idle", "scan"}
        /\ job'[p].pc = "scan" => job'[p].cmd = job[p].cmd /\ job[p].cmd # "add"
        /\ \A q \in Callers : q # p => job'[q] = job[q] /\ job[q].pc = "idle"
    BY <1>13, <1>t, <1>alone DEF WriteConfig, Step, Return, Idle, Job
  <2>2. /\ \A c \in Names : ve'[c].dir = ve[c].dir /\ ve'[c].num = ve[c].num
        /\ \A c \in Names :
             ve'[c].config => ve[c].config \/ (c = job[p].c /\ ve[c].dir)
    BY <1>13, <1>t DEF WriteConfig, generate_lxc_config, Ve
  <2> QED BY <2>1, <2>2, <1>t
<1>14. ASSUME NEW c \in Names, Remove(p, c)
       PROVE  KeepsNumbers'
  BY <1>14, <1>t, <1>start DEF Remove, CanStart, NoVe, Job
<1>15. ASSUME NEW c \in Names, Import(p, c)
       PROVE  KeepsNumbers'
  BY <1>15, <1>t, <1>start DEF Import, CanStart, NoVe, Job
<1>16. CASE Kill(p)
  BY <1>16, <1>t, <1>alone DEF Kill, Return, Idle, Job
<1> QED
  BY <1>p, <1>1, <1>2, <1>3, <1>4, <1>5, <1>6, <1>7, <1>8, <1>9, <1>10,
     <1>11, <1>12, <1>13, <1>14, <1>15, <1>16
  DEF Add, Regenerate, Numbering

(* The invariant of commands that come one by one.                         *)
LEMMA KeepingCorrect == Spec => []KeepingInv
<1>1. Init => KeepingInv
  BY DEF Init, KeepingInv, KeepsNumbers, OneCommand, Active, NothingLeft,
         ConfiguredNumbered, AddMakesNew, RegenerateNumbers, NumberInHand,
         NoVe, NoNumber, Idle
<1>2. TypeOK /\ KeepingInv /\ [Next]_vars => KeepingInv'
  <2> SUFFICES ASSUME TypeOK, KeepingInv, [Next]_vars, OneByOne'
               PROVE  KeepsNumbers'
    BY DEF KeepingInv
  <2>1. env' = env
    BY DEF Next, vars
  <2>2. OneByOne /\ KeepsNumbers
    BY <2>1 DEF OneByOne, KeepingInv
  <2>3. CASE Next
    BY <2>2, <2>3, KeepingStep
  <2>4. CASE UNCHANGED vars
    BY <2>2, <2>4
    DEF vars, KeepsNumbers, OneCommand, Active, NothingLeft,
        ConfiguredNumbered, AddMakesNew, RegenerateNumbers, NumberInHand
  <2> QED BY <2>3, <2>4
<1> QED BY <1>1, <1>2, TypeCorrect, PTL DEF Spec

(* What commands that come one by one do to a container: none changes the  *)
(* number of one that is configured, and none takes a user away, but for   *)
(* remove.                                                                 *)
LEMMA KeptInAStep ==
  ASSUME OneByOne, TypeOK, KeepsNumbers, [Next]_vars, NEW c \in Names,
         ve'[c].dir
  PROVE  /\ ve[c].config => ve'[c].num = ve[c].num
         /\ ve[c].dir => ve[c].users \subseteq ve'[c].users
<1>1. ve \in [Names -> Ve] /\ job \in [Callers -> Job]
  BY DEF TypeOK
<1>2. CASE UNCHANGED ve
  BY <1>2
<1>3. CASE \E p \in Callers : MakeDir(p)
  BY <1>1, <1>3
  DEF MakeDir, KeepsNumbers, NumberInHand, AddMakesNew, NothingLeft, Ve, Job
<1>4. CASE \E p \in Callers : MakeRootfs(p)
  BY <1>1, <1>4 DEF MakeRootfs, Ve
<1>5. CASE \E p \in Callers : RootfsFails(p)
  BY <1>1, <1>5 DEF RootfsFails, Ve
<1>6. CASE \E p \in Callers : WriteNumber(p)
  BY <1>1, <1>6
  DEF WriteNumber, KeepsNumbers, AddMakesNew, RegenerateNumbers, NumberInHand,
      ConfiguredNumbered, Ve, Job
<1>7. CASE \E p \in Callers : WriteConfig(p)
  BY <1>1, <1>7 DEF WriteConfig, generate_lxc_config, Ve
<1>8. CASE \E p \in Callers, d \in Names : Remove(p, d) \/ Import(p, d)
  BY <1>1, <1>8 DEF Remove, Import, NoVe, Dirs, KeepsNumbers, NothingLeft, Ve
<1> QED
  BY <1>2, <1>3, <1>4, <1>5, <1>6, <1>7, <1>8
  DEF vars, Next, Add, Regenerate, Numbering, AddCheck, RegenerateStart,
      ScanDir, RegenerateDone, ScanNumbers, ResetCounter, ReadCounter,
      WriteCounter, Kill

(* A container keeps its number for as long as it exists, whoever types    *)
(* the commands and wherever they are killed, if they come one by one.     *)
THEOREM NumberKeptCorrect == Spec => NumberKept
<1>1. TypeOK /\ KeepingInv /\ [Next]_vars
        => [OneByOne => \A c \in Names :
              ve[c].config /\ ve'[c].dir => ve'[c].num = ve[c].num]_vars
  BY KeptInAStep DEF KeepingInv
<1> QED BY <1>1, TypeCorrect, KeepingCorrect, PTL DEF Spec, NumberKept

(* A container keeps its users in the same way.                            *)
THEOREM UsersKeptCorrect == Spec => UsersKept
<1>1. TypeOK /\ KeepingInv /\ [Next]_vars
        => [OneByOne => \A c \in Names :
              ve[c].dir /\ ve'[c].dir => ve[c].users \subseteq ve'[c].users]_vars
  BY KeptInAStep DEF KeepingInv
<1> QED BY <1>1, TypeCorrect, KeepingCorrect, PTL DEF Spec, UsersKept

-----------------------------------------------------------------------------
(* The backups of a container, with constants and variables of their own.  *)
(* What Backups assumes of its constants is a hypothesis.                  *)
CONSTANTS Dbs, Passwords, BCallers, MaxPoints, None, BEnvs
VARIABLES benv, bve, db, rootpw, mdf, points, clock, arch, mirror, from, auth,
          rough, bjob

B == INSTANCE Backups
  WITH Callers <- BCallers, Envs <- BEnvs, env <- benv, ve <- bve, job <- bjob

(* Finite sets are the same in both modules.                               *)
LEMMA SameSizes ==
  /\ \A S : B!IsFiniteSet(S) <=> IsFiniteSet(S)
  /\ \A S : B!Cardinality(S) = Cardinality(S)
BY DEF B!IsFiniteSet, IsFiniteSet, B!Cardinality, Cardinality

-----------------------------------------------------------------------------
(* Where a command may be, and what is inside the container of it.         *)
Stages(cmd) ==
  CASE cmd = "none"                 -> {"none"}
    [] cmd = "backup"               -> {"look", "check", "old", "mkdir", "show", "dump", "archive",
                                        "read"}
    [] cmd = "backup-hosts"         -> {"reach", "check", "old", "mkdir", "show", "dump",
                                        "rsync", "copy"}
    [] cmd = "backup-db"            -> {"check", "old", "mkdir", "show", "dump"}
    [] cmd = "secure-mariadb"       -> {"secure", "secure-file", "secure-sql"}
    [] cmd = "reset-db-root-passwd" -> {"reset", "reset-sql", "reset-file", "reset-reboot"}
    [] cmd = "remove"               -> {"remove"}
    [] cmd = "restore"              -> {"restore"}

InsideStages == {"check", "old", "mkdir", "show", "dump", "secure", "secure-file",
                 "secure-sql", "reset", "reset-sql", "reset-file", "reset-reboot"}
StageNames == InsideStages \cup
  {"none", "look", "reach", "archive", "read", "rsync", "copy", "remove", "restore"}
Commands == {"none", "backup", "backup-hosts", "backup-db", "secure-mariadb",
             "reset-db-root-passwd", "remove", "restore"}

(* Directories made at some times.                                         *)
DumpSets == UNION {[S -> SUBSET Dbs] : S \in SUBSET Nat}

JobRecord ==
  [cmd : Commands, pc : StageNames, clean : BOOLEAN, old : SUBSET Nat, point : Nat,
   todo : SUBSET Dbs, succ : BOOLEAN, pw : Passwords \cup {None},
   list : DumpSets, had : DumpSets, began : Nat, smooth : BOOLEAN]

(* Directories made at times up to c.                                      *)
Dumps(d, c) == d \in [DOMAIN d -> SUBSET Dbs] /\ DOMAIN d \subseteq 1 .. c

(* A job r is in order when the container is v and the time is c.          *)
Orderly(r, v, c) ==
  /\ r \in JobRecord
  /\ r.pc \in Stages(r.cmd)
  /\ r.point \in 0 .. c /\ r.began \in 0 .. c /\ r.old \subseteq 1 .. c
  /\ Dumps(r.list, c) /\ Dumps(r.had, c)
  /\ r.pc \in InsideStages => v = "running"

JobsOK ==
  /\ bjob \in [BCallers -> JobRecord]
  /\ \A p \in BCallers : Orderly(bjob[p], bve, clock)
  /\ \A p \in BCallers : bjob[p].cmd \in benv.cmds \cup {"none"}

DumpsOK ==
  /\ Dumps(points, clock) /\ Dumps(arch, clock) /\ Dumps(mirror, clock) /\ Dumps(from, clock)

(* The commands that may still make a directory.                           *)
Makers == {p \in BCallers : bjob[p].pc \in {"look", "reach", "check", "old", "mkdir"}}

(* What of the assumptions on the constants the proofs use.                *)
Limits == IsFiniteSet(BCallers) /\ MaxPoints \in Nat /\ BEnvs \subseteq B!Env

StateOK ==
  /\ Limits
  /\ benv \in BEnvs
  /\ bve \in {"gone", "stopped", "running"}
  /\ db \in {"up", "down", "safe"} /\ (db # "down" => bve = "running")
  /\ rootpw \in Passwords \cup {None} /\ mdf \in Passwords \cup {None}
  /\ clock \in Nat /\ clock + Cardinality(Makers) <= MaxPoints
  /\ auth \in BOOLEAN /\ rough \in BOOLEAN

Typed == StateOK /\ DumpsOK /\ JobsOK

-----------------------------------------------------------------------------
(* Directories and jobs.                                                   *)
LEMMA DumpsEmpty == \A c : Dumps(B!Nothing, c)
  BY DEF Dumps, B!Nothing

LEMMA DumpsAreSets ==
  /\ B!Nothing \in DumpSets
  /\ \A d : \A c \in Nat : Dumps(d, c) => d \in DumpSets
<1>1. ASSUME NEW d, NEW c \in Nat, Dumps(d, c) PROVE d \in DumpSets
  <2>1. DOMAIN d \in SUBSET Nat /\ d \in [DOMAIN d -> SUBSET Dbs]
    BY <1>1 DEF Dumps
  <2> QED BY <2>1 DEF DumpSets
<1> QED BY <1>1, DumpsEmpty

LEMMA DumpsLater ==
  ASSUME NEW d, NEW b \in Nat, NEW c \in Nat, b <= c, Dumps(d, b)
  PROVE  Dumps(d, c)
  BY DEF Dumps

LEMMA DumpsMade ==
  ASSUME NEW d, NEW c \in Nat, Dumps(d, c)
  PROVE  Dumps([t \in DOMAIN d \cup {c + 1} |-> IF t = c + 1 THEN {} ELSE d[t]], c + 1)
  BY DEF Dumps

LEMMA DumpsGrown ==
  ASSUME NEW d, NEW c \in Nat, Dumps(d, c), NEW t \in DOMAIN d, NEW x \in Dbs
  PROVE  /\ Dumps([d EXCEPT ![t] = @ \cup {x}], c)
         /\ DOMAIN [d EXCEPT ![t] = @ \cup {x}] = DOMAIN d
         /\ \A u \in DOMAIN d : [d EXCEPT ![t] = @ \cup {x}][u] =
              IF u = t THEN d[u] \cup {x} ELSE d[u]
  BY DEF Dumps

LEMMA DumpsRestricted ==
  ASSUME NEW d, NEW c \in Nat, Dumps(d, c), NEW S, S \subseteq DOMAIN d
  PROVE  /\ Dumps(B!Restrict(d, S), c) /\ DOMAIN B!Restrict(d, S) = S
         /\ \A t \in S : B!Restrict(d, S)[t] = d[t]
  BY DEF Dumps, B!Restrict

LEMMA DumpsCopied ==
  ASSUME NEW d, NEW e, NEW c \in Nat, Dumps(d, c), Dumps(e, c), NEW S, S \subseteq DOMAIN e
  PROVE  Dumps([t \in DOMAIN d \cup S |-> IF t \in S THEN e[t] ELSE d[t]], c)
  BY DEF Dumps

LEMMA NoJobOrderly == \A v : \A c \in Nat : Orderly(B!NoJob, v, c)
  BY DumpsEmpty, DumpsAreSets DEF Orderly, B!NoJob, JobRecord, Stages, StageNames, Commands,
     InsideStages

LEMMA OrderlyLater ==
  ASSUME NEW r, NEW v, NEW b \in Nat, NEW c \in Nat, b <= c, Orderly(r, v, b)
  PROVE  Orderly(r, v, c)
  BY DumpsLater DEF Orderly

(* A command that goes on alone, to the job r.                             *)
LEMMA JobGoesOn ==
  ASSUME JobsOK, clock \in Nat, clock' \in Nat, clock <= clock', benv' = benv, bve' = bve,
         NEW p \in BCallers, NEW r, Orderly(r, bve, clock'), r.cmd \in benv.cmds \cup {"none"},
         bjob' = [bjob EXCEPT ![p] = r]
  PROVE  JobsOK' /\ bjob'[p] = r /\ \A q \in BCallers \ {p} : bjob'[q] = bjob[q]
<1>1. r \in JobRecord
  BY DEF Orderly
<1>2. bjob' \in [BCallers -> JobRecord]
  BY <1>1 DEF JobsOK
<1>3. \A q \in BCallers : Orderly(bjob'[q], bve, clock')
  BY OrderlyLater DEF JobsOK
<1> QED BY <1>2, <1>3 DEF JobsOK

(* The commands that make directories are finitely many.                   *)
LEMMA FewMakers ==
  ASSUME StateOK, NEW S, S \subseteq BCallers
  PROVE  IsFiniteSet(S) /\ Cardinality(S) \in Nat
  BY FS_Subset, FS_CardinalityType DEF StateOK, Limits

LEMMA MakersShrink ==
  ASSUME StateOK, clock' = clock,
         \A p \in BCallers : p \in Makers' => p \in Makers
  PROVE  clock' + Cardinality(Makers)' <= MaxPoints
<1>1. Makers \subseteq BCallers /\ Makers' \subseteq Makers
  BY DEF Makers
<1>2. IsFiniteSet(Makers) /\ Cardinality(Makers) \in Nat /\ Cardinality(Makers') \in Nat
  BY <1>1, FewMakers
<1>3. Cardinality(Makers') <= Cardinality(Makers)
  BY <1>1, <1>2, FS_Subset
<1>4. MaxPoints \in Nat
  BY DEF StateOK, Limits
<1> QED BY <1>2, <1>3, <1>4 DEF StateOK

-----------------------------------------------------------------------------
(* What a command is, by where it is.                                      *)
LEMMA CmdOf ==
  ASSUME NEW r, NEW v, NEW c, Orderly(r, v, c)
  PROVE  /\ r.pc = "none" <=> r.cmd = "none"
         /\ r.pc \in {"look", "archive", "read"} => r.cmd = "backup"
         /\ r.pc \in {"reach", "rsync", "copy"} => r.cmd = "backup-hosts"
         /\ r.pc \in {"check", "old", "mkdir", "show", "dump"} =>
              r.cmd \in {"backup", "backup-hosts", "backup-db"}
         /\ r.pc \in {"secure", "secure-file", "secure-sql"} => r.cmd = "secure-mariadb"
         /\ r.pc \in {"reset", "reset-sql", "reset-file", "reset-reboot"} =>
              r.cmd = "reset-db-root-passwd"
         /\ r.pc = "remove" => r.cmd = "remove"
         /\ r.pc = "restore" => r.cmd = "restore"
<1>1. r.cmd \in Commands /\ r.pc \in Stages(r.cmd)
  BY DEF Orderly, JobRecord
<1> QED BY <1>1 DEF Stages, Commands

LEMMA PcOf ==
  ASSUME JobsOK, NEW p \in BCallers
  PROVE  /\ bjob[p].pc = "none" <=> bjob[p].cmd = "none"
         /\ bjob[p].pc \in {"look", "archive", "read"} => bjob[p].cmd = "backup"
         /\ bjob[p].pc \in {"reach", "rsync", "copy"} => bjob[p].cmd = "backup-hosts"
         /\ bjob[p].pc \in {"check", "old", "mkdir", "show", "dump"} =>
              bjob[p].cmd \in {"backup", "backup-hosts", "backup-db"}
         /\ bjob[p].pc \in {"secure", "secure-file", "secure-sql"} => bjob[p].cmd = "secure-mariadb"
         /\ bjob[p].pc \in {"reset", "reset-sql", "reset-file", "reset-reboot"} =>
              bjob[p].cmd = "reset-db-root-passwd"
         /\ bjob[p].pc = "remove" => bjob[p].cmd = "remove"
         /\ bjob[p].pc = "restore" => bjob[p].cmd = "restore"
<1>1. Orderly(bjob[p], bve, clock)
  BY DEF JobsOK
<1> QED BY <1>1, CmdOf

LEMMA LeaveOK ==
  ASSUME JobsOK, clock \in Nat, clock' = clock, benv' = benv, bve' = bve,
         NEW p \in BCallers, B!Leave(p)
  PROVE  /\ JobsOK' /\ bjob'[p] = B!NoJob /\ \A q \in BCallers \ {p} : bjob'[q] = bjob[q]
         /\ \A q \in BCallers : q \in Makers' => q \in Makers
<1>1. Orderly(B!NoJob, bve, clock') /\ B!NoJob.cmd = "none" /\ B!NoJob.pc = "none"
  BY NoJobOrderly DEF B!NoJob
<1>2. JobsOK' /\ bjob'[p] = B!NoJob /\ \A q \in BCallers \ {p} : bjob'[q] = bjob[q]
  <2>1. clock <= clock' /\ clock' \in Nat
    OBVIOUS
  <2> QED BY <1>1, <2>1, JobGoesOn DEF B!Leave
<1> QED BY <1>1, <1>2 DEF Makers

LEMMA ToOK ==
  ASSUME JobsOK, clock \in Nat, clock' = clock, benv' = benv, bve' = bve,
         NEW p \in BCallers, NEW pc \in Stages(bjob[p].cmd) \cap StageNames,
         pc \in InsideStages => bve = "running", B!To(p, pc)
  PROVE  /\ JobsOK' /\ bjob'[p] = [bjob[p] EXCEPT !.pc = pc]
         /\ \A q \in BCallers \ {p} : bjob'[q] = bjob[q]
<1>1. Orderly(bjob[p], bve, clock) /\ bjob[p].cmd \in benv.cmds \cup {"none"}
  BY DEF JobsOK
<1>2. Orderly([bjob[p] EXCEPT !.pc = pc], bve, clock') /\ [bjob[p] EXCEPT !.pc = pc].cmd = bjob[p].cmd
  BY <1>1 DEF Orderly, JobRecord
<1>3. bjob' = [bjob EXCEPT ![p] = [bjob[p] EXCEPT !.pc = pc]]
  BY DEF B!To
<1>4. clock <= clock' /\ clock' \in Nat
  OBVIOUS
<1> QED BY <1>1, <1>2, <1>3, <1>4, JobGoesOn

(* The steps that change nothing but the command that takes them.          *)
Still == UNCHANGED <<benv, B!inside, B!copies, auth, rough>>

LEMMA TypedStill ==
  ASSUME Typed, Still, JobsOK', \A q \in BCallers : q \in Makers' => q \in Makers
  PROVE  Typed'
<1>1. clock' = clock /\ clock' + Cardinality(Makers)' <= MaxPoints
  BY MakersShrink DEF Typed, Still, B!inside
<1> QED BY <1>1 DEF Typed, StateOK, Limits, DumpsOK, Still, B!inside, B!copies, Dumps

LEMMA TypedLeave ==
  ASSUME Typed, Still, NEW p \in BCallers, B!Leave(p)
  PROVE  Typed'
  BY LeaveOK, TypedStill DEF Typed, StateOK, Still, B!inside

LEMMA TypedTo ==
  ASSUME Typed, Still, NEW p \in BCallers, NEW pc \in Stages(bjob[p].cmd) \cap StageNames,
         pc \in InsideStages => bve = "running", B!To(p, pc),
         pc \in {"check", "old", "mkdir"} =>
           bjob[p].pc \in {"look", "reach", "check", "old", "mkdir"},
         pc \notin {"look", "reach"}
  PROVE  Typed'
<1>1. clock \in Nat /\ clock' = clock /\ benv' = benv /\ bve' = bve
  BY DEF Typed, StateOK, Still, B!inside
<1>2. /\ JobsOK' /\ bjob'[p] = [bjob[p] EXCEPT !.pc = pc]
      /\ \A q \in BCallers \ {p} : bjob'[q] = bjob[q]
  BY <1>1, ToOK DEF Typed
<1>3. bjob[p] \in JobRecord
  BY DEF Typed, JobsOK
<1>4. bjob'[p].pc = pc
  BY <1>2, <1>3 DEF JobRecord
<1>5. \A q \in BCallers : q \in Makers' => q \in Makers
  BY <1>2, <1>4 DEF Makers
<1> QED BY <1>2, <1>5, TypedStill

(* The stages a command goes through are stages.                           *)
LEMMA StagesOf ==
  /\ {"look", "check", "old", "mkdir", "show", "dump", "archive", "read"} \subseteq Stages("backup")
  /\ {"reach", "check", "old", "mkdir", "show", "dump", "rsync", "copy"}
       \subseteq Stages("backup-hosts")
  /\ {"check", "old", "mkdir", "show", "dump"} \subseteq Stages("backup-db")
  /\ {"secure", "secure-file", "secure-sql"} \subseteq Stages("secure-mariadb")
  /\ {"reset", "reset-sql", "reset-file", "reset-reboot"}
       \subseteq Stages("reset-db-root-passwd")
  /\ Stages("remove") = {"remove"} /\ Stages("restore") = {"restore"}
  /\ \A cmd \in Commands : Stages(cmd) \subseteq StageNames
  BY DEF Stages, Commands, StageNames, InsideStages

LEMMA TypedAfterDumps ==
  ASSUME Typed, Still, NEW p \in BCallers, B!AfterDumps(p)
  PROVE  Typed'
<1>1. CASE bjob[p].cmd = "backup"
  <2>1. B!To(p, "archive") /\ "archive" \in Stages(bjob[p].cmd) \cap StageNames /\ "archive" \notin InsideStages
    BY <1>1, StagesOf DEF B!AfterDumps, StageNames, InsideStages
  <2> QED BY <2>1, TypedTo
<1>2. CASE bjob[p].cmd = "backup-hosts"
  <2>1. B!To(p, "rsync") /\ "rsync" \in Stages(bjob[p].cmd) \cap StageNames /\ "rsync" \notin InsideStages
    BY <1>2, StagesOf DEF B!AfterDumps, StageNames, InsideStages
  <2> QED BY <2>1, TypedTo
<1>3. CASE bjob[p].cmd \notin {"backup", "backup-hosts"}
  BY <1>3, TypedLeave DEF B!AfterDumps
<1> QED BY <1>1, <1>2, <1>3

-----------------------------------------------------------------------------
(* Types: the steps of one command.                                        *)
LEMMA TypedCommand ==
  ASSUME Typed, benv' = benv, NEW p \in BCallers, NEW cmd \in B!Cmds, NEW clean \in BOOLEAN,
         NEW pw \in Passwords, B!Command(p, cmd, clean, pw)
  PROVE  Typed'
<1> DEFINE W == bve = "running" /\ db = "up" /\ ~rough
           r == [B!NoJob EXCEPT !.cmd = cmd, !.pc = B!First(cmd), !.clean = clean,
                   !.pw = pw, !.began = clock, !.smooth = W]
<1>1. /\ clock \in Nat /\ clock' = clock /\ bve' = bve /\ Still
      /\ benv.cmds \subseteq B!Cmds /\ cmd \in benv.cmds
  BY DEF Typed, StateOK, Limits, B!Command, Still, B!inside, B!Env
<1>2. cmd \in Commands /\ B!First(cmd) \in Stages(cmd)
  BY DEF B!Cmds, B!Inside, Commands, B!First, Stages
<1>3. B!First(cmd) \in StageNames
  BY <1>2, StagesOf
<1>4. B!First(cmd) \in InsideStages => bve = "running"
  BY DEF B!Command, B!First, B!Cmds, B!Inside, InsideStages
<1>5. W \in BOOLEAN /\ bjob' = [bjob EXCEPT ![p] = r]
  BY DEF B!Command
<1> HIDE DEF W
<1>6. /\ r \in JobRecord /\ r.pc = B!First(cmd) /\ r.cmd = cmd /\ r.point = 0 /\ r.began = clock
      /\ r.old = {} /\ r.list = B!Nothing /\ r.had = B!Nothing
  BY <1>1, <1>2, <1>3, <1>5, DumpsAreSets DEF B!NoJob, JobRecord
<1> HIDE DEF r
<1>7. Orderly(r, bve, clock') /\ r.cmd \in benv.cmds \cup {"none"} /\ clock <= clock'
  BY <1>1, <1>2, <1>4, <1>6, DumpsEmpty DEF Orderly
<1>8. JobsOK' /\ bjob'[p] = r /\ \A q \in BCallers \ {p} : bjob'[q] = bjob[q]
  BY <1>1, <1>5, <1>7, JobGoesOn DEF Typed
<1>9. clock' + Cardinality(Makers)' <= MaxPoints
  <2>1. CASE cmd \in B!Dumping
    <3>1. Makers \subseteq B!Active \ {p} /\ B!Active \subseteq BCallers /\ Makers' \subseteq B!Active \cup {p}
      <4>1. \A q \in BCallers : bjob[q].pc \in {"look", "reach", "check", "old", "mkdir"} =>
                bjob[q].cmd # "none"
        BY PcOf DEF Typed
      <4> QED BY <1>8, <4>1 DEF Makers, B!Active, B!Command
    <3>2. clock + Cardinality(B!Active) < MaxPoints
      BY <2>1, SameSizes DEF B!Command
    <3>3. IsFiniteSet(B!Active) /\ Cardinality(B!Active) \in Nat
      BY <3>1, FewMakers DEF Typed
    <3>a. /\ IsFiniteSet(B!Active \cup {p})
          /\ Cardinality(B!Active \cup {p}) =
               IF p \in B!Active THEN Cardinality(B!Active) ELSE Cardinality(B!Active) + 1
      BY <3>3, FS_AddElement
    <3>4. IsFiniteSet(B!Active \cup {p}) /\ Cardinality(B!Active \cup {p}) <= Cardinality(B!Active) + 1
      BY <3>3, <3>a
    <3>5. Cardinality(B!Active \cup {p}) \in Nat /\ Cardinality(Makers') \in Nat
      <4>1. B!Active \cup {p} \subseteq BCallers /\ Makers' \subseteq BCallers
        BY <3>1
      <4> QED BY <4>1, FewMakers DEF Typed
    <3>6. Cardinality(Makers') <= Cardinality(B!Active \cup {p})
      BY <3>1, <3>4, FS_Subset
    <3>7. MaxPoints \in Nat
      BY DEF Typed, StateOK, Limits
    <3> QED BY <1>1, <3>2, <3>3, <3>4, <3>5, <3>6, <3>7
  <2>2. CASE cmd \notin B!Dumping
    <3>1. B!First(cmd) \notin {"look", "reach", "check", "old", "mkdir"}
      BY <2>2 DEF B!Dumping, B!First, B!Cmds, B!Inside
    <3>3. \A q \in BCallers : q \in Makers' => q \in Makers
      BY <1>6, <1>8, <3>1 DEF Makers
    <3> QED BY <1>1, <3>3, MakersShrink DEF Typed
  <2> QED BY <2>1, <2>2
<1> QED BY <1>1, <1>8, <1>9 DEF Typed, StateOK, Limits, DumpsOK, Still, B!inside, B!copies, Dumps

LEMMA TypedLook ==
  ASSUME Typed, benv' = benv, NEW p \in BCallers, B!Look(p)
  PROVE  Typed'
<1>1. bjob[p].cmd = "backup" /\ Still
  BY PcOf DEF B!Look, B!At, Typed, Still
<1>2. PICK pc \in {"check", "archive"} : B!To(p, pc) /\ (pc \in InsideStages => bve = "running")
  BY DEF B!Look, InsideStages
<1>3. pc \in Stages(bjob[p].cmd) \cap StageNames
  BY <1>1, StagesOf DEF StageNames, InsideStages
<1>4. bjob[p].pc = "look"
  BY DEF B!Look, B!At
<1> QED BY <1>1, <1>2, <1>3, <1>4, TypedTo

LEMMA TypedReach ==
  ASSUME Typed, benv' = benv, NEW p \in BCallers, B!Reach(p)
  PROVE  Typed'
<1>1. bjob[p].cmd = "backup-hosts" /\ bjob[p].pc = "reach" /\ Still
  BY PcOf DEF B!Reach, B!At, Typed, Still
<1>2. CASE bve = "gone"
  BY <1>1, <1>2, TypedLeave DEF B!Reach
<1>3. CASE bve # "gone"
  <2>1. PICK pc \in {"check", "rsync"} : B!To(p, pc) /\ (pc \in InsideStages => bve = "running")
    BY <1>3 DEF B!Reach, InsideStages
  <2>2. pc \in Stages(bjob[p].cmd) \cap StageNames
    BY <1>1, StagesOf DEF StageNames, InsideStages
  <2> QED BY <1>1, <2>1, <2>2, TypedTo
<1> QED BY <1>2, <1>3

LEMMA TypedUnreached ==
  ASSUME Typed, benv' = benv, NEW p \in BCallers, B!Unreached(p)
  PROVE  Typed'
  BY TypedLeave DEF B!Unreached, Still

LEMMA TypedCheck ==
  ASSUME Typed, benv' = benv, NEW p \in BCallers, B!Check(p)
  PROVE  Typed'
<1>1. bjob[p].cmd \in {"backup", "backup-hosts", "backup-db"} /\ bjob[p].pc = "check" /\ Still
  BY PcOf DEF B!Check, B!At, Typed, Still
<1>2. CASE B!AfterDumps(p)
  BY <1>1, <1>2, TypedAfterDumps
<1>3. CASE bve = "running" /\ B!To(p, "old")
  <2>1. "old" \in Stages(bjob[p].cmd) \cap StageNames
    BY <1>1, StagesOf DEF StageNames, InsideStages
  <2> QED BY <1>1, <1>3, <2>1, TypedTo
<1> QED BY <1>2, <1>3 DEF B!Check

LEMMA TypedSecure ==
  ASSUME Typed, benv' = benv, NEW p \in BCallers, B!Secure(p)
  PROVE  Typed'
<1>1. bjob[p].cmd = "secure-mariadb" /\ bjob[p].pc = "secure" /\ Still
  BY PcOf DEF B!Secure, B!At, Typed, Still
<1>2. CASE B!Leave(p)
  BY <1>1, <1>2, TypedLeave
<1>3. CASE B!To(p, "secure-file")
  <2>1. /\ "secure-file" \in Stages(bjob[p].cmd) \cap StageNames
        /\ bve = "running"
    BY <1>1, StagesOf DEF StageNames, InsideStages, Typed, JobsOK, Orderly
  <2> QED BY <1>3, <2>1, <1>1, TypedTo
<1> QED BY <1>2, <1>3 DEF B!Secure

(* The steps that change what a job holds, and nothing else.               *)
LEMMA TypedHolds ==
  ASSUME Typed, Still, NEW p \in BCallers, NEW r, Orderly(r, bve, clock),
         r.cmd = bjob[p].cmd, r.pc \notin {"look", "reach", "check", "old"},
         r.pc = "mkdir" => bjob[p].pc = "old", bjob' = [bjob EXCEPT ![p] = r]
  PROVE  Typed'
<1>1. clock \in Nat /\ clock' = clock /\ benv' = benv /\ bve' = bve /\ clock <= clock' /\ clock' \in Nat
  BY DEF Typed, StateOK, Still, B!inside
<1>2. r.cmd \in benv.cmds \cup {"none"}
  BY DEF Typed, JobsOK
<1>3. JobsOK' /\ bjob'[p] = r /\ \A q \in BCallers \ {p} : bjob'[q] = bjob[q]
  BY <1>1, <1>2, JobGoesOn DEF Typed
<1>4. \A q \in BCallers : q \in Makers' => q \in Makers
  BY <1>3 DEF Makers
<1> QED BY <1>3, <1>4, TypedStill

LEMMA TypedOld ==
  ASSUME Typed, benv' = benv, NEW p \in BCallers, B!Old(p)
  PROVE  Typed'
<1>1. /\ bjob[p].cmd \in {"backup", "backup-hosts", "backup-db"} /\ bjob[p].pc = "old" /\ Still
      /\ Orderly(bjob[p], bve, clock)
  BY PcOf DEF B!Old, B!At, Typed, Still, JobsOK
<1> DEFINE r == [bjob[p] EXCEPT !.old = DOMAIN points, !.pc = "mkdir"]
<1>2. "mkdir" \in Stages(bjob[p].cmd) \cap StageNames /\ bve = "running"
  BY <1>1, StagesOf DEF StageNames, InsideStages, Orderly
<1>3. DOMAIN points \subseteq 1 .. clock /\ clock \in Nat /\ DOMAIN points \in SUBSET Nat
  BY DEF Typed, DumpsOK, Dumps, StateOK
<1>4. Orderly(r, bve, clock) /\ r.cmd = bjob[p].cmd /\ r.pc = "mkdir"
  BY <1>1, <1>2, <1>3 DEF Orderly, JobRecord
<1>5. bjob' = [bjob EXCEPT ![p] = r]
  BY DEF B!Old
<1> QED BY <1>1, <1>4, <1>5, TypedHolds

LEMMA TypedShow ==
  ASSUME Typed, benv' = benv, NEW p \in BCallers, B!Show(p)
  PROVE  Typed'
<1>1. /\ bjob[p].cmd \in {"backup", "backup-hosts", "backup-db"} /\ bjob[p].pc = "show" /\ Still
      /\ Orderly(bjob[p], bve, clock)
  BY PcOf DEF B!Show, B!At, Typed, Still, JobsOK
<1> DEFINE T == IF B!Connects THEN Dbs ELSE {}
           r == [bjob[p] EXCEPT !.todo = T, !.pc = "dump"]
<1>2. "dump" \in Stages(bjob[p].cmd) \cap StageNames /\ bve = "running" /\ T \subseteq Dbs
  BY <1>1, StagesOf DEF StageNames, InsideStages, Orderly
<1>5. bjob' = [bjob EXCEPT ![p] = r]
  BY DEF B!Show
<1> HIDE DEF T
<1>4. Orderly(r, bve, clock) /\ r.cmd = bjob[p].cmd /\ r.pc = "dump"
  BY <1>1, <1>2 DEF Orderly, JobRecord
<1> QED BY <1>1, <1>4, <1>5, TypedHolds

-----------------------------------------------------------------------------
(* What a job becomes when what runs inside ends, or is hindered.          *)
LEMMA InsideIs ==
  ASSUME NEW q \in BCallers
  PROVE  B!InsideNow(q) <=> bjob[q].pc \in InsideStages
  BY DEF B!InsideNow, InsideStages

LEMMA HinderedForm ==
  ASSUME JobsOK, NEW q \in BCallers
  PROVE  /\ Orderly(B!Hindered(q), bve, clock)
         /\ B!Hindered(q).cmd = bjob[q].cmd /\ B!Hindered(q).pc = bjob[q].pc
         /\ B!Hindered(q).old = bjob[q].old /\ B!Hindered(q).point = bjob[q].point
         /\ B!Hindered(q).began = bjob[q].began /\ B!Hindered(q).todo = bjob[q].todo
         /\ B!Hindered(q).succ = bjob[q].succ /\ B!Hindered(q).pw = bjob[q].pw
         /\ B!Hindered(q).list = bjob[q].list
         /\ B!Hindered(q).smooth => bjob[q].cmd = "none"
<1>1. Orderly(bjob[q], bve, clock)
  BY DEF JobsOK
<1> DEFINE S == bjob[q].smooth /\ bjob[q].cmd = "none"
<1>2. B!Hindered(q) = [bjob[q] EXCEPT !.smooth = S] /\ S \in BOOLEAN /\ (S => bjob[q].cmd = "none")
  <2>1. bjob[q] \in JobRecord
    BY <1>1 DEF Orderly
  <2> QED BY <2>1 DEF B!Hindered, JobRecord
<1> HIDE DEF S
<1> QED BY <1>1, <1>2 DEF Orderly, JobRecord

LEMMA CutForm ==
  ASSUME JobsOK, clock \in Nat, NEW q \in BCallers
  PROVE  /\ \A v : Orderly(B!Cut(q), v, clock)
         /\ B!Cut(q).cmd \in {bjob[q].cmd, "none"}
         /\ B!Cut(q).pc \in {"none", "archive", "rsync"} \/ B!Cut(q).pc = bjob[q].pc
         /\ B!Cut(q).pc \notin InsideStages
         /\ B!Cut(q) = B!NoJob \/ (/\ B!Cut(q).old = bjob[q].old /\ B!Cut(q).point = bjob[q].point
                                   /\ B!Cut(q).began = bjob[q].began /\ B!Cut(q).pw = bjob[q].pw)
         /\ B!Cut(q).smooth => B!Cut(q).cmd = "none"
         /\ B!Cut(q).pc = "copy" => bjob[q].pc = "copy" /\ B!Cut(q).old = bjob[q].old
         /\ B!Cut(q).pc = "read" => bjob[q].pc = "read" /\ B!Cut(q).list = bjob[q].list
         /\ bjob[q].pc \in {"archive", "read"} => B!Cut(q).cmd = bjob[q].cmd
<1>1. Orderly(bjob[q], bve, clock) /\ bjob[q] \in JobRecord
  BY DEF JobsOK, Orderly
<1>2. CASE B!InsideNow(q) /\ bjob[q].cmd = "backup"
  <2>1. B!Cut(q) = [bjob[q] EXCEPT !.pc = "archive", !.smooth = FALSE]
    BY <1>2 DEF B!Cut, B!Inside
  <2>2. "archive" \in StageNames \ InsideStages /\ "archive" \in Stages("backup")
    BY StagesOf DEF StageNames, InsideStages
  <2>3. bjob[q].pc \notin {"archive", "read", "copy"}
    BY <1>2, <2>2, InsideIs DEF InsideStages
  <2>a. "archive" \in StageNames
    BY <2>2
  <2>4. /\ B!Cut(q) \in JobRecord /\ B!Cut(q).pc = "archive" /\ B!Cut(q).smooth = FALSE
        /\ B!Cut(q).cmd = bjob[q].cmd /\ B!Cut(q).old = bjob[q].old /\ B!Cut(q).point = bjob[q].point
        /\ B!Cut(q).began = bjob[q].began /\ B!Cut(q).pw = bjob[q].pw
        /\ B!Cut(q).list = bjob[q].list /\ B!Cut(q).had = bjob[q].had
    BY <1>1, <2>1, <2>a DEF JobRecord
  <2>5. B!Cut(q).pc \in Stages(B!Cut(q).cmd)
    BY <1>2, <2>2, <2>4
  <2> QED BY <1>1, <2>2, <2>3, <2>4, <2>5 DEF Orderly
<1>3. CASE B!InsideNow(q) /\ bjob[q].cmd = "backup-hosts"
  <2>1. B!Cut(q) = [bjob[q] EXCEPT !.pc = "rsync", !.smooth = FALSE]
    BY <1>3 DEF B!Cut, B!Inside
  <2>2. "rsync" \in StageNames \ InsideStages /\ "rsync" \in Stages("backup-hosts")
    BY StagesOf DEF StageNames, InsideStages
  <2>3. bjob[q].pc \notin {"archive", "read", "copy"}
    BY <1>3, <2>2, InsideIs DEF InsideStages
  <2>a. "rsync" \in StageNames
    BY <2>2
  <2>4. /\ B!Cut(q) \in JobRecord /\ B!Cut(q).pc = "rsync" /\ B!Cut(q).smooth = FALSE
        /\ B!Cut(q).cmd = bjob[q].cmd /\ B!Cut(q).old = bjob[q].old /\ B!Cut(q).point = bjob[q].point
        /\ B!Cut(q).began = bjob[q].began /\ B!Cut(q).pw = bjob[q].pw
        /\ B!Cut(q).list = bjob[q].list /\ B!Cut(q).had = bjob[q].had
    BY <1>1, <2>1, <2>a DEF JobRecord
  <2>5. B!Cut(q).pc \in Stages(B!Cut(q).cmd)
    BY <1>3, <2>2, <2>4
  <2> QED BY <1>1, <2>2, <2>3, <2>4, <2>5 DEF Orderly
<1>4. CASE B!InsideNow(q) /\ bjob[q].cmd \notin {"backup", "backup-hosts"}
  <2>1. B!Cut(q) = B!NoJob
    <3>1. bjob[q].pc \in InsideStages
      BY <1>4, InsideIs
    <3>2. bjob[q].cmd \in B!Inside
      BY <1>1, <1>4, <3>1, CmdOf DEF B!Inside, InsideStages
    <3> QED BY <1>4, <3>2 DEF B!Cut, B!Inside
  <2>2. bjob[q].pc \notin {"archive", "read"}
    BY <1>4, InsideIs DEF InsideStages
  <2>3. B!NoJob.cmd = "none" /\ B!NoJob.pc = "none" /\ "none" \notin InsideStages
    BY DEF B!NoJob, InsideStages
  <2> QED BY <2>1, <2>2, <2>3, NoJobOrderly
<1>5. CASE ~B!InsideNow(q)
  <2>1. B!Cut(q) = B!Hindered(q)
    BY <1>5 DEF B!Cut
  <2>2. bjob[q].pc \notin InsideStages
    BY <1>5, InsideIs
  <2> QED BY <2>1, <2>2, HinderedForm DEF Orderly
<1> QED BY <1>2, <1>3, <1>4, <1>5

(* A job that ends is one of these, too.                                   *)
LEMMA NoJobForm == B!NoJob.cmd = "none" /\ B!NoJob.pc = "none" /\ "none" \notin InsideStages
  BY DEF B!NoJob, InsideStages

LEMMA TypedParts ==
  ASSUME Typed, benv' = benv, clock' = clock, JobsOK', DumpsOK',
         \A q \in BCallers : q \in Makers' => q \in Makers,
         bve' \in {"gone", "stopped", "running"},
         db' \in {"up", "down", "safe"}, db' # "down" => bve' = "running",
         rootpw' \in Passwords \cup {None}, mdf' \in Passwords \cup {None},
         auth' \in BOOLEAN, rough' \in BOOLEAN
  PROVE  Typed'
<1>1. clock' + Cardinality(Makers)' <= MaxPoints
  BY MakersShrink DEF Typed
<1> QED BY <1>1 DEF Typed, StateOK, Limits

(* When all jobs are cut short, or hindered, or end.                       *)
LEMMA CutsOK ==
  ASSUME Typed, benv' = benv, clock' = clock,
         \/ bve' = bve /\ bjob' \in [BCallers -> {bjob'[q] : q \in BCallers}]
              /\ \A q \in BCallers : bjob'[q] \in {B!Cut(q), B!Hindered(q), B!NoJob}
         \/ bjob' \in [BCallers -> {bjob'[q] : q \in BCallers}]
              /\ \A q \in BCallers : bjob'[q] \in {B!Cut(q), B!NoJob}
  PROVE  JobsOK' /\ \A q \in BCallers : q \in Makers' => q \in Makers
<1>1. clock \in Nat
  BY DEF Typed, StateOK
<1>2. JobsOK
  BY DEF Typed
<1>3. ASSUME NEW q \in BCallers
      PROVE  /\ Orderly(bjob'[q], bve', clock') /\ bjob'[q].cmd \in {bjob[q].cmd, "none"}
             /\ bjob'[q].pc \in {"none", "archive", "rsync"} \/ bjob'[q].pc = bjob[q].pc
  <2>1. CASE bjob'[q] = B!Cut(q)
    BY <1>1, <1>2, <2>1, CutForm
  <2>2. CASE bjob'[q] = B!NoJob
    BY <1>1, <2>2, NoJobForm, NoJobOrderly
  <2>3. CASE bve' = bve /\ bjob'[q] = B!Hindered(q)
    BY <1>2, <2>3, HinderedForm
  <2> QED BY <2>1, <2>2, <2>3
<1>4. bjob' \in [BCallers -> JobRecord]
  BY <1>3 DEF Orderly
<1>5. \A q \in BCallers : bjob'[q].cmd \in benv'.cmds \cup {"none"}
  BY <1>3, <1>2 DEF JobsOK
<1> QED BY <1>3, <1>4, <1>5 DEF JobsOK, Makers

LEMMA DumpsStill ==
  ASSUME DumpsOK, clock' = clock, UNCHANGED <<points, arch, mirror, from>>
  PROVE  DumpsOK'
  BY DEF DumpsOK, Dumps

LEMMA TypedCuts ==
  ASSUME Typed, benv' = benv
  PROVE  /\ \A p \in BCallers : B!ResetReboot(p) => Typed'
         /\ \A p \in BCallers : B!Remove(p) => Typed'
         /\ B!DbDown => Typed'
         /\ B!Stop => Typed'
<1>2. ASSUME NEW p \in BCallers, B!ResetReboot(p) PROVE Typed'
  <2>1. \A q \in BCallers : bjob'[q] = B!Cut(q)
    BY <1>2 DEF B!ResetReboot
  <2>2. bjob' \in [BCallers -> {bjob'[q] : q \in BCallers}] /\ clock' = clock /\ bve' = bve
    BY <1>2 DEF B!ResetReboot
  <2>3. JobsOK' /\ \A q \in BCallers : q \in Makers' => q \in Makers
    BY <2>1, <2>2, CutsOK
  <2>4. DumpsOK'
    BY <1>2, DumpsStill DEF B!ResetReboot, B!copies, Typed
  <2>5. bve = "running"
    <3>1. bjob[p].pc \in InsideStages
      BY <1>2 DEF B!ResetReboot, B!At, InsideStages
    <3> QED BY <3>1 DEF Typed, JobsOK, Orderly
  <2>6. rough' \in BOOLEAN
    BY <1>2 DEF B!ResetReboot, Typed, StateOK
  <2>7. db' = "up" /\ rootpw' = rootpw /\ mdf' = mdf /\ auth' = auth
    BY <1>2 DEF B!ResetReboot
  <2> QED BY <2>2, <2>3, <2>4, <2>5, <2>6, <2>7, TypedParts DEF Typed, StateOK
<1>3. ASSUME NEW p \in BCallers, B!Remove(p) PROVE Typed'
  <2>1. \A q \in BCallers : bjob'[q] \in {B!Cut(q), B!NoJob}
    BY <1>3 DEF B!Remove
  <2>2. bjob' \in [BCallers -> {bjob'[q] : q \in BCallers}] /\ clock' = clock
    BY <1>3 DEF B!Remove
  <2>3. JobsOK' /\ \A q \in BCallers : q \in Makers' => q \in Makers
    BY <2>1, <2>2, CutsOK
  <2>4. points' = B!Nothing /\ UNCHANGED <<arch, mirror, from>>
    BY <1>3 DEF B!Remove, B!copies
  <2>5. DumpsOK'
    BY <2>2, <2>4, DumpsEmpty DEF DumpsOK, Typed
  <2>6. bve' = "gone" /\ db' = "down" /\ rootpw' = None /\ mdf' = None /\ rough' = FALSE /\ auth' = FALSE
    BY <1>3 DEF B!Remove, B!Emptied
  <2> QED BY <2>2, <2>3, <2>5, <2>6, TypedParts
<1>4. ASSUME B!DbDown PROVE Typed'
  <2>1. \A q \in BCallers : bjob'[q] = B!Hindered(q)
    BY <1>4 DEF B!DbDown
  <2>2. bjob' \in [BCallers -> {bjob'[q] : q \in BCallers}] /\ clock' = clock /\ bve' = bve
    BY <1>4 DEF B!DbDown
  <2>3. JobsOK' /\ \A q \in BCallers : q \in Makers' => q \in Makers
    BY <2>1, <2>2, CutsOK
  <2>4. DumpsOK'
    BY <1>4, DumpsStill DEF B!DbDown, B!copies, Typed
  <2>7. db' = "down" /\ rootpw' = rootpw /\ mdf' = mdf /\ auth' = auth /\ rough' = rough
    BY <1>4 DEF B!DbDown
  <2> QED BY <2>2, <2>3, <2>4, <2>7, TypedParts DEF Typed, StateOK
<1>5. ASSUME B!Stop PROVE Typed'
  <2>1. \A q \in BCallers : bjob'[q] = B!Cut(q)
    BY <1>5 DEF B!Stop
  <2>2. bjob' \in [BCallers -> {bjob'[q] : q \in BCallers}] /\ clock' = clock
    BY <1>5 DEF B!Stop
  <2>3. JobsOK' /\ \A q \in BCallers : q \in Makers' => q \in Makers
    BY <2>1, <2>2, CutsOK
  <2>4. DumpsOK'
    BY <1>5, DumpsStill DEF B!Stop, B!copies, Typed
  <2>6. rough' \in BOOLEAN
    BY <1>5 DEF B!Stop, Typed, StateOK
  <2>7. bve' = "stopped" /\ db' = "down" /\ rootpw' = rootpw /\ mdf' = mdf /\ auth' = auth
    BY <1>5 DEF B!Stop
  <2> QED BY <2>2, <2>3, <2>4, <2>6, <2>7, TypedParts DEF Typed, StateOK
<1> QED BY <1>2, <1>3, <1>4, <1>5

-----------------------------------------------------------------------------
(* Types: the steps that change files.                                     *)
LEMMA TypedMkdir ==
  ASSUME Typed, benv' = benv, NEW p \in BCallers, B!Mkdir(p)
  PROVE  Typed'
<1> DEFINE r == [bjob[p] EXCEPT !.point = clock + 1, !.pc = "show"]
<1>1. /\ clock \in Nat /\ clock' = clock + 1 /\ clock' \in Nat /\ clock <= clock' /\ bve' = bve
      /\ Orderly(bjob[p], bve, clock)
  BY DEF Typed, StateOK, JobsOK, B!Mkdir
<1>2. /\ bjob[p].cmd \in {"backup", "backup-hosts", "backup-db"} /\ bjob[p].pc = "mkdir"
      /\ bjob[p].cmd \in benv.cmds \cup {"none"}
  BY PcOf DEF B!Mkdir, B!At, Typed, JobsOK
<1>3. "show" \in Stages(bjob[p].cmd) \cap StageNames /\ bve = "running"
  BY <1>1, <1>2, StagesOf DEF StageNames, InsideStages, Orderly
<1>4. Orderly(bjob[p], bve, clock + 1)
  BY <1>1, OrderlyLater
<1>a. /\ r \in JobRecord /\ r.cmd = bjob[p].cmd /\ r.pc = "show" /\ r.point = clock + 1
      /\ r.began = bjob[p].began /\ r.old = bjob[p].old
      /\ r.list = bjob[p].list /\ r.had = bjob[p].had
  BY <1>1, <1>3 DEF Orderly, JobRecord
<1>5. Orderly(r, bve, clock') /\ r.cmd = bjob[p].cmd /\ r.pc = "show"
  <2> HIDE DEF r
  <2> QED BY <1>1, <1>3, <1>4, <1>a DEF Orderly
<1>6. bjob' = [bjob EXCEPT ![p] = r]
  BY <1>1 DEF B!Mkdir
<1> HIDE DEF r
<1>7. JobsOK' /\ bjob'[p] = r /\ \A q \in BCallers \ {p} : bjob'[q] = bjob[q]
  BY <1>1, <1>2, <1>5, <1>6, JobGoesOn DEF Typed
<1>8. DumpsOK'
  <2>1. Dumps(points', clock')
    <3>1. points' = [t \in DOMAIN points \cup {clock + 1} |->
                       IF t = clock + 1 THEN {} ELSE points[t]]
      BY <1>1 DEF B!Mkdir
    <3> QED BY <1>1, <3>1, DumpsMade DEF Typed, DumpsOK
  <2>2. UNCHANGED <<arch, mirror, from>>
    BY DEF B!Mkdir, B!copies
  <2> QED BY <1>1, <2>1, <2>2, DumpsLater DEF Typed, DumpsOK
<1>9. clock' + Cardinality(Makers)' <= MaxPoints
  <2>1. p \in Makers /\ Makers' \subseteq Makers \ {p} /\ Makers \subseteq BCallers
    BY <1>2, <1>5, <1>7 DEF Makers
  <2>2. IsFiniteSet(Makers) /\ Cardinality(Makers) \in Nat /\ Cardinality(Makers') \in Nat
    <3>1. Makers' \subseteq BCallers
      BY <2>1
    <3> QED BY <2>1, <3>1, FewMakers DEF Typed
  <2>3. IsFiniteSet(Makers \ {p}) /\ Cardinality(Makers \ {p}) = Cardinality(Makers) - 1
    BY <2>1, <2>2, FS_RemoveElement
  <2>4. Cardinality(Makers') <= Cardinality(Makers \ {p})
    BY <2>1, <2>3, FS_Subset
  <2>5. clock + Cardinality(Makers) <= MaxPoints /\ MaxPoints \in Nat
    BY DEF Typed, StateOK, Limits
  <2> QED BY <1>1, <2>2, <2>3, <2>4, <2>5
<1>10. UNCHANGED <<db, rootpw, mdf, auth, rough>>
  BY DEF B!Mkdir
<1> QED BY <1>1, <1>7, <1>8, <1>9, <1>10 DEF Typed, StateOK, Limits

(* One job goes on to r, which makes no directory.                         *)
LEMMA HoldsOK ==
  ASSUME Typed, benv' = benv, clock' = clock, bve' = bve, NEW p \in BCallers, NEW r,
         Orderly(r, bve, clock), r.cmd \in {bjob[p].cmd, "none"},
         r.pc \notin {"look", "reach", "check", "old", "mkdir"},
         bjob' = [bjob EXCEPT ![p] = r]
  PROVE  /\ JobsOK' /\ bjob'[p] = r /\ \A q \in BCallers \ {p} : bjob'[q] = bjob[q]
         /\ \A q \in BCallers : q \in Makers' => q \in Makers
<1>1. clock \in Nat /\ clock <= clock' /\ clock' \in Nat
  BY DEF Typed, StateOK
<1>2. r.cmd \in benv.cmds \cup {"none"}
  BY DEF Typed, JobsOK
<1>3. JobsOK' /\ bjob'[p] = r /\ \A q \in BCallers \ {p} : bjob'[q] = bjob[q]
  BY <1>1, <1>2, JobGoesOn DEF Typed
<1> QED BY <1>3 DEF Makers

LEMMA TypedDump ==
  ASSUME Typed, benv' = benv, NEW p \in BCallers, NEW d \in Dbs, B!Dump(p, d)
  PROVE  Typed'
<1>1. PICK fails \in B!DumpFails :
        LET there == bjob[p].point \in DOMAIN points IN
        /\ points' = IF there /\ ~fails
                     THEN [points EXCEPT ![bjob[p].point] = @ \cup {d}]
                     ELSE points
        /\ bjob' = [bjob EXCEPT ![p] =
                     [bjob[p] EXCEPT !.todo = @ \ {d}, !.succ = @ /\ there /\ ~fails,
                                     !.smooth = @ /\ ~fails]]
  BY DEF B!Dump
<1> DEFINE S == bjob[p].succ /\ bjob[p].point \in DOMAIN points /\ ~fails
           M == bjob[p].smooth /\ ~fails
           r == [bjob[p] EXCEPT !.todo = @ \ {d}, !.succ = S, !.smooth = M]
<1>2. Orderly(bjob[p], bve, clock) /\ bjob[p].pc = "dump" /\ bjob \in [BCallers -> JobRecord]
  BY DEF Typed, JobsOK, B!Dump, B!At
<1>3. S \in BOOLEAN /\ M \in BOOLEAN
  BY <1>2 DEF JobRecord
<1>4. bjob' = [bjob EXCEPT ![p] = r]
  BY <1>1
<1> HIDE DEF S, M
<1>5. Orderly(r, bve, clock) /\ r.cmd = bjob[p].cmd /\ r.pc = "dump"
  BY <1>2, <1>3 DEF Orderly, JobRecord
<1> HIDE DEF r
<1>6. UNCHANGED <<bve, db, rootpw, mdf, clock, arch, mirror, from, auth, rough>>
  BY DEF B!Dump, B!copies
<1>7. JobsOK' /\ \A q \in BCallers : q \in Makers' => q \in Makers
  BY <1>4, <1>5, <1>6, HoldsOK
<1>8. DumpsOK'
  <2>1. Dumps(points', clock)
    BY <1>1, DumpsGrown DEF Typed, DumpsOK, StateOK
  <2> QED BY <1>6, <2>1 DEF Typed, DumpsOK
<1> QED BY <1>6, <1>7, <1>8, TypedParts DEF Typed, StateOK

LEMMA AfterDumpsOK ==
  ASSUME Typed, benv' = benv, clock' = clock, bve' = bve, NEW p \in BCallers,
         bjob[p].pc \in {"check", "dump"}, B!AfterDumps(p)
  PROVE  /\ JobsOK' /\ \A q \in BCallers \ {p} : bjob'[q] = bjob[q]
         /\ \/ bjob[p].cmd = "backup" /\ bjob'[p] = [bjob[p] EXCEPT !.pc = "archive"]
            \/ bjob[p].cmd = "backup-hosts" /\ bjob'[p] = [bjob[p] EXCEPT !.pc = "rsync"]
            \/ bjob[p].cmd = "backup-db" /\ bjob'[p] = B!NoJob
         /\ \A q \in BCallers : q \in Makers' => q \in Makers
<1>1. clock \in Nat /\ bjob[p] \in JobRecord
  BY DEF Typed, StateOK, JobsOK
<1>2. bjob[p].cmd \in {"backup", "backup-hosts", "backup-db"}
  BY PcOf DEF Typed
<1>3. CASE bjob[p].cmd = "backup"
  <2>1. B!To(p, "archive") /\ "archive" \in Stages(bjob[p].cmd) \cap StageNames /\ "archive" \notin InsideStages
    BY <1>3, StagesOf DEF B!AfterDumps, StageNames, InsideStages
  <2>2. /\ JobsOK' /\ bjob'[p] = [bjob[p] EXCEPT !.pc = "archive"]
        /\ \A q \in BCallers \ {p} : bjob'[q] = bjob[q]
    BY <1>1, <2>1, ToOK DEF Typed
  <2>3. bjob'[p].pc = "archive"
    BY <1>1, <2>2 DEF JobRecord
  <2> QED BY <1>3, <2>2, <2>3 DEF Makers
<1>4. CASE bjob[p].cmd = "backup-hosts"
  <2>1. B!To(p, "rsync") /\ "rsync" \in Stages(bjob[p].cmd) \cap StageNames /\ "rsync" \notin InsideStages
    BY <1>4, StagesOf DEF B!AfterDumps, StageNames, InsideStages
  <2>2. /\ JobsOK' /\ bjob'[p] = [bjob[p] EXCEPT !.pc = "rsync"]
        /\ \A q \in BCallers \ {p} : bjob'[q] = bjob[q]
    BY <1>1, <2>1, ToOK DEF Typed
  <2>3. bjob'[p].pc = "rsync"
    BY <1>1, <2>2 DEF JobRecord
  <2> QED BY <1>4, <2>2, <2>3 DEF Makers
<1>5. CASE bjob[p].cmd = "backup-db"
  <2>1. B!Leave(p)
    BY <1>5 DEF B!AfterDumps
  <2> QED BY <1>1, <1>5, <2>1, LeaveOK DEF Typed
<1> QED BY <1>2, <1>3, <1>4, <1>5

LEMMA TypedClean ==
  ASSUME Typed, benv' = benv, NEW p \in BCallers, B!Clean(p)
  PROVE  Typed'
<1>1. UNCHANGED <<bve, db, rootpw, mdf, clock, arch, mirror, from, auth, rough>>
  BY DEF B!Clean, B!copies
<1>2. JobsOK' /\ \A q \in BCallers : q \in Makers' => q \in Makers
  BY <1>1, AfterDumpsOK DEF B!Clean, B!At
<1>3. DumpsOK'
  <2>1. Dumps(points', clock)
    BY DumpsRestricted DEF Typed, DumpsOK, StateOK, B!Clean
  <2> QED BY <1>1, <2>1 DEF Typed, DumpsOK
<1> QED BY <1>1, <1>2, <1>3, TypedParts DEF Typed, StateOK

LEMMA TypedArchive ==
  ASSUME Typed, benv' = benv, NEW p \in BCallers, B!Archive(p)
  PROVE  Typed'
<1> DEFINE r == [bjob[p] EXCEPT !.list = points, !.had = arch, !.pc = "read"]
<1>1. Still /\ clock \in Nat /\ Dumps(points, clock) /\ Dumps(arch, clock)
  BY DEF B!Archive, Still, Typed, StateOK, DumpsOK
<1>2. bjob[p].cmd = "backup" /\ bjob[p].pc = "archive" /\ Orderly(bjob[p], bve, clock)
  BY PcOf DEF B!Archive, B!At, Typed, JobsOK
<1>3. CASE B!Leave(p)
  BY <1>1, <1>3, TypedLeave
<1>4. CASE bjob' = [bjob EXCEPT ![p] = r]
  <2>1. "read" \in Stages(bjob[p].cmd) \cap StageNames /\ "read" \notin InsideStages
    BY <1>2, StagesOf DEF StageNames, InsideStages
  <2>2. points \in DumpSets /\ arch \in DumpSets
    BY <1>1, DumpsAreSets
  <2>3. Orderly(r, bve, clock) /\ r.cmd = bjob[p].cmd /\ r.pc = "read"
    BY <1>1, <1>2, <2>1, <2>2 DEF Orderly, JobRecord
  <2> HIDE DEF r
  <2> QED BY <1>1, <1>4, <2>3, TypedHolds
<1> QED BY <1>3, <1>4 DEF B!Archive

LEMMA TypedArchiveRead ==
  ASSUME Typed, benv' = benv, NEW p \in BCallers, B!ArchiveRead(p)
  PROVE  Typed'
<1>1. UNCHANGED <<bve, db, rootpw, mdf, clock, points, mirror, from, auth, rough>>
  BY DEF B!ArchiveRead, B!inside
<1>2. JobsOK' /\ \A q \in BCallers : q \in Makers' => q \in Makers
  BY <1>1, LeaveOK DEF B!ArchiveRead, Typed, StateOK
<1>3. DumpsOK'
  <2>1. Dumps(bjob[p].list, clock)
    BY DEF Typed, JobsOK, Orderly
  <2>2. Dumps(arch', clock)
    BY <2>1 DEF B!ArchiveRead, Dumps
  <2> QED BY <1>1, <2>2 DEF Typed, DumpsOK
<1> QED BY <1>1, <1>2, <1>3, TypedParts DEF Typed, StateOK

LEMMA TypedRsyncList ==
  ASSUME Typed, benv' = benv, NEW p \in BCallers, B!RsyncList(p)
  PROVE  Typed'
<1>1. UNCHANGED <<bve, db, rootpw, mdf, clock, points, arch, from, auth, rough>>
  BY DEF B!RsyncList, B!inside
<1>2. CASE B!Leave(p) /\ mirror' = mirror
  BY <1>1, <1>2, TypedLeave DEF Still, B!inside, B!copies
<1>3. CASE /\ mirror' = B!Restrict(mirror, DOMAIN mirror \cap DOMAIN points)
           /\ bjob' = [bjob EXCEPT ![p] =
                        [bjob[p] EXCEPT !.old = DOMAIN points, !.pc = "copy"]]
  <2> DEFINE r == [bjob[p] EXCEPT !.old = DOMAIN points, !.pc = "copy"]
  <2>1. bjob[p].cmd = "backup-hosts" /\ bjob[p].pc = "rsync" /\ Orderly(bjob[p], bve, clock)
    BY PcOf DEF B!RsyncList, B!At, Typed, JobsOK
  <2>2. "copy" \in Stages(bjob[p].cmd) \cap StageNames /\ "copy" \notin InsideStages
    BY <2>1, StagesOf DEF StageNames, InsideStages
  <2>3. DOMAIN points \subseteq 1 .. clock /\ clock \in Nat /\ DOMAIN points \in SUBSET Nat
    BY DEF Typed, DumpsOK, Dumps, StateOK
  <2>4. Orderly(r, bve, clock) /\ r.cmd = bjob[p].cmd /\ r.pc = "copy"
    BY <2>1, <2>2, <2>3 DEF Orderly, JobRecord
  <2>5. bjob' = [bjob EXCEPT ![p] = r]
    BY <1>3
  <2> HIDE DEF r
  <2>6. JobsOK' /\ \A q \in BCallers : q \in Makers' => q \in Makers
    BY <1>1, <2>4, <2>5, HoldsOK
  <2>7. DumpsOK'
    <3>1. Dumps(mirror', clock)
      BY <1>3, <2>3, DumpsRestricted DEF Typed, DumpsOK
    <3> QED BY <1>1, <3>1 DEF Typed, DumpsOK
  <2> QED BY <1>1, <2>6, <2>7, TypedParts DEF Typed, StateOK
<1> QED BY <1>2, <1>3 DEF B!RsyncList

LEMMA TypedRsyncCopy ==
  ASSUME Typed, benv' = benv, NEW p \in BCallers, B!RsyncCopy(p)
  PROVE  Typed'
<1>1. UNCHANGED <<bve, db, rootpw, mdf, clock, points, arch, from, auth, rough>>
  BY DEF B!RsyncCopy, B!inside
<1>2. JobsOK' /\ \A q \in BCallers : q \in Makers' => q \in Makers
  BY <1>1, LeaveOK DEF B!RsyncCopy, Typed, StateOK
<1>3. DumpsOK'
  <2> DEFINE S == bjob[p].old \cap DOMAIN points
  <2>1. mirror' = [t \in DOMAIN mirror \cup S |-> IF t \in S THEN points[t] ELSE mirror[t]]
    BY DEF B!RsyncCopy
  <2>2. S \subseteq DOMAIN points
    OBVIOUS
  <2> HIDE DEF S
  <2>3. Dumps(mirror', clock)
    <3>1. Dumps(mirror, clock) /\ Dumps(points, clock) /\ clock \in Nat
      BY DEF Typed, DumpsOK, StateOK
    <3> QED BY <2>1, <2>2, <3>1, DumpsCopied
  <2> QED BY <1>1, <2>3 DEF Typed, DumpsOK
<1> QED BY <1>1, <1>2, <1>3, TypedParts DEF Typed, StateOK

-----------------------------------------------------------------------------
(* Types: passwords, restore and what happens outside.                     *)
LEMMA ToMove ==
  ASSUME Typed, benv' = benv, clock' = clock, bve' = bve, NEW p \in BCallers,
         NEW pc \in Stages(bjob[p].cmd) \cap StageNames, B!To(p, pc),
         pc \in InsideStages => bve = "running",
         pc \notin {"look", "reach", "check", "old", "mkdir"}
  PROVE  /\ JobsOK' /\ bjob'[p] = [bjob[p] EXCEPT !.pc = pc] /\ bjob'[p].pc = pc
         /\ \A q \in BCallers \ {p} : bjob'[q] = bjob[q]
         /\ \A q \in BCallers : q \in Makers' => q \in Makers
<1>1. clock \in Nat /\ bjob[p] \in JobRecord
  BY DEF Typed, StateOK, JobsOK
<1>2. /\ JobsOK' /\ bjob'[p] = [bjob[p] EXCEPT !.pc = pc]
      /\ \A q \in BCallers \ {p} : bjob'[q] = bjob[q]
  BY <1>1, ToOK DEF Typed
<1>3. bjob'[p].pc = pc
  BY <1>1, <1>2 DEF JobRecord
<1> QED BY <1>2, <1>3 DEF Makers

(* A command inside the container finds it running.                        *)
LEMMA InsideRuns ==
  ASSUME Typed, NEW p \in BCallers, bjob[p].pc \in InsideStages
  PROVE  bve = "running"
  BY DEF Typed, JobsOK, Orderly

LEMMA PwOf ==
  ASSUME Typed, NEW p \in BCallers
  PROVE  bjob[p].pw \in Passwords \cup {None}
<1>1. bjob[p] \in JobRecord
  BY DEF Typed, JobsOK
<1> QED BY <1>1 DEF JobRecord

LEMMA TypedSecureFile ==
  ASSUME Typed, benv' = benv, NEW p \in BCallers, B!SecureFile(p)
  PROVE  Typed'
<1>1. bjob[p].cmd = "secure-mariadb" /\ bve = "running"
  BY PcOf, InsideRuns DEF B!SecureFile, B!At, Typed, InsideStages
<1>2. "secure-sql" \in Stages(bjob[p].cmd) \cap StageNames
  BY <1>1, StagesOf DEF StageNames, InsideStages
<1>3. JobsOK' /\ \A q \in BCallers : q \in Makers' => q \in Makers
  BY <1>1, <1>2, ToMove DEF B!SecureFile
<1>4. DumpsOK'
  BY DumpsStill DEF B!SecureFile, B!copies, Typed
<1>5. UNCHANGED <<bve, db, rootpw, clock, auth, rough>> /\ mdf' = bjob[p].pw
  BY DEF B!SecureFile
<1> QED BY <1>3, <1>4, <1>5, PwOf, TypedParts DEF Typed, StateOK

LEMMA TypedSecureSql ==
  ASSUME Typed, benv' = benv, NEW p \in BCallers, B!SecureSql(p)
  PROVE  Typed'
<1>3. JobsOK' /\ \A q \in BCallers : q \in Makers' => q \in Makers
  BY LeaveOK DEF B!SecureSql, Typed, StateOK
<1>4. DumpsOK'
  BY DumpsStill DEF B!SecureSql, B!copies, Typed
<1>5. UNCHANGED <<bve, db, mdf, clock, auth>> /\ rootpw' \in {rootpw, bjob[p].pw}
  BY DEF B!SecureSql
<1>6. rough' \in BOOLEAN
  BY DEF B!SecureSql, Typed, StateOK
<1> QED BY <1>3, <1>4, <1>5, <1>6, PwOf, TypedParts DEF Typed, StateOK

LEMMA TypedReset ==
  ASSUME Typed, benv' = benv, NEW p \in BCallers, B!Reset(p)
  PROVE  Typed'
<1>1. bjob[p].cmd = "reset-db-root-passwd" /\ bve = "running"
  BY PcOf, InsideRuns DEF B!Reset, B!At, Typed, InsideStages
<1>2. "reset-sql" \in Stages(bjob[p].cmd) \cap StageNames
  BY <1>1, StagesOf DEF StageNames, InsideStages
<1>5. UNCHANGED <<bve, rootpw, mdf, clock, auth, rough>>
  BY DEF B!Reset
<1>3. JobsOK' /\ \A q \in BCallers : q \in Makers' => q \in Makers
  <2>1. CASE B!To(p, "reset-sql")
    BY <1>1, <1>2, <1>5, <2>1, ToMove
  <2>2. CASE B!Leave(p)
    BY <1>5, <2>2, LeaveOK DEF Typed, StateOK
  <2> QED BY <2>1, <2>2 DEF B!Reset
<1>4. DumpsOK'
  BY DumpsStill DEF B!Reset, B!copies, Typed
<1>6. db' \in {"up", "down", "safe"}
  BY DEF B!Reset, Typed, StateOK
<1> QED BY <1>1, <1>3, <1>4, <1>5, <1>6, TypedParts DEF Typed, StateOK

LEMMA TypedResetSql ==
  ASSUME Typed, benv' = benv, NEW p \in BCallers, B!ResetSql(p)
  PROVE  Typed'
<1>1. bjob[p].cmd = "reset-db-root-passwd" /\ bve = "running"
  BY PcOf, InsideRuns DEF B!ResetSql, B!At, Typed, InsideStages
<1>2. "reset-file" \in Stages(bjob[p].cmd) \cap StageNames
  BY <1>1, StagesOf DEF StageNames, InsideStages
<1>3. JobsOK' /\ \A q \in BCallers : q \in Makers' => q \in Makers
  BY <1>1, <1>2, ToMove DEF B!ResetSql
<1>4. DumpsOK'
  BY DumpsStill DEF B!ResetSql, B!copies, Typed
<1>5. UNCHANGED <<bve, db, mdf, clock, auth>> /\ rootpw' \in {rootpw, bjob[p].pw}
  BY DEF B!ResetSql
<1>6. rough' \in BOOLEAN
  BY DEF B!ResetSql, Typed, StateOK
<1> QED BY <1>3, <1>4, <1>5, <1>6, PwOf, TypedParts DEF Typed, StateOK

LEMMA TypedResetFile ==
  ASSUME Typed, benv' = benv, NEW p \in BCallers, B!ResetFile(p)
  PROVE  Typed'
<1>1. bjob[p].cmd = "reset-db-root-passwd" /\ bve = "running"
  BY PcOf, InsideRuns DEF B!ResetFile, B!At, Typed, InsideStages
<1>2. "reset-reboot" \in Stages(bjob[p].cmd) \cap StageNames
  BY <1>1, StagesOf DEF StageNames, InsideStages
<1>3. JobsOK' /\ \A q \in BCallers : q \in Makers' => q \in Makers
  BY <1>1, <1>2, ToMove DEF B!ResetFile
<1>4. DumpsOK'
  BY DumpsStill DEF B!ResetFile, B!copies, Typed
<1>5. UNCHANGED <<bve, db, rootpw, clock, auth>> /\ mdf' = bjob[p].pw
  BY DEF B!ResetFile
<1>6. rough' \in BOOLEAN
  BY DEF B!ResetFile
<1> QED BY <1>3, <1>4, <1>5, <1>6, PwOf, TypedParts DEF Typed, StateOK

LEMMA TypedRestore ==
  ASSUME Typed, benv' = benv, NEW p \in BCallers, B!Restore(p)
  PROVE  Typed'
<1>1. CASE ~(bve = "gone" /\ auth)
  BY <1>1, TypedLeave DEF B!Restore, Still, B!inside
<1>2. CASE bve = "gone" /\ auth
  <2>1. /\ bve' = "running" /\ points' = from
        /\ UNCHANGED <<clock, arch, mirror, from, auth>>
        /\ db' = "down" /\ rootpw' = None /\ mdf' = None /\ rough' = FALSE
    BY <1>2 DEF B!Restore, B!Emptied, B!copies
  <2>2. DumpsOK'
    BY <2>1 DEF Typed, DumpsOK
  <2>3. bjob'[p] = B!NoJob /\ (\A q \in BCallers \ {p} : bjob'[q] = bjob[q]) /\ bjob' \in [BCallers -> JobRecord]
    BY NoJobOrderly DEF B!Restore, B!Leave, Typed, JobsOK, Orderly
  <2>4. JobsOK'
    <3>1. \A q \in BCallers : Orderly(bjob'[q], bve', clock')
      <4>1. clock \in Nat /\ \A q \in BCallers : bjob[q].pc \notin InsideStages
        BY <1>2, InsideRuns DEF Typed, StateOK
      <4> QED BY <2>1, <2>3, <4>1, NoJobOrderly DEF Typed, JobsOK, Orderly
    <3> QED BY <2>3, <3>1, NoJobForm DEF Typed, JobsOK
  <2>5. \A q \in BCallers : q \in Makers' => q \in Makers
    BY <2>3, NoJobForm DEF Makers
  <2> QED BY <2>1, <2>2, <2>4, <2>5, TypedParts DEF Typed, StateOK
<1> QED BY <1>1, <1>2

LEMMA TypedKill ==
  ASSUME Typed, benv' = benv, NEW p \in BCallers, B!Kill(p)
  PROVE  Typed'
<1>1. UNCHANGED <<bve, db, rootpw, mdf, points, clock, arch, mirror, from, auth>>
  BY DEF B!Kill, B!inside, B!copies
<1>2. JobsOK' /\ \A q \in BCallers : q \in Makers' => q \in Makers
  BY <1>1, LeaveOK DEF B!Kill, Typed, StateOK
<1>3. rough' \in BOOLEAN /\ DumpsOK'
  BY <1>1, DumpsStill DEF B!Kill, Typed, StateOK
<1> QED BY <1>1, <1>2, <1>3, TypedParts DEF Typed, StateOK

LEMMA TypedElse ==
  ASSUME Typed, benv' = benv, B!DbUp \/ B!Start \/ B!ByHand \/ B!Record \/ B!BoundReached
  PROVE  Typed'
<1>1. bjob' = bjob /\ UNCHANGED <<rootpw, mdf, points, clock, mirror, rough>>
  BY DEF B!DbUp, B!Start, B!ByHand, B!Record, B!BoundReached, B!inside, B!copies
<1>2. \A q \in BCallers : q \in Makers' => q \in Makers
  BY <1>1 DEF Makers
<1>3. bve' \in {bve, "running"} /\ bve' \in {"gone", "stopped", "running"}
  BY DEF B!DbUp, B!Start, B!ByHand, B!Record, B!BoundReached, B!inside, Typed, StateOK
<1>4. JobsOK'
  BY <1>1, <1>3 DEF Typed, JobsOK, Orderly
<1>5. DumpsOK'
  <2>1. Dumps(arch', clock) /\ Dumps(from', clock)
    BY DumpsEmpty DEF B!DbUp, B!Start, B!ByHand, B!Record, B!BoundReached, B!copies, Typed,
       DumpsOK
  <2> QED BY <1>1, <2>1 DEF Typed, DumpsOK
<1>6. /\ db' \in {"up", "down", "safe"} /\ (db' # "down" => bve' = "running")
      /\ auth' \in BOOLEAN
  BY DEF B!DbUp, B!Start, B!ByHand, B!Record, B!BoundReached, B!inside, Typed, StateOK
<1> QED BY <1>1, <1>2, <1>3, <1>4, <1>5, <1>6, TypedParts DEF Typed, StateOK

LEMMA TypedNext ==
  ASSUME Typed, [B!Next]_(B!vars)
  PROVE  Typed'
<1>1. CASE UNCHANGED B!vars
  BY <1>1 DEF B!vars, Typed, StateOK, DumpsOK, JobsOK, Makers, Dumps
<1>2. ASSUME NEW p \in BCallers, B!Step(p), benv' = benv
      PROVE  Typed'
  BY <1>2, TypedCommand, TypedLook, TypedReach, TypedUnreached, TypedCheck, TypedOld, TypedMkdir,
     TypedShow, TypedClean, TypedDump, TypedArchive, TypedArchiveRead, TypedRsyncList, TypedRsyncCopy, TypedSecure,
     TypedSecureFile, TypedSecureSql, TypedReset, TypedResetSql, TypedResetFile, TypedCuts,
     TypedRestore, TypedKill DEF B!Step
<1>3. CASE B!Next
  BY <1>2, <1>3, TypedCuts, TypedElse DEF B!Next
<1> QED BY <1>1, <1>3

LEMMA TypedInit ==
  ASSUME B!ConstantsOK, B!Init
  PROVE  Typed
<1>0. Limits
  BY SameSizes DEF B!ConstantsOK, Limits
<1>1. JobsOK
  <2>1. \A p \in BCallers : Orderly(B!NoJob, bve, 0)
    BY NoJobOrderly
  <2>2. \A p \in BCallers : bjob[p] = B!NoJob
    BY DEF B!Init
  <2> QED BY <2>1, <2>2, NoJobForm DEF B!Init, JobsOK, Orderly
<1>2. clock + Cardinality(Makers) <= MaxPoints
  <2>1. Makers = {}
    BY NoJobForm DEF B!Init, Makers
  <2> QED BY <2>1, <1>0, FS_EmptySet DEF B!Init, Limits
<1> QED BY <1>0, <1>1, <1>2, DumpsEmpty DEF B!Init, Typed, StateOK, DumpsOK

LEMMA TypedGives == Typed => B!TypeOK
<1> SUFFICES ASSUME Typed PROVE B!TypeOK
  OBVIOUS
<1>1. clock \in 0 .. MaxPoints
  <2>1. Makers \subseteq BCallers
    BY DEF Makers
  <2>2. Cardinality(Makers) \in Nat /\ MaxPoints \in Nat
    BY <2>1, FewMakers DEF Typed, StateOK, Limits
  <2> QED BY <2>2 DEF Typed, StateOK
<1>2. \A dumps \in {points, arch, mirror, from} :
        /\ DOMAIN dumps \subseteq 1 .. clock
        /\ \A t \in DOMAIN dumps : dumps[t] \subseteq Dbs
  BY DEF Typed, DumpsOK, Dumps
<1>3. \A p \in BCallers :
        /\ bjob[p].cmd \in B!Cmds \cup {"none"}
        /\ bjob[p].point \in 0 .. clock /\ bjob[p].began \in 0 .. clock
        /\ bjob[p].todo \subseteq Dbs /\ bjob[p].old \subseteq 1 .. clock
  BY DEF Typed, JobsOK, Orderly, JobRecord, Commands, B!Cmds, B!Inside
<1>4. \A p \in BCallers : DOMAIN bjob[p].list \cup DOMAIN bjob[p].had \subseteq 1 .. clock
  BY DEF Typed, JobsOK, Orderly, Dumps
<1> QED BY <1>1, <1>2, <1>3, <1>4 DEF Typed, StateOK, B!TypeOK

-----------------------------------------------------------------------------
(* While a command sets passwords, and one command runs at a time, no      *)
(* other does.                                                             *)
Alone == benv.together = 1 =>
  \A p, q \in BCallers : bjob[p].cmd # "none" /\ bjob[q].cmd # "none" => p = q

(* A dump is made where none of the older ones is.                         *)
Ordered(r) == r.pc \in {"show", "dump"} => r.began < r.point /\ \A t \in r.old : t < r.point
InOrder == \A p \in BCallers : Ordered(bjob[p])

(* Complete dumps in d that are later than t.                              *)
Late(d, t) == \E u \in DOMAIN d : u > t /\ d[u] = Dbs

(* What was listed in l is there still, as far as it was not removed.      *)
Since(l, d) == \A t \in DOMAIN l \cap DOMAIN d : l[t] \subseteq d[t]

(* What job r will have dumped is in d, or something later and complete;   *)
(* so it is when its dumps are done, and among what 7z lists then.         *)
Whole(r, d) ==
  /\ r.pc = "show" => r.point \in DOMAIN d \/ Late(d, r.point)
  /\ r.pc = "dump" /\ (r.succ \/ r.smooth) =>
       \/ r.point \in DOMAIN d /\ Dbs \subseteq d[r.point] \cup r.todo
       \/ Late(d, r.point)
  /\ r.pc = "archive" /\ r.smooth => Late(d, r.began)
  /\ r.pc = "read" /\ r.smooth => Late(r.list, r.began) /\ Since(r.list, d)

Kept == B!Undisturbed => \A p \in BCallers : Whole(bjob[p], points)

(* The database lets in who is about to list it; nothing stopped whose     *)
(* dumps are smooth; password and file agree, but for a command at it.     *)
Entered == \A p \in BCallers : bjob[p].pc \in {"old", "mkdir", "show"} => B!Connects
Smooth == \A p \in BCallers : bjob[p].cmd \in B!Dumping /\ bjob[p].smooth =>
  bve = "running" /\ db = "up" /\ rootpw = mdf
Settled == ~rough /\ (\A p \in BCallers : bjob[p].pc \notin {"secure-sql", "reset-file"}) =>
  rootpw = mdf
Filed == \A p \in BCallers : bjob[p].pc = "secure-sql" => mdf = bjob[p].pw

Calm == B!Undisturbed => Entered /\ Smooth /\ Settled /\ Filed

(* What the copies have of a container that one command at a time uses.    *)
Copied == benv.together = 1 /\ "remove" \notin benv.cmds =>
  /\ bve # "gone"
  /\ B!Complete(arch) => B!Complete(points)
  /\ \A p \in BCallers : bjob[p].pc = "copy" => bjob[p].old = DOMAIN points
  /\ \A p \in BCallers : bjob[p].pc = "read" => bjob[p].list = points

Inv == Typed /\ Alone /\ InOrder /\ Calm /\ Kept /\ Copied

-----------------------------------------------------------------------------
(* What a step does to the jobs: one goes on, or all are cut short.        *)
LEMMA EmptyOrOne ==
  ASSUME Typed, NEW p \in BCallers, NEW cmd, NEW clean, NEW pw, B!Command(p, cmd, clean, pw),
         benv.together = 1
  PROVE  B!Active = {}
<1>1. B!Active \subseteq BCallers
  BY DEF B!Active
<1>2. IsFiniteSet(B!Active) /\ Cardinality(B!Active) \in Nat /\ Cardinality(B!Active) < 1
  BY <1>1, FewMakers, SameSizes DEF B!Command, Typed
<1> QED BY <1>2, FS_EmptySet

(* A command goes on, or ends, but for the one that begins.                *)
LEMMA CmdStays ==
  ASSUME Typed, NEW p \in BCallers, B!Step(p)
  PROVE  \A q \in BCallers : q # p => bjob'[q] = bjob[q] \/ bjob'[q] = B!Cut(q)
<1> USE DEF Typed, JobsOK, B!To, B!Leave, B!AfterDumps
<1>1. ASSUME NEW q \in BCallers, q # p
      PROVE  /\ \A cmd, clean, pw : B!Command(p, cmd, clean, pw) => bjob'[q] = bjob[q]
             /\ B!Look(p) => bjob'[q] = bjob[q]
             /\ B!Reach(p) => bjob'[q] = bjob[q]
             /\ B!Unreached(p) => bjob'[q] = bjob[q]
             /\ B!Check(p) => bjob'[q] = bjob[q]
             /\ B!Old(p) => bjob'[q] = bjob[q]
             /\ B!Mkdir(p) => bjob'[q] = bjob[q]
             /\ B!Show(p) => bjob'[q] = bjob[q]
             /\ B!Clean(p) => bjob'[q] = bjob[q]
  BY <1>1 DEF B!Command, B!Look, B!Reach, B!Unreached, B!Check, B!Old, B!Mkdir, B!Show, B!Clean
<1>2. ASSUME NEW q \in BCallers, q # p
      PROVE  /\ \A d \in Dbs : B!Dump(p, d) => bjob'[q] = bjob[q]
             /\ B!Archive(p) => bjob'[q] = bjob[q]
             /\ B!ArchiveRead(p) => bjob'[q] = bjob[q]
             /\ B!RsyncList(p) => bjob'[q] = bjob[q]
             /\ B!RsyncCopy(p) => bjob'[q] = bjob[q]
             /\ B!Secure(p) => bjob'[q] = bjob[q]
             /\ B!SecureFile(p) => bjob'[q] = bjob[q]
             /\ B!SecureSql(p) => bjob'[q] = bjob[q]
             /\ B!Reset(p) => bjob'[q] = bjob[q]
             /\ B!ResetSql(p) => bjob'[q] = bjob[q]
             /\ B!ResetFile(p) => bjob'[q] = bjob[q]
             /\ B!Restore(p) => bjob'[q] = bjob[q]
             /\ B!Kill(p) => bjob'[q] = bjob[q]
  BY <1>2 DEF B!Dump, B!Archive, B!ArchiveRead, B!RsyncList, B!RsyncCopy, B!Secure,
     B!SecureFile, B!SecureSql, B!Reset, B!ResetSql,
     B!ResetFile, B!Restore, B!Kill
<1>3. ASSUME NEW q \in BCallers, q # p
      PROVE  B!ResetReboot(p) \/ B!Remove(p) => bjob'[q] = B!Cut(q)
  BY <1>3 DEF B!ResetReboot, B!Remove
<1> QED BY <1>1, <1>2, <1>3 DEF B!Step

(* Of the commands that run already.                                       *)
LEMMA CmdOnce ==
  ASSUME Typed, NEW p \in BCallers, B!Step(p)
  PROVE  \/ bjob'[p].cmd \in {bjob[p].cmd, "none"}
         \/ \E cmd \in B!Cmds, clean \in BOOLEAN, pw \in Passwords : B!Command(p, cmd, clean, pw)
<1> USE DEF B!To, B!Leave, B!AfterDumps
<1>1. bjob \in [BCallers -> JobRecord] /\ bjob[p] \in JobRecord /\ clock \in Nat /\ JobsOK
  BY DEF Typed, JobsOK, StateOK
<1>2. B!Look(p) \/ B!Reach(p) \/ B!Unreached(p) \/ B!Check(p) => bjob'[p].cmd \in {bjob[p].cmd, "none"}
  BY <1>1, NoJobForm DEF B!Look, B!Reach, B!Unreached, B!Check, JobRecord
<1>3. B!Old(p) \/ B!Mkdir(p) => bjob'[p].cmd \in {bjob[p].cmd, "none"}
  BY <1>1, NoJobForm DEF B!Old, B!Mkdir, JobRecord
<1>b. B!Show(p) => bjob'[p].cmd \in {bjob[p].cmd, "none"}
  BY <1>1 DEF B!Show, JobRecord
<1>c. B!Clean(p) => bjob'[p].cmd \in {bjob[p].cmd, "none"}
  BY <1>1, NoJobForm DEF B!Clean, JobRecord
<1>a. ASSUME NEW d \in Dbs, B!Dump(p, d) PROVE bjob'[p].cmd \in {bjob[p].cmd, "none"}
  BY <1>1, <1>a DEF B!Dump, JobRecord
<1>4. B!Archive(p) \/ B!ArchiveRead(p) \/ B!RsyncList(p) \/ B!RsyncCopy(p) =>
        bjob'[p].cmd \in {bjob[p].cmd, "none"}
  BY <1>1, NoJobForm DEF B!Archive, B!ArchiveRead, B!RsyncList, B!RsyncCopy, JobRecord
<1>5. B!Secure(p) \/ B!SecureFile(p) \/ B!SecureSql(p) => bjob'[p].cmd \in {bjob[p].cmd, "none"}
  BY <1>1, NoJobForm DEF B!Secure, B!SecureFile, B!SecureSql, JobRecord
<1>6. B!Reset(p) \/ B!ResetSql(p) \/ B!ResetFile(p) => bjob'[p].cmd \in {bjob[p].cmd, "none"}
  BY <1>1, NoJobForm DEF B!Reset, B!ResetSql, B!ResetFile, JobRecord
<1>7. B!ResetReboot(p) => bjob'[p].cmd \in {bjob[p].cmd, "none"}
  BY <1>1, CutForm DEF B!ResetReboot
<1>8. B!Remove(p) \/ B!Restore(p) \/ B!Kill(p) => bjob'[p].cmd \in {bjob[p].cmd, "none"}
  BY <1>1, NoJobForm DEF B!Remove, B!Restore, B!Kill
<1> QED BY <1>2, <1>3, <1>b, <1>c, <1>a, <1>4, <1>5, <1>6, <1>7, <1>8 DEF B!Step

LEMMA AloneNext ==
  ASSUME Typed, Alone, [B!Next]_(B!vars)
  PROVE  Alone'
<1>0. JobsOK /\ clock \in Nat
  BY DEF Typed, StateOK
<1>1. CASE UNCHANGED B!vars
  BY <1>1 DEF B!vars, Alone
<1>2. ASSUME NEW p \in BCallers, B!Step(p), benv' = benv
      PROVE  Alone'
  <2>1. \A q \in BCallers : q # p => bjob'[q].cmd \in {bjob[q].cmd, "none"}
    BY <1>0, <1>2, CmdStays, CutForm
  <2>2. CASE bjob'[p].cmd \in {bjob[p].cmd, "none"}
    BY <1>2, <2>1, <2>2 DEF Alone
  <2>3. CASE \E cmd \in B!Cmds, clean \in BOOLEAN, pw \in Passwords : B!Command(p, cmd, clean, pw)
    <3>1. benv.together = 1 => \A q \in BCallers : bjob[q].cmd = "none"
      BY <2>3, EmptyOrOne DEF B!Active
    <3> QED BY <1>2, <2>1, <3>1 DEF Alone
  <2> QED BY <1>2, <2>2, <2>3, CmdOnce
<1>3. CASE B!Next
  <2>1. ASSUME B!DbDown \/ B!Stop, benv' = benv PROVE Alone'
    <3>1. \A q \in BCallers : bjob'[q].cmd \in {bjob[q].cmd, "none"}
      BY <1>0, <2>1, CutForm, HinderedForm DEF B!DbDown, B!Stop
    <3> QED BY <2>1, <3>1 DEF Alone
  <2>2. ASSUME B!DbUp \/ B!Start \/ B!ByHand \/ B!Record \/ B!BoundReached, benv' = benv PROVE Alone'
    BY <2>2 DEF B!DbUp, B!Start, B!ByHand, B!Record, B!BoundReached, Alone
  <2> QED BY <1>2, <1>3, <2>1, <2>2 DEF B!Next
<1> QED BY <1>1, <1>3

-----------------------------------------------------------------------------
(* What a step makes of the job of the command that takes it.              *)
LEMMA Begins ==
  ASSUME Typed, NEW p \in BCallers, NEW cmd \in B!Cmds, NEW clean \in BOOLEAN,
         NEW pw \in Passwords, B!Command(p, cmd, clean, pw)
  PROVE  /\ bjob'[p].cmd = cmd /\ bjob'[p].pc = B!First(cmd)
         /\ bjob'[p].smooth => bve = "running" /\ db = "up" /\ ~rough
         /\ bjob'[p].pc \in {"look", "reach", "check", "secure", "reset", "remove", "restore"}
<1>1. bjob \in [BCallers -> JobRecord]
  BY DEF Typed, JobsOK
<1> DEFINE W == bve = "running" /\ db = "up" /\ ~rough
           r == [B!NoJob EXCEPT !.cmd = cmd, !.pc = B!First(cmd), !.clean = clean,
                   !.pw = pw, !.began = clock, !.smooth = W]
<1>2. W \in BOOLEAN /\ bjob'[p] = r
  BY <1>1 DEF B!Command
<1> HIDE DEF W
<1>3. r.cmd = cmd /\ r.pc = B!First(cmd) /\ r.smooth = W
  BY DEF B!NoJob
<1> HIDE DEF r
<1>4. bjob'[p].smooth => bve = "running" /\ db = "up" /\ ~rough
  BY <1>2, <1>3 DEF W
<1>5. B!First(cmd) \in {"look", "reach", "check", "secure", "reset", "remove", "restore"}
  BY DEF B!First, B!Cmds, B!Inside
<1> QED BY <1>2, <1>3, <1>4, <1>5

(* Goes(p, pc): the job of p goes on to pc and is otherwise the same.      *)
Goes(p, pc) ==
  /\ bjob'[p].pc = pc /\ bjob'[p].cmd = bjob[p].cmd /\ bjob'[p].smooth = bjob[p].smooth
  /\ bjob'[p].succ = bjob[p].succ /\ bjob'[p].point = bjob[p].point /\ bjob'[p].todo = bjob[p].todo
  /\ bjob'[p].old = bjob[p].old /\ bjob'[p].began = bjob[p].began /\ bjob'[p].pw = bjob[p].pw

LEMMA GoesOn ==
  ASSUME Typed, NEW p \in BCallers, NEW pc, B!To(p, pc)
  PROVE  Goes(p, pc)
  BY DEF B!To, Goes, Typed, JobsOK, JobRecord

LEMMA AfterGoes ==
  ASSUME Typed, NEW p \in BCallers, B!AfterDumps(p)
  PROVE  Goes(p, "archive") \/ Goes(p, "rsync") \/ bjob'[p] = B!NoJob
<1>1. B!Leave(p) => bjob'[p] = B!NoJob
  BY DEF B!Leave, Typed, JobsOK
<1> QED BY <1>1, GoesOn DEF B!AfterDumps

LEMMA Becomes ==
  ASSUME Typed, NEW p \in BCallers
  PROVE  /\ B!Look(p) => Goes(p, "check") \/ Goes(p, "archive")
         /\ B!Reach(p) => Goes(p, "check") \/ Goes(p, "rsync") \/ bjob'[p] = B!NoJob
         /\ B!Unreached(p) => bjob'[p] = B!NoJob
         /\ B!Check(p) => \/ Goes(p, "old") \/ Goes(p, "archive") \/ Goes(p, "rsync")
                          \/ bjob'[p] = B!NoJob
         /\ B!Clean(p) => Goes(p, "archive") \/ Goes(p, "rsync") \/ bjob'[p] = B!NoJob
         /\ B!ArchiveRead(p) => bjob'[p] = B!NoJob
         /\ B!RsyncCopy(p) => bjob'[p] = B!NoJob
<1>1. B!Leave(p) => bjob'[p] = B!NoJob
  BY DEF B!Leave, Typed, JobsOK
<1> QED BY <1>1, GoesOn, AfterGoes DEF B!Look, B!Reach, B!Unreached, B!Check, B!Clean, B!ArchiveRead,
   B!RsyncCopy

LEMMA BecomesArchive ==
  ASSUME Typed, NEW p \in BCallers, B!Archive(p)
  PROVE  \/ bjob'[p] = B!NoJob /\ DOMAIN points = {}
         \/ /\ bjob'[p].pc = "read" /\ bjob'[p].cmd = bjob[p].cmd
            /\ bjob'[p].smooth = bjob[p].smooth /\ bjob'[p].began = bjob[p].began
            /\ bjob'[p].list = points
<1>1. B!Leave(p) => bjob'[p] = B!NoJob
  BY DEF B!Leave, Typed, JobsOK
<1>2. PICK r : r = [bjob[p] EXCEPT !.list = points, !.had = arch, !.pc = "read"]
  OBVIOUS
<1>3. \/ B!Leave(p) /\ DOMAIN points = {}
      \/ bjob' = [bjob EXCEPT ![p] = r]
  BY <1>2 DEF B!Archive
<1>4. /\ r.pc = "read" /\ r.cmd = bjob[p].cmd
      /\ r.smooth = bjob[p].smooth /\ r.began = bjob[p].began /\ r.list = points
  BY <1>2 DEF Typed, JobsOK, JobRecord
<1> QED BY <1>1, <1>3, <1>4 DEF Typed, JobsOK

LEMMA BecomesSet ==
  ASSUME Typed, NEW p \in BCallers
  PROVE  /\ B!Secure(p) => Goes(p, "secure-file") \/ bjob'[p] = B!NoJob
         /\ B!SecureFile(p) => Goes(p, "secure-sql")
         /\ B!SecureSql(p) => bjob'[p] = B!NoJob
         /\ B!Reset(p) => Goes(p, "reset-sql") \/ bjob'[p] = B!NoJob
         /\ B!ResetSql(p) => Goes(p, "reset-file")
         /\ B!ResetFile(p) => Goes(p, "reset-reboot")
         /\ B!Remove(p) \/ B!Restore(p) \/ B!Kill(p) => bjob'[p] = B!NoJob
<1>1. B!Leave(p) => bjob'[p] = B!NoJob
  BY DEF B!Leave, Typed, JobsOK
<1> QED BY <1>1, GoesOn DEF B!Secure, B!SecureFile, B!SecureSql, B!Reset, B!ResetSql,
   B!ResetFile, B!Remove,
           B!Restore, B!Kill

LEMMA BecomesOld ==
  ASSUME Typed, NEW p \in BCallers, B!Old(p)
  PROVE  /\ bjob'[p].pc = "mkdir" /\ bjob'[p].cmd = bjob[p].cmd /\ bjob'[p].smooth = bjob[p].smooth
         /\ bjob'[p].old = DOMAIN points /\ bjob'[p].began = bjob[p].began
  BY DEF B!Old, Typed, JobsOK, JobRecord

LEMMA BecomesMkdir ==
  ASSUME Typed, NEW p \in BCallers, B!Mkdir(p)
  PROVE  /\ bjob'[p].pc = "show" /\ bjob'[p].cmd = bjob[p].cmd /\ bjob'[p].smooth = bjob[p].smooth
         /\ bjob'[p].old = bjob[p].old /\ bjob'[p].began = bjob[p].began
         /\ bjob'[p].point = clock + 1
  BY DEF B!Mkdir, Typed, JobsOK, JobRecord

LEMMA BecomesShow ==
  ASSUME Typed, NEW p \in BCallers, B!Show(p)
  PROVE  /\ bjob'[p].pc = "dump" /\ bjob'[p].cmd = bjob[p].cmd /\ bjob'[p].smooth = bjob[p].smooth
         /\ bjob'[p].old = bjob[p].old /\ bjob'[p].began = bjob[p].began
         /\ bjob'[p].point = bjob[p].point /\ bjob'[p].todo = IF B!Connects THEN Dbs ELSE {}
  BY DEF B!Show, Typed, JobsOK, JobRecord

LEMMA BecomesDump ==
  ASSUME Typed, NEW p \in BCallers, NEW d \in Dbs, B!Dump(p, d)
  PROVE  /\ bjob'[p].pc = "dump" /\ bjob'[p].cmd = bjob[p].cmd
         /\ bjob'[p].smooth => bjob[p].smooth
         /\ bjob'[p].old = bjob[p].old /\ bjob'[p].began = bjob[p].began
         /\ bjob'[p].point = bjob[p].point /\ bjob'[p].todo = bjob[p].todo \ {d}
         /\ \/ /\ bjob[p].point \in DOMAIN points
               /\ points' = [points EXCEPT ![bjob[p].point] = @ \cup {d}]
               /\ bjob'[p].succ => bjob[p].succ
            \/ /\ bjob[p].point \notin DOMAIN points /\ points' = points
               /\ ~bjob'[p].succ
            \/ points' = points /\ ~bjob'[p].succ /\ ~bjob'[p].smooth
<1>1. bjob \in [BCallers -> JobRecord] /\ bjob[p] \in JobRecord /\ bjob[p].pc = "dump"
  BY DEF Typed, JobsOK, B!Dump, B!At
<1>2. PICK fails \in B!DumpFails :
        LET there == bjob[p].point \in DOMAIN points IN
        /\ points' = IF there /\ ~fails
                     THEN [points EXCEPT ![bjob[p].point] = @ \cup {d}]
                     ELSE points
        /\ bjob' = [bjob EXCEPT ![p] =
                     [bjob[p] EXCEPT !.todo = @ \ {d}, !.succ = @ /\ there /\ ~fails,
                                     !.smooth = @ /\ ~fails]]
  BY DEF B!Dump
<1> DEFINE S == bjob[p].succ /\ bjob[p].point \in DOMAIN points /\ ~fails
           M == bjob[p].smooth /\ ~fails
           r == [bjob[p] EXCEPT !.todo = @ \ {d}, !.succ = S, !.smooth = M]
<1>3. bjob'[p] = r /\ S \in BOOLEAN /\ M \in BOOLEAN
  BY <1>1, <1>2 DEF JobRecord
<1>4. /\ r.pc = "dump" /\ r.cmd = bjob[p].cmd /\ r.smooth = M /\ r.succ = S /\ r.old = bjob[p].old
      /\ r.began = bjob[p].began /\ r.point = bjob[p].point /\ r.todo = bjob[p].todo \ {d}
  <2> HIDE DEF S, M
  <2> QED BY <1>1 DEF JobRecord
<1>5. S => bjob[p].succ /\ bjob[p].point \in DOMAIN points /\ ~fails
  OBVIOUS
<1>6. M => bjob[p].smooth /\ ~fails
  OBVIOUS
<1> HIDE DEF r, S, M
<1>7. CASE bjob[p].point \in DOMAIN points /\ ~fails
  BY <1>2, <1>3, <1>4, <1>5, <1>6, <1>7
<1>8. CASE fails
  BY <1>2, <1>3, <1>4, <1>5, <1>6, <1>8
<1>9. CASE bjob[p].point \notin DOMAIN points /\ ~fails
  BY <1>2, <1>3, <1>4, <1>5, <1>6, <1>9
<1> QED BY <1>7, <1>8, <1>9

LEMMA BecomesList ==
  ASSUME Typed, NEW p \in BCallers, B!RsyncList(p)
  PROVE  \/ bjob'[p] = B!NoJob /\ mirror' = mirror
         \/ /\ bjob'[p].pc = "copy" /\ bjob'[p].cmd = bjob[p].cmd
            /\ bjob'[p].smooth = bjob[p].smooth /\ bjob'[p].old = DOMAIN points
<1>1. B!Leave(p) => bjob'[p] = B!NoJob
  BY DEF B!Leave, Typed, JobsOK
<1>2. PICK r : r = [bjob[p] EXCEPT !.old = DOMAIN points, !.pc = "copy"]
  OBVIOUS
<1>3. \/ B!Leave(p) /\ mirror' = mirror
      \/ bjob' = [bjob EXCEPT ![p] = r]
  BY <1>2 DEF B!RsyncList
<1>4. /\ r.pc = "copy" /\ r.cmd = bjob[p].cmd
      /\ r.smooth = bjob[p].smooth /\ r.old = DOMAIN points
  BY <1>2 DEF Typed, JobsOK, JobRecord
<1> QED BY <1>1, <1>3, <1>4 DEF Typed, JobsOK

(* A dump is made later than what it is to replace.                        *)
LEMMA OrderNext ==
  ASSUME Typed, InOrder, [B!Next]_(B!vars)
  PROVE  InOrder'
<1>0. JobsOK /\ clock \in Nat /\ \A q \in BCallers : Orderly(bjob[q], bve, clock)
  BY DEF Typed, StateOK, JobsOK
<1>1. CASE UNCHANGED B!vars
  BY <1>1 DEF B!vars, InOrder, Ordered
<1>c. \A q \in BCallers : bjob'[q] \in {B!Cut(q), B!Hindered(q)} => Ordered(bjob'[q])
  <2>1. ASSUME NEW q \in BCallers, bjob'[q] = B!Cut(q) PROVE Ordered(bjob'[q])
    BY <1>0, <2>1, CutForm DEF Ordered, InsideStages
  <2>2. ASSUME NEW q \in BCallers, bjob'[q] = B!Hindered(q) PROVE Ordered(bjob'[q])
    BY <1>0, <2>2, HinderedForm DEF Ordered, InOrder
  <2> QED BY <2>1, <2>2
<1>n. Ordered(B!NoJob)
  BY NoJobForm DEF Ordered
<1>2. ASSUME NEW p \in BCallers, B!Step(p)
      PROVE  Ordered(bjob'[p])
  <2>1. \A pc : Goes(p, pc) /\ pc \notin {"show", "dump"} => Ordered(bjob'[p])
    BY DEF Goes, Ordered
  <2>2. (\E cmd \in B!Cmds, clean \in BOOLEAN, pw \in Passwords : B!Command(p, cmd, clean, pw))
          => Ordered(bjob'[p])
    BY Begins DEF Ordered
  <2>3. B!Old(p) => Ordered(bjob'[p])
    BY BecomesOld DEF Ordered
  <2>4. B!Mkdir(p) => Ordered(bjob'[p])
    <3>1. bjob[p].began \in 0 .. clock /\ bjob[p].old \subseteq 1 .. clock
      BY <1>0 DEF Orderly
    <3> QED BY <1>0, <3>1, BecomesMkdir DEF Ordered
  <2>5. B!Show(p) => Ordered(bjob'[p])
    <3>1. B!Show(p) => bjob[p].pc = "show"
      BY DEF B!Show, B!At
    <3> QED BY <3>1, BecomesShow DEF Ordered, InOrder
  <2>6. (\E d \in Dbs : B!Dump(p, d)) => Ordered(bjob'[p])
    <3>1. \A d \in Dbs : B!Dump(p, d) => bjob[p].pc = "dump"
      BY DEF B!Dump, B!At
    <3> QED BY <3>1, BecomesDump DEF Ordered, InOrder
  <2>7. B!RsyncList(p) => Ordered(bjob'[p])
    BY <1>n, BecomesList DEF Ordered
  <2>a. B!Archive(p) => Ordered(bjob'[p])
    BY <1>n, BecomesArchive DEF Ordered
  <2>8. B!Look(p) \/ B!Reach(p) \/ B!Unreached(p) \/ B!Check(p) \/ B!Clean(p) \/ B!ArchiveRead(p)
          \/ B!RsyncCopy(p) => Ordered(bjob'[p])
    BY <1>n, <2>1, Becomes
  <2>9. B!Secure(p) \/ B!SecureFile(p) \/ B!SecureSql(p) \/ B!Reset(p) \/ B!ResetSql(p) \/ B!ResetFile(p)
          \/ B!Remove(p) \/ B!Restore(p) \/ B!Kill(p) => Ordered(bjob'[p])
    BY <1>n, <2>1, BecomesSet
  <2>10. B!ResetReboot(p) => Ordered(bjob'[p])
    BY <1>c DEF B!ResetReboot
  <2> QED BY <1>2, <2>2, <2>3, <2>4, <2>5, <2>6, <2>7, <2>a, <2>8, <2>9, <2>10 DEF B!Step
<1>3. CASE B!Next
  <2>1. ASSUME NEW p \in BCallers, B!Step(p) PROVE InOrder'
    BY <1>2, <1>c, <2>1, CmdStays DEF InOrder
  <2>2. B!DbDown \/ B!Stop => InOrder'
    BY <1>c DEF B!DbDown, B!Stop, InOrder
  <2>3. B!DbUp \/ B!Start \/ B!ByHand \/ B!Record \/ B!BoundReached => InOrder'
    BY DEF B!DbUp, B!Start, B!ByHand, B!Record, B!BoundReached, InOrder, Ordered
  <2> QED BY <1>3, <2>1, <2>2, <2>3 DEF B!Next
<1> QED BY <1>1, <1>3

-----------------------------------------------------------------------------
(* What may be relied on while dumps are made.                             *)
LEMMA CalmQuiet ==
  ASSUME Entered, Smooth, Settled, Filed, UNCHANGED <<bve, db, rootpw, mdf, rough>>,
         NEW p \in BCallers, \A q \in BCallers : q # p => bjob'[q] = bjob[q],
         bjob[p].pc \notin {"secure-sql", "reset-file"},
         bjob'[p].pc \notin {"secure-sql", "reset-file"},
         bjob'[p].pc \in {"old", "mkdir", "show"} =>
           B!Connects \/ bjob[p].pc \in {"old", "mkdir", "show"},
         bjob'[p].cmd \in B!Dumping /\ bjob'[p].smooth =>
           \/ bjob[p].cmd \in B!Dumping /\ bjob[p].smooth
           \/ bve = "running" /\ db = "up" /\ rootpw = mdf
  PROVE  Entered' /\ Smooth' /\ Settled' /\ Filed'
<1>1. B!Connects' <=> B!Connects
  BY DEF B!Connects, B!Enters
<1>2. Entered'
  BY <1>1 DEF Entered
<1>3. Smooth'
  BY DEF Smooth
<1>4. Settled'
  BY DEF Settled
<1>5. Filed'
  BY DEF Filed
<1> QED BY <1>2, <1>3, <1>4, <1>5

(* Whoever sets a password is alone.                                       *)
LEMMA SetsAlone ==
  ASSUME Typed, Alone, B!Undisturbed, NEW p \in BCallers, bjob[p].cmd \in B!Setting
  PROVE  \A q \in BCallers : q # p => bjob[q].cmd = "none" /\ bjob[q].pc = "none"
<1>1. benv.together = 1
  BY DEF Typed, JobsOK, B!Undisturbed, B!Setting
<1>2. bjob[p].cmd # "none"
  BY DEF B!Setting
<1> QED BY <1>1, <1>2, PcOf DEF Alone, Typed

(* When nobody dumps or sets, what has to hold is little.                  *)
LEMMA CalmIdle ==
  ASSUME \A q \in BCallers : /\ bjob'[q].pc \notin {"old", "mkdir", "show", "secure-sql"}
                             /\ bjob'[q].cmd \in B!Dumping => ~bjob'[q].smooth,
         Settled'
  PROVE  Entered' /\ Smooth' /\ Settled' /\ Filed'
  BY DEF Entered, Smooth, Filed

LEMMA CalmStep ==
  ASSUME Typed, Alone, B!Undisturbed, Entered, Smooth, Settled, Filed, benv' = benv,
         NEW p \in BCallers, B!Step(p)
  PROVE  Entered' /\ Smooth' /\ Settled' /\ Filed'
<1>0. /\ JobsOK /\ clock \in Nat /\ \A q \in BCallers : Orderly(bjob[q], bve, clock)
      /\ \A q \in BCallers : bjob[q] \in JobRecord
  BY DEF Typed, StateOK, JobsOK, Orderly
<1>j. B!NoJob.pc = "none" /\ B!NoJob.cmd = "none" /\ "none" \notin B!Dumping
  BY DEF B!NoJob, B!Dumping
<1>1. ASSUME NEW cmd \in B!Cmds, NEW clean \in BOOLEAN, NEW pw \in Passwords,
             B!Command(p, cmd, clean, pw)
      PROVE  Entered' /\ Smooth' /\ Settled' /\ Filed'
  <2>1. UNCHANGED <<bve, db, rootpw, mdf, rough>> /\ bjob[p].cmd = "none" /\ cmd \in benv.cmds
    BY <1>1 DEF B!Command, B!inside
  <2>2. \A q \in BCallers : q # p => bjob'[q] = bjob[q]
    BY <1>1 DEF B!Command
  <2>3. bjob[p].pc = "none"
    BY <1>0, <2>1, PcOf
  <2>4. bjob'[p].cmd \in B!Dumping /\ bjob'[p].smooth => bve = "running" /\ db = "up" /\ rootpw = mdf
    <3>1. SUFFICES ASSUME bjob'[p].smooth, bjob'[p].cmd \in B!Dumping
                   PROVE  bve = "running" /\ db = "up" /\ rootpw = mdf
      OBVIOUS
    <3>2. bve = "running" /\ db = "up" /\ ~rough
      BY <1>1, <3>1, Begins
    <3>3. \A q \in BCallers : bjob[q].pc \notin {"secure-sql", "reset-file"}
      <4>1. CASE benv.together = 1
        BY <1>0, <1>1, <4>1, EmptyOrOne, PcOf DEF B!Active
      <4>2. CASE benv.cmds \cap B!Setting = {}
        <5>1. \A q \in BCallers : bjob[q].cmd \notin B!Setting
          BY <4>2 DEF Typed, JobsOK, B!Setting
        <5> QED BY <1>0, <5>1, PcOf DEF B!Setting
      <4> QED BY <4>1, <4>2 DEF B!Undisturbed
    <3> QED BY <3>2, <3>3 DEF Settled
  <2>5. bjob'[p].pc \notin {"old", "mkdir", "show", "secure-sql", "reset-file"}
    BY <1>1, Begins
  <2> QED BY <2>1, <2>2, <2>3, <2>4, <2>5, CalmQuiet
<1>2. ASSUME B!Look(p) \/ B!Reach(p) \/ B!Unreached(p) \/ B!Check(p) \/ B!Clean(p)
               \/ B!ArchiveRead(p) \/ B!RsyncCopy(p)
      PROVE  Entered' /\ Smooth' /\ Settled' /\ Filed'
  <2>1. UNCHANGED <<bve, db, rootpw, mdf, rough>>
    BY <1>2 DEF B!Look, B!Reach, B!Unreached, B!Check, B!Clean, B!ArchiveRead,
       B!RsyncCopy, B!inside
  <2>2. \A q \in BCallers : q # p => bjob'[q] = bjob[q]
    BY <1>0, <1>2 DEF B!Look, B!Reach, B!Unreached, B!Check, B!Clean, B!ArchiveRead, B!RsyncCopy,
       B!To, B!Leave,
       B!AfterDumps, Typed, JobsOK
  <2>3. bjob[p].pc \in {"look", "reach", "rsync", "check", "dump", "read", "copy"}
    BY <1>2, PcOf DEF B!Look, B!Reach, B!Unreached, B!Check, B!Clean, B!ArchiveRead,
       B!RsyncCopy, B!At
  <2>4. bjob[p].cmd \in B!Dumping
    BY <1>0, <2>3, PcOf DEF B!Dumping
  <2>5. \/ Goes(p, "check") \/ Goes(p, "archive") \/ Goes(p, "rsync") \/ bjob'[p] = B!NoJob
        \/ Goes(p, "old") /\ B!Connects
    <3>1. B!Check(p) => B!Connects \/ B!AfterDumps(p)
      BY DEF B!Check
    <3> QED BY <1>2, <3>1, Becomes, AfterGoes
  <2>6. /\ bjob'[p].pc \notin {"secure-sql", "reset-file"}
        /\ bjob'[p].pc \in {"old", "mkdir", "show"} => B!Connects
        /\ bjob'[p].cmd \in B!Dumping /\ bjob'[p].smooth => bjob[p].cmd \in B!Dumping /\ bjob[p].smooth
    BY <1>j, <2>5 DEF Goes
  <2>7. bjob[p].pc \notin {"secure-sql", "reset-file"}
    BY <2>3
  <2> QED BY <2>1, <2>2, <2>6, <2>7, CalmQuiet
<1>3. ASSUME B!Old(p) \/ B!Mkdir(p) \/ B!Show(p) \/ B!Archive(p) \/ B!RsyncList(p)
               \/ \E d \in Dbs : B!Dump(p, d)
      PROVE  Entered' /\ Smooth' /\ Settled' /\ Filed'
  <2>1. UNCHANGED <<bve, db, rootpw, mdf, rough>>
    BY <1>3 DEF B!Old, B!Mkdir, B!Show, B!Archive, B!RsyncList, B!Dump, B!inside
  <2>2. \A q \in BCallers : q # p => bjob'[q] = bjob[q]
    BY <1>3 DEF B!Old, B!Mkdir, B!Show, B!Archive, B!RsyncList, B!Dump, B!Leave, Typed, JobsOK
  <2>3. bjob[p].pc \in {"old", "mkdir", "show", "rsync", "dump", "archive"}
    BY <1>3 DEF B!Old, B!Mkdir, B!Show, B!Archive, B!RsyncList, B!Dump, B!At
  <2>4. bjob[p].cmd \in B!Dumping
    BY <1>0, <2>3, PcOf DEF B!Dumping
  <2>5. bjob'[p] = B!NoJob \/ (/\ bjob'[p].pc \in {"mkdir", "show", "dump", "copy", "read"}
                               /\ bjob'[p].smooth => bjob[p].smooth)
    BY <1>3, BecomesOld, BecomesMkdir, BecomesShow, BecomesArchive, BecomesList, BecomesDump
  <2>6. bjob'[p].pc \in {"mkdir", "show"} => bjob[p].pc \in {"old", "mkdir"}
    <3>1. \A d \in Dbs : B!Dump(p, d) => bjob'[p].pc = "dump"
      BY BecomesDump
    <3> QED BY <1>3, <1>j, <3>1, BecomesOld, BecomesMkdir, BecomesShow, BecomesArchive, BecomesList DEF B!Old,
       B!Mkdir, B!At
  <2>7. /\ bjob'[p].pc \notin {"secure-sql", "reset-file"}
        /\ bjob'[p].pc \in {"old", "mkdir", "show"} => bjob[p].pc \in {"old", "mkdir", "show"}
        /\ bjob'[p].cmd \in B!Dumping /\ bjob'[p].smooth => bjob[p].cmd \in B!Dumping /\ bjob[p].smooth
    BY <1>j, <2>4, <2>5, <2>6
  <2>8. bjob[p].pc \notin {"secure-sql", "reset-file"}
    BY <2>3
  <2> QED BY <2>1, <2>2, <2>7, <2>8, CalmQuiet
<1>4. ASSUME bjob[p].cmd \in B!Setting,
             B!Secure(p) \/ B!SecureFile(p) \/ B!SecureSql(p) \/ B!Reset(p) \/ B!ResetSql(p) \/ B!ResetFile(p)
      PROVE  Entered' /\ Smooth' /\ Settled' /\ Filed'
  <2>1. \A q \in BCallers : q # p => bjob'[q] = bjob[q]
    BY <1>4 DEF B!Secure, B!SecureFile, B!SecureSql, B!Reset, B!ResetSql, B!ResetFile, B!To,
       B!Leave, Typed, JobsOK
  <2>2. \A q \in BCallers : q # p => bjob'[q].cmd = "none" /\ bjob'[q].pc = "none"
    BY <1>4, <2>1, SetsAlone
  <2>3. bjob[p].cmd \notin B!Dumping
    BY <1>4 DEF B!Setting, B!Dumping
  <2>4. /\ bjob'[p].pc \notin {"old", "mkdir", "show"}
        /\ bjob'[p].cmd \notin B!Dumping
    BY <1>4, <1>j, <2>3, BecomesSet DEF Goes
  <2>5. Entered' /\ Smooth'
    BY <1>j, <2>2, <2>4 DEF Entered, Smooth
  <2>6. CASE B!Secure(p)
    <3>1. UNCHANGED <<rootpw, mdf, rough>> /\ bjob[p].pc = "secure"
      BY <2>6 DEF B!Secure, B!inside, B!At
    <3>2. bjob'[p].pc \notin {"secure-sql", "reset-file"}
      BY <1>j, <2>6, BecomesSet DEF Goes
    <3>3. Settled' /\ Filed'
      BY <2>1, <3>1, <3>2 DEF Settled, Filed
    <3> QED BY <2>5, <3>3
  <2>7. CASE B!SecureFile(p)
    <3>1. bjob'[p].pc = "secure-sql" /\ bjob'[p].pw = bjob[p].pw /\ mdf' = bjob[p].pw
      BY <2>7, BecomesSet DEF Goes, B!SecureFile
    <3>2. Settled' /\ Filed'
      BY <2>2, <3>1 DEF Settled, Filed
    <3> QED BY <2>5, <3>2
  <2>8. CASE B!SecureSql(p)
    <3>1. /\ bjob'[p].pc = "none" /\ mdf = bjob[p].pw /\ mdf' = mdf
          /\ ~rough' => rootpw' = bjob[p].pw
      BY <1>j, <2>8, BecomesSet DEF B!SecureSql, Filed, B!At
    <3>2. Settled' /\ Filed'
      BY <2>2, <3>1 DEF Settled, Filed
    <3> QED BY <2>5, <3>2
  <2>9. CASE B!Reset(p)
    <3>1. UNCHANGED <<rootpw, mdf, rough>> /\ bjob[p].pc = "reset"
      BY <2>9 DEF B!Reset, B!At
    <3>2. bjob'[p].pc \notin {"secure-sql", "reset-file"}
      BY <1>j, <2>9, BecomesSet DEF Goes
    <3>3. Settled' /\ Filed'
      BY <2>1, <3>1, <3>2 DEF Settled, Filed
    <3> QED BY <2>5, <3>3
  <2>10. CASE B!ResetSql(p)
    <3>1. bjob'[p].pc = "reset-file"
      BY <2>10, BecomesSet DEF Goes
    <3>2. Settled' /\ Filed'
      BY <2>2, <3>1 DEF Settled, Filed
    <3> QED BY <2>5, <3>2
  <2>11. CASE B!ResetFile(p)
    <3>1. /\ bjob'[p].pc = "reset-reboot" /\ mdf' = bjob[p].pw /\ rootpw' = rootpw
          /\ ~rough' => rootpw = bjob[p].pw
      BY <2>11, BecomesSet DEF Goes, B!ResetFile
    <3>2. Settled' /\ Filed'
      BY <2>2, <3>1 DEF Settled, Filed
    <3> QED BY <2>5, <3>2
  <2> QED BY <1>4, <2>6, <2>7, <2>8, <2>9, <2>10, <2>11
<1>5. B!Secure(p) \/ B!SecureFile(p) \/ B!SecureSql(p) => bjob[p].cmd \in B!Setting
  BY <1>0, PcOf DEF B!Secure, B!SecureFile, B!SecureSql, B!At, B!Setting
<1>6. B!Reset(p) \/ B!ResetSql(p) \/ B!ResetFile(p) \/ B!ResetReboot(p) => bjob[p].cmd \in B!Setting
  BY <1>0, PcOf DEF B!Reset, B!ResetSql, B!ResetFile, B!ResetReboot, B!At, B!Setting
<1>c. ASSUME NEW q \in BCallers, bjob'[q] \in {B!Cut(q), B!NoJob}
      PROVE  /\ bjob'[q].pc \notin {"old", "mkdir", "show", "secure-sql", "reset-file"}
             /\ bjob'[q].cmd \in B!Dumping => ~bjob'[q].smooth
  <2>1. CASE bjob'[q] = B!Cut(q)
    <3>1. B!Cut(q).pc \notin InsideStages /\ (B!Cut(q).smooth => B!Cut(q).cmd = "none")
      BY <1>0, CutForm
    <3> QED BY <1>j, <2>1, <3>1 DEF InsideStages
  <2>2. CASE bjob'[q] = B!NoJob
    BY <1>j, <2>2
  <2> QED BY <1>c, <2>1, <2>2
<1>7. ASSUME B!ResetReboot(p)
      PROVE  Entered' /\ Smooth' /\ Settled' /\ Filed'
  <2>1. \A q \in BCallers : bjob'[q] = B!Cut(q)
    BY <1>7 DEF B!ResetReboot
  <2>2. UNCHANGED <<rootpw, mdf>> /\ (~rough' => ~rough /\ \A q \in BCallers : ~B!Between(q))
    BY <1>7 DEF B!ResetReboot
  <2>3. Settled'
    BY <2>2 DEF Settled, B!Between
  <2> QED BY <1>c, <2>1, <2>3, CalmIdle
<1>8. ASSUME B!Remove(p)
      PROVE  Entered' /\ Smooth' /\ Settled' /\ Filed'
  <2>1. \A q \in BCallers : bjob'[q] \in {B!Cut(q), B!NoJob}
    BY <1>8 DEF B!Remove
  <2>2. Settled'
    BY <1>8 DEF B!Remove, B!Emptied, Settled
  <2> QED BY <1>c, <2>1, <2>2, CalmIdle
<1>9. ASSUME B!Restore(p)
      PROVE  Entered' /\ Smooth' /\ Settled' /\ Filed'
  <2>1. /\ bjob'[p] = B!NoJob /\ bjob[p].pc = "restore"
        /\ \A q \in BCallers : q # p => bjob'[q] = bjob[q]
    BY <1>9, BecomesSet DEF B!Restore, B!At, B!Leave, Typed, JobsOK
  <2>2. CASE ~(bve = "gone" /\ auth)
    <3>1. UNCHANGED <<bve, db, rootpw, mdf, rough>>
      BY <1>9, <2>2 DEF B!Restore
    <3> QED BY <1>j, <2>1, <3>1, CalmQuiet
  <2>3. CASE bve = "gone" /\ auth
    <3>1. \A q \in BCallers : bjob[q].pc \notin InsideStages
      BY <2>3, InsideRuns
    <3>2. \A q \in BCallers : /\ bjob'[q].pc \notin {"old", "mkdir", "show", "secure-sql"}
                              /\ bjob'[q].cmd \in B!Dumping => ~bjob'[q].smooth
      BY <1>j, <2>1, <2>3, <3>1 DEF InsideStages, Smooth
    <3>3. Settled'
      BY <1>9, <2>3 DEF B!Restore, B!Emptied, Settled
    <3> QED BY <3>2, <3>3, CalmIdle
  <2> QED BY <2>2, <2>3
<1>10. ASSUME B!Kill(p)
      PROVE  Entered' /\ Smooth' /\ Settled' /\ Filed'
  <2>1. bjob'[p] = B!NoJob /\ \A q \in BCallers : q # p => bjob'[q] = bjob[q]
    BY <1>10, BecomesSet DEF B!Kill, B!Leave, Typed, JobsOK
  <2>2. UNCHANGED <<bve, db, rootpw, mdf>> /\ (~rough' => ~rough /\ ~B!Between(p))
    BY <1>10 DEF B!Kill, B!inside
  <2>3. B!Connects' <=> B!Connects
    BY <2>2 DEF B!Connects, B!Enters
  <2>4. Entered'
    BY <1>j, <2>1, <2>3 DEF Entered
  <2>5. Smooth'
    BY <1>j, <2>1, <2>2 DEF Smooth
  <2>6. Settled'
    BY <2>1, <2>2 DEF Settled, B!Between
  <2>7. Filed'
    BY <1>j, <2>1, <2>2 DEF Filed
  <2> QED BY <2>4, <2>5, <2>6, <2>7
<1> QED BY <1>1, <1>2, <1>3, <1>4, <1>5, <1>6, <1>7, <1>8, <1>9, <1>10 DEF B!Step

LEMMA CalmNext ==
  ASSUME Typed, Alone, Calm, [B!Next]_(B!vars)
  PROVE  Calm'
<1>1. CASE UNCHANGED B!vars
  BY <1>1 DEF B!vars, Calm, B!Undisturbed, Entered, Smooth, Settled, Filed, B!Connects, B!Enters
<1> SUFFICES ASSUME B!Next, B!Undisturbed'
             PROVE  Entered' /\ Smooth' /\ Settled' /\ Filed'
  BY <1>1 DEF Calm
<1>2. benv' = benv /\ B!Undisturbed
  BY DEF B!Next, B!Undisturbed
<1>3. Entered /\ Smooth /\ Settled /\ Filed
  BY <1>2 DEF Calm
<1>0. JobsOK /\ clock \in Nat
  BY DEF Typed, StateOK
<1>4. ASSUME B!DbDown PROVE Entered' /\ Smooth' /\ Settled' /\ Filed'
  <2>1. \A q \in BCallers : /\ bjob'[q] = B!Hindered(q)
                            /\ bjob[q].pc \notin {"old", "mkdir", "show"}
    BY <1>4 DEF B!DbDown, B!Listing
  <2>2. \A q \in BCallers : /\ bjob'[q].pc = bjob[q].pc /\ bjob'[q].pw = bjob[q].pw
                            /\ bjob'[q].smooth => bjob'[q].cmd = "none"
    BY <1>0, <2>1, HinderedForm
  <2>3. UNCHANGED <<rootpw, mdf, rough>>
    BY <1>4 DEF B!DbDown
  <2>4. Entered'
    BY <2>1, <2>2 DEF Entered
  <2>5. Smooth'
    BY <2>2 DEF Smooth, B!Dumping
  <2>6. Settled' /\ Filed'
    BY <1>3, <2>2, <2>3 DEF Settled, Filed
  <2> QED BY <2>4, <2>5, <2>6
<1>5. ASSUME B!Stop PROVE Entered' /\ Smooth' /\ Settled' /\ Filed'
  <2>1. \A q \in BCallers : bjob'[q] = B!Cut(q)
    BY <1>5 DEF B!Stop
  <2>2. \A q \in BCallers : /\ bjob'[q].pc \notin {"old", "mkdir", "show", "secure-sql"}
                            /\ bjob'[q].cmd \in B!Dumping => ~bjob'[q].smooth
    <3>1. \A q \in BCallers : B!Cut(q).pc \notin InsideStages /\ (B!Cut(q).smooth => B!Cut(q).cmd = "none")
      BY <1>0, CutForm
    <3> QED BY <2>1, <3>1 DEF InsideStages, B!Dumping
  <2>3. UNCHANGED <<rootpw, mdf>> /\ (~rough' => ~rough /\ \A q \in BCallers : ~B!Between(q))
    BY <1>5 DEF B!Stop
  <2>4. Settled'
    BY <1>3, <2>3 DEF Settled, B!Between
  <2> QED BY <2>2, <2>4, CalmIdle
<1>6. ASSUME B!DbUp \/ B!Start PROVE Entered' /\ Smooth' /\ Settled' /\ Filed'
  <2>1. bjob' = bjob /\ UNCHANGED <<rootpw, mdf, rough>>
    BY <1>6 DEF B!DbUp, B!Start
  <2>2. /\ \A q \in BCallers : bjob[q].pc \notin {"old", "mkdir", "show"}
        /\ \A q \in BCallers : bjob[q].cmd \in B!Dumping => ~bjob[q].smooth
    <3>1. CASE B!DbUp
      BY <1>3, <3>1 DEF B!DbUp, Entered, Smooth, B!Connects, B!Enters
    <3>2. CASE B!Start
      BY <1>3, <3>2, InsideRuns DEF B!Start, Smooth, InsideStages
    <3> QED BY <1>6, <3>1, <3>2
  <2>3. Entered' /\ Smooth'
    BY <2>1, <2>2 DEF Entered, Smooth
  <2>4. Settled' /\ Filed'
    BY <1>3, <2>1 DEF Settled, Filed
  <2> QED BY <2>3, <2>4
<1>7. ASSUME B!ByHand \/ B!Record \/ B!BoundReached
      PROVE  Entered' /\ Smooth' /\ Settled' /\ Filed'
  <2>1. bjob' = bjob /\ UNCHANGED <<bve, db, rootpw, mdf, rough>>
    BY <1>7 DEF B!ByHand, B!Record, B!BoundReached, B!inside
  <2> QED BY <1>3, <2>1 DEF Entered, Smooth, Settled, Filed, B!Connects, B!Enters
<1> QED BY <1>2, <1>3, <1>4, <1>5, <1>6, <1>7, CalmStep DEF B!Next

-----------------------------------------------------------------------------
(* Dumps survive: complete ones have later complete ones when they go, and *)
(* nothing goes from a directory that stays; those made by the time c are  *)
(* not made anew.                                                          *)
Survive(d, e, c) ==
  /\ \A t \in Nat : Late(d, t) => Late(e, t)
  /\ \A u \in DOMAIN d : Late(e, u) \/ (u \in DOMAIN e /\ d[u] \subseteq e[u])
  /\ \A u \in DOMAIN e : u \in 1 .. c => u \in DOMAIN d /\ d[u] \subseteq e[u]

LEMMA SurviveSame == \A d, c : Survive(d, d, c)
  BY DEF Survive

LEMMA WholeSurvives ==
  ASSUME NEW d, NEW e, NEW c, NEW r, Survive(d, e, c), r.point \in Nat, r.began \in Nat,
         DOMAIN r.list \subseteq 1 .. c, Whole(r, d)
  PROVE  Whole(r, e)
<1>1. Since(r.list, d) => Since(r.list, e)
  BY DEF Survive, Since
<1> QED BY <1>1 DEF Survive, Whole

LEMMA SurviveMade ==
  ASSUME NEW d, NEW c \in Nat, Dumps(d, c), NEW e,
         e = [t \in DOMAIN d \cup {c + 1} |-> IF t = c + 1 THEN {} ELSE d[t]]
  PROVE  Survive(d, e, c) /\ c + 1 \in DOMAIN e
<1>1. \A u \in DOMAIN d : u \in DOMAIN e /\ e[u] = d[u]
  BY DEF Dumps
<1>2. \A u \in DOMAIN e : u \in 1 .. c => u \in DOMAIN d
  OBVIOUS
<1> QED BY <1>1, <1>2 DEF Survive, Late

LEMMA SurviveGrown ==
  ASSUME NEW d, NEW c \in Nat, Dumps(d, c), NEW t \in DOMAIN d, NEW x \in Dbs
  PROVE  Survive(d, [d EXCEPT ![t] = @ \cup {x}], c)
<1> DEFINE e == [d EXCEPT ![t] = @ \cup {x}]
<1>1. DOMAIN e = DOMAIN d /\ \A u \in DOMAIN d : e[u] = IF u = t THEN d[u] \cup {x} ELSE d[u]
  BY DumpsGrown
<1>2. \A u \in DOMAIN d : d[u] \subseteq e[u] /\ (d[u] = Dbs => e[u] = Dbs)
  BY <1>1
<1> HIDE DEF e
<1>3. Survive(d, e, c)
  BY <1>1, <1>2 DEF Survive, Late
<1> QED BY <1>3 DEF e

(* The older ones go when r has dumped all.                                *)
LEMMA SurviveClean ==
  ASSUME NEW d, NEW c \in Nat, Dumps(d, c), NEW r, r.pc = "dump", r.succ, r.todo = {},
         Whole(r, d), Ordered(r), r.point \in Nat, r.old \subseteq Nat
  PROVE  Survive(d, B!Restrict(d, DOMAIN d \ r.old), c)
<1> DEFINE e == B!Restrict(d, DOMAIN d \ r.old)
<1>1. DOMAIN e = DOMAIN d \ r.old /\ \A u \in DOMAIN d \ r.old : e[u] = d[u]
  <2>1. DOMAIN d \ r.old \subseteq DOMAIN d
    OBVIOUS
  <2> QED BY <2>1, DumpsRestricted
<1> HIDE DEF e
<1>2. \A u \in r.old : u < r.point /\ u \in Nat
  BY DEF Ordered
<1>3. PICK w \in DOMAIN d : w >= r.point /\ d[w] = Dbs
  <2>1. CASE r.point \in DOMAIN d /\ Dbs \subseteq d[r.point] \cup r.todo
    <3>1. d[r.point] \subseteq Dbs
      BY <2>1 DEF Dumps
    <3>2. d[r.point] = Dbs
      BY <2>1, <3>1
    <3> QED BY <2>1, <3>2
  <2>2. CASE Late(d, r.point)
    <3>1. PICK w \in DOMAIN d : w > r.point /\ d[w] = Dbs
      BY <2>2 DEF Late
    <3>2. w \in Nat
      BY DEF Dumps
    <3> QED BY <3>1, <3>2
  <2> QED BY <2>1, <2>2 DEF Whole
<1>4. w \in Nat /\ w \notin r.old /\ w \in DOMAIN e /\ e[w] = Dbs
  <2>1. w \in Nat
    BY DEF Dumps
  <2>2. w \notin r.old
    BY <1>2, <1>3, <2>1
  <2> QED BY <1>1, <1>3, <2>1, <2>2
<1>5. \A u \in r.old : Late(e, u)
  <2>1. \A u \in r.old : w > u
    BY <1>2, <1>3, <1>4
  <2> QED BY <1>4, <2>1 DEF Late
<1>6. ASSUME NEW t \in Nat, Late(d, t) PROVE Late(e, t)
  <2>1. PICK u \in DOMAIN d : u > t /\ d[u] = Dbs
    BY <1>6 DEF Late
  <2>2. CASE u \in r.old
    <3>1. w > t
      BY <1>2, <1>3, <1>4, <2>1, <2>2
    <3> QED BY <1>4, <3>1 DEF Late
  <2>3. CASE u \notin r.old
    BY <1>1, <2>1, <2>3 DEF Late
  <2> QED BY <2>2, <2>3
<1>7. Survive(d, e, c)
  BY <1>1, <1>5, <1>6 DEF Survive
<1> QED BY <1>7 DEF e

(* Unless the container goes or comes back, dumps survive each step.       *)
LEMMA SurvivesStep ==
  ASSUME Typed, InOrder, \A p \in BCallers : Whole(bjob[p], points), NEW p \in BCallers, B!Step(p)
  PROVE  Survive(points, points', clock) \/ B!Remove(p) \/ (B!Restore(p) /\ bve = "gone")
<1>0. Dumps(points, clock) /\ clock \in Nat /\ Orderly(bjob[p], bve, clock) /\ bjob[p] \in JobRecord
  BY DEF Typed, DumpsOK, StateOK, JobsOK
<1>s. Survive(points, points, clock)
  BY SurviveSame
<1>1. (\E cmd \in B!Cmds, clean \in BOOLEAN, pw \in Passwords : B!Command(p, cmd, clean, pw))
        => points' = points
  BY DEF B!Command, B!inside
<1>2. B!Look(p) \/ B!Reach(p) \/ B!Unreached(p) \/ B!Check(p) \/ B!Old(p) \/ B!Show(p) \/ B!Archive(p)
        \/ B!ArchiveRead(p) \/ B!RsyncList(p) \/ B!RsyncCopy(p) \/ B!Secure(p) => points' = points
  BY DEF B!Look, B!Reach, B!Unreached, B!Check, B!Old, B!Show, B!Archive, B!ArchiveRead,
     B!RsyncList, B!RsyncCopy, B!Secure, B!inside
<1>3. B!SecureFile(p) \/ B!SecureSql(p) \/ B!Reset(p) \/ B!ResetSql(p) \/ B!ResetFile(p) \/ B!ResetReboot(p)
        \/ B!Kill(p) => points' = points
  BY DEF B!SecureFile, B!SecureSql, B!Reset, B!ResetSql, B!ResetFile, B!ResetReboot, B!Kill,
     B!inside
<1>4. B!Restore(p) /\ bve # "gone" => points' = points
  BY DEF B!Restore
<1>5. ASSUME B!Mkdir(p) PROVE Survive(points, points', clock)
  <2>1. points' = [t \in DOMAIN points \cup {clock + 1} |->
                     IF t = clock + 1 THEN {} ELSE points[t]]
    BY <1>5 DEF B!Mkdir
  <2> QED BY <1>0, <2>1, SurviveMade
<1>6. ASSUME NEW d \in Dbs, B!Dump(p, d) PROVE Survive(points, points', clock)
  <2>1. CASE points' = points
    BY <2>1, <1>s
  <2>2. CASE /\ bjob[p].point \in DOMAIN points
             /\ points' = [points EXCEPT ![bjob[p].point] = @ \cup {d}]
    BY <1>0, <2>2, SurviveGrown
  <2> QED BY <1>6, <2>1, <2>2, BecomesDump
<1>7. ASSUME B!Clean(p) PROVE Survive(points, points', clock)
  <2>1. CASE points' = points
    BY <2>1, <1>s
  <2>2. CASE bjob[p].succ /\ points' = B!Restrict(points, DOMAIN points \ bjob[p].old)
    <3>1. bjob[p].pc = "dump" /\ bjob[p].todo = {}
      BY <1>7 DEF B!Clean, B!At
    <3>2. bjob[p].point \in Nat /\ bjob[p].old \subseteq Nat
      BY <1>0 DEF JobRecord
    <3>3. Whole(bjob[p], points) /\ Ordered(bjob[p])
      BY DEF InOrder
    <3> QED BY <1>0, <2>2, <3>1, <3>2, <3>3, SurviveClean
  <2> QED BY <1>7, <2>1, <2>2 DEF B!Clean
<1> QED BY <1>s, <1>1, <1>2, <1>3, <1>4, <1>5, <1>6, <1>7 DEF B!Step

(* A job that was cut short or hindered has dumped nothing that counts.    *)
LEMMA CutWhole ==
  ASSUME JobsOK, clock \in Nat, NEW q \in BCallers, NEW d
  PROVE  Whole(B!Cut(q), d)
<1>1. /\ B!Cut(q).pc \notin InsideStages /\ (B!Cut(q).smooth => B!Cut(q).cmd = "none")
      /\ Orderly(B!Cut(q), bve, clock)
  BY CutForm
<1>2. B!Cut(q).pc \in {"archive", "read"} => B!Cut(q).cmd = "backup"
  BY <1>1, CmdOf
<1> QED BY <1>1, <1>2 DEF Whole, InsideStages

LEMMA NoJobWhole == \A d : Whole(B!NoJob, d)
  BY NoJobForm DEF Whole

LEMMA KeptStep ==
  ASSUME Typed, InOrder, B!Undisturbed, Entered, Smooth, \A q \in BCallers : Whole(bjob[q], points),
         NEW p \in BCallers, B!Step(p)
  PROVE  \A q \in BCallers : Whole(bjob'[q], points')
<1>0. /\ Dumps(points, clock) /\ clock \in Nat /\ JobsOK
      /\ \A q \in BCallers : bjob[q] \in JobRecord /\ bjob[q].point \in Nat /\ bjob[q].began \in Nat
  BY DEF Typed, DumpsOK, StateOK, JobsOK, JobRecord
<1>l. \A q \in BCallers : DOMAIN bjob[q].list \subseteq 1 .. clock
  BY DEF Typed, JobsOK, Orderly, Dumps
<1>1. CASE B!Remove(p)
  <2>1. \A q \in BCallers : bjob'[q] \in {B!Cut(q), B!NoJob}
    BY <1>1 DEF B!Remove
  <2> QED BY <1>0, <2>1, CutWhole, NoJobWhole
<1>2. CASE B!Restore(p) /\ bve = "gone"
  <2>1. bjob'[p] = B!NoJob /\ \A q \in BCallers : q # p => bjob'[q] = bjob[q]
    BY <1>2, BecomesSet DEF B!Restore, B!Leave, Typed, JobsOK
  <2>2. ASSUME NEW q \in BCallers PROVE Whole(bjob[q], points')
    <3>1. bjob[q].pc \notin InsideStages
      BY <1>2, InsideRuns
    <3>2. ~(bjob[q].pc \in {"archive", "read"} /\ bjob[q].smooth)
      BY <1>0, <1>2, PcOf DEF Smooth, B!Dumping
    <3> QED BY <3>1, <3>2 DEF Whole, InsideStages
  <2> QED BY <2>1, <2>2, NoJobWhole
<1>3. CASE ~B!Remove(p) /\ ~(B!Restore(p) /\ bve = "gone")
  <2>1. Survive(points, points', clock)
    BY <1>3, SurvivesStep
  <2>2. \A q \in BCallers : Whole(bjob[q], points')
    BY <1>0, <1>l, <2>1, WholeSurvives
  <2>3. \A q \in BCallers : q # p => Whole(bjob'[q], points')
    BY <1>0, <2>2, CmdStays, CutWhole
  <2>4. \A pc : Goes(p, pc) /\ pc \notin {"show", "dump", "archive", "read"} => Whole(bjob'[p], points')
    BY DEF Goes, Whole
  <2>5. Whole(bjob'[p], points')
    <3>1. (\E cmd \in B!Cmds, clean \in BOOLEAN, pw \in Passwords : B!Command(p, cmd, clean, pw))
            => Whole(bjob'[p], points')
      BY Begins DEF Whole
    <3>2. ASSUME B!Look(p) PROVE Whole(bjob'[p], points')
      <4>1. CASE Goes(p, "check")
        BY <2>4, <4>1
      <4>2. CASE Goes(p, "archive") /\ ~Goes(p, "check")
        <5>1. bve # "running" /\ bjob[p].cmd = "backup"
          BY <1>0, <3>2, <4>2, GoesOn, PcOf DEF B!Look, B!At
        <5>2. ~bjob'[p].smooth
          BY <4>2, <5>1 DEF Smooth, B!Dumping, Goes
        <5> QED BY <4>2, <5>2 DEF Goes, Whole
      <4> QED BY <3>2, <4>1, <4>2, Becomes
    <3>3. ASSUME B!Check(p) PROVE Whole(bjob'[p], points')
      <4>1. CASE Goes(p, "archive")
        <5>1. bjob[p].cmd \in B!Dumping
          BY <1>0, <3>3, PcOf DEF B!Check, B!At, B!Dumping
        <5>2. ~(bve = "running" /\ B!Connects)
          BY <3>3, <4>1, GoesOn DEF B!Check, Goes
        <5>3. ~bjob'[p].smooth
          BY <4>1, <5>1, <5>2 DEF Smooth, Goes, B!Connects, B!Enters
        <5> QED BY <4>1, <5>3 DEF Goes, Whole
      <4> QED BY <2>4, <3>3, <4>1, Becomes, NoJobWhole
    <3>4. B!Reach(p) \/ B!Unreached(p) \/ B!ArchiveRead(p) \/ B!RsyncCopy(p) => Whole(bjob'[p], points')
      BY <2>4, Becomes, NoJobWhole
    <3>a. ASSUME B!Archive(p) PROVE Whole(bjob'[p], points')
      <4>1. CASE bjob'[p] = B!NoJob
        BY <4>1, NoJobWhole
      <4>2. CASE bjob'[p] # B!NoJob
        <5>1. /\ bjob'[p].pc = "read" /\ bjob'[p].list = points /\ bjob'[p].began = bjob[p].began
              /\ bjob'[p].smooth = bjob[p].smooth
          BY <3>a, <4>2, BecomesArchive
        <5>2. points' = points /\ bjob[p].pc = "archive"
          BY <3>a DEF B!Archive, B!inside, B!At
        <5>3. bjob[p].smooth => Late(points, bjob[p].began)
          BY <5>2 DEF Whole
        <5>4. Since(points, points')
          BY <5>2 DEF Since
        <5> QED BY <5>1, <5>3, <5>4 DEF Whole
      <4> QED BY <4>1, <4>2
    <3>5. B!Old(p) => Whole(bjob'[p], points')
      BY BecomesOld DEF Whole
    <3>6. ASSUME B!Mkdir(p) PROVE Whole(bjob'[p], points')
      <4>1. clock + 1 \in DOMAIN points'
        BY <3>6 DEF B!Mkdir
      <4> QED BY <3>6, <4>1, BecomesMkdir DEF Whole
    <3>7. ASSUME B!Show(p) PROVE Whole(bjob'[p], points')
      <4>1. B!Connects /\ bjob[p].pc = "show"
        BY <3>7 DEF B!Show, B!At, Entered
      <4>2. bjob'[p].todo = Dbs /\ bjob'[p].pc = "dump" /\ bjob'[p].point = bjob[p].point
        BY <3>7, <4>1, BecomesShow
      <4>3. bjob[p].point \in DOMAIN points' \/ Late(points', bjob[p].point)
        BY <2>2, <4>1 DEF Whole
      <4> QED BY <4>2, <4>3 DEF Whole
    <3>8. ASSUME NEW d \in Dbs, B!Dump(p, d) PROVE Whole(bjob'[p], points')
      <4>1. bjob[p].pc = "dump"
        BY <3>8 DEF B!Dump, B!At
      <4>2. /\ bjob'[p].pc = "dump" /\ bjob'[p].point = bjob[p].point
            /\ bjob'[p].todo = bjob[p].todo \ {d} /\ (bjob'[p].smooth => bjob[p].smooth)
        BY <3>8, BecomesDump
      <4>3. CASE /\ bjob[p].point \in DOMAIN points
                 /\ points' = [points EXCEPT ![bjob[p].point] = @ \cup {d}]
                 /\ bjob'[p].succ => bjob[p].succ
        <5>1. /\ bjob[p].point \in DOMAIN points'
              /\ points'[bjob[p].point] = points[bjob[p].point] \cup {d}
          BY <1>0, <3>8, <4>3, DumpsGrown
        <5>2. CASE Late(points', bjob[p].point)
          BY <4>2, <5>2 DEF Whole
        <5>3. CASE ~Late(points', bjob[p].point)
          <6>1. ~Late(points, bjob[p].point)
            BY <1>0, <2>1, <5>3 DEF Survive
          <6>2. bjob[p].succ \/ bjob[p].smooth => Dbs \subseteq points[bjob[p].point] \cup bjob[p].todo
            BY <4>1, <6>1 DEF Whole
          <6>3. bjob[p].succ \/ bjob[p].smooth =>
                  Dbs \subseteq points'[bjob[p].point] \cup (bjob[p].todo \ {d})
            BY <5>1, <6>2
          <6> QED BY <4>2, <4>3, <5>1, <6>3 DEF Whole
        <5> QED BY <5>2, <5>3
      <4>4. CASE bjob[p].point \notin DOMAIN points /\ points' = points /\ ~bjob'[p].succ
        BY <4>1, <4>2, <4>4 DEF Whole
      <4>5. CASE ~bjob'[p].succ /\ ~bjob'[p].smooth
        BY <4>2, <4>5 DEF Whole
      <4> QED BY <3>8, <4>3, <4>4, <4>5, BecomesDump
    <3>9. ASSUME B!Clean(p) PROVE Whole(bjob'[p], points')
      <4>1. CASE Goes(p, "archive")
        <5>1. bjob[p].pc = "dump" /\ bjob[p].todo = {} /\ bjob[p].began < bjob[p].point
          BY <3>9 DEF B!Clean, B!At, InOrder, Ordered
        <5>2. SUFFICES ASSUME bjob[p].smooth PROVE Late(points', bjob[p].began)
          BY <4>1 DEF Goes, Whole
        <5>3. \/ bjob[p].point \in DOMAIN points' /\ Dbs \subseteq points'[bjob[p].point]
              \/ Late(points', bjob[p].point)
          BY <2>2, <5>1, <5>2 DEF Whole
        <5>4. CASE Late(points', bjob[p].point)
          <6>1. PICK u \in DOMAIN points' : u > bjob[p].point /\ points'[u] = Dbs
            BY <5>4 DEF Late
          <6>2. u \in Nat
            BY <3>9, TypedClean, TypedParts DEF Typed, DumpsOK, Dumps, B!Clean, B!Restrict
          <6>3. u > bjob[p].began
            BY <1>0, <5>1, <6>1, <6>2
          <6> QED BY <6>1, <6>3 DEF Late
        <5>5. CASE bjob[p].point \in DOMAIN points' /\ Dbs \subseteq points'[bjob[p].point]
          <6>1. points'[bjob[p].point] \subseteq Dbs
            <7>1. points' = points \/ points' = B!Restrict(points, DOMAIN points \ bjob[p].old)
              BY <3>9 DEF B!Clean
            <7>2. DOMAIN points \ bjob[p].old \subseteq DOMAIN points
              OBVIOUS
            <7>3. Dumps(points', clock)
              BY <1>0, <7>1, <7>2, DumpsRestricted
            <7> QED BY <5>5, <7>3 DEF Dumps
          <6>2. points'[bjob[p].point] = Dbs
            BY <5>5, <6>1
          <6> QED BY <5>1, <5>5, <6>2 DEF Late
        <5> QED BY <5>3, <5>4, <5>5
      <4> QED BY <2>4, <3>9, <4>1, Becomes, NoJobWhole
    <3>10. B!RsyncList(p) => Whole(bjob'[p], points')
      BY BecomesList, NoJobWhole DEF Whole
    <3>11. B!Secure(p) \/ B!SecureFile(p) \/ B!SecureSql(p) \/ B!Reset(p) \/ B!ResetSql(p) \/ B!ResetFile(p)
             \/ B!Restore(p) \/ B!Kill(p) => Whole(bjob'[p], points')
      BY <2>4, BecomesSet, NoJobWhole
    <3>12. B!ResetReboot(p) => Whole(bjob'[p], points')
      BY <1>0, CutWhole DEF B!ResetReboot
    <3> QED BY <1>3, <3>1, <3>2, <3>3, <3>4, <3>a, <3>5, <3>6, <3>7, <3>8, <3>9, <3>10, <3>11,
               <3>12 DEF B!Step
  <2> QED BY <2>3, <2>5
<1> QED BY <1>1, <1>2, <1>3

LEMMA KeptNext ==
  ASSUME Typed, InOrder, Calm, Kept, [B!Next]_(B!vars)
  PROVE  Kept'
<1>1. CASE UNCHANGED B!vars
  BY <1>1 DEF B!vars, Kept, B!Undisturbed, Whole
<1> SUFFICES ASSUME B!Next, B!Undisturbed'
             PROVE  \A q \in BCallers : Whole(bjob'[q], points')
  BY <1>1 DEF Kept
<1>2. B!Undisturbed
  BY DEF B!Next, B!Undisturbed
<1>3. Entered /\ Smooth /\ \A q \in BCallers : Whole(bjob[q], points)
  BY <1>2 DEF Calm, Kept
<1>0. JobsOK /\ clock \in Nat
  BY DEF Typed, StateOK
<1>4. B!DbDown => \A q \in BCallers : Whole(bjob'[q], points')
  <2>1. SUFFICES ASSUME B!DbDown, NEW q \in BCallers PROVE Whole(bjob'[q], points')
    OBVIOUS
  <2>2. bjob'[q] = B!Hindered(q) /\ points' = points
    BY <2>1 DEF B!DbDown
  <2>3. /\ bjob'[q].pc = bjob[q].pc /\ bjob'[q].point = bjob[q].point /\ bjob'[q].todo = bjob[q].todo
        /\ bjob'[q].succ = bjob[q].succ /\ (bjob'[q].smooth => bjob[q].cmd = "none")
    BY <1>0, <2>2, HinderedForm
  <2>4. bjob[q].pc \in {"dump", "archive", "read"} => ~bjob'[q].smooth
    BY <1>0, <2>3, PcOf
  <2> QED BY <1>3, <2>2, <2>3, <2>4 DEF Whole
<1>5. B!Stop => \A q \in BCallers : Whole(bjob'[q], points')
  BY <1>0, CutWhole DEF B!Stop
<1>6. B!DbUp \/ B!Start \/ B!ByHand \/ B!Record \/ B!BoundReached => bjob' = bjob /\ points' = points
  BY DEF B!DbUp, B!Start, B!ByHand, B!Record, B!BoundReached, B!inside
<1> QED BY <1>2, <1>3, <1>4, <1>5, <1>6, KeptStep DEF B!Next

-----------------------------------------------------------------------------
(* Complete dumps are dumps later than nothing.                            *)
LEMMA CompleteLate ==
  ASSUME NEW d, NEW c \in Nat, Dumps(d, c)
  PROVE  B!Complete(d) <=> Late(d, 0)
<1>1. \A u \in DOMAIN d : u > 0
  BY DEF Dumps
<1> QED BY <1>1 DEF B!Complete, B!Range, Late

LEMMA NothingComplete == ~B!Complete(B!Nothing)
  BY DEF B!Complete, B!Range, B!Nothing

(* Steps of no caller leave the dumps and the mirror alone.                *)
LEMMA ElseLeaves ==
  ASSUME B!DbDown \/ B!DbUp \/ B!Stop \/ B!Start \/ B!ByHand \/ B!Record \/ B!BoundReached
  PROVE  /\ UNCHANGED <<points, mirror>>
         /\ bve' = bve \/ bve' # "gone"
         /\ arch' = arch \/ (arch' = B!Nothing /\ from' = arch)
         /\ \/ bjob' = bjob
            \/ \A q \in BCallers : bjob'[q] = B!Hindered(q)
            \/ \A q \in BCallers : bjob'[q] = B!Cut(q)
BY DEF B!DbDown, B!DbUp, B!Stop, B!Start, B!ByHand, B!Record, B!BoundReached, B!inside, B!copies

(* A command that is just typed leaves all alone; any other step is one of *)
(* a command that runs.                                                    *)
LEMMA Acts ==
  ASSUME Typed, NEW p \in BCallers, B!Step(p)
  PROVE  \/ bjob[p].cmd # "none"
         \/ /\ UNCHANGED <<bve, points, arch, mirror>>
            /\ \E cmd \in B!Cmds, clean \in BOOLEAN, pw \in Passwords : B!Command(p, cmd, clean, pw)
<1>0. /\ JobsOK /\ (bjob[p].pc = "none" <=> bjob[p].cmd = "none")
  BY PcOf DEF Typed
<1>1. (\E cmd \in B!Cmds, clean \in BOOLEAN, pw \in Passwords : B!Command(p, cmd, clean, pw))
        => UNCHANGED <<bve, points, arch, mirror>>
  BY DEF B!Command, B!inside, B!copies
<1>2. B!Look(p) \/ B!Reach(p) \/ B!Check(p) \/ B!Old(p) \/ B!Mkdir(p) \/ B!Show(p) \/ B!Clean(p)
        \/ B!Archive(p) \/ B!ArchiveRead(p) \/ B!RsyncList(p) \/ B!RsyncCopy(p) \/ B!Secure(p)
        => bjob[p].pc # "none"
  BY DEF B!Look, B!Reach, B!Check, B!Old, B!Mkdir, B!Show, B!Clean, B!Archive, B!ArchiveRead,
     B!RsyncList, B!RsyncCopy, B!Secure, B!At
<1>3. B!SecureFile(p) \/ B!SecureSql(p) \/ B!Reset(p) \/ B!ResetSql(p) \/ B!ResetFile(p) \/ B!ResetReboot(p)
        \/ B!Remove(p) \/ B!Restore(p) \/ B!Unreached(p) \/ (\E d \in Dbs : B!Dump(p, d))
        => bjob[p].pc # "none"
  BY DEF B!SecureFile, B!SecureSql, B!Reset, B!ResetSql, B!ResetFile, B!ResetReboot, B!Remove,
     B!Restore,
     B!Unreached, B!Dump, B!At
<1>4. B!Kill(p) => bjob[p].cmd # "none"
  BY DEF B!Kill
<1> QED BY <1>0, <1>1, <1>2, <1>3, <1>4 DEF B!Step

(* What a step does to the container, to its archive and to its mirror.    *)
LEMMA CopiesStep ==
  ASSUME Typed, NEW p \in BCallers, B!Step(p)
  PROVE  /\ bve # "gone" => bve' = bve \/ B!Remove(p)
         /\ arch' = arch \/ B!ArchiveRead(p)
         /\ mirror' = mirror \/ B!RsyncList(p) \/ B!RsyncCopy(p)
         /\ B!ArchiveRead(p) => points' = points
<1>1. (\E cmd \in B!Cmds, clean \in BOOLEAN, pw \in Passwords : B!Command(p, cmd, clean, pw))
        => UNCHANGED <<bve, arch, mirror>>
  BY DEF B!Command, B!inside, B!copies
<1>2. B!Look(p) \/ B!Reach(p) \/ B!Unreached(p) \/ B!Check(p) \/ B!Old(p) \/ B!Show(p) \/ B!Secure(p)
        \/ B!Mkdir(p) \/ B!Clean(p) \/ (\E d \in Dbs : B!Dump(p, d)) => UNCHANGED <<bve, arch, mirror>>
  BY DEF B!Look, B!Reach, B!Unreached, B!Check, B!Old, B!Show, B!Secure, B!Mkdir, B!Clean,
     B!Dump, B!inside, B!copies
<1>3. B!SecureFile(p) \/ B!SecureSql(p) \/ B!Reset(p) \/ B!ResetSql(p) \/ B!ResetFile(p) \/ B!ResetReboot(p)
        \/ B!Kill(p) => UNCHANGED <<bve, arch, mirror>>
  BY DEF B!SecureFile, B!SecureSql, B!Reset, B!ResetSql, B!ResetFile, B!ResetReboot, B!Kill,
     B!inside, B!copies
<1>4. /\ B!Archive(p) => UNCHANGED <<bve, arch, mirror>>
      /\ B!ArchiveRead(p) => UNCHANGED <<bve, points, mirror>>
  BY DEF B!Archive, B!ArchiveRead, B!inside, B!copies
<1>5. B!RsyncList(p) \/ B!RsyncCopy(p) => UNCHANGED <<bve, arch>>
  BY DEF B!RsyncList, B!RsyncCopy, B!inside
<1>6. B!Remove(p) \/ B!Restore(p) => UNCHANGED <<arch, mirror>> /\ (B!Restore(p) /\ bve # "gone" => bve' = bve)
  BY DEF B!Remove, B!Restore, B!copies
<1> QED BY <1>1, <1>2, <1>3, <1>4, <1>5, <1>6 DEF B!Step

(* One that copies goes on copying what it listed, until it ends.          *)
LEMMA CopyStep ==
  ASSUME Typed, NEW p \in BCallers, B!Step(p), NEW q \in BCallers, bjob'[q].pc = "copy"
  PROVE  \/ q # p /\ bjob[q].pc = "copy" /\ bjob'[q].old = bjob[q].old
         \/ q = p /\ B!RsyncList(p) /\ bjob'[q].old = DOMAIN points /\ points' = points
<1>0. JobsOK /\ clock \in Nat
  BY DEF Typed, StateOK
<1>1. CASE q # p
  BY <1>0, <1>1, CmdStays, CutForm, NoJobForm
<1>2. CASE q = p
  <2>1. \A pc : Goes(p, pc) /\ pc # "copy" => bjob'[p].pc # "copy"
    BY DEF Goes
  <2>2. (\E cmd \in B!Cmds, clean \in BOOLEAN, pw \in Passwords : B!Command(p, cmd, clean, pw))
          => bjob'[p].pc # "copy"
    BY Begins
  <2>3. B!Look(p) \/ B!Reach(p) \/ B!Unreached(p) \/ B!Check(p) \/ B!Clean(p) \/ B!ArchiveRead(p)
          \/ B!RsyncCopy(p) => bjob'[p].pc # "copy"
    BY <2>1, Becomes, NoJobForm
  <2>4. B!Secure(p) \/ B!SecureFile(p) \/ B!SecureSql(p) \/ B!Reset(p) \/ B!ResetSql(p) \/ B!ResetFile(p)
          \/ B!Remove(p) \/ B!Restore(p) \/ B!Kill(p) => bjob'[p].pc # "copy"
    BY <2>1, BecomesSet, NoJobForm
  <2>5. B!Old(p) \/ B!Mkdir(p) \/ B!Show(p) \/ B!Archive(p) \/ (\E d \in Dbs : B!Dump(p, d))
          => bjob'[p].pc # "copy"
    BY BecomesOld, BecomesMkdir, BecomesShow, BecomesDump, BecomesArchive, NoJobForm
  <2>6. B!ResetReboot(p) => bjob'[p].pc # "copy"
    BY <1>0, CutForm DEF B!ResetReboot, B!At
  <2>7. B!RsyncList(p) => bjob'[p].old = DOMAIN points /\ points' = points
    BY <1>2, BecomesList, NoJobForm DEF B!RsyncList, B!inside
  <2> QED BY <1>2, <2>2, <2>3, <2>4, <2>5, <2>6, <2>7 DEF B!Step
<1> QED BY <1>1, <1>2

(* 7z goes on reading what it listed, in the same way.                     *)
LEMMA ReadStep ==
  ASSUME Typed, NEW p \in BCallers, B!Step(p), NEW q \in BCallers, bjob'[q].pc = "read"
  PROVE  \/ q # p /\ bjob[q].pc = "read" /\ bjob'[q].list = bjob[q].list
         \/ q = p /\ bjob'[q].list = points /\ points' = points
<1>0. JobsOK /\ clock \in Nat
  BY DEF Typed, StateOK
<1>1. CASE q # p
  BY <1>0, <1>1, CmdStays, CutForm, NoJobForm
<1>2. CASE q = p
  <2>1. \A pc : Goes(p, pc) /\ pc # "read" => bjob'[p].pc # "read"
    BY DEF Goes
  <2>2. (\E cmd \in B!Cmds, clean \in BOOLEAN, pw \in Passwords : B!Command(p, cmd, clean, pw))
          => bjob'[p].pc # "read"
    BY Begins
  <2>3. B!Look(p) \/ B!Reach(p) \/ B!Unreached(p) \/ B!Check(p) \/ B!Clean(p) \/ B!ArchiveRead(p)
          \/ B!RsyncCopy(p) => bjob'[p].pc # "read"
    BY <2>1, Becomes, NoJobForm
  <2>4. B!Secure(p) \/ B!SecureFile(p) \/ B!SecureSql(p) \/ B!Reset(p) \/ B!ResetSql(p) \/ B!ResetFile(p)
          \/ B!Remove(p) \/ B!Restore(p) \/ B!Kill(p) => bjob'[p].pc # "read"
    BY <2>1, BecomesSet, NoJobForm
  <2>5. B!Old(p) \/ B!Mkdir(p) \/ B!Show(p) \/ B!RsyncList(p) \/ (\E d \in Dbs : B!Dump(p, d))
          => bjob'[p].pc # "read"
    BY BecomesOld, BecomesMkdir, BecomesShow, BecomesDump, BecomesList, NoJobForm
  <2>6. B!ResetReboot(p) => bjob'[p].pc # "read"
    BY <1>0, CutForm DEF B!ResetReboot, B!At
  <2>7. B!Archive(p) => bjob'[p].list = points /\ points' = points
    BY <1>2, BecomesArchive, NoJobForm DEF B!Archive, B!inside
  <2> QED BY <1>2, <2>2, <2>3, <2>4, <2>5, <2>6, <2>7 DEF B!Step
<1> QED BY <1>1, <1>2

(* One command at a time: what was listed is there to be read.             *)
LEMMA ReadAll ==
  ASSUME Typed, NEW p \in BCallers, B!ArchiveRead(p), bjob[p].list = points
  PROVE  arch' = points
<1>1. points \in [DOMAIN points -> SUBSET Dbs]
  BY DEF Typed, DumpsOK, Dumps
<1>2. \A t \in DOMAIN points :
        points[t] \cap (B!Of(points, t) \cup B!Of(bjob[p].had, t)) = points[t]
  BY DEF B!Of
<1>3. arch' = [t \in DOMAIN points |-> points[t]]
  BY <1>2 DEF B!ArchiveRead
<1> QED BY <1>1, <1>3

(* Complete dumps stay in a container that stays.                          *)
LEMMA DumpStays ==
  ASSUME Typed, Typed', InOrder, Kept, [B!Next]_(B!vars), B!Undisturbed, B!Complete(points),
         bve # "gone", bve' # "gone"
  PROVE  B!Complete(points')
<1>0. Dumps(points, clock) /\ clock \in Nat /\ Dumps(points', clock') /\ clock' \in Nat
  BY DEF Typed, DumpsOK, StateOK
<1>1. CASE points' = points
  BY <1>1 DEF B!Complete, B!Range
<1>2. ASSUME NEW p \in BCallers, B!Step(p) PROVE B!Complete(points')
  <2>1. ~B!Remove(p)
    BY DEF B!Remove
  <2>2. Survive(points, points', clock)
    BY <1>2, <2>1, SurvivesStep DEF Kept
  <2>3. Late(points', 0)
    BY <1>0, <2>2, CompleteLate DEF Survive
  <2> QED BY <1>0, <2>3, CompleteLate
<1> QED BY <1>1, <1>2, ElseLeaves DEF B!Next, B!vars

LEMMA CopiedNext ==
  ASSUME Typed, Typed', Alone, InOrder, Kept, Copied, [B!Next]_(B!vars)
  PROVE  Copied'
<1> SUFFICES ASSUME benv'.together = 1, "remove" \notin benv'.cmds
             PROVE  /\ bve' # "gone"
                    /\ B!Complete(arch') => B!Complete(points')
                    /\ \A q \in BCallers : bjob'[q].pc = "copy" => bjob'[q].old = DOMAIN points'
                    /\ \A q \in BCallers : bjob'[q].pc = "read" => bjob'[q].list = points'
  BY DEF Copied, B!Complete, B!Range
<1>0. benv' = benv /\ benv.together = 1 /\ "remove" \notin benv.cmds /\ B!Undisturbed
  BY DEF B!Next, B!vars, B!Undisturbed
<1>1. /\ bve # "gone" /\ (B!Complete(arch) => B!Complete(points))
      /\ \A q \in BCallers : bjob[q].pc = "copy" => bjob[q].old = DOMAIN points
      /\ \A q \in BCallers : bjob[q].pc = "read" => bjob[q].list = points
  BY <1>0 DEF Copied
<1>2. \A p \in BCallers : ~B!Remove(p)
  <2>1. \A p \in BCallers : bjob[p].cmd # "remove"
    BY <1>0 DEF Typed, JobsOK
  <2> QED BY <2>1, PcOf DEF B!Remove, B!At, Typed
<1>j. JobsOK /\ clock \in Nat
  BY DEF Typed, StateOK
<1>3. CASE UNCHANGED B!vars
  BY <1>1, <1>3 DEF B!vars, B!Complete, B!Range
<1>4. ASSUME B!DbDown \/ B!DbUp \/ B!Stop \/ B!Start \/ B!ByHand \/ B!Record \/ B!BoundReached
      PROVE  /\ bve' # "gone"
             /\ B!Complete(arch') => B!Complete(points')
             /\ \A q \in BCallers : bjob'[q].pc = "copy" => bjob'[q].old = DOMAIN points'
             /\ \A q \in BCallers : bjob'[q].pc = "read" => bjob'[q].list = points'
  <2>1. /\ points' = points /\ (bve' = bve \/ bve' # "gone")
        /\ arch' = arch \/ arch' = B!Nothing
        /\ \/ bjob' = bjob
           \/ \A q \in BCallers : bjob'[q] = B!Hindered(q)
           \/ \A q \in BCallers : bjob'[q] = B!Cut(q)
    BY <1>4, ElseLeaves
  <2>2. \A q \in BCallers : bjob'[q].pc = "copy" => bjob[q].pc = "copy" /\ bjob'[q].old = bjob[q].old
    BY <1>j, <2>1, HinderedForm, CutForm
  <2>4. \A q \in BCallers : bjob'[q].pc = "read" => bjob[q].pc = "read" /\ bjob'[q].list = bjob[q].list
    BY <1>j, <2>1, HinderedForm, CutForm
  <2>3. B!Complete(arch') => B!Complete(arch)
    BY <2>1, NothingComplete DEF B!Complete, B!Range
  <2> QED BY <1>1, <2>1, <2>2, <2>3, <2>4 DEF B!Complete, B!Range
<1>5. ASSUME NEW p \in BCallers, B!Step(p)
      PROVE  /\ bve' # "gone"
             /\ B!Complete(arch') => B!Complete(points')
             /\ \A q \in BCallers : bjob'[q].pc = "copy" => bjob'[q].old = DOMAIN points'
             /\ \A q \in BCallers : bjob'[q].pc = "read" => bjob'[q].list = points'
  <2>1. bve' # "gone"
    BY <1>1, <1>2, <1>5, CopiesStep
  <2>2. B!Complete(points) => B!Complete(points')
    BY <1>0, <1>1, <2>1, DumpStays
  <2>3. B!Complete(arch') => B!Complete(points')
    <3>1. CASE arch' = arch
      BY <1>1, <2>2, <3>1 DEF B!Complete, B!Range
    <3>2. CASE B!ArchiveRead(p)
      <4>1. bjob[p].list = points /\ points' = points
        BY <1>1, <1>5, <3>2, CopiesStep DEF B!ArchiveRead, B!At
      <4> QED BY <3>2, <4>1, ReadAll
    <3> QED BY <1>5, <3>1, <3>2, CopiesStep
  <2>4. ASSUME NEW q \in BCallers, bjob'[q].pc = "copy" PROVE bjob'[q].old = DOMAIN points'
    <3>1. CASE q # p /\ bjob[q].pc = "copy" /\ bjob'[q].old = bjob[q].old
      <4>1. bjob[q].cmd # "none"
        BY <1>j, <3>1, PcOf
      <4>2. bjob[p].cmd = "none"
        BY <1>0, <3>1, <4>1 DEF Alone
      <4> QED BY <1>1, <1>5, <3>1, <4>2, Acts
    <3>2. CASE bjob'[q].old = DOMAIN points /\ points' = points
      BY <3>2
    <3> QED BY <1>5, <2>4, <3>1, <3>2, CopyStep
  <2>5. ASSUME NEW q \in BCallers, bjob'[q].pc = "read" PROVE bjob'[q].list = points'
    <3>1. CASE q # p /\ bjob[q].pc = "read" /\ bjob'[q].list = bjob[q].list
      <4>1. bjob[q].cmd # "none"
        BY <1>j, <3>1, PcOf
      <4>2. bjob[p].cmd = "none"
        BY <1>0, <3>1, <4>1 DEF Alone
      <4> QED BY <1>1, <1>5, <3>1, <4>2, Acts
    <3>2. CASE bjob'[q].list = points /\ points' = points
      BY <3>2
    <3> QED BY <1>5, <2>5, <3>1, <3>2, ReadStep
  <2> QED BY <2>1, <2>3, <2>4, <2>5
<1> QED BY <1>3, <1>4, <1>5 DEF B!Next

-----------------------------------------------------------------------------
(* One command at a time: the archive keeps complete dumps, and the mirror *)
(* has them after rsync.                                                   *)
LEMMA CopiesStay ==
  ASSUME Typed, Alone, Copied, [B!Next]_(B!vars), benv.together = 1, "remove" \notin benv.cmds
  PROVE  /\ B!Complete(arch) => B!Complete(arch') \/ (arch' = B!Nothing /\ from' = arch)
         /\ (\E p \in BCallers : B!Copying(p)) /\ mirror' # mirror
              /\ B!Complete(points) => B!Complete(mirror')
<1>1. /\ B!Complete(arch) => B!Complete(points)
      /\ \A q \in BCallers : bjob[q].pc = "copy" => bjob[q].old = DOMAIN points
      /\ \A q \in BCallers : bjob[q].pc = "read" => bjob[q].list = points
  BY DEF Copied
<1>2. CASE (arch' = arch \/ (arch' = B!Nothing /\ from' = arch)) /\ mirror' = mirror
  BY <1>2 DEF B!Complete, B!Range
<1>3. ASSUME NEW p \in BCallers, B!Step(p)
      PROVE  /\ B!Complete(arch) => B!Complete(arch')
             /\ (\E q \in BCallers : B!Copying(q)) /\ mirror' # mirror
                  /\ B!Complete(points) => B!Complete(mirror')
  <2>1. B!Complete(arch) => B!Complete(arch')
    <3>1. B!ArchiveRead(p) => arch' = points
      BY <1>1, ReadAll DEF B!ArchiveRead, B!At
    <3> QED BY <1>1, <1>3, <3>1, CopiesStep DEF B!Complete, B!Range
  <2>2. ASSUME NEW q \in BCallers, B!Copying(q), mirror' # mirror, B!Complete(points)
        PROVE  B!Complete(mirror')
    <3>1. bjob[q].pc = "copy" /\ bjob[q].cmd # "none"
      BY <2>2, PcOf DEF B!Copying, B!At, Typed
    <3>2. B!RsyncList(p) \/ B!RsyncCopy(p)
      BY <1>3, <2>2, CopiesStep
    <3>3. bjob[p].pc \in {"rsync", "copy"} /\ bjob[p].cmd # "none"
      BY <3>2, PcOf DEF B!RsyncList, B!RsyncCopy, B!At, Typed
    <3>4. p = q
      BY <3>1, <3>3 DEF Alone
    <3>5. B!RsyncCopy(p) /\ bjob[p].old \cap DOMAIN points = DOMAIN points
      BY <1>1, <3>1, <3>2, <3>4 DEF B!RsyncList, B!At
    <3>6. mirror' = [t \in DOMAIN mirror \cup DOMAIN points |->
                       IF t \in DOMAIN points THEN points[t] ELSE mirror[t]]
      BY <3>5 DEF B!RsyncCopy
    <3>7. DOMAIN points \subseteq DOMAIN mirror' /\ \A t \in DOMAIN points : mirror'[t] = points[t]
      BY <3>6
    <3> QED BY <2>2, <3>7 DEF B!Complete, B!Range
  <2> QED BY <2>1, <2>2
<1> QED BY <1>2, <1>3, ElseLeaves DEF B!Next, B!vars

(* What becomes of a job that is about to archive or to read: it is the    *)
(* one that goes on.                                                       *)
LEMMA ArchiveActs ==
  ASSUME Typed, [B!Next]_(B!vars), "kill" \notin benv.faults,
         NEW p \in BCallers, bjob[p].pc \in {"archive", "read"}, bjob'[p] = B!NoJob
  PROVE  B!Archive(p) \/ B!ArchiveRead(p)
<1>0. JobsOK /\ clock \in Nat /\ bjob[p].cmd = "backup"
  BY PcOf DEF Typed, StateOK
<1>1. bjob'[p].cmd # "backup"
  BY NoJobForm
<1>2. ~(UNCHANGED B!vars)
  BY <1>0, <1>1 DEF B!vars
<1>3. ~(B!DbDown \/ B!DbUp \/ B!Stop \/ B!Start \/ B!ByHand \/ B!Record \/ B!BoundReached)
  BY <1>0, <1>1, ElseLeaves, HinderedForm, CutForm
<1>4. PICK q \in BCallers : B!Step(q)
  BY <1>2, <1>3 DEF B!Next
<1>5. q = p
  <2>1. B!Cut(p).cmd = "backup"
    BY <1>0, CutForm
  <2> QED BY <1>0, <1>1, <1>4, <2>1, CmdStays
<1>6. \A cmd, clean, pw : ~B!Command(p, cmd, clean, pw)
  BY <1>0 DEF B!Command
<1>7. ~(B!Look(p) \/ B!Reach(p) \/ B!Unreached(p) \/ B!Check(p) \/ B!Old(p) \/ B!Mkdir(p) \/ B!Show(p)
          \/ B!Clean(p) \/ B!RsyncList(p) \/ B!RsyncCopy(p) \/ B!Secure(p)
          \/ \E d \in Dbs : B!Dump(p, d))
  BY <1>0 DEF B!Look, B!Reach, B!Unreached, B!Check, B!Old, B!Mkdir, B!Show, B!Clean,
     B!RsyncList, B!RsyncCopy, B!Secure, B!Dump, B!At
<1>8. ~(B!SecureFile(p) \/ B!SecureSql(p) \/ B!Reset(p) \/ B!ResetSql(p) \/ B!ResetFile(p)
          \/ B!ResetReboot(p) \/ B!Remove(p) \/ B!Restore(p) \/ B!Kill(p))
  BY <1>0 DEF B!SecureFile, B!SecureSql, B!Reset, B!ResetSql, B!ResetFile, B!ResetReboot,
     B!Remove, B!Restore, B!Kill, B!At
<1> QED BY <1>4, <1>5, <1>6, <1>7, <1>8 DEF B!Step

(* A backup ends with what it has dumped in the archive, if that is there  *)
(* until it is read.                                                       *)
LEMMA BackupEnds ==
  ASSUME Typed, Kept, [B!Next]_(B!vars), B!Undisturbed, "kill" \notin benv.faults,
         NEW p \in BCallers, bjob[p].pc \in {"archive", "read"}, bjob'[p] = B!NoJob,
         bjob[p].smooth, DOMAIN bjob[p].list \subseteq DOMAIN points
  PROVE  \E t \in DOMAIN arch' : t > bjob[p].began /\ arch'[t] = Dbs
<1>1. Whole(bjob[p], points)
  BY DEF Kept
<1>2. CASE B!Archive(p)
  <2>1. bjob[p].pc = "archive"
    BY <1>2 DEF B!Archive, B!At
  <2>2. DOMAIN points # {}
    BY <1>1, <2>1 DEF Whole, Late
  <2>3. bjob'[p].pc = "read"
    BY <1>2, <2>2, BecomesArchive
  <2> QED BY <2>3, NoJobForm
<1>3. CASE B!ArchiveRead(p)
  <2>1. bjob[p].pc = "read"
    BY <1>3 DEF B!ArchiveRead, B!At
  <2>2. Late(bjob[p].list, bjob[p].began) /\ Since(bjob[p].list, points)
    BY <1>1, <2>1 DEF Whole
  <2>3. PICK t \in DOMAIN bjob[p].list : t > bjob[p].began /\ bjob[p].list[t] = Dbs
    BY <2>2 DEF Late
  <2>4. t \in DOMAIN points /\ Dbs \subseteq B!Of(points, t)
    BY <2>2, <2>3 DEF Since, B!Of
  <2>5. t \in DOMAIN arch' /\ arch'[t] = Dbs \cap (B!Of(points, t) \cup B!Of(bjob[p].had, t))
    BY <1>3, <2>3 DEF B!ArchiveRead
  <2>6. arch'[t] = Dbs
    BY <2>4, <2>5
  <2> QED BY <2>3, <2>5, <2>6
<1> QED BY <1>2, <1>3, ArchiveActs

(* The invariant: the types; one command at a time where only one may run; *)
(* newer dumps than those to be removed; a database that lets in whoever   *)
(* lists it; what each command has dumped so far; and what the copies hold.*)
LEMMA InvAlways ==
  ASSUME B!ConstantsOK
  PROVE  B!Spec => []Inv
<1>1. B!Init => Inv
  <2> SUFFICES ASSUME B!Init PROVE Inv
    OBVIOUS
  <2>1. \A p \in BCallers : bjob[p] = B!NoJob /\ B!NoJob.cmd = "none" /\ B!NoJob.pc = "none"
    BY NoJobForm DEF B!Init
  <2>2. Alone /\ InOrder
    BY <2>1 DEF Alone, InOrder, Ordered
  <2>3. Entered /\ Smooth /\ Settled /\ Filed
    BY <2>1 DEF B!Init, Entered, Smooth, Settled, Filed, B!Dumping
  <2>4. \A p \in BCallers : Whole(bjob[p], points)
    BY <2>1, NoJobWhole
  <2>5. Copied
    BY <2>1, NothingComplete DEF B!Init, Copied
  <2> QED BY <2>2, <2>3, <2>4, <2>5, TypedInit DEF Inv, Calm, Kept
<1>2. Inv /\ [B!Next]_(B!vars) => Inv'
  BY TypedNext, AloneNext, OrderNext, CalmNext, KeptNext, CopiedNext DEF Inv
<1> QED BY <1>1, <1>2, PTL DEF B!Spec

(* Types, and complete dumps: a container keeps such dumps while it        *)
(* exists, its archive and its mirror keep them too, for any databases,    *)
(* passwords and callers, and wherever commands are interrupted.           *)
THEOREM BackupsSafe ==
  ASSUME B!ConstantsOK
  PROVE  B!Spec => B!BackupsKept
<1>1. Inv => B!TypeOK
  BY TypedGives DEF Inv
<1>2. Inv /\ Inv' /\ [B!Next]_(B!vars) =>
        [B!Undisturbed /\ B!Complete(points) /\ bve # "gone" /\ bve' # "gone" => B!Complete(points')]_(B!vars)
  BY DumpStays DEF Inv
<1>3. Inv /\ [B!Next]_(B!vars) =>
        [benv.together = 1 /\ "remove" \notin benv.cmds =>
           /\ B!Complete(arch) => B!Complete(arch') \/ (arch' = B!Nothing /\ from' = arch)
           /\ (\E p \in BCallers : B!Copying(p)) /\ mirror' # mirror
                /\ B!Complete(points) => B!Complete(mirror')]_(B!vars)
  BY CopiesStay DEF Inv
<1>4. B!Spec => B!DumpKept
  BY <1>2, InvAlways, PTL DEF B!Spec, B!DumpKept
<1>5. B!Spec => B!CopiesKept
  BY <1>3, InvAlways, PTL DEF B!Spec, B!CopiesKept
<1> QED BY <1>1, <1>4, <1>5, InvAlways, PTL DEF B!BackupsKept

(* A backup that nothing stops or interrupts leaves in the archive dumps   *)
(* of all databases that are newer than its beginning, if what 7z lists is *)
(* there until it is read.                                                 *)
THEOREM BackupsDeliver ==
  ASSUME B!ConstantsOK
  PROVE  B!Spec => B!BackupDelivers
<1>1. Inv /\ [B!Next]_(B!vars) =>
        [\A p \in BCallers :
           B!Undisturbed /\ bjob[p].pc \in {"archive", "read"} /\ bjob'[p] = B!NoJob
             /\ bjob[p].smooth /\ "kill" \notin benv.faults
             /\ DOMAIN bjob[p].list \subseteq DOMAIN points =>
             \E t \in DOMAIN arch' : t > bjob[p].began /\ arch'[t] = Dbs]_(B!vars)
  BY BackupEnds DEF Inv
<1> QED BY <1>1, InvAlways, PTL DEF B!Spec, B!BackupDelivers
=============================================================================
