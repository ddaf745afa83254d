---------------------------- MODULE DynDnsProofs -----------------------------
(***************************************************************************)
(* Theorems about DynDns, for any hosts, keys, addresses and requests.     *)
(* Where a host has one request at a time and commands keep apart from     *)
(* requests, D.ip agrees with named, and the service is the register       *)
(* DynRecord; where commands keep apart, requests do only what they may.   *)
(***************************************************************************)
EXTENDS DynDns, TLAPS

(* The stages of a request: in the script from Writing on, and with files  *)
(* or records of its host that are being changed in Inner.                 *)
Writing == {"server", "delete", "add", "send", "nsupdate", "lock"}
Inner   == {"open", "fill", "ip", "compare"} \cup Writing
Stages  == {"idle", "auth"} \cup Inner

Contents == Addresses \cup {NoFile, Empty, Garbled}

Request == [pc : Stages, d : Hosts, key : Keys \cup {NoFile},
            from : Addresses \cup {NoFile}, IP : Contents]

(* TypeOK does not say what kind of function req and updt are, nor that    *)
(* only what may be published gets into a script.                          *)
Typed ==
  /\ env \in Envs
  /\ auth \in [Hosts -> Keys \cup {NoFile}]
  /\ ipfile \in [Hosts -> Contents]
  /\ lock \in [Hosts -> V4 \cup {NoFile, Garbled}]
  /\ updt \in [Hosts -> Seq(Line)]
  /\ zone \in [Hosts -> Records]
  /\ req \in [Reqs -> Request]
  /\ \A r \in Reqs : req[r].pc \in Writing => req[r].IP \in V4 \cup {Garbled}
  /\ admin \in [pc : {"idle", "zones", "restart"}, zones : [Hosts -> Records]]

-----------------------------------------------------------------------------
(* The hosts and the addresses of the circumstances.                       *)
LEMMA EnvType ==
  ASSUME env \in Envs
  PROVE  env.hosts \subseteq Hosts /\ env.from \subseteq Addresses
BY ConstantsAssumption DEF Env

(* A slot without a request, and no command: the initial values.           *)
LEMMA NoReqType == NoReq \in Request /\ NoReq.pc = "idle"
BY ConstantsAssumption DEF NoReq, Request, Stages, Contents

LEMMA NoAdminType ==
  NoAdmin \in [pc : {"idle", "zones", "restart"}, zones : [Hosts -> Records]]
BY DEF NoAdmin, Records

LEMMA LineType ==
  /\ [op |-> "delete"] \in Line /\ [op |-> "send"] \in Line
  /\ \A a \in V4 \cup {Garbled} : [op |-> "add", a |-> a] \in Line
BY DEF Line

(* What nsupdate leaves is made of what was there and what was added.      *)
LEMMA UpdatedType ==
  ASSUME NEW records \in Records, records # NoFile, NEW lines \in Seq(Line)
  PROVE  Updated(records, lines) \in Records
<1>1. records \subseteq V4 \cup {Primary, Garbled}
  BY DEF Records
<1>2. ASSUME NEW i \in 1 .. Len(lines), lines[i].op = "add"
      PROVE  lines[i].a \in V4 \cup {Garbled}
  <2>1. lines[i] \in Line
    OBVIOUS
  <2> QED BY <2>1, <1>2 DEF Line
<1>3. Updated(records, lines) \subseteq V4 \cup {Primary, Garbled}
  BY <1>1, <1>2 DEF Updated
<1> QED BY <1>3 DEF Records

(* regenerate_dns writes records that may be published.                    *)
LEMMA ZoneFileType ==
  ASSUME Typed, NEW d \in Hosts
  PROVE  ZoneFile(d) \in Records
BY DEF Typed, ZoneFile, Records

(* Every step keeps the types, one action after the other.                 *)
LEMMA TypedStep ==
  ASSUME Typed, [Next]_vars
  PROVE  Typed'
<1> USE DEF Typed
<1>1. CASE UNCHANGED vars
  BY <1>1 DEF vars
<1>2. CASE Next
  <2>env. env' = env /\ env' \in Envs
    BY <1>2 DEF Next
  <2> USE <2>env
  <2>r. /\ req \in [Reqs -> Request]
        /\ \A r \in Reqs : req[r].d \in Hosts /\ req[r] \in Request
    BY DEF Request
  <2>1. ASSUME NEW r \in Reqs, NEW d \in env.hosts, NEW k \in Keys, NEW a \in env.from,
               Post(r, d, k, a)
        PROVE  Typed'
    <3>1. d \in Hosts /\ a \in Addresses
      BY EnvType
    <3>2. [NoReq EXCEPT !.pc = "auth", !.d = d, !.key = k, !.from = a] \in Request
      BY <3>1, NoReqType DEF Request, Stages
    <3>3. "auth" \notin Writing
      BY DEF Writing
    <3> QED BY <2>1, <2>r, <3>2, <3>3, NoReqType DEF Post, Request
  <2>2. ASSUME NEW r \in Reqs, Finish(r), UNCHANGED <<auth, ipfile, updt, zone, admin>>,
               lock' \in [Hosts -> V4 \cup {NoFile, Garbled}]
        PROVE  Typed'
    <3>1. "idle" \notin Writing
      BY DEF Writing
    <3> QED BY <2>2, <2>r, <3>1, NoReqType DEF Finish
  <2>3. ASSUME NEW r \in Reqs, NEW to \in Stages, Goto(r, to),
               to \in Writing => req[r].IP \in V4 \cup {Garbled}
        PROVE  /\ req' \in [Reqs -> Request]
               /\ \A s \in Reqs : req'[s].pc \in Writing => req'[s].IP \in V4 \cup {Garbled}
    <3> DEFINE x == [req[r] EXCEPT !.pc = to]
    <3>1. x \in Request /\ x.pc = to /\ x.IP = req[r].IP
      BY <2>r DEF Request
    <3>2. req' = [req EXCEPT ![r] = x]
      BY <2>3 DEF Goto
    <3> HIDE DEF x
    <3> QED BY <2>3, <2>r, <3>1, <3>2
  <2>4. ASSUME NEW r \in Reqs, ServerStep(r)
        PROVE  Typed'
    <3>s. "open" \in Stages \ Writing /\ "fill" \in Stages \ Writing /\ "ip" \in Stages \ Writing
      BY DEF Stages, Inner, Writing
    <3>1. CASE Authorize(r)
      BY <3>1, <3>s, <2>2, <2>3 DEF Authorize
    <3>2. CASE OpenIp(r)
      <4>1. ipfile' \in [Hosts -> Contents]
        BY <3>2, <2>r DEF OpenIp, Contents
      <4> QED BY <3>2, <3>s, <4>1, <2>3 DEF OpenIp
    <3>3. CASE FillIp(r)
      <4>1. ipfile[req[r].d] \in Contents /\ req[r].from \in Contents
        BY <2>r DEF Request, Contents
      <4>2. ipfile' \in [Hosts -> Contents]
        <5> DEFINE new == CASE ipfile[req[r].d] = NoFile -> NoFile
                            [] ipfile[req[r].d] = Garbled -> Garbled
                            [] ipfile[req[r].d] \in Addresses ->
                                 IF Width[req[r].from] < Width[ipfile[req[r].d]] THEN Garbled
                                 ELSE req[r].from
                            [] OTHER -> req[r].from
        <5>1. ipfile' = [ipfile EXCEPT ![req[r].d] = new]
          BY <3>3 DEF FillIp
        <5>2. new \in Contents
          BY <4>1, ConstantsAssumption DEF Contents
        <5> HIDE DEF new
        <5> QED BY <5>1, <5>2
      <4>3. req' \in [Reqs -> Request] /\ UNCHANGED <<auth, lock, updt, zone, admin>>
        BY <3>3, <3>s, <2>3 DEF FillIp
      <4>4. \A s \in Reqs : req'[s].pc \in Writing => req'[s].IP \in V4 \cup {Garbled}
        BY <3>3, <3>s, <2>3 DEF FillIp
      <4> QED BY <4>2, <4>3, <4>4
    <3> QED BY <2>4, <3>1, <3>2, <3>3 DEF ServerStep
  <2>5. ASSUME NEW r \in Reqs, ScriptStep(r)
        PROVE  Typed'
    <3>s. Writing \subseteq Stages /\ "compare" \in Stages \ Writing
      BY DEF Stages, Inner, Writing
    <3>1. CASE ReadIp(r)
      <4> DEFINE x == [[req[r] EXCEPT !.IP = ipfile[req[r].d]] EXCEPT !.pc = "compare"]
      <4>1. ipfile[req[r].d] \in Contents
        BY <2>r
      <4>2. x \in Request /\ x.pc = "compare"
        BY <2>r, <3>s, <4>1 DEF Request
      <4>3. req' = [req EXCEPT ![r] = x] /\ UNCHANGED <<auth, ipfile, lock, updt, zone, admin>>
        BY <2>r, <3>1 DEF ReadIp
      <4> HIDE DEF x
      <4> QED BY <2>r, <3>s, <4>2, <4>3
    <3>2. CASE Compare(r)
      BY <3>2, <3>s, <2>2, <2>3 DEF Compare, Writing
    <3>3. CASE EchoServer(r)
      <4>1. req' \in [Reqs -> Request]
            /\ \A s \in Reqs : req'[s].pc \in Writing => req'[s].IP \in V4 \cup {Garbled}
        BY <3>3, <3>s, <2>3 DEF EchoServer, Writing
      <4>2. updt' \in [Hosts -> Seq(Line)]
        BY <3>3, <2>r DEF EchoServer
      <4> QED BY <3>3, <4>1, <4>2 DEF EchoServer
    <3>4. ASSUME NEW at \in Writing, NEW to \in Writing, NEW line \in Line,
                 Echo(r, at, line, to)
          PROVE  Typed'
      <4>1. req' \in [Reqs -> Request]
            /\ \A s \in Reqs : req'[s].pc \in Writing => req'[s].IP \in V4 \cup {Garbled}
        BY <3>4, <3>s, <2>3 DEF Echo
      <4>2. updt' \in [Hosts -> Seq(Line)]
        BY <3>4, <2>r DEF Echo
      <4> QED BY <3>4, <4>1, <4>2 DEF Echo
    <3>5. CASE EchoDelete(r)
      BY <3>5, <3>4, LineType DEF EchoDelete, Writing
    <3>6. CASE EchoAdd(r)
      <4>1. req[r].pc = "add" /\ req[r].IP \in V4 \cup {Garbled}
        BY <3>6 DEF EchoAdd, Echo, Writing
      <4> QED BY <3>6, <3>4, <4>1, LineType DEF EchoAdd, Writing
    <3>7. CASE EchoSend(r)
      BY <3>7, <3>4, LineType DEF EchoSend, Writing
    <3>8. CASE NsUpdate(r)
      <4>1. req' \in [Reqs -> Request]
            /\ \A s \in Reqs : req'[s].pc \in Writing => req'[s].IP \in V4 \cup {Garbled}
        BY <3>8, <3>s, <2>3 DEF NsUpdate, Writing
      <4>2. zone[req[r].d] # NoFile => Updated(zone[req[r].d], updt[req[r].d]) \in Records
        <5>1. zone[req[r].d] \in Records /\ updt[req[r].d] \in Seq(Line)
          BY <2>r
        <5> QED BY <5>1, UpdatedType
      <4>3. zone' \in [Hosts -> Records]
        BY <3>8, <2>r, <4>2 DEF NsUpdate
      <4> QED BY <3>8, <4>1, <4>3 DEF NsUpdate
    <3>9. CASE WriteLock(r)
      <4>1. req[r].IP \in V4 \cup {Garbled}
        BY <3>9 DEF WriteLock, Writing
      <4> QED BY <3>9, <4>1, <2>2, <2>r DEF WriteLock
    <3> QED BY <2>5, <3>1, <3>2, <3>3, <3>5, <3>6, <3>7, <3>8, <3>9 DEF ScriptStep
  <2>6. ASSUME StartRegenerate
        PROVE  admin' \in [pc : {"idle", "zones", "restart"}, zones : [Hosts -> Records]]
    BY <2>6 DEF StartRegenerate
  <2>7. ASSUME NEW d \in env.hosts, RemoveDyndns(d)
        PROVE  Typed'
    <3>1. auth' \in [Hosts -> Keys \cup {NoFile}] /\ ipfile' \in [Hosts -> Contents]
      BY <2>7 DEF RemoveDyndns, Contents
    <3>2. lock' \in [Hosts -> V4 \cup {NoFile, Garbled}]
      BY <2>7 DEF RemoveDyndns
    <3>3. updt' \in [Hosts -> Seq(Line)]
      <4>1. <<>> \in Seq(Line)
        OBVIOUS
      <4> QED BY <2>7, <4>1 DEF RemoveDyndns
    <3> QED BY <2>7, <2>6, <3>1, <3>2, <3>3 DEF RemoveDyndns
  <2>8. ASSUME NEW d \in env.hosts, NEW k \in Keys, AddDyndns(d, k)
        PROVE  Typed'
    BY <2>8, <2>6 DEF AddDyndns
  <2>9. CASE Regenerate
    BY <2>9, <2>6 DEF Regenerate
  <2>10. CASE CreateZones
    BY <2>10, ZoneFileType DEF CreateZones
  <2>11. CASE RestartNamed
    BY <2>11, NoAdminType DEF RestartNamed
  <2> QED BY <1>2, <2>1, <2>4, <2>5, <2>7, <2>8, <2>9, <2>10, <2>11 DEF Next, CommandStep
<1> QED BY <1>1, <1>2

LEMMA TypedInit == Init => Typed
<1> SUFFICES ASSUME Init PROVE Typed
  OBVIOUS
<1>1. req \in [Reqs -> Request] /\ \A r \in Reqs : req[r].pc = "idle"
  BY NoReqType DEF Init
<1>2. "idle" \notin Writing
  BY DEF Writing
<1> QED BY <1>1, <1>2, NoAdminType DEF Init, Typed, Contents, Records

LEMMA TypedAlways == Spec => []Typed
BY TypedInit, TypedStep, PTL DEF Spec

(* The files, the zones, the requests and the scripts keep their types     *)
(* whatever interleaves: what named is told is an IPv4 address or one that *)
(* two requests garbled (dyndns-update.sh).                                *)
THEOREM TypeCorrect == Spec => []TypeOK
<1>1. Typed => TypeOK
  BY DEF Typed, TypeOK, Request, Contents
<1> QED BY <1>1, TypedAlways, PTL

-----------------------------------------------------------------------------
(* Where commands keep apart, no command runs beside a request, and the    *)
(* key of a host stays the one the server compared.                        *)
KeyInv ==
  env.apart =>
    /\ admin.pc # "idle" => \A r \in Reqs : req[r].pc = "idle"
    /\ \A r \in Reqs : req[r].pc \in {"open", "fill"} => req[r].key = auth[req[r].d]

(* A command that keeps apart finds no request and no command.             *)
LEMMA CommandAlone ==
  ASSUME Typed, env.apart, CanCommand
  PROVE  admin.pc = "idle" /\ \A r \in Reqs : req[r].pc = "idle"
BY DEF CanCommand, Quiet, Busy, Typed, Request

(* Every step keeps that, since commands wait for the requests.            *)
LEMMA KeyStep ==
  ASSUME Typed, KeyInv, [Next]_vars
  PROVE  KeyInv'
<1> USE DEF KeyInv
<1>1. CASE UNCHANGED vars
  BY <1>1 DEF vars
<1>2. CASE Next
  <2>env. env' = env
    BY <1>2 DEF Next
  <2> SUFFICES ASSUME env.apart PROVE KeyInv'
    BY <2>env
  <2> USE <2>env
  <2>r. req \in [Reqs -> Request]
    BY DEF Typed
  <2>1. ASSUME NEW r \in Reqs, NEW d \in env.hosts, NEW k \in Keys, NEW a \in env.from,
               Post(r, d, k, a)
        PROVE  KeyInv'
    BY <2>1, <2>r, NoReqType DEF Post, Request
  <2>2. ASSUME NEW r \in Reqs, Finish(r), req[r].pc # "idle", UNCHANGED <<auth, admin>>
        PROVE  KeyInv'
    BY <2>2, <2>r, NoReqType DEF Finish
  <2>3. ASSUME NEW r \in Reqs, NEW to \in Stages, Goto(r, to), req[r].pc # "idle",
               UNCHANGED <<auth, admin>>,
               to \in {"open", "fill"} => req[r].key = auth[req[r].d]
        PROVE  KeyInv'
    BY <2>3, <2>r DEF Goto, Request
  <2>s. Writing \subseteq Stages /\ {"open", "fill", "ip", "compare"} \subseteq Stages
    BY DEF Stages, Inner
  <2>4. ASSUME NEW r \in Reqs, ServerStep(r)
        PROVE  KeyInv'
    <3>1. CASE Authorize(r)
      BY <3>1, <2>s, <2>2, <2>3 DEF Authorize
    <3>2. CASE OpenIp(r)
      BY <3>2, <2>s, <2>3 DEF OpenIp
    <3>3. CASE FillIp(r)
      <4>1. Goto(r, "ip") /\ req[r].pc = "fill" /\ UNCHANGED <<auth, admin>>
        BY <3>3 DEF FillIp
      <4> QED BY <4>1, <2>s, <2>3
    <3> QED BY <2>4, <3>1, <3>2, <3>3 DEF ServerStep
  <2>5. ASSUME NEW r \in Reqs, ScriptStep(r)
        PROVE  KeyInv'
    <3>1. CASE ReadIp(r)
      BY <3>1, <2>r DEF ReadIp, Request
    <3>2. CASE Compare(r)
      BY <3>2, <2>s, <2>2, <2>3 DEF Compare, Writing
    <3>3. CASE EchoServer(r)
      BY <3>3, <2>s, <2>3 DEF EchoServer, Writing
    <3>4. CASE EchoDelete(r) \/ EchoAdd(r) \/ EchoSend(r)
      BY <3>4, <2>s, <2>3 DEF EchoDelete, EchoAdd, EchoSend, Echo, Writing
    <3>5. CASE NsUpdate(r)
      BY <3>5, <2>s, <2>3 DEF NsUpdate, Writing
    <3>6. CASE WriteLock(r)
      BY <3>6, <2>2 DEF WriteLock
    <3> QED BY <2>5, <3>1, <3>2, <3>3, <3>4, <3>5, <3>6 DEF ScriptStep
  <2>6. ASSUME CanCommand, UNCHANGED req
        PROVE  KeyInv'
    BY <2>6, CommandAlone
  <2>7. CASE CommandStep
    BY <2>7 DEF CommandStep, CreateZones, RestartNamed, NoAdmin
  <2> QED
    BY <1>2, <2>1, <2>4, <2>5, <2>6, <2>7
    DEF Next, RemoveDyndns, AddDyndns, Regenerate
<1> QED BY <1>1, <1>2

LEMMA KeyAlways == Spec => []KeyInv
<1>1. Init => KeyInv
  BY NoReqType DEF Init, KeyInv, NoAdmin
<1> QED BY <1>1, KeyStep, TypedAlways, PTL DEF Spec

(* An address changes only with the key of its host.                       *)
LEMMA OnlyByKeyStep ==
  ASSUME Typed, KeyInv, env.apart, [Next]_vars
  PROVE  \A d \in Hosts :
           ipfile'[d] \in Addresses /\ ipfile'[d] # ipfile[d]
             => \E r \in Reqs : /\ req[r].pc = "fill" /\ req[r].d = d
                               /\ req[r].key = auth[d]
                               /\ req[r].from = ipfile'[d]
<1> SUFFICES ASSUME NEW d \in Hosts, ipfile'[d] \in Addresses, ipfile'[d] # ipfile[d]
             PROVE  \E r \in Reqs : /\ req[r].pc = "fill" /\ req[r].d = d
                                   /\ req[r].key = auth[d]
                                   /\ req[r].from = ipfile'[d]
  OBVIOUS
<1>1. NoFile \notin Addresses /\ Empty \notin Addresses /\ Garbled \notin Addresses
  BY ConstantsAssumption
<1>2. PICK r \in Reqs : FillIp(r)
  <2>1. ASSUME NEW r \in Reqs, OpenIp(r)
        PROVE  FALSE
    BY <2>1, <1>1 DEF OpenIp, Typed
  <2>2. ASSUME NEW e \in Hosts, RemoveDyndns(e)
        PROVE  FALSE
    BY <2>2, <1>1 DEF RemoveDyndns, Typed
  <2> QED
    BY <2>1, <2>2, EnvType
    DEF Next, vars, Typed, Post, ServerStep, Authorize, ScriptStep, ReadIp, Compare, EchoServer,
        EchoDelete, EchoAdd, EchoSend, Echo, NsUpdate, WriteLock, AddDyndns, Regenerate,
        CommandStep, CreateZones, RestartNamed
<1>3. req[r].pc = "fill" /\ req[r].key = auth[req[r].d]
  BY <1>2 DEF FillIp, KeyInv
<1>4. req[r].d = d /\ req[r].from = ipfile'[d]
  <2> DEFINE old == ipfile[req[r].d]
             new == CASE old = NoFile -> NoFile
                      [] old = Garbled -> Garbled
                      [] old \in Addresses ->
                           IF Width[req[r].from] < Width[old] THEN Garbled ELSE req[r].from
                      [] OTHER -> req[r].from
  <2>1. ipfile' = [ipfile EXCEPT ![req[r].d] = new]
    BY <1>2 DEF FillIp
  <2>2. new \in {NoFile, Garbled, req[r].from}
    BY <1>1, ConstantsAssumption
  <2> HIDE DEF new
  <2>3. req[r].d = d /\ ipfile'[d] = new
    BY <2>1 DEF Typed
  <2> QED BY <2>2, <2>3, <1>1
<1> QED BY <1>3, <1>4

-----------------------------------------------------------------------------
(* The invariant of the service as a register: what the files, the zone    *)
(* and the script of a host hold at each stage of its request, and between *)
(* requests.                                                               *)
OneEach ==
  \A r, s \in Reqs :
    req[r].pc # "idle" /\ req[s].pc # "idle" /\ req[r].d = req[s].d => r = s

Delete == [op |-> "delete"]
Add(a) == [op |-> "add", a |-> a]
Send   == [op |-> "send"]

ScriptInv(r) ==
  /\ req[r].pc = "delete" => updt[req[r].d] = <<>>
  /\ req[r].pc = "add" => updt[req[r].d] = <<Delete>>
  /\ req[r].pc = "send" => updt[req[r].d] = <<Delete, Add(req[r].IP)>>
  /\ req[r].pc = "nsupdate" => updt[req[r].d] = <<Delete, Add(req[r].IP), Send>>

RequestInv(r) ==
  /\ req[r].pc # "idle" => req[r].from \in V4 /\ req[r].key \in Keys
  /\ req[r].pc \in Inner => auth[req[r].d] # NoFile /\ zone[req[r].d] # NoFile
  /\ req[r].pc = "fill" => ipfile[req[r].d] = Empty
  /\ req[r].pc \in {"ip", "compare"} \cup Writing => ipfile[req[r].d] \in V4
  /\ req[r].pc \in {"compare"} \cup Writing => req[r].IP = ipfile[req[r].d]
  /\ req[r].pc \in Inner \ {"lock"} /\ lock[req[r].d] \in V4
       => zone[req[r].d] = {lock[req[r].d]}
  /\ req[r].pc = "lock" => zone[req[r].d] = {req[r].IP}
  /\ ScriptInv(r)

Settled(d) ==
  /\ ipfile[d] \in V4 \cup {NoFile}
  /\ lock[d] = ipfile[d]
  /\ auth[d] = NoFile => ipfile[d] = NoFile
  /\ admin.pc = "idle" => zone[d] = ZoneFile(d)

HostInv(d) == (\A r \in Reqs : req[r].d = d => req[r].pc \notin Inner) => Settled(d)

(* While a command runs, a zone is as its file will be, or its host was    *)
(* removed, or is new.                                                     *)
CommandInv ==
  /\ admin.pc # "idle" => \A r \in Reqs : req[r].pc = "idle"
  /\ admin.pc = "restart" => admin.zones = [d \in Hosts |-> ZoneFile(d)]
  /\ admin.pc # "idle" =>
       \E e \in Hosts :
         /\ \A d \in Hosts : d # e => zone[d] = ZoneFile(d)
         /\ \/ zone[e] = ZoneFile(e) \/ auth[e] = NoFile
            \/ zone[e] = NoFile /\ ZoneFile(e) = {Primary}

RegisterInv ==
  AsRegister => /\ OneEach /\ CommandInv
                /\ \A r \in Reqs : RequestInv(r)
                /\ \A d \in Hosts : HostInv(d)

-----------------------------------------------------------------------------
(* What the script has named do: the old records go, the new one comes.    *)
LEMMA UpdatedScript ==
  ASSUME NEW records, NEW a
  PROVE  Updated(records, <<Delete, Add(a), Send>>) = {a}
<1> DEFINE lines == <<Delete, Add(a), Send>>
<1>1. /\ Len(lines) = 3 /\ lines[1] = Delete /\ lines[2] = Add(a) /\ lines[3] = Send
  OBVIOUS
<1>2. Delete.op = "delete" /\ Add(a).op = "add" /\ Add(a).a = a /\ Send.op = "send"
  BY DEF Delete, Add, Send
<1> HIDE DEF lines
<1>3. /\ {i \in 1 .. Len(lines) : lines[i].op = "delete"} = {1}
      /\ {i \in 1 .. Len(lines) : lines[i].op = "add"} = {2}
      /\ {i \in 1 .. Len(lines) : lines[i].op = "send"} = {3}
  BY <1>1, <1>2
<1>4. Updated(records, lines) = {a}
  BY <1>1, <1>2, <1>3 DEF Updated
<1> QED BY <1>4 DEF lines

(* A step of one request changes nothing of the other hosts and requests.  *)
LEMMA Local ==
  ASSUME Typed, RegisterInv, AsRegister, UNCHANGED <<env, admin>>,
         NEW p \in Reqs, NEW e \in Hosts, NEW x \in Request,
         req' = [req EXCEPT ![p] = x],
         req[p].pc # "idle" => req[p].d = e,
         x.pc # "idle" => x.d = e,
         \A s \in Reqs : s # p /\ req[s].pc # "idle" => req[s].d # e,
         admin.pc = "idle",
         \A d \in Hosts : d # e => /\ auth'[d] = auth[d] /\ ipfile'[d] = ipfile[d]
                                  /\ lock'[d] = lock[d] /\ updt'[d] = updt[d]
                                  /\ zone'[d] = zone[d],
         RequestInv(p)', HostInv(e)'
  PROVE  RegisterInv'
<1>1. AsRegister'
  BY DEF AsRegister, Dependable
<1>r. /\ req'[p] = x /\ \A s \in Reqs : s # p => req'[s] = req[s]
      /\ \A s \in Reqs : req[s].d \in Hosts
  BY DEF Typed, Request
<1>i. "idle" \notin Inner
  BY DEF Inner, Writing
<1>2. OneEach'
  BY <1>r DEF OneEach, RegisterInv
<1>3. CommandInv'
  BY DEF CommandInv
<1>4. ASSUME NEW s \in Reqs
      PROVE  RequestInv(s)'
  <2>1. CASE s = p
    BY <2>1
  <2>2. CASE s # p /\ req[s].pc = "idle"
    BY <2>2, <1>r, <1>i DEF RequestInv, ScriptInv, Writing
  <2>3. CASE s # p /\ req[s].pc # "idle"
    <3>1. req[s].d # e /\ RequestInv(s)
      BY <2>3 DEF RegisterInv
    <3> QED BY <2>3, <3>1, <1>r DEF RequestInv, ScriptInv
  <2> QED BY <2>1, <2>2, <2>3
<1>5. ASSUME NEW d \in Hosts
      PROVE  HostInv(d)'
  <2>1. CASE d = e
    BY <2>1
  <2>2. CASE d # e
    <3>1. HostInv(d)
      BY DEF RegisterInv
    <3>2. (\A r \in Reqs : req'[r].d = d => req'[r].pc \notin Inner)
            => \A r \in Reqs : req[r].d = d => req[r].pc \notin Inner
      BY <2>2, <1>r, <1>i
    <3>3. ZoneFile(d)' = ZoneFile(d)
      BY <2>2 DEF ZoneFile
    <3> QED BY <2>2, <3>1, <3>2, <3>3 DEF HostInv, Settled
  <2> QED BY <2>1, <2>2
<1> QED BY <1>1, <1>2, <1>3, <1>4, <1>5 DEF RegisterInv

(* The steps of one request, one after the other.                          *)
LEMMA RequestStep ==
  ASSUME Typed, Typed', RegisterInv, KeyInv, AsRegister, UNCHANGED env,
         NEW p \in Reqs, ServerStep(p) \/ ScriptStep(p)
  PROVE  RegisterInv'
<1>e. PICK e \in Hosts : e = req[p].d
  BY DEF Typed, Request
<1>r. /\ e = req[p].d /\ req \in [Reqs -> Request] /\ req[p] \in Request /\ e \in Hosts
      /\ auth \in [Hosts -> Keys \cup {NoFile}] /\ ipfile \in [Hosts -> Contents]
      /\ lock \in [Hosts -> V4 \cup {NoFile, Garbled}] /\ zone \in [Hosts -> Records]
      /\ updt \in [Hosts -> Seq(Line)]
  BY <1>e DEF Typed, Request
<1>inv. RequestInv(p) /\ HostInv(e) /\ OneEach /\ CommandInv
  BY <1>r DEF RegisterInv
<1>busy. req[p].pc # "idle" /\ UNCHANGED admin
  BY DEF ServerStep, Authorize, OpenIp, FillIp, ScriptStep, ReadIp, Compare, EchoServer,
         EchoDelete, EchoAdd, EchoSend, Echo, NsUpdate, WriteLock
<1>idle. admin.pc = "idle" /\ env.apart /\ ~env.fail
  BY <1>inv, <1>busy DEF CommandInv, AsRegister, Dependable
<1>one. \A s \in Reqs : s # p /\ req[s].pc # "idle" => req[s].d # e
  BY <1>r, <1>inv, <1>busy DEF OneEach
<1>in. ASSUME req[p].pc \in Inner
       PROVE  /\ \A s \in Reqs : req[s].d = e => s = p \/ req[s].pc = "idle"
              /\ auth[e] # NoFile /\ zone[e] # NoFile
  BY <1>in, <1>r, <1>inv, <1>one DEF RequestInv
<1>out. ASSUME req[p].pc = "auth"
        PROVE  Settled(e)
  <2>1. "auth" \notin Inner /\ "idle" \notin Inner
    BY DEF Inner, Writing
  <2> QED BY <1>out, <2>1, <1>inv, <1>one DEF HostInv
<1>c. /\ NoFile \notin V4 /\ Empty \notin V4 /\ Garbled \notin V4 /\ NoFile \notin Keys
      /\ V4 \subseteq Addresses
  BY ConstantsAssumption DEF Addresses
<1>key. req[p].key \in Keys /\ req[p].from \in V4
  BY <1>inv, <1>busy DEF RequestInv
(* A step to stage to leaves the host with a request under way ...         *)
<1>goto. ASSUME NEW to \in Inner, Goto(p, to), RequestInv(p)',
                \A d \in Hosts : d # e => /\ auth'[d] = auth[d] /\ ipfile'[d] = ipfile[d]
                                         /\ lock'[d] = lock[d] /\ updt'[d] = updt[d]
                                         /\ zone'[d] = zone[d]
         PROVE  RegisterInv'
  <2> DEFINE x == [req[p] EXCEPT !.pc = to]
  <2>1. /\ req' = [req EXCEPT ![p] = x] /\ x.d = e /\ x.pc = to /\ x \in Request
    BY <1>goto, <1>r DEF Goto, Request, Stages
  <2>2. HostInv(e)'
    BY <2>1, <1>r DEF HostInv
  <2> HIDE DEF x
  <2> QED BY <1>goto, <2>1, <2>2, <1>r, <1>busy, <1>idle, <1>one, Local
(* ... and its last step leaves the host settled.                          *)
<1>finish. ASSUME Finish(p), Settled(e)',
                  \A d \in Hosts : d # e => /\ auth'[d] = auth[d] /\ ipfile'[d] = ipfile[d]
                                           /\ lock'[d] = lock[d] /\ updt'[d] = updt[d]
                                           /\ zone'[d] = zone[d]
           PROVE  RegisterInv'
  <2>1. req' = [req EXCEPT ![p] = NoReq] /\ NoReq.pc = "idle" /\ NoReq \in Request
    BY <1>finish, NoReqType DEF Finish
  <2>2. RequestInv(p)'
    BY <2>1, <1>r DEF RequestInv, ScriptInv, Inner, Writing
  <2>3. HostInv(e)'
    BY <1>finish DEF HostInv
  <2> QED BY <1>finish, <2>1, <2>2, <2>3, <1>r, <1>busy, <1>idle, <1>one, Local
<1>to. ASSUME NEW to \in Inner, Goto(p, to)
       PROVE  /\ req'[p].pc = to /\ req'[p].d = e /\ req'[p].IP = req[p].IP
              /\ req'[p].from = req[p].from /\ req'[p].key = req[p].key
  BY <1>to, <1>r DEF Goto, Request
<1>s. {"open", "fill", "ip", "compare"} \subseteq Inner /\ Writing \subseteq Inner
  BY DEF Inner
<1>1. CASE Authorize(p)
  <2>1. Settled(e) /\ req[p].pc = "auth" /\ UNCHANGED <<auth, ipfile, lock, updt, zone>>
    BY <1>1, <1>out DEF Authorize
  <2>2. CASE auth[req[p].d] = req[p].key
    <3>1. Goto(p, "open")
      BY <1>1, <2>2 DEF Authorize
    <3>2. auth[e] # NoFile /\ zone[e] = ZoneFile(e) /\ req[p].from \in V4
      BY <2>1, <2>2, <1>r, <1>c, <1>idle, <1>key DEF Settled
    <3>3. zone[e] # NoFile /\ (lock[e] \in V4 => zone[e] = {lock[e]})
      BY <2>1, <3>2, ConstantsAssumption DEF Settled, ZoneFile
    <3>4. /\ req'[p].pc = "open" /\ req'[p].d = e /\ req'[p].from \in V4
          /\ req'[p].key \in Keys
      BY <3>1, <1>s, <1>to, <1>key
    <3>5. RequestInv(p)'
      BY <2>1, <3>2, <3>3, <3>4 DEF RequestInv, ScriptInv, Writing
    <3> QED BY <2>1, <3>1, <3>5, <1>s, <1>goto
  <2>3. CASE auth[req[p].d] # req[p].key
    <3>1. Settled(e)'
      BY <2>1, <1>busy DEF Settled, ZoneFile
    <3> QED BY <1>1, <2>1, <2>3, <3>1, <1>finish DEF Authorize
  <2> QED BY <2>2, <2>3
<1>2. CASE OpenIp(p)
  <2>1. /\ req[p].pc = "open" /\ Goto(p, "fill") /\ UNCHANGED <<auth, lock, updt, zone>>
        /\ ipfile' = [ipfile EXCEPT ![e] = Empty]
    BY <1>2, <1>r DEF OpenIp
  <2>2. RequestInv(p)'
    BY <2>1, <1>r, <1>s, <1>to, <1>inv DEF RequestInv, ScriptInv, Writing
  <2> QED BY <2>1, <2>2, <1>r, <1>s, <1>goto
<1>3. CASE FillIp(p)
  <2>1. /\ req[p].pc = "fill" /\ Goto(p, "ip") /\ UNCHANGED <<auth, lock, updt, zone>>
        /\ ipfile[e] = Empty /\ req[p].from \in V4
    BY <1>3, <1>r, <1>inv DEF FillIp, RequestInv
  <2>2. ipfile' = [ipfile EXCEPT ![e] = req[p].from]
    BY <1>3, <2>1, <1>r, ConstantsAssumption DEF FillIp
  <2>3. RequestInv(p)'
    BY <2>1, <2>2, <1>r, <1>s, <1>to, <1>inv DEF RequestInv, ScriptInv, Writing
  <2> QED BY <2>1, <2>2, <2>3, <1>r, <1>s, <1>goto
<1>4. CASE ReadIp(p)
  <2> DEFINE x == [req[p] EXCEPT !.IP = ipfile[e], !.pc = "compare"]
  <2>1. /\ req[p].pc = "ip" /\ UNCHANGED <<auth, ipfile, lock, updt, zone>>
        /\ req' = [req EXCEPT ![p] = x]
    BY <1>4, <1>r DEF ReadIp
  <2>2. /\ x.pc = "compare" /\ x.d = e /\ x.IP = ipfile[e] /\ x.from = req[p].from
        /\ x.key = req[p].key /\ x \in Request
    BY <1>r, <1>s DEF Request, Stages
  <2> HIDE DEF x
  <2>3. req'[p] = x
    BY <2>1, <1>r
  <2>4. RequestInv(p)'
    BY <2>1, <2>2, <2>3, <1>r, <1>s, <1>inv DEF RequestInv, ScriptInv, Writing
  <2>5. HostInv(e)'
    BY <2>2, <2>3, <1>s DEF HostInv
  <2> QED BY <2>1, <2>2, <2>4, <2>5, <1>r, <1>busy, <1>idle, <1>one, Local
<1>5. CASE Compare(p)
  <2>1. /\ req[p].pc = "compare" /\ UNCHANGED <<auth, ipfile, lock, updt, zone>>
        /\ req[p].IP = ipfile[e] /\ ipfile[e] \in V4 /\ auth[e] # NoFile
        /\ lock[e] \in V4 => zone[e] = {lock[e]}
    BY <1>5, <1>r, <1>s, <1>inv DEF Compare, RequestInv, Writing
  <2>2. CASE lock[e] # req[p].IP
    <3>1. Goto(p, "server")
      BY <1>5, <2>1, <2>2, <1>r DEF Compare
    <3>2. RequestInv(p)'
      BY <2>1, <3>1, <1>r, <1>s, <1>to, <1>inv DEF RequestInv, ScriptInv, Writing
    <3>3. "server" \in Inner
      BY DEF Inner, Writing
    <3> QED BY <2>1, <3>1, <3>2, <3>3, <1>goto
  <2>3. CASE lock[e] = req[p].IP
    <3>1. Finish(p)
      BY <1>5, <2>1, <2>3, <1>r DEF Compare
    <3>2. zone[e] = ZoneFile(e)
      BY <2>1, <2>3 DEF ZoneFile
    <3>3. Settled(e)'
      BY <2>1, <2>3, <3>2, <1>busy DEF Settled, ZoneFile
    <3> QED BY <2>1, <3>1, <3>3, <1>finish
  <2> QED BY <2>2, <2>3
<1>6. CASE EchoServer(p)
  <2>1. /\ req[p].pc = "server" /\ Goto(p, "delete") /\ UNCHANGED <<auth, ipfile, lock, zone>>
        /\ updt' = [updt EXCEPT ![e] = <<>>]
    BY <1>6, <1>r DEF EchoServer
  <2>2. "delete" \in Inner
    BY DEF Inner, Writing
  <2>3. RequestInv(p)'
    BY <2>1, <2>2, <1>r, <1>s, <1>to, <1>inv DEF RequestInv, ScriptInv, Writing
  <2> QED BY <2>1, <2>2, <2>3, <1>r, <1>goto
<1>7. ASSUME NEW at \in {"delete", "add", "send"}, NEW line, NEW to \in {"add", "send", "nsupdate"},
             Echo(p, at, line, to),
             ScriptInv(p)'
      PROVE  RegisterInv'
  <2>1. /\ req[p].pc = at /\ Goto(p, to) /\ UNCHANGED <<auth, ipfile, lock, zone>>
        /\ \A d \in Hosts : d # e => updt'[d] = updt[d]
    BY <1>7, <1>r DEF Echo
  <2>2. at \in Inner /\ to \in Inner
    BY DEF Inner, Writing
  <2>3. RequestInv(p)'
    BY <1>7, <2>1, <2>2, <1>r, <1>to, <1>inv DEF RequestInv, Writing
  <2> QED BY <2>1, <2>2, <2>3, <1>goto
<1>8. ASSUME NEW at, NEW line, NEW to \in Inner, Echo(p, at, line, to)
      PROVE  /\ updt'[e] = Append(updt[e], line) /\ req'[p].pc = to /\ req'[p].d = e
             /\ req'[p].IP = req[p].IP /\ req[p].pc = at
  BY <1>8, <1>r, <1>to DEF Echo
<1>9. {"add", "send", "nsupdate"} \subseteq Inner
  BY DEF Inner, Writing
<1>10. CASE EchoDelete(p)
  <2>1. Echo(p, "delete", Delete, "add")
    BY <1>10 DEF EchoDelete, Delete
  <2>2. updt[e] = <<>>
    BY <2>1, <1>r, <1>inv DEF Echo, RequestInv, ScriptInv
  <2>3. updt'[e] = <<Delete>> /\ req'[p].pc = "add" /\ req'[p].d = e
    BY <2>1, <2>2, <1>8, <1>9
  <2>4. ScriptInv(p)'
    BY <2>3 DEF ScriptInv
  <2> QED BY <2>1, <2>4, <1>7
<1>11. CASE EchoAdd(p)
  <2>1. Echo(p, "add", Add(req[p].IP), "send")
    BY <1>11 DEF EchoAdd, Add
  <2>2. updt[e] = <<Delete>>
    BY <2>1, <1>r, <1>inv DEF Echo, RequestInv, ScriptInv
  <2>3. /\ updt'[e] = <<Delete, Add(req[p].IP)>> /\ req'[p].pc = "send" /\ req'[p].d = e
        /\ req'[p].IP = req[p].IP
    BY <2>1, <2>2, <1>8, <1>9
  <2>4. ScriptInv(p)'
    BY <2>3 DEF ScriptInv
  <2> QED BY <2>1, <2>4, <1>7
<1>12. CASE EchoSend(p)
  <2>1. Echo(p, "send", Send, "nsupdate")
    BY <1>12 DEF EchoSend, Send
  <2>2. updt[e] = <<Delete, Add(req[p].IP)>>
    BY <2>1, <1>r, <1>inv DEF Echo, RequestInv, ScriptInv
  <2>3. /\ updt'[e] = <<Delete, Add(req[p].IP), Send>> /\ req'[p].pc = "nsupdate"
        /\ req'[p].d = e /\ req'[p].IP = req[p].IP
    BY <2>1, <2>2, <1>8, <1>9
  <2>4. ScriptInv(p)'
    BY <2>3 DEF ScriptInv
  <2> QED BY <2>1, <2>4, <1>7
<1>13. CASE NsUpdate(p)
  <2>1. /\ req[p].pc = "nsupdate" /\ Goto(p, "lock") /\ UNCHANGED <<auth, ipfile, lock, updt>>
    BY <1>13 DEF NsUpdate
  <2>2. zone[e] # NoFile /\ updt[e] = <<Delete, Add(req[p].IP), Send>>
    BY <2>1, <1>r, <1>inv DEF RequestInv, ScriptInv, Inner, Writing
  <2>3. zone' = [zone EXCEPT ![e] = {req[p].IP}]
    <3>1. Updated(zone[e], updt[e]) = {req[p].IP}
      BY <2>2, UpdatedScript
    <3>2. zone' = [zone EXCEPT ![e] = Updated(zone[e], updt[e])]
      BY <1>13, <2>2, <1>r, <1>idle DEF NsUpdate
    <3> QED BY <3>1, <3>2
  <2>4. req[p].IP \in V4 /\ req[p].IP = ipfile[e]
    BY <2>1, <1>r, <1>inv DEF RequestInv, Writing
  <2>5. {req[p].IP} # NoFile
    BY <2>4, ConstantsAssumption
  <2>6. "lock" \in Inner
    BY DEF Inner, Writing
  <2>7. zone'[e] = {req[p].IP} /\ \A d \in Hosts : d # e => zone'[d] = zone[d]
    BY <2>3, <1>r
  <2>8. RequestInv(p)'
    BY <2>1, <2>4, <2>5, <2>6, <2>7, <1>r, <1>to, <1>inv DEF RequestInv, ScriptInv, Writing, Inner
  <2> QED BY <2>1, <2>6, <2>7, <2>8, <1>goto
<1>14. CASE WriteLock(p)
  <2>1. /\ req[p].pc = "lock" /\ Finish(p) /\ UNCHANGED <<auth, ipfile, updt, zone>>
        /\ lock' = [lock EXCEPT ![e] = req[p].IP]
    BY <1>14, <1>r DEF WriteLock
  <2>2. /\ req[p].IP = ipfile[e] /\ ipfile[e] \in V4 /\ zone[e] = {req[p].IP}
        /\ auth[e] # NoFile
    BY <2>1, <1>r, <1>inv DEF RequestInv, Inner, Writing
  <2>3. zone[e] = ZoneFile(e)
    BY <2>2 DEF ZoneFile
  <2>4. lock'[e] = ipfile[e] /\ \A d \in Hosts : d # e => lock'[d] = lock[d]
    BY <2>1, <2>2, <1>r
  <2>5. Settled(e)'
    BY <2>1, <2>2, <2>3, <2>4, <1>busy DEF Settled, ZoneFile
  <2> QED BY <2>1, <2>4, <2>5, <1>finish
<1> QED
  BY <1>1, <1>2, <1>3, <1>4, <1>5, <1>6, <1>10, <1>11, <1>12, <1>13, <1>14
  DEF ServerStep, ScriptStep

(* A new request finds its host settled.                                   *)
LEMMA PostStep ==
  ASSUME Typed, RegisterInv, AsRegister, UNCHANGED env,
         NEW p \in Reqs, NEW e \in env.hosts, NEW k \in Keys, NEW a \in env.from,
         Post(p, e, k, a)
  PROVE  RegisterInv'
<1> DEFINE x == [NoReq EXCEPT !.pc = "auth", !.d = e, !.key = k, !.from = a]
<1>1. e \in Hosts /\ a \in Addresses /\ a \in V4 /\ env.oneByOne /\ env.apart
  BY EnvType DEF Typed, AsRegister, Dependable
<1>2. /\ x.pc = "auth" /\ x.d = e /\ x.key = k /\ x.from = a /\ x \in Request
  BY <1>1, NoReqType DEF Request, Stages
<1>3. /\ req' = [req EXCEPT ![p] = x] /\ UNCHANGED <<auth, ipfile, lock, updt, zone, admin>>
      /\ admin.pc = "idle" /\ req[p].pc = "idle" /\ ~Busy(e)
  BY <1>1 DEF Post
<1> HIDE DEF x
<1>4. req'[p] = x /\ req' \in [Reqs -> Request] /\ \A s \in Reqs : s # p => req'[s] = req[s]
  BY <1>2, <1>3 DEF Typed
<1>5. RequestInv(p)'
  BY <1>1, <1>2, <1>4 DEF RequestInv, ScriptInv, Inner, Writing
<1>6. \A s \in Reqs : req[s].d = e => req[s].pc = "idle"
  BY <1>3 DEF Busy
<1>7. Settled(e)
  BY <1>1, <1>6 DEF RegisterInv, HostInv, Inner, Writing
<1>8. HostInv(e)'
  BY <1>3, <1>7 DEF HostInv, Settled, ZoneFile
<1> QED BY <1>1, <1>2, <1>3, <1>5, <1>6, <1>8, Local

(* A command runs when no request is under way.                            *)
LEMMA CommandsStep ==
  ASSUME Typed, RegisterInv, AsRegister, UNCHANGED <<env, req>>,
         \/ \E e \in Hosts : RemoveDyndns(e) \/ \E k \in Keys : AddDyndns(e, k)
         \/ Regenerate \/ CommandStep
  PROVE  RegisterInv'
<1>1. AsRegister' /\ env.apart
  BY DEF AsRegister, Dependable
<1>2. \A r \in Reqs : req[r].pc = "idle" /\ req'[r].pc = "idle"
  <2>1. CASE CommandStep
    BY <2>1 DEF RegisterInv, CommandInv, CommandStep, CreateZones, RestartNamed
  <2> QED BY <2>1, <1>1, CommandAlone DEF RemoveDyndns, AddDyndns, Regenerate
<1>3. \A d \in Hosts : Settled(d)
  BY <1>2 DEF RegisterInv, HostInv, Inner, Writing
<1>4. OneEach'
  BY <1>2 DEF OneEach
<1>5. ASSUME NEW r \in Reqs PROVE RequestInv(r)'
  BY <1>2 DEF RequestInv, ScriptInv, Inner, Writing
<1>6. SUFFICES CommandInv' /\ \A d \in Hosts : Settled(d)'
  BY <1>1, <1>4, <1>5 DEF RegisterInv, HostInv
<1>t. /\ auth \in [Hosts -> Keys \cup {NoFile}] /\ ipfile \in [Hosts -> Contents]
      /\ lock \in [Hosts -> V4 \cup {NoFile, Garbled}]
      /\ admin \in [pc : {"idle", "zones", "restart"}, zones : [Hosts -> Records]]
  BY DEF Typed
<1>7. ASSUME CanCommand, StartRegenerate, UNCHANGED zone
      PROVE  /\ admin'.pc = "zones"
             /\ \A d \in Hosts : zone[d] = ZoneFile(d)
  BY <1>1, <1>3, <1>7, <1>t, CommandAlone DEF StartRegenerate, Settled
<1>8. ASSUME NEW e \in Hosts, RemoveDyndns(e)
      PROVE  CommandInv' /\ \A d \in Hosts : Settled(d)'
  <2>1. /\ admin'.pc = "zones" /\ UNCHANGED zone /\ \A d \in Hosts : zone[d] = ZoneFile(d)
    BY <1>7, <1>8 DEF RemoveDyndns
  <2>2. /\ auth'[e] = NoFile /\ ipfile'[e] = NoFile /\ lock'[e] = NoFile
        /\ \A d \in Hosts : d # e => /\ auth'[d] = auth[d] /\ ipfile'[d] = ipfile[d]
                                    /\ lock'[d] = lock[d]
    BY <1>8, <1>t DEF RemoveDyndns
  <2>3. \A d \in Hosts : d # e => zone'[d] = ZoneFile(d)'
    BY <2>1, <2>2 DEF ZoneFile
  <2>4. CommandInv'
    BY <1>2, <2>1, <2>2, <2>3 DEF CommandInv
  <2>5. ASSUME NEW d \in Hosts PROVE Settled(d)'
    BY <1>3, <2>1, <2>2 DEF Settled
  <2> QED BY <2>4, <2>5
<1>9. ASSUME NEW e \in Hosts, NEW k \in Keys, AddDyndns(e, k)
      PROVE  CommandInv' /\ \A d \in Hosts : Settled(d)'
  <2>1. /\ admin'.pc = "zones" /\ UNCHANGED <<zone, ipfile, lock>>
        /\ \A d \in Hosts : zone[d] = ZoneFile(d)
        /\ auth[e] = NoFile /\ zone[e] = NoFile
    BY <1>7, <1>9 DEF AddDyndns
  <2>2. /\ auth'[e] # NoFile /\ \A d \in Hosts : d # e => auth'[d] = auth[d]
    BY <1>9, <1>t, ConstantsAssumption DEF AddDyndns
  <2>3. \A d \in Hosts : d # e => zone'[d] = ZoneFile(d)'
    BY <2>1, <2>2 DEF ZoneFile
  <2>4. ipfile[e] = NoFile
    BY <1>3, <2>1 DEF Settled
  <2>5. ZoneFile(e)' = {Primary}
    BY <2>1, <2>2, <2>4, ConstantsAssumption DEF ZoneFile, Addresses
  <2>6. CommandInv'
    BY <1>2, <2>1, <2>3, <2>5 DEF CommandInv
  <2>7. ASSUME NEW d \in Hosts PROVE Settled(d)'
    BY <1>3, <2>1, <2>2, <2>4 DEF Settled
  <2> QED BY <2>6, <2>7
<1>10. CASE Regenerate
  <2>1. /\ admin'.pc = "zones" /\ UNCHANGED <<auth, zone, ipfile, lock>>
        /\ \A d \in Hosts : zone[d] = ZoneFile(d)
    BY <1>7, <1>10 DEF Regenerate
  <2>2. \A d \in Hosts : zone'[d] = ZoneFile(d)'
    BY <2>1 DEF ZoneFile
  <2>3. CommandInv'
    BY <1>2, <2>1, <2>2, ConstantsAssumption DEF CommandInv
  <2> QED BY <1>3, <2>1, <2>3 DEF Settled
<1>11. CASE CreateZones
  <2>1. /\ admin.pc = "zones" /\ admin'.pc = "restart" /\ UNCHANGED <<auth, zone, ipfile, lock>>
        /\ admin'.zones = [d \in Hosts |-> ZoneFile(d)]
    BY <1>11 DEF CreateZones
  <2>2. \A d \in Hosts : ZoneFile(d)' = ZoneFile(d)
    BY <2>1 DEF ZoneFile
  <2>3. CommandInv'
    <3>1. admin'.zones = [d \in Hosts |-> ZoneFile(d)']
      BY <2>1, <2>2
    <3>2. PICK e \in Hosts :
            /\ \A d \in Hosts : d # e => zone[d] = ZoneFile(d)
            /\ \/ zone[e] = ZoneFile(e) \/ auth[e] = NoFile
               \/ zone[e] = NoFile /\ ZoneFile(e) = {Primary}
      BY <2>1 DEF RegisterInv, CommandInv
    <3> QED BY <1>2, <2>1, <2>2, <3>1, <3>2 DEF CommandInv
  <2> QED BY <1>3, <2>1, <2>3 DEF Settled
<1>12. CASE RestartNamed
  <2>1. /\ admin.pc = "restart" /\ admin'.pc = "idle" /\ UNCHANGED <<auth, ipfile, lock>>
        /\ zone' = admin.zones
    BY <1>12 DEF RestartNamed, NoAdmin
  <2>2. \A d \in Hosts : zone'[d] = ZoneFile(d)'
    BY <2>1 DEF RegisterInv, CommandInv, ZoneFile
  <2>3. CommandInv'
    BY <2>1 DEF CommandInv
  <2> QED BY <1>3, <2>1, <2>2, <2>3 DEF Settled
<1> QED BY <1>8, <1>9, <1>10, <1>11, <1>12 DEF CommandStep

(* Every step keeps the invariant of the register.                         *)
LEMMA RegisterStep ==
  ASSUME Typed, Typed', RegisterInv, KeyInv, [Next]_vars
  PROVE  RegisterInv'
<1>1. CASE UNCHANGED vars
  <2>1. UNCHANGED <<env, auth, ipfile, lock, updt, zone, req, admin>>
    BY <1>1 DEF vars
  <2>2. /\ (AsRegister' <=> AsRegister) /\ (OneEach' <=> OneEach)
        /\ \A d \in Hosts : ZoneFile(d)' = ZoneFile(d)
    BY <2>1 DEF AsRegister, Dependable, OneEach, ZoneFile
  <2>3. CommandInv => CommandInv'
    BY <2>1, <2>2 DEF CommandInv
  <2>4. ASSUME NEW r \in Reqs, RequestInv(r) PROVE RequestInv(r)'
    BY <2>1, <2>4 DEF RequestInv, ScriptInv
  <2>5. ASSUME NEW d \in Hosts, HostInv(d) PROVE HostInv(d)'
    BY <2>1, <2>2, <2>5 DEF HostInv, Settled
  <2> QED BY <2>2, <2>3, <2>4, <2>5 DEF RegisterInv
<1>2. CASE Next
  <2>1. env' = env /\ (AsRegister' <=> AsRegister) /\ env.hosts \subseteq Hosts
    BY <1>2, EnvType DEF Next, AsRegister, Dependable, Typed
  <2> SUFFICES ASSUME AsRegister PROVE RegisterInv'
    BY <2>1 DEF RegisterInv
  <2>2. ASSUME NEW r \in Reqs, NEW d \in env.hosts, NEW k \in Keys, NEW a \in env.from,
               Post(r, d, k, a)
        PROVE  RegisterInv'
    BY <2>1, <2>2, PostStep
  <2>3. ASSUME NEW r \in Reqs, ServerStep(r) \/ ScriptStep(r)
        PROVE  RegisterInv'
    BY <2>1, <2>3, RequestStep
  <2>4. ASSUME \/ \E e \in Hosts : RemoveDyndns(e) \/ \E k \in Keys : AddDyndns(e, k)
               \/ Regenerate \/ CommandStep
        PROVE  RegisterInv'
    <3>1. UNCHANGED req
      BY <2>4 DEF RemoveDyndns, AddDyndns, Regenerate, CommandStep, CreateZones, RestartNamed
    <3> QED BY <2>1, <2>4, <3>1, CommandsStep
  <2> QED BY <1>2, <2>1, <2>2, <2>3, <2>4 DEF Next
<1> QED BY <1>1, <1>2

LEMMA RegisterAlways == Spec => []RegisterInv
<1>1. Init => RegisterInv
  <2> SUFFICES ASSUME Init PROVE RegisterInv
    OBVIOUS
  <2>1. \A r \in Reqs : req[r].pc = "idle"
    BY NoReqType DEF Init
  <2>2. OneEach /\ CommandInv
    BY <2>1 DEF Init, OneEach, CommandInv, NoAdmin
  <2>3. ASSUME NEW r \in Reqs PROVE RequestInv(r)
    BY <2>1 DEF RequestInv, ScriptInv, Inner, Writing
  <2>4. ASSUME NEW d \in Hosts PROVE HostInv(d)
    BY DEF Init, HostInv, Settled, ZoneFile
  <2> QED BY <2>2, <2>3, <2>4 DEF RegisterInv
<1> QED BY <1>1, RegisterStep, TypedAlways, KeyAlways, PTL DEF Spec

-----------------------------------------------------------------------------
(* Where requests of a host and commands come one after the other, and     *)
(* clients have IPv4 addresses and named can be reached: once nothing is   *)
(* under way, named answers with the address in D.ip and with no other.    *)
THEOREM AgreementCorrect == Spec => [](env.oneByOne /\ env.apart => DynDnsInv)
<1>1. Typed /\ RegisterInv /\ env.oneByOne /\ env.apart => Agreement
  <2> SUFFICES ASSUME Typed, RegisterInv, env.oneByOne, env.apart, Dependable, Quiet,
                      NEW d \in Hosts, auth[d] # NoFile, ipfile[d] \in V4
               PROVE  zone[d] = {ipfile[d]}
    BY DEF Agreement
  <2>1. \A r \in Reqs : req[r].d = d => req[r].pc = "idle"
    BY DEF Quiet, Busy
  <2>2. Settled(d) /\ admin.pc = "idle"
    BY <2>1 DEF RegisterInv, AsRegister, HostInv, Quiet, Inner, Writing
  <2> QED BY <2>2 DEF Settled, ZoneFile
<1>2. TypeOK /\ Agreement => DynDnsInv
  BY DEF DynDnsInv
<1>3. Spec => []((env.oneByOne /\ env.apart) => Agreement)
  BY <1>1, TypedAlways, RegisterAlways, PTL
<1> QED BY <1>2, <1>3, TypeCorrect, PTL

(* A script says "Nothing to do." only when named answers the address.     *)
LEMMA NothingToDoStep ==
  ASSUME Typed, RegisterInv, env.apart, [Next]_vars
  PROVE  \A r \in Reqs, d \in Hosts :
           Dependable /\ env.oneByOne /\ req[r].pc = "compare" /\ req[r].d = d
             /\ req'[r].pc = "idle" /\ req[r].IP \in V4
             => zone[d] = {req[r].IP}
<1> SUFFICES ASSUME NEW r \in Reqs, Dependable, env.oneByOne, req[r].pc = "compare",
                    req'[r].pc = "idle", req[r].IP \in V4
             PROVE  zone[req[r].d] = {req[r].IP}
  OBVIOUS
<1>r. req \in [Reqs -> Request]
  BY DEF Typed
<1>1. RequestInv(r) /\ CommandInv
  BY DEF RegisterInv, AsRegister
<1>2. ASSUME NEW s \in Reqs, NEW x, req' = [req EXCEPT ![s] = x]
      PROVE  s = r
  BY <1>2, <1>r
<1>3. req' # req
  OBVIOUS
<1>4. Next /\ admin.pc = "idle"
  BY <1>1, <1>3 DEF vars, CommandInv
<1>5. PICK s \in Reqs : ServerStep(s) \/ ScriptStep(s)
  <2>1. ASSUME NEW s \in Reqs, NEW d \in env.hosts, NEW k \in Keys, NEW a \in env.from,
               Post(s, d, k, a)
        PROVE  FALSE
    BY <2>1, <1>2 DEF Post
  <2> QED
    BY <1>3, <1>4, <2>1
    DEF Next, RemoveDyndns, AddDyndns, Regenerate, CommandStep, CreateZones, RestartNamed
<1>6. s = r
  BY <1>2, <1>5
  DEF ServerStep, Authorize, OpenIp, FillIp, ScriptStep, ReadIp, Compare, EchoServer, EchoDelete,
      EchoAdd, EchoSend, Echo, NsUpdate, WriteLock, Goto, Finish
<1>7. Compare(r)
  BY <1>5, <1>6
  DEF ServerStep, Authorize, OpenIp, FillIp, ScriptStep, ReadIp, EchoServer, EchoDelete,
      EchoAdd, EchoSend, Echo, NsUpdate, WriteLock
<1>8. lock[req[r].d] = req[r].IP
  BY <1>7, <1>r DEF Compare, Goto, Request
<1> QED BY <1>1, <1>8 DEF RequestInv, Inner, Writing

(* Where commands keep apart from requests, requests do only what they     *)
(* may (processPost, dyndns-update.sh).                                    *)
THEOREM RequestsRightCorrect == Spec /\ [](env.apart) => RequestsRight
<1>1. Spec /\ [](env.apart) => NothingToDoIsTrue
  BY NothingToDoStep, TypedAlways, RegisterAlways, PTL DEF Spec, NothingToDoIsTrue
<1>2. Spec /\ [](env.apart) => OnlyByKey
  BY OnlyByKeyStep, TypedAlways, KeyAlways, PTL DEF Spec, OnlyByKey
<1> QED BY <1>1, <1>2 DEF RequestsRight

-----------------------------------------------------------------------------
(* The register that the service implements: what it holds for a host, and *)
(* what is being published for it.                                         *)
Doing == {"ip", "compare", "server", "delete", "add", "send", "nsupdate"}

ValueOf(d)  == IF AsRegister THEN zone[d] ELSE NoFile
WantedOf(d) == IF AsRegister /\ Underway(d) THEN ipfile[d] ELSE NoFile

(* What the register may do to one host is a step of it, or no step.       *)
LEMMA RegisterMove ==
  ASSUME NEW e \in Hosts,
         \A d \in Hosts : d # e => ValueOf(d)' = ValueOf(d) /\ WantedOf(d)' = WantedOf(d),
         \/ ValueOf(e)' = ValueOf(e) /\ WantedOf(e)' = WantedOf(e)
         \/ ValueOf(e) = NoFile /\ ValueOf(e)' = {Primary} /\ WantedOf(e)' = WantedOf(e)
         \/ WantedOf(e) = NoFile /\ ValueOf(e)' = NoFile /\ WantedOf(e)' = NoFile
         \/ /\ ValueOf(e) # NoFile /\ WantedOf(e) = NoFile
            /\ WantedOf(e)' \in V4 /\ ValueOf(e)' = ValueOf(e)
         \/ /\ WantedOf(e) # NoFile /\ ValueOf(e)' = {WantedOf(e)} /\ WantedOf(e)' = NoFile
  PROVE  [DR!Next]_(DR!rvars)
<1> DEFINE value  == [d \in Hosts |-> ValueOf(d)]
           wanted == [d \in Hosts |-> WantedOf(d)]
<1>1. /\ value' = [value EXCEPT ![e] = ValueOf(e)']
      /\ wanted' = [wanted EXCEPT ![e] = WantedOf(e)']
      /\ value[e] = ValueOf(e) /\ wanted[e] = WantedOf(e)
  OBVIOUS
<1>2. /\ value  = [d \in Hosts |-> IF AsRegister THEN zone[d] ELSE NoFile]
      /\ wanted = [d \in Hosts |-> IF AsRegister /\ Underway(d) THEN ipfile[d] ELSE NoFile]
      /\ value'  = [d \in Hosts |-> IF AsRegister THEN zone[d] ELSE NoFile]'
      /\ wanted' = [d \in Hosts |-> IF AsRegister /\ Underway(d) THEN ipfile[d]
                                    ELSE NoFile]'
  BY DEF ValueOf, WantedOf
<1>3. ASSUME ValueOf(e)' = ValueOf(e) PROVE value' = value
  BY <1>3
<1>4. ASSUME WantedOf(e)' = WantedOf(e) PROVE wanted' = wanted
  BY <1>4
<1> HIDE DEF value, wanted
<1>5. CASE ValueOf(e)' = ValueOf(e) /\ WantedOf(e)' = WantedOf(e)
  BY <1>2, <1>3, <1>4, <1>5 DEF DR!rvars
<1>6. CASE ValueOf(e) = NoFile /\ ValueOf(e)' = {Primary} /\ WantedOf(e)' = WantedOf(e)
  <2>1. DR!Create(e)
    BY <1>1, <1>2, <1>4, <1>6 DEF DR!Create
  <2> QED BY <2>1 DEF DR!Next
<1>7. CASE WantedOf(e) = NoFile /\ ValueOf(e)' = NoFile /\ WantedOf(e)' = NoFile
  <2>1. DR!Drop(e)
    BY <1>1, <1>2, <1>4, <1>7 DEF DR!Drop
  <2> QED BY <2>1 DEF DR!Next
<1>8. CASE /\ ValueOf(e) # NoFile /\ WantedOf(e) = NoFile
           /\ WantedOf(e)' \in V4 /\ ValueOf(e)' = ValueOf(e)
  <2>1. PICK a \in V4 : a = WantedOf(e)'
    BY <1>8
  <2>2. DR!Accept(e, a)
    BY <1>1, <1>2, <1>3, <1>8, <2>1 DEF DR!Accept
  <2> QED BY <2>2 DEF DR!Next
<1>9. CASE /\ WantedOf(e) # NoFile /\ ValueOf(e)' = {WantedOf(e)} /\ WantedOf(e)' = NoFile
  <2>1. DR!Decide(e)
    BY <1>1, <1>2, <1>9 DEF DR!Decide
  <2> QED BY <2>1 DEF DR!Next
<1> QED BY <1>5, <1>6, <1>7, <1>8, <1>9

(* A step of one request: what it publishes depends on its stage, and the  *)
(* other hosts keep what they have.                                        *)
LEMMA Elsewhere ==
  ASSUME Typed, AsRegister, UNCHANGED env,
         NEW p \in Reqs, NEW e \in Hosts, NEW x \in Request,
         req' = [req EXCEPT ![p] = x],
         req[p].pc # "idle" => req[p].d = e,
         x.pc # "idle" => x.d = e,
         \A s \in Reqs : s # p /\ req[s].pc # "idle" => req[s].d # e,
         \A d \in Hosts : d # e => ipfile'[d] = ipfile[d] /\ zone'[d] = zone[d]
  PROVE  /\ \A d \in Hosts : d # e => ValueOf(d)' = ValueOf(d) /\ WantedOf(d)' = WantedOf(d)
         /\ ValueOf(e) = zone[e] /\ ValueOf(e)' = zone'[e]
         /\ WantedOf(e) = IF req[p].pc \in Doing THEN ipfile[e] ELSE NoFile
         /\ WantedOf(e)' = IF x.pc \in Doing THEN ipfile'[e] ELSE NoFile
<1>1. AsRegister'
  BY DEF AsRegister, Dependable
<1>2. "idle" \notin Doing
  BY DEF Doing
<1>3. req'[p] = x /\ \A s \in Reqs : s # p => req'[s] = req[s]
  BY DEF Typed
<1>4. \A d \in Hosts : Underway(d) <=> \E r \in Reqs : req[r].d = d /\ req[r].pc \in Doing
  BY DEF Underway, Doing
<1>5. \A d \in Hosts : Underway(d)' <=> \E r \in Reqs : req'[r].d = d /\ req'[r].pc \in Doing
  BY DEF Underway, Doing
<1>6. /\ Underway(e) <=> req[p].pc \in Doing
      /\ Underway(e)' <=> x.pc \in Doing
  BY <1>2, <1>3, <1>4, <1>5
<1>7. \A d \in Hosts : d # e => (Underway(d)' <=> Underway(d))
  BY <1>2, <1>3, <1>4, <1>5
<1> QED BY <1>1, <1>6, <1>7 DEF ValueOf, WantedOf

(* A request is accepted with the write of D.ip, and decided by nsupdate,  *)
(* or when the script finds that there is nothing to do.                   *)
LEMMA RequestMove ==
  ASSUME Typed, RegisterInv, RegisterInv', AsRegister, UNCHANGED env,
         NEW p \in Reqs, ServerStep(p) \/ ScriptStep(p)
  PROVE  [DR!Next]_(DR!rvars)
<1>e. PICK e \in Hosts : e = req[p].d
  BY DEF Typed, Request
<1>r. /\ e = req[p].d /\ req \in [Reqs -> Request] /\ req[p] \in Request
      /\ ipfile \in [Hosts -> Contents] /\ zone \in [Hosts -> Records]
  BY <1>e DEF Typed
<1>inv. RequestInv(p) /\ OneEach /\ RequestInv(p)'
  BY DEF RegisterInv, AsRegister, Dependable
<1>busy. req[p].pc # "idle"
  BY DEF ServerStep, Authorize, OpenIp, FillIp, ScriptStep, ReadIp, Compare, EchoServer,
         EchoDelete, EchoAdd, EchoSend, Echo, NsUpdate, WriteLock
<1>one. \A s \in Reqs : s # p /\ req[s].pc # "idle" => req[s].d # e
  BY <1>r, <1>inv, <1>busy DEF OneEach
<1>c. NoFile \notin V4
  BY ConstantsAssumption DEF Addresses
(* The step leads to x and changes only what belongs to the host.          *)
<1>move. ASSUME NEW x \in Request, req' = [req EXCEPT ![p] = x], x.pc # "idle" => x.d = e,
                \A d \in Hosts : d # e => ipfile'[d] = ipfile[d] /\ zone'[d] = zone[d],
                \/ /\ zone'[e] = zone[e]
                   /\ \/ req[p].pc \notin Doing /\ x.pc \notin Doing
                      \/ req[p].pc \in Doing /\ x.pc \in Doing /\ ipfile'[e] = ipfile[e]
                \/ /\ req[p].pc \notin Doing /\ x.pc \in Doing /\ zone[e] # NoFile
                   /\ ipfile'[e] \in V4 /\ zone'[e] = zone[e]
                \/ /\ req[p].pc \in Doing /\ x.pc \notin Doing /\ ipfile[e] # NoFile
                   /\ zone'[e] = {ipfile[e]}
         PROVE  [DR!Next]_(DR!rvars)
  <2>1. /\ \A d \in Hosts : d # e => ValueOf(d)' = ValueOf(d) /\ WantedOf(d)' = WantedOf(d)
        /\ ValueOf(e) = zone[e] /\ ValueOf(e)' = zone'[e]
        /\ WantedOf(e) = IF req[p].pc \in Doing THEN ipfile[e] ELSE NoFile
        /\ WantedOf(e)' = IF x.pc \in Doing THEN ipfile'[e] ELSE NoFile
    BY <1>move, <1>r, <1>one, Elsewhere
  <2>2. \/ ValueOf(e)' = ValueOf(e) /\ WantedOf(e)' = WantedOf(e)
        \/ /\ ValueOf(e) # NoFile /\ WantedOf(e) = NoFile
           /\ WantedOf(e)' \in V4 /\ ValueOf(e)' = ValueOf(e)
        \/ /\ WantedOf(e) # NoFile /\ ValueOf(e)' = {WantedOf(e)} /\ WantedOf(e)' = NoFile
    BY <1>move, <2>1
  <2> QED BY <2>1, <2>2, RegisterMove
<1>goto. ASSUME NEW to \in Inner, Goto(p, to)
         PROVE  \E x \in Request : req' = [req EXCEPT ![p] = x] /\ x.d = e /\ x.pc = to
  <2>1. [req[p] EXCEPT !.pc = to] \in Request
    BY <1>r DEF Request, Stages
  <2> QED BY <1>goto, <2>1, <1>r DEF Goto, Request
<1>keep. ASSUME NEW to \in Inner, Goto(p, to), UNCHANGED <<ipfile, zone>>,
                req[p].pc \in Doing <=> to \in Doing
         PROVE  [DR!Next]_(DR!rvars)
  BY <1>keep, <1>goto, <1>move
<1>finish. ASSUME Finish(p), UNCHANGED ipfile,
                  \A d \in Hosts : d # e => zone'[d] = zone[d],
                  \/ req[p].pc \notin Doing /\ zone'[e] = zone[e]
                  \/ req[p].pc \in Doing /\ ipfile[e] # NoFile /\ zone'[e] = {ipfile[e]}
           PROVE  [DR!Next]_(DR!rvars)
  <2>1. NoReq \in Request /\ NoReq.pc = "idle" /\ NoReq.pc \notin Doing
    BY NoReqType DEF Doing
  <2> QED BY <1>finish, <2>1, <1>move DEF Finish
<1>s. {"open", "fill", "ip", "compare"} \subseteq Inner /\ Writing \subseteq Inner
  BY DEF Inner
<1>1. CASE Authorize(p)
  BY <1>1, <1>s, <1>keep, <1>finish DEF Authorize, Doing
<1>2. CASE OpenIp(p)
  <2>1. /\ req[p].pc \notin Doing /\ "fill" \notin Doing /\ Goto(p, "fill") /\ UNCHANGED zone
        /\ \A d \in Hosts : d # e => ipfile'[d] = ipfile[d]
    BY <1>2, <1>r DEF OpenIp, Doing
  <2> QED BY <2>1, <1>s, <1>goto, <1>move
<1>3. CASE FillIp(p)
  <2>1. /\ req[p].pc = "fill" /\ Goto(p, "ip") /\ UNCHANGED zone
        /\ \A d \in Hosts : d # e => ipfile'[d] = ipfile[d]
    BY <1>3, <1>r DEF FillIp
  <2>2. zone[e] # NoFile
    BY <2>1, <1>r, <1>s, <1>inv DEF RequestInv
  <2>3. PICK x \in Request : req' = [req EXCEPT ![p] = x] /\ x.d = e /\ x.pc = "ip"
    BY <2>1, <1>s, <1>goto
  <2>4. ipfile'[e] \in V4
    BY <2>3, <1>r, <1>inv DEF RequestInv
  <2>5. req[p].pc \notin Doing /\ x.pc \in Doing
    BY <2>1, <2>3 DEF Doing
  <2> QED BY <2>1, <2>2, <2>3, <2>4, <2>5, <1>move
<1>4. CASE ReadIp(p)
  <2> DEFINE x == [req[p] EXCEPT !.IP = ipfile[e], !.pc = "compare"]
  <2>1. /\ req[p].pc \in Doing /\ UNCHANGED <<ipfile, zone>>
        /\ req' = [req EXCEPT ![p] = x]
    BY <1>4, <1>r DEF ReadIp, Doing
  <2>2. x.pc \in Doing /\ x.d = e /\ x \in Request
    BY <1>r, <1>s DEF Request, Stages, Doing
  <2> HIDE DEF x
  <2> QED BY <2>1, <2>2, <1>move
<1>5. CASE Compare(p)
  <2>1. /\ req[p].pc = "compare" /\ UNCHANGED <<ipfile, zone>>
        /\ req[p].IP = ipfile[e] /\ ipfile[e] \in V4
        /\ lock[e] \in V4 => zone[e] = {lock[e]}
    BY <1>5, <1>r, <1>s, <1>inv DEF Compare, RequestInv, Writing
  <2>2. req[p].pc \in Doing /\ "server" \in Doing /\ "server" \in Inner
    BY <2>1 DEF Doing, Inner, Writing
  <2>3. CASE lock[e] # req[p].IP
    <3>1. Goto(p, "server")
      BY <1>5, <2>1, <2>3, <1>r DEF Compare
    <3> QED BY <2>1, <2>2, <3>1, <1>keep
  <2>4. CASE lock[e] = req[p].IP
    <3>1. Finish(p)
      BY <1>5, <2>1, <2>4, <1>r DEF Compare
    <3> QED BY <2>1, <2>2, <2>4, <3>1, <1>c, <1>finish
  <2> QED BY <2>3, <2>4
<1>6. CASE EchoServer(p) \/ EchoDelete(p) \/ EchoAdd(p) \/ EchoSend(p)
  <2>1. /\ req[p].pc \in Doing /\ UNCHANGED <<ipfile, zone>>
        /\ \/ Goto(p, "delete") \/ Goto(p, "add") \/ Goto(p, "send") \/ Goto(p, "nsupdate")
    BY <1>6 DEF EchoServer, EchoDelete, EchoAdd, EchoSend, Echo, Doing
  <2>2. {"delete", "add", "send", "nsupdate"} \subseteq Inner \cap Doing
    BY DEF Inner, Writing, Doing
  <2> QED BY <2>1, <2>2, <1>keep
<1>7. CASE NsUpdate(p)
  <2>1. /\ req[p].pc = "nsupdate" /\ Goto(p, "lock") /\ UNCHANGED ipfile
        /\ \A d \in Hosts : d # e => zone'[d] = zone[d]
    BY <1>7, <1>r DEF NsUpdate
  <2>2. "lock" \in Inner /\ "lock" \notin Doing /\ req[p].pc \in Doing
    BY <2>1 DEF Inner, Writing, Doing
  <2>3. req'[p].pc = "lock" /\ req'[p].d = e /\ req'[p].IP = req[p].IP
    BY <2>1, <1>r DEF Goto, Request
  <2>4. ipfile[e] \in V4 /\ req[p].IP = ipfile[e] /\ zone'[e] = {ipfile[e]}
    BY <2>1, <2>3, <1>r, <1>inv DEF RequestInv, Writing
  <2>5. PICK x \in Request : req' = [req EXCEPT ![p] = x] /\ x.d = e /\ x.pc = "lock"
    BY <2>1, <2>2, <1>goto
  <2> QED BY <2>1, <2>2, <2>4, <2>5, <1>c, <1>move
<1>8. CASE WriteLock(p)
  BY <1>8, <1>finish DEF WriteLock, Doing
<1> QED
  BY <1>1, <1>2, <1>3, <1>4, <1>5, <1>6, <1>7, <1>8 DEF ServerStep, ScriptStep

(* With no request under way, a step that leaves the zones alone is none   *)
(* of the register, and a restart of named makes or drops one host.        *)
LEMMA CommandMove ==
  ASSUME Typed, RegisterInv, AsRegister, UNCHANGED env,
         CommandStep \/ UNCHANGED <<zone, req>>, UNCHANGED ipfile
  PROVE  [DR!Next]_(DR!rvars)
<1>1. AsRegister' /\ CommandInv
  BY DEF AsRegister, Dependable, RegisterInv
<1>2. CASE UNCHANGED <<zone, req>>
  <2>1. /\ AsRegister' <=> AsRegister
        /\ \A d \in Hosts : Underway(d)' <=> Underway(d)
    BY <1>2, <1>1 DEF Underway
  <2>2. \A d \in Hosts : ValueOf(d)' = ValueOf(d) /\ WantedOf(d)' = WantedOf(d)
    BY <1>2, <2>1 DEF ValueOf, WantedOf
  <2>3. PICK e \in Hosts : TRUE
    BY ConstantsAssumption
  <2> QED BY <2>2, <2>3, RegisterMove
<1>3. CASE CreateZones
  BY <1>2, <1>3 DEF CreateZones
<1>4. CASE RestartNamed
  <2>1. /\ admin.pc = "restart" /\ zone' = admin.zones /\ UNCHANGED req
    BY <1>4 DEF RestartNamed
  <2>2. /\ \A r \in Reqs : req[r].pc = "idle" /\ req'[r].pc = "idle"
        /\ zone' = [d \in Hosts |-> ZoneFile(d)]
    BY <2>1, <1>1 DEF CommandInv
  <2>3. PICK e \in Hosts :
          /\ \A d \in Hosts : d # e => zone[d] = ZoneFile(d)
          /\ \/ zone[e] = ZoneFile(e) \/ auth[e] = NoFile
             \/ zone[e] = NoFile /\ ZoneFile(e) = {Primary}
    BY <2>1, <1>1 DEF CommandInv
  <2>4. \A d \in Hosts : ~Underway(d) /\ ~Underway(d)'
    BY <2>2 DEF Underway
  <2>5. \A d \in Hosts : /\ WantedOf(d) = NoFile /\ WantedOf(d)' = NoFile
                        /\ ValueOf(d) = zone[d] /\ ValueOf(d)' = ZoneFile(d)
    BY <1>1, <2>2, <2>4 DEF WantedOf, ValueOf
  <2>6. auth[e] = NoFile => ZoneFile(e) = NoFile
    BY DEF ZoneFile
  <2>7. \A d \in Hosts : d # e => ValueOf(d)' = ValueOf(d) /\ WantedOf(d)' = WantedOf(d)
    BY <2>3, <2>5
  <2>8. \/ ValueOf(e)' = ValueOf(e) /\ WantedOf(e)' = WantedOf(e)
        \/ ValueOf(e) = NoFile /\ ValueOf(e)' = {Primary} /\ WantedOf(e)' = WantedOf(e)
        \/ WantedOf(e) = NoFile /\ ValueOf(e)' = NoFile /\ WantedOf(e)' = NoFile
    BY <2>3, <2>5, <2>6
  <2> QED BY <2>7, <2>8, RegisterMove
<1> QED BY <1>2, <1>3, <1>4 DEF CommandStep

(* Every step of the service is one of the register, or none.              *)
LEMMA RegisterNext ==
  ASSUME Typed, RegisterInv, RegisterInv', [Next]_vars
  PROVE  [DR!Next]_(DR!rvars)
<1>1. CASE ~AsRegister
  <2>1. ~AsRegister'
    BY <1>1 DEF AsRegister, Dependable, Next, vars
  <2>2. \A d \in Hosts : ValueOf(d)' = ValueOf(d) /\ WantedOf(d)' = WantedOf(d)
    BY <1>1, <2>1 DEF ValueOf, WantedOf
  <2>3. PICK e \in Hosts : TRUE
    BY ConstantsAssumption
  <2> QED BY <2>2, <2>3, RegisterMove
<1>2. CASE AsRegister /\ UNCHANGED vars
  BY <1>2, CommandMove DEF vars
<1>3. CASE AsRegister /\ Next
  <2>1. UNCHANGED env /\ env.hosts \subseteq Hosts
    BY <1>3, EnvType DEF Next, Typed
  <2>2. ASSUME NEW r \in Reqs, NEW d \in env.hosts, NEW k \in Keys, NEW a \in env.from,
               Post(r, d, k, a)
        PROVE  [DR!Next]_(DR!rvars)
    <3>x. PICK x : x = [NoReq EXCEPT !.pc = "auth", !.d = d, !.key = k, !.from = a]
      OBVIOUS
    <3>1. d \in Hosts /\ a \in Addresses /\ env.oneByOne
      BY <1>3, EnvType DEF Typed, AsRegister
    <3>2. x \in Request /\ x.pc \notin Doing /\ x.d = d
      BY <3>x, <3>1, NoReqType DEF Request, Stages, Doing
    <3>3. /\ req' = [req EXCEPT ![r] = x] /\ req[r].pc = "idle" /\ UNCHANGED <<ipfile, zone>>
          /\ \A s \in Reqs : req[s].pc # "idle" => req[s].d # d
      BY <2>2, <3>x, <3>1 DEF Post, Busy
    <3>4. req[r].pc \notin Doing
      BY <3>3 DEF Doing
    <3>5. /\ \A e \in Hosts : e # d => ipfile'[e] = ipfile[e] /\ zone'[e] = zone[e]
          /\ \A s \in Reqs : s # r /\ req[s].pc # "idle" => req[s].d # d
          /\ req[r].pc # "idle" => req[r].d = d
          /\ x.pc # "idle" => x.d = d
      BY <3>2, <3>3
    <3>6. /\ \A e \in Hosts : e # d => ValueOf(e)' = ValueOf(e) /\ WantedOf(e)' = WantedOf(e)
          /\ ValueOf(d) = zone[d] /\ ValueOf(d)' = zone'[d]
          /\ WantedOf(d) = IF req[r].pc \in Doing THEN ipfile[d] ELSE NoFile
          /\ WantedOf(d)' = IF x.pc \in Doing THEN ipfile'[d] ELSE NoFile
      <4>1. AsRegister /\ UNCHANGED env
        BY <1>3, <2>1
      <4>2. ASSUME NEW y \in Request, req' = [req EXCEPT ![r] = y],
                   y.pc # "idle" => y.d = d
            PROVE  /\ \A e \in Hosts : e # d => ValueOf(e)' = ValueOf(e)
                                              /\ WantedOf(e)' = WantedOf(e)
                   /\ ValueOf(d) = zone[d] /\ ValueOf(d)' = zone'[d]
                   /\ WantedOf(d) = IF req[r].pc \in Doing THEN ipfile[d] ELSE NoFile
                   /\ WantedOf(d)' = IF y.pc \in Doing THEN ipfile'[d] ELSE NoFile
          <5>1. Typed /\ AsRegister /\ env' = env
            BY <4>1
          <5>2. d \in Hosts /\ (req[r].pc # "idle" => req[r].d = d)
            BY <3>1, <3>5
          <5>3. \A s \in Reqs : s # r /\ req[s].pc # "idle" => req[s].d # d
            BY <3>5
          <5>4. \A e \in Hosts : e # d => ipfile'[e] = ipfile[e] /\ zone'[e] = zone[e]
            BY <3>5
          <5> QED BY <4>2, <5>1, <5>2, <5>3, <5>4, Elsewhere
      <4> QED BY <4>2, <3>2, <3>3, <3>5
    <3> QED BY <3>1, <3>2, <3>3, <3>4, <3>6, RegisterMove
  <2>3. ASSUME NEW r \in Reqs, ServerStep(r) \/ ScriptStep(r)
        PROVE  [DR!Next]_(DR!rvars)
    BY <1>3, <2>1, <2>3, RequestMove
  <2>4. ASSUME NEW e \in env.hosts, RemoveDyndns(e)
        PROVE  [DR!Next]_(DR!rvars)
    <3>1. CanCommand /\ UNCHANGED <<zone, req>> /\ env.apart
      BY <1>3, <2>4 DEF RemoveDyndns, AsRegister
    <3>2. \A r \in Reqs : req[r].pc = "idle" /\ req'[r].pc = "idle"
      BY <3>1, CommandAlone
    <3>3. AsRegister' /\ \A d \in Hosts : ~Underway(d) /\ ~Underway(d)'
      BY <1>3, <2>1, <3>2 DEF Underway, AsRegister, Dependable
    <3>4. \A d \in Hosts : ValueOf(d)' = ValueOf(d) /\ WantedOf(d)' = WantedOf(d)
      BY <1>3, <3>1, <3>3 DEF ValueOf, WantedOf
    <3> QED BY <2>1, <3>4, RegisterMove
  <2>5. ASSUME \/ \E e \in env.hosts, k \in Keys : AddDyndns(e, k)
               \/ Regenerate \/ CommandStep
        PROVE  [DR!Next]_(DR!rvars)
    <3>1. UNCHANGED ipfile /\ (CommandStep \/ UNCHANGED <<zone, req>>)
      BY <2>5 DEF AddDyndns, Regenerate, CommandStep, CreateZones, RestartNamed
    <3> QED BY <1>3, <2>1, <3>1, CommandMove
  <2> QED BY <1>3, <2>2, <2>3, <2>4, <2>5 DEF Next
<1> QED BY <1>1, <1>2, <1>3

(* The service is the register DynRecord (dyndns-server.js with            *)
(* dyndns-update.sh and regenerate_dns): whatever interleaves, the record  *)
(* of a host changes only to the address that was accepted last, or with   *)
(* the host itself, and a post is decided before the next is accepted.     *)
THEOREM RegisterCorrect == Spec => DR!Init /\ [][DR!Next]_(DR!rvars)
<1>1. Init => DR!Init
  <2> SUFFICES ASSUME Init PROVE DR!Init
    OBVIOUS
  <2>1. \A d \in Hosts : zone[d] = NoFile /\ ipfile[d] = NoFile
    BY DEF Init
  <2> QED BY <2>1 DEF DR!Init
<1> QED BY <1>1, RegisterNext, TypedAlways, RegisterAlways, PTL DEF Spec
=============================================================================
