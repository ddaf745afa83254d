------------------------------- MODULE DynDns -------------------------------
(***************************************************************************)
(* The dynamic DNS service of a host.  A client posts its key to           *)
(* dyndns-server.js, which stores the address the request came from in     *)
(* /var/dyndns/D.ip and runs dyndns-update.sh; that script tells named,    *)
(* and keeps the address in D.lock so as to do it once only.  The commands *)
(* add-dyndns, remove and regenerate make and rebuild the zones.           *)
(*                                                                         *)
(* Every callback of the server and every command of the script is a step: *)
(* requests interleave with each other and with the commands.              *)
(***************************************************************************)
EXTENDS Naturals, Sequences, FiniteSets

CONSTANTS
  Hosts,     \* dynamic host names
  Keys,      \* what can be in D.auth, and in a request
  V4, V6,    \* client addresses: mapped IPv4 ones (::ffff:...) and others
  Primary,   \* the address of the server, for a host that never posted
  Width,     \* Width[a]: how many characters address a has
  Reqs,      \* requests that can be in progress at the same time
  Envs,      \* the circumstances to look at, see Env
  NoFile, Empty, Garbled   \* contents of a file that are not an address

Addresses == V4 \cup V6

(* Circumstances: the hosts there may be, the addresses of clients, whether *)
(* a host has at most one request in progress, whether requests and        *)
(* commands stay apart, and whether nsupdate may fail (named is down).     *)
Env == [hosts : SUBSET Hosts, from : SUBSET Addresses, oneByOne : BOOLEAN,
        apart : BOOLEAN, fail : BOOLEAN]

ASSUME ConstantsAssumption ==
  /\ Hosts # {}
  /\ Width \in [Addresses -> Nat]
  /\ {Primary, NoFile, Empty, Garbled} \cap Addresses = {}
  /\ NoFile \notin {Primary, Empty, Garbled}
  /\ Empty # Garbled /\ Primary \notin {Empty, Garbled}
  /\ \A R \in SUBSET (V4 \cup {Primary, Garbled}) : R # NoFile
  /\ NoFile \notin Keys
  /\ Envs \subseteq Env

VARIABLES
  env,    \* the circumstances, which do not change
  auth,   \* auth[d]: the key in D.auth, or NoFile
  ipfile, \* ipfile[d]: the address in D.ip
  lock,   \* lock[d]: the address in D.lock
  updt,   \* updt[d]: the lines of D.updt, a script for nsupdate
  zone,   \* zone[d]: the A records named answers with, NoFile: no zone
  req,    \* req[r]: request r, in the server and then in the script
  admin   \* the command that is running, and the zones it has written

vars == <<env, auth, ipfile, lock, updt, zone, req, admin>>

NoReq   == [pc |-> "idle", d |-> CHOOSE d \in Hosts : TRUE, key |-> NoFile,
            from |-> NoFile, IP |-> NoFile]
NoAdmin == [pc |-> "idle", zones |-> [d \in Hosts |-> NoFile]]

Busy(d) == \E r \in Reqs : req[r].pc # "idle" /\ req[r].d = d
Quiet   == admin.pc = "idle" /\ \A d \in Hosts : ~Busy(d)

Goto(r, to)  == req' = [req EXCEPT ![r].pc = to]
Finish(r)    == req' = [req EXCEPT ![r] = NoReq]

-----------------------------------------------------------------------------
(* The server: a POST has been read to its end.                            *)
Post(r, d, key, from) ==
  /\ req[r].pc = "idle"
  /\ env.oneByOne => ~Busy(d)
  /\ env.apart => admin.pc = "idle"
  /\ req' = [req EXCEPT ![r] = [NoReq EXCEPT !.pc = "auth", !.d = d,
                                             !.key = key, !.from = from]]
  /\ UNCHANGED <<auth, ipfile, lock, updt, zone, admin>>

(* readFile of D.auth: no file is an "Internal error.", another key is     *)
(* "Permission denied".                                                    *)
Authorize(r) ==
  /\ req[r].pc = "auth"
  /\ IF auth[req[r].d] = req[r].key THEN Goto(r, "open") ELSE Finish(r)
  /\ UNCHANGED <<auth, ipfile, lock, updt, zone, admin>>

(* writeFile of D.ip: it is opened, and with that made empty ...           *)
OpenIp(r) ==
  /\ req[r].pc = "open"
  /\ ipfile' = [ipfile EXCEPT ![req[r].d] = Empty]
  /\ Goto(r, "fill")
  /\ UNCHANGED <<auth, lock, updt, zone, admin>>

(* Mutant of FillIp: the script is not run.                                *)
FillIpOnly(r) ==
  /\ req[r].pc = "fill"
  /\ ipfile' = [ipfile EXCEPT ![req[r].d] = req[r].from]
  /\ Finish(r)
  /\ UNCHANGED <<auth, lock, updt, zone, admin>>

(* ... and written from its start: over a longer address that another      *)
(* request wrote since, the end of that address stays behind; what is      *)
(* written to a file that was removed after it was opened is lost.         *)
FillIp(r) ==
  LET d == req[r].d  a == req[r].from IN
  /\ req[r].pc = "fill"
  /\ ipfile' = [ipfile EXCEPT ![d] =
       CASE @ = NoFile -> NoFile
         [] @ = Garbled -> Garbled
         [] @ \in Addresses -> IF Width[a] < Width[@] THEN Garbled ELSE a
         [] OTHER -> a]
  /\ Goto(r, "ip")
  /\ UNCHANGED <<auth, lock, updt, zone, admin>>

-----------------------------------------------------------------------------
(* The script: IP=$(cat D.ip)                                              *)
ReadIp(r) ==
  /\ req[r].pc = "ip"
  /\ req' = [req EXCEPT ![r] = [req[r] EXCEPT !.IP = ipfile[req[r].d], !.pc = "compare"]]
  /\ UNCHANGED <<auth, ipfile, lock, updt, zone, admin>>

(* "Nothing to do." for the address of the last update; an address that is *)
(* not a mapped IPv4 one (or was read while the file was empty) is left.   *)
Compare(r) ==
  LET IP == req[r].IP IN
  /\ req[r].pc = "compare"
  /\ IF lock[req[r].d] # IP /\ IP \in V4 \cup {Garbled}
     THEN Goto(r, "server") ELSE Finish(r)
  /\ UNCHANGED <<auth, ipfile, lock, updt, zone, admin>>

(* The lines of D.updt: the first starts the file, the others are added to *)
(* whatever the file holds by then.                                        *)
EchoServer(r) ==
  /\ req[r].pc = "server"
  /\ updt' = [updt EXCEPT ![req[r].d] = <<>>]
  /\ Goto(r, "delete")
  /\ UNCHANGED <<auth, ipfile, lock, zone, admin>>

Echo(r, at, line, to) ==
  /\ req[r].pc = at
  /\ updt' = [updt EXCEPT ![req[r].d] = Append(@, line)]
  /\ Goto(r, to)
  /\ UNCHANGED <<auth, ipfile, lock, zone, admin>>

(* Mutant: the old records are not deleted.                                *)
EchoDeleteNone(r) == Goto(r, "add") /\ req[r].pc = "delete"
                     /\ UNCHANGED <<auth, ipfile, lock, updt, zone, admin>>

EchoDelete(r) == Echo(r, "delete", [op |-> "delete"], "add")
EchoAdd(r)    == Echo(r, "add", [op |-> "add", a |-> req[r].IP], "send")
EchoSend(r)   == Echo(r, "send", [op |-> "send"], "nsupdate")

(* What nsupdate makes of the records of a host: it sends the lines up to  *)
(* the last "send", and named carries them out in order.                   *)
Updated(records, lines) ==
  LET at(op) == {i \in 1 .. Len(lines) : lines[i].op = op}
      sent(i) == \E j \in at("send") : i < j
      kept(i) == \A j \in at("delete") : sent(j) => j < i
  IN  {lines[i].a : i \in {k \in at("add") : sent(k) /\ kept(k)}}
        \cup {x \in records : kept(0)}

(* nsupdate D.updt; a zone that is not there cannot be updated.  The       *)
(* script does not look at the result.                                     *)
NsUpdate(r) ==
  LET d == req[r].d IN
  /\ req[r].pc = "nsupdate"
  /\ \/ zone[d] # NoFile /\ zone' = [zone EXCEPT ![d] = Updated(@, updt[d])]
     \/ (env.fail \/ zone[d] = NoFile) /\ UNCHANGED zone
  /\ Goto(r, "lock")
  /\ UNCHANGED <<auth, ipfile, lock, updt, admin>>

(* echo -n $IP > D.lock                                                    *)
WriteLock(r) ==
  /\ req[r].pc = "lock"
  /\ lock' = [lock EXCEPT ![req[r].d] = req[r].IP]
  /\ Finish(r)
  /\ UNCHANGED <<auth, ipfile, updt, zone, admin>>

-----------------------------------------------------------------------------
(* The commands end with regenerate_dns: it writes every zone anew, and    *)
(* restarts named at the end.                                              *)
CanCommand == admin.pc = "idle" /\ (env.apart => Quiet)

StartRegenerate == admin' = [admin EXCEPT !.pc = "zones"]

(* add-dyndns: a name not taken gets a new key.                            *)
AddDyndns(d, key) ==
  /\ CanCommand
  /\ auth[d] = NoFile /\ zone[d] = NoFile
  /\ auth' = [auth EXCEPT ![d] = key]
  /\ StartRegenerate
  /\ UNCHANGED <<ipfile, lock, updt, zone, req>>

(* Mutant of RemoveDyndns: D.lock is left behind.                          *)
RemoveDyndnsNotLock(d) ==
  /\ CanCommand
  /\ auth[d] # NoFile
  /\ auth'   = [auth   EXCEPT ![d] = NoFile]
  /\ ipfile' = [ipfile EXCEPT ![d] = NoFile]
  /\ updt'   = [updt   EXCEPT ![d] = <<>>]
  /\ StartRegenerate
  /\ UNCHANGED <<lock, zone, req>>

(* remove, for a dynamic host.                                             *)
RemoveDyndns(d) ==
  /\ CanCommand
  /\ auth[d] # NoFile
  /\ auth'   = [auth   EXCEPT ![d] = NoFile]
  /\ ipfile' = [ipfile EXCEPT ![d] = NoFile]
  /\ lock'   = [lock   EXCEPT ![d] = NoFile]
  /\ updt'   = [updt   EXCEPT ![d] = <<>>]
  /\ StartRegenerate
  /\ UNCHANGED <<zone, req>>

Regenerate ==
  /\ CanCommand
  /\ StartRegenerate
  /\ UNCHANGED <<auth, ipfile, lock, updt, zone, req>>

(* Mutant of ZoneFile: D.ip is not read.                                   *)
ZoneFilePrimary(d) == IF auth[d] = NoFile THEN NoFile ELSE {Primary}

(* dyndns_create_named_zone for each D.auth: the address in D.ip if it is  *)
(* a mapped IPv4 one, or else that of the server.                          *)
ZoneFile(d) ==
  CASE auth[d] = NoFile -> NoFile
    [] auth[d] # NoFile /\ ipfile[d] \in V4 \cup {Garbled} -> {ipfile[d]}
    [] OTHER -> {Primary}

CreateZones ==
  /\ admin.pc = "zones"
  /\ admin' = [pc |-> "restart", zones |-> [d \in Hosts |-> ZoneFile(d)]]
  /\ UNCHANGED <<auth, ipfile, lock, updt, zone, req>>

RestartNamed ==
  /\ admin.pc = "restart"
  /\ zone' = admin.zones
  /\ admin' = NoAdmin
  /\ UNCHANGED <<auth, ipfile, lock, updt, req>>

-----------------------------------------------------------------------------
Init ==
  /\ env    \in Envs
  /\ auth   = [d \in Hosts |-> NoFile]
  /\ ipfile = [d \in Hosts |-> NoFile]
  /\ lock   = [d \in Hosts |-> NoFile]
  /\ updt   = [d \in Hosts |-> <<>>]
  /\ zone   = [d \in Hosts |-> NoFile]
  /\ req    = [r \in Reqs |-> NoReq]
  /\ admin  = NoAdmin

ServerStep(r) == Authorize(r) \/ OpenIp(r) \/ FillIp(r)

ScriptStep(r) ==
  \/ ReadIp(r) \/ Compare(r)
  \/ EchoServer(r) \/ EchoDelete(r) \/ EchoAdd(r) \/ EchoSend(r)
  \/ NsUpdate(r) \/ WriteLock(r)

CommandStep == CreateZones \/ RestartNamed

Next ==
  /\ \/ \E r \in Reqs, d \in env.hosts, k \in Keys, a \in env.from :
          Post(r, d, k, a)
     \/ \E r \in Reqs : ServerStep(r) \/ ScriptStep(r)
     \/ \E d \in env.hosts :
          RemoveDyndns(d) \/ \E k \in Keys : AddDyndns(d, k)
     \/ Regenerate
     \/ CommandStep
  /\ UNCHANGED env

(* A callback that is due is run, a script and a command go on to the end; *)
(* nobody has to post, and no administrator has to type a command.         *)
Fairness ==
  /\ \A r \in Reqs : WF_vars((ServerStep(r) \/ ScriptStep(r)) /\ UNCHANGED env)
  /\ WF_vars(CommandStep /\ UNCHANGED env)

Spec == Init /\ [][Next]_vars /\ Fairness

-----------------------------------------------------------------------------
Records == {NoFile} \cup SUBSET (V4 \cup {Primary, Garbled})

Line == [op : {"delete", "send"}] \cup [op : {"add"}, a : V4 \cup {Garbled}]

(* The type of the files of the service, of the zones and of the requests. *)
TypeOK ==
  /\ env \in Envs
  /\ auth \in [Hosts -> Keys \cup {NoFile}]
  /\ ipfile \in [Hosts -> Addresses \cup {NoFile, Empty, Garbled}]
  /\ lock \in [Hosts -> V4 \cup {NoFile, Garbled}]
  /\ \A d \in Hosts : \A i \in DOMAIN updt[d] : updt[d][i] \in Line
  /\ zone \in [Hosts -> Records]
  /\ \A r \in Reqs :
       /\ req[r].d \in Hosts /\ req[r].key \in Keys \cup {NoFile}
       /\ req[r].from \in Addresses \cup {NoFile}
       /\ req[r].IP \in Addresses \cup {NoFile, Empty, Garbled}
  /\ admin.zones \in [Hosts -> Records]

(* named can be reached, and clients have IPv4 addresses only.             *)
Dependable == ~env.fail /\ env.from \subseteq V4

(* When nothing is under way, a host whose client posted an IPv4 address   *)
(* resolves to that address and to no other: D.ip, which the script and    *)
(* regenerate_dns start from, agrees with what named answers.              *)
Agreement ==
  Dependable /\ Quiet => \A d \in Hosts :
    auth[d] # NoFile /\ ipfile[d] \in V4 => zone[d] = {ipfile[d]}

(* "Nothing to do." is never said of an address that named does not        *)
(* answer: D.lock alone would keep the client from ever repairing it.      *)
(* Two scripts of one host may say it while the other is about to send.    *)
NothingToDoIsTrue ==
  [][\A r \in Reqs, d \in Hosts :
       Dependable /\ env.oneByOne /\ req[r].pc = "compare" /\ req[r].d = d /\ req'[r].pc = "idle"
         /\ req[r].IP \in V4
         => zone[d] = {req[r].IP}]_vars

(* An address that was stored by a request is published, unless the client *)
(* moves on or the host is removed.                                        *)
Published ==
  \A d \in Hosts, a \in V4 :
    Dependable /\ auth[d] # NoFile /\ ipfile[d] = a
      ~> zone[d] = {a} \/ ipfile[d] # a \/ auth[d] = NoFile

(* The address of a host changes only to one that a client sent with the   *)
(* key the host has by then, and not with the key of an earlier owner.     *)
OnlyByKey ==
  [][\A d \in Hosts :
       ipfile'[d] \in Addresses /\ ipfile'[d] # ipfile[d]
         => \E r \in Reqs : /\ req[r].pc = "fill" /\ req[r].d = d
                           /\ req[r].key = auth[d]
                           /\ req[r].from = ipfile'[d]]_vars

(* The files keep their types, and D.ip agrees with named.                 *)
DynDnsInv == TypeOK /\ Agreement

(* What a request may do: say "Nothing to do." only where that is so, and  *)
(* change an address only with the key the host has by then.               *)
RequestsRight == NothingToDoIsTrue /\ OnlyByKey

-----------------------------------------------------------------------------
(* The service as a register for each host, DynRecord: a request is        *)
(* accepted when its address is on file, and decided when the script has   *)
(* dealt with that address.  That is so where the circumstances are those  *)
(* of Agreement and a host has one request at a time; in others the        *)
(* register is not looked at.                                              *)
AsRegister == Dependable /\ env.oneByOne /\ env.apart

Underway(d) ==
  \E r \in Reqs : /\ req[r].d = d
                  /\ req[r].pc \in {"ip", "compare", "server", "delete", "add",
                                   "send", "nsupdate"}

DR == INSTANCE DynRecord WITH
  Null    <- NoFile,
  value   <- [d \in Hosts |-> IF AsRegister THEN zone[d] ELSE NoFile],
  wanted  <- [d \in Hosts |-> IF AsRegister /\ Underway(d) THEN ipfile[d]
                              ELSE NoFile]

ImplementsDynRecord == DR!Spec
=============================================================================
