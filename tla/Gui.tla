-------------------------------- MODULE Gui --------------------------------
(***************************************************************************)
(* The web interface: a page in a browser, which sends one command at a    *)
(* time, and the server, which runs it on a host over ssh as the user the  *)
(* certificate of the browser names.  Everything is a callback: the users  *)
(* are loaded one after the other while connections may already come in,   *)
(* the lists of containers and the end of a command arrive when they do.   *)
(***************************************************************************)
EXTENDS Overlay, Term2html

CONSTANTS
  Users, Strangers,  \* users with a key, and other names on certificates
  Hosts, HostsOf,    \* HostsOf[u]: the hosts of user u, in order
  Containers, Lists, \* the lists of containers a host may answer
  Tabs, NameOf,      \* pages, and the name on their certificate
  None,
  Pieces, MaxOutput, \* what a command prints at a time; bound: its tokens
  Envs               \* the circumstances to look at, see Env

(* The dialogs of the page.                                                *)
Dialogs == {"add-publickey", "add-user", "add-fedora"}

(* A page connects before all users are loaded; the connection of a page   *)
(* is lost, or the server restarts, once; ssh does not connect, breaks     *)
(* while a command runs, or refuses to execute; a dialog is opened before  *)
(* all lists of containers are there; commands print; and, the mouse and   *)
(* the keyboard are looked at in detail.                                   *)
Events == {"early", "disconnect", "restart", "refused", "broken", "exec",
           "hasty", "output", "detail"}

(* Circumstances: the pages that are opened, how many commands they may    *)
(* send, and what happens.                                                 *)
Env == [tabs : SUBSET Tabs, commands : Nat, events : SUBSET Events]

ASSUME ConstantsAssumption ==
  /\ IsFiniteSet(Users) /\ IsFiniteSet(Tabs)
  /\ \A u \in Users : HostsOf[u] \in Seq(Hosts) /\ HostsOf[u] # <<>>
  /\ Lists \subseteq Seq(Containers)
  /\ NameOf \in [Tabs -> Users \cup Strangers] /\ Users \cap Strangers = {}
  /\ Pieces \subseteq Seq(STRING) /\ MaxOutput \in Nat
  /\ None \notin Containers \cup Lists \cup Dialogs
  /\ Envs \subseteq Env

VARIABLES
  env,     \* the circumstances, which do not change
  users,   \* the array of the users that are loaded, in that order
  lists,   \* lists[u][i]: the containers the server knows on host i of u
  sock,    \* sock[t]: the server's end of the connection of page t
  up,      \* up[t]: what page t has sent
  down,    \* down[t]: what was sent to page t
  page,    \* page[t]: the state of page t
  conns,   \* the ssh connections of the server
  calm     \* has there been no disconnect or restart yet?

vars == <<env, users, lists, sock, up, down, page, conns, calm>>
server == <<users, lists, sock, conns>>

Positions(u) == 1 .. Len(HostsOf[u])
Unknown(u) == [i \in Positions(u) |-> None]

(* What a command is meant for: a host, and a container or none.           *)
Target(t, hix, ve) == [host |-> HostsOf[NameOf[t]][hix], ve |-> ve]

(* The dialog: the command and where the user saw it, the argument, and    *)
(* whether it was typed since the dialog was opened.                       *)
NoModal == [cmd |-> None, meant |-> None, argument |-> "", typed |-> FALSE]

NoPage == [open |-> FALSE, lock |-> FALSE, hix |-> 1, cix |-> 0,
           main |-> <<>>, picked |-> None, modal |-> NoModal, over |-> NewOverlay,
           terminal |-> <<>>, sent |-> 0]

Off == [state |-> "off", uix |-> 0]

-----------------------------------------------------------------------------
(* The menus are there while the page is not locked, others for a host and *)
(* for a container: when that changes, they are made anew, and closed.     *)
Rebuilt(old, p) ==
  IF p.lock \/ old.lock \/ (old.cix = 0) # (p.cix = 0)
  THEN [p EXCEPT !.over = clearMenus(@)] ELSE p

(* Mutant: the page is not locked.                                         *)
CommandUnlocked(t, p, modal) ==
  LET L      == p.main[p.hix]
      onHost == modal.meant = None \/ modal.meant.ve = None
      throws == ~onHost /\ (L = None \/ p.cix \notin DOMAIN L)
  IN /\ page' = [page EXCEPT ![t] = Rebuilt(@,
                   [p EXCEPT !.sent = @ + 1, !.terminal = <<>>])]
     /\ up' = [up EXCEPT ![t] = IF throws THEN @ ELSE Append(@,
                 [type |-> "sc-command", hix |-> p.hix, modal |-> modal,
                  ve |-> IF onHost THEN None ELSE L[p.cix]])]

(* The page.  What is sent says where the page wants it done (hix and ve), *)
(* and, for the properties, where the user wanted it done (meant).  If the *)
(* container is not there, command_ve throws after it has set the lock.    *)
Command(t, p, modal) ==
  LET L      == p.main[p.hix]
      onHost == modal.meant = None \/ modal.meant.ve = None
      throws == ~onHost /\ (L = None \/ p.cix \notin DOMAIN L)
  IN /\ page' = [page EXCEPT ![t] = Rebuilt(@,
                   [p EXCEPT !.lock = TRUE, !.sent = @ + 1, !.terminal = <<>>])]
     /\ up' = [up EXCEPT ![t] = IF throws THEN @ ELSE Append(@,
                 [type |-> "sc-command", hix |-> p.hix, modal |-> modal,
                  ve |-> IF onHost THEN None ELSE L[p.cix]])]

Plainly(cmd, meant) == [NoModal EXCEPT !.cmd = cmd, !.meant = meant]

(* The page is opened: get-main, and the status of the first host.         *)
Open(t) ==
  /\ t \in env.tabs /\ ~page[t].open
  /\ "early" \in env.events \/ Len(users) = Cardinality(Users)
  /\ page' = [page EXCEPT ![t] = [NoPage EXCEPT !.open = TRUE, !.lock = TRUE,
                                                !.sent = 1]]
  /\ up' = [up EXCEPT ![t] =
       <<[type |-> "get-main"],
         [type |-> "sc-command", hix |-> 1, ve |-> None,
          modal |-> Plainly("status", None)]>>]
  /\ sock' = [sock EXCEPT ![t] = [Off EXCEPT !.state = "new"]]
  /\ UNCHANGED <<users, lists, down, conns, calm>>

Loaded(t) == page[t].open /\ page[t].main # <<>> /\ page[t].sent < env.commands
Free(t) == Loaded(t) /\ ~page[t].lock /\ Clickable(page[t].over)
Detail == "detail" \in env.events

(* sethix and setcix, and the command that goes with them.                 *)
sethix(p, i) == [p EXCEPT !.hix = i, !.cix = 0]

ClickHost(t, i) ==
  LET p == sethix([page[t] EXCEPT !.over = clearMenus(@)], i) IN
  /\ Free(t) /\ i \in DOMAIN page[t].main
  /\ LET meant == Target(t, i, None)
     IN Command(t, [p EXCEPT !.picked = meant], Plainly("status", meant))
  /\ UNCHANGED <<server, down, calm>>

(* setcix.  The button is that of a menu, but it is locked by the time the *)
(* click gets there, and there is no menu.                                 *)
ClickContainer(t, i) ==
  LET p == page[t]
      L == p.main[p.hix]
  IN
  /\ Free(t) /\ L # None /\ i \in DOMAIN L
  /\ LET meant == Target(t, p.hix, L[i])
     IN Command(t, [p EXCEPT !.cix = i, !.picked = meant], Plainly("info", meant))
  /\ UNCHANGED <<server, down, calm>>

(* The menu is that of a container if one is selected, else of the host.   *)
Menu(t) ==
  LET p == page[t] IN
  /\ Free(t) /\ p.picked # None /\ (Detail => "manage" \in p.over.open)
  /\ Command(t, p, Plainly("start",
               IF p.cix = 0 THEN Target(t, p.hix, None) ELSE p.picked))
  /\ UNCHANGED <<server, down, calm>>

Over(t, p, over) ==
  /\ page' = [page EXCEPT ![t] = [p EXCEPT !.over = over]]
  /\ UNCHANGED <<server, up, down, calm>>

(* The buttons of the menus, with the mouse and the keyboard.              *)
UseMenus(t) ==
  LET d == page[t].over IN
  /\ Detail /\ Free(t)
  /\ \/ Over(t, page[t], clearMenus(d))
     \/ \E menu \in Menus :
          \/ Over(t, page[t], Toggle(d, menu))
          \/ \E key \in {"esc", "arrow"}, inside \in BOOLEAN :
               (inside => menu \in d.open) /\ Over(t, page[t], KeyDown(d, menu, key, inside))

(* Mutant: the argument stays.                                             *)
reset_modalTitles(modal, cmd, meant) ==
  [NoModal EXCEPT !.cmd = cmd, !.meant = meant, !.argument = modal.argument]

reset_modal(modal, cmd, meant) == [NoModal EXCEPT !.cmd = cmd, !.meant = meant]

(* A dialog asks for the argument of a command for the host: a new         *)
(* container, a user, or a key, for which the button is never locked.      *)
OpenModal(t) ==
  LET p == page[t] IN
  /\ Loaded(t) /\ Clickable(p.over)
  /\ "hasty" \in env.events \/ \A i \in DOMAIN p.main : p.main[i] # None
  /\ \E cmd \in Dialogs :
       /\ cmd # "add-publickey" =>
            /\ ~p.lock /\ (Detail => "add" \in p.over.open)
            /\ (cmd = "add-user") = (p.cix # 0) /\ (cmd = "add-fedora" => Detail)
       /\ Over(t, [p EXCEPT !.modal = reset_modal(@, cmd, Target(t, p.hix, None))],
               OpenBy(p.over))

Type(t) ==
  /\ Detail /\ page[t].over.isShown
  /\ \E argument \in {"name", "fqdn"} :
       Over(t, [page[t] EXCEPT !.modal.argument = argument, !.modal.typed = TRUE],
            page[t].over)

(* The dialog is left, by its button, the keyboard or the mouse.           *)
Leave(t) ==
  LET d == page[t].over IN
  /\ Detail /\ d.isShown
  /\ \/ d.press = "none" /\ Over(t, page[t], Dismiss(d))
     \/ Over(t, page[t], Escape(d))

Mouse(t) ==
  LET d == page[t].over IN
  /\ Detail
  /\ \/ d.isShown /\ d.press = "none"
        /\ \E where \in {"dialog", "beside"} : Over(t, page[t], MouseDown(d, where))
     \/ d.press # "none" /\ \E where \in {"dialog", "beside", "outside"} :
          \E over \in MouseUp(d, where) : Over(t, page[t], over)

(* Apply, which is there if the argument will do.  While the page is       *)
(* locked, the user is told to wait; the dialog is hidden all the same.    *)
is_fqdn(argument) == argument = "fqdn"

Apply(t) ==
  LET p == [page[t] EXCEPT !.over = Dismiss(@)]
      be_fqdn == p.modal.cmd = "add-fedora" IN
  /\ Loaded(t) /\ page[t].over.isShown /\ page[t].over.press = "none"
  /\ be_fqdn => is_fqdn(p.modal.argument)
  /\ IF p.lock THEN Over(t, p, p.over)
     ELSE Command(t, p, p.modal) /\ UNCHANGED <<server, down, calm>>

(* What the server sends: set-main selects the first host again.           *)
Receive(t) ==
  /\ down[t] # <<>>
  /\ LET m == Head(down[t])
         p == page[t]
     IN page' = [page EXCEPT ![t] = Rebuilt(@,
          IF m.type = "lock" THEN [p EXCEPT !.lock = FALSE]
          ELSE IF m.type = "set-terminal" THEN [p EXCEPT !.terminal = m.html]
          ELSE sethix([p EXCEPT !.main = m.main], 1))]
  /\ down' = [down EXCEPT ![t] = Tail(@)]
  /\ UNCHANGED <<server, up, calm>>

-----------------------------------------------------------------------------
(* The server.  A user is loaded when cat has ended.                       *)
Load(u) ==
  /\ \A i \in DOMAIN users : users[i] # u
  /\ users' = Append(users, u)
  /\ lists' = [lists EXCEPT ![u] = Unknown(u)]
  /\ UNCHANGED <<sock, up, down, page, conns, calm>>

(* A connection: the index of the user is looked up.  If one of the users  *)
(* is not there yet, the handler throws, and no message will be answered.  *)
Connect(t) ==
  /\ sock[t].state = "new"
  /\ sock' = [sock EXCEPT ![t] =
       IF Len(users) < Cardinality(Users) THEN [state |-> "dead", uix |-> 0]
       ELSE [state |-> "on",
             uix |-> IF \E i \in DOMAIN users : users[i] = NameOf[t]
                     THEN CHOOSE i \in DOMAIN users : users[i] = NameOf[t]
                     ELSE 0]]
  /\ UNCHANGED <<users, lists, up, down, page, conns, calm>>

(* An ssh connection to host hix of the user with index uix.               *)
Conn(t, kind, hix, m) ==
  LET u == users[sock[t].uix] IN
  [tab |-> t, uix |-> sock[t].uix, hix |-> hix, kind |-> kind,
   user |-> u, host |-> HostsOf[u][hix], ve |-> m.ve, modal |-> m.modal,
   state |-> "connecting", lost |-> FALSE, adat |-> <<>>]

Ls == [ve |-> None, modal |-> NoModal]

(* get-main and sc-command.  Without a user they throw.                    *)
Serve(t) ==
  LET m == Head(up[t]) IN
  /\ sock[t].state \in {"on", "dead"} /\ up[t] # <<>>
  /\ up' = [up EXCEPT ![t] = Tail(@)]
  /\ conns' = conns \cup
       (IF sock[t].state = "dead" \/ sock[t].uix = 0 THEN {}
        ELSE IF m.type = "get-main"
          THEN {Conn(t, "ls", i, Ls) : i \in Positions(users[sock[t].uix])}
        ELSE {Conn(t, "command", m.hix, m)})
  /\ UNCHANGED <<users, lists, sock, down, page, calm>>

(* socket.emit: nothing arrives if the connection is gone.                 *)
Emit(k, m) ==
  down' = IF k.lost THEN down ELSE [down EXCEPT ![k.tab] = Append(@, m)]

Become(k, state) == conns' = (conns \ {k}) \cup {[k EXCEPT !.state = state]}

Lock == [type |-> "lock"]

(* error: the page says so in place of what the command has printed, and   *)
(* is unlocked.                                                            *)
ErrorText == <<[ch |-> "error.", css |-> Css(Plain)]>>
Failed == [type |-> "set-terminal", html |-> ErrorText]

EmitError(k) ==
  down' = IF k.lost THEN down
          ELSE [down EXCEPT ![k.tab] = Append(Append(@, Failed), Lock)]

(* Mutant: a command that does not connect is given up, too.               *)
RefusedLocked(k) ==
  /\ "refused" \in env.events
  /\ k.state = "connecting"
  /\ conns' = conns \ {k}
  /\ UNCHANGED <<users, lists, sock, up, down, page, calm>>

(* ssh does not connect: a command says so, a list is given up.            *)
Refused(k) ==
  /\ "refused" \in env.events
  /\ k.state = "connecting"
  /\ conns' = conns \ {k}
  /\ IF k.kind = "command" THEN EmitError(k) ELSE UNCHANGED down
  /\ UNCHANGED <<users, lists, sock, up, page, calm>>

(* ready: the command is executed, or conn.exec has an error and throws.   *)
Ready(k) ==
  /\ k.state = "connecting"
  /\ \/ Become(k, "running")
     \/ "exec" \in env.events /\ conns' = conns \ {k}
  /\ UNCHANGED <<users, lists, sock, up, down, page, calm>>

(* Mutant: only what was printed last is kept.                             *)
CollectedLast(k, data) == data

Collected(k, data) == k.adat \o data

(* The command prints: the page gets all it has printed so far.            *)
Data(k) ==
  /\ "output" \in env.events /\ k.state = "running" /\ k.kind = "command"
  /\ \E data \in Pieces :
       /\ Len(k.adat) + Len(data) <= MaxOutput
       /\ LET adat == Collected(k, data) IN
          /\ conns' = (conns \ {k}) \cup {[k EXCEPT !.adat = adat]}
          /\ Emit(k, [type |-> "set-terminal", html |-> term2html(adat)])
  /\ UNCHANGED <<users, lists, sock, up, page, calm>>

(* error while the command runs: what it printed is not sent again; the    *)
(* stream closes later.                                                    *)
Broken(k) ==
  /\ "broken" \in env.events
  /\ k.state = "running" /\ k.kind = "command"
  /\ conns' = (conns \ {k}) \cup {[k EXCEPT !.state = "broken", !.adat = <<>>]}
  /\ EmitError(k)
  /\ UNCHANGED <<users, lists, sock, up, page, calm>>

(* The stream closes: the page is unlocked, or gets the new list.          *)
Close(k) ==
  /\ k.state \in {"running", "broken"}
  /\ conns' = conns \ {k}
  /\ IF k.kind = "command" THEN Emit(k, Lock) /\ UNCHANGED lists
     ELSE \E L \in Lists :
            /\ lists' = [lists EXCEPT ![k.user][k.hix] = L]
            /\ Emit(k, [type |-> "set-main", main |-> lists'[k.user]])
  /\ UNCHANGED <<users, sock, up, page, calm>>

-----------------------------------------------------------------------------
(* The connection of a page is lost and made again; the page knows nothing *)
(* of it.  What it has sent is lost, or sent then.                         *)
Disconnect(t) ==
  /\ "disconnect" \in env.events /\ calm /\ sock[t].state # "off"
  /\ sock'  = [sock EXCEPT ![t] = [Off EXCEPT !.state = "new"]]
  /\ down'  = [down EXCEPT ![t] = <<>>]
  /\ conns' = {IF k.tab = t THEN [k EXCEPT !.lost = TRUE] ELSE k : k \in conns}
  /\ up' \in {[up EXCEPT ![t] = SubSeq(@, n, Len(@))] : n \in 1 .. Len(up[t]) + 1}
  /\ calm'  = FALSE
  /\ UNCHANGED <<users, lists, page>>

(* regenerate restarts the server: the users are loaded again.             *)
Restart ==
  /\ "restart" \in env.events /\ calm
  /\ users' = <<>>
  /\ sock'  = [t \in Tabs |-> IF sock[t].state = "off" THEN Off
                              ELSE [Off EXCEPT !.state = "new"]]
  /\ down'  = [t \in Tabs |-> <<>>]
  /\ conns' = {}
  /\ calm'  = FALSE
  /\ UNCHANGED <<lists, up, page>>

Init ==
  /\ env   \in Envs
  /\ users = <<>>
  /\ lists = [u \in Users |-> Unknown(u)]
  /\ sock  = [t \in Tabs |-> Off]
  /\ up    = [t \in Tabs |-> <<>>]
  /\ down  = [t \in Tabs |-> <<>>]
  /\ page  = [t \in Tabs |-> NoPage]
  /\ conns = {}
  /\ calm  = TRUE

Person(t) ==
  \/ Open(t) \/ Menu(t) \/ UseMenus(t)
  \/ OpenModal(t) \/ Type(t) \/ Leave(t) \/ Mouse(t) \/ Apply(t)
  \/ \E i \in DOMAIN page[t].main : ClickHost(t, i)
  \/ \E i \in 1 .. Cardinality(Containers) : ClickContainer(t, i)

Network(t) == Receive(t) \/ Connect(t) \/ Serve(t)

Answer(k) == Refused(k) \/ Ready(k) \/ Broken(k) \/ Close(k)

Next ==
  /\ \/ \E t \in Tabs : Person(t) \/ Network(t) \/ Disconnect(t)
     \/ \E u \in Users : Load(u)
     \/ \E k \in conns : Answer(k) \/ Data(k)
     \/ Restart
  /\ UNCHANGED env

(* Messages arrive, and what ssh was asked to do comes to an end.  Nobody  *)
(* has to click.                                                           *)
Fairness ==
  /\ \A u \in Users : WF_vars(Load(u) /\ UNCHANGED env)
  /\ \A t \in Tabs : WF_vars(Network(t) /\ UNCHANGED env)
  /\ \A t \in Tabs : WF_vars((\E k \in conns : k.tab = t /\ Answer(k)) /\ UNCHANGED env)

Spec == Init /\ [][Next]_vars /\ Fairness

-----------------------------------------------------------------------------
Targets == [host : Hosts, ve : Containers \cup {None}] \cup {None}
Mains == UNION {[Positions(u) -> Lists \cup {None}] : u \in Users}

(* The type of the page, the messages and the ssh connections.             *)
TypeOK ==
  /\ env \in Envs
  /\ \A i \in DOMAIN users : users[i] \in Users
  /\ \A u \in Users : lists[u] \in [Positions(u) -> Lists \cup {None}]
  /\ sock \in [Tabs -> [state : {"off", "new", "on", "dead"}, uix : Nat]]
  /\ \A t \in Tabs :
       /\ page[t].lock \in BOOLEAN /\ page[t].sent \in Nat
       /\ page[t].main \in Mains \cup {<<>>}
       /\ page[t].picked \in Targets /\ page[t].modal.meant \in Targets
       /\ \A i \in DOMAIN up[t] : up[t][i].type \in {"get-main", "sc-command"}
       /\ \A i \in DOMAIN down[t] : down[t][i].type \in {"set-main", "set-terminal", "lock"}
  /\ \A k \in conns :
       /\ k.user \in Users /\ k.host \in Hosts
       /\ k.ve \in Containers \cup {None} /\ k.modal.meant \in Targets

Of(t) == {k \in conns : k.tab = t /\ k.kind = "command" /\ ~k.lost}
Asked(t) == {i \in DOMAIN up[t] : up[t][i].type = "sc-command"}
Unlocks(t) == {i \in DOMAIN down[t] : down[t][i].type = "lock"}

(* A page has at most one command under way, on its way to the server,     *)
(* running, or about to be answered, and while it has, it is locked, where *)
(* ssh does not break while a command runs.                                *)
OneCommand ==
  env.events \cap {"broken", "disconnect", "restart"} = {} => \A t \in Tabs :
    /\ Cardinality(Of(t)) + Cardinality(Asked(t)) + Cardinality(Unlocks(t)) <= 1
    /\ ~page[t].lock => Of(t) = {} /\ Asked(t) = {} /\ Unlocks(t) = {}

(* A user has one page open.  All his pages share his lists: what another  *)
(* page of his asked for comes to a page that has all lists already.       *)
OnePage == \A s, t \in env.tabs : NameOf[s] = NameOf[t] => s = t

(* A command runs as the user of the certificate, whatever order the users *)
(* were loaded in; and on the host and for the container the user saw when *)
(* he chose it, although lists that arrive later select another host and   *)
(* reorder the containers.                                                 *)
RightTarget ==
  \A k \in conns :
    /\ k.user = NameOf[k.tab]
    /\ "hasty" \notin env.events /\ OnePage /\ k.modal.meant # None =>
         k.host = k.modal.meant.host /\ k.ve = k.modal.meant.ve

(* At most one menu is open, and none while the page is locked; the dialog *)
(* is shown when the page is dimmed by one element, and when it is not, no *)
(* handler waits for the mouse or the keyboard.                            *)
OneOverlay ==
  \A t \in Tabs :
    LET d == page[t].over IN
    /\ Cardinality(d.open) <= (IF page[t].lock THEN 0 ELSE 1)
    /\ d.backdrops = (IF d.isShown THEN 1 ELSE 0) /\ d.modalOpen = d.isShown
    /\ ~d.isShown => d.handlers = {}

(* A press that begins in the dialog, to select what was typed, does not   *)
(* hide it, wherever it ends.                                              *)
DragStays ==
  [][\A t \in Tabs :
       page[t].over.press = "dialog" /\ page'[t].over.press = "none" =>
         page'[t].over.isShown = page[t].over.isShown]_page

(* What a dialog sends was typed since it was opened, and a new container  *)
(* gets a name that will do.                                               *)
OwnArgument ==
  \A k \in conns :
    /\ k.modal.argument # "" => k.modal.typed
    /\ k.modal.cmd = "add-fedora" => is_fqdn(k.modal.argument)

(* Lines a command has finished stay on the page, with their style, until  *)
(* the next command, unless ssh fails: then they are gone.  Where it may   *)
(* break, of the first two commands: the stream of the first unlocks the   *)
(* page once more when it closes, during the second, and the output of a   *)
(* third takes turns with that of the second.                              *)
LinesStay ==
  [][\A t \in Tabs :
       /\ page'[t].sent = page[t].sent /\ page'[t].terminal # ErrorText
       /\ "broken" \in env.events => page[t].sent <= 2
       => IsPrefix(Finished(page[t].terminal), page'[t].terminal)]_page

(* A page of a user that connected when all users were loaded does not     *)
(* stay locked, whether or not ssh connects or breaks.                     *)
Unlocked ==
  \A t \in Tabs :
    env.events \cap {"early", "disconnect", "restart", "exec"} = {}
      /\ NameOf[t] \in Users /\ page[t].lock ~> ~page[t].lock

(* Types, one command at a time, and that one where the user meant it.     *)
GuiInv == TypeOK /\ OneCommand /\ RightTarget

(* The menus and the dialog: one overlay at a time, which sends its own.   *)
DialogSound == OneOverlay /\ OwnArgument

(* What stays on the page until the user or a command says otherwise: the  *)
(* dialog in which text is selected, and the lines of output; where ssh    *)
(* fails, its error takes their place.                                     *)
PageKept == DragStays /\ LinesStay
=============================================================================
