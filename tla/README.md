# srvctl v2, modelled in TLA+

srvctl v2 manages a farm of LXC containers on Fedora hosts.  It is a set of
bash commands (`commands/`) over a library of bash functions (`libs/`), with
four small node servers (`hs-apps/`) and the JavaScript their pages load
(`hs-apps/srvctl-gui/js`).  This directory holds TLA+ models of the parts of it
that carry its logic, TLC configurations that check them, and proofs checked by
TLAPS.

- [How the program runs](#how-the-program-runs)
- [Inventory](#inventory): components, state, operations, what is hard
- [Plan](#plan)
- [The modules and the code](#the-modules-and-the-code)
- [Runs and bounds](#runs-and-bounds)
- [Fairness](#fairness)
- [What is proved](#what-is-proved)
- [What the models say of the code](#what-the-models-say-of-the-code)
- [What is not modelled](#what-is-not-modelled)

## How the program runs

`srvctl.sh` (root, or a user) and `srvctl-sudo.sh` (a user through sudo, which
sets `isSUDO` and `SC_USER`) source `init.sh`, every file of `libs/` and then
every file of `commands/`; the command whose name was typed runs and ends at
`ok`.  One invocation is sequential.  Several invocations run at the same time
(root, users through sudo, the web interface through ssh, cron, the other hosts
through ssh), all state is in files, and *nothing is locked*.  So in every
model an actor is one invocation, and each shell command that reads or writes a
shared file is a step of its own when another actor could come in between.

A long command such as `regenerate` is a sequence of functions that touch
different files; each module takes the functions that touch its files, in the
order of `commands/hs-regenerate-configs.sh`, and leaves the others out.

The web interface, `hs-apps/srvctl-gui.js`, is one node process: an actor is a
callback, which runs to its end.  Its two pages are single threads too, in which
timers and events of the browser come in any order their causes allow.  The page
`/` runs commands; the page `/ssh/<user>` is a terminal.  Both talk to the
server through socket.io.

## Inventory

### Container registry and numbering

*State:* a directory `$SRV/VE` per container (`rootfs`, `settings/users`,
`config.counter`, `config.ipv4`, `config`), the counter file
`/var/srvctl-host/counter`.
*Operations:* `add`, `regenerate`, `remove`; a directory copied into `$SRV` by hand.
*Hard:* the counter is recomputed from what the caller can see, read and
written back without a lock; a command may die between making the directory and
numbering it; MAC, IPv4, IPv6 and interface name all come from the one number.
*Correct when:* numbers and addresses are distinct, and a container keeps its
number and its users for as long as it exists.

### Dynamic DNS

*State:* `D.auth`, `D.ip`, `D.lock`, `D.updt` under `/var/dyndns`, the zones of
named, the requests in the node server (`hs-apps/dyndns-server.js`) and the
scripts it spawns (`hs-apps/dyndns-update.sh`).
*Operations:* a POST with a key, `add-dyndns`, `remove`, `regenerate`.
*Hard:* callbacks of several requests interleave; the script reads what another
request has written by then; `D.lock` decides that nothing has to be done;
`regenerate` writes zones long before it restarts named.
*Correct when:* what a client posts is published, files and named agree when
nothing is under way, "Nothing to do." is only said when it is so, and only the
holder of the key changes an address.

### Container lifecycle and shares

*State:* whether each container runs, `settings/disabled`, its root file
system, the copies in `$TMP` and `$BACKUP_PATH`, and what is mounted for its
users under `/home`: bind mounts, NFS shares and backups.
*Operations:* `add start start-all stop disable stop-all kill kill-all reboot
reboot-all remove destroy regenerate`.
*Hard:* containers go up and down on their own time after the command has ended;
directories of shares are removed with `rm -rf` after an `umount` that may have
failed or been undone; loops look at a state that has changed when they act.
*Correct when:* files are deleted only by `destroy`, a disabled container stays
off, shares follow the containers, every command ends.

### Users, passwords and access

*State:* accounts with `~/.password` and its hash on each host, the store
`/var/srvctl-users` of each host, the login itself, the mark that a password was
set, `settings/users` of each container and the keys and hashes it holds.
*Operations:* `add-user`, `new-password`, `update-password`, `regenerate` (six
phases), and what users edit by hand.
*Hard:* one host is the authority and the others synchronise with it, if they
reach it; six steps set one password, and a command may die between any two.
*Correct when:* login, file and hash go together, a user has one password on all
hosts, a container admits the users who are listed.

### Cluster: published names and zones

*State:* on each host a section of names for each host (`etchosts`,
`relaydomains`, `ssh_config`), the file put together from them, a tarball of
zones for the others, the includes of named and what named has loaded.
*Operations:* `add`, `remove`, `regenerate` on any host.
*Hard:* what one host reads of another is as old as the last command there; a
container that moves is in two sections for a while; two commands on one host write
and append to the same includes of named; named does not load two definitions of a
zone, and then `add` exits half way.
*Correct when:* a name is on one host and a zone has one master, `add` finishes,
and a `regenerate` learns what all hosts have.

### Reverse proxy and its certificates

*State:* per host the directory `/var/pound/HOST` of its services, copies of its
peers' directories, the main files that include them, `/etc/hosts`, the
certificate of each container and the one letsencrypt keeps, what pound has
read, the day stamp of letsencrypt.
*Operations:* `add`, `remove`, `settings`, `regenerate [all]`, `import-crt`,
`diagnose`; pound crashes, days pass, hosts do not reach each other.
*Hard:* the directory is removed and rebuilt while other commands (of this host
and, with rsync, of others) read it; pound reads everything or does not start;
certificates are obtained *through* pound, so a pound that is down can not be
given the certificate it is restarted for.
*Correct when:* pound runs and serves what the settings say, its certificates
have not ended, and after a failure it comes back.

### Backups and the database of a container

*State:* directories of dumps in the container, the archive on its host, the
mirror on another host, the password of the database's root and the file that
holds it.
*Operations:* `backup-db [clean]`, `backup`, `backup-hosts`, `secure-mariadb`,
`reset-db-root-passwd`, `remove`, `restore`.
*Hard:* the database or the container stops in the middle; older dumps are listed
first and removed last; two backups run at once; password and file change in
two steps.
*Correct when:* complete dumps are never lost, an undisturbed backup delivers,
and a removed container can be restored.

### Web interface

*State:* the page (lock, selected host and container, lists, menus, dialog,
output), the connection, the array of users loaded by the server, ssh
connections with what the command has printed so far.
*Operations:* opening a page, selecting, opening a menu or the dialog, typing in
it, clicking beside it, sending a command; everything else is a callback: users
loaded, lists received, ssh ready, data, closed or failed.
*Hard:* callbacks in any order; lists arrive after the user has chosen; a
connection comes before its user is loaded; server and page lose each other;
bootstrap binds and removes the handlers of an overlay as it is shown and hidden;
output is turned into HTML anew for every piece that arrives.
*Correct when:* one command at a time, as the right user, on the host and
container that were chosen, with the argument that was typed; the page is
unlocked in the end; at most one overlay, and finished lines stay.

### Connection of a page to the server

*State:* `js/socket.io.js`: the Manager (`readyState`, reconnection with its
timers), the Socket (`connected`, what it has buffered), the engine (its
transport, `writeBuffer`, `prevBufferLen`, `upgrading`), requests and frames on
the network.
*Operations:* `emit`; a poll or a post ends or fails; probe, upgrade and close of
the transport; ping; a reconnection is due.
*Hard:* the move from polling to the websocket while requests are under way;
`writeBuffer` is cut by a length remembered earlier; a failure between any two
steps; a handshake that is answered after the page gave it up.
*Correct when:* the page and the server have a queue of messages in either
direction for every session, and the page is connected again.

### Terminal in the browser

*State:* `js/hterm_all.js`: two screens of rows, each a list of DOM nodes with one
style; the cursor, kept as row and column *and* as node and offset; the
scrollback; the scroll region, tab stops, modes; the parser with a half-read
sequence; what the page shows of the rows, between folds; selection, mouse,
keyboard; preferences, shared by all pages of the browser through its storage.
*Operations:* `interpret` a piece of output, `realizeSize`, wheel and scroll bar,
key events, mouse events, copy, focus, changes of preferences; a dozen timers.
*Hard:* the same thing kept twice; output cut anywhere; rows that move while a
selection holds them or a timer to draw them is due; wide characters; a
connection that is lost and a new shell behind the same terminal.
*Correct when:* nodes behave as cells, pieces as the whole, what is seen is what
the terminal has, what is copied is what was selected, and shell and window agree
on the size.

### Accounts of a new site

*State:* `ve-install/codepad-project-boilerplates/mongodb-node-passport`: accounts
with an identity per provider, sessions in memory, requests under way.
*Operations:* sign up, log in, connect and unlink an identity, log out, restart.
*Hard:* a request reads the account, asks the database and saves, with other
requests in between.
*Correct when:* an identity is in one account, nobody is in another's account, an
unlinked identity leads back to its account, every request is answered.

### The rest

Zones as text and their serial numbers, certificate authorities, mail, VPN,
status, services, installers, the software installed in containers, the client,
and vendored code are listed in `PROJECT.json` with the reason each is not
modelled, or not yet.

### How the components interact

The *registry* gives the list of containers (`lxc-ls`) on which `regenerate`
loops in every other component. *Cluster*, *Users* and *Proxy* share files
between hosts over ssh and rsync, by pulling; ROOTCA_HOST, which also pushes its
store to the others, is the authority for users, every host for its own
containers. *Dynamic DNS* and *Cluster* write zones for the same named.
*Lifecycle* is called by `add` and `remove`; `remove` ends with the regeneration
of names, zones and proxy. The *web interface* runs any command over ssh. Where
two components meet, each module has the other side as far as its own properties
depend on it: `Cluster.Finish` stands for what `add` does when the zones are
loaded, `Proxy.EtcHosts` for what pound may resolve.

## Plan

Order, most important first; what is not done is at the end.

| # | module | what | state |
|---|--------|------|-------|
| 1 | `ContainerNumbers`, `ContainerProofs` | the registry, with its invariant proved | done |
| 2 | `DynDns`, `DynRecord`, `DynDnsProofs` | the service, the register it implements, and the proof that it does | done |
| 3 | `Lifecycle`, `LifecycleProofs` | containers, shares, removal; proved for one command at a time | done |
| 4 | `Users`, `UsersProofs` | passwords and access over several hosts, and what is proved of them | done |
| 5 | `Cluster`, `ClusterProofs` | names and zones over several hosts, and what is proved of them | done |
| 6 | `Gui` with `Overlay` and `Term2html`, `GuiProofs` | page, server, ssh; menus, dialog, output; all of it proved but the output and liveness | done |
| 7 | `Backups`, `ContainerProofs` | dumps, archives, passwords of the database, and the proof that dumps are kept and delivered | done |
| 8 | `Proxy`, `ProxyProofs` | pound, its files and certificates, and the proof that it serves what the settings say | done |
| 9 | `SocketIo`, `MessageChannel` | the connection of a page and what it promises | done, refinement checked |
| 10 | `HtermScreen`, `HtermTerminal`, `HtermVT`, `HtermSelection`, `HtermCells`, `Hterm` | the terminal under output and new sizes, against rows of cells | done |
| 11 | `HtermScrollPort`, `Keyboard`, `WebTerminal` | the page of a shell, on the channel of 9 | done |
| 12 | `Accounts`, `AccountsProofs` | sign-up and login of a new site, with its safety proved | done |
| 13 | `ZoneSerial` | the serial number of a zone: day and count in 32 bits, two zones of one host, slaves that compare by RFC 1982 | next |
| 14 | `Certificates` | authorities, user certificates, import | next |
| 15 | `PoundRoutes` | which service a host name matches: a pure function over layers of patterns, against the container that owns the name | next |

Abstract specifications: `DynRecord` (a register per host) and `MessageChannel`
(two queues per session) are done, `HtermCells` is the reference for the
operations on a row.  Next are a directory of names for `Cluster` (a regenerate
copies what the hosts have) and a mailbox of one command for `Gui`.

Composition: `SocketIo` implements `MessageChannel`, and `WebTerminal` is built
on that channel, with the scroll port, the mouse, the keyboard and the
preferences as parts of one page.  `Gui` has its overlays and its output as parts.
`PoundRoutes` is to be used by `Proxy` in place of its kinds of service,
`ZoneSerial` by `Cluster` in the step `Zones`.

Theorems planned after those below: the refinement of `SocketIo`, for any number
of sessions, when there is a prover that does induction over sequences.

## The modules and the code

All modules that have several *circumstances* hold them in the variable `env`,
chosen once in `Init` from the constant `Envs` and never changed.  A record of
`Envs` names the commands, actors and faults of one scenario, so that one run
checks several scenarios, and a property says in its first conjunct under which
circumstances the code promises it.  `job[p]` is always the invocation that
caller `p` runs, with its place (`pc`, or the list of steps left).

**ContainerNumbers.**  `ve[c]` is `$SRV/c`: `num` is `config.counter` (0: no
file), `ip` is `config.ipv4` as its last two octets, `config` says whether
`lxc-ls` lists it, `hostname` whether `rootfs/etc/hostname` exists, `users` is
`settings/users`.  `AddCheck` to `WriteConfig` are `add`; `ScanNumbers`,
`ResetCounter`, `ReadCounter`, `WriteCounter` are `regenerate_counter` and the
lines that increase the counter, one step per file access; `ScanDir` is one turn
of `regenerate_config_files`.  `lxc_ls(p)` is the wrapper that hides containers
from users of sudo.  `ToIp` is `to_ip` with its base of 250.

**DynDns / DynRecord.**  `auth ipfile lock updt` are the four files of a host,
`zone` its records in named.  A request goes through the callbacks of the server
(`Authorize`, `OpenIp`, `FillIp`: `writeFile` empties, then fills) and then
through the lines of the script.  An address has a width so that two overlapping
writes can leave a `Garbled` one.  `Updated` is what nsupdate makes of the lines
in `D.updt`.  `DynRecord` is what the service promises: a register per host whose
posts are accepted and decided.  The mapping: a post is accepted when its address
is in `D.ip`, decided when `nsupdate` has run.

**Lifecycle.**  A command is one or more loops over containers, each a list of
steps (`Loops`); the steps are the tests and effects of `fslib.sh`, `lxclib.sh`,
`backup.sh` and the command files.  `Container(c)` lets a container boot, halt or
reboot.  The several users and shares of a container are one share of each kind
(`bind`, `nfs`, `backup`); the code treats them alike in nested loops.

**Users.**  Phases (`Phases`) of a command, for each user or container the steps
(`StepsFor`).  `Sync` is `regenerate_users_sync`, `Config`, `Add`, `Collect`,
`Passwd`, `Mark`, `Sha`, `Save` are the functions of `srvctllib.sh` and
`regenlib.sh` that create a user and set a password.  `AppendKeys` and `Share`
write what a container may see.  A password is a value; its hash is the password
it was made from.

**Cluster.**  `Steps` gives the steps of `add`, `remove` and `regenerate` that
concern other hosts, for one kind of section at a time; `Pull`, `Fetch` and
`Check` visit one host each.  `Loads` is what named refuses.  Nothing in the code
keeps two commands from one host.  In the circumstance `overlap` they run there
together; in the others an operator waits for a host's command before typing the
next, which is a condition of those circumstances and not of the code.  The code
empties the includes of named (`Empty`) and appends to them in a loop (`Zones`,
`dnslib.sh:309-369`); when another command is between that and its restart of named
(`Rivals`), what the files hold depends on where, and the host is in `mixed` until a
command empties them alone: a reader then finds any part of the zones that were
written (`Found`), and named may find one of them twice and fail (`Restart`).  Beside
that, a section is written, and a file put together, in one step.

**Gui.**  `up` and `down` are the messages of a page's socket, `conns` the ssh
connections of the server with what each is for.  `meant` records what the user
saw when choosing, for the properties only.  `Command` is `command`,
`command_hs` and `command_ve` of `index.js`, `sethix` what a list that arrives
does to the selection.  `Overlay` is what bootstrap keeps of menus and dialog:
which are open, the backdrops, and the handlers that are bound (`handlers`), which
decide what a press or a key does.  `Term2html` makes the page's terminal from the
text of a command; what was printed is kept with the ssh connection.  When the
connection fails, its error replaces what the page shows (`ErrorText`) and unlocks
the page (`EmitError`).

**Backups.**  `points[t]` is the directory made at time `t` with the databases
dumped into it; `arch`, `mirror` and `from` are copies in the same form.  `Old`,
`Mkdir`, `Show`, `Dump`, `Clean` are `backup-db`.  The `7z u` of `run_backup` lists
`/srv` (`Archive`) and then reads what it listed and does not have yet
(`ArchiveRead`); that the new archive replaces the old one at once is how 7z does it.
`RsyncList` and `RsyncCopy` are the mirror.  `rough` and `smooth` are history for
`BackupDelivers`.

**Proxy.**  `dir[h][d]` is `/var/pound/d` on host `h`: whether its top files are
there, which containers they include, and for each container the service and
the certificate written.  A certificate is the day it ends.  `Wipe` to
`WriteDone` are `regenerate_pound_files`, `Truncate` to `AddPeers`
`regenerate_pound_sync`; `AcmeSkip` to `Deploy` are `get_acme_certificate`, where
`AcmeExit` is `exit 99` and `exit 98`.  `Complete`, `Resolves` and `Reads` are
pound itself: it starts if all files and certificates are good and all back ends
resolve; a name that is not in `/etc/hosts` may still be in the DNS, so with
unresolved names it may or may not start.

**MessageChannel / SocketIo.**  `MessageChannel` is the promise: sessions with a
queue either way (`up`, `down`), what waits while there is none (`waiting`), and
`Cut` and `Lose` for what a lost session takes with it.  `SocketIo` has the
Manager (`mgr`), the Socket (`sock`), the engine with its transport (`eng`) and
for each session the requests and frames on the network (`net`).  What the code
does without waiting, from `emit` to the transport's `write`, is one step; a
request that ends, a frame that arrives and a timer are steps.  `hand` is the request for a
session, which the server may answer after the page has given it up.  The server
(`srv`) is external and does what the client relies on.  The mapping to the
channel counts what is written and unread, in flight and buffered (`UnderWay`).

**HtermScreen, HtermTerminal, HtermVT, HtermSelection.**  Pure operators that take
a screen, a terminal or a terminal with its parser and return it, with the names
of the methods.  A row is a sequence of nodes, a node its text and style; the cursor is
`row`, `col` *and* `node`, `off`, as in the code.  `HtermTerminal` has the two
screens, the scrollback, region, tab stops and modes; `HtermVT` the parse functions
(`func`) with their arguments kept from piece to piece, and the dispatch of
control characters, `ESC`, `CSI`, `OSC`; `HtermSelection` what a double click
selects and what is copied of it.  A loop of the code that would not end is the
mark `hung`.  `HtermCells` is the reference: a row is one cell per column.
**Hterm** is the machine: `Write` takes a stream of its theme and gives the parser
a first piece, `Receive` the rest, `Resize` a new size, `Wipe` clears all.
`promise` is the terminal that had received the stream in one piece.

**HtermScrollPort, Keyboard, WebTerminal.**
`HtermScrollPort` has rows with an identity (the DOM node) and a number
(`rowIndex`), and the document `dom` with its folds and select bags; `queue` and
`later` are the timers; `OnMouse` decides who gets the mouse, `OnCursorBlink` whether
the cursor is seen.  `Keyboard` is the table of keys with the modifiers and modes, and
the preferences: their manager, the storage and the storage events between pages.
`WebTerminal` makes of them the page that `wetty.js` builds on a connection:
`Output` is anything the shell writes that moves rows or asks for something,
`Connect` a new connection with a new ssh, `buf` and `toShell` what is on its way.
`Theme`s say which of the actions a behaviour has.

**Accounts.**  A request is `sent` (the session gives the account as it is stored
then), `started` (the database is asked for the identity) and `saving` (it was
told to change), which are the callbacks of `passport.js` and `routes.js`;
`Saved` is the database.  `owner`, `home` and `shared` are history for the
properties.

## Runs and bounds

Every run is exhaustive and passes.

| run | states | what it shows |
|-----|-------:|---------------|
| `numbers` | 1 961 024 | root alone with imports and short names: `NumberingInv`, the invariant that is proved and that implies distinct numbers and addresses; root and a sudo user, both container types, commands killed anywhere, one at a time and with names in full: `NumberKept`, `UsersKept` |
| `dyndns` | 39 585 | two hosts with a request each at a time, a client that repeats a request, a client over IPv6 with a failing nsupdate: `DynDnsInv` (types, and files agree with named), `RequestsRight` ("Nothing to do." is true, and only by key), `Published`, `ImplementsDynRecord` |
| `lifecycle` | 70 651 | all commands on two containers in order, and on one with kills, slow boots, failing starts, capitals and busy backups: `LifecycleInv` (types, a removed container leaves nothing, shares follow), `NothingDeleted`, `Disabled` (stops and stays so), `EndsAsPromised` (a command ends, with what it is for) |
| `users` | 923 308 | two hosts; passwords edited and chosen; users listed and unlisted; kills and unreachable hosts; two users: `UsersInv` (types, login, file and hash match, one password on all hosts), `Repaired` after a kill, `AccessListed` |
| `cluster` | 3 169 705 | a name that moves between three hosts, for each kind of section; two names with fixed hosts, two commands at a time and hosts lost; kills; two commands at a time on the same host: `ClusterInv` (types, no name server is given the zones of two hosts for a name, no `add` stops half way unless it is killed or overlaps with a command on its host), `Converged` |
| `gui` | 689 774 | one page with unreliable ssh, with lost connections, with a server that restarts; two pages of a user and a stranger; mouse and keyboard; a command that prints: `GuiInv` (types, one command, the right target), `DialogSound` (one overlay, its own argument), `PageKept` (a drag keeps the dialog, lines stay unless ssh fails), `Unlocked` |
| `backups` | 525 619 | all that stops or fails, one backup at a time; kills; two backups at a time; removal and restore: `BackupsKept` (types, complete dumps and their copies are not lost), `BackupDelivers` (new dumps are in the archive, unless another backup removed what 7z had listed) |
| `proxy` | 235 531 | all commands at one host; overlapping ones; two hosts that lose each other; three days with certificates; a proxy that falls: `ProxyInv` (types, served, certificates have not ended), `Recovers` |
| `socket` | 178 730 | two sessions with a failure anywhere, also in the move to the websocket: `ImplementsChannel`, `GoesOn` (what was emitted arrives or the page learns that it did not; connected again) |
| `hterm` | 420 347 | up to four sequences of one of four themes (lines of text; editing a row; moving rows; modes), each in one or two pieces, and a new size: `CursorSound`, `CellsAgree`, `PiecesAgree`, `TextKept`, `WordSelected` |
| `webterm` | 590 534 | the page of a shell in fourteen themes (output, sizes, scrolling, selecting and copying, mouse, cursor, lost connections, preferences, keys): `ScreenRight` (rows, cursor, blinking), `KeyboardRight` (stored settings apply, no alt key stays down), `ModifiersTold`, `SelectionHolds` (drawing keeps it, copies are whole), `DragGoesOneWay`, `SizeAgrees` |
| `accounts` | 73 757 | two people at two browsers with two requests each, one person at two browsers with three each, a site that is restarted: `AccountsInv` (types, an identity in one account, nobody in another's), `ComesBack`, `Answered` |

Four more configurations reproduce what the code is known to do, and TLC finds
each property violated under them: `NumbersSudo.cfg` (`MCContainerNumbers`),
`DynDnsRace.cfg` (`MCDynDns`), `LifecycleRace.cfg` (`MCLifecycle`) and
`Restore.cfg` (`MCBackups`); see [below](#what-the-models-say-of-the-code).

Why the bounds are enough:

- *Two or three names, hosts, callers.*  Every property relates at most two
  containers, users or hosts; a third host is there in `Cluster` because a name
  that moves twice can be in three sections.
- *Numbers.*  `max` in `Numbers.cfg` is a bound on new directories, not on the
  counter; with three names it takes removals and re-adds to reach it, and the
  invariant is inductive, so the bound hides nothing of what it covers.
- *Addresses.*  Two IPv4 addresses of different width and one of IPv6 are all
  the script can tell apart.
- *Commands of a page.*  Three or four: the third already meets the answers of
  the first two.
- *Dumps.*  `MaxPoints = 3`: one complete, one failed, one under way.
  `BoundReached` is the step of a system whose bound is used up and only keeps
  TLC from taking it for a deadlock.
- *Sessions and failures of a connection.*  `MaxSessions = 2`, `MaxFaults = 1`: a
  property relates a session and the next; one failure at every point includes
  each during the move to the websocket.  Two messages up and one down: the
  second can overtake or follow the first.
- *Rows and columns.*  Screens of two to four rows and columns and tabs of two
  columns: a row can wrap, a wide character can meet the margin, a region can
  have rows before and after it.  Four sequences, of which any two may meet, on
  what two others left behind.
- *Windows.*  Two or three rows with a terminal made at two and a pty at four:
  the three sizes differ, so that agreement is reached and not given.
- *Requests of a browser.*  Two or three, four for one browser with a restart:
  linking, unlinking and logging in again is three.
- *Days.*  `Margin = 1`, `Life = 2`, three days: a certificate is got, becomes
  due, is renewed.  The code has a week and three months; only their order
  matters.

Deadlock is checked except in `cluster`, `users`, `gui`, `socket`, `hterm`,
`webterm` and `accounts`, where the system may have nothing left to do: all names
added and nobody types, all passwords in use, all commands of a page sent, all
messages said, all output written, no request left.

Symmetry is used only where no property is a liveness property: passwords in
`users`, callers in `cluster`, databases, passwords and callers in `backups`.

Each property has a mutant in `PROJECT.json`: a definition of the module changed
as a plausible mistake in the code would change it (a guard dropped, a file not
written, a comparison with the wrong side), after which TLC finds the property
violated.  The mutants stand in the modules before the definitions they change.

## Fairness

- `DynDns`: a callback that is due is run and a spawned script goes on (node and
  the kernel do that), a command that began goes on.  Nobody has to post.
- `Lifecycle`: a command that runs goes on, a container that was told to boot,
  halt or reboot does so.  The circumstances with killed commands are excluded
  from the liveness properties by `Orderly`.
- `Gui`: messages of an open connection arrive, ssh ends one way or another.
  Nobody clicks.
- `Proxy`: a command that began goes on (weak fairness), and where `again` holds
  the operator types `regenerate` again and again (strong fairness, since another
  command may be running each time); that is the recovery the code relies on,
  nothing else restarts pound.
- `SocketIo`: events of the browser are delivered and its timers fire, a poll is
  sent again, the server reads and answers what reached it.  Nobody types, and
  nothing has to fail: `MaxFaults` is a bound on failures, so that in the end
  there are none, which is what reconnecting relies on.
- `WebTerminal`: while something is under way (a timer, an event, a connection, a
  message, `~Idle`), some step of the browser, the network or the server that
  serves it is taken again and again, in whatever order; the user, the shell and
  the blinking of the cursor (`done`) are not among those steps.
- `Accounts`: callbacks run and the database answers, for each browser.  Nobody
  asks.
- `ContainerNumbers`, `Users`, `Cluster`, `Backups`, `Hterm` have safety and
  action properties only and need none.

## What is proved

The modules with proofs write a step that changes several fields of one entry as
`[f EXCEPT ![p] = [f[p] EXCEPT !.a = .., !.b = ..]]`, and leave out `@` in an inner
`EXCEPT`.  The meaning is that of several updates at `![p]`; but tlapm 1.4.5 translates
several updates at one index, and a nested `@`, into contradictory obligations, from
which anything follows.  For every action of these components it has been
tried that tlapm does not prove `FALSE` from the types and the action.

`ContainerProofs.tla`, of `ContainerNumbers`, for every set of names, arguments and
callers and every circumstance, from `ConstantsAssumption` alone:

- `TypeCorrect`: `Spec => []TypeOK`.
- `NumberingCorrect`: `Spec => []NumberingInv`, where
  `NumberingInv == Disciplined => OrderlyNumbers`.
- `NumbersDistinctCorrect`: `Spec => []NumbersDistinct`: no two containers of a
  host have the same number or address, if the host is used with discipline.
- `NumberKeptCorrect`: `Spec => NumberKept`, and `UsersKeptCorrect`:
  `Spec => UsersKept`: no step renumbers a container that stays or takes its
  users away, if commands come one by one.

`Disciplined` says: one command at a time, by root, to its end, and OS containers
only.  It is what the code needs: without any one of the four TLC finds two
containers with one number (below).

`DistinctNumbers` is not inductive.  That a fresh number is free depends on the
counter being ahead of every number in use (`CounterAhead`); that it still is
when the number is written depends on where the command stands (`NumberFree`);
that the counter is ahead after `regenerate_counter` depends on `lxc-ls` seeing
every numbered directory, that is, on every number having its `config` but for the
one being written (`NumberedSeen`), which fails for apache containers (`OsOnly`).
Distinct addresses need, besides `ToIpInjective` (division by 250 with remainder
loses nothing), that a configured directory has the address of its number but
for the step between the two (`AddressSettled`).  The proof has a lemma per
conjunct and action that can disturb it, and one induction for all.
`ToIpOctets` says up to which number the octets are octets: 63 750 containers.

`NumberKept` and `UsersKept` are properties of a step and follow from another
invariant, `KeepingInv == OneByOne => KeepsNumbers`.  `OneByOne` asks for one
command at a time and names given in full, and allows what `Disciplined` does
not: sudo users, apache containers, commands killed anywhere.  Three steps write
a number or the users, and each is harmless for a reason of its own: `add` has
looked for the directory and nobody else makes it (`AddMakesNew`), `regenerate`
has looked for a directory without a number (`RegenerateNumbers`), and a
directory without a number has no `config` yet (`ConfiguredNumbered`, which needs
`NumberInHand`: what `config` is written from is there, and `add` is never among
the commands that go through the directories, so that `AddMakesNew` covers all its
writes).  With two commands at a time the first two looks are stale when they are used, and TLC finds a container
renumbered.

`DynDnsProofs.tla`, for every set of hosts, keys, addresses, request slots and
circumstances, from `ConstantsAssumption` of `DynDns`:

- `TypeCorrect`: `Spec => []TypeOK`, whatever interleaves.  `TypeOK` is not
  inductive: that a script only ever holds what may be published needs the stage
  of the request (`Typed`: from `server` on the address is an IPv4 one).
- `AgreementCorrect`: `Spec => [](env.oneByOne /\ env.apart => DynDnsInv)`: files
  and named agree whenever nothing is under way, if a host has one request at a
  time and commands keep apart from requests (and, in `Agreement` itself, if named
  can be reached and clients have IPv4 addresses).
- `RequestsRightCorrect`: `Spec /\ [](env.apart) => RequestsRight`.
- `RegisterCorrect`: `Spec => DR!Init /\ [][DR!Next]_(DR!rvars)`: the service
  implements the register `DynRecord`, step by step.

The argument: `RegisterInv` says for each stage of a request what `D.ip`, `D.lock`,
`D.updt` and the zone of its host hold (`RequestInv`, `ScriptInv`); that a host
without a request past its authorisation is `Settled`: the lock is the address
and the zone is what `regenerate_dns` would write; and that during a command at
most one zone differs from its file, that of the host being added or removed
(`CommandInv`).  A step of one request leaves the others alone because they are
about other hosts (`OneEach`, `Local`), so that each stage has to be looked at
once.  `UpdatedScript` is what nsupdate makes of the script as the request wrote
it.  `KeyInv`, for requests that do overlap, says that the key the server
compared is still that of the host.  The steps of the register follow:
`RegisterMove` says what counts as one, `RequestMove` and `CommandMove` go through
the actions.  A post is accepted with the write of `D.ip`, decided by `nsupdate` or
by "Nothing to do.", and the restart of named creates or drops the one zone that
differed.

`ClusterProofs.tla`, for any hosts, names, callers and circumstances, from
`ConstantsAssumption` of `Cluster` (there are finitely many hosts and callers):

- `ClusterSafe`: `Spec => []ClusterInv`.  Its part `OneMaster`: where every name has
  one home, or commands run one at a time and all hosts answer, no name is on two
  hosts and no name server is given the zones of two hosts for a name; with one home
  also where commands overlap on a host, are killed or do not reach others.  Its part
  `AddFinishes`: there no `add` stops half way, unless commands are killed or overlap on
  a host; with overlap named may be given a zone of its own host twice (below).
- `ClusterConverges`: `Spec => Converged`: a `regenerate` that nothing disturbed
  ends with the containers of every host and their zones.

`Jobs` says that what is left of a command is the end of its program, so that a
step tells which steps came before it.  That an `add` makes no second name needs
`Homes` (a name is only at its homes) or, for one command at a time, `Fresh`: what
a host publishes is what it has, so that the check of `add` sees the cluster as it
is.  `Apart` is distinctness itself, `Opened` that a container is ready or its `add`
still under way, `Emptied` that the own section was emptied before it is appended to,
`Own` that a host knows its own names, and `Gathered` how much of the cluster a
`regenerate` has collected after each of its steps.  `Unmixed` says that without
overlap no command has a rival on its host, so that what is read of the includes is
what was written (`Restarted`).

`GuiProofs.tla`, for any users, hosts, lists, pages and circumstances:

- `GuiSafe`: `Spec => []GuiInv`: a command runs as the user of the certificate, on
  the host and for the container that were shown when it was chosen, and a page
  has one at a time.
- `DialogSafe`: `Spec => []DialogSound`, `DragKept`: `Spec => DragStays`: menus and
  dialog do not get in each other's way.

`Inv` has a part per place a command passes: pages, messages up and down,
connections, and the server.  That the target is the one that was meant
(`Told`) needs one page per user (`OnePage`): the indices of a dialog are looked up
in `users[].main`, which all pages of a user share, so that the lists must not
change between the moment they were shown and the moment they are used
(`Unknowns`, `NotYet`, `OncePerHost`, `LastSeen`, `LastSent`).  That one command is
under way (`One`) needs `Calm`: the lock of the page is the only guard, and a
broken connection leaves it.

`AccountsProofs.tla`, for any people, browsers, e-mails and ids:

- `AccountsSafe`: `Spec => []AccountsInv`: an identity is in one account unless it
  is in `shared`, and nobody is logged in to what somebody else made.
- `ComesBackSafe`: `Spec => ComesBack`: a provider leads back to the account it
  was used for last.

Everything in an account belongs to its maker, in requests and in saves as well.
`Once`, an identity in one account and in none before a new one is stored,
depends on a request or a save about an unshared identity being alone (`Alone`): two
requests for one identity are exactly what `shared` records.  `HomeOK` says that
the id of a provider stays in the account it was last used for, also after its
token was removed.

`LifecycleProofs.tla`, for any containers, callers and circumstances, with
`MaxActive = 1` (one command at a time; two are the finding `LifecycleRace`):

- `LifecycleSafe`: `Spec => []LifecycleInv`, where nothing goes wrong.
- `DisabledSafe`: `Spec => DisabledStays`, whatever goes wrong.
- `DeliversWhatItSays`: `Spec => Delivered`, where nothing goes wrong.
- `NothingLost`: `Spec => NothingDeleted`, also if commands are killed anywhere or
  mounts are busy, but not both, and not if rsync fails: with either, TLC finds
  files deleted (below).

What a step may rely on is what the steps before it did.  The order of the steps
in the 14 programs is proved once (`Before`, `Followed`, `Adjacent`), and the
invariant names for each step what must have come first: a container is
enabled before it is started (`EnabledOK`, `StartOK`), it is unmounted before its
directory is removed (`GoneOK`, `NfsOK`), a copy is whole before the original goes
(`CopyOK`, `WritableOK`).  The first kind (`FilesOK`, `NextOK`) holds whatever goes
wrong, since a killed command does no more steps; `GoneOK`, `RemoveOK` and `NfsOK`
where nothing goes wrong; `WatchOK` where also nobody reboots.

`UsersProofs.tla`, for any hosts, users, containers, passwords, callers and
circumstances:

- `UsersSafe`: `Spec => []UsersInv`.  Its part `LoginMatches` is for one command at a
  time that is not killed, without passwords edited by hand; its part
  `SamePassword` is for any number of commands, killed anywhere, with hosts that
  are not reached, as long as nobody chooses a password.
- `RepairedSafe`: `Spec => Repaired`, one command at a time, killed anywhere.
- `AccessSafe`: `Spec => AccessListed`, one command at a time, none killed, all
  hosts reached.

In both, passwords may be edited by hand, but between commands and never to a
password that somebody has already.

`Inv` has a part per reason.  `JobsOK` lists what may be left of the phases of a
command and of the steps of a phase (`Ahead`, `Left`), so that a step knows what
came before it.  `SetsOK` follows a password while it is set, through `passwd`, the
mark, the hash and the home.  `MatchOK` is `LoginMatches` for every state: it fails
for a user only while a command is at him (`Busy`).  `OneSource`: where nobody chooses,
every password is the passcode of the authoritative host.  `Repaired` needs more
than the files of one user: `update_password` compares with `current_password`,
which it does not reset, so that a user may be compared with the password of the
user before him.  That this never looks like his own is `Apart` (no password is
two users'; `get_password` gives a fresh one) with `SoundOK` (a hash has its
password, a mark its login).  `KeysOK` says that keys come from the authoritative
host, and `ProgressOK` what a `regenerate` has done after each phase, and within a
phase for the containers and users it has left behind: known keys, hashes of all
users, then each container reset and filled, then each container given its hashes.

`ProxyProofs.tla`, for any hosts, names, callers, days and circumstances, from
`ConstantsAssumption` of `Proxy`:

- `ProxySafe`: `Spec => []ProxyInv`.  Its part `Served`: once the commands of all
  hosts have ended, pound runs on every host, serves each container as its settings
  say and none that was removed.  Its part `NotEnded`: where each host regenerates
  every day, one command after the other, pound never uses a certificate that has
  ended.

`Disciplined` is what the code needs, and the model has what happens without it
(below): only `add` and `regenerate` overlap, and where they do no certificate is
due; names are removed at one host.  Failing requests for certificates and hosts that
do not reach each other are allowed in `Served`.  `ConstantsAssumption` asks for
`Margin >= 1`, as `letsencrypt.sh:105` looks 604800 seconds, a week, ahead: with 0 a
certificate that is good when one day's `regenerate` looks may have ended before the next
day's looks again.

`Served` speaks of the moment when nothing is under way, `Inv` of all others.  The own
directory of a host holds exactly its containers unless some command is about to make
it again (`Written`), so that of commands that overlap the last to begin puts right
what it took from the others; its top files are there but for one step (`Topped`), and
the main files name it unless a command that will do so is under way (`Included`).  That
pound starts needs more than the own files, for it resolves every back end it is given:
a copy of a peer's directory only names what `/etc/hosts` has of that peer, or what a
command in front of its fetch will replace (`Resolved`), and has no half service
(`Copied`).  A certificate is half written only while one command deploys it, and is
never copied then (`CertsOK`).  `PoundOK` joins them: pound is up, or a command that
overlaps will restart it.  For `NotEnded` a date is followed from letsencrypt through
the file of the container and the directory to pound (`DatesOK`): good today;
tomorrow too once a `regenerate` has ended today; and for `Margin` days where the
`regenerate` of today has passed (`Lasting`), which `DaysOK` ties to the stamp.

`ContainerProofs.tla`, of `Backups`, for any databases, passwords, callers, number of
directories and circumstances.  The module extends `ContainerNumbers` and has `Backups`
as the instance `B`, with constants and variables of its own, whose names begin with `b`
where both modules have one.  The assumptions of an instance are not facts, so that
`B!ConstantsOK`, which is what `ConstantsAssumption` of `Backups` says, is the hypothesis
of both theorems:

- `BackupsSafe`: `B!Spec => B!BackupsKept`.  The types; `DumpKept`: a container that has
  dumps of all its databases has such dumps as long as it exists, whatever runs at once
  and wherever it is cut short; `CopiesKept`: one command at a time, in a container that
  is not removed, the archive never loses complete dumps and the mirror has them when
  rsync ends.
- `BackupsDeliver`: `B!Spec => B!BackupDelivers`.  A backup that nothing stopped ends with
  dumps of all databases in the archive that are newer than its beginning, unless
  another `backup-db` removes a directory that 7z has listed and not read yet.

`Undisturbed` is the circumstance of both: commands overlap, or passwords are set, not
both (below).  `Inv` has a part per reason.  That removing the older directories loses
nothing needs that they are older than the one made (`InOrder`), that what was dumped
so far is still in that directory or something complete and newer has replaced it
(`Kept`, by `Whole`: another `backup-db` may have removed the directory, but only after it
had completed one of its own), and that the list of databases was not empty because the
database let nobody in (`Entered`).  The last is a matter of passwords: those of the
database and of the file agree, but for the one command that sets them (`Settled`,
`Filed`), which with `Alone` is not there while another lists.  `Survive` is what every
step does to the dumps of a container that stays, and the lemmas on the four ways in
which directories change (`SurviveMade`, `SurviveGrown`, `SurviveClean`, `SurviveSame`)
are all that is used of them.  `Copied` ties the archive to the container: what the
archive has complete, the container has too, so that replacing one by the other loses
nothing, and what 7z or rsync has listed is still what is there.  With two commands at
a time the second half does not hold, which is the condition of `BackupDelivers`: of the
directories listed none has gone when they are read.

Only model-checked, for these reasons:

- Liveness (`Published`, `DisabledStops`, `CommandsEnd`, `Unlocked`, `Recovers`,
  `GoesOn`, `SizeAgrees`, `Answered`, the fairness half of both refinements) is
  beyond the prover.
- `Gui.LinesStay`, `Hterm` and its modules, and `WebTerminal`: what printing a text
  of any length does is an induction over data, and the modules of the terminal
  declare recursive operators.
- The safety half of the refinement of `SocketIo` needs an induction over the queues
  that are mapped to the channel.

## What the models say of the code

Four of these have a configuration of their own, which TLC refutes:

- *A number is given twice.*  `regenerate_counter` (`regenlib.sh:803`) takes the
  highest number that `lxc_ls` shows; for a sudo user that is the highest of *that
  user's* containers (`NumbersSudo.cfg`, `DistinctNumbers`).
- *Files and named disagree.*  Two requests of one host share `D.ip`, `D.updt` and
  `D.lock`; the lock then keeps the client from repairing it (`DynDnsRace.cfg`,
  `Agreement`).
- *Files are deleted.*  `nfs_unmount` unmounts, another command mounts again, and
  `rm -rf` of the mount point reaches the files (`LifecycleRace.cfg`,
  `NothingDeleted`).
- *restore does not restore.*  It asks `authorize` for a container that is gone,
  and reads another directory than backup writes (`Restore.cfg`,
  `RestoreRestores`).

Outside the circumstances in which a property is stated, the code is known to
break it.  These were met while modelling; most can be seen by adding the
circumstance to `Envs` or the stream to the themes:

- Numbers: apache containers have no `config`, so their numbers are reused; two
  commands at once read one counter; a killed `add` leaves a directory that is
  numbered later; a short name passes the test for an existing directory and
  then overwrites the users and the number of the full name.
- Dynamic DNS: a `regenerate` beside a post restores an older address; an IPv6
  address replaces the IPv4 one in `D.ip` and the next `regenerate` publishes the
  server's; a failed nsupdate is recorded in `D.lock` as done.
- Lifecycle: a failing rsync in `remove` is followed by `rm` (circumstance
  `rsync`); a name in capitals is not stopped but removed; a `start` right after a
  `stop` finds the container still running; a `reboot` may find the sshd that is
  about to go down and mount a share that turns stale; `start-all` looks at
  `disabled` before it starts, `disable` may come in between.
- Users: a password in the home always overrides the store, also for "the same
  password" of `user-add-user.sh:64`; `current_password` is global, so that a user
  without a file is compared with the password of the user before; `regenerate_users` looks at
  `/home/$U`, a variable it does not set, and adds nobody; `$has=true` is no
  assignment, keys are appended twice; keys of a container exist after the
  authority has regenerated.
- Cluster: the name is compared with those of other hosts before the domain is
  appended; a host that does not answer is taken not to have the name; a moved
  container with an old tarball makes two definitions, named goes down and `add`
  ends half way; two commands on one host both empty and append to
  `srvctl-local.conf` and the includes (`dnslib.sh:309-369`), so that a zone is
  included twice, or lost: named does not start, or starts without it, and `add` exits
  at `dnslib.sh:437` with its container made and not started; zones of a host not reached are dropped; sections of hosts
  that left, and removed names in `ssh_config`, stay for ever.
- Web interface: after a failing `exec`, an early connection, a reconnect or a
  restart the page stays locked; an error of the connection replaces all a command has
  printed by one line (`srvctl-gui.js:281`), and during a command it
  unlocks the page, which the end of the stream does once more, so that the outputs of
  two commands can take turns on it; a
  dialog opened before the lists are there sends its command to the first host;
  two pages of one user share `users[].main` (`srvctl-gui.js:296-306`), so that a
  page may have all lists while answers to its own questions are still on their way,
  and one of those selects the first host again behind an open dialog;
  the dialog for a key, opened while the page is locked, loses its argument; the
  dialog for a user, opened from the menu of a container, sends to the host;
  `ignoreBackdropClick` survives a hide; Space does not press an item of a menu.
  `is_fqdn` refuses first labels shorter than three and labels with digits after
  the first.
- Output of commands: a rendition without text after it is dropped; `ESC[m`, which
  the comment of `srvctl-gui.js:122-125` names, is not recognised at `:133`; text
  before the first rendition is not escaped.
- Backups: a database that stops between the test of the connection and the list
  of databases yields an empty set of dumps that counts as a success, and the
  older dumps are removed (`DbDown` excludes that moment); so does a password that is
  set while another command dumps, as file and database have it one after the other
  (`mariadblib.sh:93`; `Undisturbed` excludes it); two `backup-db` in one
  second share a directory; the backup of a container made anew overwrites the
  archive of the old one; `7z` lists `/srv` and reads it later (`backup.sh:40-44`), and
  when another `backup-db` removes the older directories in between
  (`db-mariadb.sh:173`), the dumps this backup has just made can be among them and are
  not in its archive.
- Proxy: `settings` and `remove` rebuild the own directory and do not include it
  again, so that beside a `regenerate` they leave pound without the host's
  services; two commands at once when a certificate is due: one finds pound
  restarting and exits with 99 before it has written anything; `regenerate all`
  with a certificate due never restarts a pound that is down; a name removed at a
  peer and then a `remove` here leaves an include whose address no longer
  resolves; a certificate read while it is deployed is half a certificate;
  `import-crt` restarts pound with the copy it had before.

In the browser (`hterm_all.js` where no file is named):

- The alternate screen has no rows at first, and `realizeHeight_` (10418) takes
  them from the scrollback at the first switch, although 11768 says that
  "Swapping screens has no effect on the scrollback buffer."; when the window
  gets lower, rows of the alternate screen go into the scrollback.
- `insertLines` below the scroll region moves the row and not the cursor, and its
  bound is off by one (11315-11331); `backwardTabStop` goes to column 1 (10566,
  against its comment at 10552); reverse wraparound is off by one; `CSI 3 J` does
  what `CSI 2 J` does; `selectAll` (9172) is not used and would throw.
- Wide characters: `deleteChars` on the second half of one deletes other text or
  never ends; `insertString` in the middle of one splits wrongly; one at the last
  column is lost; `expandSelection` takes characters for columns.
- The parser: `ESC \` in two pieces aborts the string and prints the rest (13724);
  a string never times out, for the reason to abort it comes out as `NaN` (13728); `ESC (`
  and `ESC` again throws (14492-14495); `DECSET 1048` falls through to 1049
  (13969); 40 sets a field of another object (13917), 1010 and 1011 another field
  (13939, 13943); `ringBell` has a typing error (11673).
- The cursor: `DECSTR` and `RIS` while a blinking cursor is hidden end its
  blinking (10512-10530).
- The page: after everything was wiped it stays blank until there is reason to
  draw; a row that `realizeHeight_` took away may stay shown (9033, against 8974;
  `Racing` adds it); drawing throws when the shell moves the rows of a selection.
- The mouse: a release after a press in the scroll bar is reported without the
  press (12231, 12309), and the node that blocks scrolling stays engaged after a
  reported release.
- The keyboard: `e.altey` (6332) is never set, so that [HOME] ignores alt;
  ctrl, shift and / sends U+FFFF (6250); ctrl and the keypad sends ESC
  (5925-5931); where `altSendsWhat` is `browser-key`, the code computed for the browser's
  key is not used, and `String.fromCharCode` is given the key's character (5704-5714):
  a digit becomes a control character, anything else NUL; `RIS` leaves the modes of the keyboard.
- Preferences: a value removed on another page arrives as "" (2835, 2559); a read
  of the storage overrides a storage event that is newer (1955-1965); `DECRST 1039`
  restores a value that may have been changed since (13957).
- The shell of a page: `connect` comes again at every reconnection and makes a new
  terminal and a new ssh (`wetty.js`); keys typed while there is no connection go to
  the next shell; the pty is not killed when the page leaves, and a size or a key
  for a pty that has ended throws (`srvctl-gui.js:309-384`).

In a new site (`config/passport.js`, `app/routes.js`):

- Two sign-ups with one e-mail at once make two accounts; an identity that is in
  another account can be connected (`shared` marks both); a login
  through an identity that was unlinked is answered before its token is saved,
  and once more after that (`passport.js:170-183`); `/connect/X/callback` ends in
  `.. pardon?` (`routes.js:210`); who unlinks the only identity can not log in;
  sessions end with the process.

## What is not modelled

- *Text.*  Zones, mail maps, pound services, NFS and VPN configuration are written
  as text; the models have what is in them, not how it is spelt.  Which of pound's
  services a host name matches (`HeadRequire` patterns, layers by dots, redirect
  before or after) is planned as `PoundRoutes`.
- *Kinds of containers* beyond OS and apache; `dev` and `log` subdomains of
  codepad and logio; mail servers, `.devel` and `.local` names, wildcard
  certificates of a whole domain; containers with a zone of their own.
- *Several users or shares of one container*, where the code loops over them and
  treats them alike.
- *The contents of keys and certificates*, their authorities and their signing:
  planned as `Certificates`.
- *Of socket.io:* acknowledgements, namespaces, binary messages and the encodings,
  none of which the pages use or can tell; JSONP polling and flash.
- *Of hterm:* colours and fonts, pasting, the commands of a string but the title,
  what a mouse report says, the upper half of the character sets, the parts for
  Chrome apps.  `Sound` in `Hterm` and `Racing` in `WebTerminal` keep what is known
  to go wrong out of the runs: `insertLines` below the region, text operations on
  half a wide character, `ESC \` in two pieces, a row that stays shown.
- *Of bootstrap:* what is not a menu or a dialog (the pages use no other part).
- *Of the boilerplate:* its pages and messages, tokens of the providers, names
  copied from a profile.
- *Installers, status, client, other vendored modules:* no state that others
  depend on, or not code of this program.  The scripts of `ve-install` and
  `hs-install` run once from top to bottom.
- *External parts* are modelled as the code relies on them and marked so in
  `PROJECT.json`: LXC and the containers, mount and NFS, named, nsupdate,
  mysqld and mysqldump, pound, ssh and the network, the clock, an operator.
