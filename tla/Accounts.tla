------------------------------ MODULE Accounts ------------------------------
(***************************************************************************)
(* The accounts of the site a new container may start from: people sign up *)
(* and log in with an e-mail and a password or through a provider, connect *)
(* and unlink such identities, and log out.  A request is a sequence of    *)
(* callbacks: the session gives the account as it is stored at that time,  *)
(* the database is asked whether the identity is known, and is told what   *)
(* changes.  Requests of other browsers come in between.                   *)
(***************************************************************************)
EXTENDS Naturals, Sequences, FiniteSets

CONSTANTS
  Browsers, PersonOf,  \* PersonOf[b]: who uses browser b
  Emails,              \* the e-mails a person may give
  IdOf,                \* IdOf[p][f]: the id of person p at provider f
  MaxAccounts,         \* bound: accounts that are ever made
  Envs                 \* the circumstances to look at, see Env

Providers == {"facebook", "twitter", "google"}
Fields    == {"local"} \cup Providers
None      == "none"

(* Circumstances: the browsers that are used, the requests each may send,  *)
(* the identities they are about, and how often the site is restarted.     *)
Env == [browsers : SUBSET Browsers, requests : Nat, fields : SUBSET Fields,
        restarts : Nat]

(* Passwords are there, and an id at a provider is one person's.           *)
ASSUME AccountsAssumption ==
  /\ MaxAccounts \in Nat /\ Envs \subseteq Env
  /\ \A b \in Browsers : DOMAIN IdOf[PersonOf[b]] = Providers
  /\ None \notin Emails \cup {PersonOf[b] : b \in Browsers}
  /\ \A b \in Browsers, f \in Providers :
       /\ IdOf[PersonOf[b]][f] # None
       /\ \A c \in Browsers :
            IdOf[PersonOf[b]][f] = IdOf[PersonOf[c]][f] => PersonOf[b] = PersonOf[c]

VARIABLES
  env,       \* the circumstances; env.restarts counts down
  accounts,  \* what is stored of each account: an id and a secret per field
  session,   \* session[b]: the account browser b is logged in to, or 0
  req,       \* req[b]: the request of browser b that is not answered
  saves,     \* what the database was told and has not yet done
  left,      \* left[b]: how many requests browser b may still send
  owner,     \* owner[a]: the person who made account a
  home,      \* home[i]: the account identity i was last put into
  shared     \* identities that two requests were about at the same time, or
             \* that were connected while they belonged to another account

vars == <<env, accounts, session, req, saves, left, owner, home, shared>>
ghosts == <<owner, home, shared>>

Nothing   == [id |-> None, secret |-> None]
NewUser   == [f \in Fields |-> Nothing]
NoRequest == [stage |-> "none", route |-> None, field |-> "local", id |-> None,
              user |-> 0, doc |-> NewUser]
Identity(r) == <<r.field, r.id>>

-----------------------------------------------------------------------------
(* The routes.  Those of a provider are the callbacks it sends the browser *)
(* to when the user has agreed there.                                      *)
LoginRoutes == {"login", "signup", "auth"}
ConnectRoutes == {"connect local", "connect"}
UnlinkRoutes == {"unlink"}

(* The secret a person has for a field: a password, or a token.            *)
Secret(b, field) == IF field = "local" THEN PersonOf[b] ELSE "token"

(* isLoggedIn lets a request through if its session has an account.        *)
isLoggedIn(r) == r.user # 0

(* User.findOne: the first account with this id.                           *)
FindOne(field, id) ==
  LET found == {a \in DOMAIN accounts : accounts[a][field].id = id}
  IN IF found = {} THEN 0 ELSE CHOOSE a \in found : \A n \in found : a <= n

(* A document knows what was set since it was read: a secret is new each   *)
(* time, and the rest counts if it is different.                           *)
Modified(old, new) ==
  [k \in {k \in {"id", "secret"} :
            old[k] # new[k] \/ (k = "secret" /\ new[k] # None)} |-> new[k]]

(* The request of b is answered; a route that authenticates logs it in.    *)
Done(b, account) ==
  /\ req' = [req EXCEPT ![b] = NoRequest]
  /\ session' = IF account # 0 /\ req[b].route \in LoginRoutes \cup {"connect local"}
                THEN [session EXCEPT ![b] = account] ELSE session

(* user.save: the database is told to set what was modified in account a,  *)
(* or to store a new one; the request is answered when it has.             *)
Save(b, a, doc, new) ==
  /\ saves' = saves \cup {[browser |-> b, waits |-> TRUE, account |-> a,
                field |-> req[b].field, id |-> req[b].id,
                set |-> Modified(doc[req[b].field], new)]}
  /\ req' = [req EXCEPT ![b].stage = "saving"]
  /\ UNCHANGED session

Fresh(b) == [id |-> req[b].id, secret |-> Secret(b, req[b].field)]

-----------------------------------------------------------------------------
(* local-login.                                                            *)
LocalLogin(b) ==
  LET a == FindOne("local", req[b].id) IN
  /\ req[b].route = "login"
  /\ IF a # 0 /\ accounts[a]["local"].secret = Secret(b, "local")
     THEN Done(b, a) ELSE Done(b, 0)
  /\ UNCHANGED saves

(* Mutant: whoever has a local account already is not answered.            *)
LocalSignupSilent(b) ==
  LET r == req[b]
      taken == FindOne("local", r.id) # 0 IN
  /\ r.route \in {"signup", "connect local"}
  /\ \/ ~isLoggedIn(r) /\ ~taken /\ Save(b, 0, NewUser, Fresh(b))
     \/ isLoggedIn(r) /\ r.doc["local"].id = None /\ ~taken
        /\ Save(b, r.user, r.doc, Fresh(b))
     \/ taken /\ (isLoggedIn(r) => r.doc["local"].id = None)
        /\ Done(b, 0) /\ UNCHANGED saves

(* local-signup, which also connects: a new account, or an e-mail for the  *)
(* account of the session, unless the e-mail is taken.                     *)
LocalSignup(b) ==
  LET r == req[b]
      taken == FindOne("local", r.id) # 0 IN
  /\ r.route \in {"signup", "connect local"}
  /\ \/ ~isLoggedIn(r) /\ ~taken /\ Save(b, 0, NewUser, Fresh(b))
     \/ isLoggedIn(r) /\ r.doc["local"].id = None /\ ~taken
        /\ Save(b, r.user, r.doc, Fresh(b))
     \/ taken /\ (isLoggedIn(r) => r.doc["local"].id = None)
        /\ Done(b, 0) /\ UNCHANGED saves
     \/ isLoggedIn(r) /\ r.doc["local"].id # None
        /\ Done(b, r.user) /\ UNCHANGED saves

(* What the strategies of the providers have in common; by says which      *)
(* field is looked up.  An account that is found without a token gets the  *)
(* new one, and the request is answered without waiting for it.            *)
Strategy(b, by) ==
  LET r == req[b]
      a == FindOne(by, r.id) IN
  \/ isLoggedIn(r) /\ Save(b, r.user, r.doc, Fresh(b))
  \/ ~isLoggedIn(r) /\ a = 0 /\ Save(b, 0, NewUser, Fresh(b))
  \/ /\ ~isLoggedIn(r) /\ a # 0
     /\ saves' = IF accounts[a][r.field].secret # None THEN saves
                 ELSE saves \cup {[browser |-> b, waits |-> FALSE, account |-> a,
                        field |-> r.field, id |-> r.id,
                        set |-> [secret |-> "token"]]}
     /\ Done(b, a)

OfProvider(b, field) ==
  req[b].route \in {"auth", "connect"} /\ req[b].field = field

FacebookStrategy(b) == OfProvider(b, "facebook") /\ Strategy(b, "facebook")

(* Mutant: copied from the strategy before it.                             *)
TwitterStrategyCopied(b) == OfProvider(b, "twitter") /\ Strategy(b, "facebook")

TwitterStrategy(b)  == OfProvider(b, "twitter") /\ Strategy(b, "twitter")
GoogleStrategy(b)   == OfProvider(b, "google") /\ Strategy(b, "google")

(* Mutant: the id goes with the token.                                     *)
UnlinkedWhole(field, old) == Nothing

(* What is left of a field: a social account keeps its id.                 *)
Unlinked(field, old) ==
  IF field = "local" THEN Nothing ELSE [old EXCEPT !.secret = None]

Unlink(b) ==
  LET r == req[b] IN
  /\ r.route \in UnlinkRoutes
  /\ IF isLoggedIn(r)
     THEN Save(b, r.user, r.doc, Unlinked(r.field, r.doc[r.field]))
     ELSE Done(b, 0) /\ UNCHANGED saves

Logout(b) ==
  /\ req[b].route = "logout"
  /\ session' = [session EXCEPT ![b] = 0]
  /\ req' = [req EXCEPT ![b] = NoRequest]
  /\ UNCHANGED saves

-----------------------------------------------------------------------------
(* A person sends a request.                                               *)
UnderWay(i) ==
  \/ \E b \in Browsers : req[b].stage # "none" /\ Identity(req[b]) = i
  \/ \E s \in saves : Identity(s) = i

Send(b, route, field, id) ==
  /\ b \in env.browsers /\ req[b].stage = "none" /\ left[b] > 0
  /\ req' = [req EXCEPT ![b] = [NoRequest EXCEPT !.stage = "sent",
               !.route = route, !.field = field, !.id = id]]
  /\ left' = [left EXCEPT ![b] = @ - 1]
  /\ shared' = IF id # None /\ UnderWay(<<field, id>>) THEN shared \cup {<<field, id>>}
               ELSE shared
  /\ UNCHANGED <<env, accounts, session, saves, owner, home>>

(* The page a person sees: what it offers depends on whether he is logged  *)
(* in and what he has connected, but it may be an old one.                 *)
Ask(b) ==
  \/ Send(b, "logout", "local", None)
  \/ \E field \in env.fields :
       \/ field = "local" /\ \E route \in {"login", "signup", "connect local"},
                                email \in Emails : Send(b, route, field, email)
       \/ field # "local" /\ \E route \in {"auth", "connect"} :
            Send(b, route, field, IdOf[PersonOf[b]][field])
       \/ Send(b, "unlink", field, None)

(* deserializeUser: req.user is the account as it is stored now.           *)
deserializeUser(b) ==
  /\ req[b].stage = "sent"
  /\ req' = [req EXCEPT ![b] = [req[b] EXCEPT !.stage = "started", !.user = session[b],
       !.doc = IF session[b] = 0 THEN NewUser ELSE accounts[session[b]]]]
  /\ UNCHANGED <<env, accounts, session, saves, left, ghosts>>

(* The strategy or the handler of the route.                               *)
Handle(b) ==
  /\ req[b].stage = "started"
  /\ \/ LocalLogin(b) \/ LocalSignup(b) \/ Unlink(b) \/ Logout(b)
     \/ FacebookStrategy(b) \/ TwitterStrategy(b) \/ GoogleStrategy(b)
  /\ UNCHANGED <<env, accounts, left, ghosts>>

(* The database has done what it was told.                                 *)
Saved(s) ==
  LET a   == IF s.account = 0 THEN Len(accounts) + 1 ELSE s.account
      old == IF s.account = 0 THEN NewUser ELSE accounts[a]
      new == [old EXCEPT ![s.field] =
                [k \in {"id", "secret"} |-> IF k \in DOMAIN s.set THEN s.set[k] ELSE @[k]]]
      put == s.id # None /\ new[s.field].id = s.id
  IN
  /\ a <= MaxAccounts
  /\ accounts' = [n \in 1 .. (IF a > Len(accounts) THEN a ELSE Len(accounts)) |->
                    IF n = a THEN new ELSE accounts[n]]
  /\ owner' = IF s.account = 0 THEN Append(owner, PersonOf[s.browser]) ELSE owner
  /\ home' = IF put THEN [home EXCEPT ![Identity(s)] = a] ELSE home
  /\ shared' = IF put /\ s.field # "local" /\ s.account # 0
                    /\ \E n \in DOMAIN accounts :
                         n # a /\ accounts[n][s.field].id = s.id
               THEN shared \cup {Identity(s)} ELSE shared
  /\ saves' = saves \ {s}
  /\ IF s.waits THEN Done(s.browser, a) ELSE UNCHANGED <<req, session>>
  /\ UNCHANGED <<env, left>>

(* A push restarts the site: sessions are kept in memory, and nobody waits *)
(* for the database any more.                                              *)
Restart ==
  /\ env.restarts > 0
  /\ env' = [env EXCEPT !.restarts = @ - 1]
  /\ session' = [b \in Browsers |-> 0]
  /\ req' = [b \in Browsers |-> NoRequest]
  /\ saves' = {[s EXCEPT !.waits = FALSE] : s \in saves}
  /\ UNCHANGED <<accounts, left, ghosts>>

Identities == {"local"} \X Emails \cup
  {<<f, IdOf[PersonOf[b]][f]>> : f \in Providers, b \in Browsers}

Init ==
  /\ env \in Envs
  /\ accounts = <<>>
  /\ session = [b \in Browsers |-> 0]
  /\ req = [b \in Browsers |-> NoRequest]
  /\ saves = {}
  /\ left = [b \in Browsers |-> env.requests]
  /\ owner = <<>>
  /\ home = [i \in Identities |-> 0]
  /\ shared = {}

Server(b) == deserializeUser(b) \/ Handle(b)

Next ==
  \/ \E b \in Browsers : Ask(b) \/ Server(b)
  \/ \E s \in saves : Saved(s)
  \/ Restart

(* Callbacks run and the database answers.  Nobody has to ask.             *)
Spec ==
  /\ Init /\ [][Next]_vars
  /\ \A b \in Browsers : WF_vars(Server(b))
  /\ \A b \in Browsers : WF_vars(\E s \in saves : s.browser = b /\ Saved(s))

-----------------------------------------------------------------------------
(* The type of what is stored and of what is under way.                    *)
TypeOK ==
  /\ \A a \in DOMAIN accounts : DOMAIN accounts[a] = Fields
  /\ DOMAIN owner = DOMAIN accounts
  /\ \A b \in Browsers : session[b] \in DOMAIN accounts \cup {0}
  /\ \A b \in Browsers : req[b].stage \in {"none", "sent", "started", "saving"}
  /\ \A s \in saves : s.account \in DOMAIN accounts \cup {0}

(* An e-mail or an id at a provider is in one account, however it came and *)
(* went, unless two requests were about it at the same time or it was      *)
(* connected while it belonged to another account.                         *)
OneAccount ==
  \A i \in Identities \ shared :
    Cardinality({a \in DOMAIN accounts : accounts[a][i[1]].id = i[2]}) <= 1

(* Nobody is logged in to what somebody else made, although people give    *)
(* the e-mails of others and their ids at two providers may be the same.   *)
NobodyElse ==
  \A b \in Browsers : session[b] # 0 => owner[session[b]] = PersonOf[b]

(* Who logs in through a provider comes back to the account he used it for *)
(* last, also when he has unlinked it since.                               *)
ComesBack ==
  [][\A b \in Browsers :
       LET i == Identity(req[b]) IN
       req[b].route = "auth" /\ req[b].user = 0 /\ i \notin shared
         /\ home[i] # 0 /\ session'[b] # session[b] /\ req'[b] = NoRequest
         /\ session'[b] # 0
       => session'[b] = home[i]]_vars

(* Every request is answered.                                              *)
Answered == \A b \in Browsers : req[b].stage # "none" ~> req[b].stage = "none"

(* Types, an identity in one account, and nobody in somebody else's.       *)
AccountsInv == TypeOK /\ OneAccount /\ NobodyElse
=============================================================================
