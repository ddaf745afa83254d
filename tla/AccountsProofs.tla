---------------------------- MODULE AccountsProofs ----------------------------
(***************************************************************************)
(* Theorems about Accounts, for any people, browsers, e-mails and ids: an  *)
(* identity is in one account, nobody gets into the account of somebody    *)
(* else, and a provider leads back to the account it was used for last.    *)
(***************************************************************************)
EXTENDS Accounts, FiniteSetTheorems, SequenceTheorems, WellFoundedInduction, TLAPS

-----------------------------------------------------------------------------
(* The people, the values a database stores for them, and what is theirs.  *)
People == {PersonOf[b] : b \in Browsers}
Values == {None, "token"} \cup Emails \cup People
            \cup {IdOf[p][f] : p \in People, f \in Providers}

Ids(p, f)     == IF f = "local" THEN Emails ELSE {IdOf[p][f]}
Secrets(p, f) == IF f = "local" THEN {p} ELSE {"token"}

Parts == {"id", "secret"}
Sets  == UNION {[D -> Values] : D \in SUBSET Parts}
Pair  == [id : Values, secret : Values]
Doc   == [Fields -> Pair]

(* What is stored, or read, of an account that p made.                     *)
DocOf(p, d) ==
  /\ d \in Doc
  /\ \A f \in Fields : /\ d[f].id \in Ids(p, f) \cup {None}
                       /\ d[f].secret \in Secrets(p, f) \cup {None}

-----------------------------------------------------------------------------
(* Every account is somebody's, and what it holds is his.                  *)
AccountsOK ==
  /\ accounts \in Seq(Doc) /\ owner \in Seq(People) /\ Len(owner) = Len(accounts)
  /\ \A a \in 1 .. Len(accounts) : DocOf(owner[a], accounts[a])

(* An account b may get at: one of the person who uses it, or none yet.    *)
His(o, b, a) == a = 0 \/ (a \in 1 .. Len(o) /\ o[a] = PersonOf[b])

Stages == {"none", "sent", "started", "saving"}
Routes == {None, "logout"} \cup LoginRoutes \cup ConnectRoutes \cup UnlinkRoutes
Requests == [stage : Stages, route : Routes, field : Fields, id : Values, user : Nat,
             doc : Doc]

(* A request is about an identity of its person, and reads an account of   *)
(* his.                                                                    *)
RequestOK(o, b, r) ==
  /\ r \in Requests /\ DocOf(PersonOf[b], r.doc) /\ His(o, b, r.user)
  /\ r.id \in Ids(PersonOf[b], r.field) \cup {None}
  /\ r.id = None <=> r.route \in {None, "logout"} \cup UnlinkRoutes
  /\ r.route \in {"login", "signup", "connect local"} => r.field = "local"
  /\ r.route \in {"auth", "connect"} => r.field # "local"

RequestsOK ==
  /\ session \in [Browsers -> Nat] /\ req \in [Browsers -> Requests]
  /\ \A b \in Browsers : His(owner, b, session[b]) /\ RequestOK(owner, b, req[b])

(* What the database is told: to set parts of one field, of an account of  *)
(* the person who asked.                                                   *)
Saves == [browser : Browsers, waits : BOOLEAN, account : Nat, field : Fields,
          id : Values, set : Sets]

SaveOK(o, s) ==
  /\ s \in Saves /\ His(o, s.browser, s.account)
  /\ s.id \in Ids(PersonOf[s.browser], s.field) \cup {None}
  /\ "id" \in DOMAIN s.set =>
       s.set["id"] = s.id /\ (s.id = None => s.field = "local" /\ s.account # 0)
  /\ "secret" \in DOMAIN s.set =>
       s.set["secret"] \in Secrets(PersonOf[s.browser], s.field) \cup {None}
  /\ s.account = 0 => "id" \in DOMAIN s.set

(* The request that waits for it.                                          *)
Waits(s, r) ==
  r.stage = "saving" /\ r.field = s.field /\ r.id = s.id /\ r.user = s.account

SavesOK ==
  /\ \A s \in saves : SaveOK(owner, s) /\ (s.waits => Waits(s, req[s.browser]))
  /\ \A s, t \in saves : s.waits /\ t.waits /\ s.browser = t.browser => s = t

(* What is under way about an identity that was never shared.              *)
About(r, f, id) == r.field = f /\ r.id = id
Busy(r, f, id)  == r.stage # "none" /\ About(r, f, id)

Alone(f, id) ==
  /\ \A b, c \in Browsers : Busy(req[b], f, id) /\ Busy(req[c], f, id) => b = c
  /\ \A s, t \in saves : About(s, f, id) /\ About(t, f, id) => s = t
  /\ \A s \in saves, b \in Browsers :
       About(s, f, id) /\ Busy(req[b], f, id) => s.waits /\ s.browser = b

(* It is in one account, and in none before it is put into one, unless     *)
(* that account connects it.                                               *)
Once(f, id) ==
  /\ \A m, n \in 1 .. Len(accounts) :
       accounts[m][f].id = id /\ accounts[n][f].id = id => m = n
  /\ \A s \in saves :
       About(s, f, id) /\ "id" \in DOMAIN s.set /\ (f = "local" \/ s.account = 0) =>
         \A n \in 1 .. Len(accounts) : accounts[n][f].id # id

Unshared ==
  \A f \in Fields, id \in Values :
    id # None /\ <<f, id>> \notin shared => Alone(f, id) /\ Once(f, id)

(* What a provider was used for it stays with.                             *)
HomeOK ==
  /\ home \in [Identities -> Nat]
  /\ \A i \in Identities :
       i[1] # "local" /\ home[i] # 0 =>
         home[i] \in 1 .. Len(accounts) /\ accounts[home[i]][i[1]].id = i[2]

Inv == env \in Env /\ AccountsOK /\ RequestsOK /\ SavesOK /\ Unshared /\ HomeOK

-----------------------------------------------------------------------------
(* What is of a field is stored in it, and is never the sign for nothing.  *)
LEMMA TheirsOK ==
  ASSUME NEW p \in People, NEW f \in Fields
  PROVE  /\ Ids(p, f) \subseteq Values /\ Secrets(p, f) \subseteq Values
         /\ None \notin Ids(p, f) /\ None \notin Secrets(p, f) /\ None \in Values
<1>1. PICK b \in Browsers : p = PersonOf[b]
  BY DEF People
<1>2. CASE f = "local"
  BY <1>1, <1>2, AccountsAssumption DEF Ids, Secrets, Values
<1>3. CASE f \in Providers
  <2>1. f # "local"
    BY <1>3 DEF Providers
  <2>2. IdOf[p][f] \in Values /\ IdOf[p][f] # None
    BY <1>1, <1>3, AccountsAssumption DEF Values
  <2>3. "token" \in Values /\ "token" # None /\ None \in Values
    BY DEF Values, None
  <2> QED BY <2>1, <2>2, <2>3 DEF Ids, Secrets
<1> QED BY <1>2, <1>3 DEF Fields

(* Two people have different ids at a provider.                            *)
LEMMA OfOne ==
  ASSUME NEW p \in People, NEW q \in People, NEW f \in Fields, f # "local",
         NEW id, id \in Ids(p, f), id \in Ids(q, f)
  PROVE  p = q /\ id = IdOf[p][f]
<1>1. f \in Providers /\ id = IdOf[p][f] /\ id = IdOf[q][f]
  BY DEF Fields, Ids
<1>2. PICK b \in Browsers : p = PersonOf[b]
  BY DEF People
<1>3. PICK c \in Browsers : q = PersonOf[c]
  BY DEF People
<1>4. IdOf[PersonOf[b]][f] = IdOf[PersonOf[c]][f] => PersonOf[b] = PersonOf[c]
  BY <1>1, AccountsAssumption
<1> QED BY <1>1, <1>2, <1>3, <1>4

(* The person at a browser.                                                *)
LEMMA PersonIs == ASSUME NEW b \in Browsers PROVE PersonOf[b] \in People
BY DEF People

(* Nothing is in an account at first.                                      *)
LEMMA NewUserOK ==
  /\ NewUser \in Doc /\ \A f \in Fields : NewUser[f] = Nothing
  /\ Nothing \in Pair /\ \A p : DocOf(p, NewUser)
<1>1. Nothing \in Pair /\ Nothing.id = None /\ Nothing.secret = None
  BY DEF Nothing, Pair, Values
<1>2. NewUser \in Doc /\ \A f \in Fields : NewUser[f] = Nothing
  BY <1>1 DEF NewUser, Doc
<1> QED BY <1>1, <1>2 DEF DocOf

(* What is asked of the database is in the document it is asked for.       *)
LEMMA ModifiedIs ==
  ASSUME NEW old \in Pair, NEW new \in Pair, NEW m, m = Modified(old, new)
  PROVE  /\ m \in Sets /\ DOMAIN m \subseteq Parts
         /\ "id" \in DOMAIN m <=> old.id # new.id
         /\ "id" \in DOMAIN m => m["id"] = new.id
         /\ "secret" \in DOMAIN m => m["secret"] = new.secret
<1>1. PICK D : D = {k \in Parts : old[k] # new[k] \/ (k = "secret" /\ new[k] # None)}
  OBVIOUS
<1>2. m = [k \in D |-> new[k]]
  BY <1>1 DEF Modified, Parts
<1>3. D \in SUBSET Parts /\ ("id" \in D <=> old["id"] # new["id"])
  BY <1>1 DEF Parts
<1>4. /\ old["id"] = old.id /\ new["id"] = new.id /\ new["secret"] = new.secret
      /\ new["id"] \in Values /\ new["secret"] \in Values
  BY DEF Pair
<1>5. m \in [D -> Values]
  BY <1>2, <1>3, <1>4 DEF Parts
<1> QED BY <1>2, <1>3, <1>4, <1>5 DEF Sets

(* Nobody to be logged in to, and no request.                              *)
LEMMA NoRequestOK ==
  ASSUME NEW b \in Browsers, NEW o
  PROVE  /\ RequestOK(o, b, NoRequest) /\ NoRequest.stage = "none" /\ NoRequest \in Requests
<1>1. None \in Values /\ None \in Routes /\ "local" \in Fields /\ "none" \in Stages
  BY DEF Values, Routes, Fields, Stages
<1>2. NoRequest \in Requests
  BY <1>1, NewUserOK DEF NoRequest, Requests
<1> QED BY <1>2, NewUserOK DEF NoRequest, RequestOK, His, None

-----------------------------------------------------------------------------
(* Some numbers have a least one.                                          *)
LEMMA LeastOf ==
  ASSUME NEW S \in SUBSET Nat, S # {} PROVE \E x \in S : \A n \in S : x <= n
<1>1. PICK R : R = OpToRel(<, Nat)
  OBVIOUS
<1>2. IsWellFoundedOn(R, Nat)
  BY <1>1, NatLessThanWellFounded, Zenon
<1>3. PICK x \in S : \A n \in S : <<n, x>> \notin R
  BY <1>2, WFMin
<1>4. \A n \in Nat : n < x => <<n, x>> \in R
  BY <1>1 DEF OpToRel
<1>5. ASSUME NEW n \in S PROVE x <= n
  <2>1. n \in Nat /\ x \in Nat
    OBVIOUS
  <2>2. ~(n < x)
    BY <1>3, <1>4, <2>1
  <2> QED BY <2>1, <2>2
<1> QED BY <1>5

(* The first account with an id has it, and is found if there is one.      *)
LEMMA FindOneIs ==
  ASSUME accounts \in Seq(Doc), NEW f, NEW id, NEW a, a = FindOne(f, id)
  PROVE  \/ a = 0 /\ \A n \in 1 .. Len(accounts) : accounts[n][f].id # id
         \/ a \in 1 .. Len(accounts) /\ accounts[a][f].id = id
<1>1. PICK found : found = {n \in 1 .. Len(accounts) : accounts[n][f].id = id}
  OBVIOUS
<1>2. DOMAIN accounts = 1 .. Len(accounts) /\ Len(accounts) \in Nat
  OBVIOUS
<1>3. a = IF found = {} THEN 0 ELSE CHOOSE x \in found : \A n \in found : x <= n
  BY <1>1, <1>2 DEF FindOne
<1>4. CASE found = {}
  BY <1>1, <1>3, <1>4
<1>5. CASE found # {}
  <2>1. found \subseteq Nat /\ found # {}
    BY <1>1, <1>2, <1>5
  <2>2. \E x \in found : \A n \in found : x <= n
    BY <2>1, LeastOf
  <2>3. a \in found
    BY <1>3, <1>5, <2>2
  <2> QED BY <1>1, <2>3
<1> QED BY <1>4, <1>5

-----------------------------------------------------------------------------
(* How a request ends: whoever it logs in is its person, and the database  *)
(* may still have a secret to store.                                       *)
Ends(b) ==
  /\ req' = [req EXCEPT ![b] = NoRequest]
  /\ \/ session' = session
     \/ \E a \in 1 .. Len(accounts) :
          /\ session' = [session EXCEPT ![b] = a] /\ owner[a] = PersonOf[b]
          /\ req[b].route = "auth" => accounts[a][req[b].field].id = req[b].id
     \/ session' = [session EXCEPT ![b] = 0]
  /\ \/ saves' = saves
     \/ \E s \in Saves :
          /\ saves' = saves \cup {s} /\ SaveOK(owner, s)
          /\ s.browser = b /\ ~s.waits /\ s.field = req[b].field /\ s.id = req[b].id
          /\ "id" \notin DOMAIN s.set

(* How it goes on: it waits for what the database is told.                 *)
Waiting(b) ==
  /\ req' = [req EXCEPT ![b] = [req[b] EXCEPT !.stage = "saving"]] /\ session' = session
  /\ \E s \in Saves :
       /\ saves' = saves \cup {s} /\ SaveOK(owner, s)
       /\ s.browser = b /\ s.waits /\ s.field = req[b].field /\ s.id = req[b].id
       /\ s.account = req[b].user
       /\ "id" \in DOMAIN s.set /\ s.id # None /\ (s.field = "local" \/ s.account = 0) =>
            \A n \in 1 .. Len(accounts) : accounts[n][s.field].id # s.id

(* The answer to a request.                                                *)
LEMMA DoneEnds ==
  ASSUME NEW b \in Browsers, NEW a, His(owner, b, a), Done(b, a), Len(owner) = Len(accounts),
         a # 0 /\ req[b].route = "auth" => accounts[a][req[b].field].id = req[b].id,
         \/ saves' = saves
         \/ \E s \in Saves :
              /\ saves' = saves \cup {s} /\ SaveOK(owner, s)
              /\ s.browser = b /\ ~s.waits /\ s.field = req[b].field /\ s.id = req[b].id
              /\ "id" \notin DOMAIN s.set
  PROVE  Ends(b)
<1>1. req' = [req EXCEPT ![b] = NoRequest]
  BY DEF Done
<1>2. \/ session' = session
      \/ a \in 1 .. Len(accounts) /\ owner[a] = PersonOf[b] /\ a # 0
         /\ session' = [session EXCEPT ![b] = a]
  BY DEF Done, His
<1> QED BY <1>1, <1>2 DEF Ends

(* What a request asks of the database.                                    *)
LEMMA SaveWaits ==
  ASSUME NEW b \in Browsers, RequestOK(owner, b, req[b]), NEW a, a = req[b].user,
         NEW doc \in Doc, NEW new \in Pair, Save(b, a, doc, new),
         new.id = req[b].id \/ new.id = doc[req[b].field].id,
         new.id = None => req[b].id = None /\ (new.id # doc[req[b].field].id =>
                                                 req[b].field = "local" /\ a # 0),
         new.secret \in Secrets(PersonOf[b], req[b].field) \cup {None},
         a = 0 => new.id # doc[req[b].field].id,
         new.id # doc[req[b].field].id /\ new.id # None
           /\ (req[b].field = "local" \/ a = 0) =>
           \A n \in 1 .. Len(accounts) : accounts[n][req[b].field].id # req[b].id
  PROVE  Waiting(b)
<1>1. /\ req[b] \in Requests /\ His(owner, b, a) /\ a \in Nat
      /\ req[b].id \in Ids(PersonOf[b], req[b].field) \cup {None}
      /\ req[b].field \in Fields /\ req[b].id \in Values
  BY DEF RequestOK, Requests
<1>2. PICK m : m = Modified(doc[req[b].field], new)
  OBVIOUS
<1>3. doc[req[b].field] \in Pair
  BY <1>1 DEF Doc
<1>4. m \in Sets
  BY <1>2, <1>3, ModifiedIs
<1>5. /\ "id" \in DOMAIN m <=> doc[req[b].field].id # new.id
      /\ "id" \in DOMAIN m => m["id"] = new.id
      /\ "secret" \in DOMAIN m => m["secret"] = new.secret
  BY <1>2, <1>3, ModifiedIs
<1>6. PICK s : s = [browser |-> b, waits |-> TRUE, account |-> a, field |-> req[b].field,
                    id |-> req[b].id, set |-> m]
  OBVIOUS
<1>7. /\ s \in Saves /\ s.browser = b /\ s.waits /\ s.field = req[b].field
      /\ s.id = req[b].id /\ s.account = a /\ s.set = m
  BY <1>1, <1>4, <1>6 DEF Saves
<1>8. /\ saves' = saves \cup {s} /\ session' = session
      /\ req' = [req EXCEPT ![b] = [req[b] EXCEPT !.stage = "saving"]]
  BY <1>2, <1>6 DEF Save
<1>9. SaveOK(owner, s)
  BY <1>1, <1>5, <1>7 DEF SaveOK
<1>10. "id" \in DOMAIN s.set /\ s.id # None /\ (s.field = "local" \/ s.account = 0) =>
         \A n \in 1 .. Len(accounts) : accounts[n][s.field].id # s.id
  BY <1>1, <1>5, <1>7
<1> QED BY <1>7, <1>8, <1>9, <1>10 DEF Waiting

(* What a request would store is the identity it is about.                 *)
LEMMA FreshWaits ==
  ASSUME NEW b \in Browsers, RequestOK(owner, b, req[b]), req[b].id # None,
         NEW a, a = req[b].user, NEW doc,
         (a = 0 /\ doc = NewUser) \/ (a # 0 /\ doc = req[b].doc),
         Save(b, a, doc, Fresh(b)),
         req[b].field = "local" \/ a = 0 =>
           \A n \in 1 .. Len(accounts) : accounts[n][req[b].field].id # req[b].id
  PROVE  Waiting(b)
<1>1. /\ doc \in Doc /\ req[b].field \in Fields
      /\ a = 0 => doc[req[b].field].id = None
  <2>1. req[b] \in Requests /\ req[b].doc \in Doc
    BY DEF RequestOK, Requests
  <2>2. req[b].field \in Fields /\ Nothing.id = None
    BY <2>1 DEF Requests, Nothing
  <2> QED BY <2>1, <2>2, NewUserOK
<1>2. PICK new : new = Fresh(b)
  OBVIOUS
<1>3. /\ new = [id |-> req[b].id, secret |-> Secret(b, req[b].field)]
      /\ Secret(b, req[b].field) \in Secrets(PersonOf[b], req[b].field)
  BY <1>2 DEF Fresh, Secret, Secrets
<1>4. req[b].id \in Values /\ Secrets(PersonOf[b], req[b].field) \subseteq Values
  BY <1>1, PersonIs, TheirsOK DEF RequestOK, Requests
<1>5. new \in Pair /\ new.id = req[b].id /\ new.secret \in Secrets(PersonOf[b], req[b].field)
  BY <1>3, <1>4 DEF Pair
<1> QED BY <1>1, <1>2, <1>5, SaveWaits

(* The handlers of the routes.                                             *)
LEMMA LocalLoginEnds ==
  ASSUME AccountsOK, NEW b \in Browsers, RequestOK(owner, b, req[b]), LocalLogin(b)
  PROVE  Ends(b)
<1>1. PICK a : a = FindOne("local", req[b].id)
  OBVIOUS
<1>2. /\ accounts \in Seq(Doc) /\ Len(owner) = Len(accounts) /\ saves' = saves
      /\ req[b].route = "login" /\ "local" \in Fields /\ PersonOf[b] # None
  BY PersonIs, AccountsAssumption DEF AccountsOK, LocalLogin, Fields
<1>3. \/ Done(b, 0)
      \/ a # 0 /\ accounts[a]["local"].secret = PersonOf[b] /\ Done(b, a)
  BY <1>1 DEF LocalLogin, Secret
<1>4. CASE Done(b, 0)
  BY <1>2, <1>4, DoneEnds DEF His
<1>5. CASE a # 0 /\ accounts[a]["local"].secret = PersonOf[b] /\ Done(b, a)
  <2>1. a \in 1 .. Len(accounts)
    BY <1>1, <1>2, <1>5, FindOneIs
  <2>2. accounts[a]["local"].secret \in Secrets(owner[a], "local") \cup {None}
    BY <1>2, <2>1 DEF AccountsOK, DocOf
  <2>3. owner[a] = PersonOf[b]
    BY <1>2, <1>5, <2>2 DEF Secrets
  <2> QED BY <1>2, <1>5, <2>1, <2>3, DoneEnds DEF His
<1> QED BY <1>3, <1>4, <1>5

(* Who signs up gets a new account, or a local field in his.               *)
LEMMA LocalSignupIs ==
  ASSUME AccountsOK, NEW b \in Browsers, RequestOK(owner, b, req[b]), LocalSignup(b)
  PROVE  Ends(b) \/ Waiting(b)
<1>1. PICK a : a = FindOne("local", req[b].id)
  OBVIOUS
<1>2. /\ accounts \in Seq(Doc) /\ Len(owner) = Len(accounts)
      /\ req[b].route \in {"signup", "connect local"} /\ req[b].field = "local"
      /\ req[b].id # None /\ His(owner, b, req[b].user)
  BY DEF AccountsOK, LocalSignup, RequestOK, UnlinkRoutes, None
<1>3. \/ /\ a = 0
         /\ \/ req[b].user = 0 /\ Save(b, 0, NewUser, Fresh(b))
            \/ req[b].user # 0 /\ Save(b, req[b].user, req[b].doc, Fresh(b))
      \/ saves' = saves /\ (Done(b, 0) \/ Done(b, req[b].user))
  BY <1>1 DEF LocalSignup, isLoggedIn
<1>4. CASE saves' = saves /\ (Done(b, 0) \/ Done(b, req[b].user))
  <2>1. Done(b, 0) => Ends(b)
    BY <1>2, <1>4, DoneEnds DEF His
  <2>2. Done(b, req[b].user) => Ends(b)
    BY <1>2, <1>4, DoneEnds
  <2> QED BY <1>4, <2>1, <2>2
<1>5. CASE a = 0
  <2>1. \A n \in 1 .. Len(accounts) : accounts[n][req[b].field].id # req[b].id
    <3>1. Len(accounts) \in Nat
      BY DEF AccountsOK
    <3>2. a \notin 1 .. Len(accounts)
      BY <1>5, <3>1
    <3> QED BY <1>1, <1>2, <3>2, FindOneIs
  <2>2. req[b].user = 0 /\ Save(b, 0, NewUser, Fresh(b)) => Waiting(b)
    BY <1>2, <2>1, FreshWaits
  <2>3. req[b].user # 0 /\ Save(b, req[b].user, req[b].doc, Fresh(b)) => Waiting(b)
    BY <1>2, <2>1, FreshWaits
  <2> QED BY <1>3, <1>4, <2>2, <2>3
<1> QED BY <1>3, <1>4, <1>5

(* A provider leads to its account, or makes or connects one.              *)
LEMMA StrategyIs ==
  ASSUME AccountsOK, NEW b \in Browsers, RequestOK(owner, b, req[b]),
         NEW by, OfProvider(b, by), by \in Providers, Strategy(b, by)
  PROVE  Ends(b) \/ Waiting(b)
<1>1. PICK a : a = FindOne(by, req[b].id)
  OBVIOUS
<1>2. /\ accounts \in Seq(Doc) /\ Len(owner) = Len(accounts) /\ owner \in Seq(People)
      /\ req[b].route \in {"auth", "connect"} /\ req[b].field = by
      /\ req[b].id # None /\ His(owner, b, req[b].user)
      /\ by \in Fields /\ by # "local" /\ req[b] \in Requests
      /\ req[b].id \in Ids(PersonOf[b], by)
  BY DEF AccountsOK, OfProvider, RequestOK, UnlinkRoutes, None, Fields, Providers
<1>3. CASE req[b].user # 0 /\ Save(b, req[b].user, req[b].doc, Fresh(b))
  BY <1>2, <1>3, FreshWaits
<1>4. CASE req[b].user = 0 /\ a = 0 /\ Save(b, 0, NewUser, Fresh(b))
  <2>1. \A n \in 1 .. Len(accounts) : accounts[n][req[b].field].id # req[b].id
    <3>1. Len(accounts) \in Nat /\ a \notin 1 .. Len(accounts)
      BY <1>2, <1>4
    <3> QED BY <1>1, <1>2, <3>1, FindOneIs
  <2> QED BY <1>2, <1>4, <2>1, FreshWaits
<1>5. ASSUME a # 0, Done(b, a),
             saves' = IF accounts[a][req[b].field].secret # None THEN saves
                ELSE saves \cup {[browser |-> b, waits |-> FALSE, account |-> a,
                       field |-> req[b].field, id |-> req[b].id,
                       set |-> [secret |-> "token"]]}
      PROVE  Ends(b)
  <2>1. a \in 1 .. Len(accounts) /\ accounts[a][by].id = req[b].id /\ Len(accounts) \in Nat
    BY <1>1, <1>2, <1>5, FindOneIs
  <2>2. req[b].id \in Ids(owner[a], by) /\ owner[a] \in People
    BY <1>2, <2>1 DEF AccountsOK, DocOf
  <2>3. owner[a] = PersonOf[b]
    BY <1>2, <2>2, PersonIs, OfOne
  <2>4. His(owner, b, a)
    BY <1>2, <2>1, <2>3 DEF His
  <2>5. PICK m : m = [secret |-> "token"]
    OBVIOUS
  <2>6. m \in [{"secret"} -> Values]
    BY <2>5 DEF Values
  <2>7. /\ DOMAIN m = {"secret"} /\ m["secret"] \in Secrets(PersonOf[b], by)
        /\ m \in Sets
    BY <1>2, <2>5, <2>6 DEF Secrets, Sets, Parts
  <2>8. PICK s : s = [browser |-> b, waits |-> FALSE, account |-> a, field |-> req[b].field,
                      id |-> req[b].id, set |-> m]
    OBVIOUS
  <2>9. /\ s \in Saves /\ s.browser = b /\ ~s.waits /\ s.field = req[b].field
        /\ s.id = req[b].id /\ s.account = a /\ s.set = m
    BY <1>2, <2>1, <2>7, <2>8 DEF Saves, Requests
  <2>10. SaveOK(owner, s) /\ "id" \notin DOMAIN s.set
    BY <1>2, <1>5, <2>4, <2>7, <2>9 DEF SaveOK
  <2>11. saves' = saves \/ saves' = saves \cup {s}
    BY <1>5, <2>5, <2>8
  <2> QED BY <1>2, <1>5, <2>1, <2>4, <2>9, <2>10, <2>11, DoneEnds
<1> QED BY <1>1, <1>2, <1>3, <1>4, <1>5 DEF Strategy, isLoggedIn

(* A field is emptied, of the account of the session.                      *)
LEMMA UnlinkIs ==
  ASSUME AccountsOK, NEW b \in Browsers, RequestOK(owner, b, req[b]), Unlink(b)
  PROVE  Ends(b) \/ Waiting(b)
<1>1. PICK old, new : old = req[b].doc[req[b].field] /\ new = Unlinked(req[b].field, old)
  OBVIOUS
<1>2. /\ Len(owner) = Len(accounts) /\ req[b].id = None /\ req[b].route = "unlink"
      /\ req[b].doc \in Doc /\ req[b].field \in Fields /\ old \in Pair
  BY <1>1 DEF AccountsOK, RequestOK, Unlink, UnlinkRoutes, Requests, Doc
<1>3. /\ new \in Pair /\ new.secret = None
      /\ new.id = old.id \/ (new.id = None /\ req[b].field = "local")
  <2>1. CASE req[b].field = "local"
    BY <1>1, <2>1, NewUserOK DEF Unlinked, Nothing
  <2>2. CASE req[b].field # "local"
    <3>1. new = [old EXCEPT !.secret = None] /\ None \in Values
      BY <1>1, <2>2 DEF Unlinked, Values
    <3> QED BY <1>2, <3>1 DEF Pair
  <2> QED BY <2>1, <2>2
<1>4. CASE req[b].user # 0 /\ Save(b, req[b].user, req[b].doc, new)
  BY <1>1, <1>2, <1>3, <1>4, SaveWaits
<1>5. CASE Done(b, 0) /\ saves' = saves
  BY <1>2, <1>5, DoneEnds DEF His
<1> QED BY <1>1, <1>4, <1>5 DEF Unlink, isLoggedIn

(* Whatever the route, a request ends or waits.                            *)
LEMMA HandleIs ==
  ASSUME AccountsOK, NEW b \in Browsers, RequestOK(owner, b, req[b]), Handle(b)
  PROVE  Ends(b) \/ Waiting(b)
<1>1. CASE Logout(b)
  BY <1>1 DEF Logout, Ends
<1>2. CASE FacebookStrategy(b) \/ TwitterStrategy(b) \/ GoogleStrategy(b)
  BY <1>2, StrategyIs DEF FacebookStrategy, TwitterStrategy, GoogleStrategy, Providers
<1> QED BY <1>1, <1>2, LocalLoginEnds, LocalSignupIs, UnlinkIs DEF Handle

-----------------------------------------------------------------------------
(* The invariant, one kind of step after the other.  What is stored stays  *)
(* as it is but for Saved.                                                 *)
Stored == <<accounts, owner, home>>

(* What is stored is sound while it stays.                                 *)
LEMMA StoredSame == AccountsOK /\ HomeOK /\ UNCHANGED Stored => AccountsOK' /\ HomeOK'
BY DEF AccountsOK, HomeOK, Stored

(* A request that starts about an identity which was never shared is alone *)
(* with it.                                                                *)
LEMMA NoOther ==
  ASSUME SavesOK, NEW b \in Browsers, req[b].stage = "started",
         NEW f, NEW id, Alone(f, id), About(req[b], f, id)
  PROVE  /\ \A s \in saves : ~About(s, f, id)
         /\ \A c \in Browsers : Busy(req[c], f, id) => c = b
         /\ \A s \in saves : s.waits => s.browser # b
BY DEF SavesOK, Alone, Busy, Waits

(* A request that ends keeps the invariant.                                *)
LEMMA EndsInv ==
  ASSUME Inv, NEW b \in Browsers, req[b].stage = "started", Ends(b),
         UNCHANGED <<env, Stored, shared>>
  PROVE  Inv'
<1>1. /\ AccountsOK' /\ HomeOK' /\ owner' = owner /\ accounts' = accounts
      /\ shared' = shared /\ (env \in Env)'
  BY StoredSame DEF Inv, Stored
<1>2. /\ Len(owner) = Len(accounts) /\ Len(accounts) \in Nat
      /\ req \in [Browsers -> Requests] /\ session \in [Browsers -> Nat]
  BY DEF Inv, AccountsOK, RequestsOK
<1>3. req' = [req EXCEPT ![b] = NoRequest] /\ NoRequest.stage = "none"
  BY DEF Ends, NoRequest
<1>4. /\ req' \in [Browsers -> Requests]
      /\ \A c \in Browsers : req'[c] = IF c = b THEN NoRequest ELSE req[c]
  BY <1>2, <1>3, NoRequestOK
<1>5. RequestsOK'
  <2>1. \A c \in Browsers : RequestOK(owner, c, req'[c])
    BY <1>4, NoRequestOK DEF Inv, RequestsOK
  <2>2. session' \in [Browsers -> Nat] /\ \A c \in Browsers : His(owner, c, session'[c])
    <3>1. \A c \in Browsers : His(owner, c, session[c])
      BY DEF Inv, RequestsOK
    <3>2. CASE session' = session
      BY <1>2, <3>1, <3>2
    <3>3. ASSUME NEW a, a = 0 \/ (a \in 1 .. Len(accounts) /\ owner[a] = PersonOf[b]),
                 session' = [session EXCEPT ![b] = a]
          PROVE  session' \in [Browsers -> Nat] /\ \A c \in Browsers : His(owner, c, session'[c])
      <4>1. a \in Nat /\ His(owner, b, a)
        BY <1>2, <3>3 DEF His
      <4>2. /\ session' \in [Browsers -> Nat]
            /\ \A c \in Browsers : session'[c] = IF c = b THEN a ELSE session[c]
        BY <1>2, <3>3, <4>1
      <4> QED BY <3>1, <4>1, <4>2
    <3> QED BY <3>2, <3>3 DEF Ends
  <2> QED BY <1>1, <1>4, <2>1, <2>2 DEF RequestsOK
<1>6. PICK new :
        /\ saves' = saves \cup new
        /\ \A s \in new : /\ SaveOK(owner, s) /\ ~s.waits
                          /\ About(req[b], s.field, s.id) /\ "id" \notin DOMAIN s.set
        /\ \A s, t \in new : s = t
  <2>1. CASE saves' = saves
    <3>1. PICK new : new = {}
      OBVIOUS
    <3>2. saves' = saves \cup new
      BY <2>1, <3>1
    <3> QED BY <3>1, <3>2
  <2>2. CASE saves' # saves
    <3>1. PICK s \in Saves : /\ saves' = saves \cup {s} /\ SaveOK(owner, s) /\ ~s.waits
                             /\ s.field = req[b].field /\ s.id = req[b].id
                             /\ "id" \notin DOMAIN s.set
      BY <2>2 DEF Ends
    <3>2. PICK new : new = {s}
      OBVIOUS
    <3> QED BY <3>1, <3>2 DEF About
  <2> QED BY <2>1, <2>2
<1>7. SavesOK'
  <2>1. \A s \in saves : s.waits => s.browser # b
    BY DEF Inv, SavesOK, Waits
  <2>2. \A s \in saves : s.browser \in Browsers
    BY DEF Inv, SavesOK, SaveOK, Saves
  <2>3. \A s \in saves' : SaveOK(owner, s) /\ (s.waits => s \in saves)
    BY <1>6 DEF Inv, SavesOK
  <2> QED BY <1>1, <1>4, <2>1, <2>2, <2>3 DEF Inv, SavesOK
<1>8. ASSUME NEW f \in Fields, NEW id \in Values, id # None, <<f, id>> \notin shared
      PROVE  Alone(f, id)' /\ Once(f, id)'
  <2>1. Alone(f, id) /\ Once(f, id)
    BY <1>8 DEF Inv, Unshared
  <2>2. Once(f, id)'
    BY <1>1, <1>6, <2>1 DEF Once
  <2>3. \A c \in Browsers : Busy(req'[c], f, id) => c # b /\ Busy(req[c], f, id)
    BY <1>3, <1>4 DEF Busy
  <2>4. CASE ~About(req[b], f, id)
    <3>1. \A s \in saves' : About(s, f, id) => s \in saves
      BY <1>6, <2>4 DEF About
    <3> QED BY <2>1, <2>2, <2>3, <3>1 DEF Alone
  <2>5. CASE About(req[b], f, id)
    <3>1. \A s \in saves : ~About(s, f, id)
      BY <2>1, <2>5, NoOther DEF Inv
    <3>2. \A c \in Browsers : ~Busy(req'[c], f, id)
      BY <2>1, <2>3, <2>5, NoOther DEF Inv
    <3> QED BY <1>6, <2>2, <3>1, <3>2 DEF Alone
  <2> QED BY <2>4, <2>5
<1> QED BY <1>1, <1>5, <1>7, <1>8 DEF Inv, Unshared

(* A request that waits for the database keeps it.                         *)
LEMMA WaitingInv ==
  ASSUME Inv, NEW b \in Browsers, req[b].stage = "started", Waiting(b),
         UNCHANGED <<env, Stored, shared>>
  PROVE  Inv'
<1>1. /\ AccountsOK' /\ HomeOK' /\ owner' = owner /\ accounts' = accounts
      /\ shared' = shared /\ (env \in Env)'
  BY StoredSame DEF Inv, Stored
<1>2. /\ req \in [Browsers -> Requests] /\ session' = session
      /\ RequestOK(owner, b, req[b]) /\ req[b] \in Requests
  BY DEF Inv, RequestsOK, Waiting
<1>3. PICK q : q = [req[b] EXCEPT !.stage = "saving"]
  OBVIOUS
<1>4. /\ q \in Requests /\ q.stage = "saving" /\ q.route = req[b].route
      /\ q.field = req[b].field /\ q.id = req[b].id /\ q.user = req[b].user
      /\ q.doc = req[b].doc
  BY <1>2, <1>3 DEF Requests, Stages
<1>5. req' = [req EXCEPT ![b] = q]
  BY <1>3 DEF Waiting
<1>6. /\ req' \in [Browsers -> Requests]
      /\ \A c \in Browsers : req'[c] = IF c = b THEN q ELSE req[c]
  BY <1>2, <1>4, <1>5
<1>7. RequestsOK'
  <2>1. RequestOK(owner, b, q)
    BY <1>2, <1>4 DEF RequestOK
  <2> QED BY <1>1, <1>2, <1>6, <2>1 DEF Inv, RequestsOK
<1>8. PICK s \in Saves :
        /\ saves' = saves \cup {s} /\ SaveOK(owner, s)
        /\ s.browser = b /\ s.waits /\ s.field = req[b].field /\ s.id = req[b].id
        /\ s.account = req[b].user
        /\ "id" \in DOMAIN s.set /\ s.id # None /\ (s.field = "local" \/ s.account = 0) =>
             \A n \in 1 .. Len(accounts) : accounts[n][s.field].id # s.id
  BY DEF Waiting
<1>9. \A t \in saves : (t.waits => t.browser # b) /\ t.browser \in Browsers
  BY DEF Inv, SavesOK, Waits, SaveOK, Saves
<1>10. SavesOK'
  <2>1. Waits(s, q)
    BY <1>4, <1>8 DEF Waits
  <2>2. \A t \in saves' : SaveOK(owner, t) /\ (t.waits => Waits(t, req'[t.browser]))
    BY <1>6, <1>8, <1>9, <2>1 DEF Inv, SavesOK
  <2>3. \A t, u \in saves' : t.waits /\ u.waits /\ t.browser = u.browser => t = u
    BY <1>8, <1>9 DEF Inv, SavesOK
  <2> QED BY <1>1, <2>2, <2>3 DEF SavesOK
<1>11. ASSUME NEW f \in Fields, NEW id \in Values, id # None, <<f, id>> \notin shared
       PROVE  Alone(f, id)' /\ Once(f, id)'
  <2>1. Alone(f, id) /\ Once(f, id)
    BY <1>11 DEF Inv, Unshared
  <2>2. Once(f, id)'
    BY <1>1, <1>8, <1>11, <2>1 DEF Once, About
  <2>3. \A c \in Browsers : Busy(req'[c], f, id) <=> Busy(req[c], f, id)
    BY <1>4, <1>6 DEF Busy, About
  <2>4. CASE ~About(req[b], f, id)
    <3>1. \A t \in saves' : About(t, f, id) => t \in saves
      BY <1>8, <2>4 DEF About
    <3> QED BY <2>1, <2>2, <2>3, <3>1 DEF Alone
  <2>5. CASE About(req[b], f, id)
    <3>1. \A t \in saves : ~About(t, f, id)
      BY <2>1, <2>5, NoOther DEF Inv
    <3>2. \A c \in Browsers : Busy(req'[c], f, id) => c = b
      BY <2>1, <2>3, <2>5, NoOther DEF Inv
    <3> QED BY <1>8, <2>2, <3>1, <3>2 DEF Alone
  <2> QED BY <2>4, <2>5
<1> QED BY <1>1, <1>7, <1>10, <1>11 DEF Inv, Unshared

(* A request reads the account of its session.                             *)
LEMMA DeserializeInv ==
  ASSUME Inv, NEW b \in Browsers, deserializeUser(b)
  PROVE  Inv'
<1>1. /\ AccountsOK' /\ HomeOK' /\ owner' = owner /\ accounts' = accounts
      /\ shared' = shared /\ (env \in Env)' /\ saves' = saves /\ session' = session
  BY StoredSame DEF Inv, Stored, deserializeUser, ghosts
<1>2. /\ req \in [Browsers -> Requests] /\ req[b].stage = "sent"
      /\ RequestOK(owner, b, req[b]) /\ req[b] \in Requests
      /\ His(owner, b, session[b]) /\ session[b] \in Nat
  BY DEF Inv, RequestsOK, deserializeUser
<1>3. PICK doc : doc = IF session[b] = 0 THEN NewUser ELSE accounts[session[b]]
  OBVIOUS
<1>4. DocOf(PersonOf[b], doc) /\ doc \in Doc
  BY <1>2, <1>3, NewUserOK DEF His, Inv, AccountsOK, DocOf
<1>5. PICK q : q = [req[b] EXCEPT !.stage = "started", !.user = session[b], !.doc = doc]
  OBVIOUS
<1>6. /\ q \in Requests /\ q.stage = "started" /\ q.route = req[b].route
      /\ q.field = req[b].field /\ q.id = req[b].id /\ q.user = session[b] /\ q.doc = doc
  BY <1>2, <1>4, <1>5 DEF Requests, Stages
<1>7. req' = [req EXCEPT ![b] = q]
  BY <1>3, <1>5 DEF deserializeUser
<1>8. /\ req' \in [Browsers -> Requests]
      /\ \A c \in Browsers : req'[c] = IF c = b THEN q ELSE req[c]
  BY <1>2, <1>6, <1>7
<1>9. RequestsOK'
  <2>1. RequestOK(owner, b, q)
    BY <1>2, <1>4, <1>6 DEF RequestOK
  <2> QED BY <1>1, <1>8, <2>1 DEF Inv, RequestsOK
<1>10. SavesOK'
  <2>1. \A s \in saves : (s.waits => s.browser # b) /\ s.browser \in Browsers
    BY <1>2 DEF Inv, SavesOK, Waits, SaveOK, Saves
  <2> QED BY <1>1, <1>8, <2>1 DEF Inv, SavesOK
<1>11. ASSUME NEW f, NEW id PROVE Alone(f, id) => Alone(f, id)'
  <2>1. \A c \in Browsers : Busy(req'[c], f, id) <=> Busy(req[c], f, id)
    BY <1>2, <1>6, <1>8 DEF Busy, About
  <2> QED BY <1>1, <2>1 DEF Alone
<1>12. Unshared'
  BY <1>1, <1>11 DEF Inv, Unshared, Once
<1> QED BY <1>1, <1>9, <1>10, <1>12 DEF Inv

(* A person asks for something of his.                                     *)
LEMMA AskIs ==
  ASSUME env \in Env, NEW b \in Browsers, Ask(b)
  PROVE  \E route \in Routes, field \in Fields, id \in Values :
           /\ Send(b, route, field, id)
           /\ id \in Ids(PersonOf[b], field) \cup {None}
           /\ id = None <=> route \in {None, "logout"} \cup UnlinkRoutes
           /\ route \in {"login", "signup", "connect local"} => field = "local"
           /\ route \in {"auth", "connect"} => field # "local"
<1>1. /\ "local" \in Fields /\ env.fields \subseteq Fields /\ None \in Values
      /\ Emails \subseteq Values /\ None \notin Emails
  BY AccountsAssumption DEF Fields, Env, Values
<1>2. CASE Send(b, "logout", "local", None)
  <2>1. /\ "logout" \in Routes /\ "logout" \in {None, "logout"} \cup UnlinkRoutes
        /\ "logout" \notin {"login", "signup", "connect local", "auth", "connect"}
        /\ None \in Ids(PersonOf[b], "local") \cup {None}
    BY DEF Routes
  <2> QED BY <1>1, <1>2, <2>1
<1>3. ASSUME NEW field \in env.fields, Send(b, "unlink", field, None)
      PROVE  \E route \in Routes, id \in Values :
               /\ Send(b, route, field, id)
               /\ id \in Ids(PersonOf[b], field) \cup {None}
               /\ id = None <=> route \in {None, "logout"} \cup UnlinkRoutes
               /\ route \in {"login", "signup", "connect local"} => field = "local"
               /\ route \in {"auth", "connect"} => field # "local"
  <2>1. "unlink" \in Routes /\ "unlink" \in UnlinkRoutes /\ "unlink" # "login"
        /\ "unlink" \notin {"login", "signup", "connect local", "auth", "connect"}
    BY DEF Routes, UnlinkRoutes
  <2>2. None \in Values /\ None \in Ids(PersonOf[b], field) \cup {None}
    BY <1>1
  <2> QED BY <1>3, <2>1, <2>2
<1>4. ASSUME NEW route \in {"login", "signup", "connect local"}, NEW email \in Emails,
             Send(b, route, "local", email)
      PROVE  /\ route \in Routes /\ email \in Values /\ email \in Ids(PersonOf[b], "local")
             /\ email # None /\ route \notin {None, "logout"} \cup UnlinkRoutes
             /\ route \notin {"auth", "connect"}
  BY <1>1 DEF Routes, LoginRoutes, ConnectRoutes, UnlinkRoutes, None, Ids
<1>5. ASSUME NEW route \in {"auth", "connect"}, NEW field \in env.fields, field # "local"
      PROVE  LET id == IdOf[PersonOf[b]][field] IN
             /\ route \in Routes /\ id \in Values /\ id \in Ids(PersonOf[b], field)
             /\ id # None /\ route \notin {None, "logout"} \cup UnlinkRoutes
             /\ route \notin {"login", "signup", "connect local"}
  <2>1. PICK id : id = IdOf[PersonOf[b]][field]
    OBVIOUS
  <2>2. id \in Ids(PersonOf[b], field) /\ field \in Fields
    BY <1>1, <1>5, <2>1 DEF Ids
  <2>3. id \in Values /\ id # None
    BY <2>2, PersonIs, TheirsOK
  <2>4. route \in Routes /\ route \notin {None, "logout"} \cup UnlinkRoutes
    BY DEF Routes, LoginRoutes, ConnectRoutes, UnlinkRoutes, None
  <2> QED BY <2>1, <2>2, <2>3, <2>4
<1>6. ASSUME NEW field \in env.fields,
             \/ field = "local" /\ \E route \in {"login", "signup", "connect local"},
                                      email \in Emails : Send(b, route, field, email)
             \/ field # "local" /\ \E route \in {"auth", "connect"} :
                  Send(b, route, field, IdOf[PersonOf[b]][field])
             \/ Send(b, "unlink", field, None)
      PROVE  \E route \in Routes, id \in Values :
               /\ Send(b, route, field, id)
               /\ id \in Ids(PersonOf[b], field) \cup {None}
               /\ id = None <=> route \in {None, "logout"} \cup UnlinkRoutes
               /\ route \in {"login", "signup", "connect local"} => field = "local"
               /\ route \in {"auth", "connect"} => field # "local"
  <2>1. CASE Send(b, "unlink", field, None)
    BY <1>3, <2>1
  <2>2. CASE field = "local" /\ \E route \in {"login", "signup", "connect local"},
                                  email \in Emails : Send(b, route, field, email)
    BY <1>4, <2>2
  <2>3. CASE field # "local" /\ \E route \in {"auth", "connect"} :
                Send(b, route, field, IdOf[PersonOf[b]][field])
    BY <1>5, <2>3
  <2> QED BY <1>6, <2>1, <2>2, <2>3
<1> QED BY <1>1, <1>2, <1>6 DEF Ask

(* A person who asks keeps it.                                             *)
LEMMA AskInv ==
  ASSUME Inv, NEW b \in Browsers, Ask(b)
  PROVE  Inv'
<1>1. PICK route \in Routes, field \in Fields, id \in Values :
        /\ Send(b, route, field, id)
        /\ id \in Ids(PersonOf[b], field) \cup {None}
        /\ id = None <=> route \in {None, "logout"} \cup UnlinkRoutes
        /\ route \in {"login", "signup", "connect local"} => field = "local"
        /\ route \in {"auth", "connect"} => field # "local"
  BY AskIs DEF Inv
<1>2. /\ AccountsOK' /\ HomeOK' /\ owner' = owner /\ accounts' = accounts
      /\ (env \in Env)' /\ saves' = saves /\ session' = session /\ req[b].stage = "none"
  BY <1>1, StoredSame DEF Inv, Stored, Send
<1>3. PICK q : q = [NoRequest EXCEPT !.stage = "sent", !.route = route, !.field = field,
                                     !.id = id]
  OBVIOUS
<1>4. /\ q \in Requests /\ q.stage = "sent" /\ q.route = route /\ q.field = field
      /\ q.id = id /\ q.user = 0 /\ q.doc = NewUser
  <2>1. /\ NoRequest \in Requests /\ NoRequest.user = 0 /\ NoRequest.doc = NewUser
        /\ "sent" \in Stages
    BY NoRequestOK DEF NoRequest, Stages
  <2> QED BY <1>3, <2>1 DEF Requests
<1>5. req \in [Browsers -> Requests] /\ req' = [req EXCEPT ![b] = q]
  BY <1>1, <1>3 DEF Inv, RequestsOK, Send
<1>6. /\ req' \in [Browsers -> Requests]
      /\ \A c \in Browsers : req'[c] = IF c = b THEN q ELSE req[c]
  BY <1>4, <1>5
<1>7. RequestsOK'
  <2>1. RequestOK(owner, b, q)
    BY <1>1, <1>4, NewUserOK DEF RequestOK, His
  <2> QED BY <1>2, <1>6, <2>1 DEF Inv, RequestsOK
<1>8. SavesOK'
  <2>1. \A s \in saves : (s.waits => s.browser # b) /\ s.browser \in Browsers
    BY <1>2 DEF Inv, SavesOK, Waits, SaveOK, Saves
  <2> QED BY <1>2, <1>6, <2>1 DEF Inv, SavesOK
<1>9. /\ shared \subseteq shared'
      /\ id # None /\ <<field, id>> \notin shared' => ~UnderWay(<<field, id>>)
  BY <1>1 DEF Send
<1>10. ASSUME NEW f \in Fields, NEW x \in Values, x # None, <<f, x>> \notin shared'
       PROVE  Alone(f, x)' /\ Once(f, x)'
  <2>1. Alone(f, x) /\ Once(f, x)
    BY <1>9, <1>10 DEF Inv, Unshared
  <2>2. Once(f, x)'
    BY <1>2, <2>1 DEF Once
  <2>3. CASE f = field /\ x = id
    <3>1. /\ \A c \in Browsers : ~Busy(req[c], f, x)
          /\ \A s \in saves : ~About(s, f, x)
      BY <1>9, <1>10, <2>3 DEF UnderWay, Busy, About, Identity
    <3> QED BY <1>2, <1>6, <2>2, <3>1 DEF Alone
  <2>4. CASE ~(f = field /\ x = id)
    <3>1. \A c \in Browsers : Busy(req'[c], f, x) => Busy(req[c], f, x)
      BY <1>4, <1>6, <2>4 DEF Busy, About
    <3> QED BY <1>2, <2>1, <2>2, <3>1 DEF Alone
  <2> QED BY <2>3, <2>4
<1> QED BY <1>2, <1>7, <1>8, <1>10 DEF Inv, Unshared

(* A restart forgets the sessions and the requests.                        *)
LEMMA RestartInv ==
  ASSUME Inv, Restart
  PROVE  Inv'
<1>1. /\ AccountsOK' /\ HomeOK' /\ owner' = owner /\ accounts' = accounts
      /\ shared' = shared /\ session' = [b \in Browsers |-> 0]
      /\ req' = [b \in Browsers |-> NoRequest]
      /\ saves' = {[s EXCEPT !.waits = FALSE] : s \in saves}
  BY StoredSame DEF Inv, Stored, Restart, ghosts
<1>2. (env \in Env)'
  <2>1. PICK n \in Nat : n = env.restarts - 1
    BY DEF Inv, Env, Restart
  <2>2. env' = [env EXCEPT !.restarts = n]
    BY <2>1 DEF Restart
  <2> QED BY <2>2 DEF Inv, Env
<1>3. RequestsOK'
  <2>1. \A b \in Browsers : RequestOK(owner, b, NoRequest) /\ NoRequest \in Requests
    BY NoRequestOK
  <2> QED BY <1>1, <2>1 DEF RequestsOK, His
<1>4. \A t \in saves' : \E s \in saves :
        /\ t \in Saves /\ ~t.waits /\ t.browser = s.browser /\ t.account = s.account
        /\ t.field = s.field /\ t.id = s.id /\ t.set = s.set
        /\ t = [s EXCEPT !.waits = FALSE] /\ SaveOK(owner, s)
  <2>1. ASSUME NEW s \in saves, NEW t, t = [s EXCEPT !.waits = FALSE]
        PROVE  /\ t \in Saves /\ ~t.waits /\ t.browser = s.browser /\ t.account = s.account
               /\ t.field = s.field /\ t.id = s.id /\ t.set = s.set /\ SaveOK(owner, s)
    <3>1. s \in Saves /\ SaveOK(owner, s)
      BY DEF Inv, SavesOK, SaveOK
    <3> QED BY <2>1, <3>1 DEF Saves
  <2> QED BY <1>1, <2>1
<1>5. SavesOK'
  <2>1. \A t \in saves' : SaveOK(owner, t) /\ ~t.waits
    BY <1>4 DEF SaveOK
  <2> QED BY <1>1, <2>1 DEF SavesOK
<1>6. ASSUME NEW f \in Fields, NEW id \in Values, id # None, <<f, id>> \notin shared
      PROVE  Alone(f, id)' /\ Once(f, id)'
  <2>1. Alone(f, id) /\ Once(f, id)
    BY <1>6 DEF Inv, Unshared
  <2>2. \A b \in Browsers : ~Busy(req'[b], f, id)
    BY <1>1 DEF Busy, NoRequest
  <2>3. \A s, t \in saves' : About(s, f, id) /\ About(t, f, id) => s = t
    <3>1. SUFFICES ASSUME NEW s \in saves', NEW t \in saves',
                          About(s, f, id), About(t, f, id)
                   PROVE  s = t
      OBVIOUS
    <3>2. PICK u \in saves : s = [u EXCEPT !.waits = FALSE] /\ About(u, f, id)
      BY <1>4, <3>1 DEF About
    <3>3. PICK v \in saves : t = [v EXCEPT !.waits = FALSE] /\ About(v, f, id)
      BY <1>4, <3>1 DEF About
    <3> QED BY <2>1, <3>2, <3>3 DEF Alone
  <2>4. Alone(f, id)'
    BY <2>2, <2>3 DEF Alone
  <2>5. Once(f, id)'
    BY <1>1, <1>4, <2>1 DEF Once, About
  <2> QED BY <2>4, <2>5
<1> QED BY <1>1, <1>2, <1>3, <1>5, <1>6 DEF Inv, Unshared

-----------------------------------------------------------------------------
(* The database does what it was told: one field of account a is set, or   *)
(* account a is new and has nothing else.                                  *)
At(s) == IF s.account = 0 THEN Len(accounts) + 1 ELSE s.account

Puts(s, a) ==
  /\ Len(accounts) \in Nat /\ Len(accounts') \in Nat
  /\ Len(owner) = Len(accounts) /\ Len(owner') = Len(accounts')
  /\ a \in 1 .. Len(accounts') /\ Len(accounts) <= Len(accounts')
  /\ owner'[a] = PersonOf[s.browser]
  /\ s.account = 0 => a \notin 1 .. Len(accounts)
  /\ s.account # 0 => a = s.account /\ a \in 1 .. Len(accounts)
  /\ \A n \in 1 .. Len(accounts) : owner'[n] = owner[n]
  /\ \A n \in 1 .. Len(accounts') :
       n # a => n \in 1 .. Len(accounts) /\ accounts'[n] = accounts[n]
  /\ \A f \in Fields :
       \/ s.account = 0 /\ accounts'[a][f].id = None
       \/ s.account # 0 /\ accounts'[a][f].id = accounts[a][f].id
       \/ f = s.field /\ "id" \in DOMAIN s.set /\ accounts'[a][f].id = s.id

(* What the database stores is a step of that kind.                        *)
LEMMA SavedPuts ==
  ASSUME AccountsOK, NEW s, SaveOK(owner, s), Saved(s), NEW a, a = At(s)
  PROVE  AccountsOK' /\ Puts(s, a)
<1>1. PICK N \in Nat, p \in People, f \in Fields :
        N = Len(accounts) /\ p = PersonOf[s.browser] /\ f = s.field
  BY PersonIs DEF AccountsOK, SaveOK, Saves
<1>2. /\ accounts \in Seq(Doc) /\ owner \in Seq(People) /\ Len(owner) = N
      /\ \A n \in 1 .. N : accounts[n] \in Doc /\ DocOf(owner[n], accounts[n])
  BY <1>1 DEF AccountsOK
<1>3. /\ s.account = 0 => a = N + 1
      /\ s.account # 0 => a \in 1 .. N /\ a = s.account /\ owner[a] = p
  BY <1>1, <1>2 DEF SaveOK, His, At
<1>4. PICK old : old = IF s.account = 0 THEN NewUser ELSE accounts[a]
  OBVIOUS
<1>5. old \in Doc /\ DocOf(p, old) /\ (s.account = 0 => \A g \in Fields : old[g].id = None)
  <2>1. CASE s.account = 0
    BY <1>4, <2>1, NewUserOK DEF Nothing
  <2>2. CASE s.account # 0
    BY <1>2, <1>3, <1>4, <2>2
  <2> QED BY <2>1, <2>2
<1>6. PICK part : part = [k \in {"id", "secret"} |->
                            IF k \in DOMAIN s.set THEN s.set[k] ELSE old[f][k]]
  OBVIOUS
<1>7. /\ part \in Pair
      /\ part.id = IF "id" \in DOMAIN s.set THEN s.set["id"] ELSE old[f].id
      /\ part.secret = IF "secret" \in DOMAIN s.set THEN s.set["secret"] ELSE old[f].secret
  <2>1. /\ old[f] \in Pair /\ old[f]["id"] = old[f].id /\ old[f]["secret"] = old[f].secret
        /\ old[f].id \in Values /\ old[f].secret \in Values
    BY <1>5 DEF Doc, Pair
  <2>2. \A k \in Parts : k \in DOMAIN s.set => s.set[k] \in Values
    <3>1. PICK D \in SUBSET Parts : s.set \in [D -> Values]
      BY DEF SaveOK, Saves, Sets
    <3> QED BY <3>1
  <2>3. PICK x, y : /\ x = IF "id" \in DOMAIN s.set THEN s.set["id"] ELSE old[f].id
                    /\ y = IF "secret" \in DOMAIN s.set THEN s.set["secret"] ELSE old[f].secret
    OBVIOUS
  <2>4. x \in Values /\ y \in Values
    BY <2>1, <2>2, <2>3 DEF Parts
  <2>5. part = [id |-> x, secret |-> y]
    BY <1>6, <2>1, <2>3
  <2> QED BY <2>3, <2>4, <2>5 DEF Pair
<1>8. PICK new : new = [old EXCEPT ![f] = part]
  OBVIOUS
<1>9. new \in Doc /\ \A g \in Fields : new[g] = IF g = f THEN part ELSE old[g]
  BY <1>5, <1>7, <1>8 DEF Doc
<1>10. DocOf(p, new)
  <2>1. s.id \in Ids(p, f) \cup {None}
    BY <1>1 DEF SaveOK
  <2>2. part.id \in Ids(p, f) \cup {None}
    BY <1>1, <1>5, <1>7, <2>1 DEF SaveOK, DocOf
  <2>3. part.secret \in Secrets(p, f) \cup {None}
    BY <1>1, <1>5, <1>7 DEF SaveOK, DocOf
  <2> QED BY <1>5, <1>9, <2>2, <2>3 DEF DocOf
<1>11. PICK M \in Nat : M = (IF a > N THEN a ELSE N)
  BY <1>3
<1>12. accounts' = [n \in 1 .. M |-> IF n = a THEN new ELSE accounts[n]]
  BY <1>1, <1>4, <1>6, <1>8, <1>11 DEF Saved, At
<1>13. /\ s.account = 0 => M = N + 1 /\ a = M
       /\ s.account # 0 => M = N
       /\ a \in 1 .. M /\ N <= M /\ \A n \in 1 .. M : n # a => n \in 1 .. N
  BY <1>3, <1>11
<1>14. /\ accounts' \in Seq(Doc) /\ Len(accounts') = M
       /\ \A n \in 1 .. M : accounts'[n] = IF n = a THEN new ELSE accounts[n]
  <2>1. \A n \in 1 .. M : (IF n = a THEN new ELSE accounts[n]) \in Doc
    BY <1>2, <1>9, <1>13
  <2>2. accounts' \in [1 .. M -> Doc]
    BY <1>12, <2>1
  <2> QED BY <1>12, <2>2
<1>15. /\ owner' \in Seq(People) /\ Len(owner') = M /\ owner'[a] = p
       /\ \A n \in 1 .. N : owner'[n] = owner[n]
  <2>1. CASE s.account = 0
    <3>1. owner' = Append(owner, p)
      BY <1>1, <2>1 DEF Saved
    <3> QED BY <1>1, <1>2, <1>13, <2>1, <3>1
  <2>2. CASE s.account # 0
    <3>1. owner' = owner
      BY <2>2 DEF Saved
    <3> QED BY <1>2, <1>3, <1>13, <2>2, <3>1
  <2> QED BY <2>1, <2>2
<1>16. \A n \in 1 .. M : DocOf(owner'[n], accounts'[n])
  BY <1>2, <1>10, <1>13, <1>14, <1>15
<1>17. AccountsOK'
  BY <1>14, <1>15, <1>16 DEF AccountsOK
<1>18. \A g \in Fields :
         \/ s.account = 0 /\ accounts'[a][g].id = None
         \/ s.account # 0 /\ accounts'[a][g].id = accounts[a][g].id
         \/ g = s.field /\ "id" \in DOMAIN s.set /\ accounts'[a][g].id = s.id
  <2>1. accounts'[a] = new
    BY <1>13, <1>14
  <2>2. ASSUME NEW g \in Fields, g # f \/ "id" \notin DOMAIN s.set
        PROVE  new[g].id = old[g].id
    BY <1>7, <1>9, <2>2
  <2>3. "id" \in DOMAIN s.set => new[f].id = s.id
    BY <1>7, <1>9 DEF SaveOK
  <2> QED BY <1>1, <1>4, <1>5, <2>1, <2>2, <2>3
<1>19. /\ N = Len(accounts) /\ M = Len(accounts') /\ Len(owner) = N /\ Len(owner') = M
  BY <1>1, <1>2, <1>14, <1>15
<1>20. owner'[a] = PersonOf[s.browser]
  BY <1>1, <1>15
<1>21. /\ s.account = 0 => a \notin 1 .. N
       /\ s.account # 0 => a = s.account /\ a \in 1 .. N
  BY <1>3
<1>22. \A n \in 1 .. M : n # a => n \in 1 .. N /\ accounts'[n] = accounts[n]
  BY <1>13, <1>14
<1>23. Puts(s, a)
  BY <1>13, <1>15, <1>18, <1>19, <1>20, <1>21, <1>22 DEF Puts
<1> QED BY <1>17, <1>23

(* Who could get at an account still can.                                  *)
LEMMA HisStays ==
  ASSUME NEW s, NEW a, Puts(s, a), NEW b, NEW x, His(owner, b, x)
  PROVE  His(owner', b, x)
<1>1. CASE x = 0
  BY <1>1 DEF His
<1>2. CASE x # 0
  BY <1>2 DEF His, Puts
<1> QED BY <1>1, <1>2

(* An identity has the home it was put into last.                          *)
LEMMA IdentityIs ==
  ASSUME NEW i \in Identities
  PROVE  i = <<i[1], i[2]>> /\ i[1] \in Fields /\ i[2] \in Values /\ i[2] # None
<1>1. CASE i \in {"local"} \X Emails
  BY <1>1, AccountsAssumption DEF Fields, Values
<1>2. CASE i \in {<<f, IdOf[PersonOf[b]][f]>> : f \in Providers, b \in Browsers}
  <2>1. PICK f \in Providers, b \in Browsers : i = <<f, IdOf[PersonOf[b]][f]>>
    BY <1>2
  <2>2. f # "local" /\ f \in Fields
    BY DEF Providers, Fields
  <2>3. IdOf[PersonOf[b]][f] \in Ids(PersonOf[b], f)
    BY <2>2 DEF Ids
  <2>4. IdOf[PersonOf[b]][f] \in Values /\ IdOf[PersonOf[b]][f] # None
    BY <2>2, <2>3, PersonIs, TheirsOK
  <2> QED BY <2>1, <2>2, <2>4
<1> QED BY <1>1, <1>2 DEF Identities

(* What the promises of the model see of a step of the database.           *)
Put(s, a) == s.id # None /\ accounts'[a][s.field].id = s.id

(* And so are the promises.                                                *)
LEMMA SavedIs ==
  ASSUME AccountsOK, NEW s, SaveOK(owner, s), Saved(s), NEW a, a = At(s)
  PROVE  /\ env' = env /\ saves' = saves \ {s}
         /\ home' = IF Put(s, a) THEN [home EXCEPT ![Identity(s)] = a] ELSE home
         /\ shared' = IF Put(s, a) /\ s.field # "local" /\ s.account # 0
                           /\ \E n \in 1 .. Len(accounts) :
                                n # a /\ accounts[n][s.field].id = s.id
                      THEN shared \cup {Identity(s)} ELSE shared
         /\ IF s.waits THEN Done(s.browser, a) ELSE UNCHANGED <<req, session>>
<1>1. PICK new : /\ new = [IF s.account = 0 THEN NewUser ELSE accounts[a] EXCEPT ![s.field] =
                             [k \in {"id", "secret"} |->
                                IF k \in DOMAIN s.set THEN s.set[k] ELSE @[k]]]
  OBVIOUS
<1>2. accounts' = [n \in 1 .. (IF a > Len(accounts) THEN a ELSE Len(accounts)) |->
                     IF n = a THEN new ELSE accounts[n]]
  BY <1>1 DEF Saved, At
<1>3. /\ Len(accounts) \in Nat /\ DOMAIN accounts = 1 .. Len(accounts)
      /\ a \in 1 .. (IF a > Len(accounts) THEN a ELSE Len(accounts))
  <2>1. Len(accounts) \in Nat /\ DOMAIN accounts = 1 .. Len(accounts) /\ Len(owner) = Len(accounts)
    BY DEF AccountsOK
  <2> QED BY <2>1 DEF SaveOK, His, At
<1>4. accounts'[a] = new
  BY <1>2, <1>3
<1>5. Put(s, a) = (s.id # None /\ new[s.field].id = s.id)
  BY <1>4 DEF Put
<1>6. env' = env /\ saves' = saves \ {s}
  BY DEF Saved
<1>7. home' = IF Put(s, a) THEN [home EXCEPT ![Identity(s)] = a] ELSE home
  BY <1>1, <1>5 DEF Saved, At
<1>8. shared' = IF Put(s, a) /\ s.field # "local" /\ s.account # 0
                     /\ \E n \in 1 .. Len(accounts) :
                          n # a /\ accounts[n][s.field].id = s.id
                THEN shared \cup {Identity(s)} ELSE shared
  BY <1>1, <1>3, <1>5 DEF Saved, At
<1>9. IF s.waits THEN Done(s.browser, a) ELSE UNCHANGED <<req, session>>
  BY DEF Saved, At
<1> QED BY <1>6, <1>7, <1>8, <1>9

(* Nothing at a provider moves, and what is put there is at home.          *)
LEMMA SavedHome ==
  ASSUME Inv, NEW s \in saves, Saved(s)
  PROVE  HomeOK'
<1>1. PICK a : a = At(s)
  OBVIOUS
<1>2. /\ SaveOK(owner, s) /\ AccountsOK /\ s.field \in Fields /\ s.browser \in Browsers
  BY DEF Inv, SavesOK, SaveOK, Saves
<1>3. Puts(s, a) /\ a \in Nat
  BY <1>1, <1>2, SavedPuts DEF Puts
<1>4. home' = IF Put(s, a) THEN [home EXCEPT ![Identity(s)] = a] ELSE home
  BY <1>1, <1>2, SavedIs
<1>5. home \in [Identities -> Nat]
  BY DEF Inv, HomeOK
<1>6. home' \in [Identities -> Nat]
  BY <1>3, <1>4, <1>5
<1>7. ASSUME NEW i \in Identities, i[1] # "local", home'[i] # 0
      PROVE  home'[i] \in 1 .. Len(accounts') /\ accounts'[home'[i]][i[1]].id = i[2]
  <2>1. i = <<i[1], i[2]>> /\ i[1] \in Fields /\ i[2] # None
    BY IdentityIs
  <2>2. CASE Put(s, a) /\ i = Identity(s)
    <3>1. home'[i] = a /\ i[1] = s.field /\ i[2] = s.id
      BY <1>4, <1>5, <2>2 DEF Identity
    <3> QED BY <1>3, <2>2, <3>1 DEF Put, Puts
  <2>3. CASE ~(Put(s, a) /\ i = Identity(s))
    <3>1. PICK h : h = home[i] /\ home'[i] = h
      BY <1>4, <1>5, <2>3
    <3>2. h \in 1 .. Len(accounts) /\ accounts[h][i[1]].id = i[2]
      BY <1>7, <3>1 DEF Inv, HomeOK
    <3>3. h \in 1 .. Len(accounts')
      BY <1>3, <3>2 DEF Puts
    <3>4. CASE h # a
      BY <1>3, <3>1, <3>2, <3>3, <3>4 DEF Puts
    <3>5. CASE h = a
      <4>1. s.account # 0 /\ a = s.account /\ owner[a] = PersonOf[s.browser]
        BY <1>2, <1>3, <3>2, <3>5 DEF Puts, SaveOK, His
      <4>2. \/ accounts'[a][i[1]].id = accounts[a][i[1]].id
            \/ i[1] = s.field /\ "id" \in DOMAIN s.set /\ accounts'[a][i[1]].id = s.id
        BY <1>3, <2>1, <4>1 DEF Puts
      <4>3. CASE i[1] = s.field /\ "id" \in DOMAIN s.set /\ accounts'[a][i[1]].id = s.id
        <5>1. s.id \in Ids(PersonOf[s.browser], i[1])
          BY <1>2, <1>7, <4>3 DEF SaveOK
        <5>2. i[2] \in Ids(owner[a], i[1])
          BY <1>2, <2>1, <3>2, <3>5 DEF AccountsOK, DocOf
        <5>3. s.id = i[2]
          BY <1>2, <1>7, <2>1, <4>1, <5>1, <5>2, PersonIs, OfOne
        <5> QED BY <3>1, <3>3, <3>5, <4>3, <5>3
      <4> QED BY <3>1, <3>2, <3>3, <3>5, <4>2, <4>3
    <3> QED BY <3>4, <3>5
  <2> QED BY <2>2, <2>3
<1> QED BY <1>6, <1>7 DEF HomeOK

(* The request that waited is answered, and logs in its person.            *)
LEMMA SavedRequests ==
  ASSUME Inv, NEW s \in saves, Saved(s)
  PROVE  /\ RequestsOK'
         /\ \A c \in Browsers :
              \/ req'[c] = req[c]
              \/ c = s.browser /\ s.waits /\ req'[c] = NoRequest
<1>1. PICK a, b : a = At(s) /\ b = s.browser
  OBVIOUS
<1>2. /\ SaveOK(owner, s) /\ AccountsOK /\ b \in Browsers
      /\ req \in [Browsers -> Requests] /\ session \in [Browsers -> Nat]
  BY <1>1 DEF Inv, SavesOK, SaveOK, Saves, RequestsOK
<1>3. Puts(s, a)
  BY <1>1, <1>2, SavedPuts
<1>4. a \in Nat /\ His(owner', b, a)
  BY <1>1, <1>3 DEF Puts, His
<1>5. ASSUME NEW c \in Browsers
      PROVE  RequestOK(owner', c, req[c]) /\ His(owner', c, session[c])
  <2>1. RequestOK(owner, c, req[c]) /\ His(owner, c, session[c])
    BY DEF Inv, RequestsOK
  <2>2. His(owner', c, session[c])
    BY <1>3, <2>1, HisStays
  <2>3. His(owner', c, req[c].user)
    BY <1>3, <2>1, HisStays DEF RequestOK
  <2> QED BY <2>1, <2>2, <2>3 DEF RequestOK
<1>6. CASE ~s.waits
  <2>1. req' = req /\ session' = session
    BY <1>1, <1>2, <1>6, SavedIs
  <2> QED BY <1>2, <1>5, <2>1 DEF RequestsOK
<1>7. CASE s.waits
  <2>1. Done(b, a)
    BY <1>1, <1>2, <1>7, SavedIs
  <2>2. /\ req' \in [Browsers -> Requests]
        /\ \A c \in Browsers : req'[c] = IF c = b THEN NoRequest ELSE req[c]
    BY <1>2, <2>1, NoRequestOK DEF Done
  <2>3. /\ session' \in [Browsers -> Nat]
        /\ \A c \in Browsers : session'[c] = session[c] \/ (c = b /\ session'[c] = a)
    BY <1>2, <1>4, <2>1 DEF Done
  <2>4. \A c \in Browsers : His(owner', c, session'[c])
    BY <1>4, <1>5, <2>3
  <2>5. \A c \in Browsers : RequestOK(owner', c, req'[c])
    BY <1>5, <2>2, NoRequestOK
  <2> QED BY <1>1, <1>7, <2>2, <2>3, <2>4, <2>5 DEF RequestsOK
<1> QED BY <1>6, <1>7

(* An identity that comes into an account was in none, or was in this one, *)
(* or is shared from now on.                                               *)
LEMMA SavedOnce ==
  ASSUME Inv, NEW s \in saves, Saved(s), NEW f \in Fields, NEW id \in Values, id # None,
         <<f, id>> \notin shared', Alone(f, id), Once(f, id)
  PROVE  Once(f, id)'
<1>1. PICK a : a = At(s)
  OBVIOUS
<1>2. SaveOK(owner, s) /\ AccountsOK
  BY DEF Inv, SavesOK
<1>3. Puts(s, a) /\ saves' = saves \ {s}
  BY <1>1, <1>2, SavedPuts, SavedIs
<1>4. shared' = IF Put(s, a) /\ s.field # "local" /\ s.account # 0
                     /\ \E n \in 1 .. Len(accounts) :
                          n # a /\ accounts[n][s.field].id = s.id
                THEN shared \cup {Identity(s)} ELSE shared
  BY <1>1, <1>2, SavedIs
<1>5. ASSUME accounts'[a][f].id = id
      PROVE  \/ a \in 1 .. Len(accounts) /\ accounts[a][f].id = id
             \/ About(s, f, id) /\ "id" \in DOMAIN s.set
  BY <1>3, <1>5 DEF Puts, About
<1>6. ASSUME NEW n \in 1 .. Len(accounts'), n # a, accounts'[n][f].id = id,
             accounts'[a][f].id = id
      PROVE  FALSE
  <2>1. n \in 1 .. Len(accounts) /\ accounts[n][f].id = id
    BY <1>3, <1>6 DEF Puts
  <2>2. CASE a \in 1 .. Len(accounts) /\ accounts[a][f].id = id
    BY <1>6, <2>1, <2>2 DEF Once
  <2>3. CASE About(s, f, id) /\ "id" \in DOMAIN s.set
    <3>1. f # "local" /\ s.account # 0
      BY <2>1, <2>3 DEF Once
    <3>2. Put(s, a) /\ s.field # "local" /\ Identity(s) = <<f, id>>
      BY <1>6, <2>3, <3>1 DEF Put, About, Identity
    <3>3. accounts[n][s.field].id = s.id
      BY <2>1, <2>3 DEF About
    <3>4. Identity(s) \in shared'
      BY <1>4, <1>6, <2>1, <3>1, <3>2, <3>3
    <3> QED BY <3>2, <3>4
  <2> QED BY <1>5, <1>6, <2>2, <2>3
<1>7. ASSUME NEW m \in 1 .. Len(accounts'), NEW n \in 1 .. Len(accounts'),
             accounts'[m][f].id = id, accounts'[n][f].id = id
      PROVE  m = n
  <2>1. CASE m = a \/ n = a
    BY <1>6, <1>7, <2>1
  <2>2. CASE m # a /\ n # a
    BY <1>3, <1>7, <2>2 DEF Puts, Once
  <2> QED BY <2>1, <2>2
<1>8. ASSUME NEW t \in saves', About(t, f, id), "id" \in DOMAIN t.set,
             f = "local" \/ t.account = 0,
             NEW n \in 1 .. Len(accounts'), accounts'[n][f].id = id
      PROVE  FALSE
  <2>1. /\ t \in saves /\ t # s
        /\ \A m \in 1 .. Len(accounts) : accounts[m][f].id # id
    BY <1>3, <1>8 DEF Once
  <2>2. n = a
    BY <1>3, <1>8, <2>1 DEF Puts
  <2>3. About(s, f, id)
    BY <1>5, <1>8, <2>1, <2>2
  <2> QED BY <1>8, <2>1, <2>3 DEF Alone
<1> QED BY <1>7, <1>8 DEF Once

(* The database keeps the invariant.                                       *)
LEMMA SavedInv ==
  ASSUME Inv, NEW s \in saves, Saved(s)
  PROVE  Inv'
<1>1. PICK a : a = At(s)
  OBVIOUS
<1>2. SaveOK(owner, s) /\ AccountsOK
  BY DEF Inv, SavesOK
<1>3. /\ AccountsOK' /\ Puts(s, a) /\ saves' = saves \ {s} /\ (env \in Env)'
      /\ shared \subseteq shared'
  BY <1>1, <1>2, SavedPuts, SavedIs DEF Inv
<1>4. SavesOK'
  <2>1. ASSUME NEW t \in saves' PROVE SaveOK(owner', t)
    <3>1. SaveOK(owner, t)
      BY <1>3 DEF Inv, SavesOK
    <3>2. His(owner', t.browser, t.account)
      BY <1>3, <3>1, HisStays DEF SaveOK
    <3> QED BY <3>1, <3>2 DEF SaveOK
  <2>2. ASSUME NEW t \in saves', t.waits PROVE Waits(t, req'[t.browser])
    <3>1. t \in saves /\ t # s /\ t.browser \in Browsers
      BY <1>3 DEF Inv, SavesOK, SaveOK, Saves
    <3>2. ~(t.browser = s.browser /\ s.waits)
      BY <2>2, <3>1 DEF Inv, SavesOK
    <3>3. req'[t.browser] = req[t.browser]
      BY <3>1, <3>2, SavedRequests
    <3> QED BY <2>2, <3>1, <3>3 DEF Inv, SavesOK
  <2> QED BY <1>3, <2>1, <2>2 DEF Inv, SavesOK
<1>5. ASSUME NEW f \in Fields, NEW id \in Values, id # None, <<f, id>> \notin shared'
      PROVE  Alone(f, id)' /\ Once(f, id)'
  <2>1. Alone(f, id) /\ Once(f, id)
    BY <1>3, <1>5 DEF Inv, Unshared
  <2>2. \A c \in Browsers : Busy(req'[c], f, id) => Busy(req[c], f, id)
    BY SavedRequests DEF Busy, NoRequest
  <2>3. Alone(f, id)'
    BY <1>3, <2>1, <2>2 DEF Alone
  <2> QED BY <1>5, <2>1, <2>3, SavedOnce
<1> QED BY <1>3, <1>4, <1>5, SavedHome, SavedRequests DEF Inv, Unshared

(* At first there are no accounts.                                         *)
LEMMA InvInit == Init => Inv
<1> SUFFICES ASSUME Init PROVE Inv
  OBVIOUS
<1>1. env \in Env /\ accounts = <<>> /\ owner = <<>> /\ saves = {}
  BY AccountsAssumption DEF Init
<1>2. AccountsOK
  BY <1>1 DEF AccountsOK
<1>3. RequestsOK
  BY NoRequestOK DEF Init, RequestsOK, His
<1>4. SavesOK
  BY <1>1 DEF SavesOK
<1>5. Unshared
  <2>1. \A b \in Browsers : \A f, id : ~Busy(req[b], f, id)
    BY DEF Init, Busy, NoRequest
  <2>2. Len(accounts) = 0
    BY <1>1
  <2> QED BY <1>1, <2>1, <2>2 DEF Unshared, Alone, Once
<1>6. HomeOK
  BY DEF Init, HomeOK
<1> QED BY <1>1, <1>2, <1>3, <1>4, <1>5, <1>6 DEF Inv

(* The handlers of the routes keep it.                                     *)
LEMMA HandleInv ==
  ASSUME Inv, NEW b \in Browsers, Handle(b)
  PROVE  Inv' /\ req[b].stage = "started" /\ (Ends(b) \/ Waiting(b))
<1>1. /\ req[b].stage = "started" /\ UNCHANGED <<env, Stored, shared>>
      /\ AccountsOK /\ RequestOK(owner, b, req[b])
  BY DEF Handle, ghosts, Stored, Inv, RequestsOK
<1>2. Ends(b) \/ Waiting(b)
  BY <1>1, HandleIs
<1>3. Inv'
  BY <1>1, <1>2, EndsInv, WaitingInv
<1> QED BY <1>1, <1>2, <1>3

(* Every step keeps it.                                                    *)
LEMMA InvNext == Inv /\ [Next]_vars => Inv'
<1> SUFFICES ASSUME Inv, [Next]_vars PROVE Inv'
  OBVIOUS
<1>1. CASE UNCHANGED vars
  BY <1>1 DEF vars, Inv, AccountsOK, RequestsOK, SavesOK, Unshared, Alone, Once, HomeOK
<1>2. ASSUME NEW b \in Browsers, Ask(b) \/ Server(b) PROVE Inv'
  BY <1>2, AskInv, DeserializeInv, HandleInv DEF Server
<1>3. ASSUME NEW s \in saves, Saved(s) PROVE Inv'
  BY <1>3, SavedInv
<1> QED BY <1>1, <1>2, <1>3, RestartInv DEF Next

(* What the invariant says of the accounts.                                *)
LEMMA InvAccounts == Inv => AccountsInv
<1> SUFFICES ASSUME Inv PROVE AccountsInv
  OBVIOUS
<1>1. /\ DOMAIN accounts = 1 .. Len(accounts) /\ DOMAIN owner = 1 .. Len(accounts)
      /\ Len(owner) = Len(accounts) /\ Len(accounts) \in Nat
      /\ \A a \in 1 .. Len(accounts) : accounts[a] \in Doc
  BY DEF Inv, AccountsOK
<1>2. TypeOK
  <2>1. \A a \in DOMAIN accounts : DOMAIN accounts[a] = Fields
    BY <1>1 DEF Doc
  <2>2. \A b \in Browsers : /\ session[b] \in DOMAIN accounts \cup {0}
                            /\ req[b].stage \in {"none", "sent", "started", "saving"}
    BY <1>1 DEF Inv, RequestsOK, His, Requests, Stages
  <2>3. \A s \in saves : s.account \in DOMAIN accounts \cup {0}
    BY <1>1 DEF Inv, SavesOK, SaveOK, His
  <2> QED BY <1>1, <2>1, <2>2, <2>3 DEF TypeOK
<1>3. ASSUME NEW i \in Identities \ shared
      PROVE  Cardinality({a \in DOMAIN accounts : accounts[a][i[1]].id = i[2]}) <= 1
  <2>1. i = <<i[1], i[2]>> /\ i[1] \in Fields /\ i[2] \in Values /\ i[2] # None
    BY IdentityIs
  <2>2. Once(i[1], i[2])
    BY <2>1 DEF Inv, Unshared
  <2>3. PICK S : S = {a \in DOMAIN accounts : accounts[a][i[1]].id = i[2]}
    OBVIOUS
  <2>4. \A m, n \in S : m = n
    BY <1>1, <2>2, <2>3 DEF Once
  <2>5. Cardinality(S) <= 1
    <3>1. CASE S = {}
      BY <3>1, FS_EmptySet
    <3>2. CASE S # {}
      <4>1. PICK x : S = {x}
        BY <2>4, <3>2
      <4> QED BY <4>1, FS_Singleton
    <3> QED BY <3>1, <3>2
  <2> QED BY <2>3, <2>5
<1>4. NobodyElse
  BY DEF NobodyElse, Inv, RequestsOK, His
<1> QED BY <1>2, <1>3, <1>4 DEF AccountsInv, OneAccount

(* An identity is in one account, unless two requests were about it at the *)
(* same time or it was connected while another account had it; and nobody  *)
(* is logged in to what somebody else made, in every order of requests,    *)
(* answers of the database and restarts.                                   *)
THEOREM AccountsSafe == Spec => []AccountsInv
<1>1. Init => Inv
  BY InvInit
<1>2. Inv /\ [Next]_vars => Inv'
  BY InvNext
<1>3. Inv => AccountsInv
  BY InvAccounts
<1> QED BY <1>1, <1>2, <1>3, PTL DEF Spec

(* Whoever a step logs in through a provider gets the account at home.     *)
LEMMA StepComesBack ==
  ASSUME Inv, Next, NEW b \in Browsers, NEW i, i = Identity(req[b]),
         req[b].route = "auth", req[b].user = 0, i \notin shared, home[i] # 0,
         session'[b] # session[b], session'[b] # 0
  PROVE  session'[b] = home[i]
<1>1. /\ RequestOK(owner, b, req[b]) /\ req[b] \in Requests
      /\ session \in [Browsers -> Nat]
  BY DEF Inv, RequestsOK
<1>2. PICK f, id : /\ f = req[b].field /\ id = req[b].id /\ i = <<f, id>>
                   /\ f \in Fields /\ id \in Values /\ id # None /\ f # "local"
  <2>1. req[b].id # None /\ req[b].field # "local"
    BY <1>1 DEF RequestOK, UnlinkRoutes, None
  <2> QED BY <1>1, <2>1 DEF Identity, Requests
<1>3. i \in Identities
  <2>1. id \in Ids(PersonOf[b], f) /\ f \in Providers
    BY <1>1, <1>2 DEF RequestOK, Fields
  <2>2. id = IdOf[PersonOf[b]][f]
    BY <1>2, <2>1 DEF Ids
  <2> QED BY <1>2, <2>1, <2>2 DEF Identities
<1>4. home[i] \in 1 .. Len(accounts) /\ accounts[home[i]][f].id = id
  BY <1>2, <1>3 DEF Inv, HomeOK
<1>5. Alone(f, id) /\ Once(f, id)
  BY <1>2 DEF Inv, Unshared
<1>6. ASSUME NEW c \in Browsers, Ask(c) PROVE FALSE
  <2>1. session' = session
    BY <1>6, AskIs DEF Inv, Send
  <2> QED BY <2>1
<1>7. ASSUME NEW c \in Browsers, deserializeUser(c) PROVE FALSE
  BY <1>7 DEF deserializeUser
<1>8. ASSUME NEW c \in Browsers, Handle(c) PROVE session'[b] = home[i]
  <2>1. Ends(c) \/ session' = session
    BY <1>8, HandleInv DEF Waiting
  <2>2. PICK a \in 1 .. Len(accounts) :
          /\ session' = [session EXCEPT ![c] = a]
          /\ req[c].route = "auth" => accounts[a][req[c].field].id = req[c].id
    <3>1. CASE session' = [session EXCEPT ![c] = 0]
      BY <1>1, <3>1
    <3> QED BY <2>1, <3>1 DEF Ends
  <2>3. c = b /\ session'[b] = a
    BY <1>1, <2>2
  <2> QED BY <1>2, <1>4, <1>5, <2>2, <2>3 DEF Once
<1>9. ASSUME NEW s \in saves, Saved(s) PROVE FALSE
  <2>1. SaveOK(owner, s) /\ AccountsOK /\ (s.waits => Waits(s, req[s.browser]))
        /\ s.browser \in Browsers
    BY DEF Inv, SavesOK, SaveOK, Saves
  <2>2. s.waits /\ Done(s.browser, At(s))
    BY <1>9, <2>1, SavedIs
  <2>3. s.browser = b
    BY <1>1, <2>2 DEF Done
  <2>4. About(s, f, id) /\ s.account = 0 /\ "id" \in DOMAIN s.set
    BY <1>2, <2>1, <2>2, <2>3 DEF Waits, About, SaveOK
  <2> QED BY <1>4, <1>5, <2>4 DEF Once
<1>10. CASE Restart
  BY <1>10 DEF Restart
<1> QED BY <1>6, <1>7, <1>8, <1>9, <1>10 DEF Next, Server

(* Who logs in through a provider comes back to the account he used it for *)
(* last, also when he has unlinked it since.                               *)
THEOREM ComesBackSafe == Spec => ComesBack
<1>1. Init => Inv
  BY InvInit
<1>2. Inv /\ [Next]_vars => Inv'
  BY InvNext
<1> DEFINE Back ==
      \A b \in Browsers :
        LET i == Identity(req[b]) IN
        req[b].route = "auth" /\ req[b].user = 0 /\ i \notin shared
          /\ home[i] # 0 /\ session'[b] # session[b] /\ req'[b] = NoRequest
          /\ session'[b] # 0
        => session'[b] = home[i]
<1>3. Inv /\ [Next]_vars => [Back]_vars
  <2> SUFFICES ASSUME Inv, Next PROVE Back
    OBVIOUS
  <2> QED BY StepComesBack
<1> QED BY <1>1, <1>2, <1>3, PTL DEF Spec, ComesBack
=============================================================================
