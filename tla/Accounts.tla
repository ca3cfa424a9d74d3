-------------------------------- MODULE Accounts --------------------------------
(***************************************************************************)
(* Users and API keys (internal/auth: service.go, apikey.go, middleware.go, *)
(* and the handlers of internal/api that call them).  Everything is kept   *)
(* in PostgreSQL and each handler is a sequence of statements, without a   *)
(* transaction around them: a statement is a step here, and any may fail.  *)
(*                                                                         *)
(* An address is written in capitals or not; users are stored with the     *)
(* lower-case one, but a name keeps its capitals.  The life of a key is    *)
(* counted in half days.  Left out: passwords, tokens, roles and scopes,   *)
(* the formats that Validate asks for, usage logs and the log of           *)
(* activities, a user who overwrites the id of the row, the deletion of    *)
(* users (see LoginSessions), and all that only reads.                     *)
(***************************************************************************)
EXTENDS Integers, Sequences, FiniteSets

CONSTANTS
  Addresses,    \* [local, host, capitals] as they are typed
  UserNames,    \* [local, capitals]
  Profiles,     \* what Google and GitHub say of a user
  Updates,      \* what users write into their profiles: functions of columns
  Sessions,     \* handlers at work
  Existing,     \* the users that are there at the start
  MaxCalls,     \* bound: calls of handlers
  MaxUsers,     \* bound: accounts
  MaxKeys,      \* bound: API keys
  Lives         \* lives, in half days, that keys are created with

Never == -1
NoIdentity == "none"

NoAddress == [local |-> "", host |-> "", capitals |-> FALSE]
NoName == [local |-> "", capitals |-> FALSE]

\* strings.ToLower.
ToLower(email) == [email EXCEPT !.capitals = FALSE]

\* A key of an update is the name of a column or of its field: "email" is taken
\* out of it, "Email" is not.
Writable == {"email", "name", "link", "active"}

\* The users that are there have come about in the same way: their addresses
\* are in lower case, addresses and names are unique, and an identity whose
\* provider shows an address belongs to the account with that address.
ASSUME AccountParameters ==
  /\ \A p \in Profiles : DOMAIN p = {"at", "link", "email", "login", "emails"} /\ p.link # NoIdentity
  /\ \A w \in Updates : DOMAIN w \subseteq Writable
  /\ IsFiniteSet(Existing) /\ {u.id : u \in Existing} = 1..Cardinality(Existing)
  /\ \A u \in Existing : /\ DOMAIN u = {"id", "email", "name", "link", "active", "edited"}
                          /\ ~u.edited
                          /\ ToLower(u.email) = u.email
                          /\ \A p \in Profiles : p.link = u.link /\ p.email # NoAddress => ToLower(p.email) = u.email
  /\ \A u, v \in Existing : u # v => u.id # v.id /\ u.email # v.email /\ u.name # v.name
  /\ IsFiniteSet(Sessions) /\ MaxUsers \in Nat /\ MaxKeys \in Nat /\ MaxCalls \in Nat
  /\ Lives \subseteq Nat \cup {Never}

VARIABLES
  users,     \* the table: [id, email, name, link, active], and whether the user
             \* has edited the address or the identity
  keys,      \* the table: [id, owner, active, life]
  job,       \* what each handler is at
  begun      \* calls so far

accountVars == <<users, keys, job, begun>>

Resting == [pc |-> "rest", op |-> "none", email |-> NoAddress, name |-> NoName, link |-> NoIdentity, user |-> 0, key |-> 0,
            active |-> FALSE, life |-> Never]

NoAccounts ==
  /\ users = Existing /\ keys = {}
  /\ job = [h \in Sessions |-> Resting]
  /\ begun = 0

Is(h, pc)    == job[h].pc = pc
Begin(h, r)  == Is(h, "rest") /\ begun < MaxCalls /\ begun' = begun + 1 /\ job' = [job EXCEPT ![h] = r]
GoTo(h, pc)  == job' = [job EXCEPT ![h].pc = pc]
Rest(h)      == job' = [job EXCEPT ![h] = Resting]

-----------------------------------------------------------------------------
(* Register.                                                               *)

BeginRegister(h, email, name) ==
  /\ Begin(h, [Resting EXCEPT !.pc = "findEmail", !.op = "register", !.email = email, !.name = name])
  /\ UNCHANGED <<users, keys>>

\* Only a user that is found stops a registration: a query that fails is
\* taken for nobody.
FindEmail(h) ==
  /\ Is(h, "findEmail")
  /\ \/ (\E u \in users : u.email = ToLower(job[h].email)) /\ Rest(h)
     \/ GoTo(h, "findName")
  /\ UNCHANGED <<users, keys, begun>>

FindName(h) ==
  /\ Is(h, "findName")
  /\ \/ (\E u \in users : u.name = job[h].name) /\ Rest(h)
     \/ GoTo(h, "create")
  /\ UNCHANGED <<users, keys, begun>>

\* The columns email and username are unique.
Clashes(email, name) == \E u \in users : u.email = email \/ u.name = name

NewUser(h, email) ==
  [id |-> Cardinality(users) + 1, email |-> email, name |-> job[h].name, link |-> job[h].link, active |-> TRUE, edited |-> FALSE]

\* An address that is stored as it was typed.
CreateUserAsTyped(h) ==
  /\ Is(h, "create") /\ Cardinality(users) < MaxUsers
  /\ users' = IF Clashes(job[h].email, job[h].name) THEN users ELSE users \cup {NewUser(h, job[h].email)}
  /\ Rest(h)
  /\ UNCHANGED <<keys, begun>>

CreateUser(h) ==
  LET email == ToLower(job[h].email)
  IN /\ Is(h, "create") /\ Cardinality(users) < MaxUsers
     /\ users' = IF Clashes(email, job[h].name) THEN users ELSE users \cup {NewUser(h, email)}
     /\ Rest(h)
     /\ UNCHANGED <<keys, begun>>

-----------------------------------------------------------------------------
(* Login through Google or GitHub, and FindOrCreateOAuthUser.              *)

\* OAuthRedirectHandler sends the user to the provider, with a state that a
\* cookie keeps for ten minutes.
OAuthRedirectHandler(h, provider) ==
  /\ Begin(h, [Resting EXCEPT !.pc = "away", !.op = provider])
  /\ UNCHANGED <<users, keys>>

\* OAuthCallbackHandler: the provider reports an error, the state is not the
\* one of the cookie, or there is no code.
OAuthCallbackHandler(h) ==
  /\ Is(h, "away")
  /\ GoTo(h, "exchange") \/ Rest(h)
  /\ UNCHANGED <<users, keys, begun>>

exchangeCodeForToken(h) ==
  /\ Is(h, "exchange")
  /\ GoTo(h, "userInfo") \/ Rest(h)
  /\ UNCHANGED <<users, keys, begun>>

\* The part of an address before the "@".
LocalPart(email) == [local |-> email.local, capitals |-> email.capitals]

\* An account of Google without an address is refused.
parseGoogleUser(p) ==
  IF p.email = NoAddress THEN {} ELSE {[link |-> p.link, email |-> p.email, name |-> LocalPart(p.email)]}

\* The first that is primary, or the first at all; a request that fails
\* finds none.
fetchGitHubEmail(emails) ==
  LET primary == SelectSeq(emails, LAMBDA e : e.primary)
  IN {NoAddress} \cup {(IF primary # <<>> THEN primary[1] ELSE emails[1]).email : i \in DOMAIN emails \cap {1}}

parseGitHubUser(p) ==
  LET shown == IF p.email # NoAddress THEN {p.email} ELSE fetchGitHubEmail(p.emails)
      made  == [local |-> p.login.local, host |-> "github.com", capitals |-> p.login.capitals]
  IN {[link |-> p.link, email |-> IF e = NoAddress THEN made ELSE e, name |-> p.login] : e \in shown}

\* The status of the answer is not looked at: an error of GitHub is a profile
\* without login and number.
getUserInfo(h) ==
  /\ Is(h, "userInfo")
  /\ \/ \E p \in Profiles :
          /\ p.at = job[h].op
          /\ \E info \in IF p.at = "google" THEN parseGoogleUser(p) ELSE parseGitHubUser(p) :
               job' = [job EXCEPT ![h] = [@ EXCEPT !.pc = "findLink", !.link = info.link, !.email = info.email, !.name = info.name]]
     \/ Rest(h)
  /\ UNCHANGED <<users, keys, begun>>

FindLink(h) ==
  /\ Is(h, "findLink")
  /\ \/ (\E u \in users : u.link = job[h].link) /\ Rest(h)
     \/ GoTo(h, "findOwner")
  /\ UNCHANGED <<users, keys, begun>>

FindOwner(h) ==
  /\ Is(h, "findOwner")
  /\ \/ \E u \in users : u.email = ToLower(job[h].email) /\ job' = [job EXCEPT ![h].pc = "link", ![h].user = u.id]
     \/ GoTo(h, "freeName")
  /\ UNCHANGED <<users, keys, begun>>

\* The identity takes the place of another that may be there.
LinkUser(h) ==
  /\ Is(h, "link")
  /\ \/ users' = {IF u.id = job[h].user THEN [u EXCEPT !.link = job[h].link] ELSE u : u \in users}
     \/ UNCHANGED users
  /\ Rest(h)
  /\ UNCHANGED <<keys, begun>>

\* A user without a name has that of the address.  The loop that numbers the
\* name until nobody has it is seen as one choice; a count that fails is a
\* count of nobody.
FreeName(h) ==
  LET base == IF job[h].name = NoName THEN LocalPart(job[h].email) ELSE job[h].name
      Free0(n) == \A u \in users : u.name # n
  IN /\ Is(h, "freeName")
     /\ \E n \in {base} \cup {x \in UserNames : ~Free0(base) /\ Free0(x)} :
          job' = [job EXCEPT ![h].pc = "create", ![h].name = n]
     /\ UNCHANGED <<users, keys, begun>>

-----------------------------------------------------------------------------
(* What a user does who is logged in.  AuthMiddleware reads the user; the  *)
(* handler acts a moment later.                                            *)

BeginKeyOp(h, op, u, k) ==
  /\ u.active
  /\ Begin(h, [Resting EXCEPT !.pc = op, !.op = op, !.user = u.id, !.key = k])
  /\ UNCHANGED <<users, keys>>

\* The handlers of the profile and of API keys.  A key is named by its id, whoever owns it.
UpdateProfileHandler(h, u)   == BeginKeyOp(h, "profile", u, 0)
CreateAPIKeyHandler(h, u)    == BeginKeyOp(h, "createKey", u, 0)
RevokeAPIKeyHandler(h, u, k) == BeginKeyOp(h, "revoke", u, k.id)
RotateAPIKeyHandler(h, u, k) == BeginKeyOp(h, "rotate", u, k.id)
DeleteAPIKeyHandler(h, u, k) == BeginKeyOp(h, "deleteKey", u, k.id)

Deactivate(h) ==
  /\ Is(h, "deactivate")
  /\ users' = {IF u.id = job[h].user THEN [u EXCEPT !.active = FALSE] ELSE u : u \in users}
  /\ Rest(h)
  /\ UNCHANGED <<keys, begun>>

\* Service.UpdateUser writes the columns that the profile names: the name, whether the
\* account is active, what provider and number it goes with, and the address,
\* as it was typed.  It fails on a column that is unique.
Written(u, w) ==
  [c \in DOMAIN u |-> IF c \in DOMAIN w THEN w[c]
                      ELSE IF c = "edited" THEN u.edited \/ DOMAIN w \cap {"email", "link"} # {}
                      ELSE u[c]]

Unique(T) == \A u, v \in T : u.id # v.id => u.email # v.email /\ u.name # v.name

UpdateProfile(h, w) ==
  /\ Is(h, "profile")
  /\ \/ /\ users' = {IF u.id = job[h].user THEN Written(u, w) ELSE u : u \in users}
        /\ Unique(users')
     \/ UNCHANGED users
  /\ Rest(h)
  /\ UNCHANGED <<keys, begun>>

NextKeyId == Cardinality(keys) + 1
NewKey(h, life) == [id |-> NextKeyId, owner |-> job[h].user, active |-> TRUE, life |-> life]
Own(h) == {k \in keys : k.id = job[h].key /\ k.owner = job[h].user}

\* CreateAPIKey; the insert may fail.
CreateAPIKey(h, life) ==
  /\ Is(h, "createKey") /\ Cardinality(keys) < MaxKeys
  /\ \/ keys' = keys \cup {NewKey(h, life)}
     \/ UNCHANGED keys
  /\ Rest(h)
  /\ UNCHANGED <<users, begun>>

\* RevokeAPIKey, and the second statement of RotateAPIKey.
Revoked == [k \in keys |-> [k EXCEPT !.active = FALSE]]
Deactivated(ks) == (keys \ ks) \cup {Revoked[k] : k \in ks}

RevokeAPIKey(h) ==
  /\ Is(h, "revoke")
  /\ keys' \in {keys, Deactivated(Own(h))}
  /\ Rest(h)
  /\ UNCHANGED <<users, begun>>

\* RotateAPIKey: the old key is read, whether it is active or not;
RotateRead(h) ==
  /\ Is(h, "rotate")
  /\ IF Own(h) = {} THEN Rest(h)
     ELSE \E k \in Own(h) : job' = [job EXCEPT ![h].pc = "rotateRevoke", ![h].life = k.life]
  /\ UNCHANGED <<users, keys, begun>>

\* it is revoked, or that fails unnoticed;
RotateRevoke(h) ==
  /\ Is(h, "rotateRevoke")
  /\ keys' \in {keys, Deactivated({k \in keys : k.id = job[h].key})}
  /\ GoTo(h, "rotateCreate")
  /\ UNCHANGED <<users, begun>>

\* and the new key lives for the whole days that were left, or for ever if
\* there is none.
LifeLeft(life) == IF life = Never \/ life \div 2 = 0 THEN Never ELSE (life \div 2) * 2

RotateCreate(h) ==
  /\ Is(h, "rotateCreate") /\ Cardinality(keys) < MaxKeys
  /\ \/ keys' = keys \cup {NewKey(h, LifeLeft(job[h].life))}
     \/ UNCHANGED keys
  /\ Rest(h)
  /\ UNCHANGED <<users, begun>>

\* DeleteAPIKey.  A deleted key keeps its place in the table here, with
\* owner 0, so that its number is not given again.
DeleteAPIKey(h) ==
  /\ Is(h, "deleteKey")
  /\ \/ keys' = (keys \ Own(h)) \cup {[k EXCEPT !.active = FALSE, !.owner = 0] : k \in Own(h)}
     \/ UNCHANGED keys
  /\ Rest(h)
  /\ UNCHANGED <<users, begun>>

-----------------------------------------------------------------------------
(* ValidateAPIKey: the key is read and looked at, and a moment later its   *)
(* counters are written.                                                   *)

Works(k) == k.active /\ k.life # 0

ValidateRead(h, k) ==
  /\ k.owner # 0 /\ Works(k)
  /\ Begin(h, [Resting EXCEPT !.pc = "used", !.key = k.id, !.active = k.active])
  /\ UNCHANGED <<users, keys>>

\* A write of the whole row as it was read.
ValidateSave(h) ==
  /\ Is(h, "used")
  /\ keys' = {IF k.id = job[h].key THEN [k EXCEPT !.active = job[h].active] ELSE k : k \in keys}
  /\ Rest(h)
  /\ UNCHANGED <<users, begun>>

\* The update names its two columns, last_used_at and total_calls, which are
\* not kept here.
ValidateUpdate(h) ==
  /\ Is(h, "used")
  /\ Rest(h)
  /\ UNCHANGED <<users, keys, begun>>

HalfDay ==
  /\ \E k \in keys : k.life > 0
  /\ keys' = {IF k.life > 0 THEN [k EXCEPT !.life = @ - 1] ELSE k : k \in keys}
  /\ UNCHANGED <<users, job, begun>>

-----------------------------------------------------------------------------
SignUp(h) == \/ FindEmail(h) \/ FindName(h) \/ CreateUser(h)
             \/ OAuthCallbackHandler(h) \/ exchangeCodeForToken(h) \/ getUserInfo(h) \/ FindLink(h) \/ FindOwner(h) \/ LinkUser(h) \/ FreeName(h)
KeySteps(h) == \/ (\E life \in Lives : CreateAPIKey(h, life)) \/ RevokeAPIKey(h) \/ DeleteAPIKey(h) \/ Deactivate(h)
               \/ (\E w \in Updates : UpdateProfile(h, w))
               \/ RotateRead(h) \/ RotateRevoke(h) \/ RotateCreate(h) \/ ValidateUpdate(h)

AccountsNext ==
  \/ \E h \in Sessions :
       \/ \E a \in Addresses, n \in UserNames : BeginRegister(h, a, n)
       \/ \E provider \in {"google", "github"} : OAuthRedirectHandler(h, provider)
       \/ \E u \in users : CreateAPIKeyHandler(h, u) \/ UpdateProfileHandler(h, u) \/ BeginKeyOp(h, "deactivate", u, 0)
       \/ \E u \in users, k \in keys : \/ RevokeAPIKeyHandler(h, u, k)
                                      \/ RotateAPIKeyHandler(h, u, k)
                                      \/ DeleteAPIKeyHandler(h, u, k)
       \/ \E k \in keys : ValidateRead(h, k)
       \/ SignUp(h) \/ KeySteps(h)
  \/ HalfDay

AccountsSpec == NoAccounts /\ [][AccountsNext]_accountVars

-----------------------------------------------------------------------------
(* Properties.                                                             *)

\* The provider shows one address, always: GitHub may show it once and hide
\* it the next time.
ShowsAddress(link) ==
  \E p \in Profiles :
    p.link = link /\ \A q \in Profiles : q.link = link => q.email # NoAddress /\ ToLower(q.email) = ToLower(p.email)

\* However registrations, logins through providers and changes of profiles
\* cross, a name belongs to one account, and an address, in whatever capitals,
\* to one of those whose users have not edited it, and so does an identity
\* whose provider shows the address: the checks come long before the insert
\* (service.go:77, 154).  Users who edit them get the identity of another or
\* the address in other capitals (service.go:226), and nothing is said of them.
OneAccountEach ==
  \A u, v \in users :
    u.id # v.id =>
      /\ u.name # v.name
      /\ ~u.edited /\ ~v.edited =>
           /\ ToLower(u.email) # ToLower(v.email)
           /\ u.link = v.link => u.link = NoIdentity \/ ~ShowsAddress(u.link)

\* A key that was revoked, rotated or deleted stays so, although uses of it
\* that began before write to its row afterwards (apikey.go:134).
RevokedStays == [][\A k \in keys : ~k.active => \A l \in keys' : l.id = k.id => ~l.active]_accountVars
=================================================================================
