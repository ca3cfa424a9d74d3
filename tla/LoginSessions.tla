----------------------------- MODULE LoginSessions -----------------------------
(***************************************************************************)
(* How the user of one account comes in (internal/auth: jwt.go,            *)
(* middleware.go, service.go, activity.go; internal/api: auth_handlers.go, *)
(* oauth_handlers.go).                                                     *)
(* A login gives two tokens; a token lets requests in until it expires and *)
(* can be turned into another; the account may be deactivated or deleted   *)
(* at any time.  Nothing is kept of a token, so that it cannot be taken    *)
(* back, and a logout changes nothing.                                     *)
(*                                                                         *)
(* Who asks is known by the token alone, and ValidateToken does not ask    *)
(* which of the two kinds it is: a token is its time of expiry.  A request *)
(* is in one place of its handler; each statement and each look at a token *)
(* is a step.  Left out: names and roles, which only the answers show.     *)
(***************************************************************************)
EXTENDS Integers

CONSTANTS
  Visitors,       \* requests of this user
  Passwords,
  TokenLife,      \* TokenExpiration and
  RefreshLife,    \* RefreshTokenExpiration, in ticks
  LastHour        \* bound: the ticks that pass

ASSUME SessionParameters ==
  /\ Passwords # {}
  /\ TokenLife \in Nat \ {0} /\ RefreshLife \in Nat /\ RefreshLife >= TokenLife
  /\ LastHour \in Nat

VARIABLES
  account,     \* the row of the user
  tokens,      \* that were given out
  hour,
  visit        \* what each request is at

sessionVars == <<account, tokens, hour, visit>>

SomePassword == CHOOSE p \in Passwords : TRUE

Away == [pc |-> "away", token |-> 0, password |-> SomePassword]

NoSessions ==
  /\ account = [there |-> TRUE, active |-> TRUE, password |-> SomePassword]
  /\ tokens = {}
  /\ hour = 0
  /\ visit = [v \in Visitors |-> Away]

Open == account.there /\ account.active

Reached(v, pc)  == visit[v].pc = pc
Proceeds(v, pc) == visit' = [visit EXCEPT ![v].pc = pc]
Leaves(v)       == visit' = [visit EXCEPT ![v] = Away]

\* ValidateToken.
ValidateToken(token) == hour < token

-----------------------------------------------------------------------------
(* Login.                                                                  *)

\* The row is found, active, and has this password.
Login(v, password) ==
  /\ Reached(v, "away")
  /\ IF Open /\ account.password = password THEN Proceeds(v, "issue") ELSE UNCHANGED visit
  /\ UNCHANGED <<account, tokens, hour>>

\* OAuthCallbackHandler does not ask whether the user it found is active.
OAuthLogin(v) ==
  /\ Reached(v, "away") /\ account.there
  /\ Proceeds(v, "issue")
  /\ UNCHANGED <<account, tokens, hour>>

\* GenerateTokenPair.
GenerateTokenPair(v) ==
  /\ Reached(v, "issue")
  /\ tokens' = tokens \cup {hour + TokenLife, hour + RefreshLife}
  /\ Leaves(v)
  /\ UNCHANGED <<account, hour>>

-----------------------------------------------------------------------------
(* RefreshTokenHandler.  It asks whether the user is there, but not whether *)
(* he is active, and looks at the token once more at the end.              *)

PresentRefresh(v, token) ==
  /\ Reached(v, "away") /\ ValidateToken(token)
  /\ visit' = [visit EXCEPT ![v] = [Away EXCEPT !.pc = "refresh", !.token = token]]
  /\ UNCHANGED <<account, tokens, hour>>

RefreshRead(v) ==
  /\ Reached(v, "refresh")
  /\ IF account.there THEN Proceeds(v, "renew") ELSE Leaves(v)
  /\ UNCHANGED <<account, tokens, hour>>

RefreshAccessToken(v) ==
  /\ Reached(v, "renew")
  /\ tokens' = IF ValidateToken(visit[v].token) THEN tokens \cup {hour + TokenLife} ELSE tokens
  /\ Leaves(v)
  /\ UNCHANGED <<account, hour>>

-----------------------------------------------------------------------------
(* AuthMiddleware: the token, then the row; and the handlers behind it.    *)

Present(v, token) ==
  /\ Reached(v, "away") /\ ValidateToken(token)
  /\ Proceeds(v, "look")
  /\ UNCHANGED <<account, tokens, hour>>

\* A middleware that asks what the refreshing asks.
LookForRow(v) ==
  /\ Reached(v, "look")
  /\ IF account.there THEN Proceeds(v, "in") ELSE Leaves(v)
  /\ UNCHANGED <<account, tokens, hour>>

Look(v) ==
  /\ Reached(v, "look")
  /\ IF Open THEN Proceeds(v, "in") ELSE Leaves(v)
  /\ UNCHANGED <<account, tokens, hour>>

\* The handlers that only read, and LogoutHandler.
Read(v) ==
  /\ Reached(v, "in")
  /\ Leaves(v)
  /\ UNCHANGED <<account, tokens, hour>>

\* UpdateProfileHandler writes the columns that the request names: that of the
\* password too, when it is named by its field.  What is no hash of a password
\* lets nobody log in, which the logins that are not tried stand for.
UpdateUser(v) ==
  /\ Reached(v, "in")
  /\ \E a \in BOOLEAN, p \in Passwords :
       account' = IF account.there THEN [account EXCEPT !.active = a, !.password = p] ELSE account
  /\ Leaves(v)
  /\ UNCHANGED <<tokens, hour>>

\* ChangePassword reads the row again; the new password is written a moment
\* later, over whatever is there then, or the write fails.
ChangePassword(v, old, new) ==
  /\ Reached(v, "in")
  /\ IF account.there /\ account.password = old
     THEN visit' = [visit EXCEPT ![v] = [Away EXCEPT !.pc = "write", !.password = new]]
     ELSE Leaves(v)
  /\ UNCHANGED <<account, tokens, hour>>

WritePassword(v) ==
  /\ Reached(v, "write")
  /\ account' \in {account, [account EXCEPT !.password = visit[v].password]}
  /\ Leaves(v)
  /\ UNCHANGED <<tokens, hour>>

-----------------------------------------------------------------------------
DeactivateUser ==
  /\ Open
  /\ account' = [account EXCEPT !.active = FALSE]
  /\ UNCHANGED <<tokens, hour, visit>>

DeleteUser ==
  /\ account.there
  /\ account' = [account EXCEPT !.there = FALSE]
  /\ UNCHANGED <<tokens, hour, visit>>

HourPasses ==
  /\ hour < LastHour
  /\ hour' = hour + 1
  /\ UNCHANGED <<account, tokens, visit>>

SessionSteps(v) ==
  \/ \E p \in Passwords : Login(v, p)
  \/ \E t \in tokens : PresentRefresh(v, t) \/ Present(v, t)
  \/ OAuthLogin(v) \/ GenerateTokenPair(v) \/ RefreshRead(v) \/ RefreshAccessToken(v)
  \/ Look(v) \/ Read(v) \/ UpdateUser(v) \/ WritePassword(v)
  \/ \E p, q \in Passwords : ChangePassword(v, p, q)

SessionsNext == (\E v \in Visitors : SessionSteps(v)) \/ DeactivateUser \/ DeleteUser \/ HourPasses

SessionsSpec == NoSessions /\ [][SessionsNext]_sessionVars

-----------------------------------------------------------------------------
(* Properties.                                                             *)

NobodyIn == \A v \in Visitors : visit[v].pc \notin {"in", "write"}

\* An account that was deactivated or deleted is closed for good once the
\* requests that were let in before have ended (middleware.go:62), although
\* its tokens cannot be taken back, logins that looked before go on to issue
\* more, and neither the refreshing nor the callback of OAuth asks whether the
\* user is active.  A request that is in may still change the column itself
\* (service.go:222), so that the property waits for those.
ClosedForGood == [][~Open /\ NobodyIn => (~Open /\ NobodyIn)']_sessionVars
================================================================================
