------------------------------ MODULE Accounts ------------------------------
(***************************************************************************)
(* Users, sessions and invitation tokens of the board (server/db/user.go,   *)
(* session.go, token.go and their handlers in server/http/user and          *)
(* server/http/token).                                                      *)
(*                                                                          *)
(* A request that carries a session token runs in one transaction, so it is *)
(* one action here; module Transactions shows why that is sound.  A request *)
(* without one (Signin and Signup by a guest) has no transaction at all:    *)
(* BeginTx opens none, every statement commits by itself, and each is an    *)
(* action of its own.                                                       *)
(*                                                                          *)
(* A handler that returns an error is rolled back: it changes nothing, not  *)
(* even the renewal of its session, so only the outcomes that commit are    *)
(* actions.                                                                 *)
(***************************************************************************)
EXTENDS Permissions, FiniteSets

CONSTANTS
  Names,          \* usernames
  Owner,          \* DBConfig.Owner
  Passwords,
  MaxSessions,    \* bound: sessions ever opened
  MaxTokens,      \* bound: invitation tokens ever made
  Guests,         \* guest requests that can be in flight together
  UsesAsked,      \* the "uses" form values that clients send to CreateToken
  MaxTokenUses,   \* DBConfig.MaxTokenUses
  FkModes,        \* PRAGMA foreign_keys of the pooled connections
  Lifespan,       \* DBConfig.tokenLifespan
  RenewGap,       \* the hour during which a session is not renewed again
  MaxTime,        \* bound: clock
  MaxAborts,      \* bound: guest requests cut short
  MaxOverdraft,   \* bound: no guest starts to use a token this far below zero
  None

SessionIds == 1 .. MaxSessions
TokenIds   == 1 .. MaxTokens

ASSUME AccountsAssumption ==
  /\ Owner \in Names
  /\ MaxSessions \in Nat /\ MaxTokens \in Nat /\ MaxTime \in Nat
  /\ MaxAborts \in Nat /\ MaxOverdraft \in Nat
  /\ Lifespan \in Nat /\ RenewGap \in Nat /\ MaxTokenUses \in Nat
  /\ UsesAsked \subseteq Int
  /\ FkModes \subseteq BOOLEAN
  /\ IsFiniteSet(Guests)

VARIABLES
  users,      \* table users: a row or None per name
  sessions,   \* table sessions
  tokens,     \* table tokens
  opened,     \* number of sessions ever inserted (ids are snowflakes: never reused)
  minted,     \* number of tokens ever inserted
  now,        \* the clock
  pc,         \* the next statement of a guest request
  req,        \* what a guest request carries, and the tokens.remaining it has read
  aborts      \* number of guest requests cut short

\* History variables: no action reads them.
VARIABLES
  openedWith, \* the password a session was opened with
  raced,      \* whether that was no longer the account's password at the insert
  keeper,     \* the session that last changed the password of an account
  since,      \* value of opened when the account was created
  uses,       \* [granted, used, oversold] of each token: what it was made with, the
              \* signups that it let through (up to one too many), and whether one
              \* passed the check while those in flight had all that was left
  cut         \* whether a signup was cut short before its purge, and none purged since

hist == <<openedWith, raced, keeper, since, uses, cut>>
vars == <<users, sessions, tokens, opened, minted, now, pc, req, aborts, hist>>

UserRow    == [pass : Passwords, perm : PermissionUser .. PermissionAdministrator]
SessionRow == [user : Names, deadline : Nat]
TokenRow   == [creator : Names, remaining : Int]
Request    == [user : Names, pass : Passwords, token : TokenIds \cup {None},
               read : Int, fk : FkModes]
Statements == {"decrement", "purge", "createUser", "newSession", "cleanup"}

ASSUME NoneAssumption ==
  None \notin UserRow \cup SessionRow \cup TokenRow \cup Request \cup TokenIds
                \cup Passwords

-----------------------------------------------------------------------------
(* Lookups *)

\* Database.permission: the owner is recognised by name, whatever the table says.
permission(u) ==
  IF u = Owner THEN PermissionOwner
  ELSE IF users[u] = None THEN NoPermission
  ELSE users[u].perm

Actor(s) == sessions[s].user

\* Mutant: querySession does not look at the deadline.
AnySession(s) == sessions[s] # None

\* querySession succeeds.
Authenticated(s) == sessions[s] # None /\ now <= sessions[s].deadline

\* The sessions table as querySession leaves it to the handler.
Renewed(s) ==
  LET madeTime == sessions[s].deadline - Lifespan IN
  IF now - RenewGap < madeTime THEN sessions
  ELSE [sessions EXCEPT ![s] = [user |-> Actor(s), deadline |-> now + Lifespan]]

\* Transaction.HasPermOverUser and IsUserOrHasPermOver; a caller whose account
\* is gone gets ErrUserNotFound.
OverUser(s, min, u) ==
  /\ permission(Actor(s)) # NoPermission
  /\ HasPermOverUser(permission(Actor(s)), min, permission(u), Actor(s) = u) = Granted

SelfOrOverUser(s, min, u) == Actor(s) = u \/ OverUser(s, min, u)

\* DELETE FROM table WHERE ...: the rows to go, and the table without them.
Without(table, gone) == [i \in DOMAIN table |-> IF i \in gone THEN None ELSE table[i]]

Expired(table)   == {i \in SessionIds : table[i] # None /\ table[i].deadline < now}

SessionsOf(u) == {i \in SessionIds : sessions[i] # None /\ sessions[i].user = u}

TokensOf(u) == {t \in TokenIds : tokens[t] # None /\ tokens[t].creator = u}

\* Mutant: DELETE FROM tokens WHERE remaining < 0
Overdrawn(table) == {t \in TokenIds : table[t] # None /\ table[t].remaining < 0}

Exhausted(table) == {t \in TokenIds : table[t] # None /\ table[t].remaining = 0}

\* cleanupSession
CleanedUp(table) == Without(table, Expired(table))

-----------------------------------------------------------------------------
(* newSession's INSERT and the decrement of useToken, as both the guest and  *)
(* the authenticated signup do them.                                        *)

InsertSession(table, u, p) ==
  /\ opened < MaxSessions
  /\ opened' = opened + 1
  /\ sessions' = [table EXCEPT ![opened + 1] =
                    [user |-> u, deadline |-> now + Lifespan]]
  /\ openedWith' = [openedWith EXCEPT ![opened + 1] = p]

Decremented(t) ==
  [tokens EXCEPT ![t] =
     IF @ = None THEN None
     ELSE [creator |-> @.creator, remaining |-> @.remaining - 1]]

\* The signups in flight that have passed the check of t and not decremented it.
Claiming(t) == {h \in Guests : pc[h] = "decrement" /\ req[h].token = t}

\* A signup passes the check of t.
Sold(t) ==
  [uses EXCEPT ![t].oversold = @ \/ tokens[t].remaining <= Cardinality(Claiming(t))]

\* A signup is through with t.
Used(table, t) ==
  [table EXCEPT ![t].used = IF @ > table[t].granted THEN @ ELSE @ + 1]

\* An account is created.
Created(u) ==
  /\ keeper' = [keeper EXCEPT ![u] = 0]
  /\ since' = [since EXCEPT ![u] = opened]

\* Mutant: the table stores the owner's rank.
NewOwner(p) == [pass |-> p, perm |-> PermissionOwner]

NewUser(p) == [pass |-> p, perm |-> PermissionUser]

-----------------------------------------------------------------------------
(* Guest requests, statement by statement *)

\* Signin: SELECT passhash and VerifyPassword; a mismatch ends the request.
SigninVerify(g, u, p, fk) ==
  /\ pc[g] = "idle"
  /\ users[u] # None /\ users[u].pass = p
  /\ pc' = [pc EXCEPT ![g] = "newSession"]
  /\ req' = [req EXCEPT ![g] = [user |-> u, pass |-> p, token |-> None,
                              read |-> 0, fk |-> fk]]
  /\ UNCHANGED <<users, sessions, tokens, opened, minted, now, aborts, hist>>

\* Signup, useToken: SELECT remaining
SignupCheck(g, u, p, t, fk) ==
  /\ pc[g] = "idle"
  /\ tokens[t] # None /\ tokens[t].remaining > -MaxOverdraft
  /\ pc' = [pc EXCEPT ![g] = "decrement"]
  /\ req' = [req EXCEPT ![g] = [user |-> u, pass |-> p, token |-> t,
                              read |-> tokens[t].remaining, fk |-> fk]]
  /\ uses' = Sold(t)
  /\ UNCHANGED <<users, sessions, tokens, opened, minted, now, aborts, openedWith, raced,
                 keeper, since, cut>>

\* Mutant: the count that was read is decremented and written back.
WriteBack(g) ==
  /\ pc[g] = "decrement"
  /\ IF req[g].read = -1
     THEN /\ pc' = [pc EXCEPT ![g] = "createUser"]
          /\ UNCHANGED tokens
     ELSE /\ tokens' = [tokens EXCEPT ![req[g].token] =
               IF @ = None THEN None
               ELSE [creator |-> @.creator, remaining |-> req[g].read - 1]]
          /\ pc' = [pc EXCEPT ![g] = "purge"]
  /\ uses' = Used(uses, req[g].token)
  /\ UNCHANGED <<users, sessions, opened, minted, now, req, aborts, openedWith, raced,
                 keeper, since, cut>>

\* useToken: UPDATE tokens SET remaining = remaining - 1, which an unlimited token
\* is spared.  The row may be gone by then: that is no error.
Decrement(g) ==
  /\ pc[g] = "decrement"
  /\ IF req[g].read = -1
     THEN /\ pc' = [pc EXCEPT ![g] = "createUser"]
          /\ UNCHANGED tokens
     ELSE /\ tokens' = Decremented(req[g].token)
          /\ pc' = [pc EXCEPT ![g] = "purge"]
  /\ uses' = Used(uses, req[g].token)
  /\ UNCHANGED <<users, sessions, opened, minted, now, req, aborts, openedWith, raced,
                 keeper, since, cut>>

\* useToken: DELETE FROM tokens WHERE remaining == 0
Purge(g) ==
  /\ pc[g] = "purge"
  /\ tokens' = Without(tokens, Exhausted(tokens))
  /\ cut' = FALSE
  /\ pc' = [pc EXCEPT ![g] = "createUser"]
  /\ UNCHANGED <<users, sessions, opened, minted, now, req, aborts, openedWith, raced,
                 keeper, since, uses>>

\* Mutant: INSERT OR REPLACE INTO users.
ReplaceUser(g) ==
  /\ pc[g] = "createUser"
  /\ users' = [users EXCEPT ![req[g].user] = NewUser(req[g].pass)]
  /\ Created(req[g].user)
  /\ pc' = [pc EXCEPT ![g] = "newSession"]
  /\ UNCHANGED <<sessions, tokens, opened, minted, now, req, aborts, openedWith, raced,
                 uses, cut>>

\* createUser: INSERT INTO users; a name that is taken ends the request.
CreateUser(g) ==
  /\ pc[g] = "createUser"
  /\ LET u == req[g].user IN
       \/ /\ users[u] = None
          /\ users' = [users EXCEPT ![u] = NewUser(req[g].pass)]
          /\ Created(u)
          /\ pc' = [pc EXCEPT ![g] = "newSession"]
          /\ UNCHANGED req
       \/ /\ users[u] # None
          /\ pc' = [pc EXCEPT ![g] = "idle"]
          /\ req' = [req EXCEPT ![g] = None]
          /\ UNCHANGED <<users, keeper, since>>
  /\ UNCHANGED <<sessions, tokens, opened, minted, now, aborts, openedWith, raced, uses,
                 cut>>

\* newSession: INSERT INTO sessions, which a foreign key rejects on a
\* connection that enforces it.
NewSession(g) ==
  /\ pc[g] = "newSession"
  /\ LET r == req[g] IN
       \/ /\ users[r.user] # None \/ ~r.fk
          /\ InsertSession(sessions, r.user, r.pass)
          /\ raced' = [raced EXCEPT ![opened + 1] =
                         users[r.user] = None \/ users[r.user].pass # r.pass]
          /\ pc' = [pc EXCEPT ![g] = "cleanup"]
          /\ UNCHANGED req
       \/ /\ users[r.user] = None /\ r.fk
          /\ pc' = [pc EXCEPT ![g] = "idle"]
          /\ req' = [req EXCEPT ![g] = None]
          /\ UNCHANGED <<sessions, opened, openedWith, raced>>
  /\ UNCHANGED <<users, tokens, minted, now, aborts, keeper, since, uses, cut>>

\* newSession: cleanupSession, the last statement
Cleanup(g) ==
  /\ pc[g] = "cleanup"
  /\ sessions' = CleanedUp(sessions)
  /\ pc' = [pc EXCEPT ![g] = "idle"]
  /\ req' = [req EXCEPT ![g] = None]
  /\ UNCHANGED <<users, tokens, opened, minted, now, aborts, hist>>

\* A statement fails (the database is busy, the client hangs up) or the server
\* stops: what the request has already written stays.
Abort(g) ==
  /\ pc[g] # "idle" /\ aborts < MaxAborts
  /\ aborts' = aborts + 1
  /\ cut' = (cut \/ pc[g] = "purge")
  /\ pc' = [pc EXCEPT ![g] = "idle"]
  /\ req' = [req EXCEPT ![g] = None]
  /\ UNCHANGED <<users, sessions, tokens, opened, minted, now, openedWith, raced, keeper,
                 since, uses>>

GuestStep(g) ==
  \/ \E u \in Names, p \in Passwords, fk \in FkModes : SigninVerify(g, u, p, fk)
  \/ \E u \in Names, p \in Passwords, t \in TokenIds, fk \in FkModes :
       SignupCheck(g, u, p, t, fk)
  \/ Decrement(g)
  \/ Purge(g)
  \/ CreateUser(g)
  \/ NewSession(g)
  \/ Cleanup(g)
  \/ Abort(g)

-----------------------------------------------------------------------------
(* Authenticated requests, each in its transaction *)

\* A handler that only reads, and Signin by someone signed in: the session is
\* renewed when it is due.
Read(s) ==
  /\ Authenticated(s)
  /\ sessions' = Renewed(s)
  /\ UNCHANGED <<users, tokens, opened, minted, now, pc, req, aborts, hist>>

\* Signout, and DeleteSessionID of the current session
Signout(s) ==
  /\ Authenticated(s)
  /\ sessions' = [sessions EXCEPT ![s] = None]
  /\ UNCHANGED <<users, tokens, opened, minted, now, pc, req, aborts, hist>>

DeleteSessionID(s, id) ==
  /\ Authenticated(s)
  /\ id # s /\ sessions[id] # None /\ sessions[id].user = Actor(s)
  /\ sessions' = [Renewed(s) EXCEPT ![id] = None]
  /\ UNCHANGED <<users, tokens, opened, minted, now, pc, req, aborts, hist>>

\* Mutant: nothing is deleted.
EverySession(s) == Renewed(s)

\* The table that Transaction.DeleteAllSessions leaves.
OnlySession(s) == Without(Renewed(s), SessionsOf(Actor(s)) \ {s})

DeleteAllSessions(s) ==
  /\ Authenticated(s)
  /\ sessions' = OnlySession(s)
  /\ UNCHANGED <<users, tokens, opened, minted, now, pc, req, aborts, hist>>

\* PatchMe: ChangePassword, which drops the other sessions, then Me, which
\* fails when the account is gone.
ChangePassword(s, p) ==
  /\ Authenticated(s)
  /\ users[Actor(s)] # None
  /\ users' = [users EXCEPT ![Actor(s)] = [pass |-> p, perm |-> @.perm]]
  /\ sessions' = OnlySession(s)
  /\ keeper' = [keeper EXCEPT ![Actor(s)] = s]
  /\ UNCHANGED <<tokens, opened, minted, now, pc, req, aborts, openedWith, raced, since,
                 uses, cut>>

\* Mutant: the check that the target is somebody else is forgotten.
PromoteSelf(s, u, p) ==
  /\ Authenticated(s)
  /\ SelfOrOverUser(s, p, u)
  /\ p \in PermissionUser .. PermissionAdministrator
  /\ users' = [users EXCEPT ![u] =
                 IF @ = None THEN None ELSE [pass |-> @.pass, perm |-> p]]
  /\ sessions' = Renewed(s)
  /\ UNCHANGED <<tokens, opened, minted, now, pc, req, aborts, hist>>

\* UPDATE users SET permission; there may be no such user.
PromoteUser(s, u, p) ==
  /\ Authenticated(s)
  /\ Actor(s) # u
  /\ OverUser(s, p, u)
  /\ p \in PermissionUser .. PermissionAdministrator
  /\ users' = [users EXCEPT ![u] =
                 IF @ = None THEN None ELSE [pass |-> @.pass, perm |-> p]]
  /\ sessions' = Renewed(s)
  /\ UNCHANGED <<tokens, opened, minted, now, pc, req, aborts, hist>>

\* DELETE FROM users.  Where foreign keys are enforced, the sessions and tokens
\* of the account go with it.
DeleteUser(s, u, fk) ==
  /\ Authenticated(s)
  /\ SelfOrOverUser(s, PermissionAdministrator, u)
  /\ u # Owner
  /\ users' = [users EXCEPT ![u] = None]
  /\ IF fk /\ users[u] # None
     THEN /\ sessions' = Without(Renewed(s), SessionsOf(u))
          /\ tokens' = Without(tokens, TokensOf(u))
     ELSE /\ sessions' = Renewed(s)
          /\ UNCHANGED tokens
  /\ UNCHANGED <<opened, minted, now, pc, req, aborts, hist>>

CreateToken(s, n) ==
  /\ Authenticated(s)
  /\ minted < MaxTokens
  /\ n # 0 /\ n <= MaxTokenUses
  /\ LET min == IF n = -1 THEN PermissionOwner ELSE PermissionAdministrator IN
       HasPermission(permission(Actor(s)), min, TRUE) = Granted
  /\ minted' = minted + 1
  /\ tokens' = [tokens EXCEPT ![minted + 1] =
                  [creator |-> Actor(s), remaining |-> n]]
  /\ uses' = [uses EXCEPT ![minted + 1] =
                [granted |-> n, used |-> 0, oversold |-> FALSE]]
  /\ sessions' = Renewed(s)
  /\ UNCHANGED <<users, opened, now, pc, req, aborts, openedWith, raced, keeper, since,
                 cut>>

DeleteToken(s, t) ==
  /\ Authenticated(s)
  /\ tokens[t] # None
  /\ OverUser(s, PermissionAdministrator, tokens[t].creator)
  /\ tokens' = [tokens EXCEPT ![t] = None]
  /\ sessions' = Renewed(s)
  /\ UNCHANGED <<users, opened, minted, now, pc, req, aborts, hist>>

\* Signup by someone signed in: useToken, createUser and newSession in one
\* transaction.
SignupAuthenticated(s, u, p, t) ==
  /\ Authenticated(s)
  /\ tokens[t] # None
  /\ users[u] = None
  /\ IF tokens[t].remaining = -1
     THEN UNCHANGED <<tokens, cut>>
     ELSE /\ tokens' = Without(Decremented(t), Exhausted(Decremented(t)))
          /\ cut' = FALSE
  /\ uses' = Used(Sold(t), t)
  /\ users' = [users EXCEPT ![u] = NewUser(p)]
  /\ InsertSession(CleanedUp(Renewed(s)), u, p)
  /\ raced' = [raced EXCEPT ![opened + 1] = FALSE]
  /\ Created(u)
  /\ UNCHANGED <<minted, now, pc, req, aborts>>

AuthenticatedRequest(s) ==
  \/ Read(s)
  \/ Signout(s)
  \/ \E id \in SessionIds : DeleteSessionID(s, id)
  \/ DeleteAllSessions(s)
  \/ \E p \in Passwords : ChangePassword(s, p)
  \/ \E u \in Names, p \in AllPermissions : PromoteUser(s, u, p)
  \/ \E u \in Names, fk \in FkModes : DeleteUser(s, u, fk)
  \/ \E n \in UsesAsked : CreateToken(s, n)
  \/ \E t \in TokenIds : DeleteToken(s, t)
  \/ \E u \in Names, p \in Passwords, t \in TokenIds : SignupAuthenticated(s, u, p, t)

-----------------------------------------------------------------------------
\* The create-owner command, which may run beside the server
CreateOwner(p) ==
  /\ users[Owner] = None
  /\ users' = [users EXCEPT ![Owner] = NewUser(p)]
  /\ Created(Owner)
  /\ UNCHANGED <<sessions, tokens, opened, minted, now, pc, req, aborts, openedWith, raced,
                 uses, cut>>

Tick ==
  /\ now < MaxTime
  /\ now' = now + 1
  /\ UNCHANGED <<users, sessions, tokens, opened, minted, pc, req, aborts, hist>>

\* A database that NewDatabase has just migrated.
Init ==
  /\ users = [u \in Names |-> None]
  /\ sessions = [i \in SessionIds |-> None]
  /\ tokens = [t \in TokenIds |-> None]
  /\ opened = 0 /\ minted = 0 /\ now = 0 /\ aborts = 0
  /\ pc = [g \in Guests |-> "idle"]
  /\ req = [g \in Guests |-> None]
  /\ openedWith = [i \in SessionIds |-> None]
  /\ raced = [i \in SessionIds |-> FALSE]
  /\ keeper = [u \in Names |-> 0]
  /\ since = [u \in Names |-> 0]
  /\ uses = [t \in TokenIds |-> [granted |-> 0, used |-> 0, oversold |-> FALSE]]
  /\ cut = FALSE

Next ==
  \/ \E g \in Guests : GuestStep(g)
  \/ \E s \in SessionIds : AuthenticatedRequest(s)
  \/ \E p \in Passwords : CreateOwner(p)
  \/ Tick

Spec == Init /\ [][Next]_vars

-----------------------------------------------------------------------------
(* Properties *)

\* Rows, clock, request and history variables have the shapes the code gives
\* them; in particular users.permission never exceeds Administrator.
TypeOK ==
  /\ users \in [Names -> UserRow \cup {None}]
  /\ sessions \in [SessionIds -> SessionRow \cup {None}]
  /\ tokens \in [TokenIds -> TokenRow \cup {None}]
  /\ opened \in 0 .. MaxSessions /\ minted \in 0 .. MaxTokens
  /\ now \in Nat /\ aborts \in Nat
  /\ pc \in [Guests -> Statements \cup {"idle"}]
  /\ req \in [Guests -> Request \cup {None}]
  /\ \A g \in Guests :
       /\ pc[g] # "idle" => req[g] # None
       /\ pc[g] \in {"decrement", "purge"} => req[g].token \in TokenIds
  /\ openedWith \in [SessionIds -> Passwords \cup {None}]
  /\ raced \in [SessionIds -> BOOLEAN]
  /\ keeper \in [Names -> 0 .. MaxSessions]
  /\ since \in [Names -> 0 .. MaxSessions]
  /\ uses \in [TokenIds -> [granted : Int, used : Nat, oversold : BOOLEAN]]
  /\ cut \in BOOLEAN

\* The foreign keys that the schema declares (db.go:38, 46) hold: a session belongs
\* to an account, and so does a token.
ReferentialIntegrity ==
  /\ \A i \in SessionIds : sessions[i] # None => users[sessions[i].user] # None
  /\ \A t \in TokenIds : tokens[t] # None => users[tokens[t].creator] # None

\* Changing a password closes every session of the account opened before, except
\* the one that changed it: a session opened with another password than the
\* account's is the one that made the change, or was inserted by a Signin that
\* verified the old password before the change and saved its session after it.
\* Sessions of an earlier account with the name (see ReferentialIntegrity) are not
\* meant.
PasswordChangeEvicts ==
  \A i \in SessionIds :
    /\ sessions[i] # None /\ users[sessions[i].user] # None
    /\ i > since[sessions[i].user]
    =>
      \/ openedWith[i] = users[sessions[i].user].pass
      \/ keeper[sessions[i].user] = i
      \/ raced[i]

\* A token made for one use admits one signup, and one made for more as many: -1 is
\* "for unlimited, owner only" (db.go:41), and TestToken/OneTimer expects the second
\* use of a one-timer to fail (token_test.go:47).
UsesWithinGrant ==
  \A t \in TokenIds : uses[t].granted > 0 => uses[t].used <= uses[t].granted

\* However signups with a token interleave with each other, with its deletion and
\* with requests that are cut short, it admits no more of them than it was made for
\* and counts each: unless one of them passed the check while those in flight had
\* claimed all that was left, which nothing in the code prevents.
ClaimsWithinGrant ==
  \A t \in TokenIds : uses[t].granted > 0 /\ ~uses[t].oversold =>
    /\ uses[t].used <= uses[t].granted
    /\ tokens[t] # None => tokens[t].remaining = uses[t].granted - uses[t].used

\* A token that has run out is a signup's DELETE away from being gone, unless a
\* signup was cut short between the UPDATE and the DELETE of useToken; the next
\* DELETE makes up for that.
ExhaustedTokensPurged ==
  (\E t \in TokenIds : tokens[t] # None /\ tokens[t].remaining = 0)
    => (\E g \in Guests : pc[g] = "purge") \/ cut

\* Who may change the rank of an account or delete it.
RankStep ==
  \A u \in Names : users[u] # None =>
     /\ users'[u] # None /\ users'[u].perm # users[u].perm =>
          \E s \in SessionIds :
            /\ Authenticated(s)
            /\ permission(Actor(s)) > permission(u)
            /\ permission(Actor(s)) >= users'[u].perm
     /\ users'[u] = None =>
          /\ u # Owner
          /\ \E s \in SessionIds :
               /\ Authenticated(s)
               /\ \/ Actor(s) = u
                  \/ /\ permission(Actor(s)) > permission(u)
                     /\ permission(Actor(s)) >= PermissionAdministrator

\* A rank changes, and someone else's account disappears, only while an account
\* that outranks it is signed in, and nobody is raised above that account; the
\* owner's account never disappears.  That nobody is raised to the rank of that
\* account is PromotedBelow, which the code does not keep.
RankAuthority == [][RankStep]_vars

\* "The current user can only promote to the permission below them. This way, only
\* the owner can promote users to admins" (user.go:172).
PromotedBelow ==
  [][\A s \in SessionIds, u \in Names, p \in AllPermissions :
       PromoteUser(s, u, p) /\ users[u] # None => p < permission(Actor(s))]_vars

\* Who may change a password.
PasswordStep ==
  \A u \in Names :
     users[u] # None /\ users'[u] # None /\ users'[u].pass # users[u].pass =>
       \E s \in SessionIds :
         Authenticated(s) /\ Actor(s) = u /\ sessions'[s] # None

\* The password of an account changes only by a session of that account that
\* outlives the change; a signup never overwrites an account, whatever was
\* created since its token was checked.
PasswordOnlyByOwnSession == [][PasswordStep]_vars

\* How a deadline moves.
RenewalStep ==
  \A i \in SessionIds :
     sessions[i] # None /\ sessions'[i] # None /\ sessions'[i] # sessions[i] =>
       /\ now <= sessions[i].deadline
       /\ sessions'[i].deadline >= sessions[i].deadline + RenewGap
       /\ sessions'[i].deadline <= now + Lifespan
       /\ sessions'[i].user = sessions[i].user

\* A deadline moves only while the session is still valid, at most once per
\* renewal gap, and never further ahead than one lifespan.
RenewalDiscipline == [][RenewalStep]_vars
=============================================================================
