---------------------------- MODULE AccountsProofs ----------------------------
(***************************************************************************)
(* Proofs about Accounts, for any number of names, sessions, tokens and     *)
(* guest requests in flight.                                                *)
(***************************************************************************)
EXTENDS Accounts, FiniteSetTheorems, TLAPS

-----------------------------------------------------------------------------
(* What the helpers yield *)

SessionTable == [SessionIds -> SessionRow \cup {None}]
TokenTable   == [TokenIds -> TokenRow \cup {None}]
UsesTable    == [TokenIds -> [granted : Int, used : Nat, oversold : BOOLEAN]]

LEMMA WithoutSessions ==
  ASSUME NEW table \in SessionTable, NEW gone
  PROVE  Without(table, gone) \in SessionTable
  BY DEF Without, SessionTable

LEMMA WithoutTokens ==
  ASSUME NEW table \in TokenTable, NEW gone
  PROVE  Without(table, gone) \in TokenTable
  BY DEF Without, TokenTable

\* The session of a request belongs to someone, and the handler finds it.
LEMMA RenewedSession ==
  ASSUME TypeOK, NEW s \in SessionIds, Authenticated(s)
  PROVE  /\ Actor(s) \in Names
         /\ sessions[s] \in SessionRow
         /\ Renewed(s) \in SessionTable
         /\ Renewed(s)[s] # None /\ Renewed(s)[s].user = Actor(s)
         /\ \A i \in SessionIds \ {s} : Renewed(s)[i] = sessions[i]
  <1>1. sessions[s] \in SessionRow /\ Actor(s) \in Names /\ now + Lifespan \in Nat
    BY AccountsAssumption DEF TypeOK, Authenticated, Actor, SessionRow
  <1>2. [user |-> Actor(s), deadline |-> now + Lifespan] \in SessionRow
    BY <1>1 DEF SessionRow
  <1> QED
    BY <1>1, <1>2, NoneAssumption DEF TypeOK, Renewed, Actor, SessionTable

LEMMA DecrementedTokens ==
  ASSUME TypeOK, NEW t \in TokenIds
  PROVE  Decremented(t) \in TokenTable
  <1>1. ASSUME tokens[t] # None
        PROVE  [creator |-> tokens[t].creator, remaining |-> tokens[t].remaining - 1]
                 \in TokenRow
    BY <1>1 DEF TypeOK, TokenRow
  <1> QED
    BY <1>1 DEF TypeOK, Decremented, TokenTable

LEMMA SoldUses ==
  ASSUME TypeOK, NEW t \in TokenIds
  PROVE  /\ Sold(t) \in UsesTable
         /\ Sold(t)[t].granted = uses[t].granted /\ Sold(t)[t].used = uses[t].used
         /\ Sold(t)[t].oversold =
              (uses[t].oversold \/ tokens[t].remaining <= Cardinality(Claiming(t)))
  <1> DEFINE sold == uses[t].oversold \/ tokens[t].remaining <= Cardinality(Claiming(t))
  <1>1. uses[t] \in [granted : Int, used : Nat, oversold : BOOLEAN]
    BY DEF TypeOK
  <1>0. sold \in BOOLEAN
    BY Zenon
  <1>2. Sold(t) = [uses EXCEPT ![t] = [uses[t] EXCEPT !.oversold = sold]]
    BY DEF Sold, TypeOK
  <1> HIDE DEF sold
  <1>3. /\ [uses[t] EXCEPT !.oversold = sold]
              \in [granted : Int, used : Nat, oversold : BOOLEAN]
        /\ [uses[t] EXCEPT !.oversold = sold].granted = uses[t].granted
        /\ [uses[t] EXCEPT !.oversold = sold].used = uses[t].used
        /\ [uses[t] EXCEPT !.oversold = sold].oversold = sold
    BY <1>0, <1>1
  <1>4. /\ Sold(t) \in UsesTable
        /\ Sold(t)[t].granted = uses[t].granted /\ Sold(t)[t].used = uses[t].used
        /\ Sold(t)[t].oversold = sold
    BY <1>2, <1>3 DEF TypeOK, UsesTable
  <1> QED
    BY <1>4 DEF sold

LEMMA UsedUses ==
  ASSUME NEW table \in UsesTable, NEW t \in TokenIds
  PROVE  /\ Used(table, t) \in UsesTable
         /\ Used(table, t)[t].granted = table[t].granted
         /\ Used(table, t)[t].oversold = table[t].oversold
         /\ Used(table, t)[t].used = IF table[t].used > table[t].granted
                                      THEN table[t].used ELSE table[t].used + 1
  <1> DEFINE more == IF table[t].used > table[t].granted THEN table[t].used
                     ELSE table[t].used + 1
  <1>1. table[t] \in [granted : Int, used : Nat, oversold : BOOLEAN]
    BY DEF UsesTable
  <1>2. more \in Nat
    BY <1>1
  <1>3. Used(table, t) = [table EXCEPT ![t] = [table[t] EXCEPT !.used = more]]
    BY DEF Used, UsesTable
  <1> HIDE DEF more
  <1>4. /\ [table[t] EXCEPT !.used = more]
             \in [granted : Int, used : Nat, oversold : BOOLEAN]
        /\ [table[t] EXCEPT !.used = more].granted = table[t].granted
        /\ [table[t] EXCEPT !.used = more].used = more
        /\ [table[t] EXCEPT !.used = more].oversold = table[t].oversold
    BY <1>1, <1>2
  <1>5. /\ Used(table, t) \in UsesTable
        /\ Used(table, t)[t].granted = table[t].granted
        /\ Used(table, t)[t].oversold = table[t].oversold
        /\ Used(table, t)[t].used = more
    BY <1>3, <1>4 DEF UsesTable
  <1> QED
    BY <1>5 DEF more

LEMMA NewUserRow ==
  ASSUME NEW p \in Passwords
  PROVE  NewUser(p) \in UserRow
  BY DEF NewUser, UserRow, PermissionUser, PermissionAdministrator

LEMMA InsertedSession ==
  ASSUME TypeOK, NEW table \in SessionTable, NEW u \in Names, NEW p \in Passwords,
         InsertSession(table, u, p)
  PROVE  /\ opened' \in 0 .. MaxSessions /\ opened + 1 \in SessionIds
         /\ sessions' \in SessionTable
         /\ openedWith' \in [SessionIds -> Passwords \cup {None}]
  <1>1. [user |-> u, deadline |-> now + Lifespan] \in SessionRow
    BY AccountsAssumption DEF TypeOK, SessionRow
  <1> QED
    BY <1>1, AccountsAssumption DEF TypeOK, InsertSession, SessionTable, SessionIds

-----------------------------------------------------------------------------
(* Type correctness *)

LEMMA InitType == Init => TypeOK
  <1> SUFFICES ASSUME Init PROVE TypeOK
    OBVIOUS
  <1>1. [granted |-> 0, used |-> 0, oversold |-> FALSE]
          \in [granted : Int, used : Nat, oversold : BOOLEAN]
    OBVIOUS
  <1>2. uses \in [TokenIds -> [granted : Int, used : Nat, oversold : BOOLEAN]]
    BY <1>1 DEF Init
  <1>3. cut \in BOOLEAN /\ raced \in [SessionIds -> BOOLEAN]
    BY DEF Init
  <1> QED
    BY <1>2, <1>3, AccountsAssumption DEF Init, TypeOK

LEMMA GuestType ==
  ASSUME TypeOK, NEW g \in Guests, GuestStep(g)
  PROVE  TypeOK'
  <1> USE DEF TypeOK, Statements, hist
  <1>1. ASSUME NEW u \in Names, NEW p \in Passwords, NEW fk \in FkModes,
               SigninVerify(g, u, p, fk)
        PROVE  TypeOK'
    <2>1. [user |-> u, pass |-> p, token |-> None, read |-> 0, fk |-> fk] \in Request
      BY DEF Request
    <2> QED
      BY <1>1, <2>1, NoneAssumption DEF SigninVerify
  <1>2. ASSUME NEW u \in Names, NEW p \in Passwords, NEW t \in TokenIds,
               NEW fk \in FkModes, SignupCheck(g, u, p, t, fk)
        PROVE  TypeOK'
    <2>1. [user |-> u, pass |-> p, token |-> t, read |-> tokens[t].remaining,
           fk |-> fk] \in Request
      BY <1>2 DEF SignupCheck, Request, TokenRow
    <2>2. uses' \in [TokenIds -> [granted : Int, used : Nat, oversold : BOOLEAN]]
      BY <1>2, SoldUses DEF SignupCheck, UsesTable
    <2> QED
      BY <1>2, <2>1, <2>2, NoneAssumption DEF SignupCheck
  <1>3. CASE Decrement(g)
    <2>1. req[g].token \in TokenIds
      BY <1>3 DEF Decrement
    <2>2. /\ tokens' \in TokenTable
          /\ uses' \in [TokenIds -> [granted : Int, used : Nat, oversold : BOOLEAN]]
      BY <1>3, <2>1, DecrementedTokens, UsedUses DEF Decrement, TokenTable, UsesTable
    <2>3. pc' = [pc EXCEPT ![g] = "createUser"] \/ pc' = [pc EXCEPT ![g] = "purge"]
      BY <1>3 DEF Decrement
    <2> QED
      BY <1>3, <2>1, <2>2, <2>3 DEF Decrement, TokenTable
  <1>4. CASE Purge(g)
    <2>1. tokens' \in TokenTable
      BY <1>4, WithoutTokens DEF Purge, TokenTable
    <2> QED
      BY <1>4, <2>1 DEF Purge, TokenTable
  <1>5. CASE CreateUser(g)
    <2>1. /\ req[g] \in Request
          /\ req[g].user \in Names /\ NewUser(req[g].pass) \in UserRow
          /\ 0 \in 0 .. MaxSessions
      BY <1>5, NewUserRow, AccountsAssumption DEF CreateUser, Request
    <2>2. /\ users' \in [Names -> UserRow \cup {None}]
          /\ keeper' \in [Names -> 0 .. MaxSessions]
          /\ since' \in [Names -> 0 .. MaxSessions]
      BY <1>5, <2>1 DEF CreateUser, Created
    <2> QED
      BY <1>5, <2>1, <2>2 DEF CreateUser
  <1>6. CASE NewSession(g)
    <2>1. req[g] \in Request
      BY <1>6 DEF NewSession
    <2>2. /\ opened' \in 0 .. MaxSessions
          /\ sessions' \in SessionTable
          /\ openedWith' \in [SessionIds -> Passwords \cup {None}]
      BY <1>6, <2>1, InsertedSession DEF NewSession, Request, SessionTable
    <2>3. raced' \in [SessionIds -> BOOLEAN]
      BY <1>6 DEF NewSession
    <2> QED
      BY <1>6, <2>1, <2>2, <2>3 DEF NewSession, SessionTable
  <1>7. CASE Cleanup(g)
    <2>1. sessions' \in SessionTable
      BY <1>7, WithoutSessions DEF Cleanup, CleanedUp, SessionTable
    <2> QED
      BY <1>7, <2>1 DEF Cleanup, SessionTable
  <1>8. CASE Abort(g)
    BY <1>8 DEF Abort
  <1> QED
    BY <1>1, <1>2, <1>3, <1>4, <1>5, <1>6, <1>7, <1>8 DEF GuestStep

LEMMA OnlySessionType ==
  ASSUME TypeOK, NEW s \in SessionIds, Authenticated(s)
  PROVE  OnlySession(s) \in SessionTable /\ OnlySession(s)[s] # None
  <1>1. Renewed(s) \in SessionTable /\ Renewed(s)[s] # None
    BY RenewedSession
  <1> QED
    BY <1>1, WithoutSessions DEF OnlySession, Without, SessionTable

LEMMA RequestType ==
  ASSUME TypeOK, NEW s \in SessionIds, AuthenticatedRequest(s)
  PROVE  TypeOK'
  <1> USE DEF hist
  <1>1. /\ Actor(s) \in Names /\ Renewed(s) \in SessionTable /\ Authenticated(s)
        /\ OnlySession(s) \in SessionTable
    <2>1. Authenticated(s)
      BY DEF AuthenticatedRequest, Read, Signout, DeleteSessionID, DeleteAllSessions,
             ChangePassword, PromoteUser, DeleteUser, CreateToken, DeleteToken,
             SignupAuthenticated
    <2> QED
      BY <2>1, RenewedSession, OnlySessionType
  <1>2. CASE Read(s) \/ DeleteAllSessions(s)
    BY <1>1, <1>2 DEF Read, DeleteAllSessions, TypeOK, SessionTable
  <1>3. CASE Signout(s) \/ \E id \in SessionIds : DeleteSessionID(s, id)
    BY <1>1, <1>3 DEF Signout, DeleteSessionID, TypeOK, SessionTable
  <1>4. ASSUME NEW p \in Passwords, ChangePassword(s, p) PROVE TypeOK'
    <2>1. users[Actor(s)] \in UserRow
      BY <1>1, <1>4 DEF ChangePassword, TypeOK
    <2>2. [pass |-> p, perm |-> users[Actor(s)].perm] \in UserRow
      BY <2>1 DEF UserRow
    <2>3. /\ users' \in [Names -> UserRow \cup {None}]
          /\ keeper' \in [Names -> 0 .. MaxSessions]
          /\ sessions' \in SessionTable
      BY <1>1, <1>4, <2>2, AccountsAssumption DEF ChangePassword, TypeOK, SessionIds
    <2> QED
      BY <1>4, <2>3 DEF ChangePassword, TypeOK, SessionTable
  <1>5. ASSUME NEW u \in Names, NEW p \in AllPermissions, PromoteUser(s, u, p)
        PROVE  TypeOK'
    <2>1. ASSUME users[u] # None PROVE [pass |-> users[u].pass, perm |-> p] \in UserRow
      BY <1>5, <2>1 DEF PromoteUser, TypeOK, UserRow
    <2>2. users' \in [Names -> UserRow \cup {None}]
      BY <1>5, <2>1 DEF PromoteUser, TypeOK
    <2> QED
      BY <1>1, <1>5, <2>2 DEF PromoteUser, TypeOK, SessionTable
  <1>6. ASSUME NEW u \in Names, NEW fk \in FkModes, DeleteUser(s, u, fk)
        PROVE  TypeOK'
    <2>1. sessions' \in SessionTable /\ tokens' \in TokenTable
      BY <1>1, <1>6, WithoutSessions, WithoutTokens DEF DeleteUser, TypeOK, TokenTable
    <2>2. users' \in [Names -> UserRow \cup {None}]
      BY <1>6 DEF DeleteUser, TypeOK
    <2> QED
      BY <1>6, <2>1, <2>2 DEF DeleteUser, TypeOK, SessionTable, TokenTable
  <1>7. ASSUME NEW n \in UsesAsked, CreateToken(s, n) PROVE TypeOK'
    <2>1. /\ n \in Int /\ minted' \in 0 .. MaxTokens
          /\ [creator |-> Actor(s), remaining |-> n] \in TokenRow
          /\ [granted |-> n, used |-> 0, oversold |-> FALSE]
               \in [granted : Int, used : Nat, oversold : BOOLEAN]
      BY <1>1, <1>7, AccountsAssumption DEF CreateToken, TokenRow, TypeOK
    <2>2. /\ tokens' \in TokenTable
          /\ uses' \in [TokenIds -> [granted : Int, used : Nat, oversold : BOOLEAN]]
      BY <1>7, <2>1 DEF CreateToken, TypeOK, TokenTable
    <2> QED
      BY <1>1, <1>7, <2>1, <2>2 DEF CreateToken, TypeOK, SessionTable, TokenTable
  <1>8. ASSUME NEW t \in TokenIds, DeleteToken(s, t) PROVE TypeOK'
    BY <1>1, <1>8 DEF DeleteToken, TypeOK, SessionTable
  <1>9. ASSUME NEW u \in Names, NEW p \in Passwords, NEW t \in TokenIds,
               SignupAuthenticated(s, u, p, t)
        PROVE  TypeOK'
    <2>1. /\ tokens' \in TokenTable
          /\ uses' \in [TokenIds -> [granted : Int, used : Nat, oversold : BOOLEAN]]
          /\ cut' \in BOOLEAN
      <3>1. /\ Decremented(t) \in TokenTable
            /\ Without(Decremented(t), Exhausted(Decremented(t))) \in TokenTable
            /\ Used(Sold(t), t) \in UsesTable
        BY DecrementedTokens, WithoutTokens, SoldUses, UsedUses
      <3> QED
        BY <1>9, <3>1 DEF SignupAuthenticated, TypeOK, TokenTable, UsesTable
    <2>2. CleanedUp(Renewed(s)) \in SessionTable
      BY <1>1, WithoutSessions DEF CleanedUp
    <2>3. /\ opened' \in 0 .. MaxSessions /\ sessions' \in SessionTable
          /\ openedWith' \in [SessionIds -> Passwords \cup {None}]
      BY <1>9, <2>2, InsertedSession DEF SignupAuthenticated
    <2>4. NewUser(p) \in UserRow /\ 0 \in 0 .. MaxSessions
      BY NewUserRow, AccountsAssumption
    <2>5. /\ users' \in [Names -> UserRow \cup {None}]
          /\ keeper' \in [Names -> 0 .. MaxSessions]
          /\ since' \in [Names -> 0 .. MaxSessions]
          /\ raced' \in [SessionIds -> BOOLEAN]
      BY <1>9, <2>4 DEF SignupAuthenticated, Created, TypeOK
    <2> QED
      BY <1>9, <2>1, <2>3, <2>5 DEF SignupAuthenticated, TypeOK, SessionTable, TokenTable
  <1> QED
    BY <1>2, <1>3, <1>4, <1>5, <1>6, <1>7, <1>8, <1>9 DEF AuthenticatedRequest

LEMMA NextType == TypeOK /\ [Next]_vars => TypeOK'
  <1> SUFFICES ASSUME TypeOK, [Next]_vars PROVE TypeOK'
    OBVIOUS
  <1>1. ASSUME NEW p \in Passwords, CreateOwner(p) PROVE TypeOK'
    BY <1>1, NewUserRow, AccountsAssumption DEF CreateOwner, Created, TypeOK
  <1>2. CASE Tick
    BY <1>2 DEF Tick, TypeOK, hist
  <1>3. CASE UNCHANGED vars
    BY <1>3 DEF vars, hist, TypeOK
  <1> QED
    BY <1>1, <1>2, <1>3, GuestType, RequestType DEF Next

\* Rows and requests keep their shapes; no account is ever stored with more than
\* the Administrator permission.
THEOREM TypeCorrect == Spec => []TypeOK
  BY InitType, NextType, PTL DEF Spec

-----------------------------------------------------------------------------
(* Tokens *)

\* The requests that leave the tokens alone.
LEMMA TokensUntouched ==
  ASSUME [Next]_vars,
         ~\E g \in Guests : Decrement(g) \/ Purge(g),
         ~\E s \in SessionIds :
            \/ \E u \in Names, fk \in FkModes : DeleteUser(s, u, fk)
            \/ \E n \in UsesAsked : CreateToken(s, n)
            \/ \E t \in TokenIds : DeleteToken(s, t)
            \/ \E u \in Names, p \in Passwords, t \in TokenIds :
                 SignupAuthenticated(s, u, p, t)
  PROVE  UNCHANGED tokens
  BY DEF Next, GuestStep, AuthenticatedRequest, SigninVerify, SignupCheck, CreateUser,
         NewSession, Cleanup, Abort, Read, Signout, DeleteSessionID, DeleteAllSessions,
         ChangePassword, PromoteUser, CreateOwner, Tick, vars, hist

\* The signups in flight that have a claim on a token are finitely many.
LEMMA ClaimingFinite ==
  ASSUME NEW t
  PROVE  /\ IsFiniteSet(Claiming(t)) /\ Cardinality(Claiming(t)) \in Nat
         /\ \A S \in SUBSET Claiming(t) :
              /\ IsFiniteSet(S) /\ Cardinality(S) \in Nat
              /\ Cardinality(S) <= Cardinality(Claiming(t))
  <1>1. IsFiniteSet(Guests) /\ Claiming(t) \subseteq Guests
    BY AccountsAssumption DEF Claiming
  <1>2. IsFiniteSet(Claiming(t))
    BY <1>1, FS_Subset
  <1>3. \A S \in SUBSET Claiming(t) :
          IsFiniteSet(S) /\ Cardinality(S) <= Cardinality(Claiming(t))
    BY <1>2, FS_Subset
  <1> QED
    BY <1>2, <1>3, FS_CardinalityType

\* Nobody has a claim on a token that is still to be made.
Minted == \A t \in TokenIds : t > minted => tokens[t] = None /\ Claiming(t) = {}

\* What a token that was never oversold has left covers the claims on it.
Covered(t) ==
  uses[t].granted > 0 /\ ~uses[t].oversold =>
    /\ uses[t].used + Cardinality(Claiming(t)) <= uses[t].granted
    /\ tokens[t] # None => tokens[t].remaining = uses[t].granted - uses[t].used
    /\ \A g \in Claiming(t) : req[g].read # -1

ClaimsCovered == \A t \in TokenIds : Covered(t)

\* A step that makes no claim on a token, and at most deletes it, keeps it covered.
LEMMA CoveredQuietly ==
  ASSUME TypeOK, NEW t \in TokenIds, Covered(t), uses'[t] = uses[t],
         tokens'[t] = tokens[t] \/ tokens'[t] = None,
         Claiming(t)' \subseteq Claiming(t),
         \A g \in Claiming(t)' : req'[g] = req[g]
  PROVE  Covered(t)'
  <1>1. /\ Cardinality(Claiming(t)) \in Nat /\ Cardinality(Claiming(t)') \in Nat
        /\ Cardinality(Claiming(t)') <= Cardinality(Claiming(t))
    BY ClaimingFinite
  <1>2. uses[t].used \in Nat /\ uses[t].granted \in Int
    BY DEF TypeOK
  <1> QED
    BY <1>1, <1>2 DEF Covered

\* The steps of guests that neither check nor decrement a token.
LEMMA GuestQuiet ==
  ASSUME TypeOK, NEW g \in Guests, GuestStep(g), ~Decrement(g),
         ~\E u \in Names, p \in Passwords, t \in TokenIds, fk \in FkModes :
            SignupCheck(g, u, p, t, fk),
         NEW t \in TokenIds
  PROVE  /\ uses'[t] = uses[t] /\ minted' = minted
         /\ tokens'[t] = tokens[t] \/ tokens'[t] = None
         /\ Claiming(t)' \subseteq Claiming(t)
         /\ \A h \in Claiming(t)' : req'[h] = req[h]
  <1>1. CASE Purge(g)
    BY <1>1 DEF Purge, Without, Claiming, TypeOK, hist
  <1>2. CASE CreateUser(g) \/ NewSession(g) \/ Cleanup(g) \/ Abort(g)
    BY <1>2 DEF CreateUser, NewSession, Cleanup, Abort, Claiming, TypeOK, hist
  <1>3. ASSUME NEW u \in Names, NEW p \in Passwords, NEW fk \in FkModes,
               SigninVerify(g, u, p, fk)
        PROVE  /\ uses'[t] = uses[t] /\ minted' = minted
               /\ tokens'[t] = tokens[t] \/ tokens'[t] = None
               /\ Claiming(t)' \subseteq Claiming(t)
               /\ \A h \in Claiming(t)' : req'[h] = req[h]
    BY <1>3 DEF SigninVerify, Claiming, TypeOK, hist
  <1> QED
    BY <1>1, <1>2, <1>3 DEF GuestStep

\* The other steps leave guests alone.
LEMMA GuestsUntouched ==
  ASSUME [Next]_vars, ~\E g \in Guests : GuestStep(g), NEW t
  PROVE  UNCHANGED <<pc, req>> /\ Claiming(t)' = Claiming(t)
  <1>1. UNCHANGED <<pc, req>>
    BY DEF Next, AuthenticatedRequest, Read, Signout, DeleteSessionID, DeleteAllSessions,
           ChangePassword, PromoteUser, DeleteUser, CreateToken, DeleteToken,
           SignupAuthenticated, CreateOwner, Tick, vars
  <1> QED
    BY <1>1 DEF Claiming

LEMMA CheckCovered ==
  ASSUME TypeOK, Minted, ClaimsCovered, NEW g \in Guests, NEW u \in Names,
         NEW p \in Passwords, NEW t \in TokenIds, NEW fk \in FkModes,
         SignupCheck(g, u, p, t, fk)
  PROVE  Minted' /\ ClaimsCovered'
  <1>1. /\ pc[g] = "idle" /\ tokens[t] # None /\ tokens' = tokens /\ minted' = minted
        /\ pc' = [pc EXCEPT ![g] = "decrement"]
        /\ req' = [req EXCEPT ![g] = [user |-> u, pass |-> p, token |-> t,
                                      read |-> tokens[t].remaining, fk |-> fk]]
        /\ uses' = Sold(t)
    BY DEF SignupCheck
  <1>2. \A i \in TokenIds \ {t} : Claiming(i)' = Claiming(i) /\ uses'[i] = uses[i]
    BY <1>1 DEF Claiming, Sold, TypeOK
  <1>3. Claiming(t)' = Claiming(t) \cup {g} /\ g \notin Claiming(t)
    BY <1>1 DEF Claiming, TypeOK
  <1>4. \A i \in TokenIds : \A h \in Claiming(i) : req'[h] = req[h]
    BY <1>1 DEF Claiming, TypeOK
  <1>5. Cardinality(Claiming(t)') = Cardinality(Claiming(t)) + 1
        /\ Cardinality(Claiming(t)) \in Nat
    BY <1>3, ClaimingFinite, FS_AddElement
  <1>6. Covered(t)'
    <2>1. Covered(t)
      BY DEF ClaimsCovered
    <2>2. SUFFICES ASSUME uses'[t].granted > 0, ~uses'[t].oversold
                   PROVE  /\ uses'[t].used + Cardinality(Claiming(t)') <= uses'[t].granted
                          /\ tokens[t].remaining = uses'[t].granted - uses'[t].used
                          /\ \A h \in Claiming(t)' : req'[h].read # -1
      BY <1>1 DEF Covered
    <2>3. /\ uses'[t].granted = uses[t].granted /\ uses'[t].used = uses[t].used
          /\ ~uses[t].oversold /\ ~(tokens[t].remaining <= Cardinality(Claiming(t)))
      BY <1>1, <2>2, SoldUses
    <2>4. /\ tokens[t].remaining = uses[t].granted - uses[t].used
          /\ \A h \in Claiming(t) : req[h].read # -1
      BY <1>1, <2>1, <2>2, <2>3 DEF Covered
    <2>5. uses[t].granted \in Int /\ uses[t].used \in Nat /\ tokens[t].remaining \in Int
      BY <1>1 DEF TypeOK, TokenRow
    <2>6. tokens[t].remaining # -1
      BY <1>5, <2>3, <2>5
    <2>7. \A h \in Claiming(t)' : req'[h].read # -1
      BY <1>1, <1>3, <1>4, <2>4, <2>6 DEF TypeOK
    <2> QED
      BY <1>5, <2>3, <2>4, <2>5, <2>7
  <1>7. \A i \in TokenIds \ {t} : Covered(i)'
    BY <1>1, <1>2, <1>4 DEF ClaimsCovered, Covered
  <1>8. t <= minted
    <2>1. tokens[t] # None
      BY <1>1
    <2>2. t \in Nat /\ minted \in Nat
      BY AccountsAssumption DEF TypeOK, TokenIds
    <2> QED
      BY <2>1, <2>2 DEF Minted
  <1>9. Minted'
    BY <1>1, <1>2, <1>8, AccountsAssumption DEF Minted, TypeOK, TokenIds
  <1> QED
    BY <1>6, <1>7, <1>9 DEF ClaimsCovered

LEMMA DecrementCovered ==
  ASSUME TypeOK, Minted, ClaimsCovered, NEW g \in Guests, Decrement(g)
  PROVE  Minted' /\ ClaimsCovered'
  <1> SUFFICES ASSUME NEW t \in TokenIds, t = req[g].token PROVE Minted' /\ ClaimsCovered'
    BY DEF Decrement, TypeOK
  <1>1. /\ pc[g] = "decrement" /\ req' = req /\ minted' = minted
        /\ g \in Claiming(t)
    BY DEF Decrement, TypeOK, Claiming
  <1>2. /\ pc' = [pc EXCEPT ![g] = "createUser"] \/ pc' = [pc EXCEPT ![g] = "purge"]
        /\ uses' = Used(uses, t)
        /\ req[g].read # -1 => tokens' = Decremented(t)
        /\ tokens' = tokens \/ tokens' = Decremented(t)
    BY DEF Decrement
  <1>3. Claiming(t)' = Claiming(t) \ {g}
    BY <1>1, <1>2 DEF Claiming, TypeOK
  <1>4. \A i \in TokenIds \ {t} : Claiming(i)' = Claiming(i)
    BY <1>1, <1>2 DEF Claiming, TypeOK
  <1>5. \A i \in TokenIds \ {t} : uses'[i] = uses[i] /\ tokens'[i] = tokens[i]
    BY <1>1, <1>2 DEF Used, Decremented, TypeOK
  <1>6. \A i \in TokenIds : tokens[i] = None => tokens'[i] = None
    BY <1>1, <1>2 DEF Decremented, TypeOK
  <1>7. /\ Cardinality(Claiming(t)') = Cardinality(Claiming(t)) - 1
        /\ Cardinality(Claiming(t)) \in Nat /\ Cardinality(Claiming(t)') \in Nat
    BY <1>1, <1>3, ClaimingFinite, FS_RemoveElement
  <1>8. Covered(t)'
    <2>1. SUFFICES ASSUME uses'[t].granted > 0, ~uses'[t].oversold
                   PROVE  /\ uses'[t].used + Cardinality(Claiming(t)') <= uses'[t].granted
                          /\ tokens'[t] # None =>
                               tokens'[t].remaining = uses'[t].granted - uses'[t].used
                          /\ \A h \in Claiming(t)' : req'[h].read # -1
      BY DEF Covered
    <2>2. /\ uses'[t].granted = uses[t].granted /\ ~uses[t].oversold
          /\ uses'[t].used = IF uses[t].used > uses[t].granted THEN uses[t].used
                             ELSE uses[t].used + 1
      BY <1>1, <1>2, <2>1, UsedUses DEF TypeOK, UsesTable
    <2>3. /\ uses[t].used + Cardinality(Claiming(t)) <= uses[t].granted
          /\ tokens[t] # None => tokens[t].remaining = uses[t].granted - uses[t].used
          /\ \A h \in Claiming(t) : req[h].read # -1
      BY <1>1, <2>1, <2>2 DEF ClaimsCovered, Covered
    <2>4. uses[t].granted \in Int /\ uses[t].used \in Nat
      BY <1>1 DEF TypeOK
    <2>5. uses'[t].used = uses[t].used + 1
      BY <1>7, <2>2, <2>3, <2>4
    <2>6. tokens' = Decremented(t)
      BY <1>1, <1>2, <2>3
    <2>7. tokens'[t] # None =>
            /\ tokens[t] # None /\ tokens[t].remaining \in Int
            /\ tokens'[t].remaining = tokens[t].remaining - 1
      BY <1>1, <2>6 DEF Decremented, TypeOK, TokenRow
    <2>8. \A h \in Claiming(t)' : req'[h].read # -1
      BY <1>1, <1>3, <2>3
    <2>9. uses'[t].used + Cardinality(Claiming(t)') <= uses'[t].granted
      BY <1>7, <2>2, <2>3, <2>4, <2>5
    <2>10. tokens'[t] # None =>
             tokens'[t].remaining = uses'[t].granted - uses'[t].used
      BY <2>2, <2>3, <2>4, <2>5, <2>7
    <2> QED
      BY <2>8, <2>9, <2>10
  <1>9. \A i \in TokenIds \ {t} : Covered(i)'
    BY <1>1, <1>4, <1>5 DEF ClaimsCovered, Covered
  <1>10. Minted'
    <2>1. \A i \in TokenIds : Claiming(i)' \subseteq Claiming(i)
      BY <1>3, <1>4
    <2> QED
      BY <1>1, <1>6, <2>1 DEF Minted
  <1> QED
    BY <1>8, <1>9, <1>10 DEF ClaimsCovered

LEMMA SignupCovered ==
  ASSUME TypeOK, ClaimsCovered, NEW s \in SessionIds, NEW u \in Names,
         NEW p \in Passwords, NEW t \in TokenIds, SignupAuthenticated(s, u, p, t)
  PROVE  ClaimsCovered'
  <1>1. /\ UNCHANGED <<pc, req>> /\ tokens[t] # None /\ uses' = Used(Sold(t), t)
        /\ tokens[t].remaining # -1 =>
             tokens' = Without(Decremented(t), Exhausted(Decremented(t)))
        /\ tokens' = tokens \/ tokens' = Without(Decremented(t), Exhausted(Decremented(t)))
    BY DEF SignupAuthenticated
  <1>2. \A i \in TokenIds : Claiming(i)' = Claiming(i)
    BY <1>1 DEF Claiming
  <1>3. Decremented(t) \in TokenTable
    BY DecrementedTokens
  <1>4. \A i \in TokenIds \ {t} :
          uses'[i] = uses[i] /\ (tokens'[i] = tokens[i] \/ tokens'[i] = None)
    <2>1. \A i \in TokenIds \ {t} : uses'[i] = uses[i]
      BY <1>1 DEF Used, Sold, TypeOK
    <2>2. \A i \in TokenIds \ {t} : Decremented(t)[i] = tokens[i]
      BY DEF Decremented, TypeOK
    <2> QED
      BY <1>1, <1>3, <2>1, <2>2 DEF Without, TokenTable
  <1>5. Covered(t)'
    <2>1. SUFFICES ASSUME uses'[t].granted > 0, ~uses'[t].oversold
                   PROVE  /\ uses'[t].used + Cardinality(Claiming(t)) <= uses'[t].granted
                          /\ tokens'[t] # None =>
                               tokens'[t].remaining = uses'[t].granted - uses'[t].used
                          /\ \A h \in Claiming(t) : req[h].read # -1
      BY <1>1, <1>2 DEF Covered
    <2>2. /\ uses'[t].granted = uses[t].granted
          /\ ~uses[t].oversold /\ ~(tokens[t].remaining <= Cardinality(Claiming(t)))
          /\ uses'[t].used = IF uses[t].used > uses[t].granted THEN uses[t].used
                             ELSE uses[t].used + 1
      BY <1>1, <2>1, SoldUses, UsedUses
    <2>3. /\ tokens[t].remaining = uses[t].granted - uses[t].used
          /\ \A h \in Claiming(t) : req[h].read # -1
      BY <1>1, <2>1, <2>2 DEF ClaimsCovered, Covered
    <2>4. /\ uses[t].granted \in Int /\ uses[t].used \in Nat
          /\ tokens[t].remaining \in Int /\ Cardinality(Claiming(t)) \in Nat
      BY <1>1, ClaimingFinite DEF TypeOK, TokenRow
    <2>5. tokens[t].remaining # -1 /\ uses'[t].used = uses[t].used + 1
      BY <2>2, <2>3, <2>4
    <2>6. tokens'[t] # None => tokens'[t].remaining = tokens[t].remaining - 1
      <3>1. Decremented(t)[t].remaining = tokens[t].remaining - 1
        BY <1>1 DEF Decremented, TypeOK
      <3> QED
        BY <1>1, <1>3, <2>5, <3>1 DEF Without, TokenTable
    <2>7. uses'[t].used + Cardinality(Claiming(t)) <= uses'[t].granted
      BY <2>2, <2>3, <2>4, <2>5
    <2> QED
      BY <2>2, <2>3, <2>4, <2>5, <2>6, <2>7
  <1>6. \A i \in TokenIds \ {t} : Covered(i)'
    BY <1>1, <1>2, <1>4 DEF ClaimsCovered, Covered
  <1> QED
    BY <1>5, <1>6 DEF ClaimsCovered

LEMMA MintCovered ==
  ASSUME TypeOK, Minted, ClaimsCovered, NEW s \in SessionIds, NEW n \in UsesAsked,
         CreateToken(s, n)
  PROVE  Minted' /\ ClaimsCovered'
  <1>1. /\ UNCHANGED <<pc, req>> /\ minted' = minted + 1 /\ minted < MaxTokens
        /\ tokens' = [tokens EXCEPT ![minted + 1] = [creator |-> Actor(s), remaining |-> n]]
        /\ uses' = [uses EXCEPT ![minted + 1] =
                      [granted |-> n, used |-> 0, oversold |-> FALSE]]
        /\ n \in Int
    BY AccountsAssumption DEF CreateToken
  <1>2. \A i \in TokenIds : Claiming(i)' = Claiming(i)
    BY <1>1 DEF Claiming
  <1>3. minted \in Nat /\ MaxTokens \in Nat
    BY AccountsAssumption DEF TypeOK
  <1>0. PICK t \in TokenIds : t = minted + 1
    BY <1>1, <1>3 DEF TokenIds
  <1>4. Claiming(t) = {}
    BY <1>0, <1>1, <1>3 DEF Minted, TokenIds
  <1>5. Minted'
    BY <1>1, <1>2, <1>3 DEF Minted, TypeOK, TokenIds
  <1>6. Covered(t)'
    <2>1. Claiming(t)' = {} /\ Cardinality(Claiming(t)') = 0
      BY <1>2, <1>4, FS_EmptySet
    <2>2. /\ uses'[t] = [granted |-> n, used |-> 0, oversold |-> FALSE]
          /\ tokens'[t] = [creator |-> Actor(s), remaining |-> n]
      BY <1>0, <1>1 DEF TypeOK
    <2> QED
      BY <1>1, <2>1, <2>2 DEF Covered
  <1>7. \A i \in TokenIds \ {t} : Covered(i)'
    BY <1>0, <1>1, <1>2 DEF ClaimsCovered, Covered, TypeOK
  <1> QED
    BY <1>5, <1>6, <1>7 DEF ClaimsCovered

LEMMA NextCovered ==
  TypeOK /\ Minted /\ ClaimsCovered /\ [Next]_vars => Minted' /\ ClaimsCovered'
  <1> SUFFICES ASSUME TypeOK, Minted, ClaimsCovered, [Next]_vars
               PROVE  Minted' /\ ClaimsCovered'
    OBVIOUS
  <1>1. ASSUME minted' = minted,
               \A t \in TokenIds :
                 /\ uses'[t] = uses[t]
                 /\ tokens'[t] = tokens[t] \/ tokens'[t] = None
                 /\ Claiming(t)' \subseteq Claiming(t)
                 /\ \A h \in Claiming(t)' : req'[h] = req[h]
        PROVE  Minted' /\ ClaimsCovered'
    <2>1. ASSUME NEW t \in TokenIds PROVE Covered(t)'
      BY <1>1, CoveredQuietly DEF ClaimsCovered
    <2> QED
      BY <1>1, <2>1 DEF Minted, ClaimsCovered
  <1>2. ASSUME NEW g \in Guests, GuestStep(g) PROVE Minted' /\ ClaimsCovered'
    <2>1. CASE Decrement(g)
      BY <2>1, DecrementCovered
    <2>2. CASE \E u \in Names, p \in Passwords, t \in TokenIds, fk \in FkModes :
                 SignupCheck(g, u, p, t, fk)
      BY <2>2, CheckCovered
    <2>3. CASE /\ ~Decrement(g)
               /\ ~\E u \in Names, p \in Passwords, t \in TokenIds, fk \in FkModes :
                     SignupCheck(g, u, p, t, fk)
      <3>1. minted' = minted
        BY <1>2, <2>3 DEF GuestStep, SigninVerify, Purge, CreateUser, NewSession, Cleanup,
                          Abort
      <3> QED
        BY <1>1, <1>2, <2>3, <3>1, GuestQuiet
    <2> QED
      BY <2>1, <2>2, <2>3
  <1>3. CASE ~\E g \in Guests : GuestStep(g)
    <2>1. \A t \in TokenIds : Claiming(t)' = Claiming(t) /\ req' = req
      BY <1>3, GuestsUntouched
    <2>2. ASSUME NEW s \in SessionIds, NEW n \in UsesAsked, CreateToken(s, n)
          PROVE  Minted' /\ ClaimsCovered'
      BY <2>2, MintCovered
    <2>3. ASSUME NEW s \in SessionIds, NEW u \in Names, NEW p \in Passwords,
                 NEW t \in TokenIds, SignupAuthenticated(s, u, p, t)
          PROVE  Minted' /\ ClaimsCovered'
      <3>1. minted' = minted /\ \A i \in TokenIds : tokens[i] = None => tokens'[i] = None
        <4>1. Decremented(t) \in TokenTable
          BY DecrementedTokens
        <4> QED
          BY <2>3, <4>1 DEF SignupAuthenticated, Decremented, Without, TypeOK, TokenTable
      <3> QED
        BY <2>1, <2>3, <3>1, SignupCovered DEF Minted
    <2>4. ASSUME NEW s \in SessionIds, NEW u \in Names, NEW fk \in FkModes,
                 DeleteUser(s, u, fk)
          PROVE  Minted' /\ ClaimsCovered'
      <3>1. /\ minted' = minted /\ uses' = uses
            /\ \A t \in TokenIds : tokens'[t] = tokens[t] \/ tokens'[t] = None
        BY <2>4 DEF DeleteUser, Without, TypeOK, hist
      <3> QED
        BY <1>1, <2>1, <3>1
    <2>5. ASSUME NEW s \in SessionIds, NEW t \in TokenIds, DeleteToken(s, t)
          PROVE  Minted' /\ ClaimsCovered'
      <3>1. /\ minted' = minted /\ uses' = uses
            /\ \A i \in TokenIds : tokens'[i] = tokens[i] \/ tokens'[i] = None
        BY <2>5 DEF DeleteToken, TypeOK, hist
      <3> QED
        BY <1>1, <2>1, <3>1
    <2>6. CASE UNCHANGED <<tokens, uses, minted>>
      BY <1>1, <2>1, <2>6
    <2> QED
      BY <1>3, <2>2, <2>3, <2>4, <2>5, <2>6 DEF Next, AuthenticatedRequest, Read, Signout,
         DeleteSessionID, DeleteAllSessions, ChangePassword, PromoteUser, CreateOwner,
         Tick, vars, hist
  <1> QED
    BY <1>2, <1>3

\* However many guests sign up with one token at once, it admits no more than it was
\* made for unless one of them passed the check when all was claimed.
THEOREM ClaimsHold == Spec => []ClaimsWithinGrant
  <1>1. Init => Minted /\ ClaimsCovered
    BY DEF Init, Minted, ClaimsCovered, Covered, Claiming
  <1>2. TypeOK /\ ClaimsCovered => ClaimsWithinGrant
    <2> SUFFICES ASSUME TypeOK, ClaimsCovered, NEW t \in TokenIds, uses[t].granted > 0,
                        ~uses[t].oversold
                 PROVE  /\ uses[t].used <= uses[t].granted
                        /\ tokens[t] # None =>
                             tokens[t].remaining = uses[t].granted - uses[t].used
      BY DEF ClaimsWithinGrant
    <2>1. /\ uses[t].used \in Nat /\ uses[t].granted \in Int
          /\ Cardinality(Claiming(t)) \in Nat
      BY ClaimingFinite DEF TypeOK
    <2>2. /\ uses[t].used + Cardinality(Claiming(t)) <= uses[t].granted
          /\ tokens[t] # None => tokens[t].remaining = uses[t].granted - uses[t].used
      BY DEF ClaimsCovered, Covered
    <2> QED
      BY <2>1, <2>2
  <1> QED
    BY <1>1, <1>2, InitType, NextType, NextCovered, PTL DEF Spec

\* Nothing but a decrement makes a token run out, and nothing but a purge or a
\* cut short request ends the wait for its removal.
LEMMA NextPurged ==
  TypeOK /\ ExhaustedTokensPurged /\ [Next]_vars => ExhaustedTokensPurged'
  <1> SUFFICES ASSUME TypeOK, ExhaustedTokensPurged, [Next]_vars,
                      NEW t \in TokenIds, tokens'[t] # None, tokens'[t].remaining = 0,
                      ~cut'
               PROVE  \E g \in Guests : pc'[g] = "purge"
    BY DEF ExhaustedTokensPurged
  <1>1. ASSUME ~cut, tokens[t] # None, tokens[t].remaining = 0,
               \A g \in Guests : pc[g] = "purge" => pc'[g] = "purge"
        PROVE  \E g \in Guests : pc'[g] = "purge"
    BY <1>1 DEF ExhaustedTokensPurged
  <1>2. ASSUME NEW g \in Guests, Decrement(g)
        PROVE  \E q \in Guests : pc'[q] = "purge"
    <2>1. CASE req[g].read = -1
      <3>1. tokens' = tokens /\ pc' = [pc EXCEPT ![g] = "createUser"] /\ cut' = cut
            /\ pc[g] # "purge"
        BY <1>2, <2>1 DEF Decrement
      <3> QED
        BY <1>1, <3>1 DEF TypeOK
    <2>2. CASE req[g].read # -1
      BY <1>2, <2>2 DEF Decrement, TypeOK
    <2> QED
      BY <2>1, <2>2
  <1>3. CASE \E g \in Guests : Purge(g)
    BY <1>3 DEF Purge, Without, Exhausted, TypeOK
  <1>4. ASSUME NEW g \in Guests, Abort(g)
        PROVE  \E q \in Guests : pc'[q] = "purge"
    <2>1. tokens' = tokens /\ pc' = [pc EXCEPT ![g] = "idle"] /\ ~cut /\ pc[g] # "purge"
      BY <1>4 DEF Abort
    <2> QED
      BY <1>1, <2>1 DEF TypeOK
  <1>5. CASE ~\E g \in Guests : Decrement(g) \/ Purge(g) \/ Abort(g)
    <2>1. \A g \in Guests : pc[g] = "purge" => pc'[g] = "purge"
      <3>1. CASE ~\E g \in Guests : GuestStep(g)
        BY <3>1, GuestsUntouched
      <3>2. ASSUME NEW h \in Guests, GuestStep(h)
            PROVE  \A g \in Guests : pc[g] = "purge" => pc'[g] = "purge"
        <4>1. pc[h] # "purge" /\ \A g \in Guests \ {h} : pc'[g] = pc[g]
          BY <1>5, <3>2 DEF GuestStep, SigninVerify, SignupCheck, CreateUser, NewSession,
             Cleanup, TypeOK
        <4> QED
          BY <4>1
      <3> QED
        BY <3>1, <3>2
    <2>2. ASSUME NEW s \in SessionIds, NEW u \in Names, NEW p \in Passwords,
                 NEW v \in TokenIds, SignupAuthenticated(s, u, p, v)
          PROVE  UNCHANGED <<tokens, cut>>
      <3>1. tokens' # Without(Decremented(v), Exhausted(Decremented(v)))
        <4>1. Decremented(v) \in TokenTable
          BY DecrementedTokens
        <4> QED
          BY <4>1 DEF Without, Exhausted, TokenTable
      <3> QED
        BY <2>2, <3>1 DEF SignupAuthenticated
    <2>3. tokens[t] # None /\ tokens[t].remaining = 0
      <3>1. ASSUME NEW s \in SessionIds, NEW u \in Names, NEW fk \in FkModes,
                   DeleteUser(s, u, fk)
            PROVE  tokens'[t] = tokens[t]
        BY <3>1 DEF DeleteUser, Without, TypeOK
      <3>2. ASSUME NEW s \in SessionIds, NEW n \in UsesAsked, CreateToken(s, n)
            PROVE  tokens'[t] = tokens[t]
        BY <3>2 DEF CreateToken, TypeOK
      <3>3. ASSUME NEW s \in SessionIds, NEW v \in TokenIds, DeleteToken(s, v)
            PROVE  tokens'[t] = tokens[t]
        BY <3>3 DEF DeleteToken, TypeOK
      <3> QED
        BY <1>5, <2>2, <3>1, <3>2, <3>3, TokensUntouched
    <2>4. ~cut
      BY <1>5, <2>2 DEF Next, GuestStep, AuthenticatedRequest, SigninVerify, SignupCheck,
         CreateUser, NewSession, Cleanup, Read, Signout, DeleteSessionID,
         DeleteAllSessions, ChangePassword, PromoteUser, DeleteUser, CreateToken,
         DeleteToken, CreateOwner, Tick, vars, hist
    <2> QED
      BY <1>1, <2>1, <2>3, <2>4
  <1> QED
    BY <1>2, <1>3, <1>4, <1>5

\* A token that has run out is removed by the request that used it up, or that
\* request was cut short.
THEOREM ExhaustedArePurged == Spec => []ExhaustedTokensPurged
  <1>1. Init => ExhaustedTokensPurged
    BY DEF Init, ExhaustedTokensPurged
  <1> QED
    BY <1>1, InitType, NextType, NextPurged, PTL DEF Spec

-----------------------------------------------------------------------------
(* What a step may do to accounts and sessions *)

\* Guests leave the accounts that exist alone, and so do most requests.
LEMMA UsersUntouched ==
  ASSUME TypeOK, [Next]_vars, NEW u \in Names, users[u] # None,
         ~\E s \in SessionIds :
            \/ \E p \in Passwords : ChangePassword(s, p)
            \/ \E v \in Names, p \in AllPermissions : PromoteUser(s, v, p)
            \/ \E v \in Names, fk \in FkModes : DeleteUser(s, v, fk)
  PROVE  users'[u] = users[u]
  <1>1. ASSUME NEW g \in Guests, GuestStep(g) PROVE users'[u] = users[u]
    BY <1>1 DEF GuestStep, SigninVerify, SignupCheck, Decrement, Purge, CreateUser,
                NewSession, Cleanup, Abort, TypeOK
  <1>2. ASSUME NEW s \in SessionIds, AuthenticatedRequest(s) PROVE users'[u] = users[u]
    BY <1>2 DEF AuthenticatedRequest, Read, Signout, DeleteSessionID, DeleteAllSessions,
                CreateToken, DeleteToken, SignupAuthenticated, TypeOK
  <1>3. CASE (\E p \in Passwords : CreateOwner(p)) \/ Tick \/ UNCHANGED vars
    BY <1>3 DEF CreateOwner, Tick, vars, TypeOK
  <1> QED
    BY <1>1, <1>2, <1>3 DEF Next

LEMMA OverUserRanks ==
  ASSUME NEW s, NEW min, NEW u, OverUser(s, min, u), Actor(s) # u, users[u] # None,
         TypeOK, u \in Names, Actor(s) \in Names
  PROVE  permission(Actor(s)) > permission(u) /\ permission(Actor(s)) >= min
  <1>1. permission(u) \in Int /\ permission(u) >= 0 /\ permission(Actor(s)) \in Int
    BY DEF permission, TypeOK, UserRow, PermissionOwner, PermissionUser,
           PermissionAdministrator, NoPermission
  <1> QED
    BY <1>1 DEF OverUser, HasPermOverUser, TargetRank, Granted, ErrInvalidPermission,
                ErrActionNotPermitted, PermissionAdministrator

LEMMA RanksStep == TypeOK /\ [Next]_vars => RankStep
  <1> SUFFICES ASSUME TypeOK, [Next]_vars, NEW u \in Names, users[u] # None
               PROVE  /\ users'[u] # None /\ users'[u].perm # users[u].perm =>
                           \E s \in SessionIds :
                             /\ Authenticated(s)
                             /\ permission(Actor(s)) > permission(u)
                             /\ permission(Actor(s)) >= users'[u].perm
                      /\ users'[u] = None =>
                           /\ u # Owner
                           /\ \E s \in SessionIds :
                                /\ Authenticated(s)
                                /\ \/ Actor(s) = u
                                   \/ /\ permission(Actor(s)) > permission(u)
                                      /\ permission(Actor(s)) >= PermissionAdministrator
    BY DEF RankStep
  <1>1. ASSUME NEW s \in SessionIds, NEW p \in Passwords, ChangePassword(s, p)
        PROVE  users'[u] # None /\ users'[u].perm = users[u].perm
    <2>1. users[Actor(s)] \in UserRow
      BY <1>1, RenewedSession DEF ChangePassword, TypeOK
    <2>2. [pass |-> p, perm |-> users[Actor(s)].perm] # None
      BY <2>1, NoneAssumption DEF UserRow
    <2> QED
      BY <1>1, <2>2 DEF ChangePassword, TypeOK
  <1>2. ASSUME NEW s \in SessionIds, NEW v \in Names, NEW p \in AllPermissions,
               PromoteUser(s, v, p)
        PROVE  /\ users'[u] # None
               /\ users'[u].perm # users[u].perm =>
                    /\ Authenticated(s)
                    /\ permission(Actor(s)) > permission(u)
                    /\ permission(Actor(s)) >= users'[u].perm
    <2>1. Actor(s) \in Names
      BY <1>2, RenewedSession DEF PromoteUser
    <2>2. CASE v = u
      <3>1. users[u] \in UserRow
        BY DEF TypeOK
      <3>2. [pass |-> users[u].pass, perm |-> p] # None
        BY <1>2, <3>1, NoneAssumption DEF UserRow, PromoteUser
      <3>3. users'[u] = [pass |-> users[u].pass, perm |-> p]
        BY <1>2, <2>2 DEF PromoteUser, TypeOK
      <3> QED
        BY <1>2, <2>1, <2>2, <3>2, <3>3, OverUserRanks DEF PromoteUser
    <2>3. CASE v # u
      BY <1>2, <2>3 DEF PromoteUser, TypeOK
    <2> QED
      BY <2>2, <2>3
  <1>3. ASSUME NEW s \in SessionIds, NEW v \in Names, NEW fk \in FkModes,
               DeleteUser(s, v, fk)
        PROVE  /\ users'[u] # None => users'[u] = users[u]
               /\ users'[u] = None =>
                    /\ u # Owner /\ Authenticated(s)
                    /\ \/ Actor(s) = u
                       \/ /\ permission(Actor(s)) > permission(u)
                          /\ permission(Actor(s)) >= PermissionAdministrator
    <2>1. Actor(s) \in Names
      BY <1>3, RenewedSession DEF DeleteUser
    <2>2. CASE v = u
      BY <1>3, <2>1, <2>2, OverUserRanks DEF DeleteUser, SelfOrOverUser, TypeOK
    <2>3. CASE v # u
      BY <1>3, <2>3 DEF DeleteUser, TypeOK
    <2> QED
      BY <2>2, <2>3
  <1> QED
    BY <1>1, <1>2, <1>3, UsersUntouched

\* Ranks change, and accounts go, only under the authority of an account that
\* outranks them.
THEOREM RanksAuthorised == Spec => RankAuthority
  <1>1. TypeOK /\ [Next]_vars => [RankStep]_vars
    BY RanksStep
  <1> QED
    BY <1>1, TypeCorrect, PTL DEF Spec, RankAuthority

LEMMA PasswordsStep == TypeOK /\ [Next]_vars => PasswordStep
  <1> SUFFICES ASSUME TypeOK, [Next]_vars, NEW u \in Names, users[u] # None,
                      users'[u] # None, users'[u].pass # users[u].pass
               PROVE  \E s \in SessionIds :
                        Authenticated(s) /\ Actor(s) = u /\ sessions'[s] # None
    BY DEF PasswordStep
  <1>1. ASSUME NEW s \in SessionIds, NEW p \in Passwords, ChangePassword(s, p)
        PROVE  Authenticated(s) /\ Actor(s) = u /\ sessions'[s] # None
    BY <1>1, OnlySessionType, RenewedSession DEF ChangePassword, TypeOK
  <1>2. ASSUME NEW s \in SessionIds, NEW v \in Names, NEW p \in AllPermissions,
               PromoteUser(s, v, p)
        PROVE  FALSE
    BY <1>2 DEF PromoteUser, TypeOK
  <1>3. ASSUME NEW s \in SessionIds, NEW v \in Names, NEW fk \in FkModes,
               DeleteUser(s, v, fk)
        PROVE  FALSE
    BY <1>3 DEF DeleteUser, TypeOK
  <1> QED
    BY <1>1, <1>2, <1>3, UsersUntouched

\* A password changes only by a session of the account itself.
THEOREM PasswordsOwn == Spec => PasswordOnlyByOwnSession
  <1>1. TypeOK /\ [Next]_vars => [PasswordStep]_vars
    BY PasswordsStep
  <1> QED
    BY <1>1, TypeCorrect, PTL DEF Spec, PasswordOnlyByOwnSession

-----------------------------------------------------------------------------
(* What a step may do to a session *)

\* Snowflakes are not used twice: no session has an id still to come.
Allocated == \A i \in SessionIds : sessions[i] # None => i <= opened

\* The session i is gone, and why.
Ended(i) ==
  /\ sessions'[i] = None
  /\ sessions[i] # None =>
       \/ sessions[i].deadline < now
       \/ users'[sessions[i].user] = None
       \/ \E s \in SessionIds : Authenticated(s) /\ Actor(s) = sessions[i].user

\* querySession has renewed it.
Extended(i) ==
  /\ Authenticated(i)
  /\ now - RenewGap >= sessions[i].deadline - Lifespan
  /\ sessions'[i] = [user |-> Actor(i), deadline |-> now + Lifespan]

\* newSession has inserted it.
Inserted(i) == i = opened + 1 /\ opened' = opened + 1 /\ sessions'[i] # None

Changes(i) ==
  \/ sessions'[i] = sessions[i] /\ opened' \in {opened, opened + 1}
  \/ Ended(i) /\ opened' \in {opened, opened + 1}
  \/ Extended(i) /\ opened' \in {opened, opened + 1}
  \/ Inserted(i)

\* The first statement of a request leaves the sessions as they are, or extends
\* the one that it carries.
LEMMA RenewedRow ==
  ASSUME TypeOK, NEW s \in SessionIds, Authenticated(s), NEW i \in SessionIds
  PROVE  \/ Renewed(s)[i] = sessions[i]
         \/ /\ i = s /\ now - RenewGap >= sessions[i].deadline - Lifespan
            /\ Renewed(s)[i] = [user |-> Actor(i), deadline |-> now + Lifespan]
  <1>1. sessions[s] \in SessionRow
    BY RenewedSession
  <1> QED
    BY <1>1, AccountsAssumption DEF Renewed, TypeOK, SessionRow

LEMMA RenewedChanges ==
  ASSUME TypeOK, NEW s \in SessionIds, Authenticated(s), NEW i \in SessionIds,
         sessions'[i] = Renewed(s)[i], opened' \in {opened, opened + 1}
  PROVE  Changes(i)
  BY RenewedRow DEF Changes, Extended

LEMMA InsertChanges ==
  ASSUME TypeOK, NEW table \in SessionTable, NEW u \in Names, NEW p,
         InsertSession(table, u, p), NEW i \in SessionIds
  PROVE  Inserted(i) \/ (sessions'[i] = table[i] /\ opened' = opened + 1)
  <1>1. [user |-> u, deadline |-> now + Lifespan] \in SessionRow
    BY AccountsAssumption DEF TypeOK, SessionRow
  <1> QED
    BY <1>1, NoneAssumption DEF InsertSession, Inserted, SessionTable, SessionIds, TypeOK

LEMMA GuestChanges ==
  ASSUME TypeOK, NEW g \in Guests, GuestStep(g), NEW i \in SessionIds
  PROVE  Changes(i)
  <1>1. CASE NewSession(g)
    <2>1. req[g] \in Request
      BY <1>1 DEF NewSession, TypeOK
    <2> QED
      BY <1>1, <2>1, InsertChanges DEF NewSession, Changes, TypeOK, SessionTable, Request
  <1>2. CASE Cleanup(g)
    BY <1>2 DEF Cleanup, CleanedUp, Without, Expired, Changes, Ended, TypeOK
  <1>3. CASE UNCHANGED <<sessions, opened>>
    BY <1>3 DEF Changes
  <1> QED
    BY <1>1, <1>2, <1>3 DEF GuestStep, SigninVerify, SignupCheck, Decrement, Purge,
                            CreateUser, Abort

LEMMA RequestChanges ==
  ASSUME TypeOK, NEW s \in SessionIds, AuthenticatedRequest(s), NEW i \in SessionIds
  PROVE  Changes(i)
  <1>1. Authenticated(s) /\ opened' \in {opened, opened + 1}
    BY DEF AuthenticatedRequest, Read, Signout, DeleteSessionID, DeleteAllSessions,
           ChangePassword, PromoteUser, DeleteUser, CreateToken, DeleteToken,
           SignupAuthenticated, InsertSession
  <1>2. Renewed(s) \in SessionTable /\ sessions[s] # None
    BY <1>1, RenewedSession DEF Authenticated
  <1>3. CASE sessions'[i] = Renewed(s)[i]
    BY <1>1, <1>3, RenewedChanges
  <1>4. CASE Signout(s) \/ \E id \in SessionIds : DeleteSessionID(s, id)
    <2>1. CASE Signout(s)
      BY <1>1, <2>1 DEF Signout, Changes, Ended, Actor, TypeOK
    <2>2. ASSUME NEW id \in SessionIds, DeleteSessionID(s, id) PROVE Changes(i)
      <3>1. CASE i = id
        BY <1>1, <1>2, <2>2, <3>1 DEF DeleteSessionID, Changes, Ended, SessionTable
      <3>2. CASE i # id
        BY <1>2, <1>3, <2>2, <3>2 DEF DeleteSessionID, SessionTable
      <3> QED
        BY <3>1, <3>2
    <2> QED
      BY <1>4, <2>1, <2>2
  <1>5. CASE sessions' = OnlySession(s)
    <2>1. CASE i \in SessionsOf(Actor(s)) \ {s}
      BY <1>1, <1>2, <1>5, <2>1 DEF OnlySession, Without, SessionsOf, Changes, Ended,
                                    SessionTable
    <2>2. CASE i \notin SessionsOf(Actor(s)) \ {s}
      BY <1>2, <1>3, <1>5, <2>2 DEF OnlySession, Without, SessionTable
    <2> QED
      BY <2>1, <2>2
  <1>6. ASSUME NEW u \in Names, NEW fk \in FkModes, DeleteUser(s, u, fk)
        PROVE  Changes(i)
    <2>1. CASE sessions' = Without(Renewed(s), SessionsOf(u))
      <3>1. CASE i \in SessionsOf(u)
        BY <1>1, <1>2, <1>6, <2>1, <3>1 DEF DeleteUser, Without, SessionsOf, Changes,
                                            Ended, SessionTable, TypeOK
      <3>2. CASE i \notin SessionsOf(u)
        BY <1>2, <1>3, <2>1, <3>2 DEF Without, SessionTable
      <3> QED
        BY <3>1, <3>2
    <2>2. CASE sessions' = Renewed(s)
      BY <1>3, <2>2
    <2> QED
      BY <1>6, <2>1, <2>2 DEF DeleteUser
  <1>7. ASSUME NEW u \in Names, NEW p \in Passwords, NEW t \in TokenIds,
               SignupAuthenticated(s, u, p, t)
        PROVE  Changes(i)
    <2>1. /\ CleanedUp(Renewed(s)) \in SessionTable
          /\ InsertSession(CleanedUp(Renewed(s)), u, p)
      BY <1>2, <1>7, WithoutSessions DEF CleanedUp, SignupAuthenticated
    <2>2. CASE Inserted(i)
      BY <2>2 DEF Changes
    <2>3. CASE sessions'[i] = CleanedUp(Renewed(s))[i]
      <3>1. CASE i \notin Expired(Renewed(s))
        BY <1>2, <1>3, <2>3, <3>1 DEF CleanedUp, Without, SessionTable
      <3>2. CASE i \in Expired(Renewed(s))
        <4>1. sessions'[i] = None
          BY <1>2, <2>3, <3>2 DEF CleanedUp, Without, SessionTable
        <4>2. Renewed(s)[i] # None /\ Renewed(s)[i].deadline < now
          BY <3>2 DEF Expired
        <4>3. Renewed(s)[i] = sessions[i]
          <5>1. now \in Nat /\ Lifespan \in Nat
            BY AccountsAssumption DEF TypeOK
          <5>2. Renewed(s)[i] # [user |-> Actor(i), deadline |-> now + Lifespan]
            BY <4>2, <5>1
          <5> QED
            BY <1>1, <5>2, RenewedRow
        <4> QED
          BY <1>1, <4>1, <4>2, <4>3 DEF Changes, Ended
      <3> QED
        BY <3>1, <3>2
    <2> QED
      BY <2>1, <2>2, <2>3, InsertChanges
  <1> QED
    BY <1>3, <1>4, <1>5, <1>6, <1>7 DEF AuthenticatedRequest, Read, DeleteAllSessions,
       ChangePassword, PromoteUser, CreateToken, DeleteToken

LEMMA NextChanges ==
  ASSUME TypeOK, [Next]_vars, NEW i \in SessionIds
  PROVE  Changes(i)
  <1>1. CASE (\E p \in Passwords : CreateOwner(p)) \/ Tick \/ UNCHANGED vars
    BY <1>1 DEF CreateOwner, Tick, vars, Changes
  <1> QED
    BY <1>1, GuestChanges, RequestChanges DEF Next

LEMMA NextAllocated == TypeOK /\ Allocated /\ [Next]_vars => Allocated'
  <1> SUFFICES ASSUME TypeOK, Allocated, [Next]_vars, NEW i \in SessionIds,
                      sessions'[i] # None
               PROVE  i <= opened'
    BY DEF Allocated
  <1>1. opened \in Nat
    BY AccountsAssumption DEF TypeOK
  <1>2. CASE Extended(i)
    BY <1>1, <1>2, NextChanges DEF Changes, Extended, Authenticated, Allocated, Ended,
                                   Inserted, SessionIds
  <1> QED
    BY <1>1, <1>2, NextChanges DEF Changes, Ended, Inserted, Allocated, SessionIds

LEMMA InitAllocated == Init => Allocated
  BY DEF Init, Allocated

LEMMA Renewals == TypeOK /\ Allocated /\ [Next]_vars => RenewalStep
  <1> SUFFICES ASSUME TypeOK, Allocated, [Next]_vars, NEW i \in SessionIds,
                      sessions[i] # None, sessions'[i] # None,
                      sessions'[i] # sessions[i]
               PROVE  /\ now <= sessions[i].deadline
                      /\ sessions'[i].deadline >= sessions[i].deadline + RenewGap
                      /\ sessions'[i].deadline <= now + Lifespan
                      /\ sessions'[i].user = sessions[i].user
    BY DEF RenewalStep
  <1>1. sessions[i].deadline \in Nat /\ opened \in Nat
    BY AccountsAssumption DEF TypeOK, SessionRow
  <1>2. ~Inserted(i)
    BY <1>1 DEF Inserted, Allocated, SessionIds
  <1>3. Extended(i)
    BY <1>2, NextChanges DEF Changes, Ended
  <1> QED
    BY <1>1, <1>3, AccountsAssumption DEF Extended, Authenticated, Actor, TypeOK

\* An expired session is never brought back, and a session that was renewed is
\* left alone for the renewal gap.
THEOREM RenewalsDisciplined == Spec => RenewalDiscipline
  <1>1. TypeOK /\ Allocated /\ [Next]_vars => [RenewalStep]_vars
    BY Renewals
  <1> QED
    BY <1>1, InitType, NextType, InitAllocated, NextAllocated, PTL
       DEF Spec, RenewalDiscipline

-----------------------------------------------------------------------------
(* Sessions after a password change *)

\* What a session was opened with is recorded once and for all.
LEMMA OpeningRecorded ==
  ASSUME TypeOK, [Next]_vars, NEW i \in SessionIds, i # opened + 1
  PROVE  openedWith'[i] = openedWith[i] /\ raced'[i] = raced[i]
  <1>1. ASSUME NEW g \in Guests, GuestStep(g)
        PROVE  openedWith'[i] = openedWith[i] /\ raced'[i] = raced[i]
    BY <1>1 DEF GuestStep, SigninVerify, SignupCheck, Decrement, Purge, CreateUser,
                NewSession, Cleanup, Abort, InsertSession, hist, TypeOK
  <1>2. ASSUME NEW s \in SessionIds, AuthenticatedRequest(s)
        PROVE  openedWith'[i] = openedWith[i] /\ raced'[i] = raced[i]
    BY <1>2 DEF AuthenticatedRequest, Read, Signout, DeleteSessionID, DeleteAllSessions,
                ChangePassword, PromoteUser, DeleteUser, CreateToken, DeleteToken,
                SignupAuthenticated, InsertSession, hist, TypeOK
  <1>3. CASE (\E p \in Passwords : CreateOwner(p)) \/ Tick \/ UNCHANGED vars
    BY <1>3 DEF CreateOwner, Tick, vars, hist
  <1> QED
    BY <1>1, <1>2, <1>3 DEF Next

\* The password of an account stays, and so does the session that set it, unless
\* the account changes it.
LEMMA PasswordKept ==
  ASSUME TypeOK, [Next]_vars, NEW u \in Names, users[u] # None, users'[u] # None,
         ~\E s \in SessionIds, p \in Passwords : ChangePassword(s, p) /\ Actor(s) = u
  PROVE  users'[u].pass = users[u].pass /\ keeper'[u] = keeper[u]
  <1>1. ASSUME NEW g \in Guests, GuestStep(g)
        PROVE  users'[u] = users[u] /\ keeper'[u] = keeper[u]
    BY <1>1 DEF GuestStep, SigninVerify, SignupCheck, Decrement, Purge, CreateUser,
                NewSession, Cleanup, Abort, Created, hist, TypeOK
  <1>2. ASSUME NEW s \in SessionIds, AuthenticatedRequest(s)
        PROVE  users'[u].pass = users[u].pass /\ keeper'[u] = keeper[u]
    <2>1. ASSUME NEW p \in Passwords, ChangePassword(s, p)
          PROVE  users'[u].pass = users[u].pass /\ keeper'[u] = keeper[u]
      BY <2>1 DEF ChangePassword, TypeOK
    <2>2. ASSUME NEW v \in Names, NEW p \in AllPermissions, PromoteUser(s, v, p)
          PROVE  users'[u].pass = users[u].pass /\ keeper'[u] = keeper[u]
      BY <2>2 DEF PromoteUser, TypeOK, hist
    <2>3. ASSUME NEW v \in Names, NEW fk \in FkModes, DeleteUser(s, v, fk)
          PROVE  users'[u].pass = users[u].pass /\ keeper'[u] = keeper[u]
      BY <2>3 DEF DeleteUser, TypeOK, hist
    <2>4. ASSUME NEW v \in Names, NEW p \in Passwords, NEW t \in TokenIds,
                 SignupAuthenticated(s, v, p, t)
          PROVE  users'[u].pass = users[u].pass /\ keeper'[u] = keeper[u]
      BY <2>4 DEF SignupAuthenticated, Created, TypeOK
    <2> QED
      BY <1>2, <2>1, <2>2, <2>3, <2>4 DEF AuthenticatedRequest, Read, Signout,
         DeleteSessionID, DeleteAllSessions, CreateToken, DeleteToken, hist
  <1>3. CASE (\E p \in Passwords : CreateOwner(p)) \/ Tick \/ UNCHANGED vars
    BY <1>3 DEF CreateOwner, Created, Tick, vars, hist, TypeOK
  <1> QED
    BY <1>1, <1>2, <1>3 DEF Next

\* A new session is opened with the password of its account, or the password
\* changed between its verification and its insertion.
LEMMA NewSessionRecorded ==
  ASSUME TypeOK, [Next]_vars, NEW i \in SessionIds, Inserted(i)
  PROVE  openedWith'[i] = users'[sessions'[i].user].pass \/ raced'[i]
  <1>1. opened' # opened
    BY AccountsAssumption DEF Inserted, TypeOK
  <1>2. ASSUME NEW g \in Guests, NewSession(g)
        PROVE  openedWith'[i] = users'[sessions'[i].user].pass \/ raced'[i]
    <2>1. req[g] \in Request /\ opened + 1 \in SessionIds /\ i = opened + 1
      BY <1>2 DEF NewSession, Inserted, TypeOK
    <2>2. /\ users' = users
          /\ InsertSession(sessions, req[g].user, req[g].pass)
          /\ raced' = [raced EXCEPT ![opened + 1] = users[req[g].user] = None
                                             \/ users[req[g].user].pass # req[g].pass]
      BY <1>1, <1>2 DEF NewSession
    <2>3. sessions'[i].user = req[g].user /\ openedWith'[i] = req[g].pass
      BY <2>1, <2>2 DEF InsertSession, TypeOK
    <2> QED
      BY <2>1, <2>2, <2>3 DEF TypeOK
  <1>3. ASSUME NEW s \in SessionIds, NEW u \in Names, NEW p \in Passwords,
               NEW t \in TokenIds, SignupAuthenticated(s, u, p, t)
        PROVE  openedWith'[i] = users'[sessions'[i].user].pass
    <2>1. Authenticated(s)
      BY <1>3 DEF SignupAuthenticated
    <2>2. CleanedUp(Renewed(s)) \in SessionTable
      BY <2>1, RenewedSession, WithoutSessions DEF CleanedUp
    <2>3. sessions'[i].user = u /\ openedWith'[i] = p
      BY <1>3, <2>2 DEF SignupAuthenticated, InsertSession, Inserted, SessionTable, TypeOK
    <2>4. users'[u].pass = p
      BY <1>3 DEF SignupAuthenticated, NewUser, TypeOK
    <2> QED
      BY <2>3, <2>4
  <1> QED
    BY <1>1, <1>2, <1>3 DEF Next, GuestStep, AuthenticatedRequest, SigninVerify,
       SignupCheck, Decrement, Purge, CreateUser, Cleanup, Abort, Read, Signout,
       DeleteSessionID, DeleteAllSessions, ChangePassword, PromoteUser, DeleteUser,
       CreateToken, DeleteToken, CreateOwner, Tick, vars

\* An account keeps the time at which it was created.
LEMMA SinceKept ==
  ASSUME TypeOK, [Next]_vars, NEW u \in Names, users[u] # None
  PROVE  since'[u] = since[u]
  <1>1. ASSUME NEW g \in Guests, GuestStep(g) PROVE since'[u] = since[u]
    BY <1>1 DEF GuestStep, SigninVerify, SignupCheck, Decrement, Purge, CreateUser,
                NewSession, Cleanup, Abort, Created, hist, TypeOK
  <1>2. ASSUME NEW s \in SessionIds, AuthenticatedRequest(s) PROVE since'[u] = since[u]
    BY <1>2 DEF AuthenticatedRequest, Read, Signout, DeleteSessionID, DeleteAllSessions,
                ChangePassword, PromoteUser, DeleteUser, CreateToken, DeleteToken,
                SignupAuthenticated, Created, hist, TypeOK
  <1>3. CASE (\E p \in Passwords : CreateOwner(p)) \/ Tick \/ UNCHANGED vars
    BY <1>3 DEF CreateOwner, Tick, Created, vars, hist, TypeOK
  <1> QED
    BY <1>1, <1>2, <1>3 DEF Next

\* An account that is created has no sessions yet but for those that come after.
LEMMA SinceCreated ==
  ASSUME TypeOK, [Next]_vars, NEW u \in Names, users[u] = None, users'[u] # None
  PROVE  since'[u] = opened
  <1>1. ASSUME NEW g \in Guests, GuestStep(g) PROVE since'[u] = opened
    BY <1>1 DEF GuestStep, SigninVerify, SignupCheck, Decrement, Purge, CreateUser,
                NewSession, Cleanup, Abort, Created, TypeOK
  <1>2. ASSUME NEW s \in SessionIds, AuthenticatedRequest(s) PROVE since'[u] = opened
    BY <1>2 DEF AuthenticatedRequest, Read, Signout, DeleteSessionID, DeleteAllSessions,
                ChangePassword, PromoteUser, DeleteUser, CreateToken, DeleteToken,
                SignupAuthenticated, Created, TypeOK
  <1>3. CASE (\E p \in Passwords : CreateOwner(p)) \/ Tick \/ UNCHANGED vars
    BY <1>3 DEF CreateOwner, Tick, Created, vars, TypeOK
  <1> QED
    BY <1>1, <1>2, <1>3 DEF Next

LEMMA NextEvicts ==
  TypeOK /\ Allocated /\ PasswordChangeEvicts /\ [Next]_vars => PasswordChangeEvicts'
  <1> SUFFICES ASSUME TypeOK, Allocated, PasswordChangeEvicts,
                      [Next]_vars, NEW i \in SessionIds, sessions'[i] # None,
                      users'[sessions'[i].user] # None,
                      i > since'[sessions'[i].user]
               PROVE  \/ openedWith'[i] = users'[sessions'[i].user].pass
                      \/ keeper'[sessions'[i].user] = i
                      \/ raced'[i]
    BY DEF PasswordChangeEvicts
  <1>1. CASE Inserted(i)
    BY <1>1, NewSessionRecorded
  <1>2. CASE ~Inserted(i)
    <2> DEFINE u == sessions[i].user
    <2>1. sessions[i] # None /\ sessions'[i].user = u
      <3>1. CASE Extended(i)
        BY <3>1 DEF Extended, Authenticated, Actor
      <3>2. CASE sessions'[i] = sessions[i]
        BY <3>2
      <3> QED
        BY <1>2, <3>1, <3>2, NextChanges DEF Changes, Ended
    <2>2. u \in Names /\ i <= opened /\ i # opened + 1 /\ opened \in Nat
      BY <2>1, AccountsAssumption DEF TypeOK, SessionRow, Allocated, SessionIds
    <2>3. users[u] # None
      <3> SUFFICES ASSUME users[u] = None PROVE FALSE
        OBVIOUS
      <3>1. since'[u] = opened
        BY <2>1, <2>2, SinceCreated
      <3> QED
        BY <2>1, <2>2, <3>1 DEF SessionIds
    <2>4. openedWith'[i] = openedWith[i] /\ raced'[i] = raced[i] /\ since'[u] = since[u]
      BY <2>2, <2>3, OpeningRecorded, SinceKept
    <2>5. openedWith[i] = users[u].pass \/ keeper[u] = i \/ raced[i]
      BY <2>1, <2>3, <2>4 DEF PasswordChangeEvicts
    <2>6. ASSUME NEW s \in SessionIds, NEW p \in Passwords, ChangePassword(s, p),
                 Actor(s) = u
          PROVE  keeper'[u] = i
      <3>1. i = s
        <4>1. Renewed(s) \in SessionTable
          BY <2>6, RenewedSession DEF ChangePassword
        <4> QED
          BY <2>1, <2>6, <4>1 DEF ChangePassword, OnlySession, Without, SessionsOf,
                                  SessionTable
      <3> QED
        BY <2>2, <2>6, <3>1 DEF ChangePassword, TypeOK
    <2>7. CASE ~\E s \in SessionIds, p \in Passwords : ChangePassword(s, p) /\ Actor(s) = u
      <3>1. users'[u].pass = users[u].pass /\ keeper'[u] = keeper[u]
        BY <2>1, <2>2, <2>3, <2>7, PasswordKept
      <3> QED
        BY <2>1, <2>4, <2>5, <3>1
    <2> QED
      BY <2>1, <2>6, <2>7
  <1> QED
    BY <1>1, <1>2

\* A password change closes the sessions of the account that were opened with the old
\* password, but for the one that makes it and those whose Signin had verified the old
\* password already; whether the connections enforce foreign keys or not.
THEOREM EvictionHolds == Spec => []PasswordChangeEvicts
  <1>1. Init => PasswordChangeEvicts
    BY DEF Init, PasswordChangeEvicts
  <1> QED
    BY <1>1, InitType, NextType, InitAllocated, NextAllocated, NextEvicts, PTL DEF Spec
=============================================================================
