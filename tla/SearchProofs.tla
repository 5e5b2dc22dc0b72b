---------------------------- MODULE SearchProofs ----------------------------
(***************************************************************************)
(* Proofs about Search, for any number of users, posts, tags and changes:   *)
(* what a query finds, how it is cut into pages, what a reader of the pages *)
(* can miss, and that the frontend offers what the server grants.           *)
(***************************************************************************)
EXTENDS Search, FiniteSetTheorems, TLAPS

-----------------------------------------------------------------------------
(* The inductive invariant *)

\* Accounts have ranks below the owner's, and that of the owner never changes.
RanksOK ==
  /\ accounts \in [Names -> (PermissionUser .. PermissionAdministrator) \cup {None}]
  /\ accounts[Owner] = PermissionUser

LEMMA PermissionOf ==
  ASSUME RanksOK, NEW u \in Names
  PROVE  /\ Permission(u) = permission(u)
         /\ u = Owner => permission(u) = 4
         /\ u # Owner /\ accounts[u] # None => permission(u) = accounts[u]
         /\ accounts[u] # None => accounts[u] \in 1 .. 3
         /\ u # Owner /\ accounts[u] = None => permission(u) = -1
  BY SearchAssumption DEF Permission, permission, RanksOK, PermissionOwner, NoPermission,
     PermissionUser, PermissionAdministrator

\* What is offered up to a rank is what is offered at it, since more is harder.
LEMMA SetPerms ==
  ASSUME NEW u, NEW i, Permission(u) \in Int, Permission(u) # NoPermission,
         posts[i].poster # None
  PROVE  AllowedSetPerms(u, i) = {p \in AllPermissions : CanSetPermission(u, i, p)}
  <1>1. \A p \in AllPermissions : CanSetPermission(u, i, p) <=> ShowsPermission(u, i, p)
    BY DEF CanSetPermission, ShowsPermission, OverUser, PosterName
  <1>2. \A p, q \in AllPermissions : q <= p /\ ShowsPermission(u, i, p) => ShowsPermission(u, i, q)
    BY DEF ShowsPermission, HasPermOverUser, AllPermissions, PermissionGuest, PermissionOwner,
       Granted, ErrActionNotPermitted, ErrInvalidPermission
  <1>3. \A p \in AllPermissions : p <= p
    BY DEF AllPermissions, PermissionGuest, PermissionOwner
  <1> QED
    BY <1>1, <1>2, <1>3 DEF AllowedSetPerms, UpTo

LEMMA UploadPerms ==
  ASSUME NEW u, NEW i, Permission(u) \in Int, Permission(u) # NoPermission,
         Permission(u) # PermissionGuest, posts[i].poster = u, u # None
  PROVE  AllowedPermissions(u) = AllowedSetPerms(u, i)
  <1>1. \A p \in AllPermissions : ShowsPermission(u, i, p) <=> p <= Permission(u)
    BY DEF ShowsPermission, PosterName, HasPermOverUser, AllPermissions, PermissionGuest,
       PermissionOwner, Granted, ErrActionNotPermitted, ErrInvalidPermission
  <1> QED
    BY <1>1 DEF AllowedPermissions, AllowedSetPerms, UpTo

LEMMA Promotes ==
  ASSUME NEW u, NEW v, Permission(u) \in Int, Permission(u) # NoPermission,
         permission(v) \in 1 .. 4
  PROVE  AllowedPromotes(u, v) = {p \in AllPermissions : CanPromote(u, v, p)}
  <1> DEFINE ranks == PermissionUser .. PermissionAdministrator
             grants(p) == HasPermOverUser(Permission(u), p, permission(v), FALSE) = Granted
  <1>1. ranks \subseteq AllPermissions
    BY DEF AllPermissions, PermissionUser, PermissionAdministrator, PermissionGuest, PermissionOwner
  <1>2. \A p \in ranks : CanPromote(u, v, p) <=> u # v /\ grants(p)
    BY DEF CanPromote, OverUser
  <1>3. \A p \in AllPermissions : CanPromote(u, v, p) => p \in ranks
    BY DEF CanPromote
  <1>4. \A p \in ranks : grants(p) => ~ (Permission(u) < permission(v))
    BY DEF HasPermOverUser, TargetRank, Granted, ErrActionNotPermitted, ErrInvalidPermission
  <1>5. \A p, q \in ranks : q <= p /\ grants(p) => grants(q)
    BY <1>1 DEF HasPermOverUser, Granted, ErrActionNotPermitted, ErrInvalidPermission,
       PermissionUser, PermissionAdministrator
  <1>6. \A p \in ranks : p <= p
    BY DEF PermissionUser, PermissionAdministrator
  <1>7. CASE Permission(u) < permission(v) \/ u = v
    BY <1>1, <1>2, <1>3, <1>4, <1>7 DEF AllowedPromotes
  <1>8. CASE ~ (Permission(u) < permission(v) \/ u = v)
    <2>1. AllowedPromotes(u, v) = {p \in ranks : \A q \in ranks : q <= p => grants(q)}
      BY <1>8 DEF AllowedPromotes, UpTo
    <2> HIDE DEF grants, ranks
    <2> QED
      BY <1>1, <1>2, <1>3, <1>5, <1>6, <1>8, <2>1
  <1> QED
    BY <1>7, <1>8

\* Whoever lists users outranks those on the list, but for the owner.
LEMMA Outranked ==
  ASSUME RanksOK, NEW u \in Names, accounts[u] # None, NEW v \in SearchUsers(u), v # Owner
  PROVE  1 \in AllowedPromotes(u, v)
  <1>1. v \in Names /\ accounts[v] # None
    BY DEF SearchUsers
  <1>2. permission(v) = accounts[v] /\ accounts[v] \in 1 .. 3
    BY <1>1, PermissionOf
  <1>3. Permission(u) \in 3 .. 4 /\ (Permission(u) = 4 <=> u = Owner)
    <2>1. HasPermission(Permission(u), PermissionAdministrator, TRUE) = Granted
      BY DEF SearchUsers
    <2> QED
      BY <2>1, PermissionOf DEF HasPermission, AllPermissions, PermissionGuest,
         PermissionAdministrator, PermissionOwner, Granted, ErrActionNotPermitted
  <1>4. accounts[v] < Permission(u) /\ u # v
    <2>1. CASE u = Owner
      BY <1>2, <1>3, <2>1
    <2>2. CASE u # Owner
      <3>1. accounts[v] < Permission(u)
        BY <1>3, <2>2 DEF SearchUsers, PermissionOwner
      <3> QED
        BY <1>2, <2>2, <3>1, PermissionOf
    <2> QED
      BY <2>1, <2>2
  <1> DEFINE ranks == PermissionUser .. PermissionAdministrator
             grants(p) == HasPermOverUser(Permission(u), p, permission(v), FALSE) = Granted
  <1>5. AllowedPromotes(u, v) = {p \in ranks : \A q \in ranks : q <= p => grants(q)}
    <2>1. ~ (Permission(u) < permission(v) \/ u = v)
      BY <1>2, <1>3, <1>4
    <2> QED
      BY <2>1 DEF AllowedPromotes, UpTo
  <1>6. grants(1)
    <2>1. Permission(u) >= 1 /\ TargetRank(permission(v)) < Permission(u)
      BY <1>2, <1>3, <1>4 DEF TargetRank
    <2> QED
      BY <2>1 DEF HasPermOverUser, AllPermissions, PermissionGuest, PermissionOwner
  <1>7. 1 \in ranks /\ \A q \in ranks : q <= 1 => q = 1
    BY DEF PermissionUser, PermissionAdministrator
  <1> HIDE DEF ranks, grants
  <1> QED
    BY <1>5, <1>6, <1>7

LEMMA Offered == RanksOK => ButtonsWork
  <1> SUFFICES ASSUME RanksOK, NEW u \in Names, accounts[u] # None
               PROVE  /\ \A i \in PostIds : Visible(u, i) /\ posts[i].poster # None =>
                           /\ AllowedSetPerms(u, i) =
                                {p \in AllPermissions : CanSetPermission(u, i, p)}
                           /\ posts[i].poster = u => AllowedPermissions(u) = AllowedSetPerms(u, i)
                      /\ \A v \in SearchUsers(u) :
                           /\ AllowedPromotes(u, v) = {p \in AllPermissions : CanPromote(u, v, p)}
                           /\ v # Owner => AllowedPromotes(u, v) # {}
    BY DEF ButtonsWork
  <1>1. /\ Permission(u) \in Int /\ Permission(u) # NoPermission
        /\ Permission(u) # PermissionGuest
    BY PermissionOf DEF NoPermission, PermissionGuest
  <1>2. u # None
    BY SearchAssumption
  <1>3. \A v \in SearchUsers(u) : v \in Names /\ accounts[v] # None
    BY DEF SearchUsers
  <1>4. \A v \in SearchUsers(u) : permission(v) \in 1 .. 4
    BY <1>3, PermissionOf
  <1>5. \A v \in SearchUsers(u) : v # Owner => AllowedPromotes(u, v) # {}
    BY Outranked
  <1> QED
    BY <1>1, <1>2, <1>4, <1>5, SetPerms, UploadPerms, Promotes

-----------------------------------------------------------------------------
(* Nobody promotes the owner *)

LEMMA InitRanks == Init => RanksOK
  BY SearchAssumption DEF Init, RanksOK, PermissionUser, PermissionAdministrator

LEMMA NextRanks == RanksOK /\ [Next]_vars => RanksOK'
  <1> SUFFICES ASSUME RanksOK, [Next]_vars PROVE RanksOK'
    OBVIOUS
  <1>1. CASE UNCHANGED accounts
    BY <1>1 DEF RanksOK
  <1>2. CASE UNCHANGED vars \/ Read \/ \E u \in Viewers, q \in Walks : StartWalk(u, q)
    BY <1>1, <1>2 DEF Read, RequestFails, ListPosts, GuestFindsUser, GuestQueries, GuestCounts,
       Fails, Show, StartWalk, vars, board
  <1>3. ASSUME NEW u \in Viewers, NEW i \in PostIds, NEW t \in Tags,
               TagPost(u, i, t) \/ UntagPost(u, i, t)
        PROVE  RanksOK'
    BY <1>1, <1>3 DEF TagPost, UntagPost
  <1>4. ASSUME NEW u \in Viewers, NEW i \in PostIds, DeletePost(u, i)
        PROVE  RanksOK'
    BY <1>1, <1>4 DEF DeletePost
  <1>5. ASSUME NEW u \in Names, NEW i \in PostIds, NEW p \in PermsAsked,
               SavePost(u, i, p) \/ SetPostPermission(u, i, p)
        PROVE  RanksOK'
    BY <1>1, <1>5 DEF SavePost, SetPostPermission
  <1>6. ASSUME NEW u \in Names, NEW v \in Names, DeleteUser(u, v)
        PROVE  RanksOK'
    BY <1>6 DEF DeleteUser, RanksOK
  <1>7. ASSUME NEW u \in Names, NEW v \in Names, NEW p \in RanksGiven, PromoteUser(u, v, p)
        PROVE  RanksOK'
    <2>1. p \in PermissionUser .. PermissionAdministrator /\ OverUser(u, p, v) /\ u # v
      BY <1>7 DEF PromoteUser, CanPromote
    <2>2. v # Owner
      BY <2>1, PermissionOf DEF OverUser, HasPermOverUser, TargetRank, Granted,
         ErrActionNotPermitted, ErrInvalidPermission
    <2> QED
      BY <1>7, <2>1, <2>2 DEF PromoteUser, RanksOK
  <1> QED
    BY <1>2, <1>3, <1>4, <1>5, <1>6, <1>7 DEF Next, Others

-----------------------------------------------------------------------------
(* Posts in the order of a search *)

\* The place of a post among those found, newest first, and the first places.
Rank(S, x)   == Cardinality({y \in S : y >= x})
Newest(S, n) == {x \in S : Rank(S, x) <= n}

LEMMA PostsAreFinite ==
  ASSUME NEW S \in SUBSET PostIds
  PROVE  /\ IsFiniteSet(S) /\ S \subseteq Int
         /\ Cardinality(S) \in Nat /\ Cardinality(S) <= MaxPosts
  <1>1. MaxPosts \in Nat
    BY SearchAssumption
  <1>2. IsFiniteSet(PostIds) /\ Cardinality(PostIds) = MaxPosts
    BY <1>1, FS_Interval DEF PostIds
  <1>3. IsFiniteSet(S) /\ Cardinality(S) <= MaxPosts
    BY <1>2, FS_Subset
  <1> QED
    BY <1>3, FS_CardinalityType DEF PostIds

LEMMA RankBounds ==
  ASSUME NEW S \in SUBSET PostIds, NEW x \in S
  PROVE  Rank(S, x) \in 1 .. Cardinality(S)
  <1> DEFINE T == {y \in S : y >= x}
  <1>1. T \in SUBSET PostIds /\ T \in SUBSET S /\ x \in T
    BY PostsAreFinite
  <1>2. Cardinality(T) \in Nat /\ Cardinality(T) <= Cardinality(S)
    BY <1>1, PostsAreFinite, FS_Subset
  <1>3. Cardinality(T) # 0
    BY <1>1, PostsAreFinite, FS_EmptySet
  <1> QED
    BY <1>2, <1>3, PostsAreFinite DEF Rank

LEMMA RankDescends ==
  ASSUME NEW S \in SUBSET PostIds, NEW x \in S, NEW y \in S, x > y
  PROVE  Rank(S, x) < Rank(S, y)
  <1> DEFINE T == {z \in S : z >= x}
             U == {z \in S : z >= y}
  <1>1. T \in SUBSET U /\ y \in U /\ y \notin T /\ T \in SUBSET PostIds /\ U \in SUBSET PostIds
    BY PostsAreFinite
  <1>2. Cardinality(T) <= Cardinality(U) /\ Cardinality(U) # Cardinality(T)
    BY <1>1, PostsAreFinite, FS_Subset
  <1>3. Cardinality(T) \in Nat /\ Cardinality(U) \in Nat
    BY <1>1, PostsAreFinite
  <1> QED
    BY <1>2, <1>3 DEF Rank

\* Every place is taken, and by one post.
LEMMA RankTaken ==
  ASSUME NEW S \in SUBSET PostIds
  PROVE  /\ \A x, y \in S : Rank(S, x) = Rank(S, y) => x = y
         /\ \A n \in 1 .. Cardinality(S) : \E x \in S : Rank(S, x) = n
  <1> DEFINE k == Cardinality(S)
             f == [x \in S |-> Rank(S, x)]
  <1>1. k \in Nat /\ IsFiniteSet(1 .. k) /\ Cardinality(1 .. k) = k
    BY PostsAreFinite, FS_Interval
  <1>2. \A x, y \in S : Rank(S, x) = Rank(S, y) => x = y
    <2> SUFFICES ASSUME NEW x \in S, NEW y \in S, x # y
                 PROVE  Rank(S, x) # Rank(S, y)
      OBVIOUS
    <2>1. x > y \/ y > x
      BY PostsAreFinite
    <2>2. Rank(S, x) \in Int /\ Rank(S, y) \in Int
      BY RankBounds
    <2> QED
      BY <2>1, <2>2, RankDescends
  <1>3. f \in [S -> 1 .. k]
    BY RankBounds
  <1>4. f \in Injection(S, 1 .. k)
    BY <1>2, <1>3 DEF Injection, IsInjective
  <1>5. f \in Surjection(S, 1 .. k)
    BY <1>1, <1>4, FS_Injection
  <1>6. \A n \in 1 .. k : \E x \in S : f[x] = n
    BY <1>5 DEF Surjection
  <1> QED
    BY <1>2, <1>6

\* A search has an order, and the n-th post of it has n - 1 newer ones.
LEMMA OrderedPosts ==
  ASSUME NEW S \in SUBSET PostIds
  PROVE  /\ Ordered(S) \in [1 .. Cardinality(S) -> S]
         /\ \A m, n \in 1 .. Cardinality(S) : m < n => Ordered(S)[m] > Ordered(S)[n]
         /\ \A n \in 1 .. Cardinality(S) : Rank(S, Ordered(S)[n]) = n
         /\ \A x \in S : Ordered(S)[Rank(S, x)] = x
  <1> DEFINE k == Cardinality(S)
             Descends(s) == \A m, n \in DOMAIN s : m < n => s[m] > s[n]
             o == Ordered(S)
  <1>0. k \in Nat
    BY PostsAreFinite
  <1>1. \E s \in SetToSeqs(S) : Descends(s)
    <2> DEFINE s == [n \in 1 .. k |-> CHOOSE x \in S : Rank(S, x) = n]
    <2>1. \A n \in 1 .. k : s[n] \in S /\ Rank(S, s[n]) = n
      BY RankTaken
    <2>2. s \in [1 .. k -> S]
      BY <2>1
    <2> HIDE DEF s
    <2>3. \A m, n \in 1 .. k : m < n => s[m] > s[n]
      <3> SUFFICES ASSUME NEW m \in 1 .. k, NEW n \in 1 .. k, m < n, ~ (s[m] > s[n])
                   PROVE  FALSE
        OBVIOUS
      <3>1. s[m] \in S /\ s[n] \in S /\ Rank(S, s[m]) = m /\ Rank(S, s[n]) = n
        BY <2>1
      <3>2. s[m] = s[n] \/ s[n] > s[m]
        BY <3>1, PostsAreFinite
      <3> QED
        BY <1>0, <3>1, <3>2, RankDescends
    <2>4. \A m, n \in 1 .. k : m # n => s[m] # s[n]
      BY <2>1
    <2>5. s \in SetToSeqs(S)
      BY <2>2, <2>4 DEF SetToSeqs
    <2> QED
      BY <2>2, <2>3, <2>5
  <1>2. o \in SetToSeqs(S) /\ Descends(o)
    BY <1>1 DEF Ordered
  <1>3. o \in [1 .. k -> S] /\ (\A m, n \in 1 .. k : m # n => o[m] # o[n])
    BY <1>2 DEF SetToSeqs
  <1>4. \A m, n \in 1 .. k : m < n => o[m] > o[n]
    BY <1>2, <1>3
  <1> HIDE DEF o
  <1>5. \A x \in S : \E n \in 1 .. k : o[n] = x
    <2>1. o \in Injection(1 .. k, S)
      BY <1>3 DEF Injection, IsInjective
    <2>2. Cardinality(1 .. k) = k
      BY <1>0, FS_Interval
    <2>3. o \in Surjection(1 .. k, S)
      BY <2>1, <2>2, PostsAreFinite, FS_Injection
    <2> QED
      BY <2>3 DEF Surjection
  <1>6. ASSUME NEW n \in 1 .. k
        PROVE  Rank(S, o[n]) = n
    <2> DEFINE T == {y \in S : y >= o[n]}
               f == [m \in 1 .. n |-> o[m]]
    <2>1. \A m \in 1 .. n : m \in 1 .. k /\ o[m] \in T
      <3> SUFFICES ASSUME NEW m \in 1 .. n PROVE m \in 1 .. k /\ o[m] \in T
        OBVIOUS
      <3>1. m \in 1 .. k /\ (m < n \/ m = n)
        BY <1>0
      <3>2. o[m] \in S /\ o[n] \in S /\ o[m] \in Int /\ o[n] \in Int
        BY <1>3, <3>1, PostsAreFinite
      <3> QED
        BY <1>4, <3>1, <3>2
    <2>2. f \in [1 .. n -> T] /\ f \in Injection(1 .. n, T)
      BY <1>3, <2>1 DEF Injection, IsInjective
    <2>3. ASSUME NEW y \in T
          PROVE  \E m \in 1 .. n : f[m] = y
      <3>1. PICK m \in 1 .. k : o[m] = y
        BY <1>5
      <3>2. ~ (n < m)
        BY <1>3, <1>4, <3>1, PostsAreFinite
      <3> QED
        BY <1>0, <3>1, <3>2
    <2>4. f \in Surjection(1 .. n, T)
      BY <2>2, <2>3 DEF Surjection
    <2>5. ExistsBijection(1 .. n, T)
      BY <2>2, <2>4 DEF ExistsBijection, Bijection
    <2> QED
      BY <2>5, FS_CountingElements DEF Rank
  <1>7. \A x \in S : o[Rank(S, x)] = x
    BY <1>5, <1>6
  <1> QED
    BY <1>3, <1>4, <1>6, <1>7 DEF o

-----------------------------------------------------------------------------
(* Pages *)

LEMMA Division ==
  ASSUME NEW a \in Nat, NEW c \in Nat \ {0}
  PROVE  /\ a \div c \in Nat
         /\ \A b \in Nat : b <= a \div c <=> c * b <= a
  <1>1. a \div c \in Nat /\ c * (a \div c) <= a /\ a < c * (a \div c) + c
    OBVIOUS
  <1>2. ASSUME NEW b \in Nat, b <= a \div c PROVE c * b <= a
    BY <1>1, <1>2
  <1>3. ASSUME NEW b \in Nat, c * b <= a PROVE b <= a \div c
    BY <1>1, <1>3
  <1> QED
    BY <1>1, <1>2, <1>3

LEMMA MinOfTwo ==
  ASSUME NEW a \in Int, NEW b \in Int
  PROVE  Min({a, b}) = IF a <= b THEN a ELSE b
  BY DEF Min

\* LIMIT: the posts from a place on, and how many there are of k.
Width(k, from, count) ==
  IF k <= from THEN 0 ELSE IF from + count <= k THEN count ELSE k - from

LEMMA LimitIs ==
  ASSUME NEW S, NEW o \in Seq(S), NEW from \in Nat, NEW count \in Nat \ {0}
  PROVE  Limit(o, from, count) = [m \in 1 .. Width(Len(o), from, count) |-> o[from + m]]
  <1> DEFINE k == Len(o)
  <1>1. k \in Nat
    OBVIOUS
  <1>2. Limit(o, from, count) =
          SubSeq(o, from + 1, IF from + count <= k THEN from + count ELSE k)
    BY <1>1, MinOfTwo DEF Limit
  <1> QED
    BY <1>1, <1>2 DEF Width

\* The posts of a page are those at its places, if the offset is the product.
LEMMA PageIs ==
  ASSUME NEW S \in SUBSET PostIds, NEW count \in Nat \ {0}, NEW p \in Nat, count * p < Wrap
  PROVE  LET ids == PageOf(Ordered(S), count, p)
         IN  /\ ids \in [1 .. Len(ids) -> S] /\ Len(ids) \in 0 .. count
             /\ \A m \in 1 .. Len(ids) : Rank(S, ids[m]) = count * p + m
             /\ ToSet(ids) =
                  {x \in S : count * p < Rank(S, x) /\ Rank(S, x) <= count * p + count}
             /\ ids = <<>> <=> Cardinality(S) <= count * p
  <1> DEFINE k    == Cardinality(S)
             o    == Ordered(S)
             from == count * p
             len  == Width(k, from, count)
             ids  == PageOf(o, count, p)
  <1>1. from \in Nat /\ k \in Nat
    BY PostsAreFinite
  <1>2. Offset(count, p) = from
    <2>1. Wrap \in Nat \ {0}
      BY SearchAssumption
    <2>2. ASSUME NEW a \in Nat, a < Wrap PROVE a % Wrap = a
      BY <2>1, <2>2
    <2>3. from < Wrap
      OBVIOUS
    <2>4. from % Wrap = from
      <3> HIDE DEF from
      <3> QED
        BY <1>1, <2>2, <2>3
    <2> QED
      BY <2>4 DEF Offset
  <1>3. ids = Limit(o, from, count)
    BY <1>2 DEF PageOf
  <1>0. len = IF k <= from THEN 0 ELSE IF from + count <= k THEN count ELSE k - from
    BY DEF Width
  <1> HIDE DEF from
  <1>4. /\ ids \in [1 .. len -> S] /\ len \in 0 .. count
        /\ \A m \in 1 .. len : from + m \in 1 .. k /\ ids[m] = o[from + m]
    <2>1. o \in [1 .. k -> S]
      BY OrderedPosts
    <2> HIDE DEF ids, o, k
    <2>2. o \in Seq(S) /\ Len(o) = k
      BY <1>1, <2>1
    <2>3. ids = [m \in 1 .. len |-> o[from + m]]
      BY <1>1, <1>3, <2>2, LimitIs
    <2> HIDE DEF len
    <2>4. len \in 0 .. count /\ \A m \in 1 .. len : from + m \in 1 .. k
      BY <1>0, <1>1
    <2> QED
      BY <2>1, <2>3, <2>4
  <1> HIDE DEF ids, k, o, len
  <1>5. Len(ids) = len /\ DOMAIN ids = 1 .. len
    BY <1>4
  <1>6. \A m \in 1 .. len : Rank(S, ids[m]) = from + m
    BY <1>4, OrderedPosts DEF k, o
  <1>7. ASSUME NEW x \in S, from < Rank(S, x), Rank(S, x) <= from + count
        PROVE  \E m \in 1 .. len : ids[m] = x
    <2>1. Rank(S, x) \in 1 .. k /\ o[Rank(S, x)] = x
      BY RankBounds, OrderedPosts DEF k, o
    <2>2. Rank(S, x) - from \in 1 .. len
      BY <1>0, <1>1, <1>7, <2>1
    <2>3. ids[Rank(S, x) - from] = x
      BY <1>1, <1>4, <2>1, <2>2
    <2> QED
      BY <2>2, <2>3
  <1>8. ToSet(ids) = {x \in S : from < Rank(S, x) /\ Rank(S, x) <= from + count}
    <2>1. ToSet(ids) = {ids[m] : m \in 1 .. len}
      BY <1>5 DEF ToSet
    <2>2. \A m \in 1 .. len : /\ ids[m] \in S
                              /\ from < Rank(S, ids[m]) /\ Rank(S, ids[m]) <= from + count
      BY <1>1, <1>4, <1>6
    <2> QED
      BY <1>7, <2>1, <2>2
  <1>9. ids = <<>> <=> k <= from
    BY <1>0, <1>1, <1>4, <1>5
  <1> QED
    BY <1>4, <1>5, <1>6, <1>8, <1>9 DEF ids, k, o, from

LEMMA FoundPosts ==
  ASSUME NEW u, NEW q
  PROVE  Found(u, q) \in SUBSET PostIds
  BY DEF Found

LEMMA Pages == PagesPartition
  <1> SUFFICES ASSUME NEW u \in Viewers, NEW q \in Walks, NEW count \in 1 .. PageCountLimit
               PROVE  LET found == Found(u, q)
                          pages == 0 .. (Wrap \div 2 - 1) \div count
                          Ids(p) == PageOf(Ordered(found), count, p)
                      IN  /\ found = UNION {ToSet(Ids(p)) : p \in pages}
                          /\ \A p \in pages : Len(Ids(p)) <= count
                          /\ \A p, r \in pages : \A m \in DOMAIN Ids(p), n \in DOMAIN Ids(r) :
                               p < r \/ (p = r /\ m < n) => Ids(p)[m] > Ids(r)[n]
                          /\ count = PageSize =>
                               \A p \in pages : Ids(p) # <<>> <=> p < NumPages(Cardinality(found))
    BY DEF PagesPartition
  <1> DEFINE found  == Found(u, q)
             half   == Wrap \div 2
             pages  == 0 .. (half - 1) \div count
             Ids(p) == PageOf(Ordered(found), count, p)
             k      == Cardinality(found)
  <1>1. /\ found \in SUBSET PostIds
        /\ count \in Nat \ {0} /\ PageCountLimit \in Nat /\ Wrap \in Nat \ {0}
    BY FoundPosts, SearchAssumption
  <1>2. half \in Nat /\ half <= Wrap /\ k \in Nat /\ k <= half
    BY <1>1, PostsAreFinite, SearchAssumption
  <1> HIDE DEF found, half, k
  <1>3. \A p : p \in pages <=> p \in Nat /\ count * p < half
    <2>1. CASE half = 0
      BY <1>1, <2>1
    <2>2. CASE half # 0
      <3>1. half - 1 \in Nat
        BY <1>2, <2>2
      <3>2. \A p \in Nat : count * p < half <=> count * p <= half - 1
        BY <1>1, <1>2
      <3>3. (half - 1) \div count \in Nat
        BY <1>1, <3>1, Division
      <3>4. \A p \in Nat : p <= (half - 1) \div count <=> count * p <= half - 1
        BY <1>1, <3>1, Division
      <3>5. \A p : p \in pages <=> p \in Nat /\ p <= (half - 1) \div count
        BY <3>3
      <3> QED
        BY <3>2, <3>4, <3>5
    <2> QED
      BY <2>1, <2>2
  <1> HIDE DEF pages
  <1>4. ASSUME NEW p \in pages
        PROVE  /\ p \in Nat /\ count * p \in Nat
               /\ Ids(p) \in [1 .. Len(Ids(p)) -> found] /\ Len(Ids(p)) \in 0 .. count
               /\ \A m \in 1 .. Len(Ids(p)) : Rank(found, Ids(p)[m]) = count * p + m
               /\ ToSet(Ids(p)) =
                    {x \in found : /\ count * p < Rank(found, x)
                                   /\ Rank(found, x) <= count * p + count}
               /\ Ids(p) = <<>> <=> k <= count * p
    <2>1. p \in Nat /\ count * p \in Nat /\ count * p < Wrap
      BY <1>1, <1>2, <1>3
    <2> DEFINE ids == PageOf(Ordered(found), count, p)
    <2>2. /\ ids \in [1 .. Len(ids) -> found] /\ Len(ids) \in 0 .. count
          /\ \A m \in 1 .. Len(ids) : Rank(found, ids[m]) = count * p + m
          /\ ToSet(ids) =
               {x \in found : /\ count * p < Rank(found, x)
                              /\ Rank(found, x) <= count * p + count}
          /\ ids = <<>> <=> k <= count * p
      BY <1>1, <2>1, PageIs DEF k
    <2> QED
      BY <2>1, <2>2
  <1>5. found = UNION {ToSet(Ids(p)) : p \in pages}
    <2>1. ASSUME NEW x \in found
          PROVE  \E p \in pages : x \in ToSet(Ids(p))
      <3> DEFINE r == Rank(found, x)
                 p == (r - 1) \div count
      <3>1. r \in 1 .. k /\ r - 1 \in Nat
        BY <1>1, <1>2, RankBounds DEF k
      <3> HIDE DEF r
      <3>2. p \in Nat /\ count * p <= r - 1 /\ r - 1 < count * p + count
        BY <1>1, <3>1
      <3>3. p \in pages
        BY <1>1, <1>2, <1>3, <3>1, <3>2
      <3>4. count * p < r /\ r <= count * p + count
        BY <1>1, <3>1, <3>2
      <3> QED
        BY <1>4, <3>3, <3>4 DEF r
    <2>2. \A p \in pages : ToSet(Ids(p)) \subseteq found
      BY <1>4
    <2> QED
      BY <2>1, <2>2
  <1>6. ASSUME NEW p \in pages, NEW r \in pages,
               NEW m \in DOMAIN Ids(p), NEW n \in DOMAIN Ids(r), p < r \/ (p = r /\ m < n)
        PROVE  Ids(p)[m] > Ids(r)[n]
    <2> DEFINE x == Ids(p)[m]
               y == Ids(r)[n]
    <2>1. /\ m \in 1 .. Len(Ids(p)) /\ n \in 1 .. Len(Ids(r))
          /\ m \in Nat /\ m <= count /\ n \in Nat /\ 1 <= n
          /\ count * p \in Nat /\ count * r \in Nat
      BY <1>1, <1>4
    <2>2. /\ x \in found /\ Rank(found, x) = count * p + m
          /\ y \in found /\ Rank(found, y) = count * r + n
      BY <1>4, <2>1
    <2>3. count * p + m < count * r + n
      <3>1. CASE p = r /\ m < n
        BY <1>1, <1>4, <2>1, <3>1
      <3>2. CASE p < r
        <4>1. p \in Nat /\ r \in Nat /\ p + 1 <= r
          BY <1>4, <3>2
        <4>2. count * p + count <= count * r
          BY <1>1, <4>1
        <4> QED
          BY <1>1, <2>1, <4>2
      <3> QED
        BY <1>6, <3>1, <3>2
    <2>4. x \in Int /\ y \in Int
      BY <1>1, <2>2, PostsAreFinite
    <2>5. ~ (y > x) /\ x # y
      <3>1. Rank(found, x) < Rank(found, y)
        BY <2>2, <2>3
      <3>2. Rank(found, x) \in Int /\ Rank(found, y) \in Int
        BY <1>1, <2>2, RankBounds
      <3> QED
        BY <1>1, <2>2, <3>1, <3>2, RankDescends
    <2> QED
      BY <2>4, <2>5
  <1>7. ASSUME count = PageSize, NEW p \in pages
        PROVE  Ids(p) # <<>> <=> p < NumPages(k)
    <2>1. k + count - 1 \in Nat /\ p \in Nat /\ p + 1 \in Nat
      BY <1>1, <1>2, <1>4
    <2>2. p + 1 <= (k + count - 1) \div count <=> count * (p + 1) <= k + count - 1
      BY <1>1, <2>1, Division
    <2>3. NumPages(k) = (k + count - 1) \div count
      BY <1>7 DEF NumPages
    <2>4. NumPages(k) \in Nat
      BY <1>1, <2>1, <2>3, Division
    <2> QED
      BY <1>1, <1>2, <1>4, <2>1, <2>2, <2>3, <2>4
  <1>8. \A p \in pages : Len(Ids(p)) <= count
    BY <1>4
  <1> QED
    BY <1>5, <1>6, <1>7, <1>8 DEF found, half, pages, k

-----------------------------------------------------------------------------
(* The walk *)

Walking == stage \in {"request", "query", "count"}

\* The posts that have arrived, and the number of places that they come from.
Got == IF stage = "count" THEN seen \cup ToSet(listed) ELSE seen
Due == IF stage = "count" THEN PageSize * page ELSE PageSize * (page - 1)

\* Of the posts that stay, those at the places walked through have arrived, up to
\* one for each post that has left.
WalkInv ==
  /\ PageSize * (page - 1) <= MaxPosts
  /\ Walking => /\ stayed \subseteq Found(who, query)
                /\ Cardinality((stayed \ Got) \cap Newest(Found(who, query), Due)) <= left
  /\ MissesAtMostWhatLeft

\* No more than n posts are at n places.
LEMMA Band ==
  ASSUME NEW S \in SUBSET PostIds, NEW b \in Nat, NEW n \in Nat
  PROVE  Cardinality({x \in S : b < Rank(S, x) /\ Rank(S, x) <= b + n}) <= n
  <1> DEFINE T == {x \in S : b < Rank(S, x) /\ Rank(S, x) <= b + n}
             f == [x \in T |-> Rank(S, x)]
  <1>1. IsFiniteSet(b + 1 .. b + n) /\ Cardinality(b + 1 .. b + n) = n
    BY FS_Interval
  <1>2. f \in [T -> b + 1 .. b + n]
    BY RankBounds
  <1>3. f \in Injection(T, b + 1 .. b + n)
    BY <1>2, RankTaken DEF Injection, IsInjective
  <1> QED
    BY <1>1, <1>3, FS_Injection

\* When k posts leave, no place moves down by more than k, whatever comes.
LEMMA RankMoves ==
  ASSUME NEW S \in SUBSET PostIds, NEW R \in SUBSET PostIds, NEW x \in S, x \in R
  PROVE  Rank(S, x) <= Rank(R, x) + Cardinality(S \ R)
  <1> DEFINE T == {y \in S : y >= x}
             U == {y \in R : y >= x}
             V == S \ R
  <1>1. T \in SUBSET PostIds /\ U \in SUBSET PostIds /\ V \in SUBSET PostIds
    OBVIOUS
  <1>2. T \subseteq U \cup V /\ U \cup V \in SUBSET PostIds
    OBVIOUS
  <1>3. Cardinality(T) <= Cardinality(U \cup V)
    BY <1>1, <1>2, PostsAreFinite, FS_Subset
  <1>4. Cardinality(U \cup V) = Cardinality(U) + Cardinality(V) - Cardinality(U \cap V)
    BY <1>1, PostsAreFinite, FS_Union
  <1>5. U \cap V \in SUBSET PostIds
    BY <1>1
  <1>6. /\ Cardinality(T) \in Nat /\ Cardinality(U) \in Nat /\ Cardinality(V) \in Nat
        /\ Cardinality(U \cap V) \in Nat /\ Cardinality(U \cup V) \in Nat
    BY <1>1, <1>2, <1>5, PostsAreFinite
  <1> QED
    BY <1>3, <1>4, <1>6 DEF Rank

\* Of the posts of U, at most one more is among the first b for each that leaves.
LEMMA Slip ==
  ASSUME NEW S \in SUBSET PostIds, NEW R \in SUBSET PostIds, NEW U \in SUBSET S,
         NEW b \in Nat, NEW l \in Nat, Cardinality(U \cap Newest(S, b)) <= l
  PROVE  Cardinality((U \cap R) \cap Newest(R, b)) <= l + Cardinality(S \ R)
  <1> DEFINE k == Cardinality(S \ R)
             A == (U \cap R) \cap Newest(R, b)
             B == U \cap Newest(S, b)
             C == {x \in S : b < Rank(S, x) /\ Rank(S, x) <= b + k}
  <1>1. k \in Nat
    BY PostsAreFinite
  <1>2. A \in SUBSET PostIds /\ B \in SUBSET PostIds /\ C \in SUBSET PostIds
    OBVIOUS
  <1>3. Cardinality(C) <= k
    BY <1>1, Band
  <1>4. A \subseteq B \cup C
    <2> SUFFICES ASSUME NEW x \in A PROVE x \in B \cup C
      OBVIOUS
    <2>1. x \in S /\ x \in R /\ x \in U /\ Rank(R, x) <= b
      BY DEF Newest
    <2>2. Rank(S, x) <= Rank(R, x) + k
      BY <2>1, RankMoves
    <2> HIDE DEF A, B, C, k
    <2>3. Rank(S, x) \in 1 .. Cardinality(S) /\ Rank(R, x) \in 1 .. Cardinality(R)
      BY <2>1, RankBounds
    <2> QED
      BY <1>1, <2>1, <2>2, <2>3 DEF B, C, Newest
  <1>5. B \cap C \in SUBSET PostIds /\ B \cup C \in SUBSET PostIds
    BY <1>2
  <1>6. Cardinality(A) <= Cardinality(B \cup C)
    BY <1>4, <1>5, PostsAreFinite, FS_Subset
  <1>7. Cardinality(B \cup C) = Cardinality(B) + Cardinality(C) - Cardinality(B \cap C)
    BY <1>2, PostsAreFinite, FS_Union
  <1> HIDE DEF A, B, C, k
  <1>8. /\ Cardinality(A) \in Nat /\ Cardinality(B) \in Nat /\ Cardinality(C) \in Nat
        /\ Cardinality(B \cap C) \in Nat /\ Cardinality(B \cup C) \in Nat
    BY <1>2, <1>5, PostsAreFinite
  <1>9. Cardinality(B) <= l
    BY DEF B
  <1> QED
    BY <1>1, <1>3, <1>6, <1>7, <1>8, <1>9 DEF A, k

\* A request sees the board as it is.
LEMMA SameFound == UNCHANGED <<board, who, query>> => Found(who, query)' = Found(who, query)
  BY DEF board, Found, Visible, Having, Joined, Permission, permission, QueryPoster, QueryTags,
     TagWords

LEMMA OthersChange == Others => Change
  BY DEF Others, DeletePost, TagPost, UntagPost, SavePost, SetPostPermission, DeleteUser,
     PromoteUser

\* The page that is asked for holds the posts of the next places.
LEMMA NextPage ==
  ASSUME TypeOK, WalkInv, Walking, stage # "count"
  PROVE  LET found == Found(who, query)
             ids   == PageOf(Ordered(found), PageSize, page - 1)
         IN  /\ ToSet(ids) \subseteq PostIds
             /\ Cardinality((stayed \ (seen \cup ToSet(ids))) \cap Newest(found, PageSize * page))
                  <= left
             /\ ids = <<>> => Cardinality(found) <= PageSize * page
  <1> DEFINE F == Found(who, query)
             p == page - 1
             d == PageSize * p
             ids == PageOf(Ordered(F), PageSize, p)
             A == (stayed \ (seen \cup ToSet(ids))) \cap Newest(F, PageSize * page)
             B == (stayed \ seen) \cap Newest(F, d)
  <1>1. F \in SUBSET PostIds /\ Cardinality(F) \in Nat
    BY FoundPosts, PostsAreFinite
  <1>2. /\ PageSize \in Nat \ {0} /\ page \in Nat \ {0} /\ page - 1 \in Nat /\ left \in Nat
        /\ Wrap \in Nat \ {0} /\ MaxPosts \in Nat /\ MaxPosts <= Wrap \div 2
    BY SearchAssumption DEF TypeOK
  <1>3. d \in Nat /\ PageSize * page = d + PageSize
    BY <1>2
  <1>4. d < Wrap
    <2>1. d <= MaxPosts
      BY DEF WalkInv
    <2> QED
      BY <1>2, <1>3, <2>1
  <1>5. /\ ToSet(ids) = {x \in F : d < Rank(F, x) /\ Rank(F, x) <= d + PageSize}
        /\ ids = <<>> <=> Cardinality(F) <= d
    <2>1. p \in Nat /\ PageSize * p < Wrap
      BY <1>2, <1>4
    <2> HIDE DEF F, p
    <2>2. /\ ids \in [1 .. Len(ids) -> F] /\ Len(ids) \in 0 .. PageSize
          /\ \A m \in 1 .. Len(ids) : Rank(F, ids[m]) = PageSize * p + m
          /\ ToSet(ids) =
               {x \in F : PageSize * p < Rank(F, x) /\ Rank(F, x) <= PageSize * p + PageSize}
          /\ ids = <<>> <=> Cardinality(F) <= PageSize * p
      BY <1>1, <1>2, <2>1, PageIs
    <2> QED
      BY <2>2
  <1>6. Cardinality(B) <= left
    BY DEF WalkInv, Due, Got
  <1> HIDE DEF F, p, d, ids
  <1>7. B \in SUBSET PostIds /\ A \subseteq B
    <2>1. \A x \in F : Rank(F, x) \in 1 .. Cardinality(F)
      BY <1>1, RankBounds
    <2>2. \A x \in F : x \notin ToSet(ids) /\ Rank(F, x) <= d + PageSize => Rank(F, x) <= d
      BY <1>1, <1>2, <1>3, <1>5, <2>1
    <2> QED
      BY <1>1, <1>3, <2>2 DEF Newest
  <1>8. Cardinality(A) <= Cardinality(B) /\ A \in SUBSET PostIds
    BY <1>7, PostsAreFinite, FS_Subset
  <1> HIDE DEF A, B
  <1>9. Cardinality(A) \in Nat /\ Cardinality(B) \in Nat
    BY <1>7, <1>8, PostsAreFinite
  <1>10. Cardinality(A) <= left
    BY <1>2, <1>6, <1>8, <1>9
  <1> QED
    BY <1>1, <1>2, <1>3, <1>5, <1>10 DEF A, F, p, ids

\* The pager goes on exactly as long as there are places left.
LEMMA ShowWalks ==
  ASSUME TypeOK, WalkInv, stayed \subseteq Found(who, query),
         NEW ids, NEW total \in Nat, total <= MaxPosts, Show(ids, total),
         Cardinality((stayed \ (seen \cup ToSet(ids)))
                       \cap Newest(Found(who, query), PageSize * page)) <= left,
         total <= PageSize * page => Cardinality(Found(who, query)) <= PageSize * page
  PROVE  WalkInv'
  <1> DEFINE F == Found(who, query)
             d == PageSize * page
  <1>1. F \in SUBSET PostIds /\ Cardinality(F) \in Nat /\ MaxPosts \in Nat
    BY FoundPosts, PostsAreFinite, SearchAssumption
  <1>2. PageSize \in Nat \ {0} /\ page \in Nat \ {0} /\ d \in Nat
    BY SearchAssumption DEF TypeOK
  <1>3. F' = F /\ stayed' = stayed /\ left' = left /\ seen' = seen \cup ToSet(ids)
    BY SameFound DEF Show, hist
  <1>4. page + 1 <= NumPages(total) <=> d < total
    <2>1. total + PageSize - 1 \in Nat /\ page + 1 \in Nat
      BY <1>2
    <2>2. page + 1 <= NumPages(total) <=> PageSize * (page + 1) <= total + PageSize - 1
      BY <1>2, <2>1, Division DEF NumPages
    <2>3. PageSize * (page + 1) = d + PageSize
      BY <1>2
    <2> HIDE DEF d
    <2> QED
      BY <1>2, <2>2, <2>3
  <1>5. CASE page + 1 <= NumPages(total)
    <2>1. page' = page + 1 /\ stage' = "request"
      BY <1>5 DEF Show
    <2>2. PageSize * (page' - 1) = d /\ d <= MaxPosts
      BY <1>1, <1>2, <1>4, <1>5, <2>1
    <2>3. Got' = seen' /\ Due' = d
      BY <2>1, <2>2 DEF Got, Due
    <2>4. stayed' \subseteq F'
      BY <1>3
    <2> HIDE DEF F, d
    <2>5. Cardinality((stayed' \ Got') \cap Newest(F', Due')) <= left'
      BY <1>3, <2>3 DEF F, d
    <2> QED
      BY <2>1, <2>2, <2>4, <2>5 DEF WalkInv, MissesAtMostWhatLeft, F
  <1>6. CASE ~ (page + 1 <= NumPages(total))
    <2>1. page' = page /\ stage' = "done"
      BY <1>6 DEF Show
    <2>2. Cardinality(F) <= d
      BY <1>2, <1>4, <1>6
    <2>3. \A x \in F : Rank(F, x) \in 1 .. Cardinality(F)
      BY <1>1, RankBounds
    <2>4. (stayed \ (seen \cup ToSet(ids))) \cap Newest(F, d) = stayed' \ seen'
      <3> HIDE DEF F, d
      <3>1. Newest(F, d) = F
        BY <1>1, <1>2, <2>2, <2>3 DEF Newest
      <3> QED
        BY <1>3, <3>1 DEF F
    <2>5. Cardinality(stayed' \ seen') <= left'
      BY <1>3, <2>4
    <2> QED
      BY <2>1, <2>5 DEF WalkInv, MissesAtMostWhatLeft, Walking
  <1> QED
    BY <1>5, <1>6

\* What leaves the search makes room for as many posts to slip past the reader.
LEMMA ChangeWalks ==
  ASSUME TypeOK, WalkInv, Change
  PROVE  WalkInv'
  <1> DEFINE F == Found(who, query)
             G == Found(who, query)'
             U == stayed \ Got
  <1>1. UNCHANGED <<who, query, page, stage, listed, seen>>
    BY DEF Change, reader
  <1>2. CASE ~Walking
    BY <1>1, <1>2 DEF Change, hist, Walking, WalkInv, MissesAtMostWhatLeft
  <1>3. CASE Walking
    <2>1. stayed' = stayed \cap G /\ left' = left + Cardinality(F \ G)
      BY <1>3 DEF Change, Walking
    <2>2. F \in SUBSET PostIds /\ G \in SUBSET PostIds
      BY DEF Found
    <2>3. Due \in Nat /\ left \in Nat /\ PageSize * (page - 1) <= MaxPosts
      BY SearchAssumption DEF TypeOK, Due, WalkInv
    <2>4. U \in SUBSET F /\ Cardinality(U \cap Newest(F, Due)) <= left
      BY <1>3 DEF WalkInv
    <2>5. Got' = Got /\ Due' = Due /\ page' = page
      BY <1>1 DEF Got, Due
    <2>6. stayed' \ Got' = U \cap G
      BY <2>1, <2>5
    <2> HIDE DEF F, G, U
    <2>7. Cardinality((U \cap G) \cap Newest(G, Due)) <= left + Cardinality(F \ G)
      BY <2>2, <2>3, <2>4, Slip
    <2>8. Cardinality((stayed' \ Got') \cap Newest(G, Due')) <= left'
      BY <2>1, <2>5, <2>6, <2>7
    <2>9. stage' # "done" /\ stayed' \subseteq G
      BY <1>1, <1>3, <2>1 DEF Walking
    <2> QED
      BY <1>1, <2>3, <2>5, <2>8, <2>9 DEF WalkInv, MissesAtMostWhatLeft, G
  <1> QED
    BY <1>2, <1>3

-----------------------------------------------------------------------------
(* Types *)

LEMMA FailsKeeps ==
  ASSUME TypeOK, WalkInv, Fails
  PROVE  TypeOK' /\ WalkInv'
  BY DEF Fails, TypeOK, WalkInv, MissesAtMostWhatLeft, Walking, board, hist

LEMMA ShowType ==
  ASSUME TypeOK, NEW ids, ToSet(ids) \subseteq PostIds, NEW total, Show(ids, total)
  PROVE  TypeOK'
  <1>1. page' \in Nat \ {0} /\ stage' \in {"request", "done"}
    BY DEF TypeOK, Show
  <1>2. seen' \subseteq PostIds /\ ToSet(listed') \subseteq PostIds
    BY DEF TypeOK, Show, ToSet
  <1> QED
    BY <1>1, <1>2 DEF TypeOK, Show, board, hist

LEMMA ReadKeeps ==
  ASSUME TypeOK, WalkInv, Read
  PROVE  TypeOK' /\ WalkInv'
  <1> DEFINE F   == Found(who, query)
             ids == PageOf(Ordered(F), PageSize, page - 1)
  <1>1. F \in SUBSET PostIds /\ Cardinality(F) \in Nat /\ Cardinality(F) <= MaxPosts
    BY FoundPosts, PostsAreFinite
  <1>2. CASE RequestFails
    BY <1>2, FailsKeeps DEF RequestFails
  <1>3. ASSUME stage \in {"request", "query"}
        PROVE  /\ stayed \subseteq F /\ ToSet(ids) \subseteq PostIds
               /\ Cardinality((stayed \ (seen \cup ToSet(ids))) \cap Newest(F, PageSize * page))
                    <= left
               /\ ids = <<>> => Cardinality(F) <= PageSize * page
    <2>1. Walking /\ stage # "count"
      BY <1>3 DEF Walking
    <2> QED
      BY <2>1, NextPage DEF WalkInv
  <1>4. CASE ListPosts
    <2> DEFINE total == IF ids = <<>> THEN 0 ELSE Cardinality(F)
    <2>1. stage = "request" /\ Show(ids, total)
      BY <1>4 DEF ListPosts
    <2>2. total \in Nat /\ total <= MaxPosts
      BY <1>1, SearchAssumption
    <2>3. total <= PageSize * page => Cardinality(F) <= PageSize * page
      BY <1>3, <2>1
    <2> HIDE DEF total, ids
    <2>4. TypeOK'
      BY <1>3, <2>1, ShowType
    <2>5. WalkInv'
      BY <1>3, <2>1, <2>2, <2>3, ShowWalks
    <2> QED
      BY <2>4, <2>5
  <1>5. CASE GuestFindsUser
    <2>1. /\ stage = "request" /\ stage' = "query"
          /\ UNCHANGED <<board, changes, who, query, page, listed, seen, hist>>
      BY <1>5 DEF GuestFindsUser
    <2>2. F' = F
      BY <2>1, SameFound
    <2>3. TypeOK'
      BY <2>1 DEF TypeOK, board, hist
    <2>4. Got' = Got /\ Due' = Due /\ stayed' = stayed /\ left' = left /\ page' = page
      BY <2>1 DEF Got, Due, hist
    <2>5. stayed \subseteq F /\ Cardinality((stayed \ Got) \cap Newest(F, Due)) <= left
      BY <2>1 DEF WalkInv, Walking
    <2> HIDE DEF F
    <2>6. stayed' \subseteq F' /\ Cardinality((stayed' \ Got') \cap Newest(F', Due')) <= left'
      BY <2>2, <2>4, <2>5
    <2>7. PageSize * (page' - 1) <= MaxPosts
      BY <2>4 DEF WalkInv
    <2> QED
      BY <2>1, <2>3, <2>6, <2>7 DEF WalkInv, MissesAtMostWhatLeft, F
  <1>6. CASE GuestQueries
    <2>1. stage = "query"
      BY <1>6 DEF GuestQueries
    <2>2. CASE ids = <<>>
      <3>1. Show(ids, 0)
        BY <1>6, <2>2 DEF GuestQueries
      <3>2. 0 \in Nat /\ 0 <= MaxPosts
        BY SearchAssumption
      <3>3. 0 <= PageSize * page => Cardinality(F) <= PageSize * page
        BY <1>3, <2>1, <2>2
      <3> HIDE DEF ids
      <3>4. TypeOK'
        BY <1>3, <2>1, <3>1, ShowType
      <3>5. WalkInv'
        BY <1>3, <2>1, <3>1, <3>2, <3>3, ShowWalks
      <3> QED
        BY <3>4, <3>5
    <2>3. CASE ids # <<>>
      <3>1. /\ stage' = "count" /\ listed' = ids
            /\ UNCHANGED <<board, changes, who, query, page, seen, hist>>
        BY <1>6, <2>3 DEF GuestQueries
      <3>2. F' = F /\ stayed' = stayed /\ left' = left /\ page' = page /\ seen' = seen
        BY <3>1, SameFound DEF hist
      <3> HIDE DEF ids
      <3>3. TypeOK'
        BY <1>3, <2>1, <3>1 DEF TypeOK, board, hist
      <3>4. Got' = seen \cup ToSet(ids) /\ Due' = PageSize * page
        BY <3>1, <3>2 DEF Got, Due
      <3> HIDE DEF F
      <3>5. stayed' \subseteq F' /\ Cardinality((stayed' \ Got') \cap Newest(F', Due')) <= left'
        BY <1>3, <2>1, <3>2, <3>4
      <3>6. PageSize * (page' - 1) <= MaxPosts
        BY <3>2 DEF WalkInv
      <3> QED
        BY <3>1, <3>3, <3>5, <3>6 DEF WalkInv, MissesAtMostWhatLeft, F
    <2> QED
      BY <2>2, <2>3
  <1>7. CASE GuestCounts
    <2>1. stage = "count"
      BY <1>7 DEF GuestCounts
    <2>2. CASE F = {}
      BY <1>7, <2>2, FailsKeeps DEF GuestCounts
    <2>3. CASE F # {}
      <3>1. Show(listed, Cardinality(F))
        BY <1>7, <2>3 DEF GuestCounts
      <3>2. ToSet(listed) \subseteq PostIds
        BY DEF TypeOK
      <3>3. /\ stayed \subseteq F
            /\ Cardinality((stayed \ (seen \cup ToSet(listed))) \cap Newest(F, PageSize * page))
                 <= left
        BY <2>1 DEF WalkInv, Walking, Got, Due
      <3>4. TypeOK'
        BY <3>1, <3>2, ShowType
      <3>5. WalkInv'
        BY <1>1, <3>1, <3>3, ShowWalks
      <3> QED
        BY <3>4, <3>5
    <2> QED
      BY <2>2, <2>3
  <1> QED
    BY <1>2, <1>4, <1>5, <1>6, <1>7 DEF Read

LEMMA StartKeeps ==
  ASSUME TypeOK, WalkInv, NEW u \in Viewers, NEW q \in Walks, StartWalk(u, q)
  PROVE  TypeOK' /\ WalkInv'
  <1>1. Found(u, q) \in SUBSET PostIds
    BY FoundPosts
  <1>2. TypeOK'
    BY <1>1 DEF StartWalk, TypeOK, board, ToSet
  <1>3. Found(u, q) = Found(who, query)'
    BY DEF StartWalk, board, Found, Visible, Having, Joined, Permission, permission, QueryPoster,
       QueryTags, TagWords
  <1>4. /\ page' = 1 /\ stage' = "request" /\ seen' = {} /\ left' = 0
        /\ stayed' = Found(who, query)'
    BY <1>3 DEF StartWalk
  <1>5. PageSize * (page' - 1) = 0 /\ 0 <= MaxPosts
    BY <1>4, SearchAssumption
  <1>6. Due' = 0
    BY <1>4, <1>5 DEF Due
  <1> DEFINE G == Found(who, query)'
  <1>7. Newest(G, 0) = {}
    <2>1. G \in SUBSET PostIds
      BY <1>1, <1>3
    <2> HIDE DEF G
    <2>2. \A x \in G : Rank(G, x) \in 1 .. Cardinality(G)
      BY <2>1, RankBounds
    <2> QED
      BY <2>2 DEF Newest
  <1> HIDE DEF G
  <1>8. Cardinality((stayed' \ Got') \cap Newest(G, Due')) <= left'
    BY <1>4, <1>6, <1>7, FS_EmptySet
  <1> QED
    BY <1>2, <1>4, <1>5, <1>8 DEF WalkInv, MissesAtMostWhatLeft, G

LEMMA ChangeType ==
  ASSUME TypeOK, Change,
         accounts' \in [Names -> (PermissionUser .. PermissionAdministrator) \cup {None}],
         posts' \in [PostIds -> [poster : Names \cup {None}, perm : PermsAsked] \cup {None}],
         tags' \in [PostIds -> SUBSET LegalTags]
  PROVE  TypeOK'
  <1>1. changes' \in 0 .. MaxChanges
    BY SearchAssumption DEF Change, TypeOK
  <1>2. stayed' \subseteq PostIds /\ left' \in Nat
    <2>1. Found(who, query) \ Found(who, query)' \in SUBSET PostIds
      BY FoundPosts
    <2>2. Cardinality(Found(who, query) \ Found(who, query)') \in Nat
      BY <2>1, PostsAreFinite
    <2> QED
      BY <2>2 DEF Change, TypeOK, hist
  <1> QED
    BY <1>1, <1>2 DEF TypeOK, Change, reader

LEMMA OthersType ==
  ASSUME TypeOK, RanksOK', Others
  PROVE  TypeOK'
  <1> DEFINE rows == [poster : Names \cup {None}, perm : PermsAsked] \cup {None}
  <1>1. Change
    BY OthersChange
  <1>2. accounts' \in [Names -> (PermissionUser .. PermissionAdministrator) \cup {None}]
    BY DEF RanksOK
  <1>3. posts \in [PostIds -> rows] /\ tags \in [PostIds -> SUBSET LegalTags]
    BY DEF TypeOK
  <1>4. \A i \in PostIds : posts[i] # None =>
          posts[i] \in [poster : Names \cup {None}, perm : PermsAsked]
    BY <1>3
  <1>5. posts' \in [PostIds -> rows] /\ tags' \in [PostIds -> SUBSET LegalTags]
    <2>1. ASSUME NEW u \in Viewers, NEW i \in PostIds, DeletePost(u, i)
          PROVE  posts' \in [PostIds -> rows] /\ tags' \in [PostIds -> SUBSET LegalTags]
      BY <1>3, <2>1 DEF DeletePost
    <2>2. ASSUME NEW u \in Viewers, NEW i \in PostIds, NEW t \in Tags, TagPost(u, i, t)
          PROVE  posts' \in [PostIds -> rows] /\ tags' \in [PostIds -> SUBSET LegalTags]
      BY <1>3, <2>2 DEF TagPost, TagIsValid
    <2>3. ASSUME NEW u \in Viewers, NEW i \in PostIds, NEW t \in Tags, UntagPost(u, i, t)
          PROVE  posts' \in [PostIds -> rows] /\ tags' \in [PostIds -> SUBSET LegalTags]
      BY <1>3, <2>3 DEF UntagPost
    <2>4. ASSUME NEW u \in Names, NEW i \in PostIds, NEW p \in PermsAsked, SavePost(u, i, p)
          PROVE  posts' \in [PostIds -> rows] /\ tags' \in [PostIds -> SUBSET LegalTags]
      BY <1>3, <2>4 DEF SavePost
    <2>5. ASSUME NEW u \in Names, NEW i \in PostIds, NEW p \in PermsAsked,
                 SetPostPermission(u, i, p)
          PROVE  posts' \in [PostIds -> rows] /\ tags' \in [PostIds -> SUBSET LegalTags]
      BY <1>3, <1>4, <2>5 DEF SetPostPermission
    <2>6. ASSUME NEW u \in Names, NEW v \in Names, DeleteUser(u, v)
          PROVE  posts' \in [PostIds -> rows] /\ tags' \in [PostIds -> SUBSET LegalTags]
      BY <1>3, <1>4, <2>6 DEF DeleteUser
    <2>7. ASSUME NEW u \in Names, NEW v \in Names, NEW p \in RanksGiven, PromoteUser(u, v, p)
          PROVE  posts' \in [PostIds -> rows] /\ tags' \in [PostIds -> SUBSET LegalTags]
      BY <1>3, <2>7 DEF PromoteUser
    <2> QED
      BY <2>1, <2>2, <2>3, <2>4, <2>5, <2>6, <2>7 DEF Others
  <1> QED
    BY <1>1, <1>2, <1>5, ChangeType

LEMMA InitWalk == Init => TypeOK /\ WalkInv
  <1> SUFFICES ASSUME Init PROVE TypeOK /\ WalkInv
    OBVIOUS
  <1>1. TypeOK
    BY SearchAssumption, InitRanks DEF Init, TypeOK, RanksOK, Viewers, ToSet
  <1>2. PageSize * (page - 1) <= MaxPosts
    BY SearchAssumption DEF Init
  <1> QED
    BY <1>1, <1>2 DEF Init, WalkInv, Walking, MissesAtMostWhatLeft

LEMMA NextWalk ==
  ASSUME TypeOK, RanksOK, RanksOK', WalkInv, [Next]_vars
  PROVE  TypeOK' /\ WalkInv'
  <1>1. CASE UNCHANGED vars
    <2>1. Found(who, query)' = Found(who, query)
      BY <1>1, SameFound DEF vars, reader
    <2> QED
      BY <1>1, <2>1 DEF vars, board, reader, hist, TypeOK, WalkInv, Walking, Got, Due, Newest, Rank,
         MissesAtMostWhatLeft
  <1>2. CASE Others
    BY <1>2, OthersType, OthersChange, ChangeWalks
  <1> QED
    BY <1>1, <1>2, ReadKeeps, StartKeeps DEF Next

-----------------------------------------------------------------------------
(* Tags *)

\* A post has a tag once, up to case.
FoldOK == \A i \in PostIds : \A s, t \in tags[i] : s # t => Fold[s] # Fold[t]

LEMMA InitFold == Init => FoldOK
  <1> SUFFICES ASSUME Init PROVE FoldOK
    OBVIOUS
  <1>1. \A i \in PostIds : tags[i] \in OldTags \cup {{}}
    BY DEF Init
  <1> QED
    BY <1>1, SearchAssumption DEF FoldOK

LEMMA NextFold == TypeOK /\ FoldOK /\ [Next]_vars => FoldOK'
  <1> SUFFICES ASSUME TypeOK, FoldOK, [Next]_vars PROVE FoldOK'
    OBVIOUS
  <1>0. tags \in [PostIds -> SUBSET LegalTags]
    BY DEF TypeOK
  <1>1. CASE UNCHANGED tags
    BY <1>1 DEF FoldOK
  <1>2. CASE UNCHANGED vars \/ Read \/ \E u \in Viewers, q \in Walks : StartWalk(u, q)
    BY <1>1, <1>2 DEF Read, RequestFails, ListPosts, GuestFindsUser, GuestQueries, GuestCounts,
       Fails, Show, StartWalk, vars, board
  <1>3. ASSUME NEW u \in Viewers, NEW i \in PostIds, NEW t \in Tags, TagPost(u, i, t)
        PROVE  FoldOK'
    BY <1>0, <1>3 DEF TagPost, FoldOK
  <1>4. ASSUME NEW u \in Viewers, NEW i \in PostIds, NEW t \in Tags, UntagPost(u, i, t)
        PROVE  FoldOK'
    BY <1>0, <1>4 DEF UntagPost, FoldOK
  <1>5. ASSUME NEW u \in Viewers, NEW i \in PostIds, DeletePost(u, i)
        PROVE  FoldOK'
    BY <1>0, <1>5 DEF DeletePost, FoldOK
  <1>6. ASSUME NEW u \in Names, NEW i \in PostIds, NEW p \in PermsAsked,
               SavePost(u, i, p) \/ SetPostPermission(u, i, p)
        PROVE  FoldOK'
    BY <1>1, <1>6 DEF SavePost, SetPostPermission
  <1>7. ASSUME NEW u \in Names, NEW v \in Names,
               DeleteUser(u, v) \/ \E p \in RanksGiven : PromoteUser(u, v, p)
        PROVE  FoldOK'
    BY <1>1, <1>7 DEF DeleteUser, PromoteUser
  <1> QED
    BY <1>2, <1>3, <1>4, <1>5, <1>6, <1>7 DEF Next, Others

\* The join of posttags with itself squares the number of posts.
LEMMA Pairs ==
  ASSUME NEW t
  PROVE  TagCount(t) \in Nat /\ PairCount(t) = TagCount(t) * TagCount(t)
  <1> DEFINE T == {j \in PostIds : t \in tags[j]}
  <1>1. T \in SUBSET PostIds
    OBVIOUS
  <1>2. {ij \in PostIds \X PostIds : t \in tags[ij[1]] /\ t \in tags[ij[2]]} = T \X T
    OBVIOUS
  <1>3. IsFiniteSet(T) /\ Cardinality(T) \in Nat
    BY <1>1, PostsAreFinite
  <1>4. Cardinality(T \X T) = Cardinality(T) * Cardinality(T)
    BY <1>3, FS_Product
  <1> QED
    BY <1>2, <1>3, <1>4 DEF TagCount, PairCount

\* The order of the pairs is that of the posts.
LEMMA Squares ==
  ASSUME NEW s, NEW t, Before(s, t)
  PROVE  TagCount(t) <= TagCount(s)
  <1>1. ASSUME NEW a \in Nat, NEW b \in Nat, a * a >= b * b PROVE b <= a
    BY <1>1
  <1>2. TagCount(s) * TagCount(s) >= TagCount(t) * TagCount(t)
    BY Pairs DEF Before
  <1> QED
    BY <1>1, <1>2, Pairs

LEMMA Counted == TypeOK /\ FoldOK => TagsCounted
  <1> SUFFICES ASSUME TypeOK, NEW prefix \in Prefixed, NEW s \in SearchTag(prefix),
                      NEW n \in DOMAIN s, NEW t \in prefix, t \notin ToSet(s)
               PROVE  TagCount(t) <= TagCount(s[n])
    BY DEF FoldOK, TagsCounted
  <1> DEFINE used == {v \in prefix : \E i \in PostIds : v \in tags[i]}
             k    == Cardinality(used)
  <1>1. IsFiniteSet(used) /\ k \in Nat
    <2>1. used \in SUBSET LegalTags
      BY SearchAssumption
    <2> HIDE DEF used
    <2> QED
      BY <2>1, SearchAssumption, FS_Subset, FS_CardinalityType
  <1>2. PICK o \in SetToSeqs(used) :
               /\ \A i, j \in DOMAIN o : i < j => Before(o[i], o[j])
               /\ s = Limit(o, 0, SearchTagLimit)
    BY DEF SearchTag
  <1>3. CASE t \in used
    <2> HIDE DEF used, k
    <2>1. o \in [1 .. k -> used] /\ (\A i, j \in 1 .. k : i # j => o[i] # o[j])
      BY DEF SetToSeqs, k
    <2>2. PICK m \in 1 .. k : o[m] = t
      <3>1. o \in Injection(1 .. k, used)
        BY <2>1 DEF Injection, IsInjective
      <3>2. Cardinality(1 .. k) = k
        BY <1>1, FS_Interval
      <3>3. o \in Surjection(1 .. k, used)
        BY <1>1, <3>1, <3>2, FS_Injection DEF k
      <3> QED
        BY <1>3, <3>3 DEF Surjection
    <2> DEFINE w == Width(k, 0, SearchTagLimit)
    <2>3. s = [i \in 1 .. w |-> o[0 + i]]
      <3>1. o \in Seq(used) /\ Len(o) = k
        BY <1>1, <2>1
      <3>2. SearchTagLimit \in Nat \ {0}
        BY SearchAssumption
      <3> QED
        BY <1>2, <3>1, <3>2, LimitIs
    <2>4. w \in 0 .. k
      BY <1>1, SearchAssumption DEF Width
    <2> HIDE DEF w
    <2>5. \A i \in 1 .. w : s[i] = o[i]
      BY <2>3, <2>4
    <2>6. n \in 1 .. w /\ DOMAIN s = 1 .. w
      BY <2>3
    <2>7. ~ (m <= w)
      <3>1. ToSet(s) = {s[i] : i \in 1 .. w}
        BY <2>6 DEF ToSet
      <3>2. m <= w => m \in 1 .. w
        BY <1>1, <2>4
      <3> QED
        BY <2>2, <2>5, <3>1, <3>2
    <2>8. n \in 1 .. k /\ n < m
      BY <1>1, <2>2, <2>4, <2>6, <2>7
    <2>9. Before(s[n], t)
      BY <1>2, <2>1, <2>2, <2>5, <2>6, <2>8
    <2> QED
      BY <2>9, Squares
  <1>4. CASE t \notin used
    <2>1. {j \in PostIds : t \in tags[j]} = {}
      BY <1>4
    <2>2. TagCount(t) = 0
      BY <2>1, FS_EmptySet DEF TagCount
    <2>3. TagCount(s[n]) \in Nat
      BY Pairs
    <2> QED
      BY <2>2, <2>3
  <1> QED
    BY <1>3, <1>4

-----------------------------------------------------------------------------
(* What a query finds *)

\* The words of a query are its tags and its mentions.
LEMMA Words ==
  ASSUME NEW q \in Queries
  PROVE  /\ DOMAIN q = 1 .. Len(q) /\ Len(q) \in Nat
         /\ \A n \in DOMAIN q : q[n] = IF q[n].at THEN Mention(q[n].word) ELSE Tag(q[n].word)
  <1> DEFINE W == {Tag(t) : t \in Tags} \cup {Mention(u) : u \in Viewers}
  <1>1. q \in Seq(W)
    BY SearchAssumption
  <1>2. \A w \in W : w = IF w.at THEN Mention(w.word) ELSE Tag(w.word)
    BY DEF Tag, Mention
  <1> HIDE DEF W
  <1>3. \A n \in DOMAIN q : q[n] \in W
    BY <1>1
  <1> QED
    BY <1>1, <1>2, <1>3

LEMMA TagsAreFinite ==
  ASSUME NEW q \in Queries
  PROVE  IsFiniteSet(TagWords(q)) /\ Cardinality(TagWords(q)) \in Nat
  <1>1. IsFiniteSet(1 .. Len(q))
    BY Words, FS_Interval
  <1>2. TagWords(q) \in SUBSET (1 .. Len(q))
    BY Words DEF TagWords
  <1>3. IsFiniteSet(TagWords(q))
    BY <1>1, <1>2, FS_Subset
  <1> QED
    BY <1>3, FS_CardinalityType

\* HAVING asks for a row for each tag of the query, and the join has one for each
\* different tag that the post has.
LEMMA HavingAll ==
  ASSUME NEW q \in Queries, NEW i
  PROVE  (QueryTags(q) # {} => Having(i, q)) <=>
           /\ \A m, n \in DOMAIN q : ~q[m].at /\ q[m] = q[n] => m = n
           /\ \A n \in DOMAIN q : ~q[n].at => q[n].word \in tags[i]
  <1> DEFINE W == TagWords(q)
             Q == QueryTags(q)
             J == Joined(i, q)
             g == [n \in W |-> q[n].word]
             Once == \A m, n \in DOMAIN q : ~q[m].at /\ q[m] = q[n] => m = n
  <1>2. IsFiniteSet(W) /\ Cardinality(W) \in Nat
    BY TagsAreFinite
  <1>3. g \in Surjection(W, Q)
    BY DEF Surjection, QueryTags
  <1>4. g \in Injection(W, Q) <=> Once
    <2>1. g \in [W -> Q]
      BY DEF QueryTags
    <2>2. g \in Injection(W, Q) <=> \A m, n \in W : q[m].word = q[n].word => m = n
      BY <2>1 DEF Injection, IsInjective
    <2>3. \A m, n \in W : q[m].word = q[n].word <=> q[m] = q[n]
      BY Words DEF TagWords
    <2> QED
      BY <2>2, <2>3 DEF TagWords
  <1>5. J \in SUBSET Q
    BY DEF Joined
  <1>6. J = Q <=> \A n \in DOMAIN q : ~q[n].at => q[n].word \in tags[i]
    BY DEF Joined, QueryTags, TagWords
  <1> HIDE DEF W, Q, J, g, Once
  <1>7. /\ IsFiniteSet(Q) /\ Cardinality(Q) \in Nat /\ Cardinality(Q) <= Cardinality(W)
        /\ Cardinality(Q) = Cardinality(W) <=> Once
    BY <1>2, <1>3, <1>4, FS_Surjection, FS_CardinalityType
  <1>8. /\ Cardinality(J) \in Nat /\ Cardinality(J) <= Cardinality(Q)
        /\ Cardinality(J) = Cardinality(Q) <=> J = Q
    BY <1>5, <1>7, FS_Subset, FS_CardinalityType
  <1>9. Having(i, q) <=> J # {} /\ Cardinality(J) = Cardinality(W)
    BY DEF Having, J, W
  <1>10. Cardinality(J) = Cardinality(W) <=> J = Q /\ Once
    BY <1>2, <1>7, <1>8
  <1>11. CASE Q # {}
    BY <1>6, <1>9, <1>10, <1>11 DEF Q, Once
  <1>12. CASE Q = {}
    BY <1>12 DEF Q, QueryTags, TagWords
  <1> QED
    BY <1>11, <1>12

\* A query that parses mentions one user at most.
LEMMA PosterIs ==
  ASSUME NEW q \in Queries, Parses(q), NEW v
  PROVE  (QueryPoster(q) # Guest => v = QueryPoster(q)) <=>
           \A n \in DOMAIN q : q[n].at /\ q[n].word # Guest => v = q[n].word
  <1>1. CASE ~ \E n \in DOMAIN q : q[n].at /\ q[n].word # Guest
    BY <1>1 DEF QueryPoster
  <1>2. ASSUME NEW n \in DOMAIN q, q[n].at, q[n].word # Guest
        PROVE  (QueryPoster(q) # Guest => v = QueryPoster(q)) <=>
                 \A m \in DOMAIN q : q[m].at /\ q[m].word # Guest => v = q[m].word
    <2>1. \A m \in DOMAIN q : q[m].at /\ q[m].word # Guest => m = n
      BY <1>2, Words DEF Parses
    <2>2. ToSet(q) = {q[m] : m \in DOMAIN q}
      BY DEF ToSet
    <2>3. (CHOOSE w \in ToSet(q) : w.at /\ w.word # Guest) = q[n]
      BY <1>2, <2>1, <2>2
    <2>4. QueryPoster(q) = q[n].word
      BY <1>2, <2>3 DEF QueryPoster
    <2> QED
      BY <1>2, <2>1, <2>4
  <1> QED
    BY <1>1, <1>2

\* COUNT(DISTINCT id) / COUNT(id) undoes the rows of the join.
LEMMA SizeOnce ==
  ASSUME NEW q \in Queries, NEW i \in PostIds, Having(i, q)
  PROVE  GroupSize(i, q) = Size[i]
  <1> DEFINE J == Joined(i, q)
             W == TagWords(q)
  <1>1. IsFiniteSet(W) /\ Cardinality(W) \in Nat
    BY TagsAreFinite
  <1>2. J # {} /\ Cardinality(J) = Cardinality(W)
    BY DEF Having
  <1>3. W # {}
    BY <1>2 DEF Joined, QueryTags
  <1>4. Cardinality(W) # 0
    BY <1>1, <1>3, FS_EmptySet
  <1>5. ASSUME NEW r \in Nat, r # 0, NEW z \in Nat PROVE (r * z) \div r = z
    BY <1>5
  <1>6. Size[i] \in Nat
    BY SearchAssumption
  <1> QED
    BY <1>1, <1>2, <1>4, <1>5, <1>6 DEF GroupSize

LEMMA Finds == FoundExactly
  <1> SUFFICES ASSUME NEW u \in Viewers, NEW q \in Queries, Parses(q)
               PROVE  /\ Sizes(u, q) = SumFunction(Restrict(Size, Found(u, q)))
                      /\ Found(u, q) =
                        {i \in PostIds :
                           /\ Visible(u, i)
                           /\ \A m, n \in DOMAIN q : ~q[m].at /\ q[m] = q[n] => m = n
                           /\ \A n \in DOMAIN q :
                                q[n].at /\ q[n].word # Guest => posts[i].poster = q[n].word
                           /\ \A n \in DOMAIN q : ~q[n].at => q[n].word \in tags[i]}
    BY DEF FoundExactly
  <1> DEFINE Once   == \A m, n \in DOMAIN q : ~q[m].at /\ q[m] = q[n] => m = n
             By(i)  == \A n \in DOMAIN q :
                         q[n].at /\ q[n].word # Guest => posts[i].poster = q[n].word
             All(i) == \A n \in DOMAIN q : ~q[n].at => q[n].word \in tags[i]
  <1>1. \A i \in PostIds : /\ (QueryTags(q) # {} => Having(i, q)) <=> Once /\ All(i)
                           /\ (QueryPoster(q) # Guest => posts[i].poster = QueryPoster(q)) <=> By(i)
    BY HavingAll, PosterIs
  <1>2. \A i : i \in Found(u, q) <=>
          /\ i \in PostIds /\ Visible(u, i)
          /\ QueryPoster(q) # Guest => posts[i].poster = QueryPoster(q)
          /\ QueryTags(q) # {} => Having(i, q)
    BY DEF Found
  <1>3. Sizes(u, q) = SumFunction(Restrict(Size, Found(u, q)))
    <2> DEFINE f == [i \in Found(u, q) |-> IF QueryTags(q) = {} THEN Size[i] ELSE GroupSize(i, q)]
    <2>1. \A i \in Found(u, q) : QueryTags(q) # {} => GroupSize(i, q) = Size[i]
      BY <1>2, SizeOnce
    <2>2. f = Restrict(Size, Found(u, q))
      BY <2>1 DEF Restrict
    <2>3. Sizes(u, q) = SumFunction(f)
      BY DEF Sizes
    <2> HIDE DEF f
    <2> QED
      BY <2>2, <2>3
  <1> HIDE DEF Once, By, All
  <1>4. Found(u, q) = {i \in PostIds : Visible(u, i) /\ Once /\ By(i) /\ All(i)}
    BY <1>1, <1>2
  <1> QED
    BY <1>3, <1>4 DEF Once, By, All

-----------------------------------------------------------------------------
(* The theorems *)

\* Rows and the reader keep their shapes, whoever changes what.
THEOREM TypeCorrect == Spec => []TypeOK
  BY InitRanks, NextRanks, InitWalk, NextWalk, PTL DEF Spec

\* A query finds the posts that it describes, and sums up each of them once.
THEOREM FindsExactly == Spec => []FoundExactly
  BY Finds, PTL

\* The pages of a search of any size are a partition of it, in order.
THEOREM PagesMakeUpAll == Spec => []PagesPartition
  BY Pages, PTL

\* Of the posts that stay, a reader misses one at most for each that leaves.
THEOREM WalksMissLittle == Spec => []MissesAtMostWhatLeft
  <1>1. TypeOK /\ RanksOK /\ WalkInv /\ [Next]_vars => TypeOK' /\ RanksOK' /\ WalkInv'
    BY NextRanks, NextWalk
  <1>2. WalkInv => MissesAtMostWhatLeft
    BY DEF WalkInv
  <1> QED
    BY <1>1, <1>2, InitRanks, InitWalk, PTL DEF Spec

\* The numbers next to tags are right, and the tags that are suggested the commonest.
THEOREM TagsAreCounted == Spec => []TagsCounted
  BY TypeCorrect, InitFold, NextFold, Counted, PTL DEF Spec

\* What pages offer for posts of somebody, uploads and users is what the server grants,
\* and the users that are listed are outranked, but for the owner.
THEOREM Buttons == Spec => []ButtonsWork
  BY InitRanks, NextRanks, Offered, PTL DEF Spec
=============================================================================
