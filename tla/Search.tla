------------------------------- MODULE Search -------------------------------
(***************************************************************************)
(* What people see of the board: the search for posts, tags and users       *)
(* (server/db/post.go, server/db/user.go), the gallery that shows the posts *)
(* page by page, and the buttons that the pages of the frontend offer       *)
(* (frontend/frontserver/pages, smolboard/smolboard.go), which work out by  *)
(* themselves what the server is going to allow.                            *)
(*                                                                          *)
(* One reader walks through the pages of a search while others change the   *)
(* board.  A request of someone signed in reads one snapshot; that of a     *)
(* guest has no transaction and reads three.                                *)
(***************************************************************************)
EXTENDS Permissions, FiniteSetsExt, SequencesExt

CONSTANTS
  Names,          \* usernames
  Owner,          \* DBConfig.Owner
  Guest,          \* the empty username; also the mention "@" of nobody
  Tags,           \* words of a query that are no mentions, as they are written
  LegalTags,      \* those that TagIsValid accepts
  Fold,           \* the case-folded form of each (COLLATE NOCASE)
  Prefixed,       \* sets of tags that begin alike
  MaxPosts,       \* bound: post IDs ever generated
  OldPosts,       \* the posts there are in the beginning
  OldTags,        \* the tags that one of these may have
  Size,           \* the size of each post
  Queries,        \* queries that clients send
  Walks,          \* those among them that the reader walks through
  QueryTagLimit,
  PageCountLimit, \* the limit of posts per page, 100
  PageSize,       \* pager.PageSize
  Wrap,           \* 2^64, the values of a uint
  SearchTagLimit, \* the LIMIT of SearchTag, 25
  PermsAsked,     \* the permissions that clients ask for
  RanksGiven,     \* the ranks that accounts are promoted to
  MaxChanges,     \* bound: changes to the board
  None

PostIds == 1 .. MaxPosts
Viewers == Names \cup {Guest}

\* A word of a query is a tag or a mention, "@name".
Tag(t)     == [at |-> FALSE, word |-> t]
Mention(u) == [at |-> TRUE, word |-> u]

ASSUME SearchAssumption ==
  /\ Owner \in Names /\ Guest \notin Names /\ None \notin Names \cup Int
  /\ LegalTags \subseteq Tags /\ IsFiniteSet(LegalTags)    \* of MaxTagLen bytes at most
  /\ Prefixed \subseteq SUBSET LegalTags
  /\ MaxPosts \in Nat /\ OldPosts \subseteq PostIds /\ OldTags \subseteq SUBSET LegalTags
  /\ Size \in [PostIds -> Nat \ {0}]
  /\ \A t \in OldTags : \A v, w \in t : v # w => Fold[v] # Fold[w]
  /\ Walks \subseteq Queries
  /\ \A q \in Queries : q \in Seq({Tag(t) : t \in Tags} \cup {Mention(u) : u \in Viewers})
  /\ {QueryTagLimit, PageCountLimit, PageSize, Wrap, SearchTagLimit} \subseteq Nat \ {0}
  /\ PageSize <= PageCountLimit
  /\ MaxPosts <= Wrap \div 2      \* IDs are int64
  /\ PermsAsked \subseteq Int /\ MaxChanges \in Nat
  /\ RanksGiven \subseteq PermissionUser .. PermissionAdministrator

VARIABLES
  accounts,   \* users.permission, or None
  posts,      \* table posts: a row or None per ID
  tags,       \* table posttags
  changes,    \* number of changes to the board
  who,        \* the reader
  query,      \* the query the reader has typed
  page,       \* ?p=, from 1
  stage,      \* where the request for this page is
  listed,     \* the posts of this page
  seen        \* the posts of the pages before

\* History variables: no action reads them.
VARIABLES
  stayed,     \* posts that the search has found ever since the walk began
  left        \* number of times that the search ceased to find a post

board  == <<accounts, posts, tags>>
reader == <<who, query, page, stage, listed, seen>>
hist   == <<stayed, left>>
vars   == <<board, changes, reader, hist>>

-----------------------------------------------------------------------------
(* Who may do what, on the server *)

\* Database.permission
permission(u) ==
  IF u = Owner THEN PermissionOwner
  ELSE IF u \notin Names \/ accounts[u] = None THEN NoPermission
  ELSE accounts[u]

Permission(u) == IF u = Guest THEN PermissionGuest ELSE permission(u)

PosterName(i) == IF posts[i].poster = None THEN Guest ELSE posts[i].poster

OverUser(u, min, v) ==
  /\ Permission(u) # NoPermission
  /\ HasPermOverUser(Permission(u), min, permission(v), u = v) = Granted

CanChangePost(u, i) ==
  u = PosterName(i) \/ OverUser(u, PermissionAdministrator, PosterName(i))

\* SetPostPermission, which cannot scan a poster that is NULL.
CanSetPermission(u, i, target) ==
  posts[i].poster # None /\ OverUser(u, target, posts[i].poster)

CanPromote(u, v, p) ==
  /\ u # v /\ OverUser(u, p, v)
  /\ p \in PermissionUser .. PermissionAdministrator

\* The WHERE clause of every statement that reads posts.
Visible(u, i) ==
  /\ posts[i] # None /\ Permission(u) # NoPermission
  /\ posts[i].poster = u \/ posts[i].perm <= Permission(u)

-----------------------------------------------------------------------------
(* ParsePostQuery *)

\* The places of the tags among the words; pq.Tags is as long.
TagWords(q) == {n \in DOMAIN q : ~q[n].at}

QueryTags(q) == {q[n].word : n \in TagWords(q)}

\* Mentions of nobody are ignored; Guest is the empty name of a query without one.
QueryPoster(q) ==
  IF \E n \in DOMAIN q : q[n].at /\ q[n].word # Guest
  THEN (CHOOSE w \in ToSet(q) : w.at /\ w.word # Guest).word
  ELSE Guest

TagIsValid(t) == t \in LegalTags

\* A mention after one of somebody, an illegal tag or too many tags are errors.
Parses(q) ==
  /\ ~ \E m, n \in DOMAIN q : m < n /\ q[m].at /\ q[m].word # Guest /\ q[n].at
  /\ \A t \in QueryTags(q) : TagIsValid(t)
  /\ Cardinality(TagWords(q)) <= QueryTagLimit

-----------------------------------------------------------------------------
(* Transaction.posts *)

\* The error of d.User for a poster that does not exist.
PosterExists(q) == QueryPoster(q) # Guest => accounts[QueryPoster(q)] # None

\* The tags of a post that are IN the list: the rows of the group of this post.
Joined(i, q) == tags[i] \cap QueryTags(q)

\* Mutant: HAVING only asks for some tag.
HavingSome(i, q) == Joined(i, q) # {}

\* GROUP BY posts.id HAVING COUNT(posttags.tagname) = ?
Having(i, q) == Joined(i, q) # {} /\ Cardinality(Joined(i, q)) = Cardinality(TagWords(q))

Found(u, q) ==
  LET poster == QueryPoster(q)
      tagged == QueryTags(q) # {}
  IN  {i \in PostIds :
         /\ Visible(u, i)
         /\ poster # Guest => posts[i].poster = poster
         /\ tagged => Having(i, q)}

\* SUM(size) * COUNT(DISTINCT id) / COUNT(id) of the group of one post, which has
\* one distinct ID
GroupSize(i, q) ==
  LET rows == Cardinality(Joined(i, q)) IN (rows * Size[i]) \div rows

\* SUM(postsize): without tags there is one group, of everything.
Sizes(u, q) ==
  SumFunction([i \in Found(u, q) |-> IF QueryTags(q) = {} THEN Size[i] ELSE GroupSize(i, q)])

\* Mutant: the offset counts posts, not pages.
OffsetOfPosts(count, p) == p

\* count*page, of two uints.
Offset(count, p) == (count * p) % Wrap

\* LIMIT from, count
Limit(s, from, count) == SubSeq(s, from + 1, Min({from + count, Len(s)}))

\* ORDER BY posts.id DESC
Ordered(found) ==
  CHOOSE s \in SetToSeqs(found) : \A m, n \in DOMAIN s : m < n => s[m] > s[n]

\* LIMIT ?, ? of what is found
PageOf(ordered, count, p) == Limit(ordered, Offset(count, p), count)

-----------------------------------------------------------------------------
(* Transaction.Post, SearchTag and SearchUsers *)

\* COUNT(1) of the join of posttags with the tags of one post
TagCount(t) == Cardinality({j \in PostIds : t \in tags[j]})

\* COUNT(1) of the join of posttags with itself: a row for each pair of posts
PairCount(t) == Cardinality({ij \in PostIds \X PostIds : t \in tags[ij[1]] /\ t \in tags[ij[2]]})

\* ORDER BY COUNT(1) DESC
Before(s, t) == PairCount(s) >= PairCount(t)

\* The answers that SearchTag may give for a prefix, in any order of equal tags.
SearchTag(prefix) ==
  LET used == {t \in prefix : \E i \in PostIds : t \in tags[i]} IN
    {Limit(s, 0, SearchTagLimit) : s \in {s \in SetToSeqs(used) :
       \A m, n \in DOMAIN s : m < n => Before(s[m], s[n])}}

\* Mutant: users of the same rank are listed too.
SearchUsersInclusive(u) ==
  IF HasPermission(Permission(u), PermissionAdministrator, TRUE) = Granted
  THEN {v \in Names : accounts[v] # None /\ accounts[v] <= Permission(u)} ELSE {}

\* Users by the rank that is stored, for administrators and the owner (p++).
SearchUsers(u) ==
  LET p == IF Permission(u) = PermissionOwner THEN Permission(u) + 1 ELSE Permission(u) IN
    IF HasPermission(Permission(u), PermissionAdministrator, TRUE) = Granted
    THEN {v \in Names : accounts[v] # None /\ accounts[v] < p}
    ELSE {}

-----------------------------------------------------------------------------
(* What the pages of the frontend offer *)

\* UserPart.CanSetPostPermission: -1 for a post without a poster.
ShowsPermission(u, i, target) ==
  HasPermOverUser(Permission(u), target, permission(PosterName(i)), u = PosterName(i)) = Granted

\* The permissions up to the first for which this fails.
UpTo(perms, Ok(_)) == {p \in perms : \A q \in perms : q <= p => Ok(q)}

\* renderCtx.AllowedSetPerms of the page of a post
AllowedSetPerms(u, i) == UpTo(AllPermissions, LAMBDA p : ShowsPermission(u, i, p))

\* UserPart.AllowedPermissions, in the form that uploads
AllowedPermissions(u) ==
  IF Permission(u) = PermissionGuest THEN {}
  ELSE UpTo(AllPermissions, LAMBDA p : p <= Permission(u))

\* renderCtx.AllowedPromotes of the list of users
AllowedPromotes(u, v) ==
  IF Permission(u) < permission(v) \/ u = v THEN {}
  ELSE UpTo(PermissionUser .. PermissionAdministrator, LAMBDA p :
         HasPermOverUser(Permission(u), p, permission(v), FALSE) = Granted)

-----------------------------------------------------------------------------
(* The reader *)

\* Mutant: the last page is left out.
NumPagesShort(total) == (total - 1) \div PageSize

\* numPages of the pager
NumPages(total) == (total + PageSize - 1) \div PageSize

StartWalk(u, q) ==
  /\ stage = "idle"
  /\ u # Guest => accounts[u] # None
  /\ Parses(q)
  /\ who' = u /\ query' = q /\ page' = 1
  /\ stage' = "request" /\ listed' = <<>> /\ seen' = {}
  /\ stayed' = Found(u, q) /\ left' = 0
  /\ UNCHANGED <<board, changes>>

\* The page arrives: the pager enables "Next" up to the last page.
Show(ids, total) ==
  /\ seen' = seen \cup ToSet(ids)
  /\ listed' = <<>>
  /\ IF page + 1 <= NumPages(total)
     THEN page' = page + 1 /\ stage' = "request"
     ELSE stage' = "done" /\ UNCHANGED page
  /\ UNCHANGED <<board, changes, who, query, hist>>

Fails == stage' = "failed" /\ UNCHANGED <<board, changes, who, query, page, listed, seen, hist>>

\* There is no session any more, or no poster.
RequestFails ==
  /\ stage = "request"
  /\ \/ who # Guest /\ accounts[who] = None
     \/ ~PosterExists(query)
  /\ Fails

\* Someone signed in: the posts and their total are of one transaction.
ListPosts ==
  /\ stage = "request" /\ who # Guest /\ accounts[who] # None
  /\ PosterExists(query)
  /\ LET ids == PageOf(Ordered(Found(who, query)), PageSize, page - 1) IN
       Show(ids, IF ids = <<>> THEN 0 ELSE Cardinality(Found(who, query)))

\* A guest: d.User
GuestFindsUser ==
  /\ stage = "request" /\ who = Guest
  /\ PosterExists(query)
  /\ stage' = "query"
  /\ UNCHANGED <<board, changes, who, query, page, listed, seen, hist>>

\* A guest: the page.  Nothing is counted when it is empty.
GuestQueries ==
  /\ stage = "query"
  /\ LET ids == PageOf(Ordered(Found(who, query)), PageSize, page - 1) IN
       IF ids = <<>> THEN Show(ids, 0)
       ELSE /\ stage' = "count" /\ listed' = ids
            /\ UNCHANGED <<board, changes, who, query, page, seen, hist>>

\* A guest: the count.  The sum over nothing is NULL, which is not scanned.
GuestCounts ==
  /\ stage = "count"
  /\ IF Found(who, query) = {} THEN Fails ELSE Show(listed, Cardinality(Found(who, query)))

Read == RequestFails \/ ListPosts \/ GuestFindsUser \/ GuestQueries \/ GuestCounts

-----------------------------------------------------------------------------
(* Others, meanwhile *)

\* A change to the board, and what it does to the search of the reader.
Change ==
  /\ changes < MaxChanges /\ changes' = changes + 1
  /\ UNCHANGED reader
  /\ IF stage \in {"request", "query", "count"}
     THEN /\ stayed' = stayed \cap Found(who, query)'
          /\ left' = left + Cardinality(Found(who, query) \ Found(who, query)')
     ELSE UNCHANGED hist

\* SavePost, with the next snowflake.
SavePost(u, i, p) ==
  /\ accounts[u] # None
  /\ posts[i] = None /\ i \notin OldPosts /\ \A j \in PostIds \ OldPosts : j < i => posts[j] # None
  /\ posts' = [posts EXCEPT ![i] = [poster |-> u, perm |-> p]]
  /\ UNCHANGED <<accounts, tags>>
  /\ Change

\* A post that is visible is deleted, and its tags with it.
DeletePost(u, i) ==
  /\ Visible(u, i) /\ CanChangePost(u, i)
  /\ posts' = [posts EXCEPT ![i] = None]
  /\ tags' = [tags EXCEPT ![i] = {}]
  /\ UNCHANGED accounts
  /\ Change

SetPostPermission(u, i, p) ==
  /\ posts[i] # None /\ CanSetPermission(u, i, p) /\ p # posts[i].perm
  /\ posts' = [posts EXCEPT ![i].perm = p]
  /\ UNCHANGED <<accounts, tags>>
  /\ Change

\* Mutant: a post has a tag in upper and in lower case.
TagExactly(u, i, t) ==
  /\ posts[i] # None /\ CanChangePost(u, i) /\ t \in LegalTags \ tags[i]
  /\ tags' = [tags EXCEPT ![i] = @ \cup {t}]
  /\ UNCHANGED <<accounts, posts>>
  /\ Change

\* Mutant: TagPost does not ask TagIsValid.
TagUnchecked(u, i, t) ==
  /\ posts[i] # None /\ CanChangePost(u, i)
  /\ \A s \in tags[i] : Fold[s] # Fold[t]
  /\ tags' = [tags EXCEPT ![i] = @ \cup {t}]
  /\ UNCHANGED <<accounts, posts>>
  /\ Change

\* UNIQUE (postid, tagname COLLATE NOCASE)
TagPost(u, i, t) ==
  /\ TagIsValid(t) /\ posts[i] # None /\ CanChangePost(u, i)
  /\ \A s \in tags[i] : Fold[s] # Fold[t]
  /\ tags' = [tags EXCEPT ![i] = @ \cup {t}]
  /\ UNCHANGED <<accounts, posts>>
  /\ Change

UntagPost(u, i, t) ==
  /\ posts[i] # None /\ CanChangePost(u, i) /\ t \in tags[i]
  /\ tags' = [tags EXCEPT ![i] = @ \ {t}]
  /\ UNCHANGED <<accounts, posts>>
  /\ Change

PromoteUser(u, v, p) ==
  /\ accounts[u] # None /\ accounts[v] # None /\ CanPromote(u, v, p)
  /\ accounts' = [accounts EXCEPT ![v] = p]
  /\ UNCHANGED <<posts, tags>>
  /\ Change

\* The posts of the account lose their poster.
DeleteUser(u, v) ==
  /\ accounts[u] # None /\ accounts[v] # None /\ v # Owner
  /\ u = v \/ OverUser(u, PermissionAdministrator, v)
  /\ accounts' = [accounts EXCEPT ![v] = None]
  /\ posts' = [i \in PostIds |-> IF posts[i] # None /\ posts[i].poster = v
                                 THEN [posts[i] EXCEPT !.poster = None] ELSE posts[i]]
  /\ UNCHANGED tags
  /\ Change

Others ==
  \/ \E u \in Viewers, i \in PostIds : DeletePost(u, i)
  \/ \E u \in Viewers, i \in PostIds, t \in Tags : TagPost(u, i, t) \/ UntagPost(u, i, t)
  \/ \E u \in Names, i \in PostIds, p \in PermsAsked :
       SavePost(u, i, p) \/ SetPostPermission(u, i, p)
  \/ \E u, v \in Names : DeleteUser(u, v) \/ \E p \in RanksGiven : PromoteUser(u, v, p)

\* Everybody has an account, and some have posted something.
Init ==
  /\ accounts = [u \in Names |-> PermissionUser]
  /\ posts \in {f \in [PostIds -> [poster : Names, perm : PermsAsked] \cup {None}] :
                  \A i \in PostIds : f[i] # None <=> i \in OldPosts}
  /\ tags \in {f \in [PostIds -> OldTags \cup {{}}] :
                 \A i \in PostIds : i \notin OldPosts => f[i] = {}}
  /\ changes = 0
  /\ who = Guest /\ query = <<>> /\ page = 1 /\ stage = "idle" /\ listed = <<>> /\ seen = {}
  /\ stayed = {} /\ left = 0

Next == (\E u \in Viewers, q \in Walks : StartWalk(u, q)) \/ Read \/ Others

Spec == Init /\ [][Next]_vars

-----------------------------------------------------------------------------
(* Properties *)

\* What is found, counted and offered depends on the board alone, and the board
\* changes whether somebody reads or not: it is looked at before anybody does.
Unread == stage = "idle"

\* Rows and the reader have their shapes.
TypeOK ==
  /\ accounts \in [Names -> (PermissionUser .. PermissionAdministrator) \cup {None}]
  /\ posts \in [PostIds -> [poster : Names \cup {None}, perm : PermsAsked] \cup {None}]
  /\ tags \in [PostIds -> SUBSET LegalTags]
  /\ changes \in 0 .. MaxChanges
  /\ who \in Viewers /\ query \in Walks \cup {<<>>} /\ page \in Nat \ {0}
  /\ stage \in {"idle", "request", "query", "count", "done", "failed"}
  /\ ToSet(listed) \subseteq PostIds /\ seen \subseteq PostIds
  /\ stayed \subseteq PostIds /\ left \in Nat

\* A query finds the posts that the viewer may see, that are by everybody it
\* mentions, and that have all its tags ("only show posts with all the tags
\* searched"), however the join multiplies rows; one that repeats a tag finds
\* nothing.  "sizes is the total size of all posts found", each counted once.
FoundExactly ==
  Unread => \A u \in Viewers, q \in Queries : Parses(q) =>
    /\ Sizes(u, q) = SumFunction(Restrict(Size, Found(u, q)))
    /\ Found(u, q) =
      {i \in PostIds :
         /\ Visible(u, i)
         /\ \A m, n \in DOMAIN q : ~q[m].at /\ q[m] = q[n] => m = n
         /\ \A n \in DOMAIN q : q[n].at /\ q[n].word # Guest => posts[i].poster = q[n].word
         /\ \A n \in DOMAIN q : ~q[n].at => q[n].word \in tags[i]}

\* The pages of a search, newest post first, are disjoint and make up everything
\* found, as many as the pager says and empty from there on, up to the page whose
\* offset is not an int64 any more.
PagesPartition ==
  Unread => \A u \in Viewers, q \in Walks, count \in 1 .. PageCountLimit :
    LET found == Found(u, q)
        pages == 0 .. (Wrap \div 2 - 1) \div count
        Ids(p) == PageOf(Ordered(found), count, p)
    IN  /\ found = UNION {ToSet(Ids(p)) : p \in pages}
        /\ \A p \in pages : Len(Ids(p)) <= count
        /\ \A p, r \in pages : \A m \in DOMAIN Ids(p), n \in DOMAIN Ids(r) :
             p < r \/ (p = r /\ m < n) => Ids(p)[m] > Ids(r)[n]
        /\ count = PageSize =>
             \A p \in pages : Ids(p) # <<>> <=> p < NumPages(Cardinality(found))

\* Whoever walks through the pages of a search misses at most one post, of those
\* that it finds all the time, for each that leaves it meanwhile, although every
\* page is a search of its own: posts that come, at the top, only repeat others.
MissesAtMostWhatLeft ==
  stage = "done" => Cardinality(stayed \ seen) <= left

\* A post has a tag at most once up to case, so that the number that its page shows
\* next to a tag is the number of posts that have it, and the tags that SearchTag
\* suggests are the most common.
TagsCounted == Unread =>
  /\ \A i \in PostIds : \A s, t \in tags[i] : s # t => Fold[s] # Fold[t]
  /\ \A prefix \in Prefixed : \A s \in SearchTag(prefix) :
       \A n \in DOMAIN s, t \in prefix :
         t \in ToSet(s) \/ TagCount(t) <= TagCount(s[n])

\* The pages offer what the server then grants, and all of it: the permissions of a
\* post of somebody, those of an upload, the ranks for a user; and a user on the list
\* is one to whom ranks can be given.  Where the code keeps neither promise nothing is
\* said: for the buttons that change a post, the posts of nobody, and the Owner on the
\* list of an administrator.
ButtonsWork ==
  Unread => \A u \in Names : accounts[u] # None =>
    /\ \A i \in PostIds : Visible(u, i) /\ posts[i].poster # None =>
         /\ AllowedSetPerms(u, i) = {p \in AllPermissions : CanSetPermission(u, i, p)}
         /\ posts[i].poster = u => AllowedPermissions(u) = AllowedSetPerms(u, i)
    /\ \A v \in SearchUsers(u) :
         /\ AllowedPromotes(u, v) = {p \in AllPermissions : CanPromote(u, v, p)}
         /\ v # Owner => AllowedPromotes(u, v) # {}
=============================================================================
