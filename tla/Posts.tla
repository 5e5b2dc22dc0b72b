------------------------------- MODULE Posts -------------------------------
(***************************************************************************)
(* Posts and their tags (server/db/post.go, server/http/post), the files    *)
(* they stand for (server/http/upload) and the cached thumbnails of these   *)
(* (server/http/upload/imgsrv).                                             *)
(*                                                                          *)
(* The database has transactions, the disk and the cache have none, and     *)
(* CleanupPosts works in a goroutine that nobody waits for: the requests    *)
(* that touch both sides, UploadPost, DeletePost and ServeThumbnail, are    *)
(* several actions.  Those that only touch the database are one for a       *)
(* caller with a session, who has a transaction, and one per statement for  *)
(* a guest, who has none.                                                   *)
(*                                                                          *)
(* Accounts are here what posts depend on: a rank, and whether there is a   *)
(* session; module Accounts says how they change.                           *)
(***************************************************************************)
EXTENDS Permissions, FiniteSets

CONSTANTS
  Names,          \* usernames
  Owner,          \* DBConfig.Owner
  Guest,          \* the empty username of a request without a session
  Tags,           \* tag names, up to case (UNIQUE ... COLLATE NOCASE)
  MaxPosts,       \* bound: post IDs ever generated
  MaxFiles,       \* files in one upload
  Requests,       \* uploads, deletions and thumbnails in flight together
  PermsAsked,     \* the "p" form values that clients send
  RanksGiven,     \* the ranks that accounts are promoted to
  FkModes,        \* PRAGMA foreign_keys of the pooled connections
  MaxFaults,      \* bound: commits and removals that fail, restarts of the server
  None

PostIds == 1 .. MaxPosts

ASSUME PostsAssumption ==
  /\ Owner \in Names /\ Guest \notin Names
  /\ MaxPosts \in Nat /\ MaxFiles \in Nat /\ MaxFaults \in Nat
  /\ PermsAsked \subseteq Int
  /\ RanksGiven \subseteq PermissionUser .. PermissionAdministrator
  /\ FkModes \subseteq BOOLEAN
  /\ None \notin Names \cup {Guest} \cup Requests

VARIABLES
  accounts,   \* users.permission, or None
  sessions,   \* the names that have a session
  posts,      \* table posts: a row or None per ID
  tags,       \* table posttags
  made,       \* number of post IDs generated (snowflakes: never reused)
  files,      \* the posts whose file is in the file directory
  thumbs,     \* the posts whose thumbnail is in the cache
  removing,   \* number of goroutines of CleanupPosts about to remove the file
  uncaching,  \* the same, about to erase the thumbnail
  pc,         \* where a request is
  job,        \* its caller, its posts, those still to download, their permission
  lock,       \* the request whose transaction holds the write lock
  stale,      \* requests whose transaction reads a state that is not current
  faults      \* commits and removals that failed and restarts so far

\* History variables: no action reads them.
VARIABLES
  lost,       \* files nobody is going to remove
  torn,       \* posts whose deletion was not committed
  saved       \* posts that have ever been in the database

db   == <<accounts, sessions, posts, tags>>
disk == <<files, thumbs, removing, uncaching>>
ctl  == <<made, pc, job, faults>>
hist == <<lost, torn, saved>>
vars == <<db, disk, ctl, lock, stale, hist>>

PostRow == [poster : Names \cup {None}, perm : Int]
Job     == [caller : Names \cup {Guest}, ids : SUBSET PostIds,
            left : SUBSET PostIds, perm : Int]
Places  == {"idle", "download", "failing", "commitUpload", "commitDelete",
            "stat", "get", "decode", "put",
            "guestCheck", "guestDelete", "guestTag", "guestUntag"}

\* None is what no row and no request looks like.
ASSUME NoneAssumption == None \notin PostRow \cup Job

-----------------------------------------------------------------------------
(* Who may do what *)

\* Database.permission
permission(u) ==
  IF u = Owner THEN PermissionOwner
  ELSE IF u \notin Names \/ accounts[u] = None THEN NoPermission
  ELSE accounts[u]

\* Transaction.Permission of the caller: ErrUserNotFound is NoPermission.
Permission(u) == IF u = Guest THEN PermissionGuest ELSE permission(u)

Callers == sessions \cup {Guest}

\* The WHERE clause of Post and PostQuickGet.  A poster that is NULL equals nobody.
Visible(u, i) ==
  /\ posts[i] # None /\ Permission(u) # NoPermission
  /\ posts[i].poster = u \/ posts[i].perm <= Permission(u)

\* Transaction.Post, which also fails for a poster whose account is gone.
Gettable(u, i) ==
  /\ Visible(u, i)
  /\ posts[i].poster # None => accounts[posts[i].poster] # None

\* Transaction.HasPermOverUser
OverUser(u, min, v) ==
  /\ Permission(u) # NoPermission
  /\ HasPermOverUser(Permission(u), min, permission(v), u = v) = Granted

\* The poster as canChangePost reads it: NULL becomes the empty name.
PosterName(i) == IF posts[i].poster = None THEN Guest ELSE posts[i].poster

CanChangePost(u, i) ==
  /\ posts[i] # None
  /\ u = PosterName(i) \/ OverUser(u, PermissionAdministrator, PosterName(i))

-----------------------------------------------------------------------------
(* Database, disk and goroutines *)

\* A write to the database by someone other than the holder of the lock has to
\* wait; when it commits, the transactions that have read become stale.
Commits(r) ==
  /\ lock \in {r, None}
  /\ lock' = None
  /\ stale' = (stale \cup {q \in Requests : pc[q] \in {"download", "failing"}}) \ {r}

\* CleanupPosts: a goroutine for these posts.
Cleanup(ids) ==
  removing' = [i \in PostIds |-> IF i \in ids THEN removing[i] + 1 ELSE removing[i]]

Fault == faults < MaxFaults /\ faults' = faults + 1

Start(r, place, j) ==
  /\ pc[r] = "idle"
  /\ pc' = [pc EXCEPT ![r] = place]
  /\ job' = [job EXCEPT ![r] = j]

Goto(r, place) == pc' = [pc EXCEPT ![r] = place] /\ UNCHANGED job

\* Mutant: what the request was about is kept.
EndKeepingJob(r) == pc' = [pc EXCEPT ![r] = "idle"] /\ UNCHANGED job

End(r) ==
  /\ pc' = [pc EXCEPT ![r] = "idle"]
  /\ job' = [job EXCEPT ![r] = None]

\* ON DELETE CASCADE of posttags.postid, where foreign keys are enforced.
TagsWithout(ids, fk) == [i \in PostIds |-> IF fk /\ i \in ids THEN {} ELSE tags[i]]

-----------------------------------------------------------------------------
(* Requests that only touch the database *)

\* The poster is scanned into a string, which fails for NULL.  No guest gets past
\* OverUser, so that the statements are in a transaction.
SetPostPermission(u, i, target) ==
  /\ posts[i] # None /\ posts[i].poster # None
  /\ OverUser(u, target, posts[i].poster)
  /\ Commits(None)
  /\ posts' = [posts EXCEPT ![i] = [poster |-> @.poster, perm |-> target]]
  /\ UNCHANGED <<accounts, sessions, tags, disk, ctl, hist>>

TagPost(u, i, t) ==
  /\ u # Guest /\ CanChangePost(u, i)
  /\ t \notin tags[i]
  /\ Commits(None)
  /\ tags' = [tags EXCEPT ![i] = @ \cup {t}]
  /\ UNCHANGED <<accounts, sessions, posts, disk, ctl, hist>>

UntagPost(u, i, t) ==
  /\ u # Guest /\ CanChangePost(u, i)
  /\ t \in tags[i]
  /\ Commits(None)
  /\ tags' = [tags EXCEPT ![i] = @ \ {t}]
  /\ UNCHANGED <<accounts, sessions, posts, disk, ctl, hist>>

\* canChangePost for a guest, on whose result the next statement relies.
GuestMayChange(r, i, place) ==
  /\ CanChangePost(Guest, i)
  /\ Start(r, place, [caller |-> Guest, ids |-> {i}, left |-> {}, perm |-> 0])
  /\ UNCHANGED <<db, disk, made, faults, lock, stale, hist>>

\* The INSERT of a guest: the post may be gone, which only a foreign key notices.
GuestTags(r, i, t, fk) ==
  /\ pc[r] = "guestTag" /\ i \in job[r].ids
  /\ t \notin tags[i] /\ (fk => posts[i] # None)
  /\ tags' = [tags EXCEPT ![i] = @ \cup {t}]
  /\ Commits(None)
  /\ End(r)
  /\ UNCHANGED <<accounts, sessions, posts, disk, made, faults, hist>>

GuestUntags(r, i, t) ==
  /\ pc[r] = "guestUntag" /\ i \in job[r].ids
  /\ t \in tags[i]
  /\ tags' = [tags EXCEPT ![i] = @ \ {t}]
  /\ Commits(None)
  /\ End(r)
  /\ UNCHANGED <<accounts, sessions, posts, disk, made, faults, hist>>

-----------------------------------------------------------------------------
(* UploadPost *)

\* BeginTx, which reads and may renew the session (a write, so that the lock is
\* held while the files are stored), and CreatePosts up to its goroutines.
UploadBegin(r, u, n, p, renews) ==
  /\ made + n <= MaxPosts
  /\ LET new == made + 1 .. made + n IN
       Start(r, "download", [caller |-> u, ids |-> new, left |-> new, perm |-> p])
  /\ made' = made + n
  /\ IF renews THEN u # Guest /\ lock = None /\ lock' = r ELSE UNCHANGED lock
  /\ UNCHANGED <<db, disk, faults, stale, hist>>

\* One goroutine of CreatePosts stores its file, or fails and leaves none.
Download(r, i) ==
  /\ pc[r] \in {"download", "failing"} /\ i \in job[r].left
  /\ files' = files \cup {i}
  /\ job' = [job EXCEPT ![r].left = @ \ {i}]
  /\ UNCHANGED <<db, thumbs, removing, uncaching, made, pc, faults, lock, stale, hist>>

DownloadFails(r, i) ==
  /\ pc[r] \in {"download", "failing"} /\ i \in job[r].left
  /\ job' = [job EXCEPT ![r].left = @ \ {i}, ![r].ids = @ \ {i}]
  /\ pc' = [pc EXCEPT ![r] = "failing"]
  /\ UNCHANGED <<db, disk, made, faults, lock, stale, hist>>

\* Mutant: the files are left where they are.
EndUploadOnly(r) ==
  /\ lock' = IF lock = r THEN None ELSE lock
  /\ stale' = stale \ {r}
  /\ End(r)
  /\ UNCHANGED <<db, disk, made, faults, hist>>

\* The handler cleans up what it stored and returns an error: Rollback.
EndUpload(r) ==
  /\ Cleanup(job[r].ids)
  /\ lock' = IF lock = r THEN None ELSE lock
  /\ stale' = stale \ {r}
  /\ End(r)
  /\ UNCHANGED <<db, files, thumbs, uncaching, made, faults, hist>>

\* errgroup.Wait: every goroutine has ended, one of them with an error.
CreatePostsFails(r) ==
  /\ pc[r] = "failing" /\ job[r].left = {}
  /\ EndUpload(r)

\* Mutant: the posts are saved while files are still coming in.
SaveEarly(r) ==
  /\ pc[r] = "download"
  /\ HasPermission(Permission(job[r].caller), PermissionUser, TRUE) = Granted
  /\ r \notin stale /\ lock \in {r, None}
  /\ lock' = r
  /\ Goto(r, "commitUpload")
  /\ UNCHANGED <<db, disk, made, faults, stale, hist>>

\* SavePost of every post.  The INSERT needs the lock and a state that is current.
SavePosts(r) ==
  /\ pc[r] = "download" /\ job[r].left = {}
  /\ HasPermission(Permission(job[r].caller), PermissionUser, TRUE) = Granted
  /\ r \notin stale /\ lock \in {r, None}
  /\ lock' = r
  /\ Goto(r, "commitUpload")
  /\ UNCHANGED <<db, disk, made, faults, stale, hist>>

\* A SavePost fails: no permission, an empty file, the transaction is stale, the
\* lock is taken, the client has hung up.
SavePostFails(r) ==
  /\ pc[r] = "download" /\ job[r].left = {}
  /\ EndUpload(r)

UploadCommit(r) ==
  /\ pc[r] = "commitUpload"
  /\ posts' = [i \in PostIds |->
       IF i \in job[r].ids THEN [poster |-> job[r].caller, perm |-> job[r].perm]
       ELSE posts[i]]
  /\ saved' = saved \cup job[r].ids
  /\ Commits(r)
  /\ End(r)
  /\ UNCHANGED <<accounts, sessions, tags, disk, made, faults, lost, torn>>

\* COMMIT fails, after the handler: nobody cleans up.  One that is reported as
\* failed and took effect all the same is UploadCommit.
UploadCommitFails(r) ==
  /\ pc[r] = "commitUpload"
  /\ Fault
  /\ lost' = lost \cup job[r].ids
  /\ lock' = None
  /\ End(r)
  /\ UNCHANGED <<db, disk, made, stale, torn, saved>>

-----------------------------------------------------------------------------
(* DeletePost *)

\* The row and, by its cascade, the tags.
DeleteRows(ids, fk) ==
  /\ posts' = [i \in PostIds |-> IF i \in ids THEN None ELSE posts[i]]
  /\ tags' = TagsWithout(ids, fk)

\* Mutant: DeletePost does not take the lock before it cleans up.
DeleteWithoutLock(r, u, i) ==
  /\ u # Guest /\ Gettable(u, i) /\ CanChangePost(u, i)
  /\ Cleanup({i})
  /\ Start(r, "commitDelete", [caller |-> u, ids |-> {i}, left |-> {}, perm |-> 0])
  /\ UNCHANGED <<db, files, thumbs, uncaching, made, faults, lock, stale, hist>>

\* The handler of someone signed in, up to its COMMIT: the goroutine of
\* CleanupPost is already running.
DeletePost(r, u, i) ==
  /\ u # Guest /\ Gettable(u, i) /\ CanChangePost(u, i)
  /\ lock = None /\ lock' = r
  /\ Cleanup({i})
  /\ Start(r, "commitDelete", [caller |-> u, ids |-> {i}, left |-> {}, perm |-> 0])
  /\ UNCHANGED <<db, files, thumbs, uncaching, made, faults, stale, hist>>

\* A guest's handler: Post, canChangePost and the DELETE are by themselves.
GuestGets(r, i) ==
  /\ Gettable(Guest, i)
  /\ Start(r, "guestCheck", [caller |-> Guest, ids |-> {i}, left |-> {}, perm |-> 0])
  /\ UNCHANGED <<db, disk, made, faults, lock, stale, hist>>

GuestChecks(r) ==
  /\ pc[r] = "guestCheck"
  /\ \A i \in job[r].ids : CanChangePost(Guest, i)
  /\ Goto(r, "guestDelete")
  /\ UNCHANGED <<db, disk, made, faults, lock, stale, hist>>

\* The DELETE finds its row.  When it took effect but is reported as failed, for
\* instance because the guest has hung up, the handler does not clean up.
GuestDeletes(r, i, fk) ==
  /\ pc[r] = "guestDelete" /\ i \in job[r].ids
  /\ posts[i] # None
  /\ DeleteRows({i}, fk)
  /\ Commits(None)
  /\ \/ Cleanup({i}) /\ UNCHANGED <<lost, faults>>
     \/ Fault /\ lost' = lost \cup {i} /\ UNCHANGED removing
  /\ End(r)
  /\ UNCHANGED <<accounts, sessions, files, thumbs, uncaching, made, torn, saved>>

\* The row is not there any more, or a statement fails.
GuestFails(r) ==
  /\ pc[r] \in {"guestCheck", "guestDelete", "guestTag", "guestUntag"}
  /\ End(r)
  /\ UNCHANGED <<db, disk, made, faults, lock, stale, hist>>

DeleteCommit(r, fk) ==
  /\ pc[r] = "commitDelete"
  /\ DeleteRows(job[r].ids, fk)
  /\ Commits(r)
  /\ End(r)
  /\ UNCHANGED <<accounts, sessions, disk, made, faults, hist>>

\* As with UploadCommitFails, one that took effect all the same is DeleteCommit.
DeleteCommitFails(r) ==
  /\ pc[r] = "commitDelete"
  /\ Fault
  /\ torn' = torn \cup job[r].ids
  /\ lock' = None
  /\ End(r)
  /\ UNCHANGED <<db, disk, made, stale, lost, saved>>

-----------------------------------------------------------------------------
(* The goroutine of CleanupPosts *)

\* os.Remove.  When it fails, that is logged, and the file stays for good.
RemoveFile(i) ==
  /\ removing[i] > 0
  /\ \/ files' = files \ {i} /\ UNCHANGED <<lost, faults>>
     \/ i \in files /\ Fault /\ lost' = lost \cup {i} /\ UNCHANGED files
  /\ removing' = [removing EXCEPT ![i] = @ - 1]
  /\ uncaching' = [uncaching EXCEPT ![i] = @ + 1]
  /\ UNCHANGED <<db, thumbs, made, pc, job, lock, stale, torn, saved>>

\* thumbcache.Delete, whose error nobody looks at
Erase(ids) == thumbs' \in {thumbs, thumbs \ ids}

Uncache(i) ==
  /\ uncaching[i] > 0
  /\ Erase({i})
  /\ uncaching' = [uncaching EXCEPT ![i] = @ - 1]
  /\ UNCHANGED <<db, files, removing, ctl, lock, stale, hist>>

-----------------------------------------------------------------------------
(* ServeThumbnail, after its transaction has ended *)

\* Mutant: what is on the disk is shown.
ThumbOfFile(r, u, i) ==
  /\ i \in files
  /\ Start(r, "stat", [caller |-> Guest, ids |-> {i}, left |-> {}, perm |-> 0])
  /\ UNCHANGED <<db, disk, made, faults, lock, stale, hist>>

\* PostQuickGet; after it nothing depends on who asks.
ThumbBegin(r, u, i) ==
  /\ Visible(u, i)
  /\ Start(r, "stat", [caller |-> Guest, ids |-> {i}, left |-> {}, perm |-> 0])
  /\ UNCHANGED <<db, disk, made, faults, lock, stale, hist>>

\* os.Stat; a thumbnail without a file is erased.
Stat(r) ==
  /\ pc[r] = "stat"
  /\ IF job[r].ids \subseteq files
     THEN Goto(r, "get") /\ UNCHANGED thumbs
     ELSE End(r) /\ Erase(job[r].ids)
  /\ UNCHANGED <<db, files, removing, uncaching, made, faults, lock, stale, hist>>

\* thumbcache.Get
GetThumb(r) ==
  /\ pc[r] = "get"
  /\ IF job[r].ids \subseteq thumbs THEN End(r) ELSE Goto(r, "decode")
  /\ UNCHANGED <<db, disk, made, faults, lock, stale, hist>>

\* tryNativeJPEG and tryFFmpeg, which need the file and may fail with it
Decode(r) ==
  /\ pc[r] = "decode"
  /\ \/ job[r].ids \subseteq files /\ Goto(r, "put")
     \/ End(r)
  /\ UNCHANGED <<db, disk, made, faults, lock, stale, hist>>

\* thumbcache.Put, whose error is logged
PutThumb(r) ==
  /\ pc[r] = "put"
  /\ thumbs' \in {thumbs, thumbs \cup job[r].ids}
  /\ End(r)
  /\ UNCHANGED <<db, files, removing, uncaching, made, faults, lock, stale, hist>>

-----------------------------------------------------------------------------
(* What happens to accounts meanwhile (module Accounts) *)

\* createUser and newSession
SignUp(u) ==
  /\ accounts[u] = None
  /\ accounts' = [accounts EXCEPT ![u] = PermissionUser]
  /\ sessions' = sessions \cup {u}
  /\ Commits(None)
  /\ UNCHANGED <<posts, tags, disk, ctl, hist>>

PromoteUser(u, p) ==
  /\ accounts[u] # None
  /\ accounts' = [accounts EXCEPT ![u] = p]
  /\ Commits(None)
  /\ UNCHANGED <<sessions, posts, tags, disk, ctl, hist>>

\* ON DELETE SET NULL of posts.poster
WithoutPoster(u) ==
  [i \in PostIds |-> IF posts[i] # None /\ posts[i].poster = u
                     THEN [poster |-> None, perm |-> posts[i].perm] ELSE posts[i]]

DeleteUser(u, fk) ==
  /\ u # Owner /\ accounts[u] # None
  /\ accounts' = [accounts EXCEPT ![u] = None]
  /\ IF fk THEN posts' = WithoutPoster(u) /\ sessions' = sessions \ {u}
     ELSE UNCHANGED <<posts, sessions>>
  /\ Commits(None)
  /\ UNCHANGED <<tags, disk, ctl, hist>>

\* Any other commit, such as the renewal of a session.
RenewSession ==
  /\ Commits(None)
  /\ UNCHANGED <<db, disk, ctl, hist>>

\* The server stops and starts again.  The database rolls back, the disk stays.
Restart ==
  /\ Fault
  /\ pc' = [r \in Requests |-> "idle"]
  /\ job' = [r \in Requests |-> None]
  /\ removing' = [i \in PostIds |-> 0] /\ uncaching' = [i \in PostIds |-> 0]
  /\ lock' = None /\ stale' = {}
  /\ lost' = lost \cup {i \in files : posts[i] = None}
  /\ torn' = torn \cup UNION {job[r].ids : r \in {q \in Requests : pc[q] = "commitDelete"}}
  /\ UNCHANGED <<db, files, thumbs, made, saved>>

-----------------------------------------------------------------------------
\* A board whose owner has signed up, and nobody else.
Init ==
  /\ accounts = [u \in Names |-> IF u = Owner THEN PermissionUser ELSE None]
  /\ sessions = {Owner}
  /\ posts = [i \in PostIds |-> None]
  /\ tags = [i \in PostIds |-> {}]
  /\ made = 0 /\ faults = 0
  /\ files = {} /\ thumbs = {}
  /\ removing = [i \in PostIds |-> 0] /\ uncaching = [i \in PostIds |-> 0]
  /\ pc = [r \in Requests |-> "idle"] /\ job = [r \in Requests |-> None]
  /\ lock = None /\ stale = {}
  /\ lost = {} /\ torn = {} /\ saved = {}

DatabaseRequest(u) ==
  \E i \in PostIds :
    \/ \E target \in PermsAsked : SetPostPermission(u, i, target)
    \/ \E t \in Tags : TagPost(u, i, t) \/ UntagPost(u, i, t)

BeginRequest(r, u) ==
  \/ \E n \in 1 .. MaxFiles, p \in PermsAsked, renews \in BOOLEAN :
       UploadBegin(r, u, n, p, renews)
  \/ \E i \in PostIds : DeletePost(r, u, i) \/ ThumbBegin(r, u, i)

BeginGuestRequest(r) ==
  \E i \in PostIds :
    \/ GuestGets(r, i)
    \/ GuestMayChange(r, i, "guestTag") \/ GuestMayChange(r, i, "guestUntag")

\* What the goroutines of a request do by themselves.
Serve(r) ==
  \/ \E i \in PostIds : Download(r, i) \/ DownloadFails(r, i)
  \/ CreatePostsFails(r) \/ SavePosts(r) \/ SavePostFails(r)
  \/ UploadCommit(r) \/ UploadCommitFails(r)
  \/ \E fk \in FkModes : DeleteCommit(r, fk)
  \/ DeleteCommitFails(r)
  \/ GuestChecks(r) \/ GuestFails(r)
  \/ \E i \in PostIds, fk \in FkModes :
       \/ GuestDeletes(r, i, fk)
       \/ \E t \in Tags : GuestTags(r, i, t, fk) \/ GuestUntags(r, i, t)
  \/ Stat(r) \/ GetThumb(r) \/ Decode(r) \/ PutThumb(r)

CleanupPost(i) == RemoveFile(i) \/ Uncache(i)

AccountsChange ==
  \/ \E u \in Names : SignUp(u) \/ \E p \in RanksGiven : PromoteUser(u, p)
  \/ \E u \in Names, fk \in FkModes : DeleteUser(u, fk)
  \/ RenewSession

Next ==
  \/ \E u \in Callers : DatabaseRequest(u) \/ \E r \in Requests : BeginRequest(r, u)
  \/ \E r \in Requests : BeginGuestRequest(r) \/ Serve(r)
  \/ \E i \in PostIds : CleanupPost(i)
  \/ AccountsChange
  \/ Restart

Spec == Init /\ [][Next]_vars

-----------------------------------------------------------------------------
(* Properties *)

\* Rows, sets and requests have their shapes, and a request in flight has a job.
TypeOK ==
  /\ accounts \in [Names -> (PermissionUser .. PermissionAdministrator) \cup {None}]
  /\ sessions \subseteq Names
  /\ posts \in [PostIds -> PostRow \cup {None}]
  /\ tags \in [PostIds -> SUBSET Tags]
  /\ made \in 0 .. MaxPosts /\ faults \in Nat
  /\ files \subseteq PostIds /\ thumbs \subseteq PostIds
  /\ removing \in [PostIds -> Nat] /\ uncaching \in [PostIds -> Nat]
  /\ pc \in [Requests -> Places]
  /\ job \in [Requests -> Job \cup {None}]
  /\ \A r \in Requests : pc[r] # "idle" <=> job[r] # None
  /\ lock \in Requests \cup {None} /\ stale \subseteq Requests
  /\ lost \subseteq PostIds /\ torn \subseteq PostIds /\ saved \subseteq PostIds

Working(r, places, i) == pc[r] \in places /\ i \in job[r].ids

\* A post in the database has its file on the disk, unless it is being deleted or
\* its deletion was not committed: no upload is committed before its files are in
\* place, and no clean-up of one request takes the file of another.
PostsHaveFiles ==
  \A i \in PostIds : posts[i] # None =>
    i \in files \/ i \in torn \/ \E r \in Requests : Working(r, {"commitDelete"}, i)

\* A file on the disk belongs to a post, to an upload that has not ended, or to a
\* clean-up, unless it was abandoned: its upload could not be committed, a guest's
\* DELETE or an os.Remove was reported as failed, or the server stopped.
FilesAccountedFor ==
  \A i \in files :
    \/ posts[i] # None
    \/ i \in lost
    \/ removing[i] > 0
    \/ \E r \in Requests : Working(r, {"download", "failing", "commitUpload"}, i)

\* A thumbnail in the cache, be it one that was left there, is of a post that has
\* been saved: a file is on the disk long before its post is committed, and may go
\* again without, and nobody is shown what it holds.
ThumbnailsOfSavedPosts == thumbs \subseteq saved

\* Whoever holds the lock until its COMMIT.
CheckedByHolder ==
  \A r \in Requests, i \in PostIds :
    /\ Working(r, {"commitDelete"}, i) => CanChangePost(job[r].caller, i)
    /\ Working(r, {"commitUpload"}, i) =>
         /\ posts[i] = None
         /\ HasPermission(Permission(job[r].caller), PermissionUser, TRUE) = Granted

\* A guest, between its canChangePost and the statement that relies on it.
CheckedByGuest ==
  \A r \in Requests, i \in PostIds :
    Working(r, {"guestDelete", "guestTag", "guestUntag"}, i) =>
      posts[i] = None \/ CanChangePost(Guest, i)

\* What a request has checked still holds when it takes effect, however long that
\* is after the check.  For the COMMIT of someone signed in: its posts are there to
\* be deleted, or not there yet, and its caller may do what is about to be done.
\* For the DELETE or INSERT of a guest, who holds no lock: the guest may still
\* change the post, if there is a post.
CheckedUntilCommit == CheckedByHolder /\ CheckedByGuest

\* "Make sure the user performing this action is either the poster of the post
\* being deleted or an administrator" (canChangePost).
ChangedByPosterOrAdministrator ==
  \A i \in PostIds, u \in Callers :
    posts[i] # None /\ CanChangePost(u, i) =>
      u = posts[i].poster \/ Permission(u) >= PermissionAdministrator
=============================================================================
