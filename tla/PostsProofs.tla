---------------------------- MODULE PostsProofs ----------------------------
(***************************************************************************)
(* Proofs about Posts, for any number of accounts, posts, requests and      *)
(* faults, and with or without foreign keys.                                *)
(***************************************************************************)
EXTENDS Posts, TLAPS

-----------------------------------------------------------------------------
(* The inductive invariant *)

Uploading(r, i) == Working(r, {"download", "failing", "commitUpload"}, i)
Deleting(i)     == \E r \in Requests : Working(r, {"commitDelete"}, i)

\* IDs beyond those that were generated are not in use.
Allocated ==
  \A i \in PostIds : i > made =>
    /\ posts[i] = None /\ i \notin files /\ removing[i] = 0
    /\ \A r \in Requests : pc[r] # "idle" => i \notin job[r].ids

\* A post that is being uploaded is nobody else's yet.
UploadsApart ==
  \A r \in Requests, i \in PostIds : Uploading(r, i) =>
    /\ posts[i] = None /\ removing[i] = 0
    /\ \A q \in Requests : Uploading(q, i) => q = r

\* What has been downloaded is on the disk, and nothing of what is still to come.
FilesInPlace ==
  \A r \in Requests :
    /\ pc[r] \in {"download", "failing"} =>
         /\ job[r].left \subseteq job[r].ids
         /\ \A i \in job[r].ids : i \in files <=> i \notin job[r].left
    /\ pc[r] = "commitUpload" => job[r].ids \subseteq files

\* Whoever is about to commit holds the lock.
CommitsLocked ==
  \A r \in Requests : pc[r] \in {"commitUpload", "commitDelete"} => lock = r

\* The file of a post is removed only with the post, and with it if it was there.
CleanupsKnown ==
  \A i \in PostIds :
    /\ removing[i] > 0 => posts[i] = None \/ i \in torn \/ Deleting(i)
    /\ Deleting(i) => posts[i] # None /\ (removing[i] > 0 \/ i \notin files \/ i \in lost)

DiskInv ==
  /\ Allocated /\ UploadsApart /\ FilesInPlace /\ CommitsLocked /\ CleanupsKnown
  /\ PostsHaveFiles /\ FilesAccountedFor

\* What has been in the database is none of what is still to come, and thumbnails
\* and the requests of guests are about such posts.
GuestPlaces == {"guestCheck", "guestDelete", "guestTag", "guestUntag"}
ThumbPlaces == {"stat", "get", "decode", "put"}

SavedKnown ==
  /\ \A i \in PostIds : posts[i] # None => i \in saved
  /\ \A i \in PostIds : i > made => i \notin saved
  /\ \A r \in Requests, i \in PostIds : Uploading(r, i) => i \notin saved
  /\ \A r \in Requests : pc[r] \in GuestPlaces \cup ThumbPlaces => job[r].ids \subseteq saved
  /\ ThumbnailsOfSavedPosts

Inv == TypeOK /\ DiskInv /\ CheckedByHolder /\ SavedKnown /\ CheckedByGuest

-----------------------------------------------------------------------------
(* Type correctness *)

LEMMA InitType == Init => TypeOK
  BY PostsAssumption DEF Init, TypeOK, PermissionUser, PermissionAdministrator, PostIds, Places

\* A request starts with a job, keeps it, or ends without one.
LEMMA Steps ==
  ASSUME TypeOK, NEW r \in Requests
  PROVE  /\ \A j \in Job, place \in Places \ {"idle"} : Start(r, place, j) =>
              /\ pc' \in [Requests -> Places] /\ job' \in [Requests -> Job \cup {None}]
              /\ \A q \in Requests : pc'[q] # "idle" <=> job'[q] # None
         /\ \A place \in Places \ {"idle"} : pc[r] # "idle" /\ Goto(r, place) =>
              /\ pc' \in [Requests -> Places] /\ job' \in [Requests -> Job \cup {None}]
              /\ \A q \in Requests : pc'[q] # "idle" <=> job'[q] # None
         /\ End(r) =>
              /\ pc' \in [Requests -> Places] /\ job' \in [Requests -> Job \cup {None}]
              /\ \A q \in Requests : pc'[q] # "idle" <=> job'[q] # None
  BY NoneAssumption DEF TypeOK, Start, Goto, End, Places

\* CleanupPosts counts its goroutines.
LEMMA CleanupType ==
  ASSUME TypeOK, NEW ids, Cleanup(ids)
  PROVE  removing' \in [PostIds -> Nat]
  BY DEF TypeOK, Cleanup

LEMMA DatabaseType ==
  ASSUME TypeOK, NEW u \in Callers, DatabaseRequest(u)
  PROVE  TypeOK'
  <1> USE DEF TypeOK, Commits, disk, ctl, hist
  <1>1. ASSUME NEW i \in PostIds, NEW target \in PermsAsked, SetPostPermission(u, i, target)
        PROVE  TypeOK'
    <2>1. posts[i] \in PostRow
      BY <1>1 DEF SetPostPermission
    <2>2. [poster |-> posts[i].poster, perm |-> target] \in PostRow
      BY <2>1, PostsAssumption DEF PostRow
    <2> QED
      BY <1>1, <2>2 DEF SetPostPermission
  <1>2. ASSUME NEW i \in PostIds, NEW t \in Tags, TagPost(u, i, t) \/ UntagPost(u, i, t)
        PROVE  TypeOK'
    BY <1>2 DEF TagPost, UntagPost
  <1> QED
    BY <1>1, <1>2 DEF DatabaseRequest

LEMMA BeginType ==
  ASSUME TypeOK, NEW r \in Requests, NEW u \in Callers, BeginRequest(r, u)
  PROVE  TypeOK'
  <1> USE DEF TypeOK, db, disk, ctl, hist
  <1>1. u \in Names \cup {Guest}
    BY DEF Callers
  <1>2. ASSUME NEW n \in 1 .. MaxFiles, NEW p \in PermsAsked, NEW renews \in BOOLEAN,
               UploadBegin(r, u, n, p, renews)
        PROVE  TypeOK'
    <2> DEFINE new == made + 1 .. made + n
               j   == [caller |-> u, ids |-> new, left |-> new, perm |-> p]
    <2>1. new \subseteq PostIds /\ made + n \in 0 .. MaxPosts
      <3>1. made + n <= MaxPosts
        BY <1>2 DEF UploadBegin
      <3>2. made \in 0 .. MaxPosts /\ n \in 1 .. MaxFiles
        BY <1>2
      <3>3. MaxPosts \in Nat /\ MaxFiles \in Nat
        BY PostsAssumption
      <3>4. made \in Nat /\ n \in Nat
        BY <3>2, <3>3
      <3> HIDE DEF TypeOK
      <3> QED
        BY <3>1, <3>3, <3>4 DEF PostIds
    <2>2. j \in Job
      BY <1>1, <2>1, PostsAssumption DEF Job
    <2>3. Start(r, "download", j)
      BY <1>2 DEF UploadBegin
    <2> HIDE DEF j, new
    <2> QED
      BY <1>2, <2>1, <2>2, <2>3, Steps DEF UploadBegin, Places
  <1>3. ASSUME NEW i \in PostIds, DeletePost(r, u, i)
        PROVE  TypeOK'
    <2> DEFINE j == [caller |-> u, ids |-> {i}, left |-> {}, perm |-> 0]
    <2>1. j \in Job /\ Start(r, "commitDelete", j)
      BY <1>1, <1>3 DEF Job, DeletePost
    <2>2. removing' \in [PostIds -> Nat]
      BY <1>3, CleanupType DEF DeletePost
    <2> HIDE DEF j
    <2> QED
      BY <1>3, <2>1, <2>2, Steps DEF DeletePost, Places
  <1>4. ASSUME NEW i \in PostIds, ThumbBegin(r, u, i)
        PROVE  TypeOK'
    <2> DEFINE j == [caller |-> Guest, ids |-> {i}, left |-> {}, perm |-> 0]
    <2>1. j \in Job /\ Start(r, "stat", j)
      BY <1>4 DEF Job, ThumbBegin
    <2> HIDE DEF j
    <2> QED
      BY <1>4, <2>1, Steps DEF ThumbBegin, Places
  <1> QED
    BY <1>2, <1>3, <1>4 DEF BeginRequest

LEMMA GuestType ==
  ASSUME TypeOK, NEW r \in Requests,
         \/ BeginGuestRequest(r) \/ GuestChecks(r) \/ GuestFails(r)
         \/ \E i \in PostIds, fk \in FkModes :
              \/ GuestDeletes(r, i, fk)
              \/ \E t \in Tags : GuestTags(r, i, t, fk) \/ GuestUntags(r, i, t)
  PROVE  TypeOK'
  <1> USE DEF TypeOK, db, disk, hist, Places
  <1>1. ASSUME NEW i \in PostIds, NEW place \in {"guestTag", "guestUntag"},
               GuestGets(r, i) \/ GuestMayChange(r, i, place)
        PROVE  TypeOK'
    <2> DEFINE j == [caller |-> Guest, ids |-> {i}, left |-> {}, perm |-> 0]
    <2>1. j \in Job
      BY DEF Job
    <2>2. Start(r, "guestCheck", j) \/ Start(r, place, j)
      BY <1>1 DEF GuestGets, GuestMayChange
    <2> HIDE DEF j
    <2> QED
      BY <1>1, <2>1, <2>2, Steps DEF GuestGets, GuestMayChange
  <1>2. CASE GuestChecks(r)
    BY <1>2, Steps DEF GuestChecks
  <1>3. CASE GuestFails(r)
    BY <1>3, Steps DEF GuestFails
  <1>4. ASSUME NEW i \in PostIds, NEW fk \in FkModes, GuestDeletes(r, i, fk)
        PROVE  TypeOK'
    <2>1. posts' \in [PostIds -> PostRow \cup {None}] /\ tags' \in [PostIds -> SUBSET Tags]
      BY <1>4 DEF GuestDeletes, DeleteRows, TagsWithout
    <2>2. removing' \in [PostIds -> Nat]
      BY <1>4, CleanupType DEF GuestDeletes
    <2>3. lost' \subseteq PostIds /\ faults' \in Nat
      BY <1>4 DEF GuestDeletes, Fault
    <2> QED
      BY <1>4, <2>1, <2>2, <2>3, Steps DEF GuestDeletes, Commits
  <1>5. ASSUME NEW i \in PostIds, NEW fk \in FkModes, NEW t \in Tags,
               GuestTags(r, i, t, fk) \/ GuestUntags(r, i, t)
        PROVE  TypeOK'
    BY <1>5, Steps DEF GuestTags, GuestUntags, Commits
  <1> QED
    BY <1>1, <1>2, <1>3, <1>4, <1>5 DEF BeginGuestRequest

\* No guest is allowed to upload.
LEMMA UsersUpload ==
  HasPermission(Permission(Guest), PermissionUser, TRUE) # Granted
  BY DEF HasPermission, Permission, PermissionGuest, PermissionUser, PermissionOwner,
         AllPermissions, Granted, ErrActionNotPermitted

LEMMA UploadType ==
  ASSUME TypeOK, CheckedByHolder, NEW r \in Requests,
         \/ \E i \in PostIds : Download(r, i) \/ DownloadFails(r, i)
         \/ CreatePostsFails(r) \/ SavePosts(r) \/ SavePostFails(r)
         \/ UploadCommit(r) \/ UploadCommitFails(r)
  PROVE  TypeOK'
  <1> USE DEF TypeOK, db, disk, ctl, hist
  <1>1. pc[r] # "idle" => job[r] \in Job
    OBVIOUS
  <1>2. ASSUME NEW i \in PostIds, Download(r, i)
        PROVE  TypeOK'
    <2>1. [job[r] EXCEPT !.left = @ \ {i}] \in Job
      BY <1>1, <1>2 DEF Download, Job
    <2> QED
      BY <1>2, <2>1, NoneAssumption DEF Download
  <1>3. ASSUME NEW i \in PostIds, DownloadFails(r, i)
        PROVE  TypeOK'
    <2>1. [job[r] EXCEPT !.left = @ \ {i}, !.ids = @ \ {i}] \in Job
      BY <1>1, <1>3 DEF DownloadFails, Job
    <2> QED
      BY <1>3, <2>1, NoneAssumption DEF DownloadFails, Places
  <1>4. CASE CreatePostsFails(r) \/ SavePostFails(r)
    <2>1. EndUpload(r) /\ Cleanup(job[r].ids) /\ End(r)
      BY <1>4 DEF CreatePostsFails, SavePostFails, EndUpload
    <2> QED
      BY <2>1, CleanupType, Steps DEF EndUpload
  <1>5. CASE SavePosts(r)
    BY <1>5, Steps DEF SavePosts, Places
  <1>6. CASE UploadCommit(r)
    <2>1. \A i \in job[r].ids : job[r].caller # Guest
      BY <1>1, <1>6, UsersUpload DEF UploadCommit, Working, CheckedByHolder, Job
    <2>2. \A i \in job[r].ids : [poster |-> job[r].caller, perm |-> job[r].perm] \in PostRow
      BY <1>1, <1>6, <2>1 DEF UploadCommit, Job, PostRow
    <2>3. saved' \subseteq PostIds
      BY <1>1, <1>6 DEF UploadCommit, Job
    <2> QED
      BY <1>6, <2>2, <2>3, Steps DEF UploadCommit, Commits
  <1>7. CASE UploadCommitFails(r)
    <2>1. job[r].ids \subseteq PostIds
      BY <1>1, <1>7 DEF UploadCommitFails, Job
    <2> QED
      BY <1>7, <2>1, Steps DEF UploadCommitFails, Fault
  <1> QED
    BY <1>2, <1>3, <1>4, <1>5, <1>6, <1>7

LEMMA DeleteType ==
  ASSUME TypeOK,
         \E r \in Requests :
           DeleteCommitFails(r) \/ \E fk \in FkModes : DeleteCommit(r, fk)
  PROVE  TypeOK'
  <1> USE DEF TypeOK, db, disk, ctl, hist
  <1>1. \A ids, fk : DeleteRows(ids, fk) =>
          posts' \in [PostIds -> PostRow \cup {None}] /\ tags' \in [PostIds -> SUBSET Tags]
    BY DEF DeleteRows, TagsWithout
  <1>3. ASSUME NEW r \in Requests, NEW fk \in FkModes, DeleteCommit(r, fk)
        PROVE  TypeOK'
    BY <1>1, <1>3, Steps DEF DeleteCommit, Commits
  <1>4. ASSUME NEW r \in Requests, DeleteCommitFails(r)
        PROVE  TypeOK'
    <2>1. job[r] \in Job
      BY <1>4 DEF DeleteCommitFails
    <2>2. job[r].ids \subseteq PostIds
      BY <2>1 DEF Job
    <2> QED
      BY <1>4, <2>2, Steps DEF DeleteCommitFails, Fault
  <1> QED
    BY <1>3, <1>4

LEMMA CleanupPostType ==
  ASSUME TypeOK, NEW i \in PostIds, CleanupPost(i)
  PROVE  TypeOK'
  <1> USE DEF TypeOK, db, ctl, hist
  <1>1. CASE RemoveFile(i)
    BY <1>1 DEF RemoveFile, Fault
  <1>2. CASE Uncache(i)
    BY <1>2 DEF Uncache, Erase
  <1> QED
    BY <1>1, <1>2 DEF CleanupPost

LEMMA ThumbType ==
  ASSUME TypeOK, NEW r \in Requests, Stat(r) \/ GetThumb(r) \/ Decode(r) \/ PutThumb(r)
  PROVE  TypeOK'
  <1> USE DEF TypeOK, db, disk, hist
  <1>1. pc[r] # "idle" /\ job[r] \in Job
    BY DEF Stat, GetThumb, Decode, PutThumb
  <1>2. job[r].ids \subseteq PostIds
    BY <1>1 DEF Job
  <1>3. CASE Stat(r)
    BY <1>1, <1>2, <1>3, Steps DEF Stat, Erase, Places
  <1>4. CASE GetThumb(r)
    BY <1>1, <1>2, <1>4, Steps DEF GetThumb, Places
  <1>5. CASE Decode(r)
    BY <1>1, <1>2, <1>5, Steps DEF Decode, Places
  <1>6. CASE PutThumb(r)
    BY <1>1, <1>2, <1>6, Steps DEF PutThumb, Places
  <1> QED
    BY <1>3, <1>4, <1>5, <1>6

\* A post that loses its poster stays a post.
LEMMA PosterGone ==
  ASSUME TypeOK, NEW u \in Names
  PROVE  /\ WithoutPoster(u) \in [PostIds -> PostRow \cup {None}]
         /\ \A i \in PostIds : WithoutPoster(u)[i] = None <=> posts[i] = None
  <1>1. \A i \in PostIds : posts[i] # None =>
          [poster |-> None, perm |-> posts[i].perm] \in PostRow
    BY DEF TypeOK, PostRow
  <1> QED
    BY <1>1, NoneAssumption DEF WithoutPoster, TypeOK

LEMMA AccountsType ==
  ASSUME TypeOK, AccountsChange
  PROVE  TypeOK'
  <1> USE DEF TypeOK, Commits, db, disk, ctl, hist
  <1>1. ASSUME NEW u \in Names, SignUp(u)
        PROVE  TypeOK'
    BY <1>1 DEF SignUp, PermissionUser, PermissionAdministrator
  <1>2. ASSUME NEW u \in Names, NEW p \in RanksGiven, PromoteUser(u, p)
        PROVE  TypeOK'
    BY <1>2, PostsAssumption DEF PromoteUser
  <1>3. ASSUME NEW u \in Names, NEW fk \in FkModes, DeleteUser(u, fk)
        PROVE  TypeOK'
    BY <1>3, PosterGone DEF DeleteUser
  <1>4. CASE RenewSession
    BY <1>4 DEF RenewSession
  <1> QED
    BY <1>1, <1>2, <1>3, <1>4 DEF AccountsChange

LEMMA RestartType ==
  ASSUME TypeOK, Restart
  PROVE  TypeOK'
  <1> USE DEF TypeOK, db
  <1>1. \A q \in Requests : pc[q] = "commitDelete" => job[q] \in Job
    OBVIOUS
  <1>2. UNION {job[r].ids : r \in {q \in Requests : pc[q] = "commitDelete"}} \subseteq PostIds
    BY <1>1 DEF Job
  <1> QED
    BY <1>2 DEF Restart, Fault, Places

LEMMA NextType == TypeOK /\ CheckedByHolder /\ [Next]_vars => TypeOK'
  <1> SUFFICES ASSUME TypeOK, CheckedByHolder, [Next]_vars PROVE TypeOK'
    OBVIOUS
  <1>1. CASE UNCHANGED vars
    BY <1>1 DEF TypeOK, vars, db, disk, ctl, hist
  <1>2. CASE Next
    <2>1. ASSUME NEW r \in Requests, Serve(r) PROVE TypeOK'
      BY <2>1, UploadType, DeleteType, ThumbType, GuestType DEF Serve
    <2> QED
      BY <1>2, <2>1, DatabaseType, BeginType, GuestType, CleanupPostType, AccountsType,
         RestartType
      DEF Next
  <1> QED
    BY <1>1, <1>2

-----------------------------------------------------------------------------
(* The disk *)

LEMMA InitDisk == Init => DiskInv
  BY DEF Init, DiskInv, Allocated, UploadsApart, FilesInPlace, CommitsLocked, CleanupsKnown,
         PostsHaveFiles, FilesAccountedFor, Uploading, Deleting, Working, PostIds

\* While nobody holds the lock, nobody is about to commit.
LEMMA Unlocked ==
  ASSUME CommitsLocked, lock = None
  PROVE  \A r \in Requests : pc[r] \notin {"commitUpload", "commitDelete"}
  BY PostsAssumption DEF CommitsLocked

\* What commits meanwhile neither makes nor removes a post.
LEMMA RowsKept ==
  ASSUME TypeOK, DiskInv, Commits(None),
         UNCHANGED <<disk, ctl, hist>>, \A i \in PostIds : posts'[i] = None <=> posts[i] = None
  PROVE  DiskInv'
  <1> USE DEF DiskInv, disk, ctl, hist, Uploading, Deleting, Working
  <1>1. CommitsLocked'
    BY Unlocked DEF CommitsLocked, Commits
  <1>2. Allocated' /\ UploadsApart'
    BY DEF Allocated, UploadsApart
  <1>3. FilesInPlace'
    BY DEF FilesInPlace
  <1>4. CleanupsKnown'
    BY DEF CleanupsKnown
  <1>5. PostsHaveFiles'
    BY DEF PostsHaveFiles
  <1>6. FilesAccountedFor'
    <2>1. \A i \in files : i \in PostIds
      BY DEF TypeOK
    <2> QED
      BY <2>1 DEF FilesAccountedFor
  <1> QED
    BY <1>1, <1>2, <1>3, <1>4, <1>5, <1>6

LEMMA DatabaseDisk ==
  ASSUME TypeOK, DiskInv
  PROVE  /\ \A u \in Callers : DatabaseRequest(u) => DiskInv'
         /\ AccountsChange => DiskInv'
  <1> USE NoneAssumption DEF TypeOK, db
  <1>1. ASSUME NEW u \in Callers, NEW i \in PostIds, NEW target \in PermsAsked,
               SetPostPermission(u, i, target)
        PROVE  DiskInv'
    <2>1. posts[i] \in PostRow
      BY <1>1 DEF SetPostPermission
    <2>2. [poster |-> posts[i].poster, perm |-> target] \in PostRow
      BY <2>1, PostsAssumption DEF PostRow
    <2> QED
      BY <1>1, <2>2, RowsKept DEF SetPostPermission
  <1>2. ASSUME NEW u \in Callers, NEW i \in PostIds, NEW t \in Tags,
               TagPost(u, i, t) \/ UntagPost(u, i, t)
        PROVE  DiskInv'
    BY <1>2, RowsKept DEF TagPost, UntagPost
  <1>3. ASSUME NEW u \in Names, NEW p \in RanksGiven, PromoteUser(u, p)
        PROVE  DiskInv'
    BY <1>3, RowsKept DEF PromoteUser
  <1>4. ASSUME NEW u \in Names, NEW fk \in FkModes, DeleteUser(u, fk)
        PROVE  DiskInv'
    BY <1>4, PosterGone, RowsKept DEF DeleteUser
  <1>5. ASSUME NEW u \in Names, SignUp(u)
        PROVE  DiskInv'
    BY <1>5, RowsKept DEF SignUp
  <1>6. CASE RenewSession
    BY <1>6, RowsKept DEF RenewSession
  <1> QED
    BY <1>1, <1>2, <1>3, <1>4, <1>5, <1>6 DEF DatabaseRequest, AccountsChange

LEMMA UploadBeginDisk ==
  ASSUME TypeOK, DiskInv, NEW r \in Requests, NEW u \in Callers, NEW n \in 1 .. MaxFiles,
         NEW p \in PermsAsked, NEW renews \in BOOLEAN, UploadBegin(r, u, n, p, renews)
  PROVE  DiskInv'
  <1> USE DEF DiskInv, Uploading, Deleting, Working, db, disk, hist
  <1>1. /\ pc[r] = "idle" /\ pc' = [pc EXCEPT ![r] = "download"]
        /\ job' = [job EXCEPT ![r] = [caller |-> u, ids |-> made + 1 .. made + n,
                                      left |-> made + 1 .. made + n, perm |-> p]]
        /\ made' = made + n /\ UNCHANGED <<posts, files, removing, lost, torn>>
        /\ made \in Nat /\ n \in Nat
    BY DEF UploadBegin, Start, TypeOK
  <1>2. \A q \in Requests : pc[q] # "idle" => q # r /\ pc'[q] = pc[q] /\ job'[q] = job[q]
    BY <1>1 DEF TypeOK
  <1>3. \A q \in Requests : pc'[q] # "idle" =>
          q = r \/ (pc[q] # "idle" /\ pc'[q] = pc[q] /\ job'[q] = job[q])
    BY <1>1 DEF TypeOK
  <1>4. /\ pc'[r] = "download"
        /\ job'[r].ids = made + 1 .. made + n /\ job'[r].left = made + 1 .. made + n
    BY <1>1 DEF TypeOK
  <1>5. \A i \in made + 1 .. made + n : i \in PostIds /\ i > made
    BY <1>1, PostsAssumption DEF PostIds, UploadBegin
  <1>6. \A i \in PostIds : i > made + n => i > made /\ i \notin made + 1 .. made + n
    BY <1>1 DEF PostIds
  <1>7. Allocated'
    BY <1>1, <1>3, <1>4, <1>6 DEF Allocated
  <1>8. UploadsApart'
    BY <1>1, <1>3, <1>4, <1>5 DEF Allocated, UploadsApart
  <1>9. FilesInPlace'
    BY <1>1, <1>3, <1>4, <1>5 DEF Allocated, FilesInPlace
  <1>10. CommitsLocked'
    BY <1>1, <1>3, <1>4, PostsAssumption DEF CommitsLocked, UploadBegin
  <1>11. CleanupsKnown'
    BY <1>1, <1>2, <1>3, <1>4 DEF CleanupsKnown
  <1>12. PostsHaveFiles' /\ FilesAccountedFor'
    BY <1>1, <1>2, <1>3, <1>4 DEF PostsHaveFiles, FilesAccountedFor
  <1> QED
    BY <1>7, <1>8, <1>9, <1>10, <1>11, <1>12

LEMMA DownloadDisk ==
  ASSUME TypeOK, DiskInv, NEW r \in Requests, NEW i \in PostIds, Download(r, i)
  PROVE  DiskInv'
  <1> USE DEF DiskInv, Uploading, Deleting, Working, db, TypeOK
  <1>1. pc[r] \in {"download", "failing"} /\ i \in job[r].left /\ job[r] \in Job
    BY DEF Download
  <1>2. /\ files' = files \cup {i} /\ UNCHANGED <<posts, removing, made, pc, lock, lost, torn>>
        /\ \A q \in Requests \ {r} : job'[q] = job[q]
        /\ job'[r].ids = job[r].ids /\ job'[r].left = job[r].left \ {i}
    BY <1>1 DEF Download, Job, hist
  <1>3. Uploading(r, i)
    BY <1>1 DEF FilesInPlace
  <1>4. \A q \in Requests : Uploading(q, i) => q = r
    BY <1>3 DEF UploadsApart
  <1>5. Allocated'
    BY <1>2, <1>3 DEF Allocated
  <1>6. UploadsApart'
    BY <1>2 DEF UploadsApart
  <1>7. FilesInPlace'
    BY <1>1, <1>2, <1>4 DEF FilesInPlace
  <1>8. CommitsLocked'
    BY <1>2 DEF CommitsLocked
  <1>9. ~ Deleting(i)
    BY <1>3 DEF UploadsApart, CleanupsKnown
  <1>10. CleanupsKnown'
    BY <1>2, <1>9 DEF CleanupsKnown
  <1>11. PostsHaveFiles'
    BY <1>2 DEF PostsHaveFiles
  <1>12. FilesAccountedFor'
    BY <1>2, <1>3 DEF FilesAccountedFor
  <1> QED
    BY <1>5, <1>6, <1>7, <1>8, <1>10, <1>11, <1>12

LEMMA DownloadFailsDisk ==
  ASSUME TypeOK, DiskInv, NEW r \in Requests, NEW i \in PostIds, DownloadFails(r, i)
  PROVE  DiskInv'
  <1> USE DEF DiskInv, Uploading, Deleting, Working, db, disk, hist, TypeOK
  <1>1. pc[r] \in {"download", "failing"} /\ i \in job[r].left /\ job[r] \in Job
    BY DEF DownloadFails
  <1>2. /\ UNCHANGED <<posts, files, removing, made, lock, lost, torn>>
        /\ pc' = [pc EXCEPT ![r] = "failing"]
        /\ \A q \in Requests \ {r} : job'[q] = job[q]
        /\ job'[r].ids = job[r].ids \ {i} /\ job'[r].left = job[r].left \ {i}
    BY <1>1 DEF DownloadFails, Job
  <1>3. i \notin files
    BY <1>1 DEF FilesInPlace
  <1>4. \A q \in Requests, k \in PostIds : Uploading(q, k)' => Uploading(q, k)
    BY <1>1, <1>2
  <1>5. Allocated'
    BY <1>1, <1>2 DEF Allocated
  <1>6. UploadsApart'
    BY <1>2, <1>4 DEF UploadsApart
  <1>7. FilesInPlace'
    BY <1>1, <1>2 DEF FilesInPlace
  <1>8. CommitsLocked'
    BY <1>2 DEF CommitsLocked
  <1>9. \A k \in PostIds : Deleting(k)' <=> Deleting(k)
    BY <1>1, <1>2
  <1>10. CleanupsKnown' /\ PostsHaveFiles'
    BY <1>2, <1>9 DEF CleanupsKnown, PostsHaveFiles
  <1>11. FilesAccountedFor'
    BY <1>1, <1>2, <1>3 DEF FilesAccountedFor
  <1> QED
    BY <1>5, <1>6, <1>7, <1>8, <1>10, <1>11

\* An upload that ends without posts leaves its files to a goroutine.
LEMMA EndUploadDisk ==
  ASSUME TypeOK, DiskInv, NEW r \in Requests, pc[r] \in {"download", "failing"}, EndUpload(r)
  PROVE  DiskInv'
  <1> USE DEF DiskInv, Uploading, Deleting, Working, db, hist, TypeOK
  <1>1. /\ UNCHANGED <<posts, files, made, lost, torn>>
        /\ pc' = [pc EXCEPT ![r] = "idle"]
        /\ \A q \in Requests \ {r} : job'[q] = job[q]
        /\ lock' = IF lock = r THEN None ELSE lock
        /\ \A i \in PostIds :
             removing'[i] = IF i \in job[r].ids THEN removing[i] + 1 ELSE removing[i]
    BY DEF EndUpload, End, Cleanup
  <1>2. \A i \in job[r].ids : i \in PostIds => Uploading(r, i)
    OBVIOUS
  <1>3. \A q \in Requests, k \in PostIds : Uploading(q, k)' => q # r /\ Uploading(q, k)
    BY <1>1
  <1>4. \A k \in PostIds : Deleting(k)' <=> Deleting(k)
    BY <1>1
  <1>5. Allocated'
    BY <1>1 DEF Allocated
  <1>6. UploadsApart'
    BY <1>1, <1>2, <1>3 DEF UploadsApart
  <1>7. FilesInPlace'
    BY <1>1 DEF FilesInPlace
  <1>8. CommitsLocked'
    BY <1>1 DEF CommitsLocked
  <1>9. \A i \in PostIds : removing'[i] > 0 => removing[i] > 0 \/ posts[i] = None
    BY <1>1, <1>2 DEF UploadsApart
  <1>10. CleanupsKnown'
    <2>1. \A i \in PostIds : removing[i] > 0 => removing'[i] > 0
      BY <1>1
    <2> QED
      BY <1>1, <1>4, <1>9, <2>1 DEF CleanupsKnown
  <1>11. PostsHaveFiles'
    BY <1>1, <1>4 DEF PostsHaveFiles
  <1>12. FilesAccountedFor'
    <2>1. \A i \in PostIds : removing[i] > 0 \/ i \in job[r].ids => removing'[i] > 0
      BY <1>1
    <2>2. \A i \in files, q \in Requests : Uploading(q, i) => q = r \/ Uploading(q, i)'
      BY <1>1
    <2> QED
      BY <1>1, <2>1, <2>2 DEF FilesAccountedFor
  <1> QED
    BY <1>5, <1>6, <1>7, <1>8, <1>10, <1>11, <1>12

LEMMA SavePostsDisk ==
  ASSUME TypeOK, DiskInv, NEW r \in Requests, SavePosts(r)
  PROVE  DiskInv'
  <1> USE DEF DiskInv, Uploading, Deleting, Working, db, disk, hist, TypeOK
  <1>1. /\ UNCHANGED <<posts, files, removing, made, job, lost, torn>>
        /\ pc[r] = "download" /\ pc' = [pc EXCEPT ![r] = "commitUpload"]
        /\ job[r].left = {} /\ lock \in {r, None} /\ lock' = r
    BY DEF SavePosts, Goto
  <1>2. \A q \in Requests, k \in PostIds : Uploading(q, k)' <=> Uploading(q, k)
    BY <1>1
  <1>3. \A k \in PostIds : Deleting(k)' <=> Deleting(k)
    BY <1>1
  <1>4. Allocated'
    BY <1>1 DEF Allocated
  <1>5. UploadsApart'
    BY <1>1, <1>2 DEF UploadsApart
  <1>6. FilesInPlace'
    BY <1>1 DEF FilesInPlace
  <1>7. CommitsLocked'
    BY <1>1, PostsAssumption DEF CommitsLocked
  <1>8. CleanupsKnown' /\ PostsHaveFiles'
    BY <1>1, <1>3 DEF CleanupsKnown, PostsHaveFiles
  <1>9. FilesAccountedFor'
    BY <1>1, <1>2 DEF FilesAccountedFor
  <1> QED
    BY <1>4, <1>5, <1>6, <1>7, <1>8, <1>9

LEMMA UploadCommitDisk ==
  ASSUME TypeOK, DiskInv, CheckedByHolder, NEW r \in Requests,
         UploadCommit(r) \/ UploadCommitFails(r)
  PROVE  DiskInv'
  <1> USE DEF DiskInv, Uploading, Deleting, Working, TypeOK
  <1>1. /\ UNCHANGED <<files, removing, made, torn>>
        /\ pc[r] = "commitUpload" /\ pc' = [pc EXCEPT ![r] = "idle"]
        /\ \A q \in Requests \ {r} : job'[q] = job[q]
    BY DEF UploadCommit, UploadCommitFails, End, disk, hist
  <1>2. \/ UNCHANGED posts /\ lost' = lost \cup job[r].ids
        \/ /\ \A i \in PostIds \ job[r].ids : posts'[i] = posts[i]
           /\ \A i \in PostIds \cap job[r].ids : posts'[i] # None
           /\ UNCHANGED lost
    <2>1. CASE UploadCommit(r)
      <3>1. job[r] \in Job
        BY <1>1
      <3>2. ASSUME NEW i \in PostIds \cap job[r].ids
            PROVE  [poster |-> job[r].caller, perm |-> job[r].perm] # None
        <4>1. job[r].caller # Guest
          BY <1>1, UsersUpload DEF CheckedByHolder
        <4> QED
          BY <3>1, <4>1, NoneAssumption DEF Job, PostRow
      <3> QED
        BY <2>1, <3>2 DEF UploadCommit, hist
    <2>2. CASE UploadCommitFails(r)
      BY <2>2 DEF UploadCommitFails, db
    <2> QED
      BY <2>1, <2>2
  <1>3. \A q \in Requests \ {r} : pc[q] \notin {"commitUpload", "commitDelete"}
    BY <1>1 DEF CommitsLocked
  <1>4. \A q \in Requests, k \in PostIds : Uploading(q, k)' <=> q # r /\ Uploading(q, k)
    BY <1>1
  <1>5. \A k \in PostIds : ~ Deleting(k) /\ ~ Deleting(k)'
    BY <1>1, <1>3
  <1>6. \A i \in PostIds \cap job[r].ids : Uploading(r, i) /\ i \in files /\ i <= made
    <2>1. made \in Nat /\ PostIds \subseteq Nat
      BY PostsAssumption DEF PostIds
    <2> QED
      BY <1>1, <2>1 DEF FilesInPlace, Allocated
  <1>7. Allocated'
    BY <1>1, <1>2 DEF Allocated
  <1>8. UploadsApart'
    BY <1>1, <1>2, <1>4, <1>6 DEF UploadsApart
  <1>9. FilesInPlace' /\ CommitsLocked'
    BY <1>1, <1>3 DEF FilesInPlace, CommitsLocked
  <1>10. CleanupsKnown'
    BY <1>1, <1>2, <1>5, <1>6 DEF CleanupsKnown, UploadsApart
  <1>11. PostsHaveFiles'
    BY <1>1, <1>2, <1>5, <1>6 DEF PostsHaveFiles
  <1>12. FilesAccountedFor'
    BY <1>1, <1>2, <1>4 DEF FilesAccountedFor
  <1> QED
    BY <1>7, <1>8, <1>9, <1>10, <1>11, <1>12

LEMMA DeletePostDisk ==
  ASSUME TypeOK, DiskInv, NEW r \in Requests, NEW u \in Callers, NEW i \in PostIds,
         DeletePost(r, u, i)
  PROVE  DiskInv'
  <1> USE DEF DiskInv, Uploading, Deleting, Working, db, hist, TypeOK
  <1>1. /\ UNCHANGED <<posts, files, made, lost, torn>>
        /\ posts[i] # None /\ lock = None /\ lock' = r
        /\ pc[r] = "idle" /\ pc' = [pc EXCEPT ![r] = "commitDelete"]
        /\ job'[r].ids = {i} /\ \A q \in Requests \ {r} : job'[q] = job[q]
        /\ removing' = [removing EXCEPT ![i] = @ + 1]
    BY DEF DeletePost, CanChangePost, Start, Cleanup
  <1>2. \A q \in Requests, k \in PostIds : Uploading(q, k)' <=> Uploading(q, k)
    BY <1>1
  <1>3. \A k \in PostIds : Deleting(k)' <=> Deleting(k) \/ k = i
    BY <1>1
  <1>4. Allocated'
    BY <1>1 DEF Allocated
  <1>5. UploadsApart'
    BY <1>1, <1>2 DEF UploadsApart
  <1>6. FilesInPlace'
    BY <1>1 DEF FilesInPlace
  <1>7. CommitsLocked'
    BY <1>1, Unlocked DEF CommitsLocked
  <1>8. CleanupsKnown'
    BY <1>1, <1>3 DEF CleanupsKnown
  <1>9. PostsHaveFiles'
    BY <1>1, <1>3 DEF PostsHaveFiles
  <1>10. FilesAccountedFor'
    BY <1>1, <1>2 DEF FilesAccountedFor
  <1> QED
    BY <1>4, <1>5, <1>6, <1>7, <1>8, <1>9, <1>10

\* The rows go, of posts whose files are about to go or gone.
LEMMA RowsDeleted ==
  ASSUME TypeOK, DiskInv, NEW ids,
         \A i \in PostIds : ~ Deleting(i)',
         \A r \in Requests, i \in PostIds : Uploading(r, i)' <=> Uploading(r, i),
         \A i \in PostIds : posts'[i] = IF i \in ids THEN None ELSE posts[i],
         \A i \in PostIds : Deleting(i) => i \in ids,
         \A i \in PostIds \cap ids :
           posts[i] # None /\ (removing'[i] > 0 \/ i \notin files \/ i \in lost'),
         \A i \in PostIds \ ids : removing'[i] = removing[i],
         lost \subseteq lost', UNCHANGED <<files, made, torn>>
  PROVE  UploadsApart' /\ CleanupsKnown' /\ PostsHaveFiles' /\ FilesAccountedFor'
  <1> USE DEF DiskInv, TypeOK
  <1>1. UploadsApart'
    BY DEF UploadsApart
  <1>2. CleanupsKnown'
    BY DEF CleanupsKnown
  <1>3. PostsHaveFiles'
    BY DEF PostsHaveFiles, Deleting
  <1>4. FilesAccountedFor'
    BY DEF FilesAccountedFor, Uploading
  <1> QED
    BY <1>1, <1>2, <1>3, <1>4

LEMMA GuestDeletesDisk ==
  ASSUME TypeOK, DiskInv, NEW r \in Requests, NEW i \in PostIds, NEW fk \in FkModes,
         GuestDeletes(r, i, fk)
  PROVE  DiskInv'
  <1> USE DEF DiskInv, Uploading, Deleting, Working, TypeOK
  <1>1. /\ UNCHANGED <<files, made, torn>>
        /\ posts[i] # None /\ lock = None
        /\ pc[r] = "guestDelete" /\ pc' = [pc EXCEPT ![r] = "idle"]
        /\ \A q \in Requests \ {r} : job'[q] = job[q]
        /\ \A k \in PostIds : posts'[k] = IF k \in {i} THEN None ELSE posts[k]
    BY PostsAssumption DEF GuestDeletes, DeleteRows, Commits, End
  <1>2. \/ removing' = [removing EXCEPT ![i] = @ + 1] /\ lost' = lost
        \/ removing' = removing /\ lost' = lost \cup {i}
    BY DEF GuestDeletes, Cleanup
  <1>3. \A q \in Requests : pc[q] \notin {"commitUpload", "commitDelete"}
    BY <1>1, Unlocked
  <1>4. UploadsApart' /\ CleanupsKnown' /\ PostsHaveFiles' /\ FilesAccountedFor'
    <2>1. \A k \in PostIds : ~ Deleting(k) /\ ~ Deleting(k)'
      BY <1>1, <1>3
    <2>2. \A q \in Requests, k \in PostIds : Uploading(q, k)' <=> Uploading(q, k)
      BY <1>1
    <2>3. /\ \A k \in PostIds \cap {i} : posts[k] # None /\ (removing'[k] > 0 \/ k \in lost')
          /\ \A k \in PostIds \ {i} : removing'[k] = removing[k]
          /\ lost \subseteq lost'
      BY <1>1, <1>2
    <2> HIDE DEF Uploading, Deleting
    <2> QED
      BY <1>1, <2>1, <2>2, <2>3, RowsDeleted
  <1>5. Allocated'
    BY <1>1, <1>2 DEF Allocated
  <1>6. FilesInPlace' /\ CommitsLocked'
    BY <1>1, <1>3 DEF FilesInPlace, CommitsLocked
  <1> QED
    BY <1>4, <1>5, <1>6

LEMMA DeleteCommitDisk ==
  ASSUME TypeOK, DiskInv, NEW r \in Requests, NEW fk \in FkModes, DeleteCommit(r, fk)
  PROVE  DiskInv'
  <1> USE DEF DiskInv, Uploading, Deleting, Working, disk, hist, TypeOK
  <1>1. /\ UNCHANGED <<files, removing, made, lost, torn>>
        /\ pc[r] = "commitDelete" /\ pc' = [pc EXCEPT ![r] = "idle"]
        /\ \A q \in Requests \ {r} : job'[q] = job[q]
        /\ \A k \in PostIds : posts'[k] = IF k \in job[r].ids THEN None ELSE posts[k]
    BY DEF DeleteCommit, DeleteRows, End
  <1>2. \A q \in Requests \ {r} : pc[q] \notin {"commitUpload", "commitDelete"}
    BY <1>1 DEF CommitsLocked
  <1>3. UploadsApart' /\ CleanupsKnown' /\ PostsHaveFiles' /\ FilesAccountedFor'
    <2>1. \A k \in PostIds : Deleting(k) <=> k \in job[r].ids
      BY <1>1, <1>2
    <2>2. \A k \in PostIds \cap job[r].ids :
            posts[k] # None /\ (removing[k] > 0 \/ k \notin files \/ k \in lost)
      BY <2>1 DEF CleanupsKnown
    <2>3. \A q \in Requests, k \in PostIds : Uploading(q, k)' <=> Uploading(q, k)
      BY <1>1
    <2>4. \A k \in PostIds : ~ Deleting(k)'
      BY <1>1, <1>2
    <2> HIDE DEF Uploading, Deleting
    <2> QED
      BY <1>1, <2>1, <2>2, <2>3, <2>4, RowsDeleted
  <1>4. Allocated'
    BY <1>1 DEF Allocated
  <1>5. FilesInPlace' /\ CommitsLocked'
    BY <1>1, <1>2 DEF FilesInPlace, CommitsLocked
  <1> QED
    BY <1>3, <1>4, <1>5

LEMMA DeleteCommitFailsDisk ==
  ASSUME TypeOK, DiskInv, NEW r \in Requests, DeleteCommitFails(r)
  PROVE  DiskInv'
  <1> USE DEF DiskInv, Uploading, Deleting, Working, db, disk, TypeOK
  <1>1. /\ UNCHANGED <<posts, files, removing, made, lost>>
        /\ pc[r] = "commitDelete" /\ pc' = [pc EXCEPT ![r] = "idle"]
        /\ \A q \in Requests \ {r} : job'[q] = job[q]
        /\ torn' = torn \cup job[r].ids
    BY DEF DeleteCommitFails, End
  <1>2. \A q \in Requests \ {r} : pc[q] \notin {"commitUpload", "commitDelete"}
    BY <1>1 DEF CommitsLocked
  <1>3. \A q \in Requests, k \in PostIds : Uploading(q, k)' <=> Uploading(q, k)
    BY <1>1
  <1>4. \A k \in PostIds : ~ Deleting(k)' /\ (Deleting(k) <=> k \in job[r].ids)
    BY <1>1, <1>2
  <1>5. Allocated' /\ FilesInPlace' /\ CommitsLocked'
    BY <1>1, <1>2 DEF Allocated, FilesInPlace, CommitsLocked
  <1>6. UploadsApart'
    BY <1>1, <1>3 DEF UploadsApart
  <1>7. CleanupsKnown' /\ PostsHaveFiles'
    BY <1>1, <1>4 DEF CleanupsKnown, PostsHaveFiles
  <1>8. FilesAccountedFor'
    BY <1>1, <1>3 DEF FilesAccountedFor
  <1> QED
    BY <1>5, <1>6, <1>7, <1>8

LEMMA CleanupPostDisk ==
  ASSUME TypeOK, DiskInv, NEW i \in PostIds, CleanupPost(i)
  PROVE  DiskInv'
  <1> USE DEF DiskInv, Uploading, Deleting, Working, db, ctl, hist, TypeOK
  <1>1. CASE Uncache(i)
    <2>1. UNCHANGED <<posts, files, removing, made, pc, job, lock, lost, torn>>
      BY <1>1 DEF Uncache
    <2>2. Allocated' /\ UploadsApart' /\ FilesInPlace' /\ CommitsLocked' /\ CleanupsKnown'
      BY <2>1 DEF Allocated, UploadsApart, FilesInPlace, CommitsLocked, CleanupsKnown
    <2> QED
      BY <2>1, <2>2 DEF PostsHaveFiles, FilesAccountedFor
  <1>2. CASE RemoveFile(i)
    <2>1. /\ UNCHANGED <<posts, made, pc, job, lock, torn>>
          /\ removing[i] > 0
          /\ removing' = [removing EXCEPT ![i] = @ - 1]
          /\ \/ files' = files \ {i} /\ lost' = lost
             \/ files' = files /\ lost' = lost \cup {i}
      BY <1>2 DEF RemoveFile
    <2>2. \A q \in Requests : ~ Uploading(q, i)
      BY <2>1 DEF UploadsApart
    <2>3. Allocated'
      BY <2>1 DEF Allocated
    <2>4. UploadsApart'
      BY <2>1, <2>2 DEF UploadsApart
    <2>5. FilesInPlace' /\ CommitsLocked'
      BY <2>1, <2>2 DEF FilesInPlace, CommitsLocked
    <2>6. CleanupsKnown'
      BY <2>1 DEF CleanupsKnown
    <2>7. PostsHaveFiles'
      BY <2>1 DEF PostsHaveFiles, CleanupsKnown
    <2>8. FilesAccountedFor'
      BY <2>1 DEF FilesAccountedFor
    <2> QED
      BY <2>3, <2>4, <2>5, <2>6, <2>7, <2>8
  <1> QED
    BY <1>1, <1>2 DEF CleanupPost

\* A guest who checks or tags, or who asks for a thumbnail.
Looks(r) ==
  \/ \E u \in Callers, i \in PostIds : ThumbBegin(r, u, i)
  \/ Stat(r) \/ GetThumb(r) \/ Decode(r) \/ PutThumb(r)
  \/ BeginGuestRequest(r) \/ GuestChecks(r) \/ GuestFails(r)
  \/ \E i \in PostIds, t \in Tags, fk \in FkModes :
       GuestTags(r, i, t, fk) \/ GuestUntags(r, i, t)

\* None of these touches files or posts, and they are about posts that are there.
LEMMA LooksOnly ==
  ASSUME TypeOK, NEW r \in Requests, Looks(r)
  PROVE  /\ UNCHANGED <<accounts, posts, files, removing, made, lock, hist>>
         /\ pc[r] \in {"idle"} \cup ThumbPlaces \cup GuestPlaces
         /\ pc'[r] \in {"idle"} \cup ThumbPlaces \cup GuestPlaces
         /\ \A q \in Requests \ {r} : pc'[q] = pc[q] /\ job'[q] = job[q]
         /\ \/ pc'[r] = "idle"
            \/ pc[r] # "idle" /\ job'[r] = job[r]
            \/ \E i \in PostIds : posts[i] # None /\ job'[r].ids = {i}
         /\ thumbs' \ thumbs # {} => pc[r] = "put" /\ thumbs' \ thumbs \subseteq job[r].ids
  <1> USE DEF TypeOK, ThumbPlaces, GuestPlaces, db, disk
  <1>1. ASSUME NEW i \in PostIds, NEW u \in Callers, NEW place \in {"guestTag", "guestUntag"},
               ThumbBegin(r, u, i) \/ GuestGets(r, i) \/ GuestMayChange(r, i, place)
        PROVE  /\ UNCHANGED <<accounts, posts, files, removing, made, lock, hist, thumbs>>
               /\ pc[r] = "idle"
               /\ \E p \in {"stat", "guestCheck", place} : pc' = [pc EXCEPT ![r] = p]
               /\ \A q \in Requests \ {r} : job'[q] = job[q]
               /\ posts[i] # None /\ job'[r].ids = {i}
    BY <1>1 DEF ThumbBegin, GuestGets, GuestMayChange, Start, Visible, Gettable, CanChangePost
  <1>2. CASE GetThumb(r) \/ Decode(r) \/ GuestChecks(r) \/ GuestFails(r)
    BY <1>2 DEF GetThumb, Decode, GuestChecks, GuestFails, Goto, End
  <1>3. CASE Stat(r) \/ PutThumb(r)
    BY <1>3 DEF Stat, PutThumb, Erase, Goto, End
  <1>4. ASSUME NEW i \in PostIds, NEW t \in Tags, NEW fk \in FkModes,
               GuestTags(r, i, t, fk) \/ GuestUntags(r, i, t)
        PROVE  /\ UNCHANGED <<accounts, posts, files, removing, made, lock, hist, thumbs>>
               /\ pc[r] \in GuestPlaces /\ pc' = [pc EXCEPT ![r] = "idle"]
               /\ \A q \in Requests \ {r} : job'[q] = job[q]
    BY <1>4 DEF GuestTags, GuestUntags, Commits, End
  <1> QED
    <2>1. CASE \/ \E u \in Callers, i \in PostIds : ThumbBegin(r, u, i)
               \/ BeginGuestRequest(r)
      <3>1. PICK i \in PostIds, u \in Callers, place \in {"guestTag", "guestUntag"} :
              ThumbBegin(r, u, i) \/ GuestGets(r, i) \/ GuestMayChange(r, i, place)
        BY <2>1 DEF BeginGuestRequest, Callers
      <3> QED
        BY <1>1, <3>1
    <2>2. CASE \E i \in PostIds, t \in Tags, fk \in FkModes :
                 GuestTags(r, i, t, fk) \/ GuestUntags(r, i, t)
      BY <1>4, <2>2
    <2> QED
      BY <1>2, <1>3, <2>1, <2>2 DEF Looks

LEMMA LooksDisk ==
  ASSUME TypeOK, DiskInv, NEW r \in Requests, Looks(r)
  PROVE  DiskInv'
  <1> USE DEF DiskInv, Uploading, Deleting, Working, TypeOK
  <1>1. /\ UNCHANGED <<posts, files, removing, made, lock, lost, torn>>
        /\ pc[r] \in {"idle"} \cup ThumbPlaces \cup GuestPlaces
        /\ pc'[r] \in {"idle"} \cup ThumbPlaces \cup GuestPlaces
        /\ \A q \in Requests \ {r} : pc'[q] = pc[q] /\ job'[q] = job[q]
    BY LooksOnly DEF hist
  <1> USE DEF ThumbPlaces, GuestPlaces
  <1>2. pc'[r] # "idle" => \A i \in PostIds : i > made => i \notin job'[r].ids
    BY LooksOnly DEF Allocated
  <1>3. \A q \in Requests, k \in PostIds : Uploading(q, k)' <=> Uploading(q, k)
    BY <1>1
  <1>4. \A k \in PostIds : Deleting(k)' <=> Deleting(k)
    BY <1>1
  <1>5. Allocated'
    BY <1>1, <1>2 DEF Allocated
  <1>6. UploadsApart'
    BY <1>1, <1>3 DEF UploadsApart
  <1>7. FilesInPlace' /\ CommitsLocked'
    BY <1>1 DEF FilesInPlace, CommitsLocked
  <1>8. CleanupsKnown' /\ PostsHaveFiles'
    BY <1>1, <1>4 DEF CleanupsKnown, PostsHaveFiles
  <1>9. FilesAccountedFor'
    BY <1>1, <1>3 DEF FilesAccountedFor
  <1> QED
    BY <1>5, <1>6, <1>7, <1>8, <1>9

\* What nobody is going to finish is written down.
LEMMA RestartDisk ==
  ASSUME TypeOK, DiskInv, Restart
  PROVE  DiskInv'
  <1> USE DEF DiskInv, Uploading, Deleting, Working, db, TypeOK
  <1>1. /\ UNCHANGED <<posts, files, made>>
        /\ \A q \in Requests : pc'[q] = "idle"
        /\ \A i \in PostIds : removing'[i] = 0
        /\ lost' = lost \cup {i \in files : posts[i] = None}
        /\ \A i \in PostIds : i \in torn \/ Deleting(i) => i \in torn'
    BY DEF Restart
  <1>2. Allocated' /\ UploadsApart'
    BY <1>1 DEF Allocated, UploadsApart
  <1>3. FilesInPlace' /\ CommitsLocked'
    BY <1>1 DEF FilesInPlace, CommitsLocked
  <1>4. CleanupsKnown'
    BY <1>1 DEF CleanupsKnown
  <1>5. PostsHaveFiles'
    BY <1>1 DEF PostsHaveFiles
  <1>6. FilesAccountedFor'
    BY <1>1 DEF FilesAccountedFor
  <1> QED
    BY <1>2, <1>3, <1>4, <1>5, <1>6

LEMMA NextDisk == Inv /\ [Next]_vars => DiskInv'
  <1> SUFFICES ASSUME Inv, [Next]_vars PROVE DiskInv'
    OBVIOUS
  <1> USE DEF Inv
  <1>1. CASE UNCHANGED vars
    <2>1. UNCHANGED <<posts, files, removing, made, pc, job, lock, lost, torn>>
      BY <1>1 DEF vars, db, disk, ctl, hist
    <2> QED
      BY <2>1 DEF DiskInv, Allocated, UploadsApart, FilesInPlace, CommitsLocked, CleanupsKnown,
                  PostsHaveFiles, FilesAccountedFor, Uploading, Deleting, Working
  <1>2. CASE Next
    <2>1. ASSUME NEW r \in Requests, NEW u \in Callers, BeginRequest(r, u)
          PROVE  DiskInv'
      BY <2>1, UploadBeginDisk, DeletePostDisk, LooksDisk DEF BeginRequest, Looks
    <2>2. ASSUME NEW r \in Requests, CreatePostsFails(r) \/ SavePostFails(r)
          PROVE  DiskInv'
      BY <2>2, EndUploadDisk DEF CreatePostsFails, SavePostFails
    <2>3. ASSUME NEW r \in Requests, Serve(r)
          PROVE  DiskInv'
      BY <2>2, <2>3, DownloadDisk, DownloadFailsDisk, SavePostsDisk, UploadCommitDisk,
         DeleteCommitDisk, DeleteCommitFailsDisk, GuestDeletesDisk, LooksDisk DEF Serve, Looks
    <2> QED
      BY <1>2, <2>1, <2>3, DatabaseDisk, LooksDisk, CleanupPostDisk, RestartDisk DEF Next, Looks
  <1> QED
    BY <1>1, <1>2

-----------------------------------------------------------------------------
(* What was checked still holds *)

CommitPlaces == {"commitUpload", "commitDelete"}

\* Who is already about to commit stays so, and the database does not change.
LEMMA ChecksKept ==
  ASSUME CheckedByHolder, UNCHANGED <<accounts, posts>>,
         \A r \in Requests : pc'[r] \in CommitPlaces => pc'[r] = pc[r] /\ job'[r] = job[r]
  PROVE  CheckedByHolder'
  <1>1. \A u, i : CanChangePost(u, i)' <=> CanChangePost(u, i)
    BY DEF CanChangePost, PosterName, OverUser, Permission, permission
  <1>2. \A u : Permission(u)' = Permission(u)
    BY DEF Permission, permission
  <1> QED
    BY <1>1, <1>2 DEF CheckedByHolder, Working, CommitPlaces

\* When the last one that was about to commit is done, there is nothing to keep.
LEMMA NoChecks ==
  ASSUME \A r \in Requests : pc'[r] \notin CommitPlaces
  PROVE  CheckedByHolder'
  BY DEF CheckedByHolder, Working, CommitPlaces

\* A commit by someone else needs the lock, so that nobody is between its check
\* and its own.
LEMMA NextChecked == Inv /\ [Next]_vars => CheckedByHolder'
  <1> SUFFICES ASSUME Inv, [Next]_vars PROVE CheckedByHolder'
    OBVIOUS
  <1> USE DEF Inv, DiskInv, TypeOK
  <1>1. ASSUME Commits(None), \A r \in Requests : pc'[r] \in CommitPlaces => pc'[r] = pc[r]
        PROVE  CheckedByHolder'
    BY <1>1, Unlocked, NoChecks DEF Commits, CommitPlaces
  <1>2. ASSUME NEW u \in Callers, DatabaseRequest(u)
        PROVE  CheckedByHolder'
    BY <1>1, <1>2 DEF DatabaseRequest, SetPostPermission, TagPost, UntagPost, ctl
  <1>3. CASE AccountsChange
    BY <1>1, <1>3 DEF AccountsChange, SignUp, PromoteUser, DeleteUser, RenewSession, ctl
  <1>4. ASSUME NEW r \in Requests, Looks(r)
        PROVE  CheckedByHolder'
    BY <1>4, LooksOnly, ChecksKept DEF CommitPlaces, ThumbPlaces, GuestPlaces
  <1>5. ASSUME NEW r \in Requests, NEW u \in Callers, BeginRequest(r, u)
        PROVE  CheckedByHolder'
    <2>1. ASSUME NEW i \in PostIds, DeletePost(r, u, i)
          PROVE  CheckedByHolder'
      <3>1. /\ CanChangePost(u, i) /\ UNCHANGED <<accounts, posts>> /\ lock = None
            /\ pc' = [pc EXCEPT ![r] = "commitDelete"]
            /\ job'[r].caller = u /\ job'[r].ids = {i}
        BY <2>1 DEF DeletePost, Start, db
      <3>2. CanChangePost(u, i)'
        BY <3>1 DEF CanChangePost, PosterName, OverUser, Permission, permission
      <3>3. \A q \in Requests \ {r} : pc'[q] \notin CommitPlaces
        BY <3>1, Unlocked DEF CommitPlaces
      <3> QED
        BY <3>1, <3>2, <3>3 DEF CheckedByHolder, Working, CommitPlaces
    <2>2. ASSUME NEW n \in 1 .. MaxFiles, NEW p \in PermsAsked, NEW renews \in BOOLEAN,
                 UploadBegin(r, u, n, p, renews)
          PROVE  CheckedByHolder'
      BY <2>2, ChecksKept DEF UploadBegin, Start, db, CommitPlaces
    <2> QED
      BY <1>4, <1>5, <2>1, <2>2 DEF BeginRequest, Looks
  <1>6. ASSUME NEW r \in Requests, Serve(r)
        PROVE  CheckedByHolder'
    <2>1. ASSUME NEW i \in PostIds, Download(r, i) \/ DownloadFails(r, i)
          PROVE  CheckedByHolder'
      BY <2>1, ChecksKept DEF Download, DownloadFails, db, CommitPlaces
    <2>2. CASE CreatePostsFails(r) \/ SavePostFails(r)
      BY <2>2, ChecksKept DEF CreatePostsFails, SavePostFails, EndUpload, End, db, CommitPlaces
    <2>3. CASE SavePosts(r)
      <3>1. /\ pc[r] = "download" /\ pc' = [pc EXCEPT ![r] = "commitUpload"]
            /\ lock \in {r, None} /\ UNCHANGED <<accounts, posts, job>>
            /\ HasPermission(Permission(job[r].caller), PermissionUser, TRUE) = Granted
        BY <2>3 DEF SavePosts, Goto, db
      <3>2. \A q \in Requests \ {r} : pc'[q] \notin CommitPlaces
        BY <3>1, PostsAssumption DEF CommitsLocked, CommitPlaces
      <3>3. \A i \in PostIds : i \in job[r].ids => posts[i] = None
        BY <3>1 DEF UploadsApart, Uploading, Working
      <3>4. HasPermission(Permission(job[r].caller), PermissionUser, TRUE)' = Granted
        BY <3>1 DEF Permission, permission
      <3> QED
        BY <3>1, <3>2, <3>3, <3>4 DEF CheckedByHolder, Working, CommitPlaces
    <2>4. CASE \/ UploadCommit(r) \/ UploadCommitFails(r) \/ DeleteCommitFails(r)
               \/ \E fk \in FkModes : DeleteCommit(r, fk)
      <3>1. pc[r] \in CommitPlaces /\ pc' = [pc EXCEPT ![r] = "idle"]
        BY <2>4
        DEF UploadCommit, UploadCommitFails, DeleteCommit, DeleteCommitFails, End, CommitPlaces
      <3> QED
        BY <3>1, NoChecks DEF CommitsLocked, CommitPlaces
    <2>5. ASSUME NEW i \in PostIds, NEW fk \in FkModes, GuestDeletes(r, i, fk)
          PROVE  CheckedByHolder'
      BY <1>1, <2>5 DEF GuestDeletes, End, CommitPlaces
    <2> QED
      BY <1>4, <1>6, <2>1, <2>2, <2>3, <2>4, <2>5 DEF Serve, Looks
  <1>7. ASSUME NEW i \in PostIds, CleanupPost(i)
        PROVE  CheckedByHolder'
    BY <1>7, ChecksKept DEF CleanupPost, RemoveFile, Uncache, db, ctl
  <1>8. CASE Restart
    BY <1>8, NoChecks DEF Restart, CommitPlaces
  <1>9. CASE UNCHANGED vars
    BY <1>9, ChecksKept DEF vars, db, ctl
  <1> QED
    BY <1>2, <1>3, <1>4, <1>5, <1>6, <1>7, <1>8, <1>9 DEF Next, Looks

-----------------------------------------------------------------------------
(* Posts that have been saved *)

\* No upload starts or ends with a row, and nobody begins to look.
LEMMA SavedKept ==
  ASSUME TypeOK, SavedKnown, UNCHANGED <<made, saved>>, thumbs' \subseteq thumbs,
         \A i \in PostIds : posts'[i] # None => posts[i] # None,
         \A r \in Requests, i \in PostIds : Uploading(r, i)' => Uploading(r, i),
         \A r \in Requests : pc'[r] \in GuestPlaces \cup ThumbPlaces =>
           pc'[r] = pc[r] /\ job'[r] = job[r]
  PROVE  SavedKnown'
  BY DEF SavedKnown, ThumbnailsOfSavedPosts

LEMMA UploadsSaved ==
  ASSUME Inv, NEW r \in Requests,
         \/ \E u \in Callers, n \in 1 .. MaxFiles, p \in PermsAsked, renews \in BOOLEAN :
              UploadBegin(r, u, n, p, renews)
         \/ UploadCommit(r)
  PROVE  SavedKnown'
  <1> USE DEF Inv, TypeOK, Working, Uploading, GuestPlaces, ThumbPlaces, ThumbnailsOfSavedPosts
  <1>1. made \in Nat /\ PostIds \subseteq Nat
    BY PostsAssumption DEF PostIds
  <1>2. ASSUME NEW u \in Callers, NEW n \in 1 .. MaxFiles, NEW p \in PermsAsked,
               NEW renews \in BOOLEAN, UploadBegin(r, u, n, p, renews)
        PROVE  SavedKnown'
    <2>1. /\ UNCHANGED <<posts, thumbs, saved>> /\ made' = made + n /\ n \in Nat
          /\ pc' = [pc EXCEPT ![r] = "download"]
          /\ job'[r].ids = made + 1 .. made + n
          /\ \A q \in Requests \ {r} : job'[q] = job[q]
      BY <1>2, PostsAssumption DEF UploadBegin, Start, db, disk, hist
    <2>2. \A m, k \in Nat, i \in Nat : i > m + k \/ i \in m + 1 .. m + k => i > m
      OBVIOUS
    <2>3. \A i \in PostIds : i > made + n \/ i \in made + 1 .. made + n => i > made
      BY <1>1, <2>1, <2>2
    <2> QED
      BY <1>1, <2>1, <2>3 DEF SavedKnown
  <1>3. CASE UploadCommit(r)
    <2>1. /\ UNCHANGED <<made, thumbs>> /\ saved' = saved \cup job[r].ids
          /\ \A i \in PostIds \ job[r].ids : posts'[i] = posts[i]
          /\ pc[r] = "commitUpload" /\ pc' = [pc EXCEPT ![r] = "idle"]
          /\ \A q \in Requests \ {r} : job'[q] = job[q]
      BY <1>3 DEF UploadCommit, End, disk
    <2>2. \A i \in PostIds : i \in job[r].ids => i <= made
      BY <1>1, <2>1 DEF DiskInv, Allocated
    <2>3. \A q \in Requests, i \in PostIds : Uploading(q, i)' =>
            Uploading(q, i) /\ i \notin job[r].ids
      BY <2>1 DEF DiskInv, UploadsApart
    <2>4. /\ \A i \in PostIds : posts'[i] # None => i \in saved'
          /\ \A i \in PostIds : i > made' => i \notin saved'
      BY <1>1, <2>1, <2>2 DEF SavedKnown
    <2>5. \A q \in Requests, i \in PostIds : Uploading(q, i)' => i \notin saved'
      BY <2>1, <2>3 DEF SavedKnown
    <2>6. /\ \A q \in Requests :
               pc'[q] \in GuestPlaces \cup ThumbPlaces => job'[q].ids \subseteq saved'
          /\ thumbs' \subseteq saved'
      BY <2>1 DEF SavedKnown
    <2> QED
      BY <2>4, <2>5, <2>6 DEF SavedKnown
  <1> QED
    BY <1>2, <1>3

LEMMA LooksSaved ==
  ASSUME Inv, NEW r \in Requests, Looks(r)
  PROVE  SavedKnown'
  <1> USE DEF Inv, TypeOK, Working, Uploading, ThumbnailsOfSavedPosts
  <1>1. /\ UNCHANGED <<posts, made, saved>>
        /\ pc[r] \in {"idle"} \cup ThumbPlaces \cup GuestPlaces
        /\ pc'[r] \in {"idle"} \cup ThumbPlaces \cup GuestPlaces
        /\ \A q \in Requests \ {r} : pc'[q] = pc[q] /\ job'[q] = job[q]
    BY LooksOnly DEF hist
  <1>2. pc'[r] # "idle" => job'[r].ids \subseteq saved
    BY <1>1, LooksOnly DEF SavedKnown
  <1>3. thumbs' \subseteq saved
    BY LooksOnly DEF SavedKnown, ThumbPlaces
  <1>4. \A q \in Requests, i \in PostIds : Uploading(q, i)' => Uploading(q, i)
    BY <1>1 DEF ThumbPlaces, GuestPlaces
  <1> QED
    BY <1>1, <1>2, <1>3, <1>4 DEF SavedKnown, ThumbPlaces, GuestPlaces

LEMMA NextSaved == Inv /\ [Next]_vars => SavedKnown'
  <1> SUFFICES ASSUME Inv, [Next]_vars PROVE SavedKnown'
    OBVIOUS
  <1> USE NoneAssumption
      DEF Inv, TypeOK, Working, Uploading, GuestPlaces, ThumbPlaces, db, disk, ctl, hist
  <1>1. ASSUME NEW u \in Callers, DatabaseRequest(u)
        PROVE  SavedKnown'
    <2>1. UNCHANGED <<made, saved, thumbs, pc, job>>
      BY <1>1 DEF DatabaseRequest, SetPostPermission, TagPost, UntagPost
    <2>2. \A i \in PostIds : posts'[i] # None => posts[i] # None
      BY <1>1 DEF DatabaseRequest, SetPostPermission, TagPost, UntagPost
    <2> QED
      BY <2>1, <2>2, SavedKept
  <1>2. CASE AccountsChange
    <2>1. UNCHANGED <<made, saved, thumbs, pc, job>>
      BY <1>2 DEF AccountsChange, SignUp, PromoteUser, DeleteUser, RenewSession
    <2>2. \A i \in PostIds : posts'[i] # None => posts[i] # None
      BY <1>2, PosterGone
      DEF AccountsChange, SignUp, PromoteUser, DeleteUser, RenewSession
    <2> QED
      BY <2>1, <2>2, SavedKept
  <1>3. ASSUME NEW r \in Requests, NEW u \in Callers, NEW i \in PostIds, DeletePost(r, u, i)
        PROVE  SavedKnown'
    BY <1>3, SavedKept DEF DeletePost, Start
  <1>4. ASSUME NEW r \in Requests, Serve(r)
        PROVE  SavedKnown'
    <2>1. ASSUME NEW i \in PostIds, Download(r, i) \/ DownloadFails(r, i)
          PROVE  SavedKnown'
      <3>1. /\ UNCHANGED <<made, saved, thumbs, posts>>
            /\ pc[r] \in {"download", "failing"} /\ pc'[r] \in {"download", "failing"}
            /\ \A q \in Requests \ {r} : pc'[q] = pc[q] /\ job'[q] = job[q]
            /\ job[r] \in Job /\ job'[r].ids \subseteq job[r].ids
        BY <2>1 DEF Download, DownloadFails, Job
      <3> QED
        BY <3>1, SavedKept
    <2>2. CASE CreatePostsFails(r) \/ SavePostFails(r)
      BY <2>2, SavedKept DEF CreatePostsFails, SavePostFails, EndUpload, End
    <2>3. CASE SavePosts(r)
      BY <2>3, SavedKept DEF SavePosts, Goto
    <2>4. CASE UploadCommitFails(r) \/ DeleteCommitFails(r)
      BY <2>4, SavedKept DEF UploadCommitFails, DeleteCommitFails, End
    <2>5. ASSUME NEW i \in PostIds, NEW fk \in FkModes, GuestDeletes(r, i, fk)
          PROVE  SavedKnown'
      <3>1. UNCHANGED <<made, saved, thumbs>> /\ End(r)
        BY <2>5 DEF GuestDeletes
      <3>2. \A k \in PostIds : posts'[k] # None => posts[k] # None
        BY <2>5 DEF GuestDeletes, DeleteRows
      <3> QED
        BY <3>1, <3>2, SavedKept DEF End
    <2>6. ASSUME NEW fk \in FkModes, DeleteCommit(r, fk)
          PROVE  SavedKnown'
      <3>1. UNCHANGED <<made, saved, thumbs>> /\ End(r)
        BY <2>6 DEF DeleteCommit
      <3>2. \A k \in PostIds : posts'[k] # None => posts[k] # None
        BY <2>6 DEF DeleteCommit, DeleteRows
      <3> QED
        BY <3>1, <3>2, SavedKept DEF End
    <2> QED
      BY <1>4, <2>1, <2>2, <2>3, <2>4, <2>5, <2>6, UploadsSaved, LooksSaved DEF Serve, Looks
  <1>5. ASSUME NEW i \in PostIds, CleanupPost(i)
        PROVE  SavedKnown'
    BY <1>5, SavedKept DEF CleanupPost, RemoveFile, Uncache, Erase
  <1>6. CASE Restart
    BY <1>6, SavedKept DEF Restart
  <1>7. CASE UNCHANGED vars
    BY <1>7, SavedKept DEF vars
  <1>8. ASSUME NEW r \in Requests, NEW u \in Callers, BeginRequest(r, u)
        PROVE  SavedKnown'
    BY <1>3, <1>8, UploadsSaved, LooksSaved DEF BeginRequest, Looks
  <1>9. ASSUME NEW r \in Requests, BeginGuestRequest(r)
        PROVE  SavedKnown'
    BY <1>9, LooksSaved DEF Looks
  <1> QED
    BY <1>1, <1>2, <1>4, <1>5, <1>6, <1>7, <1>8, <1>9 DEF Next

-----------------------------------------------------------------------------
(* The checks of guests *)

\* A guest may change the posts that have no poster.
LEMMA GuestChanges ==
  ASSUME TypeOK, NEW i \in PostIds, CanChangePost(Guest, i)
  PROVE  posts[i] # None /\ posts[i].poster = None
  <1>1. Permission(Guest) = PermissionGuest
    BY DEF Permission
  <1>2. ~ OverUser(Guest, PermissionAdministrator, PosterName(i))
    BY <1>1 DEF OverUser, HasPermOverUser, PermissionGuest, PermissionAdministrator,
                PermissionOwner, AllPermissions, Granted, ErrActionNotPermitted
  <1>3. posts[i] \in PostRow /\ PosterName(i) = Guest
    BY <1>2 DEF CanChangePost, TypeOK
  <1> QED
    BY <1>3, PostsAssumption, NoneAssumption DEF PosterName, PostRow

\* No row comes back, and no poster.
LEMMA PosterStaysGone ==
  ASSUME Inv, [Next]_vars, NEW i \in saved
  PROVE  /\ posts[i] = None => posts'[i] = None
         /\ posts[i] # None /\ posts[i].poster = None =>
              posts'[i] = None \/ posts'[i].poster = None
  <1> USE DEF Inv, TypeOK
  <1> DEFINE Stays == /\ posts[i] = None => posts'[i] = None
                      /\ posts[i] # None /\ posts[i].poster = None =>
                           posts'[i] = None \/ posts'[i].poster = None
  <1>1. ASSUME UNCHANGED posts PROVE Stays
    BY <1>1
  <1>2. ASSUME NEW u \in Callers, DatabaseRequest(u)
        PROVE  Stays
    BY <1>2 DEF DatabaseRequest, SetPostPermission, TagPost, UntagPost
  <1>3. CASE AccountsChange
    BY <1>3 DEF AccountsChange, SignUp, PromoteUser, DeleteUser, WithoutPoster, RenewSession, db
  <1>4. ASSUME NEW r \in Requests, NEW u \in Callers, BeginRequest(r, u)
        PROVE  Stays
    BY <1>1, <1>4 DEF BeginRequest, UploadBegin, DeletePost, ThumbBegin, db
  <1>5. ASSUME NEW r \in Requests, Looks(r)
        PROVE  Stays
    BY <1>1, <1>5, LooksOnly
  <1>6. ASSUME NEW r \in Requests, Serve(r)
        PROVE  Stays
    <2>1. CASE UploadCommit(r)
      <3>1. i \notin job[r].ids
        BY <2>1 DEF UploadCommit, SavedKnown, Uploading, Working
      <3> QED
        BY <2>1, <3>1 DEF UploadCommit
    <2>2. ASSUME NEW fk \in FkModes, DeleteCommit(r, fk)
          PROVE  Stays
      BY <2>2 DEF DeleteCommit, DeleteRows
    <2>3. ASSUME NEW k \in PostIds, NEW fk \in FkModes, GuestDeletes(r, k, fk)
          PROVE  Stays
      BY <2>3 DEF GuestDeletes, DeleteRows
    <2>4. CASE \/ \E k \in PostIds : Download(r, k) \/ DownloadFails(r, k)
               \/ CreatePostsFails(r) \/ SavePosts(r) \/ SavePostFails(r)
               \/ UploadCommitFails(r) \/ DeleteCommitFails(r)
      BY <1>1, <2>4 DEF Download, DownloadFails, CreatePostsFails, SavePosts, SavePostFails,
                        EndUpload, UploadCommitFails, DeleteCommitFails, db
    <2> QED
      BY <1>5, <1>6, <2>1, <2>2, <2>3, <2>4 DEF Serve, Looks
  <1>7. ASSUME NEW k \in PostIds, CleanupPost(k)
        PROVE  Stays
    BY <1>1, <1>7 DEF CleanupPost, RemoveFile, Uncache, db
  <1>8. CASE Restart \/ UNCHANGED vars
    BY <1>1, <1>8 DEF Restart, vars, db
  <1> QED
    BY <1>2, <1>3, <1>4, <1>5, <1>6, <1>7, <1>8 DEF Next, Looks

CheckedPlaces == {"guestDelete", "guestTag", "guestUntag"}

\* A guest gets past its check for a post without poster, and keeps its place.
LEMMA GuestsEnter ==
  ASSUME Inv, [Next]_vars, NEW r \in Requests, pc'[r] \in CheckedPlaces
  PROVE  \/ pc[r] \in CheckedPlaces /\ job'[r] = job[r]
         \/ /\ UNCHANGED posts
            /\ \A i \in PostIds : i \in job'[r].ids => CanChangePost(Guest, i)
  <1> USE DEF Inv, TypeOK, CheckedPlaces
  <1> DEFINE Enters == \/ pc[r] \in CheckedPlaces /\ job'[r] = job[r]
                       \/ /\ UNCHANGED posts
                          /\ \A i \in PostIds : i \in job'[r].ids => CanChangePost(Guest, i)
  <1>1. ASSUME pc'[r] = pc[r] /\ job'[r] = job[r] PROVE Enters
    BY <1>1
  <1>2. ASSUME NEW u \in Callers, DatabaseRequest(u)
        PROVE  Enters
    BY <1>1, <1>2 DEF DatabaseRequest, SetPostPermission, TagPost, UntagPost, ctl
  <1>3. CASE AccountsChange
    BY <1>1, <1>3 DEF AccountsChange, SignUp, PromoteUser, DeleteUser, RenewSession, ctl
  <1>4. ASSUME NEW q \in Requests, NEW u \in Callers, BeginRequest(q, u)
        PROVE  Enters
    BY <1>1, <1>4 DEF BeginRequest, UploadBegin, DeletePost, ThumbBegin, Start
  <1>5. ASSUME NEW q \in Requests, BeginGuestRequest(q)
        PROVE  Enters
    BY <1>1, <1>5 DEF BeginGuestRequest, GuestGets, GuestMayChange, Start, db
  <1>6. ASSUME NEW q \in Requests, Serve(q)
        PROVE  Enters
    <2>1. CASE GuestChecks(q)
      BY <1>1, <2>1 DEF GuestChecks, Goto, db
    <2>2. CASE \E i \in PostIds : Download(q, i) \/ DownloadFails(q, i)
      BY <1>1, <2>2 DEF Download, DownloadFails
    <2>3. CASE \/ SavePosts(q) \/ Stat(q) \/ GetThumb(q) \/ Decode(q) \/ PutThumb(q)
      BY <1>1, <2>3 DEF SavePosts, Stat, GetThumb, Decode, PutThumb, Goto, End
    <2>4. ASSUME End(q) PROVE Enters
      BY <1>1, <2>4 DEF End
    <2> QED
      BY <1>6, <2>1, <2>2, <2>3, <2>4
      DEF Serve, CreatePostsFails, SavePostFails, EndUpload, UploadCommit, UploadCommitFails,
          DeleteCommit, DeleteCommitFails, GuestFails, GuestDeletes, GuestTags, GuestUntags
  <1>7. ASSUME NEW i \in PostIds, CleanupPost(i)
        PROVE  Enters
    BY <1>1, <1>7 DEF CleanupPost, RemoveFile, Uncache, ctl
  <1>8. CASE Restart
    BY <1>8 DEF Restart
  <1>9. CASE UNCHANGED vars
    BY <1>1, <1>9 DEF vars, ctl
  <1> QED
    BY <1>2, <1>3, <1>4, <1>5, <1>6, <1>7, <1>8, <1>9 DEF Next

\* The poster that was gone when the guest was checked is gone for good.
LEMMA NextGuests == Inv /\ [Next]_vars => CheckedByGuest'
  <1> SUFFICES ASSUME Inv, [Next]_vars, NEW r \in Requests, NEW i \in PostIds,
                      pc'[r] \in CheckedPlaces, i \in job'[r].ids, posts'[i] # None
               PROVE  CanChangePost(Guest, i)'
    BY DEF CheckedByGuest, Working, CheckedPlaces
  <1>1. i \in saved
    <2>1. CASE pc[r] \in CheckedPlaces /\ job'[r] = job[r]
      BY <2>1 DEF Inv, SavedKnown, CheckedPlaces, GuestPlaces
    <2>2. CASE CanChangePost(Guest, i)
      BY <2>2 DEF CanChangePost, Inv, SavedKnown
    <2> QED
      BY <2>1, <2>2, GuestsEnter
  <1>2. posts[i] = None \/ CanChangePost(Guest, i)
    <2>1. CASE pc[r] \in CheckedPlaces /\ job'[r] = job[r]
      BY <2>1 DEF Inv, CheckedByGuest, Working, CheckedPlaces
    <2> QED
      BY <2>1, GuestsEnter
  <1>3. posts'[i].poster = None
    BY <1>1, <1>2, GuestChanges, PosterStaysGone DEF Inv
  <1> QED
    BY <1>3 DEF CanChangePost, PosterName

-----------------------------------------------------------------------------
(* The theorems *)

LEMMA InitInv == Init => Inv
  <1>1. Init => CheckedByHolder /\ CheckedByGuest
    BY DEF Init, CheckedByHolder, CheckedByGuest, Working
  <1>2. Init => SavedKnown
    BY DEF Init, SavedKnown, Uploading, Working, ThumbnailsOfSavedPosts, GuestPlaces, ThumbPlaces
  <1> QED
    BY <1>1, <1>2, InitType, InitDisk DEF Inv

LEMMA NextInv == Inv /\ [Next]_vars => Inv'
  BY NextType, NextDisk, NextChecked, NextSaved, NextGuests DEF Inv

\* Rows, sets and requests have their shapes; that a row has a poster is that no
\* guest gets to the commit of an upload.
THEOREM TypeCorrect == Spec => []TypeOK
  <1>1. Inv => TypeOK
    BY DEF Inv
  <1> QED
    BY <1>1, InitInv, NextInv, PTL DEF Spec

\* A post in the database has its file, unless its deletion has not been committed.
THEOREM FilesOfPosts == Spec => []PostsHaveFiles
  <1>1. Inv => PostsHaveFiles
    BY DEF Inv, DiskInv
  <1> QED
    BY <1>1, InitInv, NextInv, PTL DEF Spec

\* A file belongs to a post, an upload or a clean-up, or a fault has left it.
THEOREM FilesAreAccountedFor == Spec => []FilesAccountedFor
  <1>1. Inv => FilesAccountedFor
    BY DEF Inv, DiskInv
  <1> QED
    BY <1>1, InitInv, NextInv, PTL DEF Spec

\* What SavePost and DeletePost have checked holds until their COMMIT, and what was
\* checked for a guest until its statement.
THEOREM ChecksHold == Spec => []CheckedUntilCommit
  <1>1. Inv => CheckedUntilCommit
    BY DEF Inv, CheckedUntilCommit
  <1> QED
    BY <1>1, InitInv, NextInv, PTL DEF Spec

\* A thumbnail in the cache is of a post that was saved.
THEOREM ThumbnailsSaved == Spec => []ThumbnailsOfSavedPosts
  <1>1. Inv => ThumbnailsOfSavedPosts
    BY DEF Inv, SavedKnown
  <1> QED
    BY <1>1, InitInv, NextInv, PTL DEF Spec
=============================================================================
