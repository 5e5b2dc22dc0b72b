------------------------------- MODULE Batch -------------------------------
(***************************************************************************)
(* Changing many posts at once (frontend/frontserver/pages/settings/posts). *)
(*                                                                          *)
(* What is to be done, and to which posts, is picked on one page after      *)
(* another and kept in a cookie.  Applying it is a call of the API for each *)
(* post and each change, in no particular order, each in a transaction of   *)
(* its own: others change the posts meanwhile, some calls fail and others   *)
(* go on, and an answer that is lost repeats its call.                      *)
(***************************************************************************)
EXTENDS Permissions, FiniteSetsExt

CONSTANTS
  Ids,         \* IDs of posts, those of posts that are gone included
  Tags,        \* tags
  PermsAsked,  \* the permissions that are asked for
  RanksGiven,  \* ranks of the user
  PosterRanks, \* ranks of each other poster, by name
  Me,          \* the user
  Forms,       \* what is sent with a page
  Tries,       \* Client.Tries
  MaxChanges,  \* bound: changes by others
  None

Skip == -1

\* An item of State.Tags, "tag" or "-tag".
Word == [do : {"tag", "untag"}, tag : Tags]

\* The rest of what is done to posts.
ToPermission == [do |-> "permission", tag |-> None]
ToDelete     == [do |-> "delete", tag |-> None]

ASSUME BatchAssumption ==
  /\ Me \notin DOMAIN PosterRanks /\ None \notin DOMAIN PosterRanks \cup {Me}
  /\ PermsAsked \cup RanksGiven \subseteq AllPermissions
  /\ Forms \subseteq [ids : SUBSET Ids, perm : PermsAsked \cup {Skip, None},
                      tags : SUBSET Word, untags : SUBSET Word]
  /\ Tries \in Nat \ {0} /\ MaxChanges \in Nat

Posters == DOMAIN PosterRanks \cup {Me}

VARIABLES
  posts,    \* tables posts and posttags: a row, with its tags, or None
  rank,     \* users.permission of Me
  cookie,   \* the cookie "posts-settings" of the browser: a State or None
  job,      \* the batch being worked through, or None
  changes   \* number of changes by others

\* History variables: no action reads them.
VARIABLES
  old,      \* the posts when this batch began, or None
  touched   \* posts that others have changed since

hist == <<old, touched>>
vars == <<posts, rank, cookie, job, changes, hist>>

Row   == [poster : Posters \cup {None}, perm : PermsAsked, tags : SUBSET Tags]
State == [perm : PermsAsked \cup {Skip}, sel : SUBSET Ids, tags : SUBSET Word]
Job   == [kind : {"apply", "delete"}, state : State, words : SUBSET Word,
          doing : Word \cup {ToPermission, ToDelete}, left : SUBSET Ids,
          at : Ids \cup {None}, tries : 0 .. Tries - 1, errs : SUBSET Ids]

\* None is what no row, state or batch looks like.
ASSUME NoneAssumption == None \notin Row \cup State \cup Job \cup Ids

NewState == [perm |-> Skip, sel |-> {}, tags |-> {}]

-----------------------------------------------------------------------------
(* The cookie *)

Current == IF cookie = None THEN NewState ELSE cookie

\* UnmarshalState
Merged(form) ==
  LET s == Current IN
    [perm |-> IF form.perm = None THEN s.perm ELSE form.perm,
     sel  |-> s.sel \cup form.ids,
     tags |-> (s.tags \cup form.tags) \ form.untags]

\* renderPage
Pick(form) ==
  /\ job = None
  /\ cookie' = Merged(form)
  /\ UNCHANGED <<posts, rank, job, changes, hist>>

\* resetSettings
Reset == cookie' = None

\* resetPOST, or a batch of no posts
Cancel ==
  /\ job = None
  /\ Reset
  /\ UNCHANGED <<posts, rank, job, changes, hist>>

-----------------------------------------------------------------------------
(* The server *)

PosterRank(i) ==
  IF posts[i].poster = None THEN NoPermission
  ELSE IF posts[i].poster = Me THEN rank ELSE PosterRanks[posts[i].poster]

Mine(i) == posts[i].poster = Me

CanChangePost(i) ==
  IsUserOrHasPermOver(rank, PermissionAdministrator, PosterRank(i), Mine(i)) = Granted

\* The answers of a call
OK                 == "ok"
ErrPostNotFound    == "post not found"
ErrTagAlreadyAdded == "tag is already added"
Failed             == "failed"

\* SetPostPermission: a poster that is NULL cannot be scanned.
SetPostPermission(i, p, answer) ==
  LET may == posts[i].poster # None
             /\ HasPermOverUser(rank, p, PosterRank(i), Mine(i)) = Granted
  IN  \/ posts[i] = None /\ answer = ErrPostNotFound /\ UNCHANGED posts
      \/ posts[i] # None /\ ~may /\ answer = Failed /\ UNCHANGED posts
      \/ /\ posts[i] # None /\ may /\ answer = OK
         /\ posts' = [posts EXCEPT ![i].perm = p]

TagPost(i, t, answer) ==
  \/ posts[i] = None /\ answer = ErrPostNotFound /\ UNCHANGED posts
  \/ posts[i] # None /\ ~CanChangePost(i) /\ answer = Failed /\ UNCHANGED posts
  \/ /\ posts[i] # None /\ CanChangePost(i)
     /\ answer = IF t \in posts[i].tags THEN ErrTagAlreadyAdded ELSE OK
     /\ posts' = [posts EXCEPT ![i].tags = @ \cup {t}]

UntagPost(i, t, answer) ==
  \/ posts[i] = None /\ answer = ErrPostNotFound /\ UNCHANGED posts
  \/ posts[i] # None /\ ~CanChangePost(i) /\ answer = Failed /\ UNCHANGED posts
  \/ /\ posts[i] # None /\ CanChangePost(i)
     /\ answer = IF t \in posts[i].tags THEN OK ELSE ErrPostNotFound
     /\ posts' = [posts EXCEPT ![i].tags = @ \ {t}]

\* Only a post that can be seen can be deleted.
DeletePost(i, answer) ==
  LET visible == posts[i] # None /\ (Mine(i) \/ posts[i].perm <= rank) IN
    \/ ~visible /\ answer = ErrPostNotFound /\ UNCHANGED posts
    \/ visible /\ ~CanChangePost(i) /\ answer = Failed /\ UNCHANGED posts
    \/ /\ visible /\ CanChangePost(i) /\ answer = OK
       /\ posts' = [posts EXCEPT ![i] = None]

-----------------------------------------------------------------------------
(* processPOST and deletePostsPOST *)

\* A batch begins with the permission, unless that is to be skipped, or with the
\* deletion.  What is sent with it, the posts of this page, is not kept in the cookie:
\* after an error these are not selected any more.
Begin(kind, form) ==
  LET s == Merged(form) IN
    /\ job = None /\ s.sel # {}
    /\ job' = [kind  |-> kind,
               state |-> s,
               words |-> IF kind = "apply" THEN s.tags ELSE {},
               doing |-> IF kind = "apply" THEN ToPermission ELSE ToDelete,
               left  |-> IF kind = "apply" /\ s.perm = Skip THEN {} ELSE s.sel,
               at    |-> None,   \* the post whose call is being repeated
               tries |-> 0,
               errs  |-> {}]     \* posts that a JobError names
    /\ old' = posts /\ touched' = {}
    /\ UNCHANGED <<posts, rank, cookie, changes>>

\* The tags come one after another, each for all posts.
NextWord ==
  /\ job # None /\ job.left = {} /\ job.words # {}
  /\ \E w \in job.words :
       job' = [job EXCEPT !.words = @ \ {w}, !.doing = w, !.left = job.state.sel]
  /\ UNCHANGED <<posts, rank, cookie, changes, hist>>

Call(i, answer) ==
  CASE job.doing.do = "permission" -> SetPostPermission(i, job.state.perm, answer)
    [] job.doing.do = "delete"     -> DeletePost(i, answer)
    [] job.doing.do = "tag"        -> TagPost(i, job.doing.tag, answer)
    [] job.doing.do = "untag"      -> UntagPost(i, job.doing.tag, answer)

Answers == {OK, ErrPostNotFound, ErrTagAlreadyAdded, Failed}

\* Mutant: what is ignored of a tag is ignored of a permission.
IgnoredAlways(answer) ==
  answer \in {OK, ErrTagAlreadyAdded, ErrPostNotFound}

\* client.ErrIs: of a tag, these errors are ignored.
Ignored(answer) ==
  \/ answer = OK
  \/ job.doing \in Word /\ answer \in {ErrTagAlreadyAdded, ErrPostNotFound}

\* The answer of the handler, or that there is no session any more.
CallAnswered(i) ==
  /\ job # None /\ i \in job.left /\ job.at \in {None, i}
  /\ \E answer \in Answers :
       /\ Call(i, answer) \/ (answer = Failed /\ UNCHANGED posts)
       /\ job' = [job EXCEPT !.left = @ \ {i}, !.at = None, !.tries = 0,
                             !.errs = IF Ignored(answer) THEN @ ELSE @ \cup {i}]
  /\ UNCHANGED <<rank, cookie, changes, hist>>

Ends == job' = None /\ old' = None /\ touched' = {}

\* Mutant: one try more than there are.
CallLostOnceMore(i) ==
  /\ job # None /\ i \in job.left /\ job.at \in {None, i}
  /\ \/ UNCHANGED posts
     \/ \E answer \in Answers : Call(i, answer)
  /\ IF job.tries < Tries
     THEN job' = [job EXCEPT !.at = i, !.tries = @ + 1] /\ UNCHANGED <<old, touched>>
     ELSE Ends
  /\ UNCHANGED <<rank, cookie, changes>>

\* The request or its answer is lost.  After the last try the client panics, and the
\* browser gets nothing.
CallLost(i) ==
  /\ job # None /\ i \in job.left /\ job.at \in {None, i}
  /\ \/ UNCHANGED posts
     \/ \E answer \in Answers : Call(i, answer)
  /\ IF job.tries + 1 < Tries
     THEN job' = [job EXCEPT !.at = i, !.tries = @ + 1] /\ UNCHANGED <<old, touched>>
     ELSE Ends
  /\ UNCHANGED <<rank, cookie, changes>>

\* The server answers that there are too many requests, or fails, with the change or
\* without.  The error of the last try is that of the call, and the batch goes on.
CallRefused(i) ==
  /\ job # None /\ i \in job.left /\ job.at \in {None, i}
  /\ \/ UNCHANGED posts
     \/ \E answer \in Answers : Call(i, answer)
  /\ job' = IF job.tries + 1 < Tries THEN [job EXCEPT !.at = i, !.tries = @ + 1]
            ELSE [job EXCEPT !.left = @ \ {i}, !.at = None, !.tries = 0, !.errs = @ \cup {i}]
  /\ UNCHANGED <<rank, cookie, changes, hist>>

Finished == job # None /\ job.left = {} /\ job.words = {}

\* The page names what failed, and the cookie stays as it was.
Fails ==
  /\ Finished /\ job.errs # {}
  /\ Ends
  /\ UNCHANGED <<posts, rank, cookie, changes>>

Succeeds ==
  /\ Finished /\ job.errs = {}
  /\ Reset
  /\ Ends
  /\ UNCHANGED <<posts, rank, changes>>

-----------------------------------------------------------------------------
(* Others, or the user elsewhere *)

Change(i) ==
  /\ changes < MaxChanges /\ changes' = changes + 1
  /\ touched' = IF job = None THEN {} ELSE touched \cup {i}
  /\ UNCHANGED <<rank, cookie, job, old>>

Others(i) ==
  /\ posts[i] # None
  /\ \/ posts' = [posts EXCEPT ![i] = None]
     \/ posts[i].poster # Me /\ posts' = [posts EXCEPT ![i].poster = None]
     \/ \E p \in PermsAsked : posts' = [posts EXCEPT ![i].perm = p]
     \/ \E t \in Tags : \/ posts' = [posts EXCEPT ![i].tags = @ \cup {t}]
                        \/ posts' = [posts EXCEPT ![i].tags = @ \ {t}]
  /\ Change(i)

PromoteMe(p) ==
  /\ changes < MaxChanges /\ changes' = changes + 1
  /\ rank' = p
  /\ UNCHANGED <<posts, cookie, job, hist>>

-----------------------------------------------------------------------------
Init ==
  /\ posts \in [Ids -> [poster : Posters, perm : PermsAsked, tags : SUBSET Tags]]
  /\ rank \in RanksGiven
  /\ cookie = None
  /\ job = None /\ changes = 0
  /\ old = None /\ touched = {}

Process ==
  \/ NextWord
  \/ \E i \in Ids : CallAnswered(i) \/ CallLost(i) \/ CallRefused(i)
  \/ Fails \/ Succeeds

Next ==
  \/ \E form \in Forms : Pick(form)
  \/ Cancel
  \/ \E kind \in {"apply", "delete"}, form \in Forms : Begin(kind, form)
  \/ Process
  \/ \E i \in Ids : Others(i)
  \/ \E p \in RanksGiven : PromoteMe(p)

Spec == Init /\ [][Next]_vars

-----------------------------------------------------------------------------
(* Properties *)

TypeOK ==
  /\ rank \in RanksGiven /\ changes \in 0 .. MaxChanges
  /\ posts \in [Ids -> Row \cup {None}]
  /\ cookie \in State \cup {None}
  /\ job \in Job \cup {None}
  /\ job # None => job.left \cup job.errs \subseteq job.state.sel

\* What the state asks of a post.  The one of "tag" and "-tag" that comes last wins.
Done(s, was, is) ==
  /\ s.perm # Skip => is.perm = s.perm
  /\ s.perm = Skip => is.perm = was.perm
  /\ is.poster = was.poster
  /\ \A t \in Tags :
       LET on  == [do |-> "tag", tag |-> t] \in s.tags
           off == [do |-> "untag", tag |-> t] \in s.tags
       IN  IF on = off THEN ~on => (t \in is.tags <=> t \in was.tags) ELSE t \in is.tags <=> on

\* When a batch ends, every post that was selected, and that nobody else has changed,
\* has become what was asked for or is named by an error, whichever calls failed or
\* were repeated; no other post has changed.
EveryPostAccountedFor ==
  Finished => \A i \in Ids \ touched :
    IF i \notin job.state.sel THEN posts[i] = old[i]
    ELSE \/ i \in job.errs
         \/ job.kind = "delete" /\ posts[i] = None
         \/ job.kind = "apply" /\ posts[i] = None /\ old[i] = None /\ job.state.perm = Skip
         \/ job.kind = "apply" /\ posts[i] # None /\ old[i] # None
              /\ Done(job.state, old[i], posts[i])
=============================================================================
