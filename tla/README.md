# A verification of smolboard

smolboard is an image board: a Go server over one SQLite database and a
directory of files, with a web frontend that talks to it through a client
library. This directory holds TLA+ models of it, the TLC configurations that
check them on small instances, and proofs for every size.

`tlc -config X.cfg M` checks a configuration; `tlapm M.tla` checks the proofs
of a module. `PROJECT.json` lists the runs, the lines of the source behind every
definition, the hazards, the findings and the theorems.

## 1. The system

| Component | Source | State it keeps | Operations |
|---|---|---|---|
| Transactions and pool | `server/db/db_tx.go`, `db.go`, `server/http/internal/tx` | pooled connections, the transaction open on each, the `Transaction` of a request | `BeginTx`, `Commit`, `Rollback`, `Acquire`, `AcquireGuest`; the middleware calls them around every handler |
| Users | `server/db/user.go`, `server/http/user` | table `users` | `createUser`, `PromoteUser`, `ChangePassword`, `DeleteUser`, listings |
| Sessions | `server/db/session.go`, `server/http/user` | table `sessions` | `querySession` (in every request), `Signin`, `Signup`, `Signout`, `DeleteSessionID`, `DeleteAllSessions`, `cleanupSession` |
| Invitation tokens | `server/db/token.go`, `server/http/token` | table `tokens` | `CreateToken`, `DeleteToken`, `useToken`, `ListTokens` |
| Permissions | `smolboard/smolboard.go`, `server/db/permission.go` | none | `HasPermission`, `HasPermOverUser`, `IsUserOrHasPermOver`, `permission`; the frontend's own `CanChangePost`, `CanSetPostPermission`, `AllowedPermissions` |
| Posts and tags | `server/db/post.go`, `server/http/post` | tables `posts`, `posttags` | `SavePost`, `DeletePost`, `SetPostPermission`, `TagPost`, `UntagPost`, search |
| Uploads | `server/http/upload`, `atomdl`, `internal/limread` | the file directory | `CreatePosts`, `CleanupPosts`, size and type limits |
| Image server | `server/http/upload/imgsrv` | the thumbnail cache | `ServePost`, `ServeThumbnail` |
| Converters | `server/http/upload/ff` | a semaphore | `FirstFrame`, `ProbeSize` through ffmpeg and ffprobe |
| Middleware | `internal/form`, `limit`, `middleware`, `httperr` | none of its own | decoding, rate limits, error codes |
| Assembly | `main.go`, `server/server.go`, `server/http/http.go` | configuration | start-up, `create-owner`, routing |
| Client | `client/` | a cookie jar | `Client.Do` with retries, one method per endpoint |
| Frontend | `frontend/` | none; it forwards cookies | pages, buttons, the pager, the batch of the posts settings |

How they interact. A page of the frontend calls the client, which makes HTTP
requests; the router gives each to a handler through `tx.Middleware`, which runs
it inside `Acquire`. With a `token` cookie the handler has a deferred transaction
on a connection of its own; without one its statements run, each by itself, on
whatever connection the pool has. All state that is shared is in SQLite, in the
file directory, in the thumbnail cache and in the pool itself. `CleanupPosts`
starts a goroutine that nobody waits for.

Hard behaviours, with what has to be right about them:

- **Pool.** A connection goes back to the pool in whatever state it is in. A
  request must have its own connection, must commit what it wrote and nothing
  else, and must give the connection back on every path.
- **Deferred transactions.** The snapshot is taken at the first read, the lock at
  the first write. What a request decided on must still hold when it commits.
- **Guests.** `Signin` and `Signup` are several statements without a transaction.
  They interleave with each other and with whole transactions, and can be cut
  short between two statements.
- **Invitation counts.** `remaining` counts down, -1 means unlimited, 0 means
  gone; the check, the decrement and the purge are three statements.
- **Ranks.** A sequence of promotions, demotions and deletions must not give an
  account authority that nobody above it granted. The owner is recognised by
  name, not by what the table says.
- **Sessions.** Renewal, expiry, closing by id, by user and with the account.
- **Foreign keys.** `PRAGMA foreign_keys` is a setting of a connection.
- **Two stores.** Files and thumbnails do not roll back with the database.
- **Files on their way in.** Each file of an upload has a goroutine; the disk may
  fail, a limit may turn out to be exceeded, and another file of the same upload may
  fail, at any point of it. No half of a file and no half of an upload may stay.
- **Converters.** They share a semaphore, and nothing ends one that is stuck.
- **Search.** Rows are joined, grouped, sorted and cut into pages while the board
  changes; a guest's search is several statements on several states.
- **Two views of the rules.** The frontend works out by itself which buttons to show.
- **Cookies.** The frontend keeps no session; every page passes cookies on between
  a browser, a client and the server, with paths and expiries that each sets its own way.
- **Retries and batches.** The client repeats calls that got no answer, and a batch
  is many calls of which some fail.

## 2. The modules

| Module | What it is |
|---|---|
| `Permissions` | the ranks and the checks of `smolboard.go`, as operators |
| `AtomicRequests` | abstract: what a request with a session may rely on |
| `Transactions` | `BeginTx`, `Commit`, `Rollback`, `Acquire` over the pool; implements `AtomicRequests` |
| `Accounts` | users, sessions and tokens |
| `Posts` | posts, tags, files and thumbnails, across requests |
| `AtomicStore` | abstract: what the file directory shows |
| `Uploads` | one upload from the form to the file, and the converters; implements `AtomicStore` |
| `Search` | the search, its pages, and the buttons of the frontend |
| `Browsing` | cookies between browser, frontend, client and server |
| `Batch` | the batch of the posts settings over the API |
| `MC...` | values and symmetries for TLC |
| `TransactionsProofs`, `AccountsProofs`, `PostsProofs`, `UploadsProofs`, `SearchProofs`, `BatchProofs`, `BrowsingProofs` | theorems and proofs |

How they fit together. `Transactions` justifies that the modules above it treat a
request with a session as one step, and a guest's as one step per statement.
`Accounts`, `Posts` and `Search` look at the same database from three sides, each
with the others' tables reduced to what it needs. `Uploads` opens up what is one
`Download` per file in `Posts`; what becomes of the rows is in `Posts`, what becomes
of the bytes in `Uploads`. `Browsing` and `Batch` are on the other side of the API,
and have the server's answers as choices of the handlers that the modules below model.

### Transactions

A request walks through `connect`, `begin`, `session`, `handler` and then
`commit` or `rollback` (`rpc`); these are the statements of `BeginTx`, the
handler and the end of `Acquire`. `pool` and `tx` say for each connection whether
it is closed, idle or in use, and which transaction is open on it. SQLite is
reduced to what the code can see of it: BEGIN inside a transaction fails; the
snapshot is taken at the first read; a write needs the lock and a snapshot that
is current, or fails; COMMIT publishes; closing a connection rolls back. database/sql
is reduced to: an idle connection is reused before one is opened, at most
`MaxIdle` are kept, and a connection is given back *as it is*.

Failures: the client may hang up at any moment (`Cancel`), after which statements
sent with the context of the request do not run, COMMIT and ROLLBACK among them;
an interrupted write makes SQLite roll the transaction back itself; the server may
restart. `SessionFails` is where `BeginTx` calls `Rollback` with `isTx` still
false: nothing is sent, and the transaction stays open in the pool. A statement that
is reported as failed because its context was cancelled may have run: BEGIN may have
opened a transaction, ROLLBACK may have ended one, and COMMIT may have published it
(`BeginFails`, `RollbackFails`, `CommitFails`).

`AtomicRequests` is what remains for a caller: a request with a session looks at
the state, issues writes on it while it is still current, and then takes effect at
once, or has no effect. A request that takes effect is told so, unless its client has
hung up (`TakeEffect(r, told)`). `Transactions` implements it under
`outcome <- OutcomeOf`, `seen <- SeenBy`, `issued <- IssuedBy`: the view and the
pending writes of the connection the request holds while it is in its transaction.

### Accounts

`users`, `sessions` and `tokens` are the tables. A request with a session is one
action; it is placed where it takes effect, which is sound because of
`AtomicRequests`: it saw the state it was committed on. A read-only request is
placed at its read. Handlers that fail are rolled back and change nothing, so only
what commits is an action. A guest's `Signin` and `Signup` are one action per statement
(`SigninVerify`, `SignupCheck`, `Decrement`, `Purge`, `CreateUser`, `NewSession`,
`Cleanup`), with `pc` and `req` for what the request holds between them, and
`Abort` for a statement that fails, a client that hangs up and a server that
stops: in all three, what was written stays. (That a guest may be on a connection
with someone's left-over transaction is a matter of `Transactions`; here a
guest's statement takes effect.)

`fk` says whether the connection that a request happens to be given enforces
foreign keys; `FkModes = {TRUE, FALSE}` is the program as it is (`applyPragmas` runs
on one connection), `{TRUE}` the program as its schema means it. Passwords are
values, and verifying one is comparing it. `now` is in units of which `RenewGap`
make the hour between renewals.

`openedWith`, `raced`, `keeper`, `since`, `cut` and `uses` are history variables for
the properties; no action reads them. `uses` says of each token for how many signups it
was made, how many it admitted, and whether one of them passed the check while others
had claimed all that was left (`oversold`).

### Posts

`posts` and `tags` are tables, `files` and `thumbs` the posts that have a file in
the directory and a thumbnail in the cache. Requests with a session that only touch the
database (`SetPostPermission`, `TagPost`, `UntagPost`) are one action. The others are
several:

- an upload (`UploadBegin`, one `Download` or `DownloadFails` per file,
  `SavePosts`, `UploadCommit`) holds a transaction, with the snapshot of its
  beginning, while its files arrive: `stale` says whether someone committed since,
  and `lock` who holds the write lock (an upload does from its beginning when its
  session was due to be renewed);
- a deletion takes the lock, starts the goroutine of `CleanupPost`, and only then
  commits;
- a guest's requests are one statement after another: `GuestMayChange` and then
  `GuestTags` or `GuestUntags`; `GuestGets`, `GuestChecks` and `GuestDeletes`. The post,
  its poster and its tags may change in between;
- a thumbnail is served after its transaction has ended: `Stat`, `GetThumb`,
  `Decode`, `PutThumb`;
- the goroutines of `CleanupPosts` are the counters `removing` and `uncaching`.
  `os.Remove` may fail, which is logged, and so may `thumbcache.Delete`, whose error is
  dropped (`Erase`).

COMMIT may fail after the handler has done its part, and the server may restart, or a
file fail to be removed; `MaxFaults` bounds how often. `lost` and `saved` are history
variables. Accounts are reduced to ranks and sessions, which
change under the upload as module `Accounts` allows.

### Uploads

A file walks through `open` (sniff the type), `create`, `copy`, `rename` and `decode`,
then perhaps `probe` and `frame` (the converters), to `done` (`pc`); `temp` and
`final` are the bytes under the temporary name and under its own. `OpenFails` is a file
of the form that cannot be opened or peeked into, `DiskFails` can hit each of the next
steps, `Undo` is the deferred removal of `Download`. `batches` are
the uploads whose `errgroup` is waited for: `UploadSucceeds` when all files are done,
`UploadFails` starts `CleanupPosts` for those that are. `CopyEnds` compares with the
limit what has been written already, as `LimitedReader.WriteTo` does. `keys` is the
order in which Go iterated over the map of `MaxSize` at this start, so `Restart`
draws it anew.

The semaphore is `holders` and `waiters` (a line, as in `semaphore.Weighted`);
`running` are the converters that were started and `stuck` those that never end. A
job that is given a slot while its timeout fires runs all the same, which is what the
library does.

`AtomicStore` has three actions: a file appears whole, files are turned down
together, a file is removed. `Uploads` implements it under `DirOf` and `FateOf`; the
contents that may appear are those of allowed types within `Permitted`: no more than
`MaxFileSize`, and no more than the key of `MaxSize` says, where all the keys that match
say the same. Where they differ the order of a map decides, and nothing else is said.

### Search

`Found` is the `SELECT` with its joins, `HAVING` and visibility; `Sizes` the sum over
the grouped join; `PageOf` is `LIMIT` and `OFFSET`, with the offset as the code
computes it (a `uint` product that wraps, `Wrap`, and is read as an `int64`).
`Parses` is `ParsePostQuery` on words: which queries are refused, and which of
several mentions counts. Tags have a case: `Fold` is what `COLLATE NOCASE` compares.
`SearchTag`, `SearchUsers`, `TagCount` are the other listings. `TagWords` are the places
of the tags in a query, of which there may be more than different tags (`QueryTags`).

A reader walks the pages (`StartWalk`, then one request per page); someone signed in
reads one snapshot (`ListPosts`), a guest reads three (`GuestFindsUser`,
`GuestQueries`, `GuestCounts`), with others' changes in between. `AllowedSetPerms`,
`AllowedPermissions`, `AllowedPromotes` and `NumPages` are the frontend's own
computations.

### Browsing

A page is asked for (`Open`), calls the API once or twice (`Answered`, or `Lost` and
repeated up to `Tries`), and flushes the client's jar to the browser (`Show`) or shows
an error, which flushes nothing. The three ways of flushing are `FlushToken` (the token
came with a path and an expiry), `FlushSent` (the HTTP backend: the cookies of the
request once more, at the path of the page) and `FlushEmpty` (the empty token of a
session that was closed). Cookies are kept by path: `/`, `/settings`, `/settings/posts`
(where a page with a path of its own below it writes them, as a batch does) and
`/posts`. `PathsOf` are those that the browser sends with a page, `DefaultPath` is where
it puts a cookie that comes without one; the deepest is the one that
`http.Request.Cookie` finds. The deadline of a cookie is `"deadline"` (that of
its session), `"earlier"` (the session was renewed and the browser was not told) or
`"close"`; `Lapse`, `LapseEarlier` and `CloseBrowser` end them. Sessions end
elsewhere as well.

### Batch

`cookie` is the state of `jsonState`: selected posts, a permission, tags with and
without `-`. `Pick` merges a form into it, `Begin` merges one as well, without keeping
it, and starts `processPOST` or `deletePostsPOST`, whose loops are `job`: the permission
of every post first, then tag after tag, each in the random order of a Go map. Every
call is a transaction of its own (`SetPostPermission`, `TagPost`, `UntagPost`,
`DeletePost` with their checks); `CallLost` is a call that was or was not done and gets
no answer, `CallRefused` one that was or was not done and is answered that there are too
many requests or that the server failed; `Client.Do` repeats both, and gives up after
`Tries`. Others change posts, delete them, delete their posters and change the caller's
rank meanwhile. The cookie is that of the socket backend, which passes on only what the
API sets (see below for the other one).

## 3. What is checked

`CHECK_DEADLOCK FALSE` is in the configurations of Transactions, Accounts, Posts,
Uploads and Search because these models have counters with a bound (statements of a
handler, sessions, tokens, clock, posts, files, changes) or a reader who is done: at
the bound nothing may be left to do, which says nothing about the program. Browsing and
Batch are checked for deadlocks.

| Run | Instance | Shows |
|---|---|---|
| `transactions` | 2 requests with a session, 1 guest, 2 connections of which 1 stays idle, 1 statement each besides `querySession`, hang-ups, restarts | `OwnConnection`, `OwnTransaction`, the implementation of `AtomicRequests`, and under fairness `ConnectionsReturned` |
| `accounts` | 3 names, 2 passwords, 2 guests at once, 2 sessions, 1 token for one, two or any number of signups, 1 request cut short, a clock of 4 with lifespan 2, both foreign-key modes; one thing at a time (below) | `ClaimsWithinGrant`, `ExhaustedTokensPurged`, `PasswordChangeEvicts`, `RankAuthority`, `PasswordOnlyByOwnSession`, `RenewalDiscipline` |
| `posts` | 2 posts in one or two uploads, 2 requests at once, 1 fault, both foreign-key modes; one thing at a time (below) | `PostsHaveFiles`, `CheckedUntilCommit`, `FilesAccountedFor`, `ThumbnailsOfSavedPosts` |
| `uploads` | 2 files in one or two uploads, 1 thumbnail, 1 slot, 1 stuck converter, 1 restart, two keys of `MaxSize` in both orders, one type that both match and one that one does | `TemporaryFilesGo`, `UploadsLeaveAllOrNothing`, `SlotsConserved`, the implementation of `AtomicStore`, and under fairness `UploadsEnd` |
| `search` | 3 posts, one per page, 2 accounts, a tag in two cases, 2 changes, `Wrap` 8, query limit 2, tag limit 1 | `FoundExactly`, `PagesPartition`, `MissesAtMostWhatLeft`, `TagsCounted`, `ButtonsWork` |
| `browsing` | 2 names, 2 tokens, 4 paths, both backends, 2 tries | `ActsAsSignedIn`, `ActsAsShown`, `SignedOutForgets` |
| `batch` | 2 posts, 1 tag, 2 permissions, 2 tries, 1 change by others; the permission and one tag, or tags alone | `EveryPostAccountedFor` |
| `transactions_expired`, `accounts_overdrawn`, `accounts_promotions`, `accounts_foreign_keys`, `posts_orphan` | see below | each ends with a counterexample |

Three runs have a CONSTRAINT, which stops behaviours where things would come together
that each property looks at apart:

- `OneAtATime` of `MCAccounts`: two guests are at work at once only while the clock
  stands, there is one password, and no more than two accounts and one session; the
  clock runs, passwords change, or three accounts promote and delete each other, beside
  one guest and with a token for one use. Tokens are about counts, sessions
  about passwords and the clock, ranks are about accounts: what a combination of the
  cases could add is covered by the proofs, which have no such bound.
- `OneAtATime` of `MCPosts`: tags, thumbnails and a second post come one at a time. No
  property relates a tag to a thumbnail or either to another post; the proofs have them
  together.
- `TwoWorks` of `MCBatch`: a batch is of the permission and one tag or of tags alone, and
  what is sent together with it is posts. The proof has any.

Why the instances are large enough. Two connections of which one stays idle
are the fewest with which a request can find a left-over transaction while
another one runs. Two guests are needed for a lost decrement and enough for one.
Three names are the owner and two others: an administrator who promotes, and one who is
promoted. Two sessions are what an eviction
needs: one that stays and one that goes. The clock runs through two lifespans: a
renewal, a renewal that comes too early, an expiry. Two posts make an upload of which
one file fails; two requests make each race of a deletion, an upload and a thumbnail.
A token is not used by a new signup below `-MaxOverdraft`, a bound of the model.

One slot and three jobs fill the line of the semaphore; with one stuck converter
everyone else lives on timeouts. The sizes of `Uploads` lie below, at and above
each limit; the two keys are the overlap of `config.default.toml`, which has a limit for
images and another for PNG. Three posts, one on each page, are the fewest where a
post can leave an early page while a later one is still to come; two changes are one
that shifts a page and one that undoes it. `Wrap` is small so that the offset
overflows within the pages that are looked at. Two tokens and two names make a
browser hold a cookie of a session that is not its last; four paths are where the
frontend leaves tokens; a guest's name that the HTTP backend echoes at `/posts/{id}` is
left out. Two posts make a batch that is half done, two tries a repeated call; one
change by others meets every moment of a batch.

Symmetry is used for passwords, guests, names other than the owner's, requests, tokens
of sessions and the posts of a batch, which nothing tells apart, and in no run with a
liveness property.

Fairness. `FairSpec` of `Transactions` has weak fairness of what `BeginTx` and `Acquire`
do around a handler (`Bracket`): the Go scheduler runs every goroutine, and no statement
waits for ever, since one that finds the database locked fails after the busy timeout.
Nothing is assumed about the handler itself, which may be an upload that waits for its
files and a converter that is stuck: `ConnectionsReturned` says that a connection comes
back over and over unless it is with a request whose handler does not end. `FairSpec` of
`Uploads` has weak fairness of the goroutines of files, of uploads and of jobs that wait
or convert: the scheduler runs them, a file has an end, and `acquire` has a timeout.
Nothing is assumed about clients, about which outcome a step has, about restarts, or
about a converter that is stuck, and no fairness between jobs is needed that the line of
the semaphore does not give.

Each property of a passing run has a mutant in `PROJECT.json`: a definition of the
model changed as a plausible bug would, under which TLC finds the property violated.

### What the code does otherwise than it says

Each of these is a run that TLC ends with a counterexample.

- `transactions_expired`: `BeginTx` promises a guest no transaction. When a
  session is rejected, `Rollback` runs before `isTx` is set and sends nothing; the
  connection returns to the pool inside its transaction, and a guest that gets it reads
  an old snapshot, and writes what nobody commits. A request with a session on it is
  refused by BEGIN, so that it cannot commit someone else's writes: that is
  `OwnTransaction`. The same is left behind when COMMIT or ROLLBACK is sent with
  a context that is already cancelled.
- `accounts_overdrawn`: two guests who sign up at once with the last use of a token take
  it from 1 to -1, past the purge at 0, and -1 means unlimited, "owner only"
  (`db.go:41`). `TestToken/OneTimer` expects the second use to fail; it uses the token
  twice in a row.
- `accounts_promotions`: an administrator can promote to Administrator, which
  `user.go:172` and `smolboard.go:69` reserve to the owner.
- `accounts_foreign_keys`: on a connection without the pragma, deleting an account
  leaves its sessions and tokens.
- `posts_orphan`: when the account of a poster is deleted, the poster reads as the
  empty name, and so does a guest: guests may tag and delete the post.

These were met while modelling. The models have them, and no run is spent on them. The
properties near them do not cover them, and say so: what is listed here is *not* shown
to be right.

- `CleanupPosts` means to "Make sure the thumbnail is not cached anymore"
  (`upload.go:91`). A request that has decoded the picture already puts it into the
  cache afterwards, and an error of `thumbcache.Delete` is dropped: the thumbnail of a
  post that is gone stays until the cache lets go of it. (It is not shown: the post is
  looked up first.) `ThumbnailsOfSavedPosts` says only that there is none
  of a post that never was.
- Where the pragma of `db.go:199` is missing, the tags of a post stay when it is deleted,
  and a guest's INSERT (`post.go:395`) may come after the deletion of the post that was
  checked at `post.go:391`. `db.go:65-70` declares the foreign key.
- The comment at `smolboard.go:506-507` wants `UserPart.CanChangePost` in sync with the
  backend. It compares with the permission of the *post*, the server with that of the
  *poster*: for an administrator the two differ. Where the poster is gone, the server's
  checks fail or take a guest for the poster, and the frontend's do not. `ButtonsWork`
  is about the permissions and promotions that are offered, for posts with a poster.
- The list of users shows administrators the Owner, whose stored rank is User, where
  `user.go:104` says "Only show users whose permissions are lower than the current
  user". No button is offered for the Owner.
- `SearchTag` joins `posttags` with itself and so counts the square of the number of
  posts; the order is right (`TagsCounted`), and no handler calls it yet.
- `MaxSize` (`maxsize.go:47`) uses the last key that matches, in the order of a Go map,
  where `config.default.toml:27` says the smallest: a PNG may be accepted at one start
  and refused at the next. `StoreSpec` says nothing of which key counts where they
  differ. A missing `p` in an upload is rank 0, Guest, where
  `post.go:78` says "default Normal".
- `session.go:227` means to "Prevent deleting the same session without properly signing
  out", and `DeleteSessionID` calls `Signout`, which deletes the row. What clears the
  cookie is `SetSession(nil)` in the handler of `/signout` (`user.go:230` in
  `server/http/user`), which this path does not come to. A session that was closed from
  the list of sessions by itself leaves a cookie that is refused by every page until it
  expires (`SignedOutForgets` exempts it); so do cookies at `/settings` and
  `/settings/posts` after signing out at `/`.
- Signing in while signed in answers with the session there is, whoever it is of;
  signing up on top of a session keeps the old one too. `ActsAsSignedIn` is about browsers
  that did not (`doubled`).
- When every try of `Client.Do` fails to connect, the error stays in the loop's own
  `err` (`client.go:275-297`) and the caller gets a nil response: a panic, which
  `CallLost` models as a page that shows nothing.
- Posts that are ticked on the page from which a batch is sent take part in it, but are
  not written to the cookie (`posts.go:356`): after an error they are not selected any
  more, and sending the batch again does not try them.
- A post that was deleted, or whose poster was, makes every further try of a batch that
  sets a permission or deletes fail, until the batch is cancelled: the error of
  such a post is not among those that are ignored. A deletion whose answer was
  lost is reported as an error although it was done.
- With the HTTP backend the frontend echoes *all* cookies of a call at the path of the
  page, `username` and `posts-settings` among them; these hide the ones at `/` that
  Cancel and later picks write, so that a batch may seem not to be cancelled. `Browsing`
  has the echoes of `token` and `username`, which is why `ActsAsShown` is about sockets;
  `Batch` has no echoes.

## 4. What is proved

For every number of requests, connections, names, sessions, tokens, uses, posts, files,
slots, tags and tries. Each module of proofs has one inductive invariant, shown to
hold initially, to be kept by every action (a lemma per action or group of
actions), and to imply the invariants of the runs.

`TransactionsProofs`. The inductive invariant `Inv` is the conjunction of the
invariants of the run with `WritesOnCurrentState`, a lemma about SQLite's lock and
snapshots (uncommitted writes are held by one transaction, on the state that is
current), on which the refinement rests. That writes are on the current state needs that a
transaction with writes is the only one (the lock), that it belongs to the request
on whose connection it is (`OwnConnection`), and that it is open
(`OwnTransaction`). `Fresh` adds that a request's next write is not durable yet. The
theorem `Refinement` (`Spec => AtomicSpec`) then goes action by action:
each step of a request is a step of the same request in `AtomicRequests` or leaves
its variables alone (`Frame` says why a step of one request does not disturb what
another sees), a guest's write is `Other` or, in a left-over transaction, nothing.
Assumed: `TransactionsAssumption`, no more than that the kinds of request are disjoint.

`AccountsProofs`. `TypeCorrect` holds by itself, with what a request in flight
holds. `Allocated` (ids beyond `opened` and `minted` are unused) makes the next row
a new one; with it follow `ClaimsHold`, `ExhaustedArePurged` and `EvictionHolds`.
`ClaimsHold` rests on `ClaimsCovered`: while a token has not been oversold, what is left
of it is at least the number of guests between the check and the UPDATE, and what it
admitted and what is left make up what it was made for. `EvictionHolds` needs no
assumption about foreign keys: a session that outlives its account was opened before the
name was taken anew, which `since` remembers. The action properties
(`RanksAuthorised`, `PasswordsOwn`, `RenewalsDisciplined`) are proved per action from
the type invariant.

`PostsProofs`. What is to be shown of files (`PostsHaveFiles`, `FilesAccountedFor`) is
not inductive. `Allocated` says that ids are not used again, `UploadsApart` that an
upload's posts are nobody else's, `FilesInPlace` that what it has downloaded is there,
`CommitsLocked` that whoever is about to commit holds the write lock, and
`CleanupsKnown` that a clean-up takes a file only with its post. `ChecksHold` is the
lock argument: a request that has checked and written holds the lock, so nobody commits
until it does, and what it checked stays true; of a guest, who has no lock, it says that
the poster of a post that passed the check is still gone, since a poster does not come
back (`CheckedByGuest`). `ThumbnailsSaved` needs `SavedKnown`: the posts that requests
are about to delete or to render have been saved.

`UploadsProofs`. `FileInv` says, for each place of a goroutine, what is under its two
names and that what is about to be renamed is whole and permitted; the latter needs that
the limit comes from some matching key, and so from any where they agree, whatever the
order is. `SlotsConserved` is
inductive as it stands: the line is only non-empty while all slots are held. The theorem
`DirectoryIsAtomic` (`Spec => StoreSpec`) maps `Rename` to `Store`, refusals, failures
and restarts to `Refuse`, and the clean-up to `Remove`.

`SearchProofs`. `RanksOK` (ranks lie below the owner's and the owner's row is never
promoted) is inductive; under it the comparisons of the frontend and the server are
arithmetic over the ranks, for any users and posts, and those who are listed are
outranked (`Outranked`).

What is found, how it is cut and counted (`FoundExactly`, `PagesPartition`, the second
half of `TagsCounted`) depends on the board alone, and is proved of every board. `Rank`
is the place of a post among those found; ranks are `1 .. n`, each taken once
(`RankTaken`), so that an order exists (`OrderedPosts`), a page is the posts of `count`
consecutive places (`PageIs`) and the pages divide the places (`Pages`). That the offset
does not wrap up to there needs that IDs are `int64` (`MaxPosts <= Wrap \div 2`).
`HavingAll` compares three cardinalities: the rows of the join are at most the different
tags, these at most the words. `FoldOK`, the `UNIQUE` index, is inductive.

`MissesAtMostWhatLeft` is about the end of the walk; `WalkInv` says it of every request:
of the posts that were found all the time, those at the `Due` first places have arrived,
up to one for each post that has left. It survives a change to the board because no post
moves up by more places than posts have left (`RankMoves`) and that many places hold that
many posts (`Band`), whatever has come at the top (`Slip`); it survives a request because
the page holds the next places (`NextPage`), and it is enough at the end because the pager
goes on as long as there are places left (`ShowWalks`).

`BatchProofs`. `Made` says what a post has become while the batch is under way: for each
piece of work, `Through` tells whether it is behind for that post. Of two contradicting
tags nothing is claimed. A call changes one post only (`CallOnly`), what it does
when it is repeated is what it did before, an answer that is ignored (`client.ErrIs`) is
one after which the post is as asked, and a call that was given up is an error of its
post, whatever it did (`CalledInv`). `JobInv` orders the work. With
`Finished`, everything is behind, and `Made` becomes what `EveryPostAccountedFor` says.

`BrowsingProofs`. Whom a page acts as depends on the token that it was opened with, so
`OneSession` speaks of every token that the browser or the open page still holds
(`Live`): while nobody has signed in on top of a session, at most one of them opens
anything, and it belongs to `signedIn`. `PageInv` relates the jar of a page to its
answers: without one it holds the first cookie of the request, after one the answer.
`NameInv` says that with a socket the name is only ever written at `/`. `Forgets` is the
induction behind `SignedOutForgets`: a dead token whose end was told is about to be
deleted. Calls are summed up by `ApiDoes` (sessions only end, or one that nobody holds is
opened and is the answer), what happens behind the browser's back by `UntoldInv`, what
time takes by `DropsInv`, and the echo of cookies by `SentBack`: at `/` it writes only
the token that was there.

Assumed besides: the named assumptions on constants (`PostsAssumption`,
`UploadsAssumption`, `SearchAssumption`, `BatchAssumption`, `BrowsingAssumption`,
and `NoneAssumption`: that `None` is not a row, a job, a number, a page or a cookie),
which TLC evaluates in the runs.

Only model-checked: `ConnectionsReturned` and `UploadsEnd`, since liveness is beyond the
prover, and what the violation runs show.

## 5. What is not modelled, and what is left

Not modelled:

- text: how a query is split into words and quoted, escaping, the parsing of sizes and
  file names, JSON and form decoding;
- presentation: templates, themes, components, blurhashes, the size of a picture, and
  `resource.go`, which is generated from the assets by parcello;
- assembly: routing, configuration, start-up, the `create-owner` prompt, and the
  migration, whose result is `Init`;
- rate limits, which are a library's, and error codes, which are a function of the error;
- other programs: SQLite, database/sql, bcrypt, the converters, browsers. They are
  reduced to what this code sees of them.

A count of uses below -1, which `CreateToken` accepts from an administrator, is left out
of the instances: such a token never meets zero. The proofs are for any counts.

Left to do: the echoes of the HTTP backend in `Batch`; that clean-ups end, in `Posts`
(liveness).
