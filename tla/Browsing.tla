------------------------------ MODULE Browsing ------------------------------
(***************************************************************************)
(* How a browser stays signed in: the cookies between the browser, the      *)
(* frontend (frontend/frontserver/render and the pages that sign in and     *)
(* out), its client of the API (client) and the server (server/http/user,   *)
(* internal/tx).                                                            *)
(*                                                                          *)
(* The frontend keeps nothing.  For each page it makes a client whose jar   *)
(* holds the cookies of the request, calls the API as often as the page     *)
(* needs, repeating what gets no answer, and then flushes the jar to the    *)
(* browser: the token that the server has set, with its path and expiry, or *)
(* the cookies of the request once more, which have neither.                *)
(*                                                                          *)
(* Time is abstract: a cookie goes with the deadline of its session, with   *)
(* an earlier one if the session was renewed without the browser hearing of *)
(* it, or with the browser.                                                 *)
(***************************************************************************)
EXTENDS Naturals, FiniteSetsExt

CONSTANTS
  Names,      \* usernames
  Sessions,   \* authentication tokens; one that nobody has may be drawn again
  Modes,      \* backends of the frontend: a socket, or an HTTP endpoint
  Tries,      \* Client.Tries
  Empty,      \* the token of Session{}
  None

ASSUME BrowsingAssumption ==
  /\ Modes \subseteq {"socket", "http"} /\ Tries \in Nat \ {0}
  /\ Empty \notin Sessions /\ None \notin Sessions \cup Names \cup {Empty}
  /\ {"ok", "error"} \cap (Sessions \cup {Empty, None}) = {}
  /\ IsFiniteSet(Sessions)

\* The paths of cookies: "/", "/settings", "/settings/posts" and "/posts".
Paths == 1 .. 4

\* Pages by what they do: one that calls no API (home, the forms to sign in and
\* up), the gallery and a post of it, the panels of /settings, the posts of
\* /settings/posts (listed, selected, sent as a batch, or none selected any more), and
\* those that change the session.
Kinds == {"home", "gallery", "post", "panel", "list", "select", "batch", "reset",
          "signin", "signup", "signout", "close", "deleteMe"}

\* The paths whose cookies the browser sends with a page, the deepest one last.
PathsOf(kind) ==
  CASE kind \in {"list", "select", "batch", "reset"} -> {1, 2, 3}
    [] kind \in {"panel", "close", "deleteMe"} -> {1, 2}
    [] kind \in {"gallery", "post"} -> {1, 4}
    [] OTHER -> {1}

\* The path of a cookie that comes without one: the directory of the page.
DefaultPath(kind) ==
  CASE kind \in {"batch", "reset"} -> 3
    [] kind \in {"list", "select"} -> 2
    [] kind = "post" -> 4
    [] OTHER -> 1

CallsAPI(kind) == kind \notin {"home", "select", "reset"}

VARIABLES
  mode,       \* the backend of this frontend
  accounts,   \* accounts that exist
  owner,      \* table sessions: the account of each token, or None
  tokens,     \* cookies "token" of the browser, by path
  names,      \* cookies "username" of the browser, by path
  page        \* the page being served, or None

\* History variables: no action reads them.
VARIABLES
  signedIn,   \* the account this browser signed in as last, or None
  doubled,    \* a form to sign in or up was sent by a browser that was signed in
  behind      \* sessions that ended without the browser being told

server  == <<accounts, owner>>
cookies == <<tokens, names>>
hist    == <<signedIn, doubled, behind>>
vars    == <<mode, server, cookies, page, hist>>

Cookie == [value : Sessions, until : {"deadline", "earlier", "close"}]

\* A page with the name that its form has, if any, and the token in the jar of its client.
Page == [kind : Kinds, u : Names \cup {None}, token : Sessions \cup {None},
         stage : {"me", "call", "flush", "failed"},
         reply : Sessions \cup {Empty, None},   \* the cookie of the last answer
         as : Names \cup {None},                \* the account that was served
         name : Names \cup {None},              \* of the account, if it was asked for
         tries : 0 .. Tries - 1]

\* None is not what a page or a cookie looks like.
ASSUME NoneAssumption == None \notin Page \cup Cookie

\* The cookies sent to a page, deepest path first: the first is the one that
\* http.Request.Cookie finds.
Sent(c, kind) == {p \in PathsOf(kind) : c[p] # None}

FirstToken(kind) ==
  IF Sent(tokens, kind) = {} THEN None ELSE tokens[Max(Sent(tokens, kind))].value

FirstName(kind) ==
  IF Sent(names, kind) = {} THEN None ELSE names[Max(Sent(names, kind))]

Alive(s) == s \in Sessions /\ owner[s] # None

HasSession(p) == tokens[p] # None /\ Alive(tokens[p].value)

\* randToken
Fresh(s) ==
  /\ owner[s] = None
  /\ \A p \in Paths : tokens[p] # None => tokens[p].value # s
  /\ page # None => page.token # s

-----------------------------------------------------------------------------
(* The browser asks for a page: Mux.NewRequest *)

\* The name is asked for when there is a token and no name.
Open(kind, u) ==
  /\ page = None
  /\ kind \in {"close", "deleteMe"} => FirstToken(kind) # None
  /\ (u = None) = (kind \notin {"signin", "signup"})
  /\ LET asks == FirstName(kind) = None /\ FirstToken(kind) # None IN
       page' = [kind |-> kind, u |-> u, token |-> FirstToken(kind),
                stage |-> IF asks THEN "me" ELSE IF CallsAPI(kind) THEN "call" ELSE "flush",
                reply |-> None, as |-> None, name |-> None, tries |-> 0]
  /\ UNCHANGED <<mode, server, cookies, hist>>

-----------------------------------------------------------------------------
(* The server: Middleware.M and the handlers *)

\* BeginTx renews a session that has not been renewed for an hour: the cookies that
\* the browser has do not know of it.
Renews(s) ==
  \/ UNCHANGED tokens
  \/ tokens' = [p \in Paths |->
       IF tokens[p] # None /\ tokens[p].value = s /\ tokens[p].until = "deadline"
       THEN [tokens[p] EXCEPT !.until = "earlier"] ELSE tokens[p]]

\* querySession: ErrSessionExpired.  Or the handler fails, or is not reached.
ApiFails(answer) == answer = "error" /\ UNCHANGED <<server, tokens>>

\* A handler for somebody signed in who stays so.  The cookie is set each time.
ApiReads(answer) ==
  /\ \/ page.stage = "me"
     \/ page.kind \in {"gallery", "post", "panel", "list", "batch"}
     \/ page.kind = "signin"             \* "If already signed in."
  /\ Alive(page.token)
  /\ answer = page.token
  /\ Renews(page.token)
  /\ UNCHANGED server

\* What a guest gets without a session: posts are read, and those of nobody changed.
\* There is no cookie to set.
ApiServesGuest(answer) ==
  /\ page.stage = "call" /\ page.kind \in {"gallery", "post", "batch", "signout"}
  /\ page.token = None
  /\ answer = "ok"
  /\ UNCHANGED <<server, tokens>>

\* newSession, whose token becomes the cookie
Opens(answer) ==
  \E s \in Sessions :
    /\ Fresh(s) /\ answer = s
    /\ owner' = [owner EXCEPT ![s] = page.u]

ApiSignin(answer) ==
  /\ page.stage = "call" /\ page.kind = "signin"
  /\ page.token = None /\ page.u \in accounts
  /\ Opens(answer)
  /\ UNCHANGED <<accounts, tokens>>

\* Someone signed in may sign up as somebody else, and keeps the old session.
ApiSignup(answer) ==
  /\ page.stage = "call" /\ page.kind = "signup"
  /\ page.token = None \/ Alive(page.token)
  /\ page.u \notin accounts
  /\ accounts' = accounts \cup {page.u}
  /\ Opens(answer)
  /\ UNCHANGED tokens

\* Mutant: the session stays in the database.
ApiSignoutOnly(answer) ==
  /\ page.stage = "call" /\ page.kind = "signout"
  /\ Alive(page.token) /\ answer = Empty
  /\ UNCHANGED <<server, tokens>>

ApiSignout(answer) ==
  /\ page.stage = "call" /\ page.kind = "signout"
  /\ Alive(page.token) /\ answer = Empty
  /\ owner' = [owner EXCEPT ![page.token] = None]
  /\ UNCHANGED <<accounts, tokens>>

\* DeleteSession of the current session signs out, but leaves tx.Session as it is.
ApiClosesThis(answer) ==
  /\ page.stage = "call" /\ page.kind = "close"
  /\ Alive(page.token) /\ answer = page.token
  /\ owner' = [owner EXCEPT ![page.token] = None]
  /\ UNCHANGED <<accounts, tokens>>

\* Mutant: the handler leaves tx.Session as it is.
ApiDeletesMeOnly(answer) ==
  /\ page.stage = "call" /\ page.kind = "deleteMe"
  /\ Alive(page.token) /\ answer = page.token
  /\ accounts' = accounts \ {owner[page.token]}
  /\ owner' = [s \in Sessions |-> IF owner[s] = owner[page.token] THEN None ELSE owner[s]]
  /\ UNCHANGED tokens

ApiDeletesMe(answer) ==
  /\ page.stage = "call" /\ page.kind = "deleteMe"
  /\ Alive(page.token) /\ answer = Empty
  /\ accounts' = accounts \ {owner[page.token]}
  /\ owner' = [s \in Sessions |-> IF owner[s] = owner[page.token] THEN None ELSE owner[s]]
  /\ UNCHANGED tokens

Api(answer) ==
  \/ ApiFails(answer) \/ ApiReads(answer) \/ ApiServesGuest(answer)
  \/ ApiSignin(answer) \/ ApiSignup(answer) \/ ApiSignout(answer)
  \/ ApiClosesThis(answer) \/ ApiDeletesMe(answer)

Ended  == {s \in Sessions : owner[s] # None /\ owner'[s] = None}
Opened == {s \in Sessions : owner[s] = None /\ owner'[s] # None}

Answers == Sessions \cup {Empty, "ok", "error"}

-----------------------------------------------------------------------------
(* The client: Client.Do *)

Calling == page # None /\ page.stage \in {"me", "call"}

\* Jar.SetCookies: the cookie of an answer, if any, replaces all that the jar has.
InJar(token, answer) ==
  IF answer \in Sessions THEN answer ELSE IF answer = Empty THEN None ELSE token

\* An answer.  An error of the call for the name is ignored; one of the page makes
\* an error page.
Answered ==
  /\ Calling
  /\ \E answer \in Answers :
       /\ Api(answer)
       /\ page' = [page EXCEPT
            !.stage = CASE answer = "error" /\ page.stage = "call" -> "failed"
                        [] page.stage = "me" /\ CallsAPI(page.kind) -> "call"
                        [] OTHER -> "flush",
            !.token = InJar(@, answer),
            !.reply = IF answer \in Sessions \cup {Empty} THEN answer ELSE @,
            !.as    = IF Alive(page.token) /\ answer # "error" THEN owner[page.token] ELSE @,
            !.name  = IF page.stage = "me" /\ answer \in Sessions THEN owner[answer] ELSE @,
            !.tries = 0]
  /\ behind' = (behind \ Opened) \cup (IF page.kind = "close" THEN Ended ELSE {})
  /\ UNCHANGED <<mode, names, signedIn, doubled>>

\* The request or its answer is lost, and the request is repeated, whatever it was.
\* After the last try there is neither an answer nor an error (err is shadowed in
\* the loop): Do panics, and nothing is sent to the browser.
Lost ==
  /\ Calling
  /\ \/ UNCHANGED <<server, tokens>> \/ \E answer \in Answers : Api(answer)
  /\ page' = IF page.tries + 1 < Tries THEN [page EXCEPT !.tries = @ + 1] ELSE None
  /\ behind' = (behind \ Opened) \cup Ended
  /\ UNCHANGED <<mode, names, signedIn, doubled>>

-----------------------------------------------------------------------------
(* The page goes to the browser: FlushCookies, renderError *)

SetName(u) == names' = [names EXCEPT ![1] = u]

\* An error page: only what was set before it is sent, which is the name.
ShowError ==
  /\ page # None /\ page.stage = "failed"
  /\ IF page.name # None THEN SetName(page.name) ELSE UNCHANGED names
  /\ page' = None
  /\ UNCHANGED <<mode, server, tokens, hist>>

\* Mutant: the deletion of the token is flushed like any other token.
FlushEmptyKept ==
  /\ page.reply = Empty
  /\ tokens' = [tokens EXCEPT ![1] = [value |-> Empty, until |-> "deadline"]]
  /\ SetName(None)

\* The token is deleted, and the name with it.
FlushEmpty ==
  /\ page.reply = Empty
  /\ tokens' = [tokens EXCEPT ![1] = None]
  /\ SetName(None)

\* Mutant: the name of the form is forgotten.
FlushTokenOnly ==
  /\ page.reply \in Sessions
  /\ tokens' = [tokens EXCEPT ![1] = [value |-> page.reply, until |-> "deadline"]]
  /\ IF page.name # None THEN SetName(page.name) ELSE UNCHANGED names

\* The token of the server.  Whoever signs in or up gets the name of the form.
FlushToken ==
  /\ page.reply \in Sessions
  /\ tokens' = [tokens EXCEPT ![1] = [value |-> page.reply, until |-> "deadline"]]
  /\ IF page.kind \in {"signin", "signup"} THEN SetName(page.u)
     ELSE IF page.name # None THEN SetName(page.name) ELSE UNCHANGED names

\* The cookies of the request, at the path of the page: the one token that the
\* socket client takes over, or all of them, where the last stays.
FlushSent ==
  /\ page.reply = None
  /\ LET at == DefaultPath(page.kind)
         ts == Sent(tokens, page.kind)
         ns == Sent(names, page.kind)
         t  == IF mode = "http" THEN tokens[Min(ts)].value ELSE page.token
     IN  /\ tokens' = IF ts = {} THEN tokens
                      ELSE [tokens EXCEPT ![at] = [value |-> t, until |-> "close"]]
         /\ names' = IF mode = "http" /\ ns # {}
                     THEN [names EXCEPT ![at] = names[Min(ns)]] ELSE names

Show ==
  /\ page # None /\ page.stage = "flush"
  /\ FlushEmpty \/ FlushToken \/ FlushSent
  /\ page' = None
  /\ signedIn' = CASE page.kind \in {"signin", "signup"} -> page.u
                   [] page.reply = Empty -> None
                   [] OTHER -> signedIn
  /\ doubled' = (doubled \/ (page.kind \in {"signin", "signup"}
                              /\ (page.as # None \/ \E p \in Paths : HasSession(p))))
  /\ UNCHANGED <<mode, server, behind>>

-----------------------------------------------------------------------------
(* Time, the browser, and what happens elsewhere *)

\* The deadline of a session, and of its cookies.  A page takes no time.
Lapse(s) ==
  /\ page = None
  /\ owner' = [owner EXCEPT ![s] = None]
  /\ tokens' = [p \in Paths |->
       IF tokens[p] # None /\ tokens[p].value = s /\ tokens[p].until # "close"
       THEN None ELSE tokens[p]]
  /\ behind' = behind \cup Ended
  /\ UNCHANGED <<mode, accounts, names, page, signedIn, doubled>>

\* The browser drops a cookie whose session was renewed without it.
LapseEarlier(p) ==
  /\ page = None
  /\ tokens[p] # None /\ tokens[p].until = "earlier"
  /\ tokens' = [tokens EXCEPT ![p] = None]
  /\ UNCHANGED <<mode, server, names, page, hist>>

CloseBrowser ==
  /\ page = None
  /\ names' = [p \in Paths |-> None]
  /\ tokens' = [p \in Paths |->
       IF tokens[p] # None /\ tokens[p].until = "close" THEN None ELSE tokens[p]]
  /\ UNCHANGED <<mode, server, page, hist>>

\* A session is closed from another browser, or with a new password.
CloseElsewhere(s) ==
  /\ owner[s] # None
  /\ owner' = [owner EXCEPT ![s] = None]
  /\ behind' = behind \cup Ended
  /\ UNCHANGED <<mode, accounts, cookies, page, signedIn, doubled>>

DeletedElsewhere(u) ==
  /\ u \in accounts
  /\ accounts' = accounts \ {u}
  /\ owner' = [s \in Sessions |-> IF owner[s] = u THEN None ELSE owner[s]]
  /\ behind' = behind \cup Ended
  /\ UNCHANGED <<mode, cookies, page, signedIn, doubled>>

Elsewhere ==
  \/ \E s \in Sessions : CloseElsewhere(s)
  \/ \E u \in Names : DeletedElsewhere(u)

-----------------------------------------------------------------------------
\* A browser that has never been here.
Init ==
  /\ mode \in Modes
  /\ accounts \in SUBSET Names
  /\ owner = [s \in Sessions |-> None]
  /\ tokens = [p \in Paths |-> None] /\ names = [p \in Paths |-> None]
  /\ page = None
  /\ signedIn = None /\ doubled = FALSE
  /\ behind = {}

Serve == Answered \/ Lost \/ ShowError \/ Show

Next ==
  \/ \E kind \in Kinds, u \in Names \cup {None} : Open(kind, u)
  \/ Serve
  \/ \E s \in Sessions : Lapse(s)
  \/ \E p \in Paths : LapseEarlier(p)
  \/ CloseBrowser
  \/ Elsewhere

Spec == Init /\ [][Next]_vars

-----------------------------------------------------------------------------
(* Properties *)

TypeOK ==
  /\ mode \in Modes /\ accounts \subseteq Names
  /\ owner \in [Sessions -> Names \cup {None}]
  /\ tokens \in [Paths -> Cookie \cup {None}] /\ names \in [Paths -> Names \cup {None}]
  /\ page \in Page \cup {None}
  /\ signedIn \in Names \cup {None} /\ doubled \in BOOLEAN /\ behind \subseteq Sessions

Done == page # None /\ page.stage = "flush"

\* A browser that signs in while it has no session acts as who it signed in as,
\* and as nobody once it has signed out, whatever cookies it was sent at whatever
\* path, whichever requests were repeated and whatever happened elsewhere.
ActsAsSignedIn == Done /\ ~doubled => page.as \in {None, signedIn}

\* The name on a page, which comes from a cookie of its own, is that of the account
\* that the page acts as.
ActsAsShown ==
  LET shown == IF page.name # None THEN page.name ELSE FirstName(page.kind) IN
    Done /\ ~doubled /\ mode = "socket" => None \in {page.as, shown} \/ page.as = shown

\* Whoever signs out, or deletes the account, is left with no token for "/": every
\* page would be refused.  A token stays when its session ended elsewhere, when the
\* answer was lost, when the browser closed its own session among the others, or when
\* the token was sent back without its expiry.
SignedOutForgets ==
  page = None /\ tokens[1] # None /\ ~HasSession(1) => tokens[1].value \in behind
=============================================================================
