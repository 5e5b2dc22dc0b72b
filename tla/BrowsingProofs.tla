--------------------------- MODULE BrowsingProofs ---------------------------
(***************************************************************************)
(* Proofs about Browsing, for any number of names, tokens and tries and for *)
(* both backends.                                                           *)
(***************************************************************************)
EXTENDS Browsing, TLAPS

-----------------------------------------------------------------------------
(* The inductive invariant *)

Signs(kind) == kind \in {"signin", "signup"}

\* What the jar of a page holds, by what the page has been answered.
PageInv ==
  page # None =>
    /\ page.reply = None => page.token = FirstToken(page.kind)
    /\ page.reply \in Sessions =>
         page.token = page.reply /\ (Alive(page.reply) \/ page.reply \in behind)
    /\ page.reply = Empty =>
         page.stage = "flush" /\ page.token = None /\ ~ Signs(page.kind)
    /\ page.stage = "me" => page.reply = None
    /\ Signs(page.kind) <=> page.u # None
    /\ page.stage = "flush" /\ CallsAPI(page.kind) /\ page.reply = None =>
         page.token = None
    /\ page.stage = "flush" /\ Signs(page.kind) => page.reply # None
    /\ page.stage = "flush" /\ Signs(page.kind) =>
         page.as # None \/ (Alive(page.reply) => owner[page.reply] = page.u)

InCookie(s) == \E p \in Paths : tokens[p] # None /\ tokens[p].value = s

\* A session that a page was opened with, not the one that it has just signed in.
InPage(s) == page # None /\ page.token = s /\ ~ (Signs(page.kind) /\ page.stage = "flush")

Live(s) == (InCookie(s) \/ InPage(s)) /\ Alive(s)

\* A browser that never signed in twice has one session at most, of the account that
\* it signed in as last, and none once it is told that it has none.
OneSession ==
  ~ doubled =>
    /\ \A s, t \in Sessions : Live(s) /\ Live(t) => s = t
    /\ \A s \in Sessions : Live(s) => owner[s] = signedIn
    /\ page # None /\ page.reply = Empty => \A s \in Sessions : ~ Live(s)
    /\ page # None => page.as \in {None, signedIn}

\* With a socket the name is at "/" only, and follows the session.
NameInv ==
  mode = "socket" =>
    /\ \A p \in Paths \ {1} : names[p] = None
    /\ ~ doubled => /\ names[1] \in {None, signedIn}
                    /\ page # None => page.name \in {None, signedIn}

\* A dead token at "/" whose end the browser was told of is about to be deleted.
Forgets ==
  tokens[1] # None /\ ~ HasSession(1) /\ tokens[1].value \notin behind =>
    page # None /\ page.stage = "flush" /\ page.reply = Empty

Inv == TypeOK /\ PageInv /\ OneSession /\ NameInv /\ Forgets

-----------------------------------------------------------------------------
(* Cookies *)

LEMMA Extremes ==
  ASSUME NEW S \in SUBSET Paths, S # {}
  PROVE  Max(S) \in S /\ Min(S) \in S
  <1> DEFINE Top(x)    == x \in S /\ \A y \in S : x >= y
             Bottom(x) == x \in S /\ \A y \in S : x =< y
  <1>0. \A y \in S : y = 1 \/ y = 2 \/ y = 3 \/ y = 4
    BY DEF Paths
  <1>1. Top(1) \/ Top(2) \/ Top(3) \/ Top(4)
    BY <1>0
  <1>2. Bottom(1) \/ Bottom(2) \/ Bottom(3) \/ Bottom(4)
    BY <1>0
  <1> QED
    BY <1>1, <1>2 DEF Max, Min

\* The token that a page is opened with comes from a cookie.
LEMMA First ==
  ASSUME TypeOK, NEW kind
  PROVE  /\ FirstToken(kind) \in Sessions \cup {None}
         /\ FirstToken(kind) # None => InCookie(FirstToken(kind))
         /\ FirstToken(kind) = None <=> Sent(tokens, kind) = {}
         /\ FirstToken(kind) # None /\ PathsOf(kind) = {1} =>
              tokens[1] # None /\ tokens[1].value = FirstToken(kind)
  <1> DEFINE S == Sent(tokens, kind)
  <1>1. S \in SUBSET Paths /\ (\A p \in S : p \in PathsOf(kind) /\ tokens[p] # None)
    BY DEF Sent, PathsOf, Paths
  <1>2. CASE S = {}
    BY <1>2 DEF FirstToken
  <1>3. CASE S # {}
    <2>1. Max(S) \in S /\ FirstToken(kind) = tokens[Max(S)].value
      BY <1>1, <1>3, Extremes DEF FirstToken
    <2>2. tokens[Max(S)] \in Cookie
      BY <1>1, <2>1 DEF TypeOK
    <2>3. FirstToken(kind) \in Sessions
      BY <2>1, <2>2 DEF Cookie
    <2>4. PathsOf(kind) = {1} => Max(S) = 1
      BY <1>1, <2>1
    <2> QED
      BY <1>1, <1>3, <2>1, <2>3, <2>4, BrowsingAssumption DEF InCookie
  <1> QED
    BY <1>2, <1>3

\* The renewal of a session changes what the browser does not see of its cookies.
SameTokens ==
  /\ tokens' \in [Paths -> Cookie \cup {None}]
  /\ \A p \in Paths : /\ tokens'[p] = None <=> tokens[p] = None
                      /\ tokens[p] # None => tokens'[p].value = tokens[p].value

LEMMA Renewal ==
  ASSUME TypeOK, NEW s, Renews(s)
  PROVE  SameTokens
  <1>1. CASE UNCHANGED tokens
    BY <1>1 DEF SameTokens, TypeOK
  <1>2. CASE ~ UNCHANGED tokens
    <2>1. tokens' = [p \in Paths |->
            IF tokens[p] # None /\ tokens[p].value = s /\ tokens[p].until = "deadline"
            THEN [tokens[p] EXCEPT !.until = "earlier"] ELSE tokens[p]]
      BY <1>2 DEF Renews
    <2>2. ASSUME NEW p \in Paths, tokens[p] # None
          PROVE  /\ [tokens[p] EXCEPT !.until = "earlier"] \in Cookie
                 /\ [tokens[p] EXCEPT !.until = "earlier"].value = tokens[p].value
      BY <2>2 DEF TypeOK, Cookie
    <2> QED
      BY <2>1, <2>2, NoneAssumption DEF SameTokens, TypeOK
  <1> QED
    BY <1>1, <1>2

LEMMA SameFirst ==
  ASSUME TypeOK, SameTokens, NEW kind
  PROVE  FirstToken(kind)' = FirstToken(kind)
  <1> DEFINE S == Sent(tokens, kind)
  <1>1. Sent(tokens', kind) = S
    BY DEF Sent, SameTokens, PathsOf, Paths
  <1>2. S # {} => Max(S) \in S
    <2>1. S \in SUBSET Paths
      BY DEF Sent, PathsOf, Paths
    <2> QED
      BY <2>1, Extremes
  <1>3. \A p \in S : p \in Paths /\ tokens[p] # None
    BY DEF Sent, PathsOf, Paths
  <1> HIDE DEF S
  <1> QED
    BY <1>1, <1>2, <1>3 DEF FirstToken, SameTokens, S

LEMMA SameCookies ==
  ASSUME SameTokens, NEW s
  PROVE  InCookie(s)' <=> InCookie(s)
  BY DEF SameTokens, InCookie

-----------------------------------------------------------------------------
(* What the server does *)

ServerType ==
  /\ accounts \subseteq Names
  /\ owner \in [Sessions -> Names \cup {None}]

\* A session that nobody had is opened, and is the answer.
OpensSession(answer) ==
  /\ page.stage = "call" /\ Signs(page.kind)
  /\ answer \in Sessions /\ Fresh(answer) /\ Alive(answer)' /\ owner'[answer] = page.u

\* Sessions end, and none is opened.
Closing == \A s \in Sessions : Alive(s)' => Alive(s) /\ owner'[s] = owner[s]

\* No session ends, and the answer is the only one that is opened.
Opening(answer) ==
  \A s \in Sessions : s # answer => owner'[s] = owner[s]

\* What a call does, by its answer.
LEMMA ApiDoes ==
  ASSUME TypeOK, PageInv, Calling, NEW answer \in Answers, Api(answer)
  PROVE  /\ SameTokens /\ ServerType'
         /\ Closing \/ (OpensSession(answer) /\ Opening(answer))
         /\ answer \in {"error", "ok"} => UNCHANGED owner
         /\ answer = "ok" => page.stage = "call" /\ ~ Signs(page.kind) /\ page.token = None
         /\ answer = Empty =>
              /\ page.stage = "call" /\ page.kind \in {"signout", "deleteMe"}
              /\ Alive(page.token) /\ owner'[page.token] = None
         /\ answer \in Sessions /\ ~ OpensSession(answer) =>
              /\ answer = page.token /\ Alive(page.token)
              /\ UNCHANGED owner \/ (page.stage = "call" /\ page.kind = "close")
  <1> USE DEF Calling
  <1>0. /\ page \in Page /\ page.token \in Sessions \cup {None} /\ page.u \in Names \cup {None}
        /\ UNCHANGED tokens => SameTokens
        /\ ServerType
        /\ None \notin Sessions /\ None \notin Names /\ Empty \notin Sessions
        /\ "ok" \notin Sessions /\ "error" \notin Sessions
        /\ Empty # "ok" /\ Empty # "error"
    BY BrowsingAssumption DEF TypeOK, Page, SameTokens, ServerType
  <1>1. CASE ApiFails(answer)
    BY <1>0, <1>1 DEF ApiFails, server, ServerType, Closing, Alive, OpensSession
  <1>2. CASE ApiReads(answer)
    <2>1. SameTokens /\ UNCHANGED server /\ answer = page.token /\ Alive(page.token)
      BY <1>2, Renewal DEF ApiReads
    <2> QED
      BY <1>0, <2>1 DEF server, ServerType, Closing, Alive
  <1>3. CASE ApiServesGuest(answer)
    BY <1>0, <1>3 DEF ApiServesGuest, server, ServerType, Closing, Alive, OpensSession, Signs
  <1>4. ASSUME Opens(answer), UNCHANGED tokens, accounts' \subseteq Names,
               page.stage = "call", Signs(page.kind)
        PROVE  /\ OpensSession(answer) /\ Opening(answer)
               /\ SameTokens /\ ServerType' /\ answer \in Sessions
    <2>1. /\ answer \in Sessions /\ Fresh(answer)
          /\ owner' = [owner EXCEPT ![answer] = page.u]
      BY <1>4 DEF Opens
    <2>2. page.u \in Names
      BY <1>0, <1>4 DEF PageInv
    <2> QED
      BY <1>0, <1>4, <2>1, <2>2 DEF ServerType, OpensSession, Opening, Alive
  <1>5. CASE ApiSignin(answer) \/ ApiSignup(answer)
    <2>1. /\ Opens(answer) /\ UNCHANGED tokens /\ page.stage = "call" /\ Signs(page.kind)
          /\ accounts' = accounts \/ accounts' = accounts \cup {page.u}
      BY <1>5 DEF ApiSignin, ApiSignup, Signs
    <2>2. page.u \in Names
      BY <1>0, <2>1 DEF PageInv
    <2>3. accounts' \subseteq Names
      BY <1>0, <2>1, <2>2 DEF ServerType
    <2> QED
      BY <1>0, <1>4, <2>1, <2>3
  <1>6. CASE ApiSignout(answer) \/ ApiClosesThis(answer)
    <2>1. /\ Alive(page.token) /\ page.token \in Sessions
          /\ owner' = [owner EXCEPT ![page.token] = None]
          /\ UNCHANGED <<accounts, tokens>>
      BY <1>6 DEF ApiSignout, ApiClosesThis, Alive
    <2> QED
      BY <1>0, <1>6, <2>1
      DEF ServerType, Closing, Alive, ApiSignout, ApiClosesThis, OpensSession, Signs
  <1>7. CASE ApiDeletesMe(answer)
    <2>1. /\ Alive(page.token) /\ page.token \in Sessions
          /\ accounts' = accounts \ {owner[page.token]}
          /\ owner' = [s \in Sessions |-> IF owner[s] = owner[page.token] THEN None ELSE owner[s]]
          /\ UNCHANGED tokens
      BY <1>7 DEF ApiDeletesMe, Alive
    <2> QED
      BY <1>0, <1>7, <2>1 DEF ServerType, Closing, Alive, ApiDeletesMe
  <1> QED
    BY <1>1, <1>2, <1>3, <1>5, <1>6, <1>7 DEF Api

-----------------------------------------------------------------------------
(* Every step keeps the invariant *)

LEMMA InitInv == Init => Inv
  <1> SUFFICES ASSUME Init PROVE Inv
    OBVIOUS
  <1>1. TypeOK
    BY DEF Init, TypeOK
  <1>2. \A s : ~ Live(s)
    BY DEF Init, Live, InCookie, InPage
  <1> QED
    BY <1>1, <1>2 DEF Init, Inv, PageInv, OneSession, NameInv, Forgets, Paths

\* Sessions that the browser knows of only come to their end.
Dwindles == \A s \in Sessions : Live(s)' => Live(s) /\ owner'[s] = owner[s]

LEMMA DwindlesInv ==
  ASSUME OneSession, Dwindles, UNCHANGED <<signedIn, doubled>>,
         page' # None => /\ page # None
                         /\ ~ doubled => page'.as \in {None, signedIn}
                         /\ page'.reply = Empty => page.reply = Empty \/ \A s \in Sessions : ~ Live(s)'
  PROVE  OneSession'
  <1> SUFFICES ASSUME ~ doubled PROVE OneSession'
    BY DEF OneSession
  <1>1. ASSUME NEW s \in Sessions, NEW t \in Sessions, Live(s)', Live(t)'
        PROVE  s = t
    BY <1>1 DEF Dwindles, OneSession
  <1>2. ASSUME NEW s \in Sessions, Live(s)'
        PROVE  owner'[s] = signedIn'
    BY <1>2 DEF Dwindles, OneSession
  <1>3. ASSUME page' # None, page'.reply = Empty, NEW s \in Sessions
        PROVE  ~ Live(s)'
    BY <1>3 DEF Dwindles, OneSession
  <1> QED
    BY <1>1, <1>2, <1>3 DEF OneSession

LEMMA OpenInv ==
  ASSUME Inv, NEW kind \in Kinds, NEW u \in Names \cup {None}, Open(kind, u)
  PROVE  Inv'
  <1> DEFINE p == [kind |-> kind, u |-> u, token |-> FirstToken(kind),
                   stage |-> IF FirstName(kind) = None /\ FirstToken(kind) # None THEN "me"
                             ELSE IF CallsAPI(kind) THEN "call" ELSE "flush",
                   reply |-> None, as |-> None, name |-> None, tries |-> 0]
  <1>1. /\ page = None /\ page' = p
        /\ UNCHANGED <<mode, accounts, owner, tokens, names, signedIn, doubled, behind>>
        /\ (u = None) = (kind \notin {"signin", "signup"})
    BY DEF Open, server, cookies, hist
  <1>2. FirstToken(kind) \in Sessions \cup {None}
    BY First DEF Inv
  <1>3. p \in Page
    <2>1. 0 \in 0 .. Tries - 1
      BY BrowsingAssumption
    <2> QED
      BY <1>2, <2>1 DEF Page
  <1>4. /\ page'.kind = kind /\ page'.u = u /\ page'.token = FirstToken(kind)
        /\ page'.reply = None /\ page'.as = None /\ page'.name = None
        /\ page'.stage = "flush" => ~ CallsAPI(kind)
    BY <1>1
  <1> HIDE DEF p
  <1>5. TypeOK'
    BY <1>1, <1>3 DEF Inv, TypeOK
  <1>6. FirstToken(kind)' = FirstToken(kind)
    BY <1>1 DEF FirstToken, Sent
  <1>7. PageInv'
    BY <1>1, <1>4, <1>6, BrowsingAssumption DEF PageInv, CallsAPI, Signs, Kinds
  <1>8. OneSession'
    <2>1. ASSUME NEW s \in Sessions, Live(s)'
          PROVE  Live(s)
      <3>1. InCookie(s)' => InCookie(s)
        BY <1>1 DEF InCookie
      <3>2. InPage(s)' => InCookie(s)
        BY <1>4, First, BrowsingAssumption DEF Inv, InPage
      <3> QED
        BY <1>1, <2>1, <3>1, <3>2 DEF Live, Alive
    <2> QED
      BY <1>1, <1>4, <2>1, BrowsingAssumption DEF Inv, OneSession
  <1>9. NameInv'
    BY <1>1, <1>4 DEF Inv, NameInv
  <1>10. Forgets'
    BY <1>1 DEF Inv, Forgets, HasSession, Alive
  <1> QED
    BY <1>5, <1>7, <1>8, <1>9, <1>10 DEF Inv

\* The step of a page that is answered.
LEMMA AnsweredInv ==
  ASSUME Inv, Answered
  PROVE  Inv'
  <1>1. PICK answer \in Answers :
          /\ Api(answer)
          /\ page' = [page EXCEPT
               !.stage = CASE answer = "error" /\ page.stage = "call" -> "failed"
                           [] page.stage = "me" /\ CallsAPI(page.kind) -> "call"
                           [] OTHER -> "flush",
               !.token = InJar(@, answer),
               !.reply = IF answer \in Sessions \cup {Empty} THEN answer ELSE @,
               !.as    = IF Alive(page.token) /\ answer # "error" THEN owner[page.token] ELSE @,
               !.name  = IF page.stage = "me" /\ answer \in Sessions THEN owner[answer] ELSE @,
               !.tries = 0]
    BY DEF Answered
  <1>2. /\ Calling /\ page # None /\ page \in Page /\ page.stage \in {"me", "call"}
        /\ UNCHANGED <<mode, names, signedIn, doubled>>
        /\ behind' = (behind \ Opened) \cup (IF page.kind = "close" THEN Ended ELSE {})
    BY DEF Answered, Calling, Inv, TypeOK
  <1>3. /\ page'.kind = page.kind /\ page'.u = page.u /\ page'.tries = 0
        /\ page'.stage = IF answer = "error" /\ page.stage = "call" THEN "failed"
                         ELSE IF page.stage = "me" /\ CallsAPI(page.kind) THEN "call" ELSE "flush"
        /\ page'.token = InJar(page.token, answer)
        /\ page'.reply = IF answer \in Sessions \cup {Empty} THEN answer ELSE page.reply
        /\ page'.as = IF Alive(page.token) /\ answer # "error" THEN owner[page.token] ELSE page.as
        /\ page'.name = IF page.stage = "me" /\ answer \in Sessions THEN owner[answer] ELSE page.name
    BY <1>1, <1>2 DEF Page
  <1>4. /\ page.token \in Sessions \cup {None} /\ page.reply \in Sessions \cup {Empty, None}
        /\ page.kind \in Kinds /\ page.as \in Names \cup {None} /\ page.name \in Names \cup {None}
        /\ owner \in [Sessions -> Names \cup {None}]
    BY <1>2 DEF Page, Inv, TypeOK
  <1>5. page' \in Page
    <2>1. 0 \in 0 .. Tries - 1
      BY BrowsingAssumption
    <2>2. page'.token \in Sessions \cup {None} /\ page'.reply \in Sessions \cup {Empty, None}
      BY <1>3, <1>4 DEF InJar
    <2>3. page'.as \in Names \cup {None} /\ page'.name \in Names \cup {None}
      BY <1>3, <1>4 DEF Alive
    <2>4. page'.stage \in {"me", "call", "flush", "failed"}
      BY <1>3
    <2>5. page' = [page EXCEPT !.stage = page'.stage, !.token = page'.token, !.reply = page'.reply,
                               !.as = page'.as, !.name = page'.name, !.tries = 0]
      BY <1>1, <1>3
    <2> QED
      BY <1>2, <2>1, <2>2, <2>3, <2>4, <2>5 DEF Page
  <1>6. page' # None
    BY <1>5, NoneAssumption
  <1>7. /\ SameTokens /\ ServerType'
        /\ Closing \/ (OpensSession(answer) /\ Opening(answer))
        /\ answer \in {"error", "ok"} => UNCHANGED owner
        /\ answer = "ok" => page.stage = "call" /\ ~ Signs(page.kind) /\ page.token = None
        /\ answer = Empty =>
             /\ page.stage = "call" /\ page.kind \in {"signout", "deleteMe"}
             /\ Alive(page.token) /\ owner'[page.token] = None
        /\ answer \in Sessions /\ ~ OpensSession(answer) =>
             /\ answer = page.token /\ Alive(page.token)
             /\ UNCHANGED owner \/ (page.stage = "call" /\ page.kind = "close")
    BY <1>1, <1>2, ApiDoes DEF Inv
  <1>8. TypeOK'
    BY <1>2, <1>5, <1>7 DEF Inv, TypeOK, SameTokens, ServerType, Ended
  <1>9. /\ None \notin Sessions /\ None \notin Names /\ Empty \notin Sessions /\ Empty # None
        /\ answer \in Sessions \/ answer = Empty \/ answer = "ok" \/ answer = "error"
        /\ "ok" \notin Sessions \cup {Empty} /\ "error" \notin Sessions \cup {Empty}
    BY BrowsingAssumption DEF Answers
  <1>10. \A s \in Opened : Alive(s)' /\ s = answer /\ OpensSession(answer)
    BY <1>7 DEF Opened, Closing, Opening, Alive
  <1>11. \A s \in Sessions : Alive(s) /\ ~ Alive(s)' =>
           s \in Ended /\ page.stage = "call" /\ (answer = Empty \/ page.kind = "close")
    <2> SUFFICES ASSUME NEW s \in Sessions, owner[s] # None, owner'[s] = None
                 PROVE  page.stage = "call" /\ (answer = Empty \/ page.kind = "close")
      BY DEF Alive, Ended
    <2>1. ~ OpensSession(answer)
      <3> SUFFICES ASSUME OpensSession(answer) PROVE FALSE
        OBVIOUS
      <3>1. owner[answer] = None /\ owner'[answer] # None /\ answer \in Sessions
        BY DEF OpensSession, Fresh, Alive
      <3>2. s # answer
        BY <3>1
      <3> QED
        BY <1>7, <3>1, <3>2 DEF Opening, Closing, Alive
    <2> QED
      BY <1>7, <1>9, <2>1
  <1>12. PageInv'
    <2>1. page'.reply = None => page'.token = FirstToken(page.kind)'
      <3>1. PICK kind \in Kinds : kind = page.kind /\ kind = page'.kind
        BY <1>3, <1>4
      <3>2. FirstToken(kind)' = FirstToken(kind)
        BY <1>7, SameFirst DEF Inv
      <3>3. page'.reply = None => page'.token = FirstToken(kind)
        BY <1>2, <1>3, <1>9, <3>1 DEF Inv, PageInv, InJar
      <3> QED
        BY <3>1, <3>2, <3>3
    <2>2. page'.reply \in Sessions =>
            page'.token = page'.reply /\ (Alive(page.reply)' \/ page'.reply \in behind')
      <3>1. CASE answer \in Sessions /\ OpensSession(answer)
        BY <1>3, <3>1 DEF OpensSession, InJar, Alive
      <3>2. CASE answer \in Sessions /\ ~ OpensSession(answer)
        BY <1>2, <1>3, <1>7, <1>11, <3>2 DEF InJar, Alive
      <3>3. CASE answer \in {"ok", "error"}
        <4>1. /\ page'.reply = page.reply /\ page'.token = page.token
              /\ UNCHANGED owner /\ Opened = {}
          BY <1>3, <1>7, <1>9, <3>3 DEF InJar, Opened
        <4> QED
          BY <1>2, <4>1 DEF Inv, PageInv, Alive
      <3> QED
        BY <1>2, <1>3, <1>9, <3>1, <3>2, <3>3
    <2>3. page'.reply = Empty =>
            page'.stage = "flush" /\ page'.token = None /\ ~ Signs(page'.kind)
      <3>1. page'.reply = Empty => answer = Empty
        BY <1>2, <1>3 DEF Inv, PageInv
      <3> QED
        BY <1>3, <1>7, <1>9, <3>1 DEF InJar, Signs
    <2>4. page'.stage = "flush" =>
            answer # "error" \/ page'.kind \in {"home", "select", "reset"}
      BY <1>2, <1>3 DEF CallsAPI
    <2>5. page'.stage = "flush" /\ CallsAPI(page'.kind) => page.stage = "call"
      BY <1>2, <1>3
    <2>6. /\ page'.stage = "flush" /\ CallsAPI(page'.kind) /\ page'.reply = None =>
               page'.token = None
          /\ page'.stage = "flush" /\ Signs(page'.kind) => page'.reply # None
      BY <1>3, <1>7, <1>9, <2>4 DEF Signs, CallsAPI, InJar
    <2>7. page'.stage = "flush" /\ Signs(page'.kind) =>
            page'.as # None \/ (Alive(page.reply)' => owner'[page'.reply] = page'.u)
      <3> SUFFICES ASSUME page'.stage = "flush", Signs(page'.kind)
                   PROVE  page'.as # None \/ owner'[page'.reply] = page'.u
        OBVIOUS
      <3>1. answer \in Sessions /\ page'.reply = answer
        BY <1>3, <1>7, <1>9, <2>4 DEF Signs
      <3> QED
        BY <1>3, <1>7, <1>9, <3>1 DEF OpensSession, Alive
    <2>8. /\ page'.stage # "me"
          /\ Signs(page'.kind) <=> page'.u # None
      BY <1>2, <1>3 DEF Inv, PageInv
    <2> QED
      BY <2>1, <2>2, <2>3, <2>6, <2>7, <2>8 DEF PageInv
  <1>13. Dwindles
    <2> SUFFICES ASSUME NEW s \in Sessions, Live(s)'
                 PROVE  Live(s) /\ owner'[s] = owner[s]
      BY DEF Dwindles
    <2>1. CASE OpensSession(answer) /\ s = answer
      <3>1. ~ InCookie(s)'
        BY <1>7, <2>1, SameCookies DEF OpensSession, Fresh, InCookie
      <3>2. page'.stage = "flush" /\ Signs(page'.kind)
        BY <1>3, <1>9, <2>1 DEF OpensSession
      <3> QED
        BY <3>1, <3>2 DEF Live, InPage
    <2>2. CASE ~ (OpensSession(answer) /\ s = answer)
      <3>1. Alive(s) /\ owner'[s] = owner[s]
        BY <1>7, <2>2 DEF Live, Closing, Opening, Alive
      <3>2. InCookie(s)' => InCookie(s)
        BY <1>7, SameCookies
      <3>3. InPage(s)' => InPage(s)
        <4>1. InPage(s)' => page'.token = s /\ ~ (Signs(page'.kind) /\ page'.stage = "flush")
          BY DEF InPage
        <4>2. page'.token = s => page.token = s \/ (answer = s /\ OpensSession(answer))
          BY <1>3, <1>7, <1>9 DEF InJar
        <4> QED
          BY <1>2, <2>2, <4>1, <4>2 DEF InPage
      <3> QED
        BY <3>1, <3>2, <3>3 DEF Live
    <2> QED
      BY <2>1, <2>2
  <1>14. OneSession'
    <2>1. Alive(page.token) => Live(page.token) /\ page.token \in Sessions
      BY <1>2 DEF Live, InPage, Alive
    <2>2. ~ doubled => page'.as \in {None, signedIn}
      BY <1>2, <1>3, <2>1 DEF Inv, OneSession
    <2>3. ASSUME ~ doubled, page'.reply = Empty, NEW s \in Sessions
          PROVE  ~ Live(s)'
      <3>1. answer = Empty
        BY <1>2, <1>3, <2>3 DEF Inv, PageInv
      <3>2. Live(page.token) /\ page.token \in Sessions /\ owner'[page.token] = None
        BY <1>7, <2>1, <3>1
      <3>3. Live(s) => s = page.token
        BY <2>3, <3>2 DEF Inv, OneSession
      <3> QED
        BY <1>13, <3>2, <3>3 DEF Dwindles, Live, Alive
    <2>4. CASE doubled
      BY <1>2, <2>4 DEF OneSession
    <2>5. CASE ~ doubled
      BY <1>2, <1>13, <2>2, <2>3, <2>5, DwindlesInv DEF Inv
    <2> QED
      BY <2>4, <2>5
  <1>15. NameInv'
    BY <1>2, <1>3, <1>7, <1>9 DEF Inv, NameInv, OneSession, OpensSession, Live, InPage
  <1>16. Forgets'
    <2> SUFFICES ASSUME tokens'[1] # None, ~ HasSession(1)', tokens'[1].value \notin behind'
                 PROVE  page'.stage = "flush" /\ page'.reply = Empty
      BY <1>6 DEF Forgets
    <2>1. PICK s \in Sessions : s = tokens[1].value /\ s = tokens'[1].value /\ tokens[1] # None
      <3>1. 1 \in Paths
        BY DEF Paths
      <3>2. tokens[1] # None /\ tokens'[1].value = tokens[1].value
        BY <1>7, <3>1 DEF SameTokens
      <3>3. tokens[1] \in Cookie
        BY <3>1, <3>2 DEF Inv, TypeOK
      <3> QED
        BY <3>2, <3>3 DEF Cookie
    <2>2. ~ Alive(s)'
      BY <2>1 DEF HasSession, Alive
    <2>3. s \notin Opened
      BY <1>10, <2>2
    <2>4. CASE Alive(s)
      BY <1>2, <1>3, <1>9, <1>11, <2>1, <2>2, <2>4
    <2>5. CASE ~ Alive(s)
      BY <1>2, <2>1, <2>3, <2>5 DEF Inv, Forgets, HasSession
    <2> QED
      BY <2>4, <2>5
  <1> QED
    BY <1>8, <1>12, <1>14, <1>15, <1>16 DEF Inv

\* What the browser is not told of: the page stays, or is given up while it calls;
\* sessions end, and what is opened is held by nobody.
LEMMA UntoldInv ==
  ASSUME Inv, SameTokens, ServerType',
         \A s \in Sessions : Alive(s)' =>
           (Alive(s) /\ owner'[s] = owner[s]) \/ (~ Alive(s) /\ Fresh(s) /\ Calling),
         behind' = (behind \ Opened) \cup Ended,
         UNCHANGED <<mode, names, signedIn, doubled>>,
         page' = None => page = None \/ Calling,
         page' # None =>
           /\ page # None /\ page' \in Page
           /\ page'.kind = page.kind /\ page'.u = page.u /\ page'.token = page.token
           /\ page'.stage = page.stage /\ page'.reply = page.reply
           /\ page'.as = page.as /\ page'.name = page.name
  PROVE  Inv'
  <1>1. TypeOK'
    BY DEF Inv, TypeOK, SameTokens, ServerType, Ended
  <1>2. /\ \A s \in Opened : ~ Alive(s) /\ Alive(s)'
        /\ \A s \in Sessions : Alive(s) /\ ~ Alive(s)' => s \in behind'
        /\ \A s \in Sessions : s \in behind /\ ~ Alive(s)' => s \in behind'
    BY DEF Opened, Ended, Alive
  <1>3. PageInv'
    <2> SUFFICES ASSUME page' # None PROVE PageInv'
      BY DEF PageInv
    <2>0. page.kind \in Kinds /\ page.reply \in Sessions \cup {Empty, None}
      BY DEF Inv, TypeOK, Page
    <2>1. page'.reply = None => page'.token = FirstToken(page.kind)'
      <3>1. PICK kind \in Kinds : kind = page.kind /\ kind = page'.kind
        BY <2>0
      <3>2. FirstToken(kind)' = FirstToken(kind)
        BY SameFirst DEF Inv
      <3>3. page'.reply = None => page'.token = FirstToken(kind)
        BY <3>1 DEF Inv, PageInv
      <3> QED
        BY <3>1, <3>2, <3>3
    <2>2. page'.reply \in Sessions =>
            page'.token = page'.reply /\ (Alive(page.reply)' \/ page'.reply \in behind')
      <3> SUFFICES ASSUME NEW r \in Sessions, r = page'.reply, r = page.reply
                   PROVE  page'.token = r /\ (Alive(r)' \/ r \in behind')
        OBVIOUS
      <3> QED
        BY <1>2 DEF Inv, PageInv
    <2>3. page'.stage = "flush" /\ Signs(page'.kind) =>
            page'.as # None \/ (Alive(page.reply)' => owner'[page'.reply] = page'.u)
      <3> SUFFICES ASSUME NEW r, r = page'.reply, r = page.reply, Alive(r)',
                          page.stage = "flush", Signs(page.kind)
                   PROVE  page'.as # None \/ owner'[r] = page'.u
        BY DEF Signs
      <3>1. Alive(r) /\ owner'[r] = owner[r]
        BY DEF Alive, Calling
      <3> QED
        BY <3>1 DEF Inv, PageInv
    <2> QED
      BY <2>1, <2>2, <2>3 DEF Inv, PageInv, Signs
  <1>4. ASSUME NEW s \in Sessions, Live(s)'
        PROVE  Live(s) /\ owner'[s] = owner[s]
    <2>1. InCookie(s)' => InCookie(s)
      BY SameCookies
    <2>2. InPage(s)' => InPage(s)
      BY DEF InPage, Signs
    <2>3. InCookie(s) \/ InPage(s)
      BY <1>4, <2>1, <2>2 DEF Live
    <2>4. ~ Fresh(s)
      BY <2>3 DEF Fresh, InCookie, InPage
    <2> QED
      BY <1>4, <2>3, <2>4 DEF Live
  <1>5. OneSession'
    <2>1. CASE doubled
      BY <2>1 DEF OneSession
    <2>2. CASE ~ doubled
      BY <1>4, <2>2, DwindlesInv DEF Inv, OneSession, Dwindles
    <2> QED
      BY <2>1, <2>2
  <1>6. NameInv'
    BY DEF Inv, NameInv
  <1>7. Forgets'
    <2> SUFFICES ASSUME tokens'[1] # None, ~ HasSession(1)', tokens'[1].value \notin behind'
                 PROVE  page' # None /\ page'.stage = "flush" /\ page'.reply = Empty
      BY DEF Forgets
    <2>1. 1 \in Paths
      BY DEF Paths
    <2>2. PICK s \in Sessions : s = tokens[1].value /\ s = tokens'[1].value /\ tokens[1] # None
      BY <2>1 DEF SameTokens, Inv, TypeOK, Cookie
    <2>3. ~ Alive(s)'
      BY <2>2 DEF HasSession
    <2>4. ~ Alive(s) /\ s \notin behind
      BY <1>2, <2>2, <2>3
    <2> QED
      BY <2>2, <2>4 DEF Inv, Forgets, HasSession, Calling
  <1> QED
    BY <1>1, <1>3, <1>5, <1>6, <1>7 DEF Inv

LEMMA LostInv ==
  ASSUME Inv, Lost
  PROVE  Inv'
  <1>1. /\ Calling /\ page \in Page
        /\ UNCHANGED <<server, tokens>> \/ \E answer \in Answers : Api(answer)
        /\ page' = IF page.tries + 1 < Tries THEN [page EXCEPT !.tries = @ + 1] ELSE None
        /\ behind' = (behind \ Opened) \cup Ended
        /\ UNCHANGED <<mode, names, signedIn, doubled>>
    BY DEF Lost, Calling, Inv, TypeOK
  <1>2. page' # None =>
          /\ page # None /\ page' \in Page
          /\ page'.kind = page.kind /\ page'.u = page.u /\ page'.token = page.token
          /\ page'.stage = page.stage /\ page'.reply = page.reply
          /\ page'.as = page.as /\ page'.name = page.name
    BY <1>1, BrowsingAssumption DEF Page, Calling
  <1>3. CASE UNCHANGED <<server, tokens>>
    <2>1. SameTokens /\ ServerType'
      BY <1>3 DEF server, SameTokens, ServerType, Inv, TypeOK
    <2>2. \A s \in Sessions : Alive(s)' => Alive(s) /\ owner'[s] = owner[s]
      BY <1>3 DEF server, Alive
    <2> QED
      BY <1>1, <1>2, <2>1, <2>2, UntoldInv
  <1>4. ASSUME NEW answer \in Answers, Api(answer)
        PROVE  Inv'
    <2>1. SameTokens /\ ServerType' /\ (Closing \/ (OpensSession(answer) /\ Opening(answer)))
      BY <1>1, <1>4, ApiDoes DEF Inv
    <2>2. \A s \in Sessions : Alive(s)' =>
            (Alive(s) /\ owner'[s] = owner[s]) \/ (~ Alive(s) /\ Fresh(s) /\ Calling)
      BY <1>1, <2>1 DEF Closing, Opening, OpensSession, Fresh, Alive
    <2> QED
      BY <1>1, <1>2, <2>1, <2>2, UntoldInv
  <1> QED
    BY <1>1, <1>3, <1>4

\* Between two pages, cookies and sessions go.
LEMMA DropsInv ==
  ASSUME Inv, page = None, page' = None, UNCHANGED <<mode, signedIn, doubled>>,
         ServerType', Closing, behind' = behind \cup Ended,
         tokens' \in [Paths -> Cookie \cup {None}], names' \in [Paths -> Names \cup {None}],
         \A p \in Paths : tokens'[p] \in {None, tokens[p]} /\ names'[p] \in {None, names[p]}
  PROVE  Inv'
  <1>1. TypeOK'
    BY DEF Inv, TypeOK, ServerType, Ended
  <1>2. \A s \in Sessions : Live(s)' => Live(s) /\ owner'[s] = owner[s]
    BY DEF Live, InCookie, InPage, Closing
  <1>3. OneSession'
    BY <1>2 DEF Inv, OneSession
  <1>4. 1 \in Paths
    BY DEF Paths
  <1>5. NameInv'
    BY <1>4 DEF Inv, NameInv
  <1>6. Forgets'
    <2> SUFFICES ASSUME tokens'[1] # None, ~ HasSession(1)' PROVE tokens'[1].value \in behind'
      BY DEF Forgets
    <2>1. tokens'[1] = tokens[1]
      BY <1>4
    <2>2. tokens[1].value \in Sessions
      BY <1>4, <2>1 DEF Inv, TypeOK, Cookie
    <2> QED
      BY <2>1, <2>2 DEF Inv, Forgets, HasSession, Alive, Ended
  <1> QED
    BY <1>1, <1>3, <1>5, <1>6 DEF Inv, PageInv

LEMMA BetweenPagesInv ==
  ASSUME Inv,
         \/ \E s \in Sessions : Lapse(s)
         \/ \E p \in Paths : LapseEarlier(p)
         \/ CloseBrowser
  PROVE  Inv'
  <1>1. TypeOK
    BY DEF Inv
  <1>2. ASSUME NEW s \in Sessions, Lapse(s)
        PROVE  Inv'
    <2>1. ServerType' /\ Closing
      BY <1>1, <1>2, BrowsingAssumption DEF Lapse, TypeOK, ServerType, Closing, Alive
    <2> QED
      BY <1>1, <1>2, <2>1, DropsInv DEF Lapse, TypeOK
  <1>3. ASSUME UNCHANGED <<mode, server, page, hist>>, page = None
        PROVE  /\ page' = None /\ UNCHANGED <<mode, signedIn, doubled>>
               /\ ServerType' /\ Closing /\ behind' = behind \cup Ended
    BY <1>1, <1>3 DEF server, hist, TypeOK, ServerType, Closing, Alive, Ended
  <1>4. ASSUME NEW p \in Paths, LapseEarlier(p)
        PROVE  Inv'
    BY <1>1, <1>3, <1>4, DropsInv DEF LapseEarlier, TypeOK
  <1>5. ASSUME CloseBrowser
        PROVE  Inv'
    BY <1>1, <1>3, <1>5, DropsInv DEF CloseBrowser, TypeOK
  <1> QED
    BY <1>2, <1>4, <1>5

LEMMA ElsewhereInv ==
  ASSUME Inv, Elsewhere
  PROVE  Inv'
  <1>1. /\ UNCHANGED <<mode, cookies, page, signedIn, doubled>>
        /\ behind' = behind \cup Ended
    BY DEF Elsewhere, CloseElsewhere, DeletedElsewhere
  <1>2. ServerType' /\ Closing
    <2>1. ASSUME NEW s \in Sessions, CloseElsewhere(s)
          PROVE  ServerType' /\ Closing
      BY <2>1, BrowsingAssumption DEF CloseElsewhere, Inv, TypeOK, ServerType, Closing, Alive
    <2>2. ASSUME NEW u \in Names, DeletedElsewhere(u)
          PROVE  ServerType' /\ Closing
      BY <2>2, BrowsingAssumption DEF DeletedElsewhere, Inv, TypeOK, ServerType, Closing, Alive
    <2> QED
      BY <2>1, <2>2 DEF Elsewhere
  <1>3. SameTokens /\ behind' = (behind \ Opened) \cup Ended
    BY <1>1, <1>2 DEF cookies, SameTokens, Inv, TypeOK, Opened, Closing, Alive
  <1>4. page' # None => page \in Page
    BY <1>1 DEF Inv, TypeOK
  <1> QED
    BY <1>1, <1>2, <1>3, <1>4, UntoldInv DEF cookies, Closing

LEMMA StutterInv ==
  ASSUME Inv, UNCHANGED vars
  PROVE  Inv'
  <1>1. UNCHANGED <<mode, accounts, owner, tokens, names, page, signedIn, doubled, behind>>
    BY DEF vars, server, cookies, hist
  <1>2. SameTokens /\ ServerType' /\ Closing /\ behind' = (behind \ Opened) \cup Ended
    BY <1>1 DEF SameTokens, ServerType, Inv, TypeOK, Opened, Ended, Closing, Alive
  <1>3. page' # None => page \in Page
    BY <1>1 DEF Inv, TypeOK
  <1> QED
    BY <1>1, <1>2, <1>3, UntoldInv DEF Closing

LEMMA ShowErrorInv ==
  ASSUME Inv, ShowError
  PROVE  Inv'
  <1>1. /\ page # None /\ page.stage = "failed" /\ page \in Page /\ page' = None
        /\ UNCHANGED <<mode, accounts, owner, tokens, signedIn, doubled, behind>>
        /\ names' = names \/ (page.name # None /\ names' = [names EXCEPT ![1] = page.name])
    BY DEF ShowError, SetName, server, hist, Inv, TypeOK
  <1>2. page.name \in Names \cup {None} /\ names \in [Paths -> Names \cup {None}] /\ 1 \in Paths
    BY <1>1 DEF Page, Inv, TypeOK, Paths
  <1>3. TypeOK'
    BY <1>1, <1>2 DEF Inv, TypeOK
  <1>4. \A s \in Sessions : Live(s)' => Live(s)
    BY <1>1 DEF Live, InCookie, InPage, Alive
  <1>5. OneSession'
    BY <1>1, <1>4 DEF Inv, OneSession
  <1>6. NameInv'
    BY <1>1, <1>2 DEF Inv, NameInv
  <1>7. Forgets'
    BY <1>1 DEF Inv, Forgets, HasSession, Alive
  <1> QED
    BY <1>1, <1>3, <1>5, <1>6, <1>7 DEF Inv, PageInv

\* The cookies of the request keep the tokens that the browser had, and what it has at "/".
LEMMA SentBack ==
  ASSUME Inv, page # None, page.stage = "flush", FlushSent
  PROVE  /\ tokens' \in [Paths -> Cookie \cup {None}] /\ names' \in [Paths -> Names \cup {None}]
         /\ \A s \in Sessions : InCookie(s)' => InCookie(s)
         /\ tokens'[1] # None => tokens[1] # None /\ tokens'[1].value = tokens[1].value
         /\ mode = "socket" => names' = names
  <1> DEFINE at == DefaultPath(page.kind)
             ts == Sent(tokens, page.kind)
             ns == Sent(names, page.kind)
             t  == IF mode = "http" THEN tokens[Min(ts)].value ELSE page.token
  <1>1. /\ page.reply = None
        /\ tokens' = IF ts = {} THEN tokens
                     ELSE [tokens EXCEPT ![at] = [value |-> t, until |-> "close"]]
        /\ names' = IF mode = "http" /\ ns # {}
                    THEN [names EXCEPT ![at] = names[Min(ns)]] ELSE names
    BY DEF FlushSent
  <1>2. TypeOK /\ page.token = FirstToken(page.kind)
    BY <1>1 DEF Inv, PageInv
  <1>3. at \in Paths /\ 1 \in Paths
    BY DEF DefaultPath, Paths
  <1>4. at = 1 /\ ts # {} => PathsOf(page.kind) = {1}
    <2> SUFFICES ASSUME at = 1, ts # {} PROVE PathsOf(page.kind) = {1}
      OBVIOUS
    <2>1. page.token # None
      BY <1>2, First
    <2>2. ~ CallsAPI(page.kind)
      BY <1>1, <2>1 DEF Inv, PageInv
    <2> QED
      BY <2>2 DEF CallsAPI, DefaultPath, PathsOf
  <1>5. /\ ts \in SUBSET Paths /\ ns \in SUBSET Paths
        /\ \A p \in ts : p \in PathsOf(page.kind) /\ tokens[p] # None
    BY DEF Sent, PathsOf, Paths
  <1>6. ts # {} => Min(ts) \in ts /\ (at = 1 => Min(ts) = 1)
    <2> SUFFICES ASSUME ts # {} PROVE Min(ts) \in ts /\ (at = 1 => Min(ts) = 1)
      OBVIOUS
    <2>1. Min(ts) \in ts
      BY <1>5, Extremes
    <2> QED
      BY <1>4, <1>5, <2>1 DEF Paths
  <1>7. ns # {} => Min(ns) \in Paths
    BY <1>5, Extremes
  <1>8. ts # {} => /\ t \in Sessions /\ InCookie(t)
                   /\ at = 1 => tokens[1] # None /\ tokens[1].value = t
    <2> SUFFICES ASSUME ts # {}
                 PROVE  /\ t \in Sessions /\ InCookie(t)
                        /\ at = 1 => tokens[1] # None /\ tokens[1].value = t
      OBVIOUS
    <2>1. CASE mode = "http"
      <3>1. Min(ts) \in Paths /\ tokens[Min(ts)] # None /\ t = tokens[Min(ts)].value
        BY <1>5, <1>6, <2>1
      <3>2. tokens[Min(ts)] \in Cookie
        BY <1>2, <3>1 DEF TypeOK
      <3> QED
        BY <1>6, <3>1, <3>2 DEF InCookie, Cookie
    <2>2. CASE mode # "http"
      <3>1. t = FirstToken(page.kind)
        BY <1>2, <2>2
      <3> QED
        BY <1>2, <1>4, <3>1, First
    <2> QED
      BY <2>1, <2>2
  <1> HIDE DEF at, ts, ns, t
  <1>9. ts # {} => [value |-> t, until |-> "close"] \in Cookie
    BY <1>8 DEF Cookie
  <1>10. /\ tokens \in [Paths -> Cookie \cup {None}] /\ names \in [Paths -> Names \cup {None}]
    BY <1>2 DEF TypeOK
  <1>11. tokens' \in [Paths -> Cookie \cup {None}] /\ names' \in [Paths -> Names \cup {None}]
    BY <1>1, <1>3, <1>7, <1>9, <1>10
  <1>12. ASSUME NEW p \in Paths, tokens'[p] # None
         PROVE  \/ tokens'[p] = tokens[p]
                \/ p = at /\ ts # {} /\ tokens'[p].value = t
    BY <1>1, <1>10, <1>12
  <1>13. ASSUME NEW s \in Sessions, InCookie(s)'
         PROVE  InCookie(s)
    <2>1. PICK p \in Paths : tokens'[p] # None /\ tokens'[p].value = s
      BY <1>13 DEF InCookie
    <2> QED
      BY <1>8, <1>12, <2>1 DEF InCookie
  <1>14. tokens'[1] # None => tokens[1] # None /\ tokens'[1].value = tokens[1].value
    BY <1>3, <1>8, <1>12
  <1>15. mode = "socket" => names' = names
    BY <1>1
  <1> QED
    BY <1>11, <1>13, <1>14, <1>15

LEMMA ShowInv ==
  ASSUME Inv, Show
  PROVE  Inv'
  <1>0. doubled' = (doubled \/ (Signs(page.kind)
                                  /\ (page.as # None \/ \E p \in Paths : HasSession(p))))
    BY Zenon DEF Show, Signs
  <1>1. /\ page # None /\ page.stage = "flush" /\ page \in Page /\ page' = None
        /\ FlushEmpty \/ FlushToken \/ FlushSent
        /\ UNCHANGED <<mode, accounts, owner, behind>>
        /\ signedIn' = IF Signs(page.kind) THEN page.u
                       ELSE IF page.reply = Empty THEN None ELSE signedIn
    <2>1. /\ page # None /\ page.stage = "flush" /\ page \in Page /\ page' = None
          /\ FlushEmpty \/ FlushToken \/ FlushSent
          /\ UNCHANGED <<mode, accounts, owner, behind>>
      BY DEF Show, server, Inv, TypeOK
    <2>2. signedIn' = CASE page.kind \in {"signin", "signup"} -> page.u
                        [] page.reply = Empty -> None
                        [] OTHER -> signedIn
      BY DEF Show
    <2>3. ~ (Signs(page.kind) /\ page.reply = Empty)
      BY <2>1 DEF Inv, PageInv
    <2> QED
      BY <2>1, <2>2, <2>3 DEF Signs
  <1>2. /\ page.name \in Names \cup {None} /\ page.u \in Names \cup {None} /\ page.kind \in Kinds
        /\ tokens \in [Paths -> Cookie \cup {None}] /\ names \in [Paths -> Names \cup {None}]
        /\ 1 \in Paths
        /\ Signs(page.kind) => page.u \in Names /\ page.reply # None /\ page.reply # Empty
    BY <1>1 DEF Page, Inv, TypeOK, Paths, PageInv, Signs
  <1>3. None \notin Sessions /\ None \notin Names /\ Empty \notin Sessions /\ Empty # None
    BY BrowsingAssumption
  <1>4. tokens' \in [Paths -> Cookie \cup {None}] /\ names' \in [Paths -> Names \cup {None}]
    <2>1. CASE FlushEmpty
      BY <1>2, <2>1 DEF FlushEmpty, SetName
    <2>2. CASE FlushToken
      <3>1. [value |-> page.reply, until |-> "deadline"] \in Cookie
        BY <2>2 DEF FlushToken, Cookie
      <3>2. tokens' \in [Paths -> Cookie \cup {None}]
        BY <1>2, <2>2, <3>1 DEF FlushToken
      <3>3. names' \in [Paths -> Names \cup {None}]
        BY <1>2, <2>2 DEF FlushToken, SetName, Signs
      <3> QED
        BY <3>2, <3>3
    <2>3. CASE FlushSent
      BY <1>1, <2>3, SentBack
    <2> QED
      BY <1>1, <2>1, <2>2, <2>3
  <1>5. TypeOK'
    <2>1. signedIn' \in Names \cup {None}
      BY <1>1, <1>2 DEF Inv, TypeOK
    <2>2. doubled' \in BOOLEAN
      BY <1>0
    <2> QED
      BY <1>1, <1>4, <2>1, <2>2 DEF Inv, TypeOK
  <1>6. \A s : Live(s)' <=> InCookie(s)' /\ Alive(s)
    BY <1>1 DEF Live, InPage, Alive
  <1>7. OneSession'
    <2> SUFFICES ASSUME ~ doubled'
                 PROVE  /\ \A s, t \in Sessions : Live(s)' /\ Live(t)' => s = t
                        /\ \A s \in Sessions : Live(s)' => owner[s] = signedIn'
      BY <1>1 DEF OneSession
    <2>1. ~ doubled /\ (Signs(page.kind) => page.as = None /\ \A p \in Paths : ~ HasSession(p))
      BY <1>0
    <2>2. CASE FlushEmpty
      <3>1. page.reply = Empty
        BY <2>2 DEF FlushEmpty
      <3>2. \A s \in Sessions : InCookie(s)' => InCookie(s)
        BY <1>2, <2>2 DEF FlushEmpty, InCookie
      <3>3. \A s \in Sessions : ~ Live(s)'
        BY <1>1, <1>6, <2>1, <3>1, <3>2 DEF Inv, OneSession, Live
      <3> QED
        BY <3>3
    <2>3. CASE FlushToken
      <3>1. page.reply \in Sessions /\ page.token = page.reply
        BY <1>1, <2>3 DEF FlushToken, Inv, PageInv
      <3>2. \A s \in Sessions : InCookie(s)' => InCookie(s) \/ s = page.reply
        BY <1>2, <2>3 DEF FlushToken, InCookie
      <3>3. CASE Signs(page.kind)
        <4>1. \A s \in Sessions : Live(s)' => s = page.reply
          BY <1>6, <2>1, <3>2, <3>3 DEF InCookie, HasSession
        <4>2. Alive(page.reply) => owner[page.reply] = page.u
          BY <1>1, <2>1, <3>3 DEF Inv, PageInv
        <4> QED
          BY <1>1, <1>6, <3>3, <4>1, <4>2
      <3>4. CASE ~ Signs(page.kind)
        <4>1. \A s \in Sessions : Live(s)' => Live(s)
          BY <1>1, <1>6, <3>1, <3>2, <3>4 DEF Live, InPage
        <4>2. signedIn' = signedIn
          BY <1>1, <1>3, <3>1, <3>4
        <4> QED
          BY <2>1, <4>1, <4>2 DEF Inv, OneSession
      <3> QED
        BY <3>3, <3>4
    <2>4. CASE FlushSent
      <3>1. page.reply = None
        BY <2>4 DEF FlushSent
      <3>2. signedIn' = signedIn
        BY <1>1, <1>2, <1>3, <3>1
      <3>3. \A s \in Sessions : Live(s)' => Live(s)
        BY <1>1, <1>6, <2>4, SentBack DEF Live
      <3> QED
        BY <2>1, <3>2, <3>3 DEF Inv, OneSession
    <2> QED
      BY <1>1, <2>2, <2>3, <2>4
  <1>8. NameInv'
    <2> SUFFICES ASSUME mode = "socket"
                 PROVE  /\ \A p \in Paths \ {1} : names'[p] = None
                        /\ ~ doubled' => names'[1] \in {None, signedIn'}
      BY <1>1 DEF NameInv
    <2>1. /\ \A p \in Paths \ {1} : names[p] = None
          /\ ~ doubled' => names[1] \in {None, signedIn} /\ page.name \in {None, signedIn}
      <3>1. ~ doubled' => ~ doubled
        BY <1>0
      <3> QED
        BY <1>1, <3>1 DEF Inv, NameInv
    <2>2. CASE FlushEmpty
      BY <1>2, <2>1, <2>2 DEF FlushEmpty, SetName
    <2>3. CASE FlushToken
      <3>1. page.reply # Empty
        BY <1>3, <2>3 DEF FlushToken
      <3> QED
        BY <1>1, <1>2, <2>1, <2>3, <3>1 DEF FlushToken, SetName, Signs
    <2>4. CASE FlushSent
      <3>1. page.reply = None
        BY <2>4 DEF FlushSent
      <3>2. signedIn' = signedIn
        BY <1>1, <1>2, <1>3, <3>1
      <3> QED
        BY <1>1, <2>1, <2>4, <3>2, SentBack
    <2> QED
      BY <1>1, <2>2, <2>3, <2>4
  <1>9. Forgets'
    <2> SUFFICES ASSUME tokens'[1] # None
                 PROVE  Alive(tokens'[1].value) \/ tokens'[1].value \in behind
      BY <1>1 DEF Forgets, HasSession, Alive
    <2>1. ~ FlushEmpty
      BY <1>2 DEF FlushEmpty
    <2>2. CASE FlushToken
      <3>1. tokens'[1].value = page.reply /\ page.reply \in Sessions
        BY <1>2, <2>2 DEF FlushToken
      <3> QED
        BY <1>1, <3>1 DEF Inv, PageInv
    <2>3. CASE FlushSent
      <3>1. page.reply # Empty
        BY <1>3, <2>3 DEF FlushSent
      <3> QED
        BY <1>1, <2>3, <3>1, SentBack DEF Inv, Forgets, HasSession
    <2> QED
      BY <1>1, <2>1, <2>2, <2>3
  <1> QED
    BY <1>1, <1>5, <1>7, <1>8, <1>9 DEF Inv, PageInv

LEMMA NextInv == Inv /\ [Next]_vars => Inv'
  <1> SUFFICES ASSUME Inv, [Next]_vars PROVE Inv'
    OBVIOUS
  <1>1. CASE \E kind \in Kinds, u \in Names \cup {None} : Open(kind, u)
    BY <1>1, OpenInv
  <1>2. CASE Serve
    BY <1>2, AnsweredInv, LostInv, ShowErrorInv, ShowInv DEF Serve
  <1>3. CASE \/ \E s \in Sessions : Lapse(s)
             \/ \E p \in Paths : LapseEarlier(p)
             \/ CloseBrowser
    BY <1>3, BetweenPagesInv
  <1>4. CASE Elsewhere
    BY <1>4, ElsewhereInv
  <1>5. CASE UNCHANGED vars
    BY <1>5, StutterInv
  <1> QED
    BY <1>1, <1>2, <1>3, <1>4, <1>5 DEF Next

LEMMA Invariant == Spec => []Inv
  <1> QED
    BY InitInv, NextInv, PTL DEF Spec

-----------------------------------------------------------------------------
(* Theorems *)

\* The variables of the browser, the frontend and the server keep their types: no
\* cookie ever holds the empty token that stands for "signed out".
THEOREM TypeCorrect == Spec => []TypeOK
  <1>1. Inv => TypeOK
    BY DEF Inv
  <1> QED
    BY <1>1, Invariant, PTL

\* FlushCookies sets the token of the last answer: a browser that signs in while it
\* has no session acts as who it signed in as and, once it has signed out, as nobody.
THEOREM ActsAsSignedInHolds == Spec => []ActsAsSignedIn
  <1>1. Inv => ActsAsSignedIn
    BY DEF Inv, OneSession, ActsAsSignedIn, Done
  <1> QED
    BY <1>1, Invariant, PTL

\* With a socket the cookie of the name follows the cookie of the token: the name on
\* a page is that of the account that the page acts as.
THEOREM ActsAsShownHolds == Spec => []ActsAsShown
  <1>1. ASSUME Inv, Done, ~ doubled, mode = "socket"
        PROVE  /\ page.as \in {None, signedIn} /\ page.name \in {None, signedIn}
               /\ FirstName(page.kind) \in {None, signedIn}
    <2>1. page.as \in {None, signedIn} /\ page.name \in {None, signedIn}
      BY <1>1 DEF Inv, OneSession, NameInv, Done
    <2>2. ASSUME NEW S \in SUBSET Paths, S # {}, S = Sent(names, page.kind)
          PROVE  names[Max(S)] \in {None, signedIn}
      <3>1. Max(S) \in Paths
        BY <2>2, Extremes
      <3> QED
        BY <1>1, <3>1 DEF Inv, NameInv
    <2>3. Sent(names, page.kind) \in SUBSET Paths
      BY DEF Sent, PathsOf, Paths
    <2>4. FirstName(page.kind) \in {None, signedIn}
      BY <2>2, <2>3 DEF FirstName
    <2> QED
      BY <2>1, <2>4
  <1>2. Inv => ActsAsShown
    BY <1>1 DEF ActsAsShown
  <1> QED
    BY <1>2, Invariant, PTL

\* A token that is gone from the table of sessions is deleted from "/" by FlushCookies,
\* unless its session ended without this browser being told.
THEOREM SignedOutForgetsHolds == Spec => []SignedOutForgets
  <1>1. Inv => SignedOutForgets
    BY DEF Inv, Forgets, SignedOutForgets
  <1> QED
    BY <1>1, Invariant, PTL

=============================================================================
