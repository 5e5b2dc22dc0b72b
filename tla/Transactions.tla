---------------------------- MODULE Transactions ----------------------------
(***************************************************************************)
(* How requests share the pooled SQLite connections (server/db/db_tx.go,    *)
(* Acquire in server/db/db.go, the middleware in server/http/internal/tx).  *)
(*                                                                          *)
(* A request with a session opens a deferred transaction on a connection of *)
(* its own; a guest's statements run on one without a transaction.  The     *)
(* pool (database/sql), the locks and the snapshots (SQLite in WAL mode)    *)
(* are not part of the repository: they are modelled as its code sees them. *)
(* A handler is a series of reads and writes; what they are about is left   *)
(* to the other modules.                                                    *)
(***************************************************************************)
EXTENDS Integers, FiniteSets

CONSTANTS
  Auth, Guests,   \* the requests, with a session token and without
  Conns,          \* connections the process may open
  MaxIdle,        \* connections database/sql keeps idle
  MaxSteps,       \* bound: statements of a handler
  SessionStates,  \* what querySession may find: valid, due (to be renewed), expired
  Cancels,        \* whether clients hang up, which cancels the request's context
  None

Reqs   == Auth \cup Guests
Writes == Reqs \X (0 .. MaxSteps)

ASSUME TransactionsAssumption ==
  /\ Auth \cap Guests = {}
  /\ MaxIdle \in Nat /\ MaxSteps \in Nat
  /\ SessionStates \subseteq {"valid", "due", "expired"}
  /\ Cancels \in BOOLEAN
  /\ None \notin Conns /\ \A W \in SUBSET Writes : None # W

VARIABLES
  pool,      \* a connection is closed, idle in the pool, or used by a request
  tx,        \* its transaction: whether one is open, the durable writes it sees
             \* (once it has read), and its own writes, which wait for COMMIT
  durable,   \* the writes that have taken effect
  rpc,       \* where a request is
  conn,      \* the connection of a request
  ctx,       \* its context: "live" or "cancelled"
  step,      \* statements its handler has run
  answer     \* "none", "ok" or "err"

vars == <<pool, tx, durable, rpc, conn, ctx, step, answer>>

Views  == (SUBSET Writes) \cup {None}
TxRow  == [open : BOOLEAN, snap : Views, pending : SUBSET Writes]
NoTx   == [open |-> FALSE, snap |-> None, pending |-> {}]

-----------------------------------------------------------------------------
(* The pool and the database *)

Idle == {c \in Conns : pool[c] = "idle"}

\* Conn.Close: a connection goes back to the pool with the transaction t still
\* on it, unless enough are idle already; closing it for good rolls t back.
GiveBack(c, t) ==
  LET keep == Cardinality(Idle) < MaxIdle IN
  /\ pool' = [pool EXCEPT ![c] = IF keep THEN "idle" ELSE "closed"]
  /\ tx' = [tx EXCEPT ![c] = IF keep THEN t ELSE NoTx]

\* A transaction after BEGIN, after a read, and after a write.
NewTx        == [open |-> TRUE, snap |-> None, pending |-> {}]
Seeing(t)    == [open |-> t.open, snap |-> durable, pending |-> t.pending]
Adding(t, w) == [open |-> t.open, snap |-> durable, pending |-> t.pending \cup {w}]

\* There is one writer at a time.
LockFree(c) == \A d \in Conns \ {c} : tx[d].pending = {}

\* A transaction may write only on the state it has read.
Current(c) == tx[c].snap \in {None, durable}

\* The answer to a request, which ends it.
Finish(r, a) ==
  /\ rpc' = [rpc EXCEPT ![r] = "done"]
  /\ answer' = [answer EXCEPT ![r] = a]
  /\ conn' = [conn EXCEPT ![r] = None]

-----------------------------------------------------------------------------
(* BeginTx *)

\* Mutant: a transaction is opened whatever the session is.
ConnectToBegin(r) ==
  /\ rpc[r] = "connect" /\ ctx[r] = "live"
  /\ \E c \in IF Idle # {} THEN Idle ELSE {d \in Conns : pool[d] = "closed"} :
       /\ pool' = [pool EXCEPT ![c] = "used"]
       /\ conn' = [conn EXCEPT ![r] = c]
  /\ rpc' = [rpc EXCEPT ![r] = "begin"]
  /\ UNCHANGED <<tx, durable, ctx, step, answer>>

\* db.Connx: an idle connection if there is one, or else a new one.
Connect(r) ==
  /\ rpc[r] = "connect" /\ ctx[r] = "live"
  /\ \E c \in IF Idle # {} THEN Idle ELSE {d \in Conns : pool[d] = "closed"} :
       /\ pool' = [pool EXCEPT ![c] = "used"]
       /\ conn' = [conn EXCEPT ![r] = c]
  /\ rpc' = [rpc EXCEPT ![r] = IF r \in Auth THEN "begin" ELSE "handler"]
  /\ UNCHANGED <<tx, durable, ctx, step, answer>>

ConnectFails(r) ==
  /\ rpc[r] = "connect" /\ ctx[r] = "cancelled"
  /\ Finish(r, "err")
  /\ UNCHANGED <<pool, tx, durable, ctx, step>>

\* Mutant: the error of BEGIN inside a transaction is dropped.
BeginAnyway(r) ==
  /\ rpc[r] = "begin"
  /\ tx' = IF tx[conn[r]].open THEN tx ELSE [tx EXCEPT ![conn[r]] = NewTx]
  /\ rpc' = [rpc EXCEPT ![r] = "session"]
  /\ UNCHANGED <<pool, durable, conn, ctx, step, answer>>

\* BEGIN DEFERRED
Begin(r) ==
  /\ rpc[r] = "begin" /\ ~tx[conn[r]].open
  /\ tx' = [tx EXCEPT ![conn[r]] = NewTx]
  /\ rpc' = [rpc EXCEPT ![r] = "session"]
  /\ UNCHANGED <<pool, durable, conn, ctx, step, answer>>

\* Mutant: the connection is not closed when BEGIN fails.
BeginFailsAndLeaks(r) ==
  /\ rpc[r] = "begin"
  /\ tx[conn[r]].open \/ ctx[r] = "cancelled"
  /\ Finish(r, "err")
  /\ UNCHANGED <<pool, tx, durable, ctx, step>>

\* It fails inside a transaction that is open already, or on a cancelled context,
\* which does not tell whether it took effect.
BeginFails(r) ==
  LET t == tx[conn[r]] IN
  /\ rpc[r] = "begin"
  /\ \/ t.open /\ GiveBack(conn[r], t)
     \/ ~t.open /\ ctx[r] = "cancelled" /\ \E u \in {t, NewTx} : GiveBack(conn[r], u)
  /\ Finish(r, "err")
  /\ UNCHANGED <<durable, ctx, step>>

\* querySession finds a session, which may be due for a renewal: a write.
QuerySession(r) ==
  LET c == conn[r] IN
  /\ rpc[r] = "session"
  /\ \/ /\ "valid" \in SessionStates
        /\ tx' = [tx EXCEPT ![c] = Seeing(tx[c])]
     \/ /\ "due" \in SessionStates /\ LockFree(c)
        /\ tx' = [tx EXCEPT ![c] = Adding(tx[c], <<r, 0>>)]
  /\ rpc' = [rpc EXCEPT ![r] = "handler"]
  /\ UNCHANGED <<pool, durable, conn, ctx, step, answer>>

\* querySession fails: there is no valid session, the lock for the renewal is
\* taken, or the context is cancelled, which may keep a statement from running,
\* hide that it ran, or undo the transaction.  BeginTx calls Rollback while isTx is still false, so
\* that no ROLLBACK is sent.
SessionFails(r) ==
  LET c == conn[r] IN
  /\ rpc[r] = "session"
  /\ \/ /\ \/ "expired" \in SessionStates
           \/ "due" \in SessionStates /\ ~LockFree(c)
        /\ GiveBack(c, Seeing(tx[c]))
     \/ /\ ctx[r] = "cancelled"
        /\ \E t \in {Seeing(tx[c]), tx[c], NoTx} : GiveBack(c, t)
     \/ /\ ctx[r] = "cancelled" /\ "due" \in SessionStates /\ LockFree(c)
        /\ GiveBack(c, Adding(tx[c], <<r, 0>>))
  /\ Finish(r, "err")
  /\ UNCHANGED <<durable, ctx, step>>

-----------------------------------------------------------------------------
(* The handler, on whatever connection it was given *)

Read(r) ==
  LET c == conn[r] IN
  /\ rpc[r] = "handler" /\ step[r] < MaxSteps
  /\ step' = [step EXCEPT ![r] = @ + 1]
  /\ tx' = IF tx[c].open /\ tx[c].snap = None
           THEN [tx EXCEPT ![c] = Seeing(tx[c])] ELSE tx
  /\ UNCHANGED <<pool, durable, rpc, conn, ctx, answer>>

Write(r) ==
  LET c == conn[r]
      w == <<r, step[r] + 1>>
  IN /\ rpc[r] = "handler" /\ step[r] < MaxSteps
     /\ LockFree(c)
     /\ \/ /\ tx[c].open /\ Current(c)
           /\ tx' = [tx EXCEPT ![c] = Adding(tx[c], w)]
           /\ UNCHANGED durable
        \/ /\ ~tx[c].open
           /\ durable' = durable \cup {w}
           /\ UNCHANGED tx
     /\ step' = [step EXCEPT ![r] = @ + 1]
     /\ UNCHANGED <<pool, rpc, conn, ctx, answer>>

HandlerReturns(r) ==
  /\ rpc[r] = "handler"
  /\ rpc' = [rpc EXCEPT ![r] = "commit"]
  /\ UNCHANGED <<pool, tx, durable, conn, ctx, step, answer>>

\* The handler refuses the request, or a statement of it fails: a busy or stale
\* write, a constraint, a cancelled context.
HandlerFails(r) ==
  /\ rpc[r] = "handler"
  /\ rpc' = [rpc EXCEPT ![r] = "rollback"]
  /\ UNCHANGED <<pool, tx, durable, conn, ctx, step, answer>>

\* SQLite itself rolls back a transaction when one of its writes is interrupted.
Interrupted(r) ==
  /\ rpc[r] = "handler" /\ ctx[r] = "cancelled" /\ step[r] < MaxSteps
  /\ tx' = [tx EXCEPT ![conn[r]] = NoTx]
  /\ rpc' = [rpc EXCEPT ![r] = "rollback"]
  /\ UNCHANGED <<pool, durable, conn, ctx, step, answer>>

-----------------------------------------------------------------------------
(* Acquire ends every request by Commit or Rollback *)

Commit(r) ==
  /\ rpc[r] = "commit"
  /\ IF r \in Auth
     THEN /\ durable' = durable \cup tx[conn[r]].pending
          /\ GiveBack(conn[r], NoTx)
     ELSE /\ GiveBack(conn[r], tx[conn[r]])
          /\ UNCHANGED durable
  /\ Finish(r, "ok")
  /\ UNCHANGED <<ctx, step>>

\* Mutants: the error of COMMIT is dropped; Rollback follows a Commit that failed,
\* without the closed flag to stop it.
CommitFailsSilently(r) ==
  /\ rpc[r] = "commit" /\ r \in Auth /\ ctx[r] = "cancelled"
  /\ GiveBack(conn[r], tx[conn[r]])
  /\ Finish(r, "ok")
  /\ UNCHANGED <<durable, ctx, step>>
CommitFailsTwice(r) ==
  /\ rpc[r] = "commit" /\ r \in Auth /\ ctx[r] = "cancelled"
  /\ GiveBack(conn[r], tx[conn[r]])
  /\ rpc' = [rpc EXCEPT ![r] = "rollback"]
  /\ UNCHANGED <<durable, conn, ctx, step, answer>>

\* COMMIT is sent with the context of the request.  When that is cancelled the
\* error is returned whether COMMIT was too late to stop or never ran, and the
\* connection given back all the same.
CommitFails(r) ==
  LET t == tx[conn[r]] IN
  /\ rpc[r] = "commit" /\ r \in Auth /\ ctx[r] = "cancelled"
  /\ \/ GiveBack(conn[r], t) /\ UNCHANGED durable
     \/ GiveBack(conn[r], NoTx) /\ durable' = durable \cup t.pending
  /\ Finish(r, "err")
  /\ UNCHANGED <<ctx, step>>

Rollback(r) ==
  /\ rpc[r] = "rollback"
  /\ GiveBack(conn[r], IF r \in Auth THEN NoTx ELSE tx[conn[r]])
  /\ Finish(r, "err")
  /\ UNCHANGED <<durable, ctx, step>>

RollbackFails(r) ==
  /\ rpc[r] = "rollback" /\ r \in Auth /\ ctx[r] = "cancelled"
  /\ \E t \in {tx[conn[r]], NoTx} : GiveBack(conn[r], t)
  /\ Finish(r, "err")
  /\ UNCHANGED <<durable, ctx, step>>

-----------------------------------------------------------------------------
\* The client hangs up.
Cancel(r) ==
  /\ Cancels /\ rpc[r] # "done" /\ ctx[r] = "live"
  /\ ctx' = [ctx EXCEPT ![r] = "cancelled"]
  /\ UNCHANGED <<pool, tx, durable, rpc, conn, step, answer>>

\* The server stops and starts again: the requests in flight get no answer, and
\* what was not committed is gone.
Restart ==
  /\ \E c \in Conns : pool[c] # "closed"
  /\ pool' = [c \in Conns |-> "closed"]
  /\ tx' = [c \in Conns |-> NoTx]
  /\ rpc' = [r \in Reqs |-> IF conn[r] # None THEN "done" ELSE rpc[r]]
  /\ conn' = [r \in Reqs |-> None]
  /\ UNCHANGED <<durable, ctx, step, answer>>

Init ==
  /\ pool = [c \in Conns |-> "closed"]
  /\ tx = [c \in Conns |-> NoTx]
  /\ durable = {}
  /\ rpc = [r \in Reqs |-> "connect"]
  /\ conn = [r \in Reqs |-> None]
  /\ ctx = [r \in Reqs |-> "live"]
  /\ step = [r \in Reqs |-> 0]
  /\ answer = [r \in Reqs |-> "none"]

\* What Acquire does around a handler, and the handler.
Bracket(r) ==
  \/ Connect(r) \/ ConnectFails(r)
  \/ Begin(r) \/ BeginFails(r)
  \/ QuerySession(r) \/ SessionFails(r)
  \/ Commit(r) \/ CommitFails(r) \/ Rollback(r) \/ RollbackFails(r)

Handler(r) ==
  Read(r) \/ Write(r) \/ HandlerReturns(r) \/ HandlerFails(r) \/ Interrupted(r)

\* What the goroutine of a request does by itself.
Serve(r) == Bracket(r) \/ Handler(r)

Next ==
  \/ \E r \in Reqs : Serve(r) \/ Cancel(r)
  \/ Restart

Spec == Init /\ [][Next]_vars

\* The Go scheduler runs every goroutine, and no statement blocks for ever: a
\* write that finds the database locked fails after the busy timeout.  Nothing is
\* assumed of a handler: UploadPost waits, in its transaction, for a client and
\* for converters that nothing ends.
FairSpec == Spec /\ \A r \in Reqs : WF_vars(Bracket(r))

-----------------------------------------------------------------------------
(* Properties *)

Answers == {"none", "ok", "err"}
Places  == {"connect", "begin", "session", "handler", "commit", "rollback", "done"}

TypeOK ==
  /\ pool \in [Conns -> {"closed", "idle", "used"}]
  /\ tx \in [Conns -> TxRow]
  /\ durable \in SUBSET Writes
  /\ rpc \in [Reqs -> Places]
  /\ \A r \in Guests : rpc[r] \notin {"begin", "session"}
  /\ conn \in [Reqs -> Conns \cup {None}]
  /\ ctx \in [Reqs -> {"live", "cancelled"}]
  /\ step \in [Reqs -> 0 .. MaxSteps]
  /\ answer \in [Reqs -> Answers]

\* A request between BeginTx and its Commit or Rollback.
Serving(r) == rpc[r] \notin {"connect", "done"}

\* A connection serves one request, from BeginTx to the end of Commit or
\* Rollback, and only what is in the pool is given out.
OwnConnection ==
  /\ \A r \in Reqs : Serving(r) <=> conn[r] # None
  /\ \A r \in Reqs : conn[r] # None => pool[conn[r]] = "used"
  /\ \A r, q \in Reqs : conn[r] # None /\ conn[r] = conn[q] => r = q

\* A request that has passed BEGIN and has not failed.
InTx(r) == rpc[r] \in {"session", "handler", "commit"}

\* A transaction may be left open on a connection, but what was written in it is
\* never committed: a request with a session starts on a connection without one,
\* and the transaction it goes on to commit is open and holds its own writes only.
OwnTransaction ==
  /\ \A c \in Conns : ~tx[c].open \/ pool[c] = "closed" => tx[c] = NoTx
  /\ \A r \in Auth : InTx(r) =>
       /\ tx[conn[r]].open
       /\ \A w \in tx[conn[r]].pending : w[1] = r

\* What has become of a request with a session, what it has seen and written.
OutcomeOf(r) ==
  IF answer[r] = "ok" THEN "ok"
  ELSE IF rpc[r] \in {"rollback", "done"} THEN "failed" ELSE "running"
SeenBy(r)   == IF InTx(r) THEN tx[conn[r]].snap ELSE None
IssuedBy(r) == IF InTx(r) THEN tx[conn[r]].pending ELSE {}

\* A request with a session takes effect entirely or not at all, whatever came
\* between its steps: see AtomicRequests.
Atomic == INSTANCE AtomicRequests WITH
  Unread  <- None,
  hungUp  <- [r \in Auth |-> ctx[r] = "cancelled"],
  seen    <- [r \in Auth |-> SeenBy(r)],
  issued  <- [r \in Auth |-> IssuedBy(r)],
  outcome <- [r \in Auth |-> OutcomeOf(r)]

AtomicSpec == Atomic!Spec

\* Only a handler keeps a connection: "This method must ALWAYS be called when
\* done" (Rollback), which BeginTx and Acquire see to on every path, so that a
\* connection comes back over and over unless some handler on it does not end.
ConnectionsReturned ==
  \A c \in Conns :
    []<>(pool[c] = "used" => \E r \in Reqs : conn[r] = c /\ rpc[r] = "handler")

\* "If session is empty, then a transaction is not opened" (BeginTx): a guest's
\* statements are on a connection without one.
GuestsOutsideTransactions ==
  \A r \in Guests : rpc[r] = "handler" => ~tx[conn[r]].open
=============================================================================
