-------------------------- MODULE TransactionsProofs --------------------------
(***************************************************************************)
(* Proofs about Transactions: its invariants, and that it implements        *)
(* AtomicRequests, for any number of requests and connections.              *)
(***************************************************************************)
EXTENDS Transactions, TLAPS

\* Only one transaction has uncommitted writes, and it has read the state that
\* is current: nothing was committed since.
WritesOnCurrentState ==
  \A c \in Conns : tx[c].pending # {} =>
    tx[c].open /\ tx[c].snap = durable /\ LockFree(c)

\* The inductive invariant.
Inv == TypeOK /\ OwnConnection /\ WritesOnCurrentState /\ OwnTransaction

LEMMA GuestsHaveNoTx ==
  /\ Guests \subseteq Reqs /\ Auth \subseteq Reqs
  /\ \A r \in Reqs : r \in Auth <=> r \notin Guests
  BY TransactionsAssumption DEF Reqs

LEMMA NoTxIsRow == NoTx \in TxRow
  BY DEF NoTx, TxRow, Views

THEOREM InitInv == Init => Inv
  <1> SUFFICES ASSUME Init PROVE Inv
    OBVIOUS
  <1> USE TransactionsAssumption DEF Init
  <1>1. TypeOK
    BY NoTxIsRow DEF TypeOK, Places, Answers, Reqs
  <1>2. OwnConnection
    BY DEF OwnConnection, Serving
  <1>3. WritesOnCurrentState /\ OwnTransaction
    BY DEF WritesOnCurrentState, OwnTransaction, NoTx, InTx, Reqs
  <1> QED
    BY <1>1, <1>2, <1>3 DEF Inv

-----------------------------------------------------------------------------
(* A step that gives the connection of a request back. *)

LEMMA GiveBackEffect ==
  ASSUME NEW c \in Conns, NEW t \in TxRow, TypeOK, GiveBack(c, t)
  PROVE  /\ pool' \in [Conns -> {"closed", "idle", "used"}]
         /\ tx' \in [Conns -> TxRow]
         /\ \A d \in Conns \ {c} : pool'[d] = pool[d] /\ tx'[d] = tx[d]
         /\ \/ pool'[c] = "idle" /\ tx'[c] = t
            \/ pool'[c] = "closed" /\ tx'[c] = NoTx
  BY NoTxIsRow DEF GiveBack, TypeOK

\* The transaction that stays on the connection writes no more than it did, and
\* still on the current state.
Harmless(t, c) ==
  /\ t \in TxRow
  /\ ~t.open => t = NoTx
  /\ t.pending # {} => t.open /\ t.snap = durable /\ LockFree(c)

LEMMA EndInv ==
  ASSUME Inv, NEW r \in Reqs, Serving(r), NEW a \in Answers, NEW t,
         Harmless(t, conn[r]), GiveBack(conn[r], t), Finish(r, a),
         UNCHANGED <<ctx, step>>, durable' \in SUBSET Writes,
         \/ durable' = durable
         \/ t = NoTx /\ \A d \in Conns \ {conn[r]} : tx[d].pending = {}
  PROVE  Inv'
  <1> DEFINE c == conn[r]
  <1>1. c \in Conns
    BY TransactionsAssumption DEF Inv, TypeOK, OwnConnection
  <1>2. /\ pool' \in [Conns -> {"closed", "idle", "used"}]
        /\ tx' \in [Conns -> TxRow]
        /\ \A d \in Conns \ {c} : pool'[d] = pool[d] /\ tx'[d] = tx[d]
        /\ \/ pool'[c] = "idle" /\ tx'[c] = t
           \/ pool'[c] = "closed" /\ tx'[c] = NoTx
    <2>1. t \in TxRow /\ TypeOK /\ GiveBack(c, t)
      BY DEF Harmless, Inv
    <2> QED
      BY <1>1, <2>1, GiveBackEffect
  <1>3. /\ rpc' = [rpc EXCEPT ![r] = "done"]
        /\ conn' = [conn EXCEPT ![r] = None]
        /\ answer' = [answer EXCEPT ![r] = a]
    BY DEF Finish
  <1>4. TypeOK'
    BY <1>2, <1>3, GuestsHaveNoTx DEF Inv, TypeOK, Places
  <1>5. OwnConnection'
    BY <1>1, <1>2, <1>3, TransactionsAssumption DEF Inv, TypeOK, OwnConnection, Serving
  <1>6. WritesOnCurrentState'
    <2> SUFFICES ASSUME NEW d \in Conns, tx'[d].pending # {}
                 PROVE  tx'[d].open /\ tx'[d].snap = durable' /\ LockFree(d)'
      BY DEF WritesOnCurrentState
    <2>1. NoTx.pending = {}
      BY DEF NoTx
    <2>2. CASE durable' = durable
      BY <1>1, <1>2, <2>1, <2>2 DEF Inv, WritesOnCurrentState, LockFree, Harmless
    <2>3. CASE t = NoTx /\ \A e \in Conns \ {c} : tx[e].pending = {}
      BY <1>1, <1>2, <2>1, <2>3
    <2> QED
      BY <2>2, <2>3
  <1>7. OwnTransaction'
    <2>1. ASSUME NEW d \in Conns, ~tx'[d].open \/ pool'[d] = "closed"
          PROVE  tx'[d] = NoTx
      BY <1>1, <1>2, <2>1 DEF Inv, OwnTransaction, Harmless
    <2>2. ASSUME NEW q \in Auth, InTx(q)'
          PROVE  /\ tx'[conn'[q]].open
                 /\ \A w \in tx'[conn'[q]].pending : w[1] = q
      <3>1. q # r /\ InTx(q) /\ conn'[q] = conn[q]
        BY <1>3, <2>2 DEF Inv, TypeOK, InTx, Reqs
      <3>2. conn[q] \in Conns \ {c}
        BY <3>1 DEF Inv, TypeOK, OwnConnection, Serving, InTx, Reqs
      <3> QED
        BY <1>2, <3>1, <3>2 DEF Inv, OwnTransaction
    <2> QED
      BY <2>1, <2>2 DEF OwnTransaction
  <1> QED
    BY <1>4, <1>5, <1>6, <1>7 DEF Inv

-----------------------------------------------------------------------------
(* One lemma per action *)

\* The connection of a request that is being served.
LEMMA ServingConn ==
  ASSUME Inv, NEW r \in Reqs, Serving(r)
  PROVE  /\ conn[r] \in Conns
         /\ pool[conn[r]] = "used"
         /\ \A q \in Reqs \ {r} : conn[q] # conn[r]
  BY DEF Inv, TypeOK, OwnConnection

LEMMA HarmlessAsItIs ==
  ASSUME Inv, NEW c \in Conns
  PROVE  Harmless(tx[c], c) /\ Harmless(NoTx, c)
         /\ (tx[c].open => Harmless(Seeing(tx[c]), c))
  BY NoTxIsRow DEF Inv, TypeOK, OwnTransaction, WritesOnCurrentState, Harmless, NoTx,
                   Seeing, TxRow, Views

LEMMA ConnectInv ==
  ASSUME Inv, NEW r \in Reqs, Connect(r)
  PROVE  Inv'
  <1>1. PICK c \in Conns :
          /\ pool[c] \in {"idle", "closed"}
          /\ pool' = [pool EXCEPT ![c] = "used"]
          /\ conn' = [conn EXCEPT ![r] = c]
    BY DEF Connect, Idle
  <1>2. UNCHANGED <<tx, durable, ctx, step, answer>> /\ rpc[r] = "connect" /\ conn[r] = None
    BY DEF Connect, Inv, OwnConnection, Serving
  <1>3. rpc' = [rpc EXCEPT ![r] = IF r \in Auth THEN "begin" ELSE "handler"]
    BY DEF Connect
  <1>4. TypeOK'
    BY <1>1, <1>2, <1>3, GuestsHaveNoTx DEF Inv, TypeOK, Places
  <1>5. OwnConnection'
    BY <1>1, <1>2, <1>3, TransactionsAssumption DEF Inv, TypeOK, OwnConnection, Serving
  <1>6. WritesOnCurrentState'
    BY <1>2 DEF Inv, WritesOnCurrentState, LockFree
  <1>7. OwnTransaction'
    BY <1>1, <1>2, <1>3 DEF Inv, TypeOK, OwnTransaction, InTx, Reqs
  <1> QED
    BY <1>4, <1>5, <1>6, <1>7 DEF Inv

LEMMA ConnectFailsInv ==
  ASSUME Inv, NEW r \in Reqs, ConnectFails(r)
  PROVE  Inv'
  <1> USE DEF ConnectFails, Finish
  <1>1. TypeOK'
    BY DEF Inv, TypeOK, Places, Answers
  <1>2. OwnConnection'
    BY TransactionsAssumption DEF Inv, TypeOK, OwnConnection, Serving
  <1>3. WritesOnCurrentState' /\ OwnTransaction'
    BY DEF Inv, TypeOK, OwnTransaction, WritesOnCurrentState, LockFree, InTx, Reqs
  <1> QED
    BY <1>1, <1>2, <1>3 DEF Inv

LEMMA BeginInv ==
  ASSUME Inv, NEW r \in Reqs, Begin(r)
  PROVE  Inv'
  <1> DEFINE c == conn[r]
  <1>1. c \in Conns /\ pool[c] = "used" /\ \A q \in Reqs \ {r} : conn[q] # c
    BY ServingConn DEF Begin, Serving
  <1>2. /\ tx[c] = NoTx
        /\ tx' = [tx EXCEPT ![c] = NewTx]
        /\ rpc' = [rpc EXCEPT ![r] = "session"]
        /\ UNCHANGED <<pool, durable, conn, ctx, step, answer>>
    BY <1>1 DEF Begin, Inv, TypeOK, OwnTransaction
  <1>3. TypeOK'
    <2>1. NewTx \in TxRow /\ r \notin Guests
      BY DEF TxRow, NewTx, Views, Begin, Inv, TypeOK
    <2> QED
      BY <1>1, <1>2, <2>1, GuestsHaveNoTx DEF Inv, TypeOK, Places
  <1>4. OwnConnection'
    BY <1>2 DEF Begin, Inv, TypeOK, OwnConnection, Serving
  <1>5. WritesOnCurrentState'
    BY <1>1, <1>2 DEF Inv, TypeOK, WritesOnCurrentState, LockFree, NewTx
  <1>6. OwnTransaction'
    <2>1. NewTx # NoTx /\ NewTx.open /\ NewTx.pending = {}
      BY DEF NoTx, NewTx
    <2>2. \A q \in Auth \ {r} : InTx(q)' => InTx(q) /\ conn[q] \in Conns \ {c}
      BY <1>1, <1>2, ServingConn DEF Inv, TypeOK, InTx, Serving, Reqs
    <2> QED
      BY <1>1, <1>2, <2>1, <2>2 DEF Inv, TypeOK, OwnTransaction
  <1> QED
    BY <1>3, <1>4, <1>5, <1>6 DEF Inv

\* A step of a running handler that leaves its request on its connection and
\* makes of the transaction there one that is as open as before, harmless, and
\* has gained no writes but those of the request.
LEMMA StatementInv ==
  ASSUME Inv, NEW r \in Reqs, Serving(r), NEW t \in TxRow,
         rpc'[r] \in {"handler", "commit", "rollback"},
         rpc' = [rpc EXCEPT ![r] = rpc'[r]],
         tx' = [tx EXCEPT ![conn[r]] = t],
         ~t.open => t = NoTx,
         InTx(r)' /\ r \in Auth =>
           t.open /\ (\A w \in t.pending : w[1] = r),
         t.pending # {} => t.open /\ t.snap = durable /\ LockFree(conn[r]),
         step' \in [Reqs -> 0 .. MaxSteps],
         UNCHANGED <<pool, durable, conn, ctx, answer>>
  PROVE  Inv'
  <1> DEFINE c == conn[r]
  <1>1. c \in Conns /\ pool[c] = "used" /\ \A q \in Reqs \ {r} : conn[q] # c
    BY ServingConn
  <1>2. TypeOK'
    <2>1. /\ rpc' \in [Reqs -> Places]
          /\ \A q \in Guests : rpc'[q] \notin {"begin", "session"}
      BY GuestsHaveNoTx DEF Inv, TypeOK, Places
    <2>2. tx' \in [Conns -> TxRow]
      BY <1>1 DEF Inv, TypeOK
    <2> QED
      BY <2>1, <2>2 DEF Inv, TypeOK
  <1>3. OwnConnection'
    BY DEF Inv, TypeOK, OwnConnection, Serving
  <1>4. WritesOnCurrentState'
    BY <1>1 DEF Inv, TypeOK, WritesOnCurrentState, LockFree
  <1>5. OwnTransaction'
    <2>1. \A q \in Auth \ {r} : InTx(q)' => InTx(q) /\ conn[q] \in Conns \ {c}
      BY <1>1, ServingConn DEF Inv, TypeOK, InTx, Serving, Reqs
    <2> QED
      BY <1>1, <2>1 DEF Inv, TypeOK, OwnTransaction
  <1> QED
    BY <1>2, <1>3, <1>4, <1>5 DEF Inv

LEMMA QuerySessionInv ==
  ASSUME Inv, NEW r \in Reqs, QuerySession(r)
  PROVE  Inv'
  <1> DEFINE c == conn[r]
  <1>1. r \in Auth /\ Serving(r) /\ c \in Conns
    BY ServingConn, GuestsHaveNoTx DEF QuerySession, Serving, Inv, TypeOK
  <1>2. tx[c] \in TxRow /\ tx[c].open /\ \A w \in tx[c].pending : w[1] = r
    BY <1>1 DEF QuerySession, Inv, TypeOK, OwnTransaction, InTx
  <1>3. tx[c].pending # {} => LockFree(c)
    BY <1>1 DEF Inv, WritesOnCurrentState
  <1>4. PICK t \in {Seeing(tx[c]), Adding(tx[c], <<r, 0>>)} :
          /\ tx' = [tx EXCEPT ![c] = t]
          /\ t # Seeing(tx[c]) => LockFree(c)
    BY DEF QuerySession
  <1>5. /\ t \in TxRow
        /\ t.open
        /\ \A w \in t.pending : w[1] = r
        /\ t.pending # {} => t.snap = durable /\ LockFree(c)
    <2>1. durable \in SUBSET Writes /\ <<r, 0>> \in Writes /\ <<r, 0>>[1] = r
      BY TransactionsAssumption DEF Inv, TypeOK, Writes
    <2>2. CASE t = Seeing(tx[c])
      BY <1>2, <1>3, <2>1, <2>2 DEF Seeing, TxRow, Views
    <2>3. CASE t = Adding(tx[c], <<r, 0>>) /\ t # Seeing(tx[c])
      <3>1. /\ t.open /\ t.snap = durable /\ t.pending = tx[c].pending \cup {<<r, 0>>}
            /\ t \in TxRow
        BY <1>2, <2>1, <2>3 DEF Adding, TxRow, Views
      <3>2. LockFree(c)
        BY <1>4, <2>3
      <3> QED
        BY <1>2, <2>1, <3>1, <3>2
    <2> QED
      BY <1>4, <2>2, <2>3
  <1>6. rpc' = [rpc EXCEPT ![r] = "handler"] /\ UNCHANGED <<pool, durable, conn, ctx, step, answer>>
    BY DEF QuerySession
  <1>7. rpc'[r] = "handler" /\ step' \in [Reqs -> 0 .. MaxSteps]
    BY <1>6 DEF Inv, TypeOK
  <1> QED
    BY <1>1, <1>4, <1>5, <1>6, <1>7, StatementInv

\* A statement that leaves the transaction and the database alone.
LEMMA QuietInv ==
  ASSUME Inv, NEW r \in Reqs, rpc[r] = "handler", NEW p \in {"handler", "commit", "rollback"},
         rpc' = [rpc EXCEPT ![r] = p], step' \in [Reqs -> 0 .. MaxSteps],
         UNCHANGED <<pool, tx, durable, conn, ctx, answer>>
  PROVE  Inv'
  <1>1. TypeOK'
    BY GuestsHaveNoTx DEF Inv, TypeOK, Places
  <1>2. OwnConnection'
    BY DEF Inv, TypeOK, OwnConnection, Serving
  <1>3. WritesOnCurrentState' /\ OwnTransaction'
    BY DEF Inv, TypeOK, WritesOnCurrentState, OwnTransaction, LockFree, InTx, Reqs
  <1> QED
    BY <1>1, <1>2, <1>3 DEF Inv

LEMMA ReadInv ==
  ASSUME Inv, NEW r \in Reqs, Read(r)
  PROVE  Inv'
  <1> DEFINE c == conn[r]
  <1>1. Serving(r) /\ c \in Conns /\ rpc[r] = "handler"
    BY ServingConn DEF Read, Serving
  <1>2. rpc' = [rpc EXCEPT ![r] = "handler"] /\ rpc'[r] = "handler"
    BY DEF Read, Inv, TypeOK
  <1>3. step' \in [Reqs -> 0 .. MaxSteps]
    BY TransactionsAssumption DEF Read, Inv, TypeOK
  <1>4. UNCHANGED <<pool, durable, conn, ctx, answer>>
    BY DEF Read
  <1>5. CASE tx[c].open /\ tx[c].snap = None
    <2>1. tx' = [tx EXCEPT ![c] = Seeing(tx[c])]
      BY <1>5 DEF Read
    <2>2. /\ Seeing(tx[c]) \in TxRow
          /\ Seeing(tx[c]).open
          /\ Seeing(tx[c]).pending = tx[c].pending
          /\ Seeing(tx[c]).snap = durable
      BY <1>1, <1>5 DEF Inv, TypeOK, Seeing, TxRow, Views
    <2>3. tx[c].pending # {} => LockFree(c)
      BY <1>1 DEF Inv, WritesOnCurrentState
    <2>4. r \in Auth => \A w \in tx[c].pending : w[1] = r
      BY <1>1 DEF Inv, OwnTransaction, InTx
    <2> QED
      BY <1>1, <1>2, <1>3, <1>4, <2>1, <2>2, <2>3, <2>4, StatementInv
  <1>6. CASE ~(tx[c].open /\ tx[c].snap = None)
    <2>1. UNCHANGED tx
      BY <1>6 DEF Read
    <2> QED
      BY <1>1, <1>2, <1>3, <1>4, <2>1, QuietInv
  <1> QED
    BY <1>5, <1>6

LEMMA WriteInv ==
  ASSUME Inv, NEW r \in Reqs, Write(r)
  PROVE  Inv'
  <1> DEFINE c == conn[r]
             w == <<r, step[r] + 1>>
  <1>1. Serving(r) /\ c \in Conns /\ rpc[r] = "handler"
    BY ServingConn DEF Write, Serving
  <1>2. rpc' = [rpc EXCEPT ![r] = "handler"] /\ rpc'[r] = "handler"
    BY DEF Write, Inv, TypeOK
  <1>3. step' \in [Reqs -> 0 .. MaxSteps] /\ w \in Writes
    BY TransactionsAssumption DEF Write, Inv, TypeOK, Writes
  <1>4. UNCHANGED <<pool, conn, ctx, answer>> /\ LockFree(c)
    BY DEF Write
  <1>5. CASE /\ tx[c].open
             /\ tx' = [tx EXCEPT ![c] = Adding(tx[c], w)]
             /\ UNCHANGED durable
    <2>1. /\ Adding(tx[c], w) \in TxRow
          /\ Adding(tx[c], w).open
          /\ Adding(tx[c], w).pending = tx[c].pending \cup {w}
          /\ Adding(tx[c], w).snap = durable
      BY <1>1, <1>3, <1>5 DEF Inv, TypeOK, Adding, TxRow, Views
    <2>2. r \in Auth => \A v \in Adding(tx[c], w).pending : v[1] = r
      BY <1>1, <2>1 DEF Inv, OwnTransaction, InTx
    <2> HIDE DEF w
    <2> QED
      BY <1>1, <1>2, <1>3, <1>4, <1>5, <2>1, <2>2, StatementInv
  <1>6. CASE /\ ~tx[c].open
             /\ durable' = durable \cup {w}
             /\ UNCHANGED tx
    <2>1. tx[c] = NoTx
      BY <1>1, <1>6 DEF Inv, OwnTransaction
    <2>2. \A d \in Conns : tx[d].pending = {}
      BY <1>4, <2>1 DEF LockFree, NoTx
    <2>3. TypeOK'
      BY <1>2, <1>3, <1>4, <1>6, GuestsHaveNoTx DEF Inv, TypeOK, Write
    <2>4. OwnConnection' /\ OwnTransaction'
      BY <1>1, <1>2, <1>4, <1>6 DEF Inv, TypeOK, OwnConnection, OwnTransaction, Serving, InTx, Reqs
    <2>5. WritesOnCurrentState'
      BY <1>6, <2>2 DEF WritesOnCurrentState
    <2> QED
      BY <2>3, <2>4, <2>5 DEF Inv
  <1> QED
    BY <1>5, <1>6 DEF Write

LEMMA HandlerEndsInv ==
  ASSUME Inv, NEW r \in Reqs, HandlerReturns(r) \/ HandlerFails(r)
  PROVE  Inv'
  <1>1. rpc[r] = "handler" /\ UNCHANGED <<pool, tx, durable, conn, ctx, step, answer>>
    BY DEF HandlerReturns, HandlerFails
  <1>2. PICK p \in {"commit", "rollback"} : rpc' = [rpc EXCEPT ![r] = p]
    BY DEF HandlerReturns, HandlerFails
  <1>3. step' \in [Reqs -> 0 .. MaxSteps]
    BY <1>1 DEF Inv, TypeOK
  <1> QED
    BY <1>1, <1>2, <1>3, QuietInv

LEMMA InterruptedInv ==
  ASSUME Inv, NEW r \in Reqs, Interrupted(r)
  PROVE  Inv'
  <1>1. Serving(r) /\ NoTx.pending = {} /\ tx' = [tx EXCEPT ![conn[r]] = NoTx]
    BY DEF Interrupted, Serving, NoTx
  <1>2. rpc' = [rpc EXCEPT ![r] = "rollback"] /\ rpc'[r] = "rollback" /\ ~InTx(r)'
    BY DEF Interrupted, Inv, TypeOK, InTx
  <1>3. step' \in [Reqs -> 0 .. MaxSteps] /\ UNCHANGED <<pool, durable, conn, ctx, answer>>
    BY DEF Interrupted, Inv, TypeOK
  <1> QED
    BY <1>1, <1>2, <1>3, NoTxIsRow, StatementInv
\* A step that ends a request without a COMMIT.
LEMMA UncommittedInv ==
  ASSUME Inv, NEW r \in Reqs, Serving(r), NEW a \in {"ok", "err"},
         NEW t, GiveBack(conn[r], t), Harmless(t, conn[r]),
         Finish(r, a), UNCHANGED <<durable, ctx, step>>
  PROVE  Inv'
  <1>3. a \in Answers /\ durable' = durable /\ durable' \in SUBSET Writes
    BY DEF Answers, Inv, TypeOK
  <1> QED
    BY <1>3, EndInv

LEMMA BeginFailsInv ==
  ASSUME Inv, NEW r \in Reqs, BeginFails(r)
  PROVE  Inv'
  <1>1. Serving(r) /\ Finish(r, "err") /\ UNCHANGED <<durable, ctx, step>>
    BY DEF BeginFails, Serving
  <1>2. PICK t \in {tx[conn[r]], NewTx} : GiveBack(conn[r], t)
    BY DEF BeginFails
  <1>3. Harmless(t, conn[r])
    <2>1. NewTx \in TxRow /\ NewTx.open /\ NewTx.pending = {}
      BY DEF NewTx, TxRow, Views
    <2> QED
      BY <1>1, <2>1, ServingConn, HarmlessAsItIs DEF Harmless
  <1> QED
    BY <1>1, <1>2, <1>3, UncommittedInv

LEMMA SessionFailsInv ==
  ASSUME Inv, NEW r \in Reqs, SessionFails(r)
  PROVE  Inv'
  <1>1. Serving(r) /\ r \in Auth /\ tx[conn[r]].open
    BY GuestsHaveNoTx DEF SessionFails, Serving, Inv, TypeOK, OwnTransaction, InTx
  <1>2. Finish(r, "err") /\ UNCHANGED <<durable, ctx, step>> /\ conn[r] \in Conns
    BY <1>1, ServingConn DEF SessionFails
  <1> DEFINE u == Adding(tx[conn[r]], <<r, 0>>)
  <1>3. PICK t : /\ GiveBack(conn[r], t)
                 /\ \/ t \in {Seeing(tx[conn[r]]), tx[conn[r]], NoTx}
                    \/ t = u /\ LockFree(conn[r])
    BY DEF SessionFails
  <1>4. Harmless(t, conn[r])
    <2>1. LockFree(conn[r]) => Harmless(u, conn[r])
      <3>1. <<r, 0>> \in Writes
        BY TransactionsAssumption DEF Writes
      <3>2. u.open /\ u.snap = durable /\ u \in TxRow
        BY <1>1, <1>2, <3>1 DEF Adding, Inv, TypeOK, TxRow, Views
      <3> QED
        BY <3>2 DEF Harmless
    <2> HIDE DEF u
    <2> QED
      BY <1>1, <1>2, <1>3, <2>1, HarmlessAsItIs
  <1> QED
    BY <1>1, <1>2, <1>3, <1>4, UncommittedInv

LEMMA RollbackInv ==
  ASSUME Inv, NEW r \in Reqs, Rollback(r) \/ RollbackFails(r)
  PROVE  Inv'
  <1>1. Serving(r) /\ Finish(r, "err") /\ UNCHANGED <<durable, ctx, step>>
    BY DEF Rollback, RollbackFails, Serving
  <1>2. PICK t \in {tx[conn[r]], NoTx} : GiveBack(conn[r], t)
    BY DEF Rollback, RollbackFails
  <1>3. Harmless(t, conn[r])
    BY <1>1, ServingConn, HarmlessAsItIs
  <1> QED
    BY <1>1, <1>2, <1>3, UncommittedInv

LEMMA CommitInv ==
  ASSUME Inv, NEW r \in Reqs, Commit(r) \/ CommitFails(r)
  PROVE  Inv'
  <1> DEFINE c == conn[r]
  <1>1. Serving(r) /\ c \in Conns /\ UNCHANGED <<ctx, step>>
    BY ServingConn DEF Commit, CommitFails, Serving
  <1>0. PICK a \in {"ok", "err"} : Finish(r, a)
    BY DEF Commit, CommitFails
  <1>2. CASE durable' = durable \cup tx[c].pending /\ GiveBack(c, NoTx)
    <2>1. durable' = durable \cup tx[c].pending /\ GiveBack(c, NoTx)
      BY <1>2
    <2>2. durable' \in SUBSET Writes
      BY <1>1, <2>1 DEF Inv, TypeOK, TxRow
    <2>3. Harmless(NoTx, c)
      BY <1>1, HarmlessAsItIs
    <2>4. durable' = durable \/ \A d \in Conns \ {c} : tx[d].pending = {}
      BY <1>1, <2>1 DEF Inv, WritesOnCurrentState, LockFree
    <2>5. a \in Answers
      BY DEF Answers
    <2> QED
      BY <1>1, <1>0, <2>1, <2>2, <2>3, <2>4, <2>5, EndInv
  <1>3. CASE GiveBack(c, tx[c]) /\ UNCHANGED durable
    <2>1. Harmless(tx[c], c)
      BY <1>1, HarmlessAsItIs
    <2> QED
      BY <1>1, <1>0, <1>3, <2>1, UncommittedInv
  <1> QED
    BY <1>2, <1>3 DEF Commit, CommitFails

LEMMA CancelInv ==
  ASSUME Inv, NEW r \in Reqs, Cancel(r)
  PROVE  Inv'
  <1>1. UNCHANGED <<pool, tx, durable, rpc, conn, step, answer>>
    BY DEF Cancel
  <1>2. TypeOK'
    BY <1>1 DEF Cancel, Inv, TypeOK
  <1>3. OwnConnection' /\ WritesOnCurrentState' /\ OwnTransaction'
    BY <1>1 DEF Inv, OwnConnection, WritesOnCurrentState, OwnTransaction, LockFree,
                Serving, InTx
  <1> QED
    BY <1>2, <1>3 DEF Inv

LEMMA RestartInv ==
  ASSUME Inv, Restart
  PROVE  Inv'
  <1> USE DEF Restart
  <1>1. TypeOK'
    BY NoTxIsRow, GuestsHaveNoTx DEF Inv, TypeOK, Places
  <1>2. OwnConnection'
    BY DEF Inv, OwnConnection, Serving
  <1>3. WritesOnCurrentState'
    BY DEF WritesOnCurrentState, NoTx
  <1>4. OwnTransaction'
    <2>1. ASSUME NEW r \in Auth PROVE ~InTx(r)'
      BY GuestsHaveNoTx DEF Inv, OwnConnection, Serving, InTx
    <2> QED
      BY <2>1 DEF OwnTransaction
  <1> QED
    BY <1>1, <1>2, <1>3, <1>4 DEF Inv

-----------------------------------------------------------------------------
(* The invariants, for every behaviour *)

LEMMA NextInv == Inv /\ [Next]_vars => Inv'
  <1> SUFFICES ASSUME Inv, [Next]_vars PROVE Inv'
    OBVIOUS
  <1>1. ASSUME NEW r \in Reqs, Serve(r) PROVE Inv'
    BY <1>1, ConnectInv, ConnectFailsInv, BeginInv, BeginFailsInv, QuerySessionInv,
       SessionFailsInv, ReadInv, WriteInv, HandlerEndsInv, InterruptedInv,
       CommitInv, RollbackInv DEF Serve, Bracket, Handler
  <1>2. CASE UNCHANGED vars
    BY <1>2 DEF vars, Inv, TypeOK, OwnConnection, WritesOnCurrentState, OwnTransaction,
                LockFree, Serving, InTx
  <1> QED
    BY <1>1, <1>2, CancelInv, RestartInv DEF Next

THEOREM Invariance == Spec => []Inv
  BY InitInv, NextInv, PTL DEF Spec

\* Every variable keeps its type.
THEOREM TypeCorrect == Spec => []TypeOK
  <1>1. Inv => TypeOK
    BY DEF Inv
  <1> QED
    BY <1>1, Invariance, PTL

\* No two requests are ever on one connection, whatever failed or was cancelled.
THEOREM ConnectionsExclusive == Spec => []OwnConnection
  <1>1. Inv => OwnConnection
    BY DEF Inv
  <1> QED
    BY <1>1, Invariance, PTL

\* A request commits in a transaction of its own, though transactions are left
\* open on pooled connections.
THEOREM TransactionsExclusive == Spec => []OwnTransaction
  <1>1. Inv => OwnTransaction
    BY DEF Inv
  <1> QED
    BY <1>1, Invariance, PTL

-----------------------------------------------------------------------------
(* Requests with a session are atomic *)

\* A request that has sent BEGIN has read nothing before querySession, and one
\* that was answered is over.
Fresh ==
  \A r \in Auth : /\ rpc[r] = "session" => tx[conn[r]] = NewTx
                  /\ answer[r] = "ok" => rpc[r] = "done"

\* A step of one request leaves the others, and their transactions, alone.
LEMMA Frame ==
  ASSUME Inv, NEW r \in Reqs, Serve(r)
  PROVE  \A q \in Reqs \ {r} :
           /\ rpc'[q] = rpc[q] /\ conn'[q] = conn[q] /\ answer'[q] = answer[q]
           /\ Serving(q) => tx'[conn[q]] = tx[conn[q]]
  <1> SUFFICES ASSUME NEW q \in Reqs \ {r}
               PROVE  /\ rpc'[q] = rpc[q] /\ conn'[q] = conn[q] /\ answer'[q] = answer[q]
                      /\ Serving(q) => tx'[conn[q]] = tx[conn[q]]
    OBVIOUS
  <1>1. rpc'[q] = rpc[q] /\ conn'[q] = conn[q] /\ answer'[q] = answer[q]
    BY DEF Serve, Bracket, Handler, Connect, ConnectFails, Begin, BeginFails,
           QuerySession, SessionFails, Read, Write, HandlerReturns, HandlerFails,
           Interrupted, Commit, CommitFails, Rollback, RollbackFails, Finish, Inv, TypeOK
  <1>2. ASSUME Serving(q) PROVE tx'[conn[q]] = tx[conn[q]]
    <2>1. conn[q] \in Conns /\ (Serving(r) => conn[r] # conn[q])
      BY <1>2, ServingConn
    <2>2. CASE Connect(r) \/ ConnectFails(r) \/ HandlerReturns(r) \/ HandlerFails(r)
      BY <2>2 DEF Connect, ConnectFails, HandlerReturns, HandlerFails
    <2>3. CASE Begin(r) \/ QuerySession(r) \/ Read(r) \/ Write(r) \/ Interrupted(r)
      BY <2>1, <2>3 DEF Begin, QuerySession, Read, Write, Interrupted, Serving, Inv, TypeOK
    <2>4. CASE BeginFails(r) \/ SessionFails(r) \/ Commit(r) \/ CommitFails(r)
               \/ Rollback(r) \/ RollbackFails(r)
      <3>1. Serving(r) /\ \E t : GiveBack(conn[r], t)
        BY <2>4 DEF BeginFails, SessionFails, Commit, CommitFails, Rollback,
                    RollbackFails, Serving
      <3> QED
        BY <2>1, <3>1 DEF GiveBack, Inv, TypeOK
    <2> QED
      BY <2>2, <2>3, <2>4 DEF Serve, Bracket, Handler
  <1> QED
    BY <1>1, <1>2

LEMMA InitFresh == Init => Fresh
  BY GuestsHaveNoTx DEF Init, Fresh

LEMMA NextFresh == Inv /\ Fresh /\ [Next]_vars => Fresh'
  <1> SUFFICES ASSUME Inv, Fresh, [Next]_vars, NEW q \in Auth
               PROVE  /\ rpc'[q] = "session" => tx'[conn'[q]] = NewTx'
                      /\ answer'[q] = "ok" => rpc'[q] = "done"
    BY DEF Fresh
  <1>1. NewTx' = NewTx /\ q \in Reqs
    BY GuestsHaveNoTx DEF NewTx
  <1>2. ASSUME Serve(q)
        PROVE  /\ rpc'[q] = "session" => tx'[conn'[q]] = NewTx
               /\ answer'[q] = "ok" => rpc'[q] = "done"
    <2>1. CASE Begin(q)
      BY <1>1, <2>1, ServingConn DEF Begin, Serving, Inv, TypeOK, Fresh
    <2>2. CASE ~Begin(q)
      BY <1>1, <1>2, <2>2
         DEF Serve, Bracket, Handler, Connect, ConnectFails, BeginFails, QuerySession,
         SessionFails, Read, Write, HandlerReturns, HandlerFails, Interrupted, Commit,
         CommitFails, Rollback, RollbackFails, Finish, Inv, TypeOK, Fresh
    <2> QED
      BY <2>1, <2>2
  <1>3. ASSUME NEW r \in Reqs \ {q}, Serve(r)
        PROVE  /\ rpc'[q] = "session" => tx'[conn'[q]] = NewTx
               /\ answer'[q] = "ok" => rpc'[q] = "done"
    BY <1>1, <1>3, Frame DEF Fresh, Serving
  <1>4. CASE Restart
    BY <1>1, <1>4 DEF Restart, Fresh, Inv, OwnConnection, Serving
  <1>5. CASE UNCHANGED vars \/ \E r \in Reqs : Cancel(r)
    BY <1>1, <1>5 DEF vars, Cancel, Fresh
  <1> QED
    BY <1>1, <1>2, <1>3, <1>4, <1>5 DEF Next


THEOREM InitAtomic == Init => Atomic!Init
  BY GuestsHaveNoTx DEF Init, Atomic!Init, SeenBy, IssuedBy, OutcomeOf, InTx

\* A step of another request changes nothing of what AtomicRequests sees of q.
LEMMA Unseen ==
  ASSUME Inv, NEW r \in Reqs, Serve(r), NEW q \in Auth, q # r
  PROVE  UNCHANGED <<SeenBy(q), IssuedBy(q), OutcomeOf(q)>>
  <1>1. q \in Reqs \ {r} /\ (InTx(q) => Serving(q))
    BY GuestsHaveNoTx DEF InTx, Serving
  <1>2. /\ rpc'[q] = rpc[q] /\ conn'[q] = conn[q] /\ answer'[q] = answer[q]
        /\ InTx(q) => tx'[conn[q]] = tx[conn[q]]
    BY <1>1, Frame
  <1> QED
    BY <1>2 DEF SeenBy, IssuedBy, OutcomeOf, InTx

\* Nothing that AtomicRequests sees of a request changes.
Same(q) == UNCHANGED <<SeenBy(q), IssuedBy(q), OutcomeOf(q)>>

\* What a step of a request with a session is to AtomicRequests.
Looks(r) ==
  /\ OutcomeOf(r) = "running" /\ SeenBy(r) = None
  /\ SeenBy(r)' = durable
  /\ UNCHANGED <<durable, IssuedBy(r), OutcomeOf(r)>>
Issues(r, w) ==
  /\ OutcomeOf(r) = "running" /\ SeenBy(r) \in {None, durable} /\ w[1] = r
  /\ SeenBy(r)' = durable /\ IssuedBy(r)' = IssuedBy(r) \cup {w}
  /\ UNCHANGED <<durable, OutcomeOf(r)>>
TakesEffect(r, told) ==
  /\ OutcomeOf(r) = "running" /\ (IssuedBy(r) = {} \/ SeenBy(r) = durable)
  /\ durable' = durable \cup IssuedBy(r)
  /\ told = "failed" => ctx[r] = "cancelled"
  /\ OutcomeOf(r)' = told /\ IssuedBy(r)' = {} /\ SeenBy(r)' = None
Fails(r) ==
  /\ OutcomeOf(r) = "running"
  /\ OutcomeOf(r)' = "failed" /\ IssuedBy(r)' = {} /\ SeenBy(r)' = None
  /\ UNCHANGED durable

LEMMA AuthStep ==
  ASSUME Inv, Fresh, NEW r \in Auth, Serve(r)
  PROVE  \/ Same(r) /\ UNCHANGED durable
         \/ Looks(r)
         \/ \E w \in Writes : Issues(r, w)
         \/ \E told \in {"ok", "failed"} : TakesEffect(r, told)
         \/ Fails(r)
  <1> USE DEF SeenBy, IssuedBy, OutcomeOf, InTx
  <1>1. r \in Reqs /\ (Serving(r) => conn[r] \in Conns)
    BY GuestsHaveNoTx, ServingConn
  <1>2. /\ tx \in [Conns -> TxRow] /\ rpc \in [Reqs -> Places]
        /\ conn \in [Reqs -> Conns \cup {None}] /\ answer \in [Reqs -> Answers]
    BY DEF Inv, TypeOK
  <1>3. answer[r] = "ok" => rpc[r] = "done"
    BY DEF Fresh
  <1>4. ASSUME InTx(r) PROVE tx[conn[r]].open
    BY <1>4 DEF Inv, OwnTransaction
  <1>5. CASE Connect(r) \/ HandlerReturns(r)
    <2>1. Same(r) /\ UNCHANGED durable
      BY <1>1, <1>2, <1>5 DEF Connect, HandlerReturns, Same
    <2> QED
      BY <2>1
  <1>6. CASE Begin(r)
    <2>1. conn[r] \in Conns
      BY <1>1, <1>6 DEF Begin, Serving
    <2>2. Same(r) /\ UNCHANGED durable
      BY <1>1, <1>2, <1>6, <2>1 DEF Begin, Same, NewTx
    <2> QED
      BY <2>2
  <1>7. CASE ConnectFails(r) \/ BeginFails(r) \/ SessionFails(r)
    <2>1. Fails(r)
      BY <1>1, <1>2, <1>3, <1>7 DEF ConnectFails, BeginFails, SessionFails, Finish, Fails
    <2> QED
      BY <2>1
  <1>8. CASE HandlerFails(r) \/ Interrupted(r)
    <2>1. Fails(r)
      BY <1>1, <1>2, <1>3, <1>8 DEF HandlerFails, Interrupted, Fails
    <2> QED
      BY <2>1
  <1>9. CASE QuerySession(r)
    <2>1. conn[r] \in Conns /\ rpc[r] = "session" /\ tx[conn[r]] = NewTx
      BY <1>1, <1>9 DEF QuerySession, Serving, Fresh
    <2>2. rpc'[r] = "handler" /\ conn' = conn /\ answer' = answer /\ durable' = durable
      BY <1>1, <1>2, <1>9 DEF QuerySession
    <2>3. CASE tx' = [tx EXCEPT ![conn[r]] = Seeing(tx[conn[r]])]
      <3>1. Looks(r)
        BY <1>2, <1>3, <2>1, <2>2, <2>3 DEF Looks, Seeing, NewTx
      <3> QED
        BY <3>1
    <2>4. CASE tx' = [tx EXCEPT ![conn[r]] = Adding(tx[conn[r]], <<r, 0>>)]
      <3>1. Issues(r, <<r, 0>>) /\ <<r, 0>> \in Writes
        BY <1>1, <1>2, <1>3, <2>1, <2>2, <2>4, TransactionsAssumption
           DEF Issues, Adding, NewTx, Writes
      <3> QED
        BY <3>1
    <2> QED
      BY <1>9, <2>3, <2>4 DEF QuerySession
  <1>10. CASE Read(r)
    <2>1. conn[r] \in Conns /\ rpc[r] = "handler" /\ tx[conn[r]].open
      BY <1>1, <1>4, <1>10 DEF Read, Serving
    <2>2. rpc' = rpc /\ conn' = conn /\ answer' = answer /\ durable' = durable
      BY <1>10 DEF Read
    <2>3. CASE tx[conn[r]].snap = None
      <3>1. tx' = [tx EXCEPT ![conn[r]] = Seeing(tx[conn[r]])]
        BY <1>10, <2>1, <2>3 DEF Read
      <3>2. Looks(r)
        BY <1>2, <1>3, <2>1, <2>2, <2>3, <3>1 DEF Looks, Seeing
      <3> QED
        BY <3>2
    <2>4. CASE tx[conn[r]].snap # None
      <3>1. Same(r)
        BY <1>10, <2>1, <2>2, <2>4 DEF Read, Same
      <3> QED
        BY <2>2, <3>1
    <2> QED
      BY <2>3, <2>4
  <1>11. CASE Write(r)
    <2> DEFINE w == <<r, step[r] + 1>>
    <2>1. conn[r] \in Conns /\ rpc[r] = "handler" /\ tx[conn[r]].open
      BY <1>1, <1>4, <1>11 DEF Write, Serving
    <2>2. /\ rpc' = rpc /\ conn' = conn /\ answer' = answer /\ durable' = durable
          /\ tx' = [tx EXCEPT ![conn[r]] = Adding(tx[conn[r]], w)]
          /\ tx[conn[r]].snap \in {None, durable}
      BY <1>11, <2>1 DEF Write, Current
    <2>3. w \in Writes /\ w[1] = r
      BY <1>1, <1>11, TransactionsAssumption DEF Write, Writes, Inv, TypeOK
    <2> HIDE DEF w
    <2>4. Issues(r, w)
      BY <1>2, <1>3, <2>1, <2>2, <2>3 DEF Issues, Adding
    <2> QED
      BY <2>3, <2>4
  <1>12. CASE Commit(r) \/ CommitFails(r)
    <2>1. conn[r] \in Conns /\ rpc[r] = "commit"
      BY <1>1, <1>12 DEF Commit, CommitFails, Serving
    <2>2. tx[conn[r]].pending = {} \/ tx[conn[r]].snap = durable
      BY <2>1 DEF Inv, WritesOnCurrentState
    <2>3. CASE Commit(r)
      <3>1. TakesEffect(r, "ok")
        BY <1>1, <1>2, <1>3, <2>1, <2>2, <2>3 DEF Commit, Finish, TakesEffect
      <3> QED
        BY <3>1
    <2>4. CASE CommitFails(r) /\ durable' = durable
      <3>1. Fails(r)
        BY <1>1, <1>2, <1>3, <2>4 DEF CommitFails, Finish, Fails
      <3> QED
        BY <3>1
    <2>5. CASE CommitFails(r) /\ durable' # durable
      <3>1. TakesEffect(r, "failed")
        BY <1>1, <1>2, <1>3, <2>1, <2>2, <2>5 DEF CommitFails, Finish, TakesEffect
      <3> QED
        BY <3>1
    <2> QED
      BY <1>12, <2>3, <2>4, <2>5
  <1>13. CASE Rollback(r) \/ RollbackFails(r)
    <2>1. Same(r) /\ UNCHANGED durable
      BY <1>1, <1>2, <1>3, <1>13 DEF Rollback, RollbackFails, Finish, Same
    <2> QED
      BY <2>1
  <1> QED
    BY <1>5, <1>6, <1>7, <1>8, <1>9, <1>10, <1>11, <1>12, <1>13 DEF Serve, Bracket, Handler

LEMMA ServesInContext ==
  ASSUME NEW r \in Reqs, Serve(r)
  PROVE  ctx' = ctx
  BY DEF Serve, Bracket, Handler, Connect, ConnectFails, Begin, BeginFails, QuerySession,
         SessionFails, Read, Write, HandlerReturns, HandlerFails, Interrupted, Commit,
         CommitFails, Rollback, RollbackFails

LEMMA AuthStepAtomic ==
  ASSUME Inv, Fresh, NEW r \in Auth, Serve(r)
  PROVE  Atomic!Next \/ UNCHANGED Atomic!vars
  <1>1. \A q \in Auth : q # r => UNCHANGED <<SeenBy(q), IssuedBy(q), OutcomeOf(q)>>
    BY GuestsHaveNoTx, Unseen
  <1>0. ctx' = ctx
    BY GuestsHaveNoTx, ServesInContext
  <1>2. CASE Same(r) /\ UNCHANGED durable
    BY <1>0, <1>1, <1>2 DEF Same, Atomic!vars
  <1>3. CASE Looks(r)
    <2>1. Atomic!Look(r)
      BY <1>0, <1>1, <1>3 DEF Looks, Atomic!Look
    <2> QED
      BY <2>1 DEF Atomic!Next
  <1>4. CASE \E w \in Writes : Issues(r, w)
    <2>1. \E w \in Writes : Atomic!Issue(r, w)
      BY <1>0, <1>1, <1>4 DEF Issues, Atomic!Issue, Atomic!Own
    <2> QED
      BY <2>1 DEF Atomic!Next
  <1>5. CASE \E told \in {"ok", "failed"} : TakesEffect(r, told)
    <2>1. PICK told \in {"ok", "failed"} : TakesEffect(r, told)
      BY <1>5
    <2>2. Atomic!TakeEffect(r, told)
      BY <1>0, <1>1, <2>1 DEF TakesEffect, Atomic!TakeEffect
    <2> QED
      BY <2>2 DEF Atomic!Next
  <1>6. CASE Fails(r)
    <2>1. Atomic!Fail({r})
      BY <1>0, <1>1, <1>6 DEF Fails, Atomic!Fail
    <2> QED
      BY <2>1 DEF Atomic!Next
  <1> QED
    BY <1>2, <1>3, <1>4, <1>5, <1>6, AuthStep

LEMMA GuestStepAtomic ==
  ASSUME Inv, NEW r \in Guests, Serve(r)
  PROVE  Atomic!Next \/ UNCHANGED Atomic!vars
  <1>1. r \in Reqs /\ r \notin Auth /\ (Serving(r) => conn[r] \in Conns)
    BY GuestsHaveNoTx, ServingConn
  <1>2. \A q \in Auth : UNCHANGED <<SeenBy(q), IssuedBy(q), OutcomeOf(q)>>
    BY <1>1, Unseen
  <1>0. ctx' = ctx
    BY <1>1, ServesInContext
  <1>3. CASE durable' = durable
    BY <1>0, <1>2, <1>3 DEF Atomic!vars
  <1>4. CASE durable' # durable
    <2> DEFINE w == <<r, step[r] + 1>>
    <2>1. Write(r) /\ ~tx[conn[r]].open /\ durable' = durable \cup {w} /\ LockFree(conn[r])
      BY <1>1, <1>4
         DEF Serve, Bracket, Handler, Connect, ConnectFails, Begin, BeginFails, QuerySession,
         SessionFails, Read, Write, HandlerReturns, HandlerFails, Interrupted, Commit,
         CommitFails, Rollback, RollbackFails
    <2>2. w \in Writes /\ w[1] \notin Auth
      BY <1>1, <2>1, TransactionsAssumption DEF Write, Writes, Inv, TypeOK
    <2>3. \A q \in Auth : IssuedBy(q) = {}
      <3>1. conn[r] \in Conns
        BY <1>1, <2>1 DEF Write, Serving
      <3>2. \A d \in Conns : tx[d].pending = {}
        BY <2>1, <3>1 DEF LockFree, Inv, OwnTransaction, NoTx
      <3>3. \A q \in Auth : InTx(q) => conn[q] \in Conns
        BY GuestsHaveNoTx, ServingConn DEF InTx, Serving
      <3> QED
        BY <3>2, <3>3 DEF IssuedBy
    <2>4. Atomic!Other(w)
      <3> HIDE DEF w
      <3> QED
        BY <1>0, <1>2, <2>1, <2>2, <2>3 DEF Atomic!Other
    <2> QED
      BY <2>2, <2>4 DEF Atomic!Next
  <1> QED
    BY <1>3, <1>4

\* When the server stops, all the requests that are running fail.
LEMMA RestartAtomic ==
  ASSUME Inv, Fresh, Restart
  PROVE  Atomic!Next \/ UNCHANGED Atomic!vars
  <1> DEFINE rs == {r \in Auth : conn[r] # None /\ OutcomeOf(r) = "running"}
  <1>1. ASSUME NEW r \in Auth
        PROVE  /\ OutcomeOf(r)' = IF r \in rs THEN "failed" ELSE OutcomeOf(r)
               /\ IssuedBy(r)' = IF r \in rs THEN {} ELSE IssuedBy(r)
               /\ SeenBy(r)' = IF r \in rs THEN None ELSE SeenBy(r)
    BY <1>1, GuestsHaveNoTx DEF Restart, Fresh, Inv, OwnConnection, Serving,
                                OutcomeOf, IssuedBy, SeenBy, InTx
  <1>2. rs \in SUBSET Auth /\ \A r \in rs : OutcomeOf(r) = "running"
    OBVIOUS
  <1>3. durable' = durable /\ ctx' = ctx
    BY DEF Restart
  <1>4. Atomic!Fail(rs)
    <2> HIDE DEF rs
    <2> QED
      BY <1>1, <1>2, <1>3 DEF Atomic!Fail
  <1> QED
    BY <1>2, <1>4 DEF Atomic!Next

\* A client hangs up: only that of a request with a session counts.
LEMMA CancelAtomic ==
  ASSUME Inv, NEW r \in Reqs, Cancel(r)
  PROVE  Atomic!Next \/ UNCHANGED Atomic!vars
  <1>1. /\ \A q \in Auth : UNCHANGED <<SeenBy(q), IssuedBy(q), OutcomeOf(q)>>
        /\ durable' = durable /\ ctx[r] = "live"
        /\ ctx' = [ctx EXCEPT ![r] = "cancelled"] /\ ctx \in [Reqs -> {"live", "cancelled"}]
    BY DEF Cancel, SeenBy, IssuedBy, OutcomeOf, InTx, Inv, TypeOK
  <1>2. CASE r \in Auth
    <2>1. Atomic!HangUp(r)
      BY <1>1, <1>2, GuestsHaveNoTx DEF Atomic!HangUp
    <2> QED
      BY <1>2, <2>1 DEF Atomic!Next
  <1>3. CASE r \notin Auth
    <2>1. [q \in Auth |-> ctx[q] = "cancelled"]' = [q \in Auth |-> ctx[q] = "cancelled"]
      BY <1>1, <1>3, GuestsHaveNoTx
    <2> QED
      BY <1>1, <2>1 DEF Atomic!vars
  <1> QED
    BY <1>2, <1>3

LEMMA NextAtomic == Inv /\ Fresh /\ [Next]_vars => [Atomic!Next]_(Atomic!vars)
  <1> SUFFICES ASSUME Inv, Fresh, [Next]_vars
               PROVE  Atomic!Next \/ UNCHANGED Atomic!vars
    OBVIOUS
  <1>1. ASSUME NEW r \in Reqs, Serve(r) PROVE Atomic!Next \/ UNCHANGED Atomic!vars
    BY <1>1, GuestsHaveNoTx, AuthStepAtomic, GuestStepAtomic
  <1>2. CASE UNCHANGED vars
    BY <1>2 DEF vars, Atomic!vars, SeenBy, IssuedBy, OutcomeOf, InTx
  <1>3. ASSUME NEW r \in Reqs, Cancel(r) PROVE Atomic!Next \/ UNCHANGED Atomic!vars
    BY <1>3, CancelAtomic
  <1> QED
    BY <1>1, <1>2, <1>3, RestartAtomic DEF Next

\* Requests with a session are atomic: the pool of connections, with the
\* transactions left open on it, implements AtomicRequests.
THEOREM Refinement == Spec => AtomicSpec
  <1>1. Spec => [](Inv /\ Fresh)
    BY InitInv, InitFresh, NextInv, NextFresh, PTL DEF Spec
  <1> QED
    BY <1>1, InitAtomic, NextAtomic, PTL DEF Spec, AtomicSpec, Atomic!Spec
=============================================================================
