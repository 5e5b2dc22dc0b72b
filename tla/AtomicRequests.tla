--------------------------- MODULE AtomicRequests ---------------------------
(***************************************************************************)
(* What BeginTx, Commit and Rollback promise to a request with a session:   *)
(* everything it writes takes effect at once when it succeeds, on top of    *)
(* exactly the state that it has read, or nothing of it ever does.  Only a  *)
(* client who has hung up may be told that a request failed which did take  *)
(* effect.  Writes made by others, without a transaction, may come between. *)
(***************************************************************************)
EXTENDS Integers

CONSTANTS
  Auth,        \* the requests that carry a session
  Writes,      \* the writes of everyone: pairs <<request, statement>>
  Unread       \* the state seen by a request that has read nothing yet

VARIABLES
  durable,     \* the writes that have taken effect
  hungUp,      \* whether the client of a request has hung up
  seen,        \* what a running request read: the durable writes at its first read
  issued,      \* what a running request has written so far
  outcome      \* "running", "ok" or "failed"

vars == <<durable, hungUp, seen, issued, outcome>>

Own(r) == {w \in Writes : w[1] = r}

Init ==
  /\ durable = {}
  /\ hungUp = [r \in Auth |-> FALSE]
  /\ seen = [r \in Auth |-> Unread]
  /\ issued = [r \in Auth |-> {}]
  /\ outcome = [r \in Auth |-> "running"]

\* The first statement of a request fixes what it sees.
Look(r) ==
  /\ outcome[r] = "running" /\ seen[r] = Unread
  /\ seen' = [seen EXCEPT ![r] = durable]
  /\ UNCHANGED <<durable, hungUp, issued, outcome>>

\* A write of a request whose view is still the current state, which it may
\* take with the write itself.
Issue(r, w) ==
  /\ outcome[r] = "running" /\ seen[r] \in {Unread, durable}
  /\ w \in Own(r)
  /\ seen' = [seen EXCEPT ![r] = durable]
  /\ issued' = [issued EXCEPT ![r] = @ \cup {w}]
  /\ UNCHANGED <<durable, hungUp, outcome>>

\* All of the writes take effect together, and only on the state that was read.
TakeEffect(r, told) ==
  /\ outcome[r] = "running"
  /\ issued[r] = {} \/ seen[r] = durable
  /\ durable' = durable \cup issued[r]
  /\ told = "failed" => hungUp[r]
  /\ outcome' = [outcome EXCEPT ![r] = told]
  /\ issued' = [issued EXCEPT ![r] = {}]
  /\ seen' = [seen EXCEPT ![r] = Unread]
  /\ UNCHANGED hungUp

\* Some requests fail (all of them when the server stops): none of their writes
\* takes effect.
Fail(rs) ==
  /\ \A r \in rs : outcome[r] = "running"
  /\ outcome' = [r \in Auth |-> IF r \in rs THEN "failed" ELSE outcome[r]]
  /\ issued' = [r \in Auth |-> IF r \in rs THEN {} ELSE issued[r]]
  /\ seen' = [r \in Auth |-> IF r \in rs THEN Unread ELSE seen[r]]
  /\ UNCHANGED <<durable, hungUp>>

HangUp(r) ==
  /\ ~hungUp[r]
  /\ hungUp' = [hungUp EXCEPT ![r] = TRUE]
  /\ UNCHANGED <<durable, seen, issued, outcome>>

\* A write that belongs to no request with a session.
Other(w) ==
  /\ w \in Writes /\ w[1] \notin Auth
  /\ \A r \in Auth : issued[r] = {}
  /\ durable' = durable \cup {w}
  /\ UNCHANGED <<hungUp, seen, issued, outcome>>

Next ==
  \/ \E r \in Auth :
       \/ Look(r) \/ HangUp(r)
       \/ \E w \in Writes : Issue(r, w)
       \/ \E told \in {"ok", "failed"} : TakeEffect(r, told)
  \/ \E rs \in SUBSET Auth : Fail(rs)
  \/ \E w \in Writes : Other(w)

Spec == Init /\ [][Next]_vars
=============================================================================
