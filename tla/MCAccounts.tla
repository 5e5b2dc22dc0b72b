----------------------------- MODULE MCAccounts -----------------------------
(* Small instances of Accounts. *)
EXTENDS Accounts, TLC

CONSTANTS owner, a, b, p1, p2, g1, g2

\* Requested uses: unlimited, one and two.
UsesOne   == {1}
UsesMixed == {-1, 1, 2}

\* The names other than the owner's, the passwords and the guests are
\* interchangeable: no action or property tells them apart.
Symmetric ==
  Permutations(Names \ {Owner}) \cup Permutations(Passwords) \cup Permutations(Guests)

-----------------------------------------------------------------------------
(* The state space is cut to states that are ordinary in all but one respect: *)
(* a behaviour stops where two of the actors below would be at work at once.  *)

Busy     == {g \in Guests : pc[g] # "idle"}
Accounts == {u \in Names : users[u] # None}
Known    == {users[u].pass : u \in Accounts} \cup {req[g].pass : g \in Busy}
            \cup {openedWith[i] : i \in 1 .. opened}

\* Two guests sign up at once.
TwoGuests ==
  /\ now = 0 /\ opened <= 1
  /\ Cardinality(Accounts) <= 2 /\ Cardinality(Known) <= 1
  /\ \A g \in Busy : req[g].fk

\* Otherwise there is at most one guest, and one use per token.
OneGuest ==
  Cardinality(Busy) <= 1 /\ \A t \in 1 .. minted : uses[t].granted = 1

\* The clock runs; guests only sign in.
Clock ==
  /\ OneGuest /\ aborts = 0 /\ Cardinality(Accounts) <= 2 /\ Cardinality(Known) <= 1
  /\ now > 0 => \A g \in Busy : req[g].fk /\ req[g].token = None

\* Passwords change.
ChangedPasswords == OneGuest /\ aborts = 0 /\ Cardinality(Accounts) <= 2 /\ now = 0

\* Three accounts promote and delete each other.
Ranks ==
  OneGuest /\ now = 0 /\ Cardinality(Known) <= 1 /\ \A g \in Busy : req[g].fk

OneAtATime == TwoGuests \/ Clock \/ ChangedPasswords \/ Ranks
=============================================================================
