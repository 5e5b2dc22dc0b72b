------------------------------ MODULE MCSearch ------------------------------
(* Small instances of Search. *)
EXTENDS Search

CONSTANTS owner, a, guest, lower, upper, other, bad

\* Two spellings of one tag, and another tag.
MCFold == [t \in {lower, upper, other, bad} |-> IF t = upper THEN lower ELSE t]
MCSize == [i \in 1 .. 3 |-> 2 * i + 1]

MCWalks == {<<>>, <<Tag(lower)>>, <<Mention(a)>>}
MCQueries == MCWalks \cup
  {<<Tag(bad)>>, <<Mention(guest)>>, <<Tag(upper)>>,
   <<Tag(lower), Tag(other)>>, <<Tag(other), Tag(other)>>,
   <<Mention(a), Tag(lower)>>, <<Mention(a), Mention(owner)>>,
   <<Mention(guest), Mention(a)>>, <<Mention(a), Mention(guest)>>,
   <<Tag(lower), Tag(upper), Tag(other)>>}
=============================================================================
