------------------------------- MODULE MCBatch -------------------------------
(* Small instances of Batch. *)
EXTENDS Batch, TLC

CONSTANTS me, other, t, p1, p2

MCRanks == [u \in {other} |-> PermissionTrusted]

\* Posts come in no order.
Symmetric == Permutations(Ids)

\* A form picks one post, the permission of an administrator or none, or a tag, or
\* takes a tag back.  One that says nothing new is one that was sent before.
MCForms ==
  LET empty == [ids |-> {}, perm |-> None, tags |-> {}, untags |-> {}] IN
    {[empty EXCEPT !.perm = PermissionAdministrator], [empty EXCEPT !.perm = Skip]}
    \cup {[empty EXCEPT !.ids = {i}] : i \in Ids}
    \cup {[empty EXCEPT !.tags = {w}] : w \in Word}
    \cup {[empty EXCEPT !.untags = {[do |-> "tag", tag |-> t]}]}

\* Bound: a batch is of the permission and one tag, or of tags alone, and what is sent
\* with it is posts.
TwoWorks ==
  job # None =>
    /\ job.state.perm = Skip \/ Cardinality(job.state.tags) <= 1
    /\ job.state.perm = Current.perm /\ job.state.tags = Current.tags
=============================================================================
