------------------------------ MODULE MCPosts ------------------------------
(* Small instances of Posts. *)
EXTENDS Posts, TLC

CONSTANTS owner, a, t1, r1, r2

\* No action or property tells the requests apart.
Symmetric == Permutations(Requests)

\* Bound of the run: tags, thumbnails and a second post come one at a time, since
\* no property relates them.
Tagging  == \E i \in PostIds : tags[i] # {}
Shown    == thumbs # {} \/ \E r \in Requests : pc[r] \in {"stat", "get", "decode", "put"}
TwoPosts == made > 1
OneAtATime == Cardinality({b \in 1 .. 3 : <<Tagging, Shown, TwoPosts>>[b]}) < 2
=============================================================================
