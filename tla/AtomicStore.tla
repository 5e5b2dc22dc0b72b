---------------------------- MODULE AtomicStore ----------------------------
(***************************************************************************)
(* What an upload promises to everyone who looks into the file directory:   *)
(* a file appears under its name at once, with all of its content and only  *)
(* if it may be stored, or it never does; a file that was turned down does  *)
(* not appear later, and one that was removed does not come back.           *)
(***************************************************************************)
EXTENDS Naturals

CONSTANTS
  Files,       \* the files that are sent
  Contents,    \* the contents that may be stored
  None

VARIABLES
  dir,         \* the content of a file under its name, or None
  fate         \* "sent", "stored", "refused" or "removed"

vars == <<dir, fate>>

Init ==
  /\ dir = [f \in Files |-> None]
  /\ fate = [f \in Files |-> "sent"]

Store(f) ==
  /\ fate[f] = "sent"
  /\ \E c \in Contents : dir' = [dir EXCEPT ![f] = c]
  /\ fate' = [fate EXCEPT ![f] = "stored"]

\* One or more files are turned down together: an upload that is refused, or a
\* server that stops.
Refuse(fs) ==
  /\ \A f \in fs : fate[f] = "sent"
  /\ fate' = [f \in Files |-> IF f \in fs THEN "refused" ELSE fate[f]]
  /\ UNCHANGED dir

Remove(f) ==
  /\ fate[f] = "stored"
  /\ dir' = [dir EXCEPT ![f] = None]
  /\ fate' = [fate EXCEPT ![f] = "removed"]

Next ==
  \/ \E f \in Files : Store(f) \/ Remove(f)
  \/ \E fs \in SUBSET Files : Refuse(fs)

Spec == Init /\ [][Next]_vars
=============================================================================
