----------------------------- MODULE Derivation -----------------------------
(***************************************************************************)
(* What the mapping database promises: a forest of derived capabilities.   *)
(* Revoking a capability withdraws everything derived from it, directly or *)
(* not, and nothing else; only a capability without derived ones can be    *)
(* deleted.                                                                *)
(***************************************************************************)
EXTENDS Integers

CONSTANTS
  Places,    \* where a capability can be recorded
  NoParent   \* the parent of an original capability

VARIABLE
  parentOf   \* parentOf[c]: what c was derived from, for the recorded c

Init == parentOf = [c \in {} |-> NoParent]

Recorded == DOMAIN parentOf

Derive(c, p) ==
  /\ c \notin Recorded
  /\ p \in Recorded \cup {NoParent}
  /\ parentOf' = [d \in Recorded \cup {c} |-> IF d = c THEN p ELSE parentOf[d]]

\* The proper descendants of c: the least set that holds what was derived from
\* c and what was derived from a member.
Descendants(c) ==
  CHOOSE S \in SUBSET Recorded :
    LET closed(T) == \A d \in Recorded : parentOf[d] \in T \cup {c} => d \in T
    IN  closed(S) /\ \A T \in SUBSET S : closed(T) => T = S

Revoke(c) ==
  /\ c \in Recorded
  /\ parentOf' = [d \in Recorded \ Descendants(c) |-> parentOf[d]]

Delete(c) ==
  /\ c \in Recorded
  /\ \A d \in Recorded : parentOf[d] # c
  /\ parentOf' = [d \in Recorded \ {c} |-> parentOf[d]]

Next ==
  \/ \E c \in Places, p \in Places \cup {NoParent} : Derive(c, p)
  \/ \E c \in Places : Revoke(c) \/ Delete(c)

Spec == Init /\ [][Next]_parentOf
=============================================================================
