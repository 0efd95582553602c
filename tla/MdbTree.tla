------------------------------ MODULE MdbTree -------------------------------
(***************************************************************************)
(* The mapping database under callers that name a recorded capability, or  *)
(* none, as the parent of the one they insert: the tests do, and so does   *)
(* handle_invoke as long as node 0 is recorded.  A call that returns an    *)
(* error changes nothing.                                                  *)
(***************************************************************************)
EXTENDS Mdb

VARIABLE mdb    \* g_mdb

Init == mdb = mdb_init

Insert(p, c) ==
  /\ p \in Valid(mdb) \cup {NIL}
  /\ CanInsert(mdb)
  /\ mdb' = mdb_insert(mdb, p, c)

Revoke(i) ==
  /\ mdb.nodes[i].valid
  /\ mdb' = mdb_revoke(mdb, i)

Delete(i) ==
  /\ CanDelete(mdb, i)
  /\ mdb' = mdb_delete(mdb, i)

Next ==
  \/ \E p \in Idx \cup {NIL}, c \in Cptrs : Insert(p, c)
  \/ \E i \in Idx : Revoke(i) \/ Delete(i)

Spec == Init /\ [][Next]_mdb

-----------------------------------------------------------------------------

\* The child lists and the parent links describe the same forest: the list of
\* a recorded node holds exactly the recorded nodes whose parent it is, no node
\* is in two lists, and the recursion of mdb_revoke ends.
ListsMatchParents ==
  \A i \in Valid(mdb) :
    /\ Children(mdb, i) = {j \in Valid(mdb) : mdb.nodes[j].parent = i}
    /\ mdb.nodes[i].parent \in Valid(mdb) \cup {NIL}
    /\ ~Endless(mdb, i)

\* count and free_head keep up with the table: mdb_insert reports ERR_NO_MEM
\* only when every node is in use.
RoomIsFound ==
  /\ mdb.count = Cardinality(Valid(mdb))
  /\ mdb.count < MaxNodes => CanInsert(mdb)

\* mdb_is_descendant, which follows the parents, agrees with the set that
\* mdb_revoke, which follows the child lists, withdraws.
DescendantAgrees ==
  \A a, d \in Valid(mdb) :
    mdb_is_descendant(mdb, a, d) <=> d = a \/ d \in Below(mdb, a)

D == INSTANCE Derivation WITH
       Places <- Idx, NoParent <- NIL,
       parentOf <- [i \in Valid(mdb) |-> mdb.nodes[i].parent]

\* The linked table implements the derivation forest: revoking withdraws the
\* descendants of a node and nothing else, whatever was inserted, revoked and
\* deleted before.
RefinesDerivation == D!Spec
=============================================================================
