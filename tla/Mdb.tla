-------------------------------- MODULE Mdb ---------------------------------
(***************************************************************************)
(* The mapping database of kernel/src/revoke.c: a table of nodes linked    *)
(* into derivation trees by parent, first_child and next_sibling.  Each    *)
(* function is an operator on the table, a record m of nodes, count and    *)
(* free_head.  The fields cnode_id and slot of a node are never assigned   *)
(* and stay 0; the stored capability is written and cleared, never read.   *)
(***************************************************************************)
EXTENDS Integers, FiniteSets, FiniteSetsExt

CONSTANTS
  MaxNodes,   \* MAX_MDB_NODES (1024 in the code)
  Cptrs       \* the values of cptr in the instance

ASSUME MdbAssumption ==
  /\ MaxNodes \in Nat \ {0}
  /\ Cptrs \subseteq Nat

Idx == 0 .. (MaxNodes - 1)

\* 0xFFFF: an index outside the table
NIL == MaxNodes

NodeRec ==
  [ valid : BOOLEAN, cptr : Cptrs \cup {0}, parent : Idx \cup {NIL},
    first_child : Idx \cup {NIL}, next_sibling : Idx \cup {NIL} ]

MdbRec == [ nodes : [Idx -> NodeRec], count : 0 .. MaxNodes, free_head : 0 .. MaxNodes ]

\* mdb_init: only parent is set to NIL
mdb_init ==
  [ nodes |-> [i \in Idx |-> [valid |-> FALSE, cptr |-> 0, parent |-> NIL,
                             first_child |-> 0, next_sibling |-> 0]],
    count |-> 0, free_head |-> 0 ]

Valid(m) == {i \in Idx : m.nodes[i].valid}

-----------------------------------------------------------------------------

\* The search of mdb_insert starts at free_head.
Free(m) == {i \in m.free_head .. (MaxNodes - 1) : ~m.nodes[i].valid}

\* Otherwise mdb_insert returns ERR_NO_MEM and changes nothing.
CanInsert(m) == m.count < MaxNodes /\ Free(m) # {}

NewIdx(m) == Min(Free(m))

\* The node is marked valid before the parent is looked at, so a node inserted
\* below its own index becomes its own child.
mdb_insert(m, parent_idx, cptr) ==
  LET idx   == NewIdx(m)
      fresh == [m.nodes EXCEPT ![idx] =
                  [valid |-> TRUE, cptr |-> cptr, parent |-> parent_idx,
                   first_child |-> NIL, next_sibling |-> NIL]]
      linked == [fresh EXCEPT ![idx].next_sibling = fresh[parent_idx].first_child,
                              ![parent_idx].first_child = idx]
  IN  [ nodes |-> IF parent_idx \in Idx /\ fresh[parent_idx].valid THEN linked ELSE fresh,
        count |-> m.count + 1,
        free_head |-> IF idx = m.free_head THEN idx + 1 ELSE m.free_head ]

-----------------------------------------------------------------------------

\* The nodes that following links from the nodes of S reaches, S included: what
\* every set has that holds S and is closed under links.
Closure(S, links) ==
  LET closed == {T \in SUBSET Idx : /\ S \cap Idx \subseteq T
                                    /\ \A j \in T : links[j] \cap Idx \subseteq T}
  IN  {i \in Idx : \A T \in closed : i \in T}

\* The child list of node i, in no particular order.
Children(m, i) ==
  Closure({m.nodes[i].first_child}, [j \in Idx |-> {m.nodes[j].next_sibling}])

Down(m) == [j \in Idx |-> {m.nodes[j].first_child, m.nodes[j].next_sibling}]

\* The nodes that the recursion of mdb_revoke visits from the children of i.
Below(m, i) == Closure({m.nodes[i].first_child}, Down(m))

\* The recursion comes back to a node it is visiting and never returns.
Endless(m, i) == \E j \in Below(m, i) : j \in Closure(Down(m)[j], Down(m))

\* Slip: the loop over the children stops after the first one.
RevokeFirstChildOnly(m, idx) ==
  LET child == m.nodes[idx].first_child
      gone  == {child} \cup Below(m, child)
      next  == m.nodes[child].next_sibling
  IN  IF child = NIL THEN m ELSE
      [ nodes |-> [i \in Idx |-> [m.nodes[i] EXCEPT
                     !.valid = @ /\ i \notin gone,
                     !.first_child = IF i = idx THEN next ELSE @]],
        count |-> m.count - Cardinality(gone),
        free_head |-> Min(gone \cup {m.free_head}) ]

\* All descendants become invalid; their links are left as they were.
mdb_revoke(m, idx) ==
  LET gone == Below(m, idx)
  IN  [ nodes |-> [i \in Idx |-> [m.nodes[i] EXCEPT
                     !.valid = @ /\ i \notin gone,
                     !.first_child = IF i = idx THEN NIL ELSE @]],
        count |-> m.count - Cardinality(gone),
        free_head |-> Min(gone \cup {m.free_head}) ]

-----------------------------------------------------------------------------

\* Otherwise ERR_INVALID_CAP or ERR_REVOKE_NEEDED.
CanDelete(m, idx) == m.nodes[idx].valid /\ m.nodes[idx].first_child = NIL

\* Slip: the parent keeps the deleted node in its child list.
NotUnlinked(m, idx) == m.nodes

\* Take idx out of the child list of its parent, if it is there.
Unlink(m, idx) ==
  LET p    == m.nodes[idx].parent
      prev == {j \in Children(m, p) : m.nodes[j].next_sibling = idx}
      next == m.nodes[idx].next_sibling
  IN  IF p = NIL THEN m.nodes
      ELSE IF m.nodes[p].first_child = idx THEN [m.nodes EXCEPT ![p].first_child = next]
      ELSE [j \in Idx |-> [m.nodes[j] EXCEPT !.next_sibling = IF j \in prev THEN next ELSE @]]

\* Slip: the next search does not start at the freed node.
DeleteKeepsFreeHead(m, idx) ==
  [ nodes |-> [Unlink(m, idx) EXCEPT ![idx].valid = FALSE],
    count |-> m.count - 1,
    free_head |-> m.free_head ]

mdb_delete(m, idx) ==
  [ nodes |-> [Unlink(m, idx) EXCEPT ![idx] =
                 [valid |-> FALSE, cptr |-> 0, parent |-> NIL,
                  first_child |-> NIL, next_sibling |-> NIL]],
    count |-> m.count - 1,
    free_head |-> Min({idx, m.free_head}) ]

\* mdb_lookup(mdb, 0, slot), the only form the kernel uses.  With cnode_id and
\* slot 0 in every node, slot 0 matches the first valid node.
mdb_lookup(m, slot) ==
  LET found == {i \in Valid(m) : slot = 0 \/ m.nodes[i].cptr = slot}
  IN  IF found = {} THEN NIL ELSE Min(found)

\* Slip: the walk looks one level up only.
DescendantOneLevel(m, ancestor, descendant) ==
  ancestor \in {descendant, m.nodes[descendant].parent}

\* The walk along the parents, which may leave the table or end at a root.
mdb_is_descendant(m, ancestor, descendant) ==
  ancestor \in Closure({descendant}, [i \in Idx |-> {m.nodes[i].parent}])
=============================================================================
