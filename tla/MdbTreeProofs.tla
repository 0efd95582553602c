--------------------------- MODULE MdbTreeProofs ----------------------------
(***************************************************************************)
(* The mapping database with its child lists, for tables of every size.    *)
(***************************************************************************)
EXTENDS MdbTree, MdbProofs

(***************************************************************************)
(* The invariant of the mapping database.  Each recorded node that has a   *)
(* parent hangs in the child list of this parent, in one place, and going  *)
(* back along the links ends: every set of recorded nodes has one that no  *)
(* other of the set links to.                                              *)
(***************************************************************************)

\* Node k links to node j.
LinksTo(m, k, j) == m.nodes[k].first_child = j \/ m.nodes[k].next_sibling = j

\* The links of a recorded node stay in its family.
LinksRight(m) ==
  \A i \in Valid(m) :
    /\ m.nodes[i].parent \in Valid(m) \cup {NIL}
    /\ m.nodes[i].first_child # NIL =>
         /\ m.nodes[i].first_child \in Valid(m)
         /\ m.nodes[m.nodes[i].first_child].parent = i
    /\ m.nodes[i].next_sibling # NIL =>
         /\ m.nodes[i].next_sibling \in Valid(m)
         /\ m.nodes[i].parent # NIL
         /\ m.nodes[m.nodes[i].next_sibling].parent = m.nodes[i].parent

\* A node with a parent is linked to, from one place only.
LinkedOnce(m) ==
  /\ \A j \in Valid(m) : m.nodes[j].parent # NIL =>
       \/ m.nodes[m.nodes[j].parent].first_child = j
       \/ \E k \in Valid(m) : m.nodes[k].next_sibling = j
  /\ \A j, k \in Valid(m) :
       /\ m.nodes[j].next_sibling = m.nodes[k].next_sibling /\ m.nodes[j].next_sibling # NIL
            => j = k
       /\ m.nodes[j].first_child # NIL => m.nodes[j].first_child # m.nodes[k].next_sibling

\* Going back along the links ends.
LinksEnd(m) ==
  \A X \in SUBSET Valid(m) :
    X # {} => \E j \in X : \A k \in X : ~LinksTo(m, k, j)

ListInv(m) == LinksRight(m) /\ LinkedOnce(m) /\ LinksEnd(m)

\* count is right, and no free node lies below the hint.
RoomInv(m) ==
  /\ m.count = Cardinality(Valid(m))
  /\ \A i \in Idx : i < m.free_head => m.nodes[i].valid

MdbInv(m) == m \in MdbRec /\ ListInv(m) /\ RoomInv(m)

-----------------------------------------------------------------------------

\* The list of a node reaches all its children.
LEMMA ChildrenReached ==
  ASSUME NEW m \in MdbRec, ListInv(m), NEW y \in Valid(m), NEW T \in SUBSET Idx,
         m.nodes[y].first_child \in T \cup {NIL},
         \A j \in T : m.nodes[j].next_sibling \in T \cup {NIL},
         NEW x \in Valid(m), m.nodes[x].parent = y
  PROVE  x \in T
<1> DEFINE X == {z \in Valid(m) : m.nodes[z].parent = y /\ z \notin T}
<1>1. ASSUME NEW z \in X PROVE \E k \in X : LinksTo(m, k, z)
  <2>1. m.nodes[y].first_child # z /\ y \in Idx /\ y # NIL
    BY NodeFacts
  <2>2. PICK k \in Valid(m) : m.nodes[k].next_sibling = z
    BY <2>1 DEF ListInv, LinkedOnce
  <2>3. m.nodes[k].parent = y /\ k \notin T
    BY <2>2, NodeFacts DEF ListInv, LinksRight
  <2> QED BY <2>2, <2>3 DEF LinksTo
<1>2. X = {}
  BY <1>1, Zenon DEF ListInv, LinksEnd
<1> QED BY <1>2

\* What the recursion of mdb_revoke visits from node i: recorded nodes, with all
\* their children and with their parents up to i, but not i; and no other node
\* links into it.
LEMMA BelowFacts ==
  ASSUME NEW m \in MdbRec, ListInv(m), NEW i \in Valid(m)
  PROVE  /\ Below(m, i) \subseteq Valid(m) \ {i}
         /\ \A j \in Below(m, i) : m.nodes[j].parent \in Below(m, i) \cup {i}
         /\ \A x \in Valid(m) : m.nodes[x].parent \in Below(m, i) \cup {i} => x \in Below(m, i)
         /\ m.nodes[i].first_child \in Below(m, i) \cup {NIL}
         /\ \A j \in Below(m, i) : /\ m.nodes[j].first_child \in Below(m, i) \cup {NIL}
                                   /\ m.nodes[j].next_sibling \in Below(m, i) \cup {NIL}
         /\ \A k \in Valid(m) \ Below(m, i) : /\ m.nodes[k].next_sibling \notin Below(m, i)
                                              /\ k # i => m.nodes[k].first_child \notin Below(m, i)
<1> DEFINE B == Below(m, i)
           S == {m.nodes[i].first_child}
<1>0. /\ Valid(m) \subseteq Idx /\ NIL \notin Idx /\ i \in Idx
      /\ \A k \in Idx : /\ m.nodes[k].first_child \in Idx \cup {NIL}
                        /\ m.nodes[k].next_sibling \in Idx \cup {NIL}
                        /\ Down(m)[k] = {m.nodes[k].first_child, m.nodes[k].next_sibling}
  BY NodeFacts
<1>1. /\ B \subseteq Idx /\ S \cap Idx \subseteq B
      /\ \A j \in B : Down(m)[j] \cap Idx \subseteq B
      /\ \A T \in SUBSET Idx :
           S \cap Idx \subseteq T /\ (\A j \in T : Down(m)[j] \cap Idx \subseteq T) => B \subseteq T
  BY ClosureFacts DEF Below
<1>2. \A j \in B : j \in S \/ \E k \in B : j \in Down(m)[k]
  BY ClosureComesFrom DEF Below
<1> HIDE DEF B
<1>3. /\ m.nodes[i].first_child \in B \cup {NIL}
      /\ \A j \in B : /\ m.nodes[j].first_child \in B \cup {NIL}
                      /\ m.nodes[j].next_sibling \in B \cup {NIL}
  BY <1>0, <1>1
<1>4. B \subseteq Valid(m) /\ \A j \in B : m.nodes[j].parent \in B \cup {i}
  <2> DEFINE T == {j \in B : j \in Valid(m) /\ m.nodes[j].parent \in B \cup {i}}
  <2>1. S \cap Idx \subseteq T
    BY <1>0, <1>1 DEF ListInv, LinksRight
  <2>2. ASSUME NEW j \in T, NEW k \in Down(m)[j] \cap Idx PROVE k \in T
    <3>1. k \in B /\ j \in B /\ j \in Valid(m)
      BY <1>1, <2>2
    <3>2. k # NIL /\ k \in {m.nodes[j].first_child, m.nodes[j].next_sibling}
      BY <1>0, <1>1, <2>2
    <3> QED BY <3>1, <3>2 DEF ListInv, LinksRight
  <2>3. T \in SUBSET Idx
    BY <1>1
  <2> HIDE DEF T
  <2>4. B \subseteq T
    BY <1>1, <2>1, <2>2, <2>3
  <2> QED BY <2>4 DEF T
<1>5. \A x \in Valid(m) : m.nodes[x].parent \in B \cup {i} => x \in B
  <2> SUFFICES ASSUME NEW x \in Valid(m), NEW y \in B \cup {i}, m.nodes[x].parent = y PROVE x \in B
    OBVIOUS
  <2>1. y \in Valid(m) /\ B \in SUBSET Idx /\ m.nodes[y].first_child \in B \cup {NIL}
    BY <1>1, <1>3, <1>4
  <2> QED BY <1>3, <2>1, ChildrenReached, Zenon
<1>6. i \notin B
  <2> SUFFICES ASSUME i \in B PROVE FALSE
    OBVIOUS
  <2>1. ASSUME NEW j \in B PROVE \E k \in B : LinksTo(m, k, j)
    BY <1>0, <1>1, <1>2 DEF LinksTo
  <2> QED BY <1>4, <2>1 DEF ListInv, LinksEnd
<1>7. ASSUME NEW k \in Valid(m) \ B
      PROVE  m.nodes[k].next_sibling \notin B /\ (k # i => m.nodes[k].first_child \notin B)
  <2>1. ASSUME NEW j \in B, m.nodes[k].next_sibling = j PROVE FALSE
    <3>1. j # NIL /\ (j = m.nodes[i].first_child \/ \E q \in B : m.nodes[q].next_sibling = j \/ m.nodes[q].first_child = j)
      BY <1>0, <1>1, <1>2
    <3> QED BY <1>4, <2>1, <3>1 DEF ListInv, LinkedOnce
  <2>2. ASSUME NEW j \in B, m.nodes[k].first_child = j, k # i PROVE FALSE
    <3>1. j # NIL /\ m.nodes[j].parent = k
      BY <1>0, <1>1, <2>2 DEF ListInv, LinksRight
    <3> QED BY <1>4, <2>2, <3>1
  <2> QED BY <2>1, <2>2
<1> QED BY <1>3, <1>4, <1>5, <1>6, <1>7 DEF B

\* Lists in order are intact chains.
LEMMA ListsAreChains ==
  ASSUME NEW m \in MdbRec, ListInv(m)
  PROVE  ChainInv(m)
<1>1. ChainsRight(m)
  BY NodeFacts DEF ListInv, LinksRight, LinkedOnce, ChainsRight
<1>2. NoTwoLinks(m)
  BY DEF ListInv, LinkedOnce, NoTwoLinks
<1>3. ChainsEnd(m)
  BY DEF ListInv, LinksEnd, LinksTo, ChainsEnd
<1> QED BY <1>1, <1>2, <1>3 DEF ChainInv

\* The invariant of the database says more than that of its chains.
LEMMA MdbInvTable ==
  ASSUME NEW m, MdbInv(m)
  PROVE  m \in MdbRec /\ ListInv(m) /\ RoomInv(m) /\ TableInv(m)
BY ListsAreChains DEF MdbInv, RoomInv, TableInv

-----------------------------------------------------------------------------
\* mdb_insert.

\* The new node comes first in the list of its parent.
LEMMA InsertLists ==
  ASSUME NEW m \in MdbRec, ListInv(m), NEW p \in Valid(m) \cup {NIL}, NEW idx, NEW n, Inserted(m, n, p, idx)
  PROVE  ListInv(n)
<1>0. /\ Valid(m) \subseteq Idx /\ NIL \notin Idx /\ idx # NIL /\ idx # p
      /\ Valid(n) = Valid(m) \cup {idx} /\ idx \in Idx \ Valid(m)
      /\ n.nodes[idx].parent = p /\ n.nodes[idx].first_child = NIL
      /\ n.nodes[idx].next_sibling = IF p = NIL THEN NIL ELSE m.nodes[p].first_child
      /\ \A k \in Valid(m) :
           /\ n.nodes[k].parent = m.nodes[k].parent
           /\ n.nodes[k].next_sibling = m.nodes[k].next_sibling
           /\ n.nodes[k].first_child = IF k = p THEN idx ELSE m.nodes[k].first_child
  BY NodeFacts DEF Inserted
<1> USE <1>0
<1>1. LinksRight(n)
  BY <1>0, SMTT(60) DEF ListInv, LinksRight
<1>2. LinkedOnce(n)
  <2>1. ASSUME NEW j \in Valid(n), n.nodes[j].parent # NIL
        PROVE  \/ n.nodes[n.nodes[j].parent].first_child = j
               \/ \E k \in Valid(n) : n.nodes[k].next_sibling = j
    BY <1>0, <2>1, SMTT(60) DEF ListInv, LinksRight, LinkedOnce
  <2>2. ASSUME NEW j \in Valid(n), NEW k \in Valid(n)
        PROVE  /\ n.nodes[j].next_sibling = n.nodes[k].next_sibling /\ n.nodes[j].next_sibling # NIL
                    => j = k
               /\ n.nodes[j].first_child # NIL => n.nodes[j].first_child # n.nodes[k].next_sibling
    BY <1>0, SMTT(60) DEF ListInv, LinksRight, LinkedOnce
  <2> QED BY <2>1, <2>2 DEF LinkedOnce
<1>3. LinksEnd(n)
  <2> SUFFICES ASSUME NEW X \in SUBSET Valid(n), X # {}
               PROVE  \E j \in X : \A k \in X : ~LinksTo(n, k, j)
    BY DEF LinksEnd
  <2>1. \A k \in Valid(m) : LinksTo(n, k, idx) => k = p
    BY <1>0 DEF LinksTo, ListInv, LinksRight
  <2>2. ~LinksTo(n, idx, idx)
    BY <1>0 DEF LinksTo, ListInv, LinksRight
  <2>3. CASE X = {idx}
    BY <2>2, <2>3
  <2>4. CASE X # {idx}
    <3>1. X \ {idx} \in SUBSET Valid(m) /\ X \ {idx} # {}
      BY <2>4
    <3>2. PICK j \in X \ {idx} : \A k \in X \ {idx} : ~LinksTo(m, k, j)
      BY <3>1, Zenon DEF ListInv, LinksEnd
    <3>3. \A k \in X \ {idx} : ~LinksTo(n, k, j)
      BY <3>1, <3>2 DEF LinksTo
    <3>4. CASE idx \notin X \/ ~LinksTo(n, idx, j)
      BY <3>3, <3>4
    <3>5. CASE idx \in X /\ LinksTo(n, idx, j)
      <4>1. p # NIL /\ m.nodes[p].first_child = j
        BY <1>0, <3>1, <3>5 DEF LinksTo
      <4>2. p \notin X
        BY <1>0, <3>2, <4>1 DEF LinksTo
      <4> QED BY <1>0, <2>1, <2>2, <3>1, <3>5, <4>2
    <3> QED BY <3>4, <3>5
  <2> QED BY <2>3, <2>4
<1> QED BY <1>1, <1>2, <1>3 DEF ListInv

\* mdb_insert keeps the invariant.
LEMMA InsertInv ==
  ASSUME NEW m, MdbInv(m), CanInsert(m), NEW p \in Valid(m) \cup {NIL}, NEW c \in Cptrs
  PROVE  MdbInv(mdb_insert(m, p, c))
<1> DEFINE idx == NewIdx(m)
           n == mdb_insert(m, p, c)
<1>1. m \in MdbRec /\ ListInv(m) /\ RoomInv(m) /\ TableInv(m) /\ p \in Idx \cup {NIL}
  BY MdbInvTable, NodeFacts
<1>2. Inserted(m, n, p, idx) /\ TableInv(n)
  BY <1>1, InsertFields, InsertTable
<1>3. m.free_head <= idx /\ \A j \in Free(m) : idx <= j
  BY <1>1, NewIdxFree
<1>4. n.free_head = IF idx = m.free_head THEN idx + 1 ELSE m.free_head
  BY DEF mdb_insert
<1> HIDE DEF n, idx
<1>5. ListInv(n)
  BY <1>1, <1>2, InsertLists
<1>6. RoomInv(n)
  <2>1. ASSUME NEW i \in Idx, i < n.free_head PROVE n.nodes[i].valid
    <3>1. idx \in Idx /\ Valid(n) = Valid(m) \cup {idx}
      BY <1>2 DEF Inserted
    <3>2. m.free_head \in Nat /\ i \in Nat /\ idx \in Nat
      BY <1>1, <3>1, NodeFacts, MdbAssumption DEF MdbRec
    <3>3. i < idx \/ i = idx
      BY <1>3, <1>4, <2>1, <3>2
    <3>4. ASSUME i < idx PROVE i \in Valid(m)
      <4>1. i \notin Free(m)
        BY <1>3, <3>2, <3>4
      <4>2. CASE i < m.free_head
        BY <1>1, <4>2 DEF RoomInv, Valid
      <4>3. CASE i >= m.free_head
        BY <3>2, <4>1, <4>3, MdbAssumption DEF Free, Valid, Idx
      <4> QED BY <3>2, <4>2, <4>3
    <3> QED BY <3>1, <3>3, <3>4 DEF Valid
  <2> QED BY <1>2, <2>1 DEF RoomInv, TableInv
<1> QED BY <1>2, <1>5, <1>6 DEF MdbInv, TableInv, n

-----------------------------------------------------------------------------
\* mdb_revoke.

\* What is left after a revocation is in order.
LEMMA RevokeLists ==
  ASSUME NEW m \in MdbRec, ListInv(m), NEW i \in Valid(m), NEW n,
         Revoked(m, n, i, Below(m, i))
  PROVE  ListInv(n)
<1> DEFINE B == Below(m, i)
<1>0. /\ Valid(m) \subseteq Idx /\ NIL \notin Idx
      /\ \A k \in Idx :
           /\ n.nodes[k].parent = m.nodes[k].parent
           /\ n.nodes[k].next_sibling = m.nodes[k].next_sibling
           /\ n.nodes[k].first_child = IF k = i THEN NIL ELSE m.nodes[k].first_child
  BY NodeFacts DEF Revoked
<1> USE <1>0
<1>1. /\ B \subseteq Valid(m) \ {i}
      /\ \A j \in B : m.nodes[j].parent \in B \cup {i}
      /\ \A x \in Valid(m) : m.nodes[x].parent \in B \cup {i} => x \in B
      /\ m.nodes[i].first_child \in B \cup {NIL}
      /\ \A j \in B : /\ m.nodes[j].first_child \in B \cup {NIL}
                      /\ m.nodes[j].next_sibling \in B \cup {NIL}
      /\ \A k \in Valid(m) \ B : /\ m.nodes[k].next_sibling \notin B
                                 /\ k # i => m.nodes[k].first_child \notin B
  BY BelowFacts
<1>2. Valid(n) = Valid(m) \ B
  BY DEF Revoked
<1> HIDE DEF B
<1>3. LinksRight(n)
  BY <1>0, <1>1, <1>2 DEF ListInv, LinksRight
<1>4. LinkedOnce(n)
  <2>1. ASSUME NEW j \in Valid(n), n.nodes[j].parent # NIL
        PROVE  \/ n.nodes[n.nodes[j].parent].first_child = j
               \/ \E k \in Valid(n) : n.nodes[k].next_sibling = j
    <3>1. j \in Valid(m) /\ j \notin B /\ m.nodes[j].parent = n.nodes[j].parent
      BY <1>0, <1>2
    <3>2. m.nodes[j].parent \in Valid(m) /\ m.nodes[j].parent \notin B \cup {i}
      BY <1>1, <2>1, <3>1 DEF ListInv, LinksRight
    <3>3. CASE m.nodes[m.nodes[j].parent].first_child = j
      BY <1>0, <3>1, <3>2, <3>3
    <3>4. CASE m.nodes[m.nodes[j].parent].first_child # j
      <4>1. PICK k \in Valid(m) : m.nodes[k].next_sibling = j
        BY <2>1, <3>1, <3>4 DEF ListInv, LinkedOnce
      <4>2. k \notin B
        BY <1>0, <1>1, <3>1, <4>1
      <4> QED BY <1>0, <1>2, <4>1, <4>2
    <3> QED BY <3>3, <3>4
  <2>2. ASSUME NEW j \in Valid(n), NEW k \in Valid(n)
        PROVE  /\ n.nodes[j].next_sibling = n.nodes[k].next_sibling /\ n.nodes[j].next_sibling # NIL
                    => j = k
               /\ n.nodes[j].first_child # NIL => n.nodes[j].first_child # n.nodes[k].next_sibling
    BY <1>0, <1>2 DEF ListInv, LinkedOnce
  <2> QED BY <2>1, <2>2 DEF LinkedOnce
<1>5. LinksEnd(n)
  <2> SUFFICES ASSUME NEW X \in SUBSET Valid(n), X # {}
               PROVE  \E j \in X : \A k \in X : ~LinksTo(n, k, j)
    BY DEF LinksEnd
  <2>1. X \in SUBSET Valid(m)
    BY <1>2
  <2>2. PICK j \in X : \A k \in X : ~LinksTo(m, k, j)
    BY <2>1 DEF ListInv, LinksEnd
  <2>3. \A k \in X : ~LinksTo(n, k, j)
    BY <1>0, <2>1, <2>2 DEF LinksTo
  <2> QED BY <2>3
<1> QED BY <1>3, <1>4, <1>5 DEF ListInv

\* mdb_revoke keeps the invariant.
LEMMA RevokeInv ==
  ASSUME NEW m, MdbInv(m), NEW i \in Valid(m)
  PROVE  MdbInv(mdb_revoke(m, i))
<1> DEFINE n == mdb_revoke(m, i)
           B == Below(m, i)
<1>1. m \in MdbRec /\ ListInv(m) /\ RoomInv(m) /\ TableInv(m) /\ i \notin B
  BY MdbInvTable, BelowFacts
<1>2. /\ Revoked(m, n, i, B) /\ TableInv(n)
      /\ n.free_head \in B \cup {m.free_head} /\ \A j \in B \cup {m.free_head} : n.free_head <= j
  BY <1>1, RevokeFields, RevokeTable
<1> HIDE DEF n
<1>3. ListInv(n)
  BY <1>1, <1>2, RevokeLists
<1> HIDE DEF B
<1>4. RoomInv(n)
  <2>1. ASSUME NEW k \in Idx, k < n.free_head PROVE n.nodes[k].valid
    <3>1. k \in Nat /\ n.free_head \in Nat /\ m.free_head \in Nat
      BY <1>1, <1>2, NodeFacts, MdbAssumption DEF MdbRec, TableInv
    <3>2. k \notin B /\ k < m.free_head
      BY <1>2, <2>1, <3>1
    <3>3. k \in Valid(m)
      BY <1>1, <3>2 DEF RoomInv, Valid
    <3> QED BY <1>2, <3>2, <3>3 DEF Valid, Revoked
  <2> QED BY <1>2, <2>1 DEF RoomInv, TableInv
<1> QED BY <1>2, <1>3, <1>4 DEF MdbInv, TableInv, n

-----------------------------------------------------------------------------
\* mdb_delete.

\* The child list of a node holds the recorded nodes whose parent it is.
LEMMA ChildrenFacts ==
  ASSUME NEW m \in MdbRec, ListInv(m), NEW i \in Valid(m)
  PROVE  Children(m, i) = {j \in Valid(m) : m.nodes[j].parent = i}
<1> DEFINE C == Children(m, i)
           S == {m.nodes[i].first_child}
           f == [j \in Idx |-> {m.nodes[j].next_sibling}]
           K == {j \in Valid(m) : m.nodes[j].parent = i}
<1>0. /\ Valid(m) \subseteq Idx /\ NIL \notin Idx /\ i \in Idx
      /\ \A k \in Idx : /\ m.nodes[k].first_child \in Idx \cup {NIL}
                        /\ m.nodes[k].next_sibling \in Idx \cup {NIL}
  BY NodeFacts
<1>1. /\ C \subseteq Idx /\ S \cap Idx \subseteq C
      /\ \A j \in C : f[j] \cap Idx \subseteq C
      /\ \A T \in SUBSET Idx :
           S \cap Idx \subseteq T /\ (\A j \in T : f[j] \cap Idx \subseteq T) => C \subseteq T
  BY ClosureFacts, SMTT(60) DEF Children
<1>2. \A j \in Idx : f[j] = {m.nodes[j].next_sibling}
  OBVIOUS
<1> HIDE DEF C, f
<1>3. C \subseteq K
  <2>1. K \in SUBSET Idx /\ S \cap Idx \subseteq K
    BY <1>0 DEF ListInv, LinksRight
  <2>2. \A j \in K : f[j] \cap Idx \subseteq K
    BY <1>0, <1>2 DEF ListInv, LinksRight
  <2> QED BY <1>1, <2>1, <2>2, Zenon
<1>4. ASSUME NEW x \in K PROVE x \in C
  <2>1. C \in SUBSET Idx /\ m.nodes[i].first_child \in C \cup {NIL}
    BY <1>0, <1>1
  <2>2. \A j \in C : m.nodes[j].next_sibling \in C \cup {NIL}
    BY <1>0, <1>1, <1>2
  <2> QED BY <2>1, <2>2, ChildrenReached, Zenon
<1> QED BY <1>3, <1>4 DEF C

\* Without the deleted node the lists are in order.
LEMMA DeleteLists ==
  ASSUME NEW m \in MdbRec, ListInv(m), NEW i \in Valid(m), m.nodes[i].first_child = NIL, NEW n,
         Deleted(m, n, i)
  PROVE  ListInv(n)
<1> DEFINE s == m.nodes[i].next_sibling
<1>0. /\ Valid(m) \subseteq Idx /\ NIL \notin Idx /\ i # NIL
      /\ Valid(n) = Valid(m) \ {i}
      /\ \A k \in Valid(n) :
           /\ n.nodes[k].parent = m.nodes[k].parent
           /\ n.nodes[k].first_child = IF m.nodes[k].first_child = i THEN s ELSE m.nodes[k].first_child
           /\ n.nodes[k].next_sibling = IF m.nodes[k].next_sibling = i THEN s ELSE m.nodes[k].next_sibling
  BY NodeFacts DEF Deleted
<1> USE <1>0
<1>1. \A k \in Valid(m) : m.nodes[k].parent # i
  <2> SUFFICES ASSUME NEW k \in Valid(m), m.nodes[k].parent = i PROVE FALSE
    OBVIOUS
  <2>1. k \in {}
    BY ChildrenReached, {} \in SUBSET Idx, Zenon
  <2> QED BY <2>1
<1>2. ~LinksTo(m, i, i)
  <2>1. {i} \in SUBSET Valid(m) /\ {i} # {}
    OBVIOUS
  <2> QED BY <2>1, Zenon DEF ListInv, LinksEnd
<1>3. LinksRight(n)
  <2> SUFFICES ASSUME NEW k \in Valid(n)
               PROVE  /\ n.nodes[k].parent \in Valid(n) \cup {NIL}
                      /\ n.nodes[k].first_child # NIL =>
                           /\ n.nodes[k].first_child \in Valid(n)
                           /\ n.nodes[n.nodes[k].first_child].parent = k
                      /\ n.nodes[k].next_sibling # NIL =>
                           /\ n.nodes[k].next_sibling \in Valid(n)
                           /\ n.nodes[k].parent # NIL
                           /\ n.nodes[n.nodes[k].next_sibling].parent = n.nodes[k].parent
    BY DEF LinksRight
  <2>1. k \in Valid(m) /\ k # i
    OBVIOUS
  <2>2. n.nodes[k].parent \in Valid(n) \cup {NIL}
    BY <1>1, <2>1 DEF ListInv, LinksRight
  <2>3. s # NIL => s \in Valid(n) /\ m.nodes[s].parent = m.nodes[i].parent
    BY <1>2 DEF ListInv, LinksRight, LinksTo
  <2>4. ASSUME n.nodes[k].first_child # NIL
        PROVE  n.nodes[k].first_child \in Valid(n) /\ n.nodes[n.nodes[k].first_child].parent = k
    <3>1. CASE m.nodes[k].first_child = i
      <4>1. n.nodes[k].first_child = s /\ s \in Valid(n) /\ n.nodes[s].parent = m.nodes[s].parent
        BY <2>3, <2>4, <3>1
      <4>2. m.nodes[i].parent = k
        BY <1>0, <2>1, <3>1 DEF ListInv, LinksRight
      <4> QED BY <1>0, <2>3, <2>4, <4>1, <4>2
    <3>2. CASE m.nodes[k].first_child # i
      BY <2>1, <2>4, <3>2 DEF ListInv, LinksRight
    <3> QED BY <3>1, <3>2
  <2>5. ASSUME n.nodes[k].next_sibling # NIL
        PROVE  /\ n.nodes[k].next_sibling \in Valid(n) /\ n.nodes[k].parent # NIL
               /\ n.nodes[n.nodes[k].next_sibling].parent = n.nodes[k].parent
    BY <1>0, <2>1, <2>3, <2>5, SMTT(60) DEF ListInv, LinksRight
  <2> QED BY <2>2, <2>4, <2>5
<1>4. LinkedOnce(n)
  <2>1. ASSUME NEW j \in Valid(n), n.nodes[j].parent # NIL
        PROVE  \/ n.nodes[n.nodes[j].parent].first_child = j
               \/ \E k \in Valid(n) : n.nodes[k].next_sibling = j
    <3> DEFINE q == m.nodes[j].parent
    <3>1. j \in Valid(m) /\ j # i /\ n.nodes[j].parent = q /\ q \in Valid(n)
      BY <1>1, <2>1 DEF ListInv, LinksRight
    <3>2. CASE m.nodes[q].first_child = j
      BY <3>1, <3>2
    <3>3. CASE m.nodes[q].first_child # j
      <4>1. PICK k \in Valid(m) : m.nodes[k].next_sibling = j
        BY <2>1, <3>1, <3>3 DEF ListInv, LinkedOnce
      <4>2. CASE k # i
        BY <3>1, <4>1, <4>2
      <4>3. CASE k = i
        <5>1. m.nodes[i].parent = q
          BY <1>0, <3>1, <4>1, <4>3 DEF ListInv, LinksRight
        <5>2. CASE m.nodes[q].first_child = i
          BY <3>1, <4>1, <4>3, <5>2
        <5>3. CASE m.nodes[q].first_child # i
          <6>1. PICK l \in Valid(m) : m.nodes[l].next_sibling = i
            BY <1>0, <3>1, <5>1, <5>3, <2>1 DEF ListInv, LinkedOnce
          <6>2. l # i
            BY <1>2, <6>1 DEF LinksTo
          <6> QED BY <4>1, <4>3, <6>1, <6>2
        <5> QED BY <5>2, <5>3
      <4> QED BY <4>2, <4>3
    <3> QED BY <3>2, <3>3
  <2>2. ASSUME NEW j \in Valid(n), NEW k \in Valid(n)
        PROVE  /\ n.nodes[j].next_sibling = n.nodes[k].next_sibling /\ n.nodes[j].next_sibling # NIL
                    => j = k
               /\ n.nodes[j].first_child # NIL => n.nodes[j].first_child # n.nodes[k].next_sibling
    <3>1. /\ j \in Valid(m) /\ k \in Valid(m) /\ j # i /\ k # i
          /\ m.nodes[j].first_child # m.nodes[k].next_sibling \/ m.nodes[j].first_child = NIL
      BY DEF ListInv, LinkedOnce
    <3>2. s # NIL => /\ \A l \in Valid(m) : m.nodes[l].next_sibling = s => l = i
                     /\ \A l \in Valid(m) : m.nodes[l].first_child # s
      BY DEF ListInv, LinkedOnce
    <3>3. /\ m.nodes[j].next_sibling = m.nodes[k].next_sibling /\ m.nodes[j].next_sibling # NIL
               => j = k
      BY DEF ListInv, LinkedOnce
    <3> QED BY <1>0, <3>1, <3>2, <3>3
  <2> QED BY <2>1, <2>2 DEF LinkedOnce
<1>5. LinksEnd(n)
  <2> SUFFICES ASSUME NEW X \in SUBSET Valid(n), X # {}
               PROVE  \E j \in X : \A k \in X : ~LinksTo(n, k, j)
    BY DEF LinksEnd
  <2>0. X \in SUBSET Valid(m) /\ i \notin X /\ X \cup {i} \in SUBSET Valid(m) /\ X \cup {i} # {}
    OBVIOUS
  <2>1. \A j, k \in X : LinksTo(n, k, j) => LinksTo(m, k, j) \/ (LinksTo(m, k, i) /\ j = s)
    BY <2>0 DEF LinksTo
  <2>2. PICK j \in X \cup {i} : \A k \in X \cup {i} : ~LinksTo(m, k, j)
    BY <2>0, Zenon DEF ListInv, LinksEnd
  <2>3. CASE j # i
    <3>1. j \in X /\ j # s
      BY <2>2, <2>3 DEF LinksTo
    <3> QED BY <2>1, <2>2, <3>1
  <2>4. CASE j = i
    <3>1. PICK l \in X : \A k \in X : ~LinksTo(m, k, l)
      BY <2>0 DEF ListInv, LinksEnd
    <3> QED BY <2>1, <2>2, <2>4, <3>1
  <2> QED BY <2>3, <2>4
<1> QED BY <1>3, <1>4, <1>5 DEF ListInv

\* mdb_delete keeps the invariant.
LEMMA DeleteInv ==
  ASSUME NEW m, MdbInv(m), NEW i \in Idx, CanDelete(m, i)
  PROVE  MdbInv(mdb_delete(m, i))
<1> DEFINE n == mdb_delete(m, i)
<1>1. /\ m \in MdbRec /\ ListInv(m) /\ RoomInv(m) /\ TableInv(m) /\ ChainInv(m)
      /\ i \in Valid(m) /\ m.nodes[i].first_child = NIL
  BY MdbInvTable DEF TableInv, CanDelete, Valid
<1>2. /\ Deleted(m, n, i) /\ TableInv(n)
      /\ n.free_head <= i /\ n.free_head <= m.free_head
  BY <1>1, DeleteFields, DeleteTable
<1> HIDE DEF n
<1>3. ListInv(n)
  BY <1>1, <1>2, DeleteLists
<1>4. RoomInv(n)
  <2>1. ASSUME NEW k \in Idx, k < n.free_head PROVE n.nodes[k].valid
    <3>1. k \in Nat /\ i \in Nat /\ n.free_head \in Nat /\ m.free_head \in Nat
      BY <1>1, <1>2, NodeFacts, MdbAssumption DEF MdbRec, TableInv
    <3>2. k # i /\ k < m.free_head
      BY <1>2, <2>1, <3>1
    <3>3. k \in Valid(m)
      BY <1>1, <3>2 DEF RoomInv, Valid
    <3> QED BY <1>2, <3>2, <3>3 DEF Valid, Deleted
  <2> QED BY <1>2, <2>1 DEF RoomInv, TableInv
<1> QED BY <1>2, <1>3, <1>4 DEF MdbInv, TableInv, n

-----------------------------------------------------------------------------
\* What the database promises.

\* The invariant holds of an empty table and is kept by every call.
LEMMA MdbInvInit == MdbInv(mdb_init)
<1> DEFINE m == mdb_init
<1>1. /\ m \in MdbRec /\ Valid(m) = {} /\ m.count = 0 /\ m.free_head = 0
  BY MdbAssumption DEF mdb_init, MdbRec, NodeRec, Valid, Idx, NIL
<1> HIDE DEF m
<1>2. ListInv(m)
  BY <1>1 DEF ListInv, LinksRight, LinkedOnce, LinksEnd
<1>3. RoomInv(m)
  BY <1>1, FS_EmptySet, NodeFacts DEF RoomInv
<1> QED BY <1>1, <1>2, <1>3 DEF MdbInv, m

\* Insertions, revocations and deletions keep the invariant of the mapping database.
LEMMA MdbInvNext == MdbInv(mdb) /\ [Next]_mdb => MdbInv(mdb)'
<1> SUFFICES ASSUME MdbInv(mdb), [Next]_mdb PROVE MdbInv(mdb')
  OBVIOUS
<1>1. ASSUME NEW p \in Idx \cup {NIL}, NEW c \in Cptrs, Insert(p, c) PROVE MdbInv(mdb')
  BY <1>1, InsertInv DEF Insert
<1>2. ASSUME NEW i \in Idx, Revoke(i) PROVE MdbInv(mdb')
  BY <1>2, RevokeInv DEF Revoke, Valid
<1>3. ASSUME NEW i \in Idx, Delete(i) PROVE MdbInv(mdb')
  BY <1>3, DeleteInv DEF Delete
<1>4. CASE UNCHANGED mdb
  BY <1>4
<1> QED BY <1>1, <1>2, <1>3, <1>4 DEF Next

\* The inductive invariant of the mapping database.
THEOREM MdbInvariant == Spec => []MdbInv(mdb)
<1>1. Init => MdbInv(mdb)
  BY MdbInvInit DEF Init
<1> QED BY <1>1, MdbInvNext, PTL DEF Spec

\* Child lists and parent links describe the same forest, and the recursion of
\* mdb_revoke ends, for a table of any size.
THEOREM ListsStayMatched == Spec => []ListsMatchParents
<1>1. ASSUME MdbInv(mdb) PROVE ListsMatchParents
  <2> SUFFICES ASSUME NEW i \in Valid(mdb), NEW j \in Below(mdb, i), j \in Closure(Down(mdb)[j], Down(mdb))
               PROVE  FALSE
    BY <1>1, ChildrenFacts DEF MdbInv, ListInv, LinksRight, ListsMatchParents, Endless
  <2> DEFINE C == Closure(Down(mdb)[j], Down(mdb))
  <2>1. mdb \in MdbRec /\ ListInv(mdb) /\ Below(mdb, i) \subseteq Valid(mdb)
    BY <1>1, BelowFacts DEF MdbInv
  <2>2. /\ Valid(mdb) \subseteq Idx /\ NIL \notin Idx
        /\ \A k \in Idx : Down(mdb)[k] = {mdb.nodes[k].first_child, mdb.nodes[k].next_sibling}
    BY <2>1, NodeFacts
  <2>3. /\ C \subseteq Idx
        /\ \A T \in SUBSET Idx :
             Down(mdb)[j] \cap Idx \subseteq T /\ (\A k \in T : Down(mdb)[k] \cap Idx \subseteq T)
               => C \subseteq T
    BY ClosureFacts
  <2>4. \A k \in C : k \in Down(mdb)[j] \/ \E l \in C : k \in Down(mdb)[l]
    BY ClosureComesFrom
  <2> HIDE DEF C
  <2>5. C \subseteq Valid(mdb)
    <3>1. Down(mdb)[j] \cap Idx \subseteq Valid(mdb) /\ j \in Valid(mdb)
      BY <2>1, <2>2 DEF ListInv, LinksRight
    <3>2. \A k \in Valid(mdb) : Down(mdb)[k] \cap Idx \subseteq Valid(mdb)
      BY <2>1, <2>2 DEF ListInv, LinksRight
    <3> QED BY <2>2, <2>3, <3>1, <3>2
  <2>6. j \in C
    BY DEF C
  <2>7. ASSUME NEW k \in C PROVE \E l \in C : LinksTo(mdb, l, k)
    BY <2>2, <2>3, <2>4, <2>6 DEF LinksTo
  <2> QED BY <2>1, <2>5, <2>6, <2>7 DEF ListInv, LinksEnd
<1> QED BY <1>1, MdbInvariant, PTL

\* mdb_insert reports a full table only when it is full.
THEOREM RoomStaysFound == Spec => []RoomIsFound
<1>1. ASSUME MdbInv(mdb) PROVE RoomIsFound
  <2>1. mdb \in MdbRec /\ RoomInv(mdb)
    BY <1>1 DEF MdbInv
  <2>2. SUFFICES ASSUME mdb.count < MaxNodes, Free(mdb) = {} PROVE FALSE
    BY <2>1 DEF RoomInv, RoomIsFound, CanInsert
  <2>3. ASSUME NEW i \in Idx PROVE i \in Valid(mdb)
    <3>1. CASE i < mdb.free_head
      BY <2>1, <3>1 DEF RoomInv, Valid
    <3>2. CASE ~(i < mdb.free_head)
      <4>1. i \in mdb.free_head .. (MaxNodes - 1)
        BY <2>1, <3>2, MdbAssumption DEF MdbRec, Idx
      <4> QED BY <2>2, <4>1 DEF Free, Valid
    <3> QED BY <3>1, <3>2
  <2>4. Valid(mdb) = 0 .. (MaxNodes - 1)
    BY <2>3 DEF Valid, Idx
  <2>5. Cardinality(0 .. (MaxNodes - 1)) = MaxNodes
    <3>1. 0 \in Int /\ MaxNodes - 1 \in Int /\ ~(0 > MaxNodes - 1) /\ (MaxNodes - 1) - 0 + 1 = MaxNodes
      BY MdbAssumption
    <3> QED BY <3>1, FS_Interval
  <2> QED BY <2>1, <2>2, <2>4, <2>5, MdbAssumption DEF RoomInv
<1> QED BY <1>1, MdbInvariant, PTL

\* mdb_is_descendant, which follows the parents, and mdb_revoke, which follows
\* the child lists, agree on what is derived from a node.
THEOREM DescendantsAgree == Spec => []DescendantAgrees
<1>1. ASSUME MdbInv(mdb) PROVE DescendantAgrees
  <2> SUFFICES ASSUME NEW a \in Valid(mdb), NEW d \in Valid(mdb)
               PROVE  mdb_is_descendant(mdb, a, d) <=> d = a \/ d \in Below(mdb, a)
    BY DEF DescendantAgrees
  <2> DEFINE up == [i \in Idx |-> {mdb.nodes[i].parent}]
             U(x) == Closure({x}, up)
             B == Below(mdb, a)
  <2>1. /\ mdb \in MdbRec /\ ListInv(mdb) /\ Valid(mdb) \subseteq Idx /\ NIL \notin Idx
        /\ \A i \in Idx : up[i] = {mdb.nodes[i].parent}
    BY <1>1, NodeFacts DEF MdbInv
  <2>2. mdb_is_descendant(mdb, a, d) <=> a \in U(d)
    BY DEF mdb_is_descendant
  <2>3. \A x \in Valid(mdb) : x \in U(x) /\ (mdb.nodes[x].parent # NIL => U(mdb.nodes[x].parent) \subseteq U(x))
    <3> SUFFICES ASSUME NEW x \in Valid(mdb)
                 PROVE  x \in U(x) /\ (mdb.nodes[x].parent # NIL => U(mdb.nodes[x].parent) \subseteq U(x))
      BY Zenon
    <3>1. /\ U(x) \subseteq Idx /\ {x} \cap Idx \subseteq U(x)
          /\ \A j \in U(x) : up[j] \cap Idx \subseteq U(x)
      BY ClosureFacts
    <3>2. \A y : \A T \in SUBSET Idx :
            {y} \cap Idx \subseteq T /\ (\A j \in T : up[j] \cap Idx \subseteq T) => U(y) \subseteq T
      BY ClosureFacts
    <3> HIDE DEF U, up
    <3>3. x \in U(x)
      BY <2>1, <3>1
    <3>4. ASSUME mdb.nodes[x].parent # NIL PROVE mdb.nodes[x].parent \in U(x)
      BY <2>1, <3>1, <3>3, <3>4 DEF ListInv, LinksRight
    <3> QED BY <3>1, <3>2, <3>3, <3>4
  <2>4. ASSUME NEW T \in SUBSET Idx, d \in T, \A j \in T : mdb.nodes[j].parent \in T \cup {NIL}
        PROVE  U(d) \subseteq T
    <3>1. \A R \in SUBSET Idx :
            {d} \cap Idx \subseteq R /\ (\A j \in R : up[j] \cap Idx \subseteq R) => U(d) \subseteq R
      BY ClosureFacts
    <3> HIDE DEF U, up
    <3> QED BY <2>1, <2>4, <3>1
  <2>5. /\ B \subseteq Valid(mdb) \ {a}
        /\ \A x \in Valid(mdb) : mdb.nodes[x].parent \in B \cup {a} => x \in B
    BY <2>1, BelowFacts
  <2>8. \A T \in SUBSET Idx :
          {mdb.nodes[a].first_child} \cap Idx \subseteq T /\ (\A j \in T : Down(mdb)[j] \cap Idx \subseteq T)
            => B \subseteq T
    BY ClosureFacts DEF Below
  <2> HIDE DEF U, up, B
  <2>6. ASSUME d \in B PROVE a \in U(d)
    <3> DEFINE T == {j \in Valid(mdb) : mdb.nodes[j].parent # NIL /\ a \in U(mdb.nodes[j].parent)}
    <3>1. {mdb.nodes[a].first_child} \cap Idx \subseteq T
      BY <2>1, <2>3 DEF ListInv, LinksRight
    <3>2. ASSUME NEW j \in T, NEW k \in Down(mdb)[j] \cap Idx PROVE k \in T
      <4>1. k # NIL /\ k \in {mdb.nodes[j].first_child, mdb.nodes[j].next_sibling} /\ j \in Valid(mdb)
        BY <2>1, <3>2, NodeFacts
      <4>2. a \in U(j) /\ a \in U(mdb.nodes[j].parent)
        BY <2>3, <3>2
      <4>3. k \in Valid(mdb) /\ mdb.nodes[k].parent \in {j, mdb.nodes[j].parent} /\ mdb.nodes[k].parent # NIL
        BY <2>1, <4>1 DEF ListInv, LinksRight
      <4> QED BY <4>2, <4>3
    <3>3. T \in SUBSET Idx
      BY <2>1
    <3> HIDE DEF T
    <3>4. d \in T
      BY <2>6, <2>8, <3>1, <3>2, <3>3
    <3> QED BY <2>3, <3>4 DEF T
  <2>7. ASSUME d # a, d \notin B PROVE a \notin U(d)
    <3> DEFINE T == Valid(mdb) \ (B \cup {a})
    <3>1. d \in T /\ T \in SUBSET Idx /\ a \notin T
      BY <2>1, <2>7
    <3>2. \A j \in T : mdb.nodes[j].parent \in T \cup {NIL}
      BY <2>1, <2>5 DEF ListInv, LinksRight
    <3> HIDE DEF T
    <3> QED BY <2>4, <3>1, <3>2
  <2> QED BY <2>2, <2>3, <2>6, <2>7 DEF B
<1> QED BY <1>1, MdbInvariant, PTL

\* What the recursion visits is the least set that Derivation describes.
LEMMA BelowAreDescendants ==
  ASSUME MdbInv(mdb), NEW c \in Valid(mdb)
  PROVE  Below(mdb, c) = D!Descendants(c)
<1> DEFINE parentOf == [i \in Valid(mdb) |-> mdb.nodes[i].parent]
           B == Below(mdb, c)
           V == Valid(mdb)
           closed(T) == \A d \in V : parentOf[d] \in T \cup {c} => d \in T
           least(S) == closed(S) /\ \A T \in SUBSET S : closed(T) => T = S
<1>1. /\ mdb \in MdbRec /\ ListInv(mdb) /\ V \subseteq Idx /\ NIL \notin Idx
      /\ \A d \in V : parentOf[d] = mdb.nodes[d].parent
  BY NodeFacts DEF MdbInv
<1>2. B \in SUBSET V /\ closed(B)
  BY <1>1, BelowFacts
<1>3. \A T \in SUBSET Idx :
        {mdb.nodes[c].first_child} \cap Idx \subseteq T /\ (\A j \in T : Down(mdb)[j] \cap Idx \subseteq T)
          => B \subseteq T
  BY ClosureFacts DEF Below
<1> HIDE DEF B, parentOf
<1>4. ASSUME NEW T \in SUBSET V, closed(T) PROVE B \subseteq T
  <2> DEFINE R == {j \in T : mdb.nodes[j].parent \in T \cup {c}}
  <2>1. {mdb.nodes[c].first_child} \cap Idx \subseteq R
    BY <1>1, <1>4 DEF ListInv, LinksRight
  <2>2. ASSUME NEW j \in R, NEW k \in Down(mdb)[j] \cap Idx PROVE k \in R
    <3>1. k # NIL /\ k \in {mdb.nodes[j].first_child, mdb.nodes[j].next_sibling} /\ j \in V
      BY <1>1, <2>2, NodeFacts
    <3>2. k \in V /\ mdb.nodes[k].parent \in {j, mdb.nodes[j].parent}
      BY <1>1, <3>1 DEF ListInv, LinksRight
    <3> QED BY <1>1, <1>4, <2>2, <3>2
  <2>3. R \in SUBSET Idx
    BY <1>1
  <2> HIDE DEF R
  <2>4. B \subseteq R
    BY <1>3, <2>1, <2>2, <2>3
  <2> QED BY <2>4 DEF R
<1>5. least(B)
  BY <1>2, <1>4
<1>6. ASSUME NEW S \in SUBSET V, least(S) PROVE S = B
  BY <1>2, <1>4, <1>6
<1>7. D!Recorded = V
  BY DEF D!Recorded, parentOf
<1> DEFINE closedD(T) == \A d \in D!Recorded : parentOf[d] \in T \cup {c} => d \in T
           leastD(S) == closedD(S) /\ \A T \in SUBSET S : closedD(T) => T = S
<1>8. B \in SUBSET D!Recorded /\ leastD(B) /\ \A S \in SUBSET D!Recorded : leastD(S) => S = B
  BY <1>2, <1>5, <1>6, <1>7, Zenon
<1>9. D!Descendants(c) = CHOOSE S \in SUBSET D!Recorded : leastD(S)
  BY DEF D!Descendants, parentOf
<1> HIDE DEF leastD
<1> QED BY <1>8, <1>9 DEF B

\* Every call is a step of the forest.
LEMMA DerivationStep ==
  ASSUME MdbInv(mdb), [Next]_mdb
  PROVE  [D!Next]_([i \in Valid(mdb) |-> mdb.nodes[i].parent])
<1> DEFINE parentOf == [i \in Valid(mdb) |-> mdb.nodes[i].parent]
<1>0. /\ mdb \in MdbRec /\ ListInv(mdb) /\ RoomInv(mdb) /\ Valid(mdb) \subseteq Idx /\ NIL \notin Idx
      /\ D!Recorded = Valid(mdb)
  BY NodeFacts DEF MdbInv, D!Recorded
<1>1. ASSUME NEW p \in Idx \cup {NIL}, NEW c \in Cptrs, Insert(p, c) PROVE D!Next
  <2> DEFINE idx == NewIdx(mdb)
  <2>1. p \in Valid(mdb) \cup {NIL} /\ CanInsert(mdb) /\ mdb' = mdb_insert(mdb, p, c)
    BY <1>1 DEF Insert
  <2>2. /\ Valid(mdb') = Valid(mdb) \cup {idx} /\ idx \in Idx \ Valid(mdb)
        /\ mdb'.nodes[idx].parent = p
        /\ \A k \in Valid(mdb) : mdb'.nodes[k].parent = mdb.nodes[k].parent
    BY <1>0, <2>1, InsertFields DEF Inserted
  <2> HIDE DEF idx
  <2>3. parentOf' = [d \in Valid(mdb) \cup {idx} |-> IF d = idx THEN p ELSE parentOf[d]]
    <3>1. parentOf' = [d \in Valid(mdb) \cup {idx} |-> mdb'.nodes[d].parent]
      BY <2>2 DEF Valid
    <3>2. \A d \in Valid(mdb) \cup {idx} : mdb'.nodes[d].parent = IF d = idx THEN p ELSE parentOf[d]
      BY <2>2
    <3> QED BY <3>1, <3>2
  <2>4. D!Derive(idx, p)
    BY <1>0, <2>1, <2>2, <2>3 DEF D!Derive
  <2> QED BY <1>1, <2>2, <2>4 DEF D!Next
<1>2. ASSUME NEW c \in Idx, Revoke(c) PROVE D!Next
  <2>1. c \in Valid(mdb) /\ mdb' = mdb_revoke(mdb, c)
    BY <1>2 DEF Revoke, Valid
  <2>2. /\ Valid(mdb') = Valid(mdb) \ Below(mdb, c)
        /\ \A k \in Idx : mdb'.nodes[k].parent = mdb.nodes[k].parent
    BY <1>0, <2>1, RevokeFields DEF Revoked
  <2>3. Valid(mdb') = D!Recorded \ D!Descendants(c)
    BY <1>0, <2>1, <2>2, BelowAreDescendants
  <2>4. parentOf' = [d \in D!Recorded \ D!Descendants(c) |-> parentOf[d]]
    <3>1. parentOf' = [d \in D!Recorded \ D!Descendants(c) |-> mdb'.nodes[d].parent]
      BY <2>3 DEF Valid
    <3>2. \A d \in D!Recorded \ D!Descendants(c) : mdb'.nodes[d].parent = parentOf[d]
      BY <1>0, <2>2
    <3> QED BY <3>1, <3>2
  <2>5. D!Revoke(c)
    BY <1>0, <2>1, <2>4 DEF D!Revoke
  <2> QED BY <1>2, <2>5 DEF D!Next
<1>3. ASSUME NEW c \in Idx, Delete(c) PROVE D!Next
  <2>1. c \in Valid(mdb) /\ mdb.nodes[c].first_child = NIL /\ mdb' = mdb_delete(mdb, c)
    BY <1>3 DEF Delete, CanDelete, Valid
  <2>2. /\ Valid(mdb') = Valid(mdb) \ {c}
        /\ \A k \in Valid(mdb') : mdb'.nodes[k].parent = mdb.nodes[k].parent
    BY <1>0, <2>1, ListsAreChains, DeleteFields DEF Deleted
  <2>3. \A d \in Valid(mdb) : parentOf[d] # c
    <3> SUFFICES ASSUME NEW d \in Valid(mdb), mdb.nodes[d].parent = c PROVE FALSE
      OBVIOUS
    <3>1. d \in {}
      BY <1>0, <2>1, ChildrenReached, {} \in SUBSET Idx, Zenon
    <3> QED BY <3>1
  <2>4. parentOf' = [d \in D!Recorded \ {c} |-> parentOf[d]]
    <3>1. parentOf' = [d \in D!Recorded \ {c} |-> mdb'.nodes[d].parent]
      BY <1>0, <2>2 DEF Valid
    <3>2. \A d \in D!Recorded \ {c} : mdb'.nodes[d].parent = parentOf[d]
      BY <1>0, <2>2
    <3> QED BY <3>1, <3>2
  <2>5. D!Delete(c)
    BY <1>0, <2>1, <2>3, <2>4 DEF D!Delete
  <2> QED BY <1>3, <2>5 DEF D!Next
<1>4. CASE UNCHANGED mdb
  BY <1>4 DEF Valid
<1> QED BY <1>1, <1>2, <1>3, <1>4 DEF Next

\* The linked table implements the derivation forest: revoking a capability
\* withdraws everything derived from it and nothing else.
THEOREM ImplementsDerivation == Spec => RefinesDerivation
<1>1. Init => D!Init
  <2> SUFFICES ASSUME Init PROVE D!Init
    OBVIOUS
  <2>1. Valid(mdb) = {}
    BY DEF Init, mdb_init, Valid
  <2> QED BY <2>1 DEF D!Init
<1>2. MdbInv(mdb) /\ [Next]_mdb => [D!Next]_([i \in Valid(mdb) |-> mdb.nodes[i].parent])
  BY DerivationStep
<1> QED BY <1>1, <1>2, MdbInvariant, PTL DEF Spec, RefinesDerivation, D!Spec
=============================================================================
