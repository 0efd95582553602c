----------------------------- MODULE MdbProofs ------------------------------
(***************************************************************************)
(* Facts about the functions of revoke.c on any table whose chains of      *)
(* siblings are intact.  Parents may be wrong: a node may name a parent    *)
(* that is not recorded, or be its own parent, as it happens under the     *)
(* callers in the kernel.                                                  *)
(***************************************************************************)
EXTENDS Mdb, CommonLemmas

\* A link leads to a recorded node with the right parent, and a node that has a
\* next sibling hangs in the chain of a recorded parent itself.
ChainsRight(m) ==
  \A i \in Valid(m) :
    /\ m.nodes[i].first_child # NIL =>
         /\ m.nodes[i].first_child \in Valid(m)
         /\ m.nodes[m.nodes[i].first_child].parent = i
    /\ m.nodes[i].next_sibling # NIL =>
         /\ m.nodes[i].next_sibling \in Valid(m)
         /\ m.nodes[m.nodes[i].next_sibling].parent = m.nodes[i].parent
         /\ m.nodes[i].parent \in Valid(m)
         /\ \/ m.nodes[m.nodes[i].parent].first_child = i
            \/ \E k \in Valid(m) : m.nodes[k].next_sibling = i

\* No node is linked from two places.
NoTwoLinks(m) ==
  \A j, k \in Valid(m) :
    /\ m.nodes[j].next_sibling = m.nodes[k].next_sibling /\ m.nodes[j].next_sibling # NIL
         => j = k
    /\ m.nodes[j].first_child # NIL => m.nodes[j].first_child # m.nodes[k].next_sibling

\* Going back along siblings ends.
ChainsEnd(m) ==
  \A X \in SUBSET Valid(m) :
    X # {} => \E j \in X : \A k \in X : m.nodes[k].next_sibling # j

ChainInv(m) == ChainsRight(m) /\ NoTwoLinks(m) /\ ChainsEnd(m)

-----------------------------------------------------------------------------

\* Closure is closed, holds what it starts from, and is the least such set.
LEMMA ClosureFacts ==
  ASSUME NEW S, NEW f
  PROVE  /\ Closure(S, f) \subseteq Idx
         /\ S \cap Idx \subseteq Closure(S, f)
         /\ \A j \in Closure(S, f) : f[j] \cap Idx \subseteq Closure(S, f)
         /\ \A T \in SUBSET Idx :
              S \cap Idx \subseteq T /\ (\A j \in T : f[j] \cap Idx \subseteq T)
                => Closure(S, f) \subseteq T
BY DEF Closure

\* Every node of a closure is a starting node or linked from a node of it.
LEMMA ClosureComesFrom ==
  ASSUME NEW S, NEW f, NEW i \in Closure(S, f), i \notin S
  PROVE  \E j \in Closure(S, f) : i \in f[j]
<1> DEFINE C == Closure(S, f)
<1>1. /\ C \subseteq Idx /\ S \cap Idx \subseteq C
      /\ \A j \in C : f[j] \cap Idx \subseteq C
      /\ \A T \in SUBSET Idx : S \cap Idx \subseteq T /\ (\A j \in T : f[j] \cap Idx \subseteq T)
           => C \subseteq T
  BY ClosureFacts
<1> HIDE DEF C
<1> SUFFICES ASSUME \A j \in C : i \notin f[j] PROVE FALSE
  BY DEF C
<1>2. S \cap Idx \subseteq C \ {i} /\ \A j \in C \ {i} : f[j] \cap Idx \subseteq C \ {i}
  BY <1>1
<1>3. C \subseteq C \ {i}
  BY <1>1, <1>2, Zenon
<1> QED BY <1>3 DEF C

\* What the type of the table says about its links.
LEMMA NodeFacts ==
  ASSUME NEW m \in MdbRec
  PROVE  /\ Idx \subseteq Nat /\ NIL \notin Idx /\ Valid(m) \subseteq Idx
         /\ \A i \in Idx : /\ m.nodes[i].parent \in Idx \cup {NIL}
                           /\ m.nodes[i].first_child \in Idx \cup {NIL}
                           /\ m.nodes[i].next_sibling \in Idx \cup {NIL}
                           /\ Down(m)[i] = {m.nodes[i].first_child, m.nodes[i].next_sibling}
                           /\ m.nodes[i].valid \in BOOLEAN
BY MdbAssumption DEF MdbRec, NodeRec, Idx, NIL, Valid, Down

\* A node that has a next sibling, or is one, is in the list of its parent.
LEMMA InChain ==
  ASSUME NEW m \in MdbRec, ChainInv(m), NEW y \in Valid(m), NEW T \in SUBSET Idx,
         m.nodes[y].first_child \in T \cup {NIL},
         \A j \in T : m.nodes[j].next_sibling \in T \cup {NIL},
         NEW x \in Valid(m), m.nodes[x].parent = y, m.nodes[x].next_sibling # NIL
  PROVE  x \in T
<1> DEFINE X == {z \in Valid(m) : m.nodes[z].parent = y /\ m.nodes[z].next_sibling # NIL /\ z \notin T}
<1>0. Valid(m) \subseteq Idx /\ NIL \notin Idx
  BY NodeFacts
<1>1. ASSUME NEW z \in X PROVE \E k \in X : m.nodes[k].next_sibling = z
  <2>1. m.nodes[y].first_child # z /\ z # NIL
    BY <1>0
  <2>2. PICK k \in Valid(m) : m.nodes[k].next_sibling = z
    BY <2>1 DEF ChainInv, ChainsRight
  <2>3. m.nodes[k].parent = y /\ k \notin T
    BY <2>1, <2>2 DEF ChainInv, ChainsRight
  <2> QED BY <2>1, <2>2, <2>3
<1>2. X = {}
  <2>1. X \in SUBSET Valid(m)
    OBVIOUS
  <2> HIDE DEF X
  <2> QED BY <1>1, <2>1 DEF ChainInv, ChainsEnd
<1> QED BY <1>2

\* What the recursion of mdb_revoke visits from node i, if it does not come back to
\* i: recorded nodes only, and no other node links into it.
BelowIsApart(m, i, B) ==
  /\ B \subseteq Valid(m) \ {i}
  /\ m.nodes[i].first_child \in B \cup {NIL}
  /\ \A j \in B : /\ m.nodes[j].first_child \in B \cup {NIL}
                  /\ m.nodes[j].next_sibling \in B \cup {NIL}
  /\ \A x \in Valid(m) : m.nodes[x].next_sibling # NIL /\ m.nodes[x].parent \in B \cup {i} => x \in B
  /\ \A k \in Valid(m) \ B : /\ m.nodes[k].next_sibling \notin B
                             /\ k # i => m.nodes[k].first_child \notin B

\* What a recursion that ends visits is apart from the rest of the table.
LEMMA BelowApart ==
  ASSUME NEW m \in MdbRec, ChainInv(m), NEW i \in Valid(m), i \notin Below(m, i)
  PROVE  BelowIsApart(m, i, Below(m, i))
<1> DEFINE B == Below(m, i)
           S == {m.nodes[i].first_child}
<1>0. /\ Valid(m) \subseteq Idx /\ NIL \notin Idx /\ i \in Idx
      /\ \A k \in Idx : /\ m.nodes[k].first_child \in Idx \cup {NIL}
                        /\ m.nodes[k].next_sibling \in Idx \cup {NIL}
                        /\ Down(m)[k] = {m.nodes[k].first_child, m.nodes[k].next_sibling}
  BY NodeFacts
<1>1. /\ B \subseteq Idx /\ S \cap Idx \subseteq B
      /\ \A j \in B : Down(m)[j] \cap Idx \subseteq B
      /\ \A T \in SUBSET Idx :
           S \cap Idx \subseteq T /\ (\A j \in T : Down(m)[j] \cap Idx \subseteq T) => B \subseteq T
  BY ClosureFacts DEF Below
<1>2. \A j \in B : j \in S \/ \E k \in B : j \in Down(m)[k]
  BY ClosureComesFrom DEF Below
<1>3. i \notin B
  OBVIOUS
<1> HIDE DEF B
<1>4. /\ m.nodes[i].first_child \in B \cup {NIL}
      /\ \A j \in B : /\ m.nodes[j].first_child \in B \cup {NIL}
                      /\ m.nodes[j].next_sibling \in B \cup {NIL}
  BY <1>0, <1>1
<1>5. B \subseteq Valid(m)
  <2>1. Valid(m) \in SUBSET Idx /\ S \cap Idx \subseteq Valid(m)
    BY <1>0 DEF ChainInv, ChainsRight
  <2>2. \A j \in Valid(m) : Down(m)[j] \cap Idx \subseteq Valid(m)
    BY <1>0 DEF ChainInv, ChainsRight
  <2> QED BY <1>1, <2>1, <2>2
<1>6. ASSUME NEW x \in Valid(m), m.nodes[x].next_sibling # NIL, m.nodes[x].parent \in B \cup {i}
      PROVE  x \in B
  <2> DEFINE y == m.nodes[x].parent
  <2>1. y \in Valid(m) /\ B \in SUBSET Idx /\ m.nodes[y].first_child \in B \cup {NIL}
    BY <1>1, <1>4, <1>5, <1>6
  <2> QED BY <1>4, <1>6, <2>1, InChain, Zenon
<1>7. ASSUME NEW k \in Valid(m) \ B
      PROVE  m.nodes[k].next_sibling \notin B /\ (k # i => m.nodes[k].first_child \notin B)
  <2>0. \A j \in B : \/ j = m.nodes[i].first_child
                     \/ \E q \in B : m.nodes[q].next_sibling = j \/ m.nodes[q].first_child = j
    BY <1>0, <1>1, <1>2
  <2>1. ASSUME NEW j \in B, m.nodes[k].next_sibling = j PROVE FALSE
    BY <1>0, <1>1, <1>5, <2>0, <2>1 DEF ChainInv, NoTwoLinks
  <2>2. ASSUME NEW j \in B, m.nodes[k].first_child = j, k # i PROVE FALSE
    <3>1. j # NIL /\ m.nodes[j].parent = k
      BY <1>0, <1>1, <2>2 DEF ChainInv, ChainsRight
    <3>2. ASSUME NEW q \in B, m.nodes[q].next_sibling = j PROVE FALSE
      BY <1>5, <2>2, <3>1, <3>2 DEF ChainInv, NoTwoLinks
    <3>3. ASSUME NEW q \in B \cup {i}, m.nodes[q].first_child = j PROVE FALSE
      BY <1>5, <2>2, <3>1, <3>3 DEF ChainInv, ChainsRight
    <3> QED BY <2>0, <2>2, <3>2, <3>3
  <2> QED BY <2>1, <2>2
<1> QED BY <1>3, <1>4, <1>5, <1>6, <1>7 DEF B, BelowIsApart

\* A recursion that ends does not come back to where it began.
LEMMA EndsApart ==
  ASSUME NEW m \in MdbRec, NEW i \in Idx, ~Endless(m, i)
  PROVE  i \notin Below(m, i)
<1> SUFFICES ASSUME i \in Below(m, i) PROVE FALSE
  OBVIOUS
<1> DEFINE S == {m.nodes[i].first_child}
           C == Closure(Down(m)[i], Down(m))
<1>1. S \subseteq Down(m)[i]
  BY NodeFacts
<1>2. /\ C \subseteq Idx /\ Down(m)[i] \cap Idx \subseteq C
      /\ \A j \in C : Down(m)[j] \cap Idx \subseteq C
  BY ClosureFacts
<1>3. \A T \in SUBSET Idx :
        S \cap Idx \subseteq T /\ (\A j \in T : Down(m)[j] \cap Idx \subseteq T) => Below(m, i) \subseteq T
  BY ClosureFacts DEF Below
<1> HIDE DEF C
<1>4. i \in C
  BY <1>1, <1>2, <1>3
<1> QED BY <1>4 DEF Endless, C

-----------------------------------------------------------------------------
\* mdb_insert.

\* The node that is found is free.
LEMMA NewIdxFree ==
  ASSUME NEW m \in MdbRec, CanInsert(m)
  PROVE  /\ NewIdx(m) \in Idx /\ NewIdx(m) \notin Valid(m)
         /\ m.free_head <= NewIdx(m) /\ \A j \in Free(m) : NewIdx(m) <= j
<1>1. Free(m) \subseteq Nat /\ Free(m) # {} /\ m.free_head \in Nat
  BY MdbAssumption DEF MdbRec, Free, CanInsert
<1>2. NewIdx(m) \in Free(m) /\ \A j \in Free(m) : NewIdx(m) <= j
  BY <1>1, MinIsMember DEF NewIdx
<1> HIDE DEF NewIdx
<1>3. NewIdx(m) \in Idx /\ ~m.nodes[NewIdx(m)].valid /\ m.free_head <= NewIdx(m)
  BY <1>1, <1>2, MdbAssumption DEF Free, Idx
<1> QED BY <1>2, <1>3 DEF Valid

\* Table n is m with node idx added below p, which may be any number.
Inserted(m, n, p, idx) ==
  /\ n.nodes \in [Idx -> NodeRec]
  /\ Valid(n) = Valid(m) \cup {idx} /\ idx \in Idx \ Valid(m)
  /\ n.nodes[idx].parent = p
  /\ n.nodes[idx].first_child = IF p = idx THEN idx ELSE NIL
  /\ n.nodes[idx].next_sibling = IF p \in Valid(m) THEN m.nodes[p].first_child ELSE NIL
  /\ \A k \in Valid(m) :
       /\ n.nodes[k].parent = m.nodes[k].parent
       /\ n.nodes[k].next_sibling = m.nodes[k].next_sibling
       /\ n.nodes[k].first_child = IF k = p THEN idx ELSE m.nodes[k].first_child

\* The fields after an insertion.
LEMMA InsertFields ==
  ASSUME NEW m \in MdbRec, CanInsert(m), NEW p \in Idx \cup {NIL}, NEW c \in Cptrs \cup {0}
  PROVE  Inserted(m, mdb_insert(m, p, c), p, NewIdx(m))
<1> DEFINE idx == NewIdx(m)
           n == mdb_insert(m, p, c)
<1>1. /\ idx \in Idx \ Valid(m) /\ NIL \notin Idx /\ Valid(m) \subseteq Idx
      /\ m.nodes \in [Idx -> NodeRec]
  BY NewIdxFree, NodeFacts DEF MdbRec
<1> DEFINE r == [valid |-> TRUE, cptr |-> c, parent |-> p, first_child |-> NIL, next_sibling |-> NIL]
           fresh == [m.nodes EXCEPT ![idx] = r]
           linked == [fresh EXCEPT ![idx].next_sibling = fresh[p].first_child, ![p].first_child = idx]
<1>2. n.nodes = IF p \in Idx /\ fresh[p].valid THEN linked ELSE fresh
  BY DEF mdb_insert
<1> HIDE DEF idx, n
<1>3. r \in NodeRec /\ r.valid /\ r.parent = p /\ r.first_child = NIL /\ r.next_sibling = NIL
  BY DEF NodeRec
<1>4. fresh \in [Idx -> NodeRec] /\ fresh[idx] = r /\ \A k \in Idx \ {idx} : fresh[k] = m.nodes[k]
  BY <1>1, <1>3
<1>5. CASE p \notin Valid(m) \cup {idx}
  <2>1. n.nodes = fresh
    BY <1>1, <1>2, <1>4, <1>5 DEF Valid
  <2>2. Valid(n) = Valid(m) \cup {idx}
    BY <1>1, <1>3, <1>4, <2>1 DEF Valid
  <2>3. n.nodes[idx] = r /\ \A k \in Valid(m) : n.nodes[k] = m.nodes[k] /\ k # p
    BY <1>1, <1>4, <1>5, <2>1
  <2> HIDE DEF r, fresh
  <2>4. Inserted(m, n, p, idx)
    BY <1>1, <1>3, <1>4, <1>5, <2>1, <2>2, <2>3 DEF Inserted
  <2> QED BY <2>4 DEF n, idx
<1>6. CASE p \in Valid(m)
  <2>1. p \in Idx /\ p # idx /\ fresh[p] = m.nodes[p] /\ m.nodes[p].valid
    BY <1>1, <1>4, <1>6 DEF Valid
  <2>2. n.nodes = linked
    BY <1>2, <2>1
  <2>3. fresh[p] \in NodeRec /\ fresh[idx] \in NodeRec
    BY <1>1, <1>4, <2>1
  <2>4. /\ linked[idx] = [r EXCEPT !.next_sibling = m.nodes[p].first_child]
        /\ linked[p] = [m.nodes[p] EXCEPT !.first_child = idx]
        /\ \A k \in Idx \ {idx, p} : linked[k] = m.nodes[k]
        /\ DOMAIN linked = Idx /\ linked = [k \in Idx |-> linked[k]]
    BY <1>1, <1>4, <2>1, Zenon
  <2> HIDE DEF linked, fresh
  <2>5. linked[idx] \in NodeRec /\ linked[p] \in NodeRec
    <3>1. m.nodes[p].first_child \in Idx \cup {NIL} /\ m.nodes[p] \in NodeRec
      BY <1>1, <2>1 DEF NodeRec
    <3>2. [r EXCEPT !.next_sibling = m.nodes[p].first_child] \in NodeRec
      BY <1>3, <3>1, Zenon DEF NodeRec
    <3>3. [m.nodes[p] EXCEPT !.first_child = idx] \in NodeRec
      BY <1>1, <3>1 DEF NodeRec
    <3> QED BY <2>4, <3>2, <3>3
  <2>6. linked \in [Idx -> NodeRec]
    BY <1>1, <2>4, <2>5, Zenon
  <2>7. /\ linked[idx].valid /\ linked[idx].parent = p /\ linked[idx].first_child = NIL
        /\ linked[idx].next_sibling = m.nodes[p].first_child
    BY <2>4
  <2>8. /\ linked[p].valid /\ linked[p].parent = m.nodes[p].parent /\ linked[p].first_child = idx
        /\ linked[p].next_sibling = m.nodes[p].next_sibling
    BY <2>1, <2>3, <2>4 DEF NodeRec
  <2>9. Valid(n) = Valid(m) \cup {idx}
    <3>1. ASSUME NEW k \in Idx PROVE linked[k].valid <=> m.nodes[k].valid \/ k = idx
      <4>1. CASE k \in {idx, p}
        BY <2>1, <2>7, <2>8, <4>1
      <4>2. CASE k \notin {idx, p}
        BY <2>4, <4>2
      <4> QED BY <4>1, <4>2
    <3> QED BY <1>1, <2>2, <3>1 DEF Valid
  <2>10. ASSUME NEW k \in Valid(m)
         PROVE  /\ linked[k].parent = m.nodes[k].parent
                /\ linked[k].next_sibling = m.nodes[k].next_sibling
                /\ linked[k].first_child = IF k = p THEN idx ELSE m.nodes[k].first_child
    BY <1>1, <2>4, <2>8, ZenonT(60)
  <2>11. Inserted(m, n, p, idx)
    BY <1>1, <1>6, <2>1, <2>2, <2>6, <2>7, <2>9, <2>10 DEF Inserted
  <2> QED BY <2>11 DEF n, idx
<1>7. CASE p = idx
  <2>1. n.nodes = linked /\ fresh[p] = r /\ p \in Idx
    BY <1>1, <1>2, <1>3, <1>4, <1>7, SMTT(60)
  <2>2. /\ linked[idx] = [r EXCEPT !.next_sibling = NIL, !.first_child = idx]
        /\ \A k \in Idx \ {idx} : linked[k] = m.nodes[k]
        /\ DOMAIN linked = Idx /\ linked = [k \in Idx |-> linked[k]]
    BY <1>1, <1>3, <1>4, <1>7, <2>1, SMTT(60)
  <2> HIDE DEF linked, fresh
  <2>3. /\ linked[idx] \in NodeRec /\ linked[idx].valid /\ linked[idx].parent = p
        /\ linked[idx].first_child = idx /\ linked[idx].next_sibling = NIL
    <3>1. linked[idx] = [valid |-> TRUE, cptr |-> c, parent |-> p, first_child |-> idx, next_sibling |-> NIL]
      BY <2>2, Zenon
    <3> QED BY <1>1, <3>1 DEF NodeRec
  <2>4. linked \in [Idx -> NodeRec]
    BY <1>1, <2>2, <2>3
  <2>5. Valid(n) = Valid(m) \cup {idx}
    <3>1. \A k \in Idx : linked[k].valid <=> m.nodes[k].valid \/ k = idx
      BY <2>2, <2>3, ZenonT(60)
    <3> QED BY <1>1, <2>1, <3>1 DEF Valid
  <2>6. Inserted(m, n, p, idx)
    BY <1>1, <1>7, <2>1, <2>2, <2>3, <2>4, <2>5 DEF Inserted
  <2> QED BY <2>6 DEF n, idx
<1> QED BY <1>5, <1>6, <1>7

\* An insertion leaves the chains intact.
LEMMA InsertChains ==
  ASSUME NEW m \in MdbRec, ChainInv(m), NEW n, NEW p, NEW idx, Inserted(m, n, p, idx)
  PROVE  ChainInv(n)
<1>0. /\ Valid(m) \subseteq Idx /\ NIL \notin Idx /\ idx # NIL /\ idx \notin Valid(m)
      /\ Valid(n) = Valid(m) \cup {idx}
      /\ \A k \in Valid(m) : m.nodes[k].next_sibling # idx /\ m.nodes[k].first_child # idx
  <2>1. Valid(m) \subseteq Idx /\ NIL \notin Idx
    BY NodeFacts
  <2>2. idx \in Idx \ Valid(m) /\ Valid(n) = Valid(m) \cup {idx}
    BY SMTT(60) DEF Inserted
  <2> QED BY <2>1, <2>2, SMTT(60) DEF ChainInv, ChainsRight
<1>1. ChainsRight(n)
  <2> SUFFICES ASSUME NEW i \in Valid(n)
               PROVE  /\ n.nodes[i].first_child # NIL =>
                           /\ n.nodes[i].first_child \in Valid(n)
                           /\ n.nodes[n.nodes[i].first_child].parent = i
                      /\ n.nodes[i].next_sibling # NIL =>
                           /\ n.nodes[i].next_sibling \in Valid(n)
                           /\ n.nodes[n.nodes[i].next_sibling].parent = n.nodes[i].parent
                           /\ n.nodes[i].parent \in Valid(n)
                           /\ \/ n.nodes[n.nodes[i].parent].first_child = i
                              \/ \E k \in Valid(n) : n.nodes[k].next_sibling = i
    BY SMTT(60) DEF ChainsRight
  <2>1. n.nodes[i].first_child # NIL =>
           n.nodes[i].first_child \in Valid(n) /\ n.nodes[n.nodes[i].first_child].parent = i
    BY <1>0, SMTT(60) DEF ChainInv, ChainsRight, Inserted
  <2>2. ASSUME i = idx, n.nodes[i].next_sibling # NIL
        PROVE  /\ n.nodes[i].next_sibling \in Valid(n)
               /\ n.nodes[n.nodes[i].next_sibling].parent = n.nodes[i].parent
               /\ n.nodes[i].parent \in Valid(n)
               /\ n.nodes[n.nodes[i].parent].first_child = i
    BY <1>0, <2>2, SMTT(60) DEF ChainInv, ChainsRight, Inserted
  <2>3. ASSUME i \in Valid(m), n.nodes[i].next_sibling # NIL
        PROVE  /\ n.nodes[i].next_sibling \in Valid(n)
               /\ n.nodes[n.nodes[i].next_sibling].parent = n.nodes[i].parent
               /\ n.nodes[i].parent \in Valid(n)
               /\ \/ n.nodes[n.nodes[i].parent].first_child = i
                  \/ \E k \in Valid(n) : n.nodes[k].next_sibling = i
    <3>1. /\ m.nodes[i].next_sibling \in Valid(m) /\ m.nodes[i].parent \in Valid(m)
          /\ m.nodes[m.nodes[i].next_sibling].parent = m.nodes[i].parent
          /\ \/ m.nodes[m.nodes[i].parent].first_child = i
             \/ \E k \in Valid(m) : m.nodes[k].next_sibling = i
      BY <2>3, SMTT(60) DEF ChainInv, ChainsRight, Inserted
    <3>2. /\ n.nodes[i].next_sibling = m.nodes[i].next_sibling /\ n.nodes[i].parent = m.nodes[i].parent
          /\ n.nodes[m.nodes[i].next_sibling].parent = m.nodes[i].parent
      BY <2>3, <3>1, SMTT(60) DEF Inserted
    <3>3. CASE m.nodes[m.nodes[i].parent].first_child = i
      BY <1>0, <3>1, <3>2, <3>3, SMTT(60) DEF Inserted
    <3>4. CASE \E k \in Valid(m) : m.nodes[k].next_sibling = i
      BY <1>0, <3>1, <3>2, <3>4, SMTT(60) DEF Inserted
    <3> QED BY <1>0, <3>1, <3>2, <3>3, <3>4, ZenonT(60)
  <2> QED BY <1>0, <2>1, <2>2, <2>3, ZenonT(60)
<1>2. NoTwoLinks(n)
  <2> SUFFICES ASSUME NEW j \in Valid(n), NEW k \in Valid(n)
               PROVE  /\ n.nodes[j].next_sibling = n.nodes[k].next_sibling /\ n.nodes[j].next_sibling # NIL
                           => j = k
                      /\ n.nodes[j].first_child # NIL => n.nodes[j].first_child # n.nodes[k].next_sibling
    BY DEF NoTwoLinks
  <2> QED BY <1>0 DEF ChainInv, ChainsRight, NoTwoLinks, Inserted
<1>3. ChainsEnd(n)
  <2> SUFFICES ASSUME NEW X \in SUBSET Valid(n), X # {}
               PROVE  \E j \in X : \A k \in X : n.nodes[k].next_sibling # j
    BY DEF ChainsEnd
  <2>1. CASE idx \in X
    <3>1. n.nodes[idx].next_sibling # idx /\ \A k \in Valid(m) : n.nodes[k].next_sibling # idx
      BY <1>0 DEF Inserted
    <3> QED BY <1>0, <2>1, <3>1
  <2>2. CASE idx \notin X
    <3>1. X \in SUBSET Valid(m)
      BY <1>0, <2>2
    <3>2. PICK j \in X : \A k \in X : m.nodes[k].next_sibling # j
      BY <3>1 DEF ChainInv, ChainsEnd
    <3> QED BY <3>1, <3>2 DEF Inserted
  <2> QED BY <2>1, <2>2
<1> QED BY <1>1, <1>2, <1>3 DEF ChainInv

-----------------------------------------------------------------------------
\* mdb_revoke.

\* Table n is m without the nodes of B, and i has no children.
Revoked(m, n, i, B) ==
  /\ n.nodes \in [Idx -> NodeRec]
  /\ Valid(n) = Valid(m) \ B
  /\ \A k \in Idx :
       /\ n.nodes[k].parent = m.nodes[k].parent
       /\ n.nodes[k].next_sibling = m.nodes[k].next_sibling
       /\ n.nodes[k].first_child = IF k = i THEN NIL ELSE m.nodes[k].first_child

\* The fields after a revocation.
LEMMA RevokeFields ==
  ASSUME NEW m \in MdbRec, NEW i
  PROVE  Revoked(m, mdb_revoke(m, i), i, Below(m, i))
<1> DEFINE B == Below(m, i)
           n == mdb_revoke(m, i)
<1>1. n.nodes = [k \in Idx |-> [m.nodes[k] EXCEPT !.valid = @ /\ k \notin B,
                                                  !.first_child = IF k = i THEN NIL ELSE @]]
  BY DEF mdb_revoke
<1> HIDE DEF B, n
<1>2. ASSUME NEW k \in Idx
      PROVE  /\ n.nodes[k] \in NodeRec
             /\ n.nodes[k].valid <=> m.nodes[k].valid /\ k \notin B
             /\ n.nodes[k].parent = m.nodes[k].parent
             /\ n.nodes[k].next_sibling = m.nodes[k].next_sibling
             /\ n.nodes[k].first_child = IF k = i THEN NIL ELSE m.nodes[k].first_child
  <2>1. m.nodes[k] \in NodeRec
    BY DEF MdbRec
  <2>2. n.nodes[k] = [m.nodes[k] EXCEPT !.valid = m.nodes[k].valid /\ k \notin B,
                                        !.first_child = IF k = i THEN NIL ELSE m.nodes[k].first_child]
    BY <1>1, Zenon
  <2> QED BY <2>1, <2>2, ZenonT(60) DEF NodeRec
<1>3. Valid(n) = Valid(m) \ B
  BY <1>2 DEF Valid
<1>4. n.nodes \in [Idx -> NodeRec]
  BY <1>1, <1>2, Zenon
<1>5. Revoked(m, n, i, B)
  BY <1>2, <1>3, <1>4 DEF Revoked
<1> QED BY <1>5 DEF B, n

\* A revocation that ends leaves the chains intact.
LEMMA RevokeChains ==
  ASSUME NEW m \in MdbRec, ChainInv(m), NEW i \in Valid(m), NEW n, NEW B,
         BelowIsApart(m, i, B), Revoked(m, n, i, B)
  PROVE  ChainInv(n)
<1>0. /\ Valid(m) \subseteq Idx /\ NIL \notin Idx /\ Valid(n) = Valid(m) \ B /\ B \subseteq Valid(m) /\ i \notin B
      /\ \A k \in Idx : /\ n.nodes[k].parent = m.nodes[k].parent
                        /\ n.nodes[k].next_sibling = m.nodes[k].next_sibling
                        /\ n.nodes[k].first_child = IF k = i THEN NIL ELSE m.nodes[k].first_child
  BY NodeFacts DEF BelowIsApart, Revoked
<1>1. ChainsRight(n)
  <2> SUFFICES ASSUME NEW k \in Valid(n)
               PROVE  /\ n.nodes[k].first_child # NIL =>
                           /\ n.nodes[k].first_child \in Valid(n)
                           /\ n.nodes[n.nodes[k].first_child].parent = k
                      /\ n.nodes[k].next_sibling # NIL =>
                           /\ n.nodes[k].next_sibling \in Valid(n)
                           /\ n.nodes[n.nodes[k].next_sibling].parent = n.nodes[k].parent
                           /\ n.nodes[k].parent \in Valid(n)
                           /\ \/ n.nodes[n.nodes[k].parent].first_child = k
                              \/ \E l \in Valid(n) : n.nodes[l].next_sibling = k
    BY DEF ChainsRight
  <2>1. n.nodes[k].first_child # NIL =>
           n.nodes[k].first_child \in Valid(n) /\ n.nodes[n.nodes[k].first_child].parent = k
    BY <1>0 DEF ChainInv, ChainsRight, BelowIsApart
  <2>2. ASSUME n.nodes[k].next_sibling # NIL
        PROVE  /\ n.nodes[k].next_sibling \in Valid(n)
               /\ n.nodes[n.nodes[k].next_sibling].parent = n.nodes[k].parent
               /\ n.nodes[k].parent \in Valid(n)
               /\ \/ n.nodes[n.nodes[k].parent].first_child = k
                  \/ \E l \in Valid(n) : n.nodes[l].next_sibling = k
    <3> DEFINE p == m.nodes[k].parent
               z == m.nodes[k].next_sibling
    <3>1. /\ k \in Valid(m) /\ k \notin B /\ z # NIL /\ z \in Valid(m) /\ m.nodes[z].parent = p
          /\ p \in Valid(m)
          /\ m.nodes[p].first_child = k \/ \E l \in Valid(m) : m.nodes[l].next_sibling = k
      BY <1>0, <2>2 DEF ChainInv, ChainsRight
    <3>2. z \notin B /\ p \notin B /\ p # i
      BY <3>1 DEF BelowIsApart
    <3>3. n.nodes[k].next_sibling = z /\ n.nodes[k].parent = p /\ n.nodes[z].parent = p
      BY <1>0, <3>1
    <3>4. CASE m.nodes[p].first_child = k
      BY <1>0, <3>1, <3>2, <3>3, <3>4
    <3>5. ASSUME NEW l \in Valid(m), m.nodes[l].next_sibling = k PROVE l \in Valid(n) /\ n.nodes[l].next_sibling = k
      BY <1>0, <3>1, <3>5 DEF BelowIsApart
    <3> HIDE DEF p, z
    <3> QED BY <1>0, <3>1, <3>2, <3>3, <3>4, <3>5
  <2> QED BY <2>1, <2>2
<1>2. NoTwoLinks(n)
  BY <1>0 DEF ChainInv, NoTwoLinks
<1>3. ChainsEnd(n)
  <2> SUFFICES ASSUME NEW X \in SUBSET Valid(n), X # {}
               PROVE  \E j \in X : \A k \in X : n.nodes[k].next_sibling # j
    BY DEF ChainsEnd
  <2>1. X \in SUBSET Valid(m)
    BY <1>0
  <2>2. PICK j \in X : \A k \in X : m.nodes[k].next_sibling # j
    BY <2>1 DEF ChainInv, ChainsEnd
  <2> QED BY <1>0, <2>1, <2>2
<1> QED BY <1>1, <1>2, <1>3 DEF ChainInv

-----------------------------------------------------------------------------
\* mdb_delete.

\* Taking node i out of the list of its parent leads the link to it past it.
LEMMA UnlinkFields ==
  ASSUME NEW m \in MdbRec, ChainInv(m), NEW i \in Valid(m), m.nodes[i].first_child = NIL
  PROVE  /\ Unlink(m, i) \in [Idx -> NodeRec]
         /\ \A k \in Idx : /\ Unlink(m, i)[k].valid = m.nodes[k].valid
                           /\ Unlink(m, i)[k].parent = m.nodes[k].parent
         /\ \A k \in Valid(m) :
              /\ Unlink(m, i)[k].first_child =
                   IF m.nodes[k].first_child = i THEN m.nodes[i].next_sibling
                                                 ELSE m.nodes[k].first_child
              /\ Unlink(m, i)[k].next_sibling =
                   IF m.nodes[k].next_sibling = i THEN m.nodes[i].next_sibling
                                                  ELSE m.nodes[k].next_sibling
<1> DEFINE p == m.nodes[i].parent
           s == m.nodes[i].next_sibling
           u == Unlink(m, i)
<1>0. /\ Valid(m) \subseteq Idx /\ NIL \notin Idx /\ i \in Idx /\ i # NIL /\ s \in Idx \cup {NIL}
      /\ m.nodes \in [Idx -> NodeRec] /\ p \in Idx \cup {NIL}
  BY NodeFacts DEF MdbRec
<1>1. \A k \in Valid(m) : /\ m.nodes[k].first_child = i => k = p
                          /\ m.nodes[k].next_sibling = i =>
                               p \in Valid(m) /\ p # NIL /\ m.nodes[k].parent = p
  BY <1>0 DEF ChainInv, ChainsRight
<1>2. CASE p = NIL
  <2>1. u = m.nodes
    BY <1>2 DEF Unlink
  <2>2. \A k \in Valid(m) : m.nodes[k].first_child # i /\ m.nodes[k].next_sibling # i
    BY <1>0, <1>1, <1>2
  <2> QED BY <1>0, <2>1, <2>2
<1>3. CASE p # NIL /\ m.nodes[p].first_child = i
  <2>1. u = [m.nodes EXCEPT ![p].first_child = s] /\ p \in Idx
    BY <1>0, <1>3, SMTT(60) DEF Unlink
  <2>2. /\ u[p] = [m.nodes[p] EXCEPT !.first_child = s] /\ m.nodes[p] \in NodeRec
        /\ \A k \in Idx \ {p} : u[k] = m.nodes[k]
        /\ u = [k \in Idx |-> u[k]]
    BY <1>0, <2>1
  <2> HIDE DEF u
  <2>3. /\ u[p] \in NodeRec /\ u[p].valid = m.nodes[p].valid /\ u[p].parent = m.nodes[p].parent
        /\ u[p].first_child = s /\ u[p].next_sibling = m.nodes[p].next_sibling
    BY <1>0, <2>2 DEF NodeRec
  <2>4. u \in [Idx -> NodeRec]
    BY <1>0, <2>2, <2>3
  <2>5. \A k \in Valid(m) : m.nodes[k].next_sibling # i
    BY <1>0, <1>1, <1>3 DEF ChainInv, NoTwoLinks
  <2>6. ASSUME NEW k \in Valid(m)
        PROVE  /\ u[k].first_child = IF m.nodes[k].first_child = i THEN s ELSE m.nodes[k].first_child
               /\ u[k].next_sibling = IF m.nodes[k].next_sibling = i THEN s ELSE m.nodes[k].next_sibling
    BY <1>0, <1>1, <1>3, <2>2, <2>3, <2>5, Zenon
  <2>7. \A k \in Idx : u[k].valid = m.nodes[k].valid /\ u[k].parent = m.nodes[k].parent
    BY <2>2, <2>3, Zenon
  <2> QED BY <2>4, <2>6, <2>7 DEF u
<1>4. CASE p # NIL /\ m.nodes[p].first_child # i
  <2> DEFINE prev == {j \in Children(m, p) : m.nodes[j].next_sibling = i}
  <2>1. u = [j \in Idx |-> [m.nodes[j] EXCEPT !.next_sibling = IF j \in prev THEN s ELSE @]]
    BY <1>4 DEF Unlink
  <2>2. \A k \in Valid(m) : k \in prev <=> m.nodes[k].next_sibling = i
    <3> DEFINE C == Children(m, p)
               f == [j \in Idx |-> {m.nodes[j].next_sibling}]
    <3>1. /\ C \subseteq Idx /\ {m.nodes[p].first_child} \cap Idx \subseteq C
          /\ \A j \in C : f[j] \cap Idx \subseteq C
      BY ClosureFacts DEF Children
    <3>2. \A j \in Idx : f[j] = {m.nodes[j].next_sibling}
      OBVIOUS
    <3> HIDE DEF C, f
    <3>3. /\ p \in Idx => m.nodes[p].first_child \in C \cup {NIL}
          /\ \A j \in C : m.nodes[j].next_sibling \in C \cup {NIL}
      BY <3>1, <3>2, NodeFacts
    <3>4. ASSUME NEW k \in Valid(m), m.nodes[k].next_sibling = i PROVE k \in C
      BY <1>0, <1>1, <3>1, <3>3, <3>4, InChain
    <3> QED BY <3>4, SMTT(60) DEF C
  <2> HIDE DEF prev, u
  <2>3. ASSUME NEW k \in Idx
        PROVE  /\ u[k] \in NodeRec /\ u[k].valid = m.nodes[k].valid /\ u[k].parent = m.nodes[k].parent
               /\ u[k].first_child = m.nodes[k].first_child
               /\ u[k].next_sibling = IF k \in prev THEN s ELSE m.nodes[k].next_sibling
    <3>1. m.nodes[k] \in NodeRec
      BY <1>0
    <3>2. u[k] = [m.nodes[k] EXCEPT !.next_sibling = IF k \in prev THEN s ELSE m.nodes[k].next_sibling]
      BY <2>1
    <3> QED BY <1>0, <3>1, <3>2 DEF NodeRec
  <2>4. u \in [Idx -> NodeRec]
    BY <2>1, <2>3
  <2>5. \A k \in Valid(m) : m.nodes[k].first_child # i
    BY <1>1, <1>4
  <2> QED BY <1>0, <2>2, <2>3, <2>4, <2>5 DEF u
<1> QED BY <1>2, <1>3, <1>4

\* Table n is m without node i, and links that led to i lead past it.
Deleted(m, n, i) ==
  /\ n.nodes \in [Idx -> NodeRec] /\ Valid(n) = Valid(m) \ {i}
  /\ \A k \in Valid(n) :
       /\ n.nodes[k].parent = m.nodes[k].parent
       /\ n.nodes[k].first_child = IF m.nodes[k].first_child = i THEN m.nodes[i].next_sibling
                                                                 ELSE m.nodes[k].first_child
       /\ n.nodes[k].next_sibling = IF m.nodes[k].next_sibling = i THEN m.nodes[i].next_sibling
                                                                   ELSE m.nodes[k].next_sibling

\* The fields after a deletion.
LEMMA DeleteFields ==
  ASSUME NEW m \in MdbRec, ChainInv(m), NEW i \in Valid(m), m.nodes[i].first_child = NIL
  PROVE  Deleted(m, mdb_delete(m, i), i)
<1> DEFINE u == Unlink(m, i)
           n == mdb_delete(m, i)
           z == [valid |-> FALSE, cptr |-> 0, parent |-> NIL, first_child |-> NIL, next_sibling |-> NIL]
<1>1. n.nodes = [u EXCEPT ![i] = z]
  BY DEF mdb_delete
<1>2. /\ u \in [Idx -> NodeRec]
      /\ \A k \in Idx : u[k].valid = m.nodes[k].valid /\ u[k].parent = m.nodes[k].parent
      /\ \A k \in Valid(m) :
           /\ u[k].first_child = IF m.nodes[k].first_child = i THEN m.nodes[i].next_sibling
                                                               ELSE m.nodes[k].first_child
           /\ u[k].next_sibling = IF m.nodes[k].next_sibling = i THEN m.nodes[i].next_sibling
                                                                 ELSE m.nodes[k].next_sibling
  BY UnlinkFields
<1>3. i \in Idx /\ Valid(m) \subseteq Idx
  BY NodeFacts
<1> HIDE DEF u, n
<1>4. z \in NodeRec /\ ~z.valid
  BY DEF NodeRec
<1>5. /\ n.nodes \in [Idx -> NodeRec] /\ n.nodes[i] = z /\ \A k \in Idx \ {i} : n.nodes[k] = u[k]
  BY <1>1, <1>2, <1>3, <1>4
<1>6. Valid(n) = Valid(m) \ {i}
  BY <1>2, <1>4, <1>5 DEF Valid
<1>7. Deleted(m, n, i)
  BY <1>2, <1>3, <1>5, <1>6 DEF Deleted
<1> QED BY <1>7 DEF n

\* A deletion leaves the chains intact.
LEMMA DeleteChains ==
  ASSUME NEW m \in MdbRec, ChainInv(m), NEW i \in Valid(m), m.nodes[i].first_child = NIL,
         NEW n, Deleted(m, n, i)
  PROVE  ChainInv(n)
<1> DEFINE s == m.nodes[i].next_sibling
<1>0. /\ Valid(m) \subseteq Idx /\ NIL \notin Idx /\ i # NIL /\ Valid(n) = Valid(m) \ {i}
      /\ \A k \in Valid(n) :
           /\ n.nodes[k].parent = m.nodes[k].parent
           /\ n.nodes[k].first_child = IF m.nodes[k].first_child = i THEN s ELSE m.nodes[k].first_child
           /\ n.nodes[k].next_sibling = IF m.nodes[k].next_sibling = i THEN s ELSE m.nodes[k].next_sibling
  BY NodeFacts DEF Deleted
<1>1. \A k \in Valid(m) : m.nodes[k].next_sibling # NIL => m.nodes[k].parent # i
  <2> SUFFICES ASSUME NEW k \in Valid(m), m.nodes[k].next_sibling # NIL, m.nodes[k].parent = i PROVE FALSE
    OBVIOUS
  <2>1. k \in {}
    BY InChain, {} \in SUBSET Idx, Zenon
  <2> QED BY <2>1
<1>2. s # i
  <2>1. {i} \in SUBSET Valid(m) /\ {i} # {}
    OBVIOUS
  <2> QED BY <2>1, ZenonT(60) DEF ChainInv, ChainsEnd
<1>3. s # NIL => s \in Valid(n) /\ m.nodes[s].parent = m.nodes[i].parent /\ m.nodes[i].parent \in Valid(n)
  BY <1>0, <1>1, <1>2 DEF ChainInv, ChainsRight
<1>4. ChainsRight(n)
  <2> SUFFICES ASSUME NEW k \in Valid(n)
               PROVE  /\ n.nodes[k].first_child # NIL =>
                           /\ n.nodes[k].first_child \in Valid(n)
                           /\ n.nodes[n.nodes[k].first_child].parent = k
                      /\ n.nodes[k].next_sibling # NIL =>
                           /\ n.nodes[k].next_sibling \in Valid(n)
                           /\ n.nodes[n.nodes[k].next_sibling].parent = n.nodes[k].parent
                           /\ n.nodes[k].parent \in Valid(n)
                           /\ \/ n.nodes[n.nodes[k].parent].first_child = k
                              \/ \E l \in Valid(n) : n.nodes[l].next_sibling = k
    BY DEF ChainsRight
  <2>0. k \in Valid(m) /\ k # i
    BY <1>0
  <2>1. ASSUME n.nodes[k].first_child # NIL
        PROVE  n.nodes[k].first_child \in Valid(n) /\ n.nodes[n.nodes[k].first_child].parent = k
    <3>1. CASE m.nodes[k].first_child = i
      <4>1. n.nodes[k].first_child = s /\ s \in Valid(n) /\ n.nodes[s].parent = m.nodes[s].parent
        BY <1>0, <1>3, <2>1, <3>1, SMTT(60)
      <4>2. m.nodes[i].parent = k
        BY <1>0, <2>0, <3>1, SMTT(60) DEF ChainInv, ChainsRight
      <4> QED BY <1>3, <2>1, <4>1, <4>2, SMTT(60)
    <3>2. CASE m.nodes[k].first_child # i
      BY <1>0, <2>0, <2>1, <3>2, SMTT(60) DEF ChainInv, ChainsRight
    <3> QED BY <3>1, <3>2, SMTT(60)
  <2>2. ASSUME n.nodes[k].next_sibling # NIL
        PROVE  /\ n.nodes[k].next_sibling \in Valid(n)
               /\ n.nodes[n.nodes[k].next_sibling].parent = n.nodes[k].parent
               /\ n.nodes[k].parent \in Valid(n)
    <3>1. m.nodes[k].next_sibling # NIL
      BY <1>0, <2>2, SMTT(60)
    <3>2. /\ m.nodes[k].next_sibling \in Valid(m) /\ m.nodes[m.nodes[k].next_sibling].parent = m.nodes[k].parent
          /\ m.nodes[k].parent \in Valid(n)
      BY <1>0, <1>1, <2>0, <3>1, SMTT(60) DEF ChainInv, ChainsRight
    <3>3. CASE m.nodes[k].next_sibling = i
      BY <1>0, <1>3, <2>2, <3>2, <3>3, SMTT(60)
    <3>4. CASE m.nodes[k].next_sibling # i
      BY <1>0, <3>2, <3>4, SMTT(60)
    <3> QED BY <3>3, <3>4
  <2>3. ASSUME n.nodes[k].next_sibling # NIL
        PROVE  \/ n.nodes[n.nodes[k].parent].first_child = k
               \/ \E l \in Valid(n) : n.nodes[l].next_sibling = k
    <3> DEFINE p == m.nodes[k].parent
    <3>1. m.nodes[k].next_sibling # NIL /\ n.nodes[k].parent = p /\ p \in Valid(n)
      BY <1>0, <2>2, <2>3, SMTT(60)
    <3>2. CASE m.nodes[p].first_child = k
      BY <1>0, <2>0, <3>1, <3>2, SMTT(60)
    <3>3. CASE m.nodes[p].first_child # k
      <4>1. PICK l \in Valid(m) : m.nodes[l].next_sibling = k
        BY <2>0, <3>1, <3>3 DEF ChainInv, ChainsRight
      <4>2. CASE l # i
        BY <1>0, <2>0, <4>1, <4>2
      <4>3. CASE l = i
        <5>1. k = s /\ s # NIL /\ m.nodes[i].parent = p
          BY <1>0, <1>3, <2>0, <4>1, <4>3, SMTT(60)
        <5>2. CASE m.nodes[p].first_child = i
          BY <1>0, <3>1, <5>1, <5>2, Zenon
        <5>3. CASE m.nodes[p].first_child # i
          <6>1. PICK q \in Valid(m) : m.nodes[q].next_sibling = i
            BY <5>1, <5>3, Zenon DEF ChainInv, ChainsRight
          <6>2. q # i
            BY <1>2, <6>1
          <6> QED BY <1>0, <5>1, <6>1, <6>2, Zenon
        <5> QED BY <5>2, <5>3
      <4> QED BY <4>2, <4>3
    <3> QED BY <3>2, <3>3, SMTT(60)
  <2> QED BY <2>1, <2>2, <2>3, SMTT(60)
<1>5. NoTwoLinks(n)
  <2> SUFFICES ASSUME NEW j \in Valid(n), NEW k \in Valid(n)
               PROVE  /\ n.nodes[j].next_sibling = n.nodes[k].next_sibling /\ n.nodes[j].next_sibling # NIL
                           => j = k
                      /\ n.nodes[j].first_child # NIL => n.nodes[j].first_child # n.nodes[k].next_sibling
    BY DEF NoTwoLinks
  <2>1. /\ j \in Valid(m) /\ k \in Valid(m) /\ j # i /\ k # i
        /\ m.nodes[j].first_child # m.nodes[k].next_sibling \/ m.nodes[j].first_child = NIL
    BY <1>0 DEF ChainInv, NoTwoLinks
  <2>2. s # NIL => /\ \A l \in Valid(m) : m.nodes[l].next_sibling = s => l = i
                   /\ \A l \in Valid(m) : m.nodes[l].first_child # s
    BY DEF ChainInv, NoTwoLinks
  <2>3. m.nodes[j].next_sibling = m.nodes[k].next_sibling /\ m.nodes[j].next_sibling # NIL => j = k
    BY <2>1 DEF ChainInv, NoTwoLinks
  <2> HIDE DEF s
  <2> QED BY <1>0, <2>1, <2>2, <2>3
<1>6. ChainsEnd(n)
  <2> SUFFICES ASSUME NEW X \in SUBSET Valid(n), X # {}
               PROVE  \E j \in X : \A k \in X : n.nodes[k].next_sibling # j
    BY DEF ChainsEnd
  <2>0. X \in SUBSET Valid(m) /\ i \notin X /\ X \cup {i} \in SUBSET Valid(m) /\ X \cup {i} # {}
    BY <1>0
  <2>1. \A k \in X : n.nodes[k].next_sibling = IF m.nodes[k].next_sibling = i THEN s ELSE m.nodes[k].next_sibling
    BY <1>0
  <2>2. PICK j \in X \cup {i} : \A k \in X \cup {i} : m.nodes[k].next_sibling # j
    BY <2>0, Zenon DEF ChainInv, ChainsEnd
  <2>3. CASE j # i
    BY <2>1, <2>2, <2>3
  <2>4. CASE j = i
    <3>1. PICK l \in X : \A k \in X : m.nodes[k].next_sibling # l
      BY <2>0 DEF ChainInv, ChainsEnd
    <3> QED BY <2>1, <2>2, <2>4, <3>1
  <2> QED BY <2>3, <2>4
<1> QED BY <1>4, <1>5, <1>6 DEF ChainInv

-----------------------------------------------------------------------------
\* The whole table.

\* The table is well-typed, its chains are intact, and count counts.
TableInv(m) == m \in MdbRec /\ ChainInv(m) /\ m.count = Cardinality(Valid(m))

\* The empty table is in order.
LEMMA InitTable == TableInv(mdb_init) /\ Valid(mdb_init) = {}
<1> DEFINE m == mdb_init
<1>1. m \in MdbRec /\ Valid(m) = {} /\ m.count = 0
  BY MdbAssumption DEF mdb_init, MdbRec, NodeRec, Valid, Idx, NIL
<1> HIDE DEF m
<1>2. ChainInv(m)
  BY <1>1 DEF ChainInv, ChainsRight, NoTwoLinks, ChainsEnd
<1> QED BY <1>1, <1>2, FS_EmptySet DEF TableInv, m

\* Recorded nodes can be counted.
LEMMA ValidFinite ==
  ASSUME NEW m
  PROVE  IsFiniteSet(Valid(m)) /\ Cardinality(Valid(m)) \in 0 .. MaxNodes
BY BelowIsFinite, MdbAssumption DEF Valid, Idx

\* mdb_insert keeps the table in order, whatever parent it is given.
LEMMA InsertTable ==
  ASSUME NEW m, TableInv(m), CanInsert(m), NEW p \in Idx \cup {NIL}, NEW c \in Cptrs \cup {0}
  PROVE  TableInv(mdb_insert(m, p, c))
<1> DEFINE idx == NewIdx(m)
           n == mdb_insert(m, p, c)
<1>1. m \in MdbRec /\ ChainInv(m) /\ m.count = Cardinality(Valid(m))
  BY DEF TableInv
<1>2. Inserted(m, n, p, idx)
  BY <1>1, InsertFields
<1>3. /\ n.count = m.count + 1
      /\ n.free_head = IF idx = m.free_head THEN idx + 1 ELSE m.free_head
      /\ n = [nodes |-> n.nodes, count |-> n.count, free_head |-> n.free_head]
  BY DEF mdb_insert
<1> HIDE DEF n, idx
<1>4. ChainInv(n)
  BY <1>1, <1>2, InsertChains
<1>5. n.nodes \in [Idx -> NodeRec] /\ Valid(n) = Valid(m) \cup {idx} /\ idx \in Idx \ Valid(m)
  BY <1>2 DEF Inserted
<1>6. n \in MdbRec
  <2>1. m.count \in 0 .. MaxNodes /\ m.free_head \in 0 .. MaxNodes /\ m.count < MaxNodes
    BY <1>1 DEF MdbRec, CanInsert
  <2>2. n.count \in 0 .. MaxNodes /\ n.free_head \in 0 .. MaxNodes
    BY <1>3, <1>5, <2>1, MdbAssumption DEF Idx
  <2> QED BY <1>3, <1>5, <2>2 DEF MdbRec
<1>7. Cardinality(Valid(n)) = Cardinality(Valid(m)) + 1
  BY <1>5, ValidFinite, FS_AddElement, Zenon
<1> QED BY <1>1, <1>3, <1>4, <1>6, <1>7 DEF TableInv, n

\* mdb_revoke keeps the table in order if its recursion ends.
LEMMA RevokeTable ==
  ASSUME NEW m, TableInv(m), NEW i \in Valid(m), i \notin Below(m, i)
  PROVE  /\ TableInv(mdb_revoke(m, i))
         /\ mdb_revoke(m, i).free_head \in Below(m, i) \cup {m.free_head}
         /\ \A j \in Below(m, i) \cup {m.free_head} : mdb_revoke(m, i).free_head <= j
<1> DEFINE n == mdb_revoke(m, i)
           B == Below(m, i)
<1>1. m \in MdbRec /\ ChainInv(m) /\ m.count = Cardinality(Valid(m))
  BY DEF TableInv
<1>2. Revoked(m, n, i, B) /\ BelowIsApart(m, i, B)
  BY <1>1, RevokeFields, BelowApart
<1>3. /\ n.count = m.count - Cardinality(B) /\ n.free_head = Min(B \cup {m.free_head})
      /\ n = [nodes |-> n.nodes, count |-> n.count, free_head |-> n.free_head]
  BY DEF mdb_revoke
<1> HIDE DEF n, B
<1>4. ChainInv(n)
  BY <1>1, <1>2, RevokeChains
<1>5. n.nodes \in [Idx -> NodeRec] /\ Valid(n) = Valid(m) \ B /\ B \subseteq Valid(m)
  BY <1>2 DEF Revoked, BelowIsApart
<1>6. Cardinality(Valid(n)) = Cardinality(Valid(m)) - Cardinality(B)
  <2>1. Valid(m) \cap B = B /\ IsFiniteSet(Valid(m))
    BY <1>5, ValidFinite
  <2>2. Cardinality(Valid(m) \ B) = Cardinality(Valid(m)) - Cardinality(Valid(m) \cap B)
    BY <2>1, FS_Difference
  <2> QED BY <1>5, <2>1, <2>2
<1>7. n.free_head \in B \cup {m.free_head} /\ \A j \in B \cup {m.free_head} : n.free_head <= j
  <2>1. B \cup {m.free_head} \in SUBSET Nat
    BY <1>1, <1>5, NodeFacts, MdbAssumption DEF MdbRec
  <2> QED BY <1>3, <2>1, MinIsMember
<1>8. n \in MdbRec
  <2>1. n.free_head \in 0 .. MaxNodes
    BY <1>1, <1>5, <1>7, NodeFacts, MdbAssumption DEF MdbRec, Idx
  <2>2. Cardinality(Valid(n)) \in 0 .. MaxNodes
    BY ValidFinite
  <2> QED BY <1>1, <1>3, <1>5, <1>6, <2>1, <2>2 DEF MdbRec
<1> QED BY <1>1, <1>3, <1>4, <1>6, <1>7, <1>8 DEF TableInv, n, B

\* mdb_delete keeps the table in order.
LEMMA DeleteTable ==
  ASSUME NEW m, TableInv(m), NEW i \in Idx, CanDelete(m, i)
  PROVE  /\ TableInv(mdb_delete(m, i))
         /\ mdb_delete(m, i).free_head \in {i, m.free_head}
         /\ mdb_delete(m, i).free_head <= i /\ mdb_delete(m, i).free_head <= m.free_head
<1> DEFINE n == mdb_delete(m, i)
<1>1. /\ m \in MdbRec /\ ChainInv(m) /\ m.count = Cardinality(Valid(m))
      /\ i \in Valid(m) /\ m.nodes[i].first_child = NIL
  BY DEF TableInv, CanDelete, Valid
<1>2. Deleted(m, n, i)
  BY <1>1, DeleteFields
<1>3. /\ n.count = m.count - 1 /\ n.free_head = Min({i, m.free_head})
      /\ n = [nodes |-> n.nodes, count |-> n.count, free_head |-> n.free_head]
  BY DEF mdb_delete
<1> HIDE DEF n
<1>4. ChainInv(n)
  BY <1>1, <1>2, DeleteChains
<1>5. n.nodes \in [Idx -> NodeRec] /\ Valid(n) = Valid(m) \ {i}
  BY <1>2 DEF Deleted
<1>6. Cardinality(Valid(n)) = Cardinality(Valid(m)) - 1
  BY <1>1, <1>5, ValidFinite, FS_RemoveElement, ZenonT(60)
<1>7. n.free_head \in {i, m.free_head} /\ n.free_head <= i /\ n.free_head <= m.free_head
  <2>1. {i, m.free_head} \in SUBSET Nat
    BY <1>1, NodeFacts, MdbAssumption DEF MdbRec
  <2> QED BY <1>3, <2>1, MinIsMember
<1>8. n \in MdbRec
  <2>1. n.free_head \in 0 .. MaxNodes
    BY <1>1, <1>7, NodeFacts, MdbAssumption DEF MdbRec, Idx
  <2>2. Cardinality(Valid(n)) \in 0 .. MaxNodes
    BY ValidFinite
  <2> QED BY <1>1, <1>3, <1>5, <1>6, <2>1, <2>2 DEF MdbRec
<1> QED BY <1>1, <1>3, <1>4, <1>6, <1>7, <1>8 DEF TableInv, n
=============================================================================
