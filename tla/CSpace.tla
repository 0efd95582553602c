------------------------------- MODULE CSpace -------------------------------
(***************************************************************************)
(* The capability space of the kernel: the root CNode and the mapping      *)
(* database, changed by the capability invocations of handle_invoke        *)
(* (kernel/src/syscall.c).  The invoked capability is the one in slot u of *)
(* the root CNode.  A call that returns an error changes nothing.          *)
(***************************************************************************)
EXTENDS CNode, Mdb

CONSTANTS
  InitCaps,      \* the root CNode when the first process may call
  DefaultSlot,   \* destination of a retype that names slot 0 (5 in the code)
  RetypeTypes    \* types that processes ask for

ASSUME CSpaceAssumption ==
  /\ IsFiniteSet(Slots) /\ DefaultSlot \in Slots /\ Slots \subseteq Cptrs \cup {0}
  /\ Sizes \subseteq Nat /\ RetypeTypes \subseteq Types
  /\ NoCap \notin Caps
  /\ InitCaps \in [Slots -> Caps \cup {NoCap}]

VARIABLES
  root,   \* g_root_cnode
  mdb     \* g_mdb

cvars == <<root, mdb>>

\* Boot stores the Untyped in slot 0 and records it as the first node.
CInit ==
  /\ root = [slots |-> InitCaps, used |-> Cardinality({i \in Slots : InitCaps[i] # NoCap})]
  /\ mdb = mdb_insert(mdb_init, NIL, 0)

Invocable(u, type) == root.slots[u] # NoCap /\ root.slots[u].type = type

\* Destination 0 stands for the default slot.
Destination(arg) == IF arg = 0 THEN DefaultSlot ELSE arg

\* The conditions under which INV_UNTYPED_RETYPE returns ERR_OK.
CanRetype(u, type, size, arg) ==
  /\ Invocable(u, "UNTYPED")
  /\ cap_can_retype(root.slots[u], type, size)
  /\ root.slots[Destination(arg)] = NoCap

\* INV_UNTYPED_RETYPE.  The parent in the mapping database is always node 0,
\* and a failed insertion goes unnoticed.
Retype(u, type, size, arg) ==
  /\ CanRetype(u, type, size, arg)
  /\ root' = Fill(root, Destination(arg), cap_retype(type, root.slots[u].obj, size))
  /\ mdb' = IF CanInsert(mdb) THEN mdb_insert(mdb, 0, Destination(arg)) ELSE mdb

\* INV_CNODE_COPY, with the rights of the CNode capability
Copy(u, dst, src) ==
  /\ Invocable(u, "CNODE")
  /\ CanCopy(root, dst, src, root.slots[u].rights)
  /\ root' = cnode_copy(root, dst, src, root.slots[u].rights)
  /\ UNCHANGED mdb

\* INV_CNODE_MINT
Mint(u, dst, src, badge) ==
  /\ Invocable(u, "CNODE")
  /\ CanMint(root, dst, src, root.slots[u].rights, badge)
  /\ root' = cnode_mint(root, dst, src, root.slots[u].rights, badge)
  /\ UNCHANGED mdb

\* INV_CNODE_MOVE
Move(u, dst, src) ==
  /\ Invocable(u, "CNODE")
  /\ CanMove(root, dst, src)
  /\ root' = cnode_move(root, dst, src)
  /\ UNCHANGED mdb

\* INV_CNODE_DELETE: the mapping database keeps the node.
Delete(u, i) ==
  /\ Invocable(u, "CNODE")
  /\ root.slots[i] # NoCap
  /\ root' = cnode_delete(root, i)
  /\ UNCHANGED mdb

RetypeStep ==
  \E u, arg \in Slots, type \in RetypeTypes, size \in Sizes : Retype(u, type, size, arg)

CNext ==
  \/ RetypeStep
  \/ \E u, dst, src \in Slots : Copy(u, dst, src) \/ Move(u, dst, src)
  \/ \E u, dst, src \in Slots, b \in Badges : Mint(u, dst, src, b)
  \/ \E u, i \in Slots : Delete(u, i)

-----------------------------------------------------------------------------

\* The root CNode and the mapping database are well-typed.
CTypeOK ==
  /\ root.slots \in [Slots -> Caps \cup {NoCap}]
  /\ root.used \in 0 .. Cardinality(Slots)
  /\ mdb \in MdbRec

\* used counts the occupied slots of the root CNode after any sequence of
\* retypes, copies, mints, moves and deletes.
UsedCounts == root.used = Cardinality(Used(root))

\* Every capability that appears in a slot was either carved from an Untyped in
\* the CNode or has its object, and at least its rights, from a capability that
\* was in the CNode before: no operation invents authority.
NoAuthorityInvented ==
  [][ \A i \in Slots :
        root'.slots[i] \notin {root.slots[i], NoCap} =>
          \E j \in Used(root) :
            /\ root.slots[j].obj = root'.slots[i].obj
            /\ \/ root'.slots[i].rights \subseteq root.slots[j].rights
                    /\ root'.slots[i].type = root.slots[j].type
               \/ root.slots[j].type = "UNTYPED" /\ root'.slots[i].size <= root.slots[j].size
    ]_cvars
=============================================================================
