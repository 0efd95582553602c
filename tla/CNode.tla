------------------------------- MODULE CNode --------------------------------
(***************************************************************************)
(* Capabilities (kernel/src/cap.c) and the operations on the slots of a    *)
(* CNode (kernel/src/cnode.c).  A CNode is a record of its slots and the   *)
(* counter used.  Every capability the kernel stores has its hardware tag  *)
(* set, so a slot is usable exactly when it is not NoCap.  Sizes are in    *)
(* pages.  The operations of handle_invoke all name the root CNode, of     *)
(* radix 8, as source and destination, so a slot number is its index.      *)
(***************************************************************************)
EXTENDS Integers, FiniteSets

CONSTANTS
  Slots,       \* slot numbers of a CNode (0 .. 255)
  Objects,     \* addresses of kernel objects and memory
  Sizes,       \* sizes in pages that occur
  Badges,
  NoCap        \* an empty slot

Types == {"UNTYPED", "CNODE", "TCB", "VSPACE", "FRAME", "ENDPOINT"}

\* The bits of the rights word that matter; HIGH stands for the bits above 0xF.
Rights == {"READ", "WRITE", "GRANT", "REPLY", "HIGH"}

AllRights == Rights

\* 0xF, what a retyped capability starts with
LowRights == Rights \ {"HIGH"}

Caps == [ type : Types, rights : SUBSET Rights, badge : Badges \cup {0},
          obj : Objects, size : Sizes ]

Used(cn) == {i \in Slots : cn.slots[i] # NoCap}

-----------------------------------------------------------------------------

\* Slip: the comparison with the rights of the parent is missing.
DeriveAnything(parent, rights, badge) ==
  [parent EXCEPT !.rights = rights, !.badge = badge]

\* A capability with rights the parent does not have comes out invalid.
cap_derive(parent, rights, badge) ==
  IF rights \subseteq parent.rights
    THEN [parent EXCEPT !.rights = rights, !.badge = badge] ELSE NoCap

PowerOfTwo(n) == \E k \in 0 .. n : n = 2 ^ k

cap_can_retype(untyped, type, size) ==
  /\ untyped.type = "UNTYPED"
  /\ size <= untyped.size
  /\ type # "UNTYPED"
  /\ PowerOfTwo(size)

cap_retype(type, obj, size) ==
  [type |-> type, rights |-> LowRights, badge |-> 0, obj |-> obj, size |-> size]

-----------------------------------------------------------------------------

\* Store a capability in an empty slot.
Fill(cn, i, cap) == [slots |-> [cn.slots EXCEPT ![i] = cap], used |-> cn.used + 1]

\* The conditions under which cnode_copy and cnode_mint return ERR_OK.
CanCopy(cn, dst, src, rights) ==
  /\ cn.slots[src] # NoCap
  /\ rights \subseteq cn.slots[src].rights
  /\ cn.slots[dst] = NoCap

cnode_copy(cn, dst, src, rights) ==
  Fill(cn, dst, cap_derive(cn.slots[src], rights, cn.slots[src].badge))

CanMint(cn, dst, src, rights, badge) ==
  /\ cn.slots[src] # NoCap
  /\ "GRANT" \in cn.slots[src].rights
  /\ cn.slots[dst] = NoCap
  /\ cap_derive(cn.slots[src], rights, badge) # NoCap

cnode_mint(cn, dst, src, rights, badge) ==
  Fill(cn, dst, cap_derive(cn.slots[src], rights, badge))

CanMove(cn, dst, src) == cn.slots[src] # NoCap /\ cn.slots[dst] = NoCap

cnode_move(cn, dst, src) ==
  [cn EXCEPT !.slots[dst] = cn.slots[src], !.slots[src] = NoCap]

cnode_delete(cn, i) ==
  [slots |-> [cn.slots EXCEPT ![i] = NoCap], used |-> cn.used - 1]
=============================================================================
