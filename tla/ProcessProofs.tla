--------------------------- MODULE ProcessProofs ----------------------------
(***************************************************************************)
(* Proofs about processes and what they share: the root CNode, the frames  *)
(* that the memory server takes from it, the stacks, the scheduling        *)
(* contexts and the mapping database.  They are for processes that call    *)
(* the kernel from any state (PSpec), the server (MSpec), and the boot     *)
(* sequence and what follows it (BSpec).                                   *)
(***************************************************************************)
EXTENDS BootSequence, MemServer, MdbProofs

-----------------------------------------------------------------------------
\* The root CNode.

\* The root CNode is a record of its slots and a counter, which is right.
RootOK(r) ==
  /\ r = [slots |-> r.slots, used |-> r.used]
  /\ r.slots \in [Slots -> Caps \cup {NoCap}]
  /\ r.used = Cardinality(Used(r))

\* Every capability of r2 that is not in the same slot of r comes from one of r.
Derived(r, r2) ==
  \A i \in Slots :
    r2.slots[i] \notin {r.slots[i], NoCap} =>
      \E j \in Used(r) :
        /\ r.slots[j].obj = r2.slots[i].obj
        /\ \/ r2.slots[i].rights \subseteq r.slots[j].rights /\ r2.slots[i].type = r.slots[j].type
           \/ r.slots[j].type = "UNTYPED" /\ r2.slots[i].size <= r.slots[j].size

\* The slots in use are finitely many.
LEMMA UsedFinite == \A r : IsFiniteSet(Used(r))
<1>1. IsFiniteSet(Slots)
  BY CSpaceAssumption
<1>2. \A r : Used(r) \subseteq Slots
  BY DEF Used
<1> QED BY <1>1, <1>2, FS_Subset

\* Storing a capability in an empty slot (retype, cnode_copy, cnode_mint) adds
\* the slot to the ones in use and keeps the counter right.
LEMMA FillCounts ==
  ASSUME NEW r, RootOK(r), NEW i \in Slots, r.slots[i] = NoCap, NEW cap \in Caps
  PROVE  RootOK(Fill(r, i, cap))
<1> DEFINE f == Fill(r, i, cap)
<1>1. /\ f.slots = [r.slots EXCEPT ![i] = cap] /\ f.used = r.used + 1
      /\ f = [slots |-> f.slots, used |-> f.used]
  BY DEF Fill
<1>2. f.slots \in [Slots -> Caps \cup {NoCap}]
  BY <1>1 DEF RootOK
<1>3. Used(f) = Used(r) \cup {i} /\ i \notin Used(r)
  BY <1>1, CSpaceAssumption DEF Used, RootOK
<1>4. IsFiniteSet(Used(r))
  BY UsedFinite
<1>5. Cardinality(Used(f)) = Cardinality(Used(r)) + 1
  BY <1>3, <1>4, FS_AddElement, Zenon
<1> QED BY <1>1, <1>2, <1>5 DEF RootOK

\* cnode_delete of an occupied slot keeps the counter right.
LEMMA DeleteCounts ==
  ASSUME NEW r, RootOK(r), NEW i \in Slots, r.slots[i] # NoCap
  PROVE  RootOK(cnode_delete(r, i))
<1> DEFINE f == cnode_delete(r, i)
<1>1. /\ f.slots = [r.slots EXCEPT ![i] = NoCap] /\ f.used = r.used - 1
      /\ f = [slots |-> f.slots, used |-> f.used]
  BY DEF cnode_delete
<1>2. f.slots \in [Slots -> Caps \cup {NoCap}]
  BY <1>1 DEF RootOK
<1>3. Used(f) = Used(r) \ {i} /\ i \in Used(r)
  BY <1>1 DEF Used, RootOK
<1>4. IsFiniteSet(Used(r))
  BY UsedFinite
<1>5. Cardinality(Used(f)) = Cardinality(Used(r)) - 1
  BY <1>3, <1>4, FS_RemoveElement, Zenon
<1> QED BY <1>1, <1>2, <1>5 DEF RootOK

\* cnode_move takes one slot into use and gives another up.
LEMMA MoveCounts ==
  ASSUME NEW r, RootOK(r), NEW d \in Slots, NEW s \in Slots, CanMove(r, d, s)
  PROVE  RootOK(cnode_move(r, d, s))
<1> DEFINE f == cnode_move(r, d, s)
<1>0. d # s /\ r.slots[s] # NoCap /\ r.slots[d] = NoCap
  BY DEF CanMove
<1>1. /\ f.slots = [[r.slots EXCEPT ![d] = r.slots[s]] EXCEPT ![s] = NoCap]
      /\ f.used = r.used /\ f = [slots |-> f.slots, used |-> f.used]
  <2>1. PICK sl, us : r = [slots |-> sl, used |-> us]
    BY DEF RootOK
  <2>2. /\ r.slots = sl /\ r.used = us
        /\ \A h : [r EXCEPT !.slots = h] = [slots |-> h, used |-> us]
    BY <2>1
  <2>3. \A h, k : [[slots |-> h, used |-> us] EXCEPT !.slots = k] = [slots |-> k, used |-> us]
    OBVIOUS
  <2>4. \A h : [slots |-> h, used |-> us].slots = h
    OBVIOUS
  <2>5. f = [slots |-> [[sl EXCEPT ![d] = sl[s]] EXCEPT ![s] = NoCap], used |-> us]
    BY <2>2, <2>3, <2>4, Zenon DEF cnode_move
  <2>6. /\ f.slots = [[sl EXCEPT ![d] = sl[s]] EXCEPT ![s] = NoCap]
        /\ f.used = us
    BY <2>5
  <2> HIDE DEF f
  <2> QED BY <2>2, <2>5, <2>6
<1>2. f.slots \in [Slots -> Caps \cup {NoCap}]
  BY <1>1 DEF RootOK
<1>3. Used(f) = (Used(r) \ {s}) \cup {d} /\ s \in Used(r) /\ d \notin Used(r)
  BY <1>0, <1>1 DEF Used, RootOK
<1>4. IsFiniteSet(Used(r))
  BY UsedFinite
<1>5. /\ IsFiniteSet(Used(r) \ {s})
      /\ Cardinality(Used(r) \ {s}) = Cardinality(Used(r)) - 1
  BY <1>3, <1>4, FS_RemoveElement
<1>6. Cardinality(Used(f)) = Cardinality(Used(r) \ {s}) + 1
  BY <1>3, <1>5, FS_AddElement
<1>7. Cardinality(Used(r)) \in Nat
  BY <1>4, FS_CardinalityType
<1> QED BY <1>1, <1>2, <1>5, <1>6, <1>7 DEF RootOK

\* The capability that cap_derive makes has the object and the type of its
\* parent and no right that the parent has not.
LEMMA DerivedCap ==
  ASSUME NEW p \in Caps, NEW rights \in SUBSET Rights, NEW b \in Badges \cup {0},
         rights \subseteq p.rights
  PROVE  LET c == cap_derive(p, rights, b)
         IN  c \in Caps /\ c.obj = p.obj /\ c.type = p.type /\ c.rights = rights
BY Zenon DEF cap_derive, Caps

\* A retyped capability covers no more than the Untyped it is carved from.
LEMMA RetypeRoot ==
  ASSUME RootOK(root), NEW u \in Slots, NEW arg \in Slots, NEW type \in Types,
         NEW size \in Sizes, Retype(u, type, size, arg)
  PROVE  RootOK(root') /\ Derived(root, root')
<1> DEFINE d == Destination(arg)
           cap == cap_retype(type, root.slots[u].obj, size)
<1>1. /\ root.slots[u] \in Caps /\ u \in Used(root) /\ root.slots[u].type = "UNTYPED"
      /\ size <= root.slots[u].size
      /\ root.slots[d] = NoCap /\ root' = Fill(root, d, cap)
  BY DEF Retype, CanRetype, Invocable, RootOK, Used, cap_can_retype
<1>2. d \in Slots
  BY CSpaceAssumption DEF Destination
<1>3. cap \in Caps /\ cap.obj = root.slots[u].obj /\ cap.size = size /\ cap.type = type
  <2>1. root.slots[u].obj \in Objects
    BY <1>1 DEF Caps
  <2> QED BY <2>1 DEF cap_retype, Caps, LowRights
<1> HIDE DEF cap, d
<1>4. RootOK(root')
  BY <1>1, <1>2, <1>3, FillCounts
<1>5. root'.slots = [root.slots EXCEPT ![d] = cap] /\ root.slots \in [Slots -> Caps \cup {NoCap}]
  BY <1>1 DEF Fill, RootOK
<1>6. \A i \in Slots : i # d => root'.slots[i] = root.slots[i]
  BY <1>5
<1>7. root'.slots[d] = cap
  BY <1>2, <1>5
<1>8. Derived(root, root')
  BY <1>1, <1>3, <1>6, <1>7 DEF Derived
<1> QED BY <1>4, <1>8

\* A copied or minted capability has its object and its type from the source,
\* and only rights of the source.
LEMMA DeriveRoot ==
  ASSUME NEW r, RootOK(r), NEW d \in Slots, NEW s \in Slots, NEW rights \in SUBSET Rights,
         NEW b \in Badges \cup {0}, r.slots[s] # NoCap, r.slots[d] = NoCap,
         rights \subseteq r.slots[s].rights
  PROVE  LET r2 == Fill(r, d, cap_derive(r.slots[s], rights, b))
         IN  RootOK(r2) /\ Derived(r, r2)
<1> DEFINE cap == cap_derive(r.slots[s], rights, b)
           r2 == Fill(r, d, cap)
<1>1. r.slots[s] \in Caps /\ s \in Used(r)
  BY DEF RootOK, Used
<1>2. cap \in Caps /\ cap.obj = r.slots[s].obj /\ cap.type = r.slots[s].type /\ cap.rights = rights
  BY <1>1, DerivedCap
<1> HIDE DEF cap
<1>3. RootOK(r2)
  BY <1>2, FillCounts
<1>4. r2.slots = [r.slots EXCEPT ![d] = cap] /\ r.slots \in [Slots -> Caps \cup {NoCap}]
  BY DEF Fill, RootOK
<1> HIDE DEF r2
<1>5. /\ \A i \in Slots : i # d => r2.slots[i] = r.slots[i]
      /\ r2.slots[d] = cap
  BY <1>4
<1>6. Derived(r, r2)
  BY <1>1, <1>2, <1>5 DEF Derived
<1> QED BY <1>3, <1>6 DEF r2, cap

\* cnode_move makes no capability.
LEMMA MoveRoot ==
  ASSUME NEW r, RootOK(r), NEW d \in Slots, NEW s \in Slots, CanMove(r, d, s)
  PROVE  LET r2 == cnode_move(r, d, s)
         IN  RootOK(r2) /\ Derived(r, r2)
<1> DEFINE r2 == cnode_move(r, d, s)
<1>1. RootOK(r2)
  BY MoveCounts
<1>2. /\ \A i \in Slots \ {d, s} : r2.slots[i] = r.slots[i]
      /\ r2.slots[d] = r.slots[s] /\ r2.slots[s] = NoCap
  <2>1. d # s
    BY DEF CanMove
  <2>2. PICK sl, us : r = [slots |-> sl, used |-> us] /\ sl \in [Slots -> Caps \cup {NoCap}]
    BY DEF RootOK
  <2>3. r2.slots = [[sl EXCEPT ![d] = sl[s]] EXCEPT ![s] = NoCap]
    BY <2>2 DEF cnode_move
  <2> QED BY <2>1, <2>2, <2>3, Zenon
<1> HIDE DEF r2
<1>3. s \in Used(r) /\ \A i \in Slots : r.slots[i] # NoCap => i \in Used(r)
  BY DEF CanMove, Used
<1>4. Derived(r, r2)
  <2> SUFFICES ASSUME NEW i \in Slots, r2.slots[i] \notin {r.slots[i], NoCap}
               PROVE  i = d
    BY <1>2, <1>3 DEF Derived
  <2> QED BY <1>2
<1> QED BY <1>1, <1>4 DEF r2

\* cnode_delete empties a slot and changes no other.
LEMMA DeleteRoot ==
  ASSUME NEW r, RootOK(r), NEW i \in Slots, r.slots[i] # NoCap
  PROVE  LET r2 == cnode_delete(r, i)
         IN  RootOK(r2) /\ Derived(r, r2)
<1> DEFINE r2 == cnode_delete(r, i)
<1>1. RootOK(r2)
  BY DeleteCounts
<1>2. \A k \in Slots : r2.slots[k] = IF k = i THEN NoCap ELSE r.slots[k]
  BY DEF cnode_delete, RootOK
<1> HIDE DEF r2
<1>3. \A k \in Slots : r2.slots[k] \in {r.slots[k], NoCap}
  BY <1>2
<1> QED BY <1>1, <1>3 DEF r2, Derived

\* Every capability invocation keeps the counter right and invents nothing.
LEMMA InvocationRoot ==
  ASSUME RootOK(root), CNext
  PROVE  RootOK(root') /\ Derived(root, root')
<1>0. \A u \in Slots : Invocable(u, "CNODE") => root.slots[u].rights \in SUBSET Rights
  BY DEF RootOK, Invocable, Caps
<1>1. CASE RetypeStep
  <2>1. PICK u \in Slots, arg \in Slots, type \in RetypeTypes, size \in Sizes :
          Retype(u, type, size, arg)
    BY <1>1 DEF RetypeStep
  <2>2. type \in Types
    BY CSpaceAssumption
  <2> QED BY <2>1, <2>2, RetypeRoot
<1>2. ASSUME NEW u \in Slots, NEW dst \in Slots, NEW src \in Slots, Copy(u, dst, src)
      PROVE  RootOK(root') /\ Derived(root, root')
  <2>1. /\ root.slots[u].rights \in SUBSET Rights /\ root.slots[src] # NoCap
        /\ root.slots[dst] = NoCap /\ root.slots[u].rights \subseteq root.slots[src].rights
    BY <1>0, <1>2 DEF Copy, CanCopy
  <2>2. root.slots[src].badge \in Badges \cup {0}
    BY <2>1 DEF RootOK, Caps
  <2> QED BY <1>2, <2>1, <2>2, DeriveRoot DEF Copy, cnode_copy
<1>3. ASSUME NEW u \in Slots, NEW dst \in Slots, NEW src \in Slots, NEW b \in Badges,
             Mint(u, dst, src, b)
      PROVE  RootOK(root') /\ Derived(root, root')
  <2>1. /\ root.slots[u].rights \in SUBSET Rights /\ root.slots[src] # NoCap
        /\ root.slots[dst] = NoCap
    BY <1>0, <1>3 DEF Mint, CanMint
  <2>2. root.slots[u].rights \subseteq root.slots[src].rights
    BY <1>3 DEF Mint, CanMint, cap_derive
  <2> QED BY <1>3, <2>1, <2>2, DeriveRoot, Zenon DEF Mint, cnode_mint
<1>4. ASSUME NEW u \in Slots, NEW dst \in Slots, NEW src \in Slots, Move(u, dst, src)
      PROVE  RootOK(root') /\ Derived(root, root')
  BY <1>4, MoveRoot DEF Move
<1>5. ASSUME NEW u \in Slots, NEW i \in Slots, Delete(u, i)
      PROVE  RootOK(root') /\ Derived(root, root')
  BY <1>5, DeleteRoot DEF Delete
<1> QED BY <1>1, <1>2, <1>3, <1>4, <1>5 DEF CNext

\* process_destroy clears the slots of a process's CNode together with used.
LEMMA WipedRoot ==
  ASSUME NEW r, RootOK(r)
  PROVE  RootOK(Wiped(r)) /\ Derived(r, Wiped(r))
<1> DEFINE w == Wiped(r)
<1>1. /\ w = [slots |-> w.slots, used |-> w.used] /\ w.used = 0
      /\ w.slots = [i \in Slots |-> NoCap]
  BY DEF Wiped
<1>2. Used(w) = {}
  BY <1>1 DEF Used
<1>3. Cardinality(Used(w)) = 0
  BY <1>2, FS_EmptySet
<1> QED BY <1>1, <1>3 DEF RootOK, Derived

\* No step of the kernel miscounts the root CNode or invents a capability.
LEMMA KernelRoot ==
  ASSUME RootOK(root), [PNext]_vars
  PROVE  RootOK(root') /\ Derived(root, root')
<1>0. Derived(root, root)
  BY DEF Derived, Used
<1>1. CASE UNCHANGED root
  BY <1>0, <1>1
<1>2. CASE CNext
  BY <1>2, InvocationRoot
<1>3. ASSUME NEW t \in Tcbs, ProcessDestroy(t)
      PROVE  RootOK(root') /\ Derived(root, root')
  <2>1. root' = Wiped(root) \/ root' = root
    BY <1>3, SMTT(60) DEF ProcessDestroy
  <2> QED BY <1>0, <2>1, WipedRoot
<1>4. PNext => \/ CNext \/ UNCHANGED root \/ \E t \in Tcbs : ProcessDestroy(t)
  BY Zenon DEF PNext, ProcessCreate, CreateUnbound, CreateRefused, Configure, SchedBind
<1> QED BY <1>1, <1>2, <1>3, <1>4, SMTT(60) DEF vars

\* In every state that invocations and the creation and destruction of processes
\* lead to, the root CNode is well-formed and its counter is right.
THEOREM RootInvariant == PSpec => []RootOK(root)
<1>1. PInit => RootOK(root)
  <2> SUFFICES ASSUME PInit PROVE RootOK(root)
    OBVIOUS
  <2>1. /\ root = [slots |-> root.slots, used |-> root.used] /\ root.slots = InitCaps
        /\ root.used = Cardinality({i \in Slots : InitCaps[i] # NoCap})
    BY DEF PInit, CInit
  <2> QED BY <2>1, CSpaceAssumption DEF RootOK, Used
<1>2. RootOK(root) /\ [PNext]_vars => RootOK(root)'
  BY KernelRoot
<1> QED BY <1>1, <1>2, PTL DEF PSpec

\* The counter used is the number of occupied slots of the root CNode after any
\* sequence of retypes, copies, mints, moves, deletes and destructions, for any
\* number of slots.
THEOREM UsedStaysRight == PSpec => []UsedCounts
<1>1. RootOK(root) => UsedCounts
  BY DEF RootOK, UsedCounts
<1> QED BY <1>1, RootInvariant, PTL

\* Whatever invocation, creation or destruction is carried out, a capability that
\* appears in a slot is carved from an Untyped that was in the root CNode or has
\* its object, its type and its rights from a capability that was there.
THEOREM AuthorityNotInvented == PSpec => NoAuthorityInvented
<1> DEFINE Step == \A i \in Slots :
        root'.slots[i] \notin {root.slots[i], NoCap} =>
          \E j \in Used(root) :
            /\ root.slots[j].obj = root'.slots[i].obj
            /\ \/ root'.slots[i].rights \subseteq root.slots[j].rights
                    /\ root'.slots[i].type = root.slots[j].type
               \/ root.slots[j].type = "UNTYPED" /\ root'.slots[i].size <= root.slots[j].size
<1>1. Derived(root, root') => Step
  BY DEF Derived
<1>2. RootOK(root) /\ [PNext]_vars => [Step]_cvars
  BY <1>1, KernelRoot, Zenon
<1>3. PSpec => [][Step]_cvars
  BY <1>2, RootInvariant, PTL DEF PSpec
<1> QED BY <1>3 DEF NoAuthorityInvented

-----------------------------------------------------------------------------
\* The memory server, which retypes its Untypeds.

GrantRec == [untyped : 1 .. Len(Untypeds), size : Nat, slot : Nat, partition : Parts]

\* What the server knows of its own: an Untyped that is free is not granted, and no
\* Untyped is granted twice.
BooksInv ==
  /\ free \in [1 .. Len(Untypeds) -> BOOLEAN]
  /\ next_frame_slot \in Nat \ {0}
  /\ live \subseteq GrantRec
  /\ \A g \in live : ~free[g.untyped] /\ g.size <= Untypeds[g.untyped].size
  /\ \A g, h \in live : g.untyped = h.untyped => g = h

\* What it relies on in the root CNode: the Untypeds stay where boot put them, and
\* the slot that is next is below an occupied one, unless slots are emptied.
SlotsInv ==
  /\ RootOK(root)
  /\ emptied \subseteq Slots
  /\ \A i \in 1 .. Len(Untypeds) : i - 1 \notin emptied =>
       root.slots[i - 1] # NoCap /\ root.slots[i - 1].obj = Untypeds[i].paddr
  /\ emptied = {} => \E b \in Slots : b >= next_frame_slot /\ root.slots[b] # NoCap

MemInv == BooksInv /\ SlotsInv /\ ReplyNamesFrame

\* The Frame of grant g is in its slot.
FrameOf(r, g) ==
  /\ r.slots[KernelSlot(g)] # NoCap
  /\ r.slots[KernelSlot(g)].type = "FRAME"
  /\ r.slots[KernelSlot(g)].obj = Untypeds[g.untyped].paddr
  /\ r.slots[KernelSlot(g)].size = g.size

\* A retype fills one empty slot with the capability asked for.
LEMMA RetypeFills ==
  ASSUME root.slots \in [Slots -> Caps \cup {NoCap}], NEW u \in Slots, NEW type \in Types,
         NEW size \in Sizes, NEW arg \in Slots, Retype(u, type, size, arg)
  PROVE  /\ root.slots[Destination(arg)] = NoCap
         /\ \A i \in Slots : root.slots[i] # NoCap => root'.slots[i] = root.slots[i]
         /\ root'.slots[Destination(arg)] # NoCap
         /\ root'.slots[Destination(arg)].type = type
         /\ root'.slots[Destination(arg)].obj = root.slots[u].obj
         /\ root'.slots[Destination(arg)].size = size
<1> DEFINE d == Destination(arg)
           c == cap_retype(type, root.slots[u].obj, size)
<1>1. d \in Slots
  BY CSpaceAssumption DEF Destination
<1>2. root.slots[u] \in Caps /\ root.slots[d] = NoCap
  BY DEF Retype, CanRetype, Invocable
<1>3. c \in Caps /\ c.type = type /\ c.obj = root.slots[u].obj /\ c.size = size
  BY <1>2 DEF cap_retype, Caps, LowRights
<1> HIDE DEF c, d
<1>4. root'.slots = [root.slots EXCEPT ![d] = c]
  BY Zenon DEF Retype, Fill, c, d
<1> QED BY <1>1, <1>2, <1>3, <1>4, CSpaceAssumption DEF d

\* The slots that the kernel sees.
LEMMA KernelSlots ==
  /\ \A n \in Nat : n % SlotMod \in Slots /\ Destination(n % SlotMod) \in Slots
  /\ \A n \in Slots : n \in Nat /\ n % SlotMod = n
  /\ \A i \in 1 .. Len(Untypeds) : i - 1 \in Slots
<1>1. SlotMod \in Nat \ {0} /\ Slots = 0 .. (SlotMod - 1) /\ DefaultSlot \in Slots
  BY MemServerAssumption, BootLayout, CSpaceAssumption
<1>2. \A n \in Nat : n % SlotMod \in 0 .. (SlotMod - 1)
  BY <1>1, DivMod, SMTT(60)
<1>3. \A n \in Slots : n \in Nat /\ n % SlotMod = n
  BY <1>1, SmallMod, SMTT(60)
<1> QED BY <1>1, <1>2, <1>3, BootLayout, ZenonT(60) DEF Destination

\* The Untypeds are numbers of pages.
LEMMA UntypedFields ==
  ASSUME NEW i \in 1 .. Len(Untypeds)
  PROVE  Untypeds[i].paddr \in Nat /\ Untypeds[i].size \in Nat
<1> DEFINE R == [paddr : Objects, size : Nat, color : Nat]
<1>1. Untypeds \in Seq(R) /\ Objects \subseteq Nat
  BY MemServerAssumption, Zenon
<1> HIDE DEF R
<1>2. Untypeds[i] \in R
  BY <1>1
<1> QED BY <1>1, <1>2, Zenon DEF R

\* What is in a slot that was not emptied stays there.
Stays(r, r2, gone) == \A i \in Slots \ gone : r.slots[i] # NoCap => r2.slots[i] = r.slots[i]

\* What such a step leaves of the invariant.
LEMMA FillingKeeps ==
  ASSUME MemInv, NEW r2, NEW gone \in SUBSET Slots, emptied \subseteq gone, Stays(root, r2, gone)
  PROVE  /\ \A i \in 1 .. Len(Untypeds) : i - 1 \notin gone =>
              r2.slots[i - 1] # NoCap /\ r2.slots[i - 1].obj = Untypeds[i].paddr
         /\ \A g \in live : {KernelSlot(g), g.untyped - 1} \cap gone = {} => FrameOf(r2, g)
         /\ gone = {} => \E b \in Slots : b >= next_frame_slot /\ r2.slots[b] # NoCap
<1>1. \A i \in 1 .. Len(Untypeds) : i - 1 \notin gone =>
        r2.slots[i - 1] # NoCap /\ r2.slots[i - 1].obj = Untypeds[i].paddr
  <2> SUFFICES ASSUME NEW i \in 1 .. Len(Untypeds), i - 1 \notin gone
               PROVE  r2.slots[i - 1] # NoCap /\ r2.slots[i - 1].obj = Untypeds[i].paddr
    BY Zenon
  <2> DEFINE k == i - 1
  <2>1. k \in Slots \ gone /\ k \notin emptied
    BY KernelSlots, Zenon
  <2>2. root.slots[k] # NoCap /\ root.slots[k].obj = Untypeds[i].paddr
    BY <2>1, Zenon DEF MemInv, SlotsInv
  <2> HIDE DEF k
  <2>3. r2.slots[k] = root.slots[k]
    BY <2>1, <2>2, Zenon DEF Stays
  <2> QED BY <2>2, <2>3, Zenon DEF k
<1>2. ASSUME NEW g \in live, {KernelSlot(g), g.untyped - 1} \cap gone = {} PROVE FrameOf(r2, g)
  <2>1. KernelSlot(g) \in Slots
    <3>1. g.slot \in Nat
      BY Zenon DEF MemInv, BooksInv, GrantRec
    <3> QED BY <3>1, KernelSlots, Zenon DEF KernelSlot
  <2>2. {KernelSlot(g), g.untyped - 1} \cap emptied = {} /\ KernelSlot(g) \notin gone
    BY <1>2, Zenon
  <2>3. FrameOf(root, g)
    BY <2>2, Zenon DEF MemInv, ReplyNamesFrame, FrameOf
  <2>4. r2.slots[KernelSlot(g)] = root.slots[KernelSlot(g)]
    BY <2>1, <2>2, <2>3, Zenon DEF Stays, FrameOf
  <2> QED BY <2>3, <2>4, Zenon DEF FrameOf
<1>3. ASSUME gone = {} PROVE \E b \in Slots : b >= next_frame_slot /\ r2.slots[b] # NoCap
  <2>1. emptied = {}
    BY <1>3, Zenon
  <2>2. PICK b \in Slots : b >= next_frame_slot /\ root.slots[b] # NoCap
    BY <2>1, Zenon DEF MemInv, SlotsInv
  <2>3. r2.slots[b] = root.slots[b]
    BY <1>3, <2>2, Zenon DEF Stays
  <2> QED BY <2>2, <2>3, Zenon
<1> QED BY <1>1, <1>2, <1>3, Zenon

\* The server starts with the Untypeds and the endpoints that boot stored.
LEMMA MemInvInit == MInit => MemInv
<1> SUFFICES ASSUME MInit PROVE MemInv
  OBVIOUS
<1>1. /\ root = [slots |-> InitCaps, used |-> Cardinality({i \in Slots : InitCaps[i] # NoCap})]
      /\ next_frame_slot = FirstFrameSlot /\ live = {} /\ emptied = {}
      /\ free = [i \in 1 .. Len(Untypeds) |-> TRUE]
  BY Zenon DEF MInit, CInit
<1>2. root.slots = InitCaps /\ root.used = Cardinality(Used(root))
  BY <1>1, Zenon DEF Used
<1>3. RootOK(root)
  BY <1>1, <1>2, CSpaceAssumption, Zenon DEF RootOK
<1>4. SlotsInv
  BY <1>1, <1>2, <1>3, BootLayout, Zenon DEF SlotsInv
<1>5. BooksInv
  BY <1>1, MemServerAssumption, Zenon DEF BooksInv
<1> QED BY <1>1, <1>4, <1>5, Zenon DEF MemInv, ReplyNamesFrame

\* A granted request.
LEMMA AllocateStep ==
  ASSUME MemInv, NEW p \in Parts, NEW size \in Sizes, Allocate(p, size)
  PROVE  MemInv'
<1> DEFINE N == Len(Untypeds)
           x == next_frame_slot
<1>0. N \in Nat /\ size \in Nat
  BY MemServerAssumption, CSpaceAssumption
<1>1. PICK i : i = Min(Usable(p, size))
  BY Zenon
<1>2. i \in Usable(p, size)
  <2>1. Usable(p, size) \in SUBSET Nat /\ Usable(p, size) # {}
    BY <1>0, SMTT(60) DEF Usable, Allocate
  <2> QED BY <1>1, <2>1, MinIsMember, Zenon
<1>3. /\ i \in 1 .. N /\ free[i] /\ alloc_color_is_valid(p, Untypeds[i].color)
      /\ Untypeds[i].size >= size
  BY <1>2, Zenon DEF Usable, Suitable
<1> DEFINE new == [untyped |-> i, size |-> size, slot |-> x, partition |-> p]
           arg == x % SlotMod
           d == Destination(arg)
<1>4. /\ Retype(i - 1, "FRAME", size, arg)
      /\ free' = [free EXCEPT ![i] = FALSE]
      /\ next_frame_slot' = x + 1
      /\ live' = live \cup {new}
      /\ emptied' = emptied
  BY <1>1, Zenon DEF Allocate, TakenFrom, ReportedSlot
<1>5. x \in Nat \ {0} /\ arg \in Slots /\ d \in Slots /\ i - 1 \in Slots
  BY <1>3, KernelSlots, Zenon DEF MemInv, BooksInv
<1>6. /\ new \in GrantRec /\ new.untyped = i /\ new.size = size /\ new.slot = x
      /\ new.partition = p /\ KernelSlot(new) = d
  BY <1>0, <1>3, <1>5, Zenon DEF GrantRec, KernelSlot
<1>7. BooksInv'
  <2>b. BooksInv
    BY Zenon DEF MemInv
  <2> HIDE DEF new, arg, d, x
  <2>1. free' \in [1 .. N -> BOOLEAN] /\ ~free'[i] /\ \A k \in 1 .. N \ {i} : free'[k] = free[k]
    BY <1>3, <1>4, <2>b, Zenon DEF BooksInv
  <2>2. next_frame_slot' \in Nat \ {0}
    BY <1>4, <1>5
  <2>3. \A g \in live : g \in GrantRec /\ g.untyped \in 1 .. N /\ g.untyped # i
    BY <1>3, <2>b, Zenon DEF BooksInv, GrantRec
  <2>4. live' \subseteq GrantRec
    BY <1>4, <1>6, <2>3, Zenon
  <2>5. size <= Untypeds[i].size
    <3>1. Untypeds[i].size \in Nat
      BY <1>3, UntypedFields, Zenon
    <3> QED BY <1>0, <1>3, <3>1
  <2>6. \A g \in live' : ~free'[g.untyped] /\ g.size <= Untypeds[g.untyped].size
    BY <1>4, <1>6, <2>b, <2>1, <2>3, <2>5, Zenon DEF BooksInv
  <2>7. \A g, h \in live' : g.untyped = h.untyped => g = h
    BY <1>4, <1>6, <2>b, <2>3, Zenon DEF BooksInv
  <2> QED BY <2>1, <2>2, <2>4, <2>6, <2>7, Zenon DEF BooksInv
<1>8. /\ RootOK(root') /\ root.slots[d] = NoCap /\ Stays(root, root', {})
      /\ root'.slots[d] # NoCap
      /\ root'.slots[d].type = "FRAME"
      /\ root'.slots[d].obj = root.slots[i - 1].obj
      /\ root'.slots[d].size = size
  <2> DEFINE type == "FRAME"
             u == i - 1
  <2>1. u \in Slots /\ type \in Types /\ Retype(u, type, size, arg) /\ RootOK(root)
    BY <1>4, <1>5, Zenon DEF Types, MemInv, SlotsInv
  <2> HIDE DEF type, u, arg
  <2>2. root.slots \in [Slots -> Caps \cup {NoCap}]
    BY <2>1, Zenon DEF RootOK
  <2>3. RootOK(root')
    BY <1>5, <2>1, RetypeRoot, ZenonT(60)
  <2>4. /\ root.slots[d] = NoCap
        /\ \A j \in Slots : root.slots[j] # NoCap => root'.slots[j] = root.slots[j]
        /\ root'.slots[d] # NoCap
        /\ root'.slots[d].type = type
        /\ root'.slots[d].obj = root.slots[u].obj
        /\ root'.slots[d].size = size
    BY <1>5, <2>1, <2>2, RetypeFills, SMTT(60)
  <2> QED BY <2>3, <2>4, Zenon DEF type, u, Stays
<1>9. Stays(root, root', emptied) /\ emptied \in SUBSET Slots /\ emptied \subseteq emptied
  BY <1>8, Zenon DEF Stays, MemInv, SlotsInv
<1>10. /\ \A k \in 1 .. N : k - 1 \notin emptied =>
            root'.slots[k - 1] # NoCap /\ root'.slots[k - 1].obj = Untypeds[k].paddr
       /\ \A g \in live : {KernelSlot(g), g.untyped - 1} \cap emptied = {} => FrameOf(root', g)
  BY <1>9, FillingKeeps, ZenonT(60)
<1>11. ASSUME emptied = {}
       PROVE  /\ d = x
              /\ \E b \in Slots : b >= x + 1 /\ root'.slots[b] # NoCap
  <2>1. PICK b \in Slots : b >= x /\ root.slots[b] # NoCap
    BY <1>11, Zenon DEF MemInv, SlotsInv
  <2>2. x \in Slots
    <3>1. b \in 0 .. (SlotMod - 1) /\ SlotMod \in Nat /\ Slots = 0 .. (SlotMod - 1)
      BY BootLayout, MemServerAssumption
    <3> HIDE DEF x
    <3> QED BY <1>5, <2>1, <3>1
  <2>3. arg = x /\ b \in Nat
    BY <2>2, KernelSlots, Zenon
  <2>4. d = x
    BY <1>5, <2>3, Zenon DEF Destination
  <2> HIDE DEF x, d, arg
  <2>5. b # x /\ root'.slots[b] # NoCap
    BY <1>8, <2>1, <2>4, Zenon DEF Stays
  <2>6. b >= x + 1
    BY <1>5, <2>1, <2>3, <2>5
  <2> QED BY <2>4, <2>5, <2>6, Zenon
<1>12. SlotsInv'
  <2>1. emptied' \subseteq Slots
    BY <1>4, Zenon DEF MemInv, SlotsInv
  <2>2. emptied' = {} => \E b \in Slots : b >= next_frame_slot' /\ root'.slots[b] # NoCap
    BY <1>4, <1>11, Zenon
  <2> QED BY <1>4, <1>8, <1>10, <2>1, <2>2, Zenon DEF SlotsInv
<1>13. ASSUME NEW g \in live'
       PROVE  /\ alloc_color_is_valid(g.partition, Untypeds[g.untyped].color)
              /\ emptied' = {} => g.slot = KernelSlot(g)
              /\ {KernelSlot(g), g.untyped - 1} \cap emptied' = {} => FrameOf(root', g)
  <2>1. CASE g \in live
    <3>1. /\ alloc_color_is_valid(g.partition, Untypeds[g.untyped].color)
          /\ emptied = {} => g.slot = KernelSlot(g)
      BY <2>1, Zenon DEF MemInv, ReplyNamesFrame
    <3> QED BY <1>4, <1>10, <2>1, <3>1, Zenon
  <2>2. CASE g = new
    <3> HIDE DEF new, d, arg, x
    <3>1. alloc_color_is_valid(g.partition, Untypeds[g.untyped].color)
      BY <1>3, <1>6, <2>2, Zenon
    <3>2. emptied' = {} => g.slot = KernelSlot(g)
      BY <1>4, <1>6, <1>11, <2>2, Zenon
    <3>3. ASSUME {KernelSlot(g), g.untyped - 1} \cap emptied' = {} PROVE FrameOf(root', g)
      <4>1. i - 1 \notin emptied
        BY <1>4, <1>6, <2>2, <3>3, Zenon
      <4>2. root.slots[i - 1].obj = Untypeds[i].paddr
        BY <1>3, <4>1, Zenon DEF MemInv, SlotsInv
      <4> QED BY <1>6, <1>8, <2>2, <4>2, Zenon DEF FrameOf
    <3> QED BY <3>1, <3>2, <3>3, Zenon
  <2> QED BY <1>4, <2>1, <2>2, Zenon
<1>14. ReplyNamesFrame'
  BY <1>13, Zenon DEF ReplyNamesFrame, FrameOf, KernelSlot
<1> QED BY <1>7, <1>12, <1>14, Zenon DEF MemInv

\* Another process invokes a capability.
LEMMA InvocationStep ==
  ASSUME MemInv, Invocation
  PROVE  MemInv'
<1> DEFINE gone == emptied'
<1>1. /\ gone = emptied \cup {i \in Slots : root.slots[i] # NoCap /\ root'.slots[i] # root.slots[i]}
      /\ CNext /\ UNCHANGED <<free, next_frame_slot, live>>
  BY Zenon DEF Invocation
<1>2. emptied \subseteq Slots /\ RootOK(root)
  BY Zenon DEF MemInv, SlotsInv
<1>3. RootOK(root')
  BY <1>1, <1>2, InvocationRoot, Zenon
<1>4. gone \in SUBSET Slots /\ emptied \subseteq gone /\ Stays(root, root', gone)
  BY <1>1, <1>2, Zenon DEF Stays
<1>5. /\ \A i \in 1 .. Len(Untypeds) : i - 1 \notin gone =>
           root'.slots[i - 1] # NoCap /\ root'.slots[i - 1].obj = Untypeds[i].paddr
      /\ \A g \in live : {KernelSlot(g), g.untyped - 1} \cap gone = {} => FrameOf(root', g)
      /\ gone = {} => \E b \in Slots : b >= next_frame_slot /\ root'.slots[b] # NoCap
  BY <1>4, FillingKeeps, ZenonT(60)
<1>6. BooksInv'
  BY <1>1, Zenon DEF MemInv, BooksInv
<1>7. SlotsInv'
  BY <1>1, <1>3, <1>4, <1>5, Zenon DEF SlotsInv
<1>8. ASSUME NEW g \in live'
      PROVE  /\ alloc_color_is_valid(g.partition, Untypeds[g.untyped].color)
             /\ emptied' = {} => g.slot = KernelSlot(g)
             /\ {KernelSlot(g), g.untyped - 1} \cap emptied' = {} => FrameOf(root', g)
  <2>1. g \in live
    BY <1>1, Zenon
  <2>2. emptied' = {} => emptied = {}
    BY <1>4, Zenon
  <2> QED BY <1>5, <2>1, <2>2, Zenon DEF MemInv, ReplyNamesFrame
<1>9. ReplyNamesFrame'
  BY <1>8, Zenon DEF ReplyNamesFrame, FrameOf, KernelSlot
<1> QED BY <1>6, <1>7, <1>9, Zenon DEF MemInv

\* The server's books agree with the kernel in every state.
THEOREM MemInvariant == MSpec => []MemInv
<1>1. ASSUME MemInv, [MNext]_mvars PROVE MemInv'
  <2>1. CASE UNCHANGED mvars
    BY <1>1, <2>1, Zenon DEF MemInv, BooksInv, SlotsInv, mvars, ReplyNamesFrame, KernelSlot
  <2>2. ASSUME NEW p \in Parts, NEW size \in Sizes, Allocate(p, size) PROVE MemInv'
    BY <1>1, <2>2, AllocateStep, Zenon
  <2>3. ASSUME NEW i \in 1 .. Len(Untypeds), FreeRequest(i) PROVE MemInv'
    <3>1. /\ free' = [free EXCEPT ![i] = TRUE]
          /\ live' = {g \in live : g.untyped # i}
          /\ UNCHANGED <<root, mdb, next_frame_slot, emptied>>
      BY <2>3, Zenon DEF FreeRequest
    <3>2. BooksInv
      BY <1>1, Zenon DEF MemInv
    <3>3. \A g \in live' : g \in live /\ free'[g.untyped] = free[g.untyped]
      BY <3>1, <3>2, Zenon DEF BooksInv, GrantRec
    <3>4. free' \in [1 .. Len(Untypeds) -> BOOLEAN]
      BY <3>1, <3>2, Zenon DEF BooksInv
    <3>5. BooksInv'
      BY <3>1, <3>2, <3>3, <3>4, Zenon DEF BooksInv
    <3>6. SlotsInv'
      BY <1>1, <3>1, Zenon DEF MemInv, SlotsInv
    <3>7. ReplyNamesFrame'
      BY <1>1, <3>1, <3>3, Zenon DEF MemInv, ReplyNamesFrame, KernelSlot
    <3> QED BY <3>5, <3>6, <3>7, Zenon DEF MemInv
  <2> QED BY <1>1, <2>1, <2>2, <2>3, InvocationStep, Zenon DEF MNext
<1> QED BY <1>1, MemInvInit, PTL DEF MSpec

\* A Frame takes no more than the Untyped it begins with.
LEMMA PagesNest ==
  ASSUME NEW a \in Nat, NEW m \in Nat, NEW n \in Nat, m <= n
  PROVE  PagesAt(a, m) \subseteq PagesAt(a, n)
BY DEF PagesAt

\* Grants that have not been freed share no page, in the server's books: for any
\* Untypeds that do not overlap and whatever else happens to the root CNode.  By
\* RepliesNameFrames the Frames are those of the books while nobody empties slots.
\* Frames of memory that was freed stay in the CNode and are not covered.
THEOREM MemoryGrantedOnce == MSpec => []GrantsApart
<1>1. MemInv => GrantsApart
  <2> SUFFICES ASSUME MemInv, NEW g \in live, NEW h \in live, g # h
               PROVE  Granted(g) \cap Granted(h) = {}
    BY Zenon DEF GrantsApart
  <2> DEFINE i == g.untyped
             j == h.untyped
             all(k) == PagesAt(Untypeds[k].paddr, Untypeds[k].size)
  <2>1. /\ g \in GrantRec /\ h \in GrantRec /\ i # j
        /\ g.size <= Untypeds[i].size /\ h.size <= Untypeds[j].size
    BY Zenon DEF MemInv, BooksInv
  <2>2. /\ i \in 1 .. Len(Untypeds) /\ j \in 1 .. Len(Untypeds)
        /\ g.size \in Nat /\ h.size \in Nat
    BY <2>1, Zenon DEF GrantRec
  <2>3. all(i) \cap all(j) = {}
    BY <2>1, <2>2, MemServerAssumption, Zenon
  <2>4. /\ Untypeds[i].paddr \in Nat /\ Untypeds[i].size \in Nat
        /\ Untypeds[j].paddr \in Nat /\ Untypeds[j].size \in Nat
    BY <2>2, UntypedFields, Zenon
  <2>5. Granted(g) \subseteq all(i) /\ Granted(h) \subseteq all(j)
    BY <2>1, <2>2, <2>4, PagesNest, Zenon DEF Granted
  <2> HIDE DEF all
  <2> QED BY <2>3, <2>5, Zenon
<1> QED BY <1>1, MemInvariant, PTL

\* A grant names the Frame that the kernel made, as long as other processes leave
\* its slot and that of its Untyped alone.
THEOREM RepliesNameFrames == MSpec => []ReplyNamesFrame
<1>1. MemInv => ReplyNamesFrame
  BY DEF MemInv
<1> QED BY <1>1, MemInvariant, PTL

-----------------------------------------------------------------------------
\* The TCB table and the stacks.

TcbRec ==
  [ made : BOOLEAN, rooted : BOOLEAN, sched_context : Contexts,
    partition : Partitions \cup ConfigParts, stack : Nat, pages : Nat ]

\* The stack of thread record r begins on a page of the colour of its partition.
Coloured(r) == alloc_color_is_valid(r.partition, r.stack % NumColors)

\* The table is well-typed, no stack reaches beyond the allocator's pointer, and
\* the live ones lie one above the other, each on a page of its colour unless
\* the partition has been written over.
StackInv ==
  /\ tcb \in [Tcbs -> TcbRec]
  /\ next \in 0 .. Top
  /\ count \in 0 .. (CountMod - 1)
  /\ hung \in BOOLEAN
  /\ \A t \in Tcbs : tcb[t].stack + tcb[t].pages <= next
  /\ \A t \in Tcbs : tcb[t].made =>
       /\ Coloured(tcb[t]) \/ tcb[t].rooted \/ hung
       /\ \A u \in Tcbs : tcb[u].made /\ u # t =>
            \/ tcb[t].stack + tcb[t].pages <= tcb[u].stack
            \/ tcb[u].stack + tcb[u].pages <= tcb[t].stack

\* A number is determined by its remainder and its quotient.
LEMMA RemainderUnique ==
  ASSUME NEW q \in Nat \ {0}, NEW d \in Int, NEW c \in 0 .. (q - 1)
  PROVE  (q * d + c) % q = c
<1> DEFINE x == q * d + c
           e == x \div q
           r == x % q
<1>1. x \in Int
  OBVIOUS
<1>2. e \in Int /\ r \in 0 .. (q - 1) /\ x = q * e + r
  BY <1>1, DivMod
<1>3. q * d + c = q * e + r
  BY <1>2
<1> HIDE DEF x, e, r
<1>4. q * (d - e) = r - c
  BY <1>2, <1>3
<1>5. PICK k \in Int : k = d - e
  BY <1>2
<1>6. /\ k >= 1 => q * k >= q
      /\ k <= -1 => q * k <= -q
  BY MultipleBounds
<1>7. k = 0
  BY <1>2, <1>4, <1>5, <1>6, SMTT(60)
<1> QED BY <1>2, <1>4, <1>5, <1>7 DEF r, x

\* Among NumColors consecutive pages there is one of every colour, so the search
\* of alloc_frame_color ends.
LEMMA FrameFound ==
  ASSUME NEW n \in Nat, NEW p \in Nat
  PROVE  /\ FrameFor(n, p) \in n .. (n + NumColors - 1)
         /\ FrameFor(n, p) % NumColors = alloc_color_for_partition(p)
<1> DEFINE c == alloc_color_for_partition(p)
           d == n \div NumColors
           r == n % NumColors
           x == NumColors * d + c
           y == NumColors * (d + 1) + c
<1>1. NumColors \in Nat \ {0} /\ ColorsPerPartition \in Nat
  BY AllocAssumption
<1>2. c \in 0 .. (NumColors - 1)
  <2>1. p * ColorsPerPartition \in Int
    BY <1>1
  <2> QED BY <1>1, <2>1, DivMod DEF alloc_color_for_partition
<1>3. d \in Int /\ r \in 0 .. (NumColors - 1) /\ n = NumColors * d + r
  BY <1>1, DivMod
<1> HIDE DEF c, d, r
<1>4. x % NumColors = c /\ y % NumColors = c
  BY <1>1, <1>2, <1>3, RemainderUnique
<1>5. y = x + NumColors /\ x \in Int
  BY <1>1, <1>2, <1>3
<1>6. x = n - r + c
  BY <1>1, <1>2, <1>3
<1> HIDE DEF x, y
<1>7. \E z \in n .. (n + NumColors - 1) : z % NumColors = c
  <2>1. CASE c >= r
    <3>1. x \in n .. (n + NumColors - 1)
      BY <1>1, <1>2, <1>3, <1>6, <2>1
    <3> QED BY <1>4, <3>1
  <2>2. CASE c < r
    <3>1. y \in n .. (n + NumColors - 1)
      BY <1>1, <1>2, <1>3, <1>5, <1>6, <2>2, SMTT(60)
    <3> QED BY <1>4, <3>1
  <2> QED BY <1>2, <1>3, <2>1, <2>2
<1> QED BY <1>7 DEF FrameFor, c

\* The stack that process_create takes lies above all that was handed out before,
\* has the colour of the partition and ends at the allocator's new pointer.
LEMMA FramesTaken ==
  ASSUME StackInv, NEW a \in ArgRec, TakeFrames(a)
  PROVE  LET x == FrameFor(next, a.partition)
         IN  /\ x \in Nat /\ next <= x /\ a.pages \in Nat /\ next' = x + a.pages
             /\ next' \in 0 .. Top /\ next <= next'
             /\ a.partition \in Partitions /\ FreeTcbs # {}
             /\ x % NumColors = alloc_color_for_partition(a.partition)
<1> DEFINE x == FrameFor(next, a.partition)
<1>1. a.partition \in Nat /\ a.pages \in Nat /\ next \in Nat /\ next <= Top /\ Top \in Nat
  BY ProcessAssumption DEF ArgRec, StackInv
<1>2. x \in next .. (next + NumColors - 1) /\ x % NumColors = alloc_color_for_partition(a.partition)
  BY <1>1, FrameFound, ZenonT(60)
<1>3. /\ next' = x + a.pages /\ x + a.pages <= Top
      /\ a.partition \in Partitions /\ FreeTcbs # {}
  BY DEF TakeFrames, MayCreate, CanAlloc
<1> HIDE DEF x
<1>4. x \in Nat /\ next <= x
  BY <1>1, <1>2, AllocAssumption
<1> QED BY <1>1, <1>2, <1>3, <1>4 DEF x

\* process_create takes a TCB that was not in use.
LEMMA FreeTcb ==
  ASSUME FreeTcbs # {}
  PROVE  Min(FreeTcbs) \in Tcbs /\ ~tcb[Min(FreeTcbs)].made /\ ~tcb[Min(FreeTcbs)].rooted
<1>1. FreeTcbs \in SUBSET Nat
  BY ProcessAssumption DEF FreeTcbs, Tcbs
<1>2. Min(FreeTcbs) \in FreeTcbs
  BY <1>1, MinIsMember
<1> QED BY <1>2 DEF FreeTcbs

\* A created process gets a stack of its own.
LEMMA CreateStacks ==
  ASSUME StackInv, NEW a \in ArgRec, ProcessCreate(a)
  PROVE  StackInv'
<1> DEFINE x == FrameFor(next, a.partition)
           t == Min(FreeTcbs)
           c == Min(FreeContexts)
           new == [made |-> TRUE, rooted |-> FALSE, sched_context |-> c,
                   partition |-> a.partition, stack |-> x, pages |-> a.pages]
<1>1. TakeFrames(a)
  BY Zenon DEF ProcessCreate
<1>2. /\ x \in Nat /\ next <= x /\ a.pages \in Nat /\ next' = x + a.pages
      /\ next' \in 0 .. Top /\ next <= next'
      /\ a.partition \in Partitions /\ FreeTcbs # {}
      /\ x % NumColors = alloc_color_for_partition(a.partition)
  BY <1>1, FramesTaken
<1>3. t \in Tcbs /\ ~tcb[t].made
  BY <1>2, FreeTcb, SMTT(60)
<1>4. c \in Contexts
  BY Zenon DEF ProcessCreate, CanBindFor, CanBind
<1>5. tcb' = [tcb EXCEPT ![t] = new] /\ hung' = hung /\ count' = (count + 1) % CountMod
  BY SMTT(60) DEF ProcessCreate
<1> HIDE DEF x, t, c
<1>6. /\ new \in TcbRec /\ new.stack = x /\ new.pages = a.pages /\ new.made
      /\ new.partition = a.partition
  BY <1>2, <1>4, Zenon DEF TcbRec
<1> HIDE DEF new
<1>7. tcb' \in [Tcbs -> TcbRec]
  BY <1>5, <1>6, Zenon DEF StackInv
<1>8. tcb'[t] = new /\ \A u \in Tcbs \ {t} : tcb'[u] = tcb[u]
  BY <1>3, <1>5 DEF StackInv
<1>9. /\ next \in Nat /\ next' \in Nat
      /\ \A u \in Tcbs : /\ tcb[u].stack \in Nat /\ tcb[u].pages \in Nat
                         /\ tcb[u].stack + tcb[u].pages <= next
  BY <1>2, ProcessAssumption, SMTT(60) DEF StackInv, TcbRec
<1>10. \A u \in Tcbs : tcb'[u].stack + tcb'[u].pages <= next'
  <2> TAKE u \in Tcbs
  <2>1. CASE u = t
    <3>1. tcb'[u].stack = x /\ tcb'[u].pages = a.pages
      BY <1>6, <1>8, <2>1, Zenon
    <3>2. x + a.pages <= next'
      BY <1>2, SMTT(60)
    <3> QED BY <3>1, <3>2, Zenon
  <2>2. CASE u # t
    BY <1>2, <1>8, <1>9, <2>2, SMTT(60)
  <2> QED BY <2>1, <2>2, Zenon
<1>11. ASSUME NEW u \in Tcbs, tcb'[u].made
       PROVE  Coloured(tcb'[u]) \/ tcb'[u].rooted \/ hung'
  <2>1. CASE u = t
    BY <1>2, <1>6, <1>8, <2>1, SMTT(60) DEF alloc_color_is_valid, Coloured
  <2>2. CASE u # t
    BY <1>5, <1>8, <1>11, <2>2, ZenonT(60) DEF StackInv
  <2> QED BY <2>1, <2>2, SMTT(60)
<1>12. ASSUME NEW u \in Tcbs, tcb'[u].made, NEW v \in Tcbs, tcb'[v].made, v # u
       PROVE  \/ tcb'[u].stack + tcb'[u].pages <= tcb'[v].stack
              \/ tcb'[v].stack + tcb'[v].pages <= tcb'[u].stack
  <2>1. CASE u = t
    BY <1>2, <1>6, <1>8, <1>9, <1>12, <2>1, SMTT(60)
  <2>2. CASE v = t
    BY <1>2, <1>6, <1>8, <1>9, <1>12, <2>2, SMTT(60)
  <2>3. CASE u # t /\ v # t
    BY <1>8, <1>12, <2>3, Zenon DEF StackInv
  <2> QED BY <2>1, <2>2, <2>3, SMTT(60)
<1>13. count' \in 0 .. (CountMod - 1)
  <2>1. count + 1 \in Int /\ CountMod \in Nat \ {0}
    BY ProcessAssumption, SMTT(60) DEF StackInv
  <2> QED BY <1>5, <2>1, DivMod, SMTT(60)
<1> QED BY <1>2, <1>5, <1>7, <1>10, <1>11, <1>12, <1>13, Zenon DEF StackInv

\* A creation that fails behind the allocation only moves the pointer.
LEMMA RefusedStacks ==
  ASSUME StackInv, NEW a \in ArgRec, CreateUnbound(a) \/ CreateRefused(a)
  PROVE  StackInv'
<1>1. TakeFrames(a) /\ UNCHANGED <<tcb, count, hung>>
  BY SMTT(60) DEF CreateUnbound, CreateRefused
<1>2. next' \in 0 .. Top /\ next <= next' /\ next' \in Nat /\ next \in Nat
  BY <1>1, FramesTaken, ProcessAssumption, SMTT(60) DEF StackInv
<1>3. \A u \in Tcbs : tcb[u].stack + tcb[u].pages <= next'
  BY <1>2 DEF StackInv, TcbRec
<1> QED BY <1>1, <1>2, <1>3, Zenon DEF StackInv

\* Whoever is destroyed, and whether or not the destruction returns, the other
\* stacks stay as they are.
LEMMA DestroyStacks ==
  ASSUME StackInv, NEW t \in Tcbs, ProcessDestroy(t)
  PROVE  StackInv'
<1>0. 0 \in Contexts /\ 0 \in Partitions
  BY SchedAssumption DEF Contexts, Partitions
<1>1. next' = next /\ hung' \in BOOLEAN
  BY Zenon DEF ProcessDestroy
<1>2. count' \in 0 .. (CountMod - 1)
  <2>1. count - 1 \in Int /\ CountMod \in Nat \ {0} /\ count \in 0 .. (CountMod - 1)
    BY ProcessAssumption DEF StackInv
  <2>2. count' = count \/ count' = (count - 1) % CountMod
    BY SMTT(60) DEF ProcessDestroy
  <2> QED BY <2>1, <2>2, DivMod
<1>3. CASE tcb' = [tcb EXCEPT ![t].rooted = FALSE] /\ hung'
  <2>1. tcb' \in [Tcbs -> TcbRec]
    BY <1>3, ZenonT(60) DEF StackInv, TcbRec
  <2>2. \A u \in Tcbs : /\ tcb'[u].made = tcb[u].made /\ tcb'[u].stack = tcb[u].stack
                        /\ tcb'[u].pages = tcb[u].pages
    BY <1>3 DEF StackInv, TcbRec
  <2>3. /\ \A u \in Tcbs : tcb'[u].stack + tcb'[u].pages <= next
        /\ \A u \in Tcbs : tcb'[u].made =>
             /\ Coloured(tcb'[u]) \/ tcb'[u].rooted \/ hung'
             /\ \A v \in Tcbs : tcb'[v].made /\ v # u =>
                  \/ tcb'[u].stack + tcb'[u].pages <= tcb'[v].stack
                  \/ tcb'[v].stack + tcb'[v].pages <= tcb'[u].stack
    BY <1>3, <2>2, Zenon DEF StackInv
  <2> QED BY <1>1, <1>2, <2>1, <2>3, Zenon DEF StackInv
<1>4. CASE tcb' = [tcb EXCEPT ![t] = NoTcb] /\ ~hung
  <2>1. NoTcb \in TcbRec /\ NoTcb.stack = 0 /\ NoTcb.pages = 0 /\ ~NoTcb.made
    BY <1>0, SMTT(60) DEF NoTcb, TcbRec
  <2>2. tcb' \in [Tcbs -> TcbRec]
    BY <1>4, <2>1, SMTT(60) DEF StackInv
  <2>3. tcb'[t] = NoTcb /\ \A u \in Tcbs \ {t} : tcb'[u] = tcb[u]
    BY <1>4, SMTT(60) DEF StackInv
  <2>4. next \in Nat
    BY ProcessAssumption, SMTT(60) DEF StackInv
  <2>5. \A u \in Tcbs : tcb'[u].stack + tcb'[u].pages <= next
    <3>1. \A u \in Tcbs \ {t} : tcb'[u].stack + tcb'[u].pages <= next
      BY <2>3, Zenon DEF StackInv
    <3>2. tcb'[t].stack + tcb'[t].pages <= next
      <4>1. tcb'[t].stack = 0 /\ tcb'[t].pages = 0
        BY <2>1, <2>3, Zenon
      <4> QED BY <2>4, <4>1
    <3> QED BY <3>1, <3>2, Zenon
  <2>6. \A u \in Tcbs : tcb'[u].made => u # t /\ tcb'[u] = tcb[u]
    BY <2>1, <2>3, SMTT(60)
  <2>7. \A u \in Tcbs : tcb'[u].made =>
          /\ Coloured(tcb'[u]) \/ tcb'[u].rooted \/ hung'
          /\ \A v \in Tcbs : tcb'[v].made /\ v # u =>
               \/ tcb'[u].stack + tcb'[u].pages <= tcb'[v].stack
               \/ tcb'[v].stack + tcb'[v].pages <= tcb'[u].stack
    BY <1>4, <2>6, ZenonT(60) DEF StackInv
  <2> QED BY <1>1, <1>2, <2>2, <2>5, <2>7, Zenon DEF StackInv
<1> QED BY <1>3, <1>4 DEF ProcessDestroy

\* INV_TCB_CONFIGURE touches no stack, whatever TCB it designates.
LEMMA ConfigureStacks ==
  ASSUME StackInv, NEW u \in Slots, NEW p \in ConfigParts, Configure(u, p)
  PROVE  StackInv'
<1> DEFINE o == root.slots[u].obj
           mid == [tcb EXCEPT ![o].rooted = TRUE]
<1>1. tcb' = [mid EXCEPT ![o].partition = p] /\ UNCHANGED <<next, count, hung>>
  BY DEF Configure
<1> HIDE DEF o
<1>2. mid \in [Tcbs -> TcbRec]
  BY ZenonT(60) DEF StackInv, TcbRec
<1>3. \A v \in Tcbs : /\ mid[v].made = tcb[v].made /\ mid[v].stack = tcb[v].stack
                      /\ mid[v].pages = tcb[v].pages
                      /\ v # o => mid[v] = tcb[v]
                      /\ v = o => mid[v].rooted
  BY DEF StackInv, TcbRec
<1> HIDE DEF mid
<1>4. tcb' \in [Tcbs -> TcbRec]
  BY <1>1, <1>2, ZenonT(60) DEF TcbRec
<1>5. \A v \in Tcbs : /\ tcb'[v].made = mid[v].made /\ tcb'[v].stack = mid[v].stack
                      /\ tcb'[v].pages = mid[v].pages /\ tcb'[v].rooted = mid[v].rooted
                      /\ v # o => tcb'[v] = mid[v]
  BY <1>1, <1>2 DEF TcbRec
<1>6. \A v \in Tcbs : /\ tcb'[v].made = tcb[v].made /\ tcb'[v].stack = tcb[v].stack
                      /\ tcb'[v].pages = tcb[v].pages
                      /\ tcb'[v] = tcb[v] \/ tcb'[v].rooted
  BY <1>3, <1>5, Zenon
<1> QED BY <1>1, <1>4, <1>6, ZenonT(60) DEF StackInv

\* Every step of the kernel after boot keeps the stacks apart.
LEMMA KernelStacks ==
  ASSUME StackInv, [PNext]_vars
  PROVE  StackInv'
<1>1. \A a \in CreateArgs : a \in ArgRec
  BY ProcessAssumption, SMTT(60)
<1>2. CASE UNCHANGED <<tcb, next, count, hung>>
  BY <1>2, Zenon DEF StackInv
<1> QED BY <1>1, <1>2, CreateStacks, RefusedStacks, DestroyStacks, ConfigureStacks, Zenon
        DEF PNext, SchedBind, vars, pvars

\* The arithmetic form of the invariant says that stacks share no page.
LEMMA StacksApart == StackInv => StacksDisjoint
<1> SUFFICES ASSUME StackInv, NEW t \in Made
             PROVE  /\ tcb[t].stack + tcb[t].pages <= next
                    /\ Coloured(tcb[t]) \/ tcb[t].rooted \/ hung
                    /\ \A u \in Made \ {t} : Stack(t) \cap Stack(u) = {}
  BY Zenon DEF StacksDisjoint, Coloured
<1>1. \A u \in Made : u \in Tcbs /\ tcb[u].made /\ tcb[u].stack \in Nat /\ tcb[u].pages \in Nat
  BY Zenon DEF Made, StackInv, TcbRec
<1>2. ASSUME NEW u \in Made \ {t}, NEW x \in Stack(t), x \in Stack(u)
      PROVE  FALSE
  <2>1. \/ tcb[t].stack + tcb[t].pages <= tcb[u].stack
        \/ tcb[u].stack + tcb[u].pages <= tcb[t].stack
    BY <1>1, Zenon DEF StackInv
  <2>2. x \in Int /\ tcb[t].stack <= x /\ x <= tcb[t].stack + tcb[t].pages - 1
    BY <1>1 DEF Stack
  <2>3. tcb[u].stack <= x /\ x <= tcb[u].stack + tcb[u].pages - 1
    BY <1>1, <1>2 DEF Stack
  <2> QED BY <1>1, <2>1, <2>2, <2>3, SMTT(60)
<1> QED BY <1>1, <1>2, SMTT(60) DEF StackInv

\* The requests of boot are well-formed.
LEMMA BootRequests ==
  ASSUME SpawnNext
  PROVE  \E a \in ArgRec : Spawn(a)
<1>1. BootList \in Seq(ArgRec) /\ Len(BootList) > 0
  BY BootAssumption
<1>2. \A i \in 1 .. Len(BootList) : BootList[i] \in ArgRec
  BY <1>1
<1>3. CASE stage = 1 /\ Spawn(BootList[1])
  BY <1>1, <1>2, <1>3
<1>4. CASE stage \in 4 .. (Parked - 1) /\ Spawn(BootList[stage - 2])
  <2>1. stage - 2 \in 1 .. Len(BootList)
    BY <1>1, <1>4 DEF Parked
  <2> QED BY <1>2, <1>4, <2>1
<1> QED BY <1>3, <1>4 DEF SpawnNext

\* A step of boot creates a process, or changes nothing of the process state.
LEMMA BootSteps ==
  ASSUME [BNext]_bvars
  PROVE  \/ [PNext]_vars
         \/ StoreUntyped \/ TryRetype \/ StoreEndpoints
         \/ \E a \in ArgRec : ProcessCreate(a) \/ CreateUnbound(a) \/ CreateRefused(a)
BY BootRequests DEF BNext, BootStep, Spawn, bvars, vars

\* Neither a creation of boot nor any other of its steps, nor what follows boot,
\* lets stacks overlap.
LEMMA BootStacks ==
  ASSUME StackInv, [BNext]_bvars
  PROVE  StackInv'
<1>1. CASE UNCHANGED <<tcb, next, count, hung>>
  BY <1>1 DEF StackInv
<1>2. CASE [PNext]_vars
  BY <1>2, KernelStacks, SMTT(60)
<1>3. CASE StoreUntyped \/ TryRetype \/ StoreEndpoints
  BY <1>1, <1>3, Zenon DEF StoreUntyped, TryRetype, StoreEndpoints, pvars
<1>4. CASE \E a \in ArgRec : ProcessCreate(a) \/ CreateUnbound(a) \/ CreateRefused(a)
  BY <1>4, CreateStacks, RefusedStacks
<1> QED BY <1>2, <1>3, <1>4, BootSteps

\* With an empty TCB table the invariant holds wherever the allocator stands.
LEMMA EmptyStacks ==
  ASSUME tcb = [t \in Tcbs |-> NoTcb], next \in 0 .. Top, count = 0, hung = FALSE
  PROVE  StackInv
<1>1. 0 \in Contexts /\ 0 \in Partitions
  BY SchedAssumption DEF Contexts, Partitions
<1>2. NoTcb \in TcbRec /\ NoTcb.stack = 0 /\ NoTcb.pages = 0 /\ ~NoTcb.made
  BY <1>1 DEF NoTcb, TcbRec
<1>3. \A t \in Tcbs : tcb[t] = NoTcb
  OBVIOUS
<1>4. tcb \in [Tcbs -> TcbRec]
  BY <1>2
<1>5. 0 \in 0 .. (CountMod - 1) /\ 0 + 0 <= next
  BY ProcessAssumption
<1> QED BY <1>2, <1>3, <1>4, <1>5, Zenon DEF StackInv

\* The stacks of processes that live at the same time share no page, lie in memory
\* that was handed out and have the colour of the partition they were created in:
\* for any number of TCBs, contexts, colours and pages, any requests, bindings and
\* capabilities, INV_TCB_CONFIGURE with any partition included.
THEOREM StacksStayDisjoint == PSpec => []StacksDisjoint
<1>1. PInit => StackInv
  <2>1. 0 \in 0 .. Top
    BY ProcessAssumption
  <2> QED BY <2>1, EmptyStacks, ZenonT(60) DEF PInit
<1>2. StackInv /\ [PNext]_vars => StackInv'
  BY KernelStacks
<1> QED BY <1>1, <1>2, StacksApart, PTL DEF PSpec

\* The same for the processes that kernel_boot creates behind the page tables, and
\* for all that come and go after it.
THEOREM BootStacksDisjoint == BSpec => []StacksDisjoint
<1>1. BInit => StackInv
  BY EmptyStacks, BootAssumption, Zenon DEF BInit
<1>2. StackInv /\ [BNext]_bvars => StackInv'
  BY BootStacks
<1> QED BY <1>1, <1>2, StacksApart, PTL DEF BSpec

-----------------------------------------------------------------------------
\* The scheduler after boot.

\* What the recursion of Boot gives after n windows.
AfterWindows(G, n) ==
  IF n = 0 THEN sched_init
  ELSE sched_partition_create(G[n - 1], Windows[n][1], Windows[n][2], Windows[n][3])

\* The recursion has a solution.
LEMMA BootSolution ==
  ASSUME NEW k \in Nat
  PROVE  \E G : G = [n \in 0 .. k |-> AfterWindows(G, n)]
<1> DEFINE Good(m) == \E G : G = [n \in 0 .. m |-> AfterWindows(G, n)]
           Bad == {m \in Nat : ~Good(m)}
<1>1. Good(0)
  <2> DEFINE G == [n \in 0 .. 0 |-> sched_init]
  <2>1. \A n \in 0 .. 0 : n = 0
    BY SMTT(60)
  <2>2. G = [n \in 0 .. 0 |-> AfterWindows(G, n)]
    BY <2>1, SMTT(60) DEF AfterWindows
  <2> QED BY <2>2
<1>2. ASSUME NEW m \in Nat, Good(m) PROVE Good(m + 1)
  <2>1. PICK G : G = [n \in 0 .. m |-> AfterWindows(G, n)]
    BY <1>2
  <2> DEFINE H == [n \in 0 .. (m + 1) |-> IF n \in 0 .. m THEN G[n] ELSE AfterWindows(G, n)]
  <2>2. ASSUME NEW n \in 0 .. (m + 1) PROVE H[n] = AfterWindows(H, n)
    <3>1. H[n] = AfterWindows(G, n)
      BY <2>1, SMTT(60)
    <3>2. CASE n = 0
      BY <3>1, <3>2, ZenonT(60) DEF AfterWindows
    <3>3. CASE n # 0
      <4>1. n - 1 \in 0 .. m /\ n - 1 \in 0 .. (m + 1)
        BY <3>3, SMTT(60)
      <4>2. H[n - 1] = G[n - 1]
        BY <4>1, SMTT(60)
      <4> QED BY <3>1, <3>3, <4>2, ZenonT(60) DEF AfterWindows
    <3> QED BY <3>2, <3>3, Zenon
  <2>3. H = [n \in 0 .. (m + 1) |-> AfterWindows(H, n)]
    BY <2>2, SMTT(60)
  <2> QED BY <2>3, ZenonT(60)
<1> HIDE DEF Good
<1>3. ASSUME Bad # {} PROVE FALSE
  <2>1. PICK n \in Bad : \A m \in Bad : n <= m
    BY <1>3, LeastNumber, Zenon
  <2>2. n \in Nat /\ ~Good(n) /\ n # 0
    BY <1>1
  <2>3. n - 1 \in Nat /\ ~(n <= n - 1) /\ (n - 1) + 1 = n
    BY <2>2
  <2>4. Good(n - 1)
    BY <2>1, <2>3
  <2>5. Good((n - 1) + 1)
    BY <1>2, <2>3, <2>4, SMTT(60)
  <2> QED BY <2>2, <2>3, <2>5, SMTT(60)
<1> QED BY <1>3 DEF Good

\* What sched_init and sched_partition_create leave: a well-typed scheduler with
\* no context bound.
Unbound(s) == s \in SchedRec(Nat) /\ \A c \in Contexts : ~s.contexts[c].bound

\* Creating a window binds no context.
LEMMA WindowUnbound ==
  ASSUME NEW s, Unbound(s), NEW w \in Partitions \X Nat \X Nat
  PROVE  Unbound(sched_partition_create(s, w[1], w[2], w[3]))
<1> DEFINE s2 == sched_partition_create(s, w[1], w[2], w[3])
<1>1. w[1] \in Partitions /\ w[2] \in Nat /\ w[3] \in Nat
  OBVIOUS
<1>2. NumPartitions(s, w[1]) \in 0 .. MaxPartitions
  BY <1>1, SchedAssumption, SMTT(60) DEF NumPartitions, Unbound, SchedRec, Partitions
<1>3. [offset |-> w[2], budget |-> w[3], active |-> TRUE] \in PartitionRec
  BY <1>1 DEF PartitionRec
<1>4. s2 \in SchedRec(Nat) /\ s2.contexts = s.contexts
  BY <1>1, <1>2, <1>3, ZenonT(60) DEF sched_partition_create, SchedRec, Unbound
<1> QED BY <1>4 DEF Unbound

\* Boot leaves a well-typed scheduler without a bound context.
LEMMA BootUnbound == Unbound(Boot)
<1> DEFINE k == Len(Windows)
           G == CHOOSE g : g = [n \in 0 .. k |-> AfterWindows(g, n)]
           Bad == {n \in 0 .. k : ~Unbound(G[n])}
<1>1. k \in Nat /\ \A n \in 1 .. k : Windows[n] \in Partitions \X Nat \X Nat
  BY ProcessAssumption
<1>2. G = [n \in 0 .. k |-> AfterWindows(G, n)]
  BY <1>1, BootSolution, Zenon
<1>3. Boot = G[k]
  BY DEF Boot, AfterWindows
<1>4. \A n \in 0 .. k : G[n] = AfterWindows(G, n)
  BY <1>2, Zenon
<1> HIDE DEF G, k
<1>5. Unbound(sched_init)
  <2>1. 0 \in Nat /\ 0 \in Partitions /\ 0 \in 0 .. MaxPartitions
    BY SchedAssumption, SMTT(60) DEF Partitions
  <2> QED BY <2>1, Zenon DEF Unbound, sched_init, SchedRec, PartitionRec, ContextRec
<1>6. ASSUME Bad # {} PROVE FALSE
  <2>1. Bad \in SUBSET Nat
    BY <1>1, SMTT(60)
  <2>2. PICK n \in Bad : \A m \in Bad : n <= m
    BY <1>6, <2>1, LeastNumber, ZenonT(60)
  <2>3. n \in 0 .. k /\ ~Unbound(G[n]) /\ n # 0
    BY <1>4, <1>5, <2>2 DEF AfterWindows
  <2>4. n \in 1 .. k /\ n - 1 \in 0 .. k /\ ~(n <= n - 1)
    BY <1>1, <2>3, SMTT(60)
  <2>5. Unbound(G[n - 1])
    BY <2>2, <2>4, SMTT(60)
  <2>6. Windows[n] \in Partitions \X Nat \X Nat
    BY <1>1, <2>4, SMTT(60)
  <2>7. G[n] = sched_partition_create(G[n - 1], Windows[n][1], Windows[n][2], Windows[n][3])
    BY <1>4, <2>3, ZenonT(60) DEF AfterWindows
  <2> QED BY <2>3, <2>5, <2>6, <2>7, WindowUnbound, Zenon
<1> QED BY <1>1, <1>3, <1>6

-----------------------------------------------------------------------------
\* The scheduling contexts.

\* A bound context has a period, so its share is a number.
Divides(s) == \A c \in Contexts : s.contexts[c].bound => s.contexts[c].period # 0

\* Every context that is bound in s2 is bound in s, with the same share.
Within(s2, s) ==
  \A c \in Contexts : s2.contexts[c].bound =>
    /\ s.contexts[c].bound
    /\ s2.contexts[c].partition_id = s.contexts[c].partition_id
    /\ s2.contexts[c].budget = s.contexts[c].budget
    /\ s2.contexts[c].period = s.contexts[c].period

\* With fewer contexts bound the shares of a partition do not grow.
LEMMA SharesShrink ==
  ASSUME NEW s \in SchedRec(Nat), Divides(s), NEW s2, Within(s2, s), NEW p
  PROVE  /\ Utilisation(s2, p) <= Utilisation(s, p)
         /\ Utilisation(s, p) \in Nat /\ Utilisation(s2, p) \in Nat
<1> DEFINE b(z) == {i \in Contexts : z.contexts[i].bound /\ z.contexts[i].partition_id = p}
           f(z) == [i \in b(z) |-> (z.contexts[i].budget * 100) \div z.contexts[i].period]
<1>1. b(s2) \in SUBSET b(s)
  BY Zenon DEF Within
<1>2. IsFiniteSet(b(s))
  <2>1. b(s) \in SUBSET (0 .. (MaxContexts - 1)) /\ MaxContexts \in Nat
    BY SchedAssumption DEF Contexts
  <2> QED BY <2>1, BelowIsFinite, ZenonT(60)
<1>3. \A i \in b(s) : f(s)[i] \in Nat
  <2> SUFFICES ASSUME NEW i \in b(s) PROVE f(s)[i] \in Nat
    BY Zenon
  <2> DEFINE n == s.contexts[i].budget * 100
             q == s.contexts[i].period
  <2>1. n \in Nat /\ q \in Nat \ {0}
    BY SMTT(60) DEF SchedRec, ContextRec, Divides
  <2>2. f(s)[i] = n \div q
    BY Zenon
  <2> HIDE DEF n, q
  <2>3. n \div q \in Int /\ n % q \in 0 .. (q - 1) /\ n = q * (n \div q) + (n % q)
    BY <2>1, DivMod
  <2>4. PICK d \in Int : d = n \div q
    BY <2>3, SMTT(60)
  <2>5. d <= -1 => q * d <= -q
    BY <2>1, MultipleBounds, SMTT(60)
  <2>6. d >= 0
    BY <2>1, <2>3, <2>4, <2>5, SMTT(60)
  <2>7. d \in Nat
    BY <2>6
  <2> QED BY <2>2, <2>4, <2>7, Zenon
<1>4. \A i \in b(s2) : f(s2)[i] = f(s)[i]
  BY <1>1, Zenon DEF Within
<1>5. /\ Utilisation(s, p) = SumFunctionOnSet(f(s), b(s))
      /\ Utilisation(s2, p) = SumFunctionOnSet(f(s2), b(s2))
  BY ZenonT(60) DEF Utilisation, SumFunction
<1> HIDE DEF b, f
<1>6. IsFiniteSet(b(s2)) /\ \A i \in b(s2) : f(s)[i] \in Nat
  BY <1>1, <1>2, <1>3, FS_Subset, ZenonT(60)
<1>7. SumFunctionOnSet(f(s2), b(s2)) = SumFunctionOnSet(f(s), b(s2))
  BY <1>4, <1>6, SumAgree, ZenonT(60)
<1>8. SumFunctionOnSet(f(s), b(s2)) <= SumFunctionOnSet(f(s), b(s))
  BY <1>1, <1>2, <1>3, SumSubset, ZenonT(60)
<1>9. SumFunctionOnSet(f(s), b(s2)) \in Nat /\ SumFunctionOnSet(f(s), b(s)) \in Nat
  BY <1>2, <1>3, <1>6, SumType, ZenonT(60)
<1> QED BY <1>5, <1>7, <1>8, <1>9, Zenon

\* So the admission test still passes.
LEMMA StillSchedulable ==
  ASSUME NEW s \in SchedRec(Nat), Divides(s), NEW s2, Within(s2, s),
         s2.num_partitions = s.num_partitions, sched_is_schedulable(s)
  PROVE  sched_is_schedulable(s2)
<1> SUFFICES ASSUME NEW p \in 0 .. (s.num_partitions - 1) PROVE Utilisation(s2, p) <= 99
  BY Zenon DEF sched_is_schedulable
<1>1. Utilisation(s, p) <= 99
  BY Zenon DEF sched_is_schedulable
<1>2. /\ Utilisation(s2, p) <= Utilisation(s, p)
      /\ Utilisation(s, p) \in Nat /\ Utilisation(s2, p) \in Nat
  BY SharesShrink, ZenonT(60)
<1> QED BY <1>1, <1>2, SMTT(60)

\* The tables s2 are those of s but for context c, which is bound to thread t.
BindsTo(s2, s, c, t) ==
  /\ s2 \in SchedRec(Nat)
  /\ s2.num_partitions = s.num_partitions
  /\ s2.contexts[c].bound /\ s2.contexts[c].tcb_id = t /\ s2.contexts[c].period # 0
  /\ \A d \in Contexts \ {c} : s2.contexts[d] = s.contexts[d]

\* What sched_context_bind changes.
LEMMA BoundFields ==
  ASSUME NEW s \in SchedRec(Nat), NEW c \in Contexts, NEW t \in Nat, NEW p \in Partitions,
         NEW budget \in Nat, NEW period \in Nat \ {0}, NEW prio \in Nat
  PROVE  BindsTo(sched_context_bind(s, c, t, p, budget, period, prio), s, c, t)
<1> DEFINE new == [bound |-> TRUE, tcb_id |-> t, partition_id |-> p, budget |-> budget,
                   period |-> period, remaining |-> budget, deadline |-> period,
                   priority |-> prio]
           s2 == sched_context_bind(s, c, t, p, budget, period, prio)
<1>1. new \in ContextRec(Nat) /\ new.bound /\ new.tcb_id = t /\ new.period = period
  BY Zenon DEF ContextRec
<1>2. s2 = [s EXCEPT !.contexts[c] = new]
  BY DEF sched_context_bind
<1> HIDE DEF new, s2
<1>3. /\ s2 \in SchedRec(Nat) /\ s2.num_partitions = s.num_partitions
      /\ s2.contexts = [s.contexts EXCEPT ![c] = new]
  BY <1>1, <1>2 DEF SchedRec
<1>4. s2.contexts[c] = new /\ \A d \in Contexts \ {c} : s2.contexts[d] = s.contexts[d]
  BY <1>3 DEF SchedRec
<1> QED BY <1>1, <1>3, <1>4, Zenon DEF BindsTo, s2

\* Releasing a context clears its bound flag and nothing else.
LEMMA ReleasedFields ==
  ASSUME NEW s \in SchedRec(Nat), NEW c \in Contexts
  PROVE  LET s2 == Released(c, s)
         IN  /\ s2 \in SchedRec(Nat)
             /\ s2.num_partitions = s.num_partitions
             /\ ~s2.contexts[c].bound
             /\ \A d \in Contexts \ {c} : s2.contexts[d] = s.contexts[d]
BY ZenonT(60) DEF Released, SchedRec, ContextRec

\* The tables w are those of s but for the contexts of D, which are not bound.
Drops(w, s, D) ==
  /\ w \in SchedRec(Nat)
  /\ w.num_partitions = s.num_partitions
  /\ \A c \in Contexts :
       /\ w.contexts[c].bound <=> s.contexts[c].bound /\ c \notin D
       /\ w.contexts[c].partition_id = s.contexts[c].partition_id
       /\ w.contexts[c].budget = s.contexts[c].budget
       /\ w.contexts[c].period = s.contexts[c].period

\* Without leaves all but the bound flags alone.
LEMMA WithoutFields ==
  ASSUME NEW s \in SchedRec(Nat), NEW D
  PROVE  Drops(Without(s, D), s, D)
<1> DEFINE w == Without(s, D)
           new(c) == [s.contexts[c] EXCEPT !.bound = @ /\ c \notin D]
<1>1. \A c \in Contexts : s.contexts[c] \in ContextRec(Nat)
  BY Zenon DEF SchedRec
<1>2. ASSUME NEW c \in Contexts
      PROVE  /\ new(c) \in ContextRec(Nat)
             /\ new(c).bound <=> s.contexts[c].bound /\ c \notin D
             /\ new(c).partition_id = s.contexts[c].partition_id
             /\ new(c).budget = s.contexts[c].budget
             /\ new(c).period = s.contexts[c].period
  BY <1>1, ZenonT(60) DEF ContextRec
<1>3. w = [s EXCEPT !.contexts = [c \in Contexts |-> new(c)]]
  BY DEF Without
<1> HIDE DEF new, w
<1>4. w \in SchedRec(Nat) /\ w.num_partitions = s.num_partitions
      /\ w.contexts = [c \in Contexts |-> new(c)]
  BY <1>2, <1>3, ZenonT(60) DEF SchedRec
<1>5. \A c \in Contexts : w.contexts[c] = new(c)
  BY <1>4, Zenon
<1> QED BY <1>2, <1>4, <1>5, ZenonT(60) DEF w, Drops

\* The context that process_create takes is free.
LEMMA FreeContext ==
  ASSUME FreeContexts # {}
  PROVE  Min(FreeContexts) \in Contexts /\ ~sched.contexts[Min(FreeContexts)].bound
<1>1. FreeContexts \in SUBSET Nat
  BY SchedAssumption, SMTT(60) DEF FreeContexts, Contexts
<1>2. Min(FreeContexts) \in FreeContexts
  BY <1>1, MinIsMember
<1> QED BY <1>2 DEF FreeContexts

\* The contexts that process_create has bound pass the admission test, and every
\* bound context has a share.
ShareInv ==
  /\ sched \in SchedRec(Nat)
  /\ Divides(sched)
  /\ sched_is_schedulable(Without(sched, direct))

\* A step that admits no context: what is bound afterwards and was not bound by
\* INV_SCHED_BIND was so before.
LEMMA NothingAdmitted ==
  ASSUME ShareInv, sched' \in SchedRec(Nat), sched'.num_partitions = sched.num_partitions,
         \A c \in Contexts : sched'.contexts[c].bound /\ c \notin direct' =>
           /\ sched.contexts[c].bound /\ c \notin direct
           /\ sched'.contexts[c] = sched.contexts[c]
  PROVE  sched_is_schedulable(Without(sched', direct'))
<1> DEFINE w == Without(sched, direct)
           w2 == Without(sched', direct')
<1>1. Drops(w, sched, direct)
  BY WithoutFields, Zenon DEF ShareInv
<1>2. Drops(w2, sched', direct')
  BY WithoutFields, Zenon
<1>3. sched_is_schedulable(w)
  BY Zenon DEF ShareInv
<1> HIDE DEF w, w2
<1>4. Divides(w) /\ w \in SchedRec(Nat)
  BY <1>1, Zenon DEF Divides, ShareInv, Drops
<1>5. Within(w2, w) /\ w2.num_partitions = w.num_partitions
  <2>1. w2.num_partitions = w.num_partitions
    BY <1>1, <1>2, Zenon DEF Drops
  <2>2. ASSUME NEW c \in Contexts, w2.contexts[c].bound
        PROVE  /\ w.contexts[c].bound
               /\ w2.contexts[c].partition_id = w.contexts[c].partition_id
               /\ w2.contexts[c].budget = w.contexts[c].budget
               /\ w2.contexts[c].period = w.contexts[c].period
    <3>1. sched'.contexts[c].bound /\ c \notin direct'
      BY <1>2, <2>2, Zenon DEF Drops
    <3>2. /\ sched.contexts[c].bound /\ c \notin direct
          /\ sched'.contexts[c] = sched.contexts[c]
      BY <3>1, Zenon
    <3> QED BY <1>1, <1>2, <3>2, Zenon DEF Drops
  <2> QED BY <2>1, <2>2, Zenon DEF Within
<1>6. sched_is_schedulable(w2)
  BY <1>3, <1>4, <1>5, StillSchedulable, ZenonT(60)
<1> QED BY <1>6 DEF w2

\* What process_create does to the scheduler: context c, which was free, is bound
\* to thread t, which had no process.
LEMMA CreateBinds ==
  ASSUME sched \in SchedRec(Nat), NEW a \in ArgRec, TakeFrames(a), CanBindFor(a)
  PROVE  LET t == Min(FreeTcbs)
             c == Min(FreeContexts)
         IN  /\ t \in Tcbs /\ ~tcb[t].made /\ c \in Contexts /\ ~sched.contexts[c].bound
             /\ BindsTo(Bound(c, t, a), sched, c, t)
<1> DEFINE t == Min(FreeTcbs)
           c == Min(FreeContexts)
<1>1. /\ a.partition \in Partitions /\ FreeTcbs # {} /\ FreeContexts # {} /\ a.period # 0
  BY Zenon DEF TakeFrames, MayCreate, CanBindFor, CanBind
<1>2. t \in Tcbs /\ ~tcb[t].made /\ c \in Contexts /\ ~sched.contexts[c].bound
  BY <1>1, FreeTcb, FreeContext, ZenonT(60)
<1> HIDE DEF t, c
<1>3. /\ t \in Nat /\ a.budget \in Nat /\ a.period \in Nat \ {0} /\ a.priority \in Nat
      /\ a.partition \in Partitions
  BY <1>1, <1>2, ProcessAssumption, SMTT(60) DEF Tcbs, ArgRec
<1>4. BindsTo(Bound(c, t, a), sched, c, t)
  BY <1>2, <1>3, BoundFields, ZenonT(60) DEF Bound
<1> QED BY <1>2, <1>4 DEF t, c

\* A creation was tested with its context bound, and a refused one leaves no share
\* behind.
LEMMA CreateShares ==
  ASSUME ShareInv, NEW a \in ArgRec, ProcessCreate(a) \/ CreateRefused(a)
  PROVE  ShareInv'
<1> DEFINE t == Min(FreeTcbs)
           c == Min(FreeContexts)
           s == Bound(c, t, a)
<1>0. sched \in SchedRec(Nat) /\ Divides(sched)
  BY Zenon DEF ShareInv
<1>1. TakeFrames(a) /\ CanBindFor(a) /\ direct' = direct
  BY Zenon DEF ProcessCreate, CreateRefused
<1>2. c \in Contexts /\ ~sched.contexts[c].bound /\ BindsTo(s, sched, c, t)
  BY <1>0, <1>1, CreateBinds, ZenonT(60)
<1>3. CASE ProcessCreate(a)
  <2>1. sched' = s /\ sched_is_schedulable(sched')
    BY <1>3, Zenon DEF ProcessCreate, Admitted
  <2> HIDE DEF s, c, t
  <2>2. sched' \in SchedRec(Nat) /\ Divides(sched')
    BY <1>0, <1>2, <2>1, ZenonT(60) DEF BindsTo, Divides
  <2> DEFINE w == Without(sched', direct')
  <2>w. Drops(w, sched', direct')
    BY <2>2, WithoutFields, Zenon
  <2> HIDE DEF w
  <2>3. w.num_partitions = sched'.num_partitions /\ Within(w, sched')
    BY <2>w, ZenonT(60) DEF Within, Drops
  <2>4. sched_is_schedulable(w)
    BY <2>1, <2>2, <2>3, StillSchedulable, ZenonT(60)
  <2> QED BY <2>2, <2>4, Zenon DEF ShareInv, w
<1>4. CASE CreateRefused(a)
  <2>1. sched' = Released(c, s)
    BY <1>4, Zenon DEF CreateRefused
  <2> HIDE DEF s, c, t
  <2>2. /\ s \in SchedRec(Nat) /\ s.num_partitions = sched.num_partitions
        /\ \A d \in Contexts \ {c} : s.contexts[d] = sched.contexts[d]
    BY <1>2, Zenon DEF BindsTo
  <2>3. /\ sched' \in SchedRec(Nat) /\ sched'.num_partitions = s.num_partitions
        /\ ~sched'.contexts[c].bound
        /\ \A d \in Contexts \ {c} : sched'.contexts[d] = s.contexts[d]
    BY <1>2, <2>1, <2>2, ReleasedFields, ZenonT(60)
  <2>4. \A d \in Contexts : sched'.contexts[d].bound =>
          sched'.contexts[d] = sched.contexts[d]
    BY <2>2, <2>3, Zenon
  <2>5. Divides(sched')
    BY <1>0, <2>4, Zenon DEF Divides
  <2>6. \A d \in Contexts : sched'.contexts[d].bound /\ d \notin direct' =>
          /\ sched.contexts[d].bound /\ d \notin direct
          /\ sched'.contexts[d] = sched.contexts[d]
    BY <1>1, <2>4, Zenon
  <2>7. sched_is_schedulable(Without(sched', direct'))
    BY <2>2, <2>3, <2>6, NothingAdmitted, ZenonT(60)
  <2> QED BY <2>3, <2>5, <2>7, Zenon DEF ShareInv
<1> QED BY <1>3, <1>4

\* A destruction gives a share back, whoever's it is.
LEMMA DestroyShares ==
  ASSUME StackInv, ShareInv, NEW t \in Tcbs, ProcessDestroy(t)
  PROVE  ShareInv'
<1> DEFINE c == tcb[t].sched_context
<1>0. sched \in SchedRec(Nat) /\ Divides(sched) /\ c \in Contexts
  BY Zenon DEF ShareInv, StackInv, TcbRec
<1>1. CASE UNCHANGED <<sched, direct>>
  BY <1>1, Zenon DEF ShareInv
<1>2. CASE sched' = Released(c, sched) /\ direct' = direct \ {c}
  <2> HIDE DEF c
  <2>1. /\ sched' \in SchedRec(Nat) /\ sched'.num_partitions = sched.num_partitions
        /\ ~sched'.contexts[c].bound
        /\ \A d \in Contexts \ {c} : sched'.contexts[d] = sched.contexts[d]
    BY <1>0, <1>2, ReleasedFields, ZenonT(60)
  <2>2. \A d \in Contexts : sched'.contexts[d].bound =>
          sched'.contexts[d] = sched.contexts[d] /\ d # c
    BY <2>1, Zenon
  <2>3. Divides(sched')
    BY <1>0, <2>2, Zenon DEF Divides
  <2>4. \A d \in Contexts : sched'.contexts[d].bound /\ d \notin direct' =>
          /\ sched.contexts[d].bound /\ d \notin direct
          /\ sched'.contexts[d] = sched.contexts[d]
    BY <1>2, <2>2, Zenon
  <2>5. sched_is_schedulable(Without(sched', direct'))
    BY <2>1, <2>4, NothingAdmitted, ZenonT(60)
  <2> QED BY <2>1, <2>3, <2>5, Zenon DEF ShareInv
<1> QED BY <1>1, <1>2 DEF ProcessDestroy

\* What INV_SCHED_BIND does to the scheduler.
LEMMA DirectBinds ==
  ASSUME sched \in SchedRec(Nat), NEW b \in Bindings, SchedBind(b)
  PROVE  /\ b[1] \in Contexts /\ BindsTo(sched', sched, b[1], b[2])
         /\ direct' = direct \cup {b[1]}
<1>1. /\ b[1] \in Nat /\ b[2] \in Nat /\ b[3] \in Nat /\ b[4] \in Nat /\ b[5] \in Nat
      /\ b[6] \in Nat
  BY ProcessAssumption
<1>2. /\ b[1] \in Contexts /\ b[3] \in Partitions /\ b[5] # 0
      /\ sched' = sched_context_bind(sched, b[1], b[2], b[3], b[4], b[5], b[6])
      /\ direct' = direct \cup {b[1]}
  BY Zenon DEF SchedBind, CanBind
<1>3. b[5] \in Nat \ {0}
  BY <1>1, <1>2, Zenon
<1>4. BindsTo(sched_context_bind(sched, b[1], b[2], b[3], b[4], b[5], b[6]), sched, b[1], b[2])
  BY <1>1, <1>2, <1>3, BoundFields, ZenonT(60)
<1> QED BY <1>2, <1>4, Zenon

\* INV_SCHED_BIND binds past the admission test, and takes nothing from what has
\* passed it.
LEMMA BindShares ==
  ASSUME ShareInv, NEW b \in Bindings, SchedBind(b)
  PROVE  ShareInv'
<1> DEFINE c == b[1]
<1>0. sched \in SchedRec(Nat) /\ Divides(sched)
  BY Zenon DEF ShareInv
<1>1. c \in Contexts /\ BindsTo(sched', sched, c, b[2]) /\ direct' = direct \cup {c}
  BY <1>0, DirectBinds, ZenonT(60)
<1> HIDE DEF c
<1>2. /\ sched' \in SchedRec(Nat) /\ sched'.num_partitions = sched.num_partitions
      /\ sched'.contexts[c].period # 0
      /\ \A d \in Contexts \ {c} : sched'.contexts[d] = sched.contexts[d]
  BY <1>1, Zenon DEF BindsTo
<1>3. Divides(sched')
  BY <1>0, <1>2, Zenon DEF Divides
<1>4. \A d \in Contexts : sched'.contexts[d].bound /\ d \notin direct' =>
        /\ sched.contexts[d].bound /\ d \notin direct
        /\ sched'.contexts[d] = sched.contexts[d]
  BY <1>1, <1>2, Zenon
<1>5. sched_is_schedulable(Without(sched', direct'))
  BY <1>2, <1>4, NothingAdmitted, ZenonT(60)
<1> QED BY <1>2, <1>3, <1>5, Zenon DEF ShareInv

\* Every step of the kernel after boot keeps what was admitted schedulable.
LEMMA KernelShares ==
  ASSUME StackInv, ShareInv, [PNext]_vars
  PROVE  ShareInv'
<1>1. CASE UNCHANGED <<sched, direct>>
  BY <1>1, Zenon DEF ShareInv
<1>2. \A a \in CreateArgs : a \in ArgRec
  BY ProcessAssumption
<1>3. ASSUME NEW a \in CreateArgs, CreateUnbound(a) PROVE UNCHANGED <<sched, direct>>
  BY <1>3, Zenon DEF CreateUnbound
<1>4. ASSUME NEW u \in Slots, NEW p \in ConfigParts, Configure(u, p)
      PROVE  UNCHANGED <<sched, direct>>
  BY <1>4, Zenon DEF Configure
<1> QED BY <1>1, <1>2, <1>3, <1>4, CreateShares, DestroyShares, BindShares, Zenon
        DEF PNext, vars, pvars

\* Before the first process is created no context is bound.
LEMMA EmptyShares ==
  ASSUME sched = Boot, direct = {}
  PROVE  ShareInv
<1> DEFINE w == Without(sched, direct)
<1>1. sched \in SchedRec(Nat) /\ \A c \in Contexts : ~sched.contexts[c].bound
  BY BootUnbound, SMTT(60) DEF Unbound
<1>w. Drops(w, sched, direct)
  BY <1>1, WithoutFields, Zenon
<1>2. \A c \in Contexts : ~w.contexts[c].bound
  BY <1>1, <1>w, ZenonT(60) DEF Drops
<1> HIDE DEF w
<1>3. sched_is_schedulable(w)
  <2> SUFFICES ASSUME NEW p PROVE Utilisation(w, p) = 0
    BY DEF sched_is_schedulable
  <2> DEFINE b == {i \in Contexts : w.contexts[i].bound /\ w.contexts[i].partition_id = p}
             f == [i \in b |-> (w.contexts[i].budget * 100) \div w.contexts[i].period]
  <2>1. b = {}
    BY <1>2, SMTT(60)
  <2>2. Utilisation(w, p) = SumFunctionOnSet(f, b)
    BY Zenon DEF Utilisation, SumFunction
  <2> HIDE DEF f, b
  <2> QED BY <2>1, <2>2, SumEmpty
<1> QED BY <1>1, <1>3, Zenon DEF ShareInv, Divides, w

\* What process_create admits always passes the admission test together: for any
\* number of TCBs, contexts and partitions, any requests, any capabilities and any
\* bindings through INV_SCHED_BIND.
THEOREM StaysSchedulable == PSpec => []AlwaysSchedulable
<1>1. PInit => StackInv /\ ShareInv
  <2>1. 0 \in 0 .. Top
    BY ProcessAssumption
  <2> QED BY <2>1, EmptyStacks, EmptyShares, ZenonT(60) DEF PInit
<1>2. StackInv /\ ShareInv /\ [PNext]_vars => (StackInv /\ ShareInv)'
  BY KernelStacks, KernelShares, Zenon
<1>3. ShareInv => AlwaysSchedulable
  BY Zenon DEF ShareInv, AlwaysSchedulable
<1> QED BY <1>1, <1>2, <1>3, PTL DEF PSpec

-----------------------------------------------------------------------------
\* Who owns the scheduling contexts.

BoundContexts == {c \in Contexts : sched.contexts[c].bound}

\* No capability in the slots designates a TCB of the table, and none that does
\* can be carved from an Untyped.  This is so after boot: its Untyped lies behind
\* the kernel, and it stores no TCB capability.
NamesNoTcb(slots) ==
  \A i \in Slots : slots[i] # NoCap /\ slots[i].type \in {"TCB", "UNTYPED"} =>
    slots[i].obj \notin Tcbs

\* No operation on capabilities changes that.
LEMMA DerivedNames ==
  ASSUME NEW r, NEW r2, Derived(r, r2), NamesNoTcb(r.slots)
  PROVE  NamesNoTcb(r2.slots)
<1> SUFFICES ASSUME NEW i \in Slots, r2.slots[i] # NoCap,
                    r2.slots[i].type \in {"TCB", "UNTYPED"}
             PROVE  r2.slots[i].obj \notin Tcbs
  BY Zenon DEF NamesNoTcb
<1>1. CASE r2.slots[i] = r.slots[i]
  BY <1>1, Zenon DEF NamesNoTcb
<1>2. CASE r2.slots[i] # r.slots[i]
  <2>1. PICK j \in Used(r) :
          /\ r.slots[j].obj = r2.slots[i].obj
          /\ r2.slots[i].type = r.slots[j].type \/ r.slots[j].type = "UNTYPED"
    BY <1>2, Zenon DEF Derived
  <2>2. j \in Slots /\ r.slots[j] # NoCap
    BY Zenon DEF Used
  <2> QED BY <2>1, <2>2, Zenon DEF NamesNoTcb
<1> QED BY <1>1, <1>2

\* The context that process t has, by name.
ctx(t) == tcb[t].sched_context

\* OwnContext in terms of the bound contexts.
Owning ==
  /\ \A t \in Made : sched.contexts[ctx(t)].bound
  /\ \A t \in Made : ctx(t) \in direct \/ sched.contexts[ctx(t)].tcb_id = t
  /\ \A t \in Made : \A u \in Made \ {t} : ctx(u) # ctx(t)
  /\ \A c \in BoundContexts : c \in direct \/ \E t \in Made : ctx(t) = c

\* What makes OwnContext inductive: no thread of the table is given a CNode, and a
\* context that INV_SCHED_BIND has bound stays bound until it is released.
ContextInv ==
  /\ \A t \in Tcbs : ~tcb[t].rooted
  /\ direct \subseteq BoundContexts
  /\ Owning
  /\ count = Cardinality(Made)

\* The invariant is OwnContext and more.
LEMMA ContextsOwn == ContextInv => OwnContext
<1>1. Contexts \ FreeContexts = BoundContexts
  BY DEF FreeContexts, BoundContexts
<1> QED BY <1>1, Zenon DEF ContextInv, OwnContext, Owning, ctx

\* The context of a process is in the table, and the counter has room.
LEMMA ContextsExist ==
  ASSUME StackInv, ContextInv
  PROVE  /\ \A t \in Made : t \in Tcbs /\ ctx(t) \in Contexts /\ ctx(t) \in BoundContexts
         /\ IsFiniteSet(Made) /\ Cardinality(Made) \in 0 .. MaxTcbs
         /\ \A t \in Tcbs : tcb[t] \in TcbRec
<1>1. \A t \in Tcbs : tcb[t] \in TcbRec
  BY Zenon DEF StackInv
<1>2. \A t \in Made : t \in Tcbs /\ ctx(t) \in Contexts
  BY <1>1, Zenon DEF Made, TcbRec, ctx
<1>3. \A t \in Made : ctx(t) \in BoundContexts
  BY <1>2, Zenon DEF ContextInv, Owning, BoundContexts
<1>4. Made \in SUBSET (0 .. (MaxTcbs - 1)) /\ MaxTcbs \in Nat
  BY ProcessAssumption DEF Made, Tcbs
<1> QED BY <1>1, <1>2, <1>3, <1>4, BelowIsFinite, ZenonT(60)

\* The counter is not wide enough to wrap.
LEMMA CountFits ==
  ASSUME NEW S \in SUBSET Tcbs, NEW n, n = Cardinality(S) % CountMod
  PROVE  n = Cardinality(S)
<1>1. S \in SUBSET (0 .. (MaxTcbs - 1)) /\ MaxTcbs \in Nat
  BY ProcessAssumption DEF Tcbs
<1>2. Cardinality(S) \in 0 .. MaxTcbs
  BY <1>1, BelowIsFinite
<1>3. CountMod \in Nat \ {0} /\ Cardinality(S) \in 0 .. (CountMod - 1)
  BY <1>2, ProcessAssumption, SMTT(60)
<1> QED BY <1>3, SmallMod, SMTT(60)

\* A created process and its context name each other.
LEMMA CreateContext ==
  ASSUME StackInv, ContextInv, sched \in SchedRec(Nat), NEW a \in ArgRec, ProcessCreate(a)
  PROVE  ContextInv'
<1>0. PICK t, c : t = Min(FreeTcbs) /\ c = Min(FreeContexts)
  BY Zenon
<1>1. /\ TakeFrames(a) /\ CanBindFor(a) /\ sched' = Bound(c, t, a)
      /\ count' = (count + 1) % CountMod /\ direct' = direct
  BY <1>0, ZenonT(60) DEF ProcessCreate
<1>2. /\ t \in Tcbs /\ ~tcb[t].made /\ c \in Contexts /\ ~sched.contexts[c].bound
      /\ BindsTo(sched', sched, c, t)
  BY <1>0, <1>1, CreateBinds, ZenonT(60)
<1>3. /\ \A u \in Tcbs \ {t} : tcb'[u] = tcb[u]
      /\ tcb'[t].made /\ ~tcb'[t].rooted /\ tcb'[t].sched_context = c
  BY <1>0, <1>2, Zenon DEF ProcessCreate, StackInv
<1>4. /\ sched'.contexts[c].bound /\ sched'.contexts[c].tcb_id = t
      /\ \A d \in Contexts \ {c} : sched'.contexts[d] = sched.contexts[d]
  BY <1>2, Zenon DEF BindsTo
<1>5. Made' = Made \cup {t} /\ t \notin Made
  BY <1>2, <1>3, Zenon DEF Made
<1>6. BoundContexts' = BoundContexts \cup {c} /\ c \notin BoundContexts
  BY <1>2, <1>4, SMTT(60) DEF BoundContexts
<1>7. /\ \A u \in Made : u \in Tcbs /\ ctx(u) \in Contexts /\ ctx(u) \in BoundContexts
      /\ IsFiniteSet(Made)
  BY ContextsExist, ZenonT(60)
<1>8. ASSUME NEW u \in Made
      PROVE  ctx(u)' = ctx(u) /\ ctx(u) # c /\ sched'.contexts[ctx(u)] = sched.contexts[ctx(u)]
  BY <1>3, <1>4, <1>5, <1>6, <1>7, ZenonT(60) DEF ctx
<1>9. ctx(t)' = c
  BY <1>3, Zenon DEF ctx
<1>10. ASSUME NEW u \in Made'
       PROVE  /\ sched'.contexts[ctx(u)'].bound
              /\ ctx(u)' \in direct' \/ sched'.contexts[ctx(u)'].tcb_id = u
  <2>1. CASE u = t
    BY <1>4, <1>9, <2>1, Zenon
  <2>2. CASE u # t
    <3>1. u \in Made
      BY <1>5, <2>2, Zenon
    <3>2. /\ sched.contexts[ctx(u)].bound
          /\ ctx(u) \in direct \/ sched.contexts[ctx(u)].tcb_id = u
      BY <3>1, Zenon DEF ContextInv, Owning
    <3> QED BY <1>1, <1>8, <3>1, <3>2, Zenon
  <2> QED BY <2>1, <2>2
<1>12. ASSUME NEW u \in Made', NEW v \in Made' \ {u} PROVE ctx(v)' # ctx(u)'
  <2>1. CASE u \in Made /\ v \in Made
    <3>1. ctx(v) # ctx(u)
      BY <2>1, Zenon DEF ContextInv, Owning
    <3> QED BY <1>8, <2>1, <3>1, Zenon
  <2>2. CASE u = t /\ v \in Made
    BY <1>8, <1>9, <2>2, Zenon
  <2>3. CASE v = t /\ u \in Made
    BY <1>8, <1>9, <2>3, Zenon
  <2> QED BY <1>5, <2>1, <2>2, <2>3, Zenon
<1>13. ASSUME NEW d \in BoundContexts' PROVE d \in direct' \/ \E u \in Made' : ctx(u)' = d
  <2>1. CASE d = c
    BY <1>5, <1>9, <2>1, Zenon
  <2>2. CASE d # c
    <3>1. d \in direct \/ \E u \in Made : ctx(u) = d
      BY <1>6, <2>2, Zenon DEF ContextInv, Owning
    <3> QED BY <1>1, <1>5, <1>8, <3>1, Zenon
  <2> QED BY <2>1, <2>2
<1>14. count' = Cardinality(Made')
  <2>1. Cardinality(Made') = Cardinality(Made) + 1
    BY <1>5, <1>7, FS_AddElement, ZenonT(60)
  <2>2. count' = Cardinality(Made') % CountMod
    BY <1>1, <2>1, ZenonT(60) DEF ContextInv
  <2>3. Made' \in SUBSET Tcbs
    BY <1>2, <1>5, <1>7, Zenon
  <2> QED BY <2>2, <2>3, CountFits, ZenonT(60)
<1>15. \A u \in Tcbs : ~tcb'[u].rooted
  BY <1>3, ZenonT(60) DEF ContextInv
<1>16. direct' \subseteq BoundContexts'
  BY <1>1, <1>6, Zenon DEF ContextInv
<1>17. Owning'
  BY <1>10, <1>12, <1>13, Zenon DEF Owning
<1> QED BY <1>14, <1>15, <1>16, <1>17, Zenon DEF ContextInv

\* A refused process leaves its context unbound.
LEMMA RefusedContext ==
  ASSUME StackInv, ContextInv, sched \in SchedRec(Nat), NEW a \in ArgRec, CreateRefused(a)
  PROVE  ContextInv'
<1> DEFINE t == Min(FreeTcbs)
           c == Min(FreeContexts)
           s == Bound(c, t, a)
<1>1. /\ TakeFrames(a) /\ CanBindFor(a) /\ sched' = Released(c, s)
      /\ UNCHANGED <<tcb, count, direct>>
  BY ZenonT(60) DEF CreateRefused
<1>2. c \in Contexts /\ ~sched.contexts[c].bound /\ BindsTo(s, sched, c, t)
  BY <1>1, CreateBinds, ZenonT(60)
<1> HIDE DEF t, c, s
<1>3. s \in SchedRec(Nat) /\ \A d \in Contexts \ {c} : s.contexts[d] = sched.contexts[d]
  BY <1>2, Zenon DEF BindsTo
<1>4. ~sched'.contexts[c].bound /\ \A d \in Contexts \ {c} : sched'.contexts[d] = s.contexts[d]
  BY <1>1, <1>2, <1>3, ReleasedFields, ZenonT(60)
<1>5. BoundContexts' = BoundContexts /\ c \notin BoundContexts /\ Made' = Made
  BY <1>1, <1>2, <1>3, <1>4, ZenonT(60) DEF BoundContexts, Made
<1>6. ASSUME NEW u \in Made
      PROVE  ctx(u)' = ctx(u) /\ sched'.contexts[ctx(u)] = sched.contexts[ctx(u)]
  <2>1. ctx(u) \in Contexts \ {c}
    BY <1>5, ContextsExist, ZenonT(60)
  <2>2. ctx(u)' = ctx(u)
    BY <1>1, Zenon DEF ctx
  <2> QED BY <1>3, <1>4, <2>1, <2>2, Zenon
<1>o. Owning
  BY Zenon DEF ContextInv
<1>7. Owning'
  <2>1. \A u \in Made : sched'.contexts[ctx(u)'].bound
    BY <1>6, <1>o, Zenon DEF Owning
  <2>2. \A u \in Made : ctx(u)' \in direct' \/ sched'.contexts[ctx(u)'].tcb_id = u
    BY <1>1, <1>6, <1>o, Zenon DEF Owning
  <2>3. \A u \in Made : \A v \in Made \ {u} : ctx(v)' # ctx(u)'
    BY <1>6, <1>o, Zenon DEF Owning
  <2>4. \A d \in BoundContexts : d \in direct' \/ \E u \in Made : ctx(u)' = d
    BY <1>1, <1>6, <1>o, Zenon DEF Owning
  <2> QED BY <1>5, <2>1, <2>2, <2>3, <2>4, Zenon DEF Owning
<1> QED BY <1>1, <1>5, <1>7, Zenon DEF ContextInv

\* A destruction that returns releases exactly the context of the process, and one
\* that does not return changes neither the processes nor the contexts.
LEMMA DestroyContext ==
  ASSUME StackInv, ContextInv, sched \in SchedRec(Nat), NEW t \in Tcbs, ProcessDestroy(t)
  PROVE  ContextInv'
<1> DEFINE c == tcb[t].sched_context
<1>0. c = ctx(t)
  BY DEF ctx
<1>1. t \in Made /\ ~tcb[t].rooted
  BY SMTT(60) DEF ProcessDestroy, FreeTcbs, ContextInv, Made
<1>2. /\ \A u \in Made : u \in Tcbs /\ ctx(u) \in Contexts /\ ctx(u) \in BoundContexts
      /\ IsFiniteSet(Made) /\ Cardinality(Made) \in 0 .. MaxTcbs
      /\ tcb[t] \in TcbRec
  BY ContextsExist, ZenonT(60)
<1>3. CASE tcb' = [tcb EXCEPT ![t].rooted = FALSE] /\ UNCHANGED <<sched, count, direct>>
  <2>1. tcb' = tcb
    <3>0. tcb[t] \in TcbRec /\ tcb[t].rooted = FALSE
      BY <1>1, <1>2, Zenon DEF TcbRec
    <3> DEFINE x == tcb[t]
    <3>1. [tcb[t] EXCEPT !.rooted = FALSE] = tcb[t]
      <4>1. x \in TcbRec /\ x.rooted = FALSE
        BY <3>0
      <4> HIDE DEF x
      <4>2. [x EXCEPT !.rooted = FALSE] = x
        BY <4>1, SMTT(60) DEF TcbRec
      <4> QED BY <4>2 DEF x
    <3>2. tcb \in [Tcbs -> TcbRec]
      BY Zenon DEF StackInv
    <3> QED BY <1>3, <3>1, <3>2
  <2>2. Made' = Made /\ BoundContexts' = BoundContexts /\ \A u : ctx(u)' = ctx(u)
    BY <1>3, <2>1, Zenon DEF Made, BoundContexts, ctx
  <2> QED BY <1>3, <2>1, <2>2, Zenon DEF ContextInv, Owning
<1>4. CASE /\ sched' = Released(c, sched) /\ direct' = direct \ {c}
           /\ tcb' = [tcb EXCEPT ![t] = NoTcb]
           /\ count' = (count - 1) % CountMod
  <2>1. /\ tcb'[t] = NoTcb /\ ~NoTcb.made /\ ~NoTcb.rooted
        /\ \A u \in Tcbs \ {t} : tcb'[u] = tcb[u]
    BY <1>4, ZenonT(60) DEF StackInv, NoTcb
  <2> HIDE DEF c
  <2>2. /\ ~sched'.contexts[c].bound
        /\ \A d \in Contexts \ {c} : sched'.contexts[d] = sched.contexts[d]
    BY <1>0, <1>1, <1>2, <1>4, ReleasedFields, ZenonT(60)
  <2>3. Made' = Made \ {t}
    BY <2>1, SMTT(60) DEF Made
  <2>4. BoundContexts' = BoundContexts \ {c}
    BY <2>2, SMTT(60) DEF BoundContexts
  <2>5. ASSUME NEW u \in Made'
        PROVE  /\ u \in Made /\ ctx(u)' = ctx(u) /\ ctx(u) # c
               /\ sched'.contexts[ctx(u)] = sched.contexts[ctx(u)]
    <3>1. u \in Made \ {t} /\ u \in Tcbs \ {t}
      BY <1>2, <2>3, Zenon
    <3>2. ctx(u)' = ctx(u) /\ ctx(u) # c
      BY <1>0, <1>1, <2>1, <3>1, Zenon DEF ContextInv, Owning, ctx
    <3> QED BY <1>2, <2>2, <3>1, <3>2, Zenon
  <2>6. \A u \in Made' : sched'.contexts[ctx(u)'].bound
    BY <2>5, ZenonT(60) DEF ContextInv, Owning
  <2>7. ASSUME NEW u \in Made'
        PROVE  ctx(u)' \in direct' \/ sched'.contexts[ctx(u)'].tcb_id = u
    <3>1. ctx(u) \in direct \/ sched.contexts[ctx(u)].tcb_id = u
      BY <2>5, Zenon DEF ContextInv, Owning
    <3> QED BY <1>4, <2>5, <3>1, Zenon
  <2>8. \A u \in Made' : \A v \in Made' \ {u} : ctx(v)' # ctx(u)'
    BY <2>5, ZenonT(60) DEF ContextInv, Owning
  <2>9. ASSUME NEW d \in BoundContexts' PROVE d \in direct' \/ \E u \in Made' : ctx(u)' = d
    <3>1. d \in BoundContexts /\ d # c
      BY <2>4, Zenon
    <3>2. CASE d \in direct
      BY <1>4, <3>1, <3>2, Zenon
    <3>3. ASSUME NEW u \in Made, ctx(u) = d PROVE u \in Made' /\ ctx(u)' = d
      BY <1>0, <2>3, <2>5, <3>1, <3>3, Zenon
    <3> QED BY <3>1, <3>2, <3>3, Zenon DEF ContextInv, Owning
  <2>10. count' = Cardinality(Made')
    <3>1. Cardinality(Made') = Cardinality(Made) - 1
      BY <1>1, <1>2, <2>3, FS_RemoveElement, ZenonT(60)
    <3>2. count' = Cardinality(Made') % CountMod
      BY <1>4, <3>1, ZenonT(60) DEF ContextInv
    <3>3. Made' \in SUBSET Tcbs
      BY <1>2, <2>3, Zenon
    <3> QED BY <3>2, <3>3, CountFits, ZenonT(60)
  <2>11. \A u \in Tcbs : ~tcb'[u].rooted
    BY <2>1, ZenonT(60) DEF ContextInv
  <2>12. direct' \subseteq BoundContexts'
    BY <1>4, <2>4, Zenon DEF ContextInv
  <2>13. Owning'
    BY <2>6, <2>7, <2>8, <2>9, Zenon DEF Owning
  <2> QED BY <2>10, <2>11, <2>12, <2>13, Zenon DEF ContextInv
<1> QED BY <1>3, <1>4 DEF ProcessDestroy

\* A binding leaves the processes their contexts, even one whose context it takes.
LEMMA BindContext ==
  ASSUME StackInv, ContextInv, sched \in SchedRec(Nat), NEW b \in Bindings, SchedBind(b)
  PROVE  ContextInv'
<1> DEFINE c == b[1]
<1>1. /\ c \in Contexts /\ BindsTo(sched', sched, c, b[2]) /\ direct' = direct \cup {c}
      /\ UNCHANGED <<tcb, count>>
  BY DirectBinds, ZenonT(60) DEF SchedBind
<1> HIDE DEF c
<1>2. sched'.contexts[c].bound /\ \A d \in Contexts \ {c} : sched'.contexts[d] = sched.contexts[d]
  BY <1>1, Zenon DEF BindsTo
<1>3. /\ BoundContexts' = BoundContexts \cup {c} /\ Made' = Made
      /\ \A u : ctx(u)' = ctx(u)
  BY <1>1, <1>2, Zenon DEF BoundContexts, Made, ctx
<1>4. ASSUME NEW u \in Made
      PROVE  ctx(u) = c \/ sched'.contexts[ctx(u)] = sched.contexts[ctx(u)]
  BY <1>2, ContextsExist, ZenonT(60)
<1>5. Owning'
  BY <1>1, <1>2, <1>3, <1>4, ZenonT(60) DEF ContextInv, Owning
<1> QED BY <1>1, <1>3, <1>5, Zenon DEF ContextInv

\* Every step of the kernel after boot keeps the contexts and the processes paired,
\* if no capability designates a TCB of the table.
LEMMA KernelContext ==
  ASSUME StackInv, ContextInv, sched \in SchedRec(Nat), RootOK(root), NamesNoTcb(root.slots),
         [PNext]_vars
  PROVE  ContextInv' /\ NamesNoTcb(root'.slots)
<1>1. NamesNoTcb(root'.slots)
  <2>1. Derived(root, root')
    BY KernelRoot, SMTT(60)
  <2> QED BY <2>1, DerivedNames, ZenonT(60)
<1>2. ASSUME UNCHANGED <<tcb, sched, count, direct>> PROVE ContextInv'
  <2>1. Made' = Made /\ BoundContexts' = BoundContexts /\ \A u : ctx(u)' = ctx(u)
    BY <1>2, Zenon DEF Made, BoundContexts, ctx
  <2> QED BY <1>2, <2>1, ZenonT(60) DEF ContextInv, Owning
<1>3. \A a \in CreateArgs : a \in ArgRec
  BY ProcessAssumption
<1>4. ASSUME NEW u \in Slots, NEW p \in ConfigParts, Configure(u, p)
      PROVE  UNCHANGED <<tcb, sched, count, direct>>
  <2> DEFINE x == root.slots[u].obj
  <2>1. x \notin Tcbs
    BY <1>4, Zenon DEF Configure, Invocable, NamesNoTcb
  <2>2. /\ tcb' = [tcb EXCEPT ![x].rooted = TRUE, ![x].partition = p]
        /\ UNCHANGED <<sched, count, direct>>
    BY <1>4, Zenon DEF Configure
  <2>3. tcb \in [Tcbs -> TcbRec]
    BY Zenon DEF StackInv
  <2> HIDE DEF x
  <2> QED BY <2>1, <2>2, <2>3, SMTT(60)
<1>5. ASSUME NEW a \in CreateArgs, CreateUnbound(a) PROVE UNCHANGED <<tcb, sched, count, direct>>
  BY <1>5, Zenon DEF CreateUnbound
<1>6. CASE UNCHANGED <<tcb, sched, count, direct>>
  BY <1>1, <1>2, <1>6, Zenon
<1> QED BY <1>1, <1>2, <1>3, <1>4, <1>5, <1>6, CreateContext, RefusedContext, DestroyContext,
           BindContext, Zenon
        DEF PNext, vars, pvars

\* Before the first process is created no context is bound.
LEMMA EmptyContexts ==
  ASSUME tcb = [t \in Tcbs |-> NoTcb], count = 0, sched = Boot, direct = {}
  PROVE  ContextInv
<1>1. \A c \in Contexts : ~sched.contexts[c].bound
  BY BootUnbound, SMTT(60) DEF Unbound
<1>2. \A t \in Tcbs : ~tcb[t].made /\ ~tcb[t].rooted
  BY Zenon DEF NoTcb
<1>3. Made = {} /\ BoundContexts = {}
  BY <1>1, <1>2, Zenon DEF Made, BoundContexts
<1>4. Cardinality({}) = 0
  BY FS_EmptySet
<1> QED BY <1>2, <1>3, <1>4, ZenonT(60) DEF ContextInv, Owning

ProcessInv == StackInv /\ ShareInv /\ ContextInv /\ RootOK(root) /\ NamesNoTcb(root.slots)

\* The invariant of the kernel's processes, from any root CNode whose capabilities
\* designate no TCB of the table.
THEOREM ProcessInvariant ==
  ASSUME NamesNoTcb(InitCaps)
  PROVE  PSpec => []ProcessInv
<1>1. PInit => ContextInv /\ NamesNoTcb(root.slots)
  <2> SUFFICES ASSUME PInit PROVE ContextInv /\ NamesNoTcb(root.slots)
    BY Zenon
  <2>1. ContextInv
    BY EmptyContexts, Zenon DEF PInit
  <2>2. root.slots = InitCaps
    BY Zenon DEF PInit, CInit
  <2> QED BY <2>1, <2>2, Zenon
<1>2. ProcessInv /\ [PNext]_vars => (ContextInv /\ NamesNoTcb(root.slots))'
  BY KernelContext, Zenon DEF ProcessInv, ShareInv
<1>3. PInit => StackInv /\ ShareInv
  <2>1. 0 \in 0 .. Top
    BY ProcessAssumption
  <2> QED BY <2>1, EmptyStacks, EmptyShares, ZenonT(60) DEF PInit
<1>4. ProcessInv /\ [PNext]_vars => (StackInv /\ ShareInv)'
  BY KernelStacks, KernelShares, Zenon DEF ProcessInv
<1>5. ProcessInv /\ [PNext]_vars => RootOK(root)'
  BY KernelRoot, ZenonT(60) DEF ProcessInv
<1>6. PInit => RootOK(root)
  <2> SUFFICES ASSUME PInit PROVE RootOK(root)
    BY SMTT(60)
  <2>1. /\ root = [slots |-> root.slots, used |-> root.used] /\ root.slots = InitCaps
        /\ root.used = Cardinality({i \in Slots : InitCaps[i] # NoCap})
    BY ZenonT(60) DEF PInit, CInit
  <2> QED BY <2>1, CSpaceAssumption, Zenon DEF RootOK, Used
<1>7. PInit => ProcessInv
  BY <1>1, <1>3, <1>6, SMTT(60) DEF ProcessInv
<1>8. ProcessInv /\ [PNext]_vars => ProcessInv'
  BY <1>2, <1>4, <1>5, Zenon DEF ProcessInv
<1> QED BY <1>7, <1>8, PTL DEF PSpec

\* Every process keeps a context of its own, which names it until INV_SCHED_BIND
\* binds it to another thread, and no context is bound without a process but by
\* INV_SCHED_BIND: for any number of TCBs, contexts and partitions, any requests and
\* any bindings, unless a capability designates a TCB of the table from the start.
THEOREM ContextsOwned ==
  ASSUME NamesNoTcb(InitCaps)
  PROVE  PSpec => []OwnContext
<1>1. ProcessInv => OwnContext
  BY ContextsOwn, Zenon DEF ProcessInv
<1> QED BY <1>1, ProcessInvariant, PTL

-----------------------------------------------------------------------------
\* The boot sequence.

\* While boot fills the root CNode, the slots that it is going to write are empty.
BootRoot ==
  /\ RootOK(root)
  /\ stage \in Nat
  /\ stage = 0 => Used(root) = {}
  /\ stage \in 1 .. 3 => Used(root) \subseteq {0, DefaultSlot}

\* Boot writes the Untyped and sets the counter to 1.
LEMMA UntypedStored ==
  ASSUME BootRoot, StoreUntyped
  PROVE  /\ RootOK(root') /\ Used(root') = {0}
         /\ UntypedCap.obj \notin Tcbs => NamesNoTcb(root'.slots)
<1>0. 0 \in Slots /\ UntypedCap \in Caps /\ UntypedCap.type = "UNTYPED"
  BY BootAssumption, SMTT(60)
<1>1. Used(root) = {} /\ RootOK(root)
  BY Zenon DEF BootRoot, StoreUntyped
<1>2. root.used = 0 /\ \A i \in Slots : root.slots[i] = NoCap
  BY <1>1, FS_EmptySet, Zenon DEF RootOK, Used
<1>3. root' = Fill(root, 0, UntypedCap)
  <2>1. root' = [slots |-> [root.slots EXCEPT ![0] = UntypedCap], used |-> 1]
    BY Zenon DEF StoreUntyped
  <2>2. root.used + 1 = 1
    BY <1>2
  <2> QED BY <2>1, <2>2, Zenon DEF Fill
<1>4. RootOK(root')
  BY <1>0, <1>1, <1>2, <1>3, FillCounts, Zenon
<1>5. root'.slots = [root.slots EXCEPT ![0] = UntypedCap]
  BY Zenon DEF StoreUntyped
<1>6. /\ root'.slots[0] = UntypedCap /\ UntypedCap # NoCap
      /\ \A i \in Slots \ {0} : root'.slots[i] = NoCap
  BY <1>0, <1>1, <1>2, <1>5, CSpaceAssumption, Zenon DEF RootOK
<1> QED BY <1>0, <1>4, <1>6, Zenon DEF Used, NamesNoTcb

\* The retype of boot takes the slot behind which the endpoints go, or none.
LEMMA BootRetype ==
  ASSUME BootRoot, TryRetype
  PROVE  /\ RootOK(root') /\ Used(root') \subseteq {0, DefaultSlot}
         /\ NamesNoTcb(root.slots) => NamesNoTcb(root'.slots)
<1>0. 0 \in Slots /\ DefaultSlot \in Slots /\ FrameSize \in Sizes
  BY BootAssumption, CSpaceAssumption, Zenon
<1> DEFINE type == "FRAME"
<1>1. type \in Types
  BY SMTT(60) DEF Types
<1>2. RootOK(root) /\ Used(root) \subseteq {0, DefaultSlot}
  BY DEF TryRetype, BootRoot
<1>3. UNCHANGED root \/ Retype(0, type, FrameSize, DefaultSlot)
  BY Zenon DEF TryRetype
<1> HIDE DEF type
<1>4. CASE UNCHANGED root
  BY <1>2, <1>4, Zenon DEF Used
<1>5. CASE Retype(0, type, FrameSize, DefaultSlot)
  <2>1. RootOK(root') /\ Derived(root, root')
    BY <1>0, <1>1, <1>2, <1>5, RetypeRoot, ZenonT(60)
  <2>2. Destination(DefaultSlot) = DefaultSlot
    BY DEF Destination
  <2>3. \A i \in Slots \ {DefaultSlot} : root'.slots[i] = root.slots[i]
    BY <1>2, <1>5, <2>2, Zenon DEF Retype, Fill, RootOK
  <2>4. Used(root') \subseteq {0, DefaultSlot}
    BY <1>2, <2>3, Zenon DEF Used
  <2> QED BY <2>1, <2>4, DerivedNames, ZenonT(60)
<1> QED BY <1>3, <1>4, <1>5

\* Boot writes one endpoint capability per server into slots that are empty, and
\* adds their number to the counter.
LEMMA EndpointsStored ==
  ASSUME BootRoot, StoreEndpoints
  PROVE  RootOK(root') /\ (NamesNoTcb(root.slots) => NamesNoTcb(root'.slots))
<1> DEFINE n == Len(EndpointObjs)
           E == {i \in Slots : \E k \in 1 .. n : EndpointSlot(k) = i}
           at(i) == CHOOSE k \in 1 .. n : EndpointSlot(k) = i
           cap(i) == EndpointCap(EndpointObjs[at(i)])
<1>0. /\ n \in Nat /\ LastBelow \in Nat /\ DefaultSlot \in 0 .. LastBelow
      /\ \A k \in 1 .. n : LastBelow + k \in Slots /\ EndpointObjs[k] \in Objects
      /\ 1 \in Sizes
  BY BootAssumption, SMTT(60)
<1>1. RootOK(root) /\ Used(root) \subseteq {0, DefaultSlot}
  BY SMTT(60) DEF BootRoot, StoreEndpoints
<1>2. /\ root' = [slots |-> root'.slots, used |-> root'.used]
      /\ root'.slots = [i \in Slots |-> IF i \in E THEN cap(i) ELSE root.slots[i]]
      /\ root'.used = root.used + n
  BY SMTT(60) DEF StoreEndpoints, CounterAfter
<1>3. ASSUME NEW i \in E PROVE cap(i) \in Caps /\ cap(i) # NoCap /\ cap(i).type = "ENDPOINT"
  <2>1. at(i) \in 1 .. n
    BY SMTT(60)
  <2> HIDE DEF at
  <2>2. EndpointObjs[at(i)] \in Objects
    BY <1>0, <2>1, SMTT(60)
  <2>3. cap(i) \in Caps
    BY <1>0, <2>2, ZenonT(60) DEF EndpointCap, Caps, Types, AllRights
  <2>4. cap(i).type = "ENDPOINT"
    BY Zenon DEF EndpointCap
  <2> QED BY <2>3, <2>4, CSpaceAssumption, Zenon
<1> HIDE DEF cap
<1>4. root'.slots \in [Slots -> Caps \cup {NoCap}]
  BY <1>1, <1>2, <1>3, SMTT(60) DEF RootOK
<1>5. Used(root') = Used(root) \cup E
  BY <1>2, <1>3, Zenon DEF Used
<1>6. E = (LastBelow + 1) .. (LastBelow + n)
  <2>1. \A i \in E : i \in (LastBelow + 1) .. (LastBelow + n)
    BY <1>0 DEF EndpointSlot
  <2>2. ASSUME NEW i \in (LastBelow + 1) .. (LastBelow + n) PROVE i \in E
    <3>1. i - LastBelow \in 1 .. n /\ LastBelow + (i - LastBelow) = i
      BY <1>0
    <3> QED BY <1>0, <3>1, Zenon DEF EndpointSlot
  <2> QED BY <2>1, <2>2
<1> HIDE DEF E
<1>7. IsFiniteSet(E) /\ Cardinality(E) = n
  <2>1. LastBelow + 1 \in Int /\ LastBelow + n \in Int
    BY <1>0
  <2>2. /\ IsFiniteSet((LastBelow + 1) .. (LastBelow + n))
        /\ Cardinality((LastBelow + 1) .. (LastBelow + n))
             = IF LastBelow + 1 > LastBelow + n THEN 0 ELSE (LastBelow + n) - (LastBelow + 1) + 1
    BY <2>1, FS_Interval, SMTT(60)
  <2> QED BY <1>0, <1>6, <2>2, SMTT(60)
<1>8. Used(root) \cap E = {}
  BY <1>0, <1>1, <1>6, SMTT(60)
<1>9. /\ IsFiniteSet(Used(root)) /\ Cardinality(Used(root)) \in Nat
      /\ Cardinality({}) = 0
  BY UsedFinite, FS_CardinalityType, FS_EmptySet, SMTT(60)
<1>10. Cardinality(Used(root) \cup E)
         = Cardinality(Used(root)) + Cardinality(E) - Cardinality(Used(root) \cap E)
  BY <1>7, <1>9, FS_Union, Zenon
<1>11. Cardinality(Used(root')) = root'.used
  <2>1. Cardinality(Used(root) \cap E) = 0
    BY <1>8, <1>9, SMTT(60)
  <2>2. Cardinality(Used(root) \cup E) = Cardinality(Used(root)) + n
    <3>1. Cardinality(Used(root) \cup E) = Cardinality(Used(root)) + n - 0
      BY <1>7, <1>10, <2>1, Zenon
    <3> QED BY <1>0, <1>9, <3>1
  <2>3. root.used = Cardinality(Used(root))
    BY <1>1, SMTT(60) DEF RootOK
  <2> QED BY <1>2, <1>5, <2>2, <2>3, Zenon
<1>12. NamesNoTcb(root.slots) => NamesNoTcb(root'.slots)
  BY <1>2, <1>3, ZenonT(60) DEF NamesNoTcb
<1> QED BY <1>2, <1>4, <1>11, <1>12, Zenon DEF RootOK

\* Boot, and what follows it, count the root CNode right.
LEMMA BootCounts ==
  ASSUME BootRoot, [BNext]_bvars
  PROVE  BootRoot'
<1>0. Len(BootList) \in Nat \ {0}
  BY BootAssumption
<1>p. Parked = Len(BootList) + 3
  BY SMTT(60) DEF Parked
<1>1. CASE UNCHANGED bvars
  BY <1>1, ZenonT(60) DEF BootRoot, bvars, Used
<1>2. CASE StoreUntyped /\ stage' = stage + 1
  <2>1. RootOK(root') /\ Used(root') = {0}
    BY <1>2, UntypedStored, SMTT(60)
  <2>2. stage' = 1
    BY <1>2, SMTT(60) DEF StoreUntyped
  <2> QED BY <2>1, <2>2, SMTT(60) DEF BootRoot
<1>3. CASE TryRetype /\ stage' = stage + 1
  <2>1. RootOK(root') /\ Used(root') \subseteq {0, DefaultSlot}
    BY <1>3, BootRetype
  <2>2. stage' = 3
    BY <1>3 DEF TryRetype
  <2> QED BY <2>1, <2>2 DEF BootRoot
<1>4. CASE StoreEndpoints /\ stage' = stage + 1
  <2>1. RootOK(root')
    BY <1>4, EndpointsStored, SMTT(60)
  <2>2. stage' = 4
    BY <1>4, SMTT(60) DEF StoreEndpoints
  <2> QED BY <2>1, <2>2 DEF BootRoot
<1>5. CASE SpawnNext /\ stage' = stage + 1
  <2>1. UNCHANGED root
    BY <1>5, Zenon DEF SpawnNext, Spawn, ProcessCreate, CreateUnbound, CreateRefused, TakeFrames, vars
  <2>2. stage = 1 \/ stage \in 4 .. (Parked - 1)
    BY <1>5 DEF SpawnNext
  <2>3. stage \in Nat
    BY DEF BootRoot
  <2>4. stage' \in Nat /\ stage' # 0 /\ (stage' \in 1 .. 3 => stage \in 1 .. 3)
    BY <1>0, <1>p, <1>5, <2>2, <2>3, SMTT(60)
  <2>5. Used(root') = Used(root) /\ RootOK(root')
    BY <2>1 DEF BootRoot
  <2> QED BY <2>4, <2>5, Zenon DEF BootRoot
<1>6. CASE stage = Parked /\ PNext /\ UNCHANGED stage
  <2>1. RootOK(root')
    BY <1>6, KernelRoot DEF BootRoot
  <2>2. stage' \in Nat /\ stage' # 0 /\ stage' \notin 1 .. 3
    BY <1>0, <1>p, <1>6, SMTT(60)
  <2> QED BY <2>1, <2>2, SMTT(60) DEF BootRoot
<1> QED BY <1>1, <1>2, <1>3, <1>4, <1>5, <1>6, SMTT(60) DEF BNext, BootStep

\* Boot, and what follows it, keep what was admitted schedulable.
LEMMA BootShares ==
  ASSUME StackInv, ShareInv, [BNext]_bvars
  PROVE  ShareInv'
<1>1. CASE StoreUntyped \/ TryRetype \/ StoreEndpoints
  <2>1. UNCHANGED <<sched, direct>>
    BY <1>1, Zenon DEF StoreUntyped, TryRetype, StoreEndpoints, pvars
  <2> QED BY <2>1, Zenon DEF ShareInv
<1>2. ASSUME NEW a \in ArgRec, CreateUnbound(a) PROVE ShareInv'
  <2>1. UNCHANGED <<sched, direct>>
    BY <1>2, Zenon DEF CreateUnbound
  <2> QED BY <2>1, Zenon DEF ShareInv
<1> QED BY <1>1, <1>2, BootSteps, KernelShares, CreateShares, Zenon

\* Boot brings no capability that designates a TCB and no unpaired context about.
LEMMA BootContext ==
  ASSUME UntypedCap.obj \notin Tcbs, StackInv, ContextInv, sched \in SchedRec(Nat), BootRoot,
         NamesNoTcb(root.slots), [BNext]_bvars
  PROVE  ContextInv' /\ NamesNoTcb(root'.slots)
<1>0. RootOK(root)
  BY DEF BootRoot
<1>1. CASE [PNext]_vars
  BY <1>0, <1>1, KernelContext, Zenon
<1>2. ASSUME UNCHANGED <<tcb, sched, count, direct>> PROVE ContextInv'
  <2>1. Made' = Made /\ BoundContexts' = BoundContexts /\ \A u : ctx(u)' = ctx(u)
    BY <1>2, Zenon DEF Made, BoundContexts, ctx
  <2> QED BY <1>2, <2>1, ZenonT(60) DEF ContextInv, Owning
<1>3. CASE StoreUntyped \/ TryRetype \/ StoreEndpoints
  <2>1. UNCHANGED <<tcb, sched, count, direct>>
    BY <1>3, Zenon DEF StoreUntyped, TryRetype, StoreEndpoints, pvars
  <2>2. NamesNoTcb(root'.slots)
    BY <1>3, UntypedStored, BootRetype, EndpointsStored, Zenon
  <2> QED BY <1>2, <2>1, <2>2, Zenon
<1>4. ASSUME NEW a \in ArgRec, ProcessCreate(a) \/ CreateUnbound(a) \/ CreateRefused(a)
      PROVE  ContextInv' /\ NamesNoTcb(root'.slots)
  <2>1. UNCHANGED root
    BY <1>4, Zenon DEF ProcessCreate, CreateUnbound, CreateRefused, TakeFrames
  <2>2. NamesNoTcb(root'.slots)
    BY <2>1, Zenon
  <2>3. CASE CreateUnbound(a)
    <3>1. UNCHANGED <<tcb, sched, count, direct>>
      BY <2>3, Zenon DEF CreateUnbound
    <3> QED BY <1>2, <2>2, <3>1, Zenon
  <2> QED BY <1>4, <2>2, <2>3, CreateContext, RefusedContext, Zenon
<1> QED BY <1>1, <1>3, <1>4, BootSteps, Zenon

\* The root CNode is empty when boot begins.
LEMMA BootBegins ==
  BInit => BootRoot /\ NamesNoTcb(root.slots) /\ StackInv /\ ShareInv /\ ContextInv
<1> SUFFICES ASSUME BInit
             PROVE  BootRoot /\ NamesNoTcb(root.slots) /\ StackInv /\ ShareInv /\ ContextInv
  OBVIOUS
<1>1. root = [slots |-> [i \in Slots |-> NoCap], used |-> 0]
  BY DEF BInit
<1>2. Used(root) = {} /\ root.slots \in [Slots -> Caps \cup {NoCap}]
  BY <1>1, SMTT(60) DEF Used
<1>3. RootOK(root)
  BY <1>1, <1>2, FS_EmptySet, SMTT(60) DEF RootOK
<1>4. stage = 0 /\ NamesNoTcb(root.slots)
  BY <1>1, SMTT(60) DEF BInit, NamesNoTcb
<1>5. BootRoot
  BY <1>2, <1>3, <1>4, Zenon DEF BootRoot
<1>6. StackInv /\ ShareInv /\ ContextInv
  BY EmptyStacks, EmptyShares, EmptyContexts, BootAssumption, Zenon DEF BInit
<1> QED BY <1>4, <1>5, <1>6

\* The counter of the root CNode is right all through boot, although boot writes
\* it and the slots by hand, and ever after: whatever is created and invoked.
THEOREM BootUsedRight == BSpec => []UsedCounts
<1>1. BInit => BootRoot
  BY BootBegins, SMTT(60)
<1>2. BootRoot /\ [BNext]_bvars => BootRoot'
  BY BootCounts
<1>3. BootRoot => UsedCounts
  BY DEF BootRoot, RootOK, UsedCounts
<1> QED BY <1>1, <1>2, <1>3, PTL DEF BSpec

BootInv == StackInv /\ ShareInv /\ ContextInv /\ BootRoot /\ NamesNoTcb(root.slots)

\* The invariant of kernel_boot and of the processes after it: the Untyped of boot
\* is no TCB of the table.
THEOREM BootInvariant ==
  ASSUME UntypedCap.obj \notin Tcbs
  PROVE  BSpec => []BootInv
<1>1. BInit => BootInv
  BY BootBegins, SMTT(60) DEF BootInv
<1>2. BootInv /\ [BNext]_bvars => (StackInv /\ ShareInv /\ BootRoot)'
  BY BootStacks, BootShares, BootCounts, Zenon DEF BootInv
<1>3. BootInv /\ [BNext]_bvars => (ContextInv /\ NamesNoTcb(root.slots))'
  BY BootContext, Zenon DEF BootInv, ShareInv
<1>4. BootInv /\ [BNext]_bvars => BootInv'
  BY <1>2, <1>3, Zenon DEF BootInv
<1> QED BY <1>1, <1>4, PTL DEF BSpec

\* From boot on, every process keeps a context of its own: for any list of servers,
\* any requests and any bindings through INV_SCHED_BIND.
THEOREM BootContextsOwned ==
  ASSUME UntypedCap.obj \notin Tcbs
  PROVE  BSpec => []OwnContext
<1>1. BootInv => OwnContext
  BY ContextsOwn, Zenon DEF BootInv
<1> QED BY <1>1, BootInvariant, PTL

\* And what process_create has admitted passes the admission test from boot on.
THEOREM BootStaysSchedulable == BSpec => []AlwaysSchedulable
<1>1. BInit => StackInv /\ ShareInv
  BY BootBegins, Zenon
<1>2. StackInv /\ ShareInv /\ [BNext]_bvars => (StackInv /\ ShareInv)'
  BY BootStacks, BootShares, Zenon
<1>3. ShareInv => AlwaysSchedulable
  BY Zenon DEF ShareInv, AlwaysSchedulable
<1> QED BY <1>1, <1>2, <1>3, PTL DEF BSpec

-----------------------------------------------------------------------------
\* The mapping database under the calls of the kernel.

\* What the nodes record fits: slots and thread ids are cptrs, and 0 and NIL are
\* parents that mdb_insert takes.
LEMMA Recordable ==
  /\ \A arg \in Slots : Destination(arg) \in Cptrs \cup {0}
  /\ Tcbs \subseteq Cptrs \cup {0}
  /\ {0, NIL} \subseteq Idx \cup {NIL}
<1>1. {0, NIL} \subseteq Idx \cup {NIL}
  BY MdbAssumption, SMTT(60) DEF Idx
<1>2. Tcbs \subseteq Cptrs \cup {0}
  BY ProcessAssumption, SMTT(60) DEF Tcbs
<1>3. ASSUME NEW arg \in Slots PROVE Destination(arg) \in Slots
  BY CSpaceAssumption, SMTT(60) DEF Destination
<1> QED BY <1>1, <1>2, <1>3, CSpaceAssumption, SMTT(60)

\* An empty table has room.
LEMMA EmptyHasRoom == CanInsert(mdb_init)
<1>1. mdb_init.count = 0 /\ mdb_init.free_head = 0 /\ 0 \in Idx /\ ~mdb_init.nodes[0].valid
  <2>1. 0 \in Idx
    BY MdbAssumption DEF Idx
  <2> QED BY <2>1, Zenon DEF mdb_init
<1> QED BY <1>1, MdbAssumption, SMTT(60) DEF CanInsert, Free, Idx

\* process_destroy withdraws what it finds under the thread's id, if mdb_revoke
\* returns.
LEMMA WithdrawTable ==
  ASSUME NEW m, TableInv(m), NEW t, NEW idx, idx = mdb_lookup(m, t), idx # NIL, ~Endless(m, idx)
  PROVE  TableInv(Withdrawn(m, idx))
<1> DEFINE found == {i \in Valid(m) : t = 0 \/ m.nodes[i].cptr = t}
<1>1. found \in SUBSET Nat /\ m \in MdbRec /\ ChainInv(m) /\ Valid(m) \subseteq Idx
  BY NodeFacts, ZenonT(60) DEF TableInv
<1>2. found # {} /\ idx = Min(found)
  BY ZenonT(60) DEF mdb_lookup
<1>3. idx \in found
  BY <1>1, <1>2, MinIsMember, ZenonT(60)
<1>4. idx \in Valid(m) /\ idx \in Idx
  BY <1>1, <1>3, Zenon
<1>5. idx \notin Below(m, idx)
  BY <1>1, <1>4, EndsApart, ZenonT(60)
<1>6. TableInv(mdb_revoke(m, idx))
  BY <1>4, <1>5, RevokeTable, SMTT(60)
<1> QED BY <1>4, <1>6, DeleteTable, SMTT(60) DEF Withdrawn

\* A creation records the new thread below no other node.
LEMMA CreateTable ==
  ASSUME TableInv(mdb), NEW a, ProcessCreate(a)
  PROVE  TableInv(mdb')
<1> DEFINE t == Min(FreeTcbs)
<1>1. t \in Tcbs
  BY FreeTcb, ZenonT(60) DEF ProcessCreate, TakeFrames, MayCreate
<1>2. mdb' = IF CanInsert(mdb) THEN mdb_insert(mdb, NIL, t) ELSE mdb
  BY Zenon DEF ProcessCreate
<1> HIDE DEF t
<1> QED BY <1>1, <1>2, Recordable, InsertTable, SMTT(60)

\* A retype records the new capability below node 0, recorded or not.
LEMMA RetypeTable ==
  ASSUME TableInv(mdb), NEW u, NEW type, NEW size, NEW arg \in Slots, Retype(u, type, size, arg)
  PROVE  TableInv(mdb')
<1>1. mdb' = IF CanInsert(mdb) THEN mdb_insert(mdb, 0, Destination(arg)) ELSE mdb
  BY SMTT(60) DEF Retype
<1> QED BY <1>1, Recordable, InsertTable, SMTT(60)

\* Every step of the kernel after boot keeps the table in order.
LEMMA KernelTable ==
  ASSUME TableInv(mdb), [PNext]_vars
  PROVE  TableInv(mdb')
<1>1. ASSUME NEW a, CreateUnbound(a) \/ CreateRefused(a) PROVE UNCHANGED mdb
  BY <1>1, SMTT(60) DEF CreateUnbound, CreateRefused
<1>2. ASSUME NEW t \in Tcbs, ProcessDestroy(t) PROVE TableInv(mdb')
  <2> DEFINE idx == mdb_lookup(mdb, t)
  <2>1. mdb' = mdb \/ (idx # NIL /\ ~Endless(mdb, idx) /\ mdb' = Withdrawn(mdb, idx))
    BY <1>2 DEF ProcessDestroy
  <2> QED BY <2>1, WithdrawTable
<1>3. ASSUME NEW u, NEW p, Configure(u, p) PROVE UNCHANGED mdb
  BY <1>3, SMTT(60) DEF Configure
<1>4. ASSUME NEW b, SchedBind(b) PROVE UNCHANGED mdb
  BY <1>4, SMTT(60) DEF SchedBind
<1>5. CASE CNext
  <2>1. ASSUME NEW u \in Slots, NEW dst, NEW src,
               Copy(u, dst, src) \/ Move(u, dst, src) \/ (\E b : Mint(u, dst, src, b)) \/ Delete(u, dst)
        PROVE  UNCHANGED mdb
    BY <2>1, Zenon DEF Copy, Move, Mint, Delete
  <2> QED BY <1>5, <2>1, RetypeTable, ZenonT(60) DEF CNext, RetypeStep
<1>6. CASE UNCHANGED vars
  BY <1>6, SMTT(60) DEF vars
<1> QED BY <1>1, <1>2, <1>3, <1>4, <1>5, <1>6, CreateTable, SMTT(60) DEF PNext

\* The steps of boot keep it in order too; boot stores the Untyped in an empty
\* table, so there is room.
LEMMA BootTable ==
  ASSUME TableInv(mdb), stage = 0 => mdb = mdb_init, stage \in Nat, [BNext]_bvars
  PROVE  TableInv(mdb') /\ (stage' = 0 => mdb' = mdb_init)
<1>1. TableInv(mdb')
  <2>1. CASE StoreUntyped
    <3>1. CanInsert(mdb) /\ mdb' = mdb_insert(mdb, NIL, 0)
      BY <2>1, EmptyHasRoom, ZenonT(60) DEF StoreUntyped
    <3> QED BY <3>1, Recordable, InsertTable, SMTT(60)
  <2>2. CASE TryRetype
    <3>1. DefaultSlot \in Slots
      BY CSpaceAssumption
    <3>2. mdb' = mdb \/ Retype(0, "FRAME", FrameSize, DefaultSlot)
      BY <2>2, Zenon DEF TryRetype
    <3> QED BY <3>1, <3>2, RetypeTable, SMTT(60)
  <2>3. CASE StoreEndpoints
    BY <2>3, SMTT(60) DEF StoreEndpoints
  <2>4. ASSUME NEW a, ProcessCreate(a) \/ CreateUnbound(a) \/ CreateRefused(a) PROVE TableInv(mdb')
    BY <2>4, CreateTable, SMTT(60) DEF CreateUnbound, CreateRefused
  <2> QED BY <2>1, <2>2, <2>3, <2>4, BootSteps, KernelTable, SMTT(60)
<1>2. stage' = 0 => mdb' = mdb_init
  <2>1. CASE BootStep
    BY <2>1, SMTT(60) DEF BootStep
  <2>2. CASE UNCHANGED bvars
    BY <2>2, SMTT(60) DEF bvars
  <2>3. CASE stage = Parked /\ UNCHANGED stage
    <3>1. Parked # 0
      BY BootAssumption, SMTT(60) DEF Parked
    <3> QED BY <2>3, <3>1, SMTT(60)
  <2> QED BY <2>1, <2>2, <2>3, SMTT(60) DEF BNext
<1> QED BY <1>1, <1>2, SMTT(60)

-----------------------------------------------------------------------------
\* The types of all that processes share.

\* The invariants of the parts bound the numbers.
LEMMA TypesFollow == RootOK(root) /\ StackInv /\ TableInv(mdb) => PTypeOK
<1> SUFFICES ASSUME RootOK(root), StackInv, TableInv(mdb) PROVE PTypeOK
  BY SMTT(60)
<1>1. CTypeOK
  <2>1. IsFiniteSet(Slots) /\ Used(root) \subseteq Slots
    BY CSpaceAssumption, Zenon DEF Used
  <2>2. Cardinality(Used(root)) \in Nat /\ Cardinality(Slots) \in Nat
        /\ Cardinality(Used(root)) <= Cardinality(Slots)
    BY <2>1, FS_Subset, FS_CardinalityType, Zenon
  <2> QED BY <2>2, SMTT(60) DEF CTypeOK, RootOK, TableInv
<1>2. tcb \in [Tcbs -> [made : BOOLEAN, rooted : BOOLEAN, sched_context : Contexts,
                        partition : Partitions \cup ConfigParts,
                        stack : 0 .. Top, pages : 0 .. Top]]
  <2>1. tcb \in [Tcbs -> TcbRec] /\ next \in 0 .. Top /\ Top \in Nat
    BY ProcessAssumption, Zenon DEF StackInv
  <2>2. ASSUME NEW t \in Tcbs PROVE tcb[t].stack \in 0 .. Top /\ tcb[t].pages \in 0 .. Top
    <3>1. tcb[t].stack \in Nat /\ tcb[t].pages \in Nat /\ tcb[t].stack + tcb[t].pages <= next
      BY <2>1, Zenon DEF StackInv, TcbRec
    <3> QED BY <2>1, <3>1, SMTT(60)
  <2> QED BY <2>1, <2>2, SMTT(60) DEF TcbRec
<1> QED BY <1>1, <1>2, Zenon DEF PTypeOK, StackInv

\* The root CNode and the mapping database keep their types, and so do the TCBs,
\* whose stacks lie in memory that exists: for any number of nodes, slots and TCBs,
\* any requests and any capabilities, also when nodes become their own children.
THEOREM ProcessTyped == PSpec => []PTypeOK
<1>1. PInit => StackInv /\ TableInv(mdb)
  <2> SUFFICES ASSUME PInit PROVE StackInv /\ TableInv(mdb)
    OBVIOUS
  <2>1. 0 \in 0 .. Top
    BY ProcessAssumption
  <2>2. mdb = mdb_insert(mdb_init, NIL, 0)
    BY Zenon DEF PInit, CInit
  <2>3. TableInv(mdb)
    BY <2>2, InitTable, EmptyHasRoom, Recordable, InsertTable, Zenon
  <2> QED BY <2>1, <2>3, EmptyStacks, ZenonT(60) DEF PInit
<1>2. StackInv /\ TableInv(mdb) /\ [PNext]_vars => (StackInv /\ TableInv(mdb))'
  BY KernelStacks, KernelTable
<1> QED BY <1>1, <1>2, TypesFollow, RootInvariant, PTL DEF PSpec

\* The same from the start of kernel_boot on.
THEOREM BootTyped == BSpec => []PTypeOK
<1> DEFINE Inv == /\ BootRoot /\ StackInv /\ TableInv(mdb)
                  /\ stage = 0 => mdb = mdb_init
<1>1. BInit => Inv
  BY BootBegins, InitTable, Zenon DEF BInit
<1>2. Inv /\ [BNext]_bvars => Inv'
  BY BootCounts, BootStacks, BootTable, Zenon DEF BootRoot
<1>3. Inv => PTypeOK
  BY TypesFollow DEF BootRoot
<1> QED BY <1>1, <1>2, <1>3, PTL DEF BSpec
=============================================================================
