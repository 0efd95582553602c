------------------------------- MODULE VSpace -------------------------------
(***************************************************************************)
(* Address spaces (kernel/src/vspace.c): three-level page tables in frames *)
(* that come from the allocator the processes take their stacks from.      *)
(* Addresses are page numbers, so the alignment tests hold; the sealed     *)
(* capability of a table page is its page number.  A virtual page beyond   *)
(* what the tables cover is cut to the bits that index them.               *)
(***************************************************************************)
EXTENDS Alloc, Sequences

CONSTANTS
  Spaces,       \* address spaces
  Partition,    \* space -> its partition_id
  Fan,          \* PT_ENTRIES (512)
  MaxPt,        \* tables of one space (64)
  Top,          \* pages of memory that the allocator has
  Vaddrs,       \* virtual pages that are named in calls
  MaxLen,       \* the longest range of a call
  StackPages,   \* pages of a stack
  Frames,       \* [ppn, perms, color] that are mapped
  NoPte         \* an entry without PTE_V

PteRec == [ppn : Nat, flags : SUBSET {"R", "W", "X", "U"}]

ASSUME VSpaceAssumption ==
  /\ Fan \in Nat \ {0} /\ MaxPt \in Nat /\ Top \in Nat /\ MaxLen \in Nat
  /\ StackPages \in Nat
  /\ Partition \in [Spaces -> Nat]
  /\ Vaddrs \subseteq Nat
  /\ Frames \subseteq [ppn : Nat, perms : SUBSET {"R", "W", "X"}, color : Nat]
  /\ NoPte \notin PteRec

VARIABLES
  mem,     \* page -> the table in it
  next,    \* g_alloc.next
  vs,      \* space -> [root, pt], pt the pages in pt_caps, in order
  stacks,  \* the pages that processes got
  ever     \* space -> pages that have been mapped at some time

vars == <<mem, next, vs, stacks, ever>>

Null == Top   \* no root

Pte(ppn, flags) == [ppn |-> ppn, flags |-> flags]

Entries == 0 .. (Fan - 1)

EmptyTable == [i \in Entries |-> NoPte]

VPages == Fan * Fan * Fan

vpn2(va) == (va \div (Fan * Fan)) % Fan
vpn1(va) == (va \div Fan) % Fan
vpn0(va) == va % Fan

VInit ==
  /\ mem = [x \in 0 .. (Top - 1) |-> EmptyTable]
  /\ next = 0
  /\ vs = [v \in Spaces |-> [root |-> Null, pt |-> <<>>]]
  /\ stacks = {}
  /\ ever = [v \in Spaces |-> {}]

-----------------------------------------------------------------------------

(***************************************************************************)
(* A walk works on st: [mem, next, root, pt] of one space, its partition   *)
(* p, and err once the call has to return an error.                        *)
(***************************************************************************)

State(v) ==
  [mem |-> mem, next |-> next, root |-> vs[v].root, pt |-> vs[v].pt, p |-> Partition[v],
   err |-> FALSE]

\* Slip: the array of capabilities is not checked for room.
CanGrowAlways(st) == CanAlloc(st.next, Top, st.p, 1)

CanGrow(st) == Len(st.pt) < MaxPt /\ CanAlloc(st.next, Top, st.p, 1)

NewPage(st) == FrameFor(st.next, st.p)

alloc_pt_page(st) ==
  [st EXCEPT !.mem[NewPage(st)] = EmptyTable, !.next = NewPage(st) + 1,
             !.pt = Append(@, NewPage(st))]

\* A new table, with entry i of table leading to it.
Grown(st, table, i) ==
  [alloc_pt_page(st) EXCEPT !.mem[table][i] = Pte(NewPage(st), {})]

\* Slip: room is asked for before the entry is looked at.
EnsureEager(st, table, i) ==
  IF st.err THEN st
  ELSE IF ~CanGrow(st) THEN [st EXCEPT !.err = TRUE]
  ELSE IF st.mem[table][i] # NoPte THEN st
  ELSE Grown(st, table, i)

\* Slip: a table is replaced by a new one.
EnsureNew(st, table, i) ==
  IF st.err THEN st
  ELSE IF ~CanGrow(st) THEN [st EXCEPT !.err = TRUE]
  ELSE Grown(st, table, i)

\* Entry i of table leads to a table of the next level, made if need be.
Ensure(st, table, i) ==
  IF st.err \/ st.mem[table][i] # NoPte THEN st
  ELSE IF ~CanGrow(st) THEN [st EXCEPT !.err = TRUE]
  ELSE Grown(st, table, i)

\* Slip: a page that is mapped already is mapped again.
MapPageOver(st, va, ppn, flags) ==
  LET s1 == Ensure(st, st.root, vpn2(va))
      l1 == s1.mem[st.root][vpn2(va)].ppn
      s2 == Ensure(s1, l1, vpn1(va))
      l0 == s2.mem[l1][vpn1(va)].ppn
  IN  IF s2.err THEN s2 ELSE [s2 EXCEPT !.mem[l0][vpn0(va)] = Pte(ppn, flags)]

\* One turn of the loop.  Once err is set the remaining turns do nothing.
MapPage(st, va, ppn, flags) ==
  LET s1 == Ensure(st, st.root, vpn2(va))
      l1 == s1.mem[st.root][vpn2(va)].ppn
      s2 == Ensure(s1, l1, vpn1(va))
      l0 == s2.mem[l1][vpn1(va)].ppn
  IN  IF s2.err THEN s2
      ELSE IF s2.mem[l0][vpn0(va)] # NoPte THEN [s2 EXCEPT !.err = TRUE]
      ELSE [s2 EXCEPT !.mem[l0][vpn0(va)] = Pte(ppn, flags)]

Flags(p, perms) == IF p # 0 THEN perms \cup {"U"} ELSE perms

\* The colour of the frame has to be even, and 0 or that of the virtual page.
ColourFits(va, color) == color % 2 = 0 /\ color \in {0, va % NumColors}

vspace_map(st, va, n, f) ==
  LET After[k \in 0 .. n] ==
        IF k = 0 THEN st
        ELSE MapPage(After[k - 1], va + k - 1, f.ppn + k - 1, Flags(st.p, f.perms))
  IN  After[n]

UnmapPage(m, root, va) ==
  LET l2 == m[root][vpn2(va)]
      l1 == m[l2.ppn][vpn1(va)]
  IN  IF l2 = NoPte THEN m
      ELSE IF l1 = NoPte THEN m
      ELSE [m EXCEPT ![l1.ppn][vpn0(va)] = NoPte]

vspace_unmap(m, root, va, n) ==
  LET After[k \in 0 .. n] == IF k = 0 THEN m ELSE UnmapPage(After[k - 1], root, va + k - 1)
  IN  After[n]

\* The entry that vspace_resolve finds, or NoPte.
vspace_resolve(m, root, va) ==
  LET l2 == m[root][vpn2(va)]
      l1 == m[l2.ppn][vpn1(va)]
  IN  IF l2 = NoPte THEN NoPte
      ELSE IF l1 = NoPte THEN NoPte
      ELSE m[l1.ppn][vpn0(va)]

-----------------------------------------------------------------------------

\* The translations of a space, by what vspace_resolve says.
Xlate(v) ==
  [va \in 0 .. (VPages - 1) |->
     IF vs[v].root = Null THEN NoPte ELSE vspace_resolve(mem, vs[v].root, va)]

Mapped(v) == {va \in 0 .. (VPages - 1) : Xlate(v)[va] # NoPte}

\* vspace_init_with_alloc.  Without memory root stays NULL.
SpaceInit(v) ==
  /\ vs[v].root = Null
  /\ CanGrow(State(v))
  /\ LET g == alloc_pt_page(State(v))
     IN  /\ mem' = g.mem
         /\ next' = g.next
         /\ vs' = [vs EXCEPT ![v] = [root |-> NewPage(State(v)), pt |-> g.pt]]
  /\ UNCHANGED <<stacks, ever>>

\* vspace_map, by the kernel for a range, or for one page by INV_VSPACE_MAP or
\* INV_FRAME_MAP.  A call that fails half-way keeps what it has done.
Map(v, va, n, f) ==
  /\ vs[v].root # Null
  /\ ColourFits(va, f.color)
  /\ LET g == vspace_map(State(v), va, n, f)
     IN  /\ mem' = g.mem
         /\ next' = g.next
         /\ vs' = [vs EXCEPT ![v].pt = g.pt]
  /\ ever' = [ever EXCEPT ![v] = @ \cup Mapped(v)']
  /\ UNCHANGED stacks

\* vspace_unmap, also by INV_VSPACE_UNMAP.
Unmap(v, va, n) ==
  /\ vs[v].root # Null
  /\ mem' = vspace_unmap(mem, vs[v].root, va, n)
  /\ UNCHANGED <<next, vs, stacks, ever>>

\* The allocation of a stack by process_create.
TakeStack(p) ==
  /\ CanAlloc(next, Top, p, StackPages)
  /\ LET page == FrameFor(next, p)
     IN  /\ stacks' = stacks \cup (page .. (page + StackPages - 1))
         /\ next' = page + StackPages
  /\ UNCHANGED <<mem, vs, ever>>

VNext ==
  \/ \E v \in Spaces : SpaceInit(v)
  \/ \E v \in Spaces, va \in Vaddrs, n \in 1 .. MaxLen, f \in Frames : Map(v, va, n, f)
  \/ \E v \in Spaces, va \in Vaddrs, n \in 1 .. MaxLen : Unmap(v, va, n)
  \/ \E v \in Spaces : TakeStack(Partition[v])

VSpec == VInit /\ [][VNext]_vars

-----------------------------------------------------------------------------

\* The address spaces and the allocator are well-typed, and no space has more
\* tables than its array of capabilities holds.
VTypeOK ==
  /\ mem \in [0 .. (Top - 1) -> [Entries -> PteRec \cup {NoPte}]]
  /\ next \in 0 .. Top
  /\ vs \in [Spaces -> [root : 0 .. Top, pt : Seq(0 .. (Top - 1))]]
  /\ \A v \in Spaces : Len(vs[v].pt) <= MaxPt
  /\ stacks \subseteq 0 .. (Top - 1)
  /\ ever \in [Spaces -> SUBSET (0 .. (VPages - 1))]

\* The pages in pt_caps.
Tables(v) == {vs[v].pt[k] : k \in 1 .. Len(vs[v].pt)}

\* The entries of table x that lead to another table, and the tables of the
\* second and the third level that a walk from root meets.
Links(m, x) == {i \in Entries : m[x][i] # NoPte}

Below1(m, root) == {m[root][i].ppn : i \in Links(m, root)}

Below2(m, root) == UNION {{m[x][i].ppn : i \in Links(m, x)} : x \in Below1(m, root)}

\* A walk from root meets each of its tables in one place: they form a tree.
Tree(m, root) ==
  LET inner == {root} \cup Below1(m, root)
  IN  /\ root \notin Below1(m, root) \cup Below2(m, root)
      /\ Below1(m, root) \cap Below2(m, root) = {}
      /\ \A x, y \in inner : \A i \in Links(m, x), j \in Links(m, y) :
           m[x][i].ppn = m[y][j].ppn => x = y /\ i = j

\* The tables that pt_caps accounts for are those a walk from the root meets,
\* each in one place.  They have the colour of the partition, and no other
\* space and no stack uses their pages.  This survives calls that run out of
\* memory between two levels.
TablesOwned ==
  \A v \in Spaces :
    /\ \A j, k \in 1 .. Len(vs[v].pt) : vs[v].pt[j] = vs[v].pt[k] => j = k
    /\ vs[v].root # Null =>
         /\ Tables(v) = {vs[v].root} \cup Below1(mem, vs[v].root) \cup Below2(mem, vs[v].root)
         /\ Tree(mem, vs[v].root)
    /\ \A x \in Tables(v) :
         /\ alloc_color_is_valid(Partition[v], x % NumColors)
         /\ x \notin stacks
         /\ \A w \in Spaces \ {v} : x \notin Tables(w)

\* A page that was mapped once can be mapped again after it was unmapped, even
\* when memory has run out since: unmapping keeps the tables, and vspace_map
\* asks for memory only when a table is missing.
RemapSucceeds ==
  \A v \in Spaces : \A va \in ever[v] \ Mapped(v) :
    \A f \in Frames : ~vspace_map(State(v), va, 1, f).err

\* The page tables implement a partial function from virtual to physical pages:
\* calls for one space or range never change another, a translation is never
\* replaced, and a call that fails half-way has mapped the beginning of its
\* range.
AS == INSTANCE AddressSpace WITH Pages <- VPages, None <- NoPte,
                                 xlate <- [v \in Spaces |-> Xlate(v)]

RefinesAddressSpace == AS!ASpec
=============================================================================
