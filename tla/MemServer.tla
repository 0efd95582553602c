----------------------------- MODULE MemServer ------------------------------
(***************************************************************************)
(* The memory server (userspace/mem_server/server.c) on top of the         *)
(* kernel's capability space.  It holds a table of Untypeds, whose         *)
(* capabilities are in the first slots of the root CNode, and turns them   *)
(* into Frames with moonlight_retype, which is the invocation              *)
(* INV_UNTYPED_RETYPE: the new capability goes to a slot of the root CNode *)
(* that the server counts up.  Other processes invoke the root CNode as    *)
(* well; that process_destroy may clear it is left to Process.tla.         *)
(*                                                                         *)
(* An iteration of the request loop is one step: nobody else writes the    *)
(* server's table, and a retype that fails changes nothing.                *)
(***************************************************************************)
EXTENDS CSpace, Alloc, Sequences

CONSTANTS
  Untypeds,         \* sequence of [paddr, size, color] the server starts with
  FirstFrameSlot,   \* where the server begins to store Frames (10)
  SlotMod,          \* 256: a slot number is passed in 8 bits
  Parts,            \* partitions that ask for memory
  MaxFrameSlot,     \* bound on the counter, a 32-bit number in the code
  MaxEmptied        \* bound on the slots that other processes empty

\* An address is a number of pages here, and so is a size.
PagesAt(paddr, size) == paddr .. (paddr + size - 1)

\* The server starts with Untypeds that do not overlap.
ASSUME MemServerAssumption ==
  /\ FirstFrameSlot \in Nat \ {0} /\ SlotMod \in Nat \ {0}
  /\ Untypeds \in Seq([paddr : Objects, size : Nat, color : Nat])
  /\ Objects \subseteq Nat /\ MaxFrameSlot \in Nat
  /\ \A i, j \in 1 .. Len(Untypeds) :
       i # j => PagesAt(Untypeds[i].paddr, Untypeds[i].size)
                  \cap PagesAt(Untypeds[j].paddr, Untypeds[j].size) = {}

\* What boot leaves in the root CNode: the capability of Untyped i in slot
\* i - 1, and an endpoint somewhere behind the first slot for Frames.
ASSUME BootLayout ==
  /\ Slots = 0 .. (SlotMod - 1)
  /\ \A i \in 1 .. Len(Untypeds) :
       i - 1 \in Slots /\ InitCaps[i - 1] # NoCap /\ InitCaps[i - 1].obj = Untypeds[i].paddr
  /\ \E b \in Slots : b >= FirstFrameSlot /\ InitCaps[b] # NoCap

VARIABLES
  free,              \* free[i]: untypeds[i].free; untypeds[i].cptr is i - 1
  next_frame_slot,
  live,              \* the requests granted and not freed since (history)
  emptied            \* the slots that other processes have emptied (history)

mvars == <<root, mdb, free, next_frame_slot, live, emptied>>

\* mem_server_init
MInit ==
  /\ CInit
  /\ free = [i \in 1 .. Len(Untypeds) |-> TRUE]
  /\ next_frame_slot = FirstFrameSlot
  /\ live = {}
  /\ emptied = {}

\* Untyped i is free, large enough and of a colour of the partition.
Suitable(i, partition, size) ==
  /\ free[i]
  /\ Untypeds[i].size >= size
  /\ alloc_color_is_valid(partition, Untypeds[i].color)

\* The Untypeds for which the kernel does the retype.
Usable(partition, size) ==
  {i \in 1 .. Len(Untypeds) :
     /\ Suitable(i, partition, size)
     /\ CanRetype(i - 1, "FRAME", size, next_frame_slot % SlotMod)}

\* Slip: the slot that comes next is reported.
ReportNextSlot == next_frame_slot + 1

\* The loop reports next_frame_slot - 1 after mem_alloc has counted up.
ReportedSlot == next_frame_slot

\* Slip: the Untyped stays free.
StaysFree(i) == free

TakenFrom(i) == [free EXCEPT ![i] = FALSE]

\* Request 1: mem_alloc takes the first Untyped for which the kernel does it.
\* Without one an error is reported and nothing changes.
Allocate(partition, size) ==
  LET i == Min(Usable(partition, size))
  IN  /\ next_frame_slot < MaxFrameSlot
      /\ Usable(partition, size) # {}
      /\ Retype(i - 1, "FRAME", size, next_frame_slot % SlotMod)
      /\ free' = TakenFrom(i)
      /\ next_frame_slot' = next_frame_slot + 1
      /\ live' = live \cup {[untyped |-> i, size |-> size, slot |-> ReportedSlot,
                             partition |-> partition]}
      /\ UNCHANGED emptied

\* Request 2, from anybody: the Untyped at the address is free again; the Frame
\* stays.
FreeRequest(i) ==
  /\ free' = [free EXCEPT ![i] = TRUE]
  /\ live' = {g \in live : g.untyped # i}
  /\ UNCHANGED <<root, mdb, next_frame_slot, emptied>>

\* Another process invokes a capability of the root CNode.
Invocation ==
  /\ CNext
  /\ emptied' = emptied \cup {i \in Slots : root.slots[i] # NoCap /\ root'.slots[i] # root.slots[i]}
  /\ Cardinality(emptied') <= MaxEmptied
  /\ UNCHANGED <<free, next_frame_slot, live>>

MNext ==
  \/ \E p \in Parts, size \in Sizes : Allocate(p, size)
  \/ \E i \in 1 .. Len(Untypeds) : FreeRequest(i)
  \/ Invocation

MSpec == MInit /\ [][MNext]_mvars

-----------------------------------------------------------------------------

Granted(g) == PagesAt(Untypeds[g.untyped].paddr, g.size)

\* Grants that have not been freed share no page, whatever other processes put
\* into or take out of the slots in between.
GrantsApart == \A g, h \in live : g # h => Granted(g) \cap Granted(h) = {}

\* Where the kernel puts the Frame of a grant: it sees 8 bits of the slot.
KernelSlot(g) == Destination(g.slot % SlotMod)

\* A grant is what the kernel did: unless other processes empty the slot or that
\* of the Untyped, the slot holds a Frame of the size asked for at the reported
\* address.  Its colour is one of the partition's, and the slot is the one that
\* was reported as long as they empty none.
ReplyNamesFrame ==
  \A g \in live :
    /\ alloc_color_is_valid(g.partition, Untypeds[g.untyped].color)
    /\ emptied = {} => g.slot = KernelSlot(g)
    /\ {KernelSlot(g), g.untyped - 1} \cap emptied = {} =>
         LET cap == root.slots[KernelSlot(g)]
         IN  /\ cap # NoCap
             /\ cap.type = "FRAME"
             /\ cap.obj = Untypeds[g.untyped].paddr
             /\ cap.size = g.size
=============================================================================
