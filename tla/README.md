# moonlightOS in TLA+

moonlightOS is a small capability kernel in C (`kernel/`), with servers and
drivers that run on top of it (`userspace/`). The modules here model the parts
of the system whose state outlives a call, check them with TLC on small
instances, and prove their safety properties with TLAPS for every
instance.

The kernel runs to completion: a system call is never interrupted by another, so
a call is one step of a model. What interleaves are the calls of different
threads, the invocations by which one thread changes another, timer ticks, and
the creation and destruction of processes. A call that returns an error before
it has changed anything is a stuttering step and has no action of its own.

## The system

| Part | State | Operations | Depends on |
| --- | --- | --- | --- |
| Endpoints (`endpoint.c`) | ring of 16 entries, rendezvous slot, registered receiver | send, receive, clean-up for a dead thread | threads |
| Threads (`tcb.c`) | state, CSpace, partition | configure, resume, suspend, block, wake | CNodes |
| System calls (`syscall.c`) | none of its own | CALL, SEND, REPLY_RECV, YIELD, INVOKE | all of the kernel |
| Capabilities, CNodes (`cap.c`, `cnode.c`) | slots, count of used slots | derive, retype, copy, mint, move, delete | mapping database |
| Mapping database (`revoke.c`) | linked table of derivations | insert, revoke, delete, look up | |
| Scheduler (`sched.c`) | windows in a major frame, contexts with budgets | create, bind, tick, pick, admission | threads |
| Allocator (`alloc.c`) | a pointer through coloured memory | allocate | |
| Processes (`process.c`) | none of its own | create, destroy | everything above |
| Address spaces (`vspace.c`) | page tables in allocator frames | init, map, unmap, resolve | allocator |
| IOMMU (`iommu.c`) | table of windows | map, unmap, check | drivers |
| Interrupts (`irq.c`) | handler of each line, pending mask | bind, unbind, handle | drivers |
| Notifications (`notification.c`) | badge word, registered waiter | signal, wait, poll, bind | drivers, scheduling by the caller |
| Trap entry (`trap.S`) | `sp`, `mscratch`, frames on two stacks | entry, return | system calls |
| Boot (`boot.c`) | none of its own | the sequence up to parking | processes, capabilities |
| Console (`vga.c`) | cursor, framebuffer | put a character, clear | |
| Servers and drivers (`userspace/`) | small tables | message loops | system calls, IOMMU |

Where it is hard to be right: an endpoint keeps a registration that outlives the
thread's wait and life; the ring is compacted while it wraps; the mapping
database reuses nodes and finds them by number; the ring, the table, the tables
of an address space and memory run out in the middle of a call;
ticks come late; a refused or destroyed process has to give everything back. The
hazards in `PROJECT.json` name the lines.

## Modules

| Module | Models | State and actions |
| --- | --- | --- |
| `Tcb` | `tcb.c` | thread states and the functions that change them |
| `Endpoint` | `endpoint.c`, `endpoint_cleanup_for_tcb` | an endpoint as a record with the fields of `endpoint_t`; each function maps a record to a record |
| `Mailbox` | abstract | a bounded FIFO and one hand-over slot per endpoint |
| `Ipc` | IPC system calls, TCB invocations, process life as IPC sees it | thread states and endpoints; one action per call |
| `Mdb`, `MdbTree` | `revoke.c` | the table with parent, child and sibling links, the count and the hint for the next free node |
| `Derivation` | abstract | a forest: each capability and its parent |
| `Sched`, `SchedTime` | `sched.c` | `sched_state_t`, and time in which ticks, picks and blocking threads interleave |
| `CNode`, `CSpace` | `cap.c`, `cnode.c`, capability invocations | the root CNode and the mapping database |
| `Alloc` | `alloc.c` | where the next frame of a colour lies |
| `Process` | `process.c` with the five parts it touches | TCB table, scheduler, allocator, mapping database, root CNode |
| `VSpace` | `vspace.c`, mapping invocations | page tables in memory, the allocator, the stacks taken from it |
| `BootSequence` | `boot.c` from the first capability to parking | `Process` and how far boot is; one action per block of `kernel_boot`, then the actions of `Process` |
| `Trap` | `trap.S`, the trap frame of `syscall_handler` | registers, `sp`, `mscratch`, memory in frames; entry, return, and what the program and the handler do with their stacks |
| `Notification` | `notification.c` | the record, and the threads that are asleep; one action per function |
| `MemServer` | `mem_server/server.c` over `CSpace` | the table of Untypeds, the slot counter, the grants that are not freed; one action per request that changes something, and every invocation of others on the root CNode |
| `SchedServer` | `sched_server/server.c` beside `Sched` | the admitted tasks |
| `VfsServer` | `vfs_server/server.c` | files and descriptors |
| `Console` | the console of `vga.c` | cursor and character cells |
| `Iommu`, `NetDriver` | `iommu.c`, `virtio_net.c` | the windows, what the driver remembers, and any number of other devices |
| `AddressSpace` | abstract | a partial function from virtual to physical pages |
| `CommonLemmas` | | facts about numbers, finite sets, sums and sequences |
| `IpcProofs` | | proofs about `Endpoint` and `Ipc` |
| `MdbProofs` | | what the functions of `Mdb` do to a table whose chains of siblings are intact |
| `MdbTreeProofs` | | proofs about `MdbTree` |
| `VSpaceProofs` | | proofs about `VSpace` |
| `ProcessProofs` | | proofs about `CSpace`, `MemServer`, `Process` and `BootSequence` |
| `UserProofs` | | proofs about `SchedTime`, `SchedServer`, `NetDriver` and `VfsServer` |
| `TrapProofs` | | proofs about `Trap`, `Notification` and `Console` |
| `MC*` | | constants of the instances |

The data is abstracted to what the properties tell apart: a message is its
sender and a serial number, an address is a page number, a capability is a
record of type, rights, badge, object and size, register contents are left out.
Definitions whose comment begins with "Slip" are variants of the definition that
follows, each with a plausible mistake; they are not used by the models and show
that a property notices the mistake.

Fine points of the translation:

* `Endpoint`: `pending_msg` is written by a rendezvous *and* by every queued
  send, and `pending` is cleared by the receive that empties the ring. The
  record keeps both fields because the loss of a message comes from there.
* `Ipc`: a thread must be runnable and find the capability in its CSpace; for an
  invocation with a null pointer `syscall_handler` looks in the root CNode as well
  (`MayInvoke`). The CNode of a destroyed thread is cleared and may be the CNode of
  others.
  `accepted`, `delivered` and `composed` are histories.
* `Mdb`: a node that was revoked keeps its links until it is used again. A walk
  along links is the least set that is closed under them (`Closure`). A
  revocation that follows a cycle is the operator `Endless`.
* `Mailbox`: a clean-up takes the entries of the dead thread out of the queue and
  keeps the order of the others (`Withdrawn`).
* `Process`: `process_create` has three outcomes once memory is taken (created,
  not bound, refused); in the last two the stack stays allocated. `hung` means
  that a call never returned; no kernel step follows. `tcbs->count` has the
  width `CountMod`. `INV_TCB_CONFIGURE` writes any partition into the TCB
  (`ConfigParts`) and leaves the stack where it is. `INV_SCHED_BIND` needs no right,
  and a thread without a CNode can make it too: the fallback of `syscall.c:42-45`
  looks up the low byte of the first argument, which is the number of the operation,
  in the root CNode, and slot 11 holds the first server's endpoint after boot.
  So direct binds are part of the boot instance. `direct` records the contexts that
  were bound this way last.
* `VSpace`: a virtual page outside the three levels is cut to the index bits, as
  the code masks them. A call that fails half-way keeps what it has done.
* `BootSequence`: boot ignores what `process_create` and its retype return, and so
  does the model; with the shares and the memory of `boot.c` no creation fails, which
  `BootComplete` shows. The threads boot resumes are in `Ipc`.
* `Trap`: `csrrw sp, mscratch, sp` at entry and return makes nested traps use the
  trap stack and the program's stack in turn. Registers that the code treats
  alike are one; memory is counted in frames, and what is popped is forgotten.
  Entry and return do not trap themselves.
* `Notification`: nobody in the repository calls `notification_signal` and
  `notification_wait`; the comments leave blocking and waking to the caller. The
  operator `Woken` and the sleeping in `Wait` stand for this caller and are
  external. One thread waits, as `boot.c:236` describes the driver.
* `MemServer`: `moonlight_retype` is the kernel's `Retype` on the root CNode, with
  the slot number cut to 8 bits and slot 0 read as the default. The loop over
  Untypeds goes on when the kernel refuses, so the first *usable* one is taken.
  The Untypeds are in slots 0, 1, ... as `mem_server_init` numbers them. In the
  layout of `boot.c` slot 11 is taken and the server can grant one Frame; the
  instance leaves room for two in front of the occupied slot, so that a
  second grant is possible at all. Other processes may make every invocation that
  `CSpace` has: they fill slots in the server's way, and empty them again
  (`emptied`). A request to free is served whoever sends it; the Frame stays.
* `SchedServer`: the server never binds a context. `KernelWith` is the kernel after
  it was asked to bind one for every admitted task; it refuses tasks without budget,
  with more than the window, or of a partition that it does not have (`Bindable`),
  which the server does not look at. Periods are not 0.
* `Console`: a cell is a character position. The pixels that `vga_init` clears
  are less than one row of cells and are left out.

## Runs

| Run | Question | Result |
| --- | --- | --- |
| `ipc` | Caller, sender, server and a manager that resumes, suspends, configures and destroys them: do endpoints stay consistent, is no wake-up lost, does nothing refer to dead threads, are messages delivered in order, does the endpoint implement the mailbox? | holds |
| `ipc_ring` | Does a ring of three that wraps and is compacted implement the mailbox, and is every queued message of a living sender delivered? | holds |
| `mdb` | Does the linked table implement the derivation forest, are the lists right, is a free node found whenever there is one? | holds |
| `sched` | Are windows disjoint, replenishments bounded by time, and windows respected by the pick? | holds |
| `proc_boot` | Does boot leave every process, node and capability it means to, in its place and counted? While processes come and go after it and `INV_SCHED_BIND` binds contexts behind their back: has every process a context of its own, do the admitted contexts pass the admission test, are stacks disjoint? | holds |
| `proc_caps` | With a TCB capability that outlives its process, direct binds, and a CNode that is wiped: does the counter match the slots, does no operation invent authority, and do stacks stay disjoint when a process is given another partition? | holds |
| `user` | The parts around the kernel core; see below | holds |
| `vspace` | Do the tables of each space form a tree of its own, can an unmapped page always be mapped again, do the tables implement a partial function? | holds |
| `ipc_lost` | Is every accepted message held or delivered? | violated |
| `ipc_reply` | Does a `SYS_CALL` return? | violated |
| `proc_hang` | Does `process_destroy` return? | violated |
| `proc_fits` | Do the admitted shares fit into one processor? | violated |

### The run `user`

The seven parts share no variable, so `MCUser` chooses one of them
at the start (`focus`) and steps only that one; a behaviour of the run is a
behaviour of one part.

| Part | Question | Properties |
| --- | --- | --- |
| network driver, IOMMU | Is each device kept within its capability over reboots, is the count right, is the other device left alone? | `WindowsCounted`, `DmaConfined`, `OthersUntouched` |
| notification | Can a thread sleep through a signal; is every signalled bit taken in the end? | `NoMissedSignal`, `SignalIsTaken` |
| memory server | Do grants that are not freed share no page, and does a grant name the Frame that the kernel made, while others fill and empty slots? | `GrantsApart`, `ReplyNamesFrame` |
| scheduling server | Does the server promise no more than the kernel's test allows, and do the two agree on tasks that the kernel can bind? | `AgreesWithKernel` |
| file server | Does a descriptor keep its file when files of the same name appear? | `DescriptorKeepsFile` |
| trap entry | Are frames and stacks intact however traps nest, and what does a return give back to what was interrupted? | `LiveStacksIntact`, `ReturnGivesBack` |
| console | Is the cursor on the screen and the current line visible after wrapping and scrolling? | `LineShown` |

### What the violated runs show

* `ipc_lost`: a receiver is woken for message 1, which waits in `pending_msg`.
  Before it calls again a second message is queued. Queued messages overwrite
  `pending_msg`, and receiving the queued one clears `pending`; message 1 is gone.
* `ipc_reply`: `SYS_CALL` blocks the caller in `BLOCKED_REPLY`, and
  `SYS_REPLY_RECV` receives and does not reply. Nothing but a resume by a holder
  of the TCB capability makes the caller run again.
* `proc_hang`: processes 0 and 1 are created, and 0 is destroyed. Its node is
  looked up under the number 0, which finds the Untyped that boot recorded, so
  node 0 is deleted. The next retype is inserted at index 0 with parent 0
  and becomes its own child; destroying process 1 finds such a node and follows
  its children for ever.
* `proc_fits`: each share is cut to a whole percent before the sum is compared
  with 99. Shares of 5/7 and 11/38 add up to more than 1 and are admitted.

### Other differences between code and documents

Met while modelling; the models do what the code does, and no run is spent on
them.

* `endpoint.c:13` speaks of a "direct copy" at a rendezvous; the woken receiver
  has the message only after it calls again.
* `process.c:133` cleans up endpoints; a message of the dead thread in
  `pending_msg` stays.
* `docs/USAGE.md:65` says "EDF within partition"; `sched.c:95-117` picks by
  priority and never compares deadlines.
* `sched.h:15` calls a window the budget of a partition; where no window is,
  `sched.c:64` leaves the last partition running.
* `sched.c:77` replenishes "on period"; the first deadline (`sched.c:57`) counts
  from time 0, so a late binding is replenished at every tick until it has
  caught up.
* `cap.c:26` says the size checks prevent overlap; every retype starts at the
  beginning of the Untyped (`syscall.c:133`).
* `docs/CAPABILITIES.md:63` says `revoke()` clears the tag; it clears the copy in
  the database (`revoke.c:54`), not the one in a slot.
* `virtio_net.c:137` says windows are revoked at a reboot; only the one at the start of
  the pool is withdrawn, those of buffers stay.
* `alloc.h:6` gives each partition two colours; `alloc.c:29` looks at the first
  page of an allocation.
* `irq.c:33` says the driver is resumed through a path in `syscall.c`; there is
  none, and nothing clears `pending_mask`, so a line that is bound again starts
  with the pending bit of its former handler.
* `notification.c:23` keeps one waiter: a second waiting thread replaces the
  first, which is then never woken. `NoMissedSignal` is about one.
* `trap.S:88` loads the saved `sp` into `t0` after `t0` was restored, so `t0` does
  not survive a trap, and `ReturnGivesBack` says so. `syscall_handler` runs for every
  cause, so `a0` may hold an error code after a fault as well; its early returns do
  not write `a0` of the frame, so a refused call returns its first argument.
* The mem_server reports `next_frame_slot - 1`, but passes the slot in 8 bits: past
  slot 255 the two would differ. A freed Untyped is granted again while the
  former Frame capability still exists.
* The scheduling server admits tasks that `sched_context_bind` refuses.
* `docs/PRODUCTION.md:38` lists `INV_SCHED_BIND` for the scheduling server; it
  only keeps its table.
* The file server answers a read with the length asked for and never calls
  `vfs_read`, and answers 0 to a creation that failed.
* `vga.c:254` says "reset to top"; the cursor goes to the last row.

`INV_SCHED_BIND` has no admission test and may take the context of a process for
another thread. `OwnContext` and `AlwaysSchedulable` say what remains: a process keeps
its context, which names it unless a direct bind was the last to write it, and what
`process_create` admitted passes the test if the direct binds are left out.
A TCB that is configured after its process died takes context 0 along when it
is destroyed. This needs a capability that designates a TCB of the table. Boot
stores none, and a TCB that is retyped lies in the memory of the Untyped, so it does
not happen in `proc_boot`; `proc_caps` has such a capability, as
`test_invoke_ops.c` installs it, and leaves `OwnContext` out.

### Bounds

Each bound is a constant of its configuration. Rings of 2 and 3 slots are full,
wrap, and hold entries of two senders in every order; two or three messages per
sender refill a ring after it was emptied. Four database nodes give all trees up
to depth four, including reuse of every node; the larger models take two to six,
so that the table fills up. Three partitions can be created in any order; a
major frame of 5 with ticks of 1 and 3 units up to time 8 has late ticks, gaps and
a wrap of the frame. Four CNode slots hold an Untyped, a CNode and a TCB capability and a
free place. After boot four of five TCBs and all four contexts are in use, so that
a creation fails for each of its reasons once processes are destroyed and
created; 38 pages let memory run out. Page tables with two entries give a walk of three levels over eight
pages; 18 pages of memory and four tables per space run out between two levels. Three
IOMMU windows are fewer than the driver and the other device ask for. Three
nested traps bring the frame of the third back to the stack of the first. Two
badge bits coalesce and are taken apart. Two Untypeds of different colours and
three partitions, two of which share colours, compete for two free slots; other
processes empty one slot (`MaxEmptied`), and the slot counter runs up to 7
(`MaxFrameSlot`), past the six slots, where the kernel cuts it. Five tasks, with
shares that round differently and three kinds that cannot be bound, fill a
partition before the table. `INV_TCB_CONFIGURE` writes a partition that the
scheduler does not have (`ConfigParts`).
Three files under two names, two descriptors, and a console of two rows of three
cells reach their limits.
Runs that switch the deadlock check off end legitimately: all messages are sent,
memory is used up, or nobody is left who holds a CNode capability.

### Fairness

`FairSpec` is weakly fair for `SysReplyRecv` of each thread: a server is a loop
around `SYS_REPLY_RECV`, and the scheduler comes back to a runnable thread. No
fairness is assumed for senders, for the manager or for destruction. The
violation of `CallReturns` is under the same fairness, so it is not a server
that merely stops.

`BSpec` is weakly fair for the steps of boot, which waits for nothing.
`USpec` is weakly fair for the driver's `Wait`: a driver is a loop around
`notification_wait`, and it is enabled unless the driver sleeps. Signals and
polls are not fair.

## Proofs

Every safety property of a passing run is proved for all values of the constants.

The assumptions on constants are named and stand in the module that declares the
constants; TLC evaluates them in the runs. They give types and what the code's own
constants have: a ring, a table or a frame is not empty, a model value that stands
for "nothing" is not a something, a cptr can hold a slot number and a thread id
(both are recorded in nodes of the mapping database), and the two below.

* `BootLayout` (`MemServer`): the Untypeds lie in slots 0, 1, ... and some slot behind
  the first one for Frames is occupied, as `boot.c` leaves the root CNode.
* `MemServerAssumption`: the Untypeds of the server do not overlap.
* `SchedServerAssumption`: the server has no more tasks than the kernel has
  contexts (in the code both numbers are 64), the kernel's active partitions lie
  below `num_partitions`, and no context is bound yet.

Two hypotheses restrict a theorem to the system that `boot.c` sets up:
`OneReceiver` (each endpoint has one receiving thread) for `NoLostWakeup`, and
`NamesNoTcb` for `OwnContext`: no capability in the root CNode at the start is for a
TCB of the table, or for an Untyped from which one could be carved. From
power-on this comes down to the Untyped of boot not being a TCB of the table. Without
them the properties are false: a second receiver overwrites the registration of
the first, and see the end of the section on the runs. `AlwaysSchedulable` is
proved without a hypothesis.

### Inter-process communication (`IpcProofs`)

`TypeCorrect`, `RingIsConsistent`, `NothingDangles`, `WakeupIsNotLost`,
`DeliveryInOrder`, `ImplementsMailbox`.

The inductive invariant `IpcInv` joins types, the consistency of each endpoint
(`EpInv`), and that endpoints refer only to threads that are in use, with what
makes this inductive: a thread that has a CSpace is in use, so a dead thread cannot
send or receive, and a registered receiver is a thread that receives there.
`RingConsistent` alone is not inductive, because nothing would say that the
entries moved by a compaction are valid. Each function of `endpoint.c` keeps
`EpInv`, with modular arithmetic for the ring; the compaction is described by
the rank of each surviving entry. Order of delivery adds `OrderInv`: what was
delivered comes, in the history of what was accepted, before what the ring or the
slot still hands out. For the refinement a ring is read as the sequence of
its live entries (`Fifo`), and the ranks are the places that `Withdrawn` asks for.

### Scheduling (`UserProofs`)

`TimeTypes`, `WindowsStayDisjoint`, `FillsStayBounded`, `PicksRespectWindows`,
`ServerAgrees`.

`TimeInv` says that entries above `num_partitions` are empty, which is why the
overlap check may stop there; that of two windows one ends before the other
begins; that after a tick the owner of the instant is the current partition; and
that the deadline of a context counts its replenishments. The bound on
replenishments follows from the last, not from any single tick. The kernel sums
some of the server's shares, those of tasks that it can bind, in a different order,
so `ServerAgrees` rests on lemmas about sums over finite sets; its invariant speaks of every partition number,
because the server also admits tasks for partitions the kernel does not have.

### Mapping database (`MdbProofs`, `MdbTreeProofs`)

`ListsStayMatched`, `RoomStaysFound`, `DescendantsAgree`, `ImplementsDerivation`.

`MdbInv`: the links of a recorded node stay in its family, a node with a parent is
linked to from exactly one place, and going back along links ends (every
set of recorded nodes has one that no other of the set links to). The last is needed
because a cycle satisfies the other two; stated over sets it needs no
induction, and neither does anything that follows from it: `Closure` is the least
closed set, so a fact about a walk is proved by showing that the set where it holds
is closed. From this the recursion of `mdb_revoke` visits exactly the descendants,
which is the refinement. `RoomInv` says that nothing below `free_head` is free.

The kernel's own callers do not keep `MdbInv`: they look nodes up by numbers that are
not unique and name node 0 as a parent without asking whether it is recorded (this
is the finding `proc_hang`). What survives is `TableInv` (`MdbProofs`), which allows
a parent that is not recorded and a node that is its own parent: links lead to
recorded nodes with the right parent, no node is linked to from two places, going
back along *siblings* ends, and `count` is the number of recorded nodes. It is
kept by every insertion, by every revocation that ends, and by every deletion.
`MdbInv` implies it, so the lemmas on what the functions do serve both.

### Address spaces (`VSpaceProofs`)

`SpacesTyped`, `TablesStayOwned`, `RemapAlwaysSucceeds`, `ImplementsAddressSpace`.

`VInv`: the pages in `pt_caps` are those that a walk from the root meets, each in one
place (`Tree`), they lie below the allocator's pointer and belong to no other
space and to no stack, and whatever was mapped once has its tables on all levels.
`TablesOwned` alone says too little: a new table must be a page that no walk has met
yet, hence the pointer. The loops of `vspace_map` and `vspace_unmap` are recursive
functions; that these have a solution is proved (`MapTurns`, `UnmapTurns`), and the
loop is followed turn by turn by `LoopInv`: some beginning of the range is mapped,
everything else is as it was, and the loop goes on only if all of it is mapped so
far. The beginning is what the abstract address space allows a failed call to
have done. The indices of a virtual page are its digits in base `PT_ENTRIES`,
which is the nonlinear arithmetic of `DigitsOf` and `DigitsCut`.

### Capabilities, processes, boot (`ProcessProofs`)

`UsedStaysRight`, `AuthorityNotInvented`, `MemoryGrantedOnce`, `RepliesNameFrames`,
`StacksStayDisjoint`, `ContextsOwned`, `StaysSchedulable`, `ProcessTyped`, and the
versions from power-on, `BootUsedRight`, `BootStacksDisjoint`, `BootContextsOwned`,
`BootStaysSchedulable`, `BootTyped`.

`RootOK` (slots typed, counter equal to the number of used slots) is inductive by
itself. `MemInv` keeps the server's books and the slots together: no two grants that
are not freed have the same Untyped, and while nobody empties a slot an occupied
one stays ahead of the slot counter, which then never reaches the width at
which the kernel would cut it, so reply and slot agree. `StackInv` bounds every stack
by the allocator's pointer, dead ones included, and keeps the colour of a stack for a
process that was not configured since. `ShareInv` follows the sum of the shares, with
the direct binds left out, through creation, destruction and binding: a bind can
only take a context out of the sum. `ContextInv` gives every process a context that
no other has, counts the processes, and says that no thread is given a CNode;
a destroyed process can then only give back its own context.
`PTypeOK` follows from `RootOK`, `StackInv` and `TableInv` of the mapping database;
that the counter of nodes does not run below 0 is the part that takes an argument.

### Parts around the core (`UserProofs`, `TrapProofs`)

`WindowsStayCounted`, `DmaStaysConfined`, `OthersStayUntouched`,
`SignalsNotMissed`, `DescriptorsKeepFiles`, `LineStaysShown`,
`LiveStacksStayIntact`, `ReturnsGiveBack`.

`NetInv` adds to the properties that a bound driver has a pool within its
capability, `VfsInv` that files fill the table from the front, so the file a name
finds never changes. `TrapInv` describes the chain of nested traps: what
each trap found in `sp` and `mscratch` is what the one around it has in use, frames
alternate between the two stacks, and each lies below all older ones on its stack.
`LiveStacksIntact` alone does not say where the next frame will go.

### Only model-checked

* `QueuedIsDelivered`, `SignalIsTaken`, `BootComplete` and the violated
  `CallReturns`: liveness under fairness is beyond the prover.

## Not modelled

* CHERI instructions and cache flushing, PMP and stack protection, measured boot, the
  kernel's memory functions and the tools compute a value or drive hardware and
  keep no state that a protocol depends on.
* The ELF loader checks a header and keeps nothing.
* Interrupts (`irq.c`): a handler per line and a pending mask. The functions are called
  from a test only; nothing in the kernel binds a line or reads the mask.
* The block driver checks arguments and writes registers; it never programs
  the IOMMU and keeps no state between calls.
* The user library is declared and not implemented in the repository.
* Of boot: hardware checks, the paging set-up (its functions are in `VSpace`) and
  messages. Of the console: the PCI scan and the functions that draw at a given
  place. Of the network driver: the interrupt handler, which only reads.
* `trap_entry_purecap` is compiled for CHERI hardware only.
* `wcet_check` compares a clock with a constant, and a call refused by the rights,
  type or budget checks of `syscall_handler` changes nothing.
