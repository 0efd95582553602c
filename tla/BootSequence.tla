---------------------------- MODULE BootSequence ----------------------------
(***************************************************************************)
(* kernel_boot (kernel/src/boot.c) from the point where the scheduler, the *)
(* root CNode, the allocator, the mapping database and the page tables are *)
(* set up, and the life of the processes after it.  Boot runs alone: it    *)
(* stores the Untyped, creates the first process, tries a retype, stores   *)
(* the endpoint capabilities of the servers and creates the servers.  It   *)
(* goes on when one of the creations fails.                                *)
(***************************************************************************)
EXTENDS Process

CONSTANTS
  TablePages,       \* memory that page tables have taken
  UntypedCap,       \* the capability in slot 0
  FrameSize,        \* size of the retype that boot tries
  EndpointObjs,     \* the endpoints of the servers, in order
  LastBelow,        \* the endpoint capabilities begin behind this slot (10)
  BootList          \* what the processes are created with: the first one and the servers

ASSUME BootAssumption ==
  /\ TablePages \in 0 .. Top
  /\ BootList \in Seq(ArgRec) /\ Len(BootList) > 0
  /\ UntypedCap \in Caps /\ UntypedCap.type = "UNTYPED"
  /\ EndpointObjs \in Seq(Objects) /\ {1, FrameSize} \subseteq Sizes
  /\ LastBelow \in Nat /\ DefaultSlot \in 0 .. LastBelow
  /\ 0 \in Slots /\ \A i \in 1 .. Len(EndpointObjs) : LastBelow + i \in Slots

VARIABLE stage   \* how far boot is

bvars == <<root, mdb, tcb, count, next, sched, hung, direct, stage>>

Parked == Len(BootList) + 3

\* sched_init with the windows, cnode_init, alloc_init, mdb_init, and the frames
\* that vspace_init_with_alloc and vspace_map take.
BInit ==
  /\ root = [slots |-> [i \in Slots |-> NoCap], used |-> 0]
  /\ mdb = mdb_init
  /\ tcb = [t \in Tcbs |-> NoTcb]
  /\ count = 0
  /\ next = TablePages
  /\ sched = Boot
  /\ hung = FALSE
  /\ direct = {}
  /\ stage = 0

StoreUntyped ==
  /\ stage = 0
  /\ root' = [slots |-> [root.slots EXCEPT ![0] = UntypedCap], used |-> 1]
  /\ mdb' = mdb_insert(mdb, NIL, 0)
  /\ UNCHANGED pvars

\* handle_invoke on slot 0, with the destination that is also the default,
\* whatever it returns
TryRetype ==
  /\ stage = 2
  /\ IF CanRetype(0, "FRAME", FrameSize, DefaultSlot)
       THEN Retype(0, "FRAME", FrameSize, DefaultSlot)
       ELSE UNCHANGED <<root, mdb>>
  /\ UNCHANGED pvars

EndpointSlot(i) == LastBelow + i

EndpointCap(obj) ==
  [type |-> "ENDPOINT", rights |-> AllRights, badge |-> 0, obj |-> obj, size |-> 1]

\* Slip: the counter is set, as for the Untyped.
CounterSet == Len(EndpointObjs)

CounterAfter == root.used + Len(EndpointObjs)

\* The slots are written whatever they hold.
StoreEndpoints ==
  /\ stage = 3
  /\ root' = [slots |-> [s \in Slots |->
                 IF \E i \in 1 .. Len(EndpointObjs) : EndpointSlot(i) = s
                   THEN EndpointCap(EndpointObjs[CHOOSE i \in 1 .. Len(EndpointObjs) :
                                                   EndpointSlot(i) = s])
                   ELSE root.slots[s]],
              used |-> CounterAfter]
  /\ UNCHANGED <<mdb, tcb, count, next, sched, hung, direct>>

\* process_create, whatever it returns
Spawn(a) ==
  \/ ProcessCreate(a)
  \/ CreateUnbound(a)
  \/ CreateRefused(a)
  \/ ~MayCreate(a) /\ UNCHANGED vars

\* The first process is created before the retype, the servers after it.
SpawnNext ==
  \/ stage = 1 /\ Spawn(BootList[1])
  \/ stage \in 4 .. (Parked - 1) /\ Spawn(BootList[stage - 2])

BootStep ==
  /\ StoreUntyped \/ TryRetype \/ StoreEndpoints \/ SpawnNext
  /\ stage' = stage + 1

BNext == BootStep \/ (stage = Parked /\ PNext /\ UNCHANGED stage)

\* Boot waits for nothing.
BSpec == BInit /\ [][BNext]_bvars /\ WF_bvars(BootStep)

-----------------------------------------------------------------------------

\* Boot parks, and then ("ALL OK") every process it was to create lives, in
\* order, in its partition and on memory that is not a page table's; the database
\* has a node for each of them, for the Untyped and for the Frame, and the root
\* CNode holds the Untyped, the Frame and one endpoint per server, and counts
\* them.  Boot itself looks at none of the results.
BootComplete ==
  <>( /\ stage = Parked
      /\ Made = 0 .. (Len(BootList) - 1)
      /\ \A t \in Made : tcb[t].partition = BootList[t + 1].partition
                           /\ tcb[t].stack >= TablePages
      /\ Cardinality(Valid(mdb)) = Len(BootList) + 2
      /\ root.slots[0] = UntypedCap
      /\ root.slots[DefaultSlot].type = "FRAME"
      /\ \A i \in 1 .. Len(EndpointObjs) :
           \E s \in Used(root) : root.slots[s] = EndpointCap(EndpointObjs[i])
      /\ root.used = Cardinality(Used(root)) )
=============================================================================
