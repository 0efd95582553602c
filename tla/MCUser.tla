------------------------------- MODULE MCUser -------------------------------
(***************************************************************************)
(* What surrounds the kernel: the network driver with the IOMMU, a         *)
(* notification, the three servers, the trap entry and the console.  They  *)
(* share no state with one another, so a behaviour exercises one of them,  *)
(* chosen at the beginning, and leaves the variables of the others alone.  *)
(***************************************************************************)
EXTENDS NetDriver, Notification, MemServer, SchedServer, VfsServer, Trap, Console

VARIABLE focus   \* the component that steps

UInit ==
  /\ focus \in {"net", "notification", "memory", "admission", "files", "trap", "console"}
  /\ NInit /\ WInit /\ MInit /\ SInit /\ FInit /\ TInit /\ KInit

\* Component c steps; rest are the variables of the other components.
Step(c, next, rest) == focus = c /\ next /\ UNCHANGED <<rest, focus>>

UNext ==
  \/ Step("net", NNext, <<wvars, mvars, tasks, fvars, tvars, kvars>>)
  \/ Step("notification", WNext, <<nvars, mvars, tasks, fvars, tvars, kvars>>)
  \/ Step("memory", MNext, <<nvars, wvars, tasks, fvars, tvars, kvars>>)
  \/ Step("admission", SNext, <<nvars, wvars, mvars, fvars, tvars, kvars>>)
  \/ Step("files", FNext, <<nvars, wvars, mvars, tasks, tvars, kvars>>)
  \/ Step("trap", TNext, <<nvars, wvars, mvars, tasks, fvars, kvars>>)
  \/ Step("console", KNext, <<nvars, wvars, mvars, tasks, fvars, tvars>>)

uvars == <<nvars, wvars, mvars, tasks, fvars, tvars, kvars, focus>>

\* A driver waits for its notification in a loop.
USpec ==
  /\ UInit /\ [][UNext]_uvars
  /\ WF_uvars(Step("notification", Wait(Driver),
                   <<nvars, mvars, tasks, fvars, tvars, kvars>>))

-----------------------------------------------------------------------------

MCIoCap ==
  [d \in {"net", "other"} |->
     IF d = "net" THEN [base |-> 1, size |-> 2, rights |-> {"LOAD", "STORE"}]
                  ELSE [base |-> 2, size |-> 2, rights |-> {"LOAD"}]]

MCPools == {<<1, 2>>, <<2, 1>>, <<2, 2>>}

\* Partition 1 may use the Untyped of colour 3; partitions 0 and 8, whose
\* colours coincide, compete for the other.
MCUntypeds ==
  << [paddr |-> 20, size |-> 2, color |-> 0], [paddr |-> 30, size |-> 1, color |-> 3] >>

Cap(type, obj, size) ==
  [type |-> type, rights |-> AllRights, badge |-> 0, obj |-> obj, size |-> size]

\* Slots 0 and 1 hold the Untypeds; like slot 11 after boot, slot 5 holds an
\* endpoint, in the way of the server's Frames.
MCSlots == 0 .. 5

MCInitCaps ==
  [i \in MCSlots |->
     CASE i < 2 -> Cap("UNTYPED", MCUntypeds[i + 1].paddr, MCUntypeds[i + 1].size)
       [] i = 5 -> Cap("ENDPOINT", 50, 1)
       [] OTHER -> NoCap]

MCBooted ==
  sched_partition_create(sched_partition_create(sched_init, 0, 0, 50), 1, 50, 50)

\* The last three cannot be bound: no budget, a budget above the window, and a
\* partition that the kernel does not have.
MCTaskCfgs ==
  { [partition |-> 0, budget |-> 1, period |-> 3], [partition |-> 0, budget |-> 2, period |-> 3],
    [partition |-> 1, budget |-> 1, period |-> 2], [partition |-> 1, budget |-> 50, period |-> 51],
    [partition |-> 0, budget |-> 0, period |-> 3], [partition |-> 1, budget |-> 51, period |-> 99],
    [partition |-> 2, budget |-> 1, period |-> 3] }
=============================================================================
