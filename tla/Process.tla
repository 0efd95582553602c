------------------------------ MODULE Process -------------------------------
(***************************************************************************)
(* Process life (kernel/src/process.c) over the state it shares with the   *)
(* rest of the kernel: the TCB table, the frame allocator, the scheduler,  *)
(* the mapping database and the root CNode, which capability invocations   *)
(* change in between.  What the calls do to the endpoints is in Ipc.       *)
(* All processes are created with a nonzero pc and sp.                     *)
(***************************************************************************)
EXTENDS CSpace, Sched, Alloc, Sequences

CONSTANTS
  MaxTcbs,      \* MAX_TCBS (128)
  CountMod,     \* 2^32, the word of tcbs->count
  Windows,      \* windows <<id, offset, budget>> that boot creates, in order
  Top,          \* pages of memory that the allocator has
  Bindings,     \* <<context, thread, partition, budget, period, priority>> of INV_SCHED_BIND
  ConfigParts,  \* partitions that INV_TCB_CONFIGURE writes, a byte
  CreateArgs    \* [partition, budget, period, priority, pages] that are asked for

\* What process_create is called with.
ArgRec == [partition : Nat, budget : Nat, period : Nat, priority : Nat, pages : Nat]

ASSUME ProcessAssumption ==
  /\ MaxTcbs \in Nat \ {0} /\ 0 .. (MaxTcbs - 1) \subseteq Cptrs \cup {0}
  /\ CountMod \in Nat /\ CountMod > MaxTcbs
  /\ Top \in Nat
  /\ CreateArgs \subseteq ArgRec /\ ConfigParts \subseteq Nat
  /\ Bindings \subseteq Nat \X Nat \X Nat \X Nat \X Nat \X Nat
  /\ Windows \in Seq(Partitions \X Nat \X Nat)

Tcbs == 0 .. (MaxTcbs - 1)

VARIABLES
  tcb,     \* g_tcbs.threads
  count,   \* g_tcbs.count
  next,    \* g_alloc.next
  sched,   \* g_sched
  hung,    \* a call into the kernel never returned
  direct   \* contexts that INV_SCHED_BIND was the last to bind (history)

pvars == <<tcb, count, next, sched, hung, direct>>

vars == <<root, mdb, tcb, count, next, sched, hung, direct>>

\* A TCB after memset.  made: pc and sp are set; rooted: cspace is the root
\* CNode, otherwise NULL.
NoTcb == [made |-> FALSE, rooted |-> FALSE, sched_context |-> 0, partition |-> 0,
          stack |-> 0, pages |-> 0]

\* The scheduler when boot has created the windows, one after the other.
Boot ==
  LET After[n \in 0 .. Len(Windows)] ==
        IF n = 0 THEN sched_init
        ELSE sched_partition_create(After[n - 1], Windows[n][1], Windows[n][2], Windows[n][3])
  IN  After[Len(Windows)]

PInit ==
  /\ CInit
  /\ tcb = [t \in Tcbs |-> NoTcb]
  /\ count = 0
  /\ next = 0
  /\ sched = Boot
  /\ hung = FALSE
  /\ direct = {}

-----------------------------------------------------------------------------

FreeTcbs == {t \in Tcbs : ~tcb[t].made /\ ~tcb[t].rooted}

FreeContexts == {c \in Contexts : ~sched.contexts[c].bound}

\* The context that process_create would take, bound to thread t.
Bound(c, t, a) ==
  sched_context_bind(sched, c, t, a.partition, a.budget, a.period, a.priority)

CanBindFor(a) ==
  /\ FreeContexts # {}
  /\ CanBind(sched, Min(FreeContexts), a.partition, a.budget, a.period)

\* Slip: the admission test comes before the new context is bound.
AdmittedBefore(c, t, a) == sched_is_schedulable(sched)

Admitted(c, t, a) == sched_is_schedulable(Bound(c, t, a))

\* The arguments are in order, there is a TCB, and memory for the stack.
\* Otherwise process_create returns before it changes anything.
MayCreate(a) ==
  /\ a.partition \in Partitions
  /\ a.budget <= a.period /\ a.budget # 0
  /\ FreeTcbs # {}
  /\ CanAlloc(next, Top, a.partition, a.pages)

\* The stack is taken.
TakeFrames(a) ==
  /\ ~hung
  /\ MayCreate(a)
  /\ next' = FrameFor(next, a.partition) + a.pages

\* process_create returns ERR_OK.
ProcessCreate(a) ==
  LET t  == Min(FreeTcbs)
      c  == Min(FreeContexts)
  IN  /\ TakeFrames(a)
      /\ CanBindFor(a)
      /\ Admitted(c, t, a)
      /\ sched' = Bound(c, t, a)
      /\ mdb' = IF CanInsert(mdb) THEN mdb_insert(mdb, NIL, t) ELSE mdb
      /\ tcb' = [tcb EXCEPT ![t] =
                   [made |-> TRUE, rooted |-> FALSE, sched_context |-> c,
                    partition |-> a.partition, stack |-> FrameFor(next, a.partition),
                    pages |-> a.pages]]
      /\ count' = (count + 1) % CountMod
      /\ UNCHANGED <<root, hung, direct>>

\* There is no context, or the partition cannot hold it.  The TCB is scrubbed;
\* the stack stays allocated.
CreateUnbound(a) ==
  /\ TakeFrames(a)
  /\ ~CanBindFor(a)
  /\ UNCHANGED <<root, mdb, tcb, count, sched, hung, direct>>

\* Slip: the context of the refused process stays bound.
RefusedStaysBound(c, s) == s

\* The context of a refused process, released again.
Released(c, s) == [s EXCEPT !.contexts[c].bound = FALSE]

\* The admission test fails.
CreateRefused(a) ==
  LET t == Min(FreeTcbs)
      c == Min(FreeContexts)
  IN  /\ TakeFrames(a)
      /\ CanBindFor(a)
      /\ ~Admitted(c, t, a)
      /\ sched' = Released(c, Bound(c, t, a))
      /\ UNCHANGED <<root, mdb, tcb, count, hung, direct>>

-----------------------------------------------------------------------------

\* Slip: the counter is not reset.
WipeKeepsUsed(cn) == [cn EXCEPT !.slots = [i \in Slots |-> NoCap]]

\* The slots of the CNode are cleared.
Wiped(cn) == [slots |-> [i \in Slots |-> NoCap], used |-> 0]

\* mdb_revoke and mdb_delete of the node found under the thread's id.
Withdrawn(m, idx) ==
  LET r == mdb_revoke(m, idx)
  IN  IF CanDelete(r, idx) THEN mdb_delete(r, idx) ELSE r

ProcessDestroy(t) ==
  LET idx == mdb_lookup(mdb, t)
  IN  /\ ~hung
      /\ t \notin FreeTcbs
      /\ root' = IF tcb[t].rooted THEN Wiped(root) ELSE root
      /\ IF idx # NIL /\ Endless(mdb, idx)
           THEN /\ hung' = TRUE
                /\ tcb' = [tcb EXCEPT ![t].rooted = FALSE]
                /\ UNCHANGED <<mdb, sched, count, direct>>
           ELSE /\ mdb' = IF idx = NIL THEN mdb ELSE Withdrawn(mdb, idx)
                /\ sched' = Released(tcb[t].sched_context, sched)
                /\ tcb' = [tcb EXCEPT ![t] = NoTcb]
                /\ count' = (count - 1) % CountMod
                /\ hung' = FALSE
                /\ direct' = direct \ {tcb[t].sched_context}
      /\ UNCHANGED next

\* INV_TCB_CONFIGURE through a TCB capability.  It may designate a TCB that has
\* been freed since, or, carved from an Untyped, memory outside the table.  The
\* partition is written as it comes; the stack stays where it is.
Configure(u, p) ==
  /\ ~hung
  /\ Invocable(u, "TCB")
  /\ \E i, j \in Slots : Invocable(i, "CNODE") /\ Invocable(j, "VSPACE")
  /\ tcb' = [tcb EXCEPT ![root.slots[u].obj].rooted = TRUE,
                        ![root.slots[u].obj].partition = p]
  /\ UNCHANGED <<root, mdb, count, next, sched, hung, direct>>

\* INV_SCHED_BIND through any capability: no admission test, and the context may
\* be in use.  A thread without a CNode gets here too: syscall_handler then looks
\* in the root CNode, under the number of the operation, 11, where boot stores
\* the endpoint of the first server.
SchedBind(b) ==
  /\ ~hung
  /\ Used(root) # {}
  /\ CanBind(sched, b[1], b[3], b[4], b[5])
  /\ sched' = sched_context_bind(sched, b[1], b[2], b[3], b[4], b[5], b[6])
  /\ direct' = direct \cup {b[1]}
  /\ UNCHANGED <<root, mdb, tcb, count, next, hung>>

PNext ==
  \/ \E a \in CreateArgs : ProcessCreate(a) \/ CreateUnbound(a) \/ CreateRefused(a)
  \/ \E t \in Tcbs : ProcessDestroy(t)
  \/ \E u \in Slots, p \in ConfigParts : Configure(u, p)
  \/ \E b \in Bindings : SchedBind(b)
  \/ ~hung /\ CNext /\ UNCHANGED pvars

PSpec == PInit /\ [][PNext]_vars

-----------------------------------------------------------------------------

\* The process state is well-typed.
PTypeOK ==
  /\ CTypeOK
  /\ tcb \in [Tcbs -> [made : BOOLEAN, rooted : BOOLEAN, sched_context : Contexts,
                       partition : Partitions \cup ConfigParts, stack : 0 .. Top, pages : 0 .. Top]]
  /\ count \in 0 .. (CountMod - 1)
  /\ next \in 0 .. Top
  /\ hung \in BOOLEAN

Made == {t \in Tcbs : tcb[t].made}

Stack(t) == tcb[t].stack .. (tcb[t].stack + tcb[t].pages - 1)

\* Every process has a bound context that no other process has, and the context
\* names it unless INV_SCHED_BIND has bound it to another thread since.  A context
\* that no process has was bound by INV_SCHED_BIND, and count is the number of
\* processes: after any sequence of creations, also refused ones, destructions
\* and bindings.
OwnContext ==
  /\ \A t \in Made :
       LET c == tcb[t].sched_context
       IN  /\ sched.contexts[c].bound
           /\ c \in direct \/ sched.contexts[c].tcb_id = t
           /\ \A u \in Made \ {t} : tcb[u].sched_context # c
  /\ \A c \in Contexts \ FreeContexts :
       c \in direct \/ \E t \in Made : tcb[t].sched_context = c
  /\ count = Cardinality(Made)

\* The scheduler s if the contexts of D were not bound.
Without(s, D) ==
  [s EXCEPT !.contexts = [c \in Contexts |->
     [s.contexts[c] EXCEPT !.bound = @ /\ c \notin D]]]

\* The contexts that process_create has bound pass the admission test, whoever was
\* created, refused and destroyed before and whatever INV_SCHED_BIND has bound,
\* which makes no such test: a binding takes nothing from what was admitted, and
\* a refused process leaves no share behind.
AlwaysSchedulable == sched_is_schedulable(Without(sched, direct))

\* The stacks of live processes lie in memory that was handed out, do not
\* overlap, and begin on a page of their partition's colour, unless
\* INV_TCB_CONFIGURE has given the process another partition.
StacksDisjoint ==
  \A t \in Made :
    /\ tcb[t].stack + tcb[t].pages <= next
    /\ \/ alloc_color_is_valid(tcb[t].partition, tcb[t].stack % NumColors)
       \/ tcb[t].rooted \/ hung
    /\ \A u \in Made \ {t} : Stack(t) \cap Stack(u) = {}

-----------------------------------------------------------------------------

\* Destroying a process always returns to its caller ("kernel never restarts").
\* The code can make a node its own child and follow the children forever.
DestroyReturns == ~hung

\* The shares admitted in a partition add up to at most the whole processor
\* ("admission control rejects over-util").  The code rounds each share down.
AdmittedFits ==
  \A p \in Partitions :
    LET of    == {c \in Contexts \ FreeContexts : sched.contexts[c].partition_id = p}
        whole == MapThenFoldSet(LAMBDA x, y : x * y, 1, LAMBDA c : sched.contexts[c].period,
                                LAMBDA S : CHOOSE x \in S : TRUE, of)
    IN  MapThenSumSet(LAMBDA c : sched.contexts[c].budget * (whole \div sched.contexts[c].period),
                      of) <= whole
=============================================================================
