----------------------------- MODULE SchedTime ------------------------------
(***************************************************************************)
(* The scheduler in time: partitions and contexts are set up, ticks arrive *)
(* early and late, threads block and wake, and the next thread is picked.  *)
(* filled and picked record what happened, for the properties.             *)
(***************************************************************************)
EXTENDS Sched

CONSTANTS
  Threads,      \* thread ids
  Windows,      \* windows <<id, offset, budget>> that may be asked for
  Bindings,     \* <<context, thread, partition, budget, period, priority>>
  Steps,        \* time between two ticks
  MaxTime       \* bound: no tick after this time

ASSUME TimeAssumption ==
  /\ MaxTime \in Nat /\ Steps \subseteq Nat \ {0}
  /\ \A w \in Windows : w \in Nat \X Nat \X Nat
  /\ \A b \in Bindings : b \in Nat \X Threads \X Nat \X Nat \X Nat \X Nat

VARIABLES
  s,            \* g_sched
  runnable,     \* threads for which tcb_is_runnable holds
  now,          \* time of the last tick
  started,      \* the timer has ticked
  filled,       \* filled[c]: times at which context c got its budget back
  picked        \* the last result of sched_pick_next

vars == <<s, runnable, now, started, filled, picked>>

Init ==
  /\ s = sched_init
  /\ runnable = {}
  /\ now = 0
  /\ started = FALSE
  /\ filled = [c \in Contexts |-> {}]
  /\ picked = Idle

\* Boot creates the partitions before the timer runs; nothing does later.
PartitionCreate(id, offset, budget) ==
  /\ ~started
  /\ CanCreatePartition(s, id, offset, budget)
  /\ s' = sched_partition_create(s, id, offset, budget)
  /\ UNCHANGED <<runnable, now, started, filled, picked>>

ContextBind(c, t, p, budget, period, prio) ==
  /\ CanBind(s, c, p, budget, period)
  /\ s' = sched_context_bind(s, c, t, p, budget, period, prio)
  /\ filled' = [filled EXCEPT ![c] = {}]
  /\ UNCHANGED <<runnable, now, started, picked>>

Tick(d) ==
  /\ now + d <= MaxTime
  /\ now' = now + d
  /\ started' = TRUE
  /\ s' = sched_tick(s, now + d)
  /\ filled' = [c \in Contexts |-> IF Due(s.contexts[c], now + d)
                                     THEN filled[c] \cup {now + d} ELSE filled[c]]
  /\ UNCHANGED <<runnable, picked>>

Pick ==
  /\ picked' = sched_pick_next(s, runnable)
  /\ UNCHANGED <<s, runnable, now, started, filled>>

\* The picked thread uses its budget up.  The kernel leaves this accounting to
\* its surroundings; the test does it between two ticks.
Consume(c) ==
  /\ s.contexts[c].bound /\ s.contexts[c].remaining # 0
  /\ s.contexts[c].tcb_id = picked
  /\ s' = [s EXCEPT !.contexts[c].remaining = 0]
  /\ UNCHANGED <<runnable, now, started, filled, picked>>

\* A thread blocks, is suspended, resumed or woken.
Toggle(t) ==
  /\ runnable' = IF t \in runnable THEN runnable \ {t} ELSE runnable \cup {t}
  /\ UNCHANGED <<s, now, started, filled, picked>>

Next ==
  \/ \E w \in Windows : PartitionCreate(w[1], w[2], w[3])
  \/ \E b \in Bindings : ContextBind(b[1], b[2], b[3], b[4], b[5], b[6])
  \/ \E d \in Steps : Tick(d)
  \/ Pick
  \/ \E c \in Contexts : Consume(c)
  \/ \E t \in Threads : Toggle(t)

Spec == Init /\ [][Next]_vars

-----------------------------------------------------------------------------

\* The scheduler state is well-typed.
TypeOK ==
  /\ s \in SchedRec(Threads \cup {0})
  /\ runnable \subseteq Threads
  /\ picked \in Threads \cup {Idle}

\* Whatever the order in which partitions are created, and created again, no
\* instant of the major frame belongs to two of them (the overlap check of
\* sched_partition_create), and sched_tick finds every one of them.
WindowsDisjoint ==
  /\ \A x \in 0 .. (MajorFrame - 1) :
       Cardinality({p \in Partitions : InWindow(s, p, x)}) <= 1
  /\ \A p \in Partitions : s.partitions[p].active => p < s.num_partitions

\* A context is never given its budget more often than its period allows,
\* counted from time 0: k replenishments take k periods, however ticks are
\* delayed.
FillsBounded ==
  \A c \in Contexts :
    s.contexts[c].bound => Cardinality(filled[c]) * s.contexts[c].period <= now

\* Contexts of the thread that was picked last.
PickedContexts == {c \in Contexts : s.contexts[c].bound /\ s.contexts[c].tcb_id = picked'}

\* Once the timer runs, an instant that belongs to a partition is given to no
\* thread of another one: sched_tick and sched_pick_next together, for windows
\* created in any order and ticks that skip windows.
PickRespectsWindow ==
  [][ Pick /\ started /\ picked' # Idle =>
        \A p \in Partitions : InWindow(s, p, now % MajorFrame) =>
          \E c \in PickedContexts : s.contexts[c].partition_id = p ]_vars
=============================================================================
