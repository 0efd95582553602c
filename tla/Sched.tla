------------------------------- MODULE Sched --------------------------------
(***************************************************************************)
(* The time-partition scheduler of kernel/src/sched.c as operators on the  *)
(* scheduler state s: the partitions with their windows in the major       *)
(* frame, the number of the current partition, and the scheduling          *)
(* contexts.  major_frame_start is never changed from 0, and used_us,      *)
(* consumed_this_period, criticality, color_base and the ready queues are  *)
(* never read; they are left out.                                          *)
(***************************************************************************)
EXTENDS Integers, FiniteSets, FiniteSetsExt, Functions

CONSTANTS
  MaxPartitions,    \* MAX_PARTITIONS (8)
  MaxContexts,      \* MAX_SCHED_CONTEXTS (64)
  MajorFrame,       \* MAJOR_FRAME_US (10000), in the instance's unit of time
  Idle              \* 0xFFFFFFFF, what sched_pick_next returns with no thread

ASSUME SchedAssumption ==
  /\ MaxPartitions \in Nat \ {0}
  /\ MaxContexts \in Nat \ {0}
  /\ MajorFrame \in Nat \ {0}

Partitions == 0 .. (MaxPartitions - 1)

Contexts == 0 .. (MaxContexts - 1)

PartitionRec == [offset : Nat, budget : Nat, active : BOOLEAN]

ContextRec(ids) ==
  [ bound : BOOLEAN, tcb_id : ids, partition_id : Partitions, budget : Nat, period : Nat,
    remaining : Nat, deadline : Nat, priority : Nat ]

\* The scheduler state with threads numbered by ids.
SchedRec(ids) ==
  [ partitions : [Partitions -> PartitionRec], num_partitions : 0 .. MaxPartitions,
    current_partition : Partitions, contexts : [Contexts -> ContextRec(ids)] ]

sched_init ==
  [ partitions |-> [p \in Partitions |-> [offset |-> 0, budget |-> 0, active |-> FALSE]],
    num_partitions |-> 0,
    current_partition |-> 0,
    contexts |-> [c \in Contexts |->
                    [bound |-> FALSE, tcb_id |-> 0, partition_id |-> 0, budget |-> 0,
                     period |-> 0, remaining |-> 0, deadline |-> 0, priority |-> 0]] ]

-----------------------------------------------------------------------------

\* The frame offset x lies in the window of partition p.
InWindow(s, p, x) ==
  /\ s.partitions[p].offset <= x
  /\ x < s.partitions[p].offset + s.partitions[p].budget

\* Slip: partitions are counted instead of the highest id being kept.
CountPartitions(s, id) == s.num_partitions + 1

NumPartitions(s, id) == IF id >= s.num_partitions THEN id + 1 ELSE s.num_partitions

\* The loop compares with every entry below num_partitions, the old window of
\* id and the empty entries between ids included.
CanCreatePartition(s, id, offset, budget) ==
  /\ id \in Partitions
  /\ offset + budget <= MajorFrame
  /\ \A i \in 0 .. (s.num_partitions - 1) :
       LET a == s.partitions[i].offset
           b == a + s.partitions[i].budget
       IN  offset + budget <= a \/ offset >= b

sched_partition_create(s, id, offset, budget) ==
  [s EXCEPT !.partitions[id] = [offset |-> offset, budget |-> budget, active |-> TRUE],
            !.num_partitions = NumPartitions(s, id)]

-----------------------------------------------------------------------------

\* Neither an earlier binding of the context nor the thread is looked at.
CanBind(s, sc_id, part_id, budget, period) ==
  /\ sc_id \in Contexts
  /\ part_id \in Partitions /\ s.partitions[part_id].active
  /\ budget # 0 /\ period # 0 /\ budget <= period
  /\ budget <= s.partitions[part_id].budget

\* The first deadline is one period after time 0, not after the binding.
sched_context_bind(s, sc_id, tcb_id, part_id, budget, period, prio) ==
  [s EXCEPT !.contexts[sc_id] =
     [bound |-> TRUE, tcb_id |-> tcb_id, partition_id |-> part_id, budget |-> budget,
      period |-> period, remaining |-> budget, deadline |-> period, priority |-> prio]]

-----------------------------------------------------------------------------

\* Slip: the index after the loop is used when no window holds the offset.
PartitionAtLoopEnd(s, now) ==
  LET owners == {i \in 0 .. (s.num_partitions - 1) : InWindow(s, i, now % MajorFrame)}
  IN  IF owners = {} THEN s.num_partitions ELSE Min(owners)

\* The first partition whose window holds the offset; the current one if none.
PartitionAt(s, now) ==
  LET owners == {i \in 0 .. (s.num_partitions - 1) : InWindow(s, i, now % MajorFrame)}
  IN  IF owners = {} THEN s.current_partition ELSE Min(owners)

Due(c, now) == c.bound /\ now >= c.deadline

\* Slip: the deadline stays where it was.
ReplenishKeepsDeadline(c) == [c EXCEPT !.remaining = c.budget]

Replenish(c) == [c EXCEPT !.remaining = c.budget, !.deadline = @ + c.period]

\* One replenishment for each context that is due, however late the tick is.
sched_tick(s, now) ==
  [s EXCEPT !.current_partition = PartitionAt(s, now),
            !.contexts = [i \in Contexts |->
                            IF Due(s.contexts[i], now) THEN Replenish(s.contexts[i])
                                                       ELSE s.contexts[i]]]

-----------------------------------------------------------------------------

\* Slip: the partition of the context is not compared with the current one.
EligibleAnywhere(s, i, runnable) ==
  /\ s.contexts[i].bound
  /\ s.contexts[i].remaining # 0
  /\ s.contexts[i].tcb_id \in runnable

\* Context i passes all the tests of sched_pick_next but the one on priority.
Eligible(s, i, runnable) ==
  /\ s.contexts[i].bound
  /\ s.contexts[i].partition_id = s.current_partition
  /\ s.contexts[i].remaining # 0
  /\ s.contexts[i].tcb_id \in runnable

\* The best priority, then the lowest context; the deadline plays no part.
sched_pick_next(s, runnable) ==
  LET eligible == {i \in Contexts : Eligible(s, i, runnable)}
      best     == Min({s.contexts[i].priority : i \in eligible})
  IN  IF eligible = {} THEN Idle
      ELSE s.contexts[Min({i \in eligible : s.contexts[i].priority = best})].tcb_id

\* Percent of the processor that partition p has given away, each share
\* rounded down.
Utilisation(s, p) ==
  LET bound == {i \in Contexts : s.contexts[i].bound /\ s.contexts[i].partition_id = p}
  IN  SumFunction([i \in bound |-> (s.contexts[i].budget * 100) \div s.contexts[i].period])

sched_is_schedulable(s) ==
  \A p \in 0 .. (s.num_partitions - 1) : Utilisation(s, p) <= 99
=============================================================================
