---------------------------- MODULE SchedServer -----------------------------
(***************************************************************************)
(* The scheduling server (userspace/sched_server/server.c): a table of     *)
(* admitted tasks, to which a request adds one if its partition can take   *)
(* it.  Tasks are never removed.  The server does not bind a scheduling    *)
(* context itself; its test is compared with the kernel's (Sched).         *)
(***************************************************************************)
EXTENDS Sched, Sequences

CONSTANTS
  MaxTasks,    \* MAX_TASKS (64)
  TaskCfgs,    \* the tasks that clients ask for
  Booted       \* the kernel's scheduler with its partitions, no context bound

TaskRec == [partition : Nat, budget : Nat, period : Nat \ {0}]

ASSUME SchedServerAssumption ==
  /\ MaxTasks \in Nat /\ MaxTasks <= MaxContexts
  /\ TaskCfgs \subseteq TaskRec
  /\ Booted \in SchedRec(Nat)
  /\ \A c \in Contexts : ~Booted.contexts[c].bound
  /\ \A p \in Partitions : Booted.partitions[p].active => p < Booted.num_partitions

VARIABLE tasks   \* tasks[0 .. task_count - 1], as a sequence

SInit == tasks = <<>>

Share(t) == (t.budget * 100) \div t.period

\* Slip: the sum is divided once.
RoundedOnce(S, p) ==
  MapThenSumSet(LAMBDA i : S[i].budget * 100, {i \in 1 .. Len(S) : S[i].partition = p})
    \div (IF S = <<>> THEN 1 ELSE S[1].period)

\* Percent given away in partition p, each share rounded down.
SharesIn(S, p) ==
  LET of == {i \in 1 .. Len(S) : S[i].partition = p}
  IN  SumFunction([i \in of |-> Share(S[i])])

\* The test for a new task covers its own partition.
is_schedulable_for_partition(p, t) == SharesIn(Append(tasks, t), p) <= 99

sched_admit(t) ==
  /\ is_schedulable_for_partition(t.partition, t)
  /\ Len(tasks) < MaxTasks
  /\ tasks' = Append(tasks, t)

sched_is_admissible == \A p \in Partitions : SharesIn(tasks, p) <= 99

SNext == \E t \in TaskCfgs : sched_admit(t)

SSpec == SInit /\ [][SNext]_tasks

-----------------------------------------------------------------------------

\* The kernel binds a context for the task.  Of the tasks that the server admits it
\* refuses those without budget, with a budget above the window of the partition,
\* and of a partition that it does not have: the server looks at none of these.
Bindable(t) == CanBind(Booted, 0, t.partition, t.budget, t.period)

\* The kernel after it was asked to bind a context for every task of S.
KernelWith(S) ==
  [Booted EXCEPT !.contexts =
     [c \in Contexts |->
        IF c < Len(S) /\ Bindable(S[c + 1])
          THEN LET t == S[c + 1]
               IN  sched_context_bind(Booted, c, c, t.partition, t.budget, t.period, 0).contexts[c]
          ELSE Booted.contexts[c]]]

\* The server promises no more than the kernel's test allows: after any sequence of
\* admissions the contexts that can be bound for the tasks pass it.  And while all
\* tasks can be bound, a further one that can be bound passes the test of the
\* server exactly when the kernel accepts it too.
AgreesWithKernel ==
  /\ sched_is_admissible /\ sched_is_schedulable(KernelWith(tasks))
  /\ \A t \in TaskCfgs :
       /\ Len(tasks) < MaxTasks
       /\ \A i \in 1 .. Len(tasks) : Bindable(tasks[i])
       /\ Bindable(t)
       => (is_schedulable_for_partition(t.partition, t)
             <=> sched_is_schedulable(KernelWith(Append(tasks, t))))
=============================================================================
