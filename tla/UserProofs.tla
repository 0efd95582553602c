----------------------------- MODULE UserProofs -----------------------------
(***************************************************************************)
(* The scheduler in time, for every number of partitions and contexts,     *)
(* every major frame, all windows and bindings that may be asked for and   *)
(* ticks at any distance; and the network driver with the IOMMU and the    *)
(* file server, for every value of their constants.                        *)
(***************************************************************************)
EXTENDS SchedTime, SchedServer, NetDriver, VfsServer, CommonLemmas

(***************************************************************************)
(* The inductive invariant.                                                *)
(***************************************************************************)

WindowEnd(p) == s.partitions[p].offset + s.partitions[p].budget

\* Entries from num_partitions on are as sched_init left them, which is why the
\* overlap check may stop there.
EmptyAbove ==
  \A p \in Partitions :
    p >= s.num_partitions =>
      s.partitions[p].offset = 0 /\ s.partitions[p].budget = 0 /\ ~s.partitions[p].active

\* Of two windows one ends before the other begins.
Apart ==
  \A p, q \in Partitions :
    p # q => WindowEnd(p) <= s.partitions[q].offset \/ WindowEnd(q) <= s.partitions[p].offset

\* After a tick the owner of the instant is the current partition.
CurrentOwns ==
  started => \A p \in Partitions :
               InWindow(s, p, now % MajorFrame) => s.current_partition = p

\* The deadline of a bound context lies one period behind the replenishments it
\* has got.
DeadlineCounts ==
  \A c \in Contexts :
    s.contexts[c].bound =>
      /\ filled[c] \in SUBSET (0 .. now)
      /\ s.contexts[c].deadline = (Cardinality(filled[c]) + 1) * s.contexts[c].period
      /\ Cardinality(filled[c]) * s.contexts[c].period <= now

TimeInv ==
  /\ TypeOK
  /\ now \in Nat /\ started \in BOOLEAN /\ filled \in [Contexts -> SUBSET Nat]
  /\ EmptyAbove
  /\ Apart
  /\ CurrentOwns
  /\ DeadlineCounts

(***************************************************************************)
(* What the functions of sched.c return.                                   *)
(***************************************************************************)

\* sched_init is a scheduler state.
LEMMA InitType ==
  ASSUME NEW ids, 0 \in ids
  PROVE  sched_init \in SchedRec(ids)
<1>1. 0 \in Partitions /\ 0 \in 0 .. MaxPartitions
  BY SchedAssumption DEF Partitions
<1> QED BY <1>1 DEF sched_init, SchedRec, PartitionRec, ContextRec

\* sched_partition_create writes one window and keeps the highest id.
LEMMA CreateType ==
  ASSUME NEW ids, NEW st \in SchedRec(ids), NEW id \in Partitions,
         NEW offset \in Nat, NEW budget \in Nat
  PROVE  LET r == sched_partition_create(st, id, offset, budget)
         IN  /\ r \in SchedRec(ids)
             /\ r.partitions = [st.partitions EXCEPT ![id] =
                   [offset |-> offset, budget |-> budget, active |-> TRUE]]
             /\ r.num_partitions = (IF id >= st.num_partitions THEN id + 1
                                                               ELSE st.num_partitions)
             /\ r.contexts = st.contexts
             /\ r.current_partition = st.current_partition
<1>1. NumPartitions(st, id) \in 0 .. MaxPartitions
  BY SchedAssumption DEF SchedRec, NumPartitions, Partitions
<1>2. [offset |-> offset, budget |-> budget, active |-> TRUE] \in PartitionRec
  BY DEF PartitionRec
<1> QED BY <1>1, <1>2, Zenon DEF SchedRec, sched_partition_create, NumPartitions

\* The partition that sched_tick makes current is one of the table; it is the
\* owner of the instant if there is one below num_partitions.
LEMMA PartitionAtType ==
  ASSUME NEW ids, NEW st \in SchedRec(ids), NEW t \in Nat
  PROVE  /\ PartitionAt(st, t) \in Partitions
         /\ \A p \in Partitions :
              p < st.num_partitions /\ InWindow(st, p, t % MajorFrame) =>
                InWindow(st, PartitionAt(st, t), t % MajorFrame)
<1> DEFINE owners == {i \in 0 .. (st.num_partitions - 1) : InWindow(st, i, t % MajorFrame)}
<1>1. st.num_partitions \in 0 .. MaxPartitions /\ st.current_partition \in Partitions
  BY DEF SchedRec
<1>2. owners \in SUBSET Nat /\ owners \in SUBSET Partitions
  BY <1>1, SchedAssumption DEF Partitions
<1>3. PartitionAt(st, t) = IF owners = {} THEN st.current_partition ELSE Min(owners)
  BY DEF PartitionAt
<1>4. owners # {} => Min(owners) \in owners
  <2> HIDE DEF owners
  <2> QED BY <1>2, MinIsMember
<1>5. ASSUME NEW p \in Partitions, p < st.num_partitions, InWindow(st, p, t % MajorFrame)
      PROVE  p \in owners
  BY <1>1, <1>5, SchedAssumption DEF Partitions
<1> QED BY <1>1, <1>2, <1>3, <1>4, <1>5, Zenon

\* sched_tick changes the current partition and replenishes the due contexts.
LEMMA TickType ==
  ASSUME NEW ids, NEW st \in SchedRec(ids), NEW t \in Nat
  PROVE  LET r == sched_tick(st, t)
         IN  /\ r \in SchedRec(ids)
             /\ r.partitions = st.partitions
             /\ r.num_partitions = st.num_partitions
             /\ r.current_partition = PartitionAt(st, t)
             /\ \A c \in Contexts :
                  r.contexts[c] = IF Due(st.contexts[c], t) THEN Replenish(st.contexts[c])
                                                            ELSE st.contexts[c]
<1>1. \A c \in Contexts : st.contexts[c] \in ContextRec(ids)
  BY DEF SchedRec
<1>2. \A c \in Contexts : Replenish(st.contexts[c]) \in ContextRec(ids)
  <2> SUFFICES ASSUME NEW x \in ContextRec(ids) PROVE Replenish(x) \in ContextRec(ids)
    BY <1>1
  <2>1. x.budget \in Nat /\ x.deadline + x.period \in Nat
    BY DEF ContextRec
  <2> QED BY <2>1, Zenon DEF Replenish, ContextRec
<1>3. PartitionAt(st, t) \in Partitions
  BY PartitionAtType
<1> DEFINE new == [i \in Contexts |-> IF Due(st.contexts[i], t) THEN Replenish(st.contexts[i])
                                                                ELSE st.contexts[i]]
<1>4. new \in [Contexts -> ContextRec(ids)]
  BY <1>1, <1>2
<1>5. sched_tick(st, t) = [st EXCEPT !.current_partition = PartitionAt(st, t), !.contexts = new]
  BY DEF sched_tick
<1>6. /\ sched_tick(st, t) \in SchedRec(ids)
      /\ sched_tick(st, t).partitions = st.partitions
      /\ sched_tick(st, t).num_partitions = st.num_partitions
      /\ sched_tick(st, t).current_partition = PartitionAt(st, t)
      /\ sched_tick(st, t).contexts = new
  <2> HIDE DEF new
  <2> QED BY <1>3, <1>4, <1>5, Zenon DEF SchedRec
<1> QED BY <1>6

\* sched_pick_next returns the thread of an eligible context, or Idle if there
\* is none.
LEMMA PickEligible ==
  ASSUME NEW ids, NEW st \in SchedRec(ids), NEW run
  PROVE  \/ sched_pick_next(st, run) = Idle
         \/ \E c \in Contexts : /\ Eligible(st, c, run)
                                /\ sched_pick_next(st, run) = st.contexts[c].tcb_id
<1> DEFINE eligible == {i \in Contexts : Eligible(st, i, run)}
           prios == {st.contexts[i].priority : i \in eligible}
           best == Min(prios)
           firsts == {i \in eligible : st.contexts[i].priority = best}
<1> SUFFICES ASSUME eligible # {}
             PROVE  \E c \in Contexts : /\ Eligible(st, c, run)
                                        /\ sched_pick_next(st, run) = st.contexts[c].tcb_id
  BY Zenon DEF sched_pick_next
<1>1. prios \in SUBSET Nat /\ prios # {}
  BY DEF SchedRec, ContextRec
<1>2. best \in prios
  <2> HIDE DEF prios
  <2> QED BY <1>1, MinIsMember
<1>3. firsts # {} /\ firsts \in SUBSET Nat
  <2>1. PICK c \in eligible : best = st.contexts[c].priority
    BY <1>2, Zenon
  <2>2. \A i \in Contexts : i \in Nat
    BY SchedAssumption DEF Contexts
  <2> HIDE DEF best
  <2> QED BY <2>1, <2>2
<1>4. Min(firsts) \in firsts
  <2> HIDE DEF firsts
  <2> QED BY <1>3, MinIsMember
<1>5. sched_pick_next(st, run) = st.contexts[Min(firsts)].tcb_id
  BY DEF sched_pick_next
<1> QED BY <1>4, <1>5, Zenon

(***************************************************************************)
(* The invariant holds initially and is preserved by every step.           *)
(***************************************************************************)

\* The remainder of a time is an instant of the major frame.
LEMMA FrameInstant ==
  ASSUME NEW t \in Nat
  PROVE  t % MajorFrame \in 0 .. (MajorFrame - 1)
BY DivMod, SchedAssumption

\* The invariant holds after sched_init.
LEMMA TimeInvInit == Init => TimeInv
<1> SUFFICES ASSUME Init PROVE TimeInv
  OBVIOUS
<1>1. s = sched_init /\ started = FALSE
  BY DEF Init
<1>2. TypeOK
  BY InitType DEF Init, TypeOK
<1>3. EmptyAbove /\ Apart
  BY <1>1 DEF EmptyAbove, Apart, WindowEnd, sched_init
<1>4. CurrentOwns
  BY <1>1 DEF CurrentOwns
<1>5. DeadlineCounts
  BY <1>1 DEF DeadlineCounts, sched_init
<1> QED BY <1>2, <1>3, <1>4, <1>5, Zenon DEF TimeInv, Init

\* Creating a partition keeps the windows apart, whatever ids are left out.
LEMMA CreateStep ==
  ASSUME TimeInv, NEW id \in Nat, NEW offset \in Nat, NEW budget \in Nat,
         PartitionCreate(id, offset, budget)
  PROVE  TimeInv'
<1> DEFINE ids == Threads \cup {0}
<1>1. /\ s \in SchedRec(ids) /\ id \in Partitions
      /\ s' = sched_partition_create(s, id, offset, budget)
      /\ UNCHANGED <<runnable, now, started, filled, picked>>
      /\ ~started
      /\ CanCreatePartition(s, id, offset, budget)
  BY DEF TimeInv, TypeOK, PartitionCreate, CanCreatePartition
<1>2. /\ s' \in SchedRec(ids)
      /\ s'.partitions = [s.partitions EXCEPT ![id] =
                            [offset |-> offset, budget |-> budget, active |-> TRUE]]
      /\ s'.num_partitions = (IF id >= s.num_partitions THEN id + 1 ELSE s.num_partitions)
      /\ s'.contexts = s.contexts
  <2> HIDE DEF ids
  <2> QED BY <1>1, CreateType, SMTT(60)
<1>3. /\ s.partitions \in [Partitions -> PartitionRec]
      /\ s.num_partitions \in 0 .. MaxPartitions
  BY <1>1 DEF SchedRec
<1> HIDE DEF ids
<1>4. TypeOK'
  BY <1>1, <1>2 DEF TimeInv, TypeOK, ids
<1>5. \A p \in Partitions : p \in Nat
  BY SchedAssumption DEF Partitions
<1>6. EmptyAbove'
  BY <1>1, <1>2, <1>3, <1>5 DEF TimeInv, EmptyAbove
<1>7. Apart'
  <2>1. ASSUME NEW q \in Partitions, q # id
        PROVE  offset + budget <= s.partitions[q].offset \/ WindowEnd(q) <= offset
    <3>1. CASE q < s.num_partitions
      <4>1. q \in 0 .. (s.num_partitions - 1)
        BY <1>3, <1>5, <3>1
      <4> QED BY <1>1, <4>1 DEF CanCreatePartition, WindowEnd
    <3>2. CASE q >= s.num_partitions
      BY <3>2 DEF TimeInv, EmptyAbove, WindowEnd
    <3> QED BY <1>3, <1>5, <3>1, <3>2
  <2>2. \A q \in Partitions :
          s'.partitions[q] = IF q = id
                               THEN [offset |-> offset, budget |-> budget, active |-> TRUE]
                               ELSE s.partitions[q]
    BY <1>2, <1>3
  <2>3. WindowEnd(id)' = offset + budget /\ s'.partitions[id].offset = offset
    <3>1. s'.partitions[id] = [offset |-> offset, budget |-> budget, active |-> TRUE]
      BY <1>1, <2>2, Zenon
    <3> QED BY <3>1 DEF WindowEnd
  <2>4. ASSUME NEW q \in Partitions, q # id
         PROVE  WindowEnd(q)' = WindowEnd(q) /\ s'.partitions[q].offset = s.partitions[q].offset
    BY <2>2, <2>4 DEF WindowEnd
  <2> SUFFICES ASSUME NEW p \in Partitions, NEW q \in Partitions, p # q
               PROVE  \/ WindowEnd(p)' <= s'.partitions[q].offset
                      \/ WindowEnd(q)' <= s'.partitions[p].offset
    BY DEF Apart
  <2>5. CASE p # id /\ q # id
    BY <2>4, <2>5 DEF TimeInv, Apart
  <2>6. CASE p = id \/ q = id
    BY <2>1, <2>3, <2>4, <2>6
  <2> QED BY <2>5, <2>6
<1>8. CurrentOwns'
  BY <1>1 DEF CurrentOwns
<1>9. DeadlineCounts'
  BY <1>1, <1>2 DEF TimeInv, DeadlineCounts
<1> QED BY <1>1, <1>4, <1>6, <1>7, <1>8, <1>9, SMTT(60) DEF TimeInv

\* A step that leaves the windows, the current partition and the time alone
\* leaves the facts about them alone.
LEMMA WindowsUnchanged ==
  ASSUME TimeInv, s'.partitions = s.partitions, s'.num_partitions = s.num_partitions
  PROVE  /\ EmptyAbove' /\ Apart'
         /\ \A p, x : InWindow(s', p, x) <=> InWindow(s, p, x)
         /\ s'.current_partition = s.current_partition /\ UNCHANGED <<now, started>>
              => CurrentOwns'
<1>1. EmptyAbove' /\ Apart'
  BY DEF TimeInv, EmptyAbove, Apart, WindowEnd
<1>2. \A p, x : InWindow(s', p, x) <=> InWindow(s, p, x)
  BY DEF InWindow
<1> QED BY <1>1, <1>2 DEF TimeInv, CurrentOwns

\* Binding a context starts its count of replenishments anew.
LEMMA BindStep ==
  ASSUME TimeInv, NEW c \in Nat, NEW t \in Threads, NEW p \in Nat,
         NEW budget \in Nat, NEW period \in Nat, NEW prio \in Nat,
         ContextBind(c, t, p, budget, period, prio)
  PROVE  TimeInv'
<1> DEFINE ids == Threads \cup {0}
<1>1. /\ s \in SchedRec(ids) /\ c \in Contexts /\ p \in Partitions /\ t \in ids
      /\ s' = sched_context_bind(s, c, t, p, budget, period, prio)
      /\ filled' = [filled EXCEPT ![c] = {}]
      /\ UNCHANGED <<runnable, now, started, picked>>
  BY DEF TimeInv, TypeOK, ContextBind, CanBind
<1> HIDE DEF ids
<1>2. /\ s' \in SchedRec(ids)
      /\ s'.partitions = s.partitions
      /\ s'.num_partitions = s.num_partitions
      /\ s'.current_partition = s.current_partition
      /\ s'.contexts = [s.contexts EXCEPT ![c] =
           [bound |-> TRUE, tcb_id |-> t, partition_id |-> p, budget |-> budget,
            period |-> period, remaining |-> budget, deadline |-> period, priority |-> prio]]
  <2>1. [bound |-> TRUE, tcb_id |-> t, partition_id |-> p, budget |-> budget,
         period |-> period, remaining |-> budget, deadline |-> period,
         priority |-> prio] \in ContextRec(ids)
    BY <1>1 DEF ContextRec
  <2> QED BY <1>1, <2>1, Zenon DEF SchedRec, sched_context_bind
<1>3. TypeOK'
  BY <1>1, <1>2 DEF TimeInv, TypeOK, ids
<1>4. EmptyAbove' /\ Apart' /\ CurrentOwns'
  BY <1>1, <1>2, WindowsUnchanged
<1>5. filled' \in [Contexts -> SUBSET Nat]
  BY <1>1 DEF TimeInv
<1>6. DeadlineCounts'
  <2> SUFFICES ASSUME NEW d \in Contexts, s'.contexts[d].bound
               PROVE  /\ filled'[d] \in SUBSET (0 .. now)
                      /\ s'.contexts[d].deadline
                           = (Cardinality(filled'[d]) + 1) * s'.contexts[d].period
                      /\ Cardinality(filled'[d]) * s'.contexts[d].period <= now
    BY <1>1, ZenonT(60) DEF DeadlineCounts
  <2>0. s.contexts \in [Contexts -> ContextRec(ids)]
    BY <1>1 DEF SchedRec
  <2>1. CASE d = c
    <3>1. s'.contexts[d].deadline = period /\ s'.contexts[d].period = period
      BY <1>1, <1>2, <2>0, <2>1
    <3>2. filled'[d] = {} /\ Cardinality({}) = 0
      BY <1>1, <2>1, FS_EmptySet DEF TimeInv
    <3>3. now \in Nat
      BY SMTT(60) DEF TimeInv
    <3> QED BY <3>1, <3>2, <3>3
  <2>2. CASE d # c
    <3>1. s'.contexts[d] = s.contexts[d] /\ filled'[d] = filled[d]
      BY <1>1, <1>2, <2>0, <2>2 DEF TimeInv
    <3> QED BY <3>1, SMTT(60) DEF TimeInv, DeadlineCounts
  <2> QED BY <2>1, <2>2, SMTT(60)
<1> QED BY <1>1, <1>3, <1>4, <1>5, <1>6, SMTT(60) DEF TimeInv

\* The products that occur when a context is replenished once more.
LEMMA OneMorePeriod ==
  ASSUME NEW k \in Nat, NEW period \in Nat
  PROVE  /\ (k + 1) * period \in Nat
         /\ (k + 1 + 1) * period = (k + 1) * period + period
BY Z3

\* A tick, however late, replenishes a due context once and finds the owner of
\* the instant.
LEMMA TickStep ==
  ASSUME TimeInv, NEW d \in Nat \ {0}, Tick(d)
  PROVE  TimeInv'
<1> DEFINE ids == Threads \cup {0}
           t == now + d
<1>1. /\ s \in SchedRec(ids) /\ t \in Nat /\ now \in Nat /\ t > now
      /\ now' = t /\ started' = TRUE
      /\ s' = sched_tick(s, t)
      /\ filled' = [c \in Contexts |-> IF Due(s.contexts[c], t) THEN filled[c] \cup {t}
                                                                ELSE filled[c]]
      /\ UNCHANGED <<runnable, picked>>
  BY DEF TimeInv, TypeOK, Tick
<1> HIDE DEF ids, t
<1>2. /\ s' \in SchedRec(ids)
      /\ s'.partitions = s.partitions
      /\ s'.num_partitions = s.num_partitions
      /\ s'.current_partition = PartitionAt(s, t)
      /\ \A c \in Contexts :
           s'.contexts[c] = IF Due(s.contexts[c], t) THEN Replenish(s.contexts[c])
                                                     ELSE s.contexts[c]
  BY <1>1, TickType
<1>3. TypeOK'
  BY <1>1, <1>2 DEF TimeInv, TypeOK, ids
<1>4. /\ EmptyAbove' /\ Apart'
      /\ \A p, x : InWindow(s', p, x) <=> InWindow(s, p, x)
  BY <1>1, <1>2, WindowsUnchanged
<1>5. CurrentOwns'
  <2> DEFINE x == t % MajorFrame
             o == PartitionAt(s, t)
  <2>0. x \in 0 .. (MajorFrame - 1) /\ MajorFrame \in Nat
    BY <1>1, FrameInstant, SchedAssumption
  <2> SUFFICES ASSUME NEW p \in Partitions, InWindow(s, p, x) PROVE o = p
    BY <1>1, <1>2, <1>4 DEF CurrentOwns
  <2>1. s.partitions[p] \in PartitionRec /\ p \in Nat /\ s.num_partitions \in Nat
    BY <1>1, SchedAssumption DEF SchedRec, Partitions
  <2>2. p < s.num_partitions
    BY <2>0, <2>1 DEF TimeInv, EmptyAbove, InWindow, PartitionRec
  <2>3. o \in Partitions /\ InWindow(s, o, x)
    BY <1>1, <2>2, PartitionAtType
  <2>4. s.partitions[o] \in PartitionRec
    BY <1>1, <2>3 DEF SchedRec
  <2> HIDE DEF o, x
  <2> QED BY <2>0, <2>1, <2>3, <2>4 DEF TimeInv, Apart, WindowEnd, InWindow, PartitionRec
<1>6. filled' \in [Contexts -> SUBSET Nat]
  BY <1>1 DEF TimeInv
<1>7. DeadlineCounts'
  <2> SUFFICES ASSUME NEW c \in Contexts, s'.contexts[c].bound
               PROVE  /\ filled'[c] \in SUBSET (0 .. t)
                      /\ s'.contexts[c].deadline
                           = (Cardinality(filled'[c]) + 1) * s'.contexts[c].period
                      /\ Cardinality(filled'[c]) * s'.contexts[c].period <= t
    BY <1>1, Zenon DEF DeadlineCounts
  <2> DEFINE x == s.contexts[c]
             k == Cardinality(filled[c])
  <2>1. x \in ContextRec(ids)
    BY <1>1 DEF SchedRec
  <2>2. x.bound
    BY <1>2, <2>1 DEF Due
  <2>3. /\ filled[c] \in SUBSET (0 .. now)
        /\ x.deadline = (k + 1) * x.period
        /\ k * x.period <= now
    BY <2>2 DEF TimeInv, DeadlineCounts
  <2>4. IsFiniteSet(filled[c]) /\ k \in Nat
    <3>1. filled[c] \in SUBSET (0 .. ((now + 1) - 1)) /\ now + 1 \in Nat
      BY <1>1, <2>3
    <3>2. IsFiniteSet(filled[c]) /\ Cardinality(filled[c]) \in 0 .. (now + 1)
      BY <3>1, BelowIsFinite
    <3> QED BY <1>1, <3>2
  <2>5. CASE Due(x, t)
    <3>1. s'.contexts[c] = Replenish(x) /\ filled'[c] = filled[c] \cup {t}
      BY <1>1, <1>2, <2>5
    <3>2. t \notin filled[c]
      BY <1>1, <2>3
    <3>3. Cardinality(filled'[c]) = k + 1
      BY <2>4, <3>1, <3>2, FS_AddElement, Zenon
    <3>4. t >= (k + 1) * x.period
      BY <2>3, <2>5 DEF Due
    <3>5. filled'[c] \in SUBSET (0 .. t)
      BY <1>1, <2>3, <3>1
    <3>6. /\ s'.contexts[c].deadline = x.deadline + x.period
          /\ s'.contexts[c].period = x.period
          /\ x.period \in Nat
      BY <2>1, <3>1 DEF Replenish, ContextRec
    <3> HIDE DEF x, k
    <3> QED BY <1>1, <2>3, <2>4, <3>3, <3>4, <3>5, <3>6, OneMorePeriod, SMTT(60)
  <2>6. CASE ~Due(x, t)
    <3>1. s'.contexts[c] = x /\ filled'[c] = filled[c]
      BY <1>1, <1>2, <2>6
    <3>2. x.period \in Nat
      BY <2>1 DEF ContextRec
    <3>3. k * x.period <= t
      BY <1>1, <2>3, <2>4, <3>2
    <3> QED BY <1>1, <2>3, <3>1, <3>3
  <2> QED BY <2>5, <2>6
<1> QED BY <1>1, <1>3, <1>4, <1>5, <1>6, <1>7, SMTT(60) DEF TimeInv

\* What the other steps leave: they change the runnable threads, the result of
\* the last pick or the remaining budget of a context.
LEMMA OtherSteps ==
  ASSUME TimeInv,
         \/ Pick
         \/ \E c \in Contexts : Consume(c)
         \/ \E t \in Threads : Toggle(t)
         \/ UNCHANGED vars
  PROVE  TimeInv'
<1> DEFINE ids == Threads \cup {0}
<1>1. s \in SchedRec(ids) /\ runnable \subseteq Threads /\ picked \in Threads \cup {Idle}
  BY DEF TimeInv, TypeOK
<1>2. CASE UNCHANGED <<s, now, started, filled>>
  <2>1. runnable' \subseteq Threads
    BY <1>1 DEF Pick, Consume, Toggle, vars
  <2>2. picked' \in Threads \cup {Idle}
    <3>1. CASE Pick
      <4>1. \A c \in Contexts : Eligible(s, c, runnable) => s.contexts[c].tcb_id \in Threads
        BY <1>1 DEF Eligible
      <4> HIDE DEF ids
      <4> QED BY <1>1, <3>1, <4>1, PickEligible DEF Pick
    <3>2. CASE ~Pick
      BY <1>1, <3>2 DEF Consume, Toggle, vars
    <3> QED BY <3>1, <3>2
  <2>3. TypeOK'
    BY <1>1, <1>2, <2>1, <2>2, SMTT(60) DEF TypeOK
  <2>4. EmptyAbove' /\ Apart' /\ CurrentOwns' /\ DeadlineCounts'
    BY <1>2, Zenon DEF TimeInv, EmptyAbove, Apart, WindowEnd, CurrentOwns, DeadlineCounts
  <2> QED BY <1>2, <2>3, <2>4 DEF TimeInv
<1>3. ASSUME NEW c \in Contexts, Consume(c) PROVE TimeInv'
  <2>1. /\ s' = [s EXCEPT !.contexts[c].remaining = 0]
        /\ UNCHANGED <<runnable, now, started, filled, picked>>
    BY <1>3 DEF Consume
  <2>2. s.contexts \in [Contexts -> ContextRec(ids)]
    BY <1>1 DEF SchedRec
  <2>3. [s.contexts[c] EXCEPT !.remaining = 0] \in ContextRec(ids)
    BY <2>2 DEF ContextRec
  <2> HIDE DEF ids
  <2>4. /\ s' \in SchedRec(ids)
        /\ s'.partitions = s.partitions
        /\ s'.num_partitions = s.num_partitions
        /\ s'.current_partition = s.current_partition
        /\ s'.contexts = [s.contexts EXCEPT ![c] = [s.contexts[c] EXCEPT !.remaining = 0]]
    BY <1>1, <2>1, <2>2, <2>3 DEF SchedRec
  <2>5. TypeOK'
    BY <1>1, <2>1, <2>4 DEF TypeOK, ids
  <2>6. EmptyAbove' /\ Apart' /\ CurrentOwns'
    BY <2>1, <2>4, WindowsUnchanged
  <2>7. \A d \in Contexts : /\ s'.contexts[d].bound = s.contexts[d].bound
                            /\ s'.contexts[d].deadline = s.contexts[d].deadline
                            /\ s'.contexts[d].period = s.contexts[d].period
    BY <2>2, <2>4 DEF ContextRec
  <2>8. DeadlineCounts'
    BY <2>1, <2>7 DEF TimeInv, DeadlineCounts
  <2> QED BY <2>1, <2>5, <2>6, <2>8 DEF TimeInv
<1> QED BY <1>2, <1>3 DEF Pick, Toggle, vars

\* Every step preserves the invariant.
LEMMA TimeInvNext == TimeInv /\ [Next]_vars => TimeInv'
<1> SUFFICES ASSUME TimeInv, [Next]_vars PROVE TimeInv'
  OBVIOUS
<1>1. ASSUME NEW w \in Windows, PartitionCreate(w[1], w[2], w[3]) PROVE TimeInv'
  <2>1. w[1] \in Nat /\ w[2] \in Nat /\ w[3] \in Nat
    BY TimeAssumption
  <2> QED BY <1>1, <2>1, CreateStep
<1>2. ASSUME NEW b \in Bindings, ContextBind(b[1], b[2], b[3], b[4], b[5], b[6])
      PROVE  TimeInv'
  <2>1. /\ b[1] \in Nat /\ b[2] \in Threads /\ b[3] \in Nat
        /\ b[4] \in Nat /\ b[5] \in Nat /\ b[6] \in Nat
    BY TimeAssumption
  <2> QED BY <1>2, <2>1, BindStep, Zenon
<1>3. ASSUME NEW d \in Steps, Tick(d) PROVE TimeInv'
  <2>1. d \in Nat \ {0}
    BY TimeAssumption
  <2> QED BY <1>3, <2>1, TickStep
<1> QED BY <1>1, <1>2, <1>3, OtherSteps DEF Next

-----------------------------------------------------------------------------

\* The invariant holds in every reachable state.
THEOREM TimeInvariant == Spec => []TimeInv
BY TimeInvInit, TimeInvNext, PTL DEF Spec

\* The scheduler state is well-typed: the ids, windows, budgets and deadlines
\* that sched.c stores are in range whatever is asked for.
THEOREM TimeTypes == Spec => []TypeOK
<1>1. TimeInv => TypeOK
  BY DEF TimeInv
<1> QED BY <1>1, TimeInvariant, PTL

\* No instant belongs to two partitions, and sched_tick finds every active one,
\* for every order in which sched_partition_create is called.
THEOREM WindowsStayDisjoint == Spec => []WindowsDisjoint
<1>1. ASSUME TimeInv PROVE WindowsDisjoint
  <2>1. /\ \A p \in Partitions : s.partitions[p] \in PartitionRec /\ p \in Nat
        /\ s.num_partitions \in Nat
    BY <1>1, SchedAssumption DEF TimeInv, TypeOK, SchedRec, Partitions
  <2>2. ASSUME NEW x \in 0 .. (MajorFrame - 1)
        PROVE  Cardinality({p \in Partitions : InWindow(s, p, x)}) <= 1
    <3>1. ASSUME NEW p \in Partitions, NEW q \in Partitions,
                 InWindow(s, p, x), InWindow(s, q, x)
          PROVE  p = q
      <4>1. x \in Int
        OBVIOUS
      <4> QED BY <1>1, <2>1, <3>1, <4>1
              DEF TimeInv, Apart, WindowEnd, InWindow, PartitionRec
    <3> DEFINE S == {p \in Partitions : InWindow(s, p, x)}
    <3>2. \A p, q \in S : p = q
      BY <3>1
    <3> HIDE DEF S
    <3>3. Cardinality(S) <= 1
      BY <3>2, AtMostOne
    <3> QED BY <3>3 DEF S
  <2>3. \A p \in Partitions : s.partitions[p].active => p < s.num_partitions
    BY <1>1, <2>1 DEF TimeInv, EmptyAbove
  <2> QED BY <2>2, <2>3 DEF WindowsDisjoint
<1> QED BY <1>1, TimeInvariant, PTL

\* k replenishments of sched_tick take k periods, for all ticks.
THEOREM FillsStayBounded == Spec => []FillsBounded
<1>1. TimeInv => FillsBounded
  BY DEF TimeInv, DeadlineCounts, FillsBounded
<1> QED BY <1>1, TimeInvariant, PTL

\* sched_pick_next gives an instant of a partition to no thread of another.
THEOREM PicksRespectWindows == Spec => PickRespectsWindow
<1> DEFINE A == Pick /\ started /\ picked' # Idle =>
                  \A p \in Partitions : InWindow(s, p, now % MajorFrame) =>
                    \E c \in PickedContexts : s.contexts[c].partition_id = p
<1>1. TimeInv /\ [Next]_vars => [A]_vars
  <2> SUFFICES ASSUME TimeInv, Pick, started, picked' # Idle,
                      NEW p \in Partitions, InWindow(s, p, now % MajorFrame)
               PROVE  \E c \in PickedContexts : s.contexts[c].partition_id = p
    OBVIOUS
  <2>1. s \in SchedRec(Threads \cup {0}) /\ picked' = sched_pick_next(s, runnable)
    BY DEF TimeInv, TypeOK, Pick
  <2>2. PICK c \in Contexts : Eligible(s, c, runnable) /\ picked' = s.contexts[c].tcb_id
    BY <2>1, PickEligible
  <2>3. s.current_partition = p
    BY DEF TimeInv, CurrentOwns
  <2> QED BY <2>2, <2>3 DEF Eligible, PickedContexts
<1>2. PickRespectsWindow <=> [][A]_vars
  BY DEF PickRespectsWindow
<1> HIDE DEF A
<1> QED BY <1>1, <1>2, TimeInvariant, PTL DEF Spec

-----------------------------------------------------------------------------
\* The scheduling server.

\* A share is a natural number.
LEMMA ShareType ==
  ASSUME NEW t \in TaskRec
  PROVE  Share(t) \in Nat
<1>1. t.budget * 100 \in Nat /\ t.period \in Nat \ {0}
  BY DEF TaskRec
<1> QED BY <1>1 DEF Share

\* The tasks of S in partition p that the kernel binds a context for.
Bound(S, p) == {i \in 1 .. Len(S) : S[i].partition = p /\ Bindable(S[i])}

\* A task that can be bound is bound to its context.
LEMMA KernelBinds ==
  ASSUME NEW S, NEW c \in Contexts
  PROVE  LET k == KernelWith(S).contexts[c]
         IN  IF c < Len(S) /\ Bindable(S[c + 1])
               THEN /\ k.bound
                    /\ k.partition_id = S[c + 1].partition
                    /\ k.budget = S[c + 1].budget
                    /\ k.period = S[c + 1].period
               ELSE ~k.bound
<1> DEFINE new(t) == [bound |-> TRUE, tcb_id |-> c, partition_id |-> t.partition,
                      budget |-> t.budget, period |-> t.period, remaining |-> t.budget,
                      deadline |-> t.period, priority |-> 0]
           F == [d \in Contexts |->
                   IF d < Len(S) /\ Bindable(S[d + 1])
                     THEN LET t == S[d + 1]
                          IN  sched_context_bind(Booted, d, d, t.partition, t.budget, t.period, 0).contexts[d]
                     ELSE Booted.contexts[d]]
<1>1. /\ Booted \in SchedRec(Nat) /\ ~Booted.contexts[c].bound
  BY SchedServerAssumption, Zenon
<1>2. KernelWith(S).contexts = F
  BY <1>1, Zenon DEF KernelWith, SchedRec
<1>3. F[c] = IF c < Len(S) /\ Bindable(S[c + 1])
               THEN sched_context_bind(Booted, c, c, S[c + 1].partition, S[c + 1].budget,
                                       S[c + 1].period, 0).contexts[c]
               ELSE Booted.contexts[c]
  BY Zenon
<1> HIDE DEF F
<1>4. ASSUME NEW t
      PROVE  sched_context_bind(Booted, c, c, t.partition, t.budget, t.period, 0).contexts[c]
               = new(t)
  BY <1>1, Zenon DEF sched_context_bind, SchedRec
<1>5. CASE c < Len(S) /\ Bindable(S[c + 1])
  <2>1. KernelWith(S).contexts[c] = new(S[c + 1])
    BY <1>2, <1>3, <1>4, <1>5, Zenon
  <2>2. /\ new(S[c + 1]).bound /\ new(S[c + 1]).partition_id = S[c + 1].partition
        /\ new(S[c + 1]).budget = S[c + 1].budget /\ new(S[c + 1]).period = S[c + 1].period
    BY Zenon
  <2> HIDE DEF new
  <2> QED BY <1>5, <2>1, <2>2, Zenon
<1>6. CASE ~(c < Len(S) /\ Bindable(S[c + 1]))
  BY <1>1, <1>2, <1>3, <1>6, Zenon
<1> QED BY <1>5, <1>6

\* The task at index i of the server is the context i - 1 of the kernel, if it can be
\* bound, so the kernel's sum is over some of the summands of the server's.
LEMMA SharesShifted ==
  ASSUME NEW S \in Seq(TaskRec), Len(S) <= MaxContexts, NEW p
  PROVE  /\ Utilisation(KernelWith(S), p) <= SharesIn(S, p)
         /\ Utilisation(KernelWith(S), p) \in Nat /\ SharesIn(S, p) \in Nat
         /\ (\A i \in 1 .. Len(S) : Bindable(S[i])) =>
              Utilisation(KernelWith(S), p) = SharesIn(S, p)
<1> DEFINE k == KernelWith(S)
           C == {c \in Contexts : k.contexts[c].bound /\ k.contexts[c].partition_id = p}
           I == {i \in 1 .. Len(S) : S[i].partition = p}
           B == Bound(S, p)
           g == [c \in C |-> (k.contexts[c].budget * 100) \div k.contexts[c].period]
           f == [i \in I |-> Share(S[i])]
           h == [i \in I |-> i - 1]
<1>0. Len(S) \in Nat /\ MaxContexts \in Nat /\ \A i \in 1 .. Len(S) : S[i] \in TaskRec
  BY SchedAssumption
<1>1. ASSUME NEW c \in Contexts
      PROVE  IF c < Len(S) /\ Bindable(S[c + 1])
               THEN /\ k.contexts[c].bound
                    /\ k.contexts[c].partition_id = S[c + 1].partition
                    /\ k.contexts[c].budget = S[c + 1].budget
                    /\ k.contexts[c].period = S[c + 1].period
               ELSE ~k.contexts[c].bound
  BY KernelBinds, Zenon
<1>2. \A c \in Contexts : c \in Nat
  BY <1>0 DEF Contexts
<1>3. \A i \in 1 .. Len(S) : i - 1 \in Contexts /\ i - 1 < Len(S) /\ (i - 1) + 1 = i
  BY <1>0 DEF Contexts
<1>4. \A c \in Contexts : c < Len(S) => c + 1 \in 1 .. Len(S) /\ (c + 1) - 1 = c
  BY <1>0, <1>2
<1> HIDE DEF k
<1>b. B \subseteq I /\ ((\A i \in 1 .. Len(S) : Bindable(S[i])) => B = I)
  BY Zenon DEF Bound
<1>5. \A i \in B : h[i] \in C /\ g[h[i]] = f[i]
  BY <1>1, <1>3, ZenonT(60) DEF Share, Bound
<1>6. \A i \in I : f[i] \in Nat
  BY <1>0, ShareType
<1>7. \A i, j \in B : h[i] = h[j] => i = j
  BY <1>3, <1>b, ZenonT(60)
<1>8. \A c \in C : \E i \in B : h[i] = c
  <2> TAKE c \in C
  <2>1. c < Len(S) /\ c + 1 \in B
    BY <1>1, <1>4, Zenon DEF Bound
  <2>2. h[c + 1] = c
    BY <1>4, <1>b, <2>1
  <2> QED BY <2>1, <2>2
<1>9. IsFiniteSet(I)
  <2>1. IsFiniteSet(1 .. Len(S)) /\ I \subseteq 1 .. Len(S)
    BY <1>0, FS_Interval
  <2> QED BY <2>1, FS_Subset
<1>10. Utilisation(k, p) = SumFunctionOnSet(g, C) /\ SharesIn(S, p) = SumFunctionOnSet(f, I)
  BY Zenon DEF Utilisation, SharesIn, SumFunction
<1> HIDE DEF C, I, B, g, f, h
<1>11. IsFiniteSet(B) /\ \A i \in B : f[i] \in Nat
  BY <1>6, <1>9, <1>b, FS_Subset, Zenon
<1>12. SumFunctionOnSet(f, B) = SumFunctionOnSet(g, C)
  BY <1>5, <1>7, <1>8, <1>11, SumRenamed, SMTT(60)
<1>13. /\ SumFunctionOnSet(f, B) <= SumFunctionOnSet(f, I)
       /\ SumFunctionOnSet(f, B) \in Nat /\ SumFunctionOnSet(f, I) \in Nat
  BY <1>6, <1>9, <1>11, <1>b, SumSubset, SumType, Zenon
<1> QED BY <1>10, <1>12, <1>13, <1>b, Zenon DEF k

\* A task adds its share to its own partition and to no other.
LEMMA SharesAppended ==
  ASSUME NEW S \in Seq(TaskRec), NEW t \in TaskRec, NEW p
  PROVE  /\ SharesIn(S, p) \in Nat
         /\ t.partition # p => SharesIn(Append(S, t), p) = SharesIn(S, p)
         /\ t.partition = p => SharesIn(Append(S, t), p) = Share(t) + SharesIn(S, p)
<1> DEFINE n == Len(S) + 1
           A == Append(S, t)
           I == {i \in 1 .. Len(S) : S[i].partition = p}
           J == {i \in 1 .. Len(A) : A[i].partition = p}
           f == [i \in I |-> Share(S[i])]
           g == [i \in J |-> Share(A[i])]
<1>0. /\ Len(S) \in Nat /\ Len(A) = n /\ A[n] = t /\ n \notin 1 .. Len(S)
      /\ \A i \in 1 .. Len(S) : A[i] = S[i] /\ S[i] \in TaskRec
      /\ 1 .. n = (1 .. Len(S)) \cup {n}
  OBVIOUS
<1>1. SharesIn(S, p) = SumFunctionOnSet(f, I) /\ SharesIn(A, p) = SumFunctionOnSet(g, J)
  BY Zenon DEF SharesIn, SumFunction
<1>2. IsFiniteSet(I)
  <2>1. IsFiniteSet(1 .. Len(S)) /\ I \subseteq 1 .. Len(S)
    BY <1>0, FS_Interval
  <2> QED BY <2>1, FS_Subset
<1>3. \A i \in I : f[i] \in Nat
  BY <1>0, ShareType
<1>4. I \subseteq J /\ \A i \in I : g[i] = f[i]
  BY <1>0
<1>5. SumFunctionOnSet(f, I) \in Nat
  <2> HIDE DEF I, f
  <2> QED BY <1>2, <1>3, SumType
<1>6. SumFunctionOnSet(g, I) = SumFunctionOnSet(f, I)
  <2> HIDE DEF I, J, f, g
  <2> QED BY <1>2, <1>4, SumAgree
<1>7. CASE t.partition # p
  <2>1. J = I
    BY <1>0, <1>7, Zenon
  <2> HIDE DEF I, J, f, g
  <2> QED BY <1>1, <1>5, <1>6, <1>7, <2>1
<1>8. CASE t.partition = p
  <2>1. J = I \cup {n} /\ n \in J /\ J \ {n} = I /\ g[n] = Share(t)
    BY <1>0, <1>8
  <2>2. IsFiniteSet(J)
    <3> HIDE DEF I, J
    <3> QED BY <1>2, <2>1, FS_AddElement, SMTT(60)
  <2>3. \A i \in J : g[i] \in Nat
    BY <1>3, <1>4, <2>1, ShareType, Zenon
  <2> HIDE DEF I, J, f, g
  <2>4. SumFunctionOnSet(g, J) = g[n] + SumFunctionOnSet(g, J \ {n})
    BY <2>1, <2>2, <2>3, SumRemove
  <2> QED BY <1>1, <1>5, <1>6, <1>8, <2>1, <2>4, Zenon
<1> QED BY <1>7, <1>8

\* No partition has been promised more than 99 percent, not even one that the
\* kernel does not have.
AdmittedInv ==
  /\ tasks \in Seq(TaskRec)
  /\ Len(tasks) <= MaxTasks
  /\ \A p \in Nat : SharesIn(tasks, p) <= 99

\* An admission keeps every partition below its limit.
LEMMA AdmissionStep == AdmittedInv /\ [SNext]_tasks => AdmittedInv'
<1> SUFFICES ASSUME AdmittedInv, [SNext]_tasks PROVE AdmittedInv'
  OBVIOUS
<1>1. CASE UNCHANGED tasks
  BY <1>1 DEF AdmittedInv
<1>2. ASSUME NEW t \in TaskCfgs, sched_admit(t) PROVE AdmittedInv'
  <2>1. t \in TaskRec /\ MaxTasks \in Nat
    BY SchedServerAssumption
  <2>2. /\ tasks \in Seq(TaskRec) /\ tasks' = Append(tasks, t)
        /\ Len(tasks) < MaxTasks /\ SharesIn(tasks', t.partition) <= 99
    BY <1>2 DEF AdmittedInv, sched_admit, is_schedulable_for_partition
  <2>3. tasks' \in Seq(TaskRec) /\ Len(tasks') = Len(tasks) + 1 /\ Len(tasks) \in Nat
    BY <2>1, <2>2
  <2>4. \A p \in Nat : SharesIn(tasks', p) <= 99
    BY <2>1, <2>2, SharesAppended, Zenon DEF AdmittedInv
  <2> QED BY <2>1, <2>2, <2>3, <2>4 DEF AdmittedInv
<1> QED BY <1>1, <1>2 DEF SNext

\* Under the invariant both tests come down to the partition of the new task.
LEMMA TestsAgree == AdmittedInv => AgreesWithKernel
<1> SUFFICES ASSUME AdmittedInv PROVE AgreesWithKernel
  OBVIOUS
<1>0. MaxTasks \in Nat /\ MaxTasks <= MaxContexts /\ MaxPartitions \in Nat /\ MaxContexts \in Nat
  BY SchedServerAssumption, SchedAssumption
<1>n. Booted.num_partitions \in 0 .. MaxPartitions
  BY SchedServerAssumption, Zenon DEF SchedRec
<1>1. /\ \A p \in Partitions : p \in Nat
      /\ \A p \in 0 .. (Booted.num_partitions - 1) : p \in Partitions
  BY <1>0, <1>n DEF Partitions
<1>2. \A S : KernelWith(S).num_partitions = Booted.num_partitions
  BY SchedServerAssumption, Zenon DEF KernelWith, SchedRec
<1>4. tasks \in Seq(TaskRec) /\ Len(tasks) \in Nat /\ Len(tasks) <= MaxContexts
  BY <1>0 DEF AdmittedInv
<1>5. sched_is_admissible /\ sched_is_schedulable(KernelWith(tasks))
  <2>1. sched_is_admissible
    BY <1>1, Zenon DEF AdmittedInv, sched_is_admissible
  <2> SUFFICES ASSUME NEW p \in 0 .. (Booted.num_partitions - 1)
               PROVE  Utilisation(KernelWith(tasks), p) <= 99
    BY <1>2, <2>1, Zenon DEF sched_is_schedulable
  <2>2. SharesIn(tasks, p) <= 99
    BY <1>1, Zenon DEF AdmittedInv
  <2>3. /\ Utilisation(KernelWith(tasks), p) <= SharesIn(tasks, p)
        /\ Utilisation(KernelWith(tasks), p) \in Nat /\ SharesIn(tasks, p) \in Nat
    BY <1>4, SharesShifted, Zenon
  <2> QED BY <2>2, <2>3, SMTT(60)
<1>6. ASSUME NEW t \in TaskCfgs, Len(tasks) < MaxTasks, Bindable(t),
             \A i \in 1 .. Len(tasks) : Bindable(tasks[i])
      PROVE  is_schedulable_for_partition(t.partition, t)
               <=> sched_is_schedulable(KernelWith(Append(tasks, t)))
  <2> DEFINE A == Append(tasks, t)
             q == t.partition
  <2>1. t \in TaskRec
    BY SchedServerAssumption
  <2>2. A \in Seq(TaskRec) /\ Len(A) <= MaxContexts
    BY <1>0, <1>4, <1>6, <2>1, SMTT(60)
  <2>3. \A p \in Partitions : p # q => SharesIn(A, p) <= 99
    BY <1>1, <1>4, <2>1, SharesAppended, SMTT(60) DEF AdmittedInv
  <2>4. \A i \in 1 .. Len(A) : Bindable(A[i])
    <3>1. /\ Len(A) = Len(tasks) + 1 /\ A[Len(A)] = t
          /\ \A i \in 1 .. Len(tasks) : A[i] = tasks[i]
          /\ \A i \in 1 .. Len(A) : i = Len(A) \/ i \in 1 .. Len(tasks)
      BY <1>4, <2>1
    <3> HIDE DEF A
    <3> QED BY <1>6, <3>1, Zenon
  <2>5. q \in 0 .. (Booted.num_partitions - 1)
    <3>1. q \in Partitions /\ Booted.partitions[q].active
      BY <1>6, Zenon DEF Bindable, CanBind
    <3>2. q < Booted.num_partitions
      BY <3>1, SchedServerAssumption, Zenon
    <3> HIDE DEF q
    <3> QED BY <1>0, <1>n, <3>1, <3>2 DEF Partitions
  <2> HIDE DEF A
  <2>6. \A p : Utilisation(KernelWith(A), p) = SharesIn(A, p)
    BY <2>2, <2>4, SharesShifted, Zenon
  <2>7. sched_is_schedulable(KernelWith(A)) <=> SharesIn(A, q) <= 99
    BY <1>1, <1>2, <2>3, <2>5, <2>6, Zenon DEF sched_is_schedulable
  <2> QED BY <2>7 DEF A, is_schedulable_for_partition
<1> QED BY <1>5, <1>6, Zenon DEF AgreesWithKernel

\* The server promises no more than the kernel's test allows, and decides like the
\* kernel on tasks that can be bound: for any number of tasks, partitions and
\* contexts and any tasks that clients ask for.
THEOREM ServerAgrees == SSpec => []AgreesWithKernel
<1>1. SInit => AdmittedInv
  <2> SUFFICES ASSUME SInit PROVE AdmittedInv
    OBVIOUS
  <2>1. tasks = <<>> /\ Len(tasks) = 0 /\ tasks \in Seq(TaskRec) /\ 0 <= MaxTasks
    BY SchedServerAssumption DEF SInit
  <2>2. ASSUME NEW p PROVE SharesIn(tasks, p) = 0
    <3> DEFINE I == {i \in 1 .. Len(tasks) : tasks[i].partition = p}
               f == [i \in I |-> Share(tasks[i])]
    <3>1. I = {}
      BY <2>1
    <3>2. SharesIn(tasks, p) = SumFunctionOnSet(f, I)
      BY DEF SharesIn, SumFunction
    <3> HIDE DEF f, I
    <3> QED BY <3>1, <3>2, SumEmpty
  <2> QED BY <2>1, <2>2 DEF AdmittedInv
<1> QED BY <1>1, AdmissionStep, TestsAgree, PTL DEF SSpec

(***************************************************************************)
(* The network driver and the IOMMU.                                       *)
(***************************************************************************)

\* The window lies within the capability of its device.
WithinCap(w) ==
  /\ Contains(IoCap[w.dev].base, IoCap[w.dev].size, w.base, w.size)
  /\ w.perms \subseteq IoCap[w.dev].rights

IommuInv(m) ==
  /\ m \in [windows : [Index -> WindowRec(Devices) \cup {NoWindow}], count : Int]
  /\ m.count = MaxWindows - Cardinality(FreeWindows(m))
  /\ \A i \in Index \ FreeWindows(m) : WithinCap(m.windows[i])

\* IommuInv, and a bound driver has a pool within its capability.
NetInv ==
  /\ IommuInv(iommu)
  /\ drv \in [iommu : BOOLEAN, base : Nat, len : Nat, bound : BOOLEAN]
  /\ drv.bound => drv.iommu /\ Contains(IoCap[Net].base, IoCap[Net].size, drv.base, drv.len)

\* The free entries can be counted.
LEMMA FreeIsFinite ==
  ASSUME NEW m
  PROVE  IsFiniteSet(FreeWindows(m)) /\ Cardinality(FreeWindows(m)) \in Nat
<1> DEFINE T == FreeWindows(m)
<1>1. T \in SUBSET (0 .. (MaxWindows - 1)) /\ MaxWindows \in Nat
  BY IommuAssumption DEF FreeWindows, Index
<1> HIDE DEF T
<1>2. IsFiniteSet(T) /\ Cardinality(T) \in 0 .. MaxWindows
  BY <1>1, BelowIsFinite
<1> QED BY <1>1, <1>2 DEF T

\* iommu_map puts a window that its capability allows into a free entry.
LEMMA MapKeepsIommu ==
  ASSUME NEW m, IommuInv(m), NEW dev \in Devices, NEW p \in Nat, NEW n \in Nat,
         NEW perms \in SUBSET Perms, CanMap(m, IoCap[dev], p, n, perms)
  PROVE  LET r == iommu_map(m, dev, p, n, perms)
         IN  /\ IommuInv(r)
             /\ \A i \in Index \ FreeWindows(m) : r.windows[i] = m.windows[i]
<1> DEFINE x == Min(FreeWindows(m))
           w == [dev |-> dev, base |-> p, size |-> n, perms |-> perms]
           r == iommu_map(m, dev, p, n, perms)
<1>0. Index \in SUBSET Nat
  BY IommuAssumption DEF Index
<1>1. x \in FreeWindows(m)
  <2>1. FreeWindows(m) \in SUBSET Nat /\ FreeWindows(m) # {}
    BY <1>0, Zenon DEF FreeWindows, CanMap
  <2> QED BY <2>1, MinIsMember
<1>2. x \in Index /\ w \in WindowRec(Devices) /\ w # NoWindow
  <2>1. x \in Index
    BY <1>1, Zenon DEF FreeWindows
  <2>2. w \in WindowRec(Devices)
    BY Zenon DEF WindowRec
  <2>3. w # NoWindow
    BY <2>2, NetAssumption DEF Devices
  <2> QED BY <2>1, <2>2, <2>3, Zenon
<1> HIDE DEF x, w
<1>3. r = [m EXCEPT !.windows[x] = w, !.count = @ + 1]
  BY DEF iommu_map, x, w
<1>4. m \in [windows : [Index -> WindowRec(Devices) \cup {NoWindow}], count : Int]
  BY DEF IommuInv
<1> HIDE DEF r
<1>5. /\ r \in [windows : [Index -> WindowRec(Devices) \cup {NoWindow}], count : Int]
      /\ r.windows = [m.windows EXCEPT ![x] = w]
      /\ r.count = m.count + 1
  <2> DEFINE v == [m.windows EXCEPT ![x] = w]
  <2>1. v \in [Index -> WindowRec(Devices) \cup {NoWindow}]
    BY <1>2, <1>4
  <2>2. r = [m EXCEPT !.windows = v, !.count = @ + 1]
    BY <1>3, <1>4
  <2> HIDE DEF v
  <2>3. r = [windows |-> v, count |-> m.count + 1]
    BY <1>4, <2>2, Zenon
  <2> QED BY <1>4, <2>1, <2>3 DEF v
<1>6. FreeWindows(r) = FreeWindows(m) \ {x}
  BY <1>2, <1>4, <1>5 DEF FreeWindows
<1>7. IsFiniteSet(FreeWindows(m)) /\ Cardinality(FreeWindows(m)) \in Nat
  BY FreeIsFinite
<1>8. Cardinality(FreeWindows(r)) = Cardinality(FreeWindows(m)) - 1
  BY <1>1, <1>6, <1>7, FS_RemoveElement, ZenonT(60)
<1>9. r.count = MaxWindows - Cardinality(FreeWindows(r))
  BY <1>5, <1>7, <1>8, IommuAssumption DEF IommuInv
<1>10. WithinCap(w)
  BY Zenon DEF WithinCap, w, CanMap
<1>11. \A i \in Index \ FreeWindows(r) : r.windows[i] = IF i = x THEN w ELSE m.windows[i]
  BY <1>2, <1>4, <1>5
<1>12. \A i \in Index \ FreeWindows(r) : WithinCap(r.windows[i])
  BY <1>6, <1>10, <1>11, Zenon DEF IommuInv
<1>13. \A i \in Index \ FreeWindows(m) : r.windows[i] = m.windows[i]
  BY <1>1, <1>6, <1>11
<1> QED BY <1>5, <1>9, <1>12, <1>13, Zenon DEF IommuInv, r

\* iommu_unmap takes at most one window away, and only one of the device.
LEMMA UnmapKeepsIommu ==
  ASSUME NEW m, IommuInv(m), NEW dev, NEW p
  PROVE  LET r == iommu_unmap(m, dev, p)
         IN  /\ IommuInv(r)
             /\ \A i \in Index \ FreeWindows(m) :
                  m.windows[i].dev # dev => r.windows[i] = m.windows[i]
<1> DEFINE r == iommu_unmap(m, dev, p)
           x == Min(WindowsAt(m, dev, p))
<1>1. CASE WindowsAt(m, dev, p) = {}
  BY <1>1 DEF iommu_unmap
<1>2. CASE WindowsAt(m, dev, p) # {}
  <2>0. Index \in SUBSET Nat
    BY IommuAssumption DEF Index
  <2>1. x \in WindowsAt(m, dev, p)
    <3>1. WindowsAt(m, dev, p) \in SUBSET Nat
      BY <2>0, Zenon DEF WindowsAt
    <3> QED BY <1>2, <3>1, MinIsMember
  <2>2. x \in Index /\ x \notin FreeWindows(m) /\ m.windows[x].dev = dev
    BY <2>1, Zenon DEF WindowsAt
  <2>3. r = [m EXCEPT !.windows[x] = NoWindow, !.count = @ - 1]
    BY <1>2 DEF iommu_unmap
  <2>4. m \in [windows : [Index -> WindowRec(Devices) \cup {NoWindow}], count : Int]
    BY DEF IommuInv
  <2> HIDE DEF r, x
  <2>5. /\ r \in [windows : [Index -> WindowRec(Devices) \cup {NoWindow}], count : Int]
        /\ r.windows = [m.windows EXCEPT ![x] = NoWindow]
        /\ r.count = m.count - 1
    <3> DEFINE v == [m.windows EXCEPT ![x] = NoWindow]
    <3>1. v \in [Index -> WindowRec(Devices) \cup {NoWindow}]
      BY <2>2, <2>4
    <3>2. r = [m EXCEPT !.windows = v, !.count = @ - 1]
      BY <2>3, <2>4
    <3> HIDE DEF v
    <3>3. r = [windows |-> v, count |-> m.count - 1]
      BY <2>4, <3>2, Zenon
    <3> QED BY <2>4, <3>1, <3>3 DEF v
  <2>6. FreeWindows(r) = FreeWindows(m) \cup {x}
    BY <2>2, <2>4, <2>5 DEF FreeWindows
  <2>7. IsFiniteSet(FreeWindows(m)) /\ Cardinality(FreeWindows(m)) \in Nat
    BY FreeIsFinite
  <2>8. Cardinality(FreeWindows(r)) = Cardinality(FreeWindows(m)) + 1
    BY <2>2, <2>6, <2>7, FS_AddElement, Zenon
  <2>9. r.count = MaxWindows - Cardinality(FreeWindows(r))
    BY <2>5, <2>7, <2>8, IommuAssumption DEF IommuInv
  <2>10. \A i \in Index \ FreeWindows(r) : r.windows[i] = m.windows[i]
    BY <2>4, <2>5, <2>6, SMTT(60)
  <2>11. \A i \in Index \ FreeWindows(r) : WithinCap(r.windows[i])
    BY <2>6, <2>10, Zenon DEF IommuInv
  <2>12. \A i \in Index \ FreeWindows(m) : m.windows[i].dev # dev => r.windows[i] = m.windows[i]
    BY <2>2, <2>4, <2>5
  <2> QED BY <2>5, <2>9, <2>11, <2>12, Zenon DEF IommuInv, r
<1> QED BY <1>1, <1>2

\* At first no window is in use.
LEMMA NetInvInit == NInit => NetInv
<1> SUFFICES ASSUME NInit PROVE NetInv
  OBVIOUS
<1>1. iommu = [windows |-> [i \in Index |-> NoWindow], count |-> 0]
  BY DEF NInit, iommu_zero
<1>2. FreeWindows(iommu) = 0 .. (MaxWindows - 1)
  BY <1>1 DEF FreeWindows, Index
<1>3. Cardinality(FreeWindows(iommu)) = MaxWindows
  BY <1>2, FS_Interval, IommuAssumption
<1>4. IommuInv(iommu)
  BY <1>1, <1>2, <1>3, IommuAssumption, SMTT(60) DEF IommuInv, Index
<1> QED BY <1>4 DEF NetInv, NInit, DriverZero

\* A step keeps the invariant, and a step of the driver keeps the windows of
\* the other devices.
LEMMA NetStep ==
  ASSUME NetInv, NNext
  PROVE  /\ NetInv'
         /\ DriverStep => \A i \in Index \ FreeWindows(iommu) :
                            iommu.windows[i].dev # Net => iommu'.windows[i] = iommu.windows[i]
<1> DEFINE Kept == \A i \in Index \ FreeWindows(iommu) :
                     iommu.windows[i].dev # Net => iommu'.windows[i] = iommu.windows[i]
<1>0. IommuInv(iommu) /\ Net \in Devices /\ \A dev \in Others : dev \in Devices
  BY NetAssumption DEF NetInv, Devices
<1>map. ASSUME NEW dev \in Devices, NEW p \in Nat, NEW n \in Nat, NEW perms \in SUBSET Perms,
               CanMap(iommu, IoCap[dev], p, n, perms), iommu' = iommu_map(iommu, dev, p, n, perms)
        PROVE  IommuInv(iommu') /\ Kept
  <2> DEFINE r == iommu_map(iommu, dev, p, n, perms)
  <2>1. IommuInv(r) /\ \A i \in Index \ FreeWindows(iommu) : r.windows[i] = iommu.windows[i]
    BY <1>0, <1>map, MapKeepsIommu
  <2>2. iommu' = r
    BY <1>map, Zenon
  <2> HIDE DEF r
  <2> QED BY <2>1, <2>2, Zenon
<1>unmap. ASSUME NEW dev, NEW p, iommu' = iommu_unmap(iommu, dev, p)
          PROVE  IommuInv(iommu') /\ (dev = Net => Kept)
  <2> DEFINE r == iommu_unmap(iommu, dev, p)
  <2>1. /\ IommuInv(r)
        /\ \A i \in Index \ FreeWindows(iommu) : iommu.windows[i].dev # dev => r.windows[i] = iommu.windows[i]
    BY <1>0, UnmapKeepsIommu
  <2>2. iommu' = r
    BY <1>unmap, Zenon
  <2> HIDE DEF r
  <2> QED BY <2>1, <2>2, Zenon
<1>1. ASSUME NEW b \in Pools, SetIommu(b[1], b[2])
      PROVE  NetInv' /\ Kept
  <2>1. b[1] \in Nat /\ b[2] \in Nat /\ Perms \in SUBSET Perms
    BY NetAssumption, SMTT(60)
  <2>2. CASE CanMap(iommu, IoCap[Net], b[1], b[2], Perms)
    <3>1. iommu' = iommu_map(iommu, Net, b[1], b[2], Perms)
      BY <1>1, <2>2, Zenon DEF SetIommu
    <3>2. IommuInv(iommu') /\ Kept
      BY <1>0, <1>map, <2>1, <2>2, <3>1, Zenon
    <3>3. drv' = [iommu |-> TRUE, base |-> b[1], len |-> b[2], bound |-> TRUE]
      BY <1>1, <2>2, Zenon DEF SetIommu
    <3>4. Contains(IoCap[Net].base, IoCap[Net].size, b[1], b[2])
      BY <2>2, SMTT(60) DEF CanMap
    <3> QED BY <2>1, <3>2, <3>3, <3>4, Zenon DEF NetInv
  <2>3. CASE ~CanMap(iommu, IoCap[Net], b[1], b[2], Perms)
    <3>1. iommu' = iommu /\ drv' = [iommu |-> TRUE, base |-> b[1], len |-> b[2], bound |-> FALSE]
      BY <1>1, <2>3, ZenonT(60) DEF SetIommu, CanMap
    <3>2. IommuInv(iommu')
      BY <1>0, <3>1, Zenon
    <3> QED BY <2>1, <3>1, <3>2, Zenon DEF NetInv
  <2> QED BY <2>2, <2>3, Zenon
<1>2. ASSUME NEW p \in Pages, NEW n \in BufSizes, NEW perms \in SUBSET Perms, DmaMap(p, n, perms)
      PROVE  NetInv' /\ Kept
  <2>1. p \in Nat /\ n \in Nat
    BY NetAssumption
  <2>2. IommuInv(iommu') /\ Kept
    BY <1>0, <1>2, <1>map, <2>1, Zenon DEF DmaMap
  <2> QED BY <1>2, <2>2, Zenon DEF NetInv, DmaMap
<1>3. ASSUME NEW p \in Pages, DmaUnmap(p)
      PROVE  NetInv' /\ Kept
  <2>1. IommuInv(iommu') /\ Kept
    BY <1>0, <1>3, <1>unmap, Zenon DEF DmaUnmap
  <2> QED BY <1>3, <2>1 DEF NetInv, DmaUnmap
<1>4. ASSUME Reboot
      PROVE  NetInv' /\ Kept
  <2>1. CASE drv.iommu /\ drv.bound
    <3>1. iommu' = iommu_unmap(iommu, Net, drv.base)
      BY <1>4, <2>1 DEF Reboot
    <3>2. IommuInv(iommu') /\ Kept
      BY <1>0, <1>unmap, <3>1, Zenon
    <3> QED BY <1>4, <3>2 DEF NetInv, Reboot, DriverZero
  <2>2. CASE ~(drv.iommu /\ drv.bound)
    <3>1. iommu' = iommu
      BY <1>4, <2>2 DEF Reboot
    <3>2. IommuInv(iommu')
      BY <1>0, <3>1, Zenon
    <3> QED BY <1>4, <3>1, <3>2 DEF NetInv, Reboot, DriverZero
  <2> QED BY <2>1, <2>2
<1>5. ASSUME NEW dev \in Others, NEW p \in Pages, NEW n \in BufSizes, NEW perms \in SUBSET Perms,
             OtherMap(dev, p, n, perms)
      PROVE  NetInv'
  <2>1. p \in Nat /\ n \in Nat
    BY NetAssumption
  <2>2. IommuInv(iommu')
    BY <1>0, <1>5, <1>map, <2>1, Zenon DEF OtherMap
  <2> QED BY <1>5, <2>2 DEF NetInv, OtherMap
<1>6. ASSUME NEW dev \in Others, NEW p \in Pages, OtherUnmap(dev, p)
      PROVE  NetInv'
  <2>1. IommuInv(iommu')
    BY <1>6, <1>unmap, Zenon DEF OtherUnmap
  <2> QED BY <1>6, <2>1 DEF NetInv, OtherUnmap
<1>7. ASSUME DriverStep PROVE NetInv' /\ Kept
  BY <1>1, <1>2, <1>3, <1>4, <1>7, Zenon DEF DriverStep
<1> QED BY <1>5, <1>6, <1>7, Zenon DEF NNext

\* Every access that iommu_check lets through is within the capability.
LEMMA InvConfines == NetInv => DmaConfined
<1> SUFFICES ASSUME NetInv PROVE DmaConfined
  OBVIOUS
<1>1. ASSUME NEW dev \in Devices, NEW p \in Pages, NEW perm \in Perms,
             iommu_check(iommu, dev, p, perm)
      PROVE  Contains(IoCap[dev].base, IoCap[dev].size, p, 1) /\ perm \in IoCap[dev].rights
  <2> DEFINE holding == {i \in Index \ FreeWindows(iommu) :
                           /\ iommu.windows[i].dev = dev
                           /\ Contains(iommu.windows[i].base, iommu.windows[i].size, p, 1)}
             x == Min(holding)
             w == iommu.windows[x]
  <2>1. holding # {} /\ perm \in w.perms
    BY <1>1, Zenon DEF iommu_check
  <2>2. x \in holding
    <3>1. holding \in SUBSET Nat
      BY IommuAssumption DEF Index
    <3> QED BY <2>1, <3>1, MinIsMember, Zenon
  <2>3. w.dev = dev /\ Contains(w.base, w.size, p, 1) /\ WithinCap(w) /\ w \in WindowRec(Devices)
    BY <2>2, Zenon DEF NetInv, IommuInv, FreeWindows
  <2> HIDE DEF w
  <2>4. p \in Nat /\ IoCap[dev].base \in Nat /\ IoCap[dev].size \in Nat
    BY NetAssumption
  <2>5. w.base \in Nat /\ w.size \in Nat
    BY <2>3 DEF WindowRec
  <2>6. Contains(IoCap[dev].base, IoCap[dev].size, p, 1)
    BY <2>3, <2>4, <2>5 DEF WithinCap, Contains
  <2> QED BY <2>1, <2>3, <2>6, Zenon DEF WithinCap
<1> QED BY <1>1, Zenon DEF DmaConfined, NetInv

\* The IOMMU table is well formed, counted and confined in every state.
THEOREM NetInvariant == NSpec => []NetInv
<1>1. NetInv /\ UNCHANGED nvars => NetInv'
  BY DEF NetInv, nvars, IommuInv, FreeWindows
<1>2. NetInv /\ [NNext]_nvars => NetInv'
  BY <1>1, NetStep
<1> QED BY NetInvInit, <1>2, PTL DEF NSpec

\* count is the number of windows in use.
THEOREM WindowsStayCounted == NSpec => []WindowsCounted
<1>1. NetInv => WindowsCounted
  BY DEF NetInv, IommuInv, WindowsCounted
<1> QED BY NetInvariant, <1>1, PTL

\* DMA stays within the IOMMU capability of the device.
THEOREM DmaStaysConfined == NSpec => []DmaConfined
<1> QED BY NetInvariant, InvConfines, PTL

\* The driver, its reboots included, leaves the windows of the other devices alone.
THEOREM OthersStayUntouched == NSpec => OthersUntouched
<1>1. NetInv /\ [NNext]_nvars =>
        [ DriverStep => \A i \in Index \ FreeWindows(iommu) :
            iommu.windows[i].dev # Net => iommu'.windows[i] = iommu.windows[i] ]_nvars
  BY NetStep
<1> QED BY NetInvariant, <1>1, PTL DEF NSpec, OthersUntouched

(***************************************************************************)
(* The file server.                                                        *)
(***************************************************************************)

\* Files fill the table from the front, are empty and no longer than the
\* frame check lets through, and a descriptor is open under a name of the table.
VfsInv ==
  /\ files \in [Files -> FileRec \cup {NoFile}]
  /\ fds \in [Fds -> FdRec \cup {NoFd}]
  /\ DOMAIN asked = Fds
  /\ \A i \in Files \ FreeFiles : files[i].used = 0
  /\ \A i, j \in Files : i < j /\ files[j] # NoFile => files[i] # NoFile
  /\ \A d \in Fds \ FreeFds :
       /\ fds[d].offset = 0
       /\ fds[d].file_id \in Named(asked[d])
       /\ \A i \in Named(asked[d]) : fds[d].file_id <= i

\* What the property asks of a descriptor, from the first file of its name.
LEMMA VfsInvKeeps == VfsInv => DescriptorKeepsFile
<1> SUFFICES ASSUME VfsInv, NEW d \in Fds \ FreeFds
             PROVE  /\ Named(asked[d]) # {}
                    /\ fds[d].file_id = Min(Named(asked[d]))
                    /\ fds[d].offset <= files[fds[d].file_id].used
                    /\ files[fds[d].file_id].used <= files[fds[d].file_id].size
  BY Zenon DEF DescriptorKeepsFile
<1> DEFINE N == Named(asked[d])
           f == fds[d].file_id
<1>1. f \in N /\ fds[d].offset = 0 /\ (\A i \in N : f <= i)
  BY DEF VfsInv
<1>2. N \in SUBSET Nat /\ f \in Files \ FreeFiles
  <2>1. N \in SUBSET Files /\ f \in Files \ FreeFiles
    BY <1>1, Zenon DEF Named
  <2>2. Files \in SUBSET Nat
    BY VfsAssumption DEF Files
  <2> QED BY <2>1, <2>2, Zenon
<1>3. files[f].used = 0 /\ files[f].size \in Nat
  BY <1>2 DEF VfsInv, FreeFiles, FileRec
<1>4. Min(N) \in N /\ \A i \in N : Min(N) <= i
  <2> HIDE DEF N
  <2> QED BY <1>1, <1>2, MinIsMember
<1>5. f = Min(N)
  <2>1. f \in Nat /\ Min(N) \in Nat
    BY <1>1, <1>2, <1>4, Zenon
  <2>2. f <= Min(N) /\ Min(N) <= f
    BY <1>1, <1>4, Zenon
  <2> HIDE DEF f
  <2> QED BY <2>1, <2>2
<1>6. files[f].used <= files[f].size
  BY <1>3
<1>7. fds[d].offset <= files[f].used
  <2>1. fds[d].offset = 0 /\ files[f].used = 0
    BY <1>1, <1>3, Zenon
  <2>2. 0 <= 0
    OBVIOUS
  <2> QED BY <2>1, <2>2, Zenon
<1> QED BY <1>1, <1>5, <1>6, <1>7, Zenon

\* The invariant is about the two tables and the names asked for only.
LEMMA VfsInvStays ==
  ASSUME VfsInv, files' = files, fds' = fds, asked' = asked
  PROVE  VfsInv'
<1>1. FreeFiles' = FreeFiles /\ FreeFds' = FreeFds /\ \A n : Named(n)' = Named(n)
  BY Zenon DEF FreeFiles, FreeFds, Named
<1>2. \A d \in Fds \ FreeFds' :
        /\ fds'[d].offset = 0
        /\ fds'[d].file_id \in Named(asked'[d])
        /\ \A i \in Named(asked'[d]) : fds'[d].file_id <= i
  BY <1>1, Zenon DEF VfsInv
<1> QED BY <1>1, <1>2, Zenon DEF VfsInv

\* A descriptor keeps designating the first file of its name.
THEOREM DescriptorsKeepFiles == FSpec => []DescriptorKeepsFile
<1>1. FInit => VfsInv
  BY DEF FInit, VfsInv, FreeFiles, FreeFds
<1>2. ASSUME VfsInv, [FNext]_fvars PROVE VfsInv'
  <2>0. Files \in SUBSET Nat /\ Fds \in SUBSET Nat
    BY VfsAssumption DEF Files, Fds
  <2>1. CASE UNCHANGED fvars
    BY <1>2, <2>1, VfsInvStays, Zenon DEF fvars
  <2>2. ASSUME NEW name \in Names, NEW size \in FileSizes, vfs_create(name, size)
        PROVE  VfsInv'
    <3> DEFINE x == Min(FreeFiles)
               w == [name |-> name, size |-> size, used |-> 0]
    <3>1. x \in FreeFiles /\ \A i \in FreeFiles : x <= i
      <4>1. FreeFiles \in SUBSET Nat /\ FreeFiles # {}
        BY <2>0, <2>2, Zenon DEF FreeFiles, vfs_create
      <4> QED BY <4>1, MinIsMember
    <3>2. w \in FileRec /\ w # NoFile /\ w.used = 0
      BY VfsAssumption DEF FileRec
    <3>3. files' = [files EXCEPT ![x] = w] /\ fds' = fds /\ asked' = asked
      BY <2>2 DEF vfs_create
    <3> HIDE DEF x, w
    <3>4. files' \in [Files -> FileRec \cup {NoFile}] /\ x \in Files
      BY <1>2, <3>1, <3>2, <3>3 DEF VfsInv, FreeFiles
    <3>5. FreeFiles' = FreeFiles \ {x} /\ FreeFds' = FreeFds
      BY <1>2, <3>1, <3>2, <3>3, Zenon DEF VfsInv, FreeFiles, FreeFds
    <3>6. \A i \in Files : files'[i] = IF i = x THEN w ELSE files[i]
      BY <1>2, <3>3 DEF VfsInv
    <3>7. \A i \in Files \ FreeFiles' : files'[i].used = 0
      BY <1>2, <3>2, <3>5, <3>6 DEF VfsInv
    <3>8. \A i, j \in Files : i < j /\ files'[j] # NoFile => files'[i] # NoFile
      <4> SUFFICES ASSUME NEW i \in Files, NEW j \in Files, i < j, files'[j] # NoFile,
                          i # x, files[i] = NoFile
                   PROVE  FALSE
        BY <3>2, <3>6
      <4>1. j = x
        BY <1>2, <3>6, Zenon DEF VfsInv
      <4> QED BY <2>0, <3>1, <3>4, <4>1 DEF FreeFiles
    <3>9. \A i \in Files : files[i] # NoFile => i < x
      BY <1>2, <2>0, <3>1, <3>4 DEF VfsInv, FreeFiles
    <3>10. \A n : Named(n)' = Named(n) \/ Named(n)' = Named(n) \cup {x}
      BY <3>1, <3>5, <3>6, Zenon DEF Named, FreeFiles
    <3>11. \A n : \A i \in Named(n) : i \in Files /\ i < x
      BY <3>9 DEF Named, FreeFiles
    <3>12. ASSUME NEW d \in Fds \ FreeFds
           PROVE  /\ fds[d].offset = 0
                  /\ fds[d].file_id \in Named(asked[d])'
                  /\ \A i \in Named(asked[d])' : fds[d].file_id <= i
      <4>1. /\ fds[d].offset = 0
            /\ fds[d].file_id \in Named(asked[d])
            /\ \A i \in Named(asked[d]) : fds[d].file_id <= i
        BY <1>2 DEF VfsInv
      <4>2. Named(asked[d])' = Named(asked[d]) \/ Named(asked[d])' = Named(asked[d]) \cup {x}
        BY <3>3, <3>10
      <4>3. fds[d].file_id \in Nat /\ fds[d].file_id < x /\ x \in Nat
        BY <2>0, <3>4, <3>11, <4>1, Zenon
      <4> QED BY <4>1, <4>2, <4>3
    <3>13. \A d \in Fds \ FreeFds' :
             /\ fds'[d].offset = 0
             /\ fds'[d].file_id \in Named(asked[d])'
             /\ \A i \in Named(asked[d])' : fds'[d].file_id <= i
      BY <3>3, <3>5, <3>12, Zenon
    <3> QED BY <1>2, <3>3, <3>4, <3>7, <3>8, <3>13 DEF VfsInv
  <2>3. ASSUME NEW name \in Names, vfs_open(name) PROVE VfsInv'
    <3> DEFINE y == Min(FreeFds)
               f == FirstNamed(name)
               w == [file_id |-> f, offset |-> 0]
    <3>1. y \in FreeFds
      <4>1. FreeFds \in SUBSET Nat /\ FreeFds # {}
        BY <2>0, <2>3, Zenon DEF FreeFds, vfs_open
      <4> QED BY <4>1, MinIsMember
    <3>2. f \in Named(name) /\ f \in Nat /\ \A i \in Named(name) : f <= i
      <4>1. Named(name) \in SUBSET Nat /\ Named(name) # {}
        BY <2>0, <2>3, ZenonT(60) DEF Named, vfs_open
      <4> QED BY <4>1, MinIsMember DEF FirstNamed
    <3> HIDE DEF y, f
    <3>3. w \in FdRec /\ w # NoFd /\ w.offset = 0 /\ w.file_id = f
      BY <3>2, VfsAssumption DEF FdRec
    <3>4. /\ files' = files
          /\ fds' = [fds EXCEPT ![y] = w]
          /\ asked' = [asked EXCEPT ![y] = name]
      BY <2>3, SMTT(60) DEF vfs_open, y, f
    <3> HIDE DEF w
    <3>5. /\ fds' \in [Fds -> FdRec \cup {NoFd}]
          /\ DOMAIN asked' = Fds
          /\ y \in Fds
      BY <1>2, <3>1, <3>3, <3>4, Zenon DEF VfsInv, FreeFds
    <3>6. FreeFiles' = FreeFiles /\ FreeFds' = FreeFds \ {y} /\ \A n : Named(n)' = Named(n)
      BY <1>2, <3>1, <3>3, <3>4, Zenon DEF VfsInv, FreeFiles, FreeFds, Named
    <3>7. \A d \in Fds \ FreeFds' :
             /\ fds'[d].offset = 0
             /\ fds'[d].file_id \in Named(asked'[d])
             /\ \A i \in Named(asked'[d]) : fds'[d].file_id <= i
      <4> TAKE d \in Fds \ FreeFds'
      <4>1. CASE d = y
        <5>1. fds'[d] = w /\ asked'[d] = name
          BY <1>2, <3>4, <3>5, <4>1, Zenon DEF VfsInv
        <5> QED BY <3>2, <3>3, <5>1, ZenonT(60)
      <4>2. CASE d # y
        <5>1. fds'[d] = fds[d] /\ asked'[d] = asked[d] /\ d \notin FreeFds
          BY <1>2, <3>4, <3>6, <4>2, Zenon DEF VfsInv
        <5> QED BY <1>2, <5>1, Zenon DEF VfsInv
      <4> QED BY <4>1, <4>2, Zenon
    <3> QED BY <1>2, <3>4, <3>5, <3>6, <3>7, Zenon DEF VfsInv
  <2>4. ASSUME NEW d \in Fds, NEW len \in FileSizes, vfs_read(d, len) PROVE VfsInv'
    <3>1. d \in Fds \ FreeFds
      BY <2>4 DEF vfs_read, FreeFds
    <3>2. /\ fds[d].offset = 0
          /\ fds[d].file_id \in Files \ FreeFiles
      BY <1>2, <3>1, Zenon DEF VfsInv, Named
    <3>3. files[fds[d].file_id].used = 0
      BY <1>2, <3>2, Zenon DEF VfsInv
    <3>4. Cut(d, len) = 0
      BY <3>2, <3>3, VfsAssumption, SMTT(60) DEF Cut
    <3>5. fds[d] \in FdRec
      BY <1>2, <3>1 DEF VfsInv, FreeFds
    <3>6. fds' = fds
      <4>1. fds' = [fds EXCEPT ![d].offset = @ + 0]
        BY <2>4, <3>4 DEF vfs_read
      <4> QED BY <1>2, <3>2, <3>5, <4>1 DEF VfsInv, FdRec
    <3>7. files' = files /\ asked' = asked
      BY <2>4 DEF vfs_read
    <3> QED BY <1>2, <3>6, <3>7, VfsInvStays, Zenon
  <2> QED BY <1>2, <2>1, <2>2, <2>3, <2>4 DEF FNext
<1> QED BY <1>1, <1>2, VfsInvKeeps, PTL DEF FSpec
=============================================================================
