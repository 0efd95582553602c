----------------------------- MODULE IpcProofs ------------------------------
(***************************************************************************)
(* The safety of IPC for any number of threads, endpoints and messages and *)
(* any ring size: first what endpoint_send, endpoint_recv and              *)
(* endpoint_cleanup_for_tcb preserve of one endpoint record, then the      *)
(* endpoints with the threads that use them.                               *)
(***************************************************************************)
EXTENDS Ipc, CommonLemmas

\* What SMT knows of a sequence is what its definition says.
LEMMA SeqEqual ==
  ASSUME NEW S, NEW s \in Seq(S), NEW t \in Seq(S), Len(s) = Len(t),
         \A i \in 1 .. Len(s) : s[i] = t[i]
  PROVE  s = t
OBVIOUS

(***************************************************************************)
(* The endpoint invariant.                                                 *)
(***************************************************************************)

\* The k-th live entry is filled in.
LiveEntry(r, k) ==
  /\ r.queue[SlotOf(r, k)] \in Threads
  /\ r.queue_msgs[SlotOf(r, k)] \in Msgs

\* The k-th live entry with its sender, counted from the head.
Entry(r, k) == <<r.queue[SlotOf(r, k)], r.queue_msgs[SlotOf(r, k)]>>

EpInv(r) ==
  /\ r.q_tail = (r.q_head + r.q_len) % QSize
  /\ r.has_receiver => r.q_len = 0 /\ ~r.pending
  /\ r.q_len > 0 => r.pending
  /\ r.pending => r.pending_msg \in Msgs
  /\ \A k \in 0 .. (r.q_len - 1) : LiveEntry(r, k)

\* r refers to thread t: as its registered receiver or in a live entry.
Refers(r, t) ==
  \/ r.has_receiver /\ r.receiver_tcb = t
  \/ \E k \in 0 .. (r.q_len - 1) : r.queue[SlotOf(r, k)] = t

\* The q_head of an endpoint and the entries that follow it are slots, and
\* the sum wraps around at most once.
LEMMA SlotFacts ==
  ASSUME NEW r \in EndpointRec, NEW k \in 0 .. QSize
  PROVE  /\ SlotOf(r, k) \in Slots
         /\ SlotOf(r, k) = IF r.q_head + k < QSize THEN r.q_head + k
                                                   ELSE r.q_head + k - QSize
<1>1. QSize \in Nat \ {0}
  BY EndpointAssumption
<1>2. r.q_head \in 0 .. (QSize - 1)
  BY DEF EndpointRec, Slots
<1>3. (r.q_head + k) % QSize = IF r.q_head + k < QSize THEN r.q_head + k
                                                       ELSE r.q_head + k - QSize
  BY <1>1, <1>2, ModSum, Zenon
<1> QED BY <1>1, <1>2, <1>3 DEF SlotOf, Slots

\* A zeroed endpoint is in order.
LEMMA ZeroInv == EndpointZero \in EndpointRec /\ EpInv(EndpointZero)
<1>1. QSize \in Nat \ {0}
  BY EndpointAssumption
<1>2. (0 + 0) % QSize = 0
  BY <1>1, ModSum
<1>3. EndpointZero \in EndpointRec
  BY <1>1 DEF EndpointZero, EndpointRec, Slots
<1> QED BY <1>1, <1>2, <1>3 DEF EndpointZero, EpInv

(***************************************************************************)
(* endpoint_send.                                                          *)
(***************************************************************************)

\* A rendezvous leaves the endpoint in order and without a receiver.
LEMMA RendezvousInv ==
  ASSUME NEW r \in EndpointRec, EpInv(r), r.has_receiver, NEW m \in Msgs
  PROVE  /\ Rendezvous(r, m) \in EndpointRec
         /\ EpInv(Rendezvous(r, m))
         /\ \A t \in Threads : ~Refers(Rendezvous(r, m), t)
<1> DEFINE n == Rendezvous(r, m)
<1>1. n \in EndpointRec
  BY Zenon DEF Rendezvous, EndpointRec
<1>2. /\ n.q_head = r.q_head /\ n.q_tail = r.q_tail /\ n.q_len = r.q_len
      /\ n.pending = TRUE /\ n.pending_msg = m /\ n.has_receiver = FALSE
  BY DEF Rendezvous, EndpointRec
<1>3. r.q_len = 0
  BY DEF EpInv
<1> HIDE DEF n
<1>4. EpInv(n)
  BY <1>2, <1>3 DEF EpInv
<1>5. \A t \in Threads : ~Refers(n, t)
  BY <1>2, <1>3 DEF Refers
<1> QED BY <1>1, <1>4, <1>5 DEF n

\* Queuing a message leaves the endpoint in order and adds a reference to
\* its sender only; the message is the last entry, and the others keep their places.
LEMMA EnqueueInv ==
  ASSUME NEW r \in EndpointRec, EpInv(r), ~r.has_receiver, r.q_len < QSize,
         NEW s \in Threads, NEW m \in Msgs
  PROVE  /\ Enqueue(r, s, m) \in EndpointRec
         /\ EpInv(Enqueue(r, s, m))
         /\ \A t \in Threads : Refers(Enqueue(r, s, m), t) => t = s \/ Refers(r, t)
         /\ Enqueue(r, s, m).q_len = r.q_len + 1
         /\ Entry(Enqueue(r, s, m), r.q_len) = <<s, m>>
         /\ \A k \in 0 .. (r.q_len - 1) : Entry(Enqueue(r, s, m), k) = Entry(r, k)
<1> DEFINE n == Enqueue(r, s, m)
<1>1. /\ QSize \in Nat \ {0}
      /\ r.q_head \in 0 .. (QSize - 1)
      /\ r.q_tail \in 0 .. (QSize - 1)
      /\ r.q_len \in 0 .. (QSize - 1)
  BY EndpointAssumption DEF EndpointRec, Slots
<1>2. /\ n.q_head = r.q_head
      /\ n.q_tail = (r.q_tail + 1) % QSize
      /\ n.q_len = r.q_len + 1
      /\ n.queue = [r.queue EXCEPT ![r.q_tail] = s]
      /\ n.queue_msgs = [r.queue_msgs EXCEPT ![r.q_tail] = m]
      /\ n.pending = TRUE /\ n.pending_msg = m /\ n.has_receiver = FALSE
  BY DEF Enqueue, EndpointRec
<1>3. /\ r.queue \in [Slots -> Threads \cup {NoThread}]
      /\ r.queue_msgs \in [Slots -> Msgs \cup {NoMsg}]
      /\ r.q_tail \in Slots
  BY DEF EndpointRec
<1>4. (r.q_tail + 1) % QSize = IF r.q_tail + 1 < QSize THEN r.q_tail + 1 ELSE r.q_tail + 1 - QSize
  BY <1>1, ModSum, 1 \in 0 .. QSize, Zenon
<1>5. n \in EndpointRec
  <2>1. (r.q_tail + 1) % QSize \in Slots
    BY <1>1, <1>4 DEF Slots
  <2>2. r.q_len + 1 \in 0 .. QSize
    BY <1>1
  <2>3. [r.queue EXCEPT ![r.q_tail] = s] \in [Slots -> Threads \cup {NoThread}]
    BY <1>3
  <2>4. [r.queue_msgs EXCEPT ![r.q_tail] = m] \in [Slots -> Msgs \cup {NoMsg}]
    BY <1>3
  <2> QED BY <2>1, <2>2, <2>3, <2>4, Zenon DEF Enqueue, EndpointRec
<1> HIDE DEF n
\* The tail is the slot after the last live entry.
<1>6. r.q_tail = SlotOf(r, r.q_len)
  BY DEF EpInv, SlotOf
<1>7. n.q_tail = (n.q_head + n.q_len) % QSize
  <2>1. SlotOf(r, r.q_len) = IF r.q_head + r.q_len < QSize THEN r.q_head + r.q_len
                                                           ELSE r.q_head + r.q_len - QSize
    BY <1>1, SlotFacts
  <2>2. SlotOf(n, n.q_len) = IF r.q_head + n.q_len < QSize THEN r.q_head + n.q_len
                                                           ELSE r.q_head + n.q_len - QSize
    BY <1>1, <1>2, <1>5, SlotFacts
  <2> QED BY <1>1, <1>2, <1>4, <1>6, <2>1, <2>2 DEF SlotOf
<1>8. \A k \in 0 .. (n.q_len - 1) :
         \/ k \in 0 .. (r.q_len - 1) /\ SlotOf(n, k) # r.q_tail
         \/ k = r.q_len /\ SlotOf(n, k) = r.q_tail
  <2> SUFFICES ASSUME NEW k \in 0 .. (n.q_len - 1)
               PROVE  \/ k \in 0 .. (r.q_len - 1) /\ SlotOf(n, k) # r.q_tail
                      \/ k = r.q_len /\ SlotOf(n, k) = r.q_tail
    OBVIOUS
  <2>1. k \in 0 .. r.q_len /\ k \in 0 .. QSize
    BY <1>1, <1>2
  <2>2. SlotOf(n, k) = SlotOf(r, k)
    BY <1>2 DEF SlotOf
  <2>3. SlotOf(r, k) = IF r.q_head + k < QSize THEN r.q_head + k ELSE r.q_head + k - QSize
    BY <2>1, SlotFacts
  <2>4. SlotOf(r, r.q_len) = IF r.q_head + r.q_len < QSize THEN r.q_head + r.q_len
                                                           ELSE r.q_head + r.q_len - QSize
    BY <1>1, SlotFacts
  <2> QED BY <1>1, <1>6, <2>1, <2>2, <2>3, <2>4
<1>9. \A k \in 0 .. (r.q_len - 1) : SlotOf(n, k) = SlotOf(r, k) /\ SlotOf(r, k) \in Slots
  <2> SUFFICES ASSUME NEW k \in 0 .. (r.q_len - 1)
               PROVE  SlotOf(n, k) = SlotOf(r, k) /\ SlotOf(r, k) \in Slots
    OBVIOUS
  <2>1. k \in 0 .. QSize
    BY <1>1
  <2> QED BY <1>2, <2>1, SlotFacts DEF SlotOf
<1>10. \A k \in 0 .. (n.q_len - 1) : LiveEntry(n, k)
  BY <1>2, <1>3, <1>8, <1>9 DEF LiveEntry, EpInv
<1>11. EpInv(n)
  BY <1>2, <1>7, <1>10 DEF EpInv
<1>12. \A t \in Threads : Refers(n, t) => t = s \/ Refers(r, t)
  BY <1>2, <1>3, <1>8, <1>9 DEF Refers
<1>13. /\ r.q_len \in 0 .. (n.q_len - 1)
       /\ \A k \in 0 .. (r.q_len - 1) : k \in 0 .. (n.q_len - 1) /\ k # r.q_len
  BY <1>1, <1>2
<1>14. Entry(n, r.q_len) = <<s, m>>
  <2>1. SlotOf(n, r.q_len) = r.q_tail
    BY <1>1, <1>8, <1>13
  <2> QED BY <1>2, <1>3, <2>1 DEF Entry
<1>15. \A k \in 0 .. (r.q_len - 1) : Entry(n, k) = Entry(r, k)
  BY <1>2, <1>3, <1>8, <1>9, <1>13 DEF Entry
<1> QED BY <1>2, <1>5, <1>11, <1>12, <1>14, <1>15 DEF n

\* endpoint_send leaves the endpoint in order and adds a reference to the
\* sender only.
LEMMA SendInv ==
  ASSUME NEW r \in EndpointRec, EpInv(r), SendAccepts(r),
         NEW s \in Threads, NEW m \in Msgs
  PROVE  /\ endpoint_send(r, s, m) \in EndpointRec
         /\ EpInv(endpoint_send(r, s, m))
         /\ \A t \in Threads : Refers(endpoint_send(r, s, m), t) => t = s \/ Refers(r, t)
<1>1. CASE r.has_receiver
  BY <1>1, RendezvousInv DEF endpoint_send
<1>2. CASE ~r.has_receiver
  BY <1>2, EnqueueInv DEF endpoint_send, SendAccepts
<1> QED BY <1>1, <1>2

(***************************************************************************)
(* endpoint_recv.                                                          *)
(***************************************************************************)

\* Taking the oldest entry leaves the endpoint in order; the others move up.
LEMMA DequeueInv ==
  ASSUME NEW r \in EndpointRec, EpInv(r), r.q_len > 0
  PROVE  /\ Dequeue(r) \in EndpointRec
         /\ EpInv(Dequeue(r))
         /\ ~Dequeue(r).has_receiver
         /\ \A t \in Threads : Refers(Dequeue(r), t) => Refers(r, t)
         /\ Dequeue(r).q_len = r.q_len - 1
         /\ \A k \in 0 .. (r.q_len - 2) : Entry(Dequeue(r), k) = Entry(r, k + 1)
<1> DEFINE n == Dequeue(r)
           h == (r.q_head + 1) % QSize
<1>1. /\ QSize \in Nat \ {0}
      /\ r.q_head \in 0 .. (QSize - 1)
      /\ r.q_tail \in 0 .. (QSize - 1)
      /\ r.q_len \in 1 .. QSize
  BY EndpointAssumption DEF EndpointRec, Slots
<1>2. h = IF r.q_head + 1 < QSize THEN r.q_head + 1 ELSE r.q_head + 1 - QSize
  BY <1>1, ModSum, 1 \in 0 .. QSize, Zenon
<1>3. h \in Slots
  BY <1>1, <1>2 DEF Slots
<1>4. /\ n.q_head = h
      /\ n.q_tail = r.q_tail
      /\ n.q_len = r.q_len - 1
      /\ n.queue = r.queue
      /\ n.queue_msgs = r.queue_msgs
      /\ n.pending = IF r.q_len - 1 = 0 THEN FALSE ELSE r.pending
      /\ n.pending_msg = IF r.q_len - 1 = 0 THEN r.pending_msg ELSE r.queue_msgs[h]
      /\ n.has_receiver = r.has_receiver
  BY DEF Dequeue, EndpointRec
<1>5. n \in EndpointRec
  <2>1. r.q_len - 1 \in 0 .. QSize
    BY <1>1
  <2>2. r.queue_msgs[h] \in Msgs \cup {NoMsg}
    BY <1>3 DEF EndpointRec
  <2>3. (IF r.q_len - 1 = 0 THEN FALSE ELSE r.pending) \in BOOLEAN
    BY Zenon DEF EndpointRec
  <2> HIDE DEF h
  <2> QED BY <1>3, <2>1, <2>2, <2>3, ZenonT(60) DEF Dequeue, EndpointRec, h
<1>6. ~r.has_receiver
  BY <1>1 DEF EpInv
<1> HIDE DEF n, h
\* Entry k of the shorter queue was entry k + 1.
<1>7. \A k \in 0 .. (r.q_len - 1) : SlotOf(n, k) = SlotOf(r, k + 1)
  <2> SUFFICES ASSUME NEW k \in 0 .. (r.q_len - 1)
               PROVE  SlotOf(n, k) = SlotOf(r, k + 1)
    OBVIOUS
  <2>1. k \in 0 .. QSize /\ k + 1 \in 0 .. QSize /\ k < QSize
    BY <1>1
  <2>2. SlotOf(n, k) = IF h + k < QSize THEN h + k ELSE h + k - QSize
    BY <2>1, <1>4, <1>5, SlotFacts
  <2>3. SlotOf(r, k + 1) = IF r.q_head + (k + 1) < QSize THEN r.q_head + (k + 1)
                                                         ELSE r.q_head + (k + 1) - QSize
    BY <2>1, SlotFacts
  <2> QED BY <1>1, <1>2, <2>1, <2>2, <2>3
<1>8. n.q_tail = (n.q_head + n.q_len) % QSize
  <2>1. r.q_len - 1 \in 0 .. (r.q_len - 1) /\ (r.q_len - 1) + 1 = r.q_len
    BY <1>1
  <2>2. SlotOf(n, n.q_len) = SlotOf(r, r.q_len)
    BY <1>4, <1>7, <2>1
  <2> QED BY <1>4, <2>2 DEF SlotOf, EpInv
<1>9. \A k \in 0 .. (n.q_len - 1) : k \in 0 .. (r.q_len - 1) /\ k + 1 \in 0 .. (r.q_len - 1)
  BY <1>1, <1>4
<1>10. \A k \in 0 .. (n.q_len - 1) : LiveEntry(n, k)
  BY <1>4, <1>7, <1>9 DEF LiveEntry, EpInv
<1>11. n.pending => n.pending_msg \in Msgs
  <2> SUFFICES ASSUME r.q_len - 1 # 0 PROVE r.queue_msgs[h] \in Msgs
    BY <1>4, Zenon
  <2>1. 1 \in 0 .. (r.q_len - 1)
    BY <1>1
  <2>2. SlotOf(r, 1) = h
    BY DEF SlotOf, h
  <2> QED BY <2>1, <2>2 DEF EpInv, LiveEntry
<1>12. EpInv(n)
  <2>1. n.q_len > 0 => n.pending
    BY <1>1, <1>4 DEF EpInv
  <2>2. ~n.has_receiver
    BY <1>4, <1>6
  <2> QED BY <1>8, <1>10, <1>11, <2>1, <2>2 DEF EpInv
<1>13. \A t \in Threads : Refers(n, t) => Refers(r, t)
  BY <1>4, <1>6, <1>7, <1>9 DEF Refers
<1>14. \A k \in 0 .. (r.q_len - 2) : Entry(n, k) = Entry(r, k + 1)
  <2>1. \A k \in 0 .. (r.q_len - 2) : k \in 0 .. (r.q_len - 1)
    BY <1>1
  <2> QED BY <1>4, <1>7, <2>1 DEF Entry
<1> QED BY <1>4, <1>5, <1>6, <1>12, <1>13, <1>14 DEF n

\* Taking the rendezvous message leaves the endpoint in order and empty.
LEMMA TakeRendezvousInv ==
  ASSUME NEW r \in EndpointRec, EpInv(r), r.q_len = 0
  PROVE  /\ TakeRendezvous(r) \in EndpointRec
         /\ EpInv(TakeRendezvous(r))
         /\ \A t \in Threads : ~Refers(TakeRendezvous(r), t)
<1> DEFINE n == TakeRendezvous(r)
<1>1. n \in EndpointRec
  BY Zenon DEF TakeRendezvous, EndpointRec
<1>2. /\ n.q_head = r.q_head /\ n.q_tail = r.q_tail /\ n.q_len = 0
      /\ n.pending = FALSE /\ n.has_receiver = FALSE
  BY DEF TakeRendezvous, EndpointRec
<1> HIDE DEF n
<1>3. EpInv(n)
  BY <1>2 DEF EpInv
<1>4. \A t \in Threads : ~Refers(n, t)
  BY <1>2 DEF Refers
<1> QED BY <1>1, <1>3, <1>4 DEF n

\* Registering a receiver on an endpoint with no message leaves it in order;
\* the new receiver is then the only thread it refers to.
LEMMA RegisterInv ==
  ASSUME NEW r \in EndpointRec, EpInv(r), r.q_len = 0, ~r.pending, NEW u \in Threads
  PROVE  /\ Register(r, u) \in EndpointRec
         /\ EpInv(Register(r, u))
         /\ Register(r, u).has_receiver /\ Register(r, u).receiver_tcb = u
         /\ ~HasMessage(Register(r, u))
         /\ \A t \in Threads : Refers(Register(r, u), t) => t = u
<1> DEFINE n == Register(r, u)
<1>1. n \in EndpointRec
  BY Zenon DEF Register, EndpointRec
<1>2. /\ n.q_head = r.q_head /\ n.q_tail = r.q_tail /\ n.q_len = 0
      /\ n.pending = FALSE /\ n.has_receiver = TRUE /\ n.receiver_tcb = u
  BY DEF Register, EndpointRec
<1> HIDE DEF n
<1>3. EpInv(n)
  BY <1>2 DEF EpInv
<1>4. \A t \in Threads : Refers(n, t) => t = u
  BY <1>2 DEF Refers
<1>5. ~HasMessage(n)
  BY <1>2 DEF HasMessage
<1> QED BY <1>1, <1>2, <1>3, <1>4, <1>5 DEF n

\* endpoint_recv leaves the endpoint in order.  With a message there, it
\* returns it and registers nobody.
LEMMA ReceiveInv ==
  ASSUME NEW r \in EndpointRec, EpInv(r), HasMessage(r), NEW u \in Threads
  PROVE  /\ endpoint_recv(r, u) \in EndpointRec
         /\ EpInv(endpoint_recv(r, u))
         /\ Received(r) \in Msgs
         /\ ~r.has_receiver
         /\ \A t \in Threads : Refers(endpoint_recv(r, u), t) => Refers(r, t)
<1>1. /\ QSize \in Nat \ {0} /\ r.q_head \in 0 .. (QSize - 1) /\ r.q_len \in 0 .. QSize
      /\ r.pending \in BOOLEAN
  BY EndpointAssumption DEF EndpointRec, Slots
<1>2. ~r.has_receiver
  BY <1>1 DEF EpInv, HasMessage
<1>3. CASE r.q_len > 0
  <2>1. endpoint_recv(r, u) = Dequeue(r)
    BY <1>1, <1>3 DEF endpoint_recv
  <2>2. 0 \in 0 .. (r.q_len - 1) /\ 0 \in 0 .. QSize
    BY <1>1, <1>3
  <2>3. SlotOf(r, 0) = r.q_head
    BY <1>1, <2>2, SlotFacts
  <2>4. Received(r) \in Msgs
    BY <1>3, <2>2, <2>3 DEF Received, EpInv, LiveEntry
  <2> QED BY <1>2, <1>3, <2>1, <2>4, DequeueInv
<1>4. CASE r.q_len = 0
  <2>1. r.pending
    BY <1>4 DEF HasMessage
  <2>2. endpoint_recv(r, u) = TakeRendezvous(r)
    BY <1>4, <2>1 DEF endpoint_recv
  <2>3. Received(r) \in Msgs
    BY <1>4, <2>1 DEF Received, EpInv
  <2> QED BY <1>2, <1>4, <2>2, <2>3, TakeRendezvousInv
<1> QED BY <1>1, <1>3, <1>4

\* With no message there, endpoint_recv registers the caller.
LEMMA BlockInv ==
  ASSUME NEW r \in EndpointRec, EpInv(r), ~HasMessage(r), NEW u \in Threads
  PROVE  /\ endpoint_recv(r, u) \in EndpointRec
         /\ EpInv(endpoint_recv(r, u))
         /\ endpoint_recv(r, u).has_receiver
         /\ endpoint_recv(r, u).receiver_tcb = u
         /\ ~HasMessage(endpoint_recv(r, u))
         /\ \A t \in Threads : Refers(endpoint_recv(r, u), t) => t = u
<1>1. r.q_len \in 0 .. QSize /\ QSize \in Nat
  BY EndpointAssumption DEF EndpointRec
<1>2. r.q_len = 0 /\ ~r.pending
  BY <1>1 DEF HasMessage
<1>3. endpoint_recv(r, u) = Register(r, u)
  BY <1>2 DEF endpoint_recv
<1> QED BY <1>2, <1>3, RegisterInv

(***************************************************************************)
(* endpoint_cleanup_for_tcb.                                               *)
(***************************************************************************)

\* In a set of numbers below n, every rank below the size of the set is the
\* rank of a member: the entries that survive the shifting fill the queue from
\* its head without a gap.
LEMMA RankExists ==
  ASSUME NEW n \in Nat, NEW S \in SUBSET (0 .. (n - 1)),
         NEW j \in Nat, j < Cardinality(S)
  PROVE  \E k \in S : Cardinality({x \in S : x < k}) = j
<1> DEFINE B(k) == {x \in S : x < k}
           W == {k \in Nat : Cardinality(B(k)) > j}
<1>0. \A x \in S : x \in Nat /\ x < n
  OBVIOUS
<1>1. IsFiniteSet(S)
  <2>1. 0 \in Int /\ n - 1 \in Int
    OBVIOUS
  <2>2. IsFiniteSet(0 .. (n - 1))
    BY <2>1, FS_Interval
  <2> QED BY <2>2, FS_Subset, Zenon
<1>2. \A k : IsFiniteSet(B(k)) /\ Cardinality(B(k)) \in Nat
  <2> SUFFICES ASSUME NEW k PROVE IsFiniteSet(B(k)) /\ Cardinality(B(k)) \in Nat
    OBVIOUS
  <2>1. B(k) \in SUBSET S
    OBVIOUS
  <2> HIDE DEF B
  <2>2. IsFiniteSet(B(k))
    BY <1>1, <2>1, FS_Subset
  <2> QED BY <2>2, FS_CardinalityType
<1>3. B(n) = S /\ B(0) = {}
  <2>1. \A x \in S : x < n /\ ~(x < 0)
    BY <1>0
  <2> QED BY <2>1, Zenon
<1>4. n \in W
  BY <1>3
<1>5. PICK m \in W : \A k \in W : m <= k
  <2>1. W \in SUBSET Nat /\ W # {}
    BY <1>4, Zenon
  <2> HIDE DEF W
  <2> QED BY <2>1, LeastNumber
<1>6. m # 0
  <2>1. Cardinality(B(0)) = 0
    BY <1>3, FS_EmptySet
  <2> HIDE DEF B
  <2> QED BY <2>1
<1>7. /\ m - 1 \in Nat /\ m \in Nat
      /\ Cardinality(B(m)) > j
      /\ ~(Cardinality(B(m - 1)) > j)
  <2> HIDE DEF B
  <2>1. m \in Nat /\ m - 1 \in Nat /\ ~(m <= m - 1)
    BY <1>6
  <2>2. m - 1 \notin W
    BY <1>5, <2>1
  <2> QED BY <2>1, <2>2
<1>8. m - 1 \in S
  <2> SUFFICES ASSUME m - 1 \notin S PROVE FALSE
    OBVIOUS
  <2>1. \A x \in S : x < m <=> x < m - 1
    BY <1>0, <1>7
  <2>2. B(m) = B(m - 1)
    BY <2>1, Zenon
  <2> HIDE DEF B
  <2> QED BY <1>7, <2>2
<1>9. Cardinality(B(m)) = Cardinality(B(m - 1)) + 1
  <2>0. \A x \in S : x < m <=> x < m - 1 \/ x = m - 1
    BY <1>0, <1>7
  <2>1. B(m) = B(m - 1) \cup {m - 1}
    BY <1>8, <2>0, Zenon
  <2>2. m - 1 \notin B(m - 1)
    BY <1>7
  <2> HIDE DEF B
  <2> QED BY <1>2, <2>1, <2>2, FS_AddElement, Zenon
<1>10. Cardinality(B(m - 1)) = j
  <2> HIDE DEF B
  <2> QED BY <1>2, <1>7, <1>9
<1> QED BY <1>8, <1>10, Zenon

\* The survivors are at most the live entries, and all of them exactly when
\* tcb_id has no entry.
LEMMA SurvivorFacts ==
  ASSUME NEW r \in EndpointRec, NEW t
  PROVE  /\ Survivors(r, t) \in SUBSET (0 .. (r.q_len - 1))
         /\ Cardinality(Survivors(r, t)) \in 0 .. r.q_len
         /\ Cardinality(Survivors(r, t)) = r.q_len
              => Survivors(r, t) = 0 .. (r.q_len - 1)
<1> DEFINE S == Survivors(r, t)
           L == 0 .. (r.q_len - 1)
<1>1. S \in SUBSET L
  BY DEF Survivors
<1>2. r.q_len \in Nat
  BY EndpointAssumption DEF EndpointRec
<1>3. IsFiniteSet(L) /\ Cardinality(L) = r.q_len
  <2>1. 0 \in Int /\ r.q_len - 1 \in Int
    BY <1>2
  <2>2. IsFiniteSet(L) /\ Cardinality(L) = IF 0 > r.q_len - 1 THEN 0 ELSE r.q_len - 1 - 0 + 1
    BY <2>1, FS_Interval
  <2> QED BY <1>2, <2>2
<1> HIDE DEF S, L
<1>4. /\ IsFiniteSet(S)
      /\ Cardinality(S) <= Cardinality(L)
      /\ Cardinality(L) = Cardinality(S) => L = S
  BY <1>1, <1>3, FS_Subset
<1>5. Cardinality(S) \in Nat
  BY <1>4, FS_CardinalityType
<1>6. Cardinality(S) \in 0 .. r.q_len
  BY <1>2, <1>3, <1>4, <1>5
<1> QED BY <1>1, <1>3, <1>4, <1>6 DEF S, L

\* The live entry that the shifting moves to offset j.
Moved(r, t, j) == CHOOSE k \in NthSurvivor(r, t, j) : TRUE

\* The shifting keeps the type of an array.
LEMMA ShiftedType ==
  ASSUME NEW r \in EndpointRec, NEW t, NEW A, NEW a \in [Slots -> A]
  PROVE  Shifted(r, t, a) \in [Slots -> A]
<1> DEFINE S == Survivors(r, t)
<1>1. \A k \in S : SlotOf(r, k) \in Slots
  <2> SUFFICES ASSUME NEW k \in S PROVE SlotOf(r, k) \in Slots
    OBVIOUS
  <2>1. k \in 0 .. (r.q_len - 1)
    BY SurvivorFacts
  <2>2. k \in 0 .. QSize
    BY <2>1, EndpointAssumption DEF EndpointRec
  <2> QED BY <2>2, SlotFacts
<1> SUFFICES ASSUME NEW i \in Slots
             PROVE  (LET K == NthSurvivor(r, t, Offset(r, i))
                     IN  IF K = {} THEN a[i] ELSE a[SlotOf(r, CHOOSE k \in K : TRUE)]) \in A
  BY DEF Shifted
<1> DEFINE K == NthSurvivor(r, t, Offset(r, i))
           k == CHOOSE k \in K : TRUE
<1>2. CASE K = {}
  BY <1>2
<1>3. CASE K # {}
  <2>1. k \in K
    BY <1>3
  <2>2. k \in S
    BY <2>1 DEF NthSurvivor
  <2>3. a[SlotOf(r, k)] \in A
    BY <1>1, <2>2
  <2> QED BY <1>3, <2>3
<1> QED BY <1>2, <1>3

\* After the shifting, each of the entries that are left was a live entry that
\* tcb_id had not sent.
LEMMA ShiftedEntry ==
  ASSUME NEW r \in EndpointRec, NEW t, NEW a,
         NEW j \in 0 .. (Cardinality(Survivors(r, t)) - 1)
  PROVE  /\ Moved(r, t, j) \in Survivors(r, t)
         /\ Shifted(r, t, a)[SlotOf(r, j)] = a[SlotOf(r, Moved(r, t, j))]
<1> DEFINE S == Survivors(r, t)
           K == NthSurvivor(r, t, j)
           k == CHOOSE k \in K : TRUE
<1>1. /\ QSize \in Nat \ {0}
      /\ r.q_head \in 0 .. (QSize - 1)
      /\ r.q_len \in 0 .. QSize
  BY EndpointAssumption DEF EndpointRec, Slots
<1>2. /\ S \in SUBSET (0 .. (r.q_len - 1))
      /\ Cardinality(S) \in 0 .. r.q_len
  BY SurvivorFacts
<1>3. j \in Nat /\ j < Cardinality(S) /\ j \in 0 .. QSize /\ j < QSize
  BY <1>1, <1>2
<1>4. \E x \in S : Cardinality({y \in S : y < x}) = j
  <2>1. r.q_len \in Nat
    BY <1>1
  <2> HIDE DEF S
  <2> QED BY <1>2, <1>3, <2>1, RankExists, Zenon
<1>5. K # {}
  BY <1>4 DEF NthSurvivor
<1>6. k \in S
  BY <1>5 DEF NthSurvivor
<1>7. SlotOf(r, j) \in Slots /\ Offset(r, SlotOf(r, j)) = j
  <2>1. /\ SlotOf(r, j) \in Slots
        /\ SlotOf(r, j) = IF r.q_head + j < QSize THEN r.q_head + j ELSE r.q_head + j - QSize
    BY <1>3, SlotFacts
  <2>2. SlotOf(r, j) \in 0 .. (QSize - 1)
    BY <2>1 DEF Slots
  <2>3. Offset(r, SlotOf(r, j)) = IF SlotOf(r, j) >= r.q_head
                                    THEN SlotOf(r, j) - r.q_head
                                    ELSE SlotOf(r, j) - r.q_head + QSize
    BY <1>1, <2>2, ModDifference, Zenon DEF Offset
  <2> QED BY <1>1, <1>3, <2>1, <2>2, <2>3
<1>8. Shifted(r, t, a)[SlotOf(r, j)] = a[SlotOf(r, k)]
  BY <1>5, <1>7 DEF Shifted
<1> QED BY <1>6, <1>8 DEF Moved

\* Withdrawing what tcb_id queued leaves the endpoint in order, with no entry of
\* tcb_id and no reference it did not have before.
LEMMA ForgetSenderInv ==
  ASSUME NEW r \in EndpointRec, EpInv(r), NEW t \in Threads
  PROVE  /\ ForgetSender(r, t) \in EndpointRec
         /\ EpInv(ForgetSender(r, t))
         /\ ForgetSender(r, t).has_receiver = r.has_receiver
         /\ ForgetSender(r, t).receiver_tcb = r.receiver_tcb
         /\ r.has_receiver => ForgetSender(r, t) = r
         /\ \A k \in 0 .. (ForgetSender(r, t).q_len - 1) :
              ForgetSender(r, t).queue[SlotOf(ForgetSender(r, t), k)] # t
         /\ \A u \in Threads : Refers(ForgetSender(r, t), u) => Refers(r, u)
<1> DEFINE S == Survivors(r, t)
           len == Cardinality(S)
           n == [r EXCEPT !.queue = Shifted(r, t, r.queue),
                          !.queue_msgs = Shifted(r, t, r.queue_msgs),
                          !.q_len = len,
                          !.q_tail = (r.q_head + len) % QSize,
                          !.pending = IF len = 0 THEN FALSE ELSE r.pending]
<1>1. /\ QSize \in Nat \ {0}
      /\ r.q_head \in 0 .. (QSize - 1)
      /\ r.q_len \in 0 .. QSize
      /\ r.pending \in BOOLEAN
      /\ r.queue \in [Slots -> Threads \cup {NoThread}]
      /\ r.queue_msgs \in [Slots -> Msgs \cup {NoMsg}]
  BY EndpointAssumption DEF EndpointRec, Slots
<1>2. /\ S \in SUBSET (0 .. (r.q_len - 1))
      /\ len \in 0 .. r.q_len
      /\ len = r.q_len => S = 0 .. (r.q_len - 1)
  BY SurvivorFacts
<1>3. \A k \in S : r.queue[SlotOf(r, k)] # t
  BY DEF Survivors
<1>4. \A j \in 0 .. (len - 1) :
        /\ Moved(r, t, j) \in S
        /\ Shifted(r, t, r.queue)[SlotOf(r, j)] = r.queue[SlotOf(r, Moved(r, t, j))]
  BY ShiftedEntry
<1>5. \A j \in 0 .. (len - 1) :
        Shifted(r, t, r.queue_msgs)[SlotOf(r, j)] = r.queue_msgs[SlotOf(r, Moved(r, t, j))]
  BY ShiftedEntry
<1>6. CASE len = r.q_len
  <2>1. ForgetSender(r, t) = r
    BY <1>6 DEF ForgetSender
  <2> QED BY <1>2, <1>3, <1>6, <2>1
<1>7. CASE len # r.q_len
  <2>1. ForgetSender(r, t) = n
    BY <1>7 DEF ForgetSender
  <2>2. /\ n.q_head = r.q_head /\ n.q_len = len
        /\ n.q_tail = (r.q_head + len) % QSize
        /\ n.queue = Shifted(r, t, r.queue)
        /\ n.queue_msgs = Shifted(r, t, r.queue_msgs)
        /\ n.pending = IF len = 0 THEN FALSE ELSE r.pending
        /\ n.pending_msg = r.pending_msg
        /\ n.has_receiver = r.has_receiver
        /\ n.receiver_tcb = r.receiver_tcb
    BY DEF EndpointRec
  <2>3. ~r.has_receiver /\ r.q_len > 0
    BY <1>1, <1>2, <1>7 DEF EpInv
  <2>4. n \in EndpointRec
    <3>1. Shifted(r, t, r.queue) \in [Slots -> Threads \cup {NoThread}]
      BY <1>1, ShiftedType, Zenon
    <3>2. Shifted(r, t, r.queue_msgs) \in [Slots -> Msgs \cup {NoMsg}]
      BY <1>1, ShiftedType, Zenon
    <3>3. len \in 0 .. QSize
      BY <1>1, <1>2
    <3>4. (r.q_head + len) % QSize \in Slots
      BY <3>3, SlotFacts DEF SlotOf
    <3>5. (IF len = 0 THEN FALSE ELSE r.pending) \in BOOLEAN
      BY <1>1, Zenon
    <3> HIDE DEF len
    <3> QED BY <3>1, <3>2, <3>3, <3>4, <3>5, Zenon DEF EndpointRec
  <2>5. ASSUME NEW j \in 0 .. (n.q_len - 1)
        PROVE  \E k \in S : /\ n.queue[SlotOf(n, j)] = r.queue[SlotOf(r, k)]
                            /\ n.queue_msgs[SlotOf(n, j)] = r.queue_msgs[SlotOf(r, k)]
    <3>1. j \in 0 .. (len - 1)
      BY <2>2
    <3>2. SlotOf(n, j) = SlotOf(r, j)
      BY <2>2 DEF SlotOf
    <3> HIDE DEF n, S
    <3> QED BY <1>4, <1>5, <2>2, <3>1, <3>2
  <2> HIDE DEF n, S
  <2>6. \A j \in 0 .. (n.q_len - 1) : LiveEntry(n, j)
    BY <1>2, <2>5 DEF LiveEntry, EpInv
  <2>7. n.q_len > 0 => n.pending
    BY <1>2, <2>2, <2>3 DEF EpInv
  <2>8. n.pending => n.pending_msg \in Msgs
    BY <2>2, <2>3 DEF EpInv
  <2>9. EpInv(n)
    BY <2>2, <2>3, <2>6, <2>7, <2>8 DEF EpInv
  <2>10. \A k \in 0 .. (n.q_len - 1) : n.queue[SlotOf(n, k)] # t
    BY <1>3, <2>5
  <2>11. \A u \in Threads : Refers(n, u) => Refers(r, u)
    BY <1>2, <2>2, <2>5 DEF Refers
  <2> QED BY <2>1, <2>2, <2>3, <2>4, <2>9, <2>10, <2>11
<1> QED BY <1>6, <1>7

\* Forgetting a registered receiver leaves the endpoint in order.
LEMMA ForgetReceiverInv ==
  ASSUME NEW r \in EndpointRec, EpInv(r), NEW t \in Threads
  PROVE  /\ ForgetReceiver(r, t) \in EndpointRec
         /\ EpInv(ForgetReceiver(r, t))
         /\ r.receiver_tcb # t => ForgetReceiver(r, t) = r
         /\ ~(ForgetReceiver(r, t).has_receiver /\ ForgetReceiver(r, t).receiver_tcb = t)
         /\ \A u \in Threads : Refers(ForgetReceiver(r, t), u) => Refers(r, u)
<1> DEFINE n == [r EXCEPT !.has_receiver = FALSE, !.pending = FALSE,
                          !.receiver_tcb = NoThread]
<1>1. CASE ~(r.has_receiver /\ r.receiver_tcb = t)
  <2>1. ForgetReceiver(r, t) = r
    BY <1>1 DEF ForgetReceiver
  <2> QED BY <1>1, <2>1
<1>2. CASE r.has_receiver /\ r.receiver_tcb = t
  <2>1. ForgetReceiver(r, t) = n
    BY <1>2 DEF ForgetReceiver
  <2>2. n \in EndpointRec
    BY Zenon DEF EndpointRec
  <2>3. /\ n.q_head = r.q_head /\ n.q_tail = r.q_tail /\ n.q_len = r.q_len
        /\ n.pending = FALSE /\ n.has_receiver = FALSE
    BY DEF EndpointRec
  <2>4. r.q_len = 0
    BY <1>2 DEF EpInv
  <2> HIDE DEF n
  <2>5. EpInv(n)
    BY <2>3, <2>4 DEF EpInv
  <2>6. \A u \in Threads : ~Refers(n, u)
    BY <2>3, <2>4 DEF Refers
  <2> QED BY <1>2, <2>1, <2>2, <2>3, <2>5, <2>6
<1> QED BY <1>1, <1>2

\* endpoint_cleanup_for_tcb leaves the endpoint in order and without any
\* reference to the thread; it adds no reference, and the registration of
\* another thread stays as it is.
LEMMA CleanupInv ==
  ASSUME NEW r \in EndpointRec, EpInv(r), NEW t \in Threads
  PROVE  LET n == endpoint_cleanup_for_tcb(r, t)
         IN  /\ n \in EndpointRec
             /\ EpInv(n)
             /\ ~Refers(n, t)
             /\ \A u \in Threads : Refers(n, u) => Refers(r, u)
             /\ r.has_receiver /\ r.receiver_tcb # t => n = r
<1> DEFINE m == ForgetReceiver(r, t)
           n == ForgetSender(m, t)
<1>1. /\ m \in EndpointRec
      /\ EpInv(m)
      /\ r.receiver_tcb # t => m = r
      /\ ~(m.has_receiver /\ m.receiver_tcb = t)
      /\ \A u \in Threads : Refers(m, u) => Refers(r, u)
  BY ForgetReceiverInv
<1> HIDE DEF m
<1>2. /\ n \in EndpointRec
      /\ EpInv(n)
      /\ n.has_receiver = m.has_receiver
      /\ n.receiver_tcb = m.receiver_tcb
      /\ m.has_receiver => n = m
      /\ \A k \in 0 .. (n.q_len - 1) : n.queue[SlotOf(n, k)] # t
      /\ \A u \in Threads : Refers(n, u) => Refers(m, u)
  BY <1>1, ForgetSenderInv
<1>3. endpoint_cleanup_for_tcb(r, t) = n
  BY DEF endpoint_cleanup_for_tcb, m
<1> HIDE DEF n
<1>4. ~Refers(n, t)
  BY <1>1, <1>2 DEF Refers
<1> QED BY <1>1, <1>2, <1>3, <1>4

\* The shifting keeps the order of the survivors, and every survivor has a place.
LEMMA MovedInOrder ==
  ASSUME NEW r \in EndpointRec, NEW t
  PROVE  LET S   == Survivors(r, t)
             len == Cardinality(S)
         IN  /\ \A i, j \in 0 .. (len - 1) : i < j => Moved(r, t, i) < Moved(r, t, j)
             /\ \A k \in S : \E j \in 0 .. (len - 1) : Moved(r, t, j) = k
<1> DEFINE S == Survivors(r, t)
           len == Cardinality(S)
           B(k) == {x \in S : x < k}
<1>1. S \in SUBSET (0 .. (r.q_len - 1)) /\ r.q_len \in Nat /\ QSize \in Nat
  BY SurvivorFacts, EndpointAssumption DEF EndpointRec
<1>2. IsFiniteSet(S) /\ len \in Nat /\ \A k \in S : k \in Nat
  <2>1. IsFiniteSet(0 .. (r.q_len - 1))
    BY <1>1, FS_Interval
  <2> QED BY <1>1, <2>1, FS_Subset, FS_CardinalityType
<1>3. \A j \in 0 .. (len - 1) :
        Moved(r, t, j) \in S /\ Cardinality(B(Moved(r, t, j))) = j
  <2> TAKE j \in 0 .. (len - 1)
  <2>1. j \in Nat /\ j < len
    BY <1>2
  <2>2. \E k \in S : Cardinality({x \in S : x < k}) = j
    <3> HIDE DEF S
    <3> QED BY <1>1, <2>1, RankExists, Zenon
  <2>3. NthSurvivor(r, t, j) # {}
    BY <2>2 DEF NthSurvivor
  <2>4. Moved(r, t, j) \in NthSurvivor(r, t, j)
    BY <2>3 DEF Moved
  <2> QED BY <2>4 DEF NthSurvivor
<1> HIDE DEF S
\* A larger survivor has more of them ahead of it.
<1>4. ASSUME NEW a \in S, NEW b \in S, a < b
      PROVE  /\ Cardinality(B(a)) \in Nat /\ Cardinality(B(b)) \in Nat
             /\ Cardinality(B(a)) < Cardinality(B(b))
  <2>1. IsFiniteSet(B(b)) /\ B(a) \subseteq B(b) /\ a \in B(b) /\ a \notin B(a)
    BY <1>2, <1>4, FS_Subset
  <2> HIDE DEF B
  <2>2. Cardinality(B(a)) <= Cardinality(B(b)) /\ B(a) # B(b) /\ IsFiniteSet(B(a))
    BY <2>1, FS_Subset
  <2> QED BY <2>1, <2>2, FS_Subset, FS_CardinalityType
<1>5. ASSUME NEW i \in 0 .. (len - 1), NEW j \in 0 .. (len - 1), i < j
      PROVE  Moved(r, t, i) < Moved(r, t, j)
  <2>1. /\ Moved(r, t, i) \in S /\ Cardinality(B(Moved(r, t, i))) = i
        /\ Moved(r, t, j) \in S /\ Cardinality(B(Moved(r, t, j))) = j
    BY <1>3
  <2> DEFINE a == Moved(r, t, i)
             b == Moved(r, t, j)
  <2> HIDE DEF a, b
  <2>2. a \in S /\ b \in S /\ Cardinality(B(a)) = i /\ Cardinality(B(b)) = j
    BY <2>1 DEF a, b
  <2>3. ~(b < a) /\ a # b
    <3> HIDE DEF B
    <3> QED BY <1>2, <1>4, <1>5, <2>2
  <2>4. a \in Nat /\ b \in Nat
    BY <1>2, <2>2
  <2> QED BY <2>3, <2>4 DEF a, b
<1>6. ASSUME NEW k \in S PROVE \E j \in 0 .. (len - 1) : Moved(r, t, j) = k
  <2> DEFINE j == Cardinality(B(k))
  <2>1. IsFiniteSet(B(k)) /\ B(k) \subseteq S /\ k \notin B(k) /\ B(k) # S
    BY <1>2, FS_Subset
  <2>2. j \in Nat /\ j < len
    <3> HIDE DEF B
    <3> QED BY <1>2, <2>1, FS_Subset, FS_CardinalityType
  <2>3. j \in 0 .. (len - 1)
    BY <1>2, <2>2
  <2>4. Moved(r, t, j) \in S /\ Cardinality(B(Moved(r, t, j))) = j
    BY <1>3, <2>3
  <2> DEFINE a == Moved(r, t, j)
  <2>5. a = k
    <3> HIDE DEF a
    <3>1. a \in S /\ Cardinality(B(a)) = j
      BY <2>4 DEF a
    <3> HIDE DEF B
    <3>2. ~(a < k) /\ ~(k < a)
      BY <1>4, <2>2, <3>1
    <3> QED BY <1>2, <3>1, <3>2
  <2> QED BY <2>3, <2>5
<1> QED BY <1>5, <1>6 DEF S

\* The entries that endpoint_cleanup_for_tcb leaves are those that the thread did not
\* send, in their order: at[j] is where entry j was.
KeepsOrder(r, n, t, at) ==
  /\ at \in [0 .. (n.q_len - 1) -> Survivors(r, t)]
  /\ \A i, j \in 0 .. (n.q_len - 1) : i < j => at[i] < at[j]
  /\ \A k \in Survivors(r, t) : \E j \in 0 .. (n.q_len - 1) : at[j] = k
  /\ \A j \in 0 .. (n.q_len - 1) : Entry(n, j) = Entry(r, at[j])

\* Withdrawing keeps the order of what is left, and the rendezvous slot is neither
\* filled nor emptied by it.
LEMMA ForgetSenderOrder ==
  ASSUME NEW r \in EndpointRec, EpInv(r), NEW t \in Threads
  PROVE  LET n == ForgetSender(r, t)
         IN  /\ \E at : KeepsOrder(r, n, t, at)
             /\ (n.pending /\ n.q_len = 0) <=> (r.pending /\ r.q_len = 0)
             /\ n.pending_msg = r.pending_msg
<1> DEFINE S == Survivors(r, t)
           len == Cardinality(S)
           n == ForgetSender(r, t)
           I == 0 .. (n.q_len - 1)
<1>1. /\ S \in SUBSET (0 .. (r.q_len - 1)) /\ len \in 0 .. r.q_len /\ r.q_len \in Nat
      /\ len = r.q_len => S = 0 .. (r.q_len - 1)
  BY SurvivorFacts, EndpointAssumption DEF EndpointRec
<1>2. CASE len = r.q_len
  <2>1. n = r
    BY <1>2 DEF ForgetSender
  <2> DEFINE at == [j \in I |-> j]
  <2>2. S = I /\ \A j \in I : at[j] = j
    BY <1>1, <1>2, <2>1
  <2> HIDE DEF n, at
  <2>3. at \in [I -> S]
    BY <2>2 DEF at
  <2>4. KeepsOrder(r, n, t, at)
    BY <2>1, <2>2, <2>3 DEF KeepsOrder
  <2> QED BY <2>1, <2>4 DEF n
<1>3. CASE len # r.q_len
  <2>1. /\ n.q_head = r.q_head /\ n.q_len = len
        /\ n.queue = Shifted(r, t, r.queue)
        /\ n.queue_msgs = Shifted(r, t, r.queue_msgs)
        /\ n.pending = IF len = 0 THEN FALSE ELSE r.pending
        /\ n.pending_msg = r.pending_msg
    BY <1>3 DEF ForgetSender, EndpointRec
  <2>2. r.q_len # 0
    BY <1>1, <1>3
  <2> DEFINE at == [j \in I |-> Moved(r, t, j)]
  <2> HIDE DEF n
  <2>3. I = 0 .. (len - 1)
    BY <2>1
  <2>4. ASSUME NEW j \in I PROVE at[j] \in S /\ Entry(n, j) = Entry(r, at[j])
    <3>1. SlotOf(n, j) = SlotOf(r, j)
      BY <2>1 DEF SlotOf
    <3>2. /\ Moved(r, t, j) \in S
          /\ Shifted(r, t, r.queue)[SlotOf(r, j)] = r.queue[SlotOf(r, Moved(r, t, j))]
      BY <2>3, ShiftedEntry, Zenon
    <3>3. Shifted(r, t, r.queue_msgs)[SlotOf(r, j)] = r.queue_msgs[SlotOf(r, Moved(r, t, j))]
      BY <2>3, ShiftedEntry, ZenonT(60)
    <3> QED BY <2>1, <3>1, <3>2, <3>3, Zenon DEF Entry
  <2>5. /\ \A i, j \in I : i < j => at[i] < at[j]
        /\ \A k \in S : \E j \in I : at[j] = k
    BY <2>3, MovedInOrder, Zenon
  <2>6. at \in [I -> S]
    BY <2>4, Zenon
  <2> HIDE DEF at
  <2>7. KeepsOrder(r, n, t, at)
    BY <2>4, <2>5, <2>6 DEF KeepsOrder
  <2> QED BY <2>1, <2>2, <2>7 DEF n
<1> QED BY <1>2, <1>3

\* The same of the whole clean-up, and no thread but the destroyed one loses its
\* registration.
LEMMA CleanupOrder ==
  ASSUME NEW r \in EndpointRec, EpInv(r), NEW t \in Threads
  PROVE  LET n == endpoint_cleanup_for_tcb(r, t)
         IN  /\ \E at : KeepsOrder(r, n, t, at)
             /\ (n.pending /\ n.q_len = 0) <=> (r.pending /\ r.q_len = 0)
             /\ n.pending_msg = r.pending_msg
             /\ n.has_receiver <=> r.has_receiver /\ r.receiver_tcb # t
             /\ n.has_receiver => n.receiver_tcb = r.receiver_tcb
<1> DEFINE m == ForgetReceiver(r, t)
           n == ForgetSender(m, t)
<1>1. m \in EndpointRec /\ EpInv(m)
  BY ForgetReceiverInv
<1>2. /\ m.q_len = r.q_len /\ m.q_head = r.q_head
      /\ m.queue = r.queue /\ m.queue_msgs = r.queue_msgs /\ m.pending_msg = r.pending_msg
      /\ m.pending <=> r.pending
      /\ m.has_receiver <=> r.has_receiver /\ r.receiver_tcb # t
      /\ m.has_receiver => m.receiver_tcb = r.receiver_tcb
  BY DEF ForgetReceiver, EndpointRec, EpInv
<1>3. endpoint_cleanup_for_tcb(r, t) = n
  BY DEF endpoint_cleanup_for_tcb
<1> HIDE DEF m
<1>4. Survivors(m, t) = Survivors(r, t) /\ \A k : Entry(m, k) = Entry(r, k)
  BY <1>2 DEF Survivors, Entry, SlotOf
<1>5. /\ \E at : KeepsOrder(m, n, t, at)
      /\ (n.pending /\ n.q_len = 0) <=> (m.pending /\ m.q_len = 0)
      /\ n.pending_msg = m.pending_msg
      /\ n.has_receiver = m.has_receiver /\ n.receiver_tcb = m.receiver_tcb
  BY <1>1, ForgetSenderOrder, ForgetSenderInv
<1> HIDE DEF n
<1>6. \E at : KeepsOrder(r, n, t, at)
  <2>1. PICK at : KeepsOrder(m, n, t, at)
    BY <1>5
  <2>2. KeepsOrder(r, n, t, at)
    BY <1>4, <2>1, Zenon DEF KeepsOrder
  <2> QED BY <2>2
<1> QED BY <1>2, <1>3, <1>5, <1>6, Zenon

\* What remains of the hand-over slot and of the registration.
LEMMA CleanupFlags ==
  ASSUME NEW r \in EndpointRec, EpInv(r), NEW t \in Threads, NEW n, n = endpoint_cleanup_for_tcb(r, t)
  PROVE  /\ (n.pending /\ n.q_len = 0) <=> (r.pending /\ r.q_len = 0)
         /\ n.pending_msg = r.pending_msg
         /\ n.has_receiver <=> r.has_receiver /\ r.receiver_tcb # t
         /\ n.has_receiver => n.receiver_tcb = r.receiver_tcb
BY CleanupOrder

-----------------------------------------------------------------------------
\* What waits at an endpoint, in the order in which it is received.

\* How many messages endpoint_recv could return one after another, and the k-th of
\* them: those of the ring or, if it is empty, the one in the rendezvous slot.
Waiting(r) == IF r.q_len > 0 THEN r.q_len ELSE IF r.pending THEN 1 ELSE 0

Out(r, k) == IF r.q_len > 0 THEN Entry(r, k)[2] ELSE r.pending_msg

\* endpoint_send puts the message behind all that wait, or in place of them.
LEMMA SendLast ==
  ASSUME NEW r \in EndpointRec, EpInv(r), SendAccepts(r), NEW s \in Threads, NEW m \in Msgs
  PROVE  LET n == endpoint_send(r, s, m)
         IN  /\ Waiting(n) \in Nat \ {0} /\ Out(n, Waiting(n) - 1) = m
             /\ \A k \in 0 .. (Waiting(n) - 2) :
                  k \in 0 .. (Waiting(r) - 1) /\ Out(n, k) = Out(r, k)
<1>0. r.q_len \in Nat /\ QSize \in Nat
  BY EndpointAssumption DEF EndpointRec
<1>1. CASE r.has_receiver
  <2> DEFINE n == Rendezvous(r, m)
  <2>1. endpoint_send(r, s, m) = n /\ r.q_len = 0
    BY <1>1 DEF endpoint_send, EpInv
  <2>2. n.q_len = 0 /\ n.pending = TRUE /\ n.pending_msg = m
    BY <2>1 DEF Rendezvous, EndpointRec
  <2> HIDE DEF n
  <2>3. Waiting(n) = 1 /\ Out(n, 0) = m
    <3>1. ~(0 > 0)
      OBVIOUS
    <3> QED BY <2>2, <3>1, Zenon DEF Waiting, Out
  <2>4. Waiting(n) \in Nat \ {0} /\ Waiting(n) - 1 = 0 /\ 0 .. (Waiting(n) - 2) = {}
    <3>1. 1 \in Nat \ {0} /\ 1 - 1 = 0 /\ 0 .. (1 - 2) = {}
      OBVIOUS
    <3> QED BY <2>3, <3>1, Zenon
  <2> QED BY <2>1, <2>3, <2>4, Zenon
<1>2. CASE ~r.has_receiver
  <2> DEFINE n == Enqueue(r, s, m)
  <2>1. endpoint_send(r, s, m) = n /\ r.q_len < QSize
    BY <1>2 DEF endpoint_send, SendAccepts
  <2>2. /\ n.q_len = r.q_len + 1 /\ Entry(n, r.q_len) = <<s, m>>
        /\ \A k \in 0 .. (r.q_len - 1) : Entry(n, k) = Entry(r, k)
    BY <1>2, <2>1, EnqueueInv
  <2> HIDE DEF n
  <2>3. Waiting(n) = r.q_len + 1 /\ \A k : Out(n, k) = Entry(n, k)[2]
    BY <1>0, <2>2 DEF Waiting, Out
  <2>4. Out(n, Waiting(n) - 1) = m
    <3>1. Waiting(n) - 1 = r.q_len
      BY <1>0, <2>3
    <3> QED BY <2>2, <2>3, <3>1
  <2>5. ASSUME NEW k \in 0 .. (Waiting(n) - 2)
        PROVE  k \in 0 .. (Waiting(r) - 1) /\ Out(n, k) = Out(r, k)
    <3>1. k \in 0 .. (r.q_len - 1) /\ r.q_len > 0
      BY <1>0, <2>3
    <3> QED BY <2>2, <2>3, <3>1 DEF Waiting, Out
  <2> QED BY <1>0, <2>1, <2>3, <2>4, <2>5
<1> QED BY <1>1, <1>2

\* endpoint_recv returns the first message that waits.
LEMMA ReceiveFirst ==
  ASSUME NEW r \in EndpointRec, EpInv(r), HasMessage(r), NEW u \in Threads
  PROVE  LET n == endpoint_recv(r, u)
         IN  /\ Waiting(r) \in Nat \ {0} /\ Waiting(n) = Waiting(r) - 1
             /\ Received(r) = Out(r, 0)
             /\ \A k \in 0 .. (Waiting(n) - 1) : Out(n, k) = Out(r, k + 1)
<1>0. r.q_len \in Nat /\ r.q_head \in Nat /\ r.q_head < QSize /\ QSize \in Nat \ {0}
  BY EndpointAssumption DEF EndpointRec, Slots
<1>1. CASE r.q_len > 0
  <2> DEFINE n == Dequeue(r)
  <2>1. endpoint_recv(r, u) = n
    BY <1>0, <1>1 DEF endpoint_recv
  <2>2. /\ n.q_len = r.q_len - 1
        /\ \A k \in 0 .. (r.q_len - 2) : Entry(n, k) = Entry(r, k + 1)
    BY <1>1, DequeueInv
  <2>3. r.q_len - 1 = 0 => n.pending = FALSE
    BY DEF Dequeue, EndpointRec
  <2> HIDE DEF n
  <2>4. Waiting(r) = r.q_len /\ Waiting(n) = r.q_len - 1
    BY <1>0, <1>1, <2>2, <2>3 DEF Waiting
  <2>5. Received(r) = Out(r, 0)
    <3>1. SlotOf(r, 0) = r.q_head
      BY <1>0, SlotFacts
    <3> QED BY <1>1, <3>1 DEF Received, Out, Entry
  <2>6. ASSUME NEW k \in 0 .. (Waiting(n) - 1) PROVE Out(n, k) = Out(r, k + 1)
    <3>1. k \in 0 .. (r.q_len - 2) /\ n.q_len > 0
      BY <1>0, <2>2, <2>4
    <3> QED BY <1>1, <2>2, <3>1 DEF Out
  <2> QED BY <1>0, <1>1, <2>1, <2>4, <2>5, <2>6
<1>2. CASE r.q_len = 0
  <2> DEFINE n == TakeRendezvous(r)
  <2>1. r.pending
    BY <1>2 DEF HasMessage
  <2>2. endpoint_recv(r, u) = n
    BY <1>2, <2>1 DEF endpoint_recv
  <2>3. n.q_len = 0 /\ n.pending = FALSE
    BY <1>2 DEF TakeRendezvous, EndpointRec
  <2> HIDE DEF n
  <2> QED BY <1>2, <2>1, <2>2, <2>3 DEF Waiting, Received, Out
<1> QED BY <1>0, <1>1, <1>2

\* Nothing waits where a receiver is registered.
LEMMA BlockEmpty ==
  ASSUME NEW r \in EndpointRec, ~HasMessage(r), NEW u \in Threads
  PROVE  Waiting(endpoint_recv(r, u)) = 0
<1>1. r.q_len = 0 /\ ~r.pending
  BY EndpointAssumption DEF EndpointRec, HasMessage
<1>2. endpoint_recv(r, u) = Register(r, u)
  BY <1>1 DEF endpoint_recv
<1>3. Register(r, u).q_len = 0 /\ ~Register(r, u).pending
  BY <1>1 DEF Register, EndpointRec
<1> QED BY <1>2, <1>3 DEF Waiting

\* What waits after a clean-up has waited before it, in the same order.
LEMMA CleanupKeeps ==
  ASSUME NEW r \in EndpointRec, EpInv(r), NEW t \in Threads
  PROVE  LET n == endpoint_cleanup_for_tcb(r, t)
         IN  \E at :
               /\ \A j \in 0 .. (Waiting(n) - 1) :
                    at[j] \in 0 .. (Waiting(r) - 1) /\ Out(n, j) = Out(r, at[j])
               /\ \A i, j \in 0 .. (Waiting(n) - 1) : i < j => at[i] < at[j]
<1> DEFINE n == endpoint_cleanup_for_tcb(r, t)
<1>1. /\ n \in EndpointRec /\ \E at : KeepsOrder(r, n, t, at)
      /\ (n.pending /\ n.q_len = 0) <=> (r.pending /\ r.q_len = 0)
      /\ n.pending_msg = r.pending_msg
  BY CleanupInv, CleanupOrder
<1> HIDE DEF n
<1>2. PICK at : KeepsOrder(r, n, t, at)
  BY <1>1
<1>3. n.q_len \in Nat /\ r.q_len \in Nat /\ Survivors(r, t) \in SUBSET (0 .. (r.q_len - 1))
  BY <1>1, SurvivorFacts, EndpointAssumption DEF EndpointRec
<1>4. CASE n.q_len > 0
  <2>1. \A j \in 0 .. (n.q_len - 1) : at[j] \in 0 .. (r.q_len - 1) /\ Entry(n, j) = Entry(r, at[j])
    BY <1>2, <1>3 DEF KeepsOrder
  <2>2. r.q_len > 0
    <3>1. 0 \in 0 .. (n.q_len - 1)
      BY <1>3, <1>4
    <3>2. at[0] \in 0 .. (r.q_len - 1)
      BY <2>1, <3>1
    <3> QED BY <1>3, <3>2
  <2>3. /\ \A j \in 0 .. (n.q_len - 1) : Out(n, j) = Out(r, at[j])
        /\ Waiting(n) = n.q_len /\ Waiting(r) = r.q_len
    BY <1>4, <2>1, <2>2 DEF Out, Waiting
  <2> QED BY <1>2, <2>1, <2>3, Zenon DEF KeepsOrder, n
<1>5. CASE n.q_len = 0
  <2>1. CASE n.pending
    <3>1. Waiting(n) = 1 /\ Waiting(r) = 1 /\ Out(n, 0) = Out(r, 0)
      BY <1>1, <1>5, <2>1 DEF Waiting, Out
    <3>2. \A j \in 0 .. (1 - 1) : j = 0
      OBVIOUS
    <3> DEFINE z == [j \in {0} |-> 0]
    <3>3. z[0] = 0
      OBVIOUS
    <3> HIDE DEF z
    <3>4. /\ \A j \in 0 .. (Waiting(n) - 1) :
               z[j] \in 0 .. (Waiting(r) - 1) /\ Out(n, j) = Out(r, z[j])
          /\ \A i, j \in 0 .. (Waiting(n) - 1) : i < j => z[i] < z[j]
      BY <3>1, <3>2, <3>3
    <3> QED BY <3>4 DEF n
  <2>2. CASE ~n.pending
    <3>1. Waiting(n) = 0
      BY <1>5, <2>2 DEF Waiting
    <3>2. 0 .. (0 - 1) = {}
      OBVIOUS
    <3> QED BY <3>1, <3>2 DEF n
  <2> QED BY <2>1, <2>2
<1> QED BY <1>3, <1>4, <1>5

\* The queue that the ring stands for.
LEMMA FifoFacts ==
  ASSUME NEW r \in EndpointRec, EpInv(r)
  PROVE  /\ Fifo(r) \in Seq(Threads \X Msgs) /\ Len(Fifo(r)) = r.q_len /\ r.q_len \in Nat
         /\ \A k \in 1 .. r.q_len : Fifo(r)[k] = Entry(r, k - 1)
<1>1. r.q_len \in Nat
  BY EndpointAssumption DEF EndpointRec
<1>2. \A k \in 1 .. r.q_len : k - 1 \in 0 .. (r.q_len - 1)
  BY <1>1
<1>3. \A k \in 1 .. r.q_len : Entry(r, k - 1) \in Threads \X Msgs
  BY <1>2 DEF EpInv, LiveEntry, Entry
<1>4. Fifo(r) = [k \in 1 .. r.q_len |-> Entry(r, k - 1)]
  BY DEF Fifo, Entry
<1> QED BY <1>1, <1>3, <1>4

\* An empty ring holds no message.
LEMMA NoFifo ==
  ASSUME NEW r, r.q_len = 0
  PROVE  Fifo(r) = <<>>
<1>1. 1 .. 0 = {}
  OBVIOUS
<1> QED BY <1>1 DEF Fifo

\* A queued message goes to the end.
LEMMA EnqueueFifo ==
  ASSUME NEW r \in EndpointRec, EpInv(r), ~r.has_receiver, r.q_len < QSize,
         NEW s \in Threads, NEW m \in Msgs
  PROVE  Fifo(Enqueue(r, s, m)) = Append(Fifo(r), <<s, m>>)
<1> DEFINE n == Enqueue(r, s, m)
<1>1. /\ n \in EndpointRec /\ EpInv(n) /\ n.q_len = r.q_len + 1
      /\ Entry(n, r.q_len) = <<s, m>>
      /\ \A k \in 0 .. (r.q_len - 1) : Entry(n, k) = Entry(r, k)
  BY EnqueueInv
<1> HIDE DEF n
<1> DEFINE a == Fifo(r)
           b == Fifo(n)
<1>2. /\ a \in Seq(Threads \X Msgs) /\ Len(a) = r.q_len /\ r.q_len \in Nat
      /\ \A k \in 1 .. r.q_len : a[k] = Entry(r, k - 1)
  BY FifoFacts
<1>3. /\ b \in Seq(Threads \X Msgs) /\ Len(b) = r.q_len + 1
      /\ \A k \in 1 .. (r.q_len + 1) : b[k] = Entry(n, k - 1)
  BY <1>1, FifoFacts, Zenon
<1> HIDE DEF a, b
<1>4. <<s, m>> \in Threads \X Msgs
  OBVIOUS
<1>5. /\ Append(a, <<s, m>>) \in Seq(Threads \X Msgs) /\ Len(Append(a, <<s, m>>)) = r.q_len + 1
      /\ \A k \in 1 .. r.q_len : Append(a, <<s, m>>)[k] = a[k]
      /\ Append(a, <<s, m>>)[r.q_len + 1] = <<s, m>>
  BY <1>2, <1>4
<1>6. ASSUME NEW k \in 1 .. (r.q_len + 1) PROVE b[k] = Append(a, <<s, m>>)[k]
  <2>1. CASE k = r.q_len + 1
    <3>1. k - 1 = r.q_len
      BY <1>2, <2>1
    <3> QED BY <1>1, <1>3, <1>5, <2>1, <3>1, Zenon
  <2>2. CASE k # r.q_len + 1
    <3>1. k \in 1 .. r.q_len /\ k - 1 \in 0 .. (r.q_len - 1)
      BY <1>2, <2>2
    <3> QED BY <1>1, <1>2, <1>3, <1>5, <3>1
  <2> QED BY <2>1, <2>2, Zenon
<1>7. b = Append(a, <<s, m>>)
  BY <1>3, <1>5, <1>6, SeqEqual, Zenon
<1> QED BY <1>7 DEF a, b, n

\* The oldest entry is taken away.
LEMMA DequeueFifo ==
  ASSUME NEW r \in EndpointRec, EpInv(r), r.q_len > 0
  PROVE  Fifo(r) # <<>> /\ Fifo(Dequeue(r)) = Tail(Fifo(r))
<1> DEFINE n == Dequeue(r)
<1>1. /\ n \in EndpointRec /\ EpInv(n) /\ n.q_len = r.q_len - 1
      /\ \A k \in 0 .. (r.q_len - 2) : Entry(n, k) = Entry(r, k + 1)
  BY DequeueInv
<1> HIDE DEF n
<1> DEFINE a == Fifo(r)
           b == Fifo(n)
<1>2. /\ a \in Seq(Threads \X Msgs) /\ Len(a) = r.q_len /\ r.q_len \in Nat
      /\ \A k \in 1 .. r.q_len : a[k] = Entry(r, k - 1)
  BY FifoFacts
<1>3. /\ b \in Seq(Threads \X Msgs) /\ Len(b) = r.q_len - 1
      /\ \A k \in 1 .. (r.q_len - 1) : b[k] = Entry(n, k - 1)
  BY <1>1, FifoFacts
<1> HIDE DEF a, b
<1>4. a # <<>>
  BY <1>2
<1>5. /\ Tail(a) \in Seq(Threads \X Msgs) /\ Len(Tail(a)) = r.q_len - 1
      /\ \A k \in 1 .. (r.q_len - 1) : Tail(a)[k] = a[k + 1]
  BY <1>2, <1>4
<1>6. ASSUME NEW k \in 1 .. (r.q_len - 1) PROVE b[k] = Tail(a)[k]
  <2>1. /\ k - 1 \in 0 .. (r.q_len - 2) /\ k + 1 \in 1 .. r.q_len
        /\ (k - 1) + 1 = k /\ (k + 1) - 1 = k
    BY <1>2
  <2>2. b[k] = Entry(r, k) /\ Tail(a)[k] = a[k + 1]
    BY <1>1, <1>3, <1>5, <2>1
  <2>3. a[k + 1] = Entry(r, k)
    BY <1>2, <2>1
  <2> QED BY <2>2, <2>3, Zenon
<1>7. b = Tail(a)
  BY <1>3, <1>5, <1>6, SeqEqual
<1> QED BY <1>4, <1>7 DEF a, b, n

-----------------------------------------------------------------------------

(***************************************************************************)
(* The inductive invariant: every endpoint is in order (EpInv), a thread   *)
(* with a cspace is in use, and endpoints refer only to threads in use     *)
(* that receive on them.                                                   *)
(***************************************************************************)

\* A thread with a cspace is not free.
RootedInUse == \A t \in Threads : cspace[t] # NoCNode => t \in inuse

\* Endpoints refer to threads in use only.
RefersInUse == \A e \in Endpoints, t \in Threads : Refers(ep[e], t) => t \in inuse

\* The registered receiver is a thread that receives on the endpoint.
ReceiverReceives ==
  \A e \in Endpoints :
    ep[e].has_receiver => /\ ep[e].receiver_tcb \in Threads
                          /\ <<ep[e].receiver_tcb, e>> \in Recvs

IpcInv ==
  /\ TypeOK
  /\ \A e \in Endpoints : EpInv(ep[e])
  /\ RootedInUse
  /\ RefersInUse
  /\ ReceiverReceives

\* A thread that makes a system call is in use.
LEMMA TrapInUse ==
  ASSUME TypeOK, RootedInUse, NEW t \in Threads, MayTrap(t)
  PROVE  t \in inuse
<1>1. cspace[t] \in CNodes
  BY DEF MayTrap, TypeOK
<1>2. cspace[t] # NoCNode
  BY <1>1, IpcAssumption
<1> QED BY <1>2 DEF RootedInUse

\* The invariant holds initially.
LEMMA InitInv == Init => IpcInv
<1> SUFFICES ASSUME Init PROVE IpcInv
  OBVIOUS
<1> USE DEF Init
<1>1. \A e \in Endpoints : ep[e] \in EndpointRec /\ EpInv(ep[e])
  BY ZeroInv
<1>2. TypeOK
  <2>1. MaxMsgs \in Nat /\ 0 \in 0 .. MaxMsgs
    BY EndpointAssumption
  <2>2. ep \in [Endpoints -> EndpointRec]
    BY <1>1
  <2>3. <<>> \in Seq(Msgs)
    OBVIOUS
  <2>4. cspace \in [Threads -> CNodes \cup {NoCNode}]
    BY IpcAssumption
  <2> QED BY <2>1, <2>2, <2>3, <2>4 DEF TypeOK, TcbStates
<1>3. RootedInUse
  BY DEF RootedInUse
<1>4. RefersInUse
  BY DEF RefersInUse
<1>5. ReceiverReceives
  BY DEF ReceiverReceives, EndpointZero
<1> QED BY <1>1, <1>2, <1>3, <1>4, <1>5 DEF IpcInv

\* Waking a receiver gives thread states.
LEMMA WokenType ==
  ASSUME TypeOK, NEW e \in Endpoints
  PROVE  /\ Woken(e) \in [Threads -> TcbStates]
         /\ \A u \in Threads : Woken(e)[u] \in {state[u], "RUNNABLE"}
         /\ ep[e].has_receiver =>
              \A u \in Threads : ep[e].receiver_tcb = u => Woken(e)[u] # "BLOCKED_RECV"
<1>1. state \in [Threads -> TcbStates]
  BY DEF TypeOK
<1>2. \A s \in TcbStates : tcb_wake_from_ipc(s) \in ({s, "RUNNABLE"} \cap TcbStates) \ {"BLOCKED_RECV"}
  BY Zenon DEF TcbStates, tcb_wake_from_ipc
<1> QED BY <1>1, <1>2 DEF Woken

\* A send preserves the invariant, whatever it makes of the thread states.
LEMMA TransmitInv ==
  ASSUME IpcInv, NEW t \in Threads, NEW e \in Endpoints, Transmit(t, e),
         state' \in [Threads -> TcbStates]
  PROVE  IpcInv'
<1> DEFINE m == <<t, composed[t] + 1>>
<1>1. t \in inuse
  BY TrapInUse DEF IpcInv, Transmit
<1>2. m \in Msgs /\ composed[t] + 1 \in 0 .. MaxMsgs
  BY EndpointAssumption DEF Transmit, IpcInv, TypeOK, Msgs
<1>3. ep[e] \in EndpointRec /\ EpInv(ep[e]) /\ SendAccepts(ep[e])
  BY DEF IpcInv, TypeOK, Transmit
<1> DEFINE n == endpoint_send(ep[e], t, m)
<1>4. /\ n \in EndpointRec /\ EpInv(n)
      /\ \A u \in Threads : Refers(n, u) => u = t \/ Refers(ep[e], u)
  BY <1>2, <1>3, SendInv
<1>5. n.has_receiver = FALSE
  BY <1>3 DEF endpoint_send, Rendezvous, Enqueue, EndpointRec
<1>6. /\ ep' = [ep EXCEPT ![e] = n]
      /\ buffer' = [buffer EXCEPT ![t] = m]
      /\ composed' = [composed EXCEPT ![t] = composed[t] + 1]
      /\ accepted' = [accepted EXCEPT ![e] = Append(accepted[e], m)]
      /\ UNCHANGED <<inuse, cspace, stocked, delivered>>
  BY DEF Transmit
<1> HIDE DEF m, n
<1>7. TypeOK'
  <2>1. Append(accepted[e], m) \in Seq(Msgs)
    <3>1. accepted[e] \in Seq(Msgs)
      BY Zenon DEF IpcInv, TypeOK
    <3> QED BY <1>2, <3>1
  <2> QED BY <1>2, <1>4, <1>6, <2>1 DEF IpcInv, TypeOK
<1>8. \A f \in Endpoints : ep'[f] = IF f = e THEN n ELSE ep[f]
  BY <1>6 DEF IpcInv, TypeOK
<1>9. \A f \in Endpoints : EpInv(ep'[f])
  BY <1>4, <1>8 DEF IpcInv
<1>10. RootedInUse'
  BY <1>6 DEF IpcInv, RootedInUse
<1>11. RefersInUse'
  BY <1>1, <1>4, <1>6, <1>8 DEF IpcInv, RefersInUse
<1>12. ReceiverReceives'
  BY <1>5, <1>8 DEF IpcInv, ReceiverReceives
<1> QED BY <1>7, <1>9, <1>10, <1>11, <1>12 DEF IpcInv

\* Receiving a message preserves the invariant.
LEMMA ReceiveStep ==
  ASSUME IpcInv, NEW t \in Threads, NEW e \in Endpoints, Receive(t, e)
  PROVE  IpcInv'
<1> DEFINE n == endpoint_recv(ep[e], t)
           got == Received(ep[e])
<1>1. ep[e] \in EndpointRec /\ EpInv(ep[e]) /\ HasMessage(ep[e])
  BY Zenon DEF IpcInv, TypeOK, Receive
<1>2. /\ n \in EndpointRec /\ EpInv(n)
      /\ got \in Msgs
      /\ ~ep[e].has_receiver
      /\ \A u \in Threads : Refers(n, u) => Refers(ep[e], u)
  BY <1>1, ReceiveInv
<1>3. /\ ep' = [ep EXCEPT ![e] = n]
      /\ buffer' = [buffer EXCEPT ![t] = got]
      /\ delivered' = [delivered EXCEPT ![e] = Append(delivered[e], got)]
      /\ UNCHANGED <<inuse, cspace, stocked, composed, accepted>>
  BY Zenon DEF Receive
<1>4. state' \in [Threads -> TcbStates]
  <2>1. state \in [Threads -> TcbStates]
    BY DEF IpcInv, TypeOK
  <2>2. \A s \in TcbStates : tcb_resume(s) \in TcbStates
    BY DEF TcbStates, tcb_resume
  <2> QED BY <2>1, <2>2, Zenon DEF Receive
<1> HIDE DEF got, n
<1>5. TypeOK'
  <2>1. Append(delivered[e], got) \in Seq(Msgs)
    <3>1. delivered[e] \in Seq(Msgs)
      BY Zenon DEF IpcInv, TypeOK
    <3> QED BY <1>2, <3>1
  <2> QED BY <1>2, <1>3, <1>4, <2>1, Zenon DEF IpcInv, TypeOK
<1>6. \A f \in Endpoints : ep'[f] = IF f = e THEN n ELSE ep[f]
  BY <1>3 DEF IpcInv, TypeOK
<1>7. \A f \in Endpoints : EpInv(ep'[f])
  BY <1>2, <1>6, Zenon DEF IpcInv
<1>8. RootedInUse'
  BY <1>3 DEF IpcInv, RootedInUse
<1>9. RefersInUse'
  BY <1>2, <1>3, <1>6 DEF IpcInv, RefersInUse
<1>10. ReceiverReceives'
  <2> SUFFICES ASSUME NEW f \in Endpoints, ep'[f].has_receiver
               PROVE  ep'[f].receiver_tcb \in Threads /\ <<ep'[f].receiver_tcb, f>> \in Recvs
    BY DEF ReceiverReceives
  <2>1. CASE f # e
    BY <1>6, <2>1 DEF IpcInv, ReceiverReceives
  <2>2. CASE f = e
    <3>1. ~n.has_receiver
      <4>1. ep[e].q_len \in 0 .. QSize /\ QSize \in Nat
        BY <1>1, EndpointAssumption DEF EndpointRec
      <4>2. CASE ep[e].q_len > 0
        <5>1. n = Dequeue(ep[e])
          BY <4>1, <4>2 DEF endpoint_recv, n
        <5> QED BY <1>1, <4>2, <5>1, DequeueInv, Zenon
      <4>3. CASE ep[e].q_len = 0
        <5>1. ep[e].pending
          BY <1>1, <4>3 DEF HasMessage
        <5>2. n = TakeRendezvous(ep[e])
          BY <4>3, <5>1 DEF endpoint_recv, n
        <5> QED BY <1>1, <5>2 DEF TakeRendezvous, EndpointRec
      <4> QED BY <4>1, <4>2, <4>3
    <3> QED BY <1>6, <2>2, <3>1
  <2> QED BY <2>1, <2>2
<1> QED BY <1>5, <1>7, <1>8, <1>9, <1>10 DEF IpcInv

\* Blocking in a receive preserves the invariant.
LEMMA BlockStep ==
  ASSUME IpcInv, NEW t \in Threads, NEW e \in Endpoints, BlockInRecv(t, e)
  PROVE  IpcInv'
<1> DEFINE n == endpoint_recv(ep[e], t)
<1>1. ep[e] \in EndpointRec /\ EpInv(ep[e]) /\ ~HasMessage(ep[e])
  BY DEF IpcInv, TypeOK, BlockInRecv
<1>2. /\ n \in EndpointRec /\ EpInv(n)
      /\ n.receiver_tcb = t
      /\ \A u \in Threads : Refers(n, u) => u = t
  BY <1>1, BlockInv
<1>3. /\ ep' = [ep EXCEPT ![e] = n]
      /\ state' = [state EXCEPT ![t] = "BLOCKED_RECV"]
      /\ UNCHANGED <<inuse, cspace, stocked, buffer, composed, accepted, delivered>>
      /\ <<t, e>> \in Recvs
  BY DEF BlockInRecv
<1>4. t \in inuse
  BY TrapInUse DEF IpcInv, BlockInRecv
<1> HIDE DEF n
<1>5. TypeOK'
  BY <1>2, <1>3 DEF IpcInv, TypeOK, TcbStates
<1>6. \A f \in Endpoints : ep'[f] = IF f = e THEN n ELSE ep[f]
  BY <1>3 DEF IpcInv, TypeOK
<1>7. \A f \in Endpoints : EpInv(ep'[f])
  BY <1>2, <1>6 DEF IpcInv
<1>8. RootedInUse'
  BY <1>3 DEF IpcInv, RootedInUse
<1>9. RefersInUse'
  BY <1>2, <1>3, <1>4, <1>6 DEF IpcInv, RefersInUse
<1>10. ReceiverReceives'
  BY <1>2, <1>3, <1>6 DEF IpcInv, ReceiverReceives
<1> QED BY <1>5, <1>7, <1>8, <1>9, <1>10 DEF IpcInv

\* The TCB invocations preserve the invariant.
LEMMA InvokeStep ==
  ASSUME IpcInv, NEW a \in Threads, NEW t \in Threads,
         InvokeResume(a, t) \/ InvokeSuspend(a, t) \/ InvokeConfigure(a, t)
  PROVE  IpcInv'
<1>1. state' \in [Threads -> TcbStates]
  <2>1. state \in [Threads -> TcbStates]
    BY DEF IpcInv, TypeOK
  <2>2. \A s \in TcbStates : /\ tcb_resume(s) \in TcbStates
                             /\ tcb_wake_from_ipc(s) \in TcbStates
                             /\ tcb_suspend(s) \in TcbStates
                             /\ tcb_configure(s) \in TcbStates
    BY DEF TcbStates, tcb_resume, tcb_wake_from_ipc, tcb_suspend, tcb_configure
  <2> QED BY <2>1, <2>2 DEF InvokeResume, InvokeSuspend, InvokeConfigure
<1>2. /\ UNCHANGED <<stocked, buffer, ep, composed, accepted, delivered>>
      /\ \/ UNCHANGED <<inuse, cspace>>
         \/ inuse' = inuse \cup {t} /\ cspace' = [cspace EXCEPT ![t] = Root]
  BY DEF InvokeResume, InvokeSuspend, InvokeConfigure
<1>3. TypeOK'
  BY <1>1, <1>2, IpcAssumption, ZenonT(60) DEF IpcInv, TypeOK
<1>4. RootedInUse'
  BY <1>2 DEF IpcInv, RootedInUse, TypeOK
<1>5. RefersInUse'
  BY <1>2 DEF IpcInv, RefersInUse
<1>6. ReceiverReceives' /\ \A e \in Endpoints : EpInv(ep'[e])
  BY <1>2 DEF IpcInv, ReceiverReceives
<1> QED BY <1>3, <1>4, <1>5, <1>6, Zenon DEF IpcInv

\* process_create preserves the invariant.
LEMMA CreateStep ==
  ASSUME IpcInv, NEW t \in Threads, ProcessCreate(t)
  PROVE  IpcInv'
<1> USE DEF ProcessCreate
<1>1. TypeOK'
  BY DEF IpcInv, TypeOK, TcbStates
<1>2. RootedInUse'
  BY DEF IpcInv, RootedInUse, TypeOK
<1>3. RefersInUse'
  BY DEF IpcInv, RefersInUse
<1>4. ReceiverReceives' /\ \A e \in Endpoints : EpInv(ep'[e])
  BY Zenon DEF IpcInv, ReceiverReceives
<1> QED BY <1>1, <1>2, <1>3, <1>4, Zenon DEF IpcInv

\* process_destroy preserves the invariant: no endpoint refers to the thread
\* any longer.
LEMMA DestroyStep ==
  ASSUME IpcInv, NEW t \in Threads, ProcessDestroy(t)
  PROVE  IpcInv'
<1> DEFINE n(e) == endpoint_cleanup_for_tcb(ep[e], t)
<1>1. \A e \in Endpoints : ep[e] \in EndpointRec /\ EpInv(ep[e])
  BY DEF IpcInv, TypeOK
<1>2. \A e \in Endpoints : /\ n(e) \in EndpointRec /\ EpInv(n(e))
                           /\ ~Refers(n(e), t)
                           /\ \A u \in Threads : Refers(n(e), u) => Refers(ep[e], u)
  BY <1>1, CleanupInv
<1>3. /\ ep' = [e \in Endpoints |-> n(e)]
      /\ stocked' = stocked \ {cspace[t]}
      /\ cspace' = [cspace EXCEPT ![t] = NoCNode]
      /\ inuse' = inuse \ {t}
      /\ state' = [state EXCEPT ![t] = "INACTIVE"]
      /\ buffer' = [buffer EXCEPT ![t] = NoMsg]
      /\ UNCHANGED <<composed, accepted, delivered>>
  BY DEF ProcessDestroy
<1> HIDE DEF n
<1>4. \A e \in Endpoints : ep'[e] = n(e)
  BY <1>3
<1>5. TypeOK'
  BY <1>2, <1>3 DEF IpcInv, TypeOK, TcbStates
<1>6. RootedInUse'
  BY <1>3 DEF IpcInv, RootedInUse, TypeOK
<1>7. RefersInUse'
  BY <1>2, <1>3, <1>4 DEF IpcInv, RefersInUse
<1>8. ReceiverReceives'
  <2> SUFFICES ASSUME NEW e \in Endpoints, ep'[e].has_receiver
               PROVE  ep'[e].receiver_tcb \in Threads /\ <<ep'[e].receiver_tcb, e>> \in Recvs
    BY DEF ReceiverReceives
  <2> DEFINE m == ForgetReceiver(ep[e], t)
  <2>1. m \in EndpointRec /\ EpInv(m)
    BY <1>1, ForgetReceiverInv, Zenon
  <2>2. ep'[e] = ForgetSender(m, t)
    BY <1>4 DEF n, endpoint_cleanup_for_tcb
  <2>3. m.has_receiver /\ ep'[e].receiver_tcb = m.receiver_tcb
    <3> HIDE DEF m
    <3>1. /\ ForgetSender(m, t).has_receiver = m.has_receiver
          /\ ForgetSender(m, t).receiver_tcb = m.receiver_tcb
      BY <2>1, ForgetSenderInv
    <3> QED BY <2>2, <3>1, Zenon
  <2>4. m = ep[e]
    BY <1>1, <2>3 DEF ForgetReceiver, EndpointRec
  <2> QED BY <2>3, <2>4, Zenon DEF IpcInv, ReceiverReceives
<1>9. \A e \in Endpoints : EpInv(ep'[e])
  BY <1>2, <1>4
<1> QED BY <1>5, <1>6, <1>7, <1>8, <1>9 DEF IpcInv

\* Every step preserves the invariant.
LEMMA NextInv == IpcInv /\ [Next]_vars => IpcInv'
<1> SUFFICES ASSUME IpcInv, [Next]_vars PROVE IpcInv'
  OBVIOUS
<1>1. ASSUME NEW t \in Threads, NEW e \in Endpoints, SysCall(t, e) PROVE IpcInv'
  <2>1. Woken(e) \in [Threads -> TcbStates]
    BY WokenType, Zenon DEF IpcInv
  <2>2. state' \in [Threads -> TcbStates]
    BY <1>1, <2>1 DEF SysCall, TcbStates
  <2> QED BY <1>1, <2>2, TransmitInv DEF SysCall
<1>2. ASSUME NEW t \in Threads, NEW e \in Endpoints, SysSend(t, e) PROVE IpcInv'
  <2>1. Woken(e) \in [Threads -> TcbStates]
    BY WokenType DEF IpcInv
  <2> QED BY <1>2, <2>1, TransmitInv DEF SysSend
<1>3. CASE UNCHANGED vars
  <2> USE <1>3 DEF vars
  <2>1. TypeOK'
    BY DEF IpcInv, TypeOK
  <2>2. RootedInUse' /\ RefersInUse' /\ ReceiverReceives'
    BY Zenon DEF IpcInv, RootedInUse, RefersInUse, ReceiverReceives
  <2> QED BY <2>1, <2>2 DEF IpcInv
<1> QED BY <1>1, <1>2, <1>3, ReceiveStep, BlockStep, InvokeStep, CreateStep, DestroyStep DEF Next

\* IpcInv is an invariant of IPC.
THEOREM IpcInvariant == Spec => []IpcInv
BY InitInv, NextInv, PTL DEF Spec

\* Every reachable state is type-correct, whatever the number of threads,
\* endpoints and messages and the ring size.
THEOREM TypeCorrect == Spec => []TypeOK
<1>1. IpcInv => TypeOK
  BY DEF IpcInv
<1> QED BY <1>1, IpcInvariant, PTL

\* The ring indices and the flags of every endpoint agree in every reachable
\* state (endpoint_send, endpoint_recv, endpoint_cleanup_for_tcb).
THEOREM RingIsConsistent == Spec => []RingConsistent
<1>1. IpcInv => RingConsistent
  BY Zenon DEF IpcInv, EpInv, RingConsistent
<1> QED BY <1>1, IpcInvariant, PTL

\* No endpoint ever refers to a thread that process_destroy has destroyed.
THEOREM NothingDangles == Spec => []NoDanglingThread
<1>1. IpcInv => NoDanglingThread
  <2> SUFFICES ASSUME IpcInv, NEW e \in Endpoints, NEW t \in Threads \ inuse
               PROVE  /\ ~(ep[e].has_receiver /\ ep[e].receiver_tcb = t)
                      /\ \A k \in 0 .. (ep[e].q_len - 1) : ep[e].queue[SlotOf(ep[e], k)] # t
    BY DEF NoDanglingThread
  <2>1. ~Refers(ep[e], t)
    BY DEF IpcInv, RefersInUse
  <2> QED BY <2>1 DEF Refers
<1> QED BY <1>1, IpcInvariant, PTL

(***************************************************************************)
(* No lost wake-up.  Where an endpoint has one receiving thread, nobody    *)
(* takes the place of a registered receiver; a send to it wakes it, and    *)
(* nothing else ends the registration while it sleeps.                     *)
(***************************************************************************)

\* Thread u is registered at endpoint e, which has no message.
Registered(u, e) ==
  ep[e].has_receiver /\ ep[e].receiver_tcb = u /\ ~HasMessage(ep[e])

\* A send wakes the receiver registered at its endpoint.
LEMMA TransmitKeepsWakeup ==
  ASSUME IpcInv, NoLostWakeup, NEW t \in Threads, NEW e \in Endpoints, Transmit(t, e),
         \A u \in Threads : state'[u] = "BLOCKED_RECV" => Woken(e)[u] = "BLOCKED_RECV"
  PROVE  NoLostWakeup'
<1> SUFFICES ASSUME NEW u \in Threads, Woken(e)[u] = "BLOCKED_RECV"
             PROVE  \E f \in Endpoints : Registered(u, f)'
  BY Zenon DEF NoLostWakeup, Registered
<1>1. state[u] = "BLOCKED_RECV"
  BY WokenType, Zenon DEF IpcInv
<1>2. PICK f \in Endpoints : Registered(u, f)
  BY <1>1 DEF NoLostWakeup, Registered
<1>3. f # e
  BY <1>2, WokenType, Zenon DEF IpcInv, Registered
<1>4. ep'[f] = ep[f]
  BY <1>3, Zenon DEF Transmit, IpcInv, TypeOK
<1> QED BY <1>2, <1>4, Zenon DEF Registered, HasMessage

\* Every step keeps the wake-up of a blocked receiver in place.
LEMMA NextKeepsWakeup ==
  ASSUME OneReceiver, IpcInv, NoLostWakeup, [Next]_vars
  PROVE  NoLostWakeup'
<1> USE DEF Registered
<1>0. \A u \in Threads : state[u] = "BLOCKED_RECV" => \E f \in Endpoints : Registered(u, f)
  BY DEF NoLostWakeup
<1>T. /\ state \in [Threads -> TcbStates]
      /\ ep \in [Endpoints -> EndpointRec]
  BY DEF IpcInv, TypeOK
<1>1. ASSUME NEW t \in Threads, NEW e \in Endpoints, SysCall(t, e) PROVE NoLostWakeup'
  <2>1. Woken(e) \in [Threads -> TcbStates]
    BY WokenType DEF IpcInv
  <2>2. \A u \in Threads : state'[u] = "BLOCKED_RECV" => Woken(e)[u] = "BLOCKED_RECV"
    BY <1>1, <2>1 DEF SysCall
  <2> QED BY <1>1, <2>2, TransmitKeepsWakeup DEF SysCall
<1>2. ASSUME NEW t \in Threads, NEW e \in Endpoints, SysSend(t, e) PROVE NoLostWakeup'
  BY <1>2, TransmitKeepsWakeup DEF SysSend
<1>3. ASSUME NEW t \in Threads, NEW e \in Endpoints, Receive(t, e) PROVE NoLostWakeup'
  <2>1. ~ep[e].has_receiver
    BY <1>3, <1>T, ReceiveInv, Zenon DEF Receive, IpcInv
  <2>2. \A u \in Threads : state'[u] = "BLOCKED_RECV" => state[u] = "BLOCKED_RECV"
    BY <1>3, <1>T, Zenon DEF Receive, tcb_resume, TcbStates
  <2>3. \A f \in Endpoints : f # e => ep'[f] = ep[f]
    BY <1>3, <1>T, Zenon DEF Receive
  <2> SUFFICES ASSUME NEW u \in Threads, state'[u] = "BLOCKED_RECV"
               PROVE  \E f \in Endpoints : Registered(u, f)'
    BY Zenon DEF NoLostWakeup
  <2>4. PICK f \in Endpoints : Registered(u, f)
    BY <1>0, <2>2, Zenon
  <2>5. f # e
    BY <2>1, <2>4, Zenon
  <2> QED BY <2>3, <2>4, <2>5, Zenon DEF HasMessage
<1>4. ASSUME NEW t \in Threads, NEW e \in Endpoints, BlockInRecv(t, e) PROVE NoLostWakeup'
  <2> SUFFICES ASSUME NEW u \in Threads, state'[u] = "BLOCKED_RECV"
               PROVE  \E f \in Endpoints : Registered(u, f)'
    BY DEF NoLostWakeup
  <2>1. ep' = [ep EXCEPT ![e] = endpoint_recv(ep[e], t)]
    BY <1>4 DEF BlockInRecv
  <2>2. CASE u = t
    <3>1. ep'[e] = endpoint_recv(ep[e], t)
      BY <1>T, <2>1
    <3>2. /\ endpoint_recv(ep[e], t).has_receiver
          /\ endpoint_recv(ep[e], t).receiver_tcb = t
          /\ ~HasMessage(endpoint_recv(ep[e], t))
      BY <1>4, <1>T, BlockInv DEF BlockInRecv, IpcInv
    <3> QED BY <2>2, <3>1, <3>2, Zenon DEF HasMessage
  <2>3. CASE u # t
    <3>1. state[u] = "BLOCKED_RECV"
      BY <1>4, <1>T, <2>3 DEF BlockInRecv
    <3>2. PICK f \in Endpoints : Registered(u, f)
      BY <1>0, <3>1
    <3>3. f # e
      <4>1. <<t, e>> \in Recvs
        BY <1>4 DEF BlockInRecv
      <4>2. f = e => <<u, e>> \in Recvs
        BY <3>2, Zenon DEF IpcInv, ReceiverReceives
      <4> QED BY <2>3, <4>1, <4>2 DEF OneReceiver
    <3>4. ep'[f] = ep[f]
      BY <1>T, <2>1, <3>3
    <3> QED BY <3>2, <3>4, Zenon DEF HasMessage
  <2> QED BY <2>2, <2>3
<1>5. ASSUME NEW a \in Threads, NEW t \in Threads,
             InvokeResume(a, t) \/ InvokeSuspend(a, t) \/ InvokeConfigure(a, t)
      PROVE  NoLostWakeup'
  <2>1. \A u \in Threads : state'[u] = "BLOCKED_RECV" => state[u] = "BLOCKED_RECV"
    BY <1>5, <1>T, Zenon DEF InvokeResume, InvokeSuspend, InvokeConfigure,
                      tcb_resume, tcb_wake_from_ipc, tcb_suspend, tcb_configure, TcbStates
  <2>2. ep' = ep
    BY <1>5 DEF InvokeResume, InvokeSuspend, InvokeConfigure
  <2> QED BY <1>0, <2>1, <2>2, Zenon DEF NoLostWakeup, HasMessage
<1>6. ASSUME NEW t \in Threads, ProcessCreate(t) PROVE NoLostWakeup'
  <2>1. \A u \in Threads : state'[u] = "BLOCKED_RECV" => state[u] = "BLOCKED_RECV"
    BY <1>6, <1>T DEF ProcessCreate
  <2> QED BY <1>0, <1>6, <2>1, Zenon DEF ProcessCreate, NoLostWakeup, HasMessage
<1>7. ASSUME NEW t \in Threads, ProcessDestroy(t) PROVE NoLostWakeup'
  <2> SUFFICES ASSUME NEW u \in Threads, state'[u] = "BLOCKED_RECV"
               PROVE  \E f \in Endpoints : Registered(u, f)'
    BY DEF NoLostWakeup
  <2>1. u # t /\ state[u] = "BLOCKED_RECV"
    BY <1>7, <1>T DEF ProcessDestroy
  <2>2. PICK f \in Endpoints : Registered(u, f)
    BY <1>0, <2>1
  <2>3. ep'[f] = endpoint_cleanup_for_tcb(ep[f], t)
    BY <1>7 DEF ProcessDestroy
  <2>4. endpoint_cleanup_for_tcb(ep[f], t) = ep[f]
    BY <1>T, <2>1, <2>2, CleanupInv, Zenon DEF IpcInv
  <2> QED BY <2>2, <2>3, <2>4 DEF HasMessage
<1>8. CASE UNCHANGED vars
  BY <1>0, <1>8, Zenon DEF vars, NoLostWakeup, HasMessage
<1> QED BY <1>1, <1>2, <1>3, <1>4, <1>5, <1>6, <1>7, <1>8 DEF Next

\* A thread asleep in SYS_REPLY_RECV is always registered at an endpoint
\* without messages, so that the next send wakes it, provided each endpoint has
\* one receiving thread.
THEOREM WakeupIsNotLost == ASSUME OneReceiver PROVE Spec => []NoLostWakeup
<1>1. Init => NoLostWakeup
  BY DEF Init, NoLostWakeup
<1>2. IpcInv /\ NoLostWakeup /\ [Next]_vars => NoLostWakeup'
  BY NextKeepsWakeup
<1> QED BY <1>1, <1>2, IpcInvariant, PTL DEF Spec

-----------------------------------------------------------------------------
\* The order of the messages.

\* m1 occurs in history h, and before an occurrence of m2.
Before(h, m1, m2) == \E p \in At(h, m1), q \in At(h, m2) : p < q

\* What was delivered and then what waits, in this order, has been accepted in this
\* order.
InOrder(h, d, r) ==
  /\ \A i \in 1 .. Len(d) : InHistory(h, d[i])
  /\ \A k \in 0 .. (Waiting(r) - 1) : InHistory(h, Out(r, k))
  /\ \A i, j \in 1 .. Len(d) : i < j => Before(h, d[i], d[j])
  /\ \A i \in 1 .. Len(d) : \A k \in 0 .. (Waiting(r) - 1) : Before(h, d[i], Out(r, k))
  /\ \A j, k \in 0 .. (Waiting(r) - 1) : j < k => Before(h, Out(r, j), Out(r, k))

\* A history that grows keeps the order, and the new message comes after all.
LEMMA HistoryGrows ==
  ASSUME NEW h \in Seq(Msgs), NEW m \in Msgs
  PROVE  /\ InHistory(Append(h, m), m)
         /\ \A x : InHistory(h, x) => InHistory(Append(h, m), x) /\ Before(Append(h, m), x, m)
         /\ \A x, y : Before(h, x, y) => Before(Append(h, m), x, y)
<1> DEFINE g == Append(h, m)
           n == Len(h) + 1
<1>1. /\ Len(h) \in Nat /\ Len(g) = n /\ g[n] = m /\ n \in 1 .. n
      /\ \A i \in 1 .. Len(h) : g[i] = h[i] /\ i < n /\ i \in 1 .. n
  OBVIOUS
<1> HIDE DEF g, n
<1>2. n \in At(g, m) /\ \A x : At(h, x) \subseteq At(g, x)
  BY <1>1 DEF At
<1>3. \A x : \A p \in At(h, x) : p < n
  BY <1>1 DEF At
<1> QED BY <1>2, <1>3 DEF InHistory, Before, g

\* A send keeps the order.
LEMMA SendOrder ==
  ASSUME NEW h \in Seq(Msgs), NEW d \in Seq(Msgs), NEW r \in EndpointRec, EpInv(r),
         SendAccepts(r), NEW s \in Threads, NEW m \in Msgs, InOrder(h, d, r)
  PROVE  InOrder(Append(h, m), d, endpoint_send(r, s, m))
<1> DEFINE n == endpoint_send(r, s, m)
           g == Append(h, m)
           w == Waiting(n)
<1>1. /\ w \in Nat \ {0} /\ Out(n, w - 1) = m
      /\ \A k \in 0 .. (w - 2) : k \in 0 .. (Waiting(r) - 1) /\ Out(n, k) = Out(r, k)
  BY SendLast
<1>2. /\ InHistory(g, m)
      /\ \A x : InHistory(h, x) => InHistory(g, x) /\ Before(g, x, m)
      /\ \A x, y : Before(h, x, y) => Before(g, x, y)
  BY HistoryGrows
<1> HIDE DEF n, g, w
<1>3. \A k \in 0 .. (w - 1) : k = w - 1 \/ k \in 0 .. (w - 2)
  BY <1>1
<1>4. \A k \in 0 .. (w - 1) : InHistory(g, Out(n, k))
  BY <1>1, <1>2, <1>3, Zenon DEF InOrder
<1>5. \A i \in 1 .. Len(d) : \A k \in 0 .. (w - 1) : Before(g, d[i], Out(n, k))
  BY <1>1, <1>2, <1>3, Zenon DEF InOrder
<1>6. ASSUME NEW j \in 0 .. (w - 1), NEW k \in 0 .. (w - 1), j < k
      PROVE  Before(g, Out(n, j), Out(n, k))
  <2>1. j \in 0 .. (w - 2)
    BY <1>1, <1>6
  <2>2. CASE k = w - 1
    BY <1>1, <1>2, <2>1, <2>2, Zenon DEF InOrder
  <2>3. CASE k \in 0 .. (w - 2)
    BY <1>1, <1>2, <1>6, <2>1, <2>3, Zenon DEF InOrder
  <2> QED BY <1>3, <2>2, <2>3
<1>7. InOrder(g, d, n)
  BY <1>2, <1>4, <1>5, <1>6, Zenon DEF InOrder, w
<1> QED BY <1>7 DEF g, n

\* A receive keeps the order.
LEMMA ReceiveOrder ==
  ASSUME NEW h \in Seq(Msgs), NEW d \in Seq(Msgs), NEW r \in EndpointRec, EpInv(r),
         HasMessage(r), NEW u \in Threads, InOrder(h, d, r)
  PROVE  InOrder(h, Append(d, Received(r)), endpoint_recv(r, u))
<1> DEFINE n == endpoint_recv(r, u)
           m == Received(r)
           c == Append(d, m)
           l == Len(d) + 1
<1>1. /\ Waiting(r) \in Nat \ {0} /\ Waiting(n) = Waiting(r) - 1 /\ m = Out(r, 0)
      /\ \A k \in 0 .. (Waiting(n) - 1) : Out(n, k) = Out(r, k + 1)
  BY ReceiveFirst
<1>2. m \in Msgs
  BY ReceiveInv
<1> HIDE DEF n, m
<1>3. /\ Len(d) \in Nat /\ Len(c) = l /\ c[l] = m
      /\ \A i \in 1 .. Len(d) : c[i] = d[i]
  BY <1>2
<1> HIDE DEF c
<1>4. \A i \in 1 .. l : i = l \/ i \in 1 .. Len(d)
  BY <1>3
<1>5. /\ 0 \in 0 .. (Waiting(r) - 1)
      /\ \A k \in 0 .. (Waiting(n) - 1) : k + 1 \in 0 .. (Waiting(r) - 1) /\ 0 < k + 1
      /\ \A j, k \in 0 .. (Waiting(n) - 1) : j < k => j + 1 < k + 1
  BY <1>1
<1>6. \A i, j \in 1 .. l : i < j => i \in 1 .. Len(d)
  BY <1>3
<1> HIDE DEF l
<1>7. \A i \in 1 .. l : InHistory(h, c[i])
  BY <1>1, <1>3, <1>4, <1>5, Zenon DEF InOrder
<1>8. \A k \in 0 .. (Waiting(n) - 1) : InHistory(h, Out(n, k))
  BY <1>1, <1>5, Zenon DEF InOrder
<1>9. \A i, j \in 1 .. l : i < j => Before(h, c[i], c[j])
  BY <1>1, <1>3, <1>4, <1>5, <1>6, ZenonT(60) DEF InOrder
<1>10. \A i \in 1 .. l : \A k \in 0 .. (Waiting(n) - 1) : Before(h, c[i], Out(n, k))
  BY <1>1, <1>3, <1>4, <1>5, Zenon DEF InOrder
<1>11. \A j, k \in 0 .. (Waiting(n) - 1) : j < k => Before(h, Out(n, j), Out(n, k))
  BY <1>1, <1>5, Zenon DEF InOrder
<1>12. InOrder(h, c, n)
  BY <1>3, <1>7, <1>8, <1>9, <1>10, <1>11, Zenon DEF InOrder
<1> QED BY <1>12 DEF c, m, n

\* So does whatever only takes messages out.
LEMMA FewerInOrder ==
  ASSUME NEW h, NEW d, NEW r, NEW n, NEW at, InOrder(h, d, r),
         \A j \in 0 .. (Waiting(n) - 1) :
           at[j] \in 0 .. (Waiting(r) - 1) /\ Out(n, j) = Out(r, at[j]),
         \A i, j \in 0 .. (Waiting(n) - 1) : i < j => at[i] < at[j]
  PROVE  InOrder(h, d, n)
<1>1. \A k \in 0 .. (Waiting(n) - 1) : InHistory(h, Out(n, k))
  BY Zenon DEF InOrder
<1>2. \A i \in 1 .. Len(d) : \A k \in 0 .. (Waiting(n) - 1) : Before(h, d[i], Out(n, k))
  BY Zenon DEF InOrder
<1>3. \A j, k \in 0 .. (Waiting(n) - 1) : j < k => Before(h, Out(n, j), Out(n, k))
  BY Zenon DEF InOrder
<1> QED BY <1>1, <1>2, <1>3, Zenon DEF InOrder

\* What a thread sends is a message.
LEMMA SentIsMessage ==
  ASSUME IpcInv, NEW t \in Threads, NEW e, Transmit(t, e)
  PROVE  <<t, composed[t] + 1>> \in Msgs
<1>1. composed[t] \in 0 .. MaxMsgs /\ composed[t] < MaxMsgs
  BY Zenon DEF Transmit, IpcInv, TypeOK
<1>2. composed[t] + 1 \in 1 .. MaxMsgs
  BY <1>1, EndpointAssumption
<1> QED BY <1>2, Zenon DEF Msgs

OrderInv == \A e \in Endpoints : InOrder(accepted[e], delivered[e], ep[e])

\* Every step keeps the order at every endpoint.
LEMMA OrderStep ==
  ASSUME IpcInv, OrderInv, [Next]_vars
  PROVE  OrderInv'
<1> SUFFICES ASSUME NEW f \in Endpoints PROVE InOrder(accepted'[f], delivered'[f], ep'[f])
  BY Zenon DEF OrderInv
<1>0. /\ InOrder(accepted[f], delivered[f], ep[f])
      /\ ep[f] \in EndpointRec /\ EpInv(ep[f])
      /\ accepted[f] \in Seq(Msgs) /\ delivered[f] \in Seq(Msgs)
  BY Zenon DEF IpcInv, TypeOK, OrderInv
<1>1. CASE UNCHANGED <<ep, accepted, delivered>>
  BY <1>0, <1>1, Zenon
<1>2. ASSUME NEW t \in Threads, NEW e \in Endpoints, Transmit(t, e)
      PROVE  InOrder(accepted'[f], delivered'[f], ep'[f])
  <2> DEFINE m == <<t, composed[t] + 1>>
  <2>1. m \in Msgs
    BY <1>2, SentIsMessage, Zenon
  <2>2. /\ f # e => accepted'[f] = accepted[f] /\ ep'[f] = ep[f]
        /\ f = e => /\ accepted'[f] = Append(accepted[f], m)
                    /\ ep'[f] = endpoint_send(ep[f], t, m) /\ SendAccepts(ep[f])
        /\ delivered' = delivered
    BY <1>2, Zenon DEF Transmit, IpcInv, TypeOK
  <2> HIDE DEF m
  <2> QED BY <1>0, <2>1, <2>2, SendOrder, Zenon
<1>3. ASSUME NEW t \in Threads, NEW e \in Endpoints, Receive(t, e)
      PROVE  InOrder(accepted'[f], delivered'[f], ep'[f])
  <2>1. /\ f # e => delivered'[f] = delivered[f] /\ ep'[f] = ep[f]
        /\ f = e => /\ delivered'[f] = Append(delivered[f], Received(ep[f]))
                    /\ ep'[f] = endpoint_recv(ep[f], t) /\ HasMessage(ep[f])
        /\ accepted' = accepted
    BY <1>3, Zenon DEF Receive, IpcInv, TypeOK
  <2> QED BY <1>0, <2>1, ReceiveOrder, Zenon
<1>4. ASSUME NEW t \in Threads, NEW e \in Endpoints, BlockInRecv(t, e)
      PROVE  InOrder(accepted'[f], delivered'[f], ep'[f])
  <2>1. /\ f # e => ep'[f] = ep[f]
        /\ f = e => ep'[f] = endpoint_recv(ep[f], t) /\ ~HasMessage(ep[f])
        /\ accepted' = accepted /\ delivered' = delivered
    BY <1>4, Zenon DEF BlockInRecv, IpcInv, TypeOK
  <2>2. CASE f = e
    <3>1. Waiting(ep'[f]) = 0
      BY <1>0, <2>1, <2>2, BlockEmpty, Zenon
    <3>2. \A j \in 0 .. (Waiting(ep'[f]) - 1) : FALSE
      BY <3>1
    <3> QED BY <1>0, <2>1, <3>2, Zenon DEF InOrder
  <2> QED BY <1>0, <2>1, <2>2, Zenon
<1>5. ASSUME NEW t \in Threads, ProcessDestroy(t)
      PROVE  InOrder(accepted'[f], delivered'[f], ep'[f])
  <2>1. /\ ep'[f] = endpoint_cleanup_for_tcb(ep[f], t)
        /\ accepted' = accepted /\ delivered' = delivered
    BY <1>5 DEF ProcessDestroy
  <2>2. PICK at :
          /\ \A j \in 0 .. (Waiting(ep'[f]) - 1) :
               at[j] \in 0 .. (Waiting(ep[f]) - 1) /\ Out(ep'[f], j) = Out(ep[f], at[j])
          /\ \A i, j \in 0 .. (Waiting(ep'[f]) - 1) : i < j => at[i] < at[j]
    BY <1>0, <2>1, CleanupKeeps, Zenon
  <2> QED BY <1>0, <2>1, <2>2, FewerInOrder, Zenon
<1>6. ASSUME NEW a \in Threads, NEW t \in Threads,
             InvokeResume(a, t) \/ InvokeSuspend(a, t) \/ InvokeConfigure(a, t) \/ ProcessCreate(t)
      PROVE  UNCHANGED <<ep, accepted, delivered>>
  BY <1>6, Zenon DEF InvokeResume, InvokeSuspend, InvokeConfigure, ProcessCreate
<1> QED BY <1>1, <1>2, <1>3, <1>4, <1>5, <1>6, Zenon DEF Next, SysCall, SysSend, vars

\* Messages come out of every endpoint in the order in which they were accepted: for
\* any number of threads, endpoints and messages, any ring size and any destructions.
THEOREM DeliveryInOrder == Spec => []DeliveredInOrder
<1>1. Init => OrderInv
  <2> SUFFICES ASSUME Init, NEW e \in Endpoints PROVE InOrder(accepted[e], delivered[e], ep[e])
    BY Zenon DEF OrderInv
  <2>1. delivered[e] = <<>> /\ ep[e] = EndpointZero
    BY DEF Init
  <2>2. Waiting(ep[e]) = 0
    <3>1. ep[e].q_len = 0 /\ ep[e].pending = FALSE
      <4>1. EndpointZero.q_len = 0 /\ EndpointZero.pending = FALSE
        BY DEF EndpointZero
      <4> QED BY <2>1, <4>1, Zenon
    <3>2. ~(0 > 0)
      OBVIOUS
    <3> QED BY <3>1, <3>2, Zenon DEF Waiting
  <2>3. 1 .. Len(delivered[e]) = {} /\ 0 .. (Waiting(ep[e]) - 1) = {}
    <3>1. 1 .. Len(<<>>) = {} /\ 0 .. (0 - 1) = {}
      OBVIOUS
    <3> QED BY <2>1, <2>2, <3>1, Zenon
  <2> QED BY <2>3, Zenon DEF InOrder
<1>2. IpcInv /\ OrderInv /\ [Next]_vars => OrderInv'
  BY OrderStep
<1>3. OrderInv => DeliveredInOrder
  BY Zenon DEF OrderInv, InOrder, Before, DeliveredInOrder
<1> QED BY <1>1, <1>2, <1>3, IpcInvariant, PTL DEF Spec

-----------------------------------------------------------------------------
\* The endpoints implement the mailbox.

\* A clean-up withdraws the entries of the thread.
LEMMA CleanupFifo ==
  ASSUME NEW r \in EndpointRec, EpInv(r), NEW t \in Threads
  PROVE  M!Withdrawn(Fifo(r), Fifo(endpoint_cleanup_for_tcb(r, t)), t)
<1> DEFINE n == endpoint_cleanup_for_tcb(r, t)
<1>1. n \in EndpointRec /\ EpInv(n) /\ \E at : KeepsOrder(r, n, t, at)
  BY CleanupInv, CleanupOrder, Zenon
<1> HIDE DEF n
<1>2. PICK at : KeepsOrder(r, n, t, at)
  BY <1>1
<1> DEFINE a == Fifo(r)
           b == Fifo(n)
           S == Survivors(r, t)
<1>3. /\ Len(a) = r.q_len /\ r.q_len \in Nat
      /\ \A k \in 1 .. r.q_len : a[k] = Entry(r, k - 1)
  BY FifoFacts
<1>4. /\ Len(b) = n.q_len /\ n.q_len \in Nat
      /\ \A k \in 1 .. n.q_len : b[k] = Entry(n, k - 1)
  BY <1>1, FifoFacts
<1> HIDE DEF a, b
<1>5. S = {k \in 0 .. (r.q_len - 1) : Entry(r, k)[1] # t}
  BY DEF Survivors, Entry
<1> HIDE DEF S
<1>6. /\ \A j \in 0 .. (n.q_len - 1) : at[j] \in S /\ Entry(n, j) = Entry(r, at[j])
      /\ \A i, j \in 0 .. (n.q_len - 1) : i < j => at[i] < at[j]
      /\ \A k \in S : \E j \in 0 .. (n.q_len - 1) : at[j] = k
  BY <1>2 DEF KeepsOrder, S
<1> DEFINE place == [k \in 1 .. n.q_len |-> at[k - 1] + 1]
<1>7. \A k \in 1 .. n.q_len : k - 1 \in 0 .. (n.q_len - 1)
  BY <1>4
<1>8. ASSUME NEW k \in 1 .. n.q_len
      PROVE  /\ place[k] \in 1 .. r.q_len /\ place[k] - 1 = at[k - 1]
             /\ a[place[k]][1] # t /\ b[k] = a[place[k]]
  <2>1. at[k - 1] \in S /\ Entry(n, k - 1) = Entry(r, at[k - 1])
    BY <1>6, <1>7, Zenon
  <2>2. /\ place[k] = at[k - 1] + 1 /\ at[k - 1] \in 0 .. (r.q_len - 1)
        /\ Entry(r, at[k - 1])[1] # t
    BY <1>5, <2>1
  <2>3. place[k] \in 1 .. r.q_len /\ place[k] - 1 = at[k - 1]
    <3> DEFINE x == at[k - 1]
    <3>1. place[k] = x + 1 /\ x \in 0 .. (r.q_len - 1)
      BY <2>2, Zenon
    <3> HIDE DEF x, place
    <3>2. place[k] \in 1 .. r.q_len /\ place[k] - 1 = x
      BY <1>3, <3>1
    <3> QED BY <3>2, Zenon DEF x
  <2>4. a[place[k]] = Entry(r, at[k - 1])
    BY <1>3, <2>3
  <2> QED BY <1>4, <2>1, <2>2, <2>3, <2>4, Zenon
<1>9. \A j, k \in 1 .. n.q_len : j < k => place[j] < place[k]
  <2> SUFFICES ASSUME NEW j \in 1 .. n.q_len, NEW k \in 1 .. n.q_len, j < k
               PROVE  place[j] < place[k]
    BY Zenon
  <2>1. j - 1 \in 0 .. (n.q_len - 1) /\ k - 1 \in 0 .. (n.q_len - 1) /\ j - 1 < k - 1
    BY <1>4
  <2>2. at[j - 1] < at[k - 1] /\ at[j - 1] \in Int /\ at[k - 1] \in Int
    BY <1>5, <1>6, <2>1
  <2> QED BY <2>2
<1>10. ASSUME NEW i \in 1 .. r.q_len, a[i][1] # t
       PROVE  \E k \in 1 .. n.q_len : place[k] = i
  <2>1. i - 1 \in 0 .. (r.q_len - 1) /\ (i - 1) + 1 = i
    BY <1>3
  <2>2. i - 1 \in S
    BY <1>3, <1>5, <1>10, <2>1
  <2>3. PICK j \in 0 .. (n.q_len - 1) : at[j] = i - 1
    BY <1>6, <2>2
  <2>4. j + 1 \in 1 .. n.q_len /\ (j + 1) - 1 = j
    BY <1>4
  <2>5. place[j + 1] = i
    BY <2>1, <2>3, <2>4
  <2> QED BY <2>4, <2>5
<1>11. place \in [1 .. n.q_len -> 1 .. r.q_len]
  BY <1>8, Zenon
<1> HIDE DEF place
<1>12. {place[k] : k \in 1 .. n.q_len} = {i \in 1 .. r.q_len : a[i][1] # t}
  BY <1>8, <1>10
<1>13. M!Withdrawn(a, b, t)
  BY <1>3, <1>4, <1>8, <1>9, <1>11, <1>12, ZenonT(60) DEF M!Withdrawn
<1> QED BY <1>13 DEF a, b, n

\* The mailbox that the endpoints stand for.
Boxes == [e \in Endpoints |-> Fifo(ep[e])]

Hands == [e \in Endpoints |-> Handed(ep[e])]

Waiter(r) == IF r.has_receiver THEN r.receiver_tcb ELSE NoThread

Waiters == [e \in Endpoints |-> Waiter(ep[e])]

\* What a step on endpoint e alone does to the mailbox.
LEMMA OneBox ==
  ASSUME IpcInv, NEW e \in Endpoints, NEW n, ep' = [ep EXCEPT ![e] = n]
  PROVE  /\ Boxes' = [Boxes EXCEPT ![e] = Fifo(n)]
         /\ Hands' = [Hands EXCEPT ![e] = Handed(n)]
         /\ Waiters' = [Waiters EXCEPT ![e] = Waiter(n)]
<1>1. ep'[e] = n /\ \A f \in Endpoints : f # e => ep'[f] = ep[f]
  BY DEF IpcInv, TypeOK
<1>2. \A f \in Endpoints : /\ Fifo(ep'[f]) = IF f = e THEN Fifo(n) ELSE Fifo(ep[f])
                           /\ Handed(ep'[f]) = IF f = e THEN Handed(n) ELSE Handed(ep[f])
                           /\ Waiter(ep'[f]) = IF f = e THEN Waiter(n) ELSE Waiter(ep[f])
  BY <1>1
<1>3. Boxes' = [Boxes EXCEPT ![e] = Fifo(n)]
  BY <1>2, Zenon DEF Boxes
<1>4. Hands' = [Hands EXCEPT ![e] = Handed(n)]
  BY <1>2, Zenon DEF Hands
<1>5. Waiters' = [Waiters EXCEPT ![e] = Waiter(n)]
  BY <1>2, Zenon DEF Waiters
<1> QED BY <1>3, <1>4, <1>5

\* A part that keeps its value is not changed.
LEMMA SameValue ==
  ASSUME NEW F, F = [e \in Endpoints |-> F[e]], NEW e \in Endpoints
  PROVE  [F EXCEPT ![e] = F[e]] = F
OBVIOUS

\* A send hands the message over or queues it.
LEMMA SendMails ==
  ASSUME IpcInv, NEW t \in Threads, NEW e \in Endpoints, Transmit(t, e)
  PROVE  M!Next
<1>1. PICK m \in Msgs : m = <<t, composed[t] + 1>>
  BY SentIsMessage, Zenon
<1> DEFINE r == ep[e]
           n == endpoint_send(r, t, m)
<1>2. r \in EndpointRec /\ EpInv(r) /\ SendAccepts(r) /\ ep' = [ep EXCEPT ![e] = n]
  BY <1>1, Zenon DEF IpcInv, TypeOK, Transmit
<1>3. r.has_receiver => r.receiver_tcb \in Threads
  BY Zenon DEF IpcInv, ReceiverReceives
<1> HIDE DEF n
<1>4. /\ Boxes' = [Boxes EXCEPT ![e] = Fifo(n)]
      /\ Hands' = [Hands EXCEPT ![e] = Handed(n)]
      /\ Waiters' = [Waiters EXCEPT ![e] = Waiter(n)]
  BY <1>2, OneBox, Zenon
<1>5. Boxes[e] = Fifo(r) /\ Waiters[e] = Waiter(r)
  BY DEF Boxes, Waiters
<1>6. [Boxes EXCEPT ![e] = Boxes[e]] = Boxes /\ [Waiters EXCEPT ![e] = Waiters[e]] = Waiters
  BY SameValue, Zenon DEF Boxes, Waiters
<1>7. r.q_len \in Nat
  BY <1>2, EndpointAssumption DEF EndpointRec
<1>8. CASE r.has_receiver
  <2>1. n = Rendezvous(r, m) /\ r.q_len = 0
    BY <1>2, <1>8, Zenon DEF n, endpoint_send, EpInv
  <2>2. /\ n.pending = TRUE /\ n.pending_msg = m /\ n.has_receiver = FALSE /\ n.q_len = 0
        /\ n.q_head = r.q_head /\ n.queue = r.queue /\ n.queue_msgs = r.queue_msgs
    BY <1>2, <2>1 DEF Rendezvous, EndpointRec
  <2>3. Fifo(n) = Fifo(r)
    BY <2>1, <2>2, Zenon DEF Fifo, SlotOf
  <2>4. Handed(n) = m /\ Waiter(n) = NoThread /\ Waiter(r) # NoThread
    BY <1>3, <1>8, <2>2, EndpointAssumption, Zenon DEF Handed, Waiter
  <2>5. /\ Waiters[e] # NoThread /\ Boxes' = Boxes
        /\ Hands' = [Hands EXCEPT ![e] = m] /\ Waiters' = [Waiters EXCEPT ![e] = NoThread]
    BY <1>4, <1>5, <1>6, <2>3, <2>4
  <2>6. M!HandOver(e, m)
    BY <2>5, Zenon DEF M!HandOver, Boxes, Hands, Waiters, Waiter
  <2> QED BY <2>6 DEF M!Next
<1>9. CASE ~r.has_receiver
  <2>1. n = Enqueue(r, t, m) /\ r.q_len < QSize
    BY <1>2, <1>9, Zenon DEF n, endpoint_send, SendAccepts
  <2>2. Fifo(n) = Append(Fifo(r), <<t, m>>) /\ Len(Fifo(r)) = r.q_len
    BY <1>2, <1>9, <2>1, EnqueueFifo, FifoFacts, Zenon
  <2>3. n.has_receiver = FALSE /\ n.q_len = r.q_len + 1
    BY <1>2, <1>9, <2>1 DEF Enqueue, EndpointRec
  <2>4. Handed(n) = NoMsg /\ Waiter(n) = NoThread /\ Waiter(r) = NoThread
    BY <1>7, <1>9, <2>3 DEF Handed, Waiter
  <2>5. /\ Waiters[e] = NoThread /\ Len(Boxes[e]) < QSize
        /\ Boxes' = [Boxes EXCEPT ![e] = Append(Boxes[e], <<t, m>>)]
        /\ Hands' = [Hands EXCEPT ![e] = NoMsg] /\ Waiters' = Waiters
    BY <1>4, <1>5, <1>6, <2>1, <2>2, <2>4, Zenon
  <2>6. M!Queue(e, t, m)
    BY <2>5, Zenon DEF M!Queue, Boxes, Hands, Waiters, Waiter
  <2> QED BY <2>6 DEF M!Next
<1> QED BY <1>8, <1>9

\* A receive takes the oldest queued message, or the one handed over.
LEMMA ReceiveTakes ==
  ASSUME IpcInv, NEW t \in Threads, NEW e \in Endpoints, Receive(t, e)
  PROVE  M!Next
<1> DEFINE r == ep[e]
           n == endpoint_recv(r, t)
<1>1. r \in EndpointRec /\ EpInv(r) /\ HasMessage(r) /\ ep' = [ep EXCEPT ![e] = n]
  BY Zenon DEF IpcInv, TypeOK, Receive
<1> HIDE DEF n
<1>2. /\ Boxes' = [Boxes EXCEPT ![e] = Fifo(n)]
      /\ Hands' = [Hands EXCEPT ![e] = Handed(n)]
      /\ Waiters' = [Waiters EXCEPT ![e] = Waiter(n)]
  BY <1>1, OneBox, Zenon
<1>3. Boxes[e] = Fifo(r) /\ Hands[e] = Handed(r) /\ Waiters[e] = Waiter(r)
  BY DEF Boxes, Hands, Waiters
<1>4. /\ [Boxes EXCEPT ![e] = Boxes[e]] = Boxes
      /\ [Hands EXCEPT ![e] = Hands[e]] = Hands
      /\ [Waiters EXCEPT ![e] = Waiters[e]] = Waiters
  BY SameValue, Zenon DEF Boxes, Hands, Waiters
<1>5. r.q_len \in Nat /\ ~r.has_receiver
  BY <1>1, EndpointAssumption DEF EndpointRec, EpInv, HasMessage
<1>6. CASE r.q_len > 0
  <2>1. n = Dequeue(r)
    BY <1>5, <1>6 DEF n, endpoint_recv
  <2>2. Fifo(r) # <<>> /\ Fifo(n) = Tail(Fifo(r))
    BY <1>1, <1>6, <2>1, DequeueFifo
  <2>3. /\ n.has_receiver = FALSE /\ n.q_len = r.q_len - 1
        /\ r.q_len - 1 = 0 => n.pending = FALSE
    BY <1>1, <1>5, <2>1 DEF Dequeue, EndpointRec
  <2>4. Handed(n) = NoMsg /\ Handed(r) = NoMsg /\ Waiter(n) = NoThread /\ Waiter(r) = NoThread
    <3>1. r.q_len # 0 /\ (n.q_len = 0 => n.pending = FALSE)
      BY <1>5, <1>6, <2>3
    <3> QED BY <1>5, <2>3, <3>1, Zenon DEF Handed, Waiter
  <2>5. /\ Boxes[e] # <<>> /\ Boxes' = [Boxes EXCEPT ![e] = Tail(Boxes[e])]
        /\ Hands' = Hands /\ Waiters' = Waiters
    BY <1>2, <1>3, <1>4, <2>2, <2>4, Zenon
  <2>6. M!TakeQueued(e)
    BY <2>5, Zenon DEF M!TakeQueued, Boxes, Hands, Waiters, Waiter
  <2> QED BY <2>6 DEF M!Next
<1>7. CASE r.q_len = 0
  <2>1. r.pending /\ r.pending_msg \in Msgs
    BY <1>1, <1>7 DEF HasMessage, EpInv
  <2>2. n = TakeRendezvous(r)
    BY <1>7, <2>1 DEF n, endpoint_recv
  <2>3. n.has_receiver = FALSE /\ n.q_len = 0 /\ n.pending = FALSE
    BY <1>1, <1>7, <2>2 DEF TakeRendezvous, EndpointRec
  <2>4. Fifo(n) = Fifo(r) /\ Fifo(r) = <<>>
    BY <1>7, <2>3, NoFifo, Zenon
  <2>5. /\ Handed(n) = NoMsg /\ Handed(r) # NoMsg
        /\ Waiter(n) = NoThread /\ Waiter(r) = NoThread
    BY <1>5, <1>7, <2>1, <2>3, EndpointAssumption, Zenon DEF Handed, Waiter
  <2>6. /\ Boxes[e] = <<>> /\ Hands[e] # NoMsg /\ Boxes' = Boxes
        /\ Hands' = [Hands EXCEPT ![e] = NoMsg] /\ Waiters' = Waiters
    BY <1>2, <1>3, <1>4, <2>4, <2>5, Zenon
  <2>7. M!TakeHanded(e)
    BY <2>6, Zenon DEF M!TakeHanded, Boxes, Hands, Waiters, Waiter
  <2> QED BY <2>7 DEF M!Next
<1> QED BY <1>5, <1>6, <1>7

\* A receive that finds nothing waits.
LEMMA BlockWaits ==
  ASSUME IpcInv, NEW t \in Threads, NEW e \in Endpoints, BlockInRecv(t, e)
  PROVE  M!Next
<1> DEFINE r == ep[e]
           n == endpoint_recv(r, t)
<1>1. r \in EndpointRec /\ EpInv(r) /\ ~HasMessage(r) /\ ep' = [ep EXCEPT ![e] = n]
  BY Zenon DEF IpcInv, TypeOK, BlockInRecv
<1> HIDE DEF n
<1>2. /\ Boxes' = [Boxes EXCEPT ![e] = Fifo(n)]
      /\ Hands' = [Hands EXCEPT ![e] = Handed(n)]
      /\ Waiters' = [Waiters EXCEPT ![e] = Waiter(n)]
  BY <1>1, OneBox, Zenon
<1>3. Boxes[e] = Fifo(r) /\ Hands[e] = Handed(r)
  BY DEF Boxes, Hands
<1>4. [Boxes EXCEPT ![e] = Boxes[e]] = Boxes /\ [Hands EXCEPT ![e] = Hands[e]] = Hands
  BY SameValue, Zenon DEF Boxes, Hands
<1>5. r.q_len = 0 /\ ~r.pending
  BY <1>1, EndpointAssumption DEF EndpointRec, HasMessage
<1>6. n = Register(r, t)
  BY <1>5 DEF n, endpoint_recv
<1>7. n.has_receiver = TRUE /\ n.receiver_tcb = t /\ n.q_len = 0 /\ ~n.pending
  BY <1>1, <1>5, <1>6 DEF Register, EndpointRec
<1>8. Fifo(n) = Fifo(r) /\ Fifo(r) = <<>>
  BY <1>5, <1>7, NoFifo, Zenon
<1>9. Handed(n) = NoMsg /\ Handed(r) = NoMsg /\ Waiter(n) = t
  BY <1>5, <1>7, Zenon DEF Handed, Waiter
<1>10. /\ Boxes[e] = <<>> /\ Hands[e] = NoMsg /\ Boxes' = Boxes /\ Hands' = Hands
       /\ Waiters' = [Waiters EXCEPT ![e] = t]
  BY <1>2, <1>3, <1>4, <1>8, <1>9, Zenon
<1>11. M!Wait(e, t)
  BY <1>10, Zenon DEF M!Wait, Boxes, Hands, Waiters, Waiter
<1> QED BY <1>11 DEF M!Next

\* A destroyed thread is forgotten at every endpoint.
LEMMA DestroyForgets ==
  ASSUME IpcInv, NEW t \in Threads, ProcessDestroy(t)
  PROVE  M!Next
<1>1. \A e \in Endpoints : ep[e] \in EndpointRec /\ EpInv(ep[e])
  BY DEF IpcInv, TypeOK
<1>2. \A e \in Endpoints : ep'[e] = endpoint_cleanup_for_tcb(ep[e], t)
  BY DEF ProcessDestroy
<1>3. \A e \in Endpoints : ep'[e] \in EndpointRec /\ EpInv(ep'[e])
  BY <1>1, <1>2, CleanupInv, ZenonT(60)
<1>4. Boxes' \in [Endpoints -> Seq(Threads \X Msgs)]
  BY <1>3, FifoFacts, Zenon DEF Boxes
<1>5. \A e \in Endpoints : M!Withdrawn(Fifo(ep[e]), Fifo(ep'[e]), t)
  BY <1>1, <1>2, CleanupFifo, Zenon
<1>6. ASSUME NEW e \in Endpoints
      PROVE  /\ Handed(ep'[e]) = Handed(ep[e])
             /\ Waiter(ep'[e]) = IF Waiter(ep[e]) = t THEN NoThread ELSE Waiter(ep[e])
  <2>1. /\ (ep'[e].pending /\ ep'[e].q_len = 0) <=> (ep[e].pending /\ ep[e].q_len = 0)
        /\ ep'[e].pending_msg = ep[e].pending_msg
        /\ ep'[e].has_receiver <=> ep[e].has_receiver /\ ep[e].receiver_tcb # t
        /\ ep'[e].has_receiver => ep'[e].receiver_tcb = ep[e].receiver_tcb
    <3> DEFINE r == ep[e]
    <3>1. r \in EndpointRec /\ EpInv(r) /\ ep'[e] = endpoint_cleanup_for_tcb(r, t)
      BY <1>1, <1>2, Zenon
    <3> HIDE DEF r
    <3>2. /\ (ep'[e].pending /\ ep'[e].q_len = 0) <=> (r.pending /\ r.q_len = 0)
          /\ ep'[e].pending_msg = r.pending_msg
          /\ ep'[e].has_receiver <=> r.has_receiver /\ r.receiver_tcb # t
          /\ ep'[e].has_receiver => ep'[e].receiver_tcb = r.receiver_tcb
      BY <3>1, CleanupFlags, Zenon
    <3> QED BY <3>2, Zenon DEF r
  <2>2. NoThread # t
    BY EndpointAssumption
  <2> QED BY <2>1, <2>2, Zenon DEF Handed, Waiter
<1>7. Hands' = Hands
  BY <1>6, Zenon DEF Hands
<1>8. Waiters' = [e \in Endpoints |-> IF Waiters[e] = t THEN NoThread ELSE Waiters[e]]
  BY <1>6, Zenon DEF Waiters
<1>9. \A e \in Endpoints : M!Withdrawn(Boxes[e], Boxes'[e], t)
  BY <1>5, Zenon DEF Boxes
<1>10. M!Forget(t)
  BY <1>4, <1>7, <1>8, <1>9, Zenon DEF M!Forget, Boxes, Hands, Waiters, Waiter
<1> QED BY <1>10 DEF M!Next

\* Every step of the threads is a step of the mailbox or none, for any number of
\* threads, endpoints and messages and any ring size.
THEOREM ImplementsMailbox == Spec => RefinesMailbox
<1>1. Init => M!Init
  <2> SUFFICES ASSUME Init PROVE M!Init
    OBVIOUS
  <2>1. \A e \in Endpoints : ep[e] = EndpointZero
    BY DEF Init
  <2>2. EndpointZero.q_len = 0 /\ ~EndpointZero.pending /\ ~EndpointZero.has_receiver
    BY Zenon DEF EndpointZero
  <2>3. Fifo(EndpointZero) = <<>>
    <3>1. 1 .. 0 = {}
      OBVIOUS
    <3> QED BY <2>2, <3>1 DEF Fifo
  <2>4. Handed(EndpointZero) = NoMsg
    BY <2>2 DEF Handed
  <2> QED BY <2>1, <2>2, <2>3, <2>4, Zenon DEF M!Init
<1>2. IpcInv /\ [Next]_vars => [M!Next]_M!mvars
  <2> SUFFICES ASSUME IpcInv, [Next]_vars PROVE [M!Next]_M!mvars
    OBVIOUS
  <2>1. CASE UNCHANGED ep
    BY <2>1 DEF M!mvars
  <2>2. ASSUME NEW a \in Threads, NEW t \in Threads,
               InvokeResume(a, t) \/ InvokeSuspend(a, t) \/ InvokeConfigure(a, t) \/ ProcessCreate(t)
        PROVE  UNCHANGED ep
    BY <2>2, Zenon DEF InvokeResume, InvokeSuspend, InvokeConfigure, ProcessCreate
  <2> QED BY <2>1, <2>2, SendMails, ReceiveTakes, BlockWaits, DestroyForgets, Zenon
          DEF Next, SysCall, SysSend, vars
<1>3. Spec => M!Init /\ [][M!Next]_M!mvars
  BY <1>1, <1>2, IpcInvariant, PTL DEF Spec
<1> QED BY <1>3 DEF RefinesMailbox, M!Spec
=============================================================================
