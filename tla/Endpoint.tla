------------------------------ MODULE Endpoint ------------------------------
(***************************************************************************)
(* One IPC endpoint: the ring buffer of queued sends, the single slot of a *)
(* rendezvous and the registered receiver (kernel/include/endpoint.h), with *)
(* endpoint_send, endpoint_recv (kernel/src/endpoint.c) and the clean-up    *)
(* that process_destroy runs on it (kernel/src/process.c) as operators on   *)
(* the endpoint record.  What they do to threads is in module Ipc.          *)
(***************************************************************************)
EXTENDS Integers, FiniteSets

CONSTANTS
  Threads,   \* TCB ids in use in the instance, a subset of 0 .. MAX_TCBS-1
  QSize,     \* ring capacity (16 in the code)
  MaxMsgs,   \* bound: messages each thread composes
  NoThread,  \* receiver_tcb = 0xFFFFFFFF, or never set
  NoMsg      \* the content of a message slot nobody has written

\* An ipc_msg_t is identified by its sender and its number.
Msgs == Threads \X (1 .. MaxMsgs)

ASSUME EndpointAssumption ==
  /\ Threads \subseteq Nat
  /\ QSize \in Nat \ {0}
  /\ MaxMsgs \in Nat
  /\ NoThread \notin Threads
  /\ NoMsg \notin Msgs

Slots == 0 .. (QSize - 1)

EndpointRec ==
  [ has_receiver : BOOLEAN,
    receiver_tcb : Threads \cup {NoThread},
    pending      : BOOLEAN,
    pending_msg  : Msgs \cup {NoMsg},
    queue        : [Slots -> Threads \cup {NoThread}],
    queue_msgs   : [Slots -> Msgs \cup {NoMsg}],
    q_head       : Slots,
    q_tail       : Slots,
    q_len        : 0 .. QSize ]

\* g_endpoints is zero-initialised.
EndpointZero ==
  [ has_receiver |-> FALSE, receiver_tcb |-> NoThread,
    pending |-> FALSE, pending_msg |-> NoMsg,
    queue |-> [i \in Slots |-> NoThread], queue_msgs |-> [i \in Slots |-> NoMsg],
    q_head |-> 0, q_tail |-> 0, q_len |-> 0 ]

-----------------------------------------------------------------------------

\* endpoint_send returns ERR_OK; otherwise it returns ERR_OVERFLOW and has
\* changed nothing.
SendAccepts(ep) == ep.has_receiver \/ ep.q_len < QSize

\* A receiver is registered: the message goes to the rendezvous slot.
Rendezvous(ep, msg) ==
  [ep EXCEPT !.pending_msg = msg, !.pending = TRUE, !.has_receiver = FALSE]

\* Slip: the tail is not wrapped.
EnqueueNoWrap(ep, sender, msg) ==
  [ep EXCEPT !.queue[ep.q_tail] = sender,
             !.queue_msgs[ep.q_tail] = msg,
             !.q_tail = ep.q_tail + 1,
             !.q_len = ep.q_len + 1,
             !.pending_msg = msg,
             !.pending = TRUE]

\* Nobody waits: the message goes to the tail of the ring, and a copy of it
\* to the rendezvous slot, whatever that slot holds.
Enqueue(ep, sender, msg) ==
  [ep EXCEPT !.queue[ep.q_tail] = sender,
             !.queue_msgs[ep.q_tail] = msg,
             !.q_tail = (ep.q_tail + 1) % QSize,
             !.q_len = ep.q_len + 1,
             !.pending_msg = msg,
             !.pending = TRUE]

endpoint_send(ep, sender, msg) ==
  IF ep.has_receiver THEN Rendezvous(ep, msg) ELSE Enqueue(ep, sender, msg)

\* endpoint_recv finds a message: it is in the ring or, failing that, in the
\* rendezvous slot.
HasMessage(ep) == ep.pending \/ ep.q_len > 0

\* *out of endpoint_recv when it finds a message
Received(ep) ==
  IF ep.q_len > 0 THEN ep.queue_msgs[ep.q_head] ELSE ep.pending_msg

\* Slip: the newest entry is removed instead of the oldest.
DequeueNewest(ep) ==
  [ep EXCEPT !.q_tail = (ep.q_tail + QSize - 1) % QSize,
             !.q_len = ep.q_len - 1,
             !.pending = IF ep.q_len - 1 = 0 THEN FALSE ELSE ep.pending]

Dequeue(ep) ==
  LET head == (ep.q_head + 1) % QSize
  IN  [ep EXCEPT !.q_head = head,
                 !.q_len = ep.q_len - 1,
                 !.pending = IF ep.q_len - 1 = 0 THEN FALSE ELSE ep.pending,
                 !.pending_msg = IF ep.q_len - 1 = 0
                                   THEN ep.pending_msg ELSE ep.queue_msgs[head]]

\* Slip: the message stays in the rendezvous slot.
TakeRendezvousTwice(ep) == [ep EXCEPT !.has_receiver = FALSE]

TakeRendezvous(ep) == [ep EXCEPT !.pending = FALSE, !.has_receiver = FALSE]

\* Nothing to receive: the caller becomes the registered receiver, in place
\* of any thread registered before it.
Register(ep, receiver) ==
  [ep EXCEPT !.has_receiver = TRUE, !.receiver_tcb = receiver]

endpoint_recv(ep, receiver) ==
  CASE ep.q_len > 0                 -> Dequeue(ep)
    [] ep.q_len = 0 /\ ep.pending   -> TakeRendezvous(ep)
    [] ep.q_len = 0 /\ ~ep.pending  -> Register(ep, receiver)

-----------------------------------------------------------------------------

\* The ring slot of the k-th live entry, counted from the head.
SlotOf(ep, k) == (ep.q_head + k) % QSize

\* How far slot i is behind the head.
Offset(ep, i) == (i - ep.q_head) % QSize

\* The live entries, as offsets, that tcb_id did not send.
Survivors(ep, tcb_id) ==
  {k \in 0 .. (ep.q_len - 1) : ep.queue[SlotOf(ep, k)] # tcb_id}

\* The survivor (none or one) that the shifting moves to offset n: the one
\* with n survivors ahead of it.
NthSurvivor(ep, tcb_id, n) ==
  LET S == Survivors(ep, tcb_id)
  IN  {k \in S : Cardinality({j \in S : j < k}) = n}

\* Slip: the entries are counted out but not moved.
NotShifted(ep, tcb_id, a) == a

\* What the shifting loop leaves in array a: the surviving entries close up
\* towards the head in their order.  Slots behind the new tail are never
\* read; they keep their content here.
Shifted(ep, tcb_id, a) ==
  [i \in Slots |->
     LET K == NthSurvivor(ep, tcb_id, Offset(ep, i))
     IN  IF K = {} THEN a[i] ELSE a[SlotOf(ep, CHOOSE k \in K : TRUE)]]

\* Slip: a waiting receiver stays registered.
ReceiverNotForgotten(ep, tcb_id) == ep

\* The waiting-receiver half of endpoint_cleanup_for_tcb.
ForgetReceiver(ep, tcb_id) ==
  IF ep.has_receiver /\ ep.receiver_tcb = tcb_id
    THEN [ep EXCEPT !.has_receiver = FALSE, !.pending = FALSE,
                    !.receiver_tcb = NoThread]
    ELSE ep

\* Slip: the tail stays where it was.
ForgetSenderKeepsTail(ep, tcb_id) ==
  LET len == Cardinality(Survivors(ep, tcb_id))
  IN  [ep EXCEPT !.queue = Shifted(ep, tcb_id, ep.queue),
                 !.queue_msgs = Shifted(ep, tcb_id, ep.queue_msgs),
                 !.q_len = len,
                 !.pending = IF len = 0 THEN FALSE ELSE ep.pending]

\* The queued-sender half.  pending and q_tail are only written when an entry
\* is removed; the rendezvous slot is not looked at.
ForgetSender(ep, tcb_id) ==
  LET len == Cardinality(Survivors(ep, tcb_id))
  IN  IF len = ep.q_len
        THEN ep
        ELSE [ep EXCEPT !.queue = Shifted(ep, tcb_id, ep.queue),
                        !.queue_msgs = Shifted(ep, tcb_id, ep.queue_msgs),
                        !.q_len = len,
                        !.q_tail = (ep.q_head + len) % QSize,
                        !.pending = IF len = 0 THEN FALSE ELSE ep.pending]

endpoint_cleanup_for_tcb(ep, tcb_id) ==
  ForgetSender(ForgetReceiver(ep, tcb_id), tcb_id)

\* The queued messages of endpoint record r, oldest first, with their senders.
Fifo(r) ==
  [k \in 1 .. r.q_len |->
     <<r.queue[SlotOf(r, k - 1)], r.queue_msgs[SlotOf(r, k - 1)]>>]

\* The message in the rendezvous slot, when endpoint_recv would return it.
Handed(r) == IF r.pending /\ r.q_len = 0 THEN r.pending_msg ELSE NoMsg
=============================================================================
