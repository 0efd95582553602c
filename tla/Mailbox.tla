------------------------------ MODULE Mailbox -------------------------------
(***************************************************************************)
(* What an endpoint promises, without rings and flags: a bounded FIFO of   *)
(* queued messages, one hand-over slot for a message given to a waiting    *)
(* receiver, and at most one waiter.  Module Ipc implements it.             *)
(***************************************************************************)
EXTENDS Integers, Sequences

CONSTANTS Endpoints, Threads, Messages, Capacity, NoThread, NoMsg

VARIABLES
  fifo,     \* fifo[e]: the queued messages, each with its sender, oldest first
  handed,   \* handed[e]: the message handed over and not yet taken, or NoMsg
  waiter    \* waiter[e]: the thread waiting at e, or NoThread

mvars == <<fifo, handed, waiter>>

Init ==
  /\ fifo = [e \in Endpoints |-> <<>>]
  /\ handed = [e \in Endpoints |-> NoMsg]
  /\ waiter = [e \in Endpoints |-> NoThread]

\* A message for a waiter is handed over; the waiter waits no longer.
HandOver(e, m) ==
  /\ waiter[e] # NoThread
  /\ handed' = [handed EXCEPT ![e] = m]
  /\ waiter' = [waiter EXCEPT ![e] = NoThread]
  /\ UNCHANGED fifo

\* Without a waiter the message is queued.  A message handed over earlier and
\* not taken yet is displaced.
Queue(e, t, m) ==
  /\ waiter[e] = NoThread
  /\ Len(fifo[e]) < Capacity
  /\ fifo' = [fifo EXCEPT ![e] = Append(@, <<t, m>>)]
  /\ handed' = [handed EXCEPT ![e] = NoMsg]
  /\ UNCHANGED waiter

TakeQueued(e) ==
  /\ fifo[e] # <<>>
  /\ fifo' = [fifo EXCEPT ![e] = Tail(@)]
  /\ UNCHANGED <<handed, waiter>>

TakeHanded(e) ==
  /\ fifo[e] = <<>>
  /\ handed[e] # NoMsg
  /\ handed' = [handed EXCEPT ![e] = NoMsg]
  /\ UNCHANGED <<fifo, waiter>>

Wait(e, t) ==
  /\ fifo[e] = <<>>
  /\ handed[e] = NoMsg
  /\ waiter' = [waiter EXCEPT ![e] = t]
  /\ UNCHANGED <<fifo, handed>>

\* q2 holds the entries of q that t did not queue, in their order: at[k] is the
\* place of the k-th of them in q.
Withdrawn(q, q2, t) ==
  \E at \in [1 .. Len(q2) -> 1 .. Len(q)] :
    /\ \A j, k \in 1 .. Len(q2) : j < k => at[j] < at[k]
    /\ {at[k] : k \in 1 .. Len(q2)} = {i \in 1 .. Len(q) : q[i][1] # t}
    /\ \A k \in 1 .. Len(q2) : q2[k] = q[at[k]]

\* Thread t is destroyed: it waits nowhere, and what it queued is withdrawn.
Forget(t) ==
  /\ fifo' \in [Endpoints -> Seq(Threads \X Messages)]
  /\ \A e \in Endpoints : Withdrawn(fifo[e], fifo'[e], t)
  /\ waiter' = [e \in Endpoints |-> IF waiter[e] = t THEN NoThread ELSE waiter[e]]
  /\ UNCHANGED handed

Next ==
  \/ \E e \in Endpoints, t \in Threads, m \in Messages :
        HandOver(e, m) \/ Queue(e, t, m)
  \/ \E e \in Endpoints : TakeQueued(e) \/ TakeHanded(e)
  \/ \E e \in Endpoints, t \in Threads : Wait(e, t)
  \/ \E t \in Threads : Forget(t)

Spec == Init /\ [][Next]_mvars
=============================================================================
