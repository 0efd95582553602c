-------------------------------- MODULE Ipc ---------------------------------
(***************************************************************************)
(* Threads and endpoints together: the IPC system calls of                 *)
(* kernel/src/syscall.c once their checks have passed, the TCB invocations *)
(* that change a thread's state behind the back of an endpoint, and the    *)
(* creation and destruction of threads as far as IPC sees them.            *)
(*                                                                         *)
(* The kernel runs to completion, so a system call is one step; threads    *)
(* interleave between system calls.  A call that returns an error leaves   *)
(* these variables alone and is a stuttering step.                         *)
(***************************************************************************)
EXTENDS Endpoint, Tcb, Sequences

CONSTANTS
  Endpoints,   \* the endpoints of the instance
  Calls,       \* <<t, e>>: the program of thread t uses SYS_CALL on e
  Sends,       \* <<t, e>>: it uses SYS_SEND on e
  Recvs,       \* <<t, e>>: it uses SYS_REPLY_RECV on e
  Manages,     \* <<a, t>>: thread a invokes its TCB capability for thread t
  Mortal,      \* the threads that process_destroy is called for
  CNodes,      \* the CNodes of the instance
  Root,        \* g_root_cnode
  NoCNode,     \* the cspace pointer is NULL
  Home         \* Home[t]: the CNode thread t starts with

ASSUME IpcAssumption ==
  /\ Calls \subseteq Threads \X Endpoints
  /\ Sends \subseteq Threads \X Endpoints
  /\ Recvs \subseteq Threads \X Endpoints
  /\ Manages \subseteq Threads \X Threads
  /\ Mortal \subseteq Threads
  /\ Root \in CNodes
  /\ Home \in [Threads -> CNodes]
  /\ NoCNode \notin CNodes

VARIABLES
  state,      \* state[t]: g_tcbs.threads[t].state
  inuse,      \* TCBs that are not free: pc, sp or cspace is set
  cspace,     \* cspace[t]: the CNode of t, or NoCNode
  stocked,    \* the CNodes whose slots have not been cleared
  buffer,     \* buffer[t]: what ipc_buffer of t holds
  ep,         \* ep[e]: g_endpoints[e]
  composed,   \* composed[t]: number of messages t has sent (history)
  accepted,   \* accepted[e]: messages endpoint_send accepted, in order (history)
  delivered   \* delivered[e]: messages endpoint_recv returned, in order (history)

vars == <<state, inuse, cspace, stocked, buffer, ep, composed, accepted, delivered>>

\* Threads are set up and resumed before they talk (as in tests/test_ipc_trap.c).
Init ==
  /\ state = [t \in Threads |-> "RUNNABLE"]
  /\ inuse = Threads
  /\ cspace = Home
  /\ stocked = CNodes
  /\ buffer = [t \in Threads |-> NoMsg]
  /\ ep = [e \in Endpoints |-> EndpointZero]
  /\ composed = [t \in Threads |-> 0]
  /\ accepted = [e \in Endpoints |-> <<>>]
  /\ delivered = [e \in Endpoints |-> <<>>]

-----------------------------------------------------------------------------

\* syscall_handler serves a runnable thread that finds the capability in its
\* cspace.
MayTrap(t) == tcb_is_runnable(state[t]) /\ cspace[t] \in stocked

\* SYS_INVOKE with a null pointer finds it in the root CNode as well.
MayInvoke(t) == tcb_is_runnable(state[t]) /\ {cspace[t], Root} \cap stocked # {}

\* Slip: endpoint_send does not wake the receiver.
NotWoken(e) == state

\* The thread states after endpoint_send on e: a registered receiver is woken.
Woken(e) ==
  IF ep[e].has_receiver /\ ep[e].receiver_tcb \in Threads
    THEN [state EXCEPT ![ep[e].receiver_tcb] = tcb_wake_from_ipc(@)]
    ELSE state

\* Thread t has written its next message into its IPC buffer; endpoint_send
\* accepts it.
Transmit(t, e) ==
  LET m == <<t, composed[t] + 1>>
  IN  /\ MayTrap(t)
      /\ composed[t] < MaxMsgs
      /\ SendAccepts(ep[e])
      /\ ep' = [ep EXCEPT ![e] = endpoint_send(@, t, m)]
      /\ buffer' = [buffer EXCEPT ![t] = m]
      /\ composed' = [composed EXCEPT ![t] = @ + 1]
      /\ accepted' = [accepted EXCEPT ![e] = Append(@, m)]
      /\ UNCHANGED <<inuse, cspace, stocked, delivered>>

\* SYS_CALL: send, then wait for the reply.
SysCall(t, e) ==
  /\ <<t, e>> \in Calls
  /\ Transmit(t, e)
  /\ state' = [Woken(e) EXCEPT ![t] = "BLOCKED_REPLY"]

\* SYS_SEND: send and go on.
SysSend(t, e) ==
  /\ <<t, e>> \in Sends
  /\ Transmit(t, e)
  /\ state' = Woken(e)

\* SYS_REPLY_RECV with a message there: it is copied to the caller's buffer.
\* The sender is resumed if it is blocked in a send.
Receive(t, e) ==
  LET sender == ep[e].queue[ep[e].q_head]
  IN  /\ <<t, e>> \in Recvs
      /\ MayTrap(t)
      /\ HasMessage(ep[e])
      /\ ep' = [ep EXCEPT ![e] = endpoint_recv(@, t)]
      /\ buffer' = [buffer EXCEPT ![t] = Received(ep[e])]
      /\ state' = IF /\ ep[e].q_len > 0
                     /\ sender \in Threads
                     /\ state[sender] = "BLOCKED_SEND"
                    THEN [state EXCEPT ![sender] = tcb_resume(@)]
                    ELSE state
      /\ delivered' = [delivered EXCEPT ![e] = Append(@, Received(ep[e]))]
      /\ UNCHANGED <<inuse, cspace, stocked, composed, accepted>>

\* SYS_REPLY_RECV with nothing there: the caller waits.
BlockInRecv(t, e) ==
  /\ <<t, e>> \in Recvs
  /\ MayTrap(t)
  /\ ~HasMessage(ep[e])
  /\ ep' = [ep EXCEPT ![e] = endpoint_recv(@, t)]
  /\ state' = [state EXCEPT ![t] = "BLOCKED_RECV"]
  /\ UNCHANGED <<inuse, cspace, stocked, buffer, composed, accepted, delivered>>

SysReplyRecv(t, e) == Receive(t, e) \/ BlockInRecv(t, e)

-----------------------------------------------------------------------------

\* INV_TCB_RESUME
InvokeResume(a, t) ==
  /\ <<a, t>> \in Manages
  /\ MayInvoke(a)
  /\ state' = [state EXCEPT ![t] = IF @ = "INACTIVE"
                                     THEN tcb_resume(@) ELSE tcb_wake_from_ipc(@)]
  /\ UNCHANGED <<inuse, cspace, stocked, buffer, ep, composed, accepted, delivered>>

\* INV_TCB_SUSPEND
InvokeSuspend(a, t) ==
  /\ <<a, t>> \in Manages
  /\ MayInvoke(a)
  /\ state' = [state EXCEPT ![t] = tcb_suspend(@)]
  /\ UNCHANGED <<inuse, cspace, stocked, buffer, ep, composed, accepted, delivered>>

\* INV_TCB_CONFIGURE finds a CNode and a VSpace capability in the root CNode
\* and then gives the TCB the root CNode itself: it is in use from then on.
InvokeConfigure(a, t) ==
  /\ <<a, t>> \in Manages
  /\ MayInvoke(a)
  /\ Root \in stocked
  /\ state' = [state EXCEPT ![t] = tcb_configure(@)]
  /\ inuse' = inuse \cup {t}
  /\ cspace' = [cspace EXCEPT ![t] = Root]
  /\ UNCHANGED <<stocked, buffer, ep, composed, accepted, delivered>>

\* process_create takes the first free TCB; the new process has no cspace yet.
ProcessCreate(t) ==
  /\ t \in Threads \ inuse
  /\ \A u \in Threads \ inuse : t <= u
  /\ inuse' = inuse \cup {t}
  /\ state' = [state EXCEPT ![t] = "INACTIVE"]
  /\ buffer' = [buffer EXCEPT ![t] = NoMsg]
  /\ cspace' = [cspace EXCEPT ![t] = NoCNode]
  /\ UNCHANGED <<stocked, ep, composed, accepted, delivered>>

\* process_destroy cleans every endpoint, clears all slots of the thread's
\* CNode, whoever else uses it, and scrubs the TCB.
ProcessDestroy(t) ==
  /\ t \in inuse \cap Mortal
  /\ ep' = [e \in Endpoints |-> endpoint_cleanup_for_tcb(ep[e], t)]
  /\ stocked' = stocked \ {cspace[t]}
  /\ cspace' = [cspace EXCEPT ![t] = NoCNode]
  /\ inuse' = inuse \ {t}
  /\ state' = [state EXCEPT ![t] = "INACTIVE"]
  /\ buffer' = [buffer EXCEPT ![t] = NoMsg]
  /\ UNCHANGED <<composed, accepted, delivered>>

Next ==
  \/ \E t \in Threads, e \in Endpoints :
        SysCall(t, e) \/ SysSend(t, e) \/ Receive(t, e) \/ BlockInRecv(t, e)
  \/ \E a \in Threads, t \in Threads :
        InvokeResume(a, t) \/ InvokeSuspend(a, t) \/ InvokeConfigure(a, t)
  \/ \E t \in Threads : ProcessCreate(t) \/ ProcessDestroy(t)

Spec == Init /\ [][Next]_vars

-----------------------------------------------------------------------------

\* Types of the kernel state; the histories hold messages.
TypeOK ==
  /\ state \in [Threads -> TcbStates]
  /\ inuse \in SUBSET Threads
  /\ cspace \in [Threads -> CNodes \cup {NoCNode}]
  /\ stocked \in SUBSET CNodes
  /\ buffer \in [Threads -> Msgs \cup {NoMsg}]
  /\ ep \in [Endpoints -> EndpointRec]
  /\ composed \in [Threads -> 0 .. MaxMsgs]
  /\ accepted \in [Endpoints -> Seq(Msgs)]
  /\ delivered \in [Endpoints -> Seq(Msgs)]

\* The parts of an endpoint agree after any sequence of sends, receives and
\* clean-ups: the tail is q_len slots behind the head, a registered receiver
\* means there is nothing to receive, and queued messages are announced by
\* pending (endpoint_send, endpoint_recv, endpoint_cleanup_for_tcb).
RingConsistent ==
  \A e \in Endpoints :
    /\ ep[e].q_tail = (ep[e].q_head + ep[e].q_len) % QSize
    /\ ep[e].has_receiver => ep[e].q_len = 0 /\ ~ep[e].pending
    /\ ep[e].q_len > 0 => ep[e].pending

\* No lost wake-up: a thread blocked in SYS_REPLY_RECV is the registered
\* receiver of an endpoint that has no message, so the next send wakes it.
\* This holds while every endpoint has one receiving thread (OneReceiver):
\* endpoint_recv overwrites the registration of an earlier receiver.
NoLostWakeup ==
  \A t \in Threads :
    state[t] = "BLOCKED_RECV" =>
      \E e \in Endpoints : /\ ep[e].has_receiver
                          /\ ep[e].receiver_tcb = t
                          /\ ~HasMessage(ep[e])

\* Each endpoint has at most one receiving thread, as boot.c sets it up ("each
\* server gets its own endpoint").
OneReceiver ==
  \A t, u \in Threads, e \in Endpoints :
    <<t, e>> \in Recvs /\ <<u, e>> \in Recvs => t = u

\* No endpoint refers to a thread that has been destroyed: it is not the
\* registered receiver, and it has no entry in the queue
\* (endpoint_cleanup_for_tcb, process_destroy).
NoDanglingThread ==
  \A e \in Endpoints, t \in Threads \ inuse :
    /\ ~(ep[e].has_receiver /\ ep[e].receiver_tcb = t)
    /\ \A k \in 0 .. (ep[e].q_len - 1) : ep[e].queue[SlotOf(ep[e], k)] # t

\* Position of message m in history h.
At(h, m) == {i \in 1 .. Len(h) : h[i] = m}

\* Messages come out of an endpoint in the order endpoint_send accepted them,
\* none of them twice, whichever of the ring and the rendezvous slot carried
\* them and whatever was withdrawn in between.
DeliveredInOrder ==
  \A e \in Endpoints :
    \A i, j \in 1 .. Len(delivered[e]) :
      i < j => \E p \in At(accepted[e], delivered[e][i]),
                  q \in At(accepted[e], delivered[e][j]) : p < q

M == INSTANCE Mailbox WITH
       Messages <- Msgs,
       Capacity <- QSize,
       fifo     <- [e \in Endpoints |-> Fifo(ep[e])],
       handed   <- [e \in Endpoints |-> Handed(ep[e])],
       waiter   <- [e \in Endpoints |->
                      IF ep[e].has_receiver THEN ep[e].receiver_tcb ELSE NoThread]

\* The ring buffer with its flags implements the bounded FIFO with one
\* hand-over slot: every system call and every destruction is a Mailbox step
\* or leaves the mailbox unchanged.
RefinesMailbox == M!Spec

-----------------------------------------------------------------------------

Queued(r) == {Fifo(r)[k][2] : k \in 1 .. r.q_len}

InHistory(h, m) == At(h, m) # {}

\* A server loops in SYS_REPLY_RECV and is given the processor: boot.c puts
\* sched_server and vfs_server alone in a time partition, whose window comes
\* up in every major frame.
FairSpec == Spec /\ \A t \in Threads, e \in Endpoints : WF_vars(SysReplyRecv(t, e))

\* A queued message is delivered sooner or later, unless its sender is
\* destroyed first: the server is never left asleep on a non-empty queue and
\* the ring loses no entry.
QueuedIsDelivered ==
  \A e \in Endpoints, m \in Msgs :
    m \in Queued(ep[e]) ~> InHistory(delivered[e], m) \/ m[1] \notin inuse

\* Every message endpoint_send accepted is still held by the endpoint or has
\* been delivered ("Endpoint rendezvous else FIFO", docs/ARCHITECTURE.md).
NoMessageLost ==
  \A e \in Endpoints : \A i \in 1 .. Len(accepted[e]) :
    LET m == accepted[e][i]
    IN  \/ InHistory(delivered[e], m)
        \/ m \in Queued(ep[e])
        \/ m = Handed(ep[e])

\* A thread that made a SYS_CALL runs again ("use SYS_CALL which does proper
\* block/wake", endpoint.c).
CallReturns ==
  \A t \in Threads : state[t] = "BLOCKED_REPLY" ~> state[t] = "RUNNABLE"
=============================================================================
