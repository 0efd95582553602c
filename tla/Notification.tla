---------------------------- MODULE Notification ----------------------------
(***************************************************************************)
(* Notifications (kernel/src/notification.c): a word of badge bits that    *)
(* signals are or-ed into, and a registered waiter.  The functions leave   *)
(* the scheduling to their caller ("caller handles scheduling", "caller    *)
(* blocks TCB"), which is not part of the repository: it blocks the thread *)
(* whose wait found the word empty and wakes the registered waiter after a *)
(* signal, each in the same kernel call.                                   *)
(*                                                                         *)
(* One thread, the driver, waits ("driver TCB waits via                    *)
(* notification_wait()", boot.c); any thread may signal and poll.          *)
(***************************************************************************)
EXTENDS Integers

CONSTANTS
  Driver, Peer,   \* the thread that waits, and another one
  Bits            \* the bits of a badge

ASSUME NotificationAssumption == Driver # Peer

VARIABLES
  ntfn,      \* [badge, has_waiter, waiter_tcb, bound_tcb]
  asleep,    \* the threads that their wait has blocked
  taken      \* taken[t]: the badge that t took last

wvars == <<ntfn, asleep, taken>>

notification_zero == [badge |-> {}, has_waiter |-> FALSE, waiter_tcb |-> Peer, bound_tcb |-> Peer]

WInit ==
  /\ ntfn = notification_zero
  /\ asleep = {}
  /\ taken = [t \in {Driver, Peer} |-> {}]

\* Slip: a new signal replaces the word.
SignalOverwrites(n, badge) == [n EXCEPT !.badge = badge]

\* Badges coalesce.
notification_signal(n, badge) == [n EXCEPT !.badge = @ \cup badge]

\* Slip: a waiter that finds the word empty is not registered.
WaitUnregistered(n, t) == [n EXCEPT !.badge = {}]

\* The word is taken, or the thread is registered; nothing ever clears the
\* registration.
notification_wait(n, t) ==
  IF n.badge # {} THEN [n EXCEPT !.badge = {}]
                  ELSE [n EXCEPT !.has_waiter = TRUE, !.waiter_tcb = t]

notification_poll(n) == [n EXCEPT !.badge = {}]

notification_bind(n, t) == [n EXCEPT !.bound_tcb = t]

\* What the caller of notification_signal does.
Woken(n, sleepers) == IF n.has_waiter THEN sleepers \ {n.waiter_tcb} ELSE sleepers

-----------------------------------------------------------------------------

\* A signal of the empty badge is refused.
Signal(badge) ==
  /\ badge # {}
  /\ ntfn' = notification_signal(ntfn, badge)
  /\ asleep' = Woken(ntfn, asleep)
  /\ UNCHANGED taken

Wait(t) ==
  /\ t \notin asleep
  /\ ntfn' = notification_wait(ntfn, t)
  /\ asleep' = IF ntfn.badge = {} THEN asleep \cup {t} ELSE asleep
  /\ taken' = [taken EXCEPT ![t] = IF ntfn.badge = {} THEN @ ELSE ntfn.badge]

Poll(t) ==
  /\ t \notin asleep
  /\ ntfn' = notification_poll(ntfn)
  /\ taken' = [taken EXCEPT ![t] = ntfn.badge]
  /\ UNCHANGED asleep

Bind(t) ==
  /\ ntfn' = notification_bind(ntfn, t)
  /\ UNCHANGED <<asleep, taken>>

WNext ==
  \/ \E badge \in SUBSET Bits : Signal(badge)
  \/ Wait(Driver)
  \/ \E t \in {Driver, Peer} : Poll(t) \/ Bind(t)

WSpec == WInit /\ [][WNext]_wvars

-----------------------------------------------------------------------------

\* No signal is slept through: a thread blocked in its wait is registered and
\* the word is empty, so the next signal wakes it.  The registration left over
\* from an earlier wait does no harm while one thread waits.
NoMissedSignal ==
  \A t \in asleep : ntfn.badge = {} /\ ntfn.has_waiter /\ ntfn.waiter_tcb = t

\* Every bit that is signalled is taken by some thread in the end, also when
\* further signals coalesce with it (the driver waits again and again).
SignalIsTaken ==
  \A b \in Bits :
    b \in ntfn.badge ~> b \notin ntfn.badge /\ \E t \in {Driver, Peer} : b \in taken[t]
=============================================================================
