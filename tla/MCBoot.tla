------------------------------- MODULE MCBoot -------------------------------
(***************************************************************************)
(* The boot sequence with the windows, the shares and the partitions of    *)
(* boot.c, in units of 100 microseconds, and processes that come and go    *)
(* afterwards: requests that are admitted, refused and cannot be bound.    *)
(***************************************************************************)
EXTENDS BootSequence

MCSlots == 0 .. 5

\* The boot sequence fills the root CNode itself.
NoCaps == [i \in MCSlots |-> NoCap]

MCWindows == << <<0, 0, 60>>, <<1, 60, 20>>, <<2, 80, 20>> >>

MCUntypedCap == [type |-> "UNTYPED", rights |-> AllRights, badge |-> 0, obj |-> 10, size |-> 1]

MCEndpointObjs == <<21, 22, 23>>

Args(p, budget, period, pages) ==
  [partition |-> p, budget |-> budget, period |-> period, priority |-> 5, pages |-> pages]

MCBootList == << Args(0, 10, 50, 1), Args(0, 5, 20, 1), Args(1, 5, 20, 1), Args(2, 5, 20, 1) >>

\* Beside the processes of boot the first is admitted and the second refused
\* until one of them is gone; the last asks for more than its window.
MCCreateArgs == {Args(0, 11, 38, 3), Args(0, 30, 40, 1), Args(1, 30, 40, 1)}

\* INV_SCHED_BIND for the context of the first process and another thread, with a
\* share that no admission test would pass, and for a context that may be free.
MCBindings == {<<0, 1, 0, 60, 60, 5>>, <<3, 2, 1, 5, 20, 5>>}
=============================================================================
