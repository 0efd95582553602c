----------------------------- MODULE MCProcess ------------------------------
(***************************************************************************)
(* Processes whose requests are admitted, refused and cannot be bound, and *)
(* a small root CNode.  Time is in units of 100 microseconds; the windows  *)
(* are those of test_revoke_process.c.                                     *)
(***************************************************************************)
EXTENDS Process

MCSlots == 0 .. 3

MCWindows == << <<0, 0, 60>>, <<1, 60, 40>> >>

Cap(type, obj, size) ==
  [type |-> type, rights |-> AllRights, badge |-> 0, obj |-> obj, size |-> size]

\* The root CNode after boot.
BootCaps == [i \in MCSlots |-> IF i = 0 THEN Cap("UNTYPED", 10, 1) ELSE NoCap]

\* With capabilities for a CNode and the TCB of process 0, as
\* test_invoke_ops.c installs them.
TcbCaps ==
  [i \in MCSlots |->
     CASE i = 0 -> Cap("CNODE", 11, 1)
       [] i = 1 -> Cap("UNTYPED", 10, 3)
       [] i = 2 -> Cap("TCB", 0, 1)
       [] OTHER -> NoCap]

Args(p, budget, period, pages) ==
  [partition |-> p, budget |-> budget, period |-> period, priority |-> 5, pages |-> pages]

\* The last one asks for more than the window of its partition.
MCCreateArgs == {Args(0, 5, 7, 1), Args(0, 11, 38, 3), Args(0, 30, 40, 1), Args(1, 50, 50, 1)}

\* INV_SCHED_BIND for thread 0.
MCBindings == {<<0, 0, 1, 30, 40, 5>>}

\* The second asks for the whole processor, and is refused.
SmallArgs == {Args(1, 30, 40, 1), Args(1, 40, 40, 1)}
=============================================================================
