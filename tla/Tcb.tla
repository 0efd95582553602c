-------------------------------- MODULE Tcb --------------------------------
(***************************************************************************)
(* Thread states and the transitions of kernel/src/tcb.c.  The operators   *)
(* take the state of one TCB and return its next state; the modules that   *)
(* hold the thread table apply them to the entry of the thread concerned.  *)
(***************************************************************************)

\* tcb_state_t (kernel/include/tcb.h)
TcbStates ==
  {"INACTIVE", "RUNNABLE", "BLOCKED_SEND", "BLOCKED_RECV", "BLOCKED_REPLY"}

\* tcb_configure leaves the thread stopped, whatever it was doing.
tcb_configure(s) == "INACTIVE"

tcb_suspend(s) == "INACTIVE"

tcb_resume(s) ==
  IF s \in TcbStates \ {"RUNNABLE"} THEN "RUNNABLE" ELSE s

\* A thread that waits for no message is left alone (ERR_INVALID_ARG, which
\* both callers ignore).
tcb_wake_from_ipc(s) ==
  IF s \in {"BLOCKED_RECV", "BLOCKED_REPLY"} THEN "RUNNABLE" ELSE s

tcb_is_runnable(s) == s = "RUNNABLE"
=============================================================================
