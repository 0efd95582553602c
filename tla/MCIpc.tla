-------------------------------- MODULE MCIpc -------------------------------
(***************************************************************************)
(* A server (thread 0) with one endpoint, and a client that calls it.      *)
(* Thread 2 sends to it and manages the others: it resumes, suspends and   *)
(* configures them.                                                        *)
(***************************************************************************)
EXTENDS Ipc, TLC

MCThreads == 0 .. 2
MCCalls == {<<1, "e1">>}
MCSends == {<<2, "e1">>}
MCRecvs == {<<0, "e1">>}
MCManages == {<<2, 0>>, <<2, 1>>}
MCMortal == {0, 1}
MCHome == 0 :> "c0" @@ 1 :> "c1" @@ 2 :> "root"
=============================================================================
