------------------------------ MODULE MCIpcRing -----------------------------
(***************************************************************************)
(* Two senders, one of them mortal, and a server, with a ring large enough *)
(* to hold entries of both in any order and small enough to wrap around.   *)
(* Nobody is suspended or resumed from outside.                            *)
(***************************************************************************)
EXTENDS Ipc, TLC

MCThreads == 0 .. 2
MCCalls == {<<1, "e1">>}
MCSends == {<<1, "e1">>, <<2, "e1">>}
MCRecvs == {<<0, "e1">>}
MCHome == 0 :> "c0" @@ 1 :> "c1" @@ 2 :> "root"
=============================================================================
