------------------------------ MODULE MCSched -------------------------------
(***************************************************************************)
(* Two or three partitions in a major frame of five units, created in any  *)
(* order and created again elsewhere; two contexts in different or equal   *)
(* partitions; ticks of one and of three units, so that windows and        *)
(* periods are skipped.                                                    *)
(***************************************************************************)
EXTENDS SchedTime

MCThreads == {1, 2}

\* The layout of boot.c in proportion (0-3, 3-4, 4-5) and windows that overlap
\* it or leave a gap.
MCWindows == {<<0, 0, 3>>, <<1, 3, 1>>, <<2, 4, 1>>, <<1, 0, 2>>, <<2, 2, 2>>}

MCBindings == {<<0, 1, 0, 1, 3, 5>>, <<1, 2, 0, 1, 2, 9>>, <<1, 2, 1, 1, 2, 9>>}
=============================================================================
