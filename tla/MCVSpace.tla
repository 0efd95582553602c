------------------------------ MODULE MCVSpace ------------------------------
(***************************************************************************)
(* The address space of the kernel (partition 0) and one of partition 1,   *)
(* with two entries in a table: a walk of eight pages.  Memory and the     *)
(* array of capabilities run out between the levels of a walk.             *)
(***************************************************************************)
EXTENDS VSpace

MCSpaces == 0 .. 1

MCPartition == [v \in MCSpaces |-> v]

\* An uncoloured frame, and one of partition 1.
MCFrames == {[ppn |-> 30, perms |-> {"R", "W"}, color |-> 0],
             [ppn |-> 42, perms |-> {"R"}, color |-> 2]}
=============================================================================
