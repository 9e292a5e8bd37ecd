----------------------------- MODULE MCCloudSync -----------------------------
(***************************************************************************)
(* Instances of CloudSync for TLC.                                         *)
(***************************************************************************)
EXTENDS CloudSyncStore, TLC

\* Clocks that agree.
SameTime == [m \in Machines |-> 0]

\* Sound: no property names a computer, and every clock is the same.
Symmetry == Permutations(Machines)
=============================================================================
