------------------------------ MODULE MCFileSys ------------------------------
(* Values for model checking FileSys. *)
EXTENDS FileSys, TLC
MCSector == 2 .. 4
MCEntry == 1 .. 2
MCFd == 3 .. 4
MCSize == {0, 1, 2}
Symmetry == Permutations(Process) \cup Permutations(Name)
=============================================================================
