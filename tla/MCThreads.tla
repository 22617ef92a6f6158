------------------------------ MODULE MCThreads ------------------------------
(* Small instances of Threads for TLC.                                     *)
EXTENDS Threads, TLC

Workers == Permutations(Thread \ {Main, Idle})
=============================================================================
