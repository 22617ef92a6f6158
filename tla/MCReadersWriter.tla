--------------------------- MODULE MCReadersWriter ----------------------------
(* Small instances of ReadersWriter for TLC.                               *)
EXTENDS ReadersWriter, TLC

Processes == Permutations(Proc)
=============================================================================
