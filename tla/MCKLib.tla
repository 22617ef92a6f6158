-------------------------------- MODULE MCKLib --------------------------------
(* The keys with the last four bits of their hash_int; the squares and cubes  *)
(* of some of them are keys again.                                            *)
EXTENDS KLib

MCKeys == {-1, 0, 1, 2, 4}
MCHash == [k \in MCKeys |-> CASE k \in {-1, 4} -> 9 [] k = 0 -> 5 [] k = 1 -> 10 [] k = 2 -> 15]
=============================================================================
