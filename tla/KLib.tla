--------------------------------- MODULE KLib ---------------------------------
(* testlib, the program of os#0: one command after the other on its lists, *)
(* its hash tables and its bitmaps.  They share nothing, so a session      *)
(* keeps to one kind.                                                      *)
EXTENDS ListLib, HashTable, Bitmap

VARIABLE kind   \* bound: what the commands of this session are about

LibInit == ListInit /\ HashInit /\ BitInit /\ kind \in {"list", "hash", "bitmap"}

LibNext ==
  /\ UNCHANGED kind
  /\ \/ kind = "list" /\ ListCommand /\ UNCHANGED <<hashvars, bitvars>>
     \/ kind = "hash" /\ HashCommand /\ UNCHANGED <<listvars, bitvars>>
     \/ kind = "bitmap" /\ BitmapCommand /\ UNCHANGED <<listvars, hashvars>>

LibSpec == LibInit /\ [][LibNext]_<<listvars, hashvars, bitvars, kind>>
=============================================================================
