---------------------------- MODULE MCProcessWait -----------------------------
(* Small instances of ProcessWait for TLC.                                 *)
EXTENDS ProcessWait, TLC

Codes == {-1, 0}
=============================================================================
