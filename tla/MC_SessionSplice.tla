--------------------------- MODULE MC_SessionSplice ---------------------------
(* Small instances of SessionSplice.  The windows are a few bytes wide, so   *)
(* that a frame, a message and a window are all of about the same size.      *)
EXTENDS SessionSplice, TLC

Interchangeable == Permutations(Targets) \cup Permutations(Others)
=============================================================================
