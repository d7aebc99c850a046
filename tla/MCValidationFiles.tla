------------------------- MODULE MCValidationFiles --------------------------
(***************************************************************************)
(* Small instances of ValidationFiles for TLC.                              *)
(***************************************************************************)
EXTENDS ValidationFiles, TLC

Symmetric == Permutations(Files) \cup Permutations(Sweeps)
=============================================================================
