--------------------------- MODULE MCNodeFoundry ---------------------------
(***************************************************************************)
(* Small instances of the server for TLC.  The machines are                *)
(* interchangeable, and so are the worker goroutines.                      *)
(***************************************************************************)
EXTENDS NodeFoundry, TLC

Symmetry == Permutations(MACs) \cup Permutations(Workers)
=============================================================================
