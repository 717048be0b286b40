------------------------------ MODULE MCIPPool ------------------------------
(***************************************************************************)
(* Small instances of the address pool for TLC.  The machines are          *)
(* interchangeable; addresses are not, the scan orders them.               *)
(***************************************************************************)
EXTENDS IPPool, TLC

Symmetry == Permutations(MACs)
=============================================================================
