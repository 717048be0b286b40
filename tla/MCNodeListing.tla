--------------------------- MODULE MCNodeListing ---------------------------
(***************************************************************************)
(* A small instance of the repository for TLC.  The machines are not       *)
(* interchangeable: their keys order them.                                 *)
(***************************************************************************)
EXTENDS NodeListing

CONSTANTS m1, m2, m3

MCKeyOrder == <<m1, m2, m3>>
=============================================================================
