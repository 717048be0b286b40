--------------------------- MODULE MCProvisioning ---------------------------
(***************************************************************************)
(* A small instance of the server and the machines it installs for TLC.    *)
(***************************************************************************)
EXTENDS Provisioning
=============================================================================
