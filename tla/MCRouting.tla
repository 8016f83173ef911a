------------------------------ MODULE MCRouting ------------------------------
(***************************************************************************)
(* Small instances of Routing for TLC.                                     *)
(***************************************************************************)
EXTENDS Routing

=============================================================================
