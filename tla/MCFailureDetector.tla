------------------------- MODULE MCFailureDetector -------------------------
(***************************************************************************)
(* Small instances of FailureDetector for TLC.                             *)
(***************************************************************************)
EXTENDS FailureDetector

=============================================================================
