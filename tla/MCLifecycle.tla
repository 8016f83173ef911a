---------------------------- MODULE MCLifecycle ----------------------------
(***************************************************************************)
(* Instances of Lifecycle: Lifecycle.cfg, LifecycleGone.cfg and            *)
(* LifecycleJoin.cfg.                                                      *)
(***************************************************************************)
EXTENDS Lifecycle

=============================================================================
