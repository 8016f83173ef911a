---------------------------- MODULE MCMembership ----------------------------
(***************************************************************************)
(* Instances of Membership: Membership.cfg and MembershipCrashed.cfg.      *)
(***************************************************************************)
EXTENDS Membership

=============================================================================
