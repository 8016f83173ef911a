----------------------------- MODULE MCUpstream -----------------------------
(***************************************************************************)
(* A small instance of Upstream for TLC: several upstreams on one          *)
(* endpoint, and one on another.                                           *)
(***************************************************************************)
EXTENDS Upstream, TLC

CONSTANTS c1, c2, c3, c4, e1, e2

MCEndpointID == c1 :> e1 @@ c2 :> e1 @@ c3 :> e1 @@ c4 :> e2

=============================================================================
