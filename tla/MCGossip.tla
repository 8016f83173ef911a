------------------------------ MODULE MCGossip ------------------------------
(***************************************************************************)
(* Small instances of Gossip for TLC: Gossip.cfg and GossipLeft.cfg.       *)
(***************************************************************************)
EXTENDS Gossip

=============================================================================
