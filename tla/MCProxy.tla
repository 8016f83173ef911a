------------------------------ MODULE MCProxy ------------------------------
(***************************************************************************)
(* Instances of Proxy: Proxy.cfg and ProxyTCP.cfg.                         *)
(***************************************************************************)
EXTENDS Proxy

=============================================================================
