------------------------------ MODULE MCTunnel ------------------------------
(* Tunnel on small instances.                                                 *)
EXTENDS Tunnel

=============================================================================
