---------------------------- MODULE MCTunnelStream ----------------------------
EXTENDS TunnelStream

=============================================================================
