------------------------------- MODULE MCPeers -------------------------------
(***************************************************************************)
(* An instance of Peers: one target and one discovered host, in different  *)
(* subnets.                                                                *)
(***************************************************************************)
EXTENDS Peers

MCSubnet == [h \in Host |-> h]

=============================================================================
