---------------------------- MODULE MCUdpEndpoints ----------------------------
(* UdpEndpoints.tla for TLC: the hosts differ in nothing but their address. *)
EXTENDS UdpEndpoints, TLC

Symmetry == Permutations(Hosts)
================================================================================
