---------------------------- MODULE MCDhcpClient ----------------------------
(* Instances of DhcpClient for TLC. *)
EXTENDS DhcpClient, TLC

CONSTANTS s1, s2
MCServers  == {s1, s2}
MCSymmetry == Permutations(MCServers)

=============================================================================
