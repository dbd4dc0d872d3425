---------------------------- MODULE MCSshCommand ----------------------------
(* Two processes and three workspaces, one of which a killed call leaves.   *)
(* One of the clients writes, the other one only ends.                      *)
EXTENDS SshCommand, TLC

CONSTANTS p1, p2, d1, d2, d3
MCMaxChunks == p1 :> 1 @@ p2 :> 0
=============================================================================
