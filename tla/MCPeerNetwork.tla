---------------------------- MODULE MCPeerNetwork ----------------------------
(***************************************************************************)
(* An instance of PeerNetwork for TLC.  n1 looks up two seeds, as in the   *)
(* code.  The first gives it both nodes, and the same to n2, so that they  *)
(* may dial each other; the second gives n1 the address of n2 again, which *)
(* it may then dial twice.  (To n2 the second would give only itself.)     *)
(***************************************************************************)
EXTENDS PeerNetwork

CONSTANTS n1, n2

SeedAnswers ==
  [n \in Node |-> IF n = n1 THEN << {{n1, n2}}, {{n2}} >> ELSE << {{n1, n2}} >>]
=============================================================================
