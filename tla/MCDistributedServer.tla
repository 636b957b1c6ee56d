------------------------ MODULE MCDistributedServer ------------------------
(* DistributedServer on small instances.                                   *)
EXTENDS DistributedServer, TLC

\* The servers are interchangeable, and so are the connections.
Symmetry == Permutations(Server) \cup Permutations(Conn)

=============================================================================
