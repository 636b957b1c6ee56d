------------------------ MODULE MCMulticastRequests ------------------------
(* MulticastRequests on small instances; no symmetry, as one sender listens *)
(* and the runs check liveness.                                            *)
EXTENDS MulticastRequests

=============================================================================
