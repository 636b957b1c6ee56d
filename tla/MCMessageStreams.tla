------------------------- MODULE MCMessageStreams --------------------------
(* MessageStreams on small instances.                                      *)
EXTENDS MessageStreams

=============================================================================
