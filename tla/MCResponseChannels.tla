------------------------ MODULE MCResponseChannels -------------------------
(* ResponseChannels on small instances.                                    *)
EXTENDS ResponseChannels, TLC

\* The objects and the handler threads are interchangeable.
Symmetry == Permutations(Handler) \cup Permutations(RChannel)

\* No action of this module looks at the messages that wait for the peer, only
\* at how many there are.
View == <<rManager, rObjects, rThreads, rConn, Len(outStream), inStream, rFault, rOverlap>>

=============================================================================
