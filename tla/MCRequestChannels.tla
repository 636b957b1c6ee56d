------------------------- MODULE MCRequestChannels -------------------------
(* RequestChannels on small instances.                                     *)
EXTENDS RequestChannels, TLC

\* The objects and the application threads are interchangeable.
Symmetry == Permutations(User) \cup Permutations(Channel)

\* No action of this module looks at the messages that wait for the peer, only
\* at how many there are.
View == <<manager, objects, threads, conn, Len(toPeer), fromPeer, fault, overlap>>

=============================================================================
