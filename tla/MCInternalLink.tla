-------------------------- MODULE MCInternalLink ---------------------------
(* InternalLink on small instances.                                        *)
EXTENDS InternalLink, TLC

\* The objects and the threads of each kind are interchangeable.
Symmetry == Permutations(Channel) \cup Permutations(User)
                \cup Permutations(RChannel) \cup Permutations(Handler)

=============================================================================
