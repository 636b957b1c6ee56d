-------------------------- MODULE LossyMulticast ---------------------------
(***************************************************************************)
(* What the announcements of servers are for one server that listens: an   *)
(* announcement waits once it has been multicast, and is then heard or     *)
(* lost.  DistributedServer relies on it.                                  *)
(***************************************************************************)
CONSTANT Announcement
VARIABLES waiting, heard

Init == waiting = {} /\ heard = {}

Announce(a) ==
    /\ a \notin waiting \cup heard
    /\ waiting' = waiting \cup {a}
    /\ UNCHANGED heard

Lose(a) ==
    /\ a \in waiting
    /\ waiting' = waiting \ {a}
    /\ UNCHANGED heard

Hear(a) ==
    /\ a \in waiting
    /\ waiting' = waiting \ {a}
    /\ heard' = heard \cup {a}

Next == \E a \in Announcement : Announce(a) \/ Lose(a) \/ Hear(a)

Spec == Init /\ [][Next]_<<waiting, heard>>

=============================================================================
