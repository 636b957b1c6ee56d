---------------------------- MODULE Membership -----------------------------
(***************************************************************************)
(* What servers that are started one at a time promise each other.  Two    *)
(* running servers have at most one connection.  It lasts until one of     *)
(* them ends or the connection fails: an end of it is given up when the    *)
(* other end is closed already, or by a failure, which breaks the pair     *)
(* until one of the two is started anew.  A server enters a connection at  *)
(* most once, while its own end is open, and keeps the entry until that    *)
(* end is closed.                                                          *)
(***************************************************************************)
CONSTANTS Server, Conn, None

VARIABLES
    up,      \* the servers that run
    ends,    \* the servers that a connection is between, {} before it is made
    open,    \* the ends of a connection that are open
    table,   \* the connection that a server has entered for a peer
    broken   \* the pairs of servers between which something has failed

Init ==
    /\ up = {}
    /\ ends = [k \in Conn |-> {}]
    /\ open = [k \in Conn |-> {}]
    /\ table = [s \in Server |-> [p \in Server |-> None]]
    /\ broken = {}

Join(s) ==
    /\ s \notin up
    /\ up' = up \cup {s}
    /\ UNCHANGED <<ends, open, table, broken>>

Leave(s) ==
    /\ s \in up
    /\ up' = up \ {s}
    /\ open' = [k \in Conn |-> open[k] \ {s}]
    /\ table' = [table EXCEPT ![s] = [p \in Server |-> None]]
    /\ broken' = {q \in broken : s \notin q}
    /\ UNCHANGED ends

\* Nothing is left of an earlier connection, at either end.
Connect(s, p) ==
    /\ s # p /\ {s, p} \subseteq up
    /\ \A k \in Conn : ends[k] = {s, p} => open[k] = {}
    /\ \E k \in Conn :
          /\ ends[k] = {}
          /\ ends' = [ends EXCEPT ![k] = {s, p}]
          /\ open' = [open EXCEPT ![k] = {s, p}]
    /\ UNCHANGED <<up, table, broken>>

Enter(s, p) ==
    /\ s # p /\ table[s][p] = None
    /\ \E k \in Conn :
          /\ ends[k] = {s, p} /\ s \in open[k]
          /\ table' = [table EXCEPT ![s][p] = k]
    /\ UNCHANGED <<up, ends, open, broken>>

\* An announcement of s gets lost on its way to some servers, or a call that is
\* meant to connect it to one of them fails.
Break(s) ==
    /\ s \in up
    /\ \E missed \in SUBSET up : broken' = broken \cup {{s, p} : p \in missed}
    /\ UNCHANGED <<up, ends, open, table>>

\* The other end is closed already, or the connection fails.
GiveUp(s, k) ==
    /\ s \in open[k]
    /\ open' = [open EXCEPT ![k] = @ \ {s}]
    /\ \/ open[k] = {s} /\ UNCHANGED broken
       \/ broken' = broken \cup {ends[k]}
    /\ UNCHANGED <<up, ends, table>>

Forget(s, p) ==
    /\ table[s][p] # None
    /\ s \notin open[table[s][p]]
    /\ table' = [table EXCEPT ![s][p] = None]
    /\ UNCHANGED <<up, ends, open, broken>>

Next == \E s \in Server :
    \/ Join(s) \/ Leave(s) \/ Break(s)
    \/ \E p \in Server : Connect(s, p) \/ Enter(s, p) \/ Forget(s, p)
    \/ \E k \in Conn : GiveUp(s, k)

Spec == Init /\ [][Next]_<<up, ends, open, table, broken>>

-----------------------------------------------------------------------------
(* What follows from it.                                                   *)

\* Of all connections between two servers, at most one is open at any end.
OneConnection ==
    \A j, k \in Conn : ends[j] = ends[k] /\ open[j] # {} /\ open[k] # {} => j = k

\* Two servers that both use a connection to the other use the same one.
Uses(s, p, k) == table[s][p] = k /\ s \in open[k]
Agreement ==
    \A s, p \in Server : \A j, k \in Conn : Uses(s, p, j) /\ Uses(p, s, k) => j = k

=============================================================================
