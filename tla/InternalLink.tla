--------------------------- MODULE InternalLink ----------------------------
(***************************************************************************)
(* One connection between two servercc processes: the requesting half of   *)
(* one end and the responding half of the other, joined by the two         *)
(* directions of their TCP connection.  Each direction delivers whole      *)
(* messages in order while both ends are up, and loses what is in flight   *)
(* when an end hangs up.                                                   *)
(***************************************************************************)
EXTENDS Integers, Sequences, FiniteSets

CONSTANTS
    MaxChannels, Channel, User,   \* the requesting end
    RChannel, Handler,            \* the responding end
    Reader, None, Cap,
    Failures                      \* whether connections break

VARIABLES
    freeSem, freeList, requestChannel, alive, chanId, isClosed, inbox, bufClosed,
    pc, id, ch, req, depth, held, conn, toPeer, fromPeer, fault, overlap,
    responseChannel, rAlive, rId, session, rClosed, rInbox, rBufClosed,
    rpc, rid, rch, rreq, rHeld, rConn, rFault, rOverlap

Q == INSTANCE RequestChannels
P == INSTANCE ResponseChannels WITH Chan <- Channel, inStream <- toPeer, outStream <- fromPeer

ASSUME ConstantsOK ==
    /\ MaxChannels \in Nat \ {0} /\ Cap \in Nat \ {0}
    /\ IsFiniteSet(User) /\ IsFiniteSet(Handler)
    /\ Reader \notin User \cup Handler
    /\ None \notin Channel \cup RChannel \cup Q!Id \cup Q!Message
    /\ Failures \in BOOLEAN

\* What only one end can change.
requester == <<freeSem, freeList, requestChannel, alive, chanId, isClosed, inbox,
               bufClosed, pc, id, ch, req, depth, held, fault, overlap>>
responder == <<responseChannel, rAlive, rId, session, rClosed, rInbox, rBufClosed,
               rpc, rid, rch, rreq, rHeld, rFault, rOverlap>>
vars == <<requester, responder, conn, rConn, toPeer, fromPeer>>

Init == Q!Init /\ P!Init

\* Bounds on what application threads and handlers send: no inbox grows beyond
\* Cap, and a request is sent only if the instance has a channel object and a
\* handler thread left for it, so that the reader never waits for one.
RoomAtRequester == \A c \in Channel : Len(inbox[c]) < Cap

Pending ==
    Cardinality({k \in DOMAIN toPeer : toPeer[k].kind = "Request"})
        + (IF rpc[Reader] \in {"install", "push", "enqueue", "result", "spawn"} THEN 1 ELSE 0)

RoomAtResponder ==
    /\ \A r \in RChannel : Len(rInbox[r]) < Cap
    /\ Pending < Cardinality(P!Fresh)
    /\ Pending < Cardinality({h \in Handler : rpc[h] = "idle"})

\* Bound: no request is begun when no channel objects are left for it.
UserStep(u) ==
    /\ pc[u] = "idle" => Q!Fresh # {}
    /\ \/ Q!Create(u) \/ Q!UseNull(u) \/ Q!Write(u) \/ (RoomAtResponder /\ Q!Send(u))
       \/ Q!BeginRead(u) \/ Q!Read(u) \/ Q!ReadTimesOut(u) \/ Q!Terminate(u)
       \/ Q!Close(u) \/ Q!Remove(u) \/ Q!UseFreed(u)
    /\ UNCHANGED <<responder, rConn>>

HandlerStep(h) ==
    /\ \/ P!BeginRead(h) \/ P!Read(h) \/ P!ReadTimesOut(h) \/ P!Write(h)
       \/ (RoomAtRequester /\ P!Send(h)) \/ P!Return(h) \/ P!Close(h)
       \/ P!Remove(h) \/ P!UseFreed(h)
    /\ UNCHANGED <<requester, conn>>

\* One end closes its socket: the other end reads what has arrived, or fails
\* at once, and then sees the end of the stream.
PeerOf(c) == IF c = "up" THEN "eof" ELSE c

RequesterReads ==
    /\ Q!ReceiveEnd \/ Q!ReceiveResponse \/ Q!Deliver \/ Q!Enqueue
          \/ Q!Close(Reader) \/ Q!Remove(Reader) \/ Q!Destroy
    /\ UNCHANGED <<responder, rConn>>

RequesterHangsUp ==
    /\ Failures
    /\ Q!HangUp
    /\ rConn' = PeerOf(rConn)
    /\ UNCHANGED responder

ResponderReads ==
    /\ P!Forward \/ P!Close(Reader) \/ P!Remove(Reader)
    /\ UNCHANGED <<requester, conn>>

ResponderHangsUp ==
    /\ Failures
    /\ P!HangUp
    /\ conn' = PeerOf(conn)
    /\ UNCHANGED requester

\* A process that has faulted takes no more steps.
Faulted == fault # "none" \/ rFault # "none"

Next ==
    /\ ~Faulted
    /\ \/ \E u \in User : UserStep(u)
       \/ \E h \in Handler : HandlerStep(h)
       \/ RequesterReads \/ RequesterHangsUp \/ ResponderReads \/ ResponderHangsUp

Spec == Init /\ [][Next]_vars

-----------------------------------------------------------------------------
(* Fairness: the reader threads and every call that has begun make progress *)
(* (a thread that can run does run), and recv() fails after the peer hung   *)
(* up; an application thread need not open, use or terminate requests, nor  *)
(* a handler read, write or return, and a connection need not break.        *)

Leaving(u) == (Q!Close(u) \/ Q!Remove(u)) /\ UNCHANGED <<responder, rConn>>
HandlerLeaving(h) == (P!Close(h) \/ P!Remove(h)) /\ UNCHANGED <<requester, conn>>
Running == ~Faulted

Fairness ==
    /\ \A u \in User : WF_vars(Running /\ Leaving(u))
    /\ \A h \in Handler : WF_vars(Running /\ HandlerLeaving(h))
    /\ WF_vars(Running /\ (RequesterReads \/ (conn = "eof" /\ RequesterHangsUp)))
    /\ WF_vars(Running /\ (ResponderReads \/ (rConn = "eof" /\ ResponderHangsUp)))

FairSpec == Spec /\ Fairness

-----------------------------------------------------------------------------
(* Properties.                                                             *)

\* The arbitrary peer of ResponseChannels does all that the requester does:
\* what is checked of ResponseChannels alone holds of the connection.
ResponderSpec == P!Spec

\* The arbitrary peer of RequestChannels does all that the responder does.
\* The sessions of its messages, which that peer does not know, are hidden.
Hide(m) == IF m = None THEN m ELSE [m EXCEPT !.chan = None]
HideAll(s) == [k \in DOMAIN s |-> Hide(s[k])]
R == INSTANCE RequestChannels
         WITH inbox <- [c \in Channel |-> HideAll(inbox[c])],
              held <- Hide(held),
              fromPeer <- HideAll(fromPeer)
RequesterSpec == R!Spec

\* "Writes a message to the channel delivering it to the other end."
\* (internal_channel.h:61): a response reaches the channel that asked for it.
ResponsesStayInSession ==
    \A c \in Channel : \A k \in DOMAIN inbox[c] : inbox[c][k].chan = c

\* A response strays no further than that: the request that gets it has the same
\* id, and the one that asked for it has been closed, until two removals overlap.
\* No response of a request that is still open ever reaches another one.
OnlyLateResponsesStray ==
    \A c \in Channel : \A k \in DOMAIN inbox[c] :
        LET d == inbox[c][k].chan
        IN  d # c => chanId[d] = chanId[c] /\ (~overlap => isClosed[d])

\* "Terminates the request." (request.h:54): when a request is over and nothing
\* of it is in flight, no handler at the other end is left with its channel open.
InFlight(c) == \E k \in DOMAIN toPeer : toPeer[k].chan = c
Over(c) ==
    /\ isClosed[c]
    /\ ~InFlight(c)
    /\ \A u \in User : c \notin {req[u], ch[u]}
    /\ ch[Reader] # c
Idle == \A t \in Handler \cup {Reader} : rpc[t] \in {"idle", "recv", "open", "read"}
NoHandlerOutlivesItsRequest ==
    \A c \in Channel : Over(c) /\ Idle =>
        \A r \in RChannel : session[r] = c => rBufClosed[r]

\* Both readers wait for the other one to make room, and no one reads any more.
Standstill ==
    /\ conn = "up" /\ rConn = "up"
    /\ pc[Reader] = "end" /\ Len(toPeer) = Cap
    /\ rpc[Reader] = "end" /\ Len(fromPeer) = Cap


\* A request's end reaches its handlers: while it is in flight, every channel
\* that the session has at the other end is going to be closed to reads, however
\* many handlers use it, with the same exceptions.
EndInFlight(c) ==
    \E k \in DOMAIN toPeer : toPeer[k].kind = "RequestEnd" /\ toPeer[k].chan = c

=============================================================================
