------------------------- MODULE ResponseChannels --------------------------
(***************************************************************************)
(* The responding half of one end of a connection: the response channels   *)
(* of an InternalChannelManager, the reader thread of Connector::runClient *)
(* that creates them on the peer's first message, starts a handler thread  *)
(* and removes them, and the handler threads, which read, write and, when  *)
(* they return, close.                                                     *)
(*                                                                         *)
(* A step is one access to state that threads share.  close() and          *)
(* removeResponseChannel() call each other; neither does anything after    *)
(* the inner call returns, so no call stack is kept.                       *)
(***************************************************************************)
EXTENDS Integers, Sequences, FiniteSets

CONSTANTS
    MaxChannels,  \* template argument of the manager (1024 in the connector)
    RChannel,     \* the InternalChannel objects make_shared can return
    Handler,      \* detached handler threads
    Reader,       \* the thread started by Connector::runClient
    Chan,         \* the request channels of the peer, which sessions belong to
    None,         \* nullptr
    Cap           \* messages that the socket buffers of one direction hold

Id == 0 .. MaxChannels - 1
Thread == Handler \cup {Reader}

(***************************************************************************)
(* A message on the wire; chan is not part of it: it names the request     *)
(* channel of the peer that began the session the message belongs to.      *)
(***************************************************************************)
Kind == {"Request", "RequestEnd", "Response", "ResponseEnd"}
Message == [kind : Kind, id : Id, chan : Chan \cup {None}]
Msg(k, i, c) == [kind |-> k, id |-> i, chan |-> c]

ASSUME ConstantsOK ==
    /\ MaxChannels \in Nat \ {0}
    /\ Cap \in Nat \ {0}
    /\ IsFiniteSet(Handler)
    /\ Reader \notin Handler
    /\ None \notin RChannel \cup Chan /\ None \notin Id /\ None \notin Message

VARIABLES
    responseChannel,  \* the table of response channels
    rAlive,           \* the manager has not been destroyed
    rId,              \* id of a channel object, None before its construction
    session,          \* history: whose message the channel was created for
    rClosed,          \* InternalChannel::isClosed
    rInbox,           \* contents of the channel's MessageBuffer
    rBufClosed,       \* the MessageBuffer has been closed
    rpc, rid, rch,    \* threads: label, id and channel of the current call
    rreq,             \* InternalRequest::channel of a handler's request
    rHeld,            \* the message the reader is forwarding, or None
    rConn,            \* "up"; "eof": the peer hung up; "closed": our socket too
    inStream, outStream,  \* the two directions of the TCP stream
    rFault,           \* undefined behaviour or signal that ended the process
    rOverlap          \* history: two removals of one id have overlapped

rManager == <<responseChannel, rAlive>>
rObjects == <<rId, session, rClosed, rInbox, rBufClosed>>
rThreads == <<rpc, rid, rch, rreq, rHeld>>
rNetwork == <<rConn, inStream, outStream>>
rVars == <<rManager, rObjects, rThreads, rNetwork, rFault, rOverlap>>

RemoveLabels == {"check", "load", "store"}
CloseLabels == {"close", "end", "mark"}
Labels == {"idle", "open", "send", "read", "recv", "forward", "install", "push",
           "enqueue", "result", "spawn", "gone"} \cup CloseLabels \cup RemoveLabels

TypeOK ==
    /\ responseChannel \in [Id -> RChannel \cup {None}]
    /\ rAlive \in BOOLEAN
    /\ rId \in [RChannel -> Id \cup {None}]
    /\ session \in [RChannel -> Chan \cup {None}]
    /\ rClosed \in [RChannel -> BOOLEAN]
    /\ rInbox \in [RChannel -> Seq(Message)]
    /\ rBufClosed \in [RChannel -> BOOLEAN]
    /\ rpc \in [Thread -> Labels]
    /\ rid \in [Thread -> Id]
    /\ rch \in [Thread -> RChannel \cup {None}]
    /\ rreq \in [Handler -> RChannel \cup {None}]
    /\ rHeld \in Message \cup {None}
    /\ rConn \in {"up", "eof", "closed"}
    /\ inStream \in Seq(Message)
    /\ outStream \in Seq(Message)
    /\ rFault \in {"none", "null", "freed", "pipe"}
    /\ rOverlap \in BOOLEAN

Init ==
    /\ responseChannel = [i \in Id |-> None]
    /\ rAlive = TRUE
    /\ rId = [r \in RChannel |-> None]
    /\ session = [r \in RChannel |-> None]
    /\ rClosed = [r \in RChannel |-> FALSE]
    /\ rInbox = [r \in RChannel |-> <<>>]
    /\ rBufClosed = [r \in RChannel |-> FALSE]
    /\ rpc = [t \in Thread |-> IF t = Reader THEN "recv" ELSE "idle"]
    /\ rid = [t \in Thread |-> 0]
    /\ rch = [t \in Thread |-> None]
    /\ rreq = [h \in Handler |-> None]
    /\ rHeld = None
    /\ rConn = "up"
    /\ inStream = <<>>
    /\ outStream = <<>>
    /\ rFault = "none"
    /\ rOverlap = FALSE

-----------------------------------------------------------------------------
(* Shared by the actions.                                                  *)

\* Thread t is at label l, and may touch the manager if l does.
At(t, l) == rpc[t] = l /\ (l \in RemoveLabels => rAlive)

GoTo(t, l) == rpc' = [rpc EXCEPT ![t] = l]

Fail(f) ==
    /\ rFault' = f
    /\ UNCHANGED <<rManager, rObjects, rThreads, rNetwork, rOverlap>>

Fresh == {r \in RChannel : rId[r] = None}

InWindow(t) == rpc[t] \in {"load", "store"}

\* Somebody other than the reader's raw pointer keeps the object alive.
Referenced(r) ==
    \/ \E i \in Id : responseChannel[i] = r
    \/ \E h \in Handler : r \in {rreq[h], rch[h]}

\* writeMessage under writeMutex: it blocks while the socket buffers are
\* full.  After the peer hung up the message is lost or SIGPIPE is raised;
\* on a descriptor that this end has closed, send() fails with EBADF.
Emit(m) ==
    \/ /\ rConn = "up"
       /\ Len(outStream) < Cap
       /\ outStream' = Append(outStream, m)
       /\ UNCHANGED rFault
    \/ /\ rConn = "eof"
       /\ rFault' \in {"none", "pipe"}
       /\ UNCHANGED outStream
    \/ /\ rConn = "closed"
       /\ UNCHANGED <<outStream, rFault>>

\* The last id of the loop in ~InternalChannelManager.
\* Mutants: one id too many, one too few.
LastIdOver == MaxChannels
LastIdShort == MaxChannels - 2
LastId == MaxChannels - 1

\* close() or removeResponseChannel() returns, through all its callers, to the
\* end of the handler thread, to the read loop, or to the destructor of the
\* manager, which goes on with the next id.
Finish(t) ==
    /\ rch' = [rch EXCEPT ![t] = None]
    /\ \/ /\ t \in Handler
          /\ GoTo(t, "idle")
          /\ rreq' = [rreq EXCEPT ![t] = None]
          /\ rid' = [rid EXCEPT ![t] = 0]
          /\ UNCHANGED rAlive
       \/ /\ t = Reader
          /\ rConn # "closed"
          /\ GoTo(t, "recv")
          /\ rid' = [rid EXCEPT ![t] = 0]
          /\ UNCHANGED <<rreq, rAlive>>
       \/ /\ t = Reader
          /\ rConn = "closed"
          /\ rid[t] < LastId
          /\ rid' = [rid EXCEPT ![t] = @ + 1]
          /\ GoTo(t, "check")
          /\ UNCHANGED <<rreq, rAlive>>
       \/ /\ t = Reader
          /\ rConn = "closed"
          /\ rid[t] = LastId
          /\ rAlive' = FALSE
          /\ GoTo(t, "gone")
          /\ UNCHANGED <<rid, rreq>>

-----------------------------------------------------------------------------
(* The reader: the loop of Connector::runClient and forwardMessage.        *)


ReceiveEnd ==
    /\ rpc[Reader] = "recv"
    /\ inStream # <<>>
    /\ Head(inStream).kind = "RequestEnd"
    /\ inStream' = Tail(inStream)
    /\ \/ /\ responseChannel[Head(inStream).id] # None
          /\ rid' = [rid EXCEPT ![Reader] = Head(inStream).id]
          /\ GoTo(Reader, "check")
       \/ /\ responseChannel[Head(inStream).id] = None
          /\ UNCHANGED <<rid, rpc>>
    /\ UNCHANGED <<rManager, rObjects, rch, rreq, rHeld, rConn, outStream, rFault, rOverlap>>

\* The test whether the channel exists.  Only the reader installs channels, so
\* the same test at the start of createResponseChannel gives the same answer.
\* Bound: |RChannel| channels are constructed and |Handler| threads run at once.
ReceiveRequest ==
    /\ rpc[Reader] = "recv"
    /\ inStream # <<>>
    /\ Head(inStream).kind = "Request"
    /\ \E h \in Handler : rpc[h] = "idle"
    /\ inStream' = Tail(inStream)
    /\ rHeld' = Head(inStream)
    /\ rid' = [rid EXCEPT ![Reader] = Head(inStream).id]
    /\ \/ /\ responseChannel[Head(inStream).id] = None
          /\ Fresh # {}
          /\ GoTo(Reader, "install")
       \/ /\ responseChannel[Head(inStream).id] # None
          /\ GoTo(Reader, "push")
    /\ UNCHANGED <<rManager, rObjects, rch, rreq, rConn, outStream, rFault, rOverlap>>

\* createResponseChannel.
Install ==
    /\ rpc[Reader] = "install"
    /\ \E r \in Fresh :
          /\ rId' = [rId EXCEPT ![r] = rid[Reader]]
          /\ session' = [session EXCEPT ![r] = rHeld.chan]
          /\ responseChannel' = [responseChannel EXCEPT ![rid[Reader]] = r]
    /\ GoTo(Reader, "push")
    /\ UNCHANGED <<rAlive, rClosed, rInbox, rBufClosed, rid, rch, rreq, rHeld,
                   rNetwork, rFault, rOverlap>>

\* responseChannel[id]->push: the table is read again ...
Push ==
    /\ rpc[Reader] = "push"
    /\ IF responseChannel[rid[Reader]] = None
       THEN Fail("null")
       ELSE /\ rch' = [rch EXCEPT ![Reader] = responseChannel[rid[Reader]]]
            /\ GoTo(Reader, "enqueue")
            /\ UNCHANGED <<rManager, rObjects, rid, rreq, rHeld, rNetwork, rFault, rOverlap>>

\* ... and the channel is used without a reference to it.
Enqueue ==
    /\ rpc[Reader] = "enqueue"
    /\ IF ~Referenced(rch[Reader])
       THEN Fail("freed")
       ELSE /\ rInbox' = IF rClosed[rch[Reader]] \/ rBufClosed[rch[Reader]]
                         THEN rInbox
                         ELSE [rInbox EXCEPT ![rch[Reader]] = Append(@, rHeld)]
            /\ rHeld' = None
            /\ GoTo(Reader, "result")
            /\ UNCHANGED <<rManager, rId, session, rClosed, rBufClosed, rid, rch, rreq,
                           rNetwork, rFault, rOverlap>>

\* Mutant: forwardMessage does not return the channel.
ResultLost ==
    /\ rpc[Reader] = "result"
    /\ rch' = [rch EXCEPT ![Reader] = None]
    /\ rid' = [rid EXCEPT ![Reader] = 0]
    /\ GoTo(Reader, "recv")
    /\ UNCHANGED <<rManager, rObjects, rreq, rHeld, rNetwork, rFault, rOverlap>>

\* The channel that forwardMessage returns is read from the table once more;
\* runClient starts a thread whenever it is not null.
Result ==
    /\ rpc[Reader] = "result"
    /\ rch' = [rch EXCEPT ![Reader] = responseChannel[rid[Reader]]]
    /\ rid' = [rid EXCEPT ![Reader] = 0]
    /\ GoTo(Reader, IF rch'[Reader] # None THEN "spawn" ELSE "recv")
    /\ UNCHANGED <<rManager, rObjects, rreq, rHeld, rNetwork, rFault, rOverlap>>

Spawn ==
    /\ rpc[Reader] = "spawn"
    /\ \E h \in Handler :
          /\ rpc[h] = "idle"
          /\ rpc' = [rpc EXCEPT ![h] = "open", ![Reader] = "recv"]
          /\ rreq' = [rreq EXCEPT ![h] = rch[Reader]]
    /\ rch' = [rch EXCEPT ![Reader] = None]
    /\ UNCHANGED <<rManager, rObjects, rid, rHeld, rNetwork, rFault, rOverlap>>

\* readMessage failed, because the peer hung up or because recv() returned
\* part of a message: close the socket, erase the client and let the manager's
\* destructor remove the channels one by one.
HangUp ==
    /\ rpc[Reader] = "recv"
    /\ rConn = "eof" \/ (rConn = "up" /\ inStream # <<>>)
    /\ rConn' = "closed"
    /\ inStream' = <<>>
    /\ GoTo(Reader, "check")
    /\ UNCHANGED <<rManager, rObjects, rid, rch, rreq, rHeld, outStream, rFault, rOverlap>>

Forward ==
    ReceiveEnd \/ ReceiveRequest \/ Install \/ Push \/ Enqueue \/ Result \/ Spawn

-----------------------------------------------------------------------------
(* A handler: receiveMessage, sendMessage and, at its end, ~InternalRequest. *)

BeginRead(h) ==
    /\ rpc[h] = "open"
    /\ GoTo(h, "read")
    /\ UNCHANGED <<rManager, rObjects, rid, rch, rreq, rHeld, rNetwork, rFault, rOverlap>>

\* MessageBuffer::pop returns a message, or an error once it is closed.
Read(h) ==
    /\ rpc[h] = "read"
    /\ \/ /\ rInbox[rreq[h]] # <<>>
          /\ rInbox' = [rInbox EXCEPT ![rreq[h]] = Tail(@)]
       \/ /\ rBufClosed[rreq[h]]
          /\ UNCHANGED rInbox
    /\ GoTo(h, "open")
    /\ UNCHANGED <<rManager, rId, session, rClosed, rBufClosed, rid, rch, rreq, rHeld,
                   rNetwork, rFault, rOverlap>>

\* The timeout of read(timeout) expires.
ReadTimesOut(h) ==
    /\ rpc[h] = "read"
    /\ GoTo(h, "open")
    /\ UNCHANGED <<rManager, rObjects, rid, rch, rreq, rHeld, rNetwork, rFault, rOverlap>>

Write(h) ==
    /\ rpc[h] = "open"
    /\ ~rClosed[rreq[h]]
    /\ GoTo(h, "send")
    /\ UNCHANGED <<rManager, rObjects, rid, rch, rreq, rHeld, rNetwork, rFault, rOverlap>>

Send(h) ==
    /\ rpc[h] = "send"
    /\ Emit(Msg("Response", rId[rreq[h]], session[rreq[h]]))
    /\ GoTo(h, "open")
    /\ UNCHANGED <<rManager, rObjects, rid, rch, rreq, rHeld, rConn, inStream, rOverlap>>

Return(h) ==
    /\ rpc[h] = "open"
    /\ rch' = [rch EXCEPT ![h] = rreq[h]]
    /\ rid' = [rid EXCEPT ![h] = rId[rreq[h]]]
    /\ GoTo(h, "close")
    /\ UNCHANGED <<rManager, rObjects, rreq, rHeld, rNetwork, rFault, rOverlap>>

Handle(h) ==
    BeginRead(h) \/ Read(h) \/ ReadTimesOut(h) \/ Write(h) \/ Send(h) \/ Return(h)

-----------------------------------------------------------------------------
(* InternalChannel::close on rch[t].                                       *)

\* The test of isClosed and messageBuffer.close().
CloseCheck(t) ==
    /\ rpc[t] = "close"
    /\ \/ /\ rch[t] = None
          /\ Fail("null")
       \/ /\ rch[t] # None
          /\ rClosed[rch[t]]
          /\ Finish(t)
          /\ UNCHANGED <<responseChannel, rObjects, rHeld, rNetwork, rFault, rOverlap>>
       \/ /\ rch[t] # None
          /\ ~rClosed[rch[t]]
          /\ rBufClosed' = [rBufClosed EXCEPT ![rch[t]] = TRUE]
          /\ GoTo(t, "end")
          /\ UNCHANGED <<rManager, rId, session, rClosed, rInbox, rid, rch, rreq, rHeld,
                         rNetwork, rFault, rOverlap>>

\* The end type that createResponseChannel gives its channels.
\* Mutant: that of createRequestChannel.
OtherEnd == "RequestEnd"
OwnEnd == "ResponseEnd"

SendEnd(t) ==
    /\ rpc[t] = "end"
    /\ Emit(Msg(OwnEnd, rId[rch[t]], session[rch[t]]))
    /\ GoTo(t, "mark")
    /\ UNCHANGED <<rManager, rObjects, rid, rch, rreq, rHeld, rConn, inStream, rOverlap>>

\* isClosed = true, then closeCallback(id), which is removeResponseChannel(id).
MarkClosed(t) ==
    /\ rpc[t] = "mark"
    /\ rClosed' = [rClosed EXCEPT ![rch[t]] = TRUE]
    /\ GoTo(t, "check")
    /\ UNCHANGED <<rManager, rId, session, rInbox, rBufClosed, rid, rch, rreq, rHeld,
                   rNetwork, rFault, rOverlap>>

Close(t) == CloseCheck(t) \/ SendEnd(t) \/ MarkClosed(t)

-----------------------------------------------------------------------------
(* InternalChannelManager::removeResponseChannel on rid[t].                *)

RemoveCheck(t) ==
    /\ At(t, "check")
    /\ \/ /\ responseChannel[rid[t]] = None
          /\ Finish(t)
          /\ UNCHANGED <<responseChannel, rObjects, rHeld, rNetwork, rFault, rOverlap>>
       \/ /\ responseChannel[rid[t]] # None
          /\ GoTo(t, "load")
          /\ rOverlap' = (rOverlap \/ \E s \in Thread \ {t} : InWindow(s) /\ rid[s] = rid[t])
          /\ UNCHANGED <<rManager, rObjects, rid, rch, rreq, rHeld, rNetwork, rFault>>

\* std::move of a shared_ptr is not atomic: it reads the pointer ...
RemoveLoad(t) ==
    /\ At(t, "load")
    /\ rch' = [rch EXCEPT ![t] = responseChannel[rid[t]]]
    /\ GoTo(t, "store")
    /\ UNCHANGED <<rManager, rObjects, rid, rreq, rHeld, rNetwork, rFault, rOverlap>>

\* Mutant: the channel is dropped without close().
RemoveDrops(t) ==
    /\ At(t, "store")
    /\ responseChannel' = [responseChannel EXCEPT ![rid[t]] = None]
    /\ Finish(t)
    /\ UNCHANGED <<rObjects, rHeld, rNetwork, rFault, rOverlap>>

\* ... and then clears it; channel->close() follows.
RemoveStore(t) ==
    /\ At(t, "store")
    /\ responseChannel' = [responseChannel EXCEPT ![rid[t]] = None]
    /\ GoTo(t, "close")
    /\ UNCHANGED <<rAlive, rObjects, rid, rch, rreq, rHeld, rNetwork, rFault, rOverlap>>

Remove(t) == RemoveCheck(t) \/ RemoveLoad(t) \/ RemoveStore(t)

\* A handler thread inside the manager after the reader destroyed it.
UseFreed(h) ==
    /\ ~rAlive
    /\ rpc[h] \in RemoveLabels
    /\ Fail("freed")

-----------------------------------------------------------------------------
(* What the peer may do to the stream.                                     *)

PeerReads ==
    /\ outStream # <<>>
    /\ outStream' = Tail(outStream)
    /\ UNCHANGED <<rManager, rObjects, rThreads, rConn, inStream, rFault, rOverlap>>

\* Bound: at most Cap messages wait in the stream, or in one inbox.
PeerSends ==
    /\ rConn = "up"
    /\ Len(inStream) < Cap
    /\ \E k \in {"Request", "RequestEnd"}, i \in Id, c \in Chan :
          /\ k = "Request" => \A r \in RChannel : Len(rInbox[r]) < Cap
          /\ inStream' = Append(inStream, Msg(k, i, c))
    /\ UNCHANGED <<rManager, rObjects, rThreads, rConn, outStream, rFault, rOverlap>>

\* What the peer has not read by then is lost.
PeerHangsUp ==
    /\ rConn = "up" \/ outStream # <<>>
    /\ rConn' = IF rConn = "up" THEN "eof" ELSE rConn
    /\ outStream' = <<>>
    /\ UNCHANGED <<rManager, rObjects, rThreads, inStream, rFault, rOverlap>>

Peer == PeerReads \/ PeerSends \/ PeerHangsUp

-----------------------------------------------------------------------------
HandlerStep(h) == Handle(h) \/ Close(h) \/ Remove(h) \/ UseFreed(h)
ReaderStep == Forward \/ HangUp \/ Close(Reader) \/ Remove(Reader)

\* A process that has faulted takes no more steps.
Next == rFault = "none" /\ ((\E h \in Handler : HandlerStep(h)) \/ ReaderStep \/ Peer)

Spec == Init /\ [][Next]_rVars

-----------------------------------------------------------------------------
(* Properties.                                                             *)

Constructed(r) == rId[r] # None
Closing(t, r) == rch[t] = r /\ rpc[t] \in CloseLabels

\* No response channel is orphaned: until two removals of one id overlap, a
\* channel that is not closed is found by its id, or a thread is closing it.
OpenChannelIsReachable ==
    ~rOverlap =>
        \A r \in RChannel : Constructed(r) /\ ~rClosed[r] =>
            responseChannel[rId[r]] = r \/ \E t \in Thread : Closing(t, r)

\* No open channel is without a server: until two removals of one id overlap,
\* between two messages, a response channel that is not closed has a handler
\* thread working on it, or a thread that is closing it, although forwardMessage
\* reads the table four times for one message while handlers remove from it.
OpenChannelIsServed ==
    rpc[Reader] = "recv" /\ ~rOverlap =>
        \A r \in RChannel : Constructed(r) /\ ~rClosed[r] =>
            \/ \E h \in Handler : rreq[h] = r
            \/ \E t \in Thread : rch[t] = r /\ rpc[t] \in CloseLabels \cup {"store"}

\* "Closes all channels by calling close()" (internal_channel_manager.h:58):
\* until two removals of one id overlap, no handler blocks in read() forever on
\* a channel of a destroyed manager: its buffer is closed, or a thread that
\* took the channel out of the table is about to close it.
DestructorReleasesHandlers ==
    ~rAlive /\ ~rOverlap =>
        \A r \in RChannel : Constructed(r) =>
            rBufClosed[r] \/ \E t \in Thread : rch[t] = r /\ rpc[t] = "close"

\* "If a new channel was created, create a new request with the channel ID and
\* start a new thread to process it" (connector.cc:116): one thread a channel.
OneHandlerPerChannel ==
    \A g, h \in Handler : rreq[g] # None /\ rreq[g] = rreq[h] => g = h

=============================================================================
