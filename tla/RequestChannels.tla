-------------------------- MODULE RequestChannels --------------------------
(***************************************************************************)
(* The requesting half of one end of a connection between two servercc     *)
(* processes: the request channels of an InternalChannelManager, the       *)
(* InternalChannel objects in its table, the application threads that open *)
(* them with Connector::sendRequest, and the connector's reader thread,    *)
(* which demultiplexes the peer's messages to them and removes them.       *)
(*                                                                         *)
(* A step is one access to state that threads share.  close() and          *)
(* removeRequestChannel() call each other, so a thread's call stack is an  *)
(* alternation of the two on one id; it is kept as the label pc, the       *)
(* registers id and ch, and depth, the number of removeRequestChannel      *)
(* calls that wait for the close() they made to return.                    *)
(***************************************************************************)
EXTENDS Integers, Sequences, FiniteSets

CONSTANTS
    MaxChannels,  \* template argument of the manager (1024 in the connector)
    Channel,      \* the InternalChannel objects make_shared can return
    User,         \* application threads
    Reader,       \* the thread started by Connector::runClient
    None,         \* nullptr
    Cap           \* messages that the socket buffers of one direction hold

Id == 0 .. MaxChannels - 1
Thread == User \cup {Reader}

(***************************************************************************)
(* A message on the wire.  chan is not part of it: it names the request    *)
(* channel on whose behalf the message is sent.                            *)
(***************************************************************************)
Kind == {"Request", "RequestEnd", "Response", "ResponseEnd"}
Message == [kind : Kind, id : Id, chan : Channel \cup {None}]
Msg(k, i, c) == [kind |-> k, id |-> i, chan |-> c]

ASSUME ConstantsOK ==
    /\ MaxChannels \in Nat \ {0}
    /\ Cap \in Nat \ {0}
    /\ IsFiniteSet(User)
    /\ Reader \notin User
    /\ None \notin Channel /\ None \notin Id /\ None \notin Message

VARIABLES
    freeSem,         \* count of freeListSemaphore
    freeList,        \* the stack of free ids, top last
    requestChannel,  \* the table of request channels
    alive,           \* the manager has not been destroyed
    chanId,          \* id of a channel object, None before its construction
    isClosed,        \* InternalChannel::isClosed
    inbox,           \* contents of the channel's MessageBuffer
    bufClosed,       \* the MessageBuffer has been closed
    pc, id, ch, req, depth,   \* threads; req is InternalRequest::channel
    held,            \* the message the reader is forwarding, or None
    conn,            \* "up"; "eof": the peer hung up; "closed": our socket too
    toPeer, fromPeer,  \* the two directions of the TCP stream
    fault,           \* undefined behaviour or signal that ended the process
    overlap          \* history: two removals of one id have overlapped

manager == <<freeSem, freeList, requestChannel, alive>>
objects == <<chanId, isClosed, inbox, bufClosed>>
threads == <<pc, id, ch, req, depth, held>>
network == <<conn, toPeer, fromPeer>>
vars == <<manager, objects, threads, network, fault, overlap>>

CreateLabels == {"acquire", "pop", "install", "fetch"}
RemoveLabels == {"check", "load", "store", "push", "release"}
Labels == {"idle", "deref", "open", "send", "read", "close", "end", "mark",
           "recv", "deliver", "enqueue", "destroy", "gone"} \cup CreateLabels \cup RemoveLabels

TypeOK ==
    /\ freeSem \in Nat
    /\ freeList \in Seq(Id)
    /\ requestChannel \in [Id -> Channel \cup {None}]
    /\ alive \in BOOLEAN
    /\ chanId \in [Channel -> Id \cup {None}]
    /\ isClosed \in [Channel -> BOOLEAN]
    /\ inbox \in [Channel -> Seq(Message)]
    /\ bufClosed \in [Channel -> BOOLEAN]
    /\ pc \in [Thread -> Labels]
    /\ id \in [Thread -> Id]
    /\ ch \in [Thread -> Channel \cup {None}]
    /\ req \in [User -> Channel \cup {None}]
    /\ depth \in [Thread -> Nat]
    /\ held \in Message \cup {None}
    /\ conn \in {"up", "eof", "closed"}
    /\ toPeer \in Seq(Message)
    /\ fromPeer \in Seq(Message)
    /\ fault \in {"none", "null", "freed", "pipe"}
    /\ overlap \in BOOLEAN

\* What the constructor pushes on the stack of free ids.
\* Mutant: ids counted from one.
AllIdsFromOne == [k \in 1 .. MaxChannels |-> k]
AllIds == [k \in 1 .. MaxChannels |-> k - 1]

Init ==
    /\ freeSem = MaxChannels
    /\ freeList = AllIds
    /\ requestChannel = [i \in Id |-> None]
    /\ alive = TRUE
    /\ chanId = [c \in Channel |-> None]
    /\ isClosed = [c \in Channel |-> FALSE]
    /\ inbox = [c \in Channel |-> <<>>]
    /\ bufClosed = [c \in Channel |-> FALSE]
    /\ pc = [t \in Thread |-> IF t = Reader THEN "recv" ELSE "idle"]
    /\ id = [t \in Thread |-> 0]
    /\ ch = [t \in Thread |-> None]
    /\ req = [u \in User |-> None]
    /\ depth = [t \in Thread |-> 0]
    /\ held = None
    /\ conn = "up"
    /\ toPeer = <<>>
    /\ fromPeer = <<>>
    /\ fault = "none"
    /\ overlap = FALSE

-----------------------------------------------------------------------------
(* Shared by the actions.                                                  *)

\* Thread t is at label l, and may touch the manager if l does.
At(t, l) == pc[t] = l /\ (l \in CreateLabels \cup RemoveLabels => alive)

GoTo(t, l) == pc' = [pc EXCEPT ![t] = l]

Fail(f) ==
    /\ fault' = f
    /\ UNCHANGED <<manager, objects, threads, network, overlap>>

Fresh == {c \in Channel : chanId[c] = None}

\* The window of removeRequestChannel between its check and its move.
InWindow(t) == pc[t] \in {"load", "store"}

\* Somebody other than the reader's raw pointer keeps the object alive.
Referenced(c) ==
    \/ \E i \in Id : requestChannel[i] = c
    \/ \E u \in User : c \in {req[u], ch[u]}

\* writeMessage under writeMutex: it blocks while the socket buffers are
\* full.  After the peer hung up the message is lost or SIGPIPE is raised;
\* on a descriptor that this end has closed, send() fails with EBADF.
Emit(m) ==
    \/ /\ conn = "up"
       /\ Len(toPeer) < Cap
       /\ toPeer' = Append(toPeer, m)
       /\ UNCHANGED fault
    \/ /\ conn = "eof"
       /\ fault' \in {"none", "pipe"}
       /\ UNCHANGED toPeer
    \/ /\ conn = "closed"
       /\ UNCHANGED <<toPeer, fault>>

\* close() or removeRequestChannel() returns to its caller: a suspended
\* removeRequestChannel, the destructor of the user's InternalRequest, the
\* read loop, or the body of the destructor of the manager, which goes on with
\* the next id, or with the destruction of the members after the last one.
Finish(t) ==
    \/ /\ depth[t] > 0
       /\ depth' = [depth EXCEPT ![t] = @ - 1]
       /\ GoTo(t, "push")
       /\ UNCHANGED <<id, ch, req>>
    \/ /\ depth[t] = 0
       /\ ch' = [ch EXCEPT ![t] = None]
       /\ UNCHANGED depth
       /\ \/ /\ t \in User
             /\ GoTo(t, "idle")
             /\ req' = [req EXCEPT ![t] = None]
             /\ id' = [id EXCEPT ![t] = 0]
          \/ /\ t = Reader
             /\ conn # "closed"
             /\ GoTo(t, "recv")
             /\ id' = [id EXCEPT ![t] = 0]
             /\ UNCHANGED req
          \/ /\ t = Reader
             /\ conn = "closed"
             /\ id[t] < MaxChannels - 1
             /\ id' = [id EXCEPT ![t] = @ + 1]
             /\ GoTo(t, "check")
             /\ UNCHANGED req
          \/ /\ t = Reader
             /\ conn = "closed"
             /\ id[t] = MaxChannels - 1
             /\ GoTo(t, "destroy")
             /\ UNCHANGED <<id, req>>

-----------------------------------------------------------------------------
(* Opening a request: Connector::sendRequest, createRequestChannel.        *)

\* The look-up in clients, under clientsMutex.  Bound: |Channel| channels are
\* constructed in a behaviour; a thread that finds none left stays in Install.
SendRequest(u) ==
    /\ pc[u] = "idle"
    /\ conn # "closed"
    /\ GoTo(u, "deref")
    /\ UNCHANGED <<manager, objects, id, ch, req, depth, held, network, fault, overlap>>

\* clientIt->second, after clientsMutex was released: the reader may have
\* erased the entry since.
Deref(u) ==
    /\ pc[u] = "deref"
    /\ IF conn = "closed"
       THEN Fail("freed")
       ELSE /\ GoTo(u, "acquire")
            /\ UNCHANGED <<manager, objects, id, ch, req, depth, held, network, fault, overlap>>

\* Mutant: the id is taken without waiting for the semaphore.
AcquireNothing(u) ==
    /\ At(u, "acquire")
    /\ GoTo(u, "pop")
    /\ UNCHANGED <<manager, objects, id, ch, req, depth, held, network, fault, overlap>>

Acquire(u) ==
    /\ At(u, "acquire")
    /\ freeSem > 0
    /\ freeSem' = freeSem - 1
    /\ GoTo(u, "pop")
    /\ UNCHANGED <<freeList, requestChannel, alive, objects, id, ch, req, depth, held,
                   network, fault, overlap>>

\* Mutant: the id that is removed from the free list is not the one taken.
PopOther(u) ==
    /\ At(u, "pop")
    /\ freeList # <<>>
    /\ id' = [id EXCEPT ![u] = freeList[Len(freeList)]]
    /\ freeList' = Tail(freeList)
    /\ GoTo(u, "install")
    /\ UNCHANGED <<freeSem, requestChannel, alive, objects, ch, req, depth, held,
                   network, fault, overlap>>

Pop(u) ==
    /\ At(u, "pop")
    /\ freeList # <<>>
    /\ id' = [id EXCEPT ![u] = freeList[Len(freeList)]]
    /\ freeList' = SubSeq(freeList, 1, Len(freeList) - 1)
    /\ GoTo(u, "install")
    /\ UNCHANGED <<freeSem, requestChannel, alive, objects, ch, req, depth, held,
                   network, fault, overlap>>

Install(u) ==
    /\ At(u, "install")
    /\ \E c \in Fresh :
          /\ chanId' = [chanId EXCEPT ![c] = id[u]]
          /\ requestChannel' = [requestChannel EXCEPT ![id[u]] = c]
    /\ GoTo(u, "fetch")
    /\ UNCHANGED <<freeSem, freeList, alive, isClosed, inbox, bufClosed, id, ch, req,
                   depth, held, network, fault, overlap>>

\* The pointer returned to the caller is read from the table again.
Fetch(u) ==
    /\ At(u, "fetch")
    /\ req' = [req EXCEPT ![u] = requestChannel[id[u]]]
    /\ GoTo(u, "open")
    /\ UNCHANGED <<manager, objects, id, ch, depth, held, network, fault, overlap>>

Create(u) ==
    SendRequest(u) \/ Deref(u) \/ Acquire(u) \/ Pop(u) \/ Install(u) \/ Fetch(u)

-----------------------------------------------------------------------------
(* Using a request: sendMessage, receiveMessage, terminate.                *)

\* Every operation of a request dereferences its channel.
UseNull(u) ==
    /\ pc[u] = "open"
    /\ req[u] = None
    /\ Fail("null")

Write(u) ==
    /\ pc[u] = "open"
    /\ req[u] # None
    /\ ~isClosed[req[u]]
    /\ GoTo(u, "send")
    /\ UNCHANGED <<manager, objects, id, ch, req, depth, held, network, fault, overlap>>

Send(u) ==
    /\ pc[u] = "send"
    /\ Emit(Msg("Request", chanId[req[u]], req[u]))
    /\ GoTo(u, "open")
    /\ UNCHANGED <<manager, objects, id, ch, req, depth, held, conn, fromPeer, overlap>>

BeginRead(u) ==
    /\ pc[u] = "open"
    /\ req[u] # None
    /\ GoTo(u, "read")
    /\ UNCHANGED <<manager, objects, id, ch, req, depth, held, network, fault, overlap>>

\* MessageBuffer::pop returns a message, or an error once it is closed.
Read(u) ==
    /\ pc[u] = "read"
    /\ \/ /\ inbox[req[u]] # <<>>
          /\ inbox' = [inbox EXCEPT ![req[u]] = Tail(@)]
       \/ /\ bufClosed[req[u]]
          /\ UNCHANGED inbox
    /\ GoTo(u, "open")
    /\ UNCHANGED <<manager, chanId, isClosed, bufClosed, id, ch, req, depth, held,
                   network, fault, overlap>>

\* The timeout of read(timeout) expires.
ReadTimesOut(u) ==
    /\ pc[u] = "read"
    /\ GoTo(u, "open")
    /\ UNCHANGED <<manager, objects, id, ch, req, depth, held, network, fault, overlap>>

\* ~InternalRequest calls terminate(), which calls close().
Terminate(u) ==
    /\ pc[u] = "open"
    /\ req[u] # None
    /\ ch' = [ch EXCEPT ![u] = req[u]]
    /\ id' = [id EXCEPT ![u] = chanId[req[u]]]
    /\ GoTo(u, "close")
    /\ UNCHANGED <<manager, objects, req, depth, held, network, fault, overlap>>

Use(u) ==
    \/ UseNull(u) \/ Write(u) \/ Send(u)
    \/ BeginRead(u) \/ Read(u) \/ ReadTimesOut(u) \/ Terminate(u)

-----------------------------------------------------------------------------
(* InternalChannel::close on ch[t].                                        *)

\* The test of isClosed and messageBuffer.close().
CloseCheck(t) ==
    /\ pc[t] = "close"
    /\ \/ /\ ch[t] = None
          /\ Fail("null")
       \/ /\ ch[t] # None
          /\ isClosed[ch[t]]
          /\ Finish(t)
          /\ UNCHANGED <<manager, objects, held, network, fault, overlap>>
       \/ /\ ch[t] # None
          /\ ~isClosed[ch[t]]
          /\ bufClosed' = [bufClosed EXCEPT ![ch[t]] = TRUE]
          /\ GoTo(t, "end")
          /\ UNCHANGED <<manager, chanId, isClosed, inbox, id, ch, req, depth, held,
                         network, fault, overlap>>

\* The end type that createRequestChannel gives its channels.
\* Mutant: that of createResponseChannel.
OtherEnd == "ResponseEnd"
OwnEnd == "RequestEnd"

SendEnd(t) ==
    /\ pc[t] = "end"
    /\ Emit(Msg(OwnEnd, chanId[ch[t]], ch[t]))
    /\ GoTo(t, "mark")
    /\ UNCHANGED <<manager, objects, id, ch, req, depth, held, conn, fromPeer, overlap>>

\* isClosed = true, then closeCallback(id), which is removeRequestChannel(id).
MarkClosed(t) ==
    /\ pc[t] = "mark"
    /\ isClosed' = [isClosed EXCEPT ![ch[t]] = TRUE]
    /\ GoTo(t, "check")
    /\ UNCHANGED <<manager, chanId, inbox, bufClosed, id, ch, req, depth, held,
                   network, fault, overlap>>

Close(t) == CloseCheck(t) \/ SendEnd(t) \/ MarkClosed(t)

-----------------------------------------------------------------------------
(* InternalChannelManager::removeRequestChannel on id[t].                  *)

RemoveCheck(t) ==
    /\ At(t, "check")
    /\ \/ /\ requestChannel[id[t]] = None
          /\ Finish(t)
          /\ UNCHANGED <<manager, objects, held, network, fault, overlap>>
       \/ /\ requestChannel[id[t]] # None
          /\ GoTo(t, "load")
          /\ overlap' = (overlap \/ \E s \in Thread \ {t} : InWindow(s) /\ id[s] = id[t])
          /\ UNCHANGED <<manager, objects, id, ch, req, depth, held, network, fault>>

\* std::move of a shared_ptr is not atomic: it reads the pointer ...
RemoveLoad(t) ==
    /\ At(t, "load")
    /\ ch' = [ch EXCEPT ![t] = requestChannel[id[t]]]
    /\ GoTo(t, "store")
    /\ UNCHANGED <<manager, objects, id, req, depth, held, network, fault, overlap>>

\* Mutant: the channel is dropped without close().
RemoveDrops(t) ==
    /\ At(t, "store")
    /\ requestChannel' = [requestChannel EXCEPT ![id[t]] = None]
    /\ GoTo(t, "push")
    /\ UNCHANGED <<freeSem, freeList, alive, objects, id, ch, req, depth, held,
                   network, fault, overlap>>

\* ... and then clears it; channel->close() follows.
RemoveStore(t) ==
    /\ At(t, "store")
    /\ requestChannel' = [requestChannel EXCEPT ![id[t]] = None]
    /\ depth' = [depth EXCEPT ![t] = @ + 1]
    /\ GoTo(t, "close")
    /\ UNCHANGED <<freeSem, freeList, alive, objects, id, ch, req, held, network,
                   fault, overlap>>

Push(t) ==
    /\ At(t, "push")
    /\ freeList' = Append(freeList, id[t])
    /\ GoTo(t, "release")
    /\ UNCHANGED <<freeSem, requestChannel, alive, objects, id, ch, req, depth, held,
                   network, fault, overlap>>

Release(t) ==
    /\ At(t, "release")
    /\ freeSem' = freeSem + 1
    /\ Finish(t)
    /\ UNCHANGED <<freeList, requestChannel, alive, objects, held, network, fault, overlap>>

Remove(t) ==
    RemoveCheck(t) \/ RemoveLoad(t) \/ RemoveStore(t) \/ Push(t) \/ Release(t)

\* A user thread inside the manager after the reader destroyed it.
UseFreed(u) ==
    /\ ~alive
    /\ pc[u] \in CreateLabels \cup RemoveLabels
    /\ Fail("freed")

-----------------------------------------------------------------------------
(* The reader: the loop of Connector::runClient and forwardMessage.        *)


ReceiveEnd ==
    /\ pc[Reader] = "recv"
    /\ conn # "closed"
    /\ fromPeer # <<>>
    /\ Head(fromPeer).kind = "ResponseEnd"
    /\ fromPeer' = Tail(fromPeer)
    /\ \/ /\ requestChannel[Head(fromPeer).id] # None
          /\ id' = [id EXCEPT ![Reader] = Head(fromPeer).id]
          /\ GoTo(Reader, "check")
       \/ /\ requestChannel[Head(fromPeer).id] = None
          /\ UNCHANGED <<id, pc>>
    /\ UNCHANGED <<manager, objects, ch, req, depth, held, conn, toPeer, fault, overlap>>

ReceiveResponse ==
    /\ pc[Reader] = "recv"
    /\ conn # "closed"
    /\ fromPeer # <<>>
    /\ Head(fromPeer).kind = "Response"
    /\ fromPeer' = Tail(fromPeer)
    /\ \/ /\ requestChannel[Head(fromPeer).id] # None
          /\ held' = Head(fromPeer)
          /\ id' = [id EXCEPT ![Reader] = Head(fromPeer).id]
          /\ GoTo(Reader, "deliver")
       \/ /\ requestChannel[Head(fromPeer).id] = None   \* NotFoundError, logged
          /\ UNCHANGED <<held, id, pc>>
    /\ UNCHANGED <<manager, objects, ch, req, depth, conn, toPeer, fault, overlap>>

\* requestChannel[id]->push: the table is read again ...
Deliver ==
    /\ pc[Reader] = "deliver"
    /\ IF requestChannel[id[Reader]] = None
       THEN Fail("null")
       ELSE /\ ch' = [ch EXCEPT ![Reader] = requestChannel[id[Reader]]]
            /\ GoTo(Reader, "enqueue")
            /\ UNCHANGED <<manager, objects, id, req, depth, held, network, fault, overlap>>

\* ... and the channel is used without a reference to it.
Enqueue ==
    /\ pc[Reader] = "enqueue"
    /\ IF ~Referenced(ch[Reader])
       THEN Fail("freed")
       ELSE /\ inbox' = IF isClosed[ch[Reader]] \/ bufClosed[ch[Reader]]
                        THEN inbox
                        ELSE [inbox EXCEPT ![ch[Reader]] = Append(@, held)]
            /\ ch' = [ch EXCEPT ![Reader] = None]
            /\ id' = [id EXCEPT ![Reader] = 0]
            /\ held' = None
            /\ GoTo(Reader, "recv")
            /\ UNCHANGED <<manager, chanId, isClosed, bufClosed, req, depth,
                           network, fault, overlap>>

\* readMessage failed, because the peer hung up or because recv() returned
\* part of a message: close the socket, erase the client and let the manager's
\* destructor remove the channels one by one.
HangUp ==
    /\ pc[Reader] = "recv"
    /\ conn = "eof" \/ (conn = "up" /\ fromPeer # <<>>)
    /\ conn' = "closed"
    /\ fromPeer' = <<>>
    /\ GoTo(Reader, "check")
    /\ UNCHANGED <<manager, objects, id, ch, req, depth, held, toPeer, fault, overlap>>

\* The destructor destroys the members.  A channel that was installed behind its
\* loop drops out of the table.  If nobody else has it, ~InternalChannel closes
\* it, which calls the manager back in the middle of its destruction; if a
\* request has it, it stays open, and nobody will wake its read() any more.
TableOnly ==
    {c \in Channel : /\ \E i \in Id : requestChannel[i] = c
                      /\ \A u \in User : c \notin {req[u], ch[u]}}
Destroy ==
    /\ pc[Reader] = "destroy"
    /\ alive' = FALSE
    /\ requestChannel' = [i \in Id |-> None]
    /\ isClosed' = [c \in Channel |-> isClosed[c] \/ c \in TableOnly]
    /\ bufClosed' = [c \in Channel |-> bufClosed[c] \/ c \in TableOnly]
    /\ fault' \in IF TableOnly = {} THEN {"none"} ELSE {"none", "freed"}
    /\ GoTo(Reader, "gone")
    /\ UNCHANGED <<freeSem, freeList, chanId, inbox, id, ch, req, depth, held,
                   network, overlap>>

Forward == ReceiveEnd \/ ReceiveResponse \/ Deliver \/ Enqueue \/ HangUp

-----------------------------------------------------------------------------
(* What the peer may do to the stream.                                     *)

PeerReads ==
    /\ toPeer # <<>>
    /\ toPeer' = Tail(toPeer)
    /\ UNCHANGED <<manager, objects, threads, conn, fromPeer, fault, overlap>>

\* Bound: at most Cap messages wait in the stream, or in one inbox.
PeerSends ==
    /\ conn = "up"
    /\ Len(fromPeer) < Cap
    /\ \E k \in {"Response", "ResponseEnd"}, i \in Id :
          /\ k = "Response" => \A c \in Channel : Len(inbox[c]) < Cap
          /\ fromPeer' = Append(fromPeer, Msg(k, i, None))
    /\ UNCHANGED <<manager, objects, threads, conn, toPeer, fault, overlap>>

\* What the peer has not read by then is lost.
PeerHangsUp ==
    /\ conn = "up" \/ toPeer # <<>>
    /\ conn' = IF conn = "up" THEN "eof" ELSE conn
    /\ toPeer' = <<>>
    /\ UNCHANGED <<manager, objects, threads, fromPeer, fault, overlap>>

Peer == PeerReads \/ PeerSends \/ PeerHangsUp

-----------------------------------------------------------------------------
UserStep(u) == Create(u) \/ Use(u) \/ Close(u) \/ Remove(u) \/ UseFreed(u)
ReaderStep == Forward \/ Destroy \/ Close(Reader) \/ Remove(Reader)

\* A process that has faulted takes no more steps.
Next == fault = "none" /\ ((\E u \in User : UserStep(u)) \/ ReaderStep \/ Peer)

Spec == Init /\ [][Next]_vars

-----------------------------------------------------------------------------
(* Properties.                                                             *)

Popping == {u \in User : pc[u] = "pop"}
Releasing == {t \in Thread : pc[t] = "release"}

\* The semaphore never promises an id that the stack does not have: the ids
\* on the stack are those it still counts, those it has granted to a thread
\* that has yet to pop, and those pushed but not yet announced.  So
\* freeList.top() in createRequestChannel is never taken of an empty stack.
SemaphoreCountsFreeIds ==
    /\ Len(freeList) = freeSem + Cardinality(Popping) + Cardinality(Releasing)
    /\ \A u \in User : pc[u] = "pop" => freeList # <<>>

Free(i) == \E k \in DOMAIN freeList : freeList[k] = i
Installed(i) == requestChannel[i] # None
Holds(t, i) == id[t] = i /\ (pc[t] \in {"install", "push"} \/ depth[t] > 0)

\* No id is leaked or handed out twice: as long as the manager exists, and until
\* two removals of one id overlap, every id is at exactly one place: on the free
\* stack once, in the table, or in the hands of exactly one thread that is
\* creating or removing its channel.
IdHasOneOwner ==
    alive /\ ~overlap =>
        /\ \A k, l \in DOMAIN freeList : freeList[k] = freeList[l] => k = l
        /\ \A i \in Id :
              /\ Free(i) \/ Installed(i) \/ \E t \in Thread : Holds(t, i)
              /\ ~(Free(i) /\ Installed(i))
              /\ \A t \in Thread : Holds(t, i) => ~Free(i) /\ ~Installed(i)
              /\ \A s, t \in Thread : Holds(s, i) /\ Holds(t, i) => s = t

\* No channel is orphaned as long as its manager exists, and until two removals
\* of one id overlap: a channel that is not closed can be found by its id, so that
\* the peer's messages and its end reach it, or some thread has taken it out in
\* order to close it.  This ends with the manager, and the destructor does not close
\* all channels: one that is installed behind its loop is orphaned by Destroy, and
\* read() blocks on it for ever.
OpenChannelIsReachable ==
    alive /\ ~overlap =>
        \A c \in Channel :
            chanId[c] # None /\ ~isClosed[c] =>
                \/ requestChannel[chanId[c]] = c
                \/ \E t \in Thread :
                      ch[t] = c /\ depth[t] > 0 /\ pc[t] \in {"close", "end", "mark"}

\* No request opens a session beside another one: until two removals of one id
\* overlap, two channels that have got an id and are not closed have got
\* different ones, so that an id says at both ends which request is meant.
OneOpenChannel ==
    ~overlap =>
        \A c, d \in Channel :
            /\ chanId[c] # None /\ chanId[c] = chanId[d]
            /\ ~isClosed[c] /\ ~isClosed[d]
            => c = d

=============================================================================
