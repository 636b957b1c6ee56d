-------------------------- MODULE MessageStreams ---------------------------
(***************************************************************************)
(* Messages on one TCP connection: readMessage, readMessage with a         *)
(* timeout, and writeMessage, on streams that deliver what has arrived.    *)
(*                                                                         *)
(* Between two Connectors, each end has an application thread and a reader *)
(* thread that write under one mutex; the reader answers the end of a      *)
(* session by one of its own before it reads on.  Otherwise a TcpRequest   *)
(* at the end Server reads with a timeout what a TcpClient writes.         *)
(* A step moves one cell: a header, or a piece of a body.                  *)
(***************************************************************************)
EXTENDS Integers, Sequences

CONSTANTS
    End,           \* the two ends of the connection
    Server,        \* the one with the TcpRequest, if any
    None,          \* no thread, no header
    Room,          \* cells that the buffers of one direction hold
    MaxMessages,   \* bound: messages that application threads write
    MaxFailures    \* bound: calls of send() that fail or send a part only

Thread == {"user", "reader"}
Peer(e) == CHOOSE d \in End : d # e

\* Mutant: the id is counted twice.
WrappedLength == [data |-> 3, end |-> 1, echo |-> 1, empty |-> 0]

\* Messages are sized in cells.  An "end" that arrives is answered by an "echo".
Length == [data |-> 2, end |-> 1, echo |-> 1, empty |-> 0]
Kind == DOMAIN Length
Cell == [by : Thread, kind : Kind, part : {"header", "body"}]
Cells(t, k) ==
    <<[by |-> t, kind |-> k, part |-> "header"]>> \o
        [i \in 1 .. Length[k] |-> [by |-> t, kind |-> k, part |-> "body"]]
Header == [by : Thread, kind : Kind, length : 0 .. 2]

ASSUME ConstantsOK ==
    /\ Server \in End /\ \E e \in End : End = {Server, e} /\ e # Server
    /\ Room \in Nat \ {0} /\ MaxMessages \in Nat /\ MaxFailures \in Nat
    /\ None \notin Thread \cup Header

VARIABLES
    connectors,    \* whether the ends are two Connectors
    up,            \* neither end has given the connection up
    stream,        \* cells on their way, by the end that wrote them
    rest,          \* what a thread in writeMessage has still to send
    lock,          \* the thread that holds the write mutex
    header,        \* the header that readMessage has read
    timer,         \* the timed read: "off", "running", "expired"
    begun, failures,   \* counters for the bounds
    due,           \* history: messages begun to be sent and not read, in order
    agree,         \* history: what was read is what was written
    outOfStep      \* history: some cells of a message were not sent, or skipped

vars == <<connectors, up, stream, rest, lock, header, timer, begun, failures, due,
          agree, outOfStep>>

TypeOK ==
    /\ connectors \in BOOLEAN /\ up \in BOOLEAN
    /\ stream \in [End -> Seq(Cell)]
    /\ \A e \in End : Len(stream[e]) <= Room
    /\ rest \in [End -> [Thread -> Seq(Cell)]]
    /\ lock \in [End -> Thread \cup {None}]
    /\ header \in [End -> Header \cup {None}]
    /\ timer \in {"off", "running", "expired"}
    /\ begun \in 0 .. MaxMessages
    /\ failures \in 0 .. MaxFailures
    /\ due \in [End -> Seq([by : Thread, kind : Kind])]
    /\ agree \in BOOLEAN
    /\ outOfStep \in BOOLEAN

Init ==
    /\ connectors \in BOOLEAN
    /\ up = TRUE
    /\ stream = [e \in End |-> <<>>]
    /\ rest = [e \in End |-> [t \in Thread |-> <<>>]]
    /\ lock = [e \in End |-> None]
    /\ header = [e \in End |-> None]
    /\ timer = "off"
    /\ begun = 0
    /\ failures = 0
    /\ due = [e \in End |-> <<>>]
    /\ agree = TRUE
    /\ outOfStep = FALSE

-----------------------------------------------------------------------------
(* Writing.                                                                *)

\* An application thread calls write() or sendMessage().
Begin(e) ==
    /\ up
    /\ rest[e]["user"] = <<>>
    /\ begun < MaxMessages
    /\ begun' = begun + 1
    /\ \E k \in Kind \ {"echo"} : rest' = [rest EXCEPT ![e]["user"] = Cells("user", k)]
    /\ UNCHANGED <<connectors, up, stream, lock, header, timer, failures, due, agree, outOfStep>>

\* writeMutex->lock().
Lock(e, t) ==
    /\ up
    /\ rest[e][t] # <<>>
    /\ lock[e] = None
    /\ lock' = [lock EXCEPT ![e] = t]
    /\ UNCHANGED <<connectors, up, stream, rest, header, timer, begun, failures, due, agree,
                   outOfStep>>

Sending(e, t) == up /\ lock[e] = t /\ rest[e][t] # <<>>

\* Mutant: every send() is locked on its own.
HolderOfSend(t, unsent) == None

\* Who holds the mutex when thread t has sent all but these cells.
Holder(t, unsent) == IF unsent = <<>> THEN None ELSE t

\* send() waits for room and, after the last cell, the mutex is unlocked.
SendCell(e, t) ==
    LET c == Head(rest[e][t]) IN
    /\ Sending(e, t)
    /\ Len(stream[e]) < Room
    /\ stream' = [stream EXCEPT ![e] = Append(@, c)]
    /\ rest' = [rest EXCEPT ![e][t] = Tail(@)]
    /\ lock' = [lock EXCEPT ![e] = Holder(t, Tail(rest[e][t]))]
    /\ due' = IF c.part = "body" THEN due
              ELSE [due EXCEPT ![e] = Append(@, [by |-> t, kind |-> c.kind])]
    /\ UNCHANGED <<connectors, up, header, timer, begun, failures, agree, outOfStep>>

\* Mutant: the mutex is not unlocked after an error.
SendFailsLocked(e, t) ==
    /\ Sending(e, t)
    /\ failures < MaxFailures
    /\ failures' = failures + 1
    /\ outOfStep' = (outOfStep \/ Head(rest[e][t]).part = "body")
    /\ rest' = [rest EXCEPT ![e][t] = <<>>]
    /\ UNCHANGED <<connectors, up, stream, lock, header, timer, begun, due, agree>>

\* send() is interrupted: writeMessage returns an error, and the stream keeps
\* what has been sent of the message.
SendFails(e, t) ==
    /\ Sending(e, t)
    /\ failures < MaxFailures
    /\ failures' = failures + 1
    /\ outOfStep' = (outOfStep \/ Head(rest[e][t]).part = "body")
    /\ rest' = [rest EXCEPT ![e][t] = <<>>]
    /\ lock' = [lock EXCEPT ![e] = None]
    /\ UNCHANGED <<connectors, up, stream, header, timer, begun, due, agree>>

-----------------------------------------------------------------------------
(* Reading.                                                                *)

Timed(e) == ~connectors /\ e = Server

\* The handler of a TcpRequest calls receiveMessage(timeout), which starts a
\* thread that reads and waits for it.
BeginTimedRead ==
    /\ up
    /\ ~connectors
    /\ timer = "off"
    /\ timer' = "running"
    /\ UNCHANGED <<connectors, up, stream, rest, lock, header, begun, failures, due, agree,
                   outOfStep>>

\* The time is over; the destructor of the future still waits for the thread.
Expire ==
    /\ up
    /\ timer = "running"
    /\ timer' = "expired"
    /\ UNCHANGED <<connectors, up, stream, rest, lock, header, begun, failures, due, agree,
                   outOfStep>>

Reading(e) ==
    /\ up
    /\ rest[e]["reader"] = <<>>
    /\ Timed(e) => timer # "off"

\* The first recv().  A piece of a body passes for a header of any length.
ReadHeader(e) ==
    LET s == stream[Peer(e)] IN
    /\ Reading(e)
    /\ header[e] = None
    /\ s # <<>>
    /\ \E n \in IF Head(s).part = "header" THEN {Length[Head(s).kind]} ELSE 0 .. 2 :
          header' = [header EXCEPT ![e] = [by |-> Head(s).by, kind |-> Head(s).kind, length |-> n]]
    /\ stream' = [stream EXCEPT ![Peer(e)] = Tail(s)]
    /\ UNCHANGED <<connectors, up, rest, lock, timer, begun, failures, due, agree, outOfStep>>

\* A Connector's reader answers the end of a session.
Answer(e, h) ==
    rest' = IF connectors /\ h.kind = "end" THEN [rest EXCEPT ![e]["reader"] = Cells("reader", "echo")]
            ELSE rest

\* readMessage has read body after the header h.
Return(e, h, body) ==
    /\ agree' = /\ agree
                /\ due[Peer(e)] # <<>> /\ Head(due[Peer(e)]) = [by |-> h.by, kind |-> h.kind]
                /\ \A i \in DOMAIN body : body[i] = [by |-> h.by, kind |-> h.kind, part |-> "body"]
    /\ due' = [due EXCEPT ![Peer(e)] = IF @ = <<>> THEN @ ELSE Tail(@)]
    /\ Answer(e, h)
    /\ UNCHANGED <<up, outOfStep>>

\* readMessage returns an error: whoever is told gives the connection up; nobody
\* is told of what happens to a read that has expired.
Fail(e) ==
    IF Timed(e) /\ timer = "expired"
    THEN outOfStep' = TRUE /\ UNCHANGED up
    ELSE up' = FALSE /\ UNCHANGED outOfStep

\* recv() waits for the first piece of a body that is not empty.
Arrived(h, s) == h.length > 0 => s # <<>>

\* The second recv() returns what has arrived, up to the length.
ReadBody(e) ==
    LET s == stream[Peer(e)]
        h == header[e]
        n == IF h.length <= Len(s) THEN h.length ELSE Len(s)
    IN
    /\ Reading(e)
    /\ h # None
    /\ Arrived(h, s)
    /\ stream' = [stream EXCEPT ![Peer(e)] = SubSeq(s, n + 1, Len(s))]
    /\ header' = [header EXCEPT ![e] = None]
    /\ timer' = IF Timed(e) THEN "off" ELSE timer
    /\ \/ n = h.length /\ Return(e, h, SubSeq(s, 1, n))
       \/ n < h.length /\ Fail(e) /\ UNCHANGED <<agree, due, rest>>
    /\ UNCHANGED <<connectors, lock, begun, failures>>

-----------------------------------------------------------------------------
Writer(e, t) == Lock(e, t) \/ SendCell(e, t)
Reader(e) == ReadHeader(e) \/ ReadBody(e)

Next ==
    \/ \E e \in End : Begin(e) \/ Reader(e) \/ \E t \in Thread : Writer(e, t) \/ SendFails(e, t)
    \/ BeginTimedRead \/ Expire

Spec == Init /\ [][Next]_vars

(***************************************************************************)
(* Fairness: a thread that can run does run, and the mutex goes to whoever *)
(* waits for it when it is free long enough.                               *)
(***************************************************************************)
FairSpec == Spec /\ \A e \in End : WF_vars(Reader(e)) /\ \A t \in Thread : WF_vars(Writer(e, t))

-----------------------------------------------------------------------------
(* Properties.                                                             *)

\* Although messages are cut into pieces, written by two threads and read with
\* timeouts, every message that is read is the oldest one written and not read,
\* with its own body, unless a call of send() stopped in the middle of a message
\* or a timed read failed after its time was over.
ReadsWhatWasWritten == ~outOfStep => agree

\* Every call of writeMessage returns, unless both readers are about to answer
\* and the buffers in both directions are full: they wait for each other then,
\* and everyone who writes waits with them.
Standstill == \A e \in End : rest[e]["reader"] # <<>> /\ Len(stream[e]) = Room
WritersReturn ==
    \A e \in End : \A t \in Thread :
        connectors /\ rest[e][t] # <<>> ~> rest[e][t] = <<>> \/ ~up \/ outOfStep \/ Standstill

\* "Receives a message from the client with the specified timeout.", "in
\* milliseconds" (request.h:38): a timed read whose time is over returns.
TimedReadReturns == timer = "expired" ~> timer # "expired" \/ ~up

=============================================================================
