------------------------- MODULE MulticastRequests -------------------------
(***************************************************************************)
(* Multicast requests between servercc processes.  MulticastClient sends a *)
(* message as two datagrams, header and body; UdpServer::run takes two     *)
(* datagrams from its socket and makes a request of them, with the address *)
(* of the second, which Server::handleRequest gives to a handler.          *)
(* DistributedServer::run multicasts a connect request until it is sent.   *)
(*                                                                         *)
(* One server listens; it hears several senders, itself among them, whose  *)
(* datagrams interleave in its socket and may be lost.  A step is one      *)
(* system call, together with what the thread does up to the next one.     *)
(***************************************************************************)
EXTENDS Integers, Sequences

CONSTANTS
    Sender,        \* servers, named by their IP address
    Self,          \* the one that listens
    None,          \* no header, no sender
    MaxMessages,   \* bound: messages that are begun, which their number identifies
    MaxFailures,   \* bound: system calls that fail
    Descriptors    \* sockets that a process can have

\* A connect request announces a port, in two bytes; the messages of an
\* application are longer than a header.
Kind == {"connect", "other"}
HeaderLength == 8
BodyLength(kind) == IF kind = "connect" THEN 2 ELSE HeaderLength + 1

Announcement == [from : Sender, n : 1 .. MaxMessages]
Datagram == [from : Sender, n : 1 .. MaxMessages, kind : Kind, part : {"header", "body"}]
Size(d) == IF d.part = "header" THEN HeaderLength ELSE BodyLength(d.kind)

\* A header whose length and protocol are the bytes of something else.
Headers == [from : Sender \cup {None}, length : {0, 2, HeaderLength + 1}, kind : Kind]

ASSUME ConstantsOK ==
    /\ Self \in Sender /\ None \notin Sender \cup Datagram \cup Headers
    /\ MaxMessages \in Nat /\ MaxFailures \in Nat
    /\ Descriptors \in Nat \ {0}

VARIABLES
    pc, message,      \* sender: label, message being sent
    sent,             \* messages begun
    isOpen, leaked,   \* MulticastClient::isSocketOpen; sockets nothing refers to
    queue,            \* datagrams that wait in the socket of UdpServer
    header,           \* the header that UdpServer::run has read
    attempts,         \* peers that handleConnect has tried to connect to
    failures,         \* counter for the bound
    calm              \* history: the announcements sent since the last disturbance

senders == <<pc, message, sent, isOpen, leaked>>
listener == <<header, attempts>>
vars == <<senders, queue, listener, failures, calm>>

Attempt == [address : Sender, port : Sender \cup {None}, n : 0 .. MaxMessages]

TypeOK ==
    /\ pc \in [Sender -> {"idle", "open", "header", "body"}]
    /\ message \in [Sender -> [n : 0 .. MaxMessages, kind : Kind, run : BOOLEAN]]
    /\ sent \in 0 .. MaxMessages
    /\ isOpen \in [Sender -> BOOLEAN]
    /\ leaked \in [Sender -> 0 .. Descriptors]
    /\ queue \in Seq(Datagram)
    /\ header \in Headers \cup {None}
    /\ attempts \subseteq Attempt
    /\ failures \in 0 .. MaxFailures
    /\ calm \in Seq(Announcement)

Init ==
    /\ pc = [s \in Sender |-> "idle"]
    /\ message = [s \in Sender |-> [n |-> 0, kind |-> "connect", run |-> FALSE]]
    /\ sent = 0
    /\ isOpen = [s \in Sender |-> FALSE]
    /\ leaked = [s \in Sender |-> 0]
    /\ queue = <<>>
    /\ header = None
    /\ attempts = {}
    /\ failures = 0
    /\ calm = <<>>

-----------------------------------------------------------------------------
(* The senders: DistributedServer::run and multicastMessage.               *)

\* A connect request that comes first is that of run(); everything else is sent
\* by a call of sendConnectMessage or multicastMessage.
Begin(s) ==
    /\ pc[s] = "idle"
    /\ sent < MaxMessages
    /\ sent' = sent + 1
    /\ \E k \in Kind :
          message' = [message EXCEPT ![s] =
              [n |-> sent + 1, kind |-> k, run |-> k = "connect" /\ @.n = 0]]
    /\ pc' = [pc EXCEPT ![s] = "open"]
    /\ UNCHANGED <<isOpen, leaked, failures, queue, listener, calm>>

GoTo(s, l) == pc' = [pc EXCEPT ![s] = l]

\* multicastMessage returns an error: run() tries again, whatever its variable
\* retries says; other callers are told.
Retry(s) == GoTo(s, IF message[s].run THEN "open" ELSE "idle")

CallFails == failures < MaxFailures /\ failures' = failures + 1
Fail(s) == CallFails /\ Retry(s)

\* Mutant: an open socket is an error.
OpenSocketTwice(s) ==
    /\ pc[s] = "open"
    /\ \/ isOpen[s] /\ Retry(s) /\ UNCHANGED isOpen
       \/ ~isOpen[s] /\ GoTo(s, "header") /\ isOpen' = [isOpen EXCEPT ![s] = TRUE]
    /\ UNCHANGED <<message, sent, leaked, failures, queue, listener, calm>>

\* openSocket: nothing closes the socket when setsockopt() fails.
OpenSocket(s) ==
    /\ pc[s] = "open"
    /\ \/ /\ isOpen[s] \/ leaked[s] < Descriptors
          /\ isOpen' = [isOpen EXCEPT ![s] = TRUE]
          /\ GoTo(s, "header")
          /\ UNCHANGED <<leaked, failures>>
       \/ /\ ~isOpen[s]
          /\ leaked[s] < Descriptors
          /\ leaked' = [leaked EXCEPT ![s] = @ + 1]
          /\ Fail(s)
          /\ UNCHANGED isOpen
       \/ /\ ~isOpen[s]
          /\ leaked[s] = Descriptors
          /\ Retry(s)
          /\ UNCHANGED <<isOpen, leaked, failures>>
    /\ UNCHANGED <<message, sent, queue, listener, calm>>

\* The longest run of connect requests that nothing has come between, as two
\* entries each, up to the datagram d.
Track(d) ==
    LET a == [from |-> d.from, n |-> d.n]
        whole == Len(calm) % 2 = 0
    IN
    calm' = CASE d.kind = "other" -> <<>>
              [] d.kind = "connect" /\ d.part = "header" -> IF whole THEN Append(calm, a) ELSE <<a>>
              [] d.kind = "connect" /\ d.part = "body" ->
                     IF ~whole /\ calm[Len(calm)] = a THEN Append(calm, a) ELSE <<>>

\* sendto(): the datagram arrives, or is lost.
Transmit(d) ==
    \/ queue' = Append(queue, d) /\ Track(d)
    \/ calm' = <<>> /\ UNCHANGED queue

\* Mutant: the result of a call that has sent all of it is taken for an error.
SendTwice(s, part, next) ==
    /\ pc[s] = part
    /\ Transmit([from |-> s, n |-> message[s].n, kind |-> message[s].kind, part |-> part])
    /\ (GoTo(s, next) /\ UNCHANGED failures) \/ Fail(s)
    /\ UNCHANGED <<message, sent, isOpen, leaked, listener>>

\* The two calls of MulticastClient::sendMessage.
SendPart(s, part, next) ==
    /\ pc[s] = part
    /\ \/ /\ Transmit([from |-> s, n |-> message[s].n, kind |-> message[s].kind, part |-> part])
          /\ GoTo(s, next)
          /\ UNCHANGED failures
       \/ /\ Fail(s)
          /\ UNCHANGED <<queue, calm>>
    /\ UNCHANGED <<message, sent, isOpen, leaked, listener>>

SendHeader(s) == SendPart(s, "header", "body")
SendBody(s) == SendPart(s, "body", "idle")
SendMessage(s) == SendHeader(s) \/ SendBody(s)

-----------------------------------------------------------------------------
(* The listener: UdpServer::run.                                           *)

\* What handleConnect takes from a body, which is the datagram d, cut to the length
\* of the header, or zeros.
AttemptAt(address, d) ==
    IF d # None /\ d.part = "body" /\ d.kind = "connect"
    THEN [address |-> address, port |-> d.from, n |-> d.n]
    ELSE [address |-> address, port |-> None, n |-> 0]

\* handleConnect, up to the call of openSocket: bodies of a wrong length and the
\* server's own announcements are ignored.
HandleConnect(h, address, d) ==
    attempts' = IF h.length # BodyLength("connect") \/ address = Self THEN attempts
                ELSE attempts \cup {AttemptAt(address, d)}

\* Server::handleRequest: other protocols have the default handler.
HandleRequest(h, address, d) ==
    \/ h.kind = "connect" /\ HandleConnect(h, address, d)
    \/ h.kind # "connect" /\ UNCHANGED attempts

\* The first recvfrom().  A connect body is shorter than a header and skipped;
\* another body passes for a header.
ReceiveHeader ==
    /\ header = None
    /\ queue # <<>>
    /\ LET d == Head(queue) IN
       header' \in IF d.part = "header"
                   THEN {[from |-> d.from, length |-> BodyLength(d.kind), kind |-> d.kind]}
                   ELSE IF Size(d) < HeaderLength THEN {None}
                   ELSE {h \in Headers : h.from = d.from}
    /\ queue' = Tail(queue)
    /\ UNCHANGED <<senders, attempts, failures, calm>>

\* Mutant: the new Message is not zeroed.
ReceiveNothing ==
    /\ header = None
    /\ CallFails
    /\ header' = [from |-> None, length |-> 1, kind |-> "connect"]
    /\ calm' = <<>>
    /\ UNCHANGED <<senders, queue, attempts>>

\* It fails: -1, compared with the unsigned kMessageHeaderLength, is not less.
\* The header stays the zeros of a new Message.
ReceiveHeaderFails ==
    /\ header = None
    /\ CallFails
    /\ header' = [from |-> None, length |-> 0, kind |-> "connect"]
    /\ calm' = <<>>
    /\ UNCHANGED <<senders, queue, attempts>>

\* Mutants: the address of the header; the header is kept for the next datagram.
HeaderAddress(h, d) == h.from
KeepHeader(h) == h

\* The second recvfrom() overwrites the address ...
Address(h, d) == d.from

\* ... and a body that is too short is dropped together with the header.
Dropped(h) == None

\* It cuts longer datagrams off, and may therefore take a header for the body.
ReceiveBody ==
    /\ header # None
    /\ queue # <<>>
    /\ queue' = Tail(queue)
    /\ LET d == Head(queue) IN
       \/ /\ Size(d) < header.length
          /\ header' = Dropped(header)
          /\ UNCHANGED attempts
       \/ /\ Size(d) >= header.length
          /\ header' = None
          /\ HandleRequest(header, Address(header, d), d)
    /\ UNCHANGED <<senders, failures, calm>>

\* It fails, which is not noticed either.
ReceiveBodyFails ==
    /\ header # None
    /\ CallFails
    /\ HandleRequest(header, header.from, None)
    /\ header' = None
    /\ calm' = <<>>
    /\ UNCHANGED <<senders, queue>>

-----------------------------------------------------------------------------
SenderStep(s) == OpenSocket(s) \/ SendMessage(s)
Listen == ReceiveHeader \/ ReceiveHeaderFails \/ ReceiveBody \/ ReceiveBodyFails

Next ==
    \/ \E s \in Sender : Begin(s) \/ SenderStep(s)
    \/ Listen

Spec == Init /\ [][Next]_vars

\* A thread that can run does run.
FairSpec == Spec /\ \A s \in Sender : WF_vars(SenderStep(s))

-----------------------------------------------------------------------------
(* Properties.                                                             *)

\* Whatever datagrams are paired, lost or cut off, no server is connected to at
\* the port of another one: an announced port comes with its announcer's address.
PortBelongsToAddress == \A a \in attempts : a.port \in {a.address, None}

\* A listener whose datagrams have got out of step, because some were lost, cut
\* off, mixed or not read, recovers: of the connect requests that nothing disturbs
\* any more, it misses at most the first.
Heard(a) == [address |-> a.from, port |-> a.from, n |-> a.n] \in attempts
CalmRequestIsHeard ==
    LET n == Len(calm) IN
    n >= 4 /\ n % 2 = 0 /\ queue = <<>> /\ calm[n].from # Self => Heard(calm[n])

\* To those who listen, header and body are as good as one datagram that may be
\* lost: a request is heard at most once, and only if it was announced.
L == INSTANCE LossyMulticast WITH
         waiting <- {a \in Announcement : \E i \in DOMAIN queue :
                        queue[i] = [from |-> a.from, n |-> a.n, kind |-> "connect", part |-> "body"]},
         heard <- {a \in Announcement : Heard(a)}
OneDatagram == L!Spec

\* The loop of run(), which never gives up, ends when calls stop failing, unless
\* sockets that were left open by failed attempts have used up the descriptors.
RunReturns ==
    \A s \in Sender : pc[s] # "idle" ~> pc[s] = "idle" \/ leaked[s] = Descriptors

=============================================================================
