------------------------- MODULE DistributedServer -------------------------
(***************************************************************************)
(* How servercc DistributedServers find each other and connect.  A server  *)
(* multicasts a connect request.  The UDP thread of every server that      *)
(* hears it opens a TCP connection to the sender, sends a connectAck       *)
(* request and waits for the response; the TCP thread of the sender        *)
(* accepts, answers, and adds the peer to its Connector.  The UDP thread,  *)
(* once answered, adds the peer to its own.  Connector::addClient starts a *)
(* reader thread, which ends, and reports the disconnection, when the      *)
(* connection breaks.                                                      *)
(*                                                                         *)
(* A step is one system call or one access to state that threads share.    *)
(* What flows on a connection after the handshake is in InternalLink.      *)
(***************************************************************************)
EXTENDS Integers, Sequences, FiniteSets

CONSTANTS
    Server,        \* server processes, named by their IP address
    Conn,          \* the TCP connections that can be made
    None,          \* no server, no connection
    MaxAnnounce,   \* bound: connect requests multicast in a behaviour
    MaxFailures,   \* bound: crashes, announcements that do not reach everybody, and
                   \* calls that fail though the peer is there, in a behaviour
    Sequential     \* servers are started only while nothing is in progress

ASSUME ConstantsOK ==
    /\ None \notin Server /\ None \notin Conn
    /\ MaxAnnounce \in Nat /\ MaxFailures \in Nat
    /\ Sequential \in BOOLEAN

\* The two service threads of a server: UdpServer::run and TcpServer::run.
Role == {"udp", "tcp"}
OtherRole(r) == IF r = "udp" THEN "tcp" ELSE "udp"

VARIABLES
    main,        \* "down", "starting" (in run(), to multicast), "running"
    pc, cur,     \* service threads: label, connection being set up
    target,      \* peer that the UDP thread is about to connect to
    victim,      \* the connection that meanwhile got the descriptor number
                 \* which the handler of a service thread closes again
    clients,     \* Connector::clients: peer to the connection of its client
    reader,      \* the thread of Connector::runClient for a connection
    peers,       \* DistributedServer::peers
    view,        \* peers connected according to the application's callbacks
    datagrams,   \* connect requests waiting in the UDP socket, by sender
    from, to,    \* connection: who opened it, and to whom
    open,        \* connection: the ends that are open
    mail,        \* connection: handshake messages on their way
    backlog,     \* connections that wait for accept()
    announced, failed,   \* counters for the bounds
    disturbed,   \* history: pairs of servers between which an announcement got
                 \* lost or a call failed since they were started
    faults       \* history: what has gone wrong in some server

local == <<pc, cur, target, victim, clients, reader, peers, view>>
tcp == <<from, to, open, mail, backlog>>
bounds == <<announced, failed, disturbed>>
vars == <<main, local, datagrams, tcp, bounds, faults>>

Labels == {"wait", "open", "send", "await", "read", "reply",
           "add", "run", "use", "stale", "callback", "close", "reclose"}

TypeOK ==
    /\ main \in [Server -> {"down", "starting", "running"}]
    /\ pc \in [Server -> [Role -> Labels]]
    /\ cur \in [Server -> [Role -> Conn \cup {None}]]
    /\ target \in [Server -> Server \cup {None}]
    /\ victim \in [Server -> [Role -> Conn \cup {None}]]
    /\ clients \in [Server -> [Server -> Conn \cup {None}]]
    /\ reader \in [Server -> [Conn -> {"none", "recv", "erase", "notify"}]]
    /\ peers \in [Server -> SUBSET Server]
    /\ view \in [Server -> SUBSET Server]
    /\ datagrams \in [Server -> [Server -> 0 .. MaxAnnounce]]
    /\ from \in [Conn -> Server \cup {None}]
    /\ to \in [Conn -> Server \cup {None}]
    /\ open \in [Conn -> SUBSET Server]
    /\ mail \in [Conn -> SUBSET {"ack", "response"}]
    /\ backlog \in [Server -> Seq(Conn)]
    /\ announced \in 0 .. MaxAnnounce
    /\ failed \in 0 .. MaxFailures
    /\ disturbed \subseteq SUBSET Server
    /\ faults \in SUBSET {"null", "pipe", "stray", "freed"}

Init ==
    /\ main = [s \in Server |-> "down"]
    /\ pc = [s \in Server |-> [r \in Role |-> "wait"]]
    /\ cur = [s \in Server |-> [r \in Role |-> None]]
    /\ target = [s \in Server |-> None]
    /\ victim = [s \in Server |-> [r \in Role |-> None]]
    /\ clients = [s \in Server |-> [p \in Server |-> None]]
    /\ reader = [s \in Server |-> [k \in Conn |-> "none"]]
    /\ peers = [s \in Server |-> {}]
    /\ view = [s \in Server |-> {}]
    /\ datagrams = [s \in Server |-> [p \in Server |-> 0]]
    /\ from = [k \in Conn |-> None]
    /\ to = [k \in Conn |-> None]
    /\ open = [k \in Conn |-> {}]
    /\ mail = [k \in Conn |-> {}]
    /\ backlog = [s \in Server |-> <<>>]
    /\ announced = 0
    /\ failed = 0
    /\ disturbed = {}
    /\ faults = {}

-----------------------------------------------------------------------------
(* Shared by the actions.                                                  *)

At(s, r, l) == main[s] # "down" /\ pc[s][r] = l
GoTo(s, r, l) == pc' = [pc EXCEPT ![s][r] = l]

Fresh == {k \in Conn : from[k] = None}

\* The sockets that the constructors of TcpServer and UdpServer have bound.
Listening(s) == main[s] # "down"
Members == {s \in Server : main[s] # "down"}

PeerOn(s, k) == IF from[k] = s THEN to[k] ELSE from[k]
OpenAtBothEnds(k) == {from[k], to[k]} \subseteq open[k]
CloseEnd(s, k) == open' = [open EXCEPT ![k] = @ \ {s}]

\* Nothing is in progress at an active server.
Settled(s) ==
    /\ main[s] # "starting"
    /\ \A r \in Role : pc[s][r] = "wait"
    /\ \A p \in Server : datagrams[s][p] = 0
    /\ backlog[s] = <<>>
    /\ \A k \in Conn : reader[s][k] = "none" \/ (reader[s][k] = "recv" /\ OpenAtBothEnds(k))
Quiet == \A s \in Server : Settled(s)

\* The process of server s ends: the system closes its sockets.
Die(s) ==
    /\ main' = [main EXCEPT ![s] = "down"]
    /\ pc' = [pc EXCEPT ![s] = [r \in Role |-> "wait"]]
    /\ cur' = [cur EXCEPT ![s] = [r \in Role |-> None]]
    /\ target' = [target EXCEPT ![s] = None]
    /\ victim' = [victim EXCEPT ![s] = [r \in Role |-> None]]
    /\ clients' = [clients EXCEPT ![s] = [p \in Server |-> None]]
    /\ reader' = [reader EXCEPT ![s] = [k \in Conn |-> "none"]]
    /\ peers' = [peers EXCEPT ![s] = {}]
    /\ view' = [view EXCEPT ![s] = {}]
    /\ datagrams' = [datagrams EXCEPT ![s] = [p \in Server |-> 0]]
    /\ open' = [k \in Conn |-> open[k] \ {s}]
    /\ backlog' = [backlog EXCEPT ![s] = <<>>]
    /\ disturbed' = {q \in disturbed : s \notin q}
    /\ UNCHANGED <<from, to, mail>>

\* socket() or accept() of one service thread may return the number that the
\* handler of the other one has closed and is going to close again.
NewDescriptor(s, r, k) ==
    \/ UNCHANGED victim
    \/ /\ pc[s][OtherRole(r)] = "reclose"
       /\ victim[s][OtherRole(r)] = None
       /\ victim' = [victim EXCEPT ![s][OtherRole(r)] = k]

\* What passes from server s to the servers in ps fails, which is recorded.
Disturb(s, ps) ==
    /\ failed < MaxFailures
    /\ failed' = failed + 1
    /\ disturbed' = disturbed \cup {{s, p} : p \in ps}
DisturbNothing == UNCHANGED <<failed, disturbed>>

\* A call on connection k fails: an end of k is closed, or, if both are open,
\* recv() or send() handles part of a message or fails for another reason.
CallFails(k) ==
    \/ ~OpenAtBothEnds(k) /\ DisturbNothing
    \/ OpenAtBothEnds(k) /\ Disturb(from[k], {to[k]})

\* Mutant: nothing is sent.
SendNothing(s, r, m) ==
    /\ s \in open[cur[s][r]]
    /\ DisturbNothing /\ UNCHANGED mail

\* send() on the connection of thread r: the message is delivered, or lost because
\* the other end is closed; see also BrokenPipe.
Send(s, r, m) ==
    LET k == cur[s][r] IN
    /\ s \in open[k]
    /\ mail' = IF OpenAtBothEnds(k) THEN [mail EXCEPT ![k] = @ \cup {m}] ELSE mail
    /\ DisturbNothing

\* The send() of a header, or the one of the empty body behind it, fails.
SendFails(s, r, m) ==
    LET k == cur[s][r] IN
    /\ CallFails(k)
    /\ \/ UNCHANGED mail
       \/ OpenAtBothEnds(k) /\ mail' = [mail EXCEPT ![k] = @ \cup {m}]

\* Mutant: a failing recv() is not noticed.
ReceiveRetries(k) == FALSE /\ DisturbNothing

\* recv() on connection k returns message m, or fails.
Receive(k, m) ==
    /\ m \in mail[k]
    /\ mail' = [mail EXCEPT ![k] = @ \ {m}]
    /\ DisturbNothing
ReceiveFails(k) == CallFails(k)

\* MulticastClient::sendMessage: multicast is looped back to the sender, and
\* reaches the members of the group.
Multicast(s) == \E reached \in SUBSET Members :
    /\ \/ reached = Members /\ DisturbNothing
       \/ reached # Members /\ Disturb(s, Members \ reached)
    /\ datagrams' = [t \in Server |->
          IF t \in reached THEN [datagrams[t] EXCEPT ![s] = @ + 1] ELSE datagrams[t]]

\* UdpServer::run takes a datagram of server p from the socket.
ReceiveFrom(s, p) ==
    /\ datagrams[s][p] > 0
    /\ datagrams' = [datagrams EXCEPT ![s][p] = @ - 1]

-----------------------------------------------------------------------------
(* The main thread: the constructor and run().                             *)

Start(s) ==
    /\ main[s] = "down"
    /\ announced < MaxAnnounce
    /\ Sequential => Quiet
    /\ main' = [main EXCEPT ![s] = "starting"]
    /\ UNCHANGED <<local, datagrams, tcp, bounds, faults>>

\* sendConnectMessage, by run() or later by the application.
Announce(s) ==
    /\ main[s] = "starting" \/ (main[s] = "running" /\ ~Sequential)
    /\ announced < MaxAnnounce
    /\ announced' = announced + 1
    /\ main' = [main EXCEPT ![s] = "running"]
    /\ Multicast(s)
    /\ UNCHANGED <<local, tcp, faults>>

Crash(s) ==
    /\ main[s] # "down"
    /\ failed < MaxFailures
    /\ failed' = failed + 1
    /\ Die(s)
    /\ UNCHANGED <<announced, faults>>

\* SIGPIPE: a service thread sends on a connection that the peer has closed.
BrokenPipe(s, r) ==
    /\ At(s, r, "send") \/ At(s, r, "reply")
    /\ s \in open[cur[s][r]] /\ ~OpenAtBothEnds(cur[s][r])
    /\ Die(s)
    /\ faults' = faults \cup {"pipe"}
    /\ UNCHANGED <<announced, failed>>

-----------------------------------------------------------------------------
(* The UDP thread: handleConnect up to addClient.                          *)

HandleConnect(s) ==
    /\ At(s, "udp", "wait")
    /\ \E p \in Server :
          /\ ReceiveFrom(s, p)
          /\ \/ /\ p = s \/ p \in peers[s]
                /\ UNCHANGED <<pc, target>>
             \/ /\ p # s /\ p \notin peers[s]
                /\ GoTo(s, "udp", "open")
                /\ target' = [target EXCEPT ![s] = p]
    /\ UNCHANGED <<main, cur, victim, clients, reader, peers, view, tcp, bounds, faults>>

\* TcpClient::openSocket: connect() succeeds as soon as the peer's system has
\* queued the connection for accept(), or is refused; or socket() or connect()
\* fails for another reason.
OpenSocket(s) ==
    /\ At(s, "udp", "open")
    /\ target' = [target EXCEPT ![s] = None]
    /\ \/ /\ Listening(target[s])
          /\ \E k \in Fresh :
                /\ from' = [from EXCEPT ![k] = s]
                /\ to' = [to EXCEPT ![k] = target[s]]
                /\ open' = [open EXCEPT ![k] = {s, target[s]}]
                /\ backlog' = [backlog EXCEPT ![target[s]] = Append(@, k)]
                /\ cur' = [cur EXCEPT ![s]["udp"] = k]
                /\ NewDescriptor(s, "udp", k)
          /\ GoTo(s, "udp", "send")
          /\ DisturbNothing
       \/ /\ \/ ~Listening(target[s]) /\ DisturbNothing
             \/ Listening(target[s]) /\ Disturb(s, {target[s]})
          /\ GoTo(s, "udp", "wait")
          /\ UNCHANGED <<from, to, open, backlog, cur, victim>>
    /\ UNCHANGED <<main, clients, reader, peers, view, datagrams, mail, announced, faults>>

SendAck(s) ==
    /\ At(s, "udp", "send")
    /\ \/ /\ Send(s, "udp", "ack")
          /\ GoTo(s, "udp", "await")
       \/ /\ SendFails(s, "udp", "ack")
          /\ GoTo(s, "udp", "close")
    /\ UNCHANGED <<main, cur, target, victim, clients, reader, peers, view, datagrams,
                   from, to, open, backlog, announced, faults>>

AwaitResponse(s) ==
    /\ At(s, "udp", "await")
    /\ \/ /\ s \in open[cur[s]["udp"]]
          /\ Receive(cur[s]["udp"], "response")
          /\ GoTo(s, "udp", "add")
       \/ /\ ReceiveFails(cur[s]["udp"])
          /\ GoTo(s, "udp", "close")
          /\ UNCHANGED mail
    /\ UNCHANGED <<main, cur, target, victim, clients, reader, peers, view, datagrams,
                   from, to, open, backlog, announced, faults>>

-----------------------------------------------------------------------------
(* The TCP thread: TcpServer::run and handleConnectAck up to addClient.    *)

Accept(s) ==
    /\ At(s, "tcp", "wait")
    /\ backlog[s] # <<>>
    /\ backlog' = [backlog EXCEPT ![s] = Tail(@)]
    /\ cur' = [cur EXCEPT ![s]["tcp"] = Head(backlog[s])]
    /\ NewDescriptor(s, "tcp", Head(backlog[s]))
    /\ GoTo(s, "tcp", "read")
    /\ UNCHANGED <<main, target, clients, reader, peers, view, datagrams, from, to, open,
                   mail, bounds, faults>>

\* Mutant: the descriptor is forgotten.
GiveUpOpen(s) ==
    /\ cur' = [cur EXCEPT ![s]["tcp"] = None]
    /\ GoTo(s, "tcp", "wait")
    /\ UNCHANGED open

\* The end of a connection whose request is given up: the descriptor is closed.
GiveUp(s) ==
    /\ CloseEnd(s, cur[s]["tcp"])
    /\ cur' = [cur EXCEPT ![s]["tcp"] = None]
    /\ GoTo(s, "tcp", "wait")

\* readMessage; handleRequest then calls handleConnectAck.
ReadAck(s) ==
    /\ At(s, "tcp", "read")
    /\ \/ /\ s \in open[cur[s]["tcp"]]
          /\ Receive(cur[s]["tcp"], "ack")
          /\ GoTo(s, "tcp", "reply")
          /\ UNCHANGED <<cur, open>>
       \/ /\ ReceiveFails(cur[s]["tcp"])
          /\ GiveUp(s)
          /\ UNCHANGED mail
    /\ UNCHANGED <<main, target, victim, clients, reader, peers, view, datagrams,
                   from, to, backlog, announced, faults>>

Reply(s) ==
    /\ At(s, "tcp", "reply")
    /\ \/ /\ Send(s, "tcp", "response")
          /\ GoTo(s, "tcp", "add")
          /\ UNCHANGED <<cur, open>>
       \/ /\ SendFails(s, "tcp", "response")
          /\ GiveUp(s)
    /\ UNCHANGED <<main, target, victim, clients, reader, peers, view, datagrams,
                   from, to, backlog, announced, faults>>

-----------------------------------------------------------------------------
(* Connector::addClient and what its callers do after it.                  *)

\* Mutant: an entry for the address is overwritten.
AddClientAlways(s, r) ==
    /\ At(s, r, "add")
    /\ clients' = [clients EXCEPT ![s][PeerOn(s, cur[s][r])] = cur[s][r]]
    /\ GoTo(s, r, "run")
    /\ UNCHANGED <<main, cur, target, victim, reader, peers, view, datagrams, tcp,
                   bounds, faults>>

\* The insertion may move the table that the other service thread has an iterator
\* into: see UseClient.
Inserted(s, r) ==
    \/ GoTo(s, r, "run")
    \/ /\ pc[s][OtherRole(r)] = "use"
       /\ pc' = [pc EXCEPT ![s] = [x \in Role |-> IF x = r THEN "run" ELSE "stale"]]

\* The look-up and the insertion, under clientsMutex.  The key is the address
\* of the other end.  When it is taken, ~TcpClient closes the descriptor;
\* handleConnect then dereferences the pointer it has moved away.
AddClient(s, r) ==
    LET k == cur[s][r]
        p == PeerOn(s, k)
    IN
    /\ At(s, r, "add")
    /\ \/ /\ clients[s][p] = None
          /\ clients' = [clients EXCEPT ![s][p] = k]
          /\ Inserted(s, r)
          /\ UNCHANGED <<main, cur, target, victim, reader, peers, view, datagrams, tcp,
                         bounds, faults>>
       \/ /\ clients[s][p] # None
          /\ r = "tcp"
          /\ GoTo(s, r, "close")
          /\ UNCHANGED <<main, cur, target, victim, clients, reader, peers, view, datagrams,
                         tcp, bounds, faults>>
       \/ /\ clients[s][p] # None
          /\ r = "udp"
          /\ Die(s)
          /\ faults' = faults \cup {"null"}
          /\ UNCHANGED <<announced, failed>>

\* runClient looks the client up again, under clientsMutex ...
RunClient(s, r) ==
    /\ At(s, r, "run")
    /\ clients[s][PeerOn(s, cur[s][r])] # None
    /\ GoTo(s, r, "use")
    /\ UNCHANGED <<main, cur, target, victim, clients, reader, peers, view, datagrams, tcp,
                   bounds, faults>>

\* ... and uses the iterator after it has released the mutex: the reader thread is
\* started on what it points to.  When the table was moved meanwhile, that is freed
\* memory, which may still hold the client or bring the process down.
UseClient(s, r) ==
    /\ At(s, r, "use") \/ At(s, r, "stale")
    /\ LET k == clients[s][PeerOn(s, cur[s][r])] IN
       /\ k # None
       /\ reader' = [reader EXCEPT ![s][k] = "recv"]
    /\ GoTo(s, r, "callback")
    /\ UNCHANGED <<main, cur, target, victim, clients, peers, view, datagrams, tcp,
                   bounds, faults>>

UseMoved(s, r) ==
    /\ At(s, r, "stale")
    /\ Die(s)
    /\ faults' = faults \cup {"freed"}
    /\ UNCHANGED <<announced, failed>>

\* Mutant: the callback is given the connection, not the address.
ConnectCallbackOfConnection(s, r) ==
    /\ At(s, r, "callback")
    /\ view' = [view EXCEPT ![s] = @ \cup {cur[s][r]}]
    /\ cur' = [cur EXCEPT ![s][r] = None]
    /\ GoTo(s, r, "wait")
    /\ UNCHANGED <<main, target, victim, clients, reader, peers, datagrams, tcp, bounds, faults>>

\* peerConnectCallback.
ConnectCallback(s, r) ==
    /\ At(s, r, "callback")
    /\ view' = [view EXCEPT ![s] = @ \cup {PeerOn(s, cur[s][r])}]
    /\ cur' = [cur EXCEPT ![s][r] = None]
    /\ GoTo(s, r, "wait")
    /\ UNCHANGED <<main, target, victim, clients, reader, peers, datagrams, tcp, bounds, faults>>

\* Mutant: the descriptor is left open.
CloseNothing(s, r) ==
    /\ At(s, r, "close")
    /\ GoTo(s, r, "reclose")
    /\ UNCHANGED <<main, cur, target, victim, clients, reader, peers, view, datagrams,
                   tcp, bounds, faults>>

\* A failed handler closes its descriptor ...
Close(s, r) ==
    /\ At(s, r, "close")
    /\ CloseEnd(s, cur[s][r])
    /\ GoTo(s, r, "reclose")
    /\ UNCHANGED <<main, cur, target, victim, clients, reader, peers, view, datagrams,
                   from, to, mail, backlog, bounds, faults>>

\* ... and then closes the same number again: the handler's own close() and
\* ~TcpClient, or ~TcpClient and the handler's own close().
HitsOther(s, r) == victim[s][r] # None /\ s \in open[victim[s][r]]

CloseAgain(s, r) ==
    /\ At(s, r, "reclose")
    /\ \/ /\ HitsOther(s, r)
          /\ CloseEnd(s, victim[s][r])
          /\ faults' = faults \cup {"stray"}
       \/ /\ ~HitsOther(s, r)
          /\ UNCHANGED <<open, faults>>
    /\ victim' = [victim EXCEPT ![s][r] = None]
    /\ cur' = [cur EXCEPT ![s][r] = None]
    /\ GoTo(s, r, "wait")
    /\ UNCHANGED <<main, target, clients, reader, peers, view, datagrams,
                   from, to, mail, backlog, bounds>>

-----------------------------------------------------------------------------
(* The reader thread of connection k: the end of Connector::runClient.     *)

\* receiveMessage fails; closeSocket.
ReaderFails(s, k) ==
    /\ main[s] # "down"
    /\ reader[s][k] = "recv"
    /\ ReceiveFails(k)
    /\ CloseEnd(s, k)
    /\ reader' = [reader EXCEPT ![s][k] = "erase"]
    /\ UNCHANGED <<main, pc, cur, target, victim, clients, peers, view, datagrams,
                   from, to, mail, backlog, announced, faults>>

\* Mutant: the entry stays.
EraseNothing(s, k) ==
    /\ main[s] # "down"
    /\ reader[s][k] = "erase"
    /\ reader' = [reader EXCEPT ![s][k] = "notify"]
    /\ UNCHANGED <<main, pc, cur, target, victim, clients, peers, view, datagrams, tcp,
                   bounds, faults>>

\* clients.erase(address), under clientsMutex.
EraseClient(s, k) ==
    /\ main[s] # "down"
    /\ reader[s][k] = "erase"
    /\ clients' = [clients EXCEPT ![s][PeerOn(s, k)] = None]
    /\ reader' = [reader EXCEPT ![s][k] = "notify"]
    /\ UNCHANGED <<main, pc, cur, target, victim, peers, view, datagrams, tcp, bounds, faults>>

\* disconnectCallback, which is onConnectorDisconnect.
DisconnectCallback(s, k) ==
    /\ main[s] # "down"
    /\ reader[s][k] = "notify"
    /\ peers' = [peers EXCEPT ![s] = @ \ {PeerOn(s, k)}]
    /\ view' = [view EXCEPT ![s] = @ \ {PeerOn(s, k)}]
    /\ reader' = [reader EXCEPT ![s][k] = "none"]
    /\ UNCHANGED <<main, pc, cur, target, victim, clients, datagrams, tcp, bounds, faults>>

-----------------------------------------------------------------------------
UdpStep(s) == HandleConnect(s) \/ OpenSocket(s) \/ SendAck(s) \/ AwaitResponse(s)
TcpStep(s) == Accept(s) \/ ReadAck(s) \/ Reply(s)
Added(s, r) ==
    \/ AddClient(s, r) \/ RunClient(s, r) \/ UseClient(s, r) \/ UseMoved(s, r)
    \/ ConnectCallback(s, r) \/ Close(s, r) \/ CloseAgain(s, r)
ReaderStep(s, k) == ReaderFails(s, k) \/ EraseClient(s, k) \/ DisconnectCallback(s, k)

Next == \E s \in Server :
    \/ Start(s) \/ Announce(s) \/ Crash(s)
    \/ UdpStep(s) \/ TcpStep(s)
    \/ \E r \in Role : Added(s, r) \/ BrokenPipe(s, r)
    \/ \E k \in Conn : ReaderStep(s, k)

Spec == Init /\ [][Next]_vars

(***************************************************************************)
(* Fairness: every thread of a server that can run does run, and run()     *)
(* multicasts; nothing obliges a server to start, to crash, or to multicast *)
(* again, nor a call to fail on a connection that is open at both ends.    *)
(***************************************************************************)
Fairness == \A s \in Server :
    /\ WF_vars(main[s] = "starting" /\ Announce(s))
    /\ WF_vars((UdpStep(s) \/ Added(s, "udp")) /\ UNCHANGED failed)
    /\ WF_vars((TcpStep(s) \/ Added(s, "tcp")) /\ UNCHANGED failed)
    /\ \A k \in Conn : WF_vars(ReaderStep(s, k) /\ UNCHANGED failed)

FairSpec == Spec /\ Fairness

-----------------------------------------------------------------------------
(* Properties.                                                             *)

\* Every client of a Connector is read by exactly the thread that was started
\* for it, and a reader erases, by address, its own client and never that of a
\* newer connection: although runClient looks the client up after addClient has
\* released the mutex, and uses it after it has released the mutex again, it finds
\* the one that was added.
Adding == {"run", "use", "stale"}
ClientHasItsReader ==
    \A s, p \in Server : \A k \in Conn :
        /\ clients[s][p] = k =>
              /\ PeerOn(s, k) = p
              /\ \/ reader[s][k] \in {"recv", "erase"}
                 \/ \E r \in Role : cur[s][r] = k /\ pc[s][r] \in Adding
        /\ reader[s][k] \in {"recv", "erase"} => clients[s][PeerOn(s, k)] = k
        /\ \A r \in Role :
              cur[s][r] = k /\ pc[s][r] \in Adding => clients[s][PeerOn(s, k)] = k

\* No descriptor is leaked, whatever step of the handshake fails: an open end
\* of a connection waits for accept(), is being set up by a service thread, or
\* is read by the thread of the client.
OpenEndsAreOwned ==
    \A k \in Conn : \A s \in open[k] :
        \/ \E i \in DOMAIN backlog[s] : backlog[s][i] = k
        \/ \E r \in Role : cur[s][r] = k /\ pc[s][r] # "reclose"
        \/ reader[s][k] = "recv"

\* When nothing is in progress anywhere, the tables of two servers agree: both
\* have the same connection to each other or neither has one, even if they
\* connected to each other at the same time, failed half-way, closed each other's
\* duplicates or lost a connection for no reason that the other one knows.
QuietServersAgree ==
    Quiet => \A s, p \in Server : clients[s][p] = clients[p][s]

\* Servers that are started one at a time never run into an occupied entry of
\* clients, never close a descriptor that is not theirs, and never use an iterator
\* that the other service thread has invalidated, even when servers crash in the
\* middle of a handshake, lose connections and are started again.
SequentialStartsAreSafe == Sequential => faults \subseteq {"pipe"}

\* When servers are started one at a time and nothing is in progress, an
\* application that has followed the callbacks has been told of every peer it is
\* connected to, although a disconnection is reported by another thread than a
\* connection.  It may believe in peers that it is no longer connected to.
ConnectedPeersAreReported ==
    Sequential /\ Quiet => \A s, p \in Server : clients[s][p] # None => p \in view[s]

\* Servers that are started one at a time connect once: nothing is left of a
\* connection when two servers connect again, the first end of it is given up only
\* when a process ends or a call on the connection fails, which disturbs the pair,
\* and the entries of clients follow the connections.
Between == [k \in Conn |-> {from[k], to[k]} \ {None}]
M == INSTANCE Membership
         WITH up <- Members, ends <- Between, table <- clients, broken <- disturbed
ServersConnectOnce == M!Spec

\* No service thread waits in a blocking receive for a message that nobody is
\* going to send, even when servers connect to each other at the same time: the
\* UDP thread that awaits a response has its connection queued at, or served by,
\* the TCP thread of the peer, and a TCP thread that has accepted a connection
\* waits for a UDP thread that is about to send or to close the connection, and
\* does not itself wait.
WaitersAreServed ==
    \A s \in Server :
        LET out == cur[s]["udp"]
            in == cur[s]["tcp"]
        IN
        /\ At(s, "udp", "await") /\ OpenAtBothEnds(out) /\ "response" \notin mail[out] =>
              \/ \E i \in DOMAIN backlog[to[out]] : backlog[to[out]][i] = out
              \/ cur[to[out]]["tcp"] = out /\ pc[to[out]]["tcp"] \in {"read", "reply"}
        /\ At(s, "tcp", "read") /\ OpenAtBothEnds(in) /\ "ack" \notin mail[in] =>
              cur[from[in]]["udp"] = in /\ pc[from[in]]["udp"] \in {"send", "close"}

\* Every handler ends, and its service thread waits for the next request again: no
\* chain of servers that wait for each other's service threads blocks, whatever
\* connects, fails, crashes and duplicates there are.
HandlersReturn ==
    \A s \in Server : \A r \in Role : []<>(pc[s][r] = "wait")

\* Servers that are started one at a time get connected, by one and the same
\* connection, and stay so while both run, unless the pair is disturbed: there is
\* one announcement, and nothing makes up for it when it is lost, or when a call
\* of the handshake or of a reader fails.  Whatever happened to them before a
\* restart does not stop them.
Pairs == {q \in SUBSET Server : Cardinality(q) = 2}
Running(q) == \A s \in q : main[s] = "running"
Connected(q) == \E k \in Conn : \A s, p \in q : s # p => clients[s][p] = k
RunningServersConnect ==
    \A q \in Pairs : []<>(Running(q) => Connected(q) \/ q \in disturbed)

=============================================================================
