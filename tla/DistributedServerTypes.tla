----------------------- MODULE DistributedServerTypes -----------------------
(***************************************************************************)
(* Types of DistributedServer, for every set of servers and connections.   *)
(* Type correctness needs the shape of the state: which labels go with a   *)
(* connection, whose ends the connections in tables, queues and threads    *)
(* have, and that nothing is left of a process that is down. Each action   *)
(* is first restated by the values it writes, point by point; every later  *)
(* proof cites that statement and not the action.                          *)
(***************************************************************************)
EXTENDS DistributedServer, TLAPS

\* The labels that the thread of each service may be at.
UdpLabels == Labels \ {"read", "reply"}
TcpLabels == Labels \ {"open", "send", "await"}

\* A thread has a connection exactly while its label says so.
Labelled ==
    /\ \A s \in Server : pc[s]["udp"] \in UdpLabels /\ pc[s]["tcp"] \in TcpLabels
    /\ \A s \in Server : \A r \in Role : cur[s][r] = None <=> pc[s][r] \in {"wait", "open"}
    /\ \A s \in Server : (target[s] = None <=> pc[s]["udp"] # "open") /\ target[s] # s

\* Both ends of a connection are known from its start, and a number in a table,
\* a queue or a thread is of a connection that ends there.
Made(k) == from[k] # None
EndOf(s, k) == Made(k) /\ s \in {from[k], to[k]}

Ends == \A k \in Conn :
    /\ (Made(k) <=> to[k] # None) /\ (Made(k) => from[k] # to[k])
    /\ \A s \in open[k] : EndOf(s, k)

Currents == \A s \in Server :
    /\ cur[s]["udp"] # None => from[cur[s]["udp"]] = s
    /\ cur[s]["tcp"] # None => to[cur[s]["tcp"]] = s

Queues == \A s \in Server : \A i \in DOMAIN backlog[s] : to[backlog[s][i]] = s

Readers == \A s \in Server, k \in Conn : reader[s][k] # "none" => EndOf(s, k)

Entries == \A s, p \in Server : clients[s][p] # None =>
    EndOf(s, clients[s][p]) /\ PeerOn(s, clients[s][p]) = p

Related == Ends /\ Currents /\ Queues /\ Readers /\ Entries

\* Nothing is left of a process that is down.
Gone ==
    \A s \in Server : main[s] = "down" =>
        /\ \A r \in Role : pc[s][r] = "wait"
        /\ \A p \in Server : clients[s][p] = None /\ datagrams[s][p] = 0
        /\ \A k \in Conn : reader[s][k] = "none" /\ s \notin open[k]
        /\ backlog[s] = <<>>

Counted == \A s, p \in Server : datagrams[s][p] <= announced

Shape == Labelled /\ Related /\ Gone /\ Counted
Typed == TypeOK /\ Shape

-----------------------------------------------------------------------------
(* What the actions do, point by point.                                    *)

\* An assignment to one cell of a function of functions.
LEMMA Put ==
    ASSUME NEW A, NEW B, NEW C, NEW f \in [A -> [B -> C]], NEW a \in A, NEW b \in B, NEW x \in C,
           NEW g, g = [f EXCEPT ![a][b] = x]
    PROVE  /\ g \in [A -> [B -> C]]
           /\ g[a][b] = x
           /\ \A c \in A, d \in B : c # a \/ d # b => g[c][d] = f[c][d]
OBVIOUS

\* What is written to one cell, and that the others stay.
PcAt(s, r, l) ==
    /\ pc' \in [Server -> [Role -> Labels]]
    /\ pc'[s][r] = l
    /\ \A t \in Server, q \in Role : t # s \/ q # r => pc'[t][q] = pc[t][q]

CurAt(s, r, x) ==
    /\ cur' \in [Server -> [Role -> Conn \cup {None}]]
    /\ cur'[s][r] = x
    /\ \A t \in Server, q \in Role : t # s \/ q # r => cur'[t][q] = cur[t][q]

VictimAt(s, r, x) ==
    /\ victim' \in [Server -> [Role -> Conn \cup {None}]]
    /\ victim'[s][r] = x
    /\ \A t \in Server, q \in Role : t # s \/ q # r => victim'[t][q] = victim[t][q]

ClientsAt(s, p, x) ==
    /\ clients' \in [Server -> [Server -> Conn \cup {None}]]
    /\ clients'[s][p] = x
    /\ \A t, q \in Server : t # s \/ q # p => clients'[t][q] = clients[t][q]

ReaderAt(s, k, x) ==
    /\ reader' \in [Server -> [Conn -> {"none", "recv", "erase", "notify"}]]
    /\ reader'[s][k] = x
    /\ \A t \in Server, l \in Conn : t # s \/ l # k => reader'[t][l] = reader[t][l]

\* A thread moves to another label.
LEMMA PcPut ==
    ASSUME TypeOK, NEW s \in Server, NEW r \in Role, NEW l \in Labels, GoTo(s, r, l)
    PROVE  PcAt(s, r, l)
<1>1. pc \in [Server -> [Role -> Labels]] /\ pc' = [pc EXCEPT ![s][r] = l]
  BY DEF TypeOK, GoTo
<1> QED BY <1>1, Put DEF PcAt

\* A thread takes another connection.
LEMMA CurPut ==
    ASSUME TypeOK, NEW s \in Server, NEW r \in Role, NEW x \in Conn \cup {None},
           cur' = [cur EXCEPT ![s][r] = x]
    PROVE  CurAt(s, r, x)
<1>1. cur \in [Server -> [Role -> Conn \cup {None}]]
  BY DEF TypeOK
<1> QED BY <1>1, Put DEF CurAt

\* The number that a pending close() will hit.
LEMMA VictimPut ==
    ASSUME TypeOK, NEW s \in Server, NEW r \in Role, NEW x \in Conn \cup {None},
           victim' = [victim EXCEPT ![s][r] = x]
    PROVE  VictimAt(s, r, x)
<1>1. victim \in [Server -> [Role -> Conn \cup {None}]]
  BY DEF TypeOK
<1> QED BY <1>1, Put DEF VictimAt

\* An entry of clients is written or erased.
LEMMA ClientsPut ==
    ASSUME TypeOK, NEW s \in Server, NEW p \in Server, NEW x \in Conn \cup {None},
           clients' = [clients EXCEPT ![s][p] = x]
    PROVE  ClientsAt(s, p, x)
<1>1. clients \in [Server -> [Server -> Conn \cup {None}]]
  BY DEF TypeOK
<1> QED BY <1>1, Put DEF ClientsAt

\* A reader thread moves on.
LEMMA ReaderPut ==
    ASSUME TypeOK, NEW s \in Server, NEW k \in Conn, NEW x \in {"none", "recv", "erase", "notify"},
           reader' = [reader EXCEPT ![s][k] = x]
    PROVE  ReaderAt(s, k, x)
<1>1. reader \in [Server -> [Conn -> {"none", "recv", "erase", "notify"}]]
  BY DEF TypeOK
<1> QED BY <1>1, Put DEF ReaderAt

DatagramsAt(s, p, n) ==
    /\ datagrams' \in [Server -> [Server -> 0 .. MaxAnnounce]]
    /\ datagrams'[s][p] = n
    /\ \A t, q \in Server : t # s \/ q # p => datagrams'[t][q] = datagrams[t][q]

\* The datagrams of one sender at one server.
LEMMA DatagramsPut ==
    ASSUME TypeOK, NEW s \in Server, NEW p \in Server, NEW n \in 0 .. MaxAnnounce,
           datagrams' = [datagrams EXCEPT ![s][p] = n]
    PROVE  DatagramsAt(s, p, n)
<1>1. datagrams \in [Server -> [Server -> 0 .. MaxAnnounce]]
  BY DEF TypeOK
<1> QED BY <1>1, Put DEF DatagramsAt

\* The connection that a service thread works on.
LEMMA Current ==
    ASSUME Typed, NEW s \in Server, NEW r \in Role, pc[s][r] \notin {"wait", "open"}
    PROVE  /\ cur[s][r] \in Conn /\ cur[s][r] # None
           /\ EndOf(s, cur[s][r])
           /\ r = "udp" => from[cur[s][r]] = s
           /\ r = "tcp" => to[cur[s][r]] = s
           /\ PeerOn(s, cur[s][r]) \in Server \ {s}
<1>1. cur[s][r] \in Conn /\ cur[s][r] # None
  BY ConstantsOK DEF ConstantsOK, Typed, TypeOK, Shape, Labelled
<1>2. /\ r = "udp" => from[cur[s][r]] = s
      /\ r = "tcp" => to[cur[s][r]] = s
  BY <1>1 DEF Typed, Shape, Related, Currents
<1>3. EndOf(s, cur[s][r])
  <2>1. r = "udp" \/ r = "tcp"
    BY DEF Role
  <2>2. s # None /\ (Made(cur[s][r]) <=> to[cur[s][r]] # None)
    BY <1>1, ConstantsOK DEF ConstantsOK, Typed, Shape, Related, Ends
  <2> QED BY <1>2, <2>1, <2>2 DEF EndOf, Made
<1>4. PeerOn(s, cur[s][r]) \in Server \ {s}
  <2> DEFINE k == cur[s][r]
  <2>1. k \in Conn /\ EndOf(s, k)
    BY <1>1, <1>3
  <2> HIDE DEF k
  <2>2. (Made(k) <=> to[k] # None) /\ (Made(k) => from[k] # to[k])
    BY <2>1 DEF Typed, Shape, Related, Ends
  <2>3. from[k] \in Server \cup {None} /\ to[k] \in Server \cup {None}
    BY <2>1 DEF Typed, TypeOK
  <2>4. PeerOn(s, k) \in Server \ {s}
    BY <2>1, <2>2, <2>3 DEF EndOf, Made, PeerOn
  <2> QED BY <2>4 DEF k
<1> QED BY <1>1, <1>2, <1>3, <1>4

-----------------------------------------------------------------------------
(* Types.                                                                  *)

\* A process that ends loses its threads, its tables and its descriptors; the
\* other processes keep theirs.
LEMMA DieTyped ==
    ASSUME TypeOK, NEW s \in Server, Die(s)
    PROVE  /\ main' \in [Server -> {"down", "starting", "running"}]
           /\ pc' \in [Server -> [Role -> Labels]]
           /\ cur' \in [Server -> [Role -> Conn \cup {None}]]
           /\ target' \in [Server -> Server \cup {None}]
           /\ victim' \in [Server -> [Role -> Conn \cup {None}]]
           /\ clients' \in [Server -> [Server -> Conn \cup {None}]]
           /\ reader' \in [Server -> [Conn -> {"none", "recv", "erase", "notify"}]]
           /\ peers' \in [Server -> SUBSET Server]
           /\ view' \in [Server -> SUBSET Server]
           /\ datagrams' \in [Server -> [Server -> 0 .. MaxAnnounce]]
           /\ open' \in [Conn -> SUBSET Server]
           /\ backlog' \in [Server -> Seq(Conn)]
           /\ main'[s] = "down" /\ target'[s] = None /\ backlog'[s] = <<>>
           /\ peers'[s] = {} /\ view'[s] = {}
           /\ \A r \in Role : pc'[s][r] = "wait" /\ cur'[s][r] = None /\ victim'[s][r] = None
           /\ \A p \in Server : clients'[s][p] = None /\ datagrams'[s][p] = 0
           /\ \A k \in Conn : reader'[s][k] = "none" /\ open'[k] = open[k] \ {s}
           /\ disturbed' = {q \in disturbed : s \notin q} /\ disturbed' \subseteq SUBSET Server
           /\ \A t \in Server : t # s =>
                 /\ main'[t] = main[t] /\ pc'[t] = pc[t] /\ cur'[t] = cur[t]
                 /\ target'[t] = target[t] /\ victim'[t] = victim[t]
                 /\ clients'[t] = clients[t] /\ reader'[t] = reader[t]
                 /\ peers'[t] = peers[t] /\ view'[t] = view[t]
                 /\ datagrams'[t] = datagrams[t] /\ backlog'[t] = backlog[t]
<1> USE DEF TypeOK, Die
<1>1. 0 \in 0 .. MaxAnnounce
  BY ConstantsOK DEF ConstantsOK
<1>2. /\ pc' \in [Server -> [Role -> Labels]]
      /\ \A r \in Role : pc'[s][r] = "wait"
      /\ \A t \in Server : t # s => pc'[t] = pc[t]
  BY DEF Labels
<1>3. /\ cur' \in [Server -> [Role -> Conn \cup {None}]]
      /\ \A r \in Role : cur'[s][r] = None
      /\ \A t \in Server : t # s => cur'[t] = cur[t]
  OBVIOUS
<1>4. /\ victim' \in [Server -> [Role -> Conn \cup {None}]]
      /\ \A r \in Role : victim'[s][r] = None
      /\ \A t \in Server : t # s => victim'[t] = victim[t]
  OBVIOUS
<1>5. /\ clients' \in [Server -> [Server -> Conn \cup {None}]]
      /\ \A p \in Server : clients'[s][p] = None
      /\ \A t \in Server : t # s => clients'[t] = clients[t]
  OBVIOUS
<1>6. /\ reader' \in [Server -> [Conn -> {"none", "recv", "erase", "notify"}]]
      /\ \A k \in Conn : reader'[s][k] = "none"
      /\ \A t \in Server : t # s => reader'[t] = reader[t]
  OBVIOUS
<1>7. /\ datagrams' \in [Server -> [Server -> 0 .. MaxAnnounce]]
      /\ \A p \in Server : datagrams'[s][p] = 0
      /\ \A t \in Server : t # s => datagrams'[t] = datagrams[t]
  BY <1>1
<1>8. /\ backlog' \in [Server -> Seq(Conn)] /\ backlog'[s] = <<>>
      /\ \A t \in Server : t # s => backlog'[t] = backlog[t]
  OBVIOUS
<1>9. /\ main' \in [Server -> {"down", "starting", "running"}]
      /\ target' \in [Server -> Server \cup {None}]
      /\ peers' \in [Server -> SUBSET Server]
      /\ view' \in [Server -> SUBSET Server]
      /\ open' \in [Conn -> SUBSET Server]
      /\ main'[s] = "down" /\ target'[s] = None /\ peers'[s] = {} /\ view'[s] = {}
      /\ \A k \in Conn : open'[k] = open[k] \ {s}
      /\ \A t \in Server : t # s =>
            main'[t] = main[t] /\ target'[t] = target[t] /\ peers'[t] = peers[t] /\ view'[t] = view[t]
  OBVIOUS
<1>10. disturbed' = {q \in disturbed : s \notin q} /\ disturbed' \subseteq SUBSET Server
  OBVIOUS
<1> QED BY <1>2, <1>3, <1>4, <1>5, <1>6, <1>7, <1>8, <1>9, <1>10

-----------------------------------------------------------------------------
(* The actions, with their assignments point by point.                     *)

\* What NewDescriptor may do to the other thread's pending close().
LEMMA NewDescriptorPut ==
    ASSUME TypeOK, NEW s \in Server, NEW r \in Role, NEW k \in Conn, NewDescriptor(s, r, k)
    PROVE  /\ victim' \in [Server -> [Role -> Conn \cup {None}]]
           /\ \A t \in Server, q \in Role : victim'[t][q] # victim[t][q] =>
                 t = s /\ pc[s][q] = "reclose" /\ q # r /\ victim'[t][q] = k
<1>1. OtherRole(r) \in Role /\ OtherRole(r) # r
  BY DEF Role, OtherRole
<1>2. CASE UNCHANGED victim
  BY <1>2 DEF TypeOK
<1>3. CASE pc[s][OtherRole(r)] = "reclose" /\ victim' = [victim EXCEPT ![s][OtherRole(r)] = k]
  <2>1. VictimAt(s, OtherRole(r), k)
    BY <1>1, <1>3, VictimPut
  <2> QED BY <1>1, <1>3, <2>1 DEF VictimAt, TypeOK
<1> QED BY <1>2, <1>3 DEF NewDescriptor

\* A failure is counted, and disturbs pairs of servers.
LEMMA DisturbTyped ==
    ASSUME Typed, NEW s \in Server, NEW ps \in SUBSET Server, Disturb(s, ps)
    PROVE  failed' \in 0 .. MaxFailures /\ disturbed' \subseteq SUBSET Server
<1>1. failed \in 0 .. MaxFailures /\ disturbed \subseteq SUBSET Server /\ MaxFailures \in Nat
  BY ConstantsOK DEF ConstantsOK, Typed, TypeOK
<1>2. failed < MaxFailures /\ failed' = failed + 1
  BY DEF Disturb
<1>3. disturbed' = disturbed \cup {{s, p} : p \in ps}
  BY DEF Disturb
<1> QED BY <1>1, <1>2, <1>3

\* What a call on a connection that fails records: nothing, if an end is closed.
Fails(k) ==
    /\ failed' \in 0 .. MaxFailures /\ disturbed' \subseteq SUBSET Server
    /\ \/ ~OpenAtBothEnds(k) /\ disturbed' = disturbed
       \/ OpenAtBothEnds(k) /\ disturbed' = disturbed \cup {{from[k], to[k]}}
    /\ UNCHANGED announced

\* The code of a failing call does what the operator above says.
LEMMA FailsEffect ==
    ASSUME Typed, NEW k \in Conn, CallFails(k), UNCHANGED announced
    PROVE  Fails(k)
<1>1. CASE ~OpenAtBothEnds(k) /\ DisturbNothing
  BY <1>1 DEF DisturbNothing, Fails, Typed, TypeOK
<1>2. CASE OpenAtBothEnds(k) /\ Disturb(from[k], {to[k]})
  <2>1. from[k] \in Server /\ to[k] \in Server
    BY <1>2 DEF OpenAtBothEnds, Typed, TypeOK
  <2>2. failed' \in 0 .. MaxFailures /\ disturbed' \subseteq SUBSET Server
    <3>1. {to[k]} \in SUBSET Server
      BY <2>1
    <3> QED BY <1>2, <2>1, <3>1, DisturbTyped
  <2>3. disturbed' = disturbed \cup {{from[k], to[k]}}
    <3>1. {{from[k], p} : p \in {to[k]}} = {{from[k], to[k]}}
      OBVIOUS
    <3> QED BY <1>2, <3>1 DEF Disturb
  <2> QED BY <1>2, <2>2, <2>3 DEF Fails
<1> QED BY <1>1, <1>2 DEF CallFails

\* What the constructor's step does.
StartDoes(s) ==
    /\ main[s] = "down" /\ announced < MaxAnnounce /\ (Sequential => Quiet)
    /\ main' \in [Server -> {"down", "starting", "running"}]
    /\ main'[s] = "starting" /\ \A t \in Server : t # s => main'[t] = main[t]
    /\ UNCHANGED <<local, datagrams, tcp, bounds, faults>>

\* The code of Start does what the operator above says.
LEMMA StartEffect ==
    ASSUME Typed, NEW s \in Server, Start(s)
    PROVE  StartDoes(s)
BY DEF Typed, TypeOK, Start, StartDoes

\* A multicast adds at most one datagram of the sender, and only at members.
AnnounceDoes(s) ==
    /\ main[s] # "down" /\ (main[s] = "starting" \/ (main[s] = "running" /\ ~Sequential))
    /\ announced' = announced + 1 /\ announced' \in 0 .. MaxAnnounce
    /\ main' \in [Server -> {"down", "starting", "running"}]
    /\ main'[s] = "running" /\ \A t \in Server : t # s => main'[t] = main[t]
    /\ datagrams' \in [Server -> [Server -> 0 .. MaxAnnounce]]
    /\ \A t, p \in Server :
          \/ datagrams'[t][p] = datagrams[t][p]
          \/ p = s /\ main[t] # "down" /\ datagrams'[t][p] = datagrams[t][p] + 1
    /\ failed' \in 0 .. MaxFailures /\ disturbed' \subseteq SUBSET Server
    /\ \E missed \in SUBSET Members : disturbed' = disturbed \cup {{s, p} : p \in missed}
    /\ UNCHANGED <<local, tcp, faults>>

\* The code of Announce does what the operator above says.
LEMMA AnnounceEffect ==
    ASSUME Typed, NEW s \in Server, Announce(s)
    PROVE  AnnounceDoes(s)
<1>1. /\ announced' = announced + 1 /\ announced' \in 0 .. MaxAnnounce
      /\ main[s] # "down" /\ (main[s] = "starting" \/ (main[s] = "running" /\ ~Sequential))
  BY ConstantsOK DEF ConstantsOK, Typed, TypeOK, Announce
<1>2. PICK reached \in SUBSET Members :
         /\ \/ reached = Members /\ DisturbNothing
            \/ Disturb(s, Members \ reached)
         /\ datagrams' = [t \in Server |->
               IF t \in reached THEN [datagrams[t] EXCEPT ![s] = @ + 1] ELSE datagrams[t]]
  BY DEF Announce, Multicast
<1>3. ASSUME NEW t \in Server
      PROVE  /\ datagrams'[t] \in [Server -> 0 .. MaxAnnounce]
             /\ \A p \in Server :
                   \/ datagrams'[t][p] = datagrams[t][p]
                   \/ p = s /\ main[t] # "down" /\ datagrams'[t][p] = datagrams[t][p] + 1
  <2>1. datagrams[t] \in [Server -> 0 .. MaxAnnounce] /\ datagrams[t][s] \in Nat
    BY DEF Typed, TypeOK
  <2>2. datagrams[t][s] + 1 \in 0 .. MaxAnnounce
    BY <1>1, <2>1, ConstantsOK DEF ConstantsOK, Typed, TypeOK, Shape, Counted
  <2>3. CASE t \notin reached
    BY <1>2, <2>1, <2>3
  <2>4. CASE t \in reached
    <3>1. datagrams'[t] = [datagrams[t] EXCEPT ![s] = @ + 1] /\ main[t] # "down"
      BY <1>2, <2>4 DEF Members
    <3> QED BY <2>1, <2>2, <3>1
  <2> QED BY <2>3, <2>4
<1>4. datagrams' \in [Server -> [Server -> 0 .. MaxAnnounce]]
  BY <1>2, <1>3
<1>5. /\ failed' \in 0 .. MaxFailures
      /\ \E missed \in SUBSET Members : disturbed' = disturbed \cup {{s, p} : p \in missed}
  <2>1. CASE DisturbNothing
    <3>1. disturbed' = disturbed \cup {{s, p} : p \in {}}
      BY <2>1 DEF DisturbNothing
    <3> QED BY <2>1, <3>1 DEF DisturbNothing, Typed, TypeOK
  <2>2. CASE Disturb(s, Members \ reached)
    <3>1. disturbed' = disturbed \cup {{s, p} : p \in Members \ reached}
      BY <2>2 DEF Disturb
    <3>2. failed' \in 0 .. MaxFailures
      BY <2>2, DisturbTyped DEF Members
    <3> QED BY <3>1, <3>2
  <2> QED BY <1>2, <2>1, <2>2
<1>6. disturbed' \subseteq SUBSET Server
  <2>1. PICK missed \in SUBSET Members : disturbed' = disturbed \cup {{s, p} : p \in missed}
    BY <1>5
  <2>2. disturbed \subseteq SUBSET Server /\ missed \subseteq Server
    BY DEF Members, Typed, TypeOK
  <2> QED BY <2>1, <2>2
<1>7. /\ main' \in [Server -> {"down", "starting", "running"}]
      /\ main'[s] = "running" /\ \A t \in Server : t # s => main'[t] = main[t]
      /\ UNCHANGED <<local, tcp, faults>>
  BY DEF Announce, Typed, TypeOK
<1> QED BY <1>1, <1>3, <1>4, <1>5, <1>6, <1>7 DEF AnnounceDoes

\* The step of handleConnect that reads the datagram.
HandleConnectDoes(s) ==
    \E p \in Server :
       /\ main[s] # "down" /\ pc[s]["udp"] = "wait"
       /\ datagrams[s][p] > 0 /\ DatagramsAt(s, p, datagrams[s][p] - 1)
       /\ \/ UNCHANGED <<pc, target>>
          \/ /\ p # s /\ PcAt(s, "udp", "open")
             /\ target' = [target EXCEPT ![s] = p]
       /\ UNCHANGED <<main, cur, victim, clients, reader, peers, view, tcp, bounds, faults>>

\* The code of HandleConnect does what the operator above says.
LEMMA HandleConnectEffect ==
    ASSUME Typed, NEW s \in Server, HandleConnect(s)
    PROVE  HandleConnectDoes(s)
<1>1. PICK p \in Server :
         /\ ReceiveFrom(s, p)
         /\ \/ UNCHANGED <<pc, target>>
            \/ p # s /\ GoTo(s, "udp", "open") /\ target' = [target EXCEPT ![s] = p]
  BY DEF HandleConnect
<1>2. datagrams[s][p] \in 0 .. MaxAnnounce /\ datagrams[s][p] > 0
  BY <1>1 DEF Typed, TypeOK, ReceiveFrom
<1>3. datagrams[s][p] - 1 \in 0 .. MaxAnnounce
  BY <1>2, ConstantsOK DEF ConstantsOK
<1>4. datagrams' = [datagrams EXCEPT ![s][p] = datagrams[s][p] - 1]
  BY <1>1 DEF ReceiveFrom, Typed, TypeOK
<1>5. DatagramsAt(s, p, datagrams[s][p] - 1)
  BY <1>3, <1>4, DatagramsPut DEF Typed
<1>6. GoTo(s, "udp", "open") => PcAt(s, "udp", "open")
  BY PcPut DEF Typed, Labels, Role
<1> QED BY <1>1, <1>2, <1>5, <1>6 DEF HandleConnect, At, HandleConnectDoes

\* connect(): a new connection, or none.
OpenSocketDoes(s) ==
    /\ main[s] # "down" /\ pc[s]["udp"] = "open" /\ cur[s]["udp"] = None
    /\ target[s] \in Server \ {s} /\ target' = [target EXCEPT ![s] = None]
    /\ UNCHANGED <<main, clients, reader, peers, view, datagrams, mail, announced, faults>>
    /\ failed' \in 0 .. MaxFailures /\ disturbed' \subseteq SUBSET Server
    /\ \/ /\ UNCHANGED disturbed
          /\ \E k \in Conn :
                /\ from[k] = None /\ main[target[s]] # "down"
                /\ from' = [from EXCEPT ![k] = s]
                /\ to' = [to EXCEPT ![k] = target[s]]
                /\ open' = [open EXCEPT ![k] = {s, target[s]}]
                /\ backlog' = [backlog EXCEPT ![target[s]] = Append(@, k)]
                /\ CurAt(s, "udp", k) /\ PcAt(s, "udp", "send")
                /\ NewDescriptor(s, "udp", k)
       \/ /\ \/ disturbed' = disturbed
             \/ main[target[s]] # "down" /\ disturbed' = disturbed \cup {{s, target[s]}}
          /\ PcAt(s, "udp", "wait")
          /\ UNCHANGED <<from, to, open, backlog, cur, victim>>

\* The code of OpenSocket does what the operator above says.
LEMMA OpenSocketEffect ==
    ASSUME Typed, NEW s \in Server, OpenSocket(s)
    PROVE  OpenSocketDoes(s)
<1>1. /\ main[s] # "down" /\ pc[s]["udp"] = "open" /\ cur[s]["udp"] = None
      /\ target[s] \in Server \ {s}
  BY DEF OpenSocket, At, Typed, TypeOK, Shape, Labelled, Role
<1>5. /\ target' = [target EXCEPT ![s] = None]
      /\ UNCHANGED <<main, clients, reader, peers, view, datagrams, mail, announced, faults>>
  BY DEF OpenSocket
<1>2. CASE /\ \E k \in Fresh :
                 /\ from' = [from EXCEPT ![k] = s]
                 /\ to' = [to EXCEPT ![k] = target[s]]
                 /\ open' = [open EXCEPT ![k] = {s, target[s]}]
                 /\ backlog' = [backlog EXCEPT ![target[s]] = Append(@, k)]
                 /\ cur' = [cur EXCEPT ![s]["udp"] = k]
                 /\ NewDescriptor(s, "udp", k)
           /\ Listening(target[s]) /\ GoTo(s, "udp", "send") /\ DisturbNothing
  <2>1. PICK k \in Conn :
           /\ from[k] = None
           /\ from' = [from EXCEPT ![k] = s]
           /\ to' = [to EXCEPT ![k] = target[s]]
           /\ open' = [open EXCEPT ![k] = {s, target[s]}]
           /\ backlog' = [backlog EXCEPT ![target[s]] = Append(@, k)]
           /\ cur' = [cur EXCEPT ![s]["udp"] = k]
           /\ NewDescriptor(s, "udp", k)
    BY <1>2 DEF Fresh
  <2>2. CurAt(s, "udp", k)
    BY <2>1, CurPut DEF Typed, Role
  <2>3. PcAt(s, "udp", "send")
    BY <1>2, PcPut DEF Typed, Role, Labels
  <2>4. failed' \in 0 .. MaxFailures /\ disturbed' \subseteq SUBSET Server /\ UNCHANGED disturbed
    BY <1>2 DEF DisturbNothing, Typed, TypeOK
  <2> QED BY <1>1, <1>2, <1>5, <2>1, <2>2, <2>3, <2>4 DEF Listening, OpenSocketDoes
<1>3. CASE /\ \/ ~Listening(target[s]) /\ DisturbNothing
              \/ Listening(target[s]) /\ Disturb(s, {target[s]})
           /\ GoTo(s, "udp", "wait") /\ UNCHANGED <<from, to, open, backlog, cur, victim>>
  <2>1. PcAt(s, "udp", "wait")
    BY <1>3, PcPut DEF Typed, Role, Labels
  <2>2. /\ failed' \in 0 .. MaxFailures /\ disturbed' \subseteq SUBSET Server
        /\ \/ disturbed' = disturbed
           \/ main[target[s]] # "down" /\ disturbed' = disturbed \cup {{s, target[s]}}
    <3>1. CASE DisturbNothing
      BY <3>1 DEF DisturbNothing, Typed, TypeOK
    <3>2. CASE Listening(target[s]) /\ Disturb(s, {target[s]})
      <4>1. failed' \in 0 .. MaxFailures /\ disturbed' \subseteq SUBSET Server
        <5>1. {target[s]} \in SUBSET Server
          BY <1>1
        <5> QED BY <3>2, <5>1, DisturbTyped
      <4>2. {{s, p} : p \in {target[s]}} = {{s, target[s]}}
        OBVIOUS
      <4> QED BY <3>2, <4>1, <4>2 DEF Disturb, Listening
    <3> QED BY <1>3, <3>1, <3>2
  <2> QED BY <1>1, <1>3, <1>5, <2>1, <2>2 DEF OpenSocketDoes
<1>4. \/ /\ \E k \in Fresh :
                /\ from' = [from EXCEPT ![k] = s]
                /\ to' = [to EXCEPT ![k] = target[s]]
                /\ open' = [open EXCEPT ![k] = {s, target[s]}]
                /\ backlog' = [backlog EXCEPT ![target[s]] = Append(@, k)]
                /\ cur' = [cur EXCEPT ![s]["udp"] = k]
                /\ NewDescriptor(s, "udp", k)
          /\ Listening(target[s]) /\ GoTo(s, "udp", "send") /\ DisturbNothing
      \/ /\ \/ ~Listening(target[s]) /\ DisturbNothing
            \/ Listening(target[s]) /\ Disturb(s, {target[s]})
         /\ GoTo(s, "udp", "wait") /\ UNCHANGED <<from, to, open, backlog, cur, victim>>
  BY Zenon DEF OpenSocket
<1> QED BY <1>2, <1>3, <1>4

\* A message that is sent, if it is, arrives at a connection that has two ends.
Posted(k, m) == mail' = IF OpenAtBothEnds(k) THEN [mail EXCEPT ![k] = @ \cup {m}] ELSE mail
Taken(k, m) == m \in mail[k] /\ mail' = [mail EXCEPT ![k] = @ \ {m}]

\* connectAck is sent, or the handler fails.
SendAckDoes(s) ==
    /\ main[s] # "down" /\ pc[s]["udp"] = "send"
    /\ UNCHANGED <<main, cur, target, victim, clients, reader, peers, view, datagrams,
                   from, to, open, backlog, faults>>
    /\ \/ Posted(cur[s]["udp"], "ack") /\ PcAt(s, "udp", "await") /\ UNCHANGED bounds
       \/ /\ Fails(cur[s]["udp"]) /\ PcAt(s, "udp", "close")
          /\ mail' = mail \/ Posted(cur[s]["udp"], "ack")

\* The code of SendAck does what the operator above says.
LEMMA SendAckEffect ==
    ASSUME Typed, NEW s \in Server, SendAck(s)
    PROVE  SendAckDoes(s)
<1>1. /\ GoTo(s, "udp", "await") => PcAt(s, "udp", "await")
      /\ GoTo(s, "udp", "close") => PcAt(s, "udp", "close")
  BY PcPut DEF Typed, Role, Labels
<1>2. cur[s]["udp"] \in Conn
  BY Current DEF Role, SendAck, At
<1>3. SendFails(s, "udp", "ack") /\ UNCHANGED announced =>
         Fails(cur[s]["udp"]) /\ (mail' = mail \/ Posted(cur[s]["udp"], "ack"))
  BY <1>2, FailsEffect DEF SendFails, Posted
<1>4. Send(s, "udp", "ack") /\ UNCHANGED announced =>
         Posted(cur[s]["udp"], "ack") /\ UNCHANGED bounds
  BY DEF Send, Posted, DisturbNothing, bounds
<1> QED BY <1>1, <1>3, <1>4 DEF SendAck, At, SendAckDoes

\* The response arrives, or the receive fails.
AwaitResponseDoes(s) ==
    /\ main[s] # "down" /\ pc[s]["udp"] = "await"
    /\ UNCHANGED <<main, cur, target, victim, clients, reader, peers, view, datagrams,
                   from, to, open, backlog, faults>>
    /\ \/ Taken(cur[s]["udp"], "response") /\ PcAt(s, "udp", "add") /\ UNCHANGED bounds
       \/ Fails(cur[s]["udp"]) /\ mail' = mail /\ PcAt(s, "udp", "close")

\* The code of AwaitResponse does what the operator above says.
LEMMA AwaitResponseEffect ==
    ASSUME Typed, NEW s \in Server, AwaitResponse(s)
    PROVE  AwaitResponseDoes(s)
<1>1. /\ GoTo(s, "udp", "add") => PcAt(s, "udp", "add")
      /\ GoTo(s, "udp", "close") => PcAt(s, "udp", "close")
  BY PcPut DEF Typed, Role, Labels
<1>2. cur[s]["udp"] \in Conn
  BY Current DEF Role, AwaitResponse, At
<1>3. ReceiveFails(cur[s]["udp"]) /\ UNCHANGED announced => Fails(cur[s]["udp"])
  BY <1>2, FailsEffect DEF ReceiveFails
<1>4. Receive(cur[s]["udp"], "response") /\ UNCHANGED announced =>
         Taken(cur[s]["udp"], "response") /\ UNCHANGED bounds
  BY DEF Receive, Taken, DisturbNothing, bounds
<1> QED BY <1>1, <1>3, <1>4 DEF AwaitResponse, At, AwaitResponseDoes

\* accept() takes the head of the backlog.
AcceptDoes(s) ==
    /\ main[s] # "down" /\ pc[s]["tcp"] = "wait"
    /\ backlog[s] # <<>> /\ Head(backlog[s]) \in Conn
    /\ backlog' = [backlog EXCEPT ![s] = Tail(@)]
    /\ backlog' \in [Server -> Seq(Conn)]
    /\ \A i \in DOMAIN backlog'[s] :
          i + 1 \in DOMAIN backlog[s] /\ backlog'[s][i] = backlog[s][i + 1]
    /\ \A i \in DOMAIN backlog[s] : i = 1 \/
          (i - 1 \in DOMAIN backlog'[s] /\ backlog'[s][i - 1] = backlog[s][i])
    /\ \A t \in Server : t # s => backlog'[t] = backlog[t]
    /\ 1 \in DOMAIN backlog[s] /\ Head(backlog[s]) = backlog[s][1]
    /\ CurAt(s, "tcp", Head(backlog[s])) /\ PcAt(s, "tcp", "read")
    /\ NewDescriptor(s, "tcp", Head(backlog[s]))
    /\ UNCHANGED <<main, target, clients, reader, peers, view, datagrams, from, to, open,
                   mail, bounds, faults>>

\* The code of Accept does what the operator above says.
LEMMA AcceptEffect ==
    ASSUME Typed, NEW s \in Server, Accept(s)
    PROVE  AcceptDoes(s)
<1>1. /\ main[s] # "down" /\ pc[s]["tcp"] = "wait" /\ backlog[s] # <<>>
      /\ backlog' = [backlog EXCEPT ![s] = Tail(@)]
      /\ cur' = [cur EXCEPT ![s]["tcp"] = Head(backlog[s])]
      /\ GoTo(s, "tcp", "read") /\ NewDescriptor(s, "tcp", Head(backlog[s]))
      /\ UNCHANGED <<main, target, clients, reader, peers, view, datagrams, from, to, open,
                     mail, bounds, faults>>
  BY DEF Accept, At
<1>2. backlog[s] \in Seq(Conn) /\ backlog \in [Server -> Seq(Conn)]
  BY DEF Typed, TypeOK
<1>3. /\ 1 \in DOMAIN backlog[s] /\ Head(backlog[s]) = backlog[s][1]
      /\ Head(backlog[s]) \in Conn
      /\ Tail(backlog[s]) \in Seq(Conn)
      /\ \A i \in DOMAIN Tail(backlog[s]) :
            i + 1 \in DOMAIN backlog[s] /\ Tail(backlog[s])[i] = backlog[s][i + 1]
      /\ \A i \in DOMAIN backlog[s] : i = 1 \/
            (i - 1 \in DOMAIN Tail(backlog[s]) /\ Tail(backlog[s])[i - 1] = backlog[s][i])
  BY <1>1, <1>2
<1>4. backlog' \in [Server -> Seq(Conn)] /\ backlog'[s] = Tail(backlog[s])
  BY <1>1, <1>2, <1>3
<1>5. CurAt(s, "tcp", Head(backlog[s]))
  BY <1>1, <1>3, CurPut DEF Typed, Role
<1>6. PcAt(s, "tcp", "read")
  BY <1>1, PcPut DEF Typed, Role, Labels
<1>7. \A t \in Server : t # s => backlog'[t] = backlog[t]
  BY <1>1, <1>2
<1> QED BY <1>1, <1>3, <1>4, <1>5, <1>6, <1>7 DEF AcceptDoes

\* One end is closed, and nothing else.
Closed(s, k) ==
    /\ open' \in [Conn -> SUBSET Server]
    /\ open'[k] = open[k] \ {s}
    /\ \A l \in Conn : l # k => open'[l] = open[l]

\* A request is given up: its descriptor is closed.
GiveUpDoes(s) ==
    /\ CurAt(s, "tcp", None) /\ PcAt(s, "tcp", "wait")
    /\ Closed(s, cur[s]["tcp"])

\* The code of GiveUp does what the operator above says.
LEMMA GiveUpEffect ==
    ASSUME Typed, NEW s \in Server, GiveUp(s), cur[s]["tcp"] \in Conn
    PROVE  GiveUpDoes(s)
<1>1. CurAt(s, "tcp", None)
  BY CurPut DEF GiveUp, Typed, Role
<1>2. PcAt(s, "tcp", "wait")
  BY PcPut DEF GiveUp, Typed, Role, Labels
<1> QED BY <1>1, <1>2 DEF GiveUp, CloseEnd, Closed, Typed, TypeOK, GiveUpDoes

\* The connectAck request is read, or the receive fails.
ReadAckDoes(s) ==
    /\ main[s] # "down" /\ pc[s]["tcp"] = "read"
    /\ UNCHANGED <<main, target, victim, clients, reader, peers, view, datagrams,
                   from, to, backlog, faults>>
    /\ \/ /\ Taken(cur[s]["tcp"], "ack") /\ PcAt(s, "tcp", "reply")
          /\ UNCHANGED <<cur, open, bounds>>
       \/ /\ Fails(cur[s]["tcp"]) /\ mail' = mail
          /\ CurAt(s, "tcp", None) /\ PcAt(s, "tcp", "wait") /\ Closed(s, cur[s]["tcp"])

\* The code of ReadAck does what the operator above says.
LEMMA ReadAckEffect ==
    ASSUME Typed, NEW s \in Server, ReadAck(s)
    PROVE  ReadAckDoes(s)
<1>1. GoTo(s, "tcp", "reply") => PcAt(s, "tcp", "reply")
  BY PcPut DEF Typed, Role, Labels
<1>2. cur[s]["tcp"] \in Conn
  BY Current DEF Role, ReadAck, At
<1>3. ReceiveFails(cur[s]["tcp"]) /\ UNCHANGED announced => Fails(cur[s]["tcp"])
  BY <1>2, FailsEffect DEF ReceiveFails
<1>4. Receive(cur[s]["tcp"], "ack") /\ UNCHANGED announced =>
         Taken(cur[s]["tcp"], "ack") /\ UNCHANGED bounds
  BY DEF Receive, Taken, DisturbNothing, bounds
<1> QED BY <1>1, <1>2, <1>3, <1>4, GiveUpEffect DEF ReadAck, At, GiveUpDoes, ReadAckDoes

\* The response is sent, or the request is given up.
ReplyDoes(s) ==
    /\ main[s] # "down" /\ pc[s]["tcp"] = "reply"
    /\ UNCHANGED <<main, target, victim, clients, reader, peers, view, datagrams,
                   from, to, backlog, faults>>
    /\ \/ /\ Posted(cur[s]["tcp"], "response") /\ PcAt(s, "tcp", "add")
          /\ UNCHANGED <<cur, open, bounds>>
       \/ /\ Fails(cur[s]["tcp"])
          /\ mail' = mail \/ Posted(cur[s]["tcp"], "response")
          /\ CurAt(s, "tcp", None) /\ PcAt(s, "tcp", "wait") /\ Closed(s, cur[s]["tcp"])

\* The code of Reply does what the operator above says.
LEMMA ReplyEffect ==
    ASSUME Typed, NEW s \in Server, Reply(s)
    PROVE  ReplyDoes(s)
<1>1. GoTo(s, "tcp", "add") => PcAt(s, "tcp", "add")
  BY PcPut DEF Typed, Role, Labels
<1>2. cur[s]["tcp"] \in Conn
  BY Current DEF Role, Reply, At
<1>3. SendFails(s, "tcp", "response") /\ UNCHANGED announced =>
         Fails(cur[s]["tcp"]) /\ (mail' = mail \/ Posted(cur[s]["tcp"], "response"))
  BY <1>2, FailsEffect DEF SendFails, Posted
<1>4. Send(s, "tcp", "response") /\ UNCHANGED announced =>
         Posted(cur[s]["tcp"], "response") /\ UNCHANGED bounds
  BY DEF Send, Posted, DisturbNothing, bounds
<1> QED BY <1>1, <1>2, <1>3, <1>4, GiveUpEffect DEF Reply, At, GiveUpDoes, ReplyDoes

\* The thread that inserts goes on; the other one may be left with a bad iterator.
InsertedAt(s, r) ==
    /\ pc' \in [Server -> [Role -> Labels]]
    /\ pc'[s][r] = "run"
    /\ \A t \in Server, q \in Role : t # s \/ q # r =>
          pc'[t][q] = pc[t][q] \/ (t = s /\ pc[t][q] = "use" /\ pc'[t][q] = "stale")

\* The code of an insertion does what the operator above says.
LEMMA InsertedEffect ==
    ASSUME Typed, NEW s \in Server, NEW r \in Role, Inserted(s, r)
    PROVE  InsertedAt(s, r)
<1>1. CASE GoTo(s, r, "run")
  <2>1. PcAt(s, r, "run")
    BY <1>1, PcPut DEF Typed, Labels
  <2> QED BY <2>1 DEF PcAt, InsertedAt
<1>2. CASE /\ pc[s][OtherRole(r)] = "use"
           /\ pc' = [pc EXCEPT ![s] = [x \in Role |-> IF x = r THEN "run" ELSE "stale"]]
  <2>1. pc \in [Server -> [Role -> Labels]]
    BY DEF Typed, TypeOK
  <2>2. /\ pc'[s] = [x \in Role |-> IF x = r THEN "run" ELSE "stale"]
        /\ \A t \in Server : t # s => pc'[t] = pc[t]
        /\ pc' \in [Server -> [Role -> Labels]]
    BY <1>2, <2>1 DEF Labels
  <2>3. \A q \in Role : q # r => q = OtherRole(r)
    BY DEF Role, OtherRole
  <2> QED BY <1>2, <2>2, <2>3 DEF InsertedAt
<1> QED BY <1>1, <1>2 DEF Inserted

\* Connector::addClient: inserted, refused, or the null is dereferenced.
AddClientDoes(s, r) ==
    LET k == cur[s][r]
        p == PeerOn(s, k)
    IN
    /\ main[s] # "down" /\ pc[s][r] = "add"
    /\ UNCHANGED <<announced, failed>>
    /\ \/ /\ clients[s][p] = None /\ ClientsAt(s, p, k) /\ InsertedAt(s, r)
          /\ UNCHANGED <<main, cur, target, victim, reader, peers, view, datagrams, tcp,
                         disturbed, faults>>
       \/ /\ clients[s][p] # None /\ PcAt(s, r, "close")
          /\ UNCHANGED <<main, cur, target, victim, clients, reader, peers, view, datagrams,
                         tcp, disturbed, faults>>
       \/ /\ clients[s][p] # None /\ r = "udp" /\ Die(s)
          /\ faults' = faults \cup {"null"}

\* The code of AddClient does what the operator above says.
LEMMA AddClientEffect ==
    ASSUME Typed, NEW s \in Server, NEW r \in Role, AddClient(s, r)
    PROVE  AddClientDoes(s, r)
<1> DEFINE k == cur[s][r]
           p == PeerOn(s, k)
<1>1. main[s] # "down" /\ pc[s][r] = "add"
  BY DEF AddClient, At
<1>2. k \in Conn /\ p \in Server
  BY <1>1, Current
<1>3. clients' = [clients EXCEPT ![s][p] = k] => ClientsAt(s, p, k)
  BY <1>2, ClientsPut DEF Typed
<1>4. /\ Inserted(s, r) => InsertedAt(s, r)
      /\ GoTo(s, r, "close") => PcAt(s, r, "close")
  BY PcPut, InsertedEffect DEF Typed, Labels
<1> QED BY <1>1, <1>3, <1>4 DEF AddClient, AddClientDoes, bounds

\* Connector::runClient finds an entry ...
RunClientDoes(s, r) ==
    /\ main[s] # "down" /\ pc[s][r] = "run" /\ PcAt(s, r, "use")
    /\ UNCHANGED <<main, cur, target, victim, clients, reader, peers, view, datagrams, tcp,
                   bounds, faults>>

\* The code of RunClient does what the operator above says.
LEMMA RunClientEffect ==
    ASSUME Typed, NEW s \in Server, NEW r \in Role, RunClient(s, r)
    PROVE  RunClientDoes(s, r)
<1>1. PcAt(s, r, "use")
  BY PcPut DEF Typed, Labels, RunClient
<1> QED BY <1>1 DEF RunClient, At, RunClientDoes

\* ... and starts a reader on it.
UseClientDoes(s, r) ==
    LET k == clients[s][PeerOn(s, cur[s][r])] IN
    /\ main[s] # "down" /\ pc[s][r] \in {"use", "stale"}
    /\ k # None /\ k \in Conn /\ EndOf(s, k)
    /\ ReaderAt(s, k, "recv") /\ PcAt(s, r, "callback")
    /\ UNCHANGED <<main, cur, target, victim, clients, peers, view, datagrams, tcp,
                   bounds, faults>>

\* The code of UseClient does what the operator above says.
LEMMA UseClientEffect ==
    ASSUME Typed, NEW s \in Server, NEW r \in Role, UseClient(s, r)
    PROVE  UseClientDoes(s, r)
<1> DEFINE p == PeerOn(s, cur[s][r])
           k == clients[s][p]
<1>1. main[s] # "down" /\ pc[s][r] \in {"use", "stale"} /\ k # None
  BY DEF UseClient, At
<1>2. p \in Server
  BY <1>1, Current
<1>3. k \in Conn /\ EndOf(s, k)
  BY <1>1, <1>2 DEF Typed, TypeOK, Shape, Related, Entries
<1>4. ReaderAt(s, k, "recv")
  BY <1>3, ReaderPut DEF Typed, UseClient
<1>5. PcAt(s, r, "callback")
  BY PcPut DEF Typed, Labels, UseClient
<1> QED BY <1>1, <1>3, <1>4, <1>5 DEF UseClient, UseClientDoes

\* The connect callback ends the handler.
ConnectCallbackDoes(s, r) ==
    /\ main[s] # "down" /\ pc[s][r] = "callback"
    /\ PeerOn(s, cur[s][r]) \in Server
    /\ view' = [view EXCEPT ![s] = @ \cup {PeerOn(s, cur[s][r])}]
    /\ CurAt(s, r, None) /\ PcAt(s, r, "wait")
    /\ UNCHANGED <<main, target, victim, clients, reader, peers, datagrams, tcp, bounds, faults>>

\* The code of ConnectCallback does what the operator above says.
LEMMA ConnectCallbackEffect ==
    ASSUME Typed, NEW s \in Server, NEW r \in Role, ConnectCallback(s, r)
    PROVE  ConnectCallbackDoes(s, r)
<1>1. CurAt(s, r, None)
  BY CurPut DEF Typed, ConnectCallback
<1>2. PcAt(s, r, "wait")
  BY PcPut DEF Typed, Labels, ConnectCallback
<1>3. PeerOn(s, cur[s][r]) \in Server
  BY Current DEF ConnectCallback, At
<1> QED BY <1>1, <1>2, <1>3 DEF ConnectCallback, At, ConnectCallbackDoes

\* The first close() of a failed handler.
CloseDoes(s, r) ==
    /\ main[s] # "down" /\ pc[s][r] = "close"
    /\ Closed(s, cur[s][r]) /\ PcAt(s, r, "reclose")
    /\ UNCHANGED <<main, cur, target, victim, clients, reader, peers, view, datagrams,
                   from, to, mail, backlog, bounds, faults>>

\* The code of Close does what the operator above says.
LEMMA CloseEffect ==
    ASSUME Typed, NEW s \in Server, NEW r \in Role, Close(s, r)
    PROVE  CloseDoes(s, r)
<1>1. PcAt(s, r, "reclose")
  BY PcPut DEF Typed, Labels, Close
<1>2. cur[s][r] \in Conn
  BY Current DEF Close, At
<1> QED BY <1>1, <1>2 DEF Close, At, CloseEnd, Closed, Typed, TypeOK, CloseDoes

\* The second close() of the same number.
CloseAgainDoes(s, r) ==
    /\ main[s] # "down" /\ pc[s][r] = "reclose"
    /\ VictimAt(s, r, None) /\ CurAt(s, r, None) /\ PcAt(s, r, "wait")
    /\ \/ /\ victim[s][r] \in Conn /\ victim[s][r] # None
          /\ Closed(s, victim[s][r]) /\ faults' = faults \cup {"stray"}
       \/ UNCHANGED <<open, faults>>
    /\ UNCHANGED <<main, target, clients, reader, peers, view, datagrams,
                   from, to, mail, backlog, bounds>>

\* The code of CloseAgain does what the operator above says.
LEMMA CloseAgainEffect ==
    ASSUME Typed, NEW s \in Server, NEW r \in Role, CloseAgain(s, r)
    PROVE  CloseAgainDoes(s, r)
<1>1. PcAt(s, r, "wait")
  BY PcPut DEF Typed, Labels, CloseAgain
<1>2. CurAt(s, r, None) /\ VictimAt(s, r, None)
  BY CurPut, VictimPut DEF Typed, CloseAgain
<1>3. victim[s][r] # None => victim[s][r] \in Conn
  BY DEF Typed, TypeOK
<1>4. HitsOther(s, r) /\ CloseEnd(s, victim[s][r]) => Closed(s, victim[s][r])
  BY <1>3 DEF CloseEnd, Closed, HitsOther, Typed, TypeOK
<1>5. main[s] # "down" /\ pc[s][r] = "reclose"
  BY DEF CloseAgain, At
<1> QED BY <1>1, <1>2, <1>3, <1>4, <1>5 DEF CloseAgain, HitsOther, CloseAgainDoes

\* A reader notices the end of its connection.
ReaderFailsDoes(s, k) ==
    /\ main[s] # "down" /\ reader[s][k] = "recv" /\ Fails(k)
    /\ Closed(s, k) /\ ReaderAt(s, k, "erase")
    /\ UNCHANGED <<main, pc, cur, target, victim, clients, peers, view, datagrams,
                   from, to, mail, backlog, faults>>

\* The code of ReaderFails does what the operator above says.
LEMMA ReaderFailsEffect ==
    ASSUME Typed, NEW s \in Server, NEW k \in Conn, ReaderFails(s, k)
    PROVE  ReaderFailsDoes(s, k)
<1>1. ReaderAt(s, k, "erase")
  BY ReaderPut DEF Typed, ReaderFails
<1>2. Fails(k)
  BY FailsEffect DEF ReaderFails, ReceiveFails
<1> QED BY <1>1, <1>2 DEF ReaderFails, CloseEnd, Closed, Typed, TypeOK, ReaderFailsDoes

\* A reader erases the entry of the address.
EraseClientDoes(s, k) ==
    /\ main[s] # "down" /\ reader[s][k] = "erase" /\ PeerOn(s, k) \in Server
    /\ ClientsAt(s, PeerOn(s, k), None) /\ ReaderAt(s, k, "notify")
    /\ UNCHANGED <<main, pc, cur, target, victim, peers, view, datagrams, tcp, bounds, faults>>

\* The code of EraseClient does what the operator above says.
LEMMA EraseClientEffect ==
    ASSUME Typed, NEW s \in Server, NEW k \in Conn, EraseClient(s, k)
    PROVE  EraseClientDoes(s, k)
<1>1. ReaderAt(s, k, "notify")
  BY ReaderPut DEF Typed, EraseClient
<1>2. PeerOn(s, k) \in Server
  BY DEF EraseClient, Typed, TypeOK, Shape, Related, Ends, Readers, EndOf, Made, PeerOn
<1>3. ClientsAt(s, PeerOn(s, k), None)
  BY <1>2, ClientsPut DEF Typed, EraseClient
<1> QED BY <1>1, <1>2, <1>3 DEF EraseClient, EraseClientDoes

\* A reader reports the disconnection and ends.
DisconnectCallbackDoes(s, k) ==
    /\ main[s] # "down" /\ reader[s][k] = "notify" /\ PeerOn(s, k) \in Server
    /\ ReaderAt(s, k, "none")
    /\ peers' = [peers EXCEPT ![s] = @ \ {PeerOn(s, k)}]
    /\ view' = [view EXCEPT ![s] = @ \ {PeerOn(s, k)}]
    /\ UNCHANGED <<main, pc, cur, target, victim, clients, datagrams, tcp, bounds, faults>>

\* The code of DisconnectCallback does what the operator above says.
LEMMA DisconnectCallbackEffect ==
    ASSUME Typed, NEW s \in Server, NEW k \in Conn, DisconnectCallback(s, k)
    PROVE  DisconnectCallbackDoes(s, k)
<1>1. ReaderAt(s, k, "none")
  BY ReaderPut DEF Typed, DisconnectCallback
<1>2. PeerOn(s, k) \in Server
  BY DEF DisconnectCallback, Typed, TypeOK, Shape, Related, Ends, Readers, EndOf, Made, PeerOn
<1> QED BY <1>1, <1>2 DEF DisconnectCallback, DisconnectCallbackDoes

-----------------------------------------------------------------------------
(* Each action preserves the types and the shape.                          *)

\* Only the thread that takes the step changes its label and its connection.
LEMMA LabelledStep ==
    ASSUME Labelled, NEW s \in Server, NEW r \in Role, NEW l, NEW x, PcAt(s, r, l), CurAt(s, r, x),
           IF r = "udp" THEN l \in UdpLabels ELSE l \in TcpLabels,
           x = None <=> l \in {"wait", "open"},
           \A t \in Server : t # s => target'[t] = target[t],
           target'[s] # s, target'[s] = None <=> pc'[s]["udp"] # "open"
    PROVE  Labelled'
<1>1. "udp" \in Role /\ "tcp" \in Role /\ "udp" # "tcp"
  BY DEF Role
<1>2. ASSUME NEW t \in Server
      PROVE  pc'[t]["udp"] \in UdpLabels /\ pc'[t]["tcp"] \in TcpLabels
  <2>1. \A q \in Role : t # s \/ q # r => pc'[t][q] = pc[t][q]
    BY DEF PcAt
  <2>2. pc'[s][r] = l /\ (r = "udp" \/ r = "tcp")
    BY DEF PcAt, Role
  <2>3. pc[t]["udp"] \in UdpLabels /\ pc[t]["tcp"] \in TcpLabels
    BY DEF Labelled
  <2> QED BY <1>1, <2>1, <2>2, <2>3
<1>3. ASSUME NEW t \in Server, NEW q \in Role
      PROVE  cur'[t][q] = None <=> pc'[t][q] \in {"wait", "open"}
  <2>1. CASE t = s /\ q = r
    <3>1. cur'[s][r] = x /\ pc'[s][r] = l
      BY DEF PcAt, CurAt
    <3> QED BY <2>1, <3>1
  <2>2. CASE t # s \/ q # r
    <3>1. cur'[t][q] = cur[t][q] /\ pc'[t][q] = pc[t][q]
      BY <2>2 DEF PcAt, CurAt
    <3> QED BY <3>1 DEF Labelled
  <2> QED BY <2>1, <2>2
<1>4. ASSUME NEW t \in Server
      PROVE  (target'[t] = None <=> pc'[t]["udp"] # "open") /\ target'[t] # t
  <2>1. t # s => pc'[t]["udp"] = pc[t]["udp"]
    BY <1>1 DEF PcAt
  <2> QED BY <2>1 DEF Labelled
<1> QED BY <1>2, <1>3, <1>4 DEF Labelled

\* The same when the thread keeps its connection.
LEMMA SameCur ==
    ASSUME TypeOK, UNCHANGED cur, NEW s \in Server, NEW r \in Role
    PROVE  CurAt(s, r, cur[s][r])
BY DEF TypeOK, CurAt

\* A thread works on a connection that has it at the right end.
LEMMA CurrentsStep ==
    ASSUME Currents, UNCHANGED <<from, to>>, NEW s \in Server, NEW r \in Role, NEW x, CurAt(s, r, x),
           x = None \/ (IF r = "udp" THEN from[x] = s ELSE to[x] = s)
    PROVE  Currents'
<1>1. "udp" \in Role /\ "tcp" \in Role /\ "udp" # "tcp"
  BY DEF Role
<1>2. ASSUME NEW t \in Server
      PROVE  cur'[t]["udp"] # None => from[cur'[t]["udp"]] = t
  BY <1>1 DEF Currents, CurAt
<1>3. ASSUME NEW t \in Server
      PROVE  cur'[t]["tcp"] # None => to[cur'[t]["tcp"]] = t
  <2>1. r = "tcp" \/ r = "udp"
    BY DEF Role
  <2> QED BY <1>1, <2>1 DEF Currents, CurAt
<1> QED BY <1>2, <1>3 DEF Currents

\* Nothing starts at a server that is down.
LEMMA GoneStep ==
    ASSUME Gone, UNCHANGED main, NEW s \in Server, main[s] # "down",
           \A t \in Server : main[t] = "down" =>
              /\ \A r \in Role : pc'[t][r] = pc[t][r]
              /\ \A p \in Server : clients'[t][p] = clients[t][p] /\ datagrams'[t][p] = datagrams[t][p]
              /\ \A k \in Conn : reader'[t][k] = reader[t][k] /\ (t \in open'[k] => t \in open[k])
              /\ backlog'[t] = backlog[t]
    PROVE  Gone'
BY DEF Gone

\* A handshake message that is sent or taken.
LEMMA MailTyped ==
    ASSUME TypeOK, NEW k \in Conn, NEW m \in {"ack", "response"},
           Posted(k, m) \/ Taken(k, m) \/ mail' = mail
    PROVE  /\ mail' \in [Conn -> SUBSET {"ack", "response"}]
           /\ \A l \in Conn : l # k => mail'[l] = mail[l]
<1>1. mail \in [Conn -> SUBSET {"ack", "response"}]
  BY DEF TypeOK
<1>2. CASE mail' = [mail EXCEPT ![k] = @ \cup {m}]
  BY <1>1, <1>2
<1>3. CASE mail' = [mail EXCEPT ![k] = @ \ {m}]
  BY <1>1, <1>3
<1>4. CASE mail' = mail
  BY <1>1, <1>4
<1> QED BY <1>2, <1>3, <1>4 DEF Posted, Taken

\* The entries of the tables keep their connections when neither changes.
LEMMA SameEntries ==
    ASSUME Entries, UNCHANGED <<clients, from, to>>
    PROVE  Entries'
<1>1. \A s \in Server, k \in Conn \cup {None} :
         (EndOf(s, k) <=> EndOf(s, k)') /\ PeerOn(s, k)' = PeerOn(s, k)
  BY DEF EndOf, Made, PeerOn
<1>2. clients' = clients
  OBVIOUS
<1> QED BY <1>1, <1>2 DEF Entries, EndOf, Made, PeerOn

\* Start preserves the types and the shape.
LEMMA StartTyped ==
    ASSUME Typed, NEW s \in Server, Start(s)
    PROVE  Typed'
<1>0. StartDoes(s)
  BY StartEffect
<1>1. TypeOK'
  BY <1>0 DEF StartDoes, local, tcp, bounds, Typed, TypeOK
<1>2. Labelled'
  BY <1>0, ConstantsOK DEF StartDoes, ConstantsOK, local, Typed, Shape, Labelled, Role,
      Labels, UdpLabels, TcpLabels
<1>3. Ends'
  BY <1>0 DEF StartDoes, tcp, Typed, Shape, Related, Ends, EndOf, Made
<1>4. Currents'
  BY <1>0 DEF StartDoes, local, tcp, Typed, Shape, Related, Currents
<1>5. Queues'
  BY <1>0 DEF StartDoes, tcp, Typed, Shape, Related, Queues
<1>6. Readers'
  BY <1>0 DEF StartDoes, local, tcp, Typed, Shape, Related, Readers, EndOf, Made
<1>7. Entries'
  <2>1. UNCHANGED <<clients, from, to>>
    BY <1>0 DEF StartDoes, local, tcp
  <2> QED BY <2>1, SameEntries DEF Typed, Shape, Related
<1>8. Gone'
  BY <1>0 DEF StartDoes, local, tcp, Typed, Shape, Gone
<1>9. Counted'
  BY <1>0 DEF StartDoes, local, bounds, Typed, Shape, Counted
<1> QED BY <1>1, <1>2, <1>3, <1>4, <1>5, <1>6, <1>7, <1>8, <1>9 DEF Typed, Shape, Related

\* Announce preserves the types and the shape.
LEMMA AnnounceTyped ==
    ASSUME Typed, NEW s \in Server, Announce(s)
    PROVE  Typed'
<1>0. AnnounceDoes(s)
  BY AnnounceEffect
<1>1. TypeOK'
  BY <1>0 DEF AnnounceDoes, local, tcp, Typed, TypeOK
<1>2. Labelled'
  BY <1>0, ConstantsOK DEF AnnounceDoes, ConstantsOK, local, Typed, Shape, Labelled, Role,
      Labels, UdpLabels, TcpLabels
<1>3. Ends'
  BY <1>0 DEF AnnounceDoes, tcp, Typed, Shape, Related, Ends, EndOf, Made
<1>4. Currents'
  BY <1>0 DEF AnnounceDoes, local, tcp, Typed, Shape, Related, Currents
<1>5. Queues'
  BY <1>0 DEF AnnounceDoes, tcp, Typed, Shape, Related, Queues
<1>6. Readers'
  BY <1>0 DEF AnnounceDoes, local, tcp, Typed, Shape, Related, Readers, EndOf, Made
<1>7. Entries'
  <2>1. UNCHANGED <<clients, from, to>>
    BY <1>0 DEF AnnounceDoes, local, tcp
  <2> QED BY <2>1, SameEntries DEF Typed, Shape, Related
<1>8. Gone'
  <2>1. \A t \in Server : main'[t] = "down" => main[t] = "down"
    BY <1>0 DEF AnnounceDoes
  <2>2. \A t, p \in Server : main[t] = "down" => datagrams'[t][p] = datagrams[t][p]
    BY <1>0 DEF AnnounceDoes
  <2>3. UNCHANGED <<pc, clients, reader, open, backlog>>
    BY <1>0 DEF AnnounceDoes, local, tcp
  <2>4. \A t, p \in Server : main'[t] = "down" => datagrams'[t][p] = 0
    BY <2>1, <2>2 DEF Typed, Shape, Gone
  <2> QED BY <2>1, <2>3, <2>4 DEF Typed, Shape, Gone
<1>9. Counted'
  <2>1. ASSUME NEW t \in Server, NEW p \in Server
        PROVE  datagrams'[t][p] <= announced'
    <3>1. datagrams[t][p] \in Int /\ announced \in Int /\ datagrams[t][p] <= announced
      BY DEF Typed, TypeOK, Shape, Counted
    <3>2. announced' = announced + 1
          /\ (datagrams'[t][p] = datagrams[t][p] \/ datagrams'[t][p] = datagrams[t][p] + 1)
      BY <1>0 DEF AnnounceDoes
    <3> QED BY <3>1, <3>2
  <2> QED BY <2>1 DEF Counted
<1> QED BY <1>1, <1>2, <1>3, <1>4, <1>5, <1>6, <1>7, <1>8, <1>9 DEF Typed, Shape, Related

\* SendAck preserves the types and the shape.
LEMMA SendAckTyped ==
    ASSUME Typed, NEW s \in Server, SendAck(s)
    PROVE  Typed'
<1>0. SendAckDoes(s)
  BY SendAckEffect
<1>1. TypeOK'
  <2>1. cur[s]["udp"] \in Conn
    BY <1>0, Current DEF SendAckDoes, Role
  <2>2. mail' \in [Conn -> SUBSET {"ack", "response"}]
    BY <1>0, <2>1, MailTyped DEF SendAckDoes, Typed
  <2>3. announced' \in 0 .. MaxAnnounce /\ failed' \in 0 .. MaxFailures
        /\ disturbed' \subseteq SUBSET Server
    BY <1>0 DEF SendAckDoes, Fails, bounds, Typed, TypeOK
  <2> QED BY <1>0, <2>2, <2>3 DEF SendAckDoes, Typed, TypeOK, PcAt, CurAt, Closed
<1>2. Labelled'
  BY <1>0, ConstantsOK DEF SendAckDoes, ConstantsOK, Typed, Shape, Labelled, PcAt, Role,
      Labels, UdpLabels, TcpLabels
<1>3. Ends'
  BY <1>0 DEF SendAckDoes, Typed, Shape, Related, Ends, EndOf, Made
<1>4. Currents'
  BY <1>0 DEF SendAckDoes, Typed, Shape, Related, Currents
<1>5. Queues'
  BY <1>0 DEF SendAckDoes, Typed, Shape, Related, Queues
<1>6. Readers'
  BY <1>0 DEF SendAckDoes, Typed, Shape, Related, Readers, EndOf, Made
<1>7. Entries'
  <2>1. UNCHANGED <<clients, from, to>>
    BY <1>0 DEF SendAckDoes
  <2> QED BY <2>1, SameEntries DEF Typed, Shape, Related
<1>8. Gone'
  BY <1>0 DEF SendAckDoes, Typed, Shape, Gone, PcAt
<1>9. Counted'
  <2>1. announced' = announced /\ datagrams' = datagrams
    BY <1>0 DEF SendAckDoes, Fails, bounds
  <2> QED BY <2>1 DEF Typed, Shape, Counted
<1> QED BY <1>1, <1>2, <1>3, <1>4, <1>5, <1>6, <1>7, <1>8, <1>9 DEF Typed, Shape, Related

\* AwaitResponse preserves the types and the shape.
LEMMA AwaitResponseTyped ==
    ASSUME Typed, NEW s \in Server, AwaitResponse(s)
    PROVE  Typed'
<1>0. AwaitResponseDoes(s)
  BY AwaitResponseEffect
<1>1. TypeOK'
  <2>1. cur[s]["udp"] \in Conn
    BY <1>0, Current DEF AwaitResponseDoes, Role
  <2>2. mail' \in [Conn -> SUBSET {"ack", "response"}]
    BY <1>0, <2>1, MailTyped DEF AwaitResponseDoes, Typed
  <2>3. announced' \in 0 .. MaxAnnounce /\ failed' \in 0 .. MaxFailures
        /\ disturbed' \subseteq SUBSET Server
    BY <1>0 DEF AwaitResponseDoes, Fails, bounds, Typed, TypeOK
  <2> QED BY <1>0, <2>2, <2>3 DEF AwaitResponseDoes, Typed, TypeOK, PcAt, CurAt, Closed
<1>2. Labelled'
  BY <1>0, ConstantsOK DEF AwaitResponseDoes, ConstantsOK, Typed, Shape, Labelled, PcAt,
      Role, Labels, UdpLabels, TcpLabels
<1>3. Ends'
  BY <1>0 DEF AwaitResponseDoes, Typed, Shape, Related, Ends, EndOf, Made
<1>4. Currents'
  BY <1>0 DEF AwaitResponseDoes, Typed, Shape, Related, Currents
<1>5. Queues'
  BY <1>0 DEF AwaitResponseDoes, Typed, Shape, Related, Queues
<1>6. Readers'
  BY <1>0 DEF AwaitResponseDoes, Typed, Shape, Related, Readers, EndOf, Made
<1>7. Entries'
  <2>1. UNCHANGED <<clients, from, to>>
    BY <1>0 DEF AwaitResponseDoes
  <2> QED BY <2>1, SameEntries DEF Typed, Shape, Related
<1>8. Gone'
  BY <1>0 DEF AwaitResponseDoes, Typed, Shape, Gone, PcAt
<1>9. Counted'
  <2>1. announced' = announced /\ datagrams' = datagrams
    BY <1>0 DEF AwaitResponseDoes, Fails, bounds
  <2> QED BY <2>1 DEF Typed, Shape, Counted
<1> QED BY <1>1, <1>2, <1>3, <1>4, <1>5, <1>6, <1>7, <1>8, <1>9 DEF Typed, Shape, Related

\* ReadAck preserves the types and the shape.
LEMMA ReadAckTyped ==
    ASSUME Typed, NEW s \in Server, ReadAck(s)
    PROVE  Typed'
<1>0. ReadAckDoes(s)
  BY ReadAckEffect
<1>1. TypeOK'
  <2>1. cur[s]["tcp"] \in Conn
    BY <1>0, Current DEF ReadAckDoes, Role
  <2>2. mail' \in [Conn -> SUBSET {"ack", "response"}]
    BY <1>0, <2>1, MailTyped DEF ReadAckDoes, Typed
  <2>3. announced' \in 0 .. MaxAnnounce /\ failed' \in 0 .. MaxFailures
        /\ disturbed' \subseteq SUBSET Server
    BY <1>0 DEF ReadAckDoes, Fails, bounds, Typed, TypeOK
  <2> QED BY <1>0, <2>2, <2>3 DEF ReadAckDoes, Typed, TypeOK, PcAt, CurAt, Closed
<1>2. Labelled'
  BY <1>0, ConstantsOK DEF ReadAckDoes, ConstantsOK, Typed, Shape, Labelled, PcAt, CurAt,
      Role, Labels, UdpLabels, TcpLabels
<1>3. Ends'
  BY <1>0 DEF ReadAckDoes, tcp, Typed, Shape, Related, Ends, EndOf, Made, Closed
<1>4. Currents'
  <2>1. cur' = cur \/ CurAt(s, "tcp", None)
    BY <1>0 DEF ReadAckDoes
  <2>2. CASE cur' = cur
    BY <1>0, <2>2 DEF ReadAckDoes, tcp, Typed, Shape, Related, Currents
  <2>3. CASE CurAt(s, "tcp", None)
    BY <1>0, <2>3, CurrentsStep DEF ReadAckDoes, tcp, Typed, Shape, Related, Role
  <2> QED BY <2>1, <2>2, <2>3
<1>5. Queues'
  BY <1>0 DEF ReadAckDoes, tcp, Typed, Shape, Related, Queues
<1>6. Readers'
  BY <1>0 DEF ReadAckDoes, tcp, Typed, Shape, Related, Readers, EndOf, Made
<1>7. Entries'
  <2>1. UNCHANGED <<clients, from, to>>
    BY <1>0 DEF ReadAckDoes, tcp
  <2> QED BY <2>1, SameEntries DEF Typed, Shape, Related
<1>8. Gone'
  BY <1>0 DEF ReadAckDoes, tcp, Typed, Shape, Gone, PcAt, Closed
<1>9. Counted'
  <2>1. announced' = announced /\ datagrams' = datagrams
    BY <1>0 DEF ReadAckDoes, Fails, bounds
  <2> QED BY <2>1 DEF Typed, Shape, Counted
<1> QED BY <1>1, <1>2, <1>3, <1>4, <1>5, <1>6, <1>7, <1>8, <1>9 DEF Typed, Shape, Related

\* Reply preserves the types and the shape.
LEMMA ReplyTyped ==
    ASSUME Typed, NEW s \in Server, Reply(s)
    PROVE  Typed'
<1>0. ReplyDoes(s)
  BY ReplyEffect
<1>1. TypeOK'
  <2>1. cur[s]["tcp"] \in Conn
    BY <1>0, Current DEF ReplyDoes, Role
  <2>2. mail' \in [Conn -> SUBSET {"ack", "response"}]
    BY <1>0, <2>1, MailTyped DEF ReplyDoes, Typed
  <2>3. announced' \in 0 .. MaxAnnounce /\ failed' \in 0 .. MaxFailures
        /\ disturbed' \subseteq SUBSET Server
    BY <1>0 DEF ReplyDoes, Fails, bounds, Typed, TypeOK
  <2> QED BY <1>0, <2>2, <2>3 DEF ReplyDoes, Typed, TypeOK, PcAt, CurAt, Closed
<1>2. Labelled'
  BY <1>0, ConstantsOK DEF ReplyDoes, ConstantsOK, Typed, Shape, Labelled, PcAt, CurAt,
      Role, Labels, UdpLabels, TcpLabels
<1>3. Ends'
  BY <1>0 DEF ReplyDoes, tcp, Typed, Shape, Related, Ends, EndOf, Made, Closed
<1>4. Currents'
  <2>1. cur' = cur \/ CurAt(s, "tcp", None)
    BY <1>0 DEF ReplyDoes
  <2>2. CASE cur' = cur
    BY <1>0, <2>2 DEF ReplyDoes, tcp, Typed, Shape, Related, Currents
  <2>3. CASE CurAt(s, "tcp", None)
    BY <1>0, <2>3, CurrentsStep DEF ReplyDoes, tcp, Typed, Shape, Related, Role
  <2> QED BY <2>1, <2>2, <2>3
<1>5. Queues'
  BY <1>0 DEF ReplyDoes, tcp, Typed, Shape, Related, Queues
<1>6. Readers'
  BY <1>0 DEF ReplyDoes, tcp, Typed, Shape, Related, Readers, EndOf, Made
<1>7. Entries'
  <2>1. UNCHANGED <<clients, from, to>>
    BY <1>0 DEF ReplyDoes, tcp
  <2> QED BY <2>1, SameEntries DEF Typed, Shape, Related
<1>8. Gone'
  BY <1>0 DEF ReplyDoes, tcp, Typed, Shape, Gone, PcAt, Closed
<1>9. Counted'
  <2>1. announced' = announced /\ datagrams' = datagrams
    BY <1>0 DEF ReplyDoes, Fails, bounds
  <2> QED BY <2>1 DEF Typed, Shape, Counted
<1> QED BY <1>1, <1>2, <1>3, <1>4, <1>5, <1>6, <1>7, <1>8, <1>9 DEF Typed, Shape, Related

\* RunClient preserves the types and the shape.
LEMMA RunClientTyped ==
    ASSUME Typed, NEW s \in Server, NEW r \in Role, RunClient(s, r)
    PROVE  Typed'
<1>0. RunClientDoes(s, r)
  BY RunClientEffect
<1>1. TypeOK'
  BY <1>0 DEF RunClientDoes, tcp, bounds, Typed, TypeOK, PcAt
<1>2. Labelled'
  BY <1>0, ConstantsOK DEF RunClientDoes, tcp, ConstantsOK, Typed, Shape, Labelled, PcAt, Role,
      Labels, UdpLabels, TcpLabels
<1>3. Ends'
  BY <1>0 DEF RunClientDoes, tcp, Typed, Shape, Related, Ends, EndOf, Made
<1>4. Currents'
  BY <1>0 DEF RunClientDoes, tcp, Typed, Shape, Related, Currents
<1>5. Queues'
  BY <1>0 DEF RunClientDoes, tcp, Typed, Shape, Related, Queues
<1>6. Readers'
  BY <1>0 DEF RunClientDoes, tcp, Typed, Shape, Related, Readers, EndOf, Made
<1>7. Entries'
  <2>1. UNCHANGED <<clients, from, to>>
    BY <1>0 DEF RunClientDoes, tcp
  <2> QED BY <2>1, SameEntries DEF Typed, Shape, Related
<1>8. Gone'
  BY <1>0 DEF RunClientDoes, tcp, Typed, Shape, Gone, PcAt
<1>9. Counted'
  BY <1>0 DEF RunClientDoes, tcp, bounds, Typed, Shape, Counted
<1> QED BY <1>1, <1>2, <1>3, <1>4, <1>5, <1>6, <1>7, <1>8, <1>9 DEF Typed, Shape, Related

\* UseClient preserves the types and the shape.
LEMMA UseClientTyped ==
    ASSUME Typed, NEW s \in Server, NEW r \in Role, UseClient(s, r)
    PROVE  Typed'
<1>0. UseClientDoes(s, r)
  BY UseClientEffect
<1>1. TypeOK'
  <2> DEFINE k == clients[s][PeerOn(s, cur[s][r])]
  <2>1. PcAt(s, r, "callback") /\ k \in Conn /\ ReaderAt(s, k, "recv")
    BY <1>0 DEF UseClientDoes
  <2> HIDE DEF k
  <2>2. pc' \in [Server -> [Role -> Labels]]
    BY <2>1 DEF PcAt, Typed, TypeOK, Labels
  <2>3. reader' \in [Server -> [Conn -> {"none", "recv", "erase", "notify"}]]
    BY <2>1 DEF ReaderAt, Typed, TypeOK
  <2> QED BY <1>0, <2>2, <2>3 DEF UseClientDoes, tcp, bounds, Typed, TypeOK
<1>2. Labelled'
  BY <1>0, ConstantsOK DEF UseClientDoes, ConstantsOK, Typed, Shape, Labelled, PcAt, Role,
      Labels, UdpLabels, TcpLabels
<1>3. Ends'
  BY <1>0 DEF UseClientDoes, tcp, Typed, Shape, Related, Ends, EndOf, Made
<1>4. Currents'
  BY <1>0 DEF UseClientDoes, tcp, Typed, Shape, Related, Currents
<1>5. Queues'
  BY <1>0 DEF UseClientDoes, tcp, Typed, Shape, Related, Queues
<1>6. Readers'
  <2> DEFINE k == clients[s][PeerOn(s, cur[s][r])]
  <2>1. EndOf(s, k) /\ ReaderAt(s, k, "recv") /\ UNCHANGED <<from, to>>
    BY <1>0 DEF UseClientDoes, tcp
  <2>2. \A t \in Server, l \in Conn : reader'[t][l] # "none" => EndOf(t, l)
    <3> HIDE DEF k
    <3> QED BY <2>1 DEF ReaderAt, Typed, Shape, Related, Readers
  <2> QED BY <2>1, <2>2 DEF Readers, EndOf, Made
<1>7. Entries'
  <2>1. UNCHANGED <<clients, from, to>>
    BY <1>0 DEF UseClientDoes, tcp
  <2> QED BY <2>1, SameEntries DEF Typed, Shape, Related
<1>8. Gone'
  <2>1. \A t \in Server : t # s =>
           /\ \A q \in Role : pc'[t][q] = pc[t][q]
           /\ \A p \in Server : clients'[t][p] = clients[t][p] /\ datagrams'[t][p] = datagrams[t][p]
           /\ \A j \in Conn : reader'[t][j] = reader[t][j] /\ (t \in open'[j] => t \in open[j])
           /\ backlog'[t] = backlog[t]
    BY <1>0 DEF UseClientDoes, local, tcp, PcAt, ReaderAt
  <2> QED BY <1>0, <2>1, GoneStep DEF UseClientDoes, Typed, Shape
<1>9. Counted'
  BY <1>0 DEF UseClientDoes, bounds, Typed, Shape, Counted
<1> QED BY <1>1, <1>2, <1>3, <1>4, <1>5, <1>6, <1>7, <1>8, <1>9 DEF Typed, Shape, Related

\* ConnectCallback preserves the types and the shape.
LEMMA ConnectCallbackTyped ==
    ASSUME Typed, NEW s \in Server, NEW r \in Role, ConnectCallback(s, r)
    PROVE  Typed'
<1>0. ConnectCallbackDoes(s, r)
  BY ConnectCallbackEffect
<1>1. TypeOK'
  BY <1>0 DEF ConnectCallbackDoes, tcp, bounds, Typed, TypeOK, PcAt, CurAt
<1>2. Labelled'
  <2>1. IF r = "udp" THEN "wait" \in UdpLabels ELSE "wait" \in TcpLabels
    BY DEF UdpLabels, TcpLabels, Labels
  <2>2. pc[s]["udp"] = "open" <=> pc'[s]["udp"] = "open"
    BY <1>0 DEF ConnectCallbackDoes, PcAt, Role
  <2> QED BY <1>0, <2>1, <2>2, LabelledStep DEF ConnectCallbackDoes, Typed, Shape, Labelled
<1>3. Ends'
  BY <1>0 DEF ConnectCallbackDoes, tcp, Typed, Shape, Related, Ends, EndOf, Made
<1>4. Currents'
  <2>1. cur' = cur \/ CurAt(s, r, None)
    BY <1>0 DEF ConnectCallbackDoes
  <2>2. CASE cur' = cur
    BY <1>0, <2>2 DEF ConnectCallbackDoes, tcp, Typed, Shape, Related, Currents
  <2>3. CASE CurAt(s, r, None)
    BY <1>0, <2>3, CurrentsStep DEF ConnectCallbackDoes, tcp, Typed, Shape, Related, Role
  <2> QED BY <2>1, <2>2, <2>3
<1>5. Queues'
  BY <1>0 DEF ConnectCallbackDoes, tcp, Typed, Shape, Related, Queues
<1>6. Readers'
  BY <1>0 DEF ConnectCallbackDoes, tcp, Typed, Shape, Related, Readers, EndOf, Made
<1>7. Entries'
  <2>1. UNCHANGED <<clients, from, to>>
    BY <1>0 DEF ConnectCallbackDoes, tcp
  <2> QED BY <2>1, SameEntries DEF Typed, Shape, Related
<1>8. Gone'
  BY <1>0 DEF ConnectCallbackDoes, tcp, Typed, Shape, Gone, PcAt
<1>9. Counted'
  BY <1>0 DEF ConnectCallbackDoes, bounds, Typed, Shape, Counted
<1> QED BY <1>1, <1>2, <1>3, <1>4, <1>5, <1>6, <1>7, <1>8, <1>9 DEF Typed, Shape, Related

\* Close preserves the types and the shape.
LEMMA CloseTyped ==
    ASSUME Typed, NEW s \in Server, NEW r \in Role, Close(s, r)
    PROVE  Typed'
<1>0. CloseDoes(s, r)
  BY CloseEffect
<1>1. TypeOK'
  BY <1>0 DEF CloseDoes, bounds, Typed, TypeOK, PcAt, Closed
<1>2. Labelled'
  BY <1>0, ConstantsOK DEF CloseDoes, ConstantsOK, Typed, Shape, Labelled, PcAt, Role,
      Labels, UdpLabels, TcpLabels
<1>3. Ends'
  BY <1>0 DEF CloseDoes, Typed, Shape, Related, Ends, EndOf, Made, Closed
<1>4. Currents'
  BY <1>0 DEF CloseDoes, Typed, Shape, Related, Currents
<1>5. Queues'
  BY <1>0 DEF CloseDoes, Typed, Shape, Related, Queues
<1>6. Readers'
  BY <1>0 DEF CloseDoes, Typed, Shape, Related, Readers, EndOf, Made
<1>7. Entries'
  <2>1. UNCHANGED <<clients, from, to>>
    BY <1>0 DEF CloseDoes
  <2> QED BY <2>1, SameEntries DEF Typed, Shape, Related
<1>8. Gone'
  BY <1>0 DEF CloseDoes, Typed, Shape, Gone, PcAt, Closed
<1>9. Counted'
  BY <1>0 DEF CloseDoes, bounds, Typed, Shape, Counted
<1> QED BY <1>1, <1>2, <1>3, <1>4, <1>5, <1>6, <1>7, <1>8, <1>9 DEF Typed, Shape, Related

\* CloseAgain preserves the types and the shape.
LEMMA CloseAgainTyped ==
    ASSUME Typed, NEW s \in Server, NEW r \in Role, CloseAgain(s, r)
    PROVE  Typed'
<1>0. CloseAgainDoes(s, r)
  BY CloseAgainEffect
<1>1. TypeOK'
  BY <1>0 DEF CloseAgainDoes, bounds, Typed, TypeOK, PcAt, CurAt, VictimAt, Closed
<1>2. Labelled'
  <2>1. IF r = "udp" THEN "wait" \in UdpLabels ELSE "wait" \in TcpLabels
    BY DEF UdpLabels, TcpLabels, Labels
  <2>2. pc[s]["udp"] = "open" <=> pc'[s]["udp"] = "open"
    BY <1>0 DEF CloseAgainDoes, PcAt, Role
  <2> QED BY <1>0, <2>1, <2>2, LabelledStep DEF CloseAgainDoes, Typed, Shape, Labelled
<1>3. Ends'
  BY <1>0 DEF CloseAgainDoes, Typed, Shape, Related, Ends, EndOf, Made, Closed
<1>4. Currents'
  <2>1. cur' = cur \/ CurAt(s, r, None)
    BY <1>0 DEF CloseAgainDoes
  <2>2. CASE cur' = cur
    BY <1>0, <2>2 DEF CloseAgainDoes, tcp, Typed, Shape, Related, Currents
  <2>3. CASE CurAt(s, r, None)
    BY <1>0, <2>3, CurrentsStep DEF CloseAgainDoes, tcp, Typed, Shape, Related, Role
  <2> QED BY <2>1, <2>2, <2>3
<1>5. Queues'
  BY <1>0 DEF CloseAgainDoes, Typed, Shape, Related, Queues
<1>6. Readers'
  BY <1>0 DEF CloseAgainDoes, Typed, Shape, Related, Readers, EndOf, Made
<1>7. Entries'
  <2>1. UNCHANGED <<clients, from, to>>
    BY <1>0 DEF CloseAgainDoes
  <2> QED BY <2>1, SameEntries DEF Typed, Shape, Related
<1>8. Gone'
  BY <1>0 DEF CloseAgainDoes, Typed, Shape, Gone, PcAt, Closed
<1>9. Counted'
  BY <1>0 DEF CloseAgainDoes, bounds, Typed, Shape, Counted
<1> QED BY <1>1, <1>2, <1>3, <1>4, <1>5, <1>6, <1>7, <1>8, <1>9 DEF Typed, Shape, Related

\* ReaderFails preserves the types and the shape.
LEMMA ReaderFailsTyped ==
    ASSUME Typed, NEW s \in Server, NEW k \in Conn, ReaderFails(s, k)
    PROVE  Typed'
<1>0. ReaderFailsDoes(s, k)
  BY ReaderFailsEffect
<1>1. TypeOK'
  <2>1. announced' = announced /\ failed' \in 0 .. MaxFailures
        /\ disturbed' \subseteq SUBSET Server
    BY <1>0 DEF ReaderFailsDoes, Fails
  <2> QED BY <1>0, <2>1 DEF ReaderFailsDoes, Typed, TypeOK, ReaderAt, Closed
<1>2. Labelled'
  BY <1>0, ConstantsOK DEF ReaderFailsDoes, ConstantsOK, Typed, Shape, Labelled, Role,
      Labels, UdpLabels, TcpLabels
<1>3. Ends'
  BY <1>0 DEF ReaderFailsDoes, Typed, Shape, Related, Ends, EndOf, Made, Closed
<1>4. Currents'
  BY <1>0 DEF ReaderFailsDoes, Typed, Shape, Related, Currents
<1>5. Queues'
  BY <1>0 DEF ReaderFailsDoes, Typed, Shape, Related, Queues
<1>6. Readers'
  BY <1>0 DEF ReaderFailsDoes, Typed, Shape, Related, Readers, EndOf, Made, ReaderAt
<1>7. Entries'
  <2>1. UNCHANGED <<clients, from, to>>
    BY <1>0 DEF ReaderFailsDoes
  <2> QED BY <2>1, SameEntries DEF Typed, Shape, Related
<1>8. Gone'
  <2>1. \A t \in Server : t # s =>
           /\ \A q \in Role : pc'[t][q] = pc[t][q]
           /\ \A p \in Server : clients'[t][p] = clients[t][p] /\ datagrams'[t][p] = datagrams[t][p]
           /\ \A j \in Conn : reader'[t][j] = reader[t][j] /\ (t \in open'[j] => t \in open[j])
           /\ backlog'[t] = backlog[t]
    BY <1>0 DEF ReaderFailsDoes, ReaderAt, Closed
  <2> QED BY <1>0, <2>1, GoneStep DEF ReaderFailsDoes, Typed, Shape
<1>9. Counted'
  BY <1>0 DEF ReaderFailsDoes, Fails, Typed, Shape, Counted
<1> QED BY <1>1, <1>2, <1>3, <1>4, <1>5, <1>6, <1>7, <1>8, <1>9 DEF Typed, Shape, Related

\* EraseClient preserves the types and the shape.
LEMMA EraseClientTyped ==
    ASSUME Typed, NEW s \in Server, NEW k \in Conn, EraseClient(s, k)
    PROVE  Typed'
<1>0. EraseClientDoes(s, k)
  BY EraseClientEffect
<1>1. TypeOK'
  BY <1>0 DEF EraseClientDoes, tcp, bounds, Typed, TypeOK, ClientsAt, ReaderAt
<1>2. Labelled'
  BY <1>0, ConstantsOK DEF EraseClientDoes, ConstantsOK, Typed, Shape, Labelled, Role,
      Labels, UdpLabels, TcpLabels
<1>3. Ends'
  BY <1>0 DEF EraseClientDoes, tcp, Typed, Shape, Related, Ends, EndOf, Made
<1>4. Currents'
  BY <1>0 DEF EraseClientDoes, tcp, Typed, Shape, Related, Currents
<1>5. Queues'
  BY <1>0 DEF EraseClientDoes, tcp, Typed, Shape, Related, Queues
<1>6. Readers'
  BY <1>0 DEF EraseClientDoes, tcp, Typed, Shape, Related, Readers, EndOf, Made, ReaderAt
<1>7. Entries'
  BY <1>0 DEF EraseClientDoes, tcp, Typed, Shape, Related, Entries, EndOf, Made, PeerOn,
      ClientsAt
<1>8. Gone'
  <2>1. \A t \in Server : t # s =>
           /\ \A q \in Role : pc'[t][q] = pc[t][q]
           /\ \A p \in Server : clients'[t][p] = clients[t][p] /\ datagrams'[t][p] = datagrams[t][p]
           /\ \A j \in Conn : reader'[t][j] = reader[t][j] /\ (t \in open'[j] => t \in open[j])
           /\ backlog'[t] = backlog[t]
    BY <1>0 DEF EraseClientDoes, local, tcp, ClientsAt, ReaderAt
  <2> QED BY <1>0, <2>1, GoneStep DEF EraseClientDoes, Typed, Shape
<1>9. Counted'
  BY <1>0 DEF EraseClientDoes, bounds, Typed, Shape, Counted
<1> QED BY <1>1, <1>2, <1>3, <1>4, <1>5, <1>6, <1>7, <1>8, <1>9 DEF Typed, Shape, Related

\* DisconnectCallback preserves the types and the shape.
LEMMA DisconnectCallbackTyped ==
    ASSUME Typed, NEW s \in Server, NEW k \in Conn, DisconnectCallback(s, k)
    PROVE  Typed'
<1>0. DisconnectCallbackDoes(s, k)
  BY DisconnectCallbackEffect
<1>1. TypeOK'
  BY <1>0 DEF DisconnectCallbackDoes, tcp, bounds, Typed, TypeOK, ReaderAt
<1>2. Labelled'
  BY <1>0, ConstantsOK DEF DisconnectCallbackDoes, ConstantsOK, Typed, Shape, Labelled,
      Role, Labels, UdpLabels, TcpLabels
<1>3. Ends'
  BY <1>0 DEF DisconnectCallbackDoes, tcp, Typed, Shape, Related, Ends, EndOf, Made
<1>4. Currents'
  BY <1>0 DEF DisconnectCallbackDoes, tcp, Typed, Shape, Related, Currents
<1>5. Queues'
  BY <1>0 DEF DisconnectCallbackDoes, tcp, Typed, Shape, Related, Queues
<1>6. Readers'
  BY <1>0 DEF DisconnectCallbackDoes, tcp, Typed, Shape, Related, Readers, EndOf, Made,
      ReaderAt
<1>7. Entries'
  <2>1. UNCHANGED <<clients, from, to>>
    BY <1>0 DEF DisconnectCallbackDoes, tcp
  <2> QED BY <2>1, SameEntries DEF Typed, Shape, Related
<1>8. Gone'
  BY <1>0 DEF DisconnectCallbackDoes, tcp, Typed, Shape, Gone, ReaderAt
<1>9. Counted'
  BY <1>0 DEF DisconnectCallbackDoes, bounds, Typed, Shape, Counted
<1> QED BY <1>1, <1>2, <1>3, <1>4, <1>5, <1>6, <1>7, <1>8, <1>9 DEF Typed, Shape, Related

\* A process ends: what is left is of the same shape.
LEMMA DieKeepsTyped ==
    ASSUME Typed, NEW s \in Server, Die(s), announced' = announced,
           failed' \in 0 .. MaxFailures, faults' \in SUBSET {"null", "pipe", "stray", "freed"}
    PROVE  Typed'
<1>1. UNCHANGED <<from, to, mail>>
  BY DEF Die
<1>2. TypeOK'
  BY <1>1, DieTyped DEF Typed, TypeOK
<1>3. Labelled'
  <2>1. /\ \A t \in Server, r \in Role : t # s => pc'[t][r] = pc[t][r] /\ cur'[t][r] = cur[t][r]
        /\ \A r \in Role : pc'[s][r] = "wait" /\ cur'[s][r] = None
        /\ \A t \in Server : t # s => target'[t] = target[t]
        /\ target'[s] = None
    BY DieTyped DEF Typed
  <2>2. "wait" \in UdpLabels /\ "wait" \in TcpLabels /\ "udp" \in Role /\ "tcp" \in Role
    BY DEF UdpLabels, TcpLabels, Labels, Role
  <2> QED BY <2>1, <2>2, ConstantsOK DEF ConstantsOK, Typed, Shape, Labelled
<1>4. Ends'
  <2>1. \A k \in Conn : open'[k] = open[k] \ {s}
    BY DieTyped DEF Typed
  <2> QED BY <1>1, <2>1 DEF Typed, Shape, Related, Ends, EndOf, Made
<1>5. Currents'
  <2>1. /\ \A t \in Server, r \in Role : t # s => cur'[t][r] = cur[t][r]
        /\ \A r \in Role : cur'[s][r] = None
    BY DieTyped DEF Typed
  <2>2. "udp" \in Role /\ "tcp" \in Role
    BY DEF Role
  <2> QED BY <1>1, <2>1, <2>2 DEF Typed, Shape, Related, Currents
<1>6. Queues'
  <2>1. backlog'[s] = <<>> /\ \A t \in Server : t # s => backlog'[t] = backlog[t]
    BY DieTyped DEF Typed
  <2> QED BY <1>1, <2>1 DEF Typed, Shape, Related, Queues
<1>7. Readers'
  <2>1. /\ \A k \in Conn : reader'[s][k] = "none"
        /\ \A t \in Server : t # s => reader'[t] = reader[t]
    BY DieTyped DEF Typed
  <2> QED BY <1>1, <2>1 DEF Typed, Shape, Related, Readers, EndOf, Made
<1>8. Entries'
  <2>1. /\ \A p \in Server : clients'[s][p] = None
        /\ \A t \in Server : t # s => clients'[t] = clients[t]
    BY DieTyped DEF Typed
  <2> QED BY <1>1, <2>1 DEF Typed, Shape, Related, Entries, EndOf, Made, PeerOn
<1>9. Gone'
  <2>1. /\ \A r \in Role : pc'[s][r] = "wait"
        /\ \A p \in Server : clients'[s][p] = None /\ datagrams'[s][p] = 0
        /\ \A k \in Conn : reader'[s][k] = "none" /\ open'[k] = open[k] \ {s}
        /\ backlog'[s] = <<>>
        /\ \A t \in Server : t # s =>
              /\ main'[t] = main[t] /\ pc'[t] = pc[t] /\ clients'[t] = clients[t]
              /\ reader'[t] = reader[t] /\ datagrams'[t] = datagrams[t] /\ backlog'[t] = backlog[t]
    BY DieTyped DEF Typed
  <2> QED BY <2>1 DEF Typed, Shape, Gone
<1>10. Counted'
  <2>1. /\ \A p \in Server : datagrams'[s][p] = 0
        /\ \A t \in Server : t # s => datagrams'[t] = datagrams[t]
    BY DieTyped DEF Typed
  <2>2. announced >= 0
    BY DEF Typed, TypeOK
  <2> QED BY <2>1, <2>2 DEF Typed, Shape, Counted
<1> QED BY <1>2, <1>3, <1>4, <1>5, <1>6, <1>7, <1>8, <1>9, <1>10 DEF Typed, Shape, Related

\* The ways in which a process ends, besides the null pointer.
LEMMA CrashTyped ==
    ASSUME Typed, NEW s \in Server, Crash(s)
    PROVE  Typed'
<1>1. failed' \in 0 .. MaxFailures
  BY ConstantsOK DEF ConstantsOK, Crash, Typed, TypeOK
<1> QED BY <1>1, DieKeepsTyped DEF Crash, Typed, TypeOK

\* A process that writes to a closed connection ends.
LEMMA BrokenPipeTyped ==
    ASSUME Typed, NEW s \in Server, NEW r \in Role, BrokenPipe(s, r)
    PROVE  Typed'
BY DieKeepsTyped DEF BrokenPipe, Typed, TypeOK

\* A process that uses an iterator into a table that has moved ends.
LEMMA UseMovedTyped ==
    ASSUME Typed, NEW s \in Server, NEW r \in Role, UseMoved(s, r)
    PROVE  Typed'
BY DieKeepsTyped DEF UseMoved, Typed, TypeOK

\* HandleConnect preserves the types and the shape.
LEMMA HandleConnectTyped ==
    ASSUME Typed, NEW s \in Server, HandleConnect(s)
    PROVE  Typed'
<1>0. HandleConnectDoes(s)
  BY HandleConnectEffect
<1>1. PICK p \in Server :
         /\ main[s] # "down" /\ pc[s]["udp"] = "wait"
         /\ datagrams[s][p] > 0 /\ DatagramsAt(s, p, datagrams[s][p] - 1)
         /\ \/ UNCHANGED <<pc, target>>
            \/ /\ p # s /\ PcAt(s, "udp", "open")
               /\ target' = [target EXCEPT ![s] = p]
         /\ UNCHANGED <<main, cur, victim, clients, reader, peers, view, tcp, bounds, faults>>
  BY <1>0 DEF HandleConnectDoes
<1>2. TypeOK'
  <2>1. datagrams' \in [Server -> [Server -> 0 .. MaxAnnounce]]
    BY <1>1 DEF DatagramsAt
  <2>2. pc' \in [Server -> [Role -> Labels]]
    BY <1>1 DEF PcAt, Typed, TypeOK
  <2>3. target' \in [Server -> Server \cup {None}]
    <3>1. target \in [Server -> Server \cup {None}]
      BY DEF Typed, TypeOK
    <3> QED BY <1>1, <3>1
  <2>4. UNCHANGED <<main, cur, victim, clients, reader, peers, view, from, to, open, mail,
                    backlog, announced, failed, disturbed, faults>>
    BY <1>1 DEF tcp, bounds
  <2> QED BY <2>1, <2>2, <2>3, <2>4 DEF Typed, TypeOK
<1>3. Labelled'
  <2>1. CASE UNCHANGED <<pc, target>>
    BY <1>1, <2>1 DEF Typed, Shape, Labelled
  <2>2. CASE p # s /\ PcAt(s, "udp", "open") /\ target' = [target EXCEPT ![s] = p]
    <3>1. CurAt(s, "udp", None)
      <4>1. cur[s]["udp"] = None
        BY <1>1 DEF Typed, Shape, Labelled, Role
      <4> QED BY <1>1, <4>1, SameCur DEF Typed, Role
    <3>2. target'[s] = p /\ \A t \in Server : t # s => target'[t] = target[t]
      BY <2>2 DEF Typed, TypeOK
    <3>3. "open" \in UdpLabels /\ pc'[s]["udp"] = "open"
      BY <2>2 DEF UdpLabels, Labels, PcAt
    <3> QED BY <2>2, <3>1, <3>2, <3>3, LabelledStep, ConstantsOK
            DEF ConstantsOK, Typed, Shape, Role
  <2> QED BY <1>1, <2>1, <2>2
<1>4. Related'
  BY <1>1 DEF tcp, Typed, Shape, Related, Ends, Currents, Queues, Readers, Entries, EndOf,
      Made, PeerOn
<1>5. Gone'
  <2>1. \A t \in Server : t # s =>
           /\ \A r \in Role : pc'[t][r] = pc[t][r]
           /\ \A q \in Server : datagrams'[t][q] = datagrams[t][q]
    BY <1>1 DEF PcAt, DatagramsAt
  <2> QED BY <1>1, <2>1, GoneStep DEF tcp, Typed, Shape
<1>6. Counted'
  <2>1. ASSUME NEW t \in Server, NEW q \in Server
        PROVE  datagrams'[t][q] <= announced
    <3>1. /\ datagrams[t][q] \in Int /\ announced \in Int /\ datagrams[t][q] <= announced
          /\ datagrams[s][p] \in Int /\ datagrams[s][p] <= announced
      BY DEF Typed, TypeOK, Shape, Counted
    <3>2. CASE t = s /\ q = p
      BY <1>1, <3>1, <3>2 DEF DatagramsAt
    <3>3. CASE t # s \/ q # p
      BY <1>1, <3>1, <3>3 DEF DatagramsAt
    <3> QED BY <3>2, <3>3
  <2> QED BY <1>1, <2>1 DEF bounds, Counted
<1> QED BY <1>2, <1>3, <1>4, <1>5, <1>6 DEF Typed, Shape

\* OpenSocket preserves the types and the shape: the new connection is nobody's yet.
LEMMA OpenSocketTyped ==
    ASSUME Typed, NEW s \in Server, OpenSocket(s)
    PROVE  Typed'
<1>0. OpenSocketDoes(s)
  BY OpenSocketEffect
<1>1. /\ main[s] # "down" /\ pc[s]["udp"] = "open" /\ cur[s]["udp"] = None
      /\ target[s] \in Server \ {s} /\ target' = [target EXCEPT ![s] = None]
      /\ UNCHANGED <<main, clients, reader, peers, view, datagrams, mail, announced, faults>>
      /\ failed' \in 0 .. MaxFailures /\ disturbed' \subseteq SUBSET Server
  BY <1>0 DEF OpenSocketDoes
<1>2. CASE PcAt(s, "udp", "wait") /\ UNCHANGED <<from, to, open, backlog, cur, victim>>
  <2>1. TypeOK'
    BY <1>1, <1>2 DEF PcAt, Typed, TypeOK
  <2>2. Labelled'
    <3>1. CurAt(s, "udp", None)
      BY <1>1, <1>2, SameCur DEF Typed, Role
    <3>2. target'[s] = None /\ \A t \in Server : t # s => target'[t] = target[t]
      BY <1>1 DEF Typed, TypeOK
    <3>3. "wait" \in UdpLabels /\ pc'[s]["udp"] = "wait"
      BY <1>2 DEF UdpLabels, Labels, PcAt
    <3> QED BY <1>2, <3>1, <3>2, <3>3, LabelledStep, ConstantsOK
            DEF ConstantsOK, Typed, Shape, Role
  <2>3. Related'
    BY <1>1, <1>2 DEF Typed, Shape, Related, Ends, Currents, Queues, Readers, Entries, EndOf,
        Made, PeerOn
  <2>4. Gone'
    <3>1. \A t \in Server : t # s => \A r \in Role : pc'[t][r] = pc[t][r]
      BY <1>2 DEF PcAt
    <3> QED BY <1>1, <1>2, <3>1, GoneStep DEF Typed, Shape
  <2>5. Counted'
    BY <1>1 DEF Typed, Shape, Counted
  <2> QED BY <2>1, <2>2, <2>3, <2>4, <2>5 DEF Typed, Shape
<1>3. ASSUME NEW k \in Conn,
             from[k] = None, main[target[s]] # "down",
             from' = [from EXCEPT ![k] = s],
             to' = [to EXCEPT ![k] = target[s]],
             open' = [open EXCEPT ![k] = {s, target[s]}],
             backlog' = [backlog EXCEPT ![target[s]] = Append(@, k)],
             CurAt(s, "udp", k), PcAt(s, "udp", "send"),
             NewDescriptor(s, "udp", k)
      PROVE  Typed'
  <2> DEFINE p == target[s]
  <2>0. p \in Server /\ p # s /\ p # None /\ s # None /\ k # None
    BY <1>1, ConstantsOK DEF ConstantsOK
  <2>1. /\ from'[k] = s /\ to'[k] = p /\ open'[k] = {s, p}
        /\ \A l \in Conn : l # k => from'[l] = from[l] /\ to'[l] = to[l] /\ open'[l] = open[l]
        /\ backlog'[p] = Append(backlog[p], k)
        /\ \A t \in Server : t # p => backlog'[t] = backlog[t]
    BY <1>3, <2>0 DEF Typed, TypeOK
  <2>2. TypeOK'
    <3>1. backlog' \in [Server -> Seq(Conn)]
      BY <1>3, <2>0 DEF Typed, TypeOK
    <3>2. victim' \in [Server -> [Role -> Conn \cup {None}]]
      BY <1>3, NewDescriptorPut DEF Typed, Role
    <3>3. /\ from' \in [Conn -> Server \cup {None}]
          /\ to' \in [Conn -> Server \cup {None}]
          /\ open' \in [Conn -> SUBSET Server]
          /\ target' \in [Server -> Server \cup {None}]
      BY <1>1, <1>3 DEF Typed, TypeOK
    <3> QED BY <1>1, <1>3, <3>1, <3>2, <3>3 DEF PcAt, CurAt, Typed, TypeOK
  <2>3. Labelled'
    <3>1. target'[s] = None /\ \A t \in Server : t # s => target'[t] = target[t]
      BY <1>1 DEF Typed, TypeOK
    <3>2. "send" \in UdpLabels /\ pc'[s]["udp"] = "send"
      BY <1>3 DEF UdpLabels, Labels, PcAt
    <3> QED BY <1>3, <2>0, <3>1, <3>2, LabelledStep DEF Typed, Shape, Role
  <2>4. \A t \in Server : ~EndOf(t, k)
    BY <1>3 DEF EndOf, Made
  <2> HIDE DEF p
  <2>5. Ends'
    BY <2>0, <2>1 DEF Typed, Shape, Related, Ends, EndOf, Made
  <2>6. /\ \A t \in Server, r \in Role : cur[t][r] # None => cur[t][r] \in Conn
        /\ \A t \in Server : cur[t]["udp"] # k /\ cur[t]["tcp"] # k
    <3>1. to[k] = None /\ from[k] = None
      BY <1>3 DEF Typed, Shape, Related, Ends, Made
    <3>2. \A t \in Server : t # None
      BY ConstantsOK DEF ConstantsOK
    <3>3. \A t \in Server : cur[t]["udp"] # k /\ cur[t]["tcp"] # k
      BY <2>0, <3>1, <3>2 DEF Typed, Shape, Related, Currents
    <3>4. \A t \in Server, r \in Role : cur[t][r] # None => cur[t][r] \in Conn
      BY DEF Typed, TypeOK
    <3> QED BY <3>3, <3>4
  <2>7. Currents'
    <3>1. "udp" \in Role /\ "tcp" \in Role /\ "udp" # "tcp"
      BY DEF Role
    <3>2. ASSUME NEW t \in Server
          PROVE  cur'[t]["udp"] # None => from'[cur'[t]["udp"]] = t
      <4>1. CASE t = s
        BY <1>3, <2>1, <3>1, <4>1 DEF CurAt
      <4>2. CASE t # s
        BY <1>3, <2>1, <2>6, <3>1, <4>2 DEF CurAt, Typed, Shape, Related, Currents
      <4> QED BY <4>1, <4>2
    <3>3. ASSUME NEW t \in Server
          PROVE  cur'[t]["tcp"] # None => to'[cur'[t]["tcp"]] = t
      BY <1>3, <2>1, <2>6, <3>1 DEF CurAt, Typed, Shape, Related, Currents
    <3> QED BY <3>2, <3>3 DEF Currents
  <2>8. Queues'
    <3>1. ASSUME NEW t \in Server, NEW i \in DOMAIN backlog'[t]
          PROVE  to'[backlog'[t][i]] = t
      <4>0. \A j \in DOMAIN backlog[t] : backlog[t][j] # k /\ backlog[t][j] \in Conn
        <5>1. to[k] = None /\ t # None
          BY <1>3, ConstantsOK DEF ConstantsOK, Typed, Shape, Related, Ends, Made
        <5>2. backlog[t] \in Seq(Conn)
          BY DEF Typed, TypeOK
        <5> QED BY <5>1, <5>2 DEF Typed, Shape, Related, Queues
      <4>1. CASE t # p
        BY <2>1, <3>1, <4>0, <4>1 DEF Typed, Shape, Related, Queues
      <4>2. CASE t = p
        <5>1. backlog[t] \in Seq(Conn) /\ backlog'[t] = Append(backlog[t], k)
          BY <2>1, <4>2 DEF Typed, TypeOK
        <5>2. CASE i \in DOMAIN backlog[t]
          <6>1. backlog'[t][i] = backlog[t][i]
            BY <5>1, <5>2
          <6> QED BY <2>1, <4>0, <5>2, <6>1 DEF Typed, Shape, Related, Queues
        <5>3. CASE i \notin DOMAIN backlog[t]
          <6>1. backlog'[t][i] = k
            BY <5>1, <5>3, <3>1
          <6> QED BY <2>1, <4>2, <6>1
        <5> QED BY <5>2, <5>3
      <4> QED BY <4>1, <4>2
    <3> QED BY <3>1 DEF Queues
  <2>9. Readers'
    BY <1>1, <2>1, <2>4 DEF Typed, Shape, Related, Readers, EndOf, Made
  <2>10. Entries'
    <3>1. \A t, q \in Server : clients[t][q] # None => clients[t][q] \in Conn /\ clients[t][q] # k
      BY <2>4 DEF Typed, TypeOK, Shape, Related, Entries
    <3> QED BY <1>1, <2>1, <3>1 DEF Typed, Shape, Related, Entries, EndOf, Made, PeerOn
  <2>11. Gone'
    <3>1. \A t \in Server : main[t] = "down" => t # s /\ t # p
      BY <1>1, <1>3 DEF p
    <3>2. \A t \in Server : main[t] = "down" =>
             /\ \A r \in Role : pc'[t][r] = pc[t][r]
             /\ \A l \in Conn : t \in open'[l] => t \in open[l]
             /\ backlog'[t] = backlog[t]
      BY <1>3, <2>1, <3>1 DEF PcAt
    <3> QED BY <1>1, <3>2, GoneStep DEF Typed, Shape
  <2>12. Counted'
    BY <1>1 DEF Typed, Shape, Counted
  <2> QED BY <2>2, <2>3, <2>5, <2>7, <2>8, <2>9, <2>10, <2>11, <2>12 DEF Typed, Shape, Related
<1> QED BY <1>0, <1>2, <1>3 DEF OpenSocketDoes

\* Accept preserves the types and the shape.
LEMMA AcceptTyped ==
    ASSUME Typed, NEW s \in Server, Accept(s)
    PROVE  Typed'
<1>0. AcceptDoes(s)
  BY AcceptEffect
<1> DEFINE k == Head(backlog[s])
<1>1. /\ main[s] # "down" /\ pc[s]["tcp"] = "wait"
      /\ k \in Conn /\ k = backlog[s][1] /\ 1 \in DOMAIN backlog[s]
      /\ CurAt(s, "tcp", k) /\ PcAt(s, "tcp", "read") /\ NewDescriptor(s, "tcp", k)
      /\ UNCHANGED <<main, target, clients, reader, peers, view, datagrams, from, to, open,
                     mail, bounds, faults>>
  BY <1>0 DEF AcceptDoes
<1>2. /\ backlog' \in [Server -> Seq(Conn)]
      /\ \A i \in DOMAIN backlog'[s] :
            i + 1 \in DOMAIN backlog[s] /\ backlog'[s][i] = backlog[s][i + 1]
      /\ \A t \in Server : t # s => backlog'[t] = backlog[t]
  BY <1>0 DEF AcceptDoes
<1>3. to[k] = s /\ k # None
  BY <1>1, ConstantsOK DEF ConstantsOK, Typed, Shape, Related, Queues
<1> HIDE DEF k
<1>4. TypeOK'
  <2>1. victim' \in [Server -> [Role -> Conn \cup {None}]]
    BY <1>1, NewDescriptorPut DEF Typed, Role
  <2> QED BY <1>1, <1>2, <2>1 DEF PcAt, CurAt, bounds, Typed, TypeOK
<1>5. Labelled'
  <2>1. "read" \in TcpLabels /\ "tcp" # "udp" /\ "tcp" \in Role /\ "udp" \in Role
    BY DEF TcpLabels, Labels, Role
  <2>2. pc'[s]["udp"] = pc[s]["udp"] /\ target' = target
    BY <1>1, <2>1 DEF PcAt
  <2>3. target[s] # s /\ (target[s] = None <=> pc[s]["udp"] # "open")
    BY DEF Typed, Shape, Labelled
  <2>4. target'[s] # s /\ (target'[s] = None <=> pc'[s]["udp"] # "open")
    BY <2>2, <2>3
  <2>5. Labelled /\ "read" \notin {"wait", "open"} /\ CurAt(s, "tcp", k) /\ PcAt(s, "tcp", "read")
    BY <1>1 DEF Typed, Shape
  <2> QED BY <1>3, <2>1, <2>2, <2>4, <2>5, LabelledStep
<1>6. Currents'
  BY <1>1, <1>3, CurrentsStep DEF Typed, Shape, Related, Role
<1>7. Queues'
  <2>1. ASSUME NEW t \in Server, NEW i \in DOMAIN backlog'[t]
        PROVE  to[backlog'[t][i]] = t
    BY <1>2, <2>1 DEF Typed, Shape, Related, Queues
  <2> QED BY <1>1, <2>1 DEF Queues
<1>8. Ends' /\ Readers' /\ Entries'
  <2>1. Ends'
    BY <1>1 DEF Typed, Shape, Related, Ends, EndOf, Made
  <2>2. Readers'
    BY <1>1 DEF Typed, Shape, Related, Readers, EndOf, Made
  <2> QED BY <1>1, <2>1, <2>2, SameEntries DEF Typed, Shape, Related
<1>9. Gone'
  <2>1. \A t \in Server : t # s => \A r \in Role : pc'[t][r] = pc[t][r]
    BY <1>1 DEF PcAt
  <2> QED BY <1>1, <1>2, <2>1, GoneStep DEF Typed, Shape
<1>10. Counted'
  BY <1>1 DEF bounds, Typed, Shape, Counted
<1> QED BY <1>4, <1>5, <1>6, <1>7, <1>8, <1>9, <1>10 DEF Typed, Shape, Related

\* AddClient preserves the types and the shape.
LEMMA AddClientTyped ==
    ASSUME Typed, NEW s \in Server, NEW r \in Role, AddClient(s, r)
    PROVE  Typed'
<1> DEFINE k == cur[s][r]
           p == PeerOn(s, k)
<1>0. /\ main[s] # "down" /\ pc[s][r] = "add" /\ UNCHANGED <<announced, failed>>
      /\ \/ /\ ClientsAt(s, p, k) /\ InsertedAt(s, r)
            /\ UNCHANGED <<main, cur, target, victim, reader, peers, view, datagrams, tcp,
                           disturbed, faults>>
         \/ /\ PcAt(s, r, "close")
            /\ UNCHANGED <<main, cur, target, victim, clients, reader, peers, view, datagrams,
                           tcp, disturbed, faults>>
         \/ Die(s) /\ faults' = faults \cup {"null"}
  BY AddClientEffect DEF AddClientDoes
<1>1. k \in Conn /\ k # None /\ EndOf(s, k) /\ p \in Server
  BY <1>0, Current
<1>2. CASE Die(s) /\ faults' = faults \cup {"null"}
  BY <1>0, <1>2, DieKeepsTyped DEF Typed, TypeOK
<1>3. ASSUME InsertedAt(s, r) \/ PcAt(s, r, "close"),
             ClientsAt(s, p, k) \/ UNCHANGED clients,
             UNCHANGED <<main, cur, target, victim, reader, peers, view, datagrams, tcp,
                         disturbed, faults>>
      PROVE  Typed'
  <2>0. /\ pc' \in [Server -> [Role -> Labels]]
        /\ \A t \in Server, q \in Role :
              \/ pc'[t][q] = pc[t][q]
              \/ t = s /\ pc[t][q] \in {"add", "use"} /\ pc'[t][q] \in {"run", "close", "stale"}
    BY <1>0, <1>3 DEF PcAt, InsertedAt
  <2>1. TypeOK'
    <3>1. clients' \in [Server -> [Server -> Conn \cup {None}]]
      BY <1>3 DEF ClientsAt, Typed, TypeOK
    <3> QED BY <1>0, <1>3, <2>0, <3>1 DEF tcp, Typed, TypeOK
  <2>2. Labelled'
    <3>1. "udp" \in Role /\ "tcp" \in Role
      BY DEF Role
    <3>2. \A l \in {"run", "close", "stale"} : l \in UdpLabels /\ l \in TcpLabels
      BY DEF UdpLabels, TcpLabels, Labels
    <3>3. ASSUME NEW t \in Server
          PROVE  pc'[t]["udp"] \in UdpLabels /\ pc'[t]["tcp"] \in TcpLabels
      BY <2>0, <3>1, <3>2 DEF Typed, Shape, Labelled
    <3>4. ASSUME NEW t \in Server, NEW q \in Role
          PROVE  cur'[t][q] = None <=> pc'[t][q] \in {"wait", "open"}
      BY <1>3, <2>0 DEF Typed, Shape, Labelled
    <3>5. ASSUME NEW t \in Server
          PROVE  (target'[t] = None <=> pc'[t]["udp"] # "open") /\ target'[t] # t
      BY <1>3, <2>0, <3>1 DEF Typed, Shape, Labelled
    <3> QED BY <3>3, <3>4, <3>5 DEF Labelled
  <2>3. Ends' /\ Currents' /\ Queues' /\ Readers'
    BY <1>3 DEF tcp, Typed, Shape, Related, Ends, Currents, Queues, Readers, EndOf, Made
  <2>4. Entries'
    <3>1. \A t, q \in Server : clients'[t][q] # None =>
             EndOf(t, clients'[t][q]) /\ PeerOn(t, clients'[t][q]) = q
      <4>1. CASE UNCHANGED clients
        BY <4>1 DEF Typed, Shape, Related, Entries
      <4>2. CASE ClientsAt(s, p, k)
        <5> HIDE DEF k
        <5> QED BY <1>1, <4>2 DEF ClientsAt, Typed, Shape, Related, Entries
      <4> QED BY <1>3, <4>1, <4>2
    <3> QED BY <1>3, <3>1 DEF tcp, Entries, EndOf, Made, PeerOn
  <2>5. Gone'
    <3>1. \A t \in Server : t # s =>
             /\ \A q \in Role : pc'[t][q] = pc[t][q]
             /\ \A q \in Server : clients'[t][q] = clients[t][q]
      BY <1>3, <2>0 DEF ClientsAt
    <3> QED BY <1>0, <1>3, <3>1, GoneStep DEF tcp, Typed, Shape
  <2>6. Counted'
    BY <1>0, <1>3 DEF Typed, Shape, Counted
  <2> QED BY <2>1, <2>2, <2>3, <2>4, <2>5, <2>6 DEF Typed, Shape, Related
<1> QED BY <1>0, <1>2, <1>3

\* The initial state has the shape.
LEMMA InitTyped ==
    ASSUME Init
    PROVE  Typed
<1>1. TypeOK
  BY ConstantsOK DEF ConstantsOK, Init, TypeOK, Labels
<1>2. Labelled
  BY ConstantsOK DEF ConstantsOK, Init, Labelled, UdpLabels, TcpLabels, Labels, Role
<1>3. Related
  BY DEF Init, Related, Ends, Currents, Queues, Readers, Entries, EndOf, Made, Role
<1>4. Gone
  BY DEF Init, Gone
<1>5. Counted
  BY DEF Init, Counted
<1> QED BY <1>1, <1>2, <1>3, <1>4, <1>5 DEF Typed, Shape

\* Every step preserves the types and the shape.
LEMMA NextTyped ==
    ASSUME Typed, [Next]_vars
    PROVE  Typed'
<1>1. CASE UNCHANGED vars
  <2>1. TypeOK'
    BY <1>1 DEF Typed, TypeOK, vars, local, tcp, bounds
  <2>2. Labelled' /\ Counted'
    BY <1>1 DEF Typed, Shape, Labelled, Counted, vars, local, tcp, bounds
  <2>3. Related'
    BY <1>1 DEF Typed, Shape, Related, Ends, Currents, Queues, Readers, Entries, EndOf, Made,
        PeerOn,
                vars, local, tcp, bounds
  <2>4. Gone'
    BY <1>1 DEF Typed, Shape, Gone, vars, local, tcp, bounds
  <2> QED BY <2>1, <2>2, <2>3, <2>4 DEF Typed, Shape
<1>2. ASSUME NEW s \in Server, Start(s) \/ Announce(s) \/ Crash(s)
      PROVE  Typed'
  BY <1>2, StartTyped, AnnounceTyped, CrashTyped
<1>3. ASSUME NEW s \in Server, UdpStep(s)
      PROVE  Typed'
  BY <1>3, HandleConnectTyped, OpenSocketTyped, SendAckTyped, AwaitResponseTyped DEF UdpStep
<1>4. ASSUME NEW s \in Server, TcpStep(s)
      PROVE  Typed'
  BY <1>4, AcceptTyped, ReadAckTyped, ReplyTyped DEF TcpStep
<1>5. ASSUME NEW s \in Server, NEW r \in Role, Added(s, r) \/ BrokenPipe(s, r)
      PROVE  Typed'
  BY <1>5, AddClientTyped, RunClientTyped, UseClientTyped, UseMovedTyped, ConnectCallbackTyped,
     CloseTyped, CloseAgainTyped, BrokenPipeTyped DEF Added
<1>6. ASSUME NEW s \in Server, NEW k \in Conn, ReaderStep(s, k)
      PROVE  Typed'
  BY <1>6, ReaderFailsTyped, EraseClientTyped, DisconnectCallbackTyped DEF ReaderStep
<1> QED BY <1>1, <1>2, <1>3, <1>4, <1>5, <1>6 DEF Next

\* The state of every server keeps its types.
THEOREM TypeCorrect == Spec => []TypeOK
<1>1. Init => Typed
  BY InitTyped
<1>2. Typed /\ [Next]_vars => Typed'
  BY NextTyped
<1>3. Typed => TypeOK
  BY DEF Typed
<1> QED BY <1>1, <1>2, <1>3, PTL DEF Spec

=============================================================================
