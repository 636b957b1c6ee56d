---------------------- MODULE DistributedServerProofs -----------------------
(***************************************************************************)
(* What the servers' tables and descriptors keep, for every set of servers *)
(* and connections: every end has an owner, every client its reader, both  *)
(* sides agree when all is quiet, and every wait of a handshake is for     *)
(* something under way; and, when servers are started one at a time, that  *)
(* no step does harm, that every connection is reported, and that two      *)
(* servers connect once and stay connected: Membership.                    *)
(***************************************************************************)
EXTENDS DistributedServerTypes

-----------------------------------------------------------------------------
(* Who owns a connection's end, and which thread reads a client.           *)

Queued(s, k) == \E i \in DOMAIN backlog[s] : backlog[s][i] = k
Serving(s, r, k, ls) == cur[s][r] = k /\ pc[s][r] \in ls
Handshake == {"send", "await", "read", "reply", "add", "run", "use", "stale"}

Distinct == \A s \in Server : \A i, j \in DOMAIN backlog[s] : backlog[s][i] = backlog[s][j] => i = j
Waiting == \A s \in Server, k \in Conn : Queued(s, k) => reader[s][k] = "none" /\ cur[s]["tcp"] # k
Unread == \A s \in Server, r \in Role : pc[s][r] \in Handshake => reader[s][cur[s][r]] = "none"
CallbackOpen ==
    \A s \in Server, r \in Role :
        pc[s][r] = "callback" /\ s \in open[cur[s][r]] => reader[s][cur[s][r]] = "recv"

\* The three parts of ClientHasItsReader.
EntryIsRead == \A s, p \in Server : clients[s][p] # None =>
    \/ reader[s][clients[s][p]] \in {"recv", "erase"}
    \/ \E r \in Role : cur[s][r] = clients[s][p] /\ pc[s][r] \in Adding
ReaderHasEntry == \A s \in Server, k \in Conn :
    reader[s][k] \in {"recv", "erase"} => clients[s][PeerOn(s, k)] = k
RunnerHasEntry == \A s \in Server, r \in Role :
    pc[s][r] \in Adding => clients[s][PeerOn(s, cur[s][r])] = cur[s][r]

Owners == Distinct /\ Waiting /\ Unread /\ CallbackOpen
             /\ EntryIsRead /\ ReaderHasEntry /\ RunnerHasEntry /\ OpenEndsAreOwned

\* The two service threads never work on the same connection: a server is not
\* both its first and its second end.
LEMMA Apart ==
    ASSUME Typed, NEW s \in Server, NEW r \in Role, NEW q \in Role, r # q, cur[s][r] # None
    PROVE  cur[s][r] # cur[s][q]
<1>1. cur[s][r] \in Conn
  BY DEF Typed, TypeOK
<1> QED BY <1>1, ConstantsOK DEF ConstantsOK, Typed, Shape, Related, Ends, Currents, Made, Role

\* A connection that waits for accept() is not the one of the UDP thread.
LEMMA QueuedApart ==
    ASSUME Typed, NEW s \in Server, NEW k \in Conn, Queued(s, k)
    PROVE  cur[s]["udp"] # k /\ to[k] = s /\ EndOf(s, k)
<1>1. to[k] = s /\ from[k] # None /\ from[k] # s
  BY ConstantsOK DEF ConstantsOK, Queued, Typed, Shape, Related, Ends, Queues, Made
<1>2. k # None
  BY ConstantsOK DEF ConstantsOK
<1> QED BY <1>1, <1>2 DEF EndOf, Made, Typed, Shape, Related, Currents

\* The parts together are the property.
LEMMA OwnersRead ==
    ASSUME Typed, Owners
    PROVE  ClientHasItsReader
<1> SUFFICES ASSUME NEW s \in Server, NEW p \in Server, NEW k \in Conn
             PROVE  /\ clients[s][p] = k =>
                          /\ PeerOn(s, k) = p
                          /\ \/ reader[s][k] \in {"recv", "erase"}
                             \/ \E r \in Role : cur[s][r] = k /\ pc[s][r] \in Adding
                    /\ reader[s][k] \in {"recv", "erase"} => clients[s][PeerOn(s, k)] = k
                    /\ \A r \in Role : cur[s][r] = k /\ pc[s][r] \in Adding => clients[s][PeerOn(s, k)] = k
  BY DEF ClientHasItsReader
<1>1. k # None
  BY ConstantsOK DEF ConstantsOK
<1>2. clients[s][p] = k => PeerOn(s, k) = p
  BY <1>1 DEF Typed, Shape, Related, Entries
<1>3. clients[s][p] = k => \/ reader[s][k] \in {"recv", "erase"}
                           \/ \E r \in Role : cur[s][r] = k /\ pc[s][r] \in Adding
  BY <1>1 DEF Owners, EntryIsRead
<1> QED BY <1>2, <1>3 DEF Owners, ReaderHasEntry, RunnerHasEntry

\* One thread moves on, or gives its connection up; no end is opened.
LEMMA ThreadOwners ==
    ASSUME Typed, Owners, NEW s \in Server, NEW r \in Role, NEW l, NEW x,
           PcAt(s, r, l), CurAt(s, r, x), x = cur[s][r] \/ x = None,
           UNCHANGED <<clients, reader, backlog, from, to>>,
           \A k \in Conn : open'[k] \subseteq open[k],
           pc[s][r] \in Adding <=> l \in Adding, l # "callback",
           l \in Handshake => pc[s][r] \in Handshake /\ x = cur[s][r],
           \/ x = cur[s][r] /\ l # "reclose"
           \/ pc[s][r] = "reclose"
           \/ s \notin open'[cur[s][r]]
           \/ reader[s][cur[s][r]] = "recv"
    PROVE  Owners'
<1> USE DEF PcAt, CurAt
<1>1. Distinct'
  BY DEF Owners, Distinct
<1>2. Waiting'
  <2>1. ASSUME NEW t \in Server, NEW k \in Conn, Queued(t, k)
        PROVE  reader[t][k] = "none" /\ cur'[t]["tcp"] # k
    <3>1. k # None /\ "tcp" \in Role
      BY ConstantsOK DEF ConstantsOK, Role
    <3> QED BY <2>1, <3>1 DEF Owners, Waiting
  <2> QED BY <2>1 DEF Waiting, Queued
<1>3. Unread'
  BY DEF Owners, Unread
<1>4. CallbackOpen'
  <2>1. ASSUME NEW t \in Server, NEW q \in Role, pc'[t][q] = "callback", t \in open'[cur'[t][q]]
        PROVE  reader[t][cur'[t][q]] = "recv"
    <3>1. pc[t][q] = "callback" /\ cur'[t][q] = cur[t][q]
      BY <2>1
    <3>2. cur[t][q] \in Conn
      BY <3>1, Current
    <3>3. t \in open[cur[t][q]]
      BY <2>1, <3>1, <3>2
    <3> QED BY <3>1, <3>3 DEF Owners, CallbackOpen
  <2> QED BY <2>1 DEF CallbackOpen
<1>5. EntryIsRead'
  <2>1. \A t \in Server, q \in Role :
           pc[t][q] \in Adding => pc'[t][q] \in Adding /\ cur'[t][q] = cur[t][q]
    BY DEF Handshake, Adding
  <2> QED BY <2>1 DEF Owners, EntryIsRead
<1>6. ReaderHasEntry'
  BY DEF Owners, ReaderHasEntry, PeerOn
<1>7. RunnerHasEntry'
  <2>1. \A t \in Server, q \in Role :
           pc'[t][q] \in Adding => pc[t][q] \in Adding /\ cur'[t][q] = cur[t][q]
    BY DEF Handshake, Adding
  <2> QED BY <2>1 DEF Owners, RunnerHasEntry, PeerOn
<1>8. OpenEndsAreOwned'
  <2>1. ASSUME NEW k \in Conn, NEW t \in open'[k]
        PROVE  \/ Queued(t, k)
               \/ \E q \in Role : cur'[t][q] = k /\ pc'[t][q] # "reclose"
               \/ reader[t][k] = "recv"
    <3>1. t \in open[k] /\ t \in Server
      BY DEF Typed, TypeOK
    <3>2. \/ Queued(t, k)
          \/ \E q \in Role : cur[t][q] = k /\ pc[t][q] # "reclose"
          \/ reader[t][k] = "recv"
      BY <3>1 DEF Owners, OpenEndsAreOwned, Queued
    <3>3. ASSUME NEW q \in Role, cur[t][q] = k, pc[t][q] # "reclose"
          PROVE  \/ cur'[t][q] = k /\ pc'[t][q] # "reclose"
                 \/ reader[t][k] = "recv"
      <4>1. CASE t # s \/ q # r
        BY <3>1, <3>3, <4>1
      <4>2. CASE t = s /\ q = r
        BY <2>1, <3>3, <4>2
      <4> QED BY <4>1, <4>2
    <3> QED BY <3>2, <3>3
  <2> QED BY <2>1 DEF OpenEndsAreOwned, Queued
<1> QED BY <1>1, <1>2, <1>3, <1>4, <1>5, <1>6, <1>7, <1>8 DEF Owners

\* A step that touches nothing of this.
LEMMA SameOwners ==
    ASSUME Owners, UNCHANGED <<pc, cur, clients, reader, backlog, from, to, open>>
    PROVE  Owners'
<1>1. Distinct' /\ Waiting' /\ Unread' /\ CallbackOpen'
  BY DEF Owners, Distinct, Waiting, Queued, Unread, CallbackOpen
<1>2. EntryIsRead' /\ ReaderHasEntry' /\ RunnerHasEntry'
  BY DEF Owners, EntryIsRead, ReaderHasEntry, RunnerHasEntry, PeerOn
<1>3. OpenEndsAreOwned'
  BY DEF Owners, OpenEndsAreOwned
<1> QED BY <1>1, <1>2, <1>3 DEF Owners

\* A process ends.
LEMMA DieOwners ==
    ASSUME Typed, Owners, NEW s \in Server, Die(s)
    PROVE  Owners'
<1>1. /\ \A r \in Role : pc'[s][r] = "wait" /\ cur'[s][r] = None
      /\ \A p \in Server : clients'[s][p] = None
      /\ \A k \in Conn : reader'[s][k] = "none" /\ open'[k] = open[k] \ {s}
      /\ backlog'[s] = <<>>
      /\ \A t \in Server : t # s =>
            /\ pc'[t] = pc[t] /\ cur'[t] = cur[t] /\ clients'[t] = clients[t]
            /\ reader'[t] = reader[t] /\ backlog'[t] = backlog[t]
  BY DieTyped DEF Typed
<1>0. UNCHANGED <<from, to>>
  BY DEF Die
<1>2. Distinct'
  BY <1>1 DEF Owners, Distinct
<1>3. Waiting'
  BY <1>1 DEF Owners, Waiting, Queued
<1>4. Unread'
  BY <1>1 DEF Owners, Unread, Handshake
<1>5. CallbackOpen'
  <2>1. ASSUME NEW t \in Server, NEW q \in Role, pc'[t][q] = "callback", t \in open'[cur'[t][q]]
        PROVE  reader'[t][cur'[t][q]] = "recv"
    <3>1. t # s
      BY <1>1, <2>1
    <3>2. pc[t][q] = "callback" /\ cur[t][q] \in Conn
      BY <1>1, <2>1, <3>1, Current
    <3> QED BY <1>1, <2>1, <3>1, <3>2 DEF Owners, CallbackOpen
  <2> QED BY <2>1 DEF CallbackOpen
<1>6. EntryIsRead'
  BY <1>1 DEF Owners, EntryIsRead
<1>7. ReaderHasEntry'
  BY <1>0, <1>1 DEF Owners, ReaderHasEntry, PeerOn
<1>8. RunnerHasEntry'
  BY <1>0, <1>1 DEF Owners, RunnerHasEntry, PeerOn, Adding
<1>9. OpenEndsAreOwned'
  <2>1. ASSUME NEW k \in Conn, NEW t \in open'[k]
        PROVE  \/ \E i \in DOMAIN backlog'[t] : backlog'[t][i] = k
               \/ \E r \in Role : cur'[t][r] = k /\ pc'[t][r] # "reclose"
               \/ reader'[t][k] = "recv"
    <3>1. t # s /\ t \in open[k] /\ t \in Server
      BY <1>1, <2>1 DEF Typed, TypeOK
    <3> QED BY <1>1, <3>1 DEF Owners, OpenEndsAreOwned
  <2> QED BY <2>1 DEF OpenEndsAreOwned
<1> QED BY <1>2, <1>3, <1>4, <1>5, <1>6, <1>7, <1>8, <1>9 DEF Owners

\* connect() queues the connection at the other end, behind those that wait.
LEMMA AppendQueued ==
    ASSUME Typed, NEW p \in Server, NEW k \in Conn, backlog'[p] = Append(backlog[p], k),
           \A t \in Server : t # p => backlog'[t] = backlog[t]
    PROVE  \A t \in Server, j \in Conn : Queued(t, j)' <=> Queued(t, j) \/ (t = p /\ j = k)
<1>1. ASSUME NEW t \in Server, NEW j \in Conn
      PROVE  (\E i \in DOMAIN backlog'[t] : backlog'[t][i] = j)
                <=> (\E i \in DOMAIN backlog[t] : backlog[t][i] = j) \/ (t = p /\ j = k)
  <2>1. CASE t # p
    BY <2>1
  <2>2. CASE t = p
    <3>1. backlog[t] \in Seq(Conn) /\ backlog'[t] = Append(backlog[t], k)
      BY <2>2 DEF Typed, TypeOK
    <3>2. /\ DOMAIN backlog'[t] = 1 .. Len(backlog[t]) + 1
          /\ DOMAIN backlog[t] = 1 .. Len(backlog[t])
          /\ Len(backlog[t]) \in Nat
          /\ backlog'[t][Len(backlog[t]) + 1] = k
          /\ \A i \in DOMAIN backlog[t] : backlog'[t][i] = backlog[t][i]
      BY <3>1
    <3> QED BY <2>2, <3>2
  <2> QED BY <2>1, <2>2
<1> QED BY <1>1 DEF Queued

\* A connection is made: it was nobody's before.
LEMMA OpenSocketOwners ==
    ASSUME Typed, Owners, NEW s \in Server, OpenSocket(s)
    PROVE  Owners'
<1>0. OpenSocketDoes(s)
  BY OpenSocketEffect
<1>1. /\ main[s] # "down" /\ pc[s]["udp"] = "open" /\ cur[s]["udp"] = None
      /\ target[s] \in Server \ {s}
      /\ UNCHANGED <<clients, reader>>
  BY <1>0 DEF OpenSocketDoes
<1>2. CASE PcAt(s, "udp", "wait") /\ UNCHANGED <<from, to, open, backlog, cur, victim>>
  <2>1. CurAt(s, "udp", cur[s]["udp"])
    BY <1>2, SameCur DEF Typed, Role
  <2> QED BY <1>1, <1>2, <2>1, ThreadOwners DEF Handshake, Adding, Role
<1>3. ASSUME NEW k \in Conn,
             from[k] = None,
             from' = [from EXCEPT ![k] = s],
             to' = [to EXCEPT ![k] = target[s]],
             open' = [open EXCEPT ![k] = {s, target[s]}],
             backlog' = [backlog EXCEPT ![target[s]] = Append(@, k)],
             CurAt(s, "udp", k), PcAt(s, "udp", "send")
      PROVE  Owners'
  <2>p. PICK p \in Server : p = target[s] /\ p # s
    BY <1>1
  <2>0. k # None /\ "udp" # "tcp" /\ "udp" \in Role /\ "tcp" \in Role
    BY ConstantsOK DEF ConstantsOK, Role
  <2>1. /\ from'[k] = s /\ to'[k] = p /\ open'[k] = {s, p}
        /\ \A j \in Conn : j # k => from'[j] = from[j] /\ to'[j] = to[j] /\ open'[j] = open[j]
        /\ backlog'[p] = Append(backlog[p], k)
        /\ \A t \in Server : t # p => backlog'[t] = backlog[t]
    BY <1>3, <2>p DEF Typed, TypeOK
  <2>2. \A t \in Server : ~EndOf(t, k)
    BY <1>3 DEF EndOf, Made
  <2>3. \A t \in Server : reader[t][k] = "none" /\ ~Queued(t, k) /\ \A q \in Role : cur[t][q] # k
    <3>1. \A t \in Server : reader[t][k] = "none" /\ ~Queued(t, k)
      BY <2>2, QueuedApart DEF Typed, Shape, Related, Readers
    <3>2. ASSUME NEW t \in Server, NEW q \in Role, cur[t][q] = k
          PROVE  FALSE
      BY <2>0, <2>2, <3>2, Current, ConstantsOK DEF Typed, Shape, Labelled
    <3> QED BY <3>1, <3>2
  <2>4. \A t \in Server, j \in Conn : Queued(t, j)' <=> Queued(t, j) \/ (t = p /\ j = k)
    BY <2>1, <2>p, AppendQueued
  <2>5. \A t \in Server, j \in Conn : j # k => PeerOn(t, j)' = PeerOn(t, j)
    BY <2>1 DEF PeerOn
  <2>6. /\ \A t \in Server : cur'[t]["tcp"] = cur[t]["tcp"]
        /\ \A t \in Server, q \in Role : cur[t][q] # None =>
              cur'[t][q] = cur[t][q] /\ pc'[t][q] = pc[t][q]
        /\ \A t \in Server, q \in Role : (t = s /\ q = "udp") \/ (cur'[t][q] = cur[t][q] /\ pc'[t][q] = pc[t][q])
    <3>1. \A t \in Server, q \in Role :
             t # s \/ q # "udp" => cur'[t][q] = cur[t][q] /\ pc'[t][q] = pc[t][q]
      BY <1>3 DEF CurAt, PcAt
    <3>2. \A t \in Server : cur'[t]["tcp"] = cur[t]["tcp"]
      BY <2>0, <3>1
    <3>3. \A t \in Server, q \in Role : cur[t][q] # None => t # s \/ q # "udp"
      BY <1>1
    <3>4. \A t \in Server, q \in Role : cur[t][q] # None =>
             cur'[t][q] = cur[t][q] /\ pc'[t][q] = pc[t][q]
      BY <3>1, <3>3
    <3>5. \A t \in Server, q \in Role :
             (t = s /\ q = "udp") \/ (cur'[t][q] = cur[t][q] /\ pc'[t][q] = pc[t][q])
      BY <3>1
    <3> QED BY <3>2, <3>4, <3>5
  <2>7. Distinct'
    <3>1. ASSUME NEW t \in Server, NEW i \in DOMAIN backlog'[t], NEW j \in DOMAIN backlog'[t],
                 backlog'[t][i] = backlog'[t][j]
          PROVE  i = j
      <4>1. CASE t # p
        BY <2>1, <3>1, <4>1 DEF Owners, Distinct
      <4>2. CASE t = p
        <5>1. backlog[t] \in Seq(Conn) /\ backlog'[t] = Append(backlog[t], k)
          BY <2>1, <4>2 DEF Typed, TypeOK
        <5>2. /\ DOMAIN backlog'[t] = 1 .. Len(backlog[t]) + 1
              /\ DOMAIN backlog[t] = 1 .. Len(backlog[t])
              /\ Len(backlog[t]) \in Nat
              /\ backlog'[t][Len(backlog[t]) + 1] = k
              /\ \A n \in DOMAIN backlog[t] : backlog'[t][n] = backlog[t][n]
          BY <5>1
        <5>3. \A n \in DOMAIN backlog[t] : backlog[t][n] # k
          BY <2>3 DEF Queued
        <5>4. \A n \in DOMAIN backlog'[t] : n \in DOMAIN backlog[t] \/ n = Len(backlog[t]) + 1
          BY <5>2
        <5>5. \A n, l \in DOMAIN backlog[t] : backlog[t][n] = backlog[t][l] => n = l
          BY DEF Owners, Distinct
        <5> QED BY <3>1, <5>2, <5>3, <5>4, <5>5
      <4> QED BY <4>1, <4>2
    <3> QED BY <3>1 DEF Distinct
  <2>8. Waiting'
    <3>1. ASSUME NEW t \in Server, NEW j \in Conn, Queued(t, j)'
          PROVE  reader[t][j] = "none" /\ cur'[t]["tcp"] # j
      BY <2>0, <2>3, <2>4, <2>6, <3>1 DEF Owners, Waiting
    <3> QED BY <1>1, <3>1 DEF Waiting
  <2>9. Unread'
    <3>1. cur'[s]["udp"] = k
      BY <1>3 DEF CurAt
    <3> QED BY <1>1, <2>3, <2>6, <3>1 DEF Owners, Unread
  <2>10. CallbackOpen'
    <3>1. ASSUME NEW t \in Server, NEW q \in Role, pc'[t][q] = "callback", t \in open'[cur'[t][q]]
          PROVE  reader[t][cur'[t][q]] = "recv"
      <4>1. ~(t = s /\ q = "udp")
        BY <1>3, <3>1 DEF PcAt
      <4>2. pc[t][q] = "callback" /\ cur'[t][q] = cur[t][q]
        BY <2>6, <3>1, <4>1
      <4>3. cur[t][q] \in Conn /\ cur[t][q] # k
        BY <2>3, <4>2, Current
      <4> QED BY <2>1, <3>1, <4>2, <4>3 DEF Owners, CallbackOpen
    <3> QED BY <1>1, <3>1 DEF CallbackOpen
  <2>11. EntryIsRead'
    BY <1>1, <2>6 DEF Owners, EntryIsRead
  <2>12. ReaderHasEntry'
    BY <1>1, <2>3, <2>5 DEF Owners, ReaderHasEntry
  <2>13. RunnerHasEntry'
    <3>1. ASSUME NEW t \in Server, NEW q \in Role, pc'[t][q] \in Adding
          PROVE  clients[t][IF from'[cur'[t][q]] = t THEN to'[cur'[t][q]] ELSE from'[cur'[t][q]]]
                     = cur'[t][q]
      <4>1. ~(t = s /\ q = "udp")
        BY <1>3, <3>1 DEF PcAt, Adding
      <4>2. pc[t][q] \in Adding /\ cur'[t][q] = cur[t][q]
        BY <2>6, <3>1, <4>1
      <4>3. cur[t][q] \in Conn /\ cur[t][q] # k
        BY <2>3, <4>2, Current DEF Adding
      <4>4. from'[cur[t][q]] = from[cur[t][q]] /\ to'[cur[t][q]] = to[cur[t][q]]
        BY <2>1, <4>3
      <4> QED BY <4>2, <4>4 DEF Owners, RunnerHasEntry, PeerOn
    <3> QED BY <1>1, <3>1 DEF RunnerHasEntry, PeerOn
  <2>14. OpenEndsAreOwned'
    <3>1. ASSUME NEW j \in Conn, NEW t \in open'[j]
          PROVE  \/ Queued(t, j)'
                 \/ \E q \in Role : cur'[t][q] = j /\ pc'[t][q] # "reclose"
                 \/ reader[t][j] = "recv"
      <4>1. CASE j = k
        <5>1. t = s \/ t = p
          BY <2>1, <4>1
        <5>2. cur'[s]["udp"] = k /\ pc'[s]["udp"] = "send"
          BY <1>3 DEF CurAt, PcAt
        <5>3. Queued(p, k)'
          BY <2>0, <2>4
        <5> QED BY <2>0, <4>1, <5>1, <5>2, <5>3
      <4>2. CASE j # k
        <5>1. t \in open[j] /\ t \in Server
          BY <2>1, <4>2 DEF Typed, TypeOK
        <5>2. \/ Queued(t, j)
              \/ \E q \in Role : cur[t][q] = j /\ pc[t][q] # "reclose"
              \/ reader[t][j] = "recv"
          BY <5>1 DEF Owners, OpenEndsAreOwned, Queued
        <5>3. j # None
          BY ConstantsOK DEF ConstantsOK
        <5> QED BY <2>4, <2>6, <5>1, <5>2, <5>3
      <4> QED BY <4>1, <4>2
    <3> QED BY <1>1, <3>1 DEF OpenEndsAreOwned, Queued
  <2> QED BY <2>7, <2>8, <2>9, <2>10, <2>11, <2>12, <2>13, <2>14 DEF Owners
<1> QED BY <1>0, <1>2, <1>3 DEF OpenSocketDoes

\* accept(): the connection passes from the queue to the thread.
LEMMA AcceptOwners ==
    ASSUME Typed, Owners, NEW s \in Server, Accept(s)
    PROVE  Owners'
<1>0. AcceptDoes(s)
  BY AcceptEffect
<1>k. PICK k \in Conn : k = Head(backlog[s])
  BY <1>0 DEF AcceptDoes
<1>1. /\ pc[s]["tcp"] = "wait"
      /\ k = backlog[s][1] /\ 1 \in DOMAIN backlog[s]
      /\ CurAt(s, "tcp", k) /\ PcAt(s, "tcp", "read")
      /\ UNCHANGED <<clients, reader, from, to, open>>
  BY <1>0, <1>k DEF AcceptDoes
<1>2. /\ \A i \in DOMAIN backlog'[s] :
            i + 1 \in DOMAIN backlog[s] /\ backlog'[s][i] = backlog[s][i + 1]
      /\ \A i \in DOMAIN backlog[s] : i = 1 \/
            (i - 1 \in DOMAIN backlog'[s] /\ backlog'[s][i - 1] = backlog[s][i])
      /\ \A t \in Server : t # s => backlog'[t] = backlog[t]
      /\ \A t \in Server : DOMAIN backlog'[t] \subseteq Nat \ {0}
  <2>1. backlog' \in [Server -> Seq(Conn)]
    BY <1>0 DEF AcceptDoes
  <2> QED BY <1>0, <2>1 DEF AcceptDoes
<1>3. /\ "udp" # "tcp" /\ "udp" \in Role /\ "tcp" \in Role /\ k # None
      /\ cur[s]["tcp"] = None
  <2>1. "tcp" \in Role
    BY DEF Role
  <2> QED BY <1>1, <2>1, ConstantsOK DEF ConstantsOK, Role, Typed, Shape, Labelled
<1>4. Queued(s, k) /\ reader[s][k] = "none" /\ cur[s]["udp"] # k
  <2>1. Queued(s, k)
    BY <1>1 DEF Queued
  <2> QED BY <2>1, QueuedApart DEF Owners, Waiting
<1>5. /\ \A t \in Server, q \in Role :
            t # s \/ q # "tcp" => cur'[t][q] = cur[t][q] /\ pc'[t][q] = pc[t][q]
      /\ cur'[s]["tcp"] = k /\ pc'[s]["tcp"] = "read"
  BY <1>1 DEF CurAt, PcAt
<1>6. \A t \in Server, j \in Conn : Queued(t, j) => Queued(t, j)' \/ (t = s /\ j = k)
  BY <1>1, <1>2 DEF Queued
<1>7. \A t \in Server, j \in Conn : Queued(t, j)' => Queued(t, j) /\ (t = s => j # k)
  <2>1. ASSUME NEW t \in Server, NEW i \in DOMAIN backlog'[t]
        PROVE  Queued(t, backlog'[t][i]) /\ (t = s => backlog'[t][i] # k)
    <3>1. CASE t # s
      BY <1>2, <2>1, <3>1 DEF Queued
    <3>2. CASE t = s
      <4>1. i + 1 \in DOMAIN backlog[s] /\ backlog'[s][i] = backlog[s][i + 1] /\ i + 1 # 1
        BY <1>2, <2>1, <3>2
      <4> QED BY <1>1, <3>2, <4>1 DEF Queued, Owners, Distinct
    <3> QED BY <3>1, <3>2
  <2> QED BY <2>1 DEF Queued
<1>8. Distinct'
  <2>1. ASSUME NEW t \in Server, NEW i \in DOMAIN backlog'[t], NEW j \in DOMAIN backlog'[t],
               backlog'[t][i] = backlog'[t][j]
        PROVE  i = j
    <3>1. CASE t # s
      BY <1>2, <2>1, <3>1 DEF Owners, Distinct
    <3>2. CASE t = s
      <4>1. /\ i + 1 \in DOMAIN backlog[s] /\ j + 1 \in DOMAIN backlog[s]
            /\ backlog[s][i + 1] = backlog[s][j + 1] /\ i \in Nat /\ j \in Nat
        BY <1>2, <2>1, <3>2
      <4>2. i + 1 = j + 1
        BY <4>1 DEF Owners, Distinct
      <4> QED BY <4>1, <4>2
    <3> QED BY <3>1, <3>2
  <2> QED BY <2>1 DEF Distinct
<1>9. Waiting'
  <2>1. ASSUME NEW t \in Server, NEW j \in Conn, Queued(t, j)'
        PROVE  reader[t][j] = "none" /\ cur'[t]["tcp"] # j
    BY <1>3, <1>5, <1>7, <2>1 DEF Owners, Waiting
  <2> QED BY <1>1, <2>1 DEF Waiting
<1>10. Unread'
  BY <1>1, <1>4, <1>5 DEF Owners, Unread
<1>11. CallbackOpen'
  BY <1>1, <1>5 DEF Owners, CallbackOpen
<1>12. EntryIsRead'
  <2>1. \A t \in Server, q \in Role :
           pc[t][q] \in Adding => pc'[t][q] \in Adding /\ cur'[t][q] = cur[t][q]
    BY <1>1, <1>5 DEF Adding
  <2> QED BY <1>1, <2>1 DEF Owners, EntryIsRead
<1>13. ReaderHasEntry'
  BY <1>1 DEF Owners, ReaderHasEntry, PeerOn
<1>14. RunnerHasEntry'
  <2>1. \A t \in Server, q \in Role :
           pc'[t][q] \in Adding => pc[t][q] \in Adding /\ cur'[t][q] = cur[t][q]
    BY <1>1, <1>5 DEF Adding
  <2> QED BY <1>1, <2>1 DEF Owners, RunnerHasEntry, PeerOn
<1>15. OpenEndsAreOwned'
  <2>1. ASSUME NEW j \in Conn, NEW t \in open[j]
        PROVE  \/ Queued(t, j)'
               \/ \E q \in Role : cur'[t][q] = j /\ pc'[t][q] # "reclose"
               \/ reader[t][j] = "recv"
    <3>1. t \in Server
      BY DEF Typed, TypeOK
    <3>2. \/ Queued(t, j)
          \/ \E q \in Role : cur[t][q] = j /\ pc[t][q] # "reclose"
          \/ reader[t][j] = "recv"
      BY DEF Owners, OpenEndsAreOwned, Queued
    <3>3. CASE Queued(t, j)
      BY <1>3, <1>5, <1>6, <3>1, <3>3
    <3>4. ASSUME NEW q \in Role, cur[t][q] = j, pc[t][q] # "reclose"
          PROVE  cur'[t][q] = j /\ pc'[t][q] # "reclose"
      <4>1. j # None
        BY ConstantsOK DEF ConstantsOK
      <4> QED BY <1>3, <1>5, <3>1, <3>4, <4>1
    <3> QED BY <3>2, <3>3, <3>4
  <2> QED BY <1>1, <2>1 DEF OpenEndsAreOwned, Queued
<1> QED BY <1>8, <1>9, <1>10, <1>11, <1>12, <1>13, <1>14, <1>15 DEF Owners

\* Connector::addClient under the mutex: the entry is free, so no reader and no
\* other thread relies on it.
LEMMA AddClientOwners ==
    ASSUME Typed, Owners, NEW s \in Server, NEW r \in Role, AddClient(s, r)
    PROVE  Owners'
<1>k. PICK k \in Conn : k = cur[s][r] /\ k # None
  BY Current DEF AddClient, At
<1>p. PICK p \in Server : p = PeerOn(s, k)
  BY <1>k, Current DEF AddClient, At
<1>0. /\ pc[s][r] = "add"
      /\ \/ /\ clients[s][p] = None /\ ClientsAt(s, p, k) /\ InsertedAt(s, r)
            /\ UNCHANGED <<cur, reader, tcp>>
         \/ PcAt(s, r, "close") /\ UNCHANGED <<cur, clients, reader, tcp>>
         \/ Die(s)
  BY <1>k, <1>p, AddClientEffect DEF AddClientDoes
<1>1. CASE Die(s)
  BY <1>1, DieOwners
<1>2. CASE PcAt(s, r, "close") /\ UNCHANGED <<cur, clients, reader, tcp>>
  <2>1. CurAt(s, r, cur[s][r])
    BY <1>2, SameCur DEF Typed
  <2> QED BY <1>0, <1>2, <2>1, ThreadOwners DEF tcp, Handshake, Adding
<1>3. CASE /\ clients[s][p] = None /\ ClientsAt(s, p, k) /\ InsertedAt(s, r)
           /\ UNCHANGED <<cur, reader, tcp>>
  <2>0. UNCHANGED <<cur, reader, from, to, open, backlog>>
    BY <1>3 DEF tcp
  <2>1. /\ \A t, q \in Server : t # s \/ q # p => clients'[t][q] = clients[t][q]
        /\ clients'[s][p] = k /\ pc'[s][r] = "run"
        /\ \A t \in Server, q \in Role : t # s \/ q # r =>
              pc'[t][q] = pc[t][q] \/ (pc[t][q] = "use" /\ pc'[t][q] = "stale")
    BY <1>3 DEF ClientsAt, InsertedAt
  <2>2. Distinct' /\ Waiting'
    BY <2>0 DEF Owners, Distinct, Waiting, Queued
  <2>3. Unread'
    BY <1>0, <2>0, <2>1 DEF Owners, Unread, Handshake
  <2>4. CallbackOpen'
    BY <2>0, <2>1 DEF Owners, CallbackOpen
  <2>5. EntryIsRead'
    <3>1. ASSUME NEW t \in Server, NEW q \in Server, clients'[t][q] # None
          PROVE  \/ reader[t][clients'[t][q]] \in {"recv", "erase"}
                 \/ \E n \in Role : cur[t][n] = clients'[t][q] /\ pc'[t][n] \in Adding
      <4>1. CASE t = s /\ q = p
        BY <1>k, <2>1, <4>1 DEF Adding
      <4>2. CASE t # s \/ q # p
        <5>1. clients'[t][q] = clients[t][q]
          BY <2>1, <4>2
        <5>2. \A n \in Role : pc[t][n] \in Adding => pc'[t][n] \in Adding
          BY <1>0, <2>1 DEF Adding
        <5> QED BY <3>1, <5>1, <5>2 DEF Owners, EntryIsRead
      <4> QED BY <4>1, <4>2
    <3> QED BY <2>0, <3>1 DEF EntryIsRead
  <2>6. ReaderHasEntry'
    <3>1. ASSUME NEW t \in Server, NEW j \in Conn, reader[t][j] \in {"recv", "erase"}
          PROVE  clients'[t][PeerOn(t, j)] = j
      <4>1. clients[t][PeerOn(t, j)] = j /\ j # None
        BY <3>1, ConstantsOK DEF ConstantsOK, Owners, ReaderHasEntry
      <4>2. PeerOn(t, j) \in Server
        <5>1. Made(j) /\ t \in {from[j], to[j]}
          BY <3>1 DEF Typed, Shape, Related, Readers, EndOf
        <5>2. from[j] \in Server /\ to[j] \in Server
          BY <5>1 DEF Typed, TypeOK, Shape, Related, Ends, Made
        <5> QED BY <5>2 DEF PeerOn
      <4> QED BY <1>3, <2>1, <4>1, <4>2
    <3> QED BY <2>0, <3>1 DEF ReaderHasEntry, PeerOn
  <2>7. RunnerHasEntry'
    <3>1. ASSUME NEW t \in Server, NEW q \in Role, pc'[t][q] \in Adding
          PROVE  clients'[t][PeerOn(t, cur[t][q])] = cur[t][q]
      <4>1. CASE t = s /\ q = r
        BY <1>k, <1>p, <2>1, <4>1
      <4>2. CASE t # s \/ q # r
        <5>1. pc[t][q] \in Adding
          BY <2>1, <3>1, <4>2 DEF Adding
        <5>2. clients[t][PeerOn(t, cur[t][q])] = cur[t][q] /\ cur[t][q] # None
              /\ PeerOn(t, cur[t][q]) \in Server
          BY <5>1, Current DEF Owners, RunnerHasEntry, Adding
        <5> QED BY <1>3, <2>1, <5>2
      <4> QED BY <4>1, <4>2
    <3> QED BY <2>0, <3>1 DEF RunnerHasEntry, PeerOn
  <2>8. OpenEndsAreOwned'
    <3>1. \A t \in Server, q \in Role : pc[t][q] # "reclose" => pc'[t][q] # "reclose"
      BY <2>1
    <3>2. \A j \in Conn : open[j] \subseteq Server
      BY DEF Typed, TypeOK
    <3> QED BY <2>0, <3>1, <3>2 DEF Owners, OpenEndsAreOwned
  <2> QED BY <2>2, <2>3, <2>4, <2>5, <2>6, <2>7, <2>8 DEF Owners
<1> QED BY <1>0, <1>1, <1>2, <1>3

\* Connector::runClient looks the client up.
LEMMA RunClientOwners ==
    ASSUME Typed, Owners, NEW s \in Server, NEW r \in Role, RunClient(s, r)
    PROVE  Owners'
<1>1. /\ pc[s][r] = "run" /\ PcAt(s, r, "use")
      /\ UNCHANGED <<cur, clients, reader, from, to, open, backlog>>
  BY RunClientEffect DEF RunClientDoes, tcp
<1>2. CurAt(s, r, cur[s][r])
  BY <1>1, SameCur DEF Typed
<1> QED BY <1>1, <1>2, ThreadOwners DEF Handshake, Adding

\* Connector::runClient starts the reader on the entry that this thread has made.
LEMMA UseClientOwners ==
    ASSUME Typed, Owners, NEW s \in Server, NEW r \in Role, UseClient(s, r)
    PROVE  Owners'
<1>0. /\ pc[s][r] \in {"use", "stale"}
      /\ ReaderAt(s, clients[s][PeerOn(s, cur[s][r])], "recv") /\ PcAt(s, r, "callback")
      /\ UNCHANGED <<cur, clients, from, to, open, backlog>>
  BY UseClientEffect DEF UseClientDoes, tcp
<1>k. PICK k \in Conn : k = cur[s][r] /\ k # None /\ k = clients[s][PeerOn(s, cur[s][r])]
  BY <1>0, Current DEF Owners, RunnerHasEntry, Adding
<1>1. /\ reader'[s][k] = "recv" /\ pc'[s][r] = "callback"
      /\ \A t \in Server, j \in Conn : t # s \/ j # k => reader'[t][j] = reader[t][j]
      /\ \A t \in Server, q \in Role : t # s \/ q # r => pc'[t][q] = pc[t][q]
  BY <1>0, <1>k DEF ReaderAt, PcAt
<1>2. \A q \in Role : q # r => cur[s][q] # k
  BY <1>k, Apart
<1>3. ~Queued(s, k)
  <2>1. r = "udp" \/ r = "tcp"
    BY DEF Role
  <2>2. ASSUME Queued(s, k) PROVE cur[s]["udp"] # k /\ cur[s]["tcp"] # k
    BY <2>2, QueuedApart DEF Owners, Waiting
  <2> QED BY <1>k, <2>1, <2>2
<1>4. Distinct'
  BY <1>0 DEF Owners, Distinct
<1>5. Waiting'
  BY <1>0, <1>1, <1>3 DEF Owners, Waiting, Queued
<1>6. Unread'
  <2>1. ASSUME NEW t \in Server, NEW q \in Role, pc'[t][q] \in Handshake
        PROVE  reader'[t][cur[t][q]] = "none"
    <3>1. t # s \/ q # r
      BY <1>1, <2>1 DEF Handshake
    <3>2. pc[t][q] \in Handshake
      BY <1>1, <2>1, <3>1
    <3>3. cur[t][q] \in Conn
      BY <3>2, Current DEF Handshake
    <3> QED BY <1>1, <1>2, <3>1, <3>2, <3>3 DEF Owners, Unread
  <2> QED BY <1>0, <2>1 DEF Unread
<1>7. CallbackOpen'
  <2>1. ASSUME NEW t \in Server, NEW q \in Role, pc'[t][q] = "callback", t \in open[cur[t][q]]
        PROVE  reader'[t][cur[t][q]] = "recv"
    <3>1. CASE t = s /\ q = r
      BY <1>k, <1>1, <3>1
    <3>2. CASE t # s \/ q # r
      <4>1. pc[t][q] = "callback"
        BY <1>1, <2>1, <3>2
      <4>2. cur[t][q] \in Conn
        BY <4>1, Current
      <4> QED BY <1>1, <2>1, <4>1, <4>2 DEF Owners, CallbackOpen
    <3> QED BY <3>1, <3>2
  <2> QED BY <1>0, <2>1 DEF CallbackOpen
<1>8. EntryIsRead'
  <2>1. ASSUME NEW t \in Server, NEW p \in Server, clients[t][p] # None
        PROVE  \/ reader'[t][clients[t][p]] \in {"recv", "erase"}
               \/ \E n \in Role : cur[t][n] = clients[t][p] /\ pc'[t][n] \in Adding
    <3>1. clients[t][p] \in Conn
      BY <2>1 DEF Typed, TypeOK
    <3>2. CASE t = s /\ clients[t][p] = k
      BY <1>1, <3>2
    <3>3. CASE ~(t = s /\ clients[t][p] = k)
      <4>1. reader'[t][clients[t][p]] = reader[t][clients[t][p]]
        BY <1>1, <3>1, <3>3
      <4>2. \A n \in Role : cur[t][n] = clients[t][p] => pc'[t][n] = pc[t][n]
        BY <1>1, <1>k, <3>3
      <4> QED BY <2>1, <4>1, <4>2 DEF Owners, EntryIsRead
    <3> QED BY <3>2, <3>3
  <2> QED BY <1>0, <2>1 DEF EntryIsRead
<1>9. ReaderHasEntry'
  <2>1. ASSUME NEW t \in Server, NEW j \in Conn, reader'[t][j] \in {"recv", "erase"}
        PROVE  clients[t][PeerOn(t, j)] = j
    <3>1. CASE t = s /\ j = k
      BY <1>k, <3>1
    <3>2. CASE t # s \/ j # k
      BY <1>1, <2>1, <3>2 DEF Owners, ReaderHasEntry
    <3> QED BY <3>1, <3>2
  <2> QED BY <1>0, <2>1 DEF ReaderHasEntry, PeerOn
<1>10. RunnerHasEntry'
  <2>1. \A t \in Server, q \in Role : pc'[t][q] \in Adding => pc[t][q] \in Adding
    BY <1>1 DEF Adding
  <2>2. RunnerHasEntry
    BY DEF Owners
  <2>3. UNCHANGED <<cur, clients, from, to>>
    BY <1>0
  <2> QED BY <2>1, <2>2, <2>3 DEF RunnerHasEntry, PeerOn
<1>11. OpenEndsAreOwned'
  <2>1. /\ \A t \in Server, q \in Role : pc[t][q] # "reclose" => pc'[t][q] # "reclose"
        /\ \A t \in Server, j \in Conn : reader[t][j] = "recv" => reader'[t][j] = "recv"
    BY <1>1
  <2>2. \A j \in Conn : open[j] \subseteq Server
    BY DEF Typed, TypeOK
  <2> QED BY <1>0, <2>1, <2>2 DEF Owners, OpenEndsAreOwned
<1> QED BY <1>4, <1>5, <1>6, <1>7, <1>8, <1>9, <1>10, <1>11 DEF Owners

\* A reader that ends: it closes its own end, and then erases its own entry.
LEMMA ReaderOwners ==
    ASSUME Typed, Owners, NEW s \in Server, NEW k \in Conn, NEW x,
           ReaderAt(s, k, x), UNCHANGED <<pc, cur, backlog, from, to>>,
           \/ ReaderFails(s, k) /\ x = "erase"
           \/ EraseClient(s, k) /\ x = "notify"
           \/ DisconnectCallback(s, k) /\ x = "none"
    PROVE  Owners'
<1>1. /\ reader'[s][k] = x
      /\ \A t \in Server, j \in Conn : t # s \/ j # k => reader'[t][j] = reader[t][j]
  BY DEF ReaderAt
<1>2. \/ reader[s][k] = "recv" /\ x = "erase" /\ clients' = clients /\ s \notin open'[k]
      \/ reader[s][k] = "erase" /\ x = "notify" /\ ClientsAt(s, PeerOn(s, k), None) /\ open' = open
      \/ reader[s][k] = "notify" /\ x = "none" /\ clients' = clients /\ open' = open
  BY ReaderFailsEffect, EraseClientEffect, DisconnectCallbackEffect
     DEF ReaderFailsDoes, EraseClientDoes, DisconnectCallbackDoes, Closed, tcp
<1>3. \A j \in Conn : open'[j] \subseteq open[j]
  BY ReaderFailsEffect, EraseClientEffect, DisconnectCallbackEffect
     DEF ReaderFailsDoes, EraseClientDoes, DisconnectCallbackDoes, Closed, tcp
<1>4. Distinct'
  BY DEF Owners, Distinct
<1>5. Waiting'
  BY <1>1, <1>2 DEF Owners, Waiting, Queued
<1>6. Unread'
  <2>1. ASSUME NEW t \in Server, NEW q \in Role, pc[t][q] \in Handshake
        PROVE  reader'[t][cur[t][q]] = "none"
    <3>1. cur[t][q] \in Conn
      BY <2>1, Current DEF Handshake
    <3> QED BY <1>1, <1>2, <2>1, <3>1 DEF Owners, Unread
  <2> QED BY <2>1 DEF Unread
<1>7. CallbackOpen'
  <2>1. ASSUME NEW t \in Server, NEW q \in Role, pc[t][q] = "callback", t \in open'[cur[t][q]]
        PROVE  reader'[t][cur[t][q]] = "recv"
    <3>1. cur[t][q] \in Conn
      BY <2>1, Current
    <3>2. reader[t][cur[t][q]] = "recv"
      BY <1>3, <2>1, <3>1 DEF Owners, CallbackOpen
    <3> QED BY <1>1, <1>2, <2>1, <3>1, <3>2
  <2> QED BY <2>1 DEF CallbackOpen
<1>8. EntryIsRead'
  <2>1. ASSUME NEW t \in Server, NEW p \in Server, clients'[t][p] # None
        PROVE  \/ reader'[t][clients'[t][p]] \in {"recv", "erase"}
               \/ \E n \in Role : cur[t][n] = clients'[t][p] /\ pc[t][n] \in Adding
    <3>0. clients'[t][p] = clients[t][p]
      BY <1>2, <2>1 DEF ClientsAt
    <3>1. clients'[t][p] = clients[t][p] /\ clients[t][p] \in Conn
      BY <2>1, <3>0 DEF Typed, TypeOK
    <3>2. CASE t = s /\ clients[t][p] = k /\ x = "notify"
      <4>1. p = PeerOn(s, k)
        BY <2>1, <3>1, <3>2 DEF Typed, Shape, Related, Entries
      <4>2. ClientsAt(s, PeerOn(s, k), None)
        BY <1>2, <3>2
      <4> QED BY <2>1, <3>2, <4>1, <4>2 DEF ClientsAt
    <3>3. CASE ~(t = s /\ clients[t][p] = k /\ x = "notify")
      <4>1. \/ reader[t][clients[t][p]] \in {"recv", "erase"}
            \/ \E n \in Role : cur[t][n] = clients[t][p] /\ pc[t][n] \in Adding
        BY <2>1, <3>1 DEF Owners, EntryIsRead
      <4>2. reader[t][clients[t][p]] \in {"recv", "erase"} => reader'[t][clients[t][p]] \in {"recv", "erase"}
        BY <1>1, <1>2, <3>1, <3>3
      <4> QED BY <3>1, <4>1, <4>2
    <3> QED BY <3>2, <3>3
  <2> QED BY <2>1 DEF EntryIsRead
<1>9. ReaderHasEntry'
  <2>1. ASSUME NEW t \in Server, NEW j \in Conn, reader'[t][j] \in {"recv", "erase"}
        PROVE  clients'[t][PeerOn(t, j)] = j
    <3>1. reader[t][j] \in {"recv", "erase"} /\ (t = s /\ j = k => x = "erase")
      BY <1>1, <1>2, <2>1
    <3>2. clients[t][PeerOn(t, j)] = j /\ PeerOn(t, j) \in Server
      BY <3>1 DEF Owners, ReaderHasEntry, Typed, TypeOK, Shape, Related, Ends, Readers, EndOf,
          Made, PeerOn
    <3>3. CASE clients' = clients
      BY <3>2, <3>3
    <3>4. CASE reader[s][k] = "erase" /\ x = "notify" /\ ClientsAt(s, PeerOn(s, k), None)
      <4>1. clients[s][PeerOn(s, k)] = k
        BY <3>4 DEF Owners, ReaderHasEntry
      <4>2. ~(t = s /\ PeerOn(t, j) = PeerOn(s, k))
        BY <3>1, <3>2, <3>4, <4>1
      <4> QED BY <3>2, <3>4, <4>2 DEF ClientsAt
    <3> QED BY <1>2, <3>3, <3>4
  <2> QED BY <2>1 DEF ReaderHasEntry, PeerOn
<1>10. RunnerHasEntry'
  <2>1. ASSUME NEW t \in Server, NEW q \in Role, pc[t][q] \in Adding
        PROVE  clients'[t][PeerOn(t, cur[t][q])] = cur[t][q]
    <3>1. /\ clients[t][PeerOn(t, cur[t][q])] = cur[t][q] /\ PeerOn(t, cur[t][q]) \in Server
          /\ reader[t][cur[t][q]] = "none"
      BY <2>1, Current DEF Owners, RunnerHasEntry, Unread, Handshake, Adding
    <3>2. CASE clients' = clients
      BY <3>1, <3>2
    <3>3. CASE reader[s][k] = "erase" /\ ClientsAt(s, PeerOn(s, k), None)
      <4>1. clients[s][PeerOn(s, k)] = k
        BY <3>3 DEF Owners, ReaderHasEntry
      <4>2. ~(t = s /\ PeerOn(t, cur[t][q]) = PeerOn(s, k))
        BY <3>1, <3>3, <4>1
      <4> QED BY <3>1, <3>3, <4>2 DEF ClientsAt
    <3> QED BY <1>2, <3>2, <3>3
  <2> QED BY <2>1 DEF RunnerHasEntry, PeerOn
<1>11. OpenEndsAreOwned'
  <2>1. ASSUME NEW j \in Conn, NEW t \in open'[j]
        PROVE  \/ Queued(t, j)
               \/ \E q \in Role : cur[t][q] = j /\ pc[t][q] # "reclose"
               \/ reader'[t][j] = "recv"
    <3>1. t \in open[j] /\ t \in Server
      BY <1>3 DEF Typed, TypeOK
    <3>2. \/ Queued(t, j)
          \/ \E q \in Role : cur[t][q] = j /\ pc[t][q] # "reclose"
          \/ reader[t][j] = "recv"
      BY <3>1 DEF Owners, OpenEndsAreOwned, Queued
    <3>3. reader[t][j] = "recv" => reader'[t][j] = "recv"
      BY <1>1, <1>2, <2>1, <3>1
    <3> QED BY <3>2, <3>3
  <2> QED BY <2>1 DEF OpenEndsAreOwned, Queued
<1> QED BY <1>4, <1>5, <1>6, <1>7, <1>8, <1>9, <1>10, <1>11 DEF Owners

\* The steps of one thread that change no entry and start no reader.
LEMMA ThreadStepOwners ==
    ASSUME Typed, Owners, NEW s \in Server, NEW r \in Role,
           \/ r = "udp" /\ (SendAck(s) \/ AwaitResponse(s))
           \/ r = "tcp" /\ (ReadAck(s) \/ Reply(s))
           \/ ConnectCallback(s, r) \/ Close(s, r) \/ CloseAgain(s, r)
    PROVE  Owners'
<1>1. PcAt(s, r, "wait") => "wait" \notin Handshake
  BY DEF Handshake, Adding
<1>2. CASE r = "udp" /\ SendAck(s)
  <2>1. /\ pc[s][r] = "send" /\ UNCHANGED <<cur, clients, reader, from, to, open, backlog>>
        /\ PcAt(s, r, "await") \/ PcAt(s, r, "close")
    BY <1>2, SendAckEffect DEF SendAckDoes
  <2>2. CurAt(s, r, cur[s][r])
    BY <2>1, SameCur DEF Typed
  <2> QED BY <2>1, <2>2, ThreadOwners DEF Handshake, Adding
<1>3. CASE r = "udp" /\ AwaitResponse(s)
  <2>1. /\ pc[s][r] = "await" /\ UNCHANGED <<cur, clients, reader, from, to, open, backlog>>
        /\ PcAt(s, r, "add") \/ PcAt(s, r, "close")
    BY <1>3, AwaitResponseEffect DEF AwaitResponseDoes
  <2>2. CurAt(s, r, cur[s][r])
    BY <2>1, SameCur DEF Typed
  <2> QED BY <2>1, <2>2, ThreadOwners DEF Handshake, Adding
<1>4. CASE r = "tcp" /\ (ReadAck(s) \/ Reply(s))
  <2>1. /\ pc[s][r] \in {"read", "reply"} /\ UNCHANGED <<clients, reader, from, to, backlog>>
        /\ \/ (PcAt(s, r, "reply") \/ PcAt(s, r, "add")) /\ UNCHANGED <<cur, open>>
           \/ PcAt(s, r, "wait") /\ CurAt(s, r, None) /\ Closed(s, cur[s][r])
    BY <1>4, ReadAckEffect, ReplyEffect DEF ReadAckDoes, ReplyDoes
  <2>2. CASE (PcAt(s, r, "reply") \/ PcAt(s, r, "add")) /\ UNCHANGED <<cur, open>>
    <3>1. CurAt(s, r, cur[s][r])
      BY <2>2, SameCur DEF Typed
    <3> QED BY <2>1, <2>2, <3>1, ThreadOwners DEF Handshake, Adding
  <2>3. CASE PcAt(s, r, "wait") /\ CurAt(s, r, None) /\ Closed(s, cur[s][r])
    <3>1. \A j \in Conn : open'[j] \subseteq open[j]
      BY <2>3 DEF Closed
    <3>2. s \notin open'[cur[s][r]]
      BY <2>3 DEF Closed
    <3> QED BY <2>1, <2>3, <3>1, <3>2, ThreadOwners DEF Handshake, Adding
  <2> QED BY <2>1, <2>2, <2>3
<1>5. CASE ConnectCallback(s, r)
  <2>1. /\ pc[s][r] = "callback" /\ PcAt(s, r, "wait") /\ CurAt(s, r, None)
        /\ UNCHANGED <<clients, reader, from, to, open, backlog>>
    BY <1>5, ConnectCallbackEffect DEF ConnectCallbackDoes, tcp
  <2>2. s \notin open'[cur[s][r]] \/ reader[s][cur[s][r]] = "recv"
    BY <2>1 DEF Owners, CallbackOpen
  <2> QED BY <2>1, <2>2, ThreadOwners DEF Handshake, Adding
<1>6. CASE Close(s, r)
  <2>1. /\ pc[s][r] = "close" /\ PcAt(s, r, "reclose") /\ Closed(s, cur[s][r])
        /\ UNCHANGED <<cur, clients, reader, from, to, backlog>>
    BY <1>6, CloseEffect DEF CloseDoes
  <2>2. CurAt(s, r, cur[s][r])
    BY <2>1, SameCur DEF Typed
  <2>3. (\A j \in Conn : open'[j] \subseteq open[j]) /\ s \notin open'[cur[s][r]]
    BY <2>1 DEF Closed
  <2> QED BY <2>1, <2>2, <2>3, ThreadOwners DEF Handshake, Adding
<1>7. CASE CloseAgain(s, r)
  <2>1. /\ pc[s][r] = "reclose" /\ PcAt(s, r, "wait") /\ CurAt(s, r, None)
        /\ UNCHANGED <<clients, reader, from, to, backlog>>
        /\ Closed(s, victim[s][r]) \/ UNCHANGED open
    BY <1>7, CloseAgainEffect DEF CloseAgainDoes
  <2>2. \A j \in Conn : open'[j] \subseteq open[j]
    BY <2>1 DEF Closed
  <2> QED BY <2>1, <2>2, ThreadOwners DEF Handshake, Adding
<1> QED BY <1>2, <1>3, <1>4, <1>5, <1>6, <1>7

\* The UDP thread takes a datagram: it has no connection yet.
LEMMA HandleConnectOwners ==
    ASSUME Typed, Owners, NEW s \in Server, HandleConnect(s)
    PROVE  Owners'
<1>1. /\ pc[s]["udp"] = "wait" /\ (UNCHANGED pc \/ PcAt(s, "udp", "open"))
      /\ UNCHANGED <<cur, clients, reader, from, to, open, backlog>>
  BY HandleConnectEffect DEF HandleConnectDoes, tcp
<1>2. CASE UNCHANGED pc
  BY <1>1, <1>2, SameOwners
<1>3. CASE PcAt(s, "udp", "open")
  <2>1. CurAt(s, "udp", cur[s]["udp"]) /\ "udp" \in Role
    BY <1>1, SameCur DEF Typed, Role
  <2> QED BY <1>1, <1>3, <2>1, ThreadOwners DEF Handshake, Adding
<1> QED BY <1>1, <1>2, <1>3

\* Nothing is owned in the initial state.
LEMMA InitOwners ==
    ASSUME Init
    PROVE  Owners
<1>1. Distinct /\ Waiting /\ OpenEndsAreOwned
  BY DEF Init, Distinct, Waiting, Queued, OpenEndsAreOwned
<1>2. Unread /\ CallbackOpen /\ RunnerHasEntry
  BY DEF Init, Unread, CallbackOpen, RunnerHasEntry, Handshake, Adding
<1>3. EntryIsRead /\ ReaderHasEntry
  BY DEF Init, EntryIsRead, ReaderHasEntry
<1> QED BY <1>1, <1>2, <1>3 DEF Owners

-----------------------------------------------------------------------------
(* The theorems about owners.                                              *)

\* Every step preserves the owners.
LEMMA NextOwners ==
    ASSUME Typed, Owners, [Next]_vars
    PROVE  Owners'
<1>1. CASE UNCHANGED vars
  BY <1>1, SameOwners DEF vars, local, tcp
<1>2. ASSUME NEW s \in Server, Start(s) \/ Announce(s)
      PROVE  Owners'
  BY <1>2, SameOwners, StartEffect, AnnounceEffect DEF StartDoes, AnnounceDoes, local, tcp
<1>3. ASSUME NEW s \in Server, NEW r \in Role, Crash(s) \/ BrokenPipe(s, r) \/ UseMoved(s, r)
      PROVE  Owners'
  BY <1>3, DieOwners DEF Crash, BrokenPipe, UseMoved
<1>4. ASSUME NEW s \in Server, UdpStep(s)
      PROVE  Owners'
  BY <1>4, HandleConnectOwners, OpenSocketOwners, ThreadStepOwners DEF UdpStep, Role
<1>5. ASSUME NEW s \in Server, TcpStep(s)
      PROVE  Owners'
  BY <1>5, AcceptOwners, ThreadStepOwners DEF TcpStep, Role
<1>6. ASSUME NEW s \in Server, NEW r \in Role, Added(s, r)
      PROVE  Owners'
  BY <1>3, <1>6, AddClientOwners, RunClientOwners, UseClientOwners, ThreadStepOwners DEF Added
<1>7. ASSUME NEW s \in Server, NEW k \in Conn, ReaderStep(s, k)
      PROVE  Owners'
  <2>1. CASE ReaderFails(s, k)
    BY <2>1, ReaderFailsEffect, ReaderOwners DEF ReaderFailsDoes
  <2>2. CASE EraseClient(s, k)
    BY <2>2, EraseClientEffect, ReaderOwners DEF EraseClientDoes, tcp
  <2>3. CASE DisconnectCallback(s, k)
    BY <2>3, DisconnectCallbackEffect, ReaderOwners DEF DisconnectCallbackDoes, tcp
  <2> QED BY <1>7, <2>1, <2>2, <2>3 DEF ReaderStep
<1>8. Next => \E s \in Server :
         \/ Start(s) \/ Announce(s) \/ Crash(s) \/ UdpStep(s) \/ TcpStep(s)
         \/ \E r \in Role : Added(s, r) \/ BrokenPipe(s, r)
         \/ \E k \in Conn : ReaderStep(s, k)
  BY DEF Next
<1>9. \A s \in Server : Crash(s) => Owners'
  BY <1>3 DEF Role
<1> QED BY <1>1, <1>2, <1>3, <1>4, <1>5, <1>6, <1>7, <1>8, <1>9

\* The invariant: types and owners, together.
LEMMA OwnersAlways == Spec => [](Typed /\ Owners)
<1>1. Init => Typed /\ Owners
  BY InitTyped, InitOwners
<1>2. Typed /\ Owners /\ [Next]_vars => Typed' /\ Owners'
  BY NextTyped, NextOwners
<1> QED BY <1>1, <1>2, PTL DEF Spec

\* A client's reader reads it and erases its own entry only, although runClient
\* looks the client up after addClient has released the mutex.
THEOREM ClientsHaveTheirReader == Spec => []ClientHasItsReader
<1>1. Typed /\ Owners => ClientHasItsReader
  BY OwnersRead
<1> QED BY <1>1, OwnersAlways, PTL

\* No handshake leaks a descriptor, wherever it fails.
THEOREM NoEndIsLeaked == Spec => []OpenEndsAreOwned
<1>1. Typed /\ Owners => OpenEndsAreOwned
  BY DEF Owners
<1> QED BY <1>1, OwnersAlways, PTL

\* When nothing is in progress, an entry is the other end's entry too: its
\* reader is up, so both ends are open, and the other end can be owned only by
\* a reader, whose entry it is.
LEMMA QuietEntry ==
    ASSUME Typed, Owners, Quiet, NEW s \in Server, NEW p \in Server, clients[s][p] # None
    PROVE  clients[p][s] = clients[s][p]
<1> DEFINE k == clients[s][p]
<1>1. k \in Conn /\ EndOf(s, k) /\ PeerOn(s, k) = p
  BY DEF Typed, TypeOK, Shape, Related, Entries
<1>2. \A t \in Server : Settled(t)
  BY DEF Quiet
<1> HIDE DEF k
<1>3. reader[s][k] \in {"recv", "erase"}
  BY <1>2 DEF k, Owners, EntryIsRead, Settled, Adding
<1>4. OpenAtBothEnds(k)
  BY <1>1, <1>2, <1>3 DEF Settled
<1>5. p \in open[k] /\ EndOf(p, k) /\ PeerOn(p, k) = s
  BY <1>1, <1>4 DEF OpenAtBothEnds, EndOf, PeerOn, Made, Typed, Shape, Related, Ends
<1>6. reader[p][k] = "recv"
  <2>1. Settled(p)
    BY <1>2
  <2>2. backlog[p] = <<>> /\ \A r \in Role : cur[p][r] = None
    BY <2>1 DEF Settled, Typed, Shape, Labelled
  <2>3. k # None
    BY DEF k
  <2> QED BY <1>1, <1>5, <2>2, <2>3 DEF Owners, OpenEndsAreOwned
<1>7. clients[p][s] = k
  BY <1>1, <1>5, <1>6 DEF Owners, ReaderHasEntry
<1> QED BY <1>7 DEF k

\* Two servers agree on whether, and through which connection, they are
\* connected, whenever nothing is in progress.
THEOREM QuietAgreement == Spec => []QuietServersAgree
<1>1. ASSUME Typed, Owners
      PROVE  QuietServersAgree
  <2>1. ASSUME Quiet, NEW s \in Server, NEW p \in Server
        PROVE  clients[s][p] = clients[p][s]
    BY <1>1, <2>1, QuietEntry
  <2> QED BY <2>1 DEF QuietServersAgree
<1> QED BY <1>1, OwnersAlways, PTL

-----------------------------------------------------------------------------
(* Who waits for what in a handshake.                                      *)

Awaiting(s, k) == Serving(s, "udp", k, {"send", "await"})
Sending(s, k) == Serving(s, "udp", k, {"send", "close"})
Answering(s, k) == Queued(s, k) \/ Serving(s, "tcp", k, {"read", "reply"})
Reading(s, k) == Queued(s, k) \/ Serving(s, "tcp", k, {"read"})

Waits == {"send", "await", "read", "reply"}

AnsweredOn(k) ==
    /\ Awaiting(from[k], k) => "response" \in mail[k] \/ Answering(to[k], k)
    /\ Reading(to[k], k) => "ack" \in mail[k] \/ Sending(from[k], k)
Answered == \A k \in Conn : Made(k) /\ OpenAtBothEnds(k) => AnsweredOn(k)

\* The invariant answers the property: what a thread waits for is under way.
LEMMA AnsweredServes ==
    ASSUME Typed, Answered
    PROVE  WaitersAreServed
<1> SUFFICES ASSUME NEW s \in Server
             PROVE  LET out == cur[s]["udp"]
                        in == cur[s]["tcp"]
                    IN
                    /\ At(s, "udp", "await") /\ OpenAtBothEnds(out) /\ "response" \notin mail[out] =>
                          \/ \E i \in DOMAIN backlog[to[out]] : backlog[to[out]][i] = out
                          \/ cur[to[out]]["tcp"] = out /\ pc[to[out]]["tcp"] \in {"read", "reply"}
                    /\ At(s, "tcp", "read") /\ OpenAtBothEnds(in) /\ "ack" \notin mail[in] =>
                          cur[from[in]]["udp"] = in /\ pc[from[in]]["udp"] \in {"send", "close"}
  BY DEF WaitersAreServed
<1> DEFINE out == cur[s]["udp"]
           in == cur[s]["tcp"]
<1>0. "udp" \in Role /\ "tcp" \in Role
  BY DEF Role
<1>1. ASSUME At(s, "udp", "await"), OpenAtBothEnds(out), "response" \notin mail[out]
      PROVE  Answering(to[out], out)
  <2>1. out \in Conn /\ from[out] = s /\ Made(out)
    BY <1>0, <1>1, Current DEF At, EndOf
  <2>2. Awaiting(from[out], out)
    BY <1>1, <2>1 DEF At, Awaiting, Serving
  <2> QED BY <1>1, <2>1, <2>2 DEF Answered, AnsweredOn
<1>2. ASSUME At(s, "tcp", "read"), OpenAtBothEnds(in), "ack" \notin mail[in]
      PROVE  Sending(from[in], in)
  <2>1. in \in Conn /\ to[in] = s /\ Made(in)
    BY <1>0, <1>2, Current DEF At, EndOf
  <2>2. Reading(to[in], in)
    BY <1>2, <2>1 DEF At, Reading, Serving
  <2> QED BY <1>2, <2>1, <2>2 DEF Answered, AnsweredOn
<1> QED BY <1>1, <1>2 DEF Answering, Sending, Serving, Queued

\* A step of a thread that does not wait, and will not, changes no answer.
LEMMA OtherStepAnswered ==
    ASSUME Typed, Answered, UNCHANGED <<mail, backlog, from, to>>,
           \A k \in Conn : open'[k] \subseteq open[k],
           \A s \in Server, r \in Role :
              \/ cur'[s][r] = cur[s][r] /\ pc'[s][r] = pc[s][r]
              \/ /\ pc[s][r] \notin Waits /\ pc'[s][r] \notin Waits
                 /\ pc[s][r] = "close" => s \notin open'[cur[s][r]]
    PROVE  Answered'
<1> SUFFICES ASSUME NEW k \in Conn, Made(k), OpenAtBothEnds(k)'
             PROVE  AnsweredOn(k)'
  BY DEF Answered, Made
<1>0. "udp" \in Role /\ "tcp" \in Role
  BY DEF Role
<1>1. OpenAtBothEnds(k) /\ from[k] \in Server /\ to[k] \in Server
  BY DEF OpenAtBothEnds, Made, Typed, TypeOK, Shape, Related, Ends
<1>2. AnsweredOn(k)
  BY <1>1 DEF Answered
<1>3. \A s \in Server : Awaiting(s, k)' <=> Awaiting(s, k)
  BY <1>0 DEF Awaiting, Serving, Waits
<1>4. \A s \in Server : /\ Answering(s, k)' <=> Answering(s, k)
                        /\ Reading(s, k)' <=> Reading(s, k)
  BY <1>0 DEF Answering, Reading, Serving, Queued, Waits
<1>5. ASSUME Sending(from[k], k)
      PROVE  Sending(from[k], k)'
  <2>1. from[k] \in open'[k]
    BY DEF OpenAtBothEnds
  <2> QED BY <1>0, <1>1, <1>5, <2>1 DEF Sending, Serving, Waits
<1> QED BY <1>1, <1>2, <1>3, <1>4, <1>5 DEF AnsweredOn

\* One connection's answer, for all steps that leave the others' alone.
LEMMA OneAnswered ==
    ASSUME Typed, Answered, UNCHANGED <<from, to>>, NEW c \in Conn,
           \A k \in Conn : open'[k] \subseteq open[k],
           \A k \in Conn : k # c =>
              /\ mail'[k] = mail[k]
              /\ \A s \in Server :
                    /\ Awaiting(s, k)' <=> Awaiting(s, k)
                    /\ Sending(s, k)' <=> Sending(s, k)
                    /\ Answering(s, k)' <=> Answering(s, k)
                    /\ Reading(s, k)' <=> Reading(s, k),
           Made(c) /\ OpenAtBothEnds(c)' => AnsweredOn(c)'
    PROVE  Answered'
<1> SUFFICES ASSUME NEW k \in Conn, Made(k), OpenAtBothEnds(k)', k # c
             PROVE  AnsweredOn(k)'
  BY DEF Answered, Made
<1>1. OpenAtBothEnds(k) /\ from[k] \in Server /\ to[k] \in Server
  BY DEF OpenAtBothEnds, Made, Typed, TypeOK, Shape, Related, Ends
<1>2. AnsweredOn(k)
  BY <1>1 DEF Answered
<1> QED BY <1>1, <1>2 DEF AnsweredOn

\* The other connections when a thread steps on its own.
LEMMA OtherConnections ==
    ASSUME NEW s \in Server, NEW r \in Role, NEW l, NEW x, PcAt(s, r, l), CurAt(s, r, x),
           UNCHANGED backlog, NEW k \in Conn, k # cur[s][r], k # x
    PROVE  \A t \in Server :
              /\ Awaiting(t, k)' <=> Awaiting(t, k)
              /\ Sending(t, k)' <=> Sending(t, k)
              /\ Answering(t, k)' <=> Answering(t, k)
              /\ Reading(t, k)' <=> Reading(t, k)
<1>0. "udp" \in Role /\ "tcp" \in Role
  BY DEF Role
<1>1. \A t \in Server, q \in Role :
         \/ cur'[t][q] = cur[t][q] /\ pc'[t][q] = pc[t][q]
         \/ cur'[t][q] # k /\ cur[t][q] # k
  BY DEF PcAt, CurAt
<1>2. \A t \in Server : /\ Awaiting(t, k)' <=> Awaiting(t, k)
                        /\ Sending(t, k)' <=> Sending(t, k)
  BY <1>0, <1>1 DEF Awaiting, Sending, Serving
<1>3. \A t \in Server : /\ Answering(t, k)' <=> Answering(t, k)
                        /\ Reading(t, k)' <=> Reading(t, k)
  BY <1>0, <1>1 DEF Answering, Reading, Serving, Queued
<1> QED BY <1>2, <1>3

\* The UDP thread sends its request, or waits for the response.
LEMMA UdpAnswered ==
    ASSUME Typed, Owners, Answered, NEW s \in Server, SendAck(s) \/ AwaitResponse(s)
    PROVE  Answered'
<1>0. "udp" \in Role /\ "tcp" \in Role /\ "udp" # "tcp"
  BY DEF Role
<1>1. /\ UNCHANGED <<cur, from, to, open, backlog>>
      /\ \/ /\ pc[s]["udp"] = "send" /\ Posted(cur[s]["udp"], "ack") /\ PcAt(s, "udp", "await")
         \/ /\ pc[s]["udp"] = "await" /\ Taken(cur[s]["udp"], "response") /\ PcAt(s, "udp", "add")
         \/ /\ pc[s]["udp"] \in {"send", "await"} /\ PcAt(s, "udp", "close")
            /\ mail' = mail \/ Posted(cur[s]["udp"], "ack")
  BY SendAckEffect, AwaitResponseEffect DEF SendAckDoes, AwaitResponseDoes
<1>k. PICK k \in Conn : k = cur[s]["udp"] /\ from[k] = s /\ Made(k)
  BY <1>0, <1>1, Current DEF EndOf
<1>2. CurAt(s, "udp", k)
  BY <1>0, <1>1, <1>k, SameCur DEF Typed
<1>3. \A j \in Conn : j # k => mail'[j] = mail[j]
  BY <1>1, <1>k, MailTyped DEF Typed
<1>4. ASSUME NEW j \in Conn, j # k
      PROVE  \A t \in Server :
                /\ Awaiting(t, j)' <=> Awaiting(t, j)
                /\ Sending(t, j)' <=> Sending(t, j)
                /\ Answering(t, j)' <=> Answering(t, j)
                /\ Reading(t, j)' <=> Reading(t, j)
  BY <1>0, <1>1, <1>2, <1>k, <1>4, OtherConnections
<1>5. \A t \in Server : /\ Answering(t, k)' <=> Answering(t, k)
                        /\ Reading(t, k)' <=> Reading(t, k)
  <2>1. \A t \in Server : cur'[t]["tcp"] = cur[t]["tcp"] /\ pc'[t]["tcp"] = pc[t]["tcp"]
    BY <1>0, <1>1 DEF PcAt
  <2> QED BY <1>1, <2>1 DEF Answering, Reading, Serving, Queued
<1>6. ASSUME OpenAtBothEnds(k)'
      PROVE  AnsweredOn(k)'
  <2>1. OpenAtBothEnds(k) /\ AnsweredOn(k) /\ to[k] \in Server
    BY <1>1, <1>6, <1>k DEF Answered, OpenAtBothEnds, Made, Typed, TypeOK, Shape, Related, Ends
  <2>2. cur[s]["udp"] = k /\ cur'[s]["udp"] = k
    BY <1>1, <1>k
  <2>3. mail \in [Conn -> SUBSET {"ack", "response"}]
    BY DEF Typed, TypeOK
  <2>4. CASE pc[s]["udp"] = "send" /\ Posted(k, "ack") /\ PcAt(s, "udp", "await")
    <3>1. mail'[k] = mail[k] \cup {"ack"}
      BY <2>1, <2>3, <2>4 DEF Posted
    <3>2. Awaiting(s, k)
      BY <2>2, <2>4 DEF Awaiting, Serving
    <3>3. "response" \in mail[k] \/ Answering(to[k], k)
      BY <1>k, <2>1, <3>2 DEF AnsweredOn
    <3> QED BY <1>1, <1>5, <2>1, <3>1, <3>3 DEF AnsweredOn
  <2>5. CASE pc[s]["udp"] = "await" /\ Taken(k, "response") /\ PcAt(s, "udp", "add")
    <3>1. mail'[k] = mail[k] \ {"response"}
      BY <2>3, <2>5 DEF Taken
    <3>2. ~Awaiting(s, k)' /\ ~Sending(s, k)
      BY <2>2, <2>5 DEF Awaiting, Sending, Serving, PcAt
    <3>3. Reading(to[k], k) => "ack" \in mail[k]
      BY <1>k, <2>1, <3>2 DEF AnsweredOn
    <3> QED BY <1>1, <1>k, <1>5, <2>1, <3>1, <3>2, <3>3 DEF AnsweredOn
  <2>6. CASE PcAt(s, "udp", "close")
    <3>1. ~Awaiting(s, k)' /\ Sending(s, k)'
      BY <1>0, <2>2, <2>6 DEF Awaiting, Sending, Serving, PcAt
    <3> QED BY <1>1, <1>k, <3>1 DEF AnsweredOn
  <2> QED BY <1>1, <1>k, <2>4, <2>5, <2>6
<1> QED BY <1>1, <1>3, <1>4, <1>6, OneAnswered

\* The TCP thread reads the request, answers, or gives up.
LEMMA TcpAnswered ==
    ASSUME Typed, Owners, Answered, NEW s \in Server, ReadAck(s) \/ Reply(s)
    PROVE  Answered'
<1>0. "udp" \in Role /\ "tcp" \in Role /\ "udp" # "tcp"
  BY DEF Role
<1>1. /\ UNCHANGED <<from, to, backlog>>
      /\ \/ /\ pc[s]["tcp"] = "read" /\ Taken(cur[s]["tcp"], "ack") /\ PcAt(s, "tcp", "reply")
            /\ UNCHANGED <<cur, open>>
         \/ /\ pc[s]["tcp"] = "reply" /\ Posted(cur[s]["tcp"], "response") /\ PcAt(s, "tcp", "add")
            /\ UNCHANGED <<cur, open>>
         \/ /\ pc[s]["tcp"] \in {"read", "reply"}
            /\ mail' = mail \/ Posted(cur[s]["tcp"], "response")
            /\ CurAt(s, "tcp", None) /\ PcAt(s, "tcp", "wait") /\ Closed(s, cur[s]["tcp"])
  BY ReadAckEffect, ReplyEffect DEF ReadAckDoes, ReplyDoes
<1>k. PICK k \in Conn : k = cur[s]["tcp"] /\ to[k] = s /\ Made(k)
  BY <1>0, <1>1, Current DEF EndOf
<1>x. PICK x : CurAt(s, "tcp", x) /\ (x = k \/ x = None)
  BY <1>0, <1>1, <1>k, SameCur DEF Typed
<1>2. \A j \in Conn : j # None
  BY ConstantsOK DEF ConstantsOK
<1>3. \A j \in Conn : j # k => mail'[j] = mail[j]
  BY <1>1, <1>k, MailTyped DEF Typed
<1>4. ASSUME NEW j \in Conn, j # k
      PROVE  \A t \in Server :
                /\ Awaiting(t, j)' <=> Awaiting(t, j)
                /\ Sending(t, j)' <=> Sending(t, j)
                /\ Answering(t, j)' <=> Answering(t, j)
                /\ Reading(t, j)' <=> Reading(t, j)
  <2>1. PICK l : PcAt(s, "tcp", l)
    BY <1>1
  <2> QED BY <1>0, <1>1, <1>2, <1>x, <1>k, <1>4, <2>1, OtherConnections
<1>5. \A j \in Conn : open'[j] \subseteq open[j]
  BY <1>1 DEF Closed
<1>6. ASSUME OpenAtBothEnds(k)'
      PROVE  AnsweredOn(k)'
  <2>1. OpenAtBothEnds(k) /\ AnsweredOn(k) /\ from[k] \in Server
    BY <1>1, <1>5, <1>6, <1>k DEF Answered, OpenAtBothEnds, Made, Typed, TypeOK
  <2>2. UNCHANGED cur /\ ~Closed(s, k)
    <3>1. s \in open'[k]
      BY <1>1, <1>6, <1>k DEF OpenAtBothEnds
    <3>2. ~Closed(s, k)
      BY <3>1 DEF Closed
    <3> QED BY <1>1, <1>k, <3>2
  <2>3. mail \in [Conn -> SUBSET {"ack", "response"}]
    BY DEF Typed, TypeOK
  <2>4. \A t \in Server : /\ Awaiting(t, k)' <=> Awaiting(t, k)
                          /\ Sending(t, k)' <=> Sending(t, k)
    <3>1. \A t \in Server : pc'[t]["udp"] = pc[t]["udp"]
      BY <1>0, <1>1 DEF PcAt
    <3> QED BY <2>2, <3>1 DEF Awaiting, Sending, Serving
  <2>5. ~Queued(s, k)
    BY <1>k DEF Owners, Waiting
  <2>6. ~Reading(s, k)'
    <3>1. pc'[s]["tcp"] # "read"
      BY <1>1 DEF PcAt
    <3> QED BY <1>1, <2>5, <3>1 DEF Reading, Serving, Queued
  <2>7. CASE pc[s]["tcp"] = "read" /\ Taken(k, "ack") /\ PcAt(s, "tcp", "reply")
    <3>1. mail'[k] = mail[k] \ {"ack"}
      BY <2>3, <2>7 DEF Taken
    <3>2. Answering(s, k)'
      BY <1>k, <2>2, <2>7 DEF Answering, Serving, PcAt
    <3> QED BY <1>1, <1>k, <2>1, <2>6, <3>2 DEF AnsweredOn
  <2>8. CASE pc[s]["tcp"] = "reply" /\ Posted(k, "response") /\ PcAt(s, "tcp", "add")
    <3>1. "response" \in mail'[k]
      BY <2>1, <2>3, <2>8 DEF Posted
    <3> QED BY <1>1, <1>k, <2>6, <3>1 DEF AnsweredOn
  <2> QED BY <1>1, <1>k, <2>2, <2>7, <2>8
<1> QED BY <1>1, <1>3, <1>4, <1>5, <1>6, OneAnswered

\* accept() does not lose the request that waits.
LEMMA AcceptAnswered ==
    ASSUME Typed, Owners, Answered, NEW s \in Server, Accept(s)
    PROVE  Answered'
<1>0. "udp" \in Role /\ "tcp" \in Role /\ "udp" # "tcp"
  BY DEF Role
<1>a. AcceptDoes(s)
  BY AcceptEffect
<1>k. PICK k \in Conn : k = Head(backlog[s])
  BY <1>a DEF AcceptDoes
<1>1. /\ pc[s]["tcp"] = "wait"
      /\ k = backlog[s][1] /\ 1 \in DOMAIN backlog[s]
      /\ CurAt(s, "tcp", k) /\ PcAt(s, "tcp", "read")
      /\ UNCHANGED <<mail, from, to, open>>
  BY <1>a, <1>k DEF AcceptDoes
<1>2. /\ \A i \in DOMAIN backlog'[s] :
            i + 1 \in DOMAIN backlog[s] /\ backlog'[s][i] = backlog[s][i + 1]
      /\ \A i \in DOMAIN backlog[s] : i = 1 \/
            (i - 1 \in DOMAIN backlog'[s] /\ backlog'[s][i - 1] = backlog[s][i])
      /\ \A t \in Server : t # s => backlog'[t] = backlog[t]
  BY <1>a DEF AcceptDoes
<1>3. \A t \in Server, j \in Conn : Queued(t, j) => Queued(t, j)' \/ (t = s /\ j = k)
  BY <1>1, <1>2 DEF Queued
<1>4. \A t \in Server, j \in Conn : Queued(t, j)' => Queued(t, j)
  BY <1>2 DEF Queued
<1>5. Queued(s, k)
  BY <1>1 DEF Queued
<1>6. /\ \A t \in Server : cur'[t]["udp"] = cur[t]["udp"] /\ pc'[t]["udp"] = pc[t]["udp"]
      /\ \A t \in Server : t # s => cur'[t]["tcp"] = cur[t]["tcp"] /\ pc'[t]["tcp"] = pc[t]["tcp"]
      /\ cur'[s]["tcp"] = k /\ pc'[s]["tcp"] = "read"
  BY <1>0, <1>1 DEF CurAt, PcAt
<1>7. ASSUME NEW t \in Server, NEW j \in Conn
      PROVE  /\ Awaiting(t, j)' <=> Awaiting(t, j)
             /\ Sending(t, j)' <=> Sending(t, j)
  BY <1>6 DEF Awaiting, Sending, Serving
<1>8. ASSUME NEW t \in Server, NEW j \in Conn, Answering(t, j)
      PROVE  Answering(t, j)'
  <2>1. CASE Queued(t, j)
    BY <1>3, <1>6, <2>1 DEF Answering, Serving
  <2>2. CASE Serving(t, "tcp", j, {"read", "reply"})
    <3>1. t # s
      BY <1>1, <2>2 DEF Serving
    <3> QED BY <1>6, <2>2, <3>1 DEF Answering, Serving
  <2> QED BY <1>8, <2>1, <2>2 DEF Answering
<1>9. ASSUME NEW t \in Server, NEW j \in Conn, Reading(t, j)'
      PROVE  Reading(t, j)
  <2>1. CASE Queued(t, j)'
    BY <1>4, <2>1 DEF Reading
  <2>2. CASE Serving(t, "tcp", j, {"read"})'
    <3>1. CASE t = s
      BY <1>5, <1>6, <2>2, <3>1 DEF Reading, Serving
    <3>2. CASE t # s
      BY <1>6, <2>2, <3>2 DEF Reading, Serving
    <3> QED BY <3>1, <3>2
  <2> QED BY <1>9, <2>1, <2>2 DEF Reading
<1>10. ASSUME NEW j \in Conn, Made(j), OpenAtBothEnds(j)'
       PROVE  AnsweredOn(j)'
  <2>1. AnsweredOn(j) /\ from[j] \in Server /\ to[j] \in Server
    BY <1>1, <1>10 DEF Answered, OpenAtBothEnds, Made, Typed, TypeOK, Shape, Related, Ends
  <2> QED BY <1>1, <1>7, <1>8, <1>9, <2>1 DEF AnsweredOn
<1> QED BY <1>1, <1>10 DEF Answered, Made

\* A new connection is queued at one end and about to be used at the other.
LEMMA OpenSocketAnswered ==
    ASSUME Typed, Owners, Answered, NEW s \in Server, OpenSocket(s)
    PROVE  Answered'
<1>0. "udp" \in Role /\ "tcp" \in Role /\ "udp" # "tcp"
  BY DEF Role
<1>a. OpenSocketDoes(s)
  BY OpenSocketEffect
<1>1. pc[s]["udp"] = "open" /\ cur[s]["udp"] = None /\ target[s] \in Server \ {s} /\ mail' = mail
  BY <1>a DEF OpenSocketDoes
<1>2. CASE PcAt(s, "udp", "wait") /\ UNCHANGED <<from, to, open, backlog, cur, victim>>
  <2>1. \A t \in Server, q \in Role :
           \/ cur'[t][q] = cur[t][q] /\ pc'[t][q] = pc[t][q]
           \/ pc[t][q] \notin Waits \cup {"close"} /\ pc'[t][q] \notin Waits
    BY <1>1, <1>2 DEF PcAt, Waits
  <2> QED BY <1>1, <1>2, <2>1, OtherStepAnswered
<1>3. ASSUME NEW k \in Conn,
             from[k] = None,
             from' = [from EXCEPT ![k] = s],
             to' = [to EXCEPT ![k] = target[s]],
             open' = [open EXCEPT ![k] = {s, target[s]}],
             backlog' = [backlog EXCEPT ![target[s]] = Append(@, k)],
             CurAt(s, "udp", k), PcAt(s, "udp", "send")
      PROVE  Answered'
  <2>p. PICK p \in Server : p = target[s] /\ p # s
    BY <1>1
  <2>1. /\ from'[k] = s /\ to'[k] = p
        /\ \A j \in Conn : j # k => from'[j] = from[j] /\ to'[j] = to[j] /\ open'[j] = open[j]
        /\ backlog'[p] = Append(backlog[p], k)
        /\ \A t \in Server : t # p => backlog'[t] = backlog[t]
    BY <1>3, <2>p DEF Typed, TypeOK
  <2>2. \A j \in Conn : j # None
    BY ConstantsOK DEF ConstantsOK
  <2>3. \A t \in Server, j \in Conn : Queued(t, j)' <=> Queued(t, j) \/ (t = p /\ j = k)
    BY <2>1, AppendQueued, <2>p
  <2>4. \A t \in Server, j \in Conn : j # k =>
           /\ Awaiting(t, j)' <=> Awaiting(t, j)
           /\ Sending(t, j)' <=> Sending(t, j)
    <3>1. \A t \in Server : t # s => cur'[t]["udp"] = cur[t]["udp"] /\ pc'[t]["udp"] = pc[t]["udp"]
      BY <1>0, <1>3 DEF PcAt, CurAt
    <3>2. cur'[s]["udp"] = k
      BY <1>3 DEF CurAt
    <3> QED BY <1>1, <2>2, <3>1, <3>2 DEF Awaiting, Sending, Serving
  <2>5. \A t \in Server, j \in Conn : j # k =>
           /\ Answering(t, j)' <=> Answering(t, j)
           /\ Reading(t, j)' <=> Reading(t, j)
    <3>1. \A t \in Server : cur'[t]["tcp"] = cur[t]["tcp"] /\ pc'[t]["tcp"] = pc[t]["tcp"]
      BY <1>0, <1>3 DEF PcAt, CurAt
    <3>2. \A t \in Server, j \in Conn : j # k => (Queued(t, j)' <=> Queued(t, j))
      BY <2>3
    <3> QED BY <3>1, <3>2 DEF Answering, Reading, Serving
  <2>6. AnsweredOn(k)'
    <3>1. Sending(s, k)'
      BY <1>3 DEF Sending, Serving, PcAt, CurAt
    <3>2. \A t \in Server : t = p => Answering(t, k)'
      BY <2>3 DEF Answering
    <3> QED BY <2>1, <3>1, <3>2 DEF AnsweredOn
  <2>7. ASSUME NEW j \in Conn, j # k, Made(j)', OpenAtBothEnds(j)'
        PROVE  AnsweredOn(j)'
    <3>1. Made(j) /\ OpenAtBothEnds(j) /\ from[j] \in Server /\ to[j] \in Server
      <4>1. Made(j) /\ OpenAtBothEnds(j)
        BY <2>1, <2>7 DEF OpenAtBothEnds, Made
      <4>2. from[j] \in Server \cup {None} /\ to[j] \in Server \cup {None}
        BY DEF Typed, TypeOK
      <4>3. Made(j) <=> to[j] # None
        BY DEF Typed, Shape, Related, Ends
      <4> QED BY <4>1, <4>2, <4>3 DEF Made
    <3>2. AnsweredOn(j)
      BY <3>1 DEF Answered
    <3>3. from'[j] = from[j] /\ to'[j] = to[j] /\ mail'[j] = mail[j]
      BY <1>1, <2>1, <2>7
    <3>4. \A t \in Server : /\ Awaiting(t, j)' <=> Awaiting(t, j)
                            /\ Sending(t, j)' <=> Sending(t, j)
                            /\ Answering(t, j)' <=> Answering(t, j)
                            /\ Reading(t, j)' <=> Reading(t, j)
      BY <2>4, <2>5, <2>7
    <3> QED BY <3>1, <3>2, <3>3, <3>4 DEF AnsweredOn
  <2> QED BY <2>6, <2>7 DEF Answered
<1> QED BY <1>a, <1>2, <1>3 DEF OpenSocketDoes

\* The connections of a process that ends have lost an end.
LEMMA DieAnswered ==
    ASSUME Typed, Answered, NEW s \in Server, Die(s)
    PROVE  Answered'
<1>1. /\ \A k \in Conn : open'[k] = open[k] \ {s}
      /\ \A t \in Server : t # s => pc'[t] = pc[t] /\ cur'[t] = cur[t] /\ backlog'[t] = backlog[t]
  BY DieTyped DEF Typed
<1>2. UNCHANGED <<from, to, mail>>
  BY DEF Die
<1>3. ASSUME NEW k \in Conn, Made(k), OpenAtBothEnds(k)'
      PROVE  AnsweredOn(k)'
  <2>1. OpenAtBothEnds(k) /\ from[k] # s /\ to[k] # s
    BY <1>1, <1>2, <1>3 DEF OpenAtBothEnds
  <2>2. from[k] \in Server /\ to[k] \in Server
    BY <1>3 DEF Made, Typed, TypeOK, Shape, Related, Ends
  <2>3. AnsweredOn(k)
    BY <1>3, <2>1 DEF Answered
  <2>4. \A t \in Server : t # s =>
           /\ Awaiting(t, k)' <=> Awaiting(t, k)
           /\ Sending(t, k)' <=> Sending(t, k)
           /\ Answering(t, k)' <=> Answering(t, k)
           /\ Reading(t, k)' <=> Reading(t, k)
    BY <1>1 DEF Awaiting, Sending, Answering, Reading, Serving, Queued
  <2> QED BY <1>2, <2>1, <2>2, <2>3, <2>4 DEF AnsweredOn
<1> QED BY <1>2, <1>3 DEF Answered, Made

\* The steps after the handshake, the readers' and the main thread's.
LEMMA AfterAnswered ==
    ASSUME Typed, Owners, Answered, NEW s \in Server,
           \/ Start(s) \/ Announce(s) \/ HandleConnect(s)
           \/ \E r \in Role : Added(s, r)
           \/ \E k \in Conn : ReaderStep(s, k)
    PROVE  Answered'
<1> DEFINE Apart1 == \A t \in Server, q \in Role :
                        \/ cur'[t][q] = cur[t][q] /\ pc'[t][q] = pc[t][q]
                        \/ /\ pc[t][q] \notin Waits /\ pc'[t][q] \notin Waits
                           /\ pc[t][q] = "close" => t \notin open'[cur[t][q]]
<1>1. CASE Start(s) \/ Announce(s)
  <2>1. UNCHANGED <<pc, cur, mail, backlog, from, to, open>>
    BY <1>1, StartEffect, AnnounceEffect DEF StartDoes, AnnounceDoes, local, tcp
  <2> QED BY <2>1, OtherStepAnswered
<1>2. CASE HandleConnect(s)
  <2>1. /\ pc[s]["udp"] = "wait" /\ (UNCHANGED pc \/ PcAt(s, "udp", "open"))
        /\ UNCHANGED <<cur, mail, backlog, from, to, open>>
    BY <1>2, HandleConnectEffect DEF HandleConnectDoes, tcp
  <2>2. Apart1
    BY <2>1 DEF PcAt, Waits
  <2> QED BY <2>1, <2>2, OtherStepAnswered
<1>3. ASSUME NEW r \in Role,
             AddClient(s, r) \/ RunClient(s, r) \/ UseClient(s, r) \/ UseMoved(s, r)
      PROVE  Answered'
  <2>1. \/ Die(s)
        \/ /\ pc[s][r] \in {"add", "run", "use", "stale"}
           /\ \/ InsertedAt(s, r) \/ PcAt(s, r, "close")
              \/ PcAt(s, r, "use") \/ PcAt(s, r, "callback")
           /\ UNCHANGED <<cur, mail, backlog, from, to, open>>
    BY <1>3, AddClientEffect, RunClientEffect, UseClientEffect
       DEF AddClientDoes, RunClientDoes, UseClientDoes, UseMoved, tcp
  <2>2. ASSUME pc[s][r] \in {"add", "run", "use", "stale"},
               \/ InsertedAt(s, r) \/ PcAt(s, r, "close")
               \/ PcAt(s, r, "use") \/ PcAt(s, r, "callback"),
               UNCHANGED <<cur, mail, backlog, from, to, open>>
        PROVE  Answered'
    <3>1. Apart1
      BY <2>2 DEF PcAt, InsertedAt, Waits
    <3> QED BY <2>2, <3>1, OtherStepAnswered
  <2> QED BY <2>1, <2>2, DieAnswered
<1>4. ASSUME NEW r \in Role, ConnectCallback(s, r) \/ Close(s, r) \/ CloseAgain(s, r)
      PROVE  Answered'
  <2>1. /\ \/ /\ pc[s][r] \in {"callback", "reclose"}
              /\ PcAt(s, r, "wait") /\ CurAt(s, r, None)
           \/ /\ pc[s][r] = "close" /\ PcAt(s, r, "reclose") /\ cur' = cur
              /\ Closed(s, cur[s][r])
        /\ UNCHANGED <<mail, backlog, from, to>>
        /\ \/ UNCHANGED open
           \/ Closed(s, cur[s][r]) \/ Closed(s, victim[s][r])
    BY <1>4, ConnectCallbackEffect, CloseEffect, CloseAgainEffect
       DEF ConnectCallbackDoes, CloseDoes, CloseAgainDoes, tcp
  <2>2. Apart1
    BY <2>1 DEF PcAt, CurAt, Closed, Waits
  <2>3. \A k \in Conn : open'[k] \subseteq open[k]
    BY <2>1 DEF Closed
  <2> QED BY <2>1, <2>2, <2>3, OtherStepAnswered
<1>5. ASSUME NEW k \in Conn, ReaderStep(s, k)
      PROVE  Answered'
  <2>1. /\ UNCHANGED <<pc, cur, mail, backlog, from, to>>
        /\ UNCHANGED open \/ Closed(s, k)
    BY <1>5, ReaderFailsEffect, EraseClientEffect, DisconnectCallbackEffect
       DEF ReaderStep, ReaderFailsDoes, EraseClientDoes, DisconnectCallbackDoes, tcp
  <2>2. \A j \in Conn : open'[j] \subseteq open[j]
    BY <2>1 DEF Closed
  <2> QED BY <2>1, <2>2, OtherStepAnswered
<1> QED BY <1>1, <1>2, <1>3, <1>4, <1>5 DEF Added

\* No thread waits for a message that nobody is going to send.
THEOREM NobodyWaitsInVain == Spec => []WaitersAreServed
<1>1. Init => Answered
  BY DEF Init, Answered, Made
<1>2. ASSUME Typed, Owners, Answered, [Next]_vars
      PROVE  Answered'
  <2>1. CASE UNCHANGED vars
    <3>1. UNCHANGED <<pc, cur, mail, backlog, from, to, open>>
      BY <2>1 DEF vars, local, tcp
    <3> QED BY <1>2, <3>1, OtherStepAnswered
  <2>2. ASSUME NEW s \in Server,
               \/ Start(s) \/ Announce(s) \/ HandleConnect(s)
               \/ \E r \in Role : Added(s, r)
               \/ \E k \in Conn : ReaderStep(s, k)
        PROVE  Answered'
    BY <1>2, <2>2, AfterAnswered
  <2>3. ASSUME NEW s \in Server, Crash(s) \/ \E r \in Role : BrokenPipe(s, r)
        PROVE  Answered'
    BY <1>2, <2>3, DieAnswered DEF Crash, BrokenPipe
  <2>4. ASSUME NEW s \in Server, OpenSocket(s) \/ SendAck(s) \/ AwaitResponse(s)
        PROVE  Answered'
    BY <1>2, <2>4, OpenSocketAnswered, UdpAnswered
  <2>5. ASSUME NEW s \in Server, TcpStep(s)
        PROVE  Answered'
    BY <1>2, <2>5, AcceptAnswered, TcpAnswered DEF TcpStep
  <2> QED BY <1>2, <2>1, <2>2, <2>3, <2>4, <2>5 DEF Next, UdpStep
<1>3. Typed /\ Answered => WaitersAreServed
  BY AnsweredServes
<1> QED BY <1>1, <1>2, <1>3, OwnersAlways, PTL DEF Spec

-----------------------------------------------------------------------------
(* Servers that are started one at a time.                                 *)

\* A server that others may still connect to, or that is still connected to.
Active(p) ==
    \/ main[p] = "starting"
    \/ \E s \in Server :
          \/ datagrams[s][p] > 0
          \/ target[s] = p
          \/ cur[s]["udp"] # None /\ to[cur[s]["udp"]] = p
    \/ cur[p]["tcp"] # None
    \/ backlog[p] # <<>>
OneJoins == \A p, q \in Server : Active(p) /\ Active(q) => p = q

NoVictims == \A s \in Server, r \in Role : victim[s][r] = None /\ pc[s][r] # "stale"

\* The connect request of p is at s at most once, and before s connects to p.
Once == \A s, p \in Server :
    /\ main[p] = "starting" => datagrams[s][p] = 0 /\ target[s] # p
    /\ datagrams[s][p] <= 1
    /\ datagrams[s][p] = 1 => target[s] # p

Pending(s, p) == main[p] = "starting" \/ datagrams[s][p] > 0 \/ target[s] = p
Idle(s, k) == reader[s][k] = "none" /\ ~Queued(s, k) /\ \A r \in Role : cur[s][r] # k
Untouched(s, p) ==
    clients[s][p] = None /\ \A k \in Conn : Made(k) /\ PeerOn(s, k) = p => Idle(s, k)

\* As long as s has not connected to p, neither has anything of the other.
Virgin == \A s, p \in Server : s # p /\ Pending(s, p) => Untouched(s, p) /\ Untouched(p, s)

\* A connection that is not in clients yet is the only one with its peer.
Unadded == {"send", "await", "read", "reply", "add"}
Early(s, k) == Queued(s, k) \/ \E r \in Role : Serving(s, r, k, Unadded)
Alone == \A s \in Server, k \in Conn : Early(s, k) =>
    /\ clients[s][PeerOn(s, k)] = None
    /\ \A l \in Conn : l # k /\ Made(l) /\ PeerOn(s, l) = PeerOn(s, k) => Idle(s, l)

Telling == Adding \cup {"callback"}
Reported == \A s, p \in Server : clients[s][p] # None =>
    p \in view[s] \/ \E r \in Role : Serving(s, r, clients[s][p], Telling)
Unreported == \A s \in Server, k \in Conn :
    reader[s][k] = "notify" => clients[s][PeerOn(s, k)] = None

OneByOne == OneJoins /\ NoVictims /\ Once /\ Virgin /\ Alone
Told == Reported /\ Unreported
Harmless == faults \subseteq {"pipe"}

\* A connection that is not in clients yet has two ends and is not idle.
LEMMA EarlyEnds ==
    ASSUME Typed, NEW s \in Server, NEW k \in Conn, Early(s, k)
    PROVE  EndOf(s, k) /\ Made(k) /\ PeerOn(s, k) \in Server /\ PeerOn(s, k) # s /\ ~Idle(s, k)
<1>1. CASE Queued(s, k)
  <2>1. EndOf(s, k)
    BY <1>1, QueuedApart
  <2> QED BY <1>1, <2>1 DEF Idle, EndOf, Made, PeerOn, Typed, TypeOK, Shape, Related, Ends
<1>2. ASSUME NEW r \in Role, Serving(s, r, k, Unadded)
      PROVE  EndOf(s, k) /\ PeerOn(s, k) \in Server \ {s} /\ ~Idle(s, k)
  BY <1>2, Current DEF Serving, Unadded, Idle
<1> QED BY <1>1, <1>2 DEF Early, EndOf

\* Only one of the service threads of a server has a connection.
LEMMA OneThread ==
    ASSUME Typed, OneByOne, NEW s \in Server, cur[s]["udp"] # None, cur[s]["tcp"] # None
    PROVE  FALSE
<1>0. "udp" \in Role /\ "tcp" \in Role
  BY DEF Role
<1>1. cur[s]["udp"] \in Conn /\ from[cur[s]["udp"]] = s /\ EndOf(s, cur[s]["udp"])
  BY <1>0, Current DEF Typed, Shape, Labelled
<1>2. to[cur[s]["udp"]] \in Server /\ to[cur[s]["udp"]] # s
  BY <1>1 DEF EndOf, Made, Typed, TypeOK, Shape, Related, Ends
<1>3. Active(to[cur[s]["udp"]]) /\ Active(s)
  BY DEF Active
<1> QED BY <1>2, <1>3 DEF OneByOne, OneJoins

\* So an insertion moves the table under nobody's iterator.
LEMMA InsertedAlone ==
    ASSUME Typed, OneByOne, NEW s \in Server, NEW r \in Role, pc[s][r] = "add", InsertedAt(s, r)
    PROVE  PcAt(s, r, "run")
<1>1. cur[s][r] # None
  BY Current
<1>2. ASSUME NEW q \in Role, q # r, pc[s][q] = "use"
      PROVE  FALSE
  <2>1. cur[s][q] # None
    BY <1>2, Current
  <2> QED BY <1>1, <1>2, <2>1, OneThread DEF Role
<1> QED BY <1>2 DEF InsertedAt, PcAt

\* A step that connects nothing new keeps the connections apart.
LEMMA CalmStep ==
    ASSUME Typed, OneByOne, UNCHANGED <<from, to>>,
           \A p \in Server : Active(p)' => Active(p),
           \A s, p \in Server : Pending(s, p)' => Pending(s, p),
           \A s \in Server, k \in Conn : Idle(s, k) => Idle(s, k)',
           \A s, p \in Server : clients'[s][p] = clients[s][p] \/ clients'[s][p] = None,
           \A s \in Server, k \in Conn : Early(s, k)' => Early(s, k),
           NoVictims', Once'
    PROVE  OneByOne'
<1>1. OneJoins'
  BY DEF OneByOne, OneJoins
<1>2. \A s \in Server, k \in Conn : PeerOn(s, k)' = PeerOn(s, k) /\ (Made(k)' <=> Made(k))
  BY DEF PeerOn, Made
<1>3. ASSUME NEW s \in Server, NEW p \in Server, Untouched(s, p)
      PROVE  Untouched(s, p)'
  BY <1>2, <1>3 DEF Untouched
<1>4. Virgin'
  BY <1>3 DEF OneByOne, Virgin
<1>5. ASSUME NEW s \in Server, NEW k \in Conn, Early(s, k)'
      PROVE  /\ clients'[s][PeerOn(s, k)] = None
             /\ \A l \in Conn : l # k /\ Made(l)' /\ PeerOn(s, l)' = PeerOn(s, k)' => Idle(s, l)'
  <2>1. /\ clients[s][PeerOn(s, k)] = None
        /\ \A l \in Conn : l # k /\ Made(l) /\ PeerOn(s, l) = PeerOn(s, k) => Idle(s, l)
    BY <1>5 DEF OneByOne, Alone
  <2>2. clients'[s][PeerOn(s, k)] = None
    BY <1>5, <2>1, EarlyEnds
  <2>3. ASSUME NEW l \in Conn, l # k, Made(l)', PeerOn(s, l)' = PeerOn(s, k)'
        PROVE  Idle(s, l)'
    BY <1>2, <2>1, <2>3
  <2> QED BY <2>2, <2>3
<1>6. Alone'
  BY <1>2, <1>5 DEF Alone
<1> QED BY <1>1, <1>4, <1>6 DEF OneByOne

\* One thread moves on, or is done with its connection.
LEMMA ThreadStarts ==
    ASSUME Typed, OneByOne, NEW s \in Server, NEW r \in Role, NEW l, NEW x,
           PcAt(s, r, l), CurAt(s, r, x), x = cur[s][r] \/ x = None,
           UNCHANGED <<main, target, datagrams, backlog, from, to, clients>>,
           \A t \in Server, k \in Conn : Idle(t, k) => reader'[t][k] = "none",
           l \in Unadded => pc[s][r] \in Unadded /\ x = cur[s][r],
           NoVictims'
    PROVE  OneByOne'
<1>0. "udp" \in Role /\ "tcp" \in Role /\ \A k \in Conn : k # None
  BY ConstantsOK DEF ConstantsOK, Role
<1>1. \A t \in Server, q \in Role : cur'[t][q] = cur[t][q] \/ cur'[t][q] = None
  BY DEF CurAt
<1>2. \A t \in Server, q \in Role :
         pc'[t][q] \in Unadded => pc[t][q] \in Unadded /\ cur'[t][q] = cur[t][q]
  BY DEF PcAt, CurAt
<1>3. \A p \in Server : Active(p)' => Active(p)
  BY <1>0, <1>1 DEF Active
<1>4. \A t, p \in Server : Pending(t, p)' => Pending(t, p)
  BY DEF Pending
<1>5. \A t \in Server, k \in Conn : Idle(t, k) => Idle(t, k)'
  BY <1>0, <1>1 DEF Idle, Queued
<1>6. \A t \in Server, k \in Conn : Early(t, k)' => Early(t, k)
  BY <1>2 DEF Early, Serving, Queued
<1>7. Once'
  BY DEF OneByOne, Once
<1> QED BY <1>3, <1>4, <1>5, <1>6, <1>7, CalmStep

\* The reader threads of old connections.
LEMMA ReaderStarts ==
    ASSUME Typed, OneByOne, NEW s \in Server, NEW k \in Conn, ReaderStep(s, k)
    PROVE  OneByOne'
<1>1. /\ UNCHANGED <<main, pc, cur, target, victim, datagrams, backlog, from, to>>
      /\ reader[s][k] # "none" /\ (ReaderAt(s, k, "erase") \/ ReaderAt(s, k, "notify") \/ ReaderAt(s, k, "none"))
      /\ clients' = clients \/ ClientsAt(s, PeerOn(s, k), None)
  BY ReaderFailsEffect, EraseClientEffect, DisconnectCallbackEffect
     DEF ReaderStep, ReaderFailsDoes, EraseClientDoes, DisconnectCallbackDoes, tcp
<1>2. \A p \in Server : Active(p)' => Active(p)
  BY <1>1 DEF Active
<1>3. \A t, p \in Server : Pending(t, p)' => Pending(t, p)
  BY <1>1 DEF Pending
<1>4. \A t \in Server, j \in Conn : Idle(t, j) => Idle(t, j)'
  BY <1>1 DEF Idle, Queued, ReaderAt
<1>5. \A t \in Server, j \in Conn : Early(t, j)' => Early(t, j)
  BY <1>1 DEF Early, Serving, Queued
<1>6. Once' /\ NoVictims'
  BY <1>1 DEF OneByOne, Once, NoVictims
<1>7. \A t, p \in Server : clients'[t][p] = clients[t][p] \/ clients'[t][p] = None
  BY <1>1 DEF ClientsAt
<1> QED BY <1>1, <1>2, <1>3, <1>4, <1>5, <1>6, <1>7, CalmStep

\* A process that ends connects nothing.
LEMMA DieStarts ==
    ASSUME Typed, OneByOne, NEW s \in Server, Die(s)
    PROVE  OneByOne'
<1>0. "udp" \in Role /\ "tcp" \in Role /\ \A k \in Conn : k # None
  BY ConstantsOK DEF ConstantsOK, Role
<1>d. \A k \in Conn : k # None
  BY <1>0
<1>1. /\ main'[s] = "down" /\ target'[s] = None /\ backlog'[s] = <<>>
      /\ \A r \in Role : pc'[s][r] = "wait" /\ cur'[s][r] = None /\ victim'[s][r] = None
      /\ \A p \in Server : clients'[s][p] = None /\ datagrams'[s][p] = 0
      /\ \A k \in Conn : reader'[s][k] = "none"
      /\ \A t \in Server : t # s =>
            /\ main'[t] = main[t] /\ pc'[t] = pc[t] /\ cur'[t] = cur[t]
            /\ target'[t] = target[t] /\ victim'[t] = victim[t]
            /\ clients'[t] = clients[t] /\ reader'[t] = reader[t]
            /\ datagrams'[t] = datagrams[t] /\ backlog'[t] = backlog[t]
  BY DieTyped DEF Typed
<1>2. UNCHANGED <<from, to>>
  BY DEF Die
<1>3. \A p \in Server : p # None
  BY ConstantsOK DEF ConstantsOK
<1>4. \A p \in Server : Active(p)' => Active(p)
  BY <1>0, <1>1, <1>2, <1>3 DEF Active
<1>5. \A t, p \in Server : Pending(t, p)' => Pending(t, p)
  BY <1>1, <1>3 DEF Pending
<1>6. \A t \in Server, j \in Conn : Idle(t, j) => Idle(t, j)'
  BY <1>0, <1>1 DEF Idle, Queued
<1>7. \A t \in Server, j \in Conn : Early(t, j)' => Early(t, j)
  BY <1>1 DEF Early, Serving, Queued, Unadded
<1>8. Once'
  BY <1>1, <1>3 DEF OneByOne, Once
<1>9. NoVictims'
  BY <1>1 DEF OneByOne, NoVictims
<1>10. \A t, p \in Server : clients'[t][p] = clients[t][p] \/ clients'[t][p] = None
  BY <1>1
<1> QED BY <1>2, <1>4, <1>5, <1>6, <1>7, <1>8, <1>9, <1>10, CalmStep

\* A server is started while nothing is in progress: no other server joins, and
\* none has anything left of an earlier life of this one.
LEMMA StartStarts ==
    ASSUME Sequential, Typed, Owners, OneByOne, NEW s \in Server, Start(s)
    PROVE  OneByOne'
<1>1. /\ main[s] = "down" /\ Quiet
      /\ main'[s] = "starting" /\ \A t \in Server : t # s => main'[t] = main[t]
      /\ UNCHANGED <<pc, cur, target, victim, clients, reader, datagrams, from, to, backlog>>
  BY StartEffect DEF StartDoes, local, tcp
<1>2. \A t \in Server :
         /\ main[t] # "starting" /\ target[t] = None /\ backlog[t] = <<>>
         /\ \A r \in Role : cur[t][r] = None
         /\ \A p \in Server : datagrams[t][p] = 0
         /\ \A k \in Conn : reader[t][k] = "none" \/ (reader[t][k] = "recv" /\ OpenAtBothEnds(k))
  <2>1. ASSUME NEW t \in Server
        PROVE  Settled(t) /\ pc[t]["udp"] = "wait" /\ \A r \in Role : pc[t][r] = "wait"
    BY <1>1 DEF Quiet, Settled, Role
  <2> QED BY <2>1 DEF Settled, Typed, Shape, Labelled
<1>0. "udp" \in Role /\ "tcp" \in Role
  BY DEF Role
<1>s. \A t \in Server : t # None
  BY ConstantsOK DEF ConstantsOK
<1>3. \A p \in Server : Active(p)' => p = s
  BY <1>0, <1>1, <1>2, <1>s DEF Active
<1>4. OneJoins'
  BY <1>3 DEF OneJoins
<1>5. NoVictims'
  BY <1>1 DEF OneByOne, NoVictims
<1>6. Once'
  BY <1>1, <1>2, <1>s DEF OneByOne, Once
<1>7. Alone'
  BY <1>1 DEF OneByOne, Alone, Early, Serving, Idle, Queued, PeerOn, Made
<1>8. ASSUME NEW t \in Server, NEW k \in Conn, reader[t][k] # "none"
      PROVE  t # s /\ from[k] # s /\ to[k] # s
  <2>1. OpenAtBothEnds(k)
    BY <1>2, <1>8
  <2>2. \A j \in Conn : s \notin open[j] /\ reader[s][j] = "none"
    BY <1>1 DEF Typed, Shape, Gone
  <2> QED BY <1>8, <2>1, <2>2 DEF OpenAtBothEnds
<1>9. \A t \in Server, k \in Conn : Made(k) /\ (t = s \/ PeerOn(t, k) = s) => reader[t][k] = "none"
  BY <1>8 DEF PeerOn
<1>10. \A t \in Server : clients[t][s] = None /\ clients[s][t] = None
  <2>1. \A t \in Server : clients[s][t] = None
    BY <1>1 DEF Typed, Shape, Gone
  <2>2. ASSUME NEW t \in Server, clients[t][s] # None
        PROVE  FALSE
    <3>1. clients[t][s] \in Conn /\ PeerOn(t, clients[t][s]) = s /\ Made(clients[t][s])
      BY <2>2 DEF Typed, TypeOK, Shape, Related, Entries, EndOf
    <3>2. reader[t][clients[t][s]] # "none"
      BY <1>2, <2>2 DEF Owners, EntryIsRead
    <3> QED BY <1>9, <3>1, <3>2
  <2> QED BY <2>1, <2>2
<1>11. \A t \in Server, k \in Conn : Made(k) /\ (t = s \/ PeerOn(t, k) = s) => Idle(t, k)
  <2>1. \A k \in Conn : k # None
    BY ConstantsOK DEF ConstantsOK
  <2> QED BY <1>2, <1>9, <2>1 DEF Idle, Queued
<1>12. \A t \in Server : Untouched(t, s)' /\ Untouched(s, t)'
  <2>1. \A t \in Server : Untouched(t, s) /\ Untouched(s, t)
    BY <1>10, <1>11 DEF Untouched
  <2> QED BY <1>1, <2>1 DEF Untouched, Idle, Queued, PeerOn, Made
<1>13. Virgin'
  <2>1. ASSUME NEW t \in Server, NEW p \in Server, Pending(t, p)'
        PROVE  p = s
    BY <1>1, <1>2, <1>s, <2>1 DEF Pending
  <2> QED BY <1>12, <2>1 DEF Virgin
<1> QED BY <1>4, <1>5, <1>6, <1>7, <1>13 DEF OneByOne

\* The server that joins multicasts: it is the only one that does.
LEMMA AnnounceStarts ==
    ASSUME Sequential, Typed, OneByOne, NEW s \in Server, Announce(s)
    PROVE  OneByOne'
<1>1. /\ main[s] = "starting"
      /\ main'[s] = "running" /\ \A t \in Server : t # s => main'[t] = main[t]
      /\ \A t, p \in Server :
            \/ datagrams'[t][p] = datagrams[t][p]
            \/ p = s /\ datagrams'[t][p] = datagrams[t][p] + 1
      /\ UNCHANGED <<pc, cur, target, victim, clients, reader, from, to, backlog>>
  BY AnnounceEffect DEF AnnounceDoes, local, tcp
<1>2. Active(s) /\ \A t \in Server : Pending(t, s)
  BY <1>1 DEF Active, Pending
<1>3. \A p \in Server : p # s => \A t \in Server : datagrams'[t][p] = datagrams[t][p]
  BY <1>1
<1>4. \A p \in Server : Active(p)' => Active(p)
  <2>1. \A p \in Server : p # s => (Active(p)' => Active(p))
    BY <1>1, <1>3 DEF Active
  <2> QED BY <1>2, <2>1
<1>5. \A t, p \in Server : Pending(t, p)' => Pending(t, p)
  <2>1. \A t, p \in Server : p # s => (Pending(t, p)' => Pending(t, p))
    BY <1>1, <1>3 DEF Pending
  <2> QED BY <1>2, <2>1
<1>6. \A t \in Server, j \in Conn : (Idle(t, j) => Idle(t, j)') /\ (Early(t, j)' => Early(t, j))
  BY <1>1 DEF Idle, Early, Serving, Queued
<1>7. NoVictims'
  BY <1>1 DEF OneByOne, NoVictims
<1>8. Once'
  <2>1. ASSUME NEW t \in Server, NEW p \in Server
        PROVE  /\ main'[p] = "starting" => datagrams'[t][p] = 0 /\ target[t] # p
               /\ datagrams'[t][p] <= 1
               /\ datagrams'[t][p] = 1 => target[t] # p
    <3>1. CASE p = s
      <4>1. datagrams[t][s] = 0 /\ target[t] # s
        BY <1>1 DEF OneByOne, Once
      <4>2. datagrams'[t][s] = 0 \/ datagrams'[t][s] = 1
        BY <1>1, <4>1
      <4> QED BY <1>1, <3>1, <4>1, <4>2
    <3>2. CASE p # s
      BY <1>1, <1>3, <3>2 DEF OneByOne, Once
    <3> QED BY <3>1, <3>2
  <2> QED BY <1>1, <2>1 DEF Once
<1> QED BY <1>1, <1>4, <1>5, <1>6, <1>7, <1>8, CalmStep

\* A datagram is taken once.
LEMMA HandleConnectStarts ==
    ASSUME Typed, OneByOne, NEW s \in Server, HandleConnect(s)
    PROVE  OneByOne'
<1>0. HandleConnectDoes(s)
  BY HandleConnectEffect
<1>1. PICK p \in Server :
         /\ pc[s]["udp"] = "wait"
         /\ datagrams[s][p] > 0 /\ DatagramsAt(s, p, datagrams[s][p] - 1)
         /\ \/ UNCHANGED <<pc, target>>
            \/ /\ p # s /\ PcAt(s, "udp", "open")
               /\ target' = [target EXCEPT ![s] = p]
         /\ UNCHANGED <<main, cur, victim, clients, reader, from, to, backlog>>
  BY <1>0 DEF HandleConnectDoes, tcp
<1>2. \A t, q \in Server : datagrams[t][q] \in Nat
  BY DEF Typed, TypeOK
<1>3. datagrams[s][p] = 1 /\ datagrams'[s][p] = 0
      /\ \A t, q \in Server : t # s \/ q # p => datagrams'[t][q] = datagrams[t][q]
  <2>1. datagrams[s][p] = 1
    BY <1>1, <1>2 DEF OneByOne, Once
  <2> QED BY <1>1, <2>1 DEF DatagramsAt
<1>4. /\ \A t \in Server : t # s => target'[t] = target[t]
      /\ target'[s] = target[s] \/ target'[s] = p
  BY <1>1 DEF Typed, TypeOK
<1>5. Active(p) /\ Pending(s, p)
  BY <1>1 DEF Active, Pending
<1>d. \A t, q \in Server : datagrams'[t][q] > 0 => datagrams[t][q] > 0
  BY <1>3
<1>6. \A q \in Server : Active(q)' => Active(q)
  BY <1>1, <1>4, <1>5, <1>d DEF Active
<1>7. \A t, q \in Server : Pending(t, q)' => Pending(t, q)
  BY <1>1, <1>4, <1>5, <1>d DEF Pending
<1>8. \A t \in Server, j \in Conn : Idle(t, j) => Idle(t, j)'
  BY <1>1 DEF Idle, Queued
<1>9. \A t \in Server, j \in Conn : Early(t, j)' => Early(t, j)
  <2>1. \A t \in Server, q \in Role : pc'[t][q] \in Unadded => pc'[t][q] = pc[t][q]
    BY <1>1 DEF PcAt, Unadded
  <2> QED BY <1>1, <2>1 DEF Early, Serving, Queued
<1>10. NoVictims'
  BY <1>1 DEF OneByOne, NoVictims, PcAt
<1>11. Once'
  <2>1. ASSUME NEW t \in Server, NEW q \in Server
        PROVE  /\ main[q] = "starting" => datagrams'[t][q] = 0 /\ target'[t] # q
               /\ datagrams'[t][q] <= 1
               /\ datagrams'[t][q] = 1 => target'[t] # q
    <3>1. CASE t = s /\ q = p
      <4>1. main[p] # "starting"
        BY <1>3 DEF OneByOne, Once
      <4> QED BY <1>3, <3>1, <4>1
    <3>2. CASE t # s
      BY <1>3, <1>4, <3>2 DEF OneByOne, Once
    <3>3. CASE t = s /\ q # p
      BY <1>3, <1>4, <3>3 DEF OneByOne, Once
    <3> QED BY <3>1, <3>2, <3>3
  <2> QED BY <1>1, <2>1 DEF Once
<1> QED BY <1>1, <1>6, <1>7, <1>8, <1>9, <1>10, <1>11, CalmStep

\* accept(): the connection was the server's business before.
LEMMA AcceptStarts ==
    ASSUME Typed, OneByOne, NEW s \in Server, Accept(s)
    PROVE  OneByOne'
<1>0. "udp" \in Role /\ "tcp" \in Role /\ "udp" # "tcp"
  BY DEF Role
<1>a. AcceptDoes(s)
  BY AcceptEffect
<1>k. PICK k \in Conn : k = Head(backlog[s])
  BY <1>a DEF AcceptDoes
<1>1. /\ pc[s]["tcp"] = "wait" /\ backlog[s] # <<>>
      /\ k = backlog[s][1] /\ 1 \in DOMAIN backlog[s]
      /\ CurAt(s, "tcp", k) /\ PcAt(s, "tcp", "read") /\ NewDescriptor(s, "tcp", k)
      /\ UNCHANGED <<main, target, clients, reader, datagrams, from, to>>
  BY <1>a, <1>k DEF AcceptDoes
<1>2. /\ \A i \in DOMAIN backlog'[s] :
            i + 1 \in DOMAIN backlog[s] /\ backlog'[s][i] = backlog[s][i + 1]
      /\ \A t \in Server : t # s => backlog'[t] = backlog[t]
  BY <1>a DEF AcceptDoes
<1>3. \A t \in Server, j \in Conn : Queued(t, j)' => Queued(t, j)
  BY <1>2 DEF Queued
<1>4. Queued(s, k) /\ Active(s)
  BY <1>1 DEF Queued, Active
<1>5. /\ \A t \in Server, q \in Role : t # s \/ q # "tcp" => cur'[t][q] = cur[t][q] /\ pc'[t][q] = pc[t][q]
      /\ cur'[s]["tcp"] = k /\ pc'[s]["tcp"] = "read"
  BY <1>1 DEF CurAt, PcAt
<1>6. \A p \in Server : Active(p)' => Active(p)
  <2>1. \A p \in Server : p # s => (Active(p)' => Active(p))
    BY <1>0, <1>1, <1>2, <1>5 DEF Active
  <2> QED BY <1>4, <2>1
<1>7. \A t, p \in Server : Pending(t, p)' => Pending(t, p)
  BY <1>1 DEF Pending
<1>8. ASSUME NEW t \in Server, NEW j \in Conn, Idle(t, j)
      PROVE  Idle(t, j)'
  <2>1. t = s => j # k
    BY <1>4, <1>8 DEF Idle
  <2>2. \A q \in Role : cur'[t][q] # j
    BY <1>5, <1>8, <2>1 DEF Idle
  <2> QED BY <1>1, <1>3, <1>8, <2>2 DEF Idle
<1>9. ASSUME NEW t \in Server, NEW j \in Conn, Early(t, j)'
      PROVE  Early(t, j)
  <2>1. CASE Queued(t, j)'
    BY <1>3, <2>1 DEF Early
  <2>2. ASSUME NEW q \in Role, cur'[t][q] = j, pc'[t][q] \in Unadded
        PROVE  Early(t, j)
    <3>1. CASE t = s /\ q = "tcp"
      BY <1>4, <1>5, <2>2, <3>1 DEF Early
    <3>2. CASE t # s \/ q # "tcp"
      BY <1>5, <2>2, <3>2 DEF Early, Serving
    <3> QED BY <3>1, <3>2
  <2> QED BY <1>9, <2>1, <2>2 DEF Early, Serving
<1>10. NoVictims'
  <2>1. ASSUME NEW q \in Role, q # "tcp", pc[s][q] = "reclose"
        PROVE  FALSE
    <3>1. q = "udp" /\ cur[s]["udp"] # None /\ from[cur[s]["udp"]] = s /\ EndOf(s, cur[s]["udp"])
      BY <2>1, Current DEF Role
    <3>2. to[cur[s]["udp"]] \in Server /\ to[cur[s]["udp"]] # s
      BY <3>1, <1>0, Current, <2>1 DEF EndOf, Made, Typed, TypeOK, Shape, Related, Ends
    <3>3. Active(to[cur[s]["udp"]])
      BY <3>1 DEF Active
    <3> QED BY <1>4, <3>2, <3>3 DEF OneByOne, OneJoins
  <2>2. \A t \in Server, q \in Role : victim'[t][q] = victim[t][q]
    BY <1>0, <1>1, <2>1, NewDescriptorPut DEF Typed
  <2>3. \A t \in Server, q \in Role : pc'[t][q] = "stale" => pc[t][q] = "stale"
    BY <1>5
  <2> QED BY <2>2, <2>3 DEF OneByOne, NoVictims
<1>11. Once'
  BY <1>1 DEF OneByOne, Once
<1> QED BY <1>1, <1>6, <1>7, <1>8, <1>9, <1>10, <1>11, CalmStep

\* A server connects to the one that joins: there was nothing between the two.
LEMMA OpenSocketStarts ==
    ASSUME Typed, OneByOne, NEW s \in Server, OpenSocket(s)
    PROVE  OneByOne'
<1>0. "udp" \in Role /\ "tcp" \in Role /\ "udp" # "tcp"
  BY DEF Role
<1>n. (\A j \in Conn : j # None) /\ (\A t \in Server : t # None)
  BY ConstantsOK DEF ConstantsOK
<1>a. OpenSocketDoes(s)
  BY OpenSocketEffect
<1>p. PICK p \in Server : p = target[s] /\ p # s
  BY <1>a DEF OpenSocketDoes
<1>1. /\ pc[s]["udp"] = "open" /\ cur[s]["udp"] = None
      /\ target'[s] = None /\ \A t \in Server : t # s => target'[t] = target[t]
      /\ UNCHANGED <<main, clients, reader, datagrams>>
  BY <1>a DEF OpenSocketDoes, Typed, TypeOK
<1>2. /\ Active(p) /\ Pending(s, p) /\ main[p] # "starting" /\ ~(datagrams[s][p] > 0)
      /\ \A q \in Server : Active(q) => q = p
  <2>1. Active(p) /\ Pending(s, p)
    BY <1>p DEF Active, Pending
  <2>2. main[p] # "starting" /\ datagrams[s][p] # 1 /\ datagrams[s][p] <= 1 /\ datagrams[s][p] \in Nat
    BY <1>p DEF OneByOne, Once, Typed, TypeOK
  <2> QED BY <2>1, <2>2 DEF OneByOne, OneJoins
<1>3. \A t, q \in Server : Pending(t, q)' => Pending(t, q) /\ q = p /\ t # s
  <2>1. ASSUME NEW t \in Server, NEW q \in Server, Pending(t, q)'
        PROVE  Pending(t, q) /\ q = p /\ t # s
    <3>1. Pending(t, q)
      BY <1>1, <1>n, <2>1 DEF Pending
    <3>2. q = p
      BY <1>2, <3>1 DEF Pending, Active
    <3>3. t # s
      BY <1>1, <1>2, <1>n, <2>1, <3>2 DEF Pending
    <3> QED BY <3>1, <3>2, <3>3
  <2> QED BY <2>1
<1>4. Once'
  BY <1>1, <1>n DEF OneByOne, Once
<1>5. CASE PcAt(s, "udp", "wait") /\ UNCHANGED <<from, to, backlog, cur, victim>>
  <2>1. \A q \in Server : Active(q)' => Active(q)
    BY <1>1, <1>5, <1>n DEF Active
  <2>2. \A t \in Server, j \in Conn : Idle(t, j) => Idle(t, j)'
    BY <1>1, <1>5 DEF Idle, Queued
  <2>3. \A t \in Server, j \in Conn : Early(t, j)' => Early(t, j)
    <3>1. \A t \in Server, q \in Role : pc'[t][q] \in Unadded => pc'[t][q] = pc[t][q]
      BY <1>5 DEF PcAt, Unadded
    <3> QED BY <1>5, <3>1 DEF Early, Serving, Queued
  <2>4. NoVictims'
    BY <1>5 DEF OneByOne, NoVictims, PcAt
  <2> QED BY <1>1, <1>3, <1>4, <1>5, <2>1, <2>2, <2>3, <2>4, CalmStep
<1>6. ASSUME NEW k \in Conn,
             from[k] = None,
             from' = [from EXCEPT ![k] = s],
             to' = [to EXCEPT ![k] = target[s]],
             open' = [open EXCEPT ![k] = {s, target[s]}],
             backlog' = [backlog EXCEPT ![target[s]] = Append(@, k)],
             CurAt(s, "udp", k), PcAt(s, "udp", "send"),
             NewDescriptor(s, "udp", k)
      PROVE  OneByOne'
  <2>1. /\ from'[k] = s /\ to'[k] = p
        /\ \A j \in Conn : j # k => from'[j] = from[j] /\ to'[j] = to[j]
        /\ backlog'[p] = Append(backlog[p], k)
        /\ \A t \in Server : t # p => backlog'[t] = backlog[t]
    BY <1>6, <1>p DEF Typed, TypeOK
  <2>2. /\ \A t \in Server, q \in Role : t # s \/ q # "udp" => cur'[t][q] = cur[t][q] /\ pc'[t][q] = pc[t][q]
        /\ cur'[s]["udp"] = k
    BY <1>6 DEF CurAt, PcAt
  <2>3. \A t \in Server, j \in Conn : Queued(t, j)' <=> Queued(t, j) \/ (t = p /\ j = k)
    BY <1>p, <2>1, AppendQueued
  <2>4. \A j \in Conn : j # k =>
           (Made(j)' <=> Made(j)) /\ \A t \in Server : PeerOn(t, j)' = PeerOn(t, j)
    BY <2>1 DEF Made, PeerOn
  <2>5. \A t \in Server : ~EndOf(t, k) /\ reader[t][k] = "none" /\ ~Early(t, k)
    <3>1. ~Made(k)
      BY <1>6 DEF Made
    <3> QED BY <3>1, EarlyEnds DEF EndOf, Typed, Shape, Related, Readers
  <2>6. \A t \in Server, q \in Role : cur[t][q] # k
    <3>1. ASSUME NEW t \in Server, NEW q \in Role, cur[t][q] = k
          PROVE  FALSE
      BY <1>n, <2>5, <3>1, Current DEF Typed, Shape, Labelled
    <3> QED BY <3>1
  <2>7. OneJoins'
    <3>1. ASSUME NEW q \in Server, q # p, Active(q)'
          PROVE  Active(q)
      <4>1. \A t \in Server : cur'[t]["tcp"] = cur[t]["tcp"]
        BY <1>0, <2>2
      <4>2. backlog'[q] = backlog[q]
        BY <2>1, <3>1
      <4>3. \A t \in Server : target'[t] = q => target[t] = q
        BY <1>1, <1>n
      <4>4. ASSUME NEW t \in Server, cur'[t]["udp"] # None, to'[cur'[t]["udp"]] = q
            PROVE  cur[t]["udp"] # None /\ to[cur[t]["udp"]] = q
        <5>1. t # s
          BY <2>1, <2>2, <3>1, <4>4
        <5>2. cur'[t]["udp"] = cur[t]["udp"]
          BY <1>0, <2>2, <5>1
        <5>3. cur[t]["udp"] \in Conn
          BY <1>0, <4>4, <5>2 DEF Typed, TypeOK
        <5>4. cur[t]["udp"] # k
          BY <1>0, <2>6
        <5> QED BY <2>1, <4>4, <5>2, <5>3, <5>4
      <4> QED BY <1>1, <3>1, <4>1, <4>2, <4>3, <4>4 DEF Active
    <3>2. \A q \in Server : Active(q)' => q = p
      BY <1>2, <3>1
    <3> QED BY <3>2 DEF OneJoins
  <2>8. NoVictims'
    <3>1. pc[s]["tcp"] # "reclose"
      <4>1. ASSUME pc[s]["tcp"] = "reclose"
            PROVE  FALSE
        <5>1. cur[s]["tcp"] # None
          BY <1>0, <4>1, Current
        <5>2. Active(s)
          BY <5>1 DEF Active
        <5> QED BY <1>2, <1>p, <5>2
      <4> QED BY <4>1
    <3>2. \A q \in Role : q # "udp" => pc[s][q] # "reclose"
      BY <3>1 DEF Role
    <3>3. \A t \in Server, q \in Role : victim'[t][q] = victim[t][q]
      <4>1. TypeOK /\ "udp" \in Role /\ NewDescriptor(s, "udp", k)
        BY <1>6 DEF Typed, Role
      <4>2. \A t \in Server, q \in Role : victim'[t][q] # victim[t][q] =>
               t = s /\ pc[s][q] = "reclose" /\ q # "udp"
        BY <4>1, NewDescriptorPut
      <4> QED BY <3>2, <4>2
    <3>4. \A t \in Server, q \in Role : pc'[t][q] = "stale" => pc[t][q] = "stale"
      BY <1>6 DEF PcAt
    <3> QED BY <3>3, <3>4 DEF OneByOne, NoVictims
  <2>9. \A t \in Server, j \in Conn : j # k => (Idle(t, j) => Idle(t, j)') /\ (Early(t, j)' => Early(t, j))
    <3>1. ASSUME NEW t \in Server, NEW j \in Conn, j # k
          PROVE  /\ Queued(t, j)' <=> Queued(t, j)
                 /\ \A q \in Role : cur'[t][q] = j => cur[t][q] = j /\ pc'[t][q] = pc[t][q]
      BY <2>2, <2>3, <3>1
    <3>2. ASSUME NEW t \in Server, NEW j \in Conn, j # k, Idle(t, j)
          PROVE  Idle(t, j)'
      BY <1>1, <3>1, <3>2 DEF Idle
    <3>3. ASSUME NEW t \in Server, NEW j \in Conn, j # k, Early(t, j)'
          PROVE  Early(t, j)
      BY <3>1, <3>3 DEF Early, Serving
    <3> QED BY <3>2, <3>3
  <2>10. ASSUME NEW t \in Server, t # s, t # p
         PROVE  Idle(t, k)'
    <3>1. reader[t][k] = "none" /\ ~Queued(t, k)' /\ \A q \in Role : cur'[t][q] # k
      <4>1. ~Queued(t, k)
        BY <2>5 DEF Early
      <4> QED BY <2>2, <2>3, <2>5, <2>6, <2>10, <4>1
    <3> QED BY <1>1, <3>1 DEF Idle
  <2>11. Virgin'
    <3>1. ASSUME NEW t \in Server, NEW q \in Server, t # q, Untouched(t, q),
                 ~(t = s /\ q = p), ~(t = p /\ q = s)
          PROVE  Untouched(t, q)'
      <4>1. ASSUME NEW j \in Conn, Made(j)', PeerOn(t, j)' = q
            PROVE  Idle(t, j)'
        <5>1. CASE j # k
          BY <2>4, <2>9, <3>1, <4>1, <5>1 DEF Untouched
        <5>2. CASE j = k
          <6>1. t # s /\ t # p
            BY <1>p, <2>1, <3>1, <4>1, <5>2 DEF PeerOn
          <6> QED BY <2>10, <5>2, <6>1
        <5> QED BY <5>1, <5>2
      <4> QED BY <1>1, <3>1, <4>1 DEF Untouched
    <3>2. ASSUME NEW t \in Server, NEW q \in Server, t # q, Pending(t, q)'
          PROVE  Untouched(t, q)' /\ Untouched(q, t)'
      <4>1. Untouched(t, q) /\ Untouched(q, t) /\ q = p /\ t # s
        BY <1>3, <3>2 DEF OneByOne, Virgin
      <4> QED BY <1>p, <3>1, <3>2, <4>1
    <3> QED BY <3>2 DEF Virgin
  <2>12. Alone'
    <3>0. Untouched(s, p) /\ Untouched(p, s)
      BY <1>2, <1>p DEF OneByOne, Virgin
    <3>1. ASSUME NEW t \in Server, NEW j \in Conn, Early(t, j)',
                 NEW q \in Server, PeerOn(t, j)' = q
          PROVE  /\ clients[t][q] = None
                 /\ \A l \in Conn : l # j /\ Made(l)' /\ PeerOn(t, l)' = q => Idle(t, l)'
      <4>1. CASE j = k
        <5>1. (t = s /\ q = p) \/ (t = p /\ q = s)
          <6>1. t = s \/ t = p
            BY <2>10, <3>1, <4>1 DEF Early, Serving, Idle
          <6> QED BY <1>p, <2>1, <3>1, <4>1, <6>1 DEF PeerOn
        <5> QED BY <2>4, <2>9, <3>0, <4>1, <5>1 DEF Untouched
      <4>2. CASE j # k
        <5>1. Early(t, j) /\ PeerOn(t, j) = q
          BY <2>4, <2>9, <3>1, <4>2
        <5>2. /\ clients[t][q] = None
              /\ \A l \in Conn : l # j /\ Made(l) /\ PeerOn(t, l) = q => Idle(t, l)
          BY <5>1 DEF OneByOne, Alone
        <5>3. Made(j) /\ ~Idle(t, j)
          BY <5>1, EarlyEnds
        <5>4. ASSUME PeerOn(t, k)' = q
              PROVE  t # s /\ t # p
          BY <1>p, <2>1, <3>0, <5>1, <5>3, <5>4 DEF PeerOn, Untouched
        <5>5. ASSUME NEW l \in Conn, l # j, Made(l)', PeerOn(t, l)' = q
              PROVE  Idle(t, l)'
          <6>1. CASE l = k
            BY <2>10, <5>4, <5>5, <6>1
          <6>2. CASE l # k
            BY <2>4, <2>9, <5>2, <5>5, <6>2
          <6> QED BY <6>1, <6>2
        <5> QED BY <5>2, <5>5
      <4> QED BY <4>1, <4>2
    <3>2. ASSUME NEW t \in Server, NEW j \in Conn, Early(t, j)'
          PROVE  PeerOn(t, j)' \in Server
      <4>1. CASE j = k
        BY <2>1, <4>1 DEF PeerOn
      <4>2. CASE j # k
        BY <2>4, <2>9, <3>2, <4>2, EarlyEnds
      <4> QED BY <4>1, <4>2
    <3> QED BY <1>1, <3>1, <3>2 DEF Alone
  <2> QED BY <1>4, <2>7, <2>8, <2>11, <2>12 DEF OneByOne
<1> QED BY <1>a, <1>5, <1>6 DEF OpenSocketDoes

\* The entry is free, and the one who takes it the only one who wants it.
LEMMA AddClientStarts ==
    ASSUME Typed, Owners, OneByOne, NEW s \in Server, NEW r \in Role, AddClient(s, r)
    PROVE  OneByOne' /\ UNCHANGED faults
<1>0. \A j \in Conn : j # None
  BY ConstantsOK DEF ConstantsOK
<1>k. PICK k \in Conn : k = cur[s][r]
  BY Current DEF AddClient, At
<1>p. PICK p \in Server : p = PeerOn(s, k)
  BY <1>k, Current DEF AddClient, At
<1>1. pc[s][r] = "add"
  BY DEF AddClient, At
<1>2. Early(s, k) /\ Made(k) /\ ~Idle(s, k)
  <2>1. Early(s, k)
    BY <1>1, <1>k DEF Early, Serving, Unadded
  <2> QED BY <2>1, EarlyEnds
<1>3. /\ clients[s][p] = None
      /\ \A l \in Conn : l # k /\ Made(l) /\ PeerOn(s, l) = p => Idle(s, l)
  BY <1>2, <1>p DEF OneByOne, Alone
<1>4. /\ ClientsAt(s, p, k) /\ PcAt(s, r, "run")
      /\ UNCHANGED <<main, cur, target, victim, reader, datagrams, from, to, backlog, faults>>
  BY <1>1, <1>3, <1>k, <1>p, AddClientEffect, InsertedAlone DEF AddClientDoes, tcp
<1>5. /\ \A t, q \in Server : t # s \/ q # p => clients'[t][q] = clients[t][q]
      /\ \A t \in Server, q \in Role : pc'[t][q] \in Unadded => pc'[t][q] = pc[t][q]
  BY <1>4 DEF ClientsAt, PcAt, Unadded
<1>6. \A t \in Server, j \in Conn :
         /\ Idle(t, j)' <=> Idle(t, j)
         /\ Early(t, j)' => Early(t, j)
         /\ PeerOn(t, j)' = PeerOn(t, j) /\ (Made(j)' <=> Made(j))
  BY <1>4, <1>5 DEF Idle, Early, Serving, Queued, PeerOn, Made
<1>7. ~Early(s, k)'
  <2>1. \A q \in Role : q # r => cur[s][q] # k
    BY <1>0, <1>k, Apart
  <2>2. ~Queued(s, k)
    <3>1. CASE r = "udp"
      BY <1>k, <3>1, QueuedApart
    <3>2. CASE r = "tcp"
      BY <1>k, <3>2 DEF Owners, Waiting
    <3> QED BY <3>1, <3>2 DEF Role
  <2>3. pc'[s][r] = "run"
    BY <1>4 DEF PcAt
  <2> QED BY <1>4, <2>1, <2>2, <2>3 DEF Early, Serving, Queued, Unadded
<1>8. OneJoins' /\ NoVictims' /\ Once'
  BY <1>4 DEF OneByOne, OneJoins, Active, NoVictims, Once, PcAt
<1>9. Virgin'
  <2>1. ~Untouched(s, p)
    BY <1>2, <1>p DEF Untouched
  <2>2. ASSUME NEW t \in Server, NEW q \in Server, Untouched(t, q)
        PROVE  Untouched(t, q)'
    <3>1. t # s \/ q # p
      BY <2>1, <2>2
    <3> QED BY <1>5, <1>6, <2>2, <3>1 DEF Untouched
  <2>3. \A t, q \in Server : Pending(t, q)' => Pending(t, q)
    BY <1>4 DEF Pending
  <2> QED BY <2>2, <2>3 DEF OneByOne, Virgin
<1>10. Alone'
  <2>1. ASSUME NEW t \in Server, NEW j \in Conn, Early(t, j)'
        PROVE  /\ clients'[t][PeerOn(t, j)] = None
               /\ \A l \in Conn : l # j /\ Made(l) /\ PeerOn(t, l) = PeerOn(t, j) => Idle(t, l)
    <3>1. /\ Early(t, j) /\ Made(j) /\ ~Idle(t, j) /\ PeerOn(t, j) \in Server
          /\ clients[t][PeerOn(t, j)] = None
          /\ \A l \in Conn : l # j /\ Made(l) /\ PeerOn(t, l) = PeerOn(t, j) => Idle(t, l)
      BY <1>6, <2>1, EarlyEnds DEF OneByOne, Alone
    <3>2. ~(t = s /\ PeerOn(t, j) = p)
      BY <1>3, <1>7, <2>1, <3>1
    <3> QED BY <1>5, <3>1, <3>2
  <2> QED BY <1>6, <2>1 DEF Alone
<1> QED BY <1>4, <1>8, <1>9, <1>10 DEF OneByOne

\* The callbacks tell the application of every entry: a step that touches no
\* entry, no report and no thread between the two changes nothing.
LEMMA SameTold ==
    ASSUME Typed, Told, UNCHANGED <<clients, view, from, to>>,
           \A s \in Server, k \in Conn : reader'[s][k] = "notify" => reader[s][k] = "notify",
           \A s \in Server, r \in Role : pc[s][r] \in Telling =>
              cur'[s][r] = cur[s][r] /\ pc'[s][r] \in Telling
    PROVE  Told'
<1>1. Reported'
  BY DEF Told, Reported, Serving
<1>2. Unreported'
  BY DEF Told, Unreported, PeerOn
<1> QED BY <1>1, <1>2 DEF Told

\* Nothing is left to tell of a process that ends.
LEMMA DieTold ==
    ASSUME Typed, Told, NEW s \in Server, Die(s)
    PROVE  Told'
<1>1. /\ \A p \in Server : clients'[s][p] = None
      /\ \A k \in Conn : reader'[s][k] = "none"
      /\ \A t \in Server : t # s =>
            /\ pc'[t] = pc[t] /\ cur'[t] = cur[t]
            /\ clients'[t] = clients[t] /\ reader'[t] = reader[t] /\ view'[t] = view[t]
  BY DieTyped DEF Typed
<1>2. UNCHANGED <<from, to>>
  BY DEF Die
<1>3. Reported'
  BY <1>1 DEF Told, Reported, Serving
<1>4. Unreported'
  BY <1>1, <1>2 DEF Told, Unreported, PeerOn
<1> QED BY <1>3, <1>4 DEF Told

\* The new entry is going to be reported, and no old connection's disconnection
\* is still to be reported after it.
LEMMA AddClientTold ==
    ASSUME Typed, Owners, OneByOne, Told, NEW s \in Server, NEW r \in Role, AddClient(s, r)
    PROVE  Told'
<1>0. \A j \in Conn : j # None
  BY ConstantsOK DEF ConstantsOK
<1>k. PICK k \in Conn : k = cur[s][r]
  BY Current DEF AddClient, At
<1>p. PICK p \in Server : p = PeerOn(s, k)
  BY <1>k, Current DEF AddClient, At
<1>1. pc[s][r] = "add"
  BY DEF AddClient, At
<1>2. Early(s, k)
  BY <1>1, <1>k DEF Early, Serving, Unadded
<1>3. /\ clients[s][p] = None
      /\ \A l \in Conn : l # k /\ Made(l) /\ PeerOn(s, l) = p => Idle(s, l)
  BY <1>2, <1>p DEF OneByOne, Alone
<1>4. /\ ClientsAt(s, p, k) /\ PcAt(s, r, "run")
      /\ UNCHANGED <<cur, reader, view, from, to>>
  BY <1>1, <1>3, <1>k, <1>p, AddClientEffect, InsertedAlone DEF AddClientDoes, tcp
<1>5. /\ clients'[s][p] = k
      /\ \A t, q \in Server : t # s \/ q # p => clients'[t][q] = clients[t][q]
      /\ \A t \in Server, q \in Role : t # s \/ q # r => pc'[t][q] = pc[t][q]
      /\ pc'[s][r] = "run"
  BY <1>4 DEF ClientsAt, PcAt
<1>6. Reported'
  <2>1. ASSUME NEW t \in Server, NEW q \in Server, clients'[t][q] # None
        PROVE  q \in view[t] \/ \E n \in Role : cur[t][n] = clients'[t][q] /\ pc'[t][n] \in Telling
    <3>1. CASE t = s /\ q = p
      BY <1>k, <1>5, <3>1 DEF Telling, Adding
    <3>2. CASE t # s \/ q # p
      <4>1. q \in view[t] \/ \E n \in Role : cur[t][n] = clients[t][q] /\ pc[t][n] \in Telling
        BY <1>5, <2>1, <3>2 DEF Told, Reported, Serving
      <4> QED BY <1>1, <1>5, <3>2, <4>1 DEF Telling, Adding
    <3> QED BY <3>1, <3>2
  <2> QED BY <1>4, <2>1 DEF Reported, Serving
<1>7. Unreported'
  <2>1. ASSUME NEW t \in Server, NEW j \in Conn, reader[t][j] = "notify"
        PROVE  clients'[t][PeerOn(t, j)] = None
    <3>1. /\ clients[t][PeerOn(t, j)] = None /\ PeerOn(t, j) \in Server /\ Made(j)
      <4>1. Made(j)
        BY <2>1 DEF Typed, Shape, Related, Readers, EndOf
      <4>2. from[j] \in Server /\ to[j] \in Server
        BY <4>1 DEF Typed, TypeOK, Shape, Related, Ends, Made
      <4> QED BY <2>1, <4>1, <4>2 DEF Told, Unreported, PeerOn
    <3>2. ~(t = s /\ PeerOn(t, j) = p)
      <4>1. reader[s][k] = "none"
        BY <1>1, <1>k DEF Owners, Unread, Handshake
      <4> QED BY <1>3, <2>1, <3>1, <4>1 DEF Idle
    <3> QED BY <1>5, <3>1, <3>2
  <2> QED BY <1>4, <2>1 DEF Unreported, PeerOn
<1> QED BY <1>6, <1>7 DEF Told

\* The connect callback reports the entry whose thread calls it.
LEMMA ConnectCallbackTold ==
    ASSUME Typed, Told, NEW s \in Server, NEW r \in Role, ConnectCallback(s, r)
    PROVE  Told'
<1>1. /\ pc[s][r] = "callback"
      /\ view' = [view EXCEPT ![s] = @ \cup {PeerOn(s, cur[s][r])}]
      /\ CurAt(s, r, None) /\ PcAt(s, r, "wait")
      /\ UNCHANGED <<clients, reader, from, to>>
  BY ConnectCallbackEffect DEF ConnectCallbackDoes, tcp
<1>2. /\ \A t \in Server : view[t] \subseteq view'[t]
      /\ PeerOn(s, cur[s][r]) \in view'[s]
  BY <1>1 DEF Typed, TypeOK
<1>3. Reported'
  <2>1. ASSUME NEW t \in Server, NEW q \in Server, clients[t][q] # None
        PROVE  q \in view'[t] \/ \E n \in Role : cur'[t][n] = clients[t][q] /\ pc'[t][n] \in Telling
    <3>1. q \in view[t] \/ \E n \in Role : cur[t][n] = clients[t][q] /\ pc[t][n] \in Telling
      BY <2>1 DEF Told, Reported, Serving
    <3>2. CASE q \in view[t]
      BY <1>2, <3>2
    <3>3. ASSUME NEW n \in Role, cur[t][n] = clients[t][q], pc[t][n] \in Telling
          PROVE  q \in view'[t] \/ (cur'[t][n] = clients[t][q] /\ pc'[t][n] \in Telling)
      <4>1. CASE t = s /\ n = r
        <5>1. PeerOn(s, clients[s][q]) = q
          BY <2>1, <4>1 DEF Typed, Shape, Related, Entries
        <5> QED BY <1>2, <3>3, <4>1, <5>1
      <4>2. CASE t # s \/ n # r
        BY <1>1, <3>3, <4>2 DEF CurAt, PcAt
      <4> QED BY <4>1, <4>2
    <3> QED BY <3>1, <3>2, <3>3
  <2> QED BY <1>1, <2>1 DEF Reported, Serving
<1>4. Unreported'
  BY <1>1 DEF Told, Unreported, PeerOn
<1> QED BY <1>3, <1>4 DEF Told

\* A reader reports a disconnection while there is no entry for the peer.
LEMMA ReaderTold ==
    ASSUME Typed, Owners, Told, NEW s \in Server, NEW k \in Conn, ReaderStep(s, k)
    PROVE  Told'
<1>1. CASE ReaderFails(s, k)
  <2>1. UNCHANGED <<pc, cur, clients, view, from, to>> /\ ReaderAt(s, k, "erase")
    BY <1>1, ReaderFailsEffect DEF ReaderFailsDoes
  <2>2. \A t \in Server, j \in Conn : reader'[t][j] = "notify" => reader[t][j] = "notify"
    BY <2>1 DEF ReaderAt
  <2> QED BY <2>1, <2>2, SameTold
<1>2. CASE EraseClient(s, k)
  <2>1. /\ UNCHANGED <<pc, cur, view, from, to>> /\ ReaderAt(s, k, "notify")
        /\ PeerOn(s, k) \in Server /\ ClientsAt(s, PeerOn(s, k), None)
    BY <1>2, EraseClientEffect DEF EraseClientDoes, tcp
  <2>2. /\ clients'[s][PeerOn(s, k)] = None
        /\ \A t, q \in Server : clients'[t][q] = clients[t][q] \/ clients'[t][q] = None
        /\ \A t \in Server, j \in Conn : t # s \/ j # k => reader'[t][j] = reader[t][j]
    BY <2>1 DEF ClientsAt, ReaderAt
  <2>3. Reported'
    BY <2>1, <2>2 DEF Told, Reported, Serving
  <2>4. Unreported'
    <3>1. ASSUME NEW t \in Server, NEW j \in Conn, reader'[t][j] = "notify"
          PROVE  clients'[t][PeerOn(t, j)] = None
      <4>1. CASE t = s /\ j = k
        BY <2>2, <4>1
      <4>2. CASE t # s \/ j # k
        <5>1. reader[t][j] = "notify"
          BY <2>2, <3>1, <4>2
        <5>2. clients[t][PeerOn(t, j)] = None /\ PeerOn(t, j) \in Server
          BY <5>1 DEF Told, Unreported, Typed, TypeOK, Shape, Related, Ends, Readers, EndOf,
              Made, PeerOn
        <5> QED BY <2>2, <5>2
      <4> QED BY <4>1, <4>2
    <3> QED BY <2>1, <3>1 DEF Unreported, PeerOn
  <2> QED BY <2>3, <2>4 DEF Told
<1>3. CASE DisconnectCallback(s, k)
  <2>1. /\ UNCHANGED <<pc, cur, clients, from, to>> /\ ReaderAt(s, k, "none")
        /\ reader[s][k] = "notify" /\ view' = [view EXCEPT ![s] = @ \ {PeerOn(s, k)}]
    BY <1>3, DisconnectCallbackEffect DEF DisconnectCallbackDoes, tcp
  <2>2. \A t, q \in Server : q \in view[t] /\ ~(t = s /\ q = PeerOn(s, k)) => q \in view'[t]
    BY <2>1 DEF Typed, TypeOK
  <2>3. clients[s][PeerOn(s, k)] = None
    BY <2>1 DEF Told, Unreported
  <2>4. Reported'
    <3>1. ASSUME NEW t \in Server, NEW q \in Server, clients[t][q] # None
          PROVE  q \in view'[t] \/ \E n \in Role : Serving(t, n, clients[t][q], Telling)
      BY <2>2, <2>3, <3>1 DEF Told, Reported
    <3> QED BY <2>1, <3>1 DEF Reported, Serving
  <2>5. Unreported'
    <3>1. \A t \in Server, j \in Conn : reader'[t][j] = "notify" => reader[t][j] = "notify"
      BY <2>1 DEF ReaderAt
    <3> QED BY <2>1, <3>1 DEF Told, Unreported, PeerOn
  <2> QED BY <2>4, <2>5 DEF Told
<1> QED BY <1>1, <1>2, <1>3 DEF ReaderStep

-----------------------------------------------------------------------------
(* The theorems.                                                           *)

Joined == OneByOne /\ Told /\ Harmless

\* The service threads' own steps.
LEMMA ThreadJoined ==
    ASSUME Typed, Owners, Joined, NEW s \in Server, NEW r \in Role,
           \/ r = "udp" /\ (SendAck(s) \/ AwaitResponse(s))
           \/ r = "tcp" /\ (ReadAck(s) \/ Reply(s))
           \/ RunClient(s, r) \/ UseClient(s, r) \/ Close(s, r)
    PROVE  Joined'
<1>1. \E l, x :
         /\ PcAt(s, r, l) /\ CurAt(s, r, x) /\ (x = cur[s][r] \/ x = None)
         /\ l \in Unadded => pc[s][r] \in Unadded /\ x = cur[s][r]
         /\ pc[s][r] \in Telling => x = cur[s][r] /\ l \in Telling
         /\ l # "stale"
  <2>1. CurAt(s, r, cur[s][r]) \/ cur' # cur
    BY SameCur DEF Typed
  <2>2. CASE r = "udp" /\ SendAck(s)
    BY <2>1, <2>2, SendAckEffect DEF SendAckDoes, Unadded, Telling, Adding
  <2>3. CASE r = "udp" /\ AwaitResponse(s)
    BY <2>1, <2>3, AwaitResponseEffect DEF AwaitResponseDoes, Unadded, Telling, Adding
  <2>4. CASE r = "tcp" /\ ReadAck(s)
    BY <2>1, <2>4, ReadAckEffect DEF ReadAckDoes, Unadded, Telling, Adding
  <2>5. CASE r = "tcp" /\ Reply(s)
    BY <2>1, <2>5, ReplyEffect DEF ReplyDoes, Unadded, Telling, Adding
  <2>6. CASE RunClient(s, r)
    BY <2>1, <2>6, RunClientEffect DEF RunClientDoes, Unadded, Telling, Adding
  <2>7. CASE UseClient(s, r)
    BY <2>1, <2>7, UseClientEffect DEF UseClientDoes, Unadded, Telling, Adding
  <2>8. CASE Close(s, r)
    BY <2>1, <2>8, CloseEffect DEF CloseDoes, Unadded, Telling, Adding
  <2> QED BY <2>2, <2>3, <2>4, <2>5, <2>6, <2>7, <2>8
<1>2. UNCHANGED <<main, target, victim, clients, view, datagrams, backlog, from, to, faults>>
  BY SendAckEffect, AwaitResponseEffect, ReadAckEffect, ReplyEffect,
     RunClientEffect, UseClientEffect, CloseEffect
     DEF SendAckDoes, AwaitResponseDoes, ReadAckDoes, ReplyDoes,
         RunClientDoes, UseClientDoes, CloseDoes, tcp
<1>3. /\ \A t \in Server, k \in Conn : Idle(t, k) => reader'[t][k] = "none"
      /\ \A t \in Server, k \in Conn : reader'[t][k] = "notify" => reader[t][k] = "notify"
  <2>1. CASE UNCHANGED reader
    BY <2>1 DEF Idle
  <2>2. CASE UseClient(s, r)
    <3>1. /\ ReaderAt(s, clients[s][PeerOn(s, cur[s][r])], "recv")
          /\ pc[s][r] \in {"use", "stale"}
      BY <2>2, UseClientEffect DEF UseClientDoes
    <3>2. ReaderAt(s, cur[s][r], "recv")
      BY <3>1 DEF Owners, RunnerHasEntry, Adding
    <3> QED BY <3>2 DEF ReaderAt, Idle
  <2> QED BY <2>1, <2>2, SendAckEffect, AwaitResponseEffect, ReadAckEffect, ReplyEffect,
             RunClientEffect, CloseEffect
          DEF SendAckDoes, AwaitResponseDoes, ReadAckDoes, ReplyDoes, RunClientDoes, CloseDoes
<1>4. PICK l, x :
         /\ PcAt(s, r, l) /\ CurAt(s, r, x) /\ (x = cur[s][r] \/ x = None)
         /\ l \in Unadded => pc[s][r] \in Unadded /\ x = cur[s][r]
         /\ pc[s][r] \in Telling => x = cur[s][r] /\ l \in Telling
         /\ l # "stale"
  BY <1>1
<1>5. OneByOne'
  <2>1. NoVictims'
    BY <1>2, <1>4 DEF Joined, OneByOne, NoVictims, PcAt
  <2> QED BY <1>2, <1>3, <1>4, <2>1, ThreadStarts DEF Joined
<1>6. Told'
  <2>1. \A t \in Server, q \in Role : pc[t][q] \in Telling =>
           cur'[t][q] = cur[t][q] /\ pc'[t][q] \in Telling
    BY <1>4 DEF PcAt, CurAt
  <2> QED BY <1>2, <1>3, <2>1, SameTold DEF Joined
<1> QED BY <1>2, <1>5, <1>6 DEF Joined, Harmless

\* The ends of the handlers.
LEMMA HandlerEndJoined ==
    ASSUME Typed, Owners, Joined, NEW s \in Server, NEW r \in Role,
           ConnectCallback(s, r) \/ CloseAgain(s, r)
    PROVE  Joined'
<1>1. CASE ConnectCallback(s, r)
  <2>1. /\ CurAt(s, r, None) /\ PcAt(s, r, "wait") /\ "wait" \notin Unadded
        /\ UNCHANGED <<main, target, victim, clients, reader, datagrams, from, to, backlog, faults>>
    BY <1>1, ConnectCallbackEffect DEF ConnectCallbackDoes, tcp, Unadded
  <2>2. NoVictims' /\ Harmless'
    BY <2>1 DEF Joined, OneByOne, NoVictims, Harmless, PcAt
  <2>3. OneByOne'
    BY <2>1, <2>2, ThreadStarts DEF Joined, Idle
  <2> QED BY <1>1, <2>2, <2>3, ConnectCallbackTold DEF Joined
<1>2. CASE CloseAgain(s, r)
  <2>1. /\ pc[s][r] = "reclose"
        /\ VictimAt(s, r, None) /\ CurAt(s, r, None) /\ PcAt(s, r, "wait") /\ "wait" \notin Unadded
        /\ UNCHANGED <<main, target, clients, reader, view, datagrams, from, to, backlog>>
        /\ victim[s][r] # None \/ UNCHANGED faults
    BY <1>2, CloseAgainEffect DEF CloseAgainDoes, Unadded
  <2>2. NoVictims'
    BY <2>1 DEF Joined, OneByOne, NoVictims, VictimAt, PcAt
  <2>3. Harmless'
    BY <2>1 DEF Joined, OneByOne, NoVictims, Harmless, PcAt
  <2>4. OneByOne'
    BY <2>1, <2>2, ThreadStarts DEF Joined, Idle
  <2>5. Told'
    <3>1. \A t \in Server, q \in Role : pc[t][q] \in Telling =>
             cur'[t][q] = cur[t][q] /\ pc'[t][q] \in Telling
      BY <2>1 DEF PcAt, CurAt, Telling, Adding
    <3> QED BY <2>1, <3>1, SameTold DEF Joined
  <2> QED BY <2>3, <2>4, <2>5 DEF Joined
<1> QED BY <1>1, <1>2

\* The steps that lead to a connection.
LEMMA ConnectJoined ==
    ASSUME Sequential, Typed, Owners, Joined, NEW s \in Server,
           Start(s) \/ Announce(s) \/ HandleConnect(s) \/ OpenSocket(s) \/ Accept(s)
    PROVE  Joined'
<1>1. OneByOne'
  BY StartStarts, AnnounceStarts, HandleConnectStarts, OpenSocketStarts, AcceptStarts DEF Joined
<1>2. /\ UNCHANGED <<clients, view, reader, faults>>
      /\ \A t \in Server, q \in Role : pc[t][q] \in Telling =>
            cur'[t][q] = cur[t][q] /\ pc'[t][q] \in Telling
  <2>1. CASE Start(s) \/ Announce(s)
    BY <2>1, StartEffect, AnnounceEffect DEF StartDoes, AnnounceDoes, local
  <2>2. CASE HandleConnect(s)
    BY <2>2, HandleConnectEffect DEF HandleConnectDoes, PcAt, Telling, Adding
  <2>3. CASE OpenSocket(s)
    BY <2>3, OpenSocketEffect DEF OpenSocketDoes, PcAt, CurAt, Telling, Adding
  <2>4. CASE Accept(s)
    BY <2>4, AcceptEffect DEF AcceptDoes, PcAt, CurAt, Telling, Adding
  <2> QED BY <2>1, <2>2, <2>3, <2>4
<1>3. CASE UNCHANGED <<from, to>>
  BY <1>1, <1>2, <1>3, SameTold DEF Joined, Harmless
<1>4. CASE OpenSocket(s)
  <2>1. Reported'
    BY <1>2 DEF Joined, Told, Reported, Serving
  <2>2. Unreported'
    <3>1. \A j \in Conn : Made(j) => from'[j] = from[j] /\ to'[j] = to[j]
      <4>1. OpenSocketDoes(s)
        BY <1>4, OpenSocketEffect
      <4>2. CASE UNCHANGED <<from, to>>
        BY <4>2
      <4>3. CASE \E k \in Conn : /\ from[k] = None
                                /\ from' = [from EXCEPT ![k] = s]
                                /\ to' = [to EXCEPT ![k] = target[s]]
        <5>1. PICK k \in Conn : /\ from[k] = None
                                /\ from' = [from EXCEPT ![k] = s]
                                /\ to' = [to EXCEPT ![k] = target[s]]
          BY <4>3
        <5>2. from \in [Conn -> Server \cup {None}] /\ to \in [Conn -> Server \cup {None}]
          BY DEF Typed, TypeOK
        <5> QED BY <5>1, <5>2 DEF Made
      <4> QED BY <4>1, <4>2, <4>3 DEF OpenSocketDoes
    <3>2. \A t \in Server, j \in Conn : reader[t][j] = "notify" => PeerOn(t, j)' = PeerOn(t, j)
      BY <3>1 DEF Typed, Shape, Related, Readers, EndOf, PeerOn
    <3> QED BY <1>2, <3>2 DEF Joined, Told, Unreported
  <2> QED BY <1>1, <1>2, <2>1, <2>2 DEF Joined, Told, Harmless
<1> QED BY <1>3, <1>4, StartEffect, AnnounceEffect, HandleConnectEffect, AcceptEffect
        DEF StartDoes, AnnounceDoes, HandleConnectDoes, AcceptDoes, tcp

\* The invariant of servers that are started one at a time.
LEMMA JoinedAlways == Sequential => (Spec => [](Typed /\ Owners /\ Joined))
<1> SUFFICES ASSUME Sequential
             PROVE  Spec => [](Typed /\ Owners /\ Joined)
  OBVIOUS
<1>1. Init => Joined
  <2> SUFFICES ASSUME Init PROVE Joined
    OBVIOUS
  <2>1. "udp" \in Role /\ "tcp" \in Role /\ \A s \in Server : s # None
    BY ConstantsOK DEF ConstantsOK, Role
  <2>2. OneJoins /\ Virgin /\ Once
    BY <2>1 DEF Init, OneJoins, Virgin, Once, Active, Pending
  <2>3. NoVictims /\ Alone
    BY DEF Init, NoVictims, Alone, Early, Serving, Queued, Unadded
  <2>4. Told /\ Harmless
    BY DEF Init, Told, Reported, Unreported, Harmless
  <2> QED BY <2>2, <2>3, <2>4 DEF Joined, OneByOne
<1>2. ASSUME Typed, Owners, Joined, [Next]_vars
      PROVE  Joined'
  <2>1. CASE UNCHANGED vars
    <3>1. UNCHANGED <<main, pc, cur, target, victim, clients, reader, view, datagrams, backlog,
                      from, to, faults>>
      BY <2>1 DEF vars, local, tcp
    <3>2. OneByOne'
      BY <1>2, <3>1 DEF Joined, OneByOne, OneJoins, Active, NoVictims, Once, Virgin, Pending,
          Untouched,
                        Idle, Alone, Early, Serving, Queued, PeerOn, Made
    <3>3. Told' /\ Harmless'
      BY <1>2, <3>1, SameTold DEF Joined, Harmless
    <3> QED BY <3>2, <3>3 DEF Joined
  <2>2. ASSUME NEW s \in Server,
               Start(s) \/ Announce(s) \/ HandleConnect(s) \/ OpenSocket(s) \/ Accept(s)
        PROVE  Joined'
    BY <1>2, <2>2, ConnectJoined
  <2>3. ASSUME NEW s \in Server, Crash(s) \/ \E r \in Role : BrokenPipe(s, r)
        PROVE  Joined'
    <3>1. Die(s) /\ (UNCHANGED faults \/ faults' = faults \cup {"pipe"})
      BY <2>3 DEF Crash, BrokenPipe
    <3> QED BY <1>2, <3>1, DieStarts, DieTold DEF Joined, Harmless
  <2>4. ASSUME NEW s \in Server, SendAck(s) \/ AwaitResponse(s)
        PROVE  Joined'
    BY <1>2, <2>4, ThreadJoined DEF Role
  <2>5. ASSUME NEW s \in Server, ReadAck(s) \/ Reply(s)
        PROVE  Joined'
    BY <1>2, <2>5, ThreadJoined DEF Role
  <2>6. ASSUME NEW s \in Server, NEW r \in Role, Added(s, r)
        PROVE  Joined'
    <3>1. CASE AddClient(s, r)
      BY <1>2, <3>1, AddClientStarts, AddClientTold DEF Joined, Harmless
    <3>2. CASE RunClient(s, r) \/ UseClient(s, r) \/ Close(s, r)
      BY <1>2, <3>2, ThreadJoined
    <3>3. CASE ConnectCallback(s, r) \/ CloseAgain(s, r)
      BY <1>2, <3>3, HandlerEndJoined
    <3>4. ~UseMoved(s, r)
      BY <1>2 DEF UseMoved, At, Joined, OneByOne, NoVictims
    <3> QED BY <2>6, <3>1, <3>2, <3>3, <3>4 DEF Added
  <2>7. ASSUME NEW s \in Server, NEW k \in Conn, ReaderStep(s, k)
        PROVE  Joined'
    <3>1. UNCHANGED faults
      BY <2>7 DEF ReaderStep, ReaderFails, EraseClient, DisconnectCallback
    <3> QED BY <1>2, <2>7, <3>1, ReaderStarts, ReaderTold DEF Joined, Harmless
  <2> QED BY <1>2, <2>1, <2>2, <2>3, <2>4, <2>5, <2>6, <2>7 DEF Next, UdpStep, TcpStep
<1> QED BY <1>1, <1>2, OwnersAlways, PTL DEF Spec

\* Servers that are started one at a time dereference no null pointer and close
\* no descriptor of another connection, whatever crashes in between.
THEOREM StartsAreSafe == Spec => []SequentialStartsAreSafe
<1>1. CASE Sequential
  <2>1. Joined => SequentialStartsAreSafe
    BY DEF Joined, Harmless, SequentialStartsAreSafe
  <2> QED BY <1>1, <2>1, JoinedAlways, PTL
<1>2. CASE ~Sequential
  <2>1. SequentialStartsAreSafe
    BY <1>2 DEF SequentialStartsAreSafe
  <2> QED BY <2>1, PTL
<1> QED BY <1>1, <1>2

\* The application knows the peers that it is connected to once all is quiet.
THEOREM ConnectionsAreReported == Spec => []ConnectedPeersAreReported
<1>1. CASE Sequential
  <2>1. ASSUME Typed, Joined
        PROVE  ConnectedPeersAreReported
    <3>1. ASSUME Quiet, NEW s \in Server, NEW p \in Server, clients[s][p] # None
          PROVE  p \in view[s]
      <4>1. \A r \in Role : pc[s][r] = "wait"
        BY <3>1 DEF Quiet, Settled
      <4> QED BY <2>1, <3>1, <4>1 DEF Joined, Told, Reported, Serving, Telling, Adding
    <3> QED BY <3>1 DEF ConnectedPeersAreReported
  <2> QED BY <1>1, <2>1, JoinedAlways, PTL
<1>2. CASE ~Sequential
  <2>1. ConnectedPeersAreReported
    BY <1>2 DEF ConnectedPeersAreReported
  <2> QED BY <2>1, PTL
<1> QED BY <1>1, <1>2


-----------------------------------------------------------------------------
(* One connection for two servers.                                         *)

\* An end that a queue, a reader or a service thread has is open.  A reader erases
\* its client when its end is closed, and a handler gives up a connection that no
\* reader has, and that is closed at an end or whose servers a failure has disturbed.
Held(s, k) ==
    \/ Queued(s, k)
    \/ reader[s][k] = "recv"
    \/ \E r \in Role : Serving(s, r, k, Handshake \cup {"close"})
Lost(k) == ~OpenAtBothEnds(k) \/ {from[k], to[k]} \in disturbed

HeldOpen == \A s \in Server, k \in Conn : Held(s, k) => s \in open[k]
ErasedClosed == \A s \in Server, k \in Conn : reader[s][k] = "erase" => s \notin open[k]
FailedBroken == \A s \in Server, r \in Role, k \in Conn : Serving(s, r, k, {"close"}) =>
    Lost(k) /\ reader[s][k] = "none"
Lasting == HeldOpen /\ ErasedClosed /\ FailedBroken

\* A lost connection stays lost while its servers run.
LEMMA LostStep ==
    ASSUME NEW k \in Conn, Lost(k), UNCHANGED <<from, to>>, open'[k] \subseteq open[k],
           disturbed \subseteq disturbed'
    PROVE  Lost(k)'
<1>1. CASE ~OpenAtBothEnds(k)
  <2>1. ~({from[k], to[k]} \subseteq open'[k])
    BY <1>1 DEF OpenAtBothEnds
  <2> QED BY <2>1 DEF Lost, OpenAtBothEnds
<1>2. CASE {from[k], to[k]} \in disturbed
  BY <1>2 DEF Lost
<1> QED BY <1>1, <1>2 DEF Lost

\* A failing call loses its connection, and disturbs no pair less than before.
LEMMA FailsLoses ==
    ASSUME NEW k \in Conn, Fails(k), UNCHANGED <<from, to>>, open'[k] \subseteq open[k]
    PROVE  Lost(k)' /\ disturbed \subseteq disturbed'
<1>1. disturbed \subseteq disturbed'
  BY DEF Fails
<1>2. CASE ~OpenAtBothEnds(k)
  BY <1>1, <1>2, LostStep DEF Lost
<1>3. CASE disturbed' = disturbed \cup {{from[k], to[k]}}
  BY <1>3 DEF Lost
<1> QED BY <1>1, <1>2, <1>3 DEF Fails

\* A step that connects nothing, and closes no end that is held behind it.
LEMMA CalmLasting ==
    ASSUME Typed, Lasting, FailedBroken',
           \A k \in Conn : open'[k] \subseteq open[k],
           \A s \in Server, k \in Conn :
              Held(s, k)' => s \in open[k] /\ (s \in open[k] => s \in open'[k]),
           \A s \in Server, k \in Conn :
              reader'[s][k] = "erase" => reader[s][k] = "erase" \/ s \notin open'[k]
    PROVE  Lasting'
<1>1. HeldOpen'
  BY DEF HeldOpen
<1>2. ErasedClosed'
  BY DEF Lasting, ErasedClosed
<1> QED BY <1>1, <1>2 DEF Lasting

\* One service thread moves on, or closes its connection and gives it up.
LEMMA ThreadLasting ==
    ASSUME Typed, Owners, Lasting, NEW s \in Server, NEW r \in Role, NEW l, NEW x,
           PcAt(s, r, l), CurAt(s, r, x), x = cur[s][r] \/ x = None,
           UNCHANGED <<reader, backlog, from, to>>,
           l \in Handshake \cup {"close"} =>
              pc[s][r] \in Handshake \cup {"close"} /\ x = cur[s][r] /\ UNCHANGED open,
           disturbed \subseteq disturbed',
           l = "close" => /\ pc[s][r] \in {"send", "await"}
                          /\ \A k \in Conn : k = cur[s][r] => Lost(k)',
           \/ UNCHANGED open
           \/ pc[s][r] \in Handshake \cup {"close"} /\ Closed(s, cur[s][r])
    PROVE  Lasting'
<1>1. \A t \in Server, q \in Role : pc'[t][q] \in Handshake \cup {"close"} =>
         pc[t][q] \in Handshake \cup {"close"} /\ cur'[t][q] = cur[t][q]
  BY DEF PcAt, CurAt
<1>2. \A t \in Server, k \in Conn : Held(t, k)' => Held(t, k)
  BY <1>1 DEF Held, Queued, Serving
<1>3. \A k \in Conn : open'[k] \subseteq open[k]
  BY DEF Closed, Typed, TypeOK
<1>4. ASSUME NEW t \in Server, NEW k \in Conn, Held(t, k)'
      PROVE  t \in open[k] /\ t \in open'[k]
  <2>1. t \in open[k]
    BY <1>2, <1>4 DEF Lasting, HeldOpen
  <2>2. CASE UNCHANGED open
    BY <2>1, <2>2
  <2>3. CASE pc[s][r] \in Handshake \cup {"close"} /\ Closed(s, cur[s][r]) /\ ~UNCHANGED open
    <3>1. cur[s][r] \in Conn /\ cur[s][r] # None
      BY <2>3, Current DEF Handshake
    <3>2. t # s \/ k # cur[s][r]
      <4> SUFFICES ASSUME t = s, k = cur[s][r]
                   PROVE  FALSE
        OBVIOUS
      <4>1. ~Queued(s, k)
        <5>1. r = "udp" \/ r = "tcp"
          BY DEF Role
        <5> QED BY <5>1, QueuedApart DEF Owners, Waiting
      <4>2. reader[s][k] = "none"
        BY <2>3 DEF Owners, Unread, Lasting, FailedBroken, Serving
      <4>3. \E q \in Role : cur'[s][q] = k /\ pc'[s][q] \in Handshake \cup {"close"}
        BY <1>4, <4>1, <4>2 DEF Held, Queued, Serving
      <4>4. PICK q \in Role : cur'[s][q] = k /\ pc'[s][q] \in Handshake \cup {"close"}
        BY <4>3
      <4>5. q # r
        BY <2>3, <4>4 DEF PcAt
      <4>6. cur[s][q] = cur[s][r]
        BY <1>1, <4>4
      <4> QED BY <3>1, <4>5, <4>6, Apart
    <3> QED BY <2>1, <2>3, <3>1, <3>2 DEF Closed
  <2> QED BY <2>1, <2>2, <2>3
<1>5. ASSUME NEW t \in Server, NEW q \in Role, NEW k \in Conn,
             cur'[t][q] = k, pc'[t][q] = "close"
      PROVE  Lost(k)' /\ reader'[t][k] = "none"
  <2>1. CASE t = s /\ q = r
    <3>1. l = "close" /\ x = cur[s][r] /\ k = cur[s][r]
      BY <1>5, <2>1 DEF PcAt, CurAt
    <3>2. reader[s][k] = "none"
      BY <3>1 DEF Owners, Unread, Handshake
    <3> QED BY <2>1, <3>1, <3>2
  <2>2. CASE t # s \/ q # r
    <3>1. cur[t][q] = k /\ pc[t][q] = "close"
      BY <1>5, <2>2 DEF PcAt, CurAt
    <3>2. Lost(k) /\ reader[t][k] = "none"
      BY <3>1 DEF Lasting, FailedBroken, Serving
    <3> QED BY <1>3, <3>2, LostStep
  <2> QED BY <2>1, <2>2
<1>6. FailedBroken'
  BY <1>5 DEF FailedBroken, Serving
<1> QED BY <1>3, <1>4, <1>6, CalmLasting

\* A process that ends holds no end any more.
LEMMA DieLasting ==
    ASSUME Typed, Lasting, NEW s \in Server, Die(s), UNCHANGED <<from, to>>
    PROVE  Lasting'
<1>1. /\ backlog'[s] = <<>>
      /\ \A r \in Role : pc'[s][r] = "wait"
      /\ \A k \in Conn : reader'[s][k] = "none" /\ open'[k] = open[k] \ {s}
      /\ \A t \in Server : t # s => /\ pc'[t] = pc[t] /\ cur'[t] = cur[t]
                                    /\ reader'[t] = reader[t] /\ backlog'[t] = backlog[t]
  BY DieTyped DEF Typed
<1>2. \A k \in Conn : open'[k] \subseteq open[k]
  BY <1>1
<1>3. ASSUME NEW t \in Server, NEW k \in Conn, Held(t, k)'
      PROVE  t \in open[k] /\ t \in open'[k]
  <2>1. t # s
    BY <1>1, <1>3 DEF Held, Queued, Serving, Handshake
  <2>2. Held(t, k)
    BY <1>1, <1>3, <2>1 DEF Held, Queued, Serving
  <2> QED BY <1>1, <2>1, <2>2 DEF Lasting, HeldOpen
<1>4. \A t \in Server, k \in Conn : reader'[t][k] = "erase" => reader[t][k] = "erase"
  BY <1>1
<1>5. ASSUME NEW k \in Conn, Lost(k)
      PROVE  Lost(k)'
  <2>1. open'[k] = open[k] \ {s}
    BY <1>1
  <2>2. disturbed' = {q \in disturbed : s \notin q}
    BY DieTyped DEF Typed
  <2>3. CASE OpenAtBothEnds(k) /\ s \notin {from[k], to[k]}
    BY <1>5, <2>2, <2>3 DEF Lost
  <2> QED BY <1>5, <2>1, <2>3 DEF Lost, OpenAtBothEnds
<1>6. FailedBroken'
  <2>1. ASSUME NEW t \in Server, NEW q \in Role, NEW k \in Conn,
               cur'[t][q] = k, pc'[t][q] = "close"
        PROVE  Lost(k)' /\ reader'[t][k] = "none"
    <3>1. pc[t][q] = "close" /\ cur[t][q] = k /\ reader'[t] = reader[t]
      BY <1>1, <2>1
    <3> QED BY <1>5, <3>1 DEF Lasting, FailedBroken, Serving
  <2> QED BY <2>1 DEF FailedBroken, Serving
<1> QED BY <1>2, <1>3, <1>4, <1>6, CalmLasting

\* A step that is neither a thread's nor a reader's.
LEMMA SameLasting ==
    ASSUME Typed, Lasting, UNCHANGED <<cur, reader, backlog, from, to, open>>,
           disturbed \subseteq disturbed',
           \A s \in Server, r \in Role :
              pc'[s][r] \in Handshake \cup {"close"} => pc'[s][r] = pc[s][r]
    PROVE  Lasting'
<1>1. \A s \in Server, k \in Conn : Held(s, k)' => Held(s, k)
  BY DEF Held, Queued, Serving
<1>2. HeldOpen' /\ ErasedClosed'
  BY <1>1 DEF Lasting, HeldOpen, ErasedClosed
<1>3. \A k \in Conn : Lost(k) => Lost(k)'
  BY LostStep
<1>4. FailedBroken'
  BY <1>3 DEF Lasting, FailedBroken, Serving
<1> QED BY <1>2, <1>4 DEF Lasting

\* What accept() returns was queued.
LEMMA AcceptLasting ==
    ASSUME Typed, Lasting, NEW s \in Server, Accept(s)
    PROVE  Lasting'
<1>a. AcceptDoes(s)
  BY AcceptEffect
<1>1. /\ Head(backlog[s]) \in Conn /\ Queued(s, Head(backlog[s]))
      /\ CurAt(s, "tcp", Head(backlog[s])) /\ PcAt(s, "tcp", "read")
      /\ UNCHANGED <<reader, from, to, open, disturbed>>
  BY <1>a DEF AcceptDoes, Queued, bounds
<1>2. \A t \in Server, k \in Conn : Queued(t, k)' => Queued(t, k)
  BY <1>a DEF AcceptDoes, Queued
<1>3. ASSUME NEW t \in Server, NEW k \in Conn, Held(t, k)'
      PROVE  Held(t, k)
  <2>1. CASE \E r \in Role : cur'[t][r] = k /\ pc'[t][r] \in Handshake \cup {"close"}
    <3>1. PICK r \in Role : cur'[t][r] = k /\ pc'[t][r] \in Handshake \cup {"close"}
      BY <2>1
    <3>2. CASE t = s /\ r = "tcp"
      BY <1>1, <3>1, <3>2 DEF CurAt, Held
    <3>3. CASE t # s \/ r # "tcp"
      <4>1. cur'[t][r] = cur[t][r] /\ pc'[t][r] = pc[t][r]
        BY <1>1, <3>3 DEF CurAt, PcAt
      <4> QED BY <3>1, <4>1 DEF Held, Serving
    <3> QED BY <3>2, <3>3
  <2> QED BY <1>1, <1>2, <1>3, <2>1 DEF Held, Serving
<1>4. HeldOpen' /\ ErasedClosed'
  BY <1>1, <1>3 DEF Lasting, HeldOpen, ErasedClosed
<1>5. ASSUME NEW t \in Server, NEW r \in Role, pc'[t][r] = "close"
      PROVE  pc[t][r] = "close" /\ cur'[t][r] = cur[t][r]
  BY <1>1, <1>5 DEF PcAt, CurAt
<1>6. \A k \in Conn : Lost(k) => Lost(k)'
  BY <1>1, LostStep
<1>7. FailedBroken'
  BY <1>1, <1>5, <1>6 DEF Lasting, FailedBroken, Serving
<1> QED BY <1>4, <1>7 DEF Lasting

\* A new connection is open at both its ends, and held there only.
LEMMA OpenSocketLasting ==
    ASSUME Typed, Lasting, NEW s \in Server, OpenSocket(s)
    PROVE  Lasting'
<1>a. OpenSocketDoes(s)
  BY OpenSocketEffect
<1>0. disturbed \subseteq disturbed'
  BY <1>a DEF OpenSocketDoes
<1>1. CASE PcAt(s, "udp", "wait") /\ UNCHANGED <<from, to, open, backlog, cur, victim>>
  <2>1. UNCHANGED reader
    BY <1>a DEF OpenSocketDoes
  <2>2. \A t \in Server, r \in Role :
           pc'[t][r] \in Handshake \cup {"close"} => pc'[t][r] = pc[t][r]
    BY <1>1 DEF PcAt, Handshake
  <2> QED BY <1>0, <1>1, <2>1, <2>2, SameLasting
<1>2. ASSUME NEW k \in Conn, from[k] = None,
             from' = [from EXCEPT ![k] = s], to' = [to EXCEPT ![k] = target[s]],
             open' = [open EXCEPT ![k] = {s, target[s]}],
             backlog' = [backlog EXCEPT ![target[s]] = Append(@, k)],
             CurAt(s, "udp", k), PcAt(s, "udp", "send")
      PROVE  Lasting'
  <2>1. /\ target[s] \in Server \ {s} /\ UNCHANGED reader
        /\ "udp" \in Role
    BY <1>a DEF OpenSocketDoes, Role
  <2> DEFINE p == target[s]
  <2>2. /\ from'[k] = s /\ to'[k] = p /\ open'[k] = {s, p}
        /\ \A j \in Conn : j # k => from'[j] = from[j] /\ to'[j] = to[j] /\ open'[j] = open[j]
    BY <1>2, <2>1 DEF Typed, TypeOK
  <2>3. \A t \in Server, j \in Conn : Queued(t, j)' => Queued(t, j) \/ (t = p /\ j = k)
    <3>1. /\ backlog'[p] = Append(backlog[p], k)
          /\ \A t \in Server : t # p => backlog'[t] = backlog[t]
      BY <1>2, <2>1 DEF Typed, TypeOK
    <3> HIDE DEF p
    <3>2. p \in Server
      BY <2>1 DEF p
    <3> QED BY <3>1, <3>2, AppendQueued
  <2>4. ~Made(k)
    BY <1>2 DEF Made
  <2>5. /\ \A t \in Server : ~Queued(t, k) /\ reader[t][k] = "none"
        /\ \A t \in Server, r \in Role : pc[t][r] \in Handshake \cup {"close"} => cur[t][r] # k
    <3>1. \A t \in Server : ~Queued(t, k)
      BY <2>4, QueuedApart DEF EndOf
    <3>2. \A t \in Server : reader[t][k] = "none"
      BY <2>4 DEF Typed, Shape, Related, Readers, EndOf
    <3>3. \A t \in Server, r \in Role : pc[t][r] \in Handshake \cup {"close"} => cur[t][r] # k
      BY <2>4, Current DEF EndOf, Handshake
    <3> QED BY <3>1, <3>2, <3>3
  <2>6. \A t \in Server, r \in Role : t # s \/ r # "udp" =>
           cur'[t][r] = cur[t][r] /\ pc'[t][r] = pc[t][r]
    BY <1>2 DEF CurAt, PcAt
  <2>7. cur'[s]["udp"] = k /\ pc'[s]["udp"] = "send"
    BY <1>2 DEF CurAt, PcAt
  <2> HIDE DEF p
  <2>8. ASSUME NEW t \in Server, NEW j \in Conn, Held(t, j)'
        PROVE  t \in open'[j]
    <3>1. CASE j = k
      <4>1. CASE Queued(t, k)'
        BY <2>2, <2>3, <2>5, <3>1, <4>1
      <4>2. CASE \E r \in Role : cur'[t][r] = k /\ pc'[t][r] \in Handshake \cup {"close"}
        BY <2>2, <2>5, <2>6, <3>1, <4>2
      <4> QED BY <2>1, <2>5, <2>8, <3>1, <4>1, <4>2 DEF Held, Serving
    <3>2. CASE j # k
      <4>1. \A r \in Role : cur'[t][r] = j => t # s \/ r # "udp"
        BY <2>7, <3>2
      <4>2. Held(t, j)
        BY <2>1, <2>3, <2>6, <2>8, <3>2, <4>1 DEF Held, Serving
      <4> QED BY <2>2, <3>2, <4>2 DEF Lasting, HeldOpen
    <3> QED BY <3>1, <3>2
  <2>9. ErasedClosed'
    <3>1. \A t \in Server, j \in Conn : reader'[t][j] = "erase" => j # k /\ reader[t][j] = "erase"
      BY <2>1, <2>5
    <3> QED BY <2>2, <3>1 DEF Lasting, ErasedClosed
  <2>10. FailedBroken'
    <3>1. ASSUME NEW t \in Server, NEW r \in Role, NEW j \in Conn,
                 cur'[t][r] = j, pc'[t][r] = "close"
          PROVE  Lost(j)' /\ reader'[t][j] = "none"
      <4>1. pc[t][r] = "close" /\ cur[t][r] = j /\ j # k
        BY <2>5, <2>6, <2>7, <3>1
      <4>2. Lost(j) /\ reader[t][j] = "none"
        BY <4>1 DEF Lasting, FailedBroken, Serving
      <4>3. from'[j] = from[j] /\ to'[j] = to[j] /\ open'[j] = open[j]
        BY <2>2, <4>1
      <4> QED BY <1>0, <2>1, <4>2, <4>3 DEF Lost, OpenAtBothEnds
    <3> QED BY <3>1 DEF FailedBroken, Serving
  <2>11. HeldOpen'
    BY <2>8 DEF HeldOpen
  <2> QED BY <2>9, <2>10, <2>11 DEF Lasting
<1> QED BY <1>1, <1>2, <1>a DEF OpenSocketDoes

\* The entry of a connection that has just been answered is free.
LEMMA AddClientEnters ==
    ASSUME Typed, Joined, NEW s \in Server, NEW r \in Role, AddClient(s, r)
    PROVE  /\ pc[s][r] = "add" /\ clients[s][PeerOn(s, cur[s][r])] = None
           /\ ClientsAt(s, PeerOn(s, cur[s][r]), cur[s][r]) /\ PcAt(s, r, "run")
           /\ UNCHANGED <<main, cur, reader, backlog, from, to, open, disturbed>>
<1>1. pc[s][r] = "add"
  BY DEF AddClient, At
<1>2. Early(s, cur[s][r]) /\ cur[s][r] \in Conn
  BY <1>1, Current DEF Early, Serving, Unadded
<1>3. clients[s][PeerOn(s, cur[s][r])] = None
  BY <1>2 DEF Joined, OneByOne, Alone
<1> QED BY <1>1, <1>3, AddClientEffect, InsertedAlone DEF Joined, AddClientDoes, tcp

\* The connection for which a reader is started is open and is the thread's own.
LEMMA UseClientLasting ==
    ASSUME Typed, Owners, Lasting, NEW s \in Server, NEW r \in Role, UseClient(s, r)
    PROVE  Lasting'
<1>1. /\ pc[s][r] \in {"use", "stale"} /\ PcAt(s, r, "callback")
      /\ ReaderAt(s, clients[s][PeerOn(s, cur[s][r])], "recv")
      /\ UNCHANGED <<cur, backlog, from, to, open, disturbed>>
  BY UseClientEffect DEF UseClientDoes, tcp, bounds
<1>2. PICK k \in Conn : k = cur[s][r]
  BY <1>1, Current
<1>3. ReaderAt(s, k, "recv")
  BY <1>1, <1>2 DEF Owners, RunnerHasEntry, Adding
<1>4. s \in open[k]
  BY <1>1, <1>2 DEF Lasting, HeldOpen, Held, Serving, Handshake
<1>5. \A t \in Server, q \in Role : pc'[t][q] \in Handshake \cup {"close"} =>
         pc'[t][q] = pc[t][q] /\ (t # s \/ q # r)
  BY <1>1 DEF PcAt, Handshake
<1>6. ASSUME NEW t \in Server, NEW j \in Conn, Held(t, j)'
      PROVE  t \in open[j]
  <2>1. CASE t = s /\ j = k
    BY <1>4, <2>1
  <2>2. CASE t # s \/ j # k
    <3>1. reader'[t][j] = reader[t][j]
      BY <1>3, <2>2 DEF ReaderAt
    <3>2. Held(t, j)
      BY <1>1, <1>5, <1>6, <3>1 DEF Held, Queued, Serving
    <3> QED BY <3>2 DEF Lasting, HeldOpen
  <2> QED BY <2>1, <2>2
<1>7. ASSUME NEW t \in Server, NEW q \in Role, NEW j \in Conn,
             cur'[t][q] = j, pc'[t][q] = "close"
      PROVE  Lost(j)' /\ reader'[t][j] = "none"
  <2>1. pc[t][q] = "close" /\ (t # s \/ q # r) /\ cur[t][q] = j
    BY <1>1, <1>5, <1>7
  <2>2. cur[t][q] # None
    BY <2>1, Current
  <2>3. reader[t][j] = "none" /\ Lost(j)
    BY <2>1 DEF Lasting, FailedBroken, Serving
  <2>4. t # s \/ j # k
    BY <1>2, <2>1, <2>2, Apart
  <2>5. Lost(j)'
    BY <1>1, <2>3, LostStep
  <2> QED BY <1>3, <2>3, <2>4, <2>5 DEF ReaderAt
<1>8. \A t \in Server, j \in Conn : reader'[t][j] = "erase" => reader[t][j] = "erase"
  BY <1>3 DEF ReaderAt
<1>9. FailedBroken'
  BY <1>7 DEF FailedBroken, Serving
<1> QED BY <1>1, <1>6, <1>8, <1>9, CalmLasting

\* A reader closes its own end, which nobody else holds.
LEMMA ReaderLasting ==
    ASSUME Typed, Owners, Lasting, NEW s \in Server, NEW k \in Conn, ReaderStep(s, k)
    PROVE  Lasting'
<1>1. /\ reader[s][k] # "none" /\ reader'[s][k] # "recv"
      /\ \A t \in Server, j \in Conn : t # s \/ j # k => reader'[t][j] = reader[t][j]
      /\ UNCHANGED <<pc, cur, backlog, from, to>> /\ disturbed \subseteq disturbed'
      /\ \/ UNCHANGED open /\ reader'[s][k] # "erase"
         \/ Closed(s, k)
  BY ReaderFailsEffect, EraseClientEffect, DisconnectCallbackEffect
     DEF ReaderStep, ReaderFailsDoes, EraseClientDoes, DisconnectCallbackDoes, ReaderAt, tcp,
         bounds, Fails
<1>2. \A j \in Conn : open'[j] \subseteq open[j]
  BY <1>1 DEF Closed
<1>3. ASSUME NEW t \in Server, NEW j \in Conn, Held(t, j)'
      PROVE  t \in open[j] /\ t \in open'[j]
  <2>1. Held(t, j)
    BY <1>1, <1>3 DEF Held, Queued, Serving
  <2>2. t \in open[j]
    BY <2>1 DEF Lasting, HeldOpen
  <2>3. t # s \/ j # k
    <3> SUFFICES ASSUME t = s, j = k
                 PROVE  FALSE
      OBVIOUS
    <3>1. ~Queued(s, k)
      BY <1>1 DEF Owners, Waiting
    <3>2. PICK q \in Role : Serving(s, q, k, Handshake \cup {"close"})
      BY <1>1, <1>3, <3>1 DEF Held, Queued, Serving
    <3> QED BY <1>1, <3>2 DEF Serving, Owners, Unread, Lasting, FailedBroken
  <2> QED BY <1>1, <2>2, <2>3 DEF Closed
<1>4. \A t \in Server, j \in Conn :
         reader'[t][j] = "erase" => reader[t][j] = "erase" \/ t \notin open'[j]
  BY <1>1 DEF Closed
<1>5. ASSUME NEW t \in Server, NEW q \in Role, NEW j \in Conn,
             cur[t][q] = j, pc[t][q] = "close"
      PROVE  Lost(j)' /\ reader'[t][j] = "none"
  <2>1. reader[t][j] = "none" /\ Lost(j)
    BY <1>5 DEF Lasting, FailedBroken, Serving
  <2>2. t # s \/ j # k
    BY <1>1, <2>1
  <2>3. Lost(j)'
    BY <1>1, <1>2, <2>1, LostStep
  <2> QED BY <1>1, <2>1, <2>2, <2>3
<1>6. FailedBroken'
  BY <1>1, <1>5 DEF FailedBroken, Serving
<1> QED BY <1>2, <1>3, <1>4, <1>6, CalmLasting

\* The service threads' own steps; with one server at a time, no close() hits
\* the connection of another thread.
LEMMA ThreadStepLasting ==
    ASSUME Typed, Owners, Joined, Lasting, NEW s \in Server, NEW r \in Role,
           \/ r = "udp" /\ (SendAck(s) \/ AwaitResponse(s))
           \/ r = "tcp" /\ (ReadAck(s) \/ Reply(s))
           \/ AddClient(s, r) \/ RunClient(s, r) \/ ConnectCallback(s, r)
           \/ Close(s, r) \/ CloseAgain(s, r)
    PROVE  Lasting'
<1> DEFINE Moves(l, x) ==
      /\ PcAt(s, r, l) /\ CurAt(s, r, x) /\ (x = cur[s][r] \/ x = None)
      /\ UNCHANGED <<reader, backlog, from, to>>
      /\ l \in Handshake \cup {"close"} =>
            pc[s][r] \in Handshake \cup {"close"} /\ x = cur[s][r] /\ UNCHANGED open
      /\ disturbed \subseteq disturbed'
      /\ l = "close" => /\ pc[s][r] \in {"send", "await"}
                        /\ \A k \in Conn : k = cur[s][r] => Lost(k)'
      /\ \/ UNCHANGED open
         \/ pc[s][r] \in Handshake \cup {"close"} /\ Closed(s, cur[s][r])
<1>1. CurAt(s, r, cur[s][r]) \/ cur' # cur
  BY SameCur DEF Typed
<1>f. Fails(cur[s][r]) /\ cur[s][r] \in Conn /\ UNCHANGED <<from, to>>
         /\ (UNCHANGED open \/ Closed(s, cur[s][r]))
      => disturbed \subseteq disturbed' /\ \A k \in Conn : k = cur[s][r] => Lost(k)'
  <2> SUFFICES ASSUME NEW k \in Conn, k = cur[s][r], Fails(k), UNCHANGED <<from, to>>,
                      UNCHANGED open \/ Closed(s, k)
               PROVE  disturbed \subseteq disturbed' /\ Lost(k)'
    OBVIOUS
  <2>1. open'[k] \subseteq open[k]
    BY DEF Closed
  <2> QED BY <2>1, FailsLoses
<1>g. pc[s][r] \in Handshake => cur[s][r] \in Conn
  BY Current DEF Handshake
<1>2. CASE r = "udp" /\ SendAck(s)
  <2>1. Moves("await", cur[s][r]) \/ Moves("close", cur[s][r])
    BY <1>1, <1>2, <1>f, <1>g, SendAckEffect DEF SendAckDoes, Handshake, bounds
  <2> QED BY <2>1, ThreadLasting
<1>3. CASE r = "udp" /\ AwaitResponse(s)
  <2>1. Moves("add", cur[s][r]) \/ Moves("close", cur[s][r])
    BY <1>1, <1>3, <1>f, <1>g, AwaitResponseEffect DEF AwaitResponseDoes, Handshake, bounds
  <2> QED BY <2>1, ThreadLasting
<1>4. CASE r = "tcp" /\ ReadAck(s)
  <2>1. Moves("reply", cur[s][r]) \/ Moves("wait", None)
    BY <1>1, <1>4, <1>f, <1>g, ReadAckEffect DEF ReadAckDoes, Handshake, bounds
  <2> QED BY <2>1, ThreadLasting
<1>5. CASE r = "tcp" /\ Reply(s)
  <2>1. Moves("add", cur[s][r]) \/ Moves("wait", None)
    BY <1>1, <1>5, <1>f, <1>g, ReplyEffect DEF ReplyDoes, Handshake, bounds
  <2> QED BY <2>1, ThreadLasting
<1>6. CASE AddClient(s, r)
  <2>1. Moves("run", cur[s][r])
    BY <1>1, <1>6, AddClientEnters DEF Handshake
  <2> QED BY <2>1, ThreadLasting
<1>7. CASE RunClient(s, r)
  <2>1. Moves("use", cur[s][r])
    BY <1>1, <1>7, RunClientEffect DEF RunClientDoes, Handshake, tcp, bounds
  <2> QED BY <2>1, ThreadLasting
<1>8. CASE ConnectCallback(s, r)
  <2>1. Moves("wait", None)
    BY <1>8, ConnectCallbackEffect DEF ConnectCallbackDoes, Handshake, tcp, bounds
  <2> QED BY <2>1, ThreadLasting
<1>9. CASE Close(s, r)
  <2>1. Moves("reclose", cur[s][r])
    BY <1>1, <1>9, CloseEffect DEF CloseDoes, Handshake, bounds
  <2> QED BY <2>1, ThreadLasting
<1>10. CASE CloseAgain(s, r)
  <2>1. Moves("wait", None)
    BY <1>10, CloseAgainEffect
       DEF CloseAgainDoes, Handshake, Joined, OneByOne, NoVictims, bounds
  <2> QED BY <2>1, ThreadLasting
<1> QED BY <1>2, <1>3, <1>4, <1>5, <1>6, <1>7, <1>8, <1>9, <1>10

\* What servers that are started one at a time hold stays open.
LEMMA NextLasting ==
    ASSUME Typed, Owners, Joined, Lasting, [Next]_vars
    PROVE  Lasting'
<1>1. CASE UNCHANGED vars
  BY <1>1, SameLasting DEF vars, local, tcp, bounds
<1>2. ASSUME NEW s \in Server, Start(s) \/ Announce(s) \/ HandleConnect(s)
      PROVE  Lasting'
  <2>1. UNCHANGED <<cur, reader, backlog, from, to, open>> /\ disturbed \subseteq disturbed'
    BY <1>2, StartEffect, AnnounceEffect, HandleConnectEffect
       DEF StartDoes, AnnounceDoes, HandleConnectDoes, local, tcp, bounds
  <2>2. \A t \in Server, r \in Role :
           pc'[t][r] \in Handshake \cup {"close"} => pc'[t][r] = pc[t][r]
    BY <1>2, StartEffect, AnnounceEffect, HandleConnectEffect
       DEF StartDoes, AnnounceDoes, HandleConnectDoes, local, PcAt, Handshake
  <2> QED BY <2>1, <2>2, SameLasting
<1>3. ASSUME NEW s \in Server, Crash(s) \/ \E r \in Role : BrokenPipe(s, r)
      PROVE  Lasting'
  <2>1. Die(s) /\ UNCHANGED <<from, to>>
    BY <1>3 DEF Crash, BrokenPipe, Die
  <2> QED BY <2>1, DieLasting
<1>4. ASSUME NEW s \in Server, UdpStep(s) \/ TcpStep(s)
      PROVE  Lasting' \/ HandleConnect(s)
  <2>1. "udp" \in Role /\ "tcp" \in Role
    BY DEF Role
  <2>2. CASE SendAck(s) \/ AwaitResponse(s)
    BY <2>1, <2>2, ThreadStepLasting
  <2>3. CASE ReadAck(s) \/ Reply(s)
    BY <2>1, <2>3, ThreadStepLasting
  <2>4. CASE OpenSocket(s)
    BY <2>4, OpenSocketLasting
  <2>5. CASE Accept(s)
    BY <2>5, AcceptLasting
  <2> QED BY <1>4, <2>2, <2>3, <2>4, <2>5 DEF UdpStep, TcpStep
<1>5. ASSUME NEW s \in Server, NEW r \in Role, Added(s, r)
      PROVE  Lasting'
  <2>1. CASE UseClient(s, r)
    BY <2>1, UseClientLasting
  <2>2. CASE \/ AddClient(s, r) \/ RunClient(s, r) \/ ConnectCallback(s, r)
             \/ Close(s, r) \/ CloseAgain(s, r)
    BY <2>2, ThreadStepLasting
  <2>3. ~UseMoved(s, r)
    BY DEF UseMoved, At, Joined, OneByOne, NoVictims
  <2> QED BY <1>5, <2>1, <2>2, <2>3 DEF Added
<1>6. ASSUME NEW s \in Server, NEW k \in Conn, ReaderStep(s, k)
      PROVE  Lasting'
  BY <1>6, ReaderLasting
<1> QED BY <1>1, <1>2, <1>3, <1>4, <1>5, <1>6 DEF Next

\* What Membership sees of a state.
Seen == <<Members, Between, open, clients, disturbed>>
SameMembers == \A s \in Server : main'[s] = "down" <=> main[s] = "down"

\* A step that Membership does not see.
LEMMA Unseen ==
    ASSUME SameMembers, UNCHANGED <<from, to, open, clients, disturbed>>
    PROVE  UNCHANGED Seen
<1>1. Members' = Members
  BY DEF SameMembers, Members
<1>2. Between' = Between
  BY DEF Between
<1> QED BY <1>1, <1>2 DEF Seen

\* A connection is between the two servers that are its ends.
LEMMA BetweenEnds ==
    ASSUME Typed, NEW k \in Conn
    PROVE  /\ Between[k] = {} <=> ~Made(k)
           /\ Made(k) => Between[k] = {from[k], to[k]}
           /\ \A s \in Server : EndOf(s, k) => Between[k] = {s, PeerOn(s, k)}
           /\ \A s, p \in Server : s # p /\ Between[k] = {s, p} =>
                 EndOf(s, k) /\ EndOf(p, k) /\ PeerOn(s, k) = p /\ PeerOn(p, k) = s
           /\ open[k] \subseteq {from[k], to[k]}
<1>1. /\ from[k] \in Server \cup {None} /\ to[k] \in Server \cup {None}
      /\ (Made(k) <=> to[k] # None) /\ (Made(k) => from[k] # to[k])
      /\ \A s \in open[k] : EndOf(s, k)
  BY DEF Typed, TypeOK, Shape, Related, Ends
<1>2. Between[k] = {from[k], to[k]} \ {None}
  BY DEF Between
<1>3. None \notin Server
  BY ConstantsOK DEF ConstantsOK
<1>4. Made(k) => Between[k] = {from[k], to[k]} /\ from[k] # to[k] /\ {from[k], to[k]} \subseteq Server
  BY <1>1, <1>2 DEF Made
<1>5. ~Made(k) => Between[k] = {}
  BY <1>1, <1>2 DEF Made
<1>6. Between[k] = {} <=> ~Made(k)
  BY <1>4, <1>5
<1>7. ASSUME NEW s \in Server, EndOf(s, k)
      PROVE  Between[k] = {s, PeerOn(s, k)}
  BY <1>4, <1>7 DEF EndOf, PeerOn
<1>8. ASSUME NEW s \in Server, NEW p \in Server, s # p, Between[k] = {s, p}
      PROVE  EndOf(s, k) /\ EndOf(p, k) /\ PeerOn(s, k) = p /\ PeerOn(p, k) = s
  <2>1. Made(k) /\ {from[k], to[k]} = {s, p} /\ from[k] # to[k]
    BY <1>4, <1>6, <1>8
  <2>2. (from[k] = s /\ to[k] = p) \/ (from[k] = p /\ to[k] = s)
    BY <2>1
  <2> QED BY <1>8, <2>1, <2>2 DEF EndOf, PeerOn
<1>9. open[k] \subseteq {from[k], to[k]}
  BY <1>1 DEF EndOf
<1> QED BY <1>4, <1>6, <1>7, <1>8, <1>9

\* A server that is down has nothing that Membership sees.
LEMMA StartJoins ==
    ASSUME Typed, NEW s \in Server, Start(s)
    PROVE  M!Join(s)
<1>1. /\ main[s] = "down" /\ main'[s] = "starting"
      /\ \A t \in Server : t # s => main'[t] = main[t]
      /\ UNCHANGED <<from, to, open, clients, disturbed>>
  BY StartEffect DEF StartDoes, local, tcp, bounds
<1>2. s \notin Members /\ Members' = Members \cup {s}
  BY <1>1 DEF Members
<1>3. Between' = Between
  BY <1>1 DEF Between
<1> QED BY <1>1, <1>2, <1>3 DEF M!Join

\* The end of a process, whatever it was doing.
LEMMA DieLeaves ==
    ASSUME Typed, NEW s \in Server, main[s] # "down", Die(s), UNCHANGED <<from, to>>
    PROVE  M!Leave(s)
<1>1. s \in Members /\ Members' = Members \ {s}
  <2>1. main'[s] = "down" /\ \A t \in Server : t # s => main'[t] = main[t]
    BY DieTyped DEF Typed
  <2> QED BY <2>1 DEF Members
<1>2. Between' = Between
  BY DEF Between
<1>3. /\ open' = [k \in Conn |-> open[k] \ {s}]
      /\ clients' = [clients EXCEPT ![s] = [p \in Server |-> None]]
      /\ disturbed' = {q \in disturbed : s \notin q}
  BY DEF Die
<1> QED BY <1>1, <1>2, <1>3 DEF M!Leave

\* Of connections that a server does not work on, its end is closed.
LEMMA UntouchedClosed ==
    ASSUME Typed, Owners, NEW s \in Server, NEW p \in Server, Untouched(s, p),
           NEW k \in Conn, Made(k), PeerOn(s, k) = p
    PROVE  s \notin open[k]
<1>1. Idle(s, k)
  BY DEF Untouched
<1>2. ~Queued(s, k) /\ reader[s][k] # "recv" /\ \A r \in Role : cur[s][r] # k
  BY <1>1 DEF Idle
<1> QED BY <1>2 DEF Owners, OpenEndsAreOwned, Queued

\* A new connection finds nothing of an earlier one.
LEMMA OpenSocketConnects ==
    ASSUME Typed, Owners, Joined, NEW s \in Server, OpenSocket(s)
    PROVE  M!Connect(s, target[s]) \/ M!Break(s) \/ UNCHANGED Seen
<1>a. OpenSocketDoes(s)
  BY OpenSocketEffect
<1>p. PICK p \in Server : p = target[s] /\ p # s
  BY <1>a DEF OpenSocketDoes
<1>1. main[s] # "down" /\ UNCHANGED <<main, clients>>
  BY <1>a DEF OpenSocketDoes
<1>2. CASE UNCHANGED <<from, to, open, disturbed>>
  BY <1>1, <1>2, Unseen DEF SameMembers
<1>4. ASSUME UNCHANGED <<from, to, open>>, main[p] # "down",
             disturbed' = disturbed \cup {{s, p}}
      PROVE  M!Break(s)
  <2>1. {p} \in SUBSET Members /\ {{s, q} : q \in {p}} = {{s, p}}
    BY <1>4 DEF Members
  <2>2. s \in Members /\ Members' = Members /\ Between' = Between
    BY <1>1, <1>4 DEF Members, Between
  <2> QED BY <1>1, <1>4, <2>1, <2>2 DEF M!Break
<1>3. ASSUME NEW k \in Conn, from[k] = None, main[p] # "down", UNCHANGED disturbed,
             from' = [from EXCEPT ![k] = s], to' = [to EXCEPT ![k] = p],
             open' = [open EXCEPT ![k] = {s, p}]
      PROVE  M!Connect(s, p)
  <2>1. Members' = Members /\ {s, p} \subseteq Members
    BY <1>1, <1>3 DEF Members
  <2>2. Untouched(s, p) /\ Untouched(p, s)
    BY <1>p DEF Joined, OneByOne, Virgin, Pending
  <2>3. ASSUME NEW j \in Conn, Between[j] = {s, p}
        PROVE  open[j] = {}
    <3>1. EndOf(s, j) /\ PeerOn(s, j) = p /\ PeerOn(p, j) = s /\ open[j] \subseteq {from[j], to[j]}
      BY <1>p, <2>3, BetweenEnds
    <3>2. s \notin open[j] /\ p \notin open[j]
      BY <2>2, <3>1, UntouchedClosed DEF EndOf
    <3>3. {from[j], to[j]} = {s, p}
      BY <3>1 DEF EndOf, PeerOn
    <3> QED BY <3>1, <3>2, <3>3
  <2>4. Between[k] = {}
    BY <1>3, BetweenEnds DEF Made
  <2>5. Between' = [Between EXCEPT ![k] = {s, p}]
    <3>1. s # None /\ p # None
      BY ConstantsOK DEF ConstantsOK
    <3>2. /\ from'[k] = s /\ to'[k] = p
          /\ \A j \in Conn : j # k => from'[j] = from[j] /\ to'[j] = to[j]
      BY <1>3 DEF Typed, TypeOK
    <3> QED BY <3>1, <3>2 DEF Between
  <2> QED BY <1>p, <1>1, <1>3, <2>1, <2>3, <2>4, <2>5 DEF M!Connect
<1> QED BY <1>a, <1>p, <1>2, <1>3, <1>4 DEF OpenSocketDoes

\* The entry of a connection whose own end is open.
LEMMA AddClientRefines ==
    ASSUME Typed, Joined, Lasting, NEW s \in Server, NEW r \in Role, AddClient(s, r)
    PROVE  M!Enter(s, PeerOn(s, cur[s][r]))
<1>k. PICK k \in Conn : k = cur[s][r]
  BY Current DEF AddClient, At
<1>p. PICK p \in Server : p = PeerOn(s, k) /\ p # s
  BY <1>k, Current DEF AddClient, At
<1>1. /\ pc[s][r] = "add" /\ clients[s][p] = None /\ ClientsAt(s, p, k)
      /\ UNCHANGED <<main, from, to, open, disturbed>>
  BY <1>k, <1>p, AddClientEnters
<1>2. s \in open[k]
  BY <1>1, <1>k DEF Lasting, HeldOpen, Held, Serving, Handshake
<1>3. Between[k] = {s, p}
  BY <1>k, <1>p, <1>1, Current, BetweenEnds
<1>4. clients' = [clients EXCEPT ![s][p] = k]
  BY <1>1 DEF ClientsAt, Typed, TypeOK
<1>5. Members' = Members /\ Between' = Between
  BY <1>1 DEF Members, Between
<1>6. M!Enter(s, p)
  BY <1>p, <1>1, <1>2, <1>3, <1>4, <1>5 DEF M!Enter
<1> QED BY <1>k, <1>p, <1>6

\* An end is closed when the other one is, or after a failure.
LEMMA ClosedGivesUp ==
    ASSUME Typed, NEW s \in Server, NEW k \in Conn, s \in open[k],
           Closed(s, k), UNCHANGED <<main, from, to, clients>>,
           \/ ~OpenAtBothEnds(k) /\ disturbed' = disturbed
           \/ disturbed' = disturbed \cup {{from[k], to[k]}}
    PROVE  M!GiveUp(s, k)
<1>1. open[k] \subseteq {from[k], to[k]} /\ Between[k] = {from[k], to[k]}
  BY BetweenEnds DEF EndOf, Typed, Shape, Related, Ends
<1>2. ~OpenAtBothEnds(k) => open[k] = {s}
  BY <1>1 DEF OpenAtBothEnds
<1>3. open' = [open EXCEPT ![k] = open[k] \ {s}]
  BY DEF Closed, Typed, TypeOK
<1>4. Members' = Members /\ Between' = Between
  BY DEF Members, Between
<1>5. \/ open[k] = {s} /\ disturbed' = disturbed
     \/ disturbed' = disturbed \cup {Between[k]}
  BY <1>1, <1>2
<1> QED BY <1>3, <1>4, <1>5 DEF M!GiveUp

\* A call of the UDP thread fails: if its connection has two ends, the pair is
\* disturbed.
LEMMA FailsBreaks ==
    ASSUME Typed, NEW s \in Server, NEW k \in Conn, from[k] = s, main[s] # "down", Fails(k),
           UNCHANGED <<main, from, to, open, clients>>
    PROVE  M!Break(s) \/ UNCHANGED Seen
<1>1. CASE disturbed' = disturbed
  BY <1>1, Unseen DEF SameMembers
<1>2. CASE OpenAtBothEnds(k) /\ disturbed' = disturbed \cup {{from[k], to[k]}}
  <2>p. PICK p \in Server : p = to[k] /\ p \in open[k]
    BY <1>2 DEF OpenAtBothEnds, Typed, TypeOK
  <2>1. s \in Members /\ {p} \in SUBSET Members
    BY <2>p DEF Members, Typed, Shape, Gone
  <2>2. {{s, q} : q \in {p}} = {{s, p}}
    OBVIOUS
  <2>3. Members' = Members /\ Between' = Between
    BY DEF Members, Between
  <2> QED BY <1>2, <2>p, <2>1, <2>2, <2>3 DEF M!Break
<1> QED BY <1>1, <1>2 DEF Fails

\* What is lost of a multicast disturbs the sender and those that it does not reach.
LEMMA AnnounceBreaks ==
    ASSUME Typed, NEW s \in Server, Announce(s)
    PROVE  M!Break(s)
<1>1. /\ main[s] # "down" /\ main'[s] = "running"
      /\ \A t \in Server : t # s => main'[t] = main[t]
      /\ \E missed \in SUBSET Members : disturbed' = disturbed \cup {{s, p} : p \in missed}
      /\ UNCHANGED <<from, to, open, clients>>
  BY AnnounceEffect DEF AnnounceDoes, local, tcp
<1>2. s \in Members /\ Members' = Members
  BY <1>1 DEF Members
<1>3. Between' = Between
  BY <1>1 DEF Between
<1> QED BY <1>1, <1>2, <1>3 DEF M!Break

\* An entry is erased when its connection is closed.
LEMMA EraseClientForgets ==
    ASSUME Typed, Owners, Lasting, NEW s \in Server, NEW k \in Conn, EraseClient(s, k)
    PROVE  M!Forget(s, PeerOn(s, k))
<1>1. /\ reader[s][k] = "erase" /\ PeerOn(s, k) \in Server
      /\ ClientsAt(s, PeerOn(s, k), None)
      /\ UNCHANGED <<main, from, to, open, disturbed>>
  BY EraseClientEffect DEF EraseClientDoes, tcp, bounds
<1>p. PICK p \in Server : p = PeerOn(s, k)
  BY <1>1
<1>2. clients[s][p] = k /\ s \notin open[k]
  BY <1>1, <1>p DEF Owners, ReaderHasEntry, Lasting, ErasedClosed
<1>3. k # None
  BY ConstantsOK DEF ConstantsOK
<1>4. clients' = [clients EXCEPT ![s][p] = None]
  BY <1>1, <1>p DEF ClientsAt, Typed, TypeOK
<1>5. Members' = Members /\ Between' = Between
  BY <1>1 DEF Members, Between
<1>6. M!Forget(s, p)
  BY <1>1, <1>2, <1>3, <1>4, <1>5 DEF M!Forget
<1> QED BY <1>p, <1>6

\* Every step is one of Membership's, or is not seen.
LEMMA NextRefines ==
    ASSUME Sequential, Typed, Owners, Joined, Lasting, [Next]_vars
    PROVE  [M!Next]_Seen
<1> SUFFICES ASSUME ~UNCHANGED Seen
             PROVE  M!Next
  OBVIOUS
<1>0. "udp" \in Role /\ "tcp" \in Role
  BY DEF Role
<1>1. CASE UNCHANGED vars
  BY <1>1, Unseen DEF vars, local, tcp, bounds, SameMembers
<1>2. ASSUME NEW s \in Server, Start(s)
      PROVE  M!Next
  BY <1>2, StartJoins DEF M!Next
<1>3. ASSUME NEW s \in Server, Crash(s) \/ \E r \in Role : BrokenPipe(s, r)
      PROVE  M!Next
  <2>1. main[s] # "down" /\ Die(s) /\ UNCHANGED <<from, to>>
    BY <1>3 DEF Crash, BrokenPipe, At, Die
  <2> QED BY <2>1, DieLeaves DEF M!Next
<1>4. ASSUME NEW s \in Server, Announce(s) \/ SendAck(s) \/ AwaitResponse(s)
      PROVE  M!Next \/ UNCHANGED Seen
  <2>1. CASE Announce(s)
    BY <2>1, AnnounceBreaks DEF M!Next
  <2>2. ASSUME SendAck(s) \/ AwaitResponse(s)
        PROVE  M!Break(s) \/ UNCHANGED Seen
    <3>1. PICK k \in Conn : k = cur[s]["udp"] /\ from[k] = s
      BY <1>0, <2>2, Current DEF SendAck, AwaitResponse, At
    <3>2. /\ main[s] # "down" /\ UNCHANGED <<main, from, to, open, clients>>
          /\ Fails(k) \/ UNCHANGED bounds
      BY <2>2, <3>1, SendAckEffect, AwaitResponseEffect DEF SendAckDoes, AwaitResponseDoes
    <3>3. CASE Fails(k)
      BY <3>1, <3>2, <3>3, FailsBreaks
    <3>4. CASE UNCHANGED bounds
      BY <3>2, <3>4, Unseen DEF SameMembers, bounds
    <3> QED BY <3>2, <3>3, <3>4
  <2> QED BY <1>4, <2>1, <2>2 DEF M!Next
<1>11. ASSUME NEW s \in Server, HandleConnect(s) \/ Accept(s)
       PROVE  UNCHANGED Seen
  <2>1. UNCHANGED <<main, from, to, open, clients, disturbed>>
    BY <1>11, HandleConnectEffect, AcceptEffect DEF HandleConnectDoes, AcceptDoes, tcp, bounds
  <2> QED BY <2>1, Unseen DEF SameMembers
<1>5. ASSUME NEW s \in Server, OpenSocket(s)
      PROVE  M!Next
  <2>1. target[s] \in Server
    BY <1>5, OpenSocketEffect DEF OpenSocketDoes
  <2> QED BY <1>5, <2>1, OpenSocketConnects DEF M!Next
<1>6. ASSUME NEW s \in Server, ReadAck(s) \/ Reply(s)
      PROVE  M!Next
  <2>1. PICK k \in Conn : k = cur[s]["tcp"]
    BY <1>0, <1>6, Current DEF ReadAck, Reply, At
  <2>2. /\ UNCHANGED <<main, from, to, clients>>
        /\ UNCHANGED <<open, bounds>> \/ (Fails(k) /\ Closed(s, k))
    BY <1>6, <2>1, ReadAckEffect, ReplyEffect DEF ReadAckDoes, ReplyDoes
  <2>3. s \in open[k]
    BY <1>0, <1>6, <2>1 DEF Lasting, HeldOpen, Held, Serving, Handshake, ReadAck, Reply, At
  <2>4. M!GiveUp(s, k)
    BY <2>2, <2>3, ClosedGivesUp, Unseen DEF SameMembers, Fails, bounds
  <2> QED BY <2>4 DEF M!Next
<1>7. ASSUME NEW s \in Server, NEW r \in Role, AddClient(s, r)
      PROVE  M!Next
  <2>1. PeerOn(s, cur[s][r]) \in Server
    BY <1>7, Current DEF AddClient, At
  <2> QED BY <1>7, <2>1, AddClientRefines DEF M!Next
<1>8. ASSUME NEW s \in Server, NEW r \in Role,
             RunClient(s, r) \/ UseClient(s, r) \/ ConnectCallback(s, r) \/ CloseAgain(s, r)
      PROVE  UNCHANGED Seen
  <2>1. UNCHANGED <<main, from, to, clients, disturbed>>
    BY <1>8, RunClientEffect, UseClientEffect, ConnectCallbackEffect, CloseAgainEffect
       DEF RunClientDoes, UseClientDoes, ConnectCallbackDoes, CloseAgainDoes, tcp, bounds
  <2>2. UNCHANGED open
    BY <1>8, RunClientEffect, UseClientEffect, ConnectCallbackEffect, CloseAgainEffect
       DEF RunClientDoes, UseClientDoes, ConnectCallbackDoes, CloseAgainDoes, tcp,
           Joined, OneByOne, NoVictims
  <2> QED BY <2>1, <2>2, Unseen DEF SameMembers
<1>9. ASSUME NEW s \in Server, NEW r \in Role, Close(s, r)
      PROVE  M!Next
  <2>1. /\ pc[s][r] = "close" /\ Closed(s, cur[s][r])
        /\ UNCHANGED <<main, from, to, clients, disturbed>>
    BY <1>9, CloseEffect DEF CloseDoes, bounds
  <2>2. PICK k \in Conn : k = cur[s][r]
    BY <2>1, Current
  <2>3. s \in open[k] /\ Lost(k)
    BY <2>1, <2>2 DEF Lasting, HeldOpen, Held, Serving, FailedBroken
  <2>4. M!GiveUp(s, k)
    BY <2>1, <2>2, <2>3, ClosedGivesUp DEF Lost
  <2> QED BY <2>4 DEF M!Next
<1>10. ASSUME NEW s \in Server, NEW k \in Conn, ReaderStep(s, k)
       PROVE  M!Next
  <2>1. CASE ReaderFails(s, k)
    <3>1. /\ reader[s][k] = "recv" /\ Fails(k) /\ Closed(s, k)
          /\ UNCHANGED <<main, from, to, clients>>
      BY <2>1, ReaderFailsEffect DEF ReaderFailsDoes
    <3>2. s \in open[k]
      BY <3>1 DEF Lasting, HeldOpen, Held
    <3>3. M!GiveUp(s, k)
      BY <3>1, <3>2, ClosedGivesUp DEF Fails
    <3> QED BY <3>3 DEF M!Next
  <2>2. CASE EraseClient(s, k)
    <3>1. PeerOn(s, k) \in Server
      BY <2>2, EraseClientEffect DEF EraseClientDoes
    <3> QED BY <2>2, <3>1, EraseClientForgets DEF M!Next
  <2>3. CASE DisconnectCallback(s, k)
    <3>1. UNCHANGED <<main, from, to, open, clients, disturbed>>
      BY <2>3, DisconnectCallbackEffect DEF DisconnectCallbackDoes, tcp, bounds
    <3> QED BY <3>1, Unseen DEF SameMembers
  <2> QED BY <1>10, <2>1, <2>2, <2>3 DEF ReaderStep
<1>12. \A s \in Server, r \in Role : ~UseMoved(s, r)
  BY DEF UseMoved, At, Joined, OneByOne, NoVictims
<1> QED BY <1>1, <1>2, <1>3, <1>4, <1>5, <1>6, <1>7, <1>8, <1>9, <1>10, <1>11, <1>12
        DEF Next, UdpStep, TcpStep, Added

\* Servers that are started one at a time connect once.  A server gives up its end
\* of a connection only when the other end is closed already, when its process ends,
\* or when a call on the connection has failed although both ends were open: the
\* pair is then disturbed until one of the two is started anew.
THEOREM Refines == Sequential => (Spec => ServersConnectOnce)
<1> SUFFICES ASSUME Sequential
             PROVE  Spec => ServersConnectOnce
  OBVIOUS
<1>1. Init => M!Init
  <2> SUFFICES ASSUME Init PROVE M!Init
    OBVIOUS
  <2>1. Members = {}
    BY DEF Init, Members
  <2>2. Between = [k \in Conn |-> {}]
    BY DEF Init, Between
  <2> QED BY <2>1, <2>2 DEF Init, M!Init
<1>2. Init => Lasting
  <2> SUFFICES ASSUME Init PROVE Lasting
    OBVIOUS
  <2>1. HeldOpen
    BY DEF Init, HeldOpen, Held, Queued, Serving, Handshake
  <2>2. ErasedClosed /\ FailedBroken
    BY DEF Init, ErasedClosed, FailedBroken, Serving
  <2> QED BY <2>1, <2>2 DEF Lasting
<1>3. Typed /\ Owners /\ Joined /\ Lasting /\ [Next]_vars => Lasting'
  BY NextLasting
<1>4. Typed /\ Owners /\ Joined /\ Lasting /\ [Next]_vars => [M!Next]_Seen
  BY NextRefines
<1>5. Spec => [](Typed /\ Owners /\ Joined)
  BY JoinedAlways
<1>6. [M!Next]_Seen <=> [M!Next]_<<Members, Between, open, clients, disturbed>>
  BY DEF Seen
<1> QED BY <1>1, <1>2, <1>3, <1>4, <1>5, <1>6, PTL DEF Spec, ServersConnectOnce, M!Spec

\* A connection is made between servers that have no open one.
LEMMA StepOneConnection ==
    ASSUME Typed, M!OneConnection, [M!Next]_Seen
    PROVE  M!OneConnection'
<1>1. ASSUME UNCHANGED Between, \A k \in Conn : open'[k] \subseteq open[k]
      PROVE  M!OneConnection'
  BY <1>1 DEF M!OneConnection
<1>2. CASE UNCHANGED Seen
  BY <1>1, <1>2 DEF Seen
<1>3. ASSUME NEW s \in Server, NEW p \in Server, M!Connect(s, p)
      PROVE  M!OneConnection'
  <2>1. PICK k \in Conn : /\ Between' = [Between EXCEPT ![k] = {s, p}]
                          /\ open' = [open EXCEPT ![k] = {s, p}]
    BY <1>3 DEF M!Connect
  <2>2. \A j \in Conn : Between[j] = {s, p} => open[j] = {}
    BY <1>3 DEF M!Connect
  <2>3. /\ Between'[k] = {s, p}
        /\ \A j \in Conn : j # k => Between'[j] = Between[j] /\ open'[j] = open[j]
    <3>1. open \in [Conn -> SUBSET Server]
      BY DEF Typed, TypeOK
    <3>2. DOMAIN Between = Conn
      BY DEF Between
    <3>3. DOMAIN Between' = Conn
      BY DEF Between
    <3> QED BY <2>1, <3>1, <3>2, <3>3
  <2> QED BY <2>2, <2>3 DEF M!OneConnection
<1>4. ASSUME NEW s \in Server, M!Join(s) \/ M!Leave(s) \/ M!Break(s)
      PROVE  M!OneConnection'
  BY <1>1, <1>4 DEF M!Join, M!Leave, M!Break
<1>5. ASSUME NEW s \in Server, NEW p \in Server, M!Enter(s, p) \/ M!Forget(s, p)
      PROVE  M!OneConnection'
  BY <1>1, <1>5 DEF M!Enter, M!Forget
<1>6. ASSUME NEW s \in Server, NEW k \in Conn, M!GiveUp(s, k)
      PROVE  M!OneConnection'
  BY <1>1, <1>6 DEF M!GiveUp, Typed, TypeOK
<1> QED BY <1>2, <1>3, <1>4, <1>5, <1>6 DEF M!Next

\* Of one open connection, both servers make the same entry.
LEMMA OneConnectionAgrees ==
    ASSUME Typed, M!OneConnection
    PROVE  M!Agreement
<1> SUFFICES ASSUME NEW s \in Server, NEW p \in Server, NEW j \in Conn, NEW k \in Conn,
                    clients[s][p] = j, s \in open[j], clients[p][s] = k, p \in open[k]
             PROVE  j = k
  BY DEF M!Agreement, M!Uses
<1>1. j # None /\ k # None
  BY ConstantsOK DEF ConstantsOK
<1>2. EndOf(s, j) /\ PeerOn(s, j) = p /\ EndOf(p, k) /\ PeerOn(p, k) = s
  BY <1>1 DEF Typed, Shape, Related, Entries
<1>3. Between[j] = {s, p} /\ Between[k] = {p, s}
  BY <1>2, BetweenEnds
<1>4. {s, p} = {p, s}
  OBVIOUS
<1>5. Between[j] = Between[k]
  BY <1>3, <1>4
<1>6. open[j] # {} /\ open[k] # {}
  OBVIOUS
<1> QED BY <1>5, <1>6 DEF M!OneConnection

\* Servers that are started one at a time have one connection, and agree on it
\* at all times, not only when nothing is in progress.
THEOREM AgreeAtAllTimes == Sequential => (Spec => [](M!OneConnection /\ M!Agreement))
<1> SUFFICES ASSUME Sequential
             PROVE  Spec => [](M!OneConnection /\ M!Agreement)
  OBVIOUS
<1>1. M!Init => M!OneConnection
  BY DEF M!Init, M!OneConnection
<1>2. Typed /\ M!OneConnection /\ [M!Next]_Seen => M!OneConnection'
  BY StepOneConnection
<1>3. Typed /\ M!OneConnection => M!Agreement
  BY OneConnectionAgrees
<1>4. [M!Next]_Seen <=> [M!Next]_<<Members, Between, open, clients, disturbed>>
  BY DEF Seen
<1>5. Spec => M!Init /\ [][M!Next]_<<Members, Between, open, clients, disturbed>>
  BY Refines DEF ServersConnectOnce, M!Spec
<1> QED BY <1>1, <1>2, <1>3, <1>4, <1>5, OwnersAlways, PTL

=============================================================================
