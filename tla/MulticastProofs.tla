-------------------------- MODULE MulticastProofs --------------------------
(***************************************************************************)
(* Theorems about MulticastRequests, for every set of senders and every    *)
(* bound on messages, failures and descriptors: types, the ports that      *)
(* handleConnect is given, the refinement of LossyMulticast, and that a    *)
(* listener that is out of step recovers.                                  *)
(***************************************************************************)
EXTENDS MulticastRequests, TLAPS

(***************************************************************************)
(* Type correctness.  A sender that is in a call has a message to send; a  *)
(* header that announces a port has come from somewhere.                   *)
(***************************************************************************)
Typed ==
    /\ TypeOK
    /\ \A s \in Sender : pc[s] # "idle" => message[s].n \in 1 .. MaxMessages
    /\ header # None /\ header.length = 2 => header.from \in Sender

\* What sequences over S keep.
LEMMA SeqFacts ==
    ASSUME NEW S
    PROVE  /\ \A q \in Seq(S) : q # <<>> => Head(q) \in S /\ Tail(q) \in Seq(S)
           /\ \A q \in Seq(S), e \in S : Append(q, e) \in Seq(S)
           /\ \A q \in Seq(S) : \A i \in DOMAIN q : q[i] \in S
           /\ <<>> \in Seq(S)
           /\ \A e \in S : <<e>> \in Seq(S)
OBVIOUS

\* The initial state is typed.
LEMMA InitTyped == Init => Typed
<1> SUFFICES ASSUME Init PROVE Typed
  OBVIOUS
<1>1. queue \in Seq(Datagram) /\ calm \in Seq(Announcement)
  BY SeqFacts DEF Init
<1> QED BY <1>1, ConstantsOK DEF Init, Typed, TypeOK, Kind, Attempt

\* What a step of a sender changes besides its label.
LEMMA TransmitTyped ==
    ASSUME TypeOK, NEW d \in Datagram, Transmit(d)
    PROVE  queue' \in Seq(Datagram) /\ calm' \in Seq(Announcement)
<1>1. queue \in Seq(Datagram) /\ calm \in Seq(Announcement)
  BY DEF TypeOK
<1>2. queue' \in {queue, Append(queue, d)}
  BY DEF Transmit
<1> DEFINE a == [from |-> d.from, n |-> d.n]
<1>3. a \in Announcement
  BY DEF Datagram, Announcement
<1>4. calm' \in {<<>>, <<a>>, Append(calm, a)}
  BY DEF Transmit, Track, Datagram, Kind
<1> HIDE DEF a
<1> QED BY <1>1, <1>2, <1>3, <1>4, SeqFacts

\* A message that begins has a number.
LEMMA BeginTyped ==
    ASSUME Typed, NEW s \in Sender, Begin(s)
    PROVE  Typed'
<1>1. sent + 1 \in 1 .. MaxMessages /\ sent + 1 \in 0 .. MaxMessages
  BY ConstantsOK DEF Begin, Typed, TypeOK
<1>2. PICK k \in Kind : message' = [message EXCEPT ![s] =
                [n |-> sent + 1, kind |-> k, run |-> k = "connect" /\ @.n = 0]]
  BY DEF Begin
<1>3. message' \in [Sender -> [n : 0 .. MaxMessages, kind : Kind, run : BOOLEAN]]
  BY <1>1, <1>2 DEF Typed, TypeOK
<1>4. message'[s].n \in 1 .. MaxMessages /\ \A r \in Sender \ {s} : message'[r] = message[r]
  BY <1>1, <1>2 DEF Typed, TypeOK
<1>5. pc' \in [Sender -> {"idle", "open", "header", "body"}]
      /\ \A r \in Sender \ {s} : pc'[r] = pc[r]
  BY DEF Begin, Typed, TypeOK
<1> QED BY <1>1, <1>3, <1>4, <1>5 DEF Begin, Typed, TypeOK, listener

\* The calls of a sender keep the types.
LEMMA SenderTyped ==
    ASSUME Typed, NEW s \in Sender, SenderStep(s)
    PROVE  Typed'
<1>1. pc[s] # "idle"
  BY DEF SenderStep, OpenSocket, SendMessage, SendHeader, SendBody, SendPart
<1>2. /\ pc' \in [Sender -> {"idle", "open", "header", "body"}]
      /\ \A r \in Sender \ {s} : pc'[r] = pc[r]
  BY DEF SenderStep, OpenSocket, SendMessage, SendHeader, SendBody, SendPart, Fail, Retry,
         GoTo, Typed, TypeOK
<1>3. message' = message /\ sent' = sent /\ UNCHANGED listener
  BY DEF SenderStep, OpenSocket, SendMessage, SendHeader, SendBody, SendPart
<1>4. failures' \in 0 .. MaxFailures
  <2>1. failures' = failures \/ (failures < MaxFailures /\ failures' = failures + 1)
    BY DEF SenderStep, OpenSocket, SendMessage, SendHeader, SendBody, SendPart, Fail, CallFails
  <2>2. failures \in 0 .. MaxFailures /\ MaxFailures \in Nat
    BY ConstantsOK DEF Typed, TypeOK
  <2> QED BY <2>1, <2>2
<1>5. isOpen' \in [Sender -> BOOLEAN] /\ leaked' \in [Sender -> 0 .. Descriptors]
  <2>1. CASE OpenSocket(s)
    <3>1. leaked'[s] \in 0 .. Descriptors /\ \A r \in Sender \ {s} : leaked'[r] = leaked[r]
      BY <2>1, ConstantsOK DEF OpenSocket, Typed, TypeOK
    <3> QED BY <2>1, <3>1 DEF OpenSocket, Typed, TypeOK
  <2> QED BY <2>1 DEF SenderStep, SendMessage, SendHeader, SendBody, SendPart, Typed, TypeOK
<1>6. queue' \in Seq(Datagram) /\ calm' \in Seq(Announcement)
  <2>1. CASE OpenSocket(s)
    BY <2>1 DEF OpenSocket, Typed, TypeOK
  <2>2. ASSUME NEW part \in {"header", "body"}, NEW next, SendPart(s, part, next)
        PROVE  queue' \in Seq(Datagram) /\ calm' \in Seq(Announcement)
    <3> DEFINE d == [from |-> s, n |-> message[s].n, kind |-> message[s].kind, part |-> part]
    <3>1. d \in Datagram
      BY <1>1 DEF Datagram, Typed, TypeOK
    <3>2. Transmit(d) \/ UNCHANGED <<queue, calm>>
      BY <2>2 DEF SendPart
    <3> HIDE DEF d
    <3> QED BY <3>1, <3>2, TransmitTyped DEF Typed, TypeOK
  <2> QED BY <2>1, <2>2 DEF SenderStep, SendMessage, SendHeader, SendBody
<1> QED BY <1>1, <1>2, <1>3, <1>4, <1>5, <1>6 DEF Typed, TypeOK, listener

\* What handleRequest adds to the attempts.
LEMMA Attempted ==
    ASSUME NEW h, NEW address, NEW d, HandleRequest(h, address, d)
    PROVE  \/ attempts' = attempts
           \/ h.length = 2 /\ attempts' = attempts \cup {AttemptAt(address, d)}
BY DEF HandleRequest, HandleConnect, BodyLength

\* handleConnect is given the address of a server, if it uses it.
LEMMA AttemptTyped ==
    ASSUME TypeOK, NEW h, NEW address, NEW d \in Datagram \cup {None},
           h.length = 2 => address \in Sender,
           HandleRequest(h, address, d)
    PROVE  attempts' \subseteq Attempt
<1>1. ASSUME address \in Sender
      PROVE  AttemptAt(address, d) \in Attempt
  BY <1>1, ConstantsOK DEF AttemptAt, Attempt, Datagram
<1> QED BY <1>1, Attempted DEF TypeOK

\* What the listener takes for a header.
LEMMA HeaderTyped ==
    ASSUME TypeOK, ReceiveHeader
    PROVE  header' \in {h \in Headers : h.from \in Sender} \cup {None}
<1>1. Head(queue) \in Datagram
  BY SeqFacts DEF ReceiveHeader, TypeOK
<1>2. ASSUME Head(queue).part = "header"
      PROVE  header' = [from |-> Head(queue).from, length |-> BodyLength(Head(queue).kind),
                        kind |-> Head(queue).kind]
  BY <1>2 DEF ReceiveHeader
<1>3. ASSUME Head(queue).part # "header"
      PROVE  header' \in {h \in Headers : h.from = Head(queue).from} \cup {None}
  BY <1>3 DEF ReceiveHeader
<1>4. Head(queue).from \in Sender /\ Head(queue).kind \in Kind
  BY <1>1 DEF Datagram
<1>5. BodyLength(Head(queue).kind) \in {0, 2, HeaderLength + 1}
  BY DEF BodyLength
<1> QED BY <1>2, <1>3, <1>4, <1>5 DEF Headers

\* The steps of UdpServer::run keep the types.
LEMMA ListenTyped ==
    ASSUME Typed, Listen
    PROVE  Typed'
<1> USE DEF Typed
<1>1. UNCHANGED senders /\ TypeOK
  BY DEF Listen, ReceiveHeader, ReceiveHeaderFails, ReceiveBody, ReceiveBodyFails
<1>2. queue' \in Seq(Datagram)
  <2>1. queue' = queue \/ (queue # <<>> /\ queue' = Tail(queue))
    BY DEF Listen, ReceiveHeader, ReceiveHeaderFails, ReceiveBody, ReceiveBodyFails
  <2>2. queue \in Seq(Datagram)
    BY DEF TypeOK
  <2> QED BY <2>1, <2>2, SeqFacts
<1>3. failures' \in 0 .. MaxFailures
  BY ConstantsOK DEF Listen, ReceiveHeader, ReceiveHeaderFails, ReceiveBody, ReceiveBodyFails,
                     CallFails, TypeOK
<1>4. calm' \in Seq(Announcement)
  <2>1. calm' \in {calm, <<>>}
    BY DEF Listen, ReceiveHeader, ReceiveHeaderFails, ReceiveBody, ReceiveBodyFails
  <2>2. calm \in Seq(Announcement)
    BY DEF TypeOK
  <2> QED BY <2>1, <2>2, SeqFacts
<1>5. /\ header' \in Headers \cup {None}
      /\ header' # None /\ header'.length = 2 => header'.from \in Sender
  <2>1. CASE ReceiveHeader
    BY <2>1, HeaderTyped
  <2>2. CASE ReceiveHeaderFails
    BY <2>2 DEF ReceiveHeaderFails, Headers, Kind
  <2>3. CASE ReceiveBody \/ ReceiveBodyFails
    BY <2>3 DEF ReceiveBody, ReceiveBodyFails, Dropped
  <2> QED BY <2>1, <2>2, <2>3 DEF Listen
<1>6. attempts' \subseteq Attempt
  <2>1. CASE ReceiveHeader \/ ReceiveHeaderFails
    BY <2>1 DEF ReceiveHeader, ReceiveHeaderFails, TypeOK
  <2>2. CASE ReceiveBody
    <3>1. Head(queue) \in Datagram
      BY <2>2, SeqFacts DEF ReceiveBody, TypeOK
    <3>2. attempts' = attempts \/ HandleRequest(header, Head(queue).from, Head(queue))
      BY <2>2 DEF ReceiveBody, Address
    <3>3. Head(queue).from \in Sender
      BY <3>1 DEF Datagram
    <3> QED BY <3>1, <3>2, <3>3, AttemptTyped DEF TypeOK
  <2>3. CASE ReceiveBodyFails
    BY <2>3, AttemptTyped DEF ReceiveBodyFails
  <2> QED BY <2>1, <2>2, <2>3 DEF Listen
<1> QED BY <1>1, <1>2, <1>3, <1>4, <1>5, <1>6 DEF TypeOK, senders

\* Every step keeps the types.
LEMMA NextTyped ==
    ASSUME Typed, [Next]_vars
    PROVE  Typed'
<1>1. CASE UNCHANGED vars
  BY <1>1 DEF vars, senders, listener, Typed, TypeOK
<1> QED BY <1>1, BeginTyped, SenderTyped, ListenTyped DEF Next

(***************************************************************************)
(* The variables of MulticastRequests keep their types: an attempt of      *)
(* handleConnect to connect always has the address of a server.            *)
(***************************************************************************)
THEOREM TypeCorrect == Spec => []TypeOK
<1>1. Spec => []Typed
  BY InitTyped, NextTyped, PTL DEF Spec
<1> QED BY <1>1, PTL DEF Typed

(***************************************************************************)
(* The body of a message is sent once: what waits in the socket or has     *)
(* been acted on is not being sent any more, and never will be again.      *)
(***************************************************************************)
Past(s, n) == n <= sent /\ (pc[s] # "idle" => message[s].n # n)

Bodies == {i \in DOMAIN queue : queue[i].part = "body"}

Once ==
    /\ \A s \in Sender : message[s].n <= sent
    /\ \A i \in Bodies : Past(queue[i].from, queue[i].n)
    /\ \A i, j \in Bodies : queue[i].from = queue[j].from /\ queue[i].n = queue[j].n => i = j
    /\ \A x \in attempts : x.port # None => x.port = x.address /\ Past(x.port, x.n)

\* Where the elements of a sequence are after the first has been taken.
LEMMA TailFacts ==
    ASSUME NEW S, NEW q \in Seq(S), q # <<>>
    PROVE  /\ 1 \in DOMAIN q /\ Head(q) = q[1]
           /\ \A i \in DOMAIN Tail(q) : i + 1 \in DOMAIN q /\ Tail(q)[i] = q[i + 1] /\ i \in Nat /\ i > 0
           /\ \A i \in DOMAIN q \ {1} : i - 1 \in DOMAIN Tail(q) /\ Tail(q)[i - 1] = q[i]
OBVIOUS

\* Where the elements of a sequence are after one has been appended.
LEMMA AppendFacts ==
    ASSUME NEW S, NEW q \in Seq(S), NEW e \in S
    PROVE  /\ \A i \in DOMAIN Append(q, e) :
                 \/ i \in DOMAIN q /\ Append(q, e)[i] = q[i]
                 \/ i = Len(q) + 1 /\ Append(q, e)[i] = e
           /\ \A i \in DOMAIN q : i \in DOMAIN Append(q, e) /\ Append(q, e)[i] = q[i]
           /\ Len(q) + 1 \in DOMAIN Append(q, e) /\ Append(q, e)[Len(q) + 1] = e
OBVIOUS

\* Nothing has been sent at first.
LEMMA InitOnce == Init => Once
<1> SUFFICES ASSUME Init PROVE Once
  OBVIOUS
<1>1. Bodies = {}
  BY DEF Init, Bodies
<1> QED BY <1>1 DEF Init, Once

\* Past is kept by a step that begins no message with an old number.
LEMMA BeginOnce ==
    ASSUME Typed, Once, NEW s \in Sender, Begin(s)
    PROVE  Once'
<1>1. /\ sent \in Nat /\ sent' = sent + 1
      /\ message'[s].n = sent + 1
      /\ \A r \in Sender \ {s} : message'[r] = message[r] /\ pc'[r] = pc[r]
      /\ queue' = queue /\ attempts' = attempts
      /\ \A r \in Sender : message[r].n \in Nat
  BY DEF Begin, Typed, TypeOK, listener
<1>2. \A r \in Sender, n \in Nat : Past(r, n) => Past(r, n)'
  BY <1>1 DEF Past
<1>3. \A i \in Bodies : queue[i].from \in Sender /\ queue[i].n \in Nat
  <2>1. queue \in Seq(Datagram)
    BY DEF Typed, TypeOK
  <2>2. \A i \in DOMAIN queue : queue[i] \in Datagram
    BY <2>1, SeqFacts
  <2> QED BY <2>2 DEF Bodies, Datagram
<1>4. \A x \in attempts : x.port # None => x.port \in Sender /\ x.n \in Nat
  BY DEF Typed, TypeOK, Attempt
<1>5. Bodies' = Bodies
  BY <1>1 DEF Bodies
<1>6. \A r \in Sender : message'[r].n <= sent'
  BY <1>1 DEF Once
<1>7. \A i \in Bodies' : Past(queue[i].from, queue[i].n)'
  BY <1>1, <1>2, <1>3, <1>5 DEF Once
<1>8. \A x \in attempts' : x.port # None => x.port = x.address /\ Past(x.port, x.n)'
  BY <1>1, <1>2, <1>4 DEF Once
<1> QED BY <1>1, <1>5, <1>6, <1>7, <1>8 DEF Once

\* The sender of a body is done with it.
LEMMA TransmitOnce ==
    ASSUME Typed, Once, NEW s \in Sender, NEW part \in {"header", "body"}, pc[s] # "idle",
           NEW d, d = [from |-> s, n |-> message[s].n, kind |-> message[s].kind, part |-> part],
           Transmit(d), attempts' = attempts, sent' = sent, message' = message,
           \A r \in Sender \ {s} : pc'[r] = pc[r],
           part = "body" => pc'[s] = "idle"
    PROVE  Once'
<1>1. queue \in Seq(Datagram) /\ d \in Datagram
  BY DEF Typed, TypeOK, Datagram
<1>2. \A i \in DOMAIN queue : queue[i] \in Datagram
  BY <1>1, SeqFacts
<1>3. \A r \in Sender, n \in Nat : Past(r, n) => Past(r, n)'
  BY DEF Past
<1>4. \A x \in attempts : x.port # None => x.port \in Sender /\ x.n \in Nat
  BY DEF Typed, TypeOK, Attempt
<1>5. \A x \in attempts' : x.port # None => x.port = x.address /\ Past(x.port, x.n)'
  BY <1>3, <1>4 DEF Once
<1>6. part = "body" => Past(s, message[s].n)'
  BY DEF Past, Once
<1>7. \A i \in DOMAIN queue' : \/ i \in DOMAIN queue /\ queue'[i] = queue[i]
                               \/ i = Len(queue) + 1 /\ queue'[i] = d
  <2>1. CASE queue' = queue
    BY <2>1
  <2>2. CASE queue' = Append(queue, d)
    BY <2>2, <1>1, AppendFacts
  <2> QED BY <2>1, <2>2 DEF Transmit
<1>8. \A i \in Bodies' : Past(queue[i].from, queue[i].n)'
  <2> SUFFICES ASSUME NEW i \in Bodies' PROVE Past(queue[i].from, queue[i].n)'
    OBVIOUS
  <2>1. CASE i \in DOMAIN queue /\ queue'[i] = queue[i]
    <3>1. i \in Bodies /\ queue[i].from \in Sender /\ queue[i].n \in Nat
      BY <2>1, <1>2 DEF Bodies, Datagram
    <3> QED BY <3>1, <2>1, <1>3 DEF Once, Past
  <2>2. CASE queue'[i] = d
    BY <2>2, <1>6 DEF Bodies, Past
  <2> QED BY <2>1, <2>2, <1>7 DEF Bodies
<1>9. \A i \in Bodies : ~(queue[i].from = s /\ queue[i].n = message[s].n)
  BY DEF Once, Past
<1>10. ASSUME NEW i \in Bodies', NEW j \in Bodies', queue'[i].from = queue'[j].from,
              queue'[i].n = queue'[j].n
       PROVE  i = j
  <2>1. i \in DOMAIN queue' /\ j \in DOMAIN queue' /\ queue'[i].part = "body" /\ queue'[j].part = "body"
    BY DEF Bodies
  <2>2. \/ i \in Bodies /\ queue'[i] = queue[i]
        \/ i = Len(queue) + 1 /\ queue'[i] = d
    BY <2>1, <1>7 DEF Bodies
  <2>3. \/ j \in Bodies /\ queue'[j] = queue[j]
        \/ j = Len(queue) + 1 /\ queue'[j] = d
    BY <2>1, <1>7 DEF Bodies
  <2>4. d.from = s /\ d.n = message[s].n
    OBVIOUS
  <2>5. CASE i \in Bodies /\ queue'[i] = queue[i] /\ j \in Bodies /\ queue'[j] = queue[j]
    BY <2>5, <1>10 DEF Once
  <2> QED BY <2>2, <2>3, <2>4, <2>5, <1>9, <1>10
<1> QED BY <1>5, <1>8, <1>10 DEF Once

\* A sender transmits the body of its message only in its last step.
LEMMA SenderOnce ==
    ASSUME Typed, Once, NEW s \in Sender, SenderStep(s)
    PROVE  Once'
<1>1. /\ pc[s] # "idle" /\ attempts' = attempts /\ sent' = sent /\ message' = message
      /\ \A r \in Sender \ {s} : pc'[r] = pc[r]
  BY DEF SenderStep, OpenSocket, SendMessage, SendHeader, SendBody, SendPart, Fail, Retry,
         GoTo, listener, Typed, TypeOK
<1>2. ASSUME queue' = queue
      PROVE  Once'
  <2>1. \A r \in Sender, n \in Nat : Past(r, n) => Past(r, n)'
    BY <1>1 DEF Past
  <2>2. queue \in Seq(Datagram)
    BY DEF Typed, TypeOK
  <2>3. \A i \in DOMAIN queue : queue[i] \in Datagram
    BY <2>2, SeqFacts
  <2>4. \A i \in Bodies : queue[i].from \in Sender /\ queue[i].n \in Nat
    BY <2>3 DEF Bodies, Datagram
  <2>5. \A x \in attempts : x.port # None => x.port \in Sender /\ x.n \in Nat
    BY DEF Typed, TypeOK, Attempt
  <2>6. Bodies' = Bodies
    BY <1>2 DEF Bodies
  <2>7. \A i \in Bodies' : Past(queue[i].from, queue[i].n)'
    BY <1>2, <2>1, <2>4, <2>6 DEF Once, Past
  <2>8. \A x \in attempts' : x.port # None => x.port = x.address /\ Past(x.port, x.n)'
    BY <1>1, <2>1, <2>5 DEF Once
  <2> QED BY <1>1, <1>2, <2>6, <2>7, <2>8 DEF Once
<1>3. ASSUME NEW part \in {"header", "body"}, NEW next, part = "body" => next = "idle",
             SendPart(s, part, next)
      PROVE  Once'
  <2> DEFINE d == [from |-> s, n |-> message[s].n, kind |-> message[s].kind, part |-> part]
  <2>1. CASE UNCHANGED queue
    BY <2>1, <1>2
  <2>2. CASE Transmit(d) /\ GoTo(s, next)
    <3>1. part = "body" => pc'[s] = "idle"
      BY <2>2, <1>3 DEF GoTo, Typed, TypeOK
    <3>2. Transmit(d)
      BY <2>2
    <3>3. d = [from |-> s, n |-> message[s].n, kind |-> message[s].kind, part |-> part]
      OBVIOUS
    <3> HIDE DEF d
    <3> QED BY <3>1, <3>2, <3>3, <1>1, TransmitOnce
  <2> QED BY <2>1, <2>2, <1>3 DEF SendPart
<1>4. CASE OpenSocket(s)
  BY <1>4, <1>2 DEF OpenSocket
<1>5. CASE SendHeader(s)
  BY <1>5, <1>3 DEF SendHeader
<1>6. CASE SendBody(s)
  BY <1>6, <1>3 DEF SendBody
<1> QED BY <1>4, <1>5, <1>6 DEF SenderStep, SendMessage

\* What the listener does with the first datagram, and what it leaves alone.
LEMMA ListenSteps ==
    ASSUME Typed, Listen
    PROVE  /\ UNCHANGED senders
           /\ \/ /\ queue # <<>>
                 /\ queue' = Tail(queue)
                 /\ \/ attempts' = attempts
                    \/ attempts' = attempts \cup {AttemptAt(Head(queue).from, Head(queue))}
              \/ /\ queue' = queue
                 /\ \/ attempts' = attempts
                    \/ attempts' = attempts \cup {AttemptAt(header.from, None)}
<1>1. CASE ReceiveHeader
  BY <1>1 DEF ReceiveHeader
<1>2. CASE ReceiveHeaderFails
  BY <1>2 DEF ReceiveHeaderFails
<1>3. CASE ReceiveBody
  BY <1>3, Attempted DEF ReceiveBody, Address
<1>4. CASE ReceiveBodyFails
  BY <1>4, Attempted DEF ReceiveBodyFails
<1> QED BY <1>1, <1>2, <1>3, <1>4 DEF Listen

\* The listener acts on bodies that it takes from the socket.
LEMMA ListenOnce ==
    ASSUME Typed, Once, Listen
    PROVE  Once'
<1>1. queue \in Seq(Datagram)
  BY DEF Typed, TypeOK
<1>2. UNCHANGED <<pc, message, sent>>
  BY ListenSteps DEF senders
<1>3. \A i \in Bodies' : \E k \in Bodies : queue'[i] = queue[k] /\ (k = i \/ k = i + 1)
  <2>1. CASE queue' = queue
    BY <2>1 DEF Bodies
  <2>2. CASE queue # <<>> /\ queue' = Tail(queue)
    <3>1. \A i \in DOMAIN Tail(queue) : i + 1 \in DOMAIN queue /\ Tail(queue)[i] = queue[i + 1]
      BY <2>2, <1>1, TailFacts
    <3> QED BY <2>2, <3>1 DEF Bodies
  <2> QED BY <2>1, <2>2, ListenSteps
<1>4. \A i \in Bodies' : Past(queue[i].from, queue[i].n)'
  BY <1>2, <1>3 DEF Once, Past
<1>5. ASSUME NEW i \in Bodies', NEW j \in Bodies', queue'[i].from = queue'[j].from,
             queue'[i].n = queue'[j].n
      PROVE  i = j
  <2>1. CASE queue' = queue
    BY <2>1, <1>5 DEF Once, Bodies
  <2>2. CASE queue # <<>> /\ queue' = Tail(queue)
    <3>1. \A k \in DOMAIN Tail(queue) : k + 1 \in DOMAIN queue /\ Tail(queue)[k] = queue[k + 1] /\ k \in Nat
      BY <2>2, <1>1, TailFacts
    <3>2. i \in Nat /\ j \in Nat /\ i + 1 \in Bodies /\ j + 1 \in Bodies
          /\ queue'[i] = queue[i + 1] /\ queue'[j] = queue[j + 1]
      BY <2>2, <3>1 DEF Bodies
    <3>3. i + 1 = j + 1
      BY <3>2, <1>5 DEF Once
    <3> QED BY <3>2, <3>3
  <2> QED BY <2>1, <2>2, ListenSteps
<1>6. ASSUME NEW x \in attempts', x.port # None
      PROVE  x.port = x.address /\ Past(x.port, x.n)'
  <2>1. CASE x \in attempts
    BY <2>1, <1>2, <1>6 DEF Once, Past
  <2>2. CASE x = AttemptAt(header.from, None)
    BY <2>2, <1>6 DEF AttemptAt
  <2>3. CASE queue # <<>> /\ x = AttemptAt(Head(queue).from, Head(queue))
    <3>1. 1 \in DOMAIN queue /\ Head(queue) = queue[1]
      BY <2>3, <1>1, TailFacts
    <3>2. 1 \in Bodies /\ x.port = x.address /\ x.port = queue[1].from /\ x.n = queue[1].n
      BY <2>3, <3>1, <1>6 DEF AttemptAt, Bodies
    <3> QED BY <3>2, <1>2 DEF Once, Past
  <2> QED BY <2>1, <2>2, <2>3, ListenSteps
<1>7. \A s \in Sender : message'[s].n <= sent'
  BY <1>2 DEF Once
<1> QED BY <1>4, <1>5, <1>6, <1>7 DEF Once

\* Every step keeps Once.
LEMMA NextOnce ==
    ASSUME Typed, Once, [Next]_vars
    PROVE  Once'
<1>1. CASE UNCHANGED vars
  BY <1>1 DEF vars, senders, listener, Once, Past, Bodies
<1> QED BY <1>1, BeginOnce, SenderOnce, ListenOnce DEF Next

\* The inductive invariant.
LEMMA Invariant == Spec => [](Typed /\ Once)
<1>1. Init => Typed /\ Once
  BY InitTyped, InitOnce
<1>2. Typed /\ Once /\ [Next]_vars => (Typed /\ Once)'
  BY NextTyped, NextOnce
<1> QED BY <1>1, <1>2, PTL DEF Spec

(***************************************************************************)
(* No server is connected to at the port of another one: in every request  *)
(* that UdpServer::run hands on, the port is that of the server at the     *)
(* address, or is not an announced port at all.                            *)
(***************************************************************************)
THEOREM PortsBelong == Spec => []PortBelongsToAddress
<1>1. Once => PortBelongsToAddress
  BY DEF Once, PortBelongsToAddress
<1> QED BY <1>1, Invariant, PTL

(***************************************************************************)
(* The refinement: which announcements wait and which were heard.          *)
(***************************************************************************)
Body(a) == [from |-> a.from, n |-> a.n, kind |-> "connect", part |-> "body"]
Waits(a) == \E i \in DOMAIN queue : queue[i] = Body(a)
Waiting == {a \in Announcement : Waits(a)}
AllHeard == {a \in Announcement : Heard(a)}

\* Steps of the abstract specification, in terms of the two predicates.
LEMMA AbstractSteps ==
    ASSUME \/ \A a \in Announcement : (Waits(a)' <=> Waits(a)) /\ (Heard(a)' <=> Heard(a))
           \/ \E b \in Announcement :
                 /\ ~Waits(b) /\ ~Heard(b)
                 /\ \A a \in Announcement : (Waits(a)' <=> Waits(a) \/ a = b) /\ (Heard(a)' <=> Heard(a))
           \/ \E b \in Announcement :
                 /\ Waits(b)
                 /\ \A a \in Announcement : (Waits(a)' <=> Waits(a) /\ a # b) /\ (Heard(a)' <=> Heard(a))
           \/ \E b \in Announcement :
                 /\ Waits(b)
                 /\ \A a \in Announcement : (Waits(a)' <=> Waits(a) /\ a # b) /\ (Heard(a)' <=> Heard(a) \/ a = b)
    PROVE  [L!Next]_<<Waiting, AllHeard>>
<1> USE DEF Waiting, AllHeard
<1>1. CASE \A a \in Announcement : (Waits(a)' <=> Waits(a)) /\ (Heard(a)' <=> Heard(a))
  <2>1. Waiting' = Waiting /\ AllHeard' = AllHeard
    BY <1>1
  <2> QED BY <2>1
<1>2. ASSUME NEW b \in Announcement, ~Waits(b), ~Heard(b),
             \A a \in Announcement : (Waits(a)' <=> Waits(a) \/ a = b) /\ (Heard(a)' <=> Heard(a))
      PROVE  L!Next
  <2>1. b \notin Waiting \cup AllHeard /\ Waiting' = Waiting \cup {b} /\ AllHeard' = AllHeard
    BY <1>2
  <2>2. L!Announce(b)
    BY <2>1 DEF L!Announce, Waits, Body
  <2> QED BY <2>2 DEF L!Next
<1>3. ASSUME NEW b \in Announcement, Waits(b),
             \A a \in Announcement : (Waits(a)' <=> Waits(a) /\ a # b) /\ (Heard(a)' <=> Heard(a))
      PROVE  L!Next
  <2>1. b \in Waiting /\ Waiting' = Waiting \ {b} /\ AllHeard' = AllHeard
    BY <1>3
  <2>2. L!Lose(b)
    BY <2>1 DEF L!Lose, Waits, Body
  <2> QED BY <2>2 DEF L!Next
<1>4. ASSUME NEW b \in Announcement, Waits(b),
             \A a \in Announcement : (Waits(a)' <=> Waits(a) /\ a # b) /\ (Heard(a)' <=> Heard(a) \/ a = b)
      PROVE  L!Next
  <2>1. b \in Waiting /\ Waiting' = Waiting \ {b} /\ AllHeard' = AllHeard \cup {b}
    BY <1>4
  <2>2. L!Hear(b)
    BY <2>1 DEF L!Hear, Waits, Body
  <2> QED BY <2>2 DEF L!Next
<1> QED BY <1>1, <1>2, <1>3, <1>4

\* A datagram that comes into the socket.
LEMMA AppendWaits ==
    ASSUME NEW d \in Datagram, queue \in Seq(Datagram), queue' = Append(queue, d)
    PROVE  \A a \in Announcement : Waits(a)' <=> Waits(a) \/ Body(a) = d
<1> SUFFICES ASSUME NEW a \in Announcement PROVE Waits(a)' <=> Waits(a) \/ Body(a) = d
  OBVIOUS
<1>1. ASSUME NEW b
      PROVE  (\E i \in DOMAIN queue' : queue'[i] = b) <=> (\E i \in DOMAIN queue : queue[i] = b) \/ b = d
  BY AppendFacts
<1> QED BY <1>1 DEF Waits, Body

\* A datagram that leaves the socket.
LEMMA TailWaits ==
    ASSUME Once, queue \in Seq(Datagram), queue # <<>>, queue' = Tail(queue)
    PROVE  /\ \A a \in Announcement : Waits(a)' <=> Waits(a) /\ Body(a) # Head(queue)
           /\ \A a \in Announcement : Body(a) = Head(queue) => Waits(a)
<1>1. /\ 1 \in DOMAIN queue /\ Head(queue) = queue[1]
      /\ \A i \in DOMAIN queue' : i + 1 \in DOMAIN queue /\ queue'[i] = queue[i + 1] /\ i \in Nat /\ i > 0
      /\ \A i \in DOMAIN queue \ {1} : i - 1 \in DOMAIN queue' /\ queue'[i - 1] = queue[i]
  BY TailFacts
<1>2. ASSUME NEW a \in Announcement, NEW i \in DOMAIN queue, NEW j \in DOMAIN queue,
             queue[i] = Body(a), queue[j] = Body(a)
      PROVE  i = j
  <2>1. i \in Bodies /\ j \in Bodies
    BY <1>2 DEF Body, Bodies
  <2> QED BY <2>1, <1>2 DEF Once
<1>3. \A a \in Announcement : Body(a) = Head(queue) => Waits(a)
  BY <1>1 DEF Waits
<1>4. ASSUME NEW a \in Announcement, Waits(a)'
      PROVE  Waits(a) /\ Body(a) # Head(queue)
  <2>1. PICK i \in DOMAIN queue' : queue'[i] = Body(a)
    BY <1>4 DEF Waits, Body
  <2>2. i + 1 \in DOMAIN queue /\ queue[i + 1] = Body(a) /\ i + 1 # 1
    BY <2>1, <1>1
  <2> QED BY <2>2, <1>1, <1>2 DEF Waits
<1>5. ASSUME NEW a \in Announcement, Waits(a), Body(a) # Head(queue)
      PROVE  Waits(a)'
  <2>1. PICK i \in DOMAIN queue : queue[i] = Body(a)
    BY <1>5 DEF Waits
  <2>2. i - 1 \in DOMAIN queue' /\ queue'[i - 1] = Body(a)
    BY <2>1, <1>1, <1>5
  <2> QED BY <2>2 DEF Waits, Body
<1> QED BY <1>3, <1>4, <1>5

\* What is heard depends on the attempts alone.
LEMMA NothingHeard ==
    ASSUME attempts' = attempts
    PROVE  \A a \in Announcement : Heard(a)' <=> Heard(a)
BY DEF Heard

\* What waits depends on the socket alone.
LEMMA NothingWaits ==
    ASSUME queue' = queue
    PROVE  \A a \in Announcement : Waits(a)' <=> Waits(a)
BY DEF Waits, Body

\* At first nothing waits and nothing has been heard.
LEMMA InitRefines == Init => Waiting = {} /\ AllHeard = {}
BY DEF Init, Waiting, AllHeard, Waits, Heard

\* A sender announces with the body of a connect request, and with nothing else.
LEMMA TransmitRefines ==
    ASSUME Typed, Once, NEW s \in Sender, NEW part \in {"header", "body"}, pc[s] # "idle",
           NEW d, d = [from |-> s, n |-> message[s].n, kind |-> message[s].kind, part |-> part],
           queue' = Append(queue, d), attempts' = attempts
    PROVE  [L!Next]_<<Waiting, AllHeard>>
<1>1. queue \in Seq(Datagram) /\ d \in Datagram
  BY DEF Typed, TypeOK, Datagram
<1>2. \A a \in Announcement : Waits(a)' <=> Waits(a) \/ Body(a) = d
  BY <1>1, AppendWaits
<1>3. CASE \A a \in Announcement : Body(a) # d
  BY <1>2, <1>3, NothingHeard, AbstractSteps
<1>4. ASSUME NEW b \in Announcement, Body(b) = d
      PROVE  [L!Next]_<<Waiting, AllHeard>>
  <2>1. b.from = s /\ b.n = message[s].n
    BY <1>4 DEF Body
  <2>2. \A a \in Announcement : Body(a) = d <=> a = b
    BY <1>4 DEF Body, Announcement
  <2>3. ~Waits(b)
    <3> SUFFICES ASSUME NEW i \in DOMAIN queue, queue[i] = Body(b) PROVE FALSE
      BY DEF Waits
    <3>1. i \in Bodies /\ queue[i].from = s /\ queue[i].n = message[s].n
      BY <2>1 DEF Body, Bodies
    <3> QED BY <3>1 DEF Once, Past
  <2>4. ~Heard(b)
    <3> SUFFICES ASSUME Heard(b) PROVE FALSE
      OBVIOUS
    <3>1. [address |-> s, port |-> s, n |-> message[s].n] \in attempts
      BY <2>1 DEF Heard
    <3> QED BY <3>1, ConstantsOK DEF Once, Past
  <2> QED BY <1>2, <2>2, <2>3, <2>4, NothingHeard, AbstractSteps
<1> QED BY <1>3, <1>4

\* The listener takes the first datagram: an announcement is lost, or it is heard.
LEMMA TailRefines ==
    ASSUME Typed, Once, queue # <<>>, queue' = Tail(queue),
           \/ attempts' = attempts
           \/ attempts' = attempts \cup {AttemptAt(Head(queue).from, Head(queue))}
    PROVE  [L!Next]_<<Waiting, AllHeard>>
<1> DEFINE d == Head(queue)
<1>1. queue \in Seq(Datagram) /\ d \in Datagram
  <2>1. queue \in Seq(Datagram)
    BY DEF Typed, TypeOK
  <2> QED BY <2>1, SeqFacts
<1>2. /\ \A a \in Announcement : Waits(a)' <=> Waits(a) /\ Body(a) # d
      /\ \A a \in Announcement : Body(a) = d => Waits(a)
  BY <1>1, TailWaits
<1>3. CASE \A a \in Announcement : Body(a) # d
  <2>1. ASSUME NEW a \in Announcement
        PROVE  AttemptAt(d.from, d) # [address |-> a.from, port |-> a.from, n |-> a.n]
    <3>1. CASE d # None /\ d.part = "body" /\ d.kind = "connect"
      <4>1. AttemptAt(d.from, d) = [address |-> d.from, port |-> d.from, n |-> d.n]
        BY <3>1 DEF AttemptAt
      <4>2. d = [from |-> d.from, n |-> d.n, kind |-> "connect", part |-> "body"]
        BY <1>1, <3>1 DEF Datagram
      <4>3. ~(a.from = d.from /\ a.n = d.n)
        BY <4>2, <1>3 DEF Body
      <4> QED BY <4>1, <4>3
    <3>2. CASE ~(d # None /\ d.part = "body" /\ d.kind = "connect")
      <4>1. AttemptAt(d.from, d).port = None
        BY <3>2 DEF AttemptAt
      <4>2. a.from # None
        BY ConstantsOK DEF Announcement
      <4> QED BY <4>1, <4>2
    <3> QED BY <3>1, <3>2
  <2>2. \A a \in Announcement : Heard(a)' <=> Heard(a)
    BY <2>1, Zenon DEF Heard
  <2> QED BY <1>2, <1>3, <2>2, AbstractSteps
<1>4. ASSUME NEW b \in Announcement, Body(b) = d
      PROVE  [L!Next]_<<Waiting, AllHeard>>
  <2>1. \A a \in Announcement : Body(a) = d <=> a = b
    BY <1>4 DEF Body, Announcement
  <2>2. CASE attempts' = attempts
    BY <1>2, <1>4, <2>1, <2>2, NothingHeard, AbstractSteps
  <2>3. CASE attempts' = attempts \cup {AttemptAt(d.from, d)}
    <3>1. \/ AttemptAt(d.from, d) = [address |-> b.from, port |-> b.from, n |-> b.n]
          \/ d = None
      BY <1>4 DEF AttemptAt, Body
    <3>2. CASE AttemptAt(d.from, d) = [address |-> b.from, port |-> b.from, n |-> b.n]
      <4>1. \A a \in Announcement : Heard(a)' <=> Heard(a) \/ a = b
        BY <2>3, <3>2 DEF Heard, Announcement
      <4> QED BY <1>2, <1>4, <2>1, <4>1, AbstractSteps
    <3>3. CASE d = None
      <4>1. AttemptAt(d.from, d).port = None
        BY <3>3 DEF AttemptAt
      <4>2. \A a \in Announcement : a.from # None
        BY ConstantsOK DEF Announcement
      <4>3. \A a \in Announcement : Heard(a)' <=> Heard(a)
        BY <2>3, <4>1, <4>2 DEF Heard
      <4> QED BY <1>2, <1>4, <2>1, <4>3, AbstractSteps
    <3> QED BY <3>1, <3>2, <3>3
  <2> QED BY <2>2, <2>3
<1> QED BY <1>3, <1>4

\* Every step of the listener loses or hears an announcement, or neither.
LEMMA ListenRefines ==
    ASSUME Typed, Once, Listen
    PROVE  [L!Next]_<<Waiting, AllHeard>>
<1>1. CASE queue # <<>> /\ queue' = Tail(queue)
  BY <1>1, ListenSteps, TailRefines
<1>2. CASE queue' = queue
  <2>1. AttemptAt(header.from, None).port = None
    BY DEF AttemptAt
  <2>2. \A a \in Announcement : a.from # None
    BY ConstantsOK DEF Announcement
  <2>3. CASE attempts' = attempts
    BY <2>3, <1>2, NothingHeard, NothingWaits, AbstractSteps
  <2>4. CASE attempts' = attempts \cup {AttemptAt(header.from, None)}
    <3>1. \A a \in Announcement : Heard(a)' <=> Heard(a)
      BY <2>4, <2>1, <2>2 DEF Heard
    <3> QED BY <3>1, <1>2, NothingWaits, AbstractSteps
  <2>5. CASE queue # <<>> /\ queue' = Tail(queue)
    BY <2>5, <1>1
  <2> QED BY <2>3, <2>4, <2>5, ListenSteps, TailRefines
<1> QED BY <1>1, <1>2, ListenSteps

\* Every step is one of the abstract specification, or a stutter.
LEMMA NextRefines ==
    ASSUME Typed, Once, [Next]_vars
    PROVE  [L!Next]_<<Waiting, AllHeard>>
<1>1. ASSUME UNCHANGED <<queue, attempts>>
      PROVE  [L!Next]_<<Waiting, AllHeard>>
  BY <1>1, NothingHeard, NothingWaits, AbstractSteps
<1>2. CASE UNCHANGED vars
  BY <1>2, <1>1 DEF vars, listener
<1>3. ASSUME NEW s \in Sender, Begin(s)
      PROVE  [L!Next]_<<Waiting, AllHeard>>
  BY <1>3, <1>1 DEF Begin, listener
<1>4. ASSUME NEW s \in Sender, OpenSocket(s)
      PROVE  [L!Next]_<<Waiting, AllHeard>>
  BY <1>4, <1>1 DEF OpenSocket, listener
<1>5. ASSUME NEW s \in Sender, NEW part \in {"header", "body"}, NEW next, SendPart(s, part, next)
      PROVE  [L!Next]_<<Waiting, AllHeard>>
  <2> DEFINE d == [from |-> s, n |-> message[s].n, kind |-> message[s].kind, part |-> part]
  <2>1. attempts' = attempts /\ pc[s] # "idle" /\ (queue' = queue \/ queue' = Append(queue, d))
    BY <1>5 DEF SendPart, Transmit, listener
  <2>2. d = [from |-> s, n |-> message[s].n, kind |-> message[s].kind, part |-> part]
    OBVIOUS
  <2> HIDE DEF d
  <2>3. CASE queue' = queue
    BY <2>1, <2>3, <1>1
  <2>4. CASE queue' = Append(queue, d)
    BY <2>1, <2>2, <2>4, TransmitRefines
  <2> QED BY <2>1, <2>3, <2>4
<1>6. ASSUME NEW s \in Sender, SenderStep(s)
      PROVE  [L!Next]_<<Waiting, AllHeard>>
  BY <1>4, <1>5, <1>6 DEF SenderStep, SendMessage, SendHeader, SendBody
<1> QED BY <1>2, <1>3, <1>6, ListenRefines DEF Next

(***************************************************************************)
(* Header and body are as good as one datagram that may be lost: whatever  *)
(* of the two a listener misses, cuts off or pairs with something else, it *)
(* acts on a connect request at most once, and only if it was announced.   *)
(***************************************************************************)
THEOREM Refines == Spec => OneDatagram
<1>1. Init => L!Init
  BY InitRefines DEF L!Init, Waiting, AllHeard, Waits, Body
<1>2. Typed /\ Once /\ [Next]_vars =>
          [L!Next]_<<{a \in Announcement : \E i \in DOMAIN queue :
                         queue[i] = [from |-> a.from, n |-> a.n, kind |-> "connect", part |-> "body"]},
                     {a \in Announcement : Heard(a)}>>
  BY NextRefines DEF Waiting, AllHeard, Waits, Body
<1> QED BY <1>1, <1>2, Invariant, PTL DEF Spec, OneDatagram, L!Spec

-----------------------------------------------------------------------------
(***************************************************************************)
(* A calm listener.  The last datagrams of the socket are those of calm;   *)
(* the listener has taken Consumed() of them.  From the second on it is in *)
(* step: out of step, it takes the first header for a body or skips it,    *)
(* and skips the body, which is shorter than a header.                     *)
(***************************************************************************)
Part(i) == IF i % 2 = 1 THEN "header" ELSE "body"
DatagramOf(a, i) == [from |-> a.from, n |-> a.n, kind |-> "connect", part |-> Part(i)]

Consumed == Len(calm) - Len(queue)

Queued == \A j \in DOMAIN queue :
              j + Consumed >= 1 => queue[j] = DatagramOf(calm[j + Consumed], j + Consumed)
InStep ==
    /\ Consumed >= 2 /\ Consumed % 2 = 0 => header = None
    /\ Consumed >= 1 /\ Consumed % 2 = 1 =>
          \/ header # None /\ header.length = 2 /\ header.kind = "connect"
          \/ header = None /\ Consumed = 1
LastHeard ==
    Consumed >= 4 /\ Consumed % 2 = 0 /\ calm[Consumed].from # Self => Heard(calm[Consumed])

Recovering == Queued /\ InStep /\ LastHeard

\* Parity of consecutive numbers.
LEMMA Parity ==
    ASSUME NEW i \in Nat
    PROVE  /\ i % 2 \in {0, 1}
           /\ i % 2 = 0 <=> (i + 1) % 2 = 1
           /\ i % 2 = 1 <=> (i + 1) % 2 = 0
OBVIOUS

\* The lengths and elements that Recovering speaks of.
LEMMA CalmFacts ==
    ASSUME TypeOK
    PROVE  /\ queue \in Seq(Datagram) /\ calm \in Seq(Announcement)
           /\ Len(queue) \in Nat /\ Len(calm) \in Nat
           /\ DOMAIN queue = 1 .. Len(queue) /\ DOMAIN calm = 1 .. Len(calm)
           /\ queue = <<>> <=> Len(queue) = 0
           /\ Consumed \in Int /\ Consumed <= Len(calm)
           /\ Consumed >= 1 => Consumed \in DOMAIN calm
<1>1. queue \in Seq(Datagram) /\ calm \in Seq(Announcement)
  BY DEF TypeOK
<1>2. /\ Len(queue) \in Nat /\ Len(calm) \in Nat /\ DOMAIN queue = 1 .. Len(queue)
      /\ DOMAIN calm = 1 .. Len(calm) /\ (queue = <<>> <=> Len(queue) = 0)
  BY <1>1
<1> QED BY <1>1, <1>2 DEF Consumed

\* A disturbance: nothing is promised until two requests have come through.
LEMMA Disturbed ==
    ASSUME TypeOK', calm' = <<>>
    PROVE  Recovering'
<1>1. Len(queue') \in Nat /\ DOMAIN queue' = 1 .. Len(queue')
  <2>1. queue' \in Seq(Datagram)
    BY DEF TypeOK
  <2> QED BY <2>1
<1>2. Len(calm') = 0 /\ DOMAIN calm' = {}
  OBVIOUS
<1>3. Consumed' = 0 - Len(queue')
  BY <1>2 DEF Consumed
<1>4. Queued'
  BY <1>1, <1>3 DEF Queued
<1>5. InStep' /\ LastHeard'
  BY <1>1, <1>3 DEF InStep, LastHeard
<1> QED BY <1>4, <1>5 DEF Recovering

\* A step that does not touch what Recovering speaks of.
LEMMA Untouched ==
    ASSUME Recovering, UNCHANGED <<queue, calm, header, attempts>>
    PROVE  Recovering'
BY DEF Recovering, Queued, InStep, LastHeard, Consumed, DatagramOf, Part, Heard

\* A datagram arrives.
LEMMA Arrives ==
    ASSUME TypeOK, TypeOK', Recovering, NEW d \in Datagram, queue' = Append(queue, d), Track(d),
           UNCHANGED <<header, attempts>>
    PROVE  Recovering'
<1> DEFINE a == [from |-> d.from, n |-> d.n]
           c == Len(calm)
           q == Len(queue)
<1>1. /\ queue \in Seq(Datagram) /\ calm \in Seq(Announcement) /\ c \in Nat /\ q \in Nat
      /\ DOMAIN queue = 1 .. q /\ DOMAIN calm = 1 .. c
      /\ Consumed \in Int /\ Consumed <= c /\ (Consumed >= 1 => Consumed \in DOMAIN calm)
  BY CalmFacts
<1>2. a \in Announcement /\ a.from = d.from /\ a.n = d.n
  BY DEF Datagram, Announcement
<1>3. /\ Len(queue') = q + 1 /\ DOMAIN queue' = 1 .. q + 1
      /\ queue'[q + 1] = d /\ \A j \in 1 .. q : queue'[j] = queue[j]
  BY <1>1
<1>4. d = [from |-> a.from, n |-> a.n, kind |-> d.kind, part |-> d.part]
  BY DEF Datagram
<1>5. d.kind \in {"connect", "other"} /\ d.part \in {"header", "body"}
  BY DEF Datagram, Kind
<1> HIDE DEF a
<1>6. \/ calm' = <<>>
      \/ d.kind = "connect" /\ d.part = "header" /\ calm' = <<a>>
      \/ d.kind = "connect" /\ d.part = "header" /\ calm' = Append(calm, a) /\ c % 2 = 0
      \/ d.kind = "connect" /\ d.part = "body" /\ calm' = Append(calm, a) /\ c % 2 # 0
  <2>1. CASE d.kind = "other"
    BY <2>1 DEF Track
  <2>2. CASE d.kind = "connect" /\ d.part = "header"
    BY <2>2 DEF Track, a
  <2>3. CASE d.kind = "connect" /\ d.part = "body"
    BY <2>3 DEF Track, a
  <2> QED BY <1>5, <2>1, <2>2, <2>3
<1>7. CASE d.kind = "connect" /\ d.part = "header" /\ calm' = <<a>>
  <2>1. Len(calm') = 1 /\ DOMAIN calm' = {1} /\ calm'[1] = a
    BY <1>7
  <2>2. Consumed' = 0 - q
    BY <1>1, <1>3, <2>1 DEF Consumed
  <2>3. Queued'
    <3>1. ASSUME NEW j \in DOMAIN queue', j + Consumed' >= 1
          PROVE  queue'[j] = DatagramOf(calm'[j + Consumed'], j + Consumed')
      <4>1. j = q + 1 /\ j + Consumed' = 1
        BY <1>1, <1>3, <2>2, <3>1
      <4> QED BY <1>3, <1>4, <1>7, <2>1, <4>1 DEF DatagramOf, Part
    <3> QED BY <3>1 DEF Queued, DatagramOf, Part
  <2>4. InStep' /\ LastHeard'
    BY <1>1, <2>2 DEF InStep, LastHeard
  <2> QED BY <2>3, <2>4 DEF Recovering
<1>8. ASSUME d.kind = "connect", calm' = Append(calm, a), d.part = Part(c + 1)
      PROVE  Recovering'
  <2>1. /\ Len(calm') = c + 1 /\ DOMAIN calm' = 1 .. c + 1
        /\ calm'[c + 1] = a /\ \A i \in 1 .. c : calm'[i] = calm[i]
    BY <1>1, <1>2, <1>8
  <2>2. Consumed' = Consumed
    BY <1>1, <1>3, <2>1 DEF Consumed
  <2>3. Queued'
    <3>1. ASSUME NEW j \in DOMAIN queue', j + Consumed >= 1
          PROVE  queue'[j] = DatagramOf(calm'[j + Consumed], j + Consumed)
      <4>1. CASE j = q + 1
        <5>1. j + Consumed = c + 1
          BY <1>1, <4>1 DEF Consumed
        <5> QED BY <1>3, <1>4, <1>8, <2>1, <4>1, <5>1 DEF DatagramOf
      <4>2. CASE j \in DOMAIN queue
        <5>1. queue[j] = DatagramOf(calm[j + Consumed], j + Consumed)
          BY <3>1, <4>2 DEF Recovering, Queued
        <5>2. j + Consumed \in 1 .. c
          BY <1>1, <3>1, <4>2 DEF Consumed
        <5> QED BY <1>1, <1>3, <2>1, <4>2, <5>1, <5>2
      <4> QED BY <1>1, <1>3, <4>1, <4>2
    <3> QED BY <2>2, <3>1 DEF Queued, DatagramOf, Part
  <2>4. Consumed >= 1 => calm'[Consumed] = calm[Consumed]
    BY <1>1, <2>1
  <2>5. InStep'
    BY <2>2, <2>4 DEF Recovering, InStep
  <2>6. LastHeard'
    BY <1>1, <2>2, <2>4 DEF Recovering, LastHeard, Heard
  <2> QED BY <2>3, <2>5, <2>6 DEF Recovering
<1>9. CASE d.kind = "connect" /\ d.part = "header" /\ calm' = Append(calm, a) /\ c % 2 = 0
  BY <1>1, <1>8, <1>9, Parity DEF Part
<1>10. CASE d.kind = "connect" /\ d.part = "body" /\ calm' = Append(calm, a) /\ c % 2 # 0
  BY <1>1, <1>8, <1>10, Parity DEF Part
<1> QED BY <1>6, <1>7, <1>9, <1>10, Disturbed

\* What the listener finds at the head of the socket, when it is that of calm.
LEMMA TakesOne ==
    ASSUME TypeOK, TypeOK', Recovering, queue # <<>>, queue' = Tail(queue), calm' = calm
    PROVE  /\ Head(queue) \in Datagram /\ Consumed' = Consumed + 1 /\ Queued'
           /\ Consumed' >= 1 =>
                 /\ Head(queue) = DatagramOf(calm[Consumed'], Consumed')
                 /\ Consumed' \in DOMAIN calm
<1>1. /\ queue \in Seq(Datagram) /\ Len(queue) \in Nat \ {0} /\ DOMAIN queue = 1 .. Len(queue)
      /\ Consumed \in Int /\ DOMAIN calm = 1 .. Len(calm) /\ Len(calm) \in Nat
  BY CalmFacts
<1>2. /\ Head(queue) \in Datagram /\ Head(queue) = queue[1]
      /\ Len(queue') = Len(queue) - 1 /\ DOMAIN queue' = 1 .. Len(queue) - 1
      /\ \A j \in DOMAIN queue' : queue'[j] = queue[j + 1]
  BY <1>1
<1>3. Consumed' = Consumed + 1
  BY <1>1, <1>2 DEF Consumed
<1>4. ASSUME NEW j \in DOMAIN queue, j + Consumed >= 1
      PROVE  queue[j] = DatagramOf(calm[j + Consumed], j + Consumed)
  BY <1>4 DEF Recovering, Queued
<1>5. Queued'
  <2>1. ASSUME NEW j \in DOMAIN queue', j + (Consumed + 1) >= 1
        PROVE  queue'[j] = DatagramOf(calm[j + (Consumed + 1)], j + (Consumed + 1))
    <3>1. j + 1 \in DOMAIN queue /\ (j + 1) + Consumed = j + (Consumed + 1)
      BY <1>1, <1>2
    <3> QED BY <1>2, <1>4, <2>1, <3>1
  <2> QED BY <1>3, <2>1 DEF Queued, DatagramOf, Part
<1>6. ASSUME Consumed + 1 >= 1
      PROVE  /\ Head(queue) = DatagramOf(calm[Consumed + 1], Consumed + 1)
             /\ Consumed + 1 \in DOMAIN calm
  <2>1. 1 \in DOMAIN queue /\ 1 + Consumed = Consumed + 1
    BY <1>1
  <2>2. Consumed + 1 \in DOMAIN calm
    BY <1>1, <1>6 DEF Consumed
  <2> QED BY <1>2, <1>4, <1>6, <2>1, <2>2
<1> QED BY <1>2, <1>3, <1>5, <1>6

\* The first recvfrom().
LEMMA HeaderKeeps ==
    ASSUME TypeOK, TypeOK', Recovering, ReceiveHeader
    PROVE  Recovering'
<1> DEFINE d == Head(queue)
           k == Consumed + 1
<1>1. /\ header = None /\ queue # <<>> /\ queue' = Tail(queue) /\ UNCHANGED <<attempts, calm>>
      /\ header' \in IF d.part = "header"
                     THEN {[from |-> d.from, length |-> BodyLength(d.kind), kind |-> d.kind]}
                     ELSE IF Size(d) < HeaderLength THEN {None}
                     ELSE {h \in Headers : h.from = d.from}
  BY DEF ReceiveHeader
<1>2. /\ Consumed' = k /\ Queued' /\ Consumed \in Int /\ d \in Datagram
      /\ k >= 1 => d = DatagramOf(calm[k], k) /\ k \in DOMAIN calm
  BY <1>1, TakesOne, CalmFacts
<1> HIDE DEF d
<1>3. ASSUME k >= 1, k % 2 = 1
      PROVE  header' # None /\ header'.length = 2 /\ header'.kind = "connect"
  <2>1. d.part = "header" /\ d.kind = "connect" /\ d.from = calm[k].from
    BY <1>2, <1>3 DEF DatagramOf, Part
  <2>2. header' = [from |-> d.from, length |-> 2, kind |-> "connect"]
    BY <1>1, <2>1 DEF BodyLength
  <2>3. calm[k].from \in Sender
    <3>1. calm \in Seq(Announcement) /\ k \in DOMAIN calm
      BY <1>2, <1>3, CalmFacts
    <3>2. calm[k] \in Announcement
      BY <3>1, SeqFacts
    <3> QED BY <3>2 DEF Announcement
  <2>4. header' \in Headers
    BY <2>1, <2>2, <2>3 DEF Headers, Kind
  <2> QED BY <2>2, <2>4, ConstantsOK
<1>4. ASSUME k >= 1, k % 2 = 0
      PROVE  k = 2 /\ header' = None
  <2>1. Consumed \in Nat /\ Consumed % 2 = 1
    BY <1>2, <1>4, Parity
  <2>2. Consumed = 1
    BY <1>1, <2>1 DEF Recovering, InStep
  <2>3. d.part = "body" /\ d.kind = "connect"
    BY <1>2, <1>4 DEF DatagramOf, Part
  <2> QED BY <1>1, <2>2, <2>3 DEF Size, BodyLength, HeaderLength
<1>5. InStep'
  BY <1>1, <1>2, <1>3, <1>4 DEF InStep
<1>6. LastHeard'
  BY <1>1, <1>2, <1>4 DEF LastHeard
<1> QED BY <1>2, <1>5, <1>6 DEF Recovering

\* The second recvfrom().
LEMMA BodyKeeps ==
    ASSUME TypeOK, TypeOK', Recovering, ReceiveBody
    PROVE  Recovering'
<1> DEFINE d == Head(queue)
           k == Consumed + 1
<1>1. /\ header # None /\ queue # <<>> /\ queue' = Tail(queue) /\ calm' = calm
      /\ header' = None
      /\ Size(d) < header.length \/ HandleRequest(header, d.from, d)
  BY DEF ReceiveBody, Dropped, Address
<1>2. /\ Consumed' = k /\ Queued' /\ Consumed \in Int /\ d \in Datagram
      /\ k >= 1 => d = DatagramOf(calm[k], k) /\ k \in DOMAIN calm
  BY <1>1, TakesOne, CalmFacts
<1> HIDE DEF d
<1>3. ASSUME k >= 1, k % 2 = 1
      PROVE  k = 1
  <2>1. Consumed \in Nat /\ Consumed % 2 = 0
    BY <1>2, <1>3, Parity
  <2>2. Consumed < 2
    BY <1>1, <2>1 DEF Recovering, InStep
  <2> QED BY <2>1, <2>2
<1>4. ASSUME k >= 1, k % 2 = 0, calm[k].from # Self
      PROVE  [address |-> calm[k].from, port |-> calm[k].from, n |-> calm[k].n] \in attempts'
  <2>1. Consumed \in Nat /\ Consumed % 2 = 1
    BY <1>2, <1>4, Parity
  <2>2. Consumed >= 1
    BY <2>1
  <2>3. header.length = 2 /\ header.kind = "connect"
    BY <1>1, <2>1, <2>2 DEF Recovering, InStep
  <2>4. d = [from |-> calm[k].from, n |-> calm[k].n, kind |-> "connect", part |-> "body"]
    BY <1>2, <1>4 DEF DatagramOf, Part
  <2>5. Size(d) = 2
    BY <2>4 DEF Size, BodyLength
  <2>6. HandleConnect(header, d.from, d)
    BY <1>1, <2>3, <2>5 DEF HandleRequest
  <2>7. attempts' = attempts \cup {AttemptAt(d.from, d)}
    BY <1>4, <2>3, <2>4, <2>6 DEF HandleConnect, BodyLength
  <2>8. d # None
    BY <1>2, ConstantsOK
  <2> QED BY <2>4, <2>7, <2>8 DEF AttemptAt
<1>5. InStep'
  BY <1>1, <1>2, <1>3 DEF InStep
<1>6. LastHeard'
  BY <1>1, <1>2, <1>4 DEF LastHeard, Heard
<1> QED BY <1>2, <1>5, <1>6 DEF Recovering

\* Every step keeps the listener on its way back.
LEMMA NextRecovers ==
    ASSUME Typed, Typed', Recovering, [Next]_vars
    PROVE  Recovering'
<1>1. TypeOK /\ TypeOK'
  BY DEF Typed
<1>2. CASE UNCHANGED vars
  BY <1>2, Untouched DEF vars, listener
<1>3. ASSUME NEW s \in Sender, Begin(s) \/ OpenSocket(s)
      PROVE  Recovering'
  BY <1>3, Untouched DEF Begin, OpenSocket, listener
<1>4. ASSUME NEW s \in Sender, NEW part \in {"header", "body"}, NEW next, SendPart(s, part, next)
      PROVE  Recovering'
  <2> DEFINE d == [from |-> s, n |-> message[s].n, kind |-> message[s].kind, part |-> part]
  <2>1. /\ header' = header /\ attempts' = attempts /\ pc[s] # "idle"
        /\ Transmit(d) \/ UNCHANGED <<queue, calm>>
    BY <1>4 DEF SendPart, listener
  <2>2. d \in Datagram
    BY <2>1 DEF Datagram, Typed, TypeOK
  <2> HIDE DEF d
  <2>3. CASE queue' = Append(queue, d) /\ Track(d)
    BY <1>1, <2>1, <2>2, <2>3, Arrives
  <2>4. CASE calm' = <<>>
    BY <1>1, <2>4, Disturbed
  <2>5. CASE UNCHANGED <<queue, calm>>
    BY <2>1, <2>5, Untouched
  <2> QED BY <2>1, <2>3, <2>4, <2>5 DEF Transmit
<1>5. CASE Listen
  <2>1. CASE ReceiveHeaderFails \/ ReceiveBodyFails
    BY <1>1, <2>1, Disturbed DEF ReceiveHeaderFails, ReceiveBodyFails
  <2> QED BY <1>1, <1>5, <2>1, HeaderKeeps, BodyKeeps DEF Listen
<1> QED BY <1>2, <1>3, <1>4, <1>5 DEF Next, SenderStep, SendMessage, SendHeader, SendBody

(***************************************************************************)
(* A listener that has got out of step, however that happened, recovers by *)
(* itself: of the connect requests that nothing disturbs any more it       *)
(* misses at most the first, for any number of senders and messages.       *)
(***************************************************************************)
THEOREM CalmRequestsHeard == Spec => []CalmRequestIsHeard
<1>1. Init => Recovering
  <2>1. ASSUME Init PROVE Recovering
    <3>1. queue = <<>> /\ calm = <<>>
      BY <2>1 DEF Init
    <3>2. Consumed = 0 /\ DOMAIN queue = {}
      BY <3>1 DEF Consumed
    <3> QED BY <3>2 DEF Recovering, Queued, InStep, LastHeard
  <2> QED BY <2>1
<1>2. Typed /\ Recovering => CalmRequestIsHeard
  <2>1. ASSUME Typed, Recovering, queue = <<>> PROVE Consumed = Len(calm)
    BY <2>1, CalmFacts DEF Typed, Consumed
  <2> QED BY <2>1 DEF Recovering, LastHeard, CalmRequestIsHeard
<1>3. Typed /\ Recovering /\ [Next]_vars => Typed' /\ Recovering'
  BY NextTyped, NextRecovers
<1> QED BY <1>1, <1>2, <1>3, InitTyped, PTL DEF Spec

=============================================================================
