------------------------ MODULE InternalLinkProofs ------------------------
(***************************************************************************)
(* Theorems about InternalLink, for every number of ids, threads and       *)
(* channel objects: its two ends implement RequestChannels and             *)
(* ResponseChannels, so that what is proved of these, against an arbitrary *)
(* peer, holds of the connection; and a response that gets into a wrong    *)
(* session comes from one of the same id that is over.                     *)
(***************************************************************************)
EXTENDS InternalLink, TLAPS

\* The theorems about the two modules, for this connection.
RP == INSTANCE RequestOwnershipProofs
          WITH inbox <- [c \in Channel |-> HideAll(inbox[c])],
               held <- Hide(held),
               fromPeer <- HideAll(fromPeer)
PP == INSTANCE ResponseChannelsProofs
          WITH Chan <- Channel, inStream <- toPeer, outStream <- fromPeer

\* The messages whose sessions are hidden keep their types, and the connection
\* is up at both ends or at neither.
Matched ==
    /\ inbox \in [Channel -> Seq(Q!Message)]
    /\ held \in Q!Message \cup {None}
    /\ conn = "up" <=> rConn = "up"

Typed == RP!Typed /\ PP!Typed /\ Matched

-----------------------------------------------------------------------------
(* Messages without their sessions.                                        *)

\* What hiding the session keeps of a message, ...
LEMMA HideMessage ==
    ASSUME NEW m \in Q!Message
    PROVE  /\ Hide(m) \in Q!Message
           /\ Hide(m) = Q!Msg(m.kind, m.id, None)
           /\ m # None
BY ConstantsOK DEF Hide, Q!Message, Q!Msg

\* ... and of a sequence of messages.
LEMMA HideSequence ==
    ASSUME NEW s \in Seq(Q!Message)
    PROVE  /\ HideAll(s) \in Seq(Q!Message)
           /\ Len(HideAll(s)) = Len(s)
           /\ HideAll(s) = <<>> <=> s = <<>>
           /\ \A m \in Q!Message : HideAll(Append(s, m)) = Append(HideAll(s), Hide(m))
           /\ s # <<>> => /\ Head(s) \in Q!Message
                          /\ Head(HideAll(s)) = Hide(Head(s))
                          /\ HideAll(Tail(s)) = Tail(HideAll(s))
<1>1. HideAll(s) \in Seq(Q!Message) /\ Len(HideAll(s)) = Len(s)
  <2>1. DOMAIN s = 1 .. Len(s) /\ Len(s) \in Nat
    OBVIOUS
  <2>2. \A k \in 1 .. Len(s) : s[k] \in Q!Message
    OBVIOUS
  <2>3. HideAll(s) = [k \in 1 .. Len(s) |-> Hide(s[k])]
    BY <2>1 DEF HideAll
  <2> QED BY <2>1, <2>2, <2>3, HideMessage
<1>2. \A k \in 1 .. Len(s) : HideAll(s)[k] = Hide(s[k])
  BY DEF HideAll
<1>3. ASSUME NEW m \in Q!Message
      PROVE  HideAll(Append(s, m)) = Append(HideAll(s), Hide(m))
  <2> DEFINE t == Append(HideAll(s), Hide(m))
  <2>1. DOMAIN Append(s, m) = 1 .. Len(s) + 1
    BY <1>3
  <2>2. t \in Seq(Q!Message) /\ Len(t) = Len(s) + 1
    BY <1>1, <1>3, HideMessage
  <2>3. \A k \in 1 .. Len(s) + 1 : t[k] = Hide(Append(s, m)[k])
    BY <1>1, <1>2, <1>3, HideMessage
  <2>4. t = [k \in 1 .. Len(s) + 1 |-> t[k]]
    <3> HIDE DEF t
    <3> QED BY <2>2
  <2>5. HideAll(Append(s, m)) = [k \in 1 .. Len(s) + 1 |-> Hide(Append(s, m)[k])]
    BY <2>1 DEF HideAll
  <2> QED BY <2>3, <2>4, <2>5
<1>4. ASSUME s # <<>>
      PROVE  /\ Head(s) \in Q!Message
             /\ Head(HideAll(s)) = Hide(Head(s))
             /\ HideAll(Tail(s)) = Tail(HideAll(s))
  <2> DEFINE t == Tail(HideAll(s))
  <2>1. Head(s) \in Q!Message /\ Head(HideAll(s)) = Hide(Head(s))
    BY <1>1, <1>2, <1>4
  <2>2. DOMAIN Tail(s) = 1 .. Len(s) - 1
    BY <1>4
  <2>3. t \in Seq(Q!Message) /\ Len(t) = Len(s) - 1
    BY <1>1, <1>4
  <2>4. \A k \in 1 .. Len(s) - 1 : t[k] = Hide(Tail(s)[k])
    BY <1>1, <1>2, <1>4
  <2>5. t = [k \in 1 .. Len(s) - 1 |-> t[k]]
    <3> HIDE DEF t
    <3> QED BY <2>3
  <2>6. HideAll(Tail(s)) = [k \in 1 .. Len(s) - 1 |-> Hide(Tail(s)[k])]
    BY <2>2 DEF HideAll
  <2> QED BY <2>1, <2>4, <2>5, <2>6
<1>5. HideAll(s) = <<>> <=> s = <<>>
  <2>1. \A x \in Seq(Q!Message) : x = <<>> <=> Len(x) = 0
    OBVIOUS
  <2> QED BY <1>1, <2>1, Zenon
<1> QED BY <1>1, <1>3, <1>4, <1>5

-----------------------------------------------------------------------------
(* The instances.                                                          *)

\* The two instances of RequestChannels have the same steps, ...
LEMMA SameRequester ==
    (R!Init => RP!Init) /\ ([R!Next]_R!vars => [RP!Next]_RP!vars)
BY ZenonT(60) DEF R!Id, RP!Id, R!Thread, RP!Thread, R!Kind, RP!Kind, R!Message, RP!Message,
    R!Msg, RP!Msg, R!manager, RP!manager, R!objects, RP!objects, R!threads, RP!threads,
    R!network, RP!network, R!vars, RP!vars, R!CreateLabels, RP!CreateLabels,
    R!RemoveLabels, RP!RemoveLabels, R!AllIds, RP!AllIds, R!Init, RP!Init, R!At, RP!At,
    R!GoTo, RP!GoTo, R!Fail, RP!Fail, R!Fresh, RP!Fresh, R!InWindow, RP!InWindow,
    R!Referenced, RP!Referenced, R!Emit, RP!Emit, R!Finish, RP!Finish,
    R!SendRequest, RP!SendRequest, R!Deref, RP!Deref, R!Acquire, RP!Acquire,
    R!Pop, RP!Pop, R!Install, RP!Install, R!Fetch, RP!Fetch, R!Create, RP!Create,
    R!UseNull, RP!UseNull, R!Write, RP!Write, R!Send, RP!Send,
    R!BeginRead, RP!BeginRead, R!Read, RP!Read, R!ReadTimesOut, RP!ReadTimesOut,
    R!Terminate, RP!Terminate, R!Use, RP!Use, R!CloseCheck, RP!CloseCheck,
    R!OwnEnd, RP!OwnEnd, R!SendEnd, RP!SendEnd, R!MarkClosed, RP!MarkClosed,
    R!Close, RP!Close, R!RemoveCheck, RP!RemoveCheck, R!RemoveLoad, RP!RemoveLoad,
    R!RemoveStore, RP!RemoveStore, R!Push, RP!Push, R!Release, RP!Release,
    R!Remove, RP!Remove, R!UseFreed, RP!UseFreed, R!ReceiveEnd, RP!ReceiveEnd,
    R!ReceiveResponse, RP!ReceiveResponse, R!Deliver, RP!Deliver, R!Enqueue, RP!Enqueue,
    R!HangUp, RP!HangUp, R!TableOnly, RP!TableOnly, R!Destroy, RP!Destroy, R!Forward, RP!Forward, R!PeerReads, RP!PeerReads,
    R!PeerSends, RP!PeerSends, R!PeerHangsUp, RP!PeerHangsUp, R!Peer, RP!Peer,
    R!UserStep, RP!UserStep, R!ReaderStep, RP!ReaderStep, R!Next, RP!Next

\* ... and so have those of ResponseChannels.
LEMMA SameResponder ==
    (P!Init => PP!Init) /\ ([P!Next]_P!rVars => [PP!Next]_PP!rVars)
BY DEF P!Id, PP!Id, P!Thread, PP!Thread, P!Kind, PP!Kind, P!Message, PP!Message,
    P!Msg, PP!Msg, P!rManager, PP!rManager, P!rObjects, PP!rObjects,
    P!rThreads, PP!rThreads, P!rNetwork, PP!rNetwork, P!rVars, PP!rVars,
    P!RemoveLabels, PP!RemoveLabels, P!CloseLabels, PP!CloseLabels, P!Init, PP!Init,
    P!At, PP!At, P!GoTo, PP!GoTo, P!Fail, PP!Fail, P!Fresh, PP!Fresh,
    P!InWindow, PP!InWindow, P!Referenced, PP!Referenced, P!Emit, PP!Emit,
    P!LastId, PP!LastId, P!Finish, PP!Finish, P!ReceiveEnd, PP!ReceiveEnd,
    P!ReceiveRequest, PP!ReceiveRequest, P!Install, PP!Install, P!Push, PP!Push,
    P!Enqueue, PP!Enqueue, P!Result, PP!Result, P!Spawn, PP!Spawn, P!HangUp, PP!HangUp,
    P!Forward, PP!Forward, P!BeginRead, PP!BeginRead, P!Read, PP!Read,
    P!ReadTimesOut, PP!ReadTimesOut, P!Write, PP!Write, P!Send, PP!Send,
    P!Return, PP!Return, P!Handle, PP!Handle, P!CloseCheck, PP!CloseCheck,
    P!OwnEnd, PP!OwnEnd, P!SendEnd, PP!SendEnd, P!MarkClosed, PP!MarkClosed,
    P!Close, PP!Close, P!RemoveCheck, PP!RemoveCheck, P!RemoveLoad, PP!RemoveLoad,
    P!RemoveStore, PP!RemoveStore, P!Remove, PP!Remove, P!UseFreed, PP!UseFreed,
    P!PeerReads, PP!PeerReads, P!PeerSends, PP!PeerSends, P!PeerHangsUp, PP!PeerHangsUp,
    P!Peer, PP!Peer, P!HandlerStep, PP!HandlerStep, P!ReaderStep, PP!ReaderStep,
    P!Next, PP!Next

\* All instances speak of the same ids, messages and threads.
LEMMA Alphabet ==
    /\ Q!Id = RP!Id /\ Q!Id = PP!Id /\ Q!Id = P!Id /\ Q!Id = R!Id
    /\ Q!Message = RP!Message /\ Q!Message = PP!Message
    /\ Q!Thread = RP!Thread /\ Q!Thread = User \cup {Reader} /\ P!Thread = Handler \cup {Reader}
    /\ PP!Thread = P!Thread
    /\ \A k, i, c : P!Msg(k, i, c) = Q!Msg(k, i, c) /\ R!Msg(k, i, c) = Q!Msg(k, i, c)
BY DEF Q!Id, P!Id, R!Id, RP!Id, PP!Id, Q!Message, RP!Message, PP!Message, Q!Kind,
    RP!Kind, PP!Kind,
       Q!Thread, RP!Thread, P!Thread, PP!Thread, Q!Msg, P!Msg, R!Msg

\* What the types say of the requesting end, ...
LEMMA RequesterTypes ==
    ASSUME Typed
    PROVE  /\ chanId \in [Channel -> Q!Id \cup {None}]
           /\ pc \in [Q!Thread -> RP!Labels]
           /\ req \in [User -> Channel \cup {None}]
           /\ ch \in [Q!Thread -> Channel \cup {None}]
           /\ toPeer \in Seq(Q!Message) /\ fromPeer \in Seq(Q!Message)
           /\ \A u \in User : pc[u] \in {"send", "read"} =>
                  req[u] \in Channel /\ chanId[req[u]] \in Q!Id
           /\ \A t \in Q!Thread : pc[t] \in {"end", "enqueue"} =>
                  ch[t] \in Channel /\ chanId[ch[t]] \in Q!Id
<1>1. RP!TypeOK /\ PP!TypeOK /\ RP!PointersOK
  BY DEF Typed, RP!Typed, PP!Typed
<1>2. /\ chanId \in [Channel -> Q!Id \cup {None}]
      /\ pc \in [Q!Thread -> RP!Labels]
      /\ req \in [User -> Channel \cup {None}]
      /\ ch \in [Q!Thread -> Channel \cup {None}]
      /\ toPeer \in Seq(Q!Message) /\ fromPeer \in Seq(Q!Message)
  BY <1>1, Alphabet DEF RP!TypeOK, PP!TypeOK
<1>3. /\ \A u \in User : pc[u] \in {"send", "read"} => req[u] # None
      /\ \A u \in User : req[u] # None => chanId[req[u]] # None
      /\ \A t \in Q!Thread : pc[t] \in {"end", "enqueue"} => ch[t] # None
      /\ \A t \in Q!Thread : ch[t] # None => chanId[ch[t]] # None
  BY <1>1, Alphabet DEF RP!PointersOK
<1> QED BY <1>2, <1>3

\* ... and of the responding end.
LEMMA ResponderTypes ==
    ASSUME Typed
    PROVE  /\ rId \in [RChannel -> Q!Id \cup {None}]
           /\ session \in [RChannel -> Channel \cup {None}]
           /\ \A h \in Handler : rpc[h] = "send" => rreq[h] \in RChannel /\ rId[rreq[h]] \in Q!Id
           /\ \A t \in P!Thread : rpc[t] = "end" => rch[t] \in RChannel /\ rId[rch[t]] \in Q!Id
<1>1. PP!TypeOK /\ PP!Pointers /\ PP!Objects
  BY DEF Typed, PP!Typed
<1>2. /\ rId \in [RChannel -> Q!Id \cup {None}]
      /\ session \in [RChannel -> Channel \cup {None}]
      /\ rreq \in [Handler -> RChannel \cup {None}]
      /\ rch \in [P!Thread -> RChannel \cup {None}]
  BY <1>1, Alphabet DEF PP!TypeOK
<1>3. /\ \A h \in Handler : rpc[h] = "send" => rreq[h] # None
      /\ \A h \in Handler : rreq[h] # None => rId[rreq[h]] # None
      /\ \A t \in P!Thread : rpc[t] = "end" => rch[t] # None
      /\ \A t \in P!Thread : rch[t] # None => rId[rch[t]] # None
  BY <1>1, Alphabet DEF PP!Pointers, PP!Objects
<1> QED BY <1>2, <1>3

-----------------------------------------------------------------------------
(* The steps of the requester, without the sessions of messages.           *)

\* What RequesterSpec hides.
Hidden == <<[c \in Channel |-> HideAll(inbox[c])], Hide(held), HideAll(fromPeer)>>

\* Steps that do not look at messages do not see what is hidden.
LEMMA Unread ==
    ASSUME UNCHANGED <<inbox, held, fromPeer>>
    PROVE  UNCHANGED Hidden
BY DEF Hidden

\* Opening a request, ...
LEMMA CreateSame ==
    ASSUME NEW u \in User, Q!Create(u)
    PROVE  R!Create(u)
<1>1. UNCHANGED <<inbox, held, fromPeer>>
  BY DEF Q!manager, Q!objects, Q!threads, Q!network, Q!Create, Q!SendRequest, Q!Deref,
      Q!Acquire, Q!Pop, Q!Install, Q!Fetch, Q!GoTo, Q!Fail
<1>2. UNCHANGED Hidden
  BY <1>1, Unread
<1> QED BY <1>2 DEF Hidden, Q!manager, R!manager, Q!objects, R!objects, Q!threads,
      R!threads, Q!network, R!network, Q!Create, R!Create, Q!SendRequest, R!SendRequest,
      Q!Deref, R!Deref, Q!Acquire, R!Acquire, Q!Pop, R!Pop, Q!Install, R!Install,
      Q!Fetch, R!Fetch, Q!GoTo, R!GoTo, Q!Fail, R!Fail, Q!At, R!At, Q!CreateLabels,
      R!CreateLabels, Q!RemoveLabels, R!RemoveLabels, Q!Fresh, R!Fresh, Q!Id, R!Id

\* ... using it, except for reading, ...
LEMMA UseSame ==
    ASSUME NEW u \in User,
           \/ Q!UseNull(u) \/ Q!Write(u) \/ Q!Send(u)
           \/ Q!BeginRead(u) \/ Q!ReadTimesOut(u) \/ Q!Terminate(u)
    PROVE  R!Use(u)
<1>1. UNCHANGED <<inbox, held, fromPeer>>
  BY DEF Q!manager, Q!objects, Q!threads, Q!network, Q!UseNull, Q!Write, Q!Send,
      Q!BeginRead, Q!ReadTimesOut, Q!Terminate, Q!GoTo, Q!Fail, Q!Emit
<1>2. UNCHANGED Hidden
  BY <1>1, Unread
<1> QED BY <1>2 DEF Hidden, Q!manager, R!manager, Q!objects, R!objects, Q!threads,
      R!threads, Q!network, R!network, Q!UseNull, R!UseNull, Q!Write, R!Write, Q!Send,
      R!Send, Q!BeginRead, R!BeginRead, Q!ReadTimesOut, R!ReadTimesOut, Q!Terminate,
      R!Terminate, Q!GoTo, R!GoTo, Q!Fail, R!Fail, Q!Emit, R!Emit, Q!Msg, R!Msg, Q!Use,
      R!Use

\* ... close(), ...
LEMMA CloseSame ==
    ASSUME NEW t \in Q!Thread, Q!Close(t)
    PROVE  R!Close(t)
<1>1. UNCHANGED <<inbox, held, fromPeer>>
  BY DEF Q!manager, Q!objects, Q!threads, Q!network, Q!Close, Q!CloseCheck, Q!SendEnd,
      Q!MarkClosed, Q!GoTo, Q!Fail, Q!Finish, Q!Emit
<1>2. UNCHANGED Hidden
  BY <1>1, Unread
<1> QED BY <1>2 DEF Hidden, Q!manager, R!manager, Q!objects, R!objects, Q!threads,
      R!threads, Q!network, R!network, Q!Close, R!Close, Q!CloseCheck, R!CloseCheck,
      Q!SendEnd, R!SendEnd, Q!MarkClosed, R!MarkClosed, Q!GoTo, R!GoTo, Q!Fail, R!Fail,
      Q!Finish, R!Finish, Q!Emit, R!Emit, Q!Msg, R!Msg, Q!OwnEnd, R!OwnEnd

\* ... removeRequestChannel() ...
LEMMA RemoveSame ==
    ASSUME NEW t \in Q!Thread, Q!Remove(t)
    PROVE  R!Remove(t)
<1>1. UNCHANGED <<inbox, held, fromPeer>>
  BY DEF Q!manager, Q!objects, Q!threads, Q!network, Q!Remove, Q!RemoveCheck,
      Q!RemoveLoad, Q!RemoveStore, Q!Push, Q!Release, Q!GoTo, Q!Fail, Q!Finish
<1>2. UNCHANGED Hidden
  BY <1>1, Unread
<1> QED BY <1>2 DEF Hidden, Q!manager, R!manager, Q!objects, R!objects, Q!threads,
      R!threads, Q!network, R!network, Q!Remove, R!Remove, Q!RemoveCheck, R!RemoveCheck,
      Q!RemoveLoad, R!RemoveLoad, Q!RemoveStore, R!RemoveStore, Q!Push, R!Push,
      Q!Release, R!Release, Q!GoTo, R!GoTo, Q!Fail, R!Fail, Q!Finish, R!Finish, Q!At,
      R!At, Q!CreateLabels, R!CreateLabels, Q!RemoveLabels, R!RemoveLabels, Q!InWindow,
      R!InWindow, Q!Thread, R!Thread

\* ... and its use after the manager is gone.
LEMMA UseFreedSame ==
    ASSUME NEW u \in User, Q!UseFreed(u)
    PROVE  R!UseFreed(u)
<1>1. UNCHANGED <<inbox, held, fromPeer>>
  BY DEF Q!manager, Q!objects, Q!threads, Q!network, Q!UseFreed, Q!Fail
<1>2. UNCHANGED Hidden
  BY <1>1, Unread
<1> QED BY <1>2 DEF Hidden, Q!manager, R!manager, Q!objects, R!objects, Q!threads,
      R!threads, Q!network, R!network, Q!UseFreed, R!UseFreed, Q!Fail, R!Fail,
      Q!CreateLabels, R!CreateLabels, Q!RemoveLabels, R!RemoveLabels

\* The destructor destroys the members of the manager.
LEMMA DestroySame ==
    ASSUME Q!Destroy
    PROVE  R!Destroy /\ UNCHANGED <<inbox, held>>
<1>1. UNCHANGED <<inbox, held, fromPeer>>
  BY DEF Q!Destroy, Q!network
<1>2. UNCHANGED Hidden
  BY <1>1, Unread
<1> QED BY <1>1, <1>2 DEF Hidden, Q!Destroy, R!Destroy, Q!TableOnly, R!TableOnly,
      Q!GoTo, R!GoTo, Q!network, R!network, Q!Id, R!Id

\* One inbox changes: so does its hidden image.
LEMMA InboxHidden ==
    ASSUME inbox \in [Channel -> Seq(Q!Message)], NEW c \in Channel, NEW s \in Seq(Q!Message),
           inbox' = [inbox EXCEPT ![c] = s]
    PROVE  /\ inbox' \in [Channel -> Seq(Q!Message)]
           /\ [d \in Channel |-> HideAll(inbox[d])]'
                = [[d \in Channel |-> HideAll(inbox[d])] EXCEPT ![c] = HideAll(s)]
<1>1. \A d \in Channel : inbox'[d] = IF d = c THEN s ELSE inbox[d]
  OBVIOUS
<1>2. [d \in Channel |-> HideAll(inbox[d])]' = [d \in Channel |-> HideAll(inbox'[d])]
  OBVIOUS
<1> QED BY <1>1, <1>2

\* receiveMessage takes the oldest message, with its session or without.
LEMMA ReadSame ==
    ASSUME Typed, NEW u \in User, Q!Read(u)
    PROVE  R!Read(u) /\ inbox' \in [Channel -> Seq(Q!Message)]
<1> DEFINE c == req[u]
<1>1. c \in Channel /\ inbox[c] \in Seq(Q!Message) /\ inbox \in [Channel -> Seq(Q!Message)]
  BY RequesterTypes DEF Q!Read, Typed, Matched
<1>2. UNCHANGED <<held, fromPeer>>
  BY DEF Q!Read, Q!network
<1>3. UNCHANGED <<Hide(held), HideAll(fromPeer)>>
  BY <1>2
<1>4. CASE inbox[c] # <<>> /\ inbox' = [inbox EXCEPT ![c] = Tail(@)]
  <2>1. Tail(inbox[c]) \in Seq(Q!Message)
    BY <1>1, <1>4
  <2>2. inbox' = [inbox EXCEPT ![c] = Tail(inbox[c])]
    BY <1>4
  <2>3. /\ HideAll(Tail(inbox[c])) = Tail(HideAll(inbox[c]))
        /\ HideAll(inbox[c]) # <<>>
    BY <1>1, <1>4, HideSequence
  <2> HIDE DEF c
  <2>4. [d \in Channel |-> HideAll(inbox[d])]'
           = [[d \in Channel |-> HideAll(inbox[d])] EXCEPT ![c] = Tail(@)]
    BY <1>1, <2>1, <2>2, <2>3, InboxHidden
  <2>5. [d \in Channel |-> HideAll(inbox[d])][c] # <<>>
    BY <1>1, <2>3
  <2>6. inbox' \in [Channel -> Seq(Q!Message)]
    BY <1>1, <2>1, <2>2
  <2> QED BY <1>3, <2>4, <2>5, <2>6
        DEF c, Q!Read, R!Read, Q!GoTo, R!GoTo, Q!manager, R!manager, Q!network, R!network
<1>5. CASE bufClosed[c] /\ UNCHANGED inbox
  <2>1. UNCHANGED [d \in Channel |-> HideAll(inbox[d])]
    BY <1>5
  <2> QED BY <1>1, <1>3, <1>5, <2>1
        DEF Q!Read, R!Read, Q!GoTo, R!GoTo, Q!manager, R!manager, Q!network, R!network
<1> QED BY <1>4, <1>5 DEF Q!Read

\* The reader dispatches on kind and id, which are not hidden, ...
LEMMA ReceiveSame ==
    ASSUME Typed, Q!ReceiveEnd \/ Q!ReceiveResponse
    PROVE  (R!ReceiveEnd \/ R!ReceiveResponse) /\ held' \in Q!Message \cup {None}
<1>1. fromPeer \in Seq(Q!Message) /\ fromPeer # <<>> /\ held \in Q!Message \cup {None}
  BY RequesterTypes DEF Q!ReceiveEnd, Q!ReceiveResponse, Typed, Matched
<1> DEFINE m == Head(fromPeer)
<1>2. m \in Q!Message /\ Head(HideAll(fromPeer)) = Hide(m) /\ HideAll(fromPeer) # <<>>
  BY <1>1, HideSequence
<1>3. Hide(m).kind = m.kind /\ Hide(m).id = m.id
  BY <1>2, HideMessage DEF Q!Msg
<1>4. fromPeer' = Tail(fromPeer) /\ UNCHANGED inbox
  BY DEF Q!ReceiveEnd, Q!ReceiveResponse, Q!objects
<1>5. /\ HideAll(fromPeer)' = Tail(HideAll(fromPeer))
      /\ UNCHANGED [c \in Channel |-> HideAll(inbox[c])]
  BY <1>1, <1>4, HideSequence
<1>6. CASE Q!ReceiveEnd
  <2>1. UNCHANGED held /\ UNCHANGED Hide(held)
    BY <1>6 DEF Q!ReceiveEnd
  <2> QED BY <1>1, <1>2, <1>3, <1>5, <1>6, <2>1
        DEF Q!ReceiveEnd, R!ReceiveEnd, Q!GoTo, R!GoTo, Q!manager, R!manager, Q!objects, R!objects
<1>7. CASE Q!ReceiveResponse
  <2>1. held' = m \/ held' = held
    BY <1>7 DEF Q!ReceiveResponse
  <2>2. held' = m => Hide(held)' = Head(HideAll(fromPeer))
    BY <1>2
  <2>3. held' = held => UNCHANGED Hide(held)
    OBVIOUS
  <2> QED BY <1>1, <1>2, <1>3, <1>5, <1>7, <2>1, <2>2, <2>3
        DEF Q!ReceiveResponse, R!ReceiveResponse, Q!GoTo, R!GoTo, Q!manager, R!manager,
            Q!objects, R!objects
<1> QED BY <1>6, <1>7

\* ... finds the channel, ...
LEMMA DeliverSame ==
    ASSUME Q!Deliver
    PROVE  R!Deliver
<1>1. UNCHANGED <<inbox, held, fromPeer>>
  BY DEF Q!Deliver, Q!Fail, Q!objects, Q!threads, Q!network
<1>2. UNCHANGED Hidden
  BY <1>1, Unread
<1> QED BY <1>2 DEF Hidden, Q!Deliver, R!Deliver, Q!Fail, R!Fail, Q!GoTo, R!GoTo,
      Q!manager, R!manager,
              Q!objects, R!objects, Q!threads, R!threads, Q!network, R!network

\* ... and puts the message into its buffer.
LEMMA EnqueueSame ==
    ASSUME Typed, Q!Enqueue
    PROVE  R!Enqueue /\ inbox' \in [Channel -> Seq(Q!Message)] /\ held' \in {held, None}
<1> DEFINE c == ch[Reader]
<1>1. c \in Channel /\ inbox \in [Channel -> Seq(Q!Message)]
  BY RequesterTypes, Alphabet DEF Q!Enqueue, Typed, Matched
<1>2. held \in Q!Message
  BY Alphabet DEF Q!Enqueue, Typed, Matched, RP!Typed, RP!PointersOK, Hide
<1>3. Q!Referenced(c) <=> R!Referenced(c)
  BY DEF Q!Referenced, R!Referenced, Q!Id, R!Id
<1>4. CASE ~Q!Referenced(c)
  <2>1. Q!Fail("freed")
    BY <1>4 DEF Q!Enqueue
  <2>2. UNCHANGED <<inbox, held, fromPeer>>
    BY <2>1 DEF Q!Fail, Q!objects, Q!threads, Q!network
  <2>3. UNCHANGED Hidden
    BY <2>2, Unread
  <2>4. R!Fail("freed")
    BY <2>1, <2>3 DEF Hidden, Q!Fail, R!Fail, Q!manager, R!manager,
          Q!objects, R!objects, Q!threads, R!threads, Q!network, R!network
  <2> QED BY <1>1, <1>3, <1>4, <2>2, <2>4 DEF Q!Enqueue, R!Enqueue
<1>5. CASE Q!Referenced(c)
  <2>1. held' = None /\ UNCHANGED fromPeer
    BY <1>5 DEF Q!Enqueue, Q!network
  <2>2. Hide(held)' = None /\ UNCHANGED HideAll(fromPeer)
    BY <2>1 DEF Hide
  <2>3. CASE isClosed[c] \/ bufClosed[c]
    <3>1. UNCHANGED inbox
      BY <1>5, <2>3 DEF Q!Enqueue
    <3>2. UNCHANGED [d \in Channel |-> HideAll(inbox[d])]
      BY <3>1
    <3> QED BY <1>1, <1>3, <1>5, <2>1, <2>2, <2>3, <3>1, <3>2
          DEF Q!Enqueue, R!Enqueue, Q!GoTo, R!GoTo, Q!manager, R!manager, Q!network, R!network
  <2>4. CASE ~(isClosed[c] \/ bufClosed[c])
    <3>1. inbox' = [inbox EXCEPT ![c] = Append(inbox[c], held)]
      BY <1>5, <2>4 DEF Q!Enqueue
    <3>2. Append(inbox[c], held) \in Seq(Q!Message)
      BY <1>1, <1>2
    <3>3. HideAll(Append(inbox[c], held)) = Append(HideAll(inbox[c]), Hide(held))
      BY <1>1, <1>2, HideSequence
    <3> HIDE DEF c
    <3>4. /\ inbox' \in [Channel -> Seq(Q!Message)]
          /\ [d \in Channel |-> HideAll(inbox[d])]'
               = [[d \in Channel |-> HideAll(inbox[d])] EXCEPT ![c] = Append(@, Hide(held))]
      BY <1>1, <3>1, <3>2, <3>3, InboxHidden
    <3> QED BY <1>1, <1>3, <1>5, <2>1, <2>2, <2>4, <3>4
          DEF c, Q!Enqueue, R!Enqueue, Q!GoTo, R!GoTo, Q!manager, R!manager, Q!network, R!network
  <2> QED BY <2>3, <2>4
<1> QED BY <1>4, <1>5

\* The reader gives the connection up.
LEMMA HangUpSame ==
    ASSUME Typed, Q!HangUp
    PROVE  R!HangUp
<1>1. fromPeer \in Seq(Q!Message)
  BY RequesterTypes
<1>2. HideAll(fromPeer) = <<>> <=> fromPeer = <<>>
  BY <1>1, HideSequence
<1>3. fromPeer' = <<>> /\ UNCHANGED <<inbox, held>>
  BY DEF Q!HangUp, Q!objects
<1>4. <<>> \in Seq(Q!Message) /\ HideAll(<<>>) = <<>>
  <2>1. <<>> \in Seq(Q!Message)
    OBVIOUS
  <2> QED BY <2>1, HideSequence
<1>5. /\ HideAll(fromPeer)' = <<>>
      /\ UNCHANGED <<[c \in Channel |-> HideAll(inbox[c])], Hide(held)>>
  BY <1>3, <1>4
<1> QED BY <1>2, <1>5 DEF Q!HangUp, R!HangUp, Q!GoTo, R!GoTo, Q!manager, R!manager,
              Q!objects, R!objects

-----------------------------------------------------------------------------
(* What the steps of one end do to the two streams.                        *)

\* A message of one of the kinds K is sent.
Requests(K) ==
    /\ conn = "up" /\ Len(toPeer) < Cap
    /\ \E k \in K, c \in Channel :
          chanId[c] \in Q!Id /\ toPeer' = Append(toPeer, Q!Msg(k, chanId[c], c))
Responds(K) ==
    /\ rConn = "up" /\ Len(fromPeer) < Cap
    /\ \E k \in K, r \in RChannel :
          /\ rId[r] \in Q!Id /\ session[r] \in Channel \cup {None}
          /\ fromPeer' = Append(fromPeer, Q!Msg(k, rId[r], session[r]))

\* close() at the requesting end sends at most the end of the request.
LEMMA CloseRequests ==
    ASSUME Typed, NEW t \in Q!Thread, Q!Close(t) \/ Q!Remove(t)
    PROVE  /\ UNCHANGED <<conn, fromPeer>>
           /\ toPeer' = toPeer \/ Requests({"RequestEnd"})
<1>1. CASE Q!SendEnd(t)
  <2>1. ch[t] \in Channel /\ chanId[ch[t]] \in Q!Id
    BY <1>1, RequesterTypes DEF Q!SendEnd
  <2>2. \/ toPeer' = toPeer
        \/ /\ conn = "up" /\ Len(toPeer) < Cap
           /\ toPeer' = Append(toPeer, Q!Msg("RequestEnd", chanId[ch[t]], ch[t]))
    BY <1>1 DEF Q!SendEnd, Q!Emit, Q!OwnEnd
  <2>3. UNCHANGED <<conn, fromPeer>>
    BY <1>1 DEF Q!SendEnd
  <2> QED BY <2>1, <2>2, <2>3 DEF Requests
<1>2. CASE Q!CloseCheck(t) \/ Q!MarkClosed(t) \/ Q!Remove(t)
  BY <1>2 DEF Q!CloseCheck, Q!MarkClosed, Q!Remove, Q!RemoveCheck, Q!RemoveLoad,
      Q!RemoveStore,
              Q!Push, Q!Release, Q!Fail, Q!network
<1> QED BY <1>1, <1>2 DEF Q!Close

\* An application thread sends a request or the end of one, and reads nothing.
LEMMA UserRequests ==
    ASSUME Typed, NEW u \in User, UserStep(u)
    PROVE  /\ UNCHANGED <<conn, fromPeer>>
           /\ \/ UNCHANGED toPeer
              \/ RoomAtResponder /\ Requests({"Request"})
              \/ Requests({"RequestEnd"})
<1>0. u \in Q!Thread
  BY DEF Q!Thread
<1>1. CASE RoomAtResponder /\ Q!Send(u)
  <2>1. req[u] \in Channel /\ chanId[req[u]] \in Q!Id
    BY <1>1, RequesterTypes DEF Q!Send
  <2>2. \/ toPeer' = toPeer
        \/ /\ conn = "up" /\ Len(toPeer) < Cap
           /\ toPeer' = Append(toPeer, Q!Msg("Request", chanId[req[u]], req[u]))
    BY <1>1 DEF Q!Send, Q!Emit
  <2>3. UNCHANGED <<conn, fromPeer>>
    BY <1>1 DEF Q!Send
  <2> QED BY <1>1, <2>1, <2>2, <2>3 DEF Requests
<1>2. CASE Q!Close(u) \/ Q!Remove(u)
  BY <1>0, <1>2, CloseRequests
<1>3. CASE \/ Q!Create(u) \/ Q!UseNull(u) \/ Q!Write(u) \/ Q!BeginRead(u) \/ Q!Read(u)
           \/ Q!ReadTimesOut(u) \/ Q!Terminate(u) \/ Q!UseFreed(u)
  BY <1>3 DEF Q!Create, Q!SendRequest, Q!Deref, Q!Acquire, Q!Pop, Q!Install, Q!Fetch,
              Q!UseNull, Q!Write, Q!BeginRead, Q!Read, Q!ReadTimesOut, Q!Terminate, Q!UseFreed,
              Q!Fail, Q!network
<1> QED BY <1>1, <1>2, <1>3 DEF UserStep

\* The reader takes one message, or sends the end of a request.
LEMMA ReaderRequests ==
    ASSUME Typed, RequesterReads
    PROVE  /\ UNCHANGED conn
           /\ \/ UNCHANGED <<toPeer, fromPeer>>
              \/ fromPeer # <<>> /\ fromPeer' = Tail(fromPeer) /\ UNCHANGED toPeer
              \/ Requests({"RequestEnd"}) /\ UNCHANGED fromPeer
<1>1. CASE Q!ReceiveEnd \/ Q!ReceiveResponse
  BY <1>1 DEF Q!ReceiveEnd, Q!ReceiveResponse
<1>2. CASE Q!Deliver \/ Q!Enqueue
  BY <1>2 DEF Q!Deliver, Q!Enqueue, Q!Fail, Q!network
<1>3. CASE Q!Close(Reader) \/ Q!Remove(Reader)
  BY <1>3, CloseRequests DEF Q!Thread
<1>4. CASE Q!Destroy
  BY <1>4 DEF Q!Destroy, Q!network
<1> QED BY <1>1, <1>2, <1>3, <1>4 DEF RequesterReads

\* close() at the responding end sends at most the end of the response.
LEMMA CloseResponds ==
    ASSUME Typed, NEW t \in P!Thread, P!Close(t) \/ P!Remove(t)
    PROVE  /\ UNCHANGED <<rConn, toPeer>>
           /\ fromPeer' = fromPeer \/ Responds({"ResponseEnd"})
<1>1. CASE P!SendEnd(t)
  <2>1. rch[t] \in RChannel /\ rId[rch[t]] \in Q!Id /\ session[rch[t]] \in Channel \cup {None}
    BY <1>1, ResponderTypes DEF P!SendEnd
  <2>2. \/ fromPeer' = fromPeer
        \/ /\ rConn = "up" /\ Len(fromPeer) < Cap
           /\ fromPeer' = Append(fromPeer, Q!Msg("ResponseEnd", rId[rch[t]], session[rch[t]]))
    BY <1>1, Alphabet DEF P!SendEnd, P!Emit, P!OwnEnd
  <2>3. UNCHANGED <<rConn, toPeer>>
    BY <1>1 DEF P!SendEnd
  <2> QED BY <2>1, <2>2, <2>3 DEF Responds
<1>2. CASE P!CloseCheck(t) \/ P!MarkClosed(t) \/ P!Remove(t)
  BY <1>2 DEF P!CloseCheck, P!MarkClosed, P!Remove, P!RemoveCheck, P!RemoveLoad,
      P!RemoveStore,
              P!Fail, P!rNetwork
<1> QED BY <1>1, <1>2 DEF P!Close

\* A handler sends a response or the end of one, and reads nothing.
LEMMA HandlerResponds ==
    ASSUME Typed, NEW h \in Handler, HandlerStep(h)
    PROVE  /\ UNCHANGED <<rConn, toPeer>>
           /\ \/ UNCHANGED fromPeer
              \/ RoomAtRequester /\ Responds({"Response"})
              \/ Responds({"ResponseEnd"})
<1>0. h \in P!Thread
  BY DEF P!Thread
<1>1. CASE RoomAtRequester /\ P!Send(h)
  <2>1. /\ rreq[h] \in RChannel /\ rId[rreq[h]] \in Q!Id
        /\ session[rreq[h]] \in Channel \cup {None}
    BY <1>1, ResponderTypes DEF P!Send
  <2>2. \/ fromPeer' = fromPeer
        \/ /\ rConn = "up" /\ Len(fromPeer) < Cap
           /\ fromPeer' = Append(fromPeer, Q!Msg("Response", rId[rreq[h]], session[rreq[h]]))
    BY <1>1, Alphabet DEF P!Send, P!Emit
  <2>3. UNCHANGED <<rConn, toPeer>>
    BY <1>1 DEF P!Send
  <2> QED BY <1>1, <2>1, <2>2, <2>3 DEF Responds
<1>2. CASE P!Close(h) \/ P!Remove(h)
  BY <1>0, <1>2, CloseResponds
<1>3. CASE \/ P!BeginRead(h) \/ P!Read(h) \/ P!ReadTimesOut(h) \/ P!Write(h) \/ P!Return(h)
           \/ P!UseFreed(h)
  BY <1>3 DEF P!BeginRead, P!Read, P!ReadTimesOut, P!Write, P!Return, P!UseFreed, P!Fail,
              P!rNetwork
<1> QED BY <1>1, <1>2, <1>3 DEF HandlerStep

\* The reader takes one message, or sends the end of a response.
LEMMA ReaderResponds ==
    ASSUME Typed, ResponderReads
    PROVE  /\ UNCHANGED rConn
           /\ \/ UNCHANGED <<toPeer, fromPeer>>
              \/ toPeer # <<>> /\ toPeer' = Tail(toPeer) /\ UNCHANGED fromPeer
              \/ Responds({"ResponseEnd"}) /\ UNCHANGED toPeer
<1>1. CASE P!ReceiveEnd \/ P!ReceiveRequest
  BY <1>1 DEF P!ReceiveEnd, P!ReceiveRequest
<1>2. CASE P!Install \/ P!Push \/ P!Enqueue \/ P!Result \/ P!Spawn
  BY <1>2 DEF P!Install, P!Push, P!Enqueue, P!Result, P!Spawn, P!Fail, P!rNetwork
<1>3. CASE P!Close(Reader) \/ P!Remove(Reader)
  BY <1>3, CloseResponds DEF P!Thread
<1> QED BY <1>1, <1>2, <1>3 DEF ResponderReads, P!Forward

-----------------------------------------------------------------------------
(* Every step is one of each module.                                       *)

Requesting == (\E u \in User : UserStep(u)) \/ RequesterReads
Responding == (\E h \in Handler : HandlerStep(h)) \/ ResponderReads

\* A step of the requester is one of the responder's arbitrary peer, or unseen.
LEMMA RequestingSeen ==
    ASSUME Typed, ~Faulted, Requesting
    PROVE  [P!Next]_P!rVars
<1>1. UNCHANGED <<responder, rConn>>
  BY DEF Requesting, UserStep, RequesterReads
<1>2. \/ UNCHANGED <<toPeer, fromPeer>>
      \/ fromPeer # <<>> /\ fromPeer' = Tail(fromPeer) /\ UNCHANGED toPeer
      \/ RoomAtResponder /\ Requests({"Request"}) /\ UNCHANGED fromPeer
      \/ Requests({"RequestEnd"}) /\ UNCHANGED fromPeer
  BY UserRequests, ReaderRequests DEF Requesting
<1>3. rFault = "none"
  BY DEF Faulted
<1>4. CASE UNCHANGED <<toPeer, fromPeer>>
  BY <1>1, <1>4 DEF P!rVars, P!rManager, P!rObjects, P!rThreads, P!rNetwork, responder
<1>5. CASE fromPeer # <<>> /\ fromPeer' = Tail(fromPeer) /\ UNCHANGED toPeer
  <2>1. P!PeerReads
    BY <1>1, <1>5 DEF P!PeerReads, P!rManager, P!rObjects, P!rThreads, responder
  <2> QED BY <1>3, <2>1 DEF P!Peer, P!Next
<1>6. ASSUME NEW k \in {"Request", "RequestEnd"}, Requests({k}), UNCHANGED fromPeer,
             k = "Request" => RoomAtResponder
      PROVE  P!Next
  <2>1. /\ rConn = "up" /\ Len(toPeer) < Cap
        /\ \E i \in P!Id, c \in Channel : toPeer' = Append(toPeer, P!Msg(k, i, c))
    BY <1>6, Alphabet DEF Requests, Typed, Matched
  <2>2. k = "Request" => \A r \in RChannel : Len(rInbox[r]) < Cap
    BY <1>6 DEF RoomAtResponder
  <2>3. P!PeerSends
    BY <1>1, <1>6, <2>1, <2>2 DEF P!PeerSends, P!rManager, P!rObjects, P!rThreads, responder
  <2> QED BY <1>3, <2>3 DEF P!Peer, P!Next
<1> QED BY <1>2, <1>4, <1>5, <1>6

\* A step of the responder is one of the requester's arbitrary peer, or unseen.
LEMMA RespondingSeen ==
    ASSUME Typed, ~Faulted, Responding
    PROVE  [R!Next]_R!vars
<1>1. UNCHANGED <<requester, conn>>
  BY DEF Responding, HandlerStep, ResponderReads
<1>2. UNCHANGED <<Hide(held), [c \in Channel |-> HideAll(inbox[c])]>>
  BY <1>1 DEF requester
<1>3. \/ UNCHANGED <<toPeer, fromPeer>>
      \/ toPeer # <<>> /\ toPeer' = Tail(toPeer) /\ UNCHANGED fromPeer
      \/ RoomAtRequester /\ Responds({"Response"}) /\ UNCHANGED toPeer
      \/ Responds({"ResponseEnd"}) /\ UNCHANGED toPeer
  BY HandlerResponds, ReaderResponds DEF Responding
<1>4. fault = "none"
  BY DEF Faulted
<1>5. fromPeer \in Seq(Q!Message)
  BY RequesterTypes
<1>6. CASE UNCHANGED <<toPeer, fromPeer>>
  <2>1. UNCHANGED HideAll(fromPeer)
    BY <1>6
  <2> QED BY <1>1, <1>2, <1>6, <2>1
        DEF R!vars, R!manager, R!objects, R!threads, R!network, requester
<1>7. CASE toPeer # <<>> /\ toPeer' = Tail(toPeer) /\ UNCHANGED fromPeer
  <2>1. UNCHANGED HideAll(fromPeer)
    BY <1>7
  <2>2. R!PeerReads
    BY <1>1, <1>2, <1>7, <2>1 DEF R!PeerReads, R!manager, R!objects, R!threads, requester
  <2> QED BY <1>4, <2>2 DEF R!Peer, R!Next
<1>8. ASSUME NEW k \in {"Response", "ResponseEnd"}, Responds({k}), UNCHANGED toPeer,
             k = "Response" => RoomAtRequester
      PROVE  R!Next
  <2>1. conn = "up" /\ Len(HideAll(fromPeer)) < Cap
    BY <1>5, <1>8, HideSequence DEF Responds, Typed, Matched
  <2>2. PICK i \in Q!Id, c \in Channel \cup {None} :
            fromPeer' = Append(fromPeer, Q!Msg(k, i, c))
    BY <1>8 DEF Responds
  <2>3. Q!Msg(k, i, c) \in Q!Message /\ Hide(Q!Msg(k, i, c)) = R!Msg(k, i, None)
    <3>1. Q!Msg(k, i, c) \in Q!Message
      BY <1>8, <2>2 DEF Q!Msg, Q!Message, Q!Kind
    <3> QED BY <3>1, HideMessage, Alphabet DEF Q!Msg
  <2>4. HideAll(fromPeer)' = Append(HideAll(fromPeer), R!Msg(k, i, None))
    BY <1>5, <2>2, <2>3, HideSequence
  <2>5. k = "Response" => \A d \in Channel : Len([e \in Channel |-> HideAll(inbox[e])][d]) < Cap
    <3>1. \A d \in Channel : inbox[d] \in Seq(Q!Message)
      BY DEF Typed, Matched
    <3> QED BY <1>8, <3>1, HideSequence DEF RoomAtRequester
  <2>6. i \in R!Id
    BY <2>2, Alphabet
  <2>7. R!PeerSends
    BY <1>1, <1>2, <1>8, <2>1, <2>4, <2>5, <2>6
    DEF R!PeerSends, R!manager, R!objects, R!threads, requester
  <2> QED BY <1>4, <2>7 DEF R!Peer, R!Next
<1> QED BY <1>3, <1>6, <1>7, <1>8

\* The steps of the requester are steps of RequestChannels.
LEMMA RequestingSteps ==
    ASSUME Typed, ~Faulted, Requesting
    PROVE  /\ R!Next
           /\ inbox' \in [Channel -> Seq(Q!Message)] /\ held' \in Q!Message \cup {None}
<1>1. inbox \in [Channel -> Seq(Q!Message)] /\ held \in Q!Message \cup {None}
  BY DEF Typed, Matched
<1>2. fault = "none"
  BY DEF Faulted
<1>3. ASSUME NEW t \in Q!Thread, Q!Close(t) \/ Q!Remove(t)
      PROVE  (R!Close(t) \/ R!Remove(t)) /\ UNCHANGED <<inbox, held>>
  <2>1. UNCHANGED <<inbox, held>>
    BY <1>3 DEF Q!Close, Q!CloseCheck, Q!SendEnd, Q!MarkClosed, Q!Remove, Q!RemoveCheck,
                Q!RemoveLoad, Q!RemoveStore, Q!Push, Q!Release, Q!Fail, Q!objects, Q!threads
  <2> QED BY <1>3, <2>1, CloseSame, RemoveSame
<1>4. ASSUME NEW u \in User, UserStep(u)
      PROVE  R!UserStep(u) /\ inbox' \in [Channel -> Seq(Q!Message)] /\ UNCHANGED held
  <2>1. CASE Q!Read(u)
    <3>1. UNCHANGED held
      BY <2>1 DEF Q!Read
    <3> QED BY <2>1, <3>1, ReadSame DEF R!UserStep, R!Use
  <2>2. CASE Q!Close(u) \/ Q!Remove(u)
    BY <1>1, <1>3, <2>2 DEF R!UserStep, Q!Thread
  <2>3. CASE \/ Q!Create(u) \/ Q!UseNull(u) \/ Q!Write(u) \/ Q!Send(u) \/ Q!BeginRead(u)
             \/ Q!ReadTimesOut(u) \/ Q!Terminate(u) \/ Q!UseFreed(u)
    <3>1. UNCHANGED <<inbox, held>>
      BY <2>3 DEF Q!Create, Q!SendRequest, Q!Deref, Q!Acquire, Q!Pop, Q!Install, Q!Fetch,
                  Q!UseNull, Q!Write, Q!Send, Q!BeginRead, Q!ReadTimesOut, Q!Terminate,
                  Q!UseFreed, Q!Fail, Q!objects, Q!threads
    <3> QED BY <1>1, <2>3, <3>1, CreateSame, UseSame, UseFreedSame DEF R!UserStep
  <2> QED BY <1>4, <2>1, <2>2, <2>3 DEF UserStep
<1>5. CASE RequesterReads
  <2>1. CASE Q!ReceiveEnd \/ Q!ReceiveResponse
    <3>1. UNCHANGED inbox
      BY <2>1 DEF Q!ReceiveEnd, Q!ReceiveResponse, Q!objects
    <3> QED BY <1>1, <1>2, <2>1, <3>1, ReceiveSame DEF R!Forward, R!ReaderStep, R!Next
  <2>2. CASE Q!Deliver
    <3>1. UNCHANGED <<inbox, held>>
      BY <2>2 DEF Q!Deliver, Q!Fail, Q!objects, Q!threads
    <3> QED BY <1>1, <1>2, <2>2, <3>1, DeliverSame DEF R!Forward, R!ReaderStep, R!Next
  <2>3. CASE Q!Enqueue
    BY <1>1, <1>2, <2>3, EnqueueSame DEF R!Forward, R!ReaderStep, R!Next
  <2>4. CASE Q!Close(Reader) \/ Q!Remove(Reader)
    BY <1>1, <1>2, <1>3, <2>4 DEF R!ReaderStep, R!Next, Q!Thread
  <2>5. CASE Q!Destroy
    BY <1>1, <1>2, <2>5, DestroySame DEF R!ReaderStep, R!Next
  <2> QED BY <1>5, <2>1, <2>2, <2>3, <2>4, <2>5 DEF RequesterReads
<1> QED BY <1>1, <1>2, <1>4, <1>5 DEF Requesting, R!Next

\* The steps of the responder are steps of ResponseChannels.
LEMMA RespondingSteps ==
    ASSUME ~Faulted, Responding
    PROVE  P!Next
<1>1. rFault = "none"
  BY DEF Faulted
<1>2. ASSUME NEW h \in Handler, HandlerStep(h)
      PROVE  P!HandlerStep(h)
  BY <1>2 DEF HandlerStep, P!HandlerStep, P!Handle
<1>3. ResponderReads => P!ReaderStep
  BY DEF ResponderReads, P!ReaderStep
<1> QED BY <1>1, <1>2, <1>3 DEF Responding, P!Next

\* An end hangs up: a step of its own module, and of the peer in the other.
LEMMA HangUpSteps ==
    ASSUME Typed, ~Faulted, RequesterHangsUp \/ ResponderHangsUp
    PROVE  [R!Next]_R!vars /\ [P!Next]_P!rVars /\ Matched'
<1>1. fault = "none" /\ rFault = "none"
  BY DEF Faulted
<1>2. fromPeer \in Seq(Q!Message) /\ HideAll(<<>>) = <<>>
  <2>1. <<>> \in Seq(Q!Message)
    OBVIOUS
  <2> QED BY <2>1, RequesterTypes, HideSequence
<1>3. CASE RequesterHangsUp
  <2>1. R!Next
    BY <1>1, <1>3, HangUpSame DEF RequesterHangsUp, R!Forward, R!ReaderStep, R!Next
  <2>2. /\ conn' = "closed" /\ fromPeer' = <<>> /\ UNCHANGED <<inbox, held, toPeer>>
        /\ rConn' = PeerOf(rConn) /\ UNCHANGED responder
    BY <1>3 DEF RequesterHangsUp, Q!HangUp, Q!objects
  <2>3. [P!Next]_P!rVars
    <3>1. CASE rConn = "up" \/ fromPeer # <<>>
      <4>1. P!PeerHangsUp
        BY <2>2, <3>1 DEF P!PeerHangsUp, PeerOf, responder, P!rManager, P!rObjects, P!rThreads
      <4> QED BY <1>1, <4>1 DEF P!Peer, P!Next
    <3>2. CASE rConn # "up" /\ fromPeer = <<>>
      BY <2>2, <3>2 DEF PeerOf, responder, P!rVars, P!rManager, P!rObjects, P!rThreads, P!rNetwork
    <3> QED BY <3>1, <3>2
  <2>4. Matched'
    BY <2>2 DEF Typed, Matched, PeerOf
  <2> QED BY <2>1, <2>3, <2>4
<1>4. CASE ResponderHangsUp
  <2>1. P!Next
    BY <1>1, <1>4 DEF ResponderHangsUp, P!ReaderStep, P!Next
  <2>2. /\ rConn' = "closed" /\ toPeer' = <<>> /\ UNCHANGED <<fromPeer, requester>>
        /\ conn' = PeerOf(conn)
    BY <1>4 DEF ResponderHangsUp, P!HangUp
  <2>3. UNCHANGED <<[c \in Channel |-> HideAll(inbox[c])], Hide(held), HideAll(fromPeer)>>
    BY <2>2 DEF requester
  <2>4. [R!Next]_R!vars
    <3>1. CASE conn = "up" \/ toPeer # <<>>
      <4>1. R!PeerHangsUp
        BY <2>2, <2>3, <3>1 DEF R!PeerHangsUp, PeerOf, requester, R!manager, R!objects, R!threads
      <4> QED BY <1>1, <4>1 DEF R!Peer, R!Next
    <3>2. CASE conn # "up" /\ toPeer = <<>>
      BY <2>2, <2>3, <3>2 DEF PeerOf, requester, R!vars, R!manager, R!objects, R!threads, R!network
    <3> QED BY <3>1, <3>2
  <2>5. Matched'
    BY <2>2 DEF Typed, Matched, PeerOf, requester
  <2> QED BY <2>1, <2>4, <2>5
<1> QED BY <1>3, <1>4

\* Every step is one of both modules, or a stutter there.
LEMMA NextSteps ==
    ASSUME Typed, [Next]_vars
    PROVE  [R!Next]_R!vars /\ [P!Next]_P!rVars /\ Matched'
<1>1. CASE UNCHANGED vars
  <2>1. UNCHANGED <<requester, responder, conn, rConn, toPeer, fromPeer>>
    BY <1>1 DEF vars
  <2>2. UNCHANGED P!rVars
    BY <2>1 DEF responder, P!rVars, P!rManager, P!rObjects, P!rThreads, P!rNetwork
  <2>3. UNCHANGED <<[c \in Channel |-> HideAll(inbox[c])], Hide(held), HideAll(fromPeer)>>
    BY <2>1 DEF requester
  <2>4. UNCHANGED R!vars
    BY <2>1, <2>3 DEF requester, R!vars, R!manager, R!objects, R!threads, R!network
  <2> QED BY <2>1, <2>2, <2>4 DEF Typed, Matched, requester
<1>2. CASE ~Faulted /\ Requesting
  <2>1. UNCHANGED <<conn, rConn>>
    BY <1>2, UserRequests, ReaderRequests DEF Requesting, UserStep, RequesterReads
  <2> QED BY <1>2, <2>1, RequestingSeen, RequestingSteps DEF Typed, Matched
<1>3. CASE ~Faulted /\ Responding
  <2>1. UNCHANGED <<conn, rConn, inbox, held>>
    BY <1>3, HandlerResponds, ReaderResponds
    DEF Responding, HandlerStep, ResponderReads, requester
  <2> QED BY <1>3, <2>1, RespondingSeen, RespondingSteps DEF Typed, Matched
<1> QED BY <1>1, <1>2, <1>3, HangUpSteps DEF Next, Requesting, Responding

-----------------------------------------------------------------------------
(* The theorems.                                                           *)

\* What the theorems about the two modules say here.
LEMMA Imported ==
    /\ R!Init => RP!Typed
    /\ RP!Typed /\ [R!Next]_R!vars => RP!Typed'
    /\ P!Init => PP!Typed
    /\ PP!Typed /\ [P!Next]_P!rVars => PP!Typed'
<1>1. /\ RP!Init => RP!Typed
      /\ RP!Typed /\ [RP!Next]_RP!vars => RP!Typed'
  BY RP!InitTyped, RP!NextTyped, ConstantsOK, Alphabet DEF IsFiniteSet, RP!IsFiniteSet
<1>2. /\ PP!Init => PP!Typed
      /\ PP!Typed /\ [PP!Next]_PP!rVars => PP!Typed'
  BY PP!InitTyped, PP!NextTyped, ConstantsOK, Alphabet DEF IsFiniteSet, PP!IsFiniteSet
<1> QED BY <1>1, <1>2, SameRequester, SameResponder

\* The initial state is one of both modules.
LEMMA InitSteps == Init => R!Init /\ P!Init /\ Typed
<1> SUFFICES ASSUME Init PROVE R!Init /\ P!Init /\ Typed
  OBVIOUS
<1>1. /\ inbox = [c \in Channel |-> <<>>] /\ held = None /\ fromPeer = <<>>
      /\ conn = "up" /\ rConn = "up"
  BY DEF Init, Q!Init, P!Init
<1>2. HideAll(<<>>) = <<>> /\ Hide(None) = None
  <2>1. <<>> \in Seq(Q!Message)
    OBVIOUS
  <2> QED BY <2>1, HideSequence DEF Hide
<1>3. /\ [c \in Channel |-> HideAll(inbox[c])] = [c \in Channel |-> <<>>]
      /\ Hide(held) = None /\ HideAll(fromPeer) = <<>>
  BY <1>1, <1>2
<1>4. R!Init
  BY <1>3 DEF Init, Q!Init, R!Init, Q!Id, R!Id, Q!Thread, R!Thread, Q!AllIds, R!AllIds
<1>5. P!Init
  BY DEF Init
<1>6. Matched
  BY <1>1 DEF Matched
<1> QED BY <1>4, <1>5, <1>6, Imported DEF Typed

\* The invariant holds throughout.
LEMMA TypedAlways == Spec => []Typed
<1>1. Typed /\ [Next]_vars => Typed'
  BY NextSteps, Imported DEF Typed
<1> QED BY <1>1, InitSteps, PTL DEF Spec

\* The requesting end of a connection to a real peer does nothing that
\* RequestChannels, whose peer is arbitrary, does not allow.
THEOREM RequesterRefines == Spec => RequesterSpec
<1>1. Typed /\ [Next]_vars => [R!Next]_R!vars
  BY NextSteps
<1>2. Spec => R!Init /\ [][R!Next]_R!vars
  BY <1>1, InitSteps, TypedAlways, PTL DEF Spec
<1> QED BY <1>2 DEF RequesterSpec, R!Spec

\* The responding end of a connection to a real peer does nothing that
\* ResponseChannels, whose peer is arbitrary, does not allow.
THEOREM ResponderRefines == Spec => ResponderSpec
<1>1. Typed /\ [Next]_vars => [P!Next]_P!rVars
  BY NextSteps
<1>2. Spec => P!Init /\ [][P!Next]_P!rVars
  BY <1>1, InitSteps, TypedAlways, PTL DEF Spec
<1> QED BY <1>2 DEF ResponderSpec, P!Spec

-----------------------------------------------------------------------------
(* What this gives for the connection.                                     *)

RequesterSafe ==
    R!SemaphoreCountsFreeIds /\ R!IdHasOneOwner /\ R!OpenChannelIsReachable
ResponderSafe ==
    P!OpenChannelIsReachable /\ P!OpenChannelIsServed /\ P!DestructorReleasesHandlers

\* The two instances of RequestChannels have the same properties, ...
LEMMA SameRequesterProperties ==
    /\ RP!SemaphoreCountsFreeIds => R!SemaphoreCountsFreeIds
    /\ RP!IdHasOneOwner => R!IdHasOneOwner
    /\ RP!OpenChannelIsReachable => R!OpenChannelIsReachable
BY DEF R!SemaphoreCountsFreeIds, RP!SemaphoreCountsFreeIds, R!IdHasOneOwner, RP!IdHasOneOwner,
    R!OpenChannelIsReachable, RP!OpenChannelIsReachable, R!Popping, RP!Popping,
    R!Releasing, RP!Releasing, R!Free, RP!Free, R!Installed, RP!Installed,
    R!Holds, RP!Holds, R!Id, RP!Id, R!Thread, RP!Thread,
    R!Cardinality, RP!Cardinality, R!IsFiniteSet, RP!IsFiniteSet

\* ... and so have those of ResponseChannels.
LEMMA SameResponderProperties ==
    /\ PP!OpenChannelIsReachable => P!OpenChannelIsReachable
    /\ PP!OpenChannelIsServed => P!OpenChannelIsServed
    /\ PP!DestructorReleasesHandlers => P!DestructorReleasesHandlers
BY DEF P!OpenChannelIsReachable, PP!OpenChannelIsReachable, P!OpenChannelIsServed,
    PP!OpenChannelIsServed,
  P!DestructorReleasesHandlers, PP!DestructorReleasesHandlers, P!Constructed, PP!Constructed,
  P!Closing, PP!Closing, P!Thread, PP!Thread, P!CloseLabels, PP!CloseLabels

\* What was proved of each end against an arbitrary peer holds at both ends of a
\* connection: as long as a manager exists, no id is lost or used twice and no open
\* channel is orphaned or left without a thread, and the destructor leaves no handler
\* of a response waiting.
THEOREM LinkIsSafe == Spec => [](RequesterSafe /\ ResponderSafe)
<1>1. /\ R!Init => RP!Init
      /\ [R!Next]_R!vars => [RP!Next]_RP!vars
  BY SameRequester
<1>2. /\ P!Init => PP!Init
      /\ [P!Next]_P!rVars => [PP!Next]_PP!rVars
  BY SameResponder
<1>3. Spec => RP!Spec
  BY <1>1, RequesterRefines, PTL DEF RequesterSpec, R!Spec, RP!Spec
<1>4. Spec => PP!Spec
  BY <1>2, ResponderRefines, PTL DEF ResponderSpec, P!Spec, PP!Spec
<1>5. /\ RP!Spec => []RP!SemaphoreCountsFreeIds
      /\ RP!Spec => []RP!IdHasOneOwner
      /\ RP!Spec => []RP!OpenChannelIsReachable
  BY RP!SemaphoreCounts, RP!IdsHaveOneOwner, RP!OpenChannelsReachable, ConstantsOK, Alphabet
  DEF IsFiniteSet, RP!IsFiniteSet
<1>6. /\ PP!Spec => []PP!OpenChannelIsReachable
      /\ PP!Spec => []PP!OpenChannelIsServed
      /\ PP!Spec => []PP!DestructorReleasesHandlers
  BY PP!OpenChannelsReachable, PP!OpenChannelsServed, PP!HandlersReleased, ConstantsOK, Alphabet
  DEF IsFiniteSet, PP!IsFiniteSet
<1>7. /\ RP!SemaphoreCountsFreeIds /\ RP!IdHasOneOwner /\ RP!OpenChannelIsReachable
             => RequesterSafe
      /\ PP!OpenChannelIsReachable /\ PP!OpenChannelIsServed /\ PP!DestructorReleasesHandlers
             => ResponderSafe
  BY SameRequesterProperties, SameResponderProperties DEF RequesterSafe, ResponderSafe
<1> QED BY <1>3, <1>4, <1>5, <1>6, <1>7, PTL

-----------------------------------------------------------------------------
(***************************************************************************)
(* Where responses go.  A message carries the id of the channel that it    *)
(* belongs to, at both ends and in both directions, and the reader uses    *)
(* the id of the message that it holds.                                    *)
(***************************************************************************)
Sent(ids, m) == m.chan \in Channel /\ ids[m.chan] = m.id
AllSent(ids, s) == \A k \in DOMAIN s : Sent(ids, s[k])

Streams == AllSent(chanId, toPeer) /\ AllSent(chanId, fromPeer)
Forwarding ==
    /\ held # None => Sent(chanId, held)
    /\ pc[Reader] \in {"deliver", "enqueue"} => held # None /\ id[Reader] = held.id
Creating ==
    /\ rHeld # None => Sent(chanId, rHeld)
    /\ rpc[Reader] = "install" => rHeld # None /\ rid[Reader] = rHeld.id
Sessions == \A r \in RChannel : rId[r] # None =>
    session[r] \in Channel /\ chanId[session[r]] = rId[r]

\* The channels whose messages may stray, and a message in the buffer of channel c.
Gone == {d \in Channel : overlap \/ isClosed[d]}
Delivered(ids, gone, c, m) ==
    Sent(ids, m) /\ ids[c] = m.id /\ m.chan \in gone \cup {c}
Inboxes == \A c \in Channel : \A k \in DOMAIN inbox[c] :
    Delivered(chanId, Gone, c, inbox[c][k])

Marked == Streams /\ Forwarding /\ Creating /\ Sessions /\ Inboxes

\* What lasts at the requesting end.
Grown(ids, jds) == \A c \in Channel : ids[c] # None => jds[c] = ids[c]
Lasts == Grown(chanId, chanId') /\ Gone \subseteq Gone'

LEMMA NextLasts ==
    ASSUME Typed, [Next]_vars
    PROVE  Lasts
<1>1. RP!Typed /\ [RP!Next]_RP!vars
  BY NextSteps, SameRequester DEF Typed
<1>2. RP!Typed /\ [RP!Next]_RP!vars =>
          \A c \in Channel : /\ chanId[c] # None => chanId'[c] = chanId[c]
                             /\ isClosed[c] => isClosed'[c]
  BY RP!ObjectsLast, ConstantsOK, Alphabet DEF IsFiniteSet, RP!IsFiniteSet
<1>3. RP!Typed /\ overlap /\ [RP!Next]_RP!vars => overlap'
  BY RP!OverlapStays, ConstantsOK, Alphabet DEF IsFiniteSet, RP!IsFiniteSet
<1> QED BY <1>1, <1>2, <1>3 DEF Lasts, Grown, Gone

\* A message keeps its session, ...
LEMMA SentStays ==
    ASSUME NEW ids, NEW jds, Grown(ids, jds), NEW m \in Q!Message, Sent(ids, m)
    PROVE  Sent(jds, m)
<1>1. m.id \in Q!Id /\ None \notin Q!Id
  BY ConstantsOK DEF Q!Message
<1> QED BY <1>1 DEF Sent, Grown

\* ... in a sequence of messages too.
LEMMA AllSentStays ==
    ASSUME NEW ids, NEW jds, Grown(ids, jds), NEW s \in Seq(Q!Message), AllSent(ids, s)
    PROVE  /\ AllSent(jds, s) /\ AllSent(jds, <<>>)
           /\ s # <<>> => Sent(jds, Head(s)) /\ AllSent(jds, Tail(s))
           /\ \A m \in Q!Message : Sent(jds, m) => AllSent(jds, Append(s, m))
<1>1. \A k \in DOMAIN s : s[k] \in Q!Message
  OBVIOUS
<1>2. AllSent(jds, s)
  BY <1>1, SentStays DEF AllSent
<1>3. AllSent(jds, <<>>)
  <2>1. <<>> \in Seq(Q!Message) /\ Len(<<>>) = 0
    OBVIOUS
  <2>2. DOMAIN <<>> = {}
    BY <2>1
  <2> QED BY <2>2 DEF AllSent
<1>4. ASSUME s # <<>>
      PROVE  Sent(jds, Head(s)) /\ AllSent(jds, Tail(s))
  <2>1. 1 \in DOMAIN s /\ Head(s) = s[1]
    BY <1>4
  <2>2. \A k \in DOMAIN Tail(s) : k + 1 \in DOMAIN s /\ Tail(s)[k] = s[k + 1]
    BY <1>4
  <2> QED BY <1>2, <2>1, <2>2 DEF AllSent
<1>5. ASSUME NEW m \in Q!Message, Sent(jds, m)
      PROVE  AllSent(jds, Append(s, m))
  <2>1. \A k \in DOMAIN Append(s, m) :
            Append(s, m)[k] = m \/ (k \in DOMAIN s /\ Append(s, m)[k] = s[k])
    BY <1>5
  <2> QED BY <1>2, <1>5, <2>1 DEF AllSent
<1> QED BY <1>2, <1>3, <1>4, <1>5

\* The types of what is marked.
LEMMA MarkedTypes ==
    ASSUME Typed
    PROVE  /\ toPeer \in Seq(Q!Message) /\ fromPeer \in Seq(Q!Message)
           /\ held \in Q!Message \cup {None} /\ rHeld \in Q!Message \cup {None}
           /\ inbox \in [Channel -> Seq(Q!Message)]
           /\ pc \in [Q!Thread -> RP!Labels] /\ id \in [Q!Thread -> Q!Id]
           /\ rpc \in [P!Thread -> PP!Labels] /\ rid \in [P!Thread -> Q!Id]
           /\ Reader \in Q!Thread /\ Reader \in P!Thread
<1>1. RP!TypeOK /\ PP!TypeOK /\ Matched
  BY DEF Typed, RP!Typed, PP!Typed
<1>2. Reader \in Q!Thread /\ Reader \in P!Thread
  BY DEF Q!Thread, P!Thread
<1>3. rHeld \in Q!Message \cup {None} /\ rpc \in [P!Thread -> PP!Labels] /\ rid \in [P!Thread -> Q!Id]
  BY <1>1, Alphabet DEF PP!TypeOK
<1>4. pc \in [Q!Thread -> RP!Labels] /\ id \in [Q!Thread -> Q!Id]
  BY <1>1, Alphabet DEF RP!TypeOK
<1> QED BY <1>1, <1>2, <1>3, <1>4, RequesterTypes DEF Matched

\* The messages in the buffers stay where they are, or are taken.
LEMMA InboxesStay ==
    ASSUME Typed, Inboxes, Lasts,
           \A c \in Channel : inbox'[c] = inbox[c] \/
                              (inbox[c] # <<>> /\ inbox'[c] = Tail(inbox[c]))
    PROVE  Inboxes'
<1> SUFFICES ASSUME NEW c \in Channel, NEW k \in DOMAIN inbox'[c]
             PROVE  Delivered(chanId', Gone', c, inbox'[c][k])
  BY DEF Inboxes
<1>1. inbox[c] \in Seq(Q!Message)
  BY MarkedTypes
<1>2. PICK j \in DOMAIN inbox[c] : inbox'[c][k] = inbox[c][j]
  <2>1. CASE inbox'[c] = inbox[c]
    BY <2>1
  <2>2. CASE inbox[c] # <<>> /\ inbox'[c] = Tail(inbox[c])
    <3>1. k + 1 \in DOMAIN inbox[c] /\ Tail(inbox[c])[k] = inbox[c][k + 1]
      BY <1>1, <2>2
    <3> QED BY <2>2, <3>1
  <2> QED BY <2>1, <2>2
<1>3. PICK m \in Q!Message : m = inbox[c][j]
  BY <1>1
<1>4. Delivered(chanId, Gone, c, m)
  BY <1>3 DEF Inboxes
<1>5. Sent(chanId', m) /\ chanId'[c] = m.id
  <2>1. m.id # None
    BY ConstantsOK DEF Q!Message
  <2> QED BY <1>4, <2>1, SentStays DEF Delivered, Lasts, Grown
<1>6. m.chan \in Gone' \cup {c}
  BY <1>4 DEF Delivered, Lasts
<1> QED BY <1>2, <1>3, <1>5, <1>6 DEF Delivered

\* close() and removeResponseChannel() create nothing, ...
LEMMA ClosingCreates ==
    ASSUME Typed, NEW t \in P!Thread, P!Close(t) \/ P!Remove(t)
    PROVE  /\ UNCHANGED <<rId, session, rHeld>>
           /\ \A s \in P!Thread : s # t => rpc'[s] = rpc[s] /\ rid'[s] = rid[s]
           /\ rpc'[t] # "install" \/ UNCHANGED <<rpc, rid>>
<1>1. UNCHANGED <<rId, session, rHeld>>
  BY DEF P!Close, P!CloseCheck, P!SendEnd, P!MarkClosed, P!Remove, P!RemoveCheck,
         P!RemoveLoad, P!RemoveStore, P!Fail, P!rObjects, P!rThreads
<1>2. ASSUME NEW l \in {"idle", "recv", "gone", "check", "load", "store", "close", "end", "mark"},
             rpc' = [rpc EXCEPT ![t] = l]
      PROVE  rpc'[t] # "install" /\ \A s \in P!Thread : s # t => rpc'[s] = rpc[s]
  BY <1>2, MarkedTypes
<1>3. CASE P!Finish(t)
  <2>1. \E l \in {"idle", "recv", "gone", "check"} : rpc' = [rpc EXCEPT ![t] = l]
    BY <1>3 DEF P!Finish, P!GoTo
  <2>2. \A s \in P!Thread : s # t => rid'[s] = rid[s]
    BY <1>3, MarkedTypes DEF P!Finish
  <2> QED BY <1>1, <1>2, <2>1, <2>2
<1>4. CASE ~P!Finish(t)
  <2>1. \/ UNCHANGED <<rpc, rid>>
        \/ /\ \E l \in {"load", "store", "close", "end", "mark", "check"} :
                 rpc' = [rpc EXCEPT ![t] = l]
           /\ UNCHANGED rid
    <3>1. CASE P!CloseCheck(t)
      BY <1>4, <3>1 DEF P!CloseCheck, P!Fail, P!GoTo, P!rThreads
    <3>2. CASE P!SendEnd(t) \/ P!MarkClosed(t)
      BY <3>2 DEF P!SendEnd, P!MarkClosed, P!GoTo
    <3>3. CASE P!RemoveCheck(t)
      BY <1>4, <3>3 DEF P!RemoveCheck, P!GoTo
    <3>4. CASE P!RemoveLoad(t) \/ P!RemoveStore(t)
      BY <3>4 DEF P!RemoveLoad, P!RemoveStore, P!GoTo
    <3> QED BY <3>1, <3>2, <3>3, <3>4 DEF P!Close, P!Remove
  <2> QED BY <1>1, <1>2, <2>1
<1> QED BY <1>3, <1>4

\* ... and close() and removeRequestChannel() forward nothing.
LEMMA ClosingForwards ==
    ASSUME Typed, NEW t \in Q!Thread, Q!Close(t) \/ Q!Remove(t)
    PROVE  /\ UNCHANGED <<inbox, held>>
           /\ \A s \in Q!Thread : s # t => pc'[s] = pc[s] /\ id'[s] = id[s]
           /\ pc'[t] \notin {"deliver", "enqueue"} \/ UNCHANGED <<pc, id>>
<1>1. UNCHANGED <<inbox, held>>
  BY DEF Q!Close, Q!CloseCheck, Q!SendEnd, Q!MarkClosed, Q!Remove, Q!RemoveCheck,
         Q!RemoveLoad, Q!RemoveStore, Q!Push, Q!Release, Q!Fail, Q!objects, Q!threads
<1>2. ASSUME NEW l \in {"idle", "recv", "destroy", "check", "load", "store", "close", "end", "mark",
                        "push", "release"},
             pc' = [pc EXCEPT ![t] = l]
      PROVE  /\ pc'[t] \notin {"deliver", "enqueue"}
             /\ \A s \in Q!Thread : s # t => pc'[s] = pc[s]
  BY <1>2, MarkedTypes
<1>3. CASE Q!Finish(t)
  <2>1. \E l \in {"idle", "recv", "destroy", "check", "push"} : pc' = [pc EXCEPT ![t] = l]
    BY <1>3 DEF Q!Finish, Q!GoTo
  <2>2. \A s \in Q!Thread : s # t => id'[s] = id[s]
    BY <1>3, MarkedTypes DEF Q!Finish
  <2> QED BY <1>1, <1>2, <2>1, <2>2
<1>4. CASE ~Q!Finish(t)
  <2>1. \/ UNCHANGED <<pc, id>>
        \/ /\ \E l \in {"load", "store", "close", "end", "mark", "check", "push", "release"} :
                 pc' = [pc EXCEPT ![t] = l]
           /\ UNCHANGED id
    <3>1. CASE Q!CloseCheck(t)
      BY <1>4, <3>1 DEF Q!CloseCheck, Q!Fail, Q!GoTo, Q!threads
    <3>2. CASE Q!SendEnd(t) \/ Q!MarkClosed(t)
      BY <3>2 DEF Q!SendEnd, Q!MarkClosed, Q!GoTo
    <3>3. CASE Q!RemoveCheck(t)
      BY <1>4, <3>3 DEF Q!RemoveCheck, Q!GoTo
    <3>4. CASE Q!RemoveLoad(t) \/ Q!RemoveStore(t) \/ Q!Push(t)
      BY <3>4 DEF Q!RemoveLoad, Q!RemoveStore, Q!Push, Q!GoTo
    <3>5. CASE Q!Release(t)
      BY <1>4, <3>5 DEF Q!Release
    <3> QED BY <3>1, <3>2, <3>3, <3>4, <3>5 DEF Q!Close, Q!Remove
  <2> QED BY <1>1, <1>2, <2>1
<1> QED BY <1>3, <1>4

\* The steps of the other end leave the requester's part of it alone.
LEMMA RespondingMarked ==
    ASSUME Typed, Marked, Responding
    PROVE  Marked'
<1>1. UNCHANGED <<requester, conn>>
  BY DEF Responding, HandlerStep, ResponderReads
<1>2. UNCHANGED <<chanId, Gone, held, pc, id, inbox>>
  BY <1>1 DEF requester, Gone
<1>3. Forwarding' /\ Inboxes'
  BY <1>2 DEF Marked, Forwarding, Inboxes
<1>4. Grown(chanId, chanId)
  BY DEF Grown
<1>5. Streams'
  <2>1. \/ UNCHANGED toPeer
        \/ toPeer # <<>> /\ toPeer' = Tail(toPeer)
    BY HandlerResponds, ReaderResponds DEF Responding
  <2>2. \/ UNCHANGED fromPeer
        \/ Responds({"Response"}) \/ Responds({"ResponseEnd"})
    BY HandlerResponds, ReaderResponds DEF Responding
  <2>3. AllSent(chanId, toPeer')
    BY <1>4, <2>1, MarkedTypes, AllSentStays DEF Marked, Streams
  <2>4. ASSUME NEW k \in {"Response", "ResponseEnd"}, NEW r \in RChannel, rId[r] \in Q!Id,
               fromPeer' = Append(fromPeer, Q!Msg(k, rId[r], session[r]))
        PROVE  AllSent(chanId, fromPeer')
    <3> DEFINE m == Q!Msg(k, rId[r], session[r])
    <3>1. session[r] \in Channel /\ chanId[session[r]] = rId[r]
      BY <2>4, ConstantsOK DEF Marked, Sessions
    <3>2. m \in Q!Message /\ Sent(chanId, m)
      BY <2>4, <3>1 DEF Q!Msg, Q!Message, Q!Kind, Sent
    <3> QED BY <1>4, <2>4, <3>2, MarkedTypes, AllSentStays DEF Marked, Streams
  <2>5. AllSent(chanId, fromPeer')
    BY <2>2, <2>4 DEF Responds, Marked, Streams
  <2> QED BY <1>2, <2>3, <2>5 DEF Streams
<1>6. Creating' /\ Sessions'
  <2>1. CASE P!Install
    <3>1. PICK r \in RChannel : /\ rId' = [rId EXCEPT ![r] = rid[Reader]]
                                /\ session' = [session EXCEPT ![r] = rHeld.chan]
      BY <2>1 DEF P!Install, P!Fresh
    <3>2. rHeld # None /\ rid[Reader] = rHeld.id /\ Sent(chanId, rHeld)
      BY <2>1 DEF P!Install, Marked, Creating
    <3>3. Sessions'
      BY <1>2, <3>1, <3>2, ResponderTypes DEF Marked, Sessions, Sent
    <3>4. UNCHANGED rHeld /\ rpc' = [rpc EXCEPT ![Reader] = "push"]
      BY <2>1 DEF P!Install, P!GoTo
    <3> QED BY <1>2, <3>3, <3>4, MarkedTypes DEF Marked, Creating
  <2>2. CASE P!ReceiveRequest
    <3>1. /\ toPeer # <<>> /\ rHeld' = Head(toPeer)
          /\ rid' = [rid EXCEPT ![Reader] = Head(toPeer).id]
          /\ UNCHANGED <<rId, session>>
      BY <2>2 DEF P!ReceiveRequest, P!rObjects
    <3>2. Head(toPeer) \in Q!Message /\ Sent(chanId, Head(toPeer))
      <4>1. Head(toPeer) \in Q!Message
        BY <3>1, MarkedTypes
      <4> QED BY <1>4, <3>1, <4>1, MarkedTypes, AllSentStays DEF Marked, Streams
    <3>3. rHeld' # None /\ rid'[Reader] = rHeld'.id
      BY <3>1, <3>2, MarkedTypes, ConstantsOK
    <3> QED BY <1>2, <3>1, <3>2, <3>3 DEF Marked, Creating, Sessions
  <2>3. CASE ~P!Install /\ ~P!ReceiveRequest
    <3>1. /\ UNCHANGED <<rId, session>> /\ rHeld' \in {rHeld, None}
          /\ rpc'[Reader] = "install" =>
                rpc[Reader] = "install" /\ rid'[Reader] = rid[Reader] /\ rHeld' = rHeld
      <4>1. ASSUME NEW h \in Handler, P!Handle(h) \/ P!UseFreed(h)
            PROVE  /\ UNCHANGED <<rId, session, rHeld>>
                   /\ rpc'[Reader] = rpc[Reader] /\ rid'[Reader] = rid[Reader]
        <5>1. h # Reader
          BY ConstantsOK
        <5> QED BY <4>1, <5>1, MarkedTypes
                DEF P!Handle, P!BeginRead, P!Read, P!ReadTimesOut, P!Write, P!Send, P!Return,
                    P!UseFreed, P!Fail, P!GoTo, P!rObjects, P!rThreads
      <4>2. CASE P!ReceiveEnd \/ P!Push \/ P!Enqueue \/ P!Result \/ P!Spawn
        <5>1. rpc'[Reader] # "install" \/ UNCHANGED <<rpc, rid>>
          BY <4>2, MarkedTypes DEF P!ReceiveEnd, P!Push, P!Enqueue, P!Result, P!Spawn, P!Fail,
                                   P!GoTo, P!rThreads
        <5>2. UNCHANGED <<rId, session>> /\ rHeld' \in {rHeld, None}
          BY <4>2 DEF P!ReceiveEnd, P!Push, P!Enqueue, P!Result, P!Spawn, P!Fail, P!rObjects,
                      P!rThreads
        <5>3. rpc[Reader] = "install" /\ UNCHANGED rpc => UNCHANGED rHeld
          BY <4>2 DEF P!ReceiveEnd, P!Push, P!Enqueue, P!Result, P!Spawn
        <5> QED BY <5>1, <5>2, <5>3
      <4>3. ASSUME NEW t \in P!Thread, P!Close(t) \/ P!Remove(t)
            PROVE  /\ UNCHANGED <<rId, session, rHeld>>
                   /\ rpc'[Reader] = "install" =>
                         rpc[Reader] = "install" /\ rid'[Reader] = rid[Reader]
        BY <4>3, ClosingCreates, MarkedTypes
      <4>4. CASE ResponderReads
        BY <2>3, <4>2, <4>3, <4>4, MarkedTypes DEF ResponderReads, P!Forward
      <4>5. ASSUME NEW h \in Handler, HandlerStep(h)
            PROVE  \/ P!Handle(h) \/ P!UseFreed(h) \/ P!Close(h) \/ P!Remove(h)
        BY <4>5 DEF HandlerStep, P!Handle
      <4> QED BY <4>1, <4>3, <4>4, <4>5 DEF Responding, P!Thread
    <3> QED BY <1>2, <3>1 DEF Marked, Creating, Sessions
  <2> QED BY <2>1, <2>2, <2>3
<1> QED BY <1>3, <1>5, <1>6 DEF Marked

\* A message that the reader puts into a buffer has the id of the channel, and
\* its own channel, which has that id too, is another one only when it is closed.
LEMMA EnqueueDelivers ==
    ASSUME Typed, Marked, RP!Addressed, RP!OneOpenChannel, pc[Reader] = "enqueue",
           ~isClosed[ch[Reader]]
    PROVE  /\ held \in Q!Message /\ ch[Reader] \in Channel
           /\ Delivered(chanId, Gone, ch[Reader], held)
<1>1. held \in Q!Message /\ Sent(chanId, held) /\ id[Reader] = held.id
  BY MarkedTypes DEF Marked, Forwarding
<1>2. ch[Reader] \in Channel /\ chanId[ch[Reader]] \in Q!Id
  BY MarkedTypes, RequesterTypes
<1>3. chanId[ch[Reader]] = id[Reader]
  <2>1. ch[Reader] # None /\ Reader \in RP!Thread
    BY <1>2, MarkedTypes, Alphabet, ConstantsOK
  <2> QED BY <2>1 DEF RP!Addressed, RP!AtChannel
<1>4. held.chan \in Channel /\ chanId[held.chan] = chanId[ch[Reader]]
  BY <1>1, <1>3 DEF Sent
<1>5. chanId[held.chan] # None
  BY <1>2, <1>4, ConstantsOK
<1>6. held.chan \in Gone \cup {ch[Reader]}
  BY <1>2, <1>4, <1>5 DEF RP!OneOpenChannel, Gone
<1> QED BY <1>1, <1>2, <1>3, <1>6 DEF Delivered

\* The steps of the requester.
LEMMA RequestingMarked ==
    ASSUME Typed, Marked, Lasts, RP!Addressed, RP!OneOpenChannel, Requesting
    PROVE  Marked'
<1>1. UNCHANGED <<responder, rConn>>
  BY DEF Requesting, UserStep, RequesterReads
<1>2. UNCHANGED <<rId, session, rHeld, rpc, rid>>
  BY <1>1 DEF responder
<1>3. Grown(chanId, chanId') /\ \A m \in Q!Message : Sent(chanId, m) => Sent(chanId', m)
  BY SentStays DEF Lasts
<1>4. Creating'
  BY <1>2, <1>3, MarkedTypes DEF Marked, Creating
<1>5. Sessions'
  BY <1>2, <1>3, ConstantsOK, ResponderTypes DEF Marked, Sessions, Grown
<1>6. Streams'
  <2>1. \/ UNCHANGED fromPeer
        \/ fromPeer # <<>> /\ fromPeer' = Tail(fromPeer)
    BY UserRequests, ReaderRequests DEF Requesting
  <2>2. \/ UNCHANGED toPeer
        \/ Requests({"Request"}) \/ Requests({"RequestEnd"})
    BY UserRequests, ReaderRequests DEF Requesting
  <2>3. AllSent(chanId', fromPeer')
    BY <1>3, <2>1, MarkedTypes, AllSentStays DEF Marked, Streams
  <2>4. ASSUME NEW k \in {"Request", "RequestEnd"}, NEW c \in Channel, chanId[c] \in Q!Id,
               toPeer' = Append(toPeer, Q!Msg(k, chanId[c], c))
        PROVE  AllSent(chanId', toPeer')
    <3> DEFINE m == Q!Msg(k, chanId[c], c)
    <3>1. m \in Q!Message /\ Sent(chanId', m)
      <4>1. m \in Q!Message /\ Sent(chanId, m)
        BY <2>4 DEF Q!Msg, Q!Message, Q!Kind, Sent
      <4> QED BY <1>3, <4>1
    <3> QED BY <1>3, <2>4, <3>1, MarkedTypes, AllSentStays DEF Marked, Streams
  <2>5. UNCHANGED toPeer => AllSent(chanId', toPeer')
    BY <1>3, MarkedTypes, AllSentStays DEF Marked, Streams
  <2>6. AllSent(chanId', toPeer')
    BY <2>2, <2>4, <2>5 DEF Requests
  <2> QED BY <2>3, <2>6 DEF Streams
<1>7. ASSUME UNCHANGED inbox
      PROVE  Inboxes'
  BY <1>7, InboxesStay DEF Marked
<1>8. ASSUME held' \in {held, None},
             pc'[Reader] \in {"deliver", "enqueue"} =>
                /\ pc[Reader] \in {"deliver", "enqueue"}
                /\ id'[Reader] = id[Reader] /\ held' = held
      PROVE  Forwarding'
  BY <1>3, <1>8, MarkedTypes DEF Marked, Forwarding
<1>9. ASSUME NEW t \in Q!Thread, Q!Close(t) \/ Q!Remove(t)
      PROVE  Forwarding' /\ Inboxes'
  BY <1>7, <1>8, <1>9, ClosingForwards, MarkedTypes
<1>10. ASSUME NEW u \in User, UserStep(u)
       PROVE  Forwarding' /\ Inboxes'
  <2>0. u # Reader /\ u \in Q!Thread
    BY ConstantsOK DEF Q!Thread
  <2>1. CASE Q!Read(u)
    <3>1. Forwarding'
      BY <1>8, <2>0, <2>1, MarkedTypes DEF Q!Read, Q!GoTo
    <3>2. \A c \in Channel : inbox'[c] = inbox[c] \/
                             (inbox[c] # <<>> /\ inbox'[c] = Tail(inbox[c]))
      BY <2>1, MarkedTypes DEF Q!Read
    <3> QED BY <3>1, <3>2, InboxesStay DEF Marked
  <2>2. CASE \/ Q!UseNull(u) \/ Q!Write(u) \/ Q!Send(u) \/ Q!BeginRead(u)
             \/ Q!ReadTimesOut(u) \/ Q!Terminate(u) \/ Q!UseFreed(u)
    <3>1. UNCHANGED <<inbox, held>>
      BY <2>2 DEF Q!UseNull, Q!Write, Q!Send, Q!BeginRead, Q!ReadTimesOut, Q!Terminate,
                  Q!UseFreed, Q!Fail, Q!objects, Q!threads
    <3>2. pc'[Reader] = pc[Reader] /\ id'[Reader] = id[Reader]
      BY <2>0, <2>2, MarkedTypes
      DEF Q!UseNull, Q!Write, Q!Send, Q!BeginRead, Q!ReadTimesOut, Q!Terminate,
          Q!UseFreed, Q!Fail, Q!GoTo, Q!threads
    <3> QED BY <1>7, <1>8, <3>1, <3>2
  <2>3. CASE Q!Create(u)
    <3>1. UNCHANGED <<inbox, held>>
      BY <2>3 DEF Q!Create, Q!SendRequest, Q!Deref, Q!Acquire, Q!Pop, Q!Install, Q!Fetch,
                  Q!Fail, Q!objects, Q!threads
    <3>2. pc'[Reader] = pc[Reader] /\ id'[Reader] = id[Reader]
      BY <2>0, <2>3, MarkedTypes
      DEF Q!Create, Q!SendRequest, Q!Deref, Q!Acquire, Q!Pop, Q!Install, Q!Fetch,
          Q!Fail, Q!GoTo, Q!At, Q!threads
    <3> QED BY <1>7, <1>8, <3>1, <3>2
  <2> QED BY <1>9, <1>10, <2>0, <2>1, <2>2, <2>3 DEF UserStep
<1>11. ASSUME RequesterReads PROVE Forwarding' /\ Inboxes'
  <2>1. CASE Q!ReceiveEnd
    <3>1. UNCHANGED <<inbox, held>>
      BY <2>1 DEF Q!ReceiveEnd, Q!objects
    <3>2. pc'[Reader] \notin {"deliver", "enqueue"}
      BY <2>1, MarkedTypes DEF Q!ReceiveEnd, Q!GoTo
    <3> QED BY <1>7, <1>8, <3>1, <3>2
  <2>2. CASE Q!ReceiveResponse
    <3>1. UNCHANGED inbox /\ pc[Reader] = "recv" /\ fromPeer # <<>>
      BY <2>2 DEF Q!ReceiveResponse, Q!objects
    <3>2. CASE UNCHANGED <<held, id, pc>>
      BY <1>7, <1>8, <3>1, <3>2
    <3>3. CASE held' = Head(fromPeer) /\ id' = [id EXCEPT ![Reader] = Head(fromPeer).id]
      <4>1. Head(fromPeer) \in Q!Message /\ Sent(chanId', Head(fromPeer))
        <5>1. Head(fromPeer) \in Q!Message
          BY <3>1, MarkedTypes
        <5> QED BY <1>3, <3>1, <5>1, MarkedTypes, AllSentStays DEF Marked, Streams
      <4>2. held' # None /\ id'[Reader] = held'.id
        BY <3>3, <4>1, MarkedTypes, ConstantsOK
      <4> QED BY <1>7, <3>1, <3>3, <4>1, <4>2 DEF Forwarding
    <3> QED BY <2>2, <3>2, <3>3 DEF Q!ReceiveResponse
  <2>3. CASE Q!Deliver
    <3>1. UNCHANGED <<inbox, held, id>> /\ pc[Reader] = "deliver"
      BY <2>3 DEF Q!Deliver, Q!Fail, Q!objects, Q!threads
    <3> QED BY <1>7, <1>8, <3>1
  <2>4. CASE Q!Enqueue
    <3>1. CASE Q!Fail("freed")
      BY <1>7, <1>8, <3>1 DEF Q!Fail, Q!objects, Q!threads
    <3>2. CASE ~Q!Fail("freed")
      <4> DEFINE c == ch[Reader]
      <4>1. /\ pc[Reader] = "enqueue" /\ held' = None /\ pc' = [pc EXCEPT ![Reader] = "recv"]
            /\ UNCHANGED chanId
            /\ inbox' = IF isClosed[c] \/ bufClosed[c] THEN inbox
                        ELSE [inbox EXCEPT ![c] = Append(@, held)]
        BY <2>4, <3>2 DEF Q!Enqueue, Q!GoTo
      <4>2. Forwarding'
        BY <1>8, <4>1, MarkedTypes
      <4>3. ASSUME ~isClosed[c], inbox' = [inbox EXCEPT ![c] = Append(@, held)]
            PROVE  Inboxes'
        <5>1. held \in Q!Message /\ c \in Channel /\ Delivered(chanId, Gone, c, held)
          BY <4>1, <4>3, EnqueueDelivers
        <5> HIDE DEF c
        <5>2. inbox[c] \in Seq(Q!Message)
          BY <5>1, MarkedTypes
        <5>3. ASSUME NEW d \in Channel, NEW k \in DOMAIN inbox'[d]
              PROVE  Delivered(chanId, Gone, d, inbox'[d][k])
          <6>1. CASE d # c
            BY <4>3, <5>1, <5>3, <6>1, MarkedTypes DEF Marked, Inboxes
          <6>2. CASE d = c
            <7>1. inbox'[d] = Append(inbox[c], held)
              BY <4>3, <5>1, <6>2, MarkedTypes
            <7>2. \/ k \in DOMAIN inbox[c] /\ Append(inbox[c], held)[k] = inbox[c][k]
                  \/ Append(inbox[c], held)[k] = held
              BY <5>1, <5>2, <5>3, <7>1
            <7> QED BY <5>1, <6>2, <7>1, <7>2 DEF Marked, Inboxes
          <6> QED BY <6>1, <6>2
        <5> QED BY <4>1, <5>3 DEF Inboxes, Delivered, Lasts
      <4> QED BY <1>7, <4>1, <4>2, <4>3
    <3> QED BY <3>1, <3>2
  <2>5. CASE Q!Close(Reader) \/ Q!Remove(Reader)
    BY <1>9, <2>5, MarkedTypes
  <2>6. CASE Q!Destroy
    <3>1. UNCHANGED <<inbox, held>> /\ pc' = [pc EXCEPT ![Reader] = "gone"]
      BY <2>6 DEF Q!Destroy, Q!GoTo
    <3> QED BY <1>7, <1>8, <3>1, MarkedTypes
  <2> QED BY <1>11, <2>1, <2>2, <2>3, <2>4, <2>5, <2>6 DEF RequesterReads
<1> QED BY <1>4, <1>5, <1>6, <1>10, <1>11 DEF Marked, Requesting

\* An end that hangs up drops what it has not read.
LEMMA HangUpMarked ==
    ASSUME Typed, Marked, Lasts, RequesterHangsUp \/ ResponderHangsUp
    PROVE  Marked'
<1>1. UNCHANGED <<chanId, inbox, held, id, rId, session, rHeld, rid>>
  BY DEF RequesterHangsUp, ResponderHangsUp, Q!HangUp, P!HangUp, requester, responder,
         Q!objects, P!rObjects
<1>2. /\ pc'[Reader] \in {pc[Reader], "check"}
      /\ rpc'[Reader] \in {rpc[Reader], "check"}
  BY MarkedTypes DEF RequesterHangsUp, ResponderHangsUp, Q!HangUp, P!HangUp, Q!GoTo, P!GoTo,
                     requester, responder
<1>3. Forwarding' /\ Creating' /\ Sessions'
  BY <1>1, <1>2 DEF Marked, Forwarding, Creating, Sessions
<1>4. toPeer' \in {toPeer, <<>>} /\ fromPeer' \in {fromPeer, <<>>}
  BY DEF RequesterHangsUp, ResponderHangsUp, Q!HangUp, P!HangUp
<1>5. Streams'
  BY <1>1, <1>4, MarkedTypes, AllSentStays DEF Marked, Streams, Lasts
<1> QED BY <1>1, <1>3, <1>5, InboxesStay DEF Marked

\* Every step keeps the sessions and the ids of messages together.
LEMMA NextMarked ==
    ASSUME Typed, Marked, RP!Addressed, RP!OneOpenChannel, [Next]_vars
    PROVE  Marked'
<1>1. Lasts
  BY NextLasts
<1>2. CASE UNCHANGED vars
  BY <1>2 DEF vars, requester, responder, Marked, Streams, Forwarding, Creating, Sessions,
              Inboxes, Gone
<1> QED BY <1>1, <1>2, RequestingMarked, RespondingMarked, HangUpMarked
        DEF Next, Requesting, Responding

\* A response reaches the request that asked for it or, when that one has been
\* closed, one that has got its id: until two removals overlap, a request that is
\* open never loses a response to another one.
THEOREM ResponsesStrayLate == Spec => []OnlyLateResponsesStray
<1>1. Marked => OnlyLateResponsesStray
  BY DEF Marked, Inboxes, Delivered, Sent, Gone, OnlyLateResponsesStray
<1>2. Init => Marked
  <2> SUFFICES ASSUME Init PROVE Marked
    OBVIOUS
  <2>1. /\ toPeer = <<>> /\ fromPeer = <<>> /\ held = None /\ rHeld = None
        /\ \A c \in Channel : inbox[c] = <<>>
        /\ \A r \in RChannel : rId[r] = None
    BY DEF Init, Q!Init, P!Init
  <2>2. pc[Reader] = "recv" /\ rpc[Reader] = "recv"
    BY DEF Init, Q!Init, P!Init, Q!Thread, P!Thread
  <2>3. \A k \in DOMAIN <<>> : FALSE
    <3>1. <<>> \in Seq(Q!Message) /\ Len(<<>>) = 0
      OBVIOUS
    <3> QED BY <3>1
  <2>4. Streams /\ Inboxes
    BY <2>1, <2>3 DEF Streams, AllSent, Inboxes
  <2> QED BY <2>1, <2>2, <2>4 DEF Marked, Forwarding, Creating, Sessions
<1>3. Spec => RP!Spec
  <2>1. /\ R!Init => RP!Init
        /\ [R!Next]_R!vars => [RP!Next]_RP!vars
    BY SameRequester
  <2> QED BY <2>1, RequesterRefines, PTL DEF RequesterSpec, R!Spec, RP!Spec
<1>4. RP!Spec => [](RP!Addressed /\ RP!OneOpenChannel)
  BY RP!OpenChannelsDiffer, ConstantsOK, Alphabet DEF IsFiniteSet, RP!IsFiniteSet
<1>5. Typed /\ Marked /\ RP!Addressed /\ RP!OneOpenChannel /\ [Next]_vars => Marked'
  BY NextMarked
<1> QED BY <1>1, <1>2, <1>3, <1>4, <1>5, TypedAlways, PTL DEF Spec

=============================================================================
