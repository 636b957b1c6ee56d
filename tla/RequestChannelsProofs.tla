----------------------- MODULE RequestChannelsProofs ------------------------
(***************************************************************************)
(* Theorems about RequestChannels, for every number of ids, application    *)
(* threads and channel objects: type correctness, and that                 *)
(* freeListSemaphore and the stack of free ids agree.                      *)
(***************************************************************************)
EXTENDS RequestChannels, FiniteSetTheorems, TLAPS

(***************************************************************************)
(* Type correctness.  It needs to know which pointers are not null, and    *)
(* that a pointer that is not null leads to a constructed channel.         *)
(***************************************************************************)
PointersOK ==
    /\ \A i \in Id : requestChannel[i] # None => chanId[requestChannel[i]] # None
    /\ \A u \in User : req[u] # None => chanId[req[u]] # None
    /\ \A t \in Thread : ch[t] # None => chanId[ch[t]] # None
    /\ \A u \in User : pc[u] \in {"send", "read"} => req[u] # None
    /\ \A t \in Thread : pc[t] \in {"end", "mark", "enqueue"} => ch[t] # None
    /\ pc[Reader] \in {"deliver", "enqueue"} => held # None

Typed == TypeOK /\ PointersOK

-----------------------------------------------------------------------------
(* Lemmas about what the actions share.                                    *)

LEMMA SeqFacts ==
    ASSUME NEW S
    PROVE  /\ \A s \in Seq(S) : s # <<>> => Head(s) \in S /\ Tail(s) \in Seq(S)
           /\ \A s \in Seq(S), e \in S : Append(s, e) \in Seq(S)
           /\ <<>> \in Seq(S)
OBVIOUS

LEMMA MsgType ==
    ASSUME NEW k \in Kind, NEW i \in Id, NEW c \in Channel \cup {None}
    PROVE  Msg(k, i, c) \in Message
BY DEF Msg, Message

LEMMA EmitTyped ==
    ASSUME TypeOK, NEW m \in Message, Emit(m)
    PROVE  toPeer' \in Seq(Message) /\ fault' \in {"none", "null", "freed", "pipe"}
<1>1. toPeer \in Seq(Message) /\ fault \in {"none", "null", "freed", "pipe"}
  BY DEF TypeOK
<1>2. toPeer' \in {toPeer, Append(toPeer, m)} /\ fault' \in {fault, "none", "pipe"}
  BY DEF Emit
<1> QED BY <1>1, <1>2, SeqFacts

\* What a return changes is well typed, and leaves no pointer dangling.
LEMMA FinishTyped ==
    ASSUME TypeOK, NEW t \in Thread, Finish(t)
    PROVE  /\ pc' \in [Thread -> Labels]
           /\ id' \in [Thread -> Id]
           /\ ch' \in [Thread -> Channel \cup {None}]
           /\ req' \in [User -> Channel \cup {None}]
           /\ depth' \in [Thread -> Nat]
           /\ \A s \in Thread : s # t => pc'[s] = pc[s]
           /\ \A s \in Thread : ch'[s] \in {ch[s], None}
           /\ \A u \in User : req'[u] \in {req[u], None}
           /\ pc'[t] \in {"push", "idle", "recv", "check", "destroy"}
           /\ \A s \in Thread : s # t => ch'[s] = ch[s]
<1>1. /\ pc \in [Thread -> Labels]
      /\ id \in [Thread -> Id]
      /\ ch \in [Thread -> Channel \cup {None}]
      /\ req \in [User -> Channel \cup {None}]
      /\ depth \in [Thread -> Nat]
  BY DEF TypeOK
<1>2. \E l \in {"push", "idle", "recv", "check", "destroy"} : pc' = [pc EXCEPT ![t] = l]
  BY DEF Finish, GoTo
<1>3. /\ pc' \in [Thread -> Labels]
      /\ \A s \in Thread : s # t => pc'[s] = pc[s]
      /\ pc'[t] \in {"push", "idle", "recv", "check", "destroy"}
  BY <1>1, <1>2 DEF Labels, RemoveLabels
<1>4. depth' = depth \/ (depth[t] > 0 /\ depth' = [depth EXCEPT ![t] = depth[t] - 1])
  BY DEF Finish
<1>5. depth' \in [Thread -> Nat]
  BY <1>1, <1>4
<1>6. ch' = ch \/ ch' = [ch EXCEPT ![t] = None]
  BY DEF Finish
<1>7. /\ ch' \in [Thread -> Channel \cup {None}]
      /\ \A s \in Thread : ch'[s] \in {ch[s], None}
      /\ \A s \in Thread : s # t => ch'[s] = ch[s]
  BY <1>1, <1>6
<1>8. req' = req \/ (t \in User /\ req' = [req EXCEPT ![t] = None])
  BY DEF Finish
<1>9. /\ req' \in [User -> Channel \cup {None}]
      /\ \A u \in User : req'[u] \in {req[u], None}
  BY <1>1, <1>8
<1>10. \/ id' = id
       \/ id' = [id EXCEPT ![t] = 0]
       \/ id[t] < MaxChannels - 1 /\ id' = [id EXCEPT ![t] = id[t] + 1]
  BY DEF Finish
<1>11. 0 \in Id /\ \A i \in Id : i < MaxChannels - 1 => i + 1 \in Id
  BY ConstantsOK DEF ConstantsOK, Id
<1>12. id' \in [Thread -> Id]
  BY <1>1, <1>10, <1>11
<1> QED BY <1>3, <1>5, <1>7, <1>9, <1>12

LEMMA FinishPointers ==
    ASSUME Typed, NEW t \in Thread, Finish(t),
           UNCHANGED <<requestChannel, chanId, held>>
    PROVE  PointersOK'
<1>1. \A i \in Id : requestChannel'[i] # None => chanId'[requestChannel'[i]] # None
  BY DEF Typed, PointersOK
<1>2. \A u \in User : req'[u] # None => chanId'[req'[u]] # None
  BY FinishTyped DEF Typed, PointersOK
<1>3. \A s \in Thread : ch'[s] # None => chanId'[ch'[s]] # None
  BY FinishTyped DEF Typed, PointersOK
<1>4. \A u \in User : pc'[u] \in {"send", "read"} => req'[u] # None
  <2> TAKE u \in User
  <2>1. CASE u = t
    BY <2>1, FinishTyped DEF Typed
  <2>2. CASE u # t
    <3>1. req' = req \/ (t \in User /\ req' = [req EXCEPT ![t] = None])
      BY DEF Finish
    <3> QED BY <2>2, <3>1, FinishTyped DEF Typed, PointersOK, Thread
  <2> QED BY <2>1, <2>2
<1>5. \A s \in Thread : pc'[s] \in {"end", "mark", "enqueue"} => ch'[s] # None
  BY FinishTyped DEF Typed, PointersOK
<1>6. pc'[Reader] \in {"deliver", "enqueue"} => held' # None
  BY FinishTyped DEF Typed, PointersOK, Thread
<1> QED BY <1>1, <1>2, <1>3, <1>4, <1>5, <1>6 DEF PointersOK

-----------------------------------------------------------------------------
(* The initial states, and one lemma for each action.                      *)

LEMMA InitTyped == Init => Typed
<1> SUFFICES ASSUME Init PROVE Typed
  OBVIOUS
<1>1. TypeOK
  <2> USE DEF Init
  <2>1. freeSem \in Nat /\ alive \in BOOLEAN /\ overlap \in BOOLEAN
    BY ConstantsOK DEF ConstantsOK
  <2>2. freeList \in Seq(Id)
    BY ConstantsOK DEF ConstantsOK, Id, AllIds
  <2>3. id \in [Thread -> Id] /\ depth \in [Thread -> Nat]
    BY ConstantsOK DEF ConstantsOK, Id
  <2>4. pc \in [Thread -> Labels]
    BY DEF Labels
  <2>5. QED
    BY <2>1, <2>2, <2>3, <2>4 DEF TypeOK
<1>2. PointersOK
  BY DEF Init, PointersOK, Thread
<1> QED BY <1>1, <1>2 DEF Typed

LEMMA CreateTyped ==
    ASSUME Typed, NEW u \in User, Create(u)
    PROVE  Typed'
<1> USE ConstantsOK DEF ConstantsOK, Typed, GoTo, Thread
<1>1. CASE SendRequest(u)
  <2>1. TypeOK'
    <3>1. pc' \in [Thread -> Labels]
      BY <1>1 DEF TypeOK, SendRequest, Labels
    <3> QED BY <1>1, <3>1 DEF TypeOK, SendRequest, manager, objects, network
  <2>2. PointersOK'
    BY <1>1 DEF TypeOK, PointersOK, SendRequest, manager, objects, network
  <2> QED BY <2>1, <2>2
<1>2. CASE Deref(u)
  <2>1. TypeOK'
    <3>1. pc' \in [Thread -> Labels] /\ fault' \in {"none", "null", "freed", "pipe"}
      BY <1>2 DEF TypeOK, Deref, Fail, Labels, CreateLabels, threads
    <3> QED BY <1>2, <3>1 DEF TypeOK, Deref, Fail, manager, objects, threads, network
  <2>2. PointersOK'
    BY <1>2 DEF TypeOK, PointersOK, Deref, Fail, manager, objects, threads, network
  <2> QED BY <2>1, <2>2
<1>3. CASE Acquire(u)
  <2>1. TypeOK'
    BY <1>3 DEF TypeOK, PointersOK, Labels, CreateLabels, Acquire, At, objects, network
  <2>2. PointersOK'
    BY <1>3 DEF TypeOK, PointersOK, Acquire, At, objects, network
  <2> QED BY <2>1, <2>2
<1>4. CASE Pop(u)
  <2>1. /\ freeList[Len(freeList)] \in Id
        /\ SubSeq(freeList, 1, Len(freeList) - 1) \in Seq(Id)
    BY <1>4 DEF TypeOK, Pop
  <2>2. TypeOK'
    BY <1>4, <2>1 DEF TypeOK, Labels, CreateLabels, Pop, objects, network
  <2>3. PointersOK'
    BY <1>4 DEF TypeOK, PointersOK, Pop, objects, network
  <2> QED BY <2>2, <2>3
<1>5. CASE Install(u)
  <2>1. PICK c \in Fresh :
            /\ chanId' = [chanId EXCEPT ![c] = id[u]]
            /\ requestChannel' = [requestChannel EXCEPT ![id[u]] = c]
    BY <1>5 DEF Install
  <2>2. c \in Channel /\ c # None /\ id[u] \in Id /\ id[u] # None
    BY DEF Fresh, TypeOK
  <2>3. TypeOK'
    BY <1>5, <2>1, <2>2 DEF TypeOK, Labels, CreateLabels, Install, network
  <2>4. PointersOK'
    BY <1>5, <2>1, <2>2 DEF TypeOK, PointersOK, Install, network
  <2> QED BY <2>3, <2>4
<1>6. CASE Fetch(u)
  <2>1. TypeOK'
    BY <1>6 DEF TypeOK, PointersOK, Labels, Fetch, At, manager, objects, network
  <2>2. PointersOK'
    BY <1>6 DEF TypeOK, PointersOK, Fetch, At, manager, objects, network
  <2> QED BY <2>1, <2>2
<1> QED BY <1>1, <1>2, <1>3, <1>4, <1>5, <1>6 DEF Create

LEMMA UseTyped ==
    ASSUME Typed, NEW u \in User, Use(u)
    PROVE  Typed'
<1> USE ConstantsOK DEF ConstantsOK, Typed, GoTo, Thread
<1>1. CASE UseNull(u)
  <2>1. TypeOK'
    BY <1>1 DEF TypeOK, PointersOK, Labels, UseNull, Fail, manager, objects, threads, network
  <2>2. PointersOK'
    BY <1>1 DEF TypeOK, PointersOK, UseNull, Fail, manager, objects, threads, network
  <2> QED BY <2>1, <2>2
<1>2. CASE Write(u)
  <2>1. TypeOK'
    BY <1>2 DEF TypeOK, PointersOK, Labels, Write, manager, objects, network
  <2>2. PointersOK'
    BY <1>2 DEF TypeOK, PointersOK, Write, manager, objects, network
  <2> QED BY <2>1, <2>2
<1>3. CASE Send(u)
  <2>1. req[u] \in Channel /\ chanId[req[u]] \in Id
    BY <1>3 DEF TypeOK, PointersOK, Send
  <2>2. Msg("Request", chanId[req[u]], req[u]) \in Message
    BY <2>1, MsgType DEF Kind
  <2>3. toPeer' \in Seq(Message) /\ fault' \in {"none", "null", "freed", "pipe"}
    BY <1>3, <2>2, EmitTyped DEF Send
  <2>4. TypeOK'
    BY <1>3, <2>3 DEF TypeOK, Labels, Send, manager, objects
  <2>5. PointersOK'
    BY <1>3 DEF TypeOK, PointersOK, Send, manager, objects
  <2> QED BY <2>4, <2>5
<1>4. CASE BeginRead(u)
  <2>1. TypeOK'
    BY <1>4 DEF TypeOK, PointersOK, Labels, BeginRead, manager, objects, network
  <2>2. PointersOK'
    BY <1>4 DEF TypeOK, PointersOK, BeginRead, manager, objects, network
  <2> QED BY <2>1, <2>2
<1>5. CASE Read(u)
  <2>1. req[u] \in Channel /\ inbox \in [Channel -> Seq(Message)]
    BY <1>5 DEF TypeOK, PointersOK, Read
  <2>2. inbox' \in [Channel -> Seq(Message)]
    <3>1. CASE inbox[req[u]] # <<>> /\ inbox' = [inbox EXCEPT ![req[u]] = Tail(@)]
      <4>1. Tail(inbox[req[u]]) \in Seq(Message)
        BY <2>1, <3>1, SeqFacts
      <4> QED BY <2>1, <3>1, <4>1
    <3>2. CASE UNCHANGED inbox
      BY <2>1, <3>2
    <3> QED BY <1>5, <3>1, <3>2 DEF Read
  <2>3. TypeOK'
    BY <1>5, <2>2 DEF TypeOK, Labels, Read, manager, network
  <2>4. PointersOK'
    BY <1>5 DEF TypeOK, PointersOK, Read, manager, network
  <2> QED BY <2>3, <2>4
<1>6. CASE Terminate(u)
  <2>1. TypeOK'
    BY <1>6 DEF TypeOK, PointersOK, Labels, Terminate, manager, objects, network
  <2>2. PointersOK'
    BY <1>6 DEF TypeOK, PointersOK, Terminate, manager, objects, network
  <2> QED BY <2>1, <2>2
<1>7. CASE ReadTimesOut(u)
  <2>1. TypeOK'
    BY <1>7 DEF TypeOK, PointersOK, Labels, ReadTimesOut, manager, objects, network
  <2>2. PointersOK'
    BY <1>7 DEF TypeOK, PointersOK, ReadTimesOut, manager, objects, network
  <2> QED BY <2>1, <2>2
<1> QED BY <1>1, <1>2, <1>3, <1>4, <1>5, <1>6, <1>7 DEF Use

LEMMA CloseTyped ==
    ASSUME Typed, NEW t \in Thread, Close(t)
    PROVE  Typed'
<1> USE ConstantsOK DEF ConstantsOK, Typed, GoTo, Thread
<1>1. CASE CloseCheck(t)
  <2>1. CASE Fail("null")
    BY <2>1 DEF TypeOK, PointersOK, Fail, manager, objects, threads, network
  <2>2. CASE Finish(t) /\ UNCHANGED <<manager, objects, held, network, fault, overlap>>
    <3>1. TypeOK'
      BY <2>2, FinishTyped DEF TypeOK, manager, objects, network
    <3>2. PointersOK'
      BY <2>2, FinishPointers DEF manager, objects
    <3> QED BY <3>1, <3>2
  <2>3. CASE /\ ch[t] # None
             /\ bufClosed' = [bufClosed EXCEPT ![ch[t]] = TRUE]
             /\ GoTo(t, "end")
             /\ UNCHANGED <<manager, chanId, isClosed, inbox, id, ch, req, depth, held,
                            network, fault, overlap>>
    <3>1. TypeOK'
      BY <2>3 DEF TypeOK, Labels, manager, network
    <3>2. PointersOK'
      BY <2>3 DEF TypeOK, PointersOK, manager, network
    <3> QED BY <3>1, <3>2
  <2> QED BY <1>1, <2>1, <2>2, <2>3 DEF CloseCheck
<1>2. CASE SendEnd(t)
  <2>1. ch[t] \in Channel /\ chanId[ch[t]] \in Id
    BY <1>2 DEF TypeOK, PointersOK, SendEnd
  <2>2. Msg(OwnEnd, chanId[ch[t]], ch[t]) \in Message
    BY <2>1, MsgType DEF Kind, OwnEnd
  <2>3. toPeer' \in Seq(Message) /\ fault' \in {"none", "null", "freed", "pipe"}
    BY <1>2, <2>2, EmitTyped DEF SendEnd
  <2>4. TypeOK'
    BY <1>2, <2>3 DEF TypeOK, Labels, SendEnd, manager, objects
  <2>5. PointersOK'
    BY <1>2 DEF TypeOK, PointersOK, SendEnd, manager, objects
  <2> QED BY <2>4, <2>5
<1>3. CASE MarkClosed(t)
  <2>1. TypeOK'
    BY <1>3 DEF TypeOK, PointersOK, Labels, RemoveLabels, MarkClosed, manager, network
  <2>2. PointersOK'
    BY <1>3 DEF TypeOK, PointersOK, MarkClosed, manager, network
  <2> QED BY <2>1, <2>2
<1> QED BY <1>1, <1>2, <1>3 DEF Close

LEMMA RemoveTyped ==
    ASSUME Typed, NEW t \in Thread, Remove(t)
    PROVE  Typed'
<1> USE ConstantsOK DEF ConstantsOK, Typed, GoTo, Thread
<1>1. CASE RemoveCheck(t)
  <2>1. CASE Finish(t) /\ UNCHANGED <<manager, objects, held, network, fault, overlap>>
    <3>1. TypeOK'
      BY <2>1, FinishTyped DEF TypeOK, manager, objects, network
    <3>2. PointersOK'
      BY <2>1, FinishPointers DEF manager, objects
    <3> QED BY <3>1, <3>2
  <2>2. CASE /\ GoTo(t, "load")
             /\ overlap' \in BOOLEAN
             /\ UNCHANGED <<manager, objects, id, ch, req, depth, held, network, fault>>
    <3>1. TypeOK'
      BY <2>2 DEF TypeOK, Labels, RemoveLabels, manager, objects, network
    <3>2. PointersOK'
      BY <2>2 DEF TypeOK, PointersOK, manager, objects
    <3> QED BY <3>1, <3>2
  <2> QED BY <1>1, <2>1, <2>2 DEF RemoveCheck, TypeOK
<1>2. CASE RemoveLoad(t)
  <2>1. TypeOK'
    BY <1>2 DEF TypeOK, PointersOK, Labels, RemoveLabels, RemoveLoad, manager, objects, network
  <2>2. PointersOK'
    BY <1>2 DEF TypeOK, PointersOK, RemoveLoad, manager, objects, network
  <2> QED BY <2>1, <2>2
<1>3. CASE RemoveStore(t)
  <2>1. TypeOK'
    BY <1>3 DEF TypeOK, PointersOK, Labels, RemoveStore, objects, network
  <2>2. PointersOK'
    BY <1>3 DEF TypeOK, PointersOK, RemoveStore, objects, network
  <2> QED BY <2>1, <2>2
<1>4. CASE Push(t)
  <2>1. freeList' \in Seq(Id)
    BY <1>4, SeqFacts DEF TypeOK, Push
  <2>2. TypeOK'
    BY <1>4, <2>1 DEF TypeOK, Labels, RemoveLabels, Push, objects, network
  <2>3. PointersOK'
    BY <1>4 DEF TypeOK, PointersOK, Push, objects
  <2> QED BY <2>2, <2>3
<1>5. CASE Release(t)
  <2>1. freeSem' \in Nat
    BY <1>5 DEF TypeOK, Release
  <2>2. TypeOK'
    BY <1>5, <2>1, FinishTyped DEF TypeOK, Release, objects, network
  <2>3. PointersOK'
    BY <1>5, FinishPointers DEF Release, objects
  <2> QED BY <2>2, <2>3
<1> QED BY <1>1, <1>2, <1>3, <1>4, <1>5 DEF Remove

LEMMA ForwardTyped ==
    ASSUME Typed, Forward
    PROVE  Typed'
<1> USE ConstantsOK DEF ConstantsOK, Typed, GoTo, Thread
<1>1. CASE ReceiveEnd
  <2>1. Head(fromPeer) \in Message /\ fromPeer' \in Seq(Message)
    BY <1>1, SeqFacts DEF TypeOK, ReceiveEnd
  <2>2. Head(fromPeer).id \in Id
    BY <2>1 DEF Message
  <2>3. TypeOK'
    BY <1>1, <2>1, <2>2 DEF TypeOK, ReceiveEnd, Labels, RemoveLabels, manager, objects
  <2>4. PointersOK'
    BY <1>1 DEF TypeOK, PointersOK, ReceiveEnd, manager, objects
  <2> QED BY <2>3, <2>4
<1>2. CASE ReceiveResponse
  <2>1. Head(fromPeer) \in Message /\ fromPeer' \in Seq(Message)
    BY <1>2, SeqFacts DEF TypeOK, ReceiveResponse
  <2>2. Head(fromPeer).id \in Id
    BY <2>1 DEF Message
  <2>3. held' \in Message \cup {None}
    BY <1>2, <2>1 DEF TypeOK, ReceiveResponse
  <2>4. TypeOK'
    BY <1>2, <2>1, <2>2, <2>3 DEF TypeOK, ReceiveResponse, Labels, manager, objects
  <2>5. PointersOK'
    BY <1>2, <2>1 DEF TypeOK, PointersOK, ReceiveResponse, manager, objects
  <2> QED BY <2>4, <2>5
<1>3. CASE Deliver
  <2>1. TypeOK'
    BY <1>3 DEF TypeOK, PointersOK, Labels, Deliver, Fail, manager, objects, threads, network
  <2>2. PointersOK'
    BY <1>3 DEF TypeOK, PointersOK, Deliver, Fail, manager, objects, threads, network
  <2> QED BY <2>1, <2>2
<1>4. CASE Enqueue
  <2>1. /\ ch[Reader] \in Channel
        /\ held \in Message
        /\ inbox \in [Channel -> Seq(Message)]
    BY <1>4 DEF TypeOK, PointersOK, Enqueue
  <2>2. Append(inbox[ch[Reader]], held) \in Seq(Message)
    BY <2>1, SeqFacts
  <2>3. \/ inbox' = inbox
        \/ inbox' = [inbox EXCEPT ![ch[Reader]] = Append(inbox[ch[Reader]], held)]
    BY <1>4 DEF Enqueue, Fail, objects
  <2>4. inbox' \in [Channel -> Seq(Message)]
    BY <2>1, <2>2, <2>3
  <2>5. /\ pc' \in [Thread -> Labels]
        /\ id' \in [Thread -> Id]
        /\ ch' \in [Thread -> Channel \cup {None}]
        /\ held' \in Message \cup {None}
    BY <1>4 DEF TypeOK, Enqueue, Fail, threads, Labels, Id
  <2>6. fault' \in {"none", "null", "freed", "pipe"}
    BY <1>4 DEF TypeOK, Enqueue, Fail
  <2>7. TypeOK'
    BY <1>4, <2>4, <2>5, <2>6 DEF TypeOK, Enqueue, Fail, manager, objects, threads, network
  <2>8. PointersOK'
    BY <1>4 DEF TypeOK, PointersOK, Enqueue, Fail, manager, objects, threads
  <2> QED BY <2>7, <2>8
<1>5. CASE HangUp
  <2>1. fromPeer' \in Seq(Message)
    BY <1>5, SeqFacts DEF HangUp
  <2>2. TypeOK'
    BY <1>5, <2>1 DEF TypeOK, HangUp, Labels, RemoveLabels, manager, objects
  <2>3. PointersOK'
    BY <1>5 DEF TypeOK, PointersOK, HangUp, manager, objects
  <2> QED BY <2>2, <2>3
<1> QED BY <1>1, <1>2, <1>3, <1>4, <1>5 DEF Forward

\* The destructor empties the table.
LEMMA DestroyTyped ==
    ASSUME Typed, Destroy
    PROVE  Typed'
<1> USE ConstantsOK DEF ConstantsOK, Typed, GoTo, Thread
<1>1. fault' \in {"none", "freed"}
  BY DEF Destroy
<1>2. TypeOK'
  BY <1>1 DEF TypeOK, Labels, Destroy, network
<1>3. PointersOK'
  BY DEF TypeOK, PointersOK, Destroy
<1> QED BY <1>2, <1>3

LEMMA PeerTyped ==
    ASSUME Typed, Peer
    PROVE  Typed'
<1> USE ConstantsOK DEF ConstantsOK, Typed, GoTo, Thread
<1>1. CASE PeerReads
  <2>1. TypeOK'
    BY <1>1, SeqFacts DEF TypeOK, PeerReads, manager, objects, threads
  <2>2. PointersOK'
    BY <1>1 DEF TypeOK, PointersOK, PeerReads, manager, objects, threads
  <2> QED BY <2>1, <2>2
<1>2. CASE PeerSends
  <2>1. fromPeer' \in Seq(Message)
    BY <1>2, SeqFacts, MsgType DEF TypeOK, PeerSends, Kind
  <2>2. TypeOK'
    BY <1>2, <2>1 DEF TypeOK, PeerSends, manager, objects, threads
  <2>3. PointersOK'
    BY <1>2 DEF PointersOK, PeerSends, manager, objects, threads
  <2> QED BY <2>2, <2>3
<1>3. CASE PeerHangsUp
  <2>1. toPeer' \in Seq(Message) /\ conn' \in {"up", "eof", "closed"}
    BY <1>3, SeqFacts DEF TypeOK, PeerHangsUp
  <2>2. TypeOK'
    BY <1>3, <2>1 DEF TypeOK, PeerHangsUp, manager, objects, threads
  <2>3. PointersOK'
    BY <1>3 DEF PointersOK, PeerHangsUp, manager, objects, threads
  <2> QED BY <2>2, <2>3
<1> QED BY <1>1, <1>2, <1>3 DEF Peer

LEMMA NextTyped == Typed /\ [Next]_vars => Typed'
<1> SUFFICES ASSUME Typed, [Next]_vars
             PROVE  Typed'
  OBVIOUS
<1>1. ASSUME NEW u \in User, UserStep(u)
      PROVE  Typed'
  <2>1. u \in Thread
    BY DEF Thread
  <2>2. CASE UseFreed(u)
    BY <2>2 DEF Typed, TypeOK, PointersOK, UseFreed, Fail, manager, objects, threads, network
  <2> QED BY <1>1, <2>1, <2>2, CreateTyped, UseTyped, CloseTyped, RemoveTyped DEF UserStep
<1>2. CASE ReaderStep
  <2>1. Reader \in Thread
    BY DEF Thread
  <2> QED BY <1>2, <2>1, ForwardTyped, DestroyTyped, CloseTyped, RemoveTyped DEF ReaderStep
<1>3. CASE UNCHANGED vars
  BY <1>3 DEF Typed, TypeOK, PointersOK, vars, manager, objects, threads, network
<1> QED BY <1>1, <1>2, <1>3, PeerTyped DEF Next

\* Every variable stays within its type, for any number of ids, threads and
\* channel objects: the ids that createRequestChannel pops are in range, and
\* close() and removeRequestChannel() find the id of the channel they work on.
THEOREM TypeCorrect == Spec => []TypeOK
<1>1. Typed => TypeOK
  BY DEF Typed
<1> QED BY <1>1, InitTyped, NextTyped, PTL DEF Spec

-----------------------------------------------------------------------------
(* The semaphore and the stack.                                            *)

Balance == Len(freeList) = freeSem + Cardinality(Popping) + Cardinality(Releasing)

\* A step that touches neither count, and moves no thread into or out of the
\* labels between the two.
Level ==
    /\ UNCHANGED <<freeSem, freeList>>
    /\ \A t \in Thread :
          /\ pc'[t] = "pop" <=> pc[t] = "pop"
          /\ pc'[t] = "release" <=> pc[t] = "release"

\* Such steps keep the balance.
LEMMA LevelBalance ==
    ASSUME Balance, Level
    PROVE  Balance'
<1>1. Popping' = Popping
  BY DEF Level, Popping, Thread
<1>2. Releasing' = Releasing
  BY DEF Level, Releasing
<1> QED BY <1>1, <1>2 DEF Balance, Level

\* Both sets of threads are finite, because the process has finitely many.
LEMMA FiniteThreads ==
    /\ IsFiniteSet(Popping) /\ Cardinality(Popping) \in Nat
    /\ IsFiniteSet(Releasing) /\ Cardinality(Releasing) \in Nat
<1>1. IsFiniteSet(User) /\ IsFiniteSet(Thread)
  BY ConstantsOK, FS_AddElement DEF ConstantsOK, Thread
<1>2. IsFiniteSet(Popping) /\ IsFiniteSet(Releasing)
  BY <1>1, FS_Subset DEF Popping, Releasing
<1> QED BY <1>2, FS_CardinalityType

\* A call returns to its caller.
LEMMA FinishMoves ==
    ASSUME NEW t \in Thread, Finish(t)
    PROVE  \E b \in Labels \ {"pop", "release"} : GoTo(t, b)
BY DEF Finish, Labels, CreateLabels, RemoveLabels

\* acquire() trades a unit of the semaphore for the right to pop.
LEMMA AcquireBalance ==
    ASSUME Typed, Balance, NEW u \in User, Acquire(u)
    PROVE  Balance'
<1>1. /\ freeSem \in Nat /\ freeSem > 0 /\ freeSem' = freeSem - 1 /\ freeList' = freeList
      /\ pc[u] = "acquire" /\ pc \in [Thread -> Labels] /\ pc' = [pc EXCEPT ![u] = "pop"]
  BY DEF Acquire, At, GoTo, Typed, TypeOK
<1>2. u \notin Popping /\ Popping' = Popping \cup {u} /\ Releasing' = Releasing
  BY <1>1 DEF Popping, Releasing, Thread
<1>3. Cardinality(Popping') = Cardinality(Popping) + 1
  BY <1>2, FiniteThreads, FS_AddElement
<1> QED BY <1>1, <1>2, <1>3, FiniteThreads DEF Balance

\* What pop() leaves on a stack is one shorter.
LEMMA ButLast ==
    ASSUME NEW S, NEW s \in Seq(S), s # <<>>
    PROVE  Len(SubSeq(s, 1, Len(s) - 1)) = Len(s) - 1
<1> DEFINE q == SubSeq(s, 1, Len(s) - 1)
           n == Len(s) - 1
<1>1. n \in Nat /\ Len(q) \in Nat
  OBVIOUS
<1>2. DOMAIN q = 1 .. n
  OBVIOUS
<1>3. DOMAIN q = 1 .. Len(q)
  OBVIOUS
<1> HIDE DEF q, n
<1>4. \A m, l \in Nat : 1 .. m = 1 .. l => m = l
  <2> SUFFICES ASSUME NEW m \in Nat, NEW l \in Nat, m < l
               PROVE  1 .. m # 1 .. l
    OBVIOUS
  <2>1. l \in 1 .. l /\ l \notin 1 .. m
    OBVIOUS
  <2> QED BY <2>1
<1>5. Len(q) = n
  BY <1>1, <1>2, <1>3, <1>4
<1> QED BY <1>5 DEF q, n

\* The right to pop is used up by a pop.
LEMMA PopBalance ==
    ASSUME Typed, Balance, NEW u \in User, Pop(u)
    PROVE  Balance'
<1>1. /\ freeSem \in Nat /\ freeSem' = freeSem /\ freeList \in Seq(Id) /\ freeList # <<>>
      /\ freeList' = SubSeq(freeList, 1, Len(freeList) - 1)
      /\ pc[u] = "pop" /\ pc \in [Thread -> Labels] /\ pc' = [pc EXCEPT ![u] = "install"]
  BY DEF Pop, At, GoTo, Typed, TypeOK
<1>2. Len(freeList') = Len(freeList) - 1
  BY <1>1, ButLast
<1>3. u \in Popping /\ Popping' = Popping \ {u} /\ Releasing' = Releasing
  BY <1>1 DEF Popping, Releasing, Thread
<1>4. Cardinality(Popping') = Cardinality(Popping) - 1
  BY <1>3, FiniteThreads, FS_RemoveElement
<1> QED BY <1>1, <1>2, <1>3, <1>4, FiniteThreads DEF Balance

\* An id that is pushed has yet to be announced.
LEMMA PushBalance ==
    ASSUME Typed, Balance, NEW t \in Thread, Push(t)
    PROVE  Balance'
<1>1. /\ freeSem \in Nat /\ freeSem' = freeSem /\ freeList \in Seq(Id) /\ id[t] \in Id
      /\ freeList' = Append(freeList, id[t])
      /\ pc[t] = "push" /\ pc \in [Thread -> Labels] /\ pc' = [pc EXCEPT ![t] = "release"]
  BY DEF Push, At, GoTo, Typed, TypeOK
<1>2. Len(freeList') = Len(freeList) + 1
  BY <1>1
<1>3. t \notin Releasing /\ Releasing' = Releasing \cup {t} /\ Popping' = Popping
  BY <1>1 DEF Popping, Releasing, Thread
<1>4. Cardinality(Releasing') = Cardinality(Releasing) + 1
  BY <1>3, FiniteThreads, FS_AddElement
<1> QED BY <1>1, <1>2, <1>3, <1>4, FiniteThreads DEF Balance

\* release() announces it.
LEMMA ReleaseBalance ==
    ASSUME Typed, Balance, NEW t \in Thread, Release(t)
    PROVE  Balance'
<1>1. PICK b \in Labels \ {"pop", "release"} : GoTo(t, b)
  BY FinishMoves DEF Release
<1>2. /\ freeSem \in Nat /\ freeSem' = freeSem + 1 /\ freeList' = freeList
      /\ pc[t] = "release" /\ pc \in [Thread -> Labels] /\ pc' = [pc EXCEPT ![t] = b]
  BY <1>1 DEF Release, At, GoTo, Typed, TypeOK
<1>3. t \in Releasing /\ Releasing' = Releasing \ {t} /\ Popping' = Popping
  BY <1>2 DEF Popping, Releasing, Thread
<1>4. Cardinality(Releasing') = Cardinality(Releasing) - 1
  BY <1>3, FiniteThreads, FS_RemoveElement
<1> QED BY <1>2, <1>3, <1>4, FiniteThreads DEF Balance

-----------------------------------------------------------------------------
(* All steps.                                                              *)

\* Opening a request keeps the balance.
LEMMA CreateBalance ==
    ASSUME Typed, Balance, NEW u \in User, Create(u)
    PROVE  Balance'
<1> USE DEF Typed, TypeOK, GoTo, Level, Thread
<1>1. CASE SendRequest(u)
  BY <1>1, LevelBalance DEF SendRequest, manager
<1>2. CASE Deref(u)
  <2>1. Level
    BY <1>2 DEF Deref, Fail, manager, threads
  <2> QED BY <2>1, LevelBalance
<1>3. CASE Acquire(u)
  BY <1>3, AcquireBalance
<1>4. CASE Pop(u)
  BY <1>4, PopBalance
<1>5. CASE Install(u)
  BY <1>5, LevelBalance DEF Install, At
<1>6. CASE Fetch(u)
  BY <1>6, LevelBalance DEF Fetch, At, manager
<1> QED BY <1>1, <1>2, <1>3, <1>4, <1>5, <1>6 DEF Create

\* Using a request keeps the balance.
LEMMA UseBalance ==
    ASSUME Typed, Balance, NEW u \in User, Use(u)
    PROVE  Balance'
<1>1. Level
  BY DEF Typed, TypeOK, GoTo, Level, Thread, Use, UseNull, Write, Send, BeginRead, Read,
         ReadTimesOut, Terminate, Fail, manager, threads
<1> QED BY <1>1, LevelBalance

\* close() keeps the balance.
LEMMA CloseBalance ==
    ASSUME Typed, Balance, NEW t \in Thread, Close(t)
    PROVE  Balance'
<1> USE DEF Typed, TypeOK, GoTo, Level
<1>1. CASE CloseCheck(t)
  <2>1. pc[t] = "close" /\ UNCHANGED <<freeSem, freeList>>
    BY <1>1 DEF CloseCheck, Fail, manager
  <2>2. CASE Fail("null")
    BY <2>1, <2>2, LevelBalance DEF Fail, threads
  <2>3. CASE Finish(t)
    <3>1. PICK b \in Labels \ {"pop", "release"} : GoTo(t, b)
      BY <2>3, FinishMoves
    <3> QED BY <2>1, <3>1, LevelBalance
  <2>4. CASE GoTo(t, "end")
    BY <2>1, <2>4, LevelBalance
  <2> QED BY <1>1, <2>2, <2>3, <2>4 DEF CloseCheck
<1>2. CASE SendEnd(t)
  BY <1>2, LevelBalance DEF SendEnd, manager
<1>3. CASE MarkClosed(t)
  BY <1>3, LevelBalance DEF MarkClosed, manager
<1> QED BY <1>1, <1>2, <1>3 DEF Close

\* removeRequestChannel keeps the balance.
LEMMA RemoveBalance ==
    ASSUME Typed, Balance, NEW t \in Thread, Remove(t)
    PROVE  Balance'
<1> USE DEF Typed, TypeOK, GoTo, Level
<1>1. CASE RemoveCheck(t)
  <2>1. pc[t] = "check" /\ UNCHANGED <<freeSem, freeList>>
    BY <1>1 DEF RemoveCheck, At, manager
  <2>2. CASE Finish(t)
    <3>1. PICK b \in Labels \ {"pop", "release"} : GoTo(t, b)
      BY <2>2, FinishMoves
    <3> QED BY <2>1, <3>1, LevelBalance
  <2>3. CASE GoTo(t, "load")
    BY <2>1, <2>3, LevelBalance
  <2> QED BY <1>1, <2>2, <2>3 DEF RemoveCheck
<1>2. CASE RemoveLoad(t)
  BY <1>2, LevelBalance DEF RemoveLoad, At, manager
<1>3. CASE RemoveStore(t)
  BY <1>3, LevelBalance DEF RemoveStore, At
<1>4. CASE Push(t)
  BY <1>4, PushBalance
<1>5. CASE Release(t)
  BY <1>5, ReleaseBalance
<1> QED BY <1>1, <1>2, <1>3, <1>4, <1>5 DEF Remove

\* Demultiplexing keeps the balance.
LEMMA ForwardBalance ==
    ASSUME Typed, Balance, Forward
    PROVE  Balance'
<1>1. Level
  BY DEF Typed, TypeOK, GoTo, Level, Thread, Forward, ReceiveEnd, ReceiveResponse, Deliver,
         Enqueue, HangUp, Fail, manager, threads
<1> QED BY <1>1, LevelBalance

\* The destructor keeps the balance.
LEMMA DestroyBalance ==
    ASSUME Typed, Balance, Destroy
    PROVE  Balance'
<1>1. Level
  BY DEF Typed, TypeOK, GoTo, Level, Thread, Destroy
<1> QED BY <1>1, LevelBalance

\* At first every id is on the stack, and the semaphore counts them all.
LEMMA InitBalance == Init => Balance
<1> SUFFICES ASSUME Init PROVE Balance
  OBVIOUS
<1>1. Popping = {} /\ Releasing = {}
  BY DEF Init, Popping, Releasing, Thread
<1>2. Len(freeList) = MaxChannels /\ freeSem = MaxChannels /\ MaxChannels \in Nat
  BY ConstantsOK DEF ConstantsOK, Init, AllIds
<1> QED BY <1>1, <1>2, FS_EmptySet DEF Balance

\* Every step keeps the balance.
LEMMA NextBalance == Typed /\ Balance /\ [Next]_vars => Balance'
<1> SUFFICES ASSUME Typed, Balance, [Next]_vars
             PROVE  Balance'
  OBVIOUS
<1>1. ASSUME NEW u \in User, UserStep(u)
      PROVE  Balance'
  <2>1. u \in Thread
    BY DEF Thread
  <2>2. CASE UseFreed(u)
    BY <2>2, LevelBalance DEF UseFreed, Fail, Level, manager, threads
  <2> QED BY <1>1, <2>1, <2>2, CreateBalance, UseBalance, CloseBalance, RemoveBalance
          DEF UserStep
<1>2. CASE ReaderStep
  <2>1. Reader \in Thread
    BY DEF Thread
  <2> QED BY <1>2, <2>1, ForwardBalance, DestroyBalance, CloseBalance, RemoveBalance
          DEF ReaderStep
<1>3. CASE Peer
  BY <1>3, LevelBalance DEF Peer, PeerReads, PeerSends, PeerHangsUp, Level, manager, threads
<1>4. CASE UNCHANGED vars
  BY <1>4, LevelBalance DEF vars, Level, manager, threads
<1> QED BY <1>1, <1>2, <1>3, <1>4 DEF Next

\* The ids on the stack are those the semaphore still counts, those granted to
\* a thread that has yet to pop one, and those pushed but not yet released. So
\* createRequestChannel never takes the top of an empty stack, even after two
\* removals of one id have overlapped.
THEOREM SemaphoreCounts == Spec => []SemaphoreCountsFreeIds
<1>1. Typed /\ Balance => SemaphoreCountsFreeIds
  <2> SUFFICES ASSUME Typed, Balance, NEW u \in User, pc[u] = "pop"
               PROVE  freeList # <<>>
    BY DEF Balance, SemaphoreCountsFreeIds
  <2>1. u \in Popping
    BY DEF Popping
  <2>2. Cardinality(Popping) # 0
    BY <2>1, FiniteThreads, FS_EmptySet
  <2>3. freeSem \in Nat
    BY DEF Typed, TypeOK
  <2>4. Len(freeList) # 0
    BY <2>2, <2>3, FiniteThreads DEF Balance
  <2> QED BY <2>4
<1>2. Typed /\ Balance /\ [Next]_vars => (Typed /\ Balance)'
  BY NextTyped, NextBalance
<1>3. Init => Typed /\ Balance
  BY InitTyped, InitBalance
<1> QED BY <1>1, <1>2, <1>3, PTL DEF Spec

=============================================================================
