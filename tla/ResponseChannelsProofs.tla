---------------------- MODULE ResponseChannelsProofs -----------------------
(***************************************************************************)
(* Theorems about ResponseChannels, for every number of ids, handler       *)
(* threads and channel objects, and for an arbitrary peer: types; open     *)
(* channels are in the table or being closed, and are served by a thread;  *)
(* and the destructor of the manager releases the handlers that read.      *)
(*                                                                         *)
(* None of the last three is inductive.  Typed says where pointers lead;   *)
(* Destruction which slots the destructor has emptied; EmptySlot that the  *)
(* reader installs a channel only where there is none; OwnFirst in which   *)
(* order a handler closes; Windows that a removal in progress finds the    *)
(* slot as it was; and Located and AllServed where every channel is, and   *)
(* who works on it, in each stage of its close().                          *)
(***************************************************************************)
EXTENDS ResponseChannels, TLAPS

-----------------------------------------------------------------------------
(* The inductive invariant.                                                *)

\* A label belongs to the reader or to handlers, and says which pointers of the
\* thread are not null.
ReaderLabels == {"recv", "install", "push", "enqueue", "result", "spawn", "gone"}
HandlerLabels == {"idle", "open", "send", "read"}

Pointers ==
    /\ rpc[Reader] \notin HandlerLabels
    /\ \A h \in Handler : rpc[h] \notin ReaderLabels
    /\ \A h \in Handler : rreq[h] = None <=> rpc[h] = "idle"
    /\ \A t \in Thread : rpc[t] \in {"end", "mark", "enqueue", "spawn"} => rch[t] # None
    /\ \A t \in Thread : rpc[t] \in {"end", "mark"} => rBufClosed[rch[t]]
    /\ rpc[Reader] \in {"install", "push", "enqueue"} => rHeld # None

\* A pointer that is not null leads to a constructed channel, the table under
\* the id of the channel; a new channel is open.
Objects ==
    /\ \A i \in Id : responseChannel[i] # None => rId[responseChannel[i]] = i
    /\ \A h \in Handler : rreq[h] # None => rId[rreq[h]] # None
    /\ \A t \in Thread : rch[t] # None => rId[rch[t]] # None
    /\ \A r \in RChannel : rBufClosed[r] => rId[r] # None
    /\ \A r \in RChannel : rClosed[r] => rBufClosed[r]

Typed == TypeOK /\ Pointers /\ Objects

\* The destructor of the manager leaves the slots it has passed empty.
Swept(i) ==
    i < rid[Reader] \/ (i = rid[Reader] /\ rpc[Reader] \in CloseLabels \cup {"gone"})

Destruction ==
    /\ rpc[Reader] \in {"recv", "spawn"} => rid[Reader] = 0
    /\ rConn = "closed" => rpc[Reader] \in CloseLabels \cup RemoveLabels \cup {"gone"}
    /\ rAlive <=> rpc[Reader] # "gone"
    /\ rpc[Reader] = "gone" => rConn = "closed" /\ rid[Reader] = LastId
    /\ rConn = "closed" => \A i \in Id : Swept(i) => responseChannel[i] = None

\* Between the two halves of a move out of the table, the slot is as it was.
Windows ==
    /\ \A t \in Thread : InWindow(t) => responseChannel[rid[t]] # None
    /\ \A s, t \in Thread : InWindow(s) /\ InWindow(t) /\ rid[s] = rid[t] => s = t
    /\ \A t \in Thread : rpc[t] = "store" => rch[t] = responseChannel[rid[t]]

\* Where a channel is, in each stage of its close().
AtClose(r) == \E t \in Thread : rch[t] = r /\ rpc[t] = "close"
InClose(r) == \E t \in Thread : rch[t] = r /\ rpc[t] \in {"end", "mark"}
Located ==
    \A r \in RChannel : Constructed(r) =>
        /\ rBufClosed[r] \/ responseChannel[rId[r]] = r \/ AtClose(r)
        /\ rBufClosed[r] => rClosed[r] \/ InClose(r)

\* Only the reader installs channels, and only where there is none.
EmptySlot == rpc[Reader] = "install" => responseChannel[rid[Reader]] = None

\* A handler closes the channel of its own request before it removes anything.
OwnFirst ==
    \A h \in Handler :
        /\ rpc[h] \in RemoveLabels => rClosed[rreq[h]]
        /\ rpc[h] \in CloseLabels => rch[h] = rreq[h] \/ rClosed[rreq[h]]

\* Who works on an open channel; the reader does until it has started a thread.
Arriving(r) ==
    \/ rpc[Reader] \in {"push", "enqueue", "result"} /\ rid[Reader] = rId[r]
    \/ rpc[Reader] = "spawn" /\ rch[Reader] = r
Served(r) ==
    \/ \E h \in Handler : rreq[h] = r
    \/ \E t \in Thread : rch[t] = r /\ rpc[t] \in CloseLabels \cup {"store"}
    \/ Arriving(r)
AllServed == \A r \in RChannel : Constructed(r) /\ ~rClosed[r] => Served(r)

Steadfast == Destruction /\ EmptySlot /\ OwnFirst
Found == ~rOverlap => Windows /\ Located /\ AllServed

-----------------------------------------------------------------------------
(* Types: lemmas about what the actions share.                             *)

\* What the actions do to sequences.
LEMMA SeqFacts ==
    ASSUME NEW S
    PROVE  /\ \A s \in Seq(S) : s # <<>> => Head(s) \in S /\ Tail(s) \in Seq(S)
           /\ \A s \in Seq(S), e \in S : Append(s, e) \in Seq(S)
           /\ <<>> \in Seq(S)
OBVIOUS

\* The threads: a handler is not the reader.
LEMMA Threads ==
    /\ Reader \in Thread /\ \A h \in Handler : h \in Thread /\ h # Reader
    /\ \A t \in Thread : t = Reader \/ t \in Handler
BY ConstantsOK DEF ConstantsOK, Thread

\* A message of a thread that has the channel r.
LEMMA MsgType ==
    ASSUME TypeOK, NEW k \in Kind, NEW r \in RChannel, rId[r] # None
    PROVE  Msg(k, rId[r], session[r]) \in Message
<1>1. rId[r] \in Id /\ session[r] \in Chan \cup {None}
  BY DEF TypeOK
<1> QED BY <1>1 DEF Msg, Message

\* What writeMessage leaves in the socket.
LEMMA EmitTyped ==
    ASSUME TypeOK, NEW m \in Message, Emit(m)
    PROVE  outStream' \in Seq(Message) /\ rFault' \in {"none", "null", "freed", "pipe"}
<1>1. outStream \in Seq(Message) /\ rFault \in {"none", "null", "freed", "pipe"}
  BY DEF TypeOK
<1>2. outStream' \in {outStream, Append(outStream, m)} /\ rFault' \in {rFault, "none", "pipe"}
  BY DEF Emit
<1> QED BY <1>1, <1>2, SeqFacts

\* A process that has faulted keeps its types.
LEMMA FailTyped ==
    ASSUME Typed, NEW f \in {"null", "freed"}, Fail(f)
    PROVE  Typed'
<1>1. UNCHANGED <<responseChannel, rAlive, rId, session, rClosed, rInbox, rBufClosed, rpc,
                  rid, rch, rreq, rHeld, rConn, inStream, outStream, rOverlap>>
      /\ rFault' = f
  BY DEF Fail, rManager, rObjects, rThreads, rNetwork
<1>2. TypeOK'
  BY <1>1 DEF Typed, TypeOK
<1>3. Pointers' /\ Objects'
  BY <1>1 DEF Typed, Pointers, Objects
<1> QED BY <1>2, <1>3 DEF Typed

\* What a return changes: the label, the id and the channel of the thread, and
\* the request of a handler, which is over.
FinishDoes(t) ==
    /\ rpc' \in [Thread -> Labels] /\ rid' \in [Thread -> Id]
    /\ rch' \in [Thread -> RChannel \cup {None}] /\ rreq' \in [Handler -> RChannel \cup {None}]
    /\ \A s \in Thread : s # t => rpc'[s] = rpc[s] /\ rid'[s] = rid[s] /\ rch'[s] = rch[s]
    /\ \A h \in Handler : h # t => rreq'[h] = rreq[h]
    /\ rch'[t] = None
    /\ \/ t \in Handler /\ rpc'[t] = "idle" /\ rreq'[t] = None /\ rAlive' = rAlive
       \/ t = Reader /\ rConn # "closed" /\ rpc'[t] = "recv" /\ rid'[t] = 0 /\ rAlive' = rAlive
       \/ /\ t = Reader /\ rConn = "closed" /\ rid[t] < LastId
          /\ rpc'[t] = "check" /\ rid'[t] = rid[t] + 1 /\ rAlive' = rAlive
       \/ /\ t = Reader /\ rConn = "closed" /\ rid[t] = LastId
          /\ rpc'[t] = "gone" /\ rid'[t] = rid[t] /\ rAlive' = FALSE

\* A return does just that.
LEMMA FinishEffect ==
    ASSUME TypeOK, NEW t \in Thread, Finish(t)
    PROVE  FinishDoes(t)
<1>1. /\ rpc \in [Thread -> Labels]
      /\ rid \in [Thread -> Id]
      /\ rch \in [Thread -> RChannel \cup {None}]
      /\ rreq \in [Handler -> RChannel \cup {None}]
  BY DEF TypeOK
<1>2. 0 \in Id /\ \A i \in Id : i < LastId => i + 1 \in Id
  BY ConstantsOK DEF ConstantsOK, Id, LastId
<1>3. /\ rch' \in [Thread -> RChannel \cup {None}]
      /\ rch'[t] = None
      /\ \A s \in Thread : s # t => rch'[s] = rch[s]
  BY <1>1 DEF Finish
<1>4. CASE t \in Handler
  <2>1. /\ rpc' = [rpc EXCEPT ![t] = "idle"] /\ rreq' = [rreq EXCEPT ![t] = None]
        /\ rid' = [rid EXCEPT ![t] = 0] /\ rAlive' = rAlive
    BY <1>4, Threads DEF Finish, GoTo
  <2> QED BY <1>1, <1>2, <1>3, <1>4, <2>1 DEF FinishDoes, Labels
<1>5. CASE t = Reader
  <2>1. rreq' = rreq
    BY <1>5, Threads DEF Finish
  <2>2. \/ /\ rConn # "closed" /\ rpc' = [rpc EXCEPT ![t] = "recv"]
           /\ rid' = [rid EXCEPT ![t] = 0] /\ rAlive' = rAlive
        \/ /\ rConn = "closed" /\ rid[t] < LastId /\ rpc' = [rpc EXCEPT ![t] = "check"]
           /\ rid' = [rid EXCEPT ![t] = @ + 1] /\ rAlive' = rAlive
        \/ /\ rConn = "closed" /\ rid[t] = LastId /\ rpc' = [rpc EXCEPT ![t] = "gone"]
           /\ rid' = rid /\ rAlive' = FALSE
    BY <1>5, Threads DEF Finish, GoTo
  <2> QED BY <1>1, <1>2, <1>3, <1>5, <2>1, <2>2 DEF FinishDoes, Labels, RemoveLabels
<1> QED BY <1>4, <1>5, Threads

\* A return keeps the types.
LEMMA FinishTyped ==
    ASSUME Typed, NEW t \in Thread, Finish(t),
           UNCHANGED <<responseChannel, rId, session, rClosed, rInbox, rBufClosed, rHeld,
                       rConn, inStream, outStream, rFault, rOverlap>>
    PROVE  Typed'
<1>0. FinishDoes(t)
  BY FinishEffect DEF Typed
<1>1. TypeOK'
  BY <1>0 DEF FinishDoes, Typed, TypeOK
<1>2. Pointers'
  BY <1>0, Threads DEF FinishDoes, Typed, Pointers, ReaderLabels, HandlerLabels, rObjects
<1>3. Objects'
  <2>1. /\ \A h \in Handler : rreq'[h] \in {rreq[h], None}
        /\ \A s \in Thread : rch'[s] \in {rch[s], None}
    BY <1>0, Threads DEF FinishDoes
  <2> QED BY <2>1 DEF Typed, Objects
<1> QED BY <1>1, <1>2, <1>3 DEF Typed

-----------------------------------------------------------------------------
(* The initial states, and one lemma for each group of actions.            *)

\* The types hold at first.
LEMMA InitTyped ==
    ASSUME Init
    PROVE  Typed
<1>1. TypeOK
  <2>1. 0 \in Id
    BY ConstantsOK DEF ConstantsOK, Id
  <2> QED BY <2>1, SeqFacts DEF Init, TypeOK, Labels
<1>2. Pointers
  BY Threads DEF Init, Pointers, ReaderLabels, HandlerLabels, rObjects
<1>3. Objects
  BY DEF Init, Objects
<1> QED BY <1>1, <1>2, <1>3 DEF Typed

\* The read loop and forwardMessage keep the types.
LEMMA ForwardTyped ==
    ASSUME Typed, Forward \/ HangUp
    PROVE  Typed'
<1> USE Threads DEF GoTo
<1>1. CASE ReceiveEnd
  <2>0. inStream \in Seq(Message) /\ inStream # <<>>
    BY <1>1 DEF Typed, TypeOK, ReceiveEnd
  <2>1. Head(inStream).id \in Id /\ inStream' \in Seq(Message)
    <3>1. Head(inStream) \in Message /\ Tail(inStream) \in Seq(Message)
      BY <2>0, SeqFacts
    <3> QED BY <1>1, <3>1 DEF ReceiveEnd, Message
  <2>2. TypeOK'
    <3>1. rpc' \in [Thread -> Labels]
      BY <1>1 DEF Typed, TypeOK, ReceiveEnd, Labels, RemoveLabels
    <3> QED BY <1>1, <2>1, <3>1 DEF Typed, TypeOK, ReceiveEnd, rManager, rObjects
  <2>3. Pointers'
    BY <1>1 DEF Typed, TypeOK, Pointers, ReaderLabels, HandlerLabels, rObjects, ReceiveEnd
  <2>4. Objects'
    BY <1>1 DEF Typed, Objects, ReceiveEnd, rManager, rObjects
  <2> QED BY <2>2, <2>3, <2>4 DEF Typed
<1>2. CASE ReceiveRequest
  <2>0. inStream \in Seq(Message) /\ inStream # <<>>
    BY <1>2 DEF Typed, TypeOK, ReceiveRequest
  <2>1. Head(inStream) \in Message /\ Head(inStream).id \in Id /\ inStream' \in Seq(Message)
    <3>1. Head(inStream) \in Message /\ Tail(inStream) \in Seq(Message)
      BY <2>0, SeqFacts
    <3> QED BY <1>2, <3>1 DEF ReceiveRequest, Message
  <2>2. TypeOK'
    BY <1>2, <2>1 DEF Typed, TypeOK, ReceiveRequest, Labels, rManager, rObjects
  <2>3. rHeld' # None
    BY <1>2, <2>1, ConstantsOK DEF ConstantsOK, ReceiveRequest
  <2>4. Pointers'
    BY <1>2, <2>3 DEF Typed, TypeOK, Pointers, ReaderLabels, HandlerLabels, rObjects, ReceiveRequest
  <2>5. Objects'
    BY <1>2 DEF Typed, Objects, ReceiveRequest, rManager, rObjects
  <2> QED BY <2>2, <2>4, <2>5 DEF Typed
<1>3. CASE Install
  <2>1. PICK r \in RChannel :
           /\ rId[r] = None
           /\ rId' = [rId EXCEPT ![r] = rid[Reader]]
           /\ session' = [session EXCEPT ![r] = rHeld.chan]
           /\ responseChannel' = [responseChannel EXCEPT ![rid[Reader]] = r]
    BY <1>3 DEF Install, Fresh
  <2>2. rid[Reader] \in Id /\ rid[Reader] # None /\ rHeld.chan \in Chan \cup {None}
    BY <1>3, ConstantsOK DEF ConstantsOK, Install, Typed, TypeOK, Pointers, Message
  <2>3. TypeOK'
    BY <1>3, <2>1, <2>2 DEF Typed, TypeOK, Install, Labels, rNetwork
  <2>4. Pointers'
    BY <1>3 DEF Typed, TypeOK, Pointers, ReaderLabels, HandlerLabels, rObjects, Install
  <2>5. Objects'
    <3>1. /\ rId'[r] = rid[Reader] /\ \A q \in RChannel : q # r => rId'[q] = rId[q]
          /\ responseChannel'[rid[Reader]] = r
          /\ \A i \in Id : i # rid[Reader] => responseChannel'[i] = responseChannel[i]
          /\ UNCHANGED <<rreq, rch, rClosed, rBufClosed>>
      BY <1>3, <2>1, <2>2 DEF Typed, TypeOK, Install
    <3>2. \A i \in Id : responseChannel[i] # r /\ i # None
      BY <2>1, ConstantsOK DEF ConstantsOK, Typed, TypeOK, Objects
    <3>3. r # None
      BY ConstantsOK DEF ConstantsOK
    <3>4. ASSUME NEW i \in Id, responseChannel'[i] # None
          PROVE  rId'[responseChannel'[i]] = i
      <4>1. CASE i = rid[Reader]
        BY <3>1, <4>1
      <4>2. CASE i # rid[Reader]
        <5>1. responseChannel'[i] = responseChannel[i] /\ responseChannel[i] \in RChannel \cup {None}
          BY <3>1, <4>2 DEF Typed, TypeOK
        <5>2. responseChannel[i] \in RChannel /\ responseChannel[i] # r
          BY <3>2, <3>4, <5>1
        <5>3. rId[responseChannel[i]] = i
          BY <5>2, ConstantsOK DEF ConstantsOK, Typed, Objects
        <5> QED BY <3>1, <5>1, <5>2, <5>3
      <4> QED BY <4>1, <4>2
    <3>5. /\ \A h \in Handler : rreq'[h] # None => rId'[rreq'[h]] # None
          /\ \A t \in Thread : rch'[t] # None => rId'[rch'[t]] # None
      BY <2>2, <3>1 DEF Typed, TypeOK, Objects
    <3>6. \A q \in RChannel : (rBufClosed'[q] => rId'[q] # None) /\ (rClosed'[q] => rBufClosed'[q])
      BY <2>2, <3>1 DEF Typed, Objects
    <3> QED BY <3>4, <3>5, <3>6 DEF Objects
  <2> QED BY <2>3, <2>4, <2>5 DEF Typed
<1>4. CASE Push
  <2>1. CASE Fail("null")
    BY <2>1, FailTyped
  <2>2. CASE /\ responseChannel[rid[Reader]] # None
             /\ rch' = [rch EXCEPT ![Reader] = responseChannel[rid[Reader]]]
             /\ rpc' = [rpc EXCEPT ![Reader] = "enqueue"]
             /\ UNCHANGED <<rManager, rObjects, rid, rreq, rHeld, rNetwork, rFault, rOverlap>>
    <3>1. TypeOK'
      BY <2>2 DEF Typed, TypeOK, Labels, rManager, rObjects, rNetwork
    <3>2. Pointers'
      BY <1>4, <2>2 DEF Typed, TypeOK, Pointers, ReaderLabels, HandlerLabels, rObjects, Push
    <3>3. Objects'
      BY <2>2, ConstantsOK DEF ConstantsOK, Typed, TypeOK, Objects, rManager, rObjects
    <3> QED BY <3>1, <3>2, <3>3 DEF Typed
  <2> QED BY <1>4, <2>1, <2>2 DEF Push
<1>5. CASE Enqueue
  <2>1. CASE Fail("freed")
    BY <2>1, FailTyped
  <2>2. CASE /\ \/ rInbox' = rInbox
                \/ rInbox' = [rInbox EXCEPT ![rch[Reader]] = Append(rInbox[rch[Reader]], rHeld)]
             /\ rHeld' = None
             /\ rpc' = [rpc EXCEPT ![Reader] = "result"]
             /\ UNCHANGED <<rManager, rId, session, rClosed, rBufClosed, rid, rch, rreq,
                            rNetwork, rFault, rOverlap>>
    <3>1. /\ rch[Reader] \in RChannel /\ rHeld \in Message
          /\ rInbox \in [RChannel -> Seq(Message)]
      BY <1>5 DEF Enqueue, Typed, TypeOK, Pointers
    <3>2. rInbox' \in [RChannel -> Seq(Message)]
      <4>1. Append(rInbox[rch[Reader]], rHeld) \in Seq(Message)
        BY <3>1, SeqFacts
      <4> QED BY <2>2, <3>1, <4>1
    <3>3. TypeOK'
      BY <2>2, <3>2 DEF Typed, TypeOK, Labels, rManager, rNetwork
    <3>4. Pointers'
      BY <2>2 DEF Typed, TypeOK, Pointers, ReaderLabels, HandlerLabels, rObjects
    <3>5. Objects'
      BY <2>2 DEF Typed, Objects, rManager
    <3> QED BY <3>3, <3>4, <3>5 DEF Typed
  <2> QED BY <1>5, <2>1, <2>2 DEF Enqueue
<1>6. CASE Result
  <2>1. /\ 0 \in Id /\ rid[Reader] \in Id
        /\ responseChannel[rid[Reader]] \in RChannel \cup {None}
    BY ConstantsOK DEF ConstantsOK, Id, Typed, TypeOK
  <2>2. /\ rch' = [rch EXCEPT ![Reader] = responseChannel[rid[Reader]]]
        /\ rch'[Reader] = responseChannel[rid[Reader]]
        /\ rid' = [rid EXCEPT ![Reader] = 0]
        /\ rpc[Reader] = "result"
        /\ UNCHANGED <<rManager, rObjects, rreq, rHeld, rNetwork, rFault, rOverlap>>
        /\ \/ rpc' = [rpc EXCEPT ![Reader] = "spawn"] /\ rch'[Reader] # None
           \/ rpc' = [rpc EXCEPT ![Reader] = "recv"]
    BY <1>6 DEF Result, Typed, TypeOK
  <2>3. TypeOK'
    BY <2>1, <2>2 DEF Typed, TypeOK, Labels, rManager, rObjects, rNetwork
  <2>4. Pointers'
    BY <2>2 DEF Typed, TypeOK, Pointers, ReaderLabels, HandlerLabels, rObjects
  <2>5. Objects'
    BY <2>1, <2>2, ConstantsOK DEF ConstantsOK, Typed, TypeOK, Objects, rManager, rObjects
  <2> QED BY <2>3, <2>4, <2>5 DEF Typed
<1>7. CASE Spawn
  <2>1. PICK h \in Handler :
           /\ rpc[h] = "idle"
           /\ rpc' = [rpc EXCEPT ![h] = "open", ![Reader] = "recv"]
           /\ rreq' = [rreq EXCEPT ![h] = rch[Reader]]
    BY <1>7 DEF Spawn
  <2>2. rch[Reader] # None /\ rch[Reader] \in RChannel
    BY <1>7 DEF Spawn, Typed, TypeOK, Pointers
  <2>3. TypeOK'
    BY <1>7, <2>1, <2>2 DEF Spawn, Typed, TypeOK, Labels, rManager, rObjects, rNetwork
  <2>4. Pointers'
    BY <1>7, <2>1, <2>2 DEF Spawn, Typed, TypeOK, Pointers, ReaderLabels, HandlerLabels, rObjects
  <2>5. Objects'
    BY <1>7, <2>1, <2>2 DEF Spawn, Typed, TypeOK, Objects, rManager, rObjects
  <2> QED BY <2>3, <2>4, <2>5 DEF Typed
<1>8. CASE HangUp
  <2>1. TypeOK'
    BY <1>8, SeqFacts DEF HangUp, Typed, TypeOK, Labels, RemoveLabels, rManager, rObjects
  <2>2. Pointers'
    BY <1>8 DEF HangUp, Typed, TypeOK, Pointers, ReaderLabels, HandlerLabels, rObjects
  <2>3. Objects'
    BY <1>8 DEF HangUp, Typed, Objects, rManager, rObjects
  <2> QED BY <2>1, <2>2, <2>3 DEF Typed
<1> QED BY <1>1, <1>2, <1>3, <1>4, <1>5, <1>6, <1>7, <1>8 DEF Forward

\* A handler's operations keep the types.
LEMMA HandleTyped ==
    ASSUME Typed, NEW h \in Handler, Handle(h)
    PROVE  Typed'
<1> USE Threads DEF GoTo
<1>1. CASE BeginRead(h) \/ ReadTimesOut(h) \/ Write(h)
  <2>1. /\ rpc[h] # "idle" /\ \E l \in {"read", "open", "send"} : rpc' = [rpc EXCEPT ![h] = l]
        /\ UNCHANGED <<rManager, rObjects, rid, rch, rreq, rHeld, rNetwork, rFault, rOverlap>>
    BY <1>1 DEF BeginRead, ReadTimesOut, Write
  <2>2. TypeOK'
    BY <2>1 DEF Typed, TypeOK, Labels, rManager, rObjects, rNetwork
  <2>3. Pointers'
    BY <2>1 DEF Typed, TypeOK, Pointers, ReaderLabels, HandlerLabels, rObjects
  <2>4. Objects'
    BY <2>1 DEF Typed, Objects, rManager, rObjects
  <2> QED BY <2>2, <2>3, <2>4 DEF Typed
<1>2. CASE Read(h)
  <2>1. rreq[h] \in RChannel /\ rInbox \in [RChannel -> Seq(Message)]
    BY <1>2 DEF Read, Typed, TypeOK, Pointers
  <2>2. rInbox' \in [RChannel -> Seq(Message)]
    <3>1. rInbox[rreq[h]] # <<>> => Tail(rInbox[rreq[h]]) \in Seq(Message)
      BY <2>1, SeqFacts
    <3> QED BY <1>2, <2>1, <3>1 DEF Read
  <2>3. TypeOK'
    BY <1>2, <2>2 DEF Read, Typed, TypeOK, Labels, rManager, rNetwork
  <2>4. Pointers'
    BY <1>2 DEF Read, Typed, TypeOK, Pointers, ReaderLabels, HandlerLabels, rObjects
  <2>5. Objects'
    BY <1>2 DEF Read, Typed, Objects, rManager
  <2> QED BY <2>3, <2>4, <2>5 DEF Typed
<1>3. CASE Send(h)
  <2>1. rreq[h] \in RChannel /\ rId[rreq[h]] # None
    BY <1>3 DEF Send, Typed, TypeOK, Pointers, Objects
  <2>2. outStream' \in Seq(Message) /\ rFault' \in {"none", "null", "freed", "pipe"}
    BY <1>3, <2>1, MsgType, EmitTyped DEF Send, Typed, Kind
  <2>3. TypeOK'
    BY <1>3, <2>2 DEF Send, Typed, TypeOK, Labels, rManager, rObjects
  <2>4. Pointers'
    BY <1>3 DEF Send, Typed, TypeOK, Pointers, ReaderLabels, HandlerLabels, rObjects
  <2>5. Objects'
    BY <1>3 DEF Send, Typed, Objects, rManager, rObjects
  <2> QED BY <2>3, <2>4, <2>5 DEF Typed
<1>4. CASE Return(h)
  <2>1. rreq[h] \in RChannel /\ rId[rreq[h]] \in Id
    BY <1>4 DEF Return, Typed, TypeOK, Pointers, Objects
  <2>2. TypeOK'
    BY <1>4, <2>1 DEF Return, Typed, TypeOK, Labels, CloseLabels, rManager, rObjects, rNetwork
  <2>3. Pointers'
    BY <1>4 DEF Return, Typed, TypeOK, Pointers, ReaderLabels, HandlerLabels, rObjects
  <2>4. Objects'
    BY <1>4, <2>1 DEF Return, Typed, TypeOK, Objects, rManager, rObjects
  <2> QED BY <2>2, <2>3, <2>4 DEF Typed
<1> QED BY <1>1, <1>2, <1>3, <1>4 DEF Handle

\* close() keeps the types.
LEMMA CloseTyped ==
    ASSUME Typed, NEW t \in Thread, Close(t)
    PROVE  Typed'
<1> USE Threads DEF GoTo
<1>1. CASE CloseCheck(t)
  <2>1. CASE Fail("null")
    BY <2>1, FailTyped
  <2>2. CASE /\ Finish(t)
             /\ UNCHANGED <<responseChannel, rObjects, rHeld, rNetwork, rFault, rOverlap>>
    BY <2>2, FinishTyped DEF rObjects, rNetwork
  <2>3. CASE /\ rch[t] # None
             /\ rBufClosed' = [rBufClosed EXCEPT ![rch[t]] = TRUE]
             /\ rpc' = [rpc EXCEPT ![t] = "end"]
             /\ UNCHANGED <<rManager, rId, session, rClosed, rInbox, rid, rch, rreq, rHeld,
                            rNetwork, rFault, rOverlap>>
    <3>1. TypeOK'
      BY <2>3 DEF Typed, TypeOK, Labels, CloseLabels, rManager, rNetwork
    <3>2. Pointers'
      BY <1>1, <2>3 DEF CloseCheck, Typed, TypeOK, Pointers, ReaderLabels, HandlerLabels, rObjects
    <3>3. Objects'
      <4>1. rId[rch[t]] # None
        BY <2>3 DEF Typed, Objects
      <4>2. \A r \in RChannel : rBufClosed'[r] <=> rBufClosed[r] \/ r = rch[t]
        BY <2>3 DEF Typed, TypeOK
      <4> QED BY <2>3, <4>1, <4>2 DEF Typed, Objects, rManager
    <3> QED BY <3>1, <3>2, <3>3 DEF Typed
  <2> QED BY <1>1, <2>1, <2>2, <2>3 DEF CloseCheck
<1>2. CASE SendEnd(t)
  <2>1. rch[t] \in RChannel /\ rId[rch[t]] # None
    BY <1>2 DEF SendEnd, Typed, TypeOK, Pointers, Objects
  <2>2. outStream' \in Seq(Message) /\ rFault' \in {"none", "null", "freed", "pipe"}
    BY <1>2, <2>1, MsgType, EmitTyped DEF SendEnd, OwnEnd, Typed, Kind
  <2>3. TypeOK'
    BY <1>2, <2>2 DEF SendEnd, Typed, TypeOK, Labels, CloseLabels, rManager, rObjects
  <2>4. Pointers'
    BY <1>2 DEF SendEnd, Typed, TypeOK, Pointers, ReaderLabels, HandlerLabels, rObjects
  <2>5. Objects'
    BY <1>2 DEF SendEnd, Typed, Objects, rManager, rObjects
  <2> QED BY <2>3, <2>4, <2>5 DEF Typed
<1>3. CASE MarkClosed(t)
  <2>1. TypeOK'
    BY <1>3 DEF MarkClosed, Typed, TypeOK, Labels, RemoveLabels, rManager, rNetwork
  <2>2. Pointers'
    BY <1>3 DEF MarkClosed, Typed, TypeOK, Pointers, ReaderLabels, HandlerLabels, rObjects
  <2>3. Objects'
    <3>1. rBufClosed[rch[t]]
      BY <1>3 DEF MarkClosed, Typed, Pointers
    <3>2. \A r \in RChannel : rClosed'[r] => rClosed[r] \/ r = rch[t]
      BY <1>3 DEF MarkClosed, Typed, TypeOK
    <3> QED BY <1>3, <3>1, <3>2 DEF MarkClosed, Typed, Objects, rManager
  <2> QED BY <2>1, <2>2, <2>3 DEF Typed
<1> QED BY <1>1, <1>2, <1>3 DEF Close

\* removeResponseChannel keeps the types.
LEMMA RemoveTyped ==
    ASSUME Typed, NEW t \in Thread, Remove(t)
    PROVE  Typed'
<1> USE Threads DEF GoTo, At
<1>1. CASE RemoveCheck(t)
  <2>1. CASE /\ Finish(t)
             /\ UNCHANGED <<responseChannel, rObjects, rHeld, rNetwork, rFault, rOverlap>>
    BY <2>1, FinishTyped DEF rObjects, rNetwork
  <2>2. CASE /\ rpc' = [rpc EXCEPT ![t] = "load"]
             /\ rOverlap' \in BOOLEAN
             /\ UNCHANGED <<rManager, rObjects, rid, rch, rreq, rHeld, rNetwork, rFault>>
    <3>1. TypeOK'
      BY <2>2 DEF Typed, TypeOK, Labels, RemoveLabels, rManager, rObjects, rNetwork
    <3>2. Pointers'
      BY <1>1, <2>2 DEF RemoveCheck, Typed, TypeOK, Pointers, ReaderLabels, HandlerLabels, rObjects
    <3>3. Objects'
      BY <2>2 DEF Typed, Objects, rManager, rObjects
    <3> QED BY <3>1, <3>2, <3>3 DEF Typed
  <2> QED BY <1>1, <2>1, <2>2 DEF RemoveCheck, Typed, TypeOK
<1>2. CASE RemoveLoad(t)
  <2>1. TypeOK'
    BY <1>2 DEF RemoveLoad, Typed, TypeOK, Labels, RemoveLabels, rManager, rObjects, rNetwork
  <2>2. Pointers'
    BY <1>2 DEF RemoveLoad, Typed, TypeOK, Pointers, ReaderLabels, HandlerLabels, rObjects
  <2>3. Objects'
    BY <1>2, ConstantsOK DEF ConstantsOK, RemoveLoad, Typed, TypeOK, Objects, rManager, rObjects
  <2> QED BY <2>1, <2>2, <2>3 DEF Typed
<1>3. CASE RemoveStore(t)
  <2>1. TypeOK'
    BY <1>3 DEF RemoveStore, Typed, TypeOK, Labels, CloseLabels, rObjects, rNetwork
  <2>2. Pointers'
    BY <1>3 DEF RemoveStore, Typed, TypeOK, Pointers, ReaderLabels, HandlerLabels, rObjects
  <2>3. Objects'
    BY <1>3 DEF RemoveStore, Typed, TypeOK, Objects, rObjects
  <2> QED BY <2>1, <2>2, <2>3 DEF Typed
<1> QED BY <1>1, <1>2, <1>3 DEF Remove

\* The peer keeps the types.
LEMMA PeerTyped ==
    ASSUME Typed, Peer
    PROVE  Typed'
<1>1. UNCHANGED <<rManager, rObjects, rThreads, rFault, rOverlap>>
  BY DEF Peer, PeerReads, PeerSends, PeerHangsUp
<1>2. inStream \in Seq(Message) /\ outStream \in Seq(Message) /\ rConn \in {"up", "eof", "closed"}
  BY DEF Typed, TypeOK
<1>3. \A k \in {"Request", "RequestEnd"}, i \in Id, c \in Chan : Msg(k, i, c) \in Message
  BY DEF Msg, Message, Kind
<1>4. /\ inStream' \in Seq(Message) /\ outStream' \in Seq(Message)
      /\ rConn' \in {"up", "eof", "closed"}
  BY <1>2, <1>3, SeqFacts DEF Peer, PeerReads, PeerSends, PeerHangsUp
<1>5. TypeOK'
  BY <1>1, <1>4 DEF Typed, TypeOK, rManager, rObjects, rThreads
<1>6. Pointers' /\ Objects'
  BY <1>1 DEF Typed, Pointers, Objects, rManager, rObjects, rThreads
<1> QED BY <1>5, <1>6 DEF Typed

\* Every step keeps the types.
LEMMA NextTyped ==
    ASSUME Typed, [Next]_rVars
    PROVE  Typed'
<1>1. ASSUME NEW h \in Handler, HandlerStep(h)
      PROVE  Typed'
  <2>1. h \in Thread /\ (UseFreed(h) => Typed')
    BY Threads, FailTyped DEF UseFreed
  <2> QED BY <1>1, <2>1, HandleTyped, CloseTyped, RemoveTyped DEF HandlerStep
<1>2. CASE ReaderStep
  BY <1>2, Threads, ForwardTyped, CloseTyped, RemoveTyped DEF ReaderStep
<1>3. CASE UNCHANGED rVars
  <2>1. TypeOK'
    BY <1>3 DEF Typed, TypeOK, rVars, rManager, rObjects, rThreads, rNetwork
  <2>2. Pointers' /\ Objects'
    BY <1>3 DEF Typed, Pointers, Objects, rVars, rManager, rObjects, rThreads
  <2> QED BY <2>1, <2>2 DEF Typed
<1> QED BY <1>1, <1>2, <1>3, PeerTyped DEF Next

\* Every variable keeps its type, for any number of ids, handlers and channel
\* objects: a handler always has the channel of its request, and a thread
\* inside close() has a channel that has been constructed.
THEOREM TypeCorrect == Spec => []TypeOK
<1>1. Init => Typed
  BY InitTyped
<1>2. Typed /\ [Next]_rVars => Typed'
  BY NextTyped
<1>3. Typed => TypeOK
  BY DEF Typed
<1> QED BY <1>1, <1>2, <1>3, PTL DEF Spec

-----------------------------------------------------------------------------
(* Steps that take no part in a close() or a removal.                      *)

Busy == CloseLabels \cup {"load", "store"}

\* Such a step leaves alone what a thread inside close() or between the halves
\* of a removal uses; a handler may begin the close() of its own request.
Plain ==
    /\ UNCHANGED <<responseChannel, rId, rClosed, rBufClosed, rOverlap>>
    /\ \A t \in Thread : rpc[t] \in Busy =>
          rpc'[t] = rpc[t] /\ rch'[t] = rch[t] /\ rid'[t] = rid[t]
    /\ \A t \in Thread : rpc'[t] \in {"load", "store"} => rpc[t] \in {"load", "store"}
    /\ \A h \in Handler : rreq[h] # None => rreq'[h] = rreq[h]
    /\ \A h \in Handler : rpc'[h] \in CloseLabels \cup RemoveLabels =>
          \/ rpc'[h] = rpc[h] /\ rch'[h] = rch[h] /\ rreq'[h] = rreq[h]
          \/ rpc'[h] = "close" /\ rch'[h] = rreq'[h]

\* Where the channels are does not change in such a step.
LEMMA PlainFound ==
    ASSUME Typed, Plain, Windows, Located
    PROVE  Windows' /\ Located'
<1>1. Windows'
  BY DEF Plain, Windows, InWindow, Busy
<1>2. \A r \in RChannel : (AtClose(r) => AtClose(r)') /\ (InClose(r) => InClose(r)')
  BY DEF Plain, AtClose, InClose, Busy, CloseLabels
<1>3. Located'
  BY <1>2 DEF Plain, Located, Constructed
<1> QED BY <1>1, <1>3

\* Nor does the order in which a handler closes.
LEMMA PlainOwnFirst ==
    ASSUME Plain, OwnFirst
    PROVE  OwnFirst'
BY DEF Plain, OwnFirst, CloseLabels, RemoveLabels

\* A step loses no server but the reader's own, which it must replace.
LEMMA PlainServed ==
    ASSUME Typed, Plain, AllServed,
           \A r \in RChannel : Constructed(r) /\ ~rClosed[r] /\ Arriving(r) => Served(r)'
    PROVE  AllServed'
<1> SUFFICES ASSUME NEW r \in RChannel, Constructed(r), ~rClosed[r]
             PROVE  Served(r)'
  BY DEF AllServed, Constructed, Plain
<1>1. CASE \E h \in Handler : rreq[h] = r
  <2>1. r # None
    BY ConstantsOK DEF ConstantsOK
  <2> QED BY <1>1, <2>1 DEF Plain, Served
<1>2. CASE \E t \in Thread : rch[t] = r /\ rpc[t] \in CloseLabels \cup {"store"}
  BY <1>2 DEF Plain, Busy, Served
<1>3. CASE Arriving(r)
  BY <1>3
<1> QED BY <1>1, <1>2, <1>3 DEF AllServed, Served

\* When the reader stays where it is, it still serves what it served.
LEMMA SameArriving ==
    ASSUME NEW r \in RChannel, Arriving(r), UNCHANGED rId,
           rpc'[Reader] = rpc[Reader], rid'[Reader] = rid[Reader], rch'[Reader] = rch[Reader]
    PROVE  Served(r)'
BY DEF Arriving, Served

-----------------------------------------------------------------------------
(* The destructor.                                                         *)

\* Steps that do not move the reader, and install nothing.
LEMMA OthersDestruction ==
    ASSUME Typed, Destruction, UNCHANGED rAlive,
           rConn' = "closed" <=> rConn = "closed",
           rpc'[Reader] = rpc[Reader], rid'[Reader] = rid[Reader],
           \A i \in Id : responseChannel'[i] \in {responseChannel[i], None}
    PROVE  Destruction'
BY DEF Destruction, Swept

\* Steps of the reader before it hangs up.
LEMMA OpenDestruction ==
    ASSUME Destruction, UNCHANGED rAlive, rConn # "closed", rConn' # "closed",
           rpc'[Reader] # "gone", rpc'[Reader] \in {"recv", "spawn"} => rid'[Reader] = 0
    PROVE  Destruction'
BY DEF Destruction

\* Steps of the destructor inside one removal.
LEMMA InnerDestruction ==
    ASSUME Typed, Destruction, UNCHANGED <<rAlive, rConn>>, rConn = "closed", rpc[Reader] # "gone",
           rid'[Reader] = rid[Reader], rpc'[Reader] \in CloseLabels \cup RemoveLabels,
           \A i \in Id : responseChannel'[i] \in {responseChannel[i], None},
           \/ rpc'[Reader] \notin CloseLabels
           \/ rpc[Reader] \in CloseLabels
           \/ responseChannel'[rid[Reader]] = None
    PROVE  Destruction'
BY DEF Destruction, Swept, CloseLabels, RemoveLabels

\* The destructor goes on to the next id when the slot of this one is empty.
LEMMA FinishDestruction ==
    ASSUME Typed, Destruction, NEW t \in Thread, FinishDoes(t),
           UNCHANGED <<responseChannel, rConn>>, rpc[t] # "gone",
           t = Reader /\ rConn = "closed" => responseChannel[rid[Reader]] = None
    PROVE  Destruction'
<1>1. CASE t # Reader
  <2>1. rAlive' = rAlive /\ rpc'[Reader] = rpc[Reader] /\ rid'[Reader] = rid[Reader]
    BY <1>1, Threads DEF FinishDoes
  <2> QED BY <2>1, OthersDestruction
<1>2. CASE t = Reader /\ rConn # "closed"
  <2>1. rAlive' = rAlive /\ rpc'[Reader] = "recv" /\ rid'[Reader] = 0
    BY <1>2, Threads DEF FinishDoes
  <2> QED BY <1>2, <2>1, OpenDestruction
<1>3. CASE t = Reader /\ rConn = "closed"
  <2>1. rid[Reader] \in Int /\ \A i \in Id : i \in Int
    BY Threads DEF Typed, TypeOK, Id
  <2>2. \A i \in Id : i <= rid[Reader] => responseChannel[i] = None
    BY <1>3, <2>1 DEF Destruction, Swept
  <2>3. \/ rpc'[Reader] = "check" /\ rid'[Reader] = rid[Reader] + 1 /\ rAlive' = rAlive
        \/ /\ rpc'[Reader] = "gone" /\ rid'[Reader] = rid[Reader]
           /\ rAlive' = FALSE /\ rid[Reader] = LastId
    BY <1>3, Threads DEF FinishDoes
  <2>4. \A i \in Id : Swept(i)' => i <= rid[Reader]
    BY <2>1, <2>3 DEF Swept, CloseLabels
  <2>5. rAlive
    BY <1>3 DEF Destruction
  <2> QED BY <1>3, <2>2, <2>3, <2>4, <2>5 DEF Destruction, RemoveLabels
<1> QED BY <1>1, <1>2, <1>3

-----------------------------------------------------------------------------
(* Which steps are plain.                                                  *)

\* The reader's loop, but for the construction of a channel.
LEMMA ForwardPlain ==
    ASSUME Typed, Forward \/ HangUp, ~Install
    PROVE  Plain
<1> USE Threads DEF GoTo
<1>1. CASE Fail("null") \/ Fail("freed")
  BY <1>1 DEF Fail, Plain, rManager, rObjects, rThreads
<1>2. ASSUME NEW l \in {"recv", "check", "install", "push", "enqueue", "result", "spawn"},
             rpc[Reader] \in {"recv", "push", "enqueue", "result"},
             rpc' = [rpc EXCEPT ![Reader] = l],
             \A s \in Thread \ {Reader} : rch'[s] = rch[s] /\ rid'[s] = rid[s],
             UNCHANGED <<responseChannel, rId, rClosed, rBufClosed, rreq, rOverlap>>
      PROVE  Plain
  <2>1. rpc'[Reader] = l /\ \A s \in Thread : s # Reader => rpc'[s] = rpc[s]
    BY <1>2 DEF Typed, TypeOK
  <2> QED BY <1>2, <2>1 DEF Plain, Busy, CloseLabels
<1>3. CASE ReceiveEnd
  <2>1. \E l \in {"recv", "check"} : rpc' = [rpc EXCEPT ![Reader] = l]
    BY <1>3 DEF ReceiveEnd, Typed, TypeOK
  <2> QED BY <1>2, <1>3, <2>1 DEF ReceiveEnd, Typed, TypeOK, rManager, rObjects
<1>4. CASE ReceiveRequest
  BY <1>2, <1>4 DEF ReceiveRequest, Typed, TypeOK, rManager, rObjects
<1>5. CASE Push
  BY <1>1, <1>2, <1>5 DEF Push, Typed, TypeOK, rManager, rObjects
<1>6. CASE Enqueue
  BY <1>1, <1>2, <1>6 DEF Enqueue, rManager
<1>7. CASE Result
  BY <1>2, <1>7 DEF Result, Typed, TypeOK, rManager, rObjects
<1>8. CASE Spawn
  <2>1. PICK h \in Handler :
           /\ rpc[h] = "idle"
           /\ rpc' = [rpc EXCEPT ![h] = "open", ![Reader] = "recv"]
           /\ rreq' = [rreq EXCEPT ![h] = rch[Reader]]
    BY <1>8 DEF Spawn
  <2>2. /\ rpc'[h] = "open" /\ rpc'[Reader] = "recv" /\ rpc[Reader] = "spawn"
        /\ \A s \in Thread : s # h /\ s # Reader => rpc'[s] = rpc[s]
        /\ \A s \in Thread : s # Reader => rch'[s] = rch[s]
        /\ UNCHANGED <<responseChannel, rId, rClosed, rBufClosed, rid, rOverlap>>
    BY <1>8, <2>1 DEF Spawn, Typed, TypeOK, rManager, rObjects
  <2>3. rreq[h] = None /\ \A g \in Handler : g # h => rreq'[g] = rreq[g]
    BY <2>1 DEF Typed, TypeOK, Pointers
  <2> QED BY <2>1, <2>2, <2>3 DEF Plain, Busy, CloseLabels, RemoveLabels
<1>9. CASE HangUp
  BY <1>2, <1>9 DEF HangUp, rManager, rObjects
<1> QED BY <1>3, <1>4, <1>5, <1>6, <1>7, <1>8, <1>9 DEF Forward

\* A handler's operations, which leave the reader alone.
LEMMA HandlePlain ==
    ASSUME Typed, NEW h \in Handler, Handle(h)
    PROVE  /\ Plain
           /\ UNCHANGED <<rAlive, rConn>> /\ rpc'[Reader] = rpc[Reader]
           /\ rid'[Reader] = rid[Reader] /\ rch'[Reader] = rch[Reader]
<1> USE Threads DEF GoTo
<1>1. /\ UNCHANGED <<responseChannel, rAlive, rId, rClosed, rBufClosed, rreq, rConn, rOverlap>>
      /\ rpc[h] \in {"open", "send", "read"}
      /\ \E l \in {"open", "send", "read", "close"} : rpc' = [rpc EXCEPT ![h] = l]
      /\ \A s \in Thread \ {h} : rch'[s] = rch[s] /\ rid'[s] = rid[s]
      /\ rpc'[h] = "close" => rch'[h] = rreq[h]
  <2>1. CASE BeginRead(h) \/ ReadTimesOut(h) \/ Write(h)
    BY <2>1 DEF BeginRead, ReadTimesOut, Write, Typed, TypeOK, rManager, rObjects, rNetwork
  <2>2. CASE Read(h) \/ Send(h)
    BY <2>2 DEF Read, Send, Typed, TypeOK, rManager, rObjects, rNetwork
  <2>3. CASE Return(h)
    BY <2>3 DEF Return, Typed, TypeOK, rManager, rObjects, rNetwork
  <2> QED BY <2>1, <2>2, <2>3 DEF Handle
<1>2. rpc'[h] \in {"open", "send", "read", "close"} /\ \A s \in Thread : s # h => rpc'[s] = rpc[s]
  BY <1>1 DEF Typed, TypeOK
<1> QED BY <1>1, <1>2 DEF Plain, Busy, CloseLabels, RemoveLabels

\* A fault, the peer, and steps of something else.
LEMMA IdlePlain ==
    ASSUME UNCHANGED <<responseChannel, rId, rClosed, rBufClosed, rThreads, rOverlap>>
    PROVE  Plain
BY DEF Plain, rThreads, CloseLabels, RemoveLabels

-----------------------------------------------------------------------------
(* Plain steps keep the invariant.                                         *)

\* Steps that leave the reader alone.
LEMMA OthersKeep ==
    ASSUME Typed, Steadfast, Found, Plain, UNCHANGED rAlive,
           rConn' = "closed" <=> rConn = "closed",
           rpc'[Reader] = rpc[Reader], rid'[Reader] = rid[Reader], rch'[Reader] = rch[Reader]
    PROVE  Steadfast' /\ Found'
<1>1. Destruction' /\ EmptySlot'
  BY OthersDestruction DEF Steadfast, Plain, EmptySlot
<1>2. OwnFirst'
  BY PlainOwnFirst DEF Steadfast
<1>3. ASSUME ~rOverlap
      PROVE  Windows' /\ Located' /\ AllServed'
  <2>1. AllServed'
    BY <1>3, SameArriving, PlainServed DEF Found, Plain
  <2> QED BY <1>3, <2>1, PlainFound DEF Found
<1> QED BY <1>1, <1>2, <1>3 DEF Steadfast, Found, Plain

\* Steps of the reader's loop.  What forwardMessage reads last from the table
\* may be null only if the channel is closed or about to be.
LEMMA ForwardKeeps ==
    ASSUME Typed, Steadfast, Found, Forward \/ HangUp, ~Install
    PROVE  Steadfast' /\ Found'
<1> USE Threads DEF GoTo
<1>1. Plain
  BY ForwardPlain
<1>2. CASE Fail("null") \/ Fail("freed")
  BY <1>1, <1>2, OthersKeep DEF Fail, rManager, rThreads, rNetwork
<1>3. ASSUME ~(Fail("null") \/ Fail("freed"))
      PROVE  Destruction' /\ EmptySlot'
  <2>1. CASE ReceiveEnd
    <3>1. /\ rpc[Reader] = "recv" /\ UNCHANGED <<rAlive, rConn>>
          /\ rpc'[Reader] = "check" \/ (rpc'[Reader] = "recv" /\ UNCHANGED rid)
      BY <2>1 DEF ReceiveEnd, Typed, TypeOK, rManager
    <3>2. rConn # "closed"
      BY <3>1 DEF Steadfast, Destruction, CloseLabels, RemoveLabels
    <3> QED BY <3>1, <3>2, OpenDestruction DEF Steadfast, Destruction, EmptySlot
  <2>2. CASE ReceiveRequest
    <3>1. /\ rpc[Reader] = "recv" /\ UNCHANGED <<rAlive, rConn, responseChannel>>
          /\ \/ rpc'[Reader] = "push"
             \/ rpc'[Reader] = "install" /\ responseChannel[rid'[Reader]] = None
      BY <2>2 DEF ReceiveRequest, Typed, TypeOK, rManager
    <3>2. rConn # "closed"
      BY <3>1 DEF Steadfast, Destruction, CloseLabels, RemoveLabels
    <3> QED BY <3>1, <3>2, OpenDestruction DEF Steadfast, EmptySlot
  <2>3. CASE Push \/ Enqueue
    <3>1. /\ rpc[Reader] \in {"push", "enqueue"} /\ UNCHANGED <<rAlive, rConn>>
          /\ rpc'[Reader] \in {"enqueue", "result"}
      BY <1>3, <2>3 DEF Push, Enqueue, Typed, TypeOK, rManager, rNetwork
    <3>2. rConn # "closed"
      BY <3>1 DEF Steadfast, Destruction, CloseLabels, RemoveLabels
    <3> QED BY <3>1, <3>2, OpenDestruction DEF Steadfast, EmptySlot
  <2>4. CASE Result
    <3>1. /\ rpc[Reader] = "result" /\ UNCHANGED <<rAlive, rConn>>
          /\ rpc'[Reader] \in {"spawn", "recv"} /\ rid'[Reader] = 0
      BY <2>4 DEF Result, Typed, TypeOK, rManager, rNetwork
    <3>2. rConn # "closed"
      BY <3>1 DEF Steadfast, Destruction, CloseLabels, RemoveLabels
    <3> QED BY <3>1, <3>2, OpenDestruction DEF Steadfast, EmptySlot
  <2>5. CASE Spawn
    <3>1. /\ rpc[Reader] = "spawn" /\ UNCHANGED <<rAlive, rConn>>
          /\ rpc'[Reader] = "recv" /\ rid' = rid
      BY <2>5 DEF Spawn, Typed, TypeOK, rManager, rNetwork
    <3>2. rConn # "closed"
      BY <3>1 DEF Steadfast, Destruction, CloseLabels, RemoveLabels
    <3> QED BY <3>1, <3>2, OpenDestruction DEF Steadfast, Destruction, EmptySlot
  <2>6. CASE HangUp
    <3>1. /\ rpc[Reader] = "recv" /\ rAlive' = rAlive /\ rConn' = "closed" /\ rid' = rid
          /\ rpc'[Reader] = "check"
      BY <2>6 DEF HangUp, Typed, TypeOK, rManager
    <3>2. rid[Reader] = 0 /\ \A i \in Id : ~(i < 0)
      BY <3>1 DEF Steadfast, Destruction, Id
    <3>3. Destruction'
      BY <3>1, <3>2 DEF Steadfast, Destruction, Swept, CloseLabels, RemoveLabels
    <3> QED BY <3>1, <3>3 DEF EmptySlot
  <2> QED BY <2>1, <2>2, <2>3, <2>4, <2>5, <2>6 DEF Forward
<1>4. OwnFirst'
  BY <1>1, PlainOwnFirst DEF Steadfast
<1>5. ASSUME ~(Fail("null") \/ Fail("freed")), ~rOverlap, NEW r \in RChannel, Constructed(r),
             ~rClosed[r], Arriving(r)
      PROVE  Served(r)'
  <2>0. r # None /\ rId' = rId
    BY <1>1, ConstantsOK DEF ConstantsOK, Plain
  <2>1. CASE rpc[Reader] \in {"push", "enqueue"}
    <3>1. rpc'[Reader] \in {"enqueue", "result"} /\ rid' = rid
      BY <1>5, <2>1 DEF Forward, HangUp, ReceiveEnd, ReceiveRequest, Push, Enqueue, Result, Spawn,
                        Typed, TypeOK
    <3> QED BY <1>5, <2>0, <2>1, <3>1 DEF Arriving, Served
  <2>2. CASE rpc[Reader] = "result"
    <3>1. /\ rch'[Reader] = responseChannel[rid[Reader]] /\ rid[Reader] = rId[r]
          /\ rch'[Reader] # None => rpc'[Reader] = "spawn"
      BY <1>5, <2>2 DEF Forward, HangUp, ReceiveEnd, ReceiveRequest, Push, Enqueue, Result, Spawn,
                        Typed, TypeOK, Arriving
    <3>2. CASE responseChannel[rId[r]] = r
      BY <2>0, <3>1, <3>2 DEF Arriving, Served
    <3>3. CASE responseChannel[rId[r]] # r
      <4>1. AtClose(r) \/ InClose(r)
        BY <1>5, <3>3 DEF Found, Located
      <4>2. PICK t \in Thread : rch[t] = r /\ rpc[t] \in CloseLabels
        BY <4>1 DEF AtClose, InClose, CloseLabels
      <4>3. rch'[t] = r /\ rpc'[t] \in CloseLabels
        BY <1>1, <4>2 DEF Plain, Busy
      <4> QED BY <4>3 DEF Served
    <3> QED BY <3>2, <3>3
  <2>3. CASE rpc[Reader] = "spawn"
    <3>1. rch[Reader] = r
      BY <1>5, <2>3 DEF Arriving
    <3>2. PICK h \in Handler : rreq' = [rreq EXCEPT ![h] = rch[Reader]]
      BY <2>3 DEF Forward, HangUp, ReceiveEnd, ReceiveRequest, Push, Enqueue, Result, Spawn
    <3>3. rreq'[h] = r
      BY <3>1, <3>2 DEF Typed, TypeOK
    <3> QED BY <3>3 DEF Served
  <2> QED BY <1>5, <2>1, <2>2, <2>3 DEF Arriving
<1>6. ASSUME ~(Fail("null") \/ Fail("freed")), ~rOverlap
      PROVE  Windows' /\ Located' /\ AllServed'
  BY <1>1, <1>5, <1>6, PlainFound, PlainServed DEF Found
<1> QED BY <1>1, <1>2, <1>3, <1>4, <1>6 DEF Steadfast, Found, Plain

-----------------------------------------------------------------------------
(* The construction of a channel.                                          *)

\* The slot is empty, so that no other channel is found there, and the new
\* channel is in the hands of the reader.
LEMMA InstallKeeps ==
    ASSUME Typed, Steadfast, Found, Install
    PROVE  Steadfast' /\ Found'
<1> USE Threads DEF GoTo
<1>1. PICK r \in RChannel :
         /\ rId[r] = None
         /\ rId' = [rId EXCEPT ![r] = rid[Reader]]
         /\ responseChannel' = [responseChannel EXCEPT ![rid[Reader]] = r]
  BY DEF Install, Fresh
<1>2. /\ rpc[Reader] = "install" /\ rpc'[Reader] = "push"
      /\ \A t \in Thread : t # Reader => rpc'[t] = rpc[t]
      /\ UNCHANGED <<rAlive, rClosed, rBufClosed, rid, rch, rreq, rConn, rOverlap>>
  BY DEF Install, Typed, TypeOK, rNetwork
<1>3. /\ rid[Reader] \in Id /\ rId'[r] = rid[Reader]
      /\ \A q \in RChannel : q # r => rId'[q] = rId[q]
      /\ responseChannel'[rid[Reader]] = r
      /\ \A i \in Id : i # rid[Reader] => responseChannel'[i] = responseChannel[i]
  BY <1>1 DEF Typed, TypeOK
<1>4. responseChannel[rid[Reader]] = None /\ \A q \in RChannel : q # None
  BY <1>2, ConstantsOK DEF ConstantsOK, Steadfast, EmptySlot
<1>5. Steadfast'
  <2>1. rConn # "closed"
    BY <1>2 DEF Steadfast, Destruction, CloseLabels, RemoveLabels
  <2>2. Destruction'
    BY <1>2, <2>1, OpenDestruction DEF Steadfast
  <2>3. OwnFirst'
    BY <1>2 DEF Steadfast, OwnFirst
  <2> QED BY <1>2, <2>2, <2>3 DEF Steadfast, EmptySlot
<1>6. ASSUME ~rOverlap
      PROVE  Windows' /\ Located' /\ AllServed'
  <2>0. Windows /\ Located /\ AllServed
    BY <1>6 DEF Found
  <2>1. Windows'
    <3>1. \A t \in Thread : InWindow(t)' => InWindow(t) /\ rid[t] \in Id /\ rid[t] # rid[Reader]
      BY <1>2, <1>4, <2>0 DEF InWindow, Windows, Typed, TypeOK
    <3>2. \A t \in Thread : rpc'[t] = "store" => rpc[t] = "store" /\ InWindow(t)'
      BY <1>2 DEF InWindow
    <3> QED BY <1>2, <1>3, <2>0, <3>1, <3>2 DEF Windows
  <2>2. Located'
    <3>1. \A q \in RChannel : (AtClose(q) => AtClose(q)') /\ (InClose(q) => InClose(q)')
      BY <1>2 DEF AtClose, InClose
    <3>2. ~rBufClosed[r]
      BY <1>1 DEF Typed, Objects
    <3>3. \A q \in RChannel : q # r /\ rId[q] # None => rId[q] \in Id
      BY DEF Typed, TypeOK
    <3> QED BY <1>2, <1>3, <1>4, <2>0, <3>1, <3>2, <3>3 DEF Located, Constructed
  <2>3. AllServed'
    <3>1. ASSUME NEW q \in RChannel, q # r, Constructed(q)', ~rClosed'[q]
          PROVE  Served(q)'
      <4>1. Served(q) /\ ~Arriving(q)
        BY <1>2, <1>3, <2>0, <3>1 DEF AllServed, Constructed, Arriving
      <4>2. \A t \in Thread : rpc[t] \in CloseLabels \cup {"store"} => rpc'[t] = rpc[t]
        BY <1>2 DEF CloseLabels
      <4> QED BY <1>2, <4>1, <4>2 DEF Served
    <3>2. Served(r)'
      BY <1>2, <1>3 DEF Served, Arriving
    <3> QED BY <3>1, <3>2 DEF AllServed
  <2> QED BY <2>1, <2>2, <2>3
<1> QED BY <1>2, <1>5, <1>6 DEF Found

-----------------------------------------------------------------------------
(* Steps of a thread inside close() and removeResponseChannel.             *)

\* The call returns: the channel was closed, or the slot was empty.
LEMMA FinishKeeps ==
    ASSUME Typed, Steadfast, Found, NEW t \in Thread, Finish(t),
           UNCHANGED <<responseChannel, rId, rClosed, rBufClosed, rConn, rOverlap>>,
           \/ rpc[t] = "check" /\ responseChannel[rid[t]] = None
           \/ rpc[t] = "close" /\ rch[t] # None /\ rClosed[rch[t]]
    PROVE  Steadfast' /\ Found'
<1>0. FinishDoes(t)
  BY FinishEffect DEF Typed
<1>1. Destruction'
  <2>1. t = Reader /\ rConn = "closed" => responseChannel[rid[Reader]] = None
    BY DEF Steadfast, Destruction, Swept, CloseLabels, Typed, TypeOK
  <2> QED BY <1>0, <2>1, FinishDestruction DEF Steadfast
<1>2. /\ rpc'[t] \in {"idle", "recv", "check", "gone"}
      /\ t \in Handler => rpc'[t] = "idle"
      /\ \A s \in Thread : s # t => rpc'[s] = rpc[s] /\ rid'[s] = rid[s] /\ rch'[s] = rch[s]
      /\ \A h \in Handler : h # t => rreq'[h] = rreq[h]
  BY <1>0, Threads DEF FinishDoes
<1>3. EmptySlot' /\ OwnFirst'
  BY <1>2, Threads DEF Steadfast, EmptySlot, OwnFirst, CloseLabels, RemoveLabels
<1>4. ASSUME ~rOverlap
      PROVE  Windows' /\ Located' /\ AllServed'
  <2>0. Windows /\ Located /\ AllServed
    BY <1>4 DEF Found
  <2>1. Windows'
    BY <1>2, <2>0 DEF Windows, InWindow
  <2>2. Located'
    <3>1. \A r \in RChannel : AtClose(r) => AtClose(r)' \/ rBufClosed[r]
      BY <1>2 DEF AtClose, Typed, Objects
    <3>2. \A r \in RChannel : InClose(r) => InClose(r)'
      BY <1>2 DEF InClose
    <3> QED BY <2>0, <3>1, <3>2 DEF Located, Constructed
  <2>3. AllServed'
    <3> SUFFICES ASSUME NEW r \in RChannel, Constructed(r), ~rClosed[r]
                 PROVE  Served(r)'
      BY DEF AllServed, Constructed
    <3>1. Served(r)
      BY <2>0 DEF AllServed
    <3>2. CASE \E h \in Handler : rreq[h] = r
      <4>1. PICK h \in Handler : rreq[h] = r
        BY <3>2
      <4>2. h # t
        BY <4>1 DEF Steadfast, OwnFirst, CloseLabels, RemoveLabels
      <4> QED BY <1>2, <4>1, <4>2 DEF Served
    <3>3. CASE \E s \in Thread : rch[s] = r /\ rpc[s] \in CloseLabels \cup {"store"}
      BY <1>2, <3>3 DEF Served, CloseLabels
    <3>4. CASE Arriving(r)
      BY <1>2, <3>4, Threads DEF Served, Arriving
    <3> QED BY <3>1, <3>2, <3>3, <3>4 DEF Served
  <2> QED BY <2>1, <2>2, <2>3
<1> QED BY <1>1, <1>3, <1>4 DEF Steadfast, Found

\* A step to another label of the two functions.
Inside(t) ==
    /\ UNCHANGED <<rId, rreq, rid, rAlive, rConn>>
    /\ \A s \in Thread : s # t => rpc'[s] = rpc[s] /\ rch'[s] = rch[s]
    /\ rpc[t] \in CloseLabels \cup RemoveLabels /\ rpc'[t] \in CloseLabels \cup RemoveLabels

\* Such steps disturb neither the destructor nor the construction of a channel.
LEMMA InsideDestruction ==
    ASSUME Typed, Destruction, EmptySlot, NEW t \in Thread, Inside(t),
           \A i \in Id : responseChannel'[i] \in {responseChannel[i], None},
           \/ rpc'[t] \notin CloseLabels
           \/ rpc[t] \in CloseLabels
           \/ responseChannel'[rid[t]] = None
    PROVE  Destruction' /\ EmptySlot'
<1>1. CASE t # Reader
  <2>1. Destruction'
    BY <1>1, Threads, OthersDestruction DEF Inside
  <2> QED BY <1>1, <2>1, Threads DEF Inside, EmptySlot, Typed, TypeOK
<1>2. CASE t = Reader
  <2>1. rpc[Reader] # "gone" /\ rpc'[Reader] \notin {"gone", "recv", "spawn", "install"}
    BY <1>2 DEF Inside, CloseLabels, RemoveLabels
  <2>2. Destruction'
    BY <1>2, <2>1, OpenDestruction, InnerDestruction DEF Inside
  <2> QED BY <2>1, <2>2 DEF EmptySlot
<1> QED BY <1>1, <1>2

\* Such steps leave no open channel without a server.
LEMMA InsideServed ==
    ASSUME Typed, AllServed, NEW t \in Thread, Inside(t),
           \A r \in RChannel : rClosed[r] => rClosed'[r],
           \A r \in RChannel : rch[t] = r /\ rpc[t] \in CloseLabels \cup {"store"} =>
              rClosed'[r] \/ (rch'[t] = r /\ rpc'[t] \in CloseLabels \cup {"store"})
    PROVE  AllServed'
<1> SUFFICES ASSUME NEW r \in RChannel, Constructed(r), ~rClosed'[r]
             PROVE  Served(r)'
  BY DEF AllServed, Constructed, Inside
<1>1. Served(r)
  BY DEF AllServed
<1>2. CASE \E h \in Handler : rreq[h] = r
  BY <1>2 DEF Served, Inside
<1>3. CASE \E s \in Thread : rch[s] = r /\ rpc[s] \in CloseLabels \cup {"store"}
  BY <1>3 DEF Served, Inside
<1>4. CASE Arriving(r)
  <2>1. t # Reader
    BY <1>4 DEF Arriving, Inside, CloseLabels, RemoveLabels
  <2> QED BY <1>4, <2>1, Threads DEF Arriving, Served, Inside
<1> QED BY <1>1, <1>2, <1>3, <1>4 DEF Served

\* close(): the buffer is closed, the end is sent, the channel is closed.
LEMMA CloseKeeps ==
    ASSUME Typed, Steadfast, Found, NEW t \in Thread, Close(t)
    PROVE  Steadfast' /\ Found'
<1> USE DEF GoTo
<1>1. CASE Fail("null")
  <2>1. Plain
    BY <1>1, IdlePlain DEF Fail, rManager, rObjects
  <2> QED BY <1>1, <2>1, OthersKeep DEF Fail, rManager, rThreads, rNetwork
<1>2. CASE CloseCheck(t) /\ rch[t] # None /\ rClosed[rch[t]]
  <2>1. /\ rpc[t] = "close" /\ Finish(t)
        /\ UNCHANGED <<responseChannel, rId, rClosed, rBufClosed, rConn, rOverlap>>
    BY <1>2 DEF CloseCheck, rObjects, rNetwork
  <2> QED BY <1>2, <2>1, FinishKeeps
<1>3. CASE CloseCheck(t) /\ rch[t] # None /\ ~rClosed[rch[t]]
  <2>1. /\ rpc[t] = "close" /\ rpc' = [rpc EXCEPT ![t] = "end"]
        /\ rBufClosed' = [rBufClosed EXCEPT ![rch[t]] = TRUE]
        /\ UNCHANGED <<responseChannel, rAlive, rId, rClosed, rid, rch, rreq, rConn, rOverlap>>
    BY <1>3 DEF CloseCheck, rManager, rNetwork
  <2>2. rpc'[t] = "end" /\ \A s \in Thread : s # t => rpc'[s] = rpc[s]
    BY <2>1 DEF Typed, TypeOK
  <2>3. Inside(t)
    BY <2>1, <2>2 DEF Inside, CloseLabels
  <2>4. Destruction' /\ EmptySlot'
    BY <2>1, <2>3, InsideDestruction DEF Steadfast, CloseLabels
  <2>5. OwnFirst'
    BY <2>1, <2>2 DEF Steadfast, OwnFirst, CloseLabels, RemoveLabels
  <2>6. ASSUME ~rOverlap
        PROVE  Windows' /\ Located' /\ AllServed'
    <3>1. Windows'
      BY <2>1, <2>2, <2>6 DEF Found, Windows, InWindow
    <3>2. \A r \in RChannel : rBufClosed'[r] <=> rBufClosed[r] \/ r = rch[t]
      BY <1>3, <2>1 DEF Typed, TypeOK
    <3>3. /\ \A r \in RChannel : AtClose(r) => AtClose(r)' \/ r = rch[t]
          /\ \A r \in RChannel : InClose(r) \/ r = rch[t] => InClose(r)'
      BY <2>1, <2>2 DEF AtClose, InClose
    <3>4. Located'
      BY <2>1, <2>6, <3>2, <3>3 DEF Found, Located, Constructed
    <3>5. AllServed'
      BY <2>1, <2>2, <2>3, <2>6, InsideServed DEF Found, CloseLabels
    <3> QED BY <3>1, <3>4, <3>5
  <2> QED BY <2>1, <2>4, <2>5, <2>6 DEF Steadfast, Found
<1>4. CASE SendEnd(t)
  <2>1. /\ rpc[t] = "end" /\ rpc' = [rpc EXCEPT ![t] = "mark"]
        /\ UNCHANGED <<responseChannel, rAlive, rId, rClosed, rBufClosed, rid, rch, rreq, rConn,
                       rOverlap>>
    BY <1>4 DEF SendEnd, rManager, rObjects
  <2>2. rpc'[t] = "mark" /\ \A s \in Thread : s # t => rpc'[s] = rpc[s]
    BY <2>1 DEF Typed, TypeOK
  <2>3. Inside(t)
    BY <2>1, <2>2 DEF Inside, CloseLabels
  <2>4. Destruction' /\ EmptySlot'
    BY <2>1, <2>3, InsideDestruction DEF Steadfast, CloseLabels
  <2>5. OwnFirst'
    BY <2>1, <2>2 DEF Steadfast, OwnFirst, CloseLabels, RemoveLabels
  <2>6. ASSUME ~rOverlap
        PROVE  Windows' /\ Located' /\ AllServed'
    <3>1. Windows'
      BY <2>1, <2>2, <2>6 DEF Found, Windows, InWindow
    <3>2. \A r \in RChannel : (AtClose(r) => AtClose(r)') /\ (InClose(r) => InClose(r)')
      BY <2>1, <2>2 DEF AtClose, InClose
    <3>3. Located'
      BY <2>1, <2>6, <3>2 DEF Found, Located, Constructed
    <3>4. AllServed'
      BY <2>1, <2>2, <2>3, <2>6, InsideServed DEF Found, CloseLabels
    <3> QED BY <3>1, <3>3, <3>4
  <2> QED BY <2>1, <2>4, <2>5, <2>6 DEF Steadfast, Found
<1>5. CASE MarkClosed(t)
  <2>1. /\ rpc[t] = "mark" /\ rpc' = [rpc EXCEPT ![t] = "check"]
        /\ rClosed' = [rClosed EXCEPT ![rch[t]] = TRUE]
        /\ UNCHANGED <<responseChannel, rAlive, rId, rBufClosed, rid, rch, rreq, rConn, rOverlap>>
    BY <1>5 DEF MarkClosed, rManager, rNetwork
  <2>2. rpc'[t] = "check" /\ \A s \in Thread : s # t => rpc'[s] = rpc[s]
    BY <2>1 DEF Typed, TypeOK
  <2>3. /\ rch[t] \in RChannel
        /\ \A r \in RChannel : rClosed'[r] <=> rClosed[r] \/ r = rch[t]
    BY <2>1 DEF Typed, TypeOK, Pointers
  <2>4. Inside(t)
    BY <2>1, <2>2 DEF Inside, CloseLabels, RemoveLabels
  <2>5. Destruction' /\ EmptySlot'
    BY <2>1, <2>2, <2>4, InsideDestruction DEF Steadfast, CloseLabels
  <2>6. OwnFirst'
    <3>1. \A h \in Handler : rpc[h] # "idle" => rreq[h] \in RChannel
      BY DEF Typed, TypeOK, Pointers
    <3> QED BY <2>1, <2>2, <2>3, <3>1 DEF Steadfast, OwnFirst, CloseLabels, RemoveLabels
  <2>7. ASSUME ~rOverlap
        PROVE  Windows' /\ Located' /\ AllServed'
    <3>1. Windows'
      BY <2>1, <2>2, <2>7 DEF Found, Windows, InWindow
    <3>2. \A r \in RChannel : /\ AtClose(r) => AtClose(r)'
                              /\ InClose(r) => InClose(r)' \/ r = rch[t]
      BY <2>1, <2>2 DEF AtClose, InClose
    <3>3. Located'
      BY <2>1, <2>3, <2>7, <3>2 DEF Found, Located, Constructed
    <3>4. AllServed'
      BY <2>1, <2>3, <2>4, <2>7, InsideServed DEF Found
    <3> QED BY <3>1, <3>3, <3>4
  <2> QED BY <2>1, <2>5, <2>6, <2>7 DEF Steadfast, Found
<1> QED BY <1>1, <1>2, <1>3, <1>4, <1>5 DEF Close, CloseCheck

\* removeResponseChannel: the slot is tested, read, and cleared.
LEMMA RemoveKeeps ==
    ASSUME Typed, Steadfast, Found, NEW t \in Thread, Remove(t)
    PROVE  Steadfast' /\ Found'
<1> USE DEF GoTo, At
<1>1. CASE RemoveCheck(t) /\ responseChannel[rid[t]] = None
  <2>1. /\ rpc[t] = "check" /\ Finish(t)
        /\ UNCHANGED <<responseChannel, rId, rClosed, rBufClosed, rConn, rOverlap>>
    BY <1>1 DEF RemoveCheck, rObjects, rNetwork
  <2> QED BY <1>1, <2>1, FinishKeeps
<1>2. CASE RemoveCheck(t) /\ responseChannel[rid[t]] # None
  <2>1. /\ rpc[t] = "check" /\ rpc' = [rpc EXCEPT ![t] = "load"]
        /\ ~rOverlap' => ~rOverlap /\ \A s \in Thread \ {t} : InWindow(s) => rid[s] # rid[t]
        /\ UNCHANGED <<responseChannel, rAlive, rId, rClosed, rBufClosed, rid, rch, rreq, rConn>>
    BY <1>2 DEF RemoveCheck, rManager, rObjects, rNetwork
  <2>2. rpc'[t] = "load" /\ \A s \in Thread : s # t => rpc'[s] = rpc[s]
    BY <2>1 DEF Typed, TypeOK
  <2>3. Inside(t)
    BY <2>1, <2>2 DEF Inside, RemoveLabels
  <2>4. Destruction' /\ EmptySlot'
    BY <2>1, <2>2, <2>3, InsideDestruction DEF Steadfast, CloseLabels
  <2>5. OwnFirst'
    BY <2>1, <2>2 DEF Steadfast, OwnFirst, CloseLabels, RemoveLabels
  <2>6. ASSUME ~rOverlap'
        PROVE  Windows' /\ Located' /\ AllServed'
    <3>1. Windows'
      BY <1>2, <2>1, <2>2, <2>6 DEF Found, Windows, InWindow
    <3>2. \A r \in RChannel : (AtClose(r) => AtClose(r)') /\ (InClose(r) => InClose(r)')
      BY <2>1, <2>2 DEF AtClose, InClose
    <3>3. Located'
      BY <2>1, <2>6, <3>2 DEF Found, Located, Constructed
    <3>4. AllServed'
      BY <2>1, <2>3, <2>6, InsideServed DEF Found, CloseLabels
    <3> QED BY <3>1, <3>3, <3>4
  <2> QED BY <2>4, <2>5, <2>6 DEF Steadfast, Found
<1>3. CASE RemoveLoad(t)
  <2>1. /\ rpc[t] = "load" /\ rpc' = [rpc EXCEPT ![t] = "store"]
        /\ rch' = [rch EXCEPT ![t] = responseChannel[rid[t]]]
        /\ UNCHANGED <<responseChannel, rAlive, rId, rClosed, rBufClosed, rid, rreq, rConn,
                       rOverlap>>
    BY <1>3 DEF RemoveLoad, rManager, rObjects, rNetwork
  <2>2. /\ rpc'[t] = "store" /\ \A s \in Thread : s # t => rpc'[s] = rpc[s]
        /\ rch'[t] = responseChannel[rid[t]] /\ \A s \in Thread : s # t => rch'[s] = rch[s]
    BY <2>1 DEF Typed, TypeOK
  <2>3. Inside(t)
    BY <2>1, <2>2 DEF Inside, RemoveLabels
  <2>4. Destruction' /\ EmptySlot'
    BY <2>1, <2>2, <2>3, InsideDestruction DEF Steadfast, CloseLabels
  <2>5. OwnFirst'
    BY <2>1, <2>2 DEF Steadfast, OwnFirst, CloseLabels, RemoveLabels
  <2>6. ASSUME ~rOverlap
        PROVE  Windows' /\ Located' /\ AllServed'
    <3>1. Windows'
      BY <2>1, <2>2, <2>6 DEF Found, Windows, InWindow
    <3>2. \A r \in RChannel : (AtClose(r) => AtClose(r)') /\ (InClose(r) => InClose(r)')
      BY <2>1, <2>2 DEF AtClose, InClose
    <3>3. Located'
      BY <2>1, <2>6, <3>2 DEF Found, Located, Constructed
    <3>4. AllServed'
      BY <2>1, <2>3, <2>6, InsideServed DEF Found, CloseLabels
    <3> QED BY <3>1, <3>3, <3>4
  <2> QED BY <2>1, <2>4, <2>5, <2>6 DEF Steadfast, Found
<1>4. CASE RemoveStore(t)
  <2>1. /\ rpc[t] = "store" /\ rpc' = [rpc EXCEPT ![t] = "close"]
        /\ responseChannel' = [responseChannel EXCEPT ![rid[t]] = None]
        /\ UNCHANGED <<rAlive, rId, rClosed, rBufClosed, rid, rch, rreq, rConn, rOverlap>>
    BY <1>4 DEF RemoveStore, rObjects, rNetwork
  <2>2. /\ rpc'[t] = "close" /\ \A s \in Thread : s # t => rpc'[s] = rpc[s]
        /\ rid[t] \in Id /\ responseChannel'[rid[t]] = None
        /\ \A i \in Id : i # rid[t] => responseChannel'[i] = responseChannel[i]
    BY <2>1 DEF Typed, TypeOK
  <2>3. Inside(t)
    BY <2>1, <2>2 DEF Inside, CloseLabels, RemoveLabels
  <2>4. Destruction' /\ EmptySlot'
    BY <2>1, <2>2, <2>3, InsideDestruction DEF Steadfast
  <2>5. OwnFirst'
    BY <2>1, <2>2 DEF Steadfast, OwnFirst, CloseLabels, RemoveLabels
  <2>6. ASSUME ~rOverlap
        PROVE  Windows' /\ Located' /\ AllServed'
    <3>0. Windows /\ Located /\ AllServed
      BY <2>6 DEF Found
    <3>1. Windows'
      <4>1. \A s \in Thread : InWindow(s)' => InWindow(s) /\ rid[s] \in Id /\ rid[s] # rid[t]
        BY <2>1, <2>2, <3>0 DEF Windows, InWindow, Typed, TypeOK
      <4>2. \A s \in Thread : rpc'[s] = "store" => rpc[s] = "store" /\ InWindow(s)'
        BY <2>2 DEF InWindow
      <4> QED BY <2>1, <2>2, <3>0, <4>1, <4>2 DEF Windows
    <3>2. /\ \A r \in RChannel : (AtClose(r) => AtClose(r)') /\ (InClose(r) => InClose(r)')
          /\ \A r \in RChannel : r = responseChannel[rid[t]] => AtClose(r)'
      BY <2>1, <2>2, <3>0 DEF AtClose, InClose, Windows
    <3>3. Located'
      <4>1. \A r \in RChannel : Constructed(r) => rId[r] \in Id
        BY DEF Constructed, Typed, TypeOK
      <4> QED BY <2>1, <2>2, <3>0, <3>2, <4>1 DEF Located, Constructed
    <3>4. AllServed'
      BY <2>1, <2>2, <2>3, <3>0, InsideServed DEF CloseLabels
    <3> QED BY <3>1, <3>3, <3>4
  <2> QED BY <2>1, <2>4, <2>5, <2>6 DEF Steadfast, Found
<1> QED BY <1>1, <1>2, <1>3, <1>4 DEF Remove, RemoveCheck

-----------------------------------------------------------------------------
(* The theorems.                                                           *)

\* Every step keeps the invariant.
LEMMA NextKeeps ==
    ASSUME Typed, Steadfast, Found, [Next]_rVars
    PROVE  Steadfast' /\ Found'
<1>1. ASSUME NEW h \in Handler, HandlerStep(h)
      PROVE  Steadfast' /\ Found'
  <2>1. h \in Thread
    BY Threads
  <2>2. CASE UseFreed(h)
    <3>1. Fail("freed")
      BY <2>2 DEF UseFreed
    <3>2. Plain
      BY <3>1, IdlePlain DEF Fail, rManager, rObjects
    <3> QED BY <3>1, <3>2, OthersKeep DEF Fail, rManager, rThreads, rNetwork
  <2>3. CASE Handle(h)
    BY <2>3, HandlePlain, OthersKeep
  <2> QED BY <1>1, <2>1, <2>2, <2>3, CloseKeeps, RemoveKeeps DEF HandlerStep
<1>2. CASE ReaderStep
  BY <1>2, Threads, ForwardKeeps, InstallKeeps, CloseKeeps, RemoveKeeps DEF ReaderStep
<1>3. CASE Peer \/ UNCHANGED rVars
  <2>1. /\ UNCHANGED <<rManager, rObjects, rThreads, rOverlap>>
        /\ rConn' = "closed" <=> rConn = "closed"
    BY <1>3 DEF Peer, PeerReads, PeerSends, PeerHangsUp, rVars, rNetwork
  <2>2. Plain
    BY <2>1, IdlePlain DEF rManager, rObjects
  <2> QED BY <2>1, <2>2, OthersKeep DEF rManager, rThreads
<1> QED BY <1>1, <1>2, <1>3 DEF Next

\* The invariant holds at first.
LEMMA InitKeeps ==
    ASSUME Init
    PROVE  Steadfast /\ Found
<1>1. rpc[Reader] = "recv" /\ rid[Reader] = 0 /\ rConn = "up" /\ rAlive = TRUE
      /\ \A t \in Thread : rpc[t] \in {"recv", "idle"}
  BY Threads DEF Init
<1>2. Destruction /\ EmptySlot
  BY <1>1 DEF Destruction, EmptySlot
<1>3. OwnFirst
  BY <1>1, Threads DEF OwnFirst, CloseLabels, RemoveLabels
<1>4. Windows
  BY <1>1 DEF Windows, InWindow
<1>5. \A r \in RChannel : ~Constructed(r)
  BY DEF Init, Constructed
<1> QED BY <1>2, <1>3, <1>4, <1>5 DEF Steadfast, Found, Located, AllServed

\* The invariant of all reachable states.
LEMMA FoundAlways == Spec => [](Typed /\ Steadfast /\ Found)
<1>1. Init => Typed /\ Steadfast /\ Found
  BY InitTyped, InitKeeps
<1>2. Typed /\ Steadfast /\ Found /\ [Next]_rVars => (Typed /\ Steadfast /\ Found)'
  BY NextTyped, NextKeeps
<1> QED BY <1>1, <1>2, PTL DEF Spec

\* Until two removals of one id overlap, a response channel that is not closed
\* is in the table under its id, or a thread is inside its close(): the next
\* message of the peer finds it.
THEOREM OpenChannelsReachable == Spec => []OpenChannelIsReachable
<1>1. ASSUME Typed, Steadfast, Found
      PROVE  OpenChannelIsReachable
  <2> SUFFICES ASSUME ~rOverlap, NEW r \in RChannel, Constructed(r), ~rClosed[r],
                      responseChannel[rId[r]] # r
               PROVE  \E t \in Thread : Closing(t, r)
    BY DEF OpenChannelIsReachable
  <2>1. AtClose(r) \/ InClose(r)
    BY <1>1 DEF Found, Located
  <2> QED BY <2>1 DEF AtClose, InClose, Closing, CloseLabels
<1> QED BY <1>1, FoundAlways, PTL

\* Until two removals of one id overlap, the reader never goes on to the next
\* message and leaves an open channel behind that no thread works on.
THEOREM OpenChannelsServed == Spec => []OpenChannelIsServed
<1>1. ASSUME Typed, Steadfast, Found
      PROVE  OpenChannelIsServed
  BY <1>1 DEF Found, AllServed, Served, Arriving, OpenChannelIsServed
<1> QED BY <1>1, FoundAlways, PTL

\* Until two removals of one id overlap, the destructor of the manager leaves
\* no channel with an open buffer, unless a thread is about to close it.
THEOREM HandlersReleased == Spec => []DestructorReleasesHandlers
<1>1. ASSUME Typed, Steadfast, Found
      PROVE  DestructorReleasesHandlers
  <2> SUFFICES ASSUME ~rAlive, ~rOverlap, NEW r \in RChannel, Constructed(r), ~rBufClosed[r]
               PROVE  AtClose(r)
    BY DEF DestructorReleasesHandlers, AtClose
  <2>1. rpc[Reader] = "gone" /\ rid[Reader] = LastId /\ rConn = "closed"
    BY <1>1 DEF Steadfast, Destruction
  <2>2. rId[r] \in Id
    BY <1>1 DEF Typed, TypeOK, Constructed
  <2>3. rId[r] <= LastId /\ LastId \in Int /\ rId[r] \in Int
    BY <2>2, ConstantsOK DEF ConstantsOK, Id, LastId
  <2>4. Swept(rId[r])
    BY <2>1, <2>3 DEF Swept
  <2>5. responseChannel[rId[r]] = None
    BY <1>1, <2>1, <2>2, <2>4 DEF Steadfast, Destruction
  <2>6. r # None
    BY ConstantsOK DEF ConstantsOK
  <2> QED BY <1>1, <2>5, <2>6 DEF Found, Located
<1> QED BY <1>1, FoundAlways, PTL

=============================================================================
