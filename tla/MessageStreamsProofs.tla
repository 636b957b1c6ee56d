----------------------- MODULE MessageStreamsProofs ------------------------
(***************************************************************************)
(* Theorems about MessageStreams, for buffers of every size and every      *)
(* number of messages and failures: types, and that messages are read as   *)
(* they were written.                                                      *)
(*                                                                         *)
(* That what has been read so far was right is not inductive: it must be   *)
(* known how the messages that are still to be read lie in the stream.     *)
(* Adding the lengths of any number of messages up would need recursion;   *)
(* InOrder says instead that there are positions f for their headers, each *)
(* behind the body of the one before, and each call of send() and recv()   *)
(* gives the next positions from the last.                                 *)
(***************************************************************************)
EXTENDS MessageStreams, SequenceTheorems, TLAPS

-----------------------------------------------------------------------------
(* The inductive invariant.                                                *)

\* A message on its way, and the cells and the header that belong to it.
Message == [by : Thread, kind : Kind]
HeaderCell(m) == [by |-> m.by, kind |-> m.kind, part |-> "header"]
BodyCell(m) == [by |-> m.by, kind |-> m.kind, part |-> "body"]
HeaderOf(m) == [by |-> m.by, kind |-> m.kind, length |-> Length[m.kind]]

\* The messages ds lie in the stream s one behind the other: the header of the
\* i-th at f[i], its body behind it.  When the reader has read the header h of the
\* first, that one is at 0; n cells of the last are still to be sent.
LaidOut(s, ds, h, n, f) ==
    /\ ds = <<>> => s = <<>> /\ h = None /\ n = 0
    /\ ds # <<>> => /\ f[1] = IF h = None THEN 1 ELSE 0
                    /\ h # None => h = HeaderOf(ds[1])
                    /\ f[Len(ds)] + Length[ds[Len(ds)].kind] = Len(s) + n
    /\ \A i, j \in DOMAIN ds :
        /\ i < j => f[i] + Length[ds[i].kind] < f[j]
        /\ j = i + 1 => f[j] = f[i] + Length[ds[i].kind] + 1
    /\ \A i \in DOMAIN ds : f[i] > 0 => f[i] \in DOMAIN s /\ s[f[i]] = HeaderCell(ds[i])
    /\ \A i \in DOMAIN ds, p \in DOMAIN s :
        f[i] < p /\ p <= f[i] + Length[ds[i].kind] => s[p] = BodyCell(ds[i])
InOrder(s, ds, h, n) == \E f \in [DOMAIN ds -> Nat] : LaidOut(s, ds, h, n, f)

\* A thread in writeMessage has a whole message to send, or holds the mutex and
\* has the end of the last body.
Whole(t, cs) == \E k \in Kind : cs = Cells(t, k)
EndOf(t, cs, ds) ==
    /\ ds # <<>> /\ ds[Len(ds)].by = t
    /\ \A i \in DOMAIN cs : cs[i] = BodyCell(ds[Len(ds)])
WriterInStep(e, t) ==
    /\ lock[e] = t => rest[e][t] # <<>>
    /\ \/ rest[e][t] = <<>>
       \/ Whole(t, rest[e][t])
       \/ lock[e] = t /\ EndOf(t, rest[e][t], due[e])

\* The cells that the holder of the mutex has still to send of the last body.
Unsent(e) ==
    IF lock[e] # None /\ Head(rest[e][lock[e]]).part = "body" THEN Len(rest[e][lock[e]]) ELSE 0

InStep ==
    \A e \in End :
        /\ \A t \in Thread : WriterInStep(e, t)
        /\ InOrder(stream[e], due[e], header[Peer(e)], Unsent(e))

\* When the connection has been given up, nothing is read or written any more.
Inv == ~outOfStep => agree /\ (up => InStep)

-----------------------------------------------------------------------------
(* Types.                                                                  *)

\* The four kinds of messages and their lengths.
LEMMA Lengths ==
    /\ Kind = {"data", "end", "echo", "empty"}
    /\ \A k \in Kind : Length[k] \in 0 .. 2 /\ Length[k] \in Nat
BY DEF Kind, Length

\* There are two ends.
LEMMA TwoEnds ==
    ASSUME NEW e \in End
    PROVE  /\ Peer(e) \in End /\ Peer(e) # e /\ Peer(Peer(e)) = e
           /\ \A d \in End : d = e \/ d = Peer(e)
<1>1. PICK o \in End : End = {Server, o} /\ o # Server
  BY ConstantsOK
<1>2. Server \in End
  BY ConstantsOK
<1>3. \A x \in End : \E d \in End : d # x
  BY <1>1, <1>2
<1>4. \A x \in End : Peer(x) \in End /\ Peer(x) # x
  BY <1>3, Zenon DEF Peer
<1>5. \A x \in End : \A d \in End : d = x \/ d = Peer(x)
  BY <1>1, <1>4
<1> QED BY <1>4, <1>5

\* What the actions do to sequences.
LEMMA SeqFacts ==
    ASSUME NEW S
    PROVE  /\ \A s \in Seq(S) : s # <<>> => Head(s) \in S /\ Head(s) = s[1] /\ Tail(s) \in Seq(S)
           /\ \A s \in Seq(S), x \in S : Append(s, x) \in Seq(S)
           /\ <<>> \in Seq(S)
OBVIOUS

\* The lengths that go with them.
LEMMA SeqLengths ==
    ASSUME NEW S, NEW s \in Seq(S)
    PROVE  /\ Len(s) \in Nat /\ DOMAIN s = 1 .. Len(s)
           /\ s = <<>> <=> Len(s) = 0
           /\ s # <<>> => /\ Len(Tail(s)) = Len(s) - 1
                          /\ \A i \in 1 .. Len(s) - 1 : Tail(s)[i] = s[i + 1]
           /\ \A x \in S : /\ Len(Append(s, x)) = Len(s) + 1
                           /\ Append(s, x)[Len(s) + 1] = x
                           /\ \A i \in 1 .. Len(s) : Append(s, x)[i] = s[i]
OBVIOUS

\* What the second recv() takes, and what it leaves.
LEMMA Split ==
    ASSUME NEW S, NEW s \in Seq(S), NEW n \in 0 .. Len(s)
    PROVE  /\ SubSeq(s, n + 1, Len(s)) \in Seq(S)
           /\ Len(SubSeq(s, n + 1, Len(s))) = Len(s) - n
           /\ \A i \in 1 .. Len(s) - n : SubSeq(s, n + 1, Len(s))[i] = s[n + i]
           /\ DOMAIN SubSeq(s, 1, n) = 1 .. n
           /\ \A i \in 1 .. n : SubSeq(s, 1, n)[i] = s[i]
OBVIOUS

\* A whole message is a header and a body.
LEMMA WholeMessage ==
    ASSUME NEW t \in Thread, NEW k \in Kind
    PROVE  /\ Cells(t, k) \in Seq(Cell) /\ Len(Cells(t, k)) = Length[k] + 1
           /\ Cells(t, k)[1] = HeaderCell([by |-> t, kind |-> k])
           /\ \A i \in 1 .. Length[k] : Cells(t, k)[i + 1] = BodyCell([by |-> t, kind |-> k])
<1> DEFINE h == <<[by |-> t, kind |-> k, part |-> "header"]>>
           b == [i \in 1 .. Length[k] |-> [by |-> t, kind |-> k, part |-> "body"]]
<1>1. Length[k] \in Nat
  BY Lengths
<1>2. h \in Seq(Cell) /\ Len(h) = 1 /\ h[1] = [by |-> t, kind |-> k, part |-> "header"]
  BY DEF Cell
<1>3. b \in [1 .. Length[k] -> Cell]
  BY <1>1 DEF Cell
<1>4. Cells(t, k) = h \o b
  BY DEF Cells
<1>5. \A i \in 1 .. Length[k] : b[i] = [by |-> t, kind |-> k, part |-> "body"]
  OBVIOUS
<1> HIDE DEF h, b
<1>6. b \in Seq(Cell) /\ Len(b) = Length[k]
  BY <1>1, <1>3, SeqDef, LenProperties
<1>7. /\ h \o b \in Seq(Cell) /\ Len(h \o b) = Len(h) + Len(b)
      /\ \A i \in 1 .. Len(h) + Len(b) :
            (h \o b)[i] = IF i <= Len(h) THEN h[i] ELSE b[i - Len(h)]
  BY <1>2, <1>6, ConcatProperties, Zenon
<1>8. (h \o b)[1] = h[1] /\ \A i \in 1 .. Length[k] : (h \o b)[i + 1] = b[i]
  BY <1>1, <1>2, <1>6, <1>7
<1> QED BY <1>1, <1>2, <1>4, <1>5, <1>6, <1>7, <1>8 DEF HeaderCell, BodyCell

\* One entry of a table of tables is changed.
LEMMA Put ==
    ASSUME NEW A, NEW B, NEW S, NEW f \in [A -> [B -> S]], NEW a \in A, NEW b \in B, NEW x \in S
    PROVE  /\ [f EXCEPT ![a][b] = x] \in [A -> [B -> S]]
           /\ [f EXCEPT ![a][b] = x][a][b] = x
           /\ \A c \in A : c # a => [f EXCEPT ![a][b] = x][c] = f[c]
           /\ \A d \in B : d # b => [f EXCEPT ![a][b] = x][a][d] = f[a][d]
OBVIOUS

\* The types hold at first.
LEMMA InitTyped == Init => TypeOK
<1> SUFFICES ASSUME Init PROVE TypeOK
  OBVIOUS
<1>1. <<>> \in Seq(Cell) /\ <<>> \in Seq([by : Thread, kind : Kind]) /\ Len(<<>>) = 0
  OBVIOUS
<1>2. 0 \in 0 .. MaxMessages /\ 0 \in 0 .. MaxFailures /\ 0 <= Room
  BY ConstantsOK
<1> QED BY <1>1, <1>2 DEF Init, TypeOK

\* The writers keep the types.
LEMMA WriterTyped ==
    ASSUME TypeOK, NEW e \in End, NEW t \in Thread,
           Begin(e) \/ Writer(e, t) \/ SendFails(e, t)
    PROVE  TypeOK'
<1>1. CASE Begin(e)
  <2>1. begun' \in 0 .. MaxMessages
    BY <1>1, ConstantsOK DEF TypeOK, Begin
  <2>2. PICK k \in Kind : rest' = [rest EXCEPT ![e]["user"] = Cells("user", k)]
    BY <1>1 DEF Begin
  <2>3. rest' \in [End -> [Thread -> Seq(Cell)]]
    <3>1. "user" \in Thread
      BY DEF Thread
    <3>2. Cells("user", k) \in Seq(Cell)
      BY <3>1, WholeMessage
    <3> QED BY <2>2, <3>1, <3>2, Put DEF TypeOK
  <2> QED BY <1>1, <2>1, <2>3 DEF TypeOK, Begin
<1>2. CASE Lock(e, t)
  BY <1>2 DEF TypeOK, Lock
<1>3. CASE SendCell(e, t)
  <2>1. /\ rest[e][t] \in Seq(Cell) /\ rest[e][t] # <<>>
        /\ stream[e] \in Seq(Cell) /\ Len(stream[e]) < Room
    BY <1>3 DEF TypeOK, SendCell, Sending
  <2> DEFINE c == Head(rest[e][t])
  <2>2. c \in Cell /\ Tail(rest[e][t]) \in Seq(Cell)
    BY <2>1, SeqFacts
  <2>3. Append(stream[e], c) \in Seq(Cell) /\ Len(Append(stream[e], c)) <= Room
    BY <2>1, <2>2, SeqFacts, SeqLengths, ConstantsOK
  <2>4. [by |-> t, kind |-> c.kind] \in [by : Thread, kind : Kind]
    BY <2>2 DEF Cell
  <2>5. Append(due[e], [by |-> t, kind |-> c.kind]) \in Seq([by : Thread, kind : Kind])
    BY <2>4, SeqFacts DEF TypeOK
  <2>6. /\ stream' = [stream EXCEPT ![e] = Append(stream[e], c)]
        /\ rest' = [rest EXCEPT ![e][t] = Tail(rest[e][t])]
        /\ lock' = [lock EXCEPT ![e] = Holder(t, Tail(rest[e][t]))]
        /\ due' = due \/ due' = [due EXCEPT ![e] = Append(due[e], [by |-> t, kind |-> c.kind])]
        /\ UNCHANGED <<connectors, up, header, timer, begun, failures, agree, outOfStep>>
    BY <1>3 DEF SendCell
  <2> HIDE DEF c
  <2>7. rest' \in [End -> [Thread -> Seq(Cell)]]
    BY <2>2, <2>6, Put DEF TypeOK
  <2>8. stream' \in [End -> Seq(Cell)] /\ \A d \in End : Len(stream'[d]) <= Room
    BY <2>3, <2>6 DEF TypeOK
  <2>9. lock' \in [End -> Thread \cup {None}] /\ due' \in [End -> Seq([by : Thread, kind : Kind])]
    BY <2>5, <2>6 DEF TypeOK, Holder
  <2> QED BY <2>6, <2>7, <2>8, <2>9 DEF TypeOK
<1>4. CASE SendFails(e, t)
  <2>1. failures' \in 0 .. MaxFailures /\ outOfStep' \in BOOLEAN
    BY <1>4, ConstantsOK DEF TypeOK, SendFails
  <2>2. rest' \in [End -> [Thread -> Seq(Cell)]]
    BY <1>4, SeqFacts, Put DEF TypeOK, SendFails
  <2>3. lock' \in [End -> Thread \cup {None}]
    BY <1>4 DEF TypeOK, SendFails
  <2> QED BY <1>4, <2>1, <2>2, <2>3 DEF TypeOK, SendFails
<1> QED BY <1>1, <1>2, <1>3, <1>4 DEF Writer

\* The first recv() keeps the types.
LEMMA HeaderTyped ==
    ASSUME TypeOK, NEW e \in End, ReadHeader(e)
    PROVE  TypeOK'
<1> DEFINE s == stream[Peer(e)]
<1>1. Peer(e) \in End /\ s \in Seq(Cell) /\ s # <<>> /\ Len(s) <= Room /\ Head(s) \in Cell
  BY TwoEnds, SeqFacts DEF TypeOK, ReadHeader
<1>2. Tail(s) \in Seq(Cell) /\ Len(Tail(s)) <= Room
  BY <1>1, SeqFacts, SeqLengths, ConstantsOK
<1>3. /\ stream' = [stream EXCEPT ![Peer(e)] = Tail(s)]
      /\ UNCHANGED <<connectors, up, rest, lock, timer, begun, failures, due, agree, outOfStep>>
  BY DEF ReadHeader
<1>4. PICK n \in 0 .. 2 :
        header' = [header EXCEPT ![e] = [by |-> Head(s).by, kind |-> Head(s).kind, length |-> n]]
  <2>1. Head(s).kind \in Kind
    BY <1>1 DEF Cell
  <2>2. Length[Head(s).kind] \in 0 .. 2
    BY <2>1, Lengths
  <2> QED BY <2>2 DEF ReadHeader
<1>5. [by |-> Head(s).by, kind |-> Head(s).kind, length |-> n] \in Header
  BY <1>1, <1>4 DEF Cell, Header
<1> HIDE DEF s
<1>6. header' \in [End -> Header \cup {None}]
  BY <1>4, <1>5 DEF TypeOK
<1>7. stream' \in [End -> Seq(Cell)] /\ \A d \in End : Len(stream'[d]) <= Room
  BY <1>1, <1>2, <1>3 DEF TypeOK
<1> QED BY <1>3, <1>6, <1>7 DEF TypeOK

\* The second recv() keeps the types.
LEMMA BodyTyped ==
    ASSUME TypeOK, NEW e \in End, ReadBody(e)
    PROVE  TypeOK'
<1> DEFINE s == stream[Peer(e)]
           h == header[e]
           n == IF h.length <= Len(s) THEN h.length ELSE Len(s)
<1>1. Peer(e) \in End /\ s \in Seq(Cell) /\ Len(s) <= Room /\ Len(s) \in Nat
  BY TwoEnds DEF TypeOK
<1>2. h \in Header /\ h.length \in 0 .. 2
  BY DEF TypeOK, ReadBody, Header
<1>3. n \in 0 .. Len(s)
  BY <1>1, <1>2
<1>4. /\ stream' = [stream EXCEPT ![Peer(e)] = SubSeq(s, n + 1, Len(s))]
      /\ header' = [header EXCEPT ![e] = None]
      /\ timer' = IF Timed(e) THEN "off" ELSE timer
      /\ UNCHANGED <<connectors, lock, begun, failures>>
  BY DEF ReadBody
<1>5. Return(e, h, SubSeq(s, 1, n)) \/ (Fail(e) /\ UNCHANGED <<agree, due, rest>>)
  BY Zenon DEF ReadBody
<1> HIDE DEF n, s, h
<1>6. SubSeq(s, n + 1, Len(s)) \in Seq(Cell) /\ Len(SubSeq(s, n + 1, Len(s))) <= Room
  BY <1>1, <1>3, Split, ConstantsOK
<1>7. /\ stream' \in [End -> Seq(Cell)] /\ \A d \in End : Len(stream'[d]) <= Room
      /\ header' \in [End -> Header \cup {None}]
      /\ timer' \in {"off", "running", "expired"}
  BY <1>1, <1>4, <1>6 DEF TypeOK
<1>8. /\ up' \in BOOLEAN /\ agree' \in BOOLEAN /\ outOfStep' \in BOOLEAN
      /\ due' \in [End -> Seq([by : Thread, kind : Kind])]
      /\ rest' \in [End -> [Thread -> Seq(Cell)]]
  <2>1. CASE Return(e, h, SubSeq(s, 1, n))
    <3>1. due[Peer(e)] \in Seq([by : Thread, kind : Kind])
      BY <1>1 DEF TypeOK
    <3>2. due[Peer(e)] # <<>> => Tail(due[Peer(e)]) \in Seq([by : Thread, kind : Kind])
      BY <3>1, SeqFacts
    <3>3. rest' \in [End -> [Thread -> Seq(Cell)]]
      <4>1. Cells("reader", "echo") \in Seq(Cell) /\ "reader" \in Thread
        BY WholeMessage, Lengths DEF Thread
      <4>2. CASE rest' = [rest EXCEPT ![e]["reader"] = Cells("reader", "echo")]
        BY <4>1, <4>2, Put DEF TypeOK
      <4>3. CASE rest' = rest
        BY <4>3 DEF TypeOK
      <4> QED BY <2>1, <4>2, <4>3 DEF Return, Answer
    <3>4. due' \in [End -> Seq([by : Thread, kind : Kind])]
      BY <2>1, <3>1, <3>2 DEF TypeOK, Return
    <3> QED BY <2>1, <3>3, <3>4 DEF TypeOK, Return
  <2>2. CASE Fail(e) /\ UNCHANGED <<agree, due, rest>>
    BY <2>2 DEF TypeOK, Fail
  <2> QED BY <1>5, <2>1, <2>2
<1> QED BY <1>4, <1>7, <1>8 DEF TypeOK

\* Every step keeps the types.
LEMMA NextTyped == TypeOK /\ [Next]_vars => TypeOK'
<1> SUFFICES ASSUME TypeOK, [Next]_vars PROVE TypeOK'
  OBVIOUS
<1>1. ASSUME NEW e \in End, Begin(e) \/ \E t \in Thread : Writer(e, t) \/ SendFails(e, t)
      PROVE  TypeOK'
  <2>1. PICK t \in Thread : Begin(e) \/ Writer(e, t) \/ SendFails(e, t)
    BY <1>1 DEF Thread
  <2> QED BY <2>1, WriterTyped
<1>2. ASSUME NEW e \in End, Reader(e)
      PROVE  TypeOK'
  BY <1>2, HeaderTyped, BodyTyped DEF Reader
<1>3. CASE BeginTimedRead
  BY <1>3 DEF TypeOK, BeginTimedRead
<1>4. CASE Expire
  BY <1>4 DEF TypeOK, Expire
<1>5. CASE UNCHANGED vars
  BY <1>5 DEF TypeOK, vars
<1> QED BY <1>1, <1>2, <1>3, <1>4, <1>5 DEF Next

\* Every variable keeps its type, for buffers of any size and any number of
\* messages and failures; what is in the buffers never exceeds their room, and a
\* header that was read has a length that the reader accepts, whatever it was.
THEOREM TypeCorrect == Spec => []TypeOK
<1> QED BY InitTyped, NextTyped, PTL DEF Spec

-----------------------------------------------------------------------------
(* How messages lie in a stream, and what each call of send() and recv()   *)
(* does to that.                                                           *)

\* An end a + l before b is before the end of what begins at b, and b is not 0.
LEMMA EndsBefore ==
    ASSUME NEW a \in Nat, NEW l \in Nat, NEW b \in Nat, NEW k \in Nat, NEW x \in Nat, NEW n \in Nat,
           a + l < b, b + k = x + n
    PROVE  a + l <= x + n /\ b > 0
OBVIOUS

\* A position behind the first m of x cells, counted from there.
LEMMA InRest ==
    ASSUME NEW m \in Nat, NEW x \in Nat, NEW a \in Nat, m < a, a <= x
    PROVE  a - m \in 1 .. x - m /\ m + (a - m) = a
OBVIOUS

\* A position in the rest, and one in the first m, counted from the start.
LEMMA InWhole ==
    ASSUME NEW x \in Nat, NEW m \in 0 .. x
    PROVE  /\ m \in Nat
           /\ \A p \in 1 .. x - m : p \in Nat /\ m + p \in 1 .. x
           /\ \A p \in 1 .. m : p \in 1 .. x /\ 0 < p /\ p <= 0 + m
OBVIOUS

\* The cells of a message, and its header.
LEMMA MessageFacts ==
    ASSUME NEW m \in Message
    PROVE  /\ HeaderCell(m) \in Cell /\ BodyCell(m) \in Cell /\ HeaderOf(m) \in Header
           /\ Length[m.kind] \in Nat /\ Length[m.kind] \in 0 .. 2
<1>1. m.by \in Thread /\ m.kind \in Kind
  BY DEF Message
<1>2. Length[m.kind] \in 0 .. 2 /\ Length[m.kind] \in Nat
  BY <1>1, Lengths
<1>3. HeaderCell(m) \in Cell /\ BodyCell(m) \in Cell
  BY <1>1 DEF HeaderCell, BodyCell, Cell
<1>4. HeaderOf(m) \in Header
  BY <1>1, <1>2 DEF HeaderOf, Header
<1> QED BY <1>2, <1>3, <1>4

\* No message ends behind the last one.
LEMMA LastEnd ==
    ASSUME NEW s \in Seq(Cell), NEW ds \in Seq(Message), NEW h, NEW n \in Nat,
           NEW f \in [DOMAIN ds -> Nat], LaidOut(s, ds, h, n, f)
    PROVE  \A i \in DOMAIN ds : /\ Length[ds[i].kind] \in Nat /\ f[i] \in Nat
                                /\ f[i] + Length[ds[i].kind] <= Len(s) + n
<1>1. DOMAIN ds = 1 .. Len(ds) /\ Len(ds) \in Nat /\ Len(s) \in Nat
  BY SeqLengths
<1>2. \A i \in DOMAIN ds : ds[i] \in Message /\ f[i] \in Nat
  BY <1>1
<1>3. \A i \in DOMAIN ds : Length[ds[i].kind] \in Nat
  BY <1>2, MessageFacts
<1>4. ASSUME NEW i \in DOMAIN ds
      PROVE  f[i] + Length[ds[i].kind] <= Len(s) + n
  <2>1. ds # <<>> /\ Len(ds) \in DOMAIN ds
    BY <1>1, SeqLengths
  <2>2. f[Len(ds)] + Length[ds[Len(ds)].kind] = Len(s) + n
    BY <2>1 DEF LaidOut
  <2>3. CASE i = Len(ds)
    BY <1>1, <2>2, <2>3
  <2>4. CASE i < Len(ds)
    <3>1. f[i] + Length[ds[i].kind] < f[Len(ds)]
      BY <2>1, <2>4 DEF LaidOut
    <3>2. /\ f[i] \in Nat /\ Length[ds[i].kind] \in Nat /\ Len(s) \in Nat
          /\ f[Len(ds)] \in Nat /\ Length[ds[Len(ds)].kind] \in Nat
      BY <1>1, <1>2, <1>3, <2>1
    <3> QED BY <2>2, <3>1, <3>2, EndsBefore, Zenon
  <2> QED BY <1>1, <2>3, <2>4
<1> QED BY <1>2, <1>3, <1>4

\* The header of a new message is sent when nothing is left of the last one.
LEMMA SendHeader ==
    ASSUME NEW s \in Seq(Cell), NEW ds \in Seq(Message), NEW h, NEW m \in Message,
           InOrder(s, ds, h, 0)
    PROVE  InOrder(Append(s, HeaderCell(m)), Append(ds, m), h, Length[m.kind])
<1>1. PICK f \in [DOMAIN ds -> Nat] : LaidOut(s, ds, h, 0, f)
  BY DEF InOrder
<1> DEFINE s2 == Append(s, HeaderCell(m))
           ds2 == Append(ds, m)
           g == [i \in DOMAIN ds2 |-> IF i \in DOMAIN ds THEN f[i] ELSE Len(s) + 1]
<1>2. /\ Len(s) \in Nat /\ Len(ds) \in Nat
      /\ DOMAIN s = 1 .. Len(s) /\ DOMAIN ds = 1 .. Len(ds)
      /\ s2 \in Seq(Cell) /\ Len(s2) = Len(s) + 1 /\ DOMAIN s2 = 1 .. Len(s) + 1
      /\ s2[Len(s) + 1] = HeaderCell(m) /\ \A p \in DOMAIN s : s2[p] = s[p]
  BY MessageFacts, SeqLengths
<1>3. /\ ds2 \in Seq(Message) /\ Len(ds2) = Len(ds) + 1 /\ DOMAIN ds2 = 1 .. Len(ds) + 1
      /\ ds2[Len(ds) + 1] = m /\ \A i \in DOMAIN ds : ds2[i] = ds[i]
      /\ ds2 # <<>> /\ (ds = <<>> <=> Len(ds) = 0) /\ (s = <<>> <=> Len(s) = 0)
  <2>1. ds2 \in Seq(Message)
    BY SeqFacts
  <2>2. /\ Len(ds2) = Len(ds) + 1 /\ ds2[Len(ds) + 1] = m /\ Len(ds) \in Nat
        /\ \A i \in 1 .. Len(ds) : ds2[i] = ds[i]
    BY SeqLengths
  <2>3. DOMAIN ds2 = 1 .. Len(ds2) /\ (ds2 = <<>> <=> Len(ds2) = 0)
    BY <2>1, SeqLengths
  <2>4. (ds = <<>> <=> Len(ds) = 0) /\ (s = <<>> <=> Len(s) = 0) /\ DOMAIN ds = 1 .. Len(ds)
    BY SeqLengths
  <2> HIDE DEF ds2
  <2>5. DOMAIN ds2 = 1 .. Len(ds) + 1 /\ ds2 # <<>>
    BY <2>2, <2>3
  <2> QED BY <2>1, <2>2, <2>4, <2>5
<1>4. Length[m.kind] \in Nat
  BY MessageFacts
<1>5. \A i \in DOMAIN ds : /\ Length[ds[i].kind] \in Nat /\ f[i] \in Nat
                           /\ f[i] + Length[ds[i].kind] <= Len(s)
  <2>1. \A i \in DOMAIN ds : /\ Length[ds[i].kind] \in Nat /\ f[i] \in Nat
                             /\ f[i] + Length[ds[i].kind] <= Len(s) + 0
    BY <1>1, LastEnd, Zenon
  <2> QED BY <1>2, <2>1
<1>6. /\ g \in [DOMAIN ds2 -> Nat] /\ g[Len(ds) + 1] = Len(s) + 1
      /\ \A i \in DOMAIN ds : g[i] = f[i]
  BY <1>2, <1>3, <1>5
<1> HIDE DEF g, s2, ds2
<1>7. /\ g[1] = IF h = None THEN 1 ELSE 0
      /\ h # None => h = HeaderOf(ds2[1])
  <2>1. CASE ds = <<>>
    BY <1>1, <1>2, <1>3, <1>6, <2>1 DEF LaidOut
  <2>2. CASE ds # <<>>
    <3>1. 1 \in DOMAIN ds
      BY <1>2, <1>3, <2>2
    <3> QED BY <1>1, <1>3, <1>6, <2>2, <3>1 DEF LaidOut
  <2> QED BY <2>1, <2>2
<1>8. g[Len(ds2)] + Length[ds2[Len(ds2)].kind] = Len(s2) + Length[m.kind]
  BY <1>2, <1>3, <1>4, <1>6
<1>9. ASSUME NEW i \in DOMAIN ds2, NEW j \in DOMAIN ds2
      PROVE  /\ i < j => g[i] + Length[ds2[i].kind] < g[j]
             /\ j = i + 1 => g[j] = g[i] + Length[ds2[i].kind] + 1
  <2>1. CASE i \in DOMAIN ds /\ j \in DOMAIN ds
    <3>1. /\ i < j => f[i] + Length[ds[i].kind] < f[j]
          /\ j = i + 1 => f[j] = f[i] + Length[ds[i].kind] + 1
      BY <1>1, <2>1 DEF LaidOut
    <3> QED BY <1>3, <1>6, <2>1, <3>1
  <2>2. CASE i \in DOMAIN ds /\ j = Len(ds) + 1
    <3>1. f[i] + Length[ds[i].kind] <= Len(s)
      BY <1>5, <2>2
    <3>2. j = i + 1 => f[i] + Length[ds[i].kind] = Len(s)
      <4>1. ds # <<>> /\ Len(s) \in Nat
        BY <1>2, <2>2
      <4>2. f[Len(ds)] + Length[ds[Len(ds)].kind] = Len(s)
        BY <1>1, <4>1 DEF LaidOut
      <4>3. j = i + 1 => i = Len(ds)
        BY <1>2, <1>3, <2>2
      <4> QED BY <4>2, <4>3
    <3>3. f[i] \in Nat /\ Length[ds[i].kind] \in Nat /\ Len(s) \in Nat
      BY <1>2, <1>5, <2>2
    <3>4. g[i] = f[i] /\ ds2[i] = ds[i] /\ g[j] = Len(s) + 1
      BY <1>3, <1>6, <2>2
    <3> DEFINE a == f[i]
               k == Length[ds[i].kind]
               x == Len(s)
    <3>5. a \in Nat /\ k \in Nat /\ x \in Nat /\ a + k <= x /\ (j = i + 1 => a + k = x)
      BY <3>1, <3>2, <3>3, Zenon
    <3> HIDE DEF a, k, x
    <3>6. a + k < x + 1 /\ (j = i + 1 => x + 1 = a + k + 1)
      BY <3>5
    <3> QED BY <3>4, <3>6, Zenon DEF a, k, x
  <2>3. CASE i = Len(ds) + 1
    BY <1>2, <1>3, <2>3
  <2> QED BY <1>2, <1>3, <2>1, <2>2, <2>3
<1>10. ASSUME NEW i \in DOMAIN ds2, g[i] > 0
       PROVE  g[i] \in DOMAIN s2 /\ s2[g[i]] = HeaderCell(ds2[i])
  <2>1. CASE i \in DOMAIN ds
    <3>1. f[i] \in DOMAIN s /\ s[f[i]] = HeaderCell(ds[i])
      BY <1>1, <1>6, <1>10, <2>1 DEF LaidOut
    <3> QED BY <1>2, <1>3, <1>6, <2>1, <3>1
  <2>2. CASE i = Len(ds) + 1
    BY <1>2, <1>3, <1>6, <2>2
  <2> QED BY <1>2, <1>3, <2>1, <2>2
<1>11. ASSUME NEW i \in DOMAIN ds2, NEW p \in DOMAIN s2,
              g[i] < p, p <= g[i] + Length[ds2[i].kind]
       PROVE  s2[p] = BodyCell(ds2[i])
  <2>1. CASE i \in DOMAIN ds
    <3>1. p \in DOMAIN s
      BY <1>2, <1>3, <1>5, <1>6, <1>11, <2>1
    <3>2. s[p] = BodyCell(ds[i])
      BY <1>1, <1>3, <1>6, <1>11, <2>1, <3>1 DEF LaidOut
    <3> QED BY <1>2, <1>3, <2>1, <3>1, <3>2
  <2>2. CASE i = Len(ds) + 1
    BY <1>2, <1>6, <1>11, <2>2
  <2> QED BY <1>2, <1>3, <2>1, <2>2
<1>12. LaidOut(s2, ds2, h, Length[m.kind], g)
  BY <1>3, <1>7, <1>8, <1>9, <1>10, <1>11 DEF LaidOut
<1> QED BY <1>6, <1>12 DEF InOrder, s2, ds2

\* A piece of the body of the last message is sent.
LEMMA SendBody ==
    ASSUME NEW s \in Seq(Cell), NEW ds \in Seq(Message), NEW h, NEW n \in Nat \ {0},
           InOrder(s, ds, h, n)
    PROVE  ds # <<>> /\ InOrder(Append(s, BodyCell(ds[Len(ds)])), ds, h, n - 1)
<1>1. PICK f \in [DOMAIN ds -> Nat] : LaidOut(s, ds, h, n, f)
  BY DEF InOrder
<1>2. ds # <<>>
  BY <1>1 DEF LaidOut
<1> DEFINE l == Len(ds)
           s2 == Append(s, BodyCell(ds[l]))
<1>3. Len(s) \in Nat /\ l \in DOMAIN ds /\ DOMAIN s = 1 .. Len(s) /\ DOMAIN ds = 1 .. l /\ l \in Nat
  BY <1>2, SeqLengths
<1>4. ds[l] \in Message
  BY <1>3
<1>5. /\ Len(s2) = Len(s) + 1 /\ DOMAIN s2 = 1 .. Len(s) + 1
      /\ s2[Len(s) + 1] = BodyCell(ds[l]) /\ \A p \in DOMAIN s : s2[p] = s[p]
  BY <1>3, <1>4, MessageFacts, SeqLengths
<1>6. \A i \in DOMAIN ds : Length[ds[i].kind] \in Nat /\ f[i] \in Nat
  BY <1>1, LastEnd
<1>7. f[l] + Length[ds[l].kind] = Len(s) + n
  BY <1>1, <1>2 DEF LaidOut
<1> HIDE DEF s2
<1>8. f[l] + Length[ds[l].kind] = Len(s2) + (n - 1)
  BY <1>3, <1>5, <1>6, <1>7
<1>9. ASSUME NEW i \in DOMAIN ds, f[i] > 0
      PROVE  f[i] \in DOMAIN s2 /\ s2[f[i]] = HeaderCell(ds[i])
  <2>1. f[i] \in DOMAIN s /\ s[f[i]] = HeaderCell(ds[i])
    BY <1>1, <1>9 DEF LaidOut
  <2> QED BY <1>3, <1>5, <2>1
<1>10. ASSUME NEW i \in DOMAIN ds, NEW p \in DOMAIN s2,
              f[i] < p, p <= f[i] + Length[ds[i].kind]
       PROVE  s2[p] = BodyCell(ds[i])
  <2>1. CASE p \in DOMAIN s
    BY <1>1, <1>5, <1>10, <2>1 DEF LaidOut
  <2>2. CASE p = Len(s) + 1
    <3>1. CASE i = l
      BY <1>5, <2>2, <3>1
    <3>2. CASE i < l
      <4>1. f[i] + Length[ds[i].kind] < f[l]
        BY <1>1, <1>3, <3>2 DEF LaidOut
      <4>2. f[l] > 0
        <5>1. f[i] \in Nat /\ Length[ds[i].kind] \in Nat /\ f[l] \in Nat
          BY <1>3, <1>6
        <5> QED BY <4>1, <5>1
      <4>3. f[l] \in DOMAIN s
        BY <1>1, <1>3, <4>2 DEF LaidOut
      <4> QED BY <1>3, <1>6, <1>10, <2>2, <4>1, <4>3
    <3> QED BY <1>3, <3>1, <3>2
  <2> QED BY <1>3, <1>5, <2>1, <2>2
<1>11. LaidOut(s2, ds, h, n - 1, f)
  BY <1>1, <1>2, <1>8, <1>9, <1>10 DEF LaidOut
<1> QED BY <1>2, <1>11 DEF InOrder, s2

\* The first recv() finds the header of the oldest message.
LEMMA TakeHeader ==
    ASSUME NEW s \in Seq(Cell), NEW ds \in Seq(Message), NEW n \in Nat,
           InOrder(s, ds, None, n), s # <<>>
    PROVE  /\ ds # <<>> /\ s[1] = HeaderCell(ds[1])
           /\ InOrder(Tail(s), ds, HeaderOf(ds[1]), n)
<1>1. PICK f \in [DOMAIN ds -> Nat] : LaidOut(s, ds, None, n, f)
  BY DEF InOrder
<1>2. ds # <<>> /\ f[1] = 1
  BY <1>1 DEF LaidOut
<1> DEFINE s2 == Tail(s)
           h2 == HeaderOf(ds[1])
           g == [i \in DOMAIN ds |-> f[i] - 1]
<1>3. /\ Len(s) \in Nat \ {0} /\ Len(ds) \in Nat \ {0}
      /\ DOMAIN s = 1 .. Len(s) /\ DOMAIN ds = 1 .. Len(ds)
      /\ s2 \in Seq(Cell) /\ Len(s2) = Len(s) - 1 /\ DOMAIN s2 = 1 .. Len(s) - 1
      /\ \A p \in DOMAIN s2 : s2[p] = s[p + 1]
  BY <1>2, SeqFacts, SeqLengths
<1>4. 1 \in DOMAIN ds /\ ds[1] \in Message
  BY <1>3
<1>5. \A i \in DOMAIN ds : Length[ds[i].kind] \in Nat /\ f[i] \in Nat
  BY <1>1, LastEnd
<1>6. ASSUME NEW i \in DOMAIN ds PROVE f[i] >= 1
  <2>1. CASE i = 1
    BY <1>2, <2>1
  <2>2. CASE i # 1
    <3>1. 1 < i
      BY <1>3, <2>2
    <3>2. f[1] + Length[ds[1].kind] < f[i]
      BY <1>1, <1>4, <3>1 DEF LaidOut
    <3>3. f[1] \in Nat /\ f[i] \in Nat /\ Length[ds[1].kind] \in Nat
      BY <1>4, <1>5
    <3> QED BY <3>2, <3>3
  <2> QED BY <2>1, <2>2
<1>7. g \in [DOMAIN ds -> Nat] /\ \A i \in DOMAIN ds : g[i] = f[i] - 1
  BY <1>5, <1>6
<1>8. s[1] = HeaderCell(ds[1])
  BY <1>1, <1>2, <1>4 DEF LaidOut
<1>9. h2 # None
  BY <1>4, MessageFacts, ConstantsOK
<1> HIDE DEF g, s2
<1>10. g[1] = 0 /\ g[Len(ds)] + Length[ds[Len(ds)].kind] = Len(s2) + n
  <2>1. f[Len(ds)] + Length[ds[Len(ds)].kind] = Len(s) + n
    BY <1>1, <1>2 DEF LaidOut
  <2>2. Len(ds) \in DOMAIN ds
    BY <1>3
  <2>3. /\ g[Len(ds)] = f[Len(ds)] - 1 /\ g[1] = 0
        /\ f[Len(ds)] \in Nat /\ Length[ds[Len(ds)].kind] \in Nat
    BY <1>2, <1>4, <1>5, <1>7, <2>2
  <2>4. 1 \in Nat /\ Len(s) \in Nat /\ n \in Nat
    BY <1>3
  <2>5. (f[Len(ds)] - 1) + Length[ds[Len(ds)].kind] = (Len(s) - 1) + n
    <3> DEFINE b == f[Len(ds)]
               k == Length[ds[Len(ds)].kind]
               x == Len(s)
    <3>1. b \in Nat /\ k \in Nat /\ x \in Nat /\ n \in Nat /\ b + k = x + n
      BY <2>1, <2>3, <2>4
    <3> HIDE DEF b, k, x
    <3>2. (b - 1) + k = (x - 1) + n
      BY <3>1
    <3> QED BY <3>2, Zenon DEF b, k, x
  <2> QED BY <1>3, <2>3, <2>5, Zenon
<1>11. ASSUME NEW i \in DOMAIN ds, NEW j \in DOMAIN ds
       PROVE  /\ i < j => g[i] + Length[ds[i].kind] < g[j]
              /\ j = i + 1 => g[j] = g[i] + Length[ds[i].kind] + 1
  <2>1. /\ i < j => f[i] + Length[ds[i].kind] < f[j]
        /\ j = i + 1 => f[j] = f[i] + Length[ds[i].kind] + 1
    BY <1>1 DEF LaidOut
  <2> DEFINE a == f[i]
             b == f[j]
             l == Length[ds[i].kind]
  <2>2. g[i] = a - 1 /\ g[j] = b - 1
    BY <1>7
  <2>3. a \in Nat /\ b \in Nat /\ l \in Nat
    BY <1>5
  <2>4. (i < j => a + l < b) /\ (j = i + 1 => b = a + l + 1)
    BY <2>1
  <2> HIDE DEF a, b, l
  <2>5. (a + l < b => (a - 1) + l < b - 1) /\ (b = a + l + 1 => b - 1 = (a - 1) + l + 1)
    BY <2>3
  <2>6. /\ i < j => g[i] + l < g[j]
        /\ j = i + 1 => g[j] = g[i] + l + 1
    BY <2>2, <2>4, <2>5, Zenon
  <2> QED BY <2>6, Zenon DEF l
<1>12. ASSUME NEW i \in DOMAIN ds, g[i] > 0
       PROVE  g[i] \in DOMAIN s2 /\ s2[g[i]] = HeaderCell(ds[i])
  <2>1. g[i] = f[i] - 1 /\ f[i] \in Nat
    BY <1>5, <1>7
  <2>2. f[i] > 0
    BY <1>12, <2>1
  <2>3. f[i] \in DOMAIN s /\ s[f[i]] = HeaderCell(ds[i])
    BY <1>1, <2>2 DEF LaidOut
  <2>4. g[i] \in DOMAIN s2 /\ g[i] + 1 = f[i]
    BY <1>3, <1>12, <2>1, <2>3
  <2> QED BY <1>3, <2>3, <2>4
<1>13. ASSUME NEW i \in DOMAIN ds, NEW p \in DOMAIN s2,
              g[i] < p, p <= g[i] + Length[ds[i].kind]
       PROVE  s2[p] = BodyCell(ds[i])
  <2>1. p + 1 \in DOMAIN s /\ f[i] < p + 1 /\ p + 1 <= f[i] + Length[ds[i].kind]
    <3>1. p + 1 \in DOMAIN s /\ p \in Nat
      BY <1>3
    <3>2. g[i] = f[i] - 1 /\ f[i] \in Nat /\ Length[ds[i].kind] \in Nat
      BY <1>5, <1>7
    <3> DEFINE a == f[i]
               l == Length[ds[i].kind]
    <3>3. a \in Nat /\ l \in Nat /\ a - 1 < p /\ p <= (a - 1) + l
      BY <1>13, <3>2, Zenon
    <3> HIDE DEF a, l
    <3>4. a < p + 1 /\ p + 1 <= a + l
      BY <3>1, <3>3
    <3> QED BY <3>1, <3>4, Zenon DEF a, l
  <2>2. s[p + 1] = BodyCell(ds[i])
    BY <1>1, <2>1 DEF LaidOut
  <2> QED BY <1>3, <2>2
<1>14. LaidOut(s2, ds, h2, n, g)
  BY <1>2, <1>9, <1>10, <1>11, <1>12, <1>13 DEF LaidOut
<1> QED BY <1>2, <1>7, <1>8, <1>14 DEF InOrder, s2

\* The second recv() finds the body that belongs to the header, and what it
\* leaves begins with a header.
LEMMA TakeBody ==
    ASSUME NEW s \in Seq(Cell), NEW ds \in Seq(Message), NEW h \in Header, NEW n \in Nat,
           InOrder(s, ds, h, n), h.length <= Len(s)
    PROVE  /\ ds # <<>> /\ h = HeaderOf(ds[1])
           /\ \A i \in 1 .. h.length : s[i] = BodyCell(ds[1])
           /\ InOrder(SubSeq(s, h.length + 1, Len(s)), Tail(ds), None, n)
<1>1. PICK f \in [DOMAIN ds -> Nat] : LaidOut(s, ds, h, n, f)
  BY DEF InOrder
<1>2. h # None
  BY ConstantsOK
<1>3. ds # <<>> /\ f[1] = 0 /\ h = HeaderOf(ds[1])
  BY <1>1, <1>2 DEF LaidOut
<1> DEFINE m == h.length
           s2 == SubSeq(s, m + 1, Len(s))
           ds2 == Tail(ds)
           g == [i \in DOMAIN ds2 |-> f[i + 1] - m]
<1>4. m \in 0 .. Len(s) /\ m \in Nat /\ m = Length[ds[1].kind]
  BY <1>3 DEF Header, HeaderOf
<1>5. /\ Len(s) \in Nat /\ DOMAIN s = 1 .. Len(s)
      /\ s2 \in Seq(Cell) /\ Len(s2) = Len(s) - m /\ DOMAIN s2 = 1 .. Len(s) - m
      /\ \A p \in DOMAIN s2 : s2[p] = s[m + p]
  <2>1. /\ s2 \in Seq(Cell) /\ Len(s2) = Len(s) - m
        /\ \A p \in 1 .. Len(s) - m : s2[p] = s[m + p]
    <3>1. m \in 0 .. Len(s)
      BY <1>4
    <3> HIDE DEF m
    <3> QED BY <3>1, Split
  <2>2. DOMAIN s2 = 1 .. Len(s2) /\ DOMAIN s = 1 .. Len(s) /\ Len(s) \in Nat
    BY <2>1, SeqLengths
  <2> QED BY <2>1, <2>2
<1>6. /\ Len(ds) \in Nat \ {0} /\ DOMAIN ds = 1 .. Len(ds)
      /\ ds2 \in Seq(Message) /\ Len(ds2) = Len(ds) - 1 /\ DOMAIN ds2 = 1 .. Len(ds) - 1
      /\ \A i \in DOMAIN ds2 : ds2[i] = ds[i + 1]
  BY <1>3, SeqFacts, SeqLengths
<1>7. \A i \in DOMAIN ds : Length[ds[i].kind] \in Nat /\ f[i] \in Nat
  BY <1>1, LastEnd
<1>8. 1 \in DOMAIN ds /\ \A i \in DOMAIN ds2 : i + 1 \in DOMAIN ds
  BY <1>6
<1>9. ASSUME NEW i \in DOMAIN ds2 PROVE f[i + 1] > m
  <2>1. i + 1 \in DOMAIN ds /\ 1 < i + 1
    BY <1>6, <1>8
  <2>2. f[1] + Length[ds[1].kind] < f[i + 1]
    BY <1>1, <1>8, <2>1 DEF LaidOut
  <2>3. f[i + 1] \in Nat
    BY <1>7, <2>1
  <2> QED BY <1>3, <1>4, <2>2, <2>3
<1>10. g \in [DOMAIN ds2 -> Nat] /\ \A i \in DOMAIN ds2 : g[i] = f[i + 1] - m
  BY <1>4, <1>7, <1>8, <1>9
<1>11. \A i \in 1 .. m : s[i] = BodyCell(ds[1])
  <2>1. \A i \in 1 .. m : i \in DOMAIN s /\ f[1] < i /\ i <= f[1] + Length[ds[1].kind]
    <3> HIDE DEF m
    <3>1. \A i \in 1 .. m : i \in 1 .. Len(s) /\ 0 < i /\ i <= 0 + m
      BY <1>4, <1>5, InWhole
    <3> QED BY <1>3, <1>4, <1>5, <3>1, Zenon
  <2> QED BY <1>1, <1>8, <2>1 DEF LaidOut
<1>12. f[Len(ds)] + Length[ds[Len(ds)].kind] = Len(s) + n
  BY <1>1, <1>3 DEF LaidOut
<1> HIDE DEF g, s2, ds2, m
<1>13. ds2 = <<>> => s2 = <<>> /\ n = 0
  <2>1. ASSUME ds2 = <<>> PROVE Len(s2) = 0 /\ n = 0
    <3>1. Len(ds) = 1
      <4>1. Len(ds2) = 0
        BY <1>6, <2>1, SeqLengths
      <4> QED BY <1>6, <4>1
    <3>2. m = Len(s) + n
      BY <1>3, <1>4, <1>12, <3>1
    <3>3. m \in 0 .. Len(s) /\ Len(s) \in Nat /\ Len(s2) = Len(s) - m
      BY <1>4, <1>5
    <3> QED BY <3>2, <3>3
  <2> QED BY <1>5, <2>1, SeqLengths
<1>14. ds2 # <<>> => g[1] = 1 /\ g[Len(ds2)] + Length[ds2[Len(ds2)].kind] = Len(s2) + n
  <2>1. ASSUME ds2 # <<>>
        PROVE  g[1] = 1 /\ g[Len(ds2)] + Length[ds2[Len(ds2)].kind] = Len(s2) + n
    <3>1. 1 \in DOMAIN ds2 /\ Len(ds2) \in DOMAIN ds2 /\ 2 \in DOMAIN ds
      <4>1. Len(ds2) # 0
        BY <1>6, <2>1, SeqLengths
      <4>2. Len(ds2) \in Nat \ {0} /\ Len(ds) = Len(ds2) + 1
        BY <1>6, <4>1
      <4> QED BY <1>6, <4>2
    <3>2. f[2] = f[1] + Length[ds[1].kind] + 1
      BY <1>1, <1>8, <3>1 DEF LaidOut
    <3>3. g[1] = 1
      <4>1. f[2] = m + 1
        BY <1>3, <1>4, <3>2
      <4>2. g[1] = f[1 + 1] - m
        BY <1>10, <3>1
      <4> QED BY <1>4, <4>1, <4>2
    <3>4. g[Len(ds2)] = f[Len(ds)] - m /\ ds2[Len(ds2)] = ds[Len(ds)]
      <4>1. Len(ds2) + 1 = Len(ds)
        BY <1>6
      <4> QED BY <1>6, <1>10, <3>1, <4>1, Zenon
    <3>5. Len(ds) \in DOMAIN ds
      BY <1>6
    <3>6. f[Len(ds)] \in Nat /\ Length[ds[Len(ds)].kind] \in Nat
      BY <1>7, <3>5, Zenon
    <3>7. Len(s2) = Len(s) - m /\ Len(s) \in Nat /\ m \in Nat
      BY <1>4, <1>5
    <3>8. g[Len(ds2)] \in Nat /\ g[Len(ds2)] = f[Len(ds)] - m
      BY <1>10, <3>1, <3>4
    <3>9. g[Len(ds2)] + Length[ds[Len(ds)].kind] = Len(s2) + n
      <4> DEFINE b == f[Len(ds)]
                 k == Length[ds[Len(ds)].kind]
                 x == Len(s)
      <4>1. b \in Nat /\ k \in Nat /\ x \in Nat /\ m \in Nat /\ n \in Nat /\ b + k = x + n
        BY <1>12, <3>6, <3>7
      <4> HIDE DEF b, k, x
      <4>2. (b - m) + k = (x - m) + n
        BY <4>1
      <4>3. (f[Len(ds)] - m) + Length[ds[Len(ds)].kind] = (Len(s) - m) + n
        BY <4>2, Zenon DEF b, k, x
      <4> QED BY <3>7, <3>8, <4>3, Zenon
    <3> QED BY <3>3, <3>4, <3>9
  <2> QED BY <2>1
<1>15. ASSUME NEW i \in DOMAIN ds2, NEW j \in DOMAIN ds2
       PROVE  /\ i < j => g[i] + Length[ds2[i].kind] < g[j]
              /\ j = i + 1 => g[j] = g[i] + Length[ds2[i].kind] + 1
  <2>1. i + 1 \in DOMAIN ds /\ j + 1 \in DOMAIN ds /\ i \in Nat /\ j \in Nat
    BY <1>6
  <2>2. /\ i + 1 < j + 1 => f[i + 1] + Length[ds[i + 1].kind] < f[j + 1]
        /\ j + 1 = (i + 1) + 1 => f[j + 1] = f[i + 1] + Length[ds[i + 1].kind] + 1
    BY <1>1, <2>1 DEF LaidOut
  <2>3. /\ g[i] = f[i + 1] - m /\ g[j] = f[j + 1] - m /\ ds2[i] = ds[i + 1]
        /\ g[i] \in Nat /\ g[j] \in Nat
    BY <1>6, <1>10
  <2>4. f[i + 1] \in Nat /\ f[j + 1] \in Nat /\ Length[ds[i + 1].kind] \in Nat
    BY <1>7, <2>1, Zenon
  <2> DEFINE a == f[i + 1]
             b == f[j + 1]
             l == Length[ds[i + 1].kind]
  <2>5. a \in Nat /\ b \in Nat /\ l \in Nat /\ m \in Nat
    BY <1>4, <2>4
  <2>6. g[i] = a - m /\ g[j] = b - m /\ ds2[i] = ds[i + 1]
    BY <2>3
  <2>7. (i < j => a + l < b) /\ (j = i + 1 => b = a + l + 1)
    BY <2>1, <2>2
  <2> HIDE DEF a, b, l
  <2>8. (a + l < b => (a - m) + l < b - m) /\ (b = a + l + 1 => b - m = (a - m) + l + 1)
    BY <2>5
  <2>9. /\ i < j => g[i] + l < g[j]
        /\ j = i + 1 => g[j] = g[i] + l + 1
    BY <2>6, <2>7, <2>8, Zenon
  <2> QED BY <2>6, <2>9, Zenon DEF l
<1>16. ASSUME NEW i \in DOMAIN ds2
       PROVE  g[i] \in DOMAIN s2 /\ s2[g[i]] = HeaderCell(ds2[i])
  <2>1. i + 1 \in DOMAIN ds /\ f[i + 1] > m /\ f[i + 1] \in Nat
    BY <1>7, <1>8, <1>9
  <2>2. f[i + 1] \in DOMAIN s /\ s[f[i + 1]] = HeaderCell(ds[i + 1])
    BY <1>1, <1>4, <2>1 DEF LaidOut
  <2>3. g[i] \in DOMAIN s2 /\ m + g[i] = f[i + 1]
    <3>1. g[i] = f[i + 1] - m /\ m \in Nat
      BY <1>4, <1>10
    <3>2. f[i + 1] <= Len(s) /\ Len(s) \in Nat
      BY <1>5, <2>2
    <3>3. f[i + 1] - m \in 1 .. Len(s) - m /\ m + (f[i + 1] - m) = f[i + 1]
      <4>1. m < f[i + 1]
        BY <2>1
      <4> QED BY <2>1, <3>1, <3>2, <4>1, InRest, Zenon
    <3> QED BY <1>5, <3>1, <3>3, Zenon
  <2> QED BY <1>5, <1>6, <2>2, <2>3
<1>17. ASSUME NEW i \in DOMAIN ds2, NEW p \in DOMAIN s2,
              g[i] < p, p <= g[i] + Length[ds2[i].kind]
       PROVE  s2[p] = BodyCell(ds2[i])
  <2>1. i + 1 \in DOMAIN ds /\ m + p \in DOMAIN s
    <3>1. p \in 1 .. Len(s) - m
      BY <1>5
    <3>2. m + p \in 1 .. Len(s)
      BY <1>4, <1>5, <3>1, InWhole, Zenon
    <3> QED BY <1>5, <1>8, <3>2
  <2>2. f[i + 1] < m + p /\ m + p <= f[i + 1] + Length[ds[i + 1].kind]
    <3>1. g[i] = f[i + 1] - m /\ ds2[i] = ds[i + 1]
      BY <1>6, <1>10
    <3>2. f[i + 1] \in Nat /\ Length[ds[i + 1].kind] \in Nat
      BY <1>7, <2>1
    <3>3. p \in Nat /\ m \in Nat
      <4>1. p \in 1 .. Len(s2)
        BY <1>5
      <4> QED BY <1>4, <4>1
    <3>4. f[i + 1] - m < p /\ p <= (f[i + 1] - m) + Length[ds[i + 1].kind]
      BY <1>17, <3>1, Zenon
    <3> DEFINE a == f[i + 1]
               l == Length[ds[i + 1].kind]
    <3>5. a \in Nat /\ l \in Nat /\ a - m < p /\ p <= (a - m) + l
      BY <3>2, <3>4, Zenon
    <3> HIDE DEF a, l
    <3>6. a < m + p /\ m + p <= a + l
      BY <3>3, <3>5
    <3> QED BY <3>6, Zenon DEF a, l
  <2>3. s[m + p] = BodyCell(ds[i + 1])
    BY <1>1, <2>1, <2>2 DEF LaidOut
  <2> QED BY <1>5, <1>6, <2>3
<1>18. LaidOut(s2, ds2, None, n, g)
  BY <1>13, <1>14, <1>15, <1>16, <1>17 DEF LaidOut
<1>19. InOrder(s2, ds2, None, n)
  BY <1>10, <1>18 DEF InOrder
<1> QED BY <1>3, <1>11, <1>19 DEF s2, ds2, m

-----------------------------------------------------------------------------
(* The steps keep both ends in step.                                       *)

\* The values that the invariant speaks of.
LEMMA EndFacts ==
    ASSUME TypeOK, NEW e \in End
    PROVE  /\ stream[e] \in Seq(Cell) /\ due[e] \in Seq(Message)
           /\ header[e] \in Header \cup {None} /\ lock[e] \in Thread \cup {None}
           /\ \A t \in Thread : rest[e][t] \in Seq(Cell)
           /\ Unsent(e) \in Nat
<1>1. /\ stream[e] \in Seq(Cell) /\ due[e] \in Seq(Message)
      /\ header[e] \in Header \cup {None} /\ lock[e] \in Thread \cup {None}
      /\ \A t \in Thread : rest[e][t] \in Seq(Cell)
  BY DEF TypeOK, Message
<1>2. Unsent(e) \in Nat
  BY <1>1, SeqLengths DEF Unsent
<1> QED BY <1>1, <1>2

\* A writer is in step when nothing that it depends on has changed.
LEMMA SameWriter ==
    ASSUME NEW e \in End, NEW t \in Thread, WriterInStep(e, t),
           rest'[e][t] = rest[e][t], lock'[e] = t <=> lock[e] = t,
           lock[e] = t => due'[e] = due[e]
    PROVE  WriterInStep(e, t)'
BY DEF WriterInStep, EndOf, Whole, Cells, BodyCell

\* Nor has the rest of a message.
LEMMA SameUnsent ==
    ASSUME NEW e \in End, lock'[e] = lock[e],
           lock[e] # None => rest'[e][lock[e]] = rest[e][lock[e]]
    PROVE  Unsent(e)' = Unsent(e)
BY DEF Unsent

\* An end that a step has nothing to do with stays in step.
LEMMA SameEnd ==
    ASSUME TypeOK, InStep, NEW e \in End, rest'[e] = rest[e], lock'[e] = lock[e],
           due'[e] = due[e], stream'[e] = stream[e], header'[Peer(e)] = header[Peer(e)]
    PROVE  /\ \A t \in Thread : WriterInStep(e, t)'
           /\ InOrder(stream[e], due[e], header[Peer(e)], Unsent(e))'
<1>1. /\ \A t \in Thread : WriterInStep(e, t)
      /\ InOrder(stream[e], due[e], header[Peer(e)], Unsent(e))
  BY DEF InStep
<1>2. \A t \in Thread : WriterInStep(e, t)'
  BY <1>1, SameWriter
<1>3. Unsent(e)' = Unsent(e)
  BY SameUnsent
<1>4. InOrder(stream'[e], due'[e], header'[Peer(e)], Unsent(e)')
  BY <1>1, <1>3
<1> QED BY <1>2, <1>4

\* What may still be sent when a thread holds the mutex, and when nobody does.
LEMMA UnsentIs ==
    ASSUME NEW e \in End
    PROVE  /\ lock[e] = None => Unsent(e) = 0
           /\ \A t \in Thread : lock[e] = t =>
                  Unsent(e) = IF Head(rest[e][t]).part = "body" THEN Len(rest[e][t]) ELSE 0
BY ConstantsOK DEF Unsent

\* What a thread that has something to send begins with.
LEMMA FirstCell ==
    ASSUME NEW e \in End, NEW t \in Thread, TypeOK, WriterInStep(e, t), rest[e][t] # <<>>
    PROVE  \/ /\ \E k \in Kind : rest[e][t] = Cells(t, k)
              /\ Head(rest[e][t]).part = "header"
           \/ /\ lock[e] = t /\ EndOf(t, rest[e][t], due[e])
              /\ Head(rest[e][t]).part = "body"
<1>1. rest[e][t] \in Seq(Cell) /\ Head(rest[e][t]) = rest[e][t][1] /\ 1 \in DOMAIN rest[e][t]
  BY EndFacts, SeqFacts, SeqLengths
<1>2. CASE Whole(t, rest[e][t])
  <2>1. PICK k \in Kind : rest[e][t] = Cells(t, k)
    BY <1>2 DEF Whole
  <2>2. Head(rest[e][t]) = HeaderCell([by |-> t, kind |-> k])
    BY <1>1, <2>1, WholeMessage
  <2>3. Head(rest[e][t]).part = "header"
    BY <2>2 DEF HeaderCell
  <2> QED BY <2>1, <2>3
<1>3. CASE lock[e] = t /\ EndOf(t, rest[e][t], due[e])
  BY <1>1, <1>3 DEF EndOf, BodyCell
<1> QED BY <1>2, <1>3 DEF WriterInStep

\* A thread that has nothing to send may be given a whole message.
LEMMA NewMessage ==
    ASSUME TypeOK, NEW e \in End, NEW t \in Thread, NEW k \in Kind,
           \A u \in Thread : WriterInStep(e, u), rest[e][t] = <<>>,
           rest' = [rest EXCEPT ![e][t] = Cells(t, k)], lock'[e] = lock[e],
           due'[e] = due[e]
    PROVE  /\ \A u \in Thread : WriterInStep(e, u)'
           /\ Unsent(e)' = Unsent(e)
           /\ \A d \in End : d # e => rest'[d] = rest[d]
<1>1. Cells(t, k) \in Seq(Cell) /\ Cells(t, k) # <<>>
  <2>1. Cells(t, k) \in Seq(Cell) /\ Len(Cells(t, k)) = Length[k] + 1 /\ Length[k] \in Nat
    BY WholeMessage, Lengths
  <2> QED BY <2>1, SeqLengths
<1>2. /\ rest'[e][t] = Cells(t, k) /\ \A u \in Thread : u # t => rest'[e][u] = rest[e][u]
      /\ \A d \in End : d # e => rest'[d] = rest[d]
  BY <1>1, Put DEF TypeOK
<1>3. lock[e] # t
  BY DEF WriterInStep
<1>4. \A u \in Thread : u # t => WriterInStep(e, u)'
  BY <1>2, SameWriter
<1>5. WriterInStep(e, t)'
  BY <1>1, <1>2, <1>3 DEF WriterInStep, Whole, Cells
<1>6. lock[e] # None => rest'[e][lock[e]] = rest[e][lock[e]]
  BY <1>2, <1>3, EndFacts
<1> QED BY <1>2, <1>4, <1>5, <1>6, SameUnsent

\* A call of write() or sendMessage() begins.
LEMMA BeginInStep ==
    ASSUME TypeOK, InStep, NEW e \in End, Begin(e)
    PROVE  InStep'
<1>1. PICK k \in Kind : rest' = [rest EXCEPT ![e]["user"] = Cells("user", k)]
  BY DEF Begin
<1>2. /\ rest[e]["user"] = <<>>
      /\ UNCHANGED <<stream, lock, header, due>>
  BY DEF Begin
<1>3. \A u \in Thread : WriterInStep(e, u)
  BY DEF InStep
<1>4. /\ \A u \in Thread : WriterInStep(e, u)'
      /\ Unsent(e)' = Unsent(e)
      /\ \A d \in End : d # e => rest'[d] = rest[d]
  BY <1>1, <1>2, <1>3, NewMessage DEF Thread
<1>5. InOrder(stream'[e], due'[e], header'[Peer(e)], Unsent(e)')
  BY <1>2, <1>4 DEF InStep
<1>6. ASSUME NEW d \in End, d # e
      PROVE  /\ \A t \in Thread : WriterInStep(d, t)'
             /\ InOrder(stream[d], due[d], header[Peer(d)], Unsent(d))'
  BY <1>2, <1>4, <1>6, SameEnd
<1> QED BY <1>4, <1>5, <1>6 DEF InStep

\* The mutex is locked.
LEMMA LockInStep ==
    ASSUME TypeOK, InStep, NEW e \in End, NEW t \in Thread, Lock(e, t)
    PROVE  InStep'
<1>1. /\ lock[e] = None /\ rest[e][t] # <<>> /\ lock' = [lock EXCEPT ![e] = t]
      /\ UNCHANGED <<stream, rest, header, due>>
  BY DEF Lock
<1>2. lock'[e] = t /\ \A d \in End : d # e => lock'[d] = lock[d]
  BY <1>1 DEF TypeOK
<1>3. None \notin Thread
  BY ConstantsOK
<1>4. \A u \in Thread : WriterInStep(e, u)
  BY DEF InStep
<1>5. Whole(t, rest[e][t]) /\ Head(rest[e][t]).part = "header"
  BY <1>1, <1>3, <1>4, FirstCell DEF Whole
<1>6. \A u \in Thread : u # t => WriterInStep(e, u)'
  BY <1>1, <1>2, <1>3, <1>4, SameWriter
<1>7. WriterInStep(e, t)'
  BY <1>1, <1>5 DEF WriterInStep, Whole, Cells
<1>8. Unsent(e) = 0 /\ Unsent(e)' = 0
  BY <1>1, <1>2, <1>3, <1>5 DEF Unsent
<1>9. InOrder(stream'[e], due'[e], header'[Peer(e)], Unsent(e)')
  BY <1>1, <1>8 DEF InStep
<1>10. ASSUME NEW d \in End, d # e
       PROVE  /\ \A u \in Thread : WriterInStep(d, u)'
              /\ InOrder(stream[d], due[d], header[Peer(d)], Unsent(d))'
  BY <1>1, <1>2, <1>10, SameEnd
<1> QED BY <1>6, <1>7, <1>9, <1>10 DEF InStep

\* send() sends the header, or the next piece of the body, of a message.
LEMMA SendInStep ==
    ASSUME TypeOK, TypeOK', InStep, NEW e \in End, NEW t \in Thread, SendCell(e, t)
    PROVE  InStep'
<1> DEFINE cs == rest[e][t]
           c == Head(cs)
           l == Len(due[e])
<1>1. /\ lock[e] = t /\ cs # <<>>
      /\ stream' = [stream EXCEPT ![e] = Append(stream[e], c)]
      /\ rest' = [rest EXCEPT ![e][t] = Tail(cs)]
      /\ lock' = [lock EXCEPT ![e] = Holder(t, Tail(cs))]
      /\ due' = IF c.part = "body" THEN due
                ELSE [due EXCEPT ![e] = Append(due[e], [by |-> t, kind |-> c.kind])]
      /\ header' = header
  BY DEF SendCell, Sending
<1>2. /\ \A u \in Thread : WriterInStep(e, u)
      /\ InOrder(stream[e], due[e], header[Peer(e)], Unsent(e))
  BY DEF InStep
<1>3. /\ cs \in Seq(Cell) /\ Tail(cs) \in Seq(Cell) /\ c = cs[1] /\ DOMAIN cs = 1 .. Len(cs)
      /\ Len(cs) \in Nat \ {0} /\ Len(Tail(cs)) = Len(cs) - 1
      /\ DOMAIN Tail(cs) = 1 .. Len(cs) - 1
      /\ \A i \in DOMAIN Tail(cs) : Tail(cs)[i] = cs[i + 1]
      /\ Tail(cs) # <<>> => Head(Tail(cs)) = cs[2] /\ 2 \in DOMAIN cs
      /\ Tail(cs) = <<>> <=> Len(cs) = 1
  <2>1. cs \in Seq(Cell)
    BY EndFacts
  <2>2. Tail(cs) \in Seq(Cell) /\ c = cs[1] /\ Len(cs) \in Nat \ {0}
    BY <1>1, <2>1, SeqFacts, SeqLengths
  <2>3. /\ Len(Tail(cs)) = Len(cs) - 1 /\ DOMAIN cs = 1 .. Len(cs)
        /\ \A i \in 1 .. Len(cs) - 1 : Tail(cs)[i] = cs[i + 1]
    BY <1>1, <2>1, SeqLengths
  <2>4. /\ DOMAIN Tail(cs) = 1 .. Len(Tail(cs)) /\ (Tail(cs) = <<>> <=> Len(Tail(cs)) = 0)
        /\ Tail(cs) # <<>> => Head(Tail(cs)) = Tail(cs)[1]
    BY <2>2, SeqFacts, SeqLengths
  <2> HIDE DEF cs, c
  <2>5. DOMAIN Tail(cs) = 1 .. Len(cs) - 1 /\ (Tail(cs) = <<>> <=> Len(cs) = 1)
    BY <2>2, <2>3, <2>4
  <2>6. Tail(cs) # <<>> => Head(Tail(cs)) = cs[2] /\ 2 \in DOMAIN cs
    <3>1. ASSUME Tail(cs) # <<>> PROVE 1 \in 1 .. Len(cs) - 1 /\ 2 \in 1 .. Len(cs)
      BY <2>2, <2>5, <3>1
    <3> QED BY <2>3, <2>4, <3>1
  <2> QED BY <2>1, <2>2, <2>3, <2>5, <2>6
<1>4. /\ rest'[e][t] = Tail(cs) /\ \A u \in Thread : u # t => rest'[e][u] = rest[e][u]
      /\ \A d \in End : d # e => rest'[d] = rest[d]
  BY <1>1, <1>3, Put DEF TypeOK
<1>5. /\ stream'[e] = Append(stream[e], c) /\ \A d \in End : d # e => stream'[d] = stream[d]
      /\ lock'[e] = Holder(t, Tail(cs)) /\ \A d \in End : d # e => lock'[d] = lock[d]
      /\ \A d \in End : d # e => due'[d] = due[d]
  BY <1>1 DEF TypeOK
<1>6. /\ lock'[e] = (IF Tail(cs) = <<>> THEN None ELSE t) /\ None \notin Thread
      /\ \A u \in Thread : u # t => lock[e] # u /\ lock'[e] # u
  <2>1. lock'[e] = IF Tail(cs) = <<>> THEN None ELSE t
    BY <1>5 DEF Holder
  <2>2. None \notin Thread
    BY ConstantsOK
  <2> QED BY <1>1, <2>1, <2>2
<1> HIDE DEF cs, c
<1>7. \A u \in Thread : u # t => WriterInStep(e, u)'
  BY <1>2, <1>4, <1>6, SameWriter
<1>8. stream[e] \in Seq(Cell) /\ due[e] \in Seq(Message)
  BY EndFacts
<1>9. ASSUME \E k \in Kind : cs = Cells(t, k)
      PROVE  /\ WriterInStep(e, t)'
             /\ InOrder(stream'[e], due'[e], header'[Peer(e)], Unsent(e)')
  <2>1. PICK k \in Kind : cs = Cells(t, k)
    BY <1>9
  <2> DEFINE m == [by |-> t, kind |-> k]
  <2>2. m \in Message /\ m.by = t /\ m.kind = k /\ Length[k] \in Nat
    BY Lengths DEF Message
  <2>3. /\ Len(cs) = Length[k] + 1 /\ c = HeaderCell(m)
        /\ \A i \in 1 .. Length[k] : cs[i + 1] = BodyCell(m)
    BY <1>3, <2>1, WholeMessage
  <2>4. c.part # "body" /\ c.kind = k
    BY <2>3 DEF HeaderCell
  <2>5. due'[e] = Append(due[e], m)
    BY <1>1, <2>4 DEF TypeOK
  <2>6. Unsent(e) = 0
    BY <1>1, <2>4, UnsentIs DEF c, cs
  <2> HIDE DEF m
  <2>7. InOrder(stream'[e], due'[e], header'[Peer(e)], Length[k])
    BY <1>1, <1>2, <1>5, <1>8, <2>2, <2>3, <2>5, <2>6, SendHeader
  <2>8. Unsent(e)' = Length[k]
    <3>1. CASE Tail(cs) = <<>>
      BY <1>3, <1>6, <2>2, <2>3, <3>1 DEF Unsent
    <3>2. CASE Tail(cs) # <<>>
      <4>1. Head(Tail(cs)) = BodyCell(m)
        <5>1. Length[k] >= 1
          BY <1>3, <2>2, <2>3, <3>2
        <5>2. 1 \in 1 .. Length[k]
          BY <2>2, <5>1
        <5>3. cs[1 + 1] = BodyCell(m)
          BY <2>3, <5>2
        <5> QED BY <1>3, <3>2, <5>3
      <4>2. Head(rest'[e][t]).part = "body" /\ Len(rest'[e][t]) = Length[k]
        <5>1. Len(Tail(cs)) = Length[k]
          BY <1>3, <2>2, <2>3
        <5>2. BodyCell(m).part = "body"
          BY DEF BodyCell
        <5> QED BY <1>4, <4>1, <5>1, <5>2
      <4>3. lock'[e] = t /\ lock'[e] # None
        BY <1>6, <3>2
      <4> QED BY <4>2, <4>3 DEF Unsent
    <3> QED BY <3>1, <3>2
  <2>9. WriterInStep(e, t)'
    <3>1. CASE Tail(cs) = <<>>
      BY <1>4, <1>6, <3>1 DEF WriterInStep
    <3>2. CASE Tail(cs) # <<>>
      <4>1. /\ due'[e] # <<>> /\ due'[e][Len(due'[e])] = m
        <5>1. Len(due'[e]) = Len(due[e]) + 1 /\ due'[e][Len(due[e]) + 1] = m
          BY <1>8, <2>2, <2>5, SeqLengths
        <5>2. due'[e] # <<>>
          BY <1>8, <2>2, <2>5
        <5> QED BY <5>1, <5>2
      <4>2. \A i \in DOMAIN Tail(cs) : Tail(cs)[i] = BodyCell(m)
        BY <1>3, <2>2, <2>3
      <4>3. EndOf(t, rest'[e][t], due'[e])
        BY <1>4, <2>2, <4>1, <4>2 DEF EndOf
      <4>4. lock'[e] = t /\ rest'[e][t] # <<>>
        BY <1>4, <1>6, <3>2
      <4> QED BY <4>3, <4>4 DEF WriterInStep, EndOf, BodyCell
    <3> QED BY <3>1, <3>2
  <2> QED BY <2>7, <2>8, <2>9
<1>10. ASSUME EndOf(t, cs, due[e]), c.part = "body"
       PROVE  /\ WriterInStep(e, t)'
              /\ InOrder(stream'[e], due'[e], header'[Peer(e)], Unsent(e)')
  <2>1. Unsent(e) = Len(cs)
    BY <1>1, <1>10, UnsentIs DEF c, cs
  <2>2. c = BodyCell(due[e][l]) /\ due[e] # <<>> /\ due[e][l].by = t
        /\ \A i \in DOMAIN cs : cs[i] = BodyCell(due[e][l])
    BY <1>3, <1>10 DEF EndOf
  <2>3. due' = due
    BY <1>1, <1>10
  <2>4. InOrder(stream'[e], due'[e], header'[Peer(e)], Len(cs) - 1)
    <3>1. InOrder(stream[e], due[e], header[Peer(e)], Len(cs)) /\ Len(cs) \in Nat \ {0}
      BY <1>2, <1>3, <2>1
    <3>2. InOrder(Append(stream[e], BodyCell(due[e][l])), due[e], header[Peer(e)], Len(cs) - 1)
      BY <1>8, <3>1, SendBody
    <3> QED BY <1>1, <1>5, <2>2, <2>3, <3>2
  <2>5. Unsent(e)' = Len(cs) - 1
    <3>1. CASE Tail(cs) = <<>>
      BY <1>3, <1>6, <3>1 DEF Unsent
    <3>2. CASE Tail(cs) # <<>>
      <4>1. Head(rest'[e][t]).part = "body" /\ Len(rest'[e][t]) = Len(cs) - 1
        <5>1. Head(Tail(cs)) = BodyCell(due[e][l])
          BY <1>3, <2>2, <3>2, Zenon
        <5>2. BodyCell(due[e][l]).part = "body"
          BY DEF BodyCell
        <5> QED BY <1>3, <1>4, <5>1, <5>2, Zenon
      <4>2. lock'[e] = t /\ lock'[e] # None
        BY <1>6, <3>2
      <4> QED BY <4>1, <4>2 DEF Unsent
    <3> QED BY <3>1, <3>2
  <2>6. WriterInStep(e, t)'
    <3>1. CASE Tail(cs) = <<>>
      BY <1>4, <1>6, <3>1 DEF WriterInStep
    <3>2. CASE Tail(cs) # <<>>
      <4>1. \A i \in DOMAIN Tail(cs) : Tail(cs)[i] = BodyCell(due[e][l])
        BY <1>3, <2>2
      <4>2. EndOf(t, rest'[e][t], due'[e])
        BY <1>4, <2>2, <2>3, <4>1 DEF EndOf
      <4>3. lock'[e] = t /\ rest'[e][t] # <<>>
        BY <1>4, <1>6, <3>2
      <4> QED BY <4>2, <4>3 DEF WriterInStep, EndOf, BodyCell
    <3> QED BY <3>1, <3>2
  <2> QED BY <2>4, <2>5, <2>6
<1>11. /\ WriterInStep(e, t)'
       /\ InOrder(stream'[e], due'[e], header'[Peer(e)], Unsent(e)')
  <2>1. cs = rest[e][t] /\ c = Head(rest[e][t])
    BY DEF c, cs
  <2> QED BY <1>1, <1>2, <1>9, <1>10, <2>1, FirstCell
<1>12. ASSUME NEW d \in End, d # e
       PROVE  /\ \A u \in Thread : WriterInStep(d, u)'
              /\ InOrder(stream[d], due[d], header[Peer(d)], Unsent(d))'
  BY <1>1, <1>4, <1>5, <1>12, SameEnd
<1> QED BY <1>7, <1>11, <1>12 DEF InStep

\* send() fails, but not behind a header.
LEMMA FailInStep ==
    ASSUME TypeOK, InStep, NEW e \in End, NEW t \in Thread, SendFails(e, t), ~outOfStep'
    PROVE  InStep'
<1>1. /\ lock[e] = t /\ Head(rest[e][t]).part # "body"
      /\ rest' = [rest EXCEPT ![e][t] = <<>>] /\ lock' = [lock EXCEPT ![e] = None]
      /\ UNCHANGED <<stream, header, due>>
  BY DEF SendFails, Sending
<1>2. /\ rest'[e][t] = <<>> /\ \A u \in Thread : u # t => rest'[e][u] = rest[e][u]
      /\ \A d \in End : d # e => rest'[d] = rest[d]
  BY <1>1, SeqFacts, Put DEF TypeOK
<1>3. lock'[e] = None /\ \A d \in End : d # e => lock'[d] = lock[d]
  BY <1>1 DEF TypeOK
<1>4. None \notin Thread
  BY ConstantsOK
<1>5. /\ \A u \in Thread : WriterInStep(e, u)
      /\ InOrder(stream[e], due[e], header[Peer(e)], Unsent(e))
  BY DEF InStep
<1>6. \A u \in Thread : u # t => WriterInStep(e, u)'
  BY <1>1, <1>2, <1>3, <1>4, <1>5, SameWriter
<1>7. WriterInStep(e, t)'
  BY <1>2, <1>3, <1>4 DEF WriterInStep
<1>8. Unsent(e) = 0 /\ Unsent(e)' = 0
  BY <1>1, <1>3 DEF Unsent
<1>9. InOrder(stream'[e], due'[e], header'[Peer(e)], Unsent(e)')
  BY <1>1, <1>5, <1>8
<1>10. ASSUME NEW d \in End, d # e
       PROVE  /\ \A u \in Thread : WriterInStep(d, u)'
              /\ InOrder(stream[d], due[d], header[Peer(d)], Unsent(d))'
  BY <1>1, <1>2, <1>3, <1>10, SameEnd
<1> QED BY <1>6, <1>7, <1>9, <1>10 DEF InStep

\* The first recv() reads a header.
LEMMA HeaderInStep ==
    ASSUME TypeOK, InStep, NEW e \in End, ReadHeader(e)
    PROVE  InStep'
<1> DEFINE d == Peer(e)
           s == stream[d]
           m == due[d][1]
<1>1. /\ d \in End /\ d # e /\ Peer(d) = e /\ \A x \in End : x = d \/ x = e
  BY TwoEnds
<1>2. /\ header[e] = None /\ s # <<>>
      /\ stream' = [stream EXCEPT ![d] = Tail(s)]
      /\ \E n \in IF Head(s).part = "header" THEN {Length[Head(s).kind]} ELSE 0 .. 2 :
            header' = [header EXCEPT ![e] =
                          [by |-> Head(s).by, kind |-> Head(s).kind, length |-> n]]
      /\ UNCHANGED <<rest, lock, due>>
  BY DEF ReadHeader
<1>3. /\ s \in Seq(Cell) /\ due[d] \in Seq(Message) /\ Unsent(d) \in Nat /\ Head(s) = s[1]
  BY <1>1, <1>2, EndFacts, SeqFacts
<1>4. InOrder(s, due[d], None, Unsent(d)) /\ \A t \in Thread : WriterInStep(d, t)
  BY <1>1, <1>2 DEF InStep
<1> HIDE DEF d, s
<1>5. /\ due[d] # <<>> /\ s[1] = HeaderCell(m)
      /\ InOrder(Tail(s), due[d], HeaderOf(m), Unsent(d))
  BY <1>2, <1>3, <1>4, TakeHeader
<1>6. Head(s).part = "header" /\ Head(s).by = m.by /\ Head(s).kind = m.kind
  BY <1>3, <1>5 DEF HeaderCell
<1>7. header' = [header EXCEPT ![e] = HeaderOf(m)]
  BY <1>2, <1>6 DEF HeaderOf
<1>8. /\ header'[e] = HeaderOf(m) /\ header'[d] = header[d]
      /\ stream'[d] = Tail(s) /\ stream'[e] = stream[e]
  BY <1>1, <1>2, <1>7 DEF TypeOK
<1>9. Unsent(d)' = Unsent(d) /\ \A t \in Thread : WriterInStep(d, t)'
  BY <1>1, <1>2, <1>4, SameWriter, SameUnsent
<1>10. InOrder(stream'[d], due'[d], header'[e], Unsent(d)')
  BY <1>2, <1>5, <1>8, <1>9
<1>11. /\ \A t \in Thread : WriterInStep(e, t)'
       /\ InOrder(stream[e], due[e], header[Peer(e)], Unsent(e))'
  BY <1>1, <1>2, <1>8, SameEnd DEF d
<1> QED BY <1>1, <1>9, <1>10, <1>11 DEF InStep

\* The second recv() reads the body that belongs to the header, or fails.
LEMMA BodyInStep ==
    ASSUME TypeOK, InStep, agree, NEW e \in End, ReadBody(e), ~outOfStep'
    PROVE  agree' /\ (up' => InStep')
<1> DEFINE d == Peer(e)
           s == stream[d]
           h == header[e]
           n == IF h.length <= Len(s) THEN h.length ELSE Len(s)
<1>1. /\ d \in End /\ d # e /\ Peer(d) = e /\ \A x \in End : x = d \/ x = e
  BY TwoEnds
<1>2. /\ h # None /\ rest[e]["reader"] = <<>>
      /\ stream' = [stream EXCEPT ![d] = SubSeq(s, n + 1, Len(s))]
      /\ header' = [header EXCEPT ![e] = None]
      /\ lock' = lock
  BY DEF ReadBody, Reading
<1>3. \/ n = h.length /\ Return(e, h, SubSeq(s, 1, n))
      \/ Fail(e) /\ UNCHANGED <<agree, due, rest>>
  BY Zenon DEF ReadBody
<1>4. CASE Fail(e) /\ UNCHANGED <<agree, due, rest>>
  BY <1>4 DEF Fail
<1>5. CASE n = h.length /\ Return(e, h, SubSeq(s, 1, n))
  <2>1. /\ s \in Seq(Cell) /\ due[d] \in Seq(Message) /\ Unsent(d) \in Nat /\ h \in Header
        /\ Len(s) \in Nat
    BY <1>1, <1>2, EndFacts, SeqLengths
  <2>2. InOrder(s, due[d], h, Unsent(d)) /\ \A t \in Thread : WriterInStep(d, t)
    BY <1>1 DEF InStep
  <2>3. h.length <= Len(s) /\ h.length \in 0 .. Len(s)
    BY <1>5, <2>1 DEF Header
  <2> DEFINE body == SubSeq(s, 1, h.length)
             left == SubSeq(s, h.length + 1, Len(s))
             m == due[d][1]
  <2>4. Return(e, h, body) /\ stream' = [stream EXCEPT ![d] = left]
    BY <1>2, <1>5
  <2> HIDE DEF d, s, h
  <2>5. /\ due[d] # <<>> /\ h = HeaderOf(m)
        /\ \A i \in 1 .. h.length : s[i] = BodyCell(m)
        /\ InOrder(left, Tail(due[d]), None, Unsent(d))
    BY <2>1, <2>2, <2>3, TakeBody
  <2>6. m \in Message /\ Head(due[d]) = m
    BY <2>1, <2>5, SeqFacts
  <2>7. m = [by |-> h.by, kind |-> h.kind]
    BY <2>5, <2>6 DEF HeaderOf, Message
  <2>8. \A i \in DOMAIN body : body[i] = [by |-> h.by, kind |-> h.kind, part |-> "body"]
    <3>1. DOMAIN body = 1 .. h.length /\ \A i \in 1 .. h.length : body[i] = s[i]
      BY <2>1, <2>3, Split
    <3>2. BodyCell(m) = [by |-> h.by, kind |-> h.kind, part |-> "body"]
      BY <2>5 DEF BodyCell, HeaderOf
    <3> QED BY <2>5, <3>1, <3>2
  <2> HIDE DEF body, left
  <2>9. agree'
    BY <2>4, <2>5, <2>6, <2>7, <2>8 DEF Return, d
  <2>10. due' = [due EXCEPT ![d] = Tail(due[d])]
    BY <2>4, <2>5 DEF Return, d
  <2>11. /\ header'[e] = None /\ header'[d] = header[d]
         /\ stream'[d] = left /\ stream'[e] = stream[e]
         /\ due'[d] = Tail(due[d]) /\ due'[e] = due[e]
    BY <1>1, <1>2, <2>4, <2>10 DEF TypeOK
  <2>12. /\ \A t \in Thread : WriterInStep(e, t)'
         /\ Unsent(e)' = Unsent(e) /\ rest'[d] = rest[d]
    <3>1. \A t \in Thread : WriterInStep(e, t)
      BY DEF InStep
    <3>2. CASE rest' = rest
      BY <1>2, <2>11, <3>1, <3>2, SameWriter, SameUnsent
    <3>3. CASE rest' = [rest EXCEPT ![e]["reader"] = Cells("reader", "echo")]
      BY <1>1, <1>2, <2>11, <3>1, <3>3, NewMessage, Lengths DEF Thread
    <3> QED BY <2>4, <3>2, <3>3 DEF Return, Answer
  <2>13. Unsent(d)' = Unsent(d)
    BY <1>1, <1>2, <2>12, SameUnsent
  <2>14. ASSUME NEW t \in Thread PROVE WriterInStep(d, t)'
    <3>1. WriterInStep(d, t) /\ rest'[d][t] = rest[d][t] /\ lock'[d] = lock[d]
      BY <1>2, <2>2, <2>12
    <3>2. CASE Head(rest[d][t]).part = "body" /\ rest[d][t] # <<>>
      <4>1. lock[d] = t /\ EndOf(t, rest[d][t], due[d])
        BY <1>1, <3>1, <3>2, FirstCell
      <4>2. Unsent(d) # 0
        <5>1. Unsent(d) = Len(rest[d][t])
          BY <1>1, <3>2, <4>1, UnsentIs
        <5> QED BY <1>1, <3>2, <5>1, EndFacts, SeqLengths
      <4>3. Tail(due[d]) # <<>>
        BY <2>5, <4>2 DEF InOrder, LaidOut
      <4>4. Tail(due[d])[Len(Tail(due[d]))] = due[d][Len(due[d])]
        <5>1. Tail(due[d]) \in Seq(Message)
          BY <2>1, <2>5, SeqFacts
        <5>2. /\ Len(Tail(due[d])) = Len(due[d]) - 1 /\ Len(due[d]) \in Nat
              /\ \A i \in 1 .. Len(due[d]) - 1 : Tail(due[d])[i] = due[d][i + 1]
          BY <2>1, <2>5, SeqLengths
        <5>3. Len(Tail(due[d])) \in 1 .. Len(due[d]) - 1
          BY <4>3, <5>1, <5>2, SeqLengths
        <5> QED BY <5>2, <5>3
      <4>5. EndOf(t, rest'[d][t], due'[d])
        BY <2>11, <3>1, <4>1, <4>3, <4>4 DEF EndOf
      <4> QED BY <3>1, <3>2, <4>1, <4>5 DEF WriterInStep, EndOf, BodyCell
    <3>3. CASE ~(Head(rest[d][t]).part = "body" /\ rest[d][t] # <<>>)
      <4>1. rest[d][t] = <<>> \/ Whole(t, rest[d][t])
        BY <1>1, <3>1, <3>3, FirstCell DEF Whole
      <4> QED BY <3>1, <4>1 DEF WriterInStep, Whole, Cells
    <3> QED BY <3>2, <3>3
  <2>15. InOrder(stream'[d], due'[d], header'[e], Unsent(d)')
    BY <2>5, <2>11, <2>13
  <2>16. InOrder(stream'[e], due'[e], header'[d], Unsent(e)')
    <3>1. InOrder(stream[e], due[e], header[d], Unsent(e))
      BY DEF InStep, d
    <3> QED BY <2>11, <2>12, <3>1
  <2>17. d = Peer(e)
    BY DEF d
  <2> QED BY <1>1, <2>9, <2>12, <2>14, <2>15, <2>16, <2>17 DEF InStep
<1> QED BY <1>3, <1>4, <1>5

\* The invariant holds at first.
LEMMA InitInv == Init => Inv
<1> SUFFICES ASSUME Init PROVE agree /\ InStep
  BY DEF Inv
<1>1. ASSUME NEW e \in End
      PROVE  /\ \A t \in Thread : WriterInStep(e, t)
             /\ InOrder(stream[e], due[e], header[Peer(e)], Unsent(e))
  <2>1. /\ lock[e] = None /\ due[e] = <<>> /\ stream[e] = <<>> /\ header[Peer(e)] = None
        /\ \A t \in Thread : rest[e][t] = <<>>
    BY <1>1, TwoEnds DEF Init
  <2>2. Unsent(e) = 0
    BY <2>1 DEF Unsent
  <2>3. \A t \in Thread : WriterInStep(e, t)
    BY <2>1, ConstantsOK DEF WriterInStep
  <2>4. LaidOut(<<>>, <<>>, None, 0, [i \in DOMAIN <<>> |-> 0])
    BY DEF LaidOut
  <2>5. InOrder(<<>>, <<>>, None, 0)
    <3>1. [i \in DOMAIN <<>> |-> 0] \in [DOMAIN <<>> -> Nat]
      OBVIOUS
    <3> QED BY <2>4, <3>1 DEF InOrder
  <2> QED BY <2>1, <2>2, <2>3, <2>5
<1> QED BY <1>1 DEF Init, InStep

\* Every step keeps the invariant.
LEMMA NextInv == TypeOK /\ TypeOK' /\ Inv /\ [Next]_vars => Inv'
<1> SUFFICES ASSUME TypeOK, TypeOK', Inv, [Next]_vars, ~outOfStep'
             PROVE  agree' /\ (up' => InStep')
  BY DEF Inv
<1>1. CASE UNCHANGED vars
  <2>1. /\ ~outOfStep /\ agree' = agree /\ up' = up /\ rest' = rest /\ lock' = lock
        /\ due' = due /\ stream' = stream /\ header' = header
    BY <1>1 DEF vars
  <2>2. InStep => InStep'
    BY <2>1, SameEnd DEF InStep
  <2> QED BY <2>1, <2>2 DEF Inv
<1>2. ASSUME NEW e \in End, NEW t \in Thread, Begin(e) \/ Writer(e, t) \/ SendFails(e, t)
      PROVE  agree' /\ (up' => InStep')
  <2>1. up /\ agree' = agree /\ ~outOfStep
    <3>1. CASE Begin(e)
      BY <3>1 DEF Begin
    <3>2. CASE Lock(e, t)
      BY <3>2 DEF Lock
    <3>3. CASE SendCell(e, t)
      BY <3>3 DEF SendCell, Sending
    <3>4. CASE SendFails(e, t)
      BY <3>4 DEF SendFails, Sending
    <3> QED BY <1>2, <3>1, <3>2, <3>3, <3>4 DEF Writer
  <2> QED BY <1>2, <2>1, BeginInStep, LockInStep, SendInStep, FailInStep DEF Inv, Writer
<1>3. ASSUME NEW e \in End, Reader(e)
      PROVE  agree' /\ (up' => InStep')
  <2>1. up
    BY <1>3 DEF Reader, ReadHeader, ReadBody, Reading
  <2>2. CASE ReadHeader(e)
    <3>1. ~outOfStep /\ agree' = agree
      BY <2>2 DEF ReadHeader
    <3> QED BY <2>1, <2>2, <3>1, HeaderInStep DEF Inv
  <2>3. CASE ReadBody(e)
    <3>1. ~outOfStep
      BY <2>3 DEF ReadBody, Return, Fail
    <3> QED BY <2>1, <2>3, <3>1, BodyInStep DEF Inv
  <2> QED BY <1>3, <2>2, <2>3 DEF Reader
<1>4. CASE BeginTimedRead \/ Expire
  <2>1. /\ ~outOfStep /\ agree' = agree /\ up' = up /\ rest' = rest /\ lock' = lock
        /\ due' = due /\ stream' = stream /\ header' = header
    BY <1>4 DEF BeginTimedRead, Expire
  <2>2. InStep => InStep'
    BY <2>1, SameEnd DEF InStep
  <2> QED BY <2>1, <2>2 DEF Inv
<1>5. CASE Next
  <2>1. CASE \E e \in End : Begin(e) \/ \E t \in Thread : Writer(e, t) \/ SendFails(e, t)
    <3>1. PICK e \in End, t \in Thread : Begin(e) \/ Writer(e, t) \/ SendFails(e, t)
      BY <2>1 DEF Thread
    <3> QED BY <1>2, <3>1
  <2> QED BY <1>3, <1>4, <1>5, <2>1 DEF Next
<1> QED BY <1>1, <1>5

\* However pieces of messages interleave, and whoever gives up in between: a
\* message that is read is the oldest one that was written and not read, with its
\* own body, unless a call of send() stopped behind a header, or a timed read failed
\* after its time was over.  This holds for buffers of any size, and however
\* many messages are written.
THEOREM ReadsInOrder == Spec => []ReadsWhatWasWritten
<1>1. Inv => ReadsWhatWasWritten
  BY DEF Inv, ReadsWhatWasWritten
<1>2. TypeOK /\ Inv /\ [Next]_vars => TypeOK' /\ Inv'
  BY NextTyped, NextInv
<1> QED BY <1>1, <1>2, InitTyped, InitInv, PTL DEF Spec

=============================================================================
