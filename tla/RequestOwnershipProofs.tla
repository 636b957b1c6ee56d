----------------------- MODULE RequestOwnershipProofs -----------------------
(***************************************************************************)
(* Theorems about who has an id and where a channel is, for every number   *)
(* of ids, application threads and channel objects: as long as the manager *)
(* exists, no id is leaked or handed out twice (IdHasOneOwner), and no     *)
(* request channel is orphaned (OpenChannelIsReachable).                   *)
(***************************************************************************)
EXTENDS RequestChannelsProofs

(***************************************************************************)
(* Ownership of ids.  IdHasOneOwner is not inductive as it stands: that a  *)
(* thread about to clear a slot clears its own, while no one else does,    *)
(* and that a call of removeRequestChannel in progress is inside close(),  *)
(* must be known as well.                                                  *)
(***************************************************************************)
Holding(t) == pc[t] \in {"install", "push"} \/ depth[t] > 0

OnceFree == \A k, l \in DOMAIN freeList : freeList[k] = freeList[l] => k = l

AtOnePlace(i) ==
    /\ Free(i) \/ Installed(i) \/ \E t \in Thread : Holds(t, i)
    /\ ~(Free(i) /\ Installed(i))
    /\ \A t \in Thread : Holds(t, i) => ~Free(i) /\ ~Installed(i)
    /\ \A s, t \in Thread : Holds(s, i) /\ Holds(t, i) => s = t

Owned == OnceFree /\ \A i \in Id : AtOnePlace(i)

Windows ==
    /\ \A t \in Thread : InWindow(t) => Installed(id[t]) /\ depth[t] = 0
    /\ \A s, t \in Thread : InWindow(s) /\ InWindow(t) /\ id[s] = id[t] => s = t

Calls ==
    \A t \in Thread :
        depth[t] > 0 => depth[t] = 1 /\ pc[t] \in {"close", "end", "mark", "check"}

OwnershipInv == alive /\ ~overlap => Owned /\ Windows /\ Calls

\* A step that takes no id from the stack or the table, nor puts one there.
Calm ==
    /\ UNCHANGED <<freeList, requestChannel, alive, overlap>>
    /\ \A t \in Thread :
          /\ Holding(t)' = Holding(t)
          /\ Holding(t) => id'[t] = id[t]
          /\ InWindow(t)' => InWindow(t) /\ id'[t] = id[t] /\ depth'[t] = depth[t]
          /\ depth'[t] > 0 =>
                depth'[t] = depth[t] /\ pc'[t] \in {"close", "end", "mark", "check"}

LEMMA CalmOwned ==
    ASSUME Typed, OwnershipInv, Calm
    PROVE  OwnershipInv'
<1> SUFFICES ASSUME alive, ~overlap
             PROVE  (Owned /\ Windows /\ Calls)'
  BY DEF Calm, OwnershipInv
<1> USE DEF OwnershipInv, Calm
<1>1. \A i \in Id : (Free(i)' = Free(i)) /\ (Installed(i)' = Installed(i))
  BY DEF Free, Installed
<1>2. \A t \in Thread, i \in Id : Holds(t, i)' = Holds(t, i)
  BY DEF Holds, Holding
<1>3. Owned'
  BY <1>1, <1>2 DEF Owned, OnceFree, AtOnePlace
<1>4. Windows'
  BY DEF Windows, Installed
<1>5. Calls'
  BY DEF Calls
<1> QED BY <1>3, <1>4, <1>5

LEMMA FinishCalm ==
    ASSUME Typed, OwnershipInv, alive, ~overlap, NEW t \in Thread, Finish(t),
           pc[t] \in {"close", "check", "release"},
           UNCHANGED <<freeList, requestChannel, alive, overlap>>
    PROVE  Calm
<1>1. CASE depth[t] > 0
  <2>1. depth[t] = 1
    BY <1>1 DEF OwnershipInv, Calls
  <2>2. id' = id /\ depth' = [depth EXCEPT ![t] = 0] /\ pc' = [pc EXCEPT ![t] = "push"]
    BY <1>1, <2>1 DEF Finish, GoTo, Typed, TypeOK
  <2> QED BY <1>1, <2>2 DEF Calm, Holding, InWindow, OwnershipInv, Calls, Typed, TypeOK
<1>2. CASE depth[t] = 0
  <2>1. /\ depth' = depth
        /\ \E l \in {"idle", "recv", "check", "destroy"} : pc' = [pc EXCEPT ![t] = l]
        /\ \A s \in Thread : s # t => id'[s] = id[s]
    BY <1>2 DEF Finish, GoTo, Typed, TypeOK
  <2> QED BY <1>2, <2>1 DEF Calm, Holding, InWindow, OwnershipInv, Calls, Typed, TypeOK
<1> QED BY <1>1, <1>2 DEF Typed, TypeOK

\* An ordinary step of thread t, from a label where it owns nothing, or inside
\* a call that it is making.
Moves(t) ==
    /\ UNCHANGED <<freeList, requestChannel, alive, depth, overlap>>
    /\ pc[t] \notin {"install", "push"} /\ pc'[t] \notin {"install", "push"}
    /\ \A s \in Thread : s # t => pc'[s] = pc[s] /\ id'[s] = id[s]
    /\ InWindow(t)' => InWindow(t) /\ id'[t] = id[t]
    /\ \/ id'[t] = id[t] /\ pc'[t] \in {"close", "end", "mark", "check"}
       \/ pc[t] \notin {"close", "end", "mark", "check"}

LEMMA MovesCalm ==
    ASSUME Typed, OwnershipInv, alive, ~overlap, NEW t \in Thread, Moves(t)
    PROVE  Calm
BY DEF Typed, TypeOK, OwnershipInv, Calls, Moves, Calm, Holding, InWindow

-----------------------------------------------------------------------------
(* The steps by which an id changes hands.                                 *)

LEMMA PopFacts ==
    ASSUME NEW S, NEW s \in Seq(S), s # <<>>
    PROVE  /\ Len(s) \in DOMAIN s /\ s[Len(s)] \in S
           /\ DOMAIN SubSeq(s, 1, Len(s) - 1) = DOMAIN s \ {Len(s)}
           /\ \A k \in DOMAIN s \ {Len(s)} : SubSeq(s, 1, Len(s) - 1)[k] = s[k]
OBVIOUS

LEMMA PushFacts ==
    ASSUME NEW S, NEW s \in Seq(S), NEW e \in S
    PROVE  /\ Len(s) + 1 \notin DOMAIN s
           /\ DOMAIN Append(s, e) = DOMAIN s \cup {Len(s) + 1}
           /\ Append(s, e)[Len(s) + 1] = e
           /\ \A k \in DOMAIN s : Append(s, e)[k] = s[k]
OBVIOUS

\* What the steps below need of the types.
Arrays ==
    /\ requestChannel \in [Id -> Channel \cup {None}]
    /\ pc \in [Thread -> Labels]
    /\ id \in [Thread -> Id]
    /\ depth \in [Thread -> Nat]

\* A thread at one of these labels is not inside a call it makes.
LEMMA NotCalling ==
    ASSUME TypeOK, Calls, NEW t \in Thread, pc[t] \notin {"close", "end", "mark", "check"}
    PROVE  depth[t] = 0
<1>1. depth[t] \in Nat /\ ~(depth[t] > 0)
  BY DEF TypeOK, Calls
<1> QED BY <1>1

LEMMA PopOwned ==
    ASSUME Typed, OwnershipInv, alive, ~overlap, NEW u \in User, Pop(u)
    PROVE  OwnershipInv'
<1> DEFINE n == Len(freeList)
           i == freeList[n]
<1>1. Owned /\ Windows /\ Calls /\ TypeOK /\ u \in Thread
  BY DEF OwnershipInv, Typed, Thread
<1>2. Arrays /\ freeList \in Seq(Id)
  BY <1>1 DEF TypeOK, Arrays
<1>3. /\ pc[u] = "pop" /\ freeList # <<>>
      /\ pc' = [pc EXCEPT ![u] = "install"]
      /\ id' = [id EXCEPT ![u] = i]
      /\ freeList' = SubSeq(freeList, 1, n - 1)
      /\ UNCHANGED <<requestChannel, depth, overlap>>
  BY DEF Pop, At, GoTo
<1>4. depth[u] = 0
  BY <1>1, <1>3, NotCalling
<1>5. /\ n \in DOMAIN freeList /\ i \in Id
      /\ DOMAIN freeList' = DOMAIN freeList \ {n}
      /\ \A k \in DOMAIN freeList' : freeList'[k] = freeList[k]
  BY <1>2, <1>3, PopFacts
<1>6. \A k, l \in DOMAIN freeList : freeList[k] = freeList[l] => k = l
  BY <1>1 DEF Owned, OnceFree, AtOnePlace
<1> HIDE DEF n, i
<1>7. /\ \A k, l \in DOMAIN freeList' : freeList'[k] = freeList'[l] => k = l
      /\ \A j \in Id : Free(j)' <=> Free(j) /\ j # freeList[n]
      /\ Free(freeList[n])
  BY <1>5, <1>6 DEF Free
<1>8. \A j \in Id : Installed(j)' = Installed(j)
  BY <1>3 DEF Installed
<1>9. i = freeList[n]
  BY DEF i
<1>10. ~Holding(u)
  BY <1>3, <1>4 DEF Holding
<1>11. /\ \A t \in Thread : t # u => Holding(t)' = Holding(t) /\ id'[t] = id[t]
       /\ Holding(u)' /\ id'[u] = i
  BY <1>1, <1>2, <1>3 DEF Holding, Arrays
<1>12. \A j \in Id, t \in Thread : Holds(t, j)' <=> Holds(t, j) \/ (t = u /\ j = i)
  BY <1>10, <1>11 DEF Holds, Holding
<1>13. ~Installed(i) /\ \A t \in Thread : ~Holds(t, i)
  BY <1>1, <1>5, <1>7, <1>9 DEF Owned, OnceFree, AtOnePlace
<1>14. Owned'
  BY <1>1, <1>5, <1>7, <1>8, <1>9, <1>12, <1>13 DEF Owned, OnceFree, AtOnePlace
<1>15. \A t \in Thread : InWindow(t)' => InWindow(t) /\ t # u
  BY <1>1, <1>2, <1>3 DEF InWindow, Arrays
<1>16. Windows'
  BY <1>1, <1>2, <1>3, <1>11, <1>15 DEF Windows, Installed, Arrays
<1>17. Calls'
  BY <1>1, <1>2, <1>3, <1>4 DEF Calls, Arrays
<1> QED BY <1>14, <1>16, <1>17 DEF OwnershipInv

LEMMA InstallOwned ==
    ASSUME Typed, OwnershipInv, alive, ~overlap, NEW u \in User, Install(u)
    PROVE  OwnershipInv'
<1>1. Owned /\ Windows /\ Calls /\ TypeOK /\ u \in Thread
  BY DEF OwnershipInv, Typed, Thread
<1>2. Arrays
  BY <1>1 DEF TypeOK, Arrays
<1>3. PICK c \in Channel : requestChannel' = [requestChannel EXCEPT ![id[u]] = c]
  BY DEF Install, Fresh
<1>4. /\ pc[u] = "install" /\ c # None /\ id[u] \in Id
      /\ pc' = [pc EXCEPT ![u] = "fetch"]
      /\ UNCHANGED <<freeList, id, depth, overlap>>
  BY <1>1, <1>2, ConstantsOK DEF ConstantsOK, Install, At, GoTo, Arrays
<1>5. depth[u] = 0
  BY <1>1, <1>4, NotCalling
<1>6. /\ \A j \in Id : Free(j)' <=> Free(j)
      /\ \A j \in Id : Installed(j)' <=> Installed(j) \/ j = id[u]
  <2>1. \A j \in Id : Free(j)' <=> Free(j)
    BY <1>4 DEF Free
  <2>2. \A j \in Id : Installed(j)' <=> Installed(j) \/ j = id[u]
    BY <1>2, <1>3, <1>4 DEF Installed, Arrays
  <2> QED BY <2>1, <2>2
<1>7. ~Holding(u)' /\ \A t \in Thread : t # u => Holding(t)' = Holding(t)
  BY <1>1, <1>2, <1>4, <1>5 DEF Holding, Arrays
<1>8. \A j \in Id, t \in Thread : Holds(t, j)' <=> Holds(t, j) /\ t # u
  BY <1>4, <1>7 DEF Holds, Holding
<1>9. Holds(u, id[u])
  BY <1>4 DEF Holds
<1>10. Owned'
  <2>1. OnceFree'
    BY <1>1, <1>4 DEF Owned, OnceFree
  <2>2. AtOnePlace(id[u])'
    BY <1>1, <1>4, <1>6, <1>8, <1>9 DEF Owned, AtOnePlace
  <2>3. \A i \in Id : i # id[u] => AtOnePlace(i)'
    <3> SUFFICES ASSUME NEW i \in Id, i # id[u] PROVE AtOnePlace(i)'
      OBVIOUS
    <3>1. AtOnePlace(i) /\ ~Holds(u, i)
      BY <1>1 DEF Owned, Holds
    <3>2. (Free(i)' <=> Free(i)) /\ (Installed(i)' <=> Installed(i))
      BY <1>6
    <3>3. \A t \in Thread : Holds(t, i)' <=> Holds(t, i)
      BY <1>8, <3>1
    <3> QED BY <3>1, <3>2, <3>3 DEF AtOnePlace
  <2> QED BY <1>4, <2>1, <2>2, <2>3 DEF Owned
<1>11. \A t \in Thread : InWindow(t)' => InWindow(t)
  BY <1>1, <1>2, <1>4 DEF InWindow, Arrays
<1>12. Windows'
  BY <1>1, <1>2, <1>4, <1>6, <1>11 DEF Windows, Arrays
<1>13. Calls'
  BY <1>1, <1>2, <1>4, <1>5 DEF Calls, Arrays
<1> QED BY <1>10, <1>12, <1>13 DEF OwnershipInv

LEMMA EnterWindow ==
    ASSUME Typed, OwnershipInv, alive, ~overlap, NEW t \in Thread,
           pc[t] = "check", Installed(id[t]), GoTo(t, "load"),
           overlap' = (overlap \/ \E s \in Thread \ {t} : InWindow(s) /\ id[s] = id[t]),
           UNCHANGED <<manager, id, depth>>
    PROVE  OwnershipInv'
<1> SUFFICES ASSUME alive', ~overlap'
             PROVE  (Owned /\ Windows /\ Calls)'
  BY DEF OwnershipInv
<1>1. Owned /\ Windows /\ Calls /\ TypeOK
  BY DEF OwnershipInv, Typed
<1>2. Arrays
  BY <1>1 DEF TypeOK, Arrays
<1>3. /\ pc' = [pc EXCEPT ![t] = "load"]
      /\ UNCHANGED <<freeList, requestChannel, id, depth>>
  BY DEF GoTo, manager
<1>4. depth[t] = 0
  <2>1. ~Holds(t, id[t])
    BY <1>1, <1>2 DEF Owned, OnceFree, AtOnePlace, Arrays
  <2>2. depth[t] \in Nat /\ ~(depth[t] > 0)
    BY <1>2, <2>1 DEF Holds, Arrays
  <2> QED BY <2>2
<1>5. \A i \in Id : Free(i)' = Free(i) /\ Installed(i)' = Installed(i)
  BY <1>3 DEF Free, Installed
<1>6. \A s \in Thread : Holding(s)' = Holding(s)
  BY <1>2, <1>3 DEF Holding, Arrays
<1>7. \A s \in Thread, i \in Id : Holds(s, i)' = Holds(s, i)
  BY <1>3, <1>6 DEF Holds, Holding
<1>8. Owned'
  BY <1>1, <1>3, <1>5, <1>7 DEF Owned, OnceFree, AtOnePlace
<1>9. \A s \in Thread : InWindow(s)' <=> InWindow(s) \/ s = t
  BY <1>2, <1>3 DEF InWindow, Arrays
<1>10. \A s \in Thread : s # t /\ InWindow(s) => id[s] # id[t]
  OBVIOUS
<1>11. \A i \in Id : Installed(i)' = Installed(i)
  BY <1>5
<1>12. Windows'
  BY <1>1, <1>2, <1>3, <1>4, <1>9, <1>10, <1>11 DEF Windows, Arrays
<1>13. Calls'
  BY <1>1, <1>2, <1>3, <1>4 DEF Calls, Arrays
<1> QED BY <1>8, <1>12, <1>13

LEMMA StoreOwned ==
    ASSUME Typed, OwnershipInv, alive, ~overlap, NEW t \in Thread, RemoveStore(t)
    PROVE  OwnershipInv'
<1>1. Owned /\ Windows /\ Calls /\ TypeOK
  BY DEF OwnershipInv, Typed
<1>2. Arrays /\ id[t] \in Id
  BY <1>1 DEF TypeOK, Arrays
<1>3. /\ pc[t] = "store"
      /\ pc' = [pc EXCEPT ![t] = "close"]
      /\ depth' = [depth EXCEPT ![t] = depth[t] + 1]
      /\ requestChannel' = [requestChannel EXCEPT ![id[t]] = None]
      /\ UNCHANGED <<freeList, id, overlap>>
  BY DEF RemoveStore, At, GoTo
<1>4. InWindow(t) /\ depth[t] = 0 /\ Installed(id[t])
  BY <1>1, <1>3 DEF Windows, InWindow
<1>5. /\ \A i \in Id : Free(i)' <=> Free(i)
      /\ \A i \in Id : Installed(i)' <=> Installed(i) /\ i # id[t]
  <2>1. \A i \in Id : Free(i)' <=> Free(i)
    BY <1>3 DEF Free
  <2>2. \A i \in Id : Installed(i)' <=> Installed(i) /\ i # id[t]
    BY <1>2, <1>3 DEF Installed, Arrays
  <2> QED BY <2>1, <2>2
<1>6. ~Holding(t) /\ Holding(t)' /\ \A s \in Thread : s # t => Holding(s)' = Holding(s)
  BY <1>2, <1>3, <1>4 DEF Holding, Arrays
<1>7. \A s \in Thread, i \in Id : Holds(s, i)' <=> Holds(s, i) \/ (s = t /\ i = id[t])
  BY <1>3, <1>6 DEF Holds, Holding
<1>8. ~Free(id[t]) /\ \A s \in Thread : ~Holds(s, id[t])
  BY <1>1, <1>2, <1>4 DEF Owned, OnceFree, AtOnePlace
<1>9. Owned'
  <2>1. OnceFree'
    BY <1>1, <1>3 DEF Owned, OnceFree
  <2>2. \A i \in Id : i = id[t] => AtOnePlace(i)'
    <3> SUFFICES ASSUME NEW i \in Id, i = id[t] PROVE AtOnePlace(i)'
      OBVIOUS
    <3>1. ~Free(i)' /\ ~Installed(i)'
      BY <1>5, <1>8
    <3>2. \A s \in Thread : Holds(s, i)' <=> s = t
      BY <1>7, <1>8
    <3> QED BY <3>1, <3>2 DEF AtOnePlace
  <2>3. \A i \in Id : i # id[t] => AtOnePlace(i)'
    <3> SUFFICES ASSUME NEW i \in Id, i # id[t] PROVE AtOnePlace(i)'
      OBVIOUS
    <3>1. AtOnePlace(i)
      BY <1>1 DEF Owned
    <3>2. (Free(i)' <=> Free(i)) /\ (Installed(i)' <=> Installed(i))
      BY <1>5
    <3>3. \A s \in Thread : Holds(s, i)' <=> Holds(s, i)
      BY <1>7
    <3> QED BY <3>1, <3>2, <3>3 DEF AtOnePlace
  <2>4. \A i \in Id : AtOnePlace(i)'
    BY <2>2, <2>3
  <2> QED BY <2>1, <2>4 DEF Owned
<1>10. \A s \in Thread : InWindow(s)' => InWindow(s) /\ s # t /\ depth'[s] = depth[s]
  BY <1>2, <1>3 DEF InWindow, Arrays
<1>11. \A s \in Thread : InWindow(s)' => id[s] \in Id /\ id[s] # id[t]
  BY <1>1, <1>2, <1>4, <1>10 DEF Windows, Arrays
<1>12. Windows'
  BY <1>1, <1>3, <1>5, <1>10, <1>11 DEF Windows
<1>13. Calls'
  BY <1>1, <1>2, <1>3, <1>4 DEF Calls, Arrays
<1> QED BY <1>9, <1>12, <1>13 DEF OwnershipInv

LEMMA PushOwned ==
    ASSUME Typed, OwnershipInv, alive, ~overlap, NEW t \in Thread, Push(t)
    PROVE  OwnershipInv'
<1> DEFINE n == Len(freeList) + 1
<1>1. Owned /\ Windows /\ Calls /\ TypeOK
  BY DEF OwnershipInv, Typed
<1>2. Arrays /\ freeList \in Seq(Id) /\ id[t] \in Id
  BY <1>1 DEF TypeOK, Arrays
<1>3. /\ pc[t] = "push"
      /\ pc' = [pc EXCEPT ![t] = "release"]
      /\ freeList' = Append(freeList, id[t])
      /\ UNCHANGED <<requestChannel, id, depth, overlap>>
  BY DEF Push, At, GoTo
<1>4. depth[t] = 0
  BY <1>1, <1>3, NotCalling
<1>5. Holds(t, id[t]) /\ ~Free(id[t]) /\ ~Installed(id[t])
  BY <1>1, <1>2, <1>3 DEF Holds, Owned, OnceFree, AtOnePlace
<1>6. /\ n \notin DOMAIN freeList
      /\ DOMAIN freeList' = DOMAIN freeList \cup {n}
      /\ freeList'[n] = id[t]
      /\ \A k \in DOMAIN freeList : freeList'[k] = freeList[k]
  BY <1>2, <1>3, PushFacts
<1>7. \A k, l \in DOMAIN freeList : freeList[k] = freeList[l] => k = l
  BY <1>1 DEF Owned, OnceFree, AtOnePlace
<1> HIDE DEF n
<1>8. /\ \A k, l \in DOMAIN freeList' : freeList'[k] = freeList'[l] => k = l
      /\ \A i \in Id : Free(i)' <=> Free(i) \/ i = id[t]
  BY <1>5, <1>6, <1>7 DEF Free
<1>9. \A i \in Id : Installed(i)' = Installed(i)
  BY <1>3 DEF Installed
<1>10. ~Holding(t)' /\ \A s \in Thread : s # t => Holding(s)' = Holding(s)
  BY <1>2, <1>3, <1>4 DEF Holding, Arrays
<1>11. \A s \in Thread, i \in Id : Holds(s, i)' <=> Holds(s, i) /\ s # t
  BY <1>3, <1>10 DEF Holds, Holding
<1>12. Owned'
  <2>1. OnceFree'
    BY <1>8 DEF OnceFree
  <2>2. \A i \in Id : i = id[t] => AtOnePlace(i)'
    <3> SUFFICES ASSUME NEW i \in Id, i = id[t] PROVE AtOnePlace(i)'
      OBVIOUS
    <3>1. Free(i)' /\ ~Installed(i)'
      BY <1>5, <1>8, <1>9
    <3>2. \A s \in Thread : ~Holds(s, i)'
      <4>1. \A s \in Thread : Holds(s, i) => s = t
        BY <1>1, <1>5 DEF Owned, AtOnePlace
      <4> QED BY <4>1, <1>11
    <3> QED BY <3>1, <3>2 DEF AtOnePlace
  <2>3. \A i \in Id : i # id[t] => AtOnePlace(i)'
    <3> SUFFICES ASSUME NEW i \in Id, i # id[t] PROVE AtOnePlace(i)'
      OBVIOUS
    <3>1. AtOnePlace(i) /\ ~Holds(t, i)
      BY <1>1 DEF Owned, Holds
    <3>2. (Free(i)' <=> Free(i)) /\ (Installed(i)' <=> Installed(i))
      BY <1>8, <1>9
    <3>3. \A s \in Thread : Holds(s, i)' <=> Holds(s, i)
      BY <1>11, <3>1
    <3> QED BY <3>1, <3>2, <3>3 DEF AtOnePlace
  <2>4. \A i \in Id : AtOnePlace(i)'
    BY <2>2, <2>3
  <2> QED BY <2>1, <2>4 DEF Owned
<1>13. \A s \in Thread : InWindow(s)' => InWindow(s)
  BY <1>2, <1>3 DEF InWindow, Arrays
<1>14. Windows'
  BY <1>1, <1>2, <1>3, <1>13 DEF Windows, Installed
<1>15. Calls'
  BY <1>1, <1>2, <1>3, <1>4 DEF Calls, Arrays
<1> QED BY <1>12, <1>14, <1>15 DEF OwnershipInv

-----------------------------------------------------------------------------
(* All steps.                                                              *)

LEMMA CreateOwned ==
    ASSUME Typed, OwnershipInv, alive, ~overlap, NEW u \in User, Create(u)
    PROVE  OwnershipInv'
<1> USE DEF Typed, TypeOK, GoTo, Thread
<1>1. CASE SendRequest(u)
  <2>1. Moves(u)
    BY <1>1 DEF Moves, InWindow, SendRequest, manager
  <2> QED BY <2>1, MovesCalm, CalmOwned
<1>2. CASE Deref(u)
  <2>1. CASE conn = "closed"
    BY <1>2, <2>1, CalmOwned DEF Deref, Fail, Calm, Holding, InWindow, OwnershipInv, Calls,
                               manager, threads
  <2>2. CASE conn # "closed"
    <3>1. Moves(u)
      BY <1>2, <2>2 DEF Moves, InWindow, Deref, manager
    <3> QED BY <3>1, MovesCalm, CalmOwned
  <2> QED BY <2>1, <2>2
<1>3. CASE Acquire(u)
  <2>1. Moves(u)
    BY <1>3 DEF Moves, InWindow, Acquire, At
  <2> QED BY <2>1, MovesCalm, CalmOwned
<1>4. CASE Pop(u)
  BY <1>4, PopOwned
<1>5. CASE Install(u)
  BY <1>5, InstallOwned
<1>6. CASE Fetch(u)
  <2>1. Moves(u)
    BY <1>6 DEF Moves, InWindow, Fetch, At, manager
  <2> QED BY <2>1, MovesCalm, CalmOwned
<1> QED BY <1>1, <1>2, <1>3, <1>4, <1>5, <1>6 DEF Create

LEMMA UseOwned ==
    ASSUME Typed, OwnershipInv, alive, ~overlap, NEW u \in User, Use(u)
    PROVE  OwnershipInv'
<1> USE DEF Typed, TypeOK, GoTo, Thread
<1>1. CASE UseNull(u)
  BY <1>1, CalmOwned DEF Calm, Holding, InWindow, OwnershipInv, Calls, UseNull, Fail, manager, threads
<1>2. CASE Write(u)
  <2>1. Moves(u)
    BY <1>2 DEF Moves, InWindow, Write, manager, threads
  <2> QED BY <2>1, MovesCalm, CalmOwned
<1>3. CASE Send(u)
  <2>1. Moves(u)
    BY <1>3 DEF Moves, InWindow, Send, manager, threads
  <2> QED BY <2>1, MovesCalm, CalmOwned
<1>4. CASE BeginRead(u)
  <2>1. Moves(u)
    BY <1>4 DEF Moves, InWindow, BeginRead, manager, threads
  <2> QED BY <2>1, MovesCalm, CalmOwned
<1>5. CASE Read(u)
  <2>1. Moves(u)
    BY <1>5 DEF Moves, InWindow, Read, manager, threads
  <2> QED BY <2>1, MovesCalm, CalmOwned
<1>6. CASE Terminate(u)
  <2>1. Moves(u)
    BY <1>6 DEF Moves, InWindow, Terminate, manager, threads
  <2> QED BY <2>1, MovesCalm, CalmOwned
<1>7. CASE ReadTimesOut(u)
  <2>1. Moves(u)
    BY <1>7 DEF Moves, InWindow, ReadTimesOut, manager, threads
  <2> QED BY <2>1, MovesCalm, CalmOwned
<1> QED BY <1>1, <1>2, <1>3, <1>4, <1>5, <1>6, <1>7 DEF Use

LEMMA CloseOwned ==
    ASSUME Typed, OwnershipInv, alive, ~overlap, NEW t \in Thread, Close(t)
    PROVE  OwnershipInv'
<1> USE DEF Typed, TypeOK, GoTo, Thread
<1>1. CASE CloseCheck(t)
  <2>1. CASE Fail("null")
    BY <2>1, CalmOwned DEF Fail, Calm, Holding, InWindow, OwnershipInv, Calls, manager, threads
  <2>2. CASE Finish(t) /\ UNCHANGED <<freeList, requestChannel, alive, overlap>>
    BY <1>1, <2>2, FinishCalm, CalmOwned DEF CloseCheck
  <2>3. CASE GoTo(t, "end") /\ UNCHANGED <<manager, id, depth, overlap>>
    <3>1. Moves(t)
      BY <1>1, <2>3 DEF CloseCheck, Moves, InWindow, manager
    <3> QED BY <3>1, MovesCalm, CalmOwned
  <2> QED BY <1>1, <2>1, <2>2, <2>3 DEF CloseCheck, manager
<1>2. CASE SendEnd(t)
  <2>1. Moves(t)
    BY <1>2 DEF Moves, InWindow, SendEnd, manager
  <2> QED BY <2>1, MovesCalm, CalmOwned
<1>3. CASE MarkClosed(t)
  <2>1. Moves(t)
    BY <1>3 DEF Moves, InWindow, MarkClosed, manager
  <2> QED BY <2>1, MovesCalm, CalmOwned
<1> QED BY <1>1, <1>2, <1>3 DEF Close

LEMMA RemoveOwned ==
    ASSUME Typed, OwnershipInv, alive, ~overlap, NEW t \in Thread, Remove(t)
    PROVE  OwnershipInv'
<1> USE DEF Typed, TypeOK, GoTo, Thread
<1>1. CASE RemoveCheck(t)
  <2>1. CASE Finish(t) /\ UNCHANGED <<freeList, requestChannel, alive, overlap>>
    BY <1>1, <2>1, FinishCalm, CalmOwned DEF RemoveCheck, At
  <2>2. CASE /\ Installed(id[t])
             /\ GoTo(t, "load")
             /\ overlap' = (overlap \/ \E s \in Thread \ {t} : InWindow(s) /\ id[s] = id[t])
             /\ UNCHANGED <<manager, id, depth>>
    BY <1>1, <2>2, EnterWindow DEF RemoveCheck, At
  <2> QED BY <1>1, <2>1, <2>2 DEF RemoveCheck, Installed, manager
<1>2. CASE RemoveLoad(t)
  <2>1. /\ pc[t] = "load" /\ depth[t] = 0
        /\ pc' = [pc EXCEPT ![t] = "store"]
        /\ UNCHANGED <<freeList, requestChannel, alive, id, depth, overlap>>
    BY <1>2 DEF RemoveLoad, At, OwnershipInv, Windows, InWindow, manager
  <2>2. Calm
    BY <2>1 DEF Calm, Holding, InWindow, OwnershipInv, Calls
  <2> QED BY <2>2, CalmOwned
<1>3. CASE RemoveStore(t)
  BY <1>3, StoreOwned
<1>4. CASE Push(t)
  BY <1>4, PushOwned
<1>5. CASE Release(t)
  BY <1>5, FinishCalm, CalmOwned DEF Release, At
<1> QED BY <1>1, <1>2, <1>3, <1>4, <1>5 DEF Remove

LEMMA ForwardOwned ==
    ASSUME Typed, OwnershipInv, alive, ~overlap, Forward
    PROVE  OwnershipInv'
<1> USE DEF Typed, TypeOK, GoTo, Thread
<1>1. CASE ReceiveEnd
  <2>1. Moves(Reader)
    BY <1>1 DEF Moves, InWindow, ReceiveEnd, manager
  <2> QED BY <2>1, MovesCalm, CalmOwned
<1>2. CASE ReceiveResponse
  <2>1. Moves(Reader)
    BY <1>2 DEF Moves, InWindow, ReceiveResponse, manager
  <2> QED BY <2>1, MovesCalm, CalmOwned
<1>3. CASE Deliver
  <2>1. CASE Fail("null")
    BY <2>1, CalmOwned DEF Fail, Calm, Holding, InWindow, OwnershipInv, Calls, manager, threads
  <2>2. CASE ~Fail("null")
    <3>1. Moves(Reader)
      BY <1>3, <2>2 DEF Moves, InWindow, Deliver, manager
    <3> QED BY <3>1, MovesCalm, CalmOwned
  <2> QED BY <2>1, <2>2
<1>4. CASE Enqueue
  <2>1. CASE Fail("freed")
    BY <2>1, CalmOwned DEF Fail, Calm, Holding, InWindow, OwnershipInv, Calls, manager, threads
  <2>2. CASE ~Fail("freed")
    <3>1. Moves(Reader)
      BY <1>4, <2>2 DEF Moves, InWindow, Enqueue, manager
    <3> QED BY <3>1, MovesCalm, CalmOwned
  <2> QED BY <2>1, <2>2
<1>5. CASE HangUp
  <2>1. Moves(Reader)
    BY <1>5 DEF Moves, InWindow, HangUp, manager
  <2> QED BY <2>1, MovesCalm, CalmOwned
<1> QED BY <1>1, <1>2, <1>3, <1>4, <1>5 DEF Forward

LEMMA InitOwned == Init => OwnershipInv
<1> SUFFICES ASSUME Init
             PROVE  Owned /\ Windows /\ Calls
  BY DEF OwnershipInv
<1>1. \A i \in Id : Free(i)
  <2> TAKE i \in Id
  <2>1. i + 1 \in DOMAIN AllIds /\ AllIds[i + 1] = i
    BY ConstantsOK DEF ConstantsOK, Id, AllIds
  <2>2. freeList = AllIds
    BY DEF Init
  <2> QED BY <2>1, <2>2 DEF Free
<1>2. \A t \in Thread : ~Holding(t) /\ ~InWindow(t) /\ depth[t] = 0
  BY DEF Init, Holding, InWindow
<1>3. Owned
  <2>1. OnceFree
    BY ConstantsOK DEF ConstantsOK, Init, OnceFree, AllIds
  <2>2. \A i \in Id : ~Installed(i)
    BY DEF Init, Installed
  <2>3. \A t \in Thread, i \in Id : ~Holds(t, i)
    BY <1>2 DEF Holds, Holding
  <2> QED BY <1>1, <2>1, <2>2, <2>3 DEF Owned, AtOnePlace
<1> QED BY <1>2, <1>3 DEF Windows, Calls

LEMMA PeerOwned ==
    ASSUME Typed, OwnershipInv, alive, ~overlap, Peer
    PROVE  OwnershipInv'
<1>1. UNCHANGED <<manager, threads, overlap>>
  BY DEF Peer, PeerReads, PeerSends, PeerHangsUp
<1>2. Calm
  BY <1>1 DEF Calm, Holding, InWindow, OwnershipInv, Calls, manager, threads
<1> QED BY <1>2, CalmOwned

\* The history variable overlap is never reset.
LEMMA OverlapStays ==
    ASSUME Typed, overlap, [Next]_vars
    PROVE  overlap'
<1>1. overlap \in BOOLEAN
  BY DEF Typed, TypeOK
<1>2. ASSUME NEW t \in Thread, Close(t) \/ Remove(t)
      PROVE  overlap'
  <2>1. CASE Close(t)
    BY <2>1 DEF Close, CloseCheck, SendEnd, MarkClosed, Fail
  <2>2. CASE Remove(t)
    BY <2>2, <1>1 DEF Remove, RemoveCheck, RemoveLoad, RemoveStore, Push, Release
  <2> QED BY <1>2, <2>1, <2>2
<1>3. ASSUME NEW u \in User, UserStep(u)
      PROVE  overlap'
  <2>1. CASE Create(u)
    BY <2>1 DEF Create, SendRequest, Deref, Acquire, Pop, Install, Fetch, Fail
  <2>2. CASE Use(u)
    BY <2>2 DEF Use, UseNull, Write, Send, BeginRead, Read, ReadTimesOut, Terminate, Fail
  <2>3. CASE UseFreed(u)
    BY <2>3 DEF UseFreed, Fail
  <2> QED BY <1>2, <1>3, <2>1, <2>2, <2>3 DEF UserStep, Thread
<1>4. CASE ReaderStep
  <2>1. CASE Forward
    BY <2>1 DEF Forward, ReceiveEnd, ReceiveResponse, Deliver, Enqueue, HangUp, Fail
  <2>2. CASE Destroy
    BY <2>2 DEF Destroy
  <2> QED BY <1>2, <1>4, <2>1, <2>2 DEF ReaderStep, Thread
<1>5. CASE Peer
  BY <1>5 DEF Peer, PeerReads, PeerSends, PeerHangsUp
<1>6. CASE UNCHANGED vars
  BY <1>6 DEF vars
<1> QED BY <1>3, <1>4, <1>5, <1>6 DEF Next

\* The manager is destroyed once, and without it no channel is constructed.
LEMMA ManagerLasts ==
    ASSUME Typed, [Next]_vars
    PROVE  /\ alive' = alive \/ Destroy
           /\ chanId' = chanId \/ (alive /\ alive')
<1>1. ASSUME NEW t \in Thread, Close(t) \/ Remove(t)
      PROVE  UNCHANGED <<alive, chanId>>
  <2>1. CASE Close(t)
    BY <2>1 DEF Close, CloseCheck, SendEnd, MarkClosed, Fail, manager, objects
  <2>2. CASE Remove(t)
    BY <2>2 DEF Remove, RemoveCheck, RemoveLoad, RemoveStore, Push, Release, manager, objects
  <2> QED BY <1>1, <2>1, <2>2
<1>2. ASSUME NEW u \in User, UserStep(u)
      PROVE  alive' = alive /\ (chanId' = chanId \/ alive)
  <2>1. CASE Install(u)
    BY <2>1 DEF Install, At, CreateLabels
  <2>2. CASE SendRequest(u) \/ Deref(u) \/ Acquire(u) \/ Pop(u) \/ Fetch(u)
    BY <2>2 DEF SendRequest, Deref, Acquire, Pop, Fetch, Fail, manager, objects
  <2>3. CASE Use(u) \/ UseFreed(u)
    BY <2>3 DEF Use, UseNull, Write, Send, BeginRead, Read, ReadTimesOut, Terminate,
                UseFreed, Fail, manager, objects
  <2> QED BY <1>1, <1>2, <2>1, <2>2, <2>3 DEF UserStep, Create, Thread
<1>3. CASE ReaderStep /\ ~Destroy
  <2>1. CASE Forward
    BY <2>1 DEF Forward, ReceiveEnd, ReceiveResponse, Deliver, Enqueue, HangUp, Fail,
                manager, objects
  <2> QED BY <1>1, <1>3, <2>1 DEF ReaderStep, Thread
<1>4. CASE Destroy
  BY <1>4 DEF Destroy
<1>5. CASE Peer
  BY <1>5 DEF Peer, PeerReads, PeerSends, PeerHangsUp, manager, objects
<1>6. CASE UNCHANGED vars
  BY <1>6 DEF vars, manager, objects
<1> QED BY <1>2, <1>3, <1>4, <1>5, <1>6 DEF Next

LEMMA NextOwned == Typed /\ OwnershipInv /\ [Next]_vars => OwnershipInv'
<1> SUFFICES ASSUME Typed, OwnershipInv, [Next]_vars
             PROVE  OwnershipInv'
  OBVIOUS
<1>1. CASE overlap
  BY <1>1, OverlapStays DEF OwnershipInv
<1>3. CASE ~alive'
  BY <1>3 DEF OwnershipInv
<1>2. CASE alive' /\ ~overlap
  <2>0. alive /\ ~Destroy
    BY <1>2, ManagerLasts DEF Destroy
  <2>1. ASSUME NEW u \in User, UserStep(u)
        PROVE  OwnershipInv'
    <3>1. u \in Thread
      BY DEF Thread
    <3>2. CASE UseFreed(u)
      <4>1. UNCHANGED <<manager, threads, overlap>>
        BY <3>2 DEF UseFreed, Fail
      <4>2. Calm
        BY <1>2, <2>0, <4>1 DEF Calm, Holding, InWindow, OwnershipInv, Calls, manager, threads
      <4> QED BY <4>2, CalmOwned
    <3> QED BY <1>2, <2>0, <2>1, <3>1, <3>2, CreateOwned, UseOwned, CloseOwned, RemoveOwned
            DEF UserStep
  <2>2. CASE ReaderStep
    <3>1. Reader \in Thread
      BY DEF Thread
    <3> QED BY <1>2, <2>0, <2>2, <3>1, ForwardOwned, CloseOwned, RemoveOwned DEF ReaderStep
  <2>3. CASE Peer
    BY <1>2, <2>0, <2>3, PeerOwned
  <2>4. CASE UNCHANGED vars
    <3>1. Calm
      BY <1>2, <2>0, <2>4 DEF Calm, Holding, InWindow, OwnershipInv, Calls, vars, manager, threads
    <3> QED BY <3>1, CalmOwned
  <2> QED BY <2>1, <2>2, <2>3, <2>4 DEF Next
<1> QED BY <1>1, <1>2, <1>3

\* As long as the manager exists, and until two removals of one id overlap, every
\* id is at exactly one place: on the stack of free ids once, in the table of
\* channels, or with one thread that creates or removes its channel.  So createRequestChannel never hands
\* out an id whose previous channel is still in use, and none is ever lost.
THEOREM IdsHaveOneOwner == Spec => []IdHasOneOwner
<1>1. OwnershipInv => IdHasOneOwner
  BY DEF OwnershipInv, Owned, OnceFree, AtOnePlace, IdHasOneOwner
<1>2. Typed /\ OwnershipInv /\ [Next]_vars => (Typed /\ OwnershipInv)'
  BY NextTyped, NextOwned
<1>3. Init => Typed /\ OwnershipInv
  BY InitTyped, InitOwned
<1> QED BY <1>1, <1>2, <1>3, PTL DEF Spec

-----------------------------------------------------------------------------
(***************************************************************************)
(* A channel leaves the table only with the thread that is going to close  *)
(* it.  What this thread has read from the table must still be there when  *)
(* it clears the slot.                                                     *)
(***************************************************************************)
Closing(t, c) == ch[t] = c /\ depth[t] > 0 /\ pc[t] \in {"close", "end", "mark"}

NoOrphans ==
    \A c \in Channel : chanId[c] # None /\ ~isClosed[c] =>
        requestChannel[chanId[c]] = c \/ \E t \in Thread : Closing(t, c)

Loaded == \A t \in Thread : pc[t] = "store" => ch[t] = requestChannel[id[t]]

ReachInv == alive /\ ~overlap => NoOrphans /\ Loaded

\* A step that neither constructs a channel nor takes one from the table.
Steady ==
    /\ UNCHANGED <<requestChannel, alive, chanId>>
    /\ \A c \in Channel : isClosed[c] => isClosed'[c]
    /\ \A t \in Thread, c \in Channel : Closing(t, c) => Closing(t, c)' \/ isClosed'[c]
    /\ \A t \in Thread : pc'[t] = "store" =>
          \/ ch'[t] = requestChannel[id'[t]]
          \/ pc[t] = "store" /\ ch'[t] = ch[t] /\ id'[t] = id[t]

\* Such steps keep the invariant.
LEMMA SteadyReach ==
    ASSUME Typed, ReachInv, alive, ~overlap, Steady
    PROVE  ReachInv'
<1>1. NoOrphans /\ Loaded
  BY DEF ReachInv
<1>2. Loaded'
  BY <1>1 DEF Loaded, Steady
<1>3. NoOrphans'
  <2> SUFFICES ASSUME NEW c \in Channel, chanId'[c] # None, ~isClosed'[c]
               PROVE  requestChannel'[chanId'[c]] = c \/ \E t \in Thread : Closing(t, c)'
    BY DEF NoOrphans
  <2>1. chanId[c] # None /\ ~isClosed[c]
    BY DEF Steady
  <2>2. requestChannel[chanId[c]] = c \/ \E t \in Thread : Closing(t, c)
    BY <1>1, <2>1 DEF NoOrphans
  <2> QED BY <2>2 DEF Steady
<1> QED BY <1>2, <1>3 DEF ReachInv

\* A step of thread t outside close(), or inside one that goes on.
Ordinary(t) ==
    /\ UNCHANGED <<requestChannel, alive, chanId, isClosed>>
    /\ \A s \in Thread : s # t =>
          pc'[s] = pc[s] /\ ch'[s] = ch[s] /\ id'[s] = id[s] /\ depth'[s] = depth[s]
    /\ \/ pc[t] \notin {"close", "end", "mark"}
       \/ ch'[t] = ch[t] /\ depth'[t] = depth[t] /\ pc'[t] \in {"close", "end", "mark"}
    /\ pc'[t] # "store"

\* Ordinary steps keep the invariant.
LEMMA OrdinaryReach ==
    ASSUME Typed, ReachInv, alive, ~overlap, NEW t \in Thread, Ordinary(t)
    PROVE  ReachInv'
<1>1. Steady
  BY DEF Ordinary, Steady, Closing, Typed, TypeOK
<1> QED BY <1>1, SteadyReach

\* A step that changes nothing of this.
LEMMA IdleReach ==
    ASSUME Typed, ReachInv, alive, ~overlap,
           UNCHANGED <<requestChannel, alive, chanId, isClosed, pc, ch, id, depth>>
    PROVE  ReachInv'
<1>1. Steady
  BY DEF Steady, Closing, Typed, TypeOK
<1> QED BY <1>1, SteadyReach

\* A call returns from the check of removeRequestChannel, from its end, or from
\* the test in close() that has found the channel closed.
LEMMA FinishReach ==
    ASSUME Typed, ReachInv, alive, ~overlap, NEW t \in Thread, Finish(t),
           \/ pc[t] \in {"check", "release"}
           \/ pc[t] = "close" /\ ch[t] # None /\ isClosed[ch[t]],
           UNCHANGED <<requestChannel, alive, chanId, isClosed>>
    PROVE  ReachInv'
<1>1. /\ \E l \in Labels \ {"store"} : pc' = [pc EXCEPT ![t] = l]
      /\ \A s \in Thread : s # t => ch'[s] = ch[s] /\ id'[s] = id[s] /\ depth'[s] = depth[s]
  BY DEF Finish, GoTo, Typed, TypeOK, Labels, RemoveLabels, CreateLabels
<1>2. pc'[t] # "store" /\ \A s \in Thread : s # t => pc'[s] = pc[s]
  BY <1>1 DEF Typed, TypeOK
<1>3. Steady
  BY <1>1, <1>2 DEF Steady, Closing
<1> QED BY <1>3, SteadyReach

\* The slot of a new channel is empty.
LEMMA InstallReach ==
    ASSUME Typed, OwnershipInv, ReachInv, alive, ~overlap, NEW u \in User, Install(u)
    PROVE  ReachInv'
<1>1. Owned /\ Windows /\ NoOrphans /\ Loaded /\ TypeOK /\ u \in Thread
  BY DEF OwnershipInv, ReachInv, Typed, Thread
<1>2. PICK c \in Channel : /\ chanId[c] = None
                           /\ chanId' = [chanId EXCEPT ![c] = id[u]]
                           /\ requestChannel' = [requestChannel EXCEPT ![id[u]] = c]
  BY DEF Install, Fresh
<1>3. /\ pc[u] = "install" /\ id[u] \in Id
      /\ pc' = [pc EXCEPT ![u] = "fetch"]
      /\ UNCHANGED <<isClosed, ch, id, depth>>
  BY <1>1 DEF Install, At, GoTo, TypeOK
<1>4. requestChannel[id[u]] = None
  <2>1. Holds(u, id[u])
    BY <1>3 DEF Holds
  <2> QED BY <1>1, <1>3, <2>1 DEF Owned, AtOnePlace, Installed
<1>5. \A s \in Thread, d \in Channel : Closing(s, d) => Closing(s, d)'
  BY <1>1, <1>3 DEF Closing, TypeOK
<1>6. NoOrphans'
  <2> SUFFICES ASSUME NEW d \in Channel, chanId'[d] # None, ~isClosed'[d]
               PROVE  requestChannel'[chanId'[d]] = d \/ \E t \in Thread : Closing(t, d)'
    BY DEF NoOrphans
  <2>1. CASE d = c
    BY <1>1, <1>2, <1>3, <2>1 DEF TypeOK
  <2>2. CASE d # c
    <3>1. chanId'[d] = chanId[d] /\ ~isClosed[d]
      BY <1>1, <1>2, <1>3, <2>2 DEF TypeOK
    <3>2. requestChannel[chanId[d]] = d \/ \E t \in Thread : Closing(t, d)
      BY <1>1, <3>1 DEF NoOrphans
    <3>3. requestChannel[chanId[d]] = d => chanId[d] # id[u]
      BY <1>4, ConstantsOK
    <3>4. chanId[d] \in Id
      BY <1>1, <3>1 DEF TypeOK
    <3> QED BY <1>1, <1>2, <1>5, <3>1, <3>2, <3>3, <3>4 DEF TypeOK
  <2> QED BY <2>1, <2>2
<1>7. Loaded'
  <2> SUFFICES ASSUME NEW t \in Thread, pc'[t] = "store" PROVE ch'[t] = requestChannel'[id'[t]]
    BY DEF Loaded
  <2>1. pc[t] = "store" /\ ch[t] = requestChannel[id[t]] /\ id[t] \in Id
    BY <1>1, <1>3 DEF Loaded, TypeOK
  <2>2. requestChannel[id[t]] # None
    BY <1>1, <2>1 DEF Windows, InWindow, Installed
  <2>3. id[t] # id[u]
    BY <1>4, <2>2
  <2> QED BY <1>1, <1>2, <1>3, <2>1, <2>3 DEF TypeOK
<1> QED BY <1>6, <1>7 DEF ReachInv

\* The thread that clears a slot closes the channel that was there.
LEMMA StoreReach ==
    ASSUME Typed, OwnershipInv, ReachInv, alive, ~overlap, NEW t \in Thread, RemoveStore(t)
    PROVE  ReachInv'
<1>1. Owned /\ Windows /\ NoOrphans /\ Loaded /\ TypeOK
  BY DEF OwnershipInv, ReachInv, Typed
<1>2. /\ pc[t] = "store" /\ id[t] \in Id
      /\ pc' = [pc EXCEPT ![t] = "close"]
      /\ depth' = [depth EXCEPT ![t] = depth[t] + 1]
      /\ requestChannel' = [requestChannel EXCEPT ![id[t]] = None]
      /\ UNCHANGED <<chanId, isClosed, ch, id>>
  BY <1>1 DEF RemoveStore, At, GoTo, objects, TypeOK
<1>3. ch[t] = requestChannel[id[t]] /\ depth[t] = 0
  BY <1>1, <1>2 DEF Loaded, Windows, InWindow
<1>4. \A s \in Thread, d \in Channel : Closing(s, d) => Closing(s, d)'
  BY <1>1, <1>2 DEF Closing, TypeOK
<1>5. \A d \in Channel : ch[t] = d => Closing(t, d)'
  BY <1>1, <1>2, <1>3 DEF Closing, TypeOK
<1>6. NoOrphans'
  <2> SUFFICES ASSUME NEW d \in Channel, chanId'[d] # None, ~isClosed'[d]
               PROVE  requestChannel'[chanId'[d]] = d \/ \E s \in Thread : Closing(s, d)'
    BY DEF NoOrphans
  <2>1. requestChannel[chanId[d]] = d \/ \E s \in Thread : Closing(s, d)
    BY <1>1, <1>2 DEF NoOrphans
  <2>2. CASE requestChannel[chanId[d]] = d /\ chanId[d] = id[t]
    BY <1>3, <1>5, <2>2
  <2>3. CASE requestChannel[chanId[d]] = d /\ chanId[d] # id[t]
    <3>1. chanId[d] \in Id
      BY <1>1, <1>2 DEF TypeOK
    <3> QED BY <1>1, <1>2, <2>3, <3>1 DEF TypeOK
  <2> QED BY <1>4, <2>1, <2>2, <2>3
<1>7. Loaded'
  <2> SUFFICES ASSUME NEW s \in Thread, pc'[s] = "store" PROVE ch'[s] = requestChannel'[id'[s]]
    BY DEF Loaded
  <2>1. s # t /\ pc[s] = "store" /\ id[s] \in Id
    BY <1>1, <1>2 DEF TypeOK
  <2>2. id[s] # id[t]
    BY <1>1, <1>2, <2>1 DEF Windows, InWindow
  <2> QED BY <1>1, <1>2, <2>1, <2>2 DEF TypeOK, Loaded
<1> QED BY <1>6, <1>7 DEF ReachInv

-----------------------------------------------------------------------------
(* All steps.                                                              *)

\* Opening a request keeps the invariant.
LEMMA CreateReach ==
    ASSUME Typed, OwnershipInv, ReachInv, alive, ~overlap, NEW u \in User, Create(u)
    PROVE  ReachInv'
<1> USE DEF Typed, TypeOK, GoTo, Thread
<1>1. CASE SendRequest(u)
  <2>1. Ordinary(u)
    BY <1>1 DEF Ordinary, SendRequest, manager, objects
  <2> QED BY <2>1, OrdinaryReach
<1>2. CASE Deref(u)
  <2>1. CASE conn = "closed"
    BY <1>2, <2>1, IdleReach DEF Deref, Fail, manager, objects, threads
  <2>2. CASE conn # "closed"
    <3>1. Ordinary(u)
      BY <1>2, <2>2 DEF Ordinary, Deref, manager, objects
    <3> QED BY <3>1, OrdinaryReach
  <2> QED BY <2>1, <2>2
<1>3. CASE Acquire(u)
  <2>1. Ordinary(u)
    BY <1>3 DEF Ordinary, Acquire, At, objects
  <2> QED BY <2>1, OrdinaryReach
<1>4. CASE Pop(u)
  <2>1. Ordinary(u)
    BY <1>4 DEF Ordinary, Pop, At, objects
  <2> QED BY <2>1, OrdinaryReach
<1>5. CASE Install(u)
  BY <1>5, InstallReach
<1>6. CASE Fetch(u)
  <2>1. Ordinary(u)
    BY <1>6 DEF Ordinary, Fetch, At, manager, objects
  <2> QED BY <2>1, OrdinaryReach
<1> QED BY <1>1, <1>2, <1>3, <1>4, <1>5, <1>6 DEF Create

\* Using a request keeps the invariant.
LEMMA UseReach ==
    ASSUME Typed, ReachInv, alive, ~overlap, NEW u \in User, Use(u)
    PROVE  ReachInv'
<1> USE DEF Typed, TypeOK, GoTo, Thread
<1>1. CASE UseNull(u)
  BY <1>1, IdleReach DEF UseNull, Fail, manager, objects, threads
<1>2. CASE Write(u)
  <2>1. Ordinary(u)
    BY <1>2 DEF Ordinary, Write, manager, objects
  <2> QED BY <2>1, OrdinaryReach
<1>3. CASE Send(u)
  <2>1. Ordinary(u)
    BY <1>3 DEF Ordinary, Send, manager, objects
  <2> QED BY <2>1, OrdinaryReach
<1>4. CASE BeginRead(u)
  <2>1. Ordinary(u)
    BY <1>4 DEF Ordinary, BeginRead, manager, objects
  <2> QED BY <2>1, OrdinaryReach
<1>5. CASE Read(u)
  <2>1. Ordinary(u)
    BY <1>5 DEF Ordinary, Read, manager, objects
  <2> QED BY <2>1, OrdinaryReach
<1>6. CASE Terminate(u)
  <2>1. Ordinary(u)
    BY <1>6 DEF Ordinary, Terminate, manager, objects
  <2> QED BY <2>1, OrdinaryReach
<1>7. CASE ReadTimesOut(u)
  <2>1. Ordinary(u)
    BY <1>7 DEF Ordinary, ReadTimesOut, manager, objects
  <2> QED BY <2>1, OrdinaryReach
<1> QED BY <1>1, <1>2, <1>3, <1>4, <1>5, <1>6, <1>7 DEF Use

\* close() keeps the invariant: the channel it was closing is then closed.
LEMMA CloseReach ==
    ASSUME Typed, ReachInv, alive, ~overlap, NEW t \in Thread, Close(t)
    PROVE  ReachInv'
<1>1. CASE CloseCheck(t)
  <2>1. CASE Fail("null")
    BY <2>1, IdleReach DEF Fail, manager, objects, threads
  <2>2. CASE ch[t] # None /\ isClosed[ch[t]] /\ ~Fail("null")
    <3>1. /\ pc[t] = "close" /\ Finish(t)
          /\ UNCHANGED <<requestChannel, alive, chanId, isClosed>>
      BY <1>1, <2>2 DEF CloseCheck, manager, objects
    <3> QED BY <2>2, <3>1, FinishReach
  <2>3. CASE ch[t] # None /\ ~isClosed[ch[t]] /\ ~Fail("null")
    <3>1. Ordinary(t)
      BY <1>1, <2>3 DEF Ordinary, CloseCheck, GoTo, manager, Typed, TypeOK
    <3> QED BY <3>1, OrdinaryReach
  <2> QED BY <1>1, <2>1, <2>2, <2>3 DEF CloseCheck
<1>2. CASE SendEnd(t)
  <2>1. Ordinary(t)
    BY <1>2 DEF Ordinary, SendEnd, GoTo, manager, objects, Typed, TypeOK
  <2> QED BY <2>1, OrdinaryReach
<1>3. CASE MarkClosed(t)
  <2>1. /\ pc' = [pc EXCEPT ![t] = "check"]
        /\ isClosed' = [isClosed EXCEPT ![ch[t]] = TRUE]
        /\ UNCHANGED <<requestChannel, alive, chanId, ch, id, depth>>
    BY <1>3 DEF MarkClosed, GoTo, manager
  <2>2. \A c \in Channel : isClosed'[c] <=> isClosed[c] \/ c = ch[t]
    BY <2>1 DEF Typed, TypeOK
  <2>3. Steady
    BY <2>1, <2>2 DEF Steady, Closing, Typed, TypeOK
  <2> QED BY <2>3, SteadyReach
<1> QED BY <1>1, <1>2, <1>3 DEF Close

\* removeRequestChannel keeps the invariant.
LEMMA RemoveReach ==
    ASSUME Typed, OwnershipInv, ReachInv, alive, ~overlap, NEW t \in Thread, Remove(t)
    PROVE  ReachInv'
<1>1. CASE RemoveCheck(t)
  <2>1. CASE requestChannel[id[t]] = None
    <3>1. /\ pc[t] = "check" /\ Finish(t)
          /\ UNCHANGED <<requestChannel, alive, chanId, isClosed>>
      BY <1>1, <2>1 DEF RemoveCheck, At, manager, objects
    <3> QED BY <3>1, FinishReach
  <2>2. CASE requestChannel[id[t]] # None
    <3>1. Ordinary(t)
      BY <1>1, <2>2 DEF Ordinary, RemoveCheck, At, GoTo, manager, objects, Typed, TypeOK
    <3> QED BY <3>1, OrdinaryReach
  <2> QED BY <2>1, <2>2
<1>2. CASE RemoveLoad(t)
  <2>1. /\ pc[t] = "load" /\ pc' = [pc EXCEPT ![t] = "store"]
        /\ ch' = [ch EXCEPT ![t] = requestChannel[id[t]]]
        /\ UNCHANGED <<requestChannel, alive, chanId, isClosed, id, depth>>
    BY <1>2 DEF RemoveLoad, At, GoTo, manager, objects
  <2>2. Steady
    BY <2>1 DEF Steady, Closing, Typed, TypeOK
  <2> QED BY <2>2, SteadyReach
<1>3. CASE RemoveStore(t)
  BY <1>3, StoreReach
<1>4. CASE Push(t)
  <2>1. Ordinary(t)
    BY <1>4 DEF Ordinary, Push, At, GoTo, objects, Typed, TypeOK
  <2> QED BY <2>1, OrdinaryReach
<1>5. CASE Release(t)
  <2>1. /\ pc[t] = "release" /\ Finish(t)
        /\ UNCHANGED <<requestChannel, alive, chanId, isClosed>>
    BY <1>5 DEF Release, At, objects
  <2> QED BY <2>1, FinishReach
<1> QED BY <1>1, <1>2, <1>3, <1>4, <1>5 DEF Remove

\* Demultiplexing keeps the invariant.
LEMMA ForwardReach ==
    ASSUME Typed, ReachInv, alive, ~overlap, Forward
    PROVE  ReachInv'
<1> USE DEF Typed, TypeOK, GoTo, Thread
<1>1. CASE ReceiveEnd
  <2>1. Ordinary(Reader)
    BY <1>1 DEF Ordinary, ReceiveEnd, manager, objects
  <2> QED BY <2>1, OrdinaryReach
<1>2. CASE ReceiveResponse
  <2>1. Ordinary(Reader)
    BY <1>2 DEF Ordinary, ReceiveResponse, manager, objects
  <2> QED BY <2>1, OrdinaryReach
<1>3. CASE Deliver
  <2>1. CASE Fail("null")
    BY <2>1, IdleReach DEF Fail, manager, objects, threads
  <2>2. CASE ~Fail("null")
    <3>1. Ordinary(Reader)
      BY <1>3, <2>2 DEF Ordinary, Deliver, manager, objects
    <3> QED BY <3>1, OrdinaryReach
  <2> QED BY <2>1, <2>2
<1>4. CASE Enqueue
  <2>1. CASE Fail("freed")
    BY <2>1, IdleReach DEF Fail, manager, objects, threads
  <2>2. CASE ~Fail("freed")
    <3>1. Ordinary(Reader)
      BY <1>4, <2>2 DEF Ordinary, Enqueue, manager, objects
    <3> QED BY <3>1, OrdinaryReach
  <2> QED BY <2>1, <2>2
<1>5. CASE HangUp
  <2>1. Ordinary(Reader)
    BY <1>5 DEF Ordinary, HangUp, manager, objects
  <2> QED BY <2>1, OrdinaryReach
<1> QED BY <1>1, <1>2, <1>3, <1>4, <1>5 DEF Forward

\* At first no channel has been constructed.
LEMMA InitReach == Init => ReachInv
BY DEF Init, ReachInv, NoOrphans, Loaded

\* Every step keeps the invariant.
LEMMA NextReach == Typed /\ OwnershipInv /\ ReachInv /\ [Next]_vars => ReachInv'
<1> SUFFICES ASSUME Typed, OwnershipInv, ReachInv, [Next]_vars
             PROVE  ReachInv'
  OBVIOUS
<1>1. CASE overlap
  BY <1>1, OverlapStays DEF ReachInv
<1>3. CASE ~alive'
  BY <1>3 DEF ReachInv
<1>2. CASE alive' /\ ~overlap
  <2>0. alive /\ ~Destroy
    BY <1>2, ManagerLasts DEF Destroy
  <2>1. ASSUME NEW u \in User, UserStep(u)
        PROVE  ReachInv'
    <3>1. u \in Thread
      BY DEF Thread
    <3>2. CASE UseFreed(u)
      BY <1>2, <2>0, <3>2, IdleReach DEF UseFreed, Fail, manager, objects, threads
    <3> QED BY <1>2, <2>0, <2>1, <3>1, <3>2, CreateReach, UseReach, CloseReach, RemoveReach
            DEF UserStep
  <2>2. CASE ReaderStep
    <3>1. Reader \in Thread
      BY DEF Thread
    <3> QED BY <1>2, <2>0, <2>2, <3>1, ForwardReach, CloseReach, RemoveReach DEF ReaderStep
  <2>3. CASE Peer
    <3>1. UNCHANGED <<manager, objects, threads>>
      BY <2>3 DEF Peer, PeerReads, PeerSends, PeerHangsUp
    <3> QED BY <1>2, <2>0, <3>1, IdleReach DEF manager, objects, threads
  <2>4. CASE UNCHANGED vars
    BY <1>2, <2>0, <2>4, IdleReach DEF vars, manager, objects, threads
  <2> QED BY <2>1, <2>2, <2>3, <2>4 DEF Next
<1> QED BY <1>1, <1>2, <1>3

\* As long as the manager exists, and until two removals of one id overlap, a
\* channel that is not closed is found in the table by its id, or a thread that
\* has taken it out is closing it.  So forwardMessage never drops a message, and
\* removeRequestChannel never misses a channel, while the channel is in use.  The
\* destruction of the manager ends this: a channel behind its loop is orphaned.
THEOREM OpenChannelsReachable == Spec => []OpenChannelIsReachable
<1>1. ReachInv => OpenChannelIsReachable
  BY DEF ReachInv, NoOrphans, Closing, OpenChannelIsReachable
<1>2. Typed /\ OwnershipInv /\ ReachInv /\ [Next]_vars
        => (Typed /\ OwnershipInv /\ ReachInv)'
  BY NextTyped, NextOwned, NextReach
<1>3. Init => Typed /\ OwnershipInv /\ ReachInv
  BY InitTyped, InitOwned, InitReach
<1> QED BY <1>1, <1>2, <1>3, PTL DEF Spec

-----------------------------------------------------------------------------
(***************************************************************************)
(* A channel is found by its own id: the table, and every thread that has  *)
(* taken a channel from it, agree with the channel about the id.           *)
(***************************************************************************)
AtChannel == {"store", "close", "end", "mark", "enqueue"}

Addressed ==
    /\ \A i \in Id : requestChannel[i] # None => chanId[requestChannel[i]] = i
    /\ \A t \in Thread : pc[t] \in AtChannel /\ ch[t] # None => chanId[ch[t]] = id[t]

\* A step that constructs and installs nothing, and in which a thread takes a
\* channel only with its id.
LEMMA KeepsAddresses ==
    ASSUME Addressed, UNCHANGED chanId,
           \A i \in Id : requestChannel'[i] \in {requestChannel[i], None},
           \A t \in Thread : pc'[t] \in AtChannel =>
              \/ pc[t] \in AtChannel /\ ch'[t] = ch[t] /\ id'[t] = id[t]
              \/ ch'[t] # None => chanId[ch'[t]] = id'[t]
    PROVE  Addressed'
BY DEF Addressed

\* A step of thread t that takes no channel.
LEMMA TakesNothing ==
    ASSUME Addressed, NEW t \in Thread, UNCHANGED <<requestChannel, chanId>>,
           \A s \in Thread : s # t => pc'[s] = pc[s] /\ ch'[s] = ch[s] /\ id'[s] = id[s],
           pc'[t] \in AtChannel => pc[t] \in AtChannel /\ ch'[t] = ch[t] /\ id'[t] = id[t]
    PROVE  Addressed'
<1>1. \A s \in Thread : pc'[s] \in AtChannel =>
          pc[s] \in AtChannel /\ ch'[s] = ch[s] /\ id'[s] = id[s]
  OBVIOUS
<1> QED BY <1>1, KeepsAddresses

\* A call returns.
LEMMA FinishAddressed ==
    ASSUME Typed, Addressed, NEW t \in Thread, Finish(t), UNCHANGED <<requestChannel, chanId>>
    PROVE  Addressed'
<1>1. /\ \E l \in Labels \ AtChannel : pc' = [pc EXCEPT ![t] = l]
      /\ \A s \in Thread : s # t => ch'[s] = ch[s] /\ id'[s] = id[s]
  BY DEF Finish, GoTo, Typed, TypeOK, Labels, RemoveLabels, CreateLabels, AtChannel
<1>2. pc'[t] \notin AtChannel /\ \A s \in Thread : s # t => pc'[s] = pc[s]
  BY <1>1 DEF Typed, TypeOK
<1> QED BY <1>1, <1>2, TakesNothing

\* Opening a request: a channel is constructed with the id whose slot it fills.
LEMMA CreateAddressed ==
    ASSUME Typed, Addressed, NEW u \in User, Create(u)
    PROVE  Addressed'
<1>u. u \in Thread /\ TypeOK
  BY DEF Thread, Typed
<1>1. CASE SendRequest(u) \/ Deref(u) \/ Acquire(u) \/ Pop(u) \/ Fetch(u)
  <2>1. /\ UNCHANGED <<requestChannel, chanId, ch>>
        /\ \A s \in Thread : s # u => pc'[s] = pc[s] /\ id'[s] = id[s]
        /\ pc'[u] \in AtChannel => pc[u] \in AtChannel /\ id'[u] = id[u]
    BY <1>1, <1>u DEF SendRequest, Deref, Acquire, Pop, Fetch, Fail, GoTo, At, AtChannel,
                      manager, objects, threads, TypeOK
  <2> QED BY <1>u, <2>1, TakesNothing
<1>2. CASE Install(u)
  <2>1. PICK c \in Channel : /\ chanId[c] = None
                             /\ chanId' = [chanId EXCEPT ![c] = id[u]]
                             /\ requestChannel' = [requestChannel EXCEPT ![id[u]] = c]
    BY <1>2 DEF Install, Fresh
  <2>2. /\ id[u] \in Id /\ pc' = [pc EXCEPT ![u] = "fetch"] /\ UNCHANGED <<ch, id>>
    BY <1>2, <1>u DEF Install, At, GoTo, TypeOK
  <2>3. \A d \in Channel : chanId[d] # None => chanId'[d] = chanId[d]
    BY <1>u, <2>1 DEF TypeOK
  <2>4. ASSUME NEW i \in Id, requestChannel'[i] # None
        PROVE  chanId'[requestChannel'[i]] = i
    <3>1. CASE i = id[u]
      BY <1>u, <2>1, <2>2, <3>1 DEF TypeOK
    <3>2. CASE i # id[u]
      <4>1. requestChannel'[i] = requestChannel[i] /\ requestChannel[i] \in Channel
        BY <1>u, <2>1, <2>4, <3>2 DEF TypeOK
      <4>2. chanId[requestChannel[i]] = i /\ i # None
        BY <2>4, <4>1, ConstantsOK DEF Addressed
      <4> QED BY <2>3, <4>1, <4>2
    <3> QED BY <3>1, <3>2
  <2>5. ASSUME NEW t \in Thread, pc'[t] \in AtChannel, ch'[t] # None
        PROVE  chanId'[ch'[t]] = id'[t]
    <3>1. pc[t] \in AtChannel /\ ch[t] \in Channel /\ id[t] \in Id
      BY <1>u, <2>2, <2>5 DEF TypeOK, AtChannel
    <3>2. chanId[ch[t]] = id[t] /\ id[t] # None
      BY <2>2, <2>5, <3>1, ConstantsOK DEF Addressed
    <3> QED BY <2>2, <2>3, <3>1, <3>2
  <2> QED BY <2>4, <2>5 DEF Addressed
<1> QED BY <1>1, <1>2 DEF Create

\* Using a request: close() is called with the id of the channel.
LEMMA UseAddressed ==
    ASSUME Typed, Addressed, NEW u \in User, Use(u)
    PROVE  Addressed'
<1>u. u \in Thread /\ TypeOK
  BY DEF Thread, Typed
<1>1. UNCHANGED <<requestChannel, chanId>>
  BY DEF Use, UseNull, Write, Send, BeginRead, Read, ReadTimesOut, Terminate, Fail,
         manager, objects
<1>2. CASE UseNull(u) \/ Write(u) \/ Send(u) \/ BeginRead(u) \/ Read(u) \/ ReadTimesOut(u)
  <2>1. /\ UNCHANGED <<ch, id>>
        /\ \A s \in Thread : s # u => pc'[s] = pc[s]
        /\ pc'[u] \in AtChannel => pc[u] \in AtChannel
    BY <1>2, <1>u DEF UseNull, Write, Send, BeginRead, Read, ReadTimesOut, Fail, GoTo,
                      AtChannel, threads, TypeOK
  <2> QED BY <1>u, <1>1, <2>1, TakesNothing
<1>3. CASE Terminate(u)
  <2>1. /\ pc' = [pc EXCEPT ![u] = "close"]
        /\ ch' = [ch EXCEPT ![u] = req[u]]
        /\ id' = [id EXCEPT ![u] = chanId[req[u]]]
    BY <1>3 DEF Terminate, GoTo
  <2>2. /\ ch'[u] # None => chanId[ch'[u]] = id'[u]
        /\ \A s \in Thread : s # u => pc'[s] = pc[s] /\ ch'[s] = ch[s] /\ id'[s] = id[s]
    BY <1>u, <2>1 DEF TypeOK
  <2> QED BY <1>1, <2>2, KeepsAddresses
<1> QED BY <1>2, <1>3 DEF Use

\* close() keeps to its channel.
LEMMA CloseAddressed ==
    ASSUME Typed, Addressed, NEW t \in Thread, Close(t)
    PROVE  Addressed'
<1>1. UNCHANGED <<requestChannel, chanId>>
  BY DEF Close, CloseCheck, SendEnd, MarkClosed, Fail, manager, objects
<1>2. CASE CloseCheck(t) /\ Finish(t)
  BY <1>1, <1>2, FinishAddressed
<1>3. CASE (CloseCheck(t) /\ ~Finish(t)) \/ SendEnd(t) \/ MarkClosed(t)
  <2>1. /\ UNCHANGED <<ch, id>>
        /\ \A s \in Thread : s # t => pc'[s] = pc[s]
        /\ pc[t] \in AtChannel
    BY <1>3 DEF CloseCheck, SendEnd, MarkClosed, Fail, GoTo, AtChannel, threads, Typed, TypeOK
  <2> QED BY <1>1, <2>1, TakesNothing
<1> QED BY <1>2, <1>3 DEF Close

\* removeRequestChannel takes the channel from the slot of its id.
LEMMA RemoveAddressed ==
    ASSUME Typed, Addressed, NEW t \in Thread, Remove(t)
    PROVE  Addressed'
<1>0. TypeOK
  BY DEF Typed
<1>1. CASE RemoveCheck(t) \/ Release(t)
  <2>1. UNCHANGED <<requestChannel, chanId>>
    BY <1>1 DEF RemoveCheck, Release, manager, objects
  <2>2. CASE Finish(t)
    BY <2>1, <2>2, FinishAddressed
  <2>3. CASE ~Finish(t)
    <3>1. /\ UNCHANGED <<ch, id>>
          /\ \A s \in Thread : s # t => pc'[s] = pc[s]
          /\ pc'[t] \notin AtChannel
      BY <1>0, <1>1, <2>3 DEF RemoveCheck, Release, GoTo, AtChannel, TypeOK
    <3> QED BY <2>1, <3>1, TakesNothing
  <2> QED BY <2>2, <2>3
<1>2. CASE RemoveLoad(t)
  <2>1. /\ UNCHANGED <<requestChannel, chanId, id>>
        /\ pc' = [pc EXCEPT ![t] = "store"]
        /\ ch' = [ch EXCEPT ![t] = requestChannel[id[t]]]
    BY <1>2 DEF RemoveLoad, GoTo, manager, objects
  <2>2. /\ ch'[t] # None => chanId[ch'[t]] = id'[t]
        /\ \A s \in Thread : s # t => pc'[s] = pc[s] /\ ch'[s] = ch[s] /\ id'[s] = id[s]
    BY <1>0, <2>1 DEF TypeOK, Addressed
  <2> QED BY <2>1, <2>2, KeepsAddresses
<1>3. CASE RemoveStore(t)
  <2>1. /\ UNCHANGED <<chanId, ch, id>> /\ pc[t] = "store"
        /\ requestChannel' = [requestChannel EXCEPT ![id[t]] = None]
        /\ pc' = [pc EXCEPT ![t] = "close"]
    BY <1>3 DEF RemoveStore, At, GoTo, objects
  <2>2. /\ \A i \in Id : requestChannel'[i] \in {requestChannel[i], None}
        /\ \A s \in Thread : pc'[s] \in AtChannel => pc[s] \in AtChannel
    BY <1>0, <2>1 DEF TypeOK, AtChannel
  <2> QED BY <2>1, <2>2, KeepsAddresses
<1>4. CASE Push(t)
  <2>1. /\ UNCHANGED <<requestChannel, chanId, ch, id>>
        /\ \A s \in Thread : s # t => pc'[s] = pc[s]
        /\ pc'[t] \notin AtChannel
    BY <1>0, <1>4 DEF Push, At, GoTo, objects, TypeOK, AtChannel
  <2> QED BY <2>1, TakesNothing
<1> QED BY <1>1, <1>2, <1>3, <1>4 DEF Remove

\* The reader delivers to the channel in the slot of the message's id.
LEMMA ForwardAddressed ==
    ASSUME Typed, Addressed, Forward
    PROVE  Addressed'
<1>r. Reader \in Thread /\ TypeOK
  BY DEF Thread, Typed
<1>1. UNCHANGED <<requestChannel, chanId>>
  BY DEF Forward, ReceiveEnd, ReceiveResponse, Deliver, Enqueue, HangUp, Fail, manager, objects
<1>2. CASE ReceiveEnd \/ ReceiveResponse \/ Enqueue \/ HangUp
  <2>1. /\ \A s \in Thread : s # Reader => pc'[s] = pc[s] /\ ch'[s] = ch[s] /\ id'[s] = id[s]
        /\ \/ pc'[Reader] \notin AtChannel
           \/ UNCHANGED <<pc, ch, id>>
    BY <1>2, <1>r DEF ReceiveEnd, ReceiveResponse, Enqueue, HangUp, Fail, GoTo, AtChannel,
                      threads, TypeOK
  <2> QED BY <1>r, <1>1, <2>1, TakesNothing
<1>3. CASE Deliver
  <2>1. CASE requestChannel[id[Reader]] = None
    <3>1. UNCHANGED <<pc, ch, id>>
      BY <1>3, <2>1 DEF Deliver, Fail, threads
    <3> QED BY <1>r, <1>1, <3>1, TakesNothing
  <2>2. CASE requestChannel[id[Reader]] # None
    <3>1. /\ UNCHANGED id /\ pc' = [pc EXCEPT ![Reader] = "enqueue"]
          /\ ch' = [ch EXCEPT ![Reader] = requestChannel[id[Reader]]]
      BY <1>3, <2>2 DEF Deliver, GoTo
    <3>2. /\ chanId[ch'[Reader]] = id'[Reader]
          /\ \A s \in Thread : s # Reader =>
                pc'[s] = pc[s] /\ ch'[s] = ch[s] /\ id'[s] = id[s]
      BY <1>r, <2>2, <3>1 DEF TypeOK, Addressed
    <3> QED BY <1>1, <3>2, KeepsAddresses
  <2> QED BY <2>1, <2>2
<1> QED BY <1>2, <1>3 DEF Forward

\* At first the table is empty.
LEMMA InitAddressed == Init => Addressed
BY DEF Init, Addressed, Thread

\* Every step keeps the ids right, overlapping removals or not.
LEMMA NextAddressed == Typed /\ Addressed /\ [Next]_vars => Addressed'
<1> SUFFICES ASSUME Typed, Addressed, [Next]_vars
             PROVE  Addressed'
  OBVIOUS
<1>0. ASSUME UNCHANGED <<requestChannel, chanId, pc, ch, id>>
      PROVE  Addressed'
  BY <1>0, KeepsAddresses
<1>1. ASSUME NEW u \in User, UserStep(u)
      PROVE  Addressed'
  <2>1. u \in Thread
    BY DEF Thread
  <2>2. CASE UseFreed(u)
    BY <1>0, <2>2 DEF UseFreed, Fail, manager, objects, threads
  <2> QED BY <1>1, <2>1, <2>2, CreateAddressed, UseAddressed, CloseAddressed, RemoveAddressed
          DEF UserStep
<1>2. CASE ReaderStep
  <2>1. Reader \in Thread
    BY DEF Thread
  <2>2. CASE Destroy
    <3>1. /\ UNCHANGED <<chanId, ch, id>>
          /\ \A i \in Id : requestChannel'[i] = None
          /\ pc' = [pc EXCEPT ![Reader] = "gone"]
      BY <2>2 DEF Destroy, GoTo
    <3>2. \A t \in Thread : pc'[t] \in AtChannel => pc[t] \in AtChannel
      BY <3>1 DEF AtChannel, Typed, TypeOK
    <3> QED BY <3>1, <3>2, KeepsAddresses
  <2> QED BY <1>2, <2>1, <2>2, ForwardAddressed, CloseAddressed, RemoveAddressed DEF ReaderStep
<1>3. CASE Peer
  <2>1. UNCHANGED <<manager, objects, threads>>
    BY <1>3 DEF Peer, PeerReads, PeerSends, PeerHangsUp
  <2> QED BY <1>0, <2>1 DEF manager, objects, threads
<1>4. CASE UNCHANGED vars
  BY <1>0, <1>4 DEF vars, manager, objects, threads
<1> QED BY <1>1, <1>2, <1>3, <1>4 DEF Next

\* A channel keeps its id, and one that is closed stays closed.
LEMMA ObjectsLast ==
    ASSUME Typed, [Next]_vars
    PROVE  \A c \in Channel : /\ chanId[c] # None => chanId'[c] = chanId[c]
                              /\ isClosed[c] => isClosed'[c]
<1>0. ASSUME UNCHANGED <<chanId, isClosed>>
      PROVE  \A c \in Channel : /\ chanId[c] # None => chanId'[c] = chanId[c]
                                /\ isClosed[c] => isClosed'[c]
  BY <1>0
<1>1. ASSUME NEW t \in Thread, Close(t) \/ Remove(t)
      PROVE  UNCHANGED chanId /\ \A c \in Channel : isClosed[c] => isClosed'[c]
  <2>1. CASE MarkClosed(t)
    BY <2>1 DEF MarkClosed, Typed, TypeOK
  <2>2. CASE CloseCheck(t) \/ SendEnd(t)
    BY <2>2 DEF CloseCheck, SendEnd, Fail, objects
  <2>3. CASE Remove(t)
    BY <2>3 DEF Remove, RemoveCheck, RemoveLoad, RemoveStore, Push, Release, objects
  <2> QED BY <1>1, <2>1, <2>2, <2>3 DEF Close
<1>2. ASSUME NEW u \in User, UserStep(u)
      PROVE  \A c \in Channel : /\ chanId[c] # None => chanId'[c] = chanId[c]
                                /\ isClosed[c] => isClosed'[c]
  <2>1. CASE Install(u)
    <3>1. PICK c \in Channel : chanId[c] = None /\ chanId' = [chanId EXCEPT ![c] = id[u]]
      BY <2>1 DEF Install, Fresh
    <3>2. UNCHANGED isClosed
      BY <2>1 DEF Install
    <3> QED BY <3>1, <3>2 DEF Typed, TypeOK
  <2>2. CASE SendRequest(u) \/ Deref(u) \/ Acquire(u) \/ Pop(u) \/ Fetch(u)
    BY <1>0, <2>2 DEF SendRequest, Deref, Acquire, Pop, Fetch, Fail, objects
  <2>3. CASE Use(u) \/ UseFreed(u)
    BY <1>0, <2>3 DEF Use, UseNull, Write, Send, BeginRead, Read, ReadTimesOut, Terminate,
                      UseFreed, Fail, objects
  <2> QED BY <1>1, <1>2, <2>1, <2>2, <2>3 DEF UserStep, Create, Thread
<1>3. CASE ReaderStep
  <2>1. CASE Forward
    BY <1>0, <2>1 DEF Forward, ReceiveEnd, ReceiveResponse, Deliver, Enqueue, HangUp, Fail,
                      objects
  <2>2. CASE Destroy
    BY <2>2 DEF Destroy
  <2> QED BY <1>1, <1>3, <2>1, <2>2 DEF ReaderStep, Thread
<1>4. CASE Peer
  BY <1>0, <1>4 DEF Peer, PeerReads, PeerSends, PeerHangsUp, objects
<1>5. CASE UNCHANGED vars
  BY <1>0, <1>5 DEF vars, objects
<1> QED BY <1>2, <1>3, <1>4, <1>5 DEF Next

\* The place of an open channel is the only one that its id has.
LEMMA PlacesDiffer ==
    ASSUME Typed, OwnershipInv, ReachInv, Addressed, alive
    PROVE  OneOpenChannel
<1> SUFFICES ASSUME ~overlap, NEW c \in Channel, NEW d \in Channel,
                    chanId[c] # None, chanId[c] = chanId[d], ~isClosed[c], ~isClosed[d]
             PROVE  c = d
  BY DEF OneOpenChannel
<1> DEFINE i == chanId[c]
<1>1. i \in Id /\ AtOnePlace(i) /\ c # None /\ d # None
  BY ConstantsOK DEF Typed, TypeOK, OwnershipInv, Owned
<1>2. /\ requestChannel[i] = c \/ \E t \in Thread : Closing(t, c)
      /\ requestChannel[i] = d \/ \E t \in Thread : Closing(t, d)
  BY DEF ReachInv, NoOrphans
<1>3. ASSUME NEW t \in Thread, NEW e \in {c, d}, Closing(t, e)
      PROVE  Holds(t, i)
  <2>1. id[t] = i
    BY <1>1, <1>3 DEF Closing, Addressed, AtChannel
  <2> QED BY <1>3, <2>1 DEF Closing, Holds
<1>4. CASE requestChannel[i] = c /\ requestChannel[i] = d
  BY <1>4
<1>5. ASSUME NEW t \in Thread, NEW e \in {c, d}, Closing(t, e),
             requestChannel[i] = c \/ requestChannel[i] = d
      PROVE  FALSE
  BY <1>1, <1>3, <1>5 DEF AtOnePlace, Installed
<1>6. ASSUME NEW s \in Thread, NEW t \in Thread, Closing(s, c), Closing(t, d)
      PROVE  c = d
  <2>1. s = t
    BY <1>1, <1>3, <1>6 DEF AtOnePlace
  <2> QED BY <1>6, <2>1 DEF Closing
<1> QED BY <1>2, <1>4, <1>5, <1>6

\* After the manager has been destroyed no channel is constructed, so that those
\* that are not closed still differ.
LEMMA NextDiffer ==
    ASSUME Typed, OwnershipInv', ReachInv', Addressed', Typed', OneOpenChannel, [Next]_vars
    PROVE  OneOpenChannel'
<1>1. CASE alive'
  BY <1>1, PlacesDiffer, PTL
<1>2. CASE ~alive'
  <2>1. chanId' = chanId
    BY <1>2, ManagerLasts
  <2>2. \A c \in Channel : isClosed[c] => isClosed'[c]
    BY ObjectsLast
  <2>3. overlap => overlap'
    BY OverlapStays
  <2> QED BY <2>1, <2>2, <2>3 DEF OneOpenChannel
<1> QED BY <1>1, <1>2

\* Until two removals of one id overlap, no two channels that are not closed have
\* the same id, whether or not their manager still exists: createRequestChannel
\* never opens a session beside another one.
THEOREM OpenChannelsDiffer == Spec => [](Addressed /\ OneOpenChannel)
<1>1. Typed /\ OwnershipInv /\ ReachInv /\ Addressed /\ OneOpenChannel /\ [Next]_vars
        => (Typed /\ OwnershipInv /\ ReachInv /\ Addressed /\ OneOpenChannel)'
  BY NextTyped, NextOwned, NextReach, NextAddressed, NextDiffer
<1>2. Init => Typed /\ OwnershipInv /\ ReachInv /\ Addressed /\ OneOpenChannel
  <2>1. Init => alive
    BY DEF Init
  <2> QED BY <2>1, InitTyped, InitOwned, InitReach, InitAddressed, PlacesDiffer
<1> QED BY <1>1, <1>2, PTL DEF Spec

=============================================================================
