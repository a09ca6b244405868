--------------------------- MODULE Primitives_proofs ---------------------------
(***************************************************************************)
(* The two things an event queue is made of.                               *)
(*                                                                         *)
(* XLSemaPhore, for every set of threads and all arguments of Create: its  *)
(* type invariant, no lost wakeup, and that it implements a counting       *)
(* semaphore.                                                              *)
(*                                                                         *)
(* XLLFQ, for every set of values, every mMaxSize and every number of      *)
(* pushes: memory safety of the reader's node, honest rejection, and that  *)
(* it implements a bounded FIFO.                                           *)
(***************************************************************************)
EXTENDS XLSemaPhore, XLLFQ, FiniteSetTheorems, SequenceTheorems, TLAPS

\* The semaphore

(* A call is in progress only on a created semaphore: Create and Destroy do   *)
(* not overlap calls, and a call on a semaphore that is not created returns.  *)
CallsOnCreated == ~mbCreated => Quiescent

IInv == TypeOK /\ CallsOnCreated

USE DEF At, fields

--------------------------------------------------------------------------------
(* Initially nobody is in a call and nobody holds the mutex.                  *)
LEMMA InitIInv == Init => IInv
<1> SUFFICES ASSUME Init
             PROVE  IInv
  OBVIOUS
<1> USE DEF Init
<1>1. mSemCount \in Int /\ mMaxCount \in Int
  OBVIOUS
<1>2. mbCreated \in BOOLEAN
  OBVIOUS
<1>3. pc \in [Threads -> Labels] /\ m_Mut \in Threads \cup {NoThread}
  BY DEF Labels
<1>4. m_CV = {t \in Threads : pc[t] = "take_wait"}
  OBVIOUS
<1>5. \A t \in Threads : pc[t] \in Critical <=> m_Mut = t
  BY ThreadsAssumption DEF Critical
<1>6. CallsOnCreated
  BY DEF CallsOnCreated, Quiescent
<1> QED
  BY <1>1, <1>2, <1>3, <1>4, <1>5, <1>6 DEF IInv, TypeOK

(* Each step keeps the type invariant, the mutex with the one thread in its   *)
(* critical section and the calls on a created semaphore.                     *)
LEMMA NextIInv == IInv /\ [Next]_vars => IInv'
<1> SUFFICES ASSUME IInv, [Next]_vars
             PROVE  IInv'
  OBVIOUS
<1> USE ThreadsAssumption DEF IInv, TypeOK, CallsOnCreated, Quiescent, Labels, Critical
<1>1. ASSUME NEW t \in Threads, CallTake(t)
      PROVE  IInv'
  BY <1>1 DEF CallTake, Call
<1>2. ASSUME NEW t \in Threads, CallGive(t)
      PROVE  IInv'
  BY <1>2 DEF CallGive, Call
<1>3. ASSUME NEW t \in Threads, SpuriousWakeup(t)
      PROVE  IInv'
  BY <1>3 DEF SpuriousWakeup
<1>4. ASSUME NEW t \in Threads, TakeLock(t)
      PROVE  IInv'
  BY <1>4 DEF TakeLock, Lock
<1>5. ASSUME NEW t \in Threads, TakeWait(t)
      PROVE  IInv'
  BY <1>5 DEF TakeWait
<1>6. ASSUME NEW t \in Threads, TakeDone(t)
      PROVE  IInv'
  BY <1>6 DEF TakeDone
<1>7. ASSUME NEW t \in Threads, GiveLock(t)
      PROVE  IInv'
  BY <1>7 DEF GiveLock, Lock
<1>8. ASSUME NEW t \in Threads, GiveCount(t)
      PROVE  IInv'
  BY <1>8 DEF GiveCount
<1>9. ASSUME NEW t \in Threads, GiveNotify(t)
      PROVE  IInv'
  BY <1>9 DEF GiveNotify
<1>10. ASSUME NEW c \in Creations, Quiescent, Create(c[1], c[2])
       PROVE  IInv'
  <2>1. c[1] \in Int /\ c[2] \in Int
    BY CreationsAssumption
  <2> QED
    BY <1>10, <2>1 DEF Create
<1>11. ASSUME Quiescent, Destroy
       PROVE  IInv'
  <2>1. mSemCount' \in Int /\ mMaxCount' \in Int
    BY <1>11 DEF Destroy
  <2>2. mbCreated' \in BOOLEAN
    BY <1>11 DEF Destroy
  <2>3. UNCHANGED <<m_Mut, m_CV, pc>>
    BY <1>11 DEF Destroy
  <2>4. TypeOK'
    BY <2>1, <2>2, <2>3
  <2>5. CallsOnCreated'
    BY <1>11, <2>3
  <2> QED
    BY <2>4, <2>5
<1>12. CASE UNCHANGED vars
  BY <1>12 DEF vars
<1> QED
  BY <1>1, <1>2, <1>3, <1>4, <1>5, <1>6, <1>7, <1>8, <1>9, <1>10, <1>11, <1>12
     DEF Next, Step

(* The invariant holds throughout, whatever the threads and the arguments of  *)
(* Create.                                                                    *)
THEOREM Invariance == Spec => []IInv
BY InitIInv, NextIInv, PTL DEF Spec

(* Every variable has its type and m_Mut belongs to the one thread in its     *)
(* critical section (XLSemaPhore.cpp:139, 204).                               *)
THEOREM TypeCorrect == Spec => []TypeOK
<1>1. IInv => TypeOK
  BY DEF IInv
<1> QED
  BY Invariance, <1>1, PTL

--------------------------------------------------------------------------------
(* Underway is finite, so its cardinality is a natural number.                *)
LEMMA UnderwayFinite == IsFiniteSet(Underway) /\ Cardinality(Underway) \in Nat
<1>1. Underway \subseteq Threads
  BY DEF Underway
<1> QED
  BY <1>1, ThreadsAssumption, FS_Subset, FS_CardinalityType

(* A step that leaves the permits alone and takes nobody out of Underway      *)
(* keeps enough threads under way.                                            *)
LEMMA GrowsKeeps ==
    ASSUME NoLostWakeup, TypeOK, Underway \subseteq Underway',
           UNCHANGED <<mSemCount, mMaxCount>>, m_CV' # {} => m_CV # {}
    PROVE  NoLostWakeup'
<1>1. IsFiniteSet(Underway') /\ Cardinality(Underway') \in Nat
  <2>1. Underway' \subseteq Threads
    BY DEF Underway
  <2> QED
    BY <2>1, ThreadsAssumption, FS_Subset, FS_CardinalityType
<1>2. Cardinality(Underway) <= Cardinality(Underway')
  BY <1>1, FS_Subset
<1> QED
  BY <1>1, <1>2, UnderwayFinite DEF NoLostWakeup, Permits, TypeOK

(* No step of a thread, no Create and no Destroy loses a wakeup.              *)
LEMMA NextNoLostWakeup == IInv /\ NoLostWakeup /\ [Next]_vars => NoLostWakeup'
<1> SUFFICES ASSUME IInv, NoLostWakeup, [Next]_vars
             PROVE  NoLostWakeup'
  OBVIOUS
<1> USE DEF IInv, TypeOK
<1>1. ASSUME NEW t \in Threads, CallTake(t)
      PROVE  NoLostWakeup'
  BY <1>1, GrowsKeeps DEF CallTake, Call, Underway
<1>2. ASSUME NEW t \in Threads, CallGive(t)
      PROVE  NoLostWakeup'
  BY <1>2, GrowsKeeps DEF CallGive, Call, Underway
<1>3. ASSUME NEW t \in Threads, SpuriousWakeup(t)
      PROVE  NoLostWakeup'
  BY <1>3, GrowsKeeps DEF SpuriousWakeup, Underway
<1>4. ASSUME NEW t \in Threads, TakeLock(t)
      PROVE  NoLostWakeup'
  BY <1>4, GrowsKeeps DEF TakeLock, Lock, Underway
<1>5. ASSUME NEW t \in Threads, TakeWait(t)
      PROVE  NoLostWakeup'
  <2>1. Permits' <= 0
    BY <1>5 DEF TakeWait, Permits
  <2>2. Cardinality(Underway') \in Nat
    <3>1. Underway' \subseteq Threads
      BY DEF Underway
    <3> QED
      BY <3>1, ThreadsAssumption, FS_Subset, FS_CardinalityType
  <2>3. Permits' \in Int
    BY <1>5 DEF TakeWait, Permits
  <2> QED
    BY <2>1, <2>2, <2>3 DEF NoLostWakeup
<1>6. ASSUME NEW t \in Threads, TakeDone(t)
      PROVE  NoLostWakeup'
  <2>1. Underway' = Underway \ {t} /\ t \in Underway
    BY <1>6 DEF TakeDone, Underway
  <2>2. Cardinality(Underway') = Cardinality(Underway) - 1
    BY <2>1, UnderwayFinite, FS_RemoveElement
  <2>3. Permits' = Permits - 1 /\ m_CV' = m_CV
    BY <1>6 DEF TakeDone, Permits
  <2> QED
    BY <2>2, <2>3, UnderwayFinite DEF NoLostWakeup, Permits
<1>7. ASSUME NEW t \in Threads, GiveLock(t)
      PROVE  NoLostWakeup'
  BY <1>7, GrowsKeeps DEF GiveLock, Lock, Underway
<1>8. ASSUME NEW t \in Threads, GiveCount(t)
      PROVE  NoLostWakeup'
  <2>1. Underway' = Underway \cup {t} /\ t \notin Underway
    BY <1>8 DEF GiveCount, Underway
  <2>2. Cardinality(Underway') = Cardinality(Underway) + 1
    BY <2>1, UnderwayFinite, FS_AddElement
  <2>3. Permits' = Permits + 1 /\ m_CV' = m_CV
    BY <1>8 DEF GiveCount, Permits
  <2> QED
    BY <2>2, <2>3, UnderwayFinite DEF NoLostWakeup, Permits
<1>9. ASSUME NEW t \in Threads, GiveNotify(t)
      PROVE  NoLostWakeup'
  <2>1. CASE m_CV = {} /\ m_CV' = m_CV
    BY <2>1 DEF NoLostWakeup
  <2>2. ASSUME NEW w \in m_CV, m_CV' = m_CV \ {w},
               pc' = [pc EXCEPT ![t] = "idle", ![w] = "take_lock"]
        PROVE  NoLostWakeup'
    <3>1. /\ t \in Underway
          /\ w \notin Underway
          /\ Underway' = (Underway \ {t}) \cup {w}
      BY <1>9, <2>2 DEF GiveNotify, Underway
    <3>2. Cardinality(Underway') = Cardinality(Underway)
      <4> DEFINE Rest == Underway \ {t}
      <4>1. IsFiniteSet(Rest) /\ Cardinality(Rest) = Cardinality(Underway) - 1
        BY <3>1, UnderwayFinite, FS_RemoveElement
      <4>2. w \notin Rest
        BY <3>1
      <4>3. Cardinality(Rest \cup {w}) = Cardinality(Rest) + 1
        BY <4>1, <4>2, FS_AddElement
      <4> QED
        BY <3>1, <4>1, <4>3, UnderwayFinite
    <3>3. Permits' = Permits
      BY <1>9 DEF GiveNotify, Permits
    <3> QED
      BY <2>2, <3>2, <3>3 DEF NoLostWakeup
  <2> QED
    BY <1>9, <2>1, <2>2 DEF GiveNotify
<1>10. ASSUME NEW c \in Creations, Quiescent, Create(c[1], c[2])
       PROVE  NoLostWakeup'
  BY <1>10 DEF Create, Quiescent, NoLostWakeup
<1>11. ASSUME Quiescent, Destroy
       PROVE  NoLostWakeup'
  BY <1>11 DEF Destroy, Quiescent, NoLostWakeup
<1>12. CASE UNCHANGED vars
  BY <1>12 DEF vars, NoLostWakeup, Permits, Underway
<1> QED
  BY <1>1, <1>2, <1>3, <1>4, <1>5, <1>6, <1>7, <1>8, <1>9, <1>10, <1>11, <1>12
     DEF Next, Step

(* While a thread sleeps in Take, every free permit has a thread under way    *)
(* that consumes it or notifies (XLSemaPhore.cpp:134-154, 198-217).           *)
THEOREM WakeupsKept == Spec => []NoLostWakeup
<1>1. Init => NoLostWakeup
  BY DEF Init, NoLostWakeup
<1> QED
  BY Invariance, NextNoLostWakeup, <1>1, PTL DEF Spec

--------------------------------------------------------------------------------
(* Every step of the class is a step of the counting semaphore or changes     *)
(* none of its state.                                                         *)
LEMMA NextImplements ==
    IInv /\ [Next]_vars => [Semaphore!Next]_<<Permits, mbCreated>>
<1> SUFFICES ASSUME IInv, Next
             PROVE  Semaphore!Next \/ UNCHANGED <<Permits, mbCreated>>
  BY DEF vars, Permits
<1> USE DEF IInv, TypeOK, CallsOnCreated, Quiescent, Permits
<1>1. ASSUME NEW t \in Threads, TakeDone(t)
      PROVE  Semaphore!Take
  BY <1>1 DEF TakeDone, Semaphore!Take
<1>2. ASSUME NEW t \in Threads, GiveCount(t)
      PROVE  Semaphore!Give
  BY <1>2 DEF GiveCount, Semaphore!Give
<1>3. ASSUME NEW c \in Creations, Create(c[1], c[2])
      PROVE  \E n \in {d[2] - d[1] : d \in Creations} : Semaphore!Create(n)
  BY <1>3 DEF Create, Semaphore!Create
<1>4. ASSUME Destroy
      PROVE  Semaphore!Destroy
  BY <1>4 DEF Destroy, Semaphore!Destroy
<1>5. ASSUME NEW t \in Threads,
             \/ CallTake(t) \/ CallGive(t) \/ SpuriousWakeup(t) \/ TakeLock(t)
             \/ TakeWait(t) \/ GiveLock(t) \/ GiveNotify(t)
      PROVE  UNCHANGED <<Permits, mbCreated>>
  BY <1>5 DEF CallTake, CallGive, Call, SpuriousWakeup, TakeLock, Lock, TakeWait,
              GiveLock, GiveNotify
<1> QED
  BY <1>1, <1>2, <1>3, <1>4, <1>5 DEF Next, Step, Semaphore!Next

(* The class implements a counting semaphore of mMaxCount - mSemCount         *)
(* permits: a Take returns only with a permit of its own.                     *)
THEOREM Refinement == Spec => ImplementsSemaphore
<1>1. Init => Semaphore!Init
  BY DEF Init, Semaphore!Init, Permits
<1> QED
  BY <1>1, Invariance, NextImplements, PTL
     DEF Spec, ImplementsSemaphore, Semaphore!Spec, Semaphore!semVars

--------------------------------------------------------------------------------
\* The list

(* Where the two sides stand: the erase never goes past the mHead it was      *)
(* given, which the reader can only have left behind, and a checked list      *)
(* begins at that node.                                                       *)
Positions == /\ first <= stop \/ wpc = "idle"
             /\ stop <= mHead
             /\ first <= mHead
             /\ mHead <= last
             /\ wpc \in {"check", "full"} => first = stop
             /\ rpc = "advance" => next = mHead + 1 /\ next <= last
             /\ rpc = "copy" => mHead > 0
             /\ wpc = "full" => last - stop >= mMaxSize
             /\ last - mHead <= mMaxSize

ListIInv == ListTypeOK /\ Positions

--------------------------------------------------------------------------------
(* The empty list with its sentinel satisfies the invariant.                  *)
LEMMA ListInitIInv == ListInit => ListIInv
BY MaxSizeAssumption DEF ListInit, ListIInv, ListTypeOK, Positions, last

(* A node linked at the end leaves the others where they are.                 *)
LEMMA LinkLast ==
    ASSUME content \in Seq(Items), data \in Items, content' = Append(content, data)
    PROVE  content' \in Seq(Items) /\ last' = last + 1 /\ last \in Nat
BY DEF last

(* Each access to the list by either side keeps the invariant.                *)
LEMMA ListNextIInv == ListIInv /\ [ListNext]_list => ListIInv'
<1> SUFFICES ASSUME ListIInv, [ListNext]_list
             PROVE  ListIInv'
  OBVIOUS
<1> USE MaxSizeAssumption DEF ListIInv, ListTypeOK, Positions
<1>0. last \in Nat
  BY DEF last
<1>1. ASSUME NEW x \in Items, PushStart(x)
      PROVE  ListIInv'
  <2>1. last' = last
    BY <1>1 DEF PushStart, last
  <2> QED
    BY <1>0, <1>1, <2>1 DEF PushStart, reader
<1>2. CASE PushErase
  <2>1. last' = last
    BY <1>2 DEF PushErase, last
  <2> QED
    BY <1>0, <1>2, <2>1 DEF PushErase, reader
<1>3. CASE PushReject
  <2>1. last' = last
    BY <1>3 DEF PushReject, last
  <2> QED
    BY <1>0, <1>3, <2>1 DEF PushReject, reader, size
<1>4. CASE PushLink
  <2>1. content' \in Seq(Items) /\ last' = last + 1
    BY <1>4, LinkLast DEF PushLink
  <2> QED
    BY <1>0, <1>4, <2>1 DEF PushLink, reader, size
<1>5. CASE PushFull
  <2>1. last' = last
    BY <1>5 DEF PushFull, last
  <2> QED
    BY <1>0, <1>5, <2>1 DEF PushFull, reader
<1>6. CASE PopNext
  <2>1. last' = last
    BY <1>6 DEF PopNext, last
  <2> QED
    BY <1>0, <1>6, <2>1 DEF PopNext, writer
<1>7. CASE PopAdvance
  <2>1. last' = last
    BY <1>7 DEF PopAdvance, last
  <2> QED
    BY <1>0, <1>7, <2>1 DEF PopAdvance, writer
<1>8. CASE PopCopy
  <2>1. last' = last
    BY <1>8 DEF PopCopy, last
  <2>2. result' \in Items
    <3>1. Live(mHead) /\ mHead \in 1..Len(content)
      BY <1>0, <1>8 DEF PopCopy, Live, last
    <3>2. content[mHead] \in Items
      BY <3>1
    <3> QED
      BY <1>8, <3>1, <3>2 DEF PopCopy
  <2> QED
    BY <1>0, <1>8, <2>1, <2>2 DEF PopCopy, writer
<1>9. CASE UNCHANGED list
  BY <1>9 DEF list, last
<1> QED
  BY <1>1, <1>2, <1>3, <1>4, <1>5, <1>6, <1>7, <1>8, <1>9 DEF ListNext, Writer, Reader

(* The invariant holds throughout, whatever the interleaving of the two sides.*)
THEOREM ListInvariance == ListSpec => []ListIInv
BY ListInitIInv, ListNextIInv, PTL DEF ListSpec

(* A pop never copies out of a freed node: its result is a value that was     *)
(* pushed (LockFreeQueue.h:55-56).                                            *)
THEOREM ListTypeCorrect == ListSpec => []ListTypeOK
BY ListInvariance, PTL DEF ListIInv

(* The reader's node is never freed, and the node it moves to neither: an     *)
(* erase stops at the mHead it was called with, which the reader can only     *)
(* have left behind (LockFreeQueue.h:39, 51-56).                              *)
THEOREM ReaderSafe == ListSpec => []ReaderNodeLive
<1>1. ListIInv => ReaderNodeLive
  BY DEF ListIInv, ListTypeOK, Positions, ReaderNodeLive, Live, last
<1> QED
  BY ListInvariance, <1>1, PTL

(* push returns false only when mMaxSize elements were unread at its call     *)
(* (LockFreeQueue.h:39-43).                                                   *)
THEOREM HonestRejection == ListSpec => []RejectOnlyWhenFull
<1>1. ListIInv => RejectOnlyWhenFull
  BY DEF ListIInv, Positions, RejectOnlyWhenFull
<1> QED
  BY ListInvariance, <1>1, PTL

--------------------------------------------------------------------------------
Unread == SubSeq(content, mHead + 1, last)

(* What a suffix of a sequence holds.                                         *)
LEMMA Suffix ==
    ASSUME NEW s \in Seq(Items), NEW m \in 0..Len(s)
    PROVE  /\ SubSeq(s, m + 1, Len(s)) \in Seq(Items)
           /\ Len(SubSeq(s, m + 1, Len(s))) = Len(s) - m
           /\ \A i \in 1..(Len(s) - m) : SubSeq(s, m + 1, Len(s))[i] = s[m + i]
OBVIOUS

(* The unread elements as a sequence.                                         *)
LEMMA UnreadFacts ==
    ASSUME ListIInv
    PROVE  /\ Unread \in Seq(Items)
           /\ Len(Unread) = last - mHead
           /\ \A i \in 1..(last - mHead) : Unread[i] = content[mHead + i]
<1>1. mHead \in 0..Len(content)
  BY DEF ListIInv, ListTypeOK, Positions, last
<1> QED
  BY <1>1, Suffix DEF ListIInv, ListTypeOK, Unread, last

(* Linking a node appends its value to the unread elements.                   *)
LEMMA LinkEnqueues ==
    ASSUME ListIInv, ListIInv', PushLink
    PROVE  Fifo!Enqueue(data)
<1>1. /\ content \in Seq(Items) /\ data \in Items
      /\ content' = Append(content, data) /\ mHead' = mHead
      /\ mHead \in Nat
  BY DEF ListIInv, ListTypeOK, PushLink
<1>2. /\ last' = last + 1 /\ last \in Nat
      /\ mHead <= last
      /\ content' \in Seq(Items)
      /\ \A i \in 1..last : content'[i] = content[i]
      /\ content'[last + 1] = data
  <2>1. mHead <= last
    BY DEF ListIInv, Positions
  <2> QED
    BY <1>1, <2>1 DEF last
<1>3. last - mHead < mMaxSize
  BY <1>1, <1>2, MaxSizeAssumption DEF PushLink, size, ListIInv, ListTypeOK, Positions
<1>4. Unread' = Append(Unread, data)
  <2>1. /\ Unread' \in Seq(Items)
        /\ Len(Unread') = last - mHead + 1
        /\ \A i \in 1..(last - mHead + 1) : Unread'[i] = content'[mHead + i]
    <3>1. mHead \in 0..Len(content') /\ Len(content') = last + 1
      BY <1>1, <1>2 DEF last
    <3>2. /\ SubSeq(content', mHead + 1, Len(content')) \in Seq(Items)
          /\ Len(SubSeq(content', mHead + 1, Len(content'))) = Len(content') - mHead
          /\ \A i \in 1..(Len(content') - mHead) :
                SubSeq(content', mHead + 1, Len(content'))[i] = content'[mHead + i]
      BY <1>2, <3>1, Suffix
    <3>3. Unread' = SubSeq(content', mHead + 1, Len(content'))
      BY <1>1 DEF Unread, last
    <3>4. Len(content') - mHead = last - mHead + 1
      BY <1>1, <1>2, <3>1
    <3> QED
      BY <3>2, <3>3, <3>4
  <2>2. /\ Append(Unread, data) \in Seq(Items)
        /\ Len(Append(Unread, data)) = last - mHead + 1
        /\ Append(Unread, data)[last - mHead + 1] = data
        /\ \A i \in 1..(last - mHead) : Append(Unread, data)[i] = content[mHead + i]
    BY <1>1, UnreadFacts, AppendProperties
  <2>3. ASSUME NEW i \in 1..(last - mHead + 1)
        PROVE  Unread'[i] = Append(Unread, data)[i]
    <3>1. CASE i = last - mHead + 1
      <4>1. mHead + i = last + 1
        BY <1>1, <1>2, <3>1
      <4> QED
        BY <1>2, <2>1, <2>2, <3>1, <4>1
    <3>2. CASE i # last - mHead + 1
      <4>1. i \in 1..(last - mHead) /\ mHead + i \in 1..last
        BY <1>1, <1>2, <3>2
      <4> QED
        BY <1>2, <2>1, <2>2, <4>1
    <3> QED
      BY <3>1, <3>2
  <2> QED
    BY <2>1, <2>2, <2>3, SeqEqual
<1> QED
  BY <1>3, <1>4, UnreadFacts DEF Fifo!Enqueue, Unread

(* Advancing mHead takes the oldest unread element.                           *)
LEMMA AdvanceDequeues ==
    ASSUME ListIInv, ListIInv', PopAdvance
    PROVE  \E x \in Items : Fifo!Dequeue(x)
<1> USE DEF ListIInv, ListTypeOK, Positions
<1>1. content' = content /\ mHead' = mHead + 1 /\ mHead + 1 <= last
  BY DEF PopAdvance
<1>2. last' = last /\ last \in Nat
  BY <1>1 DEF last
<1>3. Unread # <<>> /\ Head(Unread) \in Items
  BY <1>1, <1>2, UnreadFacts
<1>4. Unread' = Tail(Unread)
  <2>1. Unread' \in Seq(Items) /\ Len(Unread') = last - mHead - 1
    BY <1>1, <1>2 DEF Unread, last
  <2>2. Tail(Unread) \in Seq(Items) /\ Len(Tail(Unread)) = last - mHead - 1
    BY <1>3, UnreadFacts
  <2>3. \A i \in 1..(last - mHead - 1) : Unread'[i] = Tail(Unread)[i]
    BY <1>1, <1>2, <1>3, UnreadFacts DEF Unread, last
  <2> QED
    BY <2>1, <2>2, <2>3, SeqEqual
<1> QED
  BY <1>3, <1>4 DEF Fifo!Dequeue, Unread

(* Every step of the two sides is a step of the bounded FIFO, or leaves the   *)
(* unread elements alone.                                                     *)
LEMMA ListNextImplements == ListIInv /\ ListIInv' /\ [ListNext]_list => [Fifo!Next]_Unread
<1> SUFFICES ASSUME ListIInv, ListIInv', [ListNext]_list
             PROVE  Fifo!Next \/ Unread' = Unread
  OBVIOUS
<1>1. CASE PushLink
  BY <1>1, LinkEnqueues DEF Fifo!Next, ListIInv, ListTypeOK
<1>2. CASE PopAdvance
  BY <1>2, AdvanceDequeues DEF Fifo!Next
<1>3. ASSUME content' = content, mHead' = mHead
      PROVE  Unread' = Unread
  BY <1>3 DEF Unread, last
<1> QED
  BY <1>1, <1>2, <1>3
     DEF ListNext, Writer, Reader, PushStart, PushErase, PushReject, PushFull, PopNext,
         PopCopy, list

(* The lock-free list is a FIFO that holds at most mMaxSize unread elements,  *)
(* whatever the interleaving of its writer and its reader.                    *)
THEOREM ListRefinement == ListSpec => ImplementsFifo
<1>1. ListInit => Fifo!Init
  BY DEF ListInit, Fifo!Init, last
<1>2. [Fifo!Next]_Unread => [Fifo!Next]_(SubSeq(content, mHead + 1, last))
  BY DEF Unread
<1> QED
  BY <1>1, <1>2, ListInvariance, ListNextImplements, PTL DEF ListSpec, ImplementsFifo, Fifo!Spec
================================================================================
