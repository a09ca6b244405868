------------------------- MODULE XLEventQueue_proofs --------------------------
(***************************************************************************)
(* XLEventQueue for every number of writers and readers, every mMaxSize    *)
(* and every number of Puts: mutual exclusion on the ends, the semaphore   *)
(* counts the elements, each event is linked once and in its writer's      *)
(* order, and the queue implements a bounded FIFO.                         *)
(***************************************************************************)
EXTENDS XLEventQueue, FiniteSetTheorems, SequenceTheorems, TLAPS

(* A queue that is not created is left alone, and the size a push works with  *)
(* can only have become too large since it was taken: no other writer links.  *)
Lifetime == ~mCreated => mSem = 0 /\ Quiescent
Scanned  == \A w \in Writers : pc[w] = "put_link" => Len(mQ) <= seen[w]

\* Where a thread is a token that is not in the semaphore.
Tokens == {"get_lock", "get_pop", "put_unlock", "put_give"}

IInv == TypeOK /\ TokensMatch /\ Lifetime /\ Scanned

--------------------------------------------------------------------------------
(* How a step of one thread changes the number of threads in transit.         *)
LEMMA Counting ==
    ASSUME NEW t \in Threads, NEW l \in Labels,
           pc \in [Threads -> Labels], Goto(t, l)
    PROVE  /\ Cardinality(InTransit) \in Nat
           /\ (pc[t] \in Tokens <=> l \in Tokens)
                 => Cardinality(InTransit') = Cardinality(InTransit)
           /\ pc[t] \notin Tokens /\ l \in Tokens
                 => Cardinality(InTransit') = Cardinality(InTransit) + 1
           /\ pc[t] \in Tokens /\ l \notin Tokens
                 => Cardinality(InTransit') = Cardinality(InTransit) - 1
<1>1. IsFiniteSet(Threads)
  BY ThreadsAssumption, FS_Union DEF Threads
<1>2. IsFiniteSet(InTransit)
  BY <1>1, FS_Subset DEF InTransit, In
<1>3. CASE pc[t] \in Tokens <=> l \in Tokens
  <2>1. InTransit' = InTransit
    BY <1>3 DEF InTransit, In, Goto, Tokens
  <2> QED
    BY <1>2, <1>3, <2>1, FS_CardinalityType
<1>4. CASE pc[t] \notin Tokens /\ l \in Tokens
  <2>1. InTransit' = InTransit \cup {t} /\ t \notin InTransit
    BY <1>4 DEF InTransit, In, Goto, Tokens
  <2> QED
    BY <1>2, <1>4, <2>1, FS_AddElement, FS_CardinalityType
<1>5. CASE pc[t] \in Tokens /\ l \notin Tokens
  <2>1. InTransit' = InTransit \ {t} /\ t \in InTransit
    BY <1>5 DEF InTransit, In, Goto, Tokens
  <2> QED
    BY <1>2, <1>5, <2>1, FS_RemoveElement, FS_CardinalityType
<1> QED
  BY <1>3, <1>4, <1>5

(* At most one writer is between the lock and the unlock of its end.          *)
LEMMA OneWriter ==
    ASSUME TypeOK, NEW v \in Writers, NEW w \in Writers,
           pc[v] \in WriterCritical, pc[w] \in WriterCritical
    PROVE  v = w
BY PropertiesAssumption DEF TypeOK, EndsLocked

(* The queue starts empty and not created.                                    *)
LEMMA InitIInv == Init => IInv
<1> SUFFICES ASSUME Init
             PROVE  IInv
  OBVIOUS
<1> USE DEF Init
<1>1. mEvent \in Event /\ arg \in [Writers -> Event]
  BY SizeAssumption DEF Event
<1>2. /\ mMut \in [{0, 1} -> Threads \cup {NoThread}]
      /\ pc \in [Threads -> Labels]
      /\ seen \in [Writers -> Nat]
  BY DEF Labels
<1>3. mQ \in Seq(Event) /\ got \in Seq(Event) /\ refused \subseteq Event
  OBVIOUS
<1>4. mCreated \in BOOLEAN /\ mSem \in Nat /\ puts \in Nat /\ stranded \in Nat
  OBVIOUS
<1>5. EndsLocked
  BY ThreadsAssumption DEF EndsLocked, Threads, WriterCritical, ReaderCritical
<1>6. InTransit = {}
  BY DEF InTransit, In
<1>7. Cardinality({}) = 0
  BY FS_EmptySet
<1>8. TokensMatch
  <2>1. Len(mQ) = 0 /\ stranded = 0 /\ mSem = 0
    OBVIOUS
  <2> HIDE DEF Init
  <2> QED
    BY <1>6, <1>7, <2>1 DEF TokensMatch
<1>9. Lifetime /\ Scanned
  BY DEF Lifetime, Scanned, Quiescent, Threads
<1> QED
  BY <1>1, <1>2, <1>3, <1>4, <1>5, <1>8, <1>9 DEF IInv, TypeOK, Typed

--------------------------------------------------------------------------------
(* A step that leaves the list, the semaphore and its thread's debt alone     *)
(* keeps the tokens.                                                          *)
LEMMA TokensKept ==
    ASSUME TypeOK, TokensMatch, NEW t \in Threads, NEW l \in Labels, Goto(t, l),
           pc[t] \in Tokens <=> l \in Tokens,
           mQ' = mQ, mSem' = mSem, stranded' = stranded
    PROVE  TokensMatch'
<1>1. Cardinality(InTransit') = Cardinality(InTransit)
  BY Counting DEF TypeOK, Typed
<1> QED
  BY <1>1 DEF TokensMatch

(* The steps of a writer keep the invariant.                                  *)
LEMMA WriterIInv ==
    ASSUME IInv, NEW w \in Writers, PutCall(w) \/ PutStep(w)
    PROVE  IInv'
<1> w \in Threads
  BY DEF Threads
<1> USE ThreadsAssumption, SizeAssumption DEF IInv, TypeOK
<1>1. CASE PutCall(w)
  <2> USE <1>1 DEF PutCall, shared
  <2>1. Typed'
    <3>1. <<w, puts + 1>> \in Event
      BY DEF Typed, Event
    <3>2. arg' \in [Writers -> Event] /\ puts' \in Nat
      BY <3>1 DEF Typed
    <3> QED
      BY <3>2 DEF Typed, Goto, Labels
  <2>2. EndsLocked'
    BY DEF Typed, EndsLocked, Goto, WriterCritical, ReaderCritical
  <2>3. TokensMatch'
    BY TokensKept DEF Labels, Tokens
  <2>4. Lifetime' /\ Scanned'
    BY DEF Typed, Lifetime, Scanned, Goto
  <2> QED
    BY <2>1, <2>2, <2>3, <2>4
<1>2. CASE PutLock(w)
  <2> USE <1>2 DEF PutLock, history
  <2>1. /\ mMut' \in [{0, 1} -> Threads \cup {NoThread}]
        /\ mMut'[0] = mMut[0]
        /\ MultiWriter => mMut[1] = NoThread /\ mMut'[1] = w
    BY DEF Typed
  <2>2. Typed'
    BY <2>1 DEF Typed, Goto, Labels
  <2>3. EndsLocked'
    BY <2>1 DEF Typed, EndsLocked, Goto, WriterCritical, ReaderCritical, Threads
  <2>4. TokensMatch'
    BY TokensKept DEF Labels, Tokens
  <2>5. Lifetime' /\ Scanned'
    BY DEF Typed, Lifetime, Scanned, Goto, Quiescent
  <2> QED
    BY <2>2, <2>3, <2>4, <2>5
<1>3. CASE PutStage(w)
  <2> USE <1>3 DEF PutStage, history
  <2>1. Typed'
    BY DEF Typed, Goto, Labels
  <2>2. EndsLocked'
    BY DEF Typed, EndsLocked, Goto, WriterCritical, ReaderCritical
  <2>3. TokensMatch'
    BY TokensKept DEF Labels, Tokens
  <2>4. Lifetime' /\ Scanned'
    BY DEF Typed, Lifetime, Scanned, Goto, Quiescent
  <2> QED
    BY <2>1, <2>2, <2>3, <2>4
<1>4. CASE PutScan(w)
  <2> USE <1>4 DEF PutScan, shared, history
  <2>1. Typed'
    BY DEF Typed, Goto, Labels
  <2>2. EndsLocked'
    BY DEF Typed, EndsLocked, Goto, WriterCritical, ReaderCritical
  <2>3. TokensMatch'
    BY TokensKept DEF Labels, Tokens
  <2>4. Lifetime' /\ Scanned'
    BY DEF Typed, Lifetime, Scanned, Goto, Quiescent
  <2> QED
    BY <2>1, <2>2, <2>3, <2>4
<1>5. CASE PutLink(w)
  <2>1. PICK l \in {"put_unlock", "put_refuse"} :
           /\ Goto(w, l)
           /\ l = "put_refuse" => mQ' = mQ
           /\ l = "put_unlock" => mQ' = Append(mQ, mEvent)
    BY <1>5 DEF PutLink
  <2>2. /\ pc[w] = "put_link"
        /\ refused' = refused \/ refused' = refused \cup {arg[w]}
        /\ UNCHANGED <<mCreated, mSem, mMut, mEvent, arg, seen, puts, got, stranded>>
    BY <1>5 DEF PutLink
  <2>3. mQ' \in Seq(Event) /\ (l = "put_unlock" => Len(mQ') = Len(mQ) + 1)
    <3>1. mQ \in Seq(Event) /\ mEvent \in Event
      BY DEF Typed
    <3> QED
      BY <2>1, <3>1
  <2>4. refused' \subseteq Event
    BY <2>2 DEF Typed
  <2>5. Typed'
    BY <2>1, <2>2, <2>3, <2>4 DEF Typed, Goto, Labels
  <2>6. EndsLocked'
    BY <2>1, <2>2 DEF Typed, EndsLocked, Goto, WriterCritical, ReaderCritical
  <2>7. TokensMatch'
    <3>1. CASE l = "put_refuse"
      BY <2>1, <2>2, <3>1, TokensKept DEF Labels, Tokens
    <3>2. CASE l = "put_unlock"
      <4>1. Cardinality(InTransit') = Cardinality(InTransit) + 1 /\ Cardinality(InTransit) \in Nat
        BY <2>1, <2>2, <3>2, Counting DEF Labels, Tokens, Typed
      <4> QED
        BY <2>2, <2>3, <3>2, <4>1 DEF TokensMatch, Typed
    <3> QED
      BY <3>1, <3>2
  <2>8. Lifetime'
    BY <2>1, <2>2 DEF Typed, Lifetime, Goto, Quiescent
  <2>9. Scanned'
    <3>1. ASSUME NEW v \in Writers, pc[v] = "put_link"
          PROVE  v = w
      BY <2>2, <3>1, OneWriter DEF WriterCritical
    <3>2. \A v \in Writers : pc'[v] # "put_link"
      BY <2>1, <2>2, <3>1 DEF Typed, Goto
    <3> QED
      BY <3>2 DEF Scanned
  <2> QED
    BY <2>5, <2>6, <2>7, <2>8, <2>9
<1>6. CASE PutUnlock(w)
  <2>1. PICK l \in {"put_give", "idle"} :
           /\ Goto(w, l)
           /\ pc[w] \in WriterCritical
           /\ pc[w] \in Tokens <=> l \in Tokens
    BY <1>6 DEF PutUnlock, WriterCritical, Tokens
  <2>2. /\ mMut' \in [{0, 1} -> Threads \cup {NoThread}]
        /\ mMut'[0] = mMut[0] /\ mMut'[1] = NoThread
    BY <1>6 DEF PutUnlock, Unlock, Typed
  <2>3. UNCHANGED <<mCreated, mSem, mQ, mEvent, arg, seen, history>>
    BY <1>6 DEF PutUnlock
  <2> USE <2>3 DEF history
  <2>4. Typed'
    BY <2>1, <2>2 DEF Typed, Goto, Labels
  <2>5. EndsLocked'
    BY <2>1, <2>2 DEF Typed, EndsLocked, Goto, WriterCritical, ReaderCritical, Threads
  <2>6. TokensMatch'
    BY <2>1, TokensKept DEF Labels
  <2>7. Lifetime' /\ Scanned'
    <3>1. ~Quiescent
      BY <2>1 DEF WriterCritical, Quiescent
    <3> QED
      BY <2>1, <3>1 DEF Typed, Lifetime, Scanned, Goto
  <2> QED
    BY <2>4, <2>5, <2>6, <2>7
<1>7. CASE PutGive(w)
  <2> USE <1>7 DEF PutGive, Sem!Give, history
  <2>1. Typed'
    BY DEF Typed, Goto, Labels
  <2>2. EndsLocked'
    BY DEF Typed, EndsLocked, Goto, WriterCritical, ReaderCritical
  <2>3. TokensMatch'
    <3>1. Cardinality(InTransit') = Cardinality(InTransit) - 1 /\ Cardinality(InTransit) \in Nat
      BY Counting DEF Labels, Tokens, Goto, Typed
    <3>2. mSem' = mSem + 1 /\ mQ' = mQ /\ stranded' = stranded
      OBVIOUS
    <3> QED
      BY <3>1, <3>2 DEF TokensMatch, Typed
  <2>4. Lifetime' /\ Scanned'
    BY DEF Typed, Lifetime, Scanned, Goto, Quiescent
  <2> QED
    BY <2>1, <2>2, <2>3, <2>4
<1> QED
  BY <1>1, <1>2, <1>3, <1>4, <1>5, <1>6, <1>7 DEF PutStep

(* The steps of a reader keep the invariant; a reader that holds a permit     *)
(* finds an element.                                                          *)
LEMMA ReaderIInv ==
    ASSUME IInv, NEW r \in Readers, GetCall(r) \/ GetStep(r)
    PROVE  IInv'
<1> r \in Threads
  BY DEF Threads
<1> USE ThreadsAssumption DEF IInv, TypeOK
<1>1. CASE GetCall(r)
  <2> USE <1>1 DEF GetCall, shared, history
  <2>1. Typed'
    BY DEF Typed, Goto, Labels
  <2>2. EndsLocked'
    BY DEF Typed, EndsLocked, Goto, WriterCritical, ReaderCritical
  <2>3. TokensMatch'
    BY TokensKept DEF Labels, Tokens
  <2>4. Lifetime' /\ Scanned'
    BY DEF Typed, Lifetime, Scanned, Goto
  <2> QED
    BY <2>1, <2>2, <2>3, <2>4
<1>2. CASE GetTake(r)
  <2> USE <1>2 DEF GetTake, Sem!Take, history
  <2>1. Typed'
    BY DEF Typed, Goto, Labels
  <2>2. EndsLocked'
    BY DEF Typed, EndsLocked, Goto, WriterCritical, ReaderCritical
  <2>3. TokensMatch'
    <3>1. Cardinality(InTransit') = Cardinality(InTransit) + 1 /\ Cardinality(InTransit) \in Nat
      BY Counting DEF Labels, Tokens, Typed
    <3>2. mSem' = mSem - 1 /\ mQ' = mQ /\ stranded' = stranded
      OBVIOUS
    <3> QED
      BY <3>1, <3>2, SMTT(30) DEF TokensMatch, Typed
  <2>4. Lifetime' /\ Scanned'
    BY DEF Typed, Lifetime, Scanned, Goto
  <2> QED
    BY <2>1, <2>2, <2>3, <2>4
<1>3. CASE GetLock(r)
  <2> USE <1>3 DEF GetLock, history
  <2>1. /\ mMut' \in [{0, 1} -> Threads \cup {NoThread}]
        /\ mMut'[1] = mMut[1]
        /\ MultiReader => mMut[0] = NoThread /\ mMut'[0] = r
    BY DEF Typed
  <2>2. Typed'
    BY <2>1 DEF Typed, Goto, Labels
  <2>3. EndsLocked'
    BY <2>1 DEF Typed, EndsLocked, Goto, WriterCritical, ReaderCritical, Threads
  <2>4. TokensMatch'
    BY TokensKept DEF Labels, Tokens
  <2>5. Lifetime' /\ Scanned'
    BY DEF Typed, Lifetime, Scanned, Goto, Quiescent
  <2> QED
    BY <2>2, <2>3, <2>4, <2>5
<1>4. CASE GetPop(r)
  <2>1. /\ pc[r] = "get_pop" /\ Goto(r, "get_unlock")
        /\ UNCHANGED <<mCreated, mSem, mMut, mEvent, arg, seen, puts, refused, stranded>>
    BY <1>4 DEF GetPop
  <2>2. /\ Cardinality(InTransit') = Cardinality(InTransit) - 1
        /\ Cardinality(InTransit) \in Nat /\ Cardinality(InTransit') \in Nat
    <3>1. Cardinality(InTransit') = Cardinality(InTransit) - 1 /\ Cardinality(InTransit) \in Nat
      BY <2>1, Counting DEF Labels, Tokens, Typed
    <3>2. r \in InTransit
      BY <2>1 DEF InTransit, In
    <3>3. IsFiniteSet(InTransit)
      BY ThreadsAssumption, FS_Union, FS_Subset DEF InTransit, In, Threads
    <3>4. Cardinality(InTransit) # 0
      BY <3>2, <3>3, FS_EmptySet
    <3> QED
      BY <3>1, <3>4
  <2>3. mQ # <<>>
    BY <2>2 DEF TokensMatch, Typed
  <2>4. /\ mQ' = Tail(mQ) /\ got' = Append(got, Head(mQ))
        /\ mQ' \in Seq(Event) /\ Len(mQ') = Len(mQ) - 1
        /\ got' \in Seq(Event)
    <3>1. mQ' = Tail(mQ) /\ got' = Append(got, Head(mQ))
      BY <1>4, <2>3 DEF GetPop
    <3>2. mQ \in Seq(Event) /\ got \in Seq(Event)
      BY DEF Typed
    <3>3. Head(mQ) \in Event /\ Tail(mQ) \in Seq(Event) /\ Len(Tail(mQ)) = Len(mQ) - 1
      BY <2>3, <3>2
    <3> QED
      BY <3>1, <3>2, <3>3
  <2>5. Typed'
    BY <2>1, <2>4 DEF Typed, Goto, Labels
  <2>6. EndsLocked'
    BY <2>1 DEF Typed, EndsLocked, Goto, WriterCritical, ReaderCritical
  <2>7. TokensMatch'
    BY <2>1, <2>2, <2>4 DEF TokensMatch, Typed
  <2>8. Lifetime' /\ Scanned'
    BY <2>1, <2>4 DEF Typed, Lifetime, Scanned, Goto, Quiescent
  <2> QED
    BY <2>5, <2>6, <2>7, <2>8
<1>5. CASE GetUnlock(r)
  <2> USE <1>5 DEF GetUnlock, Unlock, history
  <2>1. /\ mMut' \in [{0, 1} -> Threads \cup {NoThread}]
        /\ mMut'[1] = mMut[1] /\ mMut'[0] = NoThread
    BY DEF Typed
  <2>2. Typed'
    BY <2>1 DEF Typed, Goto, Labels
  <2>3. EndsLocked'
    BY <2>1 DEF Typed, EndsLocked, Goto, WriterCritical, ReaderCritical, Threads
  <2>4. TokensMatch'
    BY TokensKept DEF Labels, Tokens
  <2>5. Lifetime' /\ Scanned'
    BY DEF Typed, Lifetime, Scanned, Goto, Quiescent
  <2> QED
    BY <2>2, <2>3, <2>4, <2>5
<1> QED
  BY <1>1, <1>2, <1>3, <1>4, <1>5 DEF GetStep

(* So do Create and Destroy, between which the list keeps its elements.       *)
LEMMA LifeIInv ==
    ASSUME IInv, Quiescent, Create \/ Destroy
    PROVE  IInv'
<1> USE DEF IInv, TypeOK, Create, Destroy, Sem!Create, Sem!Destroy, history
<1>1. /\ mSem' = 0 /\ mCreated' \in BOOLEAN
      /\ UNCHANGED <<mMut, mQ, mEvent, pc, arg, seen, puts, got, refused>>
      /\ stranded' \in Nat
      /\ stranded' = stranded \/ stranded' = Len(mQ)
  <2>1. CASE Create
    BY <2>1 DEF Typed
  <2>2. CASE Destroy
    <3>1. Len(mQ) \in Nat
      BY DEF Typed
    <3> QED
      BY <2>2, <3>1
  <2> QED
    BY <2>1, <2>2
<1>2. InTransit = {} /\ InTransit' = {}
  BY <1>1 DEF InTransit, In, Quiescent
<1>3. Cardinality({}) = 0
  BY FS_EmptySet
<1>4. mCreated \/ (Len(mQ) = stranded /\ stranded' = stranded)
  BY <1>2, <1>3 DEF TokensMatch, Lifetime, Typed
<1>5. TokensMatch'
  <2>1. Len(mQ') = stranded'
    BY <1>1, <1>4
  <2> QED
    BY <1>1, <1>2, <1>3, <2>1 DEF TokensMatch
<1>6. Typed'
  BY <1>1 DEF Typed
<1>7. EndsLocked' /\ Lifetime' /\ Scanned'
  BY <1>1 DEF EndsLocked, Lifetime, Scanned, Quiescent
<1> QED
  BY <1>5, <1>6, <1>7

(* Every step keeps the invariant.                                            *)
LEMMA NextIInv == IInv /\ [Next]_vars => IInv'
<1> SUFFICES ASSUME IInv, [Next]_vars
             PROVE  IInv'
  OBVIOUS
<1>1. CASE UNCHANGED vars
  <2> USE <1>1 DEF vars, shared, history
  <2>1. Typed' /\ EndsLocked'
    BY DEF IInv, TypeOK, Typed, EndsLocked
  <2>2. TokensMatch'
    BY DEF IInv, TokensMatch, InTransit, In
  <2>3. Lifetime' /\ Scanned'
    BY DEF IInv, Lifetime, Scanned, Quiescent
  <2> QED
    BY <2>1, <2>2, <2>3 DEF IInv, TypeOK
<1> QED
  BY <1>1, WriterIInv, ReaderIInv, LifeIInv DEF Next

(* The invariant holds throughout.                                            *)
THEOREM Invariance == Spec => []IInv
BY InitIInv, NextIInv, PTL DEF Spec

(* Types, and mutual exclusion on each end that is shared                     *)
(* (XLEventQueue.cpp:104-131).                                                *)
THEOREM TypeCorrect == Spec => []TypeOK
BY Invariance, PTL DEF IInv

(* The semaphore counts the elements, although Put gives outside its lock     *)
(* (XLEventQueue.cpp:71-75, 94-97).                                           *)
THEOREM TokensCounted == Spec => []TokensMatch
BY Invariance, PTL DEF IInv

--------------------------------------------------------------------------------
(* Linking an element that the scan had room for is an Enqueue, popping is a  *)
(* Dequeue, and no other step touches the elements.                           *)
LEMMA NextImplements == IInv /\ [Next]_vars => [Fifo!Next]_mQ
<1> SUFFICES ASSUME IInv, [Next]_vars, mQ' # mQ
             PROVE  Fifo!Next
  OBVIOUS
<1>1. ASSUME NEW w \in Writers, PutLink(w)
      PROVE  Fifo!Next
  <2>1. /\ pc[w] = "put_link" /\ seen[w] < mMaxSize
        /\ mQ' = Append(mQ, mEvent)
    BY <1>1 DEF PutLink
  <2>2. Len(mQ) <= seen[w] /\ seen[w] \in Nat /\ Len(mQ) \in Nat /\ mEvent \in Event
    BY <2>1 DEF IInv, Scanned, TypeOK, Typed
  <2>3. Len(mQ) < mMaxSize
    BY <2>1, <2>2, SizeAssumption
  <2> QED
    BY <2>1, <2>2, <2>3 DEF Fifo!Next, Fifo!Enqueue
<1>2. ASSUME NEW r \in Readers, GetPop(r)
      PROVE  Fifo!Next
  <2>1. mQ # <<>> /\ mQ' = Tail(mQ)
    BY <1>2 DEF GetPop
  <2>2. Head(mQ) \in Event
    BY <2>1 DEF IInv, TypeOK, Typed
  <2> QED
    BY <2>1, <2>2 DEF Fifo!Next, Fifo!Dequeue
<1> QED
  BY <1>1, <1>2
     DEF Next, PutCall, PutStep, PutLock, PutStage, PutScan, PutUnlock, PutGive, GetCall,
         GetStep, GetTake, GetLock, GetUnlock, Create, Destroy, shared, vars

(* The queue implements a bounded FIFO of mMaxSize events, for every number   *)
(* of writers and readers (XLEventQueue.cpp:60-101).                          *)
THEOREM Refinement == Spec => ImplementsFifo
<1>1. Init => Fifo!Init
  BY DEF Init, Fifo!Init
<1> QED
  BY <1>1, Invariance, NextImplements, PTL DEF Spec, ImplementsFifo, Fifo!Spec

--------------------------------------------------------------------------------
(* Exactly once, in order: the lock of the writers' end is what keeps the     *)
(* one member mEvent the argument of the writer that links it.                *)

\* The events linked so far
LinkedSet == {Linked[i] : i \in 1..Len(Linked)}

\* A writer between its copy to mEvent and its push finds its own event there.
Staged == \A w \in Writers : pc[w] \in {"put_scan", "put_link"} => mEvent = arg[w]

\* The events are numbered in the order in which their Puts begin.
Own == \A w \in Writers : /\ arg[w][1] = w /\ arg[w][2] <= puts
                          /\ ~Ended(w) => arg[w][2] > 0

\* Every event linked or refused is an earlier one than its writer is about to link.
Behind == \A e \in LinkedSet \cup refused :
             /\ e[2] > 0 /\ e[2] <= arg[e[1]][2]
             /\ ~Ended(e[1]) => e[2] # arg[e[1]][2]

Ordered == \A i, j \in 1..Len(Linked) :
              i < j /\ Linked[i][1] = Linked[j][1] => Linked[i][2] < Linked[j][2]

\* A Put that has ended has been answered by what happened to its event.
Answered == \A w \in Writers : Ended(w) /\ arg[w][2] > 0 =>
               (arg[w] \in refused <=> arg[w] \notin LinkedSet)

Apart == LinkedSet \cap refused = {}

Once == Staged /\ Own /\ Behind /\ Ordered /\ Answered /\ Apart

--------------------------------------------------------------------------------
(* An event has a writer and a number.                                        *)
LEMMA EventParts ==
    ASSUME NEW e \in Event
    PROVE  e[1] \in Writers /\ e[2] \in Nat
BY DEF Event

(* The events linked so far are a sequence of events.                         *)
LEMMA LinkedTyped ==
    ASSUME Typed
    PROVE  /\ Linked \in Seq(Event) /\ Len(Linked) \in Nat
           /\ LinkedSet \subseteq Event
           /\ \A i \in 1..Len(Linked) : Linked[i] \in LinkedSet
<1>1. mQ \in Seq(Event) /\ got \in Seq(Event)
  BY DEF Typed
<1>2. Linked \in Seq(Event)
  BY <1>1, ConcatProperties DEF Linked
<1>3. Len(Linked) \in Nat /\ \A i \in 1..Len(Linked) : Linked[i] \in Event
  BY <1>2, LenProperties, ElementOfSeq
<1> QED
  BY <1>2, <1>3 DEF LinkedSet

(* A pop moves an event from the list to those read.                          *)
LEMMA PopKeeps ==
    ASSUME Typed, NEW r \in Readers, GetPop(r)
    PROVE  Linked' = Linked
<1>1. mQ \in Seq(Event) /\ got \in Seq(Event)
  BY DEF Typed
<1>2. CASE mQ = <<>>
  BY <1>2 DEF GetPop, Linked
<1>3. CASE mQ # <<>>
  <2> DEFINE one == <<Head(mQ)>>
             rest == Tail(mQ)
  <2>1. got' = Append(got, Head(mQ)) /\ mQ' = rest
    BY <1>3 DEF GetPop
  <2>2. one \in Seq(Event) /\ rest \in Seq(Event) /\ Head(mQ) \in Event
    BY <1>1, <1>3, HeadTailProperties
  <2>3. got' = got \o one
    BY <1>1, <2>1, <2>2, AppendIsConcat
  <2>4. mQ = one \o rest
    <3>1. /\ one \o rest \in Seq(Event) /\ Len(one \o rest) = 1 + Len(rest)
          /\ \A i \in 1 .. Len(one) + Len(rest) :
                (one \o rest)[i] = IF i <= Len(one) THEN one[i] ELSE rest[i - Len(one)]
      BY <2>2, ConcatProperties
    <3>2. /\ Len(rest) = Len(mQ) - 1 /\ Len(rest) \in Nat /\ Len(mQ) \in Nat
          /\ \A i \in 1 .. Len(rest) : rest[i] = mQ[i + 1]
      BY <1>1, <1>3, <2>2, HeadTailProperties, LenProperties
    <3>3. Len(one) = 1 /\ one[1] = mQ[1]
      BY <1>1, <1>3
    <3>4. ASSUME NEW i \in 1..Len(mQ)
          PROVE  mQ[i] = (one \o rest)[i]
      <4>1. CASE i = 1
        BY <4>1, <3>1, <3>2, <3>3
      <4>2. CASE i # 1
        <5>1. i - 1 \in 1..Len(rest) /\ (i - 1) + 1 = i /\ i \in 1 .. 1 + Len(rest) /\ ~(i <= 1)
          BY <4>2, <3>2
        <5>2. (one \o rest)[i] = rest[i - 1]
          BY <5>1, <3>1, <3>3
        <5> QED
          BY <5>1, <5>2, <3>2
      <4> QED
        BY <4>1, <4>2
    <3>5. one \o rest \in Seq(Event) /\ Len(one \o rest) = Len(mQ)
      BY <3>1, <3>2
    <3> QED
      BY ONLY <1>1, <3>4, <3>5, SeqEqual
  <2> QED
    BY <1>1, <2>1, <2>2, <2>3, <2>4, ConcatAssociative DEF Linked
<1> QED
  BY <1>2, <1>3

(* A push links the event at the end.                                         *)
LEMMA LinkAppends ==
    ASSUME Typed, mQ' = Append(mQ, mEvent), got' = got
    PROVE  /\ Len(Linked') = Len(Linked) + 1
           /\ \A i \in 1..Len(Linked) : Linked'[i] = Linked[i]
           /\ Linked'[Len(Linked) + 1] = mEvent
           /\ LinkedSet' = LinkedSet \cup {mEvent}
<1>1. mQ \in Seq(Event) /\ got \in Seq(Event) /\ mEvent \in Event
  BY DEF Typed
<1>2. <<mEvent>> \in Seq(Event) /\ mQ' = mQ \o <<mEvent>>
  BY <1>1, AppendIsConcat
<1>3. Linked \in Seq(Event) /\ Linked' = Append(Linked, mEvent)
  <2>1. Linked \in Seq(Event)
    BY LinkedTyped
  <2>2. Linked' = Linked \o <<mEvent>>
    BY <1>1, <1>2, ConcatAssociative DEF Linked
  <2> QED
    BY <1>1, <2>1, <2>2, AppendIsConcat
<1>4. /\ Len(Linked') = Len(Linked) + 1 /\ Len(Linked) \in Nat
      /\ \A i \in 1..Len(Linked) : Linked'[i] = Linked[i]
      /\ Linked'[Len(Linked) + 1] = mEvent
  BY <1>1, <1>3, AppendProperties, LenProperties
<1>5. LinkedSet' = LinkedSet \cup {mEvent}
  <2>1. 1..Len(Linked') = 1..Len(Linked) \cup {Len(Linked) + 1}
    BY <1>4
  <2> QED
    BY <2>1, <1>4 DEF LinkedSet
<1> QED
  BY <1>4, <1>5

--------------------------------------------------------------------------------
(* Nothing is linked, refused or being put at the start.                      *)
LEMMA InitOnce == Init => Once
<1> SUFFICES ASSUME Init
             PROVE  Once
  OBVIOUS
<1>1. got = <<>> /\ mQ = <<>> /\ refused = {} /\ puts = 0
      /\ arg = [w \in Writers |-> <<w, 0>>] /\ pc = [t \in Threads |-> "idle"]
  BY DEF Init
<1>2. <<>> \in Seq(Event) /\ Len(<<>>) = 0
  BY EmptySeq
<1>3. Linked = <<>>
  BY <1>1, <1>2, ConcatEmptySeq DEF Linked
<1>4. LinkedSet = {}
  BY <1>2, <1>3 DEF LinkedSet
<1>5. Staged /\ Behind /\ Apart /\ Ordered
  BY <1>1, <1>2, <1>3, <1>4 DEF Staged, Behind, Apart, Ordered, Threads
<1>6. Own
  BY <1>1 DEF Own, Ended, Threads
<1>7. Answered
  BY <1>1 DEF Answered
<1> QED
  BY <1>5, <1>6, <1>7 DEF Once

(* A step that neither begins nor ends a Put nor writes mEvent keeps order.   *)
LEMMA QuietOnce ==
    ASSUME Typed, Once, Linked' = Linked, UNCHANGED <<refused, arg, mEvent, puts>>,
           \A w \in Writers : Ended(w)' <=> Ended(w),
           \A w \in Writers : pc'[w] \in {"put_scan", "put_link"} => pc[w] \in {"put_scan", "put_link"}
    PROVE  Once'
<1>1. LinkedSet' = LinkedSet
  BY DEF LinkedSet
<1>2. \A e \in LinkedSet \cup refused : e[1] \in Writers
  BY LinkedTyped, EventParts DEF Typed
<1>3. Staged' /\ Ordered' /\ Apart'
  BY <1>1 DEF Once, Staged, Ordered, Apart
<1>4. Own'
  BY DEF Once, Own
<1>5. Behind'
  BY <1>1, <1>2 DEF Once, Behind
<1>6. Answered'
  BY <1>1 DEF Once, Answered
<1> QED
  BY <1>3, <1>4, <1>5, <1>6 DEF Once

(* PutCall gives the writer a later number than any other event has.          *)
LEMMA CallOnce ==
    ASSUME IInv, Once, NEW w \in Writers, PutCall(w)
    PROVE  Once'
<1> USE DEF Once
<1>1. /\ pc[w] = "idle" /\ pc' = [pc EXCEPT ![w] = "put_lock"]
      /\ puts' = puts + 1 /\ arg' = [arg EXCEPT ![w] = <<w, puts + 1>>]
      /\ UNCHANGED <<mEvent, refused, got, mQ>>
  BY DEF PutCall, Goto, shared
<1>2. /\ Typed /\ w \in Threads /\ puts \in Nat /\ Writers \subseteq Threads
      /\ pc \in [Threads -> Labels] /\ arg \in [Writers -> Event]
  BY DEF IInv, TypeOK, Typed, Threads
<1>3. Linked' = Linked /\ LinkedSet' = LinkedSet
  BY <1>1 DEF Linked, LinkedSet
<1>4. /\ arg'[w][1] = w /\ arg'[w][2] = puts + 1
      /\ \A v \in Writers : v # w => arg'[v] = arg[v]
  BY <1>1, <1>2
<1>5. /\ pc'[w] = "put_lock"
      /\ \A v \in Writers : v # w => pc'[v] = pc[v]
  BY <1>1, <1>2
<1>6. \A e \in LinkedSet \cup refused : e[1] \in Writers /\ e[2] \in Nat
  BY <1>2, LinkedTyped, EventParts DEF Typed
<1>7. Staged' /\ Ordered' /\ Apart'
  BY <1>1, <1>3, <1>4, <1>5 DEF Staged, Ordered, Apart
<1>8. Own'
  <2>1. \A v \in Writers : arg[v][2] \in Nat
    BY <1>2, EventParts
  <2> QED
    BY <2>1, <1>1, <1>2, <1>4, <1>5 DEF Own, Ended
<1>9. Behind'
  <2>1. SUFFICES ASSUME NEW e \in LinkedSet \cup refused
                 PROVE  /\ e[2] > 0 /\ e[2] <= arg'[e[1]][2]
                        /\ ~Ended(e[1])' => e[2] # arg'[e[1]][2]
    BY <1>1, <1>3 DEF Behind
  <2>2. e[2] > 0 /\ e[2] <= arg[e[1]][2] /\ (~Ended(e[1]) => e[2] # arg[e[1]][2])
    BY DEF Behind
  <2>3. CASE e[1] = w
    <3>1. arg[w][2] <= puts /\ arg[w][2] \in Nat
      BY <1>2, EventParts DEF Own
    <3> QED
      BY <3>1, <2>2, <2>3, <1>2, <1>4, <1>6
  <2>4. CASE e[1] # w
    BY <2>2, <2>4, <1>4, <1>5, <1>6 DEF Ended
  <2> QED
    BY <2>3, <2>4
<1>10. Answered'
  BY <1>1, <1>3, <1>4, <1>5 DEF Answered, Ended
<1> QED
  BY <1>7, <1>8, <1>9, <1>10

(* PutStage: no other writer is between its copy to mEvent and its push.      *)
LEMMA StageOnce ==
    ASSUME IInv, Once, NEW w \in Writers, PutStage(w)
    PROVE  Once'
<1> USE DEF Once
<1>1. /\ pc[w] = "put_stage" /\ pc' = [pc EXCEPT ![w] = "put_scan"] /\ mEvent' = arg[w]
      /\ UNCHANGED <<arg, refused, got, mQ, puts>>
  BY DEF PutStage, Goto, history
<1>2. TypeOK /\ Typed /\ w \in Threads /\ Writers \subseteq Threads /\ pc \in [Threads -> Labels]
  BY DEF IInv, TypeOK, Typed, Threads
<1>3. \A v \in Writers : pc[v] \in {"put_scan", "put_link"} => v = w
  BY <1>1, <1>2, OneWriter DEF WriterCritical
<1>4. Linked' = Linked /\ LinkedSet' = LinkedSet
  BY <1>1 DEF Linked, LinkedSet
<1>5. \A v \in Writers : Ended(v)' <=> Ended(v)
  BY <1>1, <1>2 DEF Ended
<1>6. \A e \in LinkedSet \cup refused : e[1] \in Writers
  BY <1>2, LinkedTyped, EventParts DEF Typed
<1>7. Staged'
  BY <1>1, <1>2, <1>3 DEF Staged
<1>8. Ordered' /\ Apart'
  BY <1>1, <1>4 DEF Ordered, Apart
<1>9. Own' /\ Answered'
  BY <1>1, <1>4, <1>5 DEF Own, Answered
<1>10. Behind'
  BY <1>1, <1>4, <1>5, <1>6 DEF Behind
<1> QED
  BY <1>7, <1>8, <1>9, <1>10

(* PutLink links the writer's own event, or refuses it.                       *)
LEMMA LinkOnce ==
    ASSUME IInv, Once, NEW w \in Writers, PutLink(w)
    PROVE  Once'
<1> USE DEF Once
<1>1. pc[w] = "put_link" /\ UNCHANGED <<mEvent, arg, puts, got>>
  BY DEF PutLink
<1>2. /\ TypeOK /\ Typed /\ w \in Threads /\ Writers \subseteq Threads
      /\ pc \in [Threads -> Labels] /\ arg \in [Writers -> Event]
  BY DEF IInv, TypeOK, Typed, Threads
<1>3. mEvent = arg[w] /\ ~Ended(w) /\ arg[w][1] = w /\ arg[w][2] > 0 /\ arg[w][2] \in Nat
  BY <1>1, <1>2, EventParts DEF Staged, Ended, Own
<1>4. \A e \in LinkedSet \cup refused : e[1] \in Writers /\ e[2] \in Nat
  BY <1>2, LinkedTyped, EventParts DEF Typed
<1>5. \A e \in LinkedSet \cup refused : e # arg[w] /\ (e[1] = w => e[2] < arg[w][2])
  BY <1>3, <1>4 DEF Behind
<1>6. PICK l \in {"put_unlock", "put_refuse"} : pc' = [pc EXCEPT ![w] = l]
  BY DEF PutLink, Goto
<1>7. Ended(w)' /\ \A v \in Writers : v # w => (pc'[v] = pc[v] /\ (Ended(v)' <=> Ended(v)))
  BY <1>2, <1>6 DEF Ended
<1>8. Staged' /\ Own'
  <2>1. pc'[w] \notin {"put_scan", "put_link"}
    BY <1>2, <1>6
  <2> QED
    BY <2>1, <1>1, <1>7 DEF Staged, Own
<1>9. \A v \in Writers : v # w => arg[v] # arg[w]
  BY <1>3 DEF Own
<1>10. CASE mQ' = Append(mQ, mEvent) /\ refused' = refused
  <2>1. /\ Len(Linked') = Len(Linked) + 1
        /\ \A i \in 1..Len(Linked) : Linked'[i] = Linked[i]
        /\ Linked'[Len(Linked) + 1] = arg[w]
        /\ LinkedSet' = LinkedSet \cup {arg[w]}
    BY <1>1, <1>2, <1>3, <1>10, LinkAppends
  <2>2. Len(Linked) \in Nat /\ \A i \in 1..Len(Linked) : Linked[i] \in LinkedSet
    BY <1>2, LinkedTyped
  <2>3. Ordered'
    <3>1. SUFFICES ASSUME NEW i \in 1..Len(Linked'), NEW j \in 1..Len(Linked'),
                          i < j, Linked'[i][1] = Linked'[j][1]
                   PROVE  Linked'[i][2] < Linked'[j][2]
      BY DEF Ordered
    <3>2. i \in 1..Len(Linked) /\ (j \in 1..Len(Linked) \/ j = Len(Linked) + 1)
      BY <2>1, <2>2, <3>1
    <3>3. CASE j \in 1..Len(Linked)
      BY <2>1, <3>1, <3>2, <3>3 DEF Ordered
    <3>4. CASE j = Len(Linked) + 1
      <4>1. Linked'[i] = Linked[i] /\ Linked'[j] = arg[w] /\ Linked[i] \in LinkedSet
        BY <2>1, <2>2, <3>2, <3>4
      <4> QED
        BY <4>1, <3>1, <1>3, <1>5
    <3> QED
      BY <3>2, <3>3, <3>4
  <2>4. Apart'
    BY <2>1, <1>5, <1>10 DEF Apart
  <2>5. Behind'
    <3>1. SUFFICES ASSUME NEW e \in LinkedSet \cup refused \cup {arg[w]}
                   PROVE  /\ e[2] > 0 /\ e[2] <= arg[e[1]][2]
                          /\ ~Ended(e[1])' => e[2] # arg[e[1]][2]
      BY <2>1, <1>1, <1>10 DEF Behind
    <3>2. CASE e = arg[w]
      BY <3>2, <1>3, <1>7
    <3>3. CASE e \in LinkedSet \cup refused
      BY <3>3, <1>4, <1>7 DEF Behind
    <3> QED
      BY <3>2, <3>3
  <2>6. Answered'
    BY <2>1, <1>1, <1>5, <1>7, <1>9, <1>10 DEF Answered
  <2> QED
    BY <2>3, <2>4, <2>5, <2>6, <1>8
<1>11. CASE mQ' = mQ /\ refused' = refused \cup {arg[w]}
  <2>1. Linked' = Linked /\ LinkedSet' = LinkedSet
    BY <1>1, <1>11 DEF Linked, LinkedSet
  <2>2. Ordered' /\ Apart'
    BY <2>1, <1>5, <1>11 DEF Ordered, Apart
  <2>3. Behind'
    <3>1. SUFFICES ASSUME NEW e \in LinkedSet \cup refused \cup {arg[w]}
                   PROVE  /\ e[2] > 0 /\ e[2] <= arg[e[1]][2]
                          /\ ~Ended(e[1])' => e[2] # arg[e[1]][2]
      BY <2>1, <1>1, <1>11 DEF Behind
    <3>2. CASE e = arg[w]
      BY <3>2, <1>3, <1>7
    <3>3. CASE e \in LinkedSet \cup refused
      BY <3>3, <1>4, <1>7 DEF Behind
    <3> QED
      BY <3>2, <3>3
  <2>4. Answered'
    BY <2>1, <1>1, <1>5, <1>7, <1>9, <1>11 DEF Answered
  <2> QED
    BY <2>2, <2>3, <2>4, <1>8
<1> QED
  BY <1>10, <1>11 DEF PutLink

(* Every step keeps the order.                                                *)
LEMMA NextOnce == IInv /\ Once /\ [Next]_vars => Once'
<1> SUFFICES ASSUME IInv, Once, [Next]_vars
             PROVE  Once'
  OBVIOUS
<1>1. /\ Typed /\ Writers \subseteq Threads /\ Readers \subseteq Threads
      /\ pc \in [Threads -> Labels] /\ Writers \cap Readers = {}
  BY ThreadsAssumption DEF IInv, TypeOK, Typed, Threads
<1>2. CASE UNCHANGED vars
  BY <1>1, <1>2, QuietOnce DEF vars, shared, history, Linked, Ended
<1>3. ASSUME NEW w \in Writers, PutLock(w) \/ PutScan(w) \/ PutUnlock(w) \/ PutGive(w)
      PROVE  Once'
  <2>1. /\ UNCHANGED <<got, mQ, refused, arg, mEvent, puts>>
        /\ \E l \in Labels : pc' = [pc EXCEPT ![w] = l]
        /\ pc[w] \in {"put_lock", "put_scan"} <=> pc'[w] \in {"put_stage", "put_link"}
        /\ pc[w] \in {"put_lock", "put_scan", "put_unlock", "put_refuse", "put_give"}
        /\ pc'[w] = "put_link" => pc[w] = "put_scan"
        /\ pc'[w] \in {"put_stage", "put_link", "put_give", "idle"}
    BY <1>1, <1>3 DEF PutLock, PutScan, PutUnlock, PutGive, Goto, shared, history, Labels
  <2>2. \A v \in Writers : v # w => pc'[v] = pc[v]
    BY <1>1, <2>1
  <2>3. \A v \in Writers : Ended(v)' <=> Ended(v)
    BY <2>1, <2>2 DEF Ended
  <2>4. \A v \in Writers : pc'[v] \in {"put_scan", "put_link"} => pc[v] \in {"put_scan", "put_link"}
    BY <2>1, <2>2
  <2>5. Linked' = Linked
    BY <2>1 DEF Linked
  <2> QED
    BY <1>1, <2>1, <2>3, <2>4, <2>5, QuietOnce
<1>4. ASSUME NEW r \in Readers, GetCall(r) \/ GetStep(r)
      PROVE  Once'
  <2>1. UNCHANGED <<refused, arg, mEvent, puts>> /\ \E l \in Labels : pc' = [pc EXCEPT ![r] = l]
    BY <1>4 DEF GetCall, GetStep, GetTake, GetLock, GetPop, GetUnlock, Goto, shared, history,
                Labels
  <2>2. \A v \in Writers : pc'[v] = pc[v]
    BY <1>1, <2>1
  <2>3. Linked' = Linked
    <3>1. CASE GetPop(r)
      BY <1>1, <3>1, PopKeeps
    <3>2. CASE ~GetPop(r)
      BY <1>4, <3>2 DEF GetCall, GetStep, GetTake, GetLock, GetUnlock, shared, history, Linked
    <3> QED
      BY <3>1, <3>2
  <2> QED
    BY <1>1, <2>1, <2>2, <2>3, QuietOnce DEF Ended
<1>5. CASE Create \/ Destroy
  <2>1. UNCHANGED <<got, mQ, refused, arg, mEvent, puts, pc>>
    BY <1>5 DEF Create, Destroy, history
  <2> QED
    BY <1>1, <2>1, QuietOnce DEF Linked, Ended
<1> QED
  BY <1>2, <1>3, <1>4, <1>5, CallOnce, StageOnce, LinkOnce DEF Next, PutStep

(* Events that were accepted are linked once, and those of one writer in the  *)
(* order of its Puts, for every number of writers and readers: although all   *)
(* pass their event through mEvent (XLEventQueue.cpp:60-101).                 *)
THEOREM LinkedOnce == Spec => []ExactlyOnce
<1>1. IInv /\ Once => ExactlyOnce
  <2> SUFFICES ASSUME IInv, Once
               PROVE  ExactlyOnce
    OBVIOUS
  <2>1. \A i \in 1..Len(Linked) : Linked[i] \in LinkedSet
    BY LinkedTyped DEF IInv, TypeOK
  <2>2. \A i \in 1..Len(Linked) : Linked[i] \notin refused /\ Linked[i][2] > 0
    BY <2>1 DEF Once, Apart, Behind
  <2> QED
    BY <2>2 DEF Once, Ordered, Answered, LinkedSet, ExactlyOnce
<1>2. Spec => []Once
  BY InitIInv, NextIInv, InitOnce, NextOnce, PTL DEF Spec
<1> QED
  BY <1>1, <1>2, Invariance, PTL
================================================================================
