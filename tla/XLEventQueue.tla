----------------------------- MODULE XLEventQueue ------------------------------
(***************************************************************************)
(* XLEventQueue.cpp: an XLLFQ, a semaphore that counts its elements, and a *)
(* lock on each end, taken only if the queue is created MultiReader or     *)
(* MultiWriter.                                                            *)
(*                                                                         *)
(* The XLLFQ is its unread elements, with push in two steps: the size is   *)
(* taken (PutScan) and the element then linked or refused (PutLink), for   *)
(* module XLLFQ shows that a push may work with a size the reader has      *)
(* since reduced, and that everything else is one step.  The semaphore is  *)
(* the CountingSemaphore that XLSemaPhore implements.                      *)
(*                                                                         *)
(* As with the semaphore, Create and Destroy do not overlap other calls.   *)
(* Destroy leaves the elements in the list, and the next Create does not   *)
(* count them: stranded is their number.                                   *)
(***************************************************************************)
EXTENDS Integers, Sequences, FiniteSets

CONSTANTS Writers, Readers,
          MultiWriter, MultiReader,     \* mProperties
          mMaxSize,
          NoThread,
          MaxPuts                       \* bound on the calls of Put

Threads == Writers \cup Readers

ASSUME ThreadsAssumption == /\ IsFiniteSet(Writers) /\ IsFiniteSet(Readers)
                            /\ Writers \cap Readers = {}
                            /\ NoThread \notin Threads
\* Several threads share an end only if the queue is created for it.
ASSUME PropertiesAssumption ==
    /\ MultiWriter \in BOOLEAN /\ MultiReader \in BOOLEAN
    /\ ~MultiWriter => \A v, w \in Writers : v = w
    /\ ~MultiReader => \A q, r \in Readers : q = r
ASSUME SizeAssumption == mMaxSize \in Nat /\ MaxPuts \in Nat

VARIABLES mCreated, mSem,
          mMut,         \* the holder of mMut[0] (the readers' end) and of mMut[1] (the writers')
          mQ,           \* the unread elements
          mEvent,       \* the member a Put copies its argument into
          pc,
          arg,          \* the event each writer's Put was given
          seen,         \* the size each writer's push has found
          puts, got, refused, stranded  \* history: calls of Put, events popped, events
                                        \* refused, elements from an earlier life

shared == <<mCreated, mSem, mMut, mQ, mEvent>>
history == <<puts, got, refused, stranded>>
vars == <<shared, pc, arg, seen, history>>

Event == Writers \X (0..MaxPuts)

Sem == INSTANCE CountingSemaphore
       WITH permits <- mSem, exists <- mCreated, InitialPermits <- {0}

In(labels) == {t \in Threads : pc[t] \in labels}

Init == /\ mCreated = FALSE
        /\ mSem = 0
        /\ mMut = [end \in {0, 1} |-> NoThread]
        /\ mQ = <<>>
        /\ mEvent \in Writers \X {0}
        /\ pc = [t \in Threads |-> "idle"]
        /\ arg = [w \in Writers |-> <<w, 0>>]
        /\ seen = [w \in Writers |-> 0]
        /\ puts = 0 /\ got = <<>> /\ refused = {} /\ stranded = 0

Goto(t, l) == pc' = [pc EXCEPT ![t] = l]

--------------------------------------------------------------------------------
\* What the model asks of the callers of Create and Destroy: nobody is inside Put or Get.
\* The owners of a queue see to it themselves (an event thread is joined before its queue
\* is destroyed, and a pool's workers are); XLEventQueue does not look.
Quiescent == \A t \in Threads : pc[t] = "idle"

\* mSem.Create(0), whatever is in the list
Create == /\ Sem!Create(0)
          /\ UNCHANGED <<mMut, mQ, mEvent, pc, arg, seen, history>>

Destroy == /\ Sem!Destroy
           /\ stranded' = Len(mQ)
           /\ UNCHANGED <<mMut, mQ, mEvent, pc, arg, seen, puts, got, refused>>

--------------------------------------------------------------------------------
\* Put(e) on a queue that is created; otherwise it returns false at once.
PutCall(w) == /\ pc[w] = "idle"
              /\ mCreated
              /\ puts < MaxPuts
              /\ puts' = puts + 1
              /\ arg' = [arg EXCEPT ![w] = <<w, puts + 1>>]
              /\ Goto(w, "put_lock")
              /\ UNCHANGED <<shared, seen, got, refused, stranded>>

\* Mutant: the writers' end is not locked.
PutLock_None(w) == /\ pc[w] = "put_lock"
                   /\ Goto(w, "put_stage")
                   /\ UNCHANGED <<shared, arg, seen, history>>

\* WriterLock()
PutLock(w) == /\ pc[w] = "put_lock"
              /\ MultiWriter => mMut[1] = NoThread
              /\ mMut' = IF MultiWriter THEN [mMut EXCEPT ![1] = w] ELSE mMut
              /\ Goto(w, "put_stage")
              /\ UNCHANGED <<mCreated, mSem, mQ, mEvent, arg, seen, history>>

\* mEvent = *e
PutStage(w) == /\ pc[w] = "put_stage"
               /\ mEvent' = arg[w]
               /\ Goto(w, "put_scan")
               /\ UNCHANGED <<mCreated, mSem, mMut, mQ, arg, seen, history>>

\* The first half of mQ.push(mEvent)
PutScan(w) == /\ pc[w] = "put_scan"
              /\ seen' = [seen EXCEPT ![w] = Len(mQ)]
              /\ Goto(w, "put_link")
              /\ UNCHANGED <<shared, arg, history>>

\* Mutant: one element too many.
PutLink_OneMore(w) ==
    /\ pc[w] = "put_link"
    /\ \/ /\ seen[w] <= mMaxSize
          /\ mQ' = Append(mQ, mEvent)
          /\ Goto(w, "put_unlock")
          /\ UNCHANGED refused
       \/ /\ seen[w] > mMaxSize
          /\ refused' = refused \cup {arg[w]}
          /\ Goto(w, "put_refuse")
          /\ UNCHANGED mQ
    /\ UNCHANGED <<mCreated, mSem, mMut, mEvent, arg, seen, puts, got, stranded>>

PutLink(w) ==
    /\ pc[w] = "put_link"
    /\ \/ /\ seen[w] < mMaxSize
          /\ mQ' = Append(mQ, mEvent)
          /\ Goto(w, "put_unlock")
          /\ UNCHANGED refused
       \/ /\ seen[w] >= mMaxSize
          /\ refused' = refused \cup {arg[w]}
          /\ Goto(w, "put_refuse")
          /\ UNCHANGED mQ
    /\ UNCHANGED <<mCreated, mSem, mMut, mEvent, arg, seen, puts, got, stranded>>

Unlock(end) == mMut' = [mMut EXCEPT ![end] = NoThread]

\* Mutant: a refused Put counts its event as well.
PutUnlock_AlwaysGive(w) == /\ \/ pc[w] = "put_unlock" /\ Goto(w, "put_give")
                              \/ pc[w] = "put_refuse" /\ Goto(w, "put_give")
                           /\ Unlock(1)
                           /\ UNCHANGED <<mCreated, mSem, mQ, mEvent, arg, seen, history>>

\* WriterUnlock(), on either way out; a refused Put returns false here.
PutUnlock(w) == /\ \/ pc[w] = "put_unlock" /\ Goto(w, "put_give")
                   \/ pc[w] = "put_refuse" /\ Goto(w, "idle")
                /\ Unlock(1)
                /\ UNCHANGED <<mCreated, mSem, mQ, mEvent, arg, seen, history>>

\* Mutant: the semaphore is not given.
PutGive_None(w) == /\ pc[w] = "put_give"
                   /\ Goto(w, "idle")
                   /\ UNCHANGED <<shared, arg, seen, history>>

\* mSem.Give(), after the unlock
PutGive(w) == /\ pc[w] = "put_give"
              /\ Sem!Give
              /\ Goto(w, "idle")
              /\ UNCHANGED <<mMut, mQ, mEvent, arg, seen, history>>

--------------------------------------------------------------------------------
GetCall(r) == /\ pc[r] = "idle"
              /\ mCreated
              /\ Goto(r, "get_take")
              /\ UNCHANGED <<shared, arg, seen, history>>

\* mSem.Take()
GetTake(r) == /\ pc[r] = "get_take"
              /\ Sem!Take
              /\ Goto(r, "get_lock")
              /\ UNCHANGED <<mMut, mQ, mEvent, arg, seen, history>>

\* ReaderLock()
GetLock(r) == /\ pc[r] = "get_lock"
              /\ MultiReader => mMut[0] = NoThread
              /\ mMut' = IF MultiReader THEN [mMut EXCEPT ![0] = r] ELSE mMut
              /\ Goto(r, "get_pop")
              /\ UNCHANGED <<mCreated, mSem, mQ, mEvent, arg, seen, history>>

\* mQ.pop(*e), whose result Get ignores
GetPop(r) == /\ pc[r] = "get_pop"
             /\ IF mQ = <<>> THEN UNCHANGED <<got, mQ>>
                             ELSE got' = Append(got, Head(mQ)) /\ mQ' = Tail(mQ)
             /\ Goto(r, "get_unlock")
             /\ UNCHANGED <<mCreated, mSem, mMut, mEvent, arg, seen, puts, refused, stranded>>

\* Mutant: the readers' end stays locked.
GetUnlock_None(r) == /\ pc[r] = "get_unlock"
                     /\ Goto(r, "idle")
                     /\ UNCHANGED <<shared, arg, seen, history>>

\* ReaderUnlock(), and Get returns true.
GetUnlock(r) == /\ pc[r] = "get_unlock"
                /\ Unlock(0)
                /\ Goto(r, "idle")
                /\ UNCHANGED <<mCreated, mSem, mQ, mEvent, arg, seen, history>>

PutStep(w) == PutLock(w) \/ PutStage(w) \/ PutScan(w) \/ PutLink(w) \/ PutUnlock(w) \/ PutGive(w)

GetStep(r) == GetTake(r) \/ GetLock(r) \/ GetPop(r) \/ GetUnlock(r)

Next == \/ \E w \in Writers : PutCall(w) \/ PutStep(w)
        \/ \E r \in Readers : GetCall(r) \/ GetStep(r)
        \/ Quiescent /\ (Create \/ Destroy)

Spec == Init /\ [][Next]_vars

\* Calls proceed, and the readers call Get in a loop (XLThreadPool.cpp:44, XLEventThread.cpp:71).
FairSpec == /\ Spec
            /\ \A w \in Writers : WF_vars(PutStep(w))
            /\ \A r \in Readers : WF_vars(GetStep(r)) /\ WF_vars(GetCall(r))

--------------------------------------------------------------------------------
Labels == {"idle", "put_lock", "put_stage", "put_scan", "put_link", "put_unlock",
           "put_refuse", "put_give", "get_take", "get_lock", "get_pop", "get_unlock"}

WriterCritical == {"put_stage", "put_scan", "put_link", "put_unlock", "put_refuse"}
ReaderCritical == {"get_pop", "get_unlock"}

Typed == /\ mCreated \in BOOLEAN
         /\ mSem \in Nat
         /\ mMut \in [{0, 1} -> Threads \cup {NoThread}]
         /\ mQ \in Seq(Event)
         /\ mEvent \in Event
         /\ pc \in [Threads -> Labels]
         /\ arg \in [Writers -> Event]
         /\ seen \in [Writers -> Nat]
         /\ puts \in Nat /\ got \in Seq(Event) /\ refused \subseteq Event /\ stranded \in Nat

EndsLocked == /\ MultiReader => \A r \in Readers : pc[r] \in ReaderCritical <=> mMut[0] = r
              /\ MultiWriter => \A w \in Writers : pc[w] \in WriterCritical <=> mMut[1] = w

(* Every variable has its type, and the lock of an end that is shared is held *)
(* by the one thread that works on that end.                                  *)
TypeOK == Typed /\ EndsLocked

\* The readers that have a permit and have not popped, the writers that have not given.
InTransit == In({"get_lock", "get_pop", "put_unlock", "put_give"})

(* The semaphore counts the elements (XLEventQueue.cpp:71-75, 94-97): each    *)
(* unread element is a permit, a reader that has taken one and not yet popped,*)
(* a writer that has linked one and not yet given, or a leftover of an        *)
(* earlier life.  So Get, which ignores the result of pop, never returns true *)
(* with nothing, although Give is outside the writers' lock.                  *)
TokensMatch == Len(mQ) = stranded + mSem + Cardinality(InTransit)

(* Exactly once, in order (XLEventQueue.cpp:60-101): the events read and      *)
(* still to be read are those of the Puts that were not refused, each once,   *)
(* and those of one writer in the order of its Puts - although all writers    *)
(* pass their event through the one member mEvent.                            *)
Linked == got \o mQ

Ended(w) == pc[w] \notin {"put_lock", "put_stage", "put_scan", "put_link"}

ExactlyOnce ==
    /\ \A i, j \in 1..Len(Linked) :
          i < j /\ Linked[i][1] = Linked[j][1] => Linked[i][2] < Linked[j][2]
    /\ \A w \in Writers : Ended(w) /\ arg[w][2] > 0 =>
          (arg[w] \in refused <=> arg[w] \notin {Linked[i] : i \in 1..Len(Linked)})
    /\ \A i \in 1..Len(Linked) : Linked[i] \notin refused /\ Linked[i][2] > 0

(* The queue is a bounded FIFO of mMaxSize events.                            *)
Fifo == INSTANCE BoundedFifo WITH queue <- mQ, Items <- Event, Capacity <- mMaxSize

ImplementsFifo == Fifo!Spec

(* An event that is accepted is read: with readers that keep calling Get, no  *)
(* event stays in the queue unless it is destroyed or began with leftovers.   *)
Pending(e) == stranded = 0 /\ \E i \in 1..Len(mQ) : mQ[i] = e

EveryEventRead == \A w \in Writers, n \in 1..MaxPuts :
                     Pending(<<w, n>>) ~> (~Pending(<<w, n>>) \/ ~mCreated)
================================================================================
