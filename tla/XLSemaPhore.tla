------------------------------ MODULE XLSemaPhore ------------------------------
(***************************************************************************)
(* XLSemaPhore.cpp, C++11 build: a semaphore made of a std::mutex (m_Mut), *)
(* a std::condition_variable (m_CV) and two integers.                      *)
(*                                                                         *)
(* mSemCount counts the permits in use and mMaxCount their limit, so the   *)
(* semaphore has mMaxCount - mSemCount permits: Create(0, 1) starts with   *)
(* one and Create(1, 1) with none.                                         *)
(*                                                                         *)
(* Try() has no actions of its own: nothing but XLMutex::TryLock calls it, *)
(* which nobody calls.  In this build it takes the steps of Take(), with a *)
(* sleep before the wait, and never gives up.                              *)
(*                                                                         *)
(* Create and Destroy write the fields without m_Mut.  The class leaves it *)
(* to its callers not to overlap them with another call, and Next makes    *)
(* that assumption (Quiescent).  XLSimpleThreads breaks it, and models     *)
(* what follows.                                                           *)
(***************************************************************************)
EXTENDS Integers, FiniteSets

CONSTANTS Threads,      \* the threads that call Take and Give
          NoThread,     \* m_Mut is free
          Creations,    \* the arguments <<count, maxcount>> of Create; Create(n) is <<0, n>>
          MaxPermits    \* bound: no Give beyond this many permits

ASSUME ThreadsAssumption == IsFiniteSet(Threads) /\ NoThread \notin Threads
ASSUME CreationsAssumption == Creations \subseteq Int \X Int
ASSUME MaxPermitsAssumption == MaxPermits \in Int

VARIABLES mSemCount, mMaxCount, mbCreated,
          m_Mut,        \* the thread that holds the mutex, or NoThread
          m_CV,         \* the threads asleep in m_CV.wait
          pc            \* where each thread is in its call

vars == <<mSemCount, mMaxCount, mbCreated, m_Mut, m_CV, pc>>

fields == <<mSemCount, mMaxCount, mbCreated>>

Permits == mMaxCount - mSemCount

At(l) == {t \in Threads : pc[t] = l}

Init == /\ mSemCount = 0
        /\ mMaxCount = 0
        /\ mbCreated = FALSE
        /\ m_Mut = NoThread
        /\ m_CV = {}
        /\ pc = [t \in Threads |-> "idle"]

--------------------------------------------------------------------------------
Quiescent == \A t \in Threads : pc[t] = "idle"

Create(count, maxcount) == /\ ~mbCreated
                           /\ mSemCount' = count
                           /\ mMaxCount' = maxcount
                           /\ mbCreated' = TRUE
                           /\ UNCHANGED <<m_Mut, m_CV, pc>>

Destroy == /\ mbCreated
           /\ mSemCount' = 0
           /\ mMaxCount' = 0
           /\ mbCreated' = FALSE
           /\ UNCHANGED <<m_Mut, m_CV, pc>>

--------------------------------------------------------------------------------
\* A call on a semaphore that is not created returns at once; otherwise it goes for m_Mut.
Call(t, l) == /\ pc[t] = "idle"
              /\ mbCreated
              /\ pc' = [pc EXCEPT ![t] = l]
              /\ UNCHANGED <<fields, m_Mut, m_CV>>

CallTake(t) == Call(t, "take_lock")

CallGive(t) == /\ Permits + Cardinality(At("give_lock")) < MaxPermits
               /\ Call(t, "give_lock")

Lock(t, from, to) == /\ pc[t] = from
                     /\ m_Mut = NoThread
                     /\ m_Mut' = t
                     /\ pc' = [pc EXCEPT ![t] = to]
                     /\ UNCHANGED <<fields, m_CV>>

\* The lock of a new call, and the one m_CV.wait takes again before it returns.
TakeLock(t) == Lock(t, "take_lock", "take_test")

\* Mutant: the wait does not release the mutex.
TakeWait_KeepsLock(t) == /\ pc[t] = "take_test"
                         /\ mSemCount >= mMaxCount
                         /\ m_CV' = m_CV \cup {t}
                         /\ pc' = [pc EXCEPT ![t] = "take_wait"]
                         /\ UNCHANGED <<fields, m_Mut>>

\* while(mSemCount >= mMaxCount) m_CV.wait(lock): sleep and release in one step.
TakeWait(t) == /\ pc[t] = "take_test"
               /\ mSemCount >= mMaxCount
               /\ m_CV' = m_CV \cup {t}
               /\ m_Mut' = NoThread
               /\ pc' = [pc EXCEPT ![t] = "take_wait"]
               /\ UNCHANGED fields

\* Mutant: the test lets one Take too many through.
TakeDone_OffByOne(t) == /\ pc[t] = "take_test"
                          /\ mSemCount <= mMaxCount
                          /\ mSemCount' = mSemCount + 1
                          /\ m_Mut' = NoThread
                          /\ pc' = [pc EXCEPT ![t] = "idle"]
                          /\ UNCHANGED <<mMaxCount, mbCreated, m_CV>>

\* ++mSemCount, and the unlock as the function returns.
TakeDone(t) == /\ pc[t] = "take_test"
               /\ mSemCount < mMaxCount
               /\ mSemCount' = mSemCount + 1
               /\ m_Mut' = NoThread
               /\ pc' = [pc EXCEPT ![t] = "idle"]
               /\ UNCHANGED <<mMaxCount, mbCreated, m_CV>>

\* m_CV.wait may return without a notify.
SpuriousWakeup(t) == /\ t \in m_CV
                     /\ m_CV' = m_CV \ {t}
                     /\ pc' = [pc EXCEPT ![t] = "take_lock"]
                     /\ UNCHANGED <<fields, m_Mut>>

GiveLock(t) == Lock(t, "give_lock", "give_count")

GiveCount(t) == /\ pc[t] = "give_count"
                /\ mSemCount' = mSemCount - 1
                /\ pc' = [pc EXCEPT ![t] = "give_notify"]
                /\ UNCHANGED <<mMaxCount, mbCreated, m_Mut, m_CV>>

\* Mutant: notify only the Give that makes the first permit available.
GiveNotify_OnlyFirst(t) ==
    /\ pc[t] = "give_notify"
    /\ m_Mut' = NoThread
    /\ UNCHANGED fields
    /\ \/ /\ m_CV = {} \/ Permits # 1
          /\ m_CV' = m_CV
          /\ pc' = [pc EXCEPT ![t] = "idle"]
       \/ \E w \in m_CV : /\ Permits = 1
                          /\ m_CV' = m_CV \ {w}
                          /\ pc' = [pc EXCEPT ![t] = "idle", ![w] = "take_lock"]

\* m_CV.notify_one() with the lock still held, and the unlock as the function returns.
GiveNotify(t) ==
    /\ pc[t] = "give_notify"
    /\ m_Mut' = NoThread
    /\ UNCHANGED fields
    /\ \/ /\ m_CV = {}
          /\ m_CV' = m_CV
          /\ pc' = [pc EXCEPT ![t] = "idle"]
       \/ \E w \in m_CV : /\ m_CV' = m_CV \ {w}
                          /\ pc' = [pc EXCEPT ![t] = "idle", ![w] = "take_lock"]

\* A step of a call that has started, which the scheduler must eventually take.
Step(t) == \/ TakeLock(t)
           \/ TakeWait(t)
           \/ TakeDone(t)
           \/ GiveLock(t)
           \/ GiveCount(t)
           \/ GiveNotify(t)

Next == \/ \E t \in Threads : \/ CallTake(t)
                              \/ CallGive(t)
                              \/ SpuriousWakeup(t)
                              \/ Step(t)
        \/ \E c \in Creations : Quiescent /\ Create(c[1], c[2])
        \/ Quiescent /\ Destroy

Spec == Init /\ [][Next]_vars

\* Threads inside a call are scheduled; nothing forces a call or a spurious wakeup.
FairSpec == Spec /\ \A t \in Threads : WF_vars(Step(t))

--------------------------------------------------------------------------------
Labels == {"idle", "take_lock", "take_test", "take_wait",
           "give_lock", "give_count", "give_notify"}

Critical == {"take_test", "give_count", "give_notify"}

(* Every variable has its type, the wait set is the threads whose call is     *)
(* asleep in m_CV.wait, and the mutex is held by the thread in its critical   *)
(* section and by no other.                                                   *)
TypeOK == /\ mSemCount \in Int
          /\ mMaxCount \in Int
          /\ mbCreated \in BOOLEAN
          /\ pc \in [Threads -> Labels]
          /\ m_Mut \in Threads \cup {NoThread}
          /\ m_CV = {t \in Threads : pc[t] = "take_wait"}
          /\ \A t \in Threads : pc[t] \in Critical <=> m_Mut = t

(* No lost wakeup (XLSemaPhore.cpp:134-154 against 198-217): while a thread   *)
(* sleeps in Take, each free permit has a thread under way that will either   *)
(* consume it or notify a sleeper.  One notify_one per Give is enough, however *)
(* many threads barge in between the notify and the reacquisition.            *)
Underway == {t \in Threads : pc[t] \in {"take_lock", "take_test", "give_notify"}}

NoLostWakeup == m_CV # {} => Permits <= Cardinality(Underway)

(* A sleeping thread and a free permit do not stay together: under fair       *)
(* scheduling either every sleeper is woken or the permits are used up.       *)
WakeupDelivered == (m_CV # {} /\ Permits > 0) ~> (m_CV = {} \/ Permits <= 0)

(* The class implements a counting semaphore: Take consumes a permit that is  *)
(* there, Give adds one, and no permit is lost or taken twice.                *)
Semaphore == INSTANCE CountingSemaphore
             WITH permits <- Permits,
                  exists <- mbCreated,
                  InitialPermits <- {c[2] - c[1] : c \in Creations}

ImplementsSemaphore == Semaphore!Spec
================================================================================
