------------------------------- MODULE XLAutoPtr -------------------------------
(***************************************************************************)
(* XLAutoPtr.h: XLSharedSmPtr, a pointer that shares a RefCounterObject    *)
(* with its copies, and the counter with the object.  XLSharedArraySmPtr   *)
(* is the same for arrays; the sockets, the event buffers and the worker   *)
(* threads of the pool are held by these.                                  *)
(*                                                                         *)
(* The copies of an event travel through queues, so that the pointers of   *)
(* one object are used by several threads.  A pointer itself is used by    *)
(* one thread at a time, as the queues see to; the counter is not, and     *)
(* m_iCount++ and m_iCount-- are a read and a write of a plain int.        *)
(* Reading a counter that was deleted ends the program (crashed).          *)
(***************************************************************************)
EXTENDS Integers, FiniteSets

CONSTANTS Threads,
          Ptrs,         \* the pointers: variables, members, elements of lists
          Objects,
          Counters,     \* the counters that are ever allocated: bounds SetData
          None,         \* the null pointer
          MaxCopies     \* bound on the copies

Destroyed == "destroyed"        \* the argument of ~XLSharedSmPtr

ASSUME NoneAssumption == None \notin Objects \cup Counters \cup Ptrs
ASSUME FiniteAssumption == IsFiniteSet(Ptrs) /\ MaxCopies \in Nat
ASSUME DistinctAssumption == Objects \cap Ptrs = {} /\ Destroyed \notin Objects \cup Ptrs \cup {None}

VARIABLES ptr,                  \* XLSharedSmPtr::m_pData, a counter
          m_iCount, m_pData,    \* RefCounterObject
          live,                 \* the counters allocated and not deleted
          deletes,              \* how often each object was deleted
          pc, tgt, src,         \* a thread: place in an operation, pointer it changes, argument
          held,                 \* a thread: the count it has read
          crashed,
          of,                   \* history: the object a counter was made for
          used,                 \* history: the counters ever allocated
          overlapped,           \* history: counters updated by two threads at a time
          copies,
          nullShared            \* history: counters of a null object that were copied

counters == <<m_iCount, m_pData, live>>
threads == <<pc, tgt, src, held>>
history == <<of, used, overlapped, nullShared>>
vars == <<ptr, counters, deletes, threads, crashed, copies, history>>

Init == /\ ptr = [p \in Ptrs |-> None]
        /\ m_iCount = [c \in Counters |-> 0]
        /\ m_pData = [c \in Counters |-> None]
        /\ live = {} /\ used = {} /\ overlapped = {} /\ nullShared = {}
        /\ deletes = [o \in Objects |-> 0]
        /\ pc = [t \in Threads |-> "idle"]
        /\ tgt = [t \in Threads |-> None]
        /\ src = [t \in Threads |-> Destroyed]
        /\ held = [t \in Threads |-> 0]
        /\ crashed = FALSE /\ copies = 0
        /\ of = [c \in Counters |-> None]

Thread(t, from, to) == /\ ~crashed /\ pc[t] = from
                       /\ pc' = [pc EXCEPT ![t] = to]
                       /\ UNCHANGED <<tgt, src>>

\* The operation ends at this step.
Return(t, from) == /\ ~crashed /\ pc[t] = from
                   /\ pc' = [pc EXCEPT ![t] = "idle"]
                   /\ tgt' = [tgt EXCEPT ![t] = None]
                   /\ src' = [src EXCEPT ![t] = Destroyed]
                   /\ held' = [held EXCEPT ![t] = 0]

At(t) == ptr[tgt[t]]            \* the counter the thread works on

\* The thread has begun to update counter c and has not finished.
Updating(t, c) == pc[t] \in {"decrement", "zero", "check", "increment"} /\ At(t) = c

Overlap(t) == overlapped' = IF \E u \in Threads \ {t} : Updating(u, At(t))
                            THEN overlapped \cup {At(t)} ELSE overlapped

--------------------------------------------------------------------------------
\* Pointers that another thread uses, and those that it changes
Free(t, p) == \A u \in Threads \ {t} : pc[u] # "idle" => tgt[u] # p /\ src[u] # p
Stable(t, p) == \A u \in Threads \ {t} : pc[u] # "idle" => tgt[u] # p

\* Mutant: ReleaseData does not look whether there is a counter.
Begin_NoTest(t, p, s) ==
    /\ ~crashed /\ pc[t] = "idle"
    /\ Free(t, p)
    /\ pc' = [pc EXCEPT ![t] = "release"]
    /\ tgt' = [tgt EXCEPT ![t] = p]
    /\ src' = [src EXCEPT ![t] = s]
    /\ UNCHANGED <<ptr, counters, deletes, held, crashed, history>>

\* SetData(o), with a fresh object or a null pointer (or one that is adopted already),
\* operator = and the copy constructor (from pointer q), and the destructor:
\* ReleaseData comes first, if there is something to release.
Begin(t, p, s) ==
    /\ ~crashed /\ pc[t] = "idle"
    /\ Free(t, p)
    /\ pc' = [pc EXCEPT ![t] = IF ptr[p] = None THEN "take" ELSE "release"]
    /\ tgt' = [tgt EXCEPT ![t] = p]
    /\ src' = [src EXCEPT ![t] = s]
    /\ UNCHANGED <<ptr, counters, deletes, held, crashed, history>>

SetData(t, p, o) == /\ o # None => deletes[o] = 0
                    /\ Begin(t, p, o)
                    /\ UNCHANGED copies

Copy(t, p, q) == /\ p # q
                 /\ copies < MaxCopies
                 /\ copies' = copies + 1
                 /\ Stable(t, q)
                 /\ Begin(t, p, q)

Destroy(t, p) == Begin(t, p, Destroyed) /\ UNCHANGED copies

--------------------------------------------------------------------------------
\* Release(): nothing if there is no object, else the read of m_iCount
Release(t) ==
    /\ \/ Thread(t, "release", "check") /\ m_pData[At(t)] = None /\ UNCHANGED held
       \/ /\ Thread(t, "release", "decrement")
          /\ m_pData[At(t)] # None
          /\ held' = [held EXCEPT ![t] = m_iCount[At(t)]]
    /\ At(t) \in live
    /\ Overlap(t)
    /\ UNCHANGED <<ptr, counters, deletes, crashed, of, used, nullShared>>

\* ... its write ...
Decrement(t) ==
    /\ Thread(t, "decrement", "zero")
    /\ At(t) \in live
    /\ m_iCount' = [m_iCount EXCEPT ![At(t)] = held[t] - 1]
    /\ UNCHANGED <<ptr, m_pData, live, deletes, held, crashed, history>>

\* delete m_pData; m_pData = 0
DeleteObject(t) == /\ m_pData' = [m_pData EXCEPT ![At(t)] = None]
                   /\ deletes' = IF m_pData[At(t)] = None THEN deletes
                                 ELSE [deletes EXCEPT ![m_pData[At(t)]] = @ + 1]

\* Mutant: the object is deleted whatever the count is.
Zero_Always(t) == /\ Thread(t, "zero", "check")
                  /\ At(t) \in live
                  /\ DeleteObject(t)
                  /\ UNCHANGED <<ptr, m_iCount, live, held, crashed, history>>

\* ... and if(m_iCount == 0), on the count that was written, or on another thread's if
\* the build reads it again
Zero(t) == /\ Thread(t, "zero", "check")
           /\ At(t) \in live
           /\ \E count \in {held[t] - 1, m_iCount[At(t)]} :
                 IF count = 0 THEN DeleteObject(t) ELSE UNCHANGED <<m_pData, deletes>>
           /\ UNCHANGED <<ptr, m_iCount, live, held, crashed, history>>

\* Mutant: the counter is not deleted with its object.
Check_Keep(t) == /\ Thread(t, "check", "take")
                 /\ At(t) \in live
                 /\ ptr' = [ptr EXCEPT ![tgt[t]] = None]
                 /\ UNCHANGED <<counters, deletes, held, crashed, history>>

\* if(m_pData->GetData() == 0) delete m_pData;  m_pData = 0
Check(t) == /\ Thread(t, "check", "take")
            /\ At(t) \in live
            /\ live' = IF m_pData[At(t)] = None THEN live \ {At(t)} ELSE live
            /\ ptr' = [ptr EXCEPT ![tgt[t]] = None]
            /\ UNCHANGED <<m_iCount, m_pData, deletes, held, crashed, history>>

\* Any of these steps, at a counter that was deleted
Use(t) == /\ pc[t] \notin {"idle", "take"}
          /\ At(t) \notin live
          /\ Return(t, pc[t])
          /\ crashed' = TRUE
          /\ UNCHANGED <<ptr, counters, deletes, history>>

--------------------------------------------------------------------------------
\* new RefCounter(o), which counts itself to one if there is an object
Adopt(t) == /\ Return(t, "take")
            /\ src[t] \in Objects \cup {None}
            /\ \E c \in Counters \ used :
                  /\ ptr' = [ptr EXCEPT ![tgt[t]] = c]
                  /\ m_pData' = [m_pData EXCEPT ![c] = src[t]]
                  /\ m_iCount' = [m_iCount EXCEPT ![c] = IF src[t] = None THEN 0 ELSE 1]
                  /\ live' = live \cup {c}
                  /\ used' = used \cup {c}
                  /\ of' = [of EXCEPT ![c] = src[t]]
            /\ UNCHANGED <<deletes, crashed, overlapped, nullShared>>

\* m_pData = other.m_pData
Take(t) == /\ pc[t] = "take" /\ src[t] \in Ptrs
           /\ \/ ptr[src[t]] = None /\ Return(t, "take")
              \/ ptr[src[t]] # None /\ Thread(t, "take", "add") /\ UNCHANGED held
           /\ ptr' = [ptr EXCEPT ![tgt[t]] = ptr[src[t]]]
           /\ UNCHANGED <<counters, deletes, crashed, history>>

Finish(t) == /\ Return(t, "take")
             /\ src[t] = Destroyed
             /\ UNCHANGED <<ptr, counters, deletes, crashed, history>>

\* AddRef(): nothing if there is no object, else the read of m_iCount
Add(t) == /\ \/ /\ Return(t, "add")
                /\ m_pData[At(t)] = None
                /\ nullShared' = nullShared \cup {At(t)}
             \/ /\ Thread(t, "add", "increment")
                /\ m_pData[At(t)] # None
                /\ held' = [held EXCEPT ![t] = m_iCount[At(t)]]
                /\ UNCHANGED nullShared
          /\ At(t) \in live
          /\ Overlap(t)
          /\ UNCHANGED <<ptr, counters, deletes, crashed, of, used>>

\* Mutant: the copy is not counted.
Increment_None(t) == /\ Return(t, "increment")
                     /\ At(t) \in live
                     /\ UNCHANGED <<ptr, counters, deletes, crashed, history>>

\* ... and the write
Increment(t) == /\ Return(t, "increment")
                /\ At(t) \in live
                /\ m_iCount' = [m_iCount EXCEPT ![At(t)] = held[t] + 1]
                /\ UNCHANGED <<ptr, m_pData, live, deletes, crashed, history>>

--------------------------------------------------------------------------------
Step(t) == \/ Release(t) \/ Decrement(t) \/ Zero(t) \/ Check(t) \/ Use(t)
           \/ Adopt(t) \/ Take(t) \/ Finish(t) \/ Add(t) \/ Increment(t)

Next == \E t \in Threads :
          \/ Step(t) /\ UNCHANGED copies
          \/ \E p \in Ptrs : \/ \E o \in Objects \cup {None} : SetData(t, p, o)
                             \/ \E q \in Ptrs : Copy(t, p, q)
                             \/ Destroy(t, p)

Spec == Init /\ [][Next]_vars

--------------------------------------------------------------------------------
PointersTyped == /\ ptr \in [Ptrs -> used \cup {None}]
                 /\ m_iCount \in [Counters -> Int]
                 /\ m_pData \in [Counters -> Objects \cup {None}]
                 /\ of \in [Counters -> Objects \cup {None}]
                 /\ live \subseteq used /\ used \subseteq Counters
                 /\ overlapped \subseteq used /\ nullShared \subseteq used
                 /\ deletes \in [Objects -> Nat]

ThreadsTyped == /\ pc \in [Threads -> {"idle", "release", "decrement", "zero", "check",
                                        "take", "add", "increment"}]
                /\ tgt \in [Threads -> Ptrs \cup {None}]
                /\ src \in [Threads -> Objects \cup Ptrs \cup {None, Destroyed}]
                /\ held \in [Threads -> Int]
                /\ copies \in 0..MaxCopies /\ crashed \in BOOLEAN

(* Every variable has its type; a thread that releases or adds has a counter, *)
(* and a pointer has only counters that were allocated.                       *)
TypeOK == /\ PointersTyped /\ ThreadsTyped
          /\ \A t \in Threads : pc[t] # "idle" => tgt[t] \in Ptrs
          /\ \A t \in Threads : pc[t] \notin {"idle", "take"} => At(t) # None

\* The pointers to c that its count is to stand for: not the one whose copy is not
\* counted yet, nor the one that is counted down already
Counted(c) == {p \in Ptrs : /\ ptr[p] = c
                            /\ \A t \in Threads :
                                  tgt[t] = p => pc[t] \notin {"add", "increment", "zero", "check"}}

\* Counters of an object that no two threads have updated at a time
Sound == {c \in used : of[c] # None /\ c \notin overlapped}

(* The count of a sound counter is the number of pointers to it, whatever     *)
(* the threads have copied, assigned and destroyed (XLAutoPtr.h:31-55).       *)
CountExact == ~crashed => \A c \in Sound \cap live : m_iCount[c] = Cardinality(Counted(c))

(* A sound counter is deleted exactly when its last pointer lets go of it:    *)
(* none is left dangling and none leaks.  Only the thread that is about to    *)
(* delete the counter finds it without its object, and the object, unless it  *)
(* was adopted twice as XLServingThread.cpp:110 may do, is deleted once then  *)
(* (XLAutoPtr.h:44-55, 344-355).                                              *)
OwnedTogether ==
    ~crashed => \A c \in Sound :
        /\ c \in live <=> \E p \in Ptrs : ptr[p] = c
        /\ c \in live => m_pData[c] = of[c] \/ \E t \in Threads : pc[t] = "check" /\ At(t) = c
        /\ \/ deletes[of[c]] = IF m_pData[c] = None THEN 1 ELSE 0
           \/ \E d \in used \ {c} : of[d] = of[c]

(* A deleted counter is read only after two threads have updated a counter at *)
(* a time, or a pointer with a counter of nothing has been copied, whose      *)
(* copies nobody counts (XLAutoPtr.h:31-37, 344-355, XLEvents.h:210).         *)
CrashNeedsCause == crashed => overlapped # {} \/ nullShared # {}
================================================================================
