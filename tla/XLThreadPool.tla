----------------------------- MODULE XLThreadPool ------------------------------
(***************************************************************************)
(* GenThreadPool::XLThreadPool and its XLThWorkThreads (XLThreadPool.cpp). *)
(*                                                                         *)
(* One owner creates the pool and destroys it, as often as it likes; in    *)
(* between, clients call AddJob.  Worker n is the nth element of           *)
(* m_ThreadList, which Destroy does not clear: the workers up to born are  *)
(* those of earlier lives.  A static pool makes m_iNumMaxThread workers in *)
(* each Create, a dynamic one a worker at a time in AddJob.  Each worker   *)
(* is an XLSimpleThreads (Th), with RunProgram in steps of its own; the    *)
(* job queue, new in each life, is the BoundedFifo that XLEventQueue       *)
(* implements, on which Get waits and Put may be refused.                  *)
(*                                                                         *)
(* m_Allocator is assigned after the thread has started.  A worker that    *)
(* calls through the null pointer brings the program down (crashed).       *)
(***************************************************************************)
EXTENDS Integers, Sequences

CONSTANTS m_iNumMaxThread,
          mMaxSize,             \* XLEventQueueConfig_MaxSize, 256 in the program
          Clients,
          Nobody,               \* m_ThCountGate is free
          MaxJobs,              \* bound on the calls of AddJob
          MaxWorkers            \* bound on the size of m_ThreadList

ASSUME PoolAssumption == /\ m_iNumMaxThread \in Nat
                         /\ MaxWorkers \in Nat /\ MaxWorkers >= m_iNumMaxThread
                         /\ mMaxSize \in Nat
                         /\ MaxJobs \in Nat
                         /\ Nobody \notin Clients

Workers == 1..MaxWorkers
Jobs == 1..MaxJobs
Exit == 0                       \* ThreadPoolEvent_Exit

VARIABLES m_handle, m_Sync1, m_Sync2, tpc, opc,         \* the workers as threads
          m_bDynamic, m_bCreated, m_ThCountGate,
          listed,               \* m_ThreadList.size()
          born,                 \* its size when the pool was created
          m_JobQueue,
          mpc, at,              \* the owner: place in Create or Destroy, worker it is at
          cpc, job, made,       \* a client: place in AddJob, argument, worker it creates
          wpc, event,           \* a worker: place in RunProgram, e
          m_Allocator,          \* m_Allocator is not null
          m_bWorking,
          crashed,
          jobs, accepted, done, exitsLost       \* history; accepted and exitsLost of this life

threads == <<m_handle, m_Sync1, m_Sync2, tpc, opc>>
pool == <<m_bDynamic, m_bCreated, m_ThCountGate, listed, born>>
owner == <<mpc, at>>
clients == <<cpc, job, made>>
workers == <<wpc, event, m_Allocator, m_bWorking, crashed>>
history == <<jobs, accepted, done, exitsLost>>
vars == <<threads, pool, m_JobQueue, owner, clients, workers, history>>

Th == INSTANCE XLSimpleThreads WITH Objects <- Workers
Queue == INSTANCE BoundedFifo WITH queue <- m_JobQueue, Capacity <- mMaxSize,
                                   Items <- Jobs \cup {Exit}

Init == /\ Th!Init
        /\ m_bDynamic \in BOOLEAN
        /\ m_bCreated = FALSE /\ m_ThCountGate = Nobody /\ listed = 0 /\ born = 0
        /\ Queue!Init
        /\ mpc = "out" /\ at = 0
        /\ cpc = [c \in Clients |-> "idle"]
        /\ job = [c \in Clients |-> 0]
        /\ made = [c \in Clients |-> 0]
        /\ wpc = [w \in Workers |-> "none"]
        /\ event = [w \in Workers |-> Exit]
        /\ m_Allocator = [w \in Workers |-> FALSE]
        /\ m_bWorking = [w \in Workers |-> FALSE]
        /\ crashed = FALSE
        /\ jobs = 0 /\ accepted = {} /\ done = {} /\ exitsLost = 0

\* Each thread's next step; none takes one after a crash.
OwnerAt(from, to, w) == ~crashed /\ mpc = from /\ mpc' = to /\ at' = w
Client(c, from, to) == ~crashed /\ cpc[c] = from /\ cpc' = [cpc EXCEPT ![c] = to]
Worker(w, from, to) == ~crashed /\ tpc[w] = "run" /\ wpc[w] = from /\ wpc' = [wpc EXCEPT ![w] = to]

--------------------------------------------------------------------------------
\* Mutant: the queue of the earlier life is used again, with what is left in it.
CreatePool_OldQueue ==
    /\ \E from \in {"out", "down"} :
          IF m_bDynamic \/ m_iNumMaxThread = 0
          THEN OwnerAt(from, "up", 0)
          ELSE /\ OwnerAt(from, "create", listed + 1)
               /\ listed + m_iNumMaxThread <= MaxWorkers
    /\ m_bCreated' = TRUE
    /\ born' = listed
    /\ accepted' = {} /\ exitsLost' = 0
    /\ UNCHANGED <<threads, m_bDynamic, m_ThCountGate, listed, m_JobQueue, clients, workers,
                   jobs, done>>

\* Create(): a new queue, the gate, m_bCreated; a static pool goes on to its workers.
CreatePool == /\ \E from \in {"out", "down"} :
                    IF m_bDynamic \/ m_iNumMaxThread = 0
                    THEN OwnerAt(from, "up", 0)
                    ELSE /\ OwnerAt(from, "create", listed + 1)
                         /\ listed + m_iNumMaxThread <= MaxWorkers
              /\ m_bCreated' = TRUE
              /\ m_JobQueue' = <<>>
              /\ born' = listed
              /\ accepted' = {} /\ exitsLost' = 0
              /\ UNCHANGED <<threads, m_bDynamic, m_ThCountGate, listed, clients, workers,
                             jobs, done>>

\* wThread->Create(this): XLSimpleThreads::Create begins ...
CreateWorker == /\ OwnerAt("create", "created", at)
                /\ Th!CreateStart(at)
                /\ UNCHANGED <<pool, m_JobQueue, clients, workers, history>>

\* ... and has returned: m_Allocator = allocator, and push_back.
CreateNext == /\ IF at < born + m_iNumMaxThread
                 THEN OwnerAt("created", "create", at + 1)
                 ELSE OwnerAt("created", "up", 0)
              /\ opc[at] = "idle"
              /\ m_Allocator' = [m_Allocator EXCEPT ![at] = TRUE]
              /\ listed' = listed + 1
              /\ UNCHANGED <<threads, m_bDynamic, m_bCreated, m_ThCountGate, born, m_JobQueue,
                             clients, wpc, event, m_bWorking, crashed, history>>

--------------------------------------------------------------------------------
\* AddJob(job), with its first test of the size of m_ThreadList, outside the gate.
AddJob(c) == /\ mpc = "up" /\ m_bCreated
             /\ jobs < MaxJobs
             /\ jobs' = jobs + 1
             /\ job' = [job EXCEPT ![c] = jobs + 1]
             /\ Client(c, "idle", IF m_bDynamic /\ listed < m_iNumMaxThread THEN "lock" ELSE "put")
             /\ UNCHANGED <<threads, pool, m_JobQueue, owner, made, workers,
                            accepted, done, exitsLost>>

\* Mutant: the size is not tested again under the gate.
AddLock_NoRetest(c) ==
    /\ m_ThCountGate = Nobody
    /\ m_ThCountGate' = c
    /\ Client(c, "lock", "make")
    /\ listed' = listed + 1
    /\ made' = [made EXCEPT ![c] = listed + 1]
    /\ UNCHANGED <<threads, m_bDynamic, m_bCreated, born, m_JobQueue, owner, job, workers, history>>

\* m_ThCountGate.Lock(), the second test, and push_back of the new worker.
AddLock(c) ==
    /\ m_ThCountGate = Nobody
    /\ m_ThCountGate' = c
    /\ IF listed < m_iNumMaxThread
       THEN /\ Client(c, "lock", "make")
            /\ listed' = listed + 1
            /\ made' = [made EXCEPT ![c] = listed + 1]
       ELSE /\ Client(c, "lock", "unlock")
            /\ UNCHANGED <<listed, made>>
    /\ UNCHANGED <<threads, m_bDynamic, m_bCreated, born, m_JobQueue, owner, job, workers, history>>

\* jThread->Create(this), begun ...
AddMake(c) == /\ Client(c, "make", "made")
              /\ Th!CreateStart(made[c])
              /\ UNCHANGED <<pool, m_JobQueue, owner, job, made, workers, history>>

\* ... and done.
AddMade(c) == /\ Client(c, "made", "unlock")
              /\ opc[made[c]] = "idle"
              /\ m_Allocator' = [m_Allocator EXCEPT ![made[c]] = TRUE]
              /\ UNCHANGED <<threads, pool, m_JobQueue, owner, job, made,
                             wpc, event, m_bWorking, crashed, history>>

\* Mutant: the gate stays closed.
AddUnlock_None(c) == /\ Client(c, "unlock", "put")
                     /\ UNCHANGED <<threads, pool, m_JobQueue, owner,
                                    job, made, workers, history>>

AddUnlock(c) == /\ Client(c, "unlock", "put")
                /\ m_ThCountGate' = Nobody
                /\ made' = [made EXCEPT ![c] = 0]
                /\ UNCHANGED <<threads, m_bDynamic, m_bCreated, listed, born, m_JobQueue, owner,
                               job, workers, history>>

Full == Len(m_JobQueue) >= mMaxSize

\* m_JobQueue->Put(&e), whose result AddJob ignores: on a full queue the job is dropped.
AddPut(c) == /\ Client(c, "put", "idle")
             /\ \/ /\ Queue!Enqueue(job[c])
                   /\ accepted' = accepted \cup {job[c]}
                \/ Full /\ UNCHANGED <<m_JobQueue, accepted>>
             /\ job' = [job EXCEPT ![c] = 0]
             /\ UNCHANGED <<threads, pool, owner, made, workers, jobs, done, exitsLost>>

--------------------------------------------------------------------------------
\* Destroy(), which the owner calls when no AddJob is under way.
DestroyPool == /\ OwnerAt("up", "exits", 1)
               /\ \A c \in Clients : cpc[c] = "idle"
               /\ UNCHANGED <<threads, pool, m_JobQueue, clients, workers, history>>

\* Mutant: one Exit for all the workers.
PutExit_Once ==
    /\ at = 1 /\ listed > 0
    /\ OwnerAt("exits", "exits", listed + 1)
    /\ Queue!Enqueue(Exit)
    /\ UNCHANGED <<threads, pool, clients, workers, history>>

\* DestroyAllJobThreads(): an Exit for each worker; the result of Put is ignored.
PutExit == /\ at <= listed
           /\ OwnerAt("exits", "exits", at + 1)
           /\ \/ Queue!Enqueue(Exit) /\ UNCHANGED exitsLost
              \/ Full /\ exitsLost' = exitsLost + 1 /\ UNCHANGED m_JobQueue
           /\ UNCHANGED <<threads, pool, clients, workers, jobs, accepted, done>>

ExitsPut == /\ at > listed
            /\ OwnerAt("exits", "destroy", 1)
            /\ UNCHANGED <<threads, pool, m_JobQueue, clients, workers, history>>

\* m_ThreadList[i]->Destroy(): XLSimpleThreads::Destroy begins ...
DestroyWorker == /\ at <= listed
                 /\ OwnerAt("destroy", "join", at)
                 /\ Th!DestroyStart(at)
                 /\ UNCHANGED <<pool, m_JobQueue, clients, workers, history>>

\* ... and has returned.
DestroyNext == /\ OwnerAt("join", "destroy", at + 1)
               /\ opc[at] = "idle"
               /\ UNCHANGED <<threads, pool, m_JobQueue, clients, workers, history>>

\* A worker that was destroyed in an earlier life is not created.
DestroyPast == /\ at <= listed
               /\ OwnerAt("destroy", "destroy", at + 1)
               /\ ~m_handle[at]
               /\ UNCHANGED <<threads, pool, m_JobQueue, clients, workers, history>>

\* The gate, the queue, m_bCreated = false, and Destroy returns.
DestroyEnd == /\ at > listed
              /\ OwnerAt("destroy", "down", 0)
              /\ m_bCreated' = FALSE
              /\ UNCHANGED <<threads, m_bDynamic, m_ThCountGate, listed, born, m_JobQueue,
                             clients, workers, history>>

--------------------------------------------------------------------------------
\* RunProgram() up to its loop
Enter(w) == /\ Worker(w, "none", "loop")
            /\ UNCHANGED <<threads, pool, m_JobQueue, owner, clients,
                           event, m_Allocator, m_bWorking, crashed, history>>

\* m_Allocator->GetEvent, GetEvent's test of m_bCreated
Loop(w) == /\ m_Allocator[w] /\ m_bCreated
           /\ Worker(w, "loop", "get")
           /\ UNCHANGED <<threads, pool, m_JobQueue, owner, clients,
                          event, m_Allocator, m_bWorking, crashed, history>>

\* The same through a null pointer
NullAllocator(w) == /\ ~m_Allocator[w]
                    /\ Worker(w, "loop", "loop")
                    /\ crashed' = TRUE
                    /\ UNCHANGED <<threads, pool, m_JobQueue, owner, clients,
                                   event, m_Allocator, m_bWorking, history>>

\* m_JobQueue->Get(e), which waits for an event; m_bWorking = true
Get(w) == \E x \in Jobs \cup {Exit} :
    /\ Queue!Dequeue(x)
    /\ event' = [event EXCEPT ![w] = x]
    /\ m_bWorking' = [m_bWorking EXCEPT ![w] = TRUE]
    /\ Worker(w, "get", IF x = Exit THEN "exit" ELSE "work")
    /\ UNCHANGED <<threads, pool, owner, clients, m_Allocator, crashed, history>>

\* Mutant: the worker leaves its loop after one job.
Worked_Once(w) == /\ Worker(w, "work", "exit")
                  /\ done' = done \cup {event[w]}
                  /\ event' = [event EXCEPT ![w] = Exit]
                  /\ m_bWorking' = [m_bWorking EXCEPT ![w] = FALSE]
                  /\ UNCHANGED <<threads, pool, m_JobQueue, owner, clients,
                                 m_Allocator, crashed, jobs, accepted, exitsLost>>

\* job->Work() returns; e.Reset(); m_bWorking = false
Worked(w) == /\ Worker(w, "work", "loop")
             /\ done' = done \cup {event[w]}
             /\ event' = [event EXCEPT ![w] = Exit]
             /\ m_bWorking' = [m_bWorking EXCEPT ![w] = FALSE]
             /\ UNCHANGED <<threads, pool, m_JobQueue, owner, clients,
                            m_Allocator, crashed, jobs, accepted, exitsLost>>

\* The Exit event: RunProgram returns.
Return(w) == /\ Worker(w, "exit", "returned")
             /\ Th!RunReturns(w)
             /\ UNCHANGED <<pool, m_JobQueue, owner, clients,
                            event, m_Allocator, m_bWorking, crashed, history>>

--------------------------------------------------------------------------------
\* The steps of XLSimpleThreads: of a Create or Destroy under way, and of the thread.
ThreadCall(w) == /\ ~crashed
                 /\ Th!OwnerStep(w)
                 /\ UNCHANGED <<pool, m_JobQueue, owner, clients, workers, history>>

ThreadRun(w) == /\ ~crashed
                /\ Th!ThreadStep(w)
                /\ UNCHANGED <<pool, m_JobQueue, owner, clients, workers, history>>

WorkerStep(w) == Enter(w) \/ Loop(w) \/ NullAllocator(w) \/ Get(w) \/ Worked(w) \/ Return(w)

ClientStep(c) == AddLock(c) \/ AddMake(c) \/ AddMade(c) \/ AddUnlock(c) \/ AddPut(c)

OwnerStep == \/ CreateWorker \/ CreateNext
             \/ PutExit \/ ExitsPut \/ DestroyWorker \/ DestroyPast \/ DestroyNext \/ DestroyEnd

Next == \/ CreatePool \/ DestroyPool \/ OwnerStep
        \/ \E c \in Clients : AddJob(c) \/ ClientStep(c)
        \/ \E w \in Workers : ThreadCall(w) \/ ThreadRun(w) \/ WorkerStep(w)

Spec == Init /\ [][Next]_vars

\* Every thread is scheduled and every Work() returns; nothing forces AddJob or Destroy.
FairSpec == /\ Spec
            /\ WF_vars(OwnerStep)
            /\ \A c \in Clients : WF_vars(ClientStep(c))
            /\ \A w \in Workers : WF_vars(ThreadCall(w)) /\ WF_vars(ThreadRun(w) \/ WorkerStep(w))

--------------------------------------------------------------------------------
OwnerTyped == /\ m_bDynamic \in BOOLEAN /\ m_bCreated \in BOOLEAN /\ crashed \in BOOLEAN
              /\ listed \in Nat /\ born \in Nat /\ at \in Nat /\ exitsLost \in Nat
              /\ mpc \in {"out", "create", "created", "up", "exits", "destroy", "join", "down"}

ClientsTyped == /\ m_ThCountGate \in Clients \cup {Nobody}
                /\ jobs \in 0..MaxJobs
                /\ cpc \in [Clients -> {"idle", "lock", "make", "made", "unlock", "put"}]
                /\ job \in [Clients -> 0..MaxJobs] /\ made \in [Clients -> Nat]
                /\ \A c \in Clients : cpc[c] \in {"make", "made", "unlock"} <=> m_ThCountGate = c

WorkersTyped == /\ m_JobQueue \in Seq(Jobs \cup {Exit})
                /\ wpc \in [Workers -> {"none", "loop", "get", "work", "exit", "returned"}]
                /\ event \in [Workers -> Jobs \cup {Exit}]
                /\ m_Allocator \in [Workers -> BOOLEAN] /\ m_bWorking \in [Workers -> BOOLEAN]
                /\ accepted \subseteq Jobs /\ done \subseteq Jobs

(* Every variable has its type, and m_ThCountGate is held by the one client   *)
(* that is between Lock and Unlock.                                           *)
TypeOK == Th!TypeOK /\ OwnerTyped /\ ClientsTyped /\ WorkersTyped

\* The workers of this life
Present == born + 1..listed

(* However many clients find room at the same time, no life of a pool makes   *)
(* more than m_iNumMaxThread workers (XLThreadPool.cpp:101-108, 127-138), and *)
(* a dynamic pool makes no more in all its lives together: m_ThreadList keeps *)
(* the destroyed ones.                                                        *)
SizeBounded == /\ listed - born <= m_iNumMaxThread
               /\ m_bDynamic => listed <= m_iNumMaxThread

(* When Destroy has returned, no thread of the pool exists any more, and      *)
(* every job that was accepted has been carried out, provided one worker was  *)
(* alive: the Exits are behind the jobs, and each thread is joined            *)
(* (XLThreadPool.cpp:147-176, XLSimpleThreads.cpp:92-98).                     *)
DestroyLeavesNothing ==
    mpc = "down" => /\ \A w \in Workers : tpc[w] = "none"
                    /\ (\E w \in Present : wpc[w] = "returned") => accepted \subseteq done

--------------------------------------------------------------------------------
\* The ways in which the program's start-up and shutdown can go wrong.
\* The thread waits for ever in the Take of an m_Sync1 that was destroyed.
Stuck(w) == tpc[w] = "take1" /\ ~m_Sync1[w].created

\* The thread looked for m_handle before it was assigned, and skipped RunProgram.
Idled(w) == /\ wpc[w] = "none"
            /\ \/ tpc[w] \in {"give2", "ended"}
               \/ tpc[w] = "none" /\ mpc \in {"exits", "destroy", "join", "down"}

\* The list is full of workers that an earlier life has destroyed.
Outlived == m_bDynamic /\ born = m_iNumMaxThread

(* Destroy returns, unless so many Exits were refused by a full queue that    *)
(* there are too few for the workers of this life, a thread is stuck in its   *)
(* first Take, or the program has crashed (XLThreadPool.cpp:147-176): there   *)
(* is no fourth way to hang.                                                  *)
DestroyReturnsUnless ==
    mpc = "exits" ~> (mpc = "down" \/ exitsLost > born \/ crashed \/ \E w \in Workers : Stuck(w))

(* A job that is accepted is carried out, unless every worker of this life    *)
(* was lost at its start, a second life found the list full and made none, or *)
(* the program has crashed (XLThreadPool.cpp:39-64, 120-144).                 *)
JobRuns == \A j \in Jobs :
    j \in accepted ~> \/ j \in done \/ crashed \/ Outlived
                      \/ Present # {} /\ \A w \in Present : Stuck(w) \/ Idled(w)

(* What the demo program expects: pool.Destroy() returns, and "Pool destroyed"*)
(* is printed (Main.cpp:62-63).                                               *)
DestroyReturns == mpc = "exits" ~> (mpc = "down" \/ crashed)

(* What the demo program expects of pool.Create(): workers that call their    *)
(* pool, not through a null pointer (Main.cpp:36-38, XLThreadPool.cpp:44).    *)
NoNullAllocator == ~crashed
================================================================================
