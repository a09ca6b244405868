------------------------- MODULE XLThreadPool_proofs -------------------------
(***************************************************************************)
(* XLThreadPool for every number of workers, clients, jobs and lives and   *)
(* every size of the queue: the pool never makes too many workers, and     *)
(* Destroy leaves neither a thread nor an accepted job behind.             *)
(***************************************************************************)
EXTENDS XLThreadPool, FiniteSets, SequenceTheorems, FiniteSetTheorems, TLAPS

Creating == {"spawn", "assign", "give1"}
Destroying == {"take2", "destroy1", "destroy2", "join"}

\* How far the owner is, and who may be in AddJob then.
Phases == /\ SizeBounded
          /\ born <= listed /\ listed <= MaxWorkers
          /\ mpc = "out" => listed = 0
          /\ mpc \in {"create", "created"} =>
                /\ ~m_bDynamic
                /\ at = listed + 1 /\ at <= born + m_iNumMaxThread
                /\ born + m_iNumMaxThread <= MaxWorkers
          /\ mpc \in {"exits", "destroy", "join"} => at > 0
          /\ mpc # "up" => \A c \in Clients : cpc[c] = "idle"
          /\ \A c \in Clients : cpc[c] = "lock" => m_bDynamic
          /\ \A c \in Clients : cpc[c] \in {"make", "made"} => made[c] \in 1..listed

\* A worker that a thread or a call is about is in the list, or about to be.
Listed == \A w \in Workers :
              tpc[w] # "none" \/ opc[w] # "idle" \/ m_handle[w] \/ wpc[w] # "none"
                  => w <= listed \/ (mpc = "created" /\ at = w)

\* Who is inside XLSimpleThreads::Create and Destroy of a worker
Calls == /\ \A w \in Workers : opc[w] \in Creating =>
                (mpc = "created" /\ at = w) \/ \E c \in Clients : cpc[c] = "made" /\ made[c] = w
         /\ \A w \in Workers : opc[w] \in Destroying => mpc = "join" /\ at = w
         /\ \A w \in Workers : opc[w] = "spawn" => tpc[w] = "none"
         /\ \A w \in Workers : tpc[w] # "none" => m_handle[w] \/ opc[w] = "assign"
         /\ \A c \in Clients : cpc[c] = "make" =>
                \A w \in Workers : w = made[c] => tpc[w] = "none" /\ opc[w] = "idle"

\* The workers before the one Destroy is at are joined.
Joined == /\ mpc \in {"destroy", "join"} => \A w \in Workers : w < at => tpc[w] = "none"
          /\ mpc = "join" => \A w \in Workers : w = at /\ opc[w] = "idle" => tpc[w] = "none"
          /\ mpc = "down" => \A w \in Workers : tpc[w] = "none"

\* Where an accepted job is
Somewhere(j) == \/ j \in done
                \/ \E i \in 1..Len(m_JobQueue) : m_JobQueue[i] = j
                \/ \E w \in Workers : wpc[w] = "work" /\ event[w] = j

\* Jobs are before Exits, which only Destroy puts; a worker of this life that took one
\* left no job.
Ordered == /\ \A j \in accepted : Somewhere(j)
           /\ \A w \in Workers : wpc[w] \in {"loop", "get", "work", "exit"} => tpc[w] = "run"
           /\ \A w \in Workers : wpc[w] = "work" => event[w] # Exit
           /\ \A c \in Clients : cpc[c] # "idle" => job[c] \in Jobs
           /\ \A i, k \in 1..Len(m_JobQueue) :
                  i < k /\ m_JobQueue[i] = Exit => m_JobQueue[k] = Exit
           /\ mpc \in {"out", "create", "created", "up"} =>
                  /\ \A i \in 1..Len(m_JobQueue) : m_JobQueue[i] # Exit
                  /\ \A w \in Workers : w > born => wpc[w] \notin {"exit", "returned"}
           /\ (\E w \in Workers : w > born /\ wpc[w] \in {"exit", "returned"}) =>
                  \A i \in 1..Len(m_JobQueue) : m_JobQueue[i] = Exit

IInv == TypeOK /\ Phases /\ Listed /\ Calls /\ Joined /\ Ordered

--------------------------------------------------------------------------------
(* XLSimpleThreads::Create and Destroy begin on an idle object.               *)
LEMMA CallBegins ==
    ASSUME Th!TypeOK, NEW w \in Workers
    PROVE  /\ Th!CreateStart(w) =>
                /\ Th!TypeOK' /\ tpc' = tpc /\ m_handle' = m_handle
                /\ opc[w] = "idle" /\ opc' = [opc EXCEPT ![w] = "spawn"]
           /\ Th!DestroyStart(w) =>
                /\ Th!TypeOK' /\ tpc' = tpc /\ m_handle' = m_handle
                /\ opc[w] = "idle" /\ opc' = [opc EXCEPT ![w] = "take2"]
<1> USE DEF Th!TypeOK, Th!Owner
<1>0. Th!Fresh \in Th!Semaphore
  BY DEF Th!Semaphore, Th!Fresh
<1>1. ASSUME Th!CreateStart(w)
      PROVE  /\ Th!TypeOK' /\ tpc' = tpc /\ m_handle' = m_handle
             /\ opc[w] = "idle" /\ opc' = [opc EXCEPT ![w] = "spawn"]
  BY <1>0, <1>1 DEF Th!CreateStart
<1>2. ASSUME Th!DestroyStart(w)
      PROVE  /\ Th!TypeOK' /\ tpc' = tpc /\ m_handle' = m_handle
             /\ opc[w] = "idle" /\ opc' = [opc EXCEPT ![w] = "take2"]
  BY <1>2 DEF Th!DestroyStart
<1> QED
  BY <1>1, <1>2

\* A step of a Create or Destroy under way
Moved(w, from, to) == opc[w] = from /\ opc' = [opc EXCEPT ![w] = to]

(* A Create under way starts the thread and ends idle, a Destroy ends idle    *)
(* with the thread joined; nothing else of them shows.                        *)
LEMMA CallMoves ==
    ASSUME Th!TypeOK, NEW w \in Workers, Th!OwnerStep(w)
    PROVE  /\ Th!TypeOK'
           /\ \A v \in Workers : v # w => m_handle'[v] = m_handle[v]
           /\ opc[w] \notin {"assign", "join"} => m_handle' = m_handle
           /\ opc[w] = "assign" => m_handle'[w]
           /\ \/ Moved(w, "spawn", "assign") /\ tpc' = [tpc EXCEPT ![w] = "started"]
              \/ /\ \/ Moved(w, "assign", "give1") \/ Moved(w, "give1", "idle")
                    \/ Moved(w, "take2", "destroy1") \/ Moved(w, "destroy1", "destroy2")
                    \/ Moved(w, "destroy2", "join")
                 /\ tpc' = tpc
              \/ /\ Moved(w, "join", "idle")
                 /\ tpc[w] = "ended" /\ tpc' = [tpc EXCEPT ![w] = "none"]
<1> USE DEF Th!TypeOK, Th!Owner, Th!Thread, Moved
<1>0. Th!Dead \in Th!Semaphore
  BY DEF Th!Semaphore, Th!Dead
<1>1. CASE Th!CreateSpawn(w) \/ Th!CreateAssign(w) \/ Th!DestroyJoin(w)
  BY <1>1 DEF Th!CreateSpawn, Th!CreateAssign, Th!DestroyJoin
<1>2. CASE Th!CreateGive(w) \/ Th!DestroyTake(w)
  <2>1. CASE Th!CreateGive(w)
    <3>1. m_Sync1[w] \in Th!Semaphore /\ m_Sync1[w].permits + 1 \in Int
      BY DEF Th!Semaphore
    <3>2. [m_Sync1[w] EXCEPT !.permits = @ + 1] \in Th!Semaphore
      BY <3>1 DEF Th!Semaphore
    <3>3. m_Sync1' \in [Workers -> Th!Semaphore]
      BY <2>1, <3>2 DEF Th!CreateGive
    <3> QED
      BY <2>1, <3>3 DEF Th!CreateGive
  <2>2. CASE Th!DestroyTake(w)
    <3>1. m_Sync2[w] \in Th!Semaphore /\ m_Sync2[w].permits - 1 \in Int
      BY DEF Th!Semaphore
    <3>2. [m_Sync2[w] EXCEPT !.permits = @ - 1] \in Th!Semaphore
      BY <3>1 DEF Th!Semaphore
    <3>3. m_Sync2' \in [Workers -> Th!Semaphore]
      BY <2>2, <3>2 DEF Th!DestroyTake
    <3> QED
      BY <2>2, <3>3 DEF Th!DestroyTake
  <2> QED
    BY <1>2, <2>1, <2>2
<1>3. CASE Th!DestroySync1(w) \/ Th!DestroySync2(w)
  BY <1>0, <1>3 DEF Th!DestroySync1, Th!DestroySync2
<1> HIDE DEF Th!TypeOK, Th!Owner, Th!Thread, Moved
<1> QED
  BY <1>1, <1>2, <1>3 DEF Th!OwnerStep

(* The thread's own steps, outside RunProgram and at its end: it stays a      *)
(* thread, and enters RunProgram or leaves it.                                *)
LEMMA ThreadMoves ==
    ASSUME Th!TypeOK, NEW w \in Workers, Th!ThreadStep(w) \/ Th!RunReturns(w)
    PROVE  /\ Th!TypeOK' /\ opc' = opc /\ m_handle' = m_handle
           /\ tpc[w] # "none" /\ tpc' = [tpc EXCEPT ![w] = tpc'[w]] /\ tpc'[w] # "none"
           /\ Th!ThreadStep(w) => tpc[w] # "run"
<1> USE DEF Th!TypeOK, Th!Thread
<1>1. CASE Th!TakeTest(w) \/ Th!Check(w)
  BY <1>1 DEF Th!TakeTest, Th!Check
<1>2. CASE Th!TakeDone(w)
  <2>1. m_Sync1' \in [Workers -> Th!Semaphore]
    BY <1>2 DEF Th!TakeDone, Th!Semaphore
  <2> QED
    BY <1>2, <2>1 DEF Th!TakeDone
<1>3. CASE Th!Finish(w)
  <2>1. m_Sync2' \in [Workers -> Th!Semaphore]
    BY <1>3 DEF Th!Finish, Th!Semaphore
  <2> QED
    BY <1>3, <2>1 DEF Th!Finish
<1>4. CASE Th!RunReturns(w)
  BY <1>4 DEF Th!RunReturns, Th!ThreadStep, Th!TakeTest, Th!TakeDone, Th!Check, Th!Finish
<1> HIDE DEF Th!TypeOK, Th!Thread
<1> QED
  BY <1>1, <1>2, <1>3, <1>4 DEF Th!ThreadStep

--------------------------------------------------------------------------------
(* The pool starts with nothing.                                              *)
LEMMA InitIInv == Init => IInv
<1> SUFFICES ASSUME Init
             PROVE  IInv
  OBVIOUS
<1> USE PoolAssumption DEF Init
<1>1. Th!TypeOK
  BY DEF Th!Init, Th!TypeOK, Th!Dead, Th!Semaphore
<1>2. OwnerTyped
  BY DEF OwnerTyped
<1>3. ClientsTyped
  BY DEF ClientsTyped
<1>4. WorkersTyped
  BY DEF WorkersTyped, Queue!Init
<1>5. Phases /\ Listed /\ Calls /\ Joined
  BY DEF Phases, SizeBounded, Listed, Calls, Joined, Th!Init, Workers, Creating, Destroying
<1>6. Ordered
  BY DEF Ordered, Queue!Init
<1> QED
  BY <1>1, <1>2, <1>3, <1>4, <1>5, <1>6 DEF IInv, TypeOK

(* A life begins without threads, with an empty queue, on the list of workers *)
(* that the lives before it have left.                                        *)
LEMMA CreateIInv == ASSUME IInv, CreatePool PROVE IInv'
<1> USE PoolAssumption DEF threads, pool, owner, clients, workers, history, OwnerAt, Workers
<1>0. /\ Th!TypeOK /\ OwnerTyped /\ ClientsTyped /\ WorkersTyped
      /\ Phases /\ Listed /\ Calls /\ Joined /\ Ordered
  BY DEF IInv, TypeOK
<1>1. /\ UNCHANGED <<threads, m_bDynamic, m_ThCountGate, listed, clients, workers, jobs, done>>
      /\ m_bCreated' = TRUE /\ m_JobQueue' = <<>> /\ born' = listed
      /\ accepted' = {} /\ exitsLost' = 0
      /\ mpc \in {"out", "down"}
      /\ \/ mpc' = "up" /\ at' = 0
         \/ /\ mpc' = "create" /\ at' = listed + 1
            /\ ~m_bDynamic /\ m_iNumMaxThread # 0 /\ listed + m_iNumMaxThread <= MaxWorkers
  BY DEF CreatePool
<1>2. Th!TypeOK' /\ ClientsTyped' /\ WorkersTyped'
  BY <1>0, <1>1 DEF Th!TypeOK, ClientsTyped, WorkersTyped
<1>3. OwnerTyped'
  BY <1>0, <1>1 DEF OwnerTyped
<1>4. Phases'
  BY <1>0, <1>1 DEF OwnerTyped, Phases, SizeBounded
<1>5. Listed' /\ Calls' /\ Joined'
  BY <1>0, <1>1 DEF Listed, Calls, Joined
<1>6. Ordered'
  BY <1>0, <1>1 DEF OwnerTyped, Phases, Listed, Ordered
<1> QED
  BY <1>2, <1>3, <1>4, <1>5, <1>6 DEF IInv, TypeOK

(* The owner's steps that call nobody keep the invariant: the worker made is  *)
(* listed, and Destroy goes from one worker to the next.                      *)
LEMMA OwnerIInv ==
    ASSUME IInv, \/ CreateNext \/ DestroyPool
                 \/ ExitsPut \/ DestroyPast \/ DestroyNext \/ DestroyEnd
    PROVE  IInv'
<1> USE PoolAssumption
    DEF threads, pool, owner, clients, workers, history, OwnerAt, Workers,
        CreateNext, DestroyPool, ExitsPut, DestroyPast, DestroyNext, DestroyEnd
<1>0. /\ Th!TypeOK /\ OwnerTyped /\ ClientsTyped /\ WorkersTyped
      /\ Phases /\ Listed /\ Calls /\ Joined /\ Ordered
  BY DEF IInv, TypeOK
<1>1. UNCHANGED threads
  OBVIOUS
<1>2. Th!TypeOK'
  BY <1>0, <1>1 DEF Th!TypeOK
<1>3. OwnerTyped'
  <2>1. m_bDynamic' \in BOOLEAN /\ m_bCreated' \in BOOLEAN /\ crashed' \in BOOLEAN
    BY <1>0 DEF OwnerTyped
  <2>2. listed' \in Nat /\ born' \in Nat /\ at' \in Nat /\ exitsLost' \in Nat
    BY <1>0 DEF OwnerTyped
  <2>3. mpc' \in {"out", "create", "created", "up", "exits", "destroy", "join", "down"}
    BY <1>0 DEF OwnerTyped
  <2> QED
    BY <2>1, <2>2, <2>3 DEF OwnerTyped
<1>4. ClientsTyped'
  BY <1>0 DEF ClientsTyped
<1>5. WorkersTyped'
  BY <1>0 DEF WorkersTyped
<1>6. Phases'
  BY <1>0 DEF OwnerTyped, Phases, SizeBounded
<1>7. Listed'
  BY <1>0, <1>1 DEF OwnerTyped, Phases, Listed
<1>8. Calls'
  BY <1>0, <1>1 DEF OwnerTyped, Phases, Calls, Creating, Destroying
<1>9. Joined'
  BY <1>0, <1>1 DEF OwnerTyped, Phases, Listed, Calls, Joined, Creating
<1>10. Ordered'
  <2>1. \A j \in accepted' : Somewhere(j)'
    BY <1>0 DEF Ordered, Somewhere
  <2> QED
    BY <1>0, <1>1, <2>1 DEF Ordered
<1> QED
  BY <1>2, <1>3, <1>4, <1>5, <1>6, <1>7, <1>8, <1>9, <1>10 DEF IInv, TypeOK

(* An Exit goes behind everything in the queue, or is lost.                   *)
LEMMA PutExitIInv == ASSUME IInv, PutExit PROVE IInv'
<1> USE PoolAssumption DEF threads, pool, owner, clients, workers, history, OwnerAt, Workers
<1>0. /\ Th!TypeOK /\ OwnerTyped /\ ClientsTyped /\ WorkersTyped
      /\ Phases /\ Listed /\ Calls /\ Joined /\ Ordered
  BY DEF IInv, TypeOK
<1>1. /\ UNCHANGED <<threads, pool, clients, workers, jobs, accepted, done>>
      /\ mpc = "exits" /\ mpc' = "exits" /\ at' = at + 1
      /\ exitsLost' \in {exitsLost, exitsLost + 1}
      /\ m_JobQueue' = m_JobQueue \/ m_JobQueue' = Append(m_JobQueue, Exit)
  BY DEF PutExit, Queue!Enqueue
<1>2. Th!TypeOK' /\ ClientsTyped'
  BY <1>0, <1>1 DEF Th!TypeOK, ClientsTyped
<1>3. OwnerTyped'
  BY <1>0, <1>1 DEF OwnerTyped
<1>4. WorkersTyped'
  <2>1. m_JobQueue' \in Seq(Jobs \cup {Exit})
    <3>1. CASE m_JobQueue' = m_JobQueue
      BY <1>0, <3>1 DEF WorkersTyped
    <3>2. CASE m_JobQueue' = Append(m_JobQueue, Exit)
      BY <1>0, <3>2 DEF WorkersTyped
    <3> QED
      BY <1>1, <3>1, <3>2
  <2> QED
    BY <1>0, <1>1, <2>1 DEF WorkersTyped
<1>5. Phases' /\ Listed' /\ Calls' /\ Joined'
  BY <1>0, <1>1 DEF OwnerTyped, Phases, SizeBounded, Listed, Calls, Joined
<1>6. Ordered'
  <2>1. \A i \in 1..Len(m_JobQueue) :
            i \in 1..Len(m_JobQueue') /\ m_JobQueue'[i] = m_JobQueue[i]
    BY <1>0, <1>1 DEF WorkersTyped
  <2>2. \A i \in 1..Len(m_JobQueue') : i \in 1..Len(m_JobQueue) \/ m_JobQueue'[i] = Exit
    BY <1>0, <1>1 DEF WorkersTyped
  <2>3. \A j \in accepted' : Somewhere(j)'
    BY <1>0, <1>1, <2>1 DEF Ordered, Somewhere
  <2>4. Len(m_JobQueue) \in Nat /\ Len(m_JobQueue') \in Nat
    BY <1>0, <1>4 DEF WorkersTyped
  <2>5. \A i, k \in 1..Len(m_JobQueue') :
            i < k /\ m_JobQueue'[i] = Exit => m_JobQueue'[k] = Exit
    BY <1>0, <2>1, <2>2, <2>4 DEF Ordered
  <2> QED
    BY <1>0, <1>1, <2>1, <2>2, <2>3, <2>5 DEF Ordered
<1> QED
  BY <1>2, <1>3, <1>4, <1>5, <1>6 DEF IInv, TypeOK

(* Calling Create and Destroy of the worker the owner is at keeps it.         *)
LEMMA CallIInv == ASSUME IInv, CreateWorker \/ DestroyWorker PROVE IInv'
<1> USE PoolAssumption DEF pool, clients, workers, history, OwnerAt
<1>0. /\ Th!TypeOK /\ OwnerTyped /\ ClientsTyped /\ WorkersTyped
      /\ Phases /\ Listed /\ Calls /\ Joined /\ Ordered
  BY DEF IInv, TypeOK
<1>1. /\ UNCHANGED <<pool, m_JobQueue, clients, workers, history>>
      /\ at' = at
      /\ \/ mpc = "create" /\ mpc' = "created" /\ Th!CreateStart(at)
         \/ mpc = "destroy" /\ mpc' = "join" /\ at <= listed /\ Th!DestroyStart(at)
  BY DEF CreateWorker, DestroyWorker
<1>2. at \in Workers
  BY <1>0, <1>1 DEF OwnerTyped, Phases, Workers
<1>3. /\ Th!TypeOK' /\ tpc' = tpc /\ m_handle' = m_handle /\ opc[at] = "idle"
      /\ \/ mpc = "create" /\ mpc' = "created" /\ opc' = [opc EXCEPT ![at] = "spawn"]
         \/ mpc = "destroy" /\ mpc' = "join" /\ at <= listed /\ opc' = [opc EXCEPT ![at] = "take2"]
  BY <1>0, <1>1, <1>2, CallBegins
<1>4. OwnerTyped' /\ ClientsTyped' /\ WorkersTyped'
  BY <1>0, <1>1 DEF OwnerTyped, ClientsTyped, WorkersTyped
<1>5. Phases'
  BY <1>0, <1>1, <1>3 DEF Phases, SizeBounded, OwnerTyped
<1>6. Listed'
  BY <1>0, <1>1, <1>2, <1>3 DEF Phases, Listed, OwnerTyped, Th!TypeOK, Workers
<1>7. Calls'
  BY <1>0, <1>1, <1>2, <1>3 DEF Phases, Listed, Calls, OwnerTyped, Th!TypeOK, Workers,
                                Creating, Destroying
<1>8. Joined'
  BY <1>0, <1>1, <1>2, <1>3 DEF Joined, Th!TypeOK
<1>9. Ordered'
  BY <1>0, <1>1, <1>3 DEF Ordered, Somewhere
<1> QED
  BY <1>3, <1>4, <1>5, <1>6, <1>7, <1>8, <1>9 DEF IInv, TypeOK

--------------------------------------------------------------------------------
(* AddJob begins, and leaves the gate.                                        *)
LEMMA AddIInv == ASSUME IInv, NEW c \in Clients, AddJob(c) \/ AddUnlock(c) PROVE IInv'
<1> USE PoolAssumption DEF threads, pool, owner, clients, workers, history, Client, AddJob, AddUnlock
<1>0. /\ Th!TypeOK /\ OwnerTyped /\ ClientsTyped /\ WorkersTyped
      /\ Phases /\ Listed /\ Calls /\ Joined /\ Ordered
  BY DEF IInv, TypeOK
<1>1. Th!TypeOK' /\ OwnerTyped' /\ WorkersTyped'
  BY <1>0 DEF Th!TypeOK, OwnerTyped, WorkersTyped
<1>2. ClientsTyped'
  <2>1. CASE AddJob(c)
    BY <1>0, <2>1 DEF ClientsTyped
  <2>2. CASE AddUnlock(c)
    BY <1>0, <2>2 DEF ClientsTyped
  <2> QED
    BY <2>1, <2>2
<1>3. mpc = "up" /\ mpc' = "up" /\ listed' = listed
  BY <1>0 DEF Phases, ClientsTyped
<1>4. Phases' /\ Listed' /\ Joined'
  BY <1>0, <1>3 DEF Phases, SizeBounded, Listed, Joined, ClientsTyped
<1>5. Calls'
  BY <1>0, <1>3 DEF Calls, ClientsTyped
<1>6. Ordered'
  <2>1. \A j \in accepted' : Somewhere(j)'
    BY <1>0 DEF Ordered, Somewhere
  <2>2. \A d \in Clients : cpc'[d] # "idle" => job'[d] \in Jobs
    BY <1>0 DEF Ordered, ClientsTyped, Jobs
  <2> QED
    BY <1>0, <1>3, <2>1, <2>2 DEF Ordered
<1> QED
  BY <1>1, <1>2, <1>4, <1>5, <1>6 DEF IInv, TypeOK

(* Under the gate, the new worker is the next of the list, and nobody else    *)
(* is making one.                                                             *)
LEMMA AddLockIInv == ASSUME IInv, NEW c \in Clients, AddLock(c) PROVE IInv'
<1> USE PoolAssumption DEF threads, pool, owner, clients, workers, history, Client, AddLock
<1>0. /\ Th!TypeOK /\ OwnerTyped /\ ClientsTyped /\ WorkersTyped
      /\ Phases /\ Listed /\ Calls /\ Joined /\ Ordered
  BY DEF IInv, TypeOK
<1>1. Th!TypeOK' /\ WorkersTyped'
  BY <1>0 DEF Th!TypeOK, WorkersTyped
<1>2. OwnerTyped'
  BY <1>0 DEF OwnerTyped
<1>3. ClientsTyped'
  BY <1>0 DEF ClientsTyped, OwnerTyped
<1>4. mpc = "up" /\ mpc' = "up"
  BY <1>0 DEF Phases, ClientsTyped
<1>5. Phases'
  BY <1>0, <1>4 DEF Phases, SizeBounded, OwnerTyped, ClientsTyped
<1>6. Listed'
  BY <1>0, <1>4 DEF Listed, OwnerTyped, Workers
<1>7. Calls'
  BY <1>0, <1>4 DEF Calls, Listed, ClientsTyped, OwnerTyped, Workers
<1>8. Joined'
  BY <1>0, <1>4 DEF Joined
<1>9. Ordered'
  BY <1>0, <1>4 DEF Ordered, Somewhere, ClientsTyped
<1> QED
  BY <1>1, <1>2, <1>3, <1>5, <1>6, <1>7, <1>8, <1>9 DEF IInv, TypeOK

(* The client's own worker is made while it holds the gate.                   *)
LEMMA AddMakeIInv == ASSUME IInv, NEW c \in Clients, AddMake(c) \/ AddMade(c) PROVE IInv'
<1> USE PoolAssumption DEF pool, owner, history, Client
<1>0. /\ Th!TypeOK /\ OwnerTyped /\ ClientsTyped /\ WorkersTyped
      /\ Phases /\ Listed /\ Calls /\ Joined /\ Ordered
  BY DEF IInv, TypeOK
<1>1. made[c] \in Workers
  BY <1>0 DEF AddMake, AddMade, Phases, OwnerTyped, Workers
<1>2. /\ UNCHANGED <<pool, m_JobQueue, owner, job, made, wpc, event, m_bWorking, crashed, history>>
      /\ \/ AddMake(c) /\ cpc[c] = "make" /\ cpc' = [cpc EXCEPT ![c] = "made"]
         \/ AddMade(c) /\ cpc[c] = "made" /\ cpc' = [cpc EXCEPT ![c] = "unlock"]
  BY DEF AddMake, AddMade, workers
<1>3. m_Allocator' \in [Workers -> BOOLEAN]
  BY <1>0 DEF AddMake, AddMade, WorkersTyped, workers
<1>4. /\ Th!TypeOK' /\ tpc' = tpc /\ m_handle' = m_handle /\ opc[made[c]] = "idle"
      /\ AddMake(c) => opc' = [opc EXCEPT ![made[c]] = "spawn"]
      /\ AddMade(c) => opc' = opc
  <2>1. CASE AddMake(c)
    BY <1>0, <1>1, <1>2, <2>1, CallBegins DEF AddMake, AddMade
  <2>2. CASE AddMade(c)
    BY <1>0, <1>2, <2>2 DEF AddMake, AddMade, threads, Th!TypeOK
  <2> QED
    BY <1>2, <2>1, <2>2
<1>5. mpc = "up" /\ mpc' = "up"
  BY <1>0, <1>2 DEF Phases
<1>6. OwnerTyped'
  BY <1>0, <1>2 DEF OwnerTyped
<1>7. ClientsTyped' /\ WorkersTyped'
  BY <1>0, <1>2, <1>3 DEF ClientsTyped, WorkersTyped
<1>8. Phases' /\ Joined'
  BY <1>0, <1>2, <1>4, <1>5 DEF Phases, SizeBounded, Joined, ClientsTyped
<1>9. Listed'
  BY <1>0, <1>1, <1>2, <1>4, <1>5 DEF Listed, Phases, Th!TypeOK
<1>10. Calls'
  BY <1>0, <1>1, <1>2, <1>4, <1>5 DEF Calls, ClientsTyped, Th!TypeOK, Creating, Destroying
<1>11. Ordered'
  BY <1>0, <1>2, <1>4, <1>5 DEF Ordered, Somewhere, ClientsTyped
<1> QED
  BY <1>4, <1>6, <1>7, <1>8, <1>9, <1>10, <1>11 DEF IInv, TypeOK

(* A job goes behind the others: no Exit is in the queue yet.                 *)
LEMMA AddPutIInv == ASSUME IInv, NEW c \in Clients, AddPut(c) PROVE IInv'
<1> USE PoolAssumption DEF threads, pool, owner, workers
<1>0. /\ Th!TypeOK /\ OwnerTyped /\ ClientsTyped /\ WorkersTyped
      /\ Phases /\ Listed /\ Calls /\ Joined /\ Ordered
  BY DEF IInv, TypeOK
<1>1. /\ UNCHANGED <<threads, pool, owner, made, workers, jobs, done, exitsLost>>
      /\ cpc[c] = "put" /\ cpc' = [cpc EXCEPT ![c] = "idle"]
      /\ job' = [job EXCEPT ![c] = 0]
      /\ \/ m_JobQueue' = m_JobQueue /\ accepted' = accepted
         \/ m_JobQueue' = Append(m_JobQueue, job[c]) /\ accepted' = accepted \cup {job[c]}
  BY DEF AddPut, Queue!Enqueue, Client
<1>2. mpc = "up" /\ mpc' = "up" /\ job[c] \in Jobs
  BY <1>0, <1>1 DEF Phases, Ordered
<1>3. Th!TypeOK' /\ OwnerTyped'
  BY <1>0, <1>1 DEF Th!TypeOK, OwnerTyped
<1>4. ClientsTyped'
  BY <1>0, <1>1 DEF ClientsTyped
<1>5. WorkersTyped'
  <2>1. m_JobQueue' \in Seq(Jobs \cup {Exit}) /\ accepted' \subseteq Jobs
    <3>1. CASE m_JobQueue' = m_JobQueue /\ accepted' = accepted
      BY <1>0, <3>1 DEF WorkersTyped
    <3>2. CASE m_JobQueue' = Append(m_JobQueue, job[c]) /\ accepted' = accepted \cup {job[c]}
      BY <1>0, <1>2, <3>2 DEF WorkersTyped
    <3> QED
      BY <1>1, <3>1, <3>2
  <2> QED
    BY <1>0, <1>1, <2>1 DEF WorkersTyped
<1>6. Phases' /\ Listed' /\ Joined'
  BY <1>0, <1>1, <1>2 DEF Phases, SizeBounded, Listed, Joined, ClientsTyped
<1>7. Calls'
  BY <1>0, <1>1, <1>2 DEF Calls, ClientsTyped
<1>8. Ordered'
  <2>1. \A i \in 1..Len(m_JobQueue) :
            i \in 1..Len(m_JobQueue') /\ m_JobQueue'[i] = m_JobQueue[i]
    BY <1>0, <1>1 DEF WorkersTyped
  <2>2. \A i \in 1..Len(m_JobQueue') : m_JobQueue'[i] # Exit
    <3>1. \A i \in 1..Len(m_JobQueue) : m_JobQueue[i] # Exit
      BY <1>0, <1>2 DEF Ordered
    <3>2. job[c] # Exit
      BY <1>2 DEF Exit, Jobs
    <3>3. m_JobQueue \in Seq(Jobs \cup {Exit}) /\ job[c] \in Jobs \cup {Exit}
      BY <1>0, <1>2 DEF WorkersTyped
    <3>4. CASE m_JobQueue' = Append(m_JobQueue, job[c])
      BY <3>1, <3>2, <3>3, <3>4
    <3> QED
      BY <1>1, <3>1, <3>4
  <2>3. \A j \in accepted' : Somewhere(j)'
    <3> SUFFICES ASSUME NEW j \in accepted'
                 PROVE  Somewhere(j)'
      OBVIOUS
    <3>1. CASE j \in accepted
      BY <1>0, <1>1, <2>1, <3>1 DEF Ordered, Somewhere
    <3>2. CASE j = job[c] /\ m_JobQueue' = Append(m_JobQueue, job[c])
      <4>1. Len(m_JobQueue) + 1 \in 1..Len(m_JobQueue') /\ m_JobQueue'[Len(m_JobQueue) + 1] = j
        BY <1>0, <3>2 DEF WorkersTyped
      <4> QED
        BY <4>1 DEF Somewhere
    <3> QED
      BY <1>1, <3>1, <3>2
  <2>4. \A d \in Clients : cpc'[d] # "idle" => job'[d] \in Jobs
    BY <1>0, <1>1 DEF Ordered, ClientsTyped
  <2> QED
    BY <1>0, <1>1, <1>2, <2>2, <2>3, <2>4 DEF Ordered
<1> QED
  BY <1>3, <1>4, <1>5, <1>6, <1>7, <1>8 DEF IInv, TypeOK

--------------------------------------------------------------------------------
(* A worker's steps in RunProgram that leave the queue alone keep the         *)
(* invariant: a job that is done is still somewhere.                          *)
LEMMA WorkIInv ==
    ASSUME IInv, NEW w \in Workers, Enter(w) \/ Loop(w) \/ NullAllocator(w) \/ Worked(w)
    PROVE  IInv'
<1> USE PoolAssumption DEF threads, pool, owner, clients, Worker, Enter, Loop, NullAllocator, Worked
<1>0. /\ Th!TypeOK /\ OwnerTyped /\ ClientsTyped /\ WorkersTyped
      /\ Phases /\ Listed /\ Calls /\ Joined /\ Ordered
  BY DEF IInv, TypeOK
<1>1. /\ UNCHANGED <<threads, pool, m_JobQueue, owner, clients, jobs, accepted, exitsLost>>
      /\ tpc[w] = "run"
      /\ \/ /\ wpc[w] \in {"none", "loop"}
            /\ wpc' = [wpc EXCEPT ![w] = "loop"] \/ wpc' = [wpc EXCEPT ![w] = "get"]
            /\ event' = event /\ done' = done
         \/ /\ wpc[w] = "work" /\ wpc' = [wpc EXCEPT ![w] = "loop"]
            /\ event' = [event EXCEPT ![w] = Exit] /\ done' = done \cup {event[w]}
  BY DEF history
<1>2. Th!TypeOK' /\ ClientsTyped'
  BY <1>0, <1>1 DEF Th!TypeOK, ClientsTyped
<1>3. OwnerTyped'
  BY <1>0 DEF OwnerTyped, history
<1>4. WorkersTyped'
  <2>1. m_bWorking' \in [Workers -> BOOLEAN] /\ m_Allocator' \in [Workers -> BOOLEAN]
    BY <1>0 DEF WorkersTyped
  <2>2. /\ wpc' \in [Workers -> {"none", "loop", "get", "work", "exit", "returned"}]
        /\ event' \in [Workers -> Jobs \cup {Exit}]
        /\ done' \subseteq Jobs
    BY <1>0, <1>1 DEF WorkersTyped, Ordered
  <2> QED
    BY <1>0, <1>1, <2>1, <2>2 DEF WorkersTyped
<1>5. Phases' /\ Listed' /\ Calls' /\ Joined'
  <2>1. Phases' /\ Calls' /\ Joined'
    BY <1>0, <1>1 DEF Phases, SizeBounded, Calls, Joined
  <2>2. Listed'
    BY <1>0, <1>1 DEF Listed, WorkersTyped
  <2> QED
    BY <2>1, <2>2
<1>6. Ordered'
  <2>1. \A j \in accepted' : Somewhere(j)'
    BY <1>0, <1>1 DEF Ordered, Somewhere, WorkersTyped
  <2> QED
    BY <1>0, <1>1, <2>1 DEF Ordered, WorkersTyped
<1> QED
  BY <1>2, <1>3, <1>4, <1>5, <1>6 DEF IInv, TypeOK

(* A worker takes the front of the queue; if it is an Exit, nothing but Exits *)
(* is behind it.                                                              *)
LEMMA GetIInv == ASSUME IInv, NEW w \in Workers, Get(w) PROVE IInv'
<1> USE PoolAssumption DEF threads, pool, owner, clients, history
<1>0. /\ Th!TypeOK /\ OwnerTyped /\ ClientsTyped /\ WorkersTyped
      /\ Phases /\ Listed /\ Calls /\ Joined /\ Ordered
  BY DEF IInv, TypeOK
<1> PICK x \in Jobs \cup {Exit} :
         /\ UNCHANGED <<threads, pool, owner, clients, m_Allocator, crashed, history>>
         /\ m_JobQueue # <<>> /\ x = Head(m_JobQueue) /\ m_JobQueue' = Tail(m_JobQueue)
         /\ event' = [event EXCEPT ![w] = x]
         /\ m_bWorking' = [m_bWorking EXCEPT ![w] = TRUE]
         /\ tpc[w] = "run" /\ wpc[w] = "get"
         /\ wpc' = [wpc EXCEPT ![w] = IF x = Exit THEN "exit" ELSE "work"]
  BY DEF Get, Queue!Dequeue, Worker
<1>1. Th!TypeOK' /\ OwnerTyped' /\ ClientsTyped'
  BY <1>0 DEF Th!TypeOK, OwnerTyped, ClientsTyped
<1>2. WorkersTyped'
  <2>1. m_bWorking' \in [Workers -> BOOLEAN]
    BY <1>0 DEF WorkersTyped
  <2>2. m_JobQueue' \in Seq(Jobs \cup {Exit})
    BY <1>0 DEF WorkersTyped
  <2>3. /\ wpc' \in [Workers -> {"none", "loop", "get", "work", "exit", "returned"}]
        /\ event' \in [Workers -> Jobs \cup {Exit}]
    BY <1>0 DEF WorkersTyped
  <2> QED
    BY <1>0, <2>1, <2>2, <2>3 DEF WorkersTyped
<1>3. Phases' /\ Listed' /\ Calls' /\ Joined'
  BY <1>0 DEF Phases, SizeBounded, Listed, Calls, Joined
<1>4. Ordered'
  <2>1. /\ Len(m_JobQueue) \in Nat /\ Len(m_JobQueue) > 0 /\ m_JobQueue[1] = x
        /\ Len(m_JobQueue') = Len(m_JobQueue) - 1
        /\ \A i \in 1..Len(m_JobQueue') :
               i + 1 \in 1..Len(m_JobQueue) /\ m_JobQueue'[i] = m_JobQueue[i + 1]
    BY <1>0 DEF WorkersTyped
  <2>2. \A j \in accepted' : Somewhere(j)'
    <3> SUFFICES ASSUME NEW j \in accepted
                 PROVE  Somewhere(j)'
      OBVIOUS
    <3>1. CASE j \in done
      BY <3>1 DEF Somewhere
    <3>2. CASE \E i \in 1..Len(m_JobQueue) : m_JobQueue[i] = j
      <4>1. PICK i \in 1..Len(m_JobQueue) : m_JobQueue[i] = j
        BY <3>2
      <4>2. CASE i = 1
        BY <1>0, <2>1, <4>1, <4>2 DEF Somewhere, WorkersTyped, Jobs, Exit
      <4>3. CASE i # 1
        <5>1. i - 1 \in 1..Len(m_JobQueue') /\ m_JobQueue'[i - 1] = j
          BY <2>1, <4>1, <4>3
        <5> QED
          BY <5>1 DEF Somewhere
      <4> QED
        BY <4>2, <4>3
    <3>3. CASE \E v \in Workers : wpc[v] = "work" /\ event[v] = j
      BY <1>0, <3>3 DEF Somewhere, WorkersTyped
    <3> QED
      BY <1>0, <3>1, <3>2, <3>3 DEF Ordered, Somewhere
  <2>3. \A i, k \in 1..Len(m_JobQueue') :
            i < k /\ m_JobQueue'[i] = Exit => m_JobQueue'[k] = Exit
    BY <1>0, <2>1 DEF Ordered
  <2>4. x = Exit => \A i \in 1..Len(m_JobQueue') : m_JobQueue'[i] = Exit
    BY <1>0, <2>1 DEF Ordered
  <2>5. mpc \in {"out", "create", "created", "up"} =>
            x # Exit /\ \A i \in 1..Len(m_JobQueue') : m_JobQueue'[i] # Exit
    BY <1>0, <2>1 DEF Ordered
  <2>6. (\E v \in Workers : v > born /\ wpc[v] \in {"exit", "returned"}) =>
            \A i \in 1..Len(m_JobQueue') : m_JobQueue'[i] = Exit
    BY <1>0, <2>1 DEF Ordered
  <2>7. /\ \A v \in Workers : wpc'[v] \in {"loop", "get", "work", "exit"} => tpc'[v] = "run"
        /\ \A v \in Workers : wpc'[v] = "work" => event'[v] # Exit
        /\ \A v \in Workers : wpc'[v] \in {"exit", "returned"} =>
               wpc[v] \in {"exit", "returned"} \/ x = Exit
    BY <1>0 DEF Ordered, WorkersTyped
  <2>8. \A c \in Clients : cpc'[c] # "idle" => job'[c] \in Jobs
    BY <1>0 DEF Ordered
  <2> QED
    BY <1>0, <2>2, <2>3, <2>4, <2>5, <2>6, <2>7, <2>8 DEF Ordered
<1> QED
  BY <1>1, <1>2, <1>3, <1>4 DEF IInv, TypeOK

--------------------------------------------------------------------------------
(* The steps of XLSimpleThreads on a worker: it becomes a thread only inside  *)
(* Create, and is joined only inside Destroy.                                 *)
LEMMA ThreadIInv ==
    ASSUME IInv, NEW w \in Workers, ThreadCall(w) \/ ThreadRun(w) \/ Return(w)
    PROVE  IInv'
<1> USE PoolAssumption DEF pool, owner, clients, workers, history, Worker, ThreadCall, ThreadRun, Return
<1>0. /\ Th!TypeOK /\ OwnerTyped /\ ClientsTyped /\ WorkersTyped
      /\ Phases /\ Listed /\ Calls /\ Joined /\ Ordered
  BY DEF IInv, TypeOK
<1>1. /\ UNCHANGED <<pool, m_JobQueue, owner, clients, event, m_Allocator, m_bWorking, crashed, history>>
      /\ \/ Th!OwnerStep(w) /\ wpc' = wpc
         \/ Th!ThreadStep(w) /\ wpc' = wpc
         \/ Th!RunReturns(w) /\ wpc[w] = "exit" /\ wpc' = [wpc EXCEPT ![w] = "returned"]
  OBVIOUS
<1>2. OwnerTyped' /\ ClientsTyped' /\ WorkersTyped' /\ Phases'
  <2>1. OwnerTyped' /\ Phases'
    BY <1>0, <1>1 DEF OwnerTyped, Phases, SizeBounded
  <2>2. ClientsTyped'
    BY <1>0, <1>1 DEF ClientsTyped
  <2>3. WorkersTyped'
    BY <1>0, <1>1 DEF WorkersTyped
  <2> QED
    BY <2>1, <2>2, <2>3
<1>3. CASE Th!OwnerStep(w) /\ wpc' = wpc
  <2>1. /\ Th!TypeOK'
        /\ \A v \in Workers : v # w => m_handle'[v] = m_handle[v]
        /\ opc[w] \notin {"assign", "join"} => m_handle' = m_handle
        /\ opc[w] = "assign" => m_handle'[w]
        /\ \/ Moved(w, "spawn", "assign") /\ tpc' = [tpc EXCEPT ![w] = "started"]
           \/ /\ \/ Moved(w, "assign", "give1") \/ Moved(w, "give1", "idle")
                 \/ Moved(w, "take2", "destroy1") \/ Moved(w, "destroy1", "destroy2")
                 \/ Moved(w, "destroy2", "join")
              /\ tpc' = tpc
           \/ /\ Moved(w, "join", "idle")
              /\ tpc[w] = "ended" /\ tpc' = [tpc EXCEPT ![w] = "none"]
    BY <1>0, <1>3, CallMoves
  <2>2. Listed'
    BY <1>0, <1>1, <1>3, <2>1 DEF Listed, Moved, Th!TypeOK
  <2>3. Calls'
    BY <1>0, <1>1, <2>1 DEF Calls, Moved, Th!TypeOK, Creating, Destroying
  <2>4. Joined'
    BY <1>0, <1>1, <2>1 DEF Joined, Calls, Phases, Moved, Th!TypeOK, Creating, Destroying
  <2>5. Ordered'
    BY <1>0, <1>1, <1>3, <2>1 DEF Ordered, Somewhere, Calls, Moved, Th!TypeOK
  <2> QED
    BY <1>2, <2>1, <2>2, <2>3, <2>4, <2>5 DEF IInv, TypeOK
<1>4. CASE \/ Th!ThreadStep(w) /\ wpc' = wpc
           \/ Th!RunReturns(w) /\ wpc[w] = "exit" /\ wpc' = [wpc EXCEPT ![w] = "returned"]
  <2>1. /\ Th!TypeOK' /\ opc' = opc /\ m_handle' = m_handle
        /\ tpc[w] # "none" /\ tpc' = [tpc EXCEPT ![w] = tpc'[w]] /\ tpc'[w] # "none"
        /\ Th!ThreadStep(w) => tpc[w] # "run"
    BY <1>0, <1>4, ThreadMoves
  <2>2. Listed'
    BY <1>0, <1>1, <1>4, <2>1 DEF Listed, WorkersTyped, Th!TypeOK
  <2>3. Calls' /\ Joined'
    BY <1>0, <1>1, <2>1 DEF Calls, Joined, Th!TypeOK
  <2>4. Ordered'
    <3>1. \A j \in accepted' : Somewhere(j)'
      BY <1>0, <1>1, <1>4 DEF Ordered, Somewhere, WorkersTyped
    <3>2. \A v \in Workers : wpc'[v] \in {"loop", "get", "work", "exit"} => tpc'[v] = "run"
      BY <1>0, <1>4, <2>1 DEF Ordered, WorkersTyped, Th!TypeOK
    <3>3. \A v \in Workers : wpc'[v] # wpc[v] => wpc[v] = "exit" /\ wpc'[v] = "returned"
      BY <1>0, <1>4 DEF WorkersTyped
    <3> QED
      BY <1>0, <1>1, <3>1, <3>2, <3>3 DEF Ordered
  <2> QED
    BY <1>2, <2>1, <2>2, <2>3, <2>4 DEF IInv, TypeOK
<1> QED
  BY <1>1, <1>3, <1>4

(* Every step keeps the invariant.                                            *)
LEMMA NextIInv == IInv /\ [Next]_vars => IInv'
<1> SUFFICES ASSUME IInv, [Next]_vars
             PROVE  IInv'
  OBVIOUS
<1>1. CASE UNCHANGED vars
  BY <1>1 DEF vars, threads, pool, owner, clients, workers, history, IInv, TypeOK, Th!TypeOK,
              OwnerTyped, ClientsTyped, WorkersTyped, Phases, SizeBounded, Listed, Calls, Joined, Ordered, Somewhere
<1>2. CASE CreatePool \/ DestroyPool \/ OwnerStep
  BY <1>2, CreateIInv, OwnerIInv, PutExitIInv, CallIInv DEF OwnerStep
<1>3. ASSUME NEW c \in Clients, AddJob(c) \/ ClientStep(c)
      PROVE  IInv'
  BY <1>3, AddIInv, AddLockIInv, AddMakeIInv, AddPutIInv DEF ClientStep
<1>4. ASSUME NEW w \in Workers, ThreadCall(w) \/ ThreadRun(w) \/ WorkerStep(w)
      PROVE  IInv'
  BY <1>4, WorkIInv, GetIInv, ThreadIInv DEF WorkerStep
<1> QED
  BY <1>1, <1>2, <1>3, <1>4 DEF Next

--------------------------------------------------------------------------------
(* The invariant holds of every behaviour.                                    *)
THEOREM Invariance == Spec => []IInv
BY InitIInv, NextIInv, PTL DEF Spec

(* Every variable of the pool and of its threads has its type, and the gate   *)
(* is held by the one client between its Lock and its Unlock                  *)
(* (XLThreadPool.cpp:120-144).                                                *)
THEOREM TypeCorrect == Spec => []TypeOK
<1>1. IInv => TypeOK
  BY DEF IInv
<1> QED
  BY <1>1, Invariance, PTL

(* However many clients add jobs at the same time, the pool never has more    *)
(* than m_iNumMaxThread workers (XLThreadPool.cpp:127-138).                   *)
THEOREM SizeSafe == Spec => []SizeBounded
<1>1. IInv => SizeBounded
  BY DEF IInv, Phases, SizeBounded
<1> QED
  BY <1>1, Invariance, PTL

(* Destroy leaves no thread, and no accepted job undone if one worker took    *)
(* its Exit (XLThreadPool.cpp:147-176, XLSimpleThreads.cpp:92-98).            *)
THEOREM DestroySafe == Spec => []DestroyLeavesNothing
<1>1. IInv => DestroyLeavesNothing
  <2> SUFFICES ASSUME IInv, mpc = "down"
               PROVE  /\ \A w \in Workers : tpc[w] = "none"
                      /\ (\E w \in Present : wpc[w] = "returned") => accepted \subseteq done
    BY DEF DestroyLeavesNothing
  <2>1. \A w \in Workers : tpc[w] = "none" /\ wpc[w] # "work"
    BY DEF IInv, Joined, Ordered
  <2>2. ASSUME \E w \in Present : wpc[w] = "returned", NEW j \in accepted
        PROVE  j \in done
    <3>0. \E w \in Workers : w > born /\ wpc[w] = "returned"
      BY <2>2, PoolAssumption DEF IInv, TypeOK, OwnerTyped, Phases, Present, Workers
    <3>1. \A i \in 1..Len(m_JobQueue) : m_JobQueue[i] = Exit
      BY <3>0 DEF IInv, Ordered
    <3>2. j # Exit
      BY DEF IInv, TypeOK, WorkersTyped, Jobs, Exit
    <3> QED
      BY <2>1, <3>1, <3>2 DEF IInv, Ordered, Somewhere
  <2> QED
    BY <2>1, <2>2
<1> QED
  BY <1>1, Invariance, PTL

--------------------------------------------------------------------------------
\* A Create or Destroy of worker w that is under way has a step to take: a guard of
\* ThreadCall holds.
CallReady(w) == \/ opc[w] \in {"spawn", "assign", "give1", "destroy1", "destroy2"}
                \/ opc[w] = "take2" /\ m_Sync2[w].permits > 0
                \/ opc[w] = "join" /\ tpc[w] = "ended"

\* Its thread has one: a guard of ThreadRun or WorkerStep holds.
ThreadReady(w) == \/ tpc[w] \in {"started", "check", "give2"}
                  \/ tpc[w] = "take1" /\ m_Sync1[w].permits > 0
                  \/ tpc[w] = "run" /\ \/ wpc[w] \in {"none", "work", "exit"}
                                       \/ wpc[w] = "loop" /\ (m_Allocator[w] => m_bCreated)
                                       \/ wpc[w] = "get" /\ m_JobQueue # <<>>

\* Destroy itself has one: a guard of OwnerStep holds.
DestroyReady == \/ mpc = "exits"
                \/ mpc = "destroy" /\ (at > listed \/ ~m_handle[at] \/ opc[at] = "idle")
                \/ mpc = "join" /\ opc[at] = "idle"

\* The semaphores of worker w: its thread finds a permit in an m_Sync1 that is created,
\* Destroy finds one in m_Sync2, and there is a thread from its creation to its join.
Permits(w) ==
    /\ m_handle[w] \/ opc[w] = "assign" => tpc[w] # "none"
    /\ opc[w] \in Destroying => m_handle[w]
    /\ tpc[w] \in {"started", "take1"} \/ opc[w] = "spawn" =>
           (m_Sync1[w].created => m_Sync1[w].permits > 0)
    /\ opc[w] \in Creating \cup {"take2"} \/ (opc[w] = "idle" /\ m_handle[w]) =>
           m_Sync2[w].permits > 0

\* A worker has one thread in its life, and only the workers of this life have one now.
Lives == /\ mpc \notin {"out", "down"} => m_bCreated
         /\ \A w \in Workers : w <= born => tpc[w] = "none"
         /\ \A w \in Workers : tpc[w] \in {"started", "take1", "check", "run"} \/ opc[w] = "spawn" =>
                wpc[w] # "returned"
         /\ \A c \in Clients : cpc[c] \in {"make", "made"} => made[c] > born
         /\ \A c \in Clients : cpc[c] = "make" =>
                \A w \in Workers : w = made[c] => wpc[w] # "returned"

Exits(q) == {i \in 1..Len(q) : q[i] = Exit}

\* The workers of this life that have taken their Exit
Leavers == {w \in Workers : w > born /\ wpc[w] \in {"exit", "returned"}}

\* Each Exit that DestroyAllJobThreads has put is in the queue, with a worker, or lost.
Counted ==
    /\ mpc \in {"create", "created", "up"} => exitsLost = 0
    /\ mpc = "exits" => at <= listed + 1
    /\ mpc = "join" => at <= listed
    /\ mpc \in {"exits", "destroy", "join"} =>
           Cardinality(Exits(m_JobQueue)) + Cardinality(Leavers) + exitsLost
               = IF mpc = "exits" THEN at - 1 ELSE listed

(* While Destroy is under way it has a step to take, or the worker that it is *)
(* at has, unless so many Exits were lost that there are too few for the      *)
(* workers of this life, a thread is stuck in its first Take, or the program  *)
(* has crashed (XLThreadPool.cpp:147-176).  It is the part of                 *)
(* DestroyReturnsUnless that needs no fairness: there is no fourth deadlock.  *)
DestroyNotBlocked ==
    mpc \in {"exits", "destroy", "join"} =>
        \/ DestroyReady
        \/ at \in Workers /\ (CallReady(at) \/ ThreadReady(at))
        \/ exitsLost > born \/ crashed \/ \E w \in Workers : Stuck(w)

LEMMA InitLives == Init => (\A w \in Workers : Permits(w)) /\ Lives /\ Counted
BY PoolAssumption DEF Init, Th!Init, Permits, Lives, Counted, Creating, Destroying, Workers

--------------------------------------------------------------------------------
\* A step of worker w as an XLSimpleThreads
ThreadActs(w) == \/ Th!CreateStart(w) \/ Th!DestroyStart(w)
                 \/ Th!OwnerStep(w) \/ Th!ThreadStep(w) \/ Th!RunReturns(w)

(* The steps of one worker leave the threads and semaphores of the others     *)
(* alone.                                                                     *)
LEMMA ActsApart ==
    ASSUME Th!TypeOK, NEW w \in Workers, ThreadActs(w), NEW v \in Workers, v # w
    PROVE  /\ m_handle'[v] = m_handle[v] /\ tpc'[v] = tpc[v] /\ opc'[v] = opc[v]
           /\ m_Sync1'[v] = m_Sync1[v] /\ m_Sync2'[v] = m_Sync2[v]
<1> USE DEF Th!TypeOK, Th!Owner, Th!Thread
<1>1. CASE Th!CreateStart(w) \/ Th!DestroyStart(w) \/ Th!RunReturns(w)
  BY <1>1 DEF Th!CreateStart, Th!DestroyStart, Th!RunReturns
<1>2. CASE Th!OwnerStep(w)
  BY <1>2 DEF Th!OwnerStep, Th!CreateSpawn, Th!CreateAssign, Th!CreateGive, Th!DestroyTake,
              Th!DestroySync1, Th!DestroySync2, Th!DestroyJoin
<1>3. CASE Th!ThreadStep(w)
  BY <1>3 DEF Th!ThreadStep, Th!TakeTest, Th!TakeDone, Th!Check, Th!Finish
<1> QED
  BY <1>1, <1>2, <1>3 DEF ThreadActs

(* Its own steps keep its permits.                                            *)
LEMMA ActsPermits ==
    ASSUME Th!TypeOK, NEW w \in Workers, ThreadActs(w), Permits(w),
           opc[w] = "spawn" => tpc[w] = "none"
    PROVE  Permits(w)'
<1> USE DEF Th!Owner, Th!Thread, Creating, Destroying
<1>1. CASE Th!CreateStart(w)
  <2>1. /\ m_Sync1'[w] = [created |-> TRUE, permits |-> 1]
        /\ m_Sync2'[w] = [created |-> TRUE, permits |-> 1]
        /\ opc'[w] = "spawn" /\ ~m_handle[w] /\ UNCHANGED <<m_handle, tpc>>
    BY <1>1 DEF Th!CreateStart, Th!TypeOK, Th!Fresh
  <2> QED
    BY <2>1 DEF Permits
<1>2. CASE Th!DestroyStart(w)
  <2>1. /\ m_handle[w] /\ opc[w] = "idle" /\ opc'[w] = "take2"
        /\ UNCHANGED <<m_handle, m_Sync1, m_Sync2, tpc>>
    BY <1>2 DEF Th!DestroyStart, Th!TypeOK
  <2> QED
    BY <2>1 DEF Permits
<1>3. CASE Th!CreateSpawn(w)
  <2>1. /\ opc[w] = "spawn" /\ opc'[w] = "assign" /\ tpc'[w] = "started"
        /\ UNCHANGED <<m_handle, m_Sync1, m_Sync2>>
    BY <1>3 DEF Th!CreateSpawn, Th!TypeOK
  <2> QED
    BY <2>1 DEF Permits
<1>4. CASE Th!CreateAssign(w)
  <2>1. /\ opc[w] = "assign" /\ opc'[w] = "give1" /\ m_handle'[w]
        /\ UNCHANGED <<m_Sync1, m_Sync2, tpc>>
    BY <1>4 DEF Th!CreateAssign, Th!TypeOK
  <2> QED
    BY <2>1 DEF Permits
<1>5. CASE Th!CreateGive(w)
  <2>1. /\ opc[w] = "give1" /\ opc'[w] = "idle" /\ UNCHANGED <<m_handle, m_Sync2, tpc>>
        /\ m_Sync1[w].permits \in Int
        /\ m_Sync1'[w].permits = m_Sync1[w].permits + 1
        /\ m_Sync1'[w].created = m_Sync1[w].created
    BY <1>5 DEF Th!CreateGive, Th!TypeOK, Th!Semaphore
  <2> QED
    BY <2>1 DEF Permits
<1>6. CASE Th!DestroyTake(w)
  <2>1. /\ opc[w] = "take2" /\ opc'[w] = "destroy1" /\ UNCHANGED <<m_handle, m_Sync1, tpc>>
    BY <1>6 DEF Th!DestroyTake, Th!TypeOK
  <2> QED
    BY <2>1 DEF Permits
<1>7. CASE Th!DestroySync1(w)
  <2>1. /\ opc[w] = "destroy1" /\ opc'[w] = "destroy2" /\ UNCHANGED <<m_handle, tpc>>
        /\ m_Sync1'[w].created = FALSE
    BY <1>7 DEF Th!DestroySync1, Th!TypeOK, Th!Dead
  <2> QED
    BY <2>1 DEF Permits
<1>8. CASE Th!DestroySync2(w)
  <2>1. /\ opc[w] = "destroy2" /\ opc'[w] = "join" /\ UNCHANGED <<m_handle, m_Sync1, tpc>>
    BY <1>8 DEF Th!DestroySync2, Th!TypeOK
  <2> QED
    BY <2>1 DEF Permits
<1>9. CASE Th!DestroyJoin(w)
  <2>1. /\ opc'[w] = "idle" /\ m_handle'[w] = FALSE /\ tpc'[w] = "none"
    BY <1>9 DEF Th!DestroyJoin, Th!TypeOK
  <2> QED
    BY <2>1 DEF Permits
<1>10. CASE Th!TakeTest(w) \/ Th!Check(w) \/ Th!RunReturns(w)
  <2>1. /\ UNCHANGED <<m_handle, m_Sync1, m_Sync2, opc>>
        /\ tpc[w] \in {"started", "check", "run"}
        /\ tpc'[w] \in {"take1", "check", "run", "give2"}
        /\ tpc'[w] = "take1" => tpc[w] = "started"
    BY <1>10 DEF Th!TakeTest, Th!Check, Th!RunReturns, Th!TypeOK
  <2> QED
    BY <2>1 DEF Permits
<1>11. CASE Th!TakeDone(w)
  <2>1. /\ tpc[w] = "take1" /\ tpc'[w] = "check" /\ UNCHANGED <<m_handle, m_Sync2, opc>>
        /\ m_Sync1[w].permits > 0 /\ opc'[w] = opc[w]
    BY <1>11 DEF Th!TakeDone, Th!TypeOK
  <2> QED
    BY <2>1 DEF Permits
<1>12. CASE Th!Finish(w)
  <2>1. /\ tpc[w] = "give2" /\ tpc'[w] = "ended" /\ UNCHANGED <<m_handle, m_Sync1, opc>>
        /\ m_Sync2[w].permits \in Int
        /\ m_Sync2'[w].permits \in {m_Sync2[w].permits, m_Sync2[w].permits + 1}
    BY <1>12 DEF Th!Finish, Th!TypeOK, Th!Semaphore
  <2> QED
    BY <2>1 DEF Permits
<1> QED
  BY <1>1, <1>2, <1>3, <1>4, <1>5, <1>6, <1>7, <1>8, <1>9, <1>10, <1>11, <1>12
     DEF ThreadActs, Th!OwnerStep, Th!ThreadStep

(* Every step keeps the permits of every worker.                              *)
LEMMA NextPermits ==
    IInv /\ (\A w \in Workers : Permits(w)) /\ [Next]_vars => \A w \in Workers : Permits(w)'
<1> SUFFICES ASSUME IInv, \A w \in Workers : Permits(w), [Next]_vars
             PROVE  \A w \in Workers : Permits(w)'
  OBVIOUS
<1>0. Th!TypeOK /\ OwnerTyped /\ Phases /\ Calls
  BY DEF IInv, TypeOK
<1>1. ASSUME NEW w \in Workers, ThreadActs(w)
      PROVE  \A v \in Workers : Permits(v)'
  <2>1. Permits(w)'
    BY <1>0, <1>1, ActsPermits DEF Calls
  <2>2. ASSUME NEW v \in Workers, v # w
        PROVE  Permits(v)'
    <3>1. /\ m_handle'[v] = m_handle[v] /\ tpc'[v] = tpc[v] /\ opc'[v] = opc[v]
          /\ m_Sync1'[v] = m_Sync1[v] /\ m_Sync2'[v] = m_Sync2[v]
      BY <1>0, <1>1, <2>2, ActsApart
    <3> QED
      BY <3>1 DEF Permits
  <2> QED
    BY <2>1, <2>2
<1>2. CASE UNCHANGED threads
  BY <1>2 DEF threads, Permits
<1>3. CASE CreateWorker \/ DestroyWorker
  <2>1. at \in Workers
    BY <1>0, <1>3, PoolAssumption DEF CreateWorker, DestroyWorker, OwnerAt, OwnerTyped, Phases, Workers
  <2> QED
    BY <1>1, <1>3, <2>1 DEF CreateWorker, DestroyWorker, ThreadActs
<1>4. ASSUME NEW c \in Clients, AddMake(c)
      PROVE  \A w \in Workers : Permits(w)'
  <2>1. made[c] \in Workers
    BY <1>0, <1>4, PoolAssumption DEF AddMake, Client, OwnerTyped, Phases, Workers
  <2> QED
    BY <1>1, <1>4, <2>1 DEF AddMake, ThreadActs
<1>5. ASSUME NEW w \in Workers, ThreadCall(w) \/ ThreadRun(w) \/ Return(w)
      PROVE  \A v \in Workers : Permits(v)'
  BY <1>1, <1>5 DEF ThreadCall, ThreadRun, Return, ThreadActs
<1>6. CASE CreatePool \/ DestroyPool \/ OwnerStep
  BY <1>2, <1>3, <1>6
     DEF CreatePool, DestroyPool, OwnerStep, CreateNext, PutExit, ExitsPut, DestroyPast, DestroyNext, DestroyEnd
<1>7. ASSUME NEW c \in Clients, AddJob(c) \/ ClientStep(c)
      PROVE  \A w \in Workers : Permits(w)'
  BY <1>2, <1>4, <1>7 DEF ClientStep, AddJob, AddLock, AddMade, AddUnlock, AddPut
<1>8. ASSUME NEW w \in Workers, WorkerStep(w)
      PROVE  \A v \in Workers : Permits(v)'
  BY <1>2, <1>5, <1>8 DEF WorkerStep, Enter, Loop, NullAllocator, Get, Worked
<1> QED
  BY <1>2, <1>5, <1>6, <1>7, <1>8 DEF Next, vars

(* Every step keeps a worker to one thread, of this life.                     *)
LEMMA NextLives == IInv /\ (\A w \in Workers : Permits(w)) /\ Lives /\ [Next]_vars => Lives'
<1> SUFFICES ASSUME IInv, \A w \in Workers : Permits(w), Lives, [Next]_vars
             PROVE  Lives'
  OBVIOUS
<1>0. /\ Th!TypeOK /\ OwnerTyped /\ ClientsTyped /\ WorkersTyped
      /\ Phases /\ Listed /\ Calls /\ Joined /\ Ordered
  BY DEF IInv, TypeOK
<1> USE DEF threads, pool, owner, clients, workers, history, OwnerAt, Client, Worker
<1>1. CASE CreatePool
  <2>1. UNCHANGED <<tpc, opc, wpc, cpc, made>> /\ m_bCreated' = TRUE /\ born' = listed
    BY <1>1 DEF CreatePool
  <2>2. mpc \in {"out", "down"} /\ \A w \in Workers : w <= listed => tpc[w] = "none"
    BY <1>0, <1>1 DEF CreatePool, Phases, Joined, Workers
  <2>3. \A c \in Clients : cpc[c] = "idle"
    BY <1>0, <2>2 DEF Phases
  <2> QED
    BY <2>1, <2>2, <2>3 DEF Lives
<1>2. CASE CreateWorker
  <2>1. /\ mpc = "create" /\ at = listed + 1 /\ at \in Workers
        /\ UNCHANGED <<wpc, cpc, made, m_bCreated, born>>
    BY <1>0, <1>2, PoolAssumption DEF CreateWorker, Phases, OwnerTyped, Workers
  <2>2. tpc' = tpc /\ opc' = [opc EXCEPT ![at] = "spawn"]
    BY <1>0, <1>2, <2>1, CallBegins DEF CreateWorker
  <2>3. wpc[at] = "none"
    BY <1>0, <2>1 DEF Listed, OwnerTyped, Workers
  <2> QED
    BY <1>0, <2>1, <2>2, <2>3 DEF Lives, Th!TypeOK
<1>3. CASE DestroyWorker
  <2>1. at \in Workers /\ mpc = "destroy" /\ UNCHANGED <<wpc, cpc, made, m_bCreated, born>>
    BY <1>0, <1>3, PoolAssumption DEF DestroyWorker, Phases, OwnerTyped, Workers
  <2>2. tpc' = tpc /\ opc' = [opc EXCEPT ![at] = "take2"]
    BY <1>0, <1>3, <2>1, CallBegins DEF DestroyWorker
  <2> QED
    BY <1>0, <2>1, <2>2 DEF Lives, Th!TypeOK
<1>4. CASE \/ DestroyPool \/ CreateNext \/ PutExit \/ ExitsPut
           \/ DestroyPast \/ DestroyNext \/ DestroyEnd
  <2>1. UNCHANGED <<tpc, opc, wpc, cpc, made, born>>
    BY <1>4 DEF DestroyPool, CreateNext, PutExit, ExitsPut, DestroyPast, DestroyNext, DestroyEnd
  <2>2. mpc' \notin {"out", "down"} => m_bCreated'
    BY <1>4 DEF DestroyPool, CreateNext, PutExit, ExitsPut, DestroyPast, DestroyNext, DestroyEnd, Lives
  <2> QED
    BY <2>1, <2>2 DEF Lives
<1>5. ASSUME NEW c \in Clients, AddLock(c)
      PROVE  Lives'
  <2>1. UNCHANGED <<tpc, opc, wpc, m_bCreated, born, mpc>>
    BY <1>5 DEF AddLock
  <2>2. ASSUME NEW d \in Clients, cpc'[d] \in {"make", "made"}
        PROVE  /\ made'[d] > born
               /\ cpc'[d] = "make" => \A w \in Workers : w = made'[d] => wpc[w] # "returned"
    <3>1. CASE d = c
      <4>1. made'[d] = listed + 1
        BY <1>0, <1>5, <2>2, <3>1 DEF AddLock, ClientsTyped
      <4>2. listed + 1 > born /\ \A w \in Workers : w = listed + 1 => wpc[w] # "returned"
        BY <1>0, <1>5 DEF Phases, Listed, OwnerTyped, AddLock, Workers
      <4> QED
        BY <4>1, <4>2
    <3>2. CASE d # c
      BY <1>0, <1>5, <2>2, <3>2 DEF AddLock, ClientsTyped, Lives
    <3> QED
      BY <3>1, <3>2
  <2> QED
    BY <2>1, <2>2 DEF Lives
<1>6. ASSUME NEW c \in Clients, AddMake(c)
      PROVE  Lives'
  <2>1. /\ cpc[c] = "make" /\ cpc' = [cpc EXCEPT ![c] = "made"] /\ made[c] \in Workers
        /\ UNCHANGED <<wpc, made, m_bCreated, born, mpc>>
    BY <1>0, <1>6, PoolAssumption DEF AddMake, Phases, OwnerTyped, Workers
  <2>2. tpc' = tpc /\ opc' = [opc EXCEPT ![made[c]] = "spawn"]
    BY <1>0, <1>6, <2>1, CallBegins DEF AddMake
  <2> QED
    BY <1>0, <2>1, <2>2 DEF Lives, Th!TypeOK, ClientsTyped
<1>7. ASSUME NEW c \in Clients, AddJob(c) \/ AddMade(c) \/ AddUnlock(c) \/ AddPut(c)
      PROVE  Lives'
  <2>1. UNCHANGED <<tpc, opc, wpc, m_bCreated, born, mpc>>
    BY <1>7 DEF AddJob, AddMade, AddUnlock, AddPut
  <2>2. \A d \in Clients : cpc'[d] \in {"make", "made"} => cpc[d] = cpc'[d] /\ made'[d] = made[d]
    BY <1>0, <1>7 DEF AddJob, AddMade, AddUnlock, AddPut, ClientsTyped
  <2> QED
    BY <2>1, <2>2 DEF Lives
<1>8. ASSUME NEW w \in Workers, Enter(w) \/ Loop(w) \/ NullAllocator(w) \/ Get(w) \/ Worked(w)
      PROVE  Lives'
  <2>1. UNCHANGED <<tpc, opc, cpc, made, m_bCreated, born, mpc>>
    BY <1>8 DEF Enter, Loop, NullAllocator, Get, Worked
  <2>2. \A v \in Workers : wpc'[v] = "returned" => wpc[v] = "returned"
    BY <1>0, <1>8 DEF Enter, Loop, NullAllocator, Get, Worked, WorkersTyped
  <2> QED
    BY <2>1, <2>2 DEF Lives
<1>9. ASSUME NEW w \in Workers, ThreadCall(w)
      PROVE  Lives'
  <2>1. Th!OwnerStep(w) /\ UNCHANGED <<wpc, cpc, made, m_bCreated, born, mpc>>
    BY <1>9 DEF ThreadCall
  <2>2. \/ Moved(w, "spawn", "assign") /\ tpc' = [tpc EXCEPT ![w] = "started"]
        \/ /\ \/ Moved(w, "assign", "give1") \/ Moved(w, "give1", "idle")
              \/ Moved(w, "take2", "destroy1") \/ Moved(w, "destroy1", "destroy2")
              \/ Moved(w, "destroy2", "join")
           /\ tpc' = tpc
        \/ /\ Moved(w, "join", "idle")
           /\ tpc[w] = "ended" /\ tpc' = [tpc EXCEPT ![w] = "none"]
    BY <1>0, <2>1, CallMoves
  <2>3. opc[w] = "spawn" => w > born
    BY <1>0 DEF Calls, Lives, Phases, Creating, OwnerTyped, Workers
  <2>4. CASE Moved(w, "spawn", "assign") /\ tpc' = [tpc EXCEPT ![w] = "started"]
    <3>1. w > born /\ wpc[w] # "returned" /\ opc'[w] = "assign"
      BY <1>0, <2>3, <2>4 DEF Lives, Moved, Th!TypeOK
    <3>2. \A v \in Workers : v # w => tpc'[v] = tpc[v] /\ opc'[v] = opc[v]
      BY <1>0, <2>4 DEF Moved, Th!TypeOK
    <3>3. \A v \in Workers : v <= born => v # w
      BY <1>0, <3>1, PoolAssumption DEF OwnerTyped, Workers
    <3> QED
      BY <2>1, <3>1, <3>2, <3>3 DEF Lives
  <2>5. CASE \A v \in Workers : tpc'[v] \in {tpc[v], "none"} /\ (opc'[v] = "spawn" => opc[v] = "spawn")
    BY <2>1, <2>5 DEF Lives
  <2>6. \/ Moved(w, "spawn", "assign") /\ tpc' = [tpc EXCEPT ![w] = "started"]
        \/ \A v \in Workers : tpc'[v] \in {tpc[v], "none"} /\ (opc'[v] = "spawn" => opc[v] = "spawn")
    BY <1>0, <2>2 DEF Moved, Th!TypeOK
  <2> QED
    BY <2>4, <2>5, <2>6
<1>10. ASSUME NEW w \in Workers, ThreadRun(w) \/ Return(w)
       PROVE  Lives'
  <2>1. /\ UNCHANGED <<cpc, made, m_bCreated, born, mpc>>
        /\ \/ Th!ThreadStep(w) /\ wpc' = wpc
           \/ Th!RunReturns(w) /\ wpc' = [wpc EXCEPT ![w] = "returned"]
    BY <1>10 DEF ThreadRun, Return
  <2>2. /\ opc' = opc /\ tpc[w] # "none" /\ tpc' = [tpc EXCEPT ![w] = tpc'[w]]
    BY <1>0, <2>1, ThreadMoves
  <2>3. CASE Th!ThreadStep(w) /\ wpc' = wpc
    <3>1. tpc'[w] \in {"take1", "check", "run"} => tpc[w] \in {"started", "take1", "check"}
      BY <1>0, <2>3 DEF Th!ThreadStep, Th!TakeTest, Th!TakeDone, Th!Check, Th!Finish, Th!Thread, Th!TypeOK
    <3>2. tpc'[w] # "started"
      BY <1>0, <2>3 DEF Th!ThreadStep, Th!TakeTest, Th!TakeDone, Th!Check, Th!Finish, Th!Thread, Th!TypeOK
    <3> QED
      BY <1>0, <2>1, <2>2, <2>3, <3>1, <3>2 DEF Lives, Th!TypeOK
  <2>4. CASE Th!RunReturns(w) /\ wpc' = [wpc EXCEPT ![w] = "returned"]
    <3>1. tpc'[w] = "give2"
      BY <1>0, <2>4 DEF Th!RunReturns, Th!Thread, Th!TypeOK
    <3>2. opc[w] # "spawn" /\ \A c \in Clients : cpc[c] = "make" => w # made[c]
      BY <1>0, <2>2 DEF Calls
    <3> QED
      BY <1>0, <2>1, <2>2, <2>4, <3>1, <3>2 DEF Lives, Th!TypeOK, WorkersTyped
  <2> QED
    BY <2>1, <2>3, <2>4
<1>11. CASE UNCHANGED vars
  BY <1>11 DEF vars, Lives
<1>12. CASE OwnerStep
  BY <1>2, <1>3, <1>4, <1>12 DEF OwnerStep
<1> QED
  BY <1>1, <1>4, <1>5, <1>6, <1>7, <1>8, <1>9, <1>10, <1>11, <1>12
     DEF Next, ClientStep, WorkerStep

--------------------------------------------------------------------------------
(* The number of Exits in a queue grows and shrinks with it.                  *)
LEMMA ExitsFinite ==
    ASSUME NEW q \in Seq(Jobs \cup {Exit})
    PROVE  IsFiniteSet(Exits(q)) /\ Cardinality(Exits(q)) \in Nat
<1>1. IsFiniteSet(1..Len(q)) /\ Exits(q) \in SUBSET (1..Len(q))
  BY FS_Interval DEF Exits
<1> QED
  BY <1>1, FS_Subset, FS_CardinalityType

LEMMA ExitsAppend ==
    ASSUME NEW q \in Seq(Jobs \cup {Exit})
    PROVE  Cardinality(Exits(Append(q, Exit))) = Cardinality(Exits(q)) + 1
<1>1. /\ Len(Append(q, Exit)) = Len(q) + 1 /\ Len(q) \in Nat
      /\ \A i \in 1..Len(q) : Append(q, Exit)[i] = q[i]
      /\ Append(q, Exit)[Len(q) + 1] = Exit
  BY AppendProperties
<1>2. Exits(Append(q, Exit)) = Exits(q) \cup {Len(q) + 1} /\ Len(q) + 1 \notin Exits(q)
  BY <1>1 DEF Exits
<1> QED
  BY <1>2, ExitsFinite, FS_AddElement

LEMMA ExitsTail ==
    ASSUME NEW q \in Seq(Jobs \cup {Exit}), q # <<>>
    PROVE  Cardinality(Exits(q)) =
               Cardinality(Exits(Tail(q))) + IF Head(q) = Exit THEN 1 ELSE 0
<1> DEFINE S == Exits(q) \ {1}
           T == Exits(Tail(q))
           back == [i \in S |-> i - 1]
<1>1. /\ Tail(q) \in Seq(Jobs \cup {Exit}) /\ Len(q) \in Nat /\ Len(Tail(q)) = Len(q) - 1
      /\ Len(q) > 0 /\ Head(q) = q[1]
      /\ \A i \in 1..Len(Tail(q)) : Tail(q)[i] = q[i + 1]
  BY HeadTailProperties
<1>2. back \in [S -> T]
  BY <1>1 DEF Exits
<1>3. \A i, j \in S : back[i] = back[j] => i = j
  BY <1>1 DEF Exits
<1>4. \A k \in T : \E i \in S : back[i] = k
  <2> SUFFICES ASSUME NEW k \in T PROVE \E i \in S : back[i] = k
    OBVIOUS
  <2>1. k + 1 \in S /\ k \in Nat
    BY <1>1 DEF Exits
  <2>2. back[k + 1] = k
    BY <2>1
  <2> QED
    BY <2>1, <2>2
<1>5. ExistsBijection(S, T)
  BY <1>2, <1>3, <1>4 DEF ExistsBijection, Bijection, Injection, Surjection, IsInjective
<1>6. IsFiniteSet(S) /\ Cardinality(S) = Cardinality(Exits(q)) - IF 1 \in Exits(q) THEN 1 ELSE 0
  BY ExitsFinite, FS_RemoveElement
<1>7. Cardinality(T) = Cardinality(S)
  BY <1>5, <1>6, FS_Bijection
<1>8. 1 \in Exits(q) <=> Head(q) = Exit
  BY <1>1 DEF Exits
<1>9. Cardinality(Exits(q)) \in Nat
  BY ExitsFinite
<1> QED
  BY <1>6, <1>7, <1>8, <1>9

(* There are at most as many leavers as workers in a part of the list.        *)
LEMMA LeaversFinite == IsFiniteSet(Leavers) /\ Cardinality(Leavers) \in Nat
<1>1. IsFiniteSet(Workers) /\ Leavers \in SUBSET Workers
  BY PoolAssumption, FS_Interval DEF Leavers, Workers
<1> QED
  BY <1>1, FS_Subset, FS_CardinalityType

(* Every step keeps the account of the Exits.                                 *)
LEMMA NextCounted == IInv /\ Lives /\ Counted /\ [Next]_vars => Counted'
<1> SUFFICES ASSUME IInv, Lives, Counted, [Next]_vars
             PROVE  Counted'
  OBVIOUS
<1>0. /\ Th!TypeOK /\ OwnerTyped /\ ClientsTyped /\ WorkersTyped
      /\ Phases /\ Listed /\ Calls /\ Joined /\ Ordered
  BY DEF IInv, TypeOK
<1>a. m_JobQueue \in Seq(Jobs \cup {Exit}) /\ Cardinality(Exits(m_JobQueue)) \in Nat
  BY <1>0, ExitsFinite DEF WorkersTyped
<1>b. Cardinality(Leavers) \in Nat /\ listed \in Nat /\ at \in Nat /\ exitsLost \in Nat
  BY <1>0, LeaversFinite DEF OwnerTyped
<1> USE DEF threads, pool, owner, clients, workers, history, OwnerAt, Client, Worker
<1>1. CASE CreatePool
  BY <1>1 DEF CreatePool, Counted
<1>2. CASE CreateWorker \/ CreateNext
  BY <1>2 DEF CreateWorker, CreateNext, Counted
<1>3. CASE DestroyPool
  <2>1. /\ mpc = "up" /\ mpc' = "exits" /\ at' = 1 /\ UNCHANGED <<exitsLost, m_JobQueue, listed, born, wpc>>
    BY <1>3 DEF DestroyPool
  <2>2. Exits(m_JobQueue) = {} /\ Leavers = {}
    BY <1>0, <2>1 DEF Ordered, Exits, Leavers
  <2>3. Exits(m_JobQueue') = {} /\ Leavers' = {}
    BY <2>1, <2>2 DEF Leavers
  <2>4. exitsLost' = 0
    BY <2>1 DEF Counted
  <2> QED
    BY <1>b, <2>1, <2>3, <2>4, FS_EmptySet DEF Counted
<1>4. CASE PutExit
  <2>1. /\ mpc = "exits" /\ mpc' = "exits" /\ at' = at + 1 /\ at <= listed
        /\ UNCHANGED <<listed, born, wpc>>
    BY <1>4 DEF PutExit
  <2>2. Leavers' = Leavers
    BY <2>1 DEF Leavers
  <2>3. Cardinality(Exits(m_JobQueue')) + exitsLost' = Cardinality(Exits(m_JobQueue)) + exitsLost + 1
    <3>1. CASE m_JobQueue' = Append(m_JobQueue, Exit) /\ exitsLost' = exitsLost
      BY <1>a, <1>b, <3>1, ExitsAppend
    <3>2. CASE m_JobQueue' = m_JobQueue /\ exitsLost' = exitsLost + 1
      BY <1>a, <1>b, <3>2
    <3> QED
      BY <1>4, <3>1, <3>2 DEF PutExit, Queue!Enqueue
  <2>4. Cardinality(Exits(m_JobQueue')) \in Nat /\ exitsLost' \in Nat
    <3>1. WorkersTyped' /\ OwnerTyped'
      BY NextIInv DEF IInv, TypeOK
    <3> QED
      BY <3>1, ExitsFinite DEF WorkersTyped, OwnerTyped
  <2> QED
    <3>1. Cardinality(Exits(m_JobQueue)) + Cardinality(Leavers) + exitsLost = at - 1
      BY <2>1 DEF Counted
    <3>2. Cardinality(Exits(m_JobQueue')) + Cardinality(Leavers) + exitsLost' = at
      <4>1. /\ Cardinality(Exits(m_JobQueue)) \in Nat /\ Cardinality(Leavers) \in Nat
            /\ exitsLost \in Nat /\ at \in Nat
        BY <1>a, <1>b
      <4> QED
        BY <2>3, <2>4, <3>1, <4>1
    <3>3. at' - 1 = at /\ at' <= listed' + 1
      BY <1>b, <2>1
    <3> QED
      BY <2>1, <2>2, <3>2, <3>3 DEF Counted
<1>5. CASE ExitsPut \/ DestroyWorker \/ DestroyPast \/ DestroyNext \/ DestroyEnd
  <2>1. /\ UNCHANGED <<exitsLost, m_JobQueue, listed, born, wpc>>
        /\ \/ mpc = "exits" /\ at > listed /\ mpc' = "destroy"
           \/ /\ mpc \in {"destroy", "join"} /\ mpc' \in {"destroy", "join", "down"}
              /\ mpc' = "join" => at' <= listed
    BY <1>5 DEF ExitsPut, DestroyWorker, DestroyPast, DestroyNext, DestroyEnd
  <2>2. Leavers' = Leavers
    BY <2>1 DEF Leavers
  <2>3. mpc = "exits" => at - 1 = listed
    BY <1>b, <2>1 DEF Counted
  <2> QED
    BY <2>1, <2>2, <2>3 DEF Counted
<1>6. ASSUME NEW c \in Clients, AddJob(c) \/ ClientStep(c)
      PROVE  Counted'
  <2>1. mpc = "up"
    BY <1>0, <1>6 DEF AddJob, ClientStep, AddLock, AddMake, AddMade, AddUnlock, AddPut, Phases
  <2>2. UNCHANGED <<exitsLost, mpc>>
    BY <1>6 DEF AddJob, ClientStep, AddLock, AddMake, AddMade, AddUnlock, AddPut
  <2> QED
    BY <2>1, <2>2 DEF Counted
<1>7. ASSUME NEW w \in Workers, \/ Enter(w) \/ Loop(w) \/ NullAllocator(w) \/ Worked(w)
                                \/ ThreadCall(w) \/ ThreadRun(w) \/ Return(w)
      PROVE  Counted'
  <2>1. UNCHANGED <<exitsLost, mpc, at, listed, born, m_JobQueue>>
    BY <1>7 DEF Enter, Loop, NullAllocator, Worked, ThreadCall, ThreadRun, Return
  <2>2. \A v \in Workers : wpc'[v] \in {"exit", "returned"} <=> wpc[v] \in {"exit", "returned"}
    BY <1>0, <1>7 DEF Enter, Loop, NullAllocator, Worked, ThreadCall, ThreadRun, Return, WorkersTyped
  <2>3. Leavers' = Leavers
    BY <2>1, <2>2 DEF Leavers
  <2> QED
    BY <2>1, <2>3 DEF Counted
<1>8. ASSUME NEW w \in Workers, Get(w)
      PROVE  Counted'
  <2> PICK x \in Jobs \cup {Exit} :
           /\ m_JobQueue # <<>> /\ x = Head(m_JobQueue) /\ m_JobQueue' = Tail(m_JobQueue)
           /\ tpc[w] = "run" /\ wpc[w] = "get"
           /\ wpc' = [wpc EXCEPT ![w] = IF x = Exit THEN "exit" ELSE "work"]
           /\ UNCHANGED <<exitsLost, mpc, at, listed, born>>
    BY <1>8 DEF Get, Queue!Dequeue
  <2>1. Cardinality(Exits(m_JobQueue)) = Cardinality(Exits(m_JobQueue')) + IF x = Exit THEN 1 ELSE 0
    BY <1>a, ExitsTail
  <2>2. Cardinality(Exits(m_JobQueue')) \in Nat
    BY <1>a, ExitsFinite, HeadTailProperties
  <2>3. w > born
    BY <1>0, PoolAssumption DEF Lives, OwnerTyped, Workers
  <2>4. Cardinality(Leavers') = Cardinality(Leavers) + IF x = Exit THEN 1 ELSE 0
    <3>1. CASE x = Exit
      <4>1. Leavers' = Leavers \cup {w} /\ w \notin Leavers
        BY <1>0, <2>3, <3>1 DEF Leavers, WorkersTyped
      <4> QED
        BY <3>1, <4>1, LeaversFinite, FS_AddElement
    <3>2. CASE x # Exit
      <4>1. Leavers' = Leavers
        BY <1>0, <3>2 DEF Leavers, WorkersTyped
      <4> QED
        BY <1>b, <3>2, <4>1
    <3> QED
      BY <3>1, <3>2
  <2> QED
    BY <1>b, <2>1, <2>2, <2>4 DEF Counted
<1>9. CASE UNCHANGED vars
  BY <1>9 DEF vars, Counted, Leavers
<1>10. CASE OwnerStep
  BY <1>2, <1>4, <1>5, <1>10 DEF OwnerStep
<1> QED
  BY <1>1, <1>3, <1>6, <1>7, <1>8, <1>9, <1>10 DEF Next, WorkerStep

\* What the invariant adds about waiting
Running == (\A w \in Workers : Permits(w)) /\ Lives /\ Counted

LEMMA NextRunning == IInv /\ Running /\ [Next]_vars => Running'
BY NextPermits, NextLives, NextCounted DEF Running

(* Destroy hangs only in the ways that DestroyReturnsUnless names             *)
(* (XLThreadPool.cpp:147-176), for any numbers of workers, clients, jobs and  *)
(* lives and every size of the queue.                                         *)
THEOREM NoOtherDeadlock == Spec => []DestroyNotBlocked
<1>1. IInv /\ Running => DestroyNotBlocked
  <2> SUFFICES ASSUME IInv, \A w \in Workers : Permits(w), Lives, Counted,
                      mpc \in {"exits", "destroy", "join"}, ~DestroyReady, exitsLost <= born,
                      \A w \in Workers : ~Stuck(w)
               PROVE  at \in Workers /\ (CallReady(at) \/ ThreadReady(at))
    BY DEF DestroyNotBlocked, IInv, TypeOK, OwnerTyped, Running
  <2>0. /\ Th!TypeOK /\ OwnerTyped /\ WorkersTyped /\ Phases /\ Listed /\ Calls /\ Ordered
    BY DEF IInv, TypeOK
  <2>1. mpc \in {"destroy", "join"} /\ at \in Workers
    <3>1. at <= listed
      BY <2>0 DEF DestroyReady, OwnerTyped, Counted
    <3> QED
      BY <2>0, <3>1, PoolAssumption DEF DestroyReady, OwnerTyped, Phases, Workers
  <2>2. mpc = "join" /\ opc[at] \in Destroying
    <3>1. opc[at] # "idle"
      BY <2>1 DEF DestroyReady
    <3>2. opc[at] \notin Creating
      BY <2>0, <2>1 DEF Calls, Phases
    <3>3. opc[at] \in Destroying
      BY <2>0, <2>1, <3>1, <3>2 DEF Th!TypeOK, Creating, Destroying
    <3> QED
      BY <2>0, <2>1, <3>3 DEF Calls
  <2>3. tpc[at] # "none" /\ (opc[at] = "take2" => m_Sync2[at].permits > 0)
    BY <2>1, <2>2 DEF Permits
  <2>4. tpc[at] = "take1" => m_Sync1[at].permits > 0
    BY <2>1 DEF Permits, Stuck
  <2>5. tpc[at] = "run" /\ wpc[at] = "get" => m_JobQueue # <<>>
    <3> SUFFICES ASSUME tpc[at] = "run", wpc[at] = "get", m_JobQueue = <<>>
                 PROVE  FALSE
      OBVIOUS
    <3>1. Cardinality(Exits(m_JobQueue)) = 0
      <4>1. Exits(m_JobQueue) = {}
        BY DEF Exits
      <4> QED
        BY <4>1, FS_EmptySet
    <3>2. at \in born + 1..listed /\ Leavers \subseteq (born + 1..listed) \ {at}
      <4>1. at > born /\ at <= listed
        BY <2>0, <2>1, <2>2, PoolAssumption DEF Lives, OwnerTyped, Workers, Counted
      <4>2. ASSUME NEW w \in Leavers
            PROVE  w \in born + 1..listed /\ w # at
        BY <2>0, <2>2, <4>2, PoolAssumption DEF Leavers, Listed, OwnerTyped, Workers
      <4> QED
        BY <2>0, <2>1, <4>1, <4>2, PoolAssumption DEF OwnerTyped, Workers
    <3>3. Cardinality(born + 1..listed) = listed - born /\ IsFiniteSet(born + 1..listed)
      <4>1. born + 1 \in Int /\ listed \in Int /\ born <= listed
        BY <2>0 DEF OwnerTyped, Phases
      <4>2. /\ IsFiniteSet(born + 1..listed)
            /\ Cardinality(born + 1..listed) = IF born + 1 > listed THEN 0 ELSE listed - (born + 1) + 1
        BY <4>1, FS_Interval
      <4> QED
        BY <2>0, <4>1, <4>2 DEF OwnerTyped
    <3>4. /\ IsFiniteSet((born + 1..listed) \ {at})
          /\ Cardinality((born + 1..listed) \ {at}) = listed - born - 1
      BY <3>2, <3>3, FS_RemoveElement
    <3>5. Cardinality(Leavers) <= listed - born - 1
      <4>1. Leavers \in SUBSET ((born + 1..listed) \ {at})
        BY <3>2
      <4>2. /\ IsFiniteSet((born + 1..listed) \ {at})
            /\ \A T \in SUBSET ((born + 1..listed) \ {at}) :
                   Cardinality(T) <= Cardinality((born + 1..listed) \ {at})
        BY <3>4, FS_Subset, Zenon
      <4>3. Cardinality(Leavers) <= Cardinality((born + 1..listed) \ {at})
        BY <4>1, <4>2, Zenon
      <4> QED
        BY <3>4, <4>3
    <3>6. Cardinality(Leavers) \in Nat
      BY LeaversFinite
    <3>7. Cardinality(Leavers) + exitsLost = listed
      BY <2>0, <2>2, <3>1, <3>6 DEF Counted, OwnerTyped
    <3> QED
      BY <2>0, <3>5, <3>6, <3>7 DEF OwnerTyped
  <2>6. CallReady(at) \/ ThreadReady(at)
    <3>1. CASE opc[at] # "join"
      BY <2>2, <2>3, <3>1 DEF CallReady, Destroying
    <3>2. CASE tpc[at] = "run"
      <4>1. wpc[at] # "returned" /\ m_bCreated
        BY <2>1, <2>2, <3>2 DEF Lives
      <4> QED
        BY <2>0, <2>1, <2>5, <3>2, <4>1 DEF ThreadReady, WorkersTyped
    <3>3. CASE opc[at] = "join" /\ tpc[at] # "run"
      BY <2>0, <2>1, <2>3, <2>4, <3>3 DEF CallReady, ThreadReady, Th!TypeOK
    <3> QED
      BY <3>1, <3>2, <3>3
  <2> QED
    BY <2>1, <2>6
<1>2. Init => Running
  BY InitLives DEF Running
<1> QED
  BY <1>1, <1>2, NextRunning, Invariance, PTL DEF Spec
--------------------------------------------------------------------------------
\* A client's AddJob has a step to make worker w, which it has listed.
MakeReady(w) == \E c \in Clients : cpc[c] = "make" /\ made[c] = w

\* A worker that is listed is made before its pool can be destroyed, and a pool that has
\* taken a job has a worker.
Manned ==
    /\ mpc \in {"create", "created", "up"} =>
          \A w \in Workers : w \in Present /\ tpc[w] = "none" => opc[w] = "spawn" \/ MakeReady(w)
    /\ mpc = "created" =>
          \A w \in Workers : w = at /\ tpc[w] = "none" => opc[w] = "spawn"
    /\ ~m_bDynamic /\ mpc \in {"up", "exits", "destroy", "join", "down"} =>
          listed = born + m_iNumMaxThread
    /\ accepted # {} \/ (\E c \in Clients : cpc[c] \in {"make", "made", "unlock", "put"}) =>
          listed > born \/ Outlived \/ m_iNumMaxThread = 0

(* While an accepted job is not done, a worker of this life or the call that  *)
(* makes it has a step to take, unless every worker of this life was lost at  *)
(* its start, a second life found the list full, the pool is to have none, or *)
(* the program has crashed (XLThreadPool.cpp:39-64, 120-144): the part of     *)
(* JobRuns that needs no fairness.                                            *)
JobsNotBlocked == \A j \in accepted \ done :
    \/ \E w \in Workers : w > born /\ (MakeReady(w) \/ CallReady(w) \/ ThreadReady(w))
    \/ crashed \/ Outlived \/ m_iNumMaxThread = 0
    \/ Present # {} /\ \A w \in Present : Stuck(w) \/ Idled(w)

LEMMA InitManned == Init => Manned
BY DEF Init, Manned

(* Every step keeps a maker for each listed worker without a thread, and a    *)
(* worker for a pool with a job.                                              *)
LEMMA NextManned == IInv /\ Manned /\ [Next]_vars => Manned'
<1> SUFFICES ASSUME IInv, Manned, [Next]_vars
             PROVE  Manned'
  OBVIOUS
<1>0. /\ Th!TypeOK /\ OwnerTyped /\ ClientsTyped /\ WorkersTyped
      /\ Phases /\ Listed /\ Calls /\ Joined /\ Ordered
  BY DEF IInv, TypeOK
<1> USE PoolAssumption
    DEF threads, pool, owner, clients, workers, history, OwnerAt, Client, Worker, Workers
<1>1. CASE CreatePool
  <2>1. /\ UNCHANGED <<tpc, opc, cpc, made, listed, m_bDynamic>> /\ born' = listed /\ accepted' = {}
        /\ mpc \in {"out", "down"}
        /\ \/ mpc' = "create"
           \/ mpc' = "up" /\ (m_bDynamic \/ m_iNumMaxThread = 0)
    BY <1>1 DEF CreatePool
  <2>2. \A c \in Clients : cpc'[c] = "idle"
    BY <1>0, <2>1 DEF Phases
  <2>3. Present' = {}
    BY <1>0, <2>1 DEF Present, OwnerTyped
  <2>4. ~m_bDynamic' /\ mpc' = "up" => listed' = born' + m_iNumMaxThread
    BY <1>0, <2>1 DEF OwnerTyped
  <2> QED
    BY <2>1, <2>2, <2>3, <2>4 DEF Manned
<1>2. CASE CreateWorker \/ DestroyWorker
  <2>1. /\ at \in Workers /\ at' = at
        /\ UNCHANGED <<cpc, made, listed, born, m_bDynamic, accepted, m_iNumMaxThread>>
        /\ \/ mpc = "create" /\ mpc' = "created" /\ at = listed + 1 /\ Th!CreateStart(at)
           \/ mpc = "destroy" /\ mpc' = "join" /\ Th!DestroyStart(at)
    BY <1>0, <1>2 DEF CreateWorker, DestroyWorker, Phases, OwnerTyped
  <2>2. /\ tpc' = tpc
        /\ \/ mpc = "create" /\ mpc' = "created" /\ opc' = [opc EXCEPT ![at] = "spawn"]
           \/ mpc = "destroy" /\ mpc' = "join"
    BY <1>0, <2>1, CallBegins
  <2>3. ASSUME mpc' = "created"
        PROVE  /\ \A w \in Workers : w \in Present' /\ tpc'[w] = "none" => opc'[w] = "spawn" \/ MakeReady(w)'
               /\ \A w \in Workers : w = at' /\ tpc'[w] = "none" => opc'[w] = "spawn"
    BY <1>0, <2>1, <2>2, <2>3 DEF Manned, Present, MakeReady, Th!TypeOK
  <2> QED
    BY <2>1, <2>2, <2>3 DEF Manned, Outlived
<1>3. CASE CreateNext
  <2>1. /\ UNCHANGED <<tpc, opc, cpc, made, born, m_bDynamic, accepted>>
        /\ mpc = "created" /\ mpc' \in {"create", "up"} /\ listed' = listed + 1 /\ at = listed + 1
        /\ opc[at] = "idle" /\ (mpc' = "up" => at >= born + m_iNumMaxThread)
        /\ at <= born + m_iNumMaxThread
    <3>1. /\ UNCHANGED <<tpc, opc, cpc, made, born, m_bDynamic, accepted>>
          /\ mpc = "created" /\ mpc' \in {"create", "up"} /\ listed' = listed + 1
          /\ opc[at] = "idle"
          /\ at < born + m_iNumMaxThread \/ mpc' = "up"
      BY <1>3 DEF CreateNext
    <3>2. mpc' = "up" => ~(at < born + m_iNumMaxThread)
      BY <1>3 DEF CreateNext
    <3>3. at = listed + 1 /\ at <= born + m_iNumMaxThread
      BY <1>0, <3>1 DEF Phases
    <3> QED
      BY <1>0, <3>1, <3>2, <3>3 DEF OwnerTyped
  <2>2. \A w \in Workers : w \in Present' => w \in Present \/ w = at
    BY <1>0, <2>1 DEF Present, OwnerTyped
  <2>3. \A w \in Workers : w \in Present' /\ tpc'[w] = "none" => opc'[w] = "spawn" \/ MakeReady(w)'
    BY <2>1, <2>2 DEF Manned, MakeReady
  <2>4. mpc' = "up" => listed' = born' + m_iNumMaxThread
    BY <1>0, <2>1 DEF OwnerTyped
  <2>5. listed' > born'
    BY <1>0, <2>1 DEF OwnerTyped, Phases
  <2> QED
    BY <2>1, <2>3, <2>4, <2>5 DEF Manned
<1>4. CASE DestroyPool \/ PutExit \/ ExitsPut \/ DestroyPast \/ DestroyNext \/ DestroyEnd
  <2>1. /\ UNCHANGED <<cpc, listed, born, m_bDynamic, accepted>>
        /\ mpc \in {"up", "exits", "destroy", "join"} /\ mpc' \in {"exits", "destroy", "down"}
    BY <1>4 DEF DestroyPool, PutExit, ExitsPut, DestroyPast, DestroyNext, DestroyEnd
  <2> QED
    BY <2>1 DEF Manned, Outlived
<1>5. ASSUME NEW c \in Clients, AddJob(c)
      PROVE  Manned'
  <2>1. /\ mpc = "up" /\ UNCHANGED <<tpc, opc, mpc, at, made, listed, born, m_bDynamic, accepted>>
        /\ cpc[c] = "idle" /\ \/ cpc' = [cpc EXCEPT ![c] = "lock"]
                              \/ ~(m_bDynamic /\ listed < m_iNumMaxThread)
    BY <1>5 DEF AddJob
  <2>2. \A d \in Clients : d # c => cpc'[d] = cpc[d]
    BY <1>0, <1>5 DEF AddJob, ClientsTyped
  <2>3. \A w \in Workers : MakeReady(w) => MakeReady(w)'
    BY <2>1, <2>2 DEF MakeReady
  <2>4. ASSUME ~(m_bDynamic /\ listed < m_iNumMaxThread)
        PROVE  listed > born \/ Outlived \/ m_iNumMaxThread = 0
    BY <1>0, <2>1, <2>4 DEF Manned, Outlived, Phases, SizeBounded, OwnerTyped
  <2>5. CASE cpc' = [cpc EXCEPT ![c] = "lock"]
    <3>1. \A d \in Clients : cpc'[d] \in {"make", "made", "unlock", "put"} => cpc[d] = cpc'[d]
      BY <1>0, <2>5 DEF ClientsTyped
    <3> QED
      BY <2>1, <2>3, <3>1 DEF Manned, Present, Outlived
  <2>6. CASE ~(m_bDynamic /\ listed < m_iNumMaxThread)
    BY <2>1, <2>3, <2>4, <2>6 DEF Manned, Present, Outlived
  <2> QED
    BY <2>1, <2>5, <2>6
<1>6. ASSUME NEW c \in Clients, AddLock(c)
      PROVE  Manned'
  <2>1. /\ UNCHANGED <<tpc, opc, mpc, at, born, m_bDynamic, accepted>>
        /\ cpc[c] = "lock" /\ mpc = "up" /\ m_bDynamic
        /\ \A d \in Clients : d # c => cpc'[d] = cpc[d] /\ made'[d] = made[d]
        /\ \/ listed' = listed + 1 /\ cpc'[c] = "make" /\ made'[c] = listed + 1
           \/ listed' = listed /\ listed >= m_iNumMaxThread
    BY <1>0, <1>6 DEF AddLock, ClientsTyped, OwnerTyped, Phases
  <2>2. \A w \in Workers : MakeReady(w) => MakeReady(w)'
    BY <2>1 DEF MakeReady
  <2>3. \A w \in Workers : w \in Present' => w \in Present \/ MakeReady(w)'
    BY <1>0, <2>1 DEF MakeReady, Present, OwnerTyped
  <2>4. listed' > born' \/ Outlived'
    BY <1>0, <2>1 DEF Outlived, Phases, SizeBounded, OwnerTyped
  <2> QED
    BY <2>1, <2>2, <2>3, <2>4 DEF Manned
<1>7. ASSUME NEW c \in Clients, AddMake(c)
      PROVE  Manned'
  <2>1. /\ UNCHANGED <<mpc, at, listed, born, m_bDynamic, accepted, made>>
        /\ cpc[c] = "make" /\ cpc' = [cpc EXCEPT ![c] = "made"] /\ made[c] \in Workers /\ mpc = "up"
    BY <1>0, <1>7 DEF AddMake, Phases, OwnerTyped
  <2>2. tpc' = tpc /\ opc' = [opc EXCEPT ![made[c]] = "spawn"]
    BY <1>0, <1>7, <2>1, CallBegins DEF AddMake
  <2>3. \A w \in Workers : MakeReady(w) => MakeReady(w)' \/ w = made[c]
    BY <1>0, <2>1 DEF MakeReady, ClientsTyped
  <2>4. \A w \in Workers : w \in Present' /\ tpc'[w] = "none" => opc'[w] = "spawn" \/ MakeReady(w)'
    BY <1>0, <2>1, <2>2, <2>3 DEF Manned, Present, Th!TypeOK
  <2>5. listed > born \/ Outlived \/ m_iNumMaxThread = 0
    BY <2>1 DEF Manned
  <2> QED
    BY <2>1, <2>4, <2>5 DEF Manned, Outlived
<1>8. ASSUME NEW c \in Clients, AddMade(c) \/ AddUnlock(c) \/ AddPut(c)
      PROVE  Manned'
  <2>1. /\ UNCHANGED <<tpc, opc, mpc, at, listed, born, m_bDynamic>>
        /\ cpc[c] \in {"made", "unlock", "put"}
        /\ \A d \in Clients : d # c => cpc'[d] = cpc[d] /\ made'[d] = made[d]
    BY <1>0, <1>8 DEF AddMade, AddUnlock, AddPut, ClientsTyped
  <2>2. \A w \in Workers : MakeReady(w) => MakeReady(w)'
    BY <2>1 DEF MakeReady
  <2>3. listed > born \/ Outlived \/ m_iNumMaxThread = 0
    BY <2>1 DEF Manned
  <2> QED
    BY <1>0, <2>1, <2>2, <2>3 DEF Manned, Present, Outlived, Phases
<1>9. ASSUME NEW w \in Workers, ThreadCall(w)
      PROVE  Manned'
  <2>1. Th!OwnerStep(w) /\ UNCHANGED <<mpc, at, listed, born, m_bDynamic, accepted, cpc, made>>
    BY <1>9 DEF ThreadCall
  <2>2. \/ Moved(w, "spawn", "assign") /\ tpc' = [tpc EXCEPT ![w] = "started"]
        \/ /\ \/ Moved(w, "assign", "give1") \/ Moved(w, "give1", "idle")
              \/ Moved(w, "take2", "destroy1") \/ Moved(w, "destroy1", "destroy2")
              \/ Moved(w, "destroy2", "join")
           /\ tpc' = tpc
        \/ /\ Moved(w, "join", "idle")
           /\ tpc[w] = "ended" /\ tpc' = [tpc EXCEPT ![w] = "none"]
    BY <1>0, <2>1, CallMoves
  <2>3. opc[w] = "join" => mpc = "join"
    BY <1>0 DEF Calls, Destroying
  <2>4. mpc # "join" => \A v \in Workers :
            tpc'[v] = "none" => tpc[v] = "none" /\ (opc[v] = "spawn" => opc'[v] = "spawn")
    BY <1>0, <2>2, <2>3 DEF Moved, Th!TypeOK
  <2> QED
    BY <2>1, <2>4 DEF Manned, Present, MakeReady, Outlived
<1>10. ASSUME NEW w \in Workers, ThreadRun(w) \/ Return(w)
       PROVE  Manned'
  <2>1. /\ UNCHANGED <<mpc, at, listed, born, m_bDynamic, accepted, cpc, made>>
        /\ Th!ThreadStep(w) \/ Th!RunReturns(w)
    BY <1>10 DEF ThreadRun, Return
  <2>2. /\ opc' = opc /\ tpc[w] # "none" /\ tpc' = [tpc EXCEPT ![w] = tpc'[w]] /\ tpc'[w] # "none"
    BY <1>0, <2>1, ThreadMoves
  <2>3. \A v \in Workers : tpc'[v] = "none" => tpc[v] = "none"
    BY <1>0, <2>2 DEF Th!TypeOK
  <2> QED
    BY <2>1, <2>2, <2>3 DEF Manned, Present, MakeReady, Outlived
<1>11. ASSUME NEW w \in Workers, Enter(w) \/ Loop(w) \/ NullAllocator(w) \/ Get(w) \/ Worked(w)
       PROVE  Manned'
  <2>1. UNCHANGED <<tpc, opc, mpc, at, listed, born, m_bDynamic, accepted, cpc, made>>
    BY <1>11 DEF Enter, Loop, NullAllocator, Get, Worked
  <2> QED
    BY <2>1 DEF Manned, Present, MakeReady, Outlived
<1>12. CASE UNCHANGED vars
  BY <1>12 DEF vars, Manned, Present, MakeReady, Outlived
<1>13. CASE OwnerStep
  BY <1>2, <1>3, <1>4, <1>13 DEF OwnerStep
<1> QED
  BY <1>1, <1>4, <1>5, <1>6, <1>7, <1>8, <1>9, <1>10, <1>11, <1>12, <1>13
     DEF Next, ClientStep, WorkerStep

(* No job waits while nobody can take it, but in the ways that JobRuns names  *)
(* (XLThreadPool.cpp:39-64, 120-144), for any numbers of workers, clients,    *)
(* jobs and lives and every size of the queue.                                *)
THEOREM NoJobForgotten == Spec => []JobsNotBlocked
<1>1. IInv /\ Running /\ Manned => JobsNotBlocked
  <2> SUFFICES ASSUME IInv, Running, Manned, NEW j \in accepted \ done,
                      \A w \in Workers : w > born => ~MakeReady(w) /\ ~CallReady(w) /\ ~ThreadReady(w),
                      ~Outlived, m_iNumMaxThread # 0
               PROVE  Present # {} /\ \A w \in Present : Stuck(w) \/ Idled(w)
    BY DEF JobsNotBlocked
  <2>0. /\ Th!TypeOK /\ OwnerTyped /\ WorkersTyped /\ Phases /\ Listed /\ Calls /\ Joined /\ Ordered
        /\ (\A w \in Workers : Permits(w)) /\ Lives
    BY DEF IInv, TypeOK, Running
  <2>1. listed > born
    BY DEF Manned
  <2>2. Present # {} /\ Present \subseteq Workers /\ \A w \in Present : w > born
    <3>1. born \in Int /\ listed \in Int /\ listed <= MaxWorkers /\ born >= 0 /\ MaxWorkers \in Int
      BY <2>0, PoolAssumption DEF OwnerTyped, Phases
    <3>2. born + 1 \in Present
      BY <2>1, <3>1 DEF Present
    <3>3. \A w \in Present : w \in Workers /\ w > born
      BY <3>1 DEF Present, Workers
    <3> QED
      BY <3>2, <3>3
  <2>3. \E i \in 1..Len(m_JobQueue) : m_JobQueue[i] = j /\ j # Exit
    <3>1. j # Exit /\ j \notin done
      BY <2>0 DEF WorkersTyped, Jobs, Exit
    <3>2. \A w \in Workers : wpc[w] # "work"
      BY <2>0, PoolAssumption DEF Ordered, Lives, ThreadReady, OwnerTyped, Workers
    <3> QED
      BY <2>0, <3>1, <3>2 DEF Ordered, Somewhere
  <2>4. m_JobQueue # <<>>
    BY <2>3
  <2>5. \A w \in Present : wpc[w] \notin {"exit", "returned"}
    BY <2>0, <2>2, <2>3 DEF Ordered
  <2>6. ASSUME NEW w \in Present, ~Stuck(w)
        PROVE  Idled(w)
    <3>1. w \in Workers /\ ~MakeReady(w) /\ ~CallReady(w) /\ ~ThreadReady(w)
      BY <2>2
    <3>2. tpc[w] \notin {"started", "take1", "check", "give2"}
      BY <2>0, <2>6, <3>1 DEF Permits, Stuck, ThreadReady
    <3>3. tpc[w] # "run"
      <4> SUFFICES ASSUME tpc[w] = "run" PROVE FALSE
        OBVIOUS
      <4>1. wpc[w] \in {"loop", "get"}
        BY <2>0, <2>5, <3>1 DEF WorkersTyped, ThreadReady
      <4>2. wpc[w] # "get"
        BY <2>4, <3>1 DEF ThreadReady
      <4>3. mpc \notin {"out", "down"}
        BY <2>0, <2>1, <3>1 DEF Phases, Joined, OwnerTyped
      <4> QED
        BY <2>0, <3>1, <4>1, <4>2, <4>3 DEF ThreadReady, Lives
    <3>4. wpc[w] = "none"
      BY <2>0, <2>5, <3>1, <3>3 DEF Ordered, WorkersTyped
    <3>5. CASE tpc[w] = "none"
      <4>1. mpc \notin {"create", "created", "up"}
        BY <3>1, <3>5, <2>6 DEF Manned, CallReady
      <4>2. mpc # "out"
        BY <2>0, <2>1 DEF Phases, OwnerTyped
      <4> QED
        BY <2>0, <3>4, <3>5, <4>1, <4>2 DEF Idled, OwnerTyped
    <3>6. CASE tpc[w] = "ended"
      BY <3>4, <3>6 DEF Idled
    <3> QED
      BY <2>0, <3>1, <3>2, <3>3, <3>5, <3>6 DEF Th!TypeOK
  <2> QED
    BY <2>2, <2>6
<1>2. Init => Running
  BY InitLives DEF Running
<1> QED
  BY <1>1, <1>2, InitManned, NextManned, NextRunning, Invariance, PTL DEF Spec

================================================================================
