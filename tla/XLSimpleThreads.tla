---------------------------- MODULE XLSimpleThreads ----------------------------
(***************************************************************************)
(* XLSimpleThreads.cpp, C++11 build: an object that starts a std::thread   *)
(* in Create, runs RunProgram in it, and joins it in Destroy.              *)
(*                                                                         *)
(* m_Sync1 and m_Sync2 were meant to hold the new thread back until        *)
(* Create is done and Destroy until the program is.  Both are made with    *)
(* Create(0, 1), which in this build is one permit (XLSemaPhore), so       *)
(* neither holds anyone back.  Unlike in XLSemaPhore they are destroyed    *)
(* while the other side may be inside a call: a Take that has found the    *)
(* semaphore created and then finds its fields reset waits for ever, for   *)
(* the object has no permit and nobody will give one.                      *)
(*                                                                         *)
(* An object has at most one owner at a time, who calls Create and Destroy;*)
(* Create is called only on an object that is not created, as its callers  *)
(* test (XLThreadPool.cpp:19, XLEventThread.cpp:23).                       *)
(***************************************************************************)
EXTENDS Integers

CONSTANT Objects

VARIABLES m_handle,             \* m_handle is not null
          m_Sync1, m_Sync2,     \* records [created, permits]
          tpc,                  \* the thread: place in RunSimpleThread
          opc                   \* the owner: place in Create or Destroy

vars == <<m_handle, m_Sync1, m_Sync2, tpc, opc>>

Fresh == [created |-> TRUE, permits |-> 1]      \* Create(0, 1)
Dead  == [created |-> FALSE, permits |-> 0]     \* Destroy()

Init == /\ m_handle = [o \in Objects |-> FALSE]
        /\ m_Sync1 = [o \in Objects |-> Dead]
        /\ m_Sync2 = [o \in Objects |-> Dead]
        /\ tpc = [o \in Objects |-> "none"]
        /\ opc = [o \in Objects |-> "idle"]

Owner(o, from, to) == opc[o] = from /\ opc' = [opc EXCEPT ![o] = to]
Thread(o, from, to) == tpc[o] = from /\ tpc' = [tpc EXCEPT ![o] = to]

--------------------------------------------------------------------------------
CreateStart(o) == /\ ~m_handle[o]
                  /\ Owner(o, "idle", "spawn")
                  /\ m_Sync1' = [m_Sync1 EXCEPT ![o] = Fresh]
                  /\ m_Sync2' = [m_Sync2 EXCEPT ![o] = Fresh]
                  /\ UNCHANGED <<m_handle, tpc>>

\* new std::thread(RunSimpleThread, this): from here the thread runs.
CreateSpawn(o) == /\ Owner(o, "spawn", "assign")
                  /\ tpc' = [tpc EXCEPT ![o] = "started"]
                  /\ UNCHANGED <<m_handle, m_Sync1, m_Sync2>>

\* m_handle = the new std::thread
CreateAssign(o) == /\ Owner(o, "assign", "give1")
                   /\ m_handle' = [m_handle EXCEPT ![o] = TRUE]
                   /\ UNCHANGED <<m_Sync1, m_Sync2, tpc>>

CreateGive(o) == /\ Owner(o, "give1", "idle")
                 /\ m_Sync1' = [m_Sync1 EXCEPT ![o].permits = @ + 1]
                 /\ UNCHANGED <<m_handle, m_Sync2, tpc>>

--------------------------------------------------------------------------------
DestroyStart(o) == /\ m_handle[o]
                   /\ Owner(o, "idle", "take2")
                   /\ UNCHANGED <<m_handle, m_Sync1, m_Sync2, tpc>>

DestroyTake(o) == /\ Owner(o, "take2", "destroy1")
                  /\ m_Sync2[o].permits > 0
                  /\ m_Sync2' = [m_Sync2 EXCEPT ![o].permits = @ - 1]
                  /\ UNCHANGED <<m_handle, m_Sync1, tpc>>

DestroySync1(o) == /\ Owner(o, "destroy1", "destroy2")
                   /\ m_Sync1' = [m_Sync1 EXCEPT ![o] = Dead]
                   /\ UNCHANGED <<m_handle, m_Sync2, tpc>>

DestroySync2(o) == /\ Owner(o, "destroy2", "join")
                   /\ m_Sync2' = [m_Sync2 EXCEPT ![o] = Dead]
                   /\ UNCHANGED <<m_handle, m_Sync1, tpc>>

\* Mutant: the thread is detached, not joined.
DestroyJoin_Detach(o) == /\ Owner(o, "join", "idle")
                         /\ m_handle' = [m_handle EXCEPT ![o] = FALSE]
                         /\ UNCHANGED <<m_Sync1, m_Sync2, tpc>>

\* m_handle->join(); delete m_handle; m_handle = 0
DestroyJoin(o) == /\ Owner(o, "join", "idle")
                  /\ Thread(o, "ended", "none")
                  /\ m_handle' = [m_handle EXCEPT ![o] = FALSE]
                  /\ UNCHANGED <<m_Sync1, m_Sync2>>

--------------------------------------------------------------------------------
\* m_Sync1.Take(): IsCreated, outside the lock
TakeTest(o) == /\ Thread(o, "started", IF m_Sync1[o].created THEN "take1" ELSE "check")
               /\ UNCHANGED <<m_handle, m_Sync1, m_Sync2, opc>>

\* ... and the rest of it.
TakeDone(o) == /\ Thread(o, "take1", "check")
               /\ m_Sync1[o].permits > 0
               /\ m_Sync1' = [m_Sync1 EXCEPT ![o].permits = @ - 1]
               /\ UNCHANGED <<m_handle, m_Sync2, opc>>

\* if(Thread->IsCreated()) Thread->RunProgram(): the handle may not be there yet.
Check(o) == /\ Thread(o, "check", IF m_handle[o] THEN "run" ELSE "give2")
            /\ UNCHANGED <<m_handle, m_Sync1, m_Sync2, opc>>

\* RunProgram has returned.  What it does is the business of the class that defines it.
RunReturns(o) == /\ Thread(o, "run", "give2")
                 /\ UNCHANGED <<m_handle, m_Sync1, m_Sync2, opc>>

\* m_Sync2.Give(), then RanOut(), and the thread ends.
Finish(o) == /\ Thread(o, "give2", "ended")
             /\ m_Sync2' = IF m_Sync2[o].created
                           THEN [m_Sync2 EXCEPT ![o].permits = @ + 1]
                           ELSE m_Sync2
             /\ UNCHANGED <<m_handle, m_Sync1, opc>>

--------------------------------------------------------------------------------
\* The steps of a Create or Destroy under way, and of the thread outside RunProgram.
OwnerStep(o) == \/ CreateSpawn(o)
                \/ CreateAssign(o)
                \/ CreateGive(o)
                \/ DestroyTake(o)
                \/ DestroySync1(o)
                \/ DestroySync2(o)
                \/ DestroyJoin(o)

ThreadStep(o) == TakeTest(o) \/ TakeDone(o) \/ Check(o) \/ Finish(o)

Next == \E o \in Objects : \/ CreateStart(o)
                           \/ DestroyStart(o)
                           \/ OwnerStep(o)
                           \/ ThreadStep(o)
                           \/ RunReturns(o)

Spec == Init /\ [][Next]_vars

--------------------------------------------------------------------------------
Semaphore == [created : BOOLEAN, permits : Int]

(* Every variable has its type.                                               *)
TypeOK == /\ m_handle \in [Objects -> BOOLEAN]
          /\ m_Sync1 \in [Objects -> Semaphore]
          /\ m_Sync2 \in [Objects -> Semaphore]
          /\ tpc \in [Objects -> {"none", "started", "take1", "check", "run", "give2", "ended"}]
          /\ opc \in [Objects -> {"idle", "spawn", "assign", "give1",
                                  "take2", "destroy1", "destroy2", "join"}]
================================================================================
