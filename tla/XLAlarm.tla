-------------------------------- MODULE XLAlarm --------------------------------
(***************************************************************************)
(* XLAlarm.cpp: a thread that sounds an alarm again and again, until Reset.*)
(*                                                                         *)
(* m_ExitKeeper was meant to let one alarm thread in at a time, and        *)
(* SetAlarm wait for it.  It is made with Create(1, 1), which in this      *)
(* build is no permit (XLSemaPhore): the thread waits for one before its   *)
(* loop, and the only one who gives is a thread that has run out.          *)
(*                                                                         *)
(* RanOut calls XLSimpleThreads::Destroy on the thread's own object: it    *)
(* joins itself, which std::thread refuses with an exception that nobody   *)
(* catches (terminated), unless m_handle is not assigned yet, or belongs   *)
(* to a later thread.  XLSimpleThreads has one thread to an object; here   *)
(* SetAlarm may make another, so the steps of its Create and of the thread *)
(* are in this module.  m_Sync1 always has its permit for the thread that  *)
(* starts, and m_Sync2 for the one that destroys: they hold nobody back.   *)
(*                                                                         *)
(* One caller at a time.  Sleep is left out, and so is m_iRepeatCount,     *)
(* whose 2^32 - 1 rounds nobody waits for.                                 *)
(***************************************************************************)
EXTENDS Integers

CONSTANT MaxThreads     \* bound on the threads made

Threads == 1..MaxThreads

VARIABLES m_handle,     \* the number of the thread, 0 for none
          m_ExitKeeper, \* its permits
          m_bExit,
          made,         \* threads made
          apc,          \* the caller: place in SetAlarm
          tpc,          \* a thread: place in RunSimpleThread
          terminated,
          skipped       \* history: the threads that found no handle, and skipped RunProgram

vars == <<m_handle, m_ExitKeeper, m_bExit, made, apc, tpc, terminated, skipped>>

\* Mutant: a permit, as in the pthread build.
Permits_One == 1

\* m_ExitKeeper.Create(1, 1)
Permits == 0

Init == /\ m_handle = 0 /\ m_ExitKeeper = Permits /\ m_bExit = FALSE
        /\ made = 0 /\ apc = "out"
        /\ tpc = [i \in Threads |-> "none"]
        /\ terminated = FALSE /\ skipped = {}

Caller(from, to) == ~terminated /\ apc = from /\ apc' = to
Thread(i, from, to) == ~terminated /\ tpc[i] = from /\ tpc' = [tpc EXCEPT ![i] = to]

--------------------------------------------------------------------------------
\* SetAlarm: if there is a thread, Reset() ...
SetAlarm == /\ made < MaxThreads
            /\ \/ m_handle = 0 /\ Caller("out", "create") /\ UNCHANGED m_bExit
               \/ m_handle # 0 /\ Caller("out", "keeper") /\ m_bExit' = TRUE
            /\ UNCHANGED <<m_handle, m_ExitKeeper, made, tpc, terminated, skipped>>

\* ... m_ExitKeeper.Take(); m_ExitKeeper.Give()
SetTake == /\ Caller("keeper", "give")
           /\ m_ExitKeeper > 0
           /\ m_ExitKeeper' = m_ExitKeeper - 1
           /\ UNCHANGED <<m_handle, m_bExit, made, tpc, terminated, skipped>>

SetGive == /\ Caller("give", "create")
           /\ m_ExitKeeper' = m_ExitKeeper + 1
           /\ UNCHANGED <<m_handle, m_bExit, made, tpc, terminated, skipped>>

\* m_bExit = false; XLSimpleThreads::Create: the new thread ...
SetCreate == /\ Caller("create", "assign")
             /\ m_bExit' = FALSE
             /\ made' = made + 1
             /\ tpc' = [tpc EXCEPT ![made'] = "started"]
             /\ UNCHANGED <<m_handle, m_ExitKeeper, terminated, skipped>>

\* ... and its handle; the one that was there is lost.
SetAssign == /\ Caller("assign", "out")
             /\ m_handle' = made
             /\ UNCHANGED <<m_ExitKeeper, m_bExit, made, tpc, terminated, skipped>>

Reset == /\ ~terminated /\ apc = "out"
         /\ m_bExit' = TRUE
         /\ UNCHANGED <<m_handle, m_ExitKeeper, made, apc, tpc, terminated, skipped>>

SetStep == SetTake \/ SetGive \/ SetCreate \/ SetAssign

--------------------------------------------------------------------------------
\* if(Thread->IsCreated()): the handle may not be there yet.
Check(i) == /\ \/ Thread(i, "started", "keeper") /\ m_handle # 0 /\ UNCHANGED skipped
               \/ Thread(i, "started", "ranout") /\ m_handle = 0 /\ skipped' = skipped \cup {i}
            /\ UNCHANGED <<m_handle, m_ExitKeeper, m_bExit, made, apc, terminated>>

\* Mutant: the thread does not keep the others out.
Keep_Free(i) == /\ Thread(i, "keeper", "loop")
                /\ UNCHANGED <<m_handle, m_ExitKeeper, m_bExit, made, apc, terminated, skipped>>

\* RunProgram: m_ExitKeeper.Take()
Keep(i) == /\ Thread(i, "keeper", "loop")
           /\ m_ExitKeeper > 0
           /\ m_ExitKeeper' = m_ExitKeeper - 1
           /\ UNCHANGED <<m_handle, m_bExit, made, apc, terminated, skipped>>

\* Mutant: the loop does not look at m_bExit.
Loop_NoExit(i) == /\ Thread(i, "loop", "sound")
                  /\ UNCHANGED <<m_handle, m_ExitKeeper, m_bExit, made, apc, terminated, skipped>>

\* while(!m_bExit): OnAlarm is the business of the listener, which returns to the loop.
Loop(i) == /\ Thread(i, "loop", IF m_bExit THEN "ranout" ELSE "sound")
           /\ UNCHANGED <<m_handle, m_ExitKeeper, m_bExit, made, apc, terminated, skipped>>

Sounded(i) == /\ Thread(i, "sound", "loop")
              /\ UNCHANGED <<m_handle, m_ExitKeeper, m_bExit, made, apc, terminated, skipped>>

\* RanOut: XLSimpleThreads::Destroy, on what handle there is ...
RanOut(i) == /\ \/ Thread(i, "ranout", "give") /\ m_handle = 0 /\ UNCHANGED terminated
                \/ /\ Thread(i, "ranout", "ended")
                   /\ m_handle = i
                   /\ terminated' = TRUE
                \/ Thread(i, "ranout", "join") /\ m_handle \notin {0, i} /\ UNCHANGED terminated
             /\ UNCHANGED <<m_handle, m_ExitKeeper, m_bExit, made, apc, skipped>>

\* ... and m_ExitKeeper.Give()
GiveBack(i) == /\ Thread(i, "give", "ended")
               /\ m_ExitKeeper' = m_ExitKeeper + 1
               /\ UNCHANGED <<m_handle, m_bExit, made, apc, terminated, skipped>>

ThreadStep(i) == Check(i) \/ Keep(i) \/ Loop(i) \/ RanOut(i) \/ GiveBack(i)

Next == \/ SetAlarm \/ SetStep \/ Reset
        \/ \E i \in Threads : ThreadStep(i) \/ Sounded(i)

Spec == Init /\ [][Next]_vars

--------------------------------------------------------------------------------
\* A thread inside the part that m_ExitKeeper guards
Inside(i) == tpc[i] \in {"loop", "sound"}

(* Every variable has its type, and m_ExitKeeper does what it is for: one     *)
(* thread at most is in its loop, and there is no permit then                 *)
(* (XLAlarm.cpp:19-59).                                                       *)
TypeOK == /\ m_handle \in 0..made /\ made \in 0..MaxThreads
          /\ m_ExitKeeper \in 0..1 /\ m_bExit \in BOOLEAN /\ terminated \in BOOLEAN
          /\ apc \in {"out", "keeper", "give", "create", "assign"}
          /\ tpc \in [Threads -> {"none", "started", "keeper", "loop", "sound", "ranout", "give",
                                  "join", "ended"}]
          /\ skipped \subseteq Threads
          /\ \A i, j \in Threads : Inside(i) /\ Inside(j) => i = j
          /\ \A i \in Threads : Inside(i) => m_ExitKeeper = 0
================================================================================
