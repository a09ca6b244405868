------------------------------ MODULE CScheduler ------------------------------
(***************************************************************************)
(* Scheduler.cpp: an event thread whose XLAlarm should have it look at its *)
(* jobs every few seconds, over several calls of Start and Stop.           *)
(*                                                                         *)
(* The alarm is XLAlarm.  OnAlarm, on the alarm's thread, takes m_AlarmSem *)
(* (one permit, Create(0, 1)), puts ALARM_INPUT and goes on; AlarmInput,   *)
(* on the scheduler's thread, gives it back.  The event thread is          *)
(* XLEventThread, with its start and its end in fewer steps: what one life *)
(* leaves to the next is mExit and the events in the list, which the new   *)
(* semaphore does not count.  One caller calls Start, SetJob and Stop.     *)
(*                                                                         *)
(* AlarmInput is a step here and no more: the models' result is that it is *)
(* never called, whatever the jobs and the time are.                       *)
(***************************************************************************)
EXTENDS Integers, Sequences

CONSTANTS mMaxSize,     \* of the event queue
          MaxThreads,   \* bound on the alarm threads
          MaxLives,     \* bound on the calls of Start
          MaxJobs       \* bound on the calls of SetJob

ASSUME BoundsAssumption == /\ mMaxSize \in Nat /\ MaxThreads \in Nat
                           /\ MaxLives \in Nat /\ MaxJobs \in Nat

Events == {"Exit", "ADD_A_JOB", "ALARM_INPUT"}

VARIABLES m_handle, m_ExitKeeper, m_bExit, made, apc, tpc, terminated, skipped,   \* XLAlarm
          m_AlarmSem,                           \* record [created, permits]
          qCreated, mSem, mQ,                   \* XLEventQueue
          mExit, event, epc,                    \* XLEventThread and its thread
          spc,                                  \* the caller: place in Start or Stop
          put,                                  \* alarm threads: place in OnAlarm
          lives, jobs,
          stopped,                              \* Stop has reset the alarm, and Start has not set it
          handled                               \* history: the events handled

alarm == <<m_handle, m_ExitKeeper, m_bExit, made, apc, tpc, terminated, skipped>>
queue == <<qCreated, mSem, mQ>>
thread == <<mExit, event, epc, handled>>
counters == <<lives, jobs, stopped>>
vars == <<alarm, m_AlarmSem, queue, thread, spc, put, counters>>

Alarm == INSTANCE XLAlarm
AlarmThreads == 1..MaxThreads

Init == /\ Alarm!Init
        /\ m_AlarmSem = [created |-> FALSE, permits |-> 0]
        /\ qCreated = FALSE /\ mSem = 0 /\ mQ = <<>>
        /\ mExit = FALSE /\ event = "Exit" /\ epc = "none" /\ handled = {}
        /\ spc = "out" /\ lives = 0 /\ jobs = 0 /\ stopped = FALSE
        /\ put = [i \in AlarmThreads |-> "out"]

Caller(from, to) == ~terminated /\ spc = from /\ spc' = to
Thread(from, to) == ~terminated /\ epc = from /\ epc' = to

\* Put, whose result nobody looks at: false if the queue is full or not created
Put(e) == IF qCreated /\ Len(mQ) < mMaxSize
          THEN mQ' = Append(mQ, e) /\ mSem' = mSem + 1
          ELSE UNCHANGED <<mQ, mSem>>

--------------------------------------------------------------------------------
\* Start: XLEventThread::Create starts the thread ...
Start == /\ Caller("out", "create")
         /\ lives < MaxLives
         /\ lives' = lives + 1
         /\ epc' = "begin"
         /\ UNCHANGED <<alarm, m_AlarmSem, queue, mExit, event, handled, put, jobs, stopped>>

\* ... and makes the queue; m_AlarmSem.Create(0,1) ...
StartQueue == /\ Caller("create", "set")
              /\ qCreated' = TRUE /\ mSem' = 0
              /\ m_AlarmSem' = [created |-> TRUE, permits |-> 1]
              /\ UNCHANGED <<alarm, mQ, thread, put, counters>>

\* ... and m_Alarm.SetAlarm begins, and has returned.
StartAlarm == /\ Caller("set", "alarm")
              /\ Alarm!SetAlarm
              /\ stopped' = FALSE
              /\ UNCHANGED <<m_AlarmSem, queue, thread, put, lives, jobs>>

AlarmCall == /\ spc = "alarm"
             /\ Alarm!SetStep
             /\ UNCHANGED <<m_AlarmSem, queue, thread, spc, put, counters>>

StartReturn == /\ Caller("alarm", "up")
               /\ apc = "out"
               /\ UNCHANGED <<alarm, m_AlarmSem, queue, thread, put, counters>>

SetJob == /\ Caller("up", "up")
          /\ jobs < MaxJobs
          /\ jobs' = jobs + 1
          /\ Put("ADD_A_JOB")
          /\ UNCHANGED <<alarm, m_AlarmSem, qCreated, thread, put, lives, stopped>>

\* Stop: m_Alarm.Reset() ...
Stop == /\ Caller("up", "reset")
        /\ Alarm!Reset
        /\ stopped' = TRUE
        /\ UNCHANGED <<m_AlarmSem, queue, thread, put, lives, jobs>>

\* ... m_AlarmSem.Destroy() ...
StopSem == /\ Caller("reset", "exit")
           /\ m_AlarmSem' = [created |-> FALSE, permits |-> 0]
           /\ UNCHANGED <<alarm, queue, thread, put, counters>>

\* ... StopMainLoop, and Destroy, which joins the thread.
StopExit == /\ Caller("exit", "join")
            /\ Put("Exit")
            /\ UNCHANGED <<alarm, m_AlarmSem, qCreated, thread, put, counters>>

StopJoin == /\ Caller("join", "out")
            /\ epc \in {"gone", "ended"}
            /\ qCreated' = FALSE /\ mSem' = 0
            /\ UNCHANGED <<alarm, m_AlarmSem, mQ, thread, put, counters>>

CallerStep == StartQueue \/ StartAlarm \/ AlarmCall \/ StartReturn \/ StopSem \/ StopExit \/ StopJoin

--------------------------------------------------------------------------------
\* The thread enters its loop, or is gone if mCreated is not set yet.
Begin == /\ \/ Thread("begin", "gone") /\ spc = "create"
            \/ Thread("begin", "loop") /\ spc # "create"
            \/ Thread("begin", "stuck") /\ spc = "join"
         /\ UNCHANGED <<alarm, m_AlarmSem, queue, mExit, event, handled, spc, put, counters>>

Loop == /\ Thread("loop", IF mExit THEN "ended" ELSE "get")
        /\ UNCHANGED <<alarm, m_AlarmSem, queue, mExit, event, handled, spc, put, counters>>

Get == /\ Thread("get", "on")
       /\ mSem > 0
       /\ mSem' = mSem - 1
       /\ event' = Head(mQ)
       /\ mQ' = Tail(mQ)
       /\ UNCHANGED <<alarm, m_AlarmSem, qCreated, mExit, handled, spc, put, counters>>

\* The Exit; ADD_A_JOB, whose time is lost (SetJob); AlarmInput, which gives m_AlarmSem
\* back if it is created still
OnEvent == /\ Thread("on", "loop")
           /\ handled' = handled \cup {event}
           /\ mExit' = (mExit \/ event = "Exit")
           /\ m_AlarmSem' = IF event = "ALARM_INPUT" /\ m_AlarmSem.created
                            THEN [m_AlarmSem EXCEPT !.permits = @ + 1] ELSE m_AlarmSem
           /\ UNCHANGED <<alarm, queue, event, spc, put, counters>>

ThreadStep == Begin \/ Loop \/ Get \/ OnEvent

--------------------------------------------------------------------------------
\* OnAlarm: m_AlarmSem.Take(), which does nothing if it is not created ...
OnAlarm(i) == /\ ~terminated /\ tpc[i] = "sound" /\ put[i] = "out"
              /\ put' = [put EXCEPT ![i] = IF m_AlarmSem.created THEN "take" ELSE "put"]
              /\ UNCHANGED <<alarm, m_AlarmSem, queue, thread, spc, counters>>

\* ... and waits for the permit otherwise ...
OnAlarmTake(i) == /\ ~terminated /\ put[i] = "take"
                  /\ m_AlarmSem.permits > 0
                  /\ m_AlarmSem' = [m_AlarmSem EXCEPT !.permits = @ - 1]
                  /\ put' = [put EXCEPT ![i] = "put"]
                  /\ UNCHANGED <<alarm, queue, thread, spc, counters>>

\* ... and Put
OnAlarmPut(i) == /\ put[i] = "put"
                 /\ put' = [put EXCEPT ![i] = "out"]
                 /\ Alarm!Sounded(i)
                 /\ Put("ALARM_INPUT")
                 /\ UNCHANGED <<m_AlarmSem, qCreated, thread, spc, counters>>

AlarmRun(i) == Alarm!ThreadStep(i) /\ UNCHANGED <<m_AlarmSem, queue, thread, spc, put, counters>>

AlarmStep(i) == OnAlarm(i) \/ OnAlarmTake(i) \/ OnAlarmPut(i) \/ AlarmRun(i)

Next == \/ Start \/ SetJob \/ Stop \/ CallerStep
        \/ ThreadStep
        \/ \E i \in AlarmThreads : AlarmStep(i)

Spec == Init /\ [][Next]_vars

\* The threads are scheduled; nothing forces a call.
FairSpec == /\ Spec
            /\ WF_vars(CallerStep) /\ WF_vars(ThreadStep)
            /\ \A i \in AlarmThreads : WF_vars(AlarmStep(i))

--------------------------------------------------------------------------------
SemTyped == m_AlarmSem \in [created : BOOLEAN, permits : 0..1]

QueueTyped == /\ qCreated \in BOOLEAN /\ mSem \in Nat
              /\ mQ \in Seq(Events) /\ Len(mQ) <= mMaxSize /\ mSem <= Len(mQ)

ThreadTyped == /\ mExit \in BOOLEAN /\ event \in Events /\ handled \subseteq Events
               /\ epc \in {"none", "begin", "loop", "get", "on", "gone", "stuck", "ended"}

CallerTyped == /\ spc \in {"out", "create", "set", "alarm", "up", "reset", "exit", "join"}
               /\ lives \in 0..MaxLives /\ jobs \in 0..MaxJobs /\ stopped \in BOOLEAN

\* A thread is in OnAlarm only where XLAlarm sounds.
SoundTyped == /\ put \in [AlarmThreads -> {"out", "take", "put"}]
              /\ \A i \in AlarmThreads : put[i] # "out" => tpc[i] = "sound"

(* Every variable has its type; the alarm's are those of XLAlarm, whose       *)
(* keeper lets one thread at a time into the loop, and a thread is in OnAlarm *)
(* only from there.                                                           *)
TypeOK == Alarm!TypeOK /\ SemTyped /\ QueueTyped /\ ThreadTyped /\ CallerTyped /\ SoundTyped

(* No ALARM_INPUT is ever handled, in any number of lives (Scheduler.cpp:     *)
(* 15-36, 100-132, XLAlarm.cpp:10, 35-59, XLEventThread.cpp:65-96): the alarm *)
(* of the first life never sounds, a later one can be set only if the first   *)
(* thread skipped its program, and by then the event thread has an Exit       *)
(* behind or before it.                                                       *)
AlarmNeverHandled == /\ "ALARM_INPUT" \notin handled
                     /\ made > 1 => 1 \in skipped

(* A thread that sounds the alarm when Stop resets it takes the program with  *)
(* it, unless it waits for an m_AlarmSem that Stop has destroyed, or to join  *)
(* a later thread, which has the handle by now, or Start sets the alarm again *)
(* (XLAlarm.cpp:50-59).                                                       *)
ResetTerminatesUnless == \A i \in AlarmThreads :
    (stopped /\ tpc[i] \in {"loop", "sound"}) ~>
        (\/ terminated \/ ~stopped
         \/ put[i] = "take" /\ ~m_AlarmSem.created
         \/ tpc[i] = "join" /\ m_handle > i)
================================================================================
