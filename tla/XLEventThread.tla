----------------------------- MODULE XLEventThread -----------------------------
(***************************************************************************)
(* XLEventThread.cpp: a thread (Th) that reads an event queue and handles  *)
(* one event after the other until it reads an Exit.  The server, the      *)
(* client and the scheduler derive from it.                                *)
(*                                                                         *)
(* The owner calls Create, StopMainLoop and Destroy; any thread may Put.   *)
(* Create starts the thread before it makes the queue and sets mCreated,   *)
(* which the thread looks at once, as it begins.                           *)
(*                                                                         *)
(* Put and Get are single steps, as XLEventQueue shows they may be.  From  *)
(* one life of the object to the next three things stay as they were left: *)
(* the unread elements (not counted by the new semaphore), mExit and       *)
(* mEvent.                                                                 *)
(***************************************************************************)
EXTENDS Integers, Sequences

CONSTANTS mMaxSize,
          MaxPuts,      \* bound on the events put
          MaxStops,     \* bound on the calls of StopMainLoop
          MaxLives      \* bound on the calls of Create

ASSUME BoundsAssumption == /\ mMaxSize \in Nat /\ MaxPuts \in Nat
                           /\ MaxStops \in Nat /\ MaxLives \in Nat

This == "this"          \* the one object
Exit == 0               \* XLEventThreadEventType_Exit
Events == 1..MaxPuts

VARIABLES m_handle, m_Sync1, m_Sync2, tpc, opc,         \* XLSimpleThreads
          qCreated, mSem, mQ,                           \* XLEventQueue
          mCreated, mExit, mEvent,
          mpc,          \* the owner: place in Create or Destroy
          rpc,          \* the thread: place in RunProgram
          puts, stops, lives,
          handled,      \* history: the events given to t_OnEvent, in order
          left,         \* history: the elements this life found in the list
          stopped       \* history: the last event put before this life's first Exit, or -1

thread == <<m_handle, m_Sync1, m_Sync2, tpc, opc>>
queue == <<qCreated, mSem, mQ, left>>
loop == <<mExit, mEvent, rpc, handled>>
counters == <<puts, stops, lives, stopped>>
vars == <<thread, queue, mCreated, loop, mpc, counters>>

Th == INSTANCE XLSimpleThreads WITH Objects <- {This}

Init == /\ Th!Init
        /\ qCreated = FALSE /\ mSem = 0 /\ mQ = <<>> /\ left = 0
        /\ mCreated = FALSE /\ mExit = FALSE /\ mEvent = Exit
        /\ mpc = "out" /\ rpc = "none"
        /\ puts = 0 /\ stops = 0 /\ lives = 0
        /\ handled = <<>> /\ stopped = -1

Owner(from, to) == mpc = from /\ mpc' = to
Thread(from, to) == tpc[This] = "run" /\ rpc = from /\ rpc' = to

--------------------------------------------------------------------------------
\* Create: XLSimpleThreads::Create begins ...
CreateThread == /\ Owner("out", "create")
                /\ lives < MaxLives
                /\ lives' = lives + 1
                /\ stopped' = -1
                /\ Th!CreateStart(This)
                /\ UNCHANGED <<queue, mCreated, loop, puts, stops>>

\* ... and has returned; XLEventQueue::Create
CreateQueue == /\ Owner("create", "mark")
               /\ opc[This] = "idle"
               /\ qCreated' = TRUE
               /\ mSem' = 0
               /\ left' = Len(mQ)
               /\ UNCHANGED <<thread, mQ, mCreated, loop, counters>>

\* mCreated = true
CreateMark == /\ Owner("mark", "up")
              /\ mCreated' = TRUE
              /\ UNCHANGED <<thread, queue, loop, counters>>

--------------------------------------------------------------------------------
\* Mutant: the element is linked and the semaphore not given.
Accept_NoGive(e) == /\ Len(mQ) < mMaxSize
                    /\ mQ' = Append(mQ, e)
                    /\ UNCHANGED <<qCreated, mSem, left>>

\* Put(e) with room in the list, and without
Accept(e) == /\ Len(mQ) < mMaxSize
             /\ mQ' = Append(mQ, e)
             /\ mSem' = mSem + 1
             /\ UNCHANGED <<qCreated, left>>

Refuse == Len(mQ) >= mMaxSize /\ UNCHANGED queue

\* Any thread, at any time, to a queue that is created.
Put == /\ qCreated
       /\ puts < MaxPuts
       /\ puts' = puts + 1
       /\ Accept(puts + 1) \/ Refuse
       /\ UNCHANGED <<thread, mCreated, loop, mpc, stops, lives, stopped>>

\* StopMainLoop, which does not look at the result of Put.
StopMainLoop == /\ mpc = "up"
                /\ stops < MaxStops
                /\ stops' = stops + 1
                /\ \/ /\ Accept(Exit)
                      /\ stopped' = IF stopped = -1 THEN puts ELSE stopped
                   \/ Refuse /\ UNCHANGED stopped
                /\ UNCHANGED <<thread, mCreated, loop, mpc, puts, lives>>

--------------------------------------------------------------------------------
\* Destroy: XLSimpleThreads::Destroy begins ...
DestroyThread == /\ Owner("up", "destroy")
                 /\ Th!DestroyStart(This)
                 /\ UNCHANGED <<queue, mCreated, loop, counters>>

\* Mutant: the queue is destroyed before the thread is joined.
DestroyQueue_First == /\ Owner("destroy", "unmark")
                      /\ qCreated' = FALSE
                      /\ mSem' = 0
                      /\ UNCHANGED <<thread, mQ, left, mCreated, loop, counters>>

\* ... and has returned; XLEventQueue::Destroy, which leaves the elements
DestroyQueue == /\ Owner("destroy", "unmark")
                /\ opc[This] = "idle"
                /\ qCreated' = FALSE
                /\ mSem' = 0
                /\ UNCHANGED <<thread, mQ, left, mCreated, loop, counters>>

DestroyUnmark == /\ Owner("unmark", "out")
                 /\ mCreated' = FALSE
                 /\ UNCHANGED <<thread, queue, loop, counters>>

--------------------------------------------------------------------------------
Return == rpc' = "none" /\ Th!RunReturns(This)

\* RunProgram: nothing at all if mCreated is not set yet
Enter == /\ tpc[This] = "run" /\ rpc = "none"
         /\ \/ mCreated /\ rpc' = "loop" /\ UNCHANGED thread
            \/ ~mCreated /\ Return
         /\ UNCHANGED <<queue, mCreated, mExit, mEvent, handled, mpc, counters>>

\* while(!mExit); Get finds the queue created, which outlives the thread.
Loop == /\ tpc[This] = "run" /\ rpc = "loop"
        /\ \/ ~mExit /\ rpc' = "get" /\ UNCHANGED thread
           \/ mExit /\ Return
        /\ UNCHANGED <<queue, mCreated, mExit, mEvent, handled, mpc, counters>>

\* Get(&mEvent)
Get == /\ Thread("get", "on")
       /\ mSem > 0
       /\ mSem' = mSem - 1
       /\ mEvent' = Head(mQ)
       /\ mQ' = Tail(mQ)
       /\ UNCHANGED <<thread, qCreated, left, mCreated, mExit, handled, mpc, counters>>

\* Mutant: the Exit is read and the loop goes on.
OnEvent_NoExit == /\ Thread("on", "loop")
                  /\ handled' = IF mEvent = Exit THEN handled ELSE Append(handled, mEvent)
                  /\ UNCHANGED <<thread, queue, mCreated, mExit, mEvent, mpc, counters>>

OnEvent == /\ Thread("on", "loop")
           /\ \/ mEvent = Exit /\ mExit' = TRUE /\ UNCHANGED handled
              \/ mEvent # Exit /\ handled' = Append(handled, mEvent) /\ UNCHANGED mExit
           /\ UNCHANGED <<thread, queue, mCreated, mEvent, mpc, counters>>

--------------------------------------------------------------------------------
\* The steps of XLSimpleThreads: of a Create or Destroy under way, and of the thread.
ThreadCall == Th!OwnerStep(This) /\ UNCHANGED <<queue, mCreated, loop, mpc, counters>>

ThreadRun == Th!ThreadStep(This) /\ UNCHANGED <<queue, mCreated, loop, mpc, counters>>

OwnerStep == CreateQueue \/ CreateMark \/ DestroyQueue \/ DestroyUnmark \/ ThreadCall

LoopStep == Enter \/ Loop \/ Get \/ OnEvent \/ ThreadRun

Next == \/ CreateThread \/ StopMainLoop \/ DestroyThread \/ OwnerStep
        \/ Put
        \/ LoopStep

Spec == Init /\ [][Next]_vars

\* Both threads are scheduled and t_OnEvent returns; nothing forces a call.
FairSpec == Spec /\ WF_vars(OwnerStep) /\ WF_vars(LoopStep)

--------------------------------------------------------------------------------
\* Where the owner and the thread are, and the flags
PlacesTyped == /\ qCreated \in BOOLEAN /\ mCreated \in BOOLEAN /\ mExit \in BOOLEAN
               /\ mpc \in {"out", "create", "mark", "up", "destroy", "unmark"}
               /\ rpc \in {"none", "loop", "get", "on"}

\* The queue, the events and the counters
ValuesTyped == /\ mSem \in Nat /\ left \in 0..mMaxSize
               /\ mQ \in Seq(Events \cup {Exit}) /\ handled \in Seq(Events)
               /\ mEvent \in Events \cup {Exit} /\ stopped \in -1..MaxPuts
               /\ puts \in 0..MaxPuts /\ stops \in 0..MaxStops /\ lives \in 0..MaxLives

(* Every variable has its type, and the thread is inside RunProgram only      *)
(* where XLSimpleThreads has called it.                                       *)
TypeOK == Th!TypeOK /\ PlacesTyped /\ ValuesTyped /\ (rpc # "none" => tpc[This] = "run")

(* The queue outlives the thread that reads it (XLEventThread.cpp:25-34,      *)
(* 46-49): whenever the thread is in its loop the queue is created, and the   *)
(* list holds an element for each permit, next to those this life has found   *)
(* in it.                                                                     *)
QueueOutlivesThread == /\ rpc # "none" => qCreated /\ mCreated
                       /\ qCreated => Len(mQ) = mSem + left

(* Nothing that was put behind an Exit is handled in that life                *)
(* (XLEventThread.cpp:71-96): the Exit ends the loop for good.                *)
ExitIsLast == stopped >= 0 => \A i \in 1..Len(handled) : handled[i] <= stopped

--------------------------------------------------------------------------------
\* Elements of an earlier life, which the semaphore does not count
Stranded == left > 0

\* The thread waits for ever in the Take of an m_Sync1 that was destroyed.
Stuck == tpc[This] = "take1" /\ ~m_Sync1[This].created

\* The thread has left RunProgram, or skipped it.
Gone == tpc[This] \in {"give2", "ended", "none"}

(* Destroy returns if an Exit is in the queue, unless the thread is stuck in  *)
(* its first Take, or there are elements of an earlier life before the Exit   *)
(* (XLEventThread.cpp:42-62).                                                 *)
DestroyReturnsUnless ==
    (mpc = "destroy" /\ stopped >= 0) ~> (mpc # "destroy" \/ Stuck \/ Stranded)

(* An event that is accepted is handled, unless an Exit was before it, the    *)
(* thread is stuck, has left its loop or never entered it, or there are       *)
(* elements of an earlier life (XLEventThread.cpp:65-96).                     *)
EventHandledUnless == \A e \in Events :
    (\E i \in 1..Len(mQ) : mQ[i] = e) ~> (\/ \E i \in 1..Len(handled) : handled[i] = e
                                          \/ Stuck \/ Gone \/ Stranded)
================================================================================
