# Verification of ServerClient

TLA+ models of the ServerClient library (`src/ServClientLibrary`), TLC runs that
check them on small instances, and TLAPS proofs of the main results for every
value of the constants.

The library is a C++ client/server framework: services that accept clients,
exchange events with them and broadcast, built on event threads, which are built
on an event queue, which is built on a lock-free list and a semaphore.  It runs
many threads against state shared by a few coarse conventions, and the models
are about that: who waits for whom, what order things happen in, and what a
`Create` or a `Destroy` does while another thread is in the middle of a call.

The modelled build is the one `XLDependency.h:11-20` selects: C++11 on UNIX.
The Windows and pthread branches and the SSL classes are compiled out of it.

## 1. Inventory

| Component | Sources | State it keeps | Operations | Module |
|---|---|---|---|---|
| Semaphore | `XLSemaPhore` | `mMaxCount`, `mSemCount`, a mutex and a condition variable | Create, Take, Try, Give, Destroy | `XLSemaPhore` |
| Lock-free list | `LockFreeQueue.h` | a `std::list`, `mHead`, `mTail`, `mMaxSize` | push, pop | `XLLFQ` |
| Event queue | `XLEventQueue` | two mutexes, a semaphore, a list, `mEvent`, `mCreated` | Create, Put, Get, Destroy | `XLEventQueue` |
| Threads | `XLSimpleThreads` | `m_handle`, `m_Sync1`, `m_Sync2` | Create, Destroy, the thread's own start and end | `XLSimpleThreads` |
| Event thread | `XLEventThread` | a thread, a queue, `mCreated`, `mExit`, `mEvent` | Create, StopMainLoop, Destroy, the event loop | `XLEventThread` |
| Thread pool | `XLThreadPool` | `m_ThreadList`, `m_JobQueue`, `m_ThCountGate`, the workers' `m_Allocator` and `m_bWorking` | Create, AddJob, Destroy, the workers' loop | `XLThreadPool` |
| Mutex | `XLMutex` | `m_MutexHandle`, a recursive mutex, the owner's count | Create, Lock, Unlock, TryLock, Destroy | within the queue and the pool |
| Demo program | `Main.cpp` | - | creates a pool, adds jobs, destroys it | the owner and the clients of `XLThreadPool` |
| Alarm | `XLAlarm`, `XLMultiAlarm` | `m_ExitKeeper`, `m_bExit`, a thread's handle | SetAlarm, Reset, RanOut, the alarm's loop | `XLAlarm` |
| Scheduler | `Scheduler`, `SchedulerJobs.h` | `m_AlarmSem`, jobs by day and time, an alarm, an event thread | Start, Stop, SetJob, OnAlarm, AlarmInput | `CScheduler` |
| Server | `XLServer`, `XLServingThread`, `XLAcceptorThread` | a service, its acceptor, alarm and socket, `m_IncomingQueue`, `m_ClientIDs` | StartAService, StopAService, Broadcast, the serving thread's events, the acceptor's loop | `XLServer` |
| Client | `XLClient`, `XLClientThread`, `XLListeningThread` | `m_Client`, `m_Gatekeeper`, a listener with `m_bExit` and `m_Event` | Start, Stop, the client thread's events, the listener's loop | `XLClient` |
| Sockets | `XLSocket`, `XLBaseSocket`, `SocketUtility` | descriptor, status | connect, bind, accept, send, receive, close | within the server and the client |
| Smart pointers | `XLAutoPtr.h` | `m_iCount`, `m_pData` of a shared counter | SetData, copy, assign, destroy | `XLAutoPtr` |
| Events and messages | `XLEvents.h`, `XLClientServerMessages.h` | type, length, payload | ReadFrom, WriteTo | `ReadFrom` and the lengths within the client; values elsewhere |
| Lists, observers | `LinkedList.h`, `IObserver.h` | nodes, iterators, observers | insert, delete, iterate, notify | not modelled: nothing uses them |
| Receiving pool, SSL, library interface, interpreters | see PROJECT.json | - | - | not modelled: unused, compiled out, or without behaviour |

How they interact.  A `Put` on an event queue locks the writers' end, copies its
argument to the member `mEvent`, pushes it to the list, unlocks, and gives the
semaphore; a `Get` takes the semaphore, locks the readers' end only if the queue
has several readers, and pops.  An event thread has one queue and one thread that
reads it; the serving thread, the client thread and the scheduler derive from
it.  The thread pool has one queue and many readers.  Acceptor, listener and
alarm are plain threads that put events into their owner's queue.  All of them
start and end in `XLSimpleThreads`.  Sockets and event buffers are held by shared
pointers, whose copies travel with the events from thread to thread.

What is hard:

* *Interleaving.*  The list is written under a lock and read without it: push
  erases up to a head that pop moves.  Put gives the semaphore outside its lock.
* *Starting.*  `XLSimpleThreads::Create` starts the thread before it assigns the
  handle, and every class above it assigns more after that: `m_Allocator` in the
  pool, `mCreated` in the event thread.  `m_Sync1` should hold the thread back
  and does not, because `Create(0, 1)` in this build is a permit.
* *Stopping.*  `Destroy` destroys `m_Sync1` under a thread that may be inside
  its `Take`.  Exits travel through bounded queues whose refusal nobody looks at.
  `StopAService` deletes, on the caller's thread, what the serving thread and the
  acceptor use; `XLClient::Stop` joins a thread to which nobody has sent an Exit;
  the alarm's `RanOut` joins itself.
* *Second lives.*  `Destroy` leaves the list's elements, `mExit` and
  `m_ThreadList` as they were, and the next `Create` builds on them.
* *Numbers.*  The semaphore counts inversely to its names: `Create(1, 1)`, which
  three classes use for a gate, has no permit.  The list holds one consumed node,
  so its bound could be off by one in two directions.  The listener's event is as
  long as the whole receive buffer.
* *Sharing.*  Reference counts are plain ints, and the deletion of a counter is a
  test apart from the decrement.
* *Failure.*  A failed accept or receive is taken for a success.

PROJECT.json lists each hazard at its line, with the properties that cover it or
the reason why none does.  A hazard that a liveness property only names among its
exceptions is not counted as covered: the property shows that the exception is one
of a few, and would not notice if it went away.

## 2. Modules

    CountingSemaphore   what a semaphore promises       BoundedFifo   what a queue promises
          ^ implements                                      ^ implements (twice)
    XLSemaPhore                                         XLLFQ   XLEventQueue (uses CountingSemaphore)
                                                                    ^ used as BoundedFifo
    XLSimpleThreads  <----- INSTANCE Th -----  XLThreadPool
                     <----- INSTANCE Th -----  XLEventThread
    Broadcasting  <--- implements ---  XLServer     XLClient     (both use BoundedFifo)
    XLAlarm  <-------- INSTANCE Alarm ---  CScheduler
    XLAutoPtr

Each level stands on what the one below has been shown to implement.
`XLSemaPhore` is refined to `CountingSemaphore`, and `XLEventQueue` uses that;
`XLEventQueue` is refined to `BoundedFifo`, and pool, server and client use that for
their queues.  What `XLEventThread` and `XLSimpleThreads` do at a thread's start and
end, server, client and scheduler have in fewer steps: a thread begins, or is gone
because it looked before `mCreated` or `m_handle` was set, or is stuck because it
was destroyed in its first `Take`.  The spawn of a thread and the assignment of its
handle are two steps (`CreateSpawn` and `CreateAssign`, `SetCreate` and `SetAssign`,
`StartAcceptor` or `OnStartThread` and `AssignHandle`): between them the thread may
skip its program, and a `Stop` may find no thread to join.  For the event threads of
server, client and scheduler that window lies within the one before `mCreated`.

**XLSemaPhore.**  Any number of threads in `Take` and `Give`, over several
creations of the object (`Try` takes the steps of `Take`, and is called by
`XLMutex::TryLock` alone, which nobody calls).  `Take` is three steps (lock; test and wait; count down
and unlock) and `Give` three (lock; count; notify and unlock), because a wakeup
can be lost only between them.  A thread in the condition variable's wait set
leaves it by a notify or on its own (`SpuriousWakeup`).  A `Take` that arrives
between a notify and the reacquisition of the mutex may take the permit first.
Create and Destroy happen when no call is under way (`Quiescent`, here and in
XLEventQueue an assumption about the callers and no translation), except in
XLSimpleThreads, which therefore has a semaphore model of its own.

**XLLFQ.**  One writer, one reader, every access to the list a step: erase, size,
link; next, advance, copy.  (Its `ListInit`, `ListNext`, `ListSpec` are named so that
one proof module can extend it together with the semaphore.)  Nodes have identities, and an erased one is `Freed`,
so that reading it shows.  Its refinement maps the list to its unread elements;
a push that is refused is a stutter that saw the queue full at its erase.

**XLEventQueue.**  Several writers and readers, each lock, the staging in
`mEvent`, the two halves of push, the Give, the Take and the pop as steps.
Which ends are locked is a constant, as in `Create(properties)`; an end that is
not locked has one thread (`PropertiesAssumption`), which is what the class's
comment requires (`XLEventQueue.h:12-13`).  The elements that a Destroy leaves
are `stranded`: the next life's semaphore does not count them.

**XLSimpleThreads.**  `CreateStart .. CreateGive` is `Create`, `DestroyStart ..
DestroyJoin` is `Destroy`, `TakeTest .. Finish` is `RunSimpleThread`; `RunProgram`
is left to the module that instantiates it, which acts while `tpc` is "run" and
leaves with `RunReturns`.  `m_Sync1.Take()` is two steps, since the test of
`IsCreated` is outside the lock: a thread between them when `Destroy` resets the
semaphore waits for ever.

**XLThreadPool.**  An owner that creates the pool and destroys it, as often as it
likes, clients that call `AddJob`, and the workers.  Both kinds of pool are
initial states.  The size of `m_ThreadList` is read once outside the gate and once
under it.  A call through the unassigned `m_Allocator` ends the program
(`crashed`).  The queue is a `BoundedFifo`, new in each life, whose `Full` refusal
AddJob and Destroy ignore, as the code does.  `m_ThreadList` is not cleared:
`born` is its size when this life began, a static pool puts its workers behind
those (`Present`), a dynamic pool that finds it full makes none (`Outlived`), and
Destroy puts an Exit for every element, dead ones included.

**XLEventThread.**  The owner's `Create`, `StopMainLoop` and `Destroy`, any
thread's `Put`, and the loop, over several lives of the object.  `Put` and `Get`
are single steps, which the refinement of XLEventQueue permits.  `left` is the
number of elements a life has found in the list.

**XLServer.**  One service from `StartAService` to `StopAService`: the caller, the
serving thread, the acceptor, and clients that connect and close at will.
`OnAccept` is two steps (the socket into `m_IncomingQueue`, the event into the
queue) and each welcome or broadcast a step per client.  A listener that could
not be made is a choice; then accept fails at once and the descriptor -1 is taken
for a client.  Stop deletes the acceptor, one without a handle unjoined
(`AcceptorCreated`), and, because `XLServingThread.cpp:110`
adopts the socket with a second shared pointer, the socket; `ended` records that
the program was terminated or has used destroyed memory, after which no more is
said.  Every run of `StopAService` that gets to its end ends so
(`XLServer.cpp:93`).  The alarm's thread waits at its keeper or, if it has skipped its
program, ends the program in `RanOut` (`AlarmRanOut`).  `Broadcasting` is what a service promises: who joins is
welcomed first and hears every later broadcast once and in order.

**XLClient.**  A caller of `Start`, which waits in `m_Gatekeeper`, and one of
`Stop`; the client's event thread; the listening thread; a server that sends and
closes.  `Receive` takes what has arrived, or fails at once and is taken for a
success; `ReadFrom` is modelled by its length tests.  `deleted` says that `Stop`
has deleted the client thread under a `Start` that is still creating it.

**XLAlarm** and **CScheduler.**  The alarm: `SetAlarm` with its `Reset`, the
threads it makes, each with its start, its keeper, its loop and its `RanOut`.
What a thread does when it sounds is the listener's business, and `CScheduler`
supplies it: `OnAlarm` takes `m_AlarmSem`, puts ALARM_INPUT, returns.  The scheduler
has `Start`, `SetJob`, `Stop` and its event thread, over several lives.

**XLAutoPtr.**  Threads that set, copy, assign and destroy shared pointers, each
read and each write of the counter a step, as `m_iCount++` and `m_iCount--` are.
The test `m_iCount == 0` of `Release` is a step of its own (`Zero`) behind the write,
on the count written or on what another thread has made of it, for the build may or
may not read it again.
A pointer is used by one thread at a time (`Free`, `Stable`); its counter is not.
`overlapped` collects the counters two threads have been updating at a time, from
the read of a decrement up to the test of `Check` that deletes the counter:
making the counts alone atomic would leave that window, in which two threads may
both find the object gone and delete the counter twice.  `nullShared` collects
the counters of nothing that were copied, whose copies `AddRef` does not count.
The pointer that adopts an object a second time, as the serving thread's does,
is allowed as an input.

History variables (named so at their declaration) record what was put, refused,
read or handled; no guard reads them.

## 3. Runs

| Run | Instance | Shows |
|---|---|---|
| `semaphore` | 4 threads, the 3 arguments of Create in the program, at most 3 permits | no wakeup is lost (`NoLostWakeup`), a woken thread gets on (`WakeupDelivered`), a counting semaphore (`ImplementsSemaphore`) |
| `lock_free_queue` | 2 items, size 2, 5 pushes | the reader's node is never freed, an element is refused only if the queue was full, a bounded FIFO |
| `event_queue` | 2 writers, 2 readers, size 2, 4 Puts, any number of lives | the semaphore counts the elements, each accepted event is read once and in order, a bounded FIFO, every event is read |
| `thread_pool` | 2 workers, 2 clients, size 2, 3 jobs; a static pool, and the lives of a dynamic one | the number of workers, what Destroy leaves, Destroy returns and jobs run outside the named failures |
| `thread_pool_again` | a list of 4: a static pool of 2 workers created twice, 2 clients, 2 jobs, size 2 | the jobs of the second life run outside the same failures |
| `event_thread` | size 2, 3 events, 2 Exits, 2 lives | the queue outlives its thread, nothing behind an Exit is handled, Destroy returns and events are handled outside the named failures |
| `shared_pointer` | 2 threads, 3 pointers, 1 object, 2 counters, 4 copies | counts are exact, objects and counters go with the last pointer, and a crash has one of two causes |
| `server` | size 2, 2 sockets, 2 broadcasts, 2 connections | events match sockets, a service that broadcasts, clients are served and StopAService ends outside the named failures |
| `client` | size 2, 3 messages, 2 lives | nothing the server sends is heard, Start and Stop return only for a client that never ran, the listener is joined outside the named cases |
| `scheduler` | size 2, 3 alarm threads, 3 lives, 2 jobs | no alarm is ever handled, and resetting one that sounds ends the program outside the named cases |
| `pool_destroy_returns` | 2 workers, 1 client, 1 job, room for every Exit | *violated*: Destroy may never return |
| `pool_null_allocator` | 2 workers, 1 client, 1 job | *violated*: a worker may call through a null `m_Allocator` |

Why the bounds are enough.  Two writers and two readers are the least for which
the locks matter, and a third adds only a competitor for a lock; four threads on
the semaphore allow two sleepers, a barger and a giver at once.  Capacity 2 is
reached and exceeded in the runs of queue, pool, event thread and server (refusals
fire), and one more Put than that lets positions be reused.  Two workers make
Exits that one takes twice, or none takes, differ; two clients race for the last
worker.  Two lives show what a second `Create` finds; the scheduler has three,
because an alarm can be set again from the second on only, and what that leaves in
the list would be found by the third.  Two threads on three pointers allow a
copy, a release and a third owner at once; a second counter lets an object be
adopted twice.  Two sockets show the order in which clients join and leave, and
two broadcasts one that a client misses and one that it hears.  Every bound is a
CONSTANT in a guard (`MaxPuts`, `MaxPushes`, `MaxJobs`, `MaxStops`, `MaxLives`,
`MaxPermits`, `MaxWorkers`, `MaxBroadcasts`, `MaxConnects`, `MaxMessages`,
`MaxCopies`, `MaxThreads`, and `Counters` for the counters ever allocated), and
the proofs do without particular values of them.  `NConnection` is the program's own.
The symmetry of `shared_pointer` is over threads, pointers and counters, which no
definition tells apart, and that run has no liveness.

Deadlock is not checked where the program may really stop: threads blocked in
`Take`, `Get`, `accept` or `recv` with nobody left to wake them, and programs that
have ended.  The lock-free list never blocks, and there it is checked.

**Fairness.**  Threads that can take a step eventually do (weak fairness on each
thread's own steps): `std::thread`s are preemptively scheduled and no code path
spins on a lock.  Mutexes are not assumed fair; with weak fairness on the threads a
mutex that is released again and again might pass a waiter by for ever, and the
properties hold because the number of Puts is bounded.  Nothing forces a call or
the network: `Put`, `AddJob`, `StopMainLoop`, `Destroy`, `Start`, `Stop`,
`StopAService` may never happen, and neither may a client's connection or a
server's message.  Readers of the queue are in a loop (`XLThreadPool.cpp:44`,
`XLEventThread.cpp:71`), so their next call of `Get` is fair.  `Work()` and
`t_OnEvent` are taken to return.

**The liveness properties have named exceptions**, each a way in which the code
really fails; that there is no other is what the property says.

* `DestroyReturnsUnless` (pool): more Exits were refused by a full queue than
  there are dead workers to spare one each (`exitsLost > born`), a thread is stuck
  in its first `Take`, or the program crashed.
* `JobRuns`: every worker of this life was lost at its start, a second life of a
  dynamic pool found the list full (`Outlived`), or the program crashed.
* `DestroyReturnsUnless` (event thread, with an Exit in the queue): the thread is
  stuck, or an earlier life has left elements before the Exit.
* `EventHandledUnless`: the same two, or the thread has left its loop (by an Exit, or
  by the `mExit` of an earlier life) or never entered it.
* `ServedUnless`: the service is being stopped, its thread was gone from its start,
  or the program has ended.
* `StopEndsUnless`: the acceptor waits for one more client, or a thread is stuck.
* `ListenerJoinedUnless`: the listener waits for a server that neither sends nor
  closes, is stuck, or was deleted.
* `ResetTerminatesUnless`: the alarm's thread waits in `OnAlarm` for an `m_AlarmSem`
  that `Stop` has destroyed, or joins a later thread because `m_handle` is that one's
  by now (the later thread waits at the keeper, which takes three lives to come to),
  or `Start` has set the alarm again.

So a `Put` refused, a thread gone or stuck at its start, an `mExit` left over, a use
of what `StopAService` deleted, or a destroyed `m_AlarmSem` are named here and not
caught.  The same goes for the invariants of `XLAutoPtr`, which speak of counters
whose updates have not overlapped and of objects adopted once, and for the failed
accept or receive, which the models carry on with as the code does.

### Findings

1. `XLSimpleThreads.cpp:84`: `Destroy` is meant to wait for the thread
   (`m_Sync2.Take()`), but the semaphore has a permit from `Create(0, 1)`, so it
   goes on and resets `m_Sync1` while the thread may be between `IsCreated()` and
   the wait.  The thread then finds `0 >= 0` and waits on a condition variable
   that nobody notifies, and the join waits for it.  Run `pool_destroy_returns`.
2. `XLThreadPool.cpp:21-22`: the thread is started before `m_Allocator` is
   assigned, which the thread dereferences.  Run `pool_null_allocator`.

The passing runs state further facts of this kind, for which no document or test
says otherwise.  An event thread that runs before `mCreated` is set returns at
once (`XLEventThread.cpp:67`) and handles none of the events it accepts (`Gone` in
`EventHandledUnless`).  A client's `Start` and `Stop` return only if its event
thread was lost in that way, and then it never connected (`ReturnsOnlyIfGone`); what
the server sends never reaches `XLClient::OnEvent` (`OnlyBlankEvents`).  The
scheduler's alarm never has its listener look at a job (`AlarmNeverHandled`).
`StopAService` never ends well (`StopEndsUnless`).  A dynamic pool that is created
again makes no worker (`Outlived`).

## 4. Proofs

Theorems are in modules of their own next to the component.  They hold for any
finite sets of threads, any sizes and any bounds, under the named assumptions of
the component (`ThreadsAssumption`, `PropertiesAssumption`, `SizeAssumption`,
`BoundsAssumption` and the like), which TLC evaluates in the runs.

* **Primitives_proofs**, of the two modules everything else stands on.  Of
  `XLSemaPhore`: `TypeCorrect`, `WakeupsKept` (`NoLostWakeup`) and `Refinement`
  (`ImplementsSemaphore`).  `NoLostWakeup` counts: while somebody sleeps, there are at
  least as many threads under way (woken, about to test, or counted and about to
  notify) as free permits.  In this form, which is stronger than "a free permit has
  somebody coming for it", it is inductive together with `IInv`, types, mutual
  exclusion and that calls are made on a created object; the lemmas follow the
  cardinality of `Underway` through each step.  Of `XLLFQ`: `ListTypeCorrect`,
  `ReaderSafe` (`ReaderNodeLive`), `HonestRejection` (`RejectOnlyWhenFull`),
  `ListRefinement` (`ImplementsFifo`).  The invariant `Positions` says that the erase
  never goes past the `mHead` it was given, and that the reader can only have left
  that node behind since.
* **XLEventQueue_proofs.**  `TypeCorrect` (types and mutual exclusion),
  `TokensCounted` (`TokensMatch`), `Refinement` (`ImplementsFifo`), `LinkedOnce`
  (`ExactlyOnce`).  `TokensMatch` counts the threads on their way with a
  cardinality; lemma `Counting` says how a step of one thread changes it.
  `Scanned` adds that the size a push works with can only be too large, for the
  lock keeps other writers out.  For `LinkedOnce` the strengthening is `Once`: a
  writer past its copy finds its own argument in `mEvent` (`Staged`, from mutual
  exclusion), and every event linked or refused has a smaller number than the one
  its writer is about to link (`Behind`).
* **XLEventThread_proofs.**  `TypeCorrect`, `QueueSafe` (`QueueOutlivesThread`),
  `NothingAfterExit` (`ExitIsLast`), `OrderKept` and `NoOtherDeadlock`.  `Places` ties the owner's place in Create
  and Destroy to the thread's; `ExitComes` says that once an Exit is accepted, the
  thread has taken it or will find it before any later event.  `OrderKept` is that
  events are handled in the order of their Puts and none twice, over all lives: what
  is handled, in hand and in the list is one increasing sequence (`InOrder`).
  `NoOtherDeadlock` is the part of `DestroyReturnsUnless` that needs no fairness:
  with an Exit accepted, owner or thread has a step to take, unless the thread is
  stuck in its first Take or the list is stranded.  `Permits` says where a permit of
  the two semaphores must still be.
* **XLThreadPool_proofs.**  `TypeCorrect`, `SizeSafe` (`SizeBounded`), `DestroySafe`
  (`DestroyLeavesNothing`).  `Phases` ties the owner's place to the clients', so that
  no `AddJob` is under way while the pool is destroyed; `Listed` and `Calls` say which
  worker a thread or a call can be about; `Joined` that Destroy has joined those
  before the one it is at.  `Ordered` is the argument about jobs: an accepted job is
  in the queue, with a worker, or done; Exits are behind all jobs; and a worker of
  this life that has taken an Exit left nothing but Exits in the queue.
  `NoOtherDeadlock` is the safety part of `DestroyReturnsUnless`: while `Destroy` is
  under way, it or the worker it is at has a step to take, unless more Exits were
  lost than there are workers of earlier lives, a thread is stuck or the pool has
  crashed.  The argument is a count (`Counted`): the Exits in the queue, those taken
  and those refused are as many as were put, so that an idle worker that `Destroy`
  joins has one to come.  `NoJobForgotten` is that of `JobRuns`: while an accepted
  job is not done, a worker or the call that makes one has a step to take, unless
  every worker of this life was lost at its start, an earlier life filled the list, or
  the pool is to have no worker at all (`Manned`).
* **XLServer_proofs.**  `TypeCorrect`, `SocketsMatched` (`AcceptsMatchSockets`),
  `Refinement` (`ImplementsBroadcasting`), `Agreement` and `NoOtherDeadlock`.
  `AcceptsMatchSockets` counts the
  ACCEPT_INCOMING events of a sequence; lemmas `AcceptsAppend` and `AcceptsTail` say
  how a `Put` and a `Get` change the count.  It is inductive with four more parts.
  `Starts`: there is one START_THREAD, so the acceptor is started once.  `Limits`:
  its loop counter bounds the sockets.  `Alarmed`: an ACCEPT_INCOMING comes after the
  alarm is set, and members are not destroyed under a set alarm without the program
  ending.  `Spoken`: the broadcasts that wait are in their order and later than the
  last one read, and nothing was sent to a socket that is not listed.  `Spoken` makes
  a broadcast of the abstract service out of the loop that sends one client by one.
  `Agreement` (`ClientsAgree`) compares what two clients were sent: each a welcome and
  then increasing broadcasts, the later client's being the end of the earlier one's,
  but for the one broadcast that is in the loop.  It is proved of the refinement
  mapping (`HeardWell`), through `Refinement`, and carried over to `sent`.
  `NoOtherDeadlock` is the safety part of `StopEndsUnless`: a start or stop under way,
  or the thread it waits for, has a step to take, unless the acceptor waits for one
  more client, a thread is stuck, or the queue holds nothing.  `Awaited` says that the
  acceptor told to stop has accepted nothing since, and `AlarmComes` that a serving
  thread still in its loop has the START_THREAD before it or the alarm set: with the
  alarm set the destructor ends the program, so `StopAService` never waits for a
  serving thread with an empty queue.
* **XLClient_proofs.**  `TypeCorrect`, `NothingHeard` (`OnlyBlankEvents`),
  `ReturnsCounted` (`ReturnsOnlyIfGone`), `Unstoppable`.  `StaysBlank`: the listener's event keeps
  the length it was made with, so `ReadFrom` refuses every message (lemma
  `ReadsNothing`).  `Counted` gives each return of `Start` a permit of its own and
  each permit a life whose thread was gone, with `ToGive` and `ToGo` for those
  between.  `Unstoppable` (`NeverStopped`) is the other side of it, an action property:
  once a client has a listening thread, no step of anybody returns its `Start` or a
  `Stop` of it, deletes it or makes it again.  `Opened` adds that START_THREAD is read
  only while `Start` waits, and that a client that is there has a permit only when its
  event thread is gone.
* **XLAutoPtr_proofs.**  `TypeCorrect`, `CountSafe` (`CountExact`), `OwnershipSafe`
  (`OwnedTogether`), `CrashCaused` (`CrashNeedsCause`).  `Apart`: a thread changes a
  pointer no other uses.  `Noticed`: two threads in the update of one counter have
  been recorded in `overlapped`, so that of a sound counter the one thread `Holds`
  the current count.  `Exact` then follows the cardinality of the counted pointers
  through each step, `Owned` says that the counter lives as long as a pointer to it,
  and `Single` that an uncopied counter of nothing has one pointer.
* **CScheduler_proofs.**  `TypeCorrect`, `NeverHandled` (`AlarmNeverHandled`) and
  `AlarmUsed`: the scheduler's steps are steps of `XLAlarm` or leave it alone.
  `OnePermit` is the argument about the alarm: the only permit `m_ExitKeeper` ever has
  is the one given by a first thread that found no handle and skipped its program, so
  whatever sounds is a second thread, and one at a time.  `Lives` gives each alarm
  thread a life of the scheduler, so a second one is there from the second life on.
  `Barred` says what a life leaves to the next: the thread has taken an Exit, or one
  is in the list, or the list is full of elements that the new semaphore does not
  count.  With it every ALARM_INPUT is put behind an Exit (`Behind`), and the head of
  the list is never one while the loop runs.

Only model-checked: all liveness (`WakeupDelivered`, `EveryEventRead`, `JobRuns`,
`EventHandledUnless`, `ServedUnless`, `StopEndsUnless`, `ListenerJoinedUnless`,
`ResetTerminatesUnless`, the `DestroyReturnsUnless` of pool and event thread),
which is beyond the prover.  What of them is a matter of safety is proved, as the
`NoOtherDeadlock` of pool, event thread and service and the `NoJobForgotten` of the
pool: the threads concerned are never all blocked.  There "has a step to take" is
spelt out as the guards of the actions, for ENABLED is out of the prover's reach too.
These theorems, with `OrderKept`, `Agreement` and `Unstoppable`, are of no run: their
formulas are defined in the proof modules, where TLC found them to hold on the
constants of the runs before they were proved.  Every invariant, action property and refinement that a
run checks is also proved.

## 5. What the models leave out

* Undefined behaviour below the level of a step: a torn read of a `std::vector`
  that is being reallocated (`XLThreadPool.cpp:127`), weak memory, what a use of
  deleted memory does.  Steps are sequentially consistent.
* The return values of failed allocations and of failing system calls: a mutex
  or a thread that cannot be created.  Those of sockets are modelled where the
  server and the client meet them (accept, listen, connect, receive, and a send
  that ends the program with SIGPIPE).
* Payloads: an event is its number, or the writer and its number; a message of the
  client's server is its type and length.
* Calls of `Put` or `Get` on a queue that is being destroyed: the queue's models
  assume that `Destroy` and `Create` do not overlap other calls.
  `QueueOutlivesThread` shows this of the reader of an event thread; of its
  writers it is the callers' business.

**Not modelled**, and why:

* A message to a single client (USR_MSG, `XLServingThread::Send` and its case in
  `t_OnEvent`): `XLServer` offers no call that leads there.
* LIFE_BEAT of the server: its alarm never sounds in this build.
* What `AlarmInput` does with jobs, days and seconds: the scheduler's model shows that
  it is never called, so a model of it would start from states the program is
  never in.
* Several services in one server: they share no state but the list of services,
  and the first `StopAService` ends the program.
* `XLServerClientHandler`, `XLCommonRecieverThread`, `JobScheduler`, `SaraAutoPtr.h`,
  `LinkedList.h`, `IObserver.h`: no other file of the library uses them.  The list and
  the subject are templates that are never instantiated, and a use of them would not
  compile as they stand (an inherited `Notify` is named without `this->`), so there
  is no behaviour to model.
* The SSL classes, and the Windows and pthread branches: compiled out by
  `XLDependency.h`.
* Recursion and `TryLock` of `XLMutex`: never used by the library.
* Addresses, options and time-outs of sockets, settings and getters, interpreters
  and configuration: no state that another component depends on.

Most of the source tree is not the program's: of some 45,300 lines about 36,700 are
the headers of OpenSSL (`src/ServClientLibrary/openssl`), and of the 8,600 lines of
the library a good part is the branches, classes and helpers named above.

## 6. Plan

1. *Done*: semaphore, list, queue, threads, pool with its later lives, event thread,
   server, client, alarm and scheduler, shared pointers; their runs; the proofs above,
   among them one for every invariant of the runs.
2. *Left*: the message to a single client, should the
   server come to offer it; a composition of `XLServer` with `XLClient` over a
   network, should a client come to hear what it receives.
