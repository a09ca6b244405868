------------------------------- MODULE XLServer -------------------------------
(***************************************************************************)
(* XLServer, XLServingThread and XLAcceptorThread: one service, from       *)
(* StartAService to StopAService.                                          *)
(*                                                                         *)
(* Three threads.  The caller starts the service, broadcasts and stops it. *)
(* The serving thread is an event thread: its queue is the BoundedFifo     *)
(* that XLEventQueue implements, and it may be gone from the start, as     *)
(* XLEventThread shows.  The acceptor accepts NConnection clients, leaves  *)
(* each in m_IncomingQueue and puts an ACCEPT_INCOMING event for it.       *)
(*                                                                         *)
(* StopAService deletes what the other two threads use.  The program has   *)
(* ended (ended) when it is terminated, by SIGPIPE or by the destruction   *)
(* of a running std::thread, and no more is said of it after a use of      *)
(* destroyed memory.                                                       *)
(*                                                                         *)
(* In this build m_AliveAlarm never sounds (XLAlarm), so there is no       *)
(* LIFE_BEAT; its thread waits, or has skipped its program and may end the *)
(* program by joining itself.  The gate of XLCService has the permit that  *)
(* StartAService takes, and holds nobody back there.                       *)
(***************************************************************************)
EXTENDS Integers, Sequences, FiniteSets

CONSTANTS mMaxSize,             \* of the event queue
          NConnection,          \* m_iNConnection
          MaxBroadcasts,        \* bound on the broadcasts
          MaxConnects           \* bound on the clients that connect

ASSUME BoundsAssumption == /\ mMaxSize \in Nat /\ NConnection \in Nat \ {0}
                           /\ MaxBroadcasts \in Nat /\ MaxConnects \in Nat

Sockets == 1..NConnection       \* the accepted sockets, in their order
Broadcasts == 1..MaxBroadcasts
Exit == 0
START_THREAD == -1
ACCEPT_INCOMING == -2
Events == {ACCEPT_INCOMING, START_THREAD, Exit} \cup Broadcasts

VARIABLES cpc, epc, apc,        \* the caller, the serving thread, the acceptor
          queue,                \* XLEventQueue
          event,                \* what the serving thread has read
          m_IncomingQueue, m_ClientIDs,
          todo,                 \* a broadcast under way: the sockets it has not been sent to
          sent,                 \* what was written to each socket
          m_AcceptorThread,     \* the pointer is not null
          alarm,                \* m_AliveAlarm has its thread
          m_bExit, itr,         \* XLAcceptorThread
          socket,               \* m_pSocket: "none", "alive", "deleted"
          listening, waiting,   \* the listener, and the connections nobody has accepted
          accepted, closed,     \* number of sockets; those whose client has gone
          members,              \* the members of XLServingThread: "alive", "destroyed"
          ended,                \* "no", "terminated", "destroyed memory"
          broadcasts, connects, \* counters
          last, refused, exits, \* history: last broadcast read, ACCEPT_INCOMING refused,
                                \* Exits accepted
          told                  \* history: the sockets accepted when m_bExit was set, or -1

net == <<listening, waiting, accepted, closed, connects>>
clients == <<m_IncomingQueue, m_ClientIDs, todo, sent>>
acceptor == <<apc, m_bExit, itr>>
service == <<m_AcceptorThread, alarm, socket, members>>
counters == <<broadcasts, last, refused, exits, told>>
vars == <<cpc, epc, queue, event, net, clients, acceptor, service, ended, counters>>

Fifo == INSTANCE BoundedFifo WITH Items <- Events, Capacity <- mMaxSize

Init == /\ cpc = "none" /\ epc = "none" /\ apc = "none"
        /\ queue = <<>> /\ event = Exit
        /\ m_IncomingQueue = <<>> /\ m_ClientIDs = {} /\ todo = {}
        /\ sent = [s \in Sockets |-> <<>>]
        /\ m_AcceptorThread = FALSE /\ alarm = FALSE /\ m_bExit = FALSE /\ itr = 1
        /\ socket = "none" /\ listening = FALSE /\ waiting = 0 /\ accepted = 0 /\ closed = {}
        /\ members = "alive" /\ ended = "no"
        /\ broadcasts = 0 /\ connects = 0 /\ last = 0 /\ refused = 0 /\ exits = 0
        /\ told = -1

Caller(from, to) == ended = "no" /\ cpc = from /\ cpc' = to
Serving(from, to) == ended = "no" /\ epc = from /\ epc' = to
Acceptor(from, to) == ended = "no" /\ apc = from /\ apc' = to

\* Put, whose result nobody looks at
Full == Len(queue) >= mMaxSize
Put(e) == Fifo!Enqueue(e) \/ (Full /\ UNCHANGED queue)

--------------------------------------------------------------------------------
\* StartAService: XLServingThread::Start creates the event thread ...
StartAService == /\ Caller("none", "started")
                 /\ epc' = "begin"
                 /\ UNCHANGED <<queue, event, net, clients, acceptor, service, ended, counters>>

\* ... makes the socket and puts START_THREAD.
StartPut == /\ Caller("started", "up")
            /\ socket' = "alive"
            /\ Put(START_THREAD)
            /\ UNCHANGED <<epc, event, net, clients, acceptor, m_AcceptorThread, alarm, members,
                           ended, counters>>

Broadcast == /\ Caller("up", "up")
             /\ broadcasts < MaxBroadcasts
             /\ broadcasts' = broadcasts + 1
             /\ Put(broadcasts + 1)
             /\ UNCHANGED <<epc, event, net, clients, acceptor, service, ended, last, refused,
                            exits, told>>

--------------------------------------------------------------------------------
\* StopAService calls Stop, and the destructor of XLCService calls it again.  Is there
\* an acceptor?
Stop(from, join, exit) ==
    /\ Caller(from, IF m_AcceptorThread THEN join ELSE exit)
    /\ UNCHANGED <<epc, queue, event, net, clients, acceptor, service, ended, counters>>

\* The acceptor is created: its thread is there, and m_handle.
AcceptorCreated == apc # "none" /\ epc # "assign"

\* If it is created, it is told and joined ...
StopSignal(join) ==
    /\ Caller(join, join)
    /\ AcceptorCreated /\ ~m_bExit
    /\ m_bExit' = TRUE
    /\ told' = accepted
    /\ UNCHANGED <<epc, apc, itr, queue, event, net, clients, service, ended, broadcasts, last,
                   refused, exits>>

\* ... and deleted, and the socket with it, which it has adopted a second time
\* (XLServingThread.cpp:110).
StopJoin(join, exit) ==
    /\ Caller(join, exit)
    /\ AcceptorCreated => apc = "ended"
    /\ m_AcceptorThread' = FALSE
    /\ socket' = "deleted" /\ listening' = FALSE
    /\ UNCHANGED <<epc, queue, event, waiting, accepted, closed, connects, clients, acceptor,
                   alarm, members, ended, counters>>

\* StopMainLoop
StopExit(exit, to) ==
    /\ Caller(exit, to)
    /\ Put(Exit)
    /\ exits' = IF Full THEN exits ELSE exits + 1
    /\ UNCHANGED <<epc, event, net, clients, acceptor, service, ended, broadcasts, last, refused,
                   told>>

\* ~XLServingThread destroys the members first: the alarm, which ends the program if
\* its thread is there, and the socket, which the acceptor may have deleted.
DestroyMembers ==
    /\ Caller("members", "destroy")
    /\ members' = "destroyed"
    /\ socket' = "deleted" /\ listening' = FALSE
    /\ ended' = IF alarm THEN "terminated"
                ELSE IF socket = "deleted" THEN "destroyed memory" ELSE "no"
    /\ UNCHANGED <<epc, queue, event, waiting, accepted, closed, connects, clients, acceptor,
                   m_AcceptorThread, alarm, counters>>

\* ~XLEventThread joins the event thread, and StopAService uses the gate it has deleted.
DestroyThread ==
    /\ Caller("destroy", "done")
    /\ epc \in {"gone", "ended"}
    /\ ended' = "destroyed memory"
    /\ UNCHANGED <<epc, queue, event, net, clients, acceptor, service, counters>>

StopCall == Stop("up", "join1", "exit1")

CallerStep == \/ StartPut
              \/ StopSignal("join1") \/ StopJoin("join1", "exit1") \/ StopExit("exit1", "again")
              \/ Stop("again", "join2", "exit2")
              \/ StopSignal("join2") \/ StopJoin("join2", "exit2") \/ StopExit("exit2", "members")
              \/ DestroyMembers \/ DestroyThread

--------------------------------------------------------------------------------
\* XLEventThread::RunProgram finds the thread created, or returns at once; a thread
\* that has not begun when it is destroyed may wait for ever (XLSimpleThreads).
Begin == /\ \/ Serving("begin", "get")
            \/ Serving("begin", "gone") /\ cpc = "started"
            \/ Serving("begin", "stuck") /\ cpc = "destroy"
         /\ UNCHANGED <<cpc, queue, event, net, clients, acceptor, service, ended, counters>>

Get == /\ Serving("get", "on")
       /\ \E e \in Events : Fifo!Dequeue(e) /\ event' = e
       /\ UNCHANGED <<cpc, net, clients, acceptor, service, ended, counters>>

OnExit == /\ Serving("on", "ended")
          /\ event = Exit
          /\ UNCHANGED <<cpc, queue, event, net, clients, acceptor, service, ended, counters>>

\* START_THREAD: m_AcceptorThread = new XLAcceptorThread ...
OnStart == /\ Serving("on", "start")
           /\ event = START_THREAD /\ members = "alive"
           /\ m_AcceptorThread' = TRUE
           /\ UNCHANGED <<cpc, queue, event, net, clients, acceptor, alarm, socket, members, ended,
                          counters>>

\* ... ->Start(), unless Stop has deleted it: the new thread ...
StartAcceptor == /\ Serving("start", "assign")
                 /\ \/ m_AcceptorThread /\ apc' = "begin" /\ UNCHANGED ended
                    \/ ~m_AcceptorThread /\ ended' = "destroyed memory" /\ UNCHANGED apc
                 /\ UNCHANGED <<cpc, queue, event, net, clients, m_bExit, itr, service, counters>>

\* ... and its handle, unless Stop has deleted the acceptor by now
AssignHandle == /\ Serving("assign", "alarm")
                /\ ended' = IF m_AcceptorThread THEN "no" ELSE "destroyed memory"
                /\ UNCHANGED <<cpc, queue, event, net, clients, acceptor, service, counters>>

\* ... and SetAlarm
SetAlarm == /\ Serving("alarm", "get")
            /\ members = "alive"
            /\ alarm' = TRUE
            /\ UNCHANGED <<cpc, queue, event, net, clients, acceptor, m_AcceptorThread, socket,
                           members, ended, counters>>

\* The thread of the alarm, which did not find its handle in time, runs out and joins
\* itself (XLAlarm).
AlarmRanOut == /\ alarm /\ ended = "no"
               /\ ended' = "terminated"
               /\ UNCHANGED <<cpc, epc, queue, event, net, clients, acceptor, service, counters>>

\* Send, to a client that is there or not; one that has gone may cost the program its life.
Send(s, m) == /\ sent' = [sent EXCEPT ![s] = Append(@, m)]
              /\ ended' \in IF s \in closed THEN {"no", "terminated"} ELSE {"no"}

\* Mutant: the client is listed and not told.
OnAcceptIncoming_Silent ==
    /\ Serving("on", "get")
    /\ event = ACCEPT_INCOMING /\ members = "alive"
    /\ \/ /\ m_IncomingQueue # <<>>
          /\ m_IncomingQueue' = Tail(m_IncomingQueue)
          /\ m_ClientIDs' = m_ClientIDs \cup {Head(m_IncomingQueue)}
          /\ UNCHANGED <<sent, ended>>
       \/ m_IncomingQueue = <<>> /\ UNCHANGED <<m_IncomingQueue, m_ClientIDs, sent, ended>>
    /\ UNCHANGED <<cpc, queue, event, net, todo, acceptor, service, counters>>

\* Mutant: the client is told and not listed.
OnAcceptIncoming_Unlisted ==
    /\ Serving("on", "get")
    /\ event = ACCEPT_INCOMING /\ members = "alive"
    /\ \/ /\ m_IncomingQueue # <<>>
          /\ m_IncomingQueue' = Tail(m_IncomingQueue)
          /\ Send(Head(m_IncomingQueue), ACCEPT_INCOMING)
       \/ m_IncomingQueue = <<>> /\ UNCHANGED <<m_IncomingQueue, sent, ended>>
    /\ UNCHANGED <<cpc, queue, event, net, m_ClientIDs, todo, acceptor, service, counters>>

OnAcceptIncoming ==
    /\ Serving("on", "get")
    /\ event = ACCEPT_INCOMING /\ members = "alive"
    /\ \/ /\ m_IncomingQueue # <<>>
          /\ m_IncomingQueue' = Tail(m_IncomingQueue)
          /\ m_ClientIDs' = m_ClientIDs \cup {Head(m_IncomingQueue)}
          /\ Send(Head(m_IncomingQueue), ACCEPT_INCOMING)
       \/ m_IncomingQueue = <<>> /\ UNCHANGED <<m_IncomingQueue, m_ClientIDs, sent, ended>>
    /\ UNCHANGED <<cpc, queue, event, net, todo, acceptor, service, counters>>

\* USR_MSG_BDCST: the loop over m_ClientIDs, in the order of their addresses
OnBroadcast == /\ Serving("on", "broadcast")
               /\ event \in Broadcasts /\ members = "alive"
               /\ todo' = m_ClientIDs
               /\ last' = event
               /\ UNCHANGED <<cpc, queue, event, net, m_IncomingQueue, m_ClientIDs, sent, acceptor,
                              service, ended, broadcasts, refused, exits, told>>

BroadcastStep == /\ \/ /\ Serving("broadcast", "broadcast")
                       /\ members = "alive"
                       /\ \E s \in todo : todo' = todo \ {s} /\ Send(s, event)
                    \/ /\ Serving("broadcast", "get")
                       /\ todo = {}
                       /\ UNCHANGED <<todo, sent, ended>>
                 /\ UNCHANGED <<cpc, queue, event, net, m_IncomingQueue, m_ClientIDs, acceptor,
                                service, counters>>

\* A handler that uses the members after their destruction
UseMembers == /\ members = "destroyed"
              /\ \/ Serving("on", "gone") /\ event # Exit
                 \/ Serving("alarm", "gone")
                 \/ Serving("broadcast", "gone") /\ todo # {}
              /\ ended' = "destroyed memory"
              /\ UNCHANGED <<cpc, queue, event, net, clients, acceptor, service, counters>>

ServingStep == \/ Begin \/ Get \/ OnExit
               \/ OnStart \/ StartAcceptor \/ AssignHandle \/ SetAlarm
               \/ OnAcceptIncoming \/ OnBroadcast \/ BroadcastStep \/ UseMembers

--------------------------------------------------------------------------------
\* The acceptor's thread starts, or skips its program if its handle is not there yet, or
\* is stuck (XLSimpleThreads).  ListenOnPort succeeds, and Start accepts, or it does not
\* and RunProgram goes on.
AcceptorBegin == /\ \/ /\ Acceptor("begin", "accept")
                       /\ AcceptorCreated /\ socket = "alive" /\ listening' = TRUE
                    \/ /\ Acceptor("begin", "loop")
                       /\ AcceptorCreated /\ socket = "alive" /\ UNCHANGED listening
                    \/ /\ Acceptor("begin", "ended")
                       /\ ~AcceptorCreated /\ m_AcceptorThread /\ UNCHANGED listening
                    \/ Acceptor("begin", "stuck") /\ m_bExit /\ UNCHANGED listening
                 /\ UNCHANGED <<cpc, epc, queue, event, waiting, accepted, closed, connects,
                                clients, m_bExit, itr, service, ended, counters>>

\* Mutant: the loop does not look at m_bExit.
Loop_NoExit ==
    /\ \/ Acceptor("loop", "accept") /\ itr < NConnection /\ itr' = itr + 1
       \/ Acceptor("loop", "ended") /\ itr >= NConnection /\ UNCHANGED itr
    /\ UNCHANGED <<cpc, epc, queue, event, net, clients, m_bExit, service, ended, counters>>

\* while((!m_bExit) && (itr < m_iNConnection)); AcceptConnection never fails.
Loop == /\ \/ Acceptor("loop", "accept") /\ ~m_bExit /\ itr < NConnection /\ itr' = itr + 1
           \/ Acceptor("loop", "ended") /\ (m_bExit \/ itr >= NConnection) /\ UNCHANGED itr
        /\ UNCHANGED <<cpc, epc, queue, event, net, clients, m_bExit, service, ended, counters>>

\* accept(): blocks for a connection, or fails at once without a listener, and the
\* descriptor -1 is taken for a client.
Accept == /\ Acceptor("accept", "push")
          /\ socket = "alive"
          /\ listening => waiting > 0
          /\ waiting' = IF listening THEN waiting - 1 ELSE waiting
          /\ accepted' = accepted + 1
          /\ UNCHANGED <<cpc, epc, queue, event, listening, closed, connects, clients, m_bExit,
                         itr, service, ended, counters>>

\* XLServingThread::OnAccept: m_IncomingQueue.push, and the event
Push(from, to) == /\ Acceptor(from, to)
                  /\ members = "alive"
                  /\ m_IncomingQueue' = Append(m_IncomingQueue, accepted)
                  /\ UNCHANGED <<cpc, epc, queue, event, net, m_ClientIDs, todo, sent, m_bExit,
                                 itr, service, ended, counters>>

PutAccept(from, to) == /\ Acceptor(from, to)
                       /\ Put(ACCEPT_INCOMING)
                       /\ refused' = IF Full THEN refused + 1 ELSE refused
                       /\ UNCHANGED <<cpc, epc, event, net, clients, m_bExit, itr, service,
                                      ended, broadcasts, last, exits, told>>

\* Mutant: the event is put before the socket it is for.
OnAccept_Swapped == PutAccept("push", "put") \/ Push("put", "loop")

OnAccept == Push("push", "put") \/ PutAccept("put", "loop")

\* The acceptor was made while the service was deleted: its socket is gone, or its listener.
AcceptorLeft == /\ \/ socket = "deleted" /\ apc \in {"begin", "accept"} /\ Acceptor(apc, apc)
                   \/ members = "destroyed" /\ Acceptor("push", "push")
                /\ ended' = "destroyed memory"
                /\ UNCHANGED <<cpc, epc, queue, event, net, clients, m_bExit, itr, service,
                               counters>>

AcceptorStep == AcceptorBegin \/ Loop \/ Accept \/ OnAccept \/ AcceptorLeft

--------------------------------------------------------------------------------
\* The clients
Connect == /\ ended = "no"
           /\ listening /\ connects < MaxConnects
           /\ connects' = connects + 1
           /\ waiting' = waiting + 1
           /\ UNCHANGED <<cpc, epc, queue, event, listening, accepted, closed, clients, acceptor,
                          service, ended, counters>>

Close == /\ ended = "no"
         /\ \E s \in 1..accepted : s \notin closed /\ closed' = closed \cup {s}
         /\ UNCHANGED <<cpc, epc, queue, event, listening, waiting, accepted, connects, clients,
                        acceptor, service, ended, counters>>

Next == \/ StartAService \/ Broadcast \/ StopCall \/ CallerStep
        \/ ServingStep
        \/ AcceptorStep
        \/ AlarmRanOut \/ Connect \/ Close

Spec == Init /\ [][Next]_vars

\* The threads are scheduled; nothing forces a call or a client.
FairSpec == Spec /\ WF_vars(CallerStep) /\ WF_vars(ServingStep) /\ WF_vars(AcceptorStep)

--------------------------------------------------------------------------------
Messages == {ACCEPT_INCOMING} \cup Broadcasts

PlacesTyped == /\ cpc \in {"none", "started", "up", "join1", "exit1", "again", "join2", "exit2",
                            "members", "destroy", "done"}
               /\ epc \in {"none", "begin", "get", "on", "start", "assign", "alarm", "broadcast",
                            "gone", "stuck", "ended"}
               /\ apc \in {"none", "begin", "accept", "push", "put", "loop", "stuck", "ended"}

ServiceTyped == /\ m_AcceptorThread \in BOOLEAN /\ alarm \in BOOLEAN
                /\ m_bExit \in BOOLEAN /\ listening \in BOOLEAN
                /\ socket \in {"none", "alive", "deleted"} /\ members \in {"alive", "destroyed"}
                /\ ended \in {"no", "terminated", "destroyed memory"}

QueueTyped == /\ queue \in Seq(Events) /\ Len(queue) <= mMaxSize /\ event \in Events
              /\ broadcasts \in 0..MaxBroadcasts /\ last \in 0..MaxBroadcasts
              /\ refused \in Nat /\ exits \in 0..2

NetTyped == /\ itr \in 1..NConnection /\ told \in -1..NConnection
            /\ waiting \in 0..MaxConnects /\ connects \in 0..MaxConnects
            /\ accepted \in 0..NConnection /\ closed \subseteq 1..accepted

ClientsTyped ==
    /\ sent \in [Sockets -> Seq(Messages)] /\ todo \subseteq m_ClientIDs
    /\ m_IncomingQueue \in Seq(Sockets)
    /\ \E done \in 0..accepted :
          /\ m_ClientIDs = 1..done
          /\ m_IncomingQueue = [i \in 1..Len(m_IncomingQueue) |-> done + i]
          /\ accepted = done + Len(m_IncomingQueue) + (IF apc = "push" THEN 1 ELSE 0)

(* Every variable has its type; a socket is in one place at a time, accepted  *)
(* in order: handled, waiting in m_IncomingQueue, or about to be pushed.      *)
TypeOK == PlacesTyped /\ ServiceTyped /\ QueueTyped /\ NetTyped /\ ClientsTyped

\* ACCEPT_INCOMING events that have not been handled
Pending == Cardinality({i \in 1..Len(queue) : queue[i] = ACCEPT_INCOMING})
           + IF epc = "on" /\ event = ACCEPT_INCOMING THEN 1 ELSE 0

(* The queue of sockets and the queue of events, which two threads fill and   *)
(* empty in two steps each, belong together (XLServingThread.cpp:119-132,     *)
(* 229-235): there is a socket for every ACCEPT_INCOMING, and each event that *)
(* was refused has left one socket behind, for good.                          *)
AcceptsMatchSockets ==
    Len(m_IncomingQueue) = Pending + refused + (IF apc = "put" THEN 1 ELSE 0)

(* The clients of a service that broadcasts one event in one go would not     *)
(* notice the difference (XLServingThread.cpp:119-162): what a client misses  *)
(* is what was broadcast before it was listed.                                *)
Service == INSTANCE Broadcasting
             WITH Messages <- Broadcasts, Welcome <- ACCEPT_INCOMING, joined <- m_ClientIDs,
                  heard <- [s \in Sockets |-> IF s \in todo THEN Append(sent[s], event)
                                                            ELSE sent[s]]

ImplementsBroadcasting == Service!Spec

--------------------------------------------------------------------------------
\* The socket has its event: an ACCEPT_INCOMING for each of those before it, and for it
Promised(s) == \E i \in 1..Len(m_IncomingQueue) : m_IncomingQueue[i] = s /\ i <= Pending

\* The serving thread handles no more events.
Gone == epc \in {"gone", "stuck"} \/ exits > 0

(* A client whose ACCEPT_INCOMING was not refused is listed and welcomed,     *)
(* unless the service is stopped, its thread was gone from the start, or the  *)
(* program has ended (XLServingThread.cpp:119-132).                           *)
ServedUnless == \A s \in Sockets :
    Promised(s) ~> (s \in m_ClientIDs \/ Gone \/ ended # "no")

\* The acceptor waits in the accept it was in when it was told to stop.
NoClient == apc = "accept" /\ listening /\ waiting = 0 /\ accepted = told

(* StopAService comes to an end, though never to a good one, unless the       *)
(* acceptor waits for one more client, or a thread is stuck in its start      *)
(* (XLServer.cpp:86-94, XLServingThread.cpp:73-86, XLAcceptorThread.cpp:27-56)*)
StopEndsUnless == (cpc = "join1" \/ cpc = "exit1") ~>
    (ended # "no" \/ NoClient \/ apc = "stuck" \/ epc = "stuck")
================================================================================
