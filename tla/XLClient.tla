------------------------------- MODULE XLClient -------------------------------
(***************************************************************************)
(* XLClient, XLClientThread and XLListeningThread: a client that connects, *)
(* receives and is stopped.                                                *)
(*                                                                         *)
(* Two callers: Start waits in m_Gatekeeper, which has no permit           *)
(* (Create(1, 1), XLSemaPhore), so that Stop comes from another thread.    *)
(* The client's event thread is gone from the start if it runs before      *)
(* mCreated is set (XLEventThread); it starts the listening thread, which  *)
(* receives from the server and puts an event for each receipt.            *)
(*                                                                         *)
(* A call of Start on a client that there is, and one of Stop when there   *)
(* is none, return at once and change nothing: they are no actions.        *)
(*                                                                         *)
(* The server is the environment: it sends messages and may close.  A      *)
(* receipt takes what has arrived and reads what it begins with, a whole   *)
(* message here; where the stream is cut otherwise makes no difference as  *)
(* long as ReadFrom reads nothing, which is what OnlyBlankEvents says.     *)
(***************************************************************************)
EXTENDS Integers, Sequences

CONSTANTS mMaxSize,             \* of the event queue
          MaxMessages,          \* bound on the messages the server sends, in a life
          MaxLives              \* bound on the calls of Start that make a client thread

ASSUME BoundsAssumption == mMaxSize \in Nat /\ MaxMessages \in Nat /\ MaxLives \in Nat

\* ACCEPT_INCOMING, and the broadcast of Main.cpp
Message == {[type |-> -2, length |-> 0], [type |-> 1, length |-> 12]}
MAX_MESS_LENGTH == 50
MetaDataLength == 8

\* Mutant: the event that the listener reads into is made without a length.
Blank_Empty == [type |-> 0, length |-> 0]

\* XLThreadEvent(MAX_MESS_LENGTH)
Blank == [type |-> 0, length |-> MAX_MESS_LENGTH]

START_THREAD == [type |-> -1, length |-> 0]
Received == Message \cup {Blank}

VARIABLES spc, kpc,             \* the callers of Start and of Stop
          epc, lpc,             \* the event thread, the listening thread
          m_Client,             \* the pointer is not null
          mCreated,             \* XLEventThread
          m_Gatekeeper,         \* its permits
          queue, event,         \* XLEventQueue, and the event being handled
          m_bExit, m_Event,     \* XLListeningThread
          connection,           \* "none", "failed", "open", "closed"
          arrived,              \* messages sent and not received
          deleted,              \* the client thread was deleted under the caller of Start
          lives, messages,      \* counters
          heard,                \* history: the events given to XLClient::OnEvent
          returned, gones       \* history: calls of Start that returned; lives whose event
                                \* thread never entered its loop

calls == <<spc, kpc, m_Client, mCreated, m_Gatekeeper, deleted>>
listener == <<lpc, m_bExit, m_Event>>
net == <<connection, arrived, messages>>
history == <<lives, heard, returned, gones>>
vars == <<calls, epc, queue, event, listener, net, history>>

Fifo == INSTANCE BoundedFifo WITH Items <- Received \cup {START_THREAD}, Capacity <- mMaxSize

Init == /\ spc = "out" /\ kpc = "out" /\ epc = "none" /\ lpc = "none"
        /\ m_Client = FALSE /\ mCreated = FALSE /\ deleted = FALSE /\ m_Gatekeeper = 0
        /\ queue = <<>> /\ event = START_THREAD
        /\ m_bExit = FALSE /\ m_Event = Blank
        /\ connection = "none" /\ arrived = <<>> /\ messages = 0
        /\ lives = 0 /\ heard = {} /\ returned = 0 /\ gones = 0

Starter(from, to) == ~deleted /\ spc = from /\ spc' = to
Stopper(from, to) == ~deleted /\ kpc = from /\ kpc' = to
Client(from, to) == ~deleted /\ epc = from /\ epc' = to
Listener(from, to) == ~deleted /\ lpc = from /\ lpc' = to

Put(e) == Fifo!Enqueue(e) \/ (Len(queue) >= mMaxSize /\ UNCHANGED queue)

--------------------------------------------------------------------------------
\* XLClient::Start: m_Client = new XLClientThread ...
Start == /\ Starter("out", "create")
         /\ ~m_Client /\ kpc = "out" /\ lives < MaxLives
         /\ lives' = lives + 1
         /\ m_Client' = TRUE
         /\ epc' = "none" /\ lpc' = "none" /\ queue' = <<>> /\ event' = START_THREAD
         /\ m_bExit' = FALSE /\ m_Event' = Blank
         /\ connection' = "none" /\ arrived' = <<>> /\ messages' = 0
         /\ UNCHANGED <<kpc, mCreated, m_Gatekeeper, deleted, heard, returned, gones>>

\* ... XLEventThread::Create, from the start of the thread to mCreated = true ...
CreateThread == /\ Starter("create", "created")
                /\ epc' = "begin"
                /\ UNCHANGED <<kpc, m_Client, mCreated, m_Gatekeeper, deleted, queue, event,
                               listener, net, history>>

CreateMark == /\ Starter("created", "put")
              /\ mCreated' = TRUE
              /\ UNCHANGED <<kpc, m_Client, m_Gatekeeper, deleted, epc, queue, event, listener,
                             net, history>>

\* (unless Stop has destroyed the thread since)
StartPut == /\ Starter("put", "take")
            /\ IF mCreated THEN Put(START_THREAD) ELSE UNCHANGED queue
            /\ UNCHANGED <<kpc, m_Client, mCreated, m_Gatekeeper, deleted, epc, event, listener,
                           net, history>>

\* ... and OnStart: m_Gatekeeper.Take()
OnStart == /\ Starter("take", "out")
           /\ m_Gatekeeper > 0
           /\ m_Gatekeeper' = m_Gatekeeper - 1
           /\ returned' = returned + 1
           /\ UNCHANGED <<kpc, m_Client, mCreated, deleted, epc, queue, event, listener, net,
                          lives, heard, gones>>

--------------------------------------------------------------------------------
\* XLClient::Stop, on a client that is created or not yet
Stop == /\ Stopper("out", IF mCreated THEN "tell" ELSE "delete")
        /\ m_Client
        /\ UNCHANGED <<spc, m_Client, mCreated, m_Gatekeeper, deleted, epc, queue, event,
                       listener, net, history>>

\* The listening thread is created: it is there, and m_handle.
ListenerCreated == lpc # "none" /\ epc # "assign"

\* XLListeningThread::Stop: m_bExit = true; there may be no handle to join by yet.
StopListener == /\ Stopper("tell", IF ListenerCreated THEN "join" ELSE "destroy")
                /\ m_bExit' = TRUE
                /\ UNCHANGED <<spc, m_Client, mCreated, m_Gatekeeper, deleted, epc, queue, event,
                               lpc, m_Event, net, history>>

JoinListener == /\ Stopper("join", "destroy")
                /\ lpc = "ended"
                /\ UNCHANGED <<spc, m_Client, mCreated, m_Gatekeeper, deleted, epc, queue, event,
                               listener, net, history>>

\* Mutant: the event thread is not joined.
DestroyThread_NoJoin == /\ Stopper("destroy", "end")
                        /\ mCreated' = FALSE
                        /\ UNCHANGED <<spc, m_Client, m_Gatekeeper, deleted, epc, queue, event,
                                       listener, net, history>>

\* XLEventThread::Destroy: the join.  Nobody has put an Exit.
DestroyThread == /\ Stopper("destroy", "end")
                 /\ epc = "gone"
                 /\ mCreated' = FALSE
                 /\ UNCHANGED <<spc, m_Client, m_Gatekeeper, deleted, epc, queue, event, listener,
                                net, history>>

\* OnEnd: m_Gatekeeper.Give()
OnEnd == /\ Stopper("end", "delete")
         /\ m_Gatekeeper' = m_Gatekeeper + 1
         /\ UNCHANGED <<spc, m_Client, mCreated, deleted, epc, queue, event, listener, net,
                        history>>

\* delete m_Client; m_Client = 0.  Start may be at work on it, or have created it since
\* Stop has looked: then the destructor joins the event thread.
Delete == /\ Stopper("delete", "out")
          /\ deleted' = (spc \in {"create", "created", "put"})
          /\ mCreated => deleted' \/ epc = "gone"
          /\ m_Client' = FALSE /\ mCreated' = FALSE
          /\ UNCHANGED <<spc, m_Gatekeeper, epc, queue, event, listener, net, history>>

StartStep == CreateThread \/ CreateMark \/ StartPut \/ OnStart
StopStep == StopListener \/ JoinListener \/ DestroyThread \/ OnEnd \/ Delete

--------------------------------------------------------------------------------
\* XLEventThread::RunProgram: the loop, or nothing; or stuck, as a Destroy may leave it
Begin == /\ \/ Client("begin", "get") /\ mCreated /\ UNCHANGED gones
            \/ Client("begin", "gone") /\ ~mCreated /\ gones' = gones + 1
            \/ Client("begin", "stuck") /\ kpc \in {"destroy", "delete"} /\ UNCHANGED gones
         /\ UNCHANGED <<calls, queue, event, listener, net, lives, heard, returned>>

Get == /\ Client("get", "on")
       /\ \E e \in Received \cup {START_THREAD} : Fifo!Dequeue(e) /\ event' = e
       /\ UNCHANGED <<calls, listener, net, history>>

\* t_OnEvent: START_THREAD starts the listening thread, and assigns its handle ...
OnStartThread == /\ Client("on", "assign")
                 /\ event = START_THREAD
                 /\ lpc' = "begin"
                 /\ UNCHANGED <<calls, queue, event, m_bExit, m_Event, net, history>>

AssignHandle == /\ Client("assign", "get")
                /\ UNCHANGED <<calls, queue, event, listener, net, history>>

\* ... and everything else goes to XLClient::OnEvent.
OnEvent == /\ Client("on", "get")
           /\ event # START_THREAD
           /\ heard' = heard \cup {event}
           /\ UNCHANGED <<calls, queue, event, listener, net, lives, returned, gones>>

ClientStep == Begin \/ Get \/ OnStartThread \/ AssignHandle \/ OnEvent

--------------------------------------------------------------------------------
\* XLListeningThread::RunProgram: the socket, and the connection if there is a server; or
\* nothing at all, without the handle, or stuck (XLSimpleThreads)
Connect == /\ \/ /\ Listener("begin", "loop")
                 /\ ListenerCreated /\ connection' \in {"open", "failed"}
              \/ Listener("begin", "ended") /\ ~ListenerCreated /\ UNCHANGED connection
              \/ Listener("begin", "stuck") /\ kpc = "join" /\ UNCHANGED connection
           /\ UNCHANGED <<calls, epc, queue, event, m_bExit, m_Event, arrived, messages, history>>

\* Mutant: the loop does not look at m_bExit.
Loop_NoExit == /\ Listener("loop", "receive")
               /\ UNCHANGED <<calls, epc, queue, event, m_bExit, m_Event, net, history>>

Loop == /\ Listener("loop", IF m_bExit THEN "ended" ELSE "receive")
        /\ UNCHANGED <<calls, epc, queue, event, m_bExit, m_Event, net, history>>

\* m_Event.ReadFrom(m_DataStorage, MAX_MESS_LENGTH), if m is what the buffer begins with
ReadFrom(m) == IF MAX_MESS_LENGTH < m_Event.length + MetaDataLength THEN m_Event
               ELSE IF m.length < MAX_MESS_LENGTH - MetaDataLength THEN m
               ELSE [m EXCEPT !.length = 0]

\* Recieve: no message that has arrived is left when the buffer has room for them all, and
\* the first of them is read.  Without a connection it returns at once, and the error that
\* SocketUtility makes of it is none; the buffer is what it was.
Receive == /\ Listener("receive", "listen")
           /\ \/ /\ connection \in {"open", "closed"} /\ arrived # <<>>
                 /\ m_Event' = ReadFrom(Head(arrived))
                 /\ \E n \in 1..Len(arrived) : arrived' = SubSeq(arrived, n + 1, Len(arrived))
              \/ /\ connection # "open" /\ arrived = <<>>
                 /\ UNCHANGED <<m_Event, arrived>>
           /\ UNCHANGED <<calls, epc, queue, event, m_bExit, connection, messages, history>>

\* m_Listener->OnListen(&m_Event)
OnListen == /\ Listener("listen", "loop")
            /\ Put(m_Event)
            /\ UNCHANGED <<calls, epc, event, m_bExit, m_Event, net, history>>

ListenerStep == Connect \/ Loop \/ Receive \/ OnListen

--------------------------------------------------------------------------------
\* The server
ServerSend == /\ connection = "open" /\ messages < MaxMessages
              /\ messages' = messages + 1
              /\ \E m \in Message : arrived' = Append(arrived, m)
              /\ UNCHANGED <<calls, epc, queue, event, listener, connection, history>>

ServerClose == /\ connection = "open" /\ connection' = "closed"
               /\ UNCHANGED <<calls, epc, queue, event, listener, arrived, messages, history>>

Next == \/ Start \/ StartStep
        \/ Stop \/ StopStep
        \/ ClientStep
        \/ ListenerStep
        \/ ServerSend \/ ServerClose

Spec == Init /\ [][Next]_vars

\* The threads are scheduled; nothing forces a call, or the server.
FairSpec == /\ Spec
            /\ WF_vars(StartStep) /\ WF_vars(StopStep)
            /\ WF_vars(ClientStep) /\ WF_vars(ListenerStep)

--------------------------------------------------------------------------------
CallsTyped == /\ spc \in {"out", "create", "created", "put", "take"}
              /\ kpc \in {"out", "tell", "join", "destroy", "end", "delete"}
              /\ m_Client \in BOOLEAN /\ mCreated \in BOOLEAN /\ deleted \in BOOLEAN
              /\ m_Gatekeeper \in Nat

ThreadsTyped == /\ epc \in {"none", "begin", "get", "on", "assign", "gone", "stuck"}
                /\ lpc \in {"none", "begin", "loop", "receive", "listen", "ended", "stuck"}
                /\ lpc # "none" => epc \in {"get", "on", "assign"}
                /\ epc \in {"get", "on", "assign"} => deleted \/ (m_Client /\ mCreated)

NetTyped == /\ queue \in Seq(Received \cup {START_THREAD}) /\ Len(queue) <= mMaxSize
            /\ event \in Received \cup {START_THREAD} /\ m_Event \in Received
            /\ m_bExit \in BOOLEAN
            /\ connection \in {"none", "failed", "open", "closed"}
            /\ arrived \in Seq(Message) /\ messages \in 0..MaxMessages

HistoryTyped == /\ lives \in 0..MaxLives /\ heard \subseteq Received
                /\ returned \in 0..lives /\ gones \in 0..lives

(* Every variable has its type, and the threads of a client are there only    *)
(* when it is: an event thread in its loop, and the listener that it started. *)
TypeOK == CallsTyped /\ ThreadsTyped /\ NetTyped /\ HistoryTyped

(* XLClient::OnEvent never gets what the server sent (XLListeningThread.cpp:  *)
(* 10, 83-88, XLEvents.h:191-214): m_Event is made with the length of the     *)
(* whole buffer, which with its head does not fit into the buffer, so that    *)
(* ReadFrom reads nothing, and its length stays what it is.                   *)
OnlyBlankEvents == heard \subseteq {Blank}

(* Start, Stop and ~XLClient come back only for a client whose event thread   *)
(* never entered its loop, and which therefore never connected (XLClient.cpp: *)
(* 11-55, XLClientThread.cpp:22-53): each Start that returned had such a life,*)
(* and between the calls ~XLClient finds no permit at all.                    *)
ReturnsOnlyIfGone == /\ returned + m_Gatekeeper <= gones
                     /\ spc = "out" /\ kpc = "out" => m_Gatekeeper = 0

(* The listening thread is joined when the client is stopped, unless it is    *)
(* waiting for a server that neither sends nor closes, or was stuck from its  *)
(* start (XLListeningThread.cpp:50-96).  A lost connection does not hold it.  *)
ListenerJoinedUnless ==
    kpc = "join" ~> (kpc # "join" \/ deleted \/ lpc = "stuck"
                     \/ (lpc = "receive" /\ connection = "open" /\ arrived = <<>>))
================================================================================
