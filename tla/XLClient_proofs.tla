---------------------------- MODULE XLClient_proofs ----------------------------
(***************************************************************************)
(* XLClient for every size of the queue and every number of messages and   *)
(* lives: no message of the server is heard, and Start and Stop return     *)
(* only for a client whose event thread never entered its loop.            *)
(***************************************************************************)
EXTENDS XLClient, SequenceTheorems, TLAPS

\* Where the callers are, and what there is of a client then.
Places == /\ mCreated => m_Client
          /\ kpc # "out" => m_Client /\ ~deleted
          /\ ~m_Client /\ ~deleted => spc \in {"take", "out"}
          /\ spc \in {"create", "created"} => ~mCreated
          /\ spc = "create" => epc = "none" /\ lpc = "none"
          /\ kpc \in {"tell", "join", "destroy"} => mCreated
          /\ kpc \in {"tell", "join", "destroy", "end"} => spc \in {"put", "take"}
          /\ kpc = "end" => epc = "gone"

\* The permit is given after the last return of Start, and taken by the next.
Gate == /\ m_Gatekeeper \in 0..1
        /\ m_Gatekeeper = 1 => spc \in {"put", "take"}
        /\ m_Client /\ ~deleted /\ kpc # "delete" => spc # "out" /\ m_Gatekeeper = 0

\* A life whose event thread is gone and which has not given its permit
ToGive == IF epc = "gone" /\ m_Client /\ kpc # "delete" THEN 1 ELSE 0

\* A life whose event thread may yet be gone
ToGo == IF spc = "create" \/ epc = "begin" THEN 1 ELSE 0

\* Each return of Start has a permit of its own, and each permit a life that was gone.
Counted == /\ returned \in Nat /\ gones \in Nat /\ lives \in Nat
           /\ lives <= MaxLives
           /\ returned + m_Gatekeeper + ToGive <= gones
           /\ gones + ToGo <= lives

\* The listener's event keeps its length, and is all that it puts.
StaysBlank == /\ m_Event = Blank
              /\ event \in {Blank, START_THREAD}
              /\ queue \in Seq({Blank, START_THREAD})
              /\ heard \subseteq {Blank}

Core == CallsTyped /\ ThreadsTyped /\ Places /\ Gate /\ Counted
Values == NetTyped /\ StaysBlank

IInv == Core /\ Values

--------------------------------------------------------------------------------
(* The caller of Start keeps the callers and the count in order.              *)
LEMMA StartsCore ==
    ASSUME Core, Start \/ CreateThread \/ CreateMark \/ StartPut \/ OnStart
    PROVE  Core'
<1> USE DEF Starter, calls, listener, net, history
<1>1. CASE Start
  <2> USE <1>1 DEF Start, Core
  <2>1. CallsTyped'
    BY DEF CallsTyped, Gate
  <2>2. ThreadsTyped'
    BY DEF ThreadsTyped, Places, CallsTyped
  <2>3. Places'
    BY DEF Places, ThreadsTyped, CallsTyped, Gate
  <2>4. Gate'
    BY DEF Gate, Places, CallsTyped, ThreadsTyped
  <2>5. Counted'
    BY BoundsAssumption DEF Counted, ToGive, ToGo, Gate, Places, CallsTyped, ThreadsTyped
  <2> QED
    BY <2>1, <2>2, <2>3, <2>4, <2>5 DEF Core
<1>2. CASE CreateThread
  <2> USE <1>2 DEF CreateThread, Core
  <2>1. CallsTyped'
    BY DEF CallsTyped, Gate
  <2>2. ThreadsTyped'
    BY DEF ThreadsTyped, Places, CallsTyped
  <2>3. Places'
    BY DEF Places, ThreadsTyped, CallsTyped, Gate
  <2>4. Gate'
    BY DEF Gate, Places, CallsTyped, ThreadsTyped
  <2>5. Counted'
    BY BoundsAssumption DEF Counted, ToGive, ToGo, Gate, Places, CallsTyped, ThreadsTyped
  <2> QED
    BY <2>1, <2>2, <2>3, <2>4, <2>5 DEF Core
<1>3. CASE CreateMark
  <2> USE <1>3 DEF CreateMark, Core
  <2>1. CallsTyped'
    BY DEF CallsTyped, Gate
  <2>2. ThreadsTyped'
    BY DEF ThreadsTyped, Places, CallsTyped
  <2>3. Places'
    BY DEF Places, ThreadsTyped, CallsTyped, Gate
  <2>4. Gate'
    BY DEF Gate, Places, CallsTyped, ThreadsTyped
  <2>5. Counted'
    BY BoundsAssumption DEF Counted, ToGive, ToGo, Gate, Places, CallsTyped, ThreadsTyped
  <2> QED
    BY <2>1, <2>2, <2>3, <2>4, <2>5 DEF Core
<1>4. CASE StartPut
  <2> USE <1>4 DEF StartPut, Core
  <2>1. CallsTyped'
    BY DEF CallsTyped, Gate
  <2>2. ThreadsTyped'
    BY DEF ThreadsTyped, Places, CallsTyped
  <2>3. Places'
    BY DEF Places, ThreadsTyped, CallsTyped, Gate
  <2>4. Gate'
    BY DEF Gate, Places, CallsTyped, ThreadsTyped
  <2>5. Counted'
    BY BoundsAssumption DEF Counted, ToGive, ToGo, Gate, Places, CallsTyped, ThreadsTyped
  <2> QED
    BY <2>1, <2>2, <2>3, <2>4, <2>5 DEF Core
<1>5. CASE OnStart
  <2> USE <1>5 DEF OnStart, Core
  <2>1. CallsTyped'
    BY DEF CallsTyped, Gate
  <2>2. ThreadsTyped'
    BY DEF ThreadsTyped, Places, CallsTyped
  <2>3. Places'
    BY DEF Places, ThreadsTyped, CallsTyped, Gate
  <2>4. Gate'
    BY DEF Gate, Places, CallsTyped, ThreadsTyped
  <2>5. Counted'
    BY BoundsAssumption DEF Counted, ToGive, ToGo, Gate, Places, CallsTyped, ThreadsTyped
  <2> QED
    BY <2>1, <2>2, <2>3, <2>4, <2>5 DEF Core
<1> QED
  BY <1>1, <1>2, <1>3, <1>4, <1>5

(* So does the caller of Stop: the permit that it gives is of a life that was gone.*)
LEMMA StopsCore ==
    ASSUME Core, Stop \/ StopListener \/ JoinListener \/ DestroyThread \/ OnEnd \/ Delete
    PROVE  Core'
<1> USE DEF Stopper, calls, listener, net, history
<1>1. CASE Stop
  <2> USE <1>1 DEF Stop, Core
  <2>1. CallsTyped'
    BY DEF CallsTyped, Gate
  <2>2. ThreadsTyped'
    BY DEF ThreadsTyped, Places, CallsTyped
  <2>3. Places'
    BY DEF Places, ThreadsTyped, CallsTyped, Gate
  <2>4. Gate'
    BY DEF Gate, Places, CallsTyped, ThreadsTyped
  <2>5. Counted'
    BY BoundsAssumption DEF Counted, ToGive, ToGo, Gate, Places, CallsTyped, ThreadsTyped
  <2> QED
    BY <2>1, <2>2, <2>3, <2>4, <2>5 DEF Core
<1>2. CASE StopListener
  <2> USE <1>2 DEF StopListener, Core
  <2>1. CallsTyped'
    BY DEF CallsTyped, Gate
  <2>2. ThreadsTyped'
    BY DEF ThreadsTyped, Places, CallsTyped
  <2>3. Places'
    BY DEF Places, ThreadsTyped, CallsTyped, Gate
  <2>4. Gate'
    BY DEF Gate, Places, CallsTyped, ThreadsTyped
  <2>5. Counted'
    BY BoundsAssumption DEF Counted, ToGive, ToGo, Gate, Places, CallsTyped, ThreadsTyped
  <2> QED
    BY <2>1, <2>2, <2>3, <2>4, <2>5 DEF Core
<1>3. CASE JoinListener
  <2> USE <1>3 DEF JoinListener, Core
  <2>1. CallsTyped'
    BY DEF CallsTyped, Gate
  <2>2. ThreadsTyped'
    BY DEF ThreadsTyped, Places, CallsTyped
  <2>3. Places'
    BY DEF Places, ThreadsTyped, CallsTyped, Gate
  <2>4. Gate'
    BY DEF Gate, Places, CallsTyped, ThreadsTyped
  <2>5. Counted'
    BY BoundsAssumption DEF Counted, ToGive, ToGo, Gate, Places, CallsTyped, ThreadsTyped
  <2> QED
    BY <2>1, <2>2, <2>3, <2>4, <2>5 DEF Core
<1>4. CASE DestroyThread
  <2> USE <1>4 DEF DestroyThread, Core
  <2>1. CallsTyped'
    BY DEF CallsTyped, Gate
  <2>2. ThreadsTyped'
    BY DEF ThreadsTyped, Places, CallsTyped
  <2>3. Places'
    BY DEF Places, ThreadsTyped, CallsTyped, Gate
  <2>4. Gate'
    BY DEF Gate, Places, CallsTyped, ThreadsTyped
  <2>5. Counted'
    BY BoundsAssumption DEF Counted, ToGive, ToGo, Gate, Places, CallsTyped, ThreadsTyped
  <2> QED
    BY <2>1, <2>2, <2>3, <2>4, <2>5 DEF Core
<1>5. CASE OnEnd
  <2> USE <1>5 DEF OnEnd, Core
  <2>1. CallsTyped'
    BY DEF CallsTyped, Gate
  <2>2. ThreadsTyped'
    BY DEF ThreadsTyped, Places, CallsTyped
  <2>3. Places'
    BY DEF Places, ThreadsTyped, CallsTyped, Gate
  <2>4. Gate'
    BY DEF Gate, Places, CallsTyped, ThreadsTyped
  <2>5. Counted'
    BY BoundsAssumption DEF Counted, ToGive, ToGo, Gate, Places, CallsTyped, ThreadsTyped
  <2> QED
    BY <2>1, <2>2, <2>3, <2>4, <2>5 DEF Core
<1>6. CASE Delete
  <2> USE <1>6 DEF Delete, Core
  <2>0. deleted' \in BOOLEAN
    BY <1>6 DEF Delete
  <2>1. CallsTyped'
    BY <2>0 DEF CallsTyped, Gate
  <2>2. ThreadsTyped'
    BY DEF ThreadsTyped, Places, CallsTyped
  <2>3. Places'
    BY DEF Places, ThreadsTyped, CallsTyped, Gate
  <2>4. Gate'
    BY DEF Gate, Places, CallsTyped, ThreadsTyped
  <2>5. Counted'
    BY BoundsAssumption DEF Counted, ToGive, ToGo, Gate, Places, CallsTyped, ThreadsTyped
  <2> QED
    BY <2>1, <2>2, <2>3, <2>4, <2>5 DEF Core
<1> QED
  BY <1>1, <1>2, <1>3, <1>4, <1>5, <1>6

(* So does the event thread, which is gone once in a life at most.            *)
LEMMA RunsCore ==
    ASSUME Core, Begin \/ Get \/ OnStartThread \/ AssignHandle \/ OnEvent
    PROVE  Core'
<1> USE DEF Client, calls, listener, net, history
<1>1. CASE Begin
  <2> USE <1>1 DEF Begin, Core
  <2>1. CallsTyped'
    BY DEF CallsTyped, Gate
  <2>2. ThreadsTyped'
    BY DEF ThreadsTyped, Places, CallsTyped
  <2>3. Places'
    BY DEF Places, ThreadsTyped, CallsTyped, Gate
  <2>4. Gate'
    BY DEF Gate, Places, CallsTyped, ThreadsTyped
  <2>5. Counted'
    BY BoundsAssumption DEF Counted, ToGive, ToGo, Gate, Places, CallsTyped, ThreadsTyped
  <2> QED
    BY <2>1, <2>2, <2>3, <2>4, <2>5 DEF Core
<1>2. CASE Get
  <2> USE <1>2 DEF Get, Core
  <2>1. CallsTyped'
    BY DEF CallsTyped, Gate
  <2>2. ThreadsTyped'
    BY DEF ThreadsTyped, Places, CallsTyped
  <2>3. Places'
    BY DEF Places, ThreadsTyped, CallsTyped, Gate
  <2>4. Gate'
    BY DEF Gate, Places, CallsTyped, ThreadsTyped
  <2>5. Counted'
    BY BoundsAssumption DEF Counted, ToGive, ToGo, Gate, Places, CallsTyped, ThreadsTyped
  <2> QED
    BY <2>1, <2>2, <2>3, <2>4, <2>5 DEF Core
<1>3. CASE OnStartThread
  <2> USE <1>3 DEF OnStartThread, Core
  <2>1. CallsTyped'
    BY DEF CallsTyped, Gate
  <2>2. ThreadsTyped'
    BY DEF ThreadsTyped, Places, CallsTyped
  <2>3. Places'
    BY DEF Places, ThreadsTyped, CallsTyped, Gate
  <2>4. Gate'
    BY DEF Gate, Places, CallsTyped, ThreadsTyped
  <2>5. Counted'
    BY BoundsAssumption DEF Counted, ToGive, ToGo, Gate, Places, CallsTyped, ThreadsTyped
  <2> QED
    BY <2>1, <2>2, <2>3, <2>4, <2>5 DEF Core
<1>4. CASE OnEvent
  <2> USE <1>4 DEF OnEvent, Core
  <2>1. CallsTyped'
    BY DEF CallsTyped, Gate
  <2>2. ThreadsTyped'
    BY DEF ThreadsTyped, Places, CallsTyped
  <2>3. Places'
    BY DEF Places, ThreadsTyped, CallsTyped, Gate
  <2>4. Gate'
    BY DEF Gate, Places, CallsTyped, ThreadsTyped
  <2>5. Counted'
    BY BoundsAssumption DEF Counted, ToGive, ToGo, Gate, Places, CallsTyped, ThreadsTyped
  <2> QED
    BY <2>1, <2>2, <2>3, <2>4, <2>5 DEF Core
<1>5. CASE AssignHandle
  <2> USE <1>5 DEF AssignHandle, Core
  <2>1. CallsTyped'
    BY DEF CallsTyped, Gate
  <2>2. ThreadsTyped'
    BY DEF ThreadsTyped, Places, CallsTyped
  <2>3. Places'
    BY DEF Places, ThreadsTyped, CallsTyped, Gate
  <2>4. Gate'
    BY DEF Gate, Places, CallsTyped, ThreadsTyped
  <2>5. Counted'
    BY BoundsAssumption DEF Counted, ToGive, ToGo, Gate, Places, CallsTyped, ThreadsTyped
  <2> QED
    BY <2>1, <2>2, <2>3, <2>4, <2>5 DEF Core
<1> QED
  BY <1>1, <1>2, <1>3, <1>4, <1>5

(* So do the listening thread and the server, which are no part of it.        *)
LEMMA ListensCore ==
    ASSUME Core, Connect \/ Loop \/ Receive \/ OnListen \/ ServerSend \/ ServerClose
    PROVE  Core'
<1> USE DEF Listener, calls, listener, net, history
<1>1. CASE Connect
  <2> USE <1>1 DEF Connect, Core
  <2>1. CallsTyped'
    BY DEF CallsTyped, Gate
  <2>2. ThreadsTyped'
    BY DEF ThreadsTyped, Places, CallsTyped
  <2>3. Places'
    BY DEF Places, ThreadsTyped, CallsTyped, Gate
  <2>4. Gate'
    BY DEF Gate, Places, CallsTyped, ThreadsTyped
  <2>5. Counted'
    BY BoundsAssumption DEF Counted, ToGive, ToGo, Gate, Places, CallsTyped, ThreadsTyped
  <2> QED
    BY <2>1, <2>2, <2>3, <2>4, <2>5 DEF Core
<1>2. CASE Loop
  <2> USE <1>2 DEF Loop, Core
  <2>1. CallsTyped'
    BY DEF CallsTyped, Gate
  <2>2. ThreadsTyped'
    BY DEF ThreadsTyped, Places, CallsTyped
  <2>3. Places'
    BY DEF Places, ThreadsTyped, CallsTyped, Gate
  <2>4. Gate'
    BY DEF Gate, Places, CallsTyped, ThreadsTyped
  <2>5. Counted'
    BY BoundsAssumption DEF Counted, ToGive, ToGo, Gate, Places, CallsTyped, ThreadsTyped
  <2> QED
    BY <2>1, <2>2, <2>3, <2>4, <2>5 DEF Core
<1>3. CASE Receive
  <2> USE <1>3 DEF Receive, Core
  <2>1. CallsTyped'
    BY DEF CallsTyped, Gate
  <2>2. ThreadsTyped'
    BY DEF ThreadsTyped, Places, CallsTyped
  <2>3. Places'
    BY DEF Places, ThreadsTyped, CallsTyped, Gate
  <2>4. Gate'
    BY DEF Gate, Places, CallsTyped, ThreadsTyped
  <2>5. Counted'
    BY BoundsAssumption DEF Counted, ToGive, ToGo, Gate, Places, CallsTyped, ThreadsTyped
  <2> QED
    BY <2>1, <2>2, <2>3, <2>4, <2>5 DEF Core
<1>4. CASE OnListen
  <2> USE <1>4 DEF OnListen, Core
  <2>1. CallsTyped'
    BY DEF CallsTyped, Gate
  <2>2. ThreadsTyped'
    BY DEF ThreadsTyped, Places, CallsTyped
  <2>3. Places'
    BY DEF Places, ThreadsTyped, CallsTyped, Gate
  <2>4. Gate'
    BY DEF Gate, Places, CallsTyped, ThreadsTyped
  <2>5. Counted'
    BY BoundsAssumption DEF Counted, ToGive, ToGo, Gate, Places, CallsTyped, ThreadsTyped
  <2> QED
    BY <2>1, <2>2, <2>3, <2>4, <2>5 DEF Core
<1>5. CASE ServerSend
  <2> USE <1>5 DEF ServerSend, Core
  <2>1. CallsTyped'
    BY DEF CallsTyped, Gate
  <2>2. ThreadsTyped'
    BY DEF ThreadsTyped, Places, CallsTyped
  <2>3. Places'
    BY DEF Places, ThreadsTyped, CallsTyped, Gate
  <2>4. Gate'
    BY DEF Gate, Places, CallsTyped, ThreadsTyped
  <2>5. Counted'
    BY BoundsAssumption DEF Counted, ToGive, ToGo, Gate, Places, CallsTyped, ThreadsTyped
  <2> QED
    BY <2>1, <2>2, <2>3, <2>4, <2>5 DEF Core
<1>6. CASE ServerClose
  <2> USE <1>6 DEF ServerClose, Core
  <2>1. CallsTyped'
    BY DEF CallsTyped, Gate
  <2>2. ThreadsTyped'
    BY DEF ThreadsTyped, Places, CallsTyped
  <2>3. Places'
    BY DEF Places, ThreadsTyped, CallsTyped, Gate
  <2>4. Gate'
    BY DEF Gate, Places, CallsTyped, ThreadsTyped
  <2>5. Counted'
    BY BoundsAssumption DEF Counted, ToGive, ToGo, Gate, Places, CallsTyped, ThreadsTyped
  <2> QED
    BY <2>1, <2>2, <2>3, <2>4, <2>5 DEF Core
<1> QED
  BY <1>1, <1>2, <1>3, <1>4, <1>5, <1>6

(* A copy of the listener's event, or START_THREAD, goes into the queue.      *)
LEMMA PutValues ==
    ASSUME Values, NEW e \in {Blank, START_THREAD}, Put(e)
    PROVE  /\ queue' \in Seq({Blank, START_THREAD})
           /\ queue' \in Seq(Received \cup {START_THREAD}) /\ Len(queue') <= mMaxSize
<1> USE DEF Values, NetTyped, StaysBlank, Received
<1>1. CASE Len(queue) >= mMaxSize /\ UNCHANGED queue
  BY <1>1
<1>2. CASE Fifo!Enqueue(e)
  <2>1. queue' = Append(queue, e) /\ Len(queue) < mMaxSize
    BY <1>2 DEF Fifo!Enqueue
  <2> QED
    BY <2>1, BoundsAssumption
<1> QED
  BY <1>1, <1>2 DEF Put

(* The buffer is shorter than the event and its head: nothing is read.        *)
LEMMA ReadsNothing == ASSUME m_Event = Blank, NEW m PROVE ReadFrom(m) = Blank
BY DEF ReadFrom, Blank, MAX_MESS_LENGTH, MetaDataLength

(* Every step keeps the listener's event blank.                               *)
LEMMA NextValues == ASSUME Core, Values, [Next]_vars PROVE Values'
<1> USE DEF calls, listener, net, history, Starter, Stopper, Client, Listener
<1>1. CASE UNCHANGED <<queue, event, m_Event, m_bExit, net, heard>>
  BY <1>1 DEF Values, NetTyped, StaysBlank
<1>2. CASE Start
  <2>1. <<>> \in Seq(Received \cup {START_THREAD}) /\ <<>> \in Seq({Blank, START_THREAD})
        /\ <<>> \in Seq(Message) /\ Len(<<>>) = 0
    OBVIOUS
  <2>2. 0 \in 0..MaxMessages /\ 0 <= mMaxSize
    BY BoundsAssumption
  <2>3. NetTyped'
    BY <1>2, <2>1, <2>2 DEF Start, NetTyped, Received
  <2>4. StaysBlank'
    BY <1>2, <2>1 DEF Start, Values, StaysBlank
  <2> QED
    BY <2>3, <2>4 DEF Values
<1>3. CASE StartPut
  <2>1. /\ queue' \in Seq({Blank, START_THREAD})
        /\ queue' \in Seq(Received \cup {START_THREAD}) /\ Len(queue') <= mMaxSize
    BY <1>3, PutValues DEF StartPut, Values, NetTyped, StaysBlank
  <2> QED
    BY <1>3, <2>1 DEF StartPut, Values, NetTyped, StaysBlank
<1>4. CASE StopListener
  <2>1. m_bExit' \in BOOLEAN
    BY <1>4 DEF StopListener
  <2> QED
    BY <1>4, <2>1 DEF StopListener, Values, NetTyped, StaysBlank
<1>5. CASE Get
  <2>1. queue # <<>> /\ event' = Head(queue) /\ queue' = Tail(queue)
    BY <1>5 DEF Get, Fifo!Dequeue
  <2>2. queue \in Seq({Blank, START_THREAD}) /\ Len(queue) <= mMaxSize
    BY DEF Values, NetTyped, StaysBlank
  <2>3. /\ queue' \in Seq({Blank, START_THREAD}) /\ event' \in {Blank, START_THREAD}
        /\ Len(queue') <= mMaxSize
    BY <2>1, <2>2, BoundsAssumption, HeadTailProperties
  <2>4. queue' \in Seq(Received \cup {START_THREAD})
    BY <2>1, HeadTailProperties DEF Values, NetTyped
  <2> QED
    BY <1>5, <2>3, <2>4 DEF Get, Values, NetTyped, StaysBlank, Received
<1>6. CASE OnEvent
  BY <1>6 DEF OnEvent, Values, NetTyped, StaysBlank
<1>7. CASE Connect
  BY <1>7 DEF Connect, Values, NetTyped, StaysBlank
<1>8. CASE Receive
  <2>1. m_Event' = Blank
    BY <1>8, ReadsNothing DEF Receive, Values, StaysBlank
  <2>2. arrived' \in Seq(Message)
    <3>1. ASSUME NEW n \in 1..Len(arrived), arrived' = SubSeq(arrived, n + 1, Len(arrived))
          PROVE  arrived' \in Seq(Message)
      BY <3>1, SubSeqProperties DEF Values, NetTyped
    <3> QED
      BY <1>8, <3>1 DEF Receive, Values, NetTyped
  <2> QED
    BY <1>8, <2>1, <2>2 DEF Receive, Values, NetTyped, StaysBlank, Received
<1>9. CASE OnListen
  <2>1. /\ queue' \in Seq({Blank, START_THREAD})
        /\ queue' \in Seq(Received \cup {START_THREAD}) /\ Len(queue') <= mMaxSize
    BY <1>9, PutValues DEF OnListen, Values, StaysBlank
  <2> QED
    BY <1>9, <2>1 DEF OnListen, Values, NetTyped, StaysBlank
<1>10. CASE ServerSend
  <2>1. arrived' \in Seq(Message) /\ messages' \in 0..MaxMessages
    BY <1>10, BoundsAssumption DEF ServerSend, Values, NetTyped
  <2> QED
    BY <1>10, <2>1 DEF ServerSend, Values, NetTyped, StaysBlank
<1>11. CASE ServerClose
  BY <1>11 DEF ServerClose, Values, NetTyped, StaysBlank
<1> QED
  BY <1>1, <1>2, <1>3, <1>4, <1>5, <1>6, <1>7, <1>8, <1>9, <1>10, <1>11
  DEF Next, vars, StartStep, StopStep, ClientStep, ListenerStep, CreateThread, CreateMark, OnStart,
      Stop, JoinListener, DestroyThread, OnEnd, Delete, Begin, OnStartThread,
      AssignHandle, Loop

(* The client is not made yet.                                                *)
LEMMA InitIInv == Init => IInv
<1> SUFFICES ASSUME Init
             PROVE  Core /\ Values
  BY DEF IInv
<1> USE DEF Init
<1>1. CallsTyped /\ ThreadsTyped
  BY DEF CallsTyped, ThreadsTyped
<1>2. Places /\ Gate
  BY DEF Places, Gate
<1>3. Counted
  BY BoundsAssumption DEF Counted, ToGive, ToGo
<1>4. Values
  <2>1. <<>> \in Seq(Received \cup {START_THREAD}) /\ <<>> \in Seq({Blank, START_THREAD})
        /\ <<>> \in Seq(Message) /\ Len(<<>>) = 0
    OBVIOUS
  <2>2. 0 \in 0..MaxMessages /\ 0 <= mMaxSize
    BY BoundsAssumption
  <2>3. NetTyped
    BY <2>1, <2>2 DEF NetTyped, Received
  <2>4. StaysBlank
    BY <2>1 DEF StaysBlank
  <2> QED
    BY <2>3, <2>4 DEF Values
<1> QED
  BY <1>1, <1>2, <1>3, <1>4 DEF Core

(* Every step keeps the invariant.                                            *)
LEMMA NextIInv == IInv /\ [Next]_vars => IInv'
<1> SUFFICES ASSUME Core, Values, [Next]_vars
             PROVE  Core' /\ Values'
  BY DEF IInv
<1>1. Values'
  BY NextValues
<1>2. CASE UNCHANGED vars
  <2>1. Core'
    BY <1>2 DEF vars, calls, listener, net, history, Core, CallsTyped, ThreadsTyped, Places, Gate,
                Counted, ToGive, ToGo
  <2> QED
    BY <1>1, <2>1
<1>3. CASE Next
  <2>1. Core'
    BY <1>3, StartsCore, StopsCore, RunsCore, ListensCore
    DEF Next, StartStep, StopStep, ClientStep, ListenerStep
  <2> QED
    BY <1>1, <2>1
<1> QED
  BY <1>2, <1>3

--------------------------------------------------------------------------------
(* The invariant holds of every behaviour.                                    *)
THEOREM Invariance == Spec => []IInv
BY InitIInv, NextIInv, PTL DEF Spec

(* Every variable of the client has its type, and the event thread and the    *)
(* listening thread run only in a client that is created                      *)
(* (XLClientThread.cpp:22-53).                                                *)
THEOREM TypeCorrect == Spec => []TypeOK
<1>1. ASSUME IInv
      PROVE  TypeOK
  <2>1. returned <= gones /\ gones <= lives
    BY <1>1 DEF IInv, Core, Gate, Counted, ToGive, ToGo
  <2>2. heard \subseteq Received
    BY <1>1 DEF IInv, Values, StaysBlank, Received
  <2>3. HistoryTyped
    BY <1>1, <2>1, <2>2 DEF IInv, Core, Counted, HistoryTyped
  <2> QED
    BY <1>1, <2>3 DEF IInv, Core, Values, TypeOK
<1> QED
  BY <1>1, Invariance, PTL

(* The client's listener never gets what the server sent, whatever arrives    *)
(* and however often (XLListeningThread.cpp:10, 83-88).                       *)
THEOREM NothingHeard == Spec => []OnlyBlankEvents
<1>1. IInv => OnlyBlankEvents
  BY DEF IInv, Values, StaysBlank, OnlyBlankEvents
<1> QED
  BY <1>1, Invariance, PTL

(* Each return of Start, and each permit, is for a life of the client whose   *)
(* event thread never entered its loop (XLClient.cpp:11-55).                  *)
THEOREM ReturnsCounted == Spec => []ReturnsOnlyIfGone
<1>1. IInv => ReturnsOnlyIfGone
  BY DEF IInv, Core, Gate, Counted, ToGive, ReturnsOnlyIfGone
<1> QED
  BY <1>1, Invariance, PTL

--------------------------------------------------------------------------------
(* A client whose listening thread was ever started, and which alone can have *)
(* connected, is never got rid of (XLClient.cpp:11-55, XLClientThread.cpp:    *)
(* 22-53): nobody puts an Exit for its event thread, so that Start never      *)
(* returns, a Stop that has been called does not either, and the client is    *)
(* neither deleted nor made again.                                            *)
NeverStopped ==
    [][lpc # "none" => /\ spc' = "take" /\ m_Client' /\ ~deleted'
                       /\ lpc' # "none"
                       /\ kpc # "out" => kpc' # "out"]_vars

\* START_THREAD is read while Start waits, and there is no permit for it.
Opened == /\ \A i \in 1..Len(queue) : queue[i] = START_THREAD =>
                spc = "take" \/ epc = "gone" \/ ~m_Client
          /\ epc = "on" /\ event = START_THREAD => spc = "take"
          /\ m_Client /\ m_Gatekeeper = 1 => epc = "gone"
          /\ lpc # "none" => spc = "take"
          /\ deleted => spc # "take"

\* What IInv says of such a client
LEMMA Waits ==
    ASSUME IInv, Opened
    PROVE  /\ lpc # "none" => /\ spc = "take" /\ m_Client /\ mCreated /\ ~deleted
                              /\ epc \in {"get", "on", "assign"} /\ m_Gatekeeper = 0
           /\ epc = "on" /\ event = START_THREAD /\ ~deleted => m_Gatekeeper = 0
           /\ epc \in {"get", "on", "assign"} /\ ~deleted => m_Client
BY DEF IInv, Core, ThreadsTyped, Gate, Opened

LEMMA NextOpened ==
    ASSUME IInv, Opened, [Next]_vars
    PROVE  Opened'
<1> USE DEF calls, listener, net, history
<1>0. Core /\ CallsTyped /\ ThreadsTyped /\ Places /\ Gate /\ NetTyped /\ StaysBlank
  BY DEF IInv, Core, Values
<1>1. CASE UNCHANGED vars
  BY <1>1 DEF vars, Opened
<1>2. CASE Start
  <2>1. /\ queue' = <<>> /\ lpc' = "none" /\ epc' = "none" /\ spc' = "create"
        /\ m_Gatekeeper' = 0
    BY <1>0, <1>2 DEF Start, Starter, Gate
  <2>2. Len(queue') = 0
    BY <2>1
  <2> QED
    BY <2>1, <2>2 DEF Opened
<1>3. CASE CreateThread \/ CreateMark
  <2>1. /\ UNCHANGED <<queue, event, lpc, m_Client, m_Gatekeeper, deleted>>
        /\ spc \in {"create", "created"} /\ spc' \in {"created", "put"} /\ ~deleted
        /\ \/ spc = "create" /\ epc' = "begin"
           \/ epc' = epc
    BY <1>3 DEF CreateThread, CreateMark, Starter
  <2>2. m_Gatekeeper = 0 /\ m_Client
    BY <1>0, <2>1 DEF Places, Gate
  <2>3. spc = "create" => epc = "none"
    BY <1>0 DEF Places
  <2> QED
    BY <2>1, <2>2, <2>3 DEF Opened
<1>4. CASE StartPut
  <2>1. /\ UNCHANGED <<epc, event, lpc, m_Client, m_Gatekeeper, deleted>>
        /\ spc' = "take" /\ ~deleted
    BY <1>4 DEF StartPut, Starter
  <2> QED
    BY <2>1 DEF Opened
<1>5. CASE OnStart
  <2>1. /\ UNCHANGED <<epc, queue, event, lpc, m_Client, deleted>> /\ ~deleted
        /\ m_Gatekeeper = 1 /\ m_Gatekeeper' = 0 /\ spc' = "out"
    BY <1>0, <1>5 DEF OnStart, Starter, Gate
  <2>2. ~m_Client \/ epc = "gone"
    BY <2>1 DEF Opened
  <2>3. lpc = "none" /\ ~(epc = "on" /\ event = START_THREAD)
    BY <2>1, Waits
  <2> QED
    BY <2>1, <2>2, <2>3 DEF Opened
<1>6. CASE Stop \/ StopListener \/ JoinListener \/ DestroyThread
  BY <1>6 DEF Stop, StopListener, JoinListener, DestroyThread, Opened
<1>7. CASE OnEnd
  <2>1. epc = "gone" /\ UNCHANGED <<spc, epc, queue, event, lpc, m_Client, deleted>>
    BY <1>0, <1>7 DEF OnEnd, Stopper, Places
  <2> QED
    BY <2>1 DEF Opened
<1>8. CASE Delete
  <2>1. /\ UNCHANGED <<spc, epc, queue, event, lpc, m_Gatekeeper>>
        /\ ~m_Client' /\ deleted' = (spc \in {"create", "created", "put"})
    BY <1>8 DEF Delete
  <2> QED
    BY <2>1 DEF Opened
<1>9. CASE Begin
  <2>1. /\ UNCHANGED <<spc, queue, event, lpc, m_Client, m_Gatekeeper, deleted>>
        /\ epc = "begin" /\ epc' \in {"get", "gone", "stuck"}
    BY <1>9 DEF Begin, Client
  <2> QED
    BY <2>1 DEF Opened
<1>10. CASE Get
  <2>1. /\ UNCHANGED <<spc, lpc, m_Client, m_Gatekeeper, deleted>> /\ ~deleted
        /\ epc = "get" /\ epc' = "on"
        /\ queue # <<>> /\ event' = Head(queue) /\ queue' = Tail(queue)
    BY <1>10 DEF Get, Client, Fifo!Dequeue
  <2>2. /\ Len(queue) \in Nat /\ Len(queue) > 0 /\ Len(queue') = Len(queue) - 1
        /\ Head(queue) = queue[1]
        /\ \A i \in 1..Len(queue') : queue'[i] = queue[i + 1]
    BY <1>0, <2>1, HeadTailProperties DEF NetTyped
  <2>3. m_Client
    BY <2>1, Waits
  <2>4. \A i \in 1..Len(queue) : queue[i] = START_THREAD => spc = "take"
    BY <2>1, <2>3 DEF Opened
  <2>5. \A i \in 1..Len(queue') : queue'[i] = START_THREAD => spc = "take"
    BY <2>2, <2>4
  <2>6. event' = START_THREAD => spc = "take"
    BY <2>1, <2>2, <2>4
  <2> QED
    BY <2>1, <2>5, <2>6 DEF Opened
<1>11. CASE OnStartThread \/ AssignHandle \/ OnEvent
  <2>1. /\ UNCHANGED <<spc, queue, event, m_Client, m_Gatekeeper, deleted>>
        /\ epc \in {"assign", "on"} /\ epc' \in {"assign", "get"}
        /\ lpc' = lpc \/ (epc = "on" /\ event = START_THREAD)
    BY <1>11 DEF OnStartThread, AssignHandle, OnEvent, Client
  <2> QED
    BY <2>1 DEF Opened
<1>12. CASE Connect \/ Loop \/ Receive
  <2>1. /\ UNCHANGED <<spc, epc, queue, event, m_Client, m_Gatekeeper, deleted>>
        /\ lpc # "none"
    BY <1>12 DEF Connect, Loop, Receive, Listener
  <2> QED
    BY <2>1 DEF Opened
<1>13. CASE OnListen
  <2>1. /\ UNCHANGED <<spc, epc, event, m_Client, m_Gatekeeper, deleted>>
        /\ lpc # "none"
    BY <1>13 DEF OnListen, Listener
  <2> QED
    BY <2>1 DEF Opened
<1>14. CASE ServerSend \/ ServerClose
  BY <1>14 DEF ServerSend, ServerClose, Opened
<1> QED
  BY <1>1, <1>2, <1>3, <1>4, <1>5, <1>6, <1>7, <1>8, <1>9, <1>10, <1>11, <1>12, <1>13, <1>14
     DEF Next, StartStep, StopStep, ClientStep, ListenerStep

(* Whoever has a listening thread keeps it: for any sizes and any numbers of  *)
(* messages and lives (XLClient.cpp:11-55, XLClientThread.cpp:22-53).         *)
THEOREM Unstoppable == Spec => NeverStopped
<1>1. ASSUME IInv, Opened, [Next]_vars, lpc # "none"
      PROVE  /\ spc' = "take" /\ m_Client' /\ ~deleted'
             /\ lpc' # "none"
             /\ kpc # "out" => kpc' # "out"
  <2> USE DEF calls, listener, net, history
  <2>0. /\ spc = "take" /\ m_Client /\ mCreated /\ ~deleted
        /\ epc \in {"get", "on", "assign"} /\ m_Gatekeeper = 0
    BY <1>1, Waits
  <2>1. CASE UNCHANGED vars
    BY <1>1, <2>0, <2>1 DEF vars
  <2>2. CASE Start \/ StartStep
    BY <2>0, <2>2 DEF Start, StartStep, CreateThread, CreateMark, StartPut, OnStart, Starter
  <2>3. CASE Stop \/ StopStep
    <3>1. CASE Stop
      BY <1>1, <2>0, <3>1 DEF Stop, Stopper
    <3>2. CASE StopListener \/ JoinListener \/ DestroyThread \/ OnEnd
      <4>1. UNCHANGED <<spc, m_Client, deleted, lpc>>
        BY <3>2 DEF StopListener, JoinListener, DestroyThread, OnEnd
      <4>2. kpc' \in {"join", "destroy", "end", "delete"}
        BY <3>2 DEF StopListener, JoinListener, DestroyThread, OnEnd, Stopper
      <4> QED
        BY <1>1, <2>0, <4>1, <4>2
    <3>3. ~Delete
      BY <2>0 DEF Delete
    <3> QED
      BY <2>3, <3>1, <3>2, <3>3 DEF StopStep
  <2>4. CASE ClientStep \/ ListenerStep \/ ServerSend \/ ServerClose
    <3>1. UNCHANGED calls
      BY <2>4 DEF ClientStep, Begin, Get, OnStartThread, AssignHandle, OnEvent, ListenerStep,
                  Connect, Loop, Receive, OnListen, ServerSend, ServerClose
    <3>2. lpc' = lpc \/ lpc' \in {"begin", "loop", "receive", "listen", "ended", "stuck"}
      BY <2>4 DEF ClientStep, Begin, Get, OnStartThread, AssignHandle, OnEvent, ListenerStep,
                  Connect, Loop, Receive, OnListen, ServerSend, ServerClose, Listener
    <3> QED
      BY <1>1, <2>0, <3>1, <3>2
  <2> QED
    BY <1>1, <2>1, <2>2, <2>3, <2>4 DEF Next
<1>2. Init => Opened
  <2> SUFFICES ASSUME Init PROVE Opened
    OBVIOUS
  <2>1. Len(queue) = 0
    BY DEF Init
  <2> QED
    BY <2>1 DEF Init, Opened
<1>3. IInv /\ Opened /\ [Next]_vars => Opened'
  BY NextOpened
<1>4. IInv /\ Opened /\ [Next]_vars =>
          [lpc # "none" => /\ spc' = "take" /\ m_Client' /\ ~deleted'
                           /\ lpc' # "none"
                           /\ kpc # "out" => kpc' # "out"]_vars
  BY <1>1
<1> QED
  BY <1>2, <1>3, <1>4, Invariance, PTL DEF Spec, NeverStopped
================================================================================
