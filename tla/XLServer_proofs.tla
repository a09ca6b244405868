---------------------------- MODULE XLServer_proofs ----------------------------
(***************************************************************************)
(* XLServer for every size of the queue and every number of connections,   *)
(* broadcasts and clients: the sockets match their events, and the service *)
(* broadcasts as Broadcasting says.                                        *)
(***************************************************************************)
EXTENDS XLServer, FiniteSetTheorems, SequenceTheorems, TLAPS

\* How often a loop or a call has come by
Limits == /\ accepted <= itr
          /\ apc = "accept" => accepted < itr
          /\ apc \in {"none", "begin"} => accepted = 0
          /\ waiting <= connects
          /\ cpc \in {"none", "started", "up", "join1", "exit1"} => exits = 0
          /\ cpc \in {"again", "join2", "exit2"} => exits <= 1

\* The one START_THREAD, and with it the one start of the acceptor
Starts == /\ cpc \in {"none", "started"} =>
                queue = <<>> /\ apc = "none" /\ epc \in {"none", "begin", "get", "gone"}
          /\ cpc = "none" => epc = "none"
          /\ \A i \in 1..Len(queue) : queue[i] = START_THREAD =>
                /\ apc = "none"
                /\ ~(epc \in {"on", "start"} /\ event = START_THREAD)
                /\ \A j \in 1..Len(queue) : queue[j] = START_THREAD => j = i
          /\ epc \in {"on", "start"} /\ event = START_THREAD => apc = "none"
          /\ epc = "start" => event = START_THREAD

\* Before an ACCEPT_INCOMING can be handled the alarm is set, with which the members are
\* not destroyed but the program ends.
Alarmed == /\ \A i \in 1..Len(queue) : queue[i] = ACCEPT_INCOMING => apc # "none"
           /\ epc = "on" /\ event = ACCEPT_INCOMING => apc # "none"
           /\ apc # "none" => alarm \/ epc \in {"assign", "alarm", "gone"}
           /\ members = "destroyed" /\ ended = "no" => ~alarm

\* What has been sent, and the order of the broadcasts that wait
Spoken == /\ todo # {} => epc \in {"broadcast", "gone"}
          /\ epc = "broadcast" => event \in Broadcasts
          /\ \A s \in Sockets : s \notin m_ClientIDs => sent[s] = <<>>
          /\ last <= broadcasts
          /\ \A i \in 1..Len(queue) : queue[i] \in Broadcasts =>
                last < queue[i] /\ queue[i] <= broadcasts
          /\ \A i, j \in 1..Len(queue) :
                i < j /\ queue[i] \in Broadcasts /\ queue[j] \in Broadcasts => queue[i] < queue[j]
          /\ epc = "on" /\ event \in Broadcasts =>
                /\ last < event /\ event <= broadcasts
                /\ \A i \in 1..Len(queue) : queue[i] \in Broadcasts => event < queue[i]

IInv == TypeOK /\ AcceptsMatchSockets /\ Limits /\ Starts /\ Alarmed /\ Spoken

--------------------------------------------------------------------------------
(* The ACCEPT_INCOMING events of a queue, and their number as it grows and    *)
(* shrinks.                                                                   *)
Accepts(q) == {i \in 1..Len(q) : q[i] = ACCEPT_INCOMING}

LEMMA AcceptsFinite ==
    ASSUME NEW q \in Seq(Events)
    PROVE  IsFiniteSet(Accepts(q)) /\ Cardinality(Accepts(q)) \in Nat
<1>1. IsFiniteSet(1..Len(q)) /\ Accepts(q) \in SUBSET (1..Len(q))
  BY FS_Interval DEF Accepts
<1> QED
  BY <1>1, FS_Subset, FS_CardinalityType

LEMMA AcceptsAppend ==
    ASSUME NEW q \in Seq(Events), NEW e \in Events
    PROVE  Cardinality(Accepts(Append(q, e))) =
               Cardinality(Accepts(q)) + IF e = ACCEPT_INCOMING THEN 1 ELSE 0
<1>1. /\ Len(Append(q, e)) = Len(q) + 1 /\ Len(q) \in Nat
      /\ \A i \in 1..Len(q) : Append(q, e)[i] = q[i]
      /\ Append(q, e)[Len(q) + 1] = e
  BY AppendProperties
<1>2. CASE e = ACCEPT_INCOMING
  <2>1. Accepts(Append(q, e)) = Accepts(q) \cup {Len(q) + 1} /\ Len(q) + 1 \notin Accepts(q)
    BY <1>1, <1>2 DEF Accepts
  <2> QED
    BY <1>2, <2>1, AcceptsFinite, FS_AddElement
<1>3. CASE e # ACCEPT_INCOMING
  <2>1. Accepts(Append(q, e)) = Accepts(q)
    BY <1>1, <1>3 DEF Accepts
  <2> QED
    BY <1>3, <2>1, AcceptsFinite
<1> QED
  BY <1>2, <1>3

LEMMA AcceptsTail ==
    ASSUME NEW q \in Seq(Events), q # <<>>
    PROVE  Cardinality(Accepts(q)) =
               Cardinality(Accepts(Tail(q))) + IF Head(q) = ACCEPT_INCOMING THEN 1 ELSE 0
<1> DEFINE S == Accepts(q) \ {1}
           T == Accepts(Tail(q))
           f == [i \in S |-> i - 1]
<1>1. /\ Tail(q) \in Seq(Events) /\ Len(q) \in Nat /\ Len(Tail(q)) = Len(q) - 1
      /\ Len(q) > 0 /\ Head(q) = q[1]
      /\ \A i \in 1..Len(Tail(q)) : Tail(q)[i] = q[i + 1]
  BY HeadTailProperties
<1>2. f \in [S -> T]
  BY <1>1 DEF Accepts
<1>3. \A i, j \in S : f[i] = f[j] => i = j
  BY <1>1 DEF Accepts
<1>4. \A k \in T : \E i \in S : f[i] = k
  <2> SUFFICES ASSUME NEW k \in T PROVE \E i \in S : f[i] = k
    OBVIOUS
  <2>1. k + 1 \in S /\ k \in Nat
    BY <1>1 DEF Accepts
  <2>2. f[k + 1] = k
    BY <2>1
  <2> QED
    BY <2>1, <2>2
<1>5. ExistsBijection(S, T)
  BY <1>2, <1>3, <1>4 DEF ExistsBijection, Bijection, Injection, Surjection, IsInjective
<1>6. IsFiniteSet(S) /\ Cardinality(S) = Cardinality(Accepts(q)) - IF 1 \in Accepts(q) THEN 1 ELSE 0
  BY AcceptsFinite, FS_RemoveElement
<1>7. Cardinality(T) = Cardinality(S)
  BY <1>5, <1>6, FS_Bijection
<1>8. 1 \in Accepts(q) <=> Head(q) = ACCEPT_INCOMING
  BY <1>1 DEF Accepts
<1> QED
  BY <1>1, <1>6, <1>7, <1>8, AcceptsFinite

\* Pending, with the set by its name
LEMMA PendingCounts ==
    Pending = Cardinality(Accepts(queue)) + IF epc = "on" /\ event = ACCEPT_INCOMING THEN 1 ELSE 0
BY DEF Pending, Accepts

LEMMA PutFacts ==
    ASSUME QueueTyped, NEW e \in Events, Put(e)
    PROVE  /\ queue' \in Seq(Events) /\ Len(queue') <= mMaxSize
           /\ Len(queue) \in Nat /\ Len(queue') \in Nat /\ Len(queue) <= Len(queue')
           /\ \A i \in 1..Len(queue') : \/ i <= Len(queue) /\ queue'[i] = queue[i]
                                        \/ i = Len(queue) + 1 /\ queue'[i] = e
           /\ Cardinality(Accepts(queue')) = Cardinality(Accepts(queue))
                 + IF e = ACCEPT_INCOMING /\ ~Full THEN 1 ELSE 0
           /\ Cardinality(Accepts(queue)) \in Nat
<1>1. \/ Full /\ queue' = queue
      \/ ~Full /\ queue' = Append(queue, e)
  BY BoundsAssumption DEF Put, Full, Fifo!Enqueue, QueueTyped
<1>2. queue \in Seq(Events) /\ Len(queue) \in Nat /\ Len(queue) <= mMaxSize /\ mMaxSize \in Nat
  BY BoundsAssumption DEF QueueTyped
<1>3. Cardinality(Accepts(queue)) \in Nat
  BY <1>2, AcceptsFinite
<1>4. CASE Full /\ queue' = queue
  BY <1>2, <1>3, <1>4
<1>5. CASE ~Full /\ queue' = Append(queue, e)
  <2>1. /\ queue' \in Seq(Events) /\ Len(queue') = Len(queue) + 1
        /\ \A i \in 1..Len(queue) : queue'[i] = queue[i]
        /\ queue'[Len(queue) + 1] = e
    BY <1>2, <1>5, AppendProperties
  <2>2. Cardinality(Accepts(queue')) =
            Cardinality(Accepts(queue)) + IF e = ACCEPT_INCOMING THEN 1 ELSE 0
    BY <1>2, <1>5, AcceptsAppend
  <2>3. Len(queue) < mMaxSize
    BY <1>2, <1>5 DEF Full
  <2> QED
    BY <1>2, <1>3, <1>5, <2>1, <2>2, <2>3
<1> QED
  BY <1>1, <1>4, <1>5

LEMMA EventKinds ==
    /\ START_THREAD \in Events /\ ACCEPT_INCOMING \in Events /\ Exit \in Events
    /\ START_THREAD # ACCEPT_INCOMING /\ START_THREAD # Exit /\ ACCEPT_INCOMING # Exit
    /\ Broadcasts \subseteq Events /\ Broadcasts \subseteq Nat
    /\ START_THREAD \notin Broadcasts /\ ACCEPT_INCOMING \notin Broadcasts
    /\ Exit \notin Broadcasts
BY BoundsAssumption DEF Events, Broadcasts, START_THREAD, ACCEPT_INCOMING, Exit

--------------------------------------------------------------------------------
(* The caller's steps that put nothing                                        *)
LEMMA CallsIInv ==
    ASSUME IInv,
           \/ StartAService \/ StopCall \/ Stop("again", "join2", "exit2")
           \/ StopSignal("join1") \/ StopSignal("join2")
           \/ StopJoin("join1", "exit1") \/ StopJoin("join2", "exit2")
           \/ DestroyMembers \/ DestroyThread
    PROVE  IInv'
<1> USE DEF net, clients, acceptor, service, counters
<1>0. /\ PlacesTyped /\ ServiceTyped /\ QueueTyped /\ NetTyped /\ ClientsTyped
      /\ AcceptsMatchSockets /\ Limits /\ Starts /\ Alarmed /\ Spoken
  BY DEF IInv, TypeOK
<1>1. /\ UNCHANGED <<queue, event, waiting, accepted, closed, connects, clients, apc, itr,
                     broadcasts, last, refused, exits, alarm>>
      /\ \/ cpc = "none" /\ cpc' = "started" /\ epc' = "begin"
         \/ epc' = epc /\ cpc = "up" /\ cpc' \in {"join1", "exit1"}
         \/ epc' = epc /\ cpc = "again" /\ cpc' \in {"join2", "exit2"}
         \/ epc' = epc /\ cpc = "join1" /\ cpc' \in {"join1", "exit1"}
         \/ epc' = epc /\ cpc = "join2" /\ cpc' \in {"join2", "exit2"}
         \/ epc' = epc /\ cpc = "members" /\ cpc' = "destroy"
         \/ epc' = epc /\ cpc = "destroy" /\ cpc' = "done"
      /\ told' \in {told, accepted}
      /\ UNCHANGED <<members, ended>> \/ ended' # "no" \/ ~alarm
  BY DEF StartAService, StopCall, Stop, StopSignal, StopJoin, DestroyMembers, DestroyThread, Caller
<1>2. ServiceTyped'
  <2>1. m_AcceptorThread' \in {m_AcceptorThread, FALSE} /\ m_bExit' \in {m_bExit, TRUE}
    BY DEF StartAService, StopCall, Stop, StopSignal, StopJoin, DestroyMembers, DestroyThread
  <2>2. listening' \in {listening, FALSE} /\ socket' \in {socket, "deleted"}
    BY DEF StartAService, StopCall, Stop, StopSignal, StopJoin, DestroyMembers, DestroyThread
  <2>3. members' \in {members, "destroyed"}
    BY DEF StartAService, StopCall, Stop, StopSignal, StopJoin, DestroyMembers, DestroyThread
  <2>4. ended' \in {ended, "no", "terminated", "destroyed memory"}
    BY DEF StartAService, StopCall, Stop, StopSignal, StopJoin, DestroyMembers, DestroyThread
  <2>5. alarm' = alarm
    BY <1>1
  <2>6. m_AcceptorThread' \in BOOLEAN /\ alarm' \in BOOLEAN
    BY <1>0, <2>1, <2>5 DEF ServiceTyped
  <2>7. m_bExit' \in BOOLEAN /\ listening' \in BOOLEAN
    BY <1>0, <2>1, <2>2 DEF ServiceTyped
  <2>8. socket' \in {"none", "alive", "deleted"} /\ members' \in {"alive", "destroyed"}
    BY <1>0, <2>2, <2>3 DEF ServiceTyped
  <2>9. ended' \in {"no", "terminated", "destroyed memory"}
    BY <1>0, <2>4 DEF ServiceTyped
  <2> QED
    BY <2>6, <2>7, <2>8, <2>9 DEF ServiceTyped
<1>3. PlacesTyped' /\ QueueTyped' /\ NetTyped' /\ ClientsTyped'
  BY <1>0, <1>1, BoundsAssumption DEF PlacesTyped, QueueTyped, NetTyped, ClientsTyped
<1>4. AcceptsMatchSockets'
  BY <1>0, <1>1 DEF AcceptsMatchSockets, Pending, Starts
<1>5. Limits' /\ Starts'
  BY <1>0, <1>1 DEF Limits, Starts
<1>6. Alarmed' /\ Spoken'
  BY <1>0, <1>1 DEF Alarmed, Spoken, Starts
<1> QED
  BY <1>2, <1>3, <1>4, <1>5, <1>6 DEF IInv, TypeOK

(* The serving thread's steps that read no event and speak to no client       *)
LEMMA ServesIInv ==
    ASSUME IInv,
           Begin \/ OnExit \/ OnStart \/ StartAcceptor \/ AssignHandle \/ SetAlarm \/ UseMembers
    PROVE  IInv'
<1> USE DEF net, clients, acceptor, service, counters
<1>0. /\ PlacesTyped /\ ServiceTyped /\ QueueTyped /\ NetTyped /\ ClientsTyped
      /\ AcceptsMatchSockets /\ Limits /\ Starts /\ Alarmed /\ Spoken
  BY DEF IInv, TypeOK
<1>1. /\ UNCHANGED <<cpc, queue, event, net, clients, itr, counters, members>>
      /\ ended = "no"
      /\ \/ epc = "begin" /\ epc' \in {"get", "gone", "stuck"} /\ UNCHANGED <<apc, alarm, ended>>
            /\ (epc' = "stuck" => cpc = "destroy")
         \/ epc = "on" /\ epc' = "ended" /\ event = Exit /\ UNCHANGED <<apc, alarm, ended>>
         \/ epc = "on" /\ epc' = "start" /\ event = START_THREAD /\ UNCHANGED <<apc, alarm, ended>>
         \/ epc = "start" /\ epc' = "assign" /\ apc' \in {apc, "begin"} /\ UNCHANGED alarm
         \/ epc = "assign" /\ epc' = "alarm" /\ UNCHANGED <<apc, alarm>>
         \/ epc = "alarm" /\ epc' = "get" /\ alarm' /\ members = "alive" /\ UNCHANGED <<apc, ended>>
         \/ /\ members = "destroyed"
            /\ epc \in {"on", "alarm", "broadcast"} /\ epc' = "gone"
            /\ ended' # "no" /\ UNCHANGED <<apc, alarm>>
  BY DEF Begin, OnExit, OnStart, StartAcceptor, AssignHandle, SetAlarm, UseMembers, Serving
<1>2. ServiceTyped'
  <2>1. UNCHANGED <<m_bExit, listening, socket, members>>
    BY DEF Begin, OnExit, OnStart, StartAcceptor, AssignHandle, SetAlarm, UseMembers
  <2>2. m_AcceptorThread' \in {m_AcceptorThread, TRUE} /\ alarm' \in {alarm, TRUE}
    BY DEF Begin, OnExit, OnStart, StartAcceptor, AssignHandle, SetAlarm, UseMembers
  <2>3. ended' \in {ended, "destroyed memory"}
    BY <1>1 DEF Begin, OnExit, OnStart, StartAcceptor, AssignHandle, SetAlarm, UseMembers
  <2> QED
    BY <1>0, <2>1, <2>2, <2>3 DEF ServiceTyped
<1>3. PlacesTyped' /\ QueueTyped' /\ NetTyped' /\ ClientsTyped'
  <2>1. epc' \in {"get", "gone", "stuck", "ended", "start", "assign", "alarm"} /\ apc' \in {apc, "begin"}
    BY <1>1
  <2>2. PlacesTyped'
    BY <1>0, <1>1, <2>1 DEF PlacesTyped
  <2>3. QueueTyped' /\ NetTyped'
    BY <1>0, <1>1 DEF QueueTyped, NetTyped
  <2>4. apc' = "push" <=> apc = "push"
    BY <1>0, <1>1 DEF Starts
  <2>5. ClientsTyped'
    BY <1>0, <1>1, <2>4 DEF ClientsTyped
  <2> QED
    BY <2>2, <2>3, <2>5
<1>4. AcceptsMatchSockets'
  BY <1>0, <1>1
     DEF AcceptsMatchSockets, Pending, Starts, Alarmed, Exit, START_THREAD, ACCEPT_INCOMING
<1>5. Limits' /\ Starts'
  BY <1>0, <1>1 DEF Limits, Starts
<1>6. Alarmed' /\ Spoken'
  BY <1>0, <1>1 DEF Alarmed, Spoken, Starts
<1> QED
  BY <1>2, <1>3, <1>4, <1>5, <1>6 DEF IInv, TypeOK

(* The acceptor's steps up to a connection, the alarm's, and the clients'     *)
LEMMA AcceptsIInv ==
    ASSUME IInv,
           AcceptorBegin \/ Loop \/ Accept \/ AcceptorLeft \/ AlarmRanOut \/ Connect \/ Close
    PROVE  IInv'
<1> USE DEF net, clients, acceptor, service, counters
<1>0. /\ PlacesTyped /\ ServiceTyped /\ QueueTyped /\ NetTyped /\ ClientsTyped
      /\ AcceptsMatchSockets /\ Limits /\ Starts /\ Alarmed /\ Spoken
  BY DEF IInv, TypeOK
<1>1. /\ UNCHANGED <<cpc, epc, queue, event, clients, counters, alarm, members>>
      /\ \/ /\ apc = "begin" /\ apc' \in {"accept", "loop", "stuck", "ended"}
            /\ UNCHANGED <<itr, waiting, accepted, closed, connects>>
         \/ /\ apc = "loop" /\ apc' = "accept" /\ itr < NConnection /\ itr' = itr + 1
            /\ UNCHANGED <<waiting, accepted, closed, connects>>
         \/ apc = "loop" /\ apc' = "ended" /\ UNCHANGED <<itr, waiting, accepted, closed, connects>>
         \/ /\ apc = "accept" /\ apc' = "push" /\ accepted' = accepted + 1
            /\ \/ waiting > 0 /\ waiting' = waiting - 1
               \/ waiting' = waiting
            /\ UNCHANGED <<itr, closed, connects>>
         \/ apc' = apc /\ UNCHANGED <<itr, waiting, accepted, closed, connects>>
         \/ /\ apc' = apc /\ connects < MaxConnects
            /\ connects' = connects + 1 /\ waiting' = waiting + 1
            /\ UNCHANGED <<itr, accepted, closed>>
         \/ /\ apc' = apc /\ closed' \subseteq 1..accepted
            /\ UNCHANGED <<itr, accepted, waiting, connects>>
  BY <1>0 DEF AcceptorBegin, Loop, Accept, AcceptorLeft, AlarmRanOut, Connect, Close, Acceptor, NetTyped
<1>2. ended = "no" /\ ended' \in {"no", "terminated", "destroyed memory"}
  BY DEF AcceptorBegin, Loop, Accept, AcceptorLeft, AlarmRanOut, Connect, Close, Acceptor
<1>3. ServiceTyped'
  <2>1. UNCHANGED <<m_AcceptorThread, alarm, m_bExit, socket, members>>
    BY DEF AcceptorBegin, Loop, Accept, AcceptorLeft, AlarmRanOut, Connect, Close
  <2>2. listening' \in {listening, TRUE} /\ ended' \in {ended, "terminated", "destroyed memory"}
    BY DEF AcceptorBegin, Loop, Accept, AcceptorLeft, AlarmRanOut, Connect, Close
  <2> QED
    BY <1>0, <2>1, <2>2 DEF ServiceTyped
<1>4. PlacesTyped' /\ QueueTyped'
  BY <1>0, <1>1 DEF PlacesTyped, QueueTyped
<1>5. NetTyped' /\ Limits'
  <2>1. /\ itr \in Nat /\ accepted \in Nat /\ waiting \in Nat /\ connects \in Nat
        /\ itr <= NConnection /\ accepted <= itr
        /\ apc = "accept" => accepted < itr
        /\ apc \in {"none", "begin"} => accepted = 0
        /\ waiting <= connects /\ connects <= MaxConnects /\ itr >= 1
        /\ closed \subseteq 1..accepted
    BY <1>0, BoundsAssumption DEF NetTyped, Limits
  <2>2. /\ itr' \in 1..NConnection /\ accepted' \in 0..NConnection /\ accepted' <= itr'
        /\ apc' = "accept" => accepted' < itr'
        /\ apc' \in {"none", "begin"} => accepted' = 0
    BY <1>1, <2>1, BoundsAssumption
  <2>3. /\ waiting' \in 0..MaxConnects /\ connects' \in 0..MaxConnects
        /\ waiting' <= connects'
    BY <1>1, <2>1, BoundsAssumption
  <2>4. closed' \subseteq 1..accepted'
    <3>1. closed' \subseteq 1..accepted \/ closed' = closed
      BY <1>1
    <3>2. accepted' \in Nat /\ accepted <= accepted'
      BY <1>1, <2>1
    <3>3. 1..accepted \subseteq 1..accepted'
      BY <2>1, <3>2
    <3> QED
      BY <2>1, <3>1, <3>3
  <2>5. told' \in -1..NConnection
    BY <1>0, <1>1 DEF NetTyped
  <2> QED
    BY <1>0, <1>1, <2>2, <2>3, <2>4, <2>5 DEF NetTyped, Limits
<1>6. ClientsTyped'
  <2>1. PICK done \in 0..accepted :
           /\ m_ClientIDs = 1..done
           /\ m_IncomingQueue = [i \in 1..Len(m_IncomingQueue) |-> done + i]
           /\ accepted = done + Len(m_IncomingQueue) + (IF apc = "push" THEN 1 ELSE 0)
    BY <1>0 DEF ClientsTyped
  <2>2. /\ done \in 0..accepted'
        /\ accepted' = done + Len(m_IncomingQueue) + (IF apc' = "push" THEN 1 ELSE 0)
    <3>1. Len(m_IncomingQueue) \in Nat /\ accepted \in Nat
      BY <1>0 DEF ClientsTyped, NetTyped
    <3>2. \/ apc = "accept" /\ apc' = "push" /\ accepted' = accepted + 1
          \/ (apc' = "push" <=> apc = "push") /\ accepted' = accepted
      BY <1>1
    <3> QED
      BY <2>1, <3>1, <3>2
  <2> QED
    BY <1>0, <1>1, <2>1, <2>2 DEF ClientsTyped
<1>7. AcceptsMatchSockets'
  BY <1>0, <1>1 DEF AcceptsMatchSockets, Pending
<1>8. Starts' /\ Spoken'
  BY <1>0, <1>1, <1>2 DEF Starts, Spoken
<1>9. Alarmed'
  BY <1>0, <1>1, <1>2 DEF Alarmed
<1> QED
  BY <1>3, <1>4, <1>5, <1>6, <1>7, <1>8, <1>9 DEF IInv, TypeOK

(* The caller's Puts                                                          *)
LEMMA StartPutIInv == ASSUME IInv, StartPut PROVE IInv'
<1> USE DEF net, clients, acceptor, service, counters
<1>0. /\ PlacesTyped /\ ServiceTyped /\ QueueTyped /\ NetTyped /\ ClientsTyped
      /\ AcceptsMatchSockets /\ Limits /\ Starts /\ Alarmed /\ Spoken
  BY DEF IInv, TypeOK
<1>1. /\ cpc = "started" /\ cpc' = "up" /\ Put(START_THREAD) /\ socket' = "alive"
      /\ UNCHANGED <<epc, event, net, clients, acceptor, m_AcceptorThread, alarm, members,
                     ended, counters>>
  BY DEF StartPut, Caller
<1>2. /\ queue = <<>> /\ apc = "none" /\ epc \in {"none", "begin", "get", "gone"}
  BY <1>0, <1>1 DEF Starts
<1>3. PlacesTyped' /\ ServiceTyped' /\ NetTyped' /\ ClientsTyped'
  <2>1. PlacesTyped'
    BY <1>0, <1>1 DEF PlacesTyped
  <2>2. ServiceTyped'
    BY <1>0, <1>1 DEF ServiceTyped
  <2>3. NetTyped' /\ ClientsTyped'
    BY <1>0, <1>1 DEF NetTyped, ClientsTyped
  <2> QED
    BY <2>1, <2>2, <2>3
<1>4. QueueTyped'
  BY <1>0, <1>1, PutFacts, EventKinds DEF QueueTyped
<1>5. AcceptsMatchSockets'
  BY <1>0, <1>1, PutFacts, EventKinds, PendingCounts DEF AcceptsMatchSockets, Pending, Accepts
<1>6. \A i \in 1..Len(queue') : i = 1 /\ queue'[i] = START_THREAD
  BY <1>0, <1>1, <1>2, PutFacts, EventKinds
<1>7. Limits' /\ Starts'
  BY <1>0, <1>1, <1>2, <1>6 DEF Limits, Starts
<1>8. Alarmed' /\ Spoken'
  BY <1>0, <1>1, <1>2, <1>6, EventKinds DEF Alarmed, Spoken
<1> QED
  BY <1>3, <1>4, <1>5, <1>7, <1>8 DEF IInv, TypeOK

LEMMA BroadcastIInv == ASSUME IInv, Broadcast PROVE IInv'
<1> USE DEF net, clients, acceptor, service, counters
<1>0. /\ PlacesTyped /\ ServiceTyped /\ QueueTyped /\ NetTyped /\ ClientsTyped
      /\ AcceptsMatchSockets /\ Limits /\ Starts /\ Alarmed /\ Spoken
  BY DEF IInv, TypeOK
<1>1. /\ cpc = "up" /\ cpc' = "up" /\ Put(broadcasts + 1)
      /\ broadcasts < MaxBroadcasts /\ broadcasts' = broadcasts + 1
      /\ UNCHANGED <<epc, event, net, clients, acceptor, service, ended, last, refused, exits, told>>
  BY DEF Broadcast, Caller
<1>2. broadcasts \in Nat /\ broadcasts + 1 \in Broadcasts /\ broadcasts + 1 \in Events
  BY <1>0, <1>1, BoundsAssumption, EventKinds DEF QueueTyped, Broadcasts
<1>3. PlacesTyped' /\ ServiceTyped' /\ NetTyped' /\ ClientsTyped'
  <2>1. PlacesTyped'
    BY <1>0, <1>1 DEF PlacesTyped
  <2>2. ServiceTyped'
    BY <1>0, <1>1 DEF ServiceTyped
  <2>3. NetTyped' /\ ClientsTyped'
    BY <1>0, <1>1 DEF NetTyped, ClientsTyped
  <2> QED
    BY <2>1, <2>2, <2>3
<1>4. QueueTyped'
  BY <1>0, <1>1, <1>2, PutFacts, BoundsAssumption DEF QueueTyped
<1>5. AcceptsMatchSockets'
  <2>1. Cardinality(Accepts(queue')) = Cardinality(Accepts(queue))
    BY <1>0, <1>1, <1>2, PutFacts, EventKinds
  <2> QED
    BY <1>0, <1>1, <2>1 DEF AcceptsMatchSockets, Pending, Accepts
<1>6. \A i \in 1..Len(queue') : \/ i \in 1..Len(queue) /\ queue'[i] = queue[i]
                                \/ i = Len(queue) + 1 /\ queue'[i] = broadcasts + 1
  BY <1>0, <1>1, <1>2, PutFacts
<1>7. Limits' /\ Starts'
  BY <1>0, <1>1, <1>2, <1>6, EventKinds DEF Limits, Starts
<1>8. Alarmed'
  BY <1>0, <1>1, <1>2, <1>6, EventKinds DEF Alarmed
<1>9. Spoken'
  <2>1. /\ Len(queue) \in Nat /\ last \in Nat /\ event \in Events
        /\ \A b \in Broadcasts : b \in Nat
        /\ \A i \in 1..Len(queue) : queue[i] \in Events
    BY <1>0, EventKinds, BoundsAssumption DEF QueueTyped
  <2>2. last <= broadcasts'
    BY <1>0, <1>1, <1>2, <2>1 DEF Spoken
  <2>3. \A i \in 1..Len(queue') : queue'[i] \in Broadcasts =>
            last < queue'[i] /\ queue'[i] <= broadcasts'
    BY <1>0, <1>1, <1>2, <1>6, <2>1 DEF Spoken
  <2>4. \A i, j \in 1..Len(queue') :
            i < j /\ queue'[i] \in Broadcasts /\ queue'[j] \in Broadcasts
              => queue'[i] < queue'[j]
    <3> SUFFICES ASSUME NEW i \in 1..Len(queue'), NEW j \in 1..Len(queue'), i < j,
                        queue'[i] \in Broadcasts, queue'[j] \in Broadcasts
                 PROVE  queue'[i] < queue'[j]
      OBVIOUS
    <3>1. i \in 1..Len(queue) /\ queue'[i] = queue[i]
      BY <1>2, <1>6, <2>1
    <3>2. CASE j \in 1..Len(queue) /\ queue'[j] = queue[j]
      BY <1>0, <3>1, <3>2 DEF Spoken
    <3>3. CASE queue'[j] = broadcasts + 1
      <4>1. queue[i] <= broadcasts /\ queue[i] \in Nat /\ broadcasts \in Nat
        BY <1>0, <2>1, <3>1 DEF Spoken, QueueTyped
      <4> QED
        BY <3>1, <3>3, <4>1
    <3> QED
      BY <1>6, <3>2, <3>3
  <2>5. epc = "on" /\ event \in Broadcasts =>
            /\ last < event /\ event <= broadcasts'
            /\ \A i \in 1..Len(queue') : queue'[i] \in Broadcasts => event < queue'[i]
    BY <1>0, <1>1, <1>2, <1>6, <2>1 DEF Spoken
  <2> QED
    BY <1>0, <1>1, <2>2, <2>3, <2>4, <2>5 DEF Spoken
<1> QED
  BY <1>3, <1>4, <1>5, <1>7, <1>8, <1>9 DEF IInv, TypeOK

LEMMA StopExitIInv ==
    ASSUME IInv, StopExit("exit1", "again") \/ StopExit("exit2", "members")
    PROVE  IInv'
<1> USE DEF net, clients, acceptor, service, counters
<1>0. /\ PlacesTyped /\ ServiceTyped /\ QueueTyped /\ NetTyped /\ ClientsTyped
      /\ AcceptsMatchSockets /\ Limits /\ Starts /\ Alarmed /\ Spoken
  BY DEF IInv, TypeOK
<1>1. /\ \/ cpc = "exit1" /\ cpc' = "again"
         \/ cpc = "exit2" /\ cpc' = "members"
      /\ Put(Exit)
      /\ exits' \in {exits, exits + 1}
      /\ UNCHANGED <<epc, event, net, clients, acceptor, service, ended, broadcasts, last,
                     refused, told>>
  BY DEF StopExit, Caller
<1>2. PlacesTyped' /\ ServiceTyped' /\ NetTyped' /\ ClientsTyped'
  <2>1. PlacesTyped'
    BY <1>0, <1>1 DEF PlacesTyped
  <2>2. ServiceTyped'
    BY <1>0, <1>1 DEF ServiceTyped
  <2>3. NetTyped' /\ ClientsTyped'
    BY <1>0, <1>1 DEF NetTyped, ClientsTyped
  <2> QED
    BY <2>1, <2>2, <2>3
<1>3. QueueTyped' /\ Limits'
  BY <1>0, <1>1, PutFacts, EventKinds DEF QueueTyped, Limits
<1>4. AcceptsMatchSockets'
  <2>1. Cardinality(Accepts(queue')) = Cardinality(Accepts(queue))
    BY <1>0, <1>1, PutFacts, EventKinds
  <2> QED
    BY <1>0, <1>1, <2>1 DEF AcceptsMatchSockets, Pending, Accepts
<1>5. \A i \in 1..Len(queue') : \/ i \in 1..Len(queue) /\ queue'[i] = queue[i]
                                \/ i = Len(queue) + 1 /\ queue'[i] = Exit
  BY <1>0, <1>1, PutFacts, EventKinds
<1>6. Starts' /\ Alarmed'
  BY <1>0, <1>1, <1>5, EventKinds DEF Starts, Alarmed
<1>7. Spoken'
  BY <1>0, <1>1, <1>5, EventKinds DEF Spoken
<1> QED
  BY <1>2, <1>3, <1>4, <1>6, <1>7 DEF IInv, TypeOK

--------------------------------------------------------------------------------
(* The serving thread reads an event.                                         *)
LEMMA GetIInv == ASSUME IInv, Get PROVE IInv'
<1> USE DEF net, clients, acceptor, service, counters
<1>0. /\ PlacesTyped /\ ServiceTyped /\ QueueTyped /\ NetTyped /\ ClientsTyped
      /\ AcceptsMatchSockets /\ Limits /\ Starts /\ Alarmed /\ Spoken
  BY DEF IInv, TypeOK
<1>1. /\ epc = "get" /\ epc' = "on"
      /\ queue # <<>> /\ event' = Head(queue) /\ queue' = Tail(queue)
      /\ UNCHANGED <<cpc, net, clients, acceptor, service, ended, counters>>
  BY DEF Get, Serving, Fifo!Dequeue
<1>2. /\ queue' \in Seq(Events) /\ Len(queue) \in Nat /\ Len(queue) > 0
      /\ event' \in Events /\ event' = queue[1]
      /\ Len(queue') = Len(queue) - 1
      /\ \A i \in 1..Len(queue') : i + 1 \in 1..Len(queue) /\ queue'[i] = queue[i + 1]
  BY <1>0, <1>1, HeadTailProperties DEF QueueTyped
<1>3. PlacesTyped' /\ ServiceTyped' /\ NetTyped' /\ ClientsTyped'
  <2>1. PlacesTyped'
    BY <1>0, <1>1 DEF PlacesTyped
  <2>2. ServiceTyped'
    BY <1>0, <1>1 DEF ServiceTyped
  <2>3. NetTyped' /\ ClientsTyped'
    BY <1>0, <1>1 DEF NetTyped, ClientsTyped
  <2> QED
    BY <2>1, <2>2, <2>3
<1>4. QueueTyped'
  BY <1>0, <1>1, <1>2, BoundsAssumption DEF QueueTyped
<1>5. AcceptsMatchSockets'
  <2>1. Cardinality(Accepts(queue)) =
            Cardinality(Accepts(queue')) + IF event' = ACCEPT_INCOMING THEN 1 ELSE 0
    BY <1>0, <1>1, AcceptsTail DEF QueueTyped
  <2>2. Pending = Cardinality(Accepts(queue))
    <3>1. Cardinality(Accepts(queue)) \in Nat
      BY <1>0, AcceptsFinite DEF QueueTyped
    <3> QED
      BY <1>1, <3>1, PendingCounts
  <2>3. Pending' = Cardinality(Accepts(queue')) + IF event' = ACCEPT_INCOMING THEN 1 ELSE 0
    BY <1>1 DEF Pending, Accepts
  <2> QED
    BY <1>0, <1>1, <2>1, <2>2, <2>3 DEF AcceptsMatchSockets
<1>6. Limits'
  BY <1>0, <1>1 DEF Limits
<1>7. Starts'
  BY <1>0, <1>1, <1>2 DEF Starts
<1>8. Alarmed'
  BY <1>0, <1>1, <1>2 DEF Alarmed
<1>9. Spoken'
  <2>1. \A i \in 1..Len(queue') : queue'[i] \in Broadcasts =>
            last < queue'[i] /\ queue'[i] <= broadcasts
    BY <1>0, <1>2 DEF Spoken
  <2>2. \A i, j \in 1..Len(queue') :
            i < j /\ queue'[i] \in Broadcasts /\ queue'[j] \in Broadcasts
              => queue'[i] < queue'[j]
    <3> TAKE i, j \in 1..Len(queue')
    <3>1. /\ i + 1 \in 1..Len(queue) /\ queue'[i] = queue[i + 1]
          /\ j + 1 \in 1..Len(queue) /\ queue'[j] = queue[j + 1]
      BY <1>2
    <3>2. i < j => i + 1 < j + 1
      BY <1>2
    <3> QED
      BY <1>0, <3>1, <3>2 DEF Spoken
  <2>3. event' \in Broadcasts =>
            /\ last < event' /\ event' <= broadcasts
            /\ \A i \in 1..Len(queue') : queue'[i] \in Broadcasts => event' < queue'[i]
    BY <1>0, <1>2 DEF Spoken
  <2>4. todo = {}
    BY <1>0, <1>1 DEF Spoken
  <2> QED
    BY <1>0, <1>1, <2>1, <2>2, <2>3, <2>4 DEF Spoken
<1> QED
  BY <1>3, <1>4, <1>5, <1>6, <1>7, <1>8, <1>9 DEF IInv, TypeOK

(* What OnAcceptIncoming does: there is a socket for its event, the next in   *)
(* order, which has been told nothing yet.                                    *)
LEMMA NextSocket ==
    ASSUME IInv, OnAcceptIncoming
    PROVE  /\ m_IncomingQueue # <<>>
           /\ Head(m_IncomingQueue) \in Sockets \ m_ClientIDs
           /\ sent[Head(m_IncomingQueue)] = <<>>
           /\ m_IncomingQueue' = Tail(m_IncomingQueue)
           /\ m_ClientIDs' = m_ClientIDs \cup {Head(m_IncomingQueue)}
           /\ Send(Head(m_IncomingQueue), ACCEPT_INCOMING)
           /\ todo = {}
           /\ ClientsTyped'
           /\ Len(m_IncomingQueue') = Len(m_IncomingQueue) - 1
<1> USE DEF net, clients, acceptor, service, counters
<1>0. /\ PlacesTyped /\ ServiceTyped /\ QueueTyped /\ NetTyped /\ ClientsTyped
      /\ AcceptsMatchSockets /\ Limits /\ Starts /\ Alarmed /\ Spoken
  BY DEF IInv, TypeOK
<1>1. /\ epc = "on" /\ event = ACCEPT_INCOMING
      /\ UNCHANGED <<cpc, queue, event, net, todo, acceptor, service, counters>>
  BY DEF OnAcceptIncoming, Serving
<1>2. Len(m_IncomingQueue) > 0
  BY <1>0, <1>1, AcceptsFinite, PendingCounts DEF AcceptsMatchSockets, QueueTyped
<1>3. /\ m_IncomingQueue # <<>>
      /\ m_IncomingQueue' = Tail(m_IncomingQueue)
      /\ m_ClientIDs' = m_ClientIDs \cup {Head(m_IncomingQueue)}
      /\ Send(Head(m_IncomingQueue), ACCEPT_INCOMING)
  BY <1>2 DEF OnAcceptIncoming
<1>4. PICK done \in 0..accepted :
         /\ m_ClientIDs = 1..done
         /\ m_IncomingQueue = [i \in 1..Len(m_IncomingQueue) |-> done + i]
         /\ accepted = done + Len(m_IncomingQueue) + (IF apc = "push" THEN 1 ELSE 0)
  BY <1>0 DEF ClientsTyped
<1>5. /\ Len(m_IncomingQueue) \in Nat /\ accepted \in Nat /\ done \in Nat
      /\ accepted <= NConnection /\ NConnection \in Nat
  BY <1>0, <1>4, BoundsAssumption DEF ClientsTyped, NetTyped
<1>6. Head(m_IncomingQueue) = done + 1
  <2>1. m_IncomingQueue[1] = done + 1
    BY <1>2, <1>4, <1>5
  <2> QED
    BY <1>0, <1>3, <2>1 DEF ClientsTyped
<1>7. done + 1 \in Sockets /\ done + 1 \notin m_ClientIDs /\ done + 1 \in 0..accepted
  BY <1>2, <1>4, <1>5 DEF Sockets
<1>8. /\ Len(m_IncomingQueue') = Len(m_IncomingQueue) - 1
      /\ m_IncomingQueue' \in Seq(Sockets)
      /\ \A i \in 1..Len(m_IncomingQueue') : m_IncomingQueue'[i] = m_IncomingQueue[i + 1]
  BY <1>0, <1>3, HeadTailProperties DEF ClientsTyped
<1>9. todo = {} /\ sent[done + 1] = <<>>
  BY <1>0, <1>1, <1>7 DEF Spoken
<1>10. ClientsTyped'
  <2>1. m_ClientIDs' = 1..(done + 1)
    BY <1>3, <1>4, <1>5, <1>6
  <2>2. m_IncomingQueue' = [i \in 1..Len(m_IncomingQueue') |-> (done + 1) + i]
    <3>1. \A i \in 1..Len(m_IncomingQueue') : m_IncomingQueue'[i] = (done + 1) + i
      BY <1>4, <1>5, <1>8
    <3> QED
      BY <1>8, <3>1
  <2>3. accepted = (done + 1) + Len(m_IncomingQueue') + (IF apc = "push" THEN 1 ELSE 0)
    BY <1>4, <1>5, <1>8
  <2>4. sent' \in [Sockets -> Seq(Messages)]
    <3>1. sent' = [sent EXCEPT ![done + 1] = Append(@, ACCEPT_INCOMING)]
      BY <1>3, <1>6 DEF Send
    <3>2. Append(sent[done + 1], ACCEPT_INCOMING) \in Seq(Messages)
      BY <1>0, <1>7, AppendProperties DEF ClientsTyped, Messages
    <3> QED
      BY <1>0, <3>1, <3>2 DEF ClientsTyped
  <2> QED
    BY <1>1, <1>7, <1>8, <1>9, <2>1, <2>2, <2>3, <2>4 DEF ClientsTyped
<1> QED
  BY <1>3, <1>6, <1>7, <1>8, <1>9, <1>10

LEMMA AcceptIncomingIInv == ASSUME IInv, OnAcceptIncoming PROVE IInv'
<1> USE DEF net, clients, acceptor, service, counters
<1>0. /\ PlacesTyped /\ ServiceTyped /\ QueueTyped /\ NetTyped /\ ClientsTyped
      /\ AcceptsMatchSockets /\ Limits /\ Starts /\ Alarmed /\ Spoken
  BY DEF IInv, TypeOK
<1>1. /\ epc = "on" /\ epc' = "get" /\ event = ACCEPT_INCOMING /\ ended = "no"
      /\ members = "alive"
      /\ UNCHANGED <<cpc, queue, event, net, todo, acceptor, service, counters>>
  BY DEF OnAcceptIncoming, Serving
<1>2. /\ todo = {} /\ ClientsTyped'
      /\ Len(m_IncomingQueue') = Len(m_IncomingQueue) - 1
      /\ m_ClientIDs' = m_ClientIDs \cup {Head(m_IncomingQueue)}
      /\ Send(Head(m_IncomingQueue), ACCEPT_INCOMING)
  BY NextSocket
<1>3. PlacesTyped' /\ QueueTyped' /\ NetTyped'
  BY <1>0, <1>1 DEF PlacesTyped, QueueTyped, NetTyped
<1>4. ServiceTyped'
  BY <1>0, <1>1, <1>2 DEF ServiceTyped, Send
<1>5. AcceptsMatchSockets'
  <2>1. Pending = Cardinality(Accepts(queue)) + 1 /\ Cardinality(Accepts(queue)) \in Nat
    BY <1>0, <1>1, AcceptsFinite DEF Pending, Accepts, QueueTyped
  <2>2. Pending' = Cardinality(Accepts(queue))
    BY <1>0, <1>1, <2>1 DEF Pending, Accepts
  <2> QED
    BY <1>0, <1>1, <1>2, <2>1, <2>2 DEF AcceptsMatchSockets, QueueTyped
<1>6. Limits' /\ Starts'
  BY <1>0, <1>1 DEF Limits, Starts
<1>7. Alarmed'
  BY <1>0, <1>1 DEF Alarmed
<1>8. Spoken'
  <2>1. \A s \in Sockets : s \notin m_ClientIDs' => sent'[s] = <<>>
    BY <1>0, <1>2 DEF Spoken, Send, ClientsTyped
  <2> QED
    BY <1>0, <1>1, <1>2, <2>1 DEF Spoken
<1> QED
  BY <1>2, <1>3, <1>4, <1>5, <1>6, <1>7, <1>8 DEF IInv, TypeOK

(* A broadcast begins, reaches one client more, or ends.                      *)
LEMMA OnBroadcastIInv == ASSUME IInv, OnBroadcast PROVE IInv'
<1> USE DEF net, clients, acceptor, service, counters
<1>0. /\ PlacesTyped /\ ServiceTyped /\ QueueTyped /\ NetTyped /\ ClientsTyped
      /\ AcceptsMatchSockets /\ Limits /\ Starts /\ Alarmed /\ Spoken
  BY DEF IInv, TypeOK
<1>1. /\ epc = "on" /\ epc' = "broadcast" /\ event \in Broadcasts /\ todo' = m_ClientIDs
      /\ last' = event
      /\ UNCHANGED <<cpc, queue, event, net, m_IncomingQueue, m_ClientIDs, sent, acceptor, service,
                     ended, broadcasts, refused, exits, told>>
  BY DEF OnBroadcast, Serving
<1>2. last' \in 0..MaxBroadcasts
  BY <1>1, BoundsAssumption DEF Broadcasts
<1>3. PlacesTyped' /\ QueueTyped' /\ NetTyped' /\ ClientsTyped'
  BY <1>0, <1>1, <1>2 DEF PlacesTyped, QueueTyped, NetTyped, ClientsTyped
<1>4. ServiceTyped'
  BY <1>0, <1>1 DEF ServiceTyped
<1>5. AcceptsMatchSockets'
  BY <1>0, <1>1, EventKinds DEF AcceptsMatchSockets, Pending
<1>6. Limits' /\ Starts' /\ Alarmed'
  BY <1>0, <1>1 DEF Limits, Starts, Alarmed
<1>7. Spoken'
  BY <1>0, <1>1 DEF Spoken
<1> QED
  BY <1>3, <1>4, <1>5, <1>6, <1>7 DEF IInv, TypeOK

LEMMA BroadcastStepIInv == ASSUME IInv, BroadcastStep PROVE IInv'
<1> USE DEF net, clients, acceptor, service, counters
<1>0. /\ PlacesTyped /\ ServiceTyped /\ QueueTyped /\ NetTyped /\ ClientsTyped
      /\ AcceptsMatchSockets /\ Limits /\ Starts /\ Alarmed /\ Spoken
  BY DEF IInv, TypeOK
<1>1. /\ epc = "broadcast" /\ epc' \in {"broadcast", "get"} /\ ended = "no"
      /\ epc' = "get" => todo' = {}
      /\ UNCHANGED <<cpc, queue, event, net, m_IncomingQueue, m_ClientIDs, acceptor, service, counters>>
      /\ \/ UNCHANGED <<todo, sent, ended>>
         \/ \E s \in todo : todo' = todo \ {s} /\ Send(s, event)
  BY DEF BroadcastStep, Serving
<1>2. event \in Broadcasts
  BY <1>0, <1>1 DEF Spoken
<1>3. PlacesTyped' /\ QueueTyped' /\ NetTyped'
  BY <1>0, <1>1 DEF PlacesTyped, QueueTyped, NetTyped
<1>4. ServiceTyped'
  <2>1. ended' \in {"no", "terminated"}
    BY <1>1 DEF Send
  <2> QED
    BY <1>0, <1>1, <2>1 DEF ServiceTyped
<1>5. /\ ClientsTyped'
      /\ \A s \in Sockets : s \notin m_ClientIDs => sent'[s] = <<>>
  <2>1. CASE UNCHANGED <<todo, sent>>
    BY <1>0, <1>1, <2>1 DEF ClientsTyped, Spoken
  <2>2. CASE \E s \in todo : todo' = todo \ {s} /\ Send(s, event)
    <3>1. PICK s \in todo : todo' = todo \ {s} /\ Send(s, event)
      BY <2>2
    <3>2. s \in m_ClientIDs /\ s \in Sockets
      BY <1>0, <3>1, BoundsAssumption DEF ClientsTyped, NetTyped, Sockets
    <3>3. Append(sent[s], event) \in Seq(Messages)
      BY <1>0, <1>2, <3>2, AppendProperties DEF ClientsTyped, Messages
    <3>4. sent' \in [Sockets -> Seq(Messages)]
      BY <1>0, <3>1, <3>3 DEF ClientsTyped, Send
    <3>5. todo' \subseteq m_ClientIDs'
      BY <1>0, <1>1, <3>1 DEF ClientsTyped
    <3>6. \A r \in Sockets : r \notin m_ClientIDs => sent'[r] = <<>>
      BY <1>0, <3>1, <3>2 DEF Spoken, Send, ClientsTyped
    <3> QED
      BY <1>0, <1>1, <3>4, <3>5, <3>6 DEF ClientsTyped
  <2> QED
    BY <1>1, <2>1, <2>2
<1>6. AcceptsMatchSockets'
  BY <1>0, <1>1 DEF AcceptsMatchSockets, Pending
<1>7. Limits' /\ Starts'
  BY <1>0, <1>1 DEF Limits, Starts
<1>8. Alarmed'
  BY <1>0, <1>1 DEF Alarmed
<1>9. Spoken'
  BY <1>0, <1>1, <1>2, <1>5 DEF Spoken
<1> QED
  BY <1>3, <1>4, <1>5, <1>6, <1>7, <1>8, <1>9 DEF IInv, TypeOK

--------------------------------------------------------------------------------
(* OnAccept: the socket first, and then its event                             *)
LEMMA PushIInv == ASSUME IInv, Push("push", "put") PROVE IInv'
<1> USE DEF net, clients, acceptor, service, counters
<1>0. /\ PlacesTyped /\ ServiceTyped /\ QueueTyped /\ NetTyped /\ ClientsTyped
      /\ AcceptsMatchSockets /\ Limits /\ Starts /\ Alarmed /\ Spoken
  BY DEF IInv, TypeOK
<1>1. /\ apc = "push" /\ apc' = "put"
      /\ m_IncomingQueue' = Append(m_IncomingQueue, accepted)
      /\ UNCHANGED <<cpc, epc, queue, event, net, m_ClientIDs, todo, sent, m_bExit, itr, service,
                     ended, counters>>
  BY DEF Push, Acceptor
<1>2. PICK done \in 0..accepted :
         /\ m_ClientIDs = 1..done
         /\ m_IncomingQueue = [i \in 1..Len(m_IncomingQueue) |-> done + i]
         /\ accepted = done + Len(m_IncomingQueue) + 1
  BY <1>0, <1>1 DEF ClientsTyped
<1>3. /\ Len(m_IncomingQueue) \in Nat /\ accepted \in Nat /\ done \in Nat
      /\ accepted \in Sockets
  BY <1>0, <1>2, BoundsAssumption DEF ClientsTyped, NetTyped, Sockets
<1>4. /\ m_IncomingQueue' \in Seq(Sockets)
      /\ Len(m_IncomingQueue') = Len(m_IncomingQueue) + 1
      /\ \A i \in 1..Len(m_IncomingQueue) : m_IncomingQueue'[i] = m_IncomingQueue[i]
      /\ m_IncomingQueue'[Len(m_IncomingQueue) + 1] = accepted
  BY <1>0, <1>1, <1>3, AppendProperties DEF ClientsTyped
<1>5. ClientsTyped'
  <2>1. m_IncomingQueue' = [i \in 1..Len(m_IncomingQueue') |-> done + i]
    <3>1. \A i \in 1..Len(m_IncomingQueue') : m_IncomingQueue'[i] = done + i
      BY <1>2, <1>3, <1>4
    <3> QED
      BY <1>4, <3>1
  <2>2. accepted = done + Len(m_IncomingQueue')
    BY <1>2, <1>3, <1>4
  <2>3. accepted' = accepted /\ apc' # "push" /\ done \in 0..accepted
    BY <1>1, <1>2
  <2>4. accepted' = done + Len(m_IncomingQueue') + (IF apc' = "push" THEN 1 ELSE 0)
    <3>1. accepted' = done + Len(m_IncomingQueue') /\ Len(m_IncomingQueue') \in Nat
      BY <1>3, <1>4, <2>2, <2>3
    <3> QED
      BY <1>3, <2>3, <3>1
  <2>5. m_ClientIDs' = 1..done
    BY <1>1, <1>2
  <2>6. sent' \in [Sockets -> Seq(Messages)] /\ todo' \subseteq m_ClientIDs'
    BY <1>0, <1>1 DEF ClientsTyped
  <2>7. done \in 0..accepted'
    BY <2>3
  <2> QED
    BY <1>4, <2>1, <2>4, <2>5, <2>6, <2>7 DEF ClientsTyped
<1>6. PlacesTyped' /\ QueueTyped' /\ NetTyped'
  BY <1>0, <1>1 DEF PlacesTyped, QueueTyped, NetTyped
<1>7. ServiceTyped'
  BY <1>0, <1>1 DEF ServiceTyped
<1>8. AcceptsMatchSockets'
  <2>1. Pending' = Pending
    BY <1>1 DEF Pending
  <2>2. Pending \in Nat /\ refused \in Nat
    BY <1>0, AcceptsFinite, PendingCounts DEF QueueTyped
  <2>3. Len(m_IncomingQueue) = Pending + refused
    BY <1>0, <1>1, <2>2 DEF AcceptsMatchSockets
  <2>4. Len(m_IncomingQueue') = Pending + refused + 1
    BY <1>4, <2>3
  <2>5. apc' = "put" /\ refused' = refused
    BY <1>1
  <2> QED
    BY <2>1, <2>2, <2>4, <2>5 DEF AcceptsMatchSockets
<1>9. Limits' /\ Starts' /\ Alarmed' /\ Spoken'
  BY <1>0, <1>1 DEF Limits, Starts, Alarmed, Spoken
<1> QED
  BY <1>5, <1>6, <1>7, <1>8, <1>9 DEF IInv, TypeOK

LEMMA PutAcceptIInv == ASSUME IInv, PutAccept("put", "loop") PROVE IInv'
<1> USE DEF net, clients, acceptor, service, counters
<1>0. /\ PlacesTyped /\ ServiceTyped /\ QueueTyped /\ NetTyped /\ ClientsTyped
      /\ AcceptsMatchSockets /\ Limits /\ Starts /\ Alarmed /\ Spoken
  BY DEF IInv, TypeOK
<1>1. /\ apc = "put" /\ apc' = "loop" /\ Put(ACCEPT_INCOMING)
      /\ refused' = IF Full THEN refused + 1 ELSE refused
      /\ UNCHANGED <<cpc, epc, event, net, clients, m_bExit, itr, service, ended, broadcasts, last,
                     exits, told>>
  BY DEF PutAccept, Acceptor
<1>2. PlacesTyped' /\ NetTyped' /\ ClientsTyped'
  BY <1>0, <1>1 DEF PlacesTyped, NetTyped, ClientsTyped
<1>3. ServiceTyped'
  BY <1>0, <1>1 DEF ServiceTyped
<1>4. QueueTyped'
  BY <1>0, <1>1, PutFacts, EventKinds DEF QueueTyped
<1>5. AcceptsMatchSockets'
  <2>1. /\ Cardinality(Accepts(queue')) =
               Cardinality(Accepts(queue)) + IF ~Full THEN 1 ELSE 0
        /\ Cardinality(Accepts(queue)) \in Nat
    BY <1>0, <1>1, PutFacts, EventKinds
  <2>2. Pending' = Cardinality(Accepts(queue')) + Pending - Cardinality(Accepts(queue))
    BY <1>1, <2>1, PendingCounts DEF Pending, Accepts
  <2>3. Len(m_IncomingQueue) = Pending + refused + 1 /\ Pending \in Nat /\ refused \in Nat
    BY <1>0, <1>1, <2>1, PendingCounts DEF AcceptsMatchSockets, QueueTyped
  <2> QED
    BY <1>1, <2>1, <2>2, <2>3 DEF AcceptsMatchSockets
<1>6. \A i \in 1..Len(queue') : \/ i \in 1..Len(queue) /\ queue'[i] = queue[i]
                                \/ i = Len(queue) + 1 /\ queue'[i] = ACCEPT_INCOMING
  BY <1>0, <1>1, PutFacts, EventKinds
<1>7. Limits' /\ Starts'
  BY <1>0, <1>1, <1>6, EventKinds DEF Limits, Starts
<1>8. Alarmed' /\ Spoken'
  BY <1>0, <1>1, <1>6, EventKinds DEF Alarmed, Spoken
<1> QED
  BY <1>2, <1>3, <1>4, <1>5, <1>7, <1>8 DEF IInv, TypeOK

--------------------------------------------------------------------------------
LEMMA InitIInv == Init => IInv
<1> SUFFICES ASSUME Init PROVE IInv
  OBVIOUS
<1> USE BoundsAssumption
<1>1. PlacesTyped /\ ServiceTyped
  BY DEF Init, PlacesTyped, ServiceTyped
<1>2. QueueTyped /\ NetTyped
  BY EventKinds DEF Init, QueueTyped, NetTyped
<1>3. ClientsTyped
  <2>1. m_IncomingQueue = [i \in 1..0 |-> 0 + i] /\ Len(m_IncomingQueue) = 0
    BY DEF Init
  <2>2. m_ClientIDs = 1..0 /\ accepted = 0 /\ apc = "none"
    BY DEF Init
  <2>3. sent \in [Sockets -> Seq(Messages)] /\ todo \subseteq m_ClientIDs
    BY DEF Init
  <2>4. m_IncomingQueue \in Seq(Sockets)
    BY DEF Init
  <2> QED
    BY <2>1, <2>2, <2>3, <2>4 DEF ClientsTyped
<1>4. AcceptsMatchSockets
  <2>1. Accepts(queue) = {} /\ Cardinality({}) = 0
    BY FS_EmptySet DEF Init, Accepts
  <2> QED
    BY <2>1, PendingCounts DEF Init, AcceptsMatchSockets
<1>5. Limits /\ Starts /\ Alarmed /\ Spoken
  BY EventKinds DEF Init, Limits, Starts, Alarmed, Spoken
<1> QED
  BY <1>1, <1>2, <1>3, <1>4, <1>5 DEF IInv, TypeOK

LEMMA NextIInv == IInv /\ [Next]_vars => IInv'
<1> SUFFICES ASSUME IInv, [Next]_vars
             PROVE  IInv'
  OBVIOUS
<1>1. CASE UNCHANGED vars
  <2> USE <1>1 DEF vars, net, clients, acceptor, service, counters
  <2>1. PlacesTyped' /\ QueueTyped' /\ NetTyped' /\ ClientsTyped'
    BY DEF IInv, TypeOK, PlacesTyped, QueueTyped, NetTyped, ClientsTyped
  <2>2. ServiceTyped'
    BY DEF IInv, TypeOK, ServiceTyped
  <2>3. AcceptsMatchSockets' /\ Limits'
    BY DEF IInv, AcceptsMatchSockets, Pending, Limits
  <2>4. Starts' /\ Alarmed' /\ Spoken'
    BY DEF IInv, Starts, Alarmed, Spoken
  <2> QED
    BY <2>1, <2>2, <2>3, <2>4 DEF IInv, TypeOK
<1>2. CASE StartAService \/ Broadcast \/ StopCall \/ CallerStep
  BY <1>2, CallsIInv, StartPutIInv, BroadcastIInv, StopExitIInv DEF CallerStep
<1>3. CASE ServingStep
  BY <1>3, ServesIInv, GetIInv, AcceptIncomingIInv, OnBroadcastIInv, BroadcastStepIInv
     DEF ServingStep
<1>4. CASE AcceptorStep \/ AlarmRanOut \/ Connect \/ Close
  BY <1>4, AcceptsIInv, PushIInv, PutAcceptIInv DEF AcceptorStep, OnAccept
<1> QED
  BY <1>1, <1>2, <1>3, <1>4 DEF Next

(* The inductive invariant: all of the above.                                 *)
THEOREM Invariance == Spec => []IInv
BY InitIInv, NextIInv, PTL DEF Spec

(* Every variable of the service has its type, and its sockets their order,   *)
(* for any numbers of connections and broadcasts (XLServingThread.cpp,        *)
(* XLAcceptorThread.cpp).                                                     *)
THEOREM TypeCorrect == Spec => []TypeOK
<1>1. IInv => TypeOK
  BY DEF IInv
<1> QED
  BY <1>1, Invariance, PTL

(* For every ACCEPT_INCOMING there is a socket, and a refused one has left    *)
(* its socket behind (XLServingThread.cpp:119-132, 229-235).                  *)
THEOREM SocketsMatched == Spec => []AcceptsMatchSockets
<1>1. IInv => AcceptsMatchSockets
  BY DEF IInv
<1> QED
  BY <1>1, Invariance, PTL

--------------------------------------------------------------------------------
\* What the clients have heard, as Broadcasting sees it
Heard == [s \in Sockets |-> IF s \in todo THEN Append(sent[s], event) ELSE sent[s]]

(* Every step of the service is one of Broadcasting, or none that its clients *)
(* see.                                                                       *)
LEMMA NextImplements == IInv /\ [Next]_vars => [Service!Next]_(Service!vars)
<1> SUFFICES ASSUME IInv, [Next]_vars
             PROVE  Service!Next \/ (m_ClientIDs' = m_ClientIDs /\ Heard' = Heard /\ last' = last)
  BY DEF Service!vars, Heard
<1> USE DEF net, clients, acceptor, service, counters
<1>0. QueueTyped /\ ClientsTyped /\ Spoken
  BY DEF IInv, TypeOK
<1>1. CASE OnAcceptIncoming
  <2>1. PICK s \in Sockets :
           /\ s \notin m_ClientIDs /\ sent[s] = <<>> /\ todo = {}
           /\ m_ClientIDs' = m_ClientIDs \cup {s}
           /\ sent' = [sent EXCEPT ![s] = Append(@, ACCEPT_INCOMING)]
    BY <1>1, NextSocket DEF Send
  <2>2. todo' = todo /\ event' = event /\ last' = last
    BY <1>1 DEF OnAcceptIncoming
  <2>3. Append(sent[s], ACCEPT_INCOMING) = <<ACCEPT_INCOMING>>
    BY <2>1
  <2>4. Heard' = [Heard EXCEPT ![s] = <<ACCEPT_INCOMING>>]
    BY <1>0, <2>1, <2>2, <2>3 DEF Heard, ClientsTyped
  <2>5. Service!Join(s)
    BY <2>1, <2>2, <2>4 DEF Service!Join, Heard
  <2> QED
    BY <2>5 DEF Service!Next
<1>2. CASE OnBroadcast
  <2>1. PICK b \in Broadcasts : b = event
    BY <1>2 DEF OnBroadcast
  <2>2. /\ event' = b /\ last' = b /\ last < b
        /\ todo = {} /\ todo' = m_ClientIDs /\ sent' = sent /\ m_ClientIDs' = m_ClientIDs
    BY <1>0, <1>2, <2>1 DEF OnBroadcast, Serving, Spoken
  <2>3. Heard' = [s \in Sockets |-> IF s \in m_ClientIDs THEN Append(Heard[s], b) ELSE Heard[s]]
    BY <2>2 DEF Heard
  <2>4. b > last
    BY <1>0, <2>2, BoundsAssumption, EventKinds DEF QueueTyped
  <2>5. Service!Broadcast(b)
    BY <2>2, <2>3, <2>4 DEF Service!Broadcast, Heard
  <2> QED
    BY <2>5 DEF Service!Next
<1>3. CASE BroadcastStep
  <2>1. /\ UNCHANGED <<event, last, m_ClientIDs>>
        /\ \/ UNCHANGED <<todo, sent>>
           \/ \E s \in todo : /\ todo' = todo \ {s}
                             /\ sent' = [sent EXCEPT ![s] = Append(@, event)]
    BY <1>3 DEF BroadcastStep, Send
  <2>2. Heard' = Heard
    BY <1>0, <2>1 DEF Heard, ClientsTyped
  <2> QED
    BY <2>1, <2>2
<1>4. CASE Get
  <2>1. UNCHANGED <<todo, sent, last, m_ClientIDs>> /\ todo = {}
    BY <1>0, <1>4 DEF Get, Serving, Spoken
  <2>2. Heard' = Heard
    BY <2>1 DEF Heard
  <2> QED
    BY <2>1, <2>2
<1>5. CASE \/ UNCHANGED vars
           \/ StartAService \/ Broadcast \/ StopCall \/ CallerStep
           \/ Begin \/ OnExit \/ OnStart \/ StartAcceptor \/ AssignHandle \/ SetAlarm \/ UseMembers
           \/ AcceptorStep \/ AlarmRanOut \/ Connect \/ Close
  <2>1. UNCHANGED <<event, todo, sent, last, m_ClientIDs>>
    <3>1. CASE UNCHANGED vars \/ StartAService \/ Broadcast \/ StopCall \/ CallerStep
      BY <3>1 DEF vars, StartAService, Broadcast, StopCall, CallerStep, StartPut, Stop, StopSignal,
                  StopJoin, StopExit, DestroyMembers, DestroyThread
    <3>2. CASE Begin \/ OnExit \/ OnStart \/ StartAcceptor \/ AssignHandle \/ SetAlarm \/ UseMembers
      BY <3>2 DEF Begin, OnExit, OnStart, StartAcceptor, AssignHandle, SetAlarm, UseMembers
    <3>3. CASE AcceptorStep \/ AlarmRanOut \/ Connect \/ Close
      BY <3>3 DEF AcceptorStep, AcceptorBegin, Loop, Accept, OnAccept, Push, PutAccept,
                  AcceptorLeft, AlarmRanOut, Connect, Close
    <3> QED
      BY <1>5, <3>1, <3>2, <3>3
  <2> QED
    BY <2>1 DEF Heard
<1> QED
  BY <1>1, <1>2, <1>3, <1>4, <1>5 DEF Next, ServingStep

(* A service broadcasts: each client hears its welcome first, and then every  *)
(* broadcast from there on, once and in order, for any numbers of them        *)
(* (XLServingThread.cpp:119-162).                                             *)
THEOREM Refinement == Spec => ImplementsBroadcasting
<1>1. Init => Service!Init
  BY DEF Init, Service!Init
<1> QED
  BY <1>1, Invariance, NextImplements, PTL DEF Spec, ImplementsBroadcasting, Service!Spec

--------------------------------------------------------------------------------
\* A welcome, and then broadcasts in their order
InOrder(q) == /\ Len(q) > 0 => q[1] = ACCEPT_INCOMING
              /\ \A i \in 2..Len(q) : q[i] \in Broadcasts
              /\ \A i, j \in 2..Len(q) : i < j => q[i] < q[j]

\* Behind its welcome, the shorter one is the end of the longer one.
SameEnd(p, q) == Len(q) <= Len(p) => \A i \in 2..Len(q) : q[i] = p[i + (Len(p) - Len(q))]

(* Whoever came earlier or later, while clients come and broadcasts are in    *)
(* the middle of their loop (XLServingThread.cpp:119-162): each client is     *)
(* welcomed before it is sent anything else, is sent no broadcast twice and   *)
(* none out of order, and what a later client was sent is exactly the last    *)
(* part of what an earlier one was, but for the broadcast that has reached    *)
(* one of them and not yet the other.                                         *)
ClientsAgree ==
    /\ \A s \in Sockets : InOrder(sent[s])
    /\ \A s, t \in m_ClientIDs : (s \in todo <=> t \in todo) => SameEnd(sent[s], sent[t])

\* The same of what they have heard, with the last broadcast as its bound
HeardWell == /\ \A s \in Sockets : IF s \in m_ClientIDs THEN Len(Heard[s]) > 0 ELSE Heard[s] = <<>>
             /\ \A s \in Sockets : InOrder(Heard[s])
             /\ \A s \in Sockets : \A i \in 2..Len(Heard[s]) : Heard[s][i] <= last
             /\ \A s, t \in m_ClientIDs : SameEnd(Heard[s], Heard[t])

LEMMA HeardTyped ==
    ASSUME IInv
    PROVE  /\ Heard \in [Sockets -> Seq(Events)] /\ m_ClientIDs \subseteq Sockets
           /\ last \in Nat /\ Broadcasts \subseteq Nat
<1>1. sent \in [Sockets -> Seq(Events)] /\ event \in Events
  BY DEF IInv, TypeOK, ClientsTyped, QueueTyped, Messages, Events
<1>2. m_ClientIDs \subseteq Sockets
  BY BoundsAssumption DEF IInv, TypeOK, ClientsTyped, NetTyped, Sockets
<1>3. last \in Nat /\ Broadcasts \subseteq Nat
  BY BoundsAssumption DEF IInv, TypeOK, QueueTyped, Broadcasts
<1>4. ASSUME NEW s \in Sockets
      PROVE  Heard[s] \in Seq(Events)
  BY <1>1, AppendProperties DEF Heard
<1> QED
  BY <1>2, <1>3, <1>4 DEF Heard

\* An index into the shorter one, moved into the longer one
LEMMA Shifted ==
    ASSUME NEW a \in Nat, NEW b \in Nat, NEW d \in Nat, d = a - b
    PROVE  /\ b <= a /\ b + 1 + d = a + 1
           /\ \A i \in 2..b : i \in 1..b /\ i + d \in 1..a
OBVIOUS

LEMMA InitHeard == Init => HeardWell
BY DEF Init, Heard, HeardWell, InOrder, SameEnd

(* A client that joins, and a broadcast to all that have joined, keep it.     *)
LEMMA NextHeard == IInv /\ HeardWell /\ [Next]_vars => HeardWell'
<1> SUFFICES ASSUME IInv, HeardWell, [Next]_vars
             PROVE  HeardWell'
  OBVIOUS
<1>0. /\ Heard \in [Sockets -> Seq(Events)] /\ m_ClientIDs \subseteq Sockets
      /\ last \in Nat /\ Broadcasts \subseteq Nat
  BY HeardTyped
<1>1. CASE m_ClientIDs' = m_ClientIDs /\ Heard' = Heard /\ last' = last
  BY <1>1 DEF HeardWell
<1>2. ASSUME NEW s \in Sockets, Service!Join(s)
      PROVE  HeardWell'
  <2>1. /\ m_ClientIDs' = m_ClientIDs \cup {s} /\ last' = last /\ s \notin m_ClientIDs
        /\ Heard' = [Heard EXCEPT ![s] = <<ACCEPT_INCOMING>>]
    BY <1>2 DEF Service!Join, Heard
  <2>2. Heard'[s] = <<ACCEPT_INCOMING>> /\ \A t \in Sockets : t # s => Heard'[t] = Heard[t]
    BY <1>0, <2>1
  <2>3. Len(<<ACCEPT_INCOMING>>) = 1 /\ <<ACCEPT_INCOMING>>[1] = ACCEPT_INCOMING
    OBVIOUS
  <2>4. InOrder(<<ACCEPT_INCOMING>>)
    BY <2>3 DEF InOrder
  <2>5. \A t \in m_ClientIDs' : SameEnd(Heard'[s], Heard'[t]) /\ SameEnd(Heard'[t], Heard'[s])
    <3> SUFFICES ASSUME NEW t \in m_ClientIDs'
                 PROVE  SameEnd(Heard'[s], Heard'[t]) /\ SameEnd(Heard'[t], Heard'[s])
      OBVIOUS
    <3>1. Len(Heard'[t]) \in Nat
      BY <1>0, <2>1, <2>2, <2>3, LenProperties
    <3>2. \A i \in 2..1 : FALSE
      OBVIOUS
    <3>3. SameEnd(Heard'[t], Heard'[s])
      BY <2>2, <2>3, <3>2 DEF SameEnd
    <3>4. SameEnd(Heard'[s], Heard'[t])
      BY <2>2, <2>3, <3>1 DEF SameEnd
    <3> QED
      BY <3>3, <3>4
  <2>6. \A t \in Sockets : /\ IF t \in m_ClientIDs' THEN Len(Heard'[t]) > 0 ELSE Heard'[t] = <<>>
                           /\ InOrder(Heard'[t])
                           /\ \A i \in 2..Len(Heard'[t]) : Heard'[t][i] <= last'
    BY <2>1, <2>2, <2>3, <2>4 DEF HeardWell
  <2>7. \A t, u \in m_ClientIDs' : t # s /\ u # s => SameEnd(Heard'[t], Heard'[u])
    BY <1>0, <2>1, <2>2 DEF HeardWell
  <2> QED
    BY <2>5, <2>6, <2>7 DEF HeardWell
<1>3. ASSUME NEW b \in Broadcasts, Service!Broadcast(b)
      PROVE  HeardWell'
  <2>1. /\ b > last /\ last' = b /\ m_ClientIDs' = m_ClientIDs /\ b \in Nat /\ b \in Events
        /\ Heard' = [s \in Sockets |-> IF s \in m_ClientIDs THEN Append(Heard[s], b) ELSE Heard[s]]
    BY <1>0, <1>3 DEF Service!Broadcast, Heard, Events
  <2>2. ASSUME NEW s \in m_ClientIDs
        PROVE  /\ Len(Heard[s]) \in Nat /\ Len(Heard[s]) > 0 /\ Len(Heard'[s]) = Len(Heard[s]) + 1
               /\ \A i \in 1..Len(Heard[s]) : Heard'[s][i] = Heard[s][i]
               /\ Heard'[s][Len(Heard[s]) + 1] = b
    <3>1. Heard[s] \in Seq(Events) /\ Heard'[s] = Append(Heard[s], b) /\ s \in Sockets
      BY <1>0, <2>1, <2>2
    <3>2. Len(Heard[s]) > 0
      BY <2>2, <3>1 DEF HeardWell
    <3> QED
      BY <2>1, <3>1, <3>2, AppendProperties, LenProperties
  <2>3. ASSUME NEW s \in m_ClientIDs
        PROVE  InOrder(Heard'[s]) /\ \A i \in 2..Len(Heard'[s]) : Heard'[s][i] <= last'
    <3>1. InOrder(Heard[s]) /\ \A i \in 2..Len(Heard[s]) : Heard[s][i] <= last
      BY <1>0, <2>3 DEF HeardWell
    <3>2. \A i \in 2..Len(Heard'[s]) :
              \/ i \in 2..Len(Heard[s]) /\ Heard'[s][i] = Heard[s][i]
              \/ i = Len(Heard[s]) + 1 /\ Heard'[s][i] = b
      BY <2>2, <2>3
    <3>3. Heard'[s][1] = ACCEPT_INCOMING
      BY <2>2, <2>3, <3>1 DEF InOrder
    <3>4. ASSUME NEW i \in 2..Len(Heard'[s])
          PROVE  Heard'[s][i] \in Broadcasts /\ Heard'[s][i] <= b
      <4>1. CASE i \in 2..Len(Heard[s]) /\ Heard'[s][i] = Heard[s][i]
        <5>1. Heard[s][i] \in Broadcasts /\ Heard[s][i] <= last
          BY <3>1, <4>1 DEF InOrder
        <5>2. Heard[s][i] \in Nat
          BY <1>0, <5>1
        <5> QED
          BY <1>0, <2>1, <4>1, <5>1, <5>2
      <4>2. CASE Heard'[s][i] = b
        BY <2>1, <4>2
      <4> QED
        BY <3>2, <4>1, <4>2
    <3>5. ASSUME NEW i \in 2..Len(Heard'[s]), NEW j \in 2..Len(Heard'[s]), i < j
          PROVE  Heard'[s][i] < Heard'[s][j]
      <4>1. i \in 2..Len(Heard[s]) /\ Heard'[s][i] = Heard[s][i]
        BY <2>2, <2>3, <3>5
      <4>2. Heard[s][i] \in Nat /\ Heard[s][i] <= last
        BY <1>0, <3>1, <4>1 DEF InOrder
      <4>3. CASE j \in 2..Len(Heard[s]) /\ Heard'[s][j] = Heard[s][j]
        BY <3>1, <3>5, <4>1, <4>3 DEF InOrder
      <4>4. CASE Heard'[s][j] = b
        BY <1>0, <2>1, <4>1, <4>2, <4>4
      <4> QED
        BY <3>2, <4>3, <4>4
    <3> QED
      BY <2>1, <3>3, <3>4, <3>5 DEF InOrder
  <2>4. ASSUME NEW s \in Sockets, s \notin m_ClientIDs
        PROVE  Heard'[s] = Heard[s] /\ Heard[s] = <<>>
    BY <1>0, <2>1, <2>4 DEF HeardWell
  <2>5. ASSUME NEW s \in m_ClientIDs, NEW t \in m_ClientIDs, Len(Heard'[t]) <= Len(Heard'[s]),
               NEW i \in 2..Len(Heard'[t])
        PROVE  Heard'[t][i] = Heard'[s][i + (Len(Heard'[s]) - Len(Heard'[t]))]
    <3>s. /\ Len(Heard[s]) \in Nat /\ Len(Heard'[s]) = Len(Heard[s]) + 1
          /\ \A k \in 1..Len(Heard[s]) : Heard'[s][k] = Heard[s][k]
          /\ Heard'[s][Len(Heard[s]) + 1] = b
      BY <2>2, <2>5
    <3>t. /\ Len(Heard[t]) \in Nat /\ Len(Heard'[t]) = Len(Heard[t]) + 1
          /\ \A k \in 1..Len(Heard[t]) : Heard'[t][k] = Heard[t][k]
          /\ Heard'[t][Len(Heard[t]) + 1] = b
      BY <2>2, <2>5
    <3>1. PICK d \in Nat : /\ d = Len(Heard[s]) - Len(Heard[t])
                           /\ d = Len(Heard'[s]) - Len(Heard'[t])
      <4>1. /\ Len(Heard[s]) \in Nat /\ Len(Heard'[s]) = Len(Heard[s]) + 1
            /\ Len(Heard[t]) \in Nat /\ Len(Heard'[t]) = Len(Heard[t]) + 1
            /\ Len(Heard'[t]) <= Len(Heard'[s])
        BY <2>5, <3>s, <3>t
      <4>2. /\ Len(Heard[s]) - Len(Heard[t]) \in Nat
            /\ Len(Heard[s]) - Len(Heard[t]) = Len(Heard'[s]) - Len(Heard'[t])
        BY <4>1
      <4> QED
        BY <4>2
    <3>2. CASE i = Len(Heard[t]) + 1
      <4>1. i + d = Len(Heard[s]) + 1
        <5>1. Len(Heard[t]) + 1 + d = Len(Heard[s]) + 1
          BY <3>1, <3>s, <3>t, Shifted
        <5> QED
          BY <3>2, <5>1
      <4> QED
        BY <3>1, <3>2, <3>s, <3>t, <4>1
    <3>3. CASE i # Len(Heard[t]) + 1
      <4>1. i \in 2..Len(Heard[t]) /\ i \in 1..Len(Heard[t]) /\ i + d \in 1..Len(Heard[s])
        <5>1. i \in 2..Len(Heard[t])
          BY <2>5, <3>3, <3>t
        <5> QED
          BY <3>1, <3>s, <3>t, <5>1, Shifted
      <4>2. Len(Heard[t]) <= Len(Heard[s])
        BY <3>1, <3>s, <3>t, Shifted
      <4>3. SameEnd(Heard[s], Heard[t])
        BY <2>5 DEF HeardWell
      <4>4. Heard[t][i] = Heard[s][i + d]
        BY <3>1, <4>1, <4>2, <4>3 DEF SameEnd
      <4> QED
        BY <3>1, <3>s, <3>t, <4>1, <4>4
    <3> QED
      BY <3>2, <3>3
  <2>6. \A s, t \in m_ClientIDs' : SameEnd(Heard'[s], Heard'[t])
    BY <2>1, <2>5 DEF SameEnd
  <2>7. \A s \in Sockets : IF s \in m_ClientIDs' THEN Len(Heard'[s]) > 0 ELSE Heard'[s] = <<>>
    BY <2>1, <2>2, <2>4
  <2>8. \A s \in Sockets : InOrder(Heard'[s]) /\ \A i \in 2..Len(Heard'[s]) : Heard'[s][i] <= last'
    <3>1. InOrder(<<>>)
      BY DEF InOrder
    <3> QED
      BY <2>3, <2>4, <3>1
  <2> QED
    BY <2>6, <2>7, <2>8 DEF HeardWell
<1> QED
  BY <1>1, <1>2, <1>3, NextImplements DEF Service!Next, Service!vars, Heard

(* The clients of a service agree on what was broadcast, for every size of    *)
(* the queue and any numbers of clients and broadcasts                        *)
(* (XLServingThread.cpp:119-162).                                             *)
THEOREM Agreement == Spec => []ClientsAgree
<1>1. ASSUME IInv, HeardWell
      PROVE  ClientsAgree
  <2>0. /\ Heard \in [Sockets -> Seq(Events)] /\ m_ClientIDs \subseteq Sockets
        /\ last \in Nat /\ Broadcasts \subseteq Nat
        /\ sent \in [Sockets -> Seq(Events)] /\ event \in Events
    BY <1>1, HeardTyped DEF IInv, TypeOK, ClientsTyped, QueueTyped, Messages, Events
  <2>1. ASSUME NEW s \in Sockets
        PROVE  /\ Len(sent[s]) \in Nat
               /\ Len(Heard[s]) = Len(sent[s]) + IF s \in todo THEN 1 ELSE 0
               /\ \A i \in 1..Len(sent[s]) : sent[s][i] = Heard[s][i]
    BY <2>0, <2>1, AppendProperties, LenProperties DEF Heard
  <2>2. ASSUME NEW s \in Sockets
        PROVE  InOrder(sent[s])
    <3>1. /\ Len(sent[s]) \in Nat /\ Len(Heard[s]) \in Nat /\ Len(sent[s]) <= Len(Heard[s])
          /\ \A i \in 1..Len(sent[s]) : sent[s][i] = Heard[s][i]
      BY <2>0, <2>1, <2>2
    <3>2. InOrder(Heard[s])
      BY <1>1, <2>2 DEF HeardWell
    <3>3. /\ Len(sent[s]) > 0 => Len(Heard[s]) > 0 /\ 1 \in 1..Len(sent[s])
          /\ \A i \in 2..Len(sent[s]) : i \in 2..Len(Heard[s]) /\ i \in 1..Len(sent[s])
      BY <3>1
    <3>4. Len(sent[s]) > 0 => sent[s][1] = ACCEPT_INCOMING
      BY <3>1, <3>2, <3>3 DEF InOrder
    <3>5. \A i \in 2..Len(sent[s]) : sent[s][i] = Heard[s][i]
      BY <3>1, <3>3
    <3> QED
      BY <3>2, <3>3, <3>4, <3>5 DEF InOrder
  <2>3. ASSUME NEW s \in m_ClientIDs, NEW t \in m_ClientIDs, s \in todo <=> t \in todo
        PROVE  SameEnd(sent[s], sent[t])
    <3>0. s \in Sockets /\ t \in Sockets
      BY <2>0, <2>3
    <3>1. SameEnd(Heard[s], Heard[t])
      BY <1>1, <2>3 DEF HeardWell
    <3>2. PICK k \in {0, 1} : Len(Heard[s]) = Len(sent[s]) + k /\ Len(Heard[t]) = Len(sent[t]) + k
      <4>1. CASE s \in todo
        BY <2>1, <2>3, <3>0, <4>1
      <4>2. CASE s \notin todo
        BY <2>1, <2>3, <3>0, <4>2
      <4> QED
        BY <4>1, <4>2
    <3>s. Len(sent[s]) \in Nat /\ \A i \in 1..Len(sent[s]) : sent[s][i] = Heard[s][i]
      BY <2>1, <3>0
    <3>t. Len(sent[t]) \in Nat /\ \A i \in 1..Len(sent[t]) : sent[t][i] = Heard[t][i]
      BY <2>1, <3>0
    <3>3. ASSUME Len(sent[t]) <= Len(sent[s]), NEW i \in 2..Len(sent[t])
          PROVE  sent[t][i] = sent[s][i + (Len(sent[s]) - Len(sent[t]))]
      <4>1. PICK d \in Nat : d = Len(sent[s]) - Len(sent[t]) /\ d = Len(Heard[s]) - Len(Heard[t])
        <5>1. /\ Len(sent[s]) \in Nat /\ Len(sent[t]) \in Nat /\ Len(sent[t]) <= Len(sent[s])
              /\ k \in Nat /\ Len(Heard[s]) = Len(sent[s]) + k /\ Len(Heard[t]) = Len(sent[t]) + k
          BY <3>2, <3>3, <3>s, <3>t
        <5>2. /\ Len(sent[s]) - Len(sent[t]) \in Nat
              /\ Len(sent[s]) - Len(sent[t]) = Len(Heard[s]) - Len(Heard[t])
          BY <5>1
        <5> QED
          BY <5>2
      <4>2. i \in 1..Len(sent[t]) /\ i + d \in 1..Len(sent[s]) /\ i \in 2..Len(Heard[t])
        <5>1. i \in 2..Len(Heard[t])
          BY <3>2, <3>3, <3>t
        <5> QED
          BY <3>3, <3>s, <3>t, <4>1, <5>1, Shifted
      <4>3. Len(Heard[t]) <= Len(Heard[s])
        BY <3>2, <3>3, <3>s, <3>t
      <4>4. Heard[t][i] = Heard[s][i + d]
        BY <3>1, <4>1, <4>2, <4>3 DEF SameEnd
      <4> QED
        BY <3>s, <3>t, <4>1, <4>2, <4>4
    <3> QED
      BY <3>3 DEF SameEnd
  <2> QED
    BY <2>2, <2>3 DEF ClientsAgree
<1> QED
  BY <1>1, InitHeard, NextHeard, Invariance, PTL DEF Spec

--------------------------------------------------------------------------------
\* A call of the service has a step to take: a guard of CallerStep holds.
CallerReady == \/ cpc \in {"started", "exit1", "again", "exit2", "members"}
               \/ cpc \in {"join1", "join2"} /\ (~AcceptorCreated \/ apc = "ended" \/ ~m_bExit)
               \/ cpc = "destroy" /\ epc \in {"gone", "ended"}

\* The acceptor has one: a guard of AcceptorStep holds.
AcceptorReady ==
    \/ apc \in {"push", "put", "loop"}
    \/ apc \in {"begin", "accept"} /\ socket = "deleted"
    \/ apc = "begin" /\ socket = "alive" /\ (AcceptorCreated \/ m_AcceptorThread)
    \/ apc = "accept" /\ socket = "alive" /\ (listening => waiting > 0)

\* The serving thread has one: a guard of ServingStep holds.
ServingReady == \/ epc \in {"begin", "on", "start", "assign", "alarm", "broadcast"}
                \/ epc = "get" /\ queue # <<>>

(* A start or a stop of the service that has not come to its end has a step   *)
(* to take, or the thread that it waits for has one, unless the acceptor      *)
(* waits for one more client, or a thread is stuck in its start, or the queue *)
(* holds nothing at all (XLServer.cpp:86-94, XLServingThread.cpp:73-86,       *)
(* XLAcceptorThread.cpp:27-56).  It is the part of StopEndsUnless that needs  *)
(* no fairness: there is no other deadlock.                                   *)
StopNotBlocked ==
    cpc \notin {"none", "up", "done"} /\ ended = "no" =>
        \/ CallerReady
        \/ cpc \in {"join1", "join2"} /\ AcceptorReady
        \/ cpc = "destroy" /\ ServingReady
        \/ NoClient \/ apc = "stuck" \/ epc = "stuck" \/ mMaxSize = 0

\* START_THREAD is on its way to the alarm, or its thread has left.
StartComes == \/ \E i \in 1..Len(queue) : queue[i] = START_THREAD
              \/ epc = "on" /\ event = START_THREAD
              \/ epc \in {"start", "assign", "alarm", "gone", "stuck", "ended"}
              \/ alarm

\* What each of the threads has done where the others wait for it
Awaited == /\ socket = "none" => cpc \in {"none", "started"}
           /\ epc = "none" => cpc = "none"
           /\ cpc = "destroy" => members = "destroyed"
           /\ m_bExit => apc # "none"
           /\ apc # "none" => m_AcceptorThread \/ socket = "deleted"
           /\ m_bExit /\ apc \in {"begin", "accept"} => told = accepted

\* The thread that sets the alarm comes to it, where its event fits into the queue.
AlarmComes == mMaxSize > 0 /\ cpc \notin {"none", "started"} => StartComes

LEMMA CallsAwaited ==
    ASSUME IInv, Awaited, StartAService \/ Broadcast \/ StopCall \/ CallerStep
    PROVE  Awaited'
<1> USE DEF net, clients, acceptor, service, counters, Caller
<1>1. CASE StartAService
  BY <1>1 DEF Awaited, StartAService
<1>2. CASE StartPut
  BY <1>2 DEF Awaited, StartPut, IInv, Starts
<1>3. CASE Broadcast
  BY <1>3 DEF Awaited, Broadcast
<1>4. CASE StopCall \/ Stop("again", "join2", "exit2")
  BY <1>4 DEF Awaited, StopCall, Stop
<1>5. CASE StopSignal("join1") \/ StopSignal("join2")
  BY <1>5 DEF Awaited, StopSignal, AcceptorCreated
<1>6. CASE StopJoin("join1", "exit1") \/ StopJoin("join2", "exit2")
  BY <1>6 DEF Awaited, StopJoin
<1>7. CASE StopExit("exit1", "again") \/ StopExit("exit2", "members")
  BY <1>7 DEF Awaited, StopExit
<1>8. CASE DestroyMembers
  BY <1>8 DEF Awaited, DestroyMembers
<1>9. CASE DestroyThread
  BY <1>9 DEF Awaited, DestroyThread
<1> QED
  BY <1>1, <1>2, <1>3, <1>4, <1>5, <1>6, <1>7, <1>8, <1>9 DEF CallerStep

LEMMA ThreadsAwaited ==
    ASSUME IInv, Awaited, ServingStep \/ AcceptorStep \/ AlarmRanOut \/ Connect \/ Close
    PROVE  Awaited'
<1> USE DEF net, clients, acceptor, service, counters, Serving, Acceptor
<1>1. CASE StartAcceptor
  <2>1. apc = "none" /\ ~m_bExit /\ m_bExit' = m_bExit
    BY <1>1 DEF StartAcceptor, Awaited, IInv, Starts
  <2>2. /\ epc' = "assign" /\ UNCHANGED <<cpc, socket, members, told, accepted, m_AcceptorThread>>
        /\ apc' = "none" \/ m_AcceptorThread
    BY <1>1, <2>1 DEF StartAcceptor
  <2> QED
    BY <2>1, <2>2 DEF Awaited
<1>2. CASE Begin \/ Get \/ OnExit \/ OnStart \/ AssignHandle \/ SetAlarm
  <2>1. /\ UNCHANGED <<cpc, socket, members, m_bExit, apc, told, accepted>>
        /\ epc' # "none"
        /\ m_AcceptorThread' = m_AcceptorThread \/ m_AcceptorThread'
    BY <1>2 DEF Begin, Get, OnExit, OnStart, AssignHandle, SetAlarm
  <2> QED
    BY <2>1 DEF Awaited
<1>3. CASE OnAcceptIncoming \/ OnBroadcast \/ BroadcastStep \/ UseMembers
  <2>1. /\ UNCHANGED <<cpc, socket, members, m_bExit, apc, told, accepted, m_AcceptorThread>>
        /\ epc' # "none"
    BY <1>3 DEF OnAcceptIncoming, OnBroadcast, BroadcastStep, UseMembers
  <2> QED
    BY <2>1 DEF Awaited
<1>4. CASE AcceptorBegin
  BY <1>4 DEF AcceptorBegin, Awaited
<1>5. CASE Loop
  BY <1>5 DEF Loop, Awaited
<1>6. CASE Accept
  BY <1>6 DEF Accept, Awaited
<1>7. CASE Push("push", "put") \/ PutAccept("put", "loop")
  BY <1>7 DEF Push, PutAccept, Awaited
<1>8. CASE AcceptorLeft
  BY <1>8 DEF AcceptorLeft, Awaited
<1>9. CASE AlarmRanOut \/ Connect \/ Close
  BY <1>9 DEF AlarmRanOut, Connect, Close, Awaited
<1> QED
  BY <1>1, <1>2, <1>3, <1>4, <1>5, <1>6, <1>7, <1>8, <1>9
     DEF ServingStep, AcceptorStep, OnAccept

(* Whatever is put, START_THREAD stays where it is.                           *)
LEMMA PutKeepsStart ==
    ASSUME QueueTyped, NEW e \in Events, Put(e), StartComes, UNCHANGED <<epc, event, alarm>>
    PROVE  StartComes'
<1>1. /\ Len(queue) \in Nat /\ Len(queue') \in Nat /\ Len(queue) <= Len(queue')
      /\ \A i \in 1..Len(queue') : \/ i <= Len(queue) /\ queue'[i] = queue[i]
                                   \/ i = Len(queue) + 1 /\ queue'[i] = e
  BY PutFacts
<1>2. ASSUME NEW i \in 1..Len(queue), queue[i] = START_THREAD
      PROVE  i \in 1..Len(queue') /\ queue'[i] = START_THREAD
  BY <1>1, <1>2
<1> QED
  BY <1>2 DEF StartComes

LEMMA NextAlarmComes ==
    ASSUME IInv, AlarmComes, Next
    PROVE  AlarmComes'
<1> USE DEF net, clients, acceptor, service, counters
<1>0. QueueTyped /\ Starts
  BY DEF IInv, TypeOK
<1>1. mMaxSize' = mMaxSize
  OBVIOUS
<1>2. CASE StartPut
  <2>1. queue = <<>> /\ Put(START_THREAD)
    BY <1>0, <1>2 DEF StartPut, Caller, Starts
  <2>2. ASSUME mMaxSize > 0
        PROVE  queue' = <<START_THREAD>>
    BY <2>1, <2>2, BoundsAssumption DEF Put, Full, Fifo!Enqueue
  <2>3. ASSUME mMaxSize > 0
        PROVE  StartComes'
    BY <2>2, <2>3 DEF StartComes
  <2> QED
    BY <2>3 DEF AlarmComes
<1>3. ASSUME Next, ~StartPut
      PROVE  cpc' \notin {"none", "started"} => cpc \notin {"none", "started"}
  <2>1. CASE StartAService \/ Broadcast \/ StopCall \/ CallerStep
    BY <1>3, <2>1 DEF StartAService, Broadcast, StopCall, CallerStep, Stop, StopSignal, StopJoin,
                      StopExit, DestroyMembers, DestroyThread, Caller
  <2>2. CASE ServingStep
    BY <2>2 DEF ServingStep, Begin, Get, OnExit, OnStart, StartAcceptor, AssignHandle, SetAlarm,
                OnAcceptIncoming, OnBroadcast, BroadcastStep, UseMembers
  <2>3. CASE AcceptorStep \/ AlarmRanOut \/ Connect \/ Close
    BY <2>3 DEF AcceptorStep, AcceptorBegin, Loop, Accept, OnAccept, Push, PutAccept, AcceptorLeft,
                AlarmRanOut, Connect, Close
  <2> QED
    BY <1>3, <2>1, <2>2, <2>3 DEF Next
<1>4. ASSUME StartComes, Next, ~StartPut, cpc \notin {"none", "started"}
      PROVE  StartComes'
  <2>1. CASE Broadcast
    <3>1. broadcasts + 1 \in Events
      BY <1>0, <2>1, BoundsAssumption DEF Broadcast, QueueTyped, Events, Broadcasts
    <3> QED
      BY <1>0, <1>4, <2>1, <3>1, PutKeepsStart DEF Broadcast
  <2>2. CASE StopExit("exit1", "again") \/ StopExit("exit2", "members")
    BY <1>0, <1>4, <2>2, PutKeepsStart, EventKinds DEF StopExit
  <2>3. CASE PutAccept("put", "loop")
    BY <1>0, <1>4, <2>3, PutKeepsStart, EventKinds DEF PutAccept
  <2>4. CASE \/ StopCall \/ Stop("again", "join2", "exit2")
             \/ StopSignal("join1") \/ StopJoin("join1", "exit1")
             \/ StopSignal("join2") \/ StopJoin("join2", "exit2")
             \/ DestroyMembers \/ DestroyThread
    BY <1>4, <2>4 DEF StopCall, Stop, StopSignal, StopJoin, DestroyMembers, DestroyThread,
                      StartComes
  <2>5. CASE Get
    <3>1. /\ epc = "get" /\ epc' = "on" /\ alarm' = alarm
          /\ queue # <<>> /\ event' = Head(queue) /\ queue' = Tail(queue)
      BY <2>5 DEF Get, Serving, Fifo!Dequeue
    <3>2. /\ Len(queue) \in Nat /\ Len(queue') = Len(queue) - 1 /\ Head(queue) = queue[1]
          /\ \A i \in 1..Len(queue') : queue'[i] = queue[i + 1]
      BY <1>0, <3>1, HeadTailProperties DEF QueueTyped
    <3>3. ASSUME NEW i \in 1..Len(queue), queue[i] = START_THREAD, i # 1
          PROVE  i - 1 \in 1..Len(queue') /\ queue'[i - 1] = START_THREAD
      BY <3>2, <3>3
    <3> QED
      BY <1>4, <3>1, <3>2, <3>3 DEF StartComes
  <2>6. CASE Begin \/ OnExit \/ OnStart \/ StartAcceptor \/ AssignHandle \/ SetAlarm
    BY <1>4, <2>6 DEF Begin, OnExit, OnStart, StartAcceptor, AssignHandle, SetAlarm, Serving,
                      StartComes
  <2>7. CASE OnAcceptIncoming
    BY <1>4, <2>7, EventKinds DEF OnAcceptIncoming, Serving, StartComes
  <2>8. CASE OnBroadcast
    BY <1>4, <2>8, EventKinds DEF OnBroadcast, Serving, StartComes
  <2>9. CASE BroadcastStep \/ UseMembers
    BY <1>4, <2>9 DEF BroadcastStep, UseMembers, Serving, StartComes
  <2>10. CASE \/ AcceptorBegin \/ Loop \/ Accept \/ Push("push", "put") \/ AcceptorLeft
              \/ AlarmRanOut \/ Connect \/ Close
    BY <1>4, <2>10 DEF AcceptorBegin, Loop, Accept, Push, AcceptorLeft, AlarmRanOut, Connect, Close,
                       StartComes
  <2>11. ~StartAService
    BY <1>4 DEF StartAService, Caller
  <2> QED
    BY <1>4, <2>1, <2>2, <2>3, <2>4, <2>5, <2>6, <2>7, <2>8, <2>9, <2>10, <2>11
       DEF Next, CallerStep, ServingStep, AcceptorStep, OnAccept
<1> QED
  BY <1>1, <1>2, <1>3, <1>4 DEF AlarmComes

LEMMA NextAwaited ==
    IInv /\ Awaited /\ AlarmComes /\ [Next]_vars => Awaited' /\ AlarmComes'
<1> SUFFICES ASSUME IInv, Awaited, AlarmComes, [Next]_vars
             PROVE  Awaited' /\ AlarmComes'
  OBVIOUS
<1>1. CASE UNCHANGED vars
  BY <1>1 DEF vars, net, clients, acceptor, service, counters, Awaited, AlarmComes, StartComes
<1>2. CASE Next
  BY <1>2, CallsAwaited, ThreadsAwaited, NextAlarmComes DEF Next
<1> QED
  BY <1>1, <1>2

(* The start and the stop of a service have no other deadlock than those that *)
(* StopNotBlocked names, for every size of the queue and any numbers of       *)
(* clients and broadcasts (XLServer.cpp:86-94, XLServingThread.cpp:73-86).    *)
THEOREM NoOtherDeadlock == Spec => []StopNotBlocked
<1>1. ASSUME IInv, Awaited, AlarmComes
      PROVE  StopNotBlocked
  <2>0. PlacesTyped /\ ServiceTyped /\ QueueTyped /\ Limits /\ Alarmed /\ Starts
    BY <1>1 DEF IInv, TypeOK
  <2> SUFFICES ASSUME cpc \notin {"none", "up", "done"}, ended = "no", mMaxSize # 0
               PROVE  \/ CallerReady
                      \/ cpc \in {"join1", "join2"} /\ AcceptorReady
                      \/ cpc = "destroy" /\ ServingReady
                      \/ NoClient \/ apc = "stuck" \/ epc = "stuck"
    BY DEF StopNotBlocked
  <2>1. CASE cpc \in {"join1", "join2"}
    <3>1. CASE apc = "accept" /\ m_bExit
      <4>1. told = accepted /\ socket \in {"alive", "deleted"}
        BY <1>1, <2>0, <2>1, <3>1 DEF Awaited, ServiceTyped
      <4>2. CASE socket = "alive" /\ listening /\ ~(waiting > 0)
        <5>1. waiting = 0
          BY <1>1, <4>2 DEF IInv, TypeOK, NetTyped
        <5> QED
          BY <3>1, <4>1, <4>2, <5>1 DEF NoClient
      <4> QED
        BY <2>1, <3>1, <4>1, <4>2 DEF AcceptorReady, CallerReady, AcceptorCreated
    <3>2. CASE apc # "accept" \/ ~m_bExit
      <4>1. apc # "none" => m_AcceptorThread \/ socket = "deleted"
        BY <1>1 DEF Awaited
      <4>2. socket \in {"alive", "deleted"}
        BY <1>1, <2>0, <2>1 DEF Awaited, ServiceTyped
      <4> QED
        BY <2>0, <2>1, <3>2, <4>1, <4>2
           DEF PlacesTyped, CallerReady, AcceptorReady, AcceptorCreated
    <3> QED
      BY <3>1, <3>2
  <2>2. CASE cpc = "destroy"
    <3>1. members = "destroyed" /\ ~alarm /\ epc # "none"
      BY <1>1, <2>0, <2>2 DEF Awaited, Alarmed
    <3>2. CASE epc = "get" /\ queue = <<>>
      <4>1. StartComes
        BY <1>1, <2>2, BoundsAssumption DEF AlarmComes
      <4>2. Len(queue) = 0
        BY <3>2
      <4> QED
        BY <3>1, <3>2, <4>1, <4>2 DEF StartComes
    <3> QED
      BY <2>0, <2>2, <3>1, <3>2 DEF PlacesTyped, CallerReady, ServingReady
  <2>3. CASE cpc \notin {"join1", "join2", "destroy"}
    BY <2>0, <2>3 DEF PlacesTyped, CallerReady
  <2> QED
    BY <2>1, <2>2, <2>3
<1>2. Init => Awaited /\ AlarmComes
  BY DEF Init, Awaited, AlarmComes
<1> QED
  BY <1>1, <1>2, NextAwaited, Invariance, PTL DEF Spec
================================================================================
