------------------------- MODULE XLEventThread_proofs -------------------------
(***************************************************************************)
(* XLEventThread for every size of the queue and every number of events,   *)
(* Exits and lives: the queue outlives the thread that reads it, and an    *)
(* Exit ends the loop for good.                                            *)
(***************************************************************************)
EXTENDS XLEventThread, SequenceTheorems, TLAPS

\* Where the owner is, and with it what is created and where the thread may be.
Places == /\ qCreated <=> mpc \in {"mark", "up", "destroy"}
          /\ mCreated <=> mpc \in {"up", "destroy", "unmark"}
          /\ mpc \in {"out", "unmark"} => tpc[This] = "none"
          /\ mpc \in {"out", "mark", "up", "unmark"} => opc[This] = "idle"
          /\ opc[This] \in {"spawn", "assign", "give1"} => mpc = "create"
          /\ opc[This] \in {"take2", "destroy1", "destroy2", "join"} => mpc = "destroy"
          /\ opc[This] = "spawn" => tpc[This] = "none"
          /\ mpc = "destroy" /\ opc[This] = "idle" => tpc[This] = "none"
          /\ rpc # "none" => mCreated /\ mpc # "unmark"

\* The permits and the elements found are elements of the list, which is bounded.
Counted == Len(mQ) <= mMaxSize /\ (qCreated => Len(mQ) = mSem + left)

\* Events are numbered in the order in which they are put.
Numbered == /\ \A i \in 1..Len(mQ) : mQ[i] <= puts
            /\ \A i \in 1..Len(handled) : handled[i] <= puts
            /\ mEvent <= puts /\ stopped <= puts

\* An Exit in the list with nothing before it that was put behind it
ExitAhead == \E k \in 1..Len(mQ) : mQ[k] = Exit /\ \A j \in 1..(k - 1) : mQ[j] <= stopped

\* Once an Exit is put, the thread has taken it or finds it before any later event.
ExitComes == /\ mExit => rpc \in {"none", "loop"}
             /\ stopped >= 0 => \/ mExit
                                \/ rpc = "on" /\ mEvent = Exit
                                \/ ExitAhead /\ (rpc = "on" => mEvent <= stopped)

IInv == TypeOK /\ Places /\ Counted /\ Numbered /\ ExitComes /\ ExitIsLast

--------------------------------------------------------------------------------
(* The steps of XLSimpleThreads keep its types.                               *)
LEMMA ThreadTypes ==
    ASSUME Th!TypeOK,
           \/ Th!CreateStart(This) \/ Th!DestroyStart(This)
           \/ Th!OwnerStep(This) \/ Th!ThreadStep(This) \/ Th!RunReturns(This)
    PROVE  Th!TypeOK'
<1> USE DEF Th!TypeOK, Th!Owner, Th!Thread
<1>0. Th!Fresh \in Th!Semaphore /\ Th!Dead \in Th!Semaphore
  BY DEF Th!Semaphore, Th!Fresh, Th!Dead
<1>1. CASE Th!CreateStart(This)
  BY <1>0, <1>1 DEF Th!CreateStart
<1>2. CASE Th!DestroyStart(This)
  BY <1>2 DEF Th!DestroyStart
<1>3. CASE Th!OwnerStep(This)
  <2>1. CASE Th!CreateSpawn(This) \/ Th!CreateAssign(This) \/ Th!DestroyJoin(This)
    BY <2>1 DEF Th!CreateSpawn, Th!CreateAssign, Th!DestroyJoin
  <2>2. CASE Th!CreateGive(This) \/ Th!DestroyTake(This)
    BY <2>2 DEF Th!CreateGive, Th!DestroyTake, Th!Semaphore
  <2>3. CASE Th!DestroySync1(This) \/ Th!DestroySync2(This)
    BY <1>0, <2>3 DEF Th!DestroySync1, Th!DestroySync2
  <2> QED
    BY <1>3, <2>1, <2>2, <2>3 DEF Th!OwnerStep
<1>4. CASE Th!ThreadStep(This)
  <2>1. CASE Th!TakeTest(This) \/ Th!Check(This)
    BY <2>1 DEF Th!TakeTest, Th!Check
  <2>2. CASE Th!TakeDone(This)
    BY <2>2 DEF Th!TakeDone, Th!Semaphore
  <2>3. CASE Th!Finish(This)
    BY <2>3 DEF Th!Finish, Th!Semaphore
  <2> QED
    BY <1>4, <2>1, <2>2, <2>3 DEF Th!ThreadStep
<1>5. CASE Th!RunReturns(This)
  BY <1>5 DEF Th!RunReturns
<1> QED
  BY <1>1, <1>2, <1>3, <1>4, <1>5

(* How the owner's steps in XLSimpleThreads move it and the thread: a Create  *)
(* under way ends idle, a Destroy ends idle with the thread joined.           *)
LEMMA OwnerMoves ==
    ASSUME Th!TypeOK, Th!OwnerStep(This)
    PROVE  \/ opc[This] = "spawn" /\ opc'[This] = "assign" /\ tpc'[This] = "started"
           \/ opc[This] = "assign" /\ opc'[This] = "give1" /\ tpc' = tpc
           \/ opc[This] = "give1" /\ opc'[This] = "idle" /\ tpc' = tpc
           \/ /\ opc[This] \in {"take2", "destroy1", "destroy2"}
              /\ opc'[This] \in {"destroy1", "destroy2", "join"}
              /\ tpc' = tpc
           \/ /\ opc[This] = "join" /\ opc'[This] = "idle"
              /\ tpc[This] = "ended" /\ tpc'[This] = "none"
BY DEF Th!TypeOK, Th!OwnerStep, Th!CreateSpawn, Th!CreateAssign, Th!CreateGive, Th!DestroyTake,
       Th!DestroySync1, Th!DestroySync2, Th!DestroyJoin, Th!Owner, Th!Thread

(* The thread's own steps outside RunProgram leave the owner where it is.     *)
LEMMA ThreadMoves ==
    ASSUME Th!TypeOK, Th!ThreadStep(This) \/ Th!RunReturns(This)
    PROVE  /\ opc' = opc
           /\ tpc[This] # "none" /\ tpc'[This] # "none"
           /\ Th!ThreadStep(This) => tpc[This] # "run"
BY DEF Th!TypeOK, Th!ThreadStep, Th!RunReturns, Th!TakeTest, Th!TakeDone, Th!Check, Th!Finish,
       Th!Thread

(* The object starts with nothing created and nothing read.                   *)
LEMMA InitIInv == Init => IInv
<1> SUFFICES ASSUME Init
             PROVE  IInv
  OBVIOUS
<1> USE DEF Init
<1>1. Th!TypeOK
  BY DEF Th!Init, Th!TypeOK, Th!Dead, Th!Semaphore
<1>2. PlacesTyped /\ ValuesTyped
  <2>1. PlacesTyped
    BY DEF PlacesTyped
  <2>2. mQ \in Seq(Events \cup {Exit}) /\ handled \in Seq(Events) /\ mEvent \in Events \cup {Exit}
    OBVIOUS
  <2>3. ValuesTyped
    BY <2>2, BoundsAssumption DEF ValuesTyped
  <2> QED
    BY <2>1, <2>3
<1>3. TypeOK
  BY <1>1, <1>2 DEF TypeOK
<1>4. Places
  BY DEF Places, Th!Init
<1>5. Counted /\ Numbered /\ ExitComes /\ ExitIsLast
  BY BoundsAssumption DEF Counted, Numbered, ExitComes, ExitIsLast, Exit
<1> QED
  BY <1>3, <1>4, <1>5 DEF IInv

--------------------------------------------------------------------------------
(* Events are numbers, in the list and where they are handled.                *)
LEMMA EventsAreNumbers ==
    ASSUME ValuesTyped
    PROVE  /\ \A i \in 1..Len(mQ) : mQ[i] \in Int
           /\ \A i \in 1..Len(handled) : handled[i] \in Int
           /\ mEvent \in Int /\ stopped \in Int /\ puts \in Int
           /\ Len(mQ) \in Nat /\ Len(handled) \in Nat
<1>1. \A i \in 1..Len(mQ) : mQ[i] \in Events \cup {Exit}
  BY ElementOfSeq DEF ValuesTyped
<1>2. \A i \in 1..Len(handled) : handled[i] \in Events
  BY ElementOfSeq DEF ValuesTyped
<1>3. Events \cup {Exit} \subseteq Int
  BY DEF Events, Exit
<1> QED
  BY <1>1, <1>2, <1>3, LenProperties DEF ValuesTyped

(* A Put that is accepted links one element more and gives one permit.        *)
LEMMA AcceptIInv ==
    ASSUME IInv, NEW e \in Events \cup {Exit}, Accept(e)
    PROVE  /\ mQ' \in Seq(Events \cup {Exit}) /\ mSem' \in Nat
           /\ Counted'
           /\ Len(mQ') = Len(mQ) + 1 /\ mQ'[Len(mQ) + 1] = e
           /\ \A i \in 1..Len(mQ) : mQ'[i] = mQ[i]
<1> USE DEF IInv, TypeOK, ValuesTyped, Accept
<1>1. Len(mQ) \in Nat /\ mQ' = Append(mQ, e)
  BY LenProperties
<1>2. /\ mQ' \in Seq(Events \cup {Exit})
      /\ Len(mQ') = Len(mQ) + 1 /\ mQ'[Len(mQ) + 1] = e
      /\ \A i \in 1..Len(mQ) : mQ'[i] = mQ[i]
  BY <1>1, AppendProperties
<1>3. mSem' \in Nat
  OBVIOUS
<1>4. Counted'
  BY <1>1, <1>2, BoundsAssumption DEF Counted
<1> QED
  BY <1>2, <1>3, <1>4

(* A Put by any thread keeps the invariant.                                   *)
LEMMA PutIInv ==
    ASSUME IInv, Put
    PROVE  IInv'
<1> USE DEF IInv, TypeOK
<1>1. /\ puts' = puts + 1 /\ puts < MaxPuts
      /\ UNCHANGED <<thread, mCreated, mExit, mEvent, rpc, handled, mpc, stops, lives, stopped>>
      /\ UNCHANGED <<qCreated, left>>
  BY DEF Put, loop, Accept, Refuse, queue
<1>2. puts + 1 \in Events /\ puts' \in 0..MaxPuts
  BY <1>1, BoundsAssumption DEF ValuesTyped, Events
<1>3. Th!TypeOK' /\ PlacesTyped' /\ (rpc # "none" => tpc[This] = "run")' /\ Places' /\ ExitIsLast'
  BY <1>1 DEF thread, Th!TypeOK, PlacesTyped, Places, ExitIsLast
<1>4. CASE Accept(puts + 1)
  <2>1. /\ mQ' \in Seq(Events \cup {Exit}) /\ mSem' \in Nat
        /\ Counted'
        /\ Len(mQ') = Len(mQ) + 1 /\ mQ'[Len(mQ) + 1] = puts + 1
        /\ \A i \in 1..Len(mQ) : mQ'[i] = mQ[i]
    BY <1>2, <1>4, AcceptIInv
  <2>2. ValuesTyped'
    BY <2>1, <1>1, <1>2 DEF ValuesTyped
  <2>3. ASSUME NEW i \in 1..Len(mQ')
        PROVE  mQ'[i] <= puts'
    <3>1. CASE i = Len(mQ) + 1
      BY <3>1, <2>1, <1>1, EventsAreNumbers
    <3>2. CASE i \in 1..Len(mQ)
      BY <3>2, <2>1, <1>1, EventsAreNumbers DEF Numbered
    <3> QED
      BY <3>1, <3>2, <2>1, EventsAreNumbers
  <2>4. Numbered'
    BY <2>3, <1>1, EventsAreNumbers DEF Numbered
  <2>5. ASSUME ExitAhead
        PROVE  ExitAhead'
    <3>1. PICK k \in 1..Len(mQ) : mQ[k] = Exit /\ \A j \in 1..(k - 1) : mQ[j] <= stopped
      BY <2>5 DEF ExitAhead
    <3>2. /\ k \in 1..Len(mQ') /\ mQ'[k] = Exit
          /\ 1..(k - 1) \subseteq 1..Len(mQ)
      BY <3>1, <2>1, EventsAreNumbers
    <3>3. \A j \in 1..(k - 1) : mQ'[j] <= stopped'
      BY <3>1, <3>2, <2>1, <1>1
    <3> QED
      BY <3>2, <3>3 DEF ExitAhead
  <2>6. ExitComes'
    BY <2>5, <1>1 DEF ExitComes
  <2> QED
    BY <2>1, <2>2, <2>4, <2>6, <1>3
<1>5. CASE Refuse
  <2>1. UNCHANGED <<mQ, mSem>>
    BY <1>5 DEF Refuse, queue
  <2>2. ValuesTyped' /\ Counted' /\ ExitComes'
    BY <1>1, <1>2, <2>1 DEF ValuesTyped, Counted, ExitComes, ExitAhead
  <2>3. Numbered'
    BY <1>1, <2>1, EventsAreNumbers DEF Numbered
  <2> QED
    BY <2>2, <2>3, <1>3
<1> QED
  BY <1>4, <1>5 DEF Put

(* StopMainLoop puts an Exit: what is in the list then is before it.          *)
LEMMA StopIInv ==
    ASSUME IInv, StopMainLoop
    PROVE  IInv'
<1> USE DEF IInv, TypeOK
<1>1. /\ mpc = "up" /\ stops' = stops + 1 /\ stops < MaxStops
      /\ UNCHANGED <<thread, mCreated, mExit, mEvent, rpc, handled, mpc, puts, lives>>
      /\ UNCHANGED <<qCreated, left>>
  BY DEF StopMainLoop, loop, Accept, Refuse, queue
<1>2. stops' \in 0..MaxStops
  BY <1>1, BoundsAssumption DEF ValuesTyped
<1>3. Th!TypeOK' /\ PlacesTyped' /\ (rpc # "none" => tpc[This] = "run")' /\ Places'
  BY <1>1 DEF thread, Th!TypeOK, PlacesTyped, Places
<1>4. CASE Accept(Exit) /\ stopped' = IF stopped = -1 THEN puts ELSE stopped
  <2>1. /\ mQ' \in Seq(Events \cup {Exit}) /\ mSem' \in Nat
        /\ Counted'
        /\ Len(mQ') = Len(mQ) + 1 /\ mQ'[Len(mQ) + 1] = Exit
        /\ \A i \in 1..Len(mQ) : mQ'[i] = mQ[i]
    BY <1>4, AcceptIInv
  <2>2. ValuesTyped'
    BY <2>1, <1>1, <1>2, <1>4 DEF ValuesTyped
  <2>3. ASSUME NEW i \in 1..Len(mQ')
        PROVE  mQ'[i] <= puts'
    <3>1. CASE i = Len(mQ) + 1
      BY <3>1, <2>1, <1>1 DEF ValuesTyped, Exit
    <3>2. CASE i \in 1..Len(mQ)
      BY <3>2, <2>1, <1>1, EventsAreNumbers DEF Numbered
    <3> QED
      BY <3>1, <3>2, <2>1, EventsAreNumbers
  <2>4. Numbered'
    BY <2>3, <1>1, <1>4, EventsAreNumbers DEF Numbered
  <2>5. CASE stopped = -1
    <3>1. stopped' = puts
      BY <1>4, <2>5
    <3>2. ExitIsLast'
      BY <3>1, <1>1 DEF Numbered, ExitIsLast
    <3>3. ExitAhead'
      <4> DEFINE k == Len(mQ) + 1
      <4>1. k \in 1..Len(mQ') /\ mQ'[k] = Exit /\ 1..(k - 1) = 1..Len(mQ)
        BY <2>1, EventsAreNumbers
      <4>2. \A j \in 1..(k - 1) : mQ'[j] <= stopped'
        BY <4>1, <3>1, <2>1 DEF Numbered
      <4> QED
        BY <4>1, <4>2 DEF ExitAhead
    <3>4. ExitComes'
      BY <3>1, <3>3, <1>1 DEF ExitComes, Numbered
    <3> QED
      BY <3>2, <3>4, <1>3, <2>1, <2>2, <2>4
  <2>6. CASE stopped # -1
    <3>1. stopped' = stopped /\ stopped >= 0
      BY <1>4, <2>6 DEF ValuesTyped
    <3>2. ExitIsLast'
      BY <3>1, <1>1 DEF ExitIsLast
    <3>3. ASSUME ExitAhead
          PROVE  ExitAhead'
      <4>1. PICK k \in 1..Len(mQ) : mQ[k] = Exit /\ \A j \in 1..(k - 1) : mQ[j] <= stopped
        BY <3>3 DEF ExitAhead
      <4>2. /\ k \in 1..Len(mQ') /\ mQ'[k] = Exit
            /\ 1..(k - 1) \subseteq 1..Len(mQ)
        BY <4>1, <2>1, EventsAreNumbers
      <4>3. \A j \in 1..(k - 1) : mQ'[j] <= stopped'
        BY <4>1, <4>2, <2>1, <3>1
      <4> QED
        BY <4>2, <4>3 DEF ExitAhead
    <3>4. ExitComes'
      BY <3>1, <3>3, <1>1 DEF ExitComes
    <3> QED
      BY <3>2, <3>4, <1>3, <2>1, <2>2, <2>4
  <2> QED
    BY <2>5, <2>6
<1>5. CASE Refuse /\ UNCHANGED stopped
  <2>1. UNCHANGED <<mQ, mSem, stopped>>
    BY <1>5 DEF Refuse, queue
  <2>2. ValuesTyped' /\ Counted' /\ ExitComes' /\ ExitIsLast'
    BY <1>1, <1>2, <2>1 DEF ValuesTyped, Counted, ExitComes, ExitAhead, ExitIsLast
  <2>3. Numbered'
    BY <1>1, <2>1 DEF Numbered
  <2> QED
    BY <2>2, <2>3, <1>3
<1> QED
  BY <1>4, <1>5 DEF StopMainLoop

--------------------------------------------------------------------------------
(* Create and Destroy keep the invariant: the thread is joined before the     *)
(* queue is destroyed, and starts again only when it is created again.        *)
LEMMA OwnerIInv ==
    ASSUME IInv, CreateThread \/ DestroyThread \/ OwnerStep
    PROVE  IInv'
<1> USE DEF IInv, TypeOK
<1>1. CASE CreateThread
  <2>1. /\ mpc = "out" /\ mpc' = "create" /\ lives' = lives + 1 /\ lives < MaxLives
        /\ stopped' = -1 /\ Th!CreateStart(This)
        /\ opc[This] = "idle" /\ opc'[This] = "spawn" /\ UNCHANGED tpc
        /\ UNCHANGED <<qCreated, mSem, mQ, left, mCreated, mExit, mEvent, rpc, handled, puts, stops>>
    BY <1>1 DEF CreateThread, Owner, queue, loop, Th!CreateStart, Th!Owner, Th!TypeOK
  <2>2. Th!TypeOK'
    BY <2>1, ThreadTypes
  <2>3. PlacesTyped' /\ ValuesTyped'
    BY <2>1, BoundsAssumption DEF PlacesTyped, ValuesTyped
  <2>4. Places' /\ (rpc # "none" => tpc[This] = "run")'
    BY <2>1 DEF Places
  <2>5. Numbered' /\ Counted'
    <3>1. -1 <= puts
      BY DEF ValuesTyped
    <3>2. Numbered'
      BY <2>1, <3>1 DEF Numbered
    <3> QED
      BY <3>2, <2>1 DEF Counted
  <2>6. ExitComes' /\ ExitIsLast'
    BY <2>1 DEF ExitComes, ExitIsLast
  <2> QED
    BY <2>2, <2>3, <2>4, <2>5, <2>6
<1>2. CASE CreateQueue
  <2>1. /\ mpc = "create" /\ mpc' = "mark" /\ opc[This] = "idle" /\ qCreated' = TRUE
        /\ mSem' = 0 /\ left' = Len(mQ)
        /\ UNCHANGED <<m_handle, m_Sync1, m_Sync2, tpc, opc, mQ, mCreated, mExit, mEvent,
                       rpc, handled, puts, stops, lives, stopped>>
    BY <1>2 DEF CreateQueue, Owner, thread, loop, counters
  <2>2. Th!TypeOK'
    BY <2>1 DEF Th!TypeOK
  <2>3. Len(mQ) \in 0..mMaxSize
    BY BoundsAssumption, EventsAreNumbers DEF Counted
  <2>4. PlacesTyped' /\ ValuesTyped'
    BY <2>1, <2>3 DEF PlacesTyped, ValuesTyped
  <2>5. Places' /\ (rpc # "none" => tpc[This] = "run")'
    BY <2>1 DEF Places
  <2>6. Counted'
    BY <2>1, <2>3 DEF Counted
  <2>7. Numbered' /\ ExitComes' /\ ExitIsLast'
    BY <2>1 DEF Numbered, ExitComes, ExitAhead, ExitIsLast
  <2> QED
    BY <2>2, <2>4, <2>5, <2>6, <2>7
<1>3. CASE DestroyQueue
  <2>1. /\ mpc = "destroy" /\ mpc' = "unmark" /\ opc[This] = "idle" /\ qCreated' = FALSE
        /\ mSem' = 0
        /\ UNCHANGED <<m_handle, m_Sync1, m_Sync2, tpc, opc, mQ, left, mCreated, mExit, mEvent,
                       rpc, handled, puts, stops, lives, stopped>>
    BY <1>3 DEF DestroyQueue, Owner, thread, loop, counters
  <2>2. Th!TypeOK'
    BY <2>1 DEF Th!TypeOK
  <2>3. PlacesTyped' /\ ValuesTyped'
    BY <2>1 DEF PlacesTyped, ValuesTyped
  <2>4. Places' /\ (rpc # "none" => tpc[This] = "run")'
    BY <2>1 DEF Places
  <2>5. Counted' /\ Numbered' /\ ExitComes' /\ ExitIsLast'
    BY <2>1 DEF Counted, Numbered, ExitComes, ExitAhead, ExitIsLast
  <2> QED
    BY <2>2, <2>3, <2>4, <2>5
<1>4. CASE CreateMark \/ DestroyUnmark
  <2>1. /\ \/ mpc = "mark" /\ mpc' = "up" /\ mCreated' = TRUE
           \/ mpc = "unmark" /\ mpc' = "out" /\ mCreated' = FALSE
        /\ UNCHANGED <<m_handle, m_Sync1, m_Sync2, tpc, opc, qCreated, mSem, mQ, left, mExit,
                       mEvent, rpc, handled, puts, stops, lives, stopped>>
    BY <1>4 DEF CreateMark, DestroyUnmark, Owner, thread, queue, loop, counters
  <2>2. Th!TypeOK'
    BY <2>1 DEF Th!TypeOK
  <2>3. PlacesTyped' /\ ValuesTyped'
    BY <2>1 DEF PlacesTyped, ValuesTyped
  <2>4. Places' /\ (rpc # "none" => tpc[This] = "run")'
    BY <2>1 DEF Places
  <2>5. Counted' /\ Numbered' /\ ExitComes' /\ ExitIsLast'
    BY <2>1 DEF Counted, Numbered, ExitComes, ExitAhead, ExitIsLast
  <2> QED
    BY <2>2, <2>3, <2>4, <2>5
<1>5. CASE DestroyThread
  <2>1. /\ mpc = "up" /\ mpc' = "destroy" /\ Th!DestroyStart(This)
        /\ opc[This] = "idle" /\ opc'[This] = "take2" /\ UNCHANGED tpc
        /\ UNCHANGED <<qCreated, mSem, mQ, left, mCreated, mExit, mEvent, rpc, handled,
                       puts, stops, lives, stopped>>
    BY <1>5 DEF DestroyThread, Owner, queue, loop, counters, Th!DestroyStart, Th!Owner, Th!TypeOK
  <2>2. Th!TypeOK'
    BY <2>1, ThreadTypes
  <2>3. PlacesTyped' /\ ValuesTyped'
    BY <2>1 DEF PlacesTyped, ValuesTyped
  <2>4. Places' /\ (rpc # "none" => tpc[This] = "run")'
    BY <2>1 DEF Places
  <2>5. Counted' /\ Numbered' /\ ExitComes' /\ ExitIsLast'
    BY <2>1 DEF Counted, Numbered, ExitComes, ExitAhead, ExitIsLast
  <2> QED
    BY <2>2, <2>3, <2>4, <2>5
<1>6. CASE ThreadCall
  <2>1. /\ Th!OwnerStep(This)
        /\ UNCHANGED <<qCreated, mSem, mQ, left, mCreated, mExit, mEvent, rpc, handled, mpc,
                       puts, stops, lives, stopped>>
    BY <1>6 DEF ThreadCall, queue, loop, counters
  <2>2. Th!TypeOK'
    BY <2>1, ThreadTypes
  <2>3. PlacesTyped' /\ ValuesTyped'
    BY <2>1 DEF PlacesTyped, ValuesTyped
  <2>4. Places' /\ (rpc # "none" => tpc[This] = "run")'
    BY <2>1, OwnerMoves DEF Places, PlacesTyped
  <2>5. Counted' /\ Numbered' /\ ExitComes' /\ ExitIsLast'
    BY <2>1 DEF Counted, Numbered, ExitComes, ExitAhead, ExitIsLast
  <2> QED
    BY <2>2, <2>3, <2>4, <2>5
<1> QED
  BY <1>1, <1>2, <1>3, <1>4, <1>5, <1>6 DEF OwnerStep

--------------------------------------------------------------------------------
(* The steps of the thread outside Get and OnEvent, which move it alone.      *)
LEMMA LoopIInv ==
    ASSUME IInv, Enter \/ Loop \/ ThreadRun
    PROVE  IInv'
<1> USE DEF IInv, TypeOK
<1>1. UNCHANGED <<qCreated, mSem, mQ, left, mCreated, mExit, mEvent, handled, mpc,
                  puts, stops, lives, stopped>>
  BY DEF Enter, Loop, ThreadRun, queue, loop, counters
<1>2. ValuesTyped' /\ Counted' /\ Numbered' /\ ExitIsLast'
  BY <1>1 DEF ValuesTyped, Counted, Numbered, ExitIsLast
<1>3. CASE (Enter \/ Loop) /\ UNCHANGED thread
  <2>1. /\ tpc[This] = "run" /\ UNCHANGED <<m_handle, m_Sync1, m_Sync2, tpc, opc>>
        /\ \/ rpc = "none" /\ mCreated /\ rpc' = "loop"
           \/ rpc = "loop" /\ ~mExit /\ rpc' = "get"
           \/ rpc = "loop" /\ rpc' = "none"
           \/ rpc = "none" /\ rpc' = "none"
    BY <1>3 DEF Enter, Loop, Return, thread
  <2>2. Th!TypeOK' /\ PlacesTyped' /\ (rpc # "none" => tpc[This] = "run")'
    BY <2>1, <1>1 DEF Th!TypeOK, PlacesTyped
  <2>3. Places'
    BY <2>1, <1>1 DEF Places
  <2>4. ExitComes'
    BY <2>1, <1>1 DEF ExitComes, ExitAhead
  <2> QED
    BY <2>2, <2>3, <2>4, <1>2
<1>4. CASE (Enter \/ Loop) /\ Return
  <2>1. rpc' = "none" /\ Th!RunReturns(This)
    BY <1>4 DEF Return
  <2>2. Th!TypeOK'
    BY <2>1, ThreadTypes
  <2>3. PlacesTyped' /\ (rpc # "none" => tpc[This] = "run")'
    BY <2>1, <1>1 DEF PlacesTyped
  <2>4. Places'
    BY <2>1, <1>1, ThreadMoves DEF Places
  <2>5. rpc \in {"none", "loop"}
    BY <1>4 DEF Enter, Loop
  <2>6. ExitComes'
    BY <2>1, <2>5, <1>1 DEF ExitComes, ExitAhead
  <2> QED
    BY <2>2, <2>3, <2>4, <2>6, <1>2
<1>5. CASE ThreadRun
  <2>1. Th!ThreadStep(This) /\ rpc' = rpc
    BY <1>5 DEF ThreadRun, loop
  <2>2. Th!TypeOK'
    BY <2>1, ThreadTypes
  <2>3. rpc = "none" /\ opc' = opc /\ tpc[This] # "none" /\ tpc'[This] # "none"
    BY <2>1, ThreadMoves
  <2>4. PlacesTyped' /\ (rpc # "none" => tpc[This] = "run")'
    BY <2>1, <2>3, <1>1 DEF PlacesTyped
  <2>5. Places'
    BY <2>1, <2>3, <1>1 DEF Places
  <2>6. ExitComes'
    BY <2>1, <1>1 DEF ExitComes, ExitAhead
  <2> QED
    BY <2>2, <2>4, <2>5, <2>6, <1>2
<1> QED
  BY <1>3, <1>4, <1>5 DEF Enter, Loop

(* Get finds an element, because the queue counts them: an Exit, or an event  *)
(* that was put before the Exit that is still in the list.                    *)
LEMMA GetIInv ==
    ASSUME IInv, Get
    PROVE  IInv'
<1> USE DEF IInv, TypeOK
<1>1. /\ tpc[This] = "run" /\ rpc = "get" /\ rpc' = "on"
      /\ mSem > 0 /\ mSem' = mSem - 1 /\ mEvent' = Head(mQ) /\ mQ' = Tail(mQ)
      /\ UNCHANGED <<m_handle, m_Sync1, m_Sync2, tpc, opc, qCreated, left, mCreated, mExit,
                     handled, mpc, puts, stops, lives, stopped>>
  BY DEF Get, Thread, thread, counters
<1>2. Len(mQ) > 0
  BY <1>1, EventsAreNumbers DEF Places, Counted, ValuesTyped
<1>3. /\ mQ # <<>> /\ mQ' \in Seq(Events \cup {Exit}) /\ Len(mQ') = Len(mQ) - 1
      /\ \A i \in 1..Len(mQ') : mQ'[i] = mQ[i + 1]
      /\ mEvent' = mQ[1] /\ mQ[1] \in Events \cup {Exit}
  BY <1>1, <1>2, HeadTailProperties, ElementOfSeq, EventsAreNumbers DEF ValuesTyped
<1>4. Th!TypeOK' /\ PlacesTyped' /\ (rpc # "none" => tpc[This] = "run")' /\ Places'
  BY <1>1 DEF Th!TypeOK, PlacesTyped, Places
<1>5. mSem' \in Nat
  BY <1>1 DEF ValuesTyped
<1>6. ValuesTyped'
  BY <1>1, <1>3, <1>5 DEF ValuesTyped
<1>7. Counted'
  <2>1. Len(mQ) \in Nat /\ mSem \in Nat /\ left \in Nat /\ mMaxSize \in Nat
    BY EventsAreNumbers, BoundsAssumption DEF ValuesTyped
  <2>2. Len(mQ') <= mMaxSize'
    BY <2>1, <1>3 DEF Counted
  <2>3. qCreated => Len(mQ') = mSem' + left'
    BY <2>1, <1>1, <1>3 DEF Counted
  <2> QED
    BY <2>2, <2>3, <1>1 DEF Counted
<1>8. Numbered' /\ ExitIsLast'
  <2>1. \A i \in 1..Len(mQ') : i + 1 \in 1..Len(mQ)
    BY <1>3, EventsAreNumbers
  <2>2. \A i \in 1..Len(mQ') : mQ'[i] <= puts'
    BY <2>1, <1>1, <1>3 DEF Numbered
  <2>3. mEvent' <= puts'
    BY <1>1, <1>2, <1>3, EventsAreNumbers DEF Numbered
  <2> QED
    BY <2>2, <2>3, <1>1 DEF Numbered, ExitIsLast
<1>9. ExitComes'
  <2>1. ~mExit /\ ~mExit'
    BY <1>1 DEF ExitComes, PlacesTyped
  <2>2. SUFFICES ASSUME stopped >= 0, mEvent' # Exit
                 PROVE  ExitAhead' /\ mEvent' <= stopped'
    BY <2>1, <1>1 DEF ExitComes
  <2>3. PICK k \in 1..Len(mQ) : mQ[k] = Exit /\ \A j \in 1..(k - 1) : mQ[j] <= stopped
    BY <2>1, <2>2, <1>1 DEF ExitComes, ExitAhead
  <2>4. k # 1
    BY <2>2, <2>3, <1>3
  <2>5. /\ k - 1 \in 1..Len(mQ') /\ 1 \in 1..(k - 1)
        /\ \A j \in 1..(k - 1 - 1) : j \in 1..Len(mQ') /\ j + 1 \in 1..(k - 1)
    BY <2>4, <1>3, EventsAreNumbers
  <2>6. mQ'[k - 1] = Exit /\ \A j \in 1..(k - 1 - 1) : mQ'[j] <= stopped'
    BY <2>3, <2>5, <1>1, <1>3
  <2>7. mEvent' <= stopped'
    BY <2>3, <2>5, <1>1, <1>3
  <2> QED
    BY <2>5, <2>6, <2>7 DEF ExitAhead
<1> QED
  BY <1>4, <1>6, <1>7, <1>8, <1>9

(* OnEvent handles an event that was put before any Exit of this life, or     *)
(* takes the Exit and ends the loop.                                          *)
LEMMA OnEventIInv ==
    ASSUME IInv, OnEvent
    PROVE  IInv'
<1> USE DEF IInv, TypeOK
<1>1. /\ tpc[This] = "run" /\ rpc = "on" /\ rpc' = "loop"
      /\ UNCHANGED <<m_handle, m_Sync1, m_Sync2, tpc, opc, qCreated, mSem, mQ, left, mCreated,
                     mEvent, mpc, puts, stops, lives, stopped>>
  BY DEF OnEvent, Thread, thread, queue, counters
<1>2. Th!TypeOK' /\ (rpc # "none" => tpc[This] = "run")' /\ Places'
  BY <1>1 DEF Th!TypeOK, Places
<1>3. Counted'
  BY <1>1 DEF Counted
<1>4. CASE mEvent = Exit /\ mExit' = TRUE /\ UNCHANGED handled
  <2>1. PlacesTyped' /\ ValuesTyped'
    BY <1>1, <1>4 DEF PlacesTyped, ValuesTyped
  <2>2. Numbered' /\ ExitComes' /\ ExitIsLast'
    BY <1>1, <1>4 DEF Numbered, ExitComes, ExitIsLast
  <2> QED
    BY <2>1, <2>2, <1>2, <1>3
<1>5. CASE mEvent # Exit /\ handled' = Append(handled, mEvent) /\ UNCHANGED mExit
  <2>1. mEvent \in Events /\ handled \in Seq(Events)
    BY <1>5 DEF ValuesTyped
  <2>2. /\ handled' \in Seq(Events) /\ Len(handled') = Len(handled) + 1
        /\ \A i \in 1..Len(handled) : handled'[i] = handled[i]
        /\ handled'[Len(handled) + 1] = mEvent
    BY <2>1, <1>5, AppendProperties
  <2>3. PlacesTyped' /\ ValuesTyped'
    BY <1>1, <1>5, <2>2 DEF PlacesTyped, ValuesTyped
  <2>4. ~mExit
    BY <1>1 DEF ExitComes
  <2>5. ASSUME NEW i \in 1..Len(handled')
        PROVE  i = Len(handled) + 1 \/ i \in 1..Len(handled)
    BY <2>2, EventsAreNumbers
  <2>6. Numbered'
    BY <1>1, <2>2, <2>5 DEF Numbered
  <2>7. stopped >= 0 => ExitAhead /\ mEvent <= stopped
    BY <2>4, <1>1, <1>5 DEF ExitComes
  <2>8. ExitComes'
    BY <2>4, <2>7, <1>1, <1>5 DEF ExitComes, ExitAhead
  <2>9. ExitIsLast'
    BY <2>2, <2>5, <2>7, <1>1 DEF ExitIsLast
  <2> QED
    BY <2>3, <2>6, <2>8, <2>9, <1>2, <1>3
<1> QED
  BY <1>4, <1>5 DEF OnEvent

(* Every step keeps the invariant.                                            *)
LEMMA NextIInv == IInv /\ [Next]_vars => IInv'
<1> SUFFICES ASSUME IInv, [Next]_vars
             PROVE  IInv'
  OBVIOUS
<1>1. CASE UNCHANGED vars
  BY <1>1 DEF vars, thread, queue, loop, counters, IInv, TypeOK, Th!TypeOK, PlacesTyped,
              ValuesTyped, Places, Counted, Numbered, ExitComes, ExitAhead, ExitIsLast
<1>2. CASE CreateThread \/ DestroyThread \/ OwnerStep
  BY <1>2, OwnerIInv
<1>3. CASE Put
  BY <1>3, PutIInv
<1>4. CASE StopMainLoop
  BY <1>4, StopIInv
<1>5. CASE LoopStep
  BY <1>5, LoopIInv, GetIInv, OnEventIInv DEF LoopStep
<1> QED
  BY <1>1, <1>2, <1>3, <1>4, <1>5 DEF Next

--------------------------------------------------------------------------------
(* The invariant holds of every behaviour.                                    *)
THEOREM Invariance == Spec => []IInv
BY InitIInv, NextIInv, PTL DEF Spec

(* Every variable of the event thread has its type, and the thread is inside  *)
(* RunProgram only where XLSimpleThreads has called it.                       *)
THEOREM TypeCorrect == Spec => []TypeOK
<1>1. IInv => TypeOK
  BY DEF IInv
<1> QED
  BY <1>1, Invariance, PTL

(* The queue is created whenever the thread is in its loop, and has an        *)
(* element for every permit: Destroy joins the thread before it destroys the  *)
(* queue (XLEventThread.cpp:47-48).                                           *)
THEOREM QueueSafe == Spec => []QueueOutlivesThread
<1>1. IInv => QueueOutlivesThread
  BY DEF IInv, TypeOK, Places, Counted, PlacesTyped, QueueOutlivesThread
<1> QED
  BY <1>1, Invariance, PTL

(* Nothing put behind an Exit is handled in that life of the object           *)
(* (XLEventThread.cpp:71-96).                                                 *)
THEOREM NothingAfterExit == Spec => []ExitIsLast
<1>1. IInv => ExitIsLast
  BY DEF IInv
<1> QED
  BY <1>1, Invariance, PTL

--------------------------------------------------------------------------------
\* The order of the Puts, with the thread and in the list
InOrder == /\ \A i, j \in 1..Len(handled) : i < j => handled[i] < handled[j]
           /\ \A i, j \in 1..Len(mQ) : i < j /\ mQ[i] # Exit /\ mQ[j] # Exit => mQ[i] < mQ[j]
           /\ \A i \in 1..Len(handled), j \in 1..Len(mQ) : mQ[j] # Exit => handled[i] < mQ[j]
           /\ rpc = "on" /\ mEvent # Exit =>
                 /\ \A i \in 1..Len(handled) : handled[i] < mEvent
                 /\ \A j \in 1..Len(mQ) : mQ[j] # Exit => mEvent < mQ[j]

(* Each event is handled once at most, and in the order of the Puts, over all *)
(* lives of the object (XLEventThread.cpp:65-96): what one life leaves in the *)
(* list comes before what the next one is given.                              *)
HandledInOrder == \A i, j \in 1..Len(handled) : i < j => handled[i] < handled[j]

LEMMA InitInOrder == Init => InOrder
BY DEF Init, InOrder

(* An element that is linked has the highest number, or is an Exit.           *)
LEMMA AcceptInOrder ==
    ASSUME IInv, InOrder, NEW e \in Events \cup {Exit}, Accept(e), e # Exit => e = puts + 1,
           UNCHANGED <<handled, rpc, mEvent>>
    PROVE  InOrder'
<1>1. /\ mQ' \in Seq(Events \cup {Exit})
      /\ Len(mQ') = Len(mQ) + 1 /\ mQ'[Len(mQ) + 1] = e
      /\ \A i \in 1..Len(mQ) : mQ'[i] = mQ[i]
  BY AcceptIInv
<1>2. /\ \A i \in 1..Len(mQ) : mQ[i] \in Int /\ mQ[i] <= puts
      /\ \A i \in 1..Len(handled) : handled[i] \in Int /\ handled[i] <= puts
      /\ mEvent \in Int /\ mEvent <= puts /\ puts \in Int
      /\ Len(mQ) \in Nat /\ Len(handled) \in Nat
  BY EventsAreNumbers DEF IInv, TypeOK, Numbered
<1>3. ASSUME NEW j \in 1..Len(mQ')
      PROVE  \/ j \in 1..Len(mQ) /\ mQ'[j] = mQ[j]
             \/ j = Len(mQ) + 1 /\ mQ'[j] = e
  BY <1>1, <1>2
<1>4. ASSUME NEW i \in 1..Len(mQ'), NEW j \in 1..Len(mQ'), i < j, mQ'[i] # Exit, mQ'[j] # Exit
      PROVE  mQ'[i] < mQ'[j]
  <2>1. i \in 1..Len(mQ) /\ mQ'[i] = mQ[i]
    BY <1>1, <1>2, <1>4
  <2>2. CASE j \in 1..Len(mQ) /\ mQ'[j] = mQ[j]
    BY <1>4, <2>1, <2>2 DEF InOrder
  <2>3. CASE mQ'[j] = e
    BY <1>2, <1>4, <2>1, <2>3
  <2> QED
    BY <1>3, <2>2, <2>3
<1>5. ASSUME NEW i \in 1..Len(handled), NEW j \in 1..Len(mQ'), mQ'[j] # Exit
      PROVE  handled[i] < mQ'[j]
  BY <1>2, <1>3, <1>5 DEF InOrder
<1>6. ASSUME rpc = "on", mEvent # Exit, NEW j \in 1..Len(mQ'), mQ'[j] # Exit
      PROVE  mEvent < mQ'[j]
  BY <1>2, <1>3, <1>6 DEF InOrder
<1> QED
  BY <1>4, <1>5, <1>6 DEF InOrder

(* Every step keeps the order.                                                *)
LEMMA NextInOrder == IInv /\ InOrder /\ [Next]_vars => InOrder'
<1> SUFFICES ASSUME IInv, InOrder, [Next]_vars
             PROVE  InOrder'
  OBVIOUS
<1>1. CASE Put
  <2>1. UNCHANGED <<handled, rpc, mEvent>> /\ puts + 1 \in Events
    BY <1>1, BoundsAssumption DEF Put, loop, IInv, TypeOK, ValuesTyped, Events
  <2>2. CASE Accept(puts + 1)
    BY <2>1, <2>2, AcceptInOrder
  <2>3. CASE Refuse
    BY <2>1, <2>3 DEF Refuse, queue, InOrder
  <2> QED
    BY <1>1, <2>2, <2>3 DEF Put
<1>2. CASE StopMainLoop
  <2>1. UNCHANGED <<handled, rpc, mEvent>>
    BY <1>2 DEF StopMainLoop, loop
  <2>2. CASE Accept(Exit)
    BY <2>1, <2>2, AcceptInOrder
  <2>3. CASE Refuse
    BY <2>1, <2>3 DEF Refuse, queue, InOrder
  <2> QED
    BY <1>2, <2>2, <2>3 DEF StopMainLoop
<1>3. CASE Get
  <2>1. /\ rpc = "get" /\ mSem > 0 /\ mQ' = Tail(mQ) /\ mEvent' = Head(mQ) /\ handled' = handled
    BY <1>3 DEF Get, Thread
  <2>2. mQ \in Seq(Events \cup {Exit}) /\ Len(mQ) \in Nat /\ Len(mQ) > 0 /\ mQ # <<>>
    BY <1>3, <2>1, LenProperties, EmptySeq DEF Get, Thread, IInv, TypeOK, Places, PlacesTyped, ValuesTyped,
       Counted
  <2>3. /\ Head(mQ) = mQ[1] /\ Len(Tail(mQ)) = Len(mQ) - 1
        /\ \A k \in 1..Len(Tail(mQ)) : Tail(mQ)[k] = mQ[k + 1]
    BY <2>2, HeadTailProperties
  <2>4. \A k \in 1..Len(mQ') : k + 1 \in 1..Len(mQ) /\ mQ'[k] = mQ[k + 1]
    BY <2>1, <2>2, <2>3
  <2>5. 1 \in 1..Len(mQ) /\ mEvent' = mQ[1]
    BY <2>1, <2>2, <2>3
  <2>6. \A j \in 1..Len(mQ') : mEvent' # Exit /\ mQ'[j] # Exit => mEvent' < mQ'[j]
    <3> SUFFICES ASSUME NEW j \in 1..Len(mQ'), mQ[1] # Exit, mQ[j + 1] # Exit
                 PROVE  mQ[1] < mQ[j + 1]
      BY <2>4, <2>5
    <3>1. j + 1 \in 1..Len(mQ) /\ 1 < j + 1
      BY <2>4
    <3> QED
      BY <2>5, <3>1 DEF InOrder
  <2>7. \A i, j \in 1..Len(mQ') : i < j /\ mQ'[i] # Exit /\ mQ'[j] # Exit => mQ'[i] < mQ'[j]
    <3> SUFFICES ASSUME NEW i \in 1..Len(mQ'), NEW j \in 1..Len(mQ'), i < j,
                        mQ[i + 1] # Exit, mQ[j + 1] # Exit
                 PROVE  mQ[i + 1] < mQ[j + 1]
      BY <2>4
    <3>1. i + 1 \in 1..Len(mQ) /\ j + 1 \in 1..Len(mQ) /\ i + 1 < j + 1
      BY <2>4
    <3> QED
      BY <3>1 DEF InOrder
  <2> QED
    BY <2>1, <2>4, <2>5, <2>6, <2>7 DEF InOrder
<1>4. CASE OnEvent
  <2>1. rpc = "on" /\ rpc' = "loop" /\ mQ' = mQ
    BY <1>4 DEF OnEvent, Thread, queue
  <2>2. CASE UNCHANGED handled
    BY <2>1, <2>2 DEF InOrder
  <2>3. CASE mEvent # Exit /\ handled' = Append(handled, mEvent)
    <3>1. mEvent \in Events /\ handled \in Seq(Events) /\ Len(handled) \in Nat
      BY <2>3, LenProperties DEF IInv, TypeOK, ValuesTyped
    <3>2. /\ Len(handled') = Len(handled) + 1
          /\ \A i \in 1..Len(handled) : handled'[i] = handled[i]
          /\ handled'[Len(handled) + 1] = mEvent
      BY <2>3, <3>1, AppendProperties
    <3>3. ASSUME NEW i \in 1..Len(handled')
          PROVE  \/ i \in 1..Len(handled) /\ handled'[i] = handled[i]
                 \/ i = Len(handled) + 1 /\ handled'[i] = mEvent
      BY <3>1, <3>2
    <3>4. ASSUME NEW i \in 1..Len(handled'), NEW j \in 1..Len(handled'), i < j
          PROVE  handled'[i] < handled'[j]
      <4>1. i \in 1..Len(handled) /\ handled'[i] = handled[i]
        BY <3>1, <3>2, <3>4
      <4> QED
        BY <2>1, <2>3, <3>3, <3>4, <4>1 DEF InOrder
    <3>5. ASSUME NEW i \in 1..Len(handled'), NEW j \in 1..Len(mQ), mQ[j] # Exit
          PROVE  handled'[i] < mQ[j]
      BY <2>1, <2>3, <3>3, <3>5 DEF InOrder
    <3> QED
      BY <2>1, <3>4, <3>5 DEF InOrder
  <2> QED
    BY <1>4, <2>2, <2>3 DEF OnEvent
<1>5. CASE CreateThread \/ DestroyThread \/ OwnerStep \/ Enter \/ Loop \/ ThreadRun
           \/ UNCHANGED vars
  <2>1. UNCHANGED <<mQ, handled, mEvent>> /\ (rpc' = "on" => rpc = "on")
    BY <1>5 DEF CreateThread, DestroyThread, OwnerStep, CreateQueue, CreateMark, DestroyQueue,
       DestroyUnmark, ThreadCall, Enter, Loop, ThreadRun, Return, queue, loop, vars
  <2> QED
    BY <2>1 DEF InOrder
<1> QED
  BY <1>1, <1>2, <1>3, <1>4, <1>5 DEF Next, LoopStep

(* Each event is handled once at most and in the order of the Puts            *)
(* (XLEventThread.cpp:65-96), for any numbers of events, Exits and lives.     *)
THEOREM OrderKept == Spec => []HandledInOrder
<1>1. InOrder => HandledInOrder
  BY DEF InOrder, HandledInOrder
<1> QED
  BY <1>1, InitInOrder, NextInOrder, Invariance, PTL DEF Spec

--------------------------------------------------------------------------------
\* The object's own thread has a step to take: a guard of LoopStep holds.
LoopReady == \/ tpc[This] \in {"started", "check", "give2"}
             \/ tpc[This] = "take1" /\ m_Sync1[This].permits > 0
             \/ tpc[This] = "run" /\ (rpc = "get" => mSem > 0)

\* Destroy has one: a guard of OwnerStep holds.
DestroyReady == \/ opc[This] \in {"idle", "destroy1", "destroy2"}
                \/ opc[This] = "take2" /\ m_Sync2[This].permits > 0
                \/ opc[This] = "join" /\ tpc[This] = "ended"

\* The thread finds a permit in an m_Sync1 that is created, Destroy finds one in m_Sync2,
\* and there is a thread from its creation to its join.
Permits == /\ tpc[This] \in {"started", "take1"} \/ opc[This] = "spawn" =>
                 (m_Sync1[This].created => m_Sync1[This].permits > 0)
           /\ mpc \in {"create", "mark", "up"} \/ opc[This] = "take2" => m_Sync2[This].permits > 0
           /\ \/ mpc \in {"mark", "up"} \/ (mpc = "create" /\ opc[This] # "spawn")
              \/ opc[This] \in {"take2", "destroy1", "destroy2", "join"}
              => tpc[This] # "none"

(* Destroy and the thread never wait for each other with an Exit accepted,    *)
(* unless the thread is stuck in its first Take or there are elements of an   *)
(* earlier life before the Exit (XLEventThread.cpp:42-62,                     *)
(* XLSimpleThreads.cpp:76-93).  It is the part of DestroyReturnsUnless that   *)
(* needs no fairness: there is no other deadlock.                             *)
DestroyNotBlocked == mpc = "destroy" /\ stopped >= 0 => LoopReady \/ DestroyReady \/ Stuck \/ Stranded

LEMMA InitPermits == Init => Permits
BY DEF Init, Permits, Th!Init

(* Every step keeps the permits.                                              *)
LEMMA NextPermits == IInv /\ Permits /\ [Next]_vars => Permits'
<1> SUFFICES ASSUME IInv, Permits, [Next]_vars
             PROVE  Permits'
  OBVIOUS
<1>0. Th!TypeOK /\ Places
  BY DEF IInv, TypeOK
<1> USE DEF Th!Owner, Th!Thread, Owner, Thread, thread, loop, queue, counters
<1>1. CASE CreateThread
  <2>1. /\ m_Sync1'[This] = [created |-> TRUE, permits |-> 1]
        /\ m_Sync2'[This] = [created |-> TRUE, permits |-> 1]
        /\ opc'[This] = "spawn" /\ mpc' = "create" /\ UNCHANGED tpc
    BY <1>0, <1>1 DEF CreateThread, Th!CreateStart, Th!TypeOK, Th!Fresh
  <2> QED
    BY <2>1 DEF Permits
<1>2. CASE DestroyThread
  <2>1. /\ opc[This] = "idle" /\ opc'[This] = "take2" /\ mpc = "up" /\ mpc' = "destroy"
        /\ UNCHANGED <<m_Sync1, m_Sync2, tpc>>
    BY <1>0, <1>2 DEF DestroyThread, Th!DestroyStart, Th!TypeOK
  <2> QED
    BY <2>1 DEF Permits
<1>3. CASE CreateQueue \/ CreateMark \/ DestroyQueue \/ DestroyUnmark
  <2>1. UNCHANGED <<m_Sync1, m_Sync2, tpc, opc>>
    BY <1>3 DEF CreateQueue, CreateMark, DestroyQueue, DestroyUnmark
  <2> QED
    BY <1>0, <1>3, <2>1 DEF CreateQueue, CreateMark, DestroyQueue, DestroyUnmark, Permits, Places
<1>4. CASE ThreadCall
  <2>0. Th!OwnerStep(This) /\ mpc' = mpc
    BY <1>4 DEF ThreadCall
  <2>1. CASE Th!CreateSpawn(This)
    <3>1. /\ opc[This] = "spawn" /\ opc'[This] = "assign" /\ tpc'[This] = "started"
          /\ UNCHANGED <<m_Sync1, m_Sync2>>
      BY <1>0, <2>1 DEF Th!CreateSpawn, Th!TypeOK
    <3> QED
      BY <1>0, <2>0, <3>1 DEF Permits, Places
  <2>2. CASE Th!CreateAssign(This)
    <3>1. /\ opc[This] = "assign" /\ opc'[This] = "give1" /\ UNCHANGED <<m_Sync1, m_Sync2, tpc>>
      BY <1>0, <2>2 DEF Th!CreateAssign, Th!TypeOK
    <3> QED
      BY <1>0, <2>0, <3>1 DEF Permits
  <2>3. CASE Th!CreateGive(This)
    <3>1. /\ opc[This] = "give1" /\ opc'[This] = "idle" /\ UNCHANGED <<m_Sync2, tpc>>
          /\ m_Sync1[This].permits \in Int
          /\ m_Sync1'[This].permits = m_Sync1[This].permits + 1
          /\ m_Sync1'[This].created = m_Sync1[This].created
      BY <1>0, <2>3 DEF Th!CreateGive, Th!TypeOK, Th!Semaphore
    <3> QED
      BY <1>0, <2>0, <3>1 DEF Permits
  <2>4. CASE Th!DestroyTake(This)
    <3>1. /\ opc[This] = "take2" /\ opc'[This] = "destroy1" /\ UNCHANGED <<m_Sync1, tpc>>
      BY <1>0, <2>4 DEF Th!DestroyTake, Th!TypeOK
    <3> QED
      BY <1>0, <2>0, <3>1 DEF Permits, Places
  <2>5. CASE Th!DestroySync1(This)
    <3>1. /\ opc[This] = "destroy1" /\ opc'[This] = "destroy2" /\ UNCHANGED <<m_Sync2, tpc>>
          /\ m_Sync1'[This].created = FALSE
      BY <1>0, <2>5 DEF Th!DestroySync1, Th!TypeOK, Th!Dead
    <3> QED
      BY <1>0, <2>0, <3>1 DEF Permits, Places
  <2>6. CASE Th!DestroySync2(This) \/ Th!DestroyJoin(This)
    <3>1. /\ opc[This] \in {"destroy2", "join"} /\ UNCHANGED m_Sync1
          /\ \/ opc'[This] = "join" /\ tpc' = tpc
             \/ opc'[This] = "idle" /\ tpc'[This] = "none"
      BY <1>0, <2>6 DEF Th!DestroySync2, Th!DestroyJoin, Th!TypeOK
    <3> QED
      BY <1>0, <2>0, <3>1 DEF Permits, Places
  <2> QED
    BY <2>0, <2>1, <2>2, <2>3, <2>4, <2>5, <2>6 DEF Th!OwnerStep
<1>5. CASE ThreadRun \/ Enter \/ Loop
  <2>0. mpc' = mpc /\ opc' = opc
    BY <1>5 DEF ThreadRun, Enter, Loop, Return, Th!ThreadStep, Th!TakeTest, Th!TakeDone, Th!Check,
       Th!Finish, Th!RunReturns
  <2>1. CASE UNCHANGED thread
    BY <2>0, <2>1 DEF Permits
  <2>2. CASE Th!TakeTest(This) \/ Th!Check(This) \/ Th!RunReturns(This)
    <3>1. /\ UNCHANGED <<m_Sync1, m_Sync2>> /\ tpc[This] \in {"started", "check", "run"}
          /\ tpc'[This] \in {"take1", "check", "run", "give2"}
          /\ tpc'[This] = "take1" => tpc[This] = "started"
      BY <1>0, <2>2 DEF Th!TakeTest, Th!Check, Th!RunReturns, Th!TypeOK
    <3> QED
      BY <1>0, <2>0, <3>1 DEF Permits, Places
  <2>3. CASE Th!TakeDone(This)
    <3>1. tpc[This] = "take1" /\ tpc'[This] = "check" /\ UNCHANGED m_Sync2
      BY <1>0, <2>3 DEF Th!TakeDone, Th!TypeOK
    <3> QED
      BY <1>0, <2>0, <3>1 DEF Permits, Places
  <2>4. CASE Th!Finish(This)
    <3>1. /\ tpc[This] = "give2" /\ tpc'[This] = "ended" /\ UNCHANGED m_Sync1
          /\ m_Sync2[This].permits \in Int
          /\ m_Sync2'[This].permits \in {m_Sync2[This].permits, m_Sync2[This].permits + 1}
      BY <1>0, <2>4 DEF Th!Finish, Th!TypeOK, Th!Semaphore
    <3> QED
      BY <1>0, <2>0, <3>1 DEF Permits, Places
  <2> QED
    BY <1>5, <2>1, <2>2, <2>3, <2>4 DEF ThreadRun, Enter, Loop, Return, Th!ThreadStep
<1>6. CASE StopMainLoop \/ Put \/ Get \/ OnEvent \/ UNCHANGED vars
  BY <1>6 DEF StopMainLoop, Put, Get, OnEvent, vars, Permits
<1> QED
  BY <1>1, <1>2, <1>3, <1>4, <1>5, <1>6 DEF Next, OwnerStep, LoopStep

(* Destroy and its thread wait for each other only in the two ways that       *)
(* DestroyReturnsUnless names (XLEventThread.cpp:42-62), for every size of    *)
(* the queue and any number of events, Exits and lives.                       *)
THEOREM NoOtherDeadlock == Spec => []DestroyNotBlocked
<1>1. IInv /\ Permits => DestroyNotBlocked
  <2> SUFFICES ASSUME IInv, Permits, mpc = "destroy", stopped >= 0,
                      ~LoopReady, ~Stuck, ~Stranded
               PROVE  DestroyReady
    BY DEF DestroyNotBlocked
  <2>1. Th!TypeOK /\ Places /\ TypeOK
    BY DEF IInv, TypeOK
  <2>2. tpc[This] # "take1"
    BY DEF LoopReady, Stuck, Permits
  <2>3. tpc[This] # "run"
    <3> SUFFICES ASSUME tpc[This] = "run", rpc = "get", ~(mSem > 0) PROVE FALSE
      BY DEF LoopReady
    <3>1. mSem = 0 /\ left = 0 /\ qCreated
      BY <2>1 DEF TypeOK, ValuesTyped, Stranded, Places
    <3>2. Len(mQ) = 0
      BY <3>1 DEF IInv, Counted
    <3>3. ~ExitAhead
      BY <3>2 DEF ExitAhead
    <3> QED
      BY <3>3 DEF IInv, ExitComes
  <2>4. tpc[This] \in {"none", "ended"}
    BY <2>1, <2>2, <2>3 DEF LoopReady, Th!TypeOK
  <2>5. opc[This] \in {"idle", "take2", "destroy1", "destroy2", "join"}
    BY <2>1 DEF Th!TypeOK, Places
  <2>6. opc[This] = "join" => tpc[This] = "ended"
    BY <2>4 DEF Permits
  <2> QED
    BY <2>5, <2>6 DEF DestroyReady, Permits
<1> QED
  BY <1>1, InitPermits, NextPermits, Invariance, PTL DEF Spec
================================================================================
