--------------------------- MODULE CScheduler_proofs ---------------------------
(***************************************************************************)
(* CScheduler, with the XLAlarm it contains, for every size of the queue   *)
(* and every number of alarm threads, lives and jobs: one alarm thread at  *)
(* a time is past the keeper, and no ALARM_INPUT is ever handled.          *)
(***************************************************************************)
EXTENDS CScheduler, SequenceTheorems, TLAPS

\* The handle is that of the last thread made, but for the moment between the two.
Handle == /\ m_handle = IF apc = "assign" THEN made - 1 ELSE made
          /\ \A i \in AlarmThreads : i > made => tpc[i] = "none"
          /\ apc \in {"keeper", "give", "create"} => made < MaxThreads
          /\ apc \in {"keeper", "give"} => made > 0

Inside == {i \in AlarmThreads : tpc[i] \in {"loop", "sound"}}

\* The first thread has skipped its program and given a permit that nobody took.
Given == 1 \in AlarmThreads /\ tpc[1] = "ended" /\ 1 \in skipped

\* That is the only permit there ever is: it is in the keeper, with the caller or with
\* the thread in its loop, or lost.
OnePermit == /\ m_ExitKeeper > 0 \/ apc = "give" \/ Inside # {} => Given
             /\ m_ExitKeeper > 0 => apc # "give" /\ Inside = {}
             /\ apc = "give" => Inside = {}
             /\ \A i \in AlarmThreads : tpc[i] = "give" => i = 1
             /\ 1 \in AlarmThreads => \/ tpc[1] \in {"none", "started", "keeper"}
                                      \/ 1 \in skipped
             /\ made > 1 \/ (made > 0 /\ apc = "create") => 1 \in skipped

AlarmInv == Alarm!TypeOK /\ Handle /\ OnePermit

\* Each life makes one alarm thread at most, and the queue is there for all of it.
Lives == /\ made <= lives
         /\ spc \in {"create", "set"} \/ apc \in {"keeper", "give", "create"} => made < lives
         /\ spc # "alarm" => apc = "out"
         /\ lives = 0 => spc = "out"
         /\ qCreated <=> spc \notin {"out", "create"}
         /\ spc = "out" => epc \in {"none", "gone", "ended"}

\* mExit ends the loop, in this life and every later one.
Exits == /\ epc = "get" => ~mExit
         /\ epc = "ended" => mExit
         /\ epc = "gone" /\ spc = "join" =>
               (\E k \in 1..Len(mQ) : mQ[k] = "Exit") \/ Len(mQ) = mMaxSize

Taken == mExit \/ (epc = "on" /\ event = "Exit")

\* After the first life the thread has taken an Exit, or there is one in the list, or
\* the list is full of elements that no permit counts.
Barred == lives > 1 \/ (lives = 1 /\ spc = "out") =>
              \/ Taken
              \/ \E k \in 1..Len(mQ) : mQ[k] = "Exit"
              \/ /\ Len(mQ) = mMaxSize /\ mSem = 0
                 /\ \A k \in 1..Len(mQ) : mQ[k] # "ALARM_INPUT"

\* An ALARM_INPUT is of a second alarm thread, and behind an Exit.
Behind == \A k \in 1..Len(mQ) : mQ[k] = "ALARM_INPUT" =>
              /\ made > 1
              /\ Taken \/ \E j \in 1..(k - 1) : mQ[j] = "Exit"

NotRead == event # "ALARM_INPUT" /\ "ALARM_INPUT" \notin handled

IInv == TypeOK /\ AlarmInv /\ Lives /\ Exits /\ Barred /\ Behind /\ NotRead

--------------------------------------------------------------------------------
(* XLAlarm starts without a permit and without a thread.                      *)
LEMMA AlarmInit == Alarm!Init => AlarmInv
<1> SUFFICES ASSUME Alarm!Init PROVE AlarmInv
  OBVIOUS
<1> USE BoundsAssumption DEF Alarm!Init, Alarm!Permits, Alarm!Threads, AlarmThreads
<1>1. Alarm!TypeOK
  <2>1. \A i \in AlarmThreads : ~Alarm!Inside(i)
    BY DEF Alarm!Inside
  <2>2. m_handle \in 0..made /\ made \in 0..MaxThreads /\ m_ExitKeeper \in 0..1
    OBVIOUS
  <2> QED
    BY <2>1, <2>2 DEF Alarm!TypeOK
<1>2. Handle
  BY DEF Handle
<1>3. OnePermit
  BY DEF OnePermit, Inside
<1> QED
  BY <1>1, <1>2, <1>3 DEF AlarmInv

(* What the caller does in SetAlarm and Reset.                                *)
LEMMA AlarmCallerInv ==
    ASSUME AlarmInv, Alarm!SetAlarm \/ Alarm!SetStep \/ Alarm!Reset
    PROVE  AlarmInv'
<1> USE BoundsAssumption DEF Alarm!Threads, AlarmThreads, Alarm!Caller
<1>0. Alarm!TypeOK /\ Handle /\ OnePermit
  BY DEF AlarmInv
<1>1. CASE Alarm!SetAlarm
  <2>1. Alarm!TypeOK'
    BY <1>0, <1>1 DEF Alarm!SetAlarm, Alarm!TypeOK, Alarm!Inside
  <2>2. Handle'
    BY <1>0, <1>1 DEF Alarm!SetAlarm, Handle, Alarm!TypeOK
  <2>3. OnePermit'
    BY <1>0, <1>1 DEF Alarm!SetAlarm, Handle, OnePermit, Inside, Given, Alarm!TypeOK
  <2> QED
    BY <2>1, <2>2, <2>3 DEF AlarmInv
<1>2. CASE Alarm!SetTake
  <2>1. Alarm!TypeOK'
    BY <1>0, <1>2 DEF Alarm!SetTake, Alarm!TypeOK, Alarm!Inside
  <2>2. Handle'
    BY <1>0, <1>2 DEF Alarm!SetTake, Handle
  <2>3. OnePermit'
    BY <1>0, <1>2 DEF Alarm!SetTake, OnePermit, Inside, Given, Alarm!TypeOK
  <2> QED
    BY <2>1, <2>2, <2>3 DEF AlarmInv
<1>3. CASE Alarm!SetGive
  <2>0. Inside = {} /\ Given /\ m_ExitKeeper = 0
    BY <1>0, <1>3 DEF Alarm!SetGive, OnePermit, Alarm!TypeOK
  <2>1. Alarm!TypeOK'
    <3>1. \A i \in AlarmThreads : ~Alarm!Inside(i)'
      BY <1>3, <2>0 DEF Alarm!SetGive, Alarm!Inside, Inside
    <3> QED
      BY <1>0, <1>3, <2>0, <3>1 DEF Alarm!SetGive, Alarm!TypeOK
  <2>2. Handle'
    BY <1>0, <1>3 DEF Alarm!SetGive, Handle
  <2>3. OnePermit'
    BY <1>0, <1>3, <2>0 DEF Alarm!SetGive, OnePermit, Inside, Given
  <2> QED
    BY <2>1, <2>2, <2>3 DEF AlarmInv
<1>4. CASE Alarm!SetCreate
  <2>0. /\ made \in Nat /\ made' = made + 1 /\ made' \in AlarmThreads
        /\ tpc[made'] = "none" /\ tpc' = [tpc EXCEPT ![made'] = "started"]
    BY <1>0, <1>4 DEF Alarm!SetCreate, Alarm!TypeOK, Handle
  <2>1. Alarm!TypeOK'
    <3>1. \A j \in AlarmThreads : Alarm!Inside(j)' => Alarm!Inside(j)
      BY <1>0, <2>0 DEF Alarm!TypeOK, Alarm!Inside
    <3>2. m_handle' \in 0..made' /\ made' \in 0..MaxThreads
      BY <1>0, <1>4, <2>0 DEF Alarm!SetCreate, Alarm!TypeOK
    <3>3. tpc' \in [AlarmThreads -> {"none", "started", "keeper", "loop", "sound", "ranout",
                                     "give", "join", "ended"}]
      BY <1>0, <2>0 DEF Alarm!TypeOK
    <3> QED
      BY <1>0, <1>4, <3>1, <3>2, <3>3 DEF Alarm!SetCreate, Alarm!TypeOK
  <2>2. Handle'
    BY <1>0, <1>4, <2>0 DEF Alarm!SetCreate, Handle, Alarm!TypeOK
  <2>3. Inside' = Inside
    BY <1>0, <2>0 DEF Inside, Alarm!TypeOK
  <2>4. Given => Given'
    BY <1>0, <1>4, <2>0 DEF Alarm!SetCreate, Given, Alarm!TypeOK
  <2>5. 1 \in AlarmThreads => \/ tpc'[1] \in {"none", "started", "keeper"}
                              \/ 1 \in skipped'
    BY <1>0, <1>4, <2>0 DEF Alarm!SetCreate, OnePermit, Alarm!TypeOK
  <2>6. made' > 1 => 1 \in skipped'
    BY <1>0, <1>4, <2>0 DEF Alarm!SetCreate, OnePermit
  <2>7. OnePermit'
    BY <1>0, <1>4, <2>0, <2>3, <2>4, <2>5, <2>6 DEF Alarm!SetCreate, OnePermit, Alarm!TypeOK
  <2> QED
    BY <2>1, <2>2, <2>7 DEF AlarmInv
<1>5. CASE Alarm!SetAssign
  <2>1. Alarm!TypeOK'
    BY <1>0, <1>5 DEF Alarm!SetAssign, Alarm!TypeOK, Alarm!Inside
  <2>2. Handle'
    BY <1>0, <1>5 DEF Alarm!SetAssign, Handle
  <2>3. OnePermit'
    BY <1>0, <1>5 DEF Alarm!SetAssign, OnePermit, Inside, Given
  <2> QED
    BY <2>1, <2>2, <2>3 DEF AlarmInv
<1>6. CASE Alarm!Reset
  <2>1. Alarm!TypeOK'
    BY <1>0, <1>6 DEF Alarm!Reset, Alarm!TypeOK, Alarm!Inside
  <2>2. Handle' /\ OnePermit'
    BY <1>0, <1>6 DEF Alarm!Reset, Handle, OnePermit, Inside, Given
  <2> QED
    BY <2>1, <2>2 DEF AlarmInv
<1> QED
  BY <1>1, <1>2, <1>3, <1>4, <1>5, <1>6 DEF Alarm!SetStep

(* What an alarm thread does.                                                 *)
LEMMA AlarmThreadInv ==
    ASSUME AlarmInv, NEW i \in AlarmThreads, Alarm!ThreadStep(i) \/ Alarm!Sounded(i)
    PROVE  AlarmInv'
<1> USE BoundsAssumption DEF Alarm!Threads, AlarmThreads, Alarm!Thread
<1>0. Alarm!TypeOK /\ Handle /\ OnePermit
  BY DEF AlarmInv
<1>1. CASE Alarm!Check(i)
  <2>0. /\ tpc[i] = "started" /\ UNCHANGED <<m_handle, m_ExitKeeper, m_bExit, made, apc>>
        /\ \/ tpc' = [tpc EXCEPT ![i] = "keeper"] /\ skipped' = skipped
           \/ /\ tpc' = [tpc EXCEPT ![i] = "ranout"]
              /\ m_handle = 0 /\ skipped' = skipped \cup {i}
    BY <1>1 DEF Alarm!Check
  <2>1. Alarm!TypeOK'
    BY <1>0, <1>1 DEF Alarm!Check, Alarm!TypeOK, Alarm!Inside
  <2>2. Handle'
    BY <1>0, <2>0 DEF Handle, Alarm!TypeOK
  <2>3. Inside' = Inside
    BY <1>0, <2>0 DEF Inside, Alarm!TypeOK
  <2>4. Given => Given'
    BY <1>0, <2>0 DEF Given, Alarm!TypeOK
  <2>5. m_handle = 0 => i = 1
    BY <1>0, <2>0 DEF Handle, Alarm!TypeOK
  <2>6. OnePermit'
    BY <1>0, <2>0, <2>3, <2>4, <2>5 DEF OnePermit, Alarm!TypeOK
  <2> QED
    BY <2>1, <2>2, <2>6 DEF AlarmInv
<1>2. CASE Alarm!Keep(i)
  <2>0. Given /\ Inside = {} /\ apc # "give" /\ m_ExitKeeper = 1 /\ m_ExitKeeper' = 0
    BY <1>0, <1>2 DEF Alarm!Keep, OnePermit, Alarm!TypeOK
  <2>1. Alarm!TypeOK'
    BY <1>0, <1>2, <2>0 DEF Alarm!Keep, Alarm!TypeOK, Alarm!Inside, Inside
  <2>2. Handle'
    BY <1>0, <1>2 DEF Alarm!Keep, Handle, Alarm!TypeOK
  <2>3. Given'
    BY <1>0, <1>2, <2>0 DEF Alarm!Keep, Given, Alarm!TypeOK
  <2>4. OnePermit'
    BY <1>0, <1>2, <2>0, <2>3 DEF Alarm!Keep, OnePermit, Given, Alarm!TypeOK
  <2> QED
    BY <2>1, <2>2, <2>4 DEF AlarmInv
<1>3. CASE Alarm!Loop(i) \/ Alarm!Sounded(i)
  <2>0. /\ tpc[i] \in {"loop", "sound"} /\ i \in Inside
        /\ \E l \in {"loop", "sound", "ranout"} : tpc' = [tpc EXCEPT ![i] = l]
        /\ UNCHANGED <<m_handle, m_ExitKeeper, m_bExit, made, apc, terminated, skipped>>
    BY <1>3 DEF Alarm!Loop, Alarm!Sounded, Inside
  <2>1. Alarm!TypeOK'
    BY <1>0, <2>0 DEF Alarm!TypeOK, Alarm!Inside
  <2>2. Handle'
    BY <1>0, <2>0 DEF Handle, Alarm!TypeOK
  <2>3. Given /\ i # 1 /\ Given'
    BY <1>0, <2>0 DEF OnePermit, Given, Alarm!TypeOK
  <2>4. Inside' \subseteq Inside
    BY <1>0, <2>0 DEF Inside, Alarm!TypeOK
  <2>5. OnePermit'
    BY <1>0, <2>0, <2>3, <2>4 DEF OnePermit, Alarm!TypeOK
  <2> QED
    BY <2>1, <2>2, <2>5 DEF AlarmInv
<1>4. CASE Alarm!RanOut(i)
  <2>0. /\ tpc[i] = "ranout" /\ UNCHANGED <<m_handle, m_ExitKeeper, m_bExit, made, apc, skipped>>
        /\ terminated' \in BOOLEAN
        /\ \/ tpc' = [tpc EXCEPT ![i] = "give"] /\ m_handle = 0
           \/ \E l \in {"join", "ended"} : tpc' = [tpc EXCEPT ![i] = l]
    <3>1. terminated \in BOOLEAN
      BY <1>0 DEF Alarm!TypeOK
    <3> QED
      BY <1>4, <3>1 DEF Alarm!RanOut
  <2>1. Alarm!TypeOK'
    BY <1>0, <2>0 DEF Alarm!TypeOK, Alarm!Inside
  <2>2. Handle'
    BY <1>0, <2>0 DEF Handle, Alarm!TypeOK
  <2>3. Inside' = Inside
    BY <1>0, <2>0 DEF Inside, Alarm!TypeOK
  <2>4. Given => Given'
    BY <1>0, <2>0 DEF Given, Alarm!TypeOK
  <2>5. m_handle = 0 => i = 1
    BY <1>0, <2>0 DEF Handle, Alarm!TypeOK
  <2>6. OnePermit'
    BY <1>0, <2>0, <2>3, <2>4, <2>5 DEF OnePermit, Alarm!TypeOK
  <2> QED
    BY <2>1, <2>2, <2>6 DEF AlarmInv
<1>5. CASE Alarm!GiveBack(i)
  <2>0. i = 1 /\ tpc[1] = "give" /\ 1 \in skipped /\ ~Given
    BY <1>0, <1>5 DEF Alarm!GiveBack, OnePermit, Given
  <2>1. m_ExitKeeper = 0 /\ apc # "give" /\ Inside = {}
    BY <1>0, <2>0 DEF OnePermit, Alarm!TypeOK
  <2>2. Alarm!TypeOK'
    <3>1. \A j \in AlarmThreads : ~Alarm!Inside(j)'
      BY <1>0, <1>5, <2>1 DEF Alarm!GiveBack, Alarm!TypeOK, Alarm!Inside, Inside
    <3>2. m_ExitKeeper' \in 0..1
      BY <1>5, <2>1 DEF Alarm!GiveBack
    <3> QED
      BY <1>0, <1>5, <3>1, <3>2 DEF Alarm!GiveBack, Alarm!TypeOK
  <2>3. Handle'
    BY <1>0, <1>5 DEF Alarm!GiveBack, Handle, Alarm!TypeOK
  <2>4. Inside' = {} /\ Given'
    BY <1>0, <1>5, <2>0, <2>1 DEF Alarm!GiveBack, Inside, Given, Alarm!TypeOK
  <2>5. OnePermit'
    BY <1>0, <1>5, <2>0, <2>1, <2>4 DEF Alarm!GiveBack, OnePermit, Alarm!TypeOK
  <2> QED
    BY <2>2, <2>3, <2>5 DEF AlarmInv
<1> QED
  BY <1>1, <1>2, <1>3, <1>4, <1>5 DEF Alarm!ThreadStep

--------------------------------------------------------------------------------
(* What a Put leaves in the list.                                             *)
LEMMA PutFacts ==
    ASSUME mQ \in Seq(Events), mSem \in Nat, NEW e \in Events, Put(e)
    PROVE  \/ UNCHANGED <<mQ, mSem>> /\ (qCreated => Len(mQ) >= mMaxSize)
           \/ /\ qCreated /\ Len(mQ) < mMaxSize
              /\ mQ' \in Seq(Events) /\ Len(mQ') = Len(mQ) + 1
              /\ mQ'[Len(mQ) + 1] = e
              /\ \A k \in 1..Len(mQ) : mQ'[k] = mQ[k]
              /\ mSem' = mSem + 1
<1>1. CASE qCreated /\ Len(mQ) < mMaxSize
  BY <1>1, AppendProperties DEF Put
<1>2. CASE ~(qCreated /\ Len(mQ) < mMaxSize)
  BY <1>2, BoundsAssumption DEF Put
<1> QED
  BY <1>1, <1>2

(* A Put does not come before an Exit that is there, and an ALARM_INPUT is    *)
(* put when there is one or refused.                                          *)
LEMMA PutInv ==
    ASSUME QueueTyped, Barred, Behind, NEW e \in Events, Put(e),
           UNCHANGED <<qCreated, mExit, event, epc, made, lives>>,
           spc = "out" <=> spc' = "out", e = "ALARM_INPUT" => made > 1 /\ lives > 1
    PROVE  QueueTyped' /\ Barred' /\ Behind'
<1>1. \/ UNCHANGED <<mQ, mSem>>
      \/ /\ Len(mQ) < mMaxSize /\ Len(mQ) \in Nat
         /\ mQ' \in Seq(Events) /\ Len(mQ') = Len(mQ) + 1
         /\ mQ'[Len(mQ) + 1] = e
         /\ \A k \in 1..Len(mQ) : mQ'[k] = mQ[k]
         /\ mSem' = mSem + 1
  BY PutFacts DEF QueueTyped
<1>2. CASE UNCHANGED <<mQ, mSem>>
  BY <1>2 DEF QueueTyped, Barred, Behind, Taken
<1>3. CASE mSem' = mSem + 1
  <2>0. mSem \in Nat /\ mMaxSize \in Nat /\ mSem' # mSem
    BY <1>3, BoundsAssumption DEF QueueTyped
  <2>1. /\ Len(mQ) < mMaxSize /\ Len(mQ) \in Nat
        /\ mQ' \in Seq(Events) /\ Len(mQ') = Len(mQ) + 1
        /\ mQ'[Len(mQ) + 1] = e
        /\ \A k \in 1..Len(mQ) : mQ'[k] = mQ[k]
    BY <1>1, <2>0
  <2>2. QueueTyped'
    BY <1>3, <2>0, <2>1 DEF QueueTyped
  <2>3. Taken' = Taken
    BY DEF Taken
  <2>4. lives > 1 \/ (lives = 1 /\ spc = "out") =>
            Taken \/ \E k \in 1..Len(mQ) : mQ[k] = "Exit"
    BY <2>0, <2>1 DEF Barred
  <2>5. Barred'
    BY <2>1, <2>3, <2>4 DEF Barred
  <2>6. Behind'
    <3> SUFFICES ASSUME NEW k \in 1..Len(mQ'), mQ'[k] = "ALARM_INPUT"
                 PROVE  made > 1 /\ (Taken \/ \E j \in 1..(k - 1) : mQ'[j] = "Exit")
      BY <2>3 DEF Behind
    <3>1. CASE k \in 1..Len(mQ)
      <4>1. mQ[k] = "ALARM_INPUT"
        BY <2>1, <3>1
      <4>2. made > 1 /\ (Taken \/ \E j \in 1..(k - 1) : mQ[j] = "Exit")
        BY <3>1, <4>1 DEF Behind
      <4>3. \A j \in 1..(k - 1) : mQ'[j] = mQ[j]
        BY <2>1, <3>1
      <4> QED
        BY <4>2, <4>3
    <3>2. CASE k = Len(mQ) + 1
      <4>1. made > 1 /\ lives > 1
        BY <2>1, <3>2
      <4>2. 1..(k - 1) = 1..Len(mQ)
        BY <2>1, <3>2
      <4> QED
        BY <2>1, <2>4, <4>1, <4>2
    <3> QED
      BY <2>1, <3>1, <3>2
  <2> QED
    BY <2>2, <2>5, <2>6
<1> QED
  BY <1>1, <1>2, <1>3

(* The scheduler starts with nothing.                                         *)
LEMMA InitIInv == Init => IInv
<1> SUFFICES ASSUME Init PROVE IInv
  OBVIOUS
<1>0. /\ Alarm!Init
      /\ m_AlarmSem = [created |-> FALSE, permits |-> 0]
      /\ qCreated = FALSE /\ mSem = 0 /\ mQ = <<>>
      /\ mExit = FALSE /\ event = "Exit" /\ epc = "none" /\ handled = {}
      /\ spc = "out" /\ lives = 0 /\ jobs = 0 /\ stopped = FALSE
      /\ put = [i \in AlarmThreads |-> "out"]
  BY DEF Init
<1>1. AlarmInv
  BY <1>0, AlarmInit
<1>2. made = 0 /\ apc = "out"
  BY <1>0 DEF Alarm!Init
<1>3. TypeOK
  <2>1. SemTyped
    BY <1>0 DEF SemTyped
  <2>2. ThreadTyped
    BY <1>0 DEF ThreadTyped, Events
  <2>3. CallerTyped
    <3>1. lives \in 0..MaxLives /\ jobs \in 0..MaxJobs
      BY <1>0, BoundsAssumption
    <3>2. stopped \in BOOLEAN
      BY <1>0
    <3> QED
      BY <1>0, <3>1, <3>2 DEF CallerTyped
  <2>4. SoundTyped
    BY <1>0 DEF SoundTyped
  <2>5. QueueTyped
    <3>1. mQ \in Seq(Events) /\ Len(mQ) = 0
      BY <1>0, EmptySeq
    <3>2. qCreated \in BOOLEAN
      BY <1>0
    <3>3. mSem \in Nat /\ mSem <= Len(mQ) /\ Len(mQ) <= mMaxSize
      BY <1>0, <3>1, BoundsAssumption
    <3> QED
      BY <3>1, <3>2, <3>3 DEF QueueTyped
  <2> QED
    BY <1>1, <2>1, <2>2, <2>3, <2>4, <2>5 DEF TypeOK, AlarmInv
<1>4. Lives /\ Exits /\ Barred /\ Behind /\ NotRead
  BY <1>0, <1>2 DEF Lives, Exits, Barred, Behind, NotRead
<1> QED
  BY <1>1, <1>3, <1>4 DEF IInv

(* Nothing of the alarm is changed by a step that leaves its variables alone. *)
LEMMA AlarmSame == AlarmInv /\ UNCHANGED alarm => AlarmInv'
BY DEF alarm, AlarmInv, Alarm!TypeOK, Alarm!Inside, Alarm!Threads, Handle, OnePermit, Given,
       Inside, AlarmThreads

(* Start makes the thread and the queue, and a life that ends leaves the      *)
(* list as it is.                                                             *)
LEMMA LifeInv == IInv /\ (Start \/ StartQueue \/ StopJoin) => IInv'
<1> SUFFICES ASSUME IInv, Start \/ StartQueue \/ StopJoin PROVE IInv'
  OBVIOUS
<1> USE BoundsAssumption DEF Caller, alarm, queue, thread, counters
<1>1. AlarmInv'
  BY AlarmSame DEF IInv, Start, StartQueue, StopJoin
<1>2. TypeOK'
  <2>1. SemTyped'
    <3>1. m_AlarmSem' \in {m_AlarmSem, [created |-> TRUE, permits |-> 1],
                           [created |-> FALSE, permits |-> 0]}
      BY DEF Start, StartQueue, StopJoin
    <3>2. /\ [created |-> TRUE, permits |-> 1] \in [created : BOOLEAN, permits : 0..1]
          /\ [created |-> FALSE, permits |-> 0] \in [created : BOOLEAN, permits : 0..1]
      OBVIOUS
    <3> QED
      BY <3>1, <3>2 DEF IInv, TypeOK, SemTyped
  <2>2. ThreadTyped' /\ CallerTyped'
    BY DEF IInv, TypeOK, ThreadTyped, CallerTyped, Start, StartQueue, StopJoin
  <2>3. SoundTyped'
    BY DEF IInv, TypeOK, SoundTyped, Start, StartQueue, StopJoin
  <2>4. QueueTyped'
    <3>1. QueueTyped /\ Len(mQ) \in Nat
      BY LenProperties DEF IInv, TypeOK, QueueTyped
    <3>2. UNCHANGED mQ /\ qCreated' \in BOOLEAN /\ (mSem' = 0 \/ UNCHANGED mSem)
      BY <3>1 DEF Start, StartQueue, StopJoin, QueueTyped
    <3> QED
      BY <3>1, <3>2 DEF QueueTyped
  <2> QED
    BY <1>1, <2>1, <2>2, <2>3, <2>4 DEF TypeOK, AlarmInv
<1>3. Lives'
  BY DEF IInv, Lives, TypeOK, CallerTyped, AlarmInv, Alarm!TypeOK, Start, StartQueue, StopJoin
<1>4. Exits'
  BY DEF IInv, Exits, Start, StartQueue, StopJoin
<1>5. Behind' /\ NotRead'
  BY DEF IInv, Behind, NotRead, Taken, Start, StartQueue, StopJoin, Lives
<1>6. Barred'
  <2>1. CASE Start
    BY <2>1 DEF IInv, Barred, Taken, Start, Lives, TypeOK, CallerTyped
  <2>2. CASE StartQueue
    BY <2>2 DEF IInv, Barred, Taken, StartQueue
  <2>3. CASE StopJoin
    <3>1. CASE epc = "ended"
      BY <2>3, <3>1 DEF IInv, Exits, Barred, Taken, StopJoin
    <3>2. CASE epc = "gone" /\ \E k \in 1..Len(mQ) : mQ[k] = "Exit"
      BY <2>3, <3>2 DEF Barred, Taken, StopJoin
    <3>3. CASE Len(mQ) = mMaxSize /\ ~\E k \in 1..Len(mQ) : mQ[k] = "Exit"
      <4>1. CASE lives = 1
        <5>1. made \in 0..1
          BY <4>1 DEF IInv, Lives, TypeOK, Alarm!TypeOK, CallerTyped
        <5>2. \A k \in 1..Len(mQ) : mQ[k] # "ALARM_INPUT"
          BY <5>1 DEF IInv, Behind
        <5> QED
          BY <2>3, <3>3, <5>2 DEF Barred, StopJoin
      <4>2. CASE lives > 1
        BY <2>3, <4>2, <3>3 DEF IInv, Barred, Taken, StopJoin
      <4> QED
        BY <2>3, <4>1, <4>2 DEF IInv, TypeOK, CallerTyped, Barred, StopJoin
    <3> QED
      BY <2>3, <3>1, <3>2, <3>3 DEF IInv, Exits, StopJoin
  <2> QED
    BY <2>1, <2>2, <2>3
<1> QED
  BY <1>1, <1>2, <1>3, <1>4, <1>5, <1>6 DEF IInv

(* What the caller does with the alarm, and with m_AlarmSem.                  *)
LEMMA CallInv ==
    IInv /\ (StartAlarm \/ AlarmCall \/ StartReturn \/ Stop \/ StopSem) => IInv'
<1> SUFFICES ASSUME IInv, StartAlarm \/ AlarmCall \/ StartReturn \/ Stop \/ StopSem PROVE IInv'
  OBVIOUS
<1> USE BoundsAssumption DEF Caller, alarm, queue, thread, counters
<1>0. AlarmInv /\ Alarm!TypeOK
  BY DEF IInv, AlarmInv
<1>1. AlarmInv'
  BY <1>0, AlarmSame, AlarmCallerInv DEF StartAlarm, AlarmCall, StartReturn, Stop, StopSem
<1>2. \/ UNCHANGED <<tpc, made>>
      \/ /\ apc = "create" /\ spc = "alarm" /\ made' = made + 1 /\ tpc[made'] = "none"
         /\ tpc' = [tpc EXCEPT ![made'] = "started"]
  BY <1>0 DEF StartAlarm, AlarmCall, StartReturn, Stop, StopSem, Alarm!SetStep, Alarm!SetTake,
     Alarm!SetGive, Alarm!SetCreate, Alarm!SetAssign, Alarm!Reset, Alarm!SetAlarm, Alarm!Caller,
     AlarmInv, Handle, Alarm!TypeOK, AlarmThreads, Alarm!Threads, IInv, Lives
<1>3. made' >= made
  BY <1>0, <1>2 DEF Alarm!TypeOK
<1>4. UNCHANGED <<queue, thread, lives>> /\ spc # "out" /\ spc' # "out"
  BY DEF StartAlarm, AlarmCall, StartReturn, Stop, StopSem
<1>5. TypeOK'
  <2>0. SemTyped'
    <3>1. m_AlarmSem' \in {m_AlarmSem, [created |-> TRUE, permits |-> 1],
                           [created |-> FALSE, permits |-> 0]}
      BY DEF StartAlarm, AlarmCall, StartReturn, Stop, StopSem
    <3>2. /\ [created |-> TRUE, permits |-> 1] \in [created : BOOLEAN, permits : 0..1]
          /\ [created |-> FALSE, permits |-> 0] \in [created : BOOLEAN, permits : 0..1]
      OBVIOUS
    <3> QED
      BY <3>1, <3>2 DEF IInv, TypeOK, SemTyped
  <2>1. ThreadTyped' /\ CallerTyped'
    BY <1>4 DEF IInv, TypeOK, ThreadTyped, CallerTyped, StartAlarm, AlarmCall, StartReturn,
       Stop, StopSem
  <2>2. QueueTyped'
    BY <1>4 DEF IInv, TypeOK, QueueTyped
  <2>3. SoundTyped'
    BY <1>0, <1>2 DEF IInv, TypeOK, SoundTyped, Alarm!TypeOK, Alarm!Threads, AlarmThreads,
       StartAlarm, AlarmCall, StartReturn, Stop, StopSem
  <2> QED
    BY <1>1, <2>0, <2>1, <2>2, <2>3 DEF TypeOK, AlarmInv
<1>6. Lives'
  BY <1>0 DEF IInv, Lives, TypeOK, CallerTyped, Alarm!TypeOK, StartAlarm, AlarmCall, StartReturn,
     Stop, StopSem, Alarm!SetStep, Alarm!SetTake, Alarm!SetGive, Alarm!SetCreate, Alarm!SetAssign,
     Alarm!Reset, Alarm!SetAlarm, Alarm!Caller
<1>7. Exits'
  BY <1>4 DEF IInv, Exits, StartAlarm, AlarmCall, StartReturn, Stop, StopSem
<1>8. Barred' /\ NotRead'
  BY <1>4 DEF IInv, Barred, Taken, NotRead
<1>9. Behind'
  <2>1. made \in Int /\ made' \in Int
    BY <1>0, <1>2 DEF Alarm!TypeOK
  <2>2. mQ' = mQ /\ Taken' = Taken
    BY <1>4 DEF Taken, queue, thread
  <2>3. Behind
    BY DEF IInv
  <2> QED
    BY <1>3, <2>1, <2>2, <2>3 DEF Behind
<1> QED
  BY <1>1, <1>5, <1>6, <1>7, <1>8, <1>9 DEF IInv

(* SetJob and the Exit of Stop: what they put is behind the Exit that is there. *)
LEMMA CallerPutInv == IInv /\ (SetJob \/ StopExit) => IInv'
<1> SUFFICES ASSUME IInv, SetJob \/ StopExit PROVE IInv'
  OBVIOUS
<1> USE DEF Caller
<1>0. mQ \in Seq(Events) /\ Len(mQ) \in Nat /\ Len(mQ) <= mMaxSize /\ mSem \in Nat /\ qCreated
  BY LenProperties DEF IInv, TypeOK, QueueTyped, Lives, SetJob, StopExit
<1>1. /\ UNCHANGED <<alarm, m_AlarmSem, qCreated, thread, put, lives, stopped>>
      /\ UNCHANGED <<mExit, event, epc, handled, made, apc, tpc>>
      /\ spc # "out" /\ spc' # "out" /\ spc \notin {"create", "set", "alarm"}
      /\ spc' \notin {"create", "set", "alarm"}
  BY DEF SetJob, StopExit, alarm, thread, counters
<1>2. Put("ADD_A_JOB") \/ Put("Exit")
  BY DEF SetJob, StopExit
<1>3. QueueTyped' /\ Barred' /\ Behind'
  BY <1>1, <1>2, PutInv DEF IInv, TypeOK, Events
<1>4. AlarmInv'
  BY <1>1, AlarmSame DEF IInv
<1>5. TypeOK'
  <2>1. SemTyped' /\ ThreadTyped' /\ SoundTyped'
    BY <1>1 DEF IInv, TypeOK, SemTyped, ThreadTyped, SoundTyped
  <2>2. CallerTyped'
    BY <1>1, BoundsAssumption DEF IInv, TypeOK, CallerTyped, SetJob, StopExit, counters
  <2> QED
    BY <1>3, <1>4, <2>1, <2>2 DEF TypeOK, AlarmInv
<1>6. Lives' /\ NotRead'
  BY <1>1 DEF IInv, Lives, NotRead
<1>7. Exits'
  <2>1. CASE SetJob
    BY <1>1, <2>1 DEF IInv, Exits, SetJob
  <2>2. CASE StopExit
    <3>1. (\E k \in 1..Len(mQ') : mQ'[k] = "Exit") \/ Len(mQ') = mMaxSize
      BY <1>0, <2>2, PutFacts, BoundsAssumption DEF StopExit, Events
    <3> QED
      BY <1>1, <3>1 DEF IInv, Exits
  <2> QED
    BY <2>1, <2>2
<1> QED
  BY <1>3, <1>4, <1>5, <1>6, <1>7 DEF IInv

(* The thread takes the head of its list, which is never an ALARM_INPUT while *)
(* it has no Exit.                                                            *)
LEMMA ThreadInv == IInv /\ ThreadStep => IInv'
<1> SUFFICES ASSUME IInv, ThreadStep PROVE IInv'
  OBVIOUS
<1> USE DEF Thread
<1>1. UNCHANGED <<alarm, spc, put, counters, qCreated>> /\ UNCHANGED <<made, apc, tpc, lives>>
  BY DEF ThreadStep, Begin, Loop, Get, OnEvent, queue, alarm, counters
<1>2. AlarmInv'
  BY <1>1, AlarmSame DEF IInv
<1>3. CallerTyped' /\ SoundTyped'
  BY <1>1 DEF IInv, TypeOK, CallerTyped, SoundTyped, counters
<1>4. Lives'
  BY <1>1 DEF IInv, Lives, ThreadStep, Begin, Loop, Get, OnEvent
<1>5. CASE Begin \/ Loop
  <2>1. UNCHANGED <<m_AlarmSem, mSem, mQ, mExit, event, handled>> /\ epc # "on"
    BY <1>5 DEF Begin, Loop, queue
  <2>2. ThreadTyped'
    BY <1>5, <2>1 DEF IInv, TypeOK, ThreadTyped, Begin, Loop
  <2>3. Exits'
    BY <1>1, <1>5, <2>1 DEF IInv, Exits, Begin, Loop
  <2>4. SemTyped' /\ QueueTyped' /\ NotRead'
    BY <1>1, <2>1 DEF IInv, TypeOK, SemTyped, QueueTyped, NotRead
  <2>5. Barred' /\ Behind'
    BY <1>1, <2>1 DEF IInv, Barred, Behind, Taken
  <2> QED
    BY <1>2, <1>3, <1>4, <2>2, <2>3, <2>4, <2>5 DEF IInv, TypeOK, AlarmInv
<1>6. CASE Get
  <2>1. /\ epc = "get" /\ epc' = "on" /\ ~mExit /\ mSem > 0 /\ mSem' = mSem - 1
        /\ event' = Head(mQ) /\ mQ' = Tail(mQ) /\ UNCHANGED <<m_AlarmSem, mExit, handled>>
        /\ mQ \in Seq(Events) /\ mSem \in Nat /\ mSem <= Len(mQ) /\ Len(mQ) <= mMaxSize
    BY <1>6 DEF Get, IInv, Exits, TypeOK, QueueTyped
  <2>2. Len(mQ) \in Nat /\ Len(mQ) > 0 /\ mQ # <<>>
    BY <2>1, LenProperties
  <2>3. /\ Head(mQ) \in Events /\ Head(mQ) = mQ[1] /\ Tail(mQ) \in Seq(Events)
        /\ Len(Tail(mQ)) = Len(mQ) - 1
        /\ \A k \in 1..Len(Tail(mQ)) : Tail(mQ)[k] = mQ[k + 1]
    BY <2>1, <2>2, HeadTailProperties
  <2>4. ~Taken
    BY <2>1 DEF Taken
  <2>5. mQ[1] # "ALARM_INPUT"
    <3>1. 1 \in 1..Len(mQ) /\ ~\E j \in 1..(1 - 1) : mQ[j] = "Exit"
      BY <2>2
    <3> QED
      BY <2>4, <3>1 DEF IInv, Behind
  <2>6. ThreadTyped'
    BY <2>1, <2>3 DEF IInv, TypeOK, ThreadTyped
  <2>7. QueueTyped'
    BY <1>1, <2>1, <2>2, <2>3, BoundsAssumption DEF IInv, TypeOK, QueueTyped
  <2>8. SemTyped' /\ Exits' /\ NotRead'
    BY <2>1, <2>3, <2>5 DEF IInv, TypeOK, SemTyped, Exits, NotRead
  <2>9. \A k \in 1..Len(mQ) : mQ[k] = "Exit" => Taken' \/ \E j \in 1..Len(mQ') : mQ'[j] = "Exit" /\ j = k - 1
    <3> SUFFICES ASSUME NEW k \in 1..Len(mQ), mQ[k] = "Exit", k # 1
                 PROVE  \E j \in 1..Len(mQ') : mQ'[j] = "Exit" /\ j = k - 1
      BY <2>1, <2>3 DEF Taken
    <3>1. k - 1 \in 1..Len(mQ') /\ mQ'[k - 1] = mQ[k]
      BY <2>1, <2>2, <2>3
    <3> QED
      BY <3>1
  <2>10. Barred'
    <3> SUFFICES ASSUME lives > 1 \/ (lives = 1 /\ spc = "out")
                 PROVE  Taken' \/ \E j \in 1..Len(mQ') : mQ'[j] = "Exit"
      BY <1>1 DEF Barred
    <3>1. ~(mSem = 0)
      BY <2>1
    <3>2. \E k \in 1..Len(mQ) : mQ[k] = "Exit"
      BY <2>4, <3>1 DEF IInv, Barred
    <3> QED
      BY <2>9, <3>2
  <2>11. Behind'
    <3> SUFFICES ASSUME NEW k \in 1..Len(mQ'), mQ'[k] = "ALARM_INPUT"
                 PROVE  made' > 1 /\ (Taken' \/ \E j \in 1..(k - 1) : mQ'[j] = "Exit")
      BY DEF Behind
    <3>1. k + 1 \in 1..Len(mQ) /\ mQ[k + 1] = "ALARM_INPUT"
      BY <2>1, <2>2, <2>3
    <3>2. made > 1 /\ \E j \in 1..k : mQ[j] = "Exit"
      BY <2>4, <3>1 DEF IInv, Behind
    <3>3. PICK j \in 1..k : mQ[j] = "Exit"
      BY <3>2
    <3>4. j \in 1..Len(mQ) /\ j - 1 < k
      BY <2>2, <3>1
    <3> QED
      BY <1>1, <2>9, <3>2, <3>3, <3>4
  <2> QED
    BY <1>2, <1>3, <1>4, <2>6, <2>7, <2>8, <2>10, <2>11 DEF IInv, TypeOK, AlarmInv
<1>7. CASE OnEvent
  <2>1. /\ epc = "on" /\ epc' = "loop" /\ handled' = handled \cup {event}
        /\ mExit' = (mExit \/ event = "Exit") /\ UNCHANGED <<m_AlarmSem, mSem, mQ, event>>
    BY <1>7 DEF OnEvent, queue, IInv, NotRead
  <2>2. ThreadTyped'
    BY <2>1 DEF IInv, TypeOK, ThreadTyped
  <2>3. SemTyped' /\ QueueTyped' /\ Exits' /\ NotRead'
    BY <1>1, <2>1 DEF IInv, TypeOK, SemTyped, QueueTyped, Exits, NotRead
  <2>4. Taken' = Taken
    BY <2>1 DEF Taken
  <2>5. Barred' /\ Behind'
    BY <1>1, <2>1, <2>4 DEF IInv, Barred, Behind
  <2> QED
    BY <1>2, <1>3, <1>4, <2>2, <2>3, <2>5 DEF IInv, TypeOK, AlarmInv
<1> QED
  BY <1>5, <1>6, <1>7 DEF ThreadStep

(* An alarm that sounds is of a second thread, in a second life.              *)
LEMMA AlarmStepInv == ASSUME IInv, NEW i \in AlarmThreads, AlarmStep(i) PROVE IInv'
<1>0. AlarmInv /\ Alarm!TypeOK /\ Handle /\ OnePermit
  BY DEF IInv, AlarmInv
<1>1. AlarmInv'
  BY <1>0, AlarmSame, AlarmThreadInv DEF AlarmStep, OnAlarm, OnAlarmTake, OnAlarmPut, AlarmRun
<1>2. /\ UNCHANGED <<qCreated, thread, spc, counters, made, apc>>
      /\ UNCHANGED <<mExit, event, epc, handled, lives, jobs, stopped>>
  BY DEF AlarmStep, OnAlarm, OnAlarmTake, OnAlarmPut, AlarmRun, alarm, queue, thread, counters,
     Alarm!Sounded, Alarm!ThreadStep, Alarm!Check, Alarm!Keep, Alarm!Loop, Alarm!RanOut,
     Alarm!GiveBack
<1>3. ThreadTyped' /\ CallerTyped' /\ Lives' /\ NotRead'
  BY <1>2 DEF IInv, TypeOK, ThreadTyped, CallerTyped, Lives, NotRead
<1>4. CASE OnAlarmPut(i)
  <2>0. mQ \in Seq(Events) /\ Len(mQ) \in Nat /\ Len(mQ) <= mMaxSize /\ mSem \in Nat
    BY LenProperties DEF IInv, TypeOK, QueueTyped
  <2>1. Put("ALARM_INPUT") /\ UNCHANGED m_AlarmSem
    BY <1>4 DEF OnAlarmPut
  <2>2. made > 1 /\ lives > 1
    <3>1. tpc[i] = "sound" /\ i \in Inside
      BY <1>4 DEF OnAlarmPut, Alarm!Sounded, Alarm!Thread, Inside
    <3>2. i # 1
      BY <1>0, <3>1 DEF OnePermit, Given
    <3>3. i <= made
      BY <1>0, <3>1 DEF Handle, Alarm!TypeOK, AlarmThreads
    <3> QED
      BY <1>0, <3>2, <3>3 DEF IInv, Lives, TypeOK, CallerTyped, Alarm!TypeOK, AlarmThreads
  <2>3. QueueTyped' /\ Barred' /\ Behind'
    BY <1>2, <2>1, <2>2, PutInv DEF IInv, TypeOK, Events
  <2>4. Exits'
    <3>1. CASE UNCHANGED <<mQ, mSem>>
      BY <1>2, <3>1 DEF IInv, Exits
    <3>2. CASE Len(mQ) < mMaxSize /\ Len(mQ') = Len(mQ) + 1 /\ \A k \in 1..Len(mQ) : mQ'[k] = mQ[k]
      BY <1>2, <2>0, <3>2, BoundsAssumption DEF IInv, Exits
    <3> QED
      BY <2>0, <2>1, <3>1, <3>2, PutFacts DEF Events
  <2>5. SemTyped' /\ SoundTyped'
    BY <1>0, <1>4 DEF IInv, TypeOK, SemTyped, SoundTyped, OnAlarmPut, Alarm!Sounded, Alarm!Thread,
       Alarm!TypeOK, Alarm!Threads, AlarmThreads
  <2> QED
    BY <1>1, <1>3, <2>3, <2>4, <2>5 DEF IInv, TypeOK, AlarmInv
<1>5. CASE OnAlarm(i) \/ OnAlarmTake(i) \/ AlarmRun(i)
  <2>1. UNCHANGED <<mSem, mQ>>
    BY <1>5 DEF OnAlarm, OnAlarmTake, AlarmRun, queue
  <2>2. QueueTyped' /\ Exits'
    BY <1>2, <2>1 DEF IInv, TypeOK, QueueTyped, Exits
  <2>3. Barred' /\ Behind'
    BY <1>2, <2>1 DEF IInv, Barred, Behind, Taken
  <2>4. SemTyped'
    <3>1. UNCHANGED m_AlarmSem \/ (m_AlarmSem.permits > 0
                                   /\ m_AlarmSem' = [m_AlarmSem EXCEPT !.permits = @ - 1])
      BY <1>5 DEF OnAlarm, OnAlarmTake, AlarmRun
    <3> QED
      BY <3>1 DEF IInv, TypeOK, SemTyped
  <2>5. SoundTyped'
    <3>1. CASE AlarmRun(i)
      <4>1. /\ put' = put /\ tpc[i] # "sound"
            /\ \E l \in {"keeper", "ranout", "loop", "sound", "give", "join", "ended"} :
                  tpc' = [tpc EXCEPT ![i] = l]
        BY <3>1 DEF AlarmRun, Alarm!ThreadStep, Alarm!Check, Alarm!Keep, Alarm!Loop, Alarm!RanOut,
           Alarm!GiveBack, Alarm!Thread
      <4> QED
        BY <1>0, <4>1 DEF IInv, TypeOK, SoundTyped, Alarm!TypeOK, Alarm!Threads, AlarmThreads
    <3>2. CASE OnAlarm(i) \/ OnAlarmTake(i)
      BY <3>2 DEF IInv, TypeOK, SoundTyped, OnAlarm, OnAlarmTake, alarm
    <3> QED
      BY <1>5, <3>1, <3>2
  <2> QED
    BY <1>1, <1>3, <2>2, <2>3, <2>4, <2>5 DEF IInv, TypeOK, AlarmInv
<1> QED
  BY <1>4, <1>5 DEF AlarmStep

LEMMA NextIInv == IInv /\ [Next]_vars => IInv'
<1> SUFFICES ASSUME IInv, [Next]_vars PROVE IInv'
  OBVIOUS
<1>1. CASE Next
  BY <1>1, LifeInv, CallInv, CallerPutInv, ThreadInv, AlarmStepInv DEF Next, CallerStep
<1>2. CASE UNCHANGED vars
  <2>1. UNCHANGED alarm /\ UNCHANGED <<made, apc, tpc>>
    BY <1>2 DEF vars, alarm
  <2>2. AlarmInv'
    BY <2>1, AlarmSame DEF IInv
  <2>3. /\ UNCHANGED <<m_AlarmSem, qCreated, mSem, mQ, mExit, event, epc, handled>>
        /\ UNCHANGED <<spc, put, lives, jobs, stopped>>
    BY <1>2 DEF vars, queue, thread, counters
  <2>4. TypeOK'
    BY <2>1, <2>2, <2>3 DEF IInv, TypeOK, AlarmInv, SemTyped, QueueTyped, ThreadTyped, CallerTyped,
       SoundTyped
  <2> QED
    BY <2>1, <2>2, <2>3, <2>4 DEF IInv, Lives, Exits, Barred, Behind, NotRead, Taken
<1> QED
  BY <1>1, <1>2

LEMMA Invariance == Spec => []IInv
<1>1. Init => IInv
  BY InitIInv
<1>2. IInv /\ [Next]_vars => IInv'
  BY NextIInv
<1> QED
  BY <1>1, <1>2, PTL DEF Spec

(* Every variable has its type, and m_ExitKeeper lets one alarm thread at a   *)
(* time into its loop (XLAlarm.cpp:19-59), whatever Start, Stop and the two   *)
(* kinds of thread do (Scheduler.cpp:15-36).                                  *)
THEOREM TypeCorrect == Spec => []TypeOK
<1>1. IInv => TypeOK
  BY DEF IInv
<1> QED
  BY <1>1, Invariance, PTL

(* No ALARM_INPUT is handled in any number of lives, and a second alarm       *)
(* thread is there only if the first one skipped its program (Scheduler.cpp:  *)
(* 15-36, 100-132).                                                           *)
THEOREM NeverHandled == Spec => []AlarmNeverHandled
<1>1. IInv => AlarmNeverHandled
  BY DEF IInv, NotRead, AlarmInv, OnePermit, AlarmNeverHandled
<1> QED
  BY <1>1, Invariance, PTL

--------------------------------------------------------------------------------
(* The scheduler uses its XLAlarm by its operations alone: its steps are      *)
(* steps of XLAlarm or leave it as it is.                                     *)
THEOREM AlarmUsed == Spec => Alarm!Spec
<1>1. Init => Alarm!Init
  BY DEF Init
<1>2. [Next]_vars => [Alarm!Next]_(Alarm!vars)
  <2> SUFFICES ASSUME [Next]_vars PROVE Alarm!Next \/ UNCHANGED alarm
    BY DEF alarm, Alarm!vars
  <2>1. CASE UNCHANGED vars
    BY <2>1 DEF vars
  <2>2. CASE Start \/ SetJob \/ StartQueue \/ StartReturn \/ StopSem \/ StopExit \/ StopJoin
    BY <2>2 DEF Start, SetJob, StartQueue, StartReturn, StopSem, StopExit, StopJoin
  <2>3. CASE StartAlarm \/ AlarmCall \/ Stop
    BY <2>3 DEF StartAlarm, AlarmCall, Stop, Alarm!Next
  <2>4. CASE ThreadStep
    BY <2>4 DEF ThreadStep, Begin, Loop, Get, OnEvent
  <2>5. ASSUME NEW i \in AlarmThreads, AlarmStep(i) PROVE Alarm!Next \/ UNCHANGED alarm
    BY <2>5 DEF AlarmStep, OnAlarm, OnAlarmTake, OnAlarmPut, AlarmRun, Alarm!Next, AlarmThreads,
       Alarm!Threads
  <2> QED
    BY <2>1, <2>2, <2>3, <2>4, <2>5 DEF Next, CallerStep
<1> QED
  BY <1>1, <1>2, PTL DEF Spec, Alarm!Spec
================================================================================
