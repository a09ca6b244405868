--------------------------- MODULE XLAutoPtr_proofs ---------------------------
(***************************************************************************)
(* XLSharedSmPtr for any sets of threads, pointers, objects and counters:  *)
(* a count that no two threads have updated at a time is exact, and its    *)
(* object is deleted with the last pointer.                                *)
(***************************************************************************)
EXTENDS XLAutoPtr, FiniteSetTheorems, TLAPS

\* A thread changes a pointer that no other uses, and its source stays what it is.
Apart == /\ \A t, u \in Threads : t # u /\ pc[t] # "idle" /\ pc[u] # "idle"
                                  => tgt[t] # tgt[u] /\ tgt[t] # src[u]
         /\ \A t \in Threads : /\ pc[t] # "idle" => src[t] # tgt[t]
                               /\ pc[t] = "take" => At(t) = None
                               /\ pc[t] \in {"add", "increment"}
                                  => src[t] \in Ptrs /\ ptr[src[t]] = At(t)

InUpdate(t) == pc[t] \in {"decrement", "zero", "check", "increment"}

\* Two threads that update a counter at a time have been noticed.
Noticed == \A t, u \in Threads :
             t # u /\ InUpdate(t) /\ InUpdate(u) /\ At(t) = At(u) => At(u) \in overlapped

\* A counter has the object it was made for, until that is deleted.
Objective == /\ \A c \in used : m_pData[c] \in {of[c], None}
             /\ \A o \in Objects : deletes[o] > 0 => \E d \in used : of[d] = o

\* What a sound counter has to do with the pointers to it, and with its object
Exact(c) == c \in live => /\ m_iCount[c] = Cardinality(Counted(c))
                          /\ m_iCount[c] = 0 => \/ m_pData[c] = None
                                                \/ \E t \in Threads : pc[t] = "zero" /\ At(t) = c
                          /\ m_pData[c] = None => /\ m_iCount[c] = 0
                                                  /\ \E t \in Threads : pc[t] = "check" /\ At(t) = c
Owned(c) == /\ c \in live <=> \E p \in Ptrs : ptr[p] = c
            /\ c \notin live => m_pData[c] = None
DeletedOnce(c) == \/ deletes[of[c]] = IF m_pData[c] = None THEN 1 ELSE 0
                  \/ \E d \in used \ {c} : of[d] = of[c]

\* A thread in the middle of an update of a sound counter holds the count.
Holds(t) == pc[t] \in {"decrement", "zero", "increment"} /\ At(t) \in Sound
            => /\ m_iCount[At(t)] = IF pc[t] = "zero" THEN held[t] - 1 ELSE held[t]
               /\ m_pData[At(t)] # None

\* A counter of nothing that was not copied has one pointer, and others only on their way.
Single(c) == /\ c \in live <=> \E p \in Ptrs : ptr[p] = c
             /\ \A p, r \in Ptrs : p # r /\ ptr[p] = c /\ ptr[r] = c
                   => \E t \in Threads : pc[t] = "add" /\ tgt[t] \in {p, r}

Unshared == {c \in used : of[c] = None /\ c \notin nullShared}

Safe == /\ \A c \in Sound : Exact(c) /\ Owned(c) /\ DeletedOnce(c)
        /\ \A t \in Threads : Holds(t)
        /\ \A c \in Unshared : Single(c)

Placed == /\ \A t \in Threads : pc[t] # "idle" => tgt[t] \in Ptrs
          /\ \A t \in Threads : pc[t] \notin {"idle", "take"} => At(t) # None

Structure == PointersTyped /\ ThreadsTyped /\ Placed /\ Apart /\ Noticed /\ Objective

IInv == /\ Structure
        /\ ~crashed => Safe
        /\ CrashNeedsCause

--------------------------------------------------------------------------------
(* An operation begins on a pointer that nobody else uses.                    *)
LEMMA BeginStructure ==
    ASSUME Structure, NEW t \in Threads,
           NEW p \in Ptrs, NEW s \in Objects \cup Ptrs \cup {None, Destroyed},
           s # p, s \in Ptrs => Stable(t, s), copies' \in 0..MaxCopies,
           Begin(t, p, s)
    PROVE  Structure'
<1> USE DEF Begin, counters, threads, history, Thread, Return, At
<1>0. PointersTyped /\ ThreadsTyped /\ Placed /\ Apart /\ Noticed /\ Objective
  BY DEF Structure
<1>1. PointersTyped'
  BY <1>0, NoneAssumption DEF PointersTyped, ThreadsTyped, Placed
<1>2. ThreadsTyped'
  BY <1>0 DEF PointersTyped, ThreadsTyped
<1>3. Placed'
  BY <1>0, NoneAssumption DEF PointersTyped, ThreadsTyped, Placed, Apart
<1>4. Apart'
  BY <1>0, NoneAssumption, DistinctAssumption DEF PointersTyped, ThreadsTyped, Placed, Apart, Free, Stable
<1>5. Noticed'
  BY <1>0 DEF PointersTyped, ThreadsTyped, Placed, Apart, Noticed, InUpdate, Overlap, Updating
<1>6. Objective'
  BY <1>0 DEF PointersTyped, ThreadsTyped, Placed, Objective
<1> QED
  BY <1>1, <1>2, <1>3, <1>4, <1>5, <1>6 DEF Structure

(* A release reads the count, and is noticed if it is the second.             *)
LEMMA ReleaseStructure ==
    ASSUME Structure, NEW t \in Threads,
           Release(t), UNCHANGED copies
    PROVE  Structure'
<1> USE DEF Release, counters, threads, history, Thread, Return, At
<1>0. PointersTyped /\ ThreadsTyped /\ Placed /\ Apart /\ Noticed /\ Objective
  BY DEF Structure
<1>1. PointersTyped'
  BY <1>0, NoneAssumption DEF PointersTyped, ThreadsTyped, Placed, Overlap
<1>2. ThreadsTyped'
  BY <1>0 DEF PointersTyped, ThreadsTyped
<1>3. Placed'
  BY <1>0, NoneAssumption DEF PointersTyped, ThreadsTyped, Placed, Apart
<1>4. Apart'
  BY <1>0, NoneAssumption, DistinctAssumption DEF PointersTyped, ThreadsTyped, Placed, Apart, Free, Stable
<1>5. Noticed'
  BY <1>0 DEF PointersTyped, ThreadsTyped, Placed, Apart, Noticed, InUpdate, Overlap, Updating
<1>6. Objective'
  BY <1>0 DEF PointersTyped, ThreadsTyped, Placed, Objective
<1> QED
  BY <1>1, <1>2, <1>3, <1>4, <1>5, <1>6 DEF Structure

(* A release writes the count.                                                *)
LEMMA DecrementStructure ==
    ASSUME Structure, NEW t \in Threads,
           Decrement(t), UNCHANGED copies
    PROVE  Structure'
<1> USE DEF Decrement, counters, threads, history, Thread, Return, At
<1>0. PointersTyped /\ ThreadsTyped /\ Placed /\ Apart /\ Noticed /\ Objective
  BY DEF Structure
<1>1. PointersTyped'
  BY <1>0, NoneAssumption DEF PointersTyped, ThreadsTyped, Placed
<1>2. ThreadsTyped'
  BY <1>0 DEF PointersTyped, ThreadsTyped
<1>3. Placed'
  BY <1>0, NoneAssumption DEF PointersTyped, ThreadsTyped, Placed, Apart
<1>4. Apart'
  BY <1>0, NoneAssumption, DistinctAssumption DEF PointersTyped, ThreadsTyped, Placed, Apart, Free, Stable
<1>5. Noticed'
  BY <1>0 DEF PointersTyped, ThreadsTyped, Placed, Apart, Noticed, InUpdate, Overlap, Updating
<1>6. Objective'
  BY <1>0 DEF PointersTyped, ThreadsTyped, Placed, Objective
<1> QED
  BY <1>1, <1>2, <1>3, <1>4, <1>5, <1>6 DEF Structure

(* A release tests the count and may delete the object.                       *)
LEMMA ZeroStructure ==
    ASSUME Structure, NEW t \in Threads,
           Zero(t), UNCHANGED copies
    PROVE  Structure'
<1> USE DEF Zero, DeleteObject, counters, threads, history, Thread, Return, At
<1>0. PointersTyped /\ ThreadsTyped /\ Placed /\ Apart /\ Noticed /\ Objective
  BY DEF Structure
<1>1. PointersTyped'
  BY <1>0, NoneAssumption DEF PointersTyped, ThreadsTyped, Placed
<1>2. ThreadsTyped'
  BY <1>0 DEF PointersTyped, ThreadsTyped
<1>3. Placed'
  BY <1>0, NoneAssumption DEF PointersTyped, ThreadsTyped, Placed, Apart
<1>4. Apart'
  BY <1>0, NoneAssumption, DistinctAssumption DEF PointersTyped, ThreadsTyped, Placed, Apart, Free, Stable
<1>5. Noticed'
  BY <1>0 DEF PointersTyped, ThreadsTyped, Placed, Apart, Noticed, InUpdate, Overlap, Updating
<1>6. Objective'
  BY <1>0 DEF PointersTyped, ThreadsTyped, Placed, Objective
<1> QED
  BY <1>1, <1>2, <1>3, <1>4, <1>5, <1>6 DEF Structure

(* The counter without an object is deleted.                                  *)
LEMMA CheckStructure ==
    ASSUME Structure, NEW t \in Threads,
           Check(t), UNCHANGED copies
    PROVE  Structure'
<1> USE DEF Check, counters, threads, history, Thread, Return, At
<1>0. PointersTyped /\ ThreadsTyped /\ Placed /\ Apart /\ Noticed /\ Objective
  BY DEF Structure
<1>1. PointersTyped'
  BY <1>0, NoneAssumption DEF PointersTyped, ThreadsTyped, Placed
<1>2. ThreadsTyped'
  BY <1>0 DEF PointersTyped, ThreadsTyped
<1>3. Placed'
  BY <1>0, NoneAssumption DEF PointersTyped, ThreadsTyped, Placed, Apart
<1>4. Apart'
  BY <1>0, NoneAssumption, DistinctAssumption DEF PointersTyped, ThreadsTyped, Placed, Apart, Free, Stable
<1>5. Noticed'
  BY <1>0 DEF PointersTyped, ThreadsTyped, Placed, Apart, Noticed, InUpdate, Overlap, Updating
<1>6. Objective'
  BY <1>0 DEF PointersTyped, ThreadsTyped, Placed, Objective
<1> QED
  BY <1>1, <1>2, <1>3, <1>4, <1>5, <1>6 DEF Structure

(* A counter that was deleted is used.                                        *)
LEMMA UseStructure ==
    ASSUME Structure, NEW t \in Threads,
           Use(t), UNCHANGED copies
    PROVE  Structure'
<1> USE DEF Use, counters, threads, history, Thread, Return, At
<1>0. PointersTyped /\ ThreadsTyped /\ Placed /\ Apart /\ Noticed /\ Objective
  BY DEF Structure
<1>1. PointersTyped'
  BY <1>0, NoneAssumption DEF PointersTyped, ThreadsTyped, Placed
<1>2. ThreadsTyped'
  BY <1>0 DEF PointersTyped, ThreadsTyped
<1>3. Placed'
  BY <1>0, NoneAssumption DEF PointersTyped, ThreadsTyped, Placed, Apart
<1>4. Apart'
  BY <1>0, NoneAssumption, DistinctAssumption DEF PointersTyped, ThreadsTyped, Placed, Apart, Free, Stable
<1>5. Noticed'
  BY <1>0 DEF PointersTyped, ThreadsTyped, Placed, Apart, Noticed, InUpdate, Overlap, Updating
<1>6. Objective'
  BY <1>0 DEF PointersTyped, ThreadsTyped, Placed, Objective
<1> QED
  BY <1>1, <1>2, <1>3, <1>4, <1>5, <1>6 DEF Structure

(* A fresh counter is made.                                                   *)
LEMMA AdoptStructure ==
    ASSUME Structure, NEW t \in Threads,
           Adopt(t), UNCHANGED copies
    PROVE  Structure'
<1> USE DEF Adopt, counters, threads, history, Thread, Return, At
<1>0. PointersTyped /\ ThreadsTyped /\ Placed /\ Apart /\ Noticed /\ Objective
  BY DEF Structure
<1>1. PointersTyped'
  BY <1>0, NoneAssumption DEF PointersTyped, ThreadsTyped, Placed
<1>2. ThreadsTyped'
  BY <1>0 DEF PointersTyped, ThreadsTyped
<1>3. Placed'
  BY <1>0, NoneAssumption DEF PointersTyped, ThreadsTyped, Placed, Apart
<1>4. Apart'
  BY <1>0, NoneAssumption, DistinctAssumption DEF PointersTyped, ThreadsTyped, Placed, Apart, Free, Stable
<1>5. Noticed'
  BY <1>0 DEF PointersTyped, ThreadsTyped, Placed, Apart, Noticed, InUpdate, Overlap, Updating
<1>6. Objective'
  BY <1>0 DEF PointersTyped, ThreadsTyped, Placed, Objective
<1> QED
  BY <1>1, <1>2, <1>3, <1>4, <1>5, <1>6 DEF Structure

(* The pointer is copied, not counted yet.                                    *)
LEMMA TakeStructure ==
    ASSUME Structure, NEW t \in Threads,
           Take(t), UNCHANGED copies
    PROVE  Structure'
<1> USE DEF Take, counters, threads, history, Thread, Return, At
<1>0. PointersTyped /\ ThreadsTyped /\ Placed /\ Apart /\ Noticed /\ Objective
  BY DEF Structure
<1>1. PointersTyped'
  BY <1>0, NoneAssumption DEF PointersTyped, ThreadsTyped, Placed
<1>2. ThreadsTyped'
  BY <1>0 DEF PointersTyped, ThreadsTyped
<1>3. Placed'
  BY <1>0, NoneAssumption DEF PointersTyped, ThreadsTyped, Placed, Apart
<1>4. Apart'
  BY <1>0, NoneAssumption, DistinctAssumption DEF PointersTyped, ThreadsTyped, Placed, Apart, Free, Stable
<1>5. Noticed'
  BY <1>0 DEF PointersTyped, ThreadsTyped, Placed, Apart, Noticed, InUpdate, Overlap, Updating
<1>6. Objective'
  BY <1>0 DEF PointersTyped, ThreadsTyped, Placed, Objective
<1> QED
  BY <1>1, <1>2, <1>3, <1>4, <1>5, <1>6 DEF Structure

(* The destructor ends.                                                       *)
LEMMA FinishStructure ==
    ASSUME Structure, NEW t \in Threads,
           Finish(t), UNCHANGED copies
    PROVE  Structure'
<1> USE DEF Finish, counters, threads, history, Thread, Return, At
<1>0. PointersTyped /\ ThreadsTyped /\ Placed /\ Apart /\ Noticed /\ Objective
  BY DEF Structure
<1>1. PointersTyped'
  BY <1>0, NoneAssumption DEF PointersTyped, ThreadsTyped, Placed
<1>2. ThreadsTyped'
  BY <1>0 DEF PointersTyped, ThreadsTyped
<1>3. Placed'
  BY <1>0, NoneAssumption DEF PointersTyped, ThreadsTyped, Placed, Apart
<1>4. Apart'
  BY <1>0, NoneAssumption, DistinctAssumption DEF PointersTyped, ThreadsTyped, Placed, Apart, Free, Stable
<1>5. Noticed'
  BY <1>0 DEF PointersTyped, ThreadsTyped, Placed, Apart, Noticed, InUpdate, Overlap, Updating
<1>6. Objective'
  BY <1>0 DEF PointersTyped, ThreadsTyped, Placed, Objective
<1> QED
  BY <1>1, <1>2, <1>3, <1>4, <1>5, <1>6 DEF Structure

(* A copy reads the count, and is noticed if it is the second.                *)
LEMMA AddStructure ==
    ASSUME Structure, NEW t \in Threads,
           Add(t), UNCHANGED copies
    PROVE  Structure'
<1> USE DEF Add, counters, threads, history, Thread, Return, At
<1>0. PointersTyped /\ ThreadsTyped /\ Placed /\ Apart /\ Noticed /\ Objective
  BY DEF Structure
<1>1. PointersTyped'
  BY <1>0, NoneAssumption DEF PointersTyped, ThreadsTyped, Placed, Overlap
<1>2. ThreadsTyped'
  BY <1>0 DEF PointersTyped, ThreadsTyped
<1>3. Placed'
  BY <1>0, NoneAssumption DEF PointersTyped, ThreadsTyped, Placed, Apart
<1>4. Apart'
  BY <1>0, NoneAssumption, DistinctAssumption DEF PointersTyped, ThreadsTyped, Placed, Apart, Free, Stable
<1>5. Noticed'
  BY <1>0 DEF PointersTyped, ThreadsTyped, Placed, Apart, Noticed, InUpdate, Overlap, Updating
<1>6. Objective'
  BY <1>0 DEF PointersTyped, ThreadsTyped, Placed, Objective
<1> QED
  BY <1>1, <1>2, <1>3, <1>4, <1>5, <1>6 DEF Structure

(* A copy writes the count.                                                   *)
LEMMA IncrementStructure ==
    ASSUME Structure, NEW t \in Threads,
           Increment(t), UNCHANGED copies
    PROVE  Structure'
<1> USE DEF Increment, counters, threads, history, Thread, Return, At
<1>0. PointersTyped /\ ThreadsTyped /\ Placed /\ Apart /\ Noticed /\ Objective
  BY DEF Structure
<1>1. PointersTyped'
  BY <1>0, NoneAssumption DEF PointersTyped, ThreadsTyped, Placed
<1>2. ThreadsTyped'
  BY <1>0 DEF PointersTyped, ThreadsTyped
<1>3. Placed'
  BY <1>0, NoneAssumption DEF PointersTyped, ThreadsTyped, Placed, Apart
<1>4. Apart'
  BY <1>0, NoneAssumption, DistinctAssumption DEF PointersTyped, ThreadsTyped, Placed, Apart, Free, Stable
<1>5. Noticed'
  BY <1>0 DEF PointersTyped, ThreadsTyped, Placed, Apart, Noticed, InUpdate, Overlap, Updating
<1>6. Objective'
  BY <1>0 DEF PointersTyped, ThreadsTyped, Placed, Objective
<1> QED
  BY <1>1, <1>2, <1>3, <1>4, <1>5, <1>6 DEF Structure

--------------------------------------------------------------------------------
(* A counter is deleted by the thread whose pointer is the last: any other    *)
(* that has it is on its way from a pointer that is counted.                  *)
LEMMA LastPointer ==
    ASSUME Structure, NEW t \in Threads, NEW c \in Sound, NEW r \in Ptrs,
           pc[t] = "check", At(t) = c, ptr[r] = c, Counted(c) = {}
    PROVE  r = tgt[t]
<1> USE DEF At
<1>0. PointersTyped /\ ThreadsTyped /\ Placed /\ Apart /\ Noticed
  BY DEF Structure
<1>1. SUFFICES ASSUME r # tgt[t]
               PROVE  FALSE
  OBVIOUS
<1>2. PICK u \in Threads : tgt[u] = r /\ pc[u] \in {"add", "increment", "zero", "check"}
  BY DEF Counted
<1>3. pc[u] = "add"
  BY <1>0, <1>1, <1>2 DEF Noticed, InUpdate, Sound
<1>4. src[u] \in Ptrs /\ ptr[src[u]] = c
  BY <1>0, <1>2, <1>3 DEF Apart
<1>5. src[u] \in Counted(c)
  <2>1. ASSUME NEW v \in Threads, tgt[v] = src[u], pc[v] \in {"add", "increment", "zero", "check"}
        PROVE  FALSE
    BY <1>0, <1>3, <2>1 DEF Apart
  <2> QED
    BY <1>4, <2>1 DEF Counted
<1> QED
  BY <1>5

(* Nor has a counter of nothing, if it was not copied, another pointer then.  *)
LEMMA OnlyPointer ==
    ASSUME Structure, NEW t \in Threads, NEW c \in Unshared, Single(c), NEW r \in Ptrs,
           pc[t] = "check", At(t) = c, ptr[r] = c
    PROVE  r = tgt[t]
<1> USE DEF At
<1>0. PointersTyped /\ ThreadsTyped /\ Placed /\ Apart
  BY DEF Structure
<1>1. SUFFICES ASSUME r # tgt[t]
               PROVE  FALSE
  OBVIOUS
<1>2. tgt[t] \in Ptrs
  BY <1>0 DEF Placed
<1>3. PICK u \in Threads : pc[u] = "add" /\ tgt[u] \in {r, tgt[t]}
  BY <1>1, <1>2 DEF Single
<1>4. tgt[u] = r /\ u # t
  BY <1>0, <1>3 DEF Apart
<1>5. src[u] \in Ptrs /\ ptr[src[u]] = c /\ src[u] # tgt[t]
  BY <1>0, <1>3, <1>4 DEF Apart
<1>6. PICK v \in Threads : pc[v] = "add" /\ tgt[v] \in {src[u], tgt[t]}
  BY <1>2, <1>5 DEF Single
<1> QED
  BY <1>0, <1>3, <1>4, <1>6 DEF Apart

(* The steps before and after touch no counter.                               *)
LEMMA BeginSafe ==
    ASSUME Structure, Safe, NEW t \in Threads,
           NEW p, NEW s, Begin(t, p, s)
    PROVE  Safe'
<1> USE DEF Begin, counters, threads, history, Thread, Return, At
<1>0. /\ PointersTyped /\ ThreadsTyped /\ Placed /\ Apart /\ Noticed /\ Objective
      /\ \A c \in Sound : Exact(c) /\ Owned(c) /\ DeletedOnce(c)
      /\ \A u \in Threads : Holds(u)
      /\ \A c \in Unshared : Single(c)
  BY DEF Structure, Safe
<1>1. Sound' = Sound /\ Unshared' = Unshared
  BY DEF Sound, Unshared
<1>2. \A c \in Sound : Counted(c)' = Counted(c)
  BY <1>0 DEF Counted, PointersTyped, ThreadsTyped, Placed
<1>7. ASSUME NEW c \in Sound'
      PROVE  (Exact(c) /\ Owned(c) /\ DeletedOnce(c))'
  <2>1. Exact(c) /\ Owned(c) /\ DeletedOnce(c) /\ Counted(c)' = Counted(c)
    BY <1>0, <1>1, <1>2
  <2>2. Exact(c)'
    BY <1>0, <2>1 DEF Exact, ThreadsTyped
  <2> QED
    BY <2>1, <2>2 DEF Owned, DeletedOnce
<1>8. ASSUME NEW u \in Threads
      PROVE  Holds(u)'
  BY <1>0, <1>1 DEF Holds, ThreadsTyped
<1>9. ASSUME NEW c \in Unshared'
      PROVE  Single(c)'
  BY <1>0, <1>1 DEF Single, ThreadsTyped
<1> QED
  BY <1>7, <1>8, <1>9 DEF Safe

(* So does the end of a destructor.                                           *)
LEMMA FinishSafe ==
    ASSUME Structure, Safe, NEW t \in Threads,
           Finish(t)
    PROVE  Safe'
<1> USE DEF Finish, counters, threads, history, Thread, Return, At
<1>0. /\ PointersTyped /\ ThreadsTyped /\ Placed /\ Apart /\ Noticed /\ Objective
      /\ \A c \in Sound : Exact(c) /\ Owned(c) /\ DeletedOnce(c)
      /\ \A u \in Threads : Holds(u)
      /\ \A c \in Unshared : Single(c)
  BY DEF Structure, Safe
<1>1. Sound' = Sound /\ Unshared' = Unshared
  BY DEF Sound, Unshared
<1>2. \A c \in Sound : Counted(c)' = Counted(c)
  BY <1>0 DEF Counted, PointersTyped, ThreadsTyped, Placed
<1>7. ASSUME NEW c \in Sound'
      PROVE  (Exact(c) /\ Owned(c) /\ DeletedOnce(c))'
  <2>1. Exact(c) /\ Owned(c) /\ DeletedOnce(c) /\ Counted(c)' = Counted(c)
    BY <1>0, <1>1, <1>2
  <2>2. Exact(c)'
    BY <1>0, <2>1 DEF Exact, ThreadsTyped
  <2> QED
    BY <2>1, <2>2 DEF Owned, DeletedOnce
<1>8. ASSUME NEW u \in Threads
      PROVE  Holds(u)'
  BY <1>0, <1>1 DEF Holds, ThreadsTyped
<1>9. ASSUME NEW c \in Unshared'
      PROVE  Single(c)'
  BY <1>0, <1>1 DEF Single, ThreadsTyped
<1> QED
  BY <1>7, <1>8, <1>9 DEF Safe

(* The count of a sound counter is read by one thread, which holds it then.   *)
LEMMA ReleaseSafe ==
    ASSUME Structure, Safe, NEW t \in Threads,
           Release(t)
    PROVE  Safe'
<1> USE DEF Release, counters, threads, history, Thread, Return, At
<1>0. /\ PointersTyped /\ ThreadsTyped /\ Placed /\ Apart /\ Noticed /\ Objective
      /\ \A c \in Sound : Exact(c) /\ Owned(c) /\ DeletedOnce(c)
      /\ \A u \in Threads : Holds(u)
      /\ \A c \in Unshared : Single(c)
  BY DEF Structure, Safe
<1>1. ASSUME NEW c \in Sound', At(t) = c
      PROVE  m_pData[c] # None
  <2>1. c \in live /\ (m_pData[c] = None => \E u \in Threads : pc[u] = "check" /\ At(u) = c)
    BY <1>0, <1>1 DEF Sound, Exact, Overlap
  <2> QED
    BY <1>1, <2>1 DEF Sound, Overlap, Updating
<1>2. Sound' \subseteq Sound /\ Unshared' = Unshared
  BY DEF Sound, Unshared, Overlap
<1>3. \A c \in Sound' : Counted(c)' = Counted(c)
  <2> SUFFICES ASSUME NEW c \in Sound'
               PROVE  Counted(c)' = Counted(c)
    OBVIOUS
  <2>1. pc'[t] = "check" => ptr[tgt[t]] # c
    BY <1>0, <1>1 DEF ThreadsTyped
  <2> QED
    BY <1>0, <2>1 DEF Counted, ThreadsTyped
<1>7. ASSUME NEW c \in Sound'
      PROVE  (Exact(c) /\ Owned(c) /\ DeletedOnce(c))'
  <2>1. Exact(c) /\ Owned(c) /\ DeletedOnce(c) /\ Counted(c)' = Counted(c)
    BY <1>0, <1>2, <1>3
  <2>2. Exact(c)'
    BY <1>0, <2>1 DEF Exact, ThreadsTyped
  <2> QED
    BY <2>1, <2>2 DEF Owned, DeletedOnce
<1>8. ASSUME NEW u \in Threads
      PROVE  Holds(u)'
  BY <1>0, <1>2 DEF Holds, ThreadsTyped
<1>9. ASSUME NEW c \in Unshared'
      PROVE  Single(c)'
  BY <1>0, <1>2 DEF Single, ThreadsTyped
<1> QED
  BY <1>7, <1>8, <1>9 DEF Safe

(* ... and writes one less.                                                   *)
LEMMA DecrementSafe ==
    ASSUME Structure, Safe, NEW t \in Threads,
           Decrement(t)
    PROVE  Safe'
<1> USE DEF Decrement, counters, threads, history, Thread, Return, At
<1>0. /\ PointersTyped /\ ThreadsTyped /\ Placed /\ Apart /\ Noticed /\ Objective
      /\ \A c \in Sound : Exact(c) /\ Owned(c) /\ DeletedOnce(c)
      /\ \A u \in Threads : Holds(u)
      /\ \A c \in Unshared : Single(c)
  BY DEF Structure, Safe
<1>1. Sound' = Sound /\ Unshared' = Unshared
  BY DEF Sound, Unshared
<1>2. /\ tgt[t] \in Ptrs /\ At(t) \in used /\ pc' = [pc EXCEPT ![t] = "zero"]
      /\ pc[t] = "decrement" /\ pc'[t] = "zero"
      /\ \A u \in Threads \ {t} : pc'[u] = pc[u]
  BY <1>0 DEF ThreadsTyped, PointersTyped, Placed
<1>3. /\ m_iCount'[At(t)] = held[t] - 1
      /\ \A c \in Counters \ {At(t)} : m_iCount'[c] = m_iCount[c]
  BY <1>0, <1>2 DEF PointersTyped
<1>7. ASSUME NEW c \in Sound'
      PROVE  (Exact(c) /\ Owned(c) /\ DeletedOnce(c))'
  <2>0. c \in Sound /\ c \in Counters /\ Exact(c) /\ Owned(c) /\ DeletedOnce(c)
    BY <1>0, <1>1 DEF Sound, PointersTyped
  <2>1. CASE At(t) = c
    <3>1. /\ held[t] = m_iCount[c] /\ m_pData[c] # None /\ c \in live
          /\ m_iCount[c] = Cardinality(Counted(c))
      BY <1>0, <1>2, <2>0, <2>1 DEF Holds, Exact
    <3>2. tgt[t] \in Counted(c)
      BY <1>0, <1>2, <2>1 DEF Counted, Apart
    <3>3. Counted(c)' = Counted(c) \ {tgt[t]}
      BY <1>0, <1>2, <2>1 DEF Counted
    <3>4. IsFiniteSet(Counted(c))
      BY FiniteAssumption, FS_Subset DEF Counted
    <3>5. Cardinality(Counted(c)') = Cardinality(Counted(c)) - 1
      BY <3>2, <3>3, <3>4, FS_RemoveElement
    <3>6. Exact(c)'
      BY <1>2, <1>3, <2>1, <3>1, <3>5 DEF Exact
    <3> QED
      BY <2>0, <3>6 DEF Owned, DeletedOnce
  <2>2. CASE At(t) # c
    <3>1. Counted(c)' = Counted(c)
      BY <1>0, <1>2, <2>2 DEF Counted
    <3>2. Exact(c)'
      BY <1>2, <1>3, <2>0, <2>2, <3>1 DEF Exact
    <3> QED
      BY <2>0, <3>2 DEF Owned, DeletedOnce
  <2> QED
    BY <2>1, <2>2
<1>8. ASSUME NEW u \in Threads
      PROVE  Holds(u)'
  <2>1. CASE u = t
    BY <1>0, <1>1, <1>2, <1>3, <2>1 DEF Holds
  <2>2. CASE u # t /\ pc[u] \in {"decrement", "zero", "increment"} /\ At(u) \in Sound
    <3>1. At(u) # At(t) /\ At(u) \in Counters
      BY <1>0, <1>2, <2>2 DEF Noticed, InUpdate, Sound, PointersTyped
    <3> QED
      BY <1>0, <1>1, <1>2, <1>3, <2>2, <3>1 DEF Holds
  <2>3. CASE u # t /\ ~(pc[u] \in {"decrement", "zero", "increment"} /\ At(u) \in Sound)
    BY <1>1, <1>2, <2>3 DEF Holds
  <2> QED
    BY <2>1, <2>2, <2>3
<1>9. ASSUME NEW c \in Unshared'
      PROVE  Single(c)'
  BY <1>0, <1>1, <1>2 DEF Single
<1> QED
  BY <1>7, <1>8, <1>9 DEF Safe

(* The object goes with its last counted pointer.                             *)
LEMMA ZeroSafe ==
    ASSUME Structure, Safe, NEW t \in Threads,
           Zero(t)
    PROVE  Safe'
<1> USE DEF Zero, DeleteObject, counters, threads, history, Thread, Return, At
<1>0. /\ PointersTyped /\ ThreadsTyped /\ Placed /\ Apart /\ Noticed /\ Objective
      /\ \A c \in Sound : Exact(c) /\ Owned(c) /\ DeletedOnce(c)
      /\ \A u \in Threads : Holds(u)
      /\ \A c \in Unshared : Single(c)
  BY DEF Structure, Safe
<1>1. Sound' = Sound /\ Unshared' = Unshared
  BY DEF Sound, Unshared
<1>2. /\ tgt[t] \in Ptrs /\ At(t) \in used /\ pc' = [pc EXCEPT ![t] = "check"]
      /\ pc[t] = "zero" /\ pc'[t] = "check"
      /\ \A u \in Threads \ {t} : pc'[u] = pc[u]
  BY <1>0 DEF ThreadsTyped, PointersTyped, Placed
<1>3. \A c \in Counters \ {At(t)} : m_pData'[c] = m_pData[c]
  BY <1>0 DEF PointersTyped
<1>4. \A c \in Sound : Counted(c)' = Counted(c)
  BY <1>0, <1>2 DEF Counted
<1>7. ASSUME NEW c \in Sound'
      PROVE  (Exact(c) /\ Owned(c) /\ DeletedOnce(c))'
  <2>0. /\ c \in Sound /\ c \in Counters /\ Exact(c) /\ Owned(c) /\ DeletedOnce(c)
        /\ Counted(c)' = Counted(c)
    BY <1>0, <1>1, <1>4 DEF Sound, PointersTyped
  <2>1. CASE At(t) = c
    <3>1. /\ m_iCount[c] = held[t] - 1 /\ c \in live
          /\ m_pData[c] = of[c] /\ of[c] \in Objects /\ of[c] # None
          /\ m_iCount[c] = Cardinality(Counted(c))
      BY <1>0, <1>2, <2>0, <2>1 DEF Holds, Exact, Objective, Sound, PointersTyped
    <3>2. CASE m_iCount[c] = 0
      <4>1. m_pData'[c] = None /\ deletes' = [deletes EXCEPT ![of[c]] = @ + 1]
        BY <1>0, <2>0, <2>1, <3>1, <3>2 DEF PointersTyped
      <4>2. deletes'[of[c]] = deletes[of[c]] + 1
        BY <1>0, <3>1, <4>1 DEF PointersTyped
      <4>3. Exact(c)'
        BY <1>2, <2>0, <2>1, <3>1, <3>2, <4>1 DEF Exact
      <4>4. DeletedOnce(c)'
        BY <2>0, <3>1, <4>1, <4>2, NoneAssumption DEF DeletedOnce
      <4> QED
        BY <2>0, <3>1, <4>3, <4>4 DEF Owned
    <3>3. CASE m_iCount[c] # 0
      <4>1. m_pData' = m_pData /\ deletes' = deletes
        BY <2>1, <3>1, <3>3
      <4> QED
        BY <2>0, <3>1, <3>3, <4>1 DEF Exact, Owned, DeletedOnce
    <3> QED
      BY <3>2, <3>3
  <2>2. CASE At(t) # c
    <3>1. m_pData'[c] = m_pData[c]
      BY <1>3, <2>0, <2>2
    <3>2. Exact(c)'
      BY <1>2, <2>0, <2>2, <3>1 DEF Exact
    <3>3. deletes'[of[c]] = deletes[of[c]] \/ of[At(t)] = of[c]
      <4>1. m_pData[At(t)] = of[At(t)] \/ m_pData[At(t)] = None
        BY <1>0, <1>2 DEF Objective
      <4>2. deletes' = deletes \/ deletes' = [deletes EXCEPT ![m_pData[At(t)]] = @ + 1]
        OBVIOUS
      <4>3. of[c] \in Objects /\ of[c] # None /\ deletes \in [Objects -> Nat]
        BY <1>0, <2>0 DEF Sound, PointersTyped
      <4>4. CASE of[c] = m_pData[At(t)]
        BY <4>1, <4>3, <4>4
      <4>5. CASE of[c] # m_pData[At(t)]
        BY <4>2, <4>3, <4>5
      <4> QED
        BY <4>4, <4>5
    <3>4. DeletedOnce(c)'
      BY <1>2, <2>0, <2>2, <3>1, <3>3 DEF DeletedOnce
    <3> QED
      BY <2>0, <3>1, <3>2, <3>4 DEF Owned
  <2> QED
    BY <2>1, <2>2
<1>8. ASSUME NEW u \in Threads
      PROVE  Holds(u)'
  <2>1. CASE u = t
    BY <1>2, <2>1 DEF Holds
  <2>2. CASE u # t /\ pc[u] \in {"decrement", "zero", "increment"} /\ At(u) \in Sound
    <3>1. At(u) # At(t) /\ At(u) \in Counters
      BY <1>0, <1>2, <2>2 DEF Noticed, InUpdate, Sound, PointersTyped
    <3> QED
      BY <1>0, <1>1, <1>2, <1>3, <2>2, <3>1 DEF Holds
  <2>3. CASE u # t /\ ~(pc[u] \in {"decrement", "zero", "increment"} /\ At(u) \in Sound)
    BY <1>1, <1>2, <2>3 DEF Holds
  <2> QED
    BY <2>1, <2>2, <2>3
<1>9. ASSUME NEW c \in Unshared'
      PROVE  Single(c)'
  BY <1>0, <1>1, <1>2 DEF Single
<1> QED
  BY <1>7, <1>8, <1>9 DEF Safe

(* The last pointer to a counter goes with it, and not before.                *)
LEMMA CheckSafe ==
    ASSUME Structure, Safe, NEW t \in Threads,
           Check(t)
    PROVE  Safe'
<1> USE DEF Check, counters, threads, history, Thread, Return, At
<1>0. /\ PointersTyped /\ ThreadsTyped /\ Placed /\ Apart /\ Noticed /\ Objective
      /\ \A c \in Sound : Exact(c) /\ Owned(c) /\ DeletedOnce(c)
      /\ \A u \in Threads : Holds(u)
      /\ \A c \in Unshared : Single(c)
  BY DEF Structure, Safe
<1>1. Sound' = Sound /\ Unshared' = Unshared
  BY DEF Sound, Unshared
<1>2. /\ tgt[t] \in Ptrs /\ At(t) \in used /\ At(t) # None /\ pc[t] = "check" /\ pc'[t] = "take"
      /\ \A u \in Threads \ {t} : pc'[u] = pc[u]
      /\ ptr'[tgt[t]] = None
      /\ \A r \in Ptrs \ {tgt[t]} : ptr'[r] = ptr[r]
  BY <1>0 DEF ThreadsTyped, PointersTyped, Placed
<1>3. \A c \in used : c \in live' <=> c \in live /\ (c = At(t) => m_pData[c] # None)
  BY <1>0, <1>2
<1>4. \A u \in Threads \ {t} : pc[u] # "idle" => tgt[u] # tgt[t]
  BY <1>0, <1>2 DEF Apart
<1>5. \A c \in used : Counted(c)' = Counted(c)
  <2> SUFFICES ASSUME NEW c \in used, NEW r \in Ptrs
               PROVE  r \in Counted(c)' <=> r \in Counted(c)
    BY DEF Counted
  <2>1. c # None
    BY <1>0, NoneAssumption DEF PointersTyped
  <2>2. CASE r = tgt[t]
    BY <1>2, <2>1, <2>2 DEF Counted
  <2>3. CASE r # tgt[t]
    BY <1>2, <2>3 DEF Counted
  <2> QED
    BY <2>2, <2>3
<1>7. ASSUME NEW c \in Sound'
      PROVE  (Exact(c) /\ Owned(c) /\ DeletedOnce(c))'
  <2>0. /\ c \in Sound /\ c \in used /\ Exact(c) /\ Owned(c) /\ DeletedOnce(c)
        /\ Counted(c)' = Counted(c) /\ c # None
    BY <1>0, <1>1, <1>5, NoneAssumption DEF Sound, PointersTyped
  <2>1. DeletedOnce(c)'
    BY <2>0 DEF DeletedOnce
  <2>2. CASE At(t) = c /\ m_pData[c] = None
    <3>1. Counted(c) = {}
      <4>1. IsFiniteSet(Counted(c))
        BY FiniteAssumption, FS_Subset DEF Counted
      <4> QED
        BY <2>0, <2>2, <4>1, FS_EmptySet DEF Exact
    <3>2. \A r \in Ptrs : ptr[r] = c => r = tgt[t]
      BY <1>2, <2>0, <2>2, <3>1, LastPointer
    <3>3. c \notin live' /\ m_pData'[c] = None
      BY <1>3, <2>0, <2>2
    <3>4. \A r \in Ptrs : ptr'[r] # c
      BY <1>2, <2>0, <3>2
    <3> QED
      BY <2>1, <3>3, <3>4 DEF Exact, Owned
  <2>3. CASE At(t) = c /\ m_pData[c] # None
    <3>1. c \in live /\ c \in live'
      BY <1>3, <2>0, <2>3
    <3>2. m_iCount[c] # 0
      BY <1>0, <1>2, <2>0, <2>3, <3>1 DEF Exact, Noticed, InUpdate, Sound
    <3>3. Counted(c) # {}
      BY <2>0, <3>1, <3>2, FS_EmptySet DEF Exact
    <3>4. PICK r \in Counted(c) : TRUE
      BY <3>3
    <3>5. r \in Ptrs /\ ptr'[r] = c
      BY <1>2, <2>0, <3>4 DEF Counted
    <3> QED
      BY <2>0, <2>1, <2>3, <3>1, <3>2, <3>5 DEF Exact, Owned
  <2>4. CASE At(t) # c
    <3>1. c \in live' <=> c \in live
      BY <1>3, <2>0, <2>4
    <3>2. \A r \in Ptrs : ptr'[r] = c <=> ptr[r] = c
      BY <1>2, <2>0, <2>4
    <3>3. ASSUME NEW u \in Threads, pc[u] \in {"zero", "check"}, At(u) = c
          PROVE  pc'[u] = pc[u] /\ At(u)' = c
      BY <1>0, <1>2, <1>4, <2>4, <3>3 DEF Placed
    <3> QED
      BY <2>0, <2>1, <3>1, <3>2, <3>3 DEF Exact, Owned
  <2> QED
    BY <2>2, <2>3, <2>4
<1>8. ASSUME NEW u \in Threads
      PROVE  Holds(u)'
  <2>1. CASE u = t
    BY <1>2, <2>1 DEF Holds
  <2>2. CASE u # t /\ pc[u] # "idle"
    BY <1>0, <1>1, <1>2, <1>4, <2>2 DEF Holds, Placed
  <2>3. CASE u # t /\ pc[u] = "idle"
    BY <1>2, <2>3 DEF Holds
  <2> QED
    BY <2>1, <2>2, <2>3
<1>9. ASSUME NEW c \in Unshared'
      PROVE  Single(c)'
  <2>0. c \in Unshared /\ c \in used /\ Single(c) /\ c # None /\ m_pData[c] = None
    BY <1>0, <1>1, NoneAssumption DEF Unshared, PointersTyped, Objective
  <2>1. CASE At(t) = c
    <3>1. \A r \in Ptrs : ptr[r] = c => r = tgt[t]
      BY <1>2, <2>0, <2>1, OnlyPointer
    <3>2. \A r \in Ptrs : ptr'[r] # c
      BY <1>2, <2>0, <3>1
    <3> QED
      BY <1>3, <2>0, <2>1, <3>2 DEF Single
  <2>2. CASE At(t) # c
    <3>1. c \in live' <=> c \in live
      BY <1>3, <2>0, <2>2
    <3>2. \A r \in Ptrs : ptr'[r] = c <=> ptr[r] = c
      BY <1>2, <2>0, <2>2
    <3>3. \A u \in Threads : pc[u] = "add" => pc'[u] = "add"
      BY <1>2
    <3> QED
      BY <2>0, <3>1, <3>2, <3>3 DEF Single
  <2> QED
    BY <2>1, <2>2
<1> QED
  BY <1>7, <1>8, <1>9 DEF Safe

(* A fresh counter has the one pointer that adopts the object.                *)
LEMMA AdoptSafe ==
    ASSUME Structure, Safe, NEW t \in Threads,
           Adopt(t)
    PROVE  Safe'
<1> USE DEF Adopt, counters, threads, history, Thread, Return, At
<1>0. /\ PointersTyped /\ ThreadsTyped /\ Placed /\ Apart /\ Noticed /\ Objective
      /\ \A c \in Sound : Exact(c) /\ Owned(c) /\ DeletedOnce(c)
      /\ \A u \in Threads : Holds(u)
      /\ \A c \in Unshared : Single(c)
  BY DEF Structure, Safe
<1>1. PICK d \in Counters \ used :
        /\ ptr' = [ptr EXCEPT ![tgt[t]] = d]
        /\ m_pData' = [m_pData EXCEPT ![d] = src[t]]
        /\ m_iCount' = [m_iCount EXCEPT ![d] = IF src[t] = None THEN 0 ELSE 1]
        /\ live' = live \cup {d} /\ used' = used \cup {d}
        /\ of' = [of EXCEPT ![d] = src[t]]
  OBVIOUS
<1>2. /\ tgt[t] \in Ptrs /\ At(t) = None /\ pc[t] = "take"
      /\ \A u \in Threads \ {t} : pc'[u] = pc[u] /\ tgt'[u] = tgt[u]
      /\ \A r \in Ptrs \ {tgt[t]} : ptr'[r] = ptr[r]
      /\ \A u \in Threads \ {t} : pc[u] # "idle" => tgt[u] \in Ptrs \ {tgt[t]}
  BY <1>0 DEF ThreadsTyped, PointersTyped, Placed, Apart
<1>3. /\ d # None /\ ptr'[tgt[t]] = d /\ m_pData'[d] = src[t] /\ of'[d] = src[t]
      /\ m_iCount'[d] = IF src[t] = None THEN 0 ELSE 1
      /\ \A c \in used : c # d /\ c # None /\ m_pData'[c] = m_pData[c] /\ m_iCount'[c] = m_iCount[c]
                         /\ of'[c] = of[c] /\ (c \in live' <=> c \in live)
      /\ pc'[t] = "idle"
  BY <1>0, <1>1, <1>2, NoneAssumption DEF PointersTyped, ThreadsTyped
<1>4. \A c \in used : \A r \in Ptrs : ptr'[r] = c <=> ptr[r] = c
  BY <1>2, <1>3
<1>5. \A c \in used : Counted(c)' = Counted(c)
  BY <1>2, <1>3, <1>4 DEF Counted
<1>6. \A c \in Sound' \ {d} : c \in Sound /\ c \in used
  BY <1>1, <1>3 DEF Sound
<1>7. ASSUME NEW c \in Sound'
      PROVE  (Exact(c) /\ Owned(c) /\ DeletedOnce(c))'
  <2>1. CASE c = d
    <3>1. src[t] # None /\ src[t] \in Objects
      BY <1>3, <2>1 DEF Sound
    <3>2. \A r \in Ptrs : ptr'[r] = c <=> r = tgt[t]
      BY <1>0, <1>2, <1>3, <2>1 DEF PointersTyped
    <3>3. \A u \in Threads : tgt'[u] = tgt[t] => pc'[u] \notin {"add", "increment", "zero", "check"}
      BY <1>2, <1>3
    <3>4. Counted(c)' = {tgt[t]}
      BY <1>2, <3>2, <3>3 DEF Counted
    <3>5. Cardinality(Counted(c)') = 1
      BY <3>4, FS_Singleton
    <3>6. Exact(c)'
      BY <1>3, <2>1, <3>1, <3>5 DEF Exact
    <3>7. Owned(c)'
      BY <1>1, <1>2, <2>1, <3>2 DEF Owned
    <3>8. deletes'[src[t]] = 0 \/ \E e \in used : of[e] = src[t]
      BY <1>0, <3>1 DEF Objective, PointersTyped
    <3>9. DeletedOnce(c)'
      BY <1>1, <1>3, <2>1, <3>1, <3>8 DEF DeletedOnce
    <3> QED
      BY <3>6, <3>7, <3>9
  <2>2. CASE c # d
    <3>0. /\ c \in Sound /\ c \in used /\ Exact(c) /\ Owned(c) /\ DeletedOnce(c)
          /\ Counted(c)' = Counted(c)
      BY <1>0, <1>5, <1>6, <2>2
    <3>1. ASSUME NEW u \in Threads, pc[u] \in {"zero", "check"}, At(u) = c
          PROVE  pc'[u] = pc[u] /\ At(u)' = c
      BY <1>2, <1>3, <3>1
    <3>2. Exact(c)' /\ Owned(c)'
      BY <1>3, <1>4, <3>0, <3>1 DEF Exact, Owned
    <3>3. DeletedOnce(c)'
      BY <1>1, <1>3, <3>0 DEF DeletedOnce
    <3> QED
      BY <3>2, <3>3
  <2> QED
    BY <2>1, <2>2
<1>8. ASSUME NEW u \in Threads
      PROVE  Holds(u)'
  <2>1. CASE u = t
    BY <1>3, <2>1 DEF Holds
  <2>2. CASE u # t /\ pc[u] \in {"decrement", "zero", "increment"}
    <3>1. At(u)' = At(u) /\ At(u) \in used
      BY <1>0, <1>2, <2>2 DEF Placed, PointersTyped
    <3>2. held'[u] = held[u]
      BY <1>0, <2>2 DEF ThreadsTyped
    <3> QED
      BY <1>0, <1>2, <1>3, <1>6, <2>2, <3>1, <3>2 DEF Holds
  <2>3. CASE u # t /\ pc[u] \notin {"decrement", "zero", "increment"}
    BY <1>2, <2>3 DEF Holds
  <2> QED
    BY <2>1, <2>2, <2>3
<1>9. ASSUME NEW c \in Unshared'
      PROVE  Single(c)'
  <2>1. CASE c = d
    <3>1. \A r \in Ptrs : ptr'[r] = c <=> r = tgt[t]
      BY <1>0, <1>2, <1>3, <2>1 DEF PointersTyped
    <3> QED
      BY <1>1, <1>2, <2>1, <3>1 DEF Single
  <2>2. CASE c # d
    <3>1. c \in used /\ Single(c)
      BY <1>0, <1>1, <1>3, <2>2 DEF Unshared
    <3> QED
      BY <1>2, <1>3, <1>4, <3>1 DEF Single
  <2> QED
    BY <2>1, <2>2
<1> QED
  BY <1>7, <1>8, <1>9 DEF Safe

(* A pointer that is copied is not counted while the copy is on its way.      *)
LEMMA TakeSafe ==
    ASSUME Structure, Safe, NEW t \in Threads,
           Take(t)
    PROVE  Safe'
<1> USE DEF Take, counters, threads, history, Thread, Return, At
<1>0. /\ PointersTyped /\ ThreadsTyped /\ Placed /\ Apart /\ Noticed /\ Objective
      /\ \A c \in Sound : Exact(c) /\ Owned(c) /\ DeletedOnce(c)
      /\ \A u \in Threads : Holds(u)
      /\ \A c \in Unshared : Single(c)
  BY DEF Structure, Safe
<1>1. Sound' = Sound /\ Unshared' = Unshared
  BY DEF Sound, Unshared
<1>2. /\ tgt[t] \in Ptrs /\ At(t) = None /\ pc[t] = "take"
      /\ \A u \in Threads \ {t} : pc'[u] = pc[u] /\ tgt'[u] = tgt[u]
      /\ \A r \in Ptrs \ {tgt[t]} : ptr'[r] = ptr[r]
      /\ \A u \in Threads \ {t} : pc[u] # "idle" => tgt[u] \in Ptrs \ {tgt[t]}
  BY <1>0 DEF ThreadsTyped, PointersTyped, Placed, Apart
<1>3. /\ src[t] \in Ptrs /\ ptr'[tgt[t]] = ptr[src[t]]
      /\ pc'[t] \in {"idle", "add"}
      /\ pc'[t] = "idle" => ptr[src[t]] = None
      /\ pc'[t] = "add" => tgt'[t] = tgt[t]
  <2>1. src[t] \in Ptrs /\ ptr'[tgt[t]] = ptr[src[t]]
    BY <1>0, <1>2 DEF PointersTyped
  <2>2. CASE ptr[src[t]] = None
    <3>1. pc'[t] = "idle"
      BY <1>0, <2>2 DEF ThreadsTyped
    <3> QED
      BY <2>1, <2>2, <3>1
  <2>3. CASE ptr[src[t]] # None
    <3>1. pc'[t] = "add" /\ tgt'[t] = tgt[t]
      BY <1>0, <2>3 DEF ThreadsTyped
    <3> QED
      BY <2>1, <3>1
  <2> QED
    BY <2>2, <2>3
<1>4. \A c \in used : c # None
  BY <1>0, NoneAssumption DEF PointersTyped
<1>5. \A c \in used : Counted(c)' = Counted(c)
  <2> SUFFICES ASSUME NEW c \in used, NEW r \in Ptrs
               PROVE  r \in Counted(c)' <=> r \in Counted(c)
    BY DEF Counted
  <2>1. CASE r = tgt[t]
    BY <1>2, <1>3, <1>4, <2>1 DEF Counted
  <2>2. CASE r # tgt[t]
    BY <1>2, <1>3, <2>2 DEF Counted
  <2> QED
    BY <2>1, <2>2
<1>6. \A c \in used : (\E r \in Ptrs : ptr'[r] = c) <=> (\E r \in Ptrs : ptr[r] = c)
  BY <1>2, <1>3, <1>4
<1>7. ASSUME NEW c \in Sound'
      PROVE  (Exact(c) /\ Owned(c) /\ DeletedOnce(c))'
  <2>0. c \in used /\ Exact(c) /\ Owned(c) /\ DeletedOnce(c) /\ Counted(c)' = Counted(c)
    BY <1>0, <1>1, <1>5 DEF Sound
  <2>1. ASSUME NEW u \in Threads, pc[u] \in {"zero", "check"}, At(u) = c
        PROVE  pc'[u] = pc[u] /\ At(u)' = c
    BY <1>2, <2>1
  <2>2. Exact(c)'
    BY <2>0, <2>1 DEF Exact
  <2>3. Owned(c)'
    BY <1>6, <2>0 DEF Owned
  <2> QED
    BY <2>0, <2>2, <2>3 DEF DeletedOnce
<1>8. ASSUME NEW u \in Threads
      PROVE  Holds(u)'
  <2>1. CASE u = t
    BY <1>3, <2>1 DEF Holds
  <2>2. CASE u # t /\ pc[u] \in {"decrement", "zero", "increment"}
    <3>1. At(u)' = At(u) /\ held'[u] = held[u]
      BY <1>0, <1>2, <2>2 DEF ThreadsTyped
    <3> QED
      BY <1>0, <1>1, <1>2, <2>2, <3>1 DEF Holds
  <2>3. CASE u # t /\ pc[u] \notin {"decrement", "zero", "increment"}
    BY <1>2, <2>3 DEF Holds
  <2> QED
    BY <2>1, <2>2, <2>3
<1>9. ASSUME NEW c \in Unshared'
      PROVE  Single(c)'
  <2>0. c \in used /\ Single(c)
    BY <1>0, <1>1 DEF Unshared
  <2>1. ASSUME NEW r1 \in Ptrs, NEW r2 \in Ptrs, r1 # r2, ptr'[r1] = c, ptr'[r2] = c
        PROVE  \E u \in Threads : pc'[u] = "add" /\ tgt'[u] \in {r1, r2}
    <3>1. CASE tgt[t] \in {r1, r2}
      BY <1>3, <1>4, <2>0, <2>1, <3>1
    <3>2. CASE tgt[t] \notin {r1, r2}
      BY <1>2, <2>0, <2>1, <3>2 DEF Single
    <3> QED
      BY <3>1, <3>2
  <2> QED
    BY <1>6, <2>0, <2>1 DEF Single
<1> QED
  BY <1>7, <1>8, <1>9 DEF Safe

(* The count of a sound counter is read by one thread, for a copy.            *)
LEMMA AddSafe ==
    ASSUME Structure, Safe, NEW t \in Threads,
           Add(t)
    PROVE  Safe'
<1> USE DEF Add, counters, threads, history, Thread, Return, At
<1>0. /\ PointersTyped /\ ThreadsTyped /\ Placed /\ Apart /\ Noticed /\ Objective
      /\ \A c \in Sound : Exact(c) /\ Owned(c) /\ DeletedOnce(c)
      /\ \A u \in Threads : Holds(u)
      /\ \A c \in Unshared : Single(c)
  BY DEF Structure, Safe
<1>1. ASSUME NEW c \in Sound', At(t) = c
      PROVE  m_pData[c] # None
  <2>1. c \in live /\ (m_pData[c] = None => \E u \in Threads : pc[u] = "check" /\ At(u) = c)
    BY <1>0, <1>1 DEF Sound, Exact, Overlap
  <2> QED
    BY <1>1, <2>1 DEF Sound, Overlap, Updating
<1>2. Sound' \subseteq Sound /\ Unshared' \subseteq Unshared
  BY DEF Sound, Unshared, Overlap
<1>3. /\ tgt[t] \in Ptrs /\ At(t) \in used /\ pc[t] = "add"
      /\ \A u \in Threads \ {t} : pc'[u] = pc[u] /\ tgt'[u] = tgt[u] /\ held'[u] = held[u]
      /\ \/ pc'[t] = "idle" /\ m_pData[At(t)] = None /\ nullShared' = nullShared \cup {At(t)}
         \/ /\ pc'[t] = "increment" /\ tgt'[t] = tgt[t]
            /\ m_pData[At(t)] # None /\ held'[t] = m_iCount[At(t)]
  BY <1>0 DEF ThreadsTyped, PointersTyped, Placed
<1>4. \A c \in Sound' : Counted(c)' = Counted(c)
  <2> SUFFICES ASSUME NEW c \in Sound', NEW r \in Ptrs
               PROVE  r \in Counted(c)' <=> r \in Counted(c)
    BY DEF Counted
  <2>1. CASE r = tgt[t] /\ ptr[r] = c
    BY <1>1, <1>3, <2>1 DEF Counted
  <2>2. CASE ptr[r] # c
    BY <2>2 DEF Counted
  <2>3. CASE r # tgt[t]
    BY <1>3, <2>3 DEF Counted
  <2> QED
    BY <2>1, <2>2, <2>3
<1>7. ASSUME NEW c \in Sound'
      PROVE  (Exact(c) /\ Owned(c) /\ DeletedOnce(c))'
  <2>1. Exact(c) /\ Owned(c) /\ DeletedOnce(c) /\ Counted(c)' = Counted(c)
    BY <1>0, <1>2, <1>4
  <2>2. ASSUME NEW u \in Threads, pc[u] \in {"zero", "check"}, At(u) = c
        PROVE  pc'[u] = pc[u] /\ At(u)' = c
    BY <1>3, <2>2
  <2>3. Exact(c)'
    BY <2>1, <2>2 DEF Exact
  <2> QED
    BY <2>1, <2>3 DEF Owned, DeletedOnce
<1>8. ASSUME NEW u \in Threads
      PROVE  Holds(u)'
  <2>1. CASE u = t
    BY <1>3, <2>1 DEF Holds
  <2>2. CASE u # t
    BY <1>0, <1>2, <1>3, <2>2 DEF Holds
  <2> QED
    BY <2>1, <2>2
<1>9. ASSUME NEW c \in Unshared'
      PROVE  Single(c)'
  <2>0. c \in used /\ Single(c) /\ m_pData[c] = None /\ c \notin nullShared'
    BY <1>0, <1>2 DEF Unshared, Objective
  <2>1. At(t) # c
    BY <1>3, <2>0
  <2>2. ASSUME NEW u \in Threads, pc[u] = "add", ptr[tgt[u]] = c
        PROVE  pc'[u] = "add" /\ tgt'[u] = tgt[u]
    BY <1>3, <2>1, <2>2
  <2> QED
    BY <2>0, <2>2 DEF Single
<1> QED
  BY <1>7, <1>8, <1>9 DEF Safe

(* ... and one more is written, with one more that is counted.                *)
LEMMA IncrementSafe ==
    ASSUME Structure, Safe, NEW t \in Threads,
           Increment(t)
    PROVE  Safe'
<1> USE DEF Increment, counters, threads, history, Thread, Return, At
<1>0. /\ PointersTyped /\ ThreadsTyped /\ Placed /\ Apart /\ Noticed /\ Objective
      /\ \A c \in Sound : Exact(c) /\ Owned(c) /\ DeletedOnce(c)
      /\ \A u \in Threads : Holds(u)
      /\ \A c \in Unshared : Single(c)
  BY DEF Structure, Safe
<1>1. Sound' = Sound /\ Unshared' = Unshared
  BY DEF Sound, Unshared
<1>2. /\ tgt[t] \in Ptrs /\ At(t) \in used /\ pc[t] = "increment" /\ pc'[t] = "idle"
      /\ \A u \in Threads \ {t} : pc'[u] = pc[u] /\ tgt'[u] = tgt[u] /\ held'[u] = held[u]
      /\ \A u \in Threads \ {t} : pc[u] # "idle" => tgt[u] # tgt[t]
  BY <1>0 DEF ThreadsTyped, PointersTyped, Placed, Apart
<1>3. /\ m_iCount'[At(t)] = held[t] + 1
      /\ \A c \in Counters \ {At(t)} : m_iCount'[c] = m_iCount[c]
  BY <1>0, <1>2 DEF PointersTyped
<1>7. ASSUME NEW c \in Sound'
      PROVE  (Exact(c) /\ Owned(c) /\ DeletedOnce(c))'
  <2>0. c \in Sound /\ c \in Counters /\ Exact(c) /\ Owned(c) /\ DeletedOnce(c)
    BY <1>0, <1>1 DEF Sound, PointersTyped
  <2>1. CASE At(t) = c
    <3>1. /\ held[t] = m_iCount[c] /\ m_pData[c] # None /\ c \in live
          /\ m_iCount[c] = Cardinality(Counted(c))
      BY <1>0, <1>2, <2>0, <2>1 DEF Holds, Exact
    <3>2. tgt[t] \notin Counted(c)
      BY <1>2 DEF Counted
    <3>3. Counted(c)' = Counted(c) \cup {tgt[t]}
      <4> SUFFICES ASSUME NEW r \in Ptrs
                   PROVE  r \in Counted(c)' <=> r \in Counted(c) \/ r = tgt[t]
        BY <1>2 DEF Counted
      <4>1. CASE r = tgt[t]
        BY <1>2, <2>1, <4>1 DEF Counted
      <4>2. CASE r # tgt[t]
        BY <1>2, <4>2 DEF Counted
      <4> QED
        BY <4>1, <4>2
    <3>4. IsFiniteSet(Counted(c))
      BY FiniteAssumption, FS_Subset DEF Counted
    <3>5. Cardinality(Counted(c)') = Cardinality(Counted(c)) + 1 /\ Cardinality(Counted(c)) \in Nat
      BY <3>2, <3>3, <3>4, FS_AddElement, FS_CardinalityType
    <3>6. Exact(c)'
      BY <1>3, <2>1, <3>1, <3>5 DEF Exact
    <3> QED
      BY <2>0, <3>6 DEF Owned, DeletedOnce
  <2>2. CASE At(t) # c
    <3>1. Counted(c)' = Counted(c)
      <4> SUFFICES ASSUME NEW r \in Ptrs
                   PROVE  r \in Counted(c)' <=> r \in Counted(c)
        BY DEF Counted
      <4>1. CASE r = tgt[t]
        BY <2>2, <4>1 DEF Counted
      <4>2. CASE r # tgt[t]
        BY <1>2, <4>2 DEF Counted
      <4> QED
        BY <4>1, <4>2
    <3>2. ASSUME NEW u \in Threads, pc[u] \in {"zero", "check"}, At(u) = c
          PROVE  pc'[u] = pc[u] /\ At(u)' = c
      BY <1>2, <3>2
    <3>3. Exact(c)'
      BY <1>3, <2>0, <2>2, <3>1, <3>2 DEF Exact
    <3> QED
      BY <2>0, <3>3 DEF Owned, DeletedOnce
  <2> QED
    BY <2>1, <2>2
<1>8. ASSUME NEW u \in Threads
      PROVE  Holds(u)'
  <2>1. CASE u = t
    BY <1>2, <2>1 DEF Holds
  <2>2. CASE u # t /\ pc[u] \in {"decrement", "zero", "increment"} /\ At(u) \in Sound
    <3>1. At(u) # At(t) /\ At(u) \in Counters
      BY <1>0, <1>2, <2>2 DEF Noticed, InUpdate, Sound, PointersTyped
    <3> QED
      BY <1>0, <1>1, <1>2, <1>3, <2>2, <3>1 DEF Holds
  <2>3. CASE u # t /\ ~(pc[u] \in {"decrement", "zero", "increment"} /\ At(u) \in Sound)
    BY <1>1, <1>2, <2>3 DEF Holds
  <2> QED
    BY <2>1, <2>2, <2>3
<1>9. ASSUME NEW c \in Unshared'
      PROVE  Single(c)'
  <2>1. ASSUME NEW u \in Threads, pc[u] = "add"
        PROVE  pc'[u] = "add" /\ tgt'[u] = tgt[u]
    BY <1>2, <2>1
  <2> QED
    BY <1>0, <1>1, <2>1 DEF Single
<1> QED
  BY <1>7, <1>8, <1>9 DEF Safe

--------------------------------------------------------------------------------
(* A deleted counter is used only if its updates overlapped, or if it has no  *)
(* object and was copied: a sound one lives as long as it has a pointer, and  *)
(* so does one of nothing that has only one.                                  *)
LEMMA UseCause ==
    ASSUME Structure, Safe, NEW t \in Threads,
           Use(t)
    PROVE  overlapped # {} \/ nullShared # {}
<1>0. /\ PointersTyped /\ ThreadsTyped /\ Placed
      /\ \A c \in Sound : Owned(c)
      /\ \A c \in Unshared : Single(c)
  BY DEF Structure, Safe
<1>1. pc[t] \notin {"idle", "take"} /\ At(t) \notin live
  BY DEF Use
<1>2. tgt[t] \in Ptrs /\ At(t) \in used
  BY <1>0, <1>1 DEF Placed, PointersTyped, At
<1>3. At(t) \notin Sound
  BY <1>0, <1>1, <1>2 DEF Owned, At
<1>4. At(t) \notin Unshared
  BY <1>0, <1>1, <1>2 DEF Single, At
<1> QED
  BY <1>2, <1>3, <1>4 DEF Sound, Unshared

(* Initially no pointer has a counter.                                        *)
LEMMA InitIInv == Init => IInv
<1> SUFFICES ASSUME Init
             PROVE  IInv
  OBVIOUS
<1> USE DEF Init, At
<1>1. PointersTyped
  BY DEF PointersTyped
<1>2. ThreadsTyped
  <2>1. /\ pc \in [Threads -> {"idle", "release", "decrement", "zero", "check",
                                        "take", "add", "increment"}]
        /\ tgt \in [Threads -> Ptrs \cup {None}]
        /\ src \in [Threads -> Objects \cup Ptrs \cup {None, Destroyed}]
        /\ held \in [Threads -> Int]
    OBVIOUS
  <2>2. copies \in 0..MaxCopies
    BY FiniteAssumption
  <2>3. crashed \in BOOLEAN
    OBVIOUS
  <2> QED
    BY <2>1, <2>2, <2>3 DEF ThreadsTyped
<1>3. Placed /\ Apart /\ Noticed /\ Objective
  BY DEF Placed, Apart, Noticed, Objective, InUpdate
<1>4. Safe
  BY DEF Safe, Sound, Unshared, Holds
<1>5. CrashNeedsCause
  BY DEF CrashNeedsCause
<1> QED
  BY <1>1, <1>2, <1>3, <1>4, <1>5 DEF IInv, Structure

\* A thread begins an operation.
Begins(t) == \E p \in Ptrs : \/ \E o \in Objects \cup {None} : SetData(t, p, o)
                             \/ \E q \in Ptrs : Copy(t, p, q)
                             \/ Destroy(t, p)

(* Every step keeps the invariant.                                            *)
LEMMA NextIInv == IInv /\ [Next]_vars => IInv'
<1> SUFFICES ASSUME IInv, [Next]_vars
             PROVE  IInv'
  OBVIOUS
<1>0. Structure /\ (~crashed => Safe) /\ CrashNeedsCause
  BY DEF IInv
<1>1. copies \in 0..MaxCopies
  BY <1>0 DEF Structure, ThreadsTyped
<1>2. ASSUME NEW t \in Threads, Begins(t)
      PROVE  IInv'
  <2>1. PICK p \in Ptrs, s \in Objects \cup Ptrs \cup {None, Destroyed} :
           /\ Begin(t, p, s) /\ s # p /\ (s \in Ptrs => Stable(t, s))
           /\ copies' \in 0..MaxCopies
    <3>1. ASSUME NEW p \in Ptrs, NEW o \in Objects \cup {None}, SetData(t, p, o)
          PROVE  /\ Begin(t, p, o) /\ o # p /\ o \notin Ptrs
                 /\ copies' \in 0..MaxCopies
      BY <1>1, <3>1, NoneAssumption, DistinctAssumption DEF SetData
    <3>2. ASSUME NEW p \in Ptrs, NEW q \in Ptrs, Copy(t, p, q)
          PROVE  /\ Begin(t, p, q) /\ q # p /\ Stable(t, q)
                 /\ copies' \in 0..MaxCopies
      BY <1>1, <3>2, FiniteAssumption DEF Copy
    <3>3. ASSUME NEW p \in Ptrs, Destroy(t, p)
          PROVE  /\ Begin(t, p, Destroyed) /\ Destroyed # p /\ Destroyed \notin Ptrs
                 /\ copies' \in 0..MaxCopies
      BY <1>1, <3>3, DistinctAssumption DEF Destroy
    <3> QED
      BY <1>2, <3>1, <3>2, <3>3 DEF Begins
  <2>2. ~crashed /\ crashed' = crashed
    BY <2>1 DEF Begin
  <2>3. Structure'
    BY <1>0, <2>1, BeginStructure
  <2>4. Safe'
    BY <1>0, <2>1, <2>2, BeginSafe
  <2> QED
    BY <2>2, <2>3, <2>4 DEF IInv, CrashNeedsCause
<1>3. ASSUME NEW t \in Threads, Step(t), UNCHANGED copies
      PROVE  IInv'
  <2> USE DEF Thread, Return
  <2>1. CASE Release(t)
    <3>1. ~crashed /\ crashed' = crashed
      BY <2>1 DEF Release
    <3>2. Structure' /\ Safe'
      BY <1>0, <1>3, <2>1, <3>1, ReleaseStructure, ReleaseSafe
    <3> QED
      BY <3>1, <3>2 DEF IInv, CrashNeedsCause
  <2>2. CASE Decrement(t)
    <3>1. ~crashed /\ crashed' = crashed
      BY <2>2 DEF Decrement
    <3>2. Structure' /\ Safe'
      BY <1>0, <1>3, <2>2, <3>1, DecrementStructure, DecrementSafe
    <3> QED
      BY <3>1, <3>2 DEF IInv, CrashNeedsCause
  <2>10. CASE Zero(t)
    <3>1. ~crashed /\ crashed' = crashed
      BY <2>10 DEF Zero
    <3>2. Structure' /\ Safe'
      BY <1>0, <1>3, <2>10, <3>1, ZeroStructure, ZeroSafe
    <3> QED
      BY <3>1, <3>2 DEF IInv, CrashNeedsCause
  <2>3. CASE Check(t)
    <3>1. ~crashed /\ crashed' = crashed
      BY <2>3 DEF Check
    <3>2. Structure' /\ Safe'
      BY <1>0, <1>3, <2>3, <3>1, CheckStructure, CheckSafe
    <3> QED
      BY <3>1, <3>2 DEF IInv, CrashNeedsCause
  <2>4. CASE Adopt(t)
    <3>1. ~crashed /\ crashed' = crashed
      BY <2>4 DEF Adopt
    <3>2. Structure' /\ Safe'
      BY <1>0, <1>3, <2>4, <3>1, AdoptStructure, AdoptSafe
    <3> QED
      BY <3>1, <3>2 DEF IInv, CrashNeedsCause
  <2>5. CASE Take(t)
    <3>1. ~crashed /\ crashed' = crashed
      BY <2>5 DEF Take
    <3>2. Structure' /\ Safe'
      BY <1>0, <1>3, <2>5, <3>1, TakeStructure, TakeSafe
    <3> QED
      BY <3>1, <3>2 DEF IInv, CrashNeedsCause
  <2>6. CASE Finish(t)
    <3>1. ~crashed /\ crashed' = crashed
      BY <2>6 DEF Finish
    <3>2. Structure' /\ Safe'
      BY <1>0, <1>3, <2>6, <3>1, FinishStructure, FinishSafe
    <3> QED
      BY <3>1, <3>2 DEF IInv, CrashNeedsCause
  <2>7. CASE Add(t)
    <3>1. ~crashed /\ crashed' = crashed
      BY <2>7 DEF Add
    <3>2. Structure' /\ Safe'
      BY <1>0, <1>3, <2>7, <3>1, AddStructure, AddSafe
    <3> QED
      BY <3>1, <3>2 DEF IInv, CrashNeedsCause
  <2>8. CASE Increment(t)
    <3>1. ~crashed /\ crashed' = crashed
      BY <2>8 DEF Increment
    <3>2. Structure' /\ Safe'
      BY <1>0, <1>3, <2>8, <3>1, IncrementStructure, IncrementSafe
    <3> QED
      BY <3>1, <3>2 DEF IInv, CrashNeedsCause
  <2>9. CASE Use(t)
    <3>1. ~crashed /\ crashed' /\ overlapped' = overlapped /\ nullShared' = nullShared
      BY <2>9 DEF Use, history
    <3>2. Structure'
      BY <1>0, <1>3, <2>9, UseStructure
    <3>3. CrashNeedsCause'
      BY <1>0, <2>9, <3>1, UseCause DEF CrashNeedsCause
    <3> QED
      BY <3>1, <3>2, <3>3 DEF IInv
  <2> QED
    BY <1>3, <2>1, <2>2, <2>3, <2>4, <2>5, <2>6, <2>7, <2>8, <2>9, <2>10 DEF Step
<1>4. CASE UNCHANGED vars
  <2> USE <1>4 DEF vars, counters, threads, history, At
  <2>1. PointersTyped' /\ ThreadsTyped' /\ Placed' /\ Apart' /\ Noticed' /\ Objective'
    BY <1>0 DEF Structure, PointersTyped, ThreadsTyped, Placed, Apart, Noticed, InUpdate, Objective
  <2>2. Sound' = Sound /\ Unshared' = Unshared /\ crashed' = crashed
    BY DEF Sound, Unshared
  <2>3. ASSUME Safe
        PROVE  Safe'
    <3>1. \A c \in Sound : Counted(c)' = Counted(c)
      BY DEF Counted
    <3>2. \A c \in Sound : Exact(c)' /\ Owned(c)' /\ DeletedOnce(c)'
      BY <2>3, <3>1 DEF Safe, Exact, Owned, DeletedOnce
    <3>3. \A u \in Threads : Holds(u)'
      BY <2>2, <2>3 DEF Safe, Holds
    <3>4. \A c \in Unshared : Single(c)'
      BY <2>3 DEF Safe, Single
    <3> QED
      BY <2>2, <3>2, <3>3, <3>4 DEF Safe
  <2>4. CrashNeedsCause'
    BY <1>0 DEF CrashNeedsCause
  <2> QED
    BY <1>0, <2>1, <2>2, <2>3, <2>4 DEF IInv, Structure
<1> QED
  BY <1>2, <1>3, <1>4 DEF Next, Begins

(* What the copies, assignments and destructors of XLAutoPtr.h:317-404 keep.  *)
THEOREM Invariance == Spec => []IInv
<1> QED
  BY InitIInv, NextIInv, PTL DEF Spec

(* The types of the pointers, the counters and the threads, and that a thread *)
(* which releases or adds has a counter to do it with (XLAutoPtr.h:344-355).  *)
THEOREM TypeCorrect == Spec => []TypeOK
<1>1. IInv => TypeOK
  BY DEF IInv, Structure, TypeOK, Placed
<1> QED
  BY <1>1, Invariance, PTL

(* The count of an object whose counter no two threads have updated at a time *)
(* is the number of its pointers (XLAutoPtr.h:31-55).                         *)
THEOREM CountSafe == Spec => []CountExact
<1>1. IInv => CountExact
  BY DEF IInv, Safe, Exact, CountExact
<1> QED
  BY <1>1, Invariance, PTL

(* Such a counter, and its object, live exactly as long as it has a pointer   *)
(* (XLAutoPtr.h:44-55, 344-355).                                              *)
THEOREM OwnershipSafe == Spec => []OwnedTogether
<1>1. ASSUME IInv, ~crashed, NEW c \in Sound
      PROVE  /\ c \in live <=> \E p \in Ptrs : ptr[p] = c
             /\ c \in live => m_pData[c] = of[c] \/ \E t \in Threads : pc[t] = "check" /\ At(t) = c
             /\ \/ deletes[of[c]] = IF m_pData[c] = None THEN 1 ELSE 0
                \/ \E d \in used \ {c} : of[d] = of[c]
  <2>1. Exact(c) /\ Owned(c) /\ DeletedOnce(c) /\ Objective /\ c \in used
    BY <1>1 DEF IInv, Safe, Structure, Sound
  <2>2. m_pData[c] \in {of[c], None}
    BY <2>1 DEF Objective
  <2> QED
    BY <2>1, <2>2 DEF Exact, Owned, DeletedOnce
<1>2. IInv => OwnedTogether
  BY <1>1 DEF OwnedTogether
<1> QED
  BY <1>2, Invariance, PTL

(* A deleted counter is never read unless updates overlapped or a pointer to  *)
(* nothing was copied (XLAutoPtr.h:31-37, 344-355).                           *)
THEOREM CrashCaused == Spec => []CrashNeedsCause
<1>1. IInv => CrashNeedsCause
  BY DEF IInv
<1> QED
  BY <1>1, Invariance, PTL
===============================================================================
