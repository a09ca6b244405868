--------------------------------- MODULE XLLFQ ---------------------------------
(***************************************************************************)
(* XDS::XLLFQ (LockFreeQueue.h): a std::list shared by one writer and one  *)
(* reader without a lock.  The reader owns the node mHead, the last one it *)
(* has consumed (at first a default-made sentinel); the writer frees the   *)
(* nodes before mHead and links new ones at the end.                       *)
(*                                                                         *)
(* Nodes are numbered as they are linked, 0 being the sentinel, so the     *)
(* list is first .. last, its size is last - first + 1, the successor of n *)
(* is n + 1, and mTail (always mQ.end()) is last + 1.  Each access to the  *)
(* list by either side is a step of its own.                               *)
(*                                                                         *)
(* The specification is called ListSpec, and its parts likewise, so that   *)
(* Primitives_proofs can speak of this list and of XLSemaPhore.            *)
(***************************************************************************)
EXTENDS Integers, Sequences

CONSTANTS Items,        \* the values pushed
          mMaxSize,     \* SetMaxSize
          Freed,        \* what a read of a freed node yields
          MaxPushes     \* bound on the nodes ever linked

ASSUME MaxSizeAssumption == mMaxSize \in Nat
ASSUME FreedAssumption == Freed \notin Items

VARIABLES content,      \* content[n]: the value of node n, freed or not
          first,        \* the first node of the list
          mHead,
          wpc, data, stop,      \* the writer: place in push, argument, erase's copy of mHead
          rpc, next, result     \* the reader: place in pop, local next, *data

list == <<content, first, mHead, wpc, data, stop, rpc, next, result>>

writer == <<wpc, data, stop>>
reader == <<rpc, next, result>>

last == Len(content)
size == last - first + 1

Live(n) == first <= n /\ n <= last

ListInit == /\ content = <<>>
            /\ first = 0
            /\ mHead = 0
            /\ wpc = "idle" /\ data \in Items /\ stop = 0
            /\ rpc = "idle" /\ next = 0 /\ result \in Items

--------------------------------------------------------------------------------
\* push: the call, with mHead copied into the argument of erase.
PushStart(x) == /\ wpc = "idle"
                /\ last < MaxPushes
                /\ wpc' = "erase"
                /\ data' = x
                /\ stop' = mHead
                /\ UNCHANGED <<content, first, mHead, reader>>

\* Mutant: erases the node mHead too.
PushErase_Head == /\ wpc = "erase"
                  /\ \/ first <= stop /\ first' = first + 1 /\ wpc' = wpc
                     \/ first > stop /\ first' = first /\ wpc' = "check"
                  /\ UNCHANGED <<content, mHead, data, stop, reader>>

\* mQ.erase(mQ.begin(), mHead), one node at a time.
PushErase == /\ wpc = "erase"
             /\ \/ first < stop /\ first' = first + 1 /\ wpc' = wpc
                \/ first = stop /\ first' = first /\ wpc' = "check"
             /\ UNCHANGED <<content, mHead, data, stop, reader>>

\* Mutant: forgets that the list holds a node already consumed.
PushReject_Early == /\ wpc = "check"
                    /\ mMaxSize <= size
                    /\ wpc' = "full"
                    /\ UNCHANGED <<content, first, mHead, data, stop, reader>>

\* if(mMaxSize < mQ.size()) return false
PushReject == /\ wpc = "check"
              /\ mMaxSize < size
              /\ wpc' = "full"
              /\ UNCHANGED <<content, first, mHead, data, stop, reader>>

\* Mutant: accepts one element more than mMaxSize.
PushLink_OneMore == /\ wpc = "check"
                    /\ mMaxSize + 1 >= size
                    /\ content' = Append(content, data)
                    /\ wpc' = "idle"
                    /\ UNCHANGED <<first, mHead, data, stop, reader>>

\* mQ.push_back(data); mTail = mQ.end(), which is what mTail is already
PushLink == /\ wpc = "check"
            /\ mMaxSize >= size
            /\ content' = Append(content, data)
            /\ wpc' = "idle"
            /\ UNCHANGED <<first, mHead, data, stop, reader>>

\* push has returned false.
PushFull == /\ wpc = "full"
            /\ wpc' = "idle"
            /\ UNCHANGED <<content, first, mHead, data, stop, reader>>

--------------------------------------------------------------------------------
\* next = mHead; ++next, which reads the link of the node mHead.
PopNext == /\ rpc = "idle"
           /\ next' = mHead + 1
           /\ rpc' = IF mHead < last THEN "advance" ELSE "idle"
           /\ UNCHANGED <<content, first, mHead, writer, result>>

\* Mutant: lets go of the node before its value is copied.
PopAdvance_Past == /\ rpc = "advance"
                   /\ mHead' = next + 1
                   /\ rpc' = "copy"
                   /\ UNCHANGED <<content, first, writer, next, result>>

\* mHead = next
PopAdvance == /\ rpc = "advance"
              /\ mHead' = next
              /\ rpc' = "copy"
              /\ UNCHANGED <<content, first, writer, next, result>>

\* data = *mHead
PopCopy == /\ rpc = "copy"
           /\ result' = IF Live(mHead) THEN content[mHead] ELSE Freed
           /\ rpc' = "idle"
           /\ UNCHANGED <<content, first, mHead, writer, next>>

Writer == \/ \E x \in Items : PushStart(x)
          \/ PushErase
          \/ PushReject
          \/ PushLink
          \/ PushFull

Reader == PopNext \/ PopAdvance \/ PopCopy

ListNext == Writer \/ Reader

ListSpec == ListInit /\ [][ListNext]_list

--------------------------------------------------------------------------------
(* Every variable has its type; result in particular is never Freed: what pop *)
(* copies is a value that was pushed (LockFreeQueue.h:55-56).                 *)
ListTypeOK == /\ content \in Seq(Items)
              /\ first \in Nat /\ mHead \in Nat
              /\ wpc \in {"idle", "erase", "check", "full"}
              /\ data \in Items
              /\ stop \in Nat
              /\ rpc \in {"idle", "advance", "copy"}
              /\ next \in Nat
              /\ result \in Items

(* The two sides never meet on a node (LockFreeQueue.h:39 against 51-56): the *)
(* reader, which reads the link and the value of the node mHead and keeps an  *)
(* iterator to it between calls, always finds it in the list, however far the *)
(* writer has got with an erase that began at an older mHead.                 *)
ReaderNodeLive == Live(mHead) /\ (rpc = "advance" => Live(next))

(* push refuses an element only if mMaxSize elements were unread when it was  *)
(* called (LockFreeQueue.h:39-43): the size it tests may be stale, but not    *)
(* older than the call.                                                       *)
RejectOnlyWhenFull == wpc = "full" => last - stop >= mMaxSize

(* Interleaved at every list access, the queue still is a bounded FIFO of     *)
(* mMaxSize elements: a push takes effect when its node is linked, a pop when *)
(* mHead advances.                                                            *)
Fifo == INSTANCE BoundedFifo WITH queue <- SubSeq(content, mHead + 1, last),
                                  Capacity <- mMaxSize

ImplementsFifo == Fifo!Spec
================================================================================
