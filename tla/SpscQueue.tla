----------------------------- MODULE SpscQueue ------------------------------
(***************************************************************************)
(* SpscQueue<T, Capacity> of concurrency/spsc_queue.h: a ring buffer with  *)
(* one producer thread and one consumer thread, no lock, and on each side  *)
(* a cached copy of the other side's index.                                *)
(*                                                                         *)
(* The model is at the level of the C++ memory model.  The two atomics are *)
(* their modification orders: tail_[k] and head_[k] are the k-th value     *)
(* ever stored (the first is the initial 0).  A load by the other thread   *)
(* may return any entry that is not older than one it has already seen.    *)
(* Each entry carries, in rel, what its release store publishes: how many  *)
(* buffer accesses the storing thread had made.  An acquire load that      *)
(* reads the entry makes those accesses happen-before everything the       *)
(* loading thread does next.  Two accesses to one slot, at least one of    *)
(* them a write and neither ordered before the other, are a data race.     *)
(***************************************************************************)
EXTENDS Naturals, Sequences

CONSTANTS
    Capacity,   \* the template parameter
    Items,      \* the values of type T that are pushed
    NoItem,     \* a default-constructed T
    MaxPushes   \* bound of the model: pushes accepted in one behaviour

\* The static_asserts of the class.  The mask MASK = Capacity - 1 keeps the
\* low bits of a size_t: for a power of two that is the remainder modulo
\* Capacity, which is how the model writes it (MCSpscQueue checks the two
\* against each other).
ASSUME CapacityAssumption ==
    /\ Capacity \in Nat
    /\ Capacity >= 2
    /\ \E e \in 1..Capacity : Capacity = 2^e

ASSUME ItemsAssumption == NoItem \notin Items

VARIABLES
    tail_,          \* modification order of the atomic tail_
    head_cache_,    \* the producer's copy of head_
    head_,          \* modification order of the atomic head_
    tail_cache_,    \* the consumer's copy of tail_
    buffer_,        \* the slots
    ppc,            \* where the producer is inside push
    item,           \* the argument of the push in progress
    headSeen,       \* newest entry of head_ the producer has read
    readsHB,        \* reads of slots that happen-before the producer's next step
    cpc,            \* where the consumer is inside pop
    out,            \* the consumer's output parameter
    tailSeen,       \* newest entry of tail_ the consumer has read
    writesHB,       \* writes of slots that happen-before the consumer's next step
    lastWrite,      \* per slot, the ordinal of its latest write (0: none)
    lastRead,       \* per slot, the ordinal of its latest read (0: none)
    accepted,       \* history: the items of the pushes that returned true
    returned        \* history: the items of the pops that returned true

producerVars == <<tail_, head_cache_, ppc, item, headSeen, readsHB, lastWrite, accepted>>
consumerVars == <<head_, tail_cache_, cpc, out, tailSeen, writesHB, lastRead, returned>>
vars == <<producerVars, consumerVars, buffer_>>

Slots == 0..(Capacity - 1)

\* Mutant of Masked: a mask that keeps one value too many.
MaskedTooWide(i) == i % (Capacity + 1)

\* & MASK
Masked(i) == i % Capacity

\* A thread's relaxed load of the index only it stores: the newest value.
TailIdx == tail_[Len(tail_)].idx
HeadIdx == head_[Len(head_)].idx
NextTail == Masked(TailIdx + 1)
NextHead == Masked(HeadIdx + 1)

\* How many slots each side has written, or read, so far.
Writes == Len(accepted) + (IF ppc = "publish" THEN 1 ELSE 0)
Reads == Len(returned) + (IF cpc = "release" THEN 1 ELSE 0)

\* What a release store of index i by the producer, by the consumer, leaves.
ReleaseTail(i) == [idx |-> i, rel |-> Writes]
ReleaseHead(i) == [idx |-> i, rel |-> Reads]

\* Mutant of Acquire: the load is relaxed.
AcquireAsRelaxed(e, hb) == hb

\* What happens-before a thread after it acquires entry e, when hb did before.
Acquire(e, hb) == IF e.rel > hb THEN e.rel ELSE hb

Init ==
    /\ tail_ = <<[idx |-> 0, rel |-> 0]>>
    /\ head_ = <<[idx |-> 0, rel |-> 0]>>
    /\ head_cache_ = 0 /\ tail_cache_ = 0
    /\ buffer_ = [s \in Slots |-> NoItem]
    /\ ppc = "idle" /\ item = NoItem /\ headSeen = 1 /\ readsHB = 0
    /\ cpc = "idle" /\ out = NoItem /\ tailSeen = 1 /\ writesHB = 0
    /\ lastWrite = [s \in Slots |-> 0]
    /\ lastRead = [s \in Slots |-> 0]
    /\ accepted = <<>> /\ returned = <<>>

-----------------------------------------------------------------------------
(* push *)

\* The fast path goes on to the write when the cached head_ leaves room.
PushBegin(v) ==
    /\ ppc = "idle"
    /\ Len(accepted) < MaxPushes
    /\ item' = v
    /\ ppc' = IF NextTail = head_cache_ THEN "refresh" ELSE "write"
    /\ UNCHANGED <<tail_, head_cache_, headSeen, readsHB, lastWrite, accepted,
                   consumerVars, buffer_>>

\* Mutant of PushRefresh: the refreshed index is not compared again.
PushRefreshUnchecked(k) ==
    /\ ppc = "refresh"
    /\ headSeen' = k
    /\ head_cache_' = head_[k].idx
    /\ readsHB' = Acquire(head_[k], readsHB)
    /\ ppc' = "write"
    /\ UNCHANGED <<tail_, item, lastWrite, accepted, consumerVars, buffer_>>

\* Mutant of PushRefresh: refuse by the stale index, and refresh for next time.
PushRefreshTooLate(k) ==
    /\ ppc = "refresh"
    /\ headSeen' = k
    /\ head_cache_' = head_[k].idx
    /\ readsHB' = Acquire(head_[k], readsHB)
    /\ ppc' = "idle"
    /\ UNCHANGED <<tail_, item, lastWrite, accepted, consumerVars, buffer_>>

\* The slow path: acquire entry k of head_; refuse when it is full even so.
PushRefresh(k) ==
    /\ ppc = "refresh"
    /\ headSeen' = k
    /\ head_cache_' = head_[k].idx
    /\ readsHB' = Acquire(head_[k], readsHB)
    /\ ppc' = IF NextTail = head_[k].idx THEN "idle" ELSE "write"
    /\ UNCHANGED <<tail_, item, lastWrite, accepted, consumerVars, buffer_>>

\* Mutant of PushWrite: the item goes to the slot after the tail.
PushWriteAtNext ==
    /\ ppc = "write"
    /\ buffer_' = [buffer_ EXCEPT ![NextTail] = item]
    /\ lastWrite' = [lastWrite EXCEPT ![NextTail] = Writes + 1]
    /\ ppc' = "publish"
    /\ UNCHANGED <<tail_, head_cache_, item, headSeen, readsHB, accepted, consumerVars>>

PushWrite ==
    /\ ppc = "write"
    /\ buffer_' = [buffer_ EXCEPT ![TailIdx] = item]
    /\ lastWrite' = [lastWrite EXCEPT ![TailIdx] = Writes + 1]
    /\ ppc' = "publish"
    /\ UNCHANGED <<tail_, head_cache_, item, headSeen, readsHB, accepted, consumerVars>>

PushPublish ==
    /\ ppc = "publish"
    /\ tail_' = Append(tail_, ReleaseTail(NextTail))
    /\ accepted' = Append(accepted, item)
    /\ ppc' = "idle"
    /\ UNCHANGED <<head_cache_, item, headSeen, readsHB, lastWrite, consumerVars, buffer_>>

-----------------------------------------------------------------------------
(* pop *)

PopBegin ==
    /\ cpc = "idle"
    /\ cpc' = IF HeadIdx = tail_cache_ THEN "refresh" ELSE "read"
    /\ UNCHANGED <<producerVars, head_, tail_cache_, out, tailSeen, writesHB,
                   lastRead, returned, buffer_>>

\* Mutant of PopRefresh: the loaded index is not kept.
PopRefreshForgets(k) ==
    /\ cpc = "refresh"
    /\ tailSeen' = k
    /\ writesHB' = Acquire(tail_[k], writesHB)
    /\ cpc' = IF HeadIdx = tail_cache_ THEN "idle" ELSE "read"
    /\ UNCHANGED <<producerVars, head_, tail_cache_, out, lastRead, returned, buffer_>>

\* Acquire entry k of tail_; the pop returns false when it is empty even so.
PopRefresh(k) ==
    /\ cpc = "refresh"
    /\ tailSeen' = k
    /\ tail_cache_' = tail_[k].idx
    /\ writesHB' = Acquire(tail_[k], writesHB)
    /\ cpc' = IF HeadIdx = tail_[k].idx THEN "idle" ELSE "read"
    /\ UNCHANGED <<producerVars, head_, out, lastRead, returned, buffer_>>

PopRead ==
    /\ cpc = "read"
    /\ out' = buffer_[HeadIdx]
    /\ lastRead' = [lastRead EXCEPT ![HeadIdx] = Reads + 1]
    /\ cpc' = "release"
    /\ UNCHANGED <<producerVars, head_, tail_cache_, tailSeen, writesHB, returned, buffer_>>

PopRelease ==
    /\ cpc = "release"
    /\ head_' = Append(head_, ReleaseHead(NextHead))
    /\ returned' = Append(returned, out)
    /\ cpc' = "idle"
    /\ UNCHANGED <<producerVars, tail_cache_, out, tailSeen, writesHB, lastRead, buffer_>>

-----------------------------------------------------------------------------

Producer ==
    \/ \E v \in Items : PushBegin(v)
    \/ \E k \in headSeen..Len(head_) : PushRefresh(k)
    \/ PushWrite
    \/ PushPublish

Consumer ==
    \/ PopBegin
    \/ \E k \in tailSeen..Len(tail_) : PopRefresh(k)
    \/ PopRead
    \/ PopRelease

Next == Producer \/ Consumer

Spec == Init /\ [][Next]_vars

\* A push that has begun runs on; the consumer polls for ever; and a store
\* becomes visible in a finite time, so the consumer's loads do not all miss
\* the newest entry of tail_ for ever.
Fairness ==
    /\ WF_vars(PushWrite \/ PushPublish)
    /\ WF_vars(PopBegin)
    /\ WF_vars(PopRead \/ PopRelease)
    /\ SF_vars(PopRefresh(Len(tail_)))

FairSpec == Spec /\ Fairness

-----------------------------------------------------------------------------
(* Properties *)

\* Every variable has its type.
TypeOK ==
    /\ tail_ \in Seq([idx : Slots, rel : Nat])
    /\ head_ \in Seq([idx : Slots, rel : Nat])
    /\ head_cache_ \in Slots /\ tail_cache_ \in Slots
    /\ buffer_ \in [Slots -> Items \cup {NoItem}]
    /\ ppc \in {"idle", "refresh", "write", "publish"}
    /\ cpc \in {"idle", "refresh", "read", "release"}
    /\ item \in Items \cup {NoItem} /\ (ppc # "idle" => item \in Items)
    /\ out \in Items \cup {NoItem}
    /\ headSeen \in Nat /\ tailSeen \in Nat
    /\ readsHB \in Nat /\ writesHB \in Nat
    /\ lastWrite \in [Slots -> Nat] /\ lastRead \in [Slots -> Nat]
    /\ accepted \in Seq(Items) /\ returned \in Seq(Items)

\* No slot is accessed by one thread while the other's access to it is not
\* ordered before: the acquire/release pairs on head_ and tail_, however
\* stale the cached copies are, order every write of a slot after the read
\* of what it held, and every read after the write of what it returns.
NoDataRace ==
    /\ ppc = "write" => lastRead[TailIdx] <= readsHB
    /\ cpc = "read" => lastWrite[HeadIdx] <= writesHB

\* A push is refused only when the head it saw leaves Capacity - 1 items in
\* the queue, and a pop only when it has returned all it has seen published:
\* an index that has gone round the buffer is never mistaken for an old one.
RefusalsAreHonest ==
    [][ /\ (ppc = "refresh" /\ ppc' = "idle") =>
              Len(accepted) - (headSeen' - 1) = Capacity - 1
        /\ (cpc = "refresh" /\ cpc' = "idle") =>
              Len(returned) = tailSeen' - 1 ]_vars

\* size_approx() with the tail t and the head h it loaded.
size_approx(t, h) == Masked(t + Capacity - h)

\* Whatever head_ a load by the producer returns, size_approx() is not less
\* than the number of items in the queue, and whatever tail_ a load by the
\* consumer returns, it is not more.
SizeEstimateIsSided ==
    LET size == Len(accepted) - Len(returned) IN
    /\ \A k \in headSeen..Len(head_) : size_approx(TailIdx, head_[k].idx) >= size
    /\ \A k \in tailSeen..Len(tail_) : size_approx(tail_[k].idx, HeadIdx) <= size

\* The queue is a FIFO of Capacity - 1 items: what pops return is what
\* pushes accepted, once each, in order, and one slot always stays free.
Abstract == INSTANCE Fifo WITH
    Sizes <- 0..(Capacity - 1), put <- accepted, got <- returned

ImplementsFifo == Abstract!Spec

\* A consumer that keeps polling gets every item that was accepted.
AllDelivered ==
    \A n \in 1..MaxPushes : Len(accepted) >= n ~> Len(returned) >= n
-----------------------------------------------------------------------------
(* The inductive invariant: indices are positions of the history modulo    *)
(* Capacity, and the two sides know of each other what they have acquired. *)

\* The n-th value stored to either index, and what its release publishes.
Entry(n) == [idx |-> Masked(n - 1), rel |-> n - 1]

HistoryShape ==
    /\ Len(tail_) = Len(accepted) + 1
    /\ \A k \in 1..Len(tail_) : tail_[k] = Entry(k)
    /\ Len(head_) = Len(returned) + 1
    /\ \A k \in 1..Len(head_) : head_[k] = Entry(k)

\* A cached index is the entry last acquired, with all it published.
ProducerView ==
    /\ headSeen \in 1..Len(head_)
    /\ head_cache_ = Masked(headSeen - 1)
    /\ readsHB = headSeen - 1

ConsumerView ==
    /\ tailSeen \in 1..Len(tail_)
    /\ tail_cache_ = Masked(tailSeen - 1)
    /\ writesHB = tailSeen - 1

\* By what the producer has seen there are at most Capacity - 1 items in the
\* queue, and fewer when it is past the full check.
Room ==
    /\ Len(accepted) <= headSeen - 1 + (Capacity - 1)
    /\ ppc \in {"write", "publish"} => Len(accepted) < headSeen - 1 + (Capacity - 1)

\* The consumer returns only what it has seen published.
Avail ==
    /\ Len(returned) <= tailSeen - 1
    /\ cpc \in {"read", "release"} => Len(returned) < tailSeen - 1

\* The slots hold the items accepted and not yet returned.
SlotsHold ==
    /\ \A n \in 1..Len(accepted) :
          n > Len(returned) => buffer_[Masked(n - 1)] = accepted[n]
    /\ ppc = "publish" => buffer_[TailIdx] = item
    /\ cpc = "release" => out = accepted[Len(returned) + 1]

\* The latest access to a slot is one whose position maps to that slot.
Ordinals ==
    \A s \in Slots :
        /\ lastWrite[s] <= Writes
        /\ lastWrite[s] > 0 => Masked(lastWrite[s] - 1) = s
        /\ lastRead[s] <= Reads
        /\ lastRead[s] > 0 => Masked(lastRead[s] - 1) = s

IndInv ==
    /\ TypeOK
    /\ HistoryShape
    /\ ProducerView
    /\ ConsumerView
    /\ Room
    /\ Avail
    /\ SlotsHold
    /\ Ordinals
=============================================================================
