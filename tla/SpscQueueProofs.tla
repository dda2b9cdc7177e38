-------------------------- MODULE SpscQueueProofs ---------------------------
(***************************************************************************)
(* The single-producer queue, proved for every Capacity that is a power of *)
(* two, every set of items and every number of pushes.                     *)
(***************************************************************************)
EXTENDS SpscQueue, TLAPS

-----------------------------------------------------------------------------
(* Positions modulo the size of a ring: two different positions that map to *)
(* the same slot are at least one whole turn apart.                         *)

\* A remainder is a slot number.
LEMMA ModRange ==
    ASSUME NEW C \in Nat \ {0}, NEW a \in Nat
    PROVE  a % C \in 0..(C - 1)
  BY SMT

\* A position is so many whole turns and a remainder.
LEMMA DivMod ==
    ASSUME NEW C \in Nat \ {0}, NEW a \in Nat
    PROVE  /\ a \div C \in Nat
           /\ a = C * (a \div C) + (a % C)
  BY SMT

\* A different number of turns is a distance of at least one turn.
LEMMA MulGap ==
    ASSUME NEW C \in Nat \ {0}, NEW p \in Nat, NEW q \in Nat, p < q
    PROVE  C * p + C <= C * q
  BY SMT

LEMMA MulMono ==
    ASSUME NEW C \in Nat \ {0}, NEW p \in Nat, NEW q \in Nat, p <= q
    PROVE  C * p <= C * q
  BY SMT

\* Two positions in the same slot are at least one turn apart.
LEMMA ModGap ==
    ASSUME NEW C \in Nat \ {0}, NEW a \in Nat, NEW b \in Nat,
           a % C = b % C, a < b
    PROVE  a + C <= b
<1>0. a % C \in Nat /\ a % C < C
  BY ModRange
<1>1. /\ a \div C \in Nat /\ a = C * (a \div C) + (a % C)
      /\ b \div C \in Nat /\ b = C * (b \div C) + (b % C)
  BY DivMod
<1>2. CASE b \div C <= a \div C
  <2>1. C * (b \div C) <= C * (a \div C)
    BY <1>1, <1>2, MulMono
  <2> QED
    BY <1>0, <1>1, <2>1, SMT
<1>3. CASE a \div C < b \div C
  <2>1. C * (a \div C) + C <= C * (b \div C)
    BY <1>1, <1>3, MulGap
  <2> QED
    BY <1>0, <1>1, <2>1, SMT
<1> QED
  BY <1>1, <1>2, <1>3

\* A remainder is found by writing the position as turns and a rest.
LEMMA ModUnique ==
    ASSUME NEW C \in Nat \ {0}, NEW q \in Nat, NEW r \in 0..(C - 1)
    PROVE  (C * q + r) % C = r
<1> DEFINE a == C * q + r
<1>0. a \in Nat
  BY SMT
<1>1. /\ a \div C \in Nat /\ a = C * (a \div C) + (a % C)
      /\ a % C \in 0..(C - 1)
  BY <1>0, DivMod, ModRange
<1>2. CASE q < a \div C
  <2>1. C * q + C <= C * (a \div C)
    BY <1>1, <1>2, MulGap
  <2> QED
    BY <1>1, <2>1, SMT
<1>3. CASE a \div C < q
  <2>1. C * (a \div C) + C <= C * q
    BY <1>1, <1>3, MulGap
  <2> QED
    BY <1>1, <2>1, SMT
<1>4. CASE a \div C = q
  BY <1>1, <1>4, SMT
<1> QED
  BY <1>1, <1>2, <1>3, <1>4

\* The slot after the slot of a position is the slot of the next position.
LEMMA ModSucc ==
    ASSUME NEW C \in Nat \ {0}, NEW a \in Nat
    PROVE  ((a % C) + 1) % C = (a + 1) % C
<1> DEFINE q == a \div C
           r == a % C
<1>1. q \in Nat /\ a = C * q + r /\ r \in 0..(C - 1)
  BY DivMod, ModRange
<1>2. CASE r < C - 1
  <2>1. r + 1 \in 0..(C - 1) /\ a + 1 = C * q + (r + 1)
    BY <1>1, <1>2, SMT
  <2>2. (C * q + (r + 1)) % C = r + 1
    BY <1>1, <2>1, ModUnique
  <2>3. (C * 0 + (r + 1)) % C = r + 1
    BY <2>1, ModUnique
  <2> QED
    BY <2>1, <2>2, <2>3, SMT
<1>3. CASE r = C - 1
  <2>1. q + 1 \in Nat /\ 0 \in 0..(C - 1) /\ a + 1 = C * (q + 1) + 0
    BY <1>1, <1>3, SMT
  <2>2. (C * (q + 1) + 0) % C = 0
    BY <2>1, ModUnique
  <2>3. (C * 1 + 0) % C = 0
    BY <2>1, ModUnique
  <2> QED
    BY <1>3, <2>1, <2>2, <2>3, SMT
<1> QED
  BY <1>1, <1>2, <1>3, SMT

\* One whole turn later is the same slot.
LEMMA ModTurn ==
    ASSUME NEW C \in Nat \ {0}, NEW a \in Nat
    PROVE  (a + C) % C = a % C
<1> DEFINE q == a \div C
           r == a % C
<1>1. q \in Nat /\ a = C * q + r
  BY DivMod
<1>2. r \in 0..(C - 1)
  BY ModRange
<1>3. q + 1 \in Nat /\ a + C = C * (q + 1) + r
  BY <1>1, <1>2, SMT
<1>4. (C * (q + 1) + r) % C = r
  BY <1>2, <1>3, ModUnique
<1> QED
  BY <1>3, <1>4

\* The distance of two positions less than a turn apart is the remainder of
\* the distance of their slots, brought above zero by one turn.
LEMMA ModDistance ==
    ASSUME NEW C \in Nat \ {0}, NEW a \in Nat, NEW b \in Nat, b <= a, a < b + C
    PROVE  ((a % C) + C - (b % C)) % C = a - b
<1> DEFINE p == a \div C
           q == b \div C
<1>1. /\ p \in Nat /\ a = C * p + (a % C)
      /\ q \in Nat /\ b = C * q + (b % C)
  BY DivMod
<1>2. a % C \in 0..(C - 1) /\ b % C \in 0..(C - 1)
  BY ModRange
<1>3. a - b \in 0..(C - 1)
  BY SMT
<1>4. CASE p = q
  <2>1. (a % C) + C - (b % C) = C * 1 + (a - b)
    BY <1>1, <1>2, <1>4, SMT
  <2> QED
    BY <1>3, <2>1, ModUnique
<1>5. CASE p = q + 1
  <2>1. C * p = C * q + C
    BY <1>1, <1>5, SMT
  <2>2. (a % C) + C - (b % C) = C * 0 + (a - b)
    BY <1>1, <1>2, <2>1, SMT
  <2> QED
    BY <1>3, <2>2, ModUnique
<1>6. CASE p < q
  <2>1. C * p + C <= C * q
    BY <1>1, <1>6, MulGap
  <2> QED
    BY <1>1, <1>2, <2>1, SMT
<1>7. CASE q + 1 < p
  <2>1. C * (q + 1) + C <= C * p
    BY <1>1, <1>7, MulGap, SMT
  <2>2. C * (q + 1) = C * q + C
    BY <1>1, SMT
  <2> QED
    BY <1>1, <1>2, <2>1, <2>2, SMT
<1> QED
  BY <1>1, <1>4, <1>5, <1>6, <1>7, SMT

-----------------------------------------------------------------------------

LEMMA CapacityFacts == Capacity \in Nat \ {0} /\ Capacity >= 2
  BY CapacityAssumption, SMT

\* These lemmas for the mask of this queue.
LEMMA MaskedRange == ASSUME NEW i \in Nat PROVE Masked(i) \in Slots
  BY CapacityFacts, ModRange DEF Masked, Slots

LEMMA MaskedSucc == ASSUME NEW i \in Nat PROVE Masked(Masked(i) + 1) = Masked(i + 1)
  BY CapacityFacts, ModSucc DEF Masked

LEMMA MaskedTurn == ASSUME NEW i \in Nat PROVE Masked(i + Capacity) = Masked(i)
  BY CapacityFacts, ModTurn DEF Masked

LEMMA MaskedGap ==
    ASSUME NEW i \in Nat, NEW j \in Nat, Masked(i) = Masked(j), i < j
    PROVE  i + Capacity <= j
  BY CapacityFacts, ModGap DEF Masked

LEMMA MaskedZero == Masked(0) = 0
<1>1. (Capacity * 0 + 0) % Capacity = 0
  BY CapacityFacts, ModUnique, SMT
<1>2. Capacity * 0 + 0 = 0
  BY CapacityFacts, SMT
<1> QED
  BY <1>1, <1>2 DEF Masked

-----------------------------------------------------------------------------

\* The indices are positions in the history, and the positions both sides
\* know of are ordered: headSeen - 1, returned, tailSeen - 1, accepted.
LEMMA Positions ==
    ASSUME IndInv
    PROVE  /\ Len(accepted) \in Nat /\ Len(returned) \in Nat
           /\ headSeen - 1 \in Nat /\ tailSeen - 1 \in Nat
           /\ headSeen - 1 <= Len(returned)
           /\ Len(returned) <= tailSeen - 1
           /\ tailSeen - 1 <= Len(accepted)
           /\ TailIdx = Masked(Len(accepted)) /\ HeadIdx = Masked(Len(returned))
           /\ NextTail = Masked(Len(accepted) + 1)
           /\ NextHead = Masked(Len(returned) + 1)
           /\ TailIdx \in Slots /\ HeadIdx \in Slots
           /\ NextTail \in Slots /\ NextHead \in Slots
<1>1. Len(accepted) \in Nat /\ Len(returned) \in Nat
  BY DEF IndInv, TypeOK
<1>2. /\ headSeen \in 1..(Len(returned) + 1) /\ tailSeen \in 1..(Len(accepted) + 1)
      /\ Len(returned) <= tailSeen - 1
  BY DEF IndInv, HistoryShape, ProducerView, ConsumerView, Avail
<1>3. TailIdx = Masked(Len(accepted)) /\ HeadIdx = Masked(Len(returned))
  BY <1>1, SMT DEF IndInv, HistoryShape, TailIdx, HeadIdx, Entry
<1>4. /\ NextTail = Masked(Len(accepted) + 1)
      /\ NextHead = Masked(Len(returned) + 1)
  BY <1>1, <1>3, MaskedSucc DEF NextTail, NextHead
<1>5. /\ TailIdx \in Slots /\ HeadIdx \in Slots
      /\ NextTail \in Slots /\ NextHead \in Slots
  BY <1>1, <1>3, <1>4, MaskedRange
<1> QED
  BY <1>1, <1>2, <1>3, <1>4, <1>5, SMT

\* The full check: with the producer's view at position p, the next index
\* meets Masked(p) exactly when Capacity - 1 items follow position p.
LEMMA FullCheck ==
    ASSUME NEW a \in Nat, NEW p \in Nat, p <= a, a <= p + (Capacity - 1)
    PROVE  Masked(a + 1) = Masked(p) <=> a = p + (Capacity - 1)
<1>1. ASSUME a = p + (Capacity - 1) PROVE Masked(a + 1) = Masked(p)
  <2>1. a + 1 = p + Capacity
    BY <1>1, CapacityFacts, SMT
  <2> QED
    BY <2>1, MaskedTurn
<1>2. ASSUME Masked(a + 1) = Masked(p) PROVE a = p + (Capacity - 1)
  <2>1. p + Capacity <= a + 1
    BY <1>2, MaskedGap, SMT
  <2> QED
    BY <2>1, CapacityFacts, SMT
<1> QED
  BY <1>1, <1>2

\* The empty check: a position within one turn of r meets Masked(r) only at r.
LEMMA EmptyCheck ==
    ASSUME NEW r \in Nat, NEW t \in Nat, r <= t, t <= r + (Capacity - 1)
    PROVE  Masked(r) = Masked(t) <=> r = t
<1>1. ASSUME Masked(r) = Masked(t), r # t PROVE FALSE
  <2>1. r + Capacity <= t
    BY <1>1, MaskedGap, SMT
  <2> QED
    BY <2>1, CapacityFacts, SMT
<1> QED
  BY <1>1
-----------------------------------------------------------------------------
(* The invariant holds initially and is preserved by each action. *)

LEMMA InitIndInv == Init => IndInv
<1> SUFFICES ASSUME Init PROVE IndInv
  OBVIOUS
<1>1. 0 \in Slots
  BY CapacityFacts DEF Slots
<1>2. TypeOK
  BY <1>1 DEF Init, TypeOK
<1>3. HistoryShape
  BY MaskedZero DEF Init, HistoryShape, Entry
<1>4. ProducerView /\ ConsumerView
  BY MaskedZero DEF Init, ProducerView, ConsumerView
<1>5. Room /\ Avail
  BY CapacityFacts DEF Init, Room, Avail
<1>6. SlotsHold
  BY DEF Init, SlotsHold
<1>7. Ordinals
  BY DEF Init, Ordinals, Writes, Reads, Slots
<1> QED
  BY <1>2, <1>3, <1>4, <1>5, <1>6, <1>7 DEF IndInv

LEMMA PushBeginInv ==
    ASSUME IndInv, NEW v \in Items, PushBegin(v)
    PROVE  IndInv'
<1> USE DEF consumerVars
<1>1. ppc' \in {"refresh", "write"}
  BY DEF PushBegin
<1>2. TypeOK'
  BY <1>1 DEF IndInv, TypeOK, PushBegin
<1>3. HistoryShape' /\ ProducerView' /\ ConsumerView'
  BY DEF IndInv, HistoryShape, ProducerView, ConsumerView, Entry, PushBegin
<1>4. Room'
  <2>1. Len(accepted) <= headSeen - 1 + (Capacity - 1)
    BY DEF IndInv, Room
  <2>2. CASE ppc' = "refresh"
    BY <2>1, <2>2 DEF Room, PushBegin
  <2>3. CASE ppc' = "write"
    <3>1. NextTail # head_cache_
      BY <2>3 DEF PushBegin
    <3>2. Masked(Len(accepted) + 1) # Masked(headSeen - 1)
      BY <3>1, Positions DEF IndInv, ProducerView
    <3>3. Len(accepted) # headSeen - 1 + (Capacity - 1)
      BY <2>1, <3>2, FullCheck, Positions, SMT
    <3> QED
      BY <2>1, <3>3, Positions, CapacityFacts DEF Room, PushBegin
  <2> QED
    BY <1>1, <2>2, <2>3
<1>5. Avail'
  BY DEF IndInv, Avail, PushBegin
<1>6. SlotsHold'
  BY <1>1 DEF IndInv, SlotsHold, PushBegin
<1>7. Ordinals'
  BY <1>1 DEF IndInv, Ordinals, Writes, Reads, PushBegin
<1> QED
  BY <1>2, <1>3, <1>4, <1>5, <1>6, <1>7 DEF IndInv

LEMMA PushRefreshInv ==
    ASSUME IndInv, NEW k \in headSeen..Len(head_), PushRefresh(k)
    PROVE  IndInv'
<1> USE DEF consumerVars
<1>1. /\ k \in Nat /\ k - 1 \in Nat /\ headSeen \in Nat /\ headSeen <= k
      /\ k - 1 <= Len(returned)
      /\ head_[k] = Entry(k)
  BY Positions, SMT DEF IndInv, HistoryShape, ProducerView
<1>2. head_cache_' = Masked(k - 1) /\ readsHB' = k - 1
  BY <1>1, Positions, SMT DEF IndInv, ProducerView, Entry, PushRefresh, Acquire
<1>3. ppc' \in {"idle", "write"}
  BY DEF PushRefresh
<1>4. TypeOK'
  BY <1>1, <1>2, <1>3, MaskedRange DEF IndInv, TypeOK, PushRefresh
<1>5. HistoryShape' /\ ConsumerView'
  BY DEF IndInv, HistoryShape, ConsumerView, Entry, PushRefresh
<1>6. ProducerView'
  BY <1>1, <1>2, Positions, SMT DEF IndInv, HistoryShape, ProducerView, PushRefresh
<1>7. Room'
  <2>1. Len(accepted) <= k - 1 + (Capacity - 1)
    BY <1>1, Positions, CapacityFacts, SMT DEF IndInv, Room
  <2>2. CASE ppc' = "idle"
    BY <2>1, <2>2 DEF Room, PushRefresh
  <2>3. CASE ppc' = "write"
    <3>1. Masked(Len(accepted) + 1) # Masked(k - 1)
      BY <1>1, <2>3, Positions DEF PushRefresh, Entry
    <3>2. Len(accepted) # k - 1 + (Capacity - 1)
      BY <1>1, <2>1, <3>1, FullCheck, Positions, SMT
    <3> QED
      BY <1>1, <2>1, <3>2, Positions, CapacityFacts DEF Room, PushRefresh
  <2> QED
    BY <1>3, <2>2, <2>3
<1>8. Avail'
  BY DEF IndInv, Avail, PushRefresh
<1>9. SlotsHold'
  BY <1>3 DEF IndInv, SlotsHold, PushRefresh
<1>10. Ordinals'
  BY <1>3 DEF IndInv, Ordinals, Writes, Reads, PushRefresh
<1> QED
  BY <1>4, <1>5, <1>6, <1>7, <1>8, <1>9, <1>10 DEF IndInv

LEMMA PushWriteInv ==
    ASSUME IndInv, PushWrite
    PROVE  IndInv'
<1> USE DEF consumerVars
<1>1. /\ ppc = "write" /\ ppc' = "publish" /\ item \in Items
      /\ Writes = Len(accepted) /\ Writes' = Len(accepted) + 1
      /\ Reads' = Reads /\ TailIdx' = TailIdx /\ HeadIdx' = HeadIdx
  BY Positions, SMT DEF IndInv, TypeOK, PushWrite, Writes, Reads, TailIdx, HeadIdx
<1>2. TypeOK'
  <2>1. buffer_' \in [Slots -> Items \cup {NoItem}]
    BY <1>1 DEF IndInv, TypeOK, PushWrite
  <2>2. lastWrite' \in [Slots -> Nat]
    <3>1. Writes + 1 \in Nat
      BY <1>1, Positions
    <3> QED
      BY <3>1 DEF IndInv, TypeOK, PushWrite
  <2> QED
    BY <1>1, <2>1, <2>2 DEF IndInv, TypeOK, PushWrite
<1>3. HistoryShape' /\ ProducerView' /\ ConsumerView'
  BY DEF IndInv, HistoryShape, ProducerView, ConsumerView, Entry, PushWrite
<1>4. Room' /\ Avail'
  BY <1>1 DEF IndInv, Room, Avail, PushWrite
<1>5. SlotsHold'
  <2>1. ASSUME NEW n \in 1..Len(accepted), n > Len(returned)
        PROVE  buffer_'[Masked(n - 1)] = accepted[n]
    <3>1. n - 1 \in Nat /\ n - 1 < Len(accepted)
      BY Positions, SMT
    <3>2. Masked(n - 1) # Masked(Len(accepted))
      <4>1. SUFFICES ASSUME Masked(n - 1) = Masked(Len(accepted)) PROVE FALSE
        OBVIOUS
      <4>2. n - 1 + Capacity <= Len(accepted)
        BY <3>1, <4>1, MaskedGap, Positions
      <4>3. Len(accepted) < Len(returned) + (Capacity - 1)
        BY <1>1, Positions, CapacityFacts, SMT DEF IndInv, Room
      <4> QED
        BY <2>1, <3>1, <4>2, <4>3, Positions, CapacityFacts, SMT
    <3>3. buffer_[Masked(n - 1)] = accepted[n]
      BY <2>1 DEF IndInv, SlotsHold
    <3> QED
      BY <3>1, <3>2, <3>3, MaskedRange, Positions DEF IndInv, TypeOK, PushWrite
  <2>2. buffer_'[TailIdx'] = item'
    BY <1>1, Positions DEF IndInv, TypeOK, PushWrite
  <2>3. cpc' = "release" => out' = accepted'[Len(returned') + 1]
    BY DEF IndInv, SlotsHold, PushWrite
  <2> QED
    BY <2>1, <2>2, <2>3 DEF SlotsHold, PushWrite
<1>6. Ordinals'
  <2>1. SUFFICES ASSUME NEW s \in Slots
                 PROVE  /\ lastWrite'[s] <= Writes'
                        /\ lastWrite'[s] > 0 => Masked(lastWrite'[s] - 1) = s
    BY <1>1 DEF IndInv, Ordinals, PushWrite
  <2>2. CASE s = TailIdx
    <3>1. lastWrite'[s] = Len(accepted) + 1
      BY <1>1, <2>2, Positions DEF IndInv, TypeOK, PushWrite
    <3>2. Masked(Len(accepted) + 1 - 1) = s
      BY <2>2, Positions, SMT
    <3> QED
      BY <1>1, <3>1, <3>2, Positions, SMT
  <2>3. CASE s # TailIdx
    <3>1. lastWrite'[s] = lastWrite[s] /\ lastWrite[s] \in Nat
      BY <2>3, Positions DEF IndInv, TypeOK, PushWrite
    <3>2. /\ lastWrite[s] <= Len(accepted)
          /\ lastWrite[s] > 0 => Masked(lastWrite[s] - 1) = s
      BY <1>1 DEF IndInv, Ordinals
    <3> QED
      BY <1>1, <3>1, <3>2, Positions, SMT
  <2> QED
    BY <2>2, <2>3
<1> QED
  BY <1>2, <1>3, <1>4, <1>5, <1>6 DEF IndInv

LEMMA PushPublishInv ==
    ASSUME IndInv, PushPublish
    PROVE  IndInv'
<1> USE DEF consumerVars
<1>1. /\ ppc = "publish" /\ ppc' = "idle" /\ item \in Items
      /\ Writes = Len(accepted) + 1
      /\ accepted' = Append(accepted, item)
      /\ tail_' = Append(tail_, [idx |-> NextTail, rel |-> Len(accepted) + 1])
  BY DEF IndInv, TypeOK, PushPublish, Writes, ReleaseTail
<1>2. /\ Len(accepted') = Len(accepted) + 1
      /\ accepted'[Len(accepted) + 1] = item
      /\ \A n \in 1..Len(accepted) : accepted'[n] = accepted[n]
      /\ Writes' = Writes /\ Reads' = Reads
  BY <1>1, Positions, SMT DEF IndInv, TypeOK, PushPublish, Writes, Reads
<1>3. /\ tail_' = Append(tail_, Entry(Len(tail_) + 1))
      /\ Entry(Len(tail_) + 1) \in [idx : Slots, rel : Nat]
  <2>1. Len(tail_) = Len(accepted) + 1
    BY DEF IndInv, HistoryShape
  <2>2. NextTail = Masked(Len(tail_) + 1 - 1) /\ Len(accepted) + 1 = Len(tail_) + 1 - 1
    BY <2>1, Positions, SMT
  <2>3. Entry(Len(tail_) + 1) = [idx |-> NextTail, rel |-> Len(accepted) + 1]
    BY <2>2 DEF Entry
  <2>4. [idx |-> NextTail, rel |-> Len(accepted) + 1] \in [idx : Slots, rel : Nat]
    BY Positions
  <2> QED
    BY <1>1, <2>3, <2>4
<1>4. TypeOK'
  <2>1. tail_' \in Seq([idx : Slots, rel : Nat])
    BY <1>3 DEF IndInv, TypeOK
  <2>2. accepted' \in Seq(Items)
    BY <1>1 DEF IndInv, TypeOK
  <2> QED
    BY <1>1, <2>1, <2>2 DEF IndInv, TypeOK, PushPublish
<1>5. /\ Len(tail_') = Len(tail_) + 1
       /\ tail_'[Len(tail_) + 1] = Entry(Len(tail_) + 1)
       /\ \A k \in 1..Len(tail_) : tail_'[k] = tail_[k]
  BY <1>3 DEF IndInv, TypeOK
<1>6. HistoryShape'
  <2>1. Len(tail_') = Len(accepted') + 1
    BY <1>2, <1>5 DEF IndInv, HistoryShape
  <2>2. \A k \in 1..Len(tail_') : tail_'[k] = Entry(k)
    BY <1>5, Positions, SMT DEF IndInv, HistoryShape
  <2> QED
    BY <2>1, <2>2 DEF IndInv, HistoryShape, PushPublish, Entry
<1>7. ProducerView' /\ ConsumerView'
  BY <1>5, Positions, SMT
     DEF IndInv, HistoryShape, ProducerView, ConsumerView, PushPublish
<1>8. Room'
  BY <1>1, <1>2, Positions, CapacityFacts, SMT DEF IndInv, Room, PushPublish
<1>9. Avail'
  BY DEF IndInv, Avail, PushPublish
<1>10. SlotsHold'
  <2>1. ASSUME NEW n \in 1..Len(accepted'), n > Len(returned)
        PROVE  buffer_[Masked(n - 1)] = accepted'[n]
    <3>1. CASE n = Len(accepted) + 1
      <4>1. buffer_[Masked(Len(accepted))] = item /\ n - 1 = Len(accepted)
        BY <1>1, <3>1, Positions, SMT DEF IndInv, SlotsHold
      <4> QED
        BY <1>2, <3>1, <4>1
    <3>2. CASE n \in 1..Len(accepted)
      BY <1>2, <2>1, <3>2 DEF IndInv, SlotsHold
    <3> QED
      BY <1>2, <3>1, <3>2, Positions, SMT
  <2>2. cpc' = "release" => out' = accepted'[Len(returned') + 1]
    <3>1. ASSUME cpc = "release" PROVE Len(returned) + 1 \in 1..Len(accepted)
      BY <3>1, Positions, SMT DEF IndInv, Avail
    <3> QED
      BY <1>2, <3>1 DEF IndInv, SlotsHold, PushPublish
  <2> QED
    BY <1>1, <2>1, <2>2 DEF SlotsHold, PushPublish
<1>11. Ordinals'
  BY <1>2 DEF IndInv, Ordinals, PushPublish
<1> QED
  BY <1>4, <1>6, <1>7, <1>8, <1>9, <1>10, <1>11 DEF IndInv

LEMMA PopBeginInv ==
    ASSUME IndInv, PopBegin
    PROVE  IndInv'
<1> USE DEF producerVars
<1>1. cpc' \in {"refresh", "read"} /\ cpc = "idle" /\ Reads' = Reads
  BY DEF PopBegin, Reads
<1>2. TypeOK'
  BY <1>1 DEF IndInv, TypeOK, PopBegin
<1>3. HistoryShape' /\ ProducerView' /\ ConsumerView' /\ Room'
  BY DEF IndInv, HistoryShape, ProducerView, ConsumerView, Room, Entry, PopBegin
<1>4. Avail'
  <2>1. CASE cpc' = "refresh"
    BY <2>1 DEF IndInv, Avail, PopBegin
  <2>2. CASE cpc' = "read"
    <3>1. HeadIdx # tail_cache_
      BY <2>2 DEF PopBegin
    <3>2. Masked(Len(returned)) # Masked(tailSeen - 1)
      BY <3>1, Positions DEF IndInv, ConsumerView
    <3> QED
      BY <3>2, Positions, SMT DEF IndInv, Avail, PopBegin
  <2> QED
    BY <1>1, <2>1, <2>2
<1>5. SlotsHold'
  BY <1>1 DEF IndInv, SlotsHold, TailIdx, PopBegin
<1>6. Ordinals'
  BY <1>1 DEF IndInv, Ordinals, Writes, PopBegin
<1> QED
  BY <1>2, <1>3, <1>4, <1>5, <1>6 DEF IndInv

LEMMA PopRefreshInv ==
    ASSUME IndInv, NEW k \in tailSeen..Len(tail_), PopRefresh(k)
    PROVE  IndInv'
<1> USE DEF producerVars
<1>1. /\ k \in Nat /\ k - 1 \in Nat /\ tailSeen \in Nat /\ tailSeen <= k
      /\ k - 1 <= Len(accepted)
      /\ tail_[k] = Entry(k)
  BY Positions, SMT DEF IndInv, HistoryShape, ConsumerView
<1>2. tail_cache_' = Masked(k - 1) /\ writesHB' = k - 1
  BY <1>1, Positions, SMT DEF IndInv, ConsumerView, Entry, PopRefresh, Acquire
<1>3. cpc' \in {"idle", "read"} /\ cpc = "refresh" /\ Reads' = Reads
  BY DEF PopRefresh, Reads
<1>4. TypeOK'
  BY <1>1, <1>2, <1>3, MaskedRange DEF IndInv, TypeOK, PopRefresh
<1>5. HistoryShape' /\ ProducerView' /\ Room'
  BY DEF IndInv, HistoryShape, ProducerView, Room, Entry, PopRefresh
<1>6. ConsumerView'
  <2>1. k \in 1..Len(tail_)
    BY <1>1, Positions DEF IndInv, HistoryShape
  <2>2. tailSeen' = k /\ tail_' = tail_
    BY DEF PopRefresh
  <2> QED
    BY <1>2, <2>1, <2>2 DEF ConsumerView
<1>7. Avail'
  <2>1. Len(returned) <= k - 1
    BY <1>1, Positions, SMT
  <2>2. CASE cpc' = "idle"
    BY <2>1, <2>2 DEF Avail, PopRefresh
  <2>3. CASE cpc' = "read"
    <3>1. Masked(Len(returned)) # Masked(k - 1)
      BY <1>1, <2>3, Positions DEF PopRefresh, Entry
    <3>2. Len(returned) # k - 1
      BY <3>1
    <3> QED
      BY <1>1, <2>1, <3>2, Positions, SMT DEF Avail, PopRefresh
  <2> QED
    BY <1>3, <2>2, <2>3
<1>8. SlotsHold'
  BY <1>3 DEF IndInv, SlotsHold, TailIdx, PopRefresh
<1>9. Ordinals'
  BY <1>3 DEF IndInv, Ordinals, Writes, PopRefresh
<1> QED
  BY <1>4, <1>5, <1>6, <1>7, <1>8, <1>9 DEF IndInv

LEMMA PopReadInv ==
    ASSUME IndInv, PopRead
    PROVE  IndInv'
<1> USE DEF producerVars
<1>1. /\ cpc = "read" /\ cpc' = "release"
      /\ Reads = Len(returned) /\ Reads' = Len(returned) + 1
      /\ Writes' = Writes /\ TailIdx' = TailIdx /\ HeadIdx' = HeadIdx
  BY Positions, SMT DEF PopRead, Writes, Reads, TailIdx, HeadIdx
<1>2. TypeOK'
  <2>1. out' \in Items \cup {NoItem}
    BY Positions DEF IndInv, TypeOK, PopRead
  <2>2. lastRead' \in [Slots -> Nat]
    <3>1. Reads + 1 \in Nat
      BY <1>1, Positions
    <3> QED
      BY <3>1 DEF IndInv, TypeOK, PopRead
  <2> QED
    BY <1>1, <2>1, <2>2 DEF IndInv, TypeOK, PopRead
<1>3. HistoryShape' /\ ProducerView' /\ ConsumerView' /\ Room'
  BY DEF IndInv, HistoryShape, ProducerView, ConsumerView, Room, Entry, PopRead
<1>4. Avail'
  BY <1>1 DEF IndInv, Avail, PopRead
<1>5. SlotsHold'
  <2>1. Len(returned) + 1 \in 1..Len(accepted) /\ Len(returned) + 1 > Len(returned)
    BY <1>1, Positions, SMT DEF IndInv, Avail
  <2>2. buffer_[Masked(Len(returned) + 1 - 1)] = accepted[Len(returned) + 1]
    BY <2>1 DEF IndInv, SlotsHold
  <2>3. buffer_[HeadIdx] = accepted[Len(returned) + 1]
    <3>1. Len(returned) + 1 - 1 = Len(returned)
      BY Positions, SMT
    <3> QED
      BY <2>2, <3>1, Positions
  <2> QED
    BY <1>1, <2>3 DEF IndInv, SlotsHold, PopRead
<1>6. Ordinals'
  <2>1. SUFFICES ASSUME NEW s \in Slots
                 PROVE  /\ lastRead'[s] <= Reads'
                        /\ lastRead'[s] > 0 => Masked(lastRead'[s] - 1) = s
    BY <1>1 DEF IndInv, Ordinals, PopRead
  <2>2. CASE s = HeadIdx
    <3>1. lastRead'[s] = Len(returned) + 1
      BY <1>1, <2>2, Positions DEF IndInv, TypeOK, PopRead
    <3>2. Masked(Len(returned) + 1 - 1) = s
      BY <2>2, Positions, SMT
    <3> QED
      BY <1>1, <3>1, <3>2, Positions, SMT
  <2>3. CASE s # HeadIdx
    <3>1. lastRead'[s] = lastRead[s] /\ lastRead[s] \in Nat
      BY <2>3, Positions DEF IndInv, TypeOK, PopRead
    <3>2. /\ lastRead[s] <= Len(returned)
          /\ lastRead[s] > 0 => Masked(lastRead[s] - 1) = s
      BY <1>1 DEF IndInv, Ordinals
    <3> QED
      BY <1>1, <3>1, <3>2, Positions, SMT
  <2> QED
    BY <2>2, <2>3
<1> QED
  BY <1>2, <1>3, <1>4, <1>5, <1>6 DEF IndInv

\* The item about to be returned is the oldest one not returned yet.
LEMMA NextReturned ==
    ASSUME IndInv, PopRelease
    PROVE  /\ Len(returned) + 1 \in 1..Len(accepted)
           /\ returned' = Append(returned, accepted[Len(returned) + 1])
           /\ out \in Items
<1>1. Len(returned) + 1 \in 1..Len(accepted)
  BY Positions, SMT DEF IndInv, Avail, PopRelease
<1>2. out = accepted[Len(returned) + 1]
  BY DEF IndInv, SlotsHold, PopRelease
<1> QED
  BY <1>1, <1>2 DEF IndInv, TypeOK, PopRelease

LEMMA PopReleaseInv ==
    ASSUME IndInv, PopRelease
    PROVE  IndInv'
<1> USE DEF producerVars
<1>1. /\ cpc = "release" /\ cpc' = "idle"
      /\ Reads = Len(returned) + 1
      /\ returned' = Append(returned, out)
      /\ head_' = Append(head_, [idx |-> NextHead, rel |-> Len(returned) + 1])
  BY DEF PopRelease, Reads, ReleaseHead
<1>2. /\ Len(returned') = Len(returned) + 1
      /\ Writes' = Writes /\ Reads' = Reads
  BY <1>1, Positions, SMT DEF IndInv, TypeOK, PopRelease, Writes, Reads
<1>3. /\ head_' = Append(head_, Entry(Len(head_) + 1))
      /\ Entry(Len(head_) + 1) \in [idx : Slots, rel : Nat]
  <2>1. Len(head_) = Len(returned) + 1
    BY DEF IndInv, HistoryShape
  <2>2. NextHead = Masked(Len(head_) + 1 - 1) /\ Len(returned) + 1 = Len(head_) + 1 - 1
    BY <2>1, Positions, SMT
  <2>3. Entry(Len(head_) + 1) = [idx |-> NextHead, rel |-> Len(returned) + 1]
    BY <2>2 DEF Entry
  <2>4. [idx |-> NextHead, rel |-> Len(returned) + 1] \in [idx : Slots, rel : Nat]
    BY Positions
  <2> QED
    BY <1>1, <2>3, <2>4
<1>4. TypeOK'
  <2>1. head_' \in Seq([idx : Slots, rel : Nat])
    BY <1>3 DEF IndInv, TypeOK
  <2>2. returned' \in Seq(Items)
    BY <1>1, NextReturned DEF IndInv, TypeOK
  <2> QED
    BY <1>1, <2>1, <2>2 DEF IndInv, TypeOK, PopRelease
<1>5. /\ Len(head_') = Len(head_) + 1
      /\ head_'[Len(head_) + 1] = Entry(Len(head_) + 1)
      /\ \A k \in 1..Len(head_) : head_'[k] = head_[k]
  BY <1>3 DEF IndInv, TypeOK
<1>6. HistoryShape'
  <2>1. Len(head_') = Len(returned') + 1
    BY <1>2, <1>5 DEF IndInv, HistoryShape
  <2>2. \A k \in 1..Len(head_') : head_'[k] = Entry(k)
    BY <1>5, Positions, SMT DEF IndInv, HistoryShape
  <2> QED
    BY <2>1, <2>2 DEF IndInv, HistoryShape, PopRelease, Entry
<1>7. ProducerView' /\ ConsumerView'
  BY <1>5, Positions, SMT
     DEF IndInv, HistoryShape, ProducerView, ConsumerView, PopRelease
<1>8. Room'
  BY DEF IndInv, Room, PopRelease
<1>9. Avail'
  BY <1>1, <1>2, Positions, SMT DEF IndInv, Avail, PopRelease
<1>10. SlotsHold'
  <2>1. ASSUME NEW n \in 1..Len(accepted), n > Len(returned')
        PROVE  buffer_[Masked(n - 1)] = accepted[n]
    <3>1. n > Len(returned)
      BY <1>2, <2>1, Positions, SMT
    <3> QED
      BY <3>1 DEF IndInv, SlotsHold
  <2> QED
    BY <1>1, <2>1 DEF IndInv, SlotsHold, TailIdx, PopRelease
<1>11. Ordinals'
  BY <1>2 DEF IndInv, Ordinals, PopRelease
<1> QED
  BY <1>4, <1>6, <1>7, <1>8, <1>9, <1>10, <1>11 DEF IndInv

-----------------------------------------------------------------------------
(* The theorems. *)

LEMMA NextIndInv == IndInv /\ [Next]_vars => IndInv'
<1> SUFFICES ASSUME IndInv, [Next]_vars PROVE IndInv'
  OBVIOUS
<1>1. ASSUME NEW v \in Items, PushBegin(v) PROVE IndInv'
  BY <1>1, PushBeginInv
<1>2. ASSUME NEW k \in headSeen..Len(head_), PushRefresh(k) PROVE IndInv'
  BY <1>2, PushRefreshInv
<1>3. CASE PushWrite
  BY <1>3, PushWriteInv
<1>4. CASE PushPublish
  BY <1>4, PushPublishInv
<1>5. CASE PopBegin
  BY <1>5, PopBeginInv
<1>6. ASSUME NEW k \in tailSeen..Len(tail_), PopRefresh(k) PROVE IndInv'
  BY <1>6, PopRefreshInv
<1>7. CASE PopRead
  BY <1>7, PopReadInv
<1>8. CASE PopRelease
  BY <1>8, PopReleaseInv
<1>9. CASE UNCHANGED vars
  BY <1>9 DEF vars, producerVars, consumerVars, IndInv, TypeOK, HistoryShape,
     ProducerView, ConsumerView, Room, Avail, SlotsHold, Ordinals, Entry,
     TailIdx, Writes, Reads
<1> QED
  BY <1>1, <1>2, <1>3, <1>4, <1>5, <1>6, <1>7, <1>8, <1>9
     DEF Next, Producer, Consumer

\* In every reachable state of push and pop, at every Capacity, the indices,
\* the cached indices and the slots agree with the history.
THEOREM Invariance == Spec => []IndInv
<1>1. Init => IndInv
  BY InitIndInv
<1>2. IndInv /\ [Next]_vars => IndInv'
  BY NextIndInv
<1> QED
  BY <1>1, <1>2, PTL DEF Spec

\* Every variable of the queue keeps its type; in particular no index leaves
\* the buffer.
THEOREM TypeCorrect == Spec => []TypeOK
<1>1. IndInv => TypeOK
  BY DEF IndInv
<1> QED
  BY <1>1, Invariance, PTL

\* push never writes, and pop never reads, a slot the other thread may be
\* accessing: its last access happens-before this one.
THEOREM RaceFree == Spec => []NoDataRace
<1>1. ASSUME IndInv PROVE NoDataRace
  <2>1. ASSUME ppc = "write" PROVE lastRead[TailIdx] <= readsHB
    <3> DEFINE r == lastRead[TailIdx]
    <3>1. /\ r \in Nat /\ r <= Reads
          /\ r > 0 => Masked(r - 1) = Masked(Len(accepted))
      BY <1>1, Positions DEF IndInv, TypeOK, Ordinals
    <3>2. Reads <= tailSeen - 1
      BY <1>1, Positions, SMT DEF IndInv, Avail, Reads
    <3>3. CASE r = 0
      BY <1>1, <3>3 DEF IndInv, TypeOK
    <3>4. CASE r > 0
      <4>1. r - 1 \in Nat /\ r - 1 < Len(accepted)
        BY <1>1, <3>1, <3>2, <3>4, Positions, SMT DEF Reads
      <4>2. r - 1 + Capacity <= Len(accepted)
        BY <1>1, <3>1, <3>4, <4>1, MaskedGap, Positions
      <4>3. Len(accepted) < headSeen - 1 + (Capacity - 1)
        BY <1>1, <2>1 DEF IndInv, Room
      <4>4. r <= headSeen - 1
        BY <1>1, <3>1, <4>2, <4>3, Positions, CapacityFacts, SMT
      <4> QED
        BY <1>1, <4>4 DEF IndInv, ProducerView
    <3> QED
      BY <3>1, <3>3, <3>4, SMT
  <2>2. ASSUME cpc = "read" PROVE lastWrite[HeadIdx] <= writesHB
    <3> DEFINE w == lastWrite[HeadIdx]
    <3>1. /\ w \in Nat /\ w <= Writes
          /\ w > 0 => Masked(w - 1) = Masked(Len(returned))
      BY <1>1, Positions DEF IndInv, TypeOK, Ordinals
    <3>2. Writes <= Len(returned) + (Capacity - 1)
      BY <1>1, Positions, CapacityFacts, SMT DEF IndInv, Room, Writes
    <3>3. Len(returned) < tailSeen - 1
      BY <1>1, <2>2 DEF IndInv, Avail
    <3>4. CASE w <= Len(returned) + 1
      BY <1>1, <3>1, <3>3, <3>4, Positions, SMT DEF IndInv, ConsumerView
    <3>5. CASE w > Len(returned) + 1
      <4>1. w - 1 \in Nat /\ Len(returned) < w - 1
        BY <1>1, <3>1, <3>5, Positions, SMT
      <4>2. Len(returned) + Capacity <= w - 1
        BY <1>1, <3>1, <4>1, MaskedGap, Positions, SMT
      <4> QED
        BY <1>1, <3>1, <3>2, <4>2, Positions, CapacityFacts, SMT DEF Writes
    <3> QED
      BY <1>1, <3>1, <3>4, <3>5, Positions, SMT
  <2> QED
    BY <2>1, <2>2 DEF NoDataRace
<1> QED
  BY <1>1, Invariance, PTL

\* A push that returns false met a full queue, and a pop that returns false
\* had returned every item it could see.
THEOREM HonestRefusals == Spec => RefusalsAreHonest
<1> DEFINE Honest ==
      /\ (ppc = "refresh" /\ ppc' = "idle") =>
            Len(accepted) - (headSeen' - 1) = Capacity - 1
      /\ (cpc = "refresh" /\ cpc' = "idle") =>
            Len(returned) = tailSeen' - 1
<1>1. ASSUME IndInv, IndInv', [Next]_vars PROVE Honest
  <2>1. ASSUME NEW k \in headSeen..Len(head_), PushRefresh(k) PROVE Honest
    <3>1. ASSUME ppc' = "idle"
          PROVE  Len(accepted) - (headSeen' - 1) = Capacity - 1
      <4>1. /\ headSeen' = k /\ NextTail = head_[k].idx /\ accepted' = accepted
        BY <2>1, <3>1 DEF PushRefresh
      <4>2. head_[k] = Entry(k) /\ k - 1 \in Nat /\ k - 1 <= Len(accepted)
        BY <1>1, Positions, SMT DEF IndInv, HistoryShape, ProducerView
      <4>3. Masked(Len(accepted) + 1) = Masked(k - 1)
        BY <1>1, <4>1, <4>2, Positions DEF Entry
      <4>4. Len(accepted) <= k - 1 + (Capacity - 1)
        BY <1>1, <4>1 DEF IndInv, Room
      <4>5. Len(accepted) = k - 1 + (Capacity - 1)
        BY <1>1, <4>2, <4>3, <4>4, FullCheck, Positions
      <4> QED
        BY <4>1, <4>2, <4>5, CapacityFacts, SMT
    <3>2. cpc' = cpc
      BY <2>1 DEF PushRefresh, consumerVars
    <3> QED
      BY <3>1, <3>2
  <2>2. ASSUME NEW k \in tailSeen..Len(tail_), PopRefresh(k) PROVE Honest
    <3>1. ASSUME cpc' = "idle"
          PROVE  Len(returned) = tailSeen' - 1
      <4>1. tailSeen' = k /\ HeadIdx = tail_[k].idx
        BY <2>2, <3>1 DEF PopRefresh
      <4>2. /\ tail_[k] = Entry(k) /\ k - 1 \in Nat
            /\ Len(returned) <= k - 1 /\ k - 1 <= Len(accepted)
        BY <1>1, Positions, SMT DEF IndInv, HistoryShape, ConsumerView
      <4>3. Masked(Len(returned)) = Masked(k - 1)
        BY <1>1, <4>1, <4>2, Positions DEF Entry
      <4>4. Len(accepted) <= Len(returned) + (Capacity - 1)
        BY <1>1, Positions, CapacityFacts, SMT DEF IndInv, Room
      <4>5. k - 1 <= Len(returned) + (Capacity - 1)
        BY <1>1, <4>2, <4>4, Positions, CapacityFacts, SMT
      <4> QED
        BY <1>1, <4>1, <4>2, <4>3, <4>5, EmptyCheck, Positions
    <3>2. ppc' = ppc
      BY <2>2 DEF PopRefresh, producerVars
    <3> QED
      BY <3>1, <3>2
  <2>3. CASE \/ \E v \in Items : PushBegin(v)
             \/ PushWrite \/ PushPublish \/ PopBegin \/ PopRead \/ PopRelease
             \/ UNCHANGED vars
    BY <2>3 DEF PushBegin, PushWrite, PushPublish, PopBegin, PopRead, PopRelease,
       producerVars, consumerVars, vars
  <2> QED
    BY <1>1, <2>1, <2>2, <2>3 DEF Next, Producer, Consumer
<1>2. IndInv /\ IndInv' /\ [Next]_vars => [Honest]_vars
  BY <1>1
<1> QED
  BY <1>2, Invariance, PTL DEF Spec, RefusalsAreHonest

\* The queue implements the abstract FIFO of Capacity - 1 items: publishing
\* the new tail_ is Put, publishing the new head_ is Take, and every other
\* step of the two threads changes nothing a caller can see.
THEOREM Refinement == Spec => ImplementsFifo
<1>1. Init => Abstract!Init
  BY DEF Init, Abstract!Init
<1>2. ASSUME IndInv, [Next]_vars PROVE [Abstract!Next]_(Abstract!vars)
  <2>1. CASE PushPublish
    <3>1. /\ item \in Items /\ accepted' = Append(accepted, item)
          /\ returned' = returned
      BY <1>2, <2>1 DEF IndInv, TypeOK, PushPublish, consumerVars
    <3>2. Len(accepted) + 1 - Len(returned) \in 0..(Capacity - 1)
      BY <1>2, <2>1, Positions, CapacityFacts, SMT DEF IndInv, Room, PushPublish
    <3> QED
      BY <3>1, <3>2 DEF Abstract!Next, Abstract!Put
  <2>2. CASE PopRelease
    <3>1. Len(returned) < Len(accepted)
      BY <1>2, <2>2, NextReturned, Positions, SMT
    <3>2. /\ returned' = Append(returned, accepted[Len(returned) + 1])
          /\ accepted' = accepted
      BY <1>2, <2>2, NextReturned DEF PopRelease, producerVars
    <3> QED
      BY <3>1, <3>2 DEF Abstract!Next, Abstract!Take
  <2>3. CASE \/ \E v \in Items : PushBegin(v)
             \/ \E k \in headSeen..Len(head_) : PushRefresh(k)
             \/ PushWrite \/ PopBegin
             \/ \E k \in tailSeen..Len(tail_) : PopRefresh(k)
             \/ PopRead
             \/ UNCHANGED vars
    <3>1. accepted' = accepted /\ returned' = returned
      BY <2>3 DEF PushBegin, PushRefresh, PushWrite, PopBegin, PopRefresh, PopRead,
         producerVars, consumerVars, vars
    <3> QED
      BY <3>1 DEF Abstract!vars
  <2> QED
    BY <1>2, <2>1, <2>2, <2>3 DEF Next, Producer, Consumer
<1> QED
  BY <1>1, <1>2, Invariance, PTL DEF Spec, ImplementsFifo, Abstract!Spec

LEMMA SizeBetween ==
    ASSUME NEW t \in Nat, NEW h \in Nat, h <= t, t <= h + (Capacity - 1)
    PROVE  size_approx(Masked(t), Masked(h)) = t - h
<1>1. t < h + Capacity
  BY CapacityFacts, SMT
<1> QED
  BY <1>1, CapacityFacts, ModDistance DEF size_approx, Masked

\* size_approx() called by the producer never underestimates, and called by
\* the consumer never overestimates, the number of items in the queue.
THEOREM SizeSided == Spec => []SizeEstimateIsSided
<1>1. ASSUME IndInv PROVE SizeEstimateIsSided
  <2> DEFINE a == Len(accepted)
             r == Len(returned)
  <2>1. a \in Nat /\ r \in Nat /\ a <= r + (Capacity - 1)
    BY <1>1, Positions, CapacityFacts, SMT DEF IndInv, Room
  <2>2. ASSUME NEW k \in headSeen..Len(head_)
        PROVE  size_approx(TailIdx, head_[k].idx) >= a - r
    <3>1. /\ k - 1 \in Nat /\ k - 1 <= r /\ r <= a /\ head_[k].idx = Masked(k - 1)
      BY <1>1, Positions, SMT DEF IndInv, HistoryShape, ProducerView, Entry
    <3>2. a <= k - 1 + (Capacity - 1)
      <4>1. a <= headSeen - 1 + (Capacity - 1) /\ headSeen - 1 <= k - 1
        BY <1>1, Positions, SMT DEF IndInv, Room, ProducerView, HistoryShape
      <4> QED
        BY <1>1, <2>1, <3>1, <4>1, Positions, CapacityFacts, SMT
    <3>3. size_approx(Masked(a), Masked(k - 1)) = a - (k - 1)
      BY <2>1, <3>1, <3>2, SizeBetween, SMT
    <3> QED
      BY <1>1, <2>1, <3>1, <3>3, Positions, SMT
  <2>3. ASSUME NEW k \in tailSeen..Len(tail_)
        PROVE  size_approx(tail_[k].idx, HeadIdx) <= a - r
    <3>1. /\ k - 1 \in Nat /\ r <= k - 1 /\ k - 1 <= a /\ tail_[k].idx = Masked(k - 1)
      BY <1>1, Positions, SMT DEF IndInv, HistoryShape, ConsumerView, Entry
    <3>2. k - 1 <= r + (Capacity - 1)
      BY <2>1, <3>1, CapacityFacts, SMT
    <3>3. size_approx(Masked(k - 1), Masked(r)) = k - 1 - r
      BY <2>1, <3>1, <3>2, SizeBetween, SMT
    <3> QED
      BY <1>1, <2>1, <3>1, <3>3, Positions, SMT
  <2> QED
    BY <2>2, <2>3 DEF SizeEstimateIsSided
<1> QED
  BY <1>1, Invariance, PTL
=============================================================================
