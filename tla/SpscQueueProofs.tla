-------------------------- MODULE SpscQueueProofs --------------------------
(***************************************************************************)
(* Proofs about SpscQueue for every capacity, counter width and value set. *)
(*                                                                         *)
(* TypeOK and NoSlotOverlap are not inductive alone: they follow from how  *)
(* the two private positions, the two counters and the two remembered      *)
(* loads are ordered, which is IInv.                                       *)
(***************************************************************************)
EXTENDS SpscQueue, TLAPS

\* The slot being filled is not yet counted in write but already spoken for.
Claimed == IF producer \in {"fill", "publish"} THEN 1 ELSE 0

\* Its position has advanced already once the fill callback has returned.
Filled == IF producer = "publish" THEN 1 ELSE 0

\* Never more items than slots, the one being filled included.
WithinCapacity == Difference(write, read) + Claimed <= Capacity

\* The producer's position is the consumer's plus the items between them.
PositionsAgree ==
    writeSlot = slotAfter(readSlot, Difference(write, read) + Filled - Releasing)

\* A remembered counter lies between the other side's counter and its newest
\* value: an old value is a safe one.
WriteSeenBetween ==
    Difference(write, writeSeen) + Difference(writeSeen, read)
        = Difference(write, read)
ReadSeenBehind ==
    /\ Difference(read, readSeen) + Difference(write, read)
           = Difference(write, readSeen)
    /\ Difference(write, readSeen) + Claimed <= Capacity

\* The consumer holds or gives back an item only when it has seen one.
HoldsAnItem == consumer \in {"hold", "release"} => ~isEmpty(writeSeen, read)

IInv ==
    /\ TypeOK
    /\ WithinCapacity
    /\ PositionsAgree
    /\ WriteSeenBetween
    /\ ReadSeenBehind
    /\ HoldsAnItem

USE CapacityAssumption

\* Initially the counters and positions are all zero.
LEMMA InitIInv == Init => IInv
  BY DEF Init, IInv, TypeOK, WithinCapacity, PositionsAgree, WriteSeenBetween,
         ReadSeenBehind, HoldsAnItem, Claimed, Filled, Releasing, Difference,
         slotAfter, isEmpty, Counter, Slot, Content

\* Every step of either thread, and reset(), keeps the invariant.
LEMMA NextIInv == IInv /\ [Next]_vars => IInv'
<1> SUFFICES ASSUME IInv, [Next]_vars PROVE IInv'
  OBVIOUS
<1> USE DEF IInv, TypeOK, WithinCapacity, PositionsAgree, WriteSeenBetween,
        ReadSeenBehind, HoldsAnItem, Claimed, Filled, Releasing, Difference,
        slotAfter, isEmpty, Counter, Slot, Content
<1>1. CASE RefusePush
  BY <1>1 DEF RefusePush, Loadable, isFull, consumerVars
<1>2. ASSUME NEW v \in Value, BeginPush(v) PROVE IInv'
  BY <1>2 DEF BeginPush, Loadable, isFull, consumerVars
<1>3. CASE FinishFill
  BY <1>3 DEF FinishFill, nextSlot, consumerVars
<1>4. CASE Publish
  BY <1>4 DEF Publish, Increment, consumerVars
<1>5. CASE FrontEmpty
  BY <1>5 DEF FrontEmpty, Loadable, producerVars
<1>6. CASE Front
  BY <1>6 DEF Front, Loadable, producerVars
<1>7. CASE CopyFront
  BY <1>7 DEF CopyFront, producerVars
<1>8. CASE KeepFront
  BY <1>8 DEF KeepFront, producerVars
<1>9. CASE PopEmpty
  BY <1>9 DEF PopEmpty, Loadable, producerVars
<1>10. CASE BeginPop
  BY <1>10 DEF BeginPop, Loadable, nextSlot, producerVars
<1>11. CASE Release
  BY <1>11 DEF Release, Increment, producerVars
<1>12. CASE Reset
  BY <1>12 DEF Reset
<1>13. CASE UNCHANGED vars
  BY <1>13 DEF vars, producerVars, consumerVars
<1>14. QED
  BY <1>1, <1>2, <1>3, <1>4, <1>5, <1>6, <1>7, <1>8, <1>9, <1>10, <1>11,
     <1>12, <1>13 DEF Next, Produce, Consume

\* The ordering invariant holds throughout every run.
THEOREM OrderInvariant == Spec => []IInv
  BY InitIInv, NextIInv, PTL DEF Spec

\* Every variable stays in its type, for every capacity and counter width.
THEOREM TypeCorrect == Spec => []TypeOK
<1>1. IInv => TypeOK
  BY DEF IInv
<1>2. QED
  BY <1>1, OrderInvariant, PTL

\* The fill callback never writes the slot the consumer holds.
THEOREM SlotsDisjoint == Spec => []NoSlotOverlap
<1>1. IInv => NoSlotOverlap
  BY DEF IInv, TypeOK, WithinCapacity, PositionsAgree, WriteSeenBetween,
         HoldsAnItem, NoSlotOverlap, Claimed, Filled, Releasing, Difference,
         slotAfter, isEmpty, Counter, Slot
<1>2. QED
  BY <1>1, OrderInvariant, PTL

\* A pop() after a successful front() cannot fail.
THEOREM PopSucceeds == Spec => []PopAfterFrontSucceeds
<1>1. IInv => PopAfterFrontSucceeds
  BY DEF IInv, TypeOK, WriteSeenBetween, HoldsAnItem, PopAfterFrontSucceeds,
         Loadable, Difference, isEmpty, Counter
<1>2. QED
  BY <1>1, OrderInvariant, PTL

-----------------------------------------------------------------------------
(***************************************************************************)
(* The ring implements a bounded FIFO.  Besides the ordering one more fact *)
(* is needed: between the fill callback and the store of _write, the slot  *)
(* after the queued items holds the value being pushed.                    *)
(***************************************************************************)
PushInFlight ==
    /\ producer # "idle" => pushing \in Value
    /\ producer = "publish" => data[slotAfter(readSlot, Queued)] = pushing

RInv == IInv /\ PushInFlight

LEMMA InitRInv == Init => RInv
  BY InitIInv DEF RInv, PushInFlight, Init

LEMMA NextRInv == RInv /\ [Next]_vars => RInv'
<1> SUFFICES ASSUME RInv, [Next]_vars PROVE PushInFlight'
  BY NextIInv DEF RInv
<1> USE DEF RInv, IInv, TypeOK, PositionsAgree, WithinCapacity, PushInFlight,
        WriteSeenBetween, HoldsAnItem,
        Queued, Claimed, Filled, Releasing, Difference, slotAfter, isEmpty,
        Counter, Slot, Content
<1>1. CASE RefusePush
  BY <1>1 DEF RefusePush, consumerVars
<1>2. ASSUME NEW v \in Value, BeginPush(v) PROVE PushInFlight'
  BY <1>2 DEF BeginPush, consumerVars
<1>3. CASE FinishFill
  BY <1>3 DEF FinishFill, consumerVars
<1>4. CASE Publish
  BY <1>4 DEF Publish, consumerVars
<1>5. CASE FrontEmpty \/ Front \/ CopyFront \/ KeepFront \/ PopEmpty
  BY <1>5 DEF FrontEmpty, Front, CopyFront, KeepFront, PopEmpty, producerVars
<1>6. CASE BeginPop
  BY <1>6 DEF BeginPop, Loadable, nextSlot, producerVars
<1>7. CASE Release
  BY <1>7 DEF Release, Increment, producerVars
<1>8. CASE Reset
  BY <1>8 DEF Reset
<1>9. CASE UNCHANGED vars
  BY <1>9 DEF vars, producerVars, consumerVars
<1>10. QED
  BY <1>1, <1>2, <1>3, <1>4, <1>5, <1>6, <1>7, <1>8, <1>9
     DEF Next, Produce, Consume

\* The queue starts as the empty FIFO.
LEMMA InitRefines == Init => Fifo!Init
<1> SUFFICES ASSUME Init PROVE Items = <<>> /\ copied = NoValue
  BY DEF Fifo!Init
<1>1. Queued = 0
  BY DEF Init, Queued, Releasing, Difference
<1>2. QED
  BY <1>1 DEF Init, Items

\* The items are a sequence, and as many as Queued.
ItemsTyped == Queued \in Nat /\ Items \in Seq(Content) /\ Len(Items) = Queued

LEMMA ItemsAreTyped == IInv => ItemsTyped
<1> SUFFICES ASSUME IInv PROVE ItemsTyped
  OBVIOUS
<1>1. Queued \in Nat
  BY DEF IInv, TypeOK, HoldsAnItem, WriteSeenBetween, Queued, Releasing,
         Difference, isEmpty, Counter
<1>2. \A i \in 1 .. Queued : slotAfter(readSlot, i - 1) \in Slot
  BY <1>1 DEF IInv, TypeOK, WithinCapacity, Claimed, Queued, Releasing,
              Difference, slotAfter, Counter, Slot
<1>3. \A i \in 1 .. Queued : data[slotAfter(readSlot, i - 1)] \in Content
  BY <1>2 DEF IInv, TypeOK
<1>4. QED
  BY <1>1, <1>3 DEF Items, ItemsTyped

\* Every step of the ring is a step of the FIFO, or leaves it unchanged.
LEMMA NextRefines == RInv /\ RInv' /\ [Next]_vars => [Fifo!Next]_(Fifo!vars)
<1> SUFFICES ASSUME RInv, RInv', [Next]_vars PROVE [Fifo!Next]_(Fifo!vars)
  OBVIOUS
<1> USE DEF RInv
<1>s. /\ Queued \in Nat /\ Items \in Seq(Content) /\ Len(Items) = Queued
      /\ Queued' \in Nat /\ Items' \in Seq(Content) /\ Len(Items') = Queued'
  <2>1. ItemsTyped
    BY ItemsAreTyped
  <2>2. ItemsTyped'
    <3>1. IInv' => ItemsTyped'
      BY ItemsAreTyped, PTL
    <3>2. QED
      BY <3>1
  <2>3. QED
    BY <2>1, <2>2 DEF ItemsTyped
<1>1. CASE RefusePush \/ FrontEmpty \/ Front \/ KeepFront \/ PopEmpty
  <2>1. Queued' = Queued /\ Items' = Items /\ copied' = copied
    BY <1>1 DEF RefusePush, FrontEmpty, Front, KeepFront, PopEmpty,
                consumerVars, producerVars, Items, Queued, Releasing
  <2>2. QED
    BY <2>1 DEF Fifo!vars
<1>2. ASSUME NEW v \in Value, BeginPush(v) PROVE UNCHANGED Fifo!vars
  <2>1. Queued' = Queued /\ readSlot' = readSlot /\ copied' = copied
    BY <1>2 DEF BeginPush, consumerVars, Queued, Releasing
  <2>2. Difference(write, read) < Capacity
    BY <1>2 DEF BeginPush, Loadable, isFull, consumerVars, IInv, TypeOK,
                WithinCapacity, ReadSeenBehind, Claimed, Difference, Counter
  <2>3. \A i \in 1 .. Queued : /\ slotAfter(readSlot, i - 1) # writeSlot
                               /\ slotAfter(readSlot, i - 1) \in Slot
    BY <1>2, <2>2 DEF BeginPush, IInv, TypeOK, PositionsAgree, Filled, Claimed,
                Queued, Releasing, Difference, slotAfter, Counter, Slot
  <2>4. \A i \in 1 .. Queued : data'[slotAfter(readSlot, i - 1)]
                                = data[slotAfter(readSlot, i - 1)]
    BY <1>2, <2>3 DEF BeginPush, IInv, TypeOK
  <2>5. Items' = Items
    BY <2>1, <2>4 DEF Items, slotAfter
  <2>6. QED
    BY <2>1, <2>5 DEF Fifo!vars
<1>3. CASE FinishFill
  <2>1. Queued' = Queued /\ readSlot' = readSlot /\ copied' = copied
    BY <1>3 DEF FinishFill, consumerVars, Queued, Releasing
  <2>2. \A i \in 1 .. Queued : /\ slotAfter(readSlot, i - 1) # writeSlot
                               /\ slotAfter(readSlot, i - 1) \in Slot
    BY <1>3 DEF FinishFill, IInv, TypeOK, PositionsAgree, WithinCapacity,
                Filled, Claimed, Queued, Releasing, Difference, slotAfter,
                Counter, Slot
  <2>3. \A i \in 1 .. Queued : data'[slotAfter(readSlot, i - 1)]
                                = data[slotAfter(readSlot, i - 1)]
    BY <1>3, <2>2 DEF FinishFill, IInv, TypeOK
  <2>4. Items' = Items
    BY <2>1, <2>3 DEF Items, slotAfter
  <2>5. QED
    BY <2>1, <2>4 DEF Fifo!vars
<1>4. CASE Publish
  <2>1. /\ Queued' = Queued + 1 /\ Queued < Capacity
        /\ readSlot' = readSlot /\ data' = data /\ copied' = copied
    BY <1>4 DEF Publish, consumerVars, IInv, TypeOK, WithinCapacity, Claimed,
                Queued, Releasing, Difference, Increment, Counter
  <2>2. data[slotAfter(readSlot, Queued)] = pushing /\ pushing \in Value
    BY <1>4 DEF Publish, PushInFlight
  <2>3. Items' = Append(Items, pushing)
    BY <1>s, <2>1, <2>2 DEF Items, slotAfter
  <2>4. Fifo!Push(pushing)
    BY <1>s, <2>1, <2>3 DEF Fifo!Push
  <2>5. QED
    BY <2>2, <2>4 DEF Fifo!Next
<1>5. CASE CopyFront
  <2>1. Queued' = Queued /\ Items' = Items /\ Queued > 0
    BY <1>5 DEF CopyFront, producerVars, Items, Queued, Releasing, IInv, TypeOK,
                WriteSeenBetween, HoldsAnItem, Difference, isEmpty, Counter
  <2>2. slotAfter(readSlot, 0) = readSlot
    BY DEF slotAfter, IInv, TypeOK, Slot
  <2>3. Head(Items) = data[readSlot] /\ Items # <<>>
    BY <1>s, <2>1, <2>2 DEF Items
  <2>4. Fifo!CopyFront
    BY <1>5, <2>1, <2>3 DEF CopyFront, Fifo!CopyFront
  <2>5. QED
    BY <2>4 DEF Fifo!Next
<1>6. CASE BeginPop
  <2>1. /\ Queued' = Queued - 1 /\ Queued > 0 /\ Queued <= Capacity
        /\ data' = data /\ copied' = copied /\ readSlot' = nextSlot(readSlot)
    BY <1>6 DEF BeginPop, producerVars, Queued, Releasing, IInv, TypeOK,
                WithinCapacity, WriteSeenBetween, Claimed, Loadable,
                Difference, isEmpty, Counter
  <2>2. \A i \in 1 .. Queued' : slotAfter(readSlot', i - 1)
                                 = slotAfter(readSlot, i)
    BY <1>s, <2>1 DEF nextSlot, slotAfter, IInv, TypeOK, Slot
  <2>3. Items' = Tail(Items) /\ Items # <<>>
    BY <1>s, <2>1, <2>2 DEF Items
  <2>4. Fifo!Pop
    BY <2>1, <2>3 DEF Fifo!Pop
  <2>5. QED
    BY <2>4 DEF Fifo!Next
<1>7. CASE Release
  <2>1. Queued' = Queued
    BY <1>7 DEF Release, producerVars, Queued, Releasing, IInv, TypeOK,
                HoldsAnItem, WriteSeenBetween, Increment, Difference, isEmpty,
                Counter
  <2>2. Items' = Items /\ copied' = copied
    BY <1>7, <2>1 DEF Release, producerVars, Items
  <2>3. QED
    BY <2>2 DEF Fifo!vars
<1>8. CASE Reset
  <2>1. Queued' = 0 /\ copied' = copied
    BY <1>8 DEF Reset, Queued, Releasing, Difference
  <2>2. Items' = <<>>
    BY <2>1, <1>s
  <2>3. Fifo!Reset
    BY <2>1, <2>2 DEF Fifo!Reset
  <2>4. QED
    BY <2>3 DEF Fifo!Next
<1>9. CASE UNCHANGED vars
  BY <1>9 DEF vars, producerVars, consumerVars, Fifo!vars, Items, Queued,
              Releasing
<1>10. QED
  BY <1>1, <1>2, <1>3, <1>4, <1>5, <1>6, <1>7, <1>8, <1>9
     DEF Next, Produce, Consume

\* The ring implements a bounded FIFO for every capacity and counter width.
THEOREM Refinement == Spec => ImplementsFifo
  BY InitRInv, NextRInv, InitRefines, NextRefines, PTL
     DEF Spec, ImplementsFifo, Fifo!Spec

=============================================================================
