---------------------------- MODULE BoundedFifo ----------------------------
(***************************************************************************)
(* What SpscQueue<T> promises its two users: a bounded first-in first-out  *)
(* queue.  The producer appends while there is room, the consumer reads    *)
(* the oldest item as often as it likes and removes it when it is done,    *)
(* and reset() empties the queue between two uses.                         *)
(***************************************************************************)
EXTENDS Naturals, Sequences

CONSTANTS Capacity, Value, NoValue

VARIABLES
    items,      \* the queued values, oldest first
    copied      \* the last value the consumer copied out of the front

vars == <<items, copied>>

Init == items = <<>> /\ copied = NoValue

Push(v) ==
    /\ Len(items) < Capacity
    /\ items' = Append(items, v)
    /\ UNCHANGED copied

CopyFront ==
    /\ items # <<>>
    /\ copied' = Head(items)
    /\ UNCHANGED items

Pop ==
    /\ items # <<>>
    /\ items' = Tail(items)
    /\ UNCHANGED copied

Reset ==
    /\ items' = <<>>
    /\ UNCHANGED copied

Next ==
    \/ \E v \in Value : Push(v)
    \/ CopyFront
    \/ Pop
    \/ Reset

Spec == Init /\ [][Next]_vars

=============================================================================
