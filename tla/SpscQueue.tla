----------------------------- MODULE SpscQueue -----------------------------
(***************************************************************************)
(* SpscQueue<T> (utils/queues/SpscQueue.hpp): the lock-free ring that      *)
(* carries commands to the scheduler and audio blocks to the callback.     *)
(* One producer thread, one consumer thread, two atomic counters that      *)
(* wrap, and a physical slot position private to each side.                *)
(*                                                                         *)
(* Every access to an atomic or to a slot is a step of its own.  A load of *)
(* the other side's counter may return any value between the last one this *)
(* thread saw and the newest (C++ coherence): an acquire load need not be  *)
(* up to date.  While the producer runs the fill callback its slot holds   *)
(* Torn, so that a consumer overlapping with it would be seen to.          *)
(***************************************************************************)
EXTENDS Naturals, Sequences

CONSTANTS
    Capacity,   \* number of slots
    Modulus,    \* 2 ^ (width of std::size_t): the counters wrap here
    Value,      \* what the queue carries
    Torn,       \* content of a slot that is being filled
    NoValue     \* content of a slot never filled

ASSUME CapacityAssumption ==
    /\ Capacity \in Nat \ {0}
    /\ Modulus \in Nat
    /\ Capacity < Modulus
ASSUME ValueAssumption == Torn \notin Value /\ NoValue \notin Value

VARIABLES
    write,      \* _write
    read,       \* _read
    writeSlot,  \* _writeSlot, producer only
    readSlot,   \* _readSlot, consumer only
    data,       \* _data
    producer,   \* where the producer is in pushWith
    pushing,    \* the value its fill callback writes
    readSeen,   \* the newest _read the producer has loaded
    consumer,   \* where the consumer is between front and pop
    writeSeen,  \* the newest _write the consumer has loaded
    copied      \* the last value the consumer copied from the front

producerVars == <<write, writeSlot, data, producer, pushing, readSeen>>
consumerVars == <<read, readSlot, consumer, writeSeen, copied>>
vars == <<producerVars, consumerVars>>

Counter == 0 .. Modulus - 1
Slot == 0 .. Capacity - 1
Content == Value \cup {Torn, NoValue}

(***************************************************************************)
(* Unsigned arithmetic on the counters, and the position in the ring.      *)
(***************************************************************************)
Increment(c) == IF c + 1 = Modulus THEN 0 ELSE c + 1
Difference(w, r) == IF w >= r THEN w - r ELSE w + Modulus - r

\* Fault: room is judged as if one slot more existed.
isFullOneLate(w, r) == Difference(w, r) > Capacity
isFull(w, r) == Difference(w, r) = Capacity

isEmpty(w, r) == w = r

\* Faults: the position wraps one slot late, or early.
nextSlotLate(s) == IF s = Capacity THEN 0 ELSE s + 1
nextSlotEarly(s) == IF s + 2 >= Capacity THEN 0 ELSE s + 1
nextSlot(s) == IF s + 1 = Capacity THEN 0 ELSE s + 1

\* The values a load may return to a thread that last saw `seen` in a counter
\* that holds `newest`.
Loadable(seen, newest) ==
    {c \in Counter : Difference(c, seen) <= Difference(newest, seen)}

-----------------------------------------------------------------------------
Init ==
    /\ write = 0 /\ read = 0
    /\ writeSlot = 0 /\ readSlot = 0
    /\ data = [s \in Slot |-> NoValue]
    /\ producer = "idle" /\ pushing = NoValue /\ readSeen = 0
    /\ consumer = "idle" /\ writeSeen = 0 /\ copied = NoValue

(***************************************************************************)
(* The producer: pushWith.                                                 *)
(***************************************************************************)
\* pushWith finds the queue full, by a possibly old _read: it returns false.
RefusePush ==
    /\ producer = "idle"
    /\ \E r \in Loadable(readSeen, read) : isFull(write, r) /\ readSeen' = r
    /\ UNCHANGED <<write, writeSlot, data, producer, pushing, consumerVars>>

\* pushWith finds room and enters the fill callback.
BeginPush(v) ==
    /\ producer = "idle"
    /\ \E r \in Loadable(readSeen, read) : ~isFull(write, r) /\ readSeen' = r
    /\ producer' = "fill"
    /\ pushing' = v
    /\ data' = [data EXCEPT ![writeSlot] = Torn]
    /\ UNCHANGED <<write, writeSlot, consumerVars>>

\* The fill callback returns and _writeSlot advances.
FinishFill ==
    /\ producer = "fill"
    /\ data' = [data EXCEPT ![writeSlot] = pushing]
    /\ writeSlot' = nextSlot(writeSlot)
    /\ producer' = "publish"
    /\ UNCHANGED <<write, pushing, readSeen, consumerVars>>

\* _write.store(write + 1, release): the item becomes visible.
Publish ==
    /\ producer = "publish"
    /\ write' = Increment(write)
    /\ producer' = "idle"
    /\ UNCHANGED <<writeSlot, data, pushing, readSeen, consumerVars>>

(***************************************************************************)
(* The consumer: front, the copy out of the front item, pop.  isEmpty() is *)
(* the same load as front().                                               *)
(***************************************************************************)
FrontEmpty ==
    /\ consumer = "idle"
    /\ \E w \in Loadable(writeSeen, write) : isEmpty(w, read) /\ writeSeen' = w
    /\ UNCHANGED <<read, readSlot, consumer, copied, producerVars>>

Front ==
    /\ consumer = "idle"
    /\ \E w \in Loadable(writeSeen, write) : ~isEmpty(w, read) /\ writeSeen' = w
    /\ consumer' = "hold"
    /\ UNCHANGED <<read, readSlot, copied, producerVars>>

\* The consumer reads the item front() returned.
CopyFront ==
    /\ consumer = "hold"
    /\ copied' = data[readSlot]
    /\ UNCHANGED <<read, readSlot, consumer, writeSeen, producerVars>>

\* The consumer leaves the item in the queue (a callback that finds playback
\* paused, a block of a later position).
KeepFront ==
    /\ consumer = "hold"
    /\ consumer' = "idle"
    /\ UNCHANGED <<read, readSlot, writeSeen, copied, producerVars>>

\* pop() loads _write again; it returns false on an empty queue.
PopEmpty ==
    /\ consumer \in {"idle", "hold"}
    /\ \E w \in Loadable(writeSeen, write) : isEmpty(w, read) /\ writeSeen' = w
    /\ consumer' = "idle"
    /\ UNCHANGED <<read, readSlot, copied, producerVars>>

\* Fault: the slot is given back while the consumer still holds it.
BeginPopReleasing ==
    /\ consumer \in {"idle", "hold"}
    /\ \E w \in Loadable(writeSeen, write) : ~isEmpty(w, read) /\ writeSeen' = w
    /\ read' = Increment(read)
    /\ consumer' = "hold"
    /\ UNCHANGED <<readSlot, copied, producerVars>>

BeginPop ==
    /\ consumer \in {"idle", "hold"}
    /\ \E w \in Loadable(writeSeen, write) : ~isEmpty(w, read) /\ writeSeen' = w
    /\ readSlot' = nextSlot(readSlot)
    /\ consumer' = "release"
    /\ UNCHANGED <<read, copied, producerVars>>

\* _read.store(read + 1, release): the slot belongs to the producer again.
Release ==
    /\ consumer = "release"
    /\ read' = Increment(read)
    /\ consumer' = "idle"
    /\ UNCHANGED <<readSlot, writeSeen, copied, producerVars>>

\* reset(), legal only while neither thread is inside the queue.  Both threads
\* are started after it, which is why they see the zeroes.
Reset ==
    /\ producer = "idle" /\ consumer = "idle"
    /\ write' = 0 /\ read' = 0
    /\ writeSlot' = 0 /\ readSlot' = 0
    /\ readSeen' = 0 /\ writeSeen' = 0
    /\ UNCHANGED <<data, producer, pushing, consumer, copied>>

Produce == RefusePush \/ (\E v \in Value : BeginPush(v)) \/ FinishFill \/ Publish
Consume == FrontEmpty \/ Front \/ CopyFront \/ KeepFront \/ PopEmpty
           \/ BeginPop \/ Release
Next == Produce \/ Consume \/ Reset

Spec == Init /\ [][Next]_vars

-----------------------------------------------------------------------------
(***************************************************************************)
(* Properties.                                                             *)
(***************************************************************************)
\* Every variable stays in its type.
TypeOK ==
    /\ write \in Counter /\ read \in Counter
    /\ writeSlot \in Slot /\ readSlot \in Slot
    /\ data \in [Slot -> Content]
    /\ producer \in {"idle", "fill", "publish"}
    /\ pushing \in Value \cup {NoValue}
    /\ readSeen \in Counter
    /\ consumer \in {"idle", "hold", "release"}
    /\ writeSeen \in Counter
    /\ copied \in Content

\* pushWith's callback never writes the slot the consumer holds a pointer to,
\* although each side judges by an old value of the other's counter and the
\* counters wrap: "Valid until pop() is called by the consumer".
NoSlotOverlap ==
    producer = "fill" /\ consumer = "hold" => writeSlot # readSlot

\* A pop() after a successful front() cannot fail: its callers (processBlock,
\* readCommands) ignore its result, and would handle an item twice.
PopAfterFrontSucceeds ==
    consumer = "hold" =>
        \A w \in Loadable(writeSeen, write) : ~isEmpty(w, read)

(***************************************************************************)
(* The refinement: the items are those between the two positions, less the *)
(* one pop() is giving back.                                               *)
(***************************************************************************)
slotAfter(s, k) == IF s + k >= Capacity THEN s + k - Capacity ELSE s + k
Releasing == IF consumer = "release" THEN 1 ELSE 0
Queued == Difference(write, read) - Releasing
Items == [i \in 1 .. Queued |-> data[slotAfter(readSlot, i - 1)]]

Fifo == INSTANCE BoundedFifo WITH items <- Items

\* The ring is a bounded FIFO: what the consumer copies is always the oldest
\* complete item, each item is removed once, and none is lost or overwritten.
ImplementsFifo == Fifo!Spec

=============================================================================
