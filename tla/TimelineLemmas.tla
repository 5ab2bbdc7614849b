--------------------------- MODULE TimelineLemmas ---------------------------
(***************************************************************************)
(* Facts about the timeline arithmetic, for every timeline and block size. *)
(* They are where the proofs about the components meet division and        *)
(* remainder; the components' own proofs are linear.                       *)
(***************************************************************************)
EXTENDS Timeline, TLAPS

\* The frames at which an audio block may begin or end.
Aligned(f) == f % AudioBlockFrames = 0

LEMMA DivisionFacts ==
  ASSUME NEW B \in Nat \ {0}, NEW f \in Nat
  PROVE  /\ f = B * (f \div B) + (f % B)
         /\ f % B \in 0 .. B - 1
         /\ f \div B \in Nat
  BY SMT

\* Dividing by the same number keeps the order.
LEMMA DivisionMonotone ==
  ASSUME NEW B \in Nat \ {0}, NEW f \in Nat, NEW g \in Nat, f <= g
  PROVE  f \div B \in Nat /\ g \div B \in Nat /\ f \div B <= g \div B
<1> DEFINE p == f \div B
           q == g \div B
           below == B * p
           above == B * q
<1>1. /\ p \in Nat /\ f = below + (f % B) /\ f % B \in 0 .. B - 1
      /\ q \in Nat /\ g = above + (g % B) /\ g % B \in 0 .. B - 1
  BY DivisionFacts
<1> HIDE DEF p, q
<1>2. below \in Nat /\ above \in Nat
  BY <1>1
<1>3. ASSUME q < p PROVE above + B <= below
  <2>1. p - q - 1 \in Nat
    BY <1>1, <1>3
  <2>2. B * (p - q - 1) \in Nat
    BY <2>1
  <2>3. B * (p - q - 1) = below - above - B
    BY <1>1
  <2>4. QED
    BY <1>2, <2>2, <2>3
<1> HIDE DEF below, above
<1>4. ASSUME q < p PROVE FALSE
  BY <1>1, <1>2, <1>3, <1>4
<1>5. p <= q
  BY <1>1, <1>4
<1>6. QED
  BY <1>1, <1>5 DEF p, q

LEMMA MultipleAligned ==
  ASSUME NEW B \in Nat \ {0}, NEW k \in Nat PROVE (B * k) % B = 0
  BY SMT

\* One block on from a block boundary is a block boundary.
LEMMA NextAligned ==
  ASSUME NEW f \in Nat, Aligned(f)
  PROVE  Aligned(f + AudioBlockFrames)
<1> DEFINE B == AudioBlockFrames
           q == f \div B
<1>1. B \in Nat \ {0}
  BY TimelineAssumption
<1>2. f = B * q /\ q \in Nat
  BY <1>1, DivisionFacts DEF Aligned
<1>3. f + B = B * (q + 1) /\ q + 1 \in Nat
  BY <1>1, <1>2
<1>4. (B * (q + 1)) % B = 0
  BY <1>1, <1>3, MultipleAligned
<1>5. QED
  BY <1>3, <1>4 DEF Aligned

\* A block boundary before another one is a whole block before it.
LEMMA AlignedGap ==
  ASSUME NEW f \in Nat, NEW g \in Nat, Aligned(f), Aligned(g), f < g
  PROVE  f + AudioBlockFrames <= g
<1> DEFINE B == AudioBlockFrames
           q == f \div B
           t == g \div B
<1>1. B \in Nat \ {0}
  BY TimelineAssumption
<1>2. f = B * q /\ q \in Nat /\ g = B * t /\ t \in Nat
  BY <1>1, DivisionFacts DEF Aligned
<1> HIDE DEF q, t, B
<1>3. B * q < B * t => B * q + B <= B * t
  BY <1>1, <1>2
<1>4. QED
  BY <1>2, <1>3 DEF B

\* The callback's position never passes the end: a block that begins on the
\* timeline also ends on it.
LEMMA BlockFits ==
  ASSUME NEW f \in Frames, Aligned(f)
  PROVE  f + AudioBlockFrames \in Boundaries
<1>1. /\ TotalFrames \in Nat /\ Aligned(TotalFrames)
      /\ f \in Nat /\ f < TotalFrames /\ AudioBlockFrames \in Nat
  BY TimelineAssumption DEF Aligned, Frames
<1>2. f + AudioBlockFrames <= TotalFrames
  BY <1>1, AlignedGap
<1>3. QED
  BY <1>1, <1>2 DEF Boundaries

LEMMA ClampFacts ==
  ASSUME NEW f \in Int
  PROVE  /\ clampTimelineFrame(f) \in Frames
         /\ clampTimelineBoundary(f) \in Boundaries
         /\ f \in Boundaries => clampTimelineBoundary(f) = f
  BY TimelineAssumption
     DEF clampTimelineFrame, clampTimelineBoundary, Larger, Smaller, Frames,
         Boundaries

LEMMA AlignFacts ==
  ASSUME NEW f \in Boundaries
  PROVE  /\ alignFrameToAudioBlock(f) \in Boundaries
         /\ Aligned(alignFrameToAudioBlock(f))
         /\ alignFrameToAudioBlock(f) <= f
         /\ Aligned(f) => alignFrameToAudioBlock(f) = f
<1> DEFINE B == AudioBlockFrames
           q == f \div B
<1>1. B \in Nat \ {0} /\ f \in Nat /\ f <= TotalFrames /\ TotalFrames \in Nat
  BY TimelineAssumption DEF Boundaries
<1>2. f = B * q + (f % B) /\ q \in Nat /\ f % B \in 0 .. B - 1
  BY <1>1, DivisionFacts
<1>3. alignFrameToAudioBlock(f) = f - (f % B)
  BY DEF alignFrameToAudioBlock
<1>4. f - (f % B) = B * q
  BY <1>1, <1>2
<1>5. Aligned(alignFrameToAudioBlock(f))
  BY <1>1, <1>2, <1>3, <1>4, MultipleAligned DEF Aligned
<1>6. f - (f % B) \in 0 .. f
  BY <1>1, <1>2, <1>4
<1>7. QED
  BY <1>1, <1>3, <1>5, <1>6 DEF Aligned, Boundaries

\* A Seek lands on a block boundary of the timeline, whatever it names.
LEMMA SeekLands ==
  ASSUME NEW f \in Int
  PROVE  SeekTarget(f) \in Frames /\ Aligned(SeekTarget(f))
<1>1. clampTimelineFrame(f) \in Frames
  BY ClampFacts
<1>2. clampTimelineFrame(f) \in Boundaries
  BY <1>1, TimelineAssumption DEF Frames, Boundaries
<1>3. /\ SeekTarget(f) \in Boundaries /\ Aligned(SeekTarget(f))
      /\ SeekTarget(f) <= clampTimelineFrame(f)
  BY <1>2, AlignFacts DEF SeekTarget
<1>4. QED
  BY <1>1, <1>3, TimelineAssumption DEF Frames, Boundaries

\* The ends of the timeline are block boundaries.
LEMMA EndsAligned == Aligned(0) /\ Aligned(TotalFrames)
  BY TimelineAssumption DEF Aligned

=============================================================================
