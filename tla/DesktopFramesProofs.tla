-------------------------- MODULE DesktopFramesProofs --------------------------
(***************************************************************************)
(* What the arithmetic of DesktopFrames bounds, for every size, box,       *)
(* bitrate, estimate and position.                                         *)
(***************************************************************************)
EXTENDS DesktopFrames, TLAPS

-----------------------------------------------------------------------------
(* Sizes.                                                                  *)

\* Half of the integers are even, and Even finds the one below.
LEMMA EvenFacts ==
  ASSUME NEW n \in Nat
  PROVE  /\ Even(n) \in 0..n /\ Even(n) % 2 = 0
         /\ n >= 2 => Even(n) >= 2
         /\ n % 2 = 0 => Even(n) = n
BY DEF Even

\* A quotient of at most m.
LEMMA Quotient ==
  ASSUME NEW a \in Nat, NEW b \in Nat \ {0}, NEW m \in Nat, a <= m * b
  PROVE  a \div b \in 0..m
<1> DEFINE q == a \div b
<1>1. q \in Int /\ b * q <= a
  OBVIOUS
<1>2. q >= 0
  OBVIOUS
<1>3. ASSUME q >= m + 1 PROVE FALSE
  <2>1. b * q >= b * (m + 1)
    BY <1>1, <1>3
  <2>2. b * (m + 1) = m * b + b
    OBVIOUS
  <2> QED
    BY <1>1, <2>1, <2>2
<1> QED
  BY <1>1, <1>2, <1>3

\* A truncated quotient is no larger.
LEMMA TruncatedFacts ==
  ASSUME NEW a \in Nat, NEW b \in Nat \ {0}, NEW m \in Nat, a <= m * b,
         NEW d \in Truncated(a, b)
  PROVE  d \in 0..m
<1>1. a \div b \in 0..m
  BY Quotient
<1> DEFINE q == a \div b
<1>2. d = q \/ d = AtLeast(q - 1, 0)
  BY DEF Truncated
<1> HIDE DEF q
<1>3. q \in 0..m
  BY <1>1 DEF q
<1> QED
  BY <1>2, <1>3 DEF AtLeast

\* A frame that is scaled fits the box.
LEMMA DownscaleFits ==
  ASSUME NEW w \in Nat \ {0}, NEW h \in Nat \ {0},
         NEW mw \in Nat, NEW mh \in Nat, mw >= 2, mh >= 2,
         NEW sz \in downscale(<<w, h>>, <<mw, mh>>)
  PROVE  /\ sz = <<sz[1], sz[2]>> /\ sz[1] \in 0..mw /\ sz[2] \in 0..mh
         /\ w >= 2 => sz[1] >= 2
         /\ h >= 2 => sz[2] >= 2
<1>1. CASE w <= mw /\ h <= mh
  <2>1. sz = <<w, h>>
    BY <1>1 DEF downscale
  <2> QED
    BY <1>1, <2>1
<1>2. CASE ~(w <= mw /\ h <= mh)
  <2> DEFINE byWidth == mw * h <= mh * w
             num == IF byWidth THEN mw ELSE mh
             den == IF byWidth THEN w ELSE h
  <2>1. PICK dw \in Truncated(w * num, den), dh \in Truncated(h * num, den) :
          sz = <<AtLeast(Even(dw), 2), AtLeast(Even(dh), 2)>>
    BY <1>2 DEF downscale
  <2>2. num \in Nat /\ den \in Nat \ {0}
    OBVIOUS
  <2>3. w * num \in Nat /\ h * num \in Nat
    BY <2>2
  <2>4. w * num <= mw * den
    OBVIOUS
  <2>5. h * num <= mh * den
    OBVIOUS
  <2> HIDE DEF num, den
  <2>6. dw \in 0..mw
    BY <2>1, <2>2, <2>3, <2>4, TruncatedFacts
  <2>7. dh \in 0..mh
    BY <2>1, <2>2, <2>3, <2>5, TruncatedFacts
  <2>8. AtLeast(Even(dw), 2) \in 2..mw
    BY <2>6, EvenFacts DEF AtLeast
  <2>9. AtLeast(Even(dh), 2) \in 2..mh
    BY <2>7, EvenFacts DEF AtLeast
  <2> QED
    BY <2>1, <2>8, <2>9
<1> QED
  BY <1>1, <1>2

\* What is encoded has even sides and fits the box; it is empty on a side only
\* if the frame has a single pixel there (desktop.rs downscale, crop_to_even).
LEMMA EncodedFits ==
  ASSUME NEW w \in Nat \ {0}, NEW h \in Nat \ {0},
         NEW mw \in Nat, NEW mh \in Nat, mw >= 2, mh >= 2,
         NEW sz \in downscale(<<w, h>>, <<mw, mh>>),
         NEW c, c = crop_to_even(sz)
  PROVE  /\ c \in Nat \X Nat
         /\ c[1] <= mw /\ c[2] <= mh /\ c[1] % 2 = 0 /\ c[2] % 2 = 0
         /\ w >= 2 => c[1] >= 2
         /\ h >= 2 => c[2] >= 2
<1>1. /\ sz[1] \in 0..mw /\ sz[2] \in 0..mh
      /\ w >= 2 => sz[1] >= 2
      /\ h >= 2 => sz[2] >= 2
  BY DownscaleFits
<1>2. c = <<Even(sz[1]), Even(sz[2])>>
  BY DEF crop_to_even
<1>3. /\ Even(sz[1]) \in 0..sz[1] /\ Even(sz[1]) % 2 = 0
      /\ sz[1] >= 2 => Even(sz[1]) >= 2
  BY <1>1, EvenFacts
<1>4. /\ Even(sz[2]) \in 0..sz[2] /\ Even(sz[2]) % 2 = 0
      /\ sz[2] >= 2 => Even(sz[2]) >= 2
  BY <1>1, EvenFacts
<1>5. c[1] = Even(sz[1]) /\ c[2] = Even(sz[2])
  BY <1>2
<1>6. Even(sz[1]) \in 0..mw /\ Even(sz[2]) \in 0..mh
  BY <1>1, <1>3, <1>4
<1>7. c \in Nat \X Nat
  BY <1>2, <1>6
<1> QED
  BY <1>1, <1>3, <1>4, <1>5, <1>6, <1>7

-----------------------------------------------------------------------------
(* Bitrates and positions.                                                 *)

\* A bitrate that was clamped is in the encoder's range.
LEMMA ClampFacts ==
  ASSUME NEW bps \in Int
  PROVE  clamp_bitrate(bps) \in MIN_BITRATE..MAX_BITRATE
<1> DEFINE low == AtMost(bps, 20000)
<1>1. low \in Int /\ low <= 20000
  BY DEF AtMost
<1>2. clamp_bitrate(bps) = IF low < 250 THEN 250 ELSE low
  BY DEF clamp_bitrate, AtLeast, MIN_BITRATE, MAX_BITRATE
<1> HIDE DEF low
<1> QED
  BY <1>1, <1>2 DEF MIN_BITRATE, MAX_BITRATE

\* So is a target of auto-ABR.
LEMMA AbrFacts ==
  ASSUME NEW estimate \in Int, NEW current
  PROVE  abr_next_target(estimate, current) \subseteq MIN_BITRATE..MAX_BITRATE
BY ClampFacts DEF abr_next_target

\* A position the viewer sends lands within the source.
LEMMA AbsoluteFacts ==
  ASSUME NEW n \in Int, NEW origin \in Int, NEW dimension \in Nat
  PROVE  to_absolute(n, origin, dimension) \in origin..(origin + dimension)
<1>1. clamp01(n) \in 0..4
  BY DEF clamp01, AtMost, NaN
<1>2. (2 * clamp01(n) * dimension + 4) \div 8 \in 0..dimension
  <2>1. clamp01(n) = 0 \/ clamp01(n) = 1 \/ clamp01(n) = 2 \/ clamp01(n) = 3 \/ clamp01(n) = 4
    BY <1>1
  <2>2. (2 * 0 * dimension + 4) \div 8 \in 0..dimension
    OBVIOUS
  <2>3. (2 * 1 * dimension + 4) \div 8 \in 0..dimension
    OBVIOUS
  <2>4. (2 * 2 * dimension + 4) \div 8 \in 0..dimension
    OBVIOUS
  <2>5. (2 * 3 * dimension + 4) \div 8 \in 0..dimension
    OBVIOUS
  <2>6. (2 * 4 * dimension + 4) \div 8 \in 0..dimension
    OBVIOUS
  <2> QED
    BY <2>1, <2>2, <2>3, <2>4, <2>5, <2>6
<1> DEFINE offset == (2 * clamp01(n) * dimension + 4) \div 8
<1>3. to_absolute(n, origin, dimension) = origin + offset
  BY DEF to_absolute
<1> HIDE DEF offset
<1>4. offset \in 0..dimension
  BY <1>2 DEF offset
<1> QED
  BY <1>3, <1>4
===============================================================================
