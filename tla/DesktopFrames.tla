----------------------------- MODULE DesktopFrames -----------------------------
(***************************************************************************)
(* The arithmetic of a desktop stream (apps/agent/src/desktop.rs downscale, *)
(* crop_to_even, clamp_bitrate, abr_next_target; main.rs StreamProfile;    *)
(* input.rs clamp01, to_absolute).  Bitrates are in kbps.                  *)
(***************************************************************************)
EXTENDS Integers

\* A profile: the box frames are scaled into, and the target bitrate.
DEFAULT_1080P30 == [w |-> 1920, h |-> 1080, bps |-> 6000]
SAFE_720P30     == [w |-> 1280, h |-> 720, bps |-> 4000]

Box(profile) == <<profile.w, profile.h>>
Floor == Box(SAFE_720P30)

Even(n) == n - (n % 2)
AtLeast(n, low) == IF n < low THEN low ELSE n
AtMost(n, high) == IF n > high THEN high ELSE n

\* The integer part of num / den computed in f64: a quotient that is a whole
\* number may come out just below it.
Truncated(num, den) ==
  {num \div den} \cup (IF num % den = 0 THEN {AtLeast(num \div den - 1, 0)} ELSE {})

\* The sizes downscale may give a frame: untouched if it fits, else scaled by
\* the smaller ratio, each side made even and at least 2.
downscale(size, max) ==
  LET w == size[1]  h == size[2]
      byWidth == max[1] * h <= max[2] * w
      num == IF byWidth THEN max[1] ELSE max[2]
      den == IF byWidth THEN w ELSE h
  IN  IF w <= max[1] /\ h <= max[2]
      THEN {size}
      ELSE {<<AtLeast(Even(dw), 2), AtLeast(Even(dh), 2)>> :
              dw \in Truncated(w * num, den), dh \in Truncated(h * num, den)}

\* Mutant: only the width is cropped.
crop_to_even_Width(size) == <<Even(size[1]), size[2]>>

crop_to_even(size) == <<Even(size[1]), Even(size[2])>>

-----------------------------------------------------------------------------
MIN_BITRATE == 250
MAX_BITRATE == 20000
ABR_INITIAL == 4000

clamp_bitrate(bps) == AtLeast(AtMost(bps, MAX_BITRATE), MIN_BITRATE)

Distance(a, b) == IF a < b THEN b - a ELSE a - b

\* What auto-ABR would set: nothing near its seed (5%) or near what it set
\* last (15%).
abr_next_target(estimate, current) ==
  LET target == clamp_bitrate(estimate)
  IN  IF \/ estimate <= 0
         \/ 100 * Distance(estimate, ABR_INITIAL) < 5 * ABR_INITIAL
         \/ 100 * Distance(target, current) < 15 * current
      THEN {} ELSE {target}

-----------------------------------------------------------------------------
\* Mutant: the coordinate is taken as the viewer sent it.
clamp01_Unclamped(n) == n

\* Positions are in quarters of the source.
NaN == 100
clamp01(n) == IF n = NaN \/ n < 0 THEN 0 ELSE AtMost(n, 4)

\* origin + round(n * dimension), halves away from zero.
to_absolute(n, origin, dimension) == origin + (2 * clamp01(n) * dimension + 4) \div 8
===============================================================================
