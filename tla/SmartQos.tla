------------------------------ MODULE SmartQos ------------------------------
(***************************************************************************)
(* The SmartQoS priority ramp of the camera CPAS driver                   *)
(* (cam_cpas_calculate_smart_qos in src/drivers/cam_cpas/cam_cpas_hw.c).   *)
(*                                                                         *)
(* For every real-time write NIU the driver divides its camnoc bandwidth   *)
(* by the NIU size, finds the largest such bandwidth per kilobyte over all *)
(* NIUs, and builds a 32-bit priority LUT word of eight 4-bit levels:      *)
(* level 0 is the configured minimum, level 7 the configured maximum, and  *)
(* levels 1..6 a rounded linear ramp scaled by bw_per_kb / max_bw_per_kb.  *)
(* The operators here are pure; CpasAxiVote uses them on the tree state.   *)
(***************************************************************************)
EXTENDS Integers, FiniteSetsExt

CONSTANTS
    RtWrPriorityMin,    \* smart_qos_info->rt_wr_priority_min (u8, from DT)
    RtWrPriorityMax     \* smart_qos_info->rt_wr_priority_max (u8, from DT)

\* The LUT word is a u32 built by eight 4-bit shifts. With the maximum
\* below 8 the top nibble keeps the word below 2^31, so the shift never
\* wraps and the ints TLC uses hold it exactly.
ASSUME /\ RtWrPriorityMin \in 0..7
       /\ RtWrPriorityMax \in 0..7

U8(x) == x % 256

\* bw_per_kb = camnoc_bw; do_div(bw_per_kb, niu_size): the quotient
BwPerKb(camnocBw, niuSize) == camnocBw \div niuSize

\* Seeded fault: the rounding test is strict, so an exact half rounds down.
RampValTruncating(pos, bwPerKb, maxBwPerKb) ==
    LET q == (pos * bwPerKb) \div maxBwPerKb
        r == (pos * bwPerKb) % maxBwPerKb
    IN  IF r * 2 > maxBwPerKb THEN q + 1 ELSE q

\* ramp_val = pos * bw_per_kb; do_div by max_bw_per_kb; round half up
RampVal(pos, bwPerKb, maxBwPerKb) ==
    LET q == (pos * bwPerKb) \div maxBwPerKb
        r == (pos * bwPerKb) % maxBwPerKb
    IN  IF r * 2 >= maxBwPerKb THEN q + 1 ELSE q

\* Seeded fault: the ramp levels are not capped at the maximum.
LevelValUnclamped(pos, bwPerKb, maxBwPerKb) ==
    CASE pos = 0 -> RtWrPriorityMin
      [] pos = 7 -> RtWrPriorityMax
      [] OTHER   -> U8(U8(RampVal(pos, bwPerKb, maxBwPerKb)) + RtWrPriorityMin)

\* the u8 'val' of one LUT position
LevelVal(pos, bwPerKb, maxBwPerKb) ==
    CASE pos = 0 -> RtWrPriorityMin
      [] pos = 7 -> RtWrPriorityMax
      [] OTHER   ->
           LET v == U8(U8(RampVal(pos, bwPerKb, maxBwPerKb)) + RtWrPriorityMin)
           IN  IF v < RtWrPriorityMax THEN v ELSE RtWrPriorityMax

\* for (pos = 7; pos >= 0; pos--) { priority = priority << 4; priority |= val; }
\* The shift leaves the low nibble zero and val never exceeds the maximum
\* (below 16), so the or adds val into that nibble.
RECURSIVE PackLevels(_, _, _, _)
PackLevels(pos, priority, bwPerKb, maxBwPerKb) ==
    IF pos < 0 THEN priority
    ELSE PackLevels(pos - 1,
                    priority * 16 + LevelVal(pos, bwPerKb, maxBwPerKb),
                    bwPerKb, maxBwPerKb)

Priority(bwPerKb, maxBwPerKb) == PackLevels(7, 0, bwPerKb, maxBwPerKb)

\* max_bw_per_kb over the NIUs of 'nius' (0 when all are idle)
MaxBwPerKb(nius, camnocBw, niuSize) ==
    Max({BwPerKb(camnocBw[n], niuSize[n]) : n \in nius} \cup {0})

\* curr_priority of every NIU, computed when max_bw_per_kb is not zero
NewPriorities(nius, camnocBw, niuSize) ==
    [n \in nius |-> Priority(BwPerKb(camnocBw[n], niuSize[n]),
                             MaxBwPerKb(nius, camnocBw, niuSize))]

(***************************************************************************)
(* Reference definitions, written from the arithmetic the ramp stands for  *)
(* rather than from the loop: level i is min + round(i * bw / max), capped *)
(* at max, and the word is the sum of level(i) * 16^i.                     *)
(***************************************************************************)
RefLevel(i, bw, mx) ==
    IF i = 0 THEN RtWrPriorityMin
    ELSE IF i = 7 THEN RtWrPriorityMax
    ELSE LET rounded == (2 * i * bw + mx) \div (2 * mx)
         IN  IF rounded + RtWrPriorityMin < RtWrPriorityMax
             THEN rounded + RtWrPriorityMin ELSE RtWrPriorityMax

Pow16(k) == 16 ^ k

RefPriority(bw, mx) ==
    LET sum[k \in 0..8] == IF k = 0 THEN 0
                           ELSE sum[k - 1] + RefLevel(k - 1, bw, mx) * Pow16(k - 1)
    IN  sum[8]

\* the level at position i of a packed word
LevelOf(word, i) == (word \div Pow16(i)) % 16
=============================================================================
