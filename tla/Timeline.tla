------------------------------ MODULE Timeline ------------------------------
(***************************************************************************)
(* Block timestamps, difficulty and work of core/state.rs: a chain grows   *)
(* by blocks of this node's miner and of others while the clock runs.      *)
(* Sizes are scaled: targets have TargetBits bits (256) and the fixed      *)
(* point FixBits (16), with the polynomial's coefficients cut to it.       *)
(***************************************************************************)
EXTENDS Integers, Sequences, SequencesExt, FiniteSets, FiniteSetsExt

CONSTANTS
    BlockTime, HalfLife,        \* TARGET_BLOCK_TIME, ASERT_HALF_LIFE
    Window,                     \* MEDIAN_TIME_PAST_WINDOW
    LegacyFuture, Future, FixHeight,   \* max_future_time before and from TIMEWARP_FIX_ACTIVATION_HEIGHT
    TargetBits, FixBits, GenesisTarget, MaxWork,
    MaxHeight, MaxClock         \* bounds: blocks, seconds

VARIABLES
    now,        \* the clock
    stamps,     \* timestamps of the chain, genesis (time 0) first
    target,     \* State.target, for the next block
    depth       \* State.depth

vars == <<now, stamps, target, depth>>

-----------------------------------------------------------------------------
(* calculate_target *)

Ceiling == 2^TargetBits - 1
One == 2^FixBits

\* Integer division rounds to zero, a shift to the right rounds down.
Truncated(a, b) == IF a >= 0 THEN a \div b ELSE 0 - ((0 - a) \div b)
exponent(height, time) == Truncated((time - height * BlockTime) * One, HalfLife)
\* Mutant: the whole part rounds to zero.
shifts_truncated(e) == Truncated(e, One)
shifts(e) == e \div One
frac(e) == e % One

Coefficient(c) == c \div 2^(16 - FixBits)
\* 2^(f / One), approximated.
factor(f) ==
    One + (f * Coefficient(45426)) \div One
        + (f * f * Coefficient(15746)) \div One^2
        + (f * f * f * Coefficient(3643)) \div One^3
\* The product is split so that it fits the word.
Scaled(t, f) == (t \div One) * f + ((t % One) * f) \div One

calculate_target(height, time) ==
    LET e == exponent(height, time)
        s == shifts(e)
        base == Scaled(GenesisTarget, factor(frac(e)))
        moved == IF s > 0 THEN (IF base > Ceiling \div 2^Min({s, TargetBits - 1}) THEN Ceiling
                                ELSE base * 2^Min({s, TargetBits - 1}))
                 ELSE base \div 2^Min({0 - s, TargetBits - 1})
    IN IF height = 0 THEN GenesisTarget ELSE Max({1, Min({moved, Ceiling})})

calculate_work(t) == IF t = 0 THEN 0 ELSE Min({Ceiling \div t, MaxWork})

-----------------------------------------------------------------------------
(* validate_timestamp *)

Recent(ts) == SubSeq(ts, Len(ts) - Window + 1, Len(ts))
Median(ts) == SortSeq(ts, <)[(Window \div 2) + 1]
Height == Len(stamps) - 1
MaxFuture(height) == IF height >= FixHeight THEN Future ELSE LegacyFuture

validate_timestamp(t, height) ==
    /\ t <= now + MaxFuture(height)
    /\ IF Len(stamps) >= Window THEN t > Median(Recent(stamps)) ELSE t > Last(stamps)

-----------------------------------------------------------------------------

Init == now = 0 /\ stamps = <<0>> /\ target = GenesisTarget /\ depth = 0

Tick == now < MaxClock /\ now' = now + 1 /\ UNCHANGED <<stamps, target, depth>>

\* apply_batch, then adjust_difficulty for the next block.
Extend(t) ==
    /\ Height < MaxHeight
    /\ validate_timestamp(t, Height)
    /\ stamps' = Append(stamps, t)
    /\ depth' = depth + calculate_work(target)
    /\ target' = calculate_target(Height + 1, t)
    /\ UNCHANGED now

\* This node stamps its template with the time, and later than the tip.
OwnBlock == Extend(Max({now, Last(stamps) + 1}))
OtherBlock == \E t \in 1..(MaxClock + LegacyFuture) : Extend(t)

Next == Tick \/ OwnBlock \/ OtherBlock
Spec == Init /\ [][Next]_vars

-----------------------------------------------------------------------------
(* Properties *)

\* Targets and work fit their words.
TypeOK ==
    /\ now \in 0..MaxClock /\ Len(stamps) \in 1..(MaxHeight + 1)
    /\ target \in 1..Ceiling
    /\ depth \in 0..(MaxHeight * MaxWork)

\* Difficulty follows the schedule: at any height a later timestamp never
\* makes the next block harder to find or heavier, a block more at the same
\* time never makes it easier, one half-life of delay doubles the target (but
\* for rounding) until the ceiling, and nothing overflows on the way.
TargetFollowsDrift ==
    LET h == Height
        t == Last(stamps)
        T(hh, tt) == calculate_target(hh, tt)
        limit == Scaled(GenesisTarget, factor(One - 1))
    IN /\ limit <= Ceiling
       /\ h > 0 => /\ T(h, t) <= T(h, t + 1) /\ calculate_work(T(h, t)) >= calculate_work(T(h, t + 1))
                   /\ T(h + 1, t) <= T(h, t)
                   /\ T(h, t + HalfLife) \in {Ceiling, 2 * T(h, t) - 1, 2 * T(h, t), 2 * T(h, t) + 1}

\* Whatever the order of the timestamps in a window, the time a chain has
\* passed for certain, the median of the last blocks, never goes back.
PassedTime(ts) == Median(SubSeq(ts, Len(ts) - Window + 1, Len(ts)))
MedianStep == Len(stamps) >= Window => PassedTime(stamps') >= PassedTime(stamps)
MedianAdvances == [][MedianStep]_vars
=============================================================================
