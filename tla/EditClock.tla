------------------------------- MODULE EditClock -------------------------------
(***************************************************************************)
(* Exact time (domain/time.py): a half-open range of ticks of a rational   *)
(* rate that is moved to other rates, intersected with other ranges and    *)
(* split.  Ranges are not negative.  The reference is one grid on which    *)
(* every rate has its instants: lo and hi are where the ends should be.    *)
(***************************************************************************)
EXTENDS Integers, FiniteSets, FiniteSetsExt

CONSTANTS
    Rates,          \* <<numerator, denominator>>, reduced; ticks for each second
    MaxTicks,       \* ranges of the input end here
    Roundings,      \* the policies; "exact" is none
    Grid,           \* units of the grid in a second
    MaxSlack        \* bound: of what roundings may add up to, in units

VARIABLES
    rate, start, duration,  \* the range
    lo, hi, slack   \* for properties only, in units

vars == <<rate, start, duration, lo, hi, slack>>

\* common_rate(): the least common multiple of the numerators.
CommonRate(r, q) == <<Min({n \in 1 .. r[1] * q[1] : n % r[1] = 0 /\ n % q[1] = 0}), 1>>

\* Half a tick of every rate is on the grid, and so is what rates have in common.
ClockConstants ==
    /\ Grid \in Nat \ {0} /\ MaxTicks \in Nat
    /\ Roundings \subseteq {"exact", "floor", "toward_zero", "ceil", "nearest_even"}
    /\ \A r \in Rates : r[1] \in Nat \ {0} /\ r[2] \in Nat \ {0} /\ (Grid * r[2]) % (2 * r[1]) = 0
    /\ \A r, q \in Rates : CommonRate(r, q) \in Rates

Tick(r) == (Grid * r[2]) \div r[1]
End == start + duration

\* RationalTime.__lt__
Before(a, r, b, q) == a * r[2] * q[1] < b * q[2] * r[1]

\* _round_fraction(), for what is not negative.
Rounded(n, d, rounding) ==
    LET quotient == n \div d
        twice == 2 * (n % d)
    IN  CASE rounding \in {"floor", "toward_zero"} -> quotient
          [] rounding = "ceil" -> -((-n) \div d)
          [] rounding = "nearest_even" ->
               IF twice > d \/ (twice = d /\ quotient % 2 = 1) THEN quotient + 1 ELSE quotient

\* TickRescaler
Exact(ticks, from, to) == (ticks * from[2] * to[1]) % (from[1] * to[2]) = 0

Rescaled(ticks, from, to, rounding) ==
    IF Exact(ticks, from, to) THEN (ticks * from[2] * to[1]) \div (from[1] * to[2])
    ELSE Rounded(ticks * from[2] * to[1], from[1] * to[2], rounding)

Init ==
    /\ rate \in Rates
    /\ \E a, b \in 0..MaxTicks : a <= b /\ start = a /\ duration = b - a
    /\ lo = start * Tick(rate) /\ hi = End * Tick(rate) /\ slack = 0

\* Mutant: the duration is converted as the start is.
EndByLength(to, rounding) ==
    Rescaled(start, rate, to, rounding) + Rescaled(duration, rate, to, rounding)

RescaledEnd(to, rounding) == Rescaled(End, rate, to, rounding)

\* TimeRange.rescaled_to()
Rescale(to, rounding) ==
    /\ rounding = "exact" => Exact(start, rate, to) /\ Exact(End, rate, to)
    /\ rate' = to
    /\ start' = Rescaled(start, rate, to, rounding)
    /\ duration' = RescaledEnd(to, rounding) - start'
    /\ slack' = slack + IF Exact(start, rate, to) /\ Exact(End, rate, to) THEN 0
                        ELSE IF rounding = "nearest_even" THEN Tick(to) \div 2 ELSE Tick(to)
    /\ slack' <= MaxSlack
    /\ UNCHANGED <<lo, hi>>

\* Mutant: the rate of this range has to do.
CommonRateMine(r, q) == r

Overlaps(otherStart, otherEnd, q) ==
    /\ duration > 0 /\ otherStart < otherEnd
    /\ Before(start, rate, otherEnd, q) /\ Before(otherStart, q, End, rate)

\* TimeRange.intersection(), when there is one.
Intersect(otherStart, otherEnd, q) ==
    LET common == CommonRate(rate, q)
        Mine(ticks) == Rescaled(ticks, rate, common, "floor")
        Theirs(ticks) == Rescaled(ticks, q, common, "floor")
    IN  /\ Overlaps(otherStart, otherEnd, q)
        /\ rate' = common
        /\ start' = Max({Mine(start), Theirs(otherStart)})
        /\ duration' = Min({Mine(End), Theirs(otherEnd)}) - start'
        /\ lo' = Max({lo, otherStart * Tick(q)})
        /\ hi' = Min({hi, otherEnd * Tick(q)})
        /\ UNCHANGED slack

\* TimeRange.split_at(), and one of the parts is gone on with.
SplitAt(position, q, left) ==
    LET exact == Rescaled(position, q, rate, "floor")
    IN  /\ Before(start, rate, position, q) /\ Before(position, q, End, rate)
        /\ Exact(position, q, rate)
        /\ IF left THEN start' = start /\ duration' = exact - start
                   ELSE start' = exact /\ duration' = End - exact
        /\ lo' = IF left THEN lo ELSE position * Tick(q)
        /\ hi' = IF left THEN position * Tick(q) ELSE hi
        /\ UNCHANGED <<rate, slack>>

Next ==
    \E q \in Rates :
        \/ \E rounding \in Roundings : Rescale(q, rounding)
        \/ \E a, b \in 0..MaxTicks : Intersect(a, b, q)
        \/ \E position \in 0..MaxTicks, left \in BOOLEAN : SplitAt(position, q, left)

Spec == Init /\ [][Next]_vars

-----------------------------------------------------------------------------

TypeOK == rate \in Rates /\ start \in Nat /\ duration \in Nat

Apart(a, b) == IF a > b THEN a - b ELSE b - a

\* Intersections and splits are exact, and a conversion moves either end by
\* less than a tick (half a tick to the nearest) of the rate it goes to:
\* whatever is done to a range, nothing else adds up.
ClockKeepsInstants ==
    /\ Apart(start * Tick(rate), lo) <= slack
    /\ Apart(End * Tick(rate), hi) <= slack
=============================================================================
