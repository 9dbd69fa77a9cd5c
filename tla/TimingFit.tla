------------------------------- MODULE TimingFit -------------------------------
(***************************************************************************)
(* The timing fitter (application/timing_fitter.py): which trim, speaking  *)
(* rate and stretch bring a synthesised take into its slot.  Lengths are   *)
(* milliseconds, ratios are pairs <<numerator, denominator>>.  The code    *)
(* computes with floats: where the exact value is a whole number or a      *)
(* limit, the float may be on either side of it.                           *)
(***************************************************************************)
EXTENDS Integers

CONSTANTS
    TakeLengths, SlotLengths,   \* the lengths that are tried
    Silences,                   \* leading and trailing silence together
    Tolerances,                 \* tolerance_ms of the fitters
    TrimMax,                    \* silence_trim_max_ms
    StretchMax,                 \* max_stretch_pct, in percent
    ReviewThreshold,            \* review_flag_threshold, in percent
    RateMin, RateMax            \* rate_control_min and _max, in percent

FitConstants ==
    /\ TakeLengths \subseteq Nat /\ SlotLengths \subseteq Nat /\ Silences \subseteq Nat
    /\ Tolerances \subseteq Nat /\ TrimMax \in Nat
    /\ ReviewThreshold \in 0..100 /\ StretchMax \in 0..30 /\ RateMin \in 50..100 /\ RateMax \in 100..200

VARIABLE
    fit     \* the FitResult of the take in hand, with the tolerance of its fitter

NoFit == [strategy |-> "none"]

Distance(a, b) == IF a < b THEN b - a ELSE a - b

AtLeastOne(n) == IF n < 1 THEN 1 ELSE n

Least(a, b) == IF a < b THEN a ELSE b

Below(r, q) == r[1] * q[2] < q[1] * r[2]

Clamped(r, low, high) == IF Below(r, low) THEN low ELSE IF Below(high, r) THEN high ELSE r

\* int(n / d) of a float that is never negative.
Truncated(n, d) == {n \div d} \cup (IF n > 0 /\ n % d = 0 THEN {n \div d - 1} ELSE {})

\* Mutant: a take may be trimmed below its slot.
TrimmedFreely(take, slot, silence) ==
    IF take > slot THEN Least(silence, TrimMax) ELSE 0

Trimmed(take, slot, silence) ==
    IF take > slot THEN Least(Least(silence, TrimMax), take - slot) ELSE 0

\* The rate is slot / length, and the length is divided by it.
Rate(length, slot) ==
    Clamped(<<slot, AtLeastOne(length)>>, <<RateMin, 100>>, <<RateMax, 100>>)

Paced(length, rate) == Truncated(length * rate[2], rate[1])

\* _result(): what is out of tolerance and still near its slot is not flagged.
Accepted(strategy, take, slot, trimmed, rate, stretch, fitted, tolerance) ==
    [strategy |-> strategy, take |-> take, slot |-> slot, trimmed |-> trimmed,
     rate |-> rate, stretch |-> stretch, fitted |-> fitted, tolerance |-> tolerance,
     within |-> Distance(fitted, slot) <= tolerance,
     flagged |-> /\ Distance(fitted, slot) > tolerance
                 /\ Distance(fitted, slot) * 100 >= ReviewThreshold * AtLeastOne(slot)]

\* l.183: flagged, whatever the length that is left.
Reviewed(take, slot, trimmed, rate, stretch, fitted, tolerance) ==
    [strategy |-> "human_review", take |-> take, slot |-> slot, trimmed |-> trimmed,
     rate |-> rate, stretch |-> stretch, fitted |-> fitted, tolerance |-> tolerance,
     within |-> FALSE, flagged |-> TRUE]

One == <<1, 1>>

Shortest == <<100 - StretchMax, 100>>
Longest == <<100 + StretchMax, 100>>

\* Steps 4 and 5: a stretch within the limit, or a person.
Stretch(take, slot, trimmed, rate, paced, tolerance) ==
    LET stretch == <<slot, AtLeastOne(paced)>>
        limited == Clamped(stretch, Shortest, Longest)
        edge == IF Below(One, stretch) THEN Longest ELSE Shortest
    IN  \/ /\ limited = stretch
           /\ \E fitted \in Truncated(paced * stretch[1], stretch[2]) :
                fit' = Accepted("time_stretch", take, slot, trimmed, rate, stretch, fitted,
                                tolerance)
        \/ /\ Below(Shortest, stretch) => ~Below(stretch, Longest)
           /\ \E fitted \in Truncated(paced * limited[1], limited[2]) :
                fit' = Reviewed(take, slot, trimmed, rate, edge, fitted, tolerance)

Init == fit = NoFit

\* fit(), its five steps in order.
FitTake(take, slot, silence, tolerance) ==
    LET trimmed == Trimmed(take, slot, silence)
        length == take - trimmed
        rate == Rate(length, slot)
        exact == Distance(take, slot) <= tolerance
        quiet == take > slot /\ Distance(length, slot) <= tolerance
    IN  /\ fit = NoFit
        /\ \/ /\ exact
              /\ fit' = Accepted("exact_fit", take, slot, 0, One, One, take, tolerance)
           \/ /\ ~exact /\ quiet
              /\ fit' = Accepted("silence_trim", take, slot, trimmed, One, One, length, tolerance)
           \/ /\ ~exact /\ ~quiet
              /\ \E paced \in Paced(length, rate) :
                   \/ /\ Distance(paced, slot) <= tolerance
                      /\ fit' = Accepted("rate_control", take, slot, trimmed, rate, One, paced,
                                         tolerance)
                   \/ /\ Distance(paced, slot) > tolerance
                      /\ Stretch(take, slot, trimmed, rate, paced, tolerance)

Next ==
    \E take \in TakeLengths, slot \in SlotLengths, silence \in Silences, tolerance \in Tolerances :
        silence <= take /\ FitTake(take, slot, silence, tolerance)

Spec == Init /\ [][Next]_fit

-----------------------------------------------------------------------------

TypeOK == fit # NoFit => fit.fitted \in Nat /\ fit.trimmed \in Nat

\* A take that a person need not look at is within tolerance, though the
\* threshold of _result() alone would not see to it: only where nothing at all
\* is tolerated does a stretch that int() has cut by a millisecond go unseen.
\* What is flagged was not announced as fitting.
FlaggedWhenUnfit ==
    fit # NoFit =>
        /\ fit.flagged => ~fit.within
        /\ ~fit.flagged =>
             Distance(fit.fitted, fit.slot) <= IF fit.tolerance = 0 THEN 1 ELSE fit.tolerance

\* Trimming takes silence only and never makes a long take too short.
TrimKeepsSlot ==
    fit # NoFit /\ fit.trimmed > 0 =>
        fit.take - fit.trimmed >= fit.slot /\ fit.trimmed <= TrimMax

FitIsHonest == FlaggedWhenUnfit /\ TrimKeepsSlot
=============================================================================
