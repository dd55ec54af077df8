------------------------- MODULE CongestionController -------------------------
(***************************************************************************)
(* The congestion controller of core/transport: additive increase,         *)
(* multiplicative decrease of a target bitrate that is kept within bounds. *)
(* Rates and packet counts are unsigned and wrap at Width (2^32 in the     *)
(* code), and ratios of counts are compared by multiplication, which gives *)
(* what the code's doubles give at its thresholds 10 %, 2 % and 0.85.      *)
(***************************************************************************)
EXTENDS Integers, FiniteSetsExt

CONSTANTS
    Width,       \* rates and counts are taken modulo Width
    Increase,    \* kAdditiveIncreaseKbps
    InitRates    \* initial min_kbps_, target_kbps_ and max_kbps_

ASSUME RatesAssumption ==
    /\ Width \in Nat /\ Increase \in 1..(Width - 1)
    /\ InitRates \in [min : 0..(Width - 1), target : 0..(Width - 1), max : 0..(Width - 1)]
    /\ InitRates.min <= InitRates.target /\ InitRates.target <= InitRates.max

VARIABLES min_kbps, target_kbps, max_kbps

controller == <<min_kbps, target_kbps, max_kbps>>

ControllerInit ==
    /\ min_kbps = InitRates.min
    /\ target_kbps = InitRates.target
    /\ max_kbps = InitRates.max

Clamp(rate, low, high) == IF rate < low THEN low ELSE IF high < rate THEN high ELSE rate

\* A report r has r.lost and r.received packets, and r.late when the queuing
\* delay exceeds its threshold.  With nothing received the ratio counts as 0.
Total(r) == (r.lost + r.received) % Width
LossHigh(r) == r.received > 0 /\ 10 * r.lost > Total(r)
LossLow(r) == r.received = 0 \/ 50 * r.lost < Total(r)
Overuse(r) == r.late \/ LossHigh(r)

\* A slip: the decrease rounds up, and small rates never come down.
AdjustedRoundsUp(r) ==
    IF Overuse(r) THEN (target_kbps * 17 + 19) \div 20
    ELSE IF LossLow(r) THEN (target_kbps + Increase) % Width
    ELSE target_kbps
Adjusted(r) ==
    IF Overuse(r) THEN (target_kbps * 17) \div 20
    ELSE IF LossLow(r) THEN (target_kbps + Increase) % Width
    ELSE target_kbps

onFeedback(r) ==
    /\ target_kbps' = Clamp(Adjusted(r), min_kbps, max_kbps)
    /\ UNCHANGED <<min_kbps, max_kbps>>

\* A slip: the target is left outside the new bounds until the next report.
setBitrateBoundsOnly(low, high) ==
    /\ min_kbps' = low
    /\ max_kbps' = Max({high, low})
    /\ UNCHANGED target_kbps
setBitrateBounds(low, high) ==
    /\ min_kbps' = low
    /\ max_kbps' = Max({high, low})
    /\ target_kbps' = Clamp(target_kbps, min_kbps', max_kbps')

=============================================================================
