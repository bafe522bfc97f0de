------------------------------- MODULE Accrual -------------------------------
(***************************************************************************)
(* A salary entered as an amount per day, sealed into terms by the         *)
(* employer's form, and watched second by second with accruedAt: by the    *)
(* enclave when it signs and by the dashboard when it ticks.  Two          *)
(* truncations lie between the salary and the figure that is signed.       *)
(***************************************************************************)
EXTENDS Protocol

CONSTANTS
    Salaries,   \* raw token units per day the form may be given
    Totals,     \* caps of a stream
    Starts,     \* start times
    LastSecond  \* bound: when the clock stops

ASSUME AccrualAssumption ==
    /\ Salaries \subseteq Nat
    /\ Totals \subseteq Nat
    /\ Starts \subseteq Nat
    /\ LastSecond \in Nat

\* A second's rate is finer than half a raw unit per day (1e12 against 86400).
ASSUME ScaleAssumption == SECONDS_PER_DAY - 1 <= RATE_SCALE \div 2

VARIABLES perDay, total, startTime, now

accrualVars == <<perDay, total, startTime, now>>

\* The draft the form commits to.
draft ==
    [ratePerSecond |-> ratePerDayToScaled(perDay), total |-> total, startTime |-> startTime]

Init ==
    /\ perDay \in Salaries
    /\ total \in Totals
    /\ startTime \in Starts
    /\ now = 0

Tick ==
    /\ now < LastSecond
    /\ now' = now + 1
    /\ UNCHANGED <<perDay, total, startTime>>

Spec == Init /\ [][Tick]_accrualVars

------------------------------------------------------------------------------
elapsed == elapsedAt(draft, now)
accrued == accruedAt(draft, now)

\* The pages turn the rate of terms back into a salary: "Round, don't truncate";
\* truncating.
perDayTruncated(rate) == (rate * SECONDS_PER_DAY) \div RATE_SCALE
perDayShown(rate) == (rate * SECONDS_PER_DAY + RATE_SCALE \div 2) \div RATE_SCALE

\* Rounding never favours the recipient: the figure signed is at no second
\* above the exact salary for the time elapsed, nor above the total.
NeverAboveSalary ==
    /\ accrued * SECONDS_PER_DAY <= perDay * elapsed
    /\ accrued <= total

\* Rounding never costs the recipient more than one raw unit, plus one per
\* RATE_SCALE seconds: the bound the comment on RATE_SCALE relies on, multiplied
\* out by SECONDS_PER_DAY * RATE_SCALE.
ShortfallBounded ==
    accrued < total =>
        (perDay * elapsed - accrued * SECONDS_PER_DAY) * RATE_SCALE
            < SECONDS_PER_DAY * (elapsed + RATE_SCALE)

\* The salary that the landing page, the dashboard and the audit record show is the
\* number the employer typed, although the rate in between is truncated.
ShowsSalary == perDayShown(draft.ratePerSecond) = perDay
==============================================================================
