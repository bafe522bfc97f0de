---------------------------- MODULE AccrualProofs ----------------------------
(***************************************************************************)
(* The rounding bounds of Accrual for every salary, scale and length of    *)
(* day.  Both follow from the two truncations: P * S is split by D into R  *)
(* and a remainder, and R * e by S into A and a remainder.                 *)
(***************************************************************************)
EXTENDS Accrual, AmountLemmas

TypeInv == perDay \in Nat /\ total \in Nat /\ startTime \in Nat /\ now \in Nat

LEMMA TypeInvariance == Spec => []TypeInv
  <1>1. Init => TypeInv
    BY AccrualAssumption DEF Init, TypeInv
  <1>2. TypeInv /\ [Tick]_accrualVars => TypeInv'
    BY DEF TypeInv, Tick, accrualVars
  <1> QED
    BY <1>1, <1>2, PTL DEF Spec

\* The arithmetic, with no reference to the model.
LEMMA CancelFactor ==
    ASSUME NEW a \in Nat, NEW b \in Nat, NEW k \in Nat \ {0}, a * k <= b * k
    PROVE  a <= b
  OBVIOUS

LEMMA Rounding ==
    ASSUME NEW P \in Nat, NEW S \in Nat \ {0}, NEW D \in Nat \ {0}, NEW e \in Nat
    PROVE  LET R == (P * S) \div D
               A == (R * e) \div S
           IN  /\ A * D <= P * e
               /\ (P * e - A * D) * S < D * (e + S)
  <1> DEFINE R == (P * S) \div D
             A == (R * e) \div S
  <1>1. R \in Nat /\ R * D <= P * S /\ P * S < R * D + D
    BY DivBounds
  <1> HIDE DEF R
  <1>2. R * e \in Nat
    BY <1>1
  <1>3. A \in Nat /\ A * S <= R * e /\ R * e < A * S + S
    BY <1>2, DivBounds
  <1> HIDE DEF A
  <1>4. (A * S) * D <= (R * e) * D
    BY <1>1, <1>3
  <1>5. (R * D) * e <= (P * S) * e
    BY <1>1
  <1>6. (A * D) * S <= (P * e) * S
    BY <1>1, <1>3, <1>4, <1>5
  <1>7. A * D <= P * e
    BY <1>1, <1>3, <1>6, CancelFactor
  <1>8. (P * S) * e <= (R * D + D) * e
    BY <1>1
  <1>9. (R * e) * D < (A * S + S) * D
    BY <1>1, <1>3
  <1>10. (P * e - A * D) * S < D * (e + S)
    BY <1>1, <1>3, <1>8, <1>9
  <1> QED
    BY <1>7, <1>10 DEF R, A

\* Rounding at any second.
LEMMA TypedBounds == TypeInv => NeverAboveSalary /\ ShortfallBounded
  <1> SUFFICES ASSUME TypeInv PROVE NeverAboveSalary /\ ShortfallBounded
    OBVIOUS
  <1> DEFINE R == ratePerDayToScaled(perDay)
             A == (R * elapsed) \div RATE_SCALE
  <1>1. R \in Nat
    BY ProtocolAssumption, DivBounds DEF ratePerDayToScaled, TypeInv
  <1>2. HasAccrual(draft) /\ draft.ratePerSecond = R /\ draft.total = total
    BY <1>1 DEF draft, HasAccrual, TypeInv
  <1>3. elapsed \in Nat
    BY <1>2, ElapsedMonotone DEF elapsed, TypeInv
  <1>4. /\ A * SECONDS_PER_DAY <= perDay * elapsed
        /\ (perDay * elapsed - A * SECONDS_PER_DAY) * RATE_SCALE
             < SECONDS_PER_DAY * (elapsed + RATE_SCALE)
    BY <1>3, Rounding, ProtocolAssumption DEF ratePerDayToScaled, TypeInv
  <1>5. accrued = IF A < total THEN A ELSE total
    BY <1>2 DEF accrued, accruedAt, uncappedAt, elapsed
  <1>6. A \in Nat
    BY <1>1, <1>3, ProtocolAssumption, DivBounds, TimesMonotone
  <1>7. accrued \in Nat /\ accrued <= A /\ accrued <= total
    BY <1>5, <1>6 DEF TypeInv
  <1> HIDE DEF A, R
  <1>8. NeverAboveSalary
    <2>1. accrued * SECONDS_PER_DAY <= A * SECONDS_PER_DAY
      BY <1>6, <1>7, ProtocolAssumption
    <2> QED
      BY <1>3, <1>4, <1>6, <1>7, <2>1, ProtocolAssumption DEF NeverAboveSalary, TypeInv
  <1>9. ShortfallBounded
    <2>1. ASSUME accrued < total PROVE accrued = A
      BY <2>1, <1>5, <1>6 DEF TypeInv
    <2> QED
      BY <1>4, <2>1 DEF ShortfallBounded
  <1> QED
    BY <1>8, <1>9

\* The figure that is signed is never above the exact salary.
THEOREM NeverOverpays == Spec => []NeverAboveSalary
  BY TypeInvariance, TypedBounds, PTL

\* And never more than the bounded rounding loss below it.
THEOREM NeverUnderpaysMuch == Spec => []ShortfallBounded
  BY TypeInvariance, TypedBounds, PTL

LEMMA CancelStrictly ==
    ASSUME NEW a \in Nat, NEW b \in Nat, NEW k \in Nat \ {0}, a * k < b * k + k
    PROVE  a <= b
  <1>1. b * k + k = (b + 1) * k
    OBVIOUS
  <1>2. a * k < (b + 1) * k
    BY <1>1
  <1> QED
    BY <1>2

\* Half a scale is more than the truncation took away and less than a whole unit.
LEMMA Restored ==
    ASSUME NEW P \in Nat, NEW S \in Nat \ {0}, NEW D \in Nat \ {0}, D - 1 <= S \div 2
    PROVE  (((P * S) \div D) * D + S \div 2) \div S = P
  <1> DEFINE R == (P * S) \div D
             h == S \div 2
             X == R * D + h
             Q == X \div S
  <1>1. R \in Nat /\ R * D <= P * S /\ P * S < R * D + D
    BY DivBounds
  <1>2. h \in Nat /\ h < S /\ D - 1 <= h
    OBVIOUS
  <1> HIDE DEF R, h
  <1>3. R * D \in Nat /\ P * S \in Nat
    BY <1>1
  <1>4. X \in Nat /\ P * S <= X /\ X < P * S + S
    BY <1>1, <1>2, <1>3
  <1> HIDE DEF X
  <1>5. Q \in Nat /\ Q * S <= X /\ X < Q * S + S
    BY <1>4, DivBounds
  <1> HIDE DEF Q
  <1>6. Q * S \in Nat
    BY <1>5
  <1>7. P * S < Q * S + S /\ Q * S < P * S + S
    BY <1>3, <1>4, <1>5, <1>6
  <1>8. P <= Q /\ Q <= P
    BY <1>5, <1>7, CancelStrictly
  <1>9. Q = P
    BY <1>5, <1>8
  <1> QED
    BY <1>9 DEF Q, X, R, h

\* The salary on the screen is the salary that was typed.
THEOREM SalaryShown == Spec => []ShowsSalary
  <1>1. TypeInv => ShowsSalary
    BY Restored, ProtocolAssumption, ScaleAssumption
       DEF TypeInv, ShowsSalary, perDayShown, draft, ratePerDayToScaled
  <1> QED
    BY <1>1, TypeInvariance, PTL
==============================================================================
