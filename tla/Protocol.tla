------------------------------ MODULE Protocol ------------------------------
(***************************************************************************)
(* typescript/src/shared/protocol.ts: what the enclave, the dashboard and  *)
(* the contract have to agree on: the terms of a stream, the fixed-point   *)
(* accrual, and the two digests.  A hash is modelled by the record it is   *)
(* the hash of, so two digests are equal exactly when every field is.      *)
(***************************************************************************)
EXTENDS Integers

CONSTANTS
    RATE_SCALE,                  \* fixed-point denominator of a rate
    SECONDS_PER_DAY,
    AUTH_TTL_SECONDS,            \* how long an authorization stays valid
    CALLER_AUTH_WINDOW_SECONDS   \* how far a challenge's issuedAt may be off

ASSUME ProtocolAssumption ==
    /\ RATE_SCALE \in Nat \ {0}
    /\ SECONDS_PER_DAY \in Nat \ {0}
    /\ AUTH_TTL_SECONDS \in Nat
    /\ CALLER_AUTH_WINDOW_SECONDS \in Nat

WithdrawTag == "SW_WITHDRAW_V1"
SettleTag   == "SW_SETTLE_V1"

\* Terms hold at least the fields the accrual is computed from.
HasAccrual(terms) ==
    /\ terms.ratePerSecond \in Nat
    /\ terms.total \in Nat
    /\ terms.startTime \in Nat

\* Tokens per day to a scaled rate; the division truncates.
ratePerDayToScaled(rawUnitsPerDay) ==
    (rawUnitsPerDay * RATE_SCALE) \div SECONDS_PER_DAY

elapsedAt(terms, now) ==
    IF now > terms.startTime THEN now - terms.startTime ELSE 0

\* The accrual before it is capped by the total.
uncappedAt(terms, now) ==
    (terms.ratePerSecond * elapsedAt(terms, now)) \div RATE_SCALE

\* Faulty variants: no cap, and scaling the rate down before multiplying.
AccruedWithoutCap(terms, now) == uncappedAt(terms, now)
AccruedFromWholeRate(terms, now) ==
    LET accrued == (terms.ratePerSecond \div RATE_SCALE) * elapsedAt(terms, now)
    IN  IF accrued < terms.total THEN accrued ELSE terms.total

accruedAt(terms, now) ==
    LET accrued == uncappedAt(terms, now)
    IN  IF accrued < terms.total THEN accrued ELSE terms.total

\* What the TEE signs and StreamVault checks.
buildAuthDigest(tag, domain, id, commitment, accrued, deadline) ==
    [tag |-> tag, domain |-> domain, streamId |-> id, commitment |-> commitment,
     accrued |-> accrued, deadline |-> deadline]

\* What a caller signs to prove to be a party of the stream.
buildCallerChallenge(domain, id, commitment, purpose, issuedAt) ==
    [domain |-> domain, streamId |-> id, commitment |-> commitment,
     purpose |-> purpose, issuedAt |-> issuedAt]
==============================================================================
