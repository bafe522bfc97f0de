----------------------------- MODULE StealthWage -----------------------------
(***************************************************************************)
(* The system: the vault on chain, the enclave, and the parties that carry *)
(* messages between them.  The vault accepts only what the enclave signed, *)
(* the enclave never reads the chain, and what they share is the digest    *)
(* and, roughly, the time: the enclave's clock is within MaxSkew of the    *)
(* block timestamp.                                                        *)
(*                                                                         *)
(* Nothing checks that the parties of a stream in the vault are the        *)
(* parties named in its sealed terms, that the commitment has terms behind *)
(* it, or that they are sealed to the enclave's key: all of it may differ. *)
(* A transaction is atomic to everyone off chain, so the enclave and the   *)
(* parties move only between transactions.                                 *)
(***************************************************************************)
EXTENDS StreamVault, Enclave, FiniteSets

CONSTANTS
    MaxSkew,   \* how far the enclave's clock is from block.timestamp
    Askers     \* who signs challenges for what: pairs <<account, tag>>

ASSUME SystemAssumption ==
    /\ MaxSkew \in Nat
    /\ Askers \subseteq Accounts \X {WITHDRAW_TAG, SETTLE_TAG}

vars == <<vaultVars, enclaveVars>>

\* What Date.now may say in the enclave.
ClockReadings == {s \in 0..(chainTime + MaxSkew) : s >= chainTime - MaxSkew}

Init == VaultInit /\ EnclaveInit

\* Anyone may submit any authorization that was ever given out.
Redeem ==
    \E id \in StreamIds, sig \in authorizations :
        \/ withdraw(id, sig.digest.accrued, sig.digest.deadline, sig)
        \/ \E c \in Accounts :
             cancelStream(c, id, sig.digest.accrued, sig.digest.deadline, sig)

AskChallenge ==
    /\ Cardinality(challenges) < MaxChallenges
    /\ \E a \in Askers, d \in Domains, id \in StreamIds, h \in Hashes, s \in IssueTimes :
         SignChallenge(a[1], d, id, h, a[2], s)

\* A request may name another operation or stream than its challenge does; the
\* other fields are the challenge's own (a wrong one is refused in the same way).
AskEnclave ==
    /\ Cardinality(authorizations) < MaxAuthorizations
    /\ \E tag \in Tags, id \in StreamIds, sealed \in Ciphertexts, sig \in challenges,
          nowSec \in ClockReadings :
         LET c == sig.challenge
         IN  Begin(tag, c.domain, id, c.commitment, sealed, c.issuedAt, sig, nowSec)

EnclaveStep ==
    /\ entered = 1
    /\ \/ AskChallenge
       \/ AskEnclave
       \/ Sign
       \/ Refuse
       \/ Crash
       \/ \E k \in SealingKeys \cup {NoKey}, s \in Signers \cup {ZeroAddress} : Redeploy(k, s)

Next ==
    \/ VaultStep /\ UNCHANGED enclaveVars
    \/ Redeem /\ UNCHANGED enclaveVars
    \/ EnclaveStep /\ UNCHANGED vaultVars

Spec == Init /\ [][Next]_vars

------------------------------------------------------------------------------
(* Fairness.  Transactions end: gas runs out.  Blocks keep coming.  The      *)
(* recipient keeps asking and submitting, the enclave is up often enough to  *)
(* finish a request, and a token is not broken for good.  Nothing is assumed *)
(* of employers, of the owner, of whoever redeploys the TEE or of anybody    *)
(* else's requests.                                                          *)

RecipientAsks(id) ==
    /\ entered = 1
    /\ \E s \in IssueTimes :
         /\ Fresh(s, chainTime)
         /\ SignChallenge(streams[id].recipient, Here, id, streams[id].commitment,
                          WithdrawTag, s)
    /\ UNCHANGED vaultVars

RecipientRequests(id) ==
    /\ entered = 1
    /\ \E sig \in challenges, sealed \in Ciphertexts, nowSec \in ClockReadings :
         /\ sig.signer = streams[id].recipient
         /\ sig.challenge.commitment = streams[id].commitment
         /\ Begin(WithdrawTag, Here, id, sig.challenge.commitment, sealed,
                  sig.challenge.issuedAt, sig, nowSec)
    /\ UNCHANGED vaultVars

RecipientWithdraws(id) ==
    /\ \E sig \in authorizations :
         withdraw(id, sig.digest.accrued, sig.digest.deadline, sig)
    /\ UNCHANGED enclaveVars

RecipientIsAnswered(id) ==
    /\ entered = 1
    /\ running # Idle
    /\ running.callerSignature.signer = streams[id].recipient
    /\ Sign
    /\ UNCHANGED vaultVars

Fairness ==
    /\ SF_vars(Tick /\ UNCHANGED enclaveVars)
    /\ WF_vars((Return \/ Revert) /\ UNCHANGED enclaveVars)
    /\ SF_vars(entered = 1 /\ (Sign \/ Refuse) /\ UNCHANGED vaultVars)
    /\ \A id \in StreamIds :
         /\ SF_vars(RecipientAsks(id))
         /\ SF_vars(RecipientRequests(id))
         /\ SF_vars(RecipientIsAnswered(id))
         /\ SF_vars(RecipientWithdraws(id))
         /\ SF_vars(TransferOut(id) /\ UNCHANGED enclaveVars)

FairSpec == Spec /\ Fairness

------------------------------------------------------------------------------
(* Properties *)

EnclaveTypeOK ==
    /\ eciesKey \in SealingKeys \cup {NoKey}
    /\ signerKey \in Signers \cup {ZeroAddress}
    /\ challenges \subseteq [signer : Accounts, challenge : Challenges]
    /\ running # Idle =>
         /\ running.tag \in Tags
         /\ running.domain \in Domains
         /\ running.streamId \in StreamIds
         /\ running.terms \in Terms
         /\ running.commitment = Keccak[running.terms]
         /\ Decode[running.terms] # Malformed
         /\ running.callerSignature \in challenges
         /\ running.nowSec \in Nat
         /\ running.key \in Signers
    /\ \A a \in authorizations :
         /\ a.signer \in Signers
         /\ a.digest.accrued \in Nat
         /\ a.digest.deadline \in Nat

TypeOK == VaultTypeOK /\ EnclaveTypeOK

\* The valid terms behind a commitment: at most one.
TermsBehind(commitment) ==
    {t \in Terms : Keccak[t] = commitment /\ Decode[t] # Malformed}

\* No recipient is ever ahead of the salary: what a stream has paid is at most
\* what its sealed terms say has accrued by the time on chain, give or take
\* the skew of the clocks, whichever authorizations were submitted, replayed or
\* reordered and whichever keys were rotated.  A stream whose commitment hides
\* no valid terms pays nothing.
NeverOverpaid ==
    \A id \in StreamIds :
        streams[id].withdrawn > 0 =>
            \E t \in TermsBehind(streams[id].commitment) :
                streams[id].withdrawn <= accruedAt(Decode[t], chainTime + MaxSkew)

\* What settling a stream leaves its recipient with: at least what had accrued
\* AUTH_TTL_SECONDS before the cancellation, as far as it was funded.
SettlementFloor ==
    [][\A id \in StreamIds :
         ~committedStreams[id].cancelled /\ committedStreams'[id].cancelled =>
            \A t \in TermsBehind(committedStreams[id].commitment) :
                committedStreams'[id].withdrawn >=
                    Lesser(committedStreams[id].funded,
                           accruedAt(Decode[t], chainTime - AUTH_TTL_SECONDS))
      ]_vars

\* What the comment on cancelStream says instead: the recipient is left with
\* what accrued up to cancellation.  An authorization stays good for
\* AUTH_TTL_SECONDS, so an employer can settle with one that is that old.
SettledToTheMoment ==
    [][\A id \in StreamIds :
         ~committedStreams[id].cancelled /\ committedStreams'[id].cancelled =>
            \A t \in TermsBehind(committedStreams[id].commitment) :
                committedStreams'[id].withdrawn >=
                    Lesser(committedStreams[id].funded,
                           accruedAt(Decode[t], chainTime - MaxSkew))
      ]_vars

\* Nobody but a party can move money: when a stream's withdrawn figure grows,
\* a party named in the sealed terms had signed a challenge for this stream
\* and purpose, dated no longer ago than the freshness window and the life of
\* an authorization together allow.  Only the employer's will do
\* for a settlement.
PartyAsked(id, tag) ==
    \E c \in challenges :
        /\ c.challenge.domain = Here
        /\ c.challenge.streamId = id
        /\ c.challenge.commitment = streams[id].commitment
        /\ c.challenge.purpose = tag
        /\ chainTime <= c.challenge.issuedAt + CALLER_AUTH_WINDOW_SECONDS + AUTH_TTL_SECONDS
        /\ \E t \in TermsBehind(streams[id].commitment) :
             \/ c.signer = Decode[t].employer
             \/ c.signer = Decode[t].recipient /\ tag = WithdrawTag

PaidOnRequest ==
    [][\A id \in StreamIds :
         /\ streams'[id].withdrawn > streams[id].withdrawn /\ ~streams'[id].cancelled
              => PartyAsked(id, WithdrawTag)
         /\ ~streams[id].cancelled /\ streams'[id].cancelled
              => PartyAsked(id, SettleTag)
      ]_vars

\* An auditor who is shown a stream's terms can recompute every figure the
\* vault can be made to accept for it: the terms a reveal proves are the ones
\* the enclave used, even when another blob was sent along with the request.
AuditSound ==
    \A r \in revealed, a \in authorizations :
        a.digest.commitment = streams[r[1]].commitment =>
            /\ Decode[r[2]] # Malformed
            /\ a.digest.accrued = accruedAt(Decode[r[2]], a.digest.deadline - AUTH_TTL_SECONDS)

\* The recipient is paid in the end.  Once the keys are in order for good (the
\* vault trusts the key the enclave signs with, the enclave can open the
\* sealed terms), a stream whose recipient is the one its terms name pays what
\* has accrued and is funded, or is settled, whatever crashes, failed token
\* calls, foreign requests and rotations came before.
KeysInOrder == teeSigner = signerKey /\ signerKey # ZeroAddress /\ eciesKey # NoKey

Owed(id, amount) ==
    /\ entered = 1
    /\ ~streams[id].cancelled
    /\ streams[id].funded >= amount
    /\ \E t \in TermsBehind(streams[id].commitment) :
         /\ Decode[t].recipient = streams[id].recipient
         /\ accruedAt(Decode[t], chainTime - MaxSkew) >= amount

Got(id, amount) == paid[id] >= amount \/ streams[id].cancelled

RecipientPaid ==
    <>[]KeysInOrder =>
        \A id \in StreamIds, amount \in 1..MaxUint128 : Owed(id, amount) ~> Got(id, amount)
==============================================================================
