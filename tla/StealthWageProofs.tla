-------------------------- MODULE StealthWageProofs --------------------------
(***************************************************************************)
(* Proofs about the whole system, for all accounts, keys, terms, rates,    *)
(* token amounts, clocks within MaxSkew of the chain's, and any number of  *)
(* streams, challenges and authorizations.                                 *)
(*                                                                         *)
(* The invariants speak of what the vault has paid; what makes them        *)
(* inductive is what is true of every authorization the enclave ever gave  *)
(* out (Backed), of the request it is handling (RunningInv), and of the    *)
(* state a running call would revert to.                                   *)
(***************************************************************************)
EXTENDS StealthWage, StreamVaultProofs

\* What an authorization attests: valid terms behind its commitment, the
\* figure they give at a moment the enclave's clock has shown, and a party's
\* challenge for the same stream and purpose, fresh at that moment.
AskedBy(d, t, c) ==
    /\ c.challenge.domain = d.domain
    /\ c.challenge.streamId = d.streamId
    /\ c.challenge.commitment = d.commitment
    /\ c.challenge.purpose = d.tag
    /\ c.challenge.issuedAt \in Nat
    /\ d.deadline <= c.challenge.issuedAt + CALLER_AUTH_WINDOW_SECONDS + AUTH_TTL_SECONDS
    /\ \/ c.signer = Decode[t].employer
       \/ c.signer = Decode[t].recipient /\ d.tag = WithdrawTag

Backed(d) ==
    \E t \in TermsBehind(d.commitment) :
        /\ d.accrued = accruedAt(Decode[t], d.deadline - AUTH_TTL_SECONDS)
        /\ d.deadline - AUTH_TTL_SECONDS <= chainTime + MaxSkew
        /\ \E c \in challenges : AskedBy(d, t, c)

AuthInv == \A a \in authorizations : Backed(a.digest)

\* The request between its awaits.
RunningInv ==
    running # Idle =>
        /\ running.nowSec <= chainTime + MaxSkew
        /\ running.issuedAt \in Nat
        /\ running.nowSec <= running.issuedAt + CALLER_AUTH_WINDOW_SECONDS

\* Nobody is ahead of the salary, in these streams.
Earned(ss) ==
    \A id \in StreamIds :
        ss[id].withdrawn > 0 =>
            \E t \in TermsBehind(ss[id].commitment) :
                ss[id].withdrawn <= accruedAt(Decode[t], chainTime + MaxSkew)

EarnedInv == Earned(streams) /\ (entered = 2 => Earned(saved.streams))

SInv == IInv /\ EnclaveTypeOK /\ RunningInv /\ AuthInv /\ EarnedInv

------------------------------------------------------------------------------
(* Facts about the parts *)

\* A valid blob of terms has an accrual.
LEMMA TermsAccrue ==
    ASSUME NEW h, NEW t \in TermsBehind(h)
    PROVE  /\ t \in Terms
           /\ HasAccrual(Decode[t])
           /\ Decode[t].employer \in Accounts
           /\ Decode[t].recipient \in Accounts
  BY EnclaveAssumption DEF TermsBehind

\* A commitment hides one blob only.
LEMMA OneBlob ==
    ASSUME NEW h, NEW t \in TermsBehind(h), NEW u \in TermsBehind(h)
    PROVE  t = u
  BY WorldAssumption DEF TermsBehind, IsInjective

\* Time on chain only moves forward, and only between transactions.
LEMMA TimeMoves ==
    ASSUME IInv, [Next]_vars
    PROVE  /\ chainTime \in Nat
           /\ chainTime' \in Nat
           /\ chainTime' >= chainTime
           /\ entered = 2 => chainTime' = chainTime
  <1>1. chainTime \in Nat
    BY VaultAssumption DEF IInv, VaultTypeOK
  <1>2. CASE Tick
    BY <1>1, <1>2 DEF Tick
  <1>3. CASE VaultStep /\ ~Tick
    <2>1. ASSUME NEW c \in Accounts, NEW g, setTeeSigner(c, g) PROVE chainTime' = chainTime
      BY <2>1 DEF setTeeSigner
    <2>2. ASSUME NEW c \in Accounts, NEW r, NEW t, NEW h, createStream(c, r, t, h)
          PROVE  chainTime' = chainTime
      BY <2>2 DEF createStream
    <2>3. ASSUME NEW id \in StreamIds, NEW t \in Terms, revealTerms(id, t)
          PROVE  chainTime' = chainTime
      BY <2>3 DEF revealTerms
    <2>4. ASSUME NEW c \in Accounts, NEW id \in StreamIds, NEW n \in Amounts, fund(c, id, n)
          PROVE  chainTime' = chainTime
      BY <2>4 DEF fund
    <2>5. ASSUME NEW id \in StreamIds, TransferIn(id) \/ TransferOut(id) \/ TransferBack(id)
          PROVE  chainTime' = chainTime
      BY <2>5 DEF TransferIn, TransferOut, TransferBack
    <2>6. ASSUME Return \/ Revert PROVE chainTime' = chainTime
      BY <2>6 DEF Return, Revert
    <2>7. chainTime' = chainTime
      BY <1>3, <2>1, <2>2, <2>3, <2>4, <2>5, <2>6 DEF VaultStep
    <2> QED
      BY <1>1, <2>7
  <1>4. CASE Redeem
    BY <1>1, <1>4 DEF Redeem, withdraw, cancelStream
  <1>5. CASE UNCHANGED vaultVars
    BY <1>1, <1>5 DEF vaultVars
  <1> QED
    BY <1>2, <1>3, <1>4, <1>5 DEF Next, vars

\* The vault's own invariant holds in the system.
LEMMA VaultPart ==
    ASSUME IInv, EnclaveTypeOK, [Next]_vars
    PROVE  IInv'
  <1>1. CASE VaultStep
    BY <1>1, SetTeeSignerInv, CreateStreamInv, RevealTermsInv, FundInv, TransferInInv,
       TransferOutInv, TransferBackInv, ReturnInv, RevertInv, TickInv DEF VaultStep
  <1>2. CASE Redeem
    <2>1. PICK id \in StreamIds, sig \in authorizations :
            \/ withdraw(id, sig.digest.accrued, sig.digest.deadline, sig)
            \/ \E c \in Accounts :
                 cancelStream(c, id, sig.digest.accrued, sig.digest.deadline, sig)
      BY <1>2 DEF Redeem
    <2>2. sig.digest.accrued \in Nat
      BY DEF EnclaveTypeOK
    <2> QED
      BY <2>1, <2>2, WithdrawInv, CancelStreamInv
  <1>3. CASE UNCHANGED vaultVars
    BY <1>3, NextInv
  <1> QED
    BY <1>1, <1>2, <1>3 DEF Next, vars

------------------------------------------------------------------------------
(* The enclave *)

\* The enclave's state stays well typed.
LEMMA EnclavePart ==
    ASSUME EnclaveTypeOK, [Next]_vars
    PROVE  EnclaveTypeOK'
  <1>1. CASE UNCHANGED enclaveVars
    BY <1>1 DEF enclaveVars, EnclaveTypeOK
  <1>2. CASE AskChallenge
    <2>1. PICK a \in Askers, d \in Domains, id \in StreamIds, h \in Hashes, s \in IssueTimes :
            SignChallenge(a[1], d, id, h, a[2], s)
      BY <1>2 DEF AskChallenge
    <2> DEFINE c == buildCallerChallenge(d, id, h, a[2], s)
    <2>2. a[1] \in Accounts /\ a[2] \in Tags
      BY SystemAssumption DEF Tags, WITHDRAW_TAG, SETTLE_TAG, WithdrawTag, SettleTag
    <2>3. c \in Challenges
      BY <2>2 DEF Challenges, buildCallerChallenge
    <2>4. /\ challenges' = challenges \cup {[signer |-> a[1], challenge |-> c]}
          /\ UNCHANGED <<eciesKey, signerKey, running, authorizations>>
      BY <2>1 DEF SignChallenge
    <2> HIDE DEF c
    <2> QED
      BY <2>2, <2>3, <2>4 DEF EnclaveTypeOK
  <1>3. CASE AskEnclave
    <2>1. PICK tag \in Tags, id \in StreamIds, sealed \in Ciphertexts, sig \in challenges,
               nowSec \in ClockReadings :
            Begin(tag, sig.challenge.domain, id, sig.challenge.commitment, sealed,
                  sig.challenge.issuedAt, sig, nowSec)
      BY <1>3 DEF AskEnclave
    <2>2. sig.challenge.domain \in Domains
      BY DEF EnclaveTypeOK, Challenges
    <2>3. sealed.terms \in Terms /\ nowSec \in Nat
      BY DEF Ciphertexts, ClockReadings
    <2>4. signerKey \in Signers
      BY <2>1 DEF Begin, EnclaveTypeOK
    <2> QED
      BY <2>1, <2>2, <2>3, <2>4 DEF Begin, EnclaveTypeOK, CommitsTo
  <1>4. CASE Sign
    <2> DEFINE a == authorizationOf(running)
    <2>1. HasAccrual(Decode[running.terms]) /\ running # Idle
      BY <1>4, EnclaveAssumption DEF Sign, EnclaveTypeOK
    <2>2. running.nowSec \in Nat /\ running.key \in Signers
      BY <2>1 DEF EnclaveTypeOK
    <2>3. cumulativeAccrued(running) \in Nat
      BY <2>1, <2>2, AccruedBounded DEF cumulativeAccrued
    <2>4. a.signer \in Signers /\ a.digest.accrued \in Nat /\ a.digest.deadline \in Nat
      BY <2>2, <2>3, ProtocolAssumption DEF authorizationOf, buildAuthDigest
    <2>5. /\ authorizations' = authorizations \cup {a}
          /\ running' = Idle
          /\ UNCHANGED <<eciesKey, signerKey, challenges>>
      BY <1>4 DEF Sign
    <2> HIDE DEF a
    <2> QED
      BY <2>4, <2>5 DEF EnclaveTypeOK
  <1>5. CASE Refuse \/ Crash
    BY <1>5 DEF Refuse, Crash, EnclaveTypeOK
  <1>6. ASSUME NEW k \in SealingKeys \cup {NoKey}, NEW g \in Signers \cup {ZeroAddress},
               Redeploy(k, g)
        PROVE  EnclaveTypeOK'
    BY <1>6 DEF Redeploy, EnclaveTypeOK
  <1> QED
    BY <1>1, <1>2, <1>3, <1>4, <1>5, <1>6 DEF Next, vars, EnclaveStep

\* An authorization that is backed stays so as time passes and more
\* challenges are signed.
LEMMA BackedStays ==
    ASSUME NEW d, Backed(d), d.deadline \in Nat, chainTime \in Nat, chainTime' \in Nat,
           chainTime' >= chainTime, challenges \subseteq challenges'
    PROVE  Backed(d)'
  <1>1. PICK t \in TermsBehind(d.commitment) :
          /\ d.accrued = accruedAt(Decode[t], d.deadline - AUTH_TTL_SECONDS)
          /\ d.deadline - AUTH_TTL_SECONDS <= chainTime + MaxSkew
          /\ \E c \in challenges : AskedBy(d, t, c)
    BY DEF Backed
  <1>2. d.deadline - AUTH_TTL_SECONDS <= chainTime' + MaxSkew
    BY <1>1, ProtocolAssumption, SystemAssumption
  <1> QED
    BY <1>1, <1>2 DEF Backed

\* What Sign hands out is backed: the request was well formed when it began,
\* and the caller recovered from its challenge is a party.
LEMMA SignBacks ==
    ASSUME EnclaveTypeOK, RunningInv, chainTime \in Nat, Sign
    PROVE  Backed(authorizationOf(running).digest)
  <1> DEFINE r == running
             t == running.terms
             d == authorizationOf(running).digest
             c == running.callerSignature
  <1>1. /\ r # Idle /\ t \in Terms /\ r.commitment = Keccak[t] /\ Decode[t] # Malformed
        /\ c \in challenges /\ r.nowSec \in Nat /\ r.issuedAt \in Nat
        /\ r.nowSec <= chainTime + MaxSkew
        /\ r.nowSec <= r.issuedAt + CALLER_AUTH_WINDOW_SECONDS
    BY DEF Sign, EnclaveTypeOK, RunningInv
  <1>2. /\ d.tag = r.tag /\ d.domain = r.domain /\ d.streamId = r.streamId
        /\ d.commitment = r.commitment /\ d.accrued = accruedAt(Decode[t], r.nowSec)
        /\ d.deadline = r.nowSec + AUTH_TTL_SECONDS
    BY DEF authorizationOf, buildAuthDigest, cumulativeAccrued
  <1>3. t \in TermsBehind(d.commitment)
    BY <1>1, <1>2 DEF TermsBehind
  <1>4. callerOf(r) \in permitted(r.tag, Decode[t])
    BY DEF Sign
  <1>5. callerOf(r) # ZeroAddress
    BY <1>3, <1>4, TermsAccrue, WorldAssumption DEF permitted
  <1>6. /\ c.challenge = buildCallerChallenge(r.domain, r.streamId, r.commitment, r.tag, r.issuedAt)
        /\ c.signer = callerOf(r)
    BY <1>5 DEF callerOf
  <1> HIDE DEF d, c
  <1>7. AskedBy(d, t, c)
    <2>1. /\ c.challenge.domain = r.domain /\ c.challenge.streamId = r.streamId
          /\ c.challenge.commitment = r.commitment /\ c.challenge.purpose = r.tag
          /\ c.challenge.issuedAt = r.issuedAt
      BY <1>6 DEF buildCallerChallenge
    <2>2. d.deadline <= c.challenge.issuedAt + CALLER_AUTH_WINDOW_SECONDS + AUTH_TTL_SECONDS
      BY <1>1, <1>2, <2>1, ProtocolAssumption
    <2>3. r.tag \in Tags
      BY <1>1 DEF EnclaveTypeOK
    <2>4. \/ c.signer = Decode[t].employer
          \/ c.signer = Decode[t].recipient /\ d.tag = WithdrawTag
      BY <1>2, <1>4, <1>6, <2>3 DEF permitted, Tags
    <2> QED
      BY <1>1, <1>2, <2>1, <2>2, <2>4 DEF AskedBy
  <1>8. d.deadline - AUTH_TTL_SECONDS = r.nowSec
    BY <1>1, <1>2, ProtocolAssumption
  <1>9. Backed(d)
    BY <1>1, <1>2, <1>3, <1>7, <1>8 DEF Backed
  <1> QED
    BY <1>9 DEF d

\* Every authorization ever given out is backed.
LEMMA AuthPart ==
    ASSUME IInv, EnclaveTypeOK, RunningInv, AuthInv, [Next]_vars
    PROVE  AuthInv'
  <1>1. /\ chainTime \in Nat /\ chainTime' \in Nat /\ chainTime' >= chainTime
    BY TimeMoves
  <1>2. challenges \subseteq challenges' /\ (authorizations' = authorizations \/ Sign)
    BY DEF Next, vars, EnclaveStep, AskChallenge, SignChallenge, AskEnclave, Begin, Refuse,
           Crash, Redeploy, enclaveVars, Sign
  <1>3. ASSUME NEW a \in authorizations PROVE Backed(a.digest)'
    BY <1>1, <1>2, <1>3, BackedStays DEF AuthInv, EnclaveTypeOK
  <1>4. CASE authorizations' = authorizations
    BY <1>3, <1>4 DEF AuthInv
  <1>5. CASE Sign
    <2>1. PICK a : a = authorizationOf(running)
      OBVIOUS
    <2>2. authorizations' = authorizations \cup {a}
      BY <1>5, <2>1 DEF Sign
    <2>3. a.digest.deadline \in Nat
      BY <2>2, EnclavePart DEF EnclaveTypeOK
    <2>4. Backed(a.digest)
      BY <1>1, <1>5, <2>1, SignBacks
    <2>5. Backed(a.digest)'
      BY <1>1, <1>2, <2>3, <2>4, BackedStays
    <2> QED
      BY <1>3, <2>2, <2>5 DEF AuthInv
  <1> QED
    BY <1>2, <1>4, <1>5

\* The clock the running request has read is not ahead of time, and its
\* challenge was fresh by that clock.
LEMMA RunningPart ==
    ASSUME IInv, EnclaveTypeOK, RunningInv, [Next]_vars
    PROVE  RunningInv'
  <1>1. /\ chainTime \in Nat /\ chainTime' \in Nat /\ chainTime' >= chainTime
    BY TimeMoves
  <1>2. CASE running' = running
    BY <1>1, <1>2, SystemAssumption DEF RunningInv, EnclaveTypeOK
  <1>3. CASE running' = Idle
    BY <1>3 DEF RunningInv
  <1>4. CASE AskEnclave /\ UNCHANGED vaultVars
    <2>1. PICK tag \in Tags, id \in StreamIds, sealed \in Ciphertexts, sig \in challenges,
               nowSec \in ClockReadings :
            Begin(tag, sig.challenge.domain, id, sig.challenge.commitment, sealed,
                  sig.challenge.issuedAt, sig, nowSec)
      BY <1>4 DEF AskEnclave
    <2>2. sig.challenge.issuedAt \in Nat
      BY EnclaveAssumption DEF EnclaveTypeOK, Challenges
    <2>3. nowSec \in Nat /\ nowSec <= chainTime + MaxSkew
      BY <1>1, SystemAssumption DEF ClockReadings
    <2>4. nowSec <= sig.challenge.issuedAt + CALLER_AUTH_WINDOW_SECONDS
      <3>1. Fresh(sig.challenge.issuedAt, nowSec)
        BY <2>1 DEF Begin
      <3> QED
        BY <3>1, <2>2, <2>3, ProtocolAssumption DEF Fresh
    <2>5. running'.nowSec = nowSec /\ running'.issuedAt = sig.challenge.issuedAt
      BY <2>1 DEF Begin
    <2>6. chainTime' = chainTime
      BY <1>4 DEF vaultVars
    <2> QED
      BY <2>2, <2>3, <2>4, <2>5, <2>6 DEF RunningInv
  <1> QED
    BY <1>2, <1>3, <1>4 DEF Next, vars, EnclaveStep, AskChallenge, SignChallenge, Refuse,
           Crash, Redeploy, enclaveVars, Sign

------------------------------------------------------------------------------
(* The vault and the enclave together *)

\* What the vault checks before it honours an authorization.
LEMMA AcceptedIsBacked ==
    ASSUME AuthInv, NEW sig \in authorizations, NEW tag, NEW id \in StreamIds,
           Authorized(tag, id, sig.digest.accrued, sig.digest.deadline, sig)
    PROVE  /\ sig.digest.tag = tag
           /\ sig.digest.domain = Here
           /\ sig.digest.streamId = id
           /\ sig.digest.commitment = streams[id].commitment
           /\ chainTime <= sig.digest.deadline
           /\ Backed(sig.digest)
  <1>1. sig.digest = Digest(tag, Here, id, streams[id].commitment,
                            sig.digest.accrued, sig.digest.deadline)
    BY DEF Authorized, recoverEthSigned
  <1>2. /\ sig.digest.tag = tag /\ sig.digest.domain = Here /\ sig.digest.streamId = id
        /\ sig.digest.commitment = streams[id].commitment
    BY <1>1 DEF Digest
  <1> QED
    BY <1>2 DEF AuthInv, Authorized, NotExpired

\* A figure the vault accepts lies between what had accrued a lifetime of an
\* authorization ago and what has accrued by now, skew included.
LEMMA AcceptedFigure ==
    ASSUME IInv, EnclaveTypeOK, AuthInv, NEW sig \in authorizations, NEW tag,
           NEW id \in StreamIds,
           Authorized(tag, id, sig.digest.accrued, sig.digest.deadline, sig)
    PROVE  \E t \in TermsBehind(streams[id].commitment) :
             /\ sig.digest.accrued <= accruedAt(Decode[t], chainTime + MaxSkew)
             /\ accruedAt(Decode[t], chainTime - AUTH_TTL_SECONDS) <= sig.digest.accrued
  <1> DEFINE d == sig.digest
  <1>1. /\ d.commitment = streams[id].commitment /\ chainTime <= d.deadline /\ Backed(d)
    BY AcceptedIsBacked
  <1>2. PICK t \in TermsBehind(streams[id].commitment) :
          /\ d.accrued = accruedAt(Decode[t], d.deadline - AUTH_TTL_SECONDS)
          /\ d.deadline - AUTH_TTL_SECONDS <= chainTime + MaxSkew
    BY <1>1 DEF Backed
  <1>3. chainTime \in Nat /\ d.deadline \in Nat
    BY VaultAssumption DEF IInv, VaultTypeOK, EnclaveTypeOK
  <1>4. HasAccrual(Decode[t])
    BY TermsAccrue
  <1> HIDE DEF d
  <1>5. /\ d.deadline - AUTH_TTL_SECONDS \in Int
        /\ chainTime + MaxSkew \in Int
        /\ chainTime - AUTH_TTL_SECONDS \in Int
        /\ chainTime - AUTH_TTL_SECONDS <= d.deadline - AUTH_TTL_SECONDS
    BY <1>1, <1>3, ProtocolAssumption, SystemAssumption
  <1>6. d.accrued <= accruedAt(Decode[t], chainTime + MaxSkew)
    BY <1>2, <1>4, <1>5, AccruedMonotone
  <1>7. accruedAt(Decode[t], chainTime - AUTH_TTL_SECONDS) <= d.accrued
    BY <1>2, <1>4, <1>5, AccruedMonotone
  <1> QED
    BY <1>6, <1>7 DEF d

\* What each step of the vault does to a stream, as far as payments go: the
\* figure stays with its commitment, or is set by an authorization.
UnpaidStep ==
    \A id \in StreamIds :
        \/ streams'[id].withdrawn = 0 /\ ~streams'[id].cancelled /\ streams[id] = NoStream
        \/ /\ streams'[id].withdrawn = streams[id].withdrawn
           /\ streams'[id].commitment = streams[id].commitment
           /\ streams'[id].cancelled = streams[id].cancelled

LEMMA StepsThatPayNobody ==
    ASSUME IInv, VaultStep, ~Revert
    PROVE  UnpaidStep
  <1> USE DEF UnpaidStep
  <1>0. streams \in [StreamIds -> Stream]
    BY DEF IInv, VaultTypeOK
  <1>1. ASSUME NEW c \in Accounts, NEW r, NEW t, NEW h, createStream(c, r, t, h)
        PROVE  UnpaidStep
    <2> DEFINE n == [employer |-> c, recipient |-> r, token |-> t, commitment |-> h,
                     funded |-> 0, withdrawn |-> 0, cancelled |-> FALSE]
    <2>1. streams' = [streams EXCEPT ![nextStreamId] = n]
      BY <1>1 DEF createStream
    <2>2. n.withdrawn = 0 /\ n.cancelled = FALSE
      OBVIOUS
    <2>3. \A id \in StreamIds : id = nextStreamId => streams[id] = NoStream
      BY DEF IInv, BooksInv, Kept, VaultTypeOK, StreamIds
    <2> HIDE DEF n
    <2> QED
      BY <1>0, <2>1, <2>2, <2>3
  <1>2. ASSUME NEW c \in Accounts, NEW i \in StreamIds, NEW n \in Amounts, fund(c, i, n)
        PROVE  UnpaidStep
    <2> DEFINE s == [streams[i] EXCEPT !.funded = @ + n]
    <2>1. streams' = [streams EXCEPT ![i] = s]
      BY <1>2 DEF fund
    <2>2. streams[i] \in Stream
      BY <1>0
    <2>3. /\ s.withdrawn = streams[i].withdrawn /\ s.commitment = streams[i].commitment
          /\ s.cancelled = streams[i].cancelled
      BY <2>2 DEF Stream
    <2> HIDE DEF s
    <2> QED
      BY <1>0, <2>1, <2>3
  <1>3. CASE streams' = streams
    BY <1>3
  <1>4. ASSUME NEW c \in Accounts, NEW g, setTeeSigner(c, g) PROVE UNCHANGED streams
    BY <1>4 DEF setTeeSigner
  <1>5. ASSUME NEW id \in StreamIds, NEW t \in Terms, revealTerms(id, t) PROVE UNCHANGED streams
    BY <1>5 DEF revealTerms
  <1>6. ASSUME NEW id \in StreamIds, TransferIn(id) \/ TransferOut(id) \/ TransferBack(id)
        PROVE  UNCHANGED streams
    BY <1>6 DEF TransferIn, TransferOut, TransferBack, storage
  <1>7. ASSUME Return \/ Tick PROVE UNCHANGED streams
    BY <1>7 DEF Return, Tick, storage
  <1> QED
    BY <1>1, <1>2, <1>3, <1>4, <1>5, <1>6, <1>7 DEF VaultStep

\* What an honoured authorization writes.
LEMMA WithdrawWrites ==
    ASSUME IInv, NEW id \in StreamIds, NEW a \in Nat, NEW d, NEW sig, withdraw(id, a, d, sig)
    PROVE  /\ streams'[id].withdrawn = Lesser(a, streams[id].funded)
           /\ streams'[id].commitment = streams[id].commitment
           /\ streams'[id].cancelled = streams[id].cancelled
           /\ \A o \in StreamIds \ {id} : streams'[o] = streams[o]
           /\ streams[id].withdrawn < Lesser(a, streams[id].funded)
           /\ Authorized(WITHDRAW_TAG, id, a, d, sig)
           /\ entered = 1 /\ Enter
  <1> DEFINE cap == Lesser(a, streams[id].funded)
             s == [streams[id] EXCEPT !.withdrawn = ToUint128(cap)]
  <1>1. streams \in [StreamIds -> Stream] /\ streams[id] \in Stream
    BY DEF IInv, VaultTypeOK
  <1>2. streams[id].funded \in Uint128
    BY <1>1 DEF Stream
  <1>3. cap \in Uint128
    BY <1>2, VaultAssumption DEF Lesser, Uint128
  <1>4. ToUint128(cap) = cap
    BY <1>3, CastKeeps
  <1>5. streams' = [streams EXCEPT ![id] = s]
    BY DEF withdraw
  <1>6. /\ s.withdrawn = cap /\ s.commitment = streams[id].commitment
        /\ s.cancelled = streams[id].cancelled
    BY <1>1, <1>4 DEF Stream
  <1>7. /\ cap > streams[id].withdrawn /\ nonReentrant /\ Enter
        /\ Authorized(WITHDRAW_TAG, id, a, d, sig)
    BY DEF withdraw
  <1>8. streams[id].withdrawn < cap
    BY <1>1, <1>3, <1>7 DEF Stream, Uint128
  <1> HIDE DEF s
  <1>9. streams'[id] = s /\ \A o \in StreamIds \ {id} : streams'[o] = streams[o]
    BY <1>1, <1>5
  <1> QED
    BY <1>6, <1>7, <1>8, <1>9 DEF nonReentrant

LEMMA CancelWrites ==
    ASSUME IInv, NEW c, NEW id \in StreamIds, NEW a \in Nat, NEW d, NEW sig,
           cancelStream(c, id, a, d, sig)
    PROVE  /\ streams'[id].withdrawn =
                 Larger(Lesser(a, streams[id].funded), streams[id].withdrawn)
           /\ streams'[id].commitment = streams[id].commitment
           /\ streams'[id].cancelled
           /\ ~streams[id].cancelled
           /\ \A o \in StreamIds \ {id} : streams'[o] = streams[o]
           /\ Authorized(SETTLE_TAG, id, a, d, sig)
           /\ entered = 1 /\ Enter
  <1> DEFINE w == Larger(Lesser(a, streams[id].funded), streams[id].withdrawn)
             s == [streams[id] EXCEPT !.cancelled = Closed(streams[id]),
                                      !.withdrawn = ToUint128(w)]
  <1>1. streams \in [StreamIds -> Stream] /\ streams[id] \in Stream
    BY DEF IInv, VaultTypeOK
  <1>2. streams[id].funded \in Uint128 /\ streams[id].withdrawn \in Uint128
    BY <1>1 DEF Stream
  <1>3. w \in Uint128
    BY <1>2, VaultAssumption DEF Lesser, Larger, Uint128
  <1>4. ToUint128(w) = w
    BY <1>3, CastKeeps
  <1>5. streams' = [streams EXCEPT ![id] = s]
    BY DEF cancelStream
  <1>6. s.withdrawn = w /\ s.commitment = streams[id].commitment /\ s.cancelled
    BY <1>1, <1>4 DEF Stream, Closed
  <1>7. ~streams[id].cancelled /\ nonReentrant /\ Enter /\ Authorized(SETTLE_TAG, id, a, d, sig)
    BY DEF cancelStream
  <1> HIDE DEF s
  <1>8. streams'[id] = s /\ \A o \in StreamIds \ {id} : streams'[o] = streams[o]
    BY <1>1, <1>5
  <1> QED
    BY <1>6, <1>7, <1>8 DEF nonReentrant

LEMMA AddMonotone ==
    ASSUME NEW m \in Nat, NEW n \in Nat, NEW k \in Nat, m <= n
    PROVE  /\ m + k \in Int /\ n + k \in Int
           /\ m + k <= n + k
  OBVIOUS

\* Being behind the salary survives the passing of time.
LEMMA EarnedStays ==
    ASSUME NEW ss, Earned(ss), chainTime \in Nat, chainTime' \in Nat,
           chainTime' >= chainTime, NEW id \in StreamIds,
           ss[id].withdrawn \in Nat, ss[id].withdrawn > 0
    PROVE  \E t \in TermsBehind(ss[id].commitment) :
             ss[id].withdrawn <= accruedAt(Decode[t], chainTime' + MaxSkew)
  <1>1. PICK t \in TermsBehind(ss[id].commitment) :
          ss[id].withdrawn <= accruedAt(Decode[t], chainTime + MaxSkew)
    BY DEF Earned
  <1>2. HasAccrual(Decode[t])
    BY TermsAccrue
  <1>3. /\ chainTime + MaxSkew \in Int /\ chainTime' + MaxSkew \in Int
        /\ chainTime + MaxSkew <= chainTime' + MaxSkew
    BY AddMonotone, SystemAssumption
  <1>4. /\ accruedAt(Decode[t], chainTime + MaxSkew) \in Nat
        /\ accruedAt(Decode[t], chainTime' + MaxSkew) \in Nat
        /\ accruedAt(Decode[t], chainTime + MaxSkew) <= accruedAt(Decode[t], chainTime' + MaxSkew)
    BY <1>2, <1>3, AccruedMonotone, AccruedBounded
  <1> QED
    BY <1>1, <1>4

\* What a running call would revert to was there when it began.
LEMMA SavedWhat ==
    ASSUME IInv, EnclaveTypeOK, [Next]_vars, entered' = 2
    PROVE  \/ entered = 2 /\ saved' = saved
           \/ entered = 1 /\ saved' = Snapshot
  <1> DEFINE goal == \/ entered = 2 /\ saved' = saved
                     \/ entered = 1 /\ saved' = Snapshot
  <1>1. entered \in {1, 2}
    BY DEF IInv, VaultTypeOK
  <1>2. CASE UNCHANGED <<entered, saved>>
    BY <1>1, <1>2
  <1>3. ASSUME NEW c \in Accounts, NEW id \in StreamIds, NEW n \in Amounts, fund(c, id, n)
        PROVE  goal
    BY <1>3 DEF fund, nonReentrant, Enter
  <1>4. CASE Redeem
    <2>1. nonReentrant /\ Enter
      BY <1>4 DEF Redeem, withdraw, cancelStream
    <2> QED
      BY <2>1 DEF nonReentrant, Enter
  <1>5. ASSUME NEW c \in Accounts, NEW g, setTeeSigner(c, g) PROVE UNCHANGED <<entered, saved>>
    BY <1>5 DEF setTeeSigner
  <1>6. ASSUME NEW c \in Accounts, NEW r, NEW t, NEW h, createStream(c, r, t, h)
        PROVE  UNCHANGED <<entered, saved>>
    BY <1>6 DEF createStream
  <1>7. ASSUME NEW id \in StreamIds, NEW t \in Terms, revealTerms(id, t)
        PROVE  UNCHANGED <<entered, saved>>
    BY <1>7 DEF revealTerms
  <1>8. ASSUME NEW id \in StreamIds, TransferIn(id) \/ TransferOut(id) \/ TransferBack(id)
        PROVE  UNCHANGED <<entered, saved>>
    BY <1>8 DEF TransferIn, TransferOut, TransferBack
  <1>9. ASSUME Tick \/ UNCHANGED vaultVars PROVE UNCHANGED <<entered, saved>>
    BY <1>9 DEF Tick, vaultVars
  <1>10. ~Return /\ ~Revert
    BY DEF Return, Revert
  <1> QED
    BY <1>2, <1>3, <1>4, <1>5, <1>6, <1>7, <1>8, <1>9, <1>10 DEF Next, vars, VaultStep

LEMMA EarnedPart ==
    ASSUME SInv, [Next]_vars
    PROVE  EarnedInv'
  <1>0. IInv /\ EnclaveTypeOK /\ AuthInv /\ EarnedInv
    BY DEF SInv
  <1>1. /\ chainTime \in Nat /\ chainTime' \in Nat /\ chainTime' >= chainTime
        /\ entered = 2 => chainTime' = chainTime
    BY <1>0, TimeMoves
  <1>2. /\ streams \in [StreamIds -> Stream]
        /\ \A id \in StreamIds : streams[id].withdrawn \in Nat
        /\ entered \in {1, 2}
    BY <1>0 DEF IInv, VaultTypeOK, Stream, Uint128
  <1>3. ASSUME NEW id \in StreamIds, streams[id].withdrawn > 0
        PROVE  \E t \in TermsBehind(streams[id].commitment) :
                 streams[id].withdrawn <= accruedAt(Decode[t], chainTime' + MaxSkew)
    BY <1>0, <1>1, <1>2, <1>3, EarnedStays DEF EarnedInv
  <1>4. ASSUME UnpaidStep PROVE Earned(streams)'
    <2> SUFFICES ASSUME NEW id \in StreamIds, streams'[id].withdrawn > 0
                 PROVE  \E t \in TermsBehind(streams'[id].commitment) :
                          streams'[id].withdrawn <= accruedAt(Decode[t], chainTime' + MaxSkew)
      BY DEF Earned
    <2> QED
      BY <1>3, <1>4 DEF UnpaidStep
  <1>5. ASSUME VaultStep, ~Revert PROVE Earned(streams)'
    BY <1>0, <1>4, <1>5, StepsThatPayNobody
  <1>6. ASSUME UNCHANGED vaultVars PROVE Earned(streams)'
    <2>1. UnpaidStep
      BY <1>6 DEF UnpaidStep, vaultVars, storage
    <2> QED
      BY <1>4, <2>1
  <1>7. ASSUME Revert PROVE Earned(streams)'
    <2>1. entered = 2 /\ streams' = saved.streams /\ chainTime' = chainTime
      BY <1>7 DEF Revert, WritesUndone
    <2> QED
      BY <1>0, <2>1 DEF EarnedInv, Earned
  <1>8. ASSUME NEW id \in StreamIds, NEW sig \in authorizations,
               withdraw(id, sig.digest.accrued, sig.digest.deadline, sig)
        PROVE  Earned(streams)'
    <2> DEFINE a == sig.digest.accrued
    <2>1. a \in Nat
      BY <1>0 DEF EnclaveTypeOK
    <2>2. /\ streams'[id].withdrawn = Lesser(a, streams[id].funded)
          /\ streams'[id].commitment = streams[id].commitment
          /\ \A o \in StreamIds \ {id} : streams'[o] = streams[o]
          /\ Authorized(WITHDRAW_TAG, id, a, sig.digest.deadline, sig)
          /\ chainTime' = chainTime
      BY <1>0, <1>8, <2>1, WithdrawWrites DEF withdraw
    <2>3. PICK t \in TermsBehind(streams[id].commitment) :
            a <= accruedAt(Decode[t], chainTime + MaxSkew)
      BY <1>0, <2>2, AcceptedFigure
    <2>4. streams'[id].withdrawn <= accruedAt(Decode[t], chainTime' + MaxSkew)
      <3>1. accruedAt(Decode[t], chainTime + MaxSkew) \in Nat
        BY <1>1, TermsAccrue, AccruedBounded, AddMonotone, SystemAssumption
      <3>2. streams[id].funded \in Nat
        BY <1>2 DEF Stream, Uint128
      <3> QED
        BY <2>1, <2>2, <2>3, <3>1, <3>2 DEF Lesser
    <2> QED
      BY <1>3, <2>2, <2>4 DEF Earned
  <1>9. ASSUME NEW c \in Accounts, NEW id \in StreamIds, NEW sig \in authorizations,
               cancelStream(c, id, sig.digest.accrued, sig.digest.deadline, sig)
        PROVE  Earned(streams)'
    <2> DEFINE a == sig.digest.accrued
    <2>1. a \in Nat
      BY <1>0 DEF EnclaveTypeOK
    <2>2. /\ streams'[id].withdrawn =
               Larger(Lesser(a, streams[id].funded), streams[id].withdrawn)
          /\ streams'[id].commitment = streams[id].commitment
          /\ \A o \in StreamIds \ {id} : streams'[o] = streams[o]
          /\ Authorized(SETTLE_TAG, id, a, sig.digest.deadline, sig)
          /\ chainTime' = chainTime
      BY <1>0, <1>9, <2>1, CancelWrites DEF cancelStream
    <2>3. PICK t \in TermsBehind(streams[id].commitment) :
            a <= accruedAt(Decode[t], chainTime + MaxSkew)
      BY <1>0, <2>2, AcceptedFigure
    <2>4. \/ streams'[id].withdrawn <= accruedAt(Decode[t], chainTime' + MaxSkew)
          \/ streams'[id].withdrawn = streams[id].withdrawn
      <3>1. accruedAt(Decode[t], chainTime + MaxSkew) \in Nat
        BY <1>1, TermsAccrue, AccruedBounded, AddMonotone, SystemAssumption
      <3>2. streams[id].funded \in Nat /\ streams[id].withdrawn \in Nat
        BY <1>2 DEF Stream, Uint128
      <3> QED
        BY <2>1, <2>2, <2>3, <3>1, <3>2 DEF Lesser, Larger
    <2> QED
      BY <1>3, <2>2, <2>4 DEF Earned
  <1>10. Earned(streams)'
    BY <1>5, <1>6, <1>7, <1>8, <1>9 DEF Next, vars, Redeem
  <1>11. ASSUME entered' = 2 PROVE Earned(saved.streams)'
    <2>1. CASE entered = 2 /\ saved' = saved
      BY <1>0, <1>1, <2>1 DEF EarnedInv, Earned
    <2>2. CASE entered = 1 /\ saved' = Snapshot
      <3>1. saved'.streams = streams
        BY <2>2 DEF Snapshot
      <3> QED
        BY <1>3, <3>1 DEF Earned
    <2> QED
      BY <1>0, <1>11, <2>1, <2>2, SavedWhat
  <1> QED
    BY <1>10, <1>11 DEF EarnedInv

\* The invariant of the system is inductive.
LEMMA SystemInit == Init => SInv
  BY InitInv DEF Init, SInv, EnclaveInit, EnclaveTypeOK, RunningInv, AuthInv, EarnedInv,
                 Earned, VaultInit, NoStream

THEOREM SystemInvariance == Spec => []SInv
  <1>1. SInv /\ [Next]_vars => SInv'
    <2> SUFFICES ASSUME SInv, [Next]_vars PROVE SInv'
      OBVIOUS
    <2> QED
      BY VaultPart, EnclavePart, RunningPart, AuthPart, EarnedPart DEF SInv
  <1> QED
    BY <1>1, SystemInit, PTL DEF Spec

\* No recipient is ever ahead of the salary, whatever the parties do with the
\* authorizations they hold: for every rate, total, clock and number of streams.
THEOREM NobodyOverpaid == Spec => []NeverOverpaid
  <1>1. SInv => NeverOverpaid
    BY DEF SInv, EarnedInv, Earned, NeverOverpaid
  <1> QED
    BY <1>1, SystemInvariance, PTL

------------------------------------------------------------------------------
(* Across a transaction: what a running call has done so far to a stream,    *)
(* compared with what it would revert to.                                    *)

FloorAt(s, n) ==
    \A t \in TermsBehind(s.commitment) :
        n.withdrawn >= Lesser(s.funded, accruedAt(Decode[t], chainTime - AUTH_TTL_SECONDS))

CallInv ==
    entered = 2 =>
        \A id \in StreamIds :
            /\ saved.streams[id].withdrawn <= streams[id].withdrawn
            /\ saved.streams[id].cancelled => streams[id].cancelled
            /\ streams[id].cancelled /\ ~saved.streams[id].cancelled
                 => FloorAt(saved.streams[id], streams[id])

\* A settlement pays at least what its authorization says, and that is at
\* least what had accrued when the oldest acceptable one was signed.
LEMMA CancelFloor ==
    ASSUME IInv, EnclaveTypeOK, AuthInv, NEW c \in Accounts, NEW id \in StreamIds,
           NEW sig \in authorizations,
           cancelStream(c, id, sig.digest.accrued, sig.digest.deadline, sig)
    PROVE  \A t \in TermsBehind(streams[id].commitment) :
             streams'[id].withdrawn >=
               Lesser(streams[id].funded, accruedAt(Decode[t], chainTime - AUTH_TTL_SECONDS))
  <1> DEFINE a == sig.digest.accrued
  <1>1. a \in Nat
    BY DEF EnclaveTypeOK
  <1>2. /\ streams'[id].withdrawn =
             Larger(Lesser(a, streams[id].funded), streams[id].withdrawn)
        /\ Authorized(SETTLE_TAG, id, a, sig.digest.deadline, sig)
    BY <1>1, CancelWrites
  <1>3. PICK u \in TermsBehind(streams[id].commitment) :
          accruedAt(Decode[u], chainTime - AUTH_TTL_SECONDS) <= a
    BY <1>2, AcceptedFigure
  <1>4. chainTime \in Nat /\ streams[id].funded \in Nat /\ streams[id].withdrawn \in Nat
    BY VaultAssumption DEF IInv, VaultTypeOK, Stream, Uint128
  <1>5. accruedAt(Decode[u], chainTime - AUTH_TTL_SECONDS) \in Nat
    BY <1>4, TermsAccrue, AccruedBounded, ProtocolAssumption
  <1>6. streams'[id].withdrawn >=
          Lesser(streams[id].funded, accruedAt(Decode[u], chainTime - AUTH_TTL_SECONDS))
    BY <1>1, <1>2, <1>3, <1>4, <1>5 DEF Lesser, Larger
  <1> QED
    BY <1>6, OneBlob

\* Which steps take and which release the lock.
LEMMA LockSteps ==
    ASSUME IInv, [Next]_vars
    PROVE  /\ entered = 2 => UnpaidStep \/ Revert
           /\ entered = 2 /\ entered' = 1 => Return \/ Revert
           /\ entered' = 1 => UnpaidStep \/ Revert
  <1>1. CASE VaultStep
    <2>1. entered' = 1 /\ entered = 2 => Return \/ Revert
      <3>1. ASSUME NEW c \in Accounts, NEW g, setTeeSigner(c, g) PROVE entered' = entered
        BY <3>1 DEF setTeeSigner
      <3>2. ASSUME NEW c \in Accounts, NEW r, NEW t, NEW h, createStream(c, r, t, h)
            PROVE  entered' = entered
        BY <3>2 DEF createStream
      <3>3. ASSUME NEW id \in StreamIds, NEW t \in Terms, revealTerms(id, t)
            PROVE  entered' = entered
        BY <3>3 DEF revealTerms
      <3>4. ASSUME NEW c \in Accounts, NEW id \in StreamIds, NEW n \in Amounts, fund(c, id, n)
            PROVE  entered' = 2
        BY <3>4 DEF fund, Enter
      <3>5. ASSUME NEW id \in StreamIds, TransferIn(id) \/ TransferOut(id) \/ TransferBack(id)
            PROVE  entered' = entered
        BY <3>5 DEF TransferIn, TransferOut, TransferBack
      <3>6. Tick => entered' = entered
        BY DEF Tick
      <3> QED
        BY <1>1, <3>1, <3>2, <3>3, <3>4, <3>5, <3>6 DEF VaultStep
    <2> QED
      BY <1>1, <2>1, StepsThatPayNobody
  <1>2. CASE Redeem
    <2>1. nonReentrant /\ Enter
      BY <1>2 DEF Redeem, withdraw, cancelStream
    <2> QED
      BY <2>1 DEF nonReentrant, Enter
  <1>3. CASE UNCHANGED vaultVars
    BY <1>3 DEF vaultVars, storage, UnpaidStep
  <1> QED
    BY <1>1, <1>2, <1>3 DEF Next, vars

LEMMA CallPart ==
    ASSUME SInv, CallInv, [Next]_vars
    PROVE  CallInv'
  <1>0. IInv /\ EnclaveTypeOK /\ AuthInv
    BY DEF SInv
  <1> SUFFICES ASSUME entered' = 2, NEW id \in StreamIds
               PROVE  /\ saved'.streams[id].withdrawn <= streams'[id].withdrawn
                      /\ saved'.streams[id].cancelled => streams'[id].cancelled
                      /\ streams'[id].cancelled /\ ~saved'.streams[id].cancelled
                           => FloorAt(saved.streams[id], streams[id])'
    BY DEF CallInv
  <1>1. /\ chainTime \in Nat /\ (entered = 2 => chainTime' = chainTime)
    BY <1>0, TimeMoves
  <1>2. /\ streams[id].withdrawn \in Nat /\ streams[id].funded \in Nat
        /\ streams[id].cancelled \in BOOLEAN
    BY <1>0 DEF IInv, VaultTypeOK, Stream, Uint128
  <1>3. CASE entered = 2 /\ saved' = saved
    <2>1. UnpaidStep
      BY <1>0, <1>3, LockSteps DEF Revert
    <2>2. /\ saved.streams[id].withdrawn <= streams[id].withdrawn
          /\ saved.streams[id].cancelled => streams[id].cancelled
          /\ streams[id].cancelled /\ ~saved.streams[id].cancelled
               => FloorAt(saved.streams[id], streams[id])
      BY <1>3 DEF CallInv
    <2>3. CASE streams'[id].withdrawn = 0 /\ ~streams'[id].cancelled /\ streams[id] = NoStream
      BY <1>3, <2>2, <2>3 DEF NoStream
    <2>4. CASE /\ streams'[id].withdrawn = streams[id].withdrawn
               /\ streams'[id].cancelled = streams[id].cancelled
      BY <1>1, <1>3, <2>2, <2>4 DEF FloorAt
    <2> QED
      BY <2>1, <2>3, <2>4 DEF UnpaidStep
  <1>4. CASE entered = 1 /\ saved' = Snapshot
    <2>1. saved'.streams = streams
      BY <1>4 DEF Snapshot
    <2>2. CASE UnpaidStep
      BY <1>2, <2>1, <2>2 DEF UnpaidStep, NoStream
    <2>3. ASSUME NEW i \in StreamIds, NEW sig \in authorizations,
                 withdraw(i, sig.digest.accrued, sig.digest.deadline, sig)
          PROVE  /\ streams[id].withdrawn <= streams'[id].withdrawn
                 /\ streams'[id].cancelled = streams[id].cancelled
      <3>1. sig.digest.accrued \in Nat
        BY <1>0 DEF EnclaveTypeOK
      <3>2. /\ streams'[i].withdrawn = Lesser(sig.digest.accrued, streams[i].funded)
            /\ streams'[i].cancelled = streams[i].cancelled
            /\ \A o \in StreamIds \ {i} : streams'[o] = streams[o]
            /\ streams[i].withdrawn < Lesser(sig.digest.accrued, streams[i].funded)
        BY <1>0, <2>3, <3>1, WithdrawWrites
      <3> QED
        BY <1>2, <3>1, <3>2 DEF Lesser
    <2>4. ASSUME NEW c \in Accounts, NEW i \in StreamIds, NEW sig \in authorizations,
                 cancelStream(c, i, sig.digest.accrued, sig.digest.deadline, sig)
          PROVE  /\ streams[id].withdrawn <= streams'[id].withdrawn
                 /\ streams[id].cancelled => streams'[id].cancelled
                 /\ streams'[id].cancelled /\ ~streams[id].cancelled
                      => FloorAt(saved.streams[id], streams[id])'
      <3>1. sig.digest.accrued \in Nat
        BY <1>0 DEF EnclaveTypeOK
      <3>2. /\ streams'[i].withdrawn =
                 Larger(Lesser(sig.digest.accrued, streams[i].funded), streams[i].withdrawn)
            /\ streams'[i].cancelled
            /\ \A o \in StreamIds \ {i} : streams'[o] = streams[o]
            /\ chainTime' = chainTime
        BY <1>0, <2>4, <3>1, CancelWrites DEF cancelStream
      <3>3. \A t \in TermsBehind(streams[i].commitment) :
             streams'[i].withdrawn >=
               Lesser(streams[i].funded, accruedAt(Decode[t], chainTime - AUTH_TTL_SECONDS))
        BY <1>0, <2>4, CancelFloor
      <3>4. id = i => FloorAt(saved.streams[id], streams[id])'
        BY <2>1, <3>2, <3>3 DEF FloorAt
      <3> QED
        BY <1>2, <3>1, <3>2, <3>4 DEF Lesser, Larger
    <2>5. \/ UnpaidStep \/ Redeem
      <3>1. ~Revert
        BY <1>4 DEF Revert
      <3>2. UNCHANGED vaultVars => UnpaidStep
        BY DEF vaultVars, storage, UnpaidStep
      <3> QED
        BY <1>0, <3>1, <3>2, StepsThatPayNobody DEF Next, vars
    <2> QED
      BY <2>1, <2>2, <2>3, <2>4, <2>5 DEF Redeem
  <1> QED
    BY <1>0, <1>3, <1>4, SavedWhat

THEOREM CallInvariance == Spec => [](SInv /\ CallInv)
  <1>1. SInv /\ CallInv /\ [Next]_vars => CallInv'
    BY CallPart
  <1>2. Init => CallInv
    BY DEF Init, VaultInit, CallInv
  <1> QED
    BY <1>1, <1>2, SystemInvariance, PTL DEF Spec

\* A settlement never leaves the recipient with less than what had accrued
\* AUTH_TTL_SECONDS before it, as far as the stream was funded.
THEOREM SettlementsKeepFloor == Spec => SettlementFloor
  <1> DEFINE A == \A id \in StreamIds :
         ~committedStreams[id].cancelled /\ committedStreams'[id].cancelled =>
            \A t \in TermsBehind(committedStreams[id].commitment) :
                committedStreams'[id].withdrawn >=
                    Lesser(committedStreams[id].funded,
                           accruedAt(Decode[t], chainTime - AUTH_TTL_SECONDS))
  <1>1. ASSUME SInv, CallInv, [Next]_vars PROVE A
    <2> SUFFICES ASSUME NEW id \in StreamIds, ~committedStreams[id].cancelled,
                        committedStreams'[id].cancelled
                 PROVE  FloorAt(committedStreams[id], committedStreams'[id])
      BY DEF FloorAt
    <2>0. IInv /\ EnclaveTypeOK
      BY <1>1 DEF SInv
    <2>1. entered \in {1, 2} /\ entered' \in {1, 2}
      BY <1>1, <2>0, VaultPart DEF IInv, VaultTypeOK
    <2>2. CASE entered' = 2
      <3>1. committedStreams' = committedStreams
        BY <1>1, <2>0, <2>2, SavedWhat DEF committedStreams, Snapshot
      <3> QED
        BY <3>1
    <2>3. CASE entered' = 1 /\ Revert
      BY <2>3 DEF Revert, WritesUndone, committedStreams
    <2>4. CASE entered = 1 /\ entered' = 1 /\ UnpaidStep
      BY <2>4 DEF UnpaidStep, committedStreams, NoStream
    <2>5. CASE entered = 2 /\ Return
      <3>1. /\ committedStreams = saved.streams /\ committedStreams' = streams
        BY <2>5 DEF committedStreams, Return, storage
      <3> QED
        BY <1>1, <2>5, <3>1 DEF CallInv
    <2>6. entered' = 1 => UnpaidStep \/ Revert
      BY <1>1, <2>0, LockSteps
    <2>7. entered = 2 /\ entered' = 1 => Return \/ Revert
      BY <1>1, <2>0, LockSteps
    <2> QED
      BY <2>1, <2>2, <2>3, <2>4, <2>5, <2>6, <2>7
  <1>2. SInv /\ CallInv /\ [Next]_vars => [A]_vars
    BY <1>1
  <1>3. Spec => [][A]_vars
    BY <1>2, CallInvariance, PTL DEF Spec
  <1> QED
    BY <1>3 DEF SettlementFloor

\* An authorization the vault accepts was asked for by a party.
LEMMA AcceptedWasAsked ==
    ASSUME IInv, EnclaveTypeOK, AuthInv, NEW sig \in authorizations, NEW tag,
           NEW id \in StreamIds,
           Authorized(tag, id, sig.digest.accrued, sig.digest.deadline, sig)
    PROVE  PartyAsked(id, tag)
  <1> DEFINE d == sig.digest
  <1>1. /\ d.tag = tag /\ d.domain = Here /\ d.streamId = id
        /\ d.commitment = streams[id].commitment /\ chainTime <= d.deadline /\ Backed(d)
    BY AcceptedIsBacked
  <1>2. PICK t \in TermsBehind(d.commitment), c \in challenges : AskedBy(d, t, c)
    BY <1>1 DEF Backed
  <1>3. chainTime \in Nat /\ d.deadline \in Nat
    BY VaultAssumption DEF IInv, VaultTypeOK, EnclaveTypeOK
  <1> HIDE DEF d
  <1>4. chainTime <= c.challenge.issuedAt + CALLER_AUTH_WINDOW_SECONDS + AUTH_TTL_SECONDS
    BY <1>1, <1>2, <1>3, ProtocolAssumption DEF AskedBy
  <1> QED
    BY <1>1, <1>2, <1>4 DEF PartyAsked, AskedBy

\* Nobody but a party named in the sealed terms can make a stream pay or
\* settle, and only by a challenge recent enough.
THEOREM OnlyPartiesMoveMoney == Spec => PaidOnRequest
  <1> DEFINE A == \A id \in StreamIds :
         /\ streams'[id].withdrawn > streams[id].withdrawn /\ ~streams'[id].cancelled
              => PartyAsked(id, WithdrawTag)
         /\ ~streams[id].cancelled /\ streams'[id].cancelled
              => PartyAsked(id, SettleTag)
  <1>1. ASSUME SInv, CallInv, [Next]_vars PROVE A
    <2> SUFFICES ASSUME NEW id \in StreamIds
                 PROVE  /\ streams'[id].withdrawn > streams[id].withdrawn
                             /\ ~streams'[id].cancelled => PartyAsked(id, WithdrawTag)
                        /\ ~streams[id].cancelled /\ streams'[id].cancelled
                             => PartyAsked(id, SettleTag)
      OBVIOUS
    <2>0. IInv /\ EnclaveTypeOK /\ AuthInv
      BY <1>1 DEF SInv
    <2>1. streams[id].withdrawn \in Nat /\ streams'[id].withdrawn \in Nat
      BY <1>1, <2>0, VaultPart DEF IInv, VaultTypeOK, Stream, Uint128
    <2>2. CASE UnpaidStep
      BY <2>1, <2>2 DEF UnpaidStep, NoStream
    <2>3. CASE Revert
      <3>1. entered = 2 /\ streams' = saved.streams
        BY <2>3 DEF Revert, WritesUndone
      <3> QED
        BY <1>1, <2>1, <3>1 DEF CallInv
    <2>4. ASSUME NEW i \in StreamIds, NEW sig \in authorizations,
                 withdraw(i, sig.digest.accrued, sig.digest.deadline, sig)
          PROVE  /\ streams'[id].cancelled = streams[id].cancelled
                 /\ streams'[id].withdrawn # streams[id].withdrawn => PartyAsked(id, WithdrawTag)
      <3>1. sig.digest.accrued \in Nat
        BY <2>0 DEF EnclaveTypeOK
      <3>2. /\ streams'[i].cancelled = streams[i].cancelled
            /\ \A o \in StreamIds \ {i} : streams'[o] = streams[o]
            /\ Authorized(WITHDRAW_TAG, i, sig.digest.accrued, sig.digest.deadline, sig)
        BY <2>0, <2>4, <3>1, WithdrawWrites
      <3>3. PartyAsked(i, WithdrawTag)
        BY <2>0, <3>2, AcceptedWasAsked DEF WITHDRAW_TAG, WithdrawTag
      <3> QED
        BY <3>2, <3>3
    <2>5. ASSUME NEW c \in Accounts, NEW i \in StreamIds, NEW sig \in authorizations,
                 cancelStream(c, i, sig.digest.accrued, sig.digest.deadline, sig)
          PROVE  \/ streams'[id] = streams[id]
                 \/ streams'[id].cancelled /\ PartyAsked(id, SettleTag)
      <3>1. sig.digest.accrued \in Nat
        BY <2>0 DEF EnclaveTypeOK
      <3>2. /\ streams'[i].cancelled
            /\ \A o \in StreamIds \ {i} : streams'[o] = streams[o]
            /\ Authorized(SETTLE_TAG, i, sig.digest.accrued, sig.digest.deadline, sig)
        BY <2>0, <2>5, <3>1, CancelWrites
      <3>3. PartyAsked(i, SettleTag)
        BY <2>0, <3>2, AcceptedWasAsked DEF SETTLE_TAG, SettleTag
      <3> QED
        BY <3>2, <3>3
    <2>6. UnpaidStep \/ Revert \/ Redeem
      <3>1. UNCHANGED vaultVars => UnpaidStep
        BY DEF vaultVars, storage, UnpaidStep
      <3> QED
        BY <1>1, <2>0, <3>1, StepsThatPayNobody DEF Next, vars
    <2>7. CASE Redeem
      BY <2>1, <2>4, <2>5, <2>7 DEF Redeem
    <2> QED
      BY <2>2, <2>3, <2>6, <2>7
  <1>2. SInv /\ CallInv /\ [Next]_vars => [A]_vars
    BY <1>1
  <1>3. Spec => [][A]_vars
    BY <1>2, CallInvariance, PTL DEF Spec
  <1> QED
    BY <1>3 DEF PaidOnRequest

------------------------------------------------------------------------------
(* Audits *)

Opens(r, ss) == Keccak[r[2]] = ss[r[1]].commitment

RevealInv ==
    /\ \A r \in revealed : Opens(r, streams)
    /\ entered = 2 => \A r \in saved.revealed : Opens(r, saved.streams)

\* A stream that has been opened keeps its commitment.
LEMMA OpensStays ==
    ASSUME IInv, EnclaveTypeOK, UnpaidStep \/ Redeem, NEW r \in StreamIds \X Terms,
           Opens(r, streams)
    PROVE  Opens(r, streams')
  <1>1. r[1] \in StreamIds /\ streams[r[1]] # NoStream
    BY WorldAssumption DEF Opens, NoStream
  <1>2. CASE UnpaidStep
    BY <1>1, <1>2 DEF UnpaidStep, Opens
  <1>3. CASE Redeem
    <2>1. PICK id \in StreamIds, sig \in authorizations :
            \/ withdraw(id, sig.digest.accrued, sig.digest.deadline, sig)
            \/ \E c \in Accounts :
                 cancelStream(c, id, sig.digest.accrued, sig.digest.deadline, sig)
      BY <1>3 DEF Redeem
    <2>2. sig.digest.accrued \in Nat
      BY DEF EnclaveTypeOK
    <2>3. /\ streams'[id].commitment = streams[id].commitment
          /\ \A o \in StreamIds \ {id} : streams'[o] = streams[o]
      BY <2>1, <2>2, WithdrawWrites, CancelWrites
    <2> QED
      BY <1>1, <2>3 DEF Opens
  <1> QED
    BY <1>2, <1>3

\* Which steps add to the log of reveals.
LEMMA RevealSteps ==
    ASSUME [Next]_vars, ~Revert
    PROVE  \/ revealed' = revealed
           \/ \E id \in StreamIds, t \in Terms :
                /\ Keccak[t] = streams[id].commitment
                /\ revealed' = revealed \cup {<<id, t>>}
                /\ streams' = streams
  <1>1. ASSUME NEW id \in StreamIds, NEW t \in Terms, revealTerms(id, t)
        PROVE  /\ Keccak[t] = streams[id].commitment
               /\ revealed' = revealed \cup {<<id, t>>}
               /\ streams' = streams
    BY <1>1 DEF revealTerms
  <1>2. ASSUME NEW c \in Accounts, NEW g, setTeeSigner(c, g) PROVE revealed' = revealed
    BY <1>2 DEF setTeeSigner
  <1>3. ASSUME NEW c \in Accounts, NEW r, NEW t, NEW h, createStream(c, r, t, h)
        PROVE  revealed' = revealed
    BY <1>3 DEF createStream
  <1>4. ASSUME NEW c \in Accounts, NEW id \in StreamIds, NEW n \in Amounts, fund(c, id, n)
        PROVE  revealed' = revealed
    BY <1>4 DEF fund
  <1>5. ASSUME NEW id \in StreamIds, TransferIn(id) \/ TransferOut(id) \/ TransferBack(id)
        PROVE  revealed' = revealed
    BY <1>5 DEF TransferIn, TransferOut, TransferBack, storage
  <1>6. ASSUME Return \/ Tick \/ UNCHANGED vaultVars PROVE revealed' = revealed
    BY <1>6 DEF Return, Tick, vaultVars, storage
  <1>7. ASSUME Redeem PROVE revealed' = revealed
    BY <1>7 DEF Redeem, withdraw, cancelStream
  <1> QED
    BY <1>1, <1>2, <1>3, <1>4, <1>5, <1>6, <1>7 DEF Next, vars, VaultStep

LEMMA RevealPart ==
    ASSUME SInv, RevealInv, [Next]_vars
    PROVE  RevealInv'
  <1>0. IInv /\ EnclaveTypeOK
    BY DEF SInv
  <1>1. revealed \subseteq StreamIds \X Terms
    BY <1>0 DEF IInv, VaultTypeOK
  <1>2. ASSUME ~Revert, NEW r \in revealed' PROVE Opens(r, streams')
    <2>1. UnpaidStep \/ Redeem
      <3>1. UNCHANGED vaultVars => UnpaidStep
        BY DEF vaultVars, storage, UnpaidStep
      <3> QED
        BY <1>0, <1>2, <3>1, StepsThatPayNobody DEF Next, vars
    <2>2. CASE r \in revealed
      BY <1>0, <1>1, <2>1, <2>2, OpensStays DEF RevealInv
    <2>3. CASE r \notin revealed
      <3>1. PICK id \in StreamIds, t \in Terms :
              /\ Keccak[t] = streams[id].commitment
              /\ revealed' = revealed \cup {<<id, t>>}
              /\ streams' = streams
        BY <1>2, <2>3, RevealSteps
      <3> QED
        BY <1>2, <2>3, <3>1 DEF Opens
    <2> QED
      BY <2>2, <2>3
  <1>3. ASSUME Revert, NEW r \in revealed' PROVE Opens(r, streams')
    BY <1>3 DEF Revert, WritesUndone, RevealInv
  <1>4. ASSUME entered' = 2, NEW r \in saved'.revealed PROVE Opens(r, saved'.streams)
    <2>1. CASE entered = 2 /\ saved' = saved
      BY <1>4, <2>1 DEF RevealInv
    <2>2. CASE saved' = Snapshot
      <3>1. saved'.revealed = revealed /\ saved'.streams = streams
        BY <2>2 DEF Snapshot
      <3> QED
        BY <1>4, <3>1 DEF RevealInv
    <2> QED
      BY <1>0, <1>4, <2>1, <2>2, SavedWhat
  <1> QED
    BY <1>2, <1>3, <1>4 DEF RevealInv, Opens

\* Revealed terms explain, to the unit, every authorization for a stream with
\* that commitment, past or still to be submitted.
THEOREM AuditsAreSound == Spec => []AuditSound
  <1>1. Init => RevealInv
    BY DEF Init, VaultInit, RevealInv
  <1>2. SInv /\ RevealInv /\ [Next]_vars => RevealInv'
    BY RevealPart
  <1>3. SInv /\ RevealInv => AuditSound
    <2> SUFFICES ASSUME SInv, RevealInv, NEW r \in revealed, NEW a \in authorizations,
                        a.digest.commitment = streams[r[1]].commitment
                 PROVE  /\ Decode[r[2]] # Malformed
                        /\ a.digest.accrued =
                             accruedAt(Decode[r[2]], a.digest.deadline - AUTH_TTL_SECONDS)
      BY DEF AuditSound
    <2>1. r[2] \in Terms /\ Keccak[r[2]] = a.digest.commitment
      BY DEF SInv, IInv, VaultTypeOK, RevealInv, Opens
    <2>2. PICK t \in TermsBehind(a.digest.commitment) :
            a.digest.accrued = accruedAt(Decode[t], a.digest.deadline - AUTH_TTL_SECONDS)
      BY DEF SInv, AuthInv, Backed
    <2>3. t = r[2] /\ Decode[t] # Malformed
      BY <2>1, WorldAssumption DEF TermsBehind, IsInjective
    <2> QED
      BY <2>2, <2>3
  <1> QED
    BY <1>1, <1>2, <1>3, SystemInvariance, PTL DEF Spec

\* The types of the whole system.
THEOREM SystemTypeCorrect == Spec => []TypeOK
  <1>1. SInv => TypeOK
    BY DEF SInv, IInv, TypeOK
  <1> QED
    BY <1>1, SystemInvariance, PTL
==============================================================================
