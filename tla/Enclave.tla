------------------------------- MODULE Enclave -------------------------------
(***************************************************************************)
(* typescript/src/app/streamHandlers.ts: the handlers AUTH_WITHDRAW and    *)
(* AUTH_SETTLE that run inside the TEE.  The enclave keeps no state about  *)
(* any stream: a request brings the sealed terms, their commitment and a   *)
(* challenge signed by a party, and the answer is a signature over what    *)
(* has accrued.                                                            *)
(*                                                                         *)
(* authorize reads the clock and the keys, and then awaits twice: once to  *)
(* recover the caller, once to sign.  Time passes and the process may die  *)
(* in between, so a request is two steps here, Begin and then Sign or      *)
(* Refuse.  The server runs one handler at a time.  A request refused in   *)
(* Begin leaves no trace and is a step that changes nothing.               *)
(*                                                                         *)
(* Signed challenges and authorizations are never taken back: both sets    *)
(* only grow, so any message in them may be delivered late, repeatedly, in *)
(* any order, or never.                                                    *)
(***************************************************************************)
EXTENDS World, Protocol

CONSTANTS
    Malformed,        \* what decodeTerms throws
    Decode,           \* [Terms -> StreamTerms \cup {Malformed}]
    SealingKeys,      \* ECIES keys terms are sealed to
    NoKey,            \* TEE_ECIES_PRIVKEY unset
    Idle,             \* no request is being handled
    IssueTimes,       \* seconds a caller may date a challenge with
    MaxChallenges,    \* bound: challenges ever signed
    MaxAuthorizations \* bound: authorizations ever signed

\* The plaintext a commitment hides, decoded.
StreamTerms ==
    [employer : Accounts, recipient : Accounts,
     ratePerSecond : Nat, total : Nat, startTime : Nat]

ASSUME EnclaveAssumption ==
    /\ \A t \in Terms : Decode[t] # Malformed =>
         /\ Decode[t].employer \in Accounts
         /\ Decode[t].recipient \in Accounts
         /\ HasAccrual(Decode[t])
    /\ NoKey \notin SealingKeys
    /\ IssueTimes \subseteq Nat
    /\ MaxChallenges \in Nat
    /\ MaxAuthorizations \in Nat

VARIABLES
    eciesKey,         \* TEE_ECIES_PRIVKEY
    signerKey,        \* TEE_SIGNER_PRIVKEY, by its address
    challenges,       \* challenges parties have signed
    running,          \* the request between its awaits, with what it has read
    authorizations    \* every authorization the enclave has given out

enclaveVars == <<eciesKey, signerKey, challenges, running, authorizations>>

Tags == {WithdrawTag, SettleTag}

Challenges ==
    [domain : Domains, streamId : StreamIds, commitment : Hashes,
     purpose : Tags, issuedAt : IssueTimes]
Ciphertexts == [sealedTo : SealingKeys, terms : Terms]

EnclaveInit ==
    /\ eciesKey \in SealingKeys \cup {NoKey}
    /\ signerKey \in Signers \cup {ZeroAddress}
    /\ challenges = {}
    /\ running = Idle
    /\ authorizations = {}

------------------------------------------------------------------------------
\* A wallet signs a challenge the dashboard built.
SignChallenge(account, domain, id, commitment, purpose, issuedAt) ==
    LET c == buildCallerChallenge(domain, id, commitment, purpose, issuedAt)
    IN  /\ challenges' = challenges \cup {[signer |-> account, challenge |-> c]}
        /\ UNCHANGED <<eciesKey, signerKey, running, authorizations>>

\* The freshness window, in either direction.
Fresh(issuedAt, nowSec) ==
    LET skew == IF issuedAt > nowSec THEN issuedAt - nowSec ELSE nowSec - issuedAt
    IN  skew <= CALLER_AUTH_WINDOW_SECONDS

\* Check that the plaintext hashes to the commitment of the request; forgotten.
AnyCommitment(terms, commitment) == TRUE
CommitsTo(terms, commitment) == Keccak[terms] = commitment

\* Steps 1, 2 and the start of 2b, up to the first await.
Begin(tag, domain, id, commitment, sealed, issuedAt, callerSignature, nowSec) ==
    /\ running = Idle
    /\ eciesKey # NoKey
    /\ signerKey # ZeroAddress
    /\ sealed.sealedTo = eciesKey
    /\ CommitsTo(sealed.terms, commitment)
    /\ Decode[sealed.terms] # Malformed
    /\ Fresh(issuedAt, nowSec)
    /\ running' = [tag |-> tag, domain |-> domain, streamId |-> id,
                   commitment |-> commitment, terms |-> sealed.terms,
                   issuedAt |-> issuedAt, callerSignature |-> callerSignature,
                   nowSec |-> nowSec, key |-> signerKey]
    /\ UNCHANGED <<eciesKey, signerKey, challenges, authorizations>>

\* recoverMessageAddress over the challenge rebuilt from the request: the
\* signer when that is what was signed, otherwise an address nobody holds.
callerOf(r) ==
    LET c == buildCallerChallenge(r.domain, r.streamId, r.commitment, r.tag, r.issuedAt)
    IN  IF r.callerSignature.challenge = c THEN r.callerSignature.signer ELSE ZeroAddress

\* Who may ask; a slip that lets either party ask for a settlement.
EitherParty(tag, terms) == {terms.recipient, terms.employer}
permitted(tag, terms) ==
    IF tag = SettleTag THEN {terms.employer} ELSE {terms.recipient, terms.employer}

\* The figure is for the moment the request was read; a slip that signs what
\* will have accrued by the deadline.
FigureAtDeadline(r) == accruedAt(Decode[r.terms], r.nowSec + AUTH_TTL_SECONDS)
cumulativeAccrued(r) == accruedAt(Decode[r.terms], r.nowSec)

authorizationOf(r) ==
    [signer |-> r.key,
     digest |-> buildAuthDigest(r.tag, r.domain, r.streamId, r.commitment,
                                cumulativeAccrued(r), r.nowSec + AUTH_TTL_SECONDS)]

\* The rest of authorize: the caller is a party, the figure is signed.
Sign ==
    /\ running # Idle
    /\ callerOf(running) \in permitted(running.tag, Decode[running.terms])
    /\ authorizations' = authorizations \cup {authorizationOf(running)}
    /\ running' = Idle
    /\ UNCHANGED <<eciesKey, signerKey, challenges>>

\* "caller is not a party to this stream".
Refuse ==
    /\ running # Idle
    /\ callerOf(running) \notin permitted(running.tag, Decode[running.terms])
    /\ running' = Idle
    /\ UNCHANGED <<eciesKey, signerKey, challenges, authorizations>>

\* The TEE dies and comes back with the keys it had: the request is lost.
Crash ==
    /\ running # Idle
    /\ running' = Idle
    /\ UNCHANGED <<eciesKey, signerKey, challenges, authorizations>>

\* The TEE is deployed again with other keys.
Redeploy(ecies, signer) ==
    /\ eciesKey' = ecies
    /\ signerKey' = signer
    /\ running' = Idle
    /\ UNCHANGED <<challenges, authorizations>>
==============================================================================
