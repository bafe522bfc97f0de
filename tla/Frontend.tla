------------------------------- MODULE Frontend -------------------------------
(***************************************************************************)
(* The pages of frontend/ that are about one stream, over the chain.  A    *)
(* visitor has one of them open; the others share nothing with it but the  *)
(* chain.                                                                  *)
(***************************************************************************)
EXTENDS RecipientDashboard, PublicPages

CONSTANT MaxShown   \* bound: deposits while a page without a wallet is open

VARIABLE open   \* the page that is open

vars == <<chainVars, dashVars, landingVars, verifyVars, open>>

OnDashboard(A) == open = "dashboard" /\ A /\ UNCHANGED <<landingVars, verifyVars, open>>
OnLanding(A)   == open = "landing" /\ A /\ UNCHANGED <<dashVars, verifyVars, open>>
OnVerify(A)    == open = "verify" /\ A /\ UNCHANGED <<dashVars, landingVars, open>>
OnChain(A)     == A /\ UNCHANGED <<dashVars, landingVars, verifyVars, open>>

Init ==
    /\ open \in {"dashboard", "landing", "verify"}
    /\ ChainInit
    /\ DashInit
    /\ LandingInit
    /\ VerifyInit
    /\ open # "dashboard" => account = None /\ abi = VAULT_ABI

\* The dashboard reads no reveals.
Next ==
    \/ OnChain(Transaction /\ (open = "dashboard" \/ chain'.funded <= MaxShown))
    \/ OnChain(NextBlock)
    \/ OnChain(open # "dashboard" /\ Reveal)
    \/ OnDashboard(DashStep)
    \/ OnLanding(LandingStep)
    \/ OnVerify(VerifyStep)

\* The event loop, the RPC node and the timers go on; a wallet prompt is
\* answered; a visitor who can go on does, and who cannot reloads the page.
Fairness ==
    /\ WF_vars(OnDashboard(ReadStream \/ ReadMeta \/ ReadSealed))
    /\ WF_vars(OnDashboard(Unlock))
    /\ WF_vars(OnDashboard(SignMessage))
    /\ WF_vars(OnDashboard(Receive \/ TimesOut))
    /\ WF_vars(OnDashboard(Withdraw))
    /\ WF_vars(OnDashboard(Submit \/ NotInAbi \/ Mined \/ Confirmed \/ Reverted))
    /\ SF_vars(OnDashboard(Reload))
    /\ \A slot \in Slots : WF_vars(OnLanding(Loading(slot)))

Spec == Init /\ [][Next]_vars /\ Fairness

------------------------------------------------------------------------------
\* The record of the stream stays within the contract's bounds and the page's
\* state within what its code can set.
FrontendTypeOK ==
    /\ chain = Absent \/ chain.withdrawn \in 0..chain.funded
    /\ reveals \subseteq 0..clock
    /\ step \in Steps
    /\ dash.failure \in Failures
    /\ dash.busy <=> step \in {"signing", "asking", "confirming", "mining"}
                     \/ (dash.withdrawTx /\ step # "idle")
    /\ request # None <=> step \in {"signing", "asking"}
    /\ dash.auth = None \/ dash.auth \in PageAuthorizations
    /\ verify.termsHex \in Texts

\* "Don't trust the returned terms": whoever answers at ENCLAVE_URL and however
\* late, the dashboard shows terms only under the commitment the vault stores.
\* The figure it keeps unchecked and submits may be anybody's: what it makes the
\* vault pay still never runs ahead of those terms.
TermsVerified ==
    /\ dash.terms # None => chain # Absent /\ dash.terms = chain.commitment
    /\ chain # Absent => chain.withdrawn <= accruedAt(StreamTerms, clock)

\* "consumed; re-sign for a fresh one": the dashboard drops an authorization, other
\* than by being reloaded, only after the stream has paid what was signed.
AuthSpentOnlyWhenPaid ==
    [][dash.auth # None /\ dash'.auth = None /\ dash' # FreshPage
         => chain.withdrawn >= CapOf(dash.stream, dash.auth)]_vars

\* "Failures are surfaced explicitly rather than left as a spinner": whatever the
\* enclave does, the dashboard is not busy for ever.
SpinnerResolves == dash.busy ~> ~dash.busy

\* Money is there for the recipient to take.
Owed ==
    /\ IsOpen(chain)
    /\ CapOf(chain, [accrued |-> accruedAt(StreamTerms, clock)]) > 0
    /\ chain.withdrawn = 0

Visiting == open = "dashboard" /\ account \in StreamParties \cap TermsParties

\* The enclave is up: asked often enough, it answers, in time.
EnclaveUp ==
    /\ SF_vars(OnDashboard(EnclaveAnswers))
    /\ SF_vars(OnDashboard(Receive))

\* "withdraw on demand": a party who stays on the dashboard, with the enclave up,
\* gets the money out of a stream that owes some.
WithdrawOnDemand ==
    EnclaveUp /\ <>[]Visiting => (Owed ~> ~Owed)

\* The same for a page that knows the function it calls.
PaidIfCallable ==
    EnclaveUp /\ <>[](Visiting /\ Encodable("withdraw")) => (Owed ~> ~Owed)

\* The landing page refreshes without ordering its loads; a slow one may put an
\* old record back, yet in the end the page shows the chain as it is.
EventuallyCurrent ==
    open = "landing" =>
        <>[](chain # Absent => data # None /\ data.stream = chain /\ ~error)

\* The window around the pinned block is inside the limits of the RPC node and
\* contains the block: a page that loads after it shows the terms.
RevealFound ==
    /\ DEMO_REVEAL_BLOCK > 0
    /\ DEMO_REVEAL_BLOCK \in reveals
    /\ data # None
    /\ data.head > DEMO_REVEAL_BLOCK
    => data.terms

\* A verification link shows whoever opens it the verdict it was copied with.
SharedVerdict ==
    link # None /\ verify.query = link.query /\ ~verify.edited /\ verify.stream # None
        => verdict(verify.stream, verify.termsHex) = link.verdict
==============================================================================
