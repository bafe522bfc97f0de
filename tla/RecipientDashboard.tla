-------------------------- MODULE RecipientDashboard --------------------------
(***************************************************************************)
(* frontend/app/stream/[id]/page.tsx with lib/enclave.ts and the reads of  *)
(* lib/chain.ts.  The page is split at every await: what it read before    *)
(* one may be old after it.  step says which await it is at; busy is never *)
(* false while an operation is under way, so there is at most one.         *)
(*                                                                         *)
(* The enclave is whatever answers at ENCLAVE_URL.  It may grant, refuse,  *)
(* answer with an HTTP error or with something that is no JSON, send terms *)
(* that are not the stream's, send the stream's terms with a figure it     *)
(* made up or with an old authorization, or stay silent; fetch gives up    *)
(* after 15 s.  The page checks the terms and keeps the rest unchecked.    *)
(***************************************************************************)
EXTENDS ChainView

CONSTANTS
    Users,          \* accounts a wallet may be connected with
    StreamParties,  \* employer and recipient according to the vault
    TermsParties,   \* employer and recipient according to the sealed terms
    Additions,      \* sets of functions that VAULT_ABI may have been given besides
    Figures         \* numbers that others than the enclave make up

\* The figure, the deadline, and whether the signature is the enclave's over them.
PageAuthorizations == [accrued : Nat, deadline : Nat, signed : BOOLEAN]

ASSUME DashboardAssumption ==
    /\ StreamParties \subseteq Users /\ TermsParties \subseteq Users
    /\ Figures \subseteq Nat
    /\ None \notin [issuedAt : Nat, signer : Users] \cup {"success", "reverted"}
    /\ None \notin PageAuthorizations

VARIABLES
    abi,       \* the functions of the vault that the page knows
    account,   \* the connected account, or None
    dash,      \* the React state of the page
    step,      \* the await the page is at
    request,   \* what unlock captured and sent, or None
    answer,    \* what ENCLAVE_URL has answered, or None
    receipt    \* of the withdrawal being waited for: None, "success", "reverted"

dashVars == <<abi, account, dash, step, request, answer, receipt>>

VAULT_ABI == {"streams", "teeSigner"}

\* viem encodes no call of a function that is not in the abi it is given.
Encodable(function) == function \in abi

Steps ==
    {"readStream",   \* loadChain: the vault's record
     "readMeta",     \*   the token's decimals and symbol
     "readSealed",   \*   the ciphertext, from the explorer
     "idle",
     "signing",      \* unlock: the wallet prompt
     "asking",       \*   the request to the enclave
     "confirming",   \* withdraw: the wallet prompt
     "mining"}       \*   waiting for the receipt

Failures == {None, "unreachable", "rejected"}

FreshPage ==
    [stream |-> None, meta |-> FALSE, sealed |-> FALSE, chainError |-> FALSE,
     terms |-> None, auth |-> None, failure |-> None, busy |-> FALSE,
     withdrawTx |-> FALSE]

DashInit ==
    /\ abi \in {VAULT_ABI \cup added : added \in Additions}
    /\ account \in Users \cup {None}
    /\ dash = FreshPage
    /\ step = "readStream"
    /\ request = None
    /\ answer = None
    /\ receipt = None

SwitchAccount ==
    /\ account' \in (Users \cup {None}) \ {account}
    /\ UNCHANGED <<chainVars, abi, dash, step, request, answer, receipt>>

\* The end of an operation, by return, catch or finally.
Finish(state) ==
    /\ dash' = [state EXCEPT !.busy = FALSE]
    /\ step' = "idle"

Waiting == <<abi, account, request, answer, receipt>>

------------------------------------------------------------------------------
(* loadChain: when the page opens, and at the end of withdraw *)

ReadStream ==
    /\ step = "readStream"
    /\ IF chain = Absent
       THEN Finish([dash EXCEPT !.chainError = TRUE])
       ELSE dash' = [dash EXCEPT !.stream = chain] /\ step' = "readMeta"
    /\ UNCHANGED <<chainVars, Waiting>>

ReadMeta ==
    /\ step = "readMeta"
    /\ dash' = [dash EXCEPT !.meta = TRUE]
    /\ step' = "readSealed"
    /\ UNCHANGED <<chainVars, Waiting>>

ReadSealed ==
    /\ step = "readSealed"
    /\ Finish([dash EXCEPT !.sealed = TRUE, !.chainError = FALSE])
    /\ UNCHANGED <<chainVars, Waiting>>

\* The explorer has not indexed the event, or answers without a result.
NotIndexed ==
    /\ step = "readSealed"
    /\ Finish([dash EXCEPT !.sealed = FALSE, !.chainError = FALSE])
    /\ Fault
    /\ UNCHANGED Waiting

LoadFails ==
    /\ step \in {"readStream", "readMeta", "readSealed"}
    /\ Finish([dash EXCEPT !.chainError = TRUE])
    /\ Fault
    /\ UNCHANGED Waiting

------------------------------------------------------------------------------
(* unlock *)

Rendered == dash.stream # None /\ dash.meta

CanUnlock ==
    /\ Rendered
    /\ dash.terms = None
    /\ account \in StreamParties
    /\ ~dash.busy
    /\ dash.sealed

\* Seconds; and what Date.now says, in milliseconds.
issuedAtMillis == 1000 * clock
issuedAt == clock

Unlock ==
    /\ CanUnlock
    /\ dash' = [dash EXCEPT !.busy = TRUE, !.failure = None]
    /\ step' = "signing"
    /\ request' = [issuedAt |-> issuedAt, signer |-> account]
    /\ UNCHANGED <<chainVars, abi, account, answer, receipt>>

SignMessage ==
    /\ step = "signing"
    /\ step' = "asking"
    /\ UNCHANGED <<chainVars, dash, Waiting>>

\* Closing a wallet prompt, of unlock or of withdraw, goes to the catch.
WalletRejects ==
    /\ step \in {"signing", "confirming"}
    /\ Finish([dash EXCEPT !.failure = "rejected"])
    /\ request' = None
    /\ Fault
    /\ UNCHANGED <<abi, account, answer, receipt>>

\* What the enclave signed when its clock said signedAt.
SignedAt(signedAt) ==
    LET auth == authorizedAt(StreamTerms, signedAt)
    IN  [accrued |-> auth.accrued, deadline |-> auth.deadline, signed |-> TRUE]

EnclaveAnswers ==
    /\ step = "asking"
    /\ answer = None
    /\ answer' = IF accepts(request.issuedAt, request.signer, TermsParties, clock)
                 THEN [kind |-> "granted", hash |-> dash.stream.commitment,
                       auth |-> SignedAt(clock)]
                 ELSE [kind |-> "refused"]
    /\ UNCHANGED <<chainVars, abi, account, dash, step, request, receipt>>

\* Something else answers: an error page, no JSON; or terms, the stream's own or
\* others, with an authorization the enclave gave before or with numbers that it
\* never signed.
OtherAnswers ==
    /\ step = "asking"
    /\ answer = None
    /\ \/ answer' \in {[kind |-> "httpError"], [kind |-> "garbled"]}
       \/ \E hash \in {dash.stream.commitment, "another hash"},
             auth \in {SignedAt(t) : t \in 0..clock}
                     \cup [accrued : Figures, deadline : Figures, signed : {FALSE}] :
            answer' = [kind |-> "granted", hash |-> hash, auth |-> auth]
    /\ Fault
    /\ UNCHANGED <<abi, account, dash, step, request, receipt>>

\* requestAuthorization: the outcomes it tells apart.  A body that is no JSON
\* is thrown out of it into unlock's catch.
FailureKind ==
    CASE answer.kind = "httpError" -> "unreachable"
      [] answer.kind \in {"refused", "garbled"} -> "rejected"

\* "Don't trust the returned terms"; trusting them.
TrustsAnswer == TRUE
TermsMatch == answer.hash = dash.stream.commitment

Receive ==
    /\ step = "asking"
    /\ answer # None
    /\ \/ /\ answer.kind # "granted"
          /\ Finish([dash EXCEPT !.failure = FailureKind])
       \/ /\ answer.kind = "granted"
          /\ ~TermsMatch
          /\ Finish([dash EXCEPT !.failure = "rejected"])
       \/ /\ answer.kind = "granted"
          /\ TermsMatch
          /\ Finish([dash EXCEPT !.terms = answer.hash, !.auth = answer.auth])
    /\ request' = None
    /\ answer' = None
    /\ UNCHANGED <<chainVars, abi, account, receipt>>

\* AbortSignal.timeout, or the connection fails: a late answer finds nobody.
\* fetch reports the enclave unreachable; a body cut off goes to unlock's catch.
WaitsForever == FALSE
GivesUp == step = "asking"

TimesOut ==
    /\ GivesUp
    /\ \E kind \in {"unreachable", "rejected"} : Finish([dash EXCEPT !.failure = kind])
    /\ request' = None
    /\ answer' = None
    /\ UNCHANGED <<chainVars, abi, account, receipt>>

------------------------------------------------------------------------------
(* withdraw *)

\* What the page says is available: the accrual of the second on its clock
\* against the record it read last.
accrued == accruedAt(StreamTerms, clock)
available == CapOf(dash.stream, [accrued |-> accrued]) - dash.stream.withdrawn

CanSubmit ==
    /\ Rendered
    /\ dash.terms # None
    /\ dash.auth # None
    /\ ~dash.busy
    /\ available > 0

Withdraw ==
    /\ CanSubmit
    /\ dash' = [dash EXCEPT !.busy = TRUE, !.failure = None]
    /\ step' = "confirming"
    /\ UNCHANGED <<chainVars, Waiting>>

\* writeContract looks the function up before it asks the wallet.
NotInAbi ==
    /\ step = "confirming"
    /\ ~Encodable("withdraw")
    /\ Finish([dash EXCEPT !.failure = "rejected"])
    /\ UNCHANGED <<chainVars, Waiting>>

Submit ==
    /\ step = "confirming"
    /\ Encodable("withdraw")
    /\ step' = "mining"
    /\ UNCHANGED <<chainVars, dash, Waiting>>

\* The vault looks at the signature; or takes the numbers as they are.
TakesAny(auth) == TRUE
FromTeeSigner(auth) == auth.signed

Mined ==
    /\ step = "mining"
    /\ receipt = None
    /\ IF FromTeeSigner(dash.auth) /\ CanWithdraw(chain, dash.auth, clock)
       THEN receipt' = "success" /\ chain' = AfterWithdraw(chain, dash.auth)
       ELSE receipt' = "reverted" /\ UNCHANGED chain
    /\ UNCHANGED <<clock, reveals, faults, abi, account, dash, step, request, answer>>

\* A receipt is a success by its status; by having come at all.
AnyReceipt == receipt # None
Succeeded == receipt = "success"

Confirmed ==
    /\ step = "mining"
    /\ Succeeded
    /\ dash' = [dash EXCEPT !.withdrawTx = TRUE, !.auth = None]
    /\ step' = "readStream"
    /\ receipt' = None
    /\ UNCHANGED <<chainVars, abi, account, request, answer>>

Reverted ==
    /\ step = "mining"
    /\ receipt # None
    /\ ~Succeeded
    /\ Finish([dash EXCEPT !.failure = "rejected"])
    /\ receipt' = None
    /\ UNCHANGED <<chainVars, abi, account, request, answer>>

\* waitForTransactionReceipt gives up; the transaction may still be mined.
ReceiptLost ==
    /\ step = "mining"
    /\ Finish([dash EXCEPT !.failure = "rejected"])
    /\ receipt' = None
    /\ Fault
    /\ UNCHANGED <<abi, account, request, answer>>

------------------------------------------------------------------------------
(* The page offers no way to load again, nor to sign again once it has terms; *)
(* reloading it in the browser starts everything afresh.                      *)

Stuck == step = "idle" /\ (dash.failure # None \/ ~(CanUnlock \/ CanSubmit))

Restart ==
    /\ dash' = FreshPage
    /\ step' = "readStream"
    /\ request' = None
    /\ answer' = None
    /\ receipt' = None
    /\ UNCHANGED <<abi, account>>

Reload == Stuck /\ Restart /\ UNCHANGED chainVars
ReloadAnyway == ~Stuck /\ Restart /\ Fault

DashStep ==
    \/ SwitchAccount
    \/ ReadStream \/ ReadMeta \/ ReadSealed \/ NotIndexed \/ LoadFails
    \/ Unlock \/ SignMessage \/ WalletRejects
    \/ EnclaveAnswers \/ OtherAnswers \/ Receive \/ TimesOut
    \/ Withdraw \/ NotInAbi \/ Submit \/ Mined \/ Confirmed \/ Reverted \/ ReceiptLost
    \/ Reload \/ ReloadAnyway
==============================================================================
