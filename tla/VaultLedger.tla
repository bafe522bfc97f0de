----------------------------- MODULE VaultLedger -----------------------------
(***************************************************************************)
(* StreamVault and the enclave as their clients meet them.  To a client a  *)
(* transaction is one step that succeeds or reverts, so a stream is the    *)
(* record the contract keeps of it between transactions and a call is a    *)
(* condition and a new record.  StreamVault.tla has the same calls with    *)
(* their token transfers and callbacks.  An authorization is the figure    *)
(* and the deadline under a signature that the vault accepts.              *)
(***************************************************************************)
EXTENDS Protocol

CONSTANT Absent    \* what streams(id) gives for an id that is not in use

Authorizations == [accrued : Nat, deadline : Nat]

\* What the enclave signs for these terms when its clock says now.
authorizedAt(terms, now) ==
    [accrued |-> accruedAt(terms, now), deadline |-> now + AUTH_TTL_SECONDS]

\* The challenge is recent enough and signed by one of the parties.
accepts(issuedAt, signer, parties, now) ==
    /\ issuedAt <= now + CALLER_AUTH_WINDOW_SECONDS
    /\ now <= issuedAt + CALLER_AUTH_WINDOW_SECONDS
    /\ signer \in parties

\* The record of a stream that exists.
LedgerStreams(commitments) ==
    [commitment : commitments, funded : Nat, withdrawn : Nat, cancelled : BOOLEAN]

Opened(commitment) ==
    [commitment |-> commitment, funded |-> 0, withdrawn |-> 0, cancelled |-> FALSE]

IsOpen(s) == s # Absent /\ ~s.cancelled

AfterFund(s, amount) == [s EXCEPT !.funded = @ + amount]

\* The signed figure, as far as it is funded; and without looking.
UncappedFigure(s, auth) == auth.accrued
CapOf(s, auth) == IF auth.accrued < s.funded THEN auth.accrued ELSE s.funded

CanWithdraw(s, auth, now) ==
    /\ IsOpen(s)
    /\ now <= auth.deadline
    /\ CapOf(s, auth) > s.withdrawn

AfterWithdraw(s, auth) == [s EXCEPT !.withdrawn = CapOf(s, auth)]

CanCancel(s, auth, now) == IsOpen(s) /\ now <= auth.deadline

\* A settlement pays what is still owed and closes the stream; or leaves it open.
PaidNotClosed(s, auth) ==
    [s EXCEPT !.withdrawn = IF CapOf(s, auth) > @ THEN CapOf(s, auth) ELSE @]
AfterCancel(s, auth) ==
    [s EXCEPT !.cancelled = TRUE,
              !.withdrawn = IF CapOf(s, auth) > @ THEN CapOf(s, auth) ELSE @]
==============================================================================
