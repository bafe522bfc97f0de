----------------------------- MODULE VaultReplay -----------------------------
(***************************************************************************)
(* StreamVault with a record of the withdrawal authorizations it has       *)
(* honoured.  The contract keeps no such record: its accounting is         *)
(* cumulative and withdrawn is the only nonce.                             *)
(***************************************************************************)
EXTENDS StreamVault

VARIABLES
    inUse,      \* the authorization of the running withdrawal, if any
    redeemed    \* authorizations that have paid

replayVars == <<vaultVars, inUse, redeemed>>

NoSignature == [nothing |-> 1]

ReplayInit == VaultInit /\ inUse = NoSignature /\ redeemed = {}

UseSignature ==
    \E id \in StreamIds, sig \in Signatures :
        /\ withdraw(id, sig.digest.accrued, sig.digest.deadline, sig)
        /\ inUse' = sig
        /\ UNCHANGED redeemed

EndOfCall ==
    /\ inUse' = NoSignature
    /\ \/ Return /\ redeemed' = IF inUse = NoSignature THEN redeemed
                                ELSE redeemed \cup {inUse}
       \/ Revert /\ UNCHANGED redeemed

ReplayNext ==
    \/ UseSignature
    \/ EndOfCall
    \/ VaultStep /\ ~(Return \/ Revert) /\ UNCHANGED <<inUse, redeemed>>

ReplaySpec == ReplayInit /\ [][ReplayNext]_replayVars

\* "Replaying an old authorization is a no-op" (README.md): an authorization
\* that has paid never pays again.  When the first payment was capped by the
\* deposit, a top-up lets the same authorization pay the rest.
ReplayIsNoOp == inUse \notin redeemed
==============================================================================
