------------------------------ MODULE MCLiveness ------------------------------
(***************************************************************************)
(* One stream that may be funded, paid and settled, while the TEE crashes, *)
(* is redeployed with or without keys, and tokens fail.  The recipient may *)
(* ask for withdrawals and the employer for a settlement; the bounds on    *)
(* challenges and authorizations never bind.                               *)
(***************************************************************************)
EXTENDS StealthWage

CONSTANTS boss, worker, vault, zero, fxrp, teeA, kA, nokey, pay, hpay, nohash,
          malformed, idle

MCAccounts == {boss, worker}
MCTokens   == {fxrp}
MCSigners  == {teeA}
MCTerms    == {pay}
MCHashes   == {hpay}
MCKeccak   == [t \in MCTerms |-> hpay]
MCDomains  == {"here"}
MCAmounts  == {1}
NoNumbers  == {}
MCDecode   ==
    [t \in MCTerms |->
        [employer |-> boss, recipient |-> worker,
         ratePerSecond |-> 1, total |-> 2, startTime |-> 0]]
MCSealingKeys == {kA}
MCIssueTimes  == {1}
EachAsks      == {<<worker, WITHDRAW_TAG>>, <<boss, SETTLE_TAG>>}
==============================================================================
