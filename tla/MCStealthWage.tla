---------------------------- MODULE MCStealthWage ----------------------------
(***************************************************************************)
(* One stream between two accounts that may take either role in the vault; *)
(* sealed terms that pay three units in two seconds from second 0, up to   *)
(* 2, and a blob that is no terms at all; a TEE key that may be unset in   *)
(* the vault, in the enclave, or in both.                                  *)
(***************************************************************************)
EXTENDS StealthWage

CONSTANTS boss, worker, vault, zero, fxrp, teeA, kA, nokey, pay, junk,
          hpay, hjunk, nohash, malformed, idle

MCAccounts == {boss, worker}
MCTokens   == {fxrp}
MCSigners  == {teeA}
MCTerms    == {pay, junk}
MCHashes   == {hpay, hjunk}
MCKeccak   == [t \in MCTerms |-> IF t = pay THEN hpay ELSE hjunk]
MCDomains  == {"here"}
MCAmounts  == {1}
NoNumbers  == {}
MCDecode   ==
    [t \in MCTerms |->
        IF t = pay
        THEN [employer |-> boss, recipient |-> worker,
              ratePerSecond |-> 3, total |-> 2, startTime |-> 0]
        ELSE malformed]
MCSealingKeys == {kA}
MCIssueTimes  == {1}
MCAskers      == {<<worker, WITHDRAW_TAG>>, <<worker, SETTLE_TAG>>, <<boss, SETTLE_TAG>>}
==============================================================================
