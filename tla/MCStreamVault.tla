---------------------------- MODULE MCStreamVault ----------------------------
(***************************************************************************)
(* Two streams in one token, two parties that may each be employer or      *)
(* recipient, amounts up to a uint128 of 2.  The figures go past the       *)
(* largest uint128, and both tags, a foreign domain and a foreign signer   *)
(* are among the signatures.                                               *)
(***************************************************************************)
EXTENDS StreamVault

CONSTANTS alice, bob, vault, zero, fxrp, teeA, teeB, terms, hash, nohash

MCAccounts == {alice, bob}
MCTokens   == {fxrp}
MCSigners  == {teeA, teeB}
MCTerms    == {terms}
MCHashes   == {hash}
MCKeccak   == [t \in {terms} |-> hash]
MCDomains  == {"here", "elsewhere"}
MCAmounts  == {0, 1, 2}
MCFigures  == {1, 3}
MCDeadlines == {0}
==============================================================================
