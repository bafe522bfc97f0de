------------------------------ MODULE MCReplay ------------------------------
(***************************************************************************)
(* One stream, one signer, deposits of 1 up to a total of 2.               *)
(***************************************************************************)
EXTENDS VaultReplay

CONSTANTS alice, bob, vault, zero, fxrp, teeA, terms, hash, nohash

MCAccounts  == {alice, bob}
MCTokens    == {fxrp}
MCSigners   == {teeA}
MCTerms     == {terms}
MCHashes    == {hash}
MCKeccak    == [t \in {terms} |-> hash]
MCDomains   == {"here"}
MCAmounts   == {1}
MCFigures   == {1, 2}
MCDeadlines == {0}
==============================================================================
