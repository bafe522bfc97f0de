-------------------------------- MODULE World --------------------------------
(***************************************************************************)
(* The names that the contract, the enclave and the clients share.         *)
(***************************************************************************)
EXTENDS Integers, Functions

CONSTANTS
    Accounts,      \* addresses of employers, recipients and anyone else
    Signers,       \* addresses of TEE signing keys; all are held by enclaves
    ZeroAddress,   \* address(0)
    Terms,         \* plaintext blobs a commitment may hide
    Hashes,        \* the nonzero 32-byte words
    ZeroHash,      \* bytes32(0)
    Keccak,        \* [Terms -> Hashes], taken to be collision free
    Domains,       \* <<chain id, vault address>> pairs a digest may be bound to
    Here,          \* the pair of this deployment
    MaxStreams     \* bound: streams ever created

ASSUME WorldAssumption ==
    /\ ZeroAddress \notin Accounts \cup Signers
    /\ ZeroHash \notin Hashes
    /\ Keccak \in [Terms -> Hashes]
    /\ IsInjective(Keccak)
    /\ Here \in Domains
    /\ MaxStreams \in Nat \ {0}

StreamIds == 1..MaxStreams
==============================================================================
