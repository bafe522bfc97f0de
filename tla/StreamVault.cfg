SPECIFICATION VaultSpec
CONSTANTS
    alice = alice
    bob = bob
    vault = vault
    zero = zero
    fxrp = fxrp
    teeA = teeA
    teeB = teeB
    terms = terms
    hash = hash
    nohash = nohash
    Accounts <- MCAccounts
    Owner <- alice
    Vault <- vault
    Tokens <- MCTokens
    Signers <- MCSigners
    ZeroAddress <- zero
    Terms <- MCTerms
    Hashes <- MCHashes
    ZeroHash <- nohash
    Keccak <- MCKeccak
    Domains <- MCDomains
    Here = "here"
    Amounts <- MCAmounts
    Figures <- MCFigures
    Deadlines <- MCDeadlines
    MaxUint128 = 2
    MaxStreams = 2
    MaxTime = 1
    Endowment = 2
INVARIANTS
    VaultTypeOK
    Segregated
    BooksBalance
    Solvent
PROPERTIES
    StreamHistory
    ImplementsIdealStreams
CHECK_DEADLOCK FALSE
