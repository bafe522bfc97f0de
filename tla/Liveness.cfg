SPECIFICATION FairSpec
CONSTANTS
    boss = boss
    worker = worker
    vault = vault
    zero = zero
    fxrp = fxrp
    teeA = teeA
    kA = kA
    nokey = nokey
    pay = pay
    hpay = hpay
    nohash = nohash
    malformed = malformed
    idle = idle
    Accounts <- MCAccounts
    Owner <- boss
    Vault <- vault
    Tokens <- MCTokens
    Signers <- MCSigners
    ZeroAddress <- zero
    Terms <- MCTerms
    Hashes <- MCHashes
    ZeroHash <- nohash
    Keccak <- MCKeccak
    Domains <- MCDomains
    Here = "here"
    Amounts <- MCAmounts
    Figures <- NoNumbers
    Deadlines <- NoNumbers
    MaxUint128 = 1
    MaxStreams = 1
    MaxTime = 1
    Endowment = 1
    RATE_SCALE = 1
    SECONDS_PER_DAY = 1
    AUTH_TTL_SECONDS = 1
    CALLER_AUTH_WINDOW_SECONDS = 1
    Malformed <- malformed
    Decode <- MCDecode
    SealingKeys <- MCSealingKeys
    NoKey <- nokey
    Idle <- idle
    IssueTimes <- MCIssueTimes
    MaxChallenges = 9
    MaxAuthorizations = 9
    MaxSkew = 0
    Askers <- EachAsks
PROPERTIES
    RecipientPaid
CHECK_DEADLOCK FALSE
