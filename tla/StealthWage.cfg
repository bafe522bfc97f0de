SPECIFICATION Spec
CONSTANTS
    boss = boss
    worker = worker
    vault = vault
    zero = zero
    fxrp = fxrp
    teeA = teeA
    kA = kA
    nokey = nokey
    pay = pay
    junk = junk
    hpay = hpay
    hjunk = hjunk
    nohash = nohash
    malformed = malformed
    idle = idle
    Accounts <- MCAccounts
    Owner <- boss
    Vault <- vault
    Tokens <- MCTokens
    Signers <- MCSigners
    ZeroAddress <- zero
    Terms <- MCTerms
    Hashes <- MCHashes
    ZeroHash <- nohash
    Keccak <- MCKeccak
    Domains <- MCDomains
    Here = "here"
    Amounts <- MCAmounts
    Figures <- NoNumbers
    Deadlines <- NoNumbers
    MaxUint128 = 2
    MaxStreams = 1
    MaxTime = 3
    Endowment = 1
    RATE_SCALE = 2
    SECONDS_PER_DAY = 1
    AUTH_TTL_SECONDS = 2
    CALLER_AUTH_WINDOW_SECONDS = 1
    Malformed <- malformed
    Decode <- MCDecode
    SealingKeys <- MCSealingKeys
    NoKey <- nokey
    Idle <- idle
    IssueTimes <- MCIssueTimes
    MaxChallenges = 2
    MaxAuthorizations = 2
    MaxSkew = 1
    Askers <- MCAskers
INVARIANTS
    TypeOK
    NeverOverpaid
    AuditSound
PROPERTIES
    SettlementFloor
    PaidOnRequest
CHECK_DEADLOCK FALSE
