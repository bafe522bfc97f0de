SPECIFICATION Spec
CONSTANTS
    absent = absent
    none = none
    Absent <- absent
    None <- none
    RATE_SCALE = 1
    SECONDS_PER_DAY = 1
    AUTH_TTL_SECONDS = 1
    CALLER_AUTH_WINDOW_SECONDS = 1
    Casts <- MCCasts
    Forms <- MCForms
    FUND = 2
    BACKDATE = 1
    SETTLE_AFTER_SECONDS = 1
    Endowment = 4
    MaxAttempts = 2
    MaxStreams = 4
    MaxTime = 3
    MaxFaults = 1
INVARIANTS
    ClientsTypeOK
    OwnStream
    SealedMatchesCommitment
    SettleVerdict
    E2eVerdict
PROPERTIES
    LedgerImplementsIdealStreams
CHECK_DEADLOCK FALSE
