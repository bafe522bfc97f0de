SPECIFICATION Spec
CONSTANTS
    boss = boss
    worker = worker
    absent = absent
    none = none
    RATE_SCALE = 1
    SECONDS_PER_DAY = 1
    AUTH_TTL_SECONDS = 1
    CALLER_AUTH_WINDOW_SECONDS = 1
    Absent <- absent
    None <- none
    StreamTerms <- MCTerms
    Amounts <- MCAmounts
    MaxFunded = 2
    MaxShown = 0
    MaxTime = 3
    DEMO_REVEAL_BLOCK = 1
    Span = 1
    MaxRange = 3
    MaxReveals = 1
    MaxFaults = 2
    Users <- MCUsers
    StreamParties <- MCUsers
    TermsParties <- MCInTerms
    Additions <- MCAdditions
    Figures <- MCFigures
    Slots <- MCSlots
    IsDemo = TRUE
INVARIANTS
    FrontendTypeOK
    TermsVerified
    RevealFound
    SharedVerdict
PROPERTIES
    AuthSpentOnlyWhenPaid
    SpinnerResolves
    PaidIfCallable
    EventuallyCurrent
CHECK_DEADLOCK FALSE
