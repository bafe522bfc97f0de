SPECIFICATION Spec
CONSTANTS
    RATE_SCALE = 15
    SECONDS_PER_DAY = 7
    AUTH_TTL_SECONDS = 1
    CALLER_AUTH_WINDOW_SECONDS = 1
    Salaries <- MCSalaries
    Totals <- MCTotals
    Starts <- MCStarts
    LastSecond = 20
INVARIANTS
    NeverAboveSalary
    ShortfallBounded
    ShowsSalary
CHECK_DEADLOCK FALSE
