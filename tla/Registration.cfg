SPECIFICATION FairSpec
CONSTANTS
    Missing = Missing
    Torn = Torn
    Commands = {{"r", "a", "p"}, {"r", "R", "a", "p"}, {"p"}}
    Resumes = {TRUE, FALSE}
    MaxChallenges = 6
    MaxMishaps = 2
INVARIANTS
    RegistrationTypeOK
    FileTruth
    NothingSkipped
    FreshChallenge
PROPERTIES
    Completes
CHECK_DEADLOCK FALSE
