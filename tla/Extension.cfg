SPECIFICATION FairSpec
CONSTANTS
    h1 = h1
    h2 = h2
    g = g
    x = x
    a = a
    b = b
    c = c
    s = s
    NoText = NoText
    Nobody = Nobody
    Requests <- MCRequests
    Posted <- MCPosted
    Op <- MCOp
    Text <- MCText
    Refused <- MCRefused
    Throws <- MCThrows
INVARIANTS
    ServersTypeOK
    NumberedInOrder
PROPERTIES
    ImplementsService
    EveryoneAnswered
CHECK_DEADLOCK FALSE
