CONSTANTS
    OfferCalls = {o1}
    PayCalls = {p1}
    Nodes = {n1, n2, n3, n4, n5}
    Channels <- MCChannels
    Neighbours <- MCNeighbours
    OnionNodes = {n2, n3}
    Self = Self
    Amounts = {0, 1, 2}
    NoAmount = NoAmount
    NoCall = NoCall
    MaxDeliveries = 3
    MaxRestarts = 1
    n1 = n1
    n2 = n2
    n3 = n3
    n4 = n4
    n5 = n5
SPECIFICATION FairSpec
CHECK_DEADLOCK FALSE
INVARIANTS
    TypeOK
    PayableAsAsked
    OwnHash
    NoStrayInvoice
PROPERTIES
    PathsChosenWell
    Answered
