CONSTANTS
    Nodes = {n1, n2}
    Lnds <- MCLnds
    MinVersion <- MCMinVersion
    MaxStarts = 2
    MaxDeletes = 1
    MaxCalls = 1
    Commands = {c1}
    Methods = {"pay_offer", "create_offer"}
    NoMacaroon = NoMacaroon
SPECIFICATION CliSpec
CHECK_DEADLOCK FALSE
INVARIANTS
    CliTypeOK
    PairIsWhole
    OffersOutliveRestarts
    ReadCertIsGood
    OfferIsOwn
    LimitIsKept
PROPERTIES
    PairIsKept
    SignalEnds
    UnsupportedStops
    CommandEnds
