CONSTANTS
    Peers = {p1}
    OnionPeers = {p1}
    NoPeer = NoPeer
    MayRefuse = TRUE
    FirstHops = {}
    MaxAttempts = 2
    MaxChanges = 2
    MaxDrops = 1
    MaxEvents = 3
SPECIFICATION Spec
CHECK_DEADLOCK FALSE
INVARIANTS
    TypeOK
    StartupFits
    ViewsAgree
    ViewFollows
