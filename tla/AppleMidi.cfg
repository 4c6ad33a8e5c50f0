SPECIFICATION FairSpec
CONSTANTS
    Peers = {p, q}
    Nobody = Nobody
    Tokens = {1, 2, 3, 4, 5}
    QueueSize = 1
    MaxFaults = 1
INVARIANTS
    WhoIsInIsHeard
    OneMachinePerSession
PROPERTIES
    KeepsLiveSessions
    SomebodyGetsIn
