SPECIFICATION Spec
CONSTANTS
    Validators <- MCValidators
    Faulty <- MCFaulty
    Trackers <- MCTrackers
    Lagging <- MCLagging
    MaxView = 1
    Version = 0
    PrevHash = "prev"
    Height = 7
    Now = 5
    MaxSigned = 5
    MaxRecovery = 2
INVARIANTS
    TypeOK
    WireRoundTrip
    RecoveryRestoresVotes
    VotesAreAuthentic
