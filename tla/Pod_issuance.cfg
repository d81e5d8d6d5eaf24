SPECIFICATION Spec
CONSTANTS
    Clients = {"a", "b", "c"}
    Kids = {"k1"}
    Kid <- MCKid
    Jti <- MCJti
    Connections = {"c1"}
    Slots = 2
    Burst = 2
    Cooldown = 2
    Backoff = 1
    Recheck = 1
    MaxTime = 2
    Scenarios <- MCScenarios
INVARIANTS
    OnlyGuarded
    AnsweredTruthfully
    IssuanceAccounted
    FetchesBounded
    MintingGuarded
PROPERTY IssueEnds
