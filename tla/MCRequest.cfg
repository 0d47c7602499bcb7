SPECIFICATION FairSpec
CONSTANTS
    MaxRetries = 2
    AuthTypes = {"login", "AccessToken"}
    Instances = {i1, i2}
    NoInstance = NoInstance
    MaxTokens = 3
INVARIANTS
    TypeOK
    SendBudget
    AttemptCountsSends
    NewestSession
    StaleInstanceOnlyAfterLogin
PROPERTIES
    RejectedOnlyWithNewSession
    
    RequestEnds
