SPECIFICATION ServicesSpec
CONSTANTS
    c1 = c1
    c2 = c2
    Commits = {c1, c2}
    Flaws <- MCFlaws
    Edited = Edited
    ReviewedProfile = ReviewedProfile
    OtherProfile = OtherProfile
    TrustedKey = TrustedKey
    OtherKey = OtherKey
    Nothing = Nothing
    MaxBuilds = 1
    Partial = Partial
    Pinned = Pinned
    Drifted = Drifted
    Roles = {"plant", "gateway"}
    RoleOrder <- MCRoleOrder
    NoToken = NoToken
    MaxAttempts = 2
    MaxTokens = 2
    StableReads = 2
    MaxDeployments = 2
    MaxCampaigns = 1
    PartitionReads = 2
    ForeignBundles <- MCForeignBundles
    MaxDisturbances = 2
    Callers = {k1, k2}
    Allowed = {k1}
    Lifetimes = {2, 6}
    MaxTtl = 5
    MinRemaining = 1
    RefreshPeriod = 1
    FetchTimeout = 1
    MaxInstant = 4
    MaxUpsets = 2
    Nobody = Nobody
INVARIANTS
    BootstrapLeavesNoWayIn
    HandshakesAreCurrent
PROPERTIES
    EvidenceIsTrue
CHECK_DEADLOCK FALSE
