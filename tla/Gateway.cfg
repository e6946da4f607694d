SPECIFICATION Spec
CONSTANTS
    Routes <- MCRoutes
    Places = {1, 2}
    Rows = 2
    MaxAsked = 2
    Requests <- MCRequests
    Slots = {1, 2}
    MaxCalls = 3
    Burst = 1
    Cost = 2
    Rate = 1
    MaxClock = 1
    MaxElapsed = 2
    MaxTurns = 1
    MaxAuditFaults = 1
    Policies <- MCPolicies
    Pages <- MCPages
    Probes <- MCProbes
    AllowedHosts <- MCHosts
    Names <- MCNames
    Reserved <- MCReserved
    DnsAnswers <- MCAnswers
    Start <- MCStart
    TTL = 1
    CacheLimit = 1
    MaxFetches = 2
    MaxBody = 1
    Points = 3
    Keys = 2
    Amounts = {1, 2, 3, 4, 7}
    Workers = {"w1", "w2"}
    MaxTries = 1
    MaxFailures = 2
    Parts = {"gate", "tools", "fetch", "input", "cdp"}
INVARIANTS
    CallsGuarded
    RateBounded
    FetchStaysOut
    InputAndIdentity
PROPERTIES
    GatewayQuiesces
CHECK_DEADLOCK FALSE
