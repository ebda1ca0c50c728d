\* Listings fail, labels are invalid, signals arrive; passes do not overlap.
SPECIFICATION DiscoveryFairSpec
CONSTANTS
    Name <- MCName
    Host <- MCHost
    StaticConfigs <- MCStatic
    LabelLists <- MCLabels
    None = None
    NoHost = NoHost
    Faults = {"list"}
    MaxChanges = 2
INVARIANTS
    DiscoveryTypeOK
    ServerValid
    LastConfigPushed
PROPERTY
    Converges
