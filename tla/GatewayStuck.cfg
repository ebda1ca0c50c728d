\* One request at a time for a container whose dependency may not come up.
SPECIFICATION FairSpec
CONSTANTS
    Container <- PairContainer
    DependsOn <- PairDeps
    IdleTimeout <- PairNoTimeout
    Proc = {p1}
    None = None
    HTTPProbe = {}
    Faults = {}
    MaxAge = 0
    HasHost = {"web"}
    Handler = {h1}
    Requested = {"web"}
    Groups <- NoGroups
    Wakeable = {}
    StartJob = {}
    StopJob = {}
PROPERTY
    StartingResolves
