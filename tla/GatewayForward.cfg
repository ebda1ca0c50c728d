\* Requests and group requests for the end of a chain of three, no faults, nothing stops.
SPECIFICATION FairSpec
CONSTANTS
    Container <- TripleContainer
    DependsOn <- ChainDeps
    IdleTimeout <- TripleNoTimeout
    Proc = {p1, p2}
    None = None
    HTTPProbe = {"api"}
    Faults = {}
    MaxAge = 0
    HasHost = {"web"}
    Handler = {h1}
    Requested = {"web"}
    Groups <- MCGroups
    Wakeable = {}
    StartJob = {}
    StopJob = {}
INVARIANTS
    DependenciesFirst
    ForwardWithDependencies
PROPERTY
    WakesUp
