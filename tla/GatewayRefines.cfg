\* Everything at once: requests, dashboard, cron jobs, idle watcher, faults.
SPECIFICATION Spec
CONSTANTS
    Container <- PairContainer
    DependsOn <- PairDeps
    IdleTimeout <- PairTimeout
    Proc = {p1}
    None = None
    HTTPProbe = {}
    Faults = {"api", "restart", "deadline"}
    MaxAge = 1
    HasHost = {"web"}
    Handler = {h1}
    Requested = {"web"}
    Groups <- NoGroups
    Wakeable = {"db"}
    StartJob = {"web"}
    StopJob = {"db"}
INVARIANT
    TypeOK
PROPERTY
    ImplementsManager
