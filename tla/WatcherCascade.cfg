\* Two entry points over shared dependencies; nothing starts during a cascade.
SPECIFICATION FairSpec
CONSTANTS
    Container <- SharedContainer
    DependsOn <- SharedDeps
    HasHost = {"web", "admin"}
    IdleTimeout <- SharedTimeout
    None = None
    MaxAge = 1
    Faults = {"crash", "remove"}
INVARIANTS
    WatcherTypeOK
    DependentsFirst
    SparesNeeded
PROPERTY
    IdleStops
