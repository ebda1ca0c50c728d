\* An idle entry point over dependencies that another one needs.
SPECIFICATION Spec
CONSTANTS
    Container <- SharedContainer
    DependsOn <- SharedDeps
    HasHost = {"web", "admin"}
    IdleTimeout <- SharedTimeout
    None = None
    MaxAge = 1
    Faults = {}
INVARIANT
    SparesNeededIndirectly
