\* Two reloads under a request, over every graph of three containers.
SPECIFICATION Spec
CONSTANTS
    Name <- MCName
    Host <- MCHost
    NoHost = NoHost
    Configs <- MCConfigs
    Requests <- MCRequests
    MaxReloads = 2
INVARIANTS
    ServingTypeOK
    ServedAcyclic
    PlanOfOneConfig
    FailsOnlyIfRemoved
    NotFoundOnlyIfUnserved
    ActivityReachesChain
