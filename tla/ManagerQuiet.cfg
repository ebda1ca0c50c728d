\* Only app is stopped by the gateway; goroutines time out, the gateway restarts.
SPECIFICATION FairSpec
CONSTANTS
    Container <- MCContainer
    Proc = {p1, p2}
    None = None
    Jobs <- RequestJobs
    HTTPProbe = {"db"}
    Stoppable = {"app"}
    Faults = {"remove", "deadline", "restart"}
    MaxAge = 0
INVARIANTS
    StartOnlyStopped
    RunningMeansReady
    PredecessorsRunning
PROPERTIES
    AttemptsEnd
    CrashDetected
