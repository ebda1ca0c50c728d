\* Three goroutines, every fault, and db may be stopped behind their back.
SPECIFICATION Spec
CONSTANTS
    Container <- MCContainer
    Proc = {p1, p2, p3}
    None = None
    Jobs <- MCJobs
    HTTPProbe = {"app"}
    Stoppable = {"db"}
    Faults = {"crash", "operator", "remove", "api", "deadline", "restart"}
    MaxAge = 0
SYMMETRY ProcSymmetry
INVARIANTS
    TypeOK
    OneAttempt
    MutexHasHolder
    AttemptVisible
