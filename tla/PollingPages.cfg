\* A loading page and the dashboard behind one address.
SPECIFICATION FairSpec
CONSTANTS
    Client = {"a"}
    MinInterval = 2
    None = None
    Page <- MCPage
    Dashboard = {"dashboard"}
    ClientOf <- OneAddress
    Period <- MCPeriod
    MaxDelay = 1
    Patience = 40
INVARIANTS
    PollingTypeOK
    LearnsInTime
PROPERTIES
    ImplementsLimiter
    ForgetsClients
