\* A group in the file.
SPECIFICATION DiscoverySpec
CONSTANTS
    Name <- MCName
    Host <- MCHost
    StaticConfigs <- GroupStatic
    LabelLists <- MCLabels
    None = None
    NoHost = NoHost
    Faults = {}
    MaxChanges = 1
INVARIANT
    GroupsServed
