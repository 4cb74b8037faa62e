CONSTANTS
    None = None
    Images = {a, b}
    MaxDeployments = 3
    Configs <- MCConfigs
    Keeps = {0, 2}
    MaxActive = 2
    MaxFaults = 1
    MaxRequests = 1
SPECIFICATION Spec
SYMMETRY ImageSymmetry
INVARIANTS
    InUseKeepsTag
    RollbackRestores
    
\* The deployments are bounded.
CHECK_DEADLOCK FALSE
