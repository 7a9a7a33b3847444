SPECIFICATION Spec
CONSTANTS
    Agents = {hdAgent}
    NetInterval = 2
    Configs = {k1, k2}
    None = None
    Bad = Bad
    MaxFaults = 2
    MaxChanges = 2
PROPERTIES StatusFollows KubeconfigArrives RemovedIsCleared
