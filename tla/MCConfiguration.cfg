SPECIFICATION FewSpec
CONSTANTS
    None = None
    Codes = {c1, bad}
    Broken = {bad}
    Calls = {e1}
    MaxFailures = 1
    MaxMutations = 2
    MaxFaults = 1
    Models = {1, 2}
    d1 = d1
    d2 = d2
    d3 = d3
    Deployments <- Three
    Jobs = {j1, j2}
    MaxJobs = 2
    Replicas = {r1}
    Requests = {k1, k2}
    MaxChanges = 1
INVARIANT ConfigurationKept
PROPERTY ConfigurationArrives
CHECK_DEADLOCK FALSE
