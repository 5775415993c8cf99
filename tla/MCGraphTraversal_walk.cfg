CONSTANTS
    Node = {n1, n2, n3, n4}
    None = None
    Priority = {2}
    HubMinDegree = 2
    MaxHubs = 1
    MaxAdaptiveHops = 2
    MaxEdges = 3
    MaxHops = 1
    MaxResults = 2
SPECIFICATION Spec
INVARIANTS ReachedWithinHops FreeStepsTaken NearReached
SYMMETRY Symmetry
CHECK_DEADLOCK FALSE
