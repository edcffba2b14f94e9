CONSTANTS
    Tree <- MCTree
    Roots <- MCRoots
    SecretDirs = {"s"}
    SecretFiles = {"b"}
    BadNames = {"con"}
    Targets <- MCTargets
    Requests <- MCRequests
    Grants <- MCGrants
    Trees <- MCTrees
    Changes <- MCChanges
    MaxChanges = 2
    MaxLinks = 2
    Elsewhere = Elsewhere
    None = None
SPECIFICATION Spec
INVARIANTS
    GuardSound
    ServedIsAllowed
    CreatedWhereApproved
CHECK_DEADLOCK FALSE
