SPECIFICATION Spec
CONSTANTS
    a = a
    b = b
    c = c
    x = x
    y = y
    z = z
    l1 = l1
    l2 = l2
    s1 = s1
    n1 = n1
    n2 = n2
    v1 = v1
    v2 = v2
    None = None
    Unset = Unset
    Callers <- MCCallers
    Commands <- MCCommands
    Links <- MCLinks
    Plans <- MCPlans
    Stacks = {s1}
    Names = {n1, n2}
    Values = {v1, v2}
    Files = {"f1", "f2"}
    Orders <- MCOrders
    InitStacks <- MCStacks
    MaxActive = 2
    MaxEdits = 1
    MaxFaults = 1
CHECK_DEADLOCK FALSE
INVARIANTS
    SlotsAccounted
    PooledLinkIsUp
    AnswersAreHonest
    RevokedStaysOff
PROPERTIES
    LostOnlyToStaleRead
SYMMETRY MCSymmetry
