SPECIFICATION Spec
CONSTANTS
    Actors = {u1, u2}
    Devices = {"east", "west"}
    Programs = {"systemctl", "apt"}
    Approvals = {a1, a2}
    Nonces = {n1, n2}
    None = None
    ClockError = 1
    Offset <- MCOffset
    LocalPrograms <- MCLocalPrograms
    ApprovalTtl = 1
    TicketTtl = 1
    ClockSkew = 1
    Grace = 1
    MaxStall = 1
    MaxTime = 4
SYMMETRY IdSymmetry
CHECK_DEADLOCK FALSE
INVARIANTS
    RunsAtMostOnce
PROPERTIES
    RunsWithinAuthority
    WithdrawalTakesHold
    ImplementsSingleUse
