SPECIFICATION Spec
CONSTANTS
    dsh = dsh
    lab = lab
    d1 = d1
    d2 = d2
    a1 = a1
    a2 = a2
    c1 = c1
    alice = alice
    Actors = {alice}
    NoTarget = NoTarget
    Ids = {dsh, lab}
    DshRead = dsh
    StaticIds = {lab}
    Devices = {d1, d2}
    Offers <- MCOffers
    Stored <- MCStored
    Approvals = {a1, a2}
    Calls = {c1}
SYMMETRY Symmetry
INVARIANTS
    ServedAsApplied
    ContainersAsGranted
    WithinApproval
CHECK_DEADLOCK FALSE
