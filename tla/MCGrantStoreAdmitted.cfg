SPECIFICATION Spec
CONSTANTS
    Ids = {i1}
    Keys = {k1}
    Payloads = {p1}
    None = None
    MaxGrants = 1
    MaxDeliveries = 1
    MaxCalls = 3
SYMMETRY GrantSymmetry
INVARIANTS
    AdmittedUnderGrant
