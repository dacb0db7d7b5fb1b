SPECIFICATION Spec
CONSTANTS
    j1 = j1
    j2 = j2
    j3 = j3
    NoJob = NoJob
    Jobs = {j1, j2, j3}
    Menus <- MCMenus
    MaxFaults = 2
INVARIANTS
    AnswersMatchEffects
    LeftoverHasCause
PROPERTIES
    OnlyOwnCleanup
CHECK_DEADLOCK FALSE
