SPECIFICATION Spec
CONSTANTS
    Names <- MCNames
    Requires <- MCRequires
    Templates <- MCTemplates
    MaxOps = 3
    MaxFaults = 2
INVARIANTS TypeOK NoneLost NoneShared UpdateAligns RollbackAligns NobodyWorks
PROPERTIES Ends
CHECK_DEADLOCK FALSE
