CONSTANTS
    x1 = x1
    x2 = x2
    x3 = x3
    VmIds <- MCVmIds
    NoVm = NoVm
    MaxCalls = 4
SYMMETRY MCSymmetry
SPECIFICATION Spec
INVARIANTS
    CreatedComplete
    StopClears
