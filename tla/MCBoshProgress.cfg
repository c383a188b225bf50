CONSTANTS
    v1 = v1
    v2 = v2
    NoMsg = NoMsg
    VMs <- MCVMs
SPECIFICATION Spec
PROPERTIES
    ReleasesOnlyBeforeTotal
    ProgressEndsOnConvergence
