\* Stage ordering when Garden's Destroy fails (its error is ignored).
CONSTANTS
    NumServices <- MCNumServices
    DestroyMayFail = TRUE
SPECIFICATION Spec
INVARIANT StageOrder
