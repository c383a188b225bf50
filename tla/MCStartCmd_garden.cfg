\* Does `cf dev start` always end when Garden never answers in a live VM?
CONSTANTS
    NumServices <- MCNumServices
    DestroyMayFail = FALSE
SPECIFICATION Spec
PROPERTY StartTerminates
