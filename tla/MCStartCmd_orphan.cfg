\* Teardown racing the main goroutine: can os.Exit(128) leave a helper running?
CONSTANTS
    NumServices <- MCNumServices
    DestroyMayFail = FALSE
SPECIFICATION Spec
INVARIANT NoOrphanOnExit
