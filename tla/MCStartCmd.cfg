\* `cf dev start`, Destroy failing or not: serial stages, diagnosis containers,
\* the already-running short cut, teardown on a signal, and the refinement
\* of the abstract deploy pipeline.
CONSTANTS
    NumServices <- MCNumServices
    DestroyMayFail = TRUE
SPECIFICATION Spec
INVARIANT TypeOK
INVARIANT StagesSerial
INVARIANT FailedStageKept
INVARIANT AlreadyRunningIsNoop
PROPERTY SignalLeadsToHalt
PROPERTY ImplementsPipeline
