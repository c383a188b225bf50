CONSTANTS
    Pids <- MCPids
    MaxRuns = 2
    PidReuse = TRUE
SPECIFICATION Spec
PROPERTY
    VpnKitRecordedFirst
