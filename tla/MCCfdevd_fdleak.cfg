CONSTANTS
    c1 = c1
    c2 = c2
    c3 = c3
    Conns <- MCConns
    Codes <- MCCodes
    MaxFds = 2
    BadHandshake = BadHandshake
    Eof = Eof
    NoMessage = NoMessage
SPECIFICATION Spec
CHECK_DEADLOCK FALSE
PROPERTY EveryConnectionServed
