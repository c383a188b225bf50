CONSTANTS
    c1 = c1
    c2 = c2
    c3 = c3
    Conns <- MCConns
    Codes <- MCCodes
    MaxFds = 2
    BadHandshake = BadHandshake
    Eof = Eof
    NoMessage = NoMessage
SYMMETRY MCSymmetry
SPECIFICATION Spec
\* The daemon blocks in AcceptUnix once every client is served.
CHECK_DEADLOCK FALSE
INVARIANTS ReplyProtocol
