CONSTANTS
    i1 = i1
    i2 = i2
    i3 = i3
    NoInv = NoInv
    Invs <- MCInvs
SPECIFICATION Spec
INVARIANT
    NoLeakedFetchContainer
