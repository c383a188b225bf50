---------------------------- MODULE MCGardenFetch ----------------------------
EXTENDS GardenFetch, TLC

CONSTANTS i1, i2, i3

\* Three callers: two `cf dev bosh env' and the bosh.New of a running start.
MCInvs == {i1, i2, i3}

MCSymmetry == Permutations(MCInvs)
=============================================================================
