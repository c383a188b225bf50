-------------------------------- MODULE MCHyperV --------------------------------
EXTENDS HyperV, TLC

CONSTANTS x1, x2, x3

\* Three VM identities: enough for a failed CreateVM, a retry that makes a
\* second VM of the same name, and one more.
MCVmIds == {x1, x2, x3}

MCSymmetry == Permutations(MCVmIds)
=============================================================================
