---------------------------- MODULE MCBoshProgress ----------------------------
EXTENDS BoshProgress

CONSTANTS v1, v2

\* Two VMs: one can run while the other is still starting or restarting.
MCVMs == {v1, v2}
=============================================================================
