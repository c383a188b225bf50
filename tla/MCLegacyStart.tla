---------------------------- MODULE MCLegacyStart ----------------------------
EXTENDS LegacyStart

\* Four pids: enough for vpnkit, linuxkit and hyperkit of one invocation
\* and one more process, so that a pid is reused by the next one.
MCPids == 1..4
=============================================================================
