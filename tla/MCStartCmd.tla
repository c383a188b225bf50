----------------------------- MODULE MCStartCmd -----------------------------
(* Small instances of StartCmd for TLC.                                     *)
EXTENDS StartCmd

\* Two services: the services loop has a first, a middle and a last step
\* (BOSH, CF, service 1, service 2).
MCNumServices == 2
=============================================================================
