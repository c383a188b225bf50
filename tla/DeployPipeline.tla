---------------------------- MODULE DeployPipeline ----------------------------
(***************************************************************************)
(* What the deploy stages of `cf dev start' promise (spec: the deployment   *)
(* pipeline runs an ordered sequence of container-scoped stages), as an    *)
(* abstract specification: N stages run one at a time, each in a container *)
(* that is live only while it runs and released once it succeeded; the    *)
(* pipeline succeeds after the last stage, or fails at some stage and then *)
(* does nothing more, keeping the failed stage's container.                *)
(***************************************************************************)
EXTENDS Naturals

CONSTANT N   \* the number of stages

VARIABLES
    done,     \* stages that have completed
    live,     \* the running stage's container is in use
    outcome   \* "pending", "ok" or "failed"

pvars == <<done, live, outcome>>

Init == done = 0 /\ ~live /\ outcome = "pending"

\* The next stage gets its container.
StartStage ==
    /\ outcome = "pending" /\ ~live /\ done < N
    /\ live' = TRUE
    /\ UNCHANGED <<done, outcome>>

\* The running stage succeeds: its container is released, and after the last
\* stage the pipeline has succeeded.
FinishStage ==
    /\ outcome = "pending" /\ live
    /\ done' = done + 1 /\ live' = FALSE
    /\ outcome' = IF done + 1 = N THEN "ok" ELSE "pending"

\* A stage fails, before or after its container exists.
FailStage ==
    /\ outcome = "pending"
    /\ outcome' = "failed"
    /\ UNCHANGED <<done, live>>

Next == StartStage \/ FinishStage \/ FailStage

Spec == Init /\ [][Next]_pvars
=============================================================================
