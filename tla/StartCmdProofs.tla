--------------------------- MODULE StartCmdProofs ---------------------------
(***************************************************************************)
(* Proofs about StartCmd, for every number of services.                    *)
(***************************************************************************)
EXTENDS StartCmd, TLAPS

USE StartAssumption

(* Every step of `cf dev start' keeps every variable in its type.           *)
LEMMA TypeStep == TypeOK /\ [Next]_vars => TypeOK'
<1> SUFFICES ASSUME TypeOK, [Next]_vars PROVE TypeOK'
  OBVIOUS
<1> USE DEF TypeOK, Running, Return, VMUp
<1>1. CASE CheckArgIso
  BY <1>1 DEF CheckArgIso, inputVars, hostVars, gardenVars, Results, MainPcs
<1>2. CASE ReadIso
  BY <1>2 DEF ReadIso, inputVars, hostVars, gardenVars, Results, MainPcs
<1>3. CASE CheckRunning
  BY <1>3 DEF CheckRunning, inputVars, hostVars, gardenVars, Results, MainPcs
<1>4. CASE Prepare
  BY <1>4 DEF Prepare, inputVars, hostVars, gardenVars, Results, MainPcs
<1>5. CASE StartVpnKit
  BY <1>5 DEF StartVpnKit, inputVars, gardenVars, Results, MainPcs, Procs, ProcStates
<1>6. CASE StartLinuxKit
  BY <1>6 DEF StartLinuxKit, inputVars, gardenVars, Results, MainPcs, Procs, ProcStates
<1>7. CASE GardenReady
  BY <1>7 DEF GardenReady, inputVars, hostVars, gardenVars, Results, MainPcs
<1>8. CASE PingFails
  BY <1>8 DEF PingFails, vars, mainVars, inputVars, hostVars, gardenVars
<1>9. CASE StageCreate
  BY <1>9 DEF StageCreate, inputVars, hostVars, gardenVars, Results, StageErrors, MainPcs
<1>10. CASE StageRunWait
  <2>1. stage' \in Stages
    BY <1>10 DEF StageRunWait, NextStage, Stages, NumStages
  <2>2. result' \in Results /\ pc' \in MainPcs
    BY <1>10 DEF StageRunWait, NextStage, Results, StageErrors, MainPcs
  <2>3. containers' \subseteq Stages /\ destroyFailed' \subseteq Stages
    BY <1>10 DEF StageRunWait, Destroy
  <2>4. status' \in {"running", "exited", "returned"}
    BY <1>10 DEF StageRunWait, NextStage
  <2>5. QED
    BY <1>10, <2>1, <2>2, <2>3, <2>4 DEF StageRunWait, inputVars, hostVars
<1>11. CASE Teardown
  BY <1>11 DEF Teardown, TeardownSelect, TeardownStopLinuxKit, TeardownStopVpnKit,
               TeardownExit, StopProc, mainVars, inputVars, hostVars, gardenVars,
               ExitPcs, Procs, ProcStates
<1>12. CASE \E p \in Procs : Watch(p) \/ Crash(p)
  <2>1. PICK p \in Procs : Watch(p) \/ Crash(p)
    BY <1>12
  <2>2. CASE Watch(p)
    BY <2>2 DEF Watch, mainVars, inputVars, gardenVars
  <2>3. CASE Crash(p)
    BY <2>3 DEF Crash, mainVars, inputVars, gardenVars, Procs, ProcStates
  <2>4. QED  BY <2>1, <2>2, <2>3
<1>13. CASE Interrupt
  BY <1>13 DEF Interrupt, mainVars, inputVars, gardenVars
<1>14. CASE GardenBoots
  BY <1>14 DEF GardenBoots, mainVars, inputVars, gardenVars
<1>15. CASE Halted \/ UNCHANGED vars
  BY <1>15 DEF Halted, vars, mainVars, inputVars, hostVars, gardenVars
<1>16. QED
  BY <1>1, <1>2, <1>3, <1>4, <1>5, <1>6, <1>7, <1>8, <1>9, <1>10, <1>11,
     <1>12, <1>13, <1>14, <1>15 DEF Next, Main

LEMMA TypeInit == Init => TypeOK
<1> SUFFICES ASSUME Init PROVE TypeOK
  OBVIOUS
<1>1. procs \in [Procs -> ProcStates]
  BY DEF Init, Procs, ProcStates
<1>2. stage \in Stages
  BY DEF Init, Stages, NumStages
<1>3. gardenUp \in BOOLEAN
  BY DEF Init
<1>4. QED
  BY <1>1, <1>2, <1>3 DEF Init, TypeOK, Results, MainPcs, ExitPcs

(* TypeOK is an invariant of `cf dev start'.                                *)
THEOREM TypeCorrect == Spec => []TypeOK
  BY TypeInit, TypeStep, PTL DEF Spec

-----------------------------------------------------------------------------
(* The inductive strengthening of StagesSerial: the stages created so far  *)
(* are an initial segment of the stages, ending just before the current   *)
(* stage, or at it once its container was created; every container, and  *)
(* every failed Destroy, belongs to a created stage; only the current     *)
(* stage owns a container whose Destroy did not fail; and no Destroy has  *)
(* been called yet for the stage that runs.                               *)
StageInv ==
    /\ created = 1..(stage - 1) \/ created = 1..stage
    /\ containers \subseteq created
    /\ destroyFailed \subseteq created
    /\ containers \ destroyFailed \subseteq {stage}
    /\ pc \notin {"runWait", "done"} => created = 1..(stage - 1)
    /\ pc = "runWait" => created = 1..stage /\ stage \notin destroyFailed

IInv == TypeOK /\ StageInv

LEMMA StageInvInit == Init => StageInv
  BY DEF Init, StageInv

(* Whatever Destroy does, the successful path of a stage leaves no         *)
(* container that Destroy did not fail for.                               *)
LEMMA DestroyClears ==
    ASSUME containers \ destroyFailed \subseteq {stage}, Destroy
    PROVE  /\ containers' \ destroyFailed' = {}
           /\ containers' \subseteq containers
           /\ destroyFailed' \subseteq destroyFailed \cup {stage}
           /\ stage \notin containers' \/ stage \in destroyFailed'
  BY DEF Destroy

(* Every step keeps StageInv, whether or not Destroy can fail.             *)
LEMMA StageInvStep == IInv /\ [Next]_vars => StageInv'
<1> SUFFICES ASSUME TypeOK, StageInv, [Next]_vars PROVE StageInv'
  BY DEF IInv
<1> USE DEF TypeOK, Stages, NumStages
\* The steps that change neither the stages nor the Garden containers and
\* move pc only among the steps before the first stage, or to "done".
<1>1. ASSUME UNCHANGED <<stage, containers, created, destroyFailed>>,
             pc' \in {pc, "done"} \/ pc' \notin {"runWait", "done"},
             pc \notin {"runWait", "done"} \/ pc' \in {pc, "done"}
      PROVE  StageInv'
  BY <1>1 DEF StageInv
<1>2. CASE CheckArgIso
  BY <1>2, <1>1 DEF CheckArgIso, gardenVars, Return
<1>3. CASE ReadIso
  BY <1>3, <1>1 DEF ReadIso, gardenVars, Return
<1>4. CASE CheckRunning
  BY <1>4, <1>1 DEF CheckRunning, gardenVars, Return
<1>5. CASE Prepare
  BY <1>5, <1>1 DEF Prepare, gardenVars, Return
<1>6. CASE StartVpnKit
  BY <1>6, <1>1 DEF StartVpnKit, gardenVars, Return
<1>7. CASE StartLinuxKit
  BY <1>7, <1>1 DEF StartLinuxKit, gardenVars, Return
<1>8. CASE GardenReady
  BY <1>8, <1>1 DEF GardenReady, gardenVars, Return
<1>9. CASE PingFails
  BY <1>9, <1>1 DEF PingFails, vars, mainVars, gardenVars
<1>10. CASE StageCreate
  <2>1. CASE Return("createFailed") /\ UNCHANGED gardenVars
    BY <1>10, <2>1, <1>1 DEF StageCreate, Return, gardenVars
  <2>2. CASE containers' = containers \cup {stage} /\ created' = created \cup {stage}
             /\ pc' = "runWait" /\ UNCHANGED destroyFailed
    <3>1. created = 1..(stage - 1) /\ stage \in 1..NumStages /\ UNCHANGED stage
      BY <1>10 DEF StageCreate, StageInv
    <3>2. created' = 1..stage
      BY <2>2, <3>1
    <3>3. stage \notin destroyFailed
      BY <3>1 DEF StageInv
    <3>4. /\ containers' \subseteq created'
          /\ destroyFailed' \subseteq created'
          /\ containers' \ destroyFailed' \subseteq {stage'}
      BY <2>2, <3>1, <3>2 DEF StageInv
    <3>5. QED
      BY <2>2, <3>1, <3>2, <3>3, <3>4 DEF StageInv
  <2>3. QED
    BY <1>10, <2>1, <2>2 DEF StageCreate
<1>11. CASE StageRunWait
  <2>1. created = 1..stage /\ created' = created /\ stage \in 1..NumStages
    BY <1>11 DEF StageRunWait, StageInv
  <2>2. CASE pc' = "done" /\ UNCHANGED <<stage, containers, destroyFailed>>
    BY <2>1, <2>2 DEF StageInv
  <2>3. CASE Destroy /\ NextStage
    <3>1. /\ containers' \ destroyFailed' = {}
          /\ containers' \subseteq created
          /\ destroyFailed' \subseteq created
      <4>1. /\ containers' \ destroyFailed' = {}
            /\ containers' \subseteq containers
            /\ destroyFailed' \subseteq destroyFailed \cup {stage}
        BY <2>3, DestroyClears DEF StageInv
      <4>2. stage \in created /\ containers \subseteq created
            /\ destroyFailed \subseteq created
        BY <2>1 DEF StageInv
      <4>3. QED
        BY <4>1, <4>2
    <3>2. CASE stage < NumStages /\ stage' = stage + 1 /\ pc' = "create"
      BY <2>1, <3>1, <3>2 DEF StageInv
    <3>3. CASE stage = NumStages /\ Return("ok") /\ UNCHANGED stage
      BY <2>1, <3>1, <3>3 DEF StageInv, Return
    <3>4. QED
      BY <2>3, <3>2, <3>3 DEF NextStage
  <2>4. QED
    BY <1>11, <2>2, <2>3 DEF StageRunWait, Return
<1>12. CASE Teardown
  BY <1>12, <1>1 DEF Teardown, TeardownSelect, TeardownStopLinuxKit,
                     TeardownStopVpnKit, TeardownExit, mainVars, gardenVars
<1>13. CASE \E p \in Procs : Watch(p) \/ Crash(p)
  BY <1>13, <1>1 DEF Watch, Crash, mainVars, gardenVars
<1>14. CASE Interrupt \/ GardenBoots
  BY <1>14, <1>1 DEF Interrupt, GardenBoots, mainVars, gardenVars
<1>15. CASE Halted \/ UNCHANGED vars
  BY <1>15, <1>1 DEF Halted, vars, mainVars, gardenVars
<1>16. QED
  BY <1>2, <1>3, <1>4, <1>5, <1>6, <1>7, <1>8, <1>9, <1>10, <1>11, <1>12,
     <1>13, <1>14, <1>15 DEF Next, Main

LEMMA StageInvImpliesSerial == TypeOK /\ StageInv => StagesSerial
  BY DEF TypeOK, Stages, NumStages, StageInv, StagesSerial

(* The deploy stages of `cf dev start' run strictly one after the other,   *)
(* for every number of services and whether or not Destroy can fail: a     *)
(* stage's container is created only after every earlier stage, and an     *)
(* earlier stage's container that still exists is one whose Destroy       *)
(* failed, never one left without a Destroy.                              *)
THEOREM StagesSerialHolds == Spec => []StagesSerial
<1>1. Init => IInv
  BY TypeInit, StageInvInit DEF IInv
<1>2. IInv /\ [Next]_vars => IInv'
  BY TypeStep, StageInvStep DEF IInv
<1>3. IInv => StagesSerial
  BY StageInvImpliesSerial DEF IInv
<1>4. QED
  BY <1>1, <1>2, <1>3, PTL DEF Spec

-----------------------------------------------------------------------------
(* The refinement of DeployPipeline. Beyond IInv it needs that Execute has *)
(* no result while it runs, and that the running stage owns its container. *)
PInv ==
    /\ pc # "done" => result = "none"
    /\ pc = "runWait" => stage \in containers

RInv == IInv /\ PInv

LEMMA PInvInit == Init => PInv
  BY DEF Init, PInv

LEMMA PInvStep == RInv /\ [Next]_vars => PInv'
<1> SUFFICES ASSUME TypeOK, StageInv, PInv, [Next]_vars PROVE PInv'
  BY DEF RInv, IInv
\* The steps that keep the containers and the stage, and either return or
\* keep the result while moving pc elsewhere than "runWait".
<1>1. ASSUME UNCHANGED <<stage, containers>>,
             pc' = "done" \/ (pc' # "runWait" /\ result' = result /\ pc # "done")
      PROVE  PInv'
  BY <1>1 DEF PInv
<1>2. CASE CheckArgIso
  BY <1>2, <1>1 DEF CheckArgIso, gardenVars, Return
<1>3. CASE ReadIso
  BY <1>3, <1>1 DEF ReadIso, gardenVars, Return
<1>4. CASE CheckRunning
  BY <1>4, <1>1 DEF CheckRunning, gardenVars, Return
<1>5. CASE Prepare
  BY <1>5, <1>1 DEF Prepare, gardenVars, Return
<1>6. CASE StartVpnKit
  BY <1>6, <1>1 DEF StartVpnKit, gardenVars, Return
<1>7. CASE StartLinuxKit
  BY <1>7, <1>1 DEF StartLinuxKit, gardenVars, Return
<1>8. CASE GardenReady
  BY <1>8, <1>1 DEF GardenReady, gardenVars, Return
<1>9. CASE PingFails
  BY <1>9 DEF PingFails, vars, mainVars, gardenVars, PInv
<1>10. CASE StageCreate
  <2>1. CASE Return("createFailed") /\ UNCHANGED gardenVars
    BY <1>10, <2>1 DEF StageCreate, Return, gardenVars, PInv
  <2>2. CASE containers' = containers \cup {stage} /\ pc' = "runWait"
             /\ UNCHANGED result
    BY <1>10, <2>2 DEF StageCreate, PInv
  <2>3. QED
    BY <1>10, <2>1, <2>2 DEF StageCreate
<1>11. CASE StageRunWait
  <2>1. CASE pc' = "done"
    BY <2>1 DEF PInv
  <2>2. CASE stage < NumStages /\ stage' = stage + 1 /\ pc' = "create"
             /\ UNCHANGED result
    BY <1>11, <2>2 DEF StageRunWait, PInv
  <2>3. QED
    BY <1>11, <2>1, <2>2 DEF StageRunWait, NextStage, Return
<1>12. CASE Teardown
  BY <1>12 DEF Teardown, TeardownSelect, TeardownStopLinuxKit,
               TeardownStopVpnKit, TeardownExit, mainVars, gardenVars, PInv
<1>13. CASE \E p \in Procs : Watch(p) \/ Crash(p)
  BY <1>13 DEF Watch, Crash, mainVars, gardenVars, PInv
<1>14. CASE Interrupt \/ GardenBoots
  BY <1>14 DEF Interrupt, GardenBoots, mainVars, gardenVars, PInv
<1>15. CASE Halted \/ UNCHANGED vars
  BY <1>15 DEF Halted, vars, mainVars, gardenVars, PInv
<1>16. QED
  BY <1>2, <1>3, <1>4, <1>5, <1>6, <1>7, <1>8, <1>9, <1>10, <1>11, <1>12,
     <1>13, <1>14, <1>15 DEF Next, Main

\* A step that keeps the stage, the Garden state and the pipeline's outcome
\* is a stuttering step of DeployPipeline.
LEMMA PipelineStutter ==
    ASSUME UNCHANGED <<stage, containers, created, destroyFailed>>,
           PipelineOutcome' = PipelineOutcome
    PROVE  UNCHANGED Pipeline!pvars
  BY DEF Pipeline!pvars, PipelineDone, PipelineLive, Destroyed

(* Every step of `cf dev start' is a step of DeployPipeline or leaves the  *)
(* mapped state alone.                                                     *)
LEMMA PipelineStep == RInv /\ [Next]_vars => [Pipeline!Next]_Pipeline!pvars
<1> SUFFICES ASSUME TypeOK, StageInv, PInv, [Next]_vars
             PROVE  [Pipeline!Next]_Pipeline!pvars
  BY DEF RInv, IInv
<1>0. stage \in 1..NumStages /\ NumStages \in Nat
  BY DEF TypeOK, Stages, NumStages
\* Steps before the stages, or that return with a non-stage error, keep
\* the outcome "pending" and the mapped state.
<1>1. ASSUME UNCHANGED <<stage, containers, created, destroyFailed>>,
             result' = result \/ (result = "none" /\ result' \notin StageErrors \cup {"ok"})
      PROVE  UNCHANGED Pipeline!pvars
  <2>1. PipelineOutcome' = PipelineOutcome
    BY <1>1 DEF PipelineOutcome, StageErrors
  <2>2. QED
    BY <1>1, <2>1, PipelineStutter
<1>2. CASE CheckArgIso
  BY <1>2, <1>1 DEF CheckArgIso, gardenVars, Return, PInv, StageErrors
<1>3. CASE ReadIso
  BY <1>3, <1>1 DEF ReadIso, gardenVars, Return, PInv, StageErrors
<1>4. CASE CheckRunning
  BY <1>4, <1>1 DEF CheckRunning, gardenVars, Return, PInv, StageErrors
<1>5. CASE Prepare
  BY <1>5, <1>1 DEF Prepare, gardenVars, Return, PInv, StageErrors
<1>6. CASE StartVpnKit
  BY <1>6, <1>1 DEF StartVpnKit, gardenVars, Return, PInv, StageErrors
<1>7. CASE StartLinuxKit
  BY <1>7, <1>1 DEF StartLinuxKit, gardenVars, Return, PInv, StageErrors
<1>8. CASE GardenReady
  BY <1>8, <1>1 DEF GardenReady, gardenVars, Return, PInv, StageErrors
<1>9. CASE PingFails
  BY <1>9, <1>1 DEF PingFails, vars, mainVars, gardenVars
<1>10. CASE StageCreate
  <2>1. /\ stage \notin created /\ stage \notin destroyFailed
        /\ containers \ destroyFailed = {} /\ result = "none"
    BY <1>10, <1>0 DEF StageCreate, StageInv, PInv
  <2>2. PipelineOutcome = "pending"
    BY <2>1 DEF PipelineOutcome, StageErrors
  <2>3. CASE Return("createFailed") /\ UNCHANGED gardenVars
    <3>1. PipelineOutcome' = "failed" /\ UNCHANGED stage
      BY <1>10, <2>3 DEF StageCreate, Return, PipelineOutcome, StageErrors
    <3>2. Pipeline!FailStage
      BY <2>2, <2>3, <3>1 DEF Pipeline!FailStage, PipelineDone, PipelineLive,
         Destroyed, gardenVars
    <3>3. QED
      BY <3>2 DEF Pipeline!Next
  <2>4. CASE containers' = containers \cup {stage} /\ created' = created \cup {stage}
             /\ UNCHANGED <<result, destroyFailed>>
    <3>1. UNCHANGED stage
      BY <1>10 DEF StageCreate
    <3>2. PipelineDone = stage - 1 /\ PipelineDone' = stage - 1
      BY <2>1, <2>4, <3>1 DEF PipelineDone, Destroyed
    <3>3. ~PipelineLive /\ PipelineLive'
      BY <2>1, <2>4, <3>1 DEF PipelineLive
    <3>4. PipelineOutcome' = "pending"
      BY <2>1, <2>4 DEF PipelineOutcome, StageErrors
    <3>5. Pipeline!StartStage
      BY <1>0, <2>2, <3>2, <3>3, <3>4 DEF Pipeline!StartStage
    <3>6. QED
      BY <3>5 DEF Pipeline!Next
  <2>5. QED
    BY <1>10, <2>3, <2>4 DEF StageCreate
<1>11. CASE StageRunWait
  <2>1. /\ stage \in containers /\ stage \notin destroyFailed
        /\ containers \ destroyFailed \subseteq {stage}
        /\ created = 1..stage /\ UNCHANGED created /\ result = "none"
    BY <1>11 DEF StageRunWait, StageInv, PInv
  <2>2. PipelineDone = stage - 1 /\ PipelineLive /\ PipelineOutcome = "pending"
    BY <2>1 DEF PipelineDone, PipelineLive, PipelineOutcome, Destroyed, StageErrors
  <2>3. CASE result' \in StageErrors /\ UNCHANGED <<stage, containers, destroyFailed>>
    <3>1. PipelineOutcome' = "failed"
      BY <2>3 DEF PipelineOutcome, StageErrors
    <3>2. Pipeline!FailStage
      BY <2>1, <2>2, <2>3, <3>1 DEF Pipeline!FailStage, PipelineDone, PipelineLive,
         Destroyed
    <3>3. QED
      BY <3>2 DEF Pipeline!Next
  <2>4. CASE Destroy /\ stage < NumStages /\ stage' = stage + 1 /\ result' = result
    <3>1. containers' \ destroyFailed' = {}
      BY <2>1, <2>4, DestroyClears
    <3>2. PipelineDone' = stage /\ ~PipelineLive' /\ PipelineOutcome' = "pending"
      BY <1>0, <2>1, <2>4, <3>1 DEF PipelineDone, PipelineLive, PipelineOutcome,
         StageErrors
    <3>3. Pipeline!FinishStage
      BY <1>0, <2>2, <2>4, <3>2 DEF Pipeline!FinishStage
    <3>4. QED
      BY <3>3 DEF Pipeline!Next
  <2>5. CASE Destroy /\ stage = NumStages /\ stage' = stage /\ result' = "ok"
    <3>1. containers' \ destroyFailed' = {} /\ Destroyed(stage)'
      BY <2>1, <2>5, DestroyClears DEF Destroyed
    <3>2. PipelineDone' = NumStages /\ ~PipelineLive' /\ PipelineOutcome' = "ok"
      BY <1>0, <2>1, <2>5, <3>1 DEF PipelineDone, PipelineLive, PipelineOutcome
    <3>3. Pipeline!FinishStage
      BY <1>0, <2>2, <2>5, <3>2 DEF Pipeline!FinishStage
    <3>4. QED
      BY <3>3 DEF Pipeline!Next
  <2>6. QED
    BY <1>11, <2>3, <2>4, <2>5 DEF StageRunWait, NextStage, Return, StageErrors
<1>12. CASE Teardown
  BY <1>12, <1>1 DEF Teardown, TeardownSelect, TeardownStopLinuxKit,
                     TeardownStopVpnKit, TeardownExit, mainVars, gardenVars
<1>13. CASE \E p \in Procs : Watch(p) \/ Crash(p)
  BY <1>13, <1>1 DEF Watch, Crash, mainVars, gardenVars
<1>14. CASE Interrupt \/ GardenBoots
  BY <1>14, <1>1 DEF Interrupt, GardenBoots, mainVars, gardenVars
<1>15. CASE Halted \/ UNCHANGED vars
  BY <1>15, <1>1 DEF Halted, vars, mainVars, gardenVars
<1>16. QED
  BY <1>2, <1>3, <1>4, <1>5, <1>6, <1>7, <1>8, <1>9, <1>10, <1>11, <1>12,
     <1>13, <1>14, <1>15 DEF Next, Main

LEMMA PipelineInit == Init => Pipeline!Init
  BY DEF Init, Pipeline!Init, PipelineDone, PipelineLive, Destroyed,
         PipelineOutcome, StageErrors

(* `cf dev start' implements the abstract deploy pipeline of DeployPipeline *)
(* under the mapping PipelineDone, PipelineLive, PipelineOutcome, for every *)
(* number of services and whether or not Destroy can fail: stages start   *)
(* one at a time, each ends in success (Destroy called for its container) *)
(* or failure, and nothing follows the end.                               *)
THEOREM Implementation == Spec => ImplementsPipeline
<1>1. Init => RInv
  BY TypeInit, StageInvInit, PInvInit DEF RInv, IInv
<1>2. RInv /\ [Next]_vars => RInv'
  BY TypeStep, StageInvStep, PInvStep DEF RInv, IInv
<1>3. RInv /\ [Next]_vars => [Pipeline!Next]_Pipeline!pvars
  BY PipelineStep
<1>4. Init => Pipeline!Init
  BY PipelineInit
<1>5. QED
  BY <1>1, <1>2, <1>3, <1>4, PTL DEF Spec, ImplementsPipeline, Pipeline!Spec

-----------------------------------------------------------------------------
(* What the steps before the helpers and the stages leave alone. Execute   *)
(* has no result while it runs; no helper is watched before VpnKit starts; *)
(* no stage is created before Garden is ready. With these the short cut is *)
(* inductive, whatever Destroy does.                                        *)
PreVpnKit == {"argIso", "readIso", "isRunning", "prep", "startVpnKit"}
PreStages == PreVpnKit \cup {"startLinuxKit", "waitGarden"}

EarlyInv ==
    /\ pc # "done" => result = "none"
    /\ pc \in PreVpnKit => watched = {}
    /\ pc \in PreStages => created = {}
    /\ AlreadyRunningIsNoop

(* After a failure the Garden state no longer changes: with RInv this     *)
(* makes FailedStageKept inductive.                                        *)
KInv == RInv /\ FailedStageKept


LEMMA EarlyInvInit == Init => EarlyInv
  BY DEF Init, EarlyInv, AlreadyRunningIsNoop

LEMMA EarlyInvStep == EarlyInv /\ [Next]_vars => EarlyInv'
<1> SUFFICES ASSUME EarlyInv, [Next]_vars PROVE EarlyInv'
  OBVIOUS
\* Steps of the other goroutines, of the environment, and stutters.
<1>1. ASSUME UNCHANGED <<pc, result, created, watched>> PROVE EarlyInv'
  BY <1>1 DEF EarlyInv, AlreadyRunningIsNoop
\* Returns with a result other than "already running".
<1>2. ASSUME UNCHANGED <<created, watched>>, pc' = "done",
             result' # "alreadyRunning"
      PROVE  EarlyInv'
  BY <1>2 DEF EarlyInv, AlreadyRunningIsNoop, PreVpnKit, PreStages
\* Moves of the main goroutine that enter no set it was not already in.
<1>3. ASSUME UNCHANGED <<result, created, watched>>, pc # "done", pc' # "done",
             pc \in PreVpnKit \/ pc' \notin PreVpnKit,
             pc \in PreStages \/ pc' \notin PreStages
      PROVE  EarlyInv'
  BY <1>3 DEF EarlyInv, AlreadyRunningIsNoop
<1>4. CASE CheckArgIso
  BY <1>4, <1>2, <1>3 DEF CheckArgIso, Return, gardenVars, hostVars, PreVpnKit, PreStages
<1>5. CASE ReadIso
  BY <1>5, <1>2, <1>3 DEF ReadIso, Return, gardenVars, hostVars, PreVpnKit, PreStages
<1>6. CASE CheckRunning
  <2>1. pc = "isRunning" /\ UNCHANGED <<created, watched>>
    BY <1>6 DEF CheckRunning, gardenVars, hostVars
  <2>2. watched = {} /\ created = {}
    BY <2>1 DEF EarlyInv, PreVpnKit, PreStages
  <2>3. CASE procs["linuxkit"] = "running" /\ Return("alreadyRunning")
    BY <2>1, <2>2, <2>3 DEF Return, EarlyInv, AlreadyRunningIsNoop
  <2>4. QED
    BY <1>6, <2>1, <2>3, <1>2, <1>3 DEF CheckRunning, Return, PreVpnKit, PreStages
<1>7. CASE Prepare
  BY <1>7, <1>2, <1>3 DEF Prepare, Return, gardenVars, hostVars, PreVpnKit, PreStages
<1>8. CASE StartVpnKit
  <2>1. CASE pc' = "startLinuxKit" /\ UNCHANGED <<result, created>>
    BY <1>8, <2>1 DEF StartVpnKit, EarlyInv, AlreadyRunningIsNoop, PreVpnKit, PreStages
  <2>2. QED
    BY <1>8, <2>1, <1>2 DEF StartVpnKit, Return, gardenVars
<1>9. CASE StartLinuxKit
  <2>1. CASE pc' = "waitGarden" /\ UNCHANGED <<result, created>>
    BY <1>9, <2>1 DEF StartLinuxKit, EarlyInv, AlreadyRunningIsNoop, PreVpnKit, PreStages
  <2>2. QED
    BY <1>9, <2>1, <1>2 DEF StartLinuxKit, Return, gardenVars
<1>10. CASE GardenReady
  BY <1>10, <1>2, <1>3 DEF GardenReady, Return, gardenVars, hostVars, PreVpnKit, PreStages
<1>11. CASE PingFails
  BY <1>11, <1>1 DEF PingFails, vars, mainVars, hostVars, gardenVars
<1>12. CASE StageCreate
  <2>1. CASE pc' = "runWait" /\ UNCHANGED <<result, watched>>
    BY <1>12, <2>1 DEF StageCreate, EarlyInv, AlreadyRunningIsNoop, PreVpnKit,
                        PreStages, hostVars
  <2>2. QED
    BY <1>12, <2>1, <1>2 DEF StageCreate, Return, gardenVars, hostVars
<1>13. CASE StageRunWait
  BY <1>13, <1>2, <1>3 DEF StageRunWait, NextStage, Return, hostVars,
                           PreVpnKit, PreStages
<1>14. CASE Teardown
  <2>1. UNCHANGED <<pc, result, created, watched>>
    BY <1>14 DEF Teardown, TeardownSelect, TeardownStopLinuxKit,
                 TeardownStopVpnKit, TeardownExit, mainVars, hostVars, gardenVars
  <2>2. QED
    BY <2>1, <1>1
<1>15. CASE \E p \in Procs : Watch(p) \/ Crash(p)
  <2>1. PICK p \in Procs : Watch(p) \/ Crash(p)
    BY <1>15
  <2>2. UNCHANGED <<pc, result, created, watched>>
    BY <2>1 DEF Watch, Crash, mainVars, gardenVars
  <2>3. QED
    BY <2>2, <1>1
<1>16. CASE Interrupt \/ GardenBoots
  BY <1>16, <1>1 DEF Interrupt, GardenBoots, mainVars, gardenVars
<1>17. CASE Halted \/ UNCHANGED vars
  BY <1>17, <1>1 DEF Halted, vars, mainVars, hostVars, gardenVars
<1>18. QED
  BY <1>4, <1>5, <1>6, <1>7, <1>8, <1>9, <1>10, <1>11, <1>12, <1>13, <1>14,
     <1>15, <1>16, <1>17 DEF Next, Main

(* The "already running" short cut of `cf dev start' starts no helper and  *)
(* creates no deploy container, for every number of services and whether  *)
(* or not Destroy can fail.                                                *)
THEOREM AlreadyRunningIsNoopHolds == Spec => []AlreadyRunningIsNoop
<1>1. EarlyInv => AlreadyRunningIsNoop
  BY DEF EarlyInv
<1>2. QED
  BY EarlyInvInit, EarlyInvStep, <1>1, PTL DEF Spec


LEMMA KeptStep == RInv /\ FailedStageKept /\ [Next]_vars => FailedStageKept'
<1> SUFFICES ASSUME TypeOK, StageInv, PInv, FailedStageKept, [Next]_vars
             PROVE  FailedStageKept'
  BY DEF RInv, IInv
\* Steps that keep the stage and the Garden state, and the result or leave
\* it outside the stage errors.
<1>1. ASSUME UNCHANGED <<stage, containers, destroyFailed>>,
             result' = result \/ result' \notin StageErrors
      PROVE  FailedStageKept'
  BY <1>1 DEF FailedStageKept, StageErrors
<1>2. CASE CheckArgIso
  BY <1>2, <1>1 DEF CheckArgIso, gardenVars, Return, StageErrors
<1>3. CASE ReadIso
  BY <1>3, <1>1 DEF ReadIso, gardenVars, Return, StageErrors
<1>4. CASE CheckRunning
  BY <1>4, <1>1 DEF CheckRunning, gardenVars, Return, StageErrors
<1>5. CASE Prepare
  BY <1>5, <1>1 DEF Prepare, gardenVars, Return, StageErrors
<1>6. CASE StartVpnKit
  BY <1>6, <1>1 DEF StartVpnKit, gardenVars, Return, StageErrors
<1>7. CASE StartLinuxKit
  BY <1>7, <1>1 DEF StartLinuxKit, gardenVars, Return, StageErrors
<1>8. CASE GardenReady
  BY <1>8, <1>1 DEF GardenReady, gardenVars, Return, StageErrors
<1>9. CASE PingFails
  BY <1>9, <1>1 DEF PingFails, vars, mainVars, gardenVars
<1>10. CASE StageCreate
  <2>1. pc = "create" /\ result = "none" /\ UNCHANGED stage
    BY <1>10 DEF StageCreate, PInv
  <2>2. containers \subseteq destroyFailed
    BY <2>1 DEF StageInv, TypeOK, Stages, NumStages
  <2>3. CASE Return("createFailed") /\ UNCHANGED gardenVars
    BY <2>2, <2>3 DEF Return, gardenVars, FailedStageKept
  <2>4. CASE UNCHANGED result
    BY <2>1, <2>4 DEF FailedStageKept, StageErrors
  <2>5. QED
    BY <1>10, <2>3, <2>4 DEF StageCreate
<1>11. CASE StageRunWait
  <2>1. stage \in containers /\ containers \ {stage} \subseteq destroyFailed
    BY <1>11 DEF StageRunWait, PInv, StageInv
  <2>2. CASE result' \in StageErrors \ {"createFailed"}
             /\ UNCHANGED <<stage, containers, destroyFailed>>
    BY <2>1, <2>2 DEF FailedStageKept
  <2>3. CASE result' \in {"none", "ok"}
    BY <2>3 DEF FailedStageKept, StageErrors
  <2>4. result = "none"
    BY <1>11 DEF StageRunWait, PInv
  <2>5. QED
    BY <1>11, <2>2, <2>3, <2>4 DEF StageRunWait, NextStage, Return, StageErrors
<1>12. CASE Teardown
  BY <1>12, <1>1 DEF Teardown, TeardownSelect, TeardownStopLinuxKit,
                     TeardownStopVpnKit, TeardownExit, mainVars, gardenVars
<1>13. CASE \E p \in Procs : Watch(p) \/ Crash(p)
  BY <1>13, <1>1 DEF Watch, Crash, mainVars, gardenVars
<1>14. CASE Interrupt \/ GardenBoots
  BY <1>14, <1>1 DEF Interrupt, GardenBoots, mainVars, gardenVars
<1>15. CASE Halted \/ UNCHANGED vars
  BY <1>15, <1>1 DEF Halted, vars, mainVars, gardenVars
<1>16. QED
  BY <1>2, <1>3, <1>4, <1>5, <1>6, <1>7, <1>8, <1>9, <1>10, <1>11, <1>12,
     <1>13, <1>14, <1>15 DEF Next, Main

(* A deploy stage of `cf dev start' that fails after its Create leaves its *)
(* own container for diagnosis, and a failed Create leaves none; any other *)
(* container left is one whose Destroy failed (its error is dropped at    *)
(* cloudfoundry.go:73). This holds for every number of services and       *)
(* whether or not Destroy can fail.                                       *)
THEOREM FailedStageKeptHolds == Spec => []FailedStageKept
<1>1. Init => KInv
  <2>1. Init => FailedStageKept
    BY DEF Init, FailedStageKept, StageErrors
  <2>2. QED
    BY <2>1, TypeInit, StageInvInit, PInvInit DEF KInv, RInv, IInv
<1>2. KInv /\ [Next]_vars => KInv'
  BY TypeStep, StageInvStep, PInvStep, KeptStep DEF KInv, RInv, IInv
<1>3. KInv => FailedStageKept
  BY DEF KInv
<1>4. QED
  BY <1>1, <1>2, <1>3, PTL DEF Spec

=============================================================================
