------------------------------ MODULE StartCmd ------------------------------
(***************************************************************************)
(* `cf dev start` on darwin: Start.Execute of src/cmd/start/start_darwin.go *)
(* together with the goroutines it runs beside it.                         *)
(*                                                                         *)
(*  - the main goroutine walks Execute: the compatibility reads of the     *)
(*    deps iso, the "already running" short cut, the preparation steps,    *)
(*    VpnKit then LinuxKit (each registered with a watcher), the wait for  *)
(*    Garden, and the deploy stages (BOSH, CF, one per service), each a    *)
(*    create / run / wait / destroy of a Garden container;                 *)
(*  - the teardown goroutine started on the first line of Execute: it      *)
(*    blocks on Exit or LocalExit, stops LinuxKit, stops VpnKit and calls  *)
(*    os.Exit(128);                                                        *)
(*  - one watcher per started helper, which reports on LocalExit when the  *)
(*    helper has exited;                                                   *)
(*  - the environment: helper crashes, the user's interrupt, Garden coming *)
(*    up inside the VM.                                                    *)
(***************************************************************************)
EXTENDS Naturals

CONSTANTS
    NumServices,     \* length of the `services' list of the iso metadata
    DestroyMayFail   \* whether Garden's Destroy can fail (its error is ignored)

ASSUME StartAssumption ==
    /\ NumServices \in Nat
    /\ DestroyMayFail \in BOOLEAN

\* The supervised helpers: the network helper and the VM.
Procs == {"vpnkit", "linuxkit"}

\* Stage 1 deploys the BOSH director, stage 2 CF, stages 3.. the services.
NumStages == 2 + NumServices
Stages == 1..NumStages

\* Outcomes of Execute's Garden stages that are returned as errors.
StageErrors == {"createFailed", "runFailed", "waitFailed", "exitNonZero"}

Results == {"none", "ok", "alreadyRunning", "noProvision", "isoError",
            "incompatible", "isRunningError", "prepError", "vpnkitError",
            "linuxkitError"} \cup StageErrors

MainPcs == {"argIso", "readIso", "isRunning", "prep", "startVpnKit",
            "startLinuxKit", "waitGarden", "create", "runWait", "done"}

ExitPcs == {"select", "stopLinuxKit", "stopVpnKit", "exit"}

ProcStates == {"none", "running", "exited"}

VARIABLES
    pc,            \* main goroutine: where Execute is
    stage,         \* the deploy stage Execute is at
    result,        \* what Execute returned ("none" while it runs)
    exitPc,        \* teardown goroutine: where it is
    status,        \* the cf dev process: "running", "exited" (os.Exit(128)), "returned"
    procs,         \* state of each helper process on the host
    watched,       \* helpers handed to Watch(s.LocalExit)
    localExit,     \* labels sent on the LocalExit channel
    exitSignal,    \* the Exit channel has fired (user interrupt)
    gardenUp,      \* Garden answers Ping inside the VM
    containers,    \* deploy containers that exist in Garden
    created,       \* deploy stages whose container was ever created
    destroyFailed, \* history: stages whose Destroy failed (the error is dropped)
    isoGiven,      \* input: the -f flag was passed
    isoCompatible, \* input: the deps iso's compatibility_version is "v1"
    noProvision    \* input: the -n flag was passed

mainVars == <<pc, stage, result>>
hostVars == <<procs, watched, localExit, exitSignal, gardenUp>>
gardenVars == <<containers, created, destroyFailed>>
inputVars == <<isoGiven, isoCompatible, noProvision>>
vars == <<mainVars, exitPc, status, hostVars, gardenVars, inputVars>>

TypeOK ==
    /\ pc \in MainPcs
    /\ stage \in Stages
    /\ result \in Results
    /\ exitPc \in ExitPcs
    /\ status \in {"running", "exited", "returned"}
    /\ procs \in [Procs -> ProcStates]
    /\ watched \subseteq Procs
    /\ localExit \subseteq Procs
    /\ exitSignal \in BOOLEAN
    /\ gardenUp \in BOOLEAN
    /\ containers \subseteq Stages
    /\ created \subseteq Stages
    /\ destroyFailed \subseteq Stages
    /\ isoGiven \in BOOLEAN
    /\ isoCompatible \in BOOLEAN
    /\ noProvision \in BOOLEAN

-----------------------------------------------------------------------------
(* The host either has no cf dev helpers or still runs those of an earlier *)
(* `cf dev start`; in the latter case Garden answers in that VM.           *)
Init ==
    /\ pc = "argIso"
    /\ stage = 1
    /\ result = "none"
    /\ exitPc = "select"
    /\ status = "running"
    /\ procs \in {[p \in Procs |-> "none"], [p \in Procs |-> "running"]}
    /\ watched = {}
    /\ localExit = {}
    /\ exitSignal = FALSE
    /\ gardenUp = (procs["linuxkit"] = "running")
    /\ containers = {}
    /\ created = {}
    /\ destroyFailed = {}
    /\ isoGiven \in BOOLEAN
    /\ isoCompatible \in BOOLEAN
    /\ noProvision \in BOOLEAN

Running == status = "running"

\* The VM is up, so Garden calls can get through.
VMUp == procs["linuxkit"] = "running" /\ gardenUp

\* Execute returns r; the cf dev process ends with it.
Return(r) ==
    /\ result' = r
    /\ pc' = "done"
    /\ status' = "returned"

-----------------------------------------------------------------------------
(* Main goroutine.                                                          *)

\* readIsoAndVerifyVersion on the path given with -f, after the os.Stat check.
CheckArgIso ==
    /\ Running /\ pc = "argIso"
    /\ \/ ~isoGiven /\ pc' = "readIso" /\ UNCHANGED <<result, status>>
       \/ isoGiven /\ isoCompatible /\ pc' = "readIso" /\ UNCHANGED <<result, status>>
       \/ isoGiven /\ Return("isoError")
       \/ isoGiven /\ ~isoCompatible /\ Return("incompatible")
    /\ UNCHANGED <<stage, exitPc, hostVars, gardenVars, inputVars>>

\* The second, unconditional readIsoAndVerifyVersion on depsIsoPath.
ReadIso ==
    /\ Running /\ pc = "readIso"
    /\ \/ isoCompatible /\ pc' = "isRunning" /\ UNCHANGED <<result, status>>
       \/ Return("isoError")
       \/ ~isoCompatible /\ Return("incompatible")
    /\ UNCHANGED <<stage, exitPc, hostVars, gardenVars, inputVars>>

\* Mutant: the "already running" branch forgets its `return nil'.
CheckRunningNoReturn ==
    /\ Running /\ pc = "isRunning"
    /\ \/ Return("isRunningError")
       \/ procs["linuxkit"] = "running" /\ result' = "alreadyRunning" /\ pc' = "prep"
          /\ UNCHANGED status
       \/ procs["linuxkit"] # "running" /\ pc' = "prep" /\ UNCHANGED <<result, status>>
    /\ UNCHANGED <<stage, exitPc, hostVars, gardenVars, inputVars>>

\* s.LinuxKit.IsRunning(): an error, "already running", or go on.
CheckRunning ==
    /\ Running /\ pc = "isRunning"
    /\ \/ Return("isRunningError")
       \/ procs["linuxkit"] = "running" /\ Return("alreadyRunning")
       \/ procs["linuxkit"] # "running" /\ pc' = "prep" /\ UNCHANGED <<result, status>>
    /\ UNCHANGED <<stage, exitPc, hostVars, gardenVars, inputVars>>

\* env.Setup, cleanupStateDir, AddLoopbackAliases, parseDockerRegistriesFlag,
\* Cache.Sync and CFDevD.Install: each returns on error, none touches the
\* helpers or Garden.
Prepare ==
    /\ Running /\ pc = "prep"
    /\ \/ pc' = "startVpnKit" /\ UNCHANGED <<result, status>>
       \/ Return("prepError")
    /\ UNCHANGED <<stage, exitPc, hostVars, gardenVars, inputVars>>

\* s.VpnKit.Start() then s.VpnKit.Watch(s.LocalExit).
StartVpnKit ==
    /\ Running /\ pc = "startVpnKit"
    /\ \/ /\ procs' = [procs EXCEPT !["vpnkit"] = "running"]
          /\ watched' = watched \cup {"vpnkit"}
          /\ pc' = "startLinuxKit"
          /\ UNCHANGED <<result, status>>
       \/ Return("vpnkitError") /\ UNCHANGED <<procs, watched>>
    /\ UNCHANGED <<stage, exitPc, localExit, exitSignal, gardenUp, gardenVars, inputVars>>

\* s.LinuxKit.Start(...) (daemonSpec, AddDaemon, Start) then
\* s.LinuxKit.Watch(s.LocalExit). A fresh VM has no Garden yet.
StartLinuxKit ==
    /\ Running /\ pc = "startLinuxKit"
    /\ \/ /\ procs' = [procs EXCEPT !["linuxkit"] = "running"]
          /\ watched' = watched \cup {"linuxkit"}
          /\ gardenUp' = FALSE
          /\ pc' = "waitGarden"
          /\ UNCHANGED <<result, status>>
       \/ Return("linuxkitError") /\ UNCHANGED <<procs, watched, gardenUp>>
    /\ UNCHANGED <<stage, exitPc, localExit, exitSignal, gardenVars, inputVars>>

\* waitForGarden: Ping until it answers, with no bound; then the -n check.
GardenReady ==
    /\ Running /\ pc = "waitGarden"
    /\ VMUp
    /\ \/ noProvision /\ Return("noProvision")
       \/ ~noProvision /\ pc' = "create" /\ UNCHANGED <<result, status>>
    /\ UNCHANGED <<stage, exitPc, hostVars, gardenVars, inputVars>>

\* A failed Ping: sleep one second and ping again.
PingFails ==
    /\ Running /\ pc = "waitGarden"
    /\ UNCHANGED vars

\* client.Create(containerSpec) of the current stage.
StageCreate ==
    /\ Running /\ pc = "create"
    /\ \/ /\ VMUp
          /\ containers' = containers \cup {stage}
          /\ created' = created \cup {stage}
          /\ pc' = "runWait"
          /\ UNCHANGED <<result, status, destroyFailed>>
       \/ Return("createFailed") /\ UNCHANGED gardenVars
    /\ UNCHANGED <<stage, exitPc, hostVars, inputVars>>

\* Mutant: the services loop runs one entry past the end of the list.
NextStageOffByOne ==
    \/ stage <= NumStages /\ stage' = stage + 1 /\ pc' = "create"
       /\ UNCHANGED <<result, status>>
    \/ stage > NumStages /\ Return("ok") /\ UNCHANGED stage

\* Mutant: the services loop stops one entry short.
NextStageSkipLast ==
    \/ stage < NumStages - 1 /\ stage' = stage + 1 /\ pc' = "create"
       /\ UNCHANGED <<result, status>>
    \/ stage >= NumStages - 1 /\ Return("ok") /\ UNCHANGED stage

\* Leaving a stage that succeeded: the next one, or the end of Execute
\* (the services loop of DeployServices ends with the list).
NextStage ==
    \/ stage < NumStages /\ stage' = stage + 1 /\ pc' = "create"
       /\ UNCHANGED <<result, status>>
    \/ stage = NumStages /\ Return("ok") /\ UNCHANGED stage

\* client.Destroy(handle), whose error is ignored; destroyFailed records
\* the stages it failed for.
Destroy ==
    \/ containers' = containers \ {stage} /\ UNCHANGED destroyFailed
    \/ DestroyMayFail /\ UNCHANGED containers
       /\ destroyFailed' = destroyFailed \cup {stage}

\* Mutant: the success path forgets client.Destroy.
StageRunWaitNoDestroy ==
    /\ Running /\ pc = "runWait"
    /\ \/ Return("runFailed") /\ UNCHANGED <<stage, containers, destroyFailed>>
       \/ Return("waitFailed") /\ UNCHANGED <<stage, containers, destroyFailed>>
       \/ VMUp /\ Return("exitNonZero") /\ UNCHANGED <<stage, containers, destroyFailed>>
       \/ VMUp /\ UNCHANGED <<containers, destroyFailed>> /\ NextStage
    /\ UNCHANGED <<created, exitPc, hostVars, inputVars>>

\* Mutant: the container is destroyed on every path (a deferred Destroy).
StageRunWaitDeferDestroy ==
    /\ Running /\ pc = "runWait"
    /\ \/ Return("runFailed") /\ Destroy /\ UNCHANGED stage
       \/ Return("waitFailed") /\ Destroy /\ UNCHANGED stage
       \/ VMUp /\ Return("exitNonZero") /\ Destroy /\ UNCHANGED stage
       \/ VMUp /\ Destroy /\ NextStage
    /\ UNCHANGED <<created, exitPc, hostVars, inputVars>>

\* container.Run then process.Wait: a failure of either, or a non-zero exit
\* code, returns and leaves the container; exit code 0 destroys it.
StageRunWait ==
    /\ Running /\ pc = "runWait"
    /\ \/ Return("runFailed") /\ UNCHANGED <<stage, containers, destroyFailed>>
       \/ Return("waitFailed") /\ UNCHANGED <<stage, containers, destroyFailed>>
       \/ VMUp /\ Return("exitNonZero") /\ UNCHANGED <<stage, containers, destroyFailed>>
       \/ VMUp /\ Destroy /\ NextStage
    /\ UNCHANGED <<created, exitPc, hostVars, inputVars>>

Main ==
    \/ CheckArgIso \/ ReadIso \/ CheckRunning \/ Prepare \/ StartVpnKit
    \/ StartLinuxKit \/ GardenReady \/ PingFails \/ StageCreate \/ StageRunWait

-----------------------------------------------------------------------------
(* Teardown goroutine: select on s.Exit and s.LocalExit, then stop and exit. *)

TeardownSelect ==
    /\ Running /\ exitPc = "select"
    /\ exitSignal \/ localExit # {}
    /\ exitPc' = "stopLinuxKit"
    /\ UNCHANGED <<mainVars, status, hostVars, gardenVars, inputVars>>

\* Stopping a helper that is not running has no effect (its error is ignored).
StopProc(p) ==
    procs' = [procs EXCEPT ![p] = IF @ = "running" THEN "exited" ELSE @]

TeardownStopLinuxKit ==
    /\ Running /\ exitPc = "stopLinuxKit"
    /\ StopProc("linuxkit")
    /\ gardenUp' = FALSE
    /\ exitPc' = "stopVpnKit"
    /\ UNCHANGED <<mainVars, status, watched, localExit, exitSignal, gardenVars, inputVars>>

TeardownStopVpnKit ==
    /\ Running /\ exitPc = "stopVpnKit"
    /\ StopProc("vpnkit")
    /\ exitPc' = "exit"
    /\ UNCHANGED <<mainVars, status, watched, localExit, exitSignal, gardenUp, gardenVars, inputVars>>

\* Mutant: the teardown goroutine stops the helpers and returns without
\* os.Exit(128).
TeardownNoExit ==
    /\ Running /\ exitPc = "exit"
    /\ UNCHANGED vars

\* os.Exit(128) ends every goroutine.
TeardownExit ==
    /\ Running /\ exitPc = "exit"
    /\ status' = "exited"
    /\ UNCHANGED <<mainVars, exitPc, hostVars, gardenVars, inputVars>>

Teardown == TeardownSelect \/ TeardownStopLinuxKit \/ TeardownStopVpnKit \/ TeardownExit

-----------------------------------------------------------------------------
(* Watchers and environment.                                                *)

\* The watcher of helper p sees it exit and sends its label on LocalExit.
Watch(p) ==
    /\ Running
    /\ p \in watched /\ procs[p] = "exited" /\ p \notin localExit
    /\ localExit' = localExit \cup {p}
    /\ UNCHANGED <<mainVars, exitPc, status, procs, watched, exitSignal, gardenUp, gardenVars, inputVars>>

\* A helper process dies on its own; Garden dies with the VM.
Crash(p) ==
    /\ Running /\ procs[p] = "running"
    /\ procs' = [procs EXCEPT ![p] = "exited"]
    /\ gardenUp' = (gardenUp /\ p # "linuxkit")
    /\ UNCHANGED <<mainVars, exitPc, status, watched, localExit, exitSignal, gardenVars, inputVars>>

\* The user interrupts cf dev: s.Exit fires.
Interrupt ==
    /\ Running /\ ~exitSignal
    /\ exitSignal' = TRUE
    /\ UNCHANGED <<mainVars, exitPc, status, procs, watched, localExit, gardenUp, gardenVars, inputVars>>

\* Garden inside a running VM starts answering.
GardenBoots ==
    /\ Running /\ procs["linuxkit"] = "running" /\ ~gardenUp
    /\ gardenUp' = TRUE
    /\ UNCHANGED <<mainVars, exitPc, status, procs, watched, localExit, exitSignal, gardenVars, inputVars>>

\* The process has ended: nothing of it moves any more.
Halted ==
    /\ ~Running
    /\ UNCHANGED vars

Next ==
    \/ Main \/ Teardown
    \/ \E p \in Procs : Watch(p) \/ Crash(p)
    \/ Interrupt \/ GardenBoots \/ Halted

(* The Go scheduler runs every runnable goroutine: the main goroutine, the  *)
(* teardown goroutine and the watchers are weakly fair. Crashes, the        *)
(* interrupt and Garden's start are up to the environment.                  *)
Fairness ==
    /\ WF_vars(Main)
    /\ WF_vars(Teardown)
    /\ \A p \in Procs : WF_vars(Watch(p))

Spec == Init /\ [][Next]_vars /\ Fairness

-----------------------------------------------------------------------------
(* The refinement mapping onto DeployPipeline: the stages completed are    *)
(* those before the current one, and the current one once Destroy was     *)
(* called for it (its container gone, or left because Destroy's error was *)
(* dropped); a stage's container is live from its Create until that       *)
(* Destroy; a stage error fails the pipeline and "ok" is its success.     *)
Destroyed(s) == s \notin containers \/ s \in destroyFailed
PipelineDone == IF stage \in created /\ Destroyed(stage) THEN stage ELSE stage - 1
PipelineLive == containers \ destroyFailed # {}
PipelineOutcome ==
    IF result = "ok" THEN "ok"
    ELSE IF result \in StageErrors THEN "failed"
    ELSE "pending"

Pipeline == INSTANCE DeployPipeline
    WITH N <- NumStages, done <- PipelineDone, live <- PipelineLive,
         outcome <- PipelineOutcome

-----------------------------------------------------------------------------
(* Properties.                                                              *)

(* Stages are serial: when a deploy stage's container has been created,     *)
(* every earlier stage has been created and its container destroyed        *)
(* (the create / run / wait / destroy sequence of DeployBosh,               *)
(* DeployCloudFoundry and DeployServices, and the order Execute calls them).*)
StageOrder ==
    \A s \in created : \A r \in 1..(s - 1) : r \in created /\ r \notin containers

(* Stages are serial whatever Destroy does: when a stage's container has   *)
(* been created, every earlier stage has been created, and an earlier     *)
(* stage's container that still exists is one whose Destroy failed and    *)
(* whose error DeployCloudFoundry dropped (cloudfoundry.go:73), never one  *)
(* that was left without a Destroy.                                        *)
StagesSerial ==
    \A s \in created : \A r \in 1..(s - 1) :
        r \in created /\ (r \in containers => r \in destroyFailed)

(* A stage that fails after its container exists leaves that container    *)
(* for diagnosis, and no other container but those whose Destroy failed; *)
(* a failed Create leaves none but those (the early returns of the        *)
(* stages, which never call Destroy).                                     *)
FailedStageKept ==
    /\ result \in StageErrors \ {"createFailed"} =>
          stage \in containers /\ containers \ {stage} \subseteq destroyFailed
    /\ result = "createFailed" => containers \subseteq destroyFailed

(* The "already running" short cut of Execute starts nothing and creates    *)
(* no container.                                                            *)
AlreadyRunningIsNoop ==
    result = "alreadyRunning" => created = {} /\ watched = {}

(* Once the user interrupts, or a watched helper has reported its exit on   *)
(* LocalExit, the cf dev process ends (teardown goroutine of Execute).      *)
SignalLeadsToHalt ==
    (exitSignal \/ localExit # {}) ~> ~Running

(* When the teardown goroutine exits with 128 no helper is left running     *)
(* (spec 4.2: the teardown stops the VM, then the network helper).          *)
NoOrphanOnExit ==
    status = "exited" => \A p \in Procs : procs[p] # "running"

(* `cf dev start` always ends: the wait for Garden is bounded (spec 4.3,    *)
(* step 3), so Execute returns or the teardown exits.                       *)
StartTerminates ==
    <>(~Running)

(* Execute implements the deploy pipeline the spec describes: its stages   *)
(* (DeployBosh, DeployCloudFoundry, DeployServices' loop) run one at a     *)
(* time, Destroy is called for a successful stage's container before the *)
(* next one is created, and Execute returns "ok" only after the last one. *)
ImplementsPipeline == Pipeline!Spec

=============================================================================
