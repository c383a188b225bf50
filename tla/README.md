# TLA+ models of cfdev

Models of the orchestration logic of `cf dev` (src/): the privileged helper
daemon `cfdevd`, the `cf dev start` orchestrator with its helper processes
and crash/interrupt teardown, and the Garden-based deploy pipeline.

## 1. Inventory

### Components

| Component | Source | State it keeps | Operations |
|---|---|---|---|
| StartOrchestrator (darwin) | src/cmd/start/start_darwin.go | main goroutine position, the `Exit` and `LocalExit` channels, the teardown goroutine | `Execute` (iso checks, already-running short cut, setup, VpnKit, LinuxKit, wait for Garden, deploy stages), teardown goroutine, `waitForGarden`, `readIsoAndVerifyVersion`, `parseDockerRegistriesFlag` |
| DeployStages | garden/cloudfoundry.go, garden/bosh_test.go (DeployBosh), garden/bosh_config.go | Garden containers by handle | `DeployBosh`, `DeployCloudFoundry`, `DeployServices`: create / run / wait / destroy; `FetchBOSHConfig` + `convert` |
| PrivilegedDaemon (cfdevd) | cfdevd/main.go, cfdevd/cmd/cmd.go, cfdevd/cmd/uninstall.go | open connections, launchd registration | accept loop, `handleRequest` (handshake, `UnmarshalCommand`, `Execute`), Uninstall / AddIPAlias / RemoveIPAlias / Bind / Unimplemented, `install`, `uninstall`, `timesync`, signal handler |
| PrivilegedBroker | not in the sources | — | — |
| LegacyStart | cfdev/cmd/start.go | pid files of linuxkit, vpnkit, hyperkit | `RunE` with `SignalAndCleanup` teardown, `isLinuxKitRunning`, `cleanupStateDir` |
| LinuxKitProcess | process/linuxkit.go | launchd daemon registration | `Start` = `daemonSpec`, `AddDaemon`, `Start` |
| HyperV | process/hyperv.go | Hyper-V VM | `CreateVM` (powershell steps), `Start`, `Stop` |
| BoshProgress | bosh/bosh.go | progress channel, `total` | `VMProgress` poller |
| BoshEnvCommand | cfdev/cmd/bosh.go | — | `bosh env` = `FetchBOSHConfig` + print |

### How they interact

`Execute` starts a teardown goroutine first. It then checks the deps iso,
asks `LinuxKit.IsRunning`, prepares the host (it calls cfdevd through
`HostNet.AddLoopbackAliases`, syncs the cache, installs cfdevd), starts VpnKit
and then LinuxKit. Each helper is handed to `Watch(LocalExit)`: a watcher
goroutine sends the helper's label when it exits. The teardown goroutine
blocks on `Exit` (user interrupt) or `LocalExit`, then stops LinuxKit and
VpnKit and calls `os.Exit(128)`. That runs concurrently with the main
goroutine, which waits for Garden in the VM and then runs the deploy stages
in order: BOSH, CF, then one stage per service. A stage creates a container,
runs one process, waits for it and destroys the container on exit code 0.
On any error the stage returns and the container stays. cfdevd is a separate
privileged process: it accepts Unix connections and handles each in a
goroutine (handshake, one instruction byte, one status byte back).

### What is hard

- Concurrency: the teardown goroutine against the main goroutine; the
  watchers; cfdevd's one goroutine per connection.
- Failure: helper crashes, Garden calls failing at each step, a failing
  Destroy whose error is ignored, a failed acknowledgement write.
- Timeouts: `waitForGarden` and `VMProgress` poll with no bound.
- Stale state: a VM of an earlier invocation, stale pid files, reused pids.
- Resources: cfdevd never closes connections (`defer` in an endless loop).

### Properties that make each component correct

- StartOrchestrator: stages are serial; a failed stage stops the pipeline
  and keeps its container; success means every stage ran; the
  already-running short cut has no side effects; an interrupt or a helper's
  death ends the process; no helper outlives the teardown; start terminates.
- cfdevd: every decoded command writes exactly one status byte; a failed
  write is reported; a bad connection never affects another; connections
  are released.
- FetchBOSHConfig: the transient container is always removed; credentials
  are returned only when all three secrets are present.
- LegacyStart: teardown finds every helper that was started.
- BoshProgress: release counts come only before the first VM count; the
  stream ends once all VMs run. (`Done <= Total` holds by construction:
  numDone counts among the listed VMs.)

The hazards, each at its source line, are listed in PROJECT.json.

## 2. Plan and status

| Module | Models | Status |
|---|---|---|
| `StartCmd` (+ `StartCmdProofs`) | `Start.Execute`, teardown, watchers, deploy stages | done; refines `DeployPipeline` |
| `DeployPipeline` | what the deploy stages promise (abstract) | done |
| `Cfdevd` (+ `CfdevdProofs`) | accept loop, per-connection handlers, commands | done |
| `GardenFetch` (+ `GardenFetchProofs`) | `FetchBOSHConfig`, `convert`, `cf dev bosh env` | done |
| `LegacyStart` (+ `LegacyStartProofs`) | pid-file `cf dev start` of cfdev/cmd/start.go | done |
| `BoshProgress` (+ `BoshProgressProofs`) | `VMProgress` producer and its channel | done |
| `HyperV` (+ `HyperVProofs`) | Windows VM create / start / stop | done |

Each `MC*.tla` gives a module's constants small values for TLC; each
`MC*.cfg` is one run (listed in PROJECT.json with what it shows).

## 3. StartCmd

State: `pc`, `stage`, `result` (main goroutine), `exitPc` (teardown
goroutine), `status` (process running, exited via `os.Exit(128)`, or
returned from `Execute`), `procs` (helper state on the host), `watched`,
`localExit` (labels sent on `LocalExit`), `exitSignal` (`Exit` fired),
`gardenUp`, `containers` (deploy containers present in Garden), `created`
(stages whose container was created), `destroyFailed` (a history variable:
the stages whose Destroy failed, an error the code drops at
cloudfoundry.go:73), and the inputs `isoGiven`,
`isoCompatible`, `noProvision`.

Actions and the code they model:
`CheckArgIso` (the `-f` branch, lines 72-98), `ReadIso` (second read,
100-107), `CheckRunning` (112-118), `Prepare` (the six fallible setup
calls, 120-145, abstracted to "fails or not": none touches the modelled
state), `StartVpnKit` (147-151), `StartLinuxKit` (153-157), `GardenReady`
/ `PingFails` (`waitForGarden` and the `-n` check), `StageCreate` and
`StageRunWait` (the create / run / wait / destroy of DeployCloudFoundry,
which DeployBosh and each service repeat; `NextStage` is the order
`Execute` calls them and the services loop), `Teardown*` (the teardown
goroutine, lines 57-66), `Watch(p)` (the watcher goroutines). `Crash`,
`Interrupt`, `GardenBoots` are the environment. Garden calls succeed only
while the VM runs and Garden answers; Run/Wait/Create may always fail.

Init: the host has no helpers, or still runs those of an earlier invocation
(then Garden answers there); the flags and the iso's compatibility are
arbitrary.

Fairness: weak fairness of the main goroutine, of the teardown goroutine
and of each watcher (the Go scheduler runs runnable goroutines). Crashes,
the interrupt and Garden's start are not fair: nothing in the code makes
them happen.

### Runs (MCStartCmd: two services, i.e. four stages)

| Run | Expect | Shows |
|---|---|---|
| start_reliable | pass | `TypeOK`, `StagesSerial`, `FailedStageKept`, `AlreadyRunningIsNoop`, `SignalLeadsToHalt` and `ImplementsPipeline`, with a Destroy that may fail (`DestroyMayFail = TRUE`) |
| start_orphan | violation | `NoOrphanOnExit`: the main goroutine starts a helper after the teardown passed its Stop (in the shortest trace VPNKit, after `VpnKit.Stop`); `os.Exit(128)` leaves it running |
| start_garden_wait | violation | `StartTerminates`: `waitForGarden` has no timeout |
| start_destroy_fails | violation | `StageOrder` (the spec's "stage N+1 only after stage N's container is destroyed"): the ignored Destroy error lets the next stage start beside the old container. Every stage is modelled with DeployCloudFoundry's code (DeployBosh and the services deploy are not under src/), so the shortest trace shows it at the first stage; in the source it is the CF stage's Destroy |

`StagesSerial` is what the code does guarantee when Destroy fails: a
stage's container is created only after every earlier stage's, and an
earlier stage's container that still exists is one whose Destroy was
called and failed, never one left without a Destroy.
`FailedStageKept` likewise allows, besides the failed stage's container,
only containers whose Destroy failed.

Bounds: two services give a first, a middle and a last iteration of the
services loop; more services add only longer chains of the same steps.
Both helpers, both initial host states and all flag values are enumerated.
Deadlock is checked: a process that has ended stutters (`Halted`).

### Refinement of DeployPipeline (checked in start_reliable)

`DeployPipeline` states what the deploy stages promise, with three
variables: `done` (stages completed), `live` (the running stage's container
exists) and `outcome` (`pending`, `ok`, `failed`). Its actions are
`StartStage`, `FinishStage` (after the last stage the outcome is `ok`) and
`FailStage`; nothing is enabled once the outcome is not `pending`.
`StartCmd` defines the mapping. `PipelineDone` is `stage` once the current
stage's container was created and Destroy was called for it (the
container is gone, or its Destroy failed: the code goes on as if it
succeeded), else `stage - 1`. `PipelineLive` is "some deploy container
exists whose Destroy did not fail". `PipelineOutcome` is `ok`,
`failed` for a stage error, else `pending`. Then `Pipeline ==
INSTANCE DeployPipeline WITH ...`, and `ImplementsPipeline ==
Pipeline!Spec`. `start_reliable` checks it as a PROPERTY on the MC instance with a
Destroy that may fail. It subsumes "success means every stage ran": the
pipeline's `ok` outcome is reached only by `FinishStage` of the last stage.

### Proved (StartCmdProofs)

- `TypeCorrect`: `Spec => []TypeOK`, for every `NumServices \in Nat`.
No theorem assumes anything of `DestroyMayFail` beyond its type: each
holds whether Garden's Destroy may fail or not.

- `StagesSerialHolds`: `Spec => []StagesSerial`.
  `StagesSerial` is not inductive, because it says nothing about where the
  main goroutine is. The strengthening `StageInv` says:
  - the created stages are `1..stage-1`, or `1..stage` once the current
    stage's container exists (always at `runWait`, never before the first
    stage);
  - every container and every failed Destroy belongs to a created stage;
  - only the current stage can own a container whose Destroy did not
    fail, and at `runWait` no Destroy has failed for it yet.

  The lemma `DestroyClears` states what the two outcomes of `Destroy` have
  in common: no container is left whose Destroy did not fail.
  TLC checked `TypeOK /\ StageInv /\ PInv` on the MC instance, with
  `DestroyMayFail = TRUE`, before the proof.
- `Implementation`: `Spec => ImplementsPipeline`, for every number of
  services. It rests on these lemmas:
  - `RInv`, which adds `PInv` to `StageInv`. `PInv` says that Execute has
    no result while it runs, and that at `runWait` the current stage's
    container exists.
  - `PipelineInit`: initial states map to `Pipeline!Init`.
  - `PipelineStep`: every step maps to a pipeline step or a stutter.
    - `StageCreate` is `StartStage`, or `FailStage` when Create fails.
    - A successful `StageRunWait` is `FinishStage` whichever way its
      Destroy goes; its last stage yields `ok`. A failure is `FailStage`.
    - Every other step keeps the mapped state (`PipelineStutter`).

- `AlreadyRunningIsNoopHolds`: `Spec => []AlreadyRunningIsNoop`, for
  every number of services and either Destroy behaviour. Its inductive
  invariant `EarlyInv` says three things. Execute has no result while it
  runs. No helper is watched before `startVpnKit` is passed. No stage is
  created before the pipeline starts. With these, the short cut at
  `isRunning` finds nothing to undo, and nothing changes after `done`.
- `FailedStageKeptHolds`: `Spec => []FailedStageKept`. The inductive
  invariant is `KInv == RInv /\ FailedStageKept`. `StageInv` gives that at
  `create` every container is one whose Destroy failed, and, with `PInv`,
  that at `runWait` the current stage's container exists and every other
  one is a failed Destroy's. After the return nothing touches Garden
  (lemma `KeptStep`).

Only model-checked: the liveness property `SignalLeadsToHalt` (fairness and
ENABLED are out of the prover's reach).

## 4. Cfdevd

State per connection: `handler` (not dialled, in the listen backlog, or at
the handshake, decode or execute step of its `handleRequest` goroutine,
or finished), `sent` (what the client wrote), `command` (what
`UnmarshalCommand` decoded), `reply` (the status bytes the client got),
`ret` (the error `Execute` returned). Shared: `fds` (descriptors the
daemon holds), `peerClosed`, and `registered` (the launchd registration
that Uninstall removes).

Actions: `Accept` (the loop of `run()`: it needs a free descriptor and
never gives it back, because `defer conn.Close()` sits in a loop that
never returns), `Handshake` and `Decode` (`handleRequest` and
`UnmarshalCommand`: the dropped `binary.Read` error makes end of stream
instruction 0; a bad Bind payload ends the handler with no reply),
`ExecuteUninstall` (uninstall.go: the write error is dropped),
`ExecuteCommand` (AddIPAlias, RemoveIPAlias, Bind, Unimplemented: their
code is not in the sources, so they follow the spec: one byte, 33 for
Unimplemented, a failed write reported). `Dial` and `ClientClose` are the
clients (any message, close at any time). The handshake and the other
commands' bodies are modelled from the spec and marked so in the map.

Fairness: weak fairness of each connection's serving steps (the accept
loop and handler goroutines are runnable); none for clients. Deadlock
checking is off for these runs: once every client is served the daemon
blocks in `AcceptUnix`, which is its normal idle state.

| Run | Expect | Shows |
|---|---|---|
| daemon_protocol | pass | `ReplyProtocol` with three clients and a limit of two, so the limit is reached |
| daemon_fd_leak | violation | `EveryConnectionServed`: with two descriptors, the third client is never accepted |

Two more divergences from the spec show up in the model's behaviours
and are recorded here without a run of their own. `ClientClose` before
Uninstall's status byte is written: the write fails, and Execute still
returns success after removing the daemon (`uninstall.go:26`). No
property covers that hazard: one over the bytes that are written cannot
see the byte that was lost, and the spec's requirement (report the failed
write) would need a property of `ret` that the code plainly breaks. A client
that closes before sending its instruction byte: the EOF is decoded as
instruction 0, so the Unimplemented command runs and answers 33
(`cmd.go:24`).

Bounds: three connections with the symmetry of model values give two
handlers interleaving while a third waits; the codes cover Uninstall, an
alias command, Bind (with its payload failure) and an unknown byte.

Proved (CfdevdProofs), for every set of connections, codes and limit:
`DaemonTypeCorrect` (types, and at most `MaxFds` descriptors held) and
`ReplyProtocolHolds`. The
inductive invariant `IInv` adds, per connection, that it holds a
descriptor exactly from its accept on (needed for the cardinality step of
`Accept`), that it has no command and no reply before decoding and no
reply before Execute, and that Execute wrote at most one byte. The
lemma `OthersKeep` shows that a step of one connection that keeps its own
part keeps every other connection's. `EveryConnectionServed` is liveness and is
only model-checked.

## 5. GardenFetch

State: per caller `pc` (where it is in `RunE` / `FetchBOSHConfig`) and
`result` (what it returned, or `interrupted`). Shared: `handle` (the
caller whose Create made the `fetch-bosh-config` container, `NoInv` when
Garden has none) and `creds` (the secrets present in the director's
creds.yml).

Actions:

- `Begin`: `RunE` spawns the interrupt goroutine and makes the client.
- `Create`: Garden refuses a taken handle, and any call may fail.
- `Run`, `Wait` (a Wait error or a non-zero exit), `Destroy`: the Destroy
  error is dropped, so the container may stay.
- `Parse`: `yaml.Unmarshal` may fail, then `Convert` checks the three
  secrets.
- `Prepare`: `env.Prepare`.
- `Interrupt`: the goroutine's `os.Exit(128)`, at any point.

Callers are `cf dev bosh env` invocations or `bosh.New`, all against the
one Garden of the VM. Init is any content of creds.yml; a deploy that was
interrupted leaves it partial.

| Run | Expect | Shows |
|---|---|---|
| fetch_exclusive | pass | `FetchExclusive` (at most one caller between Create and Destroy) and `OkMeansCompleteCreds` (a printed environment had all three secrets) |

`FetchExclusive` rests on Garden refusing a taken handle, and on cfdev
destroying the fixed handle only after its own Create succeeded: the
mutant `CreateDestroyOnFail` (a failed Create cleaned up by a Destroy of
`fetch-bosh-config`, as a deferred Destroy would do) breaks it, because it
removes the container another caller is using.
| fetch_leak | violation | `NoLeakedFetchContainer`: a Run or Wait error, a non-zero exit or an interrupt leaves the container; the spec says it is always destroyed |

Bounds: three callers with symmetry. Two callers already race for the
handle; the third can find a container leaked by the first while the
second retries.

Fairness: weak fairness of each caller's steps (`Spec`); the runs check
only safety.

Proved (GardenFetchProofs), for every set of callers:

- `FetchTypeCorrect`.
- `FetchExclusiveHolds`. Its inductive invariant says every caller at
  `run`, `wait` or `destroy` owns the handle. It needs
  `GardenFetchAssumption` (`NoInv` is not a caller), so that Create can
  take the handle only when nobody holds it.
- The lemma `OthersStay`: one caller's step leaves the others' positions
  alone.
- `OkMeansCompleteCredsHolds`: `Spec => []OkMeansCompleteCreds`. Its
  inductive invariant `CredsInv` extends the property to callers at
  `prepare`. Only `Parse` enters `prepare`, and only after `convert()`
  passed. Only `Prepare` returns `ok`. creds.yml never changes under the
  callers.

## 6. LegacyStart

State:

- the host: `host` (what holds each pid: nothing, a helper or another
  process) and `pidfile` (the pid recorded for vpnkit, linuxkit and
  hyperkit, `NoPid` when absent);
- the running invocation: `pc`, `result`, `status`, `vPid` and `lPid` (the
  helpers it started), `exitPc` and `exitSignal` (the teardown goroutine);
- `runs` (invocations so far).

Actions and the code they model (cmd/start.go):

- `Setup` (69-71), `CheckRunning` with `IsLinuxKitRunning` (73-77,
  169-186).
- `Prepare`: the fallible steps 79-120. `cleanupStateDir` wipes the hyperkit
  pid file.
- `StartVpnKit` / `WriteVpnPid` (122-130) and `StartLinuxKit` /
  `WriteLinuxPid` (132-145). A helper started before its failed write keeps
  running.
- `Garden` (147-151: WaitForGarden's result is ignored) and `Deploy`
  (153-166).
- The teardown goroutine: `TeardownWake`, and `TeardownSignal` calling
  `SignalAndCleanup` on the three pid files in the code's order (59-63).
  `SignalAndCleanup` is not in the sources. It is modelled from its use:
  it signals the recorded pid, whatever holds it now, and removes the file.
  `TeardownExit` is line 64.
- The environment: `Crash`, `ForeignStart` (another process takes a freed
  pid), `SpawnHyperkit` (a running linuxkit starts hyperkit and writes
  its pid file), `Interrupt`, and `NewRun` (the user starts again).

| Run | Expect | Shows |
|---|---|---|
| legacy_start | pass | `VpnKitRecordedFirst`: the VM is launched only while VPNKit is recorded (or the teardown has removed the file) |
| legacy_foreign_kill | violation | `NoForeignKill`: the teardown signals an unrelated process that holds a recorded pid (in the shortest trace, the process that took a dead VPNKit's pid) |

Two more divergences are reachable in this model and recorded here
without a run of their own. `Crash` plus `ForeignStart` leave a stale
linuxkit pid file naming another live process. `isLinuxKitRunning` then
answers "already running" and starts nothing (`start.go:180`). An
`Interrupt` between `lCmd.Start` and the pid-file write leaves a VM that no
pid file names. The next invocation passes the check and launches a second
VM (`start.go:142`).

Bounds: four pids, two invocations, pid reuse on. Two invocations are
the least that show stale pid files. Four pids hold three helpers plus
one other process, or the helpers of two runs.

Fairness: weak fairness of the main goroutine and of the teardown
goroutine. Crashes, the user and other processes are not fair.

Proved (LegacyStartProofs), for every finite pid set and number of
invocations:

- `LegacyTypeCorrect`.
- `VpnKitRecordedFirstHolds`, an action property proved from the
  invariant `VInv`: at `startLinuxKit`, VPNKit's pid file holds `vPid` or
  the teardown has passed it.

Type correctness is split into a Boolean part and the rest (`TypeSplit`),
which the SMT backend needs.

## 7. BoshProgress

State:

- the director: `deployed` (deployment "cf" exists) and `vm` (each VM
  absent, listed, or running with processes);
- the caller, then the goroutine: `ppc`;
- `total`, the record being sent (`outbox`), the channel `ch` (capacity
  one), `closed`, and `sentVms` (a {Total, Done} record was sent).

Actions (bosh/bosh.go):

- `FindDeployment`: the spin 54-60.
- `PollEmpty`: VMInfos fails or lists nothing. A release count is sent
  only while `total == 0`, and `Releases()` may fail (lines 67-79).
- `PollVMs`: `total` and numDone (81-87).
- `Send`: the blocking send, and the close when `Complete` (89-94).
- `Receive`: the reader.
- `Deploy` and `VmStep`: the director.

| Run | Expect | Shows |
|---|---|---|
| progress_stream | pass | `ReleasesOnlyBeforeTotal` (no releases record after a VM count) and `ProgressEndsOnConvergence` (the stream closes once every VM runs for good) |

Not a run: the stream is not unconditionally terminating, as the spec
calls it. Behaviours in which the VMs never all run keep the goroutine
polling forever; nothing in `bosh.go` bounds the loops.

Bounds: two VMs, which is enough for partial counts, restarts and a
total that changes.

Fairness: weak fairness of `FindDeployment`, `Send` and `Receive` (the
goroutines are runnable). `PollVMs` gets strong fairness because a
VMInfos failure sends the goroutine back to sleep. The call is then only
enabled now and then, and the model assumes it does not fail on every one
of infinitely many tries. The director's steps are not fair: whether the
VMs converge is the property's hypothesis.

Proved (BoshProgressProofs), for every finite set of VMs
(`BoshProgressAssumption`):

- `ProgressTypeCorrect`: `Spec => []TypeOK`. In particular the channel
  never holds more than one record. The strengthening `TInv` adds that the
  goroutine blocks on the send only with a record in hand. The lemma
  `CountBound` bounds both counts of a listing by the number of VMs
  (`FS_Subset`).
- `ReleasesOnlyBeforeTotalHolds`: `Spec => ReleasesOnlyBeforeTotal`. The
  invariant `TotalInv` says:
  - a releases record is about to be sent only while `total` is 0;
  - a VM count is about to be sent, or has been sent, only once `total` is
    positive.

  The lemma `ListedCount` gives that a listing that is not empty has a
  positive length (`FS_EmptySet`). `total` is never reset, so no releases
  record can follow a count.

Only model-checked: `ProgressEndsOnConvergence`, which is liveness under
fairness.

## 8. HyperV

State:

- `vm`: each VM identity absent, off, running or removed;
- `parts`: what each VM has been given (settings, the two DVD drives, the
  removed network adapter, the disk, firmware, COM port);
- `vhd`: cfdev.vhd exists;
- `ret`: the last call, whether it returned nil, and the VM it made;
- `calls`.

Actions:

- `CreateVM`: the ten commands of lines 24-100, with `addVhdDrive` at
  105-113. `k` is the first step that fails. `CreateEffect` applies the
  steps before `k`, every cmdlet acting on all VMs named cfdev. The
  RemoveAll step fails only when the file exists.
- `Start`: Start-VM, which may start some of the VMs and fail on another.
- `Stop`: Stop-VM, then Remove-VM whatever the first did. `reterr` is the
  last error. Both fail when no VM has the name.

Hyper-V lets New-VM reuse a taken name, so a retry after a failed CreateVM
makes a second VM named cfdev. The callers (the Windows start command) are
not in the sources: any sequence of up to `MaxCalls` calls is allowed.

| Run | Expect | Shows |
|---|---|---|
| hyperv_calls | pass | `CreatedComplete` (a CreateVM that returned nil left a complete VM and its disk) and `StopClears` (a Stop that returned nil left no VM named cfdev) |

Bounds: three VM identities with symmetry, and four calls. That allows a
failed create, a retry that duplicates the VM, a start and a stop.

The duplicate VM itself (hazard at hyperv.go:24) is reached by these runs
but no property flags it: both properties speak of calls that returned
nil, and no property states that at most one VM is named cfdev.

Proved (HyperVProofs), for every set of identities and bound:

- `HyperVTypeCorrect`;
- `CreatedCompleteHolds`;
- `StopClearsHolds`.

Both properties speak of the last call, which every call rewrites. With
`TypeOK` they are therefore inductive as they stand (`IInv`).

## 9. Not modelled

- The client side of the cfdevd protocol (not in the sources); clients are
  an environment that may do anything.
- cfdevd's `install`, `uninstall`, `copyExecutable` and `timesync`: file
  and launchd I/O with no state a property relates.
- Argument layout (daemonSpec, VM disk arguments), logging, analytics and
  UI messages: no property depends on them.
- Acceptance and unit test helpers.
- `ReportProgress`, the consumer of `VMProgress`, and the Windows start
  command that calls `HyperV`: they are not in the sources. The models
  use a reader that takes records and an arbitrary sequence of calls.
- `process.SignalAndCleanup`, `LinuxKit.Stop` / `VpnKit.Stop` and `Watch`
  are not in the sources. They are modelled from their call sites and the
  spec, and marked so in the map.
- `LinuxKit.Start` (process/linuxkit.go) is one fallible step of
  `StartCmd`. `daemonSpec` builds launchd argument lists, which is layout.
- The director's and Garden's own behaviour beyond what the calls return.
- TLAPS cannot prove liveness or ENABLED; those properties are only
  model-checked.
