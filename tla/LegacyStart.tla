----------------------------- MODULE LegacyStart -----------------------------
(***************************************************************************)
(* The pid-file based `cf dev start' of cfdev/cmd/start.go, over several   *)
(* invocations on one host. RunE spawns a goroutine that waits on Exit and *)
(* then signals the processes named in the linuxkit, vpnkit and hyperkit   *)
(* pid files and calls os.Exit(128). The main goroutine asks               *)
(* isLinuxKitRunning (the linuxkit pid file names a process that accepts   *)
(* signal 0), prepares the host, starts VPNKit and writes its pid file,    *)
(* starts the VM (linuxkit, which spawns hyperkit and writes hyperkit's    *)
(* pid file in the state directory) and writes its pid file, then deploys. *)
(* Processes outlive the invocation that started them; pids are a small    *)
(* set that the kernel reuses, for cf dev's helpers and for any other      *)
(* process of the user.                                                    *)
(***************************************************************************)
EXTENDS Naturals, FiniteSets, Sequences

CONSTANTS Pids,      \* the pids the kernel hands out
          MaxRuns,   \* how many times `cf dev start' is invoked, one after another
          PidReuse   \* whether other processes of the user take freed pids

ASSUME LegacyStartAssumption ==
    /\ IsFiniteSet(Pids) /\ Pids \subseteq Nat \ {0}
    /\ MaxRuns \in Nat \ {0}
    /\ PidReuse \in BOOLEAN

\* No pid: a pid file that is absent (ReadFile or ParseInt fails).
NoPid == 0

Helpers == {"vpnkit", "linuxkit", "hyperkit"}
\* What holds a pid: nothing, one of cf dev's helpers, or another process.
Holders == Helpers \cup {"free", "other"}

\* The order of the SignalAndCleanup calls of the teardown goroutine.
TeardownOrder == <<"linuxkit", "vpnkit", "hyperkit">>

Pcs == {"setup", "check", "prepare", "startVpnKit", "writeVpnPid",
        "startLinuxKit", "writeLinuxPid", "garden", "deploy", "returned"}
Results == {"none", "ok", "failed", "alreadyRunning"}

VARIABLES
    host,        \* what holds each pid
    pidfile,     \* the pid written in each helper's pid file
    pc,          \* the main goroutine of the current invocation
    exitPc,      \* the teardown goroutine: 0 waits on Exit, k in 1..3 is
                 \* at the k-th SignalAndCleanup, 4 is at os.Exit(128)
    exitSignal,  \* the Exit channel of the current invocation fired
    status,      \* the current invocation's process: running, returned
                 \* from RunE, or ended by os.Exit(128)
    result,      \* what RunE returned
    vPid, lPid,  \* vCmd.Process.Pid and lCmd.Process.Pid of this invocation
    runs         \* invocations so far

vars == <<host, pidfile, pc, exitPc, exitSignal, status, result, vPid, lPid, runs>>

PidOrNone == Pids \cup {NoPid}

TypeOK ==
    /\ host \in [Pids -> Holders]
    /\ pidfile \in [Helpers -> PidOrNone]
    /\ pc \in Pcs
    /\ exitPc \in 0..4
    /\ exitSignal \in BOOLEAN
    /\ status \in {"running", "returned", "exited"}
    /\ result \in Results
    /\ vPid \in PidOrNone /\ lPid \in PidOrNone
    /\ runs \in 1..MaxRuns

\* The first invocation on a host with no helper and no pid file.
Init ==
    /\ host = [p \in Pids |-> "free"]
    /\ pidfile = [h \in Helpers |-> NoPid]
    /\ pc = "setup" /\ exitPc = 0 /\ exitSignal = FALSE
    /\ status = "running" /\ result = "none"
    /\ vPid = NoPid /\ lPid = NoPid
    /\ runs = 1

FreePids == {p \in Pids : host[p] = "free"}
Running(h) == {p \in Pids : host[p] = h}

\* The main goroutine acts only while its process runs.
Main(from) == status = "running" /\ pc = from

\* RunE returns r; the process ends, and its teardown goroutine with it.
Return(r) ==
    /\ pc' = "returned" /\ result' = r /\ status' = "returned"

Goto(p) == pc' = p /\ UNCHANGED <<result, status>>

MainFrame == UNCHANGED <<exitPc, exitSignal, runs>>

\* env.Setup.
Setup ==
    /\ Main("setup")
    /\ Goto("check") \/ Return("failed")
    /\ UNCHANGED <<host, pidfile, vPid, lPid>> /\ MainFrame

\* isLinuxKitRunning: no pid file, or one naming a pid that nothing holds,
\* is "not running"; Signal(0) succeeds for any process of the user.
IsLinuxKitRunning == pidfile["linuxkit"] # NoPid /\ host[pidfile["linuxkit"]] # "free"

\* RunE: "CF Dev is already running..." and return nil.
CheckRunning ==
    /\ Main("check")
    /\ IF IsLinuxKitRunning THEN Return("alreadyRunning") ELSE Goto("prepare")
    /\ UNCHANGED <<host, pidfile, vPid, lPid>> /\ MainFrame

\* cleanupStateDir: RemoveAll of the state directory, where hyperkit's pid
\* file lives, then MkdirAll.
CleanupStateDir == pidfile' = [pidfile EXCEPT !["hyperkit"] = NoPid]

\* The fallible steps before VPNKit starts: the registries flag, the
\* download, linuxkit.Command (each fails before the state directory is
\* touched), cleanupStateDir, setupNetworking, InstallCFDevD, SetupVPNKit
\* (each fails after it).
Prepare ==
    /\ Main("prepare")
    /\ \/ Return("failed") /\ UNCHANGED pidfile
       \/ CleanupStateDir /\ (Goto("startVpnKit") \/ Return("failed"))
    /\ UNCHANGED <<host, vPid, lPid>> /\ MainFrame

\* vCmd.Start / lCmd.Start: the process gets a free pid, or Start fails.
StartHelper(h, from, to, pidVar) ==
    /\ Main(from)
    /\ \/ \E p \in FreePids :
            /\ host' = [host EXCEPT ![p] = h]
            /\ pidVar' = p
            /\ Goto(to)
       \/ Return("failed") /\ UNCHANGED <<host, pidVar>>
    /\ UNCHANGED pidfile /\ MainFrame

\* ioutil.WriteFile of the pid; on error RunE returns and the helper it
\* just started keeps running.
WritePid(h, from, to, pid) ==
    /\ Main(from)
    /\ \/ pidfile' = [pidfile EXCEPT ![h] = pid] /\ Goto(to)
       \/ Return("failed") /\ UNCHANGED pidfile
    /\ UNCHANGED <<host, vPid, lPid>> /\ MainFrame

\* A bug-shaped variant: the VM is started before VPNKit's pid is written.
StartVpnKitSkipWrite ==
    StartHelper("vpnkit", "startVpnKit", "startLinuxKit", vPid) /\ UNCHANGED lPid

StartVpnKit == StartHelper("vpnkit", "startVpnKit", "writeVpnPid", vPid) /\ UNCHANGED lPid
WriteVpnPid == WritePid("vpnkit", "writeVpnPid", "startLinuxKit", vPid)
\* os.Create of linuxkit.log may fail before lCmd.Start.
StartLinuxKit == StartHelper("linuxkit", "startLinuxKit", "writeLinuxPid", lPid) /\ UNCHANGED vPid
WriteLinuxPid == WritePid("linuxkit", "writeLinuxPid", "garden", lPid)

\* gdn.NewClient may fail; gdn.WaitForGarden's outcome is ignored.
Garden ==
    /\ Main("garden")
    /\ Goto("deploy") \/ Return("failed")
    /\ UNCHANGED <<host, pidfile, vPid, lPid>> /\ MainFrame

\* DeployBosh then DeployCloudFoundry (the stages StartCmd models).
Deploy ==
    /\ Main("deploy")
    /\ Return("ok") \/ Return("failed")
    /\ UNCHANGED <<host, pidfile, vPid, lPid>> /\ MainFrame
-----------------------------------------------------------------------------
(* The teardown goroutine.                                                 *)

\* The goroutine receives from Exit.
TeardownWake ==
    /\ status = "running" /\ exitPc = 0 /\ exitSignal
    /\ exitPc' = 1
    /\ UNCHANGED <<host, pidfile, pc, exitSignal, status, result, vPid, lPid, runs>>

\* SignalAndCleanup(pidFile, _, sig): the process named in the pid file is
\* sent sig and ends, whatever process holds that pid now; the pid file is
\* removed.
SignalAndCleanup(h) ==
    /\ host' = IF pidfile[h] # NoPid THEN [host EXCEPT ![pidfile[h]] = "free"] ELSE host
    /\ pidfile' = [pidfile EXCEPT ![h] = NoPid]

TeardownSignal ==
    /\ status = "running" /\ exitPc \in 1..3
    /\ SignalAndCleanup(TeardownOrder[exitPc])
    /\ exitPc' = exitPc + 1
    /\ UNCHANGED <<pc, exitSignal, status, result, vPid, lPid, runs>>

\* os.Exit(128) ends the process, its main goroutine included.
TeardownExit ==
    /\ status = "running" /\ exitPc = 4
    /\ status' = "exited"
    /\ UNCHANGED <<host, pidfile, pc, exitPc, exitSignal, result, vPid, lPid, runs>>
-----------------------------------------------------------------------------
(* The environment.                                                        *)

\* The user interrupts the current invocation.
Interrupt ==
    /\ status = "running" /\ ~exitSignal
    /\ exitSignal' = TRUE
    /\ UNCHANGED <<host, pidfile, pc, exitPc, status, result, vPid, lPid, runs>>

EnvFrame == UNCHANGED <<pc, exitPc, exitSignal, status, result, vPid, lPid, runs>>

\* A helper process dies on its own; its pid becomes free.
Crash ==
    /\ \E p \in Pids :
         /\ host[p] \in Helpers
         /\ host' = [host EXCEPT ![p] = "free"]
    /\ UNCHANGED pidfile /\ EnvFrame

\* Another process of the user is given a freed pid.
ForeignStart ==
    /\ PidReuse /\ Running("other") = {}
    /\ \E p \in FreePids : host' = [host EXCEPT ![p] = "other"]
    /\ UNCHANGED pidfile /\ EnvFrame

\* A running linuxkit starts its hyperkit and writes hyperkit's pid file.
SpawnHyperkit ==
    /\ Cardinality(Running("hyperkit")) < Cardinality(Running("linuxkit"))
    /\ \E p \in FreePids :
         /\ host' = [host EXCEPT ![p] = "hyperkit"]
         /\ pidfile' = [pidfile EXCEPT !["hyperkit"] = p]
    /\ EnvFrame

\* The user runs `cf dev start' again once the last invocation has ended.
NewRun ==
    /\ status # "running" /\ runs < MaxRuns
    /\ runs' = runs + 1
    /\ pc' = "setup" /\ exitPc' = 0 /\ exitSignal' = FALSE
    /\ status' = "running" /\ result' = "none"
    /\ vPid' = NoPid /\ lPid' = NoPid
    /\ UNCHANGED <<host, pidfile>>

\* Every invocation has ended.
Done ==
    /\ status # "running" /\ runs = MaxRuns
    /\ UNCHANGED vars

MainStep ==
    \/ Setup \/ CheckRunning \/ Prepare \/ StartVpnKit \/ WriteVpnPid
    \/ StartLinuxKit \/ WriteLinuxPid \/ Garden \/ Deploy

TeardownStep == TeardownWake \/ TeardownSignal \/ TeardownExit

Next ==
    \/ MainStep \/ TeardownStep
    \/ Interrupt \/ Crash \/ ForeignStart \/ SpawnHyperkit \/ NewRun \/ Done

\* Both goroutines of a running invocation are scheduled; the user, the
\* helpers' crashes and other processes are not fair.
Spec == Init /\ [][Next]_vars /\ WF_vars(MainStep) /\ WF_vars(TeardownStep)
-----------------------------------------------------------------------------
(* The VM is launched only while VPNKit is recorded in its pid file (the *)
(* spec: the network helper is confirmed started before the VM), unless   *)
(* the teardown has already signalled and removed that pid file.          *)
VpnKitRecordedFirst ==
    [][pc = "startLinuxKit" /\ pc' = "writeLinuxPid" =>
         pidfile["vpnkit"] = vPid \/ exitPc >= 3]_vars

(* The teardown's signals reach only cf dev's helpers: a process of the   *)
(* user that is not one of them is never ended by cf dev.                 *)
NoForeignKill ==
    [][\A p \in Pids : host[p] = "other" => host'[p] = "other"]_vars
=============================================================================
