-------------------------- MODULE LegacyStartProofs --------------------------
(***************************************************************************)
(* Proofs about the pid-file start of cfdev/cmd/start.go, for every set of *)
(* pids and every number of invocations.                                   *)
(***************************************************************************)
EXTENDS LegacyStart, TLAPS

\* TypeOK without the Boolean flag: the SMT backend proves the two parts
\* apart, and Zenon puts them together.
TypeRest ==
    /\ host \in [Pids -> Holders]
    /\ pidfile \in [Helpers -> PidOrNone]
    /\ pc \in Pcs
    /\ exitPc \in 0..4
    /\ status \in {"running", "returned", "exited"}
    /\ result \in Results
    /\ vPid \in PidOrNone /\ lPid \in PidOrNone
    /\ runs \in 1..MaxRuns

LEMMA TypeSplit == TypeOK <=> TypeRest /\ exitSignal \in BOOLEAN
  BY Zenon DEF TypeOK, TypeRest

LEMMA TypeInit == Init => TypeOK
<1>1. Init => TypeRest
  BY LegacyStartAssumption DEF Init, TypeRest, PidOrNone, NoPid, Pcs, Results, Holders
<1>2. Init => exitSignal \in BOOLEAN
  BY DEF Init
<1>3. QED
  BY <1>1, <1>2, TypeSplit

(* Every step of the two goroutines and of the environment keeps the      *)
(* types: one case per group of actions.                                  *)
LEMMA TypeStep == TypeOK /\ [Next]_vars => TypeOK'
<1> SUFFICES ASSUME TypeOK, [Next]_vars PROVE TypeRest' /\ (exitSignal \in BOOLEAN)'
  BY Zenon DEF TypeOK, TypeRest
<1> USE LegacyStartAssumption DEF TypeOK, TypeRest, Pcs, Results, PidOrNone, NoPid,
        Helpers, Holders
<1>1. CASE Setup \/ CheckRunning \/ Garden \/ Deploy
  BY <1>1 DEF Setup, CheckRunning, Garden, Deploy, Main, Return, Goto, MainFrame
<1>2. CASE Prepare
  BY <1>2 DEF Prepare, CleanupStateDir, Main, Return, Goto, MainFrame
<1>3. CASE StartVpnKit \/ StartLinuxKit
  BY <1>3 DEF StartVpnKit, StartLinuxKit, StartHelper, FreePids, Main, Return,
             Goto, MainFrame
<1>4. CASE WriteVpnPid \/ WriteLinuxPid
  BY <1>4 DEF WriteVpnPid, WriteLinuxPid, WritePid, Main, Return, Goto, MainFrame
<1>5. CASE TeardownWake \/ TeardownExit
  BY <1>5 DEF TeardownWake, TeardownExit
<1>6. CASE TeardownSignal
  <2>1. TeardownOrder[exitPc] \in Helpers
    BY <1>6 DEF TeardownSignal, TeardownOrder
  <2>2. QED
    BY <1>6, <2>1 DEF TeardownSignal, SignalAndCleanup
<1>7. CASE Interrupt
  BY <1>7 DEF Interrupt
<1>8. CASE Crash \/ ForeignStart
  BY <1>8 DEF Crash, ForeignStart, FreePids, EnvFrame
<1>9. CASE SpawnHyperkit
  BY <1>9 DEF SpawnHyperkit, FreePids, EnvFrame
<1>10. CASE NewRun
  <2>1. TypeRest'
    BY <1>10 DEF NewRun
  <2>2. (exitSignal \in BOOLEAN)'
    BY <1>10 DEF NewRun
  <2>3. QED
    BY <2>1, <2>2
<1>11. CASE Done \/ UNCHANGED vars
  BY <1>11 DEF Done, vars
<1>12. QED
  BY <1>1, <1>2, <1>3, <1>4, <1>5, <1>6, <1>7, <1>8, <1>9, <1>10, <1>11
  DEF Next, MainStep, TeardownStep

(* The state of the host, the pid files and both goroutines keep their    *)
(* types for every set of pids and every number of invocations.           *)
THEOREM LegacyTypeCorrect == Spec => []TypeOK
  BY TypeInit, TypeStep, PTL DEF Spec

(* While the main goroutine is about to launch the VM, VPNKit's pid file   *)
(* names the VPNKit this invocation started, or the teardown has already   *)
(* passed its SignalAndCleanup of that file.                              *)
VInv == pc = "startLinuxKit" => pidfile["vpnkit"] = vPid \/ exitPc >= 3

IInv == TypeOK /\ VInv

LEMMA VInvStep == IInv /\ [Next]_vars => VInv'
<1> SUFFICES ASSUME IInv, [Next]_vars PROVE VInv'
  OBVIOUS
<1>0. VInv /\ TypeOK
  BY DEF IInv
<1>1. CASE Setup \/ CheckRunning \/ Prepare \/ StartVpnKit \/ WriteLinuxPid
             \/ Garden \/ Deploy \/ NewRun
  BY <1>1 DEF VInv, Setup, CheckRunning, Prepare, StartVpnKit, StartHelper,
     WriteLinuxPid, WritePid, Garden, Deploy, NewRun, Main, Return, Goto
<1>2. CASE WriteVpnPid
  BY <1>2, <1>0 DEF VInv, WriteVpnPid, WritePid, Main, Return, Goto, TypeOK, Helpers
<1>3. CASE StartLinuxKit
  BY <1>3 DEF VInv, StartLinuxKit, StartHelper, Main, Return, Goto
<1>4. CASE TeardownWake \/ TeardownExit \/ Interrupt \/ Crash \/ ForeignStart
  BY <1>4, <1>0 DEF VInv, TeardownWake, TeardownExit, Interrupt, Crash,
     ForeignStart, EnvFrame
<1>5. CASE SpawnHyperkit
  BY <1>5, <1>0 DEF VInv, SpawnHyperkit, EnvFrame, TypeOK, Helpers
<1>6. CASE TeardownSignal
  <2>1. CASE exitPc = 2
    BY <1>6, <2>1, <1>0 DEF VInv, TeardownSignal, TypeOK
  <2>2. CASE exitPc \in {1, 3}
    <3>1. TeardownOrder[exitPc] # "vpnkit"
      BY <2>2 DEF TeardownOrder
    <3>2. QED
      BY <1>6, <1>0, <3>1, <2>2 DEF VInv, TeardownSignal, SignalAndCleanup,
         TypeOK, Helpers
  <2>3. QED
    BY <2>1, <2>2, <1>6 DEF TeardownSignal
<1>7. CASE Done \/ UNCHANGED vars
  BY <1>7, <1>0 DEF VInv, Done, vars
<1>8. QED
  BY <1>1, <1>2, <1>3, <1>4, <1>5, <1>6, <1>7 DEF Next, MainStep, TeardownStep

(* The VM is launched only while VPNKit is recorded in its pid file, or   *)
(* after the teardown has signalled it: VpnKitRecordedFirst, for every    *)
(* set of pids and every number of invocations.                           *)
THEOREM VpnKitRecordedFirstHolds == Spec => VpnKitRecordedFirst
<1>1. Init => IInv
  BY TypeInit DEF Init, IInv, VInv
<1>2. IInv /\ [Next]_vars => IInv'
  BY TypeStep, VInvStep DEF IInv
<1>3. IInv /\ [Next]_vars =>
        [pc = "startLinuxKit" /\ pc' = "writeLinuxPid" =>
           pidfile["vpnkit"] = vPid \/ exitPc >= 3]_vars
  BY DEF IInv, VInv
<1>4. QED
  BY <1>1, <1>2, <1>3, PTL DEF Spec, VpnKitRecordedFirst
=============================================================================
