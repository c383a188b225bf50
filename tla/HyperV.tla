-------------------------------- MODULE HyperV --------------------------------
(***************************************************************************)
(* The Windows hypervisor driver HyperV (process/hyperv.go). CreateVM runs *)
(* ten powershell commands in order and returns at the first that fails;   *)
(* Start runs Start-VM; Stop runs Stop-VM and then Remove-VM whatever the  *)
(* first did, and returns the last error. Every cmdlet addresses the VM by *)
(* its name "cfdev", so it acts on every VM of that name (Hyper-V lets     *)
(* New-VM create a VM whose name is taken). The callers are not in the     *)
(* sources: any sequence of calls is allowed, up to a bound.               *)
(***************************************************************************)
EXTENDS Naturals, FiniteSets

CONSTANTS VmIds,     \* the identities New-VM can give a VM
          NoVm,      \* "no VM was created"
          MaxCalls   \* calls of CreateVM, Start and Stop in a behaviour

ASSUME HyperVAssumption == NoVm \notin VmIds /\ MaxCalls \in Nat

\* What each configuring cmdlet of CreateVM adds to the VMs named "cfdev",
\* in the order of the code; step 1 is New-VM, steps 6 and 7 are the
\* removal and creation of cfdev.vhd.
StepPart == [j \in {2, 3, 4, 5, 8, 9, 10} |->
                CASE j = 2 -> "settings" [] j = 3 -> "efiIso" [] j = 4 -> "depsIso"
                  [] j = 5 -> "noAdapter" [] j = 8 -> "disk" [] j = 9 -> "firmware"
                  [] j = 10 -> "comPort"]
VmParts == {StepPart[j] : j \in DOMAIN StepPart}
NoFailure == 11

VARIABLES
    vm,      \* each VM's state on the Hyper-V host
    parts,   \* what each VM has been given
    vhd,     \* the file cfdev.vhd exists
    ret,     \* the last call: which, whether it returned nil, the VM it made
    calls    \* calls made so far

vars == <<vm, parts, vhd, ret, calls>>

Calls == [call : {"none", "create", "start", "stop"}, ok : BOOLEAN, made : VmIds \cup {NoVm}]

TypeOK ==
    /\ vm \in [VmIds -> {"absent", "off", "running", "removed"}]
    /\ parts \in [VmIds -> SUBSET VmParts]
    /\ vhd \in BOOLEAN
    /\ ret \in Calls
    /\ calls \in 0..MaxCalls

\* A host without a cfdev VM; cfdev.vhd may be left from an earlier run.
Init ==
    /\ vm = [x \in VmIds |-> "absent"]
    /\ parts = [x \in VmIds |-> {}]
    /\ vhd \in BOOLEAN
    /\ ret = [call |-> "none", ok |-> TRUE, made |-> NoVm]
    /\ calls = 0

\* The VMs a -Name "cfdev" or -VMName "cfdev" cmdlet acts on.
Named == {x \in VmIds : vm[x] \in {"off", "running"}}

\* The effect of CreateVM on the host when step k is the first that fails
\* (k = NoFailure: none fails) and New-VM gave the VM id.
CreateEffect(id, k) ==
    LET named == IF k > 1 THEN Named \cup {id} ELSE Named
        added == {StepPart[j] : j \in {j \in DOMAIN StepPart : j < k}}
    IN  /\ vm' = [x \in VmIds |-> IF x = id /\ k > 1 THEN "off" ELSE vm[x]]
        /\ parts' = [x \in VmIds |->
                        IF x \in named
                          THEN (IF x = id THEN {} ELSE parts[x]) \cup added
                          ELSE parts[x]]
        /\ vhd' = IF k > 7 THEN TRUE ELSE IF k = 7 THEN FALSE ELSE vhd

\* A bug-shaped variant that ignores the error of Set-VMComPort.
CreateVMNoComPortCheck ==
    /\ calls < MaxCalls
    /\ \E id \in {x \in VmIds : vm[x] = "absent"}, k \in 1..NoFailure :
         /\ k = 6 => vhd
         /\ CreateEffect(id, k)
         /\ ret' = [call |-> "create", ok |-> k >= 10,
                    made |-> IF k > 1 THEN id ELSE NoVm]
    /\ calls' = calls + 1

\* CreateVM: New-VM, Set-VM, two addVhdDrive calls, Remove-VMNetworkAdapter,
\* os.RemoveAll of an existing cfdev.vhd, New-VHD, Add-VMHardDiskDrive,
\* Set-VMFirmware, Set-VMComPort; the first error is returned and what the
\* earlier steps did stays. Step 6 can fail only when the file exists.
CreateVM ==
    /\ calls < MaxCalls
    /\ \E id \in {x \in VmIds : vm[x] = "absent"}, k \in 1..NoFailure :
         /\ k = 6 => vhd
         /\ CreateEffect(id, k)
         /\ ret' = [call |-> "create", ok |-> k = NoFailure,
                    made |-> IF k > 1 THEN id ELSE NoVm]
    /\ calls' = calls + 1

\* Start-VM -Name cfdev: fails when no VM has the name; may start some of
\* them and fail on another.
Start ==
    /\ calls < MaxCalls
    /\ \E started \in SUBSET Named, ok \in BOOLEAN :
         /\ ok => started = Named /\ Named # {}
         /\ vm' = [x \in VmIds |-> IF x \in started THEN "running" ELSE vm[x]]
         /\ ret' = [call |-> "start", ok |-> ok, made |-> NoVm]
    /\ calls' = calls + 1
    /\ UNCHANGED <<parts, vhd>>

\* A bug-shaped variant of Stop that keeps only Stop-VM's error.
StopKeepFirstError ==
    /\ calls < MaxCalls
    /\ \E stopOk, removeOk \in BOOLEAN :
         /\ stopOk \/ removeOk => Named # {}
         /\ vm' = [x \in VmIds |->
                     IF x \notin Named THEN vm[x]
                     ELSE IF removeOk THEN "removed"
                     ELSE IF stopOk THEN "off" ELSE vm[x]]
         /\ ret' = [call |-> "stop", ok |-> stopOk, made |-> NoVm]
    /\ calls' = calls + 1
    /\ UNCHANGED <<parts, vhd>>

\* Stop: Stop-VM -Turnoff, then Remove-VM -Force even if Stop-VM failed;
\* reterr is the last error. Both fail when no VM has the name.
Stop ==
    /\ calls < MaxCalls
    /\ \E stopOk, removeOk \in BOOLEAN :
         /\ stopOk \/ removeOk => Named # {}
         /\ vm' = [x \in VmIds |->
                     IF x \notin Named THEN vm[x]
                     ELSE IF removeOk THEN "removed"
                     ELSE IF stopOk THEN "off" ELSE vm[x]]
         /\ ret' = [call |-> "stop", ok |-> stopOk /\ removeOk, made |-> NoVm]
    /\ calls' = calls + 1
    /\ UNCHANGED <<parts, vhd>>

\* The callers have made all their calls.
Finished ==
    /\ calls = MaxCalls
    /\ UNCHANGED vars

Next == CreateVM \/ Start \/ Stop \/ Finished

Spec == Init /\ [][Next]_vars
-----------------------------------------------------------------------------
(* A CreateVM that returned nil made a VM named cfdev that has been given *)
(* every part of its configuration, its disk file included, even when an  *)
(* earlier failed CreateVM left a VM of the same name.                    *)
CreatedComplete ==
    ret.call = "create" /\ ret.ok =>
        /\ ret.made \in Named
        /\ parts[ret.made] = VmParts
        /\ vhd

(* A Stop that returned nil left no VM named cfdev on the host: neither   *)
(* the one it was meant for nor one that an earlier failed CreateVM left. *)
StopClears ==
    ret.call = "stop" /\ ret.ok => Named = {}
=============================================================================
