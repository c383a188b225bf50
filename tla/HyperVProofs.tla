------------------------------ MODULE HyperVProofs ------------------------------
(***************************************************************************)
(* Proofs about HyperV, for every set of VM identities and call bound.     *)
(***************************************************************************)
EXTENDS HyperV, TLAPS

USE HyperVAssumption

LEMMA StepPartType == StepPart \in [DOMAIN StepPart -> VmParts]
  BY DEF StepPart, VmParts

LEMMA TypeInit == Init => TypeOK
  BY DEF Init, TypeOK, Calls

LEMMA TypeStep == TypeOK /\ [Next]_vars => TypeOK'
<1> SUFFICES ASSUME TypeOK, [Next]_vars PROVE TypeOK'
  OBVIOUS
<1>1. CASE CreateVM
  <2>1. PICK id \in {x \in VmIds : vm[x] = "absent"}, k \in 1..NoFailure :
               CreateEffect(id, k)
               /\ ret' = [call |-> "create", ok |-> k = NoFailure,
                          made |-> IF k > 1 THEN id ELSE NoVm]
    BY <1>1 DEF CreateVM
  <2>2. {StepPart[j] : j \in {j \in DOMAIN StepPart : j < k}} \subseteq VmParts
    BY StepPartType
  <2>3. vm' \in [VmIds -> {"absent", "off", "running", "removed"}]
    BY <2>1 DEF CreateEffect, TypeOK
  <2>4. parts' \in [VmIds -> SUBSET VmParts]
    BY <2>1, <2>2 DEF CreateEffect, TypeOK
  <2>5. vhd' \in BOOLEAN
    BY <2>1 DEF CreateEffect, TypeOK
  <2>6. ret' \in Calls
    BY <2>1 DEF Calls
  <2>7. calls' \in 0..MaxCalls
    BY <1>1 DEF CreateVM, TypeOK
  <2>8. QED
    BY <2>3, <2>4, <2>5, <2>6, <2>7 DEF TypeOK
<1>2. CASE Start
  BY <1>2 DEF Start, TypeOK, Calls
<1>3. CASE Stop
  BY <1>3 DEF Stop, TypeOK, Calls
<1>4. CASE Finished \/ UNCHANGED vars
  BY <1>4 DEF Finished, vars, TypeOK
<1>5. QED
  BY <1>1, <1>2, <1>3, <1>4 DEF Next

(* Every reachable state of the Hyper-V host and the driver's last call is *)
(* well typed.                                                            *)
THEOREM HyperVTypeCorrect == Spec => []TypeOK
  BY TypeInit, TypeStep, PTL DEF Spec

-----------------------------------------------------------------------------
(* Both properties speak of the last call only, and each call rewrites    *)
(* ret: with TypeOK they are inductive.                                   *)
IInv == TypeOK /\ CreatedComplete /\ StopClears

LEMMA IInvStep == IInv /\ [Next]_vars => IInv'
<1> SUFFICES ASSUME TypeOK, CreatedComplete, StopClears, [Next]_vars PROVE IInv'
  BY DEF IInv
<1>1. TypeOK'
  BY TypeStep
<1>2. CASE CreateVM
  <2>1. PICK id \in {x \in VmIds : vm[x] = "absent"}, k \in 1..NoFailure :
               CreateEffect(id, k)
               /\ ret' = [call |-> "create", ok |-> k = NoFailure,
                          made |-> IF k > 1 THEN id ELSE NoVm]
    BY <1>2 DEF CreateVM
  <2>2. StopClears'
    BY <2>1 DEF StopClears
  <2>3. ASSUME k = NoFailure PROVE CreatedComplete'
    <3>1. ret'.made = id /\ vm'[id] = "off" /\ vhd'
      BY <2>1, <2>3 DEF CreateEffect, NoFailure
    <3>2. id \in Named'
      BY <3>1, <1>1 DEF Named, TypeOK
    <3>3. {j \in DOMAIN StepPart : j < k} = DOMAIN StepPart
      BY <2>3 DEF StepPart, NoFailure
    <3>4. parts'[id] = {StepPart[j] : j \in DOMAIN StepPart}
      <4>1. id \in (IF k > 1 THEN Named \cup {id} ELSE Named)
        BY <2>3 DEF NoFailure
      <4>2. parts'[id] = {} \cup {StepPart[j] : j \in {j \in DOMAIN StepPart : j < k}}
        BY <2>1, <4>1 DEF CreateEffect
      <4>3. QED
        BY <3>3, <4>2
    <3>5. QED
      BY <3>1, <3>2, <3>4 DEF CreatedComplete, VmParts
  <2>4. ASSUME k # NoFailure PROVE CreatedComplete'
    <3>1. ~ret'.ok
      BY <2>1, <2>4
    <3>2. QED
      BY <3>1 DEF CreatedComplete
  <2>5. QED
    BY <1>1, <2>2, <2>3, <2>4 DEF IInv
<1>3. CASE Start
  BY <1>1, <1>3 DEF Start, IInv, CreatedComplete, StopClears
<1>4. CASE Stop
  <2>1. PICK stopOk, removeOk \in BOOLEAN :
          /\ stopOk \/ removeOk => Named # {}
          /\ vm' = [x \in VmIds |->
                      IF x \notin Named THEN vm[x]
                      ELSE IF removeOk THEN "removed"
                      ELSE IF stopOk THEN "off" ELSE vm[x]]
          /\ ret' = [call |-> "stop", ok |-> stopOk /\ removeOk, made |-> NoVm]
    BY <1>4 DEF Stop
  <2>2. CreatedComplete'
    BY <2>1 DEF CreatedComplete
  <2>3. StopClears'
    BY <2>1, <1>1 DEF StopClears, Named, TypeOK
  <2>4. QED
    BY <1>1, <2>2, <2>3 DEF IInv
<1>5. CASE Finished \/ UNCHANGED vars
  BY <1>1, <1>5 DEF Finished, vars, IInv, CreatedComplete, StopClears, Named
<1>6. QED
  BY <1>2, <1>3, <1>4, <1>5 DEF Next

(* A CreateVM that returned nil always leaves a complete VM named cfdev   *)
(* with its disk file, for any earlier sequence of failed calls.          *)
THEOREM CreatedCompleteHolds == Spec => []CreatedComplete
<1>1. Init => IInv
  BY TypeInit DEF Init, IInv, CreatedComplete, StopClears
<1>2. QED
  BY <1>1, IInvStep, PTL DEF Spec, IInv

(* A Stop that returned nil always leaves no VM named cfdev, whatever     *)
(* VMs earlier failed calls left.                                         *)
THEOREM StopClearsHolds == Spec => []StopClears
<1>1. Init => IInv
  BY TypeInit DEF Init, IInv, CreatedComplete, StopClears
<1>2. QED
  BY <1>1, IInvStep, PTL DEF Spec, IInv
=============================================================================
