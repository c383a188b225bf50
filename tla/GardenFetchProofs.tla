-------------------------- MODULE GardenFetchProofs --------------------------
(***************************************************************************)
(* Proofs about the callers of FetchBOSHConfig, for every set of callers.  *)
(***************************************************************************)
EXTENDS GardenFetch, TLAPS

\* The positions between a successful Create and the Destroy call.
Holding == {"run", "wait", "destroy"}

(* The inductive invariant: a caller between its Create and its Destroy   *)
(* owns the container with the fixed handle.                              *)
IInv ==
    /\ TypeOK
    /\ \A i \in Invs : pc[i] \in Holding => handle = i

(* Every step keeps the types of the model.                               *)
LEMMA TypeStep == TypeOK /\ [Next]_vars => TypeOK'
<1> SUFFICES ASSUME TypeOK, [Next]_vars PROVE TypeOK'
  OBVIOUS
<1>1. CASE Finished
  BY <1>1 DEF Finished, TypeOK, vars
<1>2. ASSUME NEW i \in Invs, Step(i) \/ Interrupt(i) PROVE TypeOK'
  BY <1>2 DEF TypeOK, Step, Interrupt, Begin, Create, Run, Wait,
             Destroy, Parse, Prepare, Return, Goto, Pcs, Results
<1>3. CASE UNCHANGED vars
  BY <1>3 DEF TypeOK, vars
<1>4. QED
  BY <1>1, <1>2, <1>3 DEF Next

(* Type correctness of the callers' state and of the handle's owner.      *)
THEOREM FetchTypeCorrect == Spec => []TypeOK
<1>1. Init => TypeOK
  BY DEF Init, TypeOK, Pcs, Results
<1>2. QED
  BY <1>1, TypeStep, PTL DEF Spec

(* A step of caller i leaves every other caller's position alone.        *)
LEMMA OthersStay ==
    ASSUME NEW i \in Invs, TypeOK, Step(i) \/ Interrupt(i)
    PROVE  \A j \in Invs \ {i} : pc'[j] = pc[j]
  BY DEF TypeOK, Step, Interrupt, Begin, Create, Run, Wait, Destroy, Parse,
         Prepare, Return, Goto

(* IInv is preserved: Create takes the handle only when nobody holds it,  *)
(* and only the holder's own Destroy can free it.                         *)
LEMMA IInvStep == IInv /\ [Next]_vars => IInv'
<1> SUFFICES ASSUME IInv, [Next]_vars PROVE IInv'
  OBVIOUS
<1>1. TypeOK'
  BY TypeStep DEF IInv
<1>2. CASE Finished \/ UNCHANGED vars
  BY <1>1, <1>2 DEF Finished, IInv, vars
<1>3. ASSUME NEW i \in Invs, Step(i) \/ Interrupt(i)
      PROVE  \A j \in Invs : pc'[j] \in Holding => handle' = j
  <2> TAKE j \in Invs
  <2> HAVE pc'[j] \in Holding
  <2>1. CASE j # i
    <3>1. pc'[j] = pc[j]
      BY <1>3, <2>1, OthersStay DEF IInv
    <3>2. handle = j
      BY <3>1 DEF IInv
    <3>3. pc[i] \in Holding => handle = i
      BY DEF IInv
    <3>4. handle' = handle
      <4>1. CASE Create(i)
        BY <4>1, <3>2, GardenFetchAssumption DEF Create, Return, Goto
      <4>2. CASE Destroy(i)
        BY <4>2, <2>1, <3>2, <3>3 DEF Destroy, Holding
      <4>3. CASE Begin(i) \/ Run(i) \/ Wait(i) \/ Parse(i) \/ Prepare(i)
                 \/ Interrupt(i)
        BY <4>3 DEF Begin, Run, Wait, Parse, Prepare, Interrupt
      <4>4. QED
        BY <1>3, <4>1, <4>2, <4>3 DEF Step
    <3>5. QED
      BY <3>2, <3>4
  <2>2. CASE j = i
    <3>1. CASE Create(i)
      BY <2>2, <3>1 DEF Create, Return, Goto, Holding, IInv, TypeOK
    <3>2. CASE Run(i) \/ Wait(i)
      BY <2>2, <3>2 DEF Run, Wait, Return, Goto, Holding, IInv, TypeOK
    <3>3. CASE Begin(i) \/ Destroy(i) \/ Parse(i) \/ Prepare(i) \/ Interrupt(i)
      BY <2>2, <3>3 DEF Begin, Destroy, Parse, Prepare, Interrupt, Return,
         Goto, Holding, IInv, TypeOK
    <3>4. QED
      BY <1>3, <3>1, <3>2, <3>3 DEF Step
  <2>3. QED
    BY <2>1, <2>2
<1>4. QED
  BY <1>1, <1>2, <1>3 DEF Next, IInv

(* Garden's unique handle serialises the fetches: FetchExclusive holds    *)
(* for every number of concurrent callers.                                *)
THEOREM FetchExclusiveHolds == Spec => []FetchExclusive
<1>1. Init => IInv
  BY DEF Init, IInv, TypeOK, Pcs, Results, Holding
<1>2. IInv => FetchExclusive
  BY DEF IInv, FetchExclusive, Holding
<1>3. QED
  BY <1>1, <1>2, IInvStep, PTL DEF Spec

-----------------------------------------------------------------------------
(* The strengthening of OkMeansCompleteCreds: a caller that reached        *)
(* env.Prepare, or returned "ok" from it, passed convert() on the one      *)
(* creds.yml every caller reads.                                           *)
CredsInv ==
    /\ TypeOK
    /\ \A i \in Invs : pc[i] = "prepare" \/ result[i] = "ok" => Convert(creds)


LEMMA CredsInvStep == CredsInv /\ [Next]_vars => CredsInv'
<1> SUFFICES ASSUME CredsInv, [Next]_vars PROVE CredsInv'
  OBVIOUS
<1>1. TypeOK'
  BY TypeStep DEF CredsInv
<1>2. CASE Finished \/ UNCHANGED vars
  BY <1>1, <1>2 DEF Finished, CredsInv, vars
<1>3. ASSUME NEW i \in Invs, Step(i) \/ Interrupt(i)
      PROVE  \A j \in Invs : pc'[j] = "prepare" \/ result'[j] = "ok" => Convert(creds')
  <2>1. creds' = creds
    BY <1>3 DEF Step, Interrupt, Begin, Create, Run, Wait, Destroy, Parse, Prepare
  <2> TAKE j \in Invs
  <2> HAVE pc'[j] = "prepare" \/ result'[j] = "ok"
  <2>2. CASE j # i
    <3>1. pc'[j] = pc[j] /\ result'[j] = result[j]
      BY <1>3, <2>2 DEF CredsInv, TypeOK, Step, Interrupt, Begin, Create, Run,
         Wait, Destroy, Parse, Prepare, Return, Goto
    <3>2. QED
      BY <2>1, <3>1 DEF CredsInv
  <2>3. CASE j = i
    \* Only Parse enters "prepare", after convert(); only Prepare returns
    \* "ok", from "prepare"; every other step of i goes elsewhere with
    \* another result.
    <3>1. CASE Parse(i)
      BY <2>1, <2>3, <3>1 DEF Parse, Return, Goto, CredsInv, TypeOK
    <3>2. CASE Prepare(i)
      BY <2>1, <2>3, <3>2 DEF Prepare, Return, Goto, CredsInv, TypeOK
    <3>3. CASE Begin(i) \/ Create(i) \/ Run(i) \/ Wait(i) \/ Destroy(i)
               \/ Interrupt(i)
      BY <2>1, <2>3, <3>3 DEF Begin, Create, Run, Wait, Destroy, Interrupt,
         Return, Goto, CredsInv, TypeOK
    <3>4. QED
      BY <1>3, <3>1, <3>2, <3>3 DEF Step
  <2>4. QED
    BY <2>2, <2>3
<1>4. QED
  BY <1>1, <1>2, <1>3 DEF Next, CredsInv

(* `cf dev bosh env' prints a BOSH environment only from a creds.yml that  *)
(* holds the admin password, the CA certificate and the jumpbox key, for   *)
(* every number of concurrent callers.                                     *)
THEOREM OkMeansCompleteCredsHolds == Spec => []OkMeansCompleteCreds
<1>1. Init => CredsInv
  BY DEF Init, CredsInv, TypeOK, Pcs, Results
<1>2. CredsInv => OkMeansCompleteCreds
  BY DEF CredsInv, OkMeansCompleteCreds, Convert
<1>3. QED
  BY <1>1, <1>2, CredsInvStep, PTL DEF Spec

=============================================================================
