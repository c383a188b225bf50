------------------------- MODULE BoshProgressProofs -------------------------
(***************************************************************************)
(* Proofs about the VMProgress goroutine, for every finite set of VMs.     *)
(***************************************************************************)
EXTENDS BoshProgress, FiniteSetTheorems, TLAPS

USE BoshProgressAssumption

(* What the goroutine knows of `total': it is a number, it is positive     *)
(* once a VM count was sent or is about to be sent, and it is still 0 when *)
(* a releases record is about to be sent.                                  *)
TotalInv ==
    /\ total \in Nat
    /\ sentVms => total > 0
    /\ ppc = "send" /\ outbox.kind = "releases" => total = 0
    /\ ppc = "send" /\ outbox.kind = "vms" => total > 0

(* len(vmInfos) of a listing that is not empty is a positive number.       *)
LEMMA ListedCount ==
    Listed # {} => Cardinality(Listed) \in Nat /\ Cardinality(Listed) > 0
<1> HAVE Listed # {}
<1>1. IsFiniteSet(Listed)
  BY FS_Subset DEF Listed
<1>2. Cardinality(Listed) \in Nat
  BY <1>1, FS_CardinalityType
<1>3. Cardinality(Listed) # 0
  BY <1>1, FS_EmptySet
<1>4. QED
  BY <1>2, <1>3

LEMMA TotalInvInit == Init => TotalInv
  BY DEF Init, TotalInv

LEMMA TotalInvStep == TotalInv /\ [Next]_vars => TotalInv'
<1> SUFFICES ASSUME TotalInv, [Next]_vars PROVE TotalInv'
  OBVIOUS
<1>1. CASE FindDeployment
  BY <1>1 DEF FindDeployment, TotalInv
<1>2. CASE PollEmpty
  BY <1>2 DEF PollEmpty, TotalInv
<1>3. CASE PollVMs
  BY <1>3, ListedCount DEF PollVMs, TotalInv
<1>4. CASE Send
  BY <1>4 DEF Send, TotalInv
<1>5. CASE Receive \/ Deploy \/ \E v \in VMs : VmStep(v)
  BY <1>5 DEF Receive, Deploy, VmStep, ProgressFrame, TotalInv
<1>6. CASE UNCHANGED vars
  BY <1>6 DEF vars, TotalInv
<1>7. QED
  BY <1>1, <1>2, <1>3, <1>4, <1>5, <1>6 DEF Next

(* The progress stream never sends a releases record after a {Total, Done} *)
(* record, for every finite set of VMs: releases go out only while total   *)
(* is 0, and a VM count makes total positive for good.                     *)
THEOREM ReleasesOnlyBeforeTotalHolds == Spec => ReleasesOnlyBeforeTotal
<1>1. TotalInv => (Send /\ outbox.kind = "releases" => ~sentVms)
  BY DEF TotalInv, Send
<1>2. QED
  BY <1>1, TotalInvInit, TotalInvStep, PTL DEF Spec, ReleasesOnlyBeforeTotal

-----------------------------------------------------------------------------
(* TypeOK needs one more fact to be inductive: the goroutine blocks on the *)
(* send only with a record in hand.                                        *)
TInv ==
    /\ TypeOK
    /\ ppc = "send" => outbox \in Msgs

(* A count of VMs the director lists, or of those it lists as running, is  *)
(* at most the number of VMs.                                              *)
LEMMA CountBound ==
    ASSUME NEW S \in SUBSET VMs
    PROVE  Cardinality(S) \in 0..Cardinality(VMs)
<1>1. IsFiniteSet(S) /\ Cardinality(S) <= Cardinality(VMs)
  BY FS_Subset
<1>2. Cardinality(S) \in Nat
  BY <1>1, FS_CardinalityType
<1>3. QED
  BY <1>1, <1>2

LEMMA TInvStep == TInv /\ [Next]_vars => TInv'
<1> SUFFICES ASSUME TInv, [Next]_vars PROVE TInv'
  OBVIOUS
<1>1. CASE FindDeployment
  BY <1>1 DEF FindDeployment, DirectorFrame, TInv, TypeOK
<1>2. CASE PollEmpty
  BY <1>2 DEF PollEmpty, DirectorFrame, TInv, TypeOK, Msgs
<1>3. CASE PollVMs
  <2>1. Cardinality(Listed) \in 0..Cardinality(VMs)
        /\ Cardinality(Running) \in 0..Cardinality(VMs)
    BY CountBound DEF Listed, Running
  <2>2. outbox' \in Msgs
    BY <1>3, <2>1 DEF PollVMs, Msgs
  <2>3. QED
    BY <1>3, <2>1, <2>2 DEF PollVMs, DirectorFrame, TInv, TypeOK
<1>4. CASE Send
  <2>1. outbox \in Msgs /\ Len(ch) = 0 /\ ch \in Seq(Msgs)
    BY <1>4 DEF Send, TInv, TypeOK
  <2>2. ch' \in Seq(Msgs) /\ Len(ch') <= 1
    BY <1>4, <2>1 DEF Send
  <2>3. QED
    BY <1>4, <2>2 DEF Send, DirectorFrame, TInv, TypeOK
<1>5. CASE Receive
  <2>1. ch' \in Seq(Msgs) /\ Len(ch') <= 1
    BY <1>5 DEF Receive, TInv, TypeOK
  <2>2. QED
    BY <1>5, <2>1 DEF Receive, DirectorFrame, TInv, TypeOK
<1>6. CASE Deploy
  BY <1>6 DEF Deploy, ProgressFrame, TInv, TypeOK
<1>7. CASE \E v \in VMs : VmStep(v)
  BY <1>7 DEF VmStep, ProgressFrame, TInv, TypeOK, VmStates
<1>8. CASE UNCHANGED vars
  BY <1>8 DEF vars, TInv, TypeOK
<1>9. QED
  BY <1>1, <1>2, <1>3, <1>4, <1>5, <1>6, <1>7, <1>8 DEF Next

(* Every reachable state of the progress goroutine, its channel and the    *)
(* director is well typed, for every finite set of VMs; in particular the  *)
(* channel never holds more than its capacity of one record.               *)
THEOREM ProgressTypeCorrect == Spec => []TypeOK
<1>1. Init => TInv
  <2>1. Cardinality(VMs) \in Nat
    BY FS_CardinalityType
  <2>2. Init => total \in 0..Cardinality(VMs) /\ outbox \in Msgs \cup {NoMsg}
    BY <2>1 DEF Init
  <2>3. Init => ch \in Seq(Msgs) /\ Len(ch) <= 1
    BY DEF Init
  <2>4. Init => vm \in [VMs -> VmStates] /\ ppc \in {"find", "poll", "send", "returned"}
    BY DEF Init, VmStates
  <2>5. QED
    BY <2>2, <2>3, <2>4 DEF Init, TInv, TypeOK
<1>2. QED
  BY <1>1, TInvStep, PTL DEF Spec, TInv

=============================================================================
