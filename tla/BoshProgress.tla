----------------------------- MODULE BoshProgress -----------------------------
(***************************************************************************)
(* Bosh.VMProgress (bosh/bosh.go): the progress stream of the CF deploy.   *)
(* The caller first spins on FindDeployment("cf") until the director knows *)
(* the deployment, then gets a channel of capacity one that a goroutine    *)
(* fills: every interval it asks the director for the deployment's VMs;    *)
(* while none is listed (or the call fails) and no total is known yet it   *)
(* sends the number of releases instead; once VMs are listed it sends      *)
(* {Total, Done}, where Done counts the VMs running with processes, and    *)
(* closes the channel when Done reaches Total. The director's state is     *)
(* the environment: the deploy creates the deployment and its VMs, and a   *)
(* VM's processes start, stop and restart.                                 *)
(***************************************************************************)
EXTENDS Naturals, Sequences, FiniteSets

CONSTANTS VMs,    \* the VM instances of the cf deployment
          NoMsg   \* "nothing to send"

ASSUME BoshProgressAssumption == IsFiniteSet(VMs)

\* What one VM's VMInfo says: not created yet, listed with no running
\* processes, or ProcessState "running" with at least one process.
VmStates == {"absent", "starting", "running"}

Msgs == [kind : {"releases"}] \cup
        [kind : {"vms"}, total : 0..Cardinality(VMs), done : 0..Cardinality(VMs)]

VARIABLES
    deployed,  \* the director knows the deployment "cf"
    vm,        \* the director's view of each VM
    ppc,       \* the caller and then the goroutine: spinning on FindDeployment,
               \* polling, blocked on the send, or returned after close(ch)
    total,     \* the goroutine's `total'
    outbox,    \* the record the goroutine is sending
    ch,        \* the buffered channel
    closed,    \* close(ch) has run
    sentVms    \* a {Total, Done} record has been sent

vars == <<deployed, vm, ppc, total, outbox, ch, closed, sentVms>>

TypeOK ==
    /\ deployed \in BOOLEAN
    /\ vm \in [VMs -> VmStates]
    /\ ppc \in {"find", "poll", "send", "returned"}
    /\ total \in 0..Cardinality(VMs)
    /\ outbox \in Msgs \cup {NoMsg}
    /\ ch \in Seq(Msgs) /\ Len(ch) <= 1
    /\ closed \in BOOLEAN
    /\ sentVms \in BOOLEAN

\* VMProgress is called before the deploy has created anything.
Init ==
    /\ deployed = FALSE
    /\ vm = [v \in VMs |-> "absent"]
    /\ ppc = "find" /\ total = 0 /\ outbox = NoMsg
    /\ ch = <<>> /\ closed = FALSE /\ sentVms = FALSE

\* The VMs dep.VMInfos() lists, and those it counts as done.
Listed == {v \in VMs : vm[v] # "absent"}
Running == {v \in VMs : vm[v] = "running"}

DirectorFrame == UNCHANGED <<deployed, vm>>

\* The loop `for { dep, err = FindDeployment("cf"); if err == nil break }':
\* no sleep between tries; it leaves once the deployment exists.
FindDeployment ==
    /\ ppc = "find" /\ deployed
    /\ ppc' = "poll"
    /\ UNCHANGED <<total, outbox, ch, closed, sentVms>> /\ DirectorFrame

\* A bug-shaped variant of the empty-or-failed branch without `total == 0'.
PollEmptyAnyTotal ==
    /\ ppc = "poll"
    /\ \/ ppc' = "send" /\ outbox' = [kind |-> "releases"]
       \/ UNCHANGED <<ppc, outbox>>
    /\ UNCHANGED <<total, ch, closed, sentVms>> /\ DirectorFrame

\* VMInfos fails or lists no VM: before any total is known, a successful
\* Releases() call is sent as a releases record; then `continue'.
PollEmpty ==
    /\ ppc = "poll"
    /\ \/ total = 0 /\ ppc' = "send" /\ outbox' = [kind |-> "releases"]
       \/ UNCHANGED <<ppc, outbox>>
    /\ UNCHANGED <<total, ch, closed, sentVms>> /\ DirectorFrame

\* VMInfos lists VMs: total = len(vmInfos), numDone counts the running ones.
PollVMs ==
    /\ ppc = "poll" /\ Listed # {}
    /\ total' = Cardinality(Listed)
    /\ outbox' = [kind |-> "vms", total |-> Cardinality(Listed),
                  done |-> Cardinality(Running)]
    /\ ppc' = "send"
    /\ UNCHANGED <<ch, closed, sentVms>> /\ DirectorFrame

\* A bug-shaped variant of the end test with `>' for `>='.
CompleteStrict(m) == m.kind = "vms" /\ m.done > m.total

\* `if numDone >= len(vmInfos)': the record just sent ends the stream.
Complete(m) == m.kind = "vms" /\ m.done >= m.total

\* `ch <- record' blocks while the buffer is full; after a {Total, Done}
\* record that is complete the goroutine closes the channel and returns.
Send ==
    /\ ppc = "send" /\ Len(ch) < 1
    /\ ch' = Append(ch, outbox)
    /\ sentVms' = (sentVms \/ outbox.kind = "vms")
    /\ IF Complete(outbox)
         THEN ppc' = "returned" /\ closed' = TRUE
         ELSE ppc' = "poll" /\ UNCHANGED closed
    /\ outbox' = NoMsg
    /\ UNCHANGED total /\ DirectorFrame

\* The reader of the channel takes a record.
Receive ==
    /\ ch # <<>>
    /\ ch' = Tail(ch)
    /\ UNCHANGED <<ppc, total, outbox, closed, sentVms>> /\ DirectorFrame

ProgressFrame == UNCHANGED <<ppc, total, outbox, ch, closed, sentVms>>

\* The deploy creates the deployment.
Deploy ==
    /\ ~deployed /\ deployed' = TRUE
    /\ UNCHANGED vm /\ ProgressFrame

\* The director creates a VM, its processes come up, or monit restarts them.
VmStep(v) ==
    /\ deployed
    /\ \/ vm[v] = "absent" /\ vm' = [vm EXCEPT ![v] = "starting"]
       \/ vm[v] = "starting" /\ vm' = [vm EXCEPT ![v] = "running"]
       \/ vm[v] = "running" /\ vm' = [vm EXCEPT ![v] = "starting"]
    /\ UNCHANGED deployed /\ ProgressFrame

Next ==
    \/ FindDeployment \/ PollEmpty \/ PollVMs \/ Send \/ Receive
    \/ Deploy \/ \E v \in VMs : VmStep(v)

\* The goroutine and the reader are scheduled. VMInfos does not fail on
\* every one of infinitely many polls that find VMs listed (strong
\* fairness: a failure sends the goroutine back to sleep, so the call is
\* only ever enabled now and then). Whether the director lists VMs, and
\* their states, are the deploy's business.
Spec ==
    /\ Init /\ [][Next]_vars
    /\ WF_vars(FindDeployment) /\ SF_vars(PollVMs) /\ WF_vars(Send)
    /\ WF_vars(Receive)
-----------------------------------------------------------------------------
(* The stream's order: releases records come only before the VM counts    *)
(* are known; once a {Total, Done} record was sent, none follows.          *)
ReleasesOnlyBeforeTotal ==
    [][Send /\ outbox.kind = "releases" => ~sentVms]_vars

(* A converging deploy ends the stream: once the deployment exists and    *)
(* every VM runs with processes from some point on, the goroutine closes  *)
(* the channel.                                                           *)
ProgressEndsOnConvergence ==
    (<>[](deployed /\ Running = VMs)) => <>closed
=============================================================================
