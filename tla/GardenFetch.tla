----------------------------- MODULE GardenFetch -----------------------------
(***************************************************************************)
(* FetchBOSHConfig (garden/bosh_config.go) as it is driven by `cf dev bosh *)
(* env' (cmd/bosh.go) and by bosh.New (bosh/bosh.go), which may run at the *)
(* same time against the one Garden server of the VM. A fetch creates a    *)
(* container with the fixed handle "fetch-bosh-config", runs `cat' on the  *)
(* director's creds.yml in it, waits for the process, destroys the         *)
(* container, parses the YAML and converts it. Each caller's process has a *)
(* goroutine that calls os.Exit(128) on an interrupt.                      *)
(***************************************************************************)
EXTENDS FiniteSets

CONSTANTS Invs,   \* the concurrent callers of FetchBOSHConfig
          NoInv   \* "no caller": the handle is free or owned by nobody alive

ASSUME GardenFetchAssumption == NoInv \notin Invs

\* The three secrets convert() requires of the parsed creds.yml.
Secrets == {"adminPassword", "caCertificate", "jumpboxKey"}

Pcs == {"idle", "create", "run", "wait", "destroy", "parse", "prepare", "done"}
Results == {"none", "ok", "createFailed", "runFailed", "waitFailed",
            "exitNonZero", "parseFailed", "incomplete", "prepareFailed",
            "interrupted"}

VARIABLES
    pc,       \* where each caller is in RunE / FetchBOSHConfig
    result,   \* what each caller's RunE returned, or how its process ended
    handle,   \* the caller whose Create made the "fetch-bosh-config"
              \* container, NoInv when Garden has no such container
    creds     \* the secrets present in the director's creds.yml

vars == <<pc, result, handle, creds>>

TypeOK ==
    /\ pc \in [Invs -> Pcs]
    /\ result \in [Invs -> Results]
    /\ handle \in Invs \cup {NoInv}
    /\ creds \subseteq Secrets

\* No fetch container exists yet; creds.yml holds any subset of the secrets
\* (the director writes it; an interrupted deploy leaves it partial).
Init ==
    /\ pc = [i \in Invs |-> "idle"]
    /\ result = [i \in Invs |-> "none"]
    /\ handle = NoInv
    /\ creds \in SUBSET Secrets

\* The caller returns from RunE (or from FetchBOSHConfig) with result r.
Return(i, r) ==
    /\ pc' = [pc EXCEPT ![i] = "done"]
    /\ result' = [result EXCEPT ![i] = r]

Goto(i, p) == pc' = [pc EXCEPT ![i] = p] /\ UNCHANGED result

\* RunE starts: the interrupt goroutine is spawned and the client made.
Begin(i) ==
    /\ pc[i] = "idle"
    /\ Goto(i, "create")
    /\ UNCHANGED <<handle, creds>>

\* Mutant: a failed Create is cleaned up with a deferred Destroy of the
\* fixed handle, which removes the container another invocation owns.
CreateDestroyOnFail(i) ==
    /\ pc[i] = "create"
    /\ \/ handle = NoInv /\ handle' = i /\ Goto(i, "run")
       \/ Return(i, "createFailed") /\ handle' = NoInv
    /\ UNCHANGED creds

\* g.Client.Create(containerSpec): Garden refuses a handle that exists; the
\* call may also fail for any other reason. On error the fetch returns.
Create(i) ==
    /\ pc[i] = "create"
    /\ \/ handle = NoInv /\ handle' = i /\ Goto(i, "run")
       \/ Return(i, "createFailed") /\ UNCHANGED handle
    /\ UNCHANGED creds

\* container.Run of `cat creds.yml': on error the fetch returns, and the
\* container it created stays.
Run(i) ==
    /\ pc[i] = "run"
    /\ \/ Goto(i, "wait")
       \/ Return(i, "runFailed")
    /\ UNCHANGED <<handle, creds>>

\* process.Wait: an error, or a non-zero exit status, returns before the
\* Destroy call.
Wait(i) ==
    /\ pc[i] = "wait"
    /\ \/ Goto(i, "destroy")
       \/ Return(i, "waitFailed")
       \/ Return(i, "exitNonZero")
    /\ UNCHANGED <<handle, creds>>

\* g.Client.Destroy("fetch-bosh-config"): by handle; its error is dropped.
Destroy(i) ==
    /\ pc[i] = "destroy"
    /\ \/ handle' = NoInv
       \/ UNCHANGED handle
    /\ Goto(i, "parse")
    /\ UNCHANGED creds

\* A bug-shaped variant of convert() that forgets the jumpbox key check.
ConvertNoKeyCheck(c) == {"adminPassword", "caCertificate"} \subseteq c

\* yamlResponse.convert(): the admin password, the CA certificate and the
\* jumpbox key must each be non-empty.
Convert(c) == Secrets \subseteq c

\* yaml.Unmarshal may fail; otherwise convert() decides. On success RunE
\* goes on to env.Prepare.
Parse(i) ==
    /\ pc[i] = "parse"
    /\ \/ Return(i, "parseFailed")
       \/ Convert(creds) /\ Goto(i, "prepare")
       \/ ~Convert(creds) /\ Return(i, "incomplete")
    /\ UNCHANGED <<handle, creds>>

\* env.Prepare(config) renders the shell script; it may fail.
Prepare(i) ==
    /\ pc[i] = "prepare"
    /\ \/ Return(i, "ok")
       \/ Return(i, "prepareFailed")
    /\ UNCHANGED <<handle, creds>>

\* The interrupt goroutine: <-Exit; os.Exit(128), at any point of the fetch.
Interrupt(i) ==
    /\ pc[i] \notin {"idle", "done"}
    /\ Return(i, "interrupted")
    /\ UNCHANGED <<handle, creds>>

\* Every caller has finished: nothing more happens.
Finished ==
    /\ \A i \in Invs : pc[i] = "done"
    /\ UNCHANGED vars

Step(i) ==
    \/ Begin(i) \/ Create(i) \/ Run(i) \/ Wait(i) \/ Destroy(i)
    \/ Parse(i) \/ Prepare(i)

Next == Finished \/ \E i \in Invs : Step(i) \/ Interrupt(i)

\* Each caller's goroutine is scheduled; the interrupt is the user's choice.
Spec == Init /\ [][Next]_vars /\ \A i \in Invs : WF_vars(Step(i))
-----------------------------------------------------------------------------
(* Garden's unique handles serialise concurrent fetches: at most one      *)
(* caller is between a successful Create and its Destroy, so two callers  *)
(* never read or destroy through the same container at once.              *)
FetchExclusive ==
    \A i, j \in Invs :
        pc[i] \in {"run", "wait", "destroy"} /\ pc[j] \in {"run", "wait", "destroy"}
            => i = j

(* A caller that printed a BOSH environment read all three secrets: the   *)
(* script is never rendered from a creds.yml that lacks one.              *)
OkMeansCompleteCreds ==
    \A i \in Invs : result[i] = "ok" => Secrets \subseteq creds

(* The spec: FetchRuntimeCredentials "must always destroy this container  *)
(* afterward regardless of outcome". The container exists only while the *)
(* caller that created it is still using it.                              *)
NoLeakedFetchContainer ==
    handle # NoInv => pc[handle] \in {"run", "wait", "destroy"}

=============================================================================
