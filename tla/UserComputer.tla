--------------------------- MODULE UserComputer ----------------------------
(***************************************************************************)
(* The Computer of one user: the row of `sandboxes`, the machines of the   *)
(* provider, and the goroutines of the API replicas that create, resume,   *)
(* suspend and watch it.                                                   *)
(*                                                                         *)
(* ensureComputer is one transaction under the lease of the user, with the *)
(* calls to the provider inside; a crash or a failed commit forgets what   *)
(* it wrote and keeps what the provider did.  SuspendIdle, the monitor and *)
(* the status page act on what they read earlier, without the lease.       *)
(*                                                                         *)
(* Source: backend/internal/conversation/service.go,                       *)
(* backend/internal/sandbox (client.go, service.go, docker.go, acs.go).    *)
(***************************************************************************)
EXTENDS Integers, FiniteSetsExt

CONSTANTS
    ApiReplicas,        \* processes that share the database
    Monitors,           \* those whose background loops are followed
    MaxMachines,        \* bound: machines an ACS account creates for the user
    MaxComputerFaults   \* bound: failures of the provider, the database, the replicas

ASSUME ComputerConstants ==
    /\ MaxMachines \in Nat \ {0} /\ MaxComputerFaults \in Nat
    /\ "nobody" \notin ApiReplicas

VARIABLES
    provider,       \* "docker" or "acs"
    machines,       \* state of each machine at the provider
    computerRow,    \* sandboxes: reference and status as committed, or NoComputer
    lease,          \* replica whose transaction holds the advisory lock of the user, or NoLease
    ensuring,       \* per replica, a run or a request that needs the Computer
    suspending,     \* per monitor, the pass of SuspendIdle
    inspection,     \* per monitor, a status read and not yet written
    unfenced,       \* creations that took, or may still take, effect outside the lease
    inFlight,       \* of these, the requests the provider may still carry out
    files,          \* the machine the user last worked in, or NoMachine
    computerFaults

computerVars == <<provider, machines, computerRow, lease, ensuring, suspending,
                   inspection, unfenced, inFlight, files, computerFaults>>

Logical    == 0       \* the reference before the provider has given one; Docker's for ever
NoMachine  == -1
NoLease    == "nobody"
NoComputer == [ref |-> NoMachine, status |-> "not_created"]
Free       == [at |-> "idle", run |-> FALSE, ref |-> NoMachine, leased |-> FALSE]
Awake      == [at |-> "idle", ref |-> NoMachine]
Nothing    == [at |-> "idle", status |-> "error"]

Live == {i \in 0..MaxMachines : machines[i] \in {"running", "suspended"}}
ActiveWork == \E r \in ApiReplicas : ensuring[r].run

ComputerTypeOK ==
    /\ machines \in [0..MaxMachines -> {"missing", "running", "suspended", "unhealthy"}]
    /\ computerRow.ref \in NoMachine..MaxMachines
    /\ lease \in ApiReplicas \cup {NoLease}
    /\ \A r \in ApiReplicas :
           /\ ensuring[r].at \in {"idle", "wanted", "inspect", "recover", "create", "prepare",
                                  "using", "background"}
           /\ ensuring[r].leased <=> lease = r
    /\ \A m \in Monitors : suspending[m].at \in {"idle", "chosen", "write"}
    /\ inFlight \in 0..unfenced
    /\ files \in NoMachine..MaxMachines

ComputerInit ==
    /\ provider \in {"docker", "acs"}
    /\ machines = [i \in 0..MaxMachines |-> "missing"]
    /\ computerRow = NoComputer
    /\ lease = NoLease
    /\ ensuring = [r \in ApiReplicas |-> Free]
    /\ suspending = [m \in Monitors |-> Awake]
    /\ inspection = [m \in Monitors |-> Nothing]
    /\ unfenced = 0 /\ inFlight = 0
    /\ files = NoMachine
    /\ computerFaults = 0

ComputerFault == computerFaults < MaxComputerFaults /\ computerFaults' = computerFaults + 1

-----------------------------------------------------------------------------
\* The provider, behind the sandbox service.

\* What the service routes besides Create, Inspect and the use of a machine.
Actions == {"start", "suspend", "resume"}

\* Inspect: a reference the provider does not know is "missing", no error.
Seen(ref) == machines[ref]

\* A stopped container is no place to execute; ACS wakes a paused machine for every call.
Usable(ref) == Seen(ref) = "running" \/ (provider = "acs" /\ Seen(ref) = "suspended")

\* Suspending what is suspended already is no error.
Pausable(ref) == Seen(ref) \in {"running", "suspended"}

\* Docker makes the container of the logical id, or finds it by its name, and starts it.
Containers == IF provider = "docker" THEN {Logical} ELSE {}

\* ACS is asked for the running or paused machines of the logical id: the newest is taken.
Found == Containers \cup (IF provider = "acs" /\ Live # {} THEN {Max(Live)} ELSE {})

\* The next machine ACS would make.
Unused == {i \in 1..MaxMachines : \A j \in i..MaxMachines : machines[j] = "missing" /\ j > files}
Started(i) == machines' = [machines EXCEPT ![i] = "running"]

\* A machine stops, fails its health check, or is lost.
MachineChanges(i) ==
    /\ ComputerFault
    /\ \E state \in {"suspended", "unhealthy", "missing"} :
           /\ machines[i] = "running" /\ machines' = [machines EXCEPT ![i] = state]
    /\ UNCHANGED <<provider, computerRow, lease, ensuring, suspending,
                   inspection, unfenced, inFlight, files>>

\* ACS carries out a creation whose request was given up.
LandCreate ==
    /\ inFlight > 0 /\ inFlight' = inFlight - 1
    /\ Unused # {} /\ Started(Min(Unused))
    /\ UNCHANGED <<provider, computerRow, lease, ensuring, suspending,
                   inspection, unfenced, files, computerFaults>>

-----------------------------------------------------------------------------
\* ensureComputer.

Move(r, phase, ref) == ensuring' = [ensuring EXCEPT ![r].at = phase, ![r].ref = ref]

\* The transaction ends with the row it wrote; without its session nothing is stored.
EndEnsure(r, next, status, ref) ==
    /\ ensuring' = [ensuring EXCEPT ![r] = [@ EXCEPT !.at = next, !.ref = ref, !.leased = FALSE]]
    /\ IF ensuring[r].leased
       THEN lease' = NoLease /\ computerRow' = [ref |-> ref, status |-> status]
       ELSE UNCHANGED <<lease, computerRow>>

\* A failure is stored as 'error' with the reference known by then; the run fails.
Refuse(r) ==
    /\ EndEnsure(r, "idle", "error", ensuring[r].ref)

\* A run is accepted, or a client opens files or a terminal.
WantComputer(r) ==
    /\ ensuring[r].at = "idle"
    /\ \E run \in BOOLEAN : ensuring' = [ensuring EXCEPT ![r] = [Free EXCEPT !.at = "wanted", !.run = run]]
    /\ UNCHANGED <<provider, machines, computerRow, lease, suspending,
                   inspection, unfenced, inFlight, files, computerFaults>>

LeaseFree_PerProcess == TRUE \* mutant: only the mutex of the process
LeaseFree == lease = NoLease

\* The lease, then the row, made if there is none.
TakeLease(r) ==
    /\ ensuring[r].at = "wanted"
    /\ LeaseFree
    /\ lease' = r
    /\ ensuring' = [ensuring EXCEPT ![r] = [@ EXCEPT !.at = "inspect", !.leased = TRUE,
                       !.ref = IF computerRow = NoComputer THEN Logical ELSE computerRow.ref]]
    /\ UNCHANGED <<provider, machines, computerRow, suspending, inspection,
                   unfenced, inFlight, files, computerFaults>>

\* What the provider says decides: ready, to be made, to be resumed, or refused.  An unhealthy
\* machine is to be destroyed and made again, which fails: POST .../destroy has no route.
InspectComputer(r) ==
    LET seen == Seen(ensuring[r].ref)
    IN  /\ ensuring[r].at = "inspect"
        /\ CASE seen = "running"   -> Move(r, "prepare", ensuring[r].ref) /\ UNCHANGED <<lease, computerRow>>
             [] seen = "unhealthy" /\ "destroy" \notin Actions -> Refuse(r)
             [] OTHER              -> Move(r, "recover", ensuring[r].ref) /\ UNCHANGED <<lease, computerRow>>
        /\ UNCHANGED <<provider, machines, suspending, inspection, unfenced,
                       inFlight, files, computerFaults>>

\* Resume, or look for a machine to create; the state is what it is by now.
RecoverComputer(r) ==
    LET ref == ensuring[r].ref
    IN  /\ ensuring[r].at = "recover"
        /\ \/ Seen(ref) = "suspended" /\ Started(ref) /\ Move(r, "prepare", ref)
           \/ Seen(ref) = "running" /\ Move(r, "prepare", ref) /\ UNCHANGED machines
           \/ /\ Seen(ref) = "missing"
              /\ \/ \E m \in Found : Started(m) /\ Move(r, "prepare", m)
                 \/ Found = {} /\ Move(r, "create", ref) /\ UNCHANGED machines
        /\ UNCHANGED <<provider, computerRow, lease, suspending, inspection,
                       unfenced, inFlight, files, computerFaults>>

CreateMachine(r) ==
    /\ ensuring[r].at = "create"
    /\ Unused # {} /\ Started(Min(Unused))
    /\ Move(r, "prepare", Min(Unused))
    /\ unfenced' = IF ensuring[r].leased THEN unfenced ELSE unfenced + 1
    /\ UNCHANGED <<provider, computerRow, lease, suspending, inspection,
                   inFlight, files, computerFaults>>

\* `true` is executed in the directory of the conversation: ACS wakes a paused machine, Docker
\* refuses a stopped one.  Then the row is committed with the reference.
PrepareComputer(r) ==
    LET ref == ensuring[r].ref
    IN  /\ ensuring[r].at = "prepare"
        /\ IF Usable(ref)
           THEN /\ Started(ref)
                /\ EndEnsure(r, IF ensuring[r].leased THEN "using" ELSE "idle", "running", ref)
                /\ files' = IF ensuring[r].leased THEN ref ELSE files
           ELSE Refuse(r) /\ UNCHANGED <<machines, files>>
        /\ UNCHANGED <<provider, suspending, inspection, unfenced, inFlight, computerFaults>>

\* A call fails, or its response is lost.  The creation may still be carried out.
CallFails(r) ==
    /\ ComputerFault
    /\ ensuring[r].at \in {"inspect", "recover", "create", "prepare"}
    /\ Refuse(r)
    /\ IF ensuring[r].at = "create"
       THEN unfenced' = unfenced + 1 /\ inFlight' = inFlight + 1
       ELSE UNCHANGED <<unfenced, inFlight>>
    /\ UNCHANGED <<provider, machines, suspending, inspection, files>>

\* The session of the transaction drops: the lease is free, the goroutine goes on.
LoseLease(r) ==
    /\ ComputerFault
    /\ lease = r
    /\ lease' = NoLease
    /\ ensuring' = [ensuring EXCEPT ![r].leased = FALSE]
    /\ UNCHANGED <<provider, machines, computerRow, suspending, inspection,
                   unfenced, inFlight, files>>

\* The replica ends with everything it was doing.
LoseReplica(r) ==
    /\ ComputerFault
    /\ ensuring[r].at # "idle"
    /\ ensuring' = [ensuring EXCEPT ![r] = Free]
    /\ lease' = IF lease = r THEN NoLease ELSE lease
    /\ suspending' = [m \in Monitors |-> IF m = r THEN Awake ELSE suspending[m]]
    /\ inspection' = [m \in Monitors |-> IF m = r THEN Nothing ELSE inspection[m]]
    /\ IF ensuring[r].at = "create"
       THEN unfenced' = unfenced + 1 /\ inFlight' = inFlight + 1
       ELSE UNCHANGED <<unfenced, inFlight>>
    /\ UNCHANGED <<provider, machines, computerRow, files>>

\* The run or the request ends; a run may leave active work behind: a command task, a queued
\* input.
ReleaseComputer(r) ==
    /\ ensuring[r].at = "using"
    /\ \/ ensuring' = [ensuring EXCEPT ![r] = Free]
       \/ ensuring[r].run /\ Move(r, "background", NoMachine)
    /\ UNCHANGED <<provider, machines, computerRow, lease, suspending, inspection, unfenced,
                   inFlight, files, computerFaults>>

BackgroundEnds(r) ==
    /\ ensuring[r].at = "background"
    /\ ensuring' = [ensuring EXCEPT ![r] = Free]
    /\ UNCHANGED <<provider, machines, computerRow, lease, suspending, inspection, unfenced,
                   inFlight, files, computerFaults>>

-----------------------------------------------------------------------------
\* SuspendIdle, MonitorSandboxes and ComputerStatus.

\* The query: nothing active, and none for 30 minutes (time is not modelled: they may be over).
SelectIdle(m) ==
    /\ suspending[m].at = "idle"
    /\ computerRow.status = "running" /\ ~ActiveWork
    /\ suspending' = [suspending EXCEPT ![m] = [at |-> "chosen", ref |-> computerRow.ref]]
    /\ UNCHANGED <<provider, machines, computerRow, lease, ensuring, inspection, unfenced, inFlight, files, computerFaults>>

\* The suspension itself; one that fails leaves the row alone.
Suspend(m) ==
    /\ suspending[m].at = "chosen"
    /\ IF Pausable(suspending[m].ref)
       THEN /\ machines' = [machines EXCEPT ![suspending[m].ref] = "suspended"]
            /\ suspending' = [suspending EXCEPT ![m].at = "write"]
       ELSE suspending' = [suspending EXCEPT ![m] = Awake] /\ UNCHANGED machines
    /\ UNCHANGED <<provider, computerRow, lease, ensuring, inspection,
                   unfenced, inFlight, files, computerFaults>>

\* An UPDATE waits for the row lock of ensureComputer, then overwrites what that has committed.
RowUnlocked == lease = NoLease

SuspendWrite(m) ==
    /\ suspending[m].at = "write" /\ RowUnlocked
    /\ computerRow' = [computerRow EXCEPT !.status = "suspended"]
    /\ suspending' = [suspending EXCEPT ![m] = Awake]
    /\ UNCHANGED <<provider, machines, lease, ensuring, inspection, unfenced,
                   inFlight, files, computerFaults>>

Watched_Running == computerRow.status = "running" \* mutant: only computers believed to run
Watched == computerRow # NoComputer

\* The monitor of a replica, or the status page, asks the provider about the committed row.
InspectOutside(m) ==
    /\ inspection[m].at = "idle" /\ Watched
    /\ inspection' = [inspection EXCEPT ![m] = [at |-> "write", status |-> Seen(computerRow.ref)]]
    /\ UNCHANGED <<provider, machines, computerRow, lease, ensuring, suspending, unfenced, inFlight, files, computerFaults>>

InspectOutsideFails(m) ==
    /\ ComputerFault
    /\ inspection[m].at = "idle" /\ Watched
    /\ inspection' = [inspection EXCEPT ![m] = [at |-> "write", status |-> "error"]]
    /\ UNCHANGED <<provider, machines, computerRow, lease, ensuring, suspending, unfenced, inFlight, files>>

\* ... and writes what it was told, whatever happened since.
WriteStatus(m) ==
    /\ inspection[m].at = "write" /\ RowUnlocked
    /\ computerRow' = [computerRow EXCEPT !.status = inspection[m].status]
    /\ inspection' = [inspection EXCEPT ![m] = Nothing]
    /\ UNCHANGED <<provider, machines, lease, ensuring, suspending,
                   unfenced, inFlight, files, computerFaults>>

-----------------------------------------------------------------------------
EnsureStep(r) ==
    TakeLease(r) \/ InspectComputer(r) \/ RecoverComputer(r) \/ CreateMachine(r) \/ PrepareComputer(r)
WatchStep(m) == InspectOutside(m) \/ WriteStatus(m)

ComputerNext ==
    \/ \E r \in ApiReplicas :
           \/ WantComputer(r) \/ EnsureStep(r) \/ ReleaseComputer(r) \/ BackgroundEnds(r)
           \/ CallFails(r) \/ LoseLease(r) \/ LoseReplica(r)
    \/ \E m \in Monitors :
           \/ SelectIdle(m) \/ Suspend(m) \/ SuspendWrite(m)
           \/ WatchStep(m) \/ InspectOutsideFails(m)
    \/ \E i \in 0..MaxMachines : MachineChanges(i)
    \/ LandCreate

ComputerSpec == ComputerInit /\ [][ComputerNext]_computerVars

-----------------------------------------------------------------------------
(* One Computer per user, over crashes, failed commits and lost calls: every further machine is *)
(* a creation that took effect after its lease was gone, and the user keeps the machine his     *)
(* files are in until it is lost.                                                               *)
OneComputer ==
    /\ [](Cardinality(Live) <= 1 + unfenced)
    /\ [][files' # files => files = NoMachine \/ machines[files] = "missing"]_files

(* The status shown, and read by SuspendIdle, becomes that of the machine when it is left       *)
(* alone, although late writes of the monitors and of SuspendIdle overwrite newer ones.         *)
Settled == /\ lease = NoLease /\ inFlight = 0
           /\ \A r \in ApiReplicas : ensuring[r].at \in {"idle", "wanted", "using", "background"}
           /\ \A m \in Monitors : suspending[m] = Awake
StatusConverges ==
    <>[]Settled => <>[](computerRow = NoComputer \/ computerRow.status = machines[computerRow.ref])

(* "active or unconfirmed work prevents idle suspension" (docs/deployment.md): not when the work *)
(* begins after the query of SuspendIdle; even a run that has its Computer already loses it.    *)
NoSuspensionInUse ==
    [][\A m \in Monitors :
          suspending[m].at = "chosen" /\ suspending'[m].at = "write" =>
              ~\E r \in ApiReplicas : ensuring[r].run /\ ensuring[r].at = "using"]_computerVars
=============================================================================
