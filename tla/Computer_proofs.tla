--------------------------- MODULE Computer_proofs ---------------------------
(*****************************************************************************)
(* Proofs about the user's Computer and the command tasks that run on it:    *)
(* for any number of replicas, monitors, observers, machines and faults.     *)
(*****************************************************************************)
EXTENDS UserComputer, CommandTask, FiniteSetTheorems, NaturalsInduction, TLAPS

-----------------------------------------------------------------------------
(*****************************************************************************)
(* UserComputer: one Computer holds the files of its user.                   *)
(*****************************************************************************)

Machines == 0..MaxMachines
Refs == NoMachine..MaxMachines
MachineStates == {"missing", "running", "suspended", "unhealthy"}
RowStatuses == MachineStates \cup {"error", "not_created"}
Holding == {"inspect", "recover", "create", "prepare"}
EnsureRow == [at : Holding \cup {"idle", "wanted", "using", "background"},
              run : BOOLEAN, ref : Refs, leased : BOOLEAN]
SuspendRow == [at : {"idle", "chosen", "write"}, ref : Refs]
InspectRow == [at : {"idle", "write"}, status : RowStatuses]

ComputerTables ==
    /\ provider \in {"docker", "acs"}
    /\ machines \in [Machines -> MachineStates]
    /\ computerRow \in [ref : Refs, status : RowStatuses]
    /\ lease \in ApiReplicas \cup {NoLease}
    /\ ensuring \in [ApiReplicas -> EnsureRow]
    /\ suspending \in [Monitors -> SuspendRow]
    /\ inspection \in [Monitors -> InspectRow]
    /\ unfenced \in Nat /\ inFlight \in 0..unfenced
    /\ files \in Refs

\* The machine of the files is gone, or there was none: any other may take its place.
FilesLost == files = NoMachine \/ machines[files] = "missing"
RefTrue(ref) == ref = files \/ FilesLost

\* What the holder of the lease works with is the machine of the files, unless that is lost.
HolderTrue(r) ==
    /\ ensuring[r].leased <=> lease = r
    /\ ensuring[r].leased =>
           /\ ensuring[r].at \in Holding
           /\ ensuring[r].ref # NoMachine /\ RefTrue(ensuring[r].ref)
           /\ ensuring[r].at = "create" => FilesLost
           /\ provider = "docker" => ensuring[r].ref = Logical
    /\ provider = "docker" => ensuring[r].at # "create"

\* Who creates under the lease has seen that there was no machine.
CreatingUnderLease == \E r \in ApiReplicas : ensuring[r].at = "create" /\ ensuring[r].leased
CountTrue ==
    /\ Cardinality(Live) <= 1 + (unfenced - inFlight)
    /\ CreatingUnderLease => Cardinality(Live) <= unfenced - inFlight

\* Docker knows the container by the logical id.
OneContainer ==
    provider = "docker" => /\ Live \subseteq {Logical} /\ inFlight = 0
                           /\ files \in {NoMachine, Logical} /\ computerRow.ref \in {NoMachine, Logical}

RowTrue ==
    /\ computerRow.ref = NoMachine => computerRow = NoComputer /\ files = NoMachine
    /\ computerRow.ref # NoMachine => RefTrue(computerRow.ref)
WatchTrue(m) ==
    suspending[m].at # "idle" \/ inspection[m].at # "idle" => computerRow.ref # NoMachine

ComputerInv ==
    /\ ComputerTables
    /\ \A r \in ApiReplicas : HolderTrue(r)
    /\ CountTrue /\ OneContainer /\ RowTrue
    /\ \A m \in Monitors : WatchTrue(m)

-----------------------------------------------------------------------------
\* Sets of machines.

LEMMA MachineLimits ==
    /\ MaxMachines \in Nat /\ MaxMachines > 0 /\ NoMachine = -1 /\ Logical = 0
    /\ NoLease \notin ApiReplicas
    /\ Machines \subseteq Refs /\ Logical \in Machines /\ NoMachine \in Refs /\ NoMachine \notin Machines
    /\ Refs \subseteq Int /\ \A ref \in Refs : ref # NoMachine => ref \in Machines
BY ComputerConstants DEF ComputerConstants, NoMachine, Logical, NoLease, Machines, Refs

LEMMA LeastMachine ==
    ASSUME NEW S \in SUBSET Nat, S # {}
    PROVE  Min(S) \in S
<1>1. \E n \in S : \A m \in S : ~(<<m, n>> \in OpToRel(<, Nat)) BY NatLessThanWellFounded, WFMin
<1>2. PICK n \in S : \A m \in S : ~(m < n) BY <1>1 DEF OpToRel
<1>3. \A m \in S : n <= m BY <1>2
<1> QED BY <1>2, <1>3 DEF Min

LEMMA GreatestMachine ==
    ASSUME NEW N \in Nat, NEW S \in SUBSET (0..N), S # {}
    PROVE  Max(S) \in S
<1> DEFINE below == {n \in Nat : \E i \in S : n = N - i}
<1>1. below \subseteq Nat /\ below # {}
  <2>1. PICK i \in S : TRUE OBVIOUS
  <2>2. N - i \in below BY <2>1
  <2> QED BY <2>2
<1>2. \E n \in below : \A m \in below : ~(<<m, n>> \in OpToRel(<, Nat))
  <2> HIDE DEF below
  <2> QED BY <1>1, NatLessThanWellFounded, WFMin
<1>3. PICK n \in below : \A m \in below : ~(m < n) BY <1>2 DEF OpToRel
<1>4. PICK x \in S : n = N - x BY <1>3
<1>5. ASSUME NEW i \in S PROVE x >= i
  <2>1. N - i \in below OBVIOUS
  <2>2. ~(N - i < n) BY <1>3, <2>1
  <2> QED BY <1>4, <2>2
<1> QED BY <1>4, <1>5 DEF Max

LEMMA LiveMachines ==
    /\ Live \subseteq Machines /\ IsFiniteSet(Live) /\ Cardinality(Live) \in Nat
    /\ Live = {} => Cardinality(Live) = 0
<1>1. Live \subseteq 0..MaxMachines BY DEF Live
<1>2. IsFiniteSet(0..MaxMachines) BY MachineLimits, FS_Interval
<1>3. IsFiniteSet(Live) BY <1>1, <1>2, FS_Subset
<1> QED BY <1>1, <1>3, FS_CardinalityType, FS_EmptySet DEF Machines

\* As many machines as before, or one more.
LEMMA LiveKept ==
    ASSUME Live' \subseteq Live
    PROVE  Cardinality(Live') <= Cardinality(Live) /\ Cardinality(Live') \in Nat /\ Cardinality(Live) \in Nat
BY LiveMachines, FS_Subset, FS_CardinalityType

LEMMA LiveOneMore ==
    ASSUME NEW i, Live' \subseteq Live \cup {i}
    PROVE  Cardinality(Live') <= Cardinality(Live) + 1 /\ Cardinality(Live') \in Nat /\ Cardinality(Live) \in Nat
<1>1. /\ IsFiniteSet(Live \cup {i}) /\ Cardinality(Live) \in Nat
      /\ Cardinality(Live \cup {i}) \in {Cardinality(Live), Cardinality(Live) + 1}
  BY LiveMachines, FS_AddElement
<1>2. Cardinality(Live') <= Cardinality(Live \cup {i}) /\ IsFiniteSet(Live') BY <1>1, FS_Subset
<1> QED BY <1>1, <1>2, FS_CardinalityType

\* A machine that runs or is suspended is started.
LEMMA Restarted ==
    ASSUME ComputerInv, NEW ref \in Refs, Started(ref), Seen(ref) \in {"running", "suspended"}
    PROVE  /\ machines' \in [Machines -> MachineStates] /\ Live' \subseteq Live
           /\ files' = files => (FilesLost => FilesLost')
<1>1. /\ machines \in [Machines -> MachineStates] /\ files \in Refs BY DEF ComputerInv, ComputerTables
<1>2. /\ machines' \in [Machines -> MachineStates]
      /\ \A i \in Machines : machines'[i] = IF i = ref THEN "running" ELSE machines[i]
  BY <1>1 DEF Started, MachineStates
<1>3. Live' \subseteq Live BY <1>2 DEF Live, Machines, Seen
<1>4. files' = files => (FilesLost => FilesLost') BY <1>1, <1>2, MachineLimits DEF FilesLost, Seen
<1> QED BY <1>2, <1>3, <1>4

\* ACS makes the next machine: it has never been that of the files.
LEMMA NewMachine ==
    ASSUME ComputerInv, Unused # {}, Started(Min(Unused)), files' = files
    PROVE  /\ Min(Unused) \in Machines /\ Min(Unused) # NoMachine /\ Min(Unused) # files
           /\ machines' \in [Machines -> MachineStates]
           /\ Cardinality(Live') <= Cardinality(Live) + 1
           /\ Cardinality(Live') \in Nat /\ Cardinality(Live) \in Nat
           /\ FilesLost => FilesLost'
<1>1. /\ machines \in [Machines -> MachineStates] /\ files \in Refs BY DEF ComputerInv, ComputerTables
<1>2. Unused \subseteq Nat BY DEF Unused
<1>3. PICK i : i = Min(Unused) OBVIOUS
<1>4. i \in Unused BY <1>2, <1>3, LeastMachine
<1>5. i \in Machines /\ i > files BY <1>4, MachineLimits DEF Unused, Machines
<1>6. i # files /\ i # NoMachine BY <1>1, <1>5, MachineLimits DEF Machines
<1>7. /\ machines' \in [Machines -> MachineStates]
      /\ \A j \in Machines : machines'[j] = IF j = i THEN "running" ELSE machines[j]
  BY <1>1, <1>3, <1>5 DEF Started, MachineStates
<1>8. Live' \subseteq Live \cup {i} BY <1>7 DEF Live, Machines
<1>9. FilesLost => FilesLost' BY <1>1, <1>6, <1>7, MachineLimits DEF FilesLost
<1> QED BY <1>3, <1>5, <1>6, <1>7, <1>8, <1>9, LiveOneMore

-----------------------------------------------------------------------------
\* The rows of one replica, and what a step of it must show.

LEMMA ReplicaRows ==
    ASSUME ComputerInv, NEW r \in ApiReplicas
    PROVE  /\ ensuring[r] \in EnsureRow /\ ensuring[r].ref \in Refs /\ HolderTrue(r)
           /\ files \in Refs /\ computerRow.ref \in Refs /\ provider \in {"docker", "acs"}
           /\ unfenced \in Nat /\ inFlight \in Nat /\ inFlight <= unfenced
           /\ CountTrue /\ OneContainer /\ RowTrue
BY DEF ComputerInv, ComputerTables, EnsureRow

\* A reference in use stays one, while what is lost stays lost or all have the container.
LEMMA RefKept ==
    ASSUME ComputerInv, NEW ref \in Refs, RefTrue(ref), ref # NoMachine,
           provider = "docker" => ref = Logical,
           files' = files, provider = "docker" \/ (FilesLost => FilesLost')
    PROVE  RefTrue(ref)'
<1>1. OneContainer BY DEF ComputerInv
<1> QED BY <1>1 DEF OneContainer, RefTrue, FilesLost

LEMMA ReplicaMoves ==
    ASSUME ComputerInv, NEW r \in ApiReplicas,
           NEW row \in EnsureRow, ensuring' = [ensuring EXCEPT ![r] = row],
           provider' = provider, machines' \in [Machines -> MachineStates],
           lease' = lease \/ (lease = r /\ lease' = NoLease) \/ (lease = NoLease /\ lease' = r),
           (files' = files /\ (provider = "docker" \/ (FilesLost => FilesLost'))) \/ lease = r,
           files' \in Refs, computerRow' \in [ref : Refs, status : RowStatuses],
           computerRow.ref # NoMachine => computerRow'.ref # NoMachine,
           suspending' \in [Monitors -> SuspendRow], inspection' \in [Monitors -> InspectRow],
           \A m \in Monitors : /\ suspending'[m].at \in {suspending[m].at, "idle"}
                               /\ inspection'[m].at \in {inspection[m].at, "idle"},
           unfenced' \in Nat, inFlight' \in 0..unfenced'
    PROVE  /\ ensuring'[r] = row
           /\ HolderTrue(r)' /\ CountTrue' /\ OneContainer' /\ RowTrue' => ComputerInv'
<1>1. /\ ensuring' \in [ApiReplicas -> EnsureRow] /\ ensuring'[r] = row
      /\ \A u \in ApiReplicas \ {r} : ensuring'[u] = ensuring[u]
  BY DEF ComputerInv, ComputerTables
<1>2. ComputerTables' BY <1>1 DEF ComputerInv, ComputerTables
<1>3. ASSUME NEW u \in ApiReplicas \ {r} PROVE HolderTrue(u)'
  <2>1. HolderTrue(u) /\ ensuring'[u] = ensuring[u] /\ ensuring[u].ref \in Refs
    BY <1>1, ReplicaRows
  <2>2. lease' = u <=> lease = u BY <1>3, MachineLimits DEF ComputerInv, ComputerTables
  <2>3. ASSUME ensuring[u].leased
        PROVE  /\ RefTrue(ensuring[u].ref)'
               /\ ensuring[u].at = "create" => FilesLost'
    <3>1. lease = u BY <2>1, <2>3 DEF HolderTrue
    <3>2. files' = files /\ (provider = "docker" \/ (FilesLost => FilesLost')) BY <1>3, <3>1
    <3>3. PICK ref \in Refs : ref = ensuring[u].ref BY <2>1
    <3>4. RefTrue(ref) /\ ref # NoMachine /\ (provider = "docker" => ref = Logical)
      BY <2>1, <2>3, <3>3 DEF HolderTrue
    <3>5. RefTrue(ref)' BY <3>2, <3>4, RefKept
    <3>6. ensuring[u].at = "create" => FilesLost' BY <2>1, <2>3, <3>2 DEF HolderTrue
    <3>7. RefTrue(ensuring[u].ref)' BY <1>1, <3>3, <3>5 DEF RefTrue
    <3> QED BY <3>6, <3>7
  <2> QED BY <1>1, <2>1, <2>2, <2>3 DEF HolderTrue, RefTrue
<1>4. ASSUME NEW m \in Monitors PROVE WatchTrue(m)' BY DEF ComputerInv, WatchTrue
<1>5. HolderTrue(r)' /\ CountTrue' /\ OneContainer' /\ RowTrue' => ComputerInv'
  <2> HAVE HolderTrue(r)' /\ CountTrue' /\ OneContainer' /\ RowTrue'
  <2> QED BY <1>2, <1>3, <1>4 DEF ComputerInv
<1>6. ensuring'[r] = row BY <1>1
<1> QED BY <1>5, <1>6

LEMMA CountBound ==
    ASSUME NEW x \in Nat, NEW y \in Nat, y <= x,
           NEW a \in Nat, NEW b \in Nat, b <= a, NEW c \in Nat, NEW d \in Nat, c - d >= a - b
    PROVE  /\ x = 0 => y <= c - d /\ y <= 1 + (c - d)
           /\ x <= 1 + (a - b) => y <= 1 + (c - d)
           /\ x <= a - b => y <= c - d
OBVIOUS

\* The counters, when no machine is added and nobody begins to create under the lease.
LEMMA CountKept ==
    ASSUME ComputerInv, NEW r \in ApiReplicas, Live' \subseteq Live,
           unfenced' \in Nat, inFlight' \in Nat, unfenced' - inFlight' >= unfenced - inFlight,
           \A u \in ApiReplicas \ {r} : ensuring'[u] = ensuring[u],
           ensuring'[r].at = "create" /\ ensuring'[r].leased =>
               Live = {} \/ (ensuring[r].at = "create" /\ ensuring[r].leased)
    PROVE  CountTrue'
<1>1. /\ Cardinality(Live') <= Cardinality(Live) /\ Cardinality(Live') \in Nat /\ Cardinality(Live) \in Nat
      /\ CountTrue /\ unfenced \in Nat /\ inFlight \in Nat /\ inFlight <= unfenced
  BY LiveKept, ReplicaRows
<1>2. CreatingUnderLease' => CreatingUnderLease \/ Live = {}
  <2> SUFFICES ASSUME NEW u \in ApiReplicas, ensuring'[u].at = "create" /\ ensuring'[u].leased
               PROVE  CreatingUnderLease \/ Live = {}
    BY DEF CreatingUnderLease
  <2>1. CASE u = r BY <2>1 DEF CreatingUnderLease
  <2>2. CASE u # r BY <2>2 DEF CreatingUnderLease
  <2> QED BY <2>1, <2>2
<1>3. /\ Cardinality(Live) = 0 => /\ Cardinality(Live') <= unfenced' - inFlight'
                                 /\ Cardinality(Live') <= 1 + (unfenced' - inFlight')
      /\ Cardinality(Live) <= 1 + (unfenced - inFlight) => Cardinality(Live') <= 1 + (unfenced' - inFlight')
      /\ Cardinality(Live) <= unfenced - inFlight => Cardinality(Live') <= unfenced' - inFlight'
  BY <1>1, CountBound
<1>4. CASE Live = {}
  <2>1. Cardinality(Live) = 0 BY <1>4, LiveMachines
  <2> QED BY <1>3, <2>1 DEF CountTrue
<1>5. CASE Live # {} BY <1>1, <1>2, <1>3, <1>5 DEF CountTrue
<1> QED BY <1>4, <1>5

\* Machines, files and row as they were.
LEMMA SameMachines ==
    ASSUME ComputerInv, UNCHANGED <<provider, machines, computerRow, files>>,
           provider = "docker" => inFlight' = 0
    PROVE  /\ machines' \in [Machines -> MachineStates] /\ Live' = Live /\ OneContainer' /\ RowTrue'
           /\ FilesLost' = FilesLost /\ (\A ref : RefTrue(ref)' = RefTrue(ref))
           /\ files' \in Refs /\ computerRow' \in [ref : Refs, status : RowStatuses]
BY DEF ComputerInv, ComputerTables, OneContainer, RowTrue, FilesLost, RefTrue, Live, NoComputer

-----------------------------------------------------------------------------
\* A creation outside the lease is counted, and may be in flight at ACS only.
Counted ==
    /\ unfenced' \in Nat /\ inFlight' \in 0..unfenced'
    /\ unfenced' - inFlight' >= unfenced - inFlight
    /\ provider = "docker" => inFlight' = 0

LEMMA SameCount == ComputerInv /\ UNCHANGED <<unfenced, inFlight>> => Counted
BY DEF ComputerInv, ComputerTables, OneContainer, Counted

\* A creation is given up: it may still be carried out.
LEMMA OneInFlight ==
    ASSUME ComputerInv, NEW r \in ApiReplicas,
           IF ensuring[r].at = "create" THEN unfenced' = unfenced + 1 /\ inFlight' = inFlight + 1
           ELSE UNCHANGED <<unfenced, inFlight>>
    PROVE  Counted
<1>1. unfenced \in Nat /\ inFlight \in Nat /\ inFlight <= unfenced /\ HolderTrue(r) BY ReplicaRows
<1>2. CASE ensuring[r].at = "create" BY <1>1, <1>2 DEF HolderTrue, Counted
<1>3. CASE ensuring[r].at # "create" BY <1>3, SameCount
<1> QED BY <1>2, <1>3

\* A step of a replica that leaves machines, row and files alone.

LEMMA QuietMove ==
    ASSUME ComputerInv, NEW r \in ApiReplicas,
           NEW row \in EnsureRow, ensuring' = [ensuring EXCEPT ![r] = row],
           UNCHANGED <<provider, machines, computerRow, files>>, Counted,
           lease' = lease \/ (lease = r /\ lease' = NoLease) \/ (lease = NoLease /\ lease' = r),
           suspending' \in [Monitors -> SuspendRow], inspection' \in [Monitors -> InspectRow],
           \A m \in Monitors : /\ suspending'[m].at \in {suspending[m].at, "idle"}
                               /\ inspection'[m].at \in {inspection[m].at, "idle"},
           row.at = "create" /\ row.leased => Live = {} \/ (ensuring[r].at = "create" /\ ensuring[r].leased),
           row.leased <=> lease' = r,
           row.leased => /\ row.at \in Holding /\ row.ref # NoMachine /\ RefTrue(row.ref)
                         /\ row.at = "create" => FilesLost
                         /\ provider = "docker" => row.ref = Logical,
           provider = "docker" => row.at # "create"
    PROVE  ComputerInv'
<1>1. /\ machines' \in [Machines -> MachineStates] /\ Live' = Live /\ OneContainer' /\ RowTrue'
      /\ FilesLost' = FilesLost /\ (\A ref : RefTrue(ref)' = RefTrue(ref))
      /\ files' \in Refs /\ computerRow' \in [ref : Refs, status : RowStatuses]
  BY SameMachines DEF Counted
<1>2. unfenced' \in Nat /\ inFlight' \in 0..unfenced' BY DEF Counted
<1>3. /\ ensuring'[r] = row
      /\ HolderTrue(r)' /\ CountTrue' /\ OneContainer' /\ RowTrue' => ComputerInv'
  BY <1>1, <1>2, ReplicaMoves
<1>4. CountTrue'
  <2>1. \A u \in ApiReplicas \ {r} : ensuring'[u] = ensuring[u] BY DEF ComputerInv, ComputerTables
  <2>2. inFlight' \in Nat /\ unfenced' - inFlight' >= unfenced - inFlight BY <1>2 DEF Counted
  <2> QED BY <1>1, <1>2, <1>3, <2>1, <2>2, CountKept
<1>5. HolderTrue(r)'
  <2>1. RefTrue(row.ref)' = RefTrue(row.ref) BY <1>1
  <2> QED BY <1>1, <1>3, <2>1 DEF HolderTrue, RefTrue
<1> QED BY <1>1, <1>3, <1>4, <1>5

LEMMA FreeRow == Free \in EnsureRow /\ Free.at = "idle" /\ Free.leased = FALSE
<1>1. FALSE \in BOOLEAN /\ "idle" \in Holding \cup {"idle", "wanted", "using", "background"} /\ NoMachine \in Refs
  BY MachineLimits
<1>2. Free \in EnsureRow BY <1>1, Zenon DEF Free, EnsureRow
<1> QED BY <1>2 DEF Free

LEMMA MonitorRows ==
    /\ Awake \in SuspendRow /\ Awake.at = "idle"
    /\ Nothing \in InspectRow /\ Nothing.at = "idle"
BY MachineLimits DEF Awake, SuspendRow, Nothing, InspectRow, RowStatuses

LEMMA WantKeeps ==
    ASSUME ComputerInv, NEW r \in ApiReplicas,
           WantComputer(r) \/ ReleaseComputer(r) \/ BackgroundEnds(r)
    PROVE  ComputerInv'
<1>1. UNCHANGED <<provider, machines, computerRow, lease, suspending, inspection, unfenced, inFlight, files>>
  BY DEF WantComputer, ReleaseComputer, BackgroundEnds
<1>2. PICK old \in EnsureRow : old = ensuring[r] BY ReplicaRows
<1>3. ~old.leased /\ lease # r
  <2>1. old.at \notin Holding BY <1>2 DEF WantComputer, ReleaseComputer, BackgroundEnds, Holding
  <2> QED BY <1>2, <2>1, ReplicaRows DEF HolderTrue
<1>4. PICK row \in EnsureRow : /\ ensuring' = [ensuring EXCEPT ![r] = row]
                               /\ ~row.leased /\ row.at # "create"
  <2>1. CASE WantComputer(r)
    <3>1. PICK run \in BOOLEAN :
              ensuring' = [ensuring EXCEPT ![r] = [Free EXCEPT !.at = "wanted", !.run = run]]
      BY <2>1 DEF WantComputer
    <3>2. PICK row \in EnsureRow : row = [Free EXCEPT !.at = "wanted", !.run = run]
      BY FreeRow DEF EnsureRow
    <3>3. ~row.leased /\ row.at = "wanted" BY <3>2, FreeRow DEF EnsureRow
    <3> QED BY <3>1, <3>2, <3>3
  <2>2. CASE ensuring' = [ensuring EXCEPT ![r] = Free] BY <2>2, FreeRow
  <2>3. CASE Move(r, "background", NoMachine)
    <3>1. PICK row \in EnsureRow : row = [old EXCEPT !.at = "background", !.ref = NoMachine]
      BY MachineLimits DEF EnsureRow
    <3>2. ensuring' = [ensuring EXCEPT ![r] = row] /\ row.at = "background" /\ row.leased = old.leased
      BY <1>2, <2>3, <3>1 DEF Move, EnsureRow, ComputerInv, ComputerTables
    <3> QED BY <1>3, <3>2
  <2> QED BY <2>1, <2>2, <2>3 DEF ReleaseComputer, BackgroundEnds
<1>5. /\ suspending' \in [Monitors -> SuspendRow] /\ inspection' \in [Monitors -> InspectRow]
      /\ \A m \in Monitors : /\ suspending'[m].at \in {suspending[m].at, "idle"}
                             /\ inspection'[m].at \in {inspection[m].at, "idle"}
  BY <1>1 DEF ComputerInv, ComputerTables
<1>6. lease' = lease /\ lease' # r BY <1>1, <1>3
<1> QED BY <1>1, <1>4, <1>5, <1>6, SameCount, QuietMove

LEMMA LeaseKeeps ==
    ASSUME ComputerInv, NEW r \in ApiReplicas, TakeLease(r) \/ LoseLease(r)
    PROVE  ComputerInv'
<1>1. UNCHANGED <<provider, machines, computerRow, suspending, inspection, unfenced, inFlight, files>>
  BY DEF TakeLease, LoseLease
<1>2. PICK old \in EnsureRow : old = ensuring[r] BY ReplicaRows
<1>3. /\ suspending' \in [Monitors -> SuspendRow] /\ inspection' \in [Monitors -> InspectRow]
      /\ \A m \in Monitors : /\ suspending'[m].at \in {suspending[m].at, "idle"}
                             /\ inspection'[m].at \in {inspection[m].at, "idle"}
  BY <1>1 DEF ComputerInv, ComputerTables
<1>4. CASE TakeLease(r)
  <2>1. lease = NoLease /\ lease' = r BY <1>4 DEF TakeLease, LeaseFree
  <2>2. PICK ref \in Refs : ref = IF computerRow = NoComputer THEN Logical ELSE computerRow.ref
    BY ReplicaRows, MachineLimits
  <2>3. ref # NoMachine /\ RefTrue(ref) /\ (provider = "docker" => ref = Logical)
    <3>1. CASE computerRow = NoComputer
      <4>1. files = NoMachine /\ ref = Logical BY <2>2, <3>1, ReplicaRows DEF RowTrue, NoComputer
      <4> QED BY <4>1, MachineLimits DEF RefTrue, FilesLost
    <3>2. CASE computerRow # NoComputer
      BY <2>2, <3>2, ReplicaRows DEF RowTrue, OneContainer
    <3> QED BY <3>1, <3>2
  <2>4. PICK row \in EnsureRow : row = [old EXCEPT !.at = "inspect", !.leased = TRUE, !.ref = ref]
    <3>1. TRUE \in BOOLEAN OBVIOUS
    <3> QED BY <3>1 DEF EnsureRow, Holding
  <2>5. row.at = "inspect" /\ row.ref = ref /\ row.leased BY <2>4 DEF EnsureRow
  <2>6. ensuring' = [ensuring EXCEPT ![r] = row] BY <1>2, <1>4, <2>2, <2>4 DEF TakeLease
  <2>7. row.at \in Holding /\ row.at # "create" BY <2>5 DEF Holding
  <2> QED BY <1>1, <1>3, <2>1, <2>3, <2>5, <2>6, <2>7, SameCount, QuietMove
<1>5. CASE LoseLease(r)
  <2>1. lease = r /\ lease' = NoLease /\ lease' # r BY <1>5, MachineLimits DEF LoseLease
  <2>2. PICK row \in EnsureRow : row = [old EXCEPT !.leased = FALSE]
    <3>1. FALSE \in BOOLEAN OBVIOUS
    <3> QED BY <3>1 DEF EnsureRow
  <2>3. row.at = old.at /\ ~row.leased BY <2>2 DEF EnsureRow
  <2>4. ensuring' = [ensuring EXCEPT ![r] = row] BY <1>2, <1>5, <2>2 DEF LoseLease, ComputerInv, ComputerTables
  <2>5. provider = "docker" => row.at # "create" BY <1>2, <2>3, ReplicaRows DEF HolderTrue
  <2> QED BY <1>1, <1>3, <2>1, <2>3, <2>4, <2>5, SameCount, QuietMove
<1> QED BY <1>4, <1>5

LEMMA LoseReplicaKeeps ==
    ASSUME ComputerInv, NEW r \in ApiReplicas, LoseReplica(r)
    PROVE  ComputerInv'
<1>1. UNCHANGED <<provider, machines, computerRow, files>> /\ ensuring' = [ensuring EXCEPT ![r] = Free]
  BY DEF LoseReplica
<1>2. Counted BY OneInFlight DEF LoseReplica
<1>3. /\ suspending' \in [Monitors -> SuspendRow] /\ inspection' \in [Monitors -> InspectRow]
      /\ \A m \in Monitors : /\ suspending'[m].at \in {suspending[m].at, "idle"}
                             /\ inspection'[m].at \in {inspection[m].at, "idle"}
  <2>1. /\ suspending' = [m \in Monitors |-> IF m = r THEN Awake ELSE suspending[m]]
        /\ inspection' = [m \in Monitors |-> IF m = r THEN Nothing ELSE inspection[m]]
    BY DEF LoseReplica
  <2> QED BY <2>1, MonitorRows DEF ComputerInv, ComputerTables
<1>4. lease' = (IF lease = r THEN NoLease ELSE lease) /\ lease' # r BY MachineLimits DEF LoseReplica
<1>5. /\ lease' = lease \/ (lease = r /\ lease' = NoLease) \/ (lease = NoLease /\ lease' = r)
      /\ (Free.leased <=> lease' = r)
  BY <1>4, FreeRow
<1>6. Free \in EnsureRow /\ ~Free.leased /\ Free.at # "create" BY FreeRow
<1> QED BY <1>1, <1>2, <1>3, <1>5, <1>6, QuietMove

-----------------------------------------------------------------------------
\* The end of ensureComputer.

LEMMA EnsureEndKeeps ==
    ASSUME ComputerInv, NEW r \in ApiReplicas, NEW next \in {"idle", "using"}, NEW status \in RowStatuses,
           NEW ref \in Refs, EndEnsure(r, next, status, ref),
           provider' = provider, machines' \in [Machines -> MachineStates], Live' \subseteq Live, Counted,
           UNCHANGED <<suspending, inspection>>, files' \in Refs,
           (files' = files /\ (provider = "docker" \/ (FilesLost => FilesLost')))
               \/ (ensuring[r].leased /\ files' = ref),
           ensuring[r].leased => /\ ref # NoMachine /\ (files' = ref \/ RefTrue(ref))
                                 /\ provider = "docker" => ref = Logical
    PROVE  ComputerInv'
<1>1. PICK old \in EnsureRow : old = ensuring[r] BY ReplicaRows
<1>2. PICK row \in EnsureRow : row = [old EXCEPT !.at = next, !.ref = ref, !.leased = FALSE]
  <2>1. FALSE \in BOOLEAN OBVIOUS
  <2> QED BY <2>1 DEF EnsureRow
<1>3. row.at = next /\ ~row.leased /\ row.at \notin {"create"} BY <1>2 DEF EnsureRow
<1>4. ensuring' = [ensuring EXCEPT ![r] = row] BY <1>1, <1>2 DEF EndEnsure
<1>5. IF old.leased THEN lease' = NoLease /\ computerRow' = [ref |-> ref, status |-> status]
      ELSE UNCHANGED <<lease, computerRow>>
  BY <1>1 DEF EndEnsure
<1>6. HolderTrue(r) /\ OneContainer /\ RowTrue /\ computerRow.ref \in Refs /\ files \in Refs
  BY ReplicaRows
<1>7. old.leased <=> lease = r BY <1>1, <1>6 DEF HolderTrue
<1>8. /\ lease' = lease \/ (lease = r /\ lease' = NoLease) \/ (lease = NoLease /\ lease' = r)
      /\ lease' # r
  BY <1>5, <1>7, MachineLimits
<1>9. computerRow' \in [ref : Refs, status : RowStatuses] BY <1>5 DEF ComputerInv, ComputerTables
<1>10. computerRow.ref # NoMachine => computerRow'.ref # NoMachine BY <1>1, <1>5
<1>11. (files' = files /\ (provider = "docker" \/ (FilesLost => FilesLost'))) \/ lease = r
  BY <1>1, <1>7
<1>12. /\ suspending' \in [Monitors -> SuspendRow] /\ inspection' \in [Monitors -> InspectRow]
       /\ \A m \in Monitors : /\ suspending'[m].at \in {suspending[m].at, "idle"}
                              /\ inspection'[m].at \in {inspection[m].at, "idle"}
  BY DEF ComputerInv, ComputerTables
<1>13. unfenced' \in Nat /\ inFlight' \in 0..unfenced' BY DEF Counted
<1>14. /\ ensuring'[r] = row
       /\ HolderTrue(r)' /\ CountTrue' /\ OneContainer' /\ RowTrue' => ComputerInv'
  BY <1>4, <1>8, <1>9, <1>10, <1>11, <1>12, <1>13, ReplicaMoves
<1>15. HolderTrue(r)' BY <1>3, <1>8, <1>14 DEF HolderTrue
<1>16. CountTrue'
  <2>1. \A u \in ApiReplicas \ {r} : ensuring'[u] = ensuring[u] BY <1>4 DEF ComputerInv, ComputerTables
  <2>2. inFlight' \in Nat /\ unfenced' - inFlight' >= unfenced - inFlight BY <1>13 DEF Counted
  <2> QED BY <1>3, <1>13, <1>14, <2>1, <2>2, CountKept
<1>17. OneContainer' BY <1>1, <1>5, <1>6 DEF OneContainer, Counted
<1>18. RowTrue'
  <2>1. CASE old.leased
    <3>1. computerRow'.ref = ref /\ ref # NoMachine BY <1>1, <1>5, <2>1
    <3>2. RefTrue(ref)'
      <4>1. CASE files' = ref BY <4>1 DEF RefTrue
      <4>2. CASE files' # ref BY <1>1, <2>1, <4>2, RefKept
      <4> QED BY <4>1, <4>2
    <3>3. RefTrue(computerRow.ref)' BY <3>1, <3>2 DEF RefTrue
    <3> QED BY <3>1, <3>3 DEF RowTrue
  <2>2. CASE ~old.leased
    <3>1. computerRow' = computerRow /\ files' = files /\ (provider = "docker" \/ (FilesLost => FilesLost'))
      BY <1>1, <1>5, <2>2
    <3>2. PICK now \in Refs : now = computerRow.ref BY <1>6
    <3>3. CASE now = NoMachine BY <1>6, <3>1, <3>2, <3>3 DEF RowTrue, NoComputer
    <3>4. CASE now # NoMachine
      <4>1. RefTrue(now) /\ (provider = "docker" => now = Logical)
        BY <1>6, <3>2, <3>4 DEF RowTrue, OneContainer
      <4>2. RefTrue(now)' BY <3>1, <3>4, <4>1, RefKept
      <4>3. RefTrue(computerRow.ref)' BY <3>1, <3>2, <4>2 DEF RefTrue
      <4> QED BY <3>1, <3>2, <3>4, <4>3 DEF RowTrue
    <3> QED BY <3>3, <3>4
  <2> QED BY <2>1, <2>2
<1> QED BY <1>14, <1>15, <1>16, <1>17, <1>18

LEMMA RefuseKeeps ==
    ASSUME ComputerInv, NEW r \in ApiReplicas, ensuring[r].at \in Holding, Refuse(r),
           UNCHANGED <<provider, machines, suspending, inspection, files>>, Counted
    PROVE  ComputerInv'
<1>1. PICK ref \in Refs : ref = ensuring[r].ref BY ReplicaRows
<1>2. EndEnsure(r, "idle", "error", ref) BY <1>1 DEF Refuse
<1>3. ensuring[r].leased => ref # NoMachine /\ RefTrue(ref) /\ (provider = "docker" => ref = Logical)
  BY <1>1, ReplicaRows DEF HolderTrue
<1>4. /\ machines' \in [Machines -> MachineStates] /\ Live' \subseteq Live /\ files' \in Refs
      /\ FilesLost => FilesLost'
  BY ReplicaRows DEF ComputerInv, ComputerTables, Live, FilesLost
<1>5. "error" \in RowStatuses /\ "idle" \in {"idle", "using"} BY DEF RowStatuses
<1> QED BY <1>2, <1>3, <1>4, <1>5, EnsureEndKeeps

LEMMA FailKeeps ==
    ASSUME ComputerInv, NEW r \in ApiReplicas, CallFails(r)
    PROVE  ComputerInv'
<1>1. UNCHANGED <<provider, machines, suspending, inspection, files>> /\ Refuse(r)
      /\ ensuring[r].at \in Holding
  BY DEF CallFails, Holding
<1>2. Counted BY OneInFlight DEF CallFails
<1> QED BY <1>1, <1>2, RefuseKeeps

\* ensureComputer goes on with a reference.
LEMMA MoveKeeps ==
    ASSUME ComputerInv, NEW r \in ApiReplicas, NEW phase \in Holding, NEW ref \in Refs,
           Move(r, phase, ref), UNCHANGED <<provider, computerRow, lease, suspending, inspection, files>>,
           ensuring[r].at \in Holding,
           machines' \in [Machines -> MachineStates], provider = "docker" \/ (FilesLost => FilesLost'),
           unfenced' \in Nat, inFlight' \in 0..unfenced',
           provider = "docker" => phase # "create" /\ Live' \subseteq {Logical} /\ inFlight' = 0,
           ensuring[r].leased => /\ ref # NoMachine /\ RefTrue(ref)'
                                 /\ phase = "create" => FilesLost'
                                 /\ provider = "docker" => ref = Logical
    PROVE  /\ ensuring'[r].at = phase /\ ensuring'[r].leased = ensuring[r].leased
           /\ \A u \in ApiReplicas \ {r} : ensuring'[u] = ensuring[u]
           /\ CountTrue' => ComputerInv'
<1>1. PICK old \in EnsureRow : old = ensuring[r] BY ReplicaRows
<1>2. PICK row \in EnsureRow : row = [old EXCEPT !.at = phase, !.ref = ref] BY DEF EnsureRow
<1>3. row.at = phase /\ row.ref = ref /\ row.leased = old.leased BY <1>2 DEF EnsureRow
<1>4. ensuring' = [ensuring EXCEPT ![r] = row] BY <1>1, <1>2 DEF Move, ComputerInv, ComputerTables
<1>5. /\ suspending' \in [Monitors -> SuspendRow] /\ inspection' \in [Monitors -> InspectRow]
      /\ \A m \in Monitors : /\ suspending'[m].at \in {suspending[m].at, "idle"}
                             /\ inspection'[m].at \in {inspection[m].at, "idle"}
      /\ computerRow' \in [ref : Refs, status : RowStatuses] /\ files' \in Refs
  BY DEF ComputerInv, ComputerTables
<1>6. /\ ensuring'[r] = row
      /\ HolderTrue(r)' /\ CountTrue' /\ OneContainer' /\ RowTrue' => ComputerInv'
  BY <1>4, <1>5, ReplicaMoves
<1>7. HolderTrue(r) /\ OneContainer /\ RowTrue /\ computerRow.ref \in Refs BY ReplicaRows
<1>8. HolderTrue(r)'
  <2>1. RefTrue(ref)' => RefTrue(ensuring[r].ref)' BY <1>3, <1>6 DEF RefTrue
  <2> QED BY <1>1, <1>3, <1>6, <1>7, <2>1 DEF HolderTrue
<1>9. OneContainer' BY <1>7 DEF OneContainer
<1>10. RowTrue'
  <2>1. PICK now \in Refs : now = computerRow.ref BY <1>7
  <2>2. CASE now = NoMachine BY <1>7, <2>1, <2>2 DEF RowTrue, NoComputer
  <2>3. CASE now # NoMachine
    <3>1. RefTrue(now) /\ (provider = "docker" => now = Logical)
      BY <1>7, <2>1, <2>3 DEF RowTrue, OneContainer
    <3>2. RefTrue(now)' BY <2>3, <3>1, RefKept
    <3>3. RefTrue(computerRow.ref)' BY <2>1, <3>2 DEF RefTrue
    <3> QED BY <2>1, <2>3, <3>3 DEF RowTrue
  <2> QED BY <2>2, <2>3
<1>11. \A u \in ApiReplicas \ {r} : ensuring'[u] = ensuring[u] BY <1>4 DEF ComputerInv, ComputerTables
<1>12. CountTrue' => ComputerInv'
  <2> HAVE CountTrue'
  <2> QED BY <1>6, <1>8, <1>9, <1>10
<1> QED BY <1>1, <1>3, <1>6, <1>11, <1>12

LEMMA InspectKeeps ==
    ASSUME ComputerInv, NEW r \in ApiReplicas, InspectComputer(r)
    PROVE  ComputerInv'
<1>1. /\ UNCHANGED <<provider, machines, suspending, inspection, unfenced, inFlight, files>>
      /\ ensuring[r].at = "inspect" /\ ensuring[r].at \in Holding
  BY DEF InspectComputer, Holding
<1>2. Counted BY <1>1, SameCount
<1>3. CASE Refuse(r) BY <1>1, <1>2, <1>3, RefuseKeeps
<1>4. ASSUME NEW phase \in {"prepare", "recover"}, Move(r, phase, ensuring[r].ref),
             UNCHANGED <<lease, computerRow>>
      PROVE  ComputerInv'
  <2>1. PICK ref \in Refs : ref = ensuring[r].ref BY ReplicaRows
  <2>2. /\ machines' \in [Machines -> MachineStates] /\ Live' = Live /\ FilesLost' = FilesLost
        /\ RefTrue(ref)' = RefTrue(ref)
    BY <1>1 DEF ComputerInv, ComputerTables, Live, FilesLost, RefTrue
  <2>3. /\ unfenced' \in Nat /\ inFlight' \in 0..unfenced' /\ inFlight' \in Nat
        /\ unfenced' - inFlight' >= unfenced - inFlight
        /\ provider = "docker" => inFlight' = 0
    BY <1>2 DEF Counted
  <2>4. provider = "docker" => Live' \subseteq {Logical} BY <2>2, ReplicaRows DEF OneContainer
  <2>5. phase \in Holding /\ phase # "create" BY <1>4 DEF Holding
  <2>6. ensuring[r].leased => ref # NoMachine /\ RefTrue(ref) /\ (provider = "docker" => ref = Logical)
    BY <2>1, ReplicaRows DEF HolderTrue
  <2>7. /\ ensuring'[r].at = phase /\ ensuring'[r].leased = ensuring[r].leased
        /\ \A u \in ApiReplicas \ {r} : ensuring'[u] = ensuring[u]
        /\ CountTrue' => ComputerInv'
    BY <1>1, <1>4, <2>1, <2>2, <2>3, <2>4, <2>5, <2>6, MoveKeeps
  <2>8. CountTrue' BY <2>2, <2>3, <2>5, <2>7, CountKept
  <2> QED BY <2>7, <2>8
<1> QED BY <1>3, <1>4 DEF InspectComputer

LEMMA RecoverKeeps ==
    ASSUME ComputerInv, NEW r \in ApiReplicas, RecoverComputer(r)
    PROVE  ComputerInv'
<1>1. /\ UNCHANGED <<provider, computerRow, lease, suspending, inspection, unfenced, inFlight, files>>
      /\ ensuring[r].at = "recover" /\ ensuring[r].at \in Holding
  BY DEF RecoverComputer, Holding
<1>2. /\ unfenced' \in Nat /\ inFlight' \in 0..unfenced' /\ inFlight' \in Nat
      /\ unfenced' - inFlight' >= unfenced - inFlight
      /\ provider = "docker" => inFlight' = 0
  BY <1>1, SameCount DEF Counted
<1>3. PICK ref \in Refs : ref = ensuring[r].ref BY ReplicaRows
<1>4. /\ HolderTrue(r) /\ OneContainer /\ machines \in [Machines -> MachineStates] /\ files \in Refs
      /\ provider \in {"docker", "acs"}
  BY ReplicaRows DEF ComputerInv, ComputerTables
<1>5. ensuring[r].leased => ref # NoMachine /\ RefTrue(ref) /\ (provider = "docker" => ref = Logical)
  BY <1>3, <1>4 DEF HolderTrue
<1>6. "prepare" \in Holding /\ "create" \in Holding BY DEF Holding
\* A move that adds no machine.
<1>7. ASSUME NEW phase \in {"prepare", "create"}, NEW m \in Refs, Move(r, phase, m),
             machines' \in [Machines -> MachineStates], Live' \subseteq Live, FilesLost => FilesLost',
             phase = "create" => Live = {} /\ provider = "acs",
             ensuring[r].leased => /\ m # NoMachine /\ RefTrue(m)'
                                   /\ provider = "docker" => m = Logical
                                   /\ phase = "create" => FilesLost'
      PROVE  ComputerInv'
  <2>1. provider = "docker" => phase # "create" /\ Live' \subseteq {Logical} /\ inFlight' = 0
    BY <1>2, <1>4, <1>7 DEF OneContainer
  <2>2. /\ ensuring'[r].at = phase /\ ensuring'[r].leased = ensuring[r].leased
        /\ \A u \in ApiReplicas \ {r} : ensuring'[u] = ensuring[u]
        /\ CountTrue' => ComputerInv'
    BY <1>1, <1>2, <1>6, <1>7, <2>1, MoveKeeps
  <2>3. CountTrue' BY <1>2, <1>7, <2>2, CountKept
  <2> QED BY <2>2, <2>3
<1>8. CASE Seen(ref) = "suspended" /\ Started(ref) /\ Move(r, "prepare", ref)
  <2>1. /\ machines' \in [Machines -> MachineStates] /\ Live' \subseteq Live /\ (FilesLost => FilesLost')
    BY <1>1, <1>8, Restarted
  <2>2. ensuring[r].leased => RefTrue(ref)'
    <3> HAVE ensuring[r].leased
    <3>1. ref # NoMachine /\ RefTrue(ref) /\ (provider = "docker" => ref = Logical) BY <1>5
    <3>2. files' = files /\ (provider = "docker" \/ (FilesLost => FilesLost')) BY <1>1, <2>1
    <3> QED BY <3>1, <3>2, RefKept
  <2> QED BY <1>5, <1>7, <1>8, <2>1, <2>2
<1>9. CASE Seen(ref) = "running" /\ Move(r, "prepare", ref) /\ UNCHANGED machines
  <2>1. /\ machines' \in [Machines -> MachineStates] /\ Live' \subseteq Live /\ (FilesLost => FilesLost')
    BY <1>1, <1>4, <1>9 DEF Live, FilesLost
  <2>2. ensuring[r].leased => RefTrue(ref)'
    <3> HAVE ensuring[r].leased
    <3>1. ref # NoMachine /\ RefTrue(ref) /\ (provider = "docker" => ref = Logical) BY <1>5
    <3>2. files' = files /\ (provider = "docker" \/ (FilesLost => FilesLost')) BY <1>1, <2>1
    <3> QED BY <3>1, <3>2, RefKept
  <2> QED BY <1>5, <1>7, <1>9, <2>1, <2>2
<1>10. ensuring[r].leased /\ Seen(ref) = "missing" => FilesLost BY <1>5 DEF RefTrue, FilesLost, Seen
<1>11. ASSUME NEW m \in Found, Seen(ref) = "missing", Started(m), Move(r, "prepare", m)
       PROVE  ComputerInv'
  <2>1. CASE provider = "acs"
    <3>1. Live # {} /\ m = Max(Live) BY <1>11, <2>1 DEF Found, Containers
    <3>2. m \in Live
      <4>1. Live \in SUBSET (0..MaxMachines) BY DEF Live
      <4> QED BY <3>1, <4>1, MachineLimits, GreatestMachine
    <3>3. m \in Refs /\ m # NoMachine /\ Seen(m) \in {"running", "suspended"}
      BY <3>2, MachineLimits DEF Live, Machines, Seen
    <3>4. /\ machines' \in [Machines -> MachineStates] /\ Live' \subseteq Live /\ (FilesLost => FilesLost')
      BY <1>1, <1>11, <3>3, Restarted
    <3>5. ensuring[r].leased => FilesLost' BY <1>10, <1>11, <3>4
    <3>6. ensuring[r].leased => RefTrue(m)' BY <3>5 DEF RefTrue
    <3> QED BY <1>7, <1>11, <2>1, <3>3, <3>4, <3>6
  <2>2. CASE provider = "docker"
    <3>1. m = Logical BY <1>11, <2>2 DEF Found, Containers
    <3>2. /\ machines' \in [Machines -> MachineStates]
          /\ \A i \in Machines : machines'[i] = IF i = Logical THEN "running" ELSE machines[i]
      BY <1>4, <1>11, <3>1, MachineLimits DEF Started, MachineStates
    <3>3. Live' \subseteq {Logical} /\ inFlight = 0
      BY <1>4, <2>2, <3>2, MachineLimits DEF OneContainer, Live, Machines
    <3>4. RefTrue(m)' BY <1>1, <1>4, <2>2, <3>1 DEF OneContainer, RefTrue, FilesLost
    <3>5. m \in Refs /\ m # NoMachine BY <3>1, MachineLimits
    <3>6. /\ ensuring'[r].at = "prepare" /\ \A u \in ApiReplicas \ {r} : ensuring'[u] = ensuring[u]
          /\ CountTrue' => ComputerInv'
      BY <1>1, <1>2, <1>6, <1>11, <2>2, <3>1, <3>2, <3>3, <3>4, <3>5, MoveKeeps
    <3>7. ~CreatingUnderLease'
      <4>1. \A u \in ApiReplicas : ensuring'[u].at # "create" BY <2>2, <3>6, ReplicaRows DEF HolderTrue
      <4> QED BY <4>1 DEF CreatingUnderLease
    <3>8. Cardinality(Live') <= 1 /\ Cardinality(Live') \in Nat
      <4>1. IsFiniteSet({Logical}) /\ Cardinality({Logical}) = 1 BY FS_Singleton
      <4>2. IsFiniteSet(Live') /\ Cardinality(Live') <= 1 BY <3>3, <4>1, FS_Subset
      <4> QED BY <4>2, FS_CardinalityType
    <3>9. CountTrue' BY <1>1, <1>2, <3>3, <3>7, <3>8 DEF CountTrue
    <3> QED BY <3>6, <3>9
  <2> QED BY <1>4, <2>1, <2>2
<1>12. CASE Seen(ref) = "missing" /\ Found = {} /\ Move(r, "create", ref) /\ UNCHANGED machines
  <2>1. Live = {} /\ provider = "acs" BY <1>4, <1>12 DEF Found, Containers
  <2>2. /\ machines' \in [Machines -> MachineStates] /\ Live' \subseteq Live /\ (FilesLost => FilesLost')
    BY <1>1, <1>4, <1>12 DEF Live, FilesLost
  <2>3. ensuring[r].leased => FilesLost' BY <1>10, <1>12, <2>2
  <2>4. ensuring[r].leased => RefTrue(ref)' BY <2>3 DEF RefTrue
  <2> QED BY <1>5, <1>7, <1>12, <2>1, <2>2, <2>3, <2>4
<1> QED BY <1>3, <1>8, <1>9, <1>11, <1>12 DEF RecoverComputer

LEMMA CreateKeeps ==
    ASSUME ComputerInv, NEW r \in ApiReplicas, CreateMachine(r)
    PROVE  ComputerInv'
<1>1. /\ UNCHANGED <<provider, computerRow, lease, suspending, inspection, inFlight, files>>
      /\ ensuring[r].at = "create" /\ ensuring[r].at \in Holding
      /\ Unused # {} /\ Started(Min(Unused)) /\ Move(r, "prepare", Min(Unused))
      /\ unfenced' = IF ensuring[r].leased THEN unfenced ELSE unfenced + 1
  BY DEF CreateMachine, Holding
<1>2. HolderTrue(r) /\ CountTrue /\ unfenced \in Nat /\ inFlight \in Nat /\ inFlight <= unfenced
  BY ReplicaRows
<1>3. provider # "docker" BY <1>1, <1>2 DEF HolderTrue
<1>4. PICK m : m = Min(Unused) OBVIOUS
<1>5. /\ m \in Refs /\ m # NoMachine /\ machines' \in [Machines -> MachineStates]
      /\ Cardinality(Live') <= Cardinality(Live) + 1
      /\ Cardinality(Live') \in Nat /\ Cardinality(Live) \in Nat
      /\ FilesLost => FilesLost'
  BY <1>1, <1>4, NewMachine, MachineLimits
<1>6. ensuring[r].leased => RefTrue(m)' BY <1>1, <1>2, <1>5 DEF HolderTrue, RefTrue
<1>7. unfenced' \in Nat /\ inFlight' \in 0..unfenced' BY <1>1, <1>2
<1>8. "prepare" \in Holding BY DEF Holding
<1>9. /\ ensuring'[r].at = "prepare" /\ \A u \in ApiReplicas \ {r} : ensuring'[u] = ensuring[u]
      /\ CountTrue' => ComputerInv'
  BY <1>1, <1>3, <1>4, <1>5, <1>6, <1>7, <1>8, MoveKeeps
<1>10. CountTrue'
  <2>1. CASE ensuring[r].leased
    <3>1. Cardinality(Live) <= unfenced - inFlight BY <1>1, <1>2, <2>1 DEF CountTrue, CreatingUnderLease
    <3>2. ~CreatingUnderLease'
      <4>1. \A u \in ApiReplicas \ {r} : ~ensuring[u].leased
        BY <1>2, <2>1, ReplicaRows DEF HolderTrue
      <4> QED BY <1>9, <4>1 DEF CreatingUnderLease
    <3> QED BY <1>1, <1>2, <1>5, <2>1, <3>1, <3>2 DEF CountTrue
  <2>2. CASE ~ensuring[r].leased
    <3>1. CreatingUnderLease' => CreatingUnderLease BY <1>9 DEF CreatingUnderLease
    <3> QED BY <1>1, <1>2, <1>5, <2>2, <3>1 DEF CountTrue
  <2> QED BY <2>1, <2>2
<1> QED BY <1>9, <1>10

LEMMA PrepareKeeps ==
    ASSUME ComputerInv, NEW r \in ApiReplicas, PrepareComputer(r)
    PROVE  ComputerInv'
<1>1. /\ UNCHANGED <<provider, suspending, inspection, unfenced, inFlight>>
      /\ ensuring[r].at = "prepare" /\ ensuring[r].at \in Holding
  BY DEF PrepareComputer, Holding
<1>2. Counted BY <1>1, SameCount
<1>3. PICK ref \in Refs : ref = ensuring[r].ref BY ReplicaRows
<1>4. CASE ~Usable(ref) BY <1>1, <1>2, <1>3, <1>4, RefuseKeeps DEF PrepareComputer
<1>5. CASE Usable(ref)
  <2>1. PICK next \in {"idle", "using"} : next = IF ensuring[r].leased THEN "using" ELSE "idle" OBVIOUS
  <2>2. /\ Started(ref) /\ EndEnsure(r, next, "running", ref)
        /\ files' = IF ensuring[r].leased THEN ref ELSE files
    BY <1>3, <1>5, <2>1 DEF PrepareComputer
  <2>3. Seen(ref) \in {"running", "suspended"} BY <1>5 DEF Usable
  <2>4. /\ machines' \in [Machines -> MachineStates] /\ Live' \subseteq Live
        /\ files' = files => (FilesLost => FilesLost')
    BY <2>2, <2>3, Restarted
  <2>5. ensuring[r].leased => ref # NoMachine /\ (provider = "docker" => ref = Logical)
    BY <1>3, ReplicaRows DEF HolderTrue
  <2>6. files' \in Refs BY <2>2, ReplicaRows
  <2>7. "running" \in RowStatuses BY DEF RowStatuses, MachineStates
  <2> QED BY <1>1, <1>2, <2>2, <2>4, <2>5, <2>6, <2>7, EnsureEndKeeps
<1> QED BY <1>4, <1>5

-----------------------------------------------------------------------------
\* What happens to the machines and the row without ensureComputer.

LEMMA OutsideMoves ==
    ASSUME ComputerInv, UNCHANGED <<provider, lease, ensuring, files>>,
           machines' \in [Machines -> MachineStates],
           provider = "docker" \/ (FilesLost => FilesLost'),
           computerRow' \in [ref : Refs, status : RowStatuses], computerRow'.ref = computerRow.ref,
           computerRow' = computerRow \/ computerRow.ref # NoMachine,
           suspending' \in [Monitors -> SuspendRow], inspection' \in [Monitors -> InspectRow],
           unfenced' \in Nat, inFlight' \in 0..unfenced',
           provider = "docker" => Live' \subseteq Live /\ inFlight' = 0,
           CountTrue', \A m \in Monitors : WatchTrue(m)'
    PROVE  ComputerInv'
<1>1. ComputerTables' BY DEF ComputerInv, ComputerTables
<1>2. OneContainer' BY DEF ComputerInv, OneContainer
<1>3. ASSUME NEW ref \in Refs, RefTrue(ref), ref # NoMachine, provider = "docker" => ref = Logical
      PROVE  RefTrue(ref)'
  BY <1>3, RefKept
<1>4. ASSUME NEW r \in ApiReplicas PROVE HolderTrue(r)'
  <2>1. HolderTrue(r) /\ ensuring[r].ref \in Refs /\ OneContainer BY ReplicaRows
  <2>2. CASE ensuring[r].leased
    <3>1. PICK ref \in Refs : ref = ensuring[r].ref BY <2>1
    <3>2. ref # NoMachine /\ RefTrue(ref) /\ (provider = "docker" => ref = Logical)
      BY <2>1, <2>2, <3>1 DEF HolderTrue
    <3>3. RefTrue(ref)' BY <1>3, <3>2
    <3>4. RefTrue(ensuring[r].ref)' BY <3>1, <3>3 DEF RefTrue
    <3>5. ensuring[r].at = "create" => FilesLost' BY <2>1, <2>2 DEF HolderTrue
    <3> QED BY <2>1, <2>2, <3>4, <3>5 DEF HolderTrue
  <2>3. CASE ~ensuring[r].leased BY <2>1, <2>3 DEF HolderTrue
  <2> QED BY <2>2, <2>3
<1>5. RowTrue'
  <2>1. RowTrue /\ OneContainer /\ computerRow.ref \in Refs BY DEF ComputerInv, ComputerTables
  <2>2. PICK ref \in Refs : ref = computerRow.ref BY <2>1
  <2>3. CASE ref = NoMachine BY <2>1, <2>2, <2>3 DEF RowTrue, NoComputer
  <2>4. CASE ref # NoMachine
    <3>1. RefTrue(ref) /\ (provider = "docker" => ref = Logical)
      BY <2>1, <2>2, <2>4 DEF RowTrue, OneContainer
    <3>2. RefTrue(ref)' BY <1>3, <2>4, <3>1
    <3>3. RefTrue(computerRow.ref)' BY <2>2, <3>2 DEF RefTrue
    <3> QED BY <2>2, <2>4, <3>3 DEF RowTrue
  <2> QED BY <2>3, <2>4
<1> QED BY <1>1, <1>2, <1>4, <1>5 DEF ComputerInv

\* The counters, when ensureComputer does not move and no machine is added.
LEMMA CountStays ==
    ASSUME ComputerInv, UNCHANGED <<ensuring, unfenced, inFlight>>, Live' \subseteq Live
    PROVE  /\ CountTrue' /\ unfenced' \in Nat /\ inFlight' \in 0..unfenced'
           /\ provider = "docker" => inFlight' = 0
<1>1. /\ Cardinality(Live') <= Cardinality(Live) /\ Cardinality(Live') \in Nat /\ Cardinality(Live) \in Nat
      /\ CountTrue /\ OneContainer /\ unfenced \in Nat /\ inFlight \in 0..unfenced
  BY LiveKept DEF ComputerInv, ComputerTables
<1>2. /\ Cardinality(Live) <= 1 + (unfenced - inFlight) => Cardinality(Live') <= 1 + (unfenced - inFlight)
      /\ Cardinality(Live) <= unfenced - inFlight => Cardinality(Live') <= unfenced - inFlight
  BY <1>1
<1>3. CreatingUnderLease' <=> CreatingUnderLease BY DEF CreatingUnderLease
<1>4. CountTrue' BY <1>1, <1>2, <1>3 DEF CountTrue
<1> QED BY <1>1, <1>4 DEF OneContainer

LEMMA MachineChangeKeeps ==
    ASSUME ComputerInv, NEW i \in 0..MaxMachines, MachineChanges(i)
    PROVE  ComputerInv'
<1>1. /\ UNCHANGED <<provider, computerRow, lease, ensuring, suspending, inspection, unfenced, inFlight, files>>
      /\ machines[i] = "running"
  BY DEF MachineChanges
<1>2. PICK state \in {"suspended", "unhealthy", "missing"} : machines' = [machines EXCEPT ![i] = state]
  BY DEF MachineChanges
<1>3. /\ machines \in [Machines -> MachineStates] /\ files \in Refs
      /\ computerRow \in [ref : Refs, status : RowStatuses]
      /\ suspending \in [Monitors -> SuspendRow] /\ inspection \in [Monitors -> InspectRow]
  BY DEF ComputerInv, ComputerTables
<1>4. /\ machines' \in [Machines -> MachineStates]
      /\ \A j \in Machines : machines'[j] = IF j = i THEN state ELSE machines[j]
  BY <1>2, <1>3 DEF MachineStates, Machines
<1>5. Live' \subseteq Live BY <1>1, <1>4 DEF Live, Machines
<1>6. FilesLost => FilesLost' BY <1>1, <1>3, <1>4, MachineLimits DEF FilesLost
<1>7. CountTrue' /\ unfenced' \in Nat /\ inFlight' \in 0..unfenced' /\ (provider = "docker" => inFlight' = 0)
  BY <1>1, <1>5, CountStays
<1>8. \A m \in Monitors : WatchTrue(m)' BY <1>1 DEF ComputerInv, WatchTrue
<1> QED BY <1>1, <1>3, <1>4, <1>5, <1>6, <1>7, <1>8, OutsideMoves

LEMMA LandKeeps ==
    ASSUME ComputerInv, LandCreate
    PROVE  ComputerInv'
<1>1. /\ UNCHANGED <<provider, computerRow, lease, ensuring, suspending, inspection, unfenced, files>>
      /\ inFlight > 0 /\ inFlight' = inFlight - 1 /\ Unused # {} /\ Started(Min(Unused))
  BY DEF LandCreate
<1>2. /\ computerRow \in [ref : Refs, status : RowStatuses]
      /\ suspending \in [Monitors -> SuspendRow] /\ inspection \in [Monitors -> InspectRow]
      /\ unfenced \in Nat /\ inFlight \in 0..unfenced /\ CountTrue /\ OneContainer
  BY DEF ComputerInv, ComputerTables
<1>3. provider # "docker" BY <1>1, <1>2 DEF OneContainer
<1>4. /\ machines' \in [Machines -> MachineStates]
      /\ Cardinality(Live') <= Cardinality(Live) + 1
      /\ Cardinality(Live') \in Nat /\ Cardinality(Live) \in Nat
      /\ FilesLost => FilesLost'
  BY <1>1, NewMachine
<1>5. unfenced' \in Nat /\ inFlight' \in 0..unfenced' /\ unfenced' - inFlight' = (unfenced - inFlight) + 1
  BY <1>1, <1>2
<1>6. CreatingUnderLease' <=> CreatingUnderLease BY <1>1 DEF CreatingUnderLease
<1>7. CountTrue' BY <1>1, <1>2, <1>4, <1>5, <1>6 DEF CountTrue
<1>8. \A m \in Monitors : WatchTrue(m)' BY <1>1 DEF ComputerInv, WatchTrue
<1> QED BY <1>1, <1>2, <1>3, <1>4, <1>5, <1>7, <1>8, OutsideMoves

-----------------------------------------------------------------------------
\* The monitors.

\* A monitor changes its own rows, and of the Computer's row the status.
LEMMA MonitorMoves ==
    ASSUME ComputerInv, NEW m \in Monitors,
           UNCHANGED <<provider, lease, ensuring, unfenced, inFlight, files>>,
           machines' \in [Machines -> MachineStates], Live' \subseteq Live,
           FilesLost => FilesLost',
           NEW status \in RowStatuses, computerRow' = [computerRow EXCEPT !.status = status],
           NEW pass \in SuspendRow, suspending' = [suspending EXCEPT ![m] = pass],
           NEW look \in InspectRow, inspection' = [inspection EXCEPT ![m] = look],
           status = computerRow.status \/ computerRow.ref # NoMachine,
           pass.at # "idle" \/ look.at # "idle" => computerRow.ref # NoMachine
    PROVE  ComputerInv'
<1>1. /\ computerRow \in [ref : Refs, status : RowStatuses]
      /\ suspending \in [Monitors -> SuspendRow] /\ inspection \in [Monitors -> InspectRow]
  BY DEF ComputerInv, ComputerTables
<1>2. /\ computerRow' \in [ref : Refs, status : RowStatuses] /\ computerRow'.ref = computerRow.ref
      /\ computerRow' = computerRow \/ computerRow.ref # NoMachine
  BY <1>1
<1>3. /\ suspending' \in [Monitors -> SuspendRow] /\ suspending'[m] = pass
      /\ inspection' \in [Monitors -> InspectRow] /\ inspection'[m] = look
      /\ \A o \in Monitors \ {m} : suspending'[o] = suspending[o] /\ inspection'[o] = inspection[o]
  BY <1>1
<1>4. ASSUME NEW o \in Monitors PROVE WatchTrue(o)'
  <2>1. CASE o = m BY <1>2, <1>3, <2>1 DEF WatchTrue
  <2>2. CASE o # m BY <1>2, <1>3, <2>2 DEF WatchTrue, ComputerInv
  <2> QED BY <2>1, <2>2
<1>5. CountTrue' /\ unfenced' \in Nat /\ inFlight' \in 0..unfenced' /\ (provider = "docker" => inFlight' = 0)
  BY CountStays
<1> QED BY <1>2, <1>3, <1>4, <1>5, OutsideMoves

LEMMA SameAsBefore ==
    ASSUME ComputerInv, NEW m \in Monitors
    PROVE  /\ computerRow.status \in RowStatuses /\ computerRow.ref \in Refs
           /\ computerRow = [computerRow EXCEPT !.status = computerRow.status]
           /\ suspending[m] \in SuspendRow /\ suspending = [suspending EXCEPT ![m] = suspending[m]]
           /\ inspection[m] \in InspectRow /\ inspection = [inspection EXCEPT ![m] = inspection[m]]
           /\ UNCHANGED <<machines, files>> =>
                  /\ machines' \in [Machines -> MachineStates] /\ Live' \subseteq Live
                  /\ FilesLost => FilesLost'
           /\ WatchTrue(m) /\ RowTrue
<1>1. /\ computerRow.status \in RowStatuses /\ computerRow.ref \in Refs
      /\ computerRow = [computerRow EXCEPT !.status = computerRow.status]
  BY DEF ComputerInv, ComputerTables
<1>2. /\ suspending[m] \in SuspendRow /\ suspending = [suspending EXCEPT ![m] = suspending[m]]
      /\ inspection[m] \in InspectRow /\ inspection = [inspection EXCEPT ![m] = inspection[m]]
  BY DEF ComputerInv, ComputerTables
<1>3. UNCHANGED <<machines, files>> => /\ machines' \in [Machines -> MachineStates] /\ Live' \subseteq Live
                                       /\ FilesLost => FilesLost'
  BY DEF ComputerInv, ComputerTables, Live, FilesLost
<1>4. WatchTrue(m) /\ RowTrue BY DEF ComputerInv
<1> QED BY <1>1, <1>2, <1>3, <1>4

LEMMA SuspensionKeeps ==
    ASSUME ComputerInv, NEW m \in Monitors, SelectIdle(m) \/ Suspend(m) \/ SuspendWrite(m)
    PROVE  ComputerInv'
<1>1. UNCHANGED <<provider, lease, ensuring, inspection, unfenced, inFlight, files>>
  BY DEF SelectIdle, Suspend, SuspendWrite
<1>2. PICK row : row = computerRow OBVIOUS
<1>3. PICK pass \in SuspendRow : pass = suspending[m] BY SameAsBefore
<1>4. PICK look \in InspectRow : look = inspection[m] BY SameAsBefore
<1>5. inspection' = [inspection EXCEPT ![m] = look] BY <1>1, <1>4, SameAsBefore
<1>6. pass.at # "idle" \/ look.at # "idle" => computerRow.ref # NoMachine
  BY <1>3, <1>4, SameAsBefore DEF WatchTrue
<1>7. PICK status \in RowStatuses : status = computerRow.status BY SameAsBefore
<1>8. CASE SelectIdle(m)
  <2>1. /\ UNCHANGED <<machines, computerRow>> /\ computerRow.status = "running"
        /\ suspending' = [suspending EXCEPT ![m] = [at |-> "chosen", ref |-> computerRow.ref]]
    BY <1>8 DEF SelectIdle
  <2>2. PICK new \in SuspendRow : new = [at |-> "chosen", ref |-> computerRow.ref]
    BY SameAsBefore DEF SuspendRow
  <2>3. suspending' = [suspending EXCEPT ![m] = new] BY <2>1, <2>2
  <2>4. computerRow.ref # NoMachine BY <2>1, SameAsBefore DEF RowTrue, NoComputer
  <2>5. computerRow' = [computerRow EXCEPT !.status = status] BY <1>7, <2>1, SameAsBefore
  <2>6. machines' \in [Machines -> MachineStates] /\ Live' \subseteq Live /\ (FilesLost => FilesLost')
    BY <1>1, <2>1, SameAsBefore
  <2> QED BY <1>1, <1>5, <1>7, <2>3, <2>4, <2>5, <2>6, MonitorMoves
<1>9. CASE Suspend(m)
  <2>1. pass.at = "chosen" /\ computerRow' = computerRow BY <1>3, <1>9 DEF Suspend
  <2>2. computerRow' = [computerRow EXCEPT !.status = status] BY <1>7, <2>1, SameAsBefore
  <2>3. computerRow.ref # NoMachine BY <1>6, <2>1
  <2>4. CASE Pausable(suspending[m].ref)
    <3>1. /\ machines' = [machines EXCEPT ![pass.ref] = "suspended"]
          /\ suspending' = [suspending EXCEPT ![m].at = "write"]
          /\ machines[pass.ref] \in {"running", "suspended"}
      BY <1>3, <1>9, <2>4 DEF Suspend, Pausable, Seen
    <3>2. PICK new \in SuspendRow : new = [pass EXCEPT !.at = "write"] BY DEF SuspendRow
    <3>3. suspending' = [suspending EXCEPT ![m] = new] BY <1>3, <3>1, <3>2 DEF ComputerInv, ComputerTables
    <3>4. machines \in [Machines -> MachineStates] /\ files \in Refs BY DEF ComputerInv, ComputerTables
    <3>5. /\ machines' \in [Machines -> MachineStates]
          /\ \A i \in Machines : machines'[i] = IF i = pass.ref THEN "suspended" ELSE machines[i]
      BY <3>1, <3>4 DEF MachineStates
    <3>6. Live' \subseteq Live BY <3>1, <3>5 DEF Live, Machines
    <3>7. FilesLost => FilesLost' BY <1>1, <3>1, <3>4, <3>5, MachineLimits DEF FilesLost
    <3> QED BY <1>1, <1>5, <1>7, <2>2, <2>3, <3>3, <3>5, <3>6, <3>7, MonitorMoves
  <2>5. CASE ~Pausable(suspending[m].ref)
    <3>1. suspending' = [suspending EXCEPT ![m] = Awake] /\ UNCHANGED machines BY <1>9, <2>5 DEF Suspend
    <3>2. machines' \in [Machines -> MachineStates] /\ Live' \subseteq Live /\ (FilesLost => FilesLost')
      BY <1>1, <3>1, SameAsBefore
    <3>3. Awake \in SuspendRow BY MonitorRows
    <3> QED BY <1>1, <1>5, <1>7, <2>2, <2>3, <3>1, <3>2, <3>3, MonitorMoves
  <2> QED BY <2>4, <2>5
<1>10. CASE SuspendWrite(m)
  <2>1. /\ computerRow' = [computerRow EXCEPT !.status = "suspended"]
        /\ suspending' = [suspending EXCEPT ![m] = Awake] /\ machines' = machines /\ pass.at = "write"
    BY <1>3, <1>10 DEF SuspendWrite
  <2>2. computerRow.ref # NoMachine BY <1>6, <2>1
  <2>3. "suspended" \in RowStatuses /\ Awake \in SuspendRow BY MonitorRows DEF RowStatuses, MachineStates
  <2>4. machines' \in [Machines -> MachineStates] /\ Live' \subseteq Live /\ (FilesLost => FilesLost')
    BY <1>1, <2>1, SameAsBefore
  <2> QED BY <1>1, <1>5, <2>1, <2>2, <2>3, <2>4, MonitorMoves
<1> QED BY <1>8, <1>9, <1>10

LEMMA InspectionKeeps ==
    ASSUME ComputerInv, NEW m \in Monitors,
           InspectOutside(m) \/ InspectOutsideFails(m) \/ WriteStatus(m)
    PROVE  ComputerInv'
<1>1. UNCHANGED <<provider, machines, lease, ensuring, suspending, unfenced, inFlight, files>>
  BY DEF InspectOutside, InspectOutsideFails, WriteStatus
<1>2. PICK pass \in SuspendRow : pass = suspending[m] BY SameAsBefore
<1>3. PICK look \in InspectRow : look = inspection[m] BY SameAsBefore
<1>4. suspending' = [suspending EXCEPT ![m] = pass] BY <1>1, <1>2, SameAsBefore
<1>5. machines' \in [Machines -> MachineStates] /\ Live' \subseteq Live /\ (FilesLost => FilesLost')
  BY <1>1, SameAsBefore
<1>6. CASE WriteStatus(m)
  <2>1. /\ computerRow' = [computerRow EXCEPT !.status = look.status]
        /\ inspection' = [inspection EXCEPT ![m] = Nothing] /\ look.at = "write"
    BY <1>3, <1>6 DEF WriteStatus
  <2>2. computerRow.ref # NoMachine BY <1>3, <2>1, SameAsBefore DEF WatchTrue
  <2>3. PICK status \in RowStatuses : status = look.status BY DEF InspectRow
  <2>4. Nothing \in InspectRow BY MonitorRows
  <2> QED BY <1>1, <1>4, <1>5, <2>1, <2>2, <2>3, <2>4, MonitorMoves
<1>7. CASE InspectOutside(m) \/ InspectOutsideFails(m)
  <2>1. computerRow' = computerRow /\ computerRow # NoComputer
    BY <1>7 DEF InspectOutside, InspectOutsideFails, Watched
  <2>2. computerRow.ref # NoMachine BY <2>1, SameAsBefore DEF RowTrue
  <2>3. PICK status \in RowStatuses : status = computerRow.status BY SameAsBefore
  <2>4. computerRow' = [computerRow EXCEPT !.status = status] BY <2>1, <2>3, SameAsBefore
  <2>5. PICK seen \in RowStatuses : inspection' = [inspection EXCEPT ![m] = [at |-> "write", status |-> seen]]
    <3>1. CASE InspectOutside(m)
      <4>1. Seen(computerRow.ref) \in RowStatuses
        BY <2>2, SameAsBefore, MachineLimits DEF Seen, RowStatuses, ComputerInv, ComputerTables
      <4> QED BY <3>1, <4>1 DEF InspectOutside
    <3>2. CASE InspectOutsideFails(m)
      <4>1. "error" \in RowStatuses BY DEF RowStatuses
      <4> QED BY <3>2, <4>1 DEF InspectOutsideFails
    <3> QED BY <1>7, <3>1, <3>2
  <2>6. PICK new \in InspectRow : new = [at |-> "write", status |-> seen] BY DEF InspectRow
  <2>7. inspection' = [inspection EXCEPT ![m] = new] BY <2>5, <2>6
  <2> QED BY <1>1, <1>4, <1>5, <2>2, <2>3, <2>4, <2>7, MonitorMoves
<1> QED BY <1>6, <1>7

-----------------------------------------------------------------------------
\* ComputerInv is inductive.

LEMMA ComputerInitially == ComputerInit => ComputerInv
<1> SUFFICES ASSUME ComputerInit PROVE ComputerInv OBVIOUS
<1> USE DEF ComputerInit
<1>1. /\ Live = {} /\ Cardinality(Live) = 0 /\ files = NoMachine /\ FilesLost
      /\ unfenced = 0 /\ inFlight = 0 /\ computerRow = NoComputer
  BY FS_EmptySet DEF Live, FilesLost
<1>2. ComputerTables
  <2>1. computerRow \in [ref : Refs, status : RowStatuses] BY MachineLimits DEF NoComputer, RowStatuses
  <2>2. machines \in [Machines -> MachineStates] BY DEF Machines, MachineStates
  <2>3. /\ ensuring \in [ApiReplicas -> EnsureRow] /\ suspending \in [Monitors -> SuspendRow]
        /\ inspection \in [Monitors -> InspectRow]
    BY FreeRow, MonitorRows
  <2> QED BY <1>1, <2>1, <2>2, <2>3, MachineLimits DEF ComputerTables
<1>3. ASSUME NEW r \in ApiReplicas PROVE HolderTrue(r)
  <2>1. ensuring[r].at = "idle" /\ ensuring[r].leased = FALSE /\ lease # r BY FreeRow, MachineLimits
  <2> QED BY <2>1 DEF HolderTrue
<1>4. ~CreatingUnderLease BY FreeRow DEF CreatingUnderLease
<1>5. CountTrue BY <1>1, <1>4 DEF CountTrue
<1>6. OneContainer /\ RowTrue BY <1>1 DEF OneContainer, RowTrue, NoComputer
<1>7. ASSUME NEW m \in Monitors PROVE WatchTrue(m)
  <2>1. suspending[m].at = "idle" /\ inspection[m].at = "idle" BY MonitorRows
  <2> QED BY <2>1 DEF WatchTrue
<1> QED BY <1>2, <1>3, <1>5, <1>6, <1>7 DEF ComputerInv

LEMMA ComputerStutters ==
    ASSUME ComputerInv, UNCHANGED computerVars
    PROVE  ComputerInv'
<1>1. UNCHANGED <<provider, machines, computerRow, lease, ensuring, suspending, inspection, unfenced, inFlight, files>>
  BY DEF computerVars
<1>2. /\ machines' \in [Machines -> MachineStates] /\ Live' = Live /\ OneContainer' /\ RowTrue'
      /\ FilesLost' = FilesLost /\ (\A ref : RefTrue(ref)' = RefTrue(ref))
      /\ files' \in Refs /\ computerRow' \in [ref : Refs, status : RowStatuses]
  BY <1>1, SameMachines DEF ComputerInv, OneContainer
<1>3. CountTrue' /\ unfenced' \in Nat /\ inFlight' \in 0..unfenced' /\ (provider = "docker" => inFlight' = 0)
  BY <1>1, <1>2, CountStays
<1>4. \A m \in Monitors : WatchTrue(m)' BY <1>1 DEF ComputerInv, WatchTrue
<1>5. suspending' \in [Monitors -> SuspendRow] /\ inspection' \in [Monitors -> InspectRow]
  BY <1>1 DEF ComputerInv, ComputerTables
<1> QED BY <1>1, <1>2, <1>3, <1>4, <1>5, OutsideMoves

LEMMA ComputerStep == ComputerInv /\ [ComputerNext]_computerVars => ComputerInv'
<1> SUFFICES ASSUME ComputerInv, [ComputerNext]_computerVars PROVE ComputerInv' OBVIOUS
<1>1. ASSUME NEW r \in ApiReplicas,
             WantComputer(r) \/ EnsureStep(r) \/ ReleaseComputer(r) \/ BackgroundEnds(r)
                 \/ CallFails(r) \/ LoseLease(r) \/ LoseReplica(r)
      PROVE  ComputerInv'
  <2>1. CASE WantComputer(r) \/ ReleaseComputer(r) \/ BackgroundEnds(r) BY <2>1, WantKeeps
  <2>2. CASE TakeLease(r) \/ LoseLease(r) BY <2>2, LeaseKeeps
  <2>3. CASE InspectComputer(r) BY <2>3, InspectKeeps
  <2>4. CASE RecoverComputer(r) BY <2>4, RecoverKeeps
  <2>5. CASE CreateMachine(r) BY <2>5, CreateKeeps
  <2>6. CASE PrepareComputer(r) BY <2>6, PrepareKeeps
  <2>7. CASE CallFails(r) BY <2>7, FailKeeps
  <2>8. CASE LoseReplica(r) BY <2>8, LoseReplicaKeeps
  <2> QED BY <1>1, <2>1, <2>2, <2>3, <2>4, <2>5, <2>6, <2>7, <2>8 DEF EnsureStep
<1>2. ASSUME NEW m \in Monitors,
             SelectIdle(m) \/ Suspend(m) \/ SuspendWrite(m) \/ WatchStep(m) \/ InspectOutsideFails(m)
      PROVE  ComputerInv'
  BY <1>2, SuspensionKeeps, InspectionKeeps DEF WatchStep
<1>3. ASSUME NEW i \in 0..MaxMachines, MachineChanges(i) PROVE ComputerInv' BY <1>3, MachineChangeKeeps
<1>4. CASE LandCreate BY <1>4, LandKeeps
<1>5. CASE UNCHANGED computerVars BY <1>5, ComputerStutters
<1> QED BY <1>1, <1>2, <1>3, <1>4, <1>5 DEF ComputerNext

LEMMA ComputerInvariant == ComputerSpec => []ComputerInv
BY ComputerInitially, ComputerStep, PTL DEF ComputerSpec

LEMMA ComputerTyped == ComputerInv => ComputerTypeOK
<1> SUFFICES ASSUME ComputerInv PROVE ComputerTypeOK OBVIOUS
<1>1. /\ machines \in [Machines -> MachineStates] /\ computerRow.ref \in Refs
      /\ lease \in ApiReplicas \cup {NoLease} /\ inFlight \in 0..unfenced /\ files \in Refs
      /\ \A m \in Monitors : suspending[m].at \in {"idle", "chosen", "write"}
  BY DEF ComputerInv, ComputerTables, SuspendRow
<1>2. ASSUME NEW r \in ApiReplicas
      PROVE  /\ ensuring[r].at \in Holding \cup {"idle", "wanted", "using", "background"}
             /\ ensuring[r].leased <=> lease = r
  BY ReplicaRows DEF EnsureRow, HolderTrue
<1> QED BY <1>1, <1>2 DEF ComputerTypeOK, Machines, MachineStates, Refs, Holding

-----------------------------------------------------------------------------
\* Type correctness: who thinks he holds the lease of the user holds it, and no more creations
\* are in flight than have been counted as outside a lease.
THEOREM ComputerTypes == ComputerSpec => []ComputerTypeOK
BY ComputerTyped, ComputerInvariant, PTL

\* The user changes machines only in PrepareComputer under the lease, with a reference that is the
\* machine of the files unless that is lost.
LEMMA FilesMove ==
    ComputerInv /\ [ComputerNext]_computerVars =>
        [files' # files => files = NoMachine \/ machines[files] = "missing"]_files
<1> SUFFICES ASSUME ComputerInv, [ComputerNext]_computerVars, files' # files
             PROVE  files = NoMachine \/ machines[files] = "missing"
  OBVIOUS
<1>1. PICK r \in ApiReplicas : PrepareComputer(r)
  BY DEF ComputerNext, EnsureStep, WatchStep, WantComputer, TakeLease, InspectComputer, RecoverComputer,
         CreateMachine, ReleaseComputer, BackgroundEnds, CallFails, LoseLease, LoseReplica, SelectIdle,
         Suspend, SuspendWrite, InspectOutside, InspectOutsideFails, WriteStatus, MachineChanges,
         LandCreate, computerVars
<1>2. ensuring[r].leased /\ files' = ensuring[r].ref BY <1>1 DEF PrepareComputer
<1>3. RefTrue(ensuring[r].ref) BY <1>2, ReplicaRows DEF HolderTrue
<1> QED BY <1>2, <1>3 DEF RefTrue, FilesLost

\* One Computer per user, over crashes, failed commits and lost calls: every machine beyond the
\* first is a creation that took effect after its lease was gone, and the user keeps the machine
\* his files are in until it is lost, however many replicas call ensureComputer at once.
THEOREM OneComputerHeld == ComputerSpec => OneComputer
<1>1. ComputerInv => Cardinality(Live) <= 1 + unfenced
  <2> SUFFICES ASSUME ComputerInv PROVE Cardinality(Live) <= 1 + unfenced OBVIOUS
  <2>1. /\ Cardinality(Live) \in Nat /\ unfenced \in Nat /\ inFlight \in 0..unfenced
        /\ Cardinality(Live) <= 1 + (unfenced - inFlight)
    BY LiveMachines DEF ComputerInv, ComputerTables, CountTrue
  <2> QED BY <2>1
<1> QED BY <1>1, FilesMove, ComputerInvariant, PTL DEF ComputerSpec, OneComputer

-----------------------------------------------------------------------------
(*****************************************************************************)
(* CommandTask: what is shown of a task is what became of it.                *)
(*****************************************************************************)

TaskStates == {"missing", "starting", "running", "stopping"} \cup Ended
TaskRowStates == {"none", "starting", "running", "stopping"} \cup Ended
SnapRow == [status : TaskRowStates \cup {"lost"}, pid : BOOLEAN]
LauncherRow ==
    [at : {"idle", "launch", "call", "record", "wait", "stop", "final", "done"},
     background : BOOLEAN, snap : SnapRow]
ObserverRow == [at : {"idle", "call", "signal", "record"}, pid : BOOLEAN, snap : SnapRow]

\* The rows and files with their domains; what is not lost can be a row.
TaskTables ==
    /\ taskRow \in [status : TaskRowStates, pid : BOOLEAN]
    /\ launcher \in LauncherRow
    /\ launcher.at = "record" \/ launcher.at = "final" => launcher.snap.status # "lost"
    /\ starter \in {"none", "request", "state", "spawn", "owner", "await", "gone"}
    /\ record \in [request : BOOLEAN, state : TaskStates, pid : BOOLEAN]
    /\ worker \in {"none", "spawned", "launched", "running", "stopping", "written", "gone"}
    /\ shell \in {"none", "running", "exited", "killed"}
    /\ observer \in [Observers -> ObserverRow]
    /\ \A o \in Observers : observer[o].at = "record" => observer[o].snap.status # "lost"

\* The supervisor writes a result last, and only when the command is over in that way.
OverAs(state) == shell \in {"exited", "killed"} /\ (state = "exited" => shell = "exited")
WorkerInv ==
    /\ starter \in {"none", "request", "state", "spawn"} => worker = "none"
    /\ starter \in {"spawn", "owner", "await"} => record.state # "missing"
    /\ worker \in {"launched", "running", "stopping", "written"} => shell # "none"
    /\ record.state \in Finished => worker \in {"written", "gone"} /\ OverAs(record.state)

\* A result that stands: the supervisor has left it.
SettledAs(state) == worker = "gone" /\ record.state = state /\ OverAs(state)
HonestSnap(snap) == snap.status \in Finished => SettledAs(snap.status)

\* Whoever speaks of a result, now or later, speaks of one that stands.
SnapsHonest ==
    /\ HonestSnap(taskRow) /\ HonestSnap(launcher.snap)
    /\ \A o \in Observers : HonestSnap(observer[o].snap)

TaskInv == TaskTables /\ WorkerInv /\ SnapsHonest

-----------------------------------------------------------------------------
LEMMA SnapTypes ==
    ASSUME NEW status \in TaskRowStates \cup {"lost"}, NEW pid \in BOOLEAN
    PROVE  /\ Snap(status, pid) \in SnapRow
           /\ Snap(status, pid).status = status /\ Snap(status, pid).pid = pid
BY DEF Snap, SnapRow

\* What Inspect reports is a snapshot, and honest.
LEMMA InspectedHonest ==
    ASSUME TaskInv, NEW pid \in BOOLEAN
    PROVE  /\ Inspected(pid) \in SnapRow /\ HonestSnap(Inspected(pid))
           /\ Inspected(pid) # Lost \/ record.state # "missing" => Inspected(pid).status # "lost"
<1> USE DEF TaskInv, TaskTables
<1>0. record.state \in TaskStates /\ TRUE \in BOOLEAN /\ FALSE \in BOOLEAN
      /\ "unknown" \in TaskRowStates /\ "running" \in TaskRowStates
  BY DEF TaskRowStates, Ended
<1>s. ASSUME NEW st \in TaskRowStates \ Finished, NEW q \in BOOLEAN, Inspected(pid) = Snap(st, q)
      PROVE  /\ Inspected(pid) \in SnapRow /\ HonestSnap(Inspected(pid)) /\ Inspected(pid).status # "lost"
  BY <1>s, SnapTypes DEF HonestSnap, TaskRowStates, Ended, Finished
<1>u. "unknown" \in TaskRowStates \ Finished /\ "running" \in TaskRowStates \ Finished
  BY DEF Finished, TaskRowStates, Ended
<1>1. CASE ~record.request
  <2>1. Inspected(pid) = Snap("unknown", pid) BY <1>1 DEF Inspected
  <2> QED BY <1>0, <1>u, <2>1, <1>s, Zenon
<1>2. CASE record.request /\ record.state = "missing"
  <2>1. Inspected(pid) = Lost BY <1>2 DEF Inspected
  <2> QED BY <1>0, <1>2, <2>1, SnapTypes DEF Lost, HonestSnap, Finished
<1>3. CASE record.request /\ record.state # "missing" /\ (~pid \/ record.state = "unknown")
  <2>1. Inspected(pid) = Snap("unknown", pid) BY <1>3 DEF Inspected
  <2> QED BY <1>0, <1>u, <2>1, <1>s, Zenon
<1>5. CASE record.request /\ record.state \in Finished /\ pid
  <2>1. Inspected(pid) = Snap(IF Supervised THEN "running" ELSE record.state, TRUE)
    BY <1>5 DEF Inspected, Finished
  <2>2. CASE Supervised
    <3>1. Inspected(pid) = Snap("running", TRUE) BY <2>1, <2>2
    <3> QED BY <1>0, <1>u, <3>1, <1>s, Zenon
  <2>3. CASE ~Supervised
    <3>1. Inspected(pid) = Snap(record.state, TRUE) BY <2>1, <2>3
    <3>2. worker = "gone" /\ OverAs(record.state) BY <1>5, <2>3 DEF WorkerInv, Supervised
    <3>3. record.state \in TaskRowStates /\ record.state # "lost" BY <1>5 DEF TaskRowStates, Ended, Finished
    <3>4. /\ Inspected(pid) \in SnapRow /\ Inspected(pid).status = record.state
      BY <1>0, <3>1, <3>3, SnapTypes
    <3> QED BY <3>2, <3>3, <3>4 DEF HonestSnap, SettledAs
  <2> QED BY <2>2, <2>3
<1>6. CASE record.request /\ record.state \notin Finished \cup {"missing", "unknown"} /\ pid
  <2>1. Inspected(pid) = Snap(IF Supervised THEN record.state ELSE "unknown", TRUE)
    BY <1>6 DEF Inspected, Finished
  <2>2. record.state \in TaskRowStates BY <1>0, <1>6 DEF TaskStates, TaskRowStates
  <2>3. \E st \in TaskRowStates \ Finished : Inspected(pid) = Snap(st, TRUE)
    BY <1>0, <1>u, <1>6, <2>1, <2>2
  <2> QED BY <1>0, <2>3, <1>s
<1> QED BY <1>1, <1>2, <1>3, <1>5, <1>6 DEF Ended

\* What is recorded is the new snapshot or a row that is there.
LEMMA RecordKeeps ==
    ASSUME TaskInv, NEW snap \in SnapRow, snap.status # "lost", HonestSnap(snap),
           RecordTask(snap) \/ taskRow' = taskRow
    PROVE  /\ taskRow' \in [status : TaskRowStates, pid : BOOLEAN]
           /\ taskRow' = taskRow \/ taskRow' = snap
           /\ UNCHANGED <<worker, record, shell>> => HonestSnap(taskRow)'
<1>1. taskRow' = taskRow \/ taskRow' = snap BY DEF RecordTask
<1>2. snap \in [status : TaskRowStates, pid : BOOLEAN] BY DEF SnapRow
<1> QED BY <1>1, <1>2 DEF TaskInv, TaskTables, SnapsHonest, HonestSnap, SettledAs, OverAs

\* Results that stand go on standing.
ResultsStay == \A state \in Finished : SettledAs(state) => SettledAs(state)'

\* A step that says nothing new but what stands.
LEMMA SpeaksTrue ==
    ASSUME TaskInv, TaskTables', WorkerInv', ResultsStay,
           HonestSnap(taskRow'), HonestSnap(launcher'.snap), \A o \in Observers : HonestSnap(observer'[o].snap)
    PROVE  TaskInv'
BY DEF TaskInv, SnapsHonest, HonestSnap, ResultsStay

\* What the API does to a supervisor: a signal, or nothing.
LEMMA SignalKeeps ==
    ASSUME TaskInv, Signal \/ UNCHANGED worker, UNCHANGED <<record, shell>>,
           starter' = starter \/ (starter = "none" /\ starter' = "request")
    PROVE  /\ WorkerInv' /\ ResultsStay
           /\ worker' \in {"none", "spawned", "launched", "running", "stopping", "written", "gone"}
<1> USE DEF TaskInv, TaskTables, WorkerInv, Signal
<1>1. WorkerInv' BY DEF OverAs
<1>2. ResultsStay BY DEF ResultsStay, SettledAs, OverAs
<1> QED BY <1>1, <1>2

\* The launcher goes on; with another snapshot; in the background.
LEMMA LauncherAt ==
    ASSUME TaskInv,
           NEW at \in {"idle", "launch", "call", "record", "wait", "stop", "final", "done"},
           launcher' = [launcher EXCEPT !.at = at]
    PROVE  launcher' \in LauncherRow /\ launcher'.at = at /\ launcher'.snap = launcher.snap
<1>1. launcher \in LauncherRow BY DEF TaskInv, TaskTables
<1>2. launcher' \in LauncherRow BY <1>1, Zenon DEF LauncherRow
<1> QED BY <1>1, <1>2 DEF LauncherRow

LEMMA LauncherSnap ==
    ASSUME TaskInv, NEW at, NEW snap \in SnapRow,
           at \in {"idle", "launch", "call", "record", "wait", "stop", "final", "done"},
           launcher' = [launcher EXCEPT !.at = at, !.snap = snap]
    PROVE  launcher' \in LauncherRow /\ launcher'.at = at /\ launcher'.snap = snap
<1>1. launcher \in LauncherRow BY DEF TaskInv, TaskTables
<1>2. launcher' \in LauncherRow BY <1>1, Zenon DEF LauncherRow
<1> QED BY <1>1, <1>2 DEF LauncherRow

LEMMA LauncherBegins ==
    ASSUME TaskInv, NEW background \in BOOLEAN,
           launcher' = [launcher EXCEPT !.at = "launch", !.background = background]
    PROVE  launcher' \in LauncherRow /\ launcher'.at = "launch" /\ launcher'.snap = launcher.snap
<1>1. launcher \in LauncherRow BY DEF TaskInv, TaskTables
<1>2. launcher' \in LauncherRow BY <1>1, Zenon DEF LauncherRow
<1> QED BY <1>1, <1>2 DEF LauncherRow

LEMMA TaskInitially == TaskInit => TaskInv
<1> SUFFICES ASSUME TaskInit PROVE TaskInv OBVIOUS
<1> USE DEF TaskInit, NoSnapshot, NoTask, Watching
<1>1. NoTask \in SnapRow /\ NoTask \in [status : TaskRowStates, pid : BOOLEAN] BY DEF SnapRow, TaskRowStates
<1>2. launcher \in LauncherRow /\ observer \in [Observers -> ObserverRow]
  BY <1>1 DEF LauncherRow, ObserverRow
<1>3. record \in [request : BOOLEAN, state : TaskStates, pid : BOOLEAN] BY DEF TaskStates
<1>4. TaskTables BY <1>1, <1>2, <1>3 DEF TaskTables
<1>5. WorkerInv /\ SnapsHonest BY DEF WorkerInv, SnapsHonest, HonestSnap, Finished
<1> QED BY <1>4, <1>5 DEF TaskInv

-----------------------------------------------------------------------------
\* A step of the launcher: it moves on and may record what it holds.
LEMMA LauncherMoves ==
    ASSUME TaskInv, launcher' \in LauncherRow, HonestSnap(launcher'.snap),
           launcher'.at = "record" \/ launcher'.at = "final" => launcher'.snap.status # "lost",
           \/ taskRow' = taskRow
           \/ \E snap \in SnapRow : snap.status # "lost" /\ HonestSnap(snap) /\ RecordTask(snap),
           Signal \/ UNCHANGED worker,
           starter' = starter \/ (starter = "none" /\ starter' = "request"),
           UNCHANGED <<record, shell, observer>>
    PROVE  TaskInv'
<1>1. WorkerInv' /\ ResultsStay
      /\ worker' \in {"none", "spawned", "launched", "running", "stopping", "written", "gone"}
  BY SignalKeeps
<1>2. taskRow' \in [status : TaskRowStates, pid : BOOLEAN] /\ HonestSnap(taskRow')
  <2>1. CASE taskRow' = taskRow BY <2>1 DEF TaskInv, TaskTables, SnapsHonest
  <2>2. ASSUME NEW snap \in SnapRow, snap.status # "lost", HonestSnap(snap), RecordTask(snap)
        PROVE  taskRow' \in [status : TaskRowStates, pid : BOOLEAN] /\ HonestSnap(taskRow')
    BY <2>2, RecordKeeps DEF TaskInv, TaskTables, SnapsHonest
  <2> QED BY <2>1, <2>2
<1>3. TaskTables' BY <1>1, <1>2 DEF TaskInv, TaskTables
<1>4. \A o \in Observers : HonestSnap(observer'[o].snap) BY DEF TaskInv, SnapsHonest
<1> QED BY <1>1, <1>2, <1>3, <1>4, SpeaksTrue

LEMMA LauncherKeeps ==
    ASSUME TaskInv,
           LauncherStep \/ StartLost \/ RecordStartedFails \/ WaitLost \/ StopAnswers \/ EndTaskRun
    PROVE  TaskInv'
<1>0. /\ launcher \in LauncherRow /\ HonestSnap(launcher.snap) /\ launcher.snap \in SnapRow
      /\ launcher.at = "record" \/ launcher.at = "final" => launcher.snap.status # "lost"
  BY DEF TaskInv, TaskTables, SnapsHonest, LauncherRow
<1>s. \A status \in {"starting", "unknown"}, pid \in BOOLEAN :
          /\ Snap(status, pid) \in SnapRow /\ HonestSnap(Snap(status, pid))
          /\ Snap(status, pid).status # "lost"
  BY SnapTypes DEF TaskRowStates, Ended, HonestSnap, Finished
<1>n. NoSnapshot \in SnapRow /\ HonestSnap(NoSnapshot) /\ NoSnapshot.status # "lost"
  BY DEF NoSnapshot, NoTask, SnapRow, TaskRowStates, HonestSnap, Finished
<1>i. TRUE \in BOOLEAN /\ FALSE \in BOOLEAN /\ Inspected(TRUE) \in SnapRow /\ HonestSnap(Inspected(TRUE))
      /\ (Inspected(TRUE) # Lost => Inspected(TRUE).status # "lost")
  <2>1. TRUE \in BOOLEAN /\ FALSE \in BOOLEAN OBVIOUS
  <2> QED BY <2>1, InspectedHonest, Zenon
<1> DEFINE Rest == /\ Signal \/ UNCHANGED worker
                   /\ starter' = starter \/ (starter = "none" /\ starter' = "request")
                   /\ UNCHANGED <<record, shell, observer>>
           Recorded == \/ taskRow' = taskRow
                       \/ \E snap \in SnapRow : snap.status # "lost" /\ HonestSnap(snap) /\ RecordTask(snap)
\* The launcher goes on with the snapshot it has, or with another.
<1>1. ASSUME NEW at \in {"idle", "launch", "call", "wait", "stop", "done"},
             launcher' = [launcher EXCEPT !.at = at], Recorded, Rest
      PROVE  TaskInv'
  <2>1. launcher' \in LauncherRow /\ launcher'.at = at /\ launcher'.snap = launcher.snap
    BY <1>1, LauncherAt
  <2> QED BY <1>0, <1>1, <2>1, LauncherMoves
<1>2. ASSUME NEW at \in {"stop", "final"}, NEW snap \in SnapRow, HonestSnap(snap), snap.status # "lost",
             launcher' = [launcher EXCEPT !.at = at, !.snap = snap], Recorded, Rest
      PROVE  TaskInv'
  <2>1. launcher' \in LauncherRow /\ launcher'.at = at /\ launcher'.snap = snap
    BY <1>2, LauncherSnap
  <2> QED BY <1>2, <2>1, LauncherMoves
<1>3. CASE RecordLaunch
  <2>1. PICK background \in BOOLEAN :
            launcher' = [launcher EXCEPT !.at = "launch", !.background = background]
    BY <1>3 DEF RecordLaunch
  <2>2. launcher' \in LauncherRow /\ launcher'.at = "launch" /\ launcher'.snap = launcher.snap
    BY <2>1, LauncherBegins
  <2>3. Recorded /\ Rest BY <1>3, <1>s, <1>i DEF RecordLaunch, inComputer
  <2> QED BY <1>0, <2>2, <2>3, LauncherMoves
<1>4. CASE CallStart BY <1>4, <1>1 DEF CallStart
<1>5. CASE StartFailed \/ StartLost
  <2>1. StartUnanswered BY <1>5 DEF StartFailed, StartLost
  <2>2. Recorded BY <2>1, <1>s, <1>i DEF StartUnanswered
  <2>3. Rest BY <2>1 DEF StartUnanswered, inComputer
  <2> QED BY <1>1, <2>1, <2>2, <2>3 DEF StartUnanswered
<1>6. CASE RecordStarted
  <2>1. Recorded BY <1>0, <1>6 DEF RecordStarted
  <2>2. Rest BY <1>6 DEF RecordStarted, inComputer
  <2> QED BY <1>1, <1>6, <2>1, <2>2 DEF RecordStarted
<1>7. CASE RecordStartedFails
  <2>1. Recorded /\ Rest BY <1>7 DEF RecordStartedFails, inComputer
  <2> QED BY <1>2, <1>7, <1>n, <2>1 DEF RecordStartedFails
<1>8. CASE WaitEnds
  <2>1. Recorded /\ Rest BY <1>8 DEF WaitEnds, inComputer
  <2>2. \/ Inspected(TRUE) # Lost /\ launcher' = [launcher EXCEPT !.at = "final", !.snap = Inspected(TRUE)]
        \/ launcher' = [launcher EXCEPT !.at = "stop"]
    BY <1>8 DEF WaitEnds
  <2> QED BY <1>1, <1>2, <1>i, <2>1, <2>2
<1>9. CASE WaitLost
  <2>1. Recorded /\ Rest BY <1>9 DEF WaitLost, inComputer
  <2> QED BY <1>1, <1>9, <2>1 DEF WaitLost
<1>10. CASE LauncherStops
  <2>1. Recorded /\ Rest BY <1>10 DEF LauncherStops
  <2>2. PICK snap \in {NoSnapshot, Snap("unknown", TRUE)} :
            launcher' = [launcher EXCEPT !.at = "final", !.snap = snap]
    BY <1>10 DEF LauncherStops
  <2>3. snap \in SnapRow /\ HonestSnap(snap) /\ snap.status # "lost" BY <1>s, <1>n, <1>i, <2>2
  <2> QED BY <1>2, <2>1, <2>2, <2>3
<1>11. CASE StopAnswers
  <2>1. Recorded /\ Rest BY <1>11 DEF StopAnswers, inComputer
  <2>2. launcher' = [launcher EXCEPT !.at = "final", !.snap = Inspected(TRUE)]
    BY <1>0, <1>11 DEF StopAnswers, LauncherRow
  <2> QED BY <1>2, <1>i, <1>11, <2>1, <2>2 DEF StopAnswers
<1>12. CASE RecordFinal
  <2>1. Recorded BY <1>0, <1>12 DEF RecordFinal
  <2>2. Rest BY <1>12 DEF RecordFinal, inComputer
  <2> QED BY <1>1, <1>12, <2>1, <2>2 DEF RecordFinal
<1>13. CASE EndTaskRun
  <2>1. launcher' = launcher /\ Recorded /\ Rest BY <1>13 DEF EndTaskRun, inComputer
  <2> QED BY <1>0, <2>1, LauncherMoves
<1> QED
  BY <1>3, <1>4, <1>5, <1>6, <1>7, <1>8, <1>9, <1>10, <1>11, <1>12, <1>13 DEF LauncherStep

-----------------------------------------------------------------------------
\* A step in the Computer: whoever speaks of results says what it said before.
LEMMA ComputerKeeps ==
    ASSUME TaskInv, WorkerInv', ResultsStay,
           taskRow' = taskRow, launcher' = launcher, observer' = observer,
           starter' \in {"none", "request", "state", "spawn", "owner", "await", "gone"},
           record' \in [request : BOOLEAN, state : TaskStates, pid : BOOLEAN],
           worker' \in {"none", "spawned", "launched", "running", "stopping", "written", "gone"},
           shell' \in {"none", "running", "exited", "killed"}
    PROVE  TaskInv'
<1>1. TaskTables' BY DEF TaskInv, TaskTables
<1>2. HonestSnap(taskRow') /\ HonestSnap(launcher'.snap) /\ \A o \in Observers : HonestSnap(observer'[o].snap)
  BY DEF TaskInv, SnapsHonest
<1> QED BY <1>1, <1>2, SpeaksTrue

LEMMA StarterKeeps ==
    ASSUME TaskInv, StarterStep \/ StarterAnswers \/ StarterFails
    PROVE  TaskInv'
<1> USE DEF TaskInv, WorkerInv
<1>0. record \in [request : BOOLEAN, state : TaskStates, pid : BOOLEAN] /\ record.state \in TaskStates
  BY DEF TaskTables
<1>b. TRUE \in BOOLEAN OBVIOUS
<1>f. \A q \in BOOLEAN, st \in TaskStates :
          /\ [record EXCEPT !.request = q] \in [request : BOOLEAN, state : TaskStates, pid : BOOLEAN]
          /\ [record EXCEPT !.state = st] \in [request : BOOLEAN, state : TaskStates, pid : BOOLEAN]
          /\ [record EXCEPT !.pid = q] \in [request : BOOLEAN, state : TaskStates, pid : BOOLEAN]
  BY <1>0, Zenon
<1>1. CASE StarterStep
  <2> USE <1>1 DEF StarterStep
  <2>1. CASE starter = "request"
    <3>1. /\ record' = [record EXCEPT !.request = TRUE] /\ starter' = "state"
          /\ UNCHANGED <<worker, shell, taskRow, launcher, observer>>
      BY <2>1
    <3>2. record'.state = record.state BY <1>0, <3>1
    <3>3. record' \in [request : BOOLEAN, state : TaskStates, pid : BOOLEAN]
      <4>1. PICK q \in BOOLEAN : record' = [record EXCEPT !.request = q] BY <1>b, <3>1, Zenon
      <4> QED BY <1>f, <1>0, <4>1, Zenon
    <3>4. WorkerInv' /\ ResultsStay BY <2>1, <3>1, <3>2 DEF OverAs, ResultsStay, SettledAs
    <3> QED BY <3>1, <3>3, <3>4, ComputerKeeps DEF TaskTables
  <2>2. CASE starter = "state"
    <3>1. /\ record' = [record EXCEPT !.state = "starting"] /\ starter' = "spawn" /\ worker = "none"
          /\ UNCHANGED <<worker, shell, taskRow, launcher, observer>>
      BY <2>2
    <3>2. record'.state = "starting" /\ "starting" \in TaskStates BY <1>0, <3>1 DEF TaskStates
    <3>3. record' \in [request : BOOLEAN, state : TaskStates, pid : BOOLEAN] BY <1>f, <3>1, <3>2, Zenon
    <3>4. WorkerInv' /\ ResultsStay BY <3>1, <3>2 DEF OverAs, ResultsStay, SettledAs, Finished
    <3> QED BY <3>1, <3>3, <3>4, ComputerKeeps DEF TaskTables
  <2>3. CASE starter = "spawn"
    <3>1. /\ worker' = "spawned" /\ starter' = "owner" /\ worker = "none"
          /\ UNCHANGED <<record, shell, taskRow, launcher, observer>>
      BY <2>3
    <3>2. WorkerInv' /\ ResultsStay BY <3>1 DEF OverAs, ResultsStay, SettledAs
    <3> QED BY <3>1, <3>2, ComputerKeeps DEF TaskTables
  <2>4. CASE starter = "owner"
    <3>1. /\ record' = [record EXCEPT !.pid = TRUE] /\ starter' = "await"
          /\ UNCHANGED <<worker, shell, taskRow, launcher, observer>>
      BY <2>4
    <3>2. record'.state = record.state BY <1>0, <3>1
    <3>3. record' \in [request : BOOLEAN, state : TaskStates, pid : BOOLEAN]
      <4>1. PICK q \in BOOLEAN : record' = [record EXCEPT !.pid = q] BY <1>b, <3>1, Zenon
      <4> QED BY <1>f, <1>0, <4>1, Zenon
    <3>4. WorkerInv' /\ ResultsStay BY <3>1, <3>2 DEF OverAs, ResultsStay, SettledAs
    <3> QED BY <3>1, <3>3, <3>4, ComputerKeeps DEF TaskTables
  <2> QED BY <2>1, <2>2, <2>3, <2>4
<1>2. CASE StarterAnswers
  <2>1. PICK snap \in {Snap("unknown", TRUE)}
                      \cup (IF record.state # "starting" \/ ~Supervised THEN {Inspected(TRUE)} ELSE {}) :
            launcher' = [launcher EXCEPT !.at = IF @ = "call" THEN "record" ELSE @, !.snap = snap]
    BY <1>2 DEF StarterAnswers
  <2>2. snap \in SnapRow /\ HonestSnap(snap) /\ snap.status # "lost"
    <3>1. TRUE \in BOOLEAN /\ "unknown" \in TaskRowStates /\ "unknown" \notin Finished
      BY DEF TaskRowStates, Ended, Finished
    <3>2. CASE snap = Snap("unknown", TRUE)
      <4>1. snap \in SnapRow /\ snap.status = "unknown" BY <3>1, <3>2, SnapTypes
      <4> QED BY <3>1, <4>1 DEF HonestSnap
    <3>3. CASE snap = Inspected(TRUE)
      <4>1. record.state # "missing" BY <1>2 DEF StarterAnswers
      <4> QED BY <3>1, <3>3, <4>1, InspectedHonest, Zenon DEF TaskInv
    <3> QED BY <2>1, <3>2, <3>3
  <2>3. PICK at \in {"idle", "launch", "record", "wait", "stop", "final", "done"} :
            launcher' = [launcher EXCEPT !.at = at, !.snap = snap]
    <3>1. launcher.at \in {"idle", "launch", "call", "record", "wait", "stop", "final", "done"}
      BY DEF TaskTables, LauncherRow
    <3> QED BY <2>1, <3>1
  <2>4. launcher' \in LauncherRow /\ launcher'.snap = snap BY <2>2, <2>3, LauncherSnap
  <2>5. starter' = "gone" /\ UNCHANGED <<taskRow, record, worker, shell, observer>>
    BY <1>2 DEF StarterAnswers
  <2>6. WorkerInv' /\ ResultsStay BY <2>5 DEF OverAs, ResultsStay, SettledAs
  <2>7. TaskTables' BY <2>2, <2>4, <2>5 DEF TaskTables
  <2>8. HonestSnap(taskRow') /\ HonestSnap(launcher'.snap) /\ \A o \in Observers : HonestSnap(observer'[o].snap)
    BY <2>2, <2>4, <2>5 DEF SnapsHonest
  <2> QED BY <2>6, <2>7, <2>8, SpeaksTrue
<1>3. CASE StarterFails
  <2>1. starter' = "gone" /\ UNCHANGED <<taskRow, launcher, record, worker, shell, observer>>
    BY <1>3 DEF StarterFails
  <2>2. WorkerInv' /\ ResultsStay BY <2>1 DEF OverAs, ResultsStay, SettledAs
  <2> QED BY <2>1, <2>2, ComputerKeeps DEF TaskTables
<1> QED BY <1>1, <1>2, <1>3

\* The supervisor, the command and the death of the Computer.
LEMMA WorkerKeeps ==
    ASSUME TaskInv, WorkerStep \/ WorkerRecordFails \/ WorkerSees \/ CommandExits \/ ComputerDies
    PROVE  TaskInv'
<1> USE DEF TaskInv, WorkerInv
<1>0. record \in [request : BOOLEAN, state : TaskStates, pid : BOOLEAN] /\ record.state \in TaskStates
  BY DEF TaskTables
\* The files stay as they are.
<1>1. ASSUME starter' \in {starter, "gone"}, UNCHANGED <<taskRow, launcher, record, observer>>,
             WorkerInv', ResultsStay,
             worker' \in {"none", "spawned", "launched", "running", "stopping", "written", "gone"},
             shell' \in {"none", "running", "exited", "killed"}
      PROVE  TaskInv'
  BY <1>0, <1>1, ComputerKeeps DEF TaskTables
\* A state is written.
<1>2. ASSUME NEW state \in TaskStates, record' = [record EXCEPT !.state = state],
             UNCHANGED <<starter, taskRow, launcher, observer>>,
             worker \in {"launched", "running", "stopping"}, state # "missing",
             worker' \in {"running", "stopping", "written"}, shell' # "none",
             state \in Finished => worker' = "written" /\ OverAs(state)',
             shell' \in {"none", "running", "exited", "killed"}
      PROVE  TaskInv'
  <2>1. record'.state = state BY <1>0, <1>2
  <2>2. record' \in [request : BOOLEAN, state : TaskStates, pid : BOOLEAN] BY <1>0, <1>2, Zenon
  <2>3. WorkerInv' BY <1>2, <2>1
  <2>4. ResultsStay BY <1>2 DEF ResultsStay, SettledAs
  <2> QED BY <1>2, <2>2, <2>3, <2>4, ComputerKeeps DEF TaskTables
<1>3. CASE WorkerStarts
  <2>1. WorkerInv' /\ ResultsStay BY <1>3 DEF WorkerStarts, ResultsStay, SettledAs, OverAs
  <2> QED BY <1>1, <1>3, <2>1 DEF WorkerStarts
<1>4. CASE WorkerRefuses
  <2>1. WorkerInv' /\ ResultsStay BY <1>4 DEF WorkerRefuses, ResultsStay, SettledAs, OverAs
  <2> QED BY <1>1, <1>4, <2>1 DEF WorkerRefuses, TaskTables
<1>5. CASE WorkerRecords
  <2>1. "running" \in TaskStates /\ "running" \notin Finished BY DEF TaskStates, Finished
  <2> QED BY <1>2, <1>5, <2>1 DEF WorkerRecords, TaskTables
<1>6. CASE WorkerRecordFails
  <2>1. /\ worker' = "gone" /\ worker \in {"launched", "stopping"}
        /\ UNCHANGED <<taskRow, launcher, starter, record, observer>>
        /\ shell' \in {"none", "running", "exited", "killed"}
    BY <1>6 DEF WorkerRecordFails, TaskTables
  <2>2. WorkerInv' /\ ResultsStay BY <2>1 DEF ResultsStay, SettledAs
  <2> QED BY <1>1, <2>1, <2>2
<1>7. CASE WorkerSees
  <2>1. CASE shell = "exited" /\ worker' = "written"
             /\ \E st \in {"exited", "unknown"} : record' = [record EXCEPT !.state = st]
    <3>1. PICK st \in {"exited", "unknown"} : record' = [record EXCEPT !.state = st] BY <2>1
    <3>2. st \in TaskStates /\ (st \in Finished => OverAs(st)')
      BY <1>7, <2>1 DEF TaskStates, Ended, Finished, OverAs, WorkerSees
    <3> QED BY <1>2, <1>7, <2>1, <3>1, <3>2 DEF WorkerSees, TaskTables
  <2>2. CASE worker' = "stopping" /\ record' = [record EXCEPT !.state = "stopping"]
    <3>1. "stopping" \in TaskStates /\ "stopping" \notin Finished BY DEF TaskStates, Finished
    <3> QED BY <1>2, <1>7, <2>2, <3>1 DEF WorkerSees, TaskTables
  <2> QED BY <1>7, <2>1, <2>2 DEF WorkerSees
<1>8. CASE CommandExits
  <2>1. /\ shell = "running" /\ shell' = "exited"
        /\ UNCHANGED <<taskRow, launcher, starter, record, worker, observer>>
    BY <1>8 DEF CommandExits
  <2>2. WorkerInv' /\ ResultsStay BY <2>1 DEF ResultsStay, SettledAs, OverAs
  <2> QED BY <1>1, <2>1, <2>2 DEF TaskTables
<1>9. CASE WorkerStops
  <2>1. PICK st \in Outcome(shell') : record' = [record EXCEPT !.state = st]
    BY <1>9 DEF WorkerStops
  <2>2. /\ worker = "stopping" /\ worker' = "written" /\ shell' # "none"
        /\ shell' \in {"none", "running", "exited", "killed"}
        /\ UNCHANGED <<starter, taskRow, launcher, observer>>
    BY <1>9 DEF WorkerStops, TaskTables
  <2>3. st \in {"cancelled", "timed_out", "unknown"} /\ (st # "unknown" => shell' # "running")
    BY <2>1 DEF Outcome
  <2>4. st \in TaskStates /\ (st \in Finished => OverAs(st)')
    BY <2>2, <2>3 DEF TaskStates, Ended, Finished, OverAs
  <2> QED BY <1>2, <2>1, <2>2, <2>3, <2>4
<1>10. CASE WorkerExits
  <2>1. worker = "written" /\ worker' = "gone"
        /\ UNCHANGED <<taskRow, launcher, starter, record, shell, observer>>
    BY <1>10 DEF WorkerExits
  <2>2. WorkerInv' /\ ResultsStay BY <2>1 DEF ResultsStay, SettledAs, OverAs
  <2> QED BY <1>1, <2>1, <2>2 DEF TaskTables
<1>11. CASE ComputerDies
  <2>1. /\ worker' = (IF worker = "none" THEN "none" ELSE "gone") /\ starter' = "gone"
        /\ shell' = (IF shell = "running" THEN "killed" ELSE shell)
        /\ UNCHANGED <<taskRow, launcher, record, observer>>
    BY <1>11 DEF ComputerDies
  <2>2. WorkerInv' /\ ResultsStay BY <2>1 DEF ResultsStay, SettledAs, OverAs
  <2> QED BY <1>1, <2>1, <2>2 DEF TaskTables
<1> QED BY <1>3, <1>4, <1>5, <1>6, <1>7, <1>8, <1>9, <1>10, <1>11 DEF WorkerStep

\* An observer records what it saw, however old that is.
LEMMA ObserverKeeps ==
    ASSUME TaskInv, NEW o \in Observers, ObserverStep(o) \/ StopTask(o) \/ InspectLost(o)
    PROVE  TaskInv'
<1>0. /\ observer \in [Observers -> ObserverRow] /\ observer[o] \in ObserverRow
      /\ observer[o].pid \in BOOLEAN /\ HonestSnap(observer[o].snap) /\ observer[o].snap \in SnapRow
      /\ taskRow.pid \in BOOLEAN
  BY DEF TaskInv, TaskTables, SnapsHonest, ObserverRow
<1>n. NoSnapshot \in SnapRow /\ HonestSnap(NoSnapshot)
  BY DEF NoSnapshot, NoTask, SnapRow, TaskRowStates, HonestSnap, Finished
<1>1. ASSUME NEW row \in ObserverRow, observer' = [observer EXCEPT ![o] = row],
             HonestSnap(row.snap), row.at = "record" => row.snap.status # "lost",
             taskRow' \in [status : TaskRowStates, pid : BOOLEAN], HonestSnap(taskRow'),
             Signal \/ UNCHANGED worker, UNCHANGED <<launcher, starter, record, shell>>
      PROVE  TaskInv'
  <2>1. WorkerInv' /\ ResultsStay
        /\ worker' \in {"none", "spawned", "launched", "running", "stopping", "written", "gone"}
    BY <1>1, SignalKeeps
  <2>2. TaskTables' BY <1>0, <1>1, <2>1 DEF TaskInv, TaskTables
  <2>3. \A q \in Observers : HonestSnap(observer'[q].snap)
    BY <1>0, <1>1 DEF TaskInv, SnapsHonest
  <2>4. HonestSnap(launcher'.snap) BY <1>1 DEF TaskInv, SnapsHonest
  <2> QED BY <1>1, <2>1, <2>2, <2>3, <2>4, SpeaksTrue
<1>2. taskRow \in [status : TaskRowStates, pid : BOOLEAN] /\ HonestSnap(taskRow)
  BY DEF TaskInv, TaskTables, SnapsHonest
<1>3. CASE ReadTask(o)
  <2>1. PICK at \in {"signal", "call"} :
            observer' = [observer EXCEPT ![o] = [at |-> at, pid |-> taskRow.pid, snap |-> NoSnapshot]]
    <3> DEFINE next == IF o \in Stoppers THEN "signal" ELSE "call"
    <3>1. observer' = [observer EXCEPT ![o] = [at |-> next, pid |-> taskRow.pid, snap |-> NoSnapshot]]
      BY <1>3, Zenon DEF ReadTask
    <3>2. next \in {"signal", "call"} OBVIOUS
    <3> HIDE DEF next
    <3> QED BY <3>1, <3>2, Zenon
  <2>2. [at |-> at, pid |-> taskRow.pid, snap |-> NoSnapshot] \in ObserverRow
    BY <1>0, <1>n DEF ObserverRow
  <2> QED BY <1>1, <1>2, <1>3, <1>n, <2>1, <2>2 DEF ReadTask, inComputer
<1>4. CASE StopTask(o)
  <2> DEFINE row == [observer[o] EXCEPT !.at = "call"]
  <2>1. row \in ObserverRow /\ row.at = "call" /\ row.snap = observer[o].snap BY <1>0 DEF ObserverRow
  <2>2. observer' = [observer EXCEPT ![o] = row] BY <1>4 DEF StopTask
  <2> HIDE DEF row
  <2> QED BY <1>0, <1>1, <1>2, <1>4, <2>1, <2>2 DEF StopTask
\* What it saw, or 'unknown' when it saw nothing.
<1>5. ASSUME NEW snap \in SnapRow, HonestSnap(snap), snap.status # "lost",
             observer' = [observer EXCEPT ![o].at = "record", ![o].snap = snap],
             UNCHANGED <<taskRow, launcher, inComputer>>
      PROVE  TaskInv'
  <2> DEFINE row == [observer[o] EXCEPT !.at = "record", !.snap = snap]
  <2>1. row \in ObserverRow /\ row.at = "record" /\ row.snap = snap BY <1>0 DEF ObserverRow
  <2>2. observer' = [observer EXCEPT ![o] = row] BY <1>0, <1>5
  <2> HIDE DEF row
  <2> QED BY <1>1, <1>2, <1>5, <2>1, <2>2 DEF inComputer
<1>6. LET unknown == Snap("unknown", observer[o].pid)
      IN  unknown \in SnapRow /\ HonestSnap(unknown) /\ unknown.status # "lost"
  BY <1>0, SnapTypes DEF TaskRowStates, Ended, HonestSnap, Finished
<1>7. CASE InspectTask(o)
  <2>1. \/ Inspected(observer[o].pid) # Lost
           /\ observer' = [observer EXCEPT ![o].at = "record", ![o].snap = Inspected(observer[o].pid)]
        \/ observer' = [observer EXCEPT ![o].at = "record", ![o].snap = Snap("unknown", observer[o].pid)]
    BY <1>7 DEF InspectTask
  <2>2. /\ Inspected(observer[o].pid) \in SnapRow /\ HonestSnap(Inspected(observer[o].pid))
        /\ Inspected(observer[o].pid) # Lost => Inspected(observer[o].pid).status # "lost"
    BY <1>0, InspectedHonest
  <2> QED BY <1>5, <1>6, <1>7, <2>1, <2>2 DEF InspectTask
<1>8. CASE InspectLost(o) BY <1>5, <1>6, <1>8 DEF InspectLost
<1>9. CASE RecordObserved(o)
  <2>1. observer[o].snap.status # "lost" BY <1>9 DEF RecordObserved, TaskInv, TaskTables
  <2>2. RecordTask(observer[o].snap) \/ taskRow' = taskRow BY <1>9 DEF RecordObserved
  <2>3. taskRow' \in [status : TaskRowStates, pid : BOOLEAN] /\ HonestSnap(taskRow')
    BY <1>0, <1>2, <2>1, <2>2, RecordKeeps
  <2>4. Watching \in ObserverRow /\ Watching.at = "idle" /\ Watching.snap = NoSnapshot
    BY <1>n DEF Watching, ObserverRow
  <2> QED BY <1>1, <1>9, <1>n, <2>3, <2>4 DEF RecordObserved, inComputer
<1> QED BY <1>3, <1>4, <1>7, <1>8, <1>9 DEF ObserverStep

LEMMA TaskInvStep == TaskInv /\ [TaskNext]_taskVars => TaskInv'
<1> SUFFICES ASSUME TaskInv, [TaskNext]_taskVars PROVE TaskInv' OBVIOUS
<1>1. CASE UNCHANGED taskVars
  BY <1>1 DEF taskVars, TaskInv, TaskTables, WorkerInv, SnapsHonest, HonestSnap, SettledAs, OverAs
<1>2. CASE TaskNext
  BY <1>2, LauncherKeeps, StarterKeeps, WorkerKeeps, ObserverKeeps DEF TaskNext
<1> QED BY <1>1, <1>2

LEMMA TaskInvariant == TaskSpec => []TaskInv
BY TaskInitially, TaskInvStep, PTL DEF TaskSpec

LEMMA TaskTyped == TaskInv => TaskTypeOK
BY DEF TaskInv, TaskTables, TaskTypeOK, LauncherRow, ObserverRow, TaskRowStates, TaskStates

\* Rows, files, processes and observers stay in their domains.
THEOREM TaskTypes == TaskSpec => []TaskTypeOK
BY TaskTyped, TaskInvariant, PTL

\* Whatever calls are lost, writes fail and Computers die, and however old the snapshots that are
\* recorded: a task shown as finished has finished, in the way shown.
THEOREM TrueFinish == TaskSpec => []FinishedIsTrue
<1>1. TaskInv => FinishedIsTrue
  BY DEF TaskInv, SnapsHonest, HonestSnap, SettledAs, OverAs, FinishedIsTrue
<1> QED BY <1>1, TaskInvariant, PTL
=============================================================================
