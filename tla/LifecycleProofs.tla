--------------------------- MODULE LifecycleProofs ---------------------------
(***************************************************************************)
(* Theorems about Lifecycle, for every set of seeds, every configuration   *)
(* and every bound.                                                        *)
(***************************************************************************)
EXTENDS Lifecycle, TLAPS

-----------------------------------------------------------------------------
(***************************************************************************)
(* Type correctness.  The parts of TypeOK, by who changes them.            *)
(***************************************************************************)
CommandOK ==
    /\ cmd \in AllCommands \cup {"none"}
    /\ forced \in BOOLEAN
    /\ pc \in Pcs
    /\ ran \in BOOLEAN
    /\ mem \in Entries
    /\ ca \in Boxes \cup {NoBox}
    /\ todo \subseteq Seeds
    /\ outs \in Contents
    /\ mf \in Contents
    /\ synced \in Nat

WorldOK ==
    /\ box \in [Boxes -> BoxRecords]
    /\ docker \in [Boxes -> DockerRecords]
    /\ origin \in Nat
    /\ seeded \in Contents

BudgetOK == launches \in Nat /\ faults \in Nat /\ losses \in Nat

\* TypeOK is inductive once it says that a checkpoint is pending only for a
\* step, and that the runner phase has its compute: in local mode runRunner's
\* sync never looks whether the directory is there.
TypeInv ==
    /\ entry \in Entries
    /\ CommandOK
    /\ WorldOK
    /\ BudgetOK
    /\ pc = "sync" => ca \in Boxes
    /\ ran => pc \in Steps

LEMMA TypeInvImpliesTypeOK == TypeInv => TypeOK
  BY DEF TypeInv, CommandOK, WorldOK, BudgetOK, TypeOK

\* What the helpers on records return.
LEMMA NoOutputsType == NoOutputs \in Contents
  BY DEF NoOutputs, Contents

LEMMA NoEntryType == NoEntry \in Entries /\ NewEntry \in Entries
<1>1. [s \in Steps |-> "none"] \in [Steps -> StepStatus]
  BY DEF StepStatus
<1>2. NoEntry \in Entries
  BY <1>1, NoOutputsType DEF NoEntry, Entries, Statuses
<1>3. NewEntry \in Entries
  BY <1>2 DEF NewEntry, Entries, Statuses
<1> QED BY <1>2, <1>3

LEMMA MarkedType ==
  ASSUME NEW e \in Entries, NEW S, NEW status \in StepStatus
  PROVE  Marked(e, S, status) \in Entries
<1>1. [s \in Steps |-> IF s \in S THEN status ELSE e.steps[s]] \in [Steps -> StepStatus]
  BY DEF Entries
<1>2. [s \in Seeds |-> IF s \in S THEN 0 ELSE e.seedOut[s]] \in Contents
  BY DEF Entries, Contents
<1> QED BY <1>1, <1>2 DEF Marked, Entries

LEMMA CompletedType ==
  ASSUME NEW e \in Entries, NEW step \in Steps, outs \in Contents
  PROVE  Completed(e, step) \in Entries
<1>1. [e.steps EXCEPT ![step] = "completed"] \in [Steps -> StepStatus]
  BY DEF Entries, StepStatus
<1>2. [s \in Seeds |-> IF s = step THEN outs[s] ELSE e.seedOut[s]] \in Contents
  BY DEF Entries, Contents
<1> QED BY <1>1, <1>2 DEF Completed, Entries

LEMMA BlankType ==
  ASSUME NEW state \in BoxStates, NEW version \in Nat
  PROVE  Blank(state, version) \in BoxRecords
<1>1. [f \in Files |-> NoFile] \in [Files -> Contents \cup {NoFile}]
  OBVIOUS
<1> QED BY <1>1 DEF Blank, BoxRecords

LEMMA NoContainersType == NoContainers \in DockerRecords
  BY DEF NoContainers, DockerRecords, Makings

LEMMA MakingType ==
  ASSUME box \in [Boxes -> BoxRecords], NEW b \in Boxes
  PROVE  MakingOf(b) \in Makings
  BY DEF BoxRecords, MakingOf, Makings, Files

\* Writing one file of a box, or one of its version fields.
LEMMA FileWriteType ==
  ASSUME box \in [Boxes -> BoxRecords], NEW b \in Boxes, NEW f \in Files,
         NEW v \in Contents \cup {NoFile}, NEW p \in BOOLEAN
  PROVE  /\ [box EXCEPT ![b].files[f] = v] \in [Boxes -> BoxRecords]
         /\ [box EXCEPT ![b].partial = p] \in [Boxes -> BoxRecords]
         /\ [box EXCEPT ![b].files[f] = v, ![b].partial = p] \in [Boxes -> BoxRecords]
<1>1. [box[b].files EXCEPT ![f] = v] \in [Files -> Contents \cup {NoFile}]
  BY DEF BoxRecords
<1>2. /\ [box[b] EXCEPT !.files[f] = v] \in BoxRecords
      /\ [box[b] EXCEPT !.partial = p] \in BoxRecords
      /\ [box[b] EXCEPT !.files[f] = v, !.partial = p] \in BoxRecords
  BY <1>1 DEF BoxRecords
<1> QED BY <1>2

LEMMA VersionType ==
  ASSUME box \in [Boxes -> BoxRecords], NEW b \in Boxes, NEW v \in Nat
  PROVE  /\ [box EXCEPT ![b].tree = v] \in [Boxes -> BoxRecords]
         /\ [box EXCEPT ![b].built = v] \in [Boxes -> BoxRecords]
         /\ [box EXCEPT ![b].deployed = v] \in [Boxes -> BoxRecords]
  BY DEF BoxRecords

-----------------------------------------------------------------------------
\* Where the pipeline goes.
LEMMA FollowingType == todo \subseteq Seeds => Following \subseteq Pcs \ {"sync"}
<1>1. "sync" \notin Seeds
  BY SeedsAssumption DEF OtherPcs
<1> QED
  BY <1>1, SeedsAssumption
  DEF Following, Pcs, Steps, FixedSteps, ProvisionerFixed, RunnerSteps, OtherPcs

LEMMA AdvanceType ==
  ASSUME TypeInv, Advance
  PROVE  pc' \in Pcs /\ pc' # "sync" /\ ran' = FALSE /\ todo' \subseteq Seeds
  BY FollowingType DEF TypeInv, CommandOK, Advance

LEMMA ReturnType ==
  ASSUME TypeInv, Return
  PROVE  CommandOK' /\ pc' # "sync" /\ ran' = FALSE
  BY NoEntryType, NoOutputsType
  DEF TypeInv, CommandOK, Return, Pcs, OtherPcs

-----------------------------------------------------------------------------
\* Every action keeps the types.
LEMMA BeginType ==
  ASSUME TypeInv, NEW c, BeginProvisioner(c) \/ BeginOnRecord(c)
  PROVE  entry' \in Entries /\ CommandOK' /\ WorldOK' /\ pc' # "sync" /\ ~ran'
<1>1. c \in AllCommands
  BY DEF BeginProvisioner, BeginOnRecord, AllCommands
<1>2. /\ cmd' = c /\ ran' = FALSE /\ outs' \in Contents /\ mf' \in Contents
      /\ synced' \in Nat
      /\ WorldOK'
  <2>1. Launch(c)
    BY DEF BeginProvisioner, BeginOnRecord
  <2>2. UNCHANGED world
    BY <2>1 DEF Launch
  <2>3. WorldOK'
    BY <2>2 DEF TypeInv, WorldOK, world
  <2> QED BY <2>1, <2>3, NoOutputsType DEF Launch
<1>3. CASE BeginProvisioner(c)
  <2>1. PICK S \in FromChoices(c) :
           entry' = Marked(IF entry.status = "absent" THEN NewEntry ELSE entry, S, "none")
    BY <1>3 DEF BeginProvisioner
  <2>2. entry' \in Entries
    BY <2>1, NoEntryType, MarkedType DEF TypeInv, StepStatus
  <2>3. mem' = entry' /\ ca' \in Boxes \cup {NoBox} /\ todo' = Seeds
          /\ pc' = "provisioner_before" /\ forced' \in BOOLEAN
    BY <1>3, BoxAssumption, ConfigAssumption DEF BeginProvisioner
  <2> QED
    BY <1>1, <1>2, <2>2, <2>3
    DEF CommandOK, Pcs, Steps, FixedSteps, ProvisionerFixed
<1>4. CASE BeginOnRecord(c)
  <2>1. entry' = entry /\ mem' = entry /\ ca' = NoBox /\ todo' = {}
          /\ forced' \in BOOLEAN /\ pc' \in {"load_manifest", "runner_destroy"}
    BY <1>4 DEF BeginOnRecord
  <2> QED
    BY <1>1, <1>2, <2>1 DEF TypeInv, CommandOK, Pcs, OtherPcs, DestroySteps
<1> QED BY <1>3, <1>4

LEMMA BypassStepType == TypeInv /\ BypassStep => TypeInv'
  BY AdvanceType
  DEF BypassStep, TypeInv, CommandOK, WorldOK, BudgetOK, world, budget

LEMMA SkipStepType == TypeInv /\ SkipStep => TypeInv'
<1> SUFFICES ASSUME TypeInv, SkipStep PROVE TypeInv'
  OBVIOUS
<1>1. mem.compute \in Boxes \cup {NoBox} /\ mem.seedOut \in Contents
  BY DEF TypeInv, CommandOK, Entries
<1>2. ca' \in Boxes \cup {NoBox}
  BY <1>1 DEF SkipStep, TypeInv, CommandOK
<1>3. outs' \in Contents
  <2>1. ASSUME pc \in Seeds PROVE [outs EXCEPT ![pc] = mem.seedOut[pc]] \in Contents
    BY <1>1, <2>1 DEF TypeInv, CommandOK, Contents
  <2> QED BY <2>1 DEF SkipStep, TypeInv, CommandOK
<1>4. mf' \in Contents
  BY DEF SkipStep, TypeInv, CommandOK
<1> QED
  BY <1>2, <1>3, <1>4, AdvanceType
  DEF SkipStep, TypeInv, CommandOK, WorldOK, BudgetOK, world, budget

LEMMA CheckpointType == TypeInv /\ Checkpoint => TypeInv'
<1> SUFFICES ASSUME TypeInv, Checkpoint PROVE TypeInv'
  OBVIOUS
<1>1. entry' \in Entries
  <2>1. pc \in Steps /\ mem \in Entries /\ outs \in Contents
    BY DEF Checkpoint, TypeInv, CommandOK
  <2> QED BY <2>1, CompletedType DEF Checkpoint
<1>2. WorldOK' /\ BudgetOK'
  BY DEF Checkpoint, TypeInv, WorldOK, BudgetOK, world, budget
<1>3. CASE cmd = "refresh" /\ Return
  BY <1>1, <1>2, <1>3, ReturnType DEF TypeInv
<1>4. CASE /\ Advance
           /\ mem' = IF pc = "create_compute"
                     THEN [entry' EXCEPT !.compute = ca, !.managed = TRUE]
                     ELSE entry'
           /\ UNCHANGED <<cmd, forced, ca, outs, mf, synced>>
  <2>1. mem' \in Entries
    BY <1>1, <1>4 DEF TypeInv, CommandOK, Entries
  <2> QED
    BY <1>1, <1>2, <1>4, <2>1, AdvanceType DEF TypeInv, CommandOK
<1> QED BY <1>3, <1>4 DEF Checkpoint

LEMMA ReturnKeepsType ==
  ASSUME TypeInv, Return, entry' \in Entries, WorldOK', BudgetOK'
  PROVE  TypeInv'
  BY ReturnType DEF TypeInv

LEMMA FaultType == TypeInv /\ (Fault \/ UNCHANGED faults) => faults' \in Nat
  BY DEF TypeInv, BudgetOK, Fault

LEMMA StepFailsType == TypeInv /\ StepFails => TypeInv'
<1> SUFFICES ASSUME TypeInv, StepFails PROVE TypeInv'
  OBVIOUS
<1>1. entry' \in Entries
  BY MarkedType DEF StepFails, TypeInv, CommandOK, StepStatus
<1>2. WorldOK'
  BY DEF StepFails, TypeInv, WorldOK, world
<1>3. BudgetOK'
  BY FaultType DEF StepFails, TypeInv, BudgetOK
<1> QED BY <1>1, <1>2, <1>3, ReturnKeepsType DEF StepFails

-----------------------------------------------------------------------------
\* The Fn of a step changes the world and what the command keeps in variables.
LEMMA ExecutesType ==
  ASSUME TypeInv, NEW s, Executes(s)
  PROVE  /\ pc = s /\ s \in Steps
         /\ UNCHANGED <<entry, cmd, forced, pc, mem, todo, origin, launches, faults, losses>>
         /\ ran' = TRUE
         /\ s \in OnCompute => ca \in Boxes /\ Up(ca)
  BY DEF Executes, CannotRun, Up, budget

LEMMA StepsAreNotSync == "sync" \notin Steps
  BY SeedsAssumption DEF Steps, FixedSteps, ProvisionerFixed, RunnerSteps, OtherPcs

LEMMA FnType ==
  ASSUME TypeInv, NEW s, Executes(s), synced' = synced,
         ca' \in Boxes \cup {NoBox}, outs' \in Contents, mf' \in Contents,
         box' \in [Boxes -> BoxRecords], docker' \in [Boxes -> DockerRecords],
         seeded' \in Contents
  PROVE  TypeInv'
<1>1. pc' \in Steps /\ pc' # "sync"
  BY ExecutesType, StepsAreNotSync
<1> QED
  BY <1>1, ExecutesType DEF TypeInv, CommandOK, WorldOK, BudgetOK

LEMMA CreateComputeType == TypeInv /\ CreateCompute => TypeInv'
<1> SUFFICES ASSUME TypeInv, CreateCompute PROVE TypeInv'
  OBVIOUS
<1>1. PICK b \in CreateTargets :
         /\ ca' = b
         /\ box' = IF Up(b) THEN box ELSE [box EXCEPT ![b] = Blank("up", origin)]
  BY DEF CreateCompute
<1>2. b \in Boxes
  BY DEF CreateTargets, Managed
<1>3. Blank("up", origin) \in BoxRecords
  BY BlankType DEF TypeInv, WorldOK, BoxStates
<1>4. box' \in [Boxes -> BoxRecords]
  BY <1>1, <1>2, <1>3 DEF TypeInv, WorldOK
<1> QED
  BY <1>1, <1>2, <1>4, FnType DEF CreateCompute, TypeInv, CommandOK, WorldOK

LEMMA SeedType == TypeInv /\ Seed => TypeInv'
<1> SUFFICES ASSUME TypeInv, Seed PROVE TypeInv'
  OBVIOUS
<1>1. outs \in [Seeds -> Nat] /\ seeded \in [Seeds -> Nat] /\ pc \in Seeds
  BY DEF Seed, TypeInv, CommandOK, WorldOK, Contents
<1>2. outs' \in Contents /\ seeded' \in Contents
  BY <1>1 DEF Seed, Contents
<1> QED
  BY <1>2, FnType DEF Seed, TypeInv, CommandOK, WorldOK

LEMMA WriteFileType == TypeInv /\ (WriteFile \/ RegenerateManifest) => TypeInv'
<1> SUFFICES ASSUME TypeInv, WriteFile \/ RegenerateManifest PROVE TypeInv'
  OBVIOUS
<1>1. Executes(pc) /\ pc \in OnCompute
  BY DEF WriteFile, RegenerateManifest, Executes, OnCompute, RunnerSteps
<1>2. ca \in Boxes
  BY <1>1, ExecutesType
<1>3. FileOf(pc) \in Files /\ "manifest" \in Files
  BY DEF FileOf, Files
<1>4. mem.outs \in Contents /\ mf \in Contents /\ box \in [Boxes -> BoxRecords]
  BY DEF TypeInv, CommandOK, WorldOK, Entries
<1>5. /\ [box EXCEPT ![ca].files[FileOf(pc)] = mf,
                      ![ca].partial = box[ca].partial /\ pc # "generate_env"]
           \in [Boxes -> BoxRecords]
      /\ [box EXCEPT ![ca].files["manifest"] = mem.outs] \in [Boxes -> BoxRecords]
  <2>1. (box[ca].partial /\ pc # "generate_env") \in BOOLEAN
    OBVIOUS
  <2> QED BY <1>2, <1>3, <1>4, <2>1, FileWriteType
<1>6. box' \in [Boxes -> BoxRecords] /\ mf' \in Contents
  BY <1>4, <1>5 DEF WriteFile, RegenerateManifest
<1>7. synced' = synced /\ ca' = ca /\ outs' = outs /\ docker' = docker /\ seeded' = seeded
  BY DEF WriteFile, RegenerateManifest
<1> QED
  BY <1>1, <1>6, <1>7, FnType DEF TypeInv, CommandOK, WorldOK

LEMMA FetchedType ==
  ASSUME TypeInv, NEW b \in Boxes
  PROVE  Fetched(b) \in [Boxes -> BoxRecords]
  BY VersionType DEF Fetched, TypeInv, WorldOK

\* Steps that change the source tree, a build or containers.
LEMMA BuildTypes ==
  TypeInv /\ (SyncStep \/ StartInfra \/ BuildServices \/ StartServices \/ RunnerDeploy)
     => TypeInv'
<1> SUFFICES ASSUME TypeInv,
                    SyncStep \/ StartInfra \/ BuildServices \/ StartServices \/ RunnerDeploy
             PROVE  TypeInv'
  OBVIOUS
<1>1. Executes(pc) /\ pc \in OnCompute
  BY DEF SyncStep, StartInfra, BuildServices, StartServices, RunnerDeploy,
         Executes, OnCompute, RunnerSteps
<1>2. ca \in Boxes /\ Host(ca) \in Boxes
  BY <1>1, ExecutesType, BoxAssumption DEF Host
<1>3. /\ box \in [Boxes -> BoxRecords] /\ docker \in [Boxes -> DockerRecords]
      /\ box[ca].tree \in Nat /\ box[ca].built \in Nat
  BY <1>2 DEF TypeInv, WorldOK, BoxRecords
<1>4. box' \in [Boxes -> BoxRecords]
  <2>1. /\ Fetched(ca) \in [Boxes -> BoxRecords]
        /\ [box EXCEPT ![ca].built = box[ca].tree] \in [Boxes -> BoxRecords]
        /\ [box EXCEPT ![ca].deployed = box[ca].tree] \in [Boxes -> BoxRecords]
    BY <1>2, <1>3, VersionType, FetchedType
  <2> QED
    BY <1>3, <2>1 DEF SyncStep, StartInfra, BuildServices, StartServices, RunnerDeploy
<1>5. docker' \in [Boxes -> DockerRecords]
  <2>1. [docker EXCEPT ![Host(ca)].infra = TRUE] \in [Boxes -> DockerRecords]
    BY <1>2, <1>3 DEF DockerRecords
  <2>2. ASSUME NEW n \in Nat
        PROVE  [docker EXCEPT ![Host(ca)].services = TRUE,
                              ![Host(ca)].made = MakingOf(ca),
                              ![Host(ca)].started = n] \in [Boxes -> DockerRecords]
    BY <1>2, <1>3, MakingType DEF DockerRecords
  <2>3. (IF UpToDate(ca) THEN docker[Host(ca)].started ELSE box[ca].built) \in Nat
    BY <1>2, <1>3 DEF DockerRecords
  <2> QED
    BY <2>1, <2>2, <2>3, <1>3 DEF SyncStep, StartInfra, BuildServices, StartServices, RunnerDeploy
<1>6. synced' = synced /\ ca' = ca /\ outs' = outs /\ mf' = mf /\ seeded' = seeded
  BY DEF SyncStep, StartInfra, BuildServices, StartServices, RunnerDeploy
<1> QED
  BY <1>1, <1>4, <1>5, <1>6, FnType DEF TypeInv, CommandOK, WorldOK

LEMMA OtherStepType == TypeInv /\ (BuildManifest \/ OtherStep) => TypeInv'
<1> SUFFICES ASSUME TypeInv, BuildManifest \/ OtherStep PROVE TypeInv'
  OBVIOUS
<1>1. /\ Executes(pc) /\ synced' = synced /\ ca' = ca /\ outs' = outs
      /\ box' = box /\ docker' = docker /\ seeded' = seeded
      /\ mf' \in {mf, outs}
  BY DEF BuildManifest, OtherStep, Executes
<1> QED
  BY <1>1, FnType DEF TypeInv, CommandOK, WorldOK

LEMMA RunFnType == TypeInv /\ RunFn => TypeInv'
  BY CreateComputeType, SeedType, WriteFileType, BuildTypes, OtherStepType DEF RunFn

-----------------------------------------------------------------------------
\* Between the steps.
LEMMA SaveType == TypeInv /\ (SaveProvisioned \/ SaveRunning) => TypeInv'
<1> SUFFICES ASSUME TypeInv, SaveProvisioned \/ SaveRunning PROVE TypeInv'
  OBVIOUS
<1>1. Provisioned \in Entries /\ Running \in Entries
  BY DEF Provisioned, Running, Entries, Statuses, TypeInv, CommandOK
<1>2. entry' \in Entries
  BY <1>1 DEF SaveProvisioned, SaveRunning
<1>3. WorldOK' /\ BudgetOK'
  BY DEF SaveProvisioned, SaveRunning, TypeInv, WorldOK, BudgetOK, world, budget
<1>4. CASE Return
  BY <1>2, <1>3, <1>4, ReturnKeepsType
<1>5. CASE SaveProvisioned /\ ~Return
  <2>1. /\ mem' = entry' /\ pc' = "load_manifest"
        /\ UNCHANGED <<cmd, forced, ran, ca, todo, outs, mf, synced>>
    BY <1>5 DEF SaveProvisioned
  <2>2. ~ran
    BY <1>5, SeedsAssumption
    DEF SaveProvisioned, TypeInv, Steps, FixedSteps, ProvisionerFixed, RunnerSteps, OtherPcs
  <2> QED
    BY <1>2, <1>3, <2>1, <2>2 DEF TypeInv, CommandOK, Pcs, OtherPcs
<1> QED BY <1>4, <1>5 DEF SaveRunning

LEMMA LoadManifestType == TypeInv /\ LoadManifest => TypeInv'
<1> SUFFICES ASSUME TypeInv, LoadManifest PROVE TypeInv'
  OBVIOUS
<1>1. mem.compute \in Boxes
  BY DEF LoadManifest, ManifestReadable, Up
<1>2. box[mem.compute].files["manifest"] \in Contents
  BY <1>1 DEF LoadManifest, ManifestReadable, TypeInv, WorldOK, BoxRecords, Files
<1>3. pc' \in RunnerSteps \cup {"sync"}
  BY DEF LoadManifest, FirstRunnerPcs
<1>4. ~ran
  BY SeedsAssumption
  DEF LoadManifest, TypeInv, Steps, FixedSteps, ProvisionerFixed, RunnerSteps, OtherPcs
<1> QED
  BY <1>1, <1>2, <1>3, <1>4
  DEF LoadManifest, TypeInv, CommandOK, WorldOK, BudgetOK, world, budget,
      Pcs, Steps, FixedSteps, OtherPcs

LEMMA SyncCodeType == TypeInv /\ SyncCode => TypeInv'
<1> SUFFICES ASSUME TypeInv, SyncCode PROVE TypeInv'
  OBVIOUS
<1>1. ca \in Boxes /\ box' \in [Boxes -> BoxRecords]
  BY FetchedType DEF SyncCode, TypeInv
<1>2. synced' \in Nat
  BY <1>1 DEF SyncCode, BoxRecords
<1>3. mem' \in Entries
  BY MarkedType DEF SyncCode, InvalidateSteps, TypeInv, CommandOK, StepStatus
<1>4. pc' = "runner_before"
  BY DEF SyncCode
<1> QED
  BY <1>1, <1>2, <1>3, <1>4
  DEF SyncCode, TypeInv, CommandOK, WorldOK, BudgetOK, budget, Pcs, Steps, FixedSteps,
      RunnerSteps

LEMMA TearDownType ==
  ASSUME TypeInv, TearDown
  PROVE  box' \in [Boxes -> BoxRecords] /\ docker' \in [Boxes -> DockerRecords]
<1>1. box \in [Boxes -> BoxRecords] /\ docker \in [Boxes -> DockerRecords]
  BY DEF TypeInv, WorldOK
<1>2. Blank("unused", 1) \in BoxRecords /\ NoContainers \in DockerRecords
  BY BlankType, NoContainersType DEF BoxStates
<1>3. [docker EXCEPT ![Worktree].infra = FALSE] \in [Boxes -> DockerRecords]
  BY <1>1, BoxAssumption DEF DockerRecords
<1>4. box' \in [Boxes -> BoxRecords]
  BY <1>1, <1>2, BoxAssumption DEF TearDown, RemovedTree
<1>5. docker' \in [Boxes -> DockerRecords]
  BY <1>1, <1>2, <1>3 DEF TearDown
<1> QED BY <1>4, <1>5

LEMMA FailuresType ==
  TypeInv /\ (LoadOrSyncFails \/ DestroyFails \/ Crash \/ RemoveState) => TypeInv'
<1> SUFFICES ASSUME TypeInv, LoadOrSyncFails \/ DestroyFails \/ Crash \/ RemoveState
             PROVE  TypeInv'
  OBVIOUS
<1>1. Return /\ UNCHANGED <<origin, seeded>>
  BY DEF LoadOrSyncFails, DestroyFails, Crash, RemoveState, world
<1>2. entry' \in Entries
  BY NoEntryType DEF LoadOrSyncFails, DestroyFails, Crash, RemoveState, TypeInv
<1>3. BudgetOK'
  BY FaultType
  DEF LoadOrSyncFails, DestroyFails, Crash, RemoveState, TypeInv, BudgetOK, budget
<1>4. box' \in [Boxes -> BoxRecords] /\ docker' \in [Boxes -> DockerRecords]
  <2>1. box \in [Boxes -> BoxRecords] /\ docker \in [Boxes -> DockerRecords]
    BY DEF TypeInv, WorldOK
  <2>2. CASE UNCHANGED <<box, docker>>
    BY <2>1, <2>2
  <2>3. CASE PartlyTornDown
    <3>1. [docker EXCEPT ![Worktree].infra = FALSE] \in [Boxes -> DockerRecords]
      BY <2>1, BoxAssumption DEF DockerRecords
    <3> QED BY <2>1, <2>3, <3>1, TearDownType DEF PartlyTornDown
  <2> QED BY <2>2, <2>3 DEF LoadOrSyncFails, DestroyFails, Crash, RemoveState, world
<1>5. WorldOK'
  BY <1>1, <1>4 DEF TypeInv, WorldOK
<1> QED BY <1>1, <1>2, <1>3, <1>5, ReturnKeepsType

-----------------------------------------------------------------------------
\* Destroy.
LEMMA DestroyStepType ==
  ASSUME TypeInv, NEW s, NEW next \in DestroySteps, s \in DestroySteps,
         DestroyAt(s, next),
         box' \in [Boxes -> BoxRecords], docker' \in [Boxes -> DockerRecords]
  PROVE  TypeInv'
<1>1. pc' \in Pcs /\ pc' # "sync" /\ ~ran
  BY SeedsAssumption
  DEF DestroyAt, TypeInv, Pcs, DestroySteps, Steps, FixedSteps, ProvisionerFixed, RunnerSteps
<1> QED
  BY <1>1 DEF DestroyAt, TypeInv, CommandOK, WorldOK, BudgetOK, budget

LEMMA CleanupEnvType ==
  ASSUME TypeInv, CleanupEnv
  PROVE  box' \in [Boxes -> BoxRecords]
<1>1. box \in [Boxes -> BoxRecords] /\ mem.compute \in Boxes \cup {NoBox}
  BY DEF TypeInv, WorldOK, CommandOK, Entries
<1>2. ASSUME mem.compute # NoBox
      PROVE  [box EXCEPT ![mem.compute].files["env"] = NoFile,
                         ![mem.compute].partial = FALSE] \in [Boxes -> BoxRecords]
  BY <1>1, <1>2, FileWriteType DEF Files
<1> QED BY <1>1, <1>2 DEF CleanupEnv

LEMMA DestroyingType == TypeInv /\ Destroying => TypeInv'
<1> SUFFICES ASSUME TypeInv, Destroying PROVE TypeInv'
  OBVIOUS
<1>1. box \in [Boxes -> BoxRecords] /\ docker \in [Boxes -> DockerRecords]
  BY DEF TypeInv, WorldOK
<1>2. CASE RunnerDestroy \/ ServiceDestroy
  BY <1>1, <1>2, DestroyStepType DEF RunnerDestroy, ServiceDestroy, DestroySteps
<1>3. CASE ComputeDestroy
  BY <1>3, TearDownType, DestroyStepType DEF ComputeDestroy, DestroySteps
<1>4. CASE CleanupEnv
  BY <1>1, <1>4, CleanupEnvType, DestroyStepType DEF CleanupEnv, DestroySteps
<1>5. CASE RemoveState \/ DestroyFails
  BY <1>5, FailuresType
<1> QED BY <1>2, <1>3, <1>4, <1>5 DEF Destroying

-----------------------------------------------------------------------------
\* The world around the commands.
LEMMA ResetType ==
  ASSUME TypeInv, NEW s \in Seeds, CoreSeed(s) \/ Reset(s)
  PROVE  TypeInv'
<1>1. seeded \in [Seeds -> Nat] /\ entry \in Entries /\ launches \in Nat
  BY DEF TypeInv, WorldOK, BudgetOK, Contents
<1>2. seeded' \in Contents
  BY <1>1 DEF CoreSeed, Reset, Contents
<1>3. [entry EXCEPT !.outs[s] = seeded[s] + 1] \in Entries
  <2>1. entry.outs \in [Seeds -> Nat]
    BY <1>1 DEF Entries, Contents
  <2>2. [entry.outs EXCEPT ![s] = seeded[s] + 1] \in Contents
    BY <1>1, <2>1 DEF Contents
  <2> QED BY <1>1, <2>2 DEF Entries
<1>4. entry' \in Entries
  BY <1>1, <1>3 DEF CoreSeed, Reset
<1>5. WorldOK' /\ BudgetOK'
  BY <1>1, <1>2, FaultType DEF CoreSeed, Reset, TypeInv, WorldOK, BudgetOK
<1>6. CASE UNCHANGED invocation
  BY <1>4, <1>5, <1>6 DEF TypeInv, CommandOK, invocation
<1>7. CASE /\ cmd' = "refresh" /\ forced' = TRUE /\ mem' = entry'
           /\ pc' = "load_manifest" /\ ran' = FALSE
           /\ UNCHANGED <<ca, todo, outs, mf, synced>>
  BY <1>4, <1>5, <1>7 DEF TypeInv, CommandOK, AllCommands, Pcs, OtherPcs
<1> QED BY <1>6, <1>7 DEF CoreSeed, Reset

LEMMA EnvironmentType == TypeInv /\ Environment => TypeInv'
<1> SUFFICES ASSUME TypeInv, Environment PROVE TypeInv'
  OBVIOUS
<1>1. /\ box \in [Boxes -> BoxRecords] /\ docker \in [Boxes -> DockerRecords]
      /\ origin \in Nat /\ losses \in Nat
  BY DEF TypeInv, WorldOK, BudgetOK
<1>2. CASE Crash
  BY <1>2, FailuresType
<1>3. ASSUME NEW b \in Boxes, LoseBox(b) PROVE TypeInv'
  <2>1. Blank(IF Remote THEN "gone" ELSE "unused", 1) \in BoxRecords
    BY BlankType DEF BoxStates
  <2>2. box' \in [Boxes -> BoxRecords] /\ docker' \in [Boxes -> DockerRecords]
    BY <1>1, <1>3, <2>1, NoContainersType DEF LoseBox
  <2> QED
    BY <1>1, <1>3, <2>2
    DEF LoseBox, Loss, TypeInv, CommandOK, WorldOK, BudgetOK, invocation
<1>4. ASSUME NEW b \in Boxes, LoseArtifact(b) PROVE TypeInv'
  <2>1. Host(b) \in Boxes
    BY BoxAssumption DEF Host
  <2>2. ASSUME NEW f \in Files
        PROVE  /\ [box EXCEPT ![b].files[f] = NoFile,
                               ![b].partial = box[b].partial /\ f # "env"]
                    \in [Boxes -> BoxRecords]
               /\ [box EXCEPT ![b].partial = box[b].partial \/ f = "env"]
                    \in [Boxes -> BoxRecords]
    <3>1. /\ (box[b].partial /\ f # "env") \in BOOLEAN
          /\ (box[b].partial \/ f = "env") \in BOOLEAN
      OBVIOUS
    <3> QED BY <1>1, <3>1, FileWriteType
  <2>3. box' \in [Boxes -> BoxRecords] /\ docker' \in [Boxes -> DockerRecords]
    <3>1. /\ [docker EXCEPT ![Host(b)].infra = FALSE] \in [Boxes -> DockerRecords]
          /\ [docker EXCEPT ![Host(b)].services = FALSE] \in [Boxes -> DockerRecords]
          /\ [docker EXCEPT ![Host(b)] = NoContainers] \in [Boxes -> DockerRecords]
      BY <1>1, <2>1, NoContainersType DEF DockerRecords
    <3>2. box' \in [Boxes -> BoxRecords]
      <4>1. CASE UNCHANGED box
        BY <1>1, <4>1
      <4>2. CASE \E f \in Files :
                   box' \in {[box EXCEPT ![b].files[f] = NoFile,
                                        ![b].partial = box[b].partial /\ f # "env"],
                            [box EXCEPT ![b].partial = box[b].partial \/ f = "env"]}
        BY <2>2, <4>2
      <4> QED BY <1>4, <4>1, <4>2 DEF LoseArtifact
    <3>3. docker' \in [Boxes -> DockerRecords]
      BY <1>1, <1>4, <3>1 DEF LoseArtifact
    <3> QED BY <3>2, <3>3
  <2> QED
    BY <1>1, <1>4, <2>3
    DEF LoseArtifact, Loss, TypeInv, CommandOK, WorldOK, BudgetOK, invocation
<1>6. ASSUME NEW b \in Boxes, Infra(b) PROVE TypeInv'
  <2>1. ASSUME NEW running \in BOOLEAN
        PROVE  [docker EXCEPT ![b].infra = running] \in [Boxes -> DockerRecords]
    BY <1>1 DEF DockerRecords
  <2>2. docker' \in [Boxes -> DockerRecords] /\ launches' \in Nat
    BY <1>6, <2>1 DEF Infra, TypeInv, BudgetOK
  <2> QED
    BY <1>1, <1>6, <2>2
    DEF Infra, TypeInv, CommandOK, WorldOK, BudgetOK, invocation
<1>5. CASE Push
  <2>1. origin' \in Nat
    BY <1>1, <1>5 DEF Push
  <2>2. ASSUME NEW b \in Boxes PROVE [box[b] EXCEPT !.tree = origin + 1] \in BoxRecords
    BY <1>1 DEF BoxRecords
  <2>3. box' \in [Boxes -> BoxRecords]
    BY <1>1, <1>5, <2>2 DEF Push
  <2> QED
    BY <1>5, <2>1, <2>3
    DEF Push, TypeInv, CommandOK, WorldOK, BudgetOK, invocation, budget
<1>7. ASSUME NEW s \in Seeds, CoreSeed(s) \/ Reset(s) PROVE TypeInv'
  BY <1>7, ResetType
<1> QED BY <1>2, <1>3, <1>4, <1>5, <1>6, <1>7 DEF Environment

LEMMA InitType == Init => TypeInv
<1> SUFFICES ASSUME Init PROVE TypeInv
  OBVIOUS
<1>1. CommandOK
  BY NoEntryType, NoOutputsType DEF Init, CommandOK, Pcs, OtherPcs
<1>2. WorldOK
  <2>1. ASSUME NEW b \in Boxes
        PROVE  Blank(IF ~Remote /\ b = UserTree THEN "up" ELSE "unused", 1) \in BoxRecords
    BY BlankType DEF BoxStates
  <2> QED
    BY <2>1, NoContainersType, NoOutputsType DEF Init, WorldOK
<1>3. BudgetOK /\ entry \in Entries /\ pc # "sync" /\ ~ran
  BY NoEntryType DEF Init, BudgetOK
<1> QED BY <1>1, <1>2, <1>3 DEF TypeInv

LEMMA NextType == TypeInv /\ [Next]_vars => TypeInv'
<1> SUFFICES ASSUME TypeInv, [Next]_vars PROVE TypeInv'
  OBVIOUS
<1>1. CASE Begin
  <2>1. PICK c \in Commands : BeginProvisioner(c) \/ BeginOnRecord(c)
    BY <1>1 DEF Begin
  <2>2. Launch(c)
    BY <2>1 DEF BeginProvisioner, BeginOnRecord
  <2>3. faults' = faults /\ losses' = losses /\ launches' = launches + 1
    BY <1>1, <2>2 DEF Begin, Launch
  <2>4. BudgetOK'
    BY <2>3 DEF TypeInv, BudgetOK
  <2> QED BY <2>1, <2>4, BeginType DEF TypeInv
<1>2. CASE Proceed
  BY <1>2, BypassStepType, SkipStepType, RunFnType, CheckpointType, StepFailsType,
     SaveType, LoadManifestType, SyncCodeType, FailuresType, DestroyingType
  DEF Proceed
<1>3. CASE Environment
  BY <1>3, EnvironmentType
<1>4. CASE UNCHANGED vars
  BY <1>4
  DEF vars, invocation, world, budget, TypeInv, CommandOK, WorldOK, BudgetOK
<1> QED BY <1>1, <1>2, <1>3, <1>4 DEF Next

\* Every variable keeps its type: in particular no step ever works on a file
\* that is not there, on compute nobody created, or without an entry
\* (domain/manager.go, domain/step_registry.go).
THEOREM TypeCorrect == Spec => []TypeOK
<1>1. Spec => []TypeInv
  BY InitType, NextType, PTL DEF Spec
<1> QED BY <1>1, TypeInvImpliesTypeOK, PTL

-----------------------------------------------------------------------------
(***************************************************************************)
(* Seeds.  While a command runs, what the store and its copy say about     *)
(* seeds is the same: the copy is written back in the step that changes    *)
(* it.  Hence a hook that runs was not recorded as completed in the store, *)
(* and the next record of it is made from its own outputs.                 *)
(***************************************************************************)
CommandHasSteps == pc # "idle" => cmd # "none"

SeedsWrittenBack ==
    cmd # "none" => \A s \in Seeds : /\ entry.steps[s] = mem.steps[s]
                                    /\ entry.seedOut[s] = mem.seedOut[s]

\* Only "refresh" ignores checkpoints, and it has no provisioner steps.
SeedsNotForced ==
    /\ forced => AllowNoCache \/ cmd = "refresh"
    /\ cmd = "refresh" => pc \in RunnerSteps \cup {"load_manifest"}

SeedOutputsHeld == ran /\ pc \in Seeds => outs[pc] = seeded[pc]

SeedInv == TypeInv /\ CommandHasSteps /\ SeedsWrittenBack /\ SeedsNotForced
              /\ SeedOutputsHeld /\ SeedCheckpointCurrent

LEMMA SeedsApart ==
  /\ Seeds \cap FixedSteps = {} /\ "idle" \notin Steps
  /\ Seeds \cap RunnerSteps = {} /\ Seeds \cap Resynced = {}
  /\ FixedSteps \cap OtherPcs = {} /\ Steps \cap DestroySteps = {}
  /\ Steps \cap OtherPcs = {} /\ "load_manifest" \notin Steps
<1>1. FixedSteps \cap DestroySteps = {}
  BY DEF FixedSteps, ProvisionerFixed, RunnerSteps, DestroySteps
<1>2. Steps \cap DestroySteps = {}
  BY <1>1, SeedsAssumption DEF Steps
<1>3. FixedSteps \cap OtherPcs = {}
  BY DEF FixedSteps, ProvisionerFixed, RunnerSteps, OtherPcs
<1>4. Steps \cap OtherPcs = {}
  BY <1>3, SeedsAssumption DEF Steps
<1>5. "idle" \in OtherPcs /\ "load_manifest" \in OtherPcs
  BY DEF OtherPcs
<1>6. Seeds \cap FixedSteps = {} /\ RunnerSteps \subseteq FixedSteps
        /\ Resynced \subseteq FixedSteps
  BY SeedsAssumption DEF FixedSteps, RunnerSteps, Resynced
<1> QED BY <1>2, <1>3, <1>4, <1>5, <1>6

\* A seed hook runs only when its record, in the store and in the copy, is not
\* that of a completed step.
LEMMA SeedNotCompleted ==
  ASSUME CommandHasSteps, SeedsWrittenBack, Seed
  PROVE  forced \/ entry.steps[pc] # "completed"
<1>1. pc \in Seeds /\ ~Skips(pc) /\ pc \in Steps
  BY SeedsApart DEF Seed, Executes, Runs, RunnerSteps
<1>2. pc \notin AlwaysRun /\ pc \notin FixedSteps
  BY <1>1, SeedsApart, ConfigAssumption DEF FixedSteps, RunnerSteps
<1>3. Verified(pc)
  BY <1>2 DEF Verified, FixedSteps, ProvisionerFixed, RunnerSteps
<1>4. forced \/ mem.steps[pc] # "completed"
  BY <1>1, <1>2, <1>3 DEF Skips
<1>5. cmd # "none"
  BY <1>1, SeedsApart DEF CommandHasSteps
<1> QED BY <1>1, <1>4, <1>5 DEF SeedsWrittenBack

\* Actions that touch neither the record nor the seeds.
LEMMA RecordUntouched ==
  ASSUME \/ BypassStep \/ SkipStep \/ LoadManifest \/ RunFn
         \/ RunnerDestroy \/ ServiceDestroy \/ ComputeDestroy \/ CleanupEnv
         \/ Push \/ (\E b \in Boxes : LoseBox(b) \/ LoseArtifact(b) \/ Infra(b))
         \/ UNCHANGED vars
  PROVE  UNCHANGED <<entry, cmd, forced, mem>> /\ (Seed \/ seeded' = seeded)
<1>1. CASE RunFn
  BY <1>1 DEF RunFn, CreateCompute, Seed, BuildManifest, WriteFile, RegenerateManifest,
              SyncStep, StartInfra, BuildServices, StartServices, RunnerDeploy,
              OtherStep, Executes
<1>2. CASE BypassStep \/ SkipStep \/ LoadManifest
  BY <1>2 DEF BypassStep, SkipStep, LoadManifest, world
<1>3. CASE RunnerDestroy \/ ServiceDestroy \/ ComputeDestroy \/ CleanupEnv
  BY <1>3 DEF RunnerDestroy, ServiceDestroy, ComputeDestroy, CleanupEnv, DestroyAt
<1>4. CASE Push \/ (\E b \in Boxes : LoseBox(b) \/ LoseArtifact(b) \/ Infra(b))
  BY <1>4 DEF Push, LoseBox, LoseArtifact, Infra, invocation
<1>5. CASE UNCHANGED vars
  BY <1>5 DEF vars, invocation, world
<1> QED BY <1>1, <1>2, <1>3, <1>4, <1>5

\* Actions that end the command.
LEMMA Returning ==
  ASSUME StepFails \/ SaveRunning \/ LoadOrSyncFails \/ RemoveState \/ DestroyFails \/ Crash
  PROVE  Return /\ seeded' = seeded
  BY DEF StepFails, SaveRunning, LoadOrSyncFails, RemoveState, DestroyFails, Crash, world

LEMMA NextCases ==
  ASSUME [Next]_vars
  PROVE  \/ Begin \/ Checkpoint \/ SaveProvisioned \/ SyncCode
         \/ StepFails \/ SaveRunning \/ LoadOrSyncFails \/ RemoveState \/ DestroyFails \/ Crash
         \/ BypassStep \/ SkipStep \/ LoadManifest \/ RunFn
         \/ RunnerDestroy \/ ServiceDestroy \/ ComputeDestroy \/ CleanupEnv
         \/ Push \/ (\E b \in Boxes : LoseBox(b) \/ LoseArtifact(b) \/ Infra(b))
         \/ (\E s \in Seeds : CoreSeed(s) \/ Reset(s))
         \/ UNCHANGED vars
  BY DEF Next, Proceed, Environment, Destroying

\* A reset keeps the checkpoints, and may start a refresh on them; a core seed
\* keeps the whole record.
LEMMA ResetFacts ==
  ASSUME TypeInv, NEW u \in Seeds, CoreSeed(u) \/ Reset(u)
  PROVE  /\ cmd = "none" /\ box' = box
         /\ entry'.steps = entry.steps /\ entry'.seedOut = entry.seedOut
         /\ entry'.status = entry.status
         /\ seeded' = [seeded EXCEPT ![u] = seeded[u] + 1]
         /\ \/ UNCHANGED invocation
            \/ /\ cmd' = "refresh" /\ pc' = "load_manifest" /\ mem' = entry' /\ ~ran'
               /\ entry.status # "absent"
<1>1. entry \in Entries
  BY DEF TypeInv
<1>2. /\ [entry EXCEPT !.outs[u] = seeded[u] + 1].steps = entry.steps
      /\ [entry EXCEPT !.outs[u] = seeded[u] + 1].seedOut = entry.seedOut
      /\ [entry EXCEPT !.outs[u] = seeded[u] + 1].status = entry.status
  BY <1>1 DEF Entries
<1> QED BY <1>2 DEF CoreSeed, Reset

LEMMA BeginFacts ==
  ASSUME Begin
  PROVE  /\ cmd' # "none" /\ mem' = entry' /\ ran' = FALSE /\ seeded' = seeded
         /\ forced' => AllowNoCache \/ cmd' = "refresh"
         /\ cmd' = "refresh" => pc' = "load_manifest"
<1>1. PICK c \in Commands : BeginProvisioner(c) \/ BeginOnRecord(c)
  BY DEF Begin
<1>2. Launch(c)
  BY <1>1 DEF BeginProvisioner, BeginOnRecord
<1>3. cmd' = c /\ ran' = FALSE /\ seeded' = seeded
  BY <1>2 DEF Launch, world
<1>4. c # "none" /\ mem' = entry'
  BY <1>1 DEF BeginProvisioner, BeginOnRecord
<1>5. (forced' => AllowNoCache \/ c = "refresh") /\ (c = "refresh" => pc' = "load_manifest")
  BY <1>1, ConfigAssumption DEF BeginProvisioner, BeginOnRecord
<1> QED BY <1>3, <1>4, <1>5

LEMMA CommandHasStepsKept == TypeInv /\ CommandHasSteps /\ [Next]_vars => CommandHasSteps'
<1> SUFFICES ASSUME TypeInv, CommandHasSteps, [Next]_vars PROVE CommandHasSteps'
  OBVIOUS
<1>1. CASE Begin
  BY <1>1, BeginFacts DEF CommandHasSteps
<1>2. CASE StepFails \/ SaveRunning \/ LoadOrSyncFails \/ RemoveState \/ DestroyFails \/ Crash
  BY <1>2, Returning DEF CommandHasSteps, Return
<1>3. CASE Checkpoint \/ SaveProvisioned
  <2>1. pc # "idle"
    BY <1>3, SeedsApart DEF Checkpoint, SaveProvisioned, TypeInv
  <2>2. Return \/ cmd' = cmd
    BY <1>3 DEF Checkpoint, SaveProvisioned
  <2> QED BY <2>1, <2>2 DEF CommandHasSteps, Return
<1>4. CASE SyncCode
  BY <1>4 DEF SyncCode, CommandHasSteps
<1>5. CASE BypassStep \/ SkipStep \/ LoadManifest
  BY <1>5, SeedsApart DEF BypassStep, SkipStep, LoadManifest, CommandHasSteps
<1>6. CASE RunFn
  BY <1>6 DEF RunFn, CreateCompute, Seed, BuildManifest, WriteFile, RegenerateManifest,
              SyncStep, StartInfra, BuildServices, StartServices, RunnerDeploy,
              OtherStep, Executes, CommandHasSteps
<1>7. CASE RunnerDestroy \/ ServiceDestroy \/ ComputeDestroy \/ CleanupEnv
  BY <1>7 DEF RunnerDestroy, ServiceDestroy, ComputeDestroy, CleanupEnv, DestroyAt,
              CommandHasSteps
<1>8. CASE Push \/ (\E b \in Boxes : LoseBox(b) \/ LoseArtifact(b) \/ Infra(b))
  BY <1>8 DEF Push, LoseBox, LoseArtifact, Infra, invocation, CommandHasSteps
<1>9. CASE UNCHANGED vars
  BY <1>9 DEF vars, invocation, CommandHasSteps
<1>10. ASSUME NEW u \in Seeds, CoreSeed(u) \/ Reset(u) PROVE CommandHasSteps'
  BY <1>10, ResetFacts DEF invocation, CommandHasSteps
<1> QED
  BY NextCases, <1>1, <1>2, <1>3, <1>4, <1>5, <1>6, <1>7, <1>8, <1>9, <1>10

LEMMA SeedsWrittenBackKept ==
  TypeInv /\ SeedsWrittenBack /\ [Next]_vars => SeedsWrittenBack'
<1> SUFFICES ASSUME TypeInv, SeedsWrittenBack, [Next]_vars PROVE SeedsWrittenBack'
  OBVIOUS
<1>1. CASE Begin
  BY <1>1, BeginFacts DEF SeedsWrittenBack
<1>2. CASE StepFails \/ SaveRunning \/ LoadOrSyncFails \/ RemoveState \/ DestroyFails \/ Crash
  BY <1>2, Returning DEF SeedsWrittenBack, Return
<1>3. CASE Checkpoint \/ SaveProvisioned
  <2>1. entry' \in Entries
    BY <1>3, CheckpointType, SaveType DEF TypeInv
  <2>2. CASE Return
    BY <2>2 DEF SeedsWrittenBack, Return
  <2>3. CASE mem' = entry' \/ mem' = [entry' EXCEPT !.compute = ca, !.managed = TRUE]
    BY <2>1, <2>3 DEF SeedsWrittenBack, Entries
  <2> QED BY <1>3, <2>2, <2>3 DEF Checkpoint, SaveProvisioned
<1>4. CASE SyncCode
  <2>1. /\ mem' = InvalidateSteps(mem, Resynced)
        /\ UNCHANGED <<entry, cmd>>
    BY <1>4 DEF SyncCode
  <2>2. mem \in Entries
    BY DEF TypeInv, CommandOK
  <2>3. \A s \in Seeds : mem'.steps[s] = mem.steps[s] /\ mem'.seedOut[s] = mem.seedOut[s]
    BY <2>1, <2>2, SeedsApart DEF InvalidateSteps, Marked, Entries, Steps
  <2> QED BY <2>1, <2>3 DEF SeedsWrittenBack
<1>5. CASE \/ BypassStep \/ SkipStep \/ LoadManifest \/ RunFn
           \/ RunnerDestroy \/ ServiceDestroy \/ ComputeDestroy \/ CleanupEnv
           \/ Push \/ (\E b \in Boxes : LoseBox(b) \/ LoseArtifact(b) \/ Infra(b))
           \/ UNCHANGED vars
  BY <1>5, RecordUntouched DEF SeedsWrittenBack
<1>6. ASSUME NEW u \in Seeds, CoreSeed(u) \/ Reset(u) PROVE SeedsWrittenBack'
  BY <1>6, ResetFacts DEF invocation, SeedsWrittenBack
<1> QED BY NextCases, <1>1, <1>2, <1>3, <1>4, <1>5, <1>6

\* A command without --no-cache never runs a seed hook whose completion is in
\* the store (Manager.step's skip, with seed hooks that have no Verify): a
\* retry seeds a database again only if its first run was never recorded.
THEOREM SeedsRunOnce == Spec => CompletedSeedsNotRerun
<1> DEFINE I == TypeInv /\ CommandHasSteps /\ SeedsWrittenBack
<1>1. Init => I
  BY InitType DEF Init, CommandHasSteps, SeedsWrittenBack
<1>2. I /\ [Next]_vars => I'
  BY NextType, CommandHasStepsKept, SeedsWrittenBackKept
<1>3. I /\ [Next]_vars =>
        [\A s \in Seeds : cmd # "none" /\ seeded'[s] # seeded[s]
                             => forced \/ entry.steps[s] # "completed"]_vars
  <2> SUFFICES ASSUME I, [Next]_vars, NEW s \in Seeds, cmd # "none",
                      seeded'[s] # seeded[s]
               PROVE  forced \/ entry.steps[s] # "completed"
    OBVIOUS
  <2>1. Seed
    <3>1. seeded' # seeded
      OBVIOUS
    <3>2. (Begin => seeded' = seeded) /\ (Checkpoint => seeded' = seeded)
            /\ (SaveProvisioned => seeded' = seeded) /\ (SyncCode => seeded' = seeded)
      BY BeginFacts DEF Checkpoint, SaveProvisioned, SyncCode, world
    <3>3. ASSUME NEW u \in Seeds PROVE ~CoreSeed(u) /\ ~Reset(u)
      BY ResetFacts
    <3> QED BY <3>1, <3>2, <3>3, NextCases, Returning, RecordUntouched
  <2>2. s = pc
    BY <2>1 DEF Seed, TypeInv, WorldOK, Contents
  <2> QED BY <2>1, <2>2, SeedNotCompleted
<1> QED
  BY <1>1, <1>2, <1>3, PTL DEF Spec, CompletedSeedsNotRerun

LEMMA SeedsNotForcedKept ==
  TypeInv /\ SeedsNotForced /\ [Next]_vars => SeedsNotForced'
<1> SUFFICES ASSUME TypeInv, SeedsNotForced, [Next]_vars PROVE SeedsNotForced'
  OBVIOUS
<1>1. CASE Begin
  BY <1>1, BeginFacts DEF SeedsNotForced
<1>2. CASE StepFails \/ SaveRunning \/ LoadOrSyncFails \/ RemoveState \/ DestroyFails \/ Crash
  BY <1>2, Returning DEF SeedsNotForced, Return
<1>3. CASE BypassStep \/ SkipStep \/ Checkpoint
  <2>1. CASE Return
    BY <2>1 DEF SeedsNotForced, Return
  <2>2. CASE Advance /\ UNCHANGED <<cmd, forced>>
    <3>1. ASSUME cmd = "refresh" PROVE pc' \in RunnerSteps
      <4>1. pc \in RunnerSteps
        <5>1. pc \in Steps
          BY <1>3 DEF BypassStep, SkipStep, Checkpoint, TypeInv
        <5>2. cmd = "refresh"
          BY <2>2, <3>1
        <5> QED BY <5>1, <5>2, SeedsApart DEF SeedsNotForced
      <4>2. pc \notin Seeds /\ pc' \in Following
        BY <2>2, <4>1, SeedsApart DEF Advance
      <4> QED BY <3>1, <4>1, <4>2 DEF Following, RunnerSteps
    <3> QED BY <2>2, <3>1 DEF SeedsNotForced
  <2> QED BY <1>3, <2>1, <2>2 DEF BypassStep, SkipStep, Checkpoint
<1>4. CASE SaveProvisioned \/ SyncCode
  <2>1. cmd # "refresh"
    BY <1>4 DEF SaveProvisioned, SyncCode, SeedsNotForced, RunnerSteps
  <2> QED
    BY <1>4, <2>1 DEF SaveProvisioned, SyncCode, SeedsNotForced, Return
<1>5. CASE LoadManifest
  BY <1>5 DEF LoadManifest, FirstRunnerPcs, SeedsNotForced
<1>6. CASE RunFn
  BY <1>6 DEF RunFn, CreateCompute, Seed, BuildManifest, WriteFile, RegenerateManifest,
              SyncStep, StartInfra, BuildServices, StartServices, RunnerDeploy,
              OtherStep, Executes, SeedsNotForced
<1>7. CASE RunnerDestroy \/ ServiceDestroy \/ ComputeDestroy \/ CleanupEnv
  BY <1>7 DEF RunnerDestroy, ServiceDestroy, ComputeDestroy, CleanupEnv, DestroyAt,
              SeedsNotForced, RunnerSteps
<1>8. CASE \/ Push \/ (\E b \in Boxes : LoseBox(b) \/ LoseArtifact(b) \/ Infra(b))
           \/ UNCHANGED vars
  BY <1>8 DEF Push, LoseBox, LoseArtifact, Infra, invocation, vars, SeedsNotForced
<1>9. ASSUME NEW u \in Seeds, CoreSeed(u) \/ Reset(u) PROVE SeedsNotForced'
  BY <1>9, ResetFacts DEF invocation, SeedsNotForced
<1> QED BY NextCases, <1>1, <1>2, <1>3, <1>4, <1>5, <1>6, <1>7, <1>8, <1>9

LEMMA SeedOutputsHeldKept ==
  TypeInv /\ CommandHasSteps /\ SeedOutputsHeld /\ [Next]_vars => SeedOutputsHeld'
<1> SUFFICES ASSUME TypeInv, CommandHasSteps, SeedOutputsHeld, [Next]_vars
             PROVE  SeedOutputsHeld'
  OBVIOUS
<1>1. CASE Begin
  BY <1>1, BeginFacts DEF SeedOutputsHeld
<1>2. CASE StepFails \/ SaveRunning \/ LoadOrSyncFails \/ RemoveState \/ DestroyFails \/ Crash
  BY <1>2, Returning DEF SeedOutputsHeld, Return
<1>3. CASE BypassStep \/ SkipStep \/ Checkpoint
  BY <1>3 DEF BypassStep, SkipStep, Checkpoint, Advance, Return, SeedOutputsHeld
<1>4. CASE SaveProvisioned \/ SyncCode \/ LoadManifest
  <2>1. pc \in OtherPcs
    BY <1>4 DEF SaveProvisioned, SyncCode, LoadManifest, OtherPcs
  <2>2. ~ran
    BY <2>1, SeedsApart DEF TypeInv
  <2> QED BY <1>4, <2>2 DEF SaveProvisioned, SyncCode, LoadManifest, Return, SeedOutputsHeld
<1>5. CASE Seed
  <2>1. outs' = [outs EXCEPT ![pc] = seeded[pc] + 1] /\ seeded' = [seeded EXCEPT ![pc] = @ + 1]
          /\ pc' = pc /\ pc \in Seeds
    BY <1>5 DEF Seed, Executes
  <2> QED BY <2>1 DEF SeedOutputsHeld, TypeInv, CommandOK, WorldOK, Contents
<1>6. CASE RunFn /\ ~Seed
  <2>1. pc' = pc /\ pc \in FixedSteps
    BY <1>6 DEF RunFn, CreateCompute, BuildManifest, WriteFile, RegenerateManifest,
                SyncStep, StartInfra, BuildServices, StartServices, RunnerDeploy,
                OtherStep, Executes, FixedSteps, ProvisionerFixed, RunnerSteps
  <2> QED BY <2>1, SeedsApart DEF SeedOutputsHeld
<1>7. CASE RunnerDestroy \/ ServiceDestroy \/ ComputeDestroy \/ CleanupEnv
  <2>1. pc \in DestroySteps
    BY <1>7
    DEF RunnerDestroy, ServiceDestroy, ComputeDestroy, CleanupEnv, DestroyAt, DestroySteps
  <2>2. ~ran
    BY <2>1, SeedsApart DEF TypeInv
  <2> QED
    BY <1>7, <2>2
    DEF RunnerDestroy, ServiceDestroy, ComputeDestroy, CleanupEnv, DestroyAt, SeedOutputsHeld
<1>8. CASE \/ Push \/ (\E b \in Boxes : LoseBox(b) \/ LoseArtifact(b) \/ Infra(b))
           \/ UNCHANGED vars
  BY <1>8 DEF Push, LoseBox, LoseArtifact, Infra, invocation, vars, world, SeedOutputsHeld
<1>9. ASSUME NEW u \in Seeds, CoreSeed(u) \/ Reset(u) PROVE SeedOutputsHeld'
  <2>1. pc = "idle" /\ ~ran
    BY <1>9, ResetFacts, SeedsApart DEF CommandHasSteps, TypeInv
  <2> QED BY <1>9, <2>1, ResetFacts DEF invocation, SeedOutputsHeld
<1> QED BY NextCases, <1>1, <1>2, <1>3, <1>4, <1>5, <1>6, <1>7, <1>8, <1>9

LEMMA SeedCheckpointKept ==
  SeedInv /\ ~AllowNoCache /\ {"seed", "reset"} \cap Commands = {} /\ [Next]_vars
    => SeedCheckpointCurrent'
<1> SUFFICES ASSUME SeedInv, ~AllowNoCache, {"seed", "reset"} \cap Commands = {}, [Next]_vars,
                    NEW s \in Seeds,
                    entry'.steps[s] = "completed"
             PROVE  entry'.seedOut[s] = seeded'[s]
  BY DEF SeedCheckpointCurrent
<1> USE DEF SeedInv
<1>0. /\ entry \in Entries /\ mem \in Entries /\ s \in Steps
      /\ NewEntry.steps[s] = "none" /\ NoEntry.steps[s] = "none"
  BY NoEntryType DEF TypeInv, CommandOK, Steps, NewEntry, NoEntry, Entries
\* What the copy says while a command is at a step of its own.
<1>1. ASSUME pc # "idle", mem.steps[s] = "completed"
      PROVE  mem.seedOut[s] = seeded[s]
  BY <1>1 DEF CommandHasSteps, SeedsWrittenBack, SeedCheckpointCurrent
<1>2. CASE Begin
  <2>1. PICK c \in Commands : BeginProvisioner(c) \/ BeginOnRecord(c)
    BY <1>2 DEF Begin
  <2>2. seeded' = seeded
    BY <1>2, BeginFacts
  <2>3. CASE BeginOnRecord(c)
    BY <2>2, <2>3 DEF BeginOnRecord, SeedCheckpointCurrent
  <2>4. CASE BeginProvisioner(c)
    <3>1. PICK S \in FromChoices(c) :
             entry' = Marked(IF entry.status = "absent" THEN NewEntry ELSE entry, S, "none")
      BY <2>4 DEF BeginProvisioner
    <3>2. s \notin S /\ entry.status # "absent"
      BY <1>0, <3>1, NoEntryType DEF Marked, Entries
    <3>3. entry'.seedOut[s] = entry.seedOut[s] /\ entry'.steps[s] = entry.steps[s]
      BY <1>0, <3>1, <3>2 DEF Marked, Entries
    <3> QED BY <2>2, <3>3 DEF SeedCheckpointCurrent
  <2> QED BY <2>1, <2>3, <2>4
<1>3. CASE Checkpoint
  <2>1. /\ entry' = Completed(mem, pc) /\ seeded' = seeded /\ ran /\ pc \in Steps
        /\ pc # "idle"
    BY <1>3, SeedsApart DEF Checkpoint, world, TypeInv
  <2>2. CASE s = pc
    BY <1>0, <2>1, <2>2 DEF Completed, Entries, SeedOutputsHeld
  <2>3. CASE s # pc
    BY <1>0, <1>1, <2>1, <2>3 DEF Completed, Entries
  <2> QED BY <2>2, <2>3
<1>4. CASE SaveProvisioned \/ SaveRunning
  <2>1. pc # "idle" /\ seeded' = seeded /\ entry' \in {Provisioned, Running}
    BY <1>4 DEF SaveProvisioned, SaveRunning, world
  <2>2. entry'.steps[s] = mem.steps[s] /\ entry'.seedOut[s] = mem.seedOut[s]
    BY <1>0, <2>1 DEF Provisioned, Running, Entries
  <2> QED BY <1>1, <2>1, <2>2
<1>5. CASE StepFails
  <2>1. /\ entry' = Marked(mem, {pc}, "failed") /\ seeded' = seeded /\ pc # "idle"
    BY <1>5, SeedsApart DEF StepFails, world
  <2>2. s # pc
    BY <1>0, <2>1 DEF Marked, Entries
  <2>3. entry'.steps[s] = mem.steps[s] /\ entry'.seedOut[s] = mem.seedOut[s]
    BY <1>0, <2>1, <2>2 DEF Marked, Entries
  <2> QED BY <1>1, <2>1, <2>3
<1>6. CASE RemoveState
  BY <1>0, <1>6 DEF RemoveState
<1>7. CASE LoadOrSyncFails \/ DestroyFails \/ Crash \/ SyncCode
  BY <1>7 DEF LoadOrSyncFails, DestroyFails, Crash, SyncCode, world, SeedCheckpointCurrent
<1>8. CASE Seed
  <2>1. ~forced
    <3>1. pc \in Seeds /\ pc \in Steps
      BY <1>8 DEF Seed, Executes
    <3> QED BY <3>1, SeedsApart DEF SeedsNotForced
  <2>2. entry.steps[pc] # "completed"
    BY <1>8, <2>1, SeedNotCompleted
  <2>3. entry' = entry /\ seeded' = [seeded EXCEPT ![pc] = @ + 1]
    BY <1>8 DEF Seed, Executes
  <2> QED
    BY <2>2, <2>3 DEF TypeInv, WorldOK, Contents, SeedCheckpointCurrent
<1>9. CASE /\ ~Seed
           /\ \/ BypassStep \/ SkipStep \/ LoadManifest \/ RunFn
              \/ RunnerDestroy \/ ServiceDestroy \/ ComputeDestroy \/ CleanupEnv
              \/ Push \/ (\E b \in Boxes : LoseBox(b) \/ LoseArtifact(b) \/ Infra(b))
              \/ UNCHANGED vars
  BY <1>9, RecordUntouched DEF SeedCheckpointCurrent
<1>10. ASSUME NEW u \in Seeds PROVE ~CoreSeed(u) /\ ~Reset(u)
  BY DEF CoreSeed, Reset
<1> QED
  BY NextCases, <1>10, <1>2, <1>3, <1>4, <1>5, <1>6, <1>7, <1>8, <1>9

\* Without --no-cache, core seed and core reset, a completed seed checkpoint in the
\* store always carries the outputs of the last run of its hook, whatever is killed,
\* lost, failed or deleted with --from (domain/manager.go, step and runProvisioner).
THEOREM SeedCheckpointsCurrent ==
  ASSUME ~AllowNoCache, {"seed", "reset"} \cap Commands = {}
  PROVE  Spec => []SeedCheckpointCurrent
<1>1. Init => SeedInv
  <2>1. ASSUME Init PROVE SeedCheckpointCurrent
    BY <2>1 DEF Init, NoEntry, SeedCheckpointCurrent, Steps
  <2> QED
    BY <2>1, InitType
    DEF Init, SeedInv, CommandHasSteps, SeedsWrittenBack, SeedsNotForced, SeedOutputsHeld
<1>2. SeedInv /\ [Next]_vars => SeedInv'
  BY NextType, CommandHasStepsKept, SeedsWrittenBackKept, SeedsNotForcedKept,
     SeedOutputsHeldKept, SeedCheckpointKept
  DEF SeedInv
<1>3. SeedInv => SeedCheckpointCurrent
  BY DEF SeedInv
<1> QED
  BY <1>1, <1>2, <1>3, PTL DEF Spec

-----------------------------------------------------------------------------
(***************************************************************************)
(* The record outlives the compute.                                        *)
(***************************************************************************)
\* The copy of a running command is that of an existing record.
CommandHasRecord == cmd # "none" => mem.status # "absent"

\* What compute.destroy took down stays down until the record is gone.
ComputeGone ==
    pc \in {"cleanup_env", "remove_state"} => \A b \in Managed : ~Up(b)

LEMMA CommandHasRecordKept ==
  TypeInv /\ CommandHasSteps /\ CommandHasRecord /\ [Next]_vars => CommandHasRecord'
<1> SUFFICES ASSUME TypeInv, CommandHasSteps, CommandHasRecord, [Next]_vars
             PROVE  CommandHasRecord'
  OBVIOUS
<1>0. mem \in Entries
  BY DEF TypeInv, CommandOK
<1>1. CASE Begin
  <2>1. PICK c \in Commands : BeginProvisioner(c) \/ BeginOnRecord(c)
    BY <1>1 DEF Begin
  <2>2. CASE BeginOnRecord(c)
    BY <2>2 DEF BeginOnRecord, CommandHasRecord
  <2>3. CASE BeginProvisioner(c)
    <3>1. PICK S \in FromChoices(c) :
             mem' = Marked(IF entry.status = "absent" THEN NewEntry ELSE entry, S, "none")
      BY <2>3 DEF BeginProvisioner
    <3>2. (IF entry.status = "absent" THEN NewEntry ELSE entry) \in Entries
            /\ NewEntry.status = "creating"
      BY NoEntryType DEF TypeInv, NewEntry, NoEntry
    <3> QED BY <3>1, <3>2 DEF Marked, Entries, CommandHasRecord
  <2> QED BY <2>1, <2>2, <2>3
<1>2. CASE StepFails \/ SaveRunning \/ LoadOrSyncFails \/ RemoveState \/ DestroyFails \/ Crash
  BY <1>2, Returning DEF CommandHasRecord, Return
<1>3. CASE Checkpoint \/ SaveProvisioned
  <2>1. pc # "idle"
    BY <1>3, SeedsApart DEF Checkpoint, SaveProvisioned, TypeInv
  <2>2. CASE Return
    BY <2>2 DEF CommandHasRecord, Return
  <2>3. CASE ~Return
    <3>1. \/ mem' = Completed(mem, pc)
          \/ mem' = [Completed(mem, pc) EXCEPT !.compute = ca, !.managed = TRUE]
          \/ mem' = Provisioned
      BY <1>3, <2>3 DEF Checkpoint, SaveProvisioned
    <3>2. Completed(mem, pc).status = mem.status
            /\ [Completed(mem, pc) EXCEPT !.compute = ca, !.managed = TRUE].status = mem.status
      BY <1>0 DEF Completed, Entries
    <3>3. Provisioned.status = "provisioned"
      BY <1>0 DEF Provisioned, Entries
    <3> QED BY <2>1, <3>1, <3>2, <3>3 DEF CommandHasSteps, CommandHasRecord
  <2> QED BY <2>2, <2>3
<1>4. CASE SyncCode
  <2>1. mem'.status = mem.status /\ pc # "idle"
    BY <1>0, <1>4 DEF SyncCode, InvalidateSteps, Marked, Entries
  <2> QED BY <2>1 DEF CommandHasSteps, CommandHasRecord
<1>5. CASE \/ BypassStep \/ SkipStep \/ LoadManifest \/ RunFn
           \/ RunnerDestroy \/ ServiceDestroy \/ ComputeDestroy \/ CleanupEnv
           \/ Push \/ (\E b \in Boxes : LoseBox(b) \/ LoseArtifact(b) \/ Infra(b))
           \/ UNCHANGED vars
  <2>1. mem' = mem /\ cmd' = cmd
    BY <1>5, RecordUntouched
  <2> QED BY <2>1 DEF CommandHasRecord
<1>6. ASSUME NEW u \in Seeds, CoreSeed(u) \/ Reset(u) PROVE CommandHasRecord'
  BY <1>6, ResetFacts DEF invocation, CommandHasRecord
<1> QED BY NextCases, <1>1, <1>2, <1>3, <1>4, <1>5, <1>6

LEMMA ComputeGoneKept ==
  ASSUME "compute_destroy" \in Configured
  PROVE  TypeInv /\ ComputeGone /\ [Next]_vars => ComputeGone'
<1> SUFFICES ASSUME TypeInv, ComputeGone, [Next]_vars,
                    pc' \in {"cleanup_env", "remove_state"}
             PROVE  \A b \in Managed : ~Up(b)'
  BY DEF ComputeGone, Managed
<1>1. CASE ComputeDestroy
  BY <1>1 DEF ComputeDestroy, TearDown, LocalDestroy, HasComputeDestroy, Up, Blank, Managed, TypeInv, WorldOK
<1>2. CASE CleanupEnv
  <2>1. pc = "cleanup_env"
    BY <1>2 DEF CleanupEnv, DestroyAt
  <2>2. \A b \in Boxes : box'[b].state = box[b].state
    BY <1>2 DEF CleanupEnv, TypeInv, WorldOK, BoxRecords
  <2> QED BY <2>1, <2>2 DEF ComputeGone, Up, Managed
<1>3. CASE Push
  <2>1. pc' = pc
    BY <1>3 DEF Push, invocation
  <2>2. \A b \in Boxes : box'[b].state = box[b].state
    BY <1>3 DEF Push, TypeInv, WorldOK, BoxRecords
  <2> QED BY <2>1, <2>2 DEF ComputeGone, Up, Managed
<1>4. ASSUME NEW u \in Boxes, LoseBox(u) \/ LoseArtifact(u) \/ Infra(u)
      PROVE  \A b \in Managed : ~Up(b)'
  <2>1. pc' = pc
    BY <1>4 DEF LoseBox, LoseArtifact, Infra, invocation
  <2>2. \A b \in Boxes : box'[b].state = "up" => box[b].state = "up"
    <3>1. CASE LoseBox(u)
      BY <3>1 DEF LoseBox, Blank, TypeInv, WorldOK
    <3>2. CASE LoseArtifact(u)
      <4>1. CASE box' = box
        BY <4>1
      <4>2. ASSUME NEW f \in Files,
                   box' \in {[box EXCEPT ![u].files[f] = NoFile,
                                         ![u].partial = @ /\ f # "env"],
                             [box EXCEPT ![u].partial = @ \/ f = "env"]}
            PROVE  \A b \in Boxes : box'[b].state = box[b].state
        <5>1. /\ [box[u] EXCEPT !.files[f] = NoFile, !.partial = @ /\ f # "env"].state
                   = box[u].state
              /\ [box[u] EXCEPT !.partial = @ \/ f = "env"].state = box[u].state
          BY DEF TypeInv, WorldOK, BoxRecords
        <5> QED BY <4>2, <5>1 DEF TypeInv, WorldOK
      <4> QED BY <3>2, <4>1, <4>2 DEF LoseArtifact
    <3> QED BY <1>4, <3>1, <3>2 DEF Infra
  <2> QED BY <2>1, <2>2 DEF ComputeGone, Up, Managed
<1>5. CASE UNCHANGED vars
  BY <1>5 DEF vars, invocation, world, ComputeGone, Up, Managed
<1>6. CASE RunFn
  <2>1. pc' = pc /\ pc \in Steps
    BY <1>6 DEF RunFn, CreateCompute, Seed, BuildManifest, WriteFile, RegenerateManifest,
                SyncStep, StartInfra, BuildServices, StartServices, RunnerDeploy,
                OtherStep, Executes
  <2> QED BY <2>1, SeedsApart DEF DestroySteps
<1>7. CASE RunnerDestroy \/ ServiceDestroy \/ LoadManifest \/ SyncCode
  BY <1>7 DEF RunnerDestroy, ServiceDestroy, DestroyAt, LoadManifest, SyncCode,
              FirstRunnerPcs, RunnerSteps
<1>8. CASE Begin
  BY <1>8 DEF Begin, BeginProvisioner, BeginOnRecord
<1>9. CASE \/ BypassStep \/ SkipStep \/ Checkpoint \/ SaveProvisioned
           \/ StepFails \/ SaveRunning \/ LoadOrSyncFails \/ RemoveState
           \/ DestroyFails \/ Crash
  <2>1. Return \/ Advance \/ pc' = "load_manifest"
    BY <1>9, Returning DEF BypassStep, SkipStep, Checkpoint, SaveProvisioned
  <2>2. Advance => pc' \in Steps \cup OtherPcs
    BY DEF Advance, Following, Steps, FixedSteps, ProvisionerFixed, RunnerSteps, OtherPcs,
           TypeInv, CommandOK
  <2>3. {"cleanup_env", "remove_state"} \cap (Steps \cup OtherPcs) = {}
    BY SeedsApart DEF DestroySteps, OtherPcs
  <2> QED BY <2>1, <2>2, <2>3 DEF Return
<1>10. ASSUME NEW u \in Seeds, CoreSeed(u) \/ Reset(u) PROVE \A b \in Managed : ~Up(b)'
  BY <1>10, ResetFacts DEF invocation, ComputeGone, Up, Managed
<1> QED BY NextCases, <1>1, <1>2, <1>3, <1>4, <1>5, <1>6, <1>7, <1>8, <1>9, <1>10

\* With a compute.destroy hook, delete is the only thing that removes a record,
\* and when it does nothing of the environment's own compute is left, however
\* often it was killed on the way (domain/manager.go, Manager.Destroy).
THEOREM RecordOutlives ==
  ASSUME "compute_destroy" \in Configured
  PROVE  Spec => RecordOutlivesCompute
<1> DEFINE I == TypeInv /\ CommandHasSteps /\ CommandHasRecord /\ ComputeGone
<1>1. Init => I
  BY InitType DEF Init, CommandHasSteps, CommandHasRecord, ComputeGone
<1>2. I /\ [Next]_vars => I'
  BY NextType, CommandHasStepsKept, CommandHasRecordKept, ComputeGoneKept
<1>3. I /\ [Next]_vars =>
        [entry.status # "absent" /\ entry'.status = "absent"
           => \A b \in Managed : ~Up(b)]_vars
  <2> SUFFICES ASSUME I, [Next]_vars, entry.status # "absent", entry'.status = "absent"
               PROVE  \A b \in Managed : ~Up(b)
    OBVIOUS
  <2>0. mem \in Entries /\ entry \in Entries
    BY DEF TypeInv, CommandOK
  <2>1. CASE RemoveState
    BY <2>1 DEF RemoveState, ComputeGone
  <2>2. CASE Begin
    <3>1. PICK c \in Commands : BeginProvisioner(c) \/ BeginOnRecord(c)
      BY <2>2 DEF Begin
    <3>2. CASE BeginProvisioner(c)
      BY <2>0, <3>2 DEF BeginProvisioner, Marked, Entries
    <3>3. CASE BeginOnRecord(c)
      BY <3>3 DEF BeginOnRecord
    <3> QED BY <3>1, <3>2, <3>3
  <2>3. CASE Checkpoint \/ StepFails
    <3>1. pc # "idle"
      BY <2>3, SeedsApart DEF Checkpoint, StepFails, TypeInv
    <3>2. entry'.status = mem.status
      BY <2>0, <2>3 DEF Checkpoint, StepFails, Completed, Marked, Entries
    <3> QED BY <3>1, <3>2 DEF CommandHasSteps, CommandHasRecord
  <2>4. CASE SaveProvisioned \/ SaveRunning
    BY <2>0, <2>4 DEF SaveProvisioned, SaveRunning, Provisioned, Running, Entries
  <2>5. CASE SyncCode \/ LoadOrSyncFails \/ DestroyFails \/ Crash
    BY <2>5 DEF SyncCode, LoadOrSyncFails, DestroyFails, Crash
  <2>6. ASSUME NEW u \in Seeds PROVE ~CoreSeed(u) /\ ~Reset(u)
    BY ResetFacts
  <2> QED BY NextCases, RecordUntouched, <2>1, <2>2, <2>3, <2>4, <2>5, <2>6
<1> QED
  BY <1>1, <1>2, <1>3, PTL DEF Spec, RecordOutlivesCompute

-----------------------------------------------------------------------------
(***************************************************************************)
(* The user's directory.                                                   *)
(***************************************************************************)
\* Writing a file, or checking out, building or deploying a version, leaves
\* every box where it is.
LEMMA WritesKeepState ==
  ASSUME box \in [Boxes -> BoxRecords], NEW b, NEW f, NEW v, NEW p, NEW u \in Boxes
  PROVE  /\ [box EXCEPT ![b].files[f] = v][u].state = box[u].state
         /\ [box EXCEPT ![b].files[f] = v, ![b].partial = p][u].state = box[u].state
         /\ [box EXCEPT ![b].partial = p][u].state = box[u].state
         /\ [box EXCEPT ![b].tree = v][u].state = box[u].state
         /\ [box EXCEPT ![b].built = v][u].state = box[u].state
         /\ [box EXCEPT ![b].deployed = v][u].state = box[u].state
  BY DEF BoxRecords

LEMMA RunFnKeepsUserTree ==
  ASSUME TypeInv, RunFn
  PROVE  box'[UserTree].state = box[UserTree].state
<1>1. box \in [Boxes -> BoxRecords] /\ UserTree \in Boxes
  BY BoxAssumption DEF TypeInv, WorldOK
<1>2. CASE CreateCompute
  <2>1. PICK b \in CreateTargets :
            box' = IF Up(b) THEN box ELSE [box EXCEPT ![b] = Blank("up", origin)]
    BY <1>2 DEF CreateCompute
  <2>2. b # UserTree
    BY <2>1 DEF CreateTargets, Managed
  <2> QED BY <1>1, <2>1, <2>2
<1>3. CASE WriteFile \/ RegenerateManifest
  <2>1. \/ box' = box
        \/ box' = [box EXCEPT ![ca].files[FileOf(pc)] = mf,
                              ![ca].partial = box[ca].partial /\ pc # "generate_env"]
        \/ box' = [box EXCEPT ![ca].files["manifest"] = mem.outs]
    BY <1>3 DEF WriteFile, RegenerateManifest
  <2>2. /\ [box EXCEPT ![ca].files[FileOf(pc)] = mf,
                       ![ca].partial = box[ca].partial /\ pc # "generate_env"][UserTree].state
              = box[UserTree].state
        /\ [box EXCEPT ![ca].files["manifest"] = mem.outs][UserTree].state
              = box[UserTree].state
    BY <1>1, WritesKeepState
  <2> QED BY <2>1, <2>2
<1>4. CASE SyncStep
  BY <1>1, <1>4, WritesKeepState DEF SyncStep, Fetched
<1>5. CASE BuildServices \/ RunnerDeploy
  <2>1. \/ box' = box
        \/ box' = [box EXCEPT ![ca].built = box[ca].tree]
        \/ box' = [box EXCEPT ![ca].deployed = box[ca].tree]
    BY <1>5 DEF BuildServices, RunnerDeploy
  <2>2. /\ [box EXCEPT ![ca].built = box[ca].tree][UserTree].state = box[UserTree].state
        /\ [box EXCEPT ![ca].deployed = box[ca].tree][UserTree].state = box[UserTree].state
    BY <1>1, WritesKeepState
  <2> QED BY <2>1, <2>2
<1>6. CASE Seed \/ BuildManifest \/ StartInfra \/ StartServices \/ OtherStep
  BY <1>6 DEF Seed, BuildManifest, StartInfra, StartServices, OtherStep
<1> QED BY <1>2, <1>3, <1>4, <1>5, <1>6 DEF RunFn

LEMMA UserTreeStep ==
  ASSUME TypeInv, [Next]_vars, box[UserTree].state = "up"
  PROVE  box'[UserTree].state = "up" \/ losses' # losses
<1>1. box \in [Boxes -> BoxRecords] /\ UserTree \in Boxes /\ losses \in Nat
  BY BoxAssumption DEF TypeInv, WorldOK, BudgetOK
<1>2. CASE \/ Begin \/ Checkpoint \/ SaveProvisioned \/ StepFails \/ SaveRunning
           \/ LoadOrSyncFails \/ RemoveState \/ Crash
           \/ BypassStep \/ SkipStep \/ LoadManifest \/ RunnerDestroy
           \/ ServiceDestroy \/ UNCHANGED vars
  <2>1. CASE Begin
    BY <2>1 DEF Begin, BeginProvisioner, BeginOnRecord, Launch, world
  <2>2. CASE ~Begin
    BY <1>2, <2>2
    DEF Checkpoint, SaveProvisioned, StepFails, SaveRunning, LoadOrSyncFails,
        RemoveState, Crash, BypassStep, SkipStep, LoadManifest,
        RunnerDestroy, ServiceDestroy, vars, world
  <2>3. box' = box => box'[UserTree].state = "up"
    OBVIOUS
  <2> QED BY <2>1, <2>2
<1>3. CASE SyncCode
  BY <1>1, <1>3, WritesKeepState DEF SyncCode, Fetched
<1>4. CASE RunFn
  BY <1>4, RunFnKeepsUserTree
<1>5. CASE ComputeDestroy \/ DestroyFails
  <2>1. UserTree \notin Managed /\ UserTree # RemovedTree
    BY BoxAssumption DEF Managed, RemovedTree
  <2>2. TearDown => box'[UserTree] = box[UserTree]
    BY <1>1, <2>1 DEF TearDown
  <2> QED BY <1>5, <2>2 DEF ComputeDestroy, DestroyFails, PartlyTornDown
<1>6. CASE CleanupEnv
  BY <1>1, <1>6, WritesKeepState DEF CleanupEnv
<1>7. CASE Push
  <2>1. [box[UserTree] EXCEPT !.tree = origin + 1].state = box[UserTree].state
    BY <1>1 DEF BoxRecords
  <2> QED BY <1>1, <1>7, <2>1 DEF Push
<1>8. ASSUME NEW b \in Boxes, LoseBox(b) \/ LoseArtifact(b)
      PROVE  losses' # losses
  BY <1>1, <1>8 DEF LoseBox, LoseArtifact, Loss
<1>9. ASSUME NEW b \in Boxes, Infra(b)
      PROVE  box'[UserTree].state = "up"
  BY <1>9 DEF Infra
<1>10. ASSUME NEW s \in Seeds, CoreSeed(s) \/ Reset(s)
       PROVE  box'[UserTree].state = "up"
  BY <1>10, ResetFacts
<1> QED BY NextCases, <1>2, <1>3, <1>4, <1>5, <1>6, <1>7, <1>8, <1>9, <1>10

\* The directory a user attached goes only when the user removes it: no step of
\* any command, of either mode and under any configuration, takes it away.
THEOREM UserTreeSafe == Spec => UserTreeKept
<1>1. TypeInv /\ [Next]_vars =>
        [box[UserTree].state = "up" /\ box'[UserTree].state # "up"
           => losses' # losses]_vars
  BY UserTreeStep
<1> QED
  BY <1>1, InitType, NextType, PTL DEF Spec, UserTreeKept
=============================================================================
