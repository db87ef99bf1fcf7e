---------------------------- MODULE PublishProofs ----------------------------
(***************************************************************************)
(* What the two phases of a command may rely on when they publish their    *)
(* result: the runner phase when it declares the environment running, the  *)
(* provisioner phase when it saves what it has made.                       *)
(***************************************************************************)
EXTENDS LifecycleProofs

-----------------------------------------------------------------------------
(***************************************************************************)
(* The runner phase.  The steps that follow each step that leaves          *)
(* something behind, in a command that runs the whole phase.               *)
(***************************************************************************)
AfterDeploy  == {"runner_after", "save_running"}
AfterStart   == {"runner_deploy"} \cup AfterDeploy
AfterBuild   == {"start_services"} \cup AfterStart
AfterNginx   == {"build_services"} \cup AfterBuild
AfterCompose == {"generate_nginx"} \cup AfterNginx
AfterEnv     == {"start_infra", "generate_compose"} \cup AfterCompose
AfterSync    == {"runner_before", "generate_env"} \cup AfterEnv

After(s) == CASE s = "generate_env"     -> AfterEnv
              [] s = "generate_compose" -> AfterCompose
              [] s = "generate_nginx"   -> AfterNginx
              [] s = "build_services"   -> AfterBuild
              [] s = "start_services"   -> AfterStart
              [] s = "runner_deploy"    -> AfterDeploy

Leaving == {"generate_env", "generate_compose", "generate_nginx", "build_services",
            "start_services", "runner_deploy"}

\* Step s has returned from Fn, or was skipped.
Behind(s) == pc \in After(s) \/ (pc = s /\ ran)

\* What step s leaves behind.
Effect(s) ==
    CASE s \in {"generate_env", "generate_compose", "generate_nginx"} ->
             box[ca].files[FileOf(s)] # NoFile
      [] s = "build_services" -> box[ca].built >= synced
      [] s = "start_services" -> UpToDate(ca)
      [] s = "runner_deploy"  -> s \in AlwaysRun => box[ca].deployed >= synced

\* create and attach run the phase from its sync on.
InPhase == cmd # "refresh" /\ pc \in AfterSync \cup {"sync"}

\* Only "step" and "refresh" call the two steps before runner_before.
RefreshOnly == pc \in {"sync_code", "generate_manifest"} => cmd = "refresh"

\* No tree is newer than the source.
SourceInv ==
    /\ \A b \in Boxes : box[b].tree <= origin
    /\ synced <= origin /\ 1 <= origin

\* Neither the build nor the start is skipped after a sync.
InvalidatedInv ==
    InPhase =>
        /\ pc \in AfterSync \ AfterBuild => mem.steps["build_services"] # "completed"
        /\ pc \in AfterSync \ AfterStart => mem.steps["start_services"] # "completed"

EffectInv ==
    InPhase /\ Up(ca) =>
        /\ box[ca].files["manifest"] # NoFile
        /\ pc # "sync" => box[ca].tree >= synced
        /\ \A s \in Leaving \ (Optional \ Configured) : Behind(s) => Effect(s)

RunnerInv == TypeInv /\ CommandHasSteps /\ SeedsNotForced /\ RefreshOnly /\ SourceInv
                /\ InvalidatedInv /\ EffectInv

LEMMA PhaseApart ==
  /\ (AfterSync \cup {"sync"}) \cap Seeds = {}
  /\ AfterSync \cup {"sync"} \subseteq RunnerSteps \cup OtherPcs
  /\ (AfterSync \cup {"sync"}) \cap ProvisionerFixed = {}
  /\ (AfterSync \cup {"sync"}) \cap DestroySteps = {}
  /\ (AfterSync \cup {"sync"}) \cap {"idle", "load_manifest", "save_provisioned"} = {}
  /\ (AfterSync \cup {"sync"}) \cap {"sync_code", "generate_manifest"} = {}
<1>1. AfterSync \cup {"sync"} \subseteq RunnerSteps \cup OtherPcs
  BY DEF AfterSync, AfterEnv, AfterCompose, AfterNginx, AfterBuild, AfterStart,
         AfterDeploy, RunnerSteps, OtherPcs
<1>2. (AfterSync \cup {"sync"}) \cap ProvisionerFixed = {}
        /\ (AfterSync \cup {"sync"}) \cap DestroySteps = {}
  BY DEF AfterSync, AfterEnv, AfterCompose, AfterNginx, AfterBuild, AfterStart,
         AfterDeploy, ProvisionerFixed, DestroySteps
<1>3. (AfterSync \cup {"sync"})
         \cap {"idle", "load_manifest", "save_provisioned", "sync_code", "generate_manifest"} = {}
  BY DEF AfterSync, AfterEnv, AfterCompose, AfterNginx, AfterBuild, AfterStart,
         AfterDeploy
<1>4. Seeds \cap (RunnerSteps \cup OtherPcs) = {}
  BY SeedsAssumption DEF FixedSteps
<1> QED BY <1>1, <1>2, <1>3, <1>4

\* Where the pipeline goes from the ports and the seeds, and from the other steps.
LEMMA FollowingSeeds ==
  ASSUME pc \in {"allocate_ports"} \cup Seeds
  PROVE  Following = IF todo \ {pc} = {} THEN {"build_manifest"} ELSE todo \ {pc}
<1>1. pc \notin FixedSteps \ {"allocate_ports"}
  BY SeedsAssumption DEF FixedSteps, ProvisionerFixed
<1> QED BY <1>1 DEF Following, FixedSteps, ProvisionerFixed, RunnerSteps

LEMMA FollowingProvisioner ==
  /\ pc = "provisioner_before" => Following = {"create_compute"}
  /\ pc = "create_compute" => Following = {"allocate_ports"}
  /\ pc = "build_manifest" => Following = {"write_manifest"}
  /\ pc = "write_manifest" => Following = {"provisioner_after"}
  /\ pc = "provisioner_after" => Following = {"save_provisioned"}
<1>1. pc \in ProvisionerFixed => pc \notin Seeds
  BY SeedsAssumption DEF FixedSteps
<1> QED BY <1>1 DEF Following, ProvisionerFixed

LEMMA FollowingRunner ==
  ASSUME pc \in RunnerSteps
  PROVE  Following =
           CASE pc = "sync_code"         -> {"generate_manifest"}
             [] pc = "generate_manifest" -> {"runner_before"}
             [] pc = "runner_before"     -> {"generate_env"}
             [] pc = "generate_env"      -> {"start_infra"}
             [] pc = "start_infra"       -> {"generate_compose"}
             [] pc = "generate_compose"  -> {"generate_nginx"}
             [] pc = "generate_nginx"    -> {"build_services"}
             [] pc = "build_services"    -> {"start_services"}
             [] pc = "start_services"    -> {"runner_deploy"}
             [] pc = "runner_deploy"     -> {"runner_after"}
             [] pc = "runner_after"      -> IF cmd # "refresh" THEN {"save_running"} ELSE {}
<1>1. pc \notin Seeds
  BY SeedsApart
<1> QED BY <1>1 DEF Following, RunnerSteps

\* Every step of the phase is called by create and attach alike.
LEMMA AdvanceInPhase ==
  ASSUME TypeInv, Advance, cmd # "refresh", pc \in Steps, RefreshOnly,
         pc' \in AfterSync \cup {"sync"}
  PROVE  /\ pc \in AfterSync /\ pc' \in AfterSync /\ ~ran'
         /\ \A s \in Leaving : pc' \in After(s) => pc \in After(s) \/ pc = s
         /\ pc' \notin AfterBuild => pc \notin AfterBuild
         /\ pc' \notin AfterStart => pc \notin AfterStart
<1>1. pc' \in Following /\ ~ran' /\ todo \subseteq Seeds
  BY DEF Advance, TypeInv, CommandOK
<1>2. pc \notin Seeds
  BY <1>1, FollowingSeeds, PhaseApart DEF ProvisionerFixed
<1>3. pc \notin ProvisionerFixed
  <2>1. pc # "allocate_ports"
    BY <1>1, FollowingSeeds, PhaseApart DEF ProvisionerFixed
  <2> QED BY <1>1, <2>1, FollowingProvisioner, PhaseApart DEF ProvisionerFixed
<1>4. pc \in RunnerSteps \ {"sync_code", "generate_manifest"}
  BY <1>2, <1>3 DEF Steps, FixedSteps, RefreshOnly
<1>5. pc \in AfterSync
  BY <1>4 DEF RunnerSteps, AfterSync, AfterEnv, AfterCompose, AfterNginx, AfterBuild,
              AfterStart, AfterDeploy
<1>6. pc' = CASE pc = "runner_before"     -> "generate_env"
              [] pc = "generate_env"      -> "start_infra"
              [] pc = "start_infra"       -> "generate_compose"
              [] pc = "generate_compose"  -> "generate_nginx"
              [] pc = "generate_nginx"    -> "build_services"
              [] pc = "build_services"    -> "start_services"
              [] pc = "start_services"    -> "runner_deploy"
              [] pc = "runner_deploy"     -> "runner_after"
              [] pc = "runner_after"      -> "save_running"
  BY <1>1, <1>4, FollowingRunner DEF RunnerSteps
<1>7. pc' \in AfterSync
  BY <1>4, <1>6
  DEF RunnerSteps, AfterSync, AfterEnv, AfterCompose, AfterNginx, AfterBuild, AfterStart,
      AfterDeploy
<1>8. \A s \in Leaving : pc' \in After(s) => pc \in After(s) \/ pc = s
  BY <1>4, <1>6
  DEF RunnerSteps, Leaving, After, AfterEnv, AfterCompose, AfterNginx, AfterBuild,
      AfterStart, AfterDeploy
<1>9. /\ pc' \notin AfterBuild => pc \notin AfterBuild
      /\ pc' \notin AfterStart => pc \notin AfterStart
  BY <1>4, <1>6 DEF RunnerSteps, AfterBuild, AfterStart, AfterDeploy
<1> QED BY <1>1, <1>5, <1>7, <1>8, <1>9

-----------------------------------------------------------------------------
\* Actions after which no phase is under way, or the same one as before.
LEMMA OutsidePhase ==
  ASSUME TypeInv, CommandHasSteps, [Next]_vars, InPhase'
  PROVE  \/ SyncCode \/ LoadManifest
         \/ BypassStep \/ SkipStep \/ (Checkpoint /\ Advance) \/ RunFn
         \/ Push \/ (\E b \in Boxes : LoseBox(b)) \/ UNCHANGED vars
<1>1. pc' # "idle" /\ cmd' # "refresh" /\ pc' \notin DestroySteps
        /\ pc' \notin {"provisioner_before", "load_manifest"}
  BY PhaseApart DEF InPhase, ProvisionerFixed
<1>2. ~Return
  BY <1>1 DEF Return
<1>3. ~Begin
  BY <1>1 DEF Begin, BeginProvisioner, BeginOnRecord, DestroySteps
<1>4. ~SaveProvisioned
  BY <1>1, <1>2 DEF SaveProvisioned
<1>5. ~(RunnerDestroy \/ ServiceDestroy \/ ComputeDestroy \/ CleanupEnv)
  BY <1>1
  DEF RunnerDestroy, ServiceDestroy, ComputeDestroy, CleanupEnv, DestroyAt, DestroySteps
<1>6. ASSUME NEW b \in Boxes, LoseArtifact(b) \/ Infra(b) PROVE FALSE
  BY <1>1, <1>6 DEF LoseArtifact, Infra, invocation, CommandHasSteps
<1>7. ASSUME NEW u \in Seeds, CoreSeed(u) \/ Reset(u) PROVE FALSE
  BY <1>1, <1>7, ResetFacts DEF invocation, CommandHasSteps
<1>8. Checkpoint => Advance
  BY <1>2 DEF Checkpoint
<1> QED
  BY <1>2, <1>3, <1>4, <1>5, <1>6, <1>7, <1>8, NextCases, Returning

-----------------------------------------------------------------------------
\* The versions of the trees.
LEMMA WritesKeepTree ==
  ASSUME box \in [Boxes -> BoxRecords], NEW b, NEW f, NEW v, NEW p, NEW u \in Boxes
  PROVE  /\ [box EXCEPT ![b].files[f] = v][u].tree = box[u].tree
         /\ [box EXCEPT ![b].files[f] = v, ![b].partial = p][u].tree = box[u].tree
         /\ [box EXCEPT ![b].partial = p][u].tree = box[u].tree
         /\ [box EXCEPT ![b].built = v][u].tree = box[u].tree
         /\ [box EXCEPT ![b].deployed = v][u].tree = box[u].tree
  BY DEF BoxRecords

\* What a step does to a tree, if anything.
LEMMA TreeStep ==
  ASSUME TypeInv, [Next]_vars, NEW b \in Boxes
  PROVE  \/ box'[b].tree = box[b].tree
         \/ box'[b].tree = 1
         \/ box'[b].tree = origin /\ origin' = origin
         \/ box'[b].tree = origin + 1 /\ Push
<1>1. box \in [Boxes -> BoxRecords] /\ origin \in Nat
  BY DEF TypeInv, WorldOK
<1>2. CASE RunFn
  <2>0. origin' = origin
    BY <1>2 DEF RunFn, CreateCompute, Seed, BuildManifest, WriteFile, RegenerateManifest,
                SyncStep, StartInfra, BuildServices, StartServices, RunnerDeploy,
                OtherStep, Executes
  <2>1. CASE CreateCompute
    BY <1>1, <2>0, <2>1 DEF CreateCompute, Blank
  <2>2. CASE WriteFile \/ RegenerateManifest
    <3>1. \/ box' = box
          \/ box' = [box EXCEPT ![ca].files[FileOf(pc)] = mf,
                                ![ca].partial = box[ca].partial /\ pc # "generate_env"]
          \/ box' = [box EXCEPT ![ca].files["manifest"] = mem.outs]
      BY <2>2 DEF WriteFile, RegenerateManifest
    <3>2. /\ [box EXCEPT ![ca].files[FileOf(pc)] = mf,
                         ![ca].partial = box[ca].partial /\ pc # "generate_env"][b].tree
                = box[b].tree
          /\ [box EXCEPT ![ca].files["manifest"] = mem.outs][b].tree = box[b].tree
      BY <1>1, WritesKeepTree
    <3> QED BY <3>1, <3>2
  <2>3. CASE SyncStep
    BY <1>1, <2>0, <2>3 DEF SyncStep, Fetched, BoxRecords
  <2>4. CASE BuildServices \/ RunnerDeploy
    <3>1. /\ [box EXCEPT ![ca].built = box[ca].tree][b].tree = box[b].tree
          /\ [box EXCEPT ![ca].deployed = box[ca].tree][b].tree = box[b].tree
      BY <1>1, WritesKeepTree
    <3> QED BY <2>4, <3>1 DEF BuildServices, RunnerDeploy
  <2>5. CASE Seed \/ BuildManifest \/ StartInfra \/ StartServices \/ OtherStep
    BY <2>5 DEF Seed, BuildManifest, StartInfra, StartServices, OtherStep
  <2> QED BY <1>2, <2>1, <2>2, <2>3, <2>4, <2>5 DEF RunFn
<1>3. CASE SyncCode
  BY <1>1, <1>3 DEF SyncCode, Fetched, BoxRecords
<1>4. CASE ComputeDestroy \/ DestroyFails
  <2>1. TearDown => box'[b].tree = box[b].tree \/ box'[b].tree = 1
    BY <1>1, BoxAssumption DEF TearDown, RemovedTree, Blank
  <2> QED BY <1>4, <2>1 DEF ComputeDestroy, DestroyFails, PartlyTornDown
<1>5. CASE CleanupEnv
  BY <1>1, <1>5, WritesKeepTree DEF CleanupEnv
<1>6. CASE Push
  BY <1>1, <1>6 DEF Push, BoxRecords
<1>7. ASSUME NEW u \in Boxes, LoseBox(u)
      PROVE  box'[b].tree = box[b].tree \/ box'[b].tree = 1
  BY <1>1, <1>7 DEF LoseBox, Blank
<1>8. ASSUME NEW u \in Boxes, LoseArtifact(u)
      PROVE  box'[b].tree = box[b].tree
  <2>1. CASE box' = box
    BY <2>1
  <2>2. ASSUME NEW f \in Files,
               box' \in {[box EXCEPT ![u].files[f] = NoFile,
                                    ![u].partial = box[u].partial /\ f # "env"],
                        [box EXCEPT ![u].partial = box[u].partial \/ f = "env"]}
        PROVE  box'[b].tree = box[b].tree
    <3>1. /\ [box EXCEPT ![u].files[f] = NoFile,
                         ![u].partial = box[u].partial /\ f # "env"][b].tree = box[b].tree
          /\ [box EXCEPT ![u].partial = box[u].partial \/ f = "env"][b].tree = box[b].tree
      BY <1>1, WritesKeepTree
    <3> QED BY <2>2, <3>1
  <2> QED BY <1>8, <2>1, <2>2 DEF LoseArtifact
<1>9. ASSUME \/ Begin \/ Checkpoint \/ SaveProvisioned \/ StepFails \/ SaveRunning
             \/ LoadOrSyncFails \/ RemoveState \/ Crash
             \/ BypassStep \/ SkipStep \/ LoadManifest \/ RunnerDestroy
             \/ ServiceDestroy \/ (\E u \in Boxes : Infra(u))
             \/ (\E u \in Seeds : CoreSeed(u) \/ Reset(u)) \/ UNCHANGED vars
      PROVE  box' = box
  BY <1>9
  DEF Begin, BeginProvisioner, BeginOnRecord, Launch, Checkpoint, SaveProvisioned,
      StepFails, SaveRunning, LoadOrSyncFails, RemoveState, Crash,
      BypassStep, SkipStep, LoadManifest, RunnerDestroy, ServiceDestroy, Infra, CoreSeed,
      Reset, vars, world
<1> QED BY NextCases, <1>2, <1>3, <1>4, <1>5, <1>6, <1>7, <1>8, <1>9

LEMMA OriginStep ==
  ASSUME TypeInv, [Next]_vars
  PROVE  \/ origin' = origin
         \/ Push /\ origin' = origin + 1
<1>1. CASE RunFn
  BY <1>1 DEF RunFn, CreateCompute, Seed, BuildManifest, WriteFile, RegenerateManifest,
              SyncStep, StartInfra, BuildServices, StartServices, RunnerDeploy,
              OtherStep, Executes
<1>2. ASSUME ~RunFn, ~Push
      PROVE  origin' = origin
  BY <1>2, NextCases
  DEF Begin, BeginProvisioner, BeginOnRecord, Launch, Checkpoint, SaveProvisioned,
      StepFails, SaveRunning, LoadOrSyncFails, RemoveState, DestroyFails, Crash,
      BypassStep, SkipStep, LoadManifest, SyncCode, RunnerDestroy, ServiceDestroy,
      ComputeDestroy, CleanupEnv, DestroyAt, LoseBox, LoseArtifact, Infra, CoreSeed, Reset,
      vars, world
<1> QED BY <1>1, <1>2 DEF Push

LEMMA SyncedStep ==
  ASSUME TypeInv, [Next]_vars, ~SyncCode
  PROVE  synced' = synced \/ synced' = 0
<1>1. CASE RunFn
  BY <1>1 DEF RunFn, CreateCompute, Seed, BuildManifest, WriteFile, RegenerateManifest,
              SyncStep, StartInfra, BuildServices, StartServices, RunnerDeploy, OtherStep
<1>2. CASE Begin
  BY <1>2 DEF Begin, BeginProvisioner, BeginOnRecord, Launch
<1>3. CASE Return
  BY <1>3 DEF Return
<1>4. ASSUME ~RunFn, ~Begin, ~Return
      PROVE  synced' = synced
  BY <1>4, NextCases, Returning
  DEF Checkpoint, SaveProvisioned, BypassStep, SkipStep, LoadManifest, RunnerDestroy,
      ServiceDestroy, ComputeDestroy, CleanupEnv, DestroyAt, Push, LoseBox, LoseArtifact,
      Infra, CoreSeed, Reset, vars, invocation
<1> QED BY <1>1, <1>2, <1>3, <1>4

LEMMA SourceKept ==
  ASSUME TypeInv, SourceInv, [Next]_vars
  PROVE  SourceInv'
<1>1. origin \in Nat /\ \A b \in Boxes : box[b].tree \in Nat
  BY DEF TypeInv, WorldOK, BoxRecords
<1>2. origin' \in Nat /\ origin <= origin' /\ 1 <= origin' /\ (Push => origin' = origin + 1)
  BY <1>1, OriginStep DEF SourceInv, Push
<1>3. ASSUME NEW b \in Boxes PROVE box'[b].tree <= origin'
  BY <1>1, <1>2, TreeStep DEF SourceInv
<1>4. synced' <= origin'
  <2>1. CASE SyncCode
    <3>1. ca \in Boxes /\ synced' = box'[ca].tree
      BY <2>1 DEF SyncCode, TypeInv
    <3> QED BY <1>3, <3>1
  <2>2. CASE ~SyncCode
    BY <1>1, <1>2, <2>2, SyncedStep DEF SourceInv, TypeInv, CommandOK
  <2> QED BY <2>1, <2>2
<1> QED BY <1>2, <1>3, <1>4 DEF SourceInv

-----------------------------------------------------------------------------
\* A step function runs where the command is, and changes nothing else of it.
LEMMA FnStays ==
  ASSUME RunFn
  PROVE  /\ Executes(pc) /\ pc \in Steps /\ ~ran /\ ran' /\ UNCHANGED <<entry, cmd, forced, pc, mem, todo>>
         /\ synced' = synced
  BY DEF RunFn, CreateCompute, Seed, BuildManifest, WriteFile, RegenerateManifest,
         SyncStep, StartInfra, BuildServices, StartServices, RunnerDeploy, OtherStep, Executes

LEMMA RefreshOnlyKept ==
  ASSUME TypeInv, RefreshOnly, [Next]_vars
  PROVE  RefreshOnly'
<1> SUFFICES ASSUME pc' \in {"sync_code", "generate_manifest"} PROVE cmd' = "refresh"
  BY DEF RefreshOnly
<1>1. CASE BypassStep \/ SkipStep \/ Checkpoint
  <2>1. CASE Return
    BY <2>1 DEF Return
  <2>2. CASE Advance /\ cmd' = cmd /\ pc \in Steps
    <3>1. pc' \in Following /\ todo \subseteq Seeds
      BY <2>2 DEF Advance, TypeInv, CommandOK
    <3>2. pc' \notin Seeds
      BY SeedsApart DEF RunnerSteps
    <3>3. pc \notin {"allocate_ports"} \cup Seeds
      BY <3>1, <3>2, FollowingSeeds
    <3>4. pc \notin ProvisionerFixed
      BY <3>1, <3>3, FollowingProvisioner DEF ProvisionerFixed
    <3>5. pc \in RunnerSteps
      BY <2>2, <3>3, <3>4 DEF Steps, FixedSteps
    <3>6. pc = "sync_code"
      BY <3>1, <3>5, FollowingRunner DEF RunnerSteps
    <3> QED BY <2>2, <3>6 DEF RefreshOnly
  <2> QED BY <1>1, <2>1, <2>2 DEF BypassStep, SkipStep, Checkpoint, TypeInv
<1>2. CASE LoadManifest
  BY <1>2 DEF LoadManifest, FirstRunnerPcs
<1>3. CASE RunFn
  BY <1>3, FnStays DEF RefreshOnly
<1>4. CASE \/ Begin \/ StepFails \/ SaveRunning \/ LoadOrSyncFails \/ RemoveState
           \/ DestroyFails \/ Crash \/ SaveProvisioned \/ SyncCode
           \/ RunnerDestroy \/ ServiceDestroy \/ ComputeDestroy \/ CleanupEnv
  <2>1. \/ Return
        \/ pc' \in {"provisioner_before", "load_manifest", "runner_before"} \cup DestroySteps
    BY <1>4, Returning
    DEF Begin, BeginProvisioner, BeginOnRecord, SaveProvisioned, SyncCode, RunnerDestroy,
        ServiceDestroy, ComputeDestroy, CleanupEnv, DestroyAt, DestroySteps
  <2> QED BY <2>1 DEF Return, DestroySteps
<1>5. CASE \/ Push \/ (\E b \in Boxes : LoseBox(b) \/ LoseArtifact(b) \/ Infra(b))
           \/ UNCHANGED vars
  BY <1>5 DEF Push, LoseBox, LoseArtifact, Infra, vars, invocation, RefreshOnly
<1>6. ASSUME NEW u \in Seeds, CoreSeed(u) \/ Reset(u) PROVE cmd' = "refresh"
  BY <1>6, ResetFacts DEF invocation, RefreshOnly
<1> QED BY NextCases, <1>1, <1>2, <1>3, <1>4, <1>5, <1>6

\* The steps that read the source are invalidated by the sync, and their own
\* checkpoints are the only ones that complete them.
LEMMA InvalidatedKept ==
  ASSUME RunnerInv, [Next]_vars
  PROVE  InvalidatedInv'
<1> USE DEF RunnerInv
<1> SUFFICES ASSUME InPhase'
             PROVE  /\ pc' \in AfterSync \ AfterBuild
                          => mem'.steps["build_services"] # "completed"
                    /\ pc' \in AfterSync \ AfterStart
                          => mem'.steps["start_services"] # "completed"
  BY DEF InvalidatedInv
<1>0. mem \in Entries /\ {"build_services", "start_services"} \subseteq Steps
        /\ "sync" \notin AfterSync /\ AfterStart \subseteq AfterBuild
        /\ AfterBuild \subseteq AfterSync
  BY DEF TypeInv, CommandOK, Steps, FixedSteps, RunnerSteps, AfterSync, AfterEnv,
         AfterCompose, AfterNginx, AfterBuild, AfterStart, AfterDeploy
<1>1. CASE SyncCode
  <2>1. mem' = InvalidateSteps(mem, Resynced)
    BY <1>1 DEF SyncCode
  <2>2. \A s \in Resynced \cap Steps : mem'.steps[s] # "completed"
    BY <1>0, <2>1 DEF InvalidateSteps, Marked, Entries
  <2> QED BY <1>0, <2>2 DEF Resynced
<1>2. CASE LoadManifest
  <2>1. pc' = "sync"
    BY <1>2 DEF LoadManifest, FirstRunnerPcs, InPhase
  <2> QED BY <1>0, <2>1
<1>3. CASE \/ RunFn \/ Push \/ (\E b \in Boxes : LoseBox(b)) \/ UNCHANGED vars
  <2>1. UNCHANGED <<cmd, pc, mem>>
    BY <1>3, FnStays DEF Push, LoseBox, vars, invocation
  <2> QED BY <1>0, <2>1 DEF InvalidatedInv, InPhase
<1>4. CASE BypassStep \/ SkipStep \/ (Checkpoint /\ Advance)
  <2>1. /\ Advance /\ pc \in Steps /\ pc' \in AfterSync \cup {"sync"}
        /\ cmd' = cmd /\ cmd # "refresh"
    BY <1>4, PhaseApart
    DEF BypassStep, SkipStep, Checkpoint, TypeInv, InPhase, Return, Advance, CommandHasSteps
  <2>2. /\ pc \in AfterSync /\ pc' \in AfterSync
        /\ pc' \notin AfterBuild => pc \notin AfterBuild /\ pc # "build_services"
        /\ pc' \notin AfterStart => pc \notin AfterStart /\ pc # "start_services"
    <3>1. /\ \A s \in Leaving : pc' \in After(s) => pc \in After(s) \/ pc = s
          /\ pc \in AfterSync /\ pc' \in AfterSync /\ pc' \in Following
          /\ pc' \notin AfterBuild => pc \notin AfterBuild
          /\ pc' \notin AfterStart => pc \notin AfterStart
      BY <2>1, AdvanceInPhase DEF Advance
    <3>2. /\ pc = "build_services" => pc' = "start_services"
          /\ pc = "start_services" => pc' = "runner_deploy"
      BY <3>1, FollowingRunner DEF RunnerSteps
    <3> QED BY <3>1, <3>2 DEF AfterBuild, AfterStart
  <2>3. \A s \in Steps \ {pc} : mem'.steps[s] = mem.steps[s]
    <3>1. CASE mem' = mem
      BY <3>1
    <3>2. CASE Checkpoint /\ Advance
      <4>1. /\ entry' = Completed(mem, pc)
            /\ \/ mem' = entry' \/ mem' = [entry' EXCEPT !.compute = ca, !.managed = TRUE]
               \/ Return
        BY <3>2 DEF Checkpoint
      <4>2. ~Return
        BY PhaseApart DEF Return, InPhase
      <4> QED BY <1>0, <4>1, <4>2 DEF Completed, Entries
    <3> QED BY <1>4, <3>1, <3>2 DEF BypassStep, SkipStep
  <2> QED BY <1>0, <2>1, <2>2, <2>3 DEF InvalidatedInv, InPhase
<1> QED BY OutsidePhase, <1>1, <1>2, <1>3, <1>4

-----------------------------------------------------------------------------
\* A step after which nothing is lost, as long as the compute is still up.
EffectsStay ==
    Up(ca)' =>
        /\ Up(ca)
        /\ box[ca].files["manifest"] # NoFile => box'[ca].files["manifest"] # NoFile
        /\ box[ca].tree >= synced => box'[ca].tree >= synced
        /\ \A s \in Leaving : Behind(s) /\ Effect(s) => Effect(s)'

LEMMA EffectFrame ==
  ASSUME ca' = ca, synced' = synced, box'[ca].files = box[ca].files,
         box'[ca].built = box[ca].built, box'[ca].deployed = box[ca].deployed,
         docker'[Host(ca)] = docker[Host(ca)]
  PROVE  \A s \in Leaving : Effect(s) => Effect(s)'
<1>1. Host(ca)' = Host(ca)
  BY DEF Host
<1> QED BY <1>1 DEF Leaving, Effect, FileOf, UpToDate, MakingOf

\* A push makes a tree newer; a lost VM is not up, and its containers are its own.
LEMMA WorldEffects ==
  ASSUME RunnerInv, InPhase, Push \/ (\E b \in Boxes : LoseBox(b)) \/ UNCHANGED vars
  PROVE  UNCHANGED <<cmd, pc, ran, mem, ca, synced>> /\ EffectsStay
<1> USE DEF RunnerInv
<1>1. UNCHANGED <<cmd, pc, ran, mem, ca, synced>>
  BY DEF Push, LoseBox, vars, invocation
<1>2. /\ box \in [Boxes -> BoxRecords] /\ docker \in [Boxes -> DockerRecords]
      /\ origin \in Nat /\ synced \in Nat /\ synced <= origin
  BY DEF TypeInv, WorldOK, CommandOK, SourceInv
<1>3. CASE Push
  <2>1. docker' = docker
    BY <1>3 DEF Push
  <2>2. ASSUME Up(ca)'
        PROVE  /\ Up(ca) /\ box'[ca].files = box[ca].files
               /\ box'[ca].built = box[ca].built /\ box'[ca].deployed = box[ca].deployed
               /\ box'[ca].tree = box[ca].tree \/ box'[ca].tree = origin + 1
    BY <1>1, <1>2, <1>3, <2>2 DEF Push, Up, BoxRecords
  <2> QED BY <1>1, <1>2, <2>1, <2>2, EffectFrame DEF EffectsStay
<1>4. ASSUME NEW b \in Boxes, LoseBox(b)
      PROVE  EffectsStay
  <2>1. Remote
    BY <1>4, PhaseApart DEF LoseBox, CommandHasSteps, InPhase
  <2>2. b = ca => ~Up(ca)'
    BY <1>1, <1>2, <1>4, <2>1 DEF LoseBox, Blank, Up
  <2>3. b # ca /\ Up(ca)' => Up(ca) /\ box'[ca] = box[ca] /\ docker'[Host(ca)] = docker[Host(ca)]
    BY <1>1, <1>2, <1>4, <2>1 DEF LoseBox, Up, Host
  <2> QED BY <1>1, <2>2, <2>3, EffectFrame DEF EffectsStay
<1>5. CASE UNCHANGED vars
  BY <1>1, <1>5, EffectFrame DEF EffectsStay, Up, vars, world
<1> QED BY <1>1, <1>3, <1>4, <1>5

\* Each step function adds its own effect.
LEMMA FnEffects ==
  ASSUME RunnerInv, InPhase, RunFn
  PROVE  /\ UNCHANGED <<cmd, pc, mem, ca, synced>> /\ ~ran /\ ran' /\ EffectsStay
         /\ Up(ca)' /\ pc \in Leaving \ (Optional \ Configured) => Effect(pc)'
<1> USE DEF RunnerInv
<1>1. UNCHANGED <<cmd, pc, mem, synced>> /\ ~ran /\ ran' /\ Executes(pc) /\ pc \in RunnerSteps
        /\ pc \in AfterSync /\ pc \notin ProvisionerFixed /\ pc \notin Seeds /\ pc # "sync"
  <2>1. UNCHANGED <<cmd, pc, mem, synced>> /\ ~ran /\ ran' /\ Executes(pc) /\ pc \in Steps
    BY FnStays
  <2>2. pc \in AfterSync /\ pc # "sync"
    BY <2>1, StepsAreNotSync DEF InPhase
  <2>3. pc \in RunnerSteps /\ pc \notin ProvisionerFixed /\ pc \notin Seeds
    BY <2>1, <2>2, PhaseApart, SeedsApart
  <2> QED BY <2>1, <2>2, <2>3
<1>2. ca \in Boxes /\ Up(ca)
  BY <1>1, ExecutesType DEF OnCompute
<1>3. /\ box \in [Boxes -> BoxRecords] /\ docker \in [Boxes -> DockerRecords]
      /\ synced \in Nat /\ mf \in Contents /\ Host(ca) \in Boxes
  BY <1>2, BoxAssumption DEF TypeInv, WorldOK, CommandOK, Host
<1>4. box[ca].tree >= synced
  BY <1>1, <1>2 DEF EffectInv, InPhase
<1>5. CASE WriteFile
  <2>1. ca' = ca /\ docker' = docker /\ pc \in {"generate_env", "generate_compose", "generate_nginx"}
    BY <1>1, <1>5 DEF WriteFile, ProvisionerFixed
  <2>2. CASE pc \in Optional \ Configured
    <3>1. box' = box
      BY <1>5, <2>2 DEF WriteFile
    <3> QED BY <1>1, <1>2, <2>1, <2>2, <3>1, EffectFrame DEF EffectsStay, Up
  <2>3. CASE pc \notin Optional \ Configured
    <3>1. box' = [box EXCEPT ![ca].files[FileOf(pc)] = mf,
                             ![ca].partial = box[ca].partial /\ pc # "generate_env"]
      BY <1>5, <2>3 DEF WriteFile
    <3>2. /\ box'[ca].files = [box[ca].files EXCEPT ![FileOf(pc)] = mf]
          /\ box'[ca].state = box[ca].state /\ box'[ca].tree = box[ca].tree
          /\ box'[ca].built = box[ca].built /\ box'[ca].deployed = box[ca].deployed
      BY <1>2, <1>3, <3>1 DEF BoxRecords
    <3>3. mf # NoFile /\ box[ca].files \in [Files -> Contents \cup {NoFile}]
      BY <1>2, <1>3, FileAssumption DEF BoxRecords
    <3>4. \A f \in Files : box[ca].files[f] # NoFile => box'[ca].files[f] # NoFile
      BY <3>2, <3>3
    <3>5. Effect(pc)'
      <4>1. /\ pc = "generate_env" => FileOf(pc) = "env" /\ FileOf("generate_env") = "env"
            /\ pc = "generate_compose" => FileOf(pc) = "compose"
            /\ pc = "generate_nginx" => FileOf(pc) = "nginx"
        BY DEF FileOf
      <4>2. FileOf(pc) \in Files
        BY <2>1, <4>1 DEF Files
      <4>3. box'[ca].files[FileOf(pc)] # NoFile
        BY <3>2, <3>3, <4>2
      <4>4. FileOf(pc)' = FileOf(pc)
        BY <1>1
      <4> QED BY <1>1, <2>1, <4>3, <4>4 DEF Effect
    <3>6. \A s \in Leaving : Behind(s) /\ Effect(s) => Effect(s)'
      <4>1. ~Behind("start_services")
        BY <2>1 DEF Behind, After, AfterStart, AfterDeploy
      <4>2. ASSUME NEW s \in Leaving \ {"start_services"}, Effect(s)
            PROVE  Effect(s)'
        BY <1>1, <2>1, <3>2, <3>4, <4>2 DEF Leaving, Effect, FileOf, Files
      <4> QED BY <4>1, <4>2
    <3> QED
      BY <1>1, <1>2, <2>1, <3>2, <3>4, <3>5, <3>6 DEF EffectsStay, Up, Files
  <2> QED BY <2>2, <2>3
<1>6. CASE BuildServices
  <2>1. ca' = ca /\ docker' = docker /\ pc = "build_services"
    BY <1>6 DEF BuildServices, Executes
  <2>2. box' = IF "build_services" \in Configured THEN [box EXCEPT ![ca].built = box[ca].tree]
                                                  ELSE box
    BY <1>6 DEF BuildServices
  <2>3. /\ box'[ca].files = box[ca].files /\ box'[ca].tree = box[ca].tree
        /\ box'[ca].deployed = box[ca].deployed /\ box'[ca].state = box[ca].state
        /\ box'[ca].built = IF "build_services" \in Configured THEN box[ca].tree
                                                               ELSE box[ca].built
    BY <1>2, <1>3, <2>2 DEF BoxRecords
  <2>4. Host(ca)' = Host(ca)
    BY <2>1 DEF Host
  <2>5. \A s \in Leaving : Effect(s) => Effect(s)'
    BY <1>1, <1>4, <2>1, <2>3, <2>4 DEF Leaving, Effect, FileOf, UpToDate, MakingOf
  <2>6. "build_services" \in Configured => Effect("build_services")'
    BY <1>1, <1>4, <2>1, <2>3 DEF Effect
  <2>7. pc \in Leaving \ (Optional \ Configured) => "build_services" \in Configured
    BY <2>1 DEF Optional, ComposeSteps
  <2> QED BY <1>1, <1>2, <2>1, <2>3, <2>5, <2>6, <2>7 DEF EffectsStay, Up
<1>7. CASE StartServices
  <2>1. ca' = ca /\ box' = box /\ pc = "start_services"
    BY <1>7 DEF StartServices, Executes
  <2>2. docker' = IF "start_services" \in Configured
                  THEN [docker EXCEPT ![Host(ca)].services = TRUE,
                                      ![Host(ca)].made = MakingOf(ca),
                                      ![Host(ca)].started =
                                          IF UpToDate(ca) THEN docker[Host(ca)].started
                                          ELSE box[ca].built]
                  ELSE docker
    BY <1>7 DEF StartServices
  <2>3. Host(ca)' = Host(ca) /\ MakingOf(ca)' = MakingOf(ca)
    BY <2>1 DEF Host, MakingOf
  <2>4. "start_services" \in Configured =>
            docker'[Host(ca)].services /\ docker'[Host(ca)].made = MakingOf(ca)
    BY <1>3, <2>2 DEF DockerRecords
  <2>5. ASSUME NEW s \in Leaving \ {"start_services"}, Effect(s)
        PROVE  Effect(s)'
    BY <1>1, <2>1, <2>5 DEF Leaving, Effect, FileOf
  <2>6. "start_services" \in Configured => Effect("start_services")'
    BY <2>1, <2>3, <2>4 DEF Effect, UpToDate
  <2>7. ~Behind("start_services")
    BY <1>1, <2>1 DEF Behind, After, AfterStart, AfterDeploy
  <2>8. \A s \in Leaving : Behind(s) /\ Effect(s) => Effect(s)'
    BY <2>5, <2>7
  <2>9. pc \in Leaving \ (Optional \ Configured) => "start_services" \in Configured
    BY <2>1 DEF Optional, ComposeSteps
  <2> QED BY <1>1, <1>2, <2>1, <2>6, <2>8, <2>9 DEF EffectsStay, Up
<1>8. CASE RunnerDeploy
  <2>1. ca' = ca /\ docker' = docker /\ pc = "runner_deploy"
          /\ box' = [box EXCEPT ![ca].deployed = box[ca].tree]
    BY <1>8 DEF RunnerDeploy, Executes
  <2>2. /\ box'[ca].files = box[ca].files /\ box'[ca].tree = box[ca].tree
        /\ box'[ca].built = box[ca].built /\ box'[ca].state = box[ca].state
        /\ box'[ca].deployed = box[ca].tree
    BY <1>2, <1>3, <2>1 DEF BoxRecords
  <2>3. Host(ca)' = Host(ca)
    BY <2>1 DEF Host
  <2>4. Effect("runner_deploy")'
    BY <1>1, <1>4, <2>1, <2>2 DEF Effect
  <2>5. \A s \in Leaving : Effect(s) => Effect(s)'
    <3>1. ASSUME NEW s \in Leaving, s # "runner_deploy", Effect(s)
          PROVE  Effect(s)'
      BY <1>1, <2>1, <2>2, <2>3, <3>1 DEF Leaving, Effect, FileOf, UpToDate, MakingOf
    <3> QED BY <2>4, <3>1
  <2> QED BY <1>1, <1>2, <2>1, <2>2, <2>4, <2>5 DEF EffectsStay, Up
<1>9. CASE StartInfra
  <2>1. ca' = ca /\ box' = box /\ pc = "start_infra"
          /\ docker' = [docker EXCEPT ![Host(ca)].infra = TRUE]
    BY <1>9 DEF StartInfra, Executes
  <2>2. /\ docker'[Host(ca)].services = docker[Host(ca)].services
        /\ docker'[Host(ca)].made = docker[Host(ca)].made
    BY <1>3, <2>1 DEF DockerRecords
  <2>3. Host(ca)' = Host(ca)
    BY <2>1 DEF Host
  <2>4. \A s \in Leaving : Effect(s) => Effect(s)'
    BY <1>1, <2>1, <2>2, <2>3 DEF Leaving, Effect, FileOf, UpToDate, MakingOf
  <2> QED BY <1>1, <1>2, <2>1, <2>4 DEF EffectsStay, Up, Leaving
<1>10. CASE OtherStep
  <2>1. ca' = ca /\ box' = box /\ docker' = docker
          /\ pc \in {"runner_before", "runner_after"}
    BY <1>1, <1>10 DEF OtherStep, ProvisionerFixed
  <2> QED BY <1>1, <1>2, <2>1, EffectFrame DEF EffectsStay, Up, Leaving
<1>11. ~(CreateCompute \/ Seed \/ BuildManifest \/ RegenerateManifest \/ SyncStep)
  BY <1>1, PhaseApart
  DEF CreateCompute, Seed, BuildManifest, RegenerateManifest, SyncStep, Executes,
      ProvisionerFixed
<1> QED BY <1>5, <1>6, <1>7, <1>8, <1>9, <1>10, <1>11 DEF RunFn

LEMMA EffectKept ==
  ASSUME RunnerInv, [Next]_vars
  PROVE  EffectInv'
<1> USE DEF RunnerInv
<1> SUFFICES ASSUME InPhase', Up(ca)'
             PROVE  /\ box'[ca'].files["manifest"] # NoFile
                    /\ pc' # "sync" => box'[ca'].tree >= synced'
                    /\ \A s \in Leaving \ (Optional \ Configured) : Behind(s)' => Effect(s)'
  BY DEF EffectInv
<1>0. /\ \A s \in Leaving : After(s) \subseteq AfterSync \ {"runner_before"}
      /\ "sync" \notin AfterSync \cup Leaving /\ "runner_before" \notin Leaving
  BY DEF Leaving, After, AfterSync, AfterEnv, AfterCompose, AfterNginx, AfterBuild,
         AfterStart, AfterDeploy
<1>1. CASE SyncCode
  <2>1. /\ pc = "sync" /\ pc' = "runner_before" /\ ca' = ca /\ cmd' = cmd /\ ran' = ran
        /\ box' = Fetched(ca) /\ synced' = box'[ca].tree /\ ca \in Boxes
    BY <1>1 DEF SyncCode, TypeInv
  <2>2. /\ box'[ca].files = box[ca].files /\ box'[ca].state = box[ca].state
        /\ box'[ca].tree \in Nat
    <3>1. box \in [Boxes -> BoxRecords] /\ origin \in Nat
      BY DEF TypeInv, WorldOK
    <3> QED BY <2>1, <3>1 DEF Fetched, BoxRecords
  <2>3. InPhase /\ Up(ca)
    BY <2>1, <2>2 DEF InPhase, Up
  <2>4. box[ca].files["manifest"] # NoFile
    BY <2>3 DEF EffectInv
  <2>5. ASSUME NEW s \in Leaving PROVE ~Behind(s)'
    BY <1>0, <2>1 DEF Behind
  <2> QED BY <2>1, <2>2, <2>4, <2>5
<1>2. CASE LoadManifest
  <2>1. /\ pc' = "sync" /\ ca' = mem.compute /\ box' = box /\ ManifestReadable
    BY <1>2 DEF LoadManifest, FirstRunnerPcs, InPhase, world
  <2>2. ASSUME NEW s \in Leaving PROVE ~Behind(s)'
    BY <1>0, <2>1 DEF Behind
  <2> QED BY <2>1, <2>2 DEF ManifestReadable
<1>3. CASE Push \/ (\E b \in Boxes : LoseBox(b)) \/ UNCHANGED vars
  <2>1. InPhase
    BY <1>3 DEF Push, LoseBox, vars, invocation, InPhase
  <2>2. UNCHANGED <<cmd, pc, ran, mem, ca, synced>> /\ EffectsStay
    BY <1>3, <2>1, WorldEffects
  <2>3. Up(ca) /\ \A s \in Leaving : Behind(s)' => Behind(s)
    BY <2>2 DEF EffectsStay, Behind
  <2> QED BY <2>1, <2>2, <2>3 DEF EffectsStay, EffectInv
<1>4. CASE RunFn
  <2>1. InPhase
    BY <1>4, FnStays DEF InPhase
  <2>2. /\ UNCHANGED <<cmd, pc, mem, ca, synced>> /\ ~ran /\ ran' /\ EffectsStay
        /\ Up(ca)' /\ pc \in Leaving \ (Optional \ Configured) => Effect(pc)'
    BY <1>4, <2>1, FnEffects
  <2>3. Up(ca) /\ \A s \in Leaving : Behind(s)' => Behind(s) \/ s = pc
    BY <2>2 DEF EffectsStay, Behind
  <2>4. ASSUME NEW s \in Leaving \ (Optional \ Configured), Behind(s)'
        PROVE  Effect(s)'
    <3>1. CASE s = pc
      BY <2>2, <3>1
    <3>2. CASE s # pc
      BY <2>1, <2>2, <2>3, <2>4, <3>2 DEF EffectsStay, EffectInv
    <3> QED BY <3>1, <3>2
  <2> QED BY <2>1, <2>2, <2>3, <2>4 DEF EffectsStay, EffectInv
<1>5. CASE BypassStep \/ SkipStep \/ (Checkpoint /\ Advance)
  <2>1. /\ Advance /\ pc \in Steps /\ pc' \in AfterSync \cup {"sync"}
        /\ cmd' = cmd /\ cmd # "refresh" /\ synced' = synced /\ UNCHANGED world
    BY <1>5, PhaseApart
    DEF BypassStep, SkipStep, Checkpoint, TypeInv, InPhase, Return, Advance, CommandHasSteps
  <2>2. /\ pc \in AfterSync /\ ~ran'
        /\ \A s \in Leaving : pc' \in After(s) => pc \in After(s) \/ pc = s
    BY <2>1, AdvanceInPhase
  <2>3. InPhase /\ pc # "create_compute" /\ pc # "sync"
    BY <1>0, <2>1, <2>2, PhaseApart DEF InPhase, ProvisionerFixed
  <2>4. ca' = ca
    BY <1>5, <2>1, <2>3, PhaseApart
    DEF BypassStep, SkipStep, Checkpoint, Return, InPhase
  <2>5. box' = box /\ docker' = docker
    BY <2>1 DEF world
  <2>6. Up(ca) /\ \A s \in Leaving : Effect(s) => Effect(s)'
    BY <2>1, <2>4, <2>5, EffectFrame DEF Up
  <2>7. ASSUME NEW s \in Leaving \ (Optional \ Configured), Behind(s)'
        PROVE  Effect(s)
    <3>1. pc \in After(s) \/ pc = s
      BY <2>2, <2>7 DEF Behind
    <3>2. CASE Behind(s)
      BY <2>3, <2>6, <3>2 DEF EffectInv
    <3>3. CASE pc = s /\ ~ran
      <4>1. ~Bypassed(s)
        BY <2>1, <2>3, <3>3 DEF Bypassed
      <4>2. Skips(s)
        BY <1>5, <2>1, <3>3, <4>1 DEF BypassStep, SkipStep, Checkpoint
      <4>3. s \notin AlwaysRun /\ Verified(s) /\ mem.steps[s] = "completed"
        BY <4>2 DEF Skips
      <4>4. s # "build_services" /\ s # "start_services"
        BY <2>3, <3>3, <4>3
        DEF InvalidatedInv, InPhase, AfterSync, AfterEnv, AfterCompose, AfterNginx,
            AfterBuild, AfterStart, AfterDeploy
      <4>5. CASE s \in {"generate_env", "generate_compose", "generate_nginx"}
        BY <4>3, <4>5 DEF Verified, Effect
      <4>6. CASE s = "runner_deploy"
        BY <4>3, <4>6 DEF Effect
      <4> QED BY <4>4, <4>5, <4>6 DEF Leaving
    <3> QED BY <3>1, <3>2, <3>3 DEF Behind
  <2> QED BY <2>1, <2>3, <2>4, <2>5, <2>6, <2>7 DEF EffectInv
<1> QED BY OutsidePhase, <1>1, <1>2, <1>3, <1>4, <1>5

LEMMA RunnerInvKept == RunnerInv /\ [Next]_vars => RunnerInv'
  BY NextType, CommandHasStepsKept, SeedsNotForcedKept, RefreshOnlyKept, SourceKept,
     InvalidatedKept, EffectKept
  DEF RunnerInv

LEMMA InitRunner == Init => RunnerInv
<1> SUFFICES ASSUME Init PROVE RunnerInv
  OBVIOUS
<1>1. ~InPhase /\ RefreshOnly /\ CommandHasSteps /\ SeedsNotForced
  BY PhaseApart DEF Init, InPhase, RefreshOnly, CommandHasSteps, SeedsNotForced
<1>2. SourceInv
  BY DEF Init, SourceInv, Blank
<1> QED BY <1>1, <1>2, InitType DEF RunnerInv, InvalidatedInv, EffectInv

LEMMA RunnerInvariant == Spec => []RunnerInv
  BY InitRunner, RunnerInvKept, PTL DEF Spec

LEMMA InPhaseAtTheEnd == RunnerInv /\ pc = "save_running" => InPhase
  BY DEF RunnerInv, SeedsNotForced, InPhase, AfterSync, AfterEnv, AfterCompose,
         AfterNginx, AfterBuild, AfterStart, AfterDeploy, RunnerSteps

\* Whatever was checkpointed, pushed, lost or killed before: when create or
\* attach is about to declare the environment running, its services were built
\* from source at least as new as this very command's sync, which invalidates the
\* build's checkpoint (domain/manager.go, runRunner), and a deploy hook that must
\* always run saw it too.
THEOREM RunningOnNewSource == Spec => []RunningIsFresh
<1>1. RunnerInv => RunningIsFresh
  <2> SUFFICES ASSUME RunnerInv, pc = "save_running", Up(ca)
               PROVE  /\ "build_services" \in Configured => box[ca].built >= synced
                      /\ "runner_deploy" \in AlwaysRun => box[ca].deployed >= synced
    BY DEF RunningIsFresh
  <2>1. ASSUME NEW s \in {"build_services", "runner_deploy"}, s \notin Optional \ Configured
        PROVE  Effect(s)
    BY <2>1, InPhaseAtTheEnd
    DEF RunnerInv, EffectInv, Leaving, Behind, After, AfterBuild, AfterStart, AfterDeploy
  <2>2. "runner_deploy" \notin Optional
    BY DEF Optional, ComposeSteps
  <2> QED BY <2>1, <2>2 DEF Effect
<1> QED BY <1>1, RunnerInvariant, PTL

LEMMA RunnerFromFiles == RunnerInv => RunningFromFiles
<1> SUFFICES ASSUME RunnerInv, pc = "save_running", Up(ca), "start_services" \in Configured
             PROVE  UpToDate(ca)
  BY DEF RunningFromFiles
<1>1. Effect("start_services")
  BY InPhaseAtTheEnd DEF RunnerInv, EffectInv, Leaving, Behind, After, AfterStart, AfterDeploy
<1> QED BY <1>1 DEF Effect

\* ... and its service containers run and were created from the directory it is
\* declared running in and from the env and compose files that are there now: the
\* sync takes the checkpoint of start_services away as well, so that no files that
\* had to be generated again, and no change between worktree and attached directory,
\* pass the containers by (domain/step_registry.go, startServices).
THEOREM RunningOnItsFiles == Spec => []RunningFromFiles
  BY RunnerFromFiles, RunnerInvariant, PTL

LEMMA RunnerInPlace == RunnerInv => RunningIsComplete
<1> SUFFICES ASSUME RunnerInv, pc = "save_running", Up(ca)
             PROVE  /\ "start_services" \in Configured => docker[Host(ca)].services
                    /\ \A s \in {"write_manifest", "generate_env", "generate_compose",
                                 "generate_nginx"} :
                           s \notin Optional \ Configured => box[ca].files[FileOf(s)] # NoFile
  BY DEF RunningIsComplete
<1>1. InPhase
  BY InPhaseAtTheEnd
<1>2. ASSUME NEW s \in {"generate_env", "generate_compose", "generate_nginx", "start_services"},
             s \notin Optional \ Configured
      PROVE  Effect(s)
  BY <1>1, <1>2
  DEF RunnerInv, EffectInv, Leaving, Behind, After, AfterEnv, AfterCompose, AfterNginx,
      AfterBuild, AfterStart, AfterDeploy
<1>3. box[ca].files[FileOf("write_manifest")] # NoFile
  BY <1>1 DEF RunnerInv, EffectInv, FileOf
<1> QED BY <1>2, <1>3 DEF Effect, UpToDate

\* ... and its services run, and its generated files are on the compute: a step
\* that is skipped was verified in this command, and nothing but the loss of the
\* whole compute takes away what it left (the Verify functions of
\* domain/step_registry.go).
THEOREM RunningInPlace == Spec => []RunningIsComplete
  BY RunnerInPlace, RunnerInvariant, PTL

-----------------------------------------------------------------------------
(***************************************************************************)
(* The provisioner phase.  Its manifest is current when users leave alone  *)
(* what runs hooks behind the checkpoints or regenerates the manifest      *)
(* outside of it, and work on one directory.                               *)
(***************************************************************************)
PlainUse ==
    /\ ~AllowNoCache
    /\ {"seed", "reset", "refresh"} \cap Commands = {}
    /\ Remote \/ "attach" \notin Commands

PlainCommand == ~forced /\ cmd \notin {"refresh", "attach"}

Provisioning == pc \in ProvisionerFixed \cup Seeds \cup {"save_provisioned"}

\* Of the steps whose records a sync leaves alone, the copy of a command holds what
\* the store does.
Lasting == Steps \ Resynced

StepsWrittenBack == cmd # "none" => \A s \in Lasting : entry.steps[s] = mem.steps[s]

\* An environment has one compute of its own, and works on no other.
OneUp == \A b, c \in Managed : Up(b) /\ Up(c) => b = c

OwnBox == UserTree \notin {ca, mem.compute, entry.compute}

\* Seeds the command has come past are completed, with their last outputs loaded.
SeedsLoaded ==
    Provisioning => \A s \in Seeds \ todo : mem.steps[s] = "completed" /\ outs[s] = seeded[s]

AllSeedsPast ==
    pc \in {"build_manifest", "write_manifest", "provisioner_after", "save_provisioned"}
        => todo = {}

\* A seed hook that ran was not recorded as completed.
SeedPending == ran /\ pc \in Seeds => mem.steps[pc] # "completed"

\* A manifest is not recorded as written before all seeds are as completed.
WrittenLast ==
    entry.steps["write_manifest"] = "completed" =>
        \A s \in Seeds : entry.steps[s] = "completed"

SeedsDone == SeedsLoaded /\ AllSeedsPast /\ SeedPending /\ WrittenLast

\* What is recorded as written is what the seeds put out last.
ManifestWritten ==
    entry.steps["write_manifest"] = "completed" \/ (pc = "write_manifest" /\ ran) =>
        \A b \in Managed : Up(b) => box[b].files["manifest"] \in {seeded, NoFile}

\* Where a command has its manifest, and where that is recorded as written.
HoldingPcs == {"write_manifest", "provisioner_after", "save_provisioned", "sync"} \cup AfterSync

WrittenPcs == {"provisioner_after", "save_provisioned", "load_manifest", "sync"} \cup AfterSync

\* The manifest the command holds is current.
ManifestHeld ==
    /\ pc \in HoldingPcs \/ (pc = "build_manifest" /\ ran) => mf = seeded
    /\ pc \in WrittenPcs => mem.steps["write_manifest"] = "completed"

PublishInv == SeedInv /\ RefreshOnly /\ PlainCommand /\ StepsWrittenBack /\ OneUp /\ OwnBox
                 /\ SeedsDone /\ ManifestWritten /\ ManifestHeld

LEMMA PlainCommandKept ==
  ASSUME PlainUse, TypeInv, PlainCommand, [Next]_vars
  PROVE  PlainCommand'
<1>1. CASE Begin
  <2>1. PICK c \in Commands : BeginProvisioner(c) \/ BeginOnRecord(c)
    BY <1>1 DEF Begin
  <2>2. cmd' = c /\ c # "refresh" /\ c # "attach"
    BY <2>1 DEF BeginProvisioner, BeginOnRecord, Launch, PlainUse
  <2>3. ~forced'
    BY <2>1, <2>2 DEF BeginProvisioner, BeginOnRecord, PlainUse
  <2> QED BY <2>2, <2>3 DEF PlainCommand
<1>2. CASE Return
  BY <1>2 DEF Return, PlainCommand
<1>3. ASSUME ~Begin, ~Return
      PROVE  cmd' = cmd /\ forced' = forced
  <2>1. ASSUME NEW u \in Seeds PROVE ~CoreSeed(u) /\ ~Reset(u)
    BY DEF CoreSeed, Reset, PlainUse
  <2> QED
    BY <1>3, <2>1, NextCases, Returning, RecordUntouched
    DEF Checkpoint, SaveProvisioned, SyncCode
<1> QED BY <1>1, <1>2, <1>3 DEF PlainCommand

LEMMA LastingSteps == ProvisionerFixed \cup Seeds \cup {"generate_env"} \subseteq Lasting
<1>1. (ProvisionerFixed \cup {"generate_env"}) \cap Resynced = {}
        /\ ProvisionerFixed \cup {"generate_env"} \subseteq FixedSteps
  BY DEF ProvisionerFixed, Resynced, FixedSteps, RunnerSteps
<1> QED BY <1>1, SeedsApart DEF Lasting, Steps

LEMMA StepsWrittenBackKept ==
  ASSUME TypeInv, StepsWrittenBack, [Next]_vars
  PROVE  StepsWrittenBack'
<1>1. CASE Begin
  BY <1>1, BeginFacts DEF StepsWrittenBack
<1>2. CASE StepFails \/ SaveRunning \/ LoadOrSyncFails \/ RemoveState \/ DestroyFails \/ Crash
  BY <1>2, Returning DEF StepsWrittenBack, Return
<1>3. CASE Checkpoint \/ SaveProvisioned
  <2>1. entry' \in Entries
    BY <1>3, CheckpointType, SaveType DEF TypeInv
  <2>2. CASE Return
    BY <2>2 DEF StepsWrittenBack, Return
  <2>3. CASE mem' = entry' \/ mem' = [entry' EXCEPT !.compute = ca, !.managed = TRUE]
    BY <2>1, <2>3 DEF StepsWrittenBack, Entries, Lasting
  <2> QED BY <1>3, <2>2, <2>3 DEF Checkpoint, SaveProvisioned
<1>4. CASE SyncCode
  <2>1. /\ mem' = InvalidateSteps(mem, Resynced)
        /\ UNCHANGED <<entry, cmd>>
    BY <1>4 DEF SyncCode
  <2>2. mem \in Entries
    BY DEF TypeInv, CommandOK
  <2>4. \A s \in Lasting : mem'.steps[s] = mem.steps[s]
    BY <2>1, <2>2 DEF InvalidateSteps, Marked, Entries, Lasting
  <2> QED BY <2>1, <2>4 DEF StepsWrittenBack
<1>5. CASE \/ BypassStep \/ SkipStep \/ LoadManifest \/ RunFn
           \/ RunnerDestroy \/ ServiceDestroy \/ ComputeDestroy \/ CleanupEnv
           \/ Push \/ (\E b \in Boxes : LoseBox(b) \/ LoseArtifact(b) \/ Infra(b))
           \/ UNCHANGED vars
  BY <1>5, RecordUntouched DEF StepsWrittenBack
<1>6. ASSUME NEW u \in Seeds, CoreSeed(u) \/ Reset(u) PROVE StepsWrittenBack'
  BY <1>6, ResetFacts DEF invocation, StepsWrittenBack
<1> QED BY NextCases, <1>1, <1>2, <1>3, <1>4, <1>5, <1>6

\* Only a seed hook makes new outputs.
LEMMA SeededStep ==
  ASSUME PlainUse, [Next]_vars, ~Seed
  PROVE  seeded' = seeded
<1>1. ASSUME NEW u \in Seeds PROVE ~CoreSeed(u) /\ ~Reset(u)
  BY DEF CoreSeed, Reset, PlainUse
<1> QED
  BY <1>1, NextCases, Returning, RecordUntouched, BeginFacts
  DEF Checkpoint, SaveProvisioned, SyncCode, world

\* What may become of a box and a file on it in one step.
BoxKept(b, f) == Up(b) /\ box'[b].files[f] \in {box[b].files[f], NoFile}

BoxMade(b, f) ==
    /\ CreateCompute /\ ca' = b /\ b \in Managed /\ box'[b].files[f] = NoFile
    /\ \A c \in Managed : ~Up(c)
    /\ \A c \in Boxes : c # b => box'[c] = box[c]

BoxWritten(b, f) ==
    /\ Up(b) /\ b = ca
    /\ \/ WriteFile /\ FileOf(pc) = f /\ box'[b].files[f] = mf
       \/ RegenerateManifest /\ f = "manifest"

\* Building, deploying and checking out leave the files and the box alone.
LEMMA VersionsKeepFiles ==
  ASSUME box \in [Boxes -> BoxRecords], NEW b, NEW v, NEW u \in Boxes
  PROVE  /\ [box EXCEPT ![b].tree = v][u].files = box[u].files
         /\ [box EXCEPT ![b].built = v][u].files = box[u].files
         /\ [box EXCEPT ![b].deployed = v][u].files = box[u].files
  BY DEF BoxRecords

\* Writing one file leaves the others.
LEMMA WritesKeepFiles ==
  ASSUME box \in [Boxes -> BoxRecords], NEW b \in Boxes, NEW f \in Files, NEW v, NEW p,
         NEW u \in Boxes, NEW g \in Files
  PROVE  /\ u # b \/ g # f =>
              /\ [box EXCEPT ![b].files[f] = v][u].files[g] = box[u].files[g]
              /\ [box EXCEPT ![b].files[f] = v, ![b].partial = p][u].files[g]
                   = box[u].files[g]
         /\ [box EXCEPT ![b].partial = p][u].files[g] = box[u].files[g]
  BY DEF BoxRecords

LEMMA WritesFile ==
  ASSUME box \in [Boxes -> BoxRecords], NEW b \in Boxes, NEW f \in Files, NEW v, NEW p
  PROVE  /\ [box EXCEPT ![b].files[f] = v][b].files[f] = v
         /\ [box EXCEPT ![b].files[f] = v, ![b].partial = p][b].files[f] = v
  BY DEF BoxRecords

LEMMA FnBoxStep ==
  ASSUME TypeInv, RunFn, NEW b \in Boxes, NEW f \in Files, Up(b)'
  PROVE  BoxKept(b, f) \/ BoxMade(b, f) \/ BoxWritten(b, f)
<1>1. box \in [Boxes -> BoxRecords]
  BY DEF TypeInv, WorldOK, Files
<1>2. CASE CreateCompute
  <2>1. PICK c \in CreateTargets :
          /\ ca' = c
          /\ box' = IF Up(c) THEN box ELSE [box EXCEPT ![c] = Blank("up", origin)]
    BY <1>2 DEF CreateCompute
  <2>2. CASE Up(c)
    BY <2>1, <2>2 DEF BoxKept, Up
  <2>3. CASE ~Up(c)
    <3>1. c \in Managed /\ \A d \in Managed : ~Up(d)
      BY <2>3 DEF CreateTargets
    <3>2. box' = [box EXCEPT ![c] = Blank("up", origin)] /\ c \in Boxes
      BY <2>1, <2>3, <3>1 DEF Managed
    <3>3. CASE b = c
      <4>1. box'[b].files[f] = NoFile
        BY <1>1, <3>2, <3>3 DEF Blank
      <4>2. \A d \in Boxes : d # b => box'[d] = box[d]
        BY <1>1, <3>2, <3>3
      <4> QED BY <1>2, <2>1, <3>1, <3>3, <4>1, <4>2 DEF BoxMade
    <3>4. CASE b # c
      BY <1>1, <3>2, <3>4 DEF BoxKept, Up
    <3> QED BY <3>3, <3>4
  <2> QED BY <2>2, <2>3
<1>3. CASE WriteFile
  <2>1. CASE box' = box
    BY <2>1 DEF BoxKept, Up
  <2>2. CASE box' # box
    <3>1. /\ box' = [box EXCEPT ![ca].files[FileOf(pc)] = mf,
                               ![ca].partial = box[ca].partial /\ pc # "generate_env"]
          /\ pc \in {"write_manifest", "generate_env", "generate_compose", "generate_nginx"}
          /\ Executes(pc) /\ pc \in OnCompute
      BY <1>3, <2>2 DEF WriteFile, OnCompute, RunnerSteps
    <3>2. ca \in Boxes /\ FileOf(pc) \in Files
      BY <3>1, ExecutesType DEF FileOf, Files
    <3>3. PICK p : box' = [box EXCEPT ![ca].files[FileOf(pc)] = mf, ![ca].partial = p]
      BY <3>1
    <3>4. /\ b = ca /\ f = FileOf(pc) => box'[b].files[f] = mf
          /\ b # ca \/ f # FileOf(pc)
                => box'[b].files[f] = box[b].files[f]
          /\ box'[b].state = box[b].state
      <4>1. [box EXCEPT ![ca].files[FileOf(pc)] = mf, ![ca].partial = p]
               [ca].files[FileOf(pc)] = mf
        BY <1>1, <3>2, WritesFile
      <4>2. b # ca \/ f # FileOf(pc)
              => [box EXCEPT ![ca].files[FileOf(pc)] = mf, ![ca].partial = p]
                    [b].files[f] = box[b].files[f]
        BY <1>1, <3>2, WritesKeepFiles
      <4>3. [box EXCEPT ![ca].files[FileOf(pc)] = mf, ![ca].partial = p][b].state
               = box[b].state
        BY <1>1, WritesKeepState
      <4>4. CASE b = ca /\ f = FileOf(pc)
        BY <3>3, <4>1, <4>3, <4>4
      <4>5. CASE b # ca \/ f # FileOf(pc)
        BY <3>3, <4>2, <4>3, <4>5
      <4> QED BY <4>4, <4>5
    <3> QED BY <1>3, <3>1, <3>4 DEF BoxKept, BoxWritten, Up
  <2> QED BY <2>1, <2>2
<1>4. CASE RegenerateManifest
  <2>1. box' = [box EXCEPT ![ca].files["manifest"] = mem.outs] /\ ca \in Boxes
    BY <1>4, ExecutesType DEF RegenerateManifest, OnCompute, RunnerSteps
  <2>2. [box EXCEPT ![ca].files["manifest"] = mem.outs][b].state = box[b].state
    BY <1>1, WritesKeepState
  <2>3. b # ca \/ f # "manifest" => box'[b].files[f] = box[b].files[f]
    <3>1. "manifest" \in Files
      BY DEF Files
    <3> QED BY <1>1, <2>1, <3>1, WritesKeepFiles
  <2> QED BY <1>4, <2>1, <2>2, <2>3 DEF BoxKept, BoxWritten, Up
<1>5. CASE SyncStep \/ BuildServices \/ RunnerDeploy
  <2>1. \/ box' = box
        \/ box' = [box EXCEPT ![ca].tree = origin]
        \/ box' = [box EXCEPT ![ca].built = box[ca].tree]
        \/ box' = [box EXCEPT ![ca].deployed = box[ca].tree]
    BY <1>5 DEF SyncStep, BuildServices, RunnerDeploy, Fetched
  <2>2. /\ [box EXCEPT ![ca].tree = origin][b].files = box[b].files
        /\ [box EXCEPT ![ca].built = box[ca].tree][b].files = box[b].files
        /\ [box EXCEPT ![ca].deployed = box[ca].tree][b].files = box[b].files
        /\ [box EXCEPT ![ca].tree = origin][b].state = box[b].state
        /\ [box EXCEPT ![ca].built = box[ca].tree][b].state = box[b].state
        /\ [box EXCEPT ![ca].deployed = box[ca].tree][b].state = box[b].state
    BY <1>1, VersionsKeepFiles, WritesKeepState
  <2> QED BY <2>1, <2>2 DEF BoxKept, Up
<1>6. CASE Seed \/ BuildManifest \/ StartInfra \/ StartServices \/ OtherStep
  BY <1>6 DEF Seed, BuildManifest, StartInfra, StartServices, OtherStep, BoxKept, Up
<1> QED BY <1>2, <1>3, <1>4, <1>5, <1>6 DEF RunFn

LEMMA BoxStep ==
  ASSUME TypeInv, [Next]_vars, NEW b \in Boxes, NEW f \in Files, Up(b)'
  PROVE  BoxKept(b, f) \/ BoxMade(b, f) \/ BoxWritten(b, f)
<1>1. box \in [Boxes -> BoxRecords] /\ "env" \in Files
  BY DEF TypeInv, WorldOK, Files
<1>2. CASE RunFn
  BY <1>2, FnBoxStep
<1>3. CASE SyncCode
  <2>1. box' = box \/ box' = [box EXCEPT ![ca].tree = origin]
    BY <1>3 DEF SyncCode, Fetched
  <2>2. /\ [box EXCEPT ![ca].tree = origin][b].files = box[b].files
        /\ [box EXCEPT ![ca].tree = origin][b].state = box[b].state
    BY <1>1, VersionsKeepFiles, WritesKeepState
  <2> QED BY <2>1, <2>2 DEF BoxKept, Up
<1>4. CASE ComputeDestroy \/ DestroyFails
  <2>1. TearDown => (box'[b].state = "up" => box'[b] = box[b])
    BY <1>1, BoxAssumption DEF TearDown, RemovedTree, Blank
  <2>2. box'[b].state = "up" => box'[b] = box[b]
    BY <1>4, <2>1 DEF ComputeDestroy, DestroyFails, PartlyTornDown
  <2> QED BY <2>2 DEF BoxKept, Up
<1>5. CASE CleanupEnv
  <2>1. CASE box' = box
    BY <2>1 DEF BoxKept, Up
  <2>2. CASE box' # box
    <3>1. box' = [box EXCEPT ![mem.compute].files["env"] = NoFile,
                             ![mem.compute].partial = FALSE]
          /\ mem.compute \in Boxes
      <4>1. mem.compute \in Boxes \cup {NoBox}
        BY DEF TypeInv, CommandOK, Entries
      <4> QED BY <1>5, <2>2, <4>1 DEF CleanupEnv
    <3>2. [box EXCEPT ![mem.compute].files["env"] = NoFile,
                      ![mem.compute].partial = FALSE][b].files[f] \in {box[b].files[f], NoFile}
      <4>1. b # mem.compute \/ f # "env"
              => [box EXCEPT ![mem.compute].files["env"] = NoFile,
                             ![mem.compute].partial = FALSE][b].files[f] = box[b].files[f]
        BY <1>1, <3>1, WritesKeepFiles
      <4>2. [box EXCEPT ![mem.compute].files["env"] = NoFile,
                        ![mem.compute].partial = FALSE][mem.compute].files["env"] = NoFile
        BY <1>1, <3>1, WritesFile
      <4> QED BY <4>1, <4>2
    <3>3. [box EXCEPT ![mem.compute].files["env"] = NoFile,
                      ![mem.compute].partial = FALSE][b].state = box[b].state
      BY <1>1, WritesKeepState
    <3> QED BY <3>1, <3>2, <3>3 DEF BoxKept, Up
  <2> QED BY <2>1, <2>2
<1>6. CASE Push
  <2>1. box'[b].files = box[b].files /\ box'[b].state = box[b].state
    BY <1>1, <1>6 DEF Push, BoxRecords
  <2> QED BY <2>1 DEF BoxKept, Up
<1>7. ASSUME NEW u \in Boxes, LoseBox(u)
      PROVE  BoxKept(b, f)
  BY <1>1, <1>7 DEF LoseBox, Blank, BoxKept, Up
<1>8. ASSUME NEW u \in Boxes, LoseArtifact(u)
      PROVE  BoxKept(b, f)
  <2>1. CASE box' = box
    BY <2>1 DEF BoxKept, Up
  <2>2. ASSUME NEW g \in Files,
               box' \in {[box EXCEPT ![u].files[g] = NoFile,
                                    ![u].partial = box[u].partial /\ g # "env"],
                        [box EXCEPT ![u].partial = box[u].partial \/ g = "env"]}
        PROVE  BoxKept(b, f)
    <3>1. PICK p, q :
             box' \in {[box EXCEPT ![u].files[g] = NoFile, ![u].partial = p],
                      [box EXCEPT ![u].partial = q]}
      BY <2>2
    <3>2. /\ [box EXCEPT ![u].files[g] = NoFile, ![u].partial = p][b].files[f]
               \in {box[b].files[f], NoFile}
          /\ [box EXCEPT ![u].partial = q][b].files[f] = box[b].files[f]
      <4>1. u # b \/ g # f => [box EXCEPT ![u].files[g] = NoFile, ![u].partial = p][b].files[f]
                                = box[b].files[f]
        BY <1>1, <2>2, WritesKeepFiles
      <4>2. [box EXCEPT ![u].files[g] = NoFile, ![u].partial = p][u].files[g] = NoFile
        BY <1>1, <2>2, WritesFile
      <4>3. [box EXCEPT ![u].partial = q][b].files[f] = box[b].files[f]
        BY <1>1, <2>2, WritesKeepFiles
      <4> QED BY <4>1, <4>2, <4>3
    <3>3. /\ [box EXCEPT ![u].files[g] = NoFile, ![u].partial = p][b].state = box[b].state
          /\ [box EXCEPT ![u].partial = q][b].state = box[b].state
      BY <1>1, WritesKeepState
    <3> QED BY <3>1, <3>2, <3>3 DEF BoxKept, Up
  <2> QED BY <1>8, <2>1, <2>2 DEF LoseArtifact
<1>9. ASSUME \/ Begin \/ Checkpoint \/ SaveProvisioned \/ StepFails \/ SaveRunning
             \/ LoadOrSyncFails \/ RemoveState \/ Crash
             \/ BypassStep \/ SkipStep \/ LoadManifest \/ RunnerDestroy
             \/ ServiceDestroy \/ (\E u \in Boxes : Infra(u))
             \/ (\E u \in Seeds : CoreSeed(u) \/ Reset(u)) \/ UNCHANGED vars
      PROVE  BoxKept(b, f)
  <2>1. box' = box
    BY <1>9
    DEF Begin, BeginProvisioner, BeginOnRecord, Launch, Checkpoint, SaveProvisioned,
        StepFails, SaveRunning, LoadOrSyncFails, RemoveState, Crash,
        BypassStep, SkipStep, LoadManifest, RunnerDestroy, ServiceDestroy, Infra, CoreSeed,
        Reset, vars, world
  <2> QED BY <2>1 DEF BoxKept, Up
<1> QED BY NextCases, <1>2, <1>3, <1>4, <1>5, <1>6, <1>7, <1>8, <1>9

LEMMA OneUpKept ==
  ASSUME TypeInv, OneUp, [Next]_vars
  PROVE  OneUp'
<1> SUFFICES ASSUME NEW b \in Managed, NEW c \in Managed, Up(b)', Up(c)', b # c
             PROVE  FALSE
  BY DEF OneUp, Managed
<1>1. b \in Boxes /\ c \in Boxes
  BY DEF Managed
<1>2. /\ Up(b) \/ (BoxMade(b, "env") /\ ~Up(c))
      /\ Up(c) \/ (BoxMade(c, "env") /\ ~Up(b))
  BY <1>1, BoxStep DEF BoxKept, BoxMade, BoxWritten, Files
<1>3. BoxMade(b, "env") => (Up(c)' => Up(c))
  BY <1>1 DEF BoxMade, Up
<1>4. BoxMade(c, "env") => (Up(b)' => Up(b))
  BY <1>1 DEF BoxMade, Up
<1> QED BY <1>2, <1>3, <1>4 DEF OneUp

\* Marking and completing records leaves the rest of an entry alone.
LEMMA EntryFrame ==
  ASSUME NEW e \in Entries
  PROVE  /\ \A S, v : /\ Marked(e, S, v).compute = e.compute
                     /\ \A s \in Steps :
                            Marked(e, S, v).steps[s] = IF s \in S THEN v ELSE e.steps[s]
         /\ \A S : InvalidateSteps(e, S).compute = e.compute
         /\ \A s \in Steps :
                /\ Completed(e, s).compute = e.compute
                /\ \A t \in Steps :
                       Completed(e, s).steps[t] = IF t = s THEN "completed" ELSE e.steps[t]
  BY DEF Marked, Completed, InvalidateSteps, Entries

LEMMA NoEntryFrame ==
  /\ NoEntry.compute = NoBox /\ NewEntry.compute = NoBox
  /\ \A s \in Steps : NoEntry.steps[s] = "none" /\ NewEntry.steps[s] = "none"
  BY DEF NoEntry, NewEntry

\* A command of the plain kind never works on a directory of the user's.
LEMMA OwnBoxKept ==
  ASSUME PlainUse, TypeInv, PlainCommand, OwnBox, [Next]_vars
  PROVE  OwnBox'
<1>0. UserTree # NoBox /\ entry \in Entries /\ mem \in Entries /\ NewEntry \in Entries
  BY BoxAssumption, NoEntryType DEF TypeInv, CommandOK
<1>1. CASE Begin
  <2>1. PICK c \in Commands : BeginProvisioner(c) \/ BeginOnRecord(c)
    BY <1>1 DEF Begin
  <2>2. CASE BeginOnRecord(c)
    BY <1>0, <2>2 DEF BeginOnRecord, OwnBox
  <2>3. CASE BeginProvisioner(c)
    <3>1. c # "attach"
      BY <2>3 DEF BeginProvisioner, PlainUse
    <3>2. PICK S : entry' = Marked(IF entry.status = "absent" THEN NewEntry ELSE entry, S, "none")
      BY <2>3 DEF BeginProvisioner
    <3>3. entry'.compute \in {entry.compute, NoBox}
      BY <1>0, <3>2, EntryFrame, NoEntryFrame
    <3> QED BY <1>0, <2>3, <3>1, <3>3 DEF BeginProvisioner, OwnBox
  <2> QED BY <2>1, <2>2, <2>3
<1>2. CASE StepFails \/ SaveRunning \/ LoadOrSyncFails \/ RemoveState \/ DestroyFails \/ Crash
  <2>1. mem'.compute = NoBox /\ ca' = NoBox
    BY <1>2, Returning, NoEntryFrame DEF Return
  <2>2. entry'.compute \in {entry.compute, mem.compute, ca, NoBox}
    <3>1. CASE StepFails
      BY <1>0, <3>1, EntryFrame DEF StepFails
    <3>2. CASE SaveRunning
      BY <1>0, <3>2 DEF SaveRunning, Running, Entries
    <3>3. CASE LoadOrSyncFails \/ RemoveState \/ DestroyFails \/ Crash
      BY <3>3, NoEntryFrame DEF LoadOrSyncFails, RemoveState, DestroyFails, Crash
    <3> QED BY <1>2, <3>1, <3>2, <3>3
  <2> QED BY <1>0, <2>1, <2>2 DEF OwnBox
<1>3. CASE Checkpoint
  <2>1. entry' \in Entries
    BY <1>3, CheckpointType DEF TypeInv
  <2>2. /\ entry' = Completed(mem, pc) /\ pc \in Steps /\ ca' = ca
        /\ mem' = entry' \/ mem' = [entry' EXCEPT !.compute = ca, !.managed = TRUE]
    BY <1>3 DEF Checkpoint, TypeInv, PlainCommand
  <2>3. entry'.compute = mem.compute
    BY <1>0, <2>2, EntryFrame
  <2>4. mem'.compute \in {entry'.compute, ca}
    BY <2>1, <2>2 DEF Entries
  <2> QED BY <2>2, <2>3, <2>4 DEF OwnBox
<1>4. CASE SaveProvisioned
  <2>1. entry'.compute = ca
    BY <1>0, <1>4 DEF SaveProvisioned, Provisioned, Entries
  <2>2. (mem'.compute = NoBox /\ ca' = NoBox) \/ (mem' = entry' /\ ca' = ca)
    BY <1>4, NoEntryFrame DEF SaveProvisioned, Return
  <2> QED BY <1>0, <2>1, <2>2 DEF OwnBox
<1>5. CASE SyncCode
  BY <1>0, <1>5, EntryFrame DEF SyncCode, OwnBox
<1>6. CASE BypassStep \/ SkipStep \/ LoadManifest
  BY <1>6 DEF BypassStep, SkipStep, LoadManifest, OwnBox
<1>7. CASE RunFn
  <2>1. entry' = entry /\ mem' = mem
    BY <1>7, FnStays
  <2>2. ca' = ca \/ CreateCompute
    BY <1>7 DEF RunFn, Seed, BuildManifest, WriteFile, RegenerateManifest,
                SyncStep, StartInfra, BuildServices, StartServices, RunnerDeploy, OtherStep
  <2>3. CreateCompute => ca' # UserTree
    BY DEF CreateCompute, CreateTargets, Managed
  <2> QED BY <2>1, <2>2, <2>3 DEF OwnBox
<1>8. CASE \/ RunnerDestroy \/ ServiceDestroy \/ ComputeDestroy \/ CleanupEnv \/ Push
           \/ (\E b \in Boxes : LoseBox(b) \/ LoseArtifact(b) \/ Infra(b))
           \/ UNCHANGED vars
  BY <1>8 DEF RunnerDestroy, ServiceDestroy, ComputeDestroy, CleanupEnv, DestroyAt,
              Push, LoseBox, LoseArtifact, Infra, invocation, vars, OwnBox
<1>9. ASSUME NEW u \in Seeds PROVE ~CoreSeed(u) /\ ~Reset(u)
  BY DEF CoreSeed, Reset, PlainUse
<1> QED BY NextCases, <1>1, <1>2, <1>3, <1>4, <1>5, <1>6, <1>7, <1>8, <1>9

\* Where a plain command goes from one step to the next.
LEMMA PlainAdvance ==
  ASSUME TypeInv, CommandHasSteps, PlainCommand, RefreshOnly,
         BypassStep \/ SkipStep \/ Checkpoint
  PROVE  /\ pc \in Steps /\ pc # "idle" /\ cmd # "none"
         /\ Advance /\ todo' = todo \ {pc} /\ ~ran'
         /\ cmd' = cmd /\ UNCHANGED world
         /\ pc' # "load_manifest"
         /\ Provisioning' => pc \in ProvisionerFixed \cup Seeds
         /\ pc' = "build_manifest" => pc \in {"allocate_ports"} \cup Seeds /\ todo' = {}
         /\ pc' = "write_manifest" => pc = "build_manifest"
         /\ pc' = "provisioner_after" => pc = "write_manifest"
         /\ pc' = "save_provisioned" => pc = "provisioner_after"
<1>1. pc \in Steps /\ Advance /\ cmd' = cmd /\ UNCHANGED world
  BY DEF BypassStep, SkipStep, Checkpoint, TypeInv, PlainCommand
<1>2. pc # "idle" /\ cmd # "none"
  BY <1>1, SeedsApart DEF CommandHasSteps
<1>3. pc' \in Following /\ todo' = todo \ {pc} /\ ~ran' /\ todo \subseteq Seeds
  BY <1>1 DEF Advance, TypeInv, CommandOK
<1>4. \A s \in Seeds : s \notin FixedSteps \cup OtherPcs
  BY SeedsAssumption
<1>5. CASE pc \in {"allocate_ports"} \cup Seeds
  <2>1. pc' \in Seeds \/ (pc' = "build_manifest" /\ todo' = {})
    BY <1>3, <1>5, FollowingSeeds
  <2>2. pc' \notin {"write_manifest", "provisioner_after", "save_provisioned", "load_manifest"}
    BY <1>4, <2>1 DEF FixedSteps, ProvisionerFixed, OtherPcs
  <2>3. pc' = "build_manifest" => todo' = {}
    BY <1>4, <2>1 DEF FixedSteps, ProvisionerFixed
  <2> QED BY <1>1, <1>2, <1>3, <1>5, <2>2, <2>3 DEF ProvisionerFixed
<1>6. CASE pc \in ProvisionerFixed \ {"allocate_ports"}
  BY <1>1, <1>2, <1>3, <1>6, FollowingProvisioner DEF ProvisionerFixed
<1>7. CASE pc \in RunnerSteps
  <2>1. pc' \in RunnerSteps \cup {"save_running"}
    BY <1>3, <1>7, FollowingRunner DEF RunnerSteps
  <2>2. ~Provisioning' /\ pc' # "load_manifest"
    <3>1. pc' \notin Seeds
      BY <1>4, <2>1 DEF FixedSteps, OtherPcs
    <3>2. pc' \notin ProvisionerFixed \cup {"save_provisioned", "load_manifest"}
      BY <2>1 DEF ProvisionerFixed, RunnerSteps
    <3> QED BY <3>1, <3>2 DEF Provisioning
  <2> QED BY <1>1, <1>2, <1>3, <2>2 DEF Provisioning, ProvisionerFixed
<1> QED BY <1>1, <1>5, <1>6, <1>7 DEF Steps, FixedSteps

\* Seed hooks are never left out, and a seed whose record says completed is skipped.
LEMMA SeedsAreCached ==
  ASSUME PlainCommand, pc \in Seeds
  PROVE  ~Bypassed(pc) /\ (Runs(pc) => mem.steps[pc] # "completed")
<1>1. pc \notin FixedSteps
  BY SeedsAssumption
<1>2. pc \notin AlwaysRun /\ Verified(pc) /\ pc \notin Optional /\ pc # "create_compute"
        /\ pc # "generate_env"
  BY <1>1, ConfigAssumption
  DEF Verified, FixedSteps, ProvisionerFixed, RunnerSteps, Optional, ComposeSteps
<1> QED BY <1>2 DEF PlainCommand, Bypassed, Runs, Skips

\* Of the records --from deletes: never a seed's without that of the written manifest.
LEMMA FromKeepsSeeds ==
  ASSUME NEW c, NEW S \in FromChoices(c), "write_manifest" \notin S
  PROVE  S \cap Seeds = {}
<1>1. CASE S = {}
  BY <1>1
<1>2. CASE S # {}
  <2>1. PICK f \in ProvisionerFixed \cup Seeds : S \in StepsFrom(f)
    BY <1>2 DEF FromChoices
  <2>2. f \notin Seeds
    BY <2>1 DEF StepsFrom
  <2>3. f = "provisioner_after" /\ S = {f}
    <3>1. f \in {"provisioner_before", "create_compute", "allocate_ports", "build_manifest",
                 "write_manifest"}
            => \A T \in StepsFrom(f) : "write_manifest" \in T
      BY <2>2 DEF StepsFrom, ProvisionerFixed
    <3>2. f = "provisioner_after" => StepsFrom(f) = {{f}}
      BY <2>2 DEF StepsFrom
    <3> QED BY <2>1, <2>2, <3>1, <3>2 DEF ProvisionerFixed
  <2> QED BY <2>2, <2>3
<1> QED BY <1>1, <1>2

\* Actions after which the provisioner phase is under way.
LEMMA InProvisioner ==
  ASSUME TypeInv, CommandHasSteps, PlainCommand, RefreshOnly, [Next]_vars, Provisioning'
  PROVE  \/ Begin /\ pc' = "provisioner_before" /\ todo' = Seeds
         \/ BypassStep \/ SkipStep \/ Checkpoint \/ RunFn
         \/ /\ UNCHANGED <<entry, cmd, forced, pc, ran, mem, ca, todo, outs, mf, seeded>>
            /\ Push \/ (\E b \in Boxes : LoseBox(b)) \/ UNCHANGED vars
<1>1. pc' # "idle" /\ pc' \notin DestroySteps
        /\ pc' \notin {"load_manifest", "sync", "runner_before"}
  <2>1. pc' \in Steps \cup {"save_provisioned"}
    BY DEF Provisioning, Steps, FixedSteps
  <2>2. pc' # "runner_before"
    BY SeedsApart DEF Provisioning, ProvisionerFixed, RunnerSteps
  <2>3. pc' \notin DestroySteps /\ pc' # "idle"
    BY <2>1, SeedsApart DEF DestroySteps
  <2>4. pc' # "load_manifest" /\ pc' # "sync"
    BY <2>1, SeedsApart DEF OtherPcs
  <2> QED BY <2>2, <2>3, <2>4
<1>2. ~Return
  BY <1>1 DEF Return
<1>3. Begin => pc' = "provisioner_before" /\ todo' = Seeds
  BY <1>1 DEF Begin, BeginProvisioner, BeginOnRecord, DestroySteps
<1>4. ~SaveProvisioned /\ ~SyncCode
  BY <1>1, <1>2 DEF SaveProvisioned, SyncCode
<1>5. ~(RunnerDestroy \/ ServiceDestroy \/ ComputeDestroy \/ CleanupEnv)
  BY <1>1
  DEF RunnerDestroy, ServiceDestroy, ComputeDestroy, CleanupEnv, DestroyAt, DestroySteps
<1>6. ASSUME NEW b \in Boxes, LoseArtifact(b) \/ Infra(b) PROVE FALSE
  BY <1>1, <1>6 DEF LoseArtifact, Infra, invocation, CommandHasSteps
<1>7. ASSUME NEW u \in Seeds, CoreSeed(u) \/ Reset(u) PROVE FALSE
  BY <1>1, <1>7, ResetFacts DEF invocation, CommandHasSteps
<1>8. ~LoadManifest
  <2>1. LoadManifest => pc' \in RunnerSteps \cup {"sync"}
    BY DEF LoadManifest, FirstRunnerPcs
  <2>2. pc' \notin RunnerSteps
    <3>1. pc' \notin Seeds => pc' \in ProvisionerFixed \cup {"save_provisioned"}
      BY DEF Provisioning
    <3> QED BY <3>1, SeedsApart DEF ProvisionerFixed, RunnerSteps
  <2> QED BY <1>1, <2>1, <2>2
<1>9. Push \/ (\E b \in Boxes : LoseBox(b)) \/ UNCHANGED vars
        => UNCHANGED <<entry, cmd, forced, pc, ran, mem, ca, todo, outs, mf, seeded>>
  BY DEF Push, LoseBox, invocation, vars, world
<1> QED
  BY <1>2, <1>3, <1>4, <1>5, <1>6, <1>7, <1>8, <1>9, NextCases, Returning

LEMMA SeedsLoadedKept ==
  ASSUME PlainUse, SeedInv, RefreshOnly, PlainCommand, SeedsLoaded, SeedPending, [Next]_vars
  PROVE  SeedsLoaded'
<1> SUFFICES ASSUME Provisioning', NEW s \in Seeds, s \notin todo'
             PROVE  (mem.steps[s] = "completed")' /\ (outs[s] = seeded[s])'
  BY DEF SeedsLoaded
<1> USE DEF SeedInv
<1>0. /\ mem \in Entries /\ s \in Steps /\ outs \in Contents /\ seeded \in Contents
      /\ s # "create_compute"
  BY SeedsApart DEF TypeInv, CommandOK, WorldOK, Steps, FixedSteps, ProvisionerFixed
<1>1. CASE BypassStep \/ SkipStep \/ Checkpoint
  <2>1. /\ pc \in ProvisionerFixed \cup Seeds /\ cmd # "none" /\ seeded' = seeded
        /\ s \notin todo \/ s = pc
    BY <1>1, PlainAdvance DEF world
  <2>2. ASSUME s # pc
        PROVE  mem.steps[s] = "completed" /\ outs[s] = seeded[s]
    BY <2>1, <2>2 DEF SeedsLoaded, Provisioning
  <2>3. CASE BypassStep
    <3>1. s # pc
      BY <2>3, SeedsAreCached DEF BypassStep, PlainCommand
    <3> QED BY <2>1, <2>2, <2>3, <3>1 DEF BypassStep
  <2>4. CASE SkipStep
    <3>1. mem' = mem /\ outs' = IF pc \in Seeds THEN [outs EXCEPT ![pc] = mem.seedOut[pc]] ELSE outs
      BY <2>4 DEF SkipStep
    <3>2. CASE s = pc
      <4>1. mem.steps[s] = "completed"
        BY <2>4, <3>2 DEF SkipStep, Skips
      <4>2. entry.steps[s] = "completed" /\ entry.seedOut[s] = mem.seedOut[s]
        BY <2>1, <4>1 DEF SeedsWrittenBack
      <4>3. mem.seedOut[s] = seeded[s]
        BY <4>2 DEF SeedCheckpointCurrent
      <4>4. outs'[s] = mem.seedOut[s]
        BY <1>0, <3>1, <3>2 DEF Contents
      <4> QED BY <2>1, <3>1, <4>1, <4>3, <4>4
    <3>3. CASE s # pc
      <4>1. outs'[s] = outs[s]
        BY <1>0, <3>1, <3>3 DEF Contents
      <4> QED BY <2>1, <2>2, <3>1, <3>3, <4>1
    <3> QED BY <3>2, <3>3
  <2>5. CASE Checkpoint
    <3>1. /\ entry' = Completed(mem, pc) /\ ran /\ outs' = outs
          /\ mem' = IF pc = "create_compute"
                    THEN [entry' EXCEPT !.compute = ca, !.managed = TRUE] ELSE entry'
      BY <2>5 DEF Checkpoint, PlainCommand
    <3>2. entry' \in Entries
      BY <2>5, CheckpointType DEF TypeInv
    <3>3. mem'.steps[s] = entry'.steps[s]
      BY <3>1, <3>2 DEF Entries
    <3>4. entry'.steps[s] = IF s = pc THEN "completed" ELSE mem.steps[s]
      BY <1>0, <2>1, <3>1, EntryFrame DEF Steps, FixedSteps
    <3>5. s = pc => outs[s] = seeded[s]
      BY <3>1 DEF SeedOutputsHeld
    <3> QED BY <2>1, <2>2, <3>1, <3>3, <3>4, <3>5
  <2> QED BY <1>1, <2>3, <2>4, <2>5
<1>2. CASE RunFn
  <2>1. mem' = mem /\ todo' = todo /\ pc' = pc
    BY <1>2, FnStays
  <2>2. mem.steps[s] = "completed" /\ outs[s] = seeded[s]
    BY <2>1 DEF SeedsLoaded, Provisioning
  <2>3. CASE Seed
    <3>1. outs' = [outs EXCEPT ![pc] = seeded[pc] + 1] /\ seeded' = [seeded EXCEPT ![pc] = @ + 1]
      BY <2>3 DEF Seed
    <3>2. s # pc
      BY <2>2, <2>3, SeedsAreCached DEF Seed, Executes
    <3>3. outs'[s] = outs[s] /\ seeded'[s] = seeded[s]
      BY <1>0, <3>1, <3>2 DEF Contents
    <3> QED BY <2>1, <2>2, <3>3
  <2>4. CASE ~Seed
    <3>1. outs' = outs /\ seeded' = seeded
      BY <1>2, <2>4
      DEF RunFn, CreateCompute, BuildManifest, WriteFile, RegenerateManifest,
          SyncStep, StartInfra, BuildServices, StartServices, RunnerDeploy, OtherStep
    <3> QED BY <2>1, <2>2, <3>1
  <2> QED BY <2>3, <2>4
<1>3. CASE UNCHANGED <<entry, cmd, forced, pc, ran, mem, ca, todo, outs, mf, seeded>>
  BY <1>3 DEF SeedsLoaded, Provisioning
<1>4. CASE todo' = Seeds
  BY <1>4
<1> QED BY <1>1, <1>2, <1>3, <1>4, InProvisioner

LEMMA AllSeedsPastKept ==
  ASSUME TypeInv, CommandHasSteps, PlainCommand, RefreshOnly, AllSeedsPast, [Next]_vars
  PROVE  AllSeedsPast'
<1> DEFINE Late == {"build_manifest", "write_manifest", "provisioner_after", "save_provisioned"}
<1> SUFFICES ASSUME pc' \in Late PROVE todo' = {}
  BY DEF AllSeedsPast
<1>0. Provisioning' /\ pc' # "provisioner_before"
  BY DEF Provisioning, ProvisionerFixed
<1>1. CASE BypassStep \/ SkipStep \/ Checkpoint
  <2>1. todo' = todo \ {pc} /\ (pc' = "build_manifest" => todo' = {})
          /\ (pc' # "build_manifest" => pc \in Late)
    BY <1>1, PlainAdvance
  <2> QED BY <2>1 DEF AllSeedsPast
<1>2. CASE RunFn
  BY <1>2, FnStays DEF AllSeedsPast
<1>3. CASE UNCHANGED <<entry, cmd, forced, pc, ran, mem, ca, todo, outs, mf, seeded>>
  BY <1>3 DEF AllSeedsPast
<1> QED BY <1>0, <1>1, <1>2, <1>3, InProvisioner

LEMMA SeedPendingKept ==
  ASSUME TypeInv, CommandHasSteps, PlainCommand, RefreshOnly, SeedPending, [Next]_vars
  PROVE  SeedPending'
<1> SUFFICES ASSUME ran', pc' \in Seeds PROVE mem'.steps[pc'] # "completed"
  BY DEF SeedPending
<1>0. Provisioning'
  BY DEF Provisioning
<1>1. ~(BypassStep \/ SkipStep \/ Checkpoint)
  BY PlainAdvance
<1>2. CASE RunFn
  BY <1>2, FnStays, SeedsAreCached DEF Executes
<1>3. CASE UNCHANGED <<entry, cmd, forced, pc, ran, mem, ca, todo, outs, mf, seeded>>
  BY <1>3 DEF SeedPending
<1>4. ~Begin
  BY BeginFacts
<1> QED BY <1>0, <1>1, <1>2, <1>3, <1>4, InProvisioner

\* How a record can come to be stored as completed.
LEMMA CompletedStep ==
  ASSUME PlainUse, TypeInv, CommandHasSteps, PlainCommand, RefreshOnly, StepsWrittenBack,
         [Next]_vars, NEW s \in Lasting, entry'.steps[s] = "completed"
  PROVE  \/ entry.steps[s] = "completed"
         \/ Checkpoint /\ pc = s
<1>0. /\ entry \in Entries /\ mem \in Entries /\ NewEntry \in Entries /\ s \in Steps
      /\ NoEntry.steps[s] = "none" /\ NewEntry.steps[s] = "none"
  BY NoEntryType, NoEntryFrame DEF TypeInv, CommandOK, Lasting
<1>1. pc # "idle" => mem.steps[s] = entry.steps[s]
  BY DEF CommandHasSteps, StepsWrittenBack
<1>2. CASE Begin
  <2>1. PICK c \in Commands : BeginProvisioner(c) \/ BeginOnRecord(c)
    BY <1>2 DEF Begin
  <2>2. CASE BeginOnRecord(c)
    BY <2>2 DEF BeginOnRecord
  <2>3. CASE BeginProvisioner(c)
    <3>1. PICK S : entry' = Marked(IF entry.status = "absent" THEN NewEntry ELSE entry, S, "none")
      BY <2>3 DEF BeginProvisioner
    <3> QED BY <1>0, <3>1, EntryFrame
  <2> QED BY <2>1, <2>2, <2>3
<1>3. CASE Checkpoint
  <2>1. entry' = Completed(mem, pc) /\ pc \in Steps /\ pc # "idle"
    BY <1>3, SeedsApart DEF Checkpoint, TypeInv
  <2> QED BY <1>0, <1>1, <1>3, <2>1, EntryFrame
<1>4. CASE SaveProvisioned \/ SaveRunning
  <2>1. pc # "idle" /\ entry' \in {Provisioned, Running}
    BY <1>4 DEF SaveProvisioned, SaveRunning
  <2>2. entry'.steps[s] = mem.steps[s]
    BY <1>0, <2>1 DEF Provisioned, Running, Entries
  <2> QED BY <1>1, <2>1, <2>2
<1>5. CASE StepFails
  <2>1. entry' = Marked(mem, {pc}, "failed") /\ pc # "idle"
    BY <1>5, SeedsApart DEF StepFails
  <2>2. s # pc /\ entry'.steps[s] = mem.steps[s]
    BY <1>0, <2>1, EntryFrame
  <2> QED BY <1>1, <2>1, <2>2
<1>6. CASE RemoveState
  BY <1>0, <1>6 DEF RemoveState
<1>7. CASE LoadOrSyncFails \/ DestroyFails \/ Crash \/ SyncCode
  BY <1>7 DEF LoadOrSyncFails, DestroyFails, Crash, SyncCode
<1>8. CASE \/ BypassStep \/ SkipStep \/ LoadManifest \/ RunFn
           \/ RunnerDestroy \/ ServiceDestroy \/ ComputeDestroy \/ CleanupEnv
           \/ Push \/ (\E b \in Boxes : LoseBox(b) \/ LoseArtifact(b) \/ Infra(b))
           \/ UNCHANGED vars
  BY <1>8, RecordUntouched
<1>9. ASSUME NEW u \in Seeds PROVE ~CoreSeed(u) /\ ~Reset(u)
  BY DEF CoreSeed, Reset, PlainUse
<1> QED BY NextCases, <1>2, <1>3, <1>4, <1>5, <1>6, <1>7, <1>8, <1>9

\* A seed's record is not taken back by a step after which another record is still
\* stored, if --from does not delete it without that one.
LEMMA SeedRecordLasts ==
  ASSUME PlainUse, SeedInv, PlainCommand, StepsWrittenBack, SeedPending, [Next]_vars,
         NEW s \in Seeds, entry.steps[s] = "completed",
         NEW l \in Steps, entry'.steps[l] = "completed",
         \A c \in Commands : \A S \in FromChoices(c) : s \in S => l \in S
  PROVE  entry'.steps[s] = "completed"
<1> USE DEF SeedInv
<1>0. /\ entry \in Entries /\ mem \in Entries /\ NewEntry \in Entries /\ s \in Steps
      /\ NoEntry.steps[l] = "none" /\ NewEntry.steps[l] = "none"
  BY NoEntryType, NoEntryFrame DEF TypeInv, CommandOK, Steps
<1>1. pc # "idle" => mem.steps[s] = "completed"
  BY LastingSteps DEF CommandHasSteps, StepsWrittenBack
<1>2. CASE Begin
  <2>1. PICK c \in Commands : BeginProvisioner(c) \/ BeginOnRecord(c)
    BY <1>2 DEF Begin
  <2>2. CASE BeginOnRecord(c)
    BY <2>2 DEF BeginOnRecord
  <2>3. CASE BeginProvisioner(c)
    <3>1. PICK S \in FromChoices(c) :
             entry' = Marked(IF entry.status = "absent" THEN NewEntry ELSE entry, S, "none")
      BY <2>3 DEF BeginProvisioner
    <3>2. entry.status # "absent" /\ l \notin S
      BY <1>0, <3>1, EntryFrame
    <3> QED BY <1>0, <3>1, <3>2, EntryFrame
  <2> QED BY <2>1, <2>2, <2>3
<1>3. CASE Checkpoint
  <2>1. entry' = Completed(mem, pc) /\ pc \in Steps /\ pc # "idle"
    BY <1>3, SeedsApart DEF Checkpoint, TypeInv
  <2> QED BY <1>0, <1>1, <2>1, EntryFrame
<1>4. CASE SaveProvisioned \/ SaveRunning
  <2>1. pc # "idle" /\ entry' \in {Provisioned, Running}
    BY <1>4 DEF SaveProvisioned, SaveRunning
  <2>2. entry'.steps[s] = mem.steps[s]
    BY <1>0, <2>1 DEF Provisioned, Running, Entries
  <2> QED BY <1>1, <2>1, <2>2
<1>5. CASE StepFails
  <2>1. entry' = Marked(mem, {pc}, "failed") /\ pc # "idle" /\ (ran \/ Runs(pc))
    BY <1>5, SeedsApart DEF StepFails
  <2>2. s # pc
    BY <1>1, <2>1, SeedsAreCached DEF SeedPending
  <2> QED BY <1>0, <1>1, <2>1, <2>2, EntryFrame
<1>6. CASE RemoveState
  BY <1>0, <1>6 DEF RemoveState
<1>7. CASE LoadOrSyncFails \/ DestroyFails \/ Crash \/ SyncCode
  BY <1>7 DEF LoadOrSyncFails, DestroyFails, Crash, SyncCode
<1>8. CASE \/ BypassStep \/ SkipStep \/ LoadManifest \/ RunFn
           \/ RunnerDestroy \/ ServiceDestroy \/ ComputeDestroy \/ CleanupEnv
           \/ Push \/ (\E b \in Boxes : LoseBox(b) \/ LoseArtifact(b) \/ Infra(b))
           \/ UNCHANGED vars
  BY <1>8, RecordUntouched
<1>9. ASSUME NEW u \in Seeds PROVE ~CoreSeed(u) /\ ~Reset(u)
  BY DEF CoreSeed, Reset, PlainUse
<1> QED BY NextCases, <1>2, <1>3, <1>4, <1>5, <1>6, <1>7, <1>8, <1>9

LEMMA WrittenLastKept ==
  ASSUME PlainUse, SeedInv, RefreshOnly, PlainCommand, StepsWrittenBack, SeedsDone, [Next]_vars
  PROVE  WrittenLast'
<1> DEFINE w == "write_manifest"
<1> SUFFICES ASSUME entry'.steps[w] = "completed", NEW s \in Seeds
             PROVE  entry'.steps[s] = "completed"
  BY DEF WrittenLast
<1>1. w \in Lasting /\ w \in Steps /\ w \in ProvisionerFixed
  BY LastingSteps DEF ProvisionerFixed, Lasting
<1>2. entry.steps[w] = "completed" \/ (Checkpoint /\ pc = w)
  BY <1>1, CompletedStep DEF SeedInv
<1>3. entry.steps[s] = "completed"
  <2>1. CASE entry.steps[w] = "completed"
    BY <2>1 DEF SeedsDone, WrittenLast
  <2>2. CASE pc = w
    <3>1. mem.steps[s] = "completed" /\ cmd # "none"
      BY <1>1, <2>2
      DEF SeedsDone, SeedsLoaded, AllSeedsPast, Provisioning, SeedInv, CommandHasSteps
    <3> QED BY <3>1, LastingSteps DEF StepsWrittenBack
  <2> QED BY <1>2, <2>1, <2>2
<1>4. ASSUME NEW c \in Commands, NEW S \in FromChoices(c), s \in S
      PROVE  w \in S
  BY <1>4, FromKeepsSeeds
<1> QED BY <1>1, <1>3, <1>4, SeedRecordLasts DEF SeedsDone

LEMMA SeedsDoneKept ==
  ASSUME PlainUse, SeedInv, RefreshOnly, PlainCommand, StepsWrittenBack, SeedsDone, [Next]_vars
  PROVE  SeedsDone'
  BY SeedsLoadedKept, AllSeedsPastKept, SeedPendingKept, WrittenLastKept
  DEF SeedsDone, SeedInv

\* While a manifest is recorded as written, or was just written, no seed hook runs.
LEMMA ManifestWrittenKept ==
  ASSUME PlainUse, PublishInv, [Next]_vars
  PROVE  ManifestWritten'
<1> USE DEF PublishInv, SeedInv
<1> DEFINE w == "write_manifest"
           Recorded == entry.steps[w] = "completed" \/ (pc = w /\ ran)
<1> SUFFICES ASSUME Recorded', NEW b \in Managed, Up(b)'
             PROVE  box'[b].files["manifest"] \in {seeded', NoFile}
  BY DEF ManifestWritten, Managed
<1>0. /\ w \in ProvisionerFixed /\ b \in Boxes /\ b # UserTree
      /\ box \in [Boxes -> BoxRecords] /\ "manifest" \in Files
  BY DEF ProvisionerFixed, Managed, TypeInv, WorldOK, Files
<1>1. Recorded \/ (RunFn /\ pc = w)
  <2>1. CASE entry'.steps[w] = "completed"
    BY <1>0, <2>1, CompletedStep, LastingSteps DEF Checkpoint
  <2>2. CASE pc' = w /\ ran'
    <3>1. Provisioning' /\ pc' # "provisioner_before"
      BY <1>0, <2>2 DEF Provisioning
    <3>2. ~(BypassStep \/ SkipStep \/ Checkpoint)
      BY <2>2, PlainAdvance
    <3> QED BY <2>2, <3>1, <3>2, InProvisioner, FnStays
  <2> QED BY <2>1, <2>2
<1>2. CASE RunFn /\ pc = w
  <2>1. WriteFile
    <3>1. w \notin Seeds /\ w \notin RunnerSteps
      BY <1>0, SeedsApart DEF RunnerSteps, FixedSteps
    <3> QED
      BY <1>2, <3>1
      DEF RunFn, CreateCompute, Seed, BuildManifest, RegenerateManifest, SyncStep, StartInfra,
          BuildServices, StartServices, RunnerDeploy, OtherStep, Executes
  <2>2. /\ Up(ca) /\ ca \in Boxes /\ seeded' = seeded /\ FileOf(pc) = "manifest"
        /\ mf = seeded
        /\ box' = [box EXCEPT ![ca].files[FileOf(pc)] = mf,
                              ![ca].partial = box[ca].partial /\ pc # "generate_env"]
    BY <1>2, <2>1, ExecutesType
    DEF WriteFile, OnCompute, FileOf, Optional, ComposeSteps, ManifestHeld, HoldingPcs
  <2>3. PICK p : box' = [box EXCEPT ![ca].files["manifest"] = mf, ![ca].partial = p]
    BY <2>2
  <2>4. Up(b)
    <3>1. [box EXCEPT ![ca].files["manifest"] = mf, ![ca].partial = p][b].state = box[b].state
      BY <1>0, WritesKeepState
    <3> QED BY <2>3, <3>1 DEF Up
  <2>5. ca \in Managed
    BY <2>2 DEF OwnBox, Managed
  <2>6. b = ca
    BY <2>2, <2>4, <2>5 DEF OneUp
  <2>7. [box EXCEPT ![ca].files["manifest"] = mf, ![ca].partial = p][ca].files["manifest"] = mf
    BY <1>0, <2>2, WritesFile
  <2> QED BY <2>2, <2>3, <2>6, <2>7
<1>3. CASE Recorded /\ ~(RunFn /\ pc = w)
  <2>1. ~Seed
    <3>1. ASSUME Seed PROVE FALSE
      <4>1. pc \in Seeds /\ Executes(pc) /\ pc \in Steps /\ pc # w /\ cmd # "none"
        BY <3>1, <1>0, SeedsApart DEF Seed, Executes, FixedSteps, CommandHasSteps
      <4>2. entry.steps[pc] # "completed"
        BY <4>1, SeedsAreCached, LastingSteps DEF Executes, StepsWrittenBack
      <4> QED BY <1>3, <4>1, <4>2 DEF SeedsDone, WrittenLast
    <3> QED BY <3>1
  <2>2. seeded' = seeded
    BY <2>1, SeededStep
  <2>3. CASE BoxKept(b, "manifest")
    BY <1>3, <2>2, <2>3 DEF BoxKept, ManifestWritten
  <2>4. CASE BoxMade(b, "manifest")
    BY <2>4 DEF BoxMade
  <2>5. ~BoxWritten(b, "manifest")
    <3>1. ~RegenerateManifest
      BY DEF RegenerateManifest, Executes, RefreshOnly, PlainCommand
    <3>2. ~(WriteFile /\ pc = w)
      BY <1>3 DEF RunFn
    <3> QED BY <3>1, <3>2 DEF BoxWritten, WriteFile, FileOf
  <2> QED BY <1>0, <2>3, <2>4, <2>5, BoxStep
<1> QED BY <1>1, <1>2, <1>3

\* When every seed is behind, what the command holds of them is what they put out last.
LEMMA AllSeedsLoaded ==
  ASSUME TypeInv, SeedsDone, pc = "build_manifest"
  PROVE  outs = seeded
<1>1. \A s \in Seeds : outs[s] = seeded[s]
  BY DEF SeedsDone, SeedsLoaded, AllSeedsPast, Provisioning, ProvisionerFixed
<1> QED BY <1>1 DEF TypeInv, CommandOK, WorldOK, Contents

LEMMA ManifestHeldKept ==
  ASSUME PlainUse, PublishInv, [Next]_vars
  PROVE  ManifestHeld'
<1> USE DEF PublishInv, SeedInv
<1> DEFINE w == "write_manifest"
           Holds == pc \in HoldingPcs \/ (pc = "build_manifest" /\ ran)
<1> SUFFICES (Holds' => mf' = seeded') /\ (pc' \in WrittenPcs => mem'.steps[w] = "completed")
  BY DEF ManifestHeld, HoldingPcs, WrittenPcs
<1>0. /\ Holds => mf = seeded
      /\ pc \in WrittenPcs => mem.steps[w] = "completed"
  BY DEF ManifestHeld
<1>1. /\ w \in ProvisionerFixed /\ w \in Steps /\ mem \in Entries
      /\ \A s \in Seeds : s \notin HoldingPcs \cup WrittenPcs \cup {"build_manifest"}
      /\ {"idle", "provisioner_before", "create_compute"} \cap (HoldingPcs \cup WrittenPcs) = {}
      /\ DestroySteps \cap (HoldingPcs \cup WrittenPcs) = {}
  <2>1. \A s \in Seeds : s \notin FixedSteps \cup OtherPcs
    BY SeedsAssumption
  <2>2. HoldingPcs \cup WrittenPcs \cup {"build_manifest"} \subseteq FixedSteps \cup OtherPcs
    BY PhaseApart DEF HoldingPcs, WrittenPcs, FixedSteps, ProvisionerFixed, OtherPcs
  <2>3. {"idle", "provisioner_before", "create_compute"} \cap (HoldingPcs \cup WrittenPcs) = {}
    BY PhaseApart DEF HoldingPcs, WrittenPcs, ProvisionerFixed
  <2>4. DestroySteps \cap (HoldingPcs \cup WrittenPcs) = {}
    BY PhaseApart DEF HoldingPcs, WrittenPcs, DestroySteps
  <2> QED BY <2>1, <2>2, <2>3, <2>4
          DEF TypeInv, CommandOK, Steps, FixedSteps, ProvisionerFixed
<1>2. CASE Begin
  <2>1. pc' \in {"provisioner_before", "runner_destroy"} /\ ~ran'
    BY <1>2, PlainCommandKept, BeginFacts
    DEF Begin, BeginProvisioner, BeginOnRecord, Launch, PlainCommand
  <2> QED BY <1>1, <2>1 DEF DestroySteps
<1>3. CASE Return
  BY <1>1, <1>3 DEF Return
<1>4. CASE RunFn
  <2>1. pc' = pc /\ mem' = mem
    BY <1>4, FnStays
  <2>2. ASSUME Holds' PROVE mf' = seeded'
    <3>1. pc \in HoldingPcs \cup {"build_manifest"} /\ pc \notin Seeds
      BY <1>1, <2>1, <2>2
    <3>2. ~Seed /\ seeded' = seeded
      BY <3>1, SeededStep DEF Seed
    <3>3. CASE BuildManifest
      <4>1. pc = "build_manifest" /\ mf' = outs
        BY <3>3 DEF BuildManifest, Executes
      <4> QED BY <3>2, <4>1, AllSeedsLoaded
    <3>4. ~RegenerateManifest
      BY DEF RegenerateManifest, Executes, RefreshOnly, PlainCommand
    <3>5. CASE ~BuildManifest
      <4>1. mf' = mf
        BY <1>4, <3>2, <3>4, <3>5
        DEF RunFn, CreateCompute, WriteFile, SyncStep, StartInfra, BuildServices,
            StartServices, RunnerDeploy, OtherStep
      <4>2. pc \in HoldingPcs
        <5>1. pc # "build_manifest"
          <6>1. "build_manifest" \notin RunnerSteps
            BY DEF RunnerSteps
          <6> QED
            BY <1>4, <3>2, <3>4, <3>5, <6>1
            DEF RunFn, CreateCompute, WriteFile, SyncStep, StartInfra, BuildServices,
                StartServices, RunnerDeploy, OtherStep, Executes
        <5> QED BY <3>1, <5>1
      <4> QED BY <1>0, <3>2, <4>1, <4>2
    <3> QED BY <3>3, <3>5
  <2> QED BY <1>0, <2>1, <2>2
<1>5. CASE BypassStep \/ SkipStep \/ Checkpoint
  <2>1. /\ pc \in Steps /\ Advance /\ ~ran' /\ cmd' = cmd /\ seeded' = seeded
        /\ pc' # "load_manifest" /\ cmd \notin {"refresh", "attach"}
    BY <1>5, PlainAdvance DEF world, PlainCommand
  <2>2. CASE pc' = w
    <3>1. pc = "build_manifest" /\ pc \notin Optional
      BY <1>5, <2>2, PlainAdvance DEF Optional, ComposeSteps
    <3>2. ~BypassStep
      BY <2>1, <3>1 DEF BypassStep, Bypassed
    <3>3. SkipStep => mf' = outs
      BY <3>1 DEF SkipStep
    <3>4. Checkpoint => mf' = mf /\ ran
      BY <2>1 DEF Checkpoint
    <3>5. mf' = seeded
      BY <1>0, <1>5, <3>1, <3>2, <3>3, <3>4, AllSeedsLoaded
    <3>6. pc' \notin WrittenPcs
      BY <2>2, PhaseApart DEF WrittenPcs, ProvisionerFixed
    <3> QED BY <2>1, <3>5, <3>6
  <2>3. CASE pc' \in HoldingPcs \ {w}
    <3>1. /\ pc = w \/ pc \in HoldingPcs \cap WrittenPcs
          /\ pc # w => pc # "build_manifest"
      <4>1. CASE pc' = "provisioner_after"
        BY <1>5, <4>1, PlainAdvance
      <4>2. CASE pc' = "save_provisioned"
        BY <1>5, <4>2, PlainAdvance DEF HoldingPcs, WrittenPcs
      <4>3. CASE pc' \in AfterSync \cup {"sync"}
        BY <2>1, <4>3, AdvanceInPhase, PhaseApart DEF HoldingPcs, WrittenPcs, ProvisionerFixed
      <4> QED BY <2>3, <4>1, <4>2, <4>3, PhaseApart DEF HoldingPcs, WrittenPcs
    <3>2. pc \in HoldingPcs /\ pc # "build_manifest" /\ pc # "create_compute"
      BY <1>1, <3>1 DEF HoldingPcs
    <3>3. mf' = seeded'
      BY <1>0, <1>5, <2>1, <3>2 DEF BypassStep, SkipStep, Checkpoint
    <3>4. mem'.steps[w] = "completed"
      <4>1. CASE BypassStep \/ SkipStep
        <5>1. mem' = mem
          BY <4>1 DEF BypassStep, SkipStep
        <5>2. pc = w => mem.steps[w] = "completed"
          <6>1. ASSUME pc = w PROVE ~Bypassed(pc)
            BY <2>1, <6>1 DEF Bypassed, Optional, ComposeSteps
          <6> QED BY <2>1, <4>1, <6>1 DEF BypassStep, SkipStep, Skips
        <5> QED BY <1>0, <3>1, <5>1, <5>2
      <4>2. CASE Checkpoint
        <5>1. mem' = Completed(mem, pc)
          BY <2>1, <3>2, <4>2 DEF Checkpoint
        <5> QED BY <1>0, <1>1, <2>1, <3>1, <5>1, EntryFrame
      <4> QED BY <1>5, <4>1, <4>2
    <3> QED BY <3>3, <3>4
  <2>4. CASE pc' \notin HoldingPcs
    BY <2>1, <2>4 DEF HoldingPcs, WrittenPcs
  <2> QED BY <2>2, <2>3, <2>4
<1>6. CASE SaveProvisioned /\ ~Return
  <2>1. pc = "save_provisioned" /\ pc' = "load_manifest" /\ mem' = Provisioned /\ ran' = ran
    BY <1>6 DEF SaveProvisioned
  <2>2. mem'.steps[w] = mem.steps[w]
    BY <1>1, <2>1 DEF Provisioned, Entries
  <2>3. ~Holds'
    BY <2>1, PhaseApart DEF HoldingPcs
  <2> QED BY <1>0, <2>1, <2>2, <2>3 DEF WrittenPcs
<1>7. CASE LoadManifest
  <2>1. /\ pc = "load_manifest" /\ ManifestReadable /\ mem' = mem /\ seeded' = seeded
        /\ mf' = box[mem.compute].files["manifest"] /\ cmd # "none"
    BY <1>7 DEF LoadManifest, world, CommandHasSteps
  <2>2. entry.steps[w] = "completed" /\ mem.steps[w] = "completed"
    BY <1>0, <1>1, <2>1, LastingSteps DEF WrittenPcs, StepsWrittenBack
  <2>3. mem.compute \in Managed /\ Up(mem.compute)
    BY <2>1 DEF ManifestReadable, Up, OwnBox, Managed
  <2>4. mf' = seeded
    BY <2>1, <2>2, <2>3 DEF ManifestWritten, ManifestReadable
  <2> QED BY <2>1, <2>2, <2>4
<1>8. CASE SyncCode
  <2>1. pc = "sync" /\ mf' = mf /\ seeded' = seeded /\ mem' = InvalidateSteps(mem, Resynced)
    BY <1>8 DEF SyncCode
  <2>2. mem'.steps[w] = mem.steps[w]
    BY <1>1, <2>1 DEF InvalidateSteps, Marked, Entries, Resynced
  <2>3. "sync" \in HoldingPcs /\ "sync" \in WrittenPcs
    BY DEF HoldingPcs, WrittenPcs
  <2> QED BY <1>0, <2>1, <2>2, <2>3
<1>9. CASE RunnerDestroy \/ ServiceDestroy \/ ComputeDestroy \/ CleanupEnv
  <2>1. pc' \in DestroySteps
    BY <1>9 DEF RunnerDestroy, ServiceDestroy, ComputeDestroy, CleanupEnv, DestroyAt,
                DestroySteps
  <2>2. pc' # "build_manifest"
    BY <2>1 DEF DestroySteps
  <2> QED BY <1>1, <2>1, <2>2
<1>10. CASE \/ Push \/ (\E b \in Boxes : LoseBox(b) \/ LoseArtifact(b) \/ Infra(b))
            \/ UNCHANGED vars
  <2>1. UNCHANGED <<pc, ran, mem, mf, seeded>>
    BY <1>10 DEF Push, LoseBox, LoseArtifact, Infra, invocation, vars, world
  <2> QED BY <1>0, <2>1
<1>11. ASSUME NEW u \in Seeds PROVE ~CoreSeed(u) /\ ~Reset(u)
  BY DEF CoreSeed, Reset, PlainUse
<1> QED
  BY NextCases, Returning, <1>2, <1>3, <1>4, <1>5, <1>6, <1>7, <1>8, <1>9, <1>10, <1>11

LEMMA InitPublish == Init => PublishInv
<1> SUFFICES ASSUME Init PROVE PublishInv
  OBVIOUS
<1>1. SeedInv
  BY InitType
  DEF Init, SeedInv, CommandHasSteps, SeedsWrittenBack, SeedsNotForced, SeedOutputsHeld,
      SeedCheckpointCurrent, NoEntry, Steps
<1>2. entry.steps["write_manifest"] = "none" /\ ~Provisioning /\ pc = "idle" /\ ~ran
  <2>1. "idle" \notin ProvisionerFixed \cup Seeds \cup {"save_provisioned"}
    BY SeedsApart DEF Steps, FixedSteps
  <2> QED BY <2>1, NoEntryFrame
          DEF Init, Provisioning, Steps, FixedSteps, ProvisionerFixed
<1>3. OneUp
  BY DEF Init, OneUp, Up, Managed, Blank
<1>4. OwnBox
  BY BoxAssumption, NoEntryFrame DEF Init, OwnBox
<1>5. ManifestHeld
  BY <1>2, PhaseApart DEF ManifestHeld, HoldingPcs, WrittenPcs
<1>6. RefreshOnly /\ PlainCommand /\ StepsWrittenBack
  BY DEF Init, RefreshOnly, PlainCommand, StepsWrittenBack
<1>7. SeedsDone /\ ManifestWritten
  BY <1>2
  DEF SeedsDone, SeedsLoaded, AllSeedsPast, SeedPending, WrittenLast, ManifestWritten
<1> QED BY <1>1, <1>3, <1>4, <1>5, <1>6, <1>7 DEF PublishInv

LEMMA PublishKept ==
  ASSUME PlainUse, PublishInv, [Next]_vars
  PROVE  PublishInv'
<1>1. SeedInv'
  BY NextType, CommandHasStepsKept, SeedsWrittenBackKept, SeedsNotForcedKept,
     SeedOutputsHeldKept, SeedCheckpointKept
  DEF PublishInv, SeedInv, PlainUse
<1>2. ManifestWritten' /\ ManifestHeld'
  BY ManifestWrittenKept, ManifestHeldKept
<1>3. RefreshOnly' /\ PlainCommand' /\ StepsWrittenBack'
  BY RefreshOnlyKept, PlainCommandKept, StepsWrittenBackKept DEF PublishInv, SeedInv
<1>4. OneUp' /\ OwnBox' /\ SeedsDone'
  BY OneUpKept, OwnBoxKept, SeedsDoneKept DEF PublishInv, SeedInv
<1> QED BY <1>1, <1>2, <1>3, <1>4 DEF PublishInv

\* The manifest a phase publishes, and the one it left on the compute, hold what
\* the seed hooks put out last, although the steps that build and write it may be
\* cached (domain/manager.go, runProvisioner, saveProvisionedState, runRunner): for
\* users who pass no --no-cache, reset and refresh nothing, and attach no tree.
THEOREM PublishedIsCurrent ==
  ASSUME PlainUse
  PROVE  Spec => []PublishedManifestCurrent
<1>1. PublishInv => PublishedManifestCurrent
  <2> SUFFICES ASSUME PublishInv, pc \in {"save_provisioned", "save_running"}
               PROVE  /\ mf = seeded
                      /\ pc = "save_provisioned" /\ Up(ca)
                            => box[ca].files["manifest"] \in {seeded, NoFile}
    BY DEF PublishedManifestCurrent
  <2>1. mf = seeded
    BY DEF PublishInv, ManifestHeld, HoldingPcs, AfterSync, AfterEnv, AfterCompose, AfterNginx,
           AfterBuild, AfterStart, AfterDeploy
  <2>2. ASSUME pc = "save_provisioned", Up(ca)
        PROVE  box[ca].files["manifest"] \in {seeded, NoFile}
    <3>1. mem.steps["write_manifest"] = "completed" /\ cmd # "none"
      BY <2>2 DEF PublishInv, SeedInv, ManifestHeld, WrittenPcs, CommandHasSteps
    <3>2. entry.steps["write_manifest"] = "completed"
      BY <3>1, LastingSteps DEF PublishInv, StepsWrittenBack, ProvisionerFixed
    <3>3. ca \in Managed
      BY <2>2 DEF PublishInv, OwnBox, Managed, Up
    <3> QED BY <2>2, <3>2, <3>3 DEF PublishInv, ManifestWritten
  <2> QED BY <2>1, <2>2
<1> QED BY InitPublish, PublishKept, <1>1, PTL DEF Spec

-----------------------------------------------------------------------------
(***************************************************************************)
(* The env files.  Of the same users, those who pass no --from either may  *)
(* rely on them too: no seed hook runs any more once they are written.     *)
(***************************************************************************)
EnvLast ==
    entry.steps["generate_env"] = "completed" =>
        \A s \in Seeds : entry.steps[s] = "completed"

EnvWritten ==
    entry.steps["generate_env"] = "completed" \/ (pc = "generate_env" /\ ran) =>
        \A b \in Managed : Up(b) => box[b].files["env"] \in {seeded, NoFile}

EnvRecorded == pc \in AfterEnv => mem.steps["generate_env"] = "completed"

CurrentInv == PublishInv /\ RunnerInv /\ EnvLast /\ EnvWritten /\ EnvRecorded

\* In the runner phase all seeds are recorded as completed.
LEMMA SeedsBeforePhase ==
  ASSUME PublishInv, pc \in AfterSync, NEW s \in Seeds
  PROVE  entry.steps[s] = "completed"
<1>1. mem.steps["write_manifest"] = "completed" /\ cmd # "none"
  BY PhaseApart DEF PublishInv, SeedInv, ManifestHeld, WrittenPcs, CommandHasSteps
<1>2. entry.steps["write_manifest"] = "completed"
  BY <1>1, LastingSteps DEF PublishInv, StepsWrittenBack, ProvisionerFixed
<1> QED BY <1>2 DEF PublishInv, SeedsDone, WrittenLast

LEMMA EnvLastKept ==
  ASSUME PlainUse, ~AllowFrom, PublishInv, EnvLast, [Next]_vars
  PROVE  EnvLast'
<1> SUFFICES ASSUME entry'.steps["generate_env"] = "completed", NEW s \in Seeds
             PROVE  entry'.steps[s] = "completed"
  BY DEF EnvLast
<1>1. "generate_env" \in Lasting /\ "generate_env" \in Steps
  BY LastingSteps DEF Lasting
<1>2. entry.steps["generate_env"] = "completed" \/ pc = "generate_env"
  BY <1>1, CompletedStep DEF PublishInv, SeedInv
<1>3. entry.steps[s] = "completed"
  BY <1>2, SeedsBeforePhase DEF EnvLast, AfterSync
<1>4. \A c \in Commands : \A S \in FromChoices(c) : s \notin S
  BY DEF FromChoices
<1> QED BY <1>1, <1>3, <1>4, SeedRecordLasts DEF PublishInv, SeedsDone

LEMMA EnvWrittenKept ==
  ASSUME PlainUse, PublishInv, EnvLast, EnvWritten, [Next]_vars
  PROVE  EnvWritten'
<1> USE DEF PublishInv, SeedInv
<1> DEFINE g == "generate_env"
           Recorded == entry.steps[g] = "completed" \/ (pc = g /\ ran)
<1> SUFFICES ASSUME Recorded', NEW b \in Managed, Up(b)'
             PROVE  box'[b].files["env"] \in {seeded', NoFile}
  BY DEF EnvWritten, Managed
<1>0. /\ g \in Lasting /\ g \in Steps /\ b \in Boxes /\ b # UserTree /\ "env" \in Files
      /\ g \in RunnerSteps /\ g \notin Seeds /\ g \in AfterSync /\ g \notin ProvisionerFixed
      /\ box \in [Boxes -> BoxRecords]
  BY LastingSteps, SeedsApart
  DEF Lasting, Managed, Files, RunnerSteps, AfterSync, ProvisionerFixed, TypeInv, WorldOK
<1>1. Recorded \/ (RunFn /\ pc = g)
  <2>1. CASE entry'.steps[g] = "completed"
    BY <1>0, <2>1, CompletedStep DEF Checkpoint
  <2>2. CASE pc' = g /\ ran'
    <3>1. InPhase'
      BY <1>0, <2>2, PlainCommandKept DEF InPhase, PlainCommand
    <3>2. ~(BypassStep \/ SkipStep \/ Checkpoint)
      BY <2>2, PlainAdvance
    <3>3. ~SyncCode /\ ~LoadManifest
      BY <2>2, <1>0 DEF SyncCode, LoadManifest, FirstRunnerPcs, PlainCommand
    <3>4. Push \/ (\E u \in Boxes : LoseBox(u)) \/ UNCHANGED vars => pc' = pc /\ ran' = ran
      BY DEF Push, LoseBox, invocation, vars
    <3> QED BY <2>2, <3>1, <3>2, <3>3, <3>4, OutsidePhase, FnStays
  <2> QED BY <2>1, <2>2
<1>2. CASE RunFn /\ pc = g
  <2>1. WriteFile
    BY <1>0, <1>2
    DEF RunFn, CreateCompute, Seed, BuildManifest, RegenerateManifest, SyncStep, StartInfra,
        BuildServices, StartServices, RunnerDeploy, OtherStep, Executes
  <2>2. /\ Up(ca) /\ ca \in Boxes /\ seeded' = seeded /\ FileOf(pc) = "env"
        /\ mf = seeded
        /\ box' = [box EXCEPT ![ca].files[FileOf(pc)] = mf,
                              ![ca].partial = box[ca].partial /\ pc # "generate_env"]
    BY <1>0, <1>2, <2>1, ExecutesType
    DEF WriteFile, OnCompute, FileOf, Optional, ComposeSteps, ManifestHeld, HoldingPcs
  <2>3. PICK p : box' = [box EXCEPT ![ca].files["env"] = mf, ![ca].partial = p]
    BY <2>2
  <2>4. Up(b)
    <3>1. [box EXCEPT ![ca].files["env"] = mf, ![ca].partial = p][b].state = box[b].state
      BY <1>0, WritesKeepState
    <3> QED BY <2>3, <3>1 DEF Up
  <2>5. b = ca
    BY <2>2, <2>4 DEF OwnBox, OneUp, Managed
  <2>6. [box EXCEPT ![ca].files["env"] = mf, ![ca].partial = p][ca].files["env"] = mf
    BY <1>0, <2>2, WritesFile
  <2> QED BY <2>2, <2>3, <2>5, <2>6
<1>3. CASE Recorded /\ ~(RunFn /\ pc = g)
  <2>1. ~Seed
    <3>1. ASSUME Seed PROVE FALSE
      <4>1. pc \in Seeds /\ Executes(pc) /\ pc \in Steps /\ pc # g /\ cmd # "none"
        BY <3>1, <1>0, SeedsApart DEF Seed, Executes, CommandHasSteps
      <4>2. entry.steps[pc] # "completed"
        BY <4>1, SeedsAreCached, LastingSteps DEF Executes, StepsWrittenBack
      <4> QED BY <1>3, <4>1, <4>2 DEF EnvLast
    <3> QED BY <3>1
  <2>2. seeded' = seeded
    BY <2>1, SeededStep
  <2>3. CASE BoxKept(b, "env")
    BY <1>3, <2>2, <2>3 DEF BoxKept, EnvWritten
  <2>4. CASE BoxMade(b, "env")
    BY <2>4 DEF BoxMade
  <2>5. ~BoxWritten(b, "env")
    <3>1. ~(WriteFile /\ pc = g)
      BY <1>3 DEF RunFn
    <3> QED BY <3>1 DEF BoxWritten, WriteFile, FileOf
  <2> QED BY <1>0, <2>3, <2>4, <2>5, BoxStep
<1> QED BY <1>1, <1>2, <1>3

\* The step before each of those that follow generate_env: none is left out.
LEMMA EnvRecordedKept ==
  ASSUME PublishInv, EnvRecorded, PlainCommand', [Next]_vars
  PROVE  EnvRecorded'
<1> USE DEF PublishInv, SeedInv
<1> DEFINE g == "generate_env"
<1> SUFFICES ASSUME pc' \in AfterEnv PROVE mem'.steps[g] = "completed"
  BY DEF EnvRecorded
<1>0. /\ g \in Lasting /\ g \in Steps /\ mem \in Entries
      /\ AfterEnv \subseteq AfterSync
  BY LastingSteps DEF Lasting, AfterSync, TypeInv, CommandOK
<1>1. InPhase'
  BY <1>0 DEF InPhase, PlainCommand
<1>2. CASE BypassStep \/ SkipStep \/ Checkpoint
  <2>1. /\ pc \in Steps /\ Advance /\ cmd' = cmd /\ cmd \notin {"refresh", "attach"}
    BY <1>2, PlainAdvance DEF PlainCommand
  <2>2. pc \in AfterEnv \cup {g} /\ pc # "create_compute"
    <3>1. g \in Leaving /\ After(g) = AfterEnv
      BY DEF Leaving, After
    <3>2. pc \in After(g) \/ pc = g
      BY <1>0, <2>1, <3>1, AdvanceInPhase
    <3> QED BY <1>0, <3>1, <3>2, PhaseApart DEF ProvisionerFixed, AfterSync
  <2>3. CASE BypassStep \/ SkipStep
    <3>1. mem' = mem
      BY <2>3 DEF BypassStep, SkipStep
    <3>2. pc = g => mem.steps[g] = "completed"
      <4>1. pc = g => ~Bypassed(pc)
        BY <2>1 DEF Bypassed, Optional, ComposeSteps
      <4> QED BY <2>1, <2>3, <4>1 DEF BypassStep, SkipStep, Skips
    <3> QED BY <2>2, <3>1, <3>2 DEF EnvRecorded
  <2>4. CASE Checkpoint
    <3>1. mem' = Completed(mem, pc)
      BY <2>1, <2>2, <2>4 DEF Checkpoint
    <3> QED BY <1>0, <2>1, <2>2, <3>1, EntryFrame DEF EnvRecorded
  <2> QED BY <1>2, <2>3, <2>4
<1>3. ~SyncCode /\ ~LoadManifest
  <2>1. pc' # "runner_before" /\ pc' # "sync"
    BY DEF AfterEnv, AfterCompose, AfterNginx, AfterBuild, AfterStart, AfterDeploy
  <2> QED BY <2>1 DEF SyncCode, LoadManifest, FirstRunnerPcs, PlainCommand
<1>4. CASE RunFn \/ Push \/ (\E u \in Boxes : LoseBox(u)) \/ UNCHANGED vars
  <2>1. pc' = pc /\ mem' = mem
    BY <1>4, FnStays DEF Push, LoseBox, invocation, vars
  <2> QED BY <2>1 DEF EnvRecorded
<1> QED BY <1>1, <1>2, <1>3, <1>4, OutsidePhase

\* The env files of an environment that is declared running hold the outputs of the
\* last seed runs, although Verify does not look into them (domain/step_registry.go,
\* generate_env): for the users above, when none passes --from to a provision.
THEOREM RunningOnCurrentEnv ==
  ASSUME PlainUse, ~AllowFrom
  PROVE  Spec => []RunningIsCurrent
<1>1. Init => CurrentInv
  <2> SUFFICES ASSUME Init PROVE CurrentInv
    OBVIOUS
  <2>1. entry.steps["generate_env"] = "none" /\ pc = "idle" /\ ~ran
    BY LastingSteps, NoEntryFrame DEF Init, Lasting
  <2>2. EnvLast /\ EnvWritten /\ EnvRecorded
    BY <2>1, PhaseApart DEF EnvLast, EnvWritten, EnvRecorded, AfterSync
  <2> QED BY <2>2, InitRunner, InitPublish DEF CurrentInv
<1>2. CurrentInv /\ [Next]_vars => CurrentInv'
  <2> SUFFICES ASSUME CurrentInv, [Next]_vars PROVE CurrentInv'
    OBVIOUS
  <2>1. PublishInv' /\ RunnerInv'
    BY PublishKept, RunnerInvKept DEF CurrentInv
  <2>2. EnvLast' /\ EnvWritten' /\ EnvRecorded'
    BY <2>1, EnvLastKept, EnvWrittenKept, EnvRecordedKept DEF CurrentInv, PublishInv
  <2> QED BY <2>1, <2>2 DEF CurrentInv
<1>3. CurrentInv => RunningIsCurrent
  <2> SUFFICES ASSUME CurrentInv, pc = "save_running", Up(ca)
               PROVE  box[ca].files["env"] = seeded
    BY DEF RunningIsCurrent
  <2>1. pc \in AfterEnv /\ cmd # "none"
    BY DEF AfterEnv, AfterCompose, AfterNginx, AfterBuild, AfterStart, AfterDeploy,
           CurrentInv, RunnerInv, CommandHasSteps
  <2>2. entry.steps["generate_env"] = "completed"
    BY <2>1, LastingSteps DEF CurrentInv, EnvRecorded, PublishInv, StepsWrittenBack
  <2>3. ca \in Managed
    BY DEF CurrentInv, PublishInv, OwnBox, Managed, Up
  <2>4. box[ca].files["env"] \in {seeded, NoFile}
    BY <2>2, <2>3 DEF CurrentInv, EnvWritten
  <2>5. RunningIsComplete
    BY RunnerInPlace DEF CurrentInv
  <2>6. box[ca].files[FileOf("generate_env")] # NoFile
    BY <2>5 DEF RunningIsComplete, Optional, ComposeSteps
  <2> QED BY <2>4, <2>6 DEF FileOf
<1> QED BY <1>1, <1>2, <1>3, PTL DEF Spec
=============================================================================
