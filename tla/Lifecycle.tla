------------------------------ MODULE Lifecycle ------------------------------
(***************************************************************************)
(* The life of ONE preview environment: the two-phase step engine of       *)
(* domain/manager.go (Manager.step, runProvisioner, runRunner, Destroy,    *)
(* RunSteps) with the steps of domain/step_registry.go, the record it      *)
(* checkpoints to the state store, and the compute it works on.            *)
(*                                                                         *)
(* One command runs at a time.  It keeps a private copy of the record      *)
(* (mem) that it writes back after every step, so a kill between a step's  *)
(* effect and its write-back, a failing hook, or compute that disappears   *)
(* leaves record and reality apart; the next command starts from there.    *)
(* Concurrent commands on one record are the subject of another module.    *)
(*                                                                         *)
(* A definition named Faulty... is a wrong version of the one that follows *)
(* it; no specification uses it.  It is there to try the properties on.    *)
(***************************************************************************)
EXTENDS Naturals, FiniteSets

CONSTANTS
    Seeds,          \* provisioner services that have a seed hook
    Boxes,          \* compute a command may work on: VMs, or directories
    Worktree,       \* local mode: the directory create_compute manages
    UserTree,       \* local mode: a directory the user attaches
    NoBox,          \* "entry.Compute == nil"
    NoFile,         \* content of a file that does not exist
    Remote,         \* compute.create/destroy hooks are configured
    Configured,     \* which optional steps and hooks the config enables
    AlwaysRun,      \* runner hooks with allow_cache: false
    Commands,       \* which CLI commands users issue
    AllowFrom,      \* may users pass --from to "run provision"
    AllowNoCache,   \* may users pass --no-cache
    MaxLaunches,    \* bound: commands issued
    MaxFaults,      \* bound: hook failures and kills
    MaxLosses,      \* bound: compute, files or containers lost
    MaxTroubles,    \* bound: failures, kills and losses together
    MaxPushes       \* bound: new source versions

ProvisionerFixed == {"provisioner_before", "create_compute", "allocate_ports",
                     "build_manifest", "write_manifest", "provisioner_after"}

RunnerSteps == {"sync_code", "generate_manifest", "runner_before",
                "generate_env", "start_infra", "generate_compose",
                "generate_nginx", "build_services", "start_services",
                "runner_deploy", "runner_after"}

FixedSteps == ProvisionerFixed \cup RunnerSteps

Steps == FixedSteps \cup Seeds

DestroySteps == {"runner_destroy", "service_destroy", "compute_destroy",
                 "cleanup_env", "remove_state"}

OtherPcs == {"idle", "save_provisioned", "load_manifest", "sync", "save_running"}

\* Steps of a runner.compose section; the proxy is an option of that section.
ComposeSteps == {"generate_compose", "build_services", "start_services"}

Optional == {"provisioner_before", "provisioner_after", "generate_nginx"}
                \cup ComposeSteps

Hooks == {"compute_destroy", "runner_destroy"}

AllCommands == {"create", "provision", "attach", "refresh", "destroy"}

ASSUME SeedsAssumption ==
    /\ IsFiniteSet(Seeds)
    /\ Seeds \cap (FixedSteps \cup DestroySteps \cup OtherPcs) = {}

ASSUME BoxAssumption ==
    /\ Worktree \in Boxes /\ UserTree \in Boxes /\ Worktree # UserTree
    /\ NoBox \notin Boxes

ASSUME ConfigAssumption ==
    /\ Remote \in BOOLEAN /\ AllowFrom \in BOOLEAN /\ AllowNoCache \in BOOLEAN
    /\ Configured \subseteq Optional \cup Hooks
    /\ ComposeSteps \subseteq Configured \/ ComposeSteps \cap Configured = {}
    /\ "generate_nginx" \in Configured => ComposeSteps \subseteq Configured
    /\ AlwaysRun \subseteq {"runner_before", "build_services", "runner_deploy",
                            "runner_after"}
    /\ Commands \subseteq AllCommands \cup {"infra", "seed", "reset"}

ASSUME BoundAssumption ==
    {MaxLaunches, MaxFaults, MaxLosses, MaxTroubles, MaxPushes} \subseteq Nat

-----------------------------------------------------------------------------
(***************************************************************************)
(* Data.  A manifest, and every file or container made from it, is told    *)
(* apart by the seed outputs it carries: output n of a seed is what the    *)
(* n-th run of its seed or reset hook printed, and 0 means "no outputs     *)
(* yet" (in a manifest also: no ports, which entry.Ports gets at the same  *)
(* two places).                                                            *)
(***************************************************************************)
Contents == [Seeds -> Nat]

NoOutputs == [s \in Seeds |-> 0]

ASSUME FileAssumption == NoFile \notin Contents

Files == {"manifest", "env", "compose", "nginx"}

StepStatus == {"none", "completed", "failed", "invalidated"}

Statuses == {"absent", "creating", "provisioned", "running"}

\* EnvironmentEntry; status "absent" is a record that is not in the store.
Entries == [status  : Statuses,
            steps   : [Steps -> StepStatus],
            seedOut : Contents,            \* Steps[seed_s].Outputs
            outs    : Contents,            \* ProvisionerOutputs (and Ports)
            compute : Boxes \cup {NoBox},
            managed : BOOLEAN]

NoEntry == [status  |-> "absent",
            steps   |-> [s \in Steps |-> "none"],
            seedOut |-> NoOutputs,
            outs    |-> NoOutputs,
            compute |-> NoBox,
            managed |-> FALSE]

NewEntry == [NoEntry EXCEPT !.status = "creating"]

BoxStates == {"unused", "up", "gone"}

BoxRecords == [state    : BoxStates,
               files    : [Files -> Contents \cup {NoFile}],
               partial  : BOOLEAN, \* some env files are there, and some are not
               tree     : Nat,     \* source version checked out
               built    : Nat,     \* version build_services last built
               deployed : Nat]     \* version runner_deploy last ran on

\* A box that holds nothing previewctl made.
Blank(state, version) ==
    [state |-> state, files |-> [f \in Files |-> NoFile], partial |-> FALSE,
     tree |-> version, built |-> 0, deployed |-> 0]

\* What docker compose tells two versions of a service's container apart by: the
\* directory it mounts, and the variables and the command it is given.
Makings == [at : Boxes \cup {NoBox}, env : Contents \cup {NoFile},
            compose : Contents \cup {NoFile}]

\* Containers: per VM in remote mode, one compose project on the host in local
\* mode (the project is named after the environment, not the directory).
DockerRecords == [infra    : BOOLEAN,   \* infrastructure containers
                  services : BOOLEAN,   \* application containers and proxy
                  made     : Makings,   \* what those were created from
                  started  : Nat]       \* build their processes started on

NoContainers == [infra |-> FALSE, services |-> FALSE, started |-> 0,
                 made |-> [at |-> NoBox, env |-> NoFile, compose |-> NoFile]]

VARIABLES
    entry,      \* the record in the state store
    cmd,        \* the command that runs, "none" when none does
    forced,     \* m.noCache
    pc,         \* what it is about to do, "idle" when no command runs
    ran,        \* the step at pc returned from Fn, its checkpoint is pending
    mem,        \* the command's copy of the record
    ca,         \* its ComputeAccess
    todo,       \* seed hooks it has not come to
    outs,       \* provisionerOutputs of runProvisioner
    mf,         \* its manifest
    synced,     \* source version the runner phase started from
    box,        \* compute, and what is on it
    docker,     \* containers
    origin,     \* newest source version
    seeded,     \* how often each service was seeded or reset
    launches, faults, losses      \* counters for the bounds

invocation == <<cmd, forced, pc, ran, mem, ca, todo, outs, mf, synced>>
world == <<box, docker, origin, seeded>>
budget == <<launches, faults, losses>>
vars == <<entry, invocation, world, budget>>

Pcs == Steps \cup DestroySteps \cup OtherPcs

TypeOK ==
    /\ entry \in Entries
    /\ cmd \in AllCommands \cup {"none"}
    /\ forced \in BOOLEAN
    /\ pc \in Pcs
    /\ ran \in BOOLEAN
    /\ mem \in Entries
    /\ ca \in Boxes \cup {NoBox}
    /\ todo \subseteq Seeds
    /\ outs \in Contents
    /\ mf \in Contents
    /\ synced \in Nat
    /\ box \in [Boxes -> BoxRecords]
    /\ docker \in [Boxes -> DockerRecords]
    /\ origin \in Nat
    /\ seeded \in Contents
    /\ launches \in Nat /\ faults \in Nat /\ losses \in Nat

Init ==
    /\ entry = NoEntry
    /\ cmd = "none" /\ forced = FALSE /\ pc = "idle" /\ ran = FALSE
    /\ mem = NoEntry /\ ca = NoBox /\ todo = {} /\ outs = NoOutputs
    /\ mf = NoOutputs /\ synced = 0
    /\ box = [b \in Boxes |->
                Blank(IF ~Remote /\ b = UserTree THEN "up" ELSE "unused", 1)]
    /\ docker = [b \in Boxes |-> NoContainers]
    /\ origin = 1
    /\ seeded = NoOutputs
    /\ launches = 0 /\ faults = 0 /\ losses = 0

-----------------------------------------------------------------------------
(***************************************************************************)
(* Helpers.                                                                *)
(***************************************************************************)
Managed == Boxes \ {UserTree}

Up(b) == b \in Boxes /\ box[b].state = "up"

\* Where the containers of a box live.
Host(b) == IF Remote THEN b ELSE Worktree

\* What "docker compose ps" shows, whichever compose file it is given: the
\* running containers of the project, of which infrastructure and services are part.
ProjectRuns(b) == docker[Host(b)].infra \/ docker[Host(b)].services

FileOf(s) == CASE s = "generate_env"     -> "env"
               [] s = "generate_compose" -> "compose"
               [] s = "generate_nginx"   -> "nginx"
               [] OTHER                  -> "manifest"

\* Replacing or deleting the records of the steps in S; outputs go with them.
Marked(e, S, status) ==
    [e EXCEPT !.steps = [s \in Steps |-> IF s \in S THEN status ELSE e.steps[s]],
              !.seedOut = [s \in Seeds |-> IF s \in S THEN 0 ELSE e.seedOut[s]]]

\* Forgets the Outputs.
FaultyCompleted(e, step) == Marked(e, {step}, "completed")

\* SetStepRecord of a step that succeeded, with its Outputs.
Completed(e, step) ==
    [e EXCEPT !.steps[step] = "completed",
              !.seedOut = [s \in Seeds |-> IF s = step THEN outs[s]
                                                       ELSE e.seedOut[s]]]

\* InvalidateStep: only a completed step changes.
InvalidateSteps(e, S) ==
    Marked(e, {s \in S : e.steps[s] = "completed"}, "invalidated")

\* Deletes the record of the named step only.
FaultyStepsFrom(f) == {{f}}

\* The sets of steps InvalidateStepsFrom(f) may delete.  The step order is
\* rebuilt from a Go map on every call, so which seeds follow seed f varies.
StepsFrom(f) ==
    LET written == {"build_manifest", "write_manifest", "provisioner_after"}
    IN  CASE f = "provisioner_before" -> {ProvisionerFixed \cup Seeds}
          [] f = "create_compute" ->
                 {(ProvisionerFixed \ {"provisioner_before"}) \cup Seeds}
          [] f = "allocate_ports" -> {{f} \cup Seeds \cup written}
          [] f \in Seeds          -> {{f} \cup T \cup written : T \in SUBSET Seeds}
          [] f = "build_manifest" -> {written}
          [] f = "write_manifest" -> {written \ {"build_manifest"}}
          [] OTHER                -> {{f}}

\* The pipeline: what may follow the step at pc.
Following ==
    CASE pc = "provisioner_before" -> {"create_compute"}
      [] pc = "create_compute"     -> {"allocate_ports"}
      [] pc \in {"allocate_ports"} \cup Seeds ->
             IF todo \ {pc} = {} THEN {"build_manifest"} ELSE todo \ {pc}
      [] pc = "build_manifest"     -> {"write_manifest"}
      [] pc = "write_manifest"     -> {"provisioner_after"}
      [] pc = "provisioner_after"  -> {"save_provisioned"}
      [] pc = "sync_code"          -> {"generate_manifest"}
      [] pc = "generate_manifest"  -> {"runner_before"}
      [] pc = "runner_before"      -> {"generate_env"}
      [] pc = "generate_env"       -> {"start_infra"}
      [] pc = "start_infra"        -> {"generate_compose"}
      [] pc = "generate_compose"   -> {"generate_nginx"}
      [] pc = "generate_nginx"     -> {"build_services"}
      [] pc = "build_services"     -> {"start_services"}
      [] pc = "start_services"     -> {"runner_deploy"}
      [] pc = "runner_deploy"      -> {"runner_after"}
      [] pc = "runner_after" /\ cmd # "refresh" -> {"save_running"}
      [] OTHER                     -> {}

\* On to a following step.
Advance ==
    /\ pc' \in Following
    /\ todo' = todo \ {pc}
    /\ ran' = FALSE

\* The command returns, with or without an error.
Return ==
    /\ cmd' = "none" /\ forced' = FALSE /\ pc' = "idle" /\ ran' = FALSE
    /\ mem' = NoEntry /\ ca' = NoBox /\ todo' = {} /\ outs' = NoOutputs
    /\ mf' = NoOutputs /\ synced' = 0

Troubled == faults + losses >= MaxTroubles

Fault == faults < MaxFaults /\ ~Troubled /\ faults' = faults + 1

-----------------------------------------------------------------------------
(***************************************************************************)
(* The start of a command: what it loads, and what it writes before its    *)
(* first step.                                                             *)
(***************************************************************************)
Launch(c) ==
    /\ cmd = "none"
    /\ cmd' = c
    /\ ran' = FALSE
    /\ outs' = NoOutputs /\ mf' = NoOutputs /\ synced' = 0
    /\ UNCHANGED <<world, faults, losses>>

\* The records --from (on "run provision" only) makes a command delete.
FromChoices(c) ==
    {{}} \cup IF AllowFrom /\ c = "provision"
              THEN UNION {StepsFrom(f) : f \in ProvisionerFixed \cup Seeds}
              ELSE {}

\* Does not store the record after deleting from it.
FaultyBeginProvisioner(c) ==
    /\ c \in {"create", "provision", "attach"}
    /\ c = "attach" => ~Remote /\ Up(UserTree) /\ entry.status # "running"
    /\ Launch(c)
    /\ forced' \in {FALSE, AllowNoCache /\ c # "attach"}
    /\ entry' = IF entry.status = "absent" THEN NewEntry ELSE entry
    /\ \E S \in FromChoices(c) : mem' = Marked(entry', S, "none")
    /\ ca' = IF c = "attach" THEN UserTree ELSE NoBox
    /\ todo' = Seeds
    /\ pc' = "provisioner_before"

\* runProvisioner up to its first step.  An attach refuses a running
\* environment; otherwise an existing record is resumed.
BeginProvisioner(c) ==
    /\ c \in {"create", "provision", "attach"}
    /\ c = "attach" => ~Remote /\ Up(UserTree) /\ entry.status # "running"
    /\ Launch(c)
    /\ forced' \in {FALSE, AllowNoCache /\ c # "attach"}
    /\ \E S \in FromChoices(c) :
           entry' = Marked(IF entry.status = "absent" THEN NewEntry ELSE entry,
                           S, "none")
    /\ mem' = entry'
    /\ ca' = IF c = "attach" THEN UserTree ELSE NoBox
    /\ todo' = Seeds
    /\ pc' = "provisioner_before"

\* RunStep, RunSteps ("step", "refresh") and Destroy ("delete") need a record.
BeginOnRecord(c) ==
    /\ c \in {"refresh", "destroy"}
    /\ entry.status # "absent"
    /\ Launch(c)
    /\ forced' = (c = "refresh")
    /\ mem' = entry
    /\ ca' = NoBox /\ todo' = {}
    /\ pc' = IF c = "refresh" THEN "load_manifest" ELSE "runner_destroy"
    /\ UNCHANGED entry

\* A user issues a command, at most MaxLaunches times.
Begin ==
    /\ launches < MaxLaunches /\ launches' = launches + 1
    /\ \E c \in Commands : BeginProvisioner(c) \/ BeginOnRecord(c)

\* The user repeats a plain command as often as it takes.
Retry(c) == UNCHANGED launches /\ forced' = FALSE /\ BeginProvisioner(c)

-----------------------------------------------------------------------------
(***************************************************************************)
(* Manager.step.                                                           *)
(***************************************************************************)
\* Calls of m.step behind a condition on the config, or on the attached tree.
\* RunSteps has no such conditions.
Bypassed(s) ==
    /\ cmd # "refresh"
    /\ \/ s \in Optional \ Configured
       \/ s = "create_compute" /\ cmd = "attach"

\* Does not look for the generated files.
FaultyVerified(s) ==
    CASE s = "create_compute" -> Up(mem.compute)
      [] s = "start_infra"    -> Up(ca) /\ ProjectRuns(ca)
      [] OTHER                -> TRUE

\* The Verify function: the side effect is still there.
Verified(s) ==
    CASE s = "create_compute" -> Up(mem.compute)
      [] s \in {"generate_env", "generate_compose", "generate_nginx"} ->
             Up(ca) /\ box[ca].files[FileOf(s)] # NoFile
      [] s = "start_infra"    -> Up(ca) /\ ProjectRuns(ca)
      [] s = "start_services" ->
             Up(ca) /\ box[ca].files["compose"] # NoFile /\ ProjectRuns(ca)
      [] OTHER                -> TRUE

\* The checkpoint allows to skip the step.  Of the env files, Verify looks at
\* one: that which comes first in a Go map.
Skips(s) ==
    /\ ~forced
    /\ mem.steps[s] = "completed"
    /\ s \notin AlwaysRun
    /\ Verified(s)

\* ... and another one may be missing.
Runs(s) == ~Skips(s) \/ (s = "generate_env" /\ Up(ca) /\ box[ca].partial)

\* Steps whose Fn goes through ComputeAccess.
OnCompute == RunnerSteps \cup {"write_manifest"}

\* Fn is bound to return an error: the compute does not answer, there is no
\* compose file to start services from, or "refresh" asks for a compose file
\* that the config does not describe.
CannotRun(s) ==
    \/ s \in OnCompute /\ ~Up(ca)
    \/ s = "start_services" /\ s \in Configured /\ box[ca].files["compose"] = NoFile
    \/ s = "generate_compose" /\ s \notin Configured

\* The step at pc is s and its Fn is about to run.
Executes(s) ==
    /\ pc = s /\ s \in Steps /\ ~ran
    /\ ~Bypassed(s) /\ Runs(s) /\ ~CannotRun(s)
    /\ ran' = TRUE
    /\ UNCHANGED <<entry, cmd, forced, pc, mem, todo, origin, budget>>

\* A step that is not called: by the config, or because "step" and "refresh"
\* were asked for other steps.
BypassStep ==
    /\ pc \in Steps /\ ~ran
    /\ Bypassed(pc) \/ cmd = "refresh"
    /\ Advance
    /\ UNCHANGED <<entry, cmd, forced, mem, ca, outs, mf, synced, world, budget>>

\* A cached step: cached seed outputs are loaded, the manifest is rebuilt.
SkipStep ==
    /\ pc \in Steps /\ ~ran /\ ~Bypassed(pc) /\ Skips(pc)
    /\ Advance
    /\ ca' = IF pc = "create_compute" THEN mem.compute ELSE ca
    /\ outs' = IF pc \in Seeds THEN [outs EXCEPT ![pc] = mem.seedOut[pc]] ELSE outs
    /\ mf' = IF pc = "build_manifest" THEN outs ELSE mf
    /\ UNCHANGED <<entry, cmd, forced, mem, synced, world, budget>>

\* The step succeeded: its record goes to the store.  entry.Compute is set in
\* memory only AFTER create_compute's record was stored.  A "refresh" or "step"
\* may have asked for this step as the last one.
Checkpoint ==
    /\ ran
    /\ entry' = Completed(mem, pc)
    /\ \/ /\ Advance
          /\ mem' = IF pc = "create_compute"
                    THEN [entry' EXCEPT !.compute = ca, !.managed = TRUE]
                    ELSE entry'
          /\ UNCHANGED <<cmd, forced, ca, outs, mf, synced>>
       \/ cmd = "refresh" /\ Return
    /\ UNCHANGED <<world, budget>>

\* Records a step as done although it failed.
FaultyStepFails ==
    /\ pc \in Steps /\ ~Bypassed(pc) /\ (ran \/ Runs(pc))
    /\ Fault \/ (~ran /\ CannotRun(pc) /\ UNCHANGED faults)
    /\ entry' = Marked(mem, {pc}, "completed")
    /\ Return
    /\ UNCHANGED <<world, launches, losses>>

\* Fn returned an error, before or after it took effect: the failure is
\* recorded (with whatever else mem holds) and the command ends.
StepFails ==
    /\ pc \in Steps /\ ~Bypassed(pc) /\ (ran \/ Runs(pc))
    /\ \/ Fault
       \/ ~ran /\ CannotRun(pc) /\ UNCHANGED faults
    /\ entry' = Marked(mem, {pc}, "failed")
    /\ Return
    /\ UNCHANGED <<world, launches, losses>>

-----------------------------------------------------------------------------
(***************************************************************************)
(* The Fn of every step.                                                   *)
(***************************************************************************)
\* Where compute.create or git worktree add puts the environment.  Both find
\* compute that already exists for this environment (hooks are asked to be
\* idempotent; ComputeAdapter.Create looks at the directory).
CreateTargets ==
    LET existing == {b \in Managed : Up(b)}
    IN  IF existing # {} THEN existing
        ELSE {b \in Managed : box[b].state = "unused" /\ (Remote \/ b = Worktree)}

CreateCompute ==
    /\ Executes("create_compute")
    /\ \E b \in CreateTargets :
          /\ ca' = b
          /\ box' = IF Up(b) THEN box ELSE [box EXCEPT ![b] = Blank("up", origin)]
    /\ UNCHANGED <<outs, mf, synced, docker, seeded>>

Seed ==
    /\ pc \in Seeds /\ Executes(pc)
    /\ seeded' = [seeded EXCEPT ![pc] = @ + 1]
    /\ outs' = [outs EXCEPT ![pc] = seeded[pc] + 1]
    /\ UNCHANGED <<ca, mf, synced, box, docker>>

BuildManifest ==
    /\ Executes("build_manifest")
    /\ mf' = outs
    /\ UNCHANGED <<ca, outs, synced, box, docker, seeded>>

\* Steps that write one file from the manifest.
WriteFile ==
    /\ pc \in {"write_manifest", "generate_env", "generate_compose",
               "generate_nginx"}
    /\ Executes(pc)
    /\ box' = IF pc \in Optional \ Configured THEN box
              ELSE [box EXCEPT ![ca].files[FileOf(pc)] = mf,
                               ![ca].partial = @ /\ pc # "generate_env"]
    /\ UNCHANGED <<ca, outs, mf, synced, docker, seeded>>

\* generate_manifest builds from the record, not from the steps' outputs.
RegenerateManifest ==
    /\ Executes("generate_manifest")
    /\ mf' = mem.outs
    /\ box' = [box EXCEPT ![ca].files["manifest"] = mem.outs]
    /\ UNCHANGED <<ca, outs, synced, docker, seeded>>

\* git fetch and reset --hard; local mode leaves the tree to the user.
Fetched(b) == IF Remote THEN [box EXCEPT ![b].tree = origin] ELSE box

SyncStep ==
    /\ Executes("sync_code")
    /\ box' = Fetched(ca)
    /\ UNCHANGED <<ca, outs, mf, synced, docker, seeded>>

StartInfra ==
    /\ Executes("start_infra")
    /\ docker' = [docker EXCEPT ![Host(ca)].infra = TRUE]
    /\ UNCHANGED <<ca, outs, mf, synced, box, seeded>>

BuildServices ==
    /\ Executes("build_services")
    /\ box' = IF "build_services" \in Configured
              THEN [box EXCEPT ![ca].built = box[ca].tree] ELSE box
    /\ UNCHANGED <<ca, outs, mf, synced, docker, seeded>>

\* What containers created now would be created from.
MakingOf(b) == [at |-> b, env |-> box[b].files["env"], compose |-> box[b].files["compose"]]

\* docker compose up -d leaves a running container alone that was created from
\* what is there now: the image is fixed and the source mounted, so that a new
\* build is no reason to start its process again.
UpToDate(b) == docker[Host(b)].services /\ docker[Host(b)].made = MakingOf(b)

StartServices ==
    /\ Executes("start_services")
    /\ docker' = IF "start_services" \in Configured
                 THEN [docker EXCEPT ![Host(ca)].services = TRUE,
                                     ![Host(ca)].made = MakingOf(ca),
                                     ![Host(ca)].started =
                                         IF UpToDate(ca) THEN @ ELSE box[ca].built]
                 ELSE docker
    /\ UNCHANGED <<ca, outs, mf, synced, box, seeded>>

RunnerDeploy ==
    /\ Executes("runner_deploy")
    /\ box' = [box EXCEPT ![ca].deployed = box[ca].tree]
    /\ UNCHANGED <<ca, outs, mf, synced, docker, seeded>>

\* Hooks and port allocation, whose results no property tells apart.
OtherStep ==
    /\ pc \in {"provisioner_before", "allocate_ports", "provisioner_after",
               "runner_before", "runner_after"}
    /\ Executes(pc)
    /\ UNCHANGED <<ca, outs, mf, synced, box, docker, seeded>>

RunFn ==
    \/ CreateCompute \/ Seed \/ BuildManifest \/ WriteFile \/ RegenerateManifest
    \/ SyncStep \/ StartInfra \/ BuildServices \/ StartServices
    \/ RunnerDeploy \/ OtherStep

-----------------------------------------------------------------------------
(***************************************************************************)
(* Between the steps.                                                      *)
(***************************************************************************)
\* saveProvisionedState.
Provisioned ==
    [mem EXCEPT !.status = "provisioned", !.outs = mf,
                !.compute = ca, !.managed = (cmd # "attach")]

SaveProvisioned ==
    /\ pc = "save_provisioned"
    /\ entry' = Provisioned
    /\ \/ cmd = "provision" /\ Return
       \/ /\ cmd # "provision"
          /\ mem' = entry' /\ pc' = "load_manifest"
          /\ UNCHANGED <<cmd, forced, ran, ca, todo, outs, mf, synced>>
    /\ UNCHANGED <<world, budget>>

\* Takes a missing file for an empty one.
FaultyManifestReadable == Up(mem.compute)

\* loadManifestFromEntry needs a compute that answers and holds a manifest.
ManifestReadable ==
    /\ Up(mem.compute)
    /\ box[mem.compute].files["manifest"] # NoFile

\* "step", "refresh --only" and "refresh --from" start at any runner step.
\* Local mode drops sync_code from a refresh.
FirstRunnerPcs ==
    IF cmd = "refresh" THEN RunnerSteps \ (IF Remote THEN {} ELSE {"sync_code"})
                       ELSE {"sync"}

LoadManifest ==
    /\ pc = "load_manifest"
    /\ ManifestReadable
    /\ ca' = mem.compute
    /\ mf' = box[mem.compute].files["manifest"]
    /\ pc' \in FirstRunnerPcs
    /\ UNCHANGED <<entry, cmd, forced, ran, mem, todo, outs, synced, world, budget>>

\* Forgets the build.
FaultyResynced == {"runner_before", "start_services"}

\* Forgets the services.
FaultyResyncedStart == {"runner_before", "build_services"}

\* runRunner's own sync, which is not a checkpointed step: afterwards the
\* steps that read the source are invalidated, in memory.
Resynced == {"runner_before", "build_services", "start_services"}

SyncCode ==
    /\ pc = "sync"
    /\ Remote => Up(ca)
    /\ box' = Fetched(ca)
    /\ synced' = box'[ca].tree
    /\ mem' = InvalidateSteps(mem, Resynced)
    /\ pc' = "runner_before"
    /\ UNCHANGED <<entry, cmd, forced, ran, ca, todo, outs, mf, docker, origin,
                   seeded, budget>>

\* Neither of the two is a checkpointed step: an error leaves no trace.
LoadOrSyncFails ==
    /\ \/ pc \in {"load_manifest", "sync"} /\ Fault
       \/ pc = "load_manifest" /\ ~ManifestReadable /\ UNCHANGED faults
       \/ pc = "sync" /\ Remote /\ ~Up(ca) /\ UNCHANGED faults
    /\ Return
    /\ UNCHANGED <<entry, world, launches, losses>>

\* The end of runRunner.
Running == [mem EXCEPT !.status = "running", !.outs = mf, !.compute = ca,
                       !.managed = (cmd = "create")]

SaveRunning ==
    /\ pc = "save_running"
    /\ entry' = Running
    /\ Return
    /\ UNCHANGED <<world, budget>>

-----------------------------------------------------------------------------
(***************************************************************************)
(* Destroy.  No step of it is checkpointed; the record goes last.          *)
(***************************************************************************)
DestroyAt(s, next) ==
    /\ pc = s /\ pc' = next
    /\ UNCHANGED <<entry, cmd, forced, ran, mem, ca, todo, outs, mf, synced,
                   origin, seeded, budget>>

\* runner.destroy runs on the compute, when the record knows one.
HasRunnerDestroy == "runner_destroy" \in Configured /\ mem.compute # NoBox

RunnerDestroy ==
    /\ DestroyAt("runner_destroy", "service_destroy")
    /\ HasRunnerDestroy => Up(mem.compute)
    /\ UNCHANGED <<box, docker>>

ServiceDestroy ==
    /\ DestroyAt("service_destroy", "compute_destroy")
    /\ UNCHANGED <<box, docker>>

\* Takes a record without compute for an environment without compute.
FaultyHasComputeDestroy == "compute_destroy" \in Configured /\ mem.compute # NoBox

\* compute.destroy runs even when the record knows no compute.
HasComputeDestroy == "compute_destroy" \in Configured

\* The directory the record names, which an attach makes the user's own.
FaultyRemovedTree == mem.compute

\* The directory ComputeAdapter.Destroy removes: its path is made of the
\* environment's name, not taken from the record.
RemovedTree == Worktree

\* The record names a local directory, and no hook is there to remove it.
LocalDestroy == ~HasComputeDestroy /\ ~Remote /\ mem.compute # NoBox

\* The VM goes with its containers.  A managed worktree goes after a docker
\* compose down, an attached one is left and its containers are stopped: both
\* name only the infrastructure's compose file, and an error of down is ignored.
TearDown ==
    \/ /\ HasComputeDestroy
       /\ box' = [b \in Boxes |-> IF b \in Managed /\ Up(b)
                                  THEN Blank("unused", 1) ELSE box[b]]
       /\ docker' = [b \in Boxes |-> IF b \in Managed /\ Up(b)
                                     THEN NoContainers ELSE docker[b]]
    \/ /\ LocalDestroy /\ mem.managed
       /\ box' = [box EXCEPT ![RemovedTree] = Blank("unused", 1)]
       /\ docker' \in {docker, [docker EXCEPT ![Worktree].infra = FALSE]}
    \/ /\ LocalDestroy /\ ~mem.managed
       /\ docker' = [docker EXCEPT ![Worktree].infra = FALSE]
       /\ UNCHANGED box
    \/ /\ ~HasComputeDestroy /\ ~LocalDestroy
       /\ UNCHANGED <<box, docker>>

ComputeDestroy == DestroyAt("compute_destroy", "cleanup_env") /\ TearDown

\* The error comes after part of the work: the hook has destroyed the VM, or the
\* containers are stopped and git does not remove the worktree.
PartlyTornDown ==
    /\ pc = "compute_destroy"
    /\ \/ HasComputeDestroy /\ TearDown
       \/ /\ LocalDestroy
          /\ docker' = [docker EXCEPT ![Worktree].infra = FALSE]
          /\ UNCHANGED box

\* os.Remove of every env file, errors ignored.
CleanupEnv ==
    /\ DestroyAt("cleanup_env", "remove_state")
    /\ box' = IF ~Remote /\ mem.compute # NoBox
              THEN [box EXCEPT ![mem.compute].files["env"] = NoFile,
                               ![mem.compute].partial = FALSE]
              ELSE box
    /\ UNCHANGED docker

RemoveState ==
    /\ pc = "remove_state"
    /\ entry' = NoEntry
    /\ Return
    /\ UNCHANGED <<world, budget>>

\* A step of Destroy returns an error, or the process is killed in it.
DestroyFails ==
    /\ pc \in DestroySteps
    /\ \/ Fault /\ UNCHANGED <<box, docker>>
       \/ Fault /\ PartlyTornDown
       \/ /\ pc = "runner_destroy" /\ HasRunnerDestroy /\ ~Up(mem.compute)
          /\ UNCHANGED <<box, docker, faults>>
    /\ Return
    /\ UNCHANGED <<entry, origin, seeded, launches, losses>>

Destroying ==
    RunnerDestroy \/ ServiceDestroy \/ ComputeDestroy \/ CleanupEnv
        \/ RemoveState \/ DestroyFails

-----------------------------------------------------------------------------
(***************************************************************************)
(* What happens to a command and to the world around it.                   *)
(***************************************************************************)
\* The process is killed, or a write to the state store that the code does not
\* ignore fails: either way the command is gone and the record unchanged.
Crash ==
    /\ cmd # "none"
    /\ Fault
    /\ Return
    /\ UNCHANGED <<entry, world, launches, losses>>

Loss == losses < MaxLosses /\ ~Troubled /\ losses' = losses + 1

\* A VM is reclaimed, at any time; a directory is removed by hand, between
\* commands.  Containers of local mode survive their directory.
LoseBox(b) ==
    /\ Up(b) /\ Loss
    /\ Remote \/ cmd = "none"
    /\ Remote => \E u \in Managed : box[u].state = "unused"
    /\ box' = [box EXCEPT ![b] = Blank(IF Remote THEN "gone" ELSE "unused", 1)]
    /\ docker' = IF Remote THEN [docker EXCEPT ![b] = NoContainers] ELSE docker
    /\ UNCHANGED <<entry, invocation, origin, seeded, launches, faults>>

\* Between commands a generated file is deleted (of the env files, one or all),
\* or containers stop: those of the infrastructure, the services', or all.
LoseArtifact(b) ==
    /\ cmd = "none" /\ Up(b) /\ Loss
    /\ \/ /\ \E f \in Files :
                /\ box[b].files[f] # NoFile
                /\ box' \in {[box EXCEPT ![b].files[f] = NoFile,
                                         ![b].partial = @ /\ f # "env"],
                             [box EXCEPT ![b].partial = @ \/ f = "env"]}
                /\ box' # box
          /\ UNCHANGED docker
       \/ /\ docker' \in {[docker EXCEPT ![Host(b)].infra = FALSE],
                         [docker EXCEPT ![Host(b)].services = FALSE],
                         [docker EXCEPT ![Host(b)] = NoContainers]}
          /\ docker' # docker
          /\ UNCHANGED box
    /\ UNCHANGED <<entry, invocation, origin, seeded, launches, faults>>

\* "infra start", "stop" or "restart", between commands: one docker compose
\* command over the infrastructure's compose file.  No record is written.
Infra(b) ==
    /\ cmd = "none" /\ "infra" \in Commands
    /\ launches < MaxLaunches /\ launches' = launches + 1
    /\ IF Remote THEN b = entry.compute /\ Up(b) ELSE b = Worktree
    /\ \E running \in BOOLEAN : docker' = [docker EXCEPT ![b].infra = running]
    /\ UNCHANGED <<entry, invocation, box, origin, seeded, faults, losses>>

\* "core seed" of a service, between commands: its hook runs, with a record or
\* without, and neither the checkpoint nor the outputs in the record change.
CoreSeed(s) ==
    /\ cmd = "none" /\ "seed" \in Commands
    /\ launches < MaxLaunches /\ launches' = launches + 1
    /\ seeded' = [seeded EXCEPT ![s] = @ + 1]
    /\ UNCHANGED <<entry, invocation, box, docker, origin, faults, losses>>

\* "core reset" of a service, between commands.  The record gets the outputs of
\* the hook, unless that fails; then, in remote mode and without --no-propagate,
\* runner steps are run on the compute, as "refresh" would run them.
Reset(s) ==
    /\ cmd = "none" /\ "reset" \in Commands /\ entry.status # "absent"
    /\ launches < MaxLaunches /\ launches' = launches + 1
    /\ seeded' = [seeded EXCEPT ![s] = @ + 1]
    /\ \/ Fault /\ UNCHANGED <<entry, invocation>>
       \/ /\ entry' = [entry EXCEPT !.outs[s] = seeded[s] + 1]
          /\ UNCHANGED <<invocation, faults>>
       \/ /\ Remote /\ entry.compute # NoBox
          /\ entry' = [entry EXCEPT !.outs[s] = seeded[s] + 1]
          /\ cmd' = "refresh" /\ forced' = TRUE /\ mem' = entry'
          /\ pc' = "load_manifest" /\ ran' = FALSE
          /\ UNCHANGED <<ca, todo, outs, mf, synced, faults>>
    /\ UNCHANGED <<box, docker, origin, losses>>

\* A new version of the source: pushed, or edited in place in local mode.
Push ==
    /\ origin < 1 + MaxPushes
    /\ origin' = origin + 1
    /\ box' = IF Remote THEN box
              ELSE [b \in Boxes |-> IF Up(b) THEN [box[b] EXCEPT !.tree = origin + 1]
                                             ELSE box[b]]
    /\ UNCHANGED <<entry, invocation, docker, seeded, budget>>

Environment ==
    \/ Crash \/ Push
    \/ \E b \in Boxes : LoseBox(b) \/ LoseArtifact(b) \/ Infra(b)
    \/ \E s \in Seeds : CoreSeed(s) \/ Reset(s)

\* Everything a running command does by itself.
Proceed ==
    \/ BypassStep \/ SkipStep \/ RunFn \/ Checkpoint \/ StepFails
    \/ SaveProvisioned \/ LoadManifest \/ SyncCode \/ LoadOrSyncFails
    \/ SaveRunning \/ Destroying

Next == Begin \/ Proceed \/ Environment

Spec == Init /\ [][Next]_vars

\* A user who re-runs create until the environment runs.  Once started, a command
\* goes on by itself: it waits for nobody.
CreateSpec ==
    /\ Init /\ [][Next \/ Retry("create")]_vars
    /\ WF_vars(Proceed) /\ WF_vars(Retry("create"))

-----------------------------------------------------------------------------
(***************************************************************************)
(* Properties.                                                             *)
(***************************************************************************)

\* A completed seed checkpoint carries the outputs of the seed hook's LAST
\* run, whatever was killed between a hook and its checkpoint and whatever
\* --from deleted: no environment is built on credentials a later run of the
\* hook has replaced.  Needs ~AllowNoCache: --no-cache re-runs the hook while
\* the old checkpoint is still stored; and neither core seed nor core reset,
\* which run the hook and leave the checkpoint as it was.
SeedCheckpointCurrent ==
    \A s \in Seeds : entry.steps[s] = "completed" => entry.seedOut[s] = seeded[s]

\* A seed hook whose checkpoint is stored as completed is not run again by any
\* run of the step engine without --no-cache: a retry never seeds a database
\* twice unless the first run was never recorded.  (A user who asks for core
\* seed or core reset gets the hook, cached or not.)
CompletedSeedsNotRerun ==
    [][\A s \in Seeds : cmd # "none" /\ seeded'[s] # seeded[s]
                           => forced \/ entry.steps[s] # "completed"]_vars

\* When either phase publishes its result, the manifest it publishes, and the
\* one it left on the compute, hold the outputs of the seed hooks' last runs,
\* although build_manifest and write_manifest may both have been skipped as cached.
\* Needs what SeedCheckpointCurrent does, and no refresh.
PublishedManifestCurrent ==
    /\ pc \in {"save_provisioned", "save_running"} => mf = seeded
    /\ pc = "save_provisioned" /\ Up(ca)
          => box[ca].files["manifest"] \in {seeded, NoFile}

\* An environment is declared running only when its services were built from
\* source at least as new as what this very command synced, and deploy hooks that
\* must always run saw it too: no checkpoint of an earlier attempt stands in for
\* building new code.  (Whether running services notice is RefreshRestarts.)
RunningIsFresh ==
    pc = "save_running" /\ Up(ca) =>
        /\ "build_services" \in Configured => box[ca].built >= synced
        /\ "runner_deploy" \in AlwaysRun => box[ca].deployed >= synced

\* ... and only when the containers of its services run, created from this very
\* compute and from the env and compose files that are on it now: files that a
\* retry had to generate again, and a directory that an attach has put in the place
\* of the worktree, reach the containers although start_services was completed.
RunningFromFiles ==
    pc = "save_running" /\ Up(ca) /\ "start_services" \in Configured => UpToDate(ca)

\* ... and only when the services and the generated files (of the env files, at
\* least one) are in place on the compute it names, whatever was lost since their
\* steps completed.
RunningIsComplete ==
    pc = "save_running" /\ Up(ca) =>
        /\ "start_services" \in Configured => docker[Host(ca)].services
        /\ \A s \in {"write_manifest", "generate_env", "generate_compose",
                     "generate_nginx"} :
               s \notin Optional \ Configured => box[ca].files[FileOf(s)] # NoFile

\* ... and the env files the containers are started with hold the outputs of the
\* last seed runs: the seeds belong to the other phase, and generate_env's Verify
\* does not look into a file.
RunningIsCurrent == pc = "save_running" /\ Up(ca) => box[ca].files["env"] = seeded

\* When "refresh" has started the services, their processes run on the newest build.
RefreshRestarts ==
    cmd = "refresh" /\ pc = "start_services" /\ ran
        /\ "start_services" \in Configured
            => docker[Host(ca)].started >= box[ca].built

\* No command removes the directory a user attached, whatever attach, create
\* and delete on one name made of the record in between.  (The user's directory is
\* one of the user's own, not the worktree that a create of that name would make.)
UserTreeKept ==
    [][box[UserTree].state = "up" /\ box'[UserTree].state # "up"
          => losses' # losses]_vars

\* The record leaves the store only when no compute of the environment is left:
\* a delete that fails or is killed can be repeated.
RecordOutlivesCompute ==
    [][entry.status # "absent" /\ entry'.status = "absent"
          => \A b \in Managed : ~Up(b)]_vars

\* Something was lost, and no compute has the manifest which the record says was
\* written.
ManifestLost ==
    /\ losses > 0
    /\ entry.steps["write_manifest"] = "completed"
    /\ \A b \in Boxes : Up(b) => box[b].files["manifest"] = NoFile

\* Re-running create gets the environment running in the end, whatever failed or
\* was lost.  The one exception is a manifest that is lost after write_manifest
\* completed, with its compute or alone: the step has no Verify and is never
\* repeated, and no create goes on without the manifest.
CreateSucceeds == []<>(entry.status = "running") \/ <>[]ManifestLost
=============================================================================
