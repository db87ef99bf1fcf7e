# A TLA+ model of previewctl

previewctl builds preview environments of a multi-service project: in *local*
mode in a git worktree on the user's machine, in *remote* mode on a VM that the
user's hooks create and to which previewctl talks over SSH. This directory holds
TLA+ models of the program, their TLC configurations, and theorems about them
checked by TLAPS. Line numbers refer to `src/src/...` at the commit the models
were written from.

1. [The system](#1-the-system): components, their state, operations, hazards
2. [The modules](#2-the-modules): what is modelled and how it maps to the code
3. [The runs](#3-the-runs): what TLC checks, with which bounds and fairness
4. [The proofs](#4-the-proofs): what TLAPS proves, from which assumptions
5. [Where code and documentation disagree](#5-where-code-and-documentation-disagree)
6. [Not modelled, and the plan](#6-not-modelled-and-the-plan)

## 1. The system

Every command is a process of its own. It loads the configuration, builds a
`Manager` around a state adapter, works through a list of *steps*, each of which
calls hooks (shell commands of the user), git or docker, and exits. Nothing of
previewctl runs between commands: all that lasts is the record in the state
store, the compute (worktree or VM) with the files written to it, the containers
there, and what the hooks did elsewhere. Commands do not exclude each other, and
hooks may themselves call previewctl (`store set`).

| component | state | operations | what makes it correct |
|---|---|---|---|
| Step engine (`domain/manager.go`, `step_registry.go`) | one `EnvironmentEntry` per environment: status, a `StepRecord` per step with outputs, provisioner outputs, ports, compute, store values | `Init` (create), `Provision`, `Attach`, `RunSteps`/`RunStep` (refresh, step), `Destroy`; `step` runs, skips, verifies and checkpoints one step | a checkpoint never stands in for work that has to be done again; a retry repeats what was lost and nothing that would do harm; a record is removed last |
| State store (`outbound/state`) | `state.json` and `state.json.tmp`, or a table in Postgres that all projects share | `Load`, `GetEnvironment`, `SetEnvironment`, `RemoveEnvironment` | one atomic map per project; a call that fails changes nothing (Postgres: or everything) |
| Store values, core hooks (`manager.go`, `store.go`, `core.go`) | the entry's `Env`, outputs printed as `GLOBAL_…` | `store set`, `core init/seed/reset`, capture of outputs | whole records are read, changed and written back: nobody's change is lost |
| Services (`service.go`, `dependency_graph.go`) | the entry's `EnabledServices`, compose and proxy files, containers | `service start/stop/restart`, proxy refresh | what runs, what is enabled and what the proxy routes to agree |
| Propagation and reconcile (`propagate.go`, `reconcile.go`, `sync.go`) | manifest, env files | sync, propagate a changed output, reconcile | exactly the services that depend on what changed are rebuilt |
| Ports (`port_allocator.go`, `local/networking.go`) | none | a block per environment name, probed | no port twice; allocation terminates |
| Manifest, templates, files (`manifest.go`, `template.go`, `compose.go`, generators) | none (pure) | render, build | same inputs give the same files; no reference stays unresolved |
| Configuration (`config.go`, `validate.go`) | none (pure) | load, deep-merge overlays, validate | accepted configurations have the shape the engine assumes |
| Compute access (`ssh_compute_access.go`, `local/compute.go`, `remote/`) | worktrees, VMs | create, destroy, detect, read, write, exec | |
| Clean (`clean.go`) | none | compares records with docker projects and worktrees, removes orphans | removes nothing that belongs to a record |
| Progress (`progress.go`) | spinner goroutine | start, stop, stream | stops exactly once, never blocks the engine |
| Infrastructure commands (`infra.go`) | none | `docker compose up`, `stop`, `restart` over the infrastructure's compose file | |
| Other commands, error pages, self update | none | read-only or outside the system | |

How they interact: a command's `Manager` keeps a *private copy* of the record
from its first load on. After every step it writes the whole copy back
(`SetEnvironment`), after taking over the store values of what is in the store
by then. Between two steps it reads nothing. Steps reach the compute through one
`ComputeAccess`, whose files and containers no record mentions: only a step's
`Verify` looks at them.

What is hard:

* **crashes and failures between an effect and its record.** A hook has run and
  its checkpoint is not stored; `create_compute` has stored its checkpoint and
  `entry.Compute` is not; a delete has torn down half.
* **stale checkpoints.** `--from` deletes a suffix of an order that is rebuilt
  from a Go map at each command; `--no-cache` keeps the old checkpoints while it
  runs; some steps verify their result before they are skipped and some do not;
  files and VMs disappear behind the record's back; a sync brings new code.
* **retries.** The documented answer to every failure is to run it again.
* **concurrent commands** on one state file, and on one record.
* **two modes** that share the engine and differ in who creates compute, where
  containers live, and what a delete does.

The list of hazards, each at its line, is `hazards` in `PROJECT.json`.

## 2. The modules

    Lifecycle ── MCLifecycle          the step engine over record and compute
       │ └────── LifecycleProofs
       │            └ PublishProofs   what a phase that ends may rely on
       └ Clean ── MCClean             "previewctl clean" next to any command
           └───── CleanProofs         (extends PublishProofs)
    StatePort                         what the state store promises
       ├ FileStore ── MCFileStore     the JSON file, down to its system calls
       │     └─────── FileStoreProofs
       └ PostgresStore                the table, down to its statements
             │ └───── PostgresStoreProofs
             └ MCStores               both, and the mode that chooses
    StoreValues ── MCStoreValues      processes that write back whole records
        └─────── StoreValuesProofs
    Services ── MCServices            enabled set, containers, files and proxy
        └────── ServicesProofs
    Config ── MCConfig                from the YAML files to the manifest
        └──── ConfigProofs

A definition named `Faulty…` is a wrong version of the definition below it. No
specification uses it; it records a bug the properties were tried on.

### Lifecycle

One environment, one command at a time, all steps of both phases; between the
commands, `infra`, `core seed` and `core reset`, which change containers, outputs
and files behind the checkpoints.

| in the model | in the code |
|---|---|
| `entry` | the stored `EnvironmentEntry`, `NoEntry` when there is none |
| `mem` | the command's copy of it |
| `cmd`, `forced` | the command, and `m.noCache` |
| `pc`, `ran` | the step the command is at; whether its `Fn` has returned and the checkpoint is pending |
| `todo` | seed hooks still to come (they run in map order: any order) |
| `outs`, `mf`, `ca`, `synced` | `provisionerOutputs`, `manifest` and `ComputeAccess` of the phase, and the version it synced to |
| `box` | every VM or directory: up or gone, the generated files on it (of the env files: `partial` when some are missing), source version checked out, built, deployed |
| `docker` | containers: per VM, or one compose project on the host in local mode; of the services', what they were created from (`made`: the directory mounted, the env and the compose file) and the build their processes started on (`started`) |
| `origin`, `seeded` | the newest source; how often each service was seeded or reset, by a step or a `core` command |

| action | code |
|---|---|
| `Begin` | the command up to its first step: `runProvisioner` with the suffix `--from` deletes, `RunSteps`, `Attach`, `Destroy` |
| `BypassStep` | a step the configuration, or the set of steps chosen, leaves out |
| `SkipStep` | `step`: completed, cache allowed, `Verify` passes (`Verified`; it looks at one of the env files, the first of a Go map, so that with `partial` the step may be skipped or `Runs`); its result is loaded from record or compute |
| `RunFn` | `step`: the step's function, one disjunct per kind of step (`CreateCompute`, `Seed`, `BuildManifest`, `WriteFile`, `RegenerateManifest`, `SyncStep`, `StartInfra`, `BuildServices`, `StartServices`, `RunnerDeploy`, `OtherStep`) |
| `Checkpoint` | `step`: mark completed and write the whole copy back |
| `StepFails` | `step`: the function fails before, or after, it took effect; record the failure; invalidate what `InvalidatesOn` says |
| `SaveProvisioned`, `SaveRunning` | the end of either phase: outputs, status and compute in one write |
| `LoadManifest`, `SyncCode`, `LoadOrSyncFails` | what `runRunner` does before its first step |
| `Destroying` | `RunnerDestroy`, `ServiceDestroy`, `ComputeDestroy`, `CleanupEnv`, `RemoveState` in the order of `Destroy`, or `DestroyFails`, with nothing done or part of it (`PartlyTornDown`) |
| `Crash` | a kill, or a failing write to the store |
| `Infra`, `CoreSeed`, `Reset` | `infra start/stop/restart`; `core seed`, which runs the hook and leaves checkpoint and outputs in the record as they were; `core reset`, which writes outputs to the record, not to the seed's checkpoint, and then runs steps like a `refresh` (its docker commands are in `Services`) |
| `LoseBox`, `LoseArtifact`, `Push` | the world: compute reclaimed or removed, one or all env files, another file or containers gone, new source |

Data are abstracted to what the properties tell apart: output *n* of a seed hook
is what its *n*-th run printed; a manifest, and every file made from it, is the
function from seeds to the outputs it carries. Ports are not told apart (the
allocation is a function of the environment's name). Two views of the outside
world are assumptions: `docker compose ps` shows the running containers of the
project, whichever compose file it is given (`ProjectRuns`; infrastructure and
services are one project, see the comment at `infra.go:116`), and a file is
written entirely or not at all.

`start_services` is a plain `docker compose up -d`, and is modelled by what that
does (`UpToDate`): containers that run and were created from the directory, env
file and compose file that are there now are left alone; others are created, and
only these start on the build that is there now. A new build is none of the
things docker compares: the compose file has a fixed image and mounts the source
(`compose_generator.go:104-107`).

### Clean

`previewctl clean` as a process beside those of `Lifecycle`, in local mode: the
module extends `Lifecycle`, and between any two steps of `clean` a command may
begin, go on or end.

| in the model | in the code |
|---|---|
| `clean.tracked`, `clean.found` | what the records named when they were read; the orphans still to be removed |
| `ReadRecords` | the state files; one that does not load is passed over (`clean.go:61`) |
| `ListOrphans` | `findOrphanedWorktrees`, `findOrphanedComposeProjects`: what is present and was not tracked; a list that cannot be had (`os.ReadDir`, `docker compose ls`) is passed over, and what it would have shown is missed |
| `RemoveOrphan` | `removeWorktree`, `removeComposeProject`, worktrees first; an error is printed and the next one follows |
| `CleanEnds` | nothing found, `--dry-run`, "no", or a kill |

`clean.ok`, `clean.quiet` and `disturbed` are history: every call has succeeded;
no command has run meanwhile; something was removed under the running command.
They state the premises of the properties and guard no action.

### StatePort and FileStore

`StatePort` is the interface `domain.StatePort` read as a specification: a map
from environments to records, and calls that are issued, take effect at one
instant or fail, and return; the caller may be killed at any time. A call that
fails has no effect, unless answers get lost (`AnswersLost`): then the caller
cannot tell. `Save` is left out because nothing outside the tests calls it.

`FileStore` is `outbound/state/file.go`. A call is a sequence of system calls
(`Lock`, `ReadQuery` or `ReadForUpdate`, `Open`, `Write`, `Rename`, `Return`)
with other callers in between; files are inodes with two names, so that a rename
and a file that is still open for writing behave as they do in the file system.
`Fails` covers every failing system call and the file that does not parse,
`Kill` takes a process with all its threads at any point and leaves the
temporary file behind. The mutex is one per *process*, as in the code.
`Port!Spec`, with the stored document as the abstract map and `AnswersLost`
false, is the property `ImplementsPort`.

### PostgresStore, MCStores

`outbound/state/postgres.go`. A row per project and environment, with a
deleted-flag that older versions used; a call is one statement (`Execute`, with
`Upserted` for the `ON CONFLICT` clause), a failing call (`ExecuteFails`) may
have been executed, `KillClient` takes a caller before or after. Clients belong
to different projects. Seen by the clients of one project, with the rows of that
project that are not deleted as the abstract map (`Active`), the table is a
`StatePort` with `AnswersLost`: `TableImplementsPort`.

`MCStores` puts both stores behind the choice of `buildManagerWithMode`
(`root.go:181`): a command uses one or the other.

### StoreValues

The processes that write one environment's record, and what becomes of the
values kept in it. The state store is the atomic map of `StatePort`, so one
write is one step here; the engine is reduced to hooks, checkpoints and the save
at the end.

| in the model | in the code |
|---|---|
| `stored` | the record: `EnvironmentEntry.Env`, and which steps are completed |
| `command`, `pc`, `parent` | what a process runs, what it does next, and the command whose hook started it |
| `copy` | the record as that process has it in memory |
| `hook`, `printed` | the hook it runs and the `GLOBAL_` values this hook printed |
| `given`, `told` | how many values a key was given; which of them its giver has been told is stored: a `store set` that returned, a hook whose step or core command completed |

| action | code |
|---|---|
| `Launch` | `create`, `core`, `store set` or `delete` reads the record |
| `InitRecord`, `RunHook` | `runProvisioner` up to its steps; the next step that is not completed |
| `HookSets` | a hook runs `previewctl store set` and waits for it |
| `StepReturns`, `Reload`, `Checkpoint` | `step` after its hook: captured outputs go into the copy, the values of the store replace the copy's, the copy is written |
| `StepFails`, `SaveProvisioned` | the write of a failed step (without the reload); the write at the end of the phase |
| `CoreReturns`, `CoreFails` | `RunCoreHook`, `CoreReset` after their hook |
| `StoreSet`, `Remove` | the write of `store set`; the last step of a delete |
| `Kill` | a command is killed with its hook and the hook's child |

The *n*-th value a key is given is the number *n*. The keys given to `store set`
and those printed as `GLOBAL_` are two sets, because the two ways to a value
meet different code. The constant `Alone` says that users run one command at a
time; with `Alone = FALSE` any record can be overwritten by any other command,
and neither the documentation nor the code claims otherwise.

### Services

One remote environment that a `create` has completed, and the commands that
change its services, one after another.

| in the model | in the code |
|---|---|
| `entry` | the stored record: `EnabledServices`, and the provisioner outputs |
| `files` | on the VM: the outputs `.previewctl.json`, the env files and the compose file were made from; the services `nginx.conf` has a proxy block for |
| `containers` | per service: absent, up or stopped; the outputs in the environment and in the command it was *created* with |
| `proxy` | what the running nginx has loaded |
| `printed` | the outputs the reset hook made last |
| `cmd`, `svc`, `pc`, `copy`, `mf`, `todo`, `warned` | the command: its copy of the record, its manifest, the steps to come, whether it has warned that nginx is not up to date |
| `unsettled` | services between a docker command and its record, or left there |

| action | code |
|---|---|
| `Begin` | the command reads the record; starting what is enabled, or stopping what is not, ends there |
| `ServiceCommand`, `Track` | the `docker compose` command of start, stop, restart; `trackServiceEnabled`/`Disabled` |
| `Reset` | `CoreReset` up to its write |
| `Load`, `RunStep`, `Checkpoint` | `RunStep`/`RunSteps`: read record and manifest; one step (`GenerateManifest`, `GenerateEnv`, `GenerateCompose`, `GenerateNginx`, `StartServices`); write the whole copy back |
| `RestartProxy` | the end of `refreshNginxProxy` |
| `Update` | the last docker command of `propagateProvisionerChange` and `SyncRemote` |
| `ComposeFails`, `TrackFails`, `ResetFails`, `StepsFail`, `StepFails`, `Kill` | each call that can fail, with or without effect, and what the command does then |

The outputs of the *n*-th reset are the number *n*. Docker is modelled by what
its commands do: `up -d` creates a container anew when its configuration or
environment differs, `restart` and `stop` leave a container what it was created
as. `Affected` is `servicesAffectedByChange`, with the set of services whose env
block, or start command, refers to the outputs as constants.

### Config

What happens to a pair of configuration files: `Load` merges base and overlay,
`Pop`, `Release` and `Released` are Kahn's algorithm with the dependents of a
node in any order (they are collected from a Go map), `Vet` is `ValidateConfig`.
Nothing obliges a `create` to wait for vet, so `Create` follows whatever vet said:
`Assign`, `Taken` and `Exhausted` allocate port after port, each probe with
either outcome, for every service and infrastructure service, those with a fixed
port included; `FixPorts` replaces the ports of these; `SeedHooks` prints what is
declared or more, and `BuildManifest` resolves every reference of the env blocks.

The order of names, the place `insertSorted` finds and the order of the port
kinds are defined by what they are (`InOrder`, `IsPlace`, `KindOrder`), so that
the proofs can refer to them.

A reference is a record of namespace, name and output; what it resolves to is
left out, whether it resolves is not. Names are numbers because the sort
compares them. Checks of the file system, the version, the proxy rules and the
templates in start commands, which vet does not look at, are left out.

## 3. The runs

Bounds are constants whose names start with `Max`; each is a conjunct of the
action it limits. Deadlock is not checked (`CHECK_DEADLOCK FALSE`): when the
commands that a run allows have been used, the system stops, as the program
does when nobody calls it.

| run | asks | result |
|---|---|---|
| `lifecycle_remote` | does a checkpoint ever stand in for work that has to be done again? | holds |
| `lifecycle_local` | is a local environment declared running only when it is there, is the user's directory safe, and does `clean` remove what is orphaned and nothing else? | holds |
| `lifecycle_retry` | does repeating `create` get there in the end, and what is the one case in which it does not? | holds |
| `lifecycle_stale` | are the env files of a running environment made from the current outputs, after `run provision --from`? | violated |
| `lifecycle_refresh` | do the services run on the newest build after a `refresh`? | violated |
| `stores` | is either store one atomic map, to the threads of a process and to the clients of a database? | holds |
| `filestore_processes` | ... `state.json` to two processes? Is it always a whole document? | violated |
| `store_values_kept` | is an acknowledged value kept, when each way to store one is used where it works? | holds |
| `store_values_printed` | ... for `GLOBAL_` lines of steps? | violated |
| `services` | do record, containers, files and proxy agree? | hold |
| `services_reset` | does a reset reach the services when only env blocks refer to its outputs? | violated |
| `config` | are sort and port allocation right, and does what vet accepts render? | hold |

**`lifecycle_remote`.** Two seed hooks, so that their order (a Go map's) and
`--from` one of them matter; two VMs, so that one can be lost and replaced;
three commands, so that the damage one does is used by the second and still
seen by the third; one failure or kill at any point, one VM or artefact lost,
one push. Each hazard takes at most one of each, and the model checker combines
them with every `--from`. Properties:

* `SeedCheckpointCurrent`: a completed seed checkpoint holds the outputs of the
  hook's last run.
* `CompletedSeedsNotRerun`: what is recorded as seeded is not seeded again.
* `PublishedManifestCurrent`: whichever of `build_manifest` and
  `write_manifest` were skipped, the manifest that is published, and the one on
  the compute, carry the last outputs.
* `RunningIsFresh`: the environment is declared running only on what was built
  from, and (where a deploy hook always runs) deployed from, source at least as new
  as what this command synced. It does not say that processes that ran before
  were started again, which a `create` no more does than a `refresh`
  (`lifecycle_refresh`).
* `RunningFromFiles`: ... and only with containers that were created from this
  compute and from the env and compose files on it. This is what the invalidation
  of `start_services` after a sync is good for: files that a retry generated
  again, or a directory that `attach` put in the place of the worktree, reach
  the containers although the step had been completed.
* `RunningIsComplete`: ... and only with its services and files in place,
  whatever disappeared after their steps had completed. Of the env files it asks
  for one, and of the infrastructure for nothing: the `Verify` of `generate_env`
  and `start_infra` cannot tell more (section 5).
* `RecordOutlivesCompute`: a delete removes the record only when no compute is
  left, so that it can be repeated.

**`lifecycle_local`.** The worktree, the user's own directory (`attach`),
`delete`, `infra`, and one run of `clean` at any time: four commands, so that an
attach, a create and a delete on one name can follow each other and another one
comes after; one failure or kill, in a command or in `clean`, and one loss.
`CleanTypeOK` includes that no step of the runner phase works on compute its command
does not have. Properties:

* `UndisturbedIsComplete`: `RunningIsComplete` and `RunningFromFiles`, unless `clean`
  removed something while the command ran (which it may, see section 5).
* `UserTreeKept`: no command removes the directory a user attached, whatever
  records attach, create and delete left on one name. The user's directory is one
  of the user's own here, not the path at which a `create` of that name would make
  its worktree: a user who attaches that path gets it treated as the worktree.
* `CleanSpares`: `clean` leaves the compute and the containers of a provisioned
  environment alone. The premises are needed: a state file that does not load
  names nothing, and a command may run between the list and the removal.
* `CleanIsThorough`: after an undisturbed `clean` whatever is left has a record.
  It is what picks up after a delete that was killed, a delete of a record
  without compute, and the containers a delete leaves running.

**`lifecycle_retry`.** Liveness. `CreateSpec` assumes weak fairness of two things.
Of `Proceed`: a command that is running goes on, since it waits for nobody (no lock,
no other command, nothing but hooks that return). Of `Retry`: the user repeats the
command when it has ended, which is what the documentation tells them to do. There
is no fairness on failures, kills and losses, since no retry helps against a hook
that always fails; `MaxTroubles` allows one of them in all, which may be a VM lost at any time.
Another command, a `provision` (with `--from` or `--no-cache`), a `refresh`, a
`core seed` or a `core reset`, may come at any time and is free to fail as well.
`CreateSucceeds`: the environment is running again and again, or in the end stays
in `ManifestLost`: a manifest was lost, with its VM or alone, after
`write_manifest` had completed (section 5). That there is no other way to get stuck
is what the run shows; a step that leaves a wrong checkpoint would be one.

**`lifecycle_stale`.** `RunningIsCurrent`, the env files of an environment that is
declared running hold the outputs of the last seed runs: in remote mode, with
`create` and `run provision --from`, three commands and no fault at all.

**`lifecycle_refresh`.** `RefreshRestarts`: when `refresh` has started the services, their
processes run on the newest build. One `create`, one push, one `refresh`, no fault.

**`stores`.** Local mode: two callers in one process, two environments, two
values, three calls in all and two failures or kills, so that a second writer
meets the temporary file a first one left. Three inodes are enough: the state
file, the temporary file, and one that was renamed over. Remote mode: two clients
of one project and one of another, the same environments, three statements,
one lost answer or kill, any rows of the project left as deleted. `ImplementsPort` and
`TableImplementsPort` are the refinements of `StatePort`.

**`filestore_processes`.** The local half with a process to each caller.

**`store_values_kept`.** Two processes (a command and the child of its hook),
two steps, one core hook, two keys for `store set` and one for `GLOBAL_`, two
values per key, four commands, two kills. Four commands allow a create that
fails, one that resumes, a core command and a delete. A step that cannot fail
runs `store set`; the core hook prints. (What happens to `store set` in a step that
fails, or in a core hook, is in section 5.) `StoreKeeps`: what was acknowledged is
in the store until the environment is deleted. `CheckpointsKept`: no whole
record written back forgets a completed step.

**`store_values_printed`.** `StoreKeeps` with the steps printing `GLOBAL_` lines.

**`services`.** Three services, `web` (autostarted, its env refers to the
outputs) and `api` in one directory, `admin` with a reference in its start
command; four commands, so that one can break something, the second build on
it, the third repair it and a fourth work on; two effects of the reset hook, so
that outputs of three ages are about; two failures or kills, so that the repair
can fail as well. Properties:

* `Settled`: what is enabled runs and what runs is enabled, for every service
  but the ones a command is working on or has left half way. No command disturbs
  *another* service, although each writes back a whole record, some twice.
* `ProxyMatches`: a start or stop that reports success without a warning leaves a
  proxy that routes to exactly the enabled services, whatever nginx or its file
  were before. When the last one was stopped the property asks for what the code
  makes of an empty list: the autostarted services, or all if there are none.
* `SyncObserved`: after a successful sync, every enabled service runs with the
  outputs of the record, whatever was interrupted or left out before.
* `ResetObserved`: the same after a reset, for the services that use the outputs.
* `NothingBooted`: a service the user stopped comes up through nothing but a start
  or restart of that service. The exception, in the property: when the *last*
  service was stopped, the list is empty, counts as "never set", and a refresh
  starts the autostarted ones.

**`services_reset`.** `ResetObserved` when no start command refers to the outputs.

**`config`.** 10782 pairs of files. One family has every choice of dependencies of
three services out of none, each service (itself included), two, one listed
twice next to another, and an infrastructure service, with an overlay that
changes those of one. The second has every kind of reference, known and unknown,
in base and overlay, with and without a seed hook, a path, other declared
outputs, another compose file. The third gives two services fixed ports: none,
one of the block, one beyond it, alike or not. A block of four ports is enough for the
services of every file if all are free and for none with more than one taken.

* `SortOrdered`, `SortLeast`: each prefix of the result has all dependencies of
  its members, and each member is the least that could come next; so the result is
  the same for every order of Go's map.
* `SortDecides`: a cycle is reported exactly when a set of services exists in which
  each depends on one of the set. Dependencies on other names - infrastructure,
  provisioner services, or nothing at all - neither hold a service up nor are an error.
* `PortsDistinct`: from their allocation on, the ports of services without a fixed
  one are distinct ports of the block that were free when probed.
* `ExhaustedOnlyWhenFull`: the allocation gives up only when the block has fewer ports
  that were not found taken than there are services and infrastructure services,
  those with a fixed port included.
* `AcceptedRenders`: what vet accepts renders. The two premises are needed:
  ports are divided by name, so an infrastructure service with the name of
  an application service has none; and outputs of a service without a seed hook are
  declared and never printed. vet checks neither.

`Faulty…` definitions and the other mutations listed under `mutants` in
`PROJECT.json` are bugs each property was seen to catch.

## 4. The proofs

All theorems are proved for arbitrary constants (any seeds, boxes, hooks, steps,
keys, callers, environments and bounds), from the named assumptions in the
modules and those written here.

| theorem | says | assumes |
|---|---|---|
| `TypeCorrect` | `Lifecycle`: `TypeOK` is invariant | |
| `SeedsRunOnce` | `CompletedSeedsNotRerun` | |
| `SeedCheckpointsCurrent` | `SeedCheckpointCurrent` is invariant | no `--no-cache`, `core seed` or `core reset` |
| `RecordOutlives` | `RecordOutlivesCompute` | a `compute.destroy` hook |
| `UserTreeSafe` | `UserTreeKept` | |
| `RunningOnNewSource` | `RunningIsFresh` | |
| `RunningOnItsFiles` | `RunningFromFiles` | |
| `RunningInPlace` | `RunningIsComplete` | |
| `PublishedIsCurrent` | `PublishedManifestCurrent` | `PlainUse` |
| `RunningOnCurrentEnv` | `RunningIsCurrent` | `PlainUse`, no `--from` |
| `CleanTypeCorrect` | `Clean`: `CleanTypeOK` is invariant | local mode |
| `CleanSparesTracked` | `CleanSpares` | local mode |
| `CleanFindsAll` | `CleanIsThorough` | local mode |
| `UserTreeSafeFromClean` | `UserTreeKept`, with `clean` among the commands | local mode |
| `UndisturbedInPlace` | `UndisturbedIsComplete` | local mode |
| `TypeCorrect` | `FileStore`: `TypeOK` is invariant, with any processes | |
| `NeverTornAlone` | the state file is always whole | one process |
| `FileImplementsPort` | `FileStore` implements `StatePort` | one process |
| `TableImplements` | `PostgresStore` implements `StatePort` for each project, where answers may be lost | |
| `TypeCorrect` | `StoreValues`: `TypeOK` is invariant, with any commands at once | |
| `ValuesKept` | `StoreKeeps` is invariant | `OneWay` |
| `StepsKept` | `CheckpointsKept` | `OneWay` |
| `TypeCorrect` | `Services`: `TypeOK` is invariant | |
| `EnabledRun` | `Settled` | |
| `ProxyFollows` | `ProxyMatches` | |
| `NothingBootedUnasked` | `NothingBooted` | |
| `SyncReaches` | `SyncObserved` | |
| `ResetReaches` | `ResetObserved` | `EnvIsRead` |
| `TypeCorrect` | `Config`: `TypeOK` is invariant | |
| `DependenciesFirst`, `LeastOrder` | `SortOrdered`, `SortLeast` | |
| `CyclesFound` | `SortDecides` | |
| `PortsApart`, `ExhaustedIsFull` | `PortsDistinct`, `ExhaustedOnlyWhenFull` | |
| `AcceptedIsRendered` | `AcceptedRenders` | |

`OneWay`: one command at a time; `store set` only in hooks of steps that do not
fail afterwards; `GLOBAL_` lines only from core hooks. `PlainUse`: users pass no
`--no-cache`, and run neither `core seed`, `core reset` nor `refresh` nor, in local
mode, `attach`. `EnvIsRead`: if the env block of a service refers to what a reset
changes, so does the start command of some service.

Four safety properties that a run refutes are theorems under the assumption the
run does without: `NeverTorn` (one process), `StoreKeeps` (`OneWay`),
`ResetObserved` (`EnvIsRead`) and `RunningIsCurrent` (`PlainUse` and no `--from`).
The counterexample shows what takes the property away, the theorem that nothing
else does. `SeedCheckpointsCurrent`, `PublishedIsCurrent` and
`FileImplementsPort` do not hold without their assumptions either; none of the five
parts of `PlainUse` can be dropped, because each alone lets TLC refute
`PublishedManifestCurrent` (section 5, *Stale outputs*, tells how; `--no-cache` runs
a seed again and leaves the old `write_manifest` completed until that is reached).

**Lifecycle.** The type invariant is strengthened by two facts that no step
would survive without: the sync has compute to work on (`pc = "sync"` implies
`ca \in Boxes`), and only a step can have a checkpoint pending. For seeds:
`CommandHasSteps` (who is at a step is a command) and `SeedsWrittenBack` — while
a command runs, its copy and the store agree on every seed, because the step
that changes a seed's record is the one that writes it. That is why a hook that runs was
not recorded as completed, and gives `SeedsRunOnce`. `SeedOutputsHeld` (between a hook and its
checkpoint the copy holds the outputs of the very last run) and `SeedsNotForced`
add what `SeedCheckpointsCurrent` needs; `SeedCheckpointCurrent` alone is not
inductive, because it does not say what the pending checkpoint is going to
write. With `--no-cache` the hook runs while the old checkpoint is still stored,
so the assumption cannot be dropped. `RecordOutlives` rests on `CommandHasRecord`
and on `ComputeGone`: past `compute_destroy` no managed compute is up, and
nothing a delete does afterwards, or the world does meanwhile, brings it back.
`UserTreeSafe` needs no more than types: the steps that write the state of a
directory are `create_compute` and the last part of a delete, and the directory
they mean follows from the environment's name, not from the record.

**The end of the runner phase** (`PublishProofs`). `EffectInv` says, of each step
that leaves something behind, what is there from that step until the phase ends:
a file, a build not older than the version the command synced to, containers
that were created from the files of this compute (`UpToDate`). Steps that ran have
just made it (`FnEffects`), and for those that were skipped `Verified` has looked.
It would not be inductive alone: a build verifies no version, and `docker compose
ps` does not tell what containers were created from; so it needs
`InvalidatedInv` - after a sync neither build nor start is skipped, since the sync
has invalidated both - and `SourceInv`, no tree is newer than the source. Losing
compute is no threat (`WorldEffects`): the properties speak of compute that is
still up. With these, `RunningIsFresh`, `RunningFromFiles` and `RunningIsComplete`
hold for every configuration and whatever went wrong before. None of them says
what the processes of containers that ran before have loaded, as `up -d` does not
start them again.

**The end of the provisioner phase.** `SeedsDone`: the seeds the command has come
past are completed and their last outputs loaded (`SeedsLoaded`, `AllSeedsPast`),
a hook that has just run was not completed before (`SeedPending`), and
`write_manifest` is never stored as completed before all the seeds are
(`WrittenLast`). So a seed that runs again finds no stale manifest taken for
written, which is `ManifestWritten`; and what the command itself holds is current
(`ManifestHeld`). `StepsWrittenBack` extends `SeedsWrittenBack` to all steps but
those a sync invalidates in the copy only. `OneUp` and `OwnBox` (one compute, and
not the user's directory) are what makes "the manifest on the compute" one thing,
and why `attach` is excluded. `WrittenLast` survives `--from`, because the
suffix it deletes is one of the provisioner's order, in which `write_manifest` follows
the seeds. `generate_env` is in no such suffix: `EnvLast` and `EnvWritten`, which say of
the env files what `WrittenLast` and `ManifestWritten` say of the manifest, are
inductive only without `--from`, and `lifecycle_stale` shows the difference.

**Clean.** `ScanSound` speaks of a run of `clean` that has read all records and had
no command beside it (`Sound`): what it took for tracked is what the record
names, nothing it is going to remove is named, and all that is present is either
named or going to be removed. It is inductive because without a command only
the world moves (`WorldMoves`), which makes nothing appear (`WorldOnlyLoses`).
`CleanSparesTracked` and `CleanFindsAll` are its two halves. For
`UndisturbedInPlace` the invariant of the runner phase is weakened to hold unless
`disturbed`: what `clean` removes under a running command is marked, and what it
removes between two commands the next one finds missing.

**FileStore.** `FileInv` (the two names never share an inode, what is under
`state.json` is whole) and `CallerInv` for each caller: who is between lock and
unlock holds the mutex of the one process (part of `TypeOK`); what it loaded is still what is
stored, with its own change made; the inode it writes is the temporary file and
nobody else's. From this, `Rename` maps to the port's `Perform`, reads map to
`Perform` at the moment they read, failures to `Fail`, `Return` and `Kill` to
`End`, and all else to stuttering. The types hold for any number of processes:
whoever is between lock and unlock holds the mutex of its own process.

**PostgresStore.** `TableInv` (types, and a pending call is a request) is enough,
because a statement is atomic. `ExecutedActive`: what the statement does to the
active rows of the client's project is what the port says of the call, also where
an older row is marked as deleted. `ForeignStutters`: the calls of other projects
change nothing the port can see. A failing statement maps to `Fail` with or
without effect.

**StoreValues.** `ProcessInv`: there is one command, and at most one child,
which lives no longer than the hook. `CopyInv` compares each copy with the
store: it is equal, but for the step just done, wherever it is about to be
written, and older in values only while a hook that runs `store set` runs, and
until the `Reload` that follows. `ValueInv`: what was told is in
the store, and nothing stored is newer than what was given. Without `OneWay`,
`FamilyInv` is left and enough for the types: a child is a `store set`, its parent is
alive and in its hook, and has no parent itself.

**Services.** `CopyInv`: a command's copy is the stored record wherever it is going to
be written back, but for what the pending checkpoint adds; so no write of a whole
record undoes what it did not mean to. `ProgressInv` says how far manifest, env files
and compose file have caught up with the record, step by step, in a sync or a
propagation; `PrintedInv`, that the record has what the hook printed; `RoutesInv`,
that `nginx.conf` and then nginx follow the record. `CommandInv` (part of `TypeInv`)
says which steps each command can have left. `Settled` is inductive next to these:
`track` follows the docker command, and who fails in between is marked. For
`SyncReaches` and `ResetReaches` the last docker command recreates
containers from files that `ProgressInv` has brought up to date; a reset runs
`up -d` only if a start command needs it, whence `EnvIsRead`.

**Config.** `SortInv`: the in-degree of a service is the number of its dependencies
not yet popped, plus what the running release still has to count down (`Due`); the
queue is in order and holds the services whose in-degree is zero. An entry that is
listed twice is counted twice and counted down twice, which is why the invariant
counts positions (`Waiting`) and not names. `CyclesFound` goes both ways: if
something is left when the queue is empty, each of what is left waits for
another of it; and of a cycle, the service that comes first in the result would
come before something it depends on. `PortInv` counts: every port tried was
found taken or given away, so ports taken, names served and names to come add
up to the offset; with the block at its end, `ExhaustedIsFull` follows. Past the
allocation it keeps `PortsDistinct`, which fixed ports do not disturb, since they
leave the ports of all other names alone.
`RenderInv`: what vet looked at is what is rendered. That each least element exists
(a place in the queue, the first service of a cycle) is taken from the library's theorem on
well-founded relations, in its form for sets.

Every property of a passing run has a theorem, with one exception that is only
model-checked: `CreateSucceeds`, because liveness under fairness and `ENABLED` are out
of the proof system's reach.
The theorems about refinement are about steps, and say nothing of progress.

## 5. Where code and documentation disagree

Each is the counterexample of one run; the quotations are in `findings` in
`PROJECT.json`.

* `filestore_processes`, against `docs/state.md:9` ("mutex-protected to prevent
  corruption from concurrent access"). The mutex lives in a process; all
  processes write the one `state.json.tmp`.
* `store_values_printed`, against `docs/hooks.md:91` ("automatically persisted").
  A step puts printed values into its copy and then replaces the copy's values by
  those in the store, if there are any: from the second such hook on they are lost.
* `lifecycle_stale`, against `docs/lifecycle.md:104` ("invalidates the specified
  step and all steps after it, forcing them to re-execute"). `run provision
  --from` a seed deletes checkpoints in the order of the provisioner's steps only.
  Those of the runner stay; `generate_env` verifies that a file is there; the next
  `create` declares the environment running with env files that hold
  credentials the seed hook has replaced.
* `lifecycle_refresh`, against `docs/remote-mode.md:110` ("pulls code, regenerates
  config, rebuilds, restarts") and `inbound/cli/refresh.go:53` ("rebuild and
  restart"). `start_services` is a plain `docker compose up -d`
  (`step_registry.go:355`) over a compose file with a fixed image and the source
  mounted. When neither that file nor an env file has changed, the containers are left
  running, on the build from before. The same holds of a `create` after a push:
  `manager.go:1116` says that the steps that read the source "re-run against the
  fresh tree", which `up -d` does without an effect.
* `services_reset`, against `domain/propagate.go:14` ("so dependent services pick
  up new credentials or store values without the user having to manually ...
  restart containers"). The values are in the container's environment
  (`env_file`), which `docker compose restart` does not renew; only when a start
  command refers to a value does the propagation use `up -d`.

Met while modelling, and without a run of their own:

* *Lost manifest.* `docs/lifecycle.md:116` ("re-running the same command picks up from
  the failed step. There is no need to destroy and recreate"; but see
  `docs/troubleshooting.md:118`, which advises just that after "a manual cleanup").
  A VM that is lost after `write_manifest` completed is replaced, because
  `create_compute` verifies; `write_manifest` has no `Verify` and stays cached; the
  new VM never gets its manifest, and every `create` ends in
  `loadManifestFromEntry`. This is the exception in `CreateSucceeds`, which TLC
  refutes without it.
* *Store values.* `inbound/cli/store.go:21` ("persist state ... for use by later
  hooks"): a failing step (`manager.go:152`) and the core commands
  (`manager.go:1390`, `1540`) write back the record as it was before their hook,
  and what the hook had set with `store set` is gone. `StoreKeeps` fails with
  such a step among those that use `store set` (`Setting` and `Failing` not
  disjoint), or with a core hook that does.
* *The last service.* `inbound/cli/service.go:126` ("so the proxy block becomes a 503
  block") and `docs/services.md:46`. When `service stop` stops the last enabled
  service, the list is empty, `enabledServices` (`step_registry.go:378`) takes that
  for never set, and nginx gets the proxy blocks of the autostarted services,
  also of the one just stopped: the exception in `ProxyMatches`.
* *Unknown dependencies.* `dependency_graph.go:5-7` ("Returns an error if a cycle is
  detected or a dependency references an unknown service"). `TopologicalSort`
  passes over every name that is not among the services (`dependency_graph.go:24`),
  and returns an error only for a cycle, as `SortDecides` says. vet, the one command
  that calls it, looks for unknown names on its own (`validate.go:111`).
* *Fixed ports.* `config.go:184` ("skips the port allocator when set") and
  `docs/configuration.md:115`. `ServiceNames` (`port_allocator.go:77`) lists every
  service, `AllocatePortBlock` finds a free port for each, and afterwards fixed ports
  replace theirs (`manager.go:967`): a `create` can fail for want of a port that no
  service would have used (`ExhaustedOnlyWhenFull` therefore counts these services).
  Nor is a fixed port compared with the others: vet accepts two services that have
  the same one, and one that the allocator may give to another service, against
  `README.md:10` ("Unique, conflict-free ports per environment").
* *Stale outputs.* After `core reset` the seed's checkpoint holds the outputs from before;
  the next `create` or `provision` loads them and publishes them over those of the
  reset. `core seed` runs the hook again and writes down nothing but its `GLOBAL_`
  lines (`manager.go:1386`): checkpoint, record and manifest keep the outputs it has
  replaced. After a `create` that failed past `write_manifest`, a `refresh` rebuilds
  the manifest on the VM from a record that has no outputs yet; the next `create`
  takes `write_manifest` for done and starts the runner phase from that empty
  manifest. `PublishedManifestCurrent` fails with `seed`, `reset` or `refresh`
  among the commands. In local mode the manifest of an attached directory stays
  there when the environment is deleted; an `attach` that follows a `create` which
  failed past `write_manifest` takes that step for done, and builds on the
  leftover (`RunningIsCurrent` in `lifecycle_local`, for that reason not among
  its properties).
* *Verification* (`docs/lifecycle.md:73-79`). `generate_env` looks at one env file,
  whichever comes first in a Go map. `start_infra` and `start_services` ask
  `docker compose ps`, which shows every container of the project: with a service
  running, a stopped infrastructure counts as running, and `create` ends with
  "running" and without it. (`start_services` runs in every `create` anyway: the
  sync invalidates it.) A delete of an attached environment that is
  killed after it stopped the infrastructure, and a new `create`, lead there, too.
* *clean.* It takes no lock: what a `create` has made before its record
  names it can be listed and removed. A state file that does not load is passed
  over, and all environments in it are listed as orphans. A compose project that
  is not previewctl's, but whose name starts like a project's, is listed too.
* *Postgres.* `docs/state.md:19` speaks of soft deletes that keep the history;
  `postgres.go:165-173` deletes the row. The lookup that infers the mode
  (`root.go:135-145`) passes over every error of the database, and the command
  goes on with a local environment of the same name.
* *Hooks over SSH.* The environment of a command is written to one file per user on the VM
  and sourced by a second call (`ssh_compute_access.go:141-164`); two commands of
  one user exchange theirs.
* *Configuration.* vet rejects the namespaces `env`, `store` and `proxy`, which
  `docs/template-variables.md:23-26` lists and `template.go` resolves, and two
  infrastructure services that map no port; `GenerateComposeFile` renders start
  commands without the store, so that `{{store.KEY}}` fails there.
* *Delete.* With a `runner.destroy` hook and lost compute, `Destroy` fails in its
  first step at every repetition.

## 6. Not modelled, and the plan

Left out, and why:

* **`Lifecycle`**: commands that run at the same time on one environment (no
  document promises anything for them, and the whole-record writes of
  `StoreValues` show what to expect); `Run`, which keeps no record; `DryRunStep`,
  which prints; `SetStatus`, which no command calls; what `allocate_ports` finds
  (it is taken for a function of the name here; `Config` has the probes); a build
  hook that makes the service image anew, since containers run from the mounted
  source in the models as they do in the generated compose file.
* **State**: `Save`, which no command calls; the migrations; the choice of the
  mode, which `MCStores` takes as given.
* **Services**: two commands that race for the record, a disabled proxy,
  services without a start command, changed store keys (not told apart from
  changed outputs), local environments.
* **`Reconcile`**: no command calls it.
* **Config**: which value wins in an env file that services share, the
  generators' errors, environments whose port blocks coincide, checks of the
  file system.
* **Compute access over SSH**: quoting and the environment file. Within one
  environment two commands exchange the same variables but for the hook's own,
  and nothing the other modules keep apart depends on these.
* **Never modelled**: YAML parsing, terminal output and the spinner, on which no
  command's control depends, error pages (part of the proxy's files, where these
  are modelled), self update.

To come, in this order: weaker
assumptions than `PlainUse`, for what still holds of the manifest on the compute when
`refresh`, `core seed` or `core reset` are among the commands; store values of hooks
that fail, and of core hooks, with a property on what is lost at most; the hazards
without a property, those of one command first (a delete whose `runner.destroy`
cannot succeed, what a `--no-cache` that failed leaves completed), then two commands
that race for the services of one record.

Assumptions about the outside: `docker compose ps` shows the containers of the
project and not only those of the compose file it is given; a generated file is
written entirely or not at all; a hook that fails may have taken effect or not,
and is not left half done otherwise; a statement that Postgres has received is
executed, or not, by the time the process that sent it is gone.
