----------------------------- MODULE CleanProofs -----------------------------
(***************************************************************************)
(* Theorems about Clean.  What a scan concludes from the records stays     *)
(* true as long as no command runs: a step of the world in between only    *)
(* takes resources away.                                                   *)
(***************************************************************************)
EXTENDS Clean, PublishProofs

\* The run of clean can still be trusted.
Sound == clean.pc # "idle" /\ clean.ok /\ clean.quiet

\* While it can, it knows what the record names, and later lists nothing of
\* that, but all else there is.
ScanSound ==
    Sound => /\ cmd = "none"
             /\ clean.pc = "scan" => clean.tracked = Tracked(entry)
             /\ clean.pc = "remove" => /\ clean.found \cap Tracked(entry) = {}
                                       /\ Present \subseteq clean.found \cup Tracked(entry)

CleanInv == TypeInv /\ CommandHasSteps /\ CleanTypeOK /\ ScanSound

\* When no command runs, none begins and no other one is issued, only the world moves.
LEMMA WorldMoves ==
  ASSUME TypeInv, CommandHasSteps, [Next]_vars, cmd = "none", cmd' = "none",
         launches' = launches
  PROVE  \/ Push \/ (\E b \in Boxes : LoseBox(b) \/ LoseArtifact(b))
         \/ UNCHANGED vars
<1>1. launches \in Nat
  BY DEF TypeInv, BudgetOK
<1>2. pc = "idle" /\ ~ran /\ "idle" \notin Steps
  BY SeedsApart DEF CommandHasSteps, TypeInv
<1>3. ~Begin
  BY <1>1 DEF Begin
<1>4. ~Crash
  BY DEF Crash
<1>5. ~(BypassStep \/ SkipStep \/ RunFn \/ Checkpoint \/ StepFails)
  BY <1>2 DEF BypassStep, SkipStep, Checkpoint, StepFails, RunFn, CreateCompute, Seed,
              BuildManifest, WriteFile, RegenerateManifest, SyncStep, StartInfra,
              BuildServices, StartServices, RunnerDeploy, OtherStep, Executes
<1>6. ~(SaveProvisioned \/ LoadManifest \/ SyncCode \/ LoadOrSyncFails \/ SaveRunning)
  BY <1>2 DEF SaveProvisioned, LoadManifest, SyncCode, LoadOrSyncFails, SaveRunning
<1>7. ~Destroying
  BY <1>2 DEF Destroying, RunnerDestroy, ServiceDestroy, ComputeDestroy, CleanupEnv,
              RemoveState, DestroyFails, DestroyAt, DestroySteps
<1>8. ~(\E b \in Boxes : Infra(b)) /\ ~(\E s \in Seeds : CoreSeed(s) \/ Reset(s))
  BY <1>1 DEF Infra, CoreSeed, Reset
<1> QED BY <1>3, <1>4, <1>5, <1>6, <1>7, <1>8 DEF Next, Proceed, Environment

\* ... and it adds no resource to those there are.
LEMMA WorldOnlyLoses ==
  ASSUME TypeInv, \/ Push \/ (\E b \in Boxes : LoseBox(b) \/ LoseArtifact(b))
                  \/ UNCHANGED vars
  PROVE  entry' = entry /\ Present' \subseteq Present
<1>1. /\ box \in [Boxes -> BoxRecords] /\ docker \in [Boxes -> DockerRecords]
      /\ Host(Worktree) = Worktree /\ Worktree \in Boxes /\ ~Remote
      /\ \A b \in Boxes : Host(b) = Worktree
  BY CleanAssumption, BoxAssumption DEF TypeInv, WorldOK, Host
<1>2. entry' = entry
  BY RecordUntouched
<1> SUFFICES /\ box'[Worktree].state = "up" => box[Worktree].state = "up"
             /\ docker'[Worktree].infra => docker[Worktree].infra
             /\ docker'[Worktree].services => docker[Worktree].services
  BY <1>1, <1>2 DEF Present, Up, ProjectRuns
<1>3. CASE Push
  <2>1. docker' = docker /\ box' = [b \in Boxes |-> IF Up(b) THEN [box[b] EXCEPT !.tree = origin + 1]
                                                            ELSE box[b]]
    BY <1>1, <1>3 DEF Push
  <2> QED BY <1>1, <2>1 DEF BoxRecords, Up
<1>4. ASSUME NEW b \in Boxes, LoseBox(b)
      PROVE  docker' = docker /\ (box'[Worktree].state = "up" => box[Worktree].state = "up")
  BY <1>1, <1>4 DEF LoseBox, Blank
<1>5. ASSUME NEW b \in Boxes, LoseArtifact(b)
      PROVE  /\ box'[Worktree].state = "up" => box[Worktree].state = "up"
             /\ docker'[Worktree].infra => docker[Worktree].infra
             /\ docker'[Worktree].services => docker[Worktree].services
  <2>1. CASE docker' = docker /\ \E f \in Files :
                   box' \in {[box EXCEPT ![b].files[f] = NoFile,
                                        ![b].partial = box[b].partial /\ f # "env"],
                            [box EXCEPT ![b].partial = box[b].partial \/ f = "env"]}
    <3>1. PICK f \in Files :
             box' \in {[box EXCEPT ![b].files[f] = NoFile,
                                  ![b].partial = box[b].partial /\ f # "env"],
                      [box EXCEPT ![b].partial = box[b].partial \/ f = "env"]}
      BY <2>1
    <3>2. [box EXCEPT ![b].files[f] = NoFile,
                      ![b].partial = box[b].partial /\ f # "env"][Worktree].state
             = box[Worktree].state
      BY <1>1, WritesKeepState
    <3>3. [box EXCEPT ![b].partial = box[b].partial \/ f = "env"][Worktree].state
             = box[Worktree].state
      BY <1>1, WritesKeepState
    <3>4. box'[Worktree].state = box[Worktree].state
      BY <3>1, <3>2, <3>3
    <3> QED BY <2>1, <3>4
  <2>2. CASE /\ box' = box
             /\ docker' \in {[docker EXCEPT ![Host(b)].infra = FALSE],
                             [docker EXCEPT ![Host(b)].services = FALSE],
                             [docker EXCEPT ![Host(b)] = NoContainers]}
    BY <1>1, <2>2 DEF DockerRecords, NoContainers
  <2> QED BY <1>5, <2>1, <2>2 DEF LoseArtifact
<1>6. CASE UNCHANGED vars
  BY <1>6 DEF vars, world
<1> QED BY <1>3, <1>4, <1>5, <1>6

\* A step of clean changes neither the record nor the command, only what it removes.
LEMMA CleaningKeeps ==
  ASSUME TypeInv, Cleaning
  PROVE  /\ TypeInv' /\ UNCHANGED <<entry, invocation>>
         /\ Present' \subseteq Present
<1>1. /\ box \in [Boxes -> BoxRecords] /\ docker \in [Boxes -> DockerRecords]
      /\ Host(Worktree) = Worktree /\ Worktree \in Boxes /\ faults \in Nat
      /\ Blank("unused", 1) \in BoxRecords /\ NoContainers \in DockerRecords
  BY CleanAssumption, BoxAssumption, BlankType, NoContainersType
  DEF TypeInv, WorldOK, BudgetOK, Host, BoxStates
<1>2. CASE ReadRecords \/ ListOrphans \/ CleanEnds
  <2>0. faults + 1 \in Nat
    BY <1>1
  <2>1. UNCHANGED <<entry, invocation, world, launches, losses>> /\ faults' \in Nat
    <3>1. CASE ListOrphans
      <4>1. PICK seen \in SUBSET Present :
                IF seen = Present THEN UNCHANGED faults ELSE Fault
        BY <3>1 DEF ListOrphans
      <4>2. faults' \in Nat
        BY <1>1, <2>0, <4>1 DEF Fault
      <4> QED BY <3>1, <4>2 DEF ListOrphans
    <3> QED BY <1>1, <1>2, <2>0, <3>1 DEF ReadRecords, CleanEnds, vars, budget, Fault
  <2> QED
    BY <2>1 DEF TypeInv, CommandOK, WorldOK, BudgetOK, invocation, world, Present, Up,
                ProjectRuns, Host
<1>3. ASSUME NEW r \in Resources, RemoveOrphan(r) PROVE
         /\ TypeInv' /\ UNCHANGED <<entry, invocation>> /\ Present' \subseteq Present
  <2>1. /\ box' \in [Boxes -> BoxRecords] /\ docker' \in [Boxes -> DockerRecords]
        /\ UNCHANGED <<entry, invocation, origin, seeded, launches, losses>> /\ faults' \in Nat
    <3>1. Remove(r) \/ UNCHANGED <<box, docker>>
      BY <1>3 DEF RemoveOrphan
    <3>2. UNCHANGED <<entry, invocation, origin, seeded, launches, losses>>
            /\ faults' \in {faults, faults + 1}
      BY <1>3 DEF RemoveOrphan, Fault
    <3>3. /\ Remove(r) => box' \in [Boxes -> BoxRecords]
          /\ Remove(r) => docker' \in [Boxes -> DockerRecords]
      BY <1>1 DEF Remove
    <3> QED BY <1>1, <3>1, <3>2, <3>3
  <2>2. Present' \subseteq Present
    <3>1. CASE Remove(r)
      BY <1>1, <3>1 DEF Remove, Present, Up, ProjectRuns, Host, Blank, NoContainers
    <3>2. CASE UNCHANGED <<box, docker>>
      BY <3>2 DEF Present, Up, ProjectRuns, Host
    <3> QED BY <1>3, <3>1, <3>2 DEF RemoveOrphan
  <2> QED
    BY <2>1, <2>2 DEF TypeInv, CommandOK, WorldOK, BudgetOK, invocation
<1> QED BY <1>2, <1>3 DEF Cleaning

\* What is removed is gone.
LEMMA RemoveGone ==
  ASSUME TypeInv, NEW r \in Resources, Remove(r)
  PROVE  r \notin Present'
<1>1. /\ box \in [Boxes -> BoxRecords] /\ docker \in [Boxes -> DockerRecords]
      /\ Host(Worktree) = Worktree /\ Worktree \in Boxes
  BY CleanAssumption, BoxAssumption DEF TypeInv, WorldOK, Host
<1> QED BY <1>1
        DEF Remove, Present, Up, ProjectRuns, Host, Blank, NoContainers, Resources

LEMMA ScanSoundKept ==
  ASSUME CleanInv, [CleanNext]_cleanVars
  PROVE  ScanSound'
<1> SUFFICES ASSUME Sound'
             PROVE  ScanSound'
  BY DEF ScanSound
<1>1. CASE Next /\ Meanwhile
  <2>1. /\ Sound /\ cmd = "none" /\ cmd' = "none" /\ launches' = launches
        /\ clean'.pc = clean.pc /\ clean'.tracked = clean.tracked /\ clean'.found = clean.found
    BY <1>1 DEF Meanwhile, Sound, CleanInv, CleanTypeOK, CleanRecords
  <2>2. entry' = entry /\ Present' \subseteq Present
    BY <1>1, <2>1, WorldMoves, WorldOnlyLoses DEF CleanInv
  <2> QED BY <2>1, <2>2 DEF ScanSound, CleanInv, Tracked
<1>2. CASE ReadRecords
  <2>1. /\ clean'.pc = "scan" /\ (clean'.quiet => cmd = "none")
        /\ clean'.tracked = Tracked(entry) \/ ~clean'.ok
        /\ UNCHANGED <<entry, cmd>>
    BY <1>2 DEF ReadRecords, NotCleaning, invocation
  <2> QED BY <2>1 DEF ScanSound, Sound, Tracked
<1>3. CASE ListOrphans
  <2>1. PICK seen \in SUBSET Present :
           clean' = [clean EXCEPT !.pc = "remove", !.found = seen \ clean.tracked,
                                  !.tracked = {}, !.ok = clean.ok /\ seen = Present]
    BY <1>3 DEF ListOrphans
  <2>2. UNCHANGED <<entry, cmd>> /\ Present' = Present
    BY <1>3 DEF ListOrphans, invocation, world, Present, Up, ProjectRuns, Host
  <2>3. Sound /\ clean.pc = "scan" /\ clean'.pc = "remove" /\ clean'.found = Present \ clean.tracked
    <3>1. /\ clean'.pc = "remove" /\ clean'.found = seen \ clean.tracked
          /\ clean'.quiet = clean.quiet /\ clean'.ok = (clean.ok /\ seen = Present)
      BY <2>1 DEF CleanInv, CleanTypeOK, CleanRecords
    <3> QED BY <1>3, <3>1 DEF ListOrphans, Sound
  <2> QED BY <2>2, <2>3 DEF ScanSound, CleanInv, Tracked
<1>4. ASSUME NEW r \in Resources, RemoveOrphan(r)
      PROVE  ScanSound'
  <2>1. /\ clean.pc = "remove" /\ clean'.pc = "remove" /\ clean'.found = clean.found \ {r}
        /\ clean.ok /\ clean.quiet /\ Remove(r)
    <3>1. PICK ok \in BOOLEAN : Removed(r, ok) /\ (ok => clean.ok /\ Remove(r))
      BY <1>4 DEF RemoveOrphan, CleanInv, CleanTypeOK, CleanRecords
    <3>2. clean' = [clean EXCEPT !.found = clean.found \ {r}, !.ok = ok]
      BY <3>1 DEF Removed, Sound, NotCleaning
    <3>3. /\ clean'.pc = clean.pc /\ clean'.found = clean.found \ {r}
          /\ clean'.quiet = clean.quiet /\ clean'.ok = ok
      BY <3>2 DEF CleanInv, CleanTypeOK, CleanRecords
    <3> QED BY <1>4, <3>1, <3>3 DEF Sound, RemoveOrphan
  <2>2. entry' = entry /\ cmd' = cmd /\ Present' \subseteq Present
    BY <1>4, CleaningKeeps DEF Cleaning, CleanInv, invocation
  <2>3. r \notin Present'
    BY <1>4, <2>1, RemoveGone DEF CleanInv
  <2> QED BY <2>1, <2>2, <2>3 DEF ScanSound, Sound, CleanInv, Tracked
<1>5. CASE CleanEnds
  BY <1>5 DEF CleanEnds, Sound, NotCleaning
<1>6. CASE UNCHANGED cleanVars
  BY <1>6 DEF cleanVars, vars, invocation, world, ScanSound, CleanInv, Sound, Tracked,
              Present, Up, ProjectRuns, Host
<1> QED BY <1>1, <1>2, <1>3, <1>4, <1>5, <1>6 DEF CleanNext, Cleaning

LEMMA CleanInvKept == CleanInv /\ [CleanNext]_cleanVars => CleanInv'
<1> SUFFICES ASSUME CleanInv, [CleanNext]_cleanVars PROVE CleanInv'
  OBVIOUS
<1>1. TypeInv' /\ CommandHasSteps'
  <2>1. CASE [Next]_vars
    BY <2>1, NextType, CommandHasStepsKept DEF CleanInv
  <2>2. CASE Cleaning
    BY <2>2, CleaningKeeps DEF CleanInv, CommandHasSteps, invocation
  <2> QED BY <2>1, <2>2 DEF CleanNext, cleanVars
<1>2. CleanTypeOK'
  <2>1. TypeOK' /\ MaxCleans \in Nat
    BY <1>1, CleanAssumption DEF TypeInv, CommandOK, WorldOK, BudgetOK, TypeOK
  <2>2. clean \in CleanRecords /\ cleans \in Nat /\ disturbed \in BOOLEAN
    BY DEF CleanInv, CleanTypeOK, CleanRecords
  <2>3. NotCleaning \in CleanRecords
    BY DEF NotCleaning, CleanRecords
  <2>4. Tracked(entry) \in SUBSET Resources /\ Present \in SUBSET Resources
    BY DEF Tracked, Present
  <2>5. CASE Next /\ Meanwhile
    BY <2>1, <2>2, <2>5 DEF Meanwhile, CleanTypeOK, CleanRecords
  <2>6. CASE ReadRecords
    <3>1. (cmd = "none") \in BOOLEAN
      OBVIOUS
    <3>2. ASSUME NEW T \in SUBSET Resources, NEW ok \in BOOLEAN, NEW quiet \in BOOLEAN
          PROVE  /\ [NotCleaning EXCEPT !.pc = "scan", !.tracked = T, !.quiet = quiet] \in CleanRecords
                 /\ [NotCleaning EXCEPT !.pc = "scan", !.ok = ok, !.quiet = quiet] \in CleanRecords
      BY <2>3 DEF CleanRecords
    <3>3. clean' \in CleanRecords
      <4>1. CASE clean' = [NotCleaning EXCEPT !.pc = "scan", !.tracked = Tracked(entry),
                                              !.quiet = (cmd = "none")]
        BY <2>4, <3>1, <3>2, <4>1
      <4>2. CASE clean' = [NotCleaning EXCEPT !.pc = "scan", !.ok = FALSE,
                                              !.quiet = (cmd = "none")]
        <5>1. FALSE \in BOOLEAN
          OBVIOUS
        <5> QED BY <3>1, <3>2, <4>2, <5>1
      <4> QED BY <2>6, <4>1, <4>2 DEF ReadRecords
    <3>4. cleans' \in Nat /\ disturbed' \in BOOLEAN
      BY <2>2, <2>6 DEF ReadRecords
    <3> QED BY <2>1, <3>3, <3>4 DEF CleanTypeOK
  <2>7. CASE ListOrphans
    <3>1. PICK seen \in SUBSET Present :
             clean' = [clean EXCEPT !.pc = "remove", !.found = seen \ clean.tracked,
                                    !.tracked = {}, !.ok = clean.ok /\ seen = Present]
      BY <2>7 DEF ListOrphans
    <3>2. (clean.ok /\ seen = Present) \in BOOLEAN /\ seen \ clean.tracked \in SUBSET Resources
      BY <2>4
    <3>3. ASSUME NEW ok \in BOOLEAN, NEW found \in SUBSET Resources
          PROVE  [clean EXCEPT !.pc = "remove", !.found = found, !.tracked = {}, !.ok = ok]
                     \in CleanRecords
      BY <2>2 DEF CleanRecords
    <3> QED BY <2>1, <2>2, <2>7, <3>1, <3>2, <3>3 DEF ListOrphans, CleanTypeOK
  <2>10. CASE CleanEnds
    BY <2>1, <2>2, <2>3, <2>10 DEF CleanEnds, CleanTypeOK, CleanRecords
  <2>8. ASSUME NEW r \in Resources, RemoveOrphan(r) PROVE CleanTypeOK'
    <3>1. PICK ok \in BOOLEAN : Removed(r, ok)
      <4>1. clean.ok \in BOOLEAN /\ FALSE \in BOOLEAN
        BY <2>2 DEF CleanRecords
      <4> QED BY <2>8, <4>1 DEF RemoveOrphan
    <3>2. clean' \in CleanRecords
      BY <2>2, <2>3, <3>1 DEF Removed, CleanRecords
    <3>3. (disturbed \/ cmd # "none") \in BOOLEAN
      OBVIOUS
    <3>4. cleans' = cleans /\ disturbed' \in BOOLEAN
      BY <2>8, <3>3 DEF RemoveOrphan
    <3> QED BY <2>1, <2>2, <3>2, <3>4 DEF CleanTypeOK, CleanRecords
  <2>9. CASE UNCHANGED cleanVars
    BY <2>1, <2>2, <2>9 DEF cleanVars, CleanTypeOK, CleanRecords
  <2> QED BY <2>5, <2>6, <2>7, <2>8, <2>9, <2>10 DEF CleanNext, Cleaning
<1> QED BY <1>1, <1>2, ScanSoundKept DEF CleanInv

LEMMA CleanInvariant == CleanSpec => []CleanInv
<1>1. CleanInit => CleanInv
  <2> SUFFICES ASSUME CleanInit PROVE CleanInv
    OBVIOUS
  <2>1. TypeInv /\ CommandHasSteps /\ TypeOK
    BY InitType, TypeInvImpliesTypeOK DEF CleanInit, Init, CommandHasSteps
  <2> QED BY <2>1 DEF CleanInit, NotCleaning, CleanInv, CleanTypeOK, CleanRecords, ScanSound, Sound
<1> QED BY <1>1, CleanInvKept, PTL DEF CleanSpec

\* With clean running beside the commands, every variable keeps its type
\* (inbound/cli/clean.go).
THEOREM CleanTypeCorrect == CleanSpec => []CleanTypeOK
<1>1. CleanInv => CleanTypeOK
  BY DEF CleanInv
<1> QED BY <1>1, CleanInvariant, PTL

-----------------------------------------------------------------------------
\* clean, reading the records before it lists the resources, never removes the
\* compute or the containers of an environment that was provisioned when no
\* command ran meanwhile, whatever was attached, deleted or interrupted before
\* (inbound/cli/clean.go).
THEOREM CleanSparesTracked == CleanSpec => CleanSpares
<1>1. ASSUME CleanInv, [CleanNext]_cleanVars,
             clean.pc = "remove", clean'.found # clean.found, clean.ok, clean.quiet,
             entry.status \in {"provisioned", "running"}
      PROVE  UNCHANGED docker /\ (entry.compute \in Boxes => UNCHANGED box[entry.compute])
  <2>1. clean.found \cap Tracked(entry) = {}
    BY <1>1 DEF CleanInv, ScanSound, Sound
  <2>2. "containers" \notin clean.found /\ (entry.compute = Worktree => "worktree" \notin clean.found)
    BY <1>1, <2>1 DEF Tracked, Resources
  <2>3. CASE CleanEnds
    BY <2>3 DEF CleanEnds, vars, world
  <2>4. ASSUME NEW r \in Resources, RemoveOrphan(r)
        PROVE  UNCHANGED docker /\ (entry.compute \in Boxes => UNCHANGED box[entry.compute])
    <3>1. r = "worktree" /\ entry.compute # Worktree /\ entry' = entry
      BY <2>2, <2>4 DEF RemoveOrphan, Resources
    <3>2. box \in [Boxes -> BoxRecords]
      BY <1>1 DEF CleanInv, TypeInv, WorldOK
    <3>3. UNCHANGED docker /\ (box' = box \/ box' = [box EXCEPT ![Worktree] = Blank("unused", 1)])
      BY <2>4, <3>1 DEF RemoveOrphan, Remove
    <3> QED BY <3>1, <3>2, <3>3
  <2>5. clean'.found = clean.found \/ CleanEnds \/ \E r \in Resources : RemoveOrphan(r)
    BY <1>1 DEF CleanNext, Cleaning, Meanwhile, ReadRecords, ListOrphans, cleanVars, CleanInv,
                CleanTypeOK, CleanRecords
  <2> QED BY <1>1, <2>3, <2>4, <2>5
<1> QED
  BY <1>1, CleanInvariant, PTL DEF CleanSpec, CleanSpares

\* What is left after an undisturbed clean has a record that names it: nothing
\* a killed delete, or a delete of a record without compute, left behind stays
\* behind for good (inbound/cli/clean.go).
THEOREM CleanFindsAll == CleanSpec => CleanIsThorough
<1>1. ASSUME CleanInv, [CleanNext]_cleanVars,
             clean.pc = "remove", clean'.pc = "idle",
             clean.found # {} => <<box, docker>>' # <<box, docker>>,
             clean.ok, clean.quiet
      PROVE  (Present \subseteq Tracked(entry))'
  <2>1. Present \subseteq clean.found \cup Tracked(entry)
    BY <1>1 DEF CleanInv, ScanSound, Sound
  <2>2. CASE CleanEnds
    <3>1. UNCHANGED <<entry, box, docker>>
      BY <2>2 DEF CleanEnds, vars, world
    <3> QED BY <1>1, <2>1, <3>1 DEF Tracked, Present, Up, ProjectRuns, Host
  <2>3. ASSUME NEW r \in Resources, RemoveOrphan(r)
        PROVE  (Present \subseteq Tracked(entry))'
    <3>1. clean.found = {r}
      BY <1>1, <2>3 DEF RemoveOrphan, Removed, CleanInv, CleanTypeOK, CleanRecords
    <3>2. Remove(r)
      BY <1>1, <2>3, <3>1 DEF RemoveOrphan
    <3>3. r \notin Present' /\ Present' \subseteq Present /\ entry' = entry
      BY <1>1, <2>3, <3>2, RemoveGone, CleaningKeeps DEF Cleaning, CleanInv
    <3> QED BY <2>1, <3>1, <3>3 DEF Tracked
  <2>4. CleanEnds \/ \E r \in Resources : RemoveOrphan(r)
    BY <1>1 DEF CleanNext, Cleaning, Meanwhile, ReadRecords, ListOrphans, cleanVars, CleanInv,
                CleanTypeOK, CleanRecords
  <2> QED BY <2>2, <2>3, <2>4
<1> QED
  BY <1>1, CleanInvariant, PTL DEF CleanSpec, CleanIsThorough

\* Neither a command nor a clean beside it removes the directory a user attached
\* (outbound/local/compute.go, inbound/cli/clean.go).
THEOREM UserTreeSafeFromClean == CleanSpec => UserTreeKept
<1>1. ASSUME CleanInv, [CleanNext]_cleanVars
      PROVE  [box[UserTree].state = "up" /\ box'[UserTree].state # "up"
                => losses' # losses]_vars
  <2> SUFFICES ASSUME box[UserTree].state = "up"
               PROVE  box'[UserTree].state = "up" \/ losses' # losses
    OBVIOUS
  <2>1. CASE [Next]_vars
    BY <1>1, <2>1, UserTreeStep DEF CleanInv
  <2>2. CASE ReadRecords \/ ListOrphans \/ CleanEnds
    BY <2>2 DEF ReadRecords, ListOrphans, CleanEnds, vars, world
  <2>3. ASSUME NEW r \in Resources, RemoveOrphan(r)
        PROVE  box'[UserTree].state = "up"
    <3>1. box' = box \/ box' = [box EXCEPT ![Worktree] = Blank("unused", 1)]
      BY <2>3 DEF RemoveOrphan, Remove
    <3>2. box \in [Boxes -> BoxRecords]
      BY <1>1 DEF CleanInv, TypeInv, WorldOK
    <3> QED BY <3>1, <3>2, BoxAssumption
  <2> QED BY <1>1, <2>1, <2>2, <2>3 DEF CleanNext, Cleaning, cleanVars
<1> QED
  BY <1>1, CleanInvariant, PTL DEF CleanSpec, UserTreeKept

-----------------------------------------------------------------------------
(***************************************************************************)
(* What clean removes under a running command is marked; the runner phase  *)
(* of a command that is not marked may rely on all it relied on alone.     *)
(***************************************************************************)
UndisturbedInv ==
    CleanInv /\ SeedsNotForced /\ RefreshOnly /\ SourceInv
        /\ (disturbed \/ (InvalidatedInv /\ EffectInv))

\* No directory clean removes is newer than the source.
LEMMA CleaningKeepsSource ==
  ASSUME TypeInv, SourceInv, Cleaning
  PROVE  SourceInv'
<1>1. synced' = synced /\ origin' = origin
  BY DEF Cleaning, ReadRecords, ListOrphans, RemoveOrphan, CleanEnds, vars, invocation, world
<1>2. box' = box \/ box' = [box EXCEPT ![Worktree] = Blank("unused", 1)]
  BY DEF Cleaning, ReadRecords, ListOrphans, RemoveOrphan, CleanEnds, Remove, vars, world
<1>3. box \in [Boxes -> BoxRecords] /\ Blank("unused", 1).tree = 1
  BY DEF TypeInv, WorldOK, Blank
<1>4. \A b \in Boxes : box'[b].tree \in {box[b].tree, 1}
  BY <1>2, <1>3
<1> QED BY <1>1, <1>4 DEF SourceInv

LEMMA UndisturbedKept ==
  ASSUME UndisturbedInv, [CleanNext]_cleanVars
  PROVE  UndisturbedInv'
<1> USE DEF UndisturbedInv
<1>1. CleanInv'
  BY CleanInvKept
<1>2. TypeInv /\ CommandHasSteps /\ CommandHasSteps'
  BY <1>1 DEF CleanInv
<1>3. pc' = "idle" => InvalidatedInv' /\ EffectInv'
  BY PhaseApart DEF InPhase, InvalidatedInv, EffectInv
<1>4. CASE Next /\ Meanwhile
  <2>1. SeedsNotForced' /\ RefreshOnly' /\ SourceInv'
    BY <1>2, <1>4, SeedsNotForcedKept, RefreshOnlyKept, SourceKept
  <2>2. CASE disturbed'
    BY <1>1, <2>1, <2>2
  <2>3. CASE ~disturbed'
    <3>1. ~disturbed \/ cmd' = "none"
      BY <1>4, <2>3 DEF Meanwhile
    <3>2. CASE ~disturbed
      <4>1. RunnerInv
        BY <1>2, <3>2 DEF RunnerInv
      <4> QED BY <1>1, <1>4, <2>1, <4>1, RunnerInvKept DEF RunnerInv
    <3>3. CASE cmd' = "none"
      BY <1>1, <1>2, <1>3, <2>1, <3>3 DEF CommandHasSteps
    <3> QED BY <3>1, <3>2, <3>3
  <2> QED BY <2>2, <2>3
<1>5. CASE Cleaning
  <2>1. UNCHANGED invocation
    BY <1>2, <1>5, CleaningKeeps
  <2>2. SeedsNotForced' /\ RefreshOnly' /\ SourceInv'
    BY <1>2, <1>5, <2>1, CleaningKeepsSource DEF SeedsNotForced, RefreshOnly, invocation
  <2>3. CASE ReadRecords \/ ListOrphans \/ CleanEnds
    <3>1. UNCHANGED <<invocation, world, disturbed>>
      BY <2>3 DEF ReadRecords, ListOrphans, CleanEnds, vars
    <3>2. InvalidatedInv => InvalidatedInv'
      BY <3>1 DEF InvalidatedInv, InPhase, invocation
    <3>3. EffectInv => EffectInv'
      <4>1. UNCHANGED <<cmd, pc, ran, ca, synced, box, docker>>
        BY <3>1 DEF invocation, world
      <4>2. Up(ca)' => Up(ca)
        BY <4>1 DEF Up
      <4>3. \A s \in Leaving : (Behind(s)' => Behind(s)) /\ (Effect(s) => Effect(s)')
        BY <4>1 DEF Behind, Effect, UpToDate, MakingOf, Host
      <4> QED BY <4>1, <4>2, <4>3 DEF EffectInv, InPhase
    <3> QED BY <1>1, <2>2, <3>1, <3>2, <3>3
  <2>4. ASSUME NEW r \in Resources, RemoveOrphan(r)
        PROVE  disturbed' \/ (InvalidatedInv' /\ EffectInv')
    <3>1. disturbed' \/ cmd = "none"
      BY <2>4 DEF RemoveOrphan
    <3>2. cmd = "none" => pc' = "idle"
      BY <1>2, <2>1 DEF CommandHasSteps, invocation
    <3> QED BY <1>3, <3>1, <3>2
  <2> QED BY <1>1, <1>5, <2>2, <2>3, <2>4 DEF Cleaning
<1>6. CASE UNCHANGED cleanVars
  <2>1. UNCHANGED <<cmd, forced, pc, ran, mem, ca, synced, box, docker, origin, disturbed>>
    BY <1>6 DEF cleanVars, vars, invocation, world
  <2>2. SeedsNotForced' /\ RefreshOnly' /\ SourceInv' /\ (InvalidatedInv => InvalidatedInv')
    BY <2>1 DEF SeedsNotForced, RefreshOnly, SourceInv, InvalidatedInv, InPhase
  <2>3. Up(ca)' => Up(ca)
    BY <2>1 DEF Up
  <2>4. \A s \in Leaving : (Behind(s)' => Behind(s)) /\ (Effect(s) => Effect(s)')
    BY <2>1 DEF Behind, Effect, UpToDate, MakingOf, Host
  <2>5. EffectInv => EffectInv'
    BY <2>1, <2>3, <2>4 DEF EffectInv, InPhase
  <2> QED BY <1>1, <2>1, <2>2, <2>5
<1> QED BY <1>4, <1>5, <1>6 DEF CleanNext

\* clean removes nothing that a create or attach counts on without leaving a mark
\* on it: between two commands it may take any file or container, and the Verify
\* functions (domain/step_registry.go) make the next command put it back, and its
\* services run on the files of its own directory, before it declares the
\* environment running (inbound/cli/clean.go).
THEOREM UndisturbedInPlace == CleanSpec => []UndisturbedIsComplete
<1>1. CleanInit => UndisturbedInv
  <2> SUFFICES ASSUME CleanInit PROVE UndisturbedInv
    OBVIOUS
  <2>1. Init
    BY DEF CleanInit
  <2>2. CleanInv
    <3>1. TypeInv /\ CommandHasSteps /\ TypeOK
      BY <2>1, InitType, TypeInvImpliesTypeOK DEF Init, CommandHasSteps
    <3> QED BY <3>1 DEF CleanInit, NotCleaning, CleanInv, CleanTypeOK, CleanRecords, ScanSound, Sound
  <2>3. RunnerInv
    BY <2>1, InitRunner
  <2> QED BY <2>2, <2>3 DEF UndisturbedInv, RunnerInv
<1>2. UndisturbedInv => UndisturbedIsComplete
  BY RunnerInPlace, RunnerFromFiles DEF UndisturbedInv, RunnerInv, CleanInv, UndisturbedIsComplete
<1> QED BY <1>1, <1>2, UndisturbedKept, PTL DEF CleanSpec
=============================================================================
