-------------------------------- MODULE Clean --------------------------------
(***************************************************************************)
(* "previewctl clean" (inbound/cli/clean.go) next to the commands of       *)
(* Lifecycle, in local mode: it reads the records, lists worktrees and     *)
(* running docker compose projects, asks the user, and removes what no     *)
(* record named.  It is a process of its own and takes no lock, so a       *)
(* command may run, begin and end at any point of it.                      *)
(*                                                                         *)
(* A definition named Faulty... is a wrong version of the one that follows *)
(* it; no specification uses it.                                           *)
(***************************************************************************)
EXTENDS Lifecycle

CONSTANT MaxCleans      \* bound: times clean is run

ASSUME CleanAssumption == MaxCleans \in Nat /\ ~Remote

VARIABLES
    clean,      \* the run of clean
    cleans,     \* how many there were
    disturbed   \* something was removed while the command of now was running

cleanVars == <<vars, clean, cleans, disturbed>>

\* What the environment can leave behind, in the order clean removes it.
Resources == {"worktree", "containers"}

NotCleaning == [pc |-> "idle", tracked |-> {}, found |-> {}, ok |-> TRUE, quiet |-> TRUE]

CleanRecords ==
    [pc      : {"idle", "scan", "remove"},
     tracked : SUBSET Resources,    \* what a record named
     found   : SUBSET Resources,    \* what is still to be removed
     ok      : BOOLEAN,     \* every call it made has succeeded
     quiet   : BOOLEAN]     \* no command has run since it began

CleanTypeOK ==
    /\ TypeOK
    /\ clean \in CleanRecords
    /\ cleans \in Nat /\ disturbed \in BOOLEAN

CleanInit == Init /\ clean = NotCleaning /\ cleans = 0 /\ disturbed = FALSE

-----------------------------------------------------------------------------
\* Only the worktrees of environments that run.
FaultyTracked(e) ==
    {r \in Resources : IF r = "worktree" THEN e.compute = Worktree /\ e.status = "running"
                                         ELSE e.status # "absent"}

\* The record's compute path, and the project name made of its name.
Tracked(e) ==
    {r \in Resources : IF r = "worktree" THEN e.compute = Worktree
                                         ELSE e.status # "absent"}

\* A directory under the worktree base; a project "docker compose ls" shows.
Present == {r \in Resources : IF r = "worktree" THEN Up(Worktree)
                                                ELSE ProjectRuns(Worktree)}

\* A state file that does not load is passed over: it names nothing then.
ReadRecords ==
    /\ clean.pc = "idle" /\ cleans < MaxCleans /\ cleans' = cleans + 1
    /\ \/ clean' = [NotCleaning EXCEPT !.pc = "scan", !.tracked = Tracked(entry),
                                       !.quiet = (cmd = "none")]
          /\ UNCHANGED faults
       \/ clean' = [NotCleaning EXCEPT !.pc = "scan", !.ok = FALSE,
                                       !.quiet = (cmd = "none")]
          /\ Fault
    /\ UNCHANGED <<entry, invocation, world, launches, losses, disturbed>>

\* The list the user is shown.  A directory that cannot be read, or a docker that
\* does not answer, is passed over: what it would have shown is not listed.
ListOrphans ==
    /\ clean.pc = "scan"
    /\ \E seen \in SUBSET Present :
          /\ clean' = [clean EXCEPT !.pc = "remove", !.found = seen \ clean.tracked,
                                    !.tracked = {}, !.ok = @ /\ seen = Present]
          /\ IF seen = Present THEN UNCHANGED faults ELSE Fault
    /\ UNCHANGED <<entry, invocation, world, launches, losses, cleans, disturbed>>

\* Stops the infrastructure only, like a delete.
FaultyRemove(r) ==
    IF r = "worktree"
    THEN box' = [box EXCEPT ![Worktree] = Blank("unused", 1)] /\ UNCHANGED docker
    ELSE docker' = [docker EXCEPT ![Worktree].infra = FALSE] /\ UNCHANGED box

\* git worktree remove --force; docker compose down of the whole project.
Remove(r) ==
    IF r = "worktree"
    THEN box' = [box EXCEPT ![Worktree] = Blank("unused", 1)] /\ UNCHANGED docker
    ELSE docker' = [docker EXCEPT ![Worktree] = NoContainers] /\ UNCHANGED box

\* On to the next orphan, or done.
Removed(r, ok) ==
    LET left == clean.found \ {r}
    IN  clean' = IF left = {} THEN NotCleaning
                 ELSE [clean EXCEPT !.found = left, !.ok = ok]

\* The user has agreed.  An error of git or docker is printed, no more.
RemoveOrphan(r) ==
    /\ clean.pc = "remove" /\ r \in clean.found
    /\ r = "containers" => "worktree" \notin clean.found
    /\ \/ Remove(r) /\ Removed(r, clean.ok) /\ UNCHANGED faults
       \/ Fault /\ Removed(r, FALSE) /\ UNCHANGED <<box, docker>>
    /\ disturbed' = (disturbed \/ cmd # "none")
    /\ UNCHANGED <<entry, invocation, origin, seeded, launches, losses, cleans>>

\* Nothing is found, it is a dry run, the user says no, or it is killed.
CleanEnds ==
    /\ clean.pc = "remove" /\ clean' = NotCleaning
    /\ UNCHANGED <<vars, cleans, disturbed>>

Cleaning == ReadRecords \/ ListOrphans \/ (\E r \in Resources : RemoveOrphan(r)) \/ CleanEnds

\* A step of a command, or of the world, while clean is under way or not.
Meanwhile ==
    /\ clean' = IF clean.pc = "idle" THEN clean
                ELSE [clean EXCEPT !.quiet = clean.quiet /\ cmd = "none" /\ cmd' = "none"
                                                /\ launches' = launches]
    /\ disturbed' = (disturbed /\ cmd' # "none")
    /\ UNCHANGED cleans

CleanNext == (Next /\ Meanwhile) \/ Cleaning

CleanSpec == CleanInit /\ [][CleanNext]_cleanVars

-----------------------------------------------------------------------------
\* A create or attach that clean did not disturb declares the environment
\* running only when its files are there, and its services run on those files in
\* that directory, whatever clean removed between the commands and whichever of the
\* two directories the commands before used.
UndisturbedIsComplete == disturbed \/ (RunningIsComplete /\ RunningFromFiles)

\* clean leaves the compute of an environment that has been provisioned alone,
\* whatever was attached, deleted or interrupted before, as long as it could
\* read the records and no command ran meanwhile.
CleanSpares ==
    [][/\ clean.pc = "remove" /\ clean'.found # clean.found
       /\ clean.ok /\ clean.quiet
       /\ entry.status \in {"provisioned", "running"}
       => /\ UNCHANGED docker
          /\ entry.compute \in Boxes => UNCHANGED box[entry.compute]]_cleanVars

\* When clean has removed all it listed, and nothing disturbed it, whatever
\* is left of the environment has a record that names it: neither a delete that
\* was killed, nor one of a record without compute, nor the containers that a
\* delete leaves running, stay behind for good.
CleanIsThorough ==
    [][/\ clean.pc = "remove" /\ clean'.pc = "idle"
       /\ clean.found # {} => <<box, docker>>' # <<box, docker>>
       /\ clean.ok /\ clean.quiet
       => (Present \subseteq Tracked(entry))']_cleanVars
=============================================================================
