----------------------------- MODULE StoreValues -----------------------------
(***************************************************************************)
(* The values hooks and users keep in the record of an environment, and    *)
(* the processes that write that record.  Every process reads the whole    *)
(* record, changes its copy, and writes the whole copy back: the step      *)
(* engine after every step (domain/manager.go, step), "core" commands      *)
(* after their hook (RunCoreHook, CoreReset), "store set" at once          *)
(* (inbound/cli/store.go).  A hook may itself run "store set", as a child  *)
(* process its command waits for, or print GLOBAL_ lines.                  *)
(*                                                                         *)
(* The store is the atomic map of StatePort.  Lifecycle models the engine  *)
(* itself; here a create is hooks, checkpoints and the save at its end.    *)
(* A definition named Faulty... is a wrong version of the one that follows *)
(* it; no specification uses it.                                           *)
(***************************************************************************)
EXTENDS Naturals

CONSTANTS
    Processes,
    NoProcess,
    NoRecord,   \* "not found"
    Steps,      \* hooks of create's checkpointed steps on this machine
    CoreHooks,  \* hooks of "core" commands
    NoHook,
    SetKeys,    \* keys of values given to "store set"
    GlobalKeys, \* keys of values printed as GLOBAL_
    Setting,    \* the hooks that run "store set"
    Printing,   \* the hooks that print GLOBAL_ lines
    Failing,    \* the hooks that may fail
    Alone,      \* users run one command at a time
    MaxValue,   \* bound: values given to one key
    MaxLaunches,    \* bound: commands users run
    MaxKills        \* bound: processes killed

Commands == {"create", "core", "set", "delete"}

ASSUME KeyAssumption == SetKeys \cap GlobalKeys = {}
ASSUME HookAssumption ==
    /\ Steps \cap CoreHooks = {} /\ NoHook \notin Steps \cup CoreHooks
    /\ Setting \cup Printing \cup Failing \subseteq Steps \cup CoreHooks
    /\ Alone \in BOOLEAN
ASSUME SentinelAssumption == NoProcess \notin Processes
ASSUME BoundAssumption == {MaxValue, MaxLaunches, MaxKills} \subseteq Nat

Keys == SetKeys \cup GlobalKeys

\* Value n of a key is the n-th it was given; 0 is "not set".
Values == [Keys -> Nat]

Unset == [k \in Keys |-> 0]

\* Of an EnvironmentEntry: Env, and the names of the completed steps.
Records == [env : Values, steps : SUBSET Steps]

ASSUME RecordAssumption == NoRecord \notin Records

NewRecord == [env |-> Unset, steps |-> {}]

VARIABLES
    stored,     \* the record in the state store
    command,    \* what each process runs, "none" when it does not exist
    pc,         \* what it does next
    parent,     \* the command whose hook started it
    copy,       \* its copy of the record
    hook,       \* the hook it runs, or ran last
    printed,    \* the GLOBAL_ values its hook printed, 0 for none
    given,      \* the number of values every key was given
    told,       \* the value of every key that is known to be in the store
    launches, kills     \* counters for the bounds

process == <<command, pc, parent, copy, hook, printed>>
values == <<given, told>>
budget == <<launches, kills>>
vars == <<stored, process, values, budget>>

Pcs == {"end", "init", "next", "hook", "reload", "checkpoint", "write", "remove"}

TypeOK ==
    /\ stored \in Records \cup {NoRecord}
    /\ command \in [Processes -> Commands \cup {"none"}]
    /\ pc \in [Processes -> Pcs]
    /\ parent \in [Processes -> Processes \cup {NoProcess}]
    /\ copy \in [Processes -> Records]
    /\ hook \in [Processes -> Steps \cup CoreHooks \cup {NoHook}]
    /\ printed \in [Processes -> Values]
    /\ given \in Values /\ told \in Values
    /\ launches \in Nat /\ kills \in Nat
    /\ \A p \in Processes : pc[p] = "end" <=> command[p] = "none"
    \* A "store set" lives no longer than the hook that runs it.
    /\ \A p \in Processes :
          pc[p] # "end" /\ parent[p] # NoProcess => pc[parent[p]] = "hook"

Init ==
    /\ stored = NoRecord
    /\ command = [p \in Processes |-> "none"]
    /\ pc = [p \in Processes |-> "end"]
    /\ parent = [p \in Processes |-> NoProcess]
    /\ copy = [p \in Processes |-> NewRecord]
    /\ hook = [p \in Processes |-> NoHook]
    /\ printed = [p \in Processes |-> Unset]
    /\ given = Unset /\ told = Unset
    /\ launches = 0 /\ kills = 0

-----------------------------------------------------------------------------
Goto(p, from, to) == pc[p] = from /\ pc' = [pc EXCEPT ![p] = to]

Live(p) == command[p] # "none"

Children(p) == {c \in Processes : Live(c) /\ parent[c] = p}

\* Processes P are no more.
End(P) ==
    /\ command' = [p \in Processes |-> IF p \in P THEN "none" ELSE command[p]]
    /\ pc' = [p \in Processes |-> IF p \in P THEN "end" ELSE pc[p]]
    /\ UNCHANGED <<parent, copy, hook, printed>>

Override(env, over) == [k \in Keys |-> IF over[k] # 0 THEN over[k] ELSE env[k]]

\* What the keys have been given when each key in K is given one more value.
Given(K) == [k \in Keys |-> IF k \in K THEN given[k] + 1 ELSE given[k]]

MayGive(K) == \A k \in K : given[k] < MaxValue

New(K) == [k \in Keys |-> IF k \in K THEN given[k] + 1 ELSE 0]

\* Process p starts command c, which reads the record first.  What is not
\* found is made by create, and is an error to the others.
Start(p, c, by, at) ==
    /\ ~Live(p)
    /\ c = "create" \/ stored # NoRecord
    /\ command' = [command EXCEPT ![p] = c]
    /\ parent' = [parent EXCEPT ![p] = by]
    /\ pc' = [pc EXCEPT ![p] = at]
    /\ copy' = [copy EXCEPT ![p] = IF stored = NoRecord THEN NewRecord ELSE stored]
    /\ printed' = [printed EXCEPT ![p] = Unset]
    /\ UNCHANGED <<stored, values, kills>>

Launch(p) ==
    /\ launches < MaxLaunches /\ launches' = launches + 1
    /\ Alone => \A q \in Processes : ~Live(q)
    /\ \/ /\ Start(p, "create", NoProcess, IF stored = NoRecord THEN "init" ELSE "next")
          /\ UNCHANGED hook
       \/ /\ Start(p, "core", NoProcess, "hook")
          /\ \E h \in CoreHooks : hook' = [hook EXCEPT ![p] = h]
       \/ Start(p, "set", NoProcess, "write") /\ UNCHANGED hook
       \/ Start(p, "delete", NoProcess, "remove") /\ UNCHANGED hook

-----------------------------------------------------------------------------
\* "store set": read, change one key, write.
StoreSet(p) ==
    /\ pc[p] = "write"
    /\ \E k \in SetKeys :
          /\ MayGive({k})
          /\ given' = Given({k})
          /\ told' = Override(told, New({k}))
          /\ stored' = [copy[p] EXCEPT !.env = Override(@, New({k}))]
    /\ End({p})
    /\ UNCHANGED budget

\* runProvisioner stores the record it did not find.
InitRecord(p) ==
    /\ Goto(p, "init", "next")
    /\ stored' = copy[p]
    /\ UNCHANGED <<command, parent, copy, hook, printed, values, budget>>

\* Completed steps are skipped; another one runs its hook.
RunHook(p) ==
    /\ Goto(p, "next", "hook")
    /\ \E s \in Steps \ copy[p].steps : hook' = [hook EXCEPT ![p] = s]
    /\ UNCHANGED <<stored, command, parent, copy, printed, values, budget>>

\* The hook runs "store set" and waits for it.
HookSets(p, c) ==
    /\ pc[p] = "hook" /\ hook[p] \in Setting
    /\ Children(p) = {}
    /\ Start(c, "set", p, "write")
    /\ UNCHANGED <<hook, launches>>

\* The hook leaves its child behind.
FaultyHookEnds(p) == pc[p] = "hook"

\* cmd.Run returns when the hook is done.
HookEnds(p) == pc[p] = "hook" /\ Children(p) = {}

\* The lines the hook may have printed.
Prints(p, K) ==
    /\ K \subseteq GlobalKeys
    /\ hook[p] \notin Printing => K = {}
    /\ MayGive(K)

\* The values printed go into the copy; the step is done, but not recorded.
StepReturns(p) ==
    /\ HookEnds(p) /\ command[p] = "create"
    /\ \E K \in SUBSET GlobalKeys :
          /\ Prints(p, K)
          /\ given' = Given(K)
          /\ printed' = [printed EXCEPT ![p] = New(K)]
          /\ copy' = [copy EXCEPT ![p].env = Override(@, New(K)),
                                  ![p].steps = @ \cup {hook[p]}]
    /\ pc' = [pc EXCEPT ![p] = "reload"]
    /\ UNCHANGED <<stored, command, parent, hook, told, budget>>

\* The values in the store replace those of the copy, if there are any.
FaultyReload(p) ==
    /\ Goto(p, "reload", "checkpoint")
    /\ UNCHANGED <<stored, command, parent, copy, hook, printed, values, budget>>

Reload(p) ==
    /\ Goto(p, "reload", "checkpoint")
    /\ copy' = IF stored # NoRecord /\ stored.env # Unset
               THEN [copy EXCEPT ![p].env = stored.env]
               ELSE copy
    /\ UNCHANGED <<stored, command, parent, hook, printed, values, budget>>

\* The step is reported as done, with what its hook printed.
Checkpoint(p) ==
    /\ Goto(p, "checkpoint", "next")
    /\ stored' = copy[p]
    /\ told' = Override(told, printed[p])
    /\ UNCHANGED <<command, parent, copy, hook, printed, given, budget>>

\* A failed step is recorded too, and ends the command.
StepFails(p) ==
    /\ HookEnds(p) /\ command[p] = "create" /\ hook[p] \in Failing
    /\ stored' = copy[p]
    /\ End({p})
    /\ UNCHANGED <<values, budget>>

\* saveProvisionedState, when no step is left.
SaveProvisioned(p) ==
    /\ pc[p] = "next" /\ copy[p].steps = Steps
    /\ stored' = copy[p]
    /\ End({p})
    /\ UNCHANGED <<values, budget>>

\* RunCoreHook writes the record when the hook printed GLOBAL_ lines, CoreReset
\* always; neither reads it again.
CoreReturns(p) ==
    /\ HookEnds(p) /\ command[p] = "core"
    /\ \E K \in SUBSET GlobalKeys, reset \in BOOLEAN :
          /\ Prints(p, K)
          /\ given' = Given(K)
          /\ told' = Override(told, New(K))
          /\ stored' = IF reset \/ K # {}
                       THEN [copy[p] EXCEPT !.env = Override(@, New(K))]
                       ELSE stored
    /\ End({p})
    /\ UNCHANGED budget

CoreFails(p) ==
    /\ HookEnds(p) /\ command[p] = "core" /\ hook[p] \in Failing
    /\ End({p})
    /\ UNCHANGED <<stored, values, budget>>

\* The end of a delete.  The values were those of this environment.
Remove(p) ==
    /\ pc[p] = "remove"
    /\ stored' = NoRecord
    /\ told' = Unset
    /\ End({p})
    /\ UNCHANGED <<given, budget>>

\* A command is killed, and with it the hook and what the hook started.
Kill(p) ==
    /\ Live(p) /\ parent[p] = NoProcess
    /\ kills < MaxKills /\ kills' = kills + 1
    /\ End({p} \cup Children(p))
    /\ UNCHANGED <<stored, values, launches>>

Next ==
    \E p \in Processes :
        \/ Launch(p) \/ InitRecord(p) \/ RunHook(p)
        \/ \E c \in Processes : HookSets(p, c)
        \/ StepReturns(p) \/ Reload(p) \/ Checkpoint(p) \/ StepFails(p)
        \/ SaveProvisioned(p)
        \/ CoreReturns(p) \/ CoreFails(p)
        \/ StoreSet(p) \/ Remove(p) \/ Kill(p)

Spec == Init /\ [][Next]_vars

-----------------------------------------------------------------------------
\* What "store set" acknowledged, and what a completed hook printed as GLOBAL_,
\* is in the store for the hooks that come later, until the environment is
\* deleted.
StoreKeeps == stored # NoRecord => \A k \in Keys : stored.env[k] >= told[k]

\* A completed step is never forgotten: no process writes back a record older
\* than the last checkpoint.
CheckpointsKept ==
    [][stored # NoRecord /\ stored' # NoRecord => stored.steps \subseteq stored'.steps]_vars
=============================================================================
