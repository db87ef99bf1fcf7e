------------------------------ MODULE Services ------------------------------
(***************************************************************************)
(* The application services of one running remote environment: the set of  *)
(* enabled services in its record, the files generated on the VM, the      *)
(* containers docker made from these files, and the proxy in front of      *)
(* them; and the commands that change them: "service start", "stop" and    *)
(* "restart" (inbound/cli/service.go), "core reset" with its propagation   *)
(* and "sync" (domain/propagate.go), and "refresh".                        *)
(*                                                                         *)
(* Users run one command at a time.  Every service has a start command and *)
(* a port, and the proxy is configured.  A build that fails is a docker    *)
(* command that fails without effect.  A definition named Faulty... is a   *)
(* wrong version of the one that follows it; no specification uses it.     *)
(***************************************************************************)
EXTENDS Naturals, Sequences

CONSTANTS
    Services,
    NoService,
    Autostart,  \* runner.compose.autostart
    EnvReads,   \* services whose env refers to the outputs a reset changes
    StartReads, \* services whose start command refers to them
    PathOf,     \* the directory of a service; it holds the env file
    MaxCommands,    \* bound: commands users run
    MaxResets,      \* bound: times the reset hook has an effect
    MaxFaults       \* bound: failures and kills

ASSUME ServiceAssumption ==
    /\ NoService \notin Services
    /\ Autostart \cup EnvReads \cup StartReads \subseteq Services
    /\ DOMAIN PathOf = Services
ASSUME BoundAssumption == {MaxCommands, MaxResets, MaxFaults} \subseteq Nat

\* Outputs are told apart by the run of the reset hook that printed them.
Outputs == Nat

\* Of an EnvironmentEntry.
Records == [enabled : SUBSET Services, outputs : Outputs]

\* The outputs that .previewctl.json, the env files and the compose file were
\* made from, and the services nginx.conf has a proxy block for.
FileSets == [manifest : Outputs, env : Outputs, compose : Outputs,
             routes : SUBSET Services]

\* A container keeps the environment and the command it was created with.
Containers == [state : {"none", "up", "stopped"}, env : Outputs, start : Outputs]

GenerateSteps == {"generate_manifest", "generate_env", "generate_compose",
                  "generate_nginx"}

Commands == {"start", "stop", "restart", "reset", "reset --no-propagate",
             "sync", "refresh"}

Pcs == {"idle", "hook", "compose", "track", "load", "step", "checkpoint",
        "proxy", "update", "return"}

VARIABLES
    entry,      \* the record in the state store
    files,      \* on the VM
    containers, \* of the services, on the VM
    proxy,      \* the services the running nginx routes to
    printed,    \* the outputs the reset hook made last
    cmd, svc,   \* the command, and the service it is given
    pc,         \* what it does next
    copy,       \* its copy of the record
    mf,         \* the outputs in its manifest
    todo,       \* the steps it has yet to run
    warned,     \* it has reported that the proxy is not up to date
    unsettled,  \* services a command left, or has yet to bring, half way
    commands, faults    \* counters for the bounds

world == <<files, containers, proxy, printed>>
invocation == <<cmd, svc, pc, copy, mf, todo, warned>>
vars == <<entry, world, invocation, unsettled, commands, faults>>

TypeOK ==
    /\ entry \in Records
    /\ files \in FileSets
    /\ containers \in [Services -> Containers]
    /\ proxy \subseteq Services
    /\ printed \in Outputs
    /\ cmd \in Commands \cup {"none"} /\ svc \in Services \cup {NoService}
    /\ pc \in Pcs
    /\ copy \in Records /\ mf \in Outputs
    /\ todo \in Seq(GenerateSteps \cup {"start_services"})
    /\ warned \in BOOLEAN
    /\ unsettled \subseteq Services
    /\ commands \in Nat /\ faults \in Nat
    /\ pc \in {"step", "checkpoint"} => todo # <<>>
    /\ pc \in {"compose", "track", "proxy"} => svc # NoService

-----------------------------------------------------------------------------
\* enabledServices: an empty set counts as "never set".
EnabledOf(e) == IF e.enabled # {} THEN e.enabled ELSE Autostart

\* Routes to autostarted services that were stopped.
FaultyRoutesOf(e) == EnabledOf(e) \cup Autostart

\* GenerateNginxConfig proxies all when nothing is enabled.
RoutesOf(e) == IF EnabledOf(e) = {} THEN Services ELSE EnabledOf(e)

\* Ignores the services that share an env file with another one.
FaultyAffected == EnvReads \cup StartReads

\* servicesAffectedByChange: with those that share a directory.
Affected == {s \in Services : \E d \in EnvReads \cup StartReads : PathOf[s] = PathOf[d]}

NeedsCompose == StartReads # {}

\* docker compose up -d: what is not made from the present files is recreated.
UpD(S) == [s \in Services |->
             IF s \in S THEN [state |-> "up", env |-> files.env, start |-> files.compose]
                        ELSE containers[s]]

\* docker compose restart: existing containers start again as they are.
Restarted(S) == [s \in Services |->
                   IF s \in S /\ containers[s].state # "none"
                   THEN [containers[s] EXCEPT !.state = "up"] ELSE containers[s]]

Stopped(s) == [containers EXCEPT ![s].state = IF @ = "none" THEN @ ELSE "stopped"]

Up(s) == containers[s].state = "up"

\* The environment a successful create leaves.
Init ==
    /\ entry = [enabled |-> Autostart, outputs |-> 0]
    /\ files = [manifest |-> 0, env |-> 0, compose |-> 0, routes |-> RoutesOf(entry)]
    /\ containers = [s \in Services |->
                       [state |-> IF s \in Autostart THEN "up" ELSE "none",
                        env |-> 0, start |-> 0]]
    /\ proxy = files.routes
    /\ printed = 0
    /\ cmd = "none" /\ svc = NoService /\ pc = "idle"
    /\ copy = entry /\ mf = 0 /\ todo = <<>> /\ warned = FALSE
    /\ unsettled = {}
    /\ commands = 0 /\ faults = 0

-----------------------------------------------------------------------------
Goto(from, to) == pc = from /\ pc' = to

\* The command is over.
Ends ==
    /\ cmd' = "none" /\ svc' = NoService /\ pc' = "idle"
    /\ todo' = <<>> /\ warned' = FALSE

Steps(c) ==
    CASE c \in {"start", "stop"} -> <<"generate_nginx">>
      [] c = "reset" -> <<"generate_manifest", "generate_env">>
                          \o (IF NeedsCompose THEN <<"generate_compose">> ELSE <<>>)
      [] c = "sync" -> <<"generate_manifest", "generate_env", "generate_compose",
                         "generate_nginx">>
      [] OTHER -> <<"generate_manifest", "generate_env", "generate_compose",
                    "generate_nginx", "start_services">>

\* Of "refresh --from" and "--only": a suffix of the steps, or one of them.
Chosen(c) ==
    IF c # "refresh" THEN {Steps(c)}
    ELSE LET all == Steps(c)
         IN  {SubSeq(all, i, Len(all)) : i \in 1..Len(all)}
               \cup {<<all[i]>> : i \in 1..Len(all)}

FirstPc(c) == CASE c \in {"start", "stop", "restart"} -> "compose"
                [] c \in {"reset", "reset --no-propagate"} -> "hook"
                [] OTHER -> "load"

\* A command reads the record.  Starting what is enabled, or stopping what is
\* not, ends there.
Begin(c, s) ==
    /\ pc = "idle" /\ commands < MaxCommands
    /\ commands' = commands + 1
    /\ s = NoService <=> c \notin {"start", "stop", "restart"}
    /\ c = "start" => s \notin entry.enabled
    /\ c = "stop" => s \in entry.enabled
    /\ cmd' = c /\ svc' = s /\ pc' = FirstPc(c)
    /\ copy' = entry
    /\ todo' \in Chosen(c)
    /\ UNCHANGED <<entry, world, mf, warned, unsettled, faults>>

\* The docker command of start, stop and restart, and what it leaves behind.
Compose ==
    /\ containers' = CASE cmd = "start"   -> UpD({svc})
                       [] cmd = "stop"    -> Stopped(svc)
                       [] cmd = "restart" -> Restarted({svc})
    /\ unsettled' = IF cmd = "restart" /\ containers' = containers
                    THEN unsettled ELSE unsettled \cup {svc}

ServiceCommand ==
    /\ Goto("compose", IF cmd = "restart" THEN "return" ELSE "track")
    /\ Compose
    /\ UNCHANGED <<entry, files, proxy, printed, cmd, svc, copy, mf, todo, warned,
                   commands, faults>>

\* trackServiceEnabled and trackServiceDisabled read the record again.
Track ==
    /\ Goto("track", "load")
    /\ entry' = [entry EXCEPT !.enabled = IF cmd = "start" THEN @ \cup {svc} ELSE @ \ {svc}]
    /\ unsettled' = unsettled \ {svc}
    /\ UNCHANGED <<world, cmd, svc, copy, mf, todo, warned, commands, faults>>

\* CoreReset: the hook, and its outputs in the record as it was before.
Reset ==
    /\ Goto("hook", IF cmd = "reset" THEN "load" ELSE "return")
    /\ printed < MaxResets
    /\ printed' = printed + 1
    /\ entry' = [copy EXCEPT !.outputs = printed']
    /\ UNCHANGED <<files, containers, proxy, cmd, svc, copy, mf, todo, warned,
                   unsettled, commands, faults>>

\* Goes on with the record the command has read at first.
FaultyLoad ==
    /\ Goto("load", "step")
    /\ mf' = files.manifest
    /\ UNCHANGED <<entry, world, cmd, svc, copy, todo, warned, unsettled, commands, faults>>

\* RunStep and RunSteps read the record, and the manifest on the VM.
Load ==
    /\ Goto("load", "step")
    /\ copy' = entry
    /\ mf' = files.manifest
    /\ UNCHANGED <<entry, world, cmd, svc, todo, warned, unsettled, commands, faults>>

\* One step of RunSteps; of refresh, those that are about services.  The step
\* does not put its result into the registry.
FaultyGenerateManifest ==
    /\ Head(todo) = "generate_manifest"
    /\ files' = [files EXCEPT !.manifest = copy.outputs]
    /\ UNCHANGED <<containers, copy, mf, unsettled>>

GenerateManifest ==
    /\ Head(todo) = "generate_manifest"
    /\ mf' = copy.outputs
    /\ files' = [files EXCEPT !.manifest = copy.outputs]
    /\ UNCHANGED <<containers, copy, unsettled>>

GenerateEnv ==
    /\ Head(todo) = "generate_env"
    /\ files' = [files EXCEPT !.env = mf]
    /\ UNCHANGED <<containers, copy, mf, unsettled>>

GenerateCompose ==
    /\ Head(todo) = "generate_compose"
    /\ files' = [files EXCEPT !.compose = mf]
    /\ UNCHANGED <<containers, copy, mf, unsettled>>

GenerateNginx ==
    /\ Head(todo) = "generate_nginx"
    /\ files' = [files EXCEPT !.routes = RoutesOf(copy)]
    /\ UNCHANGED <<containers, copy, mf, unsettled>>

\* start_services enables what is enabled only by default, in the copy.
StepSeeds ==
    IF Head(todo) = "start_services" /\ copy.enabled = {}
    THEN /\ copy' = [copy EXCEPT !.enabled = Autostart]
         /\ unsettled' = unsettled \cup Autostart
    ELSE UNCHANGED <<copy, unsettled>>

\* nginx is running already.
StartServices ==
    /\ Head(todo) = "start_services"
    /\ StepSeeds
    /\ containers' = UpD(copy'.enabled)
    /\ UNCHANGED <<files, mf>>

StepFn ==
    \/ GenerateManifest \/ GenerateEnv \/ GenerateCompose \/ GenerateNginx
    \/ StartServices

RunStep ==
    /\ Goto("step", "checkpoint")
    /\ StepFn
    /\ UNCHANGED <<entry, proxy, printed, cmd, svc, todo, warned, commands, faults>>

\* Restarts the proxy after a reset, instead of the services.
FaultyAfterSteps == IF cmd \in {"start", "stop", "reset"} THEN "proxy"
                    ELSE IF cmd = "sync" THEN "update" ELSE "return"

AfterSteps == CASE cmd \in {"start", "stop"} -> "proxy"
                [] cmd \in {"reset", "sync"} -> "update"
                [] OTHER -> "return"

\* The whole copy is written back.
Checkpoint ==
    /\ Goto("checkpoint", IF Tail(todo) = <<>> THEN AfterSteps ELSE "step")
    /\ entry' = copy
    /\ todo' = Tail(todo)
    /\ unsettled' = IF Head(todo) = "start_services" /\ entry.enabled = {}
                    THEN unsettled \ Autostart ELSE unsettled
    /\ UNCHANGED <<world, cmd, svc, copy, mf, warned, commands, faults>>

\* The end of refreshNginxProxy.
RestartProxy ==
    /\ Goto("proxy", "return")
    /\ proxy' = files.routes
    /\ UNCHANGED <<entry, files, containers, printed, cmd, svc, copy, mf, todo, warned,
                   unsettled, commands, faults>>

\* Boots what the user has stopped.
FaultyUpdated == IF cmd = "sync" THEN UpD(copy.enabled) ELSE UpD(Affected)

\* The last docker command of propagateProvisionerChange and SyncRemote.
Updated ==
    CASE cmd = "sync" -> UpD(copy.enabled)
      [] cmd = "reset" /\ NeedsCompose -> UpD(copy.enabled \cap Affected)
      [] OTHER -> Restarted(copy.enabled \cap Affected)

Update ==
    /\ Goto("update", "return")
    /\ containers' = Updated
    /\ UNCHANGED <<entry, files, proxy, printed, cmd, svc, copy, mf, todo, warned,
                   unsettled, commands, faults>>

\* The command reports success.
Return ==
    /\ pc = "return"
    /\ Ends
    /\ UNCHANGED <<entry, world, copy, mf, unsettled, commands, faults>>

-----------------------------------------------------------------------------
Fault == faults < MaxFaults /\ faults' = faults + 1

\* A docker command fails, before or after it had an effect.
ComposeFails ==
    /\ Fault
    /\ \/ /\ pc = "compose"
          /\ Compose \/ UNCHANGED <<containers, unsettled>>
       \/ /\ pc = "update"
          /\ containers' \in {containers, Updated}
          /\ UNCHANGED unsettled
    /\ Ends
    /\ UNCHANGED <<entry, files, proxy, printed, copy, mf, commands>>

\* A record that cannot be read is not tracked, and no error; one that cannot
\* be written is an error.
TrackFails ==
    /\ Fault
    /\ \/ Goto("track", "load") /\ UNCHANGED <<cmd, svc, todo, warned>>
       \/ pc = "track" /\ Ends
    /\ UNCHANGED <<entry, world, copy, mf, unsettled, commands>>

\* The reset hook fails, but may have made new outputs.
ResetFails ==
    /\ pc = "hook" /\ Fault
    /\ printed' \in {printed, printed + 1} /\ printed' <= MaxResets
    /\ Ends
    /\ UNCHANGED <<entry, files, containers, proxy, copy, mf, unsettled, commands>>

\* An error in refreshNginxProxy is a warning; elsewhere it ends the command.
Abandons ==
    IF cmd \in {"start", "stop"}
    THEN /\ pc' = "return" /\ warned' = TRUE /\ todo' = <<>>
         /\ UNCHANGED <<cmd, svc>>
    ELSE Ends

\* Reading the record or the manifest, writing the checkpoint, or restarting
\* nginx fails.
StepsFail ==
    /\ pc \in {"load", "checkpoint", "proxy"} /\ Fault
    /\ Abandons
    /\ UNCHANGED <<entry, world, copy, mf, unsettled, commands>>

\* A step fails, before or after it had an effect on the VM: the failure is
\* recorded, with the rest of the copy.
StepFails ==
    /\ pc = "step" /\ Fault
    /\ \/ StepFn
       \/ StepSeeds /\ UNCHANGED <<files, containers, mf>>
    /\ entry' = copy'
    /\ Abandons
    /\ UNCHANGED <<proxy, printed, commands>>

Kill ==
    /\ pc # "idle" /\ Fault
    /\ Ends
    /\ UNCHANGED <<entry, world, copy, mf, unsettled, commands>>

Next ==
    \/ \E c \in Commands, s \in Services \cup {NoService} : Begin(c, s)
    \/ ServiceCommand \/ Track \/ Reset \/ Load \/ RunStep \/ Checkpoint
    \/ RestartProxy \/ Update \/ Return
    \/ ComposeFails \/ TrackFails \/ ResetFails \/ StepsFail \/ StepFails \/ Kill

Spec == Init /\ [][Next]_vars

-----------------------------------------------------------------------------
\* What is enabled runs, and what runs is enabled, except for services a start,
\* a stop or a first start_services is working on or has left half way, and
\* those "service restart" was used on: no command disturbs another service,
\* although each writes back a whole record.
Settled == \A s \in Services \ unsettled : s \in entry.enabled <=> Up(s)

\* A start or stop that ends without a warning leaves a proxy that routes to
\* the enabled services and to no other, even when an earlier command left nginx
\* or its configuration out of date.  Once the last enabled service is stopped, the
\* empty set counts as "never set": the proxy routes to the autostarted services
\* then, or to all when there are none, also if that is the service just stopped.
ProxyMatches ==
    pc = "return" /\ cmd \in {"start", "stop"} /\ ~warned =>
        proxy = CASE entry.enabled # {} -> entry.enabled
                  [] entry.enabled = {} /\ Autostart # {} -> Autostart
                  [] OTHER -> Services

\* The environment and command of a container are made from outputs o.
Observes(s, o) ==
    /\ (\E d \in EnvReads : PathOf[d] = PathOf[s]) => containers[s].env = o
    /\ s \in StartReads => containers[s].start = o

\* After a sync every enabled service runs, and with the outputs of the record,
\* whatever an earlier command left undone.
SyncObserved ==
    pc = "return" /\ cmd = "sync" =>
        \A s \in entry.enabled : Up(s) /\ Observes(s, entry.outputs)

\* After a reset that propagates, the enabled services that use the outputs run,
\* and they and those that share an env file with one have what the hook printed.
ResetObserved ==
    pc = "return" /\ cmd = "reset" =>
        \A s \in entry.enabled :
            Observes(s, printed) /\ (s \in EnvReads \cup StartReads => Up(s))

\* Only "service start" and "service restart", for the service they name, and
\* the default of a refresh start what is not enabled.
NothingBooted ==
    [][\A s \in Services : ~Up(s) /\ Up(s)' =>
          \/ s \in entry.enabled
          \/ s = svc /\ cmd \in {"start", "restart"}
          \/ cmd = "refresh" /\ entry.enabled = {}]_vars
=============================================================================
