--------------------------- MODULE ServicesProofs ---------------------------
(***************************************************************************)
(* Theorems about Services, for every set of services, every configuration *)
(* of what reads what, and every bound.                                    *)
(***************************************************************************)
EXTENDS Services, SequenceTheorems, TLAPS

\* What a command can have left to do.  Of refresh any of the steps, in order.
Queues(c) ==
    CASE c \in {"start", "stop"} -> {<<"generate_nginx">>}
      [] c = "reset" ->
           IF NeedsCompose
           THEN {<<"generate_manifest", "generate_env", "generate_compose">>,
                 <<"generate_env", "generate_compose">>, <<"generate_compose">>}
           ELSE {<<"generate_manifest", "generate_env">>, <<"generate_env">>}
      [] c = "sync" ->
           {<<"generate_manifest", "generate_env", "generate_compose", "generate_nginx">>,
            <<"generate_env", "generate_compose", "generate_nginx">>,
            <<"generate_compose", "generate_nginx">>, <<"generate_nginx">>}
      [] OTHER -> Seq(GenerateSteps \cup {"start_services"}) \ {<<>>}

\* Where a command can be.  Propagation and sync begin with the manifest.
CommandInv ==
    /\ pc = "compose" => cmd \in {"start", "stop", "restart"}
    /\ pc \in {"track", "proxy"} => cmd \in {"start", "stop"}
    /\ pc = "hook" => cmd \in {"reset", "reset --no-propagate"}
    /\ pc \in {"load", "step", "checkpoint"} =>
          cmd \in {"start", "stop", "reset", "sync", "refresh"}
    /\ pc = "update" => cmd \in {"reset", "sync"}
    /\ cmd \in {"start", "stop", "restart"} => svc \in Services
    /\ pc \in {"compose", "track", "hook", "load", "step", "checkpoint"} => todo \in Queues(cmd)
    /\ pc \in {"hook", "load"} /\ cmd \in {"reset", "sync"} => Head(todo) = "generate_manifest"

\* The step start_services has enabled what is enabled by default.
Seeded == Head(todo) = "start_services" /\ entry.enabled = {}

\* A command's copy of the record is what is stored, or what its next
\* checkpoint will store; of what it starts or stops docker has done its part.
CopyInv ==
    /\ pc \in {"hook", "step", "update"} => copy = entry
    /\ pc = "checkpoint" =>
          IF Seeded THEN /\ copy = [entry EXCEPT !.enabled = Autostart]
                         /\ \A s \in Autostart : Up(s)
          ELSE copy = entry
    /\ pc = "track" => (Up(svc) <=> cmd = "start")

\* What the steps of a propagation or a sync have brought up to date so far.
ProgressInv ==
    cmd \in {"reset", "sync"} =>
        /\ pc = "step" =>
              /\ Head(todo) # "generate_manifest" => mf = entry.outputs
              /\ Head(todo) \in {"generate_compose", "generate_nginx"} =>
                    files.env = entry.outputs
              /\ Head(todo) = "generate_nginx" => files.compose = entry.outputs
        /\ pc = "checkpoint" =>
              /\ mf = entry.outputs
              /\ Head(todo) # "generate_manifest" => files.env = entry.outputs
              /\ Head(todo) \in {"generate_compose", "generate_nginx"} =>
                    files.compose = entry.outputs
        /\ pc = "update" =>
              /\ files.env = entry.outputs
              /\ cmd = "sync" \/ NeedsCompose => files.compose = entry.outputs

\* From the hook on, the record holds what it printed.
PrintedInv ==
    cmd = "reset" /\ pc \notin {"idle", "hook"} => entry.outputs = printed

\* nginx.conf, and then the proxy, follow the record a start or stop left.
RoutesInv ==
    cmd \in {"start", "stop"} =>
        /\ pc \in {"checkpoint", "proxy"} => files.routes = RoutesOf(entry)
        /\ pc = "return" /\ ~warned => proxy = RoutesOf(entry)

TypeInv == TypeOK /\ CommandInv

Safe == CopyInv /\ ProgressInv /\ PrintedInv /\ RoutesInv /\ Settled

Inv == TypeInv /\ Safe

-----------------------------------------------------------------------------
(***************************************************************************)
(* The steps of a command.                                                 *)
(***************************************************************************)
AllSteps == GenerateSteps \cup {"start_services"}

LEMMA Tuples ==
  /\ \A w \in AllSteps : <<w>> \in Seq(AllSteps) /\ <<w>> # <<>> /\ Tail(<<w>>) = <<>>
  /\ \A w, x \in AllSteps :
        <<w, x>> \in Seq(AllSteps) /\ <<w, x>> # <<>> /\ Tail(<<w, x>>) = <<x>>
  /\ \A w, x, y \in AllSteps :
        <<w, x, y>> \in Seq(AllSteps) /\ <<w, x, y>> # <<>> /\ Tail(<<w, x, y>>) = <<x, y>>
  /\ \A w, x, y, z \in AllSteps :
        /\ <<w, x, y, z>> \in Seq(AllSteps) /\ <<w, x, y, z>> # <<>>
        /\ Tail(<<w, x, y, z>>) = <<x, y, z>>
  OBVIOUS

LEMMA StepNames ==
  {"generate_manifest", "generate_env", "generate_compose", "generate_nginx",
   "start_services"} = AllSteps
  BY DEF AllSteps, GenerateSteps

LEMMA StepsType ==
  ASSUME NEW c \in Commands
  PROVE  Steps(c) \in Seq(AllSteps) /\ Steps(c) # <<>>
<1>1. CASE c \in {"start", "stop"}
  BY <1>1 DEF Steps, AllSteps, GenerateSteps
<1>2. CASE c = "reset"
  <2>1. Steps(c) = <<"generate_manifest", "generate_env">>
                      \o (IF NeedsCompose THEN <<"generate_compose">> ELSE <<>>)
    BY <1>2 DEF Steps
  <2> QED BY <2>1 DEF AllSteps, GenerateSteps
<1>3. CASE c = "sync"
  BY <1>3 DEF Steps, AllSteps, GenerateSteps
<1>4. CASE c \notin {"start", "stop", "reset", "sync"}
  <2>1. Steps(c) = <<"generate_manifest", "generate_env", "generate_compose",
                     "generate_nginx", "start_services">>
    BY <1>4 DEF Steps
  <2> QED BY <2>1 DEF AllSteps, GenerateSteps
<1> QED BY <1>1, <1>2, <1>3, <1>4

\* The queues of one command are the tails of one another; where they end.
LEMMA QueuesType ==
  ASSUME NEW c \in Commands, NEW q \in Queues(c)
  PROVE  /\ q \in Seq(AllSteps) /\ q # <<>>
         /\ Tail(q) # <<>> => Tail(q) \in Queues(c)
         /\ c \in {"start", "stop"} => Head(q) = "generate_nginx"
         /\ c \in {"reset", "sync"} =>
              /\ Head(q) \in GenerateSteps
              /\ Tail(q) # <<>> =>
                   /\ Head(Tail(q)) # "generate_manifest"
                   /\ Head(q) = "generate_manifest" => Head(Tail(q)) = "generate_env"
                   /\ Head(q) = "generate_env" => Head(Tail(q)) = "generate_compose"
              /\ Tail(q) = <<>> =>
                   Head(q) = CASE c = "sync" -> "generate_nginx"
                               [] c = "reset" -> IF NeedsCompose THEN "generate_compose"
                                                                 ELSE "generate_env"
<1> DEFINE n    == <<"generate_nginx">>
           c1   == <<"generate_compose">>
           e1   == <<"generate_env">>
           ec   == <<"generate_env", "generate_compose">>
           cn   == <<"generate_compose", "generate_nginx">>
           me   == <<"generate_manifest", "generate_env">>
           mec  == <<"generate_manifest", "generate_env", "generate_compose">>
           ecn  == <<"generate_env", "generate_compose", "generate_nginx">>
           mecn == <<"generate_manifest", "generate_env", "generate_compose", "generate_nginx">>
<1>1. {n, c1, e1, ec, cn, me, mec, ecn, mecn} \subseteq Seq(AllSteps) \ {<<>>}
  BY StepNames, Tuples
<1>2. /\ Tail(n) = <<>> /\ Tail(c1) = <<>> /\ Tail(e1) = <<>>
      /\ Tail(ec) = c1 /\ Tail(cn) = n /\ Tail(me) = e1
      /\ Tail(mec) = ec /\ Tail(ecn) = cn /\ Tail(mecn) = ecn
  BY StepNames, Tuples
<1>3. /\ Head(n) = "generate_nginx" /\ Head(c1) = "generate_compose"
      /\ Head(e1) = "generate_env" /\ Head(ec) = "generate_env"
      /\ Head(cn) = "generate_compose" /\ Head(me) = "generate_manifest"
      /\ Head(mec) = "generate_manifest" /\ Head(ecn) = "generate_env"
      /\ Head(mecn) = "generate_manifest"
  OBVIOUS
<1>4. Queues(c) = CASE c \in {"start", "stop"} -> {n}
                    [] c = "reset" -> IF NeedsCompose THEN {mec, ec, c1} ELSE {me, e1}
                    [] c = "sync" -> {mecn, ecn, cn, n}
                    [] OTHER -> Seq(AllSteps) \ {<<>>}
  BY DEF Queues, AllSteps
<1> HIDE DEF n, c1, e1, ec, cn, me, mec, ecn, mecn
<1>5. CASE c \in {"start", "stop"}
  BY <1>1, <1>2, <1>3, <1>4, <1>5
<1>6. CASE c = "reset"
  BY <1>1, <1>2, <1>3, <1>4, <1>6 DEF GenerateSteps
<1>7. CASE c = "sync"
  BY <1>1, <1>2, <1>3, <1>4, <1>7 DEF GenerateSteps
<1>8. CASE c \notin {"start", "stop", "reset", "sync"}
  <2>1. Queues(c) = Seq(AllSteps) \ {<<>>}
    BY <1>4, <1>8
  <2>2. Tail(q) \in Seq(AllSteps)
    BY <2>1, HeadTailProperties
  <2> QED BY <1>8, <2>1, <2>2
<1> QED BY <1>5, <1>6, <1>7, <1>8

LEMMA ChosenInQueues ==
  ASSUME NEW c \in Commands, NEW q \in Chosen(c)
  PROVE  q \in Queues(c) /\ (c \in {"reset", "sync"} => Head(q) = "generate_manifest")
<1>1. CASE c \in {"start", "stop"}
  BY <1>1 DEF Chosen, Steps, Queues
<1>2. CASE c = "reset"
  <2>1. q = <<"generate_manifest", "generate_env">>
              \o (IF NeedsCompose THEN <<"generate_compose">> ELSE <<>>)
    BY <1>2 DEF Chosen, Steps
  <2>2. q = IF NeedsCompose
            THEN <<"generate_manifest", "generate_env", "generate_compose">>
            ELSE <<"generate_manifest", "generate_env">>
    BY <2>1
  <2> QED BY <1>2, <2>2 DEF Queues
<1>3. CASE c = "sync"
  BY <1>3 DEF Chosen, Steps, Queues
<1>4. CASE c \in {"restart", "reset --no-propagate"}
  <2>1. q = Steps(c)
    BY <1>4 DEF Chosen
  <2> QED BY <1>4, <2>1, StepsType DEF Queues, AllSteps
<1>5. CASE c = "refresh"
  <2> DEFINE all == Steps(c)
  <2>1. all \in Seq(AllSteps) /\ all # <<>>
    BY StepsType
  <2> HIDE DEF all
  <2>2. CASE \E i \in 1..Len(all) : q = SubSeq(all, i, Len(all))
    <3>1. PICK i \in 1..Len(all) : q = SubSeq(all, i, Len(all))
      BY <2>2
    <3>2. q \in Seq(AllSteps) /\ Len(q) > 0
      BY <2>1, <3>1, SubSeqProperties
    <3> QED BY <1>5, <3>2, EmptySeq DEF Queues, AllSteps
  <2>3. CASE \E i \in 1..Len(all) : q = <<all[i]>>
    <3>1. PICK i \in 1..Len(all) : q = <<all[i]>>
      BY <2>3
    <3>2. all[i] \in AllSteps
      BY <2>1, <3>1, ElementOfSeq
    <3> QED BY <1>5, <3>1, <3>2 DEF Queues, AllSteps
  <2>4. q \in {SubSeq(all, i, Len(all)) : i \in 1..Len(all)}
               \cup {<<all[i]>> : i \in 1..Len(all)}
    BY <1>5 DEF Chosen, all
  <2> QED BY <2>2, <2>3, <2>4
<1> QED BY <1>1, <1>2, <1>3, <1>4, <1>5 DEF Commands

-----------------------------------------------------------------------------
(***************************************************************************)
(* Type correctness, and where a command can be.                           *)
(***************************************************************************)
CommandOK ==
    /\ cmd \in Commands \cup {"none"} /\ svc \in Services \cup {NoService}
    /\ pc \in Pcs /\ todo \in Seq(AllSteps) /\ warned \in BOOLEAN
    /\ pc \in {"step", "checkpoint"} => todo # <<>>
    /\ pc \in {"compose", "track", "proxy"} => svc # NoService
    /\ CommandInv

WorldOK ==
    /\ entry \in Records /\ copy \in Records
    /\ files \in FileSets
    /\ containers \in [Services -> Containers]
    /\ proxy \subseteq Services
    /\ printed \in Outputs /\ mf \in Outputs
    /\ unsettled \subseteq Services
    /\ commands \in Nat /\ faults \in Nat

LEMMA TypeParts == TypeInv <=> WorldOK /\ CommandOK
  BY DEF TypeInv, TypeOK, WorldOK, CommandOK, AllSteps

LEMMA DockerType ==
  ASSUME TypeOK, NEW S
  PROVE  /\ UpD(S) \in [Services -> Containers]
         /\ Restarted(S) \in [Services -> Containers]
         /\ \A s \in Services : Stopped(s) \in [Services -> Containers]
<1>1. containers \in [Services -> Containers] /\ files \in FileSets
  BY DEF TypeOK
<1>2. UpD(S) \in [Services -> Containers]
  BY <1>1 DEF UpD, Containers, FileSets
<1>3. Restarted(S) \in [Services -> Containers]
  BY <1>1 DEF Restarted, Containers
<1>4. \A s \in Services : Stopped(s) \in [Services -> Containers]
  BY <1>1 DEF Stopped, Containers
<1> QED BY <1>2, <1>3, <1>4

LEMMA ComposeType ==
  ASSUME TypeInv, pc = "compose", Compose
  PROVE  /\ containers' \in [Services -> Containers]
         /\ unsettled' \subseteq Services
         /\ svc \in Services
<1>1. cmd \in {"start", "stop", "restart"} /\ svc \in Services
  BY DEF TypeInv, CommandInv
<1>2. containers' \in {UpD({svc}), Stopped(svc), Restarted({svc})}
  BY <1>1 DEF Compose
<1> QED BY <1>1, <1>2, DockerType DEF TypeInv, TypeOK, Compose

LEMMA UpdatedType ==
  ASSUME TypeOK
  PROVE  Updated \in [Services -> Containers]
  BY DockerType DEF Updated

LEMMA StepFnType ==
  ASSUME TypeInv, pc = "step", StepFn
  PROVE  /\ files' \in FileSets /\ containers' \in [Services -> Containers]
         /\ copy' \in Records /\ mf' \in Outputs /\ unsettled' \subseteq Services
<1>1. /\ files \in FileSets /\ containers \in [Services -> Containers]
      /\ copy \in Records /\ mf \in Outputs /\ unsettled \subseteq Services
  BY DEF TypeInv, TypeOK
<1>2. copy.outputs \in Outputs /\ RoutesOf(copy) \subseteq Services
  BY <1>1, ServiceAssumption DEF Records, RoutesOf, EnabledOf
<1>3. CASE GenerateManifest
  BY <1>1, <1>2, <1>3 DEF GenerateManifest, FileSets
<1>4. CASE GenerateEnv
  BY <1>1, <1>4 DEF GenerateEnv, FileSets
<1>5. CASE GenerateCompose
  BY <1>1, <1>5 DEF GenerateCompose, FileSets
<1>6. CASE GenerateNginx
  BY <1>1, <1>2, <1>6 DEF GenerateNginx, FileSets
<1>7. CASE StartServices
  <2>1. copy' \in Records /\ unsettled' \subseteq Services
    BY <1>1, <1>7, ServiceAssumption DEF StartServices, StepSeeds, Records
  <2>2. containers' \in [Services -> Containers]
    BY <1>1, <1>7 DEF StartServices, UpD, Containers, FileSets
  <2> QED BY <1>1, <1>7, <2>1, <2>2 DEF StartServices
<1> QED BY <1>3, <1>4, <1>5, <1>6, <1>7 DEF StepFn

LEMMA StepSeedsType ==
  ASSUME TypeInv, StepSeeds
  PROVE  copy' \in Records /\ unsettled' \subseteq Services
  BY ServiceAssumption DEF TypeInv, TypeOK, StepSeeds, Records

\* A command that ends leaves nothing to be right about.
LEMMA EndsCommand ==
  ASSUME Ends
  PROVE  CommandOK'
<1>1. todo' \in Seq(AllSteps)
  BY DEF Ends
<1> QED BY <1>1 DEF Ends, CommandOK, Pcs, CommandInv

LEMMA AbandonsCommand ==
  ASSUME TypeInv, Abandons
  PROVE  CommandOK'
<1>1. CASE cmd \in {"start", "stop"}
  <2>1. todo' \in Seq(AllSteps)
    BY <1>1 DEF Abandons
  <2> QED BY <1>1, <2>1 DEF Abandons, CommandOK, TypeInv, TypeOK, CommandInv, Pcs
<1>2. CASE cmd \notin {"start", "stop"}
  BY <1>2, EndsCommand DEF Abandons
<1> QED BY <1>1, <1>2

\* A step of the command from one place to another with its queue.
LEMMA MovesCommand ==
  ASSUME TypeInv, UNCHANGED <<cmd, svc, todo, warned>>,
         \/ pc \in {"track", "hook"} /\ pc' \in {"load", "return"}
              /\ (pc' = "load" => cmd # "reset --no-propagate")
         \/ pc = "compose" /\ pc' = "track" /\ cmd # "restart"
         \/ pc = "compose" /\ pc' = "return"
         \/ pc = "load" /\ pc' = "step"
         \/ pc = "step" /\ pc' = "checkpoint"
         \/ pc \in {"proxy", "update"} /\ pc' = "return"
  PROVE  CommandOK'
<1>1. pc \in {"load", "step"} => todo # <<>>
  <2>1. pc \in {"load", "step"} => cmd \in Commands /\ todo \in Queues(cmd)
    BY DEF TypeInv, TypeOK, CommandInv, Commands
  <2> QED BY <2>1, QueuesType
<1>2. todo \in Seq(AllSteps)
  BY DEF TypeInv, TypeOK, AllSteps
<1>3. CommandInv'
  BY DEF TypeInv, CommandInv, Queues
<1> QED BY <1>1, <1>2, <1>3, ServiceAssumption DEF CommandOK, TypeInv, TypeOK, CommandInv, Pcs

LEMMA BeginType ==
  ASSUME TypeInv, NEW c \in Commands, NEW s \in Services \cup {NoService}, Begin(c, s)
  PROVE  TypeInv'
<1>1. todo' \in Chosen(c)
  BY DEF Begin
<1>2. /\ todo' \in Queues(c)
      /\ c \in {"reset", "sync"} => Head(todo') = "generate_manifest"
  BY <1>1, ChosenInQueues
<1>3. todo' \in Seq(AllSteps) /\ todo' # <<>>
  BY <1>2, QueuesType
<1>4. FirstPc(c) \in {"compose", "hook", "load"}
  BY DEF FirstPc
<1>5. CommandInv'
  BY <1>2 DEF Begin, FirstPc, CommandInv, Commands
<1>6. CommandOK'
  BY <1>3, <1>4, <1>5, ServiceAssumption DEF Begin, CommandOK, Pcs, FirstPc, TypeInv, TypeOK
<1>7. WorldOK'
  BY DEF Begin, WorldOK, world, TypeInv, TypeOK
<1> QED BY <1>6, <1>7, TypeParts DEF TypeInv, TypeOK, WorldOK, CommandOK, AllSteps

LEMMA CheckpointType ==
  ASSUME TypeInv, Checkpoint
  PROVE  TypeInv'
<1>1. /\ cmd \in {"start", "stop", "reset", "sync", "refresh"}
      /\ todo \in Queues(cmd)
  BY DEF Checkpoint, Goto, TypeInv, CommandInv
<1>2. todo \in Seq(AllSteps) /\ todo # <<>> /\ (Tail(todo) # <<>> => Tail(todo) \in Queues(cmd))
  BY <1>1, QueuesType DEF Commands
<1>3. Tail(todo) \in Seq(AllSteps)
  BY <1>2, HeadTailProperties
<1>4. AfterSteps \in {"proxy", "update", "return"}
  BY <1>1 DEF AfterSteps
<1>5. CommandInv'
  BY <1>1, <1>2 DEF Checkpoint, Goto, AfterSteps, TypeInv, CommandInv
<1>6. CommandOK'
  BY <1>1, <1>3, <1>5, ServiceAssumption
     DEF Checkpoint, Goto, AfterSteps, CommandOK, CommandInv, Pcs, TypeInv, TypeOK
<1>7. WorldOK'
  BY DEF Checkpoint, WorldOK, world, TypeInv, TypeOK
<1> QED BY <1>6, <1>7 DEF TypeInv, TypeOK, WorldOK, CommandOK, AllSteps

LEMMA TypeKept == TypeInv /\ [Next]_vars => TypeInv'
<1> SUFFICES ASSUME TypeInv, [Next]_vars PROVE TypeInv'
  OBVIOUS
<1> SUFFICES WorldOK' /\ CommandOK'
  BY DEF TypeInv, TypeOK, WorldOK, CommandOK, AllSteps
<1> USE DEF Goto, world
<1>1. CASE UNCHANGED vars
  BY <1>1 DEF vars, invocation, TypeInv, TypeOK, CommandInv, Up, CommandOK, WorldOK, AllSteps
<1>2. CASE \E c \in Commands, s \in Services \cup {NoService} : Begin(c, s)
  BY <1>2, BeginType DEF TypeInv, TypeOK, WorldOK, CommandOK, AllSteps
<1>3. CASE ServiceCommand
  <2>1. CommandOK'
    BY <1>3, MovesCommand DEF ServiceCommand
  <2>2. WorldOK'
    BY <1>3, ComposeType DEF ServiceCommand, WorldOK, TypeInv, TypeOK
  <2> QED BY <2>1, <2>2
<1>4. CASE Track
  <2>1. CommandOK'
    BY <1>4, MovesCommand DEF Track, TypeInv, CommandInv
  <2>2. cmd \in {"start", "stop"} /\ svc \in Services
    BY <1>4 DEF Track, TypeInv, CommandInv
  <2>3. entry' \in Records
    BY <1>4, <2>2 DEF Track, TypeInv, TypeOK, Records
  <2>4. WorldOK'
    BY <1>4, <2>3 DEF Track, WorldOK, TypeInv, TypeOK
  <2> QED BY <2>1, <2>4
<1>5. CASE Reset
  <2>1. CommandOK'
    BY <1>5, MovesCommand DEF Reset, TypeInv, CommandInv
  <2>2. WorldOK'
    BY <1>5 DEF Reset, WorldOK, TypeInv, TypeOK, Records, Outputs
  <2> QED BY <2>1, <2>2
<1>6. CASE Load
  <2>1. CommandOK'
    BY <1>6, MovesCommand DEF Load
  <2>2. WorldOK'
    BY <1>6 DEF Load, WorldOK, TypeInv, TypeOK, FileSets
  <2> QED BY <2>1, <2>2
<1>7. CASE RunStep
  <2>1. CommandOK'
    BY <1>7, MovesCommand DEF RunStep
  <2>2. WorldOK'
    BY <1>7, StepFnType DEF RunStep, WorldOK, TypeInv, TypeOK
  <2> QED BY <2>1, <2>2
<1>8. CASE Checkpoint
  BY <1>8, CheckpointType DEF TypeInv, TypeOK, WorldOK, CommandOK, AllSteps
<1>9. CASE RestartProxy
  <2>1. CommandOK'
    BY <1>9, MovesCommand DEF RestartProxy
  <2>2. WorldOK'
    BY <1>9 DEF RestartProxy, WorldOK, TypeInv, TypeOK, FileSets
  <2> QED BY <2>1, <2>2
<1>10. CASE Update
  <2>1. CommandOK'
    BY <1>10, MovesCommand DEF Update
  <2>2. WorldOK'
    BY <1>10, UpdatedType DEF Update, WorldOK, TypeInv, TypeOK
  <2> QED BY <2>1, <2>2
<1>11. CASE Return
  <2>1. CommandOK'
    BY <1>11, EndsCommand DEF Return
  <2>2. WorldOK'
    BY <1>11 DEF Return, WorldOK, TypeInv, TypeOK
  <2> QED BY <2>1, <2>2
<1>12. CASE ComposeFails
  <2>1. CommandOK'
    BY <1>12, EndsCommand DEF ComposeFails
  <2>2. containers' \in [Services -> Containers] /\ unsettled' \subseteq Services
    BY <1>12, ComposeType, UpdatedType DEF ComposeFails, TypeInv, TypeOK
  <2>3. WorldOK'
    BY <1>12, <2>2 DEF ComposeFails, Fault, WorldOK, TypeInv, TypeOK
  <2> QED BY <2>1, <2>3
<1>13. CASE TrackFails
  <2>1. CommandOK'
    BY <1>13, EndsCommand, MovesCommand DEF TrackFails, TypeInv, CommandInv
  <2>2. WorldOK'
    BY <1>13 DEF TrackFails, Fault, WorldOK, TypeInv, TypeOK
  <2> QED BY <2>1, <2>2
<1>14. CASE ResetFails
  <2>1. CommandOK'
    BY <1>14, EndsCommand DEF ResetFails
  <2>2. WorldOK'
    BY <1>14 DEF ResetFails, Fault, WorldOK, TypeInv, TypeOK, Outputs
  <2> QED BY <2>1, <2>2
<1>15. CASE StepsFail
  <2>1. CommandOK'
    BY <1>15, AbandonsCommand DEF StepsFail
  <2>2. WorldOK'
    BY <1>15 DEF StepsFail, Fault, WorldOK, TypeInv, TypeOK
  <2> QED BY <2>1, <2>2
<1>16. CASE StepFails
  <2>1. CommandOK'
    BY <1>16, AbandonsCommand DEF StepFails
  <2>2. /\ files' \in FileSets /\ containers' \in [Services -> Containers]
        /\ copy' \in Records /\ mf' \in Outputs /\ unsettled' \subseteq Services
    BY <1>16, StepFnType, StepSeedsType DEF StepFails, TypeInv, TypeOK
  <2>3. WorldOK'
    BY <1>16, <2>2 DEF StepFails, Fault, WorldOK, TypeInv, TypeOK
  <2> QED BY <2>1, <2>3
<1>17. CASE Kill
  <2>1. CommandOK'
    BY <1>17, EndsCommand DEF Kill
  <2>2. WorldOK'
    BY <1>17 DEF Kill, Fault, WorldOK, TypeInv, TypeOK
  <2> QED BY <2>1, <2>2
<1> QED BY <1>1, <1>2, <1>3, <1>4, <1>5, <1>6, <1>7, <1>8, <1>9, <1>10, <1>11,
        <1>12, <1>13, <1>14, <1>15, <1>16, <1>17 DEF Next

LEMMA TypeInitially == Init => TypeInv
<1> SUFFICES ASSUME Init PROVE TypeInv
  OBVIOUS
<1>1. entry \in Records /\ files \in FileSets
  BY ServiceAssumption DEF Init, Records, FileSets, Outputs, RoutesOf, EnabledOf
<1>2. containers \in [Services -> Containers]
  BY DEF Init, Containers, Outputs
<1>3. proxy \subseteq Services
  BY <1>1 DEF Init, FileSets
<1>4. WorldOK
  BY <1>1, <1>2, <1>3 DEF Init, WorldOK, Outputs
<1>5. CommandOK
  BY EmptySeq DEF Init, CommandOK, CommandInv, Pcs
<1> QED BY <1>4, <1>5, TypeParts

\* Every variable keeps its type, a step is run only when there is one, and
\* start, stop and restart always know their service (inbound/cli/service.go).
THEOREM TypeCorrect == Spec => []TypeOK
<1>1. TypeInv => TypeOK
  BY DEF TypeInv
<1> QED BY <1>1, TypeInitially, TypeKept, PTL DEF Spec

-----------------------------------------------------------------------------
(***************************************************************************)
(* The inductive invariant, action by action.                              *)
(***************************************************************************)

\* What docker does to the services of S, and to the others.
LEMMA DockerEffects ==
  ASSUME TypeOK, NEW S, NEW s \in Services
  PROVE  /\ UpD(S)[s] = IF s \in S THEN [state |-> "up", env |-> files.env,
                                         start |-> files.compose]
                                   ELSE containers[s]
         /\ s \notin S => Restarted(S)[s] = containers[s]
         /\ Up(s) => Restarted(S)[s].state = "up"
         /\ Restarted(S)[s].state = "up" => Up(s) \/ s \in S
         /\ \A d \in Services : s # d => Stopped(d)[s] = containers[s]
         /\ Stopped(s)[s].state # "up"
<1>1. containers \in [Services -> Containers]
  BY DEF TypeOK
<1>2. /\ s \notin S => Restarted(S)[s] = containers[s]
      /\ Up(s) => Restarted(S)[s].state = "up"
      /\ Restarted(S)[s].state = "up" => Up(s) \/ s \in S
  BY <1>1 DEF Restarted, Up, Containers
<1>3. /\ \A d \in Services : s # d => Stopped(d)[s] = containers[s]
      /\ Stopped(s)[s].state # "up"
  BY <1>1 DEF Stopped, Containers
<1> QED BY <1>2, <1>3 DEF UpD

\* A command that is over promises nothing but Settled.
LEMMA OverSafe ==
  ASSUME Ends, Settled'
  PROVE  Safe'
  BY DEF Ends, Safe, CopyInv, ProgressInv, PrintedInv, RoutesInv

LEMMA BeginSafe ==
  ASSUME Inv, NEW c \in Commands, NEW s \in Services \cup {NoService}, Begin(c, s)
  PROVE  Safe'
<1>1. pc' \in {"compose", "hook", "load"} /\ copy' = entry' /\ entry' = entry
  BY DEF Begin, FirstPc
<1>2. Settled'
  BY DEF Begin, world, Inv, Safe, Settled, Up
<1>3. PrintedInv'
  BY DEF Begin, FirstPc, PrintedInv
<1> QED BY <1>1, <1>2, <1>3 DEF Safe, CopyInv, ProgressInv, RoutesInv

LEMMA ComposeSettled ==
  ASSUME Inv, pc = "compose", Compose, entry' = entry
  PROVE  /\ Settled'
         /\ cmd \in {"start", "stop"} => (containers'[svc].state = "up" <=> cmd = "start")
<1>1. cmd \in {"start", "stop", "restart"} /\ svc \in Services /\ TypeOK
  BY DEF Inv, TypeInv, CommandInv
<1>2. CASE cmd = "start"
  <2>1. containers' = UpD({svc}) /\ unsettled' = unsettled \cup {svc}
    BY <1>2 DEF Compose
  <2>2. /\ \A s \in Services \ {svc} : containers'[s] = containers[s]
        /\ containers'[svc].state = "up"
    BY <1>1, <2>1, DockerEffects
  <2>3. Settled'
    BY <2>1, <2>2 DEF Settled, Up, Inv, Safe
  <2> QED BY <1>2, <2>2, <2>3 DEF Up
<1>3. CASE cmd = "stop"
  <2>1. containers' = Stopped(svc) /\ unsettled' = unsettled \cup {svc}
    BY <1>3 DEF Compose
  <2>2. /\ \A s \in Services \ {svc} : containers'[s] = containers[s]
        /\ containers'[svc].state # "up"
    BY <1>1, <2>1, DockerEffects
  <2>3. Settled'
    BY <2>1, <2>2 DEF Settled, Up, Inv, Safe
  <2> QED BY <1>3, <2>2, <2>3 DEF Up
<1>4. CASE cmd = "restart"
  <2>1. /\ containers' = Restarted({svc})
        /\ unsettled' = IF containers' = containers THEN unsettled ELSE unsettled \cup {svc}
    BY <1>4 DEF Compose
  <2>2. CASE containers' = containers
    BY <1>4, <2>1, <2>2 DEF Settled, Up, Inv, Safe
  <2>3. CASE containers' # containers
    BY <1>1, <1>4, <2>1, <2>3, DockerEffects DEF Settled, Up, Inv, Safe
  <2> QED BY <2>2, <2>3
<1> QED BY <1>1, <1>2, <1>3, <1>4

LEMMA ServiceCommandSafe ==
  ASSUME Inv, ServiceCommand
  PROVE  Safe'
<1>1. /\ Settled'
      /\ cmd \in {"start", "stop"} => (containers'[svc].state = "up" <=> cmd = "start")
  BY ComposeSettled DEF ServiceCommand, Goto
<1>2. cmd \in {"start", "stop", "restart"}
  BY DEF ServiceCommand, Goto, Inv, TypeInv, CommandInv
<1>3. CopyInv'
  BY <1>1, <1>2 DEF ServiceCommand, Goto, CopyInv, Up
<1> QED BY <1>1, <1>2, <1>3 DEF ServiceCommand, Goto, Safe, ProgressInv, PrintedInv, RoutesInv

\* The record now says what docker did.
LEMMA TrackSafe ==
  ASSUME Inv, Track
  PROVE  Safe'
<1>1. cmd \in {"start", "stop"} /\ svc \in Services /\ entry \in Records
  BY DEF Track, Goto, Inv, TypeInv, TypeOK, CommandInv
<1>2. Up(svc) <=> cmd = "start"
  BY DEF Track, Goto, Inv, Safe, CopyInv
<1>3. \A s \in Services :
         s \in entry'.enabled <=> IF s = svc THEN cmd = "start" ELSE s \in entry.enabled
  BY <1>1 DEF Track, Records
<1>4. Settled'
  BY <1>1, <1>2, <1>3 DEF Track, world, Inv, Safe, Settled, Up
<1> QED BY <1>1, <1>4
        DEF Track, Goto, Safe, CopyInv, ProgressInv, PrintedInv, RoutesInv

LEMMA ResetSafe ==
  ASSUME Inv, Reset
  PROVE  Safe'
<1>1. entry' = [entry EXCEPT !.outputs = printed'] /\ entry \in Records
  BY DEF Reset, Goto, Inv, TypeInv, TypeOK, Safe, CopyInv
<1>2. entry'.enabled = entry.enabled /\ entry'.outputs = printed'
  BY <1>1 DEF Records
<1>3. Settled'
  BY <1>2 DEF Reset, Inv, Safe, Settled, Up
<1>4. PrintedInv'
  BY <1>2 DEF PrintedInv
<1>5. cmd \in {"reset", "reset --no-propagate"}
  BY DEF Reset, Goto, Inv, TypeInv, CommandInv
<1> QED BY <1>3, <1>4, <1>5 DEF Reset, Goto, Safe, CopyInv, ProgressInv, RoutesInv

LEMMA LoadSafe ==
  ASSUME Inv, Load
  PROVE  Safe'
<1>1. Settled'
  BY DEF Load, world, Inv, Safe, Settled, Up
<1>2. ProgressInv'
  BY DEF Load, Goto, ProgressInv, Inv, TypeInv, CommandInv
<1>3. PrintedInv'
  BY DEF Load, Goto, world, PrintedInv, Inv, Safe
<1> QED BY <1>1, <1>2, <1>3 DEF Load, Goto, Safe, CopyInv, RoutesInv

\* What start_services may do to the copy, and so to the record.
LEMMA SeedsCopy ==
  ASSUME Inv, pc = "step", StepSeeds
  PROVE  /\ copy' = IF Seeded THEN [entry EXCEPT !.enabled = Autostart] ELSE entry
         /\ unsettled' = IF Seeded THEN unsettled \cup Autostart ELSE unsettled
  BY DEF StepSeeds, Seeded, Inv, Safe, CopyInv

\* One step: the copy, the files and the containers it leaves.
LEMMA StepEffects ==
  ASSUME Inv, pc = "step", StepFn, entry' = entry
  PROVE  /\ copy' = IF Seeded THEN [entry EXCEPT !.enabled = Autostart] ELSE entry
         /\ Settled'
         /\ Seeded => \A s \in Autostart : Up(s)'
         /\ \A s \in Services \ copy'.enabled : containers'[s] = containers[s]
<1>1. copy = entry /\ entry \in Records /\ TypeOK
  BY DEF Inv, TypeInv, TypeOK, Safe, CopyInv
<1>2. CASE Head(todo) = "start_services"
  <2>1. StartServices
    BY <1>2 DEF StepFn, GenerateManifest, GenerateEnv, GenerateCompose, GenerateNginx
  <2>2. /\ copy' = IF Seeded THEN [entry EXCEPT !.enabled = Autostart] ELSE entry
        /\ unsettled' = IF Seeded THEN unsettled \cup Autostart ELSE unsettled
        /\ containers' = UpD(copy'.enabled)
    BY <2>1, SeedsCopy DEF StartServices
  <2>3. copy'.enabled = IF Seeded THEN Autostart ELSE entry.enabled
    BY <1>1, <2>2 DEF Records
  <2>4. \A s \in Services :
          /\ s \in copy'.enabled => containers'[s].state = "up"
          /\ s \notin copy'.enabled => containers'[s] = containers[s]
    BY <1>1, <2>2, DockerEffects
  <2>5. Settled'
    BY <2>2, <2>3, <2>4 DEF Settled, Up, Inv, Safe
  <2>6. Seeded => \A s \in Autostart : Up(s)'
    BY <2>3, <2>4, ServiceAssumption DEF Up
  <2> QED BY <2>2, <2>4, <2>5, <2>6
<1>3. CASE Head(todo) # "start_services"
  <2>1. UNCHANGED <<containers, copy, unsettled>> /\ ~Seeded
    BY <1>3 DEF StepFn, GenerateManifest, GenerateEnv, GenerateCompose, GenerateNginx,
                StartServices, Seeded
  <2>2. Settled'
    BY <2>1 DEF Settled, Up, Inv, Safe
  <2> QED BY <1>1, <2>1, <2>2
<1> QED BY <1>2, <1>3

LEMMA RunStepSafe ==
  ASSUME Inv, RunStep
  PROVE  Safe'
<1>1. /\ pc = "step" /\ pc' = "checkpoint" /\ StepFn
      /\ UNCHANGED <<entry, cmd, svc, todo, printed, proxy, warned>>
  BY DEF RunStep, Goto
<1>2. /\ copy' = IF Seeded THEN [entry EXCEPT !.enabled = Autostart] ELSE entry
      /\ Settled'
      /\ Seeded => \A s \in Autostart : Up(s)'
  BY <1>1, StepEffects
<1>3. CopyInv'
  BY <1>1, <1>2 DEF CopyInv, Seeded
<1>4. /\ copy = entry /\ todo \in Queues(cmd) /\ TypeOK
      /\ cmd \in {"start", "stop", "reset", "sync", "refresh"}
  BY <1>1 DEF Inv, TypeInv, CommandInv, Safe, CopyInv
<1>5. ProgressInv'
  <2> SUFFICES ASSUME cmd \in {"reset", "sync"}
               PROVE  /\ mf' = entry.outputs
                      /\ Head(todo) # "generate_manifest" => files'.env = entry.outputs
                      /\ Head(todo) \in {"generate_compose", "generate_nginx"} =>
                            files'.compose = entry.outputs
    BY <1>1 DEF ProgressInv
  <2>1. /\ Head(todo) # "generate_manifest" => mf = entry.outputs
        /\ Head(todo) \in {"generate_compose", "generate_nginx"} => files.env = entry.outputs
        /\ Head(todo) = "generate_nginx" => files.compose = entry.outputs
    BY <1>1 DEF Inv, Safe, ProgressInv
  <2>2. Head(todo) \in GenerateSteps
    BY <1>4 DEF Queues, GenerateSteps
  <2>3. files \in FileSets
    BY <1>4 DEF TypeOK
  <2> QED BY <1>1, <1>4, <2>1, <2>2, <2>3
          DEF StepFn, GenerateManifest, GenerateEnv, GenerateCompose, GenerateNginx,
              StartServices, GenerateSteps, FileSets
<1>6. PrintedInv'
  BY <1>1 DEF PrintedInv, Inv, Safe
<1>7. RoutesInv'
  <2> SUFFICES ASSUME cmd \in {"start", "stop"}
               PROVE  files'.routes = RoutesOf(entry)
    BY <1>1 DEF RoutesInv, RoutesOf, EnabledOf
  <2>1. todo = <<"generate_nginx">>
    BY <1>4 DEF Queues
  <2>2. GenerateNginx
    BY <1>1, <2>1 DEF StepFn, GenerateManifest, GenerateEnv, GenerateCompose, StartServices
  <2> QED BY <1>4, <2>2 DEF GenerateNginx, FileSets, TypeOK
<1> QED BY <1>2, <1>3, <1>5, <1>6, <1>7 DEF Safe

LEMMA CheckpointSafe ==
  ASSUME Inv, Checkpoint
  PROVE  Safe'
<1>1. /\ pc = "checkpoint" /\ pc' = IF Tail(todo) = <<>> THEN AfterSteps ELSE "step"
      /\ entry' = copy /\ todo' = Tail(todo)
      /\ UNCHANGED <<cmd, svc, copy, mf, warned, files, containers, proxy, printed>>
  BY DEF Checkpoint, Goto, world
<1>2. /\ TypeOK /\ todo \in Queues(cmd)
      /\ cmd \in {"start", "stop", "reset", "sync", "refresh"}
      /\ AfterSteps \in {"proxy", "update", "return"}
  BY <1>1 DEF Inv, TypeInv, CommandInv, AfterSteps
<1>3. IF Seeded THEN /\ copy = [entry EXCEPT !.enabled = Autostart]
                     /\ \A s \in Autostart : Up(s)
      ELSE copy = entry
  BY <1>1 DEF Inv, Safe, CopyInv
<1>4. entry'.outputs = entry.outputs
  BY <1>1, <1>2, <1>3 DEF TypeOK, Records
<1>5. CopyInv'
  BY <1>1, <1>2 DEF CopyInv
<1>6. Settled'
  <2>1. CASE Seeded
    <3>1. entry'.enabled = Autostart /\ unsettled' = unsettled \ Autostart
      BY <1>1, <1>2, <1>3, <2>1 DEF Checkpoint, Seeded, TypeOK, Records
    <3>2. entry.enabled = {}
      BY <2>1 DEF Seeded
    <3> QED BY <1>1, <1>3, <2>1, <3>1, <3>2 DEF Settled, Up, Inv, Safe
  <2>2. CASE ~Seeded
    BY <1>1, <1>3, <2>2 DEF Checkpoint, Seeded, Settled, Up, Inv, Safe
  <2> QED BY <2>1, <2>2
<1>7. ProgressInv'
  <2> SUFFICES ASSUME cmd \in {"reset", "sync"}
               PROVE  ProgressInv'
    BY <1>1 DEF ProgressInv
  <2>1. /\ mf = entry.outputs
        /\ Head(todo) # "generate_manifest" => files.env = entry.outputs
        /\ Head(todo) \in {"generate_compose", "generate_nginx"} =>
              files.compose = entry.outputs
    BY <1>1 DEF Inv, Safe, ProgressInv
  <2>2. CASE Tail(todo) = <<>>
    <3>1. pc' = "update"
      BY <1>1, <2>2 DEF AfterSteps
    <3> QED BY <1>1, <1>2, <1>4, <2>1, <2>2, <3>1, QueuesType DEF Commands, ProgressInv
  <2>3. CASE Tail(todo) # <<>>
    <3>1. /\ Head(Tail(todo)) # "generate_manifest"
          /\ Head(todo) = "generate_manifest" => Head(Tail(todo)) = "generate_env"
          /\ Head(todo) = "generate_env" => Head(Tail(todo)) = "generate_compose"
      BY <1>2, <2>3, QueuesType DEF Commands
    <3>2. Head(todo) \in GenerateSteps
      BY <1>2 DEF Queues, GenerateSteps
    <3> QED BY <1>1, <1>4, <2>1, <2>3, <3>1, <3>2 DEF ProgressInv, GenerateSteps
  <2> QED BY <2>2, <2>3
<1>8. PrintedInv'
  BY <1>1, <1>4 DEF PrintedInv, Inv, Safe
<1>9. RoutesInv'
  <2> SUFFICES ASSUME cmd \in {"start", "stop"}
               PROVE  /\ pc' # "return" /\ pc' # "checkpoint"
                      /\ entry' = entry /\ files.routes = RoutesOf(entry)
    BY <1>1 DEF RoutesInv, RoutesOf, EnabledOf
  <2>1. ~Seeded
    BY <1>2, QueuesType DEF Commands, Seeded
  <2> QED BY <1>1, <1>2, <1>3, <2>1 DEF AfterSteps, RoutesInv, Inv, Safe
<1> QED BY <1>5, <1>6, <1>7, <1>8, <1>9 DEF Safe

LEMMA RestartProxySafe ==
  ASSUME Inv, RestartProxy
  PROVE  Safe'
<1>1. cmd \in {"start", "stop"}
  BY DEF RestartProxy, Goto, Inv, TypeInv, CommandInv
<1>2. Settled'
  BY DEF RestartProxy, Inv, Safe, Settled, Up
<1>3. RoutesInv'
  BY <1>1 DEF RestartProxy, Goto, RoutesInv, RoutesOf, EnabledOf, Inv, Safe
<1> QED BY <1>1, <1>2, <1>3 DEF RestartProxy, Goto, Safe, CopyInv, ProgressInv, PrintedInv

\* The last docker command of a propagation starts nothing that is not enabled.
LEMMA UpdatedEffects ==
  ASSUME Inv, pc = "update", NEW s \in Services
  PROVE  /\ s \in entry.enabled /\ Up(s) => Updated[s].state = "up"
         /\ Updated[s].state = "up" => Up(s) \/ s \in entry.enabled
  BY DockerEffects DEF Updated, Inv, TypeInv, Safe, CopyInv, Up

LEMMA UpdateSafe ==
  ASSUME Inv, Update
  PROVE  Safe'
<1>1. pc = "update" /\ cmd \in {"reset", "sync"} /\ entry \in Records
  BY DEF Update, Goto, Inv, TypeInv, TypeOK, CommandInv
<1>2. Settled'
  BY <1>1, UpdatedEffects DEF Update, Inv, Safe, Settled, Up
<1>3. PrintedInv'
  BY DEF Update, Goto, PrintedInv, Inv, Safe
<1> QED BY <1>1, <1>2, <1>3 DEF Update, Goto, Safe, CopyInv, ProgressInv, RoutesInv

LEMMA ReturnSafe ==
  ASSUME Inv, Return
  PROVE  Safe'
<1>1. Settled'
  BY DEF Return, world, Inv, Safe, Settled, Up
<1> QED BY <1>1, OverSafe DEF Return

-----------------------------------------------------------------------------
\* A failure that ends the command, or lets it end with a warning.
LEMMA AbandonsSafe ==
  ASSUME Inv, Abandons, Settled', pc \in {"load", "step", "checkpoint", "proxy"},
         UNCHANGED <<proxy, printed>>
  PROVE  Safe'
<1>1. CASE cmd \in {"start", "stop"}
  BY <1>1 DEF Abandons, Safe, CopyInv, ProgressInv, PrintedInv, RoutesInv
<1>2. CASE cmd \notin {"start", "stop"}
  BY <1>2, OverSafe DEF Abandons
<1> QED BY <1>1, <1>2

LEMMA FailuresSafe ==
  ASSUME Inv, ComposeFails \/ TrackFails \/ ResetFails \/ StepsFail \/ Kill
  PROVE  Safe'
<1>1. CASE ComposeFails
  <2>1. Ends /\ entry' = entry
    BY <1>1 DEF ComposeFails
  <2>2. CASE pc = "compose" /\ Compose
    BY <2>1, <2>2, ComposeSettled, OverSafe
  <2>3. CASE UNCHANGED <<containers, unsettled>>
    BY <2>1, <2>3, OverSafe DEF Inv, Safe, Settled, Up
  <2>4. CASE pc = "update" /\ containers' = Updated /\ UNCHANGED unsettled
    <3>1. Settled'
      BY <2>1, <2>4, UpdatedEffects DEF Inv, Safe, Settled, Up
    <3> QED BY <2>1, <3>1, OverSafe
  <2> QED BY <1>1, <2>2, <2>3, <2>4 DEF ComposeFails
<1>2. CASE TrackFails
  <2>1. Settled'
    BY <1>2 DEF TrackFails, world, Inv, Safe, Settled, Up
  <2>2. CASE Ends
    BY <2>1, <2>2, OverSafe
  <2>3. CASE Goto("track", "load") /\ UNCHANGED <<cmd, svc, todo, warned>>
    <3>1. cmd \in {"start", "stop"}
      BY <2>3 DEF Goto, Inv, TypeInv, CommandInv
    <3> QED BY <2>1, <2>3, <3>1 DEF Goto, Safe, CopyInv, ProgressInv, PrintedInv, RoutesInv
  <2> QED BY <1>2, <2>2, <2>3 DEF TrackFails
<1>3. CASE ResetFails
  <2>1. Settled'
    BY <1>3 DEF ResetFails, Inv, Safe, Settled, Up
  <2> QED BY <1>3, <2>1, OverSafe DEF ResetFails
<1>4. CASE StepsFail
  <2>1. Settled'
    BY <1>4 DEF StepsFail, world, Inv, Safe, Settled, Up
  <2> QED BY <1>4, <2>1, AbandonsSafe DEF StepsFail, world
<1>5. CASE Kill
  <2>1. Settled'
    BY <1>5 DEF Kill, world, Inv, Safe, Settled, Up
  <2> QED BY <1>5, <2>1, OverSafe DEF Kill
<1> QED BY <1>1, <1>2, <1>3, <1>4, <1>5

\* A step that fails leaves a copy as right as one that succeeds.
LEMMA StepFailsSafe ==
  ASSUME Inv, StepFails
  PROVE  Safe'
<1>1. pc = "step" /\ entry' = copy' /\ Abandons /\ UNCHANGED <<proxy, printed>>
  BY DEF StepFails
<1>2. entry \in Records /\ TypeOK
  BY DEF Inv, TypeInv, TypeOK
<1>3. CASE StepSeeds /\ UNCHANGED <<files, containers, mf>>
  <2>1. /\ copy' = IF Seeded THEN [entry EXCEPT !.enabled = Autostart] ELSE entry
        /\ unsettled' = IF Seeded THEN unsettled \cup Autostart ELSE unsettled
    BY <1>1, <1>3, SeedsCopy
  <2>2. Settled'
    BY <1>1, <1>2, <1>3, <2>1 DEF Seeded, Settled, Up, Records, Inv, Safe
  <2> QED BY <1>1, <2>2, AbandonsSafe
<1>4. CASE StepFn
  <2>1. CASE Head(todo) = "start_services"
    <3>1. StartServices
      BY <1>4, <2>1 DEF StepFn, GenerateManifest, GenerateEnv, GenerateCompose, GenerateNginx
    <3>2. /\ copy' = IF Seeded THEN [entry EXCEPT !.enabled = Autostart] ELSE entry
          /\ unsettled' = IF Seeded THEN unsettled \cup Autostart ELSE unsettled
          /\ containers' = UpD(copy'.enabled)
      BY <1>1, <3>1, SeedsCopy DEF StartServices
    <3>3. \A s \in Services : IF s \in copy'.enabled THEN containers'[s].state = "up"
                              ELSE containers'[s] = containers[s]
      BY <1>2, <3>2, DockerEffects
    <3>4. Settled'
      BY <1>1, <1>2, <3>2, <3>3 DEF Seeded, Settled, Up, Records, Inv, Safe
    <3> QED BY <1>1, <3>4, AbandonsSafe
  <2>2. CASE Head(todo) # "start_services"
    <3>1. UNCHANGED <<containers, copy, unsettled>> /\ copy = entry
      BY <1>1, <1>4, <2>2
         DEF StepFn, GenerateManifest, GenerateEnv, GenerateCompose, GenerateNginx,
             StartServices, Inv, Safe, CopyInv
    <3>2. Settled'
      BY <1>1, <3>1 DEF Settled, Up, Inv, Safe
    <3> QED BY <1>1, <3>2, AbandonsSafe
  <2> QED BY <2>1, <2>2
<1> QED BY <1>3, <1>4 DEF StepFails

LEMMA Preserved == Inv /\ [Next]_vars => Inv'
<1> SUFFICES ASSUME Inv, [Next]_vars PROVE Inv'
  OBVIOUS
<1>1. TypeInv'
  BY TypeKept DEF Inv
<1>2. Safe'
  <2>1. CASE UNCHANGED vars
    BY <2>1 DEF vars, world, invocation, Inv, Safe, CopyInv, Seeded, ProgressInv, PrintedInv,
                RoutesInv, RoutesOf, EnabledOf, Settled, Up
  <2>2. CASE \E c \in Commands, s \in Services \cup {NoService} : Begin(c, s)
    BY <2>2, BeginSafe
  <2>3. CASE ServiceCommand \/ Track \/ Reset \/ Load \/ RunStep \/ Checkpoint
             \/ RestartProxy \/ Update \/ Return
    BY <2>3, ServiceCommandSafe, TrackSafe, ResetSafe, LoadSafe, RunStepSafe, CheckpointSafe,
       RestartProxySafe, UpdateSafe, ReturnSafe
  <2>4. CASE ComposeFails \/ TrackFails \/ ResetFails \/ StepsFail \/ StepFails \/ Kill
    BY <2>4, FailuresSafe, StepFailsSafe
  <2> QED BY <2>1, <2>2, <2>3, <2>4 DEF Next
<1> QED BY <1>1, <1>2 DEF Inv

LEMMA Initially == Init => Inv
<1> SUFFICES ASSUME Init PROVE Inv
  OBVIOUS
<1>1. Settled
  BY DEF Init, Settled, Up
<1>2. Safe
  BY <1>1 DEF Init, Safe, CopyInv, ProgressInv, PrintedInv, RoutesInv
<1> QED BY <1>2, TypeInitially DEF Inv

LEMMA Invariance == Spec => []Inv
  BY Initially, Preserved, PTL DEF Spec

-----------------------------------------------------------------------------
\* What runs is what is enabled, however many starts, stops, restarts, resets,
\* syncs and refreshes fail or are killed, and wherever: only the services a
\* command was working on are an exception.  The commands write whole records
\* back (inbound/cli/service.go, domain/propagate.go, domain/manager.go).
THEOREM EnabledRun == Spec => []Settled
<1>1. Inv => Settled
  BY DEF Inv, Safe
<1> QED BY <1>1, Invariance, PTL

\* A start or stop that reports no warning leaves a proxy that routes to exactly the
\* enabled services (refreshNginxProxy), whatever was out of date before; and, when it
\* has stopped the last one, to exactly the autostarted services, or to all when there
\* are none: enabledServices and GenerateNginxConfig take the empty set for "never set".
THEOREM ProxyFollows == Spec => []ProxyMatches
<1>1. Inv => ProxyMatches
  BY DEF Inv, Safe, RoutesInv, ProxyMatches, RoutesOf, EnabledOf
<1> QED BY <1>1, Invariance, PTL

\* No command starts a service that is not enabled, but for the one it is given
\* and the defaults of the first start_services.
THEOREM NothingBootedUnasked == Spec => NothingBooted
<1>1. Inv /\ [Next]_vars =>
        [\A s \in Services : ~Up(s) /\ Up(s)' =>
            \/ s \in entry.enabled
            \/ s = svc /\ cmd \in {"start", "restart"}
            \/ cmd = "refresh" /\ entry.enabled = {}]_vars
  <2> SUFFICES ASSUME Inv, Next, NEW s \in Services, ~Up(s), containers'[s].state = "up"
               PROVE  \/ s \in entry.enabled
                      \/ s = svc /\ cmd \in {"start", "restart"}
                      \/ cmd = "refresh" /\ entry.enabled = {}
    BY DEF Up
  <2>1. TypeOK /\ containers' # containers
    BY DEF Inv, TypeInv, Up
  <2>2. CASE pc = "compose" /\ Compose
    <3>1. cmd \in {"start", "stop", "restart"} /\ svc \in Services
      BY <2>2 DEF Inv, TypeInv, CommandInv
    <3> QED BY <2>1, <2>2, <3>1, DockerEffects DEF Compose, Up
  <2>3. CASE pc = "update" /\ containers' = Updated
    BY <2>3, UpdatedEffects
  <2>4. CASE pc = "step" /\ StepFn
    <3>1. StartServices
      BY <2>1, <2>4 DEF StepFn, GenerateManifest, GenerateEnv, GenerateCompose, GenerateNginx
    <3>2. /\ copy' = IF Seeded THEN [entry EXCEPT !.enabled = Autostart] ELSE entry
          /\ containers' = UpD(copy'.enabled)
      BY <2>4, <3>1, SeedsCopy DEF StartServices
    <3>3. s \in copy'.enabled
      BY <2>1, <3>2, DockerEffects DEF Up
    <3>4. CASE Seeded
      <4>1. cmd \in {"start", "stop", "reset", "sync", "refresh"} /\ todo \in Queues(cmd)
        BY <2>4 DEF Inv, TypeInv, CommandInv
      <4>2. cmd = "refresh"
        BY <3>1, <4>1, QueuesType DEF Commands, GenerateSteps, StartServices
      <4> QED BY <3>4, <4>2 DEF Seeded
    <3> QED BY <3>2, <3>3, <3>4
  <2> QED BY <2>1, <2>2, <2>3, <2>4
          DEF Next, Begin, ServiceCommand, Track, Reset, Load, RunStep, Checkpoint,
              RestartProxy, Update, Return, ComposeFails, TrackFails, ResetFails, StepsFail,
              StepFails, Kill, Goto, world
<1> QED BY <1>1, Invariance, PTL DEF Spec, NothingBooted

-----------------------------------------------------------------------------
(***************************************************************************)
(* What a sync and a reset promise when they return.                       *)
(***************************************************************************)

\* docker compose restart does not read the env files again: a reset that does
\* not make the compose file anew reaches no container (domain/propagate.go).
EnvIsRead == EnvReads # {} => NeedsCompose

Observed == SyncObserved /\ (EnvIsRead => ResetObserved)

\* Only the last docker command of a sync or a reset lets it return.
LEMMA ReturnsByUpdate ==
  ASSUME Inv, Next, pc' = "return", cmd' \in {"sync", "reset"}
  PROVE  Update
<1> USE DEF Inv, TypeInv, CommandInv, Goto
<1>1. ~\E c \in Commands, s \in Services \cup {NoService} : Begin(c, s)
  BY DEF Begin, FirstPc
<1>2. ~(ServiceCommand \/ Track \/ Reset \/ Load \/ RunStep \/ Return)
  BY DEF ServiceCommand, Track, Reset, Load, RunStep, Return, Ends
<1>3. ~(Checkpoint \/ RestartProxy)
  BY DEF Checkpoint, RestartProxy, AfterSteps
<1>4. ~(ComposeFails \/ TrackFails \/ ResetFails \/ Kill)
  BY DEF ComposeFails, TrackFails, ResetFails, Kill, Ends
<1>5. ~(StepsFail \/ StepFails)
  BY DEF StepsFail, StepFails, Abandons, Ends
<1> QED BY <1>1, <1>2, <1>3, <1>4, <1>5 DEF Next

LEMMA UpdateObserved ==
  ASSUME Inv, Update
  PROVE  Observed'
<1>1. /\ pc = "update" /\ cmd \in {"sync", "reset"} /\ copy = entry
      /\ containers' = Updated /\ UNCHANGED <<entry, cmd, printed>>
      /\ TypeOK /\ entry.enabled \subseteq Services
  BY DEF Update, Goto, Inv, TypeInv, TypeOK, CommandInv, Safe, CopyInv, Records
<1>2. /\ files.env = entry.outputs
      /\ cmd = "sync" \/ NeedsCompose => files.compose = entry.outputs
  BY <1>1 DEF Inv, Safe, ProgressInv
<1>3. SyncObserved'
  <2> SUFFICES ASSUME cmd = "sync", NEW s \in entry.enabled
               PROVE  containers'[s] = [state |-> "up", env |-> entry.outputs,
                                        start |-> entry.outputs]
    BY <1>1 DEF SyncObserved, Up, Observes
  <2> QED BY <1>1, <1>2, DockerEffects DEF Updated
<1>4. ASSUME EnvIsRead PROVE ResetObserved'
  <2> SUFFICES ASSUME cmd = "reset", NEW s \in entry.enabled
               PROVE  (Observes(s, printed) /\ (s \in EnvReads \cup StartReads => Up(s)))'
    BY <1>1 DEF ResetObserved
  <2>1. entry.outputs = printed
    BY <1>1 DEF Inv, Safe, PrintedInv
  <2>2. s \notin Affected =>
           s \notin EnvReads \cup StartReads /\ ~\E d \in EnvReads : PathOf[d] = PathOf[s]
    BY <1>1 DEF Affected
  <2>3. CASE s \notin Affected
    BY <2>2, <2>3 DEF Observes
  <2>4. CASE s \in Affected
    <3>1. NeedsCompose
      BY <1>4, <2>4 DEF EnvIsRead, Affected, NeedsCompose
    <3>2. containers'[s] = [state |-> "up", env |-> printed, start |-> printed]
      BY <1>1, <1>2, <2>1, <2>4, <3>1, DockerEffects DEF Updated
    <3> QED BY <1>1, <3>2 DEF Observes, Up
  <2> QED BY <2>3, <2>4
<1> QED BY <1>3, <1>4 DEF Observed

LEMMA ObservedKept == Inv /\ Observed /\ [Next]_vars => Observed'
<1> SUFFICES ASSUME Inv, Observed, [Next]_vars PROVE Observed'
  OBVIOUS
<1>1. CASE UNCHANGED vars
  BY <1>1 DEF vars, world, invocation, Observed, SyncObserved, ResetObserved, Observes, Up
<1>2. CASE Next
  <2>1. CASE pc' = "return" /\ cmd' \in {"sync", "reset"}
    BY <1>2, <2>1, ReturnsByUpdate, UpdateObserved
  <2>2. CASE ~(pc' = "return" /\ cmd' \in {"sync", "reset"})
    BY <2>2 DEF Observed, SyncObserved, ResetObserved
  <2> QED BY <2>1, <2>2
<1> QED BY <1>1, <1>2

LEMMA ObservedInvariance == Spec => []Observed
<1>1. Init => Observed
  BY DEF Init, Observed, SyncObserved, ResetObserved
<1> QED BY <1>1, ObservedKept, Invariance, PTL DEF Spec

\* After a sync every enabled service runs with the outputs of the record
\* (domain/propagate.go, SyncRemote): the four steps it runs, and their order,
\* leave nothing an earlier failure did behind.
THEOREM SyncReaches == Spec => []SyncObserved
<1>1. Observed => SyncObserved
  BY DEF Observed
<1> QED BY <1>1, ObservedInvariance, PTL

\* After a reset the services that use its outputs run with what the hook
\* printed, and so do those that share an env file (propagateProvisionerChange),
\* provided that some start command uses them, or no env block does.
THEOREM ResetReaches == ASSUME EnvIsRead PROVE Spec => []ResetObserved
<1>1. EnvIsRead
  OBVIOUS
<1>2. Observed => ResetObserved
  BY <1>1 DEF Observed
<1> QED BY <1>2, ObservedInvariance, PTL
=============================================================================
