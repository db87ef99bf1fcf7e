-------------------------- MODULE StoreValuesProofs --------------------------
(***************************************************************************)
(* When users run one command at a time, the hooks of steps only use       *)
(* "store set" (and do not fail once they have), and GLOBAL_ lines are     *)
(* left to core hooks, the store keeps every value and every checkpoint,   *)
(* for any number of steps, keys, processes and kills.                     *)
(***************************************************************************)
EXTENDS StoreValues, TLAPS

OneWay == /\ Alone
          /\ Setting \subseteq Steps \ Failing
          /\ Printing \subseteq CoreHooks

\* What a process may be about to do, by what it runs.
PcsOf(c) == CASE c = "none"   -> {"end"}
              [] c = "create" -> {"init", "next", "hook", "reload", "checkpoint"}
              [] c = "core"   -> {"hook"}
              [] c = "set"    -> {"write"}
              [] c = "delete" -> {"remove"}

\* One command, and one child of its hook.
ProcessInv ==
    /\ \A p \in Processes :
          /\ pc[p] \in PcsOf(command[p])
          /\ command[p] = "create" /\ pc[p] # "init" /\ pc[p] # "next" => hook[p] \in Steps
          /\ command[p] = "core" => hook[p] \in CoreHooks
          /\ Live(p) /\ parent[p] # NoProcess =>
                /\ command[p] = "set"
                /\ Live(parent[p]) /\ parent[parent[p]] = NoProcess
                /\ pc[parent[p]] = "hook" /\ hook[parent[p]] \in Setting
    /\ \A p, q \in Processes : Live(p) /\ Live(q) /\ parent[p] = parent[q] => p = q

Older(env, than) == \A k \in Keys : env[k] <= than[k]

\* How the copies compare with the store.  Only while a hook runs "store set",
\* and until the reload, is the copy of the command out of date.
CopyInv(p) ==
    /\ pc[p] = "init" => stored = NoRecord /\ copy[p] = NewRecord
    /\ Live(p) /\ pc[p] # "init" => stored # NoRecord
    /\ pc[p] \in {"next", "write"} => copy[p] = stored
    /\ pc[p] = "hook" => /\ copy[p].steps = stored.steps
                         /\ Older(copy[p].env, stored.env)
                         /\ hook[p] \notin Setting => copy[p].env = stored.env
    /\ pc[p] = "reload" => Older(copy[p].env, stored.env)
    /\ pc[p] = "checkpoint" => copy[p].env = stored.env
    /\ pc[p] \in {"reload", "checkpoint"} =>
          copy[p].steps = stored.steps \cup {hook[p]} /\ printed[p] = Unset

ValueInv ==
    /\ stored = NoRecord => told = Unset
    /\ stored # NoRecord => Older(told, stored.env) /\ Older(stored.env, given)

Inv == TypeOK /\ ProcessInv /\ ValueInv /\ \A p \in Processes : CopyInv(p)

-----------------------------------------------------------------------------
LEMMA ValuesType ==
  ASSUME TypeOK, NEW K \in SUBSET Keys
  PROVE  /\ Unset \in Values /\ NewRecord \in Records
         /\ Given(K) \in Values /\ New(K) \in Values
         /\ \A e, o \in Values : Override(e, o) \in Values
  BY DEF TypeOK, Values, Unset, NewRecord, Records, Given, New, Override

\* More values are given, and a record that gets them is newer than it was.
LEMMA NewValues ==
  ASSUME TypeOK, NEW K \in SUBSET Keys, NEW e \in Values, Older(e, given),
         NEW t \in Values, Older(t, e)
  PROVE  /\ Older(Override(e, New(K)), Given(K))
         /\ Older(e, Override(e, New(K)))
         /\ Older(Override(t, New(K)), Override(e, New(K)))
         /\ Older(given, Given(K))
<1>1. /\ \A k \in Keys : e[k] \in Nat /\ t[k] \in Nat /\ given[k] \in Nat
      /\ \A k \in Keys : t[k] <= e[k] /\ e[k] <= given[k]
  BY DEF TypeOK, Values, Older
<1> QED BY <1>1 DEF Older, Override, New, Given

LEMMA OlderTransitive ==
  ASSUME NEW a \in Values, NEW b \in Values, NEW c \in Values, Older(a, b), Older(b, c)
  PROVE  Older(a, c)
  BY DEF Values, Older

LEMMA OlderThanUnset ==
  ASSUME NEW a \in Values, Older(a, Unset)
  PROVE  a = Unset
  BY DEF Values, Older, Unset

LEMMA OverrideByNothing ==
  ASSUME NEW e \in Values, NEW t \in Values
  PROVE  Override(e, Unset) = e /\ New({}) = Unset
  BY DEF Values, Override, Unset, New

\* Only p may be alive.
Sole(p) == \A q \in Processes : q # p => ~Live(q)

\* A user's command is alone but for what its running hook has started.
LEMMA CommandIsSole ==
  ASSUME TypeOK, ProcessInv, NEW p \in Processes, Live(p), parent[p] = NoProcess,
         pc[p] # "hook" \/ Children(p) = {}
  PROVE  Sole(p)
<1> SUFFICES ASSUME NEW q \in Processes, q # p, Live(q) PROVE FALSE
  BY DEF Sole
<1>1. parent[q] # NoProcess
  BY DEF ProcessInv
<1>2. parent[q] \in Processes
  BY <1>1 DEF TypeOK
<1>3. parent[q] = p /\ pc[p] = "hook"
  BY <1>1, <1>2 DEF ProcessInv
<1>4. q \in Children(p)
  BY <1>3 DEF Children
<1> QED BY <1>3, <1>4

\* What has to be shown after a step of the only process.
LEMMA SoleInv ==
  ASSUME TypeOK', NEW p \in Processes, Sole(p)',
         Live(p)' => /\ pc'[p] \in PcsOf(command'[p])
                     /\ parent'[p] = NoProcess
                     /\ command'[p] = "create" /\ pc'[p] # "init" /\ pc'[p] # "next"
                           => hook'[p] \in Steps
                     /\ command'[p] = "core" => hook'[p] \in CoreHooks
                     /\ CopyInv(p)'
  PROVE  ProcessInv' /\ \A q \in Processes : CopyInv(q)'
<1>1. ASSUME NEW q \in Processes, ~Live(q)'
      PROVE  command'[q] = "none" /\ pc'[q] = "end"
  BY <1>1 DEF Live, TypeOK
<1>2. \A q \in Processes : ~Live(q)' => pc'[q] \in PcsOf(command'[q]) /\ CopyInv(q)'
  BY <1>1 DEF PcsOf, CopyInv
<1>3. ProcessInv'
  BY <1>1, <1>2 DEF Sole, ProcessInv
<1>4. \A q \in Processes : CopyInv(q)'
  BY <1>1, <1>2, SMT DEF Sole, CopyInv, Live
<1> QED BY <1>3, <1>4

\* ... which may also have ended with it.
LEMMA NobodyInv ==
  ASSUME TypeOK', \A q \in Processes : ~Live(q)'
  PROVE  ProcessInv' /\ \A q \in Processes : CopyInv(q)'
<1>1. ASSUME NEW q \in Processes
      PROVE  command'[q] = "none" /\ pc'[q] = "end"
  BY <1>1 DEF Live, TypeOK
<1>2. ProcessInv'
  BY <1>1 DEF ProcessInv, PcsOf, Live
<1>3. \A q \in Processes : CopyInv(q)'
  BY <1>1 DEF CopyInv, Live
<1> QED BY <1>2, <1>3

LEMMA EndType ==
  ASSUME TypeOK, NEW P, End(P)
  PROVE  /\ command' \in [Processes -> Commands \cup {"none"}]
         /\ pc' \in [Processes -> Pcs]
         /\ parent' \in [Processes -> Processes \cup {NoProcess}]
         /\ copy' \in [Processes -> Records]
         /\ hook' \in [Processes -> Steps \cup CoreHooks \cup {NoHook}]
         /\ printed' \in [Processes -> Values]
         /\ \A p \in Processes : pc'[p] = "end" <=> command'[p] = "none"
  BY DEF End, TypeOK, Pcs, Commands

LEMMA Initially == Init => Inv
<1> SUFFICES ASSUME Init PROVE Inv
  OBVIOUS
<1>1. TypeOK
  BY SentinelAssumption
  DEF Init, TypeOK, Values, Unset, NewRecord, Records, Pcs, Commands
<1>2. ProcessInv /\ ValueInv /\ \A p \in Processes : CopyInv(p)
  BY DEF Init, ProcessInv, PcsOf, Live, ValueInv, CopyInv
<1> QED BY <1>1, <1>2 DEF Inv

-----------------------------------------------------------------------------
LEMMA LaunchInv ==
  ASSUME OneWay, Inv, NEW p \in Processes, Launch(p)
  PROVE  Inv'
<1> USE DEF Inv
<1>1. \A q \in Processes : ~Live(q)
  BY DEF OneWay, Launch
<1>2. PICK c \in Commands, at \in Pcs :
        /\ Start(p, c, NoProcess, at)
        /\ c = "create" => at = IF stored = NoRecord THEN "init" ELSE "next"
        /\ c = "core" => at = "hook" /\ hook'[p] \in CoreHooks
        /\ c = "set" => at = "write"
        /\ c = "delete" => at = "remove"
  BY DEF Launch, Commands, Pcs, TypeOK
<1>3. hook' \in [Processes -> Steps \cup CoreHooks \cup {NoHook}]
  BY DEF Launch, TypeOK
<1>4. c # "none" /\ at # "end"
  BY <1>2 DEF Commands
<1>5. /\ command' = [command EXCEPT ![p] = c] /\ parent' = [parent EXCEPT ![p] = NoProcess]
      /\ pc' = [pc EXCEPT ![p] = at]
      /\ copy'[p] = IF stored = NoRecord THEN NewRecord ELSE stored
      /\ copy' \in [Processes -> Records] /\ printed' \in [Processes -> Values]
      /\ UNCHANGED <<stored, values, kills>>
  BY <1>2, ValuesType DEF Start, TypeOK
<1>6. TypeOK'
  <2>1. launches' \in Nat
    BY DEF Launch, TypeOK
  <2>2. \A q \in Processes : pc'[q] = "end" <=> command'[q] = "none"
    BY <1>4, <1>5 DEF TypeOK
  <2>3. \A q \in Processes : q # p => pc'[q] = "end"
    BY <1>1, <1>5 DEF TypeOK, Live
  <2>4. \A q \in Processes : pc'[q] # "end" /\ parent'[q] # NoProcess
                                => pc'[parent'[q]] = "hook"
    BY <1>5, <2>3 DEF TypeOK
  <2> QED BY <1>3, <1>5, <2>1, <2>2, <2>4 DEF TypeOK, values
<1>7. ProcessInv' /\ \A q \in Processes : CopyInv(q)'
  <2>1. Sole(p)'
    BY <1>1, <1>5 DEF Sole, Live, TypeOK
  <2>2. /\ pc'[p] = at /\ command'[p] = c /\ parent'[p] = NoProcess
        /\ pc'[p] \in PcsOf(command'[p])
    BY <1>2, <1>5 DEF TypeOK, PcsOf, Commands
  <2>3. stored # NoRecord \/ c = "create"
    BY <1>2 DEF Start
  <2>4. CopyInv(p)'
    <3>1. CASE stored = NoRecord
      BY <1>2, <1>5, <2>2, <2>3, <3>1 DEF CopyInv, Live
    <3>2. CASE stored # NoRecord
      <4>1. copy'[p] = stored /\ stored' = stored /\ at \in {"next", "hook", "write", "remove"}
        BY <1>2, <1>5, <3>2 DEF Commands
      <4>2. Older(stored.env, stored.env)
        BY <3>2 DEF TypeOK, Records, Values, Older
      <4> QED BY <2>2, <3>2, <4>1, <4>2 DEF CopyInv
    <3> QED BY <3>1, <3>2
  <2>5. /\ c = "create" => at \in {"init", "next"}
        /\ c = "core" => hook'[p] \in CoreHooks
    BY <1>2
  <2> QED BY <1>6, <2>1, <2>2, <2>4, <2>5, SoleInv
<1>8. ValueInv'
  BY <1>5 DEF ValueInv, values, Older
<1> QED BY <1>6, <1>7, <1>8

\* The steps of create that stay in it.
LEMMA GoesOnType ==
  ASSUME TypeOK, NEW p \in Processes, Live(p), parent[p] = NoProcess, Sole(p),
         NEW to \in Pcs, to # "end", pc' = [pc EXCEPT ![p] = to],
         UNCHANGED <<command, parent>>
  PROVE  /\ pc' \in [Processes -> Pcs]
         /\ \A q \in Processes : pc'[q] = "end" <=> command'[q] = "none"
         /\ \A q \in Processes : pc'[q] # "end" /\ parent'[q] # NoProcess
                                    => pc'[parent'[q]] = "hook"
         /\ Sole(p)'
<1>1. \A q \in Processes : q # p => pc'[q] = "end"
  BY DEF TypeOK, Sole, Live
<1> QED BY <1>1 DEF TypeOK, Sole, Live

\* A create that is at "init", "next", "reload" or "checkpoint" is alone.
LEMMA CreateIsSole ==
  ASSUME Inv, NEW p \in Processes,
         pc[p] \in {"init", "next", "reload", "checkpoint"} \/
         (pc[p] = "hook" /\ Children(p) = {})
  PROVE  /\ command[p] \in {"create", "core"}
         /\ pc[p] # "hook" => command[p] = "create"
         /\ Live(p) /\ parent[p] = NoProcess /\ Sole(p)
<1> USE DEF Inv
<1>1. command[p] \in {"create", "core"} /\ (pc[p] # "hook" => command[p] = "create")
  BY DEF ProcessInv, PcsOf, TypeOK, Commands
<1>2. Live(p) /\ parent[p] = NoProcess
  BY <1>1 DEF ProcessInv, Live
<1> QED BY <1>1, <1>2, CommandIsSole

LEMMA InitRecordInv ==
  ASSUME Inv, NEW p \in Processes, InitRecord(p)
  PROVE  Inv'
<1> USE DEF Inv, InitRecord, Goto
<1>1. command[p] = "create" /\ Live(p) /\ parent[p] = NoProcess /\ Sole(p)
  BY CreateIsSole
<1>2. stored = NoRecord /\ copy[p] = NewRecord /\ stored' = NewRecord
  BY DEF CopyInv
<1>3. TypeOK' /\ Sole(p)'
  <2>1. "next" \in Pcs /\ "next" # "end"
    BY DEF Pcs
  <2>2. stored' \in Records
    BY <1>2, ValuesType
  <2> QED BY <1>1, <2>1, <2>2, GoesOnType DEF TypeOK, values, budget
<1>4. CopyInv(p)'
  BY <1>1, <1>2, RecordAssumption, ValuesType DEF CopyInv, TypeOK
<1>5. ProcessInv' /\ \A q \in Processes : CopyInv(q)'
  BY <1>1, <1>3, <1>4, SoleInv DEF TypeOK, PcsOf
<1>6. ValueInv'
  BY <1>2, RecordAssumption, ValuesType
  DEF ValueInv, Older, NewRecord, Unset, TypeOK, Values, values
<1> QED BY <1>3, <1>5, <1>6

LEMMA RunHookInv ==
  ASSUME Inv, NEW p \in Processes, RunHook(p)
  PROVE  Inv'
<1> USE DEF Inv, RunHook, Goto
<1>1. command[p] = "create" /\ Live(p) /\ parent[p] = NoProcess /\ Sole(p)
  BY CreateIsSole
<1>2. hook' \in [Processes -> Steps \cup CoreHooks \cup {NoHook}] /\ hook'[p] \in Steps
  BY DEF TypeOK
<1>3. TypeOK' /\ Sole(p)'
  <2>1. "hook" \in Pcs /\ "hook" # "end"
    BY DEF Pcs
  <2> QED BY <1>1, <1>2, <2>1, GoesOnType DEF TypeOK, values, budget
<1>4. CopyInv(p)'
  <2>1. copy[p] = stored /\ stored # NoRecord
    BY <1>1 DEF CopyInv
  <2>2. Older(stored.env, stored.env)
    BY <2>1 DEF TypeOK, Records, Values, Older
  <2>3. pc'[p] = "hook"
    BY DEF TypeOK
  <2> QED BY <2>1, <2>2, <2>3 DEF CopyInv
<1>5. ProcessInv' /\ \A q \in Processes : CopyInv(q)'
  BY <1>1, <1>2, <1>3, <1>4, SoleInv DEF TypeOK, PcsOf
<1>6. ValueInv'
  BY DEF ValueInv, values
<1> QED BY <1>3, <1>5, <1>6

\* Hooks of steps print nothing.
LEMMA StepReturnsInv ==
  ASSUME OneWay, Inv, NEW p \in Processes, StepReturns(p)
  PROVE  Inv'
<1> USE DEF Inv, StepReturns, HookEnds
<1>1. Live(p) /\ parent[p] = NoProcess /\ Sole(p)
  BY CreateIsSole
<1>2. hook[p] \in Steps
  BY DEF ProcessInv
<1>3. /\ given' = given /\ printed' = [printed EXCEPT ![p] = Unset]
      /\ copy'[p].env = copy[p].env
      /\ copy'[p].steps = copy[p].steps \cup {hook[p]}
      /\ copy' \in [Processes -> Records]
  <2>1. PICK K \in SUBSET GlobalKeys :
          /\ Prints(p, K)
          /\ given' = Given(K)
          /\ printed' = [printed EXCEPT ![p] = New(K)]
          /\ copy' = [copy EXCEPT ![p].env = Override(@, New(K)),
                                  ![p].steps = @ \cup {hook[p]}]
    OBVIOUS
  <2>2. K = {}
    BY <1>2, <2>1, HookAssumption DEF Prints, OneWay
  <2>3. copy[p] \in Records
    BY DEF TypeOK
  <2>4. Override(copy[p].env, New(K)) = copy[p].env /\ New(K) = Unset
    BY <2>2, <2>3, OverrideByNothing, ValuesType DEF Records
  <2>5. Given(K) = given
    BY <2>2 DEF Given, TypeOK, Values
  <2> QED BY <1>2, <2>1, <2>3, <2>4, <2>5 DEF TypeOK, Records
<1>4. TypeOK' /\ Sole(p)'
  <2>1. "reload" \in Pcs /\ "reload" # "end"
    BY DEF Pcs
  <2>2. printed' \in [Processes -> Values]
    BY <1>3, ValuesType DEF TypeOK
  <2> QED BY <1>1, <1>3, <2>1, <2>2, GoesOnType DEF TypeOK, budget
<1>5. CopyInv(p)'
  <2>1. pc'[p] = "reload" /\ printed'[p] = Unset
    BY <1>3 DEF TypeOK
  <2>2. /\ stored # NoRecord /\ copy[p].steps = stored.steps
        /\ Older(copy[p].env, stored.env)
    BY <1>1 DEF CopyInv
  <2> QED BY <1>3, <2>1, <2>2 DEF CopyInv
<1>6. ProcessInv' /\ \A q \in Processes : CopyInv(q)'
  BY <1>1, <1>2, <1>4, <1>5, SoleInv DEF TypeOK, PcsOf
<1>7. ValueInv'
  BY <1>3 DEF ValueInv
<1> QED BY <1>4, <1>6, <1>7

LEMMA ReloadInv ==
  ASSUME Inv, NEW p \in Processes, Reload(p)
  PROVE  Inv'
<1> USE DEF Inv, Reload, Goto
<1>1. command[p] = "create" /\ Live(p) /\ parent[p] = NoProcess /\ Sole(p)
  BY CreateIsSole
<1>2. hook[p] \in Steps /\ stored # NoRecord /\ stored \in Records /\ copy[p] \in Records
  BY <1>1 DEF ProcessInv, CopyInv, TypeOK
<1>3. copy' \in [Processes -> Records] /\ copy'[p].env = stored.env
      /\ copy'[p].steps = copy[p].steps
  <2>1. CASE stored.env # Unset
    BY <1>2, <2>1 DEF TypeOK, Records
  <2>2. CASE stored.env = Unset
    <3>1. copy[p].env = Unset
      BY <1>2, <2>2, OlderThanUnset DEF CopyInv, Records
    <3> QED BY <2>2, <3>1 DEF TypeOK
  <2> QED BY <2>1, <2>2
<1>4. TypeOK' /\ Sole(p)'
  <2>1. "checkpoint" \in Pcs /\ "checkpoint" # "end"
    BY DEF Pcs
  <2> QED BY <1>1, <1>3, <2>1, GoesOnType DEF TypeOK, values, budget
<1>5. CopyInv(p)'
  <2>1. pc'[p] = "checkpoint"
    BY DEF TypeOK
  <2> QED BY <1>2, <1>3, <2>1 DEF CopyInv
<1>6. ProcessInv' /\ \A q \in Processes : CopyInv(q)'
  BY <1>1, <1>2, <1>4, <1>5, SoleInv DEF TypeOK, PcsOf
<1>7. ValueInv'
  BY DEF ValueInv, values
<1> QED BY <1>4, <1>6, <1>7

LEMMA CheckpointInv ==
  ASSUME Inv, NEW p \in Processes, Checkpoint(p)
  PROVE  Inv' /\ stored.steps \subseteq stored'.steps
<1> USE DEF Inv, Checkpoint, Goto
<1>1. command[p] = "create" /\ Live(p) /\ parent[p] = NoProcess /\ Sole(p)
  BY CreateIsSole
<1>2. /\ stored # NoRecord /\ stored' = copy[p] /\ stored'.env = stored.env
      /\ stored'.steps = stored.steps \cup {hook[p]}
      /\ stored' \in Records /\ stored' # NoRecord
  BY <1>1, RecordAssumption DEF CopyInv, TypeOK
<1>3. told' = told
  BY OverrideByNothing DEF CopyInv, TypeOK
<1>4. TypeOK' /\ Sole(p)'
  <2>1. "next" \in Pcs /\ "next" # "end"
    BY DEF Pcs
  <2> QED BY <1>1, <1>2, <1>3, <2>1, GoesOnType DEF TypeOK, budget
<1>5. CopyInv(p)'
  <2>1. pc'[p] = "next"
    BY DEF TypeOK
  <2> QED BY <1>2, <2>1 DEF CopyInv
<1>6. ProcessInv' /\ \A q \in Processes : CopyInv(q)'
  BY <1>1, <1>4, <1>5, SoleInv DEF TypeOK, PcsOf
<1>7. ValueInv'
  BY <1>2, <1>3 DEF ValueInv
<1> QED BY <1>2, <1>4, <1>6, <1>7

-----------------------------------------------------------------------------
\* A command that was alone has ended.
LEMMA EndsAlone ==
  ASSUME TypeOK, NEW p \in Processes, Sole(p), End({p}),
         stored' \in Records \cup {NoRecord}, given' \in Values, told' \in Values,
         UNCHANGED budget
  PROVE  TypeOK' /\ ProcessInv' /\ \A q \in Processes : CopyInv(q)'
<1>1. \A q \in Processes : ~Live(q)' /\ pc'[q] = "end"
  BY DEF End, Sole, Live, TypeOK
<1>2. TypeOK'
  BY <1>1, EndType DEF TypeOK, budget
<1> QED BY <1>1, <1>2, NobodyInv

LEMMA StepFailsInv ==
  ASSUME OneWay, Inv, NEW p \in Processes, StepFails(p)
  PROVE  Inv' /\ stored.steps \subseteq stored'.steps
<1> USE DEF Inv, StepFails, HookEnds
<1>1. Live(p) /\ parent[p] = NoProcess /\ Sole(p)
  BY CreateIsSole
<1>2. /\ stored # NoRecord /\ stored' = copy[p] /\ stored'.env = stored.env
      /\ stored'.steps = stored.steps /\ stored' \in Records /\ stored' # NoRecord
  BY <1>1, RecordAssumption DEF CopyInv, TypeOK, OneWay
<1>3. TypeOK' /\ ProcessInv' /\ \A q \in Processes : CopyInv(q)'
  BY <1>1, <1>2, EndsAlone DEF TypeOK, values
<1>4. ValueInv'
  BY <1>2 DEF ValueInv, values
<1> QED BY <1>2, <1>3, <1>4

LEMMA SaveProvisionedInv ==
  ASSUME Inv, NEW p \in Processes, SaveProvisioned(p)
  PROVE  Inv' /\ stored' = stored
<1> USE DEF Inv, SaveProvisioned
<1>1. Live(p) /\ parent[p] = NoProcess /\ Sole(p)
  BY CreateIsSole
<1>2. stored' = stored
  BY DEF CopyInv
<1>3. TypeOK' /\ ProcessInv' /\ \A q \in Processes : CopyInv(q)'
  BY <1>1, <1>2, EndsAlone DEF TypeOK, values
<1>4. ValueInv'
  BY <1>2 DEF ValueInv, values
<1> QED BY <1>2, <1>3, <1>4

\* What a write that only adds values does.
LEMMA PutInv ==
  ASSUME TypeOK, ValueInv, stored # NoRecord, NEW K \in SUBSET Keys,
         given' = Given(K), told' = Override(told, New(K)),
         stored' = [stored EXCEPT !.env = Override(@, New(K))]
  PROVE  /\ ValueInv'
         /\ stored' \in Records /\ given' \in Values /\ told' \in Values
         /\ stored' # NoRecord /\ stored'.steps = stored.steps
         /\ Older(stored.env, stored'.env)
<1>1. stored \in Records /\ stored.env \in Values /\ told \in Values
  BY DEF TypeOK, Records
<1>2. /\ stored' \in Records /\ stored'.env = Override(stored.env, New(K))
      /\ stored'.steps = stored.steps /\ stored' # NoRecord
      /\ given' \in Values /\ told' \in Values
  BY <1>1, ValuesType, RecordAssumption DEF Records
<1>3. /\ Older(Override(stored.env, New(K)), Given(K))
      /\ Older(stored.env, Override(stored.env, New(K)))
      /\ Older(Override(told, New(K)), Override(stored.env, New(K)))
  BY <1>1, NewValues DEF ValueInv
<1> QED BY <1>2, <1>3 DEF ValueInv, Older

LEMMA CoreReturnsInv ==
  ASSUME OneWay, Inv, NEW p \in Processes, CoreReturns(p)
  PROVE  Inv' /\ stored # NoRecord /\ stored' # NoRecord
              /\ stored'.steps = stored.steps
<1> USE DEF Inv, CoreReturns, HookEnds
<1>1. Live(p) /\ parent[p] = NoProcess /\ Sole(p)
  BY CreateIsSole
<1>2. stored # NoRecord /\ stored \in Records /\ copy[p] = stored
  <2>1. hook[p] \notin Setting
    BY HookAssumption DEF ProcessInv, OneWay
  <2>2. stored # NoRecord /\ copy[p].env = stored.env /\ copy[p].steps = stored.steps
    BY <1>1, <2>1 DEF CopyInv
  <2>3. stored \in Records /\ copy[p] \in Records
    BY <2>2 DEF TypeOK
  <2>4. /\ stored = [env |-> stored.env, steps |-> stored.steps]
        /\ copy[p] = [env |-> copy[p].env, steps |-> copy[p].steps]
    BY <2>3 DEF Records
  <2> QED BY <2>2, <2>3, <2>4
<1>3. PICK K \in SUBSET GlobalKeys, reset \in BOOLEAN :
        /\ given' = Given(K)
        /\ told' = Override(told, New(K))
        /\ stored' = IF reset \/ K # {}
                     THEN [copy[p] EXCEPT !.env = Override(@, New(K))] ELSE stored
  OBVIOUS
<1>4. stored' = [stored EXCEPT !.env = Override(@, New(K))]
  <2>1. CASE reset \/ K # {}
    BY <1>2, <1>3, <2>1
  <2>2. CASE ~reset /\ K = {}
    <3>1. Override(stored.env, New(K)) = stored.env
      BY <1>2, <2>2, OverrideByNothing, ValuesType DEF Records
    <3> QED BY <1>2, <1>3, <2>2, <3>1 DEF Records
  <2> QED BY <2>1, <2>2
<1>5. /\ ValueInv' /\ stored' # NoRecord /\ stored'.steps = stored.steps
      /\ stored' \in Records /\ given' \in Values /\ told' \in Values
  <2>1. K \in SUBSET Keys
    BY DEF Keys
  <2> QED BY <1>2, <1>3, <1>4, <2>1, PutInv
<1>6. TypeOK' /\ ProcessInv' /\ \A q \in Processes : CopyInv(q)'
  BY <1>1, <1>5, EndsAlone
<1> QED BY <1>2, <1>5, <1>6

LEMMA CoreFailsInv ==
  ASSUME Inv, NEW p \in Processes, CoreFails(p)
  PROVE  Inv'
<1> USE DEF Inv, CoreFails, HookEnds
<1>1. Live(p) /\ parent[p] = NoProcess /\ Sole(p)
  BY CreateIsSole
<1>2. TypeOK' /\ ProcessInv' /\ \A q \in Processes : CopyInv(q)'
  BY <1>1, EndsAlone DEF TypeOK, values
<1>3. ValueInv'
  BY DEF ValueInv, values
<1> QED BY <1>2, <1>3

LEMMA RemoveInv ==
  ASSUME Inv, NEW p \in Processes, Remove(p)
  PROVE  Inv' /\ stored' = NoRecord
<1> USE DEF Inv, Remove
<1>1. command[p] = "delete"
  BY DEF ProcessInv, PcsOf, TypeOK, Commands
<1>2. Live(p) /\ parent[p] = NoProcess /\ Sole(p)
  BY <1>1, CommandIsSole DEF ProcessInv, Live
<1>3. TypeOK' /\ ProcessInv' /\ \A q \in Processes : CopyInv(q)'
  BY <1>2, EndsAlone, ValuesType DEF TypeOK
<1>4. ValueInv'
  BY DEF ValueInv
<1> QED BY <1>3, <1>4

-----------------------------------------------------------------------------
\* While the child of a hook lives, only its parent does.
LEMMA OnlyFamily ==
  ASSUME TypeOK, ProcessInv, NEW c \in Processes, Live(c), parent[c] # NoProcess
  PROVE  /\ parent[c] \in Processes /\ parent[c] # c
         /\ \A q \in Processes : Live(q) => q = c \/ q = parent[c]
<1>1. /\ parent[c] \in Processes /\ Live(parent[c])
      /\ parent[parent[c]] = NoProcess /\ parent[c] # c
  BY DEF TypeOK, ProcessInv
<1>2. ASSUME NEW q \in Processes, Live(q), q # parent[c]
      PROVE  q = c
  <2>1. parent[q] # NoProcess
    BY <1>1, <1>2 DEF ProcessInv
  <2>2. parent[q] \in Processes /\ Live(parent[q]) /\ parent[parent[q]] = NoProcess
    BY <1>2, <2>1 DEF TypeOK, ProcessInv
  <2>3. parent[q] = parent[c]
    BY <1>1, <2>2 DEF ProcessInv
  <2> QED BY <1>2, <2>3 DEF ProcessInv
<1> QED BY <1>1, <1>2

LEMMA StoreSetInv ==
  ASSUME Inv, NEW p \in Processes, StoreSet(p)
  PROVE  Inv' /\ stored # NoRecord /\ stored' # NoRecord
              /\ stored'.steps = stored.steps
<1> USE DEF Inv, StoreSet
<1>1. command[p] = "set" /\ Live(p)
  BY DEF ProcessInv, PcsOf, TypeOK, Commands, Live
<1>2. stored # NoRecord /\ copy[p] = stored
  BY <1>1 DEF CopyInv
<1>3. /\ ValueInv' /\ stored' # NoRecord /\ stored'.steps = stored.steps
      /\ stored' \in Records /\ given' \in Values /\ told' \in Values
      /\ Older(stored.env, stored'.env)
  <2>1. PICK k \in SetKeys :
          /\ given' = Given({k})
          /\ told' = Override(told, New({k}))
          /\ stored' = [stored EXCEPT !.env = Override(@, New({k}))]
    BY <1>2
  <2>2. {k} \in SUBSET Keys
    BY DEF Keys
  <2> QED BY <1>2, <2>1, <2>2, PutInv
<1>4. CASE parent[p] = NoProcess
  <2>1. Sole(p)
    BY <1>1, <1>4, CommandIsSole
  <2> QED BY <1>2, <1>3, <2>1, EndsAlone
<1>5. CASE parent[p] # NoProcess
  <2>1. PICK q \in Processes :
          /\ q = parent[p] /\ q # p
          /\ \A r \in Processes : Live(r) => r = p \/ r = q
    BY <1>1, <1>5, OnlyFamily
  <2>2. /\ Live(q) /\ parent[q] = NoProcess /\ pc[q] = "hook" /\ hook[q] \in Setting
        /\ pc[q] \in PcsOf(command[q])
    BY <1>1, <1>5, <2>1 DEF ProcessInv
  <2>3. /\ pc'[q] = pc[q] /\ command'[q] = command[q] /\ pc'[p] = "end"
        /\ UNCHANGED <<parent, copy, hook, printed>>
    BY <2>1 DEF End
  <2>4. \A r \in Processes : r # q => ~Live(r)' /\ pc'[r] = "end"
    BY <2>1 DEF End, Live, TypeOK
  <2>5. Sole(q)'
    BY <2>4 DEF Sole
  <2>6. TypeOK'
    <3>1. \A r \in Processes : pc'[r] # "end" /\ parent'[r] # NoProcess
                                  => pc'[parent'[r]] = "hook"
      BY <2>2, <2>3, <2>4
    <3> QED BY <1>3, <3>1, EndType DEF TypeOK, budget
  <2>7. CopyInv(q)'
    <3>1. /\ copy[q].steps = stored.steps /\ Older(copy[q].env, stored.env)
      BY <2>1, <2>2 DEF CopyInv
    <3>2. Older(copy[q].env, stored'.env)
      BY <1>2, <1>3, <2>1, <3>1, OlderTransitive DEF TypeOK, Records
    <3> QED BY <1>3, <2>2, <2>3, <3>1, <3>2 DEF CopyInv
  <2>8. ProcessInv' /\ \A r \in Processes : CopyInv(r)'
    <3>1. /\ command'[q] = "create" /\ pc'[q] # "init" /\ pc'[q] # "next"
                => hook'[q] \in Steps
          /\ command'[q] = "core" => hook'[q] \in CoreHooks
      BY <2>1, <2>2, <2>3 DEF ProcessInv
    <3>2. pc'[q] \in PcsOf(command'[q]) /\ parent'[q] = NoProcess
      BY <2>2, <2>3
    <3> QED BY <2>1, <2>5, <2>6, <2>7, <3>1, <3>2, SoleInv
  <2> QED BY <1>2, <1>3, <2>6, <2>8
<1> QED BY <1>4, <1>5

LEMMA HookSetsInv ==
  ASSUME OneWay, Inv, NEW p \in Processes, NEW c \in Processes, HookSets(p, c)
  PROVE  Inv'
<1> USE DEF Inv, HookSets, Start
<1>1. Live(p) /\ parent[p] = NoProcess /\ Sole(p) /\ c # p
  BY CreateIsSole
<1>2. /\ pc[p] = "hook" /\ hook[p] \in Setting /\ pc[p] \in PcsOf(command[p])
      /\ stored # NoRecord /\ stored \in Records
  BY <1>1 DEF CopyInv, ProcessInv, TypeOK
<1>3. /\ pc'[p] = pc[p] /\ command'[p] = command[p] /\ parent'[p] = NoProcess
      /\ copy'[p] = copy[p] /\ hook' = hook
      /\ pc'[c] = "write" /\ command'[c] = "set" /\ parent'[c] = p /\ copy'[c] = stored
      /\ UNCHANGED <<stored, given, told>>
  BY <1>1, <1>2 DEF TypeOK, values
<1>4. ASSUME NEW q \in Processes, q # p, q # c
      PROVE  pc'[q] = "end" /\ command'[q] = "none"
  BY <1>1, <1>4 DEF Sole, Live, TypeOK
<1>5. TypeOK'
  <2>1. \A q \in Processes : pc'[q] = "end" <=> command'[q] = "none"
    BY <1>2, <1>3, <1>4 DEF TypeOK
  <2>2. \A q \in Processes : pc'[q] # "end" /\ parent'[q] # NoProcess
                                => pc'[parent'[q]] = "hook"
    BY <1>2, <1>3, <1>4
  <2>3. /\ command' \in [Processes -> Commands \cup {"none"}] /\ pc' \in [Processes -> Pcs]
        /\ parent' \in [Processes -> Processes \cup {NoProcess}]
        /\ copy' \in [Processes -> Records] /\ printed' \in [Processes -> Values]
    BY <1>2, ValuesType DEF TypeOK, Commands, Pcs
  <2> QED BY <1>3, <2>1, <2>2, <2>3 DEF TypeOK
<1>6. ProcessInv'
  <2>1. p # NoProcess
    BY SentinelAssumption
  <2>2. ASSUME NEW q \in Processes
        PROVE  /\ pc'[q] \in PcsOf(command'[q])
               /\ command'[q] = "create" /\ pc'[q] # "init" /\ pc'[q] # "next"
                     => hook'[q] \in Steps
               /\ command'[q] = "core" => hook'[q] \in CoreHooks
    <3>1. CASE q = p
      BY <1>1, <1>2, <1>3, <3>1 DEF ProcessInv
    <3>2. CASE q # p
      BY <1>3, <1>4, <3>2 DEF PcsOf
    <3> QED BY <3>1, <3>2
  <2>3. \A q \in Processes : Live(q)' /\ parent'[q] # NoProcess =>
              /\ command'[q] = "set"
              /\ Live(parent[q])' /\ parent'[parent'[q]] = NoProcess
              /\ pc'[parent'[q]] = "hook" /\ hook'[parent'[q]] \in Setting
    BY <1>1, <1>2, <1>3, <1>4 DEF Live
  <2>4. \A q, r \in Processes : Live(q)' /\ Live(r)' /\ parent'[q] = parent'[r] => q = r
    BY <1>3, <1>4, <2>1 DEF Live
  <2> QED BY <2>2, <2>3, <2>4 DEF ProcessInv
<1>7. ASSUME NEW q \in Processes PROVE CopyInv(q)'
  <2>1. CASE q = p
    BY <1>1, <1>2, <1>3, <2>1 DEF CopyInv
  <2>2. CASE q = c
    BY <1>2, <1>3, <2>2 DEF CopyInv
  <2>3. CASE q # p /\ q # c
    BY <1>4, <2>3 DEF CopyInv, Live
  <2> QED BY <2>1, <2>2, <2>3
<1>8. ValueInv'
  BY <1>3 DEF ValueInv
<1> QED BY <1>5, <1>6, <1>7, <1>8

LEMMA KillInv ==
  ASSUME Inv, NEW p \in Processes, Kill(p)
  PROVE  Inv'
<1> USE DEF Inv, Kill
<1>1. \A q \in Processes : Live(q) => q = p \/ q \in Children(p)
  <2> SUFFICES ASSUME NEW q \in Processes, Live(q), q # p, q \notin Children(p)
               PROVE  FALSE
    OBVIOUS
  <2>1. parent[q] # NoProcess
    BY DEF ProcessInv
  <2>2. parent[q] = p
    BY <2>1, OnlyFamily
  <2> QED BY <2>2 DEF Children
<1>2. \A q \in Processes : ~Live(q)' /\ pc'[q] = "end"
  BY <1>1 DEF End, Live, TypeOK
<1>3. TypeOK'
  <2>1. kills' \in Nat
    BY DEF TypeOK
  <2>2. End({p} \cup Children(p))
    OBVIOUS
  <2> QED BY <1>2, <2>1, <2>2, EndType DEF TypeOK, values
<1>4. ProcessInv' /\ \A q \in Processes : CopyInv(q)'
  BY <1>2, <1>3, NobodyInv
<1>5. ValueInv'
  BY DEF ValueInv, values
<1> QED BY <1>3, <1>4, <1>5

-----------------------------------------------------------------------------
LEMMA Preserved == OneWay /\ Inv /\ [Next]_vars => Inv'
<1> SUFFICES ASSUME OneWay, Inv, [Next]_vars PROVE Inv'
  OBVIOUS
<1>1. CASE UNCHANGED vars
  BY <1>1 DEF vars, process, values, budget, Inv, TypeOK, ProcessInv, PcsOf,
     CopyInv, ValueInv, Live
<1>2. CASE Next
  <2>1. PICK p \in Processes :
          \/ Launch(p) \/ InitRecord(p) \/ RunHook(p)
          \/ \E c \in Processes : HookSets(p, c)
          \/ StepReturns(p) \/ Reload(p) \/ Checkpoint(p) \/ StepFails(p)
          \/ SaveProvisioned(p)
          \/ CoreReturns(p) \/ CoreFails(p)
          \/ StoreSet(p) \/ Remove(p) \/ Kill(p)
    BY <1>2 DEF Next
  <2> QED BY <2>1, LaunchInv, InitRecordInv, RunHookInv, HookSetsInv, StepReturnsInv,
          ReloadInv, CheckpointInv, StepFailsInv, SaveProvisionedInv, CoreReturnsInv,
          CoreFailsInv, StoreSetInv, RemoveInv, KillInv
<1> QED BY <1>1, <1>2

LEMMA Invariance == ASSUME OneWay PROVE Spec => []Inv
<1>1. OneWay
  OBVIOUS
<1>2. Inv /\ [Next]_vars => Inv'
  BY <1>1, Preserved
<1> QED BY <1>2, Initially, PTL DEF Spec

\* A value that "store set" acknowledged, or that a core hook printed, stays in
\* the store until the environment is deleted: the engine's reload before each
\* checkpoint (domain/manager.go, step) is enough for any number of steps,
\* children and kills, as long as commands follow each other and hooks keep to
\* the ways OneWay allows.
THEOREM ValuesKept == ASSUME OneWay PROVE Spec => []StoreKeeps
<1>1. Inv => StoreKeeps
  BY DEF Inv, ValueInv, StoreKeeps, Older, TypeOK, Records, Values
<1>2. Spec => []Inv
  BY Invariance
<1> QED BY <1>1, <1>2, PTL

\* Under the same assumptions no completed step is forgotten, although every
\* process writes back the whole record it read.
THEOREM StepsKept == ASSUME OneWay PROVE Spec => CheckpointsKept
<1>1. Inv /\ [Next]_vars =>
        [stored # NoRecord /\ stored' # NoRecord => stored.steps \subseteq stored'.steps]_vars
  <2> SUFFICES ASSUME Inv, [Next]_vars, stored # NoRecord, stored' # NoRecord
               PROVE  stored.steps \subseteq stored'.steps
    OBVIOUS
  <2>1. CASE UNCHANGED vars
    BY <2>1 DEF vars
  <2>2. ASSUME NEW p \in Processes, Launch(p) \/ \E c \in Processes : HookSets(p, c)
        PROVE  stored' = stored
    BY <2>2 DEF Launch, HookSets, Start
  <2>3. ASSUME NEW p \in Processes,
               RunHook(p) \/ StepReturns(p) \/ Reload(p) \/ CoreFails(p) \/ Kill(p)
        PROVE  stored' = stored
    BY <2>3 DEF RunHook, StepReturns, Reload, CoreFails, Kill
  <2>4. ASSUME NEW p \in Processes, InitRecord(p)
        PROVE  FALSE
    BY <2>4 DEF InitRecord, Goto, Inv, CopyInv
  <2>5. ASSUME NEW p \in Processes,
               \/ Checkpoint(p) \/ StepFails(p) \/ SaveProvisioned(p)
               \/ CoreReturns(p) \/ StoreSet(p) \/ Remove(p)
        PROVE  stored.steps \subseteq stored'.steps
    BY <2>5, CheckpointInv, StepFailsInv, SaveProvisionedInv, CoreReturnsInv,
       StoreSetInv, RemoveInv
  <2> QED BY <2>1, <2>2, <2>3, <2>4, <2>5 DEF Next
<1>2. Spec => []Inv
  BY Invariance
<1> QED BY <1>1, <1>2, PTL DEF Spec, CheckpointsKept

-----------------------------------------------------------------------------
(***************************************************************************)
(* Without OneWay: any commands at once, any hooks that set, print or      *)
(* fail.  Then values are lost, but still no "store set" of a hook         *)
(* outlives the hook.                                                      *)
(***************************************************************************)

\* Only the hook of a live user's command has a live child.
FamilyInv ==
    \A p \in Processes :
        /\ pc[p] \in PcsOf(command[p])
        /\ command[p] = "create" /\ pc[p] \notin {"init", "next"} => hook[p] \in Steps
        /\ Live(p) /\ parent[p] # NoProcess =>
              /\ command[p] = "set"
              /\ Live(parent[p]) /\ parent[parent[p]] = NoProcess
              /\ pc[parent[p]] = "hook"

TypeInv == TypeOK /\ FamilyInv

\* A process goes on; if it has a child, it is still in its hook.
LEMMA GoesOnFamily ==
  ASSUME TypeInv, NEW p \in Processes, Live(p),
         NEW to \in PcsOf(command[p]), to # "end",
         pc' = [pc EXCEPT ![p] = to], UNCHANGED <<command, parent>>,
         hook' \in [Processes -> Steps \cup CoreHooks \cup {NoHook}],
         \A q \in Processes : q # p => hook'[q] = hook[q],
         command[p] = "create" /\ to \notin {"init", "next"} => hook'[p] \in Steps,
         pc[p] # "hook" \/ Children(p) = {}
  PROVE  /\ FamilyInv'
         /\ pc' \in [Processes -> Pcs]
         /\ \A q \in Processes : pc'[q] = "end" <=> command'[q] = "none"
         /\ \A q \in Processes :
               pc'[q] # "end" /\ parent'[q] # NoProcess => pc'[parent'[q]] = "hook"
<1> USE DEF TypeInv
<1>1. to \in Pcs
  BY DEF PcsOf, Pcs, Live, TypeOK, Commands
<1>2. \A q \in Processes : Live(q) => parent[q] # p
  BY SentinelAssumption DEF FamilyInv, Children
<1>3. FamilyInv'
  <2> SUFFICES ASSUME NEW q \in Processes
               PROVE  /\ pc'[q] \in PcsOf(command'[q])
                      /\ command'[q] = "create" /\ pc'[q] \notin {"init", "next"}
                            => hook'[q] \in Steps
                      /\ Live(q)' /\ parent'[q] # NoProcess =>
                            /\ command'[q] = "set"
                            /\ Live(parent[q])' /\ parent'[parent'[q]] = NoProcess
                            /\ pc'[parent'[q]] = "hook"
    BY DEF FamilyInv, Live
  <2>1. pc'[q] = IF q = p THEN to ELSE pc[q]
    BY DEF TypeOK
  <2>2. Live(q) /\ parent[q] # NoProcess => parent[q] # p /\ parent[q] \in Processes
    BY <1>2 DEF TypeOK
  <2>3. Live(q) /\ parent[q] # NoProcess => pc'[parent[q]] = pc[parent[q]]
    BY <2>2 DEF TypeOK
  <2> QED BY <2>1, <2>2, <2>3 DEF FamilyInv, Live
<1>4. \A q \in Processes : pc'[q] = "end" <=> command'[q] = "none"
  BY DEF TypeOK, Live
<1>5. \A q \in Processes :
         pc'[q] # "end" /\ parent'[q] # NoProcess => pc'[parent'[q]] = "hook"
  BY <1>3, <1>4 DEF FamilyInv, Live
<1> QED BY <1>1, <1>3, <1>4, <1>5 DEF TypeOK

\* Processes end, and their children with them.
LEMMA EndFamily ==
  ASSUME TypeInv, NEW P \in SUBSET Processes, \A p \in P : Children(p) \subseteq P,
         End(P), stored' \in Records \cup {NoRecord}, given' \in Values, told' \in Values,
         launches' \in Nat, kills' \in Nat
  PROVE  TypeInv'
<1> USE DEF TypeInv
<1>1. \A q \in Processes : /\ command'[q] = IF q \in P THEN "none" ELSE command[q]
                           /\ pc'[q] = IF q \in P THEN "end" ELSE pc[q]
                           /\ parent'[q] = parent[q] /\ hook'[q] = hook[q]
  BY DEF End
<1>2. \A q \in Processes : Live(q)' /\ parent[q] # NoProcess
         => Live(q) /\ parent[q] \notin P /\ parent[q] \in Processes
  BY <1>1 DEF Live, Children, TypeOK
<1>3. FamilyInv'
  <2> SUFFICES ASSUME NEW q \in Processes
               PROVE  /\ pc'[q] \in PcsOf(command'[q])
                      /\ command'[q] = "create" /\ pc'[q] \notin {"init", "next"}
                            => hook'[q] \in Steps
                      /\ Live(q)' /\ parent'[q] # NoProcess =>
                            /\ command'[q] = "set"
                            /\ Live(parent[q])' /\ parent'[parent'[q]] = NoProcess
                            /\ pc'[parent'[q]] = "hook"
    BY DEF FamilyInv, Live
  <2>1. CASE q \in P
    BY <1>1, <2>1 DEF PcsOf, Live
  <2>2. CASE q \notin P
    <3>1. /\ pc'[q] = pc[q] /\ command'[q] = command[q] /\ hook'[q] = hook[q]
          /\ parent'[q] = parent[q]
      BY <1>1, <2>2
    <3>2. Live(q) /\ parent[q] # NoProcess =>
             /\ command'[parent[q]] = command[parent[q]] /\ pc'[parent[q]] = pc[parent[q]]
             /\ parent'[parent[q]] = parent[parent[q]]
      BY <1>1, <1>2, <3>1 DEF Live
    <3> QED BY <3>1, <3>2 DEF FamilyInv, Live
  <2> QED BY <2>1, <2>2
<1>4. \A q \in Processes : pc'[q] = "end" <=> command'[q] = "none"
  BY EndType
<1>5. \A q \in Processes :
         pc'[q] # "end" /\ parent'[q] # NoProcess => pc'[parent'[q]] = "hook"
  BY <1>3, <1>4 DEF FamilyInv, Live
<1> QED BY <1>3, <1>4, <1>5, EndType DEF TypeOK

\* A process starts, at the hand of a user or of a hook.
LEMMA StartFamily ==
  ASSUME TypeInv, NEW p \in Processes, NEW c \in Commands,
         NEW by \in Processes \cup {NoProcess}, NEW at \in PcsOf(c), Start(p, c, by, at),
         by # NoProcess => /\ c = "set" /\ pc[by] = "hook",
         hook' \in [Processes -> Steps \cup CoreHooks \cup {NoHook}],
         \A q \in Processes : q # p => hook'[q] = hook[q],
         c = "create" => at \in {"init", "next"},
         launches' \in Nat
  PROVE  TypeInv'
<1> USE DEF TypeInv, Start
<1>1. at \in Pcs /\ at # "end" /\ c # "none"
  BY DEF PcsOf, Pcs, Commands
<1>2. /\ \A q \in Processes : Live(q) => q # p
      /\ \A q \in Processes : Live(q) /\ parent[q] # NoProcess =>
            parent[q] # p /\ parent[q] \in Processes
  BY DEF FamilyInv, TypeOK
<1>3. by # NoProcess => Live(by) /\ parent[by] = NoProcess
  BY DEF FamilyInv, TypeOK, Live, PcsOf, Commands
<1>4. /\ command' \in [Processes -> Commands \cup {"none"}]
      /\ pc' \in [Processes -> Pcs]
      /\ parent' \in [Processes -> Processes \cup {NoProcess}]
      /\ copy' \in [Processes -> Records] /\ printed' \in [Processes -> Values]
  BY <1>1, ValuesType DEF TypeOK
<1>5. \A q \in Processes :
         /\ command'[q] = (IF q = p THEN c ELSE command[q])
         /\ pc'[q] = (IF q = p THEN at ELSE pc[q])
         /\ parent'[q] = (IF q = p THEN by ELSE parent[q])
  BY DEF TypeOK
<1>6. FamilyInv'
  <2> SUFFICES ASSUME NEW q \in Processes
               PROVE  /\ pc'[q] \in PcsOf(command'[q])
                      /\ command'[q] = "create" /\ pc'[q] \notin {"init", "next"}
                            => hook'[q] \in Steps
                      /\ Live(q)' /\ parent'[q] # NoProcess =>
                            /\ command'[q] = "set"
                            /\ Live(parent[q])' /\ parent'[parent'[q]] = NoProcess
                            /\ pc'[parent'[q]] = "hook"
    BY DEF FamilyInv, Live
  <2>1. CASE q = p
    <3>1. by # NoProcess => /\ by # p /\ command'[by] = command[by]
                            /\ pc'[by] = pc[by] /\ parent'[by] = parent[by]
      BY <1>3, <1>5
    <3> QED BY <1>3, <1>5, <2>1, <3>1 DEF Live
  <2>2. CASE q # p
    <3>1. Live(q) /\ parent[q] # NoProcess =>
             /\ command'[parent[q]] = command[parent[q]] /\ pc'[parent[q]] = pc[parent[q]]
             /\ parent'[parent[q]] = parent[parent[q]]
      BY <1>2, <1>5
    <3> QED BY <1>5, <2>2, <3>1 DEF FamilyInv, Live
  <2> QED BY <2>1, <2>2
<1>7. \A q \in Processes : pc'[q] = "end" <=> command'[q] = "none"
  BY <1>1, <1>5 DEF TypeOK
<1>8. \A q \in Processes :
         pc'[q] # "end" /\ parent'[q] # NoProcess => pc'[parent'[q]] = "hook"
  BY <1>6, <1>7 DEF FamilyInv, Live
<1> QED BY <1>4, <1>6, <1>7, <1>8 DEF TypeOK, values

\* A process whose hook has no child, or that is in no hook, has no child.
LEMMA Childless ==
  ASSUME TypeInv, NEW p \in Processes, Live(p), pc[p] # "hook" \/ Children(p) = {}
  PROVE  Children(p) = {}
  BY SentinelAssumption DEF TypeInv, FamilyInv, Children

\* The steps that start a process.
LEMMA StartsType ==
  ASSUME TypeInv, NEW p \in Processes,
         Launch(p) \/ \E c \in Processes : HookSets(p, c)
  PROVE  TypeInv'
<1>1. CASE Launch(p)
  <2>1. PICK c \in Commands, at \in Pcs :
          /\ Start(p, c, NoProcess, at) /\ at \in PcsOf(c)
          /\ c = "create" => at \in {"init", "next"}
    BY <1>1 DEF Launch, Commands, PcsOf, Pcs
  <2>2. /\ hook' \in [Processes -> Steps \cup CoreHooks \cup {NoHook}]
        /\ \A q \in Processes : q # p => hook'[q] = hook[q]
        /\ launches' \in Nat
    BY <1>1 DEF Launch, TypeInv, TypeOK
  <2> QED BY <2>1, <2>2, StartFamily
<1>2. ASSUME NEW c \in Processes, HookSets(p, c)
      PROVE  TypeInv'
  <2>1. /\ Start(c, "set", p, "write") /\ pc[p] = "hook" /\ UNCHANGED <<hook, launches>>
        /\ "set" \in Commands /\ "write" \in PcsOf("set")
    BY <1>2 DEF HookSets, Commands, PcsOf
  <2> QED BY <2>1, StartFamily DEF TypeInv, TypeOK
<1> QED BY <1>1, <1>2

\* The steps of create that stay in it.
LEMMA CreateType ==
  ASSUME TypeInv, NEW p \in Processes,
         InitRecord(p) \/ RunHook(p) \/ StepReturns(p) \/ Reload(p) \/ Checkpoint(p)
  PROVE  TypeInv'
<1> USE DEF TypeInv
<1>1. command[p] = "create" /\ Live(p) /\ copy[p] \in Records
  BY DEF InitRecord, RunHook, StepReturns, Reload, Checkpoint, Goto, FamilyInv, PcsOf,
         TypeOK, Commands, Live
<1>2. \A to : to \in {"next", "hook", "reload", "checkpoint"} =>
         to \in PcsOf(command[p]) /\ to # "end"
  BY <1>1 DEF PcsOf
<1>3. CASE InitRecord(p)
  BY <1>1, <1>2, <1>3, GoesOnFamily DEF InitRecord, Goto, TypeOK, values, budget
<1>4. CASE RunHook(p)
  <2>1. /\ hook' \in [Processes -> Steps \cup CoreHooks \cup {NoHook}] /\ hook'[p] \in Steps
        /\ \A q \in Processes : q # p => hook'[q] = hook[q]
    BY <1>4 DEF RunHook, TypeOK
  <2> QED BY <1>1, <1>2, <1>4, <2>1, GoesOnFamily DEF RunHook, Goto, TypeOK, values, budget
<1>5. CASE StepReturns(p)
  <2>1. PICK K \in SUBSET GlobalKeys :
          /\ given' = Given(K)
          /\ printed' = [printed EXCEPT ![p] = New(K)]
          /\ copy' = [copy EXCEPT ![p].env = Override(@, New(K)),
                                  ![p].steps = @ \cup {hook[p]}]
    BY <1>5 DEF StepReturns
  <2>2. hook[p] \in Steps
    BY <1>1, <1>5 DEF StepReturns, HookEnds, FamilyInv
  <2>3. Given(K) \in Values /\ New(K) \in Values /\ Override(copy[p].env, New(K)) \in Values
    BY <1>1, ValuesType DEF Keys, Records
  <2>4. /\ printed' \in [Processes -> Values] /\ given' \in Values
    BY <2>1, <2>3 DEF TypeOK
  <2>5. copy' \in [Processes -> Records]
    <3>1. \A r \in Records : \A e \in Values : \A s \in SUBSET Steps :
             [[r EXCEPT !.env = e] EXCEPT !.steps = s] \in Records
      BY DEF Records
    <3>2. copy[p].steps \cup {hook[p]} \in SUBSET Steps
      BY <1>1, <2>2 DEF Records
    <3>3. copy' = [copy EXCEPT ![p] =
             [[@ EXCEPT !.env = Override(copy[p].env, New(K))]
                EXCEPT !.steps = copy[p].steps \cup {hook[p]}]]
      BY <1>1, <2>1 DEF Records, TypeOK
    <3> QED BY <1>1, <2>3, <3>1, <3>2, <3>3 DEF TypeOK
  <2>6. UNCHANGED <<stored, command, parent, hook, told, budget>>
        /\ pc' = [pc EXCEPT ![p] = "reload"] /\ Children(p) = {}
    BY <1>5 DEF StepReturns, HookEnds
  <2> QED BY <1>1, <1>2, <2>2, <2>4, <2>5, <2>6, GoesOnFamily DEF TypeOK, budget
<1>6. CASE Reload(p)
  <2>1. copy' \in [Processes -> Records]
    BY <1>6 DEF Reload, TypeOK, Records
  <2>2. hook[p] \in Steps
    BY <1>1, <1>6 DEF Reload, Goto, FamilyInv
  <2> QED BY <1>1, <1>2, <1>6, <2>1, <2>2, GoesOnFamily
          DEF Reload, Goto, TypeOK, values, budget
<1>7. CASE Checkpoint(p)
  <2>1. told' \in Values
    BY <1>7, ValuesType DEF Checkpoint, TypeOK
  <2> QED BY <1>1, <1>2, <1>7, <2>1, GoesOnFamily DEF Checkpoint, Goto, TypeOK, budget
<1> QED BY <1>3, <1>4, <1>5, <1>6, <1>7

\* The steps that end a process.
LEMMA EndsType ==
  ASSUME TypeInv, NEW p \in Processes,
         \/ StepFails(p) \/ SaveProvisioned(p) \/ CoreReturns(p) \/ CoreFails(p)
         \/ StoreSet(p) \/ Remove(p)
  PROVE  TypeInv'
<1> USE DEF TypeInv
<1>1. /\ End({p}) /\ UNCHANGED budget /\ copy[p] \in Records
      /\ Live(p) /\ (pc[p] # "hook" \/ Children(p) = {})
  BY DEF StepFails, SaveProvisioned, CoreReturns, CoreFails, StoreSet, Remove, HookEnds,
         FamilyInv, PcsOf, Live, TypeOK
<1>2. Children(p) = {}
  BY <1>1, Childless
<1>3. \A K \in SUBSET Keys : /\ Given(K) \in Values /\ Override(told, New(K)) \in Values
                             /\ [copy[p] EXCEPT !.env = Override(@, New(K))] \in Records
  BY <1>1, ValuesType DEF TypeOK, Records
<1>4. stored' \in Records \cup {NoRecord} /\ given' \in Values /\ told' \in Values
  <2>1. CASE StepFails(p) \/ SaveProvisioned(p) \/ CoreFails(p) \/ Remove(p)
    BY <1>1, <2>1, ValuesType
    DEF StepFails, SaveProvisioned, CoreFails, Remove, TypeOK, values
  <2>2. CASE CoreReturns(p)
    BY <1>3, <2>2 DEF CoreReturns, Keys, TypeOK
  <2>3. CASE StoreSet(p)
    BY <1>3, <2>3 DEF StoreSet, Keys
  <2> QED BY <2>1, <2>2, <2>3
<1>5. launches' \in Nat /\ kills' \in Nat
  BY <1>1 DEF budget, TypeOK
<1> QED BY <1>1, <1>2, <1>4, <1>5, EndFamily

\* A child has no child.
LEMMA KillType ==
  ASSUME TypeInv, NEW p \in Processes, Kill(p)
  PROVE  TypeInv'
<1> USE DEF TypeInv
<1> DEFINE P == {p} \cup Children(p)
<1>1. P \subseteq Processes /\ \A q \in P : Children(q) \subseteq P
  BY SentinelAssumption DEF Children, FamilyInv
<1>2. /\ End(P) /\ UNCHANGED <<stored, values, launches>> /\ kills' \in Nat
  BY DEF Kill, TypeOK
<1> HIDE DEF P
<1> QED BY <1>1, <1>2, EndFamily DEF TypeOK, values

\* Whatever runs at once, and whatever the hooks do: every process is where its
\* command can be, and a "store set" of a hook never outlives that hook, not
\* even when its command is killed (cmd.Run, outbound/local and inbound/cli).
THEOREM TypeCorrect == Spec => []TypeOK
<1>1. Init => TypeInv
  <2> SUFFICES ASSUME Init PROVE TypeInv
    OBVIOUS
  <2>1. TypeOK
    BY Initially DEF Inv
  <2> QED BY <2>1 DEF Init, TypeInv, FamilyInv, PcsOf, Live
<1>2. TypeInv /\ [Next]_vars => TypeInv'
  <2> SUFFICES ASSUME TypeInv, [Next]_vars PROVE TypeInv'
    OBVIOUS
  <2>1. CASE UNCHANGED vars
    BY <2>1 DEF vars, process, values, budget, TypeInv, TypeOK, FamilyInv, Live
  <2>2. CASE Next
    BY <2>2, StartsType, CreateType, EndsType, KillType DEF Next
  <2> QED BY <2>1, <2>2
<1>3. TypeInv => TypeOK
  BY DEF TypeInv
<1> QED BY <1>1, <1>2, <1>3, PTL DEF Spec
=============================================================================
