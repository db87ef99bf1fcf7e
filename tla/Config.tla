------------------------------- MODULE Config -------------------------------
(***************************************************************************)
(* From the configuration files to the manifest: a base file and the       *)
(* overlay of the mode are merged (domain/config.go), "vet" validates the  *)
(* result (validate.go) and sorts the services by their dependencies       *)
(* (dependency_graph.go), and a create, which nothing obliges to wait for  *)
(* vet, allocates ports (port_allocator.go), runs the seed hooks and       *)
(* renders the env blocks into the manifest (manifest.go, template.go).    *)
(*                                                                         *)
(* Names are numbers in their string order.  Fields that no check and no   *)
(* template looks at are left out; so are paths in the file system, the    *)
(* templates in start commands, and the proxy rules.  A definition named   *)
(* Faulty... is a wrong version of a later one; no specification uses it.  *)
(***************************************************************************)
EXTENDS Naturals, Integers, Sequences, FiniteSets, SequencesExt

CONSTANTS
    Names,      \* of application, infrastructure and provisioner services
    Keys,       \* of env blocks
    Outputs,    \* of hooks, and keys of the store
    Store,      \* the keys of the store that are set
    BlockStart, BlockSize,  \* the ports of an environment
    Files       \* pairs of a base and an overlay file

ASSUME NameAssumption == Names \subseteq Nat
ASSUME StoreAssumption == Store \subseteq Outputs
ASSUME BlockAssumption == BlockStart \in Nat \ {0} /\ BlockSize \in Nat

\* A template variable.  Malformed ones are in namespace "malformed".
Namespaces == {"self", "services", "infrastructure", "provisioner", "env",
               "store", "proxy.url", "proxy.domain", "malformed"}
Refs == [ns : Namespaces, name : Names, out : Outputs]

Block == BlockStart..(BlockStart + BlockSize - 1)

\* What a name that needs a port names.
Kinds == {"service", "infra"}

\* What f has, and what g has besides.
Over(f, g) == [x \in DOMAIN f \cup DOMAIN g |-> IF x \in DOMAIN f THEN f[x] ELSE g[x]]

\* A finite set as a sequence, in the order of a relation.
InOrder(S, R) ==
    [i \in 1..Cardinality(S) |-> CHOOSE x \in S : Cardinality({y \in S : <<y, x>> \in R}) = i - 1]

\* A function on some of D.
IsPartial(f, D, R) == DOMAIN f \subseteq D /\ f \in [DOMAIN f -> R]

\* ServiceConfig; "", 0 and <<>> are what YAML leaves in a field not given.
IsService(s) ==
    /\ s.path \in {"", "dir"} /\ s.port \in Nat /\ s.deps \in Seq(Names)
    /\ IsPartial(s.env, Keys, Refs)

\* ProjectConfig.  infra: the services of the compose file, if one is given,
\* with their base port; 0 when it maps none.
IsConfig(c) ==
    /\ DOMAIN c.services \subseteq Names /\ IsFiniteSet(DOMAIN c.services)
    /\ \A n \in DOMAIN c.services : IsService(c.services[n])
    /\ IsPartial(c.provisioners, Names, [outputs : SUBSET Outputs, seed : BOOLEAN])
    /\ c.compose \in BOOLEAN
    /\ IsPartial(c.infra, Names, Nat) /\ IsFiniteSet(DOMAIN c.infra)
    /\ c.domain \in BOOLEAN

ASSUME FilesAssumption == \A f \in Files : IsConfig(f[1]) /\ IsConfig(f[2])

VARIABLES
    base, overlay,  \* as they are parsed
    cfg,            \* the merged configuration
    pc,
    inDegree,   \* of TopologicalSort
    queue,
    pending,    \* the dependents of the node popped last, how often each
    result,     \* the nodes popped
    accepted,   \* what vet says
    todo,       \* the names that have no port yet
    offset,
    busy,       \* ports that were probed and found taken
    ports,
    printed     \* the outputs of the seed hooks

sort == <<inDegree, queue, pending, result>>
allocation == <<todo, offset, busy, ports>>
vars == <<base, overlay, cfg, pc, sort, accepted, allocation, printed>>

Pcs == {"load", "invalid", "sort", "release", "vetted", "allocate", "exhausted",
        "seed", "render", "built", "unrendered"}

TypeOK ==
    /\ IsConfig(cfg) /\ pc \in Pcs
    /\ IsPartial(inDegree, Names, Nat)
    /\ queue \in Seq(Names) /\ result \in Seq(Names)
    /\ IsPartial(pending, Names, Nat)
    /\ accepted \in BOOLEAN
    /\ todo \in Seq(Names \X Kinds)
    /\ offset \in 0..BlockSize /\ busy \subseteq Block
    /\ IsPartial(ports, Names, Nat)
    /\ IsPartial(printed, Names, SUBSET Outputs)

ServiceNames == DOMAIN cfg.services
Infra == DOMAIN cfg.infra
Provisioners == DOMAIN cfg.provisioners

Init ==
    /\ \E f \in Files : base = f[1] /\ overlay = f[2]
    /\ cfg = base /\ pc = "load"
    /\ inDegree = <<>> /\ queue = <<>> /\ pending = <<>> /\ result = <<>>
    /\ accepted = FALSE
    /\ todo = <<>> /\ offset = 0 /\ busy = {} /\ ports = <<>>
    /\ printed = <<>>

-----------------------------------------------------------------------------
(***************************************************************************)
(* Loading: deepMergeConfig.                                               *)
(***************************************************************************)

\* What the overlay gives replaces what the base file gives.
Given(new, old, unset) == IF new = unset THEN old ELSE new

MergedService(b, o) ==
    [path |-> Given(o.path, b.path, ""), port |-> Given(o.port, b.port, 0),
     deps |-> Given(o.deps, b.deps, <<>>), env |-> Over(o.env, b.env)]

MergedProvisioner(b, o) ==
    [outputs |-> Given(o.outputs, b.outputs, {}), seed |-> b.seed \/ o.seed]

\* By key; what both have is merged field by field.
MergedConfig(b, o) ==
    [services |-> Over([n \in DOMAIN b.services \cap DOMAIN o.services |->
                           MergedService(b.services[n], o.services[n])],
                       Over(b.services, o.services)),
     provisioners |-> Over([n \in DOMAIN b.provisioners \cap DOMAIN o.provisioners |->
                               MergedProvisioner(b.provisioners[n], o.provisioners[n])],
                           Over(b.provisioners, o.provisioners)),
     compose |-> b.compose \/ o.compose,
     infra |-> IF o.compose THEN o.infra ELSE b.infra,
     domain |-> b.domain \/ o.domain]

\* validateConfig, of the base file only.
Complete(c) ==
    /\ \A s \in DOMAIN c.services : c.services[s].path # ""
    /\ \A p \in DOMAIN c.provisioners : c.provisioners[p].outputs # {}

Load ==
    /\ pc = "load"
    /\ \/ ~Complete(base) /\ pc' = "invalid" /\ UNCHANGED cfg
       \/ Complete(base) /\ pc' = "sort" /\ cfg' = MergedConfig(base, overlay)
    /\ UNCHANGED <<base, overlay, accepted, allocation, printed>>

-----------------------------------------------------------------------------
(***************************************************************************)
(* TopologicalSort.                                                        *)
(***************************************************************************)

\* How often s depends on d.
Edges(s, d) == Cardinality({i \in DOMAIN cfg.services[s].deps : cfg.services[s].deps[i] = d})

\* Waits for infrastructure services, too.
FaultyDegree(c, s) == Len(c.services[s].deps)

\* Counts a dependency that is listed twice once.
FaultyDegreeOnce(c, s) ==
    Cardinality({d \in DOMAIN c.services : \E i \in DOMAIN c.services[s].deps : c.services[s].deps[i] = d})

Degree(c, s) ==
    Cardinality({i \in DOMAIN c.services[s].deps : c.services[s].deps[i] \in DOMAIN c.services})

\* sortStrings
NameOrder == {p \in Names \X Names : p[1] < p[2]}

\* At the end of the queue.
FaultyInsertSorted(q, v) == Append(q, v)

\* The loop ends at the first name that is not smaller, or at the end.
IsPlace(q, v, i) == (\A j \in 1..(i - 1) : q[j] < v) /\ (i <= Len(q) => q[i] >= v)

InsertSorted(q, v) == InsertAt(q, CHOOSE i \in 1..(Len(q) + 1) : IsPlace(q, v, i), v)

StartSort ==
    IF pc' = "sort"
    THEN /\ inDegree' = [s \in DOMAIN cfg'.services |-> Degree(cfg', s)]
         /\ queue' = InOrder({s \in DOMAIN cfg'.services : inDegree'[s] = 0}, NameOrder)
         /\ UNCHANGED <<pending, result>>
    ELSE UNCHANGED sort

LoadAndSort == Load /\ StartSort

Pop ==
    /\ pc = "sort" /\ queue # <<>>
    /\ pc' = "release"
    /\ result' = Append(result, Head(queue))
    /\ queue' = Tail(queue)
    /\ pending' = [s \in ServiceNames |-> Edges(s, Head(queue))]
    /\ UNCHANGED <<base, overlay, cfg, inDegree, accepted, allocation, printed>>

\* One dependent, in an order that comes from a Go map.
Release(s) ==
    /\ pc = "release" /\ pending[s] > 0
    /\ pending' = [pending EXCEPT ![s] = @ - 1]
    /\ inDegree' = [inDegree EXCEPT ![s] = @ - 1]
    /\ queue' = IF inDegree'[s] = 0 THEN InsertSorted(queue, s) ELSE queue
    /\ UNCHANGED <<base, overlay, cfg, pc, result, accepted, allocation, printed>>

Released ==
    /\ pc = "release" /\ \A s \in ServiceNames : pending[s] = 0
    /\ pc' = "sort"
    /\ UNCHANGED <<base, overlay, cfg, sort, accepted, allocation, printed>>

-----------------------------------------------------------------------------
(***************************************************************************)
(* ValidateConfig.                                                         *)
(***************************************************************************)

\* validateRequired
Required == Complete(cfg)

\* validatePortCollisions: of infrastructure services among each other.
NoCollision == \A m, n \in Infra : m # n => cfg.infra[m] # cfg.infra[n]

\* validateDependencyRefs
DependenciesKnown ==
    \A s \in ServiceNames : \A i \in DOMAIN cfg.services[s].deps :
        cfg.services[s].deps[i] \in (ServiceNames \cup Infra \cup Provisioners) \ {s}

Sorted == Len(result) = Cardinality(ServiceNames)

\* Does not look at the declared outputs.
FaultyRefKnown(r) ==
    CASE r.ns = "self" -> TRUE
      [] r.ns = "services" -> r.name \in ServiceNames
      [] r.ns = "infrastructure" -> r.name \in Infra
      [] r.ns = "provisioner" -> r.name \in Provisioners
      [] OTHER -> FALSE

\* validateTemplateVars knows four of the seven namespaces.
RefKnown(r) ==
    CASE r.ns = "self" -> TRUE
      [] r.ns = "services" -> r.name \in ServiceNames
      [] r.ns = "infrastructure" -> r.name \in Infra
      [] r.ns = "provisioner" -> r.name \in Provisioners /\ r.out \in cfg.provisioners[r.name].outputs
      [] OTHER -> FALSE

RefsKnown == \A s \in ServiceNames : \A k \in DOMAIN cfg.services[s].env : RefKnown(cfg.services[s].env[k])

Vet ==
    /\ pc = "sort" /\ queue = <<>>
    /\ pc' = "vetted"
    /\ accepted' = (Required /\ NoCollision /\ DependenciesKnown /\ Sorted /\ RefsKnown)
    /\ UNCHANGED <<base, overlay, cfg, sort, allocation, printed>>

-----------------------------------------------------------------------------
(***************************************************************************)
(* A create with the same files: AllocatePortBlock, seed hooks, and        *)
(* BuildManifest.                                                          *)
(***************************************************************************)

\* sort.Strings.  Which of two equal names comes first makes no difference.
KindOrder ==
    {p \in (Names \X Kinds) \X (Names \X Kinds) :
        \/ p[1][1] < p[2][1]
        \/ p[1][1] = p[2][1] /\ p[1][2] = "service" /\ p[2][2] = "infra"}

\* ServiceNames(): all of them, those with a fixed port included.  A name that is
\* used for both kinds is in the list twice.
NeedPorts == InOrder((ServiceNames \X {"service"}) \cup (Infra \X {"infra"}), KindOrder)

Create ==
    /\ pc = "vetted"
    /\ pc' = "allocate" /\ todo' = NeedPorts
    /\ UNCHANGED <<base, overlay, cfg, sort, accepted, offset, busy, ports, printed>>

\* A port that is free.  The offset stays for the next name.
FaultyAssign ==
    /\ pc = "allocate" /\ todo # <<>> /\ offset < BlockSize
    /\ ports' = Over([n \in {Head(todo)[1]} |-> BlockStart + offset], ports)
    /\ todo' = Tail(todo)
    /\ UNCHANGED <<base, overlay, cfg, pc, sort, accepted, offset, busy, printed>>

Assign ==
    /\ pc = "allocate" /\ todo # <<>> /\ offset < BlockSize
    /\ ports' = Over([n \in {Head(todo)[1]} |-> BlockStart + offset], ports)
    /\ todo' = Tail(todo) /\ offset' = offset + 1
    /\ UNCHANGED <<base, overlay, cfg, pc, sort, accepted, busy, printed>>

\* isPortFree says no.
Taken ==
    /\ pc = "allocate" /\ todo # <<>> /\ offset < BlockSize
    /\ busy' = busy \cup {BlockStart + offset}
    /\ offset' = offset + 1
    /\ UNCHANGED <<base, overlay, cfg, pc, sort, accepted, todo, ports, printed>>

\* Never tries the last port.
FaultyOutOfBlock == offset + 1 >= BlockSize

OutOfBlock == offset >= BlockSize

Exhausted ==
    /\ pc = "allocate" /\ todo # <<>> /\ OutOfBlock
    /\ pc' = "exhausted"
    /\ UNCHANGED <<base, overlay, cfg, sort, accepted, allocation, printed>>

HasFixedPort(n) == n \in ServiceNames /\ cfg.services[n].port # 0

\* Fixed ports replace allocated ones.
FixPorts ==
    /\ pc = "allocate" /\ todo = <<>>
    /\ pc' = "seed"
    /\ ports' = [n \in DOMAIN ports |->
                    IF HasFixedPort(n) THEN cfg.services[n].port ELSE ports[n]]
    /\ UNCHANGED <<base, overlay, cfg, sort, accepted, todo, offset, busy, printed>>

\* All seed hooks succeed: they print what is declared, and maybe more.
SeedHooks ==
    /\ pc = "seed" /\ pc' = "render"
    /\ printed' \in [{p \in Provisioners : cfg.provisioners[p].seed} -> SUBSET Outputs]
    /\ \A p \in DOMAIN printed' : cfg.provisioners[p].outputs \subseteq printed'[p]
    /\ UNCHANGED <<base, overlay, cfg, sort, accepted, allocation>>

\* A port counts as an application service's when one has the name.
ServicePorts == DOMAIN ports \cap ServiceNames
InfraPorts == DOMAIN ports \ ServiceNames

\* resolveVar, in the env block of s
Resolves(s, r) ==
    CASE r.ns = "self" -> s \in ServicePorts
      [] r.ns = "services" -> r.name \in ServicePorts
      [] r.ns = "infrastructure" -> r.name \in InfraPorts
      [] r.ns = "provisioner" -> r.name \in DOMAIN printed /\ r.out \in printed[r.name]
      [] r.ns = "env" -> TRUE
      [] r.ns = "store" -> r.out \in Store
      [] r.ns = "proxy.url" -> cfg.domain /\ r.name \in ServicePorts
      [] r.ns = "proxy.domain" -> cfg.domain
      [] OTHER -> FALSE

BuildManifest ==
    /\ pc = "render"
    /\ pc' = IF \A s \in ServiceNames : \A k \in DOMAIN cfg.services[s].env :
                    Resolves(s, cfg.services[s].env[k])
             THEN "built" ELSE "unrendered"
    /\ UNCHANGED <<base, overlay, cfg, sort, accepted, allocation, printed>>

Next ==
    \/ LoadAndSort \/ Pop \/ (\E s \in ServiceNames : Release(s)) \/ Released \/ Vet
    \/ Create \/ Assign \/ Taken \/ Exhausted \/ FixPorts \/ SeedHooks \/ BuildManifest

Spec == Init /\ [][Next]_vars

-----------------------------------------------------------------------------
ServiceDeps(s) == ToSet(cfg.services[s].deps) \cap ServiceNames

\* In the sort's result every service comes once, and after all services it
\* depends on, however often it lists them.
SortOrdered ==
    \A i \in DOMAIN result :
        LET before == {result[j] : j \in 1..(i - 1)}
        IN  result[i] \notin before /\ ServiceDeps(result[i]) \subseteq before

\* Go's map order leaves no trace in the result: each service is the smallest of
\* those that could come next.
SortLeast ==
    \A i \in DOMAIN result :
        LET before == {result[j] : j \in 1..(i - 1)}
        IN  \A s \in ServiceNames \ before : ServiceDeps(s) \subseteq before => result[i] <= s

\* A set of services in which each depends on another one of the set.
Cyclic == \E S \in (SUBSET ServiceNames) \ {{}} : \A s \in S : ServiceDeps(s) \cap S # {}

\* The sort reports a cycle when there is one, and only then: a dependency on
\* anything but an application service holds nothing up.  It is no error either,
\* also when nothing has that name, although the comment of TopologicalSort
\* (dependency_graph.go:5) says it is.
SortDecides == pc = "sort" /\ queue = <<>> => (Sorted <=> ~Cyclic)

\* The names whose port is the one the allocator gave them.
Allocated == {n \in DOMAIN ports : HasFixedPort(n) => pc \in {"allocate", "exhausted"}}

\* From their allocation on, allocated ports are distinct ones of the block that
\* were free when probed.  A fixed port, which replaces the one its service was
\* given, is an exception to all of that: it may be another service's port as well.
PortsDistinct ==
    \A m, n \in Allocated :
        /\ ports[n] \in Block \ busy
        /\ m # n => ports[m] # ports[n]

\* The allocation gives up only when the block has fewer ports that are not taken
\* than there are names to give one to.  Those with a fixed port are among them,
\* although the documentation says that the allocator skips them (config.go:184).
ExhaustedOnlyWhenFull ==
    pc = "exhausted" =>
        Cardinality(Block \ busy) < Cardinality(ServiceNames) + Cardinality(Infra)

\* What vet accepts, a create can render, although the two look names up
\* differently; unless a name is both an application and an infrastructure
\* service's, or outputs are declared by a service that has no seed hook.
AcceptedRenders ==
    /\ accepted
    /\ ServiceNames \cap Infra = {}
    /\ \A p \in Provisioners : cfg.provisioners[p].seed
    => pc # "unrendered"
=============================================================================
