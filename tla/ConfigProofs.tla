---------------------------- MODULE ConfigProofs ----------------------------
(***************************************************************************)
(* Theorems about Config, for all files, names, ports and outputs.         *)
(***************************************************************************)
EXTENDS Config, SequenceTheorems, FiniteSetTheorems, WellFoundedInduction, TLAPS

LEMMA LeastNatural ==
    ASSUME NEW S \in SUBSET Nat, S # {}
    PROVE  \E n \in S : \A m \in S : n <= m
<1>1. PICK n \in S : \A m \in S : <<m, n>> \notin OpToRel(<, Nat)
  BY WFMin, NatLessThanWellFounded
<1>2. \A m \in S : m \in Nat /\ n \in Nat /\ ~ (m < n)
  BY <1>1 DEF OpToRel
<1> QED BY <1>2

LEMMA Inserted ==
    ASSUME NEW S, NEW q \in Seq(S), NEW v \in S, NEW i \in 1..(Len(q) + 1)
    PROVE  /\ InsertAt(q, i, v) \in Seq(S)
           /\ Len(InsertAt(q, i, v)) = Len(q) + 1
           /\ \A k \in 1..(Len(q) + 1) :
                 InsertAt(q, i, v)[k] = IF k < i THEN q[k] ELSE IF k = i THEN v ELSE q[k - 1]
<1> DEFINE a == SubSeq(q, 1, i - 1)
           b == SubSeq(q, i, Len(q))
<1>0. Len(q) \in Nat /\ \A k \in 1..Len(q) : q[k] \in S
  BY LenProperties, ElementOfSeq
<1>1. a \in Seq(S) /\ Len(a) = i - 1 /\ \A k \in 1..(i - 1) : a[k] = q[k]
  <2>1. \A k \in 1..(i - 1) : q[k] \in S  BY <1>0
  <2>2. /\ a \in Seq(S) /\ Len(a) = IF 1 <= i - 1 THEN (i - 1) - 1 + 1 ELSE 0
        /\ \A k \in 1..((i - 1) - 1 + 1) : a[k] = q[1 + k - 1]
    BY <1>0, <2>1, SubSeqProperties
  <2> QED BY <2>2, <1>0
<1>2. b \in Seq(S) /\ Len(b) = Len(q) - i + 1 /\ \A k \in 1..(Len(q) - i + 1) : b[k] = q[i + k - 1]
  <2>1. \A k \in i..Len(q) : q[k] \in S  BY <1>0
  <2>2. /\ b \in Seq(S) /\ Len(b) = IF i <= Len(q) THEN Len(q) - i + 1 ELSE 0
        /\ \A k \in 1..(Len(q) - i + 1) : b[k] = q[i + k - 1]
    BY <1>0, <2>1, SubSeqProperties
  <2> QED BY <2>2, <1>0
<1> DEFINE c == a \o <<v>>
<1>3. <<v>> \in Seq(S) /\ Len(<<v>>) = 1 /\ <<v>>[1] = v
  OBVIOUS
<1>4. c \in Seq(S) /\ Len(c) = i /\ \A k \in 1..i : c[k] = IF k < i THEN q[k] ELSE v
  <2> HIDE DEF a
  <2>1. /\ c \in Seq(S) /\ Len(c) = Len(a) + Len(<<v>>)
        /\ \A k \in 1..(Len(a) + Len(<<v>>)) : c[k] = IF k <= Len(a) THEN a[k] ELSE <<v>>[k - Len(a)]
    BY <1>1, <1>3, ConcatProperties
  <2>2. Len(c) = i
    BY <2>1, <1>1, <1>3
  <2> HIDE DEF c
  <2>3. ASSUME NEW k \in 1..i PROVE c[k] = IF k < i THEN q[k] ELSE v
    <3>1. CASE k < i  BY <3>1, <2>1, <1>1, <1>3
    <3>2. CASE k = i  BY <3>2, <2>1, <1>1, <1>3
    <3> QED BY <3>1, <3>2, <1>0
  <2> QED BY <2>1, <2>2, <2>3
<1>5. InsertAt(q, i, v) = c \o b
  BY DEF InsertAt
<1> HIDE DEF b, c
<1>6. /\ c \o b \in Seq(S) /\ Len(c \o b) = Len(c) + Len(b)
      /\ \A k \in 1..(Len(c) + Len(b)) : (c \o b)[k] = IF k <= Len(c) THEN c[k] ELSE b[k - Len(c)]
  BY <1>2, <1>4, ConcatProperties
<1> QED BY <1>0, <1>2, <1>4, <1>5, <1>6

Increasing(q) == \A i, j \in DOMAIN q : i < j => q[i] < q[j]

\* insertSorted finds its place, and keeps a sorted queue sorted.
LEMMA PlaceExists ==
    ASSUME NEW q \in Seq(Names), NEW v \in Names
    PROVE  \E i \in 1..(Len(q) + 1) : IsPlace(q, v, i)
<1> USE NameAssumption
<1> DEFINE T == {i \in 1..(Len(q) + 1) : i <= Len(q) => q[i] >= v}
<1>1. Len(q) \in Nat /\ \A k \in 1..Len(q) : q[k] \in Nat
  BY LenProperties, ElementOfSeq
<1>2. T \in SUBSET Nat /\ Len(q) + 1 \in T
  BY <1>1
<1>3. PICK i \in T : \A j \in T : i <= j
  <2> HIDE DEF T
  <2> QED BY <1>2, LeastNatural
<1>4. \A j \in 1..(i - 1) : q[j] < v
  BY <1>1, <1>3
<1> QED BY <1>3, <1>4 DEF IsPlace

LEMMA InsertsInOrder ==
    ASSUME NEW q \in Seq(Names), NEW v \in Names, Increasing(q), v \notin ToSet(q)
    PROVE  /\ InsertSorted(q, v) \in Seq(Names)
           /\ Increasing(InsertSorted(q, v))
           /\ ToSet(InsertSorted(q, v)) = ToSet(q) \cup {v}
<1> USE NameAssumption
<1>1. PICK i \in 1..(Len(q) + 1) : IsPlace(q, v, i) /\ InsertSorted(q, v) = InsertAt(q, i, v)
  BY PlaceExists DEF InsertSorted
<1> DEFINE r == InsertAt(q, i, v)
<1>2. /\ Len(q) \in Nat /\ DOMAIN q = 1..Len(q)
      /\ \A k \in 1..Len(q) : q[k] \in Nat /\ q[k] # v
  BY LenProperties, ElementOfSeq DEF ToSet
<1>3. /\ r \in Seq(Names) /\ Len(r) = Len(q) + 1
      /\ \A k \in 1..(Len(q) + 1) : r[k] = IF k < i THEN q[k] ELSE IF k = i THEN v ELSE q[k - 1]
  BY Inserted
<1>4. DOMAIN r = 1..(Len(q) + 1)
  BY <1>3, LenProperties
<1> HIDE DEF r
<1>5. (\A k \in 1..(i - 1) : q[k] < v) /\ (i <= Len(q) => q[i] > v)
  BY <1>1, <1>2 DEF IsPlace
<1>6. \A k \in i..Len(q) : q[k] > v
  BY <1>2, <1>5 DEF Increasing
<1>7. ASSUME NEW j \in DOMAIN r, NEW k \in DOMAIN r, j < k PROVE r[j] < r[k]
  <2>1. j \in 1..(Len(q) + 1) /\ k \in 1..(Len(q) + 1) /\ j \in Nat /\ k \in Nat /\ i \in Nat
    BY <1>2, <1>4
  <2>2. CASE k < i
    <3>1. r[j] = q[j] /\ r[k] = q[k] /\ j \in DOMAIN q /\ k \in DOMAIN q
      BY <2>1, <2>2, <1>7, <1>2, <1>3
    <3> QED BY <3>1, <1>7 DEF Increasing
  <2>3. CASE k = i
    BY <2>1, <2>3, <1>7, <1>2, <1>3, <1>5
  <2>4. CASE j = i
    <3>1. r[j] = v /\ r[k] = q[k - 1] /\ k - 1 \in i..Len(q)
      BY <2>1, <2>4, <1>7, <1>2, <1>3
    <3> QED BY <3>1, <1>6, <1>2
  <2>5. CASE j < i /\ i < k
    <3>1. r[j] = q[j] /\ r[k] = q[k - 1] /\ k - 1 \in i..Len(q) /\ j \in 1..(i - 1)
      BY <2>1, <2>5, <1>2, <1>3
    <3>2. q[j] < v /\ q[k - 1] > v /\ q[j] \in Nat /\ q[k - 1] \in Nat
      BY <3>1, <1>2, <1>5, <1>6
    <3> QED BY <3>1, <3>2
  <2>6. CASE i < j
    <3>1. r[j] = q[j - 1] /\ r[k] = q[k - 1] /\ j - 1 \in DOMAIN q /\ k - 1 \in DOMAIN q /\ j - 1 < k - 1
      BY <2>1, <2>6, <1>7, <1>2, <1>3
    <3> QED BY <3>1 DEF Increasing
  <2> QED BY <2>1, <2>2, <2>3, <2>4, <2>5, <2>6, <1>7
<1>8. ToSet(r) = ToSet(q) \cup {v}
  <2>1. ASSUME NEW k \in DOMAIN r PROVE r[k] \in ToSet(q) \cup {v}
    <3>1. k \in 1..(Len(q) + 1) /\ i \in Nat  BY <1>4, <1>2
    <3>2. CASE k < i
      <4>1. r[k] = q[k] /\ k \in DOMAIN q  BY <3>1, <3>2, <1>2, <1>3
      <4> QED BY <4>1 DEF ToSet
    <3>3. CASE k = i  BY <3>1, <3>3, <1>2, <1>3
    <3>4. CASE k > i
      <4>1. r[k] = q[k - 1] /\ k - 1 \in DOMAIN q  BY <3>1, <3>4, <1>2, <1>3
      <4> QED BY <4>1 DEF ToSet
    <3> QED BY <3>1, <3>2, <3>3, <3>4
  <2>2. ASSUME NEW k \in DOMAIN q PROVE q[k] \in ToSet(r)
    <3>1. k \in 1..Len(q) /\ i \in Nat  BY <1>2
    <3>2. CASE k < i
      <4>1. r[k] = q[k] /\ k \in DOMAIN r  BY <3>1, <3>2, <1>2, <1>3, <1>4
      <4> QED BY <4>1 DEF ToSet
    <3>3. CASE k >= i
      <4>1. r[k + 1] = q[k] /\ k + 1 \in DOMAIN r  BY <3>1, <3>3, <1>2, <1>3, <1>4
      <4> QED BY <4>1 DEF ToSet
    <3> QED BY <3>1, <3>2, <3>3
  <2>3. v \in ToSet(r)
    <3>1. r[i] = v /\ i \in DOMAIN r  BY <1>2, <1>3, <1>4
    <3> QED BY <3>1 DEF ToSet
  <2> QED BY <2>1, <2>2, <2>3 DEF ToSet
<1> QED BY <1>1, <1>3, <1>7, <1>8 DEF Increasing, r

\* A strict order of all of S.
Orders(R, S) ==
    /\ \A x \in S : <<x, x>> \notin R
    /\ \A x, y, z \in S : <<x, y>> \in R /\ <<y, z>> \in R => <<x, z>> \in R
    /\ \A x, y \in S : x = y \/ <<x, y>> \in R \/ <<y, x>> \in R

\* The number of smaller elements is a bijection between S and 0..|S|-1.
LEMMA InOrderSorts ==
    ASSUME NEW S, IsFiniteSet(S), NEW R, Orders(R, S)
    PROVE  /\ Cardinality(S) \in Nat
           /\ InOrder(S, R) \in [1..Cardinality(S) -> S]
           /\ \A i, j \in 1..Cardinality(S) : i < j => <<InOrder(S, R)[i], InOrder(S, R)[j]>> \in R
           /\ \A x \in S : \E i \in 1..Cardinality(S) : InOrder(S, R)[i] = x
<1> DEFINE n == Cardinality(S)
           Before(x) == {y \in S : <<y, x>> \in R}
           rank == [x \in S |-> Cardinality(Before(x))]
           f == InOrder(S, R)
<1>1. n \in Nat
  BY FS_CardinalityType
<1>2. \A x \in S : IsFiniteSet(Before(x)) /\ rank[x] \in Nat
  BY FS_Subset, FS_CardinalityType
<1>3. ASSUME NEW x \in S, NEW y \in S, <<x, y>> \in R PROVE rank[x] < rank[y]
  <2>1. Before(x) \cup {x} \subseteq Before(y) /\ x \notin Before(x)
    BY <1>3 DEF Orders
  <2>2. Cardinality(Before(x) \cup {x}) = Cardinality(Before(x)) + 1
    BY <1>2, <2>1, FS_AddElement
  <2>3. Cardinality(Before(x) \cup {x}) <= Cardinality(Before(y))
    BY <1>2, <2>1, FS_Subset
  <2> HIDE DEF Before
  <2> QED BY <1>2, <2>2, <2>3
<1>4. \A x \in S : rank[x] \in 0..(n - 1)
  <2> TAKE x \in S
  <2>1. Before(x) \in SUBSET (S \ {x})
    BY DEF Orders
  <2>2. IsFiniteSet(S \ {x}) /\ Cardinality(S \ {x}) = n - 1
    BY FS_RemoveElement
  <2> HIDE DEF Before
  <2>3. Cardinality(Before(x)) <= Cardinality(S \ {x})
    BY <2>1, <2>2, FS_Subset
  <2>4. rank[x] = Cardinality(Before(x))
    OBVIOUS
  <2> HIDE DEF rank, n
  <2> QED BY <1>1, <1>2, <2>2, <2>3, <2>4
<1> HIDE DEF Before
<1>5. rank \in Injection(S, 0..(n - 1))
  <2>1. \A x, y \in S : rank[x] = rank[y] => x = y
    <3> HIDE DEF rank
    <3> TAKE x, y \in S
    <3>1. x = y \/ <<x, y>> \in R \/ <<y, x>> \in R
      BY DEF Orders
    <3> QED BY <1>2, <1>3, <3>1
  <2>2. rank \in [S -> 0..(n - 1)]
    BY <1>4
  <2> QED BY <2>1, <2>2 DEF Injection, IsInjective
<1>6. rank \in Surjection(S, 0..(n - 1))
  <2>1. IsFiniteSet(0..(n - 1)) /\ Cardinality(0..(n - 1)) = n
    BY <1>1, FS_Interval
  <2> HIDE DEF rank
  <2> QED BY <1>5, <2>1, FS_Injection
<1>7. \A i \in 1..n : f[i] \in S /\ rank[f[i]] = i - 1
  <2> TAKE i \in 1..n
  <2>1. \E x \in S : rank[x] = i - 1
    <3>1. i - 1 \in 0..(n - 1)  BY <1>1
    <3> HIDE DEF rank
    <3> QED BY <1>6, <3>1 DEF Surjection
  <2>2. \E x \in S : Cardinality({y \in S : <<y, x>> \in R}) = i - 1
    BY <2>1 DEF Before
  <2>3. f[i] = CHOOSE x \in S : Cardinality({y \in S : <<y, x>> \in R}) = i - 1
    BY DEF InOrder
  <2>4. f[i] \in S /\ Cardinality({y \in S : <<y, f[i]>> \in R}) = i - 1
    <3> HIDE DEF f
    <3> QED BY <2>2, <2>3
  <2>5. rank[f[i]] = Cardinality({y \in S : <<y, f[i]>> \in R})
    BY <2>4 DEF Before
  <2> HIDE DEF f, rank
  <2> QED BY <2>4, <2>5
<1>8. f \in [1..n -> S]
  <2> DEFINE e(i) == CHOOSE x \in S : Cardinality({y \in S : <<y, x>> \in R}) = i - 1
  <2>1. f = [i \in 1..n |-> e(i)]
    BY DEF InOrder
  <2> HIDE DEF e, f, n, rank
  <2> QED BY <1>7, <2>1
<1> HIDE DEF f, n, rank
<1>9. \A i, j \in 1..n : i < j => <<f[i], f[j]>> \in R
  <2> TAKE i, j \in 1..n
  <2>1. /\ f[i] \in S /\ f[j] \in S /\ rank[f[i]] = i - 1 /\ rank[f[j]] = j - 1
        /\ i \in Nat /\ j \in Nat
    BY <1>1, <1>7
  <2>2. f[i] = f[j] \/ <<f[i], f[j]>> \in R \/ <<f[j], f[i]>> \in R
    BY <2>1 DEF Orders
  <2>3. <<f[j], f[i]>> \in R => j - 1 < i - 1
    BY <1>3, <2>1
  <2> QED BY <2>1, <2>2, <2>3
<1>10. \A x \in S : \E i \in 1..n : f[i] = x
  <2> TAKE x \in S
  <2>1. rank[x] + 1 \in 1..n /\ rank[f[rank[x] + 1]] = rank[x]
    BY <1>1, <1>4, <1>7
  <2>2. f[rank[x] + 1] = x
    <3> DEFINE y == f[rank[x] + 1]
    <3>1. y \in S /\ rank[y] = rank[x]  BY <2>1, <1>7
    <3>2. x = y \/ <<x, y>> \in R \/ <<y, x>> \in R
      BY <3>1 DEF Orders
    <3> HIDE DEF y
    <3>3. x = y  BY <3>1, <3>2, <1>2, <1>3
    <3> QED BY <3>3 DEF y
  <2> QED BY <2>1, <2>2
<1> QED BY <1>1, <1>8, <1>9, <1>10 DEF f, n

-----------------------------------------------------------------------------
(***************************************************************************)
(* The invariant.                                                          *)
(***************************************************************************)

Popped == ToSet(result)

\* The positions in s's list of dependencies that hold s up still.
Waiting(s) ==
    {i \in DOMAIN cfg.services[s].deps : cfg.services[s].deps[i] \in ServiceNames \ Popped}

\* How often s is counted down for the node popped last.
Due(s) == IF pc = "release" THEN pending[s] ELSE 0

FilesInv == IsConfig(base) /\ IsConfig(overlay)

\* The queue is in order, holds the services that wait for none, and an
\* in-degree is what it should be, but for what is still to be counted down.
SortInv ==
    /\ result \in Seq(ServiceNames)
    /\ pc \in {"load", "invalid"} => result = <<>>
    /\ pc = "release" => pending \in [ServiceNames -> Nat]
    /\ pc \in {"sort", "release"} =>
          /\ inDegree \in [ServiceNames -> Nat]
          /\ \A s \in ServiceNames : inDegree[s] = Cardinality(Waiting(s)) + Due(s)
          /\ queue \in Seq(Names) /\ Increasing(queue)
          /\ ToSet(queue) = {s \in ServiceNames \ Popped : inDegree[s] = 0}
          /\ \A s \in Popped : inDegree[s] = 0

\* Every port tried was taken or given to a name, and to one name only.
PortInv ==
    /\ pc \in {"load", "invalid", "sort", "release", "vetted"} =>
          ports = <<>> /\ busy = {} /\ offset = 0
    /\ pc = "allocate" =>
          /\ busy \subseteq BlockStart..(BlockStart + offset - 1)
          /\ \A n \in DOMAIN ports : ports[n] \in (BlockStart..(BlockStart + offset - 1)) \ busy
          /\ \A m, n \in DOMAIN ports : m # n => ports[m] # ports[n]
          /\ {todo[i][1] : i \in DOMAIN todo} \cup DOMAIN ports = ServiceNames \cup Infra
    /\ pc \in {"allocate", "exhausted"} =>
          Cardinality(busy) + Cardinality(ServiceNames) + Cardinality(Infra) = offset + Len(todo)
    /\ pc = "exhausted" => offset = BlockSize /\ todo # <<>>
    /\ pc \in {"seed", "render", "built", "unrendered"} => DOMAIN ports = ServiceNames \cup Infra
    /\ pc \in {"exhausted", "seed", "render", "built", "unrendered"} => PortsDistinct

\* What vet has looked at is what a create renders.
RenderInv ==
    /\ accepted => RefsKnown /\ pc \notin {"load", "invalid", "sort", "release"}
    /\ pc \in {"render", "built", "unrendered"} =>
          /\ DOMAIN printed = {p \in Provisioners : cfg.provisioners[p].seed}
          /\ \A p \in DOMAIN printed : cfg.provisioners[p].outputs \subseteq printed[p]

TypeInv == TypeOK /\ FilesInv

Inv == TypeInv /\ SortInv /\ PortInv /\ RenderInv

LEMMA SubsetsFinite ==
    ASSUME NEW S, IsFiniteSet(S), NEW T \in SUBSET S
    PROVE  IsFiniteSet(T) /\ Cardinality(T) \in Nat
BY FS_Subset, FS_CardinalityType

LEMMA ConfigFinite ==
    ASSUME NEW c, IsConfig(c)
    PROVE  /\ DOMAIN c.services \subseteq Names /\ IsFiniteSet(DOMAIN c.services)
           /\ DOMAIN c.infra \subseteq Names /\ IsFiniteSet(DOMAIN c.infra)
           /\ Cardinality(DOMAIN c.services) \in Nat /\ Cardinality(DOMAIN c.infra) \in Nat
BY FS_CardinalityType DEF IsConfig, IsPartial

\* The positions in a list of dependencies.
LEMMA DepsFinite ==
    ASSUME NEW c, IsConfig(c), NEW s \in DOMAIN c.services
    PROVE  /\ c.services[s].deps \in Seq(Names)
           /\ IsFiniteSet(DOMAIN c.services[s].deps)
           /\ Cardinality(DOMAIN c.services[s].deps) \in Nat
<1>1. c.services[s].deps \in Seq(Names)
  BY DEF IsConfig, IsService
<1>2. DOMAIN c.services[s].deps = 1..Len(c.services[s].deps) /\ Len(c.services[s].deps) \in Nat
  BY <1>1, LenProperties
<1>3. IsFiniteSet(1..Len(c.services[s].deps))
  BY <1>2, FS_Interval
<1> QED BY <1>1, <1>2, <1>3, FS_CardinalityType

LEMMA DegreeType ==
    ASSUME NEW c, IsConfig(c), NEW s \in DOMAIN c.services
    PROVE  Degree(c, s) \in Nat
BY DepsFinite, SubsetsFinite DEF Degree

LEMMA OverType ==
    ASSUME NEW D, NEW R, NEW f, NEW g, IsPartial(f, D, R), IsPartial(g, D, R)
    PROVE  IsPartial(Over(f, g), D, R)
BY DEF IsPartial, Over

LEMMA MergedServiceType ==
    ASSUME NEW b, NEW o, IsService(b), IsService(o)
    PROVE  IsService(MergedService(b, o))
BY OverType DEF IsService, MergedService, Given

LEMMA MergedProvisionerType ==
    ASSUME NEW b \in [outputs : SUBSET Outputs, seed : BOOLEAN],
           NEW o \in [outputs : SUBSET Outputs, seed : BOOLEAN]
    PROVE  MergedProvisioner(b, o) \in [outputs : SUBSET Outputs, seed : BOOLEAN]
BY DEF MergedProvisioner, Given

\* A base and an overlay file merge into a configuration.
LEMMA MergedType ==
    ASSUME NEW b, NEW o, IsConfig(b), IsConfig(o)
    PROVE  IsConfig(MergedConfig(b, o))
<1> DEFINE both == DOMAIN b.services \cap DOMAIN o.services
           m == MergedConfig(b, o)
           P == [outputs : SUBSET Outputs, seed : BOOLEAN]
           f == [n \in both |-> MergedService(b.services[n], o.services[n])]
           g == [n \in DOMAIN b.provisioners \cap DOMAIN o.provisioners |->
                    MergedProvisioner(b.provisioners[n], o.provisioners[n])]
<1>1. DOMAIN m.services = DOMAIN b.services \cup DOMAIN o.services
  BY DEF MergedConfig, Over
<1>2. DOMAIN m.services \subseteq Names /\ IsFiniteSet(DOMAIN m.services)
  BY <1>1, ConfigFinite, FS_Union
<1>3. ASSUME NEW n \in DOMAIN m.services PROVE IsService(m.services[n])
  <2>1. m.services[n] = IF n \in both THEN MergedService(b.services[n], o.services[n])
                        ELSE IF n \in DOMAIN b.services THEN b.services[n] ELSE o.services[n]
    BY <1>1, <1>3 DEF MergedConfig, Over
  <2> HIDE DEF m
  <2> QED BY <1>1, <1>3, <2>1, MergedServiceType DEF IsConfig
<1>4. IsPartial(m.provisioners, Names, P)
  <2>1. IsPartial(b.provisioners, Names, P) /\ IsPartial(o.provisioners, Names, P)
    BY DEF IsConfig
  <2>2. IsPartial(g, Names, P)
    <3>1. \A n \in DOMAIN g : g[n] \in P
      BY <2>1, MergedProvisionerType DEF IsPartial
    <3> QED BY <2>1, <3>1 DEF IsPartial
  <2>3. IsPartial(Over(b.provisioners, o.provisioners), Names, P)
    BY <2>1, OverType
  <2>4. IsPartial(Over(g, Over(b.provisioners, o.provisioners)), Names, P)
    <3> HIDE DEF g, P
    <3> QED BY <2>2, <2>3, OverType
  <2>5. m.provisioners = Over(g, Over(b.provisioners, o.provisioners))
    BY DEF MergedConfig
  <2> QED BY <2>4, <2>5
<1>5. /\ m.compose \in BOOLEAN /\ m.domain \in BOOLEAN
      /\ IsPartial(m.infra, Names, Nat) /\ IsFiniteSet(DOMAIN m.infra)
  BY DEF IsConfig, MergedConfig
<1> HIDE DEF m
<1> QED BY <1>2, <1>3, <1>4, <1>5 DEF IsConfig, m

LEMMA NamesOrdered ==
    ASSUME NEW S, S \subseteq Names
    PROVE  Orders(NameOrder, S)
BY NameAssumption DEF Orders, NameOrder

LEMMA KindsOrdered ==
    ASSUME NEW S, S \subseteq Names \X Kinds
    PROVE  Orders(KindOrder, S)
<1>1. \A x \in S : x[1] \in Nat /\ x[2] \in {"service", "infra"} /\ x = <<x[1], x[2]>>
  <2> TAKE x \in S
  <2>1. PICK n \in Names, k \in Kinds : x = <<n, k>>
    OBVIOUS
  <2> QED BY <2>1, NameAssumption DEF Kinds
<1>2. \A x, y \in S : <<x, y>> \in KindOrder <=>
          \/ x[1] < y[1]
          \/ x[1] = y[1] /\ x[2] = "service" /\ y[2] = "infra"
  BY DEF KindOrder
<1>3. \A x \in S : <<x, x>> \notin KindOrder
  BY <1>1, <1>2
<1>4. \A x, y, z \in S : <<x, y>> \in KindOrder /\ <<y, z>> \in KindOrder => <<x, z>> \in KindOrder
  BY <1>1, <1>2
<1>5. \A x, y \in S : x = y \/ <<x, y>> \in KindOrder \/ <<y, x>> \in KindOrder
  <2> TAKE x, y \in S
  <2>1. x[1] < y[1] \/ y[1] < x[1] \/ x[1] = y[1]
    BY <1>1
  <2>2. x[1] = y[1] /\ x[2] = y[2] => x = y
    BY <1>1
  <2> QED BY <1>1, <1>2, <2>1, <2>2
<1> QED BY <1>3, <1>4, <1>5 DEF Orders

LEMMA NamesSorted ==
    ASSUME NEW S, IsFiniteSet(S), S \subseteq Names
    PROVE  /\ InOrder(S, NameOrder) \in Seq(Names)
           /\ Increasing(InOrder(S, NameOrder))
           /\ ToSet(InOrder(S, NameOrder)) = S
<1> DEFINE q == InOrder(S, NameOrder)
           n == Cardinality(S)
<1>1. /\ n \in Nat /\ q \in [1..n -> S]
      /\ \A i, j \in 1..n : i < j => <<q[i], q[j]>> \in NameOrder
      /\ \A x \in S : \E i \in 1..n : q[i] = x
  BY InOrderSorts, NamesOrdered
<1> HIDE DEF q, n
<1>2. q \in Seq(Names) /\ DOMAIN q = 1..n
  BY <1>1
<1>3. Increasing(q)
  BY <1>1, <1>2 DEF Increasing, NameOrder
<1>4. ToSet(q) = S
  BY <1>1, <1>2 DEF ToSet
<1> QED BY <1>2, <1>3, <1>4 DEF q

LEMMA NeedPortsAll ==
    ASSUME IsConfig(cfg)
    PROVE  /\ NeedPorts \in Seq(Names \X Kinds)
           /\ Len(NeedPorts) = Cardinality(ServiceNames) + Cardinality(Infra)
           /\ {NeedPorts[i][1] : i \in DOMAIN NeedPorts} = ServiceNames \cup Infra
<1> DEFINE A == ServiceNames \X {"service"}
           B == Infra \X {"infra"}
           n == Cardinality(A \cup B)
           q == NeedPorts
<1>1. /\ ServiceNames \subseteq Names /\ IsFiniteSet(ServiceNames)
      /\ Infra \subseteq Names /\ IsFiniteSet(Infra)
      /\ Cardinality(ServiceNames) \in Nat /\ Cardinality(Infra) \in Nat
  BY ConfigFinite DEF ServiceNames, Infra
<1>2. /\ IsFiniteSet(A) /\ Cardinality(A) = Cardinality(ServiceNames) * Cardinality({"service"})
      /\ IsFiniteSet(B) /\ Cardinality(B) = Cardinality(Infra) * Cardinality({"infra"})
  BY <1>1, FS_Product, FS_Singleton
<1>3. Cardinality(A) = Cardinality(ServiceNames) /\ Cardinality(B) = Cardinality(Infra)
  <2>1. Cardinality({"service"}) = 1 /\ Cardinality({"infra"}) = 1
    BY FS_Singleton
  <2> HIDE DEF A, B
  <2> QED BY <1>1, <1>2, <2>1
<1>4. A \cap B = {}
  OBVIOUS
<1>5. IsFiniteSet(A \cup B) /\ n = Cardinality(ServiceNames) + Cardinality(Infra)
  <2>1. /\ IsFiniteSet(A \cup B)
        /\ Cardinality(A \cup B) = Cardinality(A) + Cardinality(B) - Cardinality(A \cap B)
    BY <1>2, FS_Union
  <2>2. Cardinality(A \cap B) = 0
    BY <1>4, FS_EmptySet
  <2> HIDE DEF A, B
  <2> QED BY <1>1, <1>3, <2>1, <2>2
<1>6. A \cup B \subseteq Names \X Kinds
  BY <1>1 DEF Kinds
<1>7. /\ n \in Nat /\ q \in [1..n -> A \cup B]
      /\ \A x \in A \cup B : \E i \in 1..n : q[i] = x
  <2> DEFINE C == A \cup B
  <2>1. IsFiniteSet(C) /\ Orders(KindOrder, C) /\ q = InOrder(C, KindOrder) /\ n = Cardinality(C)
    BY <1>5, <1>6, KindsOrdered DEF NeedPorts
  <2> HIDE DEF C, q, n
  <2>2. n \in Nat /\ q \in [1..n -> C] /\ \A x \in C : \E i \in 1..n : q[i] = x
    BY <2>1, InOrderSorts
  <2> QED BY <2>2 DEF C
<1> HIDE DEF q, n
<1>8. q \in Seq(Names \X Kinds) /\ DOMAIN q = 1..n /\ Len(q) = n
  <2> HIDE DEF A, B
  <2> QED BY <1>6, <1>7
<1>9. {q[i][1] : i \in DOMAIN q} = ServiceNames \cup Infra
  <2>1. ASSUME NEW i \in DOMAIN q PROVE q[i][1] \in ServiceNames \cup Infra
    BY <1>7, <1>8
  <2>2. ASSUME NEW m \in ServiceNames PROVE \E i \in DOMAIN q : q[i][1] = m
    <3>1. <<m, "service">> \in A \cup B  BY <2>2
    <3>2. PICK i \in 1..n : q[i] = <<m, "service">>  BY <1>7, <3>1
    <3> QED BY <1>8, <3>2
  <2>3. ASSUME NEW m \in Infra PROVE \E i \in DOMAIN q : q[i][1] = m
    <3>1. <<m, "infra">> \in A \cup B  BY <2>3
    <3>2. PICK i \in 1..n : q[i] = <<m, "infra">>  BY <1>7, <3>1
    <3> QED BY <1>8, <3>2
  <2> QED BY <2>1, <2>2, <2>3
<1> QED BY <1>5, <1>8, <1>9 DEF q

-----------------------------------------------------------------------------
(***************************************************************************)
(* The invariant holds.                                                    *)
(***************************************************************************)

LEMMA EmptyIsPartial ==
    ASSUME NEW D, NEW R
    PROVE  IsPartial(<<>>, D, R)
BY DEF IsPartial

LEMMA InitInv ==
    ASSUME Init
    PROVE  Inv
<1> USE DEF Init
<1>1. IsConfig(base) /\ IsConfig(overlay) /\ IsConfig(cfg)
  BY FilesAssumption
<1>2. TypeOK
  <2>1. 0 \in 0..BlockSize /\ {} \subseteq Block
    BY BlockAssumption
  <2> QED BY <1>1, <2>1, EmptyIsPartial, EmptySeq DEF TypeOK, Pcs
<1>3. SortInv
  BY EmptySeq DEF SortInv
<1>4. PortInv /\ RenderInv
  BY DEF PortInv, RenderInv
<1> QED BY <1>1, <1>2, <1>3, <1>4 DEF Inv, TypeInv, FilesInv

\* The sort starts with the services that wait for none.
LEMMA LoadKeeps ==
    ASSUME Inv, LoadAndSort
    PROVE  Inv'
<1> USE DEF LoadAndSort, Load
<1>1. IsConfig(cfg')
  <2>1. IsConfig(base) /\ IsConfig(overlay) /\ IsConfig(cfg)
    BY DEF Inv, TypeInv, TypeOK, FilesInv
  <2> QED BY <2>1, MergedType
<1>2. result = <<>> /\ result' = <<>> /\ UNCHANGED pending
  BY DEF Inv, SortInv, StartSort, sort
<1>3. /\ ServiceNames' = DOMAIN cfg'.services
      /\ ServiceNames' \subseteq Names /\ IsFiniteSet(ServiceNames')
  BY <1>1, ConfigFinite DEF ServiceNames
<1>4. Popped' = {}
  BY <1>2 DEF Popped, ToSet
<1>5. ASSUME pc' = "sort"
      PROVE  /\ inDegree' \in [ServiceNames' -> Nat]
             /\ \A s \in ServiceNames' : inDegree'[s] = Cardinality(Waiting(s)')
             /\ queue' \in Seq(Names) /\ Increasing(queue')
             /\ ToSet(queue') = {s \in ServiceNames' : inDegree'[s] = 0}
  <2>1. inDegree' = [s \in DOMAIN cfg'.services |-> Degree(cfg', s)]
    BY <1>5 DEF StartSort
  <2>2. inDegree' \in [ServiceNames' -> Nat]
    BY <1>1, <1>3, <2>1, DegreeType
  <2>3. \A s \in ServiceNames' : Waiting(s)' =
            {i \in DOMAIN cfg'.services[s].deps : cfg'.services[s].deps[i] \in DOMAIN cfg'.services}
    BY <1>3, <1>4 DEF Waiting
  <2>4. \A s \in ServiceNames' : inDegree'[s] = Cardinality(Waiting(s)')
    BY <1>3, <2>1, <2>3 DEF Degree
  <2> DEFINE Q == {s \in DOMAIN cfg'.services : inDegree'[s] = 0}
  <2>5. queue' = InOrder(Q, NameOrder)
    BY <1>5 DEF StartSort
  <2>6. Q \subseteq Names /\ IsFiniteSet(Q)
    <3>1. Q \in SUBSET ServiceNames'  BY <1>3
    <3> HIDE DEF Q
    <3> QED BY <1>3, <3>1, SubsetsFinite
  <2>7. queue' \in Seq(Names) /\ Increasing(queue') /\ ToSet(queue') = Q
    <3> HIDE DEF Q
    <3> QED BY <2>5, <2>6, NamesSorted
  <2> QED BY <1>3, <2>2, <2>4, <2>7
<1>6. SortInv'
  <2>1. pc' \in {"invalid", "sort"}
    OBVIOUS
  <2>2. result' \in Seq(ServiceNames') /\ \A s : Due(s)' = 0
    BY <1>2, <2>1, EmptySeq DEF Due
  <2>3. pc' = "sort" => \A s \in ServiceNames' : Cardinality(Waiting(s)') \in Nat
    BY <1>5
  <2> QED BY <1>2, <1>4, <1>5, <2>1, <2>2, <2>3 DEF SortInv
<1>7. TypeOK'
  <2>1. IsPartial(inDegree', Names, Nat) /\ queue' \in Seq(Names)
    <3>1. CASE pc' = "sort"  BY <1>3, <1>5, <3>1 DEF IsPartial
    <3>2. CASE pc' # "sort"  BY <3>2 DEF StartSort, sort, Inv, TypeInv, TypeOK
    <3> QED BY <3>1, <3>2
  <2> QED BY <1>1, <1>2, <2>1, EmptySeq DEF Inv, TypeInv, TypeOK, Pcs, allocation
<1>8. FilesInv' /\ PortInv' /\ RenderInv'
  BY DEF Inv, TypeInv, FilesInv, PortInv, RenderInv, allocation
<1> QED BY <1>6, <1>7, <1>8 DEF Inv, TypeInv

LEMMA TailInOrder ==
    ASSUME NEW q \in Seq(Names), q # <<>>, Increasing(q)
    PROVE  /\ Tail(q) \in Seq(Names) /\ Increasing(Tail(q))
           /\ ToSet(Tail(q)) = ToSet(q) \ {Head(q)}
           /\ Head(q) \in ToSet(q) /\ \A v \in ToSet(q) : Head(q) <= v
<1> USE NameAssumption
<1> DEFINE t == Tail(q)
<1>1. /\ Len(q) \in Nat \ {0} /\ DOMAIN q = 1..Len(q) /\ \A i \in 1..Len(q) : q[i] \in Nat
      /\ Head(q) = q[1]
  <2>1. Len(q) \in Nat \ {0} /\ DOMAIN q = 1..Len(q)
    BY EmptySeq, LenProperties
  <2>2. \A i \in 1..Len(q) : q[i] \in Names
    BY ElementOfSeq
  <2>3. Head(q) = q[1]
    BY DEF Head
  <2> QED BY <2>1, <2>2, <2>3
<1>2. t \in Seq(Names) /\ Len(t) = Len(q) - 1 /\ \A i \in 1..(Len(q) - 1) : t[i] = q[i + 1]
  BY HeadTailProperties
<1>3. DOMAIN t = 1..(Len(q) - 1)
  BY <1>2, LenProperties
<1> HIDE DEF t
<1>4. Increasing(t)
  <2> SUFFICES ASSUME NEW i \in DOMAIN t, NEW j \in DOMAIN t, i < j
               PROVE  t[i] < t[j]
    BY DEF Increasing
  <2>1. t[i] = q[i + 1] /\ t[j] = q[j + 1] /\ i + 1 \in DOMAIN q /\ j + 1 \in DOMAIN q /\ i + 1 < j + 1
    BY <1>1, <1>2, <1>3
  <2> QED BY <2>1 DEF Increasing
<1>5. \A i \in DOMAIN q : i # 1 => q[1] < q[i]
  BY <1>1 DEF Increasing
<1>6. ToSet(t) = ToSet(q) \ {Head(q)}
  <2>1. ASSUME NEW i \in DOMAIN t PROVE t[i] \in ToSet(q) \ {Head(q)}
    <3>1. t[i] = q[i + 1] /\ i + 1 \in DOMAIN q /\ i + 1 # 1
      BY <1>1, <1>2, <1>3
    <3> QED BY <1>1, <1>5, <3>1 DEF ToSet
  <2>2. ASSUME NEW i \in DOMAIN q, q[i] # Head(q) PROVE q[i] \in ToSet(t)
    <3>1. i - 1 \in DOMAIN t /\ t[i - 1] = q[i]
      BY <1>1, <1>2, <1>3, <2>2
    <3> QED BY <3>1 DEF ToSet
  <2> QED BY <2>1, <2>2 DEF ToSet
<1>7. Head(q) \in ToSet(q) /\ \A v \in ToSet(q) : Head(q) <= v
  BY <1>1, <1>5 DEF ToSet
<1> QED BY <1>2, <1>4, <1>6, <1>7 DEF t

LEMMA AppendSet ==
    ASSUME NEW S, NEW q \in Seq(S), NEW v \in S
    PROVE  ToSet(Append(q, v)) = ToSet(q) \cup {v}
<1> DEFINE r == Append(q, v)
<1>1. /\ r \in Seq(S) /\ Len(r) = Len(q) + 1 /\ r[Len(q) + 1] = v
      /\ \A i \in 1..Len(q) : r[i] = q[i]
  BY AppendProperties
<1>2. Len(q) \in Nat /\ DOMAIN q = 1..Len(q) /\ DOMAIN r = 1..(Len(q) + 1)
  BY <1>1, LenProperties
<1> HIDE DEF r
<1>3. ToSet(r) = ToSet(q) \cup {v}
  BY <1>1, <1>2 DEF ToSet
<1> QED BY <1>3 DEF r

\* What the popped node's dependents wait for from now on is what they waited
\* for, without that node.
LEMMA PopKeeps ==
    ASSUME Inv, Pop
    PROVE  Inv'
<1> USE DEF Pop
<1> DEFINE h == Head(queue)
<1>1. /\ IsConfig(cfg) /\ cfg' = cfg /\ ServiceNames' = ServiceNames
      /\ ServiceNames \subseteq Names
  BY ConfigFinite DEF Inv, TypeInv, TypeOK, ServiceNames
<1>2. /\ result \in Seq(ServiceNames) /\ inDegree \in [ServiceNames -> Nat]
      /\ \A s \in ServiceNames : inDegree[s] = Cardinality(Waiting(s)) + Due(s)
      /\ queue \in Seq(Names) /\ Increasing(queue)
      /\ ToSet(queue) = {s \in ServiceNames \ Popped : inDegree[s] = 0}
      /\ \A s \in Popped : inDegree[s] = 0
  BY DEF Inv, SortInv
<1>3. /\ h \in ServiceNames \ Popped /\ inDegree[h] = 0
      /\ queue' \in Seq(Names) /\ Increasing(queue') /\ ToSet(queue') = ToSet(queue) \ {h}
  BY <1>2, TailInOrder
<1>4. result' \in Seq(ServiceNames') /\ Popped' = Popped \cup {h}
  BY <1>1, <1>2, <1>3, AppendProperties, AppendSet DEF Popped
<1> HIDE DEF h
<1>5. ASSUME NEW s \in ServiceNames
      PROVE  /\ inDegree'[s] = Cardinality(Waiting(s)') + Due(s)'
             /\ pending'[s] \in Nat
  <2> DEFINE deps == cfg.services[s].deps
             E == {i \in DOMAIN deps : deps[i] = h}
  <2>1. IsFiniteSet(DOMAIN deps)
    BY <1>1, DepsFinite DEF ServiceNames
  <2>2. Waiting(s)' = Waiting(s) \ E /\ E \subseteq Waiting(s)
    BY <1>1, <1>3, <1>4 DEF Waiting
  <2>3. IsFiniteSet(Waiting(s)) /\ Cardinality(Waiting(s)) \in Nat
    BY <2>1, SubsetsFinite DEF Waiting
  <2>4. IsFiniteSet(E) /\ Cardinality(E) \in Nat
    BY <2>1, SubsetsFinite
  <2>5. pending'[s] = Cardinality(E)
    BY DEF Edges, h
  <2>6. Due(s) = 0 /\ Due(s)' = pending'[s] /\ inDegree' = inDegree
    BY DEF Due
  <2> HIDE DEF E
  <2>7. Waiting(s) \cap E = E
    BY <2>2
  <2>8. Cardinality(Waiting(s) \ E) = Cardinality(Waiting(s)) - Cardinality(E)
    BY <2>3, <2>7, FS_Difference
  <2> QED BY <1>2, <2>2, <2>3, <2>4, <2>5, <2>6, <2>8
<1>6. pending' \in [ServiceNames' -> Nat]
  BY <1>1, <1>5
<1>7. SortInv'
  <2>1. inDegree' = inDegree /\ pc' = "release"
    OBVIOUS
  <2>2. ToSet(queue') = {s \in ServiceNames' \ Popped' : inDegree'[s] = 0}
    BY <1>1, <1>2, <1>3, <1>4, <2>1
  <2>3. \A s \in Popped' : inDegree'[s] = 0
    BY <1>2, <1>3, <1>4, <2>1
  <2> QED BY <1>1, <1>2, <1>3, <1>4, <1>5, <1>6, <2>1, <2>2, <2>3 DEF SortInv
<1>8. TypeOK'
  <2>1. result' \in Seq(Names) /\ IsPartial(pending', Names, Nat)
    BY <1>1, <1>4, <1>6, SeqMonotonic DEF IsPartial
  <2> QED BY <1>3, <2>1 DEF Inv, TypeInv, TypeOK, Pcs, allocation
<1>9. FilesInv' /\ PortInv' /\ RenderInv'
  BY DEF Inv, TypeInv, FilesInv, PortInv, RenderInv, allocation
<1> QED BY <1>7, <1>8, <1>9 DEF Inv, TypeInv

LEMMA ReleaseKeeps ==
    ASSUME Inv, NEW s \in ServiceNames, Release(s)
    PROVE  Inv'
<1> USE DEF Release
<1>1. /\ IsConfig(cfg) /\ cfg' = cfg /\ ServiceNames' = ServiceNames
      /\ ServiceNames \subseteq Names
  BY ConfigFinite DEF Inv, TypeInv, TypeOK, ServiceNames
<1>2. /\ result \in Seq(ServiceNames) /\ pending \in [ServiceNames -> Nat]
      /\ inDegree \in [ServiceNames -> Nat]
      /\ \A t \in ServiceNames : inDegree[t] = Cardinality(Waiting(t)) + Due(t)
      /\ queue \in Seq(Names) /\ Increasing(queue)
      /\ ToSet(queue) = {t \in ServiceNames \ Popped : inDegree[t] = 0}
      /\ \A t \in Popped : inDegree[t] = 0
  BY DEF Inv, SortInv
<1>3. result' = result /\ Popped' = Popped /\ \A t \in ServiceNames : Waiting(t)' = Waiting(t)
  BY <1>1 DEF Popped, Waiting
<1>4. \A t \in ServiceNames : Cardinality(Waiting(t)) \in Nat
  <2> TAKE t \in ServiceNames
  <2>1. IsFiniteSet(DOMAIN cfg.services[t].deps)
    BY <1>1, DepsFinite DEF ServiceNames
  <2> QED BY <2>1, SubsetsFinite DEF Waiting
<1>5. inDegree[s] > 0 /\ s \notin Popped /\ s \notin ToSet(queue)
  BY <1>2, <1>4 DEF Due
<1>6. pending' \in [ServiceNames' -> Nat] /\ inDegree' \in [ServiceNames' -> Nat]
  BY <1>1, <1>2, <1>5
<1>7. \A t \in ServiceNames : inDegree'[t] = Cardinality(Waiting(t)') + Due(t)'
  BY <1>2, <1>3, <1>4 DEF Due
<1>8. /\ queue' \in Seq(Names) /\ Increasing(queue')
      /\ ToSet(queue') = IF inDegree'[s] = 0 THEN ToSet(queue) \cup {s} ELSE ToSet(queue)
  BY <1>1, <1>2, <1>5, InsertsInOrder
<1>9. SortInv'
  <2>1. ToSet(queue') = {t \in ServiceNames' \ Popped' : inDegree'[t] = 0}
    BY <1>1, <1>2, <1>3, <1>5, <1>8
  <2>2. \A t \in Popped' : inDegree'[t] = 0
    BY <1>2, <1>3, <1>5
  <2> QED BY <1>1, <1>2, <1>3, <1>6, <1>7, <1>8, <2>1, <2>2 DEF SortInv
<1>10. TypeOK'
  <2>1. IsPartial(pending', Names, Nat) /\ IsPartial(inDegree', Names, Nat)
    BY <1>1, <1>6 DEF IsPartial
  <2> QED BY <1>3, <1>8, <2>1 DEF Inv, TypeInv, TypeOK, Pcs, allocation
<1>11. FilesInv' /\ PortInv' /\ RenderInv'
  BY DEF Inv, TypeInv, FilesInv, PortInv, RenderInv, allocation
<1> QED BY <1>9, <1>10, <1>11 DEF Inv, TypeInv

\* After the sort nothing of it changes.
LEMMA SortIsOver ==
    ASSUME SortInv, UNCHANGED <<cfg, sort>>, pc' \notin {"load", "invalid", "sort", "release"}
    PROVE  SortInv'
BY DEF SortInv, sort, ServiceNames

LEMMA ReleasedKeeps ==
    ASSUME Inv, Released
    PROVE  Inv'
<1> USE DEF Released, sort
<1>1. cfg' = cfg /\ ServiceNames' = ServiceNames /\ Popped' = Popped
  BY DEF ServiceNames, Popped
<1>2. \A s \in ServiceNames : Waiting(s)' = Waiting(s) /\ Due(s) = 0 /\ Due(s)' = 0
  BY <1>1 DEF Waiting, Due
<1>3. SortInv'
  BY <1>1, <1>2 DEF Inv, SortInv
<1>4. TypeOK'
  BY DEF Inv, TypeInv, TypeOK, Pcs, allocation
<1>5. FilesInv' /\ PortInv' /\ RenderInv'
  BY DEF Inv, TypeInv, FilesInv, PortInv, RenderInv, allocation
<1> QED BY <1>3, <1>4, <1>5 DEF Inv, TypeInv

\* Vet accepts no reference that it does not know.
LEMMA VetKeeps ==
    ASSUME Inv, Vet
    PROVE  Inv'
<1> USE DEF Vet
<1>1. SortInv'
  BY SortIsOver DEF Inv
<1>2. TypeOK'
  BY DEF Inv, TypeInv, TypeOK, Pcs, sort, allocation
<1>3. FilesInv' /\ PortInv'
  BY DEF Inv, TypeInv, FilesInv, PortInv, allocation
<1>4. RenderInv'
  <2>1. RefsKnown' = RefsKnown
    BY DEF RefsKnown, RefKnown, ServiceNames, Infra, Provisioners
  <2> QED BY <2>1 DEF RenderInv
<1> QED BY <1>1, <1>2, <1>3, <1>4 DEF Inv, TypeInv

\* While names are given ports, every port is the allocator's and distinct.
LEMMA DistinctSoFar ==
    ASSUME Inv, pc = "allocate"
    PROVE  /\ \A n \in DOMAIN ports : ports[n] \in Block \ busy
           /\ \A m, n \in DOMAIN ports : m # n => ports[m] # ports[n]
<1>1. offset \in 0..BlockSize /\ BlockStart \in Nat /\ BlockSize \in Nat
  BY BlockAssumption DEF Inv, TypeInv, TypeOK
<1>2. BlockStart..(BlockStart + offset - 1) \subseteq Block
  BY <1>1 DEF Block
<1> QED BY <1>2 DEF Inv, PortInv

\* Afterwards nothing disturbs the ports that stay.
LEMMA DistinctStays ==
    ASSUME PortsDistinct, UNCHANGED <<cfg, ports, busy>>,
           pc \in {"seed", "render", "built", "unrendered"},
           pc' \in {"seed", "render", "built", "unrendered"}
    PROVE  PortsDistinct'
<1>1. Allocated' = Allocated
  BY DEF Allocated, HasFixedPort, ServiceNames
<1> QED BY <1>1 DEF PortsDistinct

\* RenderInv speaks of the configuration and of what the hooks printed.
LEMMA RenderUntouched ==
    ASSUME RenderInv, UNCHANGED <<cfg, accepted, printed>>,
           pc \notin {"load", "invalid", "sort", "release", "render"},
           pc' \notin {"load", "invalid", "sort", "release", "render", "built", "unrendered"}
    PROVE  RenderInv'
<1>1. RefsKnown' = RefsKnown
  BY DEF RefsKnown, RefKnown, ServiceNames, Infra, Provisioners
<1> QED BY <1>1 DEF RenderInv

LEMMA CreateKeeps ==
    ASSUME Inv, Create
    PROVE  Inv'
<1> USE DEF Create
<1>1. SortInv' /\ RenderInv'
  BY SortIsOver, RenderUntouched DEF Inv
<1>2. /\ todo' \in Seq(Names \X Kinds)
      /\ Len(todo') = Cardinality(ServiceNames) + Cardinality(Infra)
      /\ {todo'[i][1] : i \in DOMAIN todo'} = ServiceNames \cup Infra
  BY NeedPortsAll DEF Inv, TypeInv, TypeOK
<1>3. TypeOK'
  BY <1>2 DEF Inv, TypeInv, TypeOK, Pcs, sort
<1>4. PortInv'
  <2>1. ports' = <<>> /\ busy' = {} /\ offset' = 0
    BY DEF Inv, PortInv
  <2>2. ServiceNames' = ServiceNames /\ Infra' = Infra
    BY DEF ServiceNames, Infra
  <2>3. Cardinality(ServiceNames) \in Nat /\ Cardinality(Infra) \in Nat
    BY ConfigFinite DEF Inv, TypeInv, TypeOK, ServiceNames, Infra
  <2> QED BY <1>2, <2>1, <2>2, <2>3, FS_EmptySet DEF PortInv
<1>5. FilesInv'
  BY DEF Inv, TypeInv, FilesInv
<1> QED BY <1>1, <1>3, <1>4, <1>5 DEF Inv, TypeInv

\* A name gets the port after all that were tried.
LEMMA AssignKeeps ==
    ASSUME Inv, Assign
    PROVE  Inv'
<1> USE DEF Assign
<1>1. SortInv' /\ RenderInv'
  BY SortIsOver, RenderUntouched DEF Inv
<1> DEFINE m == Head(todo)[1]
           p == BlockStart + offset
<1>2. /\ todo \in Seq(Names \X Kinds) /\ todo # <<>> /\ offset \in 0..BlockSize /\ offset < BlockSize
      /\ BlockStart \in Nat \ {0} /\ BlockSize \in Nat
  BY BlockAssumption DEF Inv, TypeInv, TypeOK
<1>3. /\ Len(todo) \in Nat \ {0} /\ DOMAIN todo = 1..Len(todo) /\ Head(todo) = todo[1]
      /\ \A i \in 1..Len(todo) : todo[i] \in Names \X Kinds
  <2>1. Len(todo) \in Nat \ {0} /\ DOMAIN todo = 1..Len(todo)
    BY <1>2, EmptySeq, LenProperties
  <2>2. \A i \in 1..Len(todo) : todo[i] \in Names \X Kinds
    BY <1>2, ElementOfSeq
  <2>3. Head(todo) = todo[1]
    BY DEF Head
  <2> QED BY <2>1, <2>2, <2>3
<1>4. /\ todo' \in Seq(Names \X Kinds) /\ Len(todo') = Len(todo) - 1
      /\ DOMAIN todo' = 1..(Len(todo) - 1) /\ \A i \in 1..(Len(todo) - 1) : todo'[i] = todo[i + 1]
  <2>1. /\ todo' \in Seq(Names \X Kinds) /\ Len(todo') = Len(todo) - 1
        /\ \A i \in 1..Len(todo') : todo'[i] = todo[i + 1]
    BY <1>2, HeadTailProperties
  <2> QED BY <2>1, LenProperties
<1>5. m \in Names
  BY <1>3
<1>6. /\ DOMAIN ports' = DOMAIN ports \cup {m}
      /\ \A n \in DOMAIN ports' : ports'[n] = IF n = m THEN p ELSE ports[n]
      /\ ports' = [n \in DOMAIN ports' |-> ports'[n]]
  BY DEF Over
<1> HIDE DEF m
<1>7. p \in Nat
  BY <1>2
<1>8. TypeOK'
  <2>1. IsPartial(ports', Names, Nat)
    <3>1. IsPartial(ports, Names, Nat)  BY DEF Inv, TypeInv, TypeOK
    <3> HIDE DEF p, Assign
    <3> QED BY <1>5, <1>6, <1>7, <3>1 DEF IsPartial
  <2>2. offset' \in 0..BlockSize
    BY <1>2
  <2> QED BY <1>4, <2>1, <2>2 DEF Inv, TypeInv, TypeOK, Pcs, sort
<1>9. PortInv'
  <2>1. /\ busy \subseteq BlockStart..(BlockStart + offset - 1)
        /\ \A n \in DOMAIN ports : ports[n] \in (BlockStart..(BlockStart + offset - 1)) \ busy
        /\ \A n, k \in DOMAIN ports : n # k => ports[n] # ports[k]
        /\ {todo[i][1] : i \in DOMAIN todo} \cup DOMAIN ports = ServiceNames \cup Infra
        /\ Cardinality(busy) + Cardinality(ServiceNames) + Cardinality(Infra) = offset + Len(todo)
    BY DEF Inv, PortInv
  <2>2. ServiceNames' = ServiceNames /\ Infra' = Infra
    BY DEF ServiceNames, Infra
  <2>3. p \notin busy /\ \A n \in DOMAIN ports : ports[n] # p
    BY <1>2, <2>1
  <2>4. BlockStart..(BlockStart + offset' - 1) = (BlockStart..(BlockStart + offset - 1)) \cup {p}
    BY <1>2
  <2>5. {todo'[i][1] : i \in DOMAIN todo'} \cup DOMAIN ports' = ServiceNames \cup Infra
    <3>1. ASSUME NEW i \in DOMAIN todo'
          PROVE  \E j \in DOMAIN todo : todo'[i][1] = todo[j][1]
      <4>1. i + 1 \in DOMAIN todo /\ todo'[i] = todo[i + 1]
        BY <1>3, <1>4
      <4> QED BY <4>1
    <3>2. ASSUME NEW j \in DOMAIN todo
          PROVE  todo[j][1] = m \/ \E i \in DOMAIN todo' : todo'[i][1] = todo[j][1]
      <4>1. CASE j = 1  BY <4>1, <1>3 DEF m
      <4>2. CASE j # 1
        <5>1. j - 1 \in DOMAIN todo' /\ todo'[j - 1] = todo[j]
          BY <4>2, <1>3, <1>4
        <5> QED BY <5>1
      <4> QED BY <4>1, <4>2
    <3>3. m \in {todo[i][1] : i \in DOMAIN todo}
      BY <1>3 DEF m
    <3> QED BY <1>6, <2>1, <3>1, <3>2, <3>3
  <2>6. Cardinality(busy) + Cardinality(ServiceNames) + Cardinality(Infra) = offset' + Len(todo')
    BY <1>2, <1>3, <1>4, <2>1
  <2>7. \A n \in DOMAIN ports' : ports'[n] \in (BlockStart..(BlockStart + offset' - 1)) \ busy
    <3> HIDE DEF p, Assign
    <3> QED BY <1>6, <2>1, <2>3, <2>4
  <2>8. \A n, k \in DOMAIN ports' : n # k => ports'[n] # ports'[k]
    <3> HIDE DEF p, Assign
    <3> QED BY <1>6, <2>1, <2>3
  <2>9. busy' = busy /\ pc' = "allocate" /\ busy \subseteq BlockStart..(BlockStart + offset' - 1)
    BY <2>1, <2>4
  <2> HIDE DEF Assign
  <2> QED BY <2>2, <2>5, <2>6, <2>7, <2>8, <2>9 DEF PortInv
<1>10. FilesInv'
  BY DEF Inv, TypeInv, FilesInv
<1> QED BY <1>1, <1>8, <1>9, <1>10 DEF Inv, TypeInv

LEMMA BlockFinite ==
    /\ IsFiniteSet(Block) /\ Cardinality(Block) = BlockSize
    /\ busy \subseteq Block => IsFiniteSet(busy) /\ Cardinality(busy) \in Nat
<1>1. IsFiniteSet(Block) /\ Cardinality(Block) = BlockSize
  <2>1. BlockStart \in Int /\ BlockStart + BlockSize - 1 \in Int /\ BlockSize \in Nat
    BY BlockAssumption
  <2>2. /\ IsFiniteSet(Block)
        /\ Cardinality(Block) = IF BlockStart > BlockStart + BlockSize - 1 THEN 0
                               ELSE BlockStart + BlockSize - 1 - BlockStart + 1
    BY <2>1, FS_Interval DEF Block
  <2> QED BY <2>1, <2>2
<1>2. busy \subseteq Block => IsFiniteSet(busy) /\ Cardinality(busy) \in Nat
  BY <1>1, SubsetsFinite
<1> QED BY <1>1, <1>2

LEMMA TakenKeeps ==
    ASSUME Inv, Taken
    PROVE  Inv'
<1> USE DEF Taken
<1>1. SortInv' /\ RenderInv'
  BY SortIsOver, RenderUntouched DEF Inv
<1> DEFINE p == BlockStart + offset
<1>2. /\ offset \in 0..BlockSize /\ offset < BlockSize /\ busy \subseteq Block
      /\ BlockStart \in Nat \ {0} /\ BlockSize \in Nat
  BY BlockAssumption DEF Inv, TypeInv, TypeOK
<1>3. /\ busy \subseteq BlockStart..(BlockStart + offset - 1)
      /\ \A n \in DOMAIN ports : ports[n] \in (BlockStart..(BlockStart + offset - 1)) \ busy
      /\ Cardinality(busy) + Cardinality(ServiceNames) + Cardinality(Infra) = offset + Len(todo)
  BY DEF Inv, PortInv
<1>4. TypeOK'
  <2>1. offset' \in 0..BlockSize /\ busy' \subseteq Block
    BY <1>2 DEF Block
  <2> QED BY <2>1 DEF Inv, TypeInv, TypeOK, Pcs, sort
<1>5. /\ BlockStart..(BlockStart + offset' - 1) = (BlockStart..(BlockStart + offset - 1)) \cup {p}
      /\ p \notin BlockStart..(BlockStart + offset - 1)
  BY <1>2
<1>6. Cardinality(busy') = Cardinality(busy) + 1
  <2>1. IsFiniteSet(busy)
    BY <1>2, BlockFinite
  <2>2. busy' = busy \cup {p} /\ p \notin busy
    BY <1>3, <1>5
  <2> QED BY <2>1, <2>2, FS_AddElement
<1>7. PortInv'
  <2>1. ServiceNames' = ServiceNames /\ Infra' = Infra
    BY DEF ServiceNames, Infra
  <2>2. /\ Cardinality(busy) \in Nat /\ Cardinality(ServiceNames) \in Nat
        /\ Cardinality(Infra) \in Nat /\ Len(todo) \in Nat
    <3>1. IsFiniteSet(busy)
      BY <1>2, BlockFinite
    <3>2. todo \in Seq(Names \X Kinds)
      BY DEF Inv, TypeInv, TypeOK
    <3> QED BY <3>1, <3>2, ConfigFinite, FS_CardinalityType, LenProperties
            DEF Inv, TypeInv, TypeOK, ServiceNames, Infra
  <2>3. Cardinality(busy') + Cardinality(ServiceNames) + Cardinality(Infra) = offset' + Len(todo)
    BY <1>2, <1>3, <1>6, <2>2
  <2>4. \A n \in DOMAIN ports : ports[n] \in (BlockStart..(BlockStart + offset' - 1)) \ busy'
    BY <1>3, <1>5
  <2>5. busy' \subseteq BlockStart..(BlockStart + offset' - 1)
    BY <1>3, <1>5
  <2> QED BY <2>1, <2>3, <2>4, <2>5 DEF Inv, PortInv
<1>8. FilesInv'
  BY DEF Inv, TypeInv, FilesInv
<1> QED BY <1>1, <1>4, <1>7, <1>8 DEF Inv, TypeInv

LEMMA ExhaustedKeeps ==
    ASSUME Inv, Exhausted
    PROVE  Inv'
<1> USE DEF Exhausted, allocation
<1>1. SortInv' /\ RenderInv'
  BY SortIsOver, RenderUntouched DEF Inv
<1>2. TypeOK'
  BY DEF Inv, TypeInv, TypeOK, Pcs, sort
<1>3. PortInv'
  <2>1. offset \in 0..BlockSize /\ BlockSize \in Nat
    BY BlockAssumption DEF Inv, TypeInv, TypeOK
  <2>2. offset = BlockSize
    BY <2>1 DEF OutOfBlock
  <2>3. ServiceNames' = ServiceNames /\ Infra' = Infra
    BY DEF ServiceNames, Infra
  <2>4. PortsDistinct'
    BY DistinctSoFar DEF PortsDistinct, Allocated
  <2> QED BY <2>2, <2>3, <2>4 DEF Inv, PortInv
<1>4. FilesInv'
  BY DEF Inv, TypeInv, FilesInv
<1> QED BY <1>1, <1>2, <1>3, <1>4 DEF Inv, TypeInv

LEMMA FixPortsKeeps ==
    ASSUME Inv, FixPorts
    PROVE  Inv'
<1> USE DEF FixPorts
<1>1. SortInv' /\ RenderInv'
  BY SortIsOver, RenderUntouched DEF Inv
<1>2. TypeOK'
  <2>1. IsPartial(ports', Names, Nat)
    <3>1. IsPartial(ports, Names, Nat) /\ IsConfig(cfg)
      BY DEF Inv, TypeInv, TypeOK
    <3>2. \A n \in ServiceNames : cfg.services[n].port \in Nat
      BY <3>1 DEF IsConfig, IsService, ServiceNames
    <3>3. /\ DOMAIN ports' = DOMAIN ports /\ ports' = [n \in DOMAIN ports |-> ports'[n]]
          /\ \A n \in DOMAIN ports : ports'[n] \in Nat
      BY <3>1, <3>2 DEF IsPartial, HasFixedPort
    <3> QED BY <3>1, <3>3 DEF IsPartial
  <2> QED BY <2>1 DEF Inv, TypeInv, TypeOK, Pcs, sort
<1>3. PortInv'
  <2>1. {todo[i][1] : i \in DOMAIN todo} \cup DOMAIN ports = ServiceNames \cup Infra
    BY DEF Inv, PortInv
  <2>2. ServiceNames' = ServiceNames /\ Infra' = Infra /\ DOMAIN ports' = DOMAIN ports
    BY DEF ServiceNames, Infra
  <2>3. DOMAIN todo = {}
    OBVIOUS
  <2>4. PortsDistinct'
    <3>1. /\ Allocated' \subseteq DOMAIN ports /\ busy' = busy
          /\ \A n \in Allocated' : ports'[n] = ports[n]
      BY DEF Allocated, HasFixedPort, ServiceNames
    <3> QED BY <3>1, DistinctSoFar DEF PortsDistinct
  <2> QED BY <2>1, <2>2, <2>3, <2>4 DEF PortInv
<1>4. FilesInv'
  BY DEF Inv, TypeInv, FilesInv
<1> QED BY <1>1, <1>2, <1>3, <1>4 DEF Inv, TypeInv

\* A seed hook prints the outputs it declares.
LEMMA SeedHooksKeeps ==
    ASSUME Inv, SeedHooks
    PROVE  Inv'
<1> USE DEF SeedHooks, allocation
<1>1. SortInv'
  BY SortIsOver DEF Inv
<1>2. TypeOK'
  <2>1. Provisioners \subseteq Names
    BY DEF Inv, TypeInv, TypeOK, IsConfig, IsPartial, Provisioners
  <2>2. IsPartial(printed', Names, SUBSET Outputs)
    BY <2>1 DEF IsPartial
  <2> QED BY <2>2 DEF Inv, TypeInv, TypeOK, Pcs, sort
<1>3. PortInv'
  BY DistinctStays DEF Inv, PortInv, ServiceNames, Infra
<1>4. RenderInv'
  <2>1. RefsKnown' = RefsKnown
    BY DEF RefsKnown, RefKnown, ServiceNames, Infra, Provisioners
  <2>2. /\ DOMAIN printed' = {p \in Provisioners : cfg.provisioners[p].seed}
        /\ Provisioners' = Provisioners
    BY DEF Provisioners
  <2> QED BY <2>1, <2>2 DEF Inv, RenderInv
<1>5. FilesInv'
  BY DEF Inv, TypeInv, FilesInv
<1> QED BY <1>1, <1>2, <1>3, <1>4, <1>5 DEF Inv, TypeInv

LEMMA BuildManifestKeeps ==
    ASSUME Inv, BuildManifest
    PROVE  Inv'
<1> USE DEF BuildManifest, allocation
<1>1. SortInv'
  BY SortIsOver DEF Inv
<1>2. TypeOK'
  BY DEF Inv, TypeInv, TypeOK, Pcs, sort
<1>3. PortInv'
  BY DistinctStays DEF Inv, PortInv, ServiceNames, Infra
<1>4. RenderInv'
  <2>1. RefsKnown' = RefsKnown /\ Provisioners' = Provisioners
    BY DEF RefsKnown, RefKnown, ServiceNames, Infra, Provisioners
  <2> QED BY <2>1 DEF Inv, RenderInv
<1>5. FilesInv'
  BY DEF Inv, TypeInv, FilesInv
<1> QED BY <1>1, <1>2, <1>3, <1>4, <1>5 DEF Inv, TypeInv

LEMMA StutterKeeps ==
    ASSUME Inv, UNCHANGED vars
    PROVE  Inv'
<1> USE DEF vars, sort, allocation
<1>1. TypeInv'
  BY DEF Inv, TypeInv, TypeOK, FilesInv
<1>2. ServiceNames' = ServiceNames /\ Infra' = Infra /\ Provisioners' = Provisioners
  BY DEF ServiceNames, Infra, Provisioners
<1>3. Popped' = Popped /\ \A s : Waiting(s)' = Waiting(s) /\ Due(s)' = Due(s)
  BY <1>2 DEF Popped, Waiting, Due
<1>4. SortInv'
  BY <1>2, <1>3 DEF Inv, SortInv
<1>5. PortInv'
  <2>1. PortsDistinct' = PortsDistinct
    BY <1>2 DEF PortsDistinct, Allocated, HasFixedPort
  <2> QED BY <1>2, <2>1 DEF Inv, PortInv
<1>6. RefsKnown' = RefsKnown
  BY <1>2 DEF RefsKnown, RefKnown
<1>7. RenderInv'
  BY <1>2, <1>6 DEF Inv, RenderInv
<1> QED BY <1>1, <1>4, <1>5, <1>7 DEF Inv

LEMMA InvHolds == Spec => []Inv
<1>1. Init => Inv
  BY InitInv
<1>2. Inv /\ [Next]_vars => Inv'
  <2> SUFFICES ASSUME Inv, [Next]_vars PROVE Inv'
    OBVIOUS
  <2>1. CASE LoadAndSort  BY <2>1, LoadKeeps
  <2>2. CASE Pop  BY <2>2, PopKeeps
  <2>3. ASSUME NEW s \in ServiceNames, Release(s) PROVE Inv'  BY <2>3, ReleaseKeeps
  <2>4. CASE Released  BY <2>4, ReleasedKeeps
  <2>5. CASE Vet  BY <2>5, VetKeeps
  <2>6. CASE Create  BY <2>6, CreateKeeps
  <2>7. CASE Assign  BY <2>7, AssignKeeps
  <2>8. CASE Taken  BY <2>8, TakenKeeps
  <2>9. CASE Exhausted  BY <2>9, ExhaustedKeeps
  <2>10. CASE FixPorts  BY <2>10, FixPortsKeeps
  <2>11. CASE SeedHooks  BY <2>11, SeedHooksKeeps
  <2>12. CASE BuildManifest  BY <2>12, BuildManifestKeeps
  <2>13. CASE UNCHANGED vars  BY <2>13, StutterKeeps
  <2> QED BY <2>1, <2>2, <2>3, <2>4, <2>5, <2>6, <2>7, <2>8, <2>9, <2>10, <2>11, <2>12, <2>13 DEF Next
<1> QED BY <1>1, <1>2, PTL DEF Spec

-----------------------------------------------------------------------------
(***************************************************************************)
(* The theorems.                                                           *)
(***************************************************************************)

\* Merging, sorting and allocating keep every variable in its type; so a merged
\* configuration is one that a file could have held (deepMergeConfig).
THEOREM TypeCorrect == Spec => []TypeOK
<1>1. Inv => TypeOK
  BY DEF Inv, TypeInv
<1> QED BY <1>1, InvHolds, PTL

\* AllocatePortBlock gives no two names the same port, whatever ports it finds taken
\* on the way, and those that keep theirs when the fixed ports are put in (manager.go)
\* have distinct ones of the block ever after.  Nothing is said of a service with a
\* fixed port: that one may be another service's, too.
THEOREM PortsApart == Spec => []PortsDistinct
<1>1. Inv => PortsDistinct
  <2> SUFFICES ASSUME Inv PROVE PortsDistinct
    OBVIOUS
  <2>1. CASE pc = "allocate"
    BY <2>1, DistinctSoFar DEF PortsDistinct, Allocated
  <2>2. CASE pc \in {"load", "invalid", "sort", "release", "vetted"}
    BY <2>2 DEF Inv, PortInv, PortsDistinct, Allocated
  <2>3. CASE pc \in {"exhausted", "seed", "render", "built", "unrendered"}
    BY <2>3 DEF Inv, PortInv
  <2> QED BY <2>1, <2>2, <2>3 DEF Inv, TypeInv, TypeOK, Pcs
<1> QED BY <1>1, InvHolds, PTL

\* AllocatePortBlock fails only when fewer ports of the block are free than there
\* are names, those of services with a fixed port included: it skips no port that it
\* could have used.
THEOREM ExhaustedIsFull == Spec => []ExhaustedOnlyWhenFull
<1>1. Inv => ExhaustedOnlyWhenFull
  <2> SUFFICES ASSUME Inv, pc = "exhausted"
               PROVE  Cardinality(Block \ busy) < Cardinality(ServiceNames) + Cardinality(Infra)
    BY DEF ExhaustedOnlyWhenFull
  <2>1. /\ Cardinality(busy) + Cardinality(ServiceNames) + Cardinality(Infra) = BlockSize + Len(todo)
        /\ todo # <<>> /\ busy \subseteq Block /\ todo \in Seq(Names \X Kinds)
    BY DEF Inv, PortInv, TypeInv, TypeOK
  <2>2. Len(todo) \in Nat \ {0}
    BY <2>1, EmptySeq
  <2>3. Cardinality(busy) \in Nat /\ BlockSize \in Nat
    BY <2>1, BlockFinite, BlockAssumption
  <2>4. Cardinality(Block \ busy) = BlockSize - Cardinality(busy)
    <3>1. Block \cap busy = busy
      BY <2>1
    <3> QED BY <3>1, BlockFinite, FS_Difference
  <2>5. Cardinality(ServiceNames) \in Nat /\ Cardinality(Infra) \in Nat
    BY ConfigFinite DEF Inv, TypeInv, TypeOK, ServiceNames, Infra
  <2> QED BY <2>1, <2>2, <2>3, <2>4, <2>5
<1> QED BY <1>1, InvHolds, PTL

\* Every reference that validateTemplateVars accepts, resolveVar resolves, when
\* no name is used for two kinds and every provisioner service has a seed hook.
LEMMA AcceptedResolves ==
    ASSUME Inv, pc = "render", accepted, ServiceNames \cap Infra = {},
           \A p \in Provisioners : cfg.provisioners[p].seed,
           NEW s \in ServiceNames, NEW k \in DOMAIN cfg.services[s].env
    PROVE  Resolves(s, cfg.services[s].env[k])
<1> DEFINE r == cfg.services[s].env[k]
<1>1. RefKnown(r)
  BY DEF Inv, RenderInv, RefsKnown
<1>2. DOMAIN ports = ServiceNames \cup Infra
  BY DEF Inv, PortInv
<1>3. DOMAIN printed = Provisioners /\ \A p \in Provisioners : cfg.provisioners[p].outputs \subseteq printed[p]
  BY DEF Inv, RenderInv
<1>4. ServicePorts = ServiceNames /\ InfraPorts = Infra
  BY <1>2 DEF ServicePorts, InfraPorts
<1> HIDE DEF r
<1>5. r.ns \in {"self", "services", "infrastructure", "provisioner"}
  BY <1>1 DEF RefKnown
<1>6. Resolves(s, r)
  <2>1. CASE r.ns = "self"  BY <2>1, <1>4 DEF Resolves
  <2>2. CASE r.ns = "services"  BY <2>2, <1>1, <1>4 DEF Resolves, RefKnown
  <2>3. CASE r.ns = "infrastructure"  BY <2>3, <1>1, <1>4 DEF Resolves, RefKnown
  <2>4. CASE r.ns = "provisioner"
    <3>1. r.name \in Provisioners /\ r.out \in cfg.provisioners[r.name].outputs
      BY <2>4, <1>1 DEF RefKnown
    <3> QED BY <2>4, <3>1, <1>3 DEF Resolves
  <2> QED BY <1>5, <2>1, <2>2, <2>3, <2>4
<1> QED BY <1>6 DEF r

\* What ValidateConfig accepts, BuildManifest can render, whichever files were
\* merged and whatever the seed hooks print besides what they declare.
THEOREM AcceptedIsRendered == Spec => []AcceptedRenders
<1>1. Init => AcceptedRenders
  BY DEF Init, AcceptedRenders
<1>2. Inv /\ AcceptedRenders /\ [Next]_vars => AcceptedRenders'
  <2> SUFFICES ASSUME Inv, AcceptedRenders, [Next]_vars,
                      accepted', ServiceNames' \cap Infra' = {},
                      \A p \in Provisioners' : cfg'.provisioners[p].seed
               PROVE  pc' # "unrendered"
    BY DEF AcceptedRenders
  <2>1. CASE BuildManifest
    <3>1. /\ pc = "render" /\ accepted /\ cfg' = cfg
          /\ ServiceNames \cap Infra = {} /\ \A p \in Provisioners : cfg.provisioners[p].seed
      BY <2>1 DEF BuildManifest, ServiceNames, Infra, Provisioners
    <3>2. \A s \in ServiceNames : \A k \in DOMAIN cfg.services[s].env :
              Resolves(s, cfg.services[s].env[k])
      BY <3>1, AcceptedResolves
    <3> QED BY <2>1, <3>2 DEF BuildManifest
  <2>2. CASE UNCHANGED vars
    <3>1. /\ pc' = pc /\ accepted /\ ServiceNames \cap Infra = {}
          /\ \A p \in Provisioners : cfg.provisioners[p].seed
      BY <2>2 DEF vars, ServiceNames, Infra, Provisioners
    <3> QED BY <3>1 DEF AcceptedRenders
  <2>3. CASE Next /\ ~BuildManifest
    BY <2>3 DEF Next, LoadAndSort, Load, Pop, Release, Released, Vet, Create, Assign, Taken,
                Exhausted, FixPorts, SeedHooks
  <2> QED BY <2>1, <2>2, <2>3
<1> QED BY <1>1, <1>2, InvHolds, PTL DEF Spec

\* The node that is popped depends on no service that is left, and is the
\* smallest such.
LEMMA PopsLeast ==
    ASSUME Inv, pc = "sort", queue # <<>>
    PROVE  /\ Head(queue) \in ServiceNames \ Popped
           /\ ServiceDeps(Head(queue)) \subseteq Popped
           /\ \A s \in ServiceNames \ Popped : ServiceDeps(s) \subseteq Popped => Head(queue) <= s
<1>1. /\ \A s \in ServiceNames : inDegree[s] = Cardinality(Waiting(s)) + Due(s)
      /\ queue \in Seq(Names) /\ Increasing(queue)
      /\ ToSet(queue) = {s \in ServiceNames \ Popped : inDegree[s] = 0}
  BY DEF Inv, SortInv
<1>2. /\ Head(queue) \in ToSet(queue) /\ \A v \in ToSet(queue) : Head(queue) <= v
  BY <1>1, TailInOrder
<1>3. ASSUME NEW s \in ServiceNames
      PROVE  inDegree[s] = 0 <=> ServiceDeps(s) \subseteq Popped
  <2>1. IsFiniteSet(DOMAIN cfg.services[s].deps)
    BY DepsFinite DEF Inv, TypeInv, TypeOK, ServiceNames
  <2>2. IsFiniteSet(Waiting(s)) /\ Cardinality(Waiting(s)) \in Nat
    BY <2>1, SubsetsFinite DEF Waiting
  <2>3. inDegree[s] = 0 <=> Waiting(s) = {}
    <3>1. inDegree[s] = Cardinality(Waiting(s)) + 0
      BY <1>1 DEF Due
    <3>2. Cardinality(Waiting(s)) = 0 <=> Waiting(s) = {}
      BY <2>2, FS_EmptySet
    <3> QED BY <2>2, <3>1, <3>2
  <2>4. Waiting(s) = {} <=> ServiceDeps(s) \subseteq Popped
    BY DEF Waiting, ServiceDeps, ToSet
  <2> QED BY <2>3, <2>4
<1> QED BY <1>1, <1>2, <1>3

LEMMA SortStep ==
    ASSUME Inv, SortOrdered, SortLeast, [Next]_vars
    PROVE  SortOrdered' /\ SortLeast'
<1>1. CASE LoadAndSort
  <2>1. result' = <<>>
    BY <1>1 DEF LoadAndSort, Load, StartSort, sort, Inv, SortInv
  <2> QED BY <2>1 DEF SortOrdered, SortLeast
<1>2. CASE Pop
  <2> DEFINE n == Len(result)
             h == Head(queue)
  <2>1. /\ pc = "sort" /\ queue # <<>> /\ cfg' = cfg /\ result' = Append(result, h)
    BY <1>2 DEF Pop
  <2>2. ServiceNames' = ServiceNames /\ \A s : ServiceDeps(s)' = ServiceDeps(s)
    BY <2>1 DEF ServiceNames, ServiceDeps
  <2>3. /\ h \in ServiceNames \ Popped /\ ServiceDeps(h) \subseteq Popped
        /\ \A s \in ServiceNames \ Popped : ServiceDeps(s) \subseteq Popped => h <= s
    BY <2>1, PopsLeast
  <2>4. result \in Seq(ServiceNames)
    BY DEF Inv, SortInv
  <2> HIDE DEF h
  <2>5. /\ n \in Nat /\ DOMAIN result = 1..n /\ DOMAIN result' = 1..(n + 1)
        /\ result'[n + 1] = h /\ \A i \in 1..n : result'[i] = result[i]
    BY <2>1, <2>3, <2>4, AppendProperties, LenProperties
  <2> HIDE DEF n
  <2>6. \A i \in 1..(n + 1) : {result'[j] : j \in 1..(i - 1)} = {result[j] : j \in 1..(i - 1)}
    <3> TAKE i \in 1..(n + 1)
    <3>1. \A j \in 1..(i - 1) : result'[j] = result[j]
      BY <2>5
    <3> QED BY <3>1
  <2>7. {result[j] : j \in 1..((n + 1) - 1)} = Popped
    BY <2>5 DEF Popped, ToSet
  <2>8. SortOrdered'
    <3> SUFFICES ASSUME NEW i \in 1..(n + 1)
                 PROVE  LET before == {result[j] : j \in 1..(i - 1)}
                        IN  result'[i] \notin before /\ ServiceDeps(result'[i]) \subseteq before
      BY <2>2, <2>5, <2>6 DEF SortOrdered
    <3>1. CASE i = n + 1  BY <3>1, <2>3, <2>5, <2>7
    <3>2. CASE i # n + 1
      <4>1. i \in DOMAIN result /\ result'[i] = result[i]  BY <3>2, <2>5
      <4> QED BY <4>1 DEF SortOrdered
    <3> QED BY <3>1, <3>2
  <2>9. SortLeast'
    <3> SUFFICES ASSUME NEW i \in 1..(n + 1)
                 PROVE  LET before == {result[j] : j \in 1..(i - 1)}
                        IN  \A s \in ServiceNames \ before :
                                ServiceDeps(s) \subseteq before => result'[i] <= s
      BY <2>2, <2>5, <2>6 DEF SortLeast
    <3>1. CASE i = n + 1  BY <3>1, <2>3, <2>5, <2>7
    <3>2. CASE i # n + 1
      <4>1. i \in DOMAIN result /\ result'[i] = result[i]  BY <3>2, <2>5
      <4> QED BY <4>1 DEF SortLeast
    <3> QED BY <3>1, <3>2
  <2> QED BY <2>8, <2>9
<1>3. CASE UNCHANGED <<cfg, result>>
  <2>1. ServiceNames' = ServiceNames /\ \A s : ServiceDeps(s)' = ServiceDeps(s)
    BY <1>3 DEF ServiceNames, ServiceDeps
  <2> QED BY <1>3, <2>1 DEF SortOrdered, SortLeast
<1>4. UNCHANGED <<cfg, result>> \/ LoadAndSort \/ Pop
  BY DEF Next, Release, Released, Vet, Create, Assign, Taken, Exhausted, FixPorts, SeedHooks,
         BuildManifest, vars, sort
<1> QED BY <1>1, <1>2, <1>3, <1>4

LEMMA SortHolds == Spec => [](SortOrdered /\ SortLeast)
<1>1. Init => SortOrdered /\ SortLeast
  BY DEF Init, SortOrdered, SortLeast
<1>2. Inv /\ (SortOrdered /\ SortLeast) /\ [Next]_vars => (SortOrdered /\ SortLeast)'
  BY SortStep
<1> QED BY <1>1, <1>2, InvHolds, PTL DEF Spec

\* TopologicalSort puts each service once, after the services it depends on.
THEOREM DependenciesFirst == Spec => []SortOrdered
BY SortHolds, PTL

\* TopologicalSort's result is the same for every order in which Go walks its
\* maps: the least of the possible ones.
THEOREM LeastOrder == Spec => []SortLeast
BY SortHolds, PTL

\* TopologicalSort reports a cycle exactly when some services depend on each
\* other in one, whatever else they depend on: what is no application service's name
\* holds nothing up.  A result without repetitions is complete if it is long enough;
\* the first of a cycle's services in it would come before what it depends on.
THEOREM CyclesFound == Spec => []SortDecides
<1>1. Inv /\ SortOrdered => SortDecides
  <2> SUFFICES ASSUME Inv, SortOrdered, pc = "sort", queue = <<>>
               PROVE  Sorted <=> ~Cyclic
    BY DEF SortDecides
  <2> DEFINE n == Len(result)
  <2>1. /\ n \in Nat /\ DOMAIN result = 1..n /\ result \in [1..n -> ServiceNames]
    BY LenProperties DEF Inv, SortInv
  <2>2. IsFiniteSet(ServiceNames) /\ Cardinality(1..n) = n
    <3>1. IsFiniteSet(ServiceNames)
      BY ConfigFinite DEF Inv, TypeInv, TypeOK, ServiceNames
    <3> HIDE DEF n
    <3>2. Cardinality(1..n) = IF 1 > n THEN 0 ELSE n - 1 + 1
      BY <2>1, FS_Interval
    <3> QED BY <2>1, <3>1, <3>2
  <2> HIDE DEF n
  <2>3. \A i, j \in 1..n : i < j => result[i] # result[j]
    <3> TAKE i, j \in 1..n
    <3>1. result[j] \notin {result[k] : k \in 1..(j - 1)}
      BY <2>1 DEF SortOrdered
    <3>2. i < j => i \in 1..(j - 1)
      BY <2>1
    <3> QED BY <3>1, <3>2
  <2>4. result \in Injection(1..n, ServiceNames)
    <3>1. \A i, j \in 1..n : result[i] = result[j] => i = j
      <4> TAKE i, j \in 1..n
      <4>1. i < j \/ j < i \/ i = j  BY <2>1
      <4> QED BY <4>1, <2>3
    <3> QED BY <2>1, <3>1 DEF Injection, IsInjective
  <2>5. Sorted <=> Popped = ServiceNames
    <3>1. Cardinality(1..n) = Cardinality(ServiceNames) <=> result \in Surjection(1..n, ServiceNames)
      BY <2>2, <2>4, FS_Injection
    <3>2. result \in Surjection(1..n, ServiceNames) <=> Popped = ServiceNames
      BY <2>1 DEF Surjection, Popped, ToSet
    <3> QED BY <2>2, <3>1, <3>2 DEF Sorted, n
  <2>6. ASSUME Popped = ServiceNames, Cyclic PROVE FALSE
    <3>1. PICK S \in (SUBSET ServiceNames) \ {{}} : \A s \in S : ServiceDeps(s) \cap S # {}
      BY <2>6 DEF Cyclic
    <3> DEFINE I == {i \in 1..n : result[i] \in S}
    <3>2. PICK i \in I : \A j \in I : i <= j
      <4>1. I \in SUBSET Nat /\ I # {}
        <5>1. PICK s \in S : s \in ServiceNames
          BY <3>1
        <5>2. PICK i \in DOMAIN result : result[i] = s
          BY <2>6, <5>1 DEF Popped, ToSet
        <5> QED BY <2>1, <5>1, <5>2
      <4> HIDE DEF I
      <4> QED BY <4>1, LeastNatural
    <3>3. PICK d \in S : d \in ServiceDeps(result[i])
      BY <3>1, <3>2
    <3>4. PICK j \in 1..(i - 1) : d = result[j]
      BY <2>1, <3>2, <3>3 DEF SortOrdered
    <3>5. j \in I /\ j < i /\ i \in Nat /\ j \in Nat
      BY <2>1, <3>2, <3>3, <3>4
    <3> QED BY <3>2, <3>5
  <2>7. ASSUME Popped # ServiceNames PROVE Cyclic
    <3> DEFINE S == ServiceNames \ Popped
    <3>1. S \in SUBSET ServiceNames /\ S # {}
      BY <2>1, <2>7 DEF Popped, ToSet
    <3>2. ASSUME NEW s \in S PROVE ServiceDeps(s) \cap S # {}
      <4>1. inDegree[s] # 0 /\ inDegree[s] = Cardinality(Waiting(s)) + 0
        BY DEF Inv, SortInv, Due, ToSet
      <4>2. Waiting(s) # {}
        BY <4>1, FS_EmptySet
      <4> QED BY <4>2 DEF Waiting, ServiceDeps, ToSet
    <3> HIDE DEF S
    <3> QED BY <3>1, <3>2 DEF Cyclic
  <2> QED BY <2>5, <2>6, <2>7
<1> QED BY <1>1, InvHolds, SortHolds, PTL
=============================================================================
