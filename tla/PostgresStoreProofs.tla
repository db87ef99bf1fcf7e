------------------------- MODULE PostgresStoreProofs -------------------------
(***************************************************************************)
(* PostgresStore implements StatePort, for any clients and projects: every *)
(* statement of a client of the project is a step of the port, and every   *)
(* other one leaves the project's active rows alone.                       *)
(***************************************************************************)
EXTENDS PostgresStore, TLAPS

TableRows == [data : Records, deleted : BOOLEAN] \cup {NoRecord}

\* A call under way is a request, and only a finished one has an answer.
TableInv ==
    /\ rows \in [Projects -> [Names -> TableRows]]
    /\ asked \in [Clients -> Table!Requests \cup {Table!Idle}]
    /\ outcome \in [Clients -> Table!Results]
    /\ given \in [Clients -> UNION {[S -> Records \cup {NoRecord}] : S \in SUBSET Names}]
    /\ \A c \in Clients : outcome[c] = "pending" => asked[c] \in Table!Requests

LEMMA ActiveType ==
  ASSUME TableInv, NEW p \in Projects
  PROVE  Active(p) \in [Names -> Records \cup {NoRecord}]
<1>1. rows[p] \in [Names -> TableRows]
  BY DEF TableInv
<1> QED BY <1>1 DEF Active, TableRows

LEMMA AnswerGiven ==
  ASSUME NEW r \in Table!Requests, NEW m \in [Names -> Records \cup {NoRecord}]
  PROVE  Table!Answer(r, m) \in UNION {[S -> Records \cup {NoRecord}] : S \in SUBSET Names}
<1>1. Table!Asked(r) \in SUBSET Names
  BY DEF Table!Asked, Table!Requests
<1>2. Table!Answer(r, m) \in [Table!Asked(r) -> Records \cup {NoRecord}]
  BY <1>1 DEF Table!Answer
<1> QED BY <1>1, <1>2

LEMMA NoAnswerGiven ==
  Table!NoAnswer \in UNION {[S -> Records \cup {NoRecord}] : S \in SUBSET Names}
<1>1. Table!NoAnswer \in [{} -> Records \cup {NoRecord}]
  BY DEF Table!NoAnswer
<1> QED BY <1>1

\* What a statement does to the table, and to the active rows of its project.
LEMMA ExecutedRows ==
  ASSUME TableInv, NEW c \in Clients, asked[c] \in Table!Requests
  PROVE  /\ Executed(c) \in [Projects -> [Names -> TableRows]]
         /\ \A p \in Projects \ {ClientProject[c]} : Executed(c)[p] = rows[p]
<1>1. ClientProject[c] \in Projects /\ rows \in [Projects -> [Names -> TableRows]]
  BY ClientAssumption DEF TableInv
<1>2. CASE asked[c].kind = "set"
  <2>1. asked[c].env \in Names /\ asked[c].data \in Records
    BY <1>2 DEF Table!Requests
  <2>2. [data |-> asked[c].data, deleted |-> FALSE] \in TableRows
    BY <2>1 DEF TableRows
  <2> QED BY <1>1, <1>2, <2>1, <2>2 DEF Executed, Upserted
<1>3. CASE asked[c].kind = "remove"
  <2>1. asked[c].env \in Names /\ NoRecord \in TableRows
    BY <1>3 DEF Table!Requests, TableRows
  <2> QED BY <1>1, <1>3, <2>1 DEF Executed
<1>4. CASE asked[c].kind \notin {"set", "remove"}
  BY <1>1, <1>4 DEF Executed
<1> QED BY <1>2, <1>3, <1>4

LEMMA ExecutedActive ==
  ASSUME TableInv, NEW c \in Own, asked[c] \in Table!Requests, rows' = Executed(c)
  PROVE  Active(Project)' = Table!Updated(asked[c], Active(Project))
<1>1. /\ ClientProject[c] = Project /\ Project \in Projects
      /\ rows \in [Projects -> [Names -> TableRows]]
  BY ClientAssumption DEF TableInv, Own
<1>2. CASE asked[c].kind = "set"
  <2>1. asked[c].env \in Names /\ asked[c].data \in Records
    BY <1>2 DEF Table!Requests
  <2>2. [data |-> asked[c].data, deleted |-> FALSE] # NoRecord
    <3>1. [data |-> asked[c].data, deleted |-> FALSE] \in [data : Records, deleted : BOOLEAN]
      BY <2>1
    <3> QED BY <3>1, RecordAssumption
  <2>3. rows'[Project] = [rows[Project] EXCEPT ![asked[c].env]
                                          = [data |-> asked[c].data, deleted |-> FALSE]]
    BY <1>1, <1>2, <2>1 DEF Executed, Upserted
  <2>4. Active(Project)' = [Active(Project) EXCEPT ![asked[c].env] = asked[c].data]
    <3>1. rows'[Project][asked[c].env] = [data |-> asked[c].data, deleted |-> FALSE]
      BY <1>1, <2>1, <2>3
    <3>2. \A n \in Names \ {asked[c].env} : rows'[Project][n] = rows[Project][n]
      BY <1>1, <2>1, <2>3
    <3>3. Active(Project)'[asked[c].env] = asked[c].data
      BY <2>1, <2>2, <3>1 DEF Active
    <3>4. \A n \in Names \ {asked[c].env} : Active(Project)'[n] = Active(Project)[n]
      BY <3>2 DEF Active
    <3>5. /\ Active(Project) = [n \in Names |-> Active(Project)[n]]
          /\ Active(Project)' = [n \in Names |-> Active(Project)'[n]]
      BY DEF Active
    <3> QED BY <2>1, <3>3, <3>4, <3>5
  <2> QED BY <1>2, <2>4 DEF Table!Updated
<1>3. CASE asked[c].kind = "remove"
  <2>1. asked[c].env \in Names
    BY <1>3 DEF Table!Requests
  <2>2. rows'[Project] = [rows[Project] EXCEPT ![asked[c].env] = NoRecord]
    BY <1>1, <1>3, <2>1 DEF Executed
  <2>3. Active(Project)' = [Active(Project) EXCEPT ![asked[c].env] = NoRecord]
    BY <1>1, <2>1, <2>2 DEF Active
  <2> QED BY <1>3, <2>3 DEF Table!Updated
<1>4. CASE asked[c].kind \notin {"set", "remove"}
  BY <1>4 DEF Executed, Active, Table!Updated
<1> QED BY <1>2, <1>3, <1>4

LEMMA TableInvInit == TableInit => TableInv
<1> SUFFICES ASSUME TableInit PROVE TableInv
  OBVIOUS
<1>1. [data : Records, deleted : {TRUE}] \cup {NoRecord} \subseteq TableRows
  BY DEF TableRows
<1>2. rows \in [Projects -> [Names -> TableRows]]
  BY <1>1 DEF TableInit
<1> QED BY <1>2, NoAnswerGiven DEF TableInit, TableInv, Table!Results

LEMMA OverKeeps ==
  ASSUME TableInv, NEW c \in Clients, Over(c)
  PROVE  TableInv'
  BY NoAnswerGiven DEF TableInv, Over, Table!Results

LEMMA TableInvKept == TableInv /\ [TableNext]_tableVars => TableInv'
<1> SUFFICES ASSUME TableInv, [TableNext]_tableVars PROVE TableInv'
  OBVIOUS
<1>1. ASSUME NEW c \in Clients, NEW r \in Table!Requests, Issue(c, r)
      PROVE  TableInv'
  BY <1>1 DEF Issue, TableInv, Table!Results
<1>2. ASSUME NEW c \in Clients, Execute(c)
      PROVE  TableInv'
  <2>1. asked[c] \in Table!Requests /\ ClientProject[c] \in Projects
    BY <1>2, ClientAssumption DEF Execute, TableInv
  <2>2. Table!Answer(asked[c], Active(ClientProject[c]))
            \in UNION {[S -> Records \cup {NoRecord}] : S \in SUBSET Names}
    BY <2>1, ActiveType, AnswerGiven
  <2> QED BY <1>2, <2>1, <2>2, ExecutedRows DEF Execute, TableInv, Table!Results
<1>3. ASSUME NEW c \in Clients, ExecuteFails(c)
      PROVE  TableInv'
  <2>1. asked[c] \in Table!Requests
    BY <1>3 DEF ExecuteFails, TableInv
  <2> QED BY <1>3, <2>1, ExecutedRows DEF ExecuteFails, TableInv, Table!Results
<1>4. ASSUME NEW c \in Clients, Answered(c) \/ KillClient(c)
      PROVE  TableInv'
  BY <1>4, OverKeeps DEF Answered, KillClient
<1>5. CASE UNCHANGED tableVars
  BY <1>5 DEF tableVars, TableInv
<1> QED BY <1>1, <1>2, <1>3, <1>4, <1>5 DEF TableNext

-----------------------------------------------------------------------------
\* A call of another project is nothing to the port.
LEMMA ForeignStutters ==
  ASSUME TableInv, NEW c \in Clients \ Own,
         \/ \E r \in Table!Requests : Issue(c, r)
         \/ Execute(c) \/ ExecuteFails(c) \/ Answered(c) \/ KillClient(c)
  PROVE  UNCHANGED Table!vars
<1>1. ClientProject[c] # Project /\ Project \in Projects
  BY ClientAssumption DEF Own
<1>2. \A d \in Own : asked'[d] = asked[d] /\ outcome'[d] = outcome[d] /\ given'[d] = given[d]
  BY DEF TableInv, Issue, Execute, ExecuteFails, Answered, KillClient, Over, Own
<1>3. rows'[Project] = rows[Project]
  <2>1. CASE rows' = rows
    BY <2>1
  <2>2. CASE rows' = Executed(c) /\ outcome[c] = "pending"
    BY <1>1, <2>2, ExecutedRows DEF TableInv
  <2> QED BY <2>1, <2>2 DEF Issue, Execute, ExecuteFails, Answered, KillClient, Over
<1> QED BY <1>2, <1>3 DEF Table!vars, OfProject, Active

LEMMA OwnStep ==
  ASSUME TableInv, NEW c \in Own,
         \/ \E r \in Table!Requests : Issue(c, r)
         \/ Execute(c) \/ ExecuteFails(c) \/ Answered(c) \/ KillClient(c)
  PROVE  Table!Next
<1>1. c \in Clients /\ ClientProject[c] = Project /\ Project \in Projects
  BY ClientAssumption DEF Own
<1>2. OfProject(asked)[c] = asked[c] /\ OfProject(outcome)[c] = outcome[c]
  BY DEF OfProject
<1>3. rows' = rows => Active(Project)' = Active(Project)
  BY DEF Active
<1>4. ASSUME NEW r \in Table!Requests, Issue(c, r)
      PROVE  Table!Call(c, r)
  BY <1>1, <1>2, <1>3, <1>4 DEF Issue, Table!Call, OfProject, TableInv, Own
<1>5. ASSUME Execute(c)
      PROVE  Table!Perform(c)
  <2>1. Active(Project)' = Table!Updated(asked[c], Active(Project))
    BY <1>1, <1>5, ExecutedActive DEF Execute, TableInv
  <2> QED BY <1>1, <1>2, <1>5, <2>1 DEF Execute, Table!Perform, OfProject, TableInv, Own
<1>6. ASSUME ExecuteFails(c)
      PROVE  Table!Fail(c)
  <2>1. Active(Project)' \in {Active(Project), Table!Updated(asked[c], Active(Project))}
    BY <1>1, <1>3, <1>6, ExecutedActive DEF ExecuteFails, TableInv
  <2> QED BY <1>1, <1>2, <1>6, <2>1 DEF ExecuteFails, Table!Fail, OfProject, TableInv, Own
<1>7. ASSUME Answered(c) \/ KillClient(c)
      PROVE  Table!End({c})
  BY <1>1, <1>3, <1>7 DEF Answered, KillClient, Over, Table!End, OfProject, TableInv, Own
<1>8. {c} \in SUBSET Own
  OBVIOUS
<1> QED BY <1>4, <1>5, <1>6, <1>7, <1>8 DEF Table!Next

\* Whatever the clients of other projects do in the same table, and whatever
\* rows older versions marked as deleted, the adapter gives the commands of a
\* project the atomic map that domain.StatePort promises; an error alone does
\* not tell whether the change was made (outbound/state/postgres.go).
THEOREM TableImplements == TableSpec => TableImplementsPort
<1>1. TableInit => Table!Init
  <2> SUFFICES ASSUME TableInit PROVE Table!Init
    OBVIOUS
  <2>1. Active(Project) = [n \in Names |-> NoRecord]
    BY ClientAssumption DEF TableInit, Active
  <2> QED BY <2>1 DEF TableInit, Table!Init, Table!Nothing, OfProject, Own
<1>2. TableInv /\ [TableNext]_tableVars => [Table!Next]_(Table!vars)
  <2> SUFFICES ASSUME TableInv, [TableNext]_tableVars
               PROVE  Table!Next \/ UNCHANGED Table!vars
    OBVIOUS
  <2>1. ASSUME NEW c \in Clients,
               \/ \E r \in Table!Requests : Issue(c, r)
               \/ Execute(c) \/ ExecuteFails(c) \/ Answered(c) \/ KillClient(c)
        PROVE  Table!Next \/ UNCHANGED Table!vars
    BY <2>1, OwnStep, ForeignStutters
  <2>2. CASE UNCHANGED tableVars
    BY <2>2 DEF tableVars, Table!vars, OfProject, Active
  <2> QED BY <2>1, <2>2 DEF TableNext
<1> QED
  BY <1>1, <1>2, TableInvInit, TableInvKept, PTL DEF TableSpec, TableImplementsPort, Table!Spec
=============================================================================
