---------------------------- MODULE PostgresStore ----------------------------
(***************************************************************************)
(* outbound/state/postgres.go: the other implementation of StatePort, for  *)
(* remote mode.  All projects share one table, with a row per project and  *)
(* environment; a call is one SQL statement, which the database executes   *)
(* atomically.  The adapter adds no lock, retry or cache: the connection   *)
(* may break before or after the statement took effect, and the caller     *)
(* cannot tell.                                                            *)
(*                                                                         *)
(* A definition named Faulty... is a wrong version of the one that follows *)
(* it; no specification uses it.                                           *)
(***************************************************************************)
EXTENDS Naturals

CONSTANTS
    Clients,        \* callers of adapters, each opened for one project
    ClientProject,  \* the project of each
    Projects,
    Project,        \* the one whose commands are looked at
    Names,          \* of environments
    Records,        \* the data column
    NoRecord,       \* no row
    MaxStatements,  \* bound: calls
    MaxBroken       \* bound: failing statements, and callers that are killed

ASSUME ClientAssumption ==
    Project \in Projects /\ ClientProject \in [Clients -> Projects]
ASSUME RecordAssumption == NoRecord \notin [data : Records, deleted : BOOLEAN] \cup Records
ASSUME StatementAssumption == MaxStatements \in Nat /\ MaxBroken \in Nat

VARIABLES
    rows,       \* the table; rows with is_deleted were left by older versions (today
                \* only Save sets it, which no command calls)
    asked,      \* the call each client makes, or Idle
    outcome,    \* how far it is
    given,      \* the records it got
    statements, broken      \* counters for the bounds

tableVars == <<rows, asked, outcome, given, statements, broken>>

\* WHERE project = p AND is_deleted = false
Active(p) ==
    [n \in Names |-> IF rows[p][n] # NoRecord /\ ~rows[p][n].deleted
                     THEN rows[p][n].data ELSE NoRecord]

Own == {c \in Clients : ClientProject[c] = Project}

OfProject(f) == [c \in Own |-> f[c]]

Table == INSTANCE StatePort
         WITH Callers <- Own, Envs <- Names, Data <- Records, Absent <- NoRecord,
              AnswersLost <- TRUE, environments <- Active(Project),
              request <- OfProject(asked), result <- OfProject(outcome),
              answer <- OfProject(given)

TableTypeOK ==
    /\ rows \in [Projects -> [Names -> [data : Records, deleted : BOOLEAN] \cup {NoRecord}]]
    /\ asked \in [Clients -> Table!Requests \cup {Table!Idle}]
    /\ outcome \in [Clients -> Table!Results]
    /\ given \in [Clients -> UNION {[S -> Records \cup {NoRecord}] : S \in SUBSET Names}]
    /\ statements \in Nat /\ broken \in Nat

TableInit ==
    /\ rows \in [Projects -> [Names -> [data : Records, deleted : {TRUE}] \cup {NoRecord}]]
    /\ asked = [c \in Clients |-> Table!Idle]
    /\ outcome = [c \in Clients |-> "none"]
    /\ given = [c \in Clients |-> Table!NoAnswer]
    /\ statements = 0 /\ broken = 0

-----------------------------------------------------------------------------
Issue(c, r) ==
    /\ outcome[c] = "none"
    /\ statements < MaxStatements /\ statements' = statements + 1
    /\ asked' = [asked EXCEPT ![c] = r]
    /\ outcome' = [outcome EXCEPT ![c] = "pending"]
    /\ UNCHANGED <<rows, given, broken>>

\* INSERT ... ON CONFLICT DO UPDATE SET data: a deleted row stays deleted.
FaultyUpserted(row, record) ==
    [data |-> record, deleted |-> row # NoRecord /\ row.deleted]

\* INSERT ... ON CONFLICT DO UPDATE SET data, ..., is_deleted = false
Upserted(row, record) == [data |-> record, deleted |-> FALSE]

\* DELETE FROM environments WHERE name = n, in every project.
FaultyExecuted(c) ==
    LET r == asked[c]
    IN  CASE r.kind = "set" ->
                 [rows EXCEPT ![ClientProject[c]][r.env] = Upserted(@, r.data)]
          [] r.kind = "remove" ->
                 [p \in Projects |-> [rows[p] EXCEPT ![r.env] = NoRecord]]
          [] OTHER -> rows

\* The table after the statement of c.
Executed(c) ==
    LET r == asked[c]
    IN  CASE r.kind = "set" ->
                 [rows EXCEPT ![ClientProject[c]][r.env] = Upserted(@, r.data)]
          [] r.kind = "remove" ->
                 [rows EXCEPT ![ClientProject[c]][r.env] = NoRecord]
          [] OTHER -> rows

\* Load and GetEnvironment scan what their SELECT returned.
Execute(c) ==
    /\ outcome[c] = "pending"
    /\ rows' = Executed(c)
    /\ given' = [given EXCEPT ![c] = Table!Answer(asked[c], Active(ClientProject[c]))]
    /\ outcome' = [outcome EXCEPT ![c] = "done"]
    /\ UNCHANGED <<asked, statements, broken>>

\* An error of the driver: the statement failed, or its answer was lost.
ExecuteFails(c) ==
    /\ outcome[c] = "pending"
    /\ broken < MaxBroken /\ broken' = broken + 1
    /\ rows' \in {rows, Executed(c)}
    /\ outcome' = [outcome EXCEPT ![c] = "error"]
    /\ UNCHANGED <<asked, given, statements>>

Over(c) ==
    /\ asked' = [asked EXCEPT ![c] = Table!Idle]
    /\ outcome' = [outcome EXCEPT ![c] = "none"]
    /\ given' = [given EXCEPT ![c] = Table!NoAnswer]
    /\ UNCHANGED <<rows, statements>>

Answered(c) == outcome[c] \in {"done", "error"} /\ Over(c) /\ UNCHANGED broken

\* The process is killed before its statement is sent, or after it was executed.
KillClient(c) ==
    /\ outcome[c] # "none"
    /\ broken < MaxBroken /\ broken' = broken + 1
    /\ Over(c)

TableNext ==
    \E c \in Clients :
        \/ \E r \in Table!Requests : Issue(c, r)
        \/ Execute(c) \/ ExecuteFails(c) \/ Answered(c) \/ KillClient(c)

TableSpec == TableInit /\ [][TableNext]_tableVars

-----------------------------------------------------------------------------
\* The commands of one project see one atomic map of their own, whatever other
\* projects do in the same table and whatever older versions left in it as
\* deleted; only an error does not tell whether the change was made.
TableImplementsPort == Table!Spec
=============================================================================
