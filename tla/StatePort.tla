------------------------------ MODULE StatePort ------------------------------
(***************************************************************************)
(* What domain.StatePort promises the commands that call it: one map from  *)
(* environments to their records, read and changed atomically.  A call     *)
(* that fails has no effect, unless it is the answer that can get lost,    *)
(* and the caller may be killed at any time.                               *)
(* Save is left out: nothing calls it.                                     *)
(***************************************************************************)
CONSTANTS
    Callers,    \* threads of control that call the port
    Envs,       \* names of environments
    Data,       \* records of environments
    Absent,     \* "no record", not in Data
    AnswersLost \* may a call that took effect be reported as failed

States == [Envs -> Data \cup {Absent}]

Nothing == [e \in Envs |-> Absent]

Requests ==
    [kind : {"get", "remove"}, env : Envs] \cup
    [kind : {"set"}, env : Envs, data : Data] \cup
    [kind : {"load"}]

\* Whose records a request asks for.
Asked(r) == CASE r.kind = "get"  -> {r.env}
              [] r.kind = "load" -> Envs
              [] OTHER           -> {}

Answer(r, m) == [e \in Asked(r) |-> m[e]]

Updated(r, m) == CASE r.kind = "set"    -> [m EXCEPT ![r.env] = r.data]
                   [] r.kind = "remove" -> [m EXCEPT ![r.env] = Absent]
                   [] OTHER             -> m

Idle == [kind |-> "idle"]

Results == {"none", "pending", "done", "error"}

VARIABLES
    environments,   \* the map
    request,        \* what each caller is asking for, or Idle
    result,         \* how far its call is
    answer          \* the records it was given

vars == <<environments, request, result, answer>>

NoAnswer == [e \in {} |-> Absent]

TypeOK ==
    /\ environments \in States
    /\ request \in [Callers -> Requests \cup {Idle}]
    /\ result \in [Callers -> Results]
    /\ answer \in [Callers -> UNION {[S -> Data \cup {Absent}] : S \in SUBSET Envs}]

Init ==
    /\ environments = Nothing
    /\ request = [c \in Callers |-> Idle]
    /\ result = [c \in Callers |-> "none"]
    /\ answer = [c \in Callers |-> NoAnswer]

Call(c, r) ==
    /\ result[c] = "none"
    /\ request' = [request EXCEPT ![c] = r]
    /\ result' = [result EXCEPT ![c] = "pending"]
    /\ UNCHANGED <<environments, answer>>

\* The one instant at which the call takes effect.
Perform(c) ==
    /\ result[c] = "pending"
    /\ environments' = Updated(request[c], environments)
    /\ answer' = [answer EXCEPT ![c] = Answer(request[c], environments)]
    /\ result' = [result EXCEPT ![c] = "done"]
    /\ UNCHANGED request

Fail(c) ==
    /\ result[c] = "pending"
    /\ \/ UNCHANGED environments
       \/ AnswersLost /\ environments' = Updated(request[c], environments)
    /\ result' = [result EXCEPT ![c] = "error"]
    /\ UNCHANGED <<request, answer>>

\* The calls of the callers in S are over: they return, or are killed.
End(S) ==
    /\ request' = [c \in Callers |-> IF c \in S THEN Idle ELSE request[c]]
    /\ result' = [c \in Callers |-> IF c \in S THEN "none" ELSE result[c]]
    /\ answer' = [c \in Callers |-> IF c \in S THEN NoAnswer ELSE answer[c]]
    /\ UNCHANGED environments

Next ==
    \/ \E c \in Callers : \/ \E r \in Requests : Call(c, r)
                          \/ Perform(c)
                          \/ Fail(c)
    \/ \E S \in SUBSET Callers : End(S)

Spec == Init /\ [][Next]_vars
=============================================================================
