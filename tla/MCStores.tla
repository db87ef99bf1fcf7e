------------------------------ MODULE MCStores ------------------------------
(***************************************************************************)
(* Both implementations of StatePort.  A command talks to one of them,     *)
(* chosen by its mode.                                                     *)
(***************************************************************************)
EXTENDS MCFileStore, PostgresStore

CONSTANTS t3, pj1, pj2

VARIABLE mode

storeVars == <<mode, vars, tableVars>>

\* t3 works for another project in the same database.
ClientProjects == (t1 :> pj1) @@ (t2 :> pj1) @@ (t3 :> pj2)

\* Rows an older version deleted; what data they hold makes no difference.
OldRows ==
    {[p \in Projects |-> [n \in Names |->
        IF <<p, n>> \in S THEN [data |-> CHOOSE d \in Records : TRUE, deleted |-> TRUE]
                          ELSE NoRecord]] : S \in SUBSET ({Project} \X Names)}

StoreInit ==
    /\ mode \in {"local", "remote"}
    /\ Init /\ TableInit /\ rows \in OldRows
    /\ mode = "local" => \A p \in Projects, n \in Names : rows[p][n] = NoRecord

StoreNext ==
    \/ mode = "local" /\ Next /\ UNCHANGED <<mode, tableVars>>
    \/ mode = "remote" /\ TableNext /\ UNCHANGED <<mode, vars>>

StoreSpec == StoreInit /\ [][StoreNext]_storeVars
=============================================================================
