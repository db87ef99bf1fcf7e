------------------------------ MODULE MCConfig ------------------------------
(***************************************************************************)
(* Pairs of files for Config: Graphs varies the dependencies of three      *)
(* services in the base file and of one in the overlay; References varies  *)
(* what one service refers to, and what the overlay changes around it;     *)
(* Fixed gives two services ports of their own.                            *)
(* 4 is the infrastructure service, 5 the provisioner service.             *)
(***************************************************************************)
EXTENDS Config, TLC

Infrastructure == 4 :> 5432
Service(deps, env) == [path |-> "dir", port |-> 0, deps |-> deps, env |-> env]
File(services, provisioners, infra, domain) ==
    [services |-> services, provisioners |-> provisioners, compose |-> infra # <<>>,
     infra |-> infra, domain |-> domain]

Dependencies == {<<>>, <<1>>, <<2>>, <<3>>, <<2, 1>>, <<2, 2, 3>>, <<4>>}
Graphs ==
    {<<File([s \in 1..3 |-> Service(d[s], <<>>)], <<>>, Infrastructure, FALSE),
       File(o, <<>>, <<>>, FALSE)>> :
        d \in [1..3 -> Dependencies],
        o \in {<<>>} \cup {3 :> [Service(e, <<>>) EXCEPT !.path = ""] : e \in {<<1>>, <<5>>}}}

R(ns, name, out) == [ns |-> ns, name |-> name, out |-> out]
Variables ==
    {R("self", 1, "URL"), R("services", 2, "URL"), R("services", 5, "URL"),
     R("infrastructure", 4, "URL"), R("infrastructure", 5, "URL"),
     R("provisioner", 5, "URL"), R("provisioner", 5, "KEY"), R("provisioner", 4, "URL"),
     R("env", 1, "URL"), R("store", 1, "KEY"), R("proxy.url", 2, "URL"),
     R("proxy.url", 4, "URL"), R("proxy.domain", 1, "URL"), R("malformed", 1, "URL")}

References ==
    {<<File((1 :> Service(<<>>, "A" :> r)) @@ (2 :> [Service(<<>>, <<>>) EXCEPT !.path = p]),
            5 :> [outputs |-> {"URL"}, seed |-> seed], Infrastructure, FALSE),
       File(IF add = "none" THEN <<>>
            ELSE 1 :> [path |-> "", port |-> 8080, deps |-> <<>>, env |-> add :> q],
            IF outs = {} THEN <<>> ELSE 5 :> [outputs |-> outs, seed |-> TRUE],
            infra, TRUE)>> :
        r \in Variables, q \in Variables, add \in {"none", "A", "B"},
        seed \in BOOLEAN, p \in {"", "dir"}, outs \in {{}, {"KEY"}},
        infra \in {<<>>, 2 :> 0, (4 :> 0) @@ (5 :> 0)}}

\* 6 is the first port of the block, 8080 is in none.
Fixed ==
    {<<File((1 :> [Service(<<>>, <<>>) EXCEPT !.port = p]) @@
            (2 :> [Service(<<>>, <<>>) EXCEPT !.port = q]), <<>>, Infrastructure, FALSE),
       File(<<>>, <<>>, <<>>, FALSE)>> : p \in {0, 6, 8080}, q \in {0, 6, 8080}}

AllFiles == Graphs \cup References \cup Fixed
=============================================================================
