----------------------------- MODULE MCFileStore -----------------------------
(***************************************************************************)
(* Instances of FileStore for TLC.                                         *)
(***************************************************************************)
EXTENDS FileStore, TLC

CONSTANTS t1, t2, p1, p2

\* Two threads of one process.
OneProcess == (t1 :> p1) @@ (t2 :> p1)

\* Two commands at the same time.
TwoProcesses == (t1 :> p1) @@ (t2 :> p2)
=============================================================================
