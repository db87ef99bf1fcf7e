------------------------------- MODULE MCClean -------------------------------
(***************************************************************************)
(* Instances of Clean, and with it of Lifecycle in local mode, for TLC:    *)
(* the values MCLifecycle defines serve here, too.                         *)
(***************************************************************************)
EXTENDS Clean, MCLifecycle
=============================================================================
