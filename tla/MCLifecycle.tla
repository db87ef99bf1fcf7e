----------------------------- MODULE MCLifecycle -----------------------------
(***************************************************************************)
(* Instances of Lifecycle for TLC.                                         *)
(***************************************************************************)
EXTENDS Lifecycle, TLC

\* Everything enabled: both provisioner hooks, compose with proxy, and (remote
\* mode) the hooks that tear compute down.
Everything == Optional \cup Hooks

\* Local mode: no compute hooks, compose without proxy.
LocalConfig == {"generate_compose", "build_services", "start_services"}
=============================================================================
