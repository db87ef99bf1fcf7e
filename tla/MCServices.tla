----------------------------- MODULE MCServices -----------------------------
(***************************************************************************)
(* Instances of Services for TLC: web and api live in one directory.       *)
(***************************************************************************)
EXTENDS Services, TLC

CONSTANTS web, api, admin

Together == (web :> "apps") @@ (api :> "apps") @@ (admin :> "admin")
=============================================================================
