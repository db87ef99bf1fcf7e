---------------------------- MODULE MCStoreValues ----------------------------
(***************************************************************************)
(* Instances of StoreValues for TLC.                                       *)
(***************************************************************************)
EXTENDS StoreValues, TLC
=============================================================================
