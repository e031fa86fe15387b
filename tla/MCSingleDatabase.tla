-------------------------- MODULE MCSingleDatabase --------------------------
(***************************************************************************)
(* Small instances of SingleDatabase.                                      *)
(***************************************************************************)
EXTENDS SingleDatabase
=============================================================================
