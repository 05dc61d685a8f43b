----------------------------- MODULE MCMigrateJob -----------------------------
(* One job of the code's pipeline, for TLC. *)
EXTENDS MigrateJob
================================================================================
