---------------------------- MODULE MCMigrateQueue ----------------------------
(* The queue for TLC: four jobs and two slots, so that one call of           *)
(* tryStartQueuedJobs may start two jobs, and a waiting job has others       *)
(* before and behind it while its client polls.                              *)
EXTENDS MigrateQueue
===============================================================================
