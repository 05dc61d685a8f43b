-------------------------- MODULE MCCredentialLimiter --------------------------
(* Two requests of a burst, then one for every two of five ticks, of a       *)
(* minute of four: three goroutines can bring the first requests of an       *)
(* address at once and exceed the burst, and a bucket fills up again, in     *)
(* part and as a whole.                                                      *)
EXTENDS CredentialLimiter, TLC

Alike == Permutations(Handlers) \cup Permutations(Addresses)
================================================================================
