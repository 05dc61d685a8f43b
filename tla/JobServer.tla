------------------------------ MODULE JobServer ------------------------------
(***************************************************************************)
(* What the migration queue promises, with no lock, goroutine or callback: *)
(* a server with a fixed number of slots that takes the submitted jobs in  *)
(* the order they arrive and gives each a slot once; a job that hangs      *)
(* takes its slot from the others, and nothing more.                       *)
(***************************************************************************)
EXTENDS Integers, Sequences, FiniteSets

CONSTANTS Jobs,      \* the jobs that may be submitted
          Hanging,   \* those that may keep their slot for ever
          Slots      \* how many of them may be served at once

VARIABLES waiting,   \* submitted, not yet served, in order of arrival
          serving,   \* holding a slot
          served     \* finished

vars == <<waiting, serving, served>>

Waiting == {waiting[i] : i \in DOMAIN waiting}

Init ==
    /\ waiting = <<>>
    /\ serving = {}
    /\ served = {}

Submit(j) ==
    /\ j \notin Waiting \cup serving \cup served
    /\ waiting' = Append(waiting, j)
    /\ UNCHANGED <<serving, served>>

(* The n oldest waiting jobs get a slot, if that many are free. *)
Serve ==
    \E n \in 1..Len(waiting) :
        /\ Cardinality(serving) + n <= Slots
        /\ serving' = serving \cup {waiting[i] : i \in 1..n}
        /\ waiting' = SubSeq(waiting, n + 1, Len(waiting))
        /\ UNCHANGED served

Finish(j) ==
    /\ j \in serving
    /\ serving' = serving \ {j}
    /\ served' = served \cup {j}
    /\ UNCHANGED waiting

Next ==
    \/ \E j \in Jobs : Submit(j)
    \/ Serve
    \/ \E j \in Jobs : Finish(j)

SafeSpec == Init /\ [][Next]_vars

(* A free slot and a waiting job meet, and the other jobs give theirs back.  *)
Spec ==
    /\ SafeSpec
    /\ WF_vars(Serve)
    /\ \A j \in Jobs \ Hanging : WF_vars(Finish(j))
==============================================================================
