----------------------------- MODULE ImportBatch -----------------------------
(***************************************************************************)
(* What the check and import steps of a migration promise: every show of   *)
(* TV Time is answered for exactly once, as skipped, as added or as not    *)
(* found, and only then is the migration over; or the check fails, before  *)
(* anything is added.  Nothing is said of workers, channels or order.      *)
(***************************************************************************)
EXTENDS Naturals

CONSTANT Items   \* the shows TV Time returned

VARIABLES
    left,      \* the shows not answered for yet
    skipped,   \* those already in Serializd, or the second of their kind
    added,     \* how many were added to the account
    missed,    \* those that were not resolved or not imported
    state      \* "check", "import", "over" or "failed"

vars == <<left, skipped, added, missed, state>>

Init ==
    /\ left = Items /\ skipped = {} /\ added = 0 /\ missed = {}
    /\ state = "check"

Sort ==
    /\ state = "check" /\ state' = "import"
    /\ skipped' \in SUBSET Items
    /\ missed' \in SUBSET (Items \ skipped')
    /\ left' = Items \ (skipped' \cup missed')
    /\ UNCHANGED added

Fail ==
    /\ state = "check" /\ state' = "failed"
    /\ UNCHANGED <<left, skipped, added, missed>>

Add(i) ==
    /\ state = "import" /\ i \in left
    /\ left' = left \ {i} /\ added' = added + 1
    /\ UNCHANGED <<skipped, missed, state>>

Miss(i) ==
    /\ state = "import" /\ i \in left
    /\ left' = left \ {i} /\ missed' = missed \cup {i}
    /\ UNCHANGED <<skipped, added, state>>

End ==
    /\ state = "import" /\ left = {} /\ state' = "over"
    /\ UNCHANGED <<left, skipped, added, missed>>

Next == Sort \/ Fail \/ End \/ \E i \in Items : Add(i) \/ Miss(i)

Spec == Init /\ [][Next]_vars /\ WF_vars(Next)
===============================================================================
