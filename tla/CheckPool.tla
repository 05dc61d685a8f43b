------------------------------- MODULE CheckPool -------------------------------
(***************************************************************************)
(* The check step of one migration (service/migrate_parallel.go): while    *)
(* Serializd is asked for the account's library, a pool resolves the TMDB  *)
(* id of every show TV Time returned.  A feeder fills the channel jobs,    *)
(* workers look the shows up and send them on, and the collector lists     *)
(* them in the order they come.  Both channels are bounded, and what a     *)
(* goroutine does under progressMu is one step.                            *)
(***************************************************************************)
EXTENDS Integers, Sequences, FiniteSets

CONSTANTS NumShows,              \* how many shows TV Time returned (bound)
          NameOf,                \* the title of each show, by its place in the order of
                                 \* titles; two may share one, and Untitled has none
          MaxActiveShows,        \* how many titles are shown: eight
          LookupConcurrency,     \* MIGRATE_LOOKUP_CONCURRENCY, as lookupConcurrency returns it
          progressPersistEvery   \* so many outcomes between two persists

ASSUME CheckAssumption ==
    /\ NumShows \in Nat
    /\ LookupConcurrency \in 1..64
    /\ progressPersistEvery \in Nat \ {0}
    /\ NameOf \in [1..NumShows -> Nat]
    /\ MaxActiveShows \in Nat \ {0}

VARIABLES
    step,          \* "check", "import" or "failed"
    library,       \* GetUserInformation: "asked", "told" or "refused"
    checkFed,      \* how many shows the feeder has sent on jobs
    checkTaken,    \* how many of them a worker has taken
    checkFeeder,   \* the feeder: "feeding", "waiting" (jobs is closed) or "gone"
    checker,       \* checker[w]: where the worker stands, and its show
    found,         \* found[i]: the tmdbID of the i-th show, None at first
    results,       \* the channel out
    resolved,      \* the shows in the order the collector took them
    checkCounts,   \* counts of the activeShowsTracker: shows in work by title
    progress,      \* state.progress: the step under way and the active shows
    saved          \* the progress at the last persistProgress

poolOfChecks == <<checkFed, checkTaken, checkFeeder, checker, found, results>>
checkVars == <<step, library, poolOfChecks, resolved, checkCounts>>
shown == <<progress, saved>>

Items == 1..NumShows
TmdbIDs == 1..NumShows
None == 0
Untitled == 0
Names == {NameOf[i] : i \in Items} \ {Untitled}

Least(a, b) == IF a < b THEN a ELSE b

\* The workers the loop starts, and the capacity of both channels.
NumCheckers == Least(LookupConcurrency, NumShows)
Checkers == 1..NumCheckers

FirstOf(S, k) == {n \in S : Cardinality({m \in S : m < n}) < k}

\* The names list() returns, which rebuild has sorted and cut.
ActiveShows(c) == FirstOf({n \in Names : c[n] > 0}, MaxActiveShows)

(* A show without a title is not counted. *)
trackerStart(c, name) == IF name = Untitled THEN c ELSE [c EXCEPT ![name] = @ + 1]

(* Faulty: every show of that title is done. *)
trackerForget(c, name) == IF name = Untitled THEN c ELSE [c EXCEPT ![name] = 0]

trackerDone(c, name) ==
    IF name = Untitled THEN c ELSE [c EXCEPT ![name] = IF @ <= 1 THEN 0 ELSE @ - 1]

PersistNow(n, total) == n % progressPersistEvery = 0 \/ n = total

CheckInit ==
    /\ step = "check"
    /\ library = IF NumShows = 0 THEN "told" ELSE "asked"
    /\ checkFed = 0 /\ checkTaken = 0 /\ checkFeeder = "feeding"
    /\ checker = [w \in Checkers |-> [at |-> "idle", item |-> 0]]
    /\ found = [i \in Items |-> None]
    /\ results = <<>> /\ resolved = <<>>
    /\ checkCounts = [n \in Names |-> 0]
    /\ progress = [step |-> "check", done |-> 0, remaining |-> NumShows, notFound |-> {},
                   active |-> {}]
    /\ saved = progress

\* The library may be told or refused at any time before the step goes on.
GetUserInformation ==
    /\ library = "asked"
    /\ library' \in {"told", "refused"}
    /\ UNCHANGED <<step, poolOfChecks, resolved, checkCounts, shown>>

--------------------------------------------------------------------------------
(* parallelResolveShows: the feeder *)

FeedCheck ==
    /\ checkFeeder = "feeding" /\ checkFed < NumShows
    /\ checkFed - checkTaken < NumCheckers
    /\ checkFed' = checkFed + 1
    /\ UNCHANGED <<step, library, checkTaken, checkFeeder, checker, found, results, resolved,
                   checkCounts, shown>>

CloseChecks ==
    /\ \/ checkFeeder = "feeding" /\ checkFed = NumShows /\ checkFeeder' = "waiting"
       \/ /\ checkFeeder = "waiting" /\ checkFeeder' = "gone"
          /\ \A w \in Checkers : checker[w].at = "gone"
    /\ UNCHANGED <<step, library, checkFed, checkTaken, checker, found, results, resolved,
                   checkCounts, shown>>

--------------------------------------------------------------------------------
(* A worker *)

CheckerAt(w, at, item) == checker' = [checker EXCEPT ![w] = [at |-> at, item |-> item]]

TakeCheck(w) ==
    /\ checker[w].at = "idle"
    /\ \/ /\ checkTaken < checkFed
          /\ checkTaken' = checkTaken + 1 /\ CheckerAt(w, "start", checkTaken + 1)
       \/ /\ checkTaken = checkFed /\ checkFeeder # "feeding"
          /\ CheckerAt(w, "gone", 0) /\ UNCHANGED checkTaken
    /\ UNCHANGED <<step, library, checkFed, checkFeeder, found, results, resolved,
                   checkCounts, shown>>

StartCheck(w) ==
    /\ checker[w].at = "start"
    /\ checkCounts' = trackerStart(checkCounts, NameOf[checker[w].item])
    /\ progress' = [progress EXCEPT !.active = ActiveShows(checkCounts')]
    /\ CheckerAt(w, "call", checker[w].item)
    /\ UNCHANGED <<step, library, checkFed, checkTaken, checkFeeder, found, results, resolved,
                   saved>>

\* The ids are numbered as they are found, which is one of each way to tell them apart.
IDs == {found[i] : i \in Items} \ {None}
NewID == Cardinality(IDs) + 1

(* ResolveTMDBID: an error is logged and counts as no id. *)
ResolveShow(w) ==
    /\ checker[w].at = "call"
    /\ found' \in {[found EXCEPT ![checker[w].item] = t] : t \in IDs \cup {NewID, None}}
    /\ CheckerAt(w, "send", checker[w].item)
    /\ UNCHANGED <<step, library, checkFed, checkTaken, checkFeeder, results, resolved,
                   checkCounts, shown>>

SendResolved(w) ==
    /\ checker[w].at = "send" /\ Len(results) < NumCheckers
    /\ results' = Append(results, checker[w].item)
    /\ CheckerAt(w, "idle", 0)
    /\ UNCHANGED <<step, library, checkFed, checkTaken, checkFeeder, found, resolved,
                   checkCounts, shown>>

--------------------------------------------------------------------------------
(* The collector, under progressMu, which it holds while it persists *)

CollectResolved ==
    /\ results # <<>>
    /\ resolved' = Append(resolved, Head(results)) /\ results' = Tail(results)
    /\ checkCounts' = trackerDone(checkCounts, NameOf[Head(results)])
    /\ progress' = [progress EXCEPT !.done = @ + 1, !.remaining = NumShows - (progress.done + 1),
                                    !.active = ActiveShows(checkCounts')]
    /\ saved' = IF PersistNow(progress'.done, NumShows) THEN progress' ELSE saved
    /\ UNCHANGED <<step, library, checkFed, checkTaken, checkFeeder, checker, found>>

\* parallelWg.Wait: the pool has ended and the library has come or was refused.
ChecksEnd == step = "check" /\ checkFeeder = "gone" /\ results = <<>> /\ library # "asked"

(* The step fails, and with it the migration. *)
CheckFails ==
    /\ ChecksEnd /\ library = "refused"
    /\ step' = "failed"
    /\ UNCHANGED <<library, poolOfChecks, resolved, checkCounts, shown>>

Check(w) == TakeCheck(w) \/ StartCheck(w) \/ ResolveShow(w) \/ SendResolved(w)

CheckNext ==
    \/ GetUserInformation \/ FeedCheck \/ CloseChecks
    \/ \E w \in Checkers : Check(w)
    \/ CollectResolved \/ CheckFails
================================================================================
