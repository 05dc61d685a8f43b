------------------------------ MODULE ImportPool ------------------------------
(***************************************************************************)
(* The check and import steps of one migration (service/                   *)
(* migrate_parallel.go).  When CheckPool has resolved the shows,           *)
(* classifyResolvedShows sorts them into shows to import, shows to skip    *)
(* and shows not found; parallelImportShows then runs a pool: a feeder     *)
(* that fills the channel jobs, workers that take a show, add it to the    *)
(* account and send an outcome, and the collector that keeps the counts    *)
(* and the progress.  Both channels are bounded, and what a goroutine does *)
(* under importedMu or progressMu is one step.                             *)
(***************************************************************************)
EXTENDS CheckPool

CONSTANT ImportConcurrency   \* MIGRATE_IMPORT_CONCURRENCY, as importConcurrency returns it

ASSUME PoolAssumption == ImportConcurrency \in 1..64

VARIABLES
    existingIDs,   \* the TMDB ids known to be on the account
    skipped,       \* the shows skipped, as classifyResolvedShows lists them
    pending,       \* the shows to import, as classifyResolvedShows lists them
    fed,           \* how many shows the feeder has sent on jobs
    taken,         \* how many of them a worker has taken
    feeder,        \* the feeder: "none", "feeding", "waiting" (jobs is closed) or "gone"
    worker,        \* worker[w]: where the worker stands, and its show
    importedInRun, \* the ids claimed by a worker
    outcomes,      \* the channel of outcomes
    account,       \* the ids ImportTVTimeShow has added to the Serializd account
    attempts,      \* attempts[t]: how often ImportTVTimeShow was called for t
    ledger,        \* the ids recordImported has stored
    counts,        \* counts of the activeShowsTracker: shows in work by title
    newlyAdded, notFound,   \* what the collector returns
    answered,      \* history: the shows of which the collector has an outcome
    summary        \* state.progress.Summary, or NoSummary

poolVars == <<fed, taken, feeder, worker, importedInRun, outcomes>>
accountVars == <<account, attempts, ledger>>
collectorVars == <<newlyAdded, notFound, answered>>
inputs == <<checkVars, existingIDs, skipped, pending>>
importVars == <<existingIDs, skipped, pending, poolVars, accountVars, counts, collectorVars,
                summary>>
vars == <<checkVars, importVars, shown>>

--------------------------------------------------------------------------------
(* classifyResolvedShows *)

Unresolved == {i \in Items : found[i] = None}

TrackedBy(existing) == {i \in Items \ Unresolved : found[i] \in existing}

\* When the collector took the show, and the shows it took before.
Place(i) == CHOOSE n \in Items : resolved[n] = i
Before(i) == {k \in Items : Place(k) < Place(i)}

\* A second show with the id of one that is already pending (seenPending).
Seen(existing) == {i \in Items \ (Unresolved \cup TrackedBy(existing)) :
                      \E k \in Before(i) : found[k] = found[i]}

(* Faulty: a show with the id of a pending one is pending too. *)
SkippedTracked(existing) == TrackedBy(existing)

Skipped(existing) == TrackedBy(existing) \cup Seen(existing)

\* The other shows, listed in the order of the collector.
ResolvedBut(left) ==
    [n \in 1..Cardinality(Items \ left) |->
        CHOOSE i \in Items \ left : Cardinality(Before(i) \ left) = n - 1]

(* Faulty: the shows on the account are imported again. *)
PendingWithTracked(existing) == ResolvedBut(Unresolved \cup Seen(existing))

PendingImports(existing) == ResolvedBut(Unresolved \cup Skipped(existing))

total == Len(pending)

\* The workers the loop starts, and the capacity of both channels.
NumWorkers == Least(ImportConcurrency, total)
Workers == 1..ImportConcurrency

--------------------------------------------------------------------------------

WorkerStates == {"idle", "claim", "start", "call", "unclaim", "record", "send", "gone"}
Outcomes == [item : Items, success : BOOLEAN]
NoSummary == [total |-> -1, already |-> 0, added |-> 0, missing |-> 0]

NoPool == [w \in Workers |-> [at |-> "gone", item |-> 0, ok |-> FALSE]]

Init ==
    /\ CheckInit
    /\ existingIDs = {} /\ skipped = {} /\ pending = <<>>
    /\ fed = 0 /\ taken = 0 /\ feeder = "none" /\ worker = NoPool
    /\ importedInRun = {} /\ outcomes = <<>>
    /\ account = {} /\ attempts = [t \in TmdbIDs |-> 0] /\ ledger = {}
    /\ counts = [n \in Names |-> 0]
    /\ newlyAdded = 0 /\ notFound = {} /\ answered = {}
    /\ summary = NoSummary

(* The rest of parallelCheckExisting, which takes the ids of the library and *)
(* those remembered as imported together, and of runCheckExistingStep; then  *)
(* parallelImportShows makes its pool.                                       *)
Classify ==
    /\ ChecksEnd /\ library = "told"
    /\ step' = "import"
    /\ existingIDs' \in SUBSET IDs
    /\ skipped' = Skipped(existingIDs')
    /\ pending' = PendingImports(existingIDs')
    /\ notFound' = Unresolved
    /\ feeder' = "feeding"
    /\ worker' = [w \in Workers |-> [NoPool[w] EXCEPT !.at = IF w <= NumWorkers' THEN "idle" ELSE @]]
    /\ progress' = [step |-> "import", done |-> 0, remaining |-> total', notFound |-> Unresolved,
                    active |-> {}]
    /\ saved' = progress'
    /\ UNCHANGED <<library, poolOfChecks, resolved, checkCounts, fed, taken, importedInRun,
                   outcomes, accountVars, counts, newlyAdded, answered, summary>>

--------------------------------------------------------------------------------
(* The feeder *)

Feed ==
    /\ feeder = "feeding" /\ fed < total
    /\ fed - taken < NumWorkers
    /\ fed' = fed + 1
    /\ UNCHANGED <<inputs, taken, feeder, worker, importedInRun, outcomes, accountVars,
                   counts, collectorVars, shown, summary>>

(* Faulty: waits for the workers before it closes jobs. *)
CloseJobsAfterWorkers ==
    /\ feeder = "feeding" /\ fed = total
    /\ \A w \in Workers : worker[w].at = "gone"
    /\ feeder' = "waiting"
    /\ UNCHANGED <<inputs, fed, taken, worker, importedInRun, outcomes, accountVars,
                   counts, collectorVars, shown, summary>>

CloseJobs ==
    /\ feeder = "feeding" /\ fed = total
    /\ feeder' = "waiting"
    /\ UNCHANGED <<inputs, fed, taken, worker, importedInRun, outcomes, accountVars,
                   counts, collectorVars, shown, summary>>

(* wg.Wait, then close(outcomes). *)
CloseOutcomes ==
    /\ feeder = "waiting"
    /\ \A w \in Workers : worker[w].at = "gone"
    /\ feeder' = "gone"
    /\ UNCHANGED <<inputs, fed, taken, worker, importedInRun, outcomes, accountVars,
                   counts, collectorVars, shown, summary>>

--------------------------------------------------------------------------------
(* A worker *)

Move(w, at, item, ok) == worker' = [worker EXCEPT ![w] = [at |-> at, item |-> item, ok |-> ok]]
Id(w) == found[worker[w].item]

Take(w) ==
    /\ worker[w].at = "idle" /\ taken < fed
    /\ taken' = taken + 1
    /\ Move(w, "claim", pending[taken + 1], FALSE)
    /\ UNCHANGED <<inputs, fed, feeder, importedInRun, outcomes, accountVars,
                   counts, collectorVars, shown, summary>>

Leave(w) ==
    /\ worker[w].at = "idle" /\ taken = fed /\ feeder # "feeding"
    /\ Move(w, "gone", 0, FALSE)
    /\ UNCHANGED <<inputs, fed, taken, feeder, importedInRun, outcomes, accountVars,
                   counts, collectorVars, shown, summary>>

(* Under importedMu: an id another worker has claimed counts as a success. *)
Claim(w) ==
    /\ worker[w].at = "claim"
    /\ IF Id(w) \in importedInRun
       THEN Move(w, "send", worker[w].item, TRUE)
       ELSE Move(w, "start", worker[w].item, FALSE)
    /\ importedInRun' = importedInRun \cup {Id(w)}
    /\ UNCHANGED <<inputs, fed, taken, feeder, outcomes, accountVars,
                   counts, collectorVars, shown, summary>>

(* tracker.start and applyActiveShows, under progressMu. *)
StartShow(w) ==
    /\ worker[w].at = "start"
    /\ counts' = trackerStart(counts, NameOf[worker[w].item])
    /\ progress' = [progress EXCEPT !.active = ActiveShows(counts')]
    /\ Move(w, "call", worker[w].item, FALSE)
    /\ UNCHANGED <<inputs, fed, taken, feeder, importedInRun, outcomes, accountVars,
                   collectorVars, saved, summary>>

(* ImportTVTimeShow returns nil. *)
ImportOk(w) ==
    /\ worker[w].at = "call"
    /\ account' = account \cup {Id(w)}
    /\ attempts' = [attempts EXCEPT ![Id(w)] = @ + 1]
    /\ Move(w, "record", worker[w].item, TRUE)
    /\ UNCHANGED <<inputs, fed, taken, feeder, importedInRun, outcomes, ledger,
                   counts, collectorVars, shown, summary>>

(* It returns an error. *)
ImportFails(w) ==
    /\ worker[w].at = "call"
    /\ attempts' = [attempts EXCEPT ![Id(w)] = @ + 1]
    /\ Move(w, "unclaim", worker[w].item, FALSE)
    /\ UNCHANGED <<inputs, fed, taken, feeder, importedInRun, outcomes, account, ledger,
                   counts, collectorVars, shown, summary>>

Unclaim(w) ==
    /\ worker[w].at = "unclaim"
    /\ importedInRun' = importedInRun \ {Id(w)}
    /\ Move(w, "send", worker[w].item, FALSE)
    /\ UNCHANGED <<inputs, fed, taken, feeder, outcomes, accountVars,
                   counts, collectorVars, shown, summary>>

(* recordImported, whose two writes may fail (see AccountImport). *)
RecordImported(w) ==
    /\ worker[w].at = "record"
    /\ ledger' \in {ledger, ledger \cup {Id(w)}}
    /\ Move(w, "send", worker[w].item, TRUE)
    /\ UNCHANGED <<inputs, fed, taken, feeder, importedInRun, outcomes, account, attempts,
                   counts, collectorVars, shown, summary>>

Send(w) ==
    /\ worker[w].at = "send" /\ Len(outcomes) < NumWorkers
    /\ outcomes' = Append(outcomes, [item |-> worker[w].item, success |-> worker[w].ok])
    /\ Move(w, "idle", 0, FALSE)
    /\ UNCHANGED <<inputs, fed, taken, feeder, importedInRun, accountVars,
                   counts, collectorVars, shown, summary>>

--------------------------------------------------------------------------------
(* The collector, under progressMu, which it holds while it persists *)

Collect ==
    /\ outcomes # <<>>
    /\ LET o == Head(outcomes)
           n == progress.done + 1
           missing == IF o.success THEN notFound ELSE notFound \cup {o.item}
       IN  /\ counts' = trackerDone(counts, NameOf[o.item])
           /\ notFound' = missing
           /\ answered' = answered \cup {o.item}
           /\ newlyAdded' = newlyAdded + (IF o.success THEN 1 ELSE 0)
           /\ progress' = [progress EXCEPT !.done = n, !.remaining = total - n,
                                           !.notFound = missing, !.active = ActiveShows(counts')]
           /\ saved' = IF PersistNow(n, total) THEN progress' ELSE saved
    /\ outcomes' = Tail(outcomes)
    /\ UNCHANGED <<inputs, fed, taken, feeder, worker, importedInRun, accountVars, summary>>

(* The channel is closed and empty: the rest of runImportShowsStep, and the  *)
(* summary of runCompleteStep.                                               *)
Complete ==
    /\ feeder = "gone" /\ outcomes = <<>> /\ summary = NoSummary
    /\ progress' = [progress EXCEPT !.notFound = notFound, !.active = {}]
    /\ summary' = [total |-> NumShows, already |-> Cardinality(skipped),
                   added |-> newlyAdded, missing |-> Cardinality(notFound)]
    /\ saved' = progress'
    /\ UNCHANGED <<inputs, poolVars, accountVars, counts, collectorVars>>

Work(w) ==
    \/ Take(w) \/ Leave(w) \/ Claim(w) \/ StartShow(w)
    \/ ImportOk(w) \/ ImportFails(w) \/ Unclaim(w) \/ RecordImported(w) \/ Send(w)

ImportNext ==
    \/ Feed \/ CloseJobs \/ CloseOutcomes
    \/ \E w \in Workers : Work(w)
    \/ Collect \/ Complete

Next ==
    \/ CheckNext /\ UNCHANGED importVars
    \/ Classify
    \/ ImportNext

Spec == Init /\ [][Next]_vars

(* Every goroutine is scheduled, and every call to Serializd or to a source  *)
(* of ids returns: the clients have timeouts and a bounded number of retries. *)
FairSpec ==
    /\ Spec
    /\ WF_vars(GetUserInformation /\ UNCHANGED importVars)
    /\ WF_vars((FeedCheck \/ CloseChecks) /\ UNCHANGED importVars)
    /\ \A w \in Checkers : WF_vars(Check(w) /\ UNCHANGED importVars)
    /\ WF_vars(\/ (CollectResolved \/ CheckFails) /\ UNCHANGED importVars
               \/ Classify \/ Collect \/ Complete)
    /\ WF_vars(Feed \/ CloseJobs \/ CloseOutcomes)
    /\ \A w \in Workers : WF_vars(Work(w))

--------------------------------------------------------------------------------
(* Properties *)

InPool(taken_, fed_, channel, bound) ==
    0 <= taken_ /\ taken_ <= fed_ /\ fed_ - taken_ <= bound /\ Len(channel) <= bound

TypeOK ==
    /\ step \in {"check", "import", "failed"} /\ library \in {"asked", "told", "refused"}
    /\ found \in [Items -> TmdbIDs \cup {None}] /\ existingIDs \subseteq TmdbIDs
    /\ {results, resolved, pending} \subseteq Seq(Items) /\ answered \cup skipped \subseteq Items
    /\ checkFed <= NumShows /\ InPool(checkTaken, checkFed, results, NumCheckers)
    /\ fed <= total /\ InPool(taken, fed, outcomes, NumWorkers)
    /\ {checkFeeder, feeder} \subseteq {"none", "feeding", "waiting", "gone"}
    /\ checker \in [Checkers -> [at : {"idle", "start", "call", "send", "gone"},
                                 item : Items \cup {0}]]
    /\ worker \in [Workers -> [at : WorkerStates, item : Items \cup {0}, ok : BOOLEAN]]
    /\ outcomes \in Seq(Outcomes)
    /\ importedInRun \subseteq TmdbIDs
    /\ account \subseteq TmdbIDs /\ attempts \in [TmdbIDs -> Nat] /\ ledger \subseteq TmdbIDs
    /\ {checkCounts, counts} \subseteq [Names -> 0..NumShows]
    /\ newlyAdded \in 0..NumShows /\ notFound \subseteq Items
    /\ {progress, saved} \subseteq
            [step : {"check", "import"}, done : 0..NumShows, remaining : 0..NumShows,
             notFound : SUBSET Items, active : SUBSET Names]
    /\ summary \in [total : {-1, NumShows}, already : 0..NumShows,
                    added : 0..NumShows, missing : 0..NumShows]

(* What the summary counts adds up: every show TV Time returned is one that  *)
(* was on the account, one that was added, or one that was not found, and    *)
(* none is in two of these.  And the collector never counts as added what    *)
(* ImportTVTimeShow did not add: the shows it counted are on the account,    *)
(* and at the end they are all that is.  (Claim answers success for a show   *)
(* whose import another worker has only begun, so this depends on every      *)
(* pending show having its own id.)                                          *)
SummaryAddsUp ==
    /\ TypeOK
    /\ newlyAdded <= Cardinality(account)
    /\ summary # NoSummary =>
          /\ summary.total = summary.already + summary.added + summary.missing
          /\ newlyAdded = Cardinality(account)

(* No run sends a show to Serializd twice, nor one that is known to be on    *)
(* the account, however the workers interleave; and only what was added is   *)
(* remembered as imported.                                                   *)
ImportedAtMostOnce ==
    /\ \A t \in TmdbIDs : attempts[t] <= (IF t \in existingIDs THEN 0 ELSE 1)
    /\ ledger \subseteq account

(* The progress tells the work: the titles shown as in work are titles of    *)
(* shows a worker has begun and the collector has not heard of, in either    *)
(* step and also when two shows share a title, as many as may be shown and   *)
(* the first in their order; and once nothing remains the stored progress is *)
(* the final one, for the outcome that completes a count is always persisted.*)
InCheck ==
    {checker[w].item : w \in {v \in Checkers : checker[v].at \in {"call", "send"}}}
    \cup {results[i] : i \in DOMAIN results}

InImport ==
    {worker[w].item :
        w \in {v \in Workers : worker[v].at \in {"call", "unclaim", "record", "send"}}}
    \cup {outcomes[i].item : i \in DOMAIN outcomes}

ProgressTellsTheWork ==
    LET inWork == {NameOf[i] : i \in InCheck \cup InImport} \ {Untitled}
        active == progress.active
    IN  /\ active \subseteq inWork
        /\ Cardinality(active) = Least(Cardinality(inWork), MaxActiveShows)
        /\ \A n \in active, m \in inWork \ active : n < m
        /\ progress.remaining = 0 => saved = progress

(* The two steps keep what ImportBatch promises, and they never get stuck    *)
(* between their bounded channels.                                           *)
Batch == INSTANCE ImportBatch WITH
    left <- (IF step = "import" THEN {pending[i] : i \in 1..total} ELSE Items) \ answered,
    added <- newlyAdded,
    missed <- notFound,
    state <- IF summary # NoSummary THEN "over" ELSE step

ImplementsImportBatch == Batch!Spec

================================================================================
