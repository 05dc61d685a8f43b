# A verification development for TV-Time-to-Serializd

The program is one Go server that moves a user's watch history from TV Time to Serializd.  A
client posts its credentials to `POST /migrate/init`, gets a job id, and follows the job by
`GET /migrate/init/{id}` or its event stream.  The server queues the job, gathers the shows from
TV Time, optionally saves them as an export in PostgreSQL, finds out which of them Serializd has
already, and adds the others.  This directory models the parts of that program where goroutines,
stores and remote services meet, checks the models with TLC, and proves the safety properties of
all of them with TLAPS for every value of their constants.  Paths below are relative to `src/internal/`.

## 1. Inventory

| Component | State | Operations | Hard because | Correct means |
|---|---|---|---|---|
| Migration queue (`service/migrate_queue.go`) | `pending`, `running`, `byID`, the number of slots | `enqueue`, `tryStartQueuedJobs`, `runQueued`, `releaseQueueSlot`, `queueInfo` | each operation is two critical sections; many goroutines call it; status strings are written without a lock | slot bound, FIFO, no idle slot beside a waiting job, every job served, reports that never go back |
| Migration job (`service/migrate.go`, `migrate_run.go`, `repository/migrate_job.go`, `cache/migrate_progress.go`, `handler/migrate.go`) | the progress in memory, a Redis key, a row, the client | `Start`, the steps of `run`, `persist`, `MarkCompleted`/`MarkFailed`, `GetProgress`, `Stream` | three copies of one record written one after the other, each write may fail; crashes; reads between two field writes | what can be read of the end is whole, the row only moves forward, the outcome survives a restart, the stream ends with the job |
| Check and import pools (`service/migrate_parallel.go`, `active_shows.go`) | channels, claims, counters, the progress | `classifyResolvedShows`, `parallelResolveShows`, `parallelImportShows`, tracker | bounded channels on both sides of a worker pool; duplicates; shared titles, more of them than are shown | the summary adds up, nothing is imported twice, the pool ends |
| Remembered imports (`service/imported_shows.go`, two stores) | a Redis set and a table per account | `recordImported`, `previouslyImported` | two best-effort writes, a read that prefers one store, several jobs of one account | what is remembered was imported as a whole |
| Import of one show (`service/serializd_import.go`, `serializd/tracking.go`) | the account at Serializd | `mapSeasons`, `ImportTVTimeShow` | several remote calls, each of which may fail with or without effect; the check looks at lists, not at episodes | nothing unwatched reaches the account, an added show is whole, a show is dropped last |
| Outbound gates (`outbound/gate.go`) and the Serializd client (`serializd/client.go`) | a semaphore, a deadline, per-call attempt | `Call`, `acquire`, `waitBackoff`, `release`, `do` | waiting twice, retries of calls that may have happened | no slot lost, cooldown seen by whoever could, repeats only after lost answers |
| Exports and dumps (`service/export.go`, `repository/export.go`, `platform/postgres`) | rows of an export, one transaction, the pool of connections, row locks | `StartExport`, `runExport`, `saveDump`, `SaveShows`, `GetExport`, `DownloadExport` | a second connection is needed while the first is held; no timeout anywhere; rows merged on conflict; titles shared with other exports | all or nothing, status told, what is read back is what was gathered, connections returned, every export ends |
| TMDB lookup (`service/show_lookup.go`, `lookup_flight.go`, `cache/tmdb.go`, `mapping`), its sources (`wikidata/client.go`, `tmdb/client.go`) and warm-up (`server/warm.go`) | Redis key, row, flights, what each client remembers | `ResolveTMDBID`, `EnsureShow`, `Warm`, `TMDBIDByTVDB` | single flight, sources that disagree or change, swallowed errors, negative entries in three places | a known id is not asked for again, none is only said when all were asked, an answer stands, an ensured id stays |
| TV Time gathering (`tvtime/export.go`, `fetch.go`) | pages fetched, retries, a pool of workers, the watch map | `fetchObjects`, `fetchObjectsWithRetry`, `fetchAllSeasons`, `buildWatchedAtMap`, `normalizeShows` | pages that fail are passed over without an error; concurrent callbacks; two lists joined of which either may have gaps | every gap of a list has a cause, what is told as watched was watched, the export ends and leaves nobody behind |
| Limiter of the endpoints that take credentials (`server/ratelimit.go`) | a map of token buckets | `getLimiter`, `Handler` | first requests of one address at once; a bucket shared by all of them | the limit holds in every stretch of time, nobody is refused for what others did |
| Sessions, configuration, formats, wiring | rows, Redis keys, environment | one write or read per request | nothing over several steps | - |

How they interact: the handler calls `MigrateService.Start` and `GetProgress`.  `Start` creates the
row, stores the first progress and enqueues; the queue starts a goroutine per job (`runQueued`)
that calls `run` and gives the slot back in a deferred call.  `run` calls the TV Time client, the
dump (`saveDump` -> `SaveShows` -> `EnsureShow`), the two pools, and between all of these
`persistProgress`.  The check pool calls the lookup, the import pool `ImportTVTimeShow`, which goes
through the Serializd client and its gate.  Exports that are not part of a migration use the same `SaveShows`.
The database pool is shared by all of it.
The limiter stands in front of both logins and of `POST /migrate/init`.

## 2. Modules

| Module | What it is |
|---|---|
| `JobServer` | abstract: a FIFO server with a fixed number of slots |
| `MigrateQueue` | the queue with its request goroutines, runner goroutines and polling clients; refines `JobServer` |
| `MigrateQueueProofs` | theorems about `MigrateQueue` |
| `MigrateJob` | one job: goroutine, progress, Redis, row, client, crashes |
| `MigrateJobProofs` | theorems about `MigrateJob` |
| `ImportBatch` | abstract: every show of a migration is answered for exactly once, or the check fails first |
| `CheckPool` | the check step: the pool of `parallelResolveShows` beside `GetUserInformation` |
| `ImportPool` | extends `CheckPool` with `classifyResolvedShows`, the pool of `parallelImportShows` and the summary; refines `ImportBatch` |
| `ImportPoolProofs` | theorems about `CheckPool` and `ImportPool` |
| `OutboundGate` | gate and retry loop in discrete time |
| `ExportSave` | exports, their transactions and rows, the connections of the pool, the row locks, and what is read back |
| `ExportSaveProofs` | theorems about `ExportSave` |
| `ShowCalls` | operators: the calls of `ImportTVTimeShow` for one show, and what a whole import leaves (`Wanted`) |
| `AccountImport` | the migrations of one account as they meet one show |
| `AccountImportProofs` | theorems about `ShowCalls` and `AccountImport` |
| `ShowLookup` | the lookup of one show: Redis, row, flight, sources and what their clients remember, warm-up |
| `ShowLookupProofs` | theorems about `ShowLookup` |
| `TVTimeGather` | paging of the lists of TV Time, the fan-out over shows, and the history joined with the episodes |
| `TVTimeGatherProofs` | theorems about `TVTimeGather` |
| `CredentialLimiter` | the limiter: buckets by address, goroutines that serve requests, a clock |
| `LimitsProofs` | theorems about the two models that limit calls, `OutboundGate` and `CredentialLimiter` |
| `MC...` | one module per model with the definitions its `.cfg` files need |

The modules are cut where the components call each other, and each one leaves the other side of
a call open as a choice: `MigrateQueue` knows of `run` only that it ends, or hangs; `MigrateJob` knows of the
pools that they end and report; `ImportPool` knows of `ImportTVTimeShow` that it returns;
`AccountImport` issues its calls, each of which may fail with or without effect, and `OutboundGate`
is where such a call is refined into attempts; `TVTimeGather` is what `run` calls to gather;
`ImportPool` and `ExportSave` know of the lookup what `ShowLookup` promises, that it ends with an
id or none; `ExportSave` is the one call of `run` that may not return, which is what the jobs in
`Hanging` of `MigrateQueue` do.

### How state and actions correspond to the code

*MigrateQueue.*  `pending`, `running`, `byID` are the fields of `migrateQueue`; what is done
between a `Lock` and its `Unlock` is one action.  So `enqueue` is two actions (`enqueue`, then the
critical section of `tryStartQueuedJobs` in `EnqueueTryStart`), and so is `releaseQueueSlot`.  The
`go` statements after the `Unlock` only make runners ready, which is why `tryStartQueuedJobs` marks
them `"spawned"`.  A poll is two actions too: `GetProgressStatus` under `s.mu`,
`enrichQueuedProgress` under `queue.mu`.  `progress.Status` is a Go string written without the lock
its reader holds; between its two word writes a reader sees a value that is neither (`"torn"`).
`run` has no deadline; the jobs in `Hanging` are those whose run need not return, and they keep
their slots.

*MigrateJob.*  `stage` and `point` are the program counter of the goroutine; `todo` holds the
store writes it still has to issue, in order, so that a crash or a poll may fall between any two.
Each write happens (`WriteRedis`, `UpdateProgress`, `MarkTerminal`) or is refused (`WriteFails`),
which the code logs and ignores.  The last step and `migrateFailFunc` are split field by field
(summary, status, log), because `GetProgress` copies the record without excluding the writer:
`CopyStatus` and `CopyRest`.  `Stream` returns on a terminal status, on an error of `GetProgress`
(`PollFails`), and between two answers when the context of its request is done (`StreamCut`): after
the 30 minutes of its route, or because the client has gone.  A client that was not told of the end
may ask again (`AskAgain`).  `Current` is what `GetProgress` would answer, whoever asks.  Counters,
activities and log lines are left out but for the last log line.

*CheckPool, ImportPool.*  One action per statement that blocks or takes a mutex.  `checker[w]`,
`worker[w]` are a worker's place and item; `checkFed`/`checkTaken` and `fed`/`taken` are the two
channels `jobs`, `results` and `outcomes` the other two.  `found` is what the lookup said; since
only equality of ids matters, ids are numbered in the order they are found.  `library` is
`GetUserInformation`, which goes on beside the first pool; `Classify` is what
`parallelCheckExisting` does when both have come back; `progress.active` is what the tracker's
`list` returns, the names in work, sorted and cut to `MaxActiveShows`, eight in the code
(`service/active_shows.go:40`), where a show without a title has none; `PendingImports` is the one list, in the
order of the collector (`Place`), of the shows it neither skips nor reports as not found.

*OutboundGate.*  `sem` is the length of the channel, deadlines are kept as time left, `Tick`
lets a second pass.  `applied`, `unsure` and `outdated` are history variables.

*ExportSave.*  `inUse` counts the connections that are out.  A statement on the pool that is done
in one step takes and returns a connection (`OnPool`); the transaction and an upsert that may wait
for a row lock hold theirs.  The lock rule is PostgreSQL's: an inserted reference holds the row of
`shows` `FOR KEY SHARE` until the transaction ends, and `ON CONFLICT DO UPDATE` of a row whose
unique column is set needs it `FOR UPDATE`.  `written` and `stored` are the rows of an export, in
its transaction and committed; a row is told by the place in TV Time's list its fields are from, so
that which of two conflicting rows won can be read off it.  `catalog` is the table `shows`, which
only exports write: for each series id the title, told by the export and the place it is from.
`LoadShows` joins the two.  `imdb_id` and the year, where an upsert without a value keeps the old
one, are not modelled; the TVDB id is the series id.

*AccountImport, ShowCalls.*  `job[j].at` is how far a migration has come with the show, `todo` the
calls it still has to make.  `Calls` follows `ImportTVTimeShow`; `Wanted` says the same without
calls, order or season matching, from the episodes alone.  `account` is what Serializd keeps; a
show is found by the check when it is on a list (`ListedIn`).

*ShowLookup.*  `caller[c]` is a goroutine in `ResolveTMDBID` or `EnsureShow`, `flight` the one
flight of the key.  Each read of Redis, statement or question is an action.  `known` and `asked`
are history variables: the row had an id when the lookup began, and which sources were asked.
`memo[s]` is what the client of source `s` keeps for the life of the process, an id or that there is
none.

*TVTimeGather.*  `fetch[l]` holds the locals of `fetchObjects` and of its caller's retry loop,
`missed` and `cut` are history variables.  Objects are numbers in the order TV Time lists them.
Each request is one action, its answer a choice: a page, garbage, a refusal, a 429, a 5xx,
silence, or JSON that is not a page.  What the objects say (`EpisodesOf`, `WatchOf`) is a constant;
`result` is `ExportResult`, built from `watches`, `shows` and `seasons` when the export returns.
Its loops are closed forms: the entry of `buildWatchedAtMap` that stands is that of the last record
that names the id (`Stands`), because each one overwrites those before; the season an episode is
appended to is a function of the places in the list TV Time sent, which keeps their order; and
`countWatchedEpisodes` is a number of places.  Every object is taken to have a uuid, which
`fetchObjects` tells a page that comes again by (`tvtime/fetch.go:99`).

*CredentialLimiter.*  A goroutine that serves a request first finds or makes the bucket of its
address (`getLimiter`, one step under the mutex) and later takes from it (`Allow`).  Credit is
counted in ticks, as the library counts it in time; its clock is read in the step that uses it.
Its specification is `LimiterSpec`, so that one module of theorems can extend it beside `OutboundGate`.

## 3. Runs

| Run | Instance | Shows |
|---|---|---|
| `queue` | 4 jobs, 2 slots, 1 watched, 1 that may hang | one call can start two jobs while others wait; a watched job with others before and behind it, whose reports never go back; a slot kept for ever; all safety, liveness and refinement of the queue |
| `job` | one job, one crash | every path of `run`, every refused write, a crash anywhere, requests that are cut off |
| `job_restart` | the same | where the code departs from `docs/frontend-migrate-api.md` (below) |
| `import` | 3 shows (two share a title), up to 3 ids, 2 workers in each pool | duplicates, unresolved shows, tracked shows, in every order; the library told or refused at any moment; one title shown of up to two in work |
| `gate` | 2 callers, 1 slot, cooldown 2 s, 2 retries | a caller blocked on the slot, one in cooldown, backoffs shorter than and as long as the cooldown |
| `export` | 2 exports of 2 shows of {a, b, no id}, 3 or 4 connections | atomicity, status, rows merged or not, titles of one's own or another's, and connections; with 4 connections every export ends |
| `export_hang` | 1 export, the default pool | an export that waits for itself (below) |
| `account` | 2 jobs, 1 show of 4 seasons in any status, 3 answers of Serializd, 1 change by the user | overlapping, failing and repeated imports: nothing beside what was watched, remembered shows are whole, dropped comes last |
| `account_partial` | the same | a show imported in part is skipped for good (below) |
| `lookup` | 2 callers, 2 ids, 1 crash | shared and separate flights, sources that disagree, change and fail, negative entries in Redis and in both clients, restarts with a warm-up |
| `gather` | lists of at most 3, 1 and 3 objects, pages of 2, 1 retry, 2 failures in a row, 2 workers | full, short, empty and repeated pages between failures of every kind; workers that finish in any order; an episode with a record on both pages of the history, specials, an episode to be announced, one without an id, records of a show that is not followed |
| `limiter` | 3 goroutines, 2 addresses, burst 2, a token every 2 of 5 ticks, a minute of 4 | first requests at once, a burst, refusals, a bucket that fills up in part and as a whole |

Why these bounds are enough to meet the interesting cases: a queue needs more jobs than slots and
two free slots at once; the reports need a job with a predecessor and a successor; the pool needs
fewer workers than shows, so that channels fill and a worker takes a second show, and three shows
so that two can collide while the third does not; the gate needs one caller more than slots; the
exports need two savers and two shows each, in both orders, for locks to be taken crosswise; the
account needs two jobs, so that one can meet what the other left, and the four kinds of season the
code tells apart (specials, one with episodes that cannot be tracked, one of a single episode, one
Serializd lacks); the lookup needs one goroutine that starts a flight and one that joins it, and
two ids for sources that disagree; the lists need a full page, one behind it, and a failure before
and after it; the limiter needs one goroutine more than the burst, a second address, and more time than it
takes to fill a bucket.  The bounds in the models themselves are `MaxCrashes`, `MaxChanges`, `MaxObjects`, `NumShows`, `MaxTime`, one report per step
(`ReportProgress`), and one request per caller of the gate.  `maxRequestRetries` is 5 in the code
and 2 in the run, `progressPersistEvery` 5 and 2, a page 1000 or 100 objects and 2,
`maxPageRetries` 5 and 1, `maxConsecutivePageFails` 5 and 2, `maxEmptyRetries` 3 and 2, and the
titles shown are at most 8 and 1, so that the cap is met with two shows in work.  The shows of the
run all have a title; shows without one are in the theorem.

### Fairness, and why the code justifies it

Weak fairness of each goroutine: the Go scheduler runs every goroutine that is ready.  Whether a
client posts or polls the queue is never assumed; the client of `MigrateJob` is, because its
property is about a client that goes on polling (the ticker of `Stream`).  That its request is cut
off is never assumed: `StreamEnds` is to be met by the end of the job, not by the timeout of the
route.  That Redis forgets a key is (`Expire`), so that `StatusSettles` is not refuted by a key that
stays for ever.  That a call to TV Time
or Serializd returns is justified by the timeout of the HTTP clients and the bounded retries; no
answer is assumed to be a good one, and no store is assumed to fail.  `Acquire` of the gate is
strongly fair: a Go channel serves blocked senders in their order.  In `ShowLookup` the flight and
each goroutine in a lookup are fair (questions and statements come back), beginning a lookup,
expiry and crashes are not; in `TVTimeGather` each fetch, the workers together and the main
goroutine are.  `AccountImport` and `CredentialLimiter` state safety only and need no fairness.
In the pools, workers, feeders, collectors and the request for the library are fair.  A run may
hang, as `export_hang` shows for one with a dump: `MigrateQueue` assumes nothing of the jobs in
`Hanging`, and `EveryJobServed` promises that the others are served while fewer jobs than there are
slots may hang.  `MigrateJob` is about runs that end.

### Where the code and the documents disagree

Three runs end in a counterexample, as they should:

* `job_restart`: nothing takes up a job after a restart, nor ends it, so its status stays "queued"
  ("Waiting for a worker slot", `docs/frontend-migrate-api.md:200`) or "running" ("Active
  migration", `:201`) for ever.  Each stream of it does end after 30 minutes
  (`handler/migrate.go:143`, `docs/frontend-migrate-api.md:103`), but a client that shows the job
  "until `status` is `completed` or `failed`" (`:8`) asks again and is told the same.
* `export_hang`: two shows without an id make an export wait for its own row lock, with no
  timeout.
* `account_partial`: an import that fails halfway leaves the show on a list, and later migrations
  skip it as "Already in Serializd" (`docs/frontend-migrate-api.md:277`), so its watch progress
  (`README.md:5`) never gets there.

Not runs, but met while modelling and worth knowing:

* A completed job with a dump shows its gather step as running: `applyGatherProgress` takes it
  back from done for every report of the dump (`docs/frontend-migrate-api.md:221` says a client
  should rely on the status of each step).
* The last event of a failed job may lack the log entry that gives the reason
  (`docs/frontend-migrate-api.md:203`), since `migrateFailFunc` writes the status first.
* A caller blocked on the semaphore when a 429 comes in calls within the cooldown (comment at
  `outbound/gate.go:17`); `LateCallersWait` is what does hold.
* `SaveShows` needs two connections per concurrent saver, so 36 connections, the default, carry 18
  savers, and the 10 of `.env.example` five.  `EveryExportEnds` has that bound as its premise, and
  is violated with one connection less.
* A show the summary calls "already in Serializd" may be the second of two that resolve to one
  id; it is counted as that even when the import of the first fails.
* Once both clients have heard that a show has no id, asking again after a negative entry in Redis,
  which `RetriesAfterNegativeRedisCache` tests with fresh clients, has no effect until a restart.
* `show_count` of a completed export exceeds the shows a download has when two share a row.
* The title and the ids of a downloaded show come from the shared catalogue
  (`repository/export.go:215`), not from the "Per-show snapshot for an export" of
  `000003_export.up.sql:36`.  A series that is in the catalogue keeps the title of the export that
  put it there first; of two exports that put it there at once the later upsert stands; and the row
  of all shows without an id is overwritten by any export that has one, also after another that
  refers to it is completed.  `ReadsBack` says what is left: the title is one that some export gave
  to that series, and the export's own if no other names it.  The year is not read back.
* The size of the pool is cut to 32 bits before it is limited to 1..256
  (`platform/postgres/postgres.go:49`), so a `DATABASE_MAX_CONNS` of 2147483648 gives one connection
  and not 256 (`Int32`).
* A watch of an episode named "TBA", or of a show whose seasons were not got, is dropped.
* Any error of Redis or the database after a restart reaches the client of a stream as "job not
  found" (`handler/migrate.go:116`).
* The warm-up writes a negative entry over an id that only Redis has; no answer is lost by it,
  only a question asked again.  Sources that disagree can take turns in the row.  Shows without
  an id share one flight and one row of the catalogue.
* A list that is sent whole pages whatever the offset, by a service that ignores it, and whose
  first object has no uuid, would be fetched for ever (`tvtime/fetch.go:99`); the model has no
  such objects.
* An expired token, an outage or an answer that is no page gives a short or an empty list of
  shows and no error; and 429s that outlast the retries end the whole list, not the page.
* `applyContinuing` and `logWatchedEpisodes` do not leave out seasons whose id is 0, while
  `RegularSeasonIDs` does.
* The callbacks of `fetchAllSeasons` may report a lower count after a higher one.

## 4. Proofs

What is proved holds for every finite set of jobs, shows, workers, callers, exports, goroutines and
addresses, for every configured limit, and for any number of crashes; what each theorem assumes of the constants
is the `ASSUME` of its module, which TLC evaluates in the runs.  Each proof has the same
shape: a strengthening that is inductive, one lemma for each action that it is kept, and the
properties from it.  The strengthenings were checked by TLC, on the instances of the runs, before
they were proved.

| Module | Proved | From |
|---|---|---|
| `MigrateQueueProofs` | `TypeCorrect`, `SlotsBounded`, `SlotsNeverIdle`, `ViewsAgree`, `ImplementsJobServerSafely`, `ReportsMoveForwardHolds` | `IInv`, and `ReportInv` for the reports |
| `MigrateJobProofs` | `JobTypes`, `TerminalIsWholeHolds`, `RowTellsHolds`, `OutcomeSurvivesRestartHolds`, `RowMovesForwardHolds` | `JobInv` (`RecordsFollowTheRun`) |
| `ImportPoolProofs` | `PoolTypeOK`, `SummaryAddsUpHolds`, `ImportedAtMostOnceHolds`, `ProgressTellsTheWorkHolds`, `ImplementsImportBatchSafely` | `PoolInv` (`PoolsKeepTheirBooks`) |
| `LimitsProofs`, the gate | `TypeCorrect`, `SlotsHeld`, `CooldownHolds`, `RepeatsJustified` | types, holders, answers |
| `ExportSaveProofs` | `SavedWholeHolds`, `ConnectionsAreHeldHolds`, `ReadsBackHolds` | `RowsReflectTheShows`, `TitlesAreOfTheSeries` |
| `AccountImportProofs` | `CallsDoWhatIsWanted`, `NothingBesidesHolds`, `ImportedIsWholeHolds`, `DroppedComesLastHolds` | `ImportsFollowTheirCalls` |
| `ShowLookupProofs` | `KnownIsNotAskedAgainHolds`, `NilWasAskedHolds`, `AnswersStandHolds`, `EnsuredStaysHolds` | `LookupsKnowTheirPlace` |
| `TVTimeGatherProofs` | `GapsAreExplainedHolds`, `NothingLeftBehindHolds`, `HistoryIsTrueHolds` | `GatherInv` (`GatheringIsSound`) |
| `LimitsProofs`, the limiter | `LimitIsKept`, `OnlyTheUserPays` | `Books` |

*The queue.*  `IInv` joins four invariants, since none is inductive alone: that a started job does not
break the slot bound needs that `pending` has no duplicates and no running job in it
(`QueueConsistent`), and that a released slot is not left idle needs to know which goroutine still
has to call `tryStartQueuedJobs`.  The count of what a loop starts (`StartCount`) is bounded by a
lemma on cardinalities, cited by the slot bound and by the refinement.  That reports move forward
needs a second invariant on top: which statuses a job can have at each place of its runner, and that
what a client was told, or holds between the two critical sections of `GetProgress`, is not ahead
of the queue.  The step that matters is that no critical section lets the position of a job grow,
nor the wait in front of it (`InfoNotGrown`).

*The job.*  `JobInv` says for every place of the goroutine which status the progress has there,
which steps are done, and which writes may be outstanding: those left of one persist, or of the last
persist and the mark behind it.  From that follows what the row and Redis hold, and which stores a
missing status is to be blamed on.  `TerminalIsWhole` needs that nobody has copied a terminal
status while the record could still change (`RecordsFit`).

*The pools.*  `PoolInv` says where the shows are: each one that was handed out is with one worker, in
the channel behind the workers, or with the collector, and in one of these only (`CheckPlaces`,
`ImportPlaces`).  The rest is said of the shows that have come as far as that: ids claimed belong to
shows that were claimed, calls were made for those tried, the account has the ids of those added
(`Effects`), the tracker counts those begun and not collected, title by title (`CountsFit`).  What
is shown of them is the first in order up to the cap: `FirstOfIs` says that the numbers with fewer
than k before them in a finite set are the k least, or all.  That
an id is claimed twice, and answered as a success that nobody has seen, is excluded by `Sorted`:
`classifyResolvedShows` leaves no two shows with one id, so the branch of `Claim` for a claimed id is never
taken.  When the channel is closed and empty the workers are gone and no place but the collector
is left, so the counts add up (`EndAddsUp`).  The same invariant makes each step one of `ImportBatch` or a
stutter.

*The gate.*  `SlotsHeld` rests on the type invariant and on what each step does to the set of
holders; `RepeatsJustified` needs a strengthening that says what `applied` may be while an attempt
is under way, or after it was answered by 429.

*Exports.*  `RowsReflectTheShows` says that the rows a transaction has written are those of the
shows inserted so far, that of two shows which share a row the later one is told, and that what is
committed reflects all shows or none.  `ReadsBack` follows by counting: `show_count` is right
exactly when the numbering of shows by rows is injective.  The titles have an invariant of their own
(`Titled`), which only `upsert` can disturb: since it waits for every transaction that refers to the
row, an export never upserts a show it has written, so that the title it gives is that of the first
place which names the series (`UpsertIsFirst`).

*The account.*  `CallsDoWhatIsWanted` is about the pure part: for every show and every answer of
Serializd, the calls of `ImportTVTimeShow` together leave what `Wanted` says, and the drop is the
last of them.  `ImportsFollowTheirCalls` carries it through the steps: what a migration wants is on
the account or among the calls it still has to make, also when the calls of two migrations, refused
ones and changes by the user fall in between.

*The lookup.*  `LookupsKnowTheirPlace` says what the flight and each caller rest on at each place:
what was read, which sources were asked, and what the row had when the lookup began.

*Gathering.*  `GatherInv` has a part for each thing under way.  `PagesAreSound`: while a list is
asked for, all before the offset was got or is on a page passed over, and the failures in a row are
the pages just before it.  That nothing is got twice rests on which page can come next: its first
object lies behind the offset, or, where TV Time gives its first page whatever the offset, is the
one that `fetchObjects` has just seen, and ends the fetch (`Underway`).  `FanInv`: a show handed out
is with one worker or settled, and the counter is the number of settled shows that are past
`done.Add`; when nobody is left, that is all of them.  `HistoryInv`: what was taken over from a
fetch is in order, and whole when its list has no gap.  From there `HistoryIsTrue` is about the join
alone: the records increase, so the last that names an id has the greatest number (`EntryIs`);
`normalizeShows` tells of an episode in its season, at its place (`SeasonsAre`); and the count is
right by a bijection between the places of the export and those of the lists (`CountIs`).

*The limiter.*  `LimitHolds` is about every stretch of time, a bucket only about now.  `Books` keeps,
for each address and each past moment, that what was let through since then, and what is left in
the bucket, is covered by the burst and the time that has passed.

What stays with TLC.  All liveness (`EveryJobServed`, `StreamEnds`, `EveryCallReturns`,
`EveryExportEnds`, `EveryLookupEnds`, `EveryGatherEnds`, and the fair part of both refinements)
is out of the prover's reach, as `ENABLED` is.  Every invariant and every action property that a
passing run checks is proved.  That the closed forms of `TVTimeGather` are what the loops of the
code compute is read off the code, not proved: it would take induction over the lists.

## 5. Plan

In this order, most important behaviour first; done up to 15.

1. `JobServer`, `MigrateQueue`, run and proofs.
2. `MigrateJob`: the progress and its copies.
3. `ImportBatch`, `ImportPool`.
4. `OutboundGate`, run and proofs.
5. `ExportSave`.
6. `ShowCalls`, `AccountImport`: one account, one show, several jobs.
7. `ShowLookup`: Redis, row, flight and sources; warm-up at start.
8. `TVTimeGather`: paging with failed pages; the fan-out.
9. Runs that hang in `MigrateQueue`; `CheckPool` as the source of what `ImportPool` imports.
10. What the clients of the sources remember (`ShowLookup`).
11. The history joined with the episodes (`TVTimeGather`); rows and reading back (`ExportSave`).
12. `CredentialLimiter`.
13. Proofs of the safety of all of these but the pools and `TVTimeGather`.
14. Proofs about the pools: what channels and workers hold accounts for every show once, from which
    `SummaryAddsUp`, `ImportedAtMostOnce` and the safety of `ImplementsImportBatch`.
15. Proofs about `TVTimeGather`: the paging with a page as a function of its offset, the fan-out, and
    the join with the loops in closed form.
16. Left: an abstract register for the lookup; the fields of the gather step that concurrent
    callbacks write.

## 6. Not modelled, and why

Pure input and output, wiring, encodings and formats: configuration, logging, CORS and security
headers, swagger, CSV and JSON, AES and hashing, and the queries and decoding of the HTTP clients of
TMDB and Wikidata.  Sessions and linked accounts are one upsert and one cache write per request,
and nothing later relies on both.  The wait estimate of the queue is arithmetic on weights that
nothing depends on.  Code that nothing calls is left out: `serializd/search.go`, `MatchSeason`,
`filterPendingImports`, `SessionCache.Get`, `TouchLastUsed`, `GetByTVTimeUserID`, `GetTokenID`,
`ShowCatalog.Upsert` and `UpsertTx`.
