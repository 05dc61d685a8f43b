----------------------------- MODULE AccountImport -----------------------------
(***************************************************************************)
(* The migrations of one Serializd account, as they meet one show: the     *)
(* snapshot a job gathers, the check whether the account has the show      *)
(* already (parallelCheckExisting, previouslyImported), the calls of       *)
(* ImportTVTimeShow one by one, and recordImported.  Jobs may overlap; any *)
(* call may fail, with or without effect; the process may die; Redis may   *)
(* lose its set; and the user goes on watching.                            *)
(***************************************************************************)
EXTENDS ShowCalls, FiniteSets

CONSTANTS Jobs,          \* the migrations of the account
          This, Other,   \* the show, and any other the account remembers
          TVShows,       \* what TV Time may have of the show at first
          SerializdShows,\* what GetShow may answer
          MaxChanges     \* how often the user changes the show at TV Time (bound)

Episode == [number : Int, watched : BOOLEAN]

ASSUME AccountAssumption ==
    /\ This # Other /\ MaxChanges \in Nat
    /\ \A t \in TVShows :
          /\ t \in [status : Statuses, seasons : [DOMAIN t.seasons -> SUBSET Episode]]
          /\ DOMAIN t.seasons \subseteq Int
    /\ SerializdShows \subseteq Seq([id : Int, number : Int, named : BOOLEAN])

VARIABLES
    tv,       \* the show at TV Time
    sz,       \* the seasons of the show at Serializd
    account,  \* the entries the account has for the show
    db,       \* the rows of serializd_imported_shows
    redis,    \* the set serializd:imported:<account>
    job,      \* job[j]: where a migration stands with the show
    changes   \* how often the user changed the show

stores == <<db, redis>>
world == <<tv, sz, changes>>
vars == <<world, account, stores, job>>

Running == {"gathered", "library", "database", "pending", "calls", "recordRedis"}
Ended == {"skipped", "added", "notFound", "failed", "dead"}

Init ==
    /\ tv \in TVShows
    /\ sz \in SerializdShows
    /\ account = {}
    /\ db = {} /\ redis = {}
    /\ job = [j \in Jobs |-> [at |-> "new", show |-> tv, listed |-> FALSE, todo |-> <<>>]]
    /\ changes = 0

Goes(j, to) == job' = [job EXCEPT ![j].at = to]

--------------------------------------------------------------------------------
(* Gathering and the check *)

Gather(j) ==
    /\ job[j].at = "new"
    /\ job' = [job EXCEPT ![j].at = "gathered", ![j].show = tv]
    /\ UNCHANGED <<world, account, stores>>

(* GetUserInformation and ExtractTrackedShowIDs.  A show on one of the       *)
(* user's lists is found; whether logged episodes alone make the context     *)
(* name it is up to Serializd.                                               *)
ListedIn(entries) ==
    IF \E e \in entries : e.kind # "log" THEN {TRUE}
    ELSE IF entries # {} THEN BOOLEAN ELSE {FALSE}

ReadLibrary(j) ==
    /\ job[j].at = "gathered"
    /\ \E found \in ListedIn(account) :
          job' = [job EXCEPT ![j].at = "library", ![j].listed = found]
    /\ UNCHANGED <<world, account, stores>>

ReadLibraryFails(j) ==
    /\ job[j].at = "gathered"
    /\ Goes(j, "failed")
    /\ UNCHANGED <<world, account, stores>>

\* classifyResolvedShows, for this show.
Classify(j, imported) == Goes(j, IF job[j].listed \/ This \in imported THEN "skipped" ELSE "pending")

(* previouslyImported: Redis alone if it has anything, else the database; an *)
(* error of either is taken for an empty answer.                             *)
previouslyImportedRedis(j) ==
    /\ job[j].at = "library"
    /\ \/ redis # {} /\ Classify(j, redis)
       \/ redis = {} /\ Goes(j, "database")
       \/ Classify(j, {})
    /\ UNCHANGED <<world, account, stores>>

previouslyImportedDB(j) ==
    /\ job[j].at = "database"
    /\ Classify(j, db) \/ Classify(j, {})
    /\ UNCHANGED <<world, account, stores>>

--------------------------------------------------------------------------------
(* ImportTVTimeShow *)

GetShow(j) ==
    /\ job[j].at = "pending"
    /\ ~Refuses(sz, job[j].show)
    /\ job' = [job EXCEPT ![j].at = "calls", ![j].todo = Calls(sz, job[j].show)]
    /\ UNCHANGED <<world, account, stores>>

GetShowFails(j) ==
    /\ job[j].at = "pending"
    /\ Goes(j, "notFound")
    /\ UNCHANGED <<world, account, stores>>

Looping(j) == job[j].at = "calls" /\ job[j].todo # <<>>

Called(j) == Looping(j) /\ ~CallsNothing(Head(job[j].todo))

\* The loop of logWatchedEpisodes goes on to the next season.
Continue(j) ==
    /\ Looping(j) /\ CallsNothing(Head(job[j].todo))
    /\ job' = [job EXCEPT ![j].todo = Tail(@)]
    /\ UNCHANGED <<world, account, stores>>

CallDone(j) ==
    /\ Called(j)
    /\ account' = account \cup Entries(Head(job[j].todo))
    /\ job' = [job EXCEPT ![j].todo = Tail(@)]
    /\ UNCHANGED <<world, stores>>

(* Client.do gave up; what was asked may have been done all the same. *)
CallFails(j) ==
    /\ Called(j)
    /\ account' \in {account, account \cup Entries(Head(job[j].todo))}
    /\ Goes(j, "notFound")
    /\ UNCHANGED <<world, stores>>

--------------------------------------------------------------------------------
(* recordImported: the row, then the Redis set, each at best effort *)

RecordDB(j) ==
    /\ job[j].at = "calls" /\ job[j].todo = <<>>
    /\ db' \in {db, db \cup {This}}
    /\ Goes(j, "recordRedis")
    /\ UNCHANGED <<world, account, redis>>

RecordRedis(j) ==
    /\ job[j].at = "recordRedis"
    /\ redis' \in {redis, redis \cup {This}}
    /\ Goes(j, "added")
    /\ UNCHANGED <<world, account, db>>

--------------------------------------------------------------------------------
(* The surroundings *)

\* Another show of the account is recorded; either write may be lost.
RecordOther ==
    /\ \/ db' = db \cup {Other} /\ UNCHANGED redis
       \/ redis' = redis \cup {Other} /\ UNCHANGED db
    /\ UNCHANGED <<world, account, job>>

\* Redis comes back empty.
RedisLost ==
    /\ redis # {}
    /\ redis' = {}
    /\ UNCHANGED <<world, account, db, job>>

Crash ==
    /\ \E j \in Jobs : job[j].at \in Running
    /\ job' = [j \in Jobs |-> IF job[j].at \in Running
                              THEN [job[j] EXCEPT !.at = "dead"] ELSE job[j]]
    /\ UNCHANGED <<world, account, stores>>

\* The user watches an episode, or TV Time gives the show another status.
Watch ==
    /\ changes < MaxChanges
    /\ \E n \in DOMAIN tv.seasons : \E e \in tv.seasons[n] :
          /\ ~e.watched
          /\ tv' = [tv EXCEPT !.seasons[n] = (@ \ {e}) \cup {[e EXCEPT !.watched = TRUE]}]
    /\ changes' = changes + 1
    /\ UNCHANGED <<sz, account, stores, job>>

ChangeStatus ==
    /\ changes < MaxChanges
    /\ \E s \in Statuses \ {tv.status} : tv' = [tv EXCEPT !.status = s]
    /\ changes' = changes + 1
    /\ UNCHANGED <<sz, account, stores, job>>

Next ==
    \/ \E j \in Jobs :
          \/ Gather(j) \/ ReadLibrary(j) \/ ReadLibraryFails(j)
          \/ previouslyImportedRedis(j) \/ previouslyImportedDB(j)
          \/ GetShow(j) \/ GetShowFails(j) \/ Continue(j) \/ CallDone(j) \/ CallFails(j)
          \/ RecordDB(j) \/ RecordRedis(j)
    \/ RecordOther \/ RedisLost \/ Crash \/ Watch \/ ChangeStatus

Spec == Init /\ [][Next]_vars

--------------------------------------------------------------------------------
TypeOK ==
    /\ tv.status \in Statuses
    /\ sz \in SerializdShows
    /\ account \subseteq [kind : {"watchlist", "watching", "watched", "dropped", "log"},
                          season : Int, episode : Nat]
    /\ db \subseteq {This, Other} /\ redis \subseteq {This, Other}
    /\ \A j \in Jobs : /\ job[j].at \in {"new"} \cup Running \cup Ended
                       /\ job[j].listed \in BOOLEAN
                       /\ job[j].at \notin {"calls", "notFound", "dead"} => job[j].todo = <<>>
    /\ changes \in 0..MaxChanges

\* The jobs that may have called Serializd for the show.
Importers == {j \in Jobs : job[j].at \in {"calls", "recordRedis", "added", "notFound", "dead"}}

WholeFor(j) == Wanted(sz, job[j].show) \subseteq account

(* Nothing is on the account that a whole import of one of the snapshots     *)
(* would not put there: no episode that was not watched, no season as        *)
(* watched that was not, however imports overlap, fail halfway, are repeated *)
(* or take different snapshots (ImportTVTimeShow).                           *)
NothingBesides ==
    /\ TypeOK
    /\ account \subseteq UNION {Wanted(sz, job[j].show) : j \in Importers}

(* A job that counts the show as added has all of it on the account, and so  *)
(* has some job when a store remembers the show: what a later migration      *)
(* skips because it remembers it was imported as a whole (parallelImport-    *)
(* Shows, recordImported, previouslyImported).                               *)
ImportedIsWhole ==
    /\ \A j \in Jobs : job[j].at \in {"recordRedis", "added"} => WholeFor(j)
    /\ This \in db \cup redis => \E j \in Importers : WholeFor(j)

(* A show is on the dropped list only when all that was watched of it is on  *)
(* the account: AddDropped comes last, also over several attempts.           *)
DroppedComesLast ==
    Entry("dropped", 0, 0) \in account =>
        \E j \in Importers : job[j].show.status = "stopped" /\ WholeFor(j)

(* What the summary calls already in Serializd is there: when all migrations *)
(* have come to their end, a show one of them skipped was imported as a      *)
(* whole by another.  (README.md:5: the program "imports watch progress into *)
(* Serializd".)                                                              *)
SkippedIsWhole ==
    (\A j \in Jobs : job[j].at \in Ended \ {"dead"}) =>
        \A j \in Jobs : job[j].at = "skipped" => \E k \in Importers : WholeFor(k)
================================================================================
