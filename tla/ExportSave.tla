------------------------------ MODULE ExportSave ------------------------------
(***************************************************************************)
(* Saving an export: runExport (service/export.go), or saveDump for a      *)
(* migration, and SaveShows (repository/export.go), which keeps one        *)
(* transaction open over all shows and calls EnsureShow for each of them,  *)
(* outside of that transaction, on a second connection of the same pool.   *)
(* Nothing bounds the number of exports that run at once, and every wait,  *)
(* for a connection or for a row lock, is under context.Background().  What *)
(* the rows of an export say is told by the place in its list they are from,*)
(* and the title in the catalogue, which all exports share and no other code*)
(* writes, by the export and the place.                                     *)
(***************************************************************************)
EXTENDS Integers, Sequences, FiniteSetsExt

CONSTANTS Exports,          \* the exports, one goroutine each
          Series,           \* series ids; the TVDB id of a show is its series id
          Unknown,          \* the series id 0 of a show that came without one
          ShowLists,        \* the lists of shows an export may have to save
          Episodes,         \* Episodes[i]: the episodes of the i-th show of a list
          EnvMaxConns       \* values of DATABASE_MAX_CONNS, as in MigrateQueue

ASSUME SaveAssumption ==
    /\ IsFiniteSet(Exports)
    /\ Unknown \notin Series
    /\ ShowLists \subseteq Seq(Series \cup {Unknown})
    /\ Episodes \in Seq(Seq([season : Int, number : Int]))
    /\ \A list \in ShowLists : Len(list) <= Len(Episodes)

VARIABLES
    limit,    \* pool.MaxConns
    shows,    \* shows[e]: the shows TV Time returned for e
    at,       \* at[e]: where the goroutine of e stands
    done,     \* done[e]: how many shows SaveShows has inserted
    inUse,    \* the connections that are taken
    written,  \* written[e]: the rows of e in its open transaction, by show
    stored,   \* stored[e]: the rows committed for e
    catalog,  \* the rows of the table shows: their titles, by series id
    status,   \* status[e]: the row of user_exports
    refused,  \* history: a statement that sets the status of e was refused
    crashed   \* the process has died

rows == <<stored, catalog, status>>
vars == <<limit, shows, at, done, inUse, written, rows, refused, crashed>>

--------------------------------------------------------------------------------
defaultMaxConns == 36

ClampInt32(n, lo, hi) == IF n < lo THEN lo ELSE IF n > hi THEN hi ELSE n

(* int32(n): a number of more than 31 bits comes out as another one.         *)
Int32(n) ==
    IF n <= 2147483647 THEN n
    ELSE LET half == 2147483647 + 1 IN ((n + half) % (2 * half)) - half

maxConns(raw) ==
    IF raw \notin Int \/ raw < 1 THEN defaultMaxConns ELSE ClampInt32(Int32(raw), 1, 256)

Statuses == {"none", "pending", "running", "completed", "failed"}

\* SaveShows is between Begin and Commit or Rollback.
InTransaction == {"lookup", "upsert", "locking", "persist", "insert", "commit", "rollback"}
Places == {"idle", "mark", "fetch", "begin", "complete", "fail", "gone", "dead"}
          \cup InTransaction

NoRows == <<>>

AllShows(e) == {shows[e][i] : i \in DOMAIN shows[e]}
Current(e) == shows[e][done[e] + 1]

InCatalog == DOMAIN catalog

\* A row that takes the place of the one with its key, if there is one.
WithRow(table, key, row) ==
    [k \in DOMAIN table \cup {key} |-> IF k = key THEN row ELSE table[k]]

Init ==
    /\ limit \in {maxConns(raw) : raw \in EnvMaxConns}
    /\ shows \in [Exports -> ShowLists]
    /\ at = [e \in Exports |-> "idle"]
    /\ done = [e \in Exports |-> 0]
    /\ inUse = 0
    /\ written = [e \in Exports |-> NoRows]
    /\ stored = [e \in Exports |-> NoRows]
    /\ catalog = NoRows
    /\ status = [e \in Exports |-> "none"]
    /\ refused = [e \in Exports |-> FALSE]
    /\ crashed = FALSE

Go(e, place) == at' = [at EXCEPT ![e] = place]

(* A statement on the pool: it takes a connection and gives it back. *)
OnPool == inUse < limit /\ UNCHANGED inUse

--------------------------------------------------------------------------------
(* StartExport and runExport *)

SetStatus(e, from, st, to) ==
    /\ at[e] = from /\ OnPool
    /\ status' = [status EXCEPT ![e] = st]
    /\ Go(e, to)
    /\ UNCHANGED <<limit, shows, done, written, stored, catalog, refused, crashed>>

Create(e) == SetStatus(e, "idle", "pending", "mark")

MarkRunning(e) == SetStatus(e, "mark", "running", "fetch")

MarkCompleted(e) == SetStatus(e, "complete", "completed", "gone")

MarkFailed(e) == SetStatus(e, "fail", "failed", "gone")

(* The errors of these three are logged, and the goroutine ends. *)
StatusRefused(e) ==
    /\ at[e] \in {"mark", "complete", "fail"}
    /\ refused' = [refused EXCEPT ![e] = TRUE]
    /\ Go(e, "gone")
    /\ UNCHANGED <<limit, shows, done, inUse, written, rows, crashed>>

(* ExportShows; saveDump is given the shows and never fails here. *)
Fetched(e) ==
    /\ at[e] = "fetch"
    /\ \E to \in {"begin", "fail"} : Go(e, to)
    /\ UNCHANGED <<limit, shows, done, inUse, written, rows, refused, crashed>>

--------------------------------------------------------------------------------
(* SaveShows *)

NextShow(e, n) == IF n = Len(shows[e]) THEN "commit" ELSE "lookup"

Begin(e) ==
    /\ at[e] = "begin" /\ inUse < limit
    /\ inUse' = inUse + 1
    /\ Go(e, NextShow(e, 0))
    /\ UNCHANGED <<limit, shows, done, written, rows, refused, crashed>>

BeginRefused(e) ==
    /\ at[e] = "begin"
    /\ Go(e, "fail")
    /\ UNCHANGED <<limit, shows, done, inUse, written, rows, refused, crashed>>

(* Faulty: ensureShowRecord upserts without looking first. *)
ensureShowRecordBlindly(e) ==
    /\ at[e] = "lookup"
    /\ IF Current(e) = Unknown THEN UNCHANGED inUse ELSE OnPool
    /\ Go(e, "upsert")
    /\ UNCHANGED <<limit, shows, done, written, rows, refused, crashed>>

(* EnsureShow: a show that has a TVDB id is looked up first, one without is  *)
(* always upserted.  With no TMDB id to store there is no "persist".         *)
ensureShowRecord(e) ==
    /\ at[e] = "lookup"
    /\ IF Current(e) = Unknown
       THEN Go(e, "upsert") /\ UNCHANGED inUse
       ELSE /\ OnPool
            /\ \/ Current(e) \notin InCatalog /\ Go(e, "upsert")
               \/ Current(e) \in InCatalog /\ \E to \in {"persist", "insert"} : Go(e, to)
    /\ UNCHANGED <<limit, shows, done, written, rows, refused, crashed>>

UpsertConnection(e) ==
    /\ at[e] = "upsert" /\ inUse < limit
    /\ inUse' = inUse + 1
    /\ Go(e, "locking")
    /\ UNCHANGED <<limit, shows, done, written, rows, refused, crashed>>

(* ON CONFLICT DO UPDATE sets the title of a row that is there, and a column *)
(* of a unique index, so PostgreSQL locks that row FOR UPDATE, which waits   *)
(* for every transaction that holds it FOR KEY SHARE because it has inserted *)
(* a reference to it; also for that of the very export, which the server     *)
(* cannot know.                                                              *)
Locked(s) == s \in InCatalog /\ \E e \in Exports : s \in DOMAIN written[e]

upsert(e) ==
    /\ at[e] = "locking" /\ ~Locked(Current(e))
    /\ catalog' = WithRow(catalog, Current(e), <<e, done[e] + 1>>)
    /\ inUse' = inUse - 1
    /\ \/ Go(e, "persist")
       \/ Current(e) # Unknown /\ Go(e, "insert")
    /\ UNCHANGED <<limit, shows, done, written, stored, status, refused, crashed>>

(* SetTMDBID, or the record of an unresolved show: on the pool again, but no *)
(* key of the row changes, so nobody's transaction is in the way.            *)
persistTMDBOnShow(e) ==
    /\ at[e] = "persist" /\ OnPool
    /\ Go(e, "insert")
    /\ UNCHANGED <<limit, shows, done, written, rows, refused, crashed>>

(* Any statement of EnsureShow may return an error, and SaveShows with it.   *)
EnsureShowRefused(e) ==
    /\ at[e] \in {"lookup", "upsert", "locking", "persist"}
    /\ inUse' = IF at[e] = "locking" THEN inUse - 1 ELSE inUse
    /\ Go(e, "rollback")
    /\ UNCHANGED <<limit, shows, done, written, rows, refused, crashed>>

Key(episode) == <<episode.season, episode.number>>

\* Where the i-th show of a list tells of the episode of that key.
PlacesOf(i, key) == {k \in DOMAIN Episodes[i] : Key(Episodes[i][k]) = key}

\* saveSeasons: of two episodes with one number, in one season, the later stands.
EpisodeRows(i) ==
    [key \in {Key(Episodes[i][k]) : k \in DOMAIN Episodes[i]} |-> <<i, Max(PlacesOf(i, key))>>]

\* Rows that take the place of those with their keys.
Over(new, old) ==
    [key \in DOMAIN new \cup DOMAIN old |-> IF key \in DOMAIN new THEN new[key] ELSE old[key]]

OldEpisodes(shown, s) == IF s \in DOMAIN shown THEN shown[s].episodes ELSE <<>>

(* Faulty: ON CONFLICT DO NOTHING for episodes. *)
SaveShowOnce(shown, s, i) ==
    WithRow(shown, s, [from |-> i, episodes |-> Over(OldEpisodes(shown, s), EpisodeRows(i))])

(* The i-th show is written as s.  A row that is there already has its fields*)
(* replaced (ON CONFLICT DO UPDATE), and the others of the show stay.        *)
SaveShow(shown, s, i) ==
    WithRow(shown, s, [from |-> i, episodes |-> Over(EpisodeRows(i), OldEpisodes(shown, s))])

(* Faulty: inserts through the pool instead of the transaction. *)
InsertShowOnPool(e) ==
    /\ at[e] = "insert" /\ OnPool
    /\ stored' = [stored EXCEPT ![e] = SaveShow(@, Current(e), done[e] + 1)]
    /\ done' = [done EXCEPT ![e] = @ + 1]
    /\ Go(e, NextShow(e, done[e] + 1))
    /\ UNCHANGED <<limit, shows, written, catalog, status, refused, crashed>>

(* The row of user_export_shows, and saveSeasons: all in the transaction.    *)
InsertShow(e) ==
    /\ at[e] = "insert"
    /\ written' = [written EXCEPT ![e] = SaveShow(@, Current(e), done[e] + 1)]
    /\ done' = [done EXCEPT ![e] = @ + 1]
    /\ Go(e, NextShow(e, done[e] + 1))
    /\ UNCHANGED <<limit, shows, inUse, rows, refused, crashed>>

InsertRefused(e) ==
    /\ at[e] = "insert"
    /\ Go(e, "rollback")
    /\ UNCHANGED <<limit, shows, done, inUse, written, rows, refused, crashed>>

EndTransaction(e, keep, to) ==
    /\ stored' = IF keep THEN [stored EXCEPT ![e] = written[e]] ELSE stored
    /\ written' = [written EXCEPT ![e] = NoRows]
    /\ inUse' = inUse - 1
    /\ Go(e, to)
    /\ UNCHANGED <<limit, shows, done, catalog, status, refused, crashed>>

Commit(e) == at[e] = "commit" /\ EndTransaction(e, TRUE, "complete")

(* The transaction is lost, or only the answer to Commit is. *)
CommitRefused(e) ==
    at[e] = "commit" /\ \E keep \in BOOLEAN : EndTransaction(e, keep, "fail")

(* Faulty: no deferred Rollback, so the connection is not given back. *)
RollbackForgotten(e) ==
    /\ at[e] = "rollback"
    /\ Go(e, "fail")
    /\ UNCHANGED <<limit, shows, done, inUse, written, rows, refused, crashed>>

Rollback(e) == at[e] = "rollback" /\ EndTransaction(e, FALSE, "fail")

--------------------------------------------------------------------------------
(* GetExport and DownloadExport: nothing but a completed export is read      *)

MayLoad(e) == status[e] = "completed"

(* The rows of e JOIN those of the catalogue, which has the title.           *)
LoadShows(e) ==
    [s \in DOMAIN stored[e] \cap InCatalog |->
        [from |-> stored[e][s].from, episodes |-> stored[e][s].episodes, title |-> catalog[s]]]

\* What MarkCompleted has put into the row, and the client is told.
show_count(e) == Len(shows[e])

--------------------------------------------------------------------------------
(* The process dies; the server rolls every open transaction back. *)
Crash ==
    /\ ~crashed /\ crashed' = TRUE
    /\ at' = [e \in Exports |-> IF at[e] \in {"idle", "gone"} THEN at[e] ELSE "dead"]
    /\ inUse' = 0
    /\ written' = [e \in Exports |-> NoRows]
    /\ UNCHANGED <<limit, shows, done, rows, refused>>

SaveShows(e) ==
    \/ Begin(e) \/ ensureShowRecord(e) \/ UpsertConnection(e) \/ upsert(e)
    \/ persistTMDBOnShow(e) \/ InsertShow(e) \/ Commit(e) \/ Rollback(e)

runExport(e) ==
    MarkRunning(e) \/ Fetched(e) \/ SaveShows(e) \/ MarkCompleted(e) \/ MarkFailed(e)

Refusal(e) ==
    StatusRefused(e) \/ BeginRefused(e) \/ EnsureShowRefused(e)
    \/ InsertRefused(e) \/ CommitRefused(e)

Next == Crash \/ \E e \in Exports : Create(e) \/ runExport(e) \/ Refusal(e)

Spec == Init /\ [][Next]_vars

(* Goroutines are scheduled, and a free connection goes to one that waits.   *)
(* The database is not bound to refuse anything.                             *)
FairSpec == Spec /\ \A e \in Exports : WF_vars(runExport(e))

--------------------------------------------------------------------------------
(* Properties *)

(* Every variable keeps its type, and the pool its limit.                    *)
TypeOK ==
    /\ limit \in 1..256 /\ inUse \in 0..limit
    /\ shows \in [Exports -> ShowLists]
    /\ at \in [Exports -> Places]
    /\ \A e \in Exports : done[e] \in 0..Len(shows[e])
    /\ \A e \in Exports : \A shown \in {written[e], stored[e]} :
          \A s \in DOMAIN shown : shown[s].from \in 1..Len(shows[e])
    /\ InCatalog \subseteq Series \cup {Unknown}
    /\ status \in [Exports -> Statuses]
    /\ refused \in [Exports -> BOOLEAN] /\ crashed \in BOOLEAN

(* An export is stored whole or not at all, wherever an error or a crash     *)
(* strikes; a completed one is there, and once the goroutine has come to its *)
(* end the row says how, unless the database refused the statement that says *)
(* so; and every stored or written reference is to a row of the catalog,     *)
(* which is not part of the transaction.                                     *)
SavedWhole ==
    \A e \in Exports :
        /\ DOMAIN stored[e] \in {{}, AllShows(e)}
        /\ status[e] = "completed" => DOMAIN stored[e] = AllShows(e)
        /\ at[e] = "gone" => status[e] \in {"completed", "failed"} \/ refused[e]
        /\ DOMAIN stored[e] \cup DOMAIN written[e] \subseteq InCatalog

(* Every connection that is taken belongs to an open transaction or to an    *)
(* upsert that is under way: no path through SaveShows loses one, and none   *)
(* is given back that was not taken.                                         *)
ConnectionsAreHeld ==
    /\ TypeOK
    /\ inUse = Cardinality({e \in Exports : at[e] \in InTransaction})
               + Cardinality({e \in Exports : at[e] = "locking"})

\* The places of the list of e that name s, and the exports whose lists do.
Named(e, s) == {i \in DOMAIN shows[e] : shows[e][i] = s}
NamedBy(s) == {e \in Exports : s \in AllShows(e)}

\* The places of the list of e, and in them, that tell of an episode of s.
Tells(e, s, key) == UNION {{<<i, k>> : k \in PlacesOf(i, key)} : i \in Named(e, s)}

\* Place p is q, or comes after it.
NotBefore(p, q) == p[1] > q[1] \/ (p[1] = q[1] /\ p[2] >= q[2])

Numbers == UNION {{Key(Episodes[i][k]) : k \in DOMAIN Episodes[i]} : i \in DOMAIN Episodes}

(* What is read of a completed export is what was gathered: every episode of *)
(* every show once, as the last place that tells of it does, and the columns *)
(* of user_export_shows as the last place that names the show.  Shows of one *)
(* series id have become one with the episodes of both, and only then the    *)
(* show_count of the row is not the number of shows that are read.  Not so   *)
(* the title, which is joined from the catalogue: it is one that some export *)
(* gave to that series, and this one's, from the first place that names it,  *)
(* is only certain when no other export names the series.  A row that was    *)
(* there keeps its title, and the one of all shows without an id takes any.  *)
ReadsBack ==
    \A e \in Exports : MayLoad(e) =>
        LET read == LoadShows(e)
        IN  /\ \A s \in DOMAIN read :
                  /\ read[s].from = Max(Named(e, s))
                  /\ \E d \in NamedBy(s) : \E i \in Named(d, s) : read[s].title = <<d, i>>
                  /\ NamedBy(s) = {e} => read[s].title = <<e, Min(Named(e, s))>>
                  /\ \A key \in Numbers :
                        IF Tells(e, s, key) = {} THEN key \notin DOMAIN read[s].episodes
                        ELSE /\ read[s].episodes[key] \in Tells(e, s, key)
                             /\ \A place \in Tells(e, s, key) :
                                   NotBefore(read[s].episodes[key], place)
            /\ (show_count(e) = Cardinality(DOMAIN read)) <=>
                  \A i, j \in DOMAIN shows[e] : i # j => shows[e][i] # shows[e][j]
            /\ DOMAIN read = AllShows(e)

(* Every export ends, if the pool has two connections for each and every     *)
(* show has a series id: waiting for row locks alone never closes a circle,  *)
(* because a show is upserted only by those that have not seen its row.      *)
(* With one connection less it can, and with shows without an id too: see    *)
(* EveryExportEndsAlways.                                                    *)
EveryExportEnds ==
    (limit >= 2 * Cardinality(Exports) /\ \A e \in Exports : Unknown \notin AllShows(e)) =>
        \A e \in Exports : at[e] = "mark" ~> at[e] \in {"gone", "dead"}

(* The documents: the client of a migration gets "progress events until      *)
(* status is completed or failed".  A dump that holds two shows without an   *)
(* id never ends: the transaction refers to the row of the first, and the    *)
(* upsert of the second waits for it on another connection.                  *)
EveryExportEndsAlways ==
    \A e \in Exports : at[e] = "mark" ~> at[e] \in {"gone", "dead"}
===============================================================================
