------------------------------ MODULE ShowLookup ------------------------------
(***************************************************************************)
(* Looking up the TMDB id of one show with a TVDB id (service/             *)
(* show_lookup.go, lookup_flight.go): Redis, then the row of shows, then   *)
(* one flight that all callers share, which looks in both again and at     *)
(* last asks Wikidata and the TMDB API (mapping/tmdb_resolver.go), whose   *)
(* clients remember every answer, and every "nothing found", until the     *)
(* process ends.  EnsureShow also keeps the row.  Any read, write or       *)
(* question may fail; the process may die, and warms Redis from the        *)
(* database when it starts.  TV Time shows carry no IMDB id, so the third  *)
(* source is never asked.                                                  *)
(***************************************************************************)
EXTENDS Naturals, FiniteSets

CONSTANTS Callers,     \* goroutines that look the show up, or ensure it
          TmdbIDs,     \* TMDB ids
          MaxCrashes   \* how often the process may die (bound)

ASSUME LookupAssumption ==
    MaxCrashes \in Nat /\ TmdbIDs \cap {"none", "zero", "absent", "unasked"} = {}

VARIABLES
    redis,      \* tvdb:tmdb:<id>: an id, "zero" (a negative entry), or "none"
    row,        \* the row of shows: "absent", "none" (tmdb_id is null), or its tmdb_id
    unresolved, \* the show is in unresolved_shows
    memo,       \* memo[s]: what the client of a source keeps, "unasked" at first
    flight,     \* the flight of the key: where it is, its result, the sources asked
    caller,     \* caller[c]: where a goroutine is, and what it got
    up,         \* the server takes requests
    crashes     \* how often the process died

stored == <<redis, row, unresolved>>
process == <<up, crashes>>
vars == <<stored, memo, flight, caller, process>>

Sources == {"wikidata", "tmdb"}
Maybe == TmdbIDs \cup {"none"}
NoFlight == [at |-> "none", got |-> "none", asked |-> {}]
Known(r) == r \in TmdbIDs

Looking == {"redis", "row", "fill", "join", "waiting"}
Ensuring == {"ensure", "upsert", "persist", "setID"}
Ended == {"done", "failed", "dead"}

NoCall(at) == [at |-> at, ensures |-> FALSE, got |-> "none", known |-> FALSE, asked |-> {}]

Init ==
    /\ row \in Maybe \cup {"absent"}
    /\ redis = "none"
    /\ unresolved \in BOOLEAN
    /\ memo = [s \in Sources |-> "unasked"] /\ flight = NoFlight
    /\ caller = [c \in Callers |-> NoCall("idle")]
    /\ up = TRUE /\ crashes = 0

Goes(c, to) == caller' = [caller EXCEPT ![c].at = to]
Fails(c) == caller' = [caller EXCEPT ![c] = NoCall("failed")]

--------------------------------------------------------------------------------
(* lookupTMDBID *)

(* ResolveTMDBID, or EnsureShow when the caller ensures; a goroutine may     *)
(* come again, and one that died with its process does not.                  *)
Begin(c, ensures) ==
    /\ up /\ caller[c].at \in {"idle", "done", "failed"}
    /\ caller' = [caller EXCEPT ![c] = [NoCall("redis") EXCEPT !.ensures = ensures,
                                                               !.known = Known(row)]]
    /\ UNCHANGED <<stored, memo, flight, process>>

\* What a finished lookup is followed by.
AfterLookup(c) == IF caller[c].ensures THEN "ensure" ELSE "done"

(* cache.Get: a negative entry, no entry and an error all lead on. *)
CacheGet(c) ==
    /\ caller[c].at = "redis"
    /\ \/ /\ Known(redis)
          /\ caller' = [caller EXCEPT ![c].at = AfterLookup(c), ![c].got = redis]
       \/ Goes(c, "row")
    /\ UNCHANGED <<stored, memo, flight, process>>

GetByTVDBID(c) ==
    /\ caller[c].at = "row"
    /\ \/ Known(row) /\ caller' = [caller EXCEPT ![c].at = "fill", ![c].got = row]
       \/ ~Known(row) /\ Goes(c, "join")
       \/ Fails(c)
    /\ UNCHANGED <<stored, memo, flight, process>>

bestEffortCacheSet(id) == redis' \in {redis, id}

CacheSet(c) ==
    /\ caller[c].at = "fill"
    /\ bestEffortCacheSet(caller[c].got)
    /\ Goes(c, AfterLookup(c))
    /\ UNCHANGED <<row, unresolved, memo, flight, process>>

(* flight.Do: the first caller of the key runs the flight, the others wait   *)
(* for its result, as the first one does itself.                             *)
resolveTMDBIDFlight(c) ==
    /\ caller[c].at = "join"
    /\ Goes(c, "waiting")
    /\ flight' = IF flight.at = "none" THEN [NoFlight EXCEPT !.at = "redis"] ELSE flight
    /\ UNCHANGED <<stored, memo, process>>

--------------------------------------------------------------------------------
(* The flight *)

Flies(to) == flight' = [flight EXCEPT !.at = to]
FliesWith(to, id) == flight' = [flight EXCEPT !.at = to, !.got = id]

(* Faulty: a negative entry is an answer. *)
FlightCacheGetNegative ==
    /\ flight.at = "redis"
    /\ \/ Known(redis) /\ FliesWith("end", redis)
       \/ redis = "zero" /\ Flies("end")
       \/ Flies("row")
    /\ UNCHANGED <<stored, memo, caller, process>>

FlightCacheGet ==
    /\ flight.at = "redis"
    /\ \/ Known(redis) /\ FliesWith("end", redis)
       \/ Flies("row")
    /\ UNCHANGED <<stored, memo, caller, process>>

\* Here an error of the database counts as not known.
FlightRowGet ==
    /\ flight.at = "row"
    /\ \/ Known(row) /\ FliesWith("set", row)
       \/ Flies("wikidata")
    /\ UNCHANGED <<stored, memo, caller, process>>

Says(s, id) == flight' = [at |-> "set", got |-> id, asked |-> flight.asked \cup {s}]
SaysNothing(s, next) == flight' = [flight EXCEPT !.at = next, !.asked = @ \cup {s}]

(* A client asks over the gate, again after an answer of 429 or 5xx and     *)
(* after none, as often as its delays allow; it keeps an id and that there   *)
(* is none.  A source is edited: it may answer differently the next time.    *)
Query(s, next) ==
    /\ \/ \E id \in TmdbIDs : Says(s, id) /\ memo' = [memo EXCEPT ![s] = id]
       \/ SaysNothing(s, next) /\ memo' = [memo EXCEPT ![s] = "none"]
       \/ SaysNothing(s, next) /\ UNCHANGED memo

Remembered(s, next) ==
    /\ IF Known(memo[s]) THEN Says(s, memo[s]) ELSE SaysNothing(s, next)
    /\ UNCHANGED memo

(* Faulty: the answers that are kept are not looked at. *)
AskAlways(s, next) ==
    /\ flight.at = s
    /\ Query(s, next)
    /\ UNCHANGED <<stored, caller, process>>

(* TMDBResolver.ResolveTMDBID: what a source does not know and what it       *)
(* failed to say are the same, as is a TMDB client that is not configured,   *)
(* which keeps nothing.                                                      *)
Ask(s, next) ==
    /\ flight.at = s
    /\ IF memo[s] # "unasked" THEN Remembered(s, next) ELSE Query(s, next)
    /\ UNCHANGED <<stored, caller, process>>

FlightSet ==
    /\ flight.at = "set"
    /\ bestEffortCacheSet(flight.got)
    /\ Flies("end")
    /\ UNCHANGED <<row, unresolved, memo, caller, process>>

bestEffortRecordUnresolved ==
    /\ flight.at = "record"
    /\ unresolved' \in {unresolved, TRUE}
    /\ Flies("end")
    /\ UNCHANGED <<redis, row, memo, caller, process>>

(* Faulty: only one of those who wait is woken. *)
FlightEndsForOne ==
    /\ flight.at = "end"
    /\ LET c == CHOOSE w \in Callers : caller[w].at = "waiting"
       IN  caller' = [caller EXCEPT ![c].at = AfterLookup(c), ![c].got = flight.got,
                                    ![c].asked = flight.asked]
    /\ flight' = NoFlight
    /\ UNCHANGED <<stored, memo, process>>

FlightEnds ==
    /\ flight.at = "end"
    /\ caller' = [c \in Callers |->
                    IF caller[c].at = "waiting"
                    THEN [caller[c] EXCEPT !.at = AfterLookup(c), !.got = flight.got,
                                           !.asked = flight.asked]
                    ELSE caller[c]]
    /\ flight' = NoFlight
    /\ UNCHANGED <<stored, memo, process>>

Flight ==
    \/ FlightCacheGet \/ FlightRowGet \/ Ask("wikidata", "tmdb") \/ Ask("tmdb", "record")
    \/ FlightSet \/ bestEffortRecordUnresolved \/ FlightEnds

--------------------------------------------------------------------------------
(* EnsureShow, after the lookup *)

AfterRecord(c) == IF caller[c].got = "none" THEN "done" ELSE "persist"

ensureShowRecord(c) ==
    /\ caller[c].at = "ensure"
    /\ \/ row # "absent" /\ Goes(c, AfterRecord(c))
       \/ row = "absent" /\ Goes(c, "upsert")
       \/ Fails(c)
    /\ UNCHANGED <<stored, memo, flight, process>>

(* Faulty: the row takes the tmdb_id of the new values, which is null. *)
UpsertExcluded(c) ==
    /\ caller[c].at = "upsert"
    /\ \/ row' = "none" /\ Goes(c, AfterRecord(c))
       \/ Fails(c) /\ UNCHANGED row
    /\ UNCHANGED <<redis, unresolved, memo, flight, process>>

(* UpsertWithoutResolver: a row that has come to be meanwhile keeps its id. *)
Upsert(c) ==
    /\ caller[c].at = "upsert"
    /\ \/ row' = (IF row = "absent" THEN "none" ELSE row) /\ Goes(c, AfterRecord(c))
       \/ Fails(c) /\ UNCHANGED row
    /\ UNCHANGED <<redis, unresolved, memo, flight, process>>

persistTMDBOnShow(c) ==
    /\ caller[c].at = "persist"
    /\ \/ row = caller[c].got /\ Goes(c, "done")
       \/ Goes(c, "setID")
    /\ UNCHANGED <<stored, memo, flight, process>>

SetTMDBID(c) ==
    /\ caller[c].at = "setID"
    /\ \/ row' = caller[c].got /\ Goes(c, "done")
       \/ Fails(c) /\ UNCHANGED row
    /\ UNCHANGED <<redis, unresolved, memo, flight, process>>

--------------------------------------------------------------------------------
(* The surroundings *)

\* The entry reaches its tmdbMappingTTL.
RedisExpires ==
    /\ redis # "none" /\ redis' = "none"
    /\ UNCHANGED <<row, unresolved, memo, flight, caller, process>>

Crash ==
    /\ up /\ crashes < MaxCrashes
    /\ up' = FALSE /\ crashes' = crashes + 1
    /\ flight' = NoFlight /\ memo' = [s \in Sources |-> "unasked"]
    /\ caller' = [c \in Callers |-> IF caller[c].at \in Looking \cup Ensuring
                                    THEN NoCall("dead") ELSE caller[c]]
    /\ UNCHANGED stored

\* The show is among the ids, or the unresolved shows, of the database.
ListTVDBTMDBMappings == Known(row)
ListUnresolvedTVDBIDs == unresolved /\ ~Known(row)

\* Each takes its entry in one pipeline; what is neither keeps what it has.
Warm == redis' = CASE ListTVDBTMDBMappings -> row
                   [] ListUnresolvedTVDBIDs -> "zero"
                   [] OTHER -> redis

\* A failure is logged, and the server starts all the same.
WarmTMDBCache ==
    /\ ~up /\ up' = TRUE
    /\ Warm \/ UNCHANGED redis
    /\ UNCHANGED <<row, unresolved, memo, flight, caller, crashes>>

Step(c) ==
    \/ CacheGet(c) \/ GetByTVDBID(c) \/ CacheSet(c) \/ resolveTMDBIDFlight(c)
    \/ ensureShowRecord(c) \/ Upsert(c) \/ persistTMDBOnShow(c) \/ SetTMDBID(c)

Next ==
    \/ \E c \in Callers : Step(c) \/ \E ensures \in BOOLEAN : Begin(c, ensures)
    \/ Flight
    \/ RedisExpires \/ Crash \/ WarmTMDBCache

Spec == Init /\ [][Next]_vars

\* Goroutines that are ready run; questions and statements come back.
FairSpec == Spec /\ WF_vars(Flight) /\ \A c \in Callers : WF_vars(Step(c))

--------------------------------------------------------------------------------
TypeOK ==
    /\ redis \in Maybe \cup {"zero"}
    /\ row \in Maybe \cup {"absent"}
    /\ unresolved \in BOOLEAN
    /\ memo \in [Sources -> Maybe \cup {"unasked"}]
    /\ flight \in [at : {"none", "redis", "row", "set", "record", "end"} \cup Sources,
                   got : Maybe, asked : SUBSET Sources]
    /\ caller \in [Callers -> [at : {"idle"} \cup Looking \cup Ensuring \cup Ended,
                               ensures : BOOLEAN, got : Maybe, known : BOOLEAN,
                               asked : SUBSET Sources]]
    /\ up \in BOOLEAN /\ crashes \in 0..MaxCrashes
    /\ flight.at # "none" <=> \E c \in Callers : caller[c].at = "waiting"

(* A show whose id the database knows is never asked for again: a lookup     *)
(* that begins after the row has an id does not come to a flight, whatever   *)
(* Redis lost, refused or holds, and whatever other callers write            *)
(* (lookupTMDBID, and COALESCE in the upsert); and as long as somebody waits *)
(* for a flight there is one.                                                *)
KnownIsNotAskedAgain ==
    /\ TypeOK
    /\ \A c \in Callers : caller[c].known => caller[c].at \notin {"join", "waiting"}

(* Nobody is told that a show has no TMDB id on the word of a negative entry *)
(* or of a row without one: the answer comes from a flight that went to the  *)
(* client of every source (the test RetriesAfterNegativeRedisCache, in every *)
(* interleaving).                                                            *)
NilWasAsked ==
    \A c \in Callers :
        /\ caller[c].at \in {"done"} \cup Ensuring
        /\ caller[c].got = "none"
        => caller[c].asked = Sources

(* What a source has said since the process started stands: no later flight  *)
(* records the show as unresolved or tells its callers that there is no id,  *)
(* though Redis and the row lost or never took it and the sources, asked     *)
(* again, could say nothing or fail (cachedTVDB, storeTVDBCache, and the     *)
(* same of the TMDB client).                                                 *)
AnswersStand ==
    (\E s \in Sources : Known(memo[s])) =>
        /\ flight.at # "record"
        /\ flight.at = "end" => flight.got # "none"

(* What EnsureShow returned for is in the database and stays there: the row, *)
(* and an id if it found one, though other callers, who may have another     *)
(* answer or none, upsert and set the same row.                              *)
EnsuredStays ==
    \A c \in Callers :
        caller[c].ensures /\ caller[c].at = "done" =>
            row # "absent" /\ (caller[c].got # "none" => Known(row))

(* Every lookup ends, for those who ran the flight and for those who waited  *)
(* for it, unless the process dies.                                          *)
EveryLookupEnds ==
    \A c \in Callers : caller[c].at \in Looking \cup Ensuring ~> caller[c].at \in Ended
================================================================================
