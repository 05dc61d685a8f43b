----------------------------- MODULE TVTimeGather -----------------------------
(***************************************************************************)
(* Gathering an account's shows from TV Time (tvtime/export.go, fetch.go): *)
(* the lists of followed series and anime, fetched page by page at the     *)
(* same time, then the watch history, then the seasons of every show by a  *)
(* pool of workers.  A page is asked for again when the service fails, and *)
(* passed over when that does not help: no failure of it is an error.  In  *)
(* the end the history is joined with the episodes.                        *)
(* Objects are numbered as TV Time lists them.                             *)
(***************************************************************************)
EXTENDS Integers, Sequences, FiniteSets, SequencesExt

CONSTANTS MaxObjects,                \* MaxObjects[l]: how many objects list l may have (bound)
          PageLimit,                 \* objects on a page (1000 and 100 in the code)
          maxPageRetries, maxConsecutivePageFails, maxEmptyRetries,
          TVTIME_GATHER_CONCURRENCY,
          EpisodesOf,                \* EpisodesOf[show]: as TV Time lists them
          WatchOf                    \* WatchOf[n]: what record n of the history says

FollowLists == {"series", "anime"}
Lists == FollowLists \cup {"episode"}

\* An episode without an id has the id 0; tba: its name is TBA.
ExportEpisode == [season : Int, id : Int, special : BOOLEAN, tba : BOOLEAN]

ASSUME GatherAssumption ==
    /\ MaxObjects \in [Lists -> Nat]
    /\ {PageLimit, maxConsecutivePageFails, maxEmptyRetries} \subseteq Nat \ {0}
    /\ {maxPageRetries, TVTIME_GATHER_CONCURRENCY} \subseteq Nat
    /\ \A l \in FollowLists : \A n \in 1..MaxObjects[l] : EpisodesOf[<<l, n>>] \in Seq(ExportEpisode)

VARIABLES
    size,     \* how many objects of each list TV Time has
    offsets,  \* TV Time honours page_offset, or else answers with its first page
    fetch,    \* fetch[l]: the locals of fetchObjects for list l
    missed,   \* missed[l]: the offsets of pages passed over
    cut,      \* cut[l]: why the fetch ended before the list did, or "no"
    phase,    \* what exportShowsInternal is at
    watches,  \* the records of the history that were fetched
    gaps,     \* history: the lists that were taken with pages passed over, or cut
    shows,    \* the followed shows
    seasons,  \* seasons[i]: what came of the seasons of shows[i]
    next,     \* the next index the jobs channel hands out
    worker,   \* worker[w]: where a worker is, its show, the number it reports
    done,     \* the atomic counter
    result    \* ExportResult, empty before there is one

tvtime == <<size, offsets>>
pages == <<fetch, missed, cut>>
fanout == <<shows, seasons, next, worker, done>>
history == <<watches, gaps, result>>
vars == <<tvtime, pages, phase, fanout, history>>

\* An unset or unusable value counts as 0 here.
gatherConcurrency ==
    CASE TVTIME_GATHER_CONCURRENCY = 0 -> 24
      [] TVTIME_GATHER_CONCURRENCY > 64 -> 64
      [] OTHER -> TVTIME_GATHER_CONCURRENCY

NumWorkers(total) == IF gatherConcurrency > total THEN total ELSE gatherConcurrency

NewFetch(at, try) ==
    [at |-> at, offset |-> 0, attempt |-> 0, limited |-> FALSE, fails |-> 0,
     last |-> 0, got |-> <<>>, try |-> try]

NoResult == [shows |-> <<>>, watched |-> 0]

Init ==
    /\ size \in {s \in [Lists -> UNION {0..MaxObjects[l] : l \in Lists}] :
                    \A l \in Lists : s[l] <= MaxObjects[l]}
    /\ offsets \in BOOLEAN
    /\ fetch = [l \in Lists |-> NewFetch(IF l \in FollowLists THEN "asking" ELSE "idle", 1)]
    /\ missed = [l \in Lists |-> {}]
    /\ cut = [l \in Lists |-> "no"]
    /\ phase = "follows"
    /\ shows = <<>> /\ seasons = <<>> /\ next = 1 /\ worker = <<>> /\ done = 0
    /\ watches = <<>> /\ gaps = {} /\ result = NoResult

--------------------------------------------------------------------------------
(* fetchObjects and fetchSidecarPage, for list l *)

Asking(l) == fetch[l].at = "asking"

Least(m, n) == IF m < n THEN m ELSE n

\* The numbers of the objects on the page TV Time has at an offset.
Page(l, offset) ==
    LET from == IF offsets THEN offset ELSE 0
        last == Least(from + PageLimit, size[l])
    IN  [i \in 1..(last - from) |-> from + i]

NextPage(f) == [f EXCEPT !.offset = @ + PageLimit, !.attempt = 0, !.limited = FALSE]

(* Not empty, and not the page before once more, which is told by the uuid of*)
(* its first object; every object is taken to have one.                      *)
IsNew(f, objects) == objects # <<>> /\ objects[1] # f.last

\* fetchObjects returns: f are its locals, and why says what cut it short.
Return(l, f, why) ==
    /\ fetch' = [fetch EXCEPT ![l] = [f EXCEPT !.at = "returned"]]
    /\ cut' = [cut EXCEPT ![l] = why]

PageEnds(l) ==
    /\ Asking(l)
    /\ ~IsNew(fetch[l], Page(l, fetch[l].offset))
    /\ Return(l, fetch[l], "no")
    /\ UNCHANGED <<tvtime, missed, phase, fanout, history>>

(* Faulty: failures are not counted from the last good page. *)
WithPageKeepingFails(f, objects) ==
    [f EXCEPT !.got = @ \o objects, !.last = objects[1]]

WithPage(f, objects) ==
    [f EXCEPT !.got = @ \o objects, !.last = objects[1], !.fails = 0]

PageTaken(l) ==
    /\ Asking(l)
    /\ LET objects == Page(l, fetch[l].offset)
           f == WithPage(fetch[l], objects)
       IN  /\ IsNew(fetch[l], objects)
           /\ IF Len(objects) < PageLimit THEN Return(l, f, "no")
              ELSE fetch' = [fetch EXCEPT ![l] = NextPage(f)] /\ UNCHANGED cut
    /\ UNCHANGED <<tvtime, missed, phase, fanout, history>>

\* The page is passed over, and the fetch given up after so many in a row.
PassOver(l) ==
    LET f == [fetch[l] EXCEPT !.fails = @ + 1]
    IN  /\ missed' = [missed EXCEPT ![l] = @ \cup {f.offset}]
        /\ IF f.fails >= maxConsecutivePageFails THEN Return(l, f, "failing")
           ELSE fetch' = [fetch EXCEPT ![l] = NextPage(f)] /\ UNCHANGED cut

PageGarbled(l) ==
    /\ Asking(l)
    /\ PassOver(l)
    /\ UNCHANGED <<tvtime, phase, fanout, history>>

\* A 4xx that is no 429 is not tried again.
PageRefused(l) ==
    /\ Asking(l)
    /\ Return(l, fetch[l], "refused")
    /\ UNCHANGED <<tvtime, missed, phase, fanout, history>>

\* Answers 200 and JSON, with no data.objects in it: it passes for the end.
PageHollow(l) ==
    /\ Asking(l)
    /\ Return(l, fetch[l], "hollow")
    /\ UNCHANGED <<tvtime, missed, phase, fanout, history>>

MoreAttempts(f) == f.attempt < maxPageRetries

(* A 429, a 5xx, or no answer.  The status of the last answer stays when an  *)
(* attempt has none, so that a 429 may end the fetch as a refusal does.      *)
PageFails(l, how) ==
    /\ Asking(l)
    /\ LET limited == how = "429" \/ (how = "silence" /\ fetch[l].limited)
       IN  IF MoreAttempts(fetch[l])
           THEN /\ fetch' = [fetch EXCEPT ![l].attempt = @ + 1, ![l].limited = limited]
                /\ UNCHANGED <<missed, cut>>
           ELSE IF limited THEN Return(l, fetch[l], "refused") /\ UNCHANGED missed
           ELSE PassOver(l)
    /\ UNCHANGED <<tvtime, phase, fanout, history>>

Empty(l) == l \in FollowLists /\ fetch[l].got = <<>>

(* Faulty: the attempts are not counted. *)
FetchAgainAlways(l) ==
    /\ fetch[l].at = "returned" /\ Empty(l)
    /\ fetch' = [fetch EXCEPT ![l] = NewFetch("asking", 1)]
    /\ missed' = [missed EXCEPT ![l] = {}] /\ cut' = [cut EXCEPT ![l] = "no"]
    /\ UNCHANGED <<tvtime, phase, fanout, history>>

\* fetchObjectsWithRetry: a list without an object is fetched again.
FetchAgain(l) ==
    /\ fetch[l].at = "returned" /\ Empty(l) /\ fetch[l].try < maxEmptyRetries
    /\ fetch' = [fetch EXCEPT ![l] = NewFetch("asking", @.try + 1)]
    /\ missed' = [missed EXCEPT ![l] = {}] /\ cut' = [cut EXCEPT ![l] = "no"]
    /\ UNCHANGED <<tvtime, phase, fanout, history>>

Fetched(l) == fetch[l].at = "returned" /\ (Empty(l) => fetch[l].try = maxEmptyRetries)

--------------------------------------------------------------------------------
(* exportShowsInternal *)

ShowsOf(l) == [i \in DOMAIN fetch[l].got |-> <<l, fetch[l].got[i]>>]

HasGap(l) == missed[l] # {} \/ cut[l] # "no"

FollowsFetched ==
    /\ phase = "follows" /\ \A l \in FollowLists : Fetched(l)
    /\ phase' = "watches"
    /\ shows' = ShowsOf("series") \o ShowsOf("anime")
    /\ seasons' = [i \in DOMAIN shows' |-> "none"]
    /\ gaps' = {l \in FollowLists : HasGap(l)}
    /\ fetch' = [l \in Lists |-> NewFetch(IF l = "episode" THEN "asking" ELSE "idle", 1)]
    /\ missed' = [l \in Lists |-> {}] /\ cut' = [l \in Lists |-> "no"]
    /\ UNCHANGED <<tvtime, next, worker, done, watches, result>>

WatchesFetched ==
    /\ phase = "watches" /\ Fetched("episode")
    /\ phase' = "episodes"
    /\ watches' = fetch["episode"].got
    /\ gaps' = gaps \cup {l \in {"episode"} : HasGap(l)}
    /\ worker' = [w \in 1..NumWorkers(Len(shows)) |-> [at |-> "free", show |-> 0, n |-> 0]]
    /\ fetch' = [fetch EXCEPT !["episode"] = NewFetch("idle", 1)]
    /\ missed' = [missed EXCEPT !["episode"] = {}] /\ cut' = [cut EXCEPT !["episode"] = "no"]
    /\ UNCHANGED <<tvtime, shows, seasons, next, done, result>>

--------------------------------------------------------------------------------
(* fetchAllSeasons: the channel hands the indices out in their order *)

IsAt(w, at) == worker[w].at = at

Take(w) ==
    /\ IsAt(w, "free") /\ next <= Len(shows)
    /\ worker' = [worker EXCEPT ![w] = [at |-> "first", show |-> next, n |-> 0]]
    /\ next' = next + 1
    /\ UNCHANGED <<tvtime, pages, phase, shows, seasons, done, history>>

\* The show has what came of it, and the worker goes on to report.
Settle(w, what) ==
    /\ seasons' = [seasons EXCEPT ![worker[w].show] = what]
    /\ worker' = [worker EXCEPT ![w].at = "counting"]

\* SeriesID is 0: TV Time is not asked.
NoSeriesID(w) ==
    /\ IsAt(w, "first")
    /\ Settle(w, "empty")
    /\ UNCHANGED <<tvtime, pages, phase, shows, next, done, history>>

SeasonsFetched(w) ==
    /\ IsAt(w, "first") \/ IsAt(w, "second")
    /\ Settle(w, "whole")
    /\ UNCHANGED <<tvtime, pages, phase, shows, next, done, history>>

SeasonsFail(w) ==
    /\ \/ IsAt(w, "first") /\ worker' = [worker EXCEPT ![w].at = "second"] /\ UNCHANGED seasons
       \/ IsAt(w, "second") /\ Settle(w, "noData")
    /\ UNCHANGED <<tvtime, pages, phase, shows, next, done, history>>

(* done.Add; the callback comes later, perhaps after that of a higher number. *)
Count(w) ==
    /\ IsAt(w, "counting")
    /\ done' = done + 1
    /\ worker' = [worker EXCEPT ![w].at = "reporting", ![w].n = done + 1]
    /\ UNCHANGED <<tvtime, pages, phase, shows, seasons, next, history>>

Report(w) ==
    /\ IsAt(w, "reporting")
    /\ worker' = [worker EXCEPT ![w] = [at |-> "free", show |-> 0, n |-> 0]]
    /\ UNCHANGED <<tvtime, pages, phase, shows, seasons, next, done, history>>

(* Faulty: nobody waits for the workers. *)
HandedOut == next > Len(shows)

\* wg.Wait: the channel is closed and every worker has left its loop.
AllDone == next > Len(shows) /\ \A w \in DOMAIN worker : IsAt(w, "free")

--------------------------------------------------------------------------------
(* The history joined with the episodes *)

\* The places of the records that are of a followed show.
OfFollowed == {k \in DOMAIN watches : WatchOf[watches[k]].series \in ToSet(shows)}

(* Faulty: the first record of an episode stands. *)
FirstStands(places) == Min(places)

\* Every record overwrites the entry of those before it.
Stands(places) == Max(places)

\* The entries: the rewatches of an episode.  A record names its episode by an
\* id, or by a uuid, which no episode has here.
buildWatchedAtMap ==
    [id \in {WatchOf[watches[k]].episode : k \in OfFollowed} |->
        WatchOf[watches[Stands({k \in OfFollowed : WatchOf[watches[k]].episode = id})]].rewatches]

\* An episode that came without an id has no entry.
HasWatch(entries, id) == id # 0 /\ id \in DOMAIN entries

episodeWatchedCount(entries, id) == IF HasWatch(entries, id) THEN entries[id] + 1 ELSE 0

Normal(ep, entries) ==
    [id |-> ep.id, special |-> ep.special \/ ep.season = 0,
     isWatched |-> HasWatch(entries, ep.id),
     watchedCount |-> episodeWatchedCount(entries, ep.id)]

\* fetchSeriesEpisodes: the episodes by the number of their season, each season
\* a function of the places its episodes have, in their order, in episodes.
Seasons(episodes) ==
    [s \in {episodes[k].season : k \in DOMAIN episodes} |->
        [k \in {j \in DOMAIN episodes : episodes[j].season = s} |-> episodes[k]]]

\* Episodes to be announced are left out; a season remains without them.
NormalSeason(season, entries) ==
    [k \in {j \in DOMAIN season : ~season[j].tba} |-> Normal(season[k], entries)]

SeasonsOf(i) == IF seasons[i] = "whole" THEN Seasons(EpisodesOf[shows[i]]) ELSE <<>>

normalizeShows ==
    [i \in DOMAIN shows |->
        [noEpisodeData |-> seasons[i] = "noData",
         seasons |-> [s \in DOMAIN SeasonsOf(i) |-> NormalSeason(SeasonsOf(i)[s], buildWatchedAtMap)]]]

\* Where an export tells of an episode: the show, the season and the place.
PlacesIn(export) ==
    UNION {UNION {{<<i, s, k>> : k \in DOMAIN export[i].seasons[s]} :
                  s \in DOMAIN export[i].seasons} : i \in DOMAIN export}

At(export, p) == export[p[1]].seasons[p[2]][p[3]]

\* The specials do not count.
countWatchedEpisodes(export) ==
    Cardinality({p \in PlacesIn(export) :
        p[2] # 0 /\ At(export, p).isWatched /\ ~At(export, p).special})

ExportDone ==
    /\ phase = "episodes" /\ AllDone
    /\ phase' = "done"
    /\ result' = [shows |-> normalizeShows, watched |-> countWatchedEpisodes(normalizeShows)]
    /\ UNCHANGED <<tvtime, pages, fanout, watches, gaps>>

Fetch(l) ==
    \/ PageEnds(l) \/ PageTaken(l) \/ FetchAgain(l)
    \/ PageGarbled(l) \/ PageRefused(l) \/ PageHollow(l)
    \/ \E how \in {"429", "5xx", "silence"} : PageFails(l, how)

Work(w) ==
    \/ Take(w) \/ NoSeriesID(w) \/ SeasonsFetched(w) \/ SeasonsFail(w) \/ Count(w) \/ Report(w)

Main == FollowsFetched \/ WatchesFetched \/ ExportDone

Next == (\E l \in Lists : Fetch(l)) \/ (\E w \in DOMAIN worker : Work(w)) \/ Main

Spec == Init /\ [][Next]_vars

\* Goroutines that are ready run, and every request has an answer or a timeout.
FairSpec ==
    /\ Spec
    /\ WF_vars(Main)
    /\ \A l \in Lists : WF_vars(Fetch(l))
    /\ WF_vars(\E w \in DOMAIN worker : Work(w))

--------------------------------------------------------------------------------
TypeOK ==
    /\ size \in [Lists -> Nat] /\ offsets \in BOOLEAN
    /\ \A l \in Lists :
          /\ fetch[l] \in [at : {"idle", "asking", "returned"}, offset : Nat,
                           attempt : 0..maxPageRetries, limited : BOOLEAN,
                           fails : 0..maxConsecutivePageFails, last : 0..size[l],
                           got : Seq(1..size[l]), try : 1..maxEmptyRetries]
          /\ missed[l] \subseteq Nat
          /\ cut[l] \in {"no", "refused", "hollow", "failing"}
    /\ phase \in {"follows", "watches", "episodes", "done"}
    /\ shows \in Seq(FollowLists \X (Nat \ {0}))
    /\ seasons \in [DOMAIN shows -> {"none", "empty", "whole", "noData"}]
    /\ watches \in Seq(1..size["episode"]) /\ gaps \subseteq Lists
    /\ phase # "done" => result = NoResult
    /\ next \in 1..(Len(shows) + 1) /\ done \in 0..Len(shows)
    /\ \A w \in DOMAIN worker :
          worker[w] \in [at : {"free", "first", "second", "counting", "reporting"},
                         show : 0..Len(shows), n : 0..Len(shows)]

\* What fetching l page by page can come upon.
Within(l) == IF offsets THEN 1..size[l] ELSE ToSet(Page(l, 0))

Missed(l) == UNION {ToSet(Page(l, offset)) : offset \in missed[l]}

(* A list that was fetched holds every object once and in order, but those   *)
(* of pages passed over and those behind the point where a refusal, an       *)
(* answer that is no page, or as many passed over in a row as it takes, cut  *)
(* it: without one of these it is complete, whatever was tried again, and    *)
(* however TV Time pages (fetchObjects, fetchSidecarPage,                    *)
(* fetchObjectsWithRetry).  What has a type keeps it all the way.            *)
GapsAreExplained ==
    /\ TypeOK
    /\ \A l \in Lists : fetch[l].at = "returned" =>
           LET f == fetch[l]
               end == IF cut[l] # "no" THEN f.offset ELSE size[l]
           IN  /\ \A i, j \in DOMAIN f.got : i < j => f.got[i] < f.got[j]
               /\ \A n \in Within(l) : n <= end => n \in ToSet(f.got) \cup Missed(l)
               /\ cut[l] = "failing" =>
                     \A k \in 0..(maxConsecutivePageFails - 1) : f.offset - k * PageLimit \in missed[l]

(* When the export returns, the seasons of every show were asked for or it   *)
(* has no id, each was counted once, and no callback is to come that would   *)
(* take the gather step of the job back to running (fetchAllSeasons).        *)
NothingLeftBehind ==
    /\ \A v, w \in DOMAIN worker :
          v # w /\ worker[v].show = worker[w].show => worker[v].show = 0
    /\ phase = "done" =>
          /\ \A i \in DOMAIN shows : seasons[i] # "none"
          /\ done = Len(shows)
          /\ \A w \in DOMAIN worker : worker[w].at = "free"

\* The episodes of a followed show that the export has to tell of, by their place.
Listed(i) == IF seasons[i] # "whole" THEN {}
             ELSE {k \in DOMAIN EpisodesOf[shows[i]] : ~EpisodesOf[shows[i]][k].tba}

EpisodeAt(i, k) == EpisodesOf[shows[i]][k]

Told(i, k) == At(result.shows, <<i, EpisodeAt(i, k).season, k>>)

\* The records of a set that say an episode of a followed show was watched.
Witnesses(ns, ep) ==
    {n \in ns : ep.id # 0 /\ WatchOf[n].episode = ep.id /\ WatchOf[n].series \in ToSet(shows)}

(* The export says that an episode was watched when a record of the history  *)
(* that was fetched names it, and only then, as often as the last of them    *)
(* says; the number of watched episodes is that of those that are no         *)
(* specials; and unless a page was passed over or a list cut, no followed    *)
(* show is missing and no record of one is without effect, but for episodes  *)
(* that were not got, or are to be announced (buildWatchedAtMap,             *)
(* normalizeShows, countWatchedEpisodes).                                    *)
HistoryIsTrue ==
    phase = "done" =>
        /\ \A i \in DOMAIN shows : \A k \in Listed(i) :
              LET ep == EpisodeAt(i, k)
                  ns == Witnesses(ToSet(watches), ep)
              IN  /\ <<i, ep.season, k>> \in PlacesIn(result.shows)
                  /\ Told(i, k).id = ep.id
                  /\ Told(i, k).isWatched <=> ns # {}
                  /\ Told(i, k).watchedCount = IF ns = {} THEN 0 ELSE WatchOf[Max(ns)].rewatches + 1
        /\ result.watched = Cardinality({p \in UNION {{i} \X Listed(i) : i \in DOMAIN shows} :
              LET ep == EpisodeAt(p[1], p[2])
              IN  ~ep.special /\ ep.season # 0 /\ Witnesses(ToSet(watches), ep) # {}})
        /\ gaps = {} =>
              /\ \A l \in FollowLists : \A n \in Within(l) : <<l, n>> \in ToSet(shows)
              /\ \A i \in DOMAIN shows : \A k \in Listed(i) :
                    Witnesses(Within("episode"), EpisodeAt(i, k)) # {} => Told(i, k).isWatched

(* The export returns, however often TV Time fails or has nothing. *)
EveryGatherEnds == <>(phase = "done")
================================================================================
