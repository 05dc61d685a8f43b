------------------------------- MODULE ShowCalls -------------------------------
(***************************************************************************)
(* What ImportTVTimeShow (service/serializd_import.go) asks of Serializd   *)
(* for one show: the seasons of Serializd matched with those of TV Time,   *)
(* and from them the calls, in their order.  Wanted says without calls and *)
(* order what the account holds after a whole import.                      *)
(*                                                                         *)
(* tv is a show of TV Time: its status, and the set of episodes of each    *)
(* season number; a season TV Time has no data on is one with no episodes. *)
(* sz is the answer of GetShow: a sequence of seasons with number, id and  *)
(* whether the name contains "special" (named).                            *)
(***************************************************************************)
EXTENDS Integers, Sequences, SequencesExt

ListedStatuses == {"not_started_yet", "watch_later", ""}
TrackedStatuses == {"up_to_date", "continuing", "stopped"}

\* parseFollowShow gives "unknown" to a show without a filter.
Statuses == ListedStatuses \cup TrackedStatuses \cup {"unknown"}

--------------------------------------------------------------------------------
(* mapSeasons *)

RegularSeasonIDs(sz) == {s.id : s \in {t \in ToSet(sz) : t.number # 0 /\ t.id > 0}}

IsSpecialSeason(s) == s.number = 0 \/ s.named

(* Faulty: a name with "special" in it makes a season special. *)
isSpecialByName(s) == IsSpecialSeason(s)

isSpecial(s) == IsSpecialSeason(s) /\ s.number = 0

seasonKey(number, special) == <<special, IF special THEN 0 ELSE number>>

\* tvByKey[key]; a season of TV Time is special when its number is 0.
tvByKey(tv, key) ==
    UNION {tv.seasons[n] : n \in {m \in DOMAIN tv.seasons : seasonKey(m, m = 0) = key}}

trackableEpisodes(episodes) == {e \in episodes : e.number > 0}

watchedEpisodeNumbers(episodes) == {e.number : e \in {d \in episodes : d.watched}}

(* Faulty: a season begun is a season watched. *)
seasonStateBegun(trackable) ==
    IF watchedEpisodeNumbers(trackable) = {} THEN "unwatched" ELSE "full"

seasonState(trackable) ==
    IF watchedEpisodeNumbers(trackable) = {} THEN "unwatched"
    ELSE IF \A e \in trackable : e.watched THEN "full" ELSE "partial"

classifyTVSeason(episodes) ==
    [watched |-> watchedEpisodeNumbers(trackableEpisodes(episodes)),
     state   |-> seasonState(trackableEpisodes(episodes))]

mapSeasons(sz, tv) ==
    [i \in DOMAIN sz |->
        LET key == seasonKey(sz[i].number, isSpecial(sz[i]))
            class == classifyTVSeason(tvByKey(tv, key))
        IN  [id |-> sz[i].id, isSpecial |-> isSpecial(sz[i]),
             state |-> class.state, watched |-> class.watched]]

--------------------------------------------------------------------------------
(* The calls.  A call is what it does and to which seasons and episodes.     *)

Call(op, seasons, episodes) == [op |-> op, seasons |-> seasons, episodes |-> episodes]

\* A call that names seasons is left out when there are none to name.
IfAny(op, seasons) == IF seasons = {} THEN <<>> ELSE <<Call(op, seasons, {})>>

\* One pass of the loop for each season; one without episodes to log calls nothing.
logWatchedEpisodes(mapped) ==
    [i \in DOMAIN mapped |-> Call("log", {mapped[i].id}, mapped[i].watched)]

CallsNothing(call) == call.op = "log" /\ call.episodes = {}

RegularIn(mapped, states) ==
    {m.id : m \in {n \in ToSet(mapped) : ~n.isSpecial /\ n.state \in states}}

applyContinuing(mapped) ==
    IfAny("watchlist", RegularIn(mapped, {"partial", "unwatched"}))
        \o IfAny("watched", RegularIn(mapped, {"full"}))
        \o logWatchedEpisodes(mapped)

applyStoppedWatched(mapped) ==
    IfAny("watched", RegularIn(mapped, {"full"})) \o logWatchedEpisodes(mapped)

\* No regular season, or a status the switch does not know.
Refuses(sz, tv) == RegularSeasonIDs(sz) = {} \/ tv.status = "unknown"

(* Faulty: the show is dropped before its episodes are logged. *)
dropFirst(mapped) == <<Call("dropped", {}, {})>> \o applyStoppedWatched(mapped)

dropLast(mapped) == applyStoppedWatched(mapped) \o <<Call("dropped", {}, {})>>

Calls(sz, tv) ==
    LET mapped == mapSeasons(sz, tv)
        regular == RegularSeasonIDs(sz)
    IN  CASE tv.status \in ListedStatuses -> <<Call("watchlist", regular, {})>>
          [] tv.status = "up_to_date" ->
                <<Call("watched", regular, {})>> \o logWatchedEpisodes(mapped)
          [] tv.status = "continuing" ->
                <<Call("watching", {}, {})>> \o applyContinuing(mapped)
          [] tv.status = "stopped" -> dropLast(mapped)
          [] OTHER -> <<>>

--------------------------------------------------------------------------------
(* What a call leaves on the account: entries of the user's lists, and the   *)
(* log of episodes.                                                          *)

Entry(kind, season, episode) == [kind |-> kind, season |-> season, episode |-> episode]

Entries(call) ==
    CASE call.op \in {"watching", "dropped"} -> {Entry(call.op, 0, 0)}
      [] call.op \in {"watchlist", "watched"} -> {Entry(call.op, id, 0) : id \in call.seasons}
      [] call.op = "log" -> {Entry("log", id, n) : id \in call.seasons, n \in call.episodes}

(* The season of TV Time a season of Serializd stands for is the one of the  *)
(* same number, whatever its name.                                           *)
EpisodesOf(tv, s) ==
    IF s.number \in DOMAIN tv.seasons
    THEN {e \in tv.seasons[s.number] : e.number > 0} ELSE {}

Completed(tv, s) ==
    EpisodesOf(tv, s) # {} /\ \A e \in EpisodesOf(tv, s) : e.watched

WantedLogs(sz, tv) ==
    UNION {{Entry("log", s.id, e.number) : e \in {d \in EpisodesOf(tv, s) : d.watched}} :
              s \in ToSet(sz)}

WantedOf(kind, seasons) == {Entry(kind, s.id, 0) : s \in seasons}

Wanted(sz, tv) ==
    LET regular == {s \in ToSet(sz) : s.number # 0}
        named == {s \in regular : s.id > 0}
        full == {s \in regular : Completed(tv, s)}
    IN  CASE tv.status \in ListedStatuses -> WantedOf("watchlist", named)
          [] tv.status = "up_to_date" -> WantedOf("watched", named) \cup WantedLogs(sz, tv)
          [] tv.status = "continuing" ->
                {Entry("watching", 0, 0)} \cup WantedOf("watched", full)
                    \cup WantedOf("watchlist", regular \ full) \cup WantedLogs(sz, tv)
          [] tv.status = "stopped" ->
                {Entry("dropped", 0, 0)} \cup WantedOf("watched", full) \cup WantedLogs(sz, tv)
          [] OTHER -> {}
================================================================================
