-------------------------- MODULE AccountImportProofs --------------------------
(***************************************************************************)
(* Theorems about ShowCalls and AccountImport, for every set of jobs, any  *)
(* show TV Time and any seasons Serializd may have.  CallsDoWhatIsWanted   *)
(* says of the calls of one import that together they leave on the account *)
(* what a whole import has to leave there, and the dropped list last.  The *)
(* invariant follows an import through them: what it wants is on the       *)
(* account or still to do, and nothing else is to do.                      *)
(***************************************************************************)
EXTENDS AccountImport, TLAPS

Season == [id : Int, number : Int, named : BOOLEAN]

Mapped == [id : Int, isSpecial : BOOLEAN, state : {"full", "partial", "unwatched"},
           watched : SUBSET Int]

CallOps == {"watchlist", "watching", "watched", "dropped", "log"}

CallSet == [op : CallOps, seasons : SUBSET Int, episodes : SUBSET Int]

(* A show as TV Time may have it. *)
IsShow(t) == t \in [status : Statuses, seasons : [DOMAIN t.seasons -> SUBSET Episode]]

(* What calls leave on the account when all of them are made. *)
Effect(calls) == UNION {Entries(calls[i]) : i \in DOMAIN calls}

Dropped == Entry("dropped", 0, 0)

DroppedLast(calls) == \A i \in DOMAIN calls : Dropped \in Entries(calls[i]) => i = Len(calls)

--------------------------------------------------------------------------------
(* Sequences of calls *)

LEMMA EffectOfNone == Effect(<<>>) = {}
  BY DEF Effect

LEMMA EffectOfOne == ASSUME NEW c PROVE Effect(<<c>>) = Entries(c)
  BY DEF Effect

LEMMA BothInOrder ==
    ASSUME NEW S, NEW s \in Seq(S), NEW t \in Seq(S)
    PROVE  /\ s \o t \in Seq(S) /\ Len(s \o t) = Len(s) + Len(t)
           /\ DOMAIN (s \o t) = 1..(Len(s) + Len(t))
           /\ DOMAIN s = 1..Len(s) /\ DOMAIN t = 1..Len(t)
           /\ Len(s) \in Nat /\ Len(t) \in Nat
           /\ \A i \in 1..Len(s) : (s \o t)[i] = s[i]
           /\ \A i \in 1..Len(t) : (s \o t)[Len(s) + i] = t[i]
  OBVIOUS

LEMMA EffectOfBoth ==
    ASSUME NEW S, NEW s \in Seq(S), NEW t \in Seq(S)
    PROVE  s \o t \in Seq(S) /\ Effect(s \o t) = Effect(s) \cup Effect(t)
<1>1. /\ DOMAIN (s \o t) = 1..(Len(s) + Len(t))
      /\ DOMAIN s = 1..Len(s) /\ DOMAIN t = 1..Len(t)
      /\ Len(s) \in Nat /\ Len(t) \in Nat /\ s \o t \in Seq(S)
      /\ \A i \in 1..Len(s) : (s \o t)[i] = s[i]
      /\ \A i \in 1..Len(t) : (s \o t)[Len(s) + i] = t[i]
  BY BothInOrder
<1>2. ASSUME NEW i \in DOMAIN (s \o t)
      PROVE  Entries((s \o t)[i]) \subseteq Effect(s) \cup Effect(t)
  <2>1. CASE i <= Len(s)
    BY <2>1, <1>1 DEF Effect
  <2>2. CASE i > Len(s)
    <3>1. i - Len(s) \in DOMAIN t /\ (s \o t)[i] = t[i - Len(s)]
      BY <2>2, <1>1
    <3> QED
      BY <3>1 DEF Effect
  <2> QED
    BY <2>1, <2>2, <1>1
<1>3. ASSUME NEW i \in DOMAIN s
      PROVE  Entries(s[i]) \subseteq Effect(s \o t)
  BY <1>1 DEF Effect
<1>4. ASSUME NEW i \in DOMAIN t
      PROVE  Entries(t[i]) \subseteq Effect(s \o t)
  <2>1. Len(s) + i \in DOMAIN (s \o t) /\ (s \o t)[Len(s) + i] = t[i]
    BY <1>1
  <2> QED
    BY <2>1 DEF Effect
<1> QED
  BY <1>1, <1>2, <1>3, <1>4 DEF Effect

LEMMA EffectOfHead ==
    ASSUME NEW S, NEW s \in Seq(S), s # <<>>
    PROVE  /\ Tail(s) \in Seq(S) /\ Head(s) \in S
           /\ Effect(s) = Entries(Head(s)) \cup Effect(Tail(s))
<1>1. /\ Len(s) \in Nat \ {0} /\ DOMAIN s = 1..Len(s) /\ Head(s) = s[1]
      /\ DOMAIN Tail(s) = 1..(Len(s) - 1)
      /\ \A i \in 1..(Len(s) - 1) : Tail(s)[i] = s[i + 1]
      /\ Tail(s) \in Seq(S) /\ Head(s) \in S
  OBVIOUS
<1>2. ASSUME NEW i \in DOMAIN s
      PROVE  Entries(s[i]) \subseteq Entries(Head(s)) \cup Effect(Tail(s))
  <2>1. CASE i = 1
    BY <2>1, <1>1
  <2>2. CASE i # 1
    <3>1. i - 1 \in DOMAIN Tail(s) /\ Tail(s)[i - 1] = s[i]
      BY <2>2, <1>1
    <3> QED
      BY <3>1 DEF Effect
  <2> QED
    BY <2>1, <2>2
<1>3. ASSUME NEW i \in DOMAIN Tail(s)
      PROVE  Entries(Tail(s)[i]) \subseteq Effect(s)
  <2>1. i + 1 \in DOMAIN s /\ Tail(s)[i] = s[i + 1]
    BY <1>1
  <2> QED
    BY <2>1 DEF Effect
<1>4. Entries(Head(s)) \subseteq Effect(s)
  BY <1>1 DEF Effect
<1> QED
  BY <1>1, <1>2, <1>3, <1>4 DEF Effect

(* The dropped list stays last when the calls before it are made. *)
LEMMA DroppedStaysLast ==
    ASSUME NEW S, NEW s \in Seq(S), s # <<>>, DroppedLast(s)
    PROVE  /\ DroppedLast(Tail(s))
           /\ Dropped \in Entries(Head(s)) => Tail(s) = <<>>
<1>1. /\ Len(s) \in Nat \ {0} /\ DOMAIN s = 1..Len(s) /\ Head(s) = s[1]
      /\ DOMAIN Tail(s) = 1..(Len(s) - 1) /\ Len(Tail(s)) = Len(s) - 1
      /\ \A i \in 1..(Len(s) - 1) : Tail(s)[i] = s[i + 1]
      /\ Tail(s) \in Seq(S)
  OBVIOUS
<1>2. ASSUME NEW i \in DOMAIN Tail(s), Dropped \in Entries(Tail(s)[i])
      PROVE  i = Len(Tail(s))
  <2>1. i + 1 \in DOMAIN s /\ Dropped \in Entries(s[i + 1])
    BY <1>1, <1>2
  <2>2. i + 1 = Len(s)
    BY <2>1 DEF DroppedLast
  <2> QED
    BY <2>2, <1>1
<1>3. Dropped \in Entries(Head(s)) => Len(Tail(s)) = 0
  BY <1>1 DEF DroppedLast
<1> QED
  BY <1>1, <1>2, <1>3 DEF DroppedLast

--------------------------------------------------------------------------------
(* mapSeasons matches a season of Serializd with the one of its number. *)

LEMMA SeasonByKey ==
    ASSUME NEW t, IsShow(t), NEW s \in Season
    PROVE  trackableEpisodes(tvByKey(t, seasonKey(s.number, isSpecial(s)))) = EpisodesOf(t, s)
<1>1. isSpecial(s) = (s.number = 0) /\ s.number \in Int
  BY DEF isSpecial, IsSpecialSeason, Season
<1> DEFINE key == seasonKey(s.number, s.number = 0)
<1>2. \A m \in DOMAIN t.seasons : seasonKey(m, m = 0) = key <=> m = s.number
  BY DEF seasonKey
<1>3. CASE s.number \in DOMAIN t.seasons
  <2>1. tvByKey(t, key) = t.seasons[s.number]
    BY <1>2, <1>3 DEF tvByKey
  <2> QED
    BY <2>1, <1>1, <1>3 DEF trackableEpisodes, EpisodesOf
<1>4. CASE s.number \notin DOMAIN t.seasons
  <2>1. tvByKey(t, key) = {}
    BY <1>2, <1>4 DEF tvByKey
  <2> QED
    BY <2>1, <1>1, <1>4 DEF trackableEpisodes, EpisodesOf
<1> QED
  BY <1>3, <1>4

LEMMA EpisodesType ==
    ASSUME NEW t, IsShow(t), NEW s \in Season
    PROVE  EpisodesOf(t, s) \subseteq Episode
  BY DEF IsShow, EpisodesOf

(* The numbers of the episodes of s that were watched. *)
Watched(t, s) == {e.number : e \in {d \in EpisodesOf(t, s) : d.watched}}

LEMMA SeasonMapped ==
    ASSUME NEW t, IsShow(t), NEW sq \in Seq(Season), NEW i \in DOMAIN sq
    PROVE  LET m == mapSeasons(sq, t)[i]
           IN  /\ m \in Mapped
               /\ m.id = sq[i].id
               /\ m.isSpecial = (sq[i].number = 0)
               /\ m.watched = Watched(t, sq[i])
               /\ m.state = "full" <=> Completed(t, sq[i])
<1> DEFINE s == sq[i]
           eps == EpisodesOf(t, s)
           m == mapSeasons(sq, t)[i]
<1>1. s \in Season
  OBVIOUS
<1>2. eps \subseteq Episode
  BY <1>1, EpisodesType
<1>3. /\ m.id = s.id /\ m.isSpecial = isSpecial(s)
      /\ m.state = seasonState(eps) /\ m.watched = watchedEpisodeNumbers(eps)
      /\ m = [id |-> s.id, isSpecial |-> isSpecial(s), state |-> seasonState(eps),
              watched |-> watchedEpisodeNumbers(eps)]
  BY <1>1, SeasonByKey DEF mapSeasons, classifyTVSeason
<1>4. isSpecial(s) = (s.number = 0) /\ s.id \in Int
  BY <1>1 DEF isSpecial, IsSpecialSeason, Season
<1> HIDE DEF s, eps, m
<1>5. watchedEpisodeNumbers(eps) = {e.number : e \in {d \in eps : d.watched}}
  BY DEF watchedEpisodeNumbers
<1>6. watchedEpisodeNumbers(eps) \subseteq Int
  BY <1>2, <1>5 DEF Episode
<1>7. seasonState(eps) \in {"full", "partial", "unwatched"}
  BY DEF seasonState
<1>8. seasonState(eps) = "full" <=> eps # {} /\ \A e \in eps : e.watched
  <2>1. CASE watchedEpisodeNumbers(eps) = {}
    <3>1. \A e \in eps : ~e.watched
      BY <2>1, <1>5
    <3> QED
      BY <2>1, <3>1 DEF seasonState
  <2>2. CASE watchedEpisodeNumbers(eps) # {}
    <3>1. eps # {}
      BY <2>2, <1>5
    <3> QED
      BY <2>2, <3>1 DEF seasonState
  <2> QED
    BY <2>1, <2>2
<1> QED
  BY <1>3, <1>4, <1>5, <1>6, <1>7, <1>8 DEF Mapped, Watched, Completed, s, eps, m

--------------------------------------------------------------------------------
(* The calls of a show are together what is wanted. *)

LEMMA LogsAreWanted ==
    ASSUME NEW t, IsShow(t), NEW sq \in Seq(Season)
    PROVE  /\ logWatchedEpisodes(mapSeasons(sq, t)) \in Seq(CallSet)
           /\ Effect(logWatchedEpisodes(mapSeasons(sq, t))) = WantedLogs(sq, t)
<1> DEFINE mapped == mapSeasons(sq, t)
           logs == logWatchedEpisodes(mapped)
<1>1. DOMAIN sq = 1..Len(sq) /\ Len(sq) \in Nat
  OBVIOUS
<1>2. DOMAIN logs = 1..Len(sq) /\ DOMAIN mapped = 1..Len(sq)
  BY <1>1 DEF logWatchedEpisodes, mapSeasons
<1>3. ASSUME NEW i \in 1..Len(sq)
      PROVE  logs[i] = [op |-> "log", seasons |-> {sq[i].id}, episodes |-> Watched(t, sq[i])]
             /\ sq[i].id \in Int /\ Watched(t, sq[i]) \subseteq Int
  <2>1. mapped[i].id = sq[i].id /\ mapped[i].watched = Watched(t, sq[i]) /\ mapped[i] \in Mapped
    BY <1>1, SeasonMapped
  <2>2. logs[i] = Call("log", {mapped[i].id}, mapped[i].watched)
    BY <1>2 DEF logWatchedEpisodes
  <2> QED
    BY <2>1, <2>2 DEF Call, Mapped
<1>4. logs = [i \in 1..Len(sq) |-> logs[i]]
  BY <1>2 DEF logWatchedEpisodes
<1> HIDE DEF logs, mapped
<1>5. \A i \in 1..Len(sq) : logs[i] \in CallSet
  <2> TAKE i \in 1..Len(sq)
  <2>1. {sq[i].id} \in SUBSET Int /\ Watched(t, sq[i]) \in SUBSET Int
    BY <1>3
  <2>2. [op |-> "log", seasons |-> {sq[i].id}, episodes |-> Watched(t, sq[i])] \in CallSet
    BY <2>1 DEF CallSet, CallOps
  <2> QED
    BY <2>2, <1>3
<1>6. logs \in Seq(CallSet)
  BY <1>1, <1>4, <1>5
<1>7. \A i \in 1..Len(sq) : Entries(logs[i]) = {Entry("log", sq[i].id, n) : n \in Watched(t, sq[i])}
  <2> TAKE i \in 1..Len(sq)
  <2>0. logs[i] = [op |-> "log", seasons |-> {sq[i].id}, episodes |-> Watched(t, sq[i])]
    BY <1>3
  <2>1. logs[i].op = "log" /\ logs[i].seasons = {sq[i].id} /\ logs[i].episodes = Watched(t, sq[i])
    BY <2>0
  <2>2. Entries(logs[i]) = {Entry("log", id, n) : id \in logs[i].seasons, n \in logs[i].episodes}
    BY <2>1 DEF Entries
  <2> QED
    BY <2>1, <2>2
<1>8. \A i \in 1..Len(sq) :
          {Entry("log", sq[i].id, n) : n \in Watched(t, sq[i])} =
          {Entry("log", sq[i].id, e.number) : e \in {d \in EpisodesOf(t, sq[i]) : d.watched}}
  BY DEF Watched
<1>9. ToSet(sq) = {sq[i] : i \in 1..Len(sq)}
  BY <1>1 DEF ToSet
<1>10. Effect(logs) = UNION {Entries(logs[i]) : i \in 1..Len(sq)}
  BY <1>2 DEF Effect, logs
<1>11. WantedLogs(sq, t) =
           UNION {{Entry("log", sq[i].id, e.number) : e \in {d \in EpisodesOf(t, sq[i]) : d.watched}} :
                     i \in 1..Len(sq)}
  BY <1>9 DEF WantedLogs
<1>12. Effect(logs) = WantedLogs(sq, t)
  <2> DEFINE W(i) == {Entry("log", sq[i].id, e.number) :
                         e \in {d \in EpisodesOf(t, sq[i]) : d.watched}}
  <2>1. \A i \in 1..Len(sq) : Entries(logs[i]) = W(i)
    BY <1>7, <1>8
  <2>2. WantedLogs(sq, t) = UNION {W(i) : i \in 1..Len(sq)}
    BY <1>11
  <2> HIDE DEF W
  <2> QED
    BY <2>1, <2>2, <1>10
<1> QED
  BY <1>6, <1>12 DEF logs, mapped

(* A call that names seasons puts them on the list. *)
LEMMA ListCall ==
    ASSUME NEW op \in {"watchlist", "watched"}, NEW ids \in SUBSET Int
    PROVE  /\ Call(op, ids, {}) \in CallSet
           /\ Entries(Call(op, ids, {})) = {Entry(op, id, 0) : id \in ids}
  BY DEF Call, CallSet, CallOps, Entries

LEMMA IfAnyCall ==
    ASSUME NEW op \in {"watchlist", "watched"}, NEW ids \in SUBSET Int
    PROVE  /\ IfAny(op, ids) \in Seq(CallSet)
           /\ Effect(IfAny(op, ids)) = {Entry(op, id, 0) : id \in ids}
<1>1. CASE ids = {}
  <2>1. IfAny(op, ids) = <<>>
    BY <1>1 DEF IfAny
  <2>2. {Entry(op, id, 0) : id \in ids} = {}
    BY <1>1
  <2> QED
    BY <2>1, <2>2, EffectOfNone
<1>2. CASE ids # {}
  <2>1. IfAny(op, ids) = <<Call(op, ids, {})>>
    BY <1>2 DEF IfAny
  <2> QED
    <3>1. Call(op, ids, {}) \in CallSet
      BY ListCall
    <3>2. <<Call(op, ids, {})>> \in Seq(CallSet)
      BY <3>1
    <3>3. Effect(<<Call(op, ids, {})>>) = {Entry(op, id, 0) : id \in ids}
      BY ListCall, EffectOfOne
    <3> QED
      BY <2>1, <3>2, <3>3
<1> QED
  BY <1>1, <1>2

LEMMA MarkCall ==
    ASSUME NEW op \in {"watching", "dropped"}
    PROVE  /\ Call(op, {}, {}) \in CallSet
           /\ Entries(Call(op, {}, {})) = {Entry(op, 0, 0)}
  BY DEF Call, CallSet, CallOps, Entries

Regular(sq) == {s \in ToSet(sq) : s.number # 0}

LEMMA SeasonsOf ==
    ASSUME NEW sq \in Seq(Season)
    PROVE  ToSet(sq) = {sq[i] : i \in DOMAIN sq} /\ ToSet(sq) \subseteq Season
  BY DEF ToSet

LEMMA RegularStates ==
    ASSUME NEW t, IsShow(t), NEW sq \in Seq(Season)
    PROVE  /\ RegularIn(mapSeasons(sq, t), {"full"})
                  = {s.id : s \in {r \in Regular(sq) : Completed(t, r)}}
           /\ RegularIn(mapSeasons(sq, t), {"partial", "unwatched"})
                  = {s.id : s \in {r \in Regular(sq) : ~Completed(t, r)}}
           /\ \A states : RegularIn(mapSeasons(sq, t), states) \subseteq Int
<1> DEFINE mapped == mapSeasons(sq, t)
<1>1. DOMAIN mapped = DOMAIN sq
  BY DEF mapSeasons
<1>2. \A i \in DOMAIN sq :
          /\ mapped[i].id = sq[i].id /\ mapped[i].id \in Int
          /\ mapped[i].isSpecial = (sq[i].number = 0)
          /\ mapped[i].state \in {"full", "partial", "unwatched"}
          /\ mapped[i].state = "full" <=> Completed(t, sq[i])
  BY SeasonMapped DEF Mapped
<1>3. ToSet(mapped) = {mapped[i] : i \in DOMAIN sq}
  BY <1>1 DEF ToSet
<1> HIDE DEF mapped
<1>4. \A states : RegularIn(mapped, states) =
          {mapped[i].id : i \in {k \in DOMAIN sq : ~mapped[k].isSpecial /\ mapped[k].state \in states}}
  BY <1>3 DEF RegularIn
<1>5. Regular(sq) = {sq[i] : i \in {k \in DOMAIN sq : sq[k].number # 0}}
  BY SeasonsOf DEF Regular
<1>6. RegularIn(mapped, {"full"}) = {s.id : s \in {r \in Regular(sq) : Completed(t, r)}}
  <2>1. RegularIn(mapped, {"full"}) =
            {sq[i].id : i \in {k \in DOMAIN sq : sq[k].number # 0 /\ Completed(t, sq[k])}}
    <3>1. \A k \in DOMAIN sq : ~mapped[k].isSpecial /\ mapped[k].state \in {"full"}
                                <=> sq[k].number # 0 /\ Completed(t, sq[k])
      BY <1>2
    <3>2. {k \in DOMAIN sq : ~mapped[k].isSpecial /\ mapped[k].state \in {"full"}}
              = {k \in DOMAIN sq : sq[k].number # 0 /\ Completed(t, sq[k])}
      BY <3>1
    <3>3. \A k \in DOMAIN sq : mapped[k].id = sq[k].id
      BY <1>2
    <3> QED
      BY <3>2, <3>3, <1>4
  <2>2. {r \in Regular(sq) : Completed(t, r)} =
            {sq[i] : i \in {k \in DOMAIN sq : sq[k].number # 0 /\ Completed(t, sq[k])}}
    BY <1>5
  <2> QED
    BY <2>1, <2>2
<1>7. RegularIn(mapped, {"partial", "unwatched"}) = {s.id : s \in {r \in Regular(sq) : ~Completed(t, r)}}
  <2>1. RegularIn(mapped, {"partial", "unwatched"}) =
            {sq[i].id : i \in {k \in DOMAIN sq : sq[k].number # 0 /\ ~Completed(t, sq[k])}}
    <3>1. \A k \in DOMAIN sq : ~mapped[k].isSpecial /\ mapped[k].state \in {"partial", "unwatched"}
                                <=> sq[k].number # 0 /\ ~Completed(t, sq[k])
      BY <1>2
    <3>2. {k \in DOMAIN sq : ~mapped[k].isSpecial /\ mapped[k].state \in {"partial", "unwatched"}}
              = {k \in DOMAIN sq : sq[k].number # 0 /\ ~Completed(t, sq[k])}
      BY <3>1
    <3>3. \A k \in DOMAIN sq : mapped[k].id = sq[k].id
      BY <1>2
    <3> QED
      BY <3>2, <3>3, <1>4
  <2>2. {r \in Regular(sq) : ~Completed(t, r)} =
            {sq[i] : i \in {k \in DOMAIN sq : sq[k].number # 0 /\ ~Completed(t, sq[k])}}
    BY <1>5
  <2> QED
    BY <2>1, <2>2
<1>8. \A states : RegularIn(mapped, states) \subseteq Int
  BY <1>2, <1>4
<1> QED
  BY <1>6, <1>7, <1>8 DEF mapped

EntrySet == [kind : CallOps, season : Int, episode : Int]

(* The calls made for a show that is not only listed, without the marks of   *)
(* its status.                                                               *)
LEMMA ContinuingEffect ==
    ASSUME NEW t, IsShow(t), NEW sq \in Seq(Season)
    PROVE  LET mapped == mapSeasons(sq, t)
               full == {r \in Regular(sq) : Completed(t, r)}
           IN  /\ applyContinuing(mapped) \in Seq(CallSet)
               /\ Effect(applyContinuing(mapped)) =
                     WantedOf("watchlist", Regular(sq) \ full) \cup WantedOf("watched", full)
                         \cup WantedLogs(sq, t)
               /\ applyStoppedWatched(mapped) \in Seq(CallSet)
               /\ Effect(applyStoppedWatched(mapped)) =
                     WantedOf("watched", full) \cup WantedLogs(sq, t)
<1> DEFINE mapped == mapSeasons(sq, t)
           full == {r \in Regular(sq) : Completed(t, r)}
           begun == RegularIn(mapped, {"partial", "unwatched"})
           done == RegularIn(mapped, {"full"})
           logs == logWatchedEpisodes(mapped)
<1>1. begun \in SUBSET Int /\ done \in SUBSET Int
  BY RegularStates
<1>2. /\ IfAny("watchlist", begun) \in Seq(CallSet)
      /\ Effect(IfAny("watchlist", begun)) = {Entry("watchlist", id, 0) : id \in begun}
      /\ IfAny("watched", done) \in Seq(CallSet)
      /\ Effect(IfAny("watched", done)) = {Entry("watched", id, 0) : id \in done}
  BY <1>1, IfAnyCall
<1>3. logs \in Seq(CallSet) /\ Effect(logs) = WantedLogs(sq, t)
  BY LogsAreWanted
<1>4. done = {s.id : s \in full} /\ begun = {s.id : s \in Regular(sq) \ full}
  <2>1. done = {s.id : s \in full} /\ begun = {s.id : s \in {r \in Regular(sq) : ~Completed(t, r)}}
    BY RegularStates
  <2>2. {r \in Regular(sq) : ~Completed(t, r)} = Regular(sq) \ full
    OBVIOUS
  <2> QED
    BY <2>1, <2>2
<1>5. /\ applyContinuing(mapped) = (IfAny("watchlist", begun) \o IfAny("watched", done)) \o logs
      /\ applyStoppedWatched(mapped) = IfAny("watched", done) \o logs
  BY DEF applyContinuing, applyStoppedWatched
<1> HIDE DEF mapped, full, begun, done, logs
<1>6. /\ {Entry("watched", id, 0) : id \in done} = WantedOf("watched", full)
      /\ {Entry("watchlist", id, 0) : id \in begun} = WantedOf("watchlist", Regular(sq) \ full)
  BY <1>4 DEF WantedOf
<1>7. /\ IfAny("watchlist", begun) \o IfAny("watched", done) \in Seq(CallSet)
      /\ Effect(IfAny("watchlist", begun) \o IfAny("watched", done)) =
            WantedOf("watchlist", Regular(sq) \ full) \cup WantedOf("watched", full)
  <2> DEFINE a == IfAny("watchlist", begun)
             b == IfAny("watched", done)
  <2>1. a \in Seq(CallSet) /\ b \in Seq(CallSet)
    BY <1>2
  <2> HIDE DEF a, b
  <2>2. a \o b \in Seq(CallSet) /\ Effect(a \o b) = Effect(a) \cup Effect(b)
    BY <2>1, EffectOfBoth
  <2> QED
    BY <2>2, <1>2, <1>6 DEF a, b
<1>8. /\ applyContinuing(mapped) \in Seq(CallSet)
      /\ Effect(applyContinuing(mapped)) =
            WantedOf("watchlist", Regular(sq) \ full) \cup WantedOf("watched", full)
                \cup WantedLogs(sq, t)
  <2> DEFINE a == IfAny("watchlist", begun) \o IfAny("watched", done)
  <2>1. a \in Seq(CallSet)
    BY <1>7
  <2> HIDE DEF a
  <2>2. a \o logs \in Seq(CallSet) /\ Effect(a \o logs) = Effect(a) \cup Effect(logs)
    BY <2>1, <1>3, EffectOfBoth
  <2> QED
    BY <2>2, <1>3, <1>5, <1>7 DEF a
<1>9. /\ applyStoppedWatched(mapped) \in Seq(CallSet)
      /\ Effect(applyStoppedWatched(mapped)) = WantedOf("watched", full) \cup WantedLogs(sq, t)
  BY <1>2, <1>3, <1>5, <1>6, EffectOfBoth
<1> QED
  BY <1>8, <1>9 DEF mapped, full

LEMMA RegularIDs ==
    ASSUME NEW sq \in Seq(Season)
    PROVE  /\ RegularSeasonIDs(sq) \in SUBSET Int
           /\ RegularSeasonIDs(sq) = {s.id : s \in {r \in Regular(sq) : r.id > 0}}
<1>1. {r \in Regular(sq) : r.id > 0} = {r \in ToSet(sq) : r.number # 0 /\ r.id > 0}
  BY DEF Regular
<1>2. RegularSeasonIDs(sq) = {s.id : s \in {r \in Regular(sq) : r.id > 0}}
  BY <1>1 DEF RegularSeasonIDs
<1>3. \A s \in ToSet(sq) : s.id \in Int
  BY SeasonsOf DEF Season
<1> QED
  BY <1>2, <1>3 DEF Regular

(* The entries of a list and of the log are what they are called. *)
LEMMA KindOfEntries ==
    ASSUME NEW t, NEW sq
    PROVE  /\ \A kind, S : \A w \in WantedOf(kind, S) : w.kind = kind
           /\ \A w \in WantedLogs(sq, t) : w.kind = "log"
  BY DEF WantedOf, WantedLogs, Entry

(* Only a stopped show is wanted on the dropped list. *)
LEMMA DroppedIsStopped ==
    ASSUME NEW t, NEW sq, Dropped \in Wanted(sq, t)
    PROVE  t.status = "stopped"
<1>1. Dropped.kind = "dropped" /\ Entry("watching", 0, 0).kind = "watching"
  BY DEF Dropped, Entry
<1> QED
  BY <1>1, KindOfEntries DEF Wanted, ListedStatuses

(* What the calls of a show leave on the account is what was wanted, no less *)
(* and no more, whatever the seasons are; and the dropped list comes last.   *)
THEOREM CallsDoWhatIsWanted ==
    ASSUME NEW t, IsShow(t), NEW sq \in Seq(Season)
    PROVE  /\ Calls(sq, t) \in Seq(CallSet)
           /\ Effect(Calls(sq, t)) = Wanted(sq, t)
           /\ DroppedLast(Calls(sq, t))
<1> DEFINE mapped == mapSeasons(sq, t)
           regular == RegularSeasonIDs(sq)
           named == {r \in Regular(sq) : r.id > 0}
           full == {r \in Regular(sq) : Completed(t, r)}
           logs == logWatchedEpisodes(mapped)
<1>1. t.status \in Statuses
  BY DEF IsShow
<1>2. regular \in SUBSET Int /\ \A op : {Entry(op, id, 0) : id \in regular} = WantedOf(op, named)
  BY RegularIDs DEF WantedOf
<1>3. logs \in Seq(CallSet) /\ Effect(logs) = WantedLogs(sq, t)
  BY LogsAreWanted
<1>4. ASSUME NEW op \in {"watchlist", "watched"}
      PROVE  /\ <<Call(op, regular, {})>> \in Seq(CallSet)
             /\ Effect(<<Call(op, regular, {})>>) = WantedOf(op, named)
  <2>1. Call(op, regular, {}) \in CallSet
        /\ Entries(Call(op, regular, {})) = {Entry(op, id, 0) : id \in regular}
    BY <1>2, ListCall
  <2>2. Effect(<<Call(op, regular, {})>>) = Entries(Call(op, regular, {}))
    BY EffectOfOne
  <2>3. \A c \in CallSet : <<c>> \in Seq(CallSet)
    OBVIOUS
  <2> QED
    BY <2>1, <2>2, <2>3, <1>2
<1>5. ASSUME NEW op \in {"watching", "dropped"}
      PROVE  /\ <<Call(op, {}, {})>> \in Seq(CallSet)
             /\ Effect(<<Call(op, {}, {})>>) = {Entry(op, 0, 0)}
  <2>1. Call(op, {}, {}) \in CallSet /\ Entries(Call(op, {}, {})) = {Entry(op, 0, 0)}
    BY MarkCall
  <2>2. Effect(<<Call(op, {}, {})>>) = Entries(Call(op, {}, {}))
    BY EffectOfOne
  <2>3. \A c \in CallSet : <<c>> \in Seq(CallSet)
    OBVIOUS
  <2> QED
    BY <2>1, <2>2, <2>3
<1>6. ASSUME Dropped \notin Effect(Calls(sq, t)) PROVE DroppedLast(Calls(sq, t))
  BY <1>6 DEF Effect, DroppedLast
<1>7. CASE t.status \in ListedStatuses
  <2>1. Calls(sq, t) = <<Call("watchlist", regular, {})>>
    BY <1>7 DEF Calls, ListedStatuses
  <2>2. Wanted(sq, t) = WantedOf("watchlist", named)
    BY <1>7 DEF Wanted, Regular, ListedStatuses
  <2>3. Calls(sq, t) \in Seq(CallSet) /\ Effect(Calls(sq, t)) = Wanted(sq, t)
    BY <2>1, <2>2, <1>4
  <2> QED
    BY <2>3, <1>6, <1>7, DroppedIsStopped DEF ListedStatuses
<1>8. CASE t.status = "up_to_date"
  <2> DEFINE a == <<Call("watched", regular, {})>>
  <2>1. Calls(sq, t) = a \o logs
    BY <1>8 DEF Calls, ListedStatuses
  <2>2. Wanted(sq, t) = WantedOf("watched", named) \cup WantedLogs(sq, t)
    BY <1>8 DEF Wanted, Regular, ListedStatuses
  <2>3. a \in Seq(CallSet) /\ Effect(a) = WantedOf("watched", named)
    BY <1>4
  <2> HIDE DEF a, logs
  <2>4. Calls(sq, t) \in Seq(CallSet) /\ Effect(Calls(sq, t)) = Wanted(sq, t)
    <3>1. a \o logs \in Seq(CallSet) /\ Effect(a \o logs) = Effect(a) \cup Effect(logs)
      <4>1. a \in Seq(CallSet) /\ logs \in Seq(CallSet)
        BY <2>3, <1>3
      <4> QED
        BY <4>1, EffectOfBoth
    <3> QED
      BY <3>1, <2>1, <2>2, <2>3, <1>3
  <2> QED
    BY <2>4, <1>6, <1>8, DroppedIsStopped
<1>9. CASE t.status = "continuing"
  <2> DEFINE a == <<Call("watching", {}, {})>>
             b == applyContinuing(mapped)
  <2>1. Calls(sq, t) = a \o b
    BY <1>9 DEF Calls, ListedStatuses
  <2>2. Wanted(sq, t) = {Entry("watching", 0, 0)} \cup WantedOf("watched", full)
                            \cup WantedOf("watchlist", Regular(sq) \ full) \cup WantedLogs(sq, t)
    BY <1>9 DEF Wanted, Regular, ListedStatuses
  <2>3. a \in Seq(CallSet) /\ Effect(a) = {Entry("watching", 0, 0)}
    BY <1>5
  <2>4. b \in Seq(CallSet)
        /\ Effect(b) = WantedOf("watchlist", Regular(sq) \ full) \cup WantedOf("watched", full)
                           \cup WantedLogs(sq, t)
    BY ContinuingEffect
  <2> HIDE DEF a, b
  <2>5. Calls(sq, t) \in Seq(CallSet) /\ Effect(Calls(sq, t)) = Effect(a) \cup Effect(b)
    <3>1. a \o b \in Seq(CallSet) /\ Effect(a \o b) = Effect(a) \cup Effect(b)
      <4>1. a \in Seq(CallSet) /\ b \in Seq(CallSet)
        BY <2>3, <2>4
      <4> QED
        BY <4>1, EffectOfBoth
    <3> QED
      BY <3>1, <2>1
  <2>6. Effect(Calls(sq, t)) = Wanted(sq, t)
    BY <2>2, <2>3, <2>4, <2>5
  <2> QED
    BY <2>5, <2>6, <1>6, <1>9, DroppedIsStopped
<1>10. CASE t.status = "stopped"
  <2> DEFINE a == applyStoppedWatched(mapped)
             b == <<Call("dropped", {}, {})>>
  <2>1. Calls(sq, t) = a \o b
    BY <1>10 DEF Calls, ListedStatuses, dropLast
  <2>2. Wanted(sq, t) = {Dropped} \cup WantedOf("watched", full) \cup WantedLogs(sq, t)
    BY <1>10 DEF Wanted, Regular, ListedStatuses, Dropped
  <2>3. a \in Seq(CallSet) /\ Effect(a) = WantedOf("watched", full) \cup WantedLogs(sq, t)
    BY ContinuingEffect
  <2>4. b \in Seq(CallSet) /\ Effect(b) = {Dropped} /\ Len(b) = 1
    BY <1>5 DEF Dropped
  <2> HIDE DEF a, b
  <2>5. Calls(sq, t) \in Seq(CallSet) /\ Effect(Calls(sq, t)) = Effect(a) \cup Effect(b)
    <3>1. a \o b \in Seq(CallSet) /\ Effect(a \o b) = Effect(a) \cup Effect(b)
      <4>1. a \in Seq(CallSet) /\ b \in Seq(CallSet)
        BY <2>3, <2>4
      <4> QED
        BY <4>1, EffectOfBoth
    <3> QED
      BY <3>1, <2>1
  <2>6. Effect(Calls(sq, t)) = Wanted(sq, t)
    BY <2>2, <2>3, <2>4, <2>5
  <2>7. Dropped \notin Effect(a)
    <3>1. Dropped.kind = "dropped"
      BY DEF Dropped, Entry
    <3> QED
      BY <2>3, <3>1, KindOfEntries
  <2>8. /\ Len(a) \in Nat /\ Len(a \o b) = Len(a) + Len(b)
        /\ DOMAIN (a \o b) = 1..(Len(a) + Len(b)) /\ DOMAIN a = 1..Len(a)
        /\ \A i \in 1..Len(a) : (a \o b)[i] = a[i]
    <3>1. a \in Seq(CallSet) /\ b \in Seq(CallSet)
      BY <2>3, <2>4
    <3> QED
      BY <3>1, BothInOrder
  <2>9. ASSUME NEW i \in DOMAIN Calls(sq, t), Dropped \in Entries(Calls(sq, t)[i])
        PROVE  i = Len(Calls(sq, t))
    <3>1. i \notin 1..Len(a)
      BY <2>1, <2>7, <2>8, <2>9 DEF Effect
    <3>2. i \in 1..(Len(a) + 1) /\ Len(Calls(sq, t)) = Len(a) + 1
      BY <2>1, <2>4, <2>8
    <3> QED
      BY <2>8, <3>1, <3>2
  <2> QED
    BY <2>5, <2>6, <2>9 DEF DroppedLast
<1>11. CASE t.status = "unknown"
  <2>1. Calls(sq, t) = <<>> /\ Wanted(sq, t) = {}
    BY <1>11 DEF Calls, Wanted, ListedStatuses
  <2>2. Calls(sq, t) \in Seq(CallSet) /\ Effect(Calls(sq, t)) = Wanted(sq, t)
    BY <2>1, EffectOfNone
  <2> QED
    BY <2>1, <2>2, <1>6
<1> QED
  BY <1>1, <1>7, <1>8, <1>9, <1>10, <1>11 DEF Statuses, TrackedStatuses

--------------------------------------------------------------------------------
(* The invariant *)

ShowSet == [status : Statuses, seasons : UNION {[D -> SUBSET Episode] : D \in SUBSET Int}]

JobSet == [at : {"new"} \cup Running \cup Ended, show : ShowSet, listed : BOOLEAN,
           todo : Seq(CallSet)]

Types ==
    /\ tv \in ShowSet
    /\ sz \in Seq(Season) /\ sz \in SerializdShows
    /\ account \subseteq EntrySet
    /\ db \subseteq {This, Other} /\ redis \subseteq {This, Other}
    /\ job \in [Jobs -> JobSet]
    /\ \A j \in Jobs : job[j].at \notin {"calls", "notFound", "dead"} => job[j].todo = <<>>
    /\ changes \in 0..MaxChanges

(* What an import wants is on the account or still to do. *)
Follows(j) ==
    /\ job[j].at = "calls" =>
          /\ Effect(job[j].todo) \subseteq Wanted(sz, job[j].show)
          /\ Wanted(sz, job[j].show) \subseteq account \cup Effect(job[j].todo)
          /\ DroppedLast(job[j].todo)
    /\ job[j].at \in {"recordRedis", "added"} => WholeFor(j)

OfSomeImport == account \subseteq UNION {Wanted(sz, job[j].show) : j \in Importers}

Remembered == This \in db \cup redis => \E j \in Importers : WholeFor(j)

ImportInv ==
    /\ Types
    /\ \A j \in Jobs : Follows(j)
    /\ OfSomeImport
    /\ Remembered
    /\ DroppedComesLast

LEMMA ShowsAreShows ==
    /\ \A t \in ShowSet : IsShow(t)
    /\ \A t : IsShow(t) /\ DOMAIN t.seasons \subseteq Int => t \in ShowSet
  BY DEF ShowSet, IsShow

LEMMA InitInv == Init => ImportInv
<1> SUFFICES ASSUME Init PROVE ImportInv
  OBVIOUS
<1>1. tv \in ShowSet
  BY AccountAssumption, ShowsAreShows DEF Init, IsShow
<1>2. Types
  <2>1. sz \in Seq(Season)
    BY AccountAssumption DEF Init, Season
  <2>2. <<>> \in Seq(CallSet)
    OBVIOUS
  <2>3. job \in [Jobs -> JobSet]
    BY <1>1, <2>2 DEF Init, JobSet
  <2> QED
    <3>1. changes \in 0..MaxChanges
      BY AccountAssumption DEF Init
    <3>2. \A j \in Jobs : job[j].todo = <<>>
      BY DEF Init
    <3> QED
      BY <1>1, <2>1, <2>3, <3>1, <3>2 DEF Init, Types
<1>3. Importers = {}
  BY DEF Init, Importers
<1> QED
  BY <1>2, <1>3 DEF Init, ImportInv, Follows, OfSomeImport, Remembered, DroppedComesLast

(* An import that goes on keeps what it has put on the account. *)
LEMMA WholeStays ==
    ASSUME NEW j \in Jobs, job'[j].show = job[j].show, sz' = sz, account \subseteq account'
    PROVE  WholeFor(j) => WholeFor(j)'
  BY DEF WholeFor

LEMMA FollowsStays ==
    ASSUME NEW j \in Jobs, job'[j] = job[j], sz' = sz, account \subseteq account', Follows(j)
    PROVE  Follows(j)'
  BY DEF Follows, WholeFor

(* What a step has to show for the invariant to be kept. *)
LEMMA Keeps ==
    ASSUME ImportInv, Types', sz' = sz, account \subseteq account',
           \A j \in Importers : j \in Importers' /\ job'[j].show = job[j].show,
           \A j \in Jobs : Follows(j)',
           \A w \in account' \ account : \E j \in Importers' : w \in Wanted(sz', job'[j].show),
           This \in (db' \cup redis') \ (db \cup redis) => \E j \in Importers' : WholeFor(j)',
           Dropped \in account' \ account =>
               \E j \in Importers' : job'[j].show.status = "stopped" /\ WholeFor(j)'
    PROVE  ImportInv'
<1>1. \A j \in Importers : WholeFor(j) => WholeFor(j)'
  BY WholeStays DEF Importers
<1>2. OfSomeImport'
  BY DEF ImportInv, OfSomeImport
<1>3. Remembered'
  BY <1>1 DEF ImportInv, Remembered
<1>4. DroppedComesLast'
  BY <1>1 DEF ImportInv, DroppedComesLast, Dropped
<1> QED
  BY <1>2, <1>3, <1>4 DEF ImportInv

Early == {"new", "gathered", "library", "database", "pending"}

(* A job that has not begun its calls, and does not begin them. *)
LEMMA Quiet ==
    ASSUME ImportInv, NEW j \in Jobs, NEW new \in JobSet,
           job[j].at \in Early, new.at \notin {"calls", "recordRedis", "added"}, new.todo = <<>>,
           job' = [job EXCEPT ![j] = new], UNCHANGED <<world, account, stores>>
    PROVE  ImportInv'
<1>1. /\ job \in [Jobs -> JobSet]
      /\ job'[j] = new /\ \A k \in Jobs \ {j} : job'[k] = job[k]
      /\ job' \in [Jobs -> JobSet]
  BY DEF ImportInv, Types
<1>2. UNCHANGED <<tv, sz, changes, account, db, redis>>
  BY DEF world, stores
<1>3. Types'
  <2>1. \A k \in Jobs : job'[k].at \notin {"calls", "notFound", "dead"} => job'[k].todo = <<>>
    BY <1>1 DEF ImportInv, Types
  <2> QED
    BY <1>1, <1>2, <2>1 DEF ImportInv, Types
<1>4. \A k \in Importers : k \in Importers' /\ job'[k].show = job[k].show
  BY <1>1 DEF Importers, Early
<1>5. \A k \in Jobs : Follows(k)'
  <2> SUFFICES ASSUME NEW k \in Jobs PROVE Follows(k)'
    OBVIOUS
  <2>1. CASE k = j
    BY <2>1, <1>1 DEF Follows
  <2>2. CASE k # j
    BY <2>2, <1>1, <1>2, FollowsStays DEF ImportInv
  <2> QED
    BY <2>1, <2>2
<1> QED
  BY <1>2, <1>3, <1>4, <1>5, Keeps

(* A job that goes to another place keeps all else. *)
Moved(j, to, todo) == [job[j] EXCEPT !.at = to, !.todo = todo]

LEMMA MovedType ==
    ASSUME Types, NEW j \in Jobs, NEW to \in {"new"} \cup Running \cup Ended,
           NEW todo \in Seq(CallSet)
    PROVE  /\ Moved(j, to, todo) \in JobSet
           /\ Moved(j, to, todo).at = to /\ Moved(j, to, todo).todo = todo
           /\ Moved(j, to, todo).show = job[j].show
<1>1. job[j] \in JobSet
  BY DEF Types
<1> QED
  BY <1>1 DEF Moved, JobSet

LEMMA Going ==
    ASSUME Types, NEW j \in Jobs, NEW to, job' = [job EXCEPT ![j].at = to]
    PROVE  job' = [job EXCEPT ![j] = Moved(j, to, job[j].todo)]
<1>1. job \in [Jobs -> JobSet] /\ job[j] \in JobSet
  BY DEF Types
<1>2. [job[j] EXCEPT !.at = to] = Moved(j, to, job[j].todo)
  BY <1>1 DEF JobSet, Moved
<1> QED
  BY <1>1, <1>2

(* A job that goes on without calls, to any place where there are none. *)
LEMMA QuietGoing ==
    ASSUME ImportInv, NEW j \in Jobs, NEW to \in Early \cup {"notFound", "failed", "skipped"},
           job[j].at \in Early, Goes(j, to), UNCHANGED <<world, account, stores>>
    PROVE  ImportInv'
<1>1. /\ Types /\ job[j].todo = <<>> /\ <<>> \in Seq(CallSet)
      /\ to \in {"new"} \cup Running \cup Ended
      /\ to \notin {"calls", "recordRedis", "added"}
  BY DEF ImportInv, Types, Early, Running, Ended
<1> DEFINE new == Moved(j, to, <<>>)
<1>2. new \in JobSet /\ new.at = to /\ new.todo = <<>>
  <2>1. \A todo \in Seq(CallSet) :
            Moved(j, to, todo) \in JobSet /\ Moved(j, to, todo).at = to
                /\ Moved(j, to, todo).todo = todo
    BY <1>1, MovedType
  <2> QED
    BY <1>1, <2>1
<1>3. job' = [job EXCEPT ![j] = new]
  <2>1. job' = [job EXCEPT ![j] = Moved(j, to, job[j].todo)]
    BY <1>1, Going DEF Goes
  <2> QED
    BY <1>1, <2>1
<1> HIDE DEF new
<1> QED
  BY <1>1, <1>2, <1>3, Quiet

(* A job that makes its calls, or has made them: what it goes on to do is no *)
(* more than what is left.                                                   *)
LEMMA Calling ==
    ASSUME ImportInv, NEW j \in Jobs, NEW new \in JobSet,
           job[j].at \in {"calls", "recordRedis"}, new.show = job[j].show,
           new.at \in {"calls", "recordRedis", "added", "notFound"},
           new.at \notin {"calls", "notFound"} => new.todo = <<>>,
           job' = [job EXCEPT ![j] = new], UNCHANGED world,
           db' \subseteq {This, Other}, redis' \subseteq {This, Other},
           account \subseteq account', account' \subseteq account \cup Wanted(sz, job[j].show),
           account' \subseteq EntrySet, Follows(j)',
           This \in (db' \cup redis') \ (db \cup redis) => WholeFor(j)',
           Dropped \in account' \ account => WholeFor(j)'
    PROVE  ImportInv'
<1>1. /\ job \in [Jobs -> JobSet]
      /\ job'[j] = new /\ \A k \in Jobs \ {j} : job'[k] = job[k]
      /\ job' \in [Jobs -> JobSet]
  BY DEF ImportInv, Types
<1>2. UNCHANGED <<tv, sz, changes>>
  BY DEF world
<1>3. Types'
  <2>1. \A k \in Jobs : job'[k].at \notin {"calls", "notFound", "dead"} => job'[k].todo = <<>>
    BY <1>1 DEF ImportInv, Types
  <2> QED
    BY <1>1, <1>2, <2>1 DEF ImportInv, Types
<1>4. /\ \A k \in Importers : k \in Importers' /\ job'[k].show = job[k].show
      /\ j \in Importers' /\ job'[j].show = job[j].show
  BY <1>1 DEF Importers
<1>5. \A k \in Jobs : Follows(k)'
  <2> SUFFICES ASSUME NEW k \in Jobs PROVE Follows(k)'
    OBVIOUS
  <2>1. CASE k # j
    BY <2>1, <1>1, <1>2, FollowsStays DEF ImportInv
  <2> QED
    BY <2>1
<1>6. \A w \in account' \ account : \E k \in Importers' : w \in Wanted(sz', job'[k].show)
  BY <1>2, <1>4
<1>7. Dropped \in account' \ account =>
          \E k \in Importers' : job'[k].show.status = "stopped" /\ WholeFor(k)'
  <2>1. Dropped \in account' \ account => job[j].show.status = "stopped"
    BY DroppedIsStopped
  <2> QED
    BY <2>1, <1>4
<1> QED
  BY <1>2, <1>3, <1>4, <1>5, <1>6, <1>7, Keeps

LEMMA EntriesType ==
    ASSUME NEW c \in CallSet
    PROVE  /\ Entries(c) \subseteq EntrySet
           /\ CallsNothing(c) => Entries(c) = {}
<1>1. c.op \in CallOps /\ c.seasons \subseteq Int /\ c.episodes \subseteq Int
  BY DEF CallSet
<1>2. \A kind \in CallOps, id, n \in Int : Entry(kind, id, n) \in EntrySet
  BY DEF Entry, EntrySet
<1>3. CASE c.op \in {"watching", "dropped"}
  <2>1. Entries(c) = {Entry(c.op, 0, 0)} /\ ~CallsNothing(c)
    BY <1>3 DEF Entries, CallsNothing
  <2> QED
    BY <1>1, <1>2, <2>1
<1>4. CASE c.op \in {"watchlist", "watched"}
  <2>1. Entries(c) = {Entry(c.op, id, 0) : id \in c.seasons} /\ ~CallsNothing(c)
    BY <1>4 DEF Entries, CallsNothing
  <2> QED
    BY <1>1, <1>2, <2>1
<1>5. CASE c.op = "log"
  <2>1. Entries(c) = {Entry("log", id, n) : id \in c.seasons, n \in c.episodes}
    BY <1>5 DEF Entries
  <2> QED
    BY <1>1, <1>2, <1>5, <2>1 DEF CallsNothing
<1> QED
  BY <1>1, <1>3, <1>4, <1>5 DEF CallOps

(* The next call of a job, and what is left of its calls. *)
LEMMA NextCall ==
    ASSUME ImportInv, NEW j \in Jobs, Looping(j)
    PROVE  LET call == Head(job[j].todo)
               rest == Tail(job[j].todo)
           IN  /\ Types /\ job[j].at = "calls"
               /\ call \in CallSet /\ rest \in Seq(CallSet)
               /\ Entries(call) \subseteq EntrySet
               /\ Entries(call) \cup Effect(rest) \subseteq Wanted(sz, job[j].show)
               /\ Wanted(sz, job[j].show) \subseteq account \cup Entries(call) \cup Effect(rest)
               /\ DroppedLast(rest)
               /\ Dropped \in Entries(call) => Effect(rest) = {}
<1>1. Types /\ job[j].at = "calls" /\ job[j].todo # <<>> /\ Follows(j)
  BY DEF Looping, ImportInv
<1>2. job[j].todo \in Seq(CallSet)
  BY <1>1 DEF Types, JobSet
<1>3. /\ Head(job[j].todo) \in CallSet /\ Tail(job[j].todo) \in Seq(CallSet)
      /\ Effect(job[j].todo) = Entries(Head(job[j].todo)) \cup Effect(Tail(job[j].todo))
  BY <1>1, <1>2, EffectOfHead
<1>4. /\ DroppedLast(Tail(job[j].todo))
      /\ Dropped \in Entries(Head(job[j].todo)) => Tail(job[j].todo) = <<>>
  BY <1>1, <1>2, DroppedStaysLast DEF Follows
<1> QED
  BY <1>1, <1>3, <1>4, EntriesType, EffectOfNone DEF Follows

LEMMA CallDoneInv ==
    ASSUME ImportInv, NEW j \in Jobs, CallDone(j)
    PROVE  ImportInv'
<1> DEFINE call == Head(job[j].todo)
           rest == Tail(job[j].todo)
           new == Moved(j, "calls", rest)
<1>1. /\ Looping(j) /\ account' = account \cup Entries(call)
      /\ job' = [job EXCEPT ![j].todo = rest]
      /\ UNCHANGED <<world, db, redis>>
  BY DEF CallDone, Called, stores
<1>2. /\ Types /\ job[j].at = "calls" /\ rest \in Seq(CallSet)
      /\ Entries(call) \subseteq EntrySet
      /\ Entries(call) \cup Effect(rest) \subseteq Wanted(sz, job[j].show)
      /\ Wanted(sz, job[j].show) \subseteq account \cup Entries(call) \cup Effect(rest)
      /\ DroppedLast(rest)
      /\ Dropped \in Entries(call) => Effect(rest) = {}
  BY <1>1, NextCall
<1>3. /\ new \in JobSet /\ new.at = "calls" /\ new.todo = rest /\ new.show = job[j].show
      /\ job' = [job EXCEPT ![j] = new]
  <2>1. job \in [Jobs -> JobSet] /\ job[j] \in JobSet
    BY <1>2 DEF Types
  <2>2. [job[j] EXCEPT !.todo = rest] = new
    BY <1>2, <2>1 DEF JobSet, Moved
  <2>3. "calls" \in {"new"} \cup Running \cup Ended
    BY DEF Running
  <2> HIDE DEF rest
  <2>4. new \in JobSet /\ new.at = "calls" /\ new.todo = rest /\ new.show = job[j].show
    BY <1>2, <2>3, MovedType
  <2> QED
    BY <1>1, <2>1, <2>2, <2>4
<1> HIDE DEF call, rest, new
<1>4. job'[j] = new /\ sz' = sz
  BY <1>1, <1>2, <1>3 DEF Types, world
<1>5. Follows(j)'
  BY <1>1, <1>2, <1>3, <1>4 DEF Follows
<1>6. Dropped \in Entries(call) => WholeFor(j)'
  BY <1>1, <1>2, <1>3, <1>4 DEF WholeFor
<1>7. /\ account' \subseteq EntrySet /\ account \subseteq account'
      /\ account' \subseteq account \cup Wanted(sz, job[j].show)
      /\ db' \subseteq {This, Other} /\ redis' \subseteq {This, Other}
  BY <1>1, <1>2 DEF Types
<1> QED
  BY <1>1, <1>2, <1>3, <1>5, <1>6, <1>7, Calling

LEMMA ReadLibraryInv ==
    ASSUME ImportInv, NEW j \in Jobs, ReadLibrary(j)
    PROVE  ImportInv'
<1>1. PICK found \in BOOLEAN : job' = [job EXCEPT ![j].at = "library", ![j].listed = found]
  BY DEF ReadLibrary, ListedIn
<1> DEFINE new == [job[j] EXCEPT !.at = "library", !.listed = found]
<1>2. job \in [Jobs -> JobSet] /\ job[j] \in JobSet /\ job[j].at = "gathered" /\ job[j].todo = <<>>
  BY DEF ReadLibrary, ImportInv, Types
<1>3. new \in JobSet /\ new.at = "library" /\ new.todo = <<>>
  BY <1>2 DEF JobSet, Running
<1>4. job' = [job EXCEPT ![j] = new]
  BY <1>1, <1>2
<1>5. job[j].at \in Early /\ UNCHANGED <<world, account, stores>>
  BY <1>2 DEF ReadLibrary, Early
<1> HIDE DEF new
<1> QED
  BY <1>3, <1>4, <1>5, Quiet

LEMMA GatherInv ==
    ASSUME ImportInv, NEW j \in Jobs, Gather(j)
    PROVE  ImportInv'
<1> DEFINE new == [job[j] EXCEPT !.at = "gathered", !.show = tv]
<1>1. /\ job \in [Jobs -> JobSet] /\ job[j] \in JobSet /\ tv \in ShowSet
      /\ job[j].at = "new" /\ job[j].todo = <<>>
  BY DEF Gather, ImportInv, Types
<1>2. new \in JobSet /\ new.at = "gathered" /\ new.todo = <<>>
  BY <1>1 DEF JobSet, Running
<1>3. job' = [job EXCEPT ![j] = new]
  BY <1>1 DEF Gather
<1>4. job[j].at \in Early /\ UNCHANGED <<world, account, stores>>
  BY <1>1 DEF Gather, Early
<1> HIDE DEF new
<1> QED
  BY <1>2, <1>3, <1>4, Quiet

LEMMA ClassifyInv ==
    ASSUME ImportInv, NEW j \in Jobs, NEW imported, Classify(j, imported),
           job[j].at \in Early, UNCHANGED <<world, account, stores>>
    PROVE  ImportInv'
<1>1. PICK to \in {"skipped", "pending"} : Goes(j, to)
  BY DEF Classify
<1>2. to \in Early \cup {"notFound", "failed", "skipped"}
  BY DEF Early
<1> QED
  BY <1>1, <1>2, QuietGoing

(* The steps of a job before its calls. *)
LEMMA EarlyInv ==
    ASSUME ImportInv, NEW j \in Jobs,
           \/ Gather(j) \/ ReadLibrary(j) \/ ReadLibraryFails(j)
           \/ previouslyImportedRedis(j) \/ previouslyImportedDB(j) \/ GetShowFails(j)
    PROVE  ImportInv'
<1>1. CASE Gather(j)
  BY <1>1, GatherInv
<1>2. CASE ReadLibrary(j)
  BY <1>2, ReadLibraryInv
<1>3. CASE ReadLibraryFails(j)
  BY <1>3, QuietGoing DEF ReadLibraryFails, Early
<1>4. CASE previouslyImportedRedis(j)
  <2>1. job[j].at \in Early /\ UNCHANGED <<world, account, stores>>
    BY <1>4 DEF previouslyImportedRedis, Early
  <2>2. Classify(j, redis) \/ Classify(j, {}) \/ Goes(j, "database")
    BY <1>4 DEF previouslyImportedRedis
  <2>3. "database" \in Early
    BY DEF Early
  <2> QED
    BY <2>1, <2>2, <2>3, ClassifyInv, QuietGoing
<1>5. CASE previouslyImportedDB(j)
  <2>1. job[j].at \in Early /\ UNCHANGED <<world, account, stores>>
    BY <1>5 DEF previouslyImportedDB, Early
  <2>2. Classify(j, db) \/ Classify(j, {})
    BY <1>5 DEF previouslyImportedDB
  <2> QED
    BY <2>1, <2>2, ClassifyInv
<1>6. CASE GetShowFails(j)
  BY <1>6, QuietGoing DEF GetShowFails, Early
<1> QED
  BY <1>1, <1>2, <1>3, <1>4, <1>5, <1>6

(* All that an import wants is to do when it begins. *)
LEMMA GetShowInv ==
    ASSUME ImportInv, NEW j \in Jobs, GetShow(j)
    PROVE  ImportInv'
<1> DEFINE todo == Calls(sz, job[j].show)
           new == Moved(j, "calls", todo)
<1>1. /\ Types /\ job \in [Jobs -> JobSet] /\ job[j] \in JobSet
      /\ job[j].at = "pending" /\ sz \in Seq(Season) /\ job[j].show \in ShowSet
  BY DEF GetShow, ImportInv, Types, JobSet
<1>2. todo \in Seq(CallSet) /\ Effect(todo) = Wanted(sz, job[j].show) /\ DroppedLast(todo)
  BY <1>1, ShowsAreShows, CallsDoWhatIsWanted
<1>3. "calls" \in {"new"} \cup Running \cup Ended
  BY DEF Running
<1>4. [job[j] EXCEPT !.at = "calls", !.todo = todo] = new
  BY DEF Moved
<1>5. job' = [job EXCEPT ![j] = new]
  BY <1>1, <1>4 DEF GetShow
<1> HIDE DEF todo
<1>6. new \in JobSet /\ new.at = "calls" /\ new.todo = todo /\ new.show = job[j].show
  BY <1>1, <1>2, <1>3, MovedType
<1> HIDE DEF new
<1>7. /\ job'[j] = new /\ \A k \in Jobs \ {j} : job'[k] = job[k]
      /\ job' \in [Jobs -> JobSet]
  BY <1>1, <1>5, <1>6
<1>8. UNCHANGED <<tv, sz, changes, account, db, redis>>
  BY DEF GetShow, world, stores
<1>9. Types'
  <2>1. \A k \in Jobs : job'[k].at \notin {"calls", "notFound", "dead"} => job'[k].todo = <<>>
    BY <1>1, <1>6, <1>7 DEF Types
  <2> QED
    BY <1>1, <1>7, <1>8, <2>1 DEF Types
<1>10. \A k \in Importers : k \in Importers' /\ job'[k].show = job[k].show
  BY <1>1, <1>7 DEF Importers
<1>11. \A k \in Jobs : Follows(k)'
  <2> SUFFICES ASSUME NEW k \in Jobs PROVE Follows(k)'
    OBVIOUS
  <2>1. CASE k = j
    BY <2>1, <1>2, <1>6, <1>7, <1>8 DEF Follows
  <2>2. CASE k # j
    BY <2>2, <1>7, <1>8, FollowsStays DEF ImportInv
  <2> QED
    BY <2>1, <2>2
<1> QED
  BY <1>8, <1>9, <1>10, <1>11, Keeps

LEMMA ContinueInv ==
    ASSUME ImportInv, NEW j \in Jobs, Continue(j)
    PROVE  ImportInv'
<1> DEFINE call == Head(job[j].todo)
           rest == Tail(job[j].todo)
           new == Moved(j, "calls", rest)
<1>1. /\ Looping(j) /\ CallsNothing(call)
      /\ job' = [job EXCEPT ![j].todo = rest]
      /\ UNCHANGED <<world, account, db, redis>>
  BY DEF Continue, stores
<1>2. /\ Types /\ job[j].at = "calls" /\ call \in CallSet /\ rest \in Seq(CallSet)
      /\ Entries(call) \cup Effect(rest) \subseteq Wanted(sz, job[j].show)
      /\ Wanted(sz, job[j].show) \subseteq account \cup Entries(call) \cup Effect(rest)
      /\ DroppedLast(rest)
  BY <1>1, NextCall
<1>3. /\ new \in JobSet /\ new.at = "calls" /\ new.todo = rest /\ new.show = job[j].show
      /\ job' = [job EXCEPT ![j] = new]
  <2>1. job \in [Jobs -> JobSet] /\ job[j] \in JobSet
    BY <1>2 DEF Types
  <2>2. [job[j] EXCEPT !.todo = rest] = new
    BY <1>2, <2>1 DEF JobSet, Moved
  <2>3. "calls" \in {"new"} \cup Running \cup Ended
    BY DEF Running
  <2> HIDE DEF rest
  <2>4. new \in JobSet /\ new.at = "calls" /\ new.todo = rest /\ new.show = job[j].show
    BY <1>2, <2>3, MovedType
  <2> QED
    BY <1>1, <2>1, <2>2, <2>4
<1> HIDE DEF call, rest, new
<1>4. job'[j] = new /\ sz' = sz
  BY <1>1, <1>2, <1>3 DEF Types, world
<1>5. Entries(call) = {}
  BY <1>1, <1>2, EntriesType
<1>6. Follows(j)'
  BY <1>1, <1>2, <1>3, <1>4, <1>5 DEF Follows
<1>7. /\ account' \subseteq EntrySet /\ account' = account
      /\ db' \subseteq {This, Other} /\ redis' \subseteq {This, Other}
  BY <1>1, <1>2 DEF Types
<1> QED
  BY <1>1, <1>2, <1>3, <1>6, <1>7, Calling

LEMMA CallFailsInv ==
    ASSUME ImportInv, NEW j \in Jobs, CallFails(j)
    PROVE  ImportInv'
<1> DEFINE call == Head(job[j].todo)
           rest == Tail(job[j].todo)
           new == Moved(j, "notFound", job[j].todo)
<1>1. /\ Looping(j) /\ account \subseteq account' /\ account' \subseteq account \cup Entries(call)
      /\ account' # account => account' = account \cup Entries(call)
      /\ job' = [job EXCEPT ![j].at = "notFound"]
      /\ UNCHANGED <<world, db, redis>>
  BY DEF CallFails, Called, stores, Goes
<1>2. /\ Types /\ job[j].at = "calls"
      /\ Entries(call) \subseteq EntrySet
      /\ Entries(call) \cup Effect(rest) \subseteq Wanted(sz, job[j].show)
      /\ Wanted(sz, job[j].show) \subseteq account \cup Entries(call) \cup Effect(rest)
      /\ Dropped \in Entries(call) => Effect(rest) = {}
  BY <1>1, NextCall
<1>3. new \in JobSet /\ new.at = "notFound" /\ new.show = job[j].show
  <2>1. job[j] \in JobSet
    BY <1>2 DEF Types
  <2> QED
    BY <2>1 DEF Moved, JobSet, Ended
<1>4. job' = [job EXCEPT ![j] = new]
  BY <1>1, <1>2, Going
<1> HIDE DEF call, rest, new
<1>5. job'[j] = new /\ sz' = sz
  BY <1>1, <1>2, <1>4 DEF Types, world
<1>6. Follows(j)'
  BY <1>3, <1>5 DEF Follows
<1>7. Dropped \in account' \ account => WholeFor(j)'
  BY <1>1, <1>2, <1>3, <1>5 DEF WholeFor
<1>8. /\ account' \subseteq EntrySet /\ account' \subseteq account \cup Wanted(sz, job[j].show)
      /\ db' \subseteq {This, Other} /\ redis' \subseteq {This, Other}
  BY <1>1, <1>2 DEF Types
<1> QED
  BY <1>1, <1>2, <1>3, <1>4, <1>6, <1>7, <1>8, Calling

(* A job whose calls are all made has all it wants on the account. *)
LEMMA RecordDBInv ==
    ASSUME ImportInv, NEW j \in Jobs, RecordDB(j)
    PROVE  ImportInv'
<1> DEFINE new == Moved(j, "recordRedis", job[j].todo)
<1>1. /\ job[j].at = "calls" /\ job[j].todo = <<>>
      /\ db' \subseteq db \cup {This} /\ redis' = redis
      /\ job' = [job EXCEPT ![j].at = "recordRedis"]
      /\ UNCHANGED <<world, account>>
  BY DEF RecordDB, Goes
<1>2. Types /\ job \in [Jobs -> JobSet] /\ job[j] \in JobSet
  BY DEF ImportInv, Types
<1>3. new \in JobSet /\ new.at = "recordRedis" /\ new.show = job[j].show /\ new.todo = <<>>
  BY <1>1, <1>2 DEF Moved, JobSet, Running
<1>4. job' = [job EXCEPT ![j] = new]
  BY <1>1, <1>2, Going
<1> HIDE DEF new
<1>5. job'[j] = new /\ sz' = sz
  BY <1>1, <1>2, <1>4 DEF world
<1>6. WholeFor(j)'
  <2>1. Wanted(sz, job[j].show) \subseteq account \cup Effect(<<>>)
    BY <1>1 DEF ImportInv, Follows
  <2> QED
    BY <1>1, <1>3, <1>5, <2>1, EffectOfNone DEF WholeFor
<1>7. Follows(j)'
  BY <1>3, <1>5, <1>6 DEF Follows
<1>8. /\ account' \subseteq EntrySet /\ account' = account
      /\ db' \subseteq {This, Other} /\ redis' \subseteq {This, Other}
  BY <1>1, <1>2 DEF Types
<1> QED
  BY <1>1, <1>3, <1>4, <1>6, <1>7, <1>8, Calling

LEMMA RecordRedisInv ==
    ASSUME ImportInv, NEW j \in Jobs, RecordRedis(j)
    PROVE  ImportInv'
<1> DEFINE new == Moved(j, "added", job[j].todo)
<1>1. /\ job[j].at = "recordRedis"
      /\ redis' \subseteq redis \cup {This} /\ db' = db
      /\ job' = [job EXCEPT ![j].at = "added"]
      /\ UNCHANGED <<world, account>>
  BY DEF RecordRedis, Goes
<1>2. Types /\ job \in [Jobs -> JobSet] /\ job[j] \in JobSet /\ job[j].todo = <<>>
  BY <1>1 DEF ImportInv, Types
<1>3. new \in JobSet /\ new.at = "added" /\ new.show = job[j].show /\ new.todo = <<>>
  BY <1>1, <1>2 DEF Moved, JobSet, Ended
<1>4. job' = [job EXCEPT ![j] = new]
  BY <1>1, <1>2, Going
<1> HIDE DEF new
<1>5. job'[j] = new /\ sz' = sz
  BY <1>1, <1>2, <1>4 DEF world
<1>6. WholeFor(j)'
  BY <1>1, <1>3, <1>5 DEF ImportInv, Follows, WholeFor
<1>7. Follows(j)'
  BY <1>3, <1>5, <1>6 DEF Follows
<1>8. /\ account' \subseteq EntrySet /\ account' = account
      /\ db' \subseteq {This, Other} /\ redis' \subseteq {This, Other}
  BY <1>1, <1>2 DEF Types
<1> QED
  BY <1>1, <1>3, <1>4, <1>6, <1>7, <1>8, Calling

(* What happens around the jobs: they stay where they are, and neither store *)
(* learns of the show.                                                       *)
LEMMA Around ==
    ASSUME ImportInv, UNCHANGED <<job, sz, account>>,
           tv' \in ShowSet, changes' \in 0..MaxChanges,
           db' \subseteq db \cup {Other}, redis' \subseteq redis \cup {Other}
    PROVE  ImportInv'
<1>1. Types'
  BY DEF ImportInv, Types
<1>2. Importers' = Importers /\ \A j \in Jobs : job'[j] = job[j]
  BY DEF Importers
<1>3. \A j \in Jobs : Follows(j)'
  BY <1>2, FollowsStays DEF ImportInv
<1>4. This \notin (db' \cup redis') \ (db \cup redis)
  BY AccountAssumption
<1> QED
  BY <1>1, <1>2, <1>3, <1>4, Keeps

LEMMA WatchInv ==
    ASSUME ImportInv, Watch
    PROVE  ImportInv'
<1>1. PICK n \in DOMAIN tv.seasons : \E e \in tv.seasons[n] :
          tv' = [tv EXCEPT !.seasons[n] = (@ \ {e}) \cup {[e EXCEPT !.watched = TRUE]}]
  BY DEF Watch
<1>2. PICK e \in tv.seasons[n] :
          tv' = [tv EXCEPT !.seasons[n] = (@ \ {e}) \cup {[e EXCEPT !.watched = TRUE]}]
  BY <1>1
<1>3. tv \in ShowSet /\ changes \in 0..MaxChanges
  BY DEF ImportInv, Types
<1>4. PICK D \in SUBSET Int : tv.seasons \in [D -> SUBSET Episode] /\ tv.status \in Statuses
  BY <1>3 DEF ShowSet
<1> DEFINE watched == (tv.seasons[n] \ {e}) \cup {[e EXCEPT !.watched = TRUE]}
           seasons == [tv.seasons EXCEPT ![n] = watched]
<1>5. watched \in SUBSET Episode
  <2>1. n \in D /\ tv.seasons[n] \in SUBSET Episode /\ e \in Episode
    BY <1>4
  <2>2. [e EXCEPT !.watched = TRUE] \in Episode
    BY <2>1 DEF Episode
  <2> QED
    BY <2>1, <2>2
<1>6. seasons \in [D -> SUBSET Episode]
  BY <1>4, <1>5
<1>7. tv' = [tv EXCEPT !.seasons = seasons]
  BY <1>2
<1> HIDE DEF watched, seasons
<1>8. tv' \in ShowSet
  BY <1>3, <1>4, <1>6, <1>7 DEF ShowSet
<1>9. /\ changes' \in 0..MaxChanges /\ UNCHANGED <<job, sz, account, db, redis>>
  BY <1>3, AccountAssumption DEF Watch, stores
<1> QED
  BY <1>8, <1>9, Around

LEMMA ChangeStatusInv ==
    ASSUME ImportInv, ChangeStatus
    PROVE  ImportInv'
<1>1. PICK s \in Statuses : tv' = [tv EXCEPT !.status = s]
  BY DEF ChangeStatus
<1>2. tv \in ShowSet /\ changes \in 0..MaxChanges
  BY DEF ImportInv, Types
<1>3. tv' \in ShowSet
  BY <1>1, <1>2 DEF ShowSet
<1>4. changes' \in 0..MaxChanges /\ UNCHANGED <<job, sz, account, db, redis>>
  BY <1>2, AccountAssumption DEF ChangeStatus, stores
<1> QED
  BY <1>3, <1>4, Around

(* A job that dies leaves what it has put on the account, as one whose call  *)
(* failed does.                                                              *)
LEMMA CrashInv ==
    ASSUME ImportInv, Crash
    PROVE  ImportInv'
<1>1. /\ Types /\ job \in [Jobs -> JobSet]
      /\ UNCHANGED <<tv, sz, changes, account, db, redis>>
  BY DEF Crash, world, stores, ImportInv, Types
<1>2. ASSUME NEW j \in Jobs
      PROVE  /\ job'[j] \in JobSet /\ job'[j].show = job[j].show
             /\ job'[j] = job[j] \/ job'[j].at = "dead"
             /\ job[j].at \in Running => job'[j].at = "dead"
  BY <1>1 DEF Crash, JobSet, Ended
<1>3. job' \in [Jobs -> JobSet]
  <2>1. job' = [j \in Jobs |-> job'[j]]
    BY DEF Crash
  <2> QED
    BY <1>2, <2>1
<1>4. Types'
  <2>1. \A j \in Jobs : job'[j].at \notin {"calls", "notFound", "dead"} => job'[j].todo = <<>>
    BY <1>1, <1>2 DEF Types
  <2> QED
    BY <1>1, <1>3, <2>1 DEF Types
<1>5. \A j \in Importers : j \in Importers' /\ job'[j].show = job[j].show
  BY <1>2 DEF Importers
<1>6. \A j \in Jobs : Follows(j)'
  <2> SUFFICES ASSUME NEW j \in Jobs PROVE Follows(j)'
    OBVIOUS
  <2>1. CASE job'[j].at = "dead"
    BY <2>1 DEF Follows
  <2>2. CASE job'[j] = job[j]
    BY <1>1, <2>2, FollowsStays DEF ImportInv
  <2> QED
    BY <1>2, <2>1, <2>2
<1> QED
  BY <1>1, <1>4, <1>5, <1>6, Keeps

LEMMA StepInv == ImportInv /\ [Next]_vars => ImportInv'
<1> SUFFICES ASSUME ImportInv, [Next]_vars PROVE ImportInv'
  OBVIOUS
<1>1. ASSUME NEW j \in Jobs,
             \/ Gather(j) \/ ReadLibrary(j) \/ ReadLibraryFails(j)
             \/ previouslyImportedRedis(j) \/ previouslyImportedDB(j) \/ GetShowFails(j)
      PROVE  ImportInv'
  BY <1>1, EarlyInv
<1>2. ASSUME NEW j \in Jobs, GetShow(j) PROVE ImportInv'
  BY <1>2, GetShowInv
<1>3. ASSUME NEW j \in Jobs, Continue(j) PROVE ImportInv'
  BY <1>3, ContinueInv
<1>4. ASSUME NEW j \in Jobs, CallDone(j) PROVE ImportInv'
  BY <1>4, CallDoneInv
<1>5. ASSUME NEW j \in Jobs, CallFails(j) PROVE ImportInv'
  BY <1>5, CallFailsInv
<1>6. ASSUME NEW j \in Jobs, RecordDB(j) PROVE ImportInv'
  BY <1>6, RecordDBInv
<1>7. ASSUME NEW j \in Jobs, RecordRedis(j) PROVE ImportInv'
  BY <1>7, RecordRedisInv
<1>8. CASE RecordOther \/ RedisLost
  <2>1. /\ UNCHANGED <<job, tv, sz, changes, account>>
        /\ db' \subseteq db \cup {Other} /\ redis' \subseteq redis \cup {Other}
    BY <1>8 DEF RecordOther, RedisLost, world
  <2> QED
    BY <2>1, Around DEF ImportInv, Types
<1>9. CASE Crash
  BY <1>9, CrashInv
<1>10. CASE Watch
  BY <1>10, WatchInv
<1>11. CASE ChangeStatus
  BY <1>11, ChangeStatusInv
<1>12. CASE UNCHANGED vars
  <2>1. UNCHANGED <<job, tv, sz, changes, account, db, redis>>
    BY <1>12 DEF vars, world, stores
  <2> QED
    BY <2>1, Around DEF ImportInv, Types
<1> QED
  BY <1>1, <1>2, <1>3, <1>4, <1>5, <1>6, <1>7, <1>8, <1>9, <1>10, <1>11, <1>12 DEF Next

--------------------------------------------------------------------------------
(* The theorems *)

(* At every moment an import under way (ImportTVTimeShow) has what it wants  *)
(* on the account or still among its calls, calls for nothing else, and      *)
(* drops the show last.                                                      *)
THEOREM ImportsFollowTheirCalls == Spec => []ImportInv
<1> QED
  BY InitInv, StepInv, PTL DEF Spec

(* Episodes are logged under numbers from 1 on (trackableEpisodes).          *)
LEMMA WantedEpisodes ==
    ASSUME NEW t, IsShow(t), NEW sq \in Seq(Season)
    PROVE  \A w \in Wanted(sq, t) : w.episode \in Nat
<1>1. \A s \in ToSet(sq) : \A e \in EpisodesOf(t, s) : e.number \in Nat
  BY DEF EpisodesOf, IsShow, Episode
<1>2. \A w \in WantedLogs(sq, t) : w.episode \in Nat
  BY <1>1 DEF WantedLogs, Entry
<1>3. \A kind, S : \A w \in WantedOf(kind, S) : w.episode \in Nat
  BY DEF WantedOf, Entry
<1>4. \A kind : Entry(kind, 0, 0).episode \in Nat
  BY DEF Entry
<1> QED
  BY <1>2, <1>3, <1>4 DEF Wanted

LEMMA InvTypeOK == ImportInv => TypeOK
<1> SUFFICES ASSUME ImportInv PROVE TypeOK
  OBVIOUS
<1>1. Types /\ OfSomeImport
  BY DEF ImportInv
<1>2. \A j \in Jobs : job[j].show \in ShowSet /\ IsShow(job[j].show)
  BY <1>1, ShowsAreShows DEF Types, JobSet
<1>3. \A w \in account : w.episode \in Nat
  <2> SUFFICES ASSUME NEW w \in account PROVE w.episode \in Nat
    OBVIOUS
  <2>1. PICK j \in Jobs : w \in Wanted(sz, job[j].show)
    BY <1>1 DEF OfSomeImport, Importers
  <2> QED
    BY <1>1, <1>2, <2>1, WantedEpisodes DEF Types
<1>4. account \subseteq [kind : {"watchlist", "watching", "watched", "dropped", "log"},
                         season : Int, episode : Nat]
  BY <1>1, <1>3 DEF Types, EntrySet, CallOps
<1>5. \A j \in Jobs : job[j].at \in {"new"} \cup Running \cup Ended /\ job[j].listed \in BOOLEAN
  BY <1>1 DEF Types, JobSet
<1>6. tv.status \in Statuses
  BY <1>1 DEF Types, ShowSet
<1> QED
  BY <1>1, <1>4, <1>5, <1>6 DEF Types, TypeOK

(* Imports that overlap, fail at any call, die or are repeated with another  *)
(* snapshot put on an account nothing that a whole import of one of the      *)
(* snapshots would not put there (ImportTVTimeShow).                         *)
THEOREM NothingBesidesHolds == Spec => []NothingBesides
<1>1. ImportInv => NothingBesides
  BY InvTypeOK DEF ImportInv, OfSomeImport, NothingBesides
<1> QED
  BY <1>1, ImportsFollowTheirCalls, PTL

(* A show counted as added has all of it on the account, and so has some job *)
(* as soon as the database or Redis remembers the show (recordImported): no  *)
(* later migration skips for its sake a show of which a part is missing.     *)
THEOREM ImportedIsWholeHolds == Spec => []ImportedIsWhole
<1>1. ImportInv => ImportedIsWhole
  BY DEF ImportInv, Follows, Remembered, ImportedIsWhole
<1> QED
  BY <1>1, ImportsFollowTheirCalls, PTL

(* A show gets to the dropped list only after all that was watched of it, by *)
(* the calls of some one import (applyStopped calls AddDropped last).        *)
THEOREM DroppedComesLastHolds == Spec => []DroppedComesLast
<1>1. ImportInv => DroppedComesLast
  BY DEF ImportInv
<1> QED
  BY <1>1, ImportsFollowTheirCalls, PTL
================================================================================
