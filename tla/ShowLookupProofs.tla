--------------------------- MODULE ShowLookupProofs ---------------------------
(***************************************************************************)
(* Theorems about ShowLookup, for any number of callers, any TMDB ids and  *)
(* any number of crashes.  The invariant says of each caller what it must  *)
(* hold at its place for what it is told to be true, and of the flight     *)
(* what the sources asked so far have said; the row of shows only grows.   *)
(***************************************************************************)
EXTENDS ShowLookup, TLAPS

Places == {"idle"} \cup Looking \cup Ensuring \cup Ended

CallStates == [at : Places, ensures : BOOLEAN, got : Maybe, known : BOOLEAN, asked : SUBSET Sources]

FlightStates == [at : {"none", "redis", "row", "set", "record", "end"} \cup Sources,
               got : Maybe, asked : SUBSET Sources]

(* What a caller r knows agrees with the place it has come to and with the   *)
(* row of the show.                                                          *)
Fits(r, rowNow) ==
    /\ r.at \in {"fill", "persist", "setID"} => Known(r.got)
    /\ r.at \in {"done"} \cup Ensuring /\ r.got = "none" => r.asked = Sources
    /\ r.known => r.at \notin {"join", "waiting"}
    /\ r.known /\ r.at \in {"redis", "row"} => Known(rowNow)
    /\ r.at \in {"persist", "setID"} => rowNow # "absent"
    /\ r.ensures /\ r.at = "done" => rowNow # "absent" /\ (r.got # "none" => Known(rowNow))

(* The flight has an id, or no source it went to knows one.                  *)
Flown ==
    /\ flight.at = "set" => Known(flight.got)
    /\ flight.at = "tmdb" => "wikidata" \in flight.asked /\ ~Known(memo["wikidata"])
    /\ flight.at = "record" \/ (flight.at = "end" /\ flight.got = "none") =>
          flight.asked = Sources /\ \A s \in Sources : ~Known(memo[s])

LookupInv ==
    /\ TypeOK
    /\ \A c \in Callers : Fits(caller[c], row)
    /\ Flown

--------------------------------------------------------------------------------
(* The words that stand for no id are none.                                  *)
LEMMA NoIDs ==
    /\ ~Known("none") /\ ~Known("zero") /\ ~Known("absent") /\ ~Known("unasked")
    /\ \A r \in Maybe : r # "none" => Known(r)
  BY LookupAssumption DEF Known, Maybe

LEMMA TypesOf ==
    ASSUME TypeOK
    PROVE  /\ redis \in Maybe \cup {"zero"} /\ row \in Maybe \cup {"absent"}
           /\ unresolved \in BOOLEAN /\ memo \in [Sources -> Maybe \cup {"unasked"}]
           /\ flight \in FlightStates /\ caller \in [Callers -> CallStates]
           /\ up \in BOOLEAN /\ crashes \in 0..MaxCrashes
           /\ (flight.at # "none") <=> \E c \in Callers : caller[c].at = "waiting"
  BY DEF TypeOK, FlightStates, CallStates, Places

(* A row that has its id, or is there, is so for good.                       *)
RowGrows == (Known(row) => Known(row')) /\ (row # "absent" => row' # "absent")

LEMMA FitsStill ==
    ASSUME NEW r, RowGrows, Fits(r, row)
    PROVE  Fits(r, row')
  BY DEF RowGrows, Fits

LEMMA InitInv == Init => LookupInv
<1> SUFFICES ASSUME Init PROVE LookupInv
  OBVIOUS
<1>1. NoCall("idle") \in CallStates /\ \A rowNow : Fits(NoCall("idle"), rowNow)
  BY DEF NoCall, CallStates, Places, Maybe, Fits, Ensuring
<1>2. NoFlight \in FlightStates /\ NoFlight.at = "none"
  BY DEF NoFlight, FlightStates, Maybe
<1>3. caller \in [Callers -> CallStates] /\ \A c \in Callers : caller[c] = NoCall("idle")
  BY <1>1 DEF Init
<1>4. memo \in [Sources -> Maybe \cup {"unasked"}]
  BY DEF Init
<1>5. TypeOK
  <2>1. 0 \in 0..MaxCrashes
    BY LookupAssumption
  <2>2. \A c \in Callers : caller[c].at # "waiting"
    BY <1>3 DEF NoCall
  <2> QED
    BY <1>2, <1>3, <1>4, <2>1, <2>2 DEF Init, TypeOK, CallStates, Places, FlightStates, Maybe
<1>6. Flown
  BY <1>2 DEF Init, Flown
<1> QED
  BY <1>1, <1>3, <1>5, <1>6 DEF LookupInv

--------------------------------------------------------------------------------
(* The callers *)

(* A caller goes on, alone, and waits neither before nor after.              *)
LEMMA OneGoesOn ==
    ASSUME LookupInv, NEW c \in Callers, NEW new \in CallStates,
           caller' = [caller EXCEPT ![c] = new], UNCHANGED <<memo, flight, process, unresolved>>,
           redis' \in Maybe \cup {"zero"}, row' \in Maybe \cup {"absent"}, RowGrows,
           caller[c].at # "waiting", new.at # "waiting", Fits(new, row')
    PROVE  LookupInv'
<1>1. /\ TypeOK /\ caller \in [Callers -> CallStates]
      /\ caller'[c] = new /\ \A d \in Callers \ {c} : caller'[d] = caller[d]
      /\ caller' \in [Callers -> CallStates]
  BY TypesOf DEF LookupInv
<1>2. UNCHANGED <<memo, flight, up, crashes, unresolved>>
  BY DEF process
<1>3. TypeOK'
  <2>1. (\E d \in Callers : caller'[d].at = "waiting") <=> (\E d \in Callers : caller[d].at = "waiting")
    BY <1>1
  <2> QED
    BY <1>1, <1>2, <2>1 DEF TypeOK, CallStates, Places
<1>4. \A d \in Callers : Fits(caller'[d], row')
  BY <1>1, FitsStill DEF LookupInv
<1>5. Flown'
  BY <1>2 DEF LookupInv, Flown
<1> QED
  BY <1>3, <1>4, <1>5 DEF LookupInv

LEMMA NoCallFits ==
    ASSUME NEW to \in {"failed", "dead"}
    PROVE  /\ NoCall(to) \in CallStates /\ NoCall(to).at = to
           /\ \A rowNow : Fits(NoCall(to), rowNow)
  BY DEF NoCall, CallStates, Places, Maybe, Fits, Ended, Ensuring

LEMMA FailsInv ==
    ASSUME LookupInv, NEW c \in Callers, Fails(c), caller[c].at # "waiting",
           UNCHANGED <<stored, memo, flight, process>>
    PROVE  LookupInv'
<1> DEFINE new == NoCall("failed")
<1>1. new \in CallStates /\ new.at # "waiting" /\ Fits(new, row')
  BY NoCallFits
<1>2. caller' = [caller EXCEPT ![c] = new]
  BY DEF Fails
<1>3. /\ UNCHANGED <<unresolved>> /\ RowGrows
      /\ redis' \in Maybe \cup {"zero"} /\ row' \in Maybe \cup {"absent"}
  BY DEF stored, LookupInv, TypeOK, RowGrows
<1> HIDE DEF new
<1> QED
  BY <1>1, <1>2, <1>3, OneGoesOn

(* A caller that goes to a place keeps what it has.                          *)
LEMMA Going ==
    ASSUME TypeOK, NEW c \in Callers, NEW to \in Places, Goes(c, to)
    PROVE  LET new == [caller[c] EXCEPT !.at = to]
           IN  /\ caller' = [caller EXCEPT ![c] = new] /\ new \in CallStates
               /\ new.at = to /\ new.ensures = caller[c].ensures /\ new.got = caller[c].got
               /\ new.known = caller[c].known /\ new.asked = caller[c].asked
<1>1. caller \in [Callers -> CallStates] /\ caller[c] \in CallStates
  BY TypesOf
<1> QED
  BY <1>1 DEF Goes, CallStates

LEMMA BeginInv ==
    ASSUME LookupInv, NEW c \in Callers, NEW ensures \in BOOLEAN, Begin(c, ensures)
    PROVE  LookupInv'
<1> DEFINE new == [NoCall("redis") EXCEPT !.ensures = ensures, !.known = Known(row)]
<1>1. Known(row) \in BOOLEAN
  BY DEF Known
<1>2. new \in CallStates /\ new.at # "waiting" /\ Fits(new, row)
  BY <1>1 DEF NoCall, CallStates, Places, Looking, Maybe, Fits, Ensuring
<1>3. caller' = [caller EXCEPT ![c] = new] /\ caller[c].at # "waiting"
  BY DEF Begin
<1>4. /\ UNCHANGED <<row, memo, flight, process, unresolved>> /\ RowGrows
      /\ redis' \in Maybe \cup {"zero"} /\ row' \in Maybe \cup {"absent"}
  BY DEF Begin, stored, LookupInv, TypeOK, RowGrows
<1> HIDE DEF new
<1> QED
  BY <1>2, <1>3, <1>4, OneGoesOn

(* A caller that goes to a place that fits what it has.                      *)
LEMMA GoingFits ==
    ASSUME LookupInv, NEW c \in Callers, NEW to \in Places \ {"waiting"}, Goes(c, to),
           caller[c].at # "waiting", UNCHANGED <<memo, flight, process, unresolved>>,
           redis' \in Maybe \cup {"zero"}, row' \in Maybe \cup {"absent"}, RowGrows,
           Fits([caller[c] EXCEPT !.at = to], row')
    PROVE  LookupInv'
<1> DEFINE new == [caller[c] EXCEPT !.at = to]
<1>1. caller' = [caller EXCEPT ![c] = new] /\ new \in CallStates /\ new.at # "waiting"
  BY Going DEF LookupInv
<1> HIDE DEF new
<1> QED
  BY <1>1, OneGoesOn DEF new

(* After a lookup the place of a caller is one where what it got is used.    *)
LEMMA AfterLookupFits ==
    ASSUME NEW r \in CallStates, NEW to, to = (IF r.ensures THEN "ensure" ELSE "done"),
           NEW got \in Maybe, NEW asked \in SUBSET Sources, NEW rowNow,
           r.known => r.at \notin {"join", "waiting"},
           got = "none" => asked = Sources
    PROVE  LET new == [r EXCEPT !.at = to, !.got = got, !.asked = asked]
           IN  /\ new \in CallStates /\ new.at # "waiting"
               /\ Fits(new, rowNow)
<1>1. to \in {"ensure", "done"} /\ (r.ensures => to = "ensure")
  OBVIOUS
<1> QED
  BY <1>1 DEF CallStates, Places, Ensuring, Ended, Fits

LEMMA CacheGetInv ==
    ASSUME LookupInv, NEW c \in Callers, CacheGet(c)
    PROVE  LookupInv'
<1>1. /\ TypeOK /\ caller \in [Callers -> CallStates] /\ caller[c] \in CallStates
      /\ caller[c].at = "redis" /\ Fits(caller[c], row)
      /\ redis \in Maybe \cup {"zero"} /\ row \in Maybe \cup {"absent"}
  BY TypesOf DEF CacheGet, LookupInv
<1>2. UNCHANGED <<redis, row, memo, flight, process, unresolved>> /\ RowGrows
  BY DEF CacheGet, stored, RowGrows
<1>3. CASE Known(redis) /\ caller' = [caller EXCEPT ![c].at = AfterLookup(c), ![c].got = redis]
  <2> DEFINE new == [caller[c] EXCEPT !.at = AfterLookup(c), !.got = redis, !.asked = @]
  <2>1. redis \in Maybe /\ redis # "none" /\ caller[c].asked \in SUBSET Sources
    BY <1>1, <1>3, NoIDs DEF Known, Maybe, CallStates
  <2>2. new \in CallStates /\ new.at # "waiting" /\ Fits(new, row')
    BY <1>1, <2>1, AfterLookupFits DEF AfterLookup
  <2>3. new = [caller[c] EXCEPT !.at = AfterLookup(c), !.got = redis]
    BY <1>1 DEF CallStates
  <2>4. caller' = [caller EXCEPT ![c] = new]
    BY <1>1, <1>3, <2>3
  <2> HIDE DEF new
  <2> QED
    BY <1>1, <1>2, <2>2, <2>4, OneGoesOn
<1>4. CASE Goes(c, "row")
  <2>1. "row" \in Places \ {"waiting"}
    BY DEF Places, Looking
  <2>2. Fits([caller[c] EXCEPT !.at = "row"], row')
    BY <1>1, <1>2 DEF Fits, CallStates, Ensuring
  <2> QED
    BY <1>1, <1>2, <1>4, <2>1, <2>2, GoingFits
<1> QED
  BY <1>3, <1>4 DEF CacheGet

LEMMA GetByTVDBIDInv ==
    ASSUME LookupInv, NEW c \in Callers, GetByTVDBID(c)
    PROVE  LookupInv'
<1>1. /\ TypeOK /\ caller \in [Callers -> CallStates] /\ caller[c] \in CallStates
      /\ caller[c].at = "row" /\ Fits(caller[c], row)
      /\ redis \in Maybe \cup {"zero"} /\ row \in Maybe \cup {"absent"}
  BY TypesOf DEF GetByTVDBID, LookupInv
<1>2. UNCHANGED <<redis, row, memo, flight, process, unresolved>> /\ RowGrows
  BY DEF GetByTVDBID, stored, RowGrows
<1>3. CASE Known(row) /\ caller' = [caller EXCEPT ![c].at = "fill", ![c].got = row]
  <2> DEFINE new == [caller[c] EXCEPT !.at = "fill", !.got = row]
  <2>1. row \in Maybe
    BY <1>3 DEF Known, Maybe
  <2>2. new \in CallStates /\ new.at # "waiting" /\ Fits(new, row')
    BY <1>1, <1>2, <1>3, <2>1 DEF CallStates, Places, Looking, Fits, Ensuring
  <2>3. caller' = [caller EXCEPT ![c] = new]
    BY <1>1, <1>3
  <2> HIDE DEF new
  <2> QED
    BY <1>1, <1>2, <2>2, <2>3, OneGoesOn
<1>4. CASE ~Known(row) /\ Goes(c, "join")
  <2>1. "join" \in Places \ {"waiting"}
    BY DEF Places, Looking
  <2>2. Fits([caller[c] EXCEPT !.at = "join"], row')
    BY <1>1, <1>2, <1>4 DEF Fits, CallStates, Ensuring
  <2> QED
    BY <1>1, <1>2, <1>4, <2>1, <2>2, GoingFits
<1>5. CASE Fails(c)
  BY <1>1, <1>2, <1>5, FailsInv DEF stored
<1> QED
  BY <1>3, <1>4, <1>5 DEF GetByTVDBID

LEMMA CacheSetInv ==
    ASSUME LookupInv, NEW c \in Callers, CacheSet(c)
    PROVE  LookupInv'
<1>1. /\ TypeOK /\ caller \in [Callers -> CallStates] /\ caller[c] \in CallStates
      /\ caller[c].at = "fill" /\ Fits(caller[c], row)
      /\ redis \in Maybe \cup {"zero"} /\ row \in Maybe \cup {"absent"}
  BY TypesOf DEF CacheSet, LookupInv
<1>2. UNCHANGED <<row, memo, flight, process, unresolved>> /\ RowGrows
  BY DEF CacheSet, RowGrows
<1>3. redis' \in Maybe \cup {"zero"}
  BY <1>1 DEF CacheSet, bestEffortCacheSet, CallStates
<1>4. AfterLookup(c) \in {"ensure", "done"} /\ (caller[c].ensures => AfterLookup(c) = "ensure")
  BY DEF AfterLookup
<1>5. caller[c].got # "none"
  BY <1>1, NoIDs DEF Fits
<1>6. AfterLookup(c) \in Places \ {"waiting"}
  BY <1>4 DEF Places, Ensuring, Ended
<1>7. Fits([caller[c] EXCEPT !.at = AfterLookup(c)], row')
  BY <1>1, <1>2, <1>4, <1>5 DEF Fits, CallStates, Ensuring
<1>8. Goes(c, AfterLookup(c))
  BY DEF CacheSet
<1> QED
  BY <1>1, <1>2, <1>3, <1>6, <1>7, <1>8, GoingFits

LEMMA JoinInv ==
    ASSUME LookupInv, NEW c \in Callers, resolveTMDBIDFlight(c)
    PROVE  LookupInv'
<1> DEFINE new == [caller[c] EXCEPT !.at = "waiting"]
<1>1. /\ TypeOK /\ caller \in [Callers -> CallStates] /\ caller[c] \in CallStates
      /\ caller[c].at = "join" /\ Fits(caller[c], row) /\ flight \in FlightStates
  BY TypesOf DEF resolveTMDBIDFlight, LookupInv
<1>2. UNCHANGED <<redis, row, memo, up, crashes, unresolved>>
  BY DEF resolveTMDBIDFlight, stored, process
<1>3. new \in CallStates /\ new.at = "waiting" /\ Fits(new, row)
  BY <1>1 DEF CallStates, Places, Looking, Fits, Ensuring
<1>4. caller' = [caller EXCEPT ![c] = new]
  BY <1>1 DEF resolveTMDBIDFlight, Goes
<1> HIDE DEF new
<1>5. /\ caller'[c] = new /\ \A d \in Callers \ {c} : caller'[d] = caller[d]
      /\ caller' \in [Callers -> CallStates]
  BY <1>1, <1>3, <1>4
<1>6. /\ flight' \in FlightStates /\ flight'.at # "none"
      /\ flight' = flight \/ flight'.at = "redis"
  BY <1>1 DEF resolveTMDBIDFlight, NoFlight, FlightStates, Maybe
<1>7. TypeOK'
  BY <1>1, <1>2, <1>3, <1>5, <1>6 DEF TypeOK, FlightStates, CallStates, Places
<1>8. Flown'
  BY <1>2, <1>6 DEF LookupInv, Flown
<1> QED
  BY <1>2, <1>3, <1>5, <1>7, <1>8 DEF LookupInv

--------------------------------------------------------------------------------
(* EnsureShow *)

LEMMA AfterRecordFits ==
    ASSUME NEW c \in Callers, caller[c] \in CallStates, caller[c].at \in {"ensure", "upsert"},
           NEW rowNow, rowNow # "absent", Fits(caller[c], row)
    PROVE  /\ AfterRecord(c) \in Places \ {"waiting"}
           /\ Fits([caller[c] EXCEPT !.at = AfterRecord(c)], rowNow)
<1>1. CASE caller[c].got = "none"
  <2>1. AfterRecord(c) = "done"
    BY <1>1 DEF AfterRecord
  <2> QED
    BY <1>1, <2>1 DEF Places, Ended, Ensuring, Fits, CallStates
<1>2. CASE caller[c].got # "none"
  <2>1. AfterRecord(c) = "persist" /\ Known(caller[c].got)
    BY <1>2, NoIDs DEF AfterRecord, CallStates
  <2> QED
    BY <1>2, <2>1 DEF Places, Ensuring, Fits, CallStates
<1> QED
  BY <1>1, <1>2

LEMMA ensureShowRecordInv ==
    ASSUME LookupInv, NEW c \in Callers, ensureShowRecord(c)
    PROVE  LookupInv'
<1>1. /\ TypeOK /\ caller \in [Callers -> CallStates] /\ caller[c] \in CallStates
      /\ caller[c].at = "ensure" /\ Fits(caller[c], row)
      /\ redis \in Maybe \cup {"zero"} /\ row \in Maybe \cup {"absent"}
  BY TypesOf DEF ensureShowRecord, LookupInv
<1>2. UNCHANGED <<redis, row, memo, flight, process, unresolved>> /\ RowGrows
  BY DEF ensureShowRecord, stored, RowGrows
<1>3. CASE row # "absent" /\ Goes(c, AfterRecord(c))
  <2>1. AfterRecord(c) \in Places \ {"waiting"} /\ Fits([caller[c] EXCEPT !.at = AfterRecord(c)], row')
    BY <1>1, <1>2, <1>3, AfterRecordFits
  <2> QED
    BY <1>1, <1>2, <1>3, <2>1, GoingFits
<1>4. CASE Goes(c, "upsert")
  <2>1. "upsert" \in Places \ {"waiting"}
    BY DEF Places, Ensuring
  <2>2. Fits([caller[c] EXCEPT !.at = "upsert"], row')
    BY <1>1 DEF Fits, CallStates, Ensuring
  <2> QED
    BY <1>1, <1>2, <1>4, <2>1, <2>2, GoingFits
<1>5. CASE Fails(c)
  BY <1>1, <1>2, <1>5, FailsInv DEF stored
<1> QED
  BY <1>3, <1>4, <1>5 DEF ensureShowRecord

LEMMA UpsertInv ==
    ASSUME LookupInv, NEW c \in Callers, Upsert(c)
    PROVE  LookupInv'
<1>1. /\ TypeOK /\ caller \in [Callers -> CallStates] /\ caller[c] \in CallStates
      /\ caller[c].at = "upsert" /\ Fits(caller[c], row)
      /\ redis \in Maybe \cup {"zero"} /\ row \in Maybe \cup {"absent"}
  BY TypesOf DEF Upsert, LookupInv
<1>2. UNCHANGED <<redis, memo, flight, process, unresolved>>
  BY DEF Upsert
<1>3. CASE row' = (IF row = "absent" THEN "none" ELSE row) /\ Goes(c, AfterRecord(c))
  <2>1. row' \in Maybe /\ row' # "absent" /\ RowGrows
    BY <1>1, <1>3, NoIDs, LookupAssumption DEF Maybe, RowGrows, Known
  <2>2. AfterRecord(c) \in Places \ {"waiting"} /\ Fits([caller[c] EXCEPT !.at = AfterRecord(c)], row')
    BY <1>1, <2>1, AfterRecordFits
  <2> QED
    BY <1>1, <1>2, <1>3, <2>1, <2>2, GoingFits
<1>4. CASE Fails(c) /\ UNCHANGED row
  BY <1>1, <1>2, <1>4, FailsInv DEF stored
<1> QED
  BY <1>3, <1>4 DEF Upsert

(* A caller that has an id, and finds or leaves one in the row, is done.     *)
LEMMA PersistedInv ==
    ASSUME LookupInv, NEW c \in Callers, caller[c].at \in {"persist", "setID"},
           Goes(c, "done"), row' = caller[c].got,
           UNCHANGED <<redis, memo, flight, process, unresolved>>
    PROVE  LookupInv'
<1>1. /\ TypeOK /\ caller[c] \in CallStates /\ Fits(caller[c], row)
      /\ redis \in Maybe \cup {"zero"} /\ row \in Maybe \cup {"absent"}
  BY TypesOf DEF LookupInv
<1>2. Known(caller[c].got) /\ caller[c].got # "none" /\ row' \in Maybe
  BY <1>1, NoIDs DEF Fits, CallStates
<1>3. RowGrows
  BY <1>2, NoIDs DEF RowGrows
<1>4. "done" \in Places \ {"waiting"}
  BY DEF Places, Ended
<1>5. Fits([caller[c] EXCEPT !.at = "done"], row')
  BY <1>1, <1>2, NoIDs DEF Fits, CallStates, Ensuring
<1> QED
  BY <1>1, <1>2, <1>3, <1>4, <1>5, GoingFits

LEMMA persistTMDBOnShowInv ==
    ASSUME LookupInv, NEW c \in Callers, persistTMDBOnShow(c)
    PROVE  LookupInv'
<1>1. /\ TypeOK /\ caller \in [Callers -> CallStates] /\ caller[c] \in CallStates
      /\ caller[c].at = "persist" /\ Fits(caller[c], row)
      /\ redis \in Maybe \cup {"zero"} /\ row \in Maybe \cup {"absent"}
  BY TypesOf DEF persistTMDBOnShow, LookupInv
<1>2. UNCHANGED <<redis, row, memo, flight, process, unresolved>> /\ RowGrows
  BY DEF persistTMDBOnShow, stored, RowGrows
<1>3. CASE row = caller[c].got /\ Goes(c, "done")
  BY <1>1, <1>2, <1>3, PersistedInv
<1>4. CASE Goes(c, "setID")
  <2>1. "setID" \in Places \ {"waiting"}
    BY DEF Places, Ensuring
  <2>2. Fits([caller[c] EXCEPT !.at = "setID"], row')
    BY <1>1, <1>2 DEF Fits, CallStates, Ensuring
  <2> QED
    BY <1>1, <1>2, <1>4, <2>1, <2>2, GoingFits
<1> QED
  BY <1>3, <1>4 DEF persistTMDBOnShow

LEMMA SetTMDBIDInv ==
    ASSUME LookupInv, NEW c \in Callers, SetTMDBID(c)
    PROVE  LookupInv'
<1>1. caller[c].at = "setID" /\ UNCHANGED <<redis, memo, flight, process, unresolved>>
  BY DEF SetTMDBID
<1>2. CASE row' = caller[c].got /\ Goes(c, "done")
  BY <1>1, <1>2, PersistedInv
<1>3. CASE Fails(c) /\ UNCHANGED row
  BY <1>1, <1>3, FailsInv DEF stored
<1> QED
  BY <1>2, <1>3 DEF SetTMDBID

--------------------------------------------------------------------------------
(* The flight *)

(* A step of the flight before its end leaves the callers where they are.    *)
LEMMA FlightGoesOn ==
    ASSUME LookupInv, flight.at # "none", flight' \in FlightStates, flight'.at # "none",
           UNCHANGED <<row, caller, process>>,
           redis' \in Maybe \cup {"zero"}, unresolved' \in BOOLEAN,
           memo' \in [Sources -> Maybe \cup {"unasked"}], Flown'
    PROVE  LookupInv'
<1>1. TypeOK'
  BY DEF LookupInv, TypeOK, FlightStates, process
<1> QED
  BY <1>1 DEF LookupInv

LEMMA FlightCacheGetInv == LookupInv /\ FlightCacheGet => LookupInv'
<1> SUFFICES ASSUME LookupInv, FlightCacheGet PROVE LookupInv'
  OBVIOUS
<1>1. /\ flight \in FlightStates /\ flight.at = "redis" /\ redis \in Maybe \cup {"zero"}
      /\ unresolved \in BOOLEAN /\ memo \in [Sources -> Maybe \cup {"unasked"}]
  BY TypesOf DEF FlightCacheGet, LookupInv
<1>2. UNCHANGED <<redis, row, unresolved, memo, caller, process>>
  BY DEF FlightCacheGet, stored
<1>3. flight' \in FlightStates /\ flight'.at \in {"end", "row"} /\ (flight'.at = "end" => Known(flight'.got))
  BY <1>1, NoIDs DEF FlightCacheGet, FliesWith, Flies, FlightStates, Known, Maybe
<1>4. Flown'
  BY <1>3, NoIDs DEF Flown
<1> QED
  BY <1>1, <1>2, <1>3, <1>4, FlightGoesOn

LEMMA FlightRowGetInv == LookupInv /\ FlightRowGet => LookupInv'
<1> SUFFICES ASSUME LookupInv, FlightRowGet PROVE LookupInv'
  OBVIOUS
<1>1. /\ flight \in FlightStates /\ flight.at = "row" /\ redis \in Maybe \cup {"zero"}
      /\ unresolved \in BOOLEAN /\ memo \in [Sources -> Maybe \cup {"unasked"}]
  BY TypesOf DEF FlightRowGet, LookupInv
<1>2. UNCHANGED <<redis, row, unresolved, memo, caller, process>>
  BY DEF FlightRowGet, stored
<1>3. /\ flight' \in FlightStates /\ flight'.at \in {"set", "wikidata"}
      /\ flight'.at = "set" => Known(flight'.got)
  BY <1>1 DEF FlightRowGet, FliesWith, Flies, FlightStates, Known, Maybe, Sources
<1>4. Flown'
  BY <1>3 DEF Flown
<1> QED
  BY <1>1, <1>2, <1>3, <1>4, FlightGoesOn

(* A client that is asked says an id, or says nothing and knows none.        *)
LEMMA Asked ==
    ASSUME LookupInv, NEW s \in Sources, NEW next \in {"tmdb", "record"}, Ask(s, next)
    PROVE  /\ memo' \in [Sources -> Maybe \cup {"unasked"}]
           /\ \A other \in Sources \ {s} : memo'[other] = memo[other]
           /\ flight' \in FlightStates
           /\ \/ flight'.at = "set" /\ Known(flight'.got)
              \/ /\ flight'.at = next /\ flight'.asked = flight.asked \cup {s}
                 /\ ~Known(memo'[s])
<1>1. flight \in FlightStates /\ memo \in [Sources -> Maybe \cup {"unasked"}]
  BY TypesOf DEF LookupInv
<1>2. ASSUME NEW id \in TmdbIDs, Says(s, id)
      PROVE  flight' \in FlightStates /\ flight'.at = "set" /\ Known(flight'.got)
  BY <1>1, <1>2 DEF Says, FlightStates, Known, Maybe
<1>3. ASSUME SaysNothing(s, next)
      PROVE  /\ flight' \in FlightStates /\ flight'.at = next
             /\ flight'.asked = flight.asked \cup {s}
  BY <1>1, <1>3 DEF SaysNothing, FlightStates, Sources
<1>4. CASE memo[s] # "unasked" /\ Remembered(s, next)
  <2>1. memo' = memo
    BY <1>4 DEF Remembered
  <2>2. CASE Known(memo[s])
    <3>1. memo[s] \in TmdbIDs /\ Says(s, memo[s])
      BY <1>4, <2>2 DEF Remembered, Known
    <3> QED
      BY <1>1, <1>2, <2>1, <3>1
  <2>3. CASE ~Known(memo[s])
    <3>1. SaysNothing(s, next)
      BY <1>4, <2>3 DEF Remembered
    <3> QED
      BY <1>1, <1>3, <2>1, <2>3, <3>1
  <2> QED
    BY <2>2, <2>3
<1>5. CASE memo[s] = "unasked" /\ Query(s, next)
  <2>1. ASSUME NEW id \in TmdbIDs, Says(s, id), memo' = [memo EXCEPT ![s] = id]
        PROVE  /\ memo' \in [Sources -> Maybe \cup {"unasked"}]
               /\ \A other \in Sources \ {s} : memo'[other] = memo[other]
    BY <1>1, <2>1 DEF Maybe
  <2>2. ASSUME SaysNothing(s, next), memo' = [memo EXCEPT ![s] = "none"] \/ memo' = memo
        PROVE  /\ memo' \in [Sources -> Maybe \cup {"unasked"}]
               /\ \A other \in Sources \ {s} : memo'[other] = memo[other]
               /\ ~Known(memo'[s])
    BY <1>1, <1>5, <2>2, NoIDs DEF Maybe
  <2> QED
    BY <1>2, <1>3, <1>5, <2>1, <2>2 DEF Query
<1> QED
  BY <1>4, <1>5 DEF Ask

LEMMA AskWikidataInv == LookupInv /\ Ask("wikidata", "tmdb") => LookupInv'
<1> SUFFICES ASSUME LookupInv, Ask("wikidata", "tmdb") PROVE LookupInv'
  OBVIOUS
<1>1. flight.at = "wikidata" /\ redis \in Maybe \cup {"zero"} /\ unresolved \in BOOLEAN
  BY TypesOf DEF Ask, LookupInv
<1>2. UNCHANGED <<redis, row, unresolved, caller, process>>
  BY DEF Ask, stored
<1>3. /\ memo' \in [Sources -> Maybe \cup {"unasked"}] /\ flight' \in FlightStates
      /\ \/ flight'.at = "set" /\ Known(flight'.got)
         \/ /\ flight'.at = "tmdb" /\ flight'.asked = flight.asked \cup {"wikidata"}
            /\ ~Known(memo'["wikidata"])
  BY Asked DEF Sources
<1>4. Flown'
  BY <1>3 DEF Flown
<1> QED
  BY <1>1, <1>2, <1>3, <1>4, FlightGoesOn

LEMMA AskTMDBInv == LookupInv /\ Ask("tmdb", "record") => LookupInv'
<1> SUFFICES ASSUME LookupInv, Ask("tmdb", "record") PROVE LookupInv'
  OBVIOUS
<1>1. flight.at = "tmdb" /\ redis \in Maybe \cup {"zero"} /\ unresolved \in BOOLEAN
  BY TypesOf DEF Ask, LookupInv
<1>2. UNCHANGED <<redis, row, unresolved, caller, process>>
  BY DEF Ask, stored
<1>3. /\ memo' \in [Sources -> Maybe \cup {"unasked"}] /\ flight' \in FlightStates
      /\ memo'["wikidata"] = memo["wikidata"]
      /\ \/ flight'.at = "set" /\ Known(flight'.got)
         \/ /\ flight'.at = "record" /\ flight'.asked = flight.asked \cup {"tmdb"}
            /\ ~Known(memo'["tmdb"])
  BY Asked DEF Sources
<1>4. "wikidata" \in flight.asked /\ ~Known(memo["wikidata"])
  BY <1>1 DEF LookupInv, Flown
<1>5. flight'.asked \subseteq Sources
  BY <1>3 DEF FlightStates
<1>6. Flown'
  BY <1>3, <1>4, <1>5 DEF Flown, Sources
<1> QED
  BY <1>1, <1>2, <1>3, <1>6, FlightGoesOn

LEMMA FlightSetInv == LookupInv /\ FlightSet => LookupInv'
<1> SUFFICES ASSUME LookupInv, FlightSet PROVE LookupInv'
  OBVIOUS
<1>1. /\ flight \in FlightStates /\ flight.at = "set" /\ redis \in Maybe \cup {"zero"}
      /\ unresolved \in BOOLEAN /\ memo \in [Sources -> Maybe \cup {"unasked"}]
      /\ Known(flight.got)
  BY TypesOf DEF FlightSet, LookupInv, Flown
<1>2. UNCHANGED <<row, unresolved, memo, caller, process>>
  BY DEF FlightSet
<1>3. flight' \in FlightStates /\ flight'.at = "end" /\ flight'.got = flight.got
  BY <1>1 DEF FlightSet, Flies, FlightStates
<1>4. redis' \in Maybe \cup {"zero"}
  BY <1>1 DEF FlightSet, bestEffortCacheSet, FlightStates
<1>5. Flown'
  BY <1>1, <1>3, NoIDs DEF Flown
<1> QED
  BY <1>1, <1>2, <1>3, <1>4, <1>5, FlightGoesOn

LEMMA RecordUnresolvedInv == LookupInv /\ bestEffortRecordUnresolved => LookupInv'
<1> SUFFICES ASSUME LookupInv, bestEffortRecordUnresolved PROVE LookupInv'
  OBVIOUS
<1>1. /\ flight \in FlightStates /\ flight.at = "record" /\ redis \in Maybe \cup {"zero"}
      /\ unresolved \in BOOLEAN /\ memo \in [Sources -> Maybe \cup {"unasked"}]
      /\ flight.asked = Sources /\ \A s \in Sources : ~Known(memo[s])
  BY TypesOf DEF bestEffortRecordUnresolved, LookupInv, Flown
<1>2. /\ UNCHANGED <<redis, row, memo, caller, process>> /\ unresolved' \in BOOLEAN
  BY <1>1 DEF bestEffortRecordUnresolved
<1>3. flight' \in FlightStates /\ flight'.at = "end" /\ flight'.asked = flight.asked
  BY <1>1 DEF bestEffortRecordUnresolved, Flies, FlightStates
<1>4. Flown'
  BY <1>1, <1>2, <1>3 DEF Flown
<1> QED
  BY <1>1, <1>2, <1>3, <1>4, FlightGoesOn

(* All callers at once leave the flight, or the process.                     *)
LEMMA AllGoOn ==
    ASSUME LookupInv, \A c \in Callers : /\ caller'[c] \in CallStates
                                         /\ caller'[c].at # "waiting" /\ Fits(caller'[c], row),
           caller' = [c \in Callers |-> caller'[c]], flight' = NoFlight,
           memo' \in [Sources -> Maybe \cup {"unasked"}],
           UNCHANGED <<redis, row, unresolved>>, up' \in BOOLEAN, crashes' \in 0..MaxCrashes
    PROVE  LookupInv'
<1>1. NoFlight \in FlightStates /\ NoFlight.at = "none"
  BY DEF NoFlight, FlightStates, Maybe
<1>2. TypeOK'
  BY <1>1 DEF LookupInv, TypeOK, CallStates, Places, FlightStates
<1>3. Flown'
  BY <1>1 DEF Flown
<1> QED
  BY <1>2, <1>3 DEF LookupInv

LEMMA FlightEndsInv == LookupInv /\ FlightEnds => LookupInv'
<1> SUFFICES ASSUME LookupInv, FlightEnds PROVE LookupInv'
  OBVIOUS
<1>1. /\ TypeOK /\ caller \in [Callers -> CallStates] /\ flight \in FlightStates
      /\ flight.got = "none" => flight.asked = Sources
  BY TypesOf DEF FlightEnds, LookupInv, Flown
<1>2. ASSUME NEW c \in Callers
      PROVE  caller'[c] \in CallStates /\ caller'[c].at # "waiting" /\ Fits(caller'[c], row)
  <2>1. Fits(caller[c], row) /\ caller[c] \in CallStates
    BY <1>1 DEF LookupInv
  <2>2. CASE caller[c].at = "waiting"
    <3>1. caller'[c] = [caller[c] EXCEPT !.at = AfterLookup(c), !.got = flight.got,
                                         !.asked = flight.asked]
      BY <2>2 DEF FlightEnds
    <3>2. ~caller[c].known
      BY <2>1, <2>2 DEF Fits
    <3>3. flight.got \in Maybe /\ flight.asked \in SUBSET Sources
      BY <1>1 DEF FlightStates
    <3>4. AfterLookup(c) = IF caller[c].ensures THEN "ensure" ELSE "done"
      BY DEF AfterLookup
    <3> DEFINE to == AfterLookup(c)
               new == [caller[c] EXCEPT !.at = to, !.got = flight.got, !.asked = flight.asked]
    <3> HIDE DEF to
    <3>5. new \in CallStates /\ new.at # "waiting" /\ Fits(new, row)
      BY <1>1, <2>1, <3>2, <3>3, <3>4, AfterLookupFits DEF to
    <3> QED
      BY <3>1, <3>5 DEF to
  <2>3. CASE caller[c].at # "waiting"
    BY <2>1, <2>3 DEF FlightEnds
  <2> QED
    BY <2>2, <2>3
<1>3. caller' = [c \in Callers |-> caller'[c]]
  BY DEF FlightEnds
<1>4. /\ flight' = NoFlight /\ UNCHANGED <<redis, row, unresolved, memo, up, crashes>>
      /\ memo' \in [Sources -> Maybe \cup {"unasked"}]
      /\ up' \in BOOLEAN /\ crashes' \in 0..MaxCrashes
  BY TypesOf DEF FlightEnds, stored, process, LookupInv
<1> QED
  BY <1>2, <1>3, <1>4, AllGoOn

--------------------------------------------------------------------------------
(* The surroundings *)

LEMMA CrashInv == LookupInv /\ Crash => LookupInv'
<1> SUFFICES ASSUME LookupInv, Crash PROVE LookupInv'
  OBVIOUS
<1>1. TypeOK /\ caller \in [Callers -> CallStates]
  BY TypesOf DEF LookupInv
<1>2. ASSUME NEW c \in Callers
      PROVE  caller'[c] \in CallStates /\ caller'[c].at # "waiting" /\ Fits(caller'[c], row)
  <2>1. Fits(caller[c], row) /\ caller[c] \in CallStates
    BY <1>1 DEF LookupInv
  <2>2. CASE caller[c].at \in Looking \cup Ensuring
    <3>1. caller'[c] = NoCall("dead")
      BY <2>2 DEF Crash
    <3> QED
      BY <3>1, NoCallFits
  <2>3. CASE caller[c].at \notin Looking \cup Ensuring
    BY <2>1, <2>3 DEF Crash, Looking
  <2> QED
    BY <2>2, <2>3
<1>3. caller' = [c \in Callers |-> caller'[c]]
  BY DEF Crash
<1>4. /\ flight' = NoFlight /\ UNCHANGED <<redis, row, unresolved>> /\ up' \in BOOLEAN
      /\ memo' \in [Sources -> Maybe \cup {"unasked"}]
  BY DEF Crash, stored
<1>5. crashes' \in 0..MaxCrashes
  BY <1>1, LookupAssumption DEF Crash, TypeOK
<1> QED
  BY <1>2, <1>3, <1>4, <1>5, AllGoOn

(* Redis is written, and nobody is told.                                     *)
LEMMA RedisChanges ==
    ASSUME LookupInv, redis' \in Maybe \cup {"zero"}, up' \in BOOLEAN,
           UNCHANGED <<row, unresolved, memo, flight, caller, crashes>>
    PROVE  LookupInv'
  BY DEF LookupInv, TypeOK, Flown

LEMMA StepInv == LookupInv /\ [Next]_vars => LookupInv'
<1> SUFFICES ASSUME LookupInv, [Next]_vars PROVE LookupInv'
  OBVIOUS
<1>1. ASSUME NEW c \in Callers, Step(c) PROVE LookupInv'
  BY <1>1, CacheGetInv, GetByTVDBIDInv, CacheSetInv, JoinInv, ensureShowRecordInv, UpsertInv,
     persistTMDBOnShowInv, SetTMDBIDInv DEF Step
<1>2. ASSUME NEW c \in Callers, NEW ensures \in BOOLEAN, Begin(c, ensures) PROVE LookupInv'
  BY <1>2, BeginInv
<1>3. CASE Flight
  BY <1>3, FlightCacheGetInv, FlightRowGetInv, AskWikidataInv, AskTMDBInv, FlightSetInv,
     RecordUnresolvedInv, FlightEndsInv DEF Flight
<1>4. CASE RedisExpires
  <2>1. /\ redis' = "none" /\ up' = up /\ up \in BOOLEAN
        /\ UNCHANGED <<row, unresolved, memo, flight, caller, crashes>>
    BY <1>4 DEF RedisExpires, process, LookupInv, TypeOK
  <2> QED
    BY <2>1, RedisChanges DEF Maybe
<1>5. CASE Crash
  BY <1>5, CrashInv
<1>6. CASE WarmTMDBCache
  <2>1. redis \in Maybe \cup {"zero"} /\ row \in Maybe \cup {"absent"}
    BY DEF LookupInv, TypeOK
  <2>2. redis' \in Maybe \cup {"zero"}
    BY <1>6, <2>1 DEF WarmTMDBCache, Warm, ListTVDBTMDBMappings, Known, Maybe
  <2>3. up' \in BOOLEAN /\ UNCHANGED <<row, unresolved, memo, flight, caller, crashes>>
    BY <1>6 DEF WarmTMDBCache
  <2> QED
    BY <2>2, <2>3, RedisChanges
<1>7. CASE UNCHANGED vars
  <2>1. /\ UNCHANGED <<redis, row, unresolved, memo, flight, caller, up, crashes>>
        /\ redis \in Maybe \cup {"zero"} /\ up \in BOOLEAN
    BY <1>7 DEF vars, stored, process, LookupInv, TypeOK
  <2> QED
    BY <2>1, RedisChanges
<1> QED
  BY <1>1, <1>2, <1>3, <1>4, <1>5, <1>6, <1>7 DEF Next

--------------------------------------------------------------------------------
(* The theorems *)

(* Whoever looks a show up, and the one flight they share, know at each step *)
(* of lookupTMDBID, EnsureShow and flight.Do what their place says, though   *)
(* any statement may fail, Redis may lose its entry and the process may die. *)
THEOREM LookupsKnowTheirPlace == Spec => []LookupInv
<1> QED
  BY InitInv, StepInv, PTL DEF Spec

(* A lookup that begins after the row has an id never comes to a flight, so  *)
(* no source is asked for that show again (lookupTMDBID; COALESCE in the     *)
(* upsert); and there is a flight exactly as long as somebody waits for it.  *)
THEOREM KnownIsNotAskedAgainHolds == Spec => []KnownIsNotAskedAgain
<1>1. LookupInv => KnownIsNotAskedAgain
  BY DEF LookupInv, Fits, KnownIsNotAskedAgain
<1> QED
  BY <1>1, LookupsKnowTheirPlace, PTL

(* Nobody is told that a show has no TMDB id but by a flight that went to    *)
(* every source: a negative entry or a row without an id is not believed.    *)
THEOREM NilWasAskedHolds == Spec => []NilWasAsked
<1>1. LookupInv => NilWasAsked
  BY DEF LookupInv, Fits, NilWasAsked
<1> QED
  BY <1>1, LookupsKnowTheirPlace, PTL

(* As long as a client keeps the id a source has said, no flight records the *)
(* show as unresolved or ends without an id (cachedTVDB of the clients).     *)
THEOREM AnswersStandHolds == Spec => []AnswersStand
<1>1. LookupInv => AnswersStand
  BY DEF LookupInv, Flown, AnswersStand
<1> QED
  BY <1>1, LookupsKnowTheirPlace, PTL

(* What EnsureShow returned for stays in the database, whoever upserts and   *)
(* sets the same row: the row, and an id if it found one.                    *)
THEOREM EnsuredStaysHolds == Spec => []EnsuredStays
<1>1. LookupInv => EnsuredStays
  BY DEF LookupInv, Fits, EnsuredStays
<1> QED
  BY <1>1, LookupsKnowTheirPlace, PTL
================================================================================
