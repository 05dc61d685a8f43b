--------------------------- MODULE TVTimeGatherProofs ---------------------------
(***************************************************************************)
(* Theorems about TVTimeGather, for lists of every length, pages of every  *)
(* size and any number of retries, shows, episodes, records and workers.   *)
(* The inductive invariant has a part for each of the three things that    *)
(* are under way: PagesAreSound for the lists that are fetched, FanInv for *)
(* the workers, and HistoryInv for what was taken over and came of it.     *)
(***************************************************************************)
EXTENDS TVTimeGather, FiniteSetTheorems, SequenceTheorems, TLAPS

Cuts == {"no", "refused", "hollow", "failing"}

FetchType ==
    [at : {"idle", "asking", "returned"}, offset : Nat, attempt : 0..maxPageRetries,
     limited : BOOLEAN, fails : 0..maxConsecutivePageFails, last : Nat,
     got : Seq(Nat), try : 1..maxEmptyRetries]

Increasing(s) == \A i, j \in DOMAIN s : i < j => s[i] < s[j]

\* The numbers on the pages of l at a set of offsets.
OnPages(l, ms) == UNION {ToSet(Page(l, offset)) : offset \in ms}

\* Up to a number, all of l was got or is on the pages passed over.
UpTo(l, got, ms, end) == \A n \in Within(l) : n <= end => n \in ToSet(got) \cup OnPages(l, ms)

(* While l is asked for, all before the offset is accounted for, the pages   *)
(* of the failures in a row are those just before it, and no page that is to *)
(* come can pass for the one before it - unless TV Time gives its first page *)
(* at every offset, of which one copy is all there is to take.               *)
Underway(l, f, ms) ==
    /\ UpTo(l, f.got, ms, f.offset)
    /\ f.fails < maxConsecutivePageFails
    /\ \A k \in 1..f.fails : f.offset - k * PageLimit \in ms
    /\ IF offsets THEN f.last <= f.offset /\ \A i \in DOMAIN f.got : f.got[i] <= f.offset
       ELSE \/ f.got = <<>> /\ f.last = 0
            \/ f.got = Page(l, 0) /\ f.last = 1

Explained(l, f, ms, why) ==
    /\ UpTo(l, f.got, ms, IF why # "no" THEN f.offset ELSE size[l])
    /\ why = "failing" =>
          \A k \in 0..(maxConsecutivePageFails - 1) : f.offset - k * PageLimit \in ms

\* f: the locals for list l, ms: the offsets missed, why: what cut it.
Sound(l, f, ms, why) ==
    /\ f \in FetchType /\ f.last <= size[l] /\ f.got \in Seq(1..size[l])
    /\ ms \subseteq Nat /\ why \in Cuts
    /\ Increasing(f.got)
    /\ f.at = "asking" => Underway(l, f, ms)
    /\ f.at = "returned" => Explained(l, f, ms, why)

Extent ==
    /\ size \in [Lists -> Nat] /\ offsets \in BOOLEAN
    /\ \A l \in Lists : size[l] <= MaxObjects[l]

PagesAreSound ==
    /\ Extent
    /\ fetch \in [Lists -> FetchType]
    /\ missed \in [Lists -> SUBSET Nat] /\ cut \in [Lists -> Cuts]
    /\ \A l \in Lists : Sound(l, fetch[l], missed[l], cut[l])
    /\ phase # "follows" => \A l \in FollowLists : fetch[l].at = "idle"
    /\ phase # "watches" => fetch["episode"].at = "idle"

WorkerType == [at : {"free", "first", "second", "counting", "reporting"}, show : Nat, n : Nat]

\* A worker that has a show and has not settled it.
AsksFor(i) == \E w \in DOMAIN worker : worker[w].show = i /\ worker[w].at \in {"first", "second"}

\* The shows that are settled and counted.
Counted ==
    {i \in DOMAIN shows : /\ seasons[i] # "none"
                          /\ \A w \in DOMAIN worker : worker[w].show = i => worker[w].at # "counting"}

FanTypes ==
    /\ phase \in {"follows", "watches", "episodes", "done"}
    /\ shows \in Seq(FollowLists \X (Nat \ {0}))
    /\ \A i \in DOMAIN shows : shows[i][2] <= size[shows[i][1]]
    /\ seasons \in [DOMAIN shows -> {"none", "empty", "whole", "noData"}]
    /\ next \in 1..(Len(shows) + 1) /\ done \in Nat
    /\ worker \in [DOMAIN worker -> WorkerType]

FanPhases ==
    /\ phase = "follows" => shows = <<>>
    /\ phase \in {"follows", "watches"} =>
          DOMAIN worker = {} /\ next = 1 /\ \A i \in DOMAIN shows : seasons[i] = "none"
    /\ phase = "done" => AllDone

OneWorkerEach ==
    /\ \A w \in DOMAIN worker :
          /\ worker[w].at = "free" <=> worker[w].show = 0
          /\ worker[w].show < next /\ worker[w].n <= Len(shows)
    /\ \A v, w \in DOMAIN worker :
          v # w /\ worker[v].show = worker[w].show => worker[v].show = 0

Settled == \A i \in DOMAIN shows : seasons[i] = "none" <=> i >= next \/ AsksFor(i)

(* A show handed out is with one worker or settled, a show not handed out is *)
(* with none, and the counter counts the settled ones that are past done.Add.*)
FanInv ==
    /\ FanTypes /\ FanPhases /\ OneWorkerEach /\ Settled
    /\ done = Cardinality(Counted)

(* What was taken over is in order, and whole when its list has no gap. *)
HistoryInv ==
    /\ watches \in Seq(1..size["episode"]) /\ Increasing(watches)
    /\ gaps \subseteq Lists
    /\ phase # "follows" =>
          \A l \in FollowLists \ gaps : \A n \in Within(l) : <<l, n>> \in ToSet(shows)
    /\ phase \in {"episodes", "done"} =>
          "episode" \in gaps \/ Within("episode") \subseteq ToSet(watches)
    /\ result = IF phase = "done"
                THEN [shows |-> normalizeShows, watched |-> countWatchedEpisodes(normalizeShows)]
                ELSE NoResult

GatherInv == PagesAreSound /\ FanInv /\ HistoryInv

--------------------------------------------------------------------------------
(* Pages *)

(* A function on the numbers up to k is a sequence of length k. *)
LEMMA FunctionIsSeq ==
    ASSUME NEW S, NEW k \in Nat, NEW s \in [1..k -> S]
    PROVE  s \in Seq(S) /\ Len(s) = k
<1>1. s \in Seq(S)
  BY SeqDef
<1> QED
  BY <1>1, LenProperties

LEMMA SeqFacts ==
    ASSUME NEW S, NEW s \in Seq(S)
    PROVE  /\ Len(s) \in Nat /\ DOMAIN s = 1..Len(s)
           /\ \A i \in DOMAIN s : s[i] \in S
           /\ s # <<>> => Len(s) \in Nat \ {0} /\ 1 \in DOMAIN s /\ s[1] \in S
  BY LenProperties

(* A page holds the numbers after the offset, as many as fit and as there are. *)
LEMMA PageIs ==
    ASSUME Extent, NEW l \in Lists, NEW offset \in Nat
    PROVE  LET from == IF offsets THEN offset ELSE 0
               objects == Page(l, offset)
           IN  /\ objects \in Seq(1..size[l])
               /\ Len(objects) <= PageLimit
               /\ objects # <<>> <=> from < size[l]
               /\ Len(objects) < PageLimit => size[l] <= from + PageLimit
               /\ \A i \in DOMAIN objects : objects[i] = from + i
               /\ ToSet(objects) = {n \in 1..size[l] : from < n /\ n <= from + PageLimit}
<1> DEFINE from == IF offsets THEN offset ELSE 0
           last == Least(from + PageLimit, size[l])
           objects == Page(l, offset)
<1>1. from \in Nat /\ size[l] \in Nat /\ PageLimit \in Nat \ {0}
  BY GatherAssumption DEF Extent
<1>2. /\ last \in Nat /\ last <= size[l] /\ last <= from + PageLimit
      /\ last = size[l] \/ last = from + PageLimit
  BY <1>1 DEF Least
<1>3. objects = [i \in 1..(last - from) |-> from + i]
  BY DEF Page
<1> HIDE DEF from, last, objects
<1>4. \A i \in 1..(last - from) : from + i \in 1..size[l]
  BY <1>1, <1>2
<1>5. CASE from < size[l]
  <2>1. last - from \in Nat \ {0}
    BY <1>1, <1>2, <1>5
  <2>2. objects \in Seq(1..size[l]) /\ Len(objects) = last - from
    <3>1. objects \in [1..(last - from) -> 1..size[l]]
      BY <1>3, <1>4
    <3> QED
      BY <3>1, <2>1, FunctionIsSeq
  <2>3. DOMAIN objects = 1..(last - from)
    BY <1>3
  <2>4. \A n : n \in ToSet(objects) <=> n \in 1..size[l] /\ from < n /\ n <= from + PageLimit
    <3>1. ASSUME NEW n \in ToSet(objects)
          PROVE  n \in 1..size[l] /\ from < n /\ n <= from + PageLimit
      <4>1. PICK i \in 1..(last - from) : n = from + i
        BY <1>3, <2>3 DEF ToSet
      <4> QED
        BY <4>1, <1>1, <1>2, <2>1
    <3>2. ASSUME NEW n \in 1..size[l], from < n, n <= from + PageLimit
          PROVE  n \in ToSet(objects)
      <4>1. n - from \in 1..(last - from) /\ from + (n - from) = n
        BY <3>2, <1>1, <1>2
      <4>2. objects[n - from] = n
        BY <4>1, <1>3
      <4> QED
        BY <4>1, <4>2, <2>3 DEF ToSet
    <3> QED
      BY <3>1, <3>2
  <2>5. ToSet(objects) = {n \in 1..size[l] : from < n /\ n <= from + PageLimit}
    BY <2>4
  <2>6. objects # <<>> /\ (Len(objects) < PageLimit => size[l] <= from + PageLimit)
    BY <2>1, <2>2, <1>1, <1>2
  <2>7. \A i \in DOMAIN objects : objects[i] = from + i
    BY <1>3, <2>3
  <2> QED
    BY <1>1, <1>2, <1>5, <2>1, <2>2, <2>5, <2>6, <2>7 DEF from, objects
<1>6. CASE ~(from < size[l])
  <2>1. objects = <<>>
    <3>1. 1..(last - from) = {}
      BY <1>1, <1>2, <1>6
    <3> QED
      BY <3>1, <1>3
  <2>2. ToSet(objects) = {}
    BY <2>1 DEF ToSet
  <2>3. {n \in 1..size[l] : from < n /\ n <= from + PageLimit} = {}
    BY <1>1, <1>6
  <2>4. objects \in Seq(1..size[l]) /\ Len(objects) = 0 /\ DOMAIN objects = {}
    BY <2>1
  <2> QED
    BY <1>1, <1>6, <2>1, <2>2, <2>3, <2>4 DEF from, objects
<1> QED
  BY <1>5, <1>6

(* Joining two increasing sequences, the second of which is above the first. *)
LEMMA JoinIncreases ==
    ASSUME NEW S \in SUBSET Nat, NEW s \in Seq(S), NEW t \in Seq(S), NEW m \in Nat,
           Increasing(s), Increasing(t),
           \A i \in DOMAIN s : s[i] <= m, \A i \in DOMAIN t : m < t[i]
    PROVE  Increasing(s \o t)
<1> SUFFICES ASSUME NEW i \in DOMAIN (s \o t), NEW j \in DOMAIN (s \o t), i < j
             PROVE  (s \o t)[i] < (s \o t)[j]
  BY DEF Increasing
<1>1. /\ Len(s) \in Nat /\ Len(t) \in Nat /\ DOMAIN s = 1..Len(s) /\ DOMAIN t = 1..Len(t)
      /\ DOMAIN (s \o t) = 1..(Len(s) + Len(t))
  OBVIOUS
<1>2. i \in 1..(Len(s) + Len(t)) /\ j \in 1..(Len(s) + Len(t))
  BY <1>1
<1>3. CASE j <= Len(s)
  BY <1>1, <1>2, <1>3 DEF Increasing
<1>4. CASE i <= Len(s) /\ ~(j <= Len(s))
  <2>1. /\ i \in 1..Len(s) /\ j - Len(s) \in 1..Len(t)
        /\ (s \o t)[i] = s[i] /\ (s \o t)[j] = t[j - Len(s)]
    BY <1>1, <1>2, <1>4
  <2>2. s[i] <= m /\ m < t[j - Len(s)]
    BY <2>1, <1>1
  <2>3. s[i] \in S /\ t[j - Len(s)] \in S
    BY <2>1, <1>1
  <2>4. \A a, b \in S : a <= m /\ m < b => a < b
    OBVIOUS
  <2>5. s[i] < t[j - Len(s)]
    BY <2>2, <2>3, <2>4
  <2> QED
    BY <2>1, <2>5, Zenon
<1>5. CASE ~(i <= Len(s)) /\ ~(j <= Len(s))
  <2>1. /\ i - Len(s) \in 1..Len(t) /\ j - Len(s) \in 1..Len(t) /\ i - Len(s) < j - Len(s)
        /\ (s \o t)[i] = t[i - Len(s)] /\ (s \o t)[j] = t[j - Len(s)]
    BY <1>1, <1>2, <1>5
  <2>2. t[i - Len(s)] < t[j - Len(s)]
    BY <2>1, <1>1 DEF Increasing
  <2> QED
    BY <2>1, <2>2, Zenon
<1> QED
  BY <1>2, <1>3, <1>4, <1>5

(* What is in the join of two sequences. *)
LEMMA JoinHolds ==
    ASSUME NEW S, NEW s \in Seq(S), NEW t \in Seq(S)
    PROVE  ToSet(s \o t) = ToSet(s) \cup ToSet(t)
<1>1. /\ Len(s) \in Nat /\ Len(t) \in Nat /\ DOMAIN s = 1..Len(s) /\ DOMAIN t = 1..Len(t)
      /\ DOMAIN (s \o t) = 1..(Len(s) + Len(t))
  OBVIOUS
<1>2. ASSUME NEW i \in 1..(Len(s) + Len(t))
      PROVE  (s \o t)[i] \in ToSet(s) \cup ToSet(t)
  <2>1. CASE i <= Len(s)
    BY <1>1, <2>1 DEF ToSet
  <2>2. CASE ~(i <= Len(s))
    <3>1. i - Len(s) \in DOMAIN t /\ (s \o t)[i] = t[i - Len(s)]
      BY <1>1, <2>2
    <3> QED
      BY <3>1 DEF ToSet
  <2> QED
    BY <2>1, <2>2
<1>3. ASSUME NEW i \in DOMAIN s
      PROVE  s[i] \in ToSet(s \o t)
  <2>1. i \in DOMAIN (s \o t) /\ (s \o t)[i] = s[i]
    BY <1>1
  <2> QED
    BY <2>1 DEF ToSet
<1>4. ASSUME NEW i \in DOMAIN t
      PROVE  t[i] \in ToSet(s \o t)
  <2>1. i + Len(s) \in DOMAIN (s \o t) /\ (s \o t)[i + Len(s)] = t[i]
    BY <1>1
  <2> QED
    BY <2>1 DEF ToSet
<1>5. \A x : x \in ToSet(s \o t) => x \in ToSet(s) \cup ToSet(t)
  BY <1>1, <1>2 DEF ToSet
<1>6. \A x : x \in ToSet(s) \cup ToSet(t) => x \in ToSet(s \o t)
  <2>1. \A x \in ToSet(s) : \E i \in DOMAIN s : x = s[i]
    BY DEF ToSet
  <2>2. \A x \in ToSet(t) : \E i \in DOMAIN t : x = t[i]
    BY DEF ToSet
  <2> QED
    BY <1>3, <1>4, <2>1, <2>2
<1> QED
  BY <1>5, <1>6

--------------------------------------------------------------------------------
(* The steps of a fetch *)

\* A page more that is passed over.
LEMMA OnOnePageMore ==
    ASSUME NEW l, NEW ms, NEW offset
    PROVE  OnPages(l, ms \cup {offset}) = OnPages(l, ms) \cup ToSet(Page(l, offset))
  BY DEF OnPages

(* What can be come upon up to the next page is before this one or on it. *)
LEMMA ThisPage ==
    ASSUME Extent, NEW l \in Lists, NEW offset \in Nat, NEW n \in Within(l),
           n <= offset + PageLimit
    PROVE  n <= offset \/ n \in ToSet(Page(l, offset))
<1>1. CASE offsets
  <2>1. ToSet(Page(l, offset)) = {m \in 1..size[l] : offset < m /\ m <= offset + PageLimit}
    BY <1>1, PageIs
  <2>2. n \in 1..size[l]
    BY <1>1 DEF Within
  <2> QED
    BY <2>1, <2>2
<1>2. CASE ~offsets
  <2>1. Page(l, offset) = Page(l, 0)
    BY <1>2 DEF Page
  <2> QED
    BY <1>2, <2>1 DEF Within
<1> QED
  BY <1>1, <1>2

LEMMA WithinNumbers ==
    ASSUME Extent, NEW l \in Lists
    PROVE  Within(l) \subseteq 1..size[l]
<1>1. ToSet(Page(l, 0)) \subseteq 1..size[l]
  BY PageIs
<1> QED
  BY <1>1 DEF Within

LEMMA NewIsSound ==
    ASSUME Extent, NEW l \in Lists, NEW at \in {"idle", "asking"}, NEW try \in 1..maxEmptyRetries
    PROVE  /\ NewFetch(at, try) \in FetchType
           /\ Sound(l, NewFetch(at, try), {}, "no")
<1> DEFINE f == NewFetch(at, try)
<1>1. /\ f.at = at /\ f.offset = 0 /\ f.attempt = 0 /\ f.limited = FALSE /\ f.fails = 0
      /\ f.last = 0 /\ f.got = <<>> /\ f.try = try
  BY DEF NewFetch
<1>2. /\ size[l] \in Nat /\ maxConsecutivePageFails \in Nat \ {0} /\ maxPageRetries \in Nat
      /\ PageLimit \in Nat
  BY GatherAssumption DEF Extent
<1>3. f \in FetchType
  BY <1>2 DEF NewFetch, FetchType
<1> HIDE DEF f
<1>4. Increasing(f.got)
  BY <1>1 DEF Increasing
<1>5. Underway(l, f, {})
  <2>1. UpTo(l, f.got, {}, f.offset)
    BY <1>1, <1>2, WithinNumbers DEF UpTo
  <2>2. \A k \in 1..f.fails : f.offset - k * PageLimit \in {}
    BY <1>1
  <2>3. DOMAIN f.got = {}
    BY <1>1
  <2> QED
    BY <1>1, <1>2, <2>1, <2>2, <2>3 DEF Underway
<1> QED
  BY <1>1, <1>2, <1>3, <1>4, <1>5 DEF Sound, Cuts, f

(* No page, or an answer that ends the fetch. *)
LEMMA CutOffIsSound ==
    ASSUME Extent, NEW l \in Lists, NEW f, NEW ms, NEW why, Sound(l, f, ms, why),
           f.at = "asking", NEW what \in {"refused", "hollow"}
    PROVE  Sound(l, [f EXCEPT !.at = "returned"], ms, what)
<1> DEFINE g == [f EXCEPT !.at = "returned"]
<1>1. f \in FetchType
  BY DEF Sound
<1>2. /\ g \in FetchType /\ g.at = "returned" /\ g.offset = f.offset /\ g.last = f.last
      /\ g.got = f.got
  BY <1>1 DEF FetchType
<1> HIDE DEF g
<1>3. Explained(l, g, ms, what)
  BY <1>2 DEF Sound, Underway, Explained
<1> QED
  BY <1>2, <1>3 DEF Sound, Cuts, g

LEMMA EndIsSound ==
    ASSUME Extent, NEW l \in Lists, NEW f, NEW ms, NEW why, Sound(l, f, ms, why),
           f.at = "asking", ~IsNew(f, Page(l, f.offset))
    PROVE  Sound(l, [f EXCEPT !.at = "returned"], ms, "no")
<1> DEFINE g == [f EXCEPT !.at = "returned"]
           objects == Page(l, f.offset)
<1>1. f \in FetchType
  BY DEF Sound
<1>2. /\ g \in FetchType /\ g.at = "returned" /\ g.offset = f.offset /\ g.last = f.last
      /\ g.got = f.got
  BY <1>1 DEF FetchType
<1>3. f.offset \in Nat /\ f.last \in Nat /\ size[l] \in Nat
  BY <1>1 DEF FetchType, Extent
<1> HIDE DEF g
<1>4. ASSUME NEW n \in Within(l)
      PROVE  n \in ToSet(f.got) \cup OnPages(l, ms)
  <2>1. CASE offsets
    <3>1. objects # <<>> => objects[1] = f.offset + 1
      <4>1. objects \in Seq(1..size[l]) /\ \A i \in DOMAIN objects : objects[i] = f.offset + i
        BY <2>1, <1>3, PageIs
      <4> QED
        BY <4>1
    <3>2. f.last <= f.offset
      BY <2>1 DEF Sound, Underway
    <3>3. objects = <<>>
      BY <1>3, <3>1, <3>2 DEF IsNew
    <3>4. size[l] <= f.offset
      <4>1. objects # <<>> <=> f.offset < size[l]
        BY <2>1, <1>3, PageIs
      <4> QED
        BY <4>1, <3>3, <1>3
    <3>5. n <= f.offset
      BY <3>4, <1>3, WithinNumbers
    <3> QED
      BY <3>5 DEF Sound, Underway, UpTo
  <2>2. CASE ~offsets
    <3>1. objects = Page(l, 0)
      BY <2>2 DEF Page
    <3>2. Page(l, 0) # <<>> => Page(l, 0)[1] = 1
      <4>1. Page(l, 0) \in Seq(1..size[l]) /\ \A i \in DOMAIN Page(l, 0) : Page(l, 0)[i] = 0 + i
        BY <2>2, PageIs
      <4> QED
        BY <4>1
    <3>3. CASE f.got = <<>> /\ f.last = 0
      <4>1. Page(l, 0) = <<>>
        BY <3>1, <3>2, <3>3 DEF IsNew
      <4>2. Within(l) = {}
        BY <4>1, <2>2 DEF Within, ToSet
      <4> QED
        BY <4>2
    <3>4. CASE f.got = Page(l, 0)
      BY <3>4, <2>2 DEF Within
    <3> QED
      BY <2>2, <3>3, <3>4 DEF Sound, Underway
  <2> QED
    BY <2>1, <2>2
<1>5. Explained(l, g, ms, "no")
  BY <1>2, <1>4 DEF Explained, UpTo
<1> QED
  BY <1>2, <1>5 DEF Sound, Cuts, g

LEMMA RetryIsSound ==
    ASSUME Extent, NEW l \in Lists, NEW f, NEW ms, NEW why, Sound(l, f, ms, why),
           f.at = "asking", MoreAttempts(f), NEW limited \in BOOLEAN
    PROVE  Sound(l, [f EXCEPT !.attempt = @ + 1, !.limited = limited], ms, why)
<1> DEFINE g == [f EXCEPT !.attempt = @ + 1, !.limited = limited]
<1>1. f \in FetchType /\ maxPageRetries \in Nat
  BY GatherAssumption DEF Sound
<1>2. f.attempt + 1 \in 0..maxPageRetries
  BY <1>1 DEF FetchType, MoreAttempts
<1>3. /\ g \in FetchType /\ g.at = "asking" /\ g.offset = f.offset /\ g.last = f.last
      /\ g.got = f.got /\ g.fails = f.fails
  BY <1>1, <1>2 DEF FetchType
<1> HIDE DEF g
<1>4. Underway(l, g, ms)
  BY <1>3 DEF Sound, Underway
<1> QED
  BY <1>3, <1>4 DEF Sound, g

LEMMA PageIncreases ==
    ASSUME Extent, NEW l \in Lists, NEW offset \in Nat
    PROVE  Increasing(Page(l, offset))
<1> DEFINE from == IF offsets THEN offset ELSE 0
           objects == Page(l, offset)
<1>1. objects \in Seq(1..size[l]) /\ from \in Nat /\ \A i \in DOMAIN objects : objects[i] = from + i
  BY PageIs DEF Extent
<1> HIDE DEF from, objects
<1>2. \A i \in DOMAIN objects : i \in Nat
  BY <1>1
<1> QED
  BY <1>1, <1>2 DEF Increasing, objects

(* What there is to say of the numbers after a page was taken. *)
LEMMA WithPageGot ==
    ASSUME Extent, NEW l \in Lists, NEW f, NEW ms, NEW why, Sound(l, f, ms, why),
           f.at = "asking", IsNew(f, Page(l, f.offset))
    PROVE  LET objects == Page(l, f.offset)
               got == f.got \o objects
           IN  /\ got \in Seq(1..size[l]) /\ Increasing(got)
               /\ objects[1] \in 1..size[l]
               /\ UpTo(l, got, ms, f.offset + PageLimit)
               /\ Len(objects) < PageLimit => UpTo(l, got, ms, size[l])
               /\ IF offsets
                  THEN /\ objects[1] <= f.offset + PageLimit
                       /\ \A i \in DOMAIN got : got[i] <= f.offset + PageLimit
                  ELSE got = Page(l, 0) /\ objects[1] = 1
<1> DEFINE objects == Page(l, f.offset)
           got == f.got \o objects
<1>1. /\ f \in FetchType /\ f.got \in Seq(1..size[l]) /\ Increasing(f.got)
      /\ Underway(l, f, ms)
  BY DEF Sound
<1>2. /\ f.offset \in Nat /\ f.last \in Nat /\ size[l] \in Nat /\ PageLimit \in Nat \ {0}
      /\ f.offset + PageLimit \in Nat
  BY <1>1, GatherAssumption DEF FetchType, Extent
<1>3. objects \in Seq(1..size[l]) /\ objects # <<>> /\ objects[1] # f.last
  BY <1>2, PageIs DEF IsNew
<1>4. /\ DOMAIN objects = 1..Len(objects) /\ Len(objects) \in Nat \ {0}
      /\ 1 \in DOMAIN objects /\ objects[1] \in 1..size[l]
  BY <1>3, SeqFacts
<1>5. Increasing(objects)
  BY <1>2, PageIncreases
<1>6. got \in Seq(1..size[l]) /\ ToSet(got) = ToSet(f.got) \cup ToSet(objects)
  BY <1>1, <1>3, JoinHolds
<1>7. UpTo(l, got, ms, f.offset + PageLimit)
  <2> SUFFICES ASSUME NEW n \in Within(l), n <= f.offset + PageLimit
               PROVE  n \in ToSet(got) \cup OnPages(l, ms)
    BY DEF UpTo
  <2>1. n <= f.offset \/ n \in ToSet(objects)
    BY <1>2, ThisPage
  <2> QED
    BY <1>1, <1>6, <2>1 DEF Underway, UpTo
<1>8. CASE offsets
  <2>1. \A i \in DOMAIN objects : objects[i] = f.offset + i
    BY <1>2, <1>8, PageIs
  <2>2. f.last <= f.offset /\ \A i \in DOMAIN f.got : f.got[i] <= f.offset
    BY <1>1, <1>8 DEF Underway
  <2>3. ToSet(objects) = {n \in 1..size[l] : f.offset < n /\ n <= f.offset + PageLimit}
    BY <1>2, <1>8, PageIs
  <2>4. Increasing(got)
    <3>1. \A i \in DOMAIN objects : f.offset < objects[i]
      BY <1>2, <1>4, <2>1
    <3>2. 1..size[l] \in SUBSET Nat
      BY <1>2
    <3> HIDE DEF objects
    <3> QED
      BY <1>1, <1>2, <1>3, <1>5, <2>2, <3>1, <3>2, JoinIncreases
  <2>5. \A n \in ToSet(got) : n <= f.offset + PageLimit
    <3>1. \A n \in ToSet(f.got) : n <= f.offset + PageLimit
      <4>1. \A n \in ToSet(f.got) : n \in 1..size[l] /\ n <= f.offset
        <5>1. \A i \in DOMAIN f.got : f.got[i] \in 1..size[l]
          BY <1>1, SeqFacts
        <5> QED
          BY <2>2, <5>1 DEF ToSet
      <4> QED
        BY <4>1, <1>2
    <3> QED
      BY <3>1, <2>3, <1>6
  <2>6. \A i \in DOMAIN got : got[i] <= f.offset + PageLimit
    BY <2>5 DEF ToSet
  <2>7. objects[1] <= f.offset + PageLimit
    BY <2>1, <1>4, <1>2
  <2>8. Len(objects) < PageLimit => UpTo(l, got, ms, size[l])
    <3> SUFFICES ASSUME Len(objects) < PageLimit, NEW n \in Within(l)
                 PROVE  n \in ToSet(got) \cup OnPages(l, ms)
      BY DEF UpTo
    <3>1. size[l] <= f.offset + PageLimit
      BY <1>2, <1>8, PageIs
    <3>2. n \in 1..size[l]
      BY WithinNumbers
    <3>3. n <= f.offset + PageLimit
      BY <3>1, <3>2, <1>2
    <3> QED
      BY <3>3, <1>7 DEF UpTo
  <2> QED
    BY <1>4, <1>6, <1>7, <1>8, <2>4, <2>6, <2>7, <2>8
<1>9. CASE ~offsets
  <2>1. objects = Page(l, 0)
    BY <1>9 DEF Page
  <2>2. \A i \in DOMAIN objects : objects[i] = 0 + i
    BY <1>2, <1>9, PageIs
  <2>3. objects[1] = 1
    BY <2>2, <1>4
  <2>4. f.got = <<>>
    BY <1>1, <1>3, <1>9, <2>3 DEF Underway
  <2>5. got = objects
    <3> HIDE DEF objects
    <3> QED
      BY <2>4, <1>3
  <2>6. UpTo(l, got, ms, size[l])
    BY <2>1, <2>5, <1>9 DEF UpTo, Within
  <2> QED
    BY <1>4, <1>5, <1>6, <1>7, <1>9, <2>1, <2>3, <2>5, <2>6
<1> QED
  BY <1>8, <1>9

LEMMA NextPageIs ==
    ASSUME NEW g \in FetchType
    PROVE  LET on == NextPage(g)
           IN  /\ on \in FetchType /\ on.at = g.at /\ on.offset = g.offset + PageLimit
               /\ on.last = g.last /\ on.got = g.got /\ on.fails = g.fails
<1>1. /\ g.offset + PageLimit \in Nat /\ 0 \in 0..maxPageRetries
  BY GatherAssumption DEF FetchType
<1> DEFINE first == [g EXCEPT !.offset = g.offset + PageLimit]
<1>2. /\ first \in FetchType /\ first.at = g.at /\ first.offset = g.offset + PageLimit
      /\ first.last = g.last /\ first.got = g.got /\ first.fails = g.fails
  BY <1>1 DEF FetchType
<1> DEFINE second == [first EXCEPT !.attempt = 0]
<1> HIDE DEF first
<1>3. /\ second \in FetchType /\ second.at = g.at /\ second.offset = g.offset + PageLimit
      /\ second.last = g.last /\ second.got = g.got /\ second.fails = g.fails
  BY <1>1, <1>2 DEF FetchType
<1> DEFINE third == [second EXCEPT !.limited = FALSE]
<1> HIDE DEF second
<1>4. /\ third \in FetchType /\ third.at = g.at /\ third.offset = g.offset + PageLimit
      /\ third.last = g.last /\ third.got = g.got /\ third.fails = g.fails
  BY <1>3 DEF FetchType
<1>5. NextPage(g) = third
  BY DEF NextPage, first, second, third
<1> HIDE DEF third
<1> QED
  BY <1>4, <1>5

LEMMA TakenIsSound ==
    ASSUME Extent, NEW l \in Lists, NEW f, NEW ms, NEW why, Sound(l, f, ms, why),
           f.at = "asking", IsNew(f, Page(l, f.offset))
    PROVE  LET objects == Page(l, f.offset)
               g == WithPage(f, objects)
           IN  /\ Len(objects) < PageLimit => Sound(l, [g EXCEPT !.at = "returned"], ms, "no")
               /\ Sound(l, NextPage(g), ms, why)
<1> DEFINE objects == Page(l, f.offset)
           got == f.got \o objects
           g == WithPage(f, objects)
           over == [g EXCEPT !.at = "returned"]
           on == NextPage(g)
<1>1. f \in FetchType /\ ms \subseteq Nat /\ why \in Cuts
  BY DEF Sound
<1>2. /\ f.offset \in Nat /\ size[l] \in Nat /\ PageLimit \in Nat \ {0} /\ maxPageRetries \in Nat
      /\ maxConsecutivePageFails \in Nat \ {0}
  BY <1>1, GatherAssumption DEF FetchType, Extent
<1>3. got \in Seq(1..size[l]) /\ Increasing(got) /\ objects[1] \in 1..size[l]
  BY WithPageGot
<1>4. UpTo(l, got, ms, f.offset + PageLimit)
  BY WithPageGot
<1>5. Len(objects) < PageLimit => UpTo(l, got, ms, size[l])
  BY WithPageGot
<1>6. IF offsets
      THEN objects[1] <= f.offset + PageLimit /\ \A i \in DOMAIN got : got[i] <= f.offset + PageLimit
      ELSE got = Page(l, 0) /\ objects[1] = 1
  BY WithPageGot
<1> HIDE DEF objects, got
<1>7. got \in Seq(Nat) /\ objects[1] \in Nat
  BY <1>2, <1>3, SeqMonotonic
<1>8. /\ g \in FetchType /\ g.at = "asking" /\ g.offset = f.offset /\ g.fails = 0
      /\ g.last = objects[1] /\ g.got = got
  <2>1. 0 \in 0..maxConsecutivePageFails
    BY <1>2
  <2> DEFINE first == [f EXCEPT !.got = got]
  <2>2. /\ first \in FetchType /\ first.at = "asking" /\ first.offset = f.offset
        /\ first.got = got
    BY <1>1, <1>7 DEF FetchType
  <2> DEFINE second == [first EXCEPT !.last = objects[1]]
  <2> HIDE DEF first
  <2>3. /\ second \in FetchType /\ second.at = "asking" /\ second.offset = f.offset
        /\ second.got = got /\ second.last = objects[1]
    BY <1>7, <2>2 DEF FetchType
  <2> DEFINE third == [second EXCEPT !.fails = 0]
  <2> HIDE DEF second
  <2>4. /\ third \in FetchType /\ third.at = "asking" /\ third.offset = f.offset
        /\ third.got = got /\ third.last = objects[1] /\ third.fails = 0
    BY <2>1, <2>3 DEF FetchType
  <2>5. g = third
    BY DEF WithPage, first, second, third, got
  <2> HIDE DEF third, g
  <2> QED
    BY <2>4, <2>5
<1> HIDE DEF g
<1>9. /\ over \in FetchType /\ over.at = "returned" /\ over.offset = f.offset
      /\ over.last = objects[1] /\ over.got = got
  BY <1>8 DEF FetchType
<1>10. /\ on \in FetchType /\ on.at = "asking" /\ on.offset = f.offset + PageLimit
       /\ on.last = objects[1] /\ on.got = got /\ on.fails = 0
  BY <1>8, <1>2, NextPageIs
<1> HIDE DEF over, on
<1>11. objects[1] <= size[l]
  BY <1>2, <1>3
<1>12. ASSUME Len(objects) < PageLimit
       PROVE  Sound(l, over, ms, "no")
  <2>1. Explained(l, over, ms, "no")
    BY <1>5, <1>9, <1>12 DEF Explained
  <2> QED
    BY <1>1, <1>3, <1>9, <1>11, <2>1 DEF Sound, Cuts
<1>13. Sound(l, on, ms, why)
  <2>1. Underway(l, on, ms)
    BY <1>2, <1>4, <1>6, <1>10 DEF Underway
  <2> QED
    BY <1>1, <1>3, <1>10, <1>11, <2>1 DEF Sound
<1> QED
  BY <1>12, <1>13 DEF objects, over, on, g

(* The page that fails is accounted for, and its failure is one more in a row. *)
LEMMA PassedIsSound ==
    ASSUME Extent, NEW l \in Lists, NEW f, NEW ms, NEW why, Sound(l, f, ms, why),
           f.at = "asking"
    PROVE  LET g == [f EXCEPT !.fails = @ + 1]
               ns == ms \cup {g.offset}
           IN  IF g.fails >= maxConsecutivePageFails
               THEN Sound(l, [g EXCEPT !.at = "returned"], ns, "failing")
               ELSE Sound(l, NextPage(g), ns, why)
<1> DEFINE g == [f EXCEPT !.fails = @ + 1]
           ns == ms \cup {f.offset}
           over == [g EXCEPT !.at = "returned"]
           on == NextPage(g)
<1>1. /\ f \in FetchType /\ ms \subseteq Nat /\ why \in Cuts /\ Increasing(f.got)
      /\ f.got \in Seq(1..size[l]) /\ f.last <= size[l] /\ Underway(l, f, ms)
  BY DEF Sound
<1>2. /\ f.offset \in Nat /\ size[l] \in Nat /\ PageLimit \in Nat \ {0} /\ maxPageRetries \in Nat
      /\ maxConsecutivePageFails \in Nat \ {0} /\ f.fails \in Nat /\ f.last \in Nat
  BY <1>1, GatherAssumption DEF FetchType, Extent
<1>3. f.fails < maxConsecutivePageFails /\ \A k \in 1..f.fails : f.offset - k * PageLimit \in ms
  BY <1>1 DEF Underway
<1>4. g.offset = f.offset /\ g.fails = f.fails + 1
  BY <1>1 DEF FetchType
<1>5. f.fails + 1 \in 0..maxConsecutivePageFails
  BY <1>2, <1>3
<1>6. /\ g \in FetchType /\ g.at = "asking" /\ g.last = f.last /\ g.got = f.got
  BY <1>1, <1>5 DEF FetchType
<1> HIDE DEF g
<1>7. /\ over \in FetchType /\ over.at = "returned" /\ over.offset = f.offset
      /\ over.last = f.last /\ over.got = f.got
  BY <1>4, <1>6 DEF FetchType
<1>8. /\ on \in FetchType /\ on.at = "asking" /\ on.offset = f.offset + PageLimit
      /\ on.last = f.last /\ on.got = f.got /\ on.fails = f.fails + 1
  BY <1>2, <1>4, <1>6, NextPageIs
<1>9. OnPages(l, ns) = OnPages(l, ms) \cup ToSet(Page(l, f.offset))
  BY OnOnePageMore
<1>10. ns \subseteq Nat
  BY <1>1, <1>2
<1> HIDE DEF over, on
<1>11. ASSUME g.fails >= maxConsecutivePageFails
       PROVE  Sound(l, over, ns, "failing")
  <2>1. UpTo(l, f.got, ns, f.offset)
    BY <1>1, <1>9 DEF Underway, UpTo
  <2>2. ASSUME NEW k \in 0..(maxConsecutivePageFails - 1)
        PROVE  f.offset - k * PageLimit \in ns
    <3>1. CASE k = 0
      <4>1. f.offset - k * PageLimit = f.offset
        BY <3>1, <1>2
      <4> QED
        BY <4>1
    <3>2. CASE k # 0
      <4>1. k \in 1..f.fails
        BY <3>2, <1>2, <1>3, <1>4, <1>11
      <4> QED
        BY <4>1, <1>3
    <3> QED
      BY <3>1, <3>2
  <2>3. Explained(l, over, ns, "failing")
    BY <1>7, <2>1, <2>2 DEF Explained
  <2> QED
    BY <1>1, <1>7, <1>10, <2>3 DEF Sound, Cuts
<1>12. ASSUME ~(g.fails >= maxConsecutivePageFails)
       PROVE  Sound(l, on, ns, why)
  <2>1. UpTo(l, f.got, ns, f.offset + PageLimit)
    <3> SUFFICES ASSUME NEW n \in Within(l), n <= f.offset + PageLimit
                 PROVE  n \in ToSet(f.got) \cup OnPages(l, ns)
      BY DEF UpTo
    <3>1. n <= f.offset \/ n \in ToSet(Page(l, f.offset))
      BY <1>2, ThisPage
    <3> QED
      BY <1>1, <1>9, <3>1 DEF Underway, UpTo
  <2>2. ASSUME NEW k \in 1..(f.fails + 1)
        PROVE  (f.offset + PageLimit) - k * PageLimit \in ns
    <3>1. CASE k = 1
      <4>1. (f.offset + PageLimit) - k * PageLimit = f.offset
        BY <3>1, <1>2
      <4> QED
        BY <4>1
    <3>2. CASE k # 1
      <4>1. k - 1 \in 1..f.fails
        BY <3>2, <1>2
      <4>2. (f.offset + PageLimit) - k * PageLimit = f.offset - (k - 1) * PageLimit
        BY <1>2
      <4> QED
        BY <4>1, <4>2, <1>3
    <3> QED
      BY <3>1, <3>2
  <2>3. IF offsets THEN /\ f.last <= f.offset + PageLimit
                        /\ \A i \in DOMAIN f.got : f.got[i] <= f.offset + PageLimit
        ELSE \/ f.got = <<>> /\ f.last = 0
             \/ f.got = Page(l, 0) /\ f.last = 1
    <3>1. CASE offsets
      <4>1. f.last <= f.offset /\ \A i \in DOMAIN f.got : f.got[i] <= f.offset
        BY <1>1, <3>1 DEF Underway
      <4>2. \A i \in DOMAIN f.got : f.got[i] \in Nat
        <5>1. f.got \in Seq(Nat)
          BY <1>1 DEF FetchType
        <5> QED
          BY <5>1
      <4> QED
        BY <3>1, <4>1, <4>2, <1>2
    <3>2. CASE ~offsets
      BY <1>1, <3>2 DEF Underway
    <3> QED
      BY <3>1, <3>2
  <2>4. Underway(l, on, ns)
    <3>1. on.fails < maxConsecutivePageFails
      BY <1>2, <1>4, <1>8, <1>12
    <3> QED
      BY <1>8, <2>1, <2>2, <2>3, <3>1 DEF Underway
  <2> QED
    BY <1>1, <1>8, <1>10, <2>4 DEF Sound
<1> QED
  BY <1>4, <1>11, <1>12 DEF over, on, g

(* What holds of the next locals of a list holds of it after the step. *)
LEMMA ListStep ==
    ASSUME UNCHANGED tvtime, NEW l \in Lists, NEW f, NEW ms, NEW why, Sound(l, f, ms, why),
           fetch'[l] = f, missed'[l] = ms, cut'[l] = why
    PROVE  Sound(l, fetch[l], missed[l], cut[l])'
<1>1. size' = size /\ offsets' = offsets
  BY DEF tvtime
<1> QED
  BY <1>1 DEF Sound, Underway, Explained, UpTo, OnPages, Within, Page, Least

LEMMA ExtentStays == ASSUME Extent, UNCHANGED tvtime PROVE Extent'
  BY DEF Extent, tvtime

--------------------------------------------------------------------------------
(* The steps of a fetch keep the pages sound *)

\* List l goes on with these locals, offsets missed and cut.
Moves(l, f, ms, why) ==
    /\ fetch' = [fetch EXCEPT ![l] = f]
    /\ missed' = [missed EXCEPT ![l] = ms]
    /\ cut' = [cut EXCEPT ![l] = why]

LEMMA MovesKeepPages ==
    ASSUME PagesAreSound, NEW l \in Lists, fetch[l].at # "idle",
           NEW f, NEW ms, NEW why, Sound(l, f, ms, why), Moves(l, f, ms, why),
           UNCHANGED <<tvtime, phase>>
    PROVE  PagesAreSound'
<1>1. f \in FetchType /\ ms \subseteq Nat /\ why \in Cuts
  BY DEF Sound
<1>2. /\ fetch \in [Lists -> FetchType] /\ missed \in [Lists -> SUBSET Nat]
      /\ cut \in [Lists -> Cuts]
  BY DEF PagesAreSound
<1>3. /\ fetch' \in [Lists -> FetchType] /\ missed' \in [Lists -> SUBSET Nat]
      /\ cut' \in [Lists -> Cuts]
  BY <1>1, <1>2 DEF Moves
<1>4. Extent'
  BY ExtentStays DEF PagesAreSound
<1>5. ASSUME NEW k \in Lists
      PROVE  Sound(k, fetch[k], missed[k], cut[k])'
  <2>1. CASE k = l
    <3>1. fetch'[l] = f /\ missed'[l] = ms /\ cut'[l] = why
      BY <1>2 DEF Moves
    <3>2. Sound(l, fetch[l], missed[l], cut[l])'
      BY <3>1, ListStep
    <3> QED
      BY <2>1, <3>2
  <2>2. CASE k # l
    <3>1. PICK g, ns, what : g = fetch[k] /\ ns = missed[k] /\ what = cut[k]
      OBVIOUS
    <3>2. fetch'[k] = g /\ missed'[k] = ns /\ cut'[k] = what
      BY <1>2, <2>2, <3>1 DEF Moves
    <3>3. Sound(k, g, ns, what)
      BY <3>1 DEF PagesAreSound
    <3> QED
      BY <3>2, <3>3, ListStep
  <2> QED
    BY <2>1, <2>2
<1>6. \A k \in Lists : fetch[k].at = "idle" => fetch'[k].at = "idle"
  BY <1>2 DEF Moves
<1>7. FollowLists \subseteq Lists /\ "episode" \in Lists
  BY DEF Lists
<1> QED
  BY <1>3, <1>4, <1>5, <1>6, <1>7 DEF PagesAreSound

LEMMA PassOverMoves ==
    ASSUME PagesAreSound, NEW l \in Lists, Asking(l), PassOver(l)
    PROVE  \E f, ms, why : Sound(l, f, ms, why) /\ Moves(l, f, ms, why)
<1>1. PICK f, ms, why : f = fetch[l] /\ ms = missed[l] /\ why = cut[l]
  OBVIOUS
<1>2. Extent /\ Sound(l, f, ms, why) /\ f.at = "asking" /\ cut \in [Lists -> Cuts]
  BY <1>1 DEF PagesAreSound, Asking
<1> DEFINE g == [f EXCEPT !.fails = @ + 1]
           ns == ms \cup {g.offset}
<1>3. IF g.fails >= maxConsecutivePageFails
      THEN Sound(l, [g EXCEPT !.at = "returned"], ns, "failing")
      ELSE Sound(l, NextPage(g), ns, why)
  BY <1>2, PassedIsSound
<1>4. /\ missed' = [missed EXCEPT ![l] = ns]
      /\ IF g.fails >= maxConsecutivePageFails THEN Return(l, g, "failing")
         ELSE fetch' = [fetch EXCEPT ![l] = NextPage(g)] /\ UNCHANGED cut
  BY <1>1 DEF PassOver
<1> HIDE DEF g, ns
<1>5. CASE g.fails >= maxConsecutivePageFails
  <2>1. Moves(l, [g EXCEPT !.at = "returned"], ns, "failing")
    BY <1>4, <1>5 DEF Moves, Return
  <2> QED
    BY <1>3, <1>5, <2>1
<1>6. CASE ~(g.fails >= maxConsecutivePageFails)
  <2>1. Moves(l, NextPage(g), ns, why)
    BY <1>1, <1>2, <1>4, <1>6 DEF Moves
  <2> QED
    BY <1>3, <1>6, <2>1
<1> QED
  BY <1>5, <1>6

\* Every step of a fetch moves its list on to something sound.
LEMMA FetchMoves ==
    ASSUME PagesAreSound, NEW l \in Lists, Fetch(l)
    PROVE  /\ fetch[l].at # "idle" /\ UNCHANGED <<tvtime, phase, fanout, history>>
           /\ \E f, ms, why : Sound(l, f, ms, why) /\ Moves(l, f, ms, why)
<1>1. PICK f, ms, why : f = fetch[l] /\ ms = missed[l] /\ why = cut[l]
  OBVIOUS
<1>2. /\ Extent /\ Sound(l, f, ms, why) /\ fetch \in [Lists -> FetchType]
      /\ missed \in [Lists -> SUBSET Nat] /\ cut \in [Lists -> Cuts]
  BY <1>1 DEF PagesAreSound
<1> DEFINE objects == Page(l, f.offset)
<1>3. CASE PageEnds(l)
  <2>1. Sound(l, [f EXCEPT !.at = "returned"], ms, "no")
    BY <1>1, <1>2, <1>3, EndIsSound DEF PageEnds, Asking
  <2>2. Moves(l, [f EXCEPT !.at = "returned"], ms, "no")
    BY <1>1, <1>2, <1>3 DEF PageEnds, Return, Moves
  <2> QED
    BY <1>3, <2>1, <2>2 DEF PageEnds, Asking
<1>4. CASE PageTaken(l)
  <2> DEFINE g == WithPage(f, objects)
  <2>1. IsNew(f, objects) /\ f.at = "asking"
    BY <1>1, <1>4 DEF PageTaken, Asking
  <2>2. /\ Len(objects) < PageLimit => Sound(l, [g EXCEPT !.at = "returned"], ms, "no")
        /\ Sound(l, NextPage(g), ms, why)
    BY <1>2, <2>1, TakenIsSound
  <2>3. /\ UNCHANGED missed
        /\ IF Len(objects) < PageLimit THEN Return(l, g, "no")
           ELSE fetch' = [fetch EXCEPT ![l] = NextPage(g)] /\ UNCHANGED cut
    BY <1>1, <1>4 DEF PageTaken
  <2> HIDE DEF g, objects
  <2>4. \E h, ns, what : Sound(l, h, ns, what) /\ Moves(l, h, ns, what)
    <3>1. CASE Len(objects) < PageLimit
      <4>1. Moves(l, [g EXCEPT !.at = "returned"], ms, "no")
        BY <1>1, <1>2, <2>3, <3>1 DEF Moves, Return
      <4> QED
        BY <2>2, <3>1, <4>1
    <3>2. CASE ~(Len(objects) < PageLimit)
      <4>1. Moves(l, NextPage(g), ms, why)
        BY <1>1, <1>2, <2>3, <3>2 DEF Moves
      <4> QED
        BY <2>2, <4>1
    <3> QED
      BY <3>1, <3>2
  <2> QED
    BY <1>1, <1>4, <2>1, <2>4 DEF PageTaken
<1>5. CASE FetchAgain(l)
  <2>1. f.try + 1 \in 1..maxEmptyRetries
    <3>1. f \in FetchType /\ f.try < maxEmptyRetries /\ maxEmptyRetries \in Nat
      BY <1>1, <1>2, <1>5, GatherAssumption DEF FetchAgain
    <3> QED
      BY <3>1 DEF FetchType
  <2>2. Sound(l, NewFetch("asking", f.try + 1), {}, "no")
    BY <1>2, <2>1, NewIsSound
  <2>3. Moves(l, NewFetch("asking", f.try + 1), {}, "no")
    BY <1>1, <1>2, <1>5 DEF FetchAgain, Moves
  <2> QED
    BY <1>5, <2>2, <2>3 DEF FetchAgain
<1>6. CASE PageGarbled(l)
  BY <1>6, PassOverMoves DEF PageGarbled, Asking
<1>7. CASE PageRefused(l)
  <2>1. Sound(l, [f EXCEPT !.at = "returned"], ms, "refused")
    BY <1>1, <1>2, <1>7, CutOffIsSound DEF PageRefused, Asking
  <2>2. Moves(l, [f EXCEPT !.at = "returned"], ms, "refused")
    BY <1>1, <1>2, <1>7 DEF PageRefused, Return, Moves
  <2> QED
    BY <1>7, <2>1, <2>2 DEF PageRefused, Asking
<1>8. CASE PageHollow(l)
  <2>1. Sound(l, [f EXCEPT !.at = "returned"], ms, "hollow")
    BY <1>1, <1>2, <1>8, CutOffIsSound DEF PageHollow, Asking
  <2>2. Moves(l, [f EXCEPT !.at = "returned"], ms, "hollow")
    BY <1>1, <1>2, <1>8 DEF PageHollow, Return, Moves
  <2> QED
    BY <1>8, <2>1, <2>2 DEF PageHollow, Asking
<1>9. ASSUME NEW how \in {"429", "5xx", "silence"}, PageFails(l, how)
      PROVE  /\ fetch[l].at # "idle" /\ UNCHANGED <<tvtime, phase, fanout, history>>
             /\ \E g, ns, what : Sound(l, g, ns, what) /\ Moves(l, g, ns, what)
  <2> DEFINE limited == how = "429" \/ (how = "silence" /\ fetch[l].limited)
  <2>1. /\ Asking(l) /\ UNCHANGED <<tvtime, phase, fanout, history>>
        /\ IF MoreAttempts(fetch[l])
           THEN /\ fetch' = [fetch EXCEPT ![l].attempt = @ + 1, ![l].limited = limited]
                /\ UNCHANGED <<missed, cut>>
           ELSE IF limited THEN Return(l, fetch[l], "refused") /\ UNCHANGED missed
           ELSE PassOver(l)
    BY <1>9 DEF PageFails
  <2>2. limited \in BOOLEAN
    OBVIOUS
  <2> HIDE DEF limited
  <2>3. f.at = "asking"
    BY <1>1, <2>1 DEF Asking
  <2>4. CASE MoreAttempts(f)
    <3>1. Sound(l, [f EXCEPT !.attempt = @ + 1, !.limited = limited], ms, why)
      BY <1>2, <2>2, <2>3, <2>4, RetryIsSound
    <3>2. fetch' = [fetch EXCEPT ![l] = [f EXCEPT !.attempt = @ + 1, !.limited = limited]]
      BY <1>1, <1>2, <2>1, <2>4
    <3>3. Moves(l, [f EXCEPT !.attempt = @ + 1, !.limited = limited], ms, why)
      <4> DEFINE g == [f EXCEPT !.attempt = @ + 1, !.limited = limited]
      <4>1. fetch' = [fetch EXCEPT ![l] = g]
        BY <3>2
      <4> HIDE DEF g
      <4>2. Moves(l, g, ms, why)
        BY <1>1, <1>2, <2>1, <2>4, <4>1 DEF Moves
      <4> QED
        BY <4>2 DEF g
    <3> QED
      BY <2>1, <2>3, <1>1, <3>1, <3>3
  <2>5. CASE ~MoreAttempts(f) /\ limited
    <3>1. Sound(l, [f EXCEPT !.at = "returned"], ms, "refused")
      BY <1>2, <2>3, CutOffIsSound
    <3>2. Moves(l, [f EXCEPT !.at = "returned"], ms, "refused")
      BY <1>1, <1>2, <2>1, <2>5 DEF Return, Moves
    <3> QED
      BY <1>1, <2>1, <2>3, <3>1, <3>2
  <2>6. CASE ~MoreAttempts(f) /\ ~limited
    BY <1>1, <2>1, <2>3, <2>6, PassOverMoves
  <2> QED
    BY <2>4, <2>5, <2>6
<1> QED
  BY <1>3, <1>4, <1>5, <1>6, <1>7, <1>8, <1>9 DEF Fetch

LEMMA FetchKeepsPages ==
    ASSUME PagesAreSound, NEW l \in Lists, Fetch(l)
    PROVE  PagesAreSound'
<1>1. PICK f, ms, why : Sound(l, f, ms, why) /\ Moves(l, f, ms, why)
  BY FetchMoves
<1>2. fetch[l].at # "idle" /\ UNCHANGED <<tvtime, phase>>
  BY FetchMoves
<1> QED
  BY <1>1, <1>2, MovesKeepPages

LEMMA InitPages == Init => PagesAreSound
<1> SUFFICES ASSUME Init PROVE PagesAreSound
  OBVIOUS
<1>1. Extent
  <2>1. size \in [Lists -> UNION {0..MaxObjects[l] : l \in Lists}] /\ \A l \in Lists : size[l] <= MaxObjects[l]
    BY DEF Init
  <2>2. \A l \in Lists : MaxObjects[l] \in Nat
    BY GatherAssumption
  <2>3. UNION {0..MaxObjects[l] : l \in Lists} \subseteq Nat
    BY <2>2
  <2> QED
    BY <2>1, <2>3 DEF Init, Extent
<1>2. 1 \in 1..maxEmptyRetries
  BY GatherAssumption
<1>3. \A l \in Lists : /\ fetch[l] \in FetchType /\ Sound(l, fetch[l], missed[l], cut[l])
                       /\ missed[l] = {} /\ cut[l] = "no"
  <2> TAKE l \in Lists
  <2> DEFINE at == IF l \in FollowLists THEN "asking" ELSE "idle"
  <2>1. fetch[l] = NewFetch(at, 1) /\ missed[l] = {} /\ cut[l] = "no"
    BY DEF Init
  <2>2. at \in {"idle", "asking"}
    OBVIOUS
  <2> HIDE DEF at
  <2>3. NewFetch(at, 1) \in FetchType /\ Sound(l, NewFetch(at, 1), {}, "no")
    BY <1>1, <1>2, <2>2, NewIsSound
  <2> QED
    BY <2>1, <2>3
<1>4. /\ fetch \in [Lists -> FetchType]
      /\ missed \in [Lists -> SUBSET Nat] /\ cut \in [Lists -> Cuts]
  BY <1>3 DEF Init, Cuts
<1>5. fetch["episode"].at = "idle" /\ phase = "follows"
  <2>1. "episode" \in Lists /\ "episode" \notin FollowLists
    BY DEF Lists, FollowLists
  <2> QED
    BY <2>1 DEF Init, NewFetch
<1> QED
  BY <1>1, <1>3, <1>4, <1>5 DEF PagesAreSound

(* The lists that are begun anew, or left, when one is taken over. *)
LEMMA FollowsKeepPages ==
    ASSUME PagesAreSound, FollowsFetched
    PROVE  PagesAreSound'
<1>1. UNCHANGED tvtime /\ Extent /\ Extent'
  BY ExtentStays DEF FollowsFetched, PagesAreSound
<1>2. 1 \in 1..maxEmptyRetries
  BY GatherAssumption
<1>3. ASSUME NEW l \in Lists
      PROVE  /\ fetch'[l] \in FetchType /\ missed'[l] = {} /\ cut'[l] = "no"
             /\ Sound(l, fetch[l], missed[l], cut[l])'
             /\ l \in FollowLists => fetch'[l].at = "idle"
  <2> DEFINE at == IF l = "episode" THEN "asking" ELSE "idle"
             f == NewFetch(at, 1)
  <2>1. fetch'[l] = f /\ missed'[l] = {} /\ cut'[l] = "no"
    BY DEF FollowsFetched
  <2>2. at \in {"idle", "asking"} /\ f.at = at /\ (l \in FollowLists => at = "idle")
    BY DEF NewFetch, FollowLists
  <2> HIDE DEF at
  <2>3. f \in FetchType /\ Sound(l, f, {}, "no")
    BY <1>1, <1>2, <2>2, NewIsSound
  <2> HIDE DEF f
  <2>4. Sound(l, fetch[l], missed[l], cut[l])'
    BY <1>1, <2>1, <2>3, ListStep
  <2> QED
    BY <2>1, <2>2, <2>3, <2>4
<1>4. phase' = "watches" /\ FollowLists \subseteq Lists
  BY DEF FollowsFetched, Lists
<1>5. fetch' \in [Lists -> FetchType] /\ missed' \in [Lists -> SUBSET Nat] /\ cut' \in [Lists -> Cuts]
  BY <1>3 DEF FollowsFetched, Cuts
<1> QED
  BY <1>1, <1>3, <1>4, <1>5 DEF PagesAreSound

LEMMA WatchesKeepPages ==
    ASSUME PagesAreSound, WatchesFetched
    PROVE  PagesAreSound'
<1>1. /\ UNCHANGED tvtime /\ Extent /\ Extent' /\ "episode" \in Lists
      /\ fetch \in [Lists -> FetchType] /\ missed \in [Lists -> SUBSET Nat]
      /\ cut \in [Lists -> Cuts]
  BY ExtentStays DEF WatchesFetched, PagesAreSound, Lists
<1> DEFINE f == NewFetch("idle", 1)
<1>2. f \in FetchType /\ Sound("episode", f, {}, "no") /\ f.at = "idle"
  <2>1. 1 \in 1..maxEmptyRetries /\ f.at = "idle"
    BY GatherAssumption DEF NewFetch
  <2> QED
    BY <1>1, <2>1, NewIsSound
<1> HIDE DEF f
<1>3. Moves("episode", f, {}, "no") /\ phase = "watches" /\ phase' = "episodes"
  BY DEF WatchesFetched, Moves, f
<1>4. ASSUME NEW k \in Lists
      PROVE  Sound(k, fetch[k], missed[k], cut[k])'
  <2>1. CASE k = "episode"
    <3>1. fetch'[k] = f /\ missed'[k] = {} /\ cut'[k] = "no"
      BY <1>1, <1>3, <2>1 DEF Moves
    <3> QED
      BY <1>1, <1>2, <2>1, <3>1, ListStep
  <2>2. CASE k # "episode"
    <3>1. PICK g, ns, what : g = fetch[k] /\ ns = missed[k] /\ what = cut[k]
      OBVIOUS
    <3>2. fetch'[k] = g /\ missed'[k] = ns /\ cut'[k] = what
      BY <1>1, <1>3, <2>2, <3>1 DEF Moves
    <3>3. Sound(k, g, ns, what)
      BY <3>1 DEF PagesAreSound
    <3> QED
      BY <1>1, <3>2, <3>3, ListStep
  <2> QED
    BY <2>1, <2>2
<1>5. /\ fetch' \in [Lists -> FetchType] /\ missed' \in [Lists -> SUBSET Nat]
      /\ cut' \in [Lists -> Cuts]
  BY <1>1, <1>2, <1>3 DEF Moves, Cuts
<1>6. \A k \in Lists : fetch'[k].at = "idle"
  <2>1. \A k \in FollowLists : fetch[k].at = "idle"
    BY <1>3 DEF PagesAreSound
  <2> QED
    BY <1>1, <1>2, <1>3, <2>1 DEF Moves, Lists
<1> QED
  BY <1>1, <1>3, <1>4, <1>5, <1>6 DEF PagesAreSound, Lists

LEMMA PagesStay ==
    ASSUME PagesAreSound, UNCHANGED <<tvtime, pages>>,
           phase' = phase \/ (phase = "episodes" /\ phase' = "done")
    PROVE  PagesAreSound'
<1>1. UNCHANGED <<fetch, missed, cut, tvtime>>
  BY DEF pages
<1>2. Extent'
  BY <1>1, ExtentStays DEF PagesAreSound
<1>3. ASSUME NEW k \in Lists
      PROVE  Sound(k, fetch[k], missed[k], cut[k])'
  <2>1. PICK g, ns, what : g = fetch[k] /\ ns = missed[k] /\ what = cut[k]
    OBVIOUS
  <2>2. Sound(k, g, ns, what)
    BY <2>1 DEF PagesAreSound
  <2> QED
    BY <1>1, <2>1, <2>2, ListStep
<1> QED
  BY <1>1, <1>2, <1>3 DEF PagesAreSound

--------------------------------------------------------------------------------
(* The workers *)

LEMMA CountedFinite ==
    ASSUME FanTypes
    PROVE  /\ IsFiniteSet(Counted) /\ Cardinality(Counted) \in Nat
           /\ Cardinality(Counted) <= Len(shows)
<1>1. Len(shows) \in Nat /\ DOMAIN shows = 1..Len(shows)
  BY LenProperties DEF FanTypes
<1>2. IsFiniteSet(1..Len(shows)) /\ Cardinality(1..Len(shows)) = Len(shows)
  <2>1. PICK n \in Nat : n = Len(shows)
    BY <1>1
  <2>2. IsFiniteSet(1..n) /\ Cardinality(1..n) = IF 1 > n THEN 0 ELSE n - 1 + 1
    BY FS_Interval
  <2> QED
    BY <2>1, <2>2
<1>3. Counted \subseteq 1..Len(shows)
  BY <1>1 DEF Counted
<1> HIDE DEF Counted
<1> QED
  BY <1>2, <1>3, FS_Subset, FS_CardinalityType

(* A worker has work between the start of the pool and its end. *)
LEMMA WorkIsInEpisodes ==
    ASSUME FanInv, NEW w \in DOMAIN worker, Work(w)
    PROVE  /\ phase = "episodes" /\ phase' = "episodes" /\ UNCHANGED <<tvtime, pages, shows, history>>
           /\ worker[w] \in WorkerType
<1>1. phase \notin {"follows", "watches"}
  BY DEF FanInv, FanPhases
<1>2. ~AllDone
  BY DEF Work, Take, NoSeriesID, SeasonsFetched, SeasonsFail, Count, Report, IsAt, AllDone,
         FanInv, FanTypes
<1>3. phase = "episodes"
  BY <1>1, <1>2 DEF FanInv, FanPhases, FanTypes
<1>4. UNCHANGED <<tvtime, pages, phase, shows, history>>
  BY DEF Work, Take, NoSeriesID, SeasonsFetched, SeasonsFail, Count, Report
<1>5. worker[w] \in WorkerType
  BY DEF FanInv, FanTypes
<1> QED
  BY <1>3, <1>4, <1>5

\* Worker w goes on as r.
GoesOn(w, r) == worker' = [worker EXCEPT ![w] = r]

LEMMA WorkerGoesOn ==
    ASSUME FanTypes, NEW w \in DOMAIN worker, NEW r \in WorkerType, GoesOn(w, r)
    PROVE  /\ DOMAIN worker' = DOMAIN worker /\ worker'[w] = r
           /\ \A v \in DOMAIN worker : v # w => worker'[v] = worker[v]
           /\ worker' \in [DOMAIN worker' -> WorkerType]
<1>1. worker \in [DOMAIN worker -> WorkerType]
  BY DEF FanTypes
<1> QED
  BY <1>1 DEF GoesOn

LEMMA TakeKeepsFan ==
    ASSUME FanInv, NEW w \in DOMAIN worker, Take(w)
    PROVE  FanInv'
<1> DEFINE r == [at |-> "first", show |-> next, n |-> 0]
<1>1. /\ FanTypes /\ OneWorkerEach /\ Settled /\ Len(shows) \in Nat
      /\ DOMAIN shows = 1..Len(shows) /\ next \in Nat \ {0} /\ next <= Len(shows)
  BY LenProperties DEF FanInv, FanTypes, Take
<1>2. /\ phase = "episodes" /\ phase' = "episodes" /\ UNCHANGED <<tvtime, shows>>
  BY WorkIsInEpisodes DEF Work
<1>3. r \in WorkerType /\ GoesOn(w, r) /\ r.at = "first" /\ r.show = next /\ r.n = 0
  BY <1>1 DEF Take, WorkerType, GoesOn
<1> HIDE DEF r
<1>4. /\ DOMAIN worker' = DOMAIN worker /\ worker'[w] = r
      /\ \A v \in DOMAIN worker : v # w => worker'[v] = worker[v]
      /\ worker' \in [DOMAIN worker' -> WorkerType]
  BY <1>1, <1>3, WorkerGoesOn
<1>5. /\ worker[w].at = "free" /\ worker[w].show = 0 /\ next' = next + 1
      /\ UNCHANGED <<seasons, done>>
  BY <1>1 DEF Take, IsAt, OneWorkerEach
<1>6. \A v \in DOMAIN worker : worker[v].show \in Nat /\ worker[v].show < next
  BY <1>1 DEF OneWorkerEach, FanTypes, WorkerType
<1>7. FanTypes'
  BY <1>1, <1>2, <1>4, <1>5 DEF FanTypes, tvtime
<1>8. FanPhases'
  BY <1>2 DEF FanPhases
<1>9. OneWorkerEach'
  <2>1. \A v \in DOMAIN worker : v # w => worker'[v].show # worker'[w].show
    BY <1>3, <1>4, <1>6
  <2> QED
    BY <1>1, <1>2, <1>3, <1>4, <1>5, <1>6, <2>1 DEF OneWorkerEach
<1>10. Settled'
  <2>1. \A i \in DOMAIN shows : AsksFor(i)' <=> AsksFor(i) \/ i = next
    <3>1. \A i \in DOMAIN shows : worker[w].show # i
      BY <1>1, <1>5
    <3> QED
      BY <1>3, <1>4, <1>5, <3>1 DEF AsksFor
  <2>2. \A i \in DOMAIN shows : i >= next <=> i >= next' \/ i = next
    BY <1>1, <1>5
  <2> QED
    BY <1>1, <1>2, <1>5, <2>1, <2>2 DEF Settled
<1>11. Counted' = Counted
  <2>1. seasons[next] = "none"
    BY <1>1 DEF Settled
  <2>2. \A i \in DOMAIN shows : worker[w].show # i
    BY <1>1, <1>5
  <2> QED
    BY <1>2, <1>3, <1>4, <1>5, <2>1, <2>2 DEF Counted
<1> QED
  BY <1>5, <1>7, <1>8, <1>9, <1>10, <1>11 DEF FanInv

(* A worker that has a show is the only one that has it. *)
LEMMA ItsShow ==
    ASSUME FanInv, NEW w \in DOMAIN worker, worker[w].at # "free"
    PROVE  LET i == worker[w].show
           IN  /\ i \in DOMAIN shows /\ i < next
               /\ \A v \in DOMAIN worker : v # w => worker[v].show # i
               /\ seasons[i] = "none" <=> worker[w].at \in {"first", "second"}
<1> DEFINE i == worker[w].show
<1>1. /\ FanTypes /\ OneWorkerEach /\ Settled /\ Len(shows) \in Nat
      /\ DOMAIN shows = 1..Len(shows) /\ next \in 1..(Len(shows) + 1)
  BY LenProperties DEF FanInv, FanTypes
<1>2. i \in Nat /\ i # 0 /\ i < next
  BY <1>1 DEF OneWorkerEach, FanTypes, WorkerType
<1>3. i \in DOMAIN shows /\ ~(i >= next)
  BY <1>1, <1>2
<1>4. \A v \in DOMAIN worker : v # w => worker[v].show # i
  BY <1>1, <1>2 DEF OneWorkerEach
<1>5. AsksFor(i) <=> worker[w].at \in {"first", "second"}
  BY <1>4 DEF AsksFor
<1>6. seasons[i] = "none" <=> AsksFor(i)
  BY <1>1, <1>3 DEF Settled
<1> QED
  BY <1>2, <1>3, <1>4, <1>5, <1>6

(* A step of a worker that stays with its show. *)
LEMMA SameShow ==
    ASSUME FanInv, NEW w \in DOMAIN worker, worker[w].at # "free",
           NEW r \in WorkerType, GoesOn(w, r), r.at # "free", r.show = worker[w].show,
           r.n <= Len(shows), phase = "episodes", phase' = "episodes",
           UNCHANGED <<tvtime, shows, next>>
    PROVE  /\ DOMAIN worker' = DOMAIN worker /\ worker'[w] = r
           /\ \A v \in DOMAIN worker : v # w => worker'[v] = worker[v]
           /\ worker' \in [DOMAIN worker' -> WorkerType]
           /\ FanPhases' /\ OneWorkerEach'
<1>1. /\ DOMAIN worker' = DOMAIN worker /\ worker'[w] = r
      /\ \A v \in DOMAIN worker : v # w => worker'[v] = worker[v]
      /\ worker' \in [DOMAIN worker' -> WorkerType]
  BY WorkerGoesOn DEF FanInv
<1>2. FanPhases'
  BY DEF FanPhases
<1>3. \A v \in DOMAIN worker : worker'[v].show = worker[v].show
  BY <1>1
<1>4. OneWorkerEach
  BY DEF FanInv
<1>5. worker[w].show # 0
  BY <1>4 DEF OneWorkerEach
<1>6. \A v \in DOMAIN worker : worker'[v].at = "free" <=> worker[v].at = "free"
  BY <1>1
<1>7. \A v \in DOMAIN worker : worker'[v].n <= Len(shows)
  BY <1>1, <1>4 DEF OneWorkerEach
<1>8. OneWorkerEach'
  BY <1>1, <1>3, <1>4, <1>6, <1>7 DEF OneWorkerEach
<1> QED
  BY <1>1, <1>2, <1>8

LEMMA SettleKeepsFan ==
    ASSUME FanInv, NEW w \in DOMAIN worker, worker[w].at \in {"first", "second"},
           NEW what \in {"empty", "whole", "noData"}, Settle(w, what),
           phase = "episodes", phase' = "episodes", UNCHANGED <<tvtime, shows, next, done>>
    PROVE  FanInv'
<1>0. PICK i : i = worker[w].show
  OBVIOUS
<1> DEFINE r == [worker[w] EXCEPT !.at = "counting"]
<1>1. /\ FanTypes /\ OneWorkerEach /\ Settled
      /\ seasons \in [DOMAIN shows -> {"none", "empty", "whole", "noData"}]
      /\ worker[w] \in WorkerType
  BY DEF FanInv, FanTypes
<1>2. /\ i \in DOMAIN shows /\ i < next
      /\ \A v \in DOMAIN worker : v # w => worker[v].show # i
      /\ seasons[i] = "none"
  BY <1>0, ItsShow
<1>3. /\ r \in WorkerType /\ GoesOn(w, r) /\ r.at = "counting" /\ r.show = i
      /\ r.n = worker[w].n
  BY <1>0, <1>1 DEF Settle, GoesOn, WorkerType
<1>4. /\ seasons' = [seasons EXCEPT ![i] = what]
      /\ seasons' \in [DOMAIN shows -> {"none", "empty", "whole", "noData"}]
  BY <1>0, <1>1 DEF Settle
<1> HIDE DEF r
<1>5. r.n <= Len(shows)
  BY <1>1, <1>3 DEF OneWorkerEach
<1>6. /\ DOMAIN worker' = DOMAIN worker /\ worker'[w] = r
      /\ \A v \in DOMAIN worker : v # w => worker'[v] = worker[v]
      /\ worker' \in [DOMAIN worker' -> WorkerType]
      /\ FanPhases' /\ OneWorkerEach'
  BY <1>0, <1>3, <1>5, SameShow
<1>7. FanTypes'
  BY <1>1, <1>4, <1>6 DEF FanTypes, tvtime
<1>8. /\ worker[w].show = i /\ seasons'[i] # "none"
      /\ \A k \in DOMAIN shows : k # i => seasons'[k] = seasons[k]
  BY <1>0, <1>1, <1>2, <1>4
<1>9. Settled'
  <2>1. ASSUME NEW k \in DOMAIN shows, k # i
        PROVE  AsksFor(k)' <=> AsksFor(k)
    BY <1>3, <1>6, <1>8, <2>1 DEF AsksFor
  <2>2. ~AsksFor(i)'
    BY <1>2, <1>3, <1>6 DEF AsksFor
  <2>3. ~(i >= next)
    <3>1. next \in Nat /\ i \in Nat
      BY <1>1, <1>2, LenProperties DEF FanTypes
    <3> QED
      BY <3>1, <1>2
  <2> QED
    BY <1>1, <1>8, <2>1, <2>2, <2>3 DEF Settled
<1>10. Counted' = Counted
  BY <1>2, <1>3, <1>6, <1>8 DEF Counted
<1> QED
  BY <1>6, <1>7, <1>9, <1>10 DEF FanInv

LEMMA SecondKeepsFan ==
    ASSUME FanInv, NEW w \in DOMAIN worker, worker[w].at = "first",
           worker' = [worker EXCEPT ![w].at = "second"],
           phase = "episodes", phase' = "episodes", UNCHANGED <<tvtime, shows, seasons, next, done>>
    PROVE  FanInv'
<1> DEFINE r == [worker[w] EXCEPT !.at = "second"]
<1>1. FanTypes /\ OneWorkerEach /\ Settled /\ worker[w] \in WorkerType
  BY DEF FanInv, FanTypes
<1>2. /\ r \in WorkerType /\ GoesOn(w, r) /\ r.at = "second" /\ r.show = worker[w].show
      /\ r.n = worker[w].n
  BY <1>1 DEF GoesOn, WorkerType
<1> HIDE DEF r
<1>3. r.n <= Len(shows)
  BY <1>1, <1>2 DEF OneWorkerEach
<1>4. /\ DOMAIN worker' = DOMAIN worker /\ worker'[w] = r
      /\ \A v \in DOMAIN worker : v # w => worker'[v] = worker[v]
      /\ worker' \in [DOMAIN worker' -> WorkerType]
      /\ FanPhases' /\ OneWorkerEach'
  BY <1>2, <1>3, SameShow
<1>5. FanTypes'
  BY <1>1, <1>4 DEF FanTypes, tvtime
<1>6. \A i \in DOMAIN shows : AsksFor(i)' <=> AsksFor(i)
  BY <1>2, <1>4 DEF AsksFor
<1>7. Settled'
  BY <1>1, <1>6 DEF Settled
<1>8. Counted' = Counted
  BY <1>2, <1>4 DEF Counted
<1> QED
  BY <1>4, <1>5, <1>7, <1>8 DEF FanInv

LEMMA CountKeepsFan ==
    ASSUME FanInv, NEW w \in DOMAIN worker, Count(w)
    PROVE  FanInv'
<1>0. PICK i : i = worker[w].show
  OBVIOUS
<1> DEFINE r == [worker[w] EXCEPT !.at = "reporting", !.n = done + 1]
<1>1. /\ FanTypes /\ OneWorkerEach /\ Settled /\ done = Cardinality(Counted) /\ done \in Nat
      /\ worker[w] \in WorkerType /\ worker[w].at = "counting"
      /\ UNCHANGED <<tvtime, shows, seasons, next>> /\ done' = done + 1
  BY DEF FanInv, FanTypes, Count, IsAt
<1>2. phase = "episodes" /\ phase' = "episodes"
  BY WorkIsInEpisodes DEF Work
<1>3. /\ i \in DOMAIN shows /\ i < next
      /\ \A v \in DOMAIN worker : v # w => worker[v].show # i
      /\ seasons[i] # "none"
  BY <1>0, <1>1, ItsShow
<1>4. i \notin Counted /\ i \in DOMAIN shows
  BY <1>0, <1>1, <1>3 DEF Counted
<1>5. /\ r \in WorkerType /\ GoesOn(w, r) /\ r.at = "reporting" /\ r.show = i
      /\ r.n = done + 1
  <2>1. worker \in [DOMAIN worker -> WorkerType]
    BY <1>1 DEF FanTypes
  <2>2. worker' = [worker EXCEPT ![w].at = "reporting", ![w].n = done + 1]
    BY DEF Count
  <2>3. GoesOn(w, r)
    BY <2>1, <2>2 DEF GoesOn
  <2>4. done + 1 \in Nat
    BY <1>1
  <2> DEFINE first == [worker[w] EXCEPT !.at = "reporting"]
  <2>5. first \in WorkerType /\ first.at = "reporting" /\ first.show = i
    BY <1>0, <1>1 DEF WorkerType
  <2>6. r = [first EXCEPT !.n = done + 1]
    OBVIOUS
  <2> HIDE DEF first
  <2>7. r \in WorkerType /\ r.at = "reporting" /\ r.show = i /\ r.n = done + 1
    <3> HIDE DEF r
    <3> QED
      BY <2>4, <2>5, <2>6 DEF WorkerType
  <2> QED
    BY <2>3, <2>7
<1> HIDE DEF r
<1>6. IsFiniteSet(Counted \cup {i}) /\ Cardinality(Counted \cup {i}) = done + 1
  <2>1. IsFiniteSet(Counted)
    BY <1>1, CountedFinite
  <2> HIDE DEF Counted
  <2> QED
    BY <1>1, <1>4, <2>1, FS_AddElement
<1>7. done + 1 <= Len(shows)
  <2>1. Len(shows) \in Nat /\ DOMAIN shows = 1..Len(shows)
    BY <1>1, LenProperties DEF FanTypes
  <2>2. Counted \cup {i} \subseteq 1..Len(shows)
    BY <2>1, <1>4 DEF Counted
  <2>3. IsFiniteSet(1..Len(shows)) /\ Cardinality(1..Len(shows)) = Len(shows)
    <3>1. PICK n \in Nat : n = Len(shows)
      BY <2>1
    <3>2. IsFiniteSet(1..n) /\ Cardinality(1..n) = IF 1 > n THEN 0 ELSE n - 1 + 1
      BY FS_Interval
    <3> QED
      BY <3>1, <3>2
  <2> HIDE DEF Counted
  <2>4. Cardinality(Counted \cup {i}) <= Cardinality(1..Len(shows))
    BY <2>2, <2>3, FS_Subset
  <2> QED
    BY <2>3, <2>4, <1>6
<1>8. /\ DOMAIN worker' = DOMAIN worker /\ worker'[w] = r
      /\ \A v \in DOMAIN worker : v # w => worker'[v] = worker[v]
      /\ worker' \in [DOMAIN worker' -> WorkerType]
      /\ FanPhases' /\ OneWorkerEach'
  BY <1>0, <1>1, <1>2, <1>5, <1>7, SameShow
<1>9. FanTypes'
  BY <1>1, <1>2, <1>8 DEF FanTypes, tvtime
<1>10. Settled'
  <2>1. \A k \in DOMAIN shows : AsksFor(k)' <=> AsksFor(k)
    BY <1>1, <1>5, <1>8 DEF AsksFor
  <2> QED
    BY <1>1, <2>1 DEF Settled
<1>11. Counted' = Counted \cup {i}
  <2>1. \A k \in DOMAIN shows : k # i => (k \in Counted' <=> k \in Counted)
    BY <1>0, <1>1, <1>5, <1>8 DEF Counted
  <2>2. i \in Counted'
    BY <1>1, <1>3, <1>5, <1>8 DEF Counted
  <2>3. Counted' \subseteq DOMAIN shows /\ Counted \subseteq DOMAIN shows
    BY <1>1 DEF Counted
  <2> HIDE DEF Counted
  <2> QED
    BY <1>3, <2>1, <2>2, <2>3
<1> QED
  BY <1>1, <1>6, <1>8, <1>9, <1>10, <1>11 DEF FanInv

LEMMA ReportKeepsFan ==
    ASSUME FanInv, NEW w \in DOMAIN worker, Report(w)
    PROVE  FanInv'
<1> DEFINE r == [at |-> "free", show |-> 0, n |-> 0]
<1>1. /\ FanTypes /\ OneWorkerEach /\ Settled /\ worker[w].at = "reporting"
      /\ UNCHANGED <<tvtime, shows, seasons, next, done>>
  BY DEF FanInv, Report, IsAt
<1>2. phase = "episodes" /\ phase' = "episodes"
  BY WorkIsInEpisodes DEF Work
<1>3. r \in WorkerType /\ GoesOn(w, r) /\ r.at = "free" /\ r.show = 0 /\ r.n = 0
  BY DEF Report, GoesOn, WorkerType
<1> HIDE DEF r
<1>4. /\ DOMAIN worker' = DOMAIN worker /\ worker'[w] = r
      /\ \A v \in DOMAIN worker : v # w => worker'[v] = worker[v]
      /\ worker' \in [DOMAIN worker' -> WorkerType]
  BY <1>1, <1>3, WorkerGoesOn
<1>5. Len(shows) \in Nat /\ DOMAIN shows = 1..Len(shows) /\ next \in Nat \ {0}
  BY <1>1, LenProperties DEF FanTypes
<1>6. FanTypes'
  BY <1>1, <1>2, <1>4 DEF FanTypes, tvtime
<1>7. OneWorkerEach'
  <2>1. ASSUME NEW v \in DOMAIN worker
        PROVE  /\ worker'[v].at = "free" <=> worker'[v].show = 0
               /\ worker'[v].show < next /\ worker'[v].n <= Len(shows)
    <3>1. CASE v = w
      BY <1>3, <1>4, <1>5, <3>1
    <3>2. CASE v # w
      BY <1>1, <1>4, <3>2 DEF OneWorkerEach
    <3> QED
      BY <3>1, <3>2
  <2>2. ASSUME NEW u \in DOMAIN worker, NEW v \in DOMAIN worker, u # v,
               worker'[u].show = worker'[v].show
        PROVE  worker'[u].show = 0
    BY <1>1, <1>3, <1>4, <2>2 DEF OneWorkerEach
  <2> QED
    BY <1>1, <1>4, <2>1, <2>2 DEF OneWorkerEach
<1>8. Settled'
  <2>1. \A k \in DOMAIN shows : AsksFor(k)' <=> AsksFor(k)
    BY <1>1, <1>3, <1>4 DEF AsksFor
  <2> QED
    BY <1>1, <2>1 DEF Settled
<1>9. Counted' = Counted
  BY <1>1, <1>3, <1>4, <1>5 DEF Counted
<1> QED
  BY <1>1, <1>2, <1>6, <1>7, <1>8, <1>9 DEF FanInv, FanPhases

LEMMA WorkKeepsFan ==
    ASSUME FanInv, NEW w \in DOMAIN worker, Work(w)
    PROVE  FanInv'
<1>1. phase = "episodes" /\ phase' = "episodes"
  BY WorkIsInEpisodes
<1>2. CASE NoSeriesID(w)
  BY <1>1, <1>2, SettleKeepsFan DEF NoSeriesID, IsAt
<1>3. CASE SeasonsFetched(w)
  BY <1>1, <1>3, SettleKeepsFan DEF SeasonsFetched, IsAt
<1>4. CASE SeasonsFail(w)
  <2>1. UNCHANGED <<tvtime, shows, next, done>>
    BY <1>4 DEF SeasonsFail
  <2>2. CASE IsAt(w, "first") /\ worker' = [worker EXCEPT ![w].at = "second"] /\ UNCHANGED seasons
    BY <1>1, <2>1, <2>2, SecondKeepsFan DEF IsAt
  <2>3. CASE IsAt(w, "second") /\ Settle(w, "noData")
    BY <1>1, <2>1, <2>3, SettleKeepsFan DEF IsAt
  <2> QED
    BY <1>4, <2>2, <2>3 DEF SeasonsFail
<1> QED
  BY <1>2, <1>3, <1>4, TakeKeepsFan, CountKeepsFan, ReportKeepsFan DEF Work

--------------------------------------------------------------------------------
(* The steps from one phase to the next *)

LEMMA InitFan == Init => FanInv
<1> SUFFICES ASSUME Init PROVE FanInv
  OBVIOUS
<1>1. /\ shows = <<>> /\ seasons = <<>> /\ next = 1 /\ worker = <<>> /\ done = 0
      /\ phase = "follows"
  BY DEF Init
<1>2. DOMAIN shows = {} /\ DOMAIN worker = {} /\ DOMAIN seasons = {} /\ Len(shows) = 0
  BY <1>1
<1>3. Counted = {}
  BY <1>2 DEF Counted
<1>4. Cardinality({}) = 0
  BY FS_EmptySet
<1>5. FanTypes
  BY <1>1, <1>2 DEF FanTypes
<1>6. FanPhases /\ OneWorkerEach /\ Settled
  BY <1>1, <1>2 DEF FanPhases, OneWorkerEach, Settled
<1> QED
  BY <1>1, <1>3, <1>4, <1>5, <1>6 DEF FanInv

LEMMA FanStays ==
    ASSUME FanInv, UNCHANGED <<tvtime, phase, fanout>>
    PROVE  FanInv'
  BY DEF FanInv, FanTypes, FanPhases, OneWorkerEach, Settled, AsksFor, Counted, AllDone, IsAt,
         fanout, tvtime

\* The shows there can be.
Followed == {s \in FollowLists \X (Nat \ {0}) : s[2] <= size[s[1]]}

LEMMA ShowsOfList ==
    ASSUME PagesAreSound, NEW l \in FollowLists
    PROVE  /\ ShowsOf(l) \in Seq(Followed)
           /\ \A n : <<l, n>> \in ToSet(ShowsOf(l)) <=> n \in ToSet(fetch[l].got)
<1> DEFINE got == fetch[l].got
           s == ShowsOf(l)
<1>1. l \in Lists /\ got \in Seq(1..size[l]) /\ size[l] \in Nat
  BY DEF PagesAreSound, Sound, Extent, Lists
<1>2. s = [i \in DOMAIN got |-> <<l, got[i]>>]
  BY DEF ShowsOf
<1> HIDE DEF s, got
<1>3. Len(got) \in Nat /\ DOMAIN got = 1..Len(got) /\ \A i \in DOMAIN got : got[i] \in 1..size[l]
  BY <1>1, SeqFacts
<1>4. \A n \in 1..size[l] : <<l, n>> \in Followed
  BY <1>1 DEF Followed
<1>5. s \in [1..Len(got) -> Followed]
  BY <1>2, <1>3, <1>4
<1>6. s \in Seq(Followed)
  BY <1>3, <1>5, FunctionIsSeq
<1>7. \A n : <<l, n>> \in ToSet(s) <=> n \in ToSet(got)
  BY <1>2, <1>3 DEF ToSet
<1> QED
  BY <1>6, <1>7 DEF s, got

LEMMA ShowsTakenOver ==
    ASSUME PagesAreSound, FollowsFetched
    PROVE  /\ shows' \in Seq(Followed)
           /\ \A l \in FollowLists : \A n \in ToSet(fetch[l].got) : <<l, n>> \in ToSet(shows')
<1> DEFINE s == ShowsOf("series")
           t == ShowsOf("anime")
<1>1. "series" \in FollowLists /\ "anime" \in FollowLists
  BY DEF FollowLists
<1>2. s \in Seq(Followed) /\ \A n : <<"series", n>> \in ToSet(s) <=> n \in ToSet(fetch["series"].got)
  BY <1>1, ShowsOfList
<1>3. t \in Seq(Followed) /\ \A n : <<"anime", n>> \in ToSet(t) <=> n \in ToSet(fetch["anime"].got)
  BY <1>1, ShowsOfList
<1>4. shows' = s \o t
  BY DEF FollowsFetched
<1> HIDE DEF s, t
<1>5. s \o t \in Seq(Followed) /\ ToSet(s \o t) = ToSet(s) \cup ToSet(t)
  BY <1>2, <1>3, JoinHolds
<1>6. \A l \in FollowLists : l = "series" \/ l = "anime"
  BY DEF FollowLists
<1> QED
  BY <1>2, <1>3, <1>4, <1>5, <1>6

LEMMA FollowsKeepFan ==
    ASSUME PagesAreSound, FanInv, FollowsFetched
    PROVE  FanInv'
<1>1. /\ phase = "follows" /\ phase' = "watches" /\ UNCHANGED <<tvtime, next, worker, done>>
      /\ seasons' = [i \in DOMAIN shows' |-> "none"]
  BY DEF FollowsFetched
<1>2. shows = <<>> /\ DOMAIN worker = {} /\ next = 1 /\ FanTypes /\ done = Cardinality(Counted)
  BY <1>1 DEF FanInv, FanPhases
<1>3. shows' \in Seq(Followed)
  BY ShowsTakenOver
<1>4. /\ Len(shows') \in Nat /\ DOMAIN shows' = 1..Len(shows')
      /\ \A i \in DOMAIN shows' : shows'[i] \in Followed
  BY <1>3, SeqFacts
<1>5. shows' \in Seq(FollowLists \X (Nat \ {0}))
  <2>1. Followed \subseteq FollowLists \X (Nat \ {0})
    BY DEF Followed
  <2> QED
    BY <1>3, <2>1, SeqMonotonic
<1>6. \A i \in DOMAIN shows' : shows'[i][2] <= size'[shows'[i][1]]
  BY <1>1, <1>4 DEF Followed, tvtime
<1>7. FanTypes'
  BY <1>1, <1>2, <1>4, <1>5, <1>6 DEF FanTypes
<1>8. FanPhases' /\ OneWorkerEach'
  BY <1>1, <1>2 DEF FanPhases, OneWorkerEach
<1>9. Settled'
  BY <1>1, <1>2, <1>4 DEF Settled
<1>10. Counted' = {} /\ Counted = {}
  <2>1. DOMAIN shows = {}
    BY <1>2
  <2> QED
    BY <1>1, <2>1 DEF Counted
<1> QED
  BY <1>1, <1>2, <1>7, <1>8, <1>9, <1>10 DEF FanInv

LEMMA WatchesKeepFan ==
    ASSUME FanInv, WatchesFetched
    PROVE  FanInv'
<1>1. /\ phase = "watches" /\ phase' = "episodes" /\ UNCHANGED <<tvtime, shows, seasons, next, done>>
      /\ worker' = [w \in 1..NumWorkers(Len(shows)) |-> [at |-> "free", show |-> 0, n |-> 0]]
  BY DEF WatchesFetched
<1>2. /\ next = 1 /\ FanTypes /\ done = Cardinality(Counted)
      /\ \A i \in DOMAIN shows : seasons[i] = "none"
      /\ Len(shows) \in Nat /\ DOMAIN shows = 1..Len(shows)
  BY <1>1, LenProperties DEF FanInv, FanPhases, FanTypes
<1>3. /\ worker' \in [DOMAIN worker' -> WorkerType]
      /\ \A w \in DOMAIN worker' : worker'[w].at = "free" /\ worker'[w].show = 0 /\ worker'[w].n = 0
  BY <1>1 DEF WorkerType
<1>4. FanTypes'
  BY <1>1, <1>2, <1>3 DEF FanTypes, tvtime
<1>5. FanPhases' /\ OneWorkerEach'
  BY <1>1, <1>2, <1>3 DEF FanPhases, OneWorkerEach
<1>6. Settled'
  BY <1>1, <1>2 DEF Settled
<1>7. Counted' = {} /\ Counted = {}
  BY <1>1, <1>2 DEF Counted
<1> QED
  BY <1>1, <1>2, <1>4, <1>5, <1>6, <1>7 DEF FanInv

LEMMA DoneKeepsFan ==
    ASSUME FanInv, ExportDone
    PROVE  FanInv'
<1>1. phase' = "done" /\ UNCHANGED <<tvtime, fanout>> /\ AllDone
  BY DEF ExportDone
<1>2. UNCHANGED <<shows, seasons, next, worker, done, size>>
  BY <1>1 DEF fanout, tvtime
<1>3. AllDone'
  BY <1>1, <1>2 DEF AllDone, IsAt
<1>4. FanPhases'
  BY <1>1, <1>3 DEF FanPhases
<1>5. FanTypes' /\ OneWorkerEach' /\ Settled' /\ Counted' = Counted
  BY <1>1, <1>2 DEF FanInv, FanTypes, OneWorkerEach, Settled, AsksFor, Counted
<1> QED
  BY <1>2, <1>4, <1>5 DEF FanInv

LEMMA FanStep ==
    ASSUME PagesAreSound, FanInv, [Next]_vars
    PROVE  FanInv'
<1>1. CASE \E l \in Lists : Fetch(l)
  BY <1>1, FetchMoves, FanStays
<1>2. CASE \E w \in DOMAIN worker : Work(w)
  BY <1>2, WorkKeepsFan
<1>3. CASE Main
  BY <1>3, FollowsKeepFan, WatchesKeepFan, DoneKeepsFan DEF Main
<1>4. CASE UNCHANGED vars
  BY <1>4, FanStays DEF vars
<1> QED
  BY <1>1, <1>2, <1>3, <1>4 DEF Next

LEMMA PagesStep ==
    ASSUME PagesAreSound, FanInv, [Next]_vars
    PROVE  PagesAreSound'
<1>1. CASE \E l \in Lists : Fetch(l)
  BY <1>1, FetchKeepsPages
<1>2. CASE \E w \in DOMAIN worker : Work(w)
  BY <1>2, WorkIsInEpisodes, PagesStay
<1>3. CASE Main
  <2>1. CASE ExportDone
    BY <2>1, PagesStay DEF ExportDone
  <2> QED
    BY <1>3, <2>1, FollowsKeepPages, WatchesKeepPages DEF Main
<1>4. CASE UNCHANGED vars
  BY <1>4, PagesStay DEF vars
<1> QED
  BY <1>1, <1>2, <1>3, <1>4 DEF Next

--------------------------------------------------------------------------------
(* What is taken over *)

LEMMA ReturnedIsWhole ==
    ASSUME PagesAreSound, NEW l \in Lists, fetch[l].at = "returned", ~HasGap(l)
    PROVE  Within(l) \subseteq ToSet(fetch[l].got)
<1>1. /\ Extent /\ Explained(l, fetch[l], missed[l], cut[l]) /\ missed[l] = {} /\ cut[l] = "no"
  BY DEF PagesAreSound, Sound, HasGap
<1>2. UpTo(l, fetch[l].got, {}, size[l])
  BY <1>1 DEF Explained
<1>3. OnPages(l, {}) = {}
  BY DEF OnPages
<1>4. \A n \in Within(l) : n <= size[l]
  <2>1. size[l] \in Nat
    BY <1>1 DEF Extent
  <2> QED
    BY <1>1, <2>1, WithinNumbers
<1> QED
  BY <1>2, <1>3, <1>4 DEF UpTo

LEMMA WithinStays == ASSUME UNCHANGED tvtime, NEW l PROVE Within(l)' = Within(l)
  BY DEF tvtime, Within, Page, Least

\* The export depends on what was taken over and on the seasons.
LEMMA ResultStays ==
    ASSUME UNCHANGED <<shows, seasons, watches>>
    PROVE  normalizeShows' = normalizeShows
  BY DEF normalizeShows, SeasonsOf, buildWatchedAtMap, OfFollowed

LEMMA InitHistory == Init => HistoryInv
<1> SUFFICES ASSUME Init PROVE HistoryInv
  OBVIOUS
<1>1. watches = <<>> /\ gaps = {} /\ phase = "follows" /\ result = NoResult
  BY DEF Init
<1>2. DOMAIN watches = {} /\ watches \in Seq(1..size["episode"])
  BY <1>1
<1> QED
  BY <1>1, <1>2 DEF HistoryInv, Increasing

(* A step that takes nothing over, before the export. *)
LEMMA HistoryStays ==
    ASSUME HistoryInv, UNCHANGED <<tvtime, phase, shows, history>>, phase # "done"
    PROVE  HistoryInv'
<1>1. UNCHANGED <<watches, gaps, result, size>>
  BY DEF history, tvtime
<1>2. \A l \in Lists : Within(l)' = Within(l)
  BY WithinStays
<1>3. FollowLists \subseteq Lists /\ "episode" \in Lists
  BY DEF Lists
<1> QED
  BY <1>1, <1>2, <1>3 DEF HistoryInv, Increasing

LEMMA FollowsKeepHistory ==
    ASSUME PagesAreSound, HistoryInv, FollowsFetched
    PROVE  HistoryInv'
<1>1. /\ phase = "follows" /\ phase' = "watches" /\ UNCHANGED <<tvtime, watches, result>>
      /\ \A l \in FollowLists : Fetched(l) /\ gaps' = {k \in FollowLists : HasGap(k)}
  BY DEF FollowsFetched
<1>2. gaps' = {k \in FollowLists : HasGap(k)} /\ FollowLists \subseteq Lists
  BY DEF FollowsFetched, Lists
<1>3. ASSUME NEW l \in FollowLists, l \notin gaps', NEW n \in Within(l)'
      PROVE  <<l, n>> \in ToSet(shows')
  <2>1. fetch[l].at = "returned" /\ ~HasGap(l) /\ l \in Lists
    BY <1>1, <1>2, <1>3 DEF Fetched
  <2>2. n \in Within(l)
    BY <1>1, <1>3, WithinStays
  <2>3. n \in ToSet(fetch[l].got)
    BY <2>1, <2>2, ReturnedIsWhole
  <2> QED
    BY <2>3, ShowsTakenOver
<1>4. watches' \in Seq(1..size'["episode"]) /\ Increasing(watches)'
  BY <1>1 DEF HistoryInv, Increasing, tvtime
<1>5. gaps' \subseteq Lists
  BY <1>2
<1>6. result' = NoResult
  BY <1>1 DEF HistoryInv
<1> QED
  BY <1>1, <1>3, <1>4, <1>5, <1>6 DEF HistoryInv

LEMMA WatchesKeepHistory ==
    ASSUME PagesAreSound, HistoryInv, WatchesFetched
    PROVE  HistoryInv'
<1>1. /\ phase = "watches" /\ phase' = "episodes" /\ UNCHANGED <<tvtime, shows, result>>
      /\ Fetched("episode") /\ watches' = fetch["episode"].got
      /\ gaps' = gaps \cup {l \in {"episode"} : HasGap(l)}
      /\ "episode" \in Lists /\ "episode" \notin FollowLists
  BY DEF WatchesFetched, Lists, FollowLists
<1>2. watches' \in Seq(1..size'["episode"]) /\ Increasing(watches)'
  <2>1. Sound("episode", fetch["episode"], missed["episode"], cut["episode"])
    BY <1>1 DEF PagesAreSound
  <2> QED
    BY <1>1, <2>1 DEF Sound, tvtime, Increasing
<1>3. "episode" \in gaps' \/ Within("episode")' \subseteq ToSet(watches')
  <2>1. CASE HasGap("episode")
    BY <1>1, <2>1
  <2>2. CASE ~HasGap("episode")
    <3>1. Within("episode") \subseteq ToSet(fetch["episode"].got)
      BY <1>1, <2>2, ReturnedIsWhole DEF Fetched
    <3>2. Within("episode")' = Within("episode")
      BY <1>1, WithinStays
    <3> QED
      BY <1>1, <3>1, <3>2
  <2> QED
    BY <2>1, <2>2
<1>4. \A l \in FollowLists \ gaps' : \A n \in Within(l)' : <<l, n>> \in ToSet(shows')
  <2>1. \A l \in FollowLists : Within(l)' = Within(l)
    BY <1>1, WithinStays
  <2>2. \A l \in FollowLists \ gaps' : l \in FollowLists \ gaps
    BY <1>1
  <2> QED
    BY <1>1, <2>1, <2>2 DEF HistoryInv
<1>5. gaps' \subseteq Lists /\ result' = NoResult
  BY <1>1 DEF HistoryInv
<1> QED
  BY <1>1, <1>2, <1>3, <1>4, <1>5 DEF HistoryInv

LEMMA DoneKeepsHistory ==
    ASSUME HistoryInv, ExportDone
    PROVE  HistoryInv'
<1>1. /\ phase = "episodes" /\ phase' = "done" /\ UNCHANGED <<tvtime, shows, seasons, watches, gaps>>
      /\ result' = [shows |-> normalizeShows, watched |-> countWatchedEpisodes(normalizeShows)]
  BY DEF ExportDone, fanout
<1>2. normalizeShows' = normalizeShows
  BY <1>1, ResultStays
<1>3. /\ watches' \in Seq(1..size'["episode"]) /\ Increasing(watches)' /\ gaps' \subseteq Lists
  BY <1>1 DEF HistoryInv, Increasing, tvtime
<1>4. Within("episode")' = Within("episode") /\ \A l \in FollowLists : Within(l)' = Within(l)
  BY <1>1, WithinStays
<1>5. "episode" \in gaps' \/ Within("episode")' \subseteq ToSet(watches')
  BY <1>1, <1>4 DEF HistoryInv
<1>6. \A l \in FollowLists \ gaps' : \A n \in Within(l)' : <<l, n>> \in ToSet(shows')
  BY <1>1, <1>4 DEF HistoryInv
<1>7. result' = [shows |-> normalizeShows', watched |-> countWatchedEpisodes(normalizeShows')]
  BY <1>1, <1>2
<1> QED
  BY <1>1, <1>3, <1>5, <1>6, <1>7 DEF HistoryInv

LEMMA HistoryStutters ==
    ASSUME HistoryInv, UNCHANGED vars
    PROVE  HistoryInv'
<1>1. UNCHANGED <<tvtime, phase, shows, seasons, history, watches, gaps, result, size>>
  BY DEF vars, fanout, history, tvtime
<1>2. normalizeShows' = normalizeShows
  BY <1>1, ResultStays
<1>3. CASE phase # "done"
  BY <1>1, <1>3, HistoryStays
<1>4. CASE phase = "done"
  <2>1. Within("episode")' = Within("episode") /\ \A l \in FollowLists : Within(l)' = Within(l)
    BY <1>1, WithinStays
  <2>2. result' = [shows |-> normalizeShows', watched |-> countWatchedEpisodes(normalizeShows')]
    BY <1>1, <1>2, <1>4 DEF HistoryInv
  <2>3. /\ watches' \in Seq(1..size'["episode"]) /\ Increasing(watches)' /\ gaps' \subseteq Lists
    BY <1>1 DEF HistoryInv, Increasing
  <2>4. "episode" \in gaps' \/ Within("episode")' \subseteq ToSet(watches')
    BY <1>1, <1>4, <2>1 DEF HistoryInv
  <2>5. \A l \in FollowLists \ gaps' : \A n \in Within(l)' : <<l, n>> \in ToSet(shows')
    BY <1>1, <1>4, <2>1 DEF HistoryInv
  <2> QED
    BY <1>1, <1>4, <2>2, <2>3, <2>4, <2>5 DEF HistoryInv
<1> QED
  BY <1>3, <1>4

LEMMA HistoryStep ==
    ASSUME PagesAreSound, FanInv, HistoryInv, [Next]_vars
    PROVE  HistoryInv'
<1>1. CASE \E l \in Lists : Fetch(l)
  <2>1. PICK l \in Lists : Fetch(l)
    BY <1>1
  <2>2. fetch[l].at # "idle" /\ UNCHANGED <<tvtime, phase, fanout, history>>
    BY <2>1, FetchMoves
  <2>3. phase # "done"
    BY <2>2 DEF PagesAreSound, Lists
  <2> QED
    BY <2>2, <2>3, HistoryStays DEF fanout
<1>2. CASE \E w \in DOMAIN worker : Work(w)
  BY <1>2, WorkIsInEpisodes, HistoryStays
<1>3. CASE Main
  BY <1>3, FollowsKeepHistory, WatchesKeepHistory, DoneKeepsHistory DEF Main
<1>4. CASE UNCHANGED vars
  BY <1>4, HistoryStutters
<1> QED
  BY <1>1, <1>2, <1>3, <1>4 DEF Next

--------------------------------------------------------------------------------
(* The theorems *)

(* The inductive invariant: at every point of an export the pages got, the   *)
(* workers and what was taken over are as GatherInv says.                    *)
THEOREM GatheringIsSound == Spec => []GatherInv
<1>1. Init => GatherInv
  BY InitPages, InitFan, InitHistory DEF GatherInv
<1>2. GatherInv /\ [Next]_vars => GatherInv'
  BY PagesStep, FanStep, HistoryStep DEF GatherInv
<1> QED
  BY <1>1, <1>2, PTL DEF Spec

LEMMA RecordTypes ==
    ASSUME PagesAreSound, FanTypes, NEW l \in Lists
    PROVE  /\ fetch[l] \in [at : {"idle", "asking", "returned"}, offset : Nat,
                            attempt : 0..maxPageRetries, limited : BOOLEAN,
                            fails : 0..maxConsecutivePageFails, last : 0..size[l],
                            got : Seq(1..size[l]), try : 1..maxEmptyRetries]
           /\ missed[l] \subseteq Nat /\ cut[l] \in {"no", "refused", "hollow", "failing"}
<1>1. /\ fetch[l] \in FetchType /\ fetch[l].last <= size[l] /\ fetch[l].got \in Seq(1..size[l])
      /\ missed[l] \subseteq Nat /\ cut[l] \in Cuts /\ size[l] \in Nat
  BY DEF PagesAreSound, Sound, Extent
<1>2. fetch[l].last \in 0..size[l]
  BY <1>1 DEF FetchType
<1> QED
  BY <1>1, <1>2 DEF FetchType, Cuts

LEMMA TypesHold == GatherInv => TypeOK
<1> SUFFICES ASSUME GatherInv PROVE TypeOK
  OBVIOUS
<1>1. PagesAreSound /\ FanInv /\ HistoryInv /\ FanTypes /\ Extent
  BY DEF GatherInv, FanInv, PagesAreSound
<1>2. \A l \in Lists :
          /\ fetch[l] \in [at : {"idle", "asking", "returned"}, offset : Nat,
                           attempt : 0..maxPageRetries, limited : BOOLEAN,
                           fails : 0..maxConsecutivePageFails, last : 0..size[l],
                           got : Seq(1..size[l]), try : 1..maxEmptyRetries]
          /\ missed[l] \subseteq Nat /\ cut[l] \in {"no", "refused", "hollow", "failing"}
  BY <1>1, RecordTypes
<1>3. done \in 0..Len(shows)
  BY <1>1, CountedFinite DEF FanInv
<1>4. ASSUME NEW w \in DOMAIN worker
      PROVE  worker[w] \in [at : {"free", "first", "second", "counting", "reporting"},
                            show : 0..Len(shows), n : 0..Len(shows)]
  <2>1. /\ worker[w] \in WorkerType /\ worker[w].show < next /\ worker[w].n <= Len(shows)
        /\ next \in 1..(Len(shows) + 1) /\ Len(shows) \in Nat
    BY <1>1, LenProperties DEF FanInv, FanTypes, OneWorkerEach
  <2>2. worker[w].show \in 0..Len(shows) /\ worker[w].n \in 0..Len(shows)
    BY <2>1 DEF WorkerType
  <2> QED
    BY <2>1, <2>2 DEF WorkerType
<1>5. phase # "done" => result = NoResult
  BY <1>1 DEF HistoryInv
<1> QED
  BY <1>1, <1>2, <1>3, <1>4, <1>5 DEF TypeOK, Extent, FanTypes, HistoryInv

(* For lists and pages of any size, and any number of failures, what a fetch *)
(* did not get lies on a page passed over, or behind the point of a cut.     *)
THEOREM GapsAreExplainedHolds == Spec => []GapsAreExplained
<1>1. GatherInv => GapsAreExplained
  <2> SUFFICES ASSUME GatherInv PROVE GapsAreExplained
    OBVIOUS
  <2>1. ASSUME NEW l \in Lists, fetch[l].at = "returned"
        PROVE  LET f == fetch[l]
                   end == IF cut[l] # "no" THEN f.offset ELSE size[l]
               IN  /\ \A i, j \in DOMAIN f.got : i < j => f.got[i] < f.got[j]
                   /\ \A n \in Within(l) : n <= end => n \in ToSet(f.got) \cup Missed(l)
                   /\ cut[l] = "failing" =>
                         \A k \in 0..(maxConsecutivePageFails - 1) :
                            f.offset - k * PageLimit \in missed[l]
    <3>1. Increasing(fetch[l].got) /\ Explained(l, fetch[l], missed[l], cut[l])
      BY <2>1 DEF GatherInv, PagesAreSound, Sound
    <3>2. OnPages(l, missed[l]) = Missed(l)
      BY DEF OnPages, Missed
    <3> QED
      BY <3>1, <3>2 DEF Increasing, Explained, UpTo
  <2> QED
    BY <2>1, TypesHold DEF GapsAreExplained
<1> QED
  BY <1>1, GatheringIsSound, PTL

(* For any number of shows and of workers, an export that returns has every  *)
(* show settled and counted once, and no worker has a callback to make.      *)
THEOREM NothingLeftBehindHolds == Spec => []NothingLeftBehind
<1>1. GatherInv => NothingLeftBehind
  <2> SUFFICES ASSUME GatherInv PROVE NothingLeftBehind
    OBVIOUS
  <2>1. /\ FanTypes /\ FanPhases /\ OneWorkerEach /\ Settled /\ done = Cardinality(Counted)
        /\ Len(shows) \in Nat /\ DOMAIN shows = 1..Len(shows) /\ next \in Nat
    BY LenProperties DEF GatherInv, FanInv, FanTypes
  <2>2. ASSUME phase = "done"
        PROVE  /\ \A i \in DOMAIN shows : seasons[i] # "none"
               /\ done = Len(shows)
               /\ \A w \in DOMAIN worker : worker[w].at = "free"
    <3>1. next > Len(shows) /\ \A w \in DOMAIN worker : worker[w].at = "free"
      BY <2>1, <2>2 DEF FanPhases, AllDone, IsAt
    <3>2. \A i \in DOMAIN shows : ~(i >= next) /\ ~AsksFor(i)
      BY <2>1, <3>1 DEF AsksFor
    <3>3. \A i \in DOMAIN shows : seasons[i] # "none"
      BY <2>1, <3>2 DEF Settled
    <3>4. Counted = DOMAIN shows
      BY <3>1, <3>3 DEF Counted
    <3>5. Cardinality(DOMAIN shows) = Len(shows)
      <4>1. PICK n \in Nat : n = Len(shows)
        BY <2>1
      <4>2. IsFiniteSet(1..n) /\ Cardinality(1..n) = IF 1 > n THEN 0 ELSE n - 1 + 1
        BY FS_Interval
      <4> QED
        BY <2>1, <4>1, <4>2
    <3> QED
      BY <2>1, <3>1, <3>3, <3>4, <3>5
  <2> QED
    BY <2>1, <2>2 DEF NothingLeftBehind, OneWorkerEach
<1> QED
  BY <1>1, GatheringIsSound, PTL

--------------------------------------------------------------------------------
(* The greatest of some numbers *)

LEMMA GreatestExists ==
    ASSUME NEW S \in SUBSET Nat, S # {}, NEW n \in Nat, \A x \in S : x <= n
    PROVE  \E x \in S : \A y \in S : y <= x
<1> DEFINE T == {n - x : x \in S}
           R == OpToRel(<, Nat)
<1>1. T \subseteq Nat /\ T # {}
  <2>1. \A x \in S : n - x \in Nat
    BY SMT
  <2> QED
    BY <2>1
<1>2. \E t \in T : \A u \in T : ~(<<u, t>> \in R)
  <2>1. IsWellFoundedOn(R, Nat)
    BY NatLessThanWellFounded
  <2> HIDE DEF T, R
  <2> QED
    BY <1>1, <2>1, WFMin
<1>3. PICK t \in T : \A u \in T : ~(<<u, t>> \in R)
  BY <1>2
<1>4. \A u \in T : t <= u
  <2> SUFFICES ASSUME NEW u \in T PROVE t <= u
    OBVIOUS
  <2>1. t \in Nat /\ u \in Nat
    BY <1>1
  <2>2. <<u, t>> \in R <=> u < t
    BY <2>1 DEF OpToRel
  <2>3. <<u, t>> \notin R
    BY <1>3
  <2> HIDE DEF T, R
  <2> QED
    BY <2>1, <2>2, <2>3
<1>5. PICK x \in S : t = n - x
  OBVIOUS
<1>6. \A y \in S : y <= x
  <2> SUFFICES ASSUME NEW y \in S PROVE y <= x
    OBVIOUS
  <2>1. t <= n - y
    BY <1>4
  <2> QED
    BY <1>5, <2>1
<1> QED
  BY <1>6

LEMMA MaxIs ==
    ASSUME NEW S \in SUBSET Nat, NEW m \in S, \A x \in S : x <= m
    PROVE  Max(S) = m
<1>1. \A x \in S : m >= x
  BY SMT
<1> DEFINE max == Max(S)
<1>2. max \in S /\ \A x \in S : max >= x
  BY <1>1 DEF Max
<1> HIDE DEF max
<1>3. max \in Nat /\ m \in Nat /\ max <= m /\ max >= m
  BY <1>2
<1>4. max = m
  BY <1>3
<1> QED
  BY <1>4 DEF max

LEMMA MaxOf ==
    ASSUME NEW S \in SUBSET Nat, S # {}, NEW n \in Nat, \A x \in S : x <= n
    PROVE  Max(S) \in S /\ \A x \in S : x <= Max(S)
<1>1. PICK m \in S : \A x \in S : x <= m
  BY GreatestExists
<1> QED
  BY <1>1, MaxIs

--------------------------------------------------------------------------------
(* What the export tells *)

LEMMA EpisodesAre ==
    ASSUME Extent, FanTypes, NEW i \in DOMAIN shows
    PROVE  EpisodesOf[shows[i]] \in Seq(ExportEpisode)
<1>1. PICK l \in FollowLists, n \in Nat \ {0} : shows[i] = <<l, n>>
  BY DEF FanTypes
<1>2. n <= size[l]
  BY <1>1 DEF FanTypes
<1>3. l \in Lists /\ size[l] \in Nat /\ size[l] <= MaxObjects[l]
  BY DEF Lists, Extent
<1>4. MaxObjects[l] \in Nat
  BY <1>3, GatherAssumption
<1>5. n \in 1..MaxObjects[l]
  BY <1>2, <1>3, <1>4
<1> QED
  BY <1>1, <1>5, GatherAssumption

\* The part of the export that is the seasons of shows[i].
SeasonsTold(i) ==
    [s \in DOMAIN SeasonsOf(i) |-> NormalSeason(SeasonsOf(i)[s], buildWatchedAtMap)]

LEMMA ShowTold ==
    ASSUME NEW i \in DOMAIN shows
    PROVE  DOMAIN normalizeShows = DOMAIN shows /\ normalizeShows[i].seasons = SeasonsTold(i)
BY DEF normalizeShows, SeasonsTold

\* An episode that is listed is told of in its season, at its place.
LEMMA SeasonsAre ==
    ASSUME Extent, FanTypes, NEW i \in DOMAIN shows
    PROVE  /\ \A s, k : s \in DOMAIN SeasonsTold(i) /\ k \in DOMAIN SeasonsTold(i)[s]
                        <=> k \in Listed(i) /\ s = EpisodeAt(i, k).season
           /\ \A k \in Listed(i) :
                 SeasonsTold(i)[EpisodeAt(i, k).season][k] = Normal(EpisodeAt(i, k), buildWatchedAtMap)
<1> DEFINE eps == EpisodesOf[shows[i]]
           OfSeason(s) == {j \in DOMAIN eps : eps[j].season = s}
           M == buildWatchedAtMap
<1>1. CASE seasons[i] # "whole"
  <2>1. DOMAIN SeasonsTold(i) = {} /\ Listed(i) = {}
    BY <1>1 DEF SeasonsTold, SeasonsOf, Listed
  <2> QED
    BY <2>1
<1>2. CASE seasons[i] = "whole"
  <2>1. SeasonsOf(i) = Seasons(eps) /\ Listed(i) = {k \in DOMAIN eps : ~eps[k].tba}
    BY <1>2 DEF SeasonsOf, Listed
  <2>2. \A k : EpisodeAt(i, k) = eps[k]
    BY DEF EpisodeAt
  <2> HIDE DEF M, eps
  <2>3. DOMAIN Seasons(eps) = {eps[k].season : k \in DOMAIN eps}
    BY DEF Seasons
  <2>4. \A s \in DOMAIN Seasons(eps) : Seasons(eps)[s] = [k \in OfSeason(s) |-> eps[k]]
    BY DEF Seasons
  <2>5. SeasonsTold(i) = [s \in DOMAIN Seasons(eps) |-> NormalSeason(Seasons(eps)[s], M)]
    BY <2>1, Zenon DEF SeasonsTold, M
  <2>6. \A s \in DOMAIN Seasons(eps) :
           SeasonsTold(i)[s] = [k \in {j \in OfSeason(s) : ~eps[j].tba} |-> Normal(eps[k], M)]
    <3> TAKE s \in DOMAIN Seasons(eps)
    <3>1. SeasonsTold(i)[s] = NormalSeason([k \in OfSeason(s) |-> eps[k]], M)
      BY <2>4, <2>5
    <3> QED
      BY <3>1 DEF NormalSeason
  <2>7. DOMAIN SeasonsTold(i) = {eps[k].season : k \in DOMAIN eps}
    BY <2>3, <2>5
  <2>8. \A s \in DOMAIN SeasonsTold(i) : DOMAIN SeasonsTold(i)[s] = {j \in OfSeason(s) : ~eps[j].tba}
    <3> TAKE s \in DOMAIN SeasonsTold(i)
    <3> DEFINE T == {j \in OfSeason(s) : ~eps[j].tba}
    <3>1. SeasonsTold(i)[s] = [k \in T |-> Normal(eps[k], M)]
      BY <2>3, <2>6, <2>7
    <3> HIDE DEF T
    <3>2. DOMAIN SeasonsTold(i)[s] = T
      BY <3>1
    <3> QED
      BY <3>2 DEF T
  <2>9. ASSUME NEW k \in Listed(i)
        PROVE  SeasonsTold(i)[eps[k].season][k] = Normal(eps[k], M)
    <3>1. k \in DOMAIN eps /\ ~eps[k].tba /\ k \in OfSeason(eps[k].season)
      BY <2>1
    <3>2. eps[k].season \in DOMAIN Seasons(eps)
      BY <2>3, <3>1
    <3> QED
      BY <2>6, <3>1, <3>2
  <2>10. ASSUME NEW s, NEW k
         PROVE  s \in DOMAIN SeasonsTold(i) /\ k \in DOMAIN SeasonsTold(i)[s]
                  <=> k \in Listed(i) /\ s = eps[k].season
    BY <2>1, <2>7, <2>8
  <2>11. \A k \in Listed(i) : SeasonsTold(i)[EpisodeAt(i, k).season][k] = Normal(EpisodeAt(i, k), M)
    BY <2>2, <2>9
  <2>12. \A s, k : s \in DOMAIN SeasonsTold(i) /\ k \in DOMAIN SeasonsTold(i)[s]
                  <=> k \in Listed(i) /\ s = EpisodeAt(i, k).season
    BY <2>2, <2>10
  <2> QED
    BY <2>11, <2>12, Zenon DEF M
<1> QED
  BY <1>1, <1>2

LEMMA PlacesAre ==
    ASSUME Extent, FanTypes
    PROVE  \A i, s, k : <<i, s, k>> \in PlacesIn(normalizeShows)
                          <=> i \in DOMAIN shows /\ k \in Listed(i) /\ s = EpisodeAt(i, k).season
<1> DEFINE E == normalizeShows
<1>1. DOMAIN E = DOMAIN shows /\ \A i \in DOMAIN shows : E[i].seasons = SeasonsTold(i)
  BY ShowTold DEF normalizeShows
<1> HIDE DEF E
<1>2. \A i, s, k : <<i, s, k>> \in PlacesIn(E)
                     <=> i \in DOMAIN E /\ s \in DOMAIN E[i].seasons /\ k \in DOMAIN E[i].seasons[s]
  BY DEF PlacesIn
<1>3. ASSUME NEW i, NEW s, NEW k
      PROVE  <<i, s, k>> \in PlacesIn(E)
               <=> i \in DOMAIN shows /\ k \in Listed(i) /\ s = EpisodeAt(i, k).season
  BY <1>1, <1>2, SeasonsAre
<1> QED
  BY <1>3 DEF E

LEMMA EntryIs ==
    ASSUME HistoryInv, NEW ep
    PROVE  LET ns == Witnesses(ToSet(watches), ep)
           IN  /\ HasWatch(buildWatchedAtMap, ep.id) <=> ns # {}
               /\ ns # {} => buildWatchedAtMap[ep.id] = WatchOf[Max(ns)].rewatches
<1> DEFINE ns == Witnesses(ToSet(watches), ep)
           K == {k \in OfFollowed : WatchOf[watches[k]].episode = ep.id}
           M == buildWatchedAtMap
<1>1. watches \in Seq(1..size["episode"]) /\ Increasing(watches)
  BY DEF HistoryInv
<1>2. DOMAIN watches = 1..Len(watches) /\ Len(watches) \in Nat
  BY <1>1
<1>3. ns = {n \in ToSet(watches) : ep.id # 0 /\ WatchOf[n].episode = ep.id
                                   /\ WatchOf[n].series \in ToSet(shows)}
  BY DEF Witnesses
<1>4. ToSet(watches) = {watches[k] : k \in DOMAIN watches}
  BY DEF ToSet
<1>5. K = {k \in DOMAIN watches : WatchOf[watches[k]].series \in ToSet(shows)
                                  /\ WatchOf[watches[k]].episode = ep.id}
  BY DEF OfFollowed
<1>6. DOMAIN M = {WatchOf[watches[k]].episode : k \in OfFollowed}
  BY DEF buildWatchedAtMap
<1>7. ep.id \in DOMAIN M <=> K # {}
  BY <1>6
<1>8. ep.id \in DOMAIN M => M[ep.id] = WatchOf[watches[Max(K)]].rewatches
  BY <1>6 DEF buildWatchedAtMap, Stands
<1> HIDE DEF ns, K, M
<1>9. ep.id # 0 => ns = {watches[k] : k \in K}
  BY <1>3, <1>4, <1>5
<1>10. HasWatch(M, ep.id) <=> ns # {}
  <2>1. ep.id = 0 => ns = {}
    BY <1>3
  <2>2. ep.id # 0 => (ns # {} <=> K # {})
    BY <1>9
  <2> QED
    BY <1>7, <2>1, <2>2 DEF HasWatch
<1>11. \A k \in DOMAIN watches : watches[k] \in Nat
  <2> TAKE k \in DOMAIN watches
  <2>1. watches[k] \in 1..size["episode"]
    BY <1>1, SeqFacts
  <2> QED
    BY <2>1
<1>12. ASSUME ns # {} PROVE M[ep.id] = WatchOf[Max(ns)].rewatches
  <2>1. ep.id # 0 /\ K # {} /\ ep.id \in DOMAIN M
    BY <1>3, <1>7, <1>9, <1>12
  <2>2. K \in SUBSET Nat /\ \A k \in K : k <= Len(watches)
    BY <1>2, <1>5
  <2>3. Max(K) \in K /\ \A k \in K : k <= Max(K)
    BY <1>2, <2>1, <2>2, MaxOf
  <2> DEFINE last == Max(K)
  <2>4. last \in K /\ \A k \in K : k <= last
    BY <2>3
  <2> HIDE DEF last
  <2>5. watches[last] \in ns
    BY <1>9, <2>1, <2>4
  <2>6. ns \in SUBSET Nat
    BY <1>3, <1>4, <1>11
  <2>7. \A n \in ns : n <= watches[last]
    <3> TAKE n \in ns
    <3>1. PICK k \in K : n = watches[k]
      BY <1>9, <2>1
    <3>2. k \in DOMAIN watches /\ last \in DOMAIN watches /\ k <= last
      BY <1>5, <2>4
    <3>3. k \in Nat /\ last \in Nat /\ watches[k] \in Nat /\ watches[last] \in Nat
      BY <1>2, <1>11, <3>2
    <3>4. k < last => watches[k] < watches[last]
      BY <1>1, <3>2 DEF Increasing
    <3> QED
      BY <3>1, <3>2, <3>3, <3>4
  <2>8. Max(ns) = watches[last]
    BY <2>5, <2>6, <2>7, MaxIs
  <2> QED
    BY <1>8, <2>1, <2>8 DEF last
<1> QED
  BY <1>10, <1>12 DEF ns, M

\* Whether the episode at a place counts as watched.
Seen(i, k) ==
    /\ ~EpisodeAt(i, k).special /\ EpisodeAt(i, k).season # 0
    /\ Witnesses(ToSet(watches), EpisodeAt(i, k)) # {}

\* The places, as the lists of episodes have them.
Places == UNION {{i} \X Listed(i) : i \in DOMAIN shows}

LEMMA PlacesFinite == ASSUME Extent, FanTypes PROVE IsFiniteSet(Places)
<1> DEFINE Of == [i \in DOMAIN shows |-> {i} \X Listed(i)]
           All == {{i} \X Listed(i) : i \in DOMAIN shows}
<1>1. IsFiniteSet(DOMAIN shows)
  <2>1. DOMAIN shows = 1..Len(shows) /\ Len(shows) \in Nat
    BY LenProperties DEF FanTypes
  <2> QED
    BY <2>1, FS_Interval
<1>2. \A i \in DOMAIN shows : IsFiniteSet({i} \X Listed(i))
  <2> TAKE i \in DOMAIN shows
  <2>1. EpisodesOf[shows[i]] \in Seq(ExportEpisode)
    BY EpisodesAre
  <2>2. /\ DOMAIN EpisodesOf[shows[i]] = 1..Len(EpisodesOf[shows[i]])
        /\ Len(EpisodesOf[shows[i]]) \in Nat
    BY <2>1, LenProperties
  <2>3. IsFiniteSet(1..Len(EpisodesOf[shows[i]]))
    BY <2>2, FS_Interval
  <2>4. Listed(i) \in SUBSET (1..Len(EpisodesOf[shows[i]]))
    BY <2>2 DEF Listed
  <2>5. IsFiniteSet(Listed(i)) /\ IsFiniteSet({i})
    BY <2>3, <2>4, FS_Subset, FS_Singleton
  <2> QED
    BY <2>5, FS_Product
<1>3. Of \in Surjection(DOMAIN shows, All)
  BY DEF Surjection
<1> HIDE DEF Of
<1>4. IsFiniteSet(All)
  BY <1>1, <1>3, FS_Surjection
<1>5. \A T \in All : IsFiniteSet(T)
  BY <1>2
<1> HIDE DEF All
<1>6. IsFiniteSet(UNION All)
  BY <1>4, <1>5, FS_UNION
<1> QED
  BY <1>6 DEF Places, All

\* A normal episode counts as watched when a record names it.
LEMMA NormalIs ==
    ASSUME HistoryInv, NEW ep
    PROVE  LET e == Normal(ep, buildWatchedAtMap)
               ns == Witnesses(ToSet(watches), ep)
           IN  /\ e.id = ep.id
               /\ e.special <=> ep.special \/ ep.season = 0
               /\ e.isWatched <=> ns # {}
               /\ e.watchedCount = IF ns = {} THEN 0 ELSE WatchOf[Max(ns)].rewatches + 1
<1> DEFINE M == buildWatchedAtMap
           ns == Witnesses(ToSet(watches), ep)
           max == Max(ns)
           e == Normal(ep, M)
<1>1. /\ HasWatch(M, ep.id) <=> ns # {}
      /\ ns # {} => M[ep.id] = WatchOf[max].rewatches
  BY EntryIs
<1>2. /\ e.id = ep.id /\ e.special = (ep.special \/ ep.season = 0)
      /\ e.isWatched = HasWatch(M, ep.id) /\ e.watchedCount = episodeWatchedCount(M, ep.id)
  BY DEF Normal
<1> HIDE DEF M, ns, max, e
<1>3. e.watchedCount = IF ns = {} THEN 0 ELSE WatchOf[max].rewatches + 1
  BY <1>1, <1>2 DEF episodeWatchedCount
<1>4. (e.isWatched <=> ns # {}) /\ (e.special <=> ep.special \/ ep.season = 0)
  BY <1>1, <1>2
<1> QED
  BY <1>2, <1>3, <1>4 DEF M, ns, max, e

LEMMA CountIs ==
    ASSUME Extent, FanTypes, HistoryInv
    PROVE  countWatchedEpisodes(normalizeShows) = Cardinality({p \in Places : Seen(p[1], p[2])})
<1> DEFINE E == normalizeShows
           P == {p \in PlacesIn(E) : p[2] # 0 /\ At(E, p).isWatched /\ ~At(E, p).special}
           Q == {p \in Places : Seen(p[1], p[2])}
           f == [q \in Q |-> <<q[1], EpisodeAt(q[1], q[2]).season, q[2]>>]
<1>1. \A q : q \in Q <=> \E i \in DOMAIN shows : \E k \in Listed(i) : q = <<i, k>> /\ Seen(i, k)
  BY DEF Places
<1>2. \A p \in PlacesIn(E) : \E i, s, k : p = <<i, s, k>>
  BY DEF PlacesIn
<1>3. ASSUME NEW i \in DOMAIN shows, NEW k \in Listed(i)
      PROVE  <<i, EpisodeAt(i, k).season, k>> \in P <=> Seen(i, k)
  <2> DEFINE ep == EpisodeAt(i, k)
             e == Normal(ep, buildWatchedAtMap)
             p == <<i, ep.season, k>>
  <2>1. p \in PlacesIn(E)
    BY PlacesAre
  <2>2. E[i].seasons[ep.season][k] = e
    BY ShowTold, SeasonsAre
  <2>3. At(E, p) = e /\ p[2] = ep.season
    BY <2>2 DEF At
  <2>4. /\ e.special <=> ep.special \/ ep.season = 0
        /\ e.isWatched <=> Witnesses(ToSet(watches), ep) # {}
    BY NormalIs
  <2>5. Seen(i, k) <=> ~ep.special /\ ep.season # 0 /\ Witnesses(ToSet(watches), ep) # {}
    BY DEF Seen
  <2> HIDE DEF ep, e, p, E
  <2>6. p \in P <=> Seen(i, k)
    BY <2>1, <2>3, <2>4, <2>5
  <2> QED
    BY <2>6 DEF p, ep
<1>4. \A p \in P : \E i \in DOMAIN shows : \E k \in Listed(i) : p = <<i, EpisodeAt(i, k).season, k>>
  BY <1>2, PlacesAre
<1> HIDE DEF E, P, Q
<1>5. \A q \in Q : f[q] \in P
  <2> TAKE q \in Q
  <2>1. PICK i \in DOMAIN shows : \E k \in Listed(i) : q = <<i, k>> /\ Seen(i, k)
    BY <1>1
  <2>2. PICK k \in Listed(i) : q = <<i, k>> /\ Seen(i, k)
    BY <2>1
  <2>3. f[q] = <<i, EpisodeAt(i, k).season, k>>
    BY <2>2
  <2> QED
    BY <1>3, <2>2, <2>3
<1>6. \A p \in P : \E q \in Q : f[q] = p
  <2> TAKE p \in P
  <2>1. PICK i \in DOMAIN shows : \E k \in Listed(i) : p = <<i, EpisodeAt(i, k).season, k>>
    BY <1>4
  <2>2. PICK k \in Listed(i) : p = <<i, EpisodeAt(i, k).season, k>>
    BY <2>1
  <2>3. <<i, k>> \in Q
    BY <1>1, <1>3, <2>2
  <2>4. f[<<i, k>>] = p
    BY <2>2, <2>3
  <2> QED
    BY <2>3, <2>4
<1>7. \A q, r \in Q : f[q] = f[r] => q = r
  <2> TAKE q, r \in Q
  <2>1. (\E i, k : q = <<i, k>>) /\ (\E i, k : r = <<i, k>>)
    BY <1>1
  <2> QED
    BY <2>1
<1>8. f \in Bijection(Q, P)
  <2>1. f \in [Q -> P] /\ DOMAIN f = Q
    BY <1>5
  <2> HIDE DEF f
  <2> QED
    BY <1>6, <1>7, <2>1 DEF Bijection, Injection, Surjection, IsInjective
<1> HIDE DEF f
<1>9. IsFiniteSet(Q)
  <2>1. Q \in SUBSET Places
    BY DEF Q
  <2> QED
    BY <2>1, PlacesFinite, FS_Subset
<1>10. Cardinality(P) = Cardinality(Q)
  BY <1>8, <1>9, FS_Bijection DEF ExistsBijection
<1> QED
  BY <1>10 DEF countWatchedEpisodes, E, P, Q

\* Without a gap, what the history could have said was heard.
LEMMA NothingUnheard ==
    ASSUME HistoryInv, phase = "done", gaps = {}
    PROVE  /\ \A l \in FollowLists : \A n \in Within(l) : <<l, n>> \in ToSet(shows)
           /\ \A ep : Witnesses(Within("episode"), ep) # {} => Witnesses(ToSet(watches), ep) # {}
<1>1. \A l \in FollowLists : \A n \in Within(l) : <<l, n>> \in ToSet(shows)
  BY DEF HistoryInv
<1>2. Within("episode") \subseteq ToSet(watches)
  BY DEF HistoryInv
<1>3. \A ep : Witnesses(Within("episode"), ep) \subseteq Witnesses(ToSet(watches), ep)
  BY <1>2 DEF Witnesses
<1> QED
  BY <1>1, <1>3

(* For any history, shows and episodes, and whatever failed on the way: an   *)
(* export tells that an episode was watched, and how often, just when a      *)
(* record that was fetched says so, its count is that of those episodes, and *)
(* where no list has a gap nothing TV Time has is left out of it.            *)
THEOREM HistoryIsTrueHolds == Spec => []HistoryIsTrue
<1>1. GatherInv => HistoryIsTrue
  <2> SUFFICES ASSUME GatherInv, phase = "done" PROVE HistoryIsTrue
    BY DEF HistoryIsTrue
  <2>1. Extent /\ FanTypes /\ HistoryInv
    BY DEF GatherInv, PagesAreSound, FanInv
  <2>2. result.shows = normalizeShows /\ result.watched = countWatchedEpisodes(normalizeShows)
    BY <2>1 DEF HistoryInv
  <2>3. ASSUME NEW i \in DOMAIN shows, NEW k \in Listed(i)
        PROVE  Told(i, k) = Normal(EpisodeAt(i, k), buildWatchedAtMap)
    <3>1. normalizeShows[i].seasons[EpisodeAt(i, k).season][k]
            = Normal(EpisodeAt(i, k), buildWatchedAtMap)
      BY <2>1, <2>3, ShowTold, SeasonsAre
    <3> QED
      BY <2>2, <3>1 DEF Told, At
  <2>4. ASSUME NEW i \in DOMAIN shows, NEW k \in Listed(i)
        PROVE  LET ep == EpisodeAt(i, k)
                   ns == Witnesses(ToSet(watches), ep)
               IN  /\ <<i, ep.season, k>> \in PlacesIn(result.shows)
                   /\ Told(i, k).id = ep.id
                   /\ Told(i, k).isWatched <=> ns # {}
                   /\ Told(i, k).watchedCount = IF ns = {} THEN 0 ELSE WatchOf[Max(ns)].rewatches + 1
    <3> DEFINE ep == EpisodeAt(i, k)
               ns == Witnesses(ToSet(watches), ep)
               max == Max(ns)
               told == Told(i, k)
               e == Normal(ep, buildWatchedAtMap)
    <3>1. <<i, ep.season, k>> \in PlacesIn(result.shows)
      BY <2>1, <2>2, <2>4, PlacesAre
    <3>2. told = e
      BY <2>3, <2>4
    <3>3. /\ e.id = ep.id
          /\ e.isWatched <=> ns # {}
          /\ e.watchedCount = IF ns = {} THEN 0 ELSE WatchOf[max].rewatches + 1
      BY <2>1, NormalIs
    <3> HIDE DEF ep, ns, max, told, e
    <3>4. /\ told.id = ep.id
          /\ told.isWatched <=> ns # {}
          /\ told.watchedCount = IF ns = {} THEN 0 ELSE WatchOf[max].rewatches + 1
      BY <3>2, <3>3
    <3> QED
      BY <3>1, <3>4 DEF ep, ns, max, told
  <2>5. result.watched = Cardinality({p \in UNION {{i} \X Listed(i) : i \in DOMAIN shows} :
              LET ep == EpisodeAt(p[1], p[2])
              IN  ~ep.special /\ ep.season # 0 /\ Witnesses(ToSet(watches), ep) # {}})
    BY <2>1, <2>2, CountIs DEF Places, Seen
  <2>6. ASSUME gaps = {}
        PROVE  /\ \A l \in FollowLists : \A n \in Within(l) : <<l, n>> \in ToSet(shows)
               /\ \A i \in DOMAIN shows : \A k \in Listed(i) :
                     Witnesses(Within("episode"), EpisodeAt(i, k)) # {} => Told(i, k).isWatched
    BY <2>1, <2>4, <2>6, NothingUnheard
  <2> QED
    BY <2>4, <2>5, <2>6 DEF HistoryIsTrue
<1> QED
  BY <1>1, GatheringIsSound, PTL
================================================================================
