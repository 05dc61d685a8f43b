--------------------------- MODULE ImportPoolProofs ---------------------------
(***************************************************************************)
(* Theorems about CheckPool and ImportPool, for any number of shows, any   *)
(* titles and any number of workers.  Both pools keep the same books: each *)
(* show that was handed out is with one worker, in the channel behind the  *)
(* workers, or with the collector, and in one of these only.  What is on   *)
(* the account, what is claimed and counted, and what the progress tells,  *)
(* is then said of the shows that have come as far as that.                *)
(***************************************************************************)
EXTENDS ImportPool, FiniteSetTheorems, SequenceTheorems, TLAPS

Elems(q) == {q[k] : k \in 1..Len(q)}
Distinct(q) == \A k, l \in 1..Len(q) : q[k] = q[l] => k = l

\* The items of the workers U of a pool p, and that no two of them share one.
ItemsOf(p, U) == {p[w].item : w \in U}
Exclusive(p, U) == \A v, w \in U : p[v].item = p[w].item => v = w

\* A tracker counts, by title, the shows S.
CountsFit(c, S) == c = [n \in Names |-> Cardinality({i \in S : NameOf[i] = n})]

TitlesOf(S) == {NameOf[i] : i \in S} \ {Untitled}

Shown == [step : {"check", "import"}, done : 0..NumShows, remaining : 0..NumShows,
          notFound : SUBSET Items, active : SUBSET Names]

--------------------------------------------------------------------------------
(* The check step *)

CheckersAt(S) == {w \in Checkers : checker[w].at \in S}
Checking == CheckersAt({"start", "call", "send"})
Looked == CheckersAt({"call", "send"})

CheckTypes ==
    /\ step \in {"check", "import", "failed"} /\ library \in {"asked", "told", "refused"}
    /\ found \in [Items -> TmdbIDs \cup {None}]
    /\ results \in Seq(Items) /\ resolved \in Seq(Items)
    /\ checkFed \in Nat /\ checkTaken \in Nat /\ checkTaken <= checkFed /\ checkFed <= NumShows
    /\ checkFed - checkTaken <= NumCheckers /\ Len(results) <= NumCheckers
    /\ checkFeeder \in {"feeding", "waiting", "gone"}
    /\ checker \in [Checkers -> [at : {"idle", "start", "call", "send", "gone"},
                                 item : Items \cup {0}]]
    /\ saved \in Shown

CheckPlaces ==
    /\ Exclusive(checker, Checking) /\ Distinct(results) /\ Distinct(resolved)
    /\ ItemsOf(checker, Checking) \cap Elems(results) = {}
    /\ ItemsOf(checker, Checking) \cap Elems(resolved) = {}
    /\ Elems(results) \cap Elems(resolved) = {}
    /\ ItemsOf(checker, Checking) \cup Elems(results) \cup Elems(resolved) = 1..checkTaken

CheckFlow ==
    /\ checkFeeder # "feeding" => checkFed = NumShows
    /\ \A w \in Checkers : checker[w].at = "gone" => checkTaken = NumShows
    /\ checkFeeder = "gone" => \A w \in Checkers : checker[w].at = "gone"
    /\ step # "check" => checkFeeder = "gone" /\ results = <<>> /\ library # "asked"

\* Only a show that was looked up has an id.
FoundFits ==
    \A i \in Items : found[i] # None =>
        i \in ItemsOf(checker, CheckersAt({"send"})) \cup Elems(results) \cup Elems(resolved)

CheckCountsFit == CountsFit(checkCounts, ItemsOf(checker, Looked) \cup Elems(results))

CheckShown ==
    step # "import" =>
        /\ progress = [step |-> "check", done |-> Len(resolved), remaining |-> NumShows - Len(resolved),
                       notFound |-> {}, active |-> ActiveShows(checkCounts)]
        /\ progress.remaining = 0 => saved = progress

CheckInv ==
    CheckTypes /\ CheckPlaces /\ CheckFlow /\ FoundFits /\ CheckCountsFit /\ CheckShown

--------------------------------------------------------------------------------
(* The import step *)

WorkersAt(S) == {w \in Workers : worker[w].at \in S}
Working == WorkersAt({"claim", "start", "call", "unclaim", "record", "send"})
Claimed == WorkersAt({"start", "call", "unclaim", "record", "send"})
Begun == WorkersAt({"call", "unclaim", "record", "send"})
Called == WorkersAt({"unclaim", "record", "send"})
Succeeded == {w \in Workers : worker[w].ok}

Sent == {outcomes[k].item : k \in 1..Len(outcomes)}
SentOk == {outcomes[k].item : k \in {l \in 1..Len(outcomes) : outcomes[l].success}}

Ids(S) == {found[i] : i \in S}

\* The shows ImportTVTimeShow was called for, and those it added.
Tried == ItemsOf(worker, Called) \cup Sent \cup answered
Added == ItemsOf(worker, Succeeded) \cup SentOk \cup (answered \ notFound)

\* Before the import step there is no pool, and nothing is on the account.
Idle ==
    /\ existingIDs = {} /\ skipped = {} /\ pending = <<>>
    /\ fed = 0 /\ taken = 0 /\ feeder = "none" /\ worker = NoPool
    /\ importedInRun = {} /\ outcomes = <<>>
    /\ account = {} /\ attempts = [t \in TmdbIDs |-> 0] /\ ledger = {}
    /\ counts = [n \in Names |-> 0]
    /\ newlyAdded = 0 /\ notFound = {} /\ answered = {}
    /\ summary = NoSummary

\* The three kinds of shows; no two shows to import have one id.
Sorted ==
    /\ existingIDs \subseteq TmdbIDs /\ skipped \subseteq Items
    /\ pending \in Seq(Items) /\ Distinct(pending)
    /\ Elems(pending) = Items \ (skipped \cup Unresolved) /\ skipped \cap Unresolved = {}
    /\ \A i \in Elems(pending) : found[i] \notin existingIDs
    /\ \A i, k \in Elems(pending) : found[i] = found[k] => i = k

ImportTypes ==
    /\ fed \in Nat /\ taken \in Nat /\ taken <= fed /\ fed <= total
    /\ fed - taken <= NumWorkers /\ Len(outcomes) <= NumWorkers
    /\ feeder \in {"feeding", "waiting", "gone"}
    /\ worker \in [Workers -> [at : WorkerStates, item : Items \cup {0}, ok : BOOLEAN]]
    /\ outcomes \in Seq(Outcomes)
    /\ importedInRun \subseteq TmdbIDs

ImportPlaces ==
    /\ Exclusive(worker, Working)
    /\ \A k, l \in 1..Len(outcomes) : outcomes[k].item = outcomes[l].item => k = l
    /\ ItemsOf(worker, Working) \cap Sent = {}
    /\ ItemsOf(worker, Working) \cap answered = {}
    /\ Sent \cap answered = {}
    /\ ItemsOf(worker, Working) \cup Sent \cup answered = {pending[k] : k \in 1..taken}

ImportFlow ==
    /\ feeder # "feeding" => fed = total
    /\ \A w \in 1..NumWorkers : worker[w].at = "gone" => taken = total
    /\ feeder = "gone" => \A w \in Workers : worker[w].at = "gone"
    /\ \A w \in Workers : worker[w].ok => worker[w].at \in {"record", "send"}
    /\ \A w \in Workers : worker[w].at = "record" => worker[w].ok

Effects ==
    /\ importedInRun \subseteq Ids(ItemsOf(worker, Claimed) \cup Sent \cup answered)
    /\ attempts = [t \in TmdbIDs |-> IF t \in Ids(Tried) THEN 1 ELSE 0]
    /\ account = Ids(Added)
    /\ ledger \subseteq account

Answers ==
    /\ Unresolved \subseteq notFound /\ notFound \subseteq Unresolved \cup answered
    /\ newlyAdded = Cardinality(answered \ notFound)
    /\ summary # NoSummary =>
          /\ feeder = "gone" /\ outcomes = <<>>
          /\ summary = [total |-> NumShows, already |-> Cardinality(skipped),
                        added |-> newlyAdded, missing |-> Cardinality(notFound)]

ImportShown ==
    /\ CountsFit(counts, ItemsOf(worker, Begun) \cup Sent)
    /\ progress = [step |-> "import", done |-> Cardinality(answered),
                   remaining |-> total - Cardinality(answered),
                   notFound |-> notFound, active |-> ActiveShows(counts)]
    /\ progress.remaining = 0 => saved = progress

ImportInv ==
    Sorted /\ ImportTypes /\ ImportPlaces /\ ImportFlow /\ Effects /\ Answers /\ ImportShown

PoolInv ==
    /\ CheckInv
    /\ step # "import" => Idle
    /\ step = "import" => ImportInv

--------------------------------------------------------------------------------
(* The operators *)

(* While the workers of a group keep their items, so does the group.         *)
LEMMA ItemsStay ==
    ASSUME NEW p, NEW q, NEW U, \A v \in U : q[v].item = p[v].item
    PROVE  ItemsOf(q, U) = ItemsOf(p, U) /\ (Exclusive(p, U) => Exclusive(q, U))
  BY DEF ItemsOf, Exclusive

LEMMA ElemsAppend ==
    ASSUME NEW T, NEW q \in Seq(T), NEW x \in T
    PROVE  /\ Append(q, x) \in Seq(T) /\ Len(Append(q, x)) = Len(q) + 1
           /\ Elems(Append(q, x)) = Elems(q) \cup {x}
           /\ Distinct(q) /\ x \notin Elems(q) => Distinct(Append(q, x))
<1>1. /\ Append(q, x) \in Seq(T) /\ Len(Append(q, x)) = Len(q) + 1 /\ Len(q) \in Nat
      /\ \A k \in 1..Len(q) : Append(q, x)[k] = q[k]
      /\ Append(q, x)[Len(q) + 1] = x
  BY AppendProperties
<1>2. 1..(Len(q) + 1) = 1..Len(q) \cup {Len(q) + 1}
  BY <1>1
<1> QED
  BY <1>1, <1>2 DEF Elems, Distinct

LEMMA ElemsTail ==
    ASSUME NEW T, NEW q \in Seq(T), q # <<>>
    PROVE  /\ Head(q) \in T /\ Tail(q) \in Seq(T) /\ Len(Tail(q)) = Len(q) - 1 /\ Len(q) \in Nat \ {0}
           /\ Head(q) \in Elems(q)
           /\ Distinct(q) => Elems(Tail(q)) = Elems(q) \ {Head(q)} /\ Distinct(Tail(q))
<1>1. /\ Tail(q) \in Seq(T) /\ Len(Tail(q)) = Len(q) - 1 /\ Len(q) \in Nat \ {0}
      /\ Head(q) = q[1] /\ Head(q) \in T
      /\ \A k \in 1..Len(Tail(q)) : Tail(q)[k] = q[k + 1]
  BY HeadTailProperties
<1>2. ASSUME Distinct(q)
      PROVE  Elems(Tail(q)) = Elems(q) \ {Head(q)} /\ Distinct(Tail(q))
  <2>1. \A k \in 1..Len(q) : k # 1 => q[k] # q[1] /\ k - 1 \in 1..Len(Tail(q)) /\ Tail(q)[k - 1] = q[k]
    BY <1>1, <1>2 DEF Distinct
  <2>2. \A k \in 1..Len(Tail(q)) : k + 1 \in 1..Len(q) /\ k + 1 # 1
    BY <1>1
  <2>3. Elems(Tail(q)) \subseteq Elems(q) \ {Head(q)}
    BY <1>1, <2>1, <2>2 DEF Elems
  <2>4. Elems(q) \ {Head(q)} \subseteq Elems(Tail(q))
    BY <1>1, <2>1 DEF Elems
  <2>5. Distinct(Tail(q))
    BY <1>1, <1>2, <2>2 DEF Distinct
  <2> QED
    BY <2>3, <2>4, <2>5
<1> QED
  BY <1>1, <1>2 DEF Elems

LEMMA DistinctCardinality ==
    ASSUME NEW T, NEW q \in Seq(T), Distinct(q)
    PROVE  /\ IsFiniteSet(Elems(q)) /\ Cardinality(Elems(q)) = Len(q)
           /\ Len(q) \in Nat /\ Elems(q) \subseteq T
<1> DEFINE f == [k \in 1..Len(q) |-> q[k]]
<1>1. Len(q) \in Nat /\ Elems(q) \subseteq T
  BY DEF Elems
<1>2. f \in Bijection(1..Len(q), Elems(q))
  BY DEF Bijection, Injection, IsInjective, Surjection, Elems, Distinct
<1>3. ExistsBijection(1..Len(q), Elems(q))
  BY <1>2 DEF ExistsBijection
<1> QED
  BY <1>1, <1>3, FS_CountingElements, FS_Interval, FS_Bijection

LEMMA ItemsFinite ==
    ASSUME NEW S \in SUBSET Items
    PROVE  IsFiniteSet(S) /\ Cardinality(S) \in 0..NumShows
<1>1. NumShows \in Nat
  BY CheckAssumption
<1>2. IsFiniteSet(Items) /\ Cardinality(Items) = NumShows
  BY <1>1, FS_Interval DEF Items
<1>3. IsFiniteSet(S) /\ Cardinality(S) <= NumShows
  BY <1>2, FS_Subset
<1> QED
  BY <1>1, <1>3, FS_CardinalityType

(* The shows that are not left out are listed, each once. *)
LEMMA ListsAll ==
    ASSUME NEW left, \A i \in Items : Place(i) \in Int,
           \A i, k \in Items : Place(i) = Place(k) => i = k
    PROVE  /\ ResolvedBut(left) \in Seq(Items) /\ Len(ResolvedBut(left)) \in 0..NumShows
           /\ Distinct(ResolvedBut(left)) /\ Elems(ResolvedBut(left)) = Items \ left
<1> DEFINE S == Items \ left
           N == Cardinality(S)
           B(i) == Before(i) \ left
           rank == [i \in S |-> Cardinality(B(i))]
           list == ResolvedBut(left)
<1>1. S \in SUBSET Items /\ IsFiniteSet(S) /\ N \in 0..NumShows /\ N \in Nat
  BY ItemsFinite
<1>2. ASSUME NEW i \in S
      PROVE  B(i) \subseteq S \ {i} /\ IsFiniteSet(B(i)) /\ Cardinality(B(i)) \in 0..(N - 1)
  <2>1. B(i) \subseteq S \ {i}
    BY DEF Before
  <2> HIDE DEF S, B
  <2>2. IsFiniteSet(S \ {i}) /\ Cardinality(S \ {i}) = N - 1
    BY <1>1, FS_RemoveElement
  <2>3. IsFiniteSet(B(i)) /\ Cardinality(B(i)) <= Cardinality(S \ {i})
    BY <2>1, <2>2, FS_Subset
  <2>4. Cardinality(B(i)) \in Nat
    BY <2>3, FS_CardinalityType
  <2> QED
    BY <1>1, <2>1, <2>2, <2>3, <2>4
<1>3. ASSUME NEW i \in S, NEW k \in S, Place(i) < Place(k)
      PROVE  Cardinality(B(i)) < Cardinality(B(k))
  <2>1. B(i) \cup {i} \subseteq B(k) /\ i \notin B(i)
    BY <1>3 DEF Before
  <2> HIDE DEF S, B
  <2>2. Cardinality(B(i) \cup {i}) = Cardinality(B(i)) + 1
    BY <1>2, <2>1, FS_AddElement
  <2>3. Cardinality(B(i) \cup {i}) <= Cardinality(B(k))
    BY <1>2, <2>1, FS_Subset
  <2> QED
    BY <1>2, <2>2, <2>3
<1>4. \A i, k \in S : rank[i] = rank[k] => i = k
  <2> SUFFICES ASSUME NEW i \in S, NEW k \in S, i # k
               PROVE  rank[i] # rank[k]
    OBVIOUS
  <2>1. Place(i) < Place(k) \/ Place(k) < Place(i)
    BY <1>1
  <2>2. Cardinality(B(i)) \in Int /\ Cardinality(B(k)) \in Int
    BY <1>2
  <2> HIDE DEF B
  <2> QED
    BY <1>3, <2>1, <2>2
<1>5. rank \in Injection(S, 0..(N - 1))
  <2>1. \A i \in S : rank[i] \in 0..(N - 1)
    BY <1>2
  <2> QED
    BY <1>4, <2>1 DEF Injection, IsInjective
<1>6. rank \in Surjection(S, 0..(N - 1))
  <2> HIDE DEF S, rank
  <2>1. IsFiniteSet(0..(N - 1)) /\ Cardinality(0..(N - 1)) = N
    BY <1>1, FS_Interval
  <2> QED
    BY <1>1, <1>5, <2>1, FS_Injection
<1>7. /\ list = [n \in 1..N |-> CHOOSE i \in S : rank[i] = n - 1]
      /\ \A n \in 1..N : \E i \in S : rank[i] = n - 1
  <2>1. \A n \in 1..N : n - 1 \in 0..(N - 1)
    BY <1>1
  <2>2. \A m \in 0..(N - 1) : \E i \in S : rank[i] = m
    BY <1>6 DEF Surjection
  <2>3. \A n \in 1..N : (CHOOSE i \in S : Cardinality(B(i)) = n - 1) = CHOOSE i \in S : rank[i] = n - 1
    OBVIOUS
  <2> QED
    BY <2>1, <2>2, <2>3 DEF ResolvedBut
<1>8. \A n \in 1..N : list[n] \in S /\ rank[list[n]] = n - 1
  <2> HIDE DEF S, rank, list
  <2> QED
    BY <1>7
<1>9. \A i \in S : rank[i] + 1 \in 1..N /\ list[rank[i] + 1] = i
  <2>1. \A i \in S : rank[i] \in 0..(N - 1)
    BY <1>2
  <2> HIDE DEF S, rank, list
  <2>2. \A i \in S : rank[i] + 1 \in 1..N /\ (rank[i] + 1) - 1 = rank[i]
    BY <1>1, <2>1
  <2> QED
    BY <1>4, <1>8, <2>2
<1>10. list \in Seq(S) /\ Len(list) = N
  <2> HIDE DEF S, rank, list
  <2>1. list \in [1..N -> S]
    BY <1>7, <1>8
  <2> QED
    BY <1>1, <2>1
<1>11. \A k, l \in 1..N : list[k] = list[l] => k = l
  <2> HIDE DEF S, rank, list
  <2> QED
    BY <1>1, <1>8
<1>12. Elems(list) = S /\ Distinct(list)
  <2> HIDE DEF S, rank, list
  <2> QED
    BY <1>8, <1>9, <1>10, <1>11 DEF Elems, Distinct
<1>13. list \in Seq(Items)
  <2> HIDE DEF S, rank, list
  <2> QED
    BY <1>1, <1>10
<1> QED
  BY <1>1, <1>10, <1>12, <1>13

LEMMA LeastExists ==
    ASSUME NEW S \in SUBSET Nat, S # {}
    PROVE  \E x \in S : \A y \in S : x <= y
<1> DEFINE R == OpToRel(<, Nat)
<1>1. PICK x \in S : \A y \in S : ~(<<y, x>> \in R)
  <2>1. IsWellFoundedOn(R, Nat)
    BY NatLessThanWellFounded
  <2> HIDE DEF R
  <2> QED
    BY <2>1, WFMin
<1>2. ASSUME NEW y \in S PROVE x <= y
  <2>1. x \in Nat /\ y \in Nat
    OBVIOUS
  <2>2. <<y, x>> \in R <=> y < x
    BY <2>1 DEF OpToRel
  <2>3. <<y, x>> \notin R
    BY <1>1
  <2> HIDE DEF R
  <2> QED
    BY <2>1, <2>2, <2>3
<1> QED
  BY <1>2

LEMMA GreatestExists ==
    ASSUME NEW S \in SUBSET Nat, S # {}, NEW n \in Nat, \A x \in S : x <= n
    PROVE  \E x \in S : \A y \in S : y <= x
<1> DEFINE T == {n - x : x \in S}
<1>1. T \in SUBSET Nat /\ T # {}
  <2>1. \A x \in S : n - x \in Nat
    BY SMT
  <2> QED
    BY <2>1
<1>2. PICK t \in T : \A u \in T : t <= u
  <2> HIDE DEF T
  <2> QED
    BY <1>1, LeastExists
<1>3. PICK x \in S : t = n - x
  OBVIOUS
<1>4. ASSUME NEW y \in S PROVE y <= x
  <2>1. t <= n - y
    BY <1>2
  <2> QED
    BY <1>3, <2>1
<1> QED
  BY <1>4

(* The tracker *)
LEMMA CountUp ==
    ASSUME NEW c, NEW S \in SUBSET Items, CountsFit(c, S), NEW i \in Items \ S
    PROVE  CountsFit(trackerStart(c, NameOf[i]), S \cup {i})
<1> DEFINE Of(n, A) == {k \in A : NameOf[k] = n}
<1>1. ASSUME NEW n \in Names
      PROVE  /\ c[n] = Cardinality(Of(n, S))
             /\ n = NameOf[i] => Cardinality(Of(n, S \cup {i})) = c[n] + 1
             /\ n # NameOf[i] => Cardinality(Of(n, S \cup {i})) = c[n]
  <2>1. c[n] = Cardinality(Of(n, S)) /\ IsFiniteSet(Of(n, S)) /\ i \notin Of(n, S)
    BY ItemsFinite DEF CountsFit
  <2>2. n = NameOf[i] => Of(n, S \cup {i}) = Of(n, S) \cup {i}
    OBVIOUS
  <2>3. n # NameOf[i] => Of(n, S \cup {i}) = Of(n, S)
    OBVIOUS
  <2> HIDE DEF Of
  <2>4. Cardinality(Of(n, S) \cup {i}) = Cardinality(Of(n, S)) + 1
    BY <2>1, FS_AddElement
  <2> QED
    BY <2>1, <2>2, <2>3, <2>4
<1>2. NameOf[i] \in Names \/ (NameOf[i] = Untitled /\ NameOf[i] \notin Names)
  BY DEF Names
<1> HIDE DEF Of
<1>3. trackerStart(c, NameOf[i]) = [n \in Names |-> Cardinality(Of(n, S \cup {i}))]
  <2>1. c = [n \in Names |-> c[n]]
    BY DEF CountsFit
  <2>2. CASE NameOf[i] \in Names
    <3>1. NameOf[i] # Untitled
      BY <2>2 DEF Names
    <3> QED
      BY <1>1, <2>1, <2>2, <3>1 DEF trackerStart
  <2>3. CASE NameOf[i] = Untitled /\ NameOf[i] \notin Names
    BY <1>1, <2>1, <2>3 DEF trackerStart
  <2> QED
    BY <1>2, <2>2, <2>3
<1> QED
  BY <1>3 DEF CountsFit, Of

LEMMA CountDown ==
    ASSUME NEW c, NEW S \in SUBSET Items, CountsFit(c, S), NEW i \in S
    PROVE  CountsFit(trackerDone(c, NameOf[i]), S \ {i})
<1> DEFINE Of(n, A) == {k \in A : NameOf[k] = n}
<1>1. ASSUME NEW n \in Names
      PROVE  /\ c[n] = Cardinality(Of(n, S)) /\ c[n] \in Nat
             /\ n = NameOf[i] => c[n] >= 1 /\ Cardinality(Of(n, S \ {i})) = c[n] - 1
             /\ n # NameOf[i] => Cardinality(Of(n, S \ {i})) = c[n]
  <2>1. c[n] = Cardinality(Of(n, S)) /\ IsFiniteSet(Of(n, S)) /\ c[n] \in Nat
    BY ItemsFinite DEF CountsFit
  <2>2. n = NameOf[i] => Of(n, S \ {i}) = Of(n, S) \ {i} /\ i \in Of(n, S) /\ Of(n, S) # {}
    OBVIOUS
  <2>3. n # NameOf[i] => Of(n, S \ {i}) = Of(n, S)
    OBVIOUS
  <2> HIDE DEF Of
  <2>4. c[n] = 0 <=> Of(n, S) = {}
    BY <2>1, FS_EmptySet
  <2>5. i \in Of(n, S) => Cardinality(Of(n, S) \ {i}) = Cardinality(Of(n, S)) - 1
    BY <2>1, FS_RemoveElement
  <2> QED
    BY <2>1, <2>2, <2>3, <2>4, <2>5
<1>2. NameOf[i] \in Names \/ (NameOf[i] = Untitled /\ NameOf[i] \notin Names)
  BY DEF Names
<1> HIDE DEF Of
<1>3. trackerDone(c, NameOf[i]) = [n \in Names |-> Cardinality(Of(n, S \ {i}))]
  <2>1. c = [n \in Names |-> c[n]]
    BY DEF CountsFit
  <2>2. CASE NameOf[i] \in Names
    <3>1. (IF c[NameOf[i]] <= 1 THEN 0 ELSE c[NameOf[i]] - 1) = c[NameOf[i]] - 1
      BY <1>1, <2>2
    <3>2. NameOf[i] # Untitled
      BY <2>2 DEF Names
    <3>3. trackerDone(c, NameOf[i]) = [c EXCEPT ![NameOf[i]] = c[NameOf[i]] - 1]
      BY <3>1, <3>2 DEF trackerDone
    <3> QED
      BY <1>1, <2>1, <2>2, <3>3
  <2>3. CASE NameOf[i] = Untitled /\ NameOf[i] \notin Names
    BY <1>1, <2>1, <2>3 DEF trackerDone
  <2> QED
    BY <1>2, <2>2, <2>3
<1> QED
  BY <1>3 DEF CountsFit, Of

(* The k first of a finite set of numbers are k of them, if it has as many,  *)
(* and come before the others.                                               *)
LEMMA FirstOfIs ==
    ASSUME NEW S \in SUBSET Nat, IsFiniteSet(S), NEW k \in Nat \ {0}
    PROVE  LET A == FirstOf(S, k)
           IN  /\ A \subseteq S
               /\ Cardinality(A) = Least(Cardinality(S), k)
               /\ \A n \in A, m \in S \ A : n < m
<1> DEFINE Below(n) == {m \in S : m < n}
           rank(n) == Cardinality(Below(n))
           A == FirstOf(S, k)
<1>1. A = {n \in S : rank(n) < k}
  BY DEF FirstOf
<1>2. \A n : IsFiniteSet(Below(n)) /\ rank(n) \in Nat
  <2>1. \A n : Below(n) \in SUBSET S
    OBVIOUS
  <2> HIDE DEF Below
  <2> QED
    BY <2>1, FS_Subset, FS_CardinalityType
<1>3. ASSUME NEW n \in S, NEW m \in S, n < m
      PROVE  rank(n) < rank(m)
  <2>1. n \in Nat /\ m \in Nat /\ \A x \in S : x \in Nat
    OBVIOUS
  <2>2. n \in Below(m) /\ n \notin Below(n)
    BY <1>3, <2>1
  <2>3. \A x \in Below(n) : x \in Below(m)
    BY <1>3, <2>1
  <2>4. Below(n) \in SUBSET Below(m) /\ Below(n) # Below(m)
    BY <2>2, <2>3
  <2> HIDE DEF Below
  <2>5. rank(n) <= rank(m) /\ rank(n) # rank(m)
    BY <1>2, <2>4, FS_Subset
  <2> QED
    BY <1>2, <2>5
<1>4. A \in SUBSET S /\ IsFiniteSet(A) /\ Cardinality(A) \in Nat /\ Cardinality(S) \in Nat
      /\ Cardinality(A) <= Cardinality(S)
  <2>1. A \in SUBSET S
    BY <1>1
  <2> HIDE DEF A
  <2> QED
    BY <2>1, FS_Subset, FS_CardinalityType
<1>5. \A n \in A, m \in S \ A : n < m
  <2> SUFFICES ASSUME NEW n \in A, NEW m \in S \ A
               PROVE  n < m
    OBVIOUS
  <2>1. n \in S /\ n \in Nat /\ m \in Nat /\ rank(n) < k /\ ~(rank(m) < k)
    BY <1>1
  <2>2. n # m /\ ~(m < n)
    BY <1>2, <1>3, <2>1
  <2> QED
    BY <2>1, <2>2
<1>6. Cardinality(A) <= k
  <2> SUFFICES ASSUME A # {}
               PROVE  Cardinality(A) <= k
    BY FS_EmptySet
  <2>0. A # {}
    OBVIOUS
  <2>1. PICK n \in A : \A m \in A : rank(m) <= rank(n)
    <3>1. \A n \in A : rank(n) \in Nat /\ rank(n) < k
      <4> HIDE DEF rank
      <4> QED
        BY <1>1, <1>2 DEF FirstOf
    <3> HIDE DEF rank, A
    <3> DEFINE R == {rank(n) : n \in A}
    <3>2. R \in SUBSET Nat /\ R # {} /\ \A x \in R : x <= k
      BY <2>0, <3>1
    <3>3. PICK x \in R : \A y \in R : y <= x
      <4> HIDE DEF R
      <4> QED
        BY <3>2, GreatestExists
    <3> QED
      BY <3>3
  <2>2. A \ {n} \in SUBSET Below(n)
    <3> SUFFICES ASSUME NEW m \in A, m # n
                 PROVE  m \in Below(n)
      OBVIOUS
    <3>1. n \in S /\ m \in S /\ rank(m) <= rank(n)
      BY <1>4, <2>1
    <3>2. n < m => rank(n) < rank(m)
      BY <1>3, <3>1
    <3>3. ~(rank(n) < rank(m))
      <4>1. rank(n) \in Nat /\ rank(m) \in Nat
        BY <1>2
      <4> DEFINE rn == rank(n)
                 rm == rank(m)
      <4>2. rn \in Nat /\ rm \in Nat /\ rm <= rn
        BY <3>1, <4>1
      <4> HIDE DEF rn, rm
      <4>3. ~(rn < rm)
        BY <4>2
      <4> QED
        BY <4>3 DEF rn, rm
    <3>4. ~(n < m)
      BY <3>2, <3>3
    <3> QED
      BY <3>1, <3>4
  <2> HIDE DEF A, Below
  <2>3. Cardinality(A \ {n}) <= rank(n) /\ Cardinality(A \ {n}) = Cardinality(A) - 1
    BY <1>2, <1>4, <2>2, FS_Subset, FS_RemoveElement
  <2> QED
    BY <1>1, <1>2, <1>4, <2>3
<1>7. A = S \/ Cardinality(A) >= k
  <2> SUFFICES ASSUME A # S
               PROVE  Cardinality(A) >= k
    OBVIOUS
  <2>1. S \ A \in SUBSET Nat /\ S \ A # {}
    BY <1>4
  <2>2. PICK n \in S \ A : \A m \in S \ A : n <= m
    <3> HIDE DEF A
    <3> QED
      BY <2>1, LeastExists
  <2>3. Below(n) \in SUBSET A
    <3> SUFFICES ASSUME NEW m \in S, m < n
                 PROVE  m \in A
      OBVIOUS
    <3> HIDE DEF A
    <3>1. m \in Nat /\ n \in Nat
      OBVIOUS
    <3> QED
      BY <2>2, <3>1
  <2>4. ~(rank(n) < k)
    BY <2>2 DEF FirstOf
  <2> HIDE DEF A, Below
  <2> QED
    BY <1>2, <1>4, <2>3, <2>4, FS_Subset
<1> HIDE DEF A
<1>8. Cardinality(A) = Least(Cardinality(S), k)
  BY <1>4, <1>6, <1>7 DEF Least
<1> QED
  BY <1>4, <1>5, <1>8 DEF A

LEMMA TitlesFinite ==
    ASSUME NEW S \in SUBSET Items
    PROVE  TitlesOf(S) \in SUBSET Nat /\ IsFiniteSet(TitlesOf(S))
<1>1. IsFiniteSet(S) /\ \A i \in S : NameOf[i] \in Nat
  BY ItemsFinite, CheckAssumption DEF Items
<1> DEFINE T == {NameOf[i] : i \in S}
<1>2. IsFiniteSet(T)
  <2> DEFINE f == [i \in S |-> NameOf[i]]
  <2>1. f \in Surjection(S, T)
    BY DEF Surjection
  <2> HIDE DEF f, T
  <2> QED
    BY <1>1, <2>1, FS_Surjection
<1>3. TitlesOf(S) \in SUBSET T /\ T \in SUBSET Nat
  BY <1>1 DEF TitlesOf
<1> HIDE DEF T
<1> QED
  BY <1>2, <1>3, FS_Subset

LEMMA CountsTell ==
    ASSUME NEW c, NEW S \in SUBSET Items, CountsFit(c, S)
    PROVE  /\ c \in [Names -> 0..NumShows]
           /\ ActiveShows(c) = FirstOf(TitlesOf(S), MaxActiveShows)
           /\ ActiveShows(c) \in SUBSET Names
<1>1. ASSUME NEW n \in Names
      PROVE  c[n] \in 0..NumShows /\ (c[n] > 0 <=> \E i \in S : NameOf[i] = n)
  <2>1. c[n] = Cardinality({i \in S : NameOf[i] = n})
    BY DEF CountsFit
  <2>2. {i \in S : NameOf[i] = n} \in SUBSET Items
    OBVIOUS
  <2>3. IsFiniteSet({i \in S : NameOf[i] = n}) /\ c[n] \in 0..NumShows
    BY <2>1, <2>2, ItemsFinite
  <2>4. c[n] = 0 <=> {i \in S : NameOf[i] = n} = {}
    BY <2>1, <2>3, FS_EmptySet
  <2> QED
    BY <2>3, <2>4
<1>2. c \in [Names -> 0..NumShows]
  BY <1>1 DEF CountsFit
<1>3. {n \in Names : c[n] > 0} = TitlesOf(S)
  BY <1>1 DEF TitlesOf, Names
<1> QED
  BY <1>2, <1>3 DEF ActiveShows, FirstOf

--------------------------------------------------------------------------------
(* The check step keeps its books *)

LEMMA CheckFacts ==
    ASSUME CheckInv
    PROVE  /\ NumShows \in Nat /\ NumCheckers \in Nat
           /\ Elems(results) \subseteq Items /\ Elems(resolved) \subseteq Items
           /\ ItemsOf(checker, Checking) \subseteq Items
           /\ Len(resolved) \in 0..NumShows
           /\ Len(resolved) = NumShows => Elems(resolved) = Items
           /\ ActiveShows(checkCounts) \in SUBSET Names
<1>1. NumShows \in Nat /\ NumCheckers \in Nat
  BY CheckAssumption DEF NumCheckers, Least
<1>2. /\ Elems(results) \subseteq Items /\ Elems(resolved) \subseteq Items
      /\ ItemsOf(checker, Checking) \subseteq Items
  BY <1>1 DEF CheckInv, CheckTypes, CheckPlaces, Items
<1>3. /\ IsFiniteSet(Elems(resolved)) /\ Cardinality(Elems(resolved)) = Len(resolved)
      /\ Len(resolved) \in Nat
  BY DistinctCardinality DEF CheckInv, CheckTypes, CheckPlaces
<1>4. IsFiniteSet(Items) /\ Cardinality(Items) = NumShows
  BY <1>1, FS_Interval DEF Items
<1>5. Len(resolved) <= NumShows /\ (Len(resolved) = NumShows => Elems(resolved) = Items)
  BY <1>2, <1>3, <1>4, FS_Subset
<1>6. ItemsOf(checker, Looked) \cup Elems(results) \in SUBSET Items
  BY <1>2 DEF ItemsOf, Looked, Checking, CheckersAt
<1>7. ActiveShows(checkCounts) \in SUBSET Names
  BY <1>6, CountsTell DEF CheckInv, CheckCountsFit
<1> QED
  BY <1>1, <1>2, <1>3, <1>5, <1>7

LEMMA MoveChecker ==
    ASSUME CheckTypes, NEW w \in Checkers, NEW item \in Items \cup {0},
           NEW at \in {"idle", "start", "call", "send", "gone"}, CheckerAt(w, at, item)
    PROVE  /\ checker' \in [Checkers -> [at : {"idle", "start", "call", "send", "gone"},
                                         item : Items \cup {0}]]
           /\ checker'[w].at = at /\ checker'[w].item = item
           /\ \A v \in Checkers \ {w} : checker'[v] = checker[v]
           /\ \A S : CheckersAt(S)' = IF at \in S THEN CheckersAt(S) \cup {w}
                                      ELSE CheckersAt(S) \ {w}
<1>1. /\ checker' = [checker EXCEPT ![w] = [at |-> at, item |-> item]]
      /\ checker \in [Checkers -> [at : {"idle", "start", "call", "send", "gone"},
                                   item : Items \cup {0}]]
  BY DEF CheckerAt, CheckTypes
<1>2. \A v \in Checkers : checker'[v] = IF v = w THEN [at |-> at, item |-> item] ELSE checker[v]
  BY <1>1
<1> QED
  BY <1>1, <1>2 DEF CheckersAt

LEMMA NewIDFree ==
    ASSUME found \in [Items -> TmdbIDs \cup {None}], NEW i \in Items, found[i] = None
    PROVE  NewID \in TmdbIDs /\ IDs \subseteq TmdbIDs
<1> DEFINE f == [k \in Items \ {i} |-> found[k]]
           T == {found[k] : k \in Items \ {i}}
<1>1. NumShows \in Nat
  BY CheckAssumption
<1>2. IsFiniteSet(Items) /\ Cardinality(Items) = NumShows
  BY <1>1, FS_Interval DEF Items
<1>3. IsFiniteSet(Items \ {i}) /\ Cardinality(Items \ {i}) = NumShows - 1
  BY <1>2, FS_RemoveElement
<1>4. f \in Surjection(Items \ {i}, T)
  BY DEF Surjection
<1>5. IsFiniteSet(T) /\ Cardinality(T) <= NumShows - 1
  BY <1>3, <1>4, FS_Surjection
<1>6. IDs \subseteq T
  BY DEF IDs
<1>7. IsFiniteSet(IDs) /\ Cardinality(IDs) <= NumShows - 1 /\ Cardinality(IDs) \in Nat
  <2> HIDE DEF T
  <2>1. IsFiniteSet(IDs) /\ Cardinality(IDs) <= Cardinality(T)
    BY <1>5, <1>6, FS_Subset
  <2>2. Cardinality(IDs) \in Nat /\ Cardinality(T) \in Nat
    BY <2>1, <1>5, FS_CardinalityType
  <2> QED
    BY <1>1, <1>5, <2>1, <2>2
<1> QED
  BY <1>1, <1>7 DEF NewID, TmdbIDs, IDs

LEMMA FeedingInv ==
    ASSUME CheckInv, GetUserInformation \/ FeedCheck \/ CloseChecks
    PROVE  CheckInv' /\ step' = step
<1>1. /\ UNCHANGED <<step, checkTaken, checker, found, results, resolved, checkCounts, shown>>
      /\ UNCHANGED checkFed \/ checkFeeder = "feeding"
  BY DEF GetUserInformation, FeedCheck, CloseChecks, poolOfChecks
<1>2. CheckTypes'
  BY CheckFacts, <1>1 DEF GetUserInformation, FeedCheck, CloseChecks, poolOfChecks, CheckInv, CheckTypes, shown
<1>3. CheckPlaces' /\ FoundFits' /\ CheckCountsFit'
  BY <1>1 DEF CheckInv, CheckPlaces, FoundFits, CheckCountsFit, Checking, Looked, CheckersAt
<1>4. CheckFlow'
  BY <1>1 DEF GetUserInformation, FeedCheck, CloseChecks, poolOfChecks, CheckInv, CheckTypes, CheckFlow
<1>5. CheckShown'
  BY <1>1 DEF CheckInv, CheckShown, shown
<1> QED
  BY <1>1, <1>2, <1>3, <1>4, <1>5 DEF CheckInv

LEMMA TakeCheckInv ==
    ASSUME CheckInv, NEW w \in Checkers, TakeCheck(w)
    PROVE  CheckInv' /\ step' = step
<1>1. /\ UNCHANGED <<step, library, checkFed, checkFeeder, found, results, resolved, checkCounts,
                     progress, saved>>
      /\ checker[w].at = "idle" /\ checkFeeder # "gone" /\ NumShows \in Nat
      /\ CheckTypes /\ CheckPlaces /\ CheckFlow
  BY CheckFacts DEF TakeCheck, CheckInv, CheckFlow, shown
<1>2. w \notin Looked /\ w \notin Checking /\ w \notin CheckersAt({"send"})
  BY <1>1 DEF Looked, Checking, CheckersAt
<1>3. CASE checkTaken < checkFed /\ checkTaken' = checkTaken + 1
           /\ CheckerAt(w, "start", checkTaken + 1)
  <2> DEFINE i == checkTaken + 1
  <2>1. checkTaken \in Nat /\ i \in Items /\ i \in 1..checkTaken' /\ i \notin 1..checkTaken
        /\ 1..checkTaken' = 1..checkTaken \cup {i}
    BY <1>1, <1>3 DEF CheckTypes, Items
  <2>2. /\ checker'[w].at = "start" /\ checker'[w].item = i
        /\ \A v \in Checkers \ {w} : checker'[v] = checker[v]
        /\ Checking' = Checking \cup {w} /\ Looked' = Looked
        /\ CheckersAt({"send"})' = CheckersAt({"send"})
        /\ CheckTypes'
    <3>1. /\ checker' \in [Checkers -> [at : {"idle", "start", "call", "send", "gone"},
                                         item : Items \cup {0}]]
          /\ checker'[w].at = "start" /\ checker'[w].item = i
          /\ \A v \in Checkers \ {w} : checker'[v] = checker[v]
          /\ \A S : CheckersAt(S)' = IF "start" \in S THEN CheckersAt(S) \cup {w}
                                     ELSE CheckersAt(S) \ {w}
      BY <1>1, <1>3, <2>1, MoveChecker
    <3>2. Checking' = Checking \cup {w} /\ Looked' = Looked
          /\ CheckersAt({"send"})' = CheckersAt({"send"})
      BY <1>2, <3>1 DEF Checking, Looked
    <3>3. CheckTypes'
      BY <1>1, <1>3, <2>1, <3>1, CheckFacts DEF CheckTypes
    <3> QED
      BY <3>1, <3>2, <3>3
  <2>3. /\ ItemsOf(checker', Looked') = ItemsOf(checker, Looked)
        /\ ItemsOf(checker', CheckersAt({"send"})') = ItemsOf(checker, CheckersAt({"send"}))
    <3>1. /\ \A v \in Looked : checker'[v].item = checker[v].item
          /\ \A v \in CheckersAt({"send"}) : checker'[v].item = checker[v].item
      BY <1>2, <2>2 DEF Looked, CheckersAt
    <3> QED
      BY <2>2, <3>1, ItemsStay
  <2>4. /\ ItemsOf(checker', Checking') = ItemsOf(checker, Checking) \cup {i}
        /\ Exclusive(checker', Checking')
    <3>1. \A v \in Checking : checker'[v].item = checker[v].item
      BY <1>2, <2>2 DEF Checking, CheckersAt
    <3>2. i \notin ItemsOf(checker, Checking) /\ Exclusive(checker, Checking)
      BY <1>1, <2>1 DEF CheckPlaces
    <3> QED
      BY <2>2, <3>1, <3>2 DEF ItemsOf, Exclusive
  <2>5. CheckPlaces'
    BY <1>1, <2>1, <2>4 DEF CheckPlaces
  <2>6. FoundFits' /\ CheckCountsFit'
    BY <1>1, <2>3 DEF CheckInv, FoundFits, CheckCountsFit
  <2>7. CheckFlow'
    BY <1>1, <1>3, <2>2 DEF CheckTypes, CheckFlow
  <2> QED
    BY <1>1, <2>2, <2>5, <2>6, <2>7 DEF CheckInv, CheckShown
<1>4. CASE checkTaken = checkFed /\ checkFeeder # "feeding"
           /\ CheckerAt(w, "gone", 0) /\ UNCHANGED checkTaken
  <2>1. /\ checker' \in [Checkers -> [at : {"idle", "start", "call", "send", "gone"},
                                       item : Items \cup {0}]]
        /\ checker'[w].at = "gone"
        /\ \A v \in Checkers \ {w} : checker'[v] = checker[v]
        /\ \A S : CheckersAt(S)' = IF "gone" \in S THEN CheckersAt(S) \cup {w}
                                   ELSE CheckersAt(S) \ {w}
    BY <1>1, <1>4, MoveChecker
  <2>2. Checking' = Checking /\ Looked' = Looked /\ CheckersAt({"send"})' = CheckersAt({"send"})
    BY <1>2, <2>1 DEF Checking, Looked
  <2>3. /\ ItemsOf(checker', Checking') = ItemsOf(checker, Checking)
        /\ Exclusive(checker', Checking')
        /\ ItemsOf(checker', Looked') = ItemsOf(checker, Looked)
        /\ ItemsOf(checker', CheckersAt({"send"})') = ItemsOf(checker, CheckersAt({"send"}))
    <3>1. /\ \A v \in Checking : checker'[v].item = checker[v].item
          /\ \A v \in Looked : checker'[v].item = checker[v].item
          /\ \A v \in CheckersAt({"send"}) : checker'[v].item = checker[v].item
      BY <1>2, <2>1 DEF Looked, Checking, CheckersAt
    <3>2. Exclusive(checker, Checking)
      BY <1>1 DEF CheckPlaces
    <3> QED
      BY <2>2, <3>1, <3>2, ItemsStay
  <2>4. CheckTypes'
    BY <1>1, <1>4, <2>1 DEF CheckTypes
  <2>5. CheckPlaces' /\ FoundFits' /\ CheckCountsFit'
    BY <1>1, <1>4, <2>3 DEF CheckInv, CheckPlaces, FoundFits, CheckCountsFit
  <2>6. CheckFlow'
    BY <1>1, <1>4, <2>1 DEF CheckFlow
  <2> QED
    BY <1>1, <2>4, <2>5, <2>6 DEF CheckInv, CheckShown
<1> QED
  BY <1>3, <1>4 DEF TakeCheck

LEMMA StartCheckInv ==
    ASSUME CheckInv, NEW w \in Checkers, StartCheck(w)
    PROVE  CheckInv' /\ step' = step
<1> DEFINE i == checker[w].item
<1>1. /\ UNCHANGED <<step, library, checkFed, checkTaken, checkFeeder, found, results, resolved, saved>>
      /\ checker[w].at = "start" /\ CheckerAt(w, "call", i)
      /\ checkCounts' = trackerStart(checkCounts, NameOf[i])
      /\ progress' = [progress EXCEPT !.active = ActiveShows(checkCounts')]
      /\ CheckTypes /\ CheckPlaces /\ CheckFlow /\ CheckCountsFit
  BY DEF StartCheck, CheckInv
<1>2. w \in Checking /\ w \notin Looked /\ w \notin CheckersAt({"send"}) /\ Looked \subseteq Checking
  BY <1>1 DEF Looked, Checking, CheckersAt
<1>3. i \in Items /\ i \in ItemsOf(checker, Checking) /\ i \notin ItemsOf(checker, Looked)
  BY <1>1, <1>2, CheckFacts DEF ItemsOf, CheckPlaces, Exclusive
<1>4. /\ checker' \in [Checkers -> [at : {"idle", "start", "call", "send", "gone"},
                                     item : Items \cup {0}]]
      /\ checker'[w].at = "call" /\ checker'[w].item = i
      /\ \A v \in Checkers \ {w} : checker'[v] = checker[v]
      /\ \A S : CheckersAt(S)' = IF "call" \in S THEN CheckersAt(S) \cup {w}
                                 ELSE CheckersAt(S) \ {w}
  BY <1>1, <1>3, MoveChecker
<1>5. Checking' = Checking /\ Looked' = Looked \cup {w}
      /\ CheckersAt({"send"})' = CheckersAt({"send"})
  BY <1>2, <1>4 DEF Checking, Looked
<1>6. /\ \A v \in Checking : checker'[v].item = checker[v].item
      /\ \A v \in Looked : checker'[v].item = checker[v].item
      /\ \A v \in CheckersAt({"send"}) : checker'[v].item = checker[v].item
      /\ Exclusive(checker, Checking)
  BY <1>1, <1>4 DEF Checking, Looked, CheckersAt, CheckPlaces
<1>7. /\ ItemsOf(checker', Checking') = ItemsOf(checker, Checking)
      /\ Exclusive(checker', Checking')
      /\ ItemsOf(checker', CheckersAt({"send"})') = ItemsOf(checker, CheckersAt({"send"}))
  BY <1>5, <1>6, ItemsStay
<1>8. ItemsOf(checker', Looked') = ItemsOf(checker, Looked) \cup {i}
  BY <1>4, <1>5, <1>6 DEF ItemsOf
<1>9. CheckTypes' /\ CheckPlaces' /\ FoundFits'
  BY <1>1, <1>4, <1>7 DEF CheckInv, CheckTypes, CheckPlaces, FoundFits
<1>10. CheckCountsFit'
  <2> DEFINE S == ItemsOf(checker, Looked) \cup Elems(results)
  <2>1. S \in SUBSET Items /\ i \in Items \ S
    BY <1>1, <1>2, <1>3, CheckFacts DEF ItemsOf, CheckPlaces
  <2>2. CountsFit(checkCounts', S \cup {i})
    BY <1>1, <2>1, CountUp DEF CheckCountsFit
  <2>3. ItemsOf(checker', Looked') \cup Elems(results') = S \cup {i}
    BY <1>1, <1>8
  <2> QED
    BY <2>2, <2>3 DEF CheckCountsFit
<1>11. CheckFlow'
  BY <1>1, <1>4 DEF CheckFlow
<1>12. CheckShown'
  <2>1. step = "check" /\ Len(resolved) # NumShows
    BY <1>1, <1>3, CheckFacts DEF CheckTypes, CheckFlow, CheckPlaces
  <2>2. /\ progress = [step |-> "check", done |-> Len(resolved), remaining |-> NumShows - Len(resolved),
                       notFound |-> {}, active |-> ActiveShows(checkCounts)]
    BY <2>1 DEF CheckInv, CheckShown
  <2>3. progress' = [step |-> "check", done |-> Len(resolved'), remaining |-> NumShows - Len(resolved'),
                     notFound |-> {}, active |-> ActiveShows(checkCounts')]
    BY <1>1, <2>2
  <2>4. progress'.remaining # 0
    BY <1>1, <2>1, <2>3, CheckFacts
  <2> QED
    BY <2>3, <2>4 DEF CheckShown
<1> QED
  BY <1>1, <1>9, <1>10, <1>11, <1>12 DEF CheckInv

LEMMA ResolveShowInv ==
    ASSUME CheckInv, NEW w \in Checkers, ResolveShow(w)
    PROVE  CheckInv' /\ step' = step
<1> DEFINE i == checker[w].item
<1>1. /\ UNCHANGED <<step, library, checkFed, checkTaken, checkFeeder, results, resolved, checkCounts,
                     progress, saved>>
      /\ checker[w].at = "call" /\ CheckerAt(w, "send", i)
      /\ CheckTypes /\ CheckPlaces /\ CheckFlow /\ FoundFits
      /\ \E t \in IDs \cup {NewID, None} : found' = [found EXCEPT ![i] = t]
  BY DEF ResolveShow, CheckInv, shown
<1>2. w \in Checking /\ w \in Looked /\ w \notin CheckersAt({"send"}) /\ CheckersAt({"send"}) \subseteq Checking
  BY <1>1 DEF Looked, Checking, CheckersAt
<1>3. i \in Items /\ i \in ItemsOf(checker, Checking) /\ i \notin ItemsOf(checker, CheckersAt({"send"}))
  BY <1>1, <1>2, CheckFacts DEF ItemsOf, CheckPlaces, Exclusive
<1>4. /\ checker' \in [Checkers -> [at : {"idle", "start", "call", "send", "gone"},
                                     item : Items \cup {0}]]
      /\ checker'[w].at = "send" /\ checker'[w].item = i
      /\ \A v \in Checkers \ {w} : checker'[v] = checker[v]
      /\ \A S : CheckersAt(S)' = IF "send" \in S THEN CheckersAt(S) \cup {w}
                                 ELSE CheckersAt(S) \ {w}
  BY <1>1, <1>3, MoveChecker
<1>5. Checking' = Checking /\ Looked' = Looked
      /\ CheckersAt({"send"})' = CheckersAt({"send"}) \cup {w}
  BY <1>2, <1>4 DEF Checking, Looked
<1>6. /\ \A v \in Checking : checker'[v].item = checker[v].item
      /\ \A v \in Looked : checker'[v].item = checker[v].item
      /\ \A v \in CheckersAt({"send"}) : checker'[v].item = checker[v].item
      /\ Exclusive(checker, Checking)
  BY <1>1, <1>4 DEF Checking, Looked, CheckersAt, CheckPlaces
<1>7. /\ ItemsOf(checker', Checking') = ItemsOf(checker, Checking)
      /\ Exclusive(checker', Checking')
      /\ ItemsOf(checker', Looked') = ItemsOf(checker, Looked)
  BY <1>5, <1>6, ItemsStay
<1>8. ItemsOf(checker', CheckersAt({"send"})') = ItemsOf(checker, CheckersAt({"send"})) \cup {i}
  BY <1>4, <1>5, <1>6 DEF ItemsOf
<1>9. found[i] = None
  BY <1>1, <1>3 DEF FoundFits, CheckPlaces
<1>10. found' \in [Items -> TmdbIDs \cup {None}] /\ \A k \in Items \ {i} : found'[k] = found[k]
  BY <1>1, <1>3, <1>9, NewIDFree DEF CheckTypes
<1>11. CheckTypes' /\ CheckPlaces'
  BY <1>1, <1>4, <1>7, <1>10 DEF CheckTypes, CheckPlaces
<1>12. FoundFits'
  BY <1>1, <1>8, <1>10 DEF FoundFits
<1>13. CheckCountsFit' /\ CheckShown'
  BY <1>1, <1>7 DEF CheckInv, CheckCountsFit, CheckShown
<1>14. CheckFlow'
  BY <1>1, <1>4 DEF CheckFlow
<1> QED
  BY <1>1, <1>11, <1>12, <1>13, <1>14 DEF CheckInv

LEMMA SendResolvedInv ==
    ASSUME CheckInv, NEW w \in Checkers, SendResolved(w)
    PROVE  CheckInv' /\ step' = step
<1> DEFINE i == checker[w].item
<1>1. /\ UNCHANGED <<step, library, checkFed, checkTaken, checkFeeder, found, resolved, checkCounts,
                     progress, saved>>
      /\ checker[w].at = "send" /\ CheckerAt(w, "idle", 0)
      /\ Len(results) < NumCheckers /\ results' = Append(results, i)
      /\ CheckTypes /\ CheckPlaces /\ CheckFlow /\ FoundFits
  BY DEF SendResolved, CheckInv, shown
<1>2. w \in Checking /\ w \in Looked /\ w \in CheckersAt({"send"})
      /\ CheckersAt({"send"}) \subseteq Looked /\ Looked \subseteq Checking
  BY <1>1 DEF Looked, Checking, CheckersAt
<1>3. /\ i \in Items /\ i \in ItemsOf(checker, Checking)
      /\ Exclusive(checker, Looked) /\ Exclusive(checker, CheckersAt({"send"}))
  BY <1>1, <1>2, CheckFacts DEF ItemsOf, CheckPlaces, Exclusive
<1>4. /\ checker' \in [Checkers -> [at : {"idle", "start", "call", "send", "gone"},
                                     item : Items \cup {0}]]
      /\ checker'[w].at = "idle"
      /\ \A v \in Checkers \ {w} : checker'[v] = checker[v]
      /\ \A S : CheckersAt(S)' = IF "idle" \in S THEN CheckersAt(S) \cup {w}
                                 ELSE CheckersAt(S) \ {w}
  BY <1>1, MoveChecker
<1>5. Checking' = Checking \ {w} /\ Looked' = Looked \ {w}
      /\ CheckersAt({"send"})' = CheckersAt({"send"}) \ {w}
  BY <1>4 DEF Checking, Looked
<1>6. /\ ItemsOf(checker', Checking') = ItemsOf(checker, Checking) \ {i}
      /\ Exclusive(checker', Checking')
      /\ ItemsOf(checker', Looked') = ItemsOf(checker, Looked) \ {i}
      /\ i \in ItemsOf(checker, Looked)
      /\ ItemsOf(checker', CheckersAt({"send"})') = ItemsOf(checker, CheckersAt({"send"})) \ {i}
  <2>1. /\ \A v \in Checking' : checker'[v].item = checker[v].item
        /\ \A v \in Looked' : checker'[v].item = checker[v].item
        /\ \A v \in CheckersAt({"send"})' : checker'[v].item = checker[v].item
    BY <1>4, <1>5 DEF Checking, Looked, CheckersAt
  <2>2. Exclusive(checker, Checking)
    BY <1>1 DEF CheckPlaces
  <2> QED
    BY <1>2, <1>3, <1>5, <2>1, <2>2 DEF ItemsOf, Exclusive
<1>7. /\ results' \in Seq(Items) /\ Len(results') = Len(results) + 1
      /\ Elems(results') = Elems(results) \cup {i} /\ Distinct(results')
  BY <1>1, <1>3, ElemsAppend DEF CheckTypes, CheckPlaces
<1>8. CheckTypes'
  BY <1>1, <1>4, <1>7, CheckFacts DEF CheckTypes
<1>9. CheckPlaces'
  BY <1>1, <1>3, <1>6, <1>7 DEF CheckPlaces
<1>10. FoundFits'
  BY <1>1, <1>6, <1>7 DEF FoundFits
<1>11. CheckCountsFit'
  <2>1. ItemsOf(checker', Looked') \cup Elems(results') = ItemsOf(checker, Looked) \cup Elems(results)
    BY <1>6, <1>7
  <2> QED
    BY <1>1, <2>1 DEF CheckInv, CheckCountsFit
<1>12. CheckFlow'
  BY <1>1, <1>4 DEF CheckFlow
<1> QED
  BY <1>1, <1>8, <1>9, <1>10, <1>11, <1>12 DEF CheckInv, CheckShown

LEMMA CollectResolvedInv ==
    ASSUME CheckInv, CollectResolved
    PROVE  CheckInv' /\ step' = step
<1> DEFINE i == Head(results)
<1>1. /\ UNCHANGED <<step, library, checkFed, checkTaken, checkFeeder, checker, found>>
      /\ results # <<>> /\ results' = Tail(results) /\ resolved' = Append(resolved, i)
      /\ checkCounts' = trackerDone(checkCounts, NameOf[i])
      /\ progress' = [progress EXCEPT !.done = @ + 1, !.remaining = NumShows - (progress.done + 1),
                                      !.active = ActiveShows(checkCounts')]
      /\ saved' = IF PersistNow(progress'.done, NumShows) THEN progress' ELSE saved
      /\ CheckTypes /\ CheckPlaces /\ CheckFlow /\ FoundFits /\ CheckCountsFit
  BY DEF CollectResolved, CheckInv
<1>2. /\ i \in Items /\ i \in Elems(results) /\ results' \in Seq(Items)
      /\ Len(results') = Len(results) - 1 /\ Len(results) \in Nat
      /\ Elems(results') = Elems(results) \ {i} /\ Distinct(results')
  BY <1>1, ElemsTail DEF CheckTypes, CheckPlaces
<1>3. /\ resolved' \in Seq(Items) /\ Len(resolved') = Len(resolved) + 1
      /\ Elems(resolved') = Elems(resolved) \cup {i} /\ Distinct(resolved')
  BY <1>1, <1>2, ElemsAppend DEF CheckTypes, CheckPlaces
<1>4. /\ Checking' = Checking /\ Looked' = Looked
      /\ CheckersAt({"send"})' = CheckersAt({"send"})
  BY <1>1 DEF Checking, Looked, CheckersAt
<1>5. CheckPlaces'
  BY <1>1, <1>2, <1>3, <1>4 DEF CheckPlaces
<1>6. FoundFits'
  BY <1>1, <1>2, <1>3, <1>4 DEF FoundFits
<1>7. CheckFlow'
  BY <1>1 DEF CheckFlow
<1>8. CheckCountsFit' /\ ActiveShows(checkCounts') \in SUBSET Names
  <2> DEFINE S == ItemsOf(checker, Looked) \cup Elems(results)
  <2>1. S \in SUBSET Items /\ i \in S /\ i \notin ItemsOf(checker, Looked)
    BY <1>1, <1>2, CheckFacts DEF ItemsOf, CheckPlaces, Looked, Checking, CheckersAt
  <2>2. CountsFit(checkCounts', S \ {i})
    BY <1>1, <2>1, CountDown DEF CheckCountsFit
  <2>3. ItemsOf(checker', Looked') \cup Elems(results') = S \ {i}
    BY <1>1, <1>2, <1>4, <2>1
  <2>4. S \ {i} \in SUBSET Items
    BY <2>1
  <2> QED
    BY <2>2, <2>3, <2>4, CountsTell DEF CheckCountsFit
<1>9. step = "check" /\ Len(resolved) \in Nat /\ Len(resolved) + 1 <= NumShows /\ NumShows \in Nat
  <2>1. step = "check"
    BY <1>1 DEF CheckTypes, CheckFlow
  <2>2. i \notin Elems(resolved)
    BY <1>1, <1>2 DEF CheckPlaces
  <2> QED
    BY <1>2, <2>1, <2>2, CheckFacts
<1>10. progress' = [step |-> "check", done |-> Len(resolved'), remaining |-> NumShows - Len(resolved'),
                    notFound |-> {}, active |-> ActiveShows(checkCounts')]
  <2>1. progress = [step |-> "check", done |-> Len(resolved), remaining |-> NumShows - Len(resolved),
                    notFound |-> {}, active |-> ActiveShows(checkCounts)]
    BY <1>9 DEF CheckInv, CheckShown
  <2> QED
    BY <1>1, <1>3, <2>1
<1>11. CheckShown'
  <2>1. progress'.remaining = 0 => PersistNow(progress'.done, NumShows)
    BY <1>3, <1>9, <1>10 DEF PersistNow
  <2> QED
    BY <1>1, <1>10, <2>1 DEF CheckShown
<1>12. CheckTypes'
  <2>1. progress' \in Shown
    BY <1>3, <1>8, <1>9, <1>10 DEF Shown
  <2> QED
    BY <1>1, <1>2, <1>3, <2>1, CheckFacts DEF CheckTypes
<1> QED
  BY <1>1, <1>5, <1>6, <1>7, <1>8, <1>11, <1>12 DEF CheckInv

LEMMA CheckFailsInv ==
    ASSUME CheckInv, CheckFails
    PROVE  CheckInv' /\ step' = "failed"
<1>1. /\ step = "check" /\ step' = "failed" /\ ChecksEnd
      /\ UNCHANGED <<library, checkFed, checkTaken, checkFeeder, checker, found, results, resolved,
                     checkCounts, progress, saved>>
  BY DEF CheckFails, ChecksEnd, poolOfChecks, shown
<1>2. CheckTypes' /\ CheckFlow' /\ CheckShown'
  BY <1>1 DEF CheckInv, CheckTypes, CheckFlow, CheckShown, ChecksEnd
<1>3. CheckPlaces' /\ FoundFits' /\ CheckCountsFit'
  BY <1>1 DEF CheckInv, CheckPlaces, FoundFits, CheckCountsFit, Checking, Looked, CheckersAt
<1> QED
  BY <1>1, <1>2, <1>3 DEF CheckInv

LEMMA CheckNextInv ==
    ASSUME CheckInv, CheckNext
    PROVE  CheckInv' /\ step = "check" /\ step' \in {"check", "failed"}
<1>1. step = "check"
  <2>1. CASE GetUserInformation
    BY <2>1 DEF GetUserInformation, CheckInv, CheckTypes, CheckFlow
  <2>2. CASE FeedCheck \/ CloseChecks
    BY <2>2 DEF FeedCheck, CloseChecks, CheckInv, CheckTypes, CheckFlow
  <2>3. CASE \E w \in Checkers : Check(w)
    BY <2>3 DEF Check, TakeCheck, StartCheck, ResolveShow, SendResolved, CheckInv, CheckTypes, CheckFlow
  <2>4. CASE CollectResolved \/ CheckFails
    BY <2>4 DEF CollectResolved, CheckFails, ChecksEnd, CheckInv, CheckTypes, CheckFlow
  <2> QED
    BY <2>1, <2>2, <2>3, <2>4 DEF CheckNext
<1>2. CheckInv' /\ (step' = step \/ step' = "failed")
  BY FeedingInv, TakeCheckInv, StartCheckInv, ResolveShowInv, SendResolvedInv, CollectResolvedInv,
     CheckFailsInv DEF CheckNext, Check
<1> QED
  BY <1>1, <1>2

--------------------------------------------------------------------------------
(* The start, and classifyResolvedShows *)

LEMMA NoCounts ==
    /\ CountsFit([n \in Names |-> 0], {})
    /\ ActiveShows([n \in Names |-> 0]) = {}
<1>1. Cardinality({}) = 0
  BY FS_EmptySet
<1>2. \A n \in Names : {i \in {} : NameOf[i] = n} = {}
  OBVIOUS
<1>3. CountsFit([n \in Names |-> 0], {})
  BY <1>1, <1>2 DEF CountsFit
<1> QED
  BY <1>3 DEF ActiveShows, FirstOf

LEMMA InitInv == Init => CheckInv /\ step = "check" /\ Idle
<1> SUFFICES ASSUME Init
             PROVE  CheckInv /\ step = "check" /\ Idle
  OBVIOUS
<1>1. NumShows \in Nat /\ NumCheckers \in Nat
  BY CheckAssumption DEF NumCheckers, Least
<1>2. CheckInit /\ step = "check" /\ Idle
  BY DEF Init, Idle, CheckInit
<1>3. \A w \in Checkers : checker[w] = [at |-> "idle", item |-> 0]
  BY <1>2 DEF CheckInit
<1>4. Checking = {} /\ Looked = {} /\ CheckersAt({"send"}) = {}
  BY <1>3 DEF Checking, Looked, CheckersAt
<1>5. results = <<>> /\ resolved = <<>> /\ Elems(<<>>) = {} /\ Distinct(<<>>) /\ Len(<<>>) = 0
  BY <1>2 DEF CheckInit, Elems, Distinct
<1>6. \A p : ItemsOf(p, {}) = {} /\ Exclusive(p, {})
  BY DEF ItemsOf, Exclusive
<1>7. progress = [step |-> "check", done |-> 0, remaining |-> NumShows, notFound |-> {}, active |-> {}]
      /\ saved = progress /\ progress \in Shown
  BY <1>1, <1>2 DEF CheckInit, Shown
<1>8. CheckTypes
  BY <1>1, <1>2, <1>5, <1>7 DEF CheckInit, CheckTypes
<1>9. CheckPlaces
  BY <1>2, <1>4, <1>5, <1>6 DEF CheckInit, CheckPlaces
<1>10. CheckFlow /\ FoundFits
  BY <1>2, <1>3 DEF CheckInit, CheckFlow, FoundFits
<1>11. CheckCountsFit /\ CheckShown
  <2>1. ItemsOf(checker, Looked) \cup Elems(results) = {}
    BY <1>4, <1>5, <1>6
  <2>2. checkCounts = [n \in Names |-> 0]
    BY <1>2 DEF CheckInit
  <2>3. CheckCountsFit /\ ActiveShows(checkCounts) = {}
    BY <2>1, <2>2, NoCounts DEF CheckCountsFit
  <2> QED
    BY <1>1, <1>5, <1>7, <2>3 DEF CheckShown
<1> QED
  BY <1>2, <1>8, <1>9, <1>10, <1>11 DEF CheckInv

(* When the check has ended the collector has had every show, once. *)
LEMMA AllResolved ==
    ASSUME CheckInv, ChecksEnd
    PROVE  /\ Elems(resolved) = Items /\ Checking = {} /\ Looked = {} /\ results = <<>>
           /\ \A i \in Items : Place(i) \in Items /\ resolved[Place(i)] = i
<1>1. NumShows \in Nat /\ NumCheckers \in Nat /\ (NumCheckers = 0 => NumShows = 0)
  BY CheckAssumption DEF NumCheckers, Least
<1>2. \A w \in Checkers : checker[w].at = "gone"
  BY DEF CheckInv, CheckFlow, ChecksEnd
<1>3. checkTaken = NumShows
  <2>1. CASE NumCheckers = 0
    BY <1>1, <2>1 DEF CheckInv, CheckTypes
  <2>2. CASE NumCheckers # 0
    <3>1. 1 \in Checkers
      BY <1>1, <2>2 DEF Checkers
    <3> QED
      BY <1>2, <3>1 DEF CheckInv, CheckFlow
  <2> QED
    BY <2>1, <2>2
<1>4. Checking = {} /\ Looked = {} /\ results = <<>>
  BY <1>2 DEF Checking, Looked, CheckersAt, ChecksEnd
<1>5. Elems(resolved) = Items
  <2>1. ItemsOf(checker, Checking) = {} /\ Elems(results) = {}
    BY <1>4 DEF ItemsOf, Elems
  <2> QED
    BY <1>3, <2>1 DEF CheckInv, CheckPlaces, Items
<1>6. ASSUME NEW i \in Items
      PROVE  Place(i) \in Items /\ resolved[Place(i)] = i
  <2>1. PICK n \in 1..Len(resolved) : resolved[n] = i
    BY <1>5 DEF Elems
  <2>2. n \in Items
    BY <1>1, CheckFacts DEF Items
  <2> QED
    BY <2>1, <2>2 DEF Place
<1> QED
  BY <1>4, <1>5, <1>6

(* The pending imports are the shows that are neither unresolved nor skipped, *)
(* once each, and no two of them have one id.                                *)
LEMMA PendingFits ==
    ASSUME CheckInv, ChecksEnd, NEW E
    PROVE  /\ PendingImports(E) \in Seq(Items) /\ Distinct(PendingImports(E))
           /\ Len(PendingImports(E)) \in 0..NumShows
           /\ Elems(PendingImports(E)) = Items \ (Skipped(E) \cup Unresolved)
           /\ Skipped(E) \subseteq Items /\ Skipped(E) \cap Unresolved = {}
           /\ \A i \in Elems(PendingImports(E)) : found[i] \notin E
           /\ \A i, k \in Elems(PendingImports(E)) : found[i] = found[k] => i = k
<1> DEFINE S == Items \ (Unresolved \cup Skipped(E))
<1>1. S \subseteq Items
  OBVIOUS
<1>2. \A i \in Items : Place(i) \in Int /\ resolved[Place(i)] = i
  BY AllResolved DEF Items
<1>3. \A i, k \in Items : Place(i) = Place(k) => i = k
  BY <1>2
<1>4. /\ PendingImports(E) \in Seq(Items) /\ Len(PendingImports(E)) \in 0..NumShows
      /\ Distinct(PendingImports(E)) /\ Elems(PendingImports(E)) = S
  BY <1>2, <1>3, ListsAll DEF PendingImports
<1>5. Skipped(E) \subseteq Items /\ Skipped(E) \cap Unresolved = {}
  BY DEF Skipped, TrackedBy, Seen
<1>6. \A i \in S : found[i] \notin E
  BY DEF Skipped, TrackedBy
<1>7. ASSUME NEW i \in S, NEW k \in S, found[i] = found[k], i # k
      PROVE  FALSE
  <2>1. \A m, n \in S : found[m] = found[n] => ~(Place(n) < Place(m))
    BY DEF Skipped, Seen, Before
  <2>2. Place(i) < Place(k) \/ Place(k) < Place(i)
    <3>1. Place(i) \in Int /\ Place(k) \in Int /\ Place(i) # Place(k)
      BY <1>1, <1>2, <1>7
    <3> QED
      BY <3>1
  <2> QED
    BY <1>7, <2>1, <2>2
<1> QED
  BY <1>4, <1>5, <1>6, <1>7

LEMMA ClassifyInv ==
    ASSUME CheckInv, Idle, Classify
    PROVE  CheckInv' /\ step' = "import" /\ ImportInv'
<1>1. /\ ChecksEnd /\ step = "check" /\ step' = "import" /\ library = "told"
      /\ existingIDs' \in SUBSET IDs /\ skipped' = Skipped(existingIDs')
      /\ pending' = PendingImports(existingIDs') /\ notFound' = Unresolved
      /\ feeder' = "feeding"
      /\ worker' = [w \in Workers |->
                       [NoPool[w] EXCEPT !.at = IF w <= NumWorkers' THEN "idle" ELSE @]]
      /\ progress' = [step |-> "import", done |-> 0, remaining |-> total', notFound |-> Unresolved,
                      active |-> {}]
      /\ saved' = progress'
      /\ UNCHANGED <<library, checkFed, checkTaken, checkFeeder, checker, found, results, resolved,
                     checkCounts>>
      /\ UNCHANGED <<fed, taken, importedInRun, outcomes, account, attempts, ledger, counts,
                     newlyAdded, answered, summary>>
  BY DEF Classify, ChecksEnd, poolOfChecks, accountVars
<1>2. /\ pending' \in Seq(Items) /\ Distinct(pending') /\ Len(pending') \in 0..NumShows
      /\ Elems(pending') = Items \ (skipped' \cup Unresolved)
      /\ skipped' \subseteq Items /\ skipped' \cap Unresolved = {}
      /\ \A i \in Elems(pending') : found[i] \notin existingIDs'
      /\ \A i, k \in Elems(pending') : found[i] = found[k] => i = k
  BY <1>1, PendingFits
<1>3. Unresolved' = Unresolved /\ IDs \subseteq TmdbIDs /\ Unresolved \subseteq Items
  BY <1>1 DEF Unresolved, IDs, CheckInv, CheckTypes
<1>4. /\ total' = Len(pending') /\ total' \in Nat
      /\ NumWorkers' \in Nat /\ NumWorkers' <= ImportConcurrency
  BY <1>2, PoolAssumption DEF total, NumWorkers, Least
<1>5. CheckInv'
  <2>1. saved' \in Shown
    BY <1>1, <1>2, <1>3, <1>4, CheckFacts DEF Shown
  <2>2. CheckTypes' /\ CheckFlow' /\ CheckShown'
    BY <1>1, <2>1 DEF CheckInv, CheckTypes, CheckFlow, CheckShown, ChecksEnd
  <2>3. CheckPlaces' /\ FoundFits' /\ CheckCountsFit'
    BY <1>1 DEF CheckInv, CheckPlaces, FoundFits, CheckCountsFit, Checking, Looked, CheckersAt
  <2> QED
    BY <2>2, <2>3 DEF CheckInv
<1>6. Sorted'
  BY <1>1, <1>2, <1>3 DEF Sorted
<1>7. \A w \in Workers :
          /\ worker'[w] \in {[at |-> "idle", item |-> 0, ok |-> FALSE],
                             [at |-> "gone", item |-> 0, ok |-> FALSE]}
          /\ w <= NumWorkers' => worker'[w].at = "idle"
  BY <1>1 DEF NoPool
<1>8. /\ fed' = 0 /\ taken' = 0 /\ outcomes' = <<>> /\ importedInRun' = {} /\ account' = {}
      /\ attempts' = [t \in TmdbIDs |-> 0] /\ ledger' = {} /\ counts' = [n \in Names |-> 0]
      /\ newlyAdded' = 0 /\ answered' = {} /\ summary' = NoSummary
  BY <1>1 DEF Idle
<1>9. ImportTypes'
  <2>1. worker' \in [Workers -> [at : WorkerStates, item : Items \cup {0}, ok : BOOLEAN]]
    <3>1. ASSUME NEW w \in Workers
          PROVE  worker'[w] \in [at : WorkerStates, item : Items \cup {0}, ok : BOOLEAN]
      <4>1. "idle" \in WorkerStates /\ "gone" \in WorkerStates
        BY DEF WorkerStates
      <4>2. /\ [at |-> "idle", item |-> 0, ok |-> FALSE] \in
                   [at : WorkerStates, item : Items \cup {0}, ok : BOOLEAN]
            /\ [at |-> "gone", item |-> 0, ok |-> FALSE] \in
                   [at : WorkerStates, item : Items \cup {0}, ok : BOOLEAN]
        BY <4>1
      <4> QED
        BY <1>7, <4>2
    <3> QED
      BY <1>1, <3>1
  <2> QED
    BY <1>1, <1>4, <1>8, <2>1 DEF ImportTypes
<1>10. /\ Working' = {} /\ Claimed' = {} /\ Begun' = {} /\ Called' = {} /\ Succeeded' = {}
       /\ Sent' = {} /\ SentOk' = {}
  <2>1. \A w \in Workers : worker'[w].at \in {"idle", "gone"} /\ ~worker'[w].ok
    BY <1>7
  <2>2. Working' = {} /\ Claimed' = {} /\ Begun' = {} /\ Called' = {} /\ Succeeded' = {}
    BY <2>1 DEF Working, Claimed, Begun, Called, Succeeded, WorkersAt
  <2>3. Len(<<>>) = 0
    OBVIOUS
  <2>4. Sent' = {} /\ SentOk' = {}
    BY <1>8, <2>3 DEF Sent, SentOk
  <2> QED
    BY <2>2, <2>4
<1>11. \A p : ItemsOf(p, {}) = {} /\ Exclusive(p, {})
  BY DEF ItemsOf, Exclusive
<1>12. ImportPlaces'
  BY <1>8, <1>10, <1>11 DEF ImportPlaces
<1>13. ImportFlow'
  <2>1. \A w \in 1..NumWorkers' : w \in Workers /\ w <= NumWorkers'
    BY <1>4, PoolAssumption DEF Workers
  <2>2. /\ \A w \in 1..NumWorkers' : worker'[w].at = "idle"
        /\ \A w \in Workers : ~worker'[w].ok /\ worker'[w].at # "record"
    BY <1>7, <2>1
  <2> QED
    BY <1>1, <2>2 DEF ImportFlow
<1>14. Effects'
  BY <1>8, <1>10, <1>11 DEF Effects, Tried, Added, Ids
<1>15. Cardinality({}) = 0
  BY FS_EmptySet
<1>16. Answers'
  BY <1>1, <1>3, <1>8, <1>15 DEF Answers
<1>17. ImportShown'
  <2>1. ItemsOf(worker', Begun') \cup Sent' = {}
    BY <1>10, <1>11
  <2>2. CountsFit(counts', {}) /\ ActiveShows(counts') = {}
    BY <1>8, NoCounts
  <2>3. total' - 0 = total'
    BY <1>4
  <2> QED
    BY <1>1, <1>8, <1>15, <2>1, <2>2, <2>3 DEF ImportShown
<1> QED
  BY <1>1, <1>5, <1>6, <1>9, <1>12, <1>13, <1>14, <1>16, <1>17 DEF ImportInv

--------------------------------------------------------------------------------
(* The import step keeps its books *)

LEMMA ImportFacts ==
    ASSUME ImportInv, CheckTypes
    PROVE  /\ NumShows \in Nat /\ total \in 0..NumShows
           /\ NumWorkers \in Nat /\ 1..NumWorkers \subseteq Workers /\ (NumWorkers = 0 => total = 0)
           /\ Elems(pending) \subseteq Items
           /\ ItemsOf(worker, Working) \subseteq Elems(pending) /\ Sent \subseteq Elems(pending)
           /\ answered \subseteq Elems(pending) /\ notFound \subseteq Items
           /\ IsFiniteSet(answered) /\ Cardinality(answered) \in 0..total
           /\ Cardinality(answered) = total => answered = Elems(pending)
           /\ \A i \in Elems(pending) : found[i] \in TmdbIDs /\ i \notin Unresolved
           /\ ActiveShows(counts) \in SUBSET Names
<1>1. NumShows \in Nat /\ ImportConcurrency \in 1..64
  BY CheckAssumption, PoolAssumption
<1>2. /\ Elems(pending) \subseteq Items /\ IsFiniteSet(Elems(pending)) /\ total \in Nat
      /\ Cardinality(Elems(pending)) = total
  BY DistinctCardinality DEF ImportInv, Sorted, total
<1>3. total \in 0..NumShows
  BY <1>1, <1>2, ItemsFinite
<1>4. NumWorkers \in Nat /\ 1..NumWorkers \subseteq Workers /\ (NumWorkers = 0 => total = 0)
  BY <1>1, <1>3 DEF NumWorkers, Least, Workers
<1>5. /\ ItemsOf(worker, Working) \subseteq Elems(pending) /\ Sent \subseteq Elems(pending)
      /\ answered \subseteq Elems(pending)
  <2>1. taken \in Nat /\ taken <= total
    BY <1>3 DEF ImportInv, ImportTypes
  <2>2. {pending[k] : k \in 1..taken} \subseteq Elems(pending)
    BY <1>3, <2>1 DEF Elems, total
  <2> QED
    BY <2>2 DEF ImportInv, ImportPlaces
<1>6. /\ IsFiniteSet(answered) /\ Cardinality(answered) \in 0..total
      /\ Cardinality(answered) = total => answered = Elems(pending)
  <2>1. /\ IsFiniteSet(answered) /\ Cardinality(answered) <= total
        /\ Cardinality(answered) = total => answered = Elems(pending)
    BY <1>2, <1>5, FS_Subset
  <2> QED
    BY <1>3, <2>1, FS_CardinalityType
<1>7. \A i \in Elems(pending) : found[i] \in TmdbIDs /\ i \notin Unresolved
  BY <1>2 DEF ImportInv, Sorted, Unresolved, CheckTypes
<1>8. notFound \subseteq Items
  BY <1>2, <1>5 DEF ImportInv, Answers, Unresolved
<1>9. ItemsOf(worker, Begun) \cup Sent \in SUBSET Items
  BY <1>2, <1>5 DEF ItemsOf, Begun, Working, WorkersAt
<1>10. ActiveShows(counts) \in SUBSET Names
  BY <1>9, CountsTell DEF ImportInv, ImportShown
<1> QED
  BY <1>1, <1>3, <1>4, <1>2, <1>5, <1>6, <1>7, <1>8, <1>10

LEMMA MoveWorker ==
    ASSUME ImportTypes, NEW w \in Workers, NEW item \in Items \cup {0}, NEW ok \in BOOLEAN,
           NEW at \in WorkerStates, Move(w, at, item, ok)
    PROVE  /\ worker' \in [Workers -> [at : WorkerStates, item : Items \cup {0}, ok : BOOLEAN]]
           /\ worker'[w].at = at /\ worker'[w].item = item /\ worker'[w].ok = ok
           /\ \A v \in Workers \ {w} : worker'[v] = worker[v]
           /\ \A S : WorkersAt(S)' = IF at \in S THEN WorkersAt(S) \cup {w} ELSE WorkersAt(S) \ {w}
           /\ Succeeded' = IF ok THEN Succeeded \cup {w} ELSE Succeeded \ {w}
<1>1. /\ worker' = [worker EXCEPT ![w] = [at |-> at, item |-> item, ok |-> ok]]
      /\ worker \in [Workers -> [at : WorkerStates, item : Items \cup {0}, ok : BOOLEAN]]
  BY DEF Move, ImportTypes
<1>2. \A v \in Workers : worker'[v] = IF v = w THEN [at |-> at, item |-> item, ok |-> ok] ELSE worker[v]
  BY <1>1
<1> QED
  BY <1>1, <1>2 DEF WorkersAt, Succeeded

(* A worker that goes on with its show: the groups it joins or leaves gain   *)
(* or lose that show, and nothing else changes place.                        *)
LEMMA WorkerGoesOn ==
    ASSUME ImportInv, CheckTypes, NEW w \in Workers, w \in Working,
           NEW at \in {"start", "call", "unclaim", "record", "send"}, NEW ok \in BOOLEAN,
           ok => at \in {"record", "send"}, at = "record" => ok,
           Move(w, at, worker[w].item, ok),
           UNCHANGED <<inputs, fed, taken, feeder, outcomes, answered>>
    PROVE  /\ worker[w].item \in Elems(pending)
           /\ worker[w].item \notin Sent /\ worker[w].item \notin answered
           /\ worker[w].item \in ItemsOf(worker, Claimed) <=> w \in Claimed
           /\ worker[w].item \in ItemsOf(worker, Begun) <=> w \in Begun
           /\ worker[w].item \in ItemsOf(worker, Called) <=> w \in Called
           /\ worker[w].item \in ItemsOf(worker, Succeeded) <=> w \in Succeeded
           /\ ItemsOf(worker', Claimed') = ItemsOf(worker, Claimed) \cup {worker[w].item}
           /\ ItemsOf(worker', Begun') = IF at # "start"
                                         THEN ItemsOf(worker, Begun) \cup {worker[w].item}
                                         ELSE ItemsOf(worker, Begun) \ {worker[w].item}
           /\ ItemsOf(worker', Called') = IF at \in {"unclaim", "record", "send"}
                                          THEN ItemsOf(worker, Called) \cup {worker[w].item}
                                          ELSE ItemsOf(worker, Called) \ {worker[w].item}
           /\ ItemsOf(worker', Succeeded') = IF ok
                                             THEN ItemsOf(worker, Succeeded) \cup {worker[w].item}
                                             ELSE ItemsOf(worker, Succeeded) \ {worker[w].item}
           /\ Sorted' /\ ImportPlaces' /\ ImportFlow' /\ Sent' = Sent /\ SentOk' = SentOk
           /\ importedInRun' \subseteq TmdbIDs => ImportTypes'
<1> DEFINE i == worker[w].item
<1>1. /\ UNCHANGED <<found, existingIDs, skipped, pending, fed, taken, feeder, outcomes, answered>>
      /\ ImportTypes /\ ImportPlaces /\ ImportFlow /\ Sorted
  BY DEF inputs, checkVars, poolOfChecks, ImportInv
<1>2. /\ i \in ItemsOf(worker, Working) /\ i \in Elems(pending) /\ i \in Items
      /\ i \notin Sent /\ i \notin answered
  BY <1>1, ImportFacts DEF ItemsOf, ImportPlaces
<1>3. /\ worker' \in [Workers -> [at : WorkerStates, item : Items \cup {0}, ok : BOOLEAN]]
      /\ worker'[w].at = at /\ worker'[w].item = i /\ worker'[w].ok = ok
      /\ \A v \in Workers \ {w} : worker'[v] = worker[v]
      /\ \A S : WorkersAt(S)' = IF at \in S THEN WorkersAt(S) \cup {w} ELSE WorkersAt(S) \ {w}
      /\ Succeeded' = IF ok THEN Succeeded \cup {w} ELSE Succeeded \ {w}
  <2>1. at \in WorkerStates
    BY DEF WorkerStates
  <2> QED
    BY <1>1, <1>2, <2>1, MoveWorker
<1>4. /\ Claimed \subseteq Working /\ Begun \subseteq Working /\ Called \subseteq Working
      /\ Succeeded \subseteq Working
  BY <1>1 DEF Claimed, Begun, Called, Working, WorkersAt, Succeeded, ImportFlow
<1>5. \A v \in Working : v \in Workers /\ (worker[v].item = i => v = w)
  BY <1>1 DEF ImportPlaces, Exclusive, Working, WorkersAt
<1>6. /\ Working' = Working
      /\ Claimed' = Claimed \cup {w}
      /\ Begun' = IF at # "start" THEN Begun \cup {w} ELSE Begun \ {w}
      /\ Called' = IF at \in {"unclaim", "record", "send"} THEN Called \cup {w} ELSE Called \ {w}
  BY <1>3 DEF Working, Claimed, Begun, Called
<1>7. ASSUME NEW U, U \subseteq Working
      PROVE  /\ ItemsOf(worker', U \cup {w}) = ItemsOf(worker, U) \cup {i}
             /\ ItemsOf(worker', U \ {w}) = ItemsOf(worker, U) \ {i}
             /\ i \in ItemsOf(worker, U) <=> w \in U
  BY <1>3, <1>5, <1>7 DEF ItemsOf
<1>8. /\ i \in ItemsOf(worker, Claimed) <=> w \in Claimed
      /\ i \in ItemsOf(worker, Begun) <=> w \in Begun
      /\ i \in ItemsOf(worker, Called) <=> w \in Called
      /\ i \in ItemsOf(worker, Succeeded) <=> w \in Succeeded
      /\ ItemsOf(worker', Claimed') = ItemsOf(worker, Claimed) \cup {i}
      /\ ItemsOf(worker', Begun') = IF at # "start" THEN ItemsOf(worker, Begun) \cup {i}
                                    ELSE ItemsOf(worker, Begun) \ {i}
      /\ ItemsOf(worker', Called') = IF at \in {"unclaim", "record", "send"}
                                     THEN ItemsOf(worker, Called) \cup {i}
                                     ELSE ItemsOf(worker, Called) \ {i}
      /\ ItemsOf(worker', Succeeded') = IF ok THEN ItemsOf(worker, Succeeded) \cup {i}
                                        ELSE ItemsOf(worker, Succeeded) \ {i}
  BY <1>3, <1>4, <1>6, <1>7
<1>9. ItemsOf(worker', Working') = ItemsOf(worker, Working) /\ Exclusive(worker', Working')
  <2>1. \A v \in Working : worker'[v].item = worker[v].item
    BY <1>3, <1>5
  <2> QED
    BY <1>1, <1>6, <2>1, ItemsStay DEF ImportPlaces
<1>10. Sent' = Sent /\ SentOk' = SentOk
  BY <1>1 DEF Sent, SentOk
<1>11. Sorted'
  BY <1>1 DEF Sorted, Unresolved
<1>12. ImportPlaces'
  BY <1>1, <1>9, <1>10 DEF ImportPlaces
<1>13. ImportFlow'
  <2>1. NumWorkers' = NumWorkers /\ total' = total /\ worker[w].at # "gone"
    BY <1>1 DEF NumWorkers, total, Working, WorkersAt
  <2> QED
    BY <1>1, <1>3, <2>1, ImportFacts DEF ImportFlow
<1>14. importedInRun' \subseteq TmdbIDs => ImportTypes'
  BY <1>1, <1>3 DEF ImportTypes, NumWorkers, total
<1> QED
  BY <1>2, <1>8, <1>10, <1>11, <1>12, <1>13, <1>14

LEMMA SentAppend ==
    ASSUME outcomes \in Seq(Outcomes), NEW o \in Outcomes, outcomes' = Append(outcomes, o)
    PROVE  /\ outcomes' \in Seq(Outcomes) /\ Len(outcomes') = Len(outcomes) + 1
           /\ Sent' = Sent \cup {o.item}
           /\ SentOk' = IF o.success THEN SentOk \cup {o.item} ELSE SentOk
           /\ (/\ \A k, l \in 1..Len(outcomes) : outcomes[k].item = outcomes[l].item => k = l
               /\ o.item \notin Sent)
              => \A k, l \in 1..Len(outcomes') : outcomes'[k].item = outcomes'[l].item => k = l
<1>1. /\ outcomes' \in Seq(Outcomes) /\ Len(outcomes') = Len(outcomes) + 1 /\ Len(outcomes) \in Nat
      /\ \A k \in 1..Len(outcomes) : outcomes'[k] = outcomes[k]
      /\ outcomes'[Len(outcomes) + 1] = o
  BY AppendProperties
<1>2. 1..Len(outcomes') = 1..Len(outcomes) \cup {Len(outcomes) + 1}
  BY <1>1
<1>3. Sent' = Sent \cup {o.item}
  BY <1>1, <1>2 DEF Sent
<1>4. SentOk' = IF o.success THEN SentOk \cup {o.item} ELSE SentOk
  BY <1>1, <1>2 DEF SentOk
<1> QED
  BY <1>1, <1>2, <1>3, <1>4 DEF Sent

LEMMA SentTail ==
    ASSUME outcomes \in Seq(Outcomes), outcomes # <<>>, outcomes' = Tail(outcomes),
           \A k, l \in 1..Len(outcomes) : outcomes[k].item = outcomes[l].item => k = l
    PROVE  /\ Head(outcomes) \in Outcomes /\ outcomes' \in Seq(Outcomes)
           /\ Len(outcomes) \in Nat /\ Len(outcomes') = Len(outcomes) - 1
           /\ Head(outcomes).item \in Sent /\ Sent' = Sent \ {Head(outcomes).item}
           /\ Head(outcomes).item \in SentOk <=> Head(outcomes).success
           /\ SentOk' = SentOk \ {Head(outcomes).item}
           /\ \A k, l \in 1..Len(outcomes') : outcomes'[k].item = outcomes'[l].item => k = l
<1> DEFINE o == Head(outcomes)
<1>1. /\ outcomes' \in Seq(Outcomes) /\ Len(outcomes') = Len(outcomes) - 1 /\ Len(outcomes) \in Nat \ {0}
      /\ o = outcomes[1] /\ o \in Outcomes
      /\ \A k \in 1..Len(outcomes') : outcomes'[k] = outcomes[k + 1]
  BY HeadTailProperties
<1>2. \A k \in 1..Len(outcomes') : k + 1 \in 1..Len(outcomes) /\ k + 1 # 1
  BY <1>1
<1>3. \A k \in 1..Len(outcomes) : k # 1 => /\ outcomes[k].item # o.item
                                           /\ k - 1 \in 1..Len(outcomes')
                                           /\ outcomes'[k - 1] = outcomes[k]
  BY <1>1
<1>4. o.item \in Sent /\ 1 \in 1..Len(outcomes)
  BY <1>1 DEF Sent
<1>5. Sent' = Sent \ {o.item}
  <2>1. Sent' \subseteq Sent \ {o.item}
    BY <1>1, <1>2, <1>3 DEF Sent
  <2>2. Sent \ {o.item} \subseteq Sent'
    BY <1>1, <1>3 DEF Sent
  <2> QED
    BY <2>1, <2>2
<1>6. o.item \in SentOk <=> o.success
  <2>1. ASSUME o.item \in SentOk
        PROVE  o.success
    <3>1. PICK k \in 1..Len(outcomes) : outcomes[k].success /\ outcomes[k].item = o.item
      BY <2>1 DEF SentOk
    <3> QED
      BY <1>1, <1>3, <3>1
  <2>2. o.success => o.item \in SentOk
    BY <1>1, <1>4 DEF SentOk
  <2> QED
    BY <2>1, <2>2
<1>7. SentOk' = SentOk \ {o.item}
  <2>1. SentOk' \subseteq SentOk \ {o.item}
    BY <1>1, <1>2, <1>3 DEF SentOk
  <2>2. SentOk \ {o.item} \subseteq SentOk'
    <3> SUFFICES ASSUME NEW k \in 1..Len(outcomes), outcomes[k].success, outcomes[k].item # o.item
                 PROVE  outcomes[k].item \in SentOk'
      BY DEF SentOk
    <3>1. k # 1
      BY <1>1
    <3> QED
      BY <1>3, <3>1 DEF SentOk
  <2> QED
    BY <2>1, <2>2
<1>8. \A k, l \in 1..Len(outcomes') : outcomes'[k].item = outcomes'[l].item => k = l
  BY <1>1, <1>2
<1> QED
  BY <1>1, <1>4, <1>5, <1>6, <1>7, <1>8

(* An import step changes nothing of the check step. *)
LEMMA CheckKept ==
    ASSUME CheckInv, step = "import", UNCHANGED inputs, saved' \in Shown
    PROVE  CheckInv' /\ step' = "import"
<1>1. UNCHANGED <<step, library, checkFed, checkTaken, checkFeeder, checker, found, results, resolved,
                  checkCounts>>
  BY DEF inputs, checkVars, poolOfChecks
<1>2. CheckTypes' /\ CheckFlow' /\ CheckShown'
  BY <1>1 DEF CheckInv, CheckTypes, CheckFlow, CheckShown
<1>3. CheckPlaces' /\ FoundFits' /\ CheckCountsFit'
  BY <1>1 DEF CheckInv, CheckPlaces, FoundFits, CheckCountsFit, Checking, Looked, CheckersAt
<1> QED
  BY <1>1, <1>2, <1>3 DEF CheckInv

LEMMA FeederInv ==
    ASSUME CheckInv, step = "import", ImportInv, Feed \/ CloseJobs \/ CloseOutcomes
    PROVE  CheckInv' /\ step' = "import" /\ ImportInv'
<1>1. /\ UNCHANGED inputs /\ UNCHANGED <<found, existingIDs, skipped, pending, progress, saved>>
      /\ UNCHANGED <<taken, worker, importedInRun, outcomes, account, attempts, ledger, counts,
                     newlyAdded, notFound, answered, summary>>
      /\ feeder # "gone"
  BY DEF Feed, CloseJobs, CloseOutcomes, inputs, checkVars, poolOfChecks, shown, accountVars, collectorVars
<1>2. CheckInv' /\ step' = "import"
  BY <1>1, CheckKept DEF CheckInv, CheckTypes
<1>3. total' = total /\ NumWorkers' = NumWorkers /\ total \in Nat
  BY <1>1, ImportFacts DEF total, NumWorkers, CheckInv
<1>4. /\ Working' = Working /\ Claimed' = Claimed /\ Begun' = Begun /\ Called' = Called
      /\ Succeeded' = Succeeded /\ Sent' = Sent /\ SentOk' = SentOk
  BY <1>1 DEF Working, Claimed, Begun, Called, Succeeded, WorkersAt, Sent, SentOk
<1>5. Sorted' /\ ImportPlaces'
  BY <1>1, <1>4 DEF ImportInv, Sorted, Unresolved, ImportPlaces
<1>7. Effects' /\ ImportShown'
  <2>1. Tried' = Tried /\ Added' = Added
    BY <1>1, <1>4 DEF Tried, Added
  <2>2. Effects'
    BY <1>1, <1>4, <2>1 DEF ImportInv, Effects, Ids
  <2>3. ImportShown'
    BY <1>1, <1>3, <1>4 DEF ImportInv, ImportShown
  <2> QED
    BY <2>2, <2>3
<1>8. ImportTypes'
  <2>1. fed' \in Nat /\ fed' <= total /\ taken <= fed' /\ fed' - taken <= NumWorkers
    BY <1>1, <1>3, ImportFacts DEF ImportInv, ImportTypes, CheckInv, Feed, CloseJobs, CloseOutcomes
  <2>2. feeder' \in {"feeding", "waiting", "gone"}
    BY DEF ImportInv, ImportTypes, Feed, CloseJobs, CloseOutcomes
  <2> QED
    BY <1>1, <1>3, <2>1, <2>2 DEF ImportInv, ImportTypes
<1>9. ImportFlow'
  <2>1. /\ feeder' # "feeding" => fed' = total
        /\ feeder' = "gone" => \A w \in Workers : worker[w].at = "gone"
    BY DEF ImportInv, ImportFlow, Feed, CloseJobs, CloseOutcomes
  <2> QED
    BY <1>1, <1>3, <2>1 DEF ImportInv, ImportFlow
<1>6. Answers'
  BY <1>1 DEF ImportInv, Answers, Unresolved
<1> QED
  BY <1>2, <1>5, <1>6, <1>7, <1>8, <1>9 DEF ImportInv

--------------------------------------------------------------------------------
(* The steps of a worker *)

(* Shows to import and their ids stand for each other. *)
LEMMA OwnId ==
    ASSUME ImportInv, NEW S \in SUBSET Elems(pending), NEW i \in Elems(pending)
    PROVE  /\ found[i] \in Ids(S) <=> i \in S
           /\ Ids(S \cup {i}) = Ids(S) \cup {found[i]}
  BY DEF Ids, ImportInv, Sorted

(* What has been tried, added and claimed are shows to import. *)
LEMMA GroupsPending ==
    ASSUME ImportInv, CheckTypes
    PROVE  /\ Claimed \subseteq Working /\ Begun \subseteq Claimed /\ Called \subseteq Begun
           /\ Succeeded \subseteq Called
           /\ Tried \in SUBSET Elems(pending) /\ Added \in SUBSET Tried
           /\ ItemsOf(worker, Claimed) \cup Sent \cup answered \in SUBSET Elems(pending)
           /\ ItemsOf(worker, Begun) \cup Sent \in SUBSET Items
<1>1. /\ Claimed \subseteq Working /\ Begun \subseteq Claimed /\ Called \subseteq Begun
      /\ Succeeded \subseteq Called
  BY DEF Claimed, Begun, Called, Working, WorkersAt, Succeeded, ImportInv, ImportFlow
<1>2. \A U, V : U \subseteq V => ItemsOf(worker, U) \subseteq ItemsOf(worker, V)
  BY DEF ItemsOf
<1>3. SentOk \subseteq Sent
  BY DEF SentOk, Sent
<1>4. /\ ItemsOf(worker, Working) \subseteq Elems(pending) /\ Sent \subseteq Elems(pending)
      /\ answered \subseteq Elems(pending) /\ Elems(pending) \subseteq Items
  BY ImportFacts
<1> QED
  BY <1>1, <1>2, <1>3, <1>4 DEF Tried, Added

LEMMA ClaimInv ==
    ASSUME CheckInv, step = "import", ImportInv, NEW w \in Workers, Claim(w)
    PROVE  CheckInv' /\ step' = "import" /\ ImportInv'
<1> DEFINE i == worker[w].item
<1>1. /\ UNCHANGED inputs /\ UNCHANGED <<found, existingIDs, skipped, pending, progress, saved>>
      /\ UNCHANGED <<fed, taken, feeder, outcomes, account, attempts, ledger, counts,
                     newlyAdded, notFound, answered, summary>>
      /\ worker[w].at = "claim" /\ importedInRun' = importedInRun \cup {found[i]}
  BY DEF Claim, Id, inputs, checkVars, poolOfChecks, shown, accountVars, collectorVars
<1>2. CheckInv' /\ step' = "import" /\ CheckTypes
  BY <1>1, CheckKept DEF CheckInv, CheckTypes
<1>3. w \in Working /\ w \notin Claimed /\ w \notin Begun /\ w \notin Called /\ w \notin Succeeded
  BY <1>1 DEF Working, Claimed, Begun, Called, WorkersAt, Succeeded, ImportInv, ImportFlow
<1>4. i \in Elems(pending) /\ i \notin Sent /\ i \notin answered /\ i \notin ItemsOf(worker, Claimed)
  <2>1. i \in ItemsOf(worker, Working)
    BY <1>3 DEF ItemsOf
  <2>2. i \notin ItemsOf(worker, Claimed)
    <3>1. Claimed \subseteq Working /\ Exclusive(worker, Working)
      BY <1>2, GroupsPending DEF ImportInv, ImportPlaces
    <3> QED
      BY <1>3, <3>1 DEF ItemsOf, Exclusive
  <2> QED
    BY <1>2, <2>1, <2>2, ImportFacts DEF ImportInv, ImportPlaces
<1>5. Move(w, "start", i, FALSE)
  <2>1. found[i] \notin Ids(ItemsOf(worker, Claimed) \cup Sent \cup answered)
    <3> DEFINE S == ItemsOf(worker, Claimed) \cup Sent \cup answered
    <3>1. S \in SUBSET Elems(pending) /\ i \notin S
      BY <1>2, <1>4, GroupsPending
    <3> HIDE DEF S
    <3>2. found[i] \notin Ids(S)
      BY <1>4, <3>1, OwnId
    <3> QED
      BY <3>2 DEF S
  <2>2. found[i] \notin importedInRun
    BY <2>1 DEF ImportInv, Effects
  <2> QED
    BY <2>2 DEF Claim, Id
<1>6. /\ ItemsOf(worker', Claimed') = ItemsOf(worker, Claimed) \cup {i}
      /\ ItemsOf(worker', Begun') = ItemsOf(worker, Begun)
      /\ ItemsOf(worker', Called') = ItemsOf(worker, Called)
      /\ ItemsOf(worker', Succeeded') = ItemsOf(worker, Succeeded)
      /\ Sorted' /\ ImportPlaces' /\ ImportFlow' /\ Sent' = Sent /\ SentOk' = SentOk
      /\ importedInRun' \subseteq TmdbIDs => ImportTypes'
  <2>1. UNCHANGED <<inputs, fed, taken, feeder, outcomes, answered>>
    BY <1>1
  <2>2. /\ i \notin ItemsOf(worker, Begun) /\ i \notin ItemsOf(worker, Called)
        /\ i \notin ItemsOf(worker, Succeeded)
        /\ ItemsOf(worker', Claimed') = ItemsOf(worker, Claimed) \cup {i}
        /\ ItemsOf(worker', Begun') = ItemsOf(worker, Begun) \ {i}
        /\ ItemsOf(worker', Called') = ItemsOf(worker, Called) \ {i}
        /\ ItemsOf(worker', Succeeded') = ItemsOf(worker, Succeeded) \ {i}
        /\ Sorted' /\ ImportPlaces' /\ ImportFlow' /\ Sent' = Sent /\ SentOk' = SentOk
        /\ importedInRun' \subseteq TmdbIDs => ImportTypes'
    BY <1>2, <1>3, <1>5, <2>1, WorkerGoesOn
  <2> QED
    BY <2>2
<1>7. ImportTypes'
  BY <1>1, <1>2, <1>4, <1>6, ImportFacts DEF ImportInv, ImportTypes
<1>8. Effects'
  <2>1. Tried' = Tried /\ Added' = Added
    BY <1>1, <1>6 DEF Tried, Added
  <2>2. importedInRun' \subseteq Ids(ItemsOf(worker', Claimed') \cup Sent' \cup answered')
    BY <1>1, <1>6 DEF ImportInv, Effects, Ids
  <2> QED
    BY <1>1, <2>1, <2>2 DEF ImportInv, Effects, Ids
<1>9. Answers' /\ ImportShown'
  BY <1>1, <1>6 DEF ImportInv, Answers, Unresolved, ImportShown, total
<1> QED
  BY <1>2, <1>6, <1>7, <1>8, <1>9 DEF ImportInv

LEMMA StartShowInv ==
    ASSUME CheckInv, step = "import", ImportInv, NEW w \in Workers, StartShow(w)
    PROVE  CheckInv' /\ step' = "import" /\ ImportInv'
<1> DEFINE i == worker[w].item
<1>1. /\ UNCHANGED inputs /\ UNCHANGED <<found, existingIDs, skipped, pending, saved>>
      /\ UNCHANGED <<fed, taken, feeder, importedInRun, outcomes, account, attempts, ledger,
                     newlyAdded, notFound, answered, summary>>
      /\ worker[w].at = "start" /\ Move(w, "call", i, FALSE)
      /\ counts' = trackerStart(counts, NameOf[i])
      /\ progress' = [progress EXCEPT !.active = ActiveShows(counts')]
  BY DEF StartShow, inputs, checkVars, poolOfChecks, accountVars, collectorVars
<1>2. CheckInv' /\ step' = "import" /\ CheckTypes
  BY <1>1, CheckKept DEF CheckInv, CheckTypes
<1>3. w \in Working /\ w \in Claimed /\ w \notin Begun /\ w \notin Called /\ w \notin Succeeded
  BY <1>1 DEF Working, Claimed, Begun, Called, WorkersAt, Succeeded, ImportInv, ImportFlow
<1>4. /\ i \in Elems(pending) /\ i \notin Sent /\ i \notin answered
      /\ i \in ItemsOf(worker, Claimed) /\ i \notin ItemsOf(worker, Begun)
      /\ i \notin ItemsOf(worker, Called) /\ i \notin ItemsOf(worker, Succeeded)
      /\ ItemsOf(worker', Claimed') = ItemsOf(worker, Claimed) \cup {i}
      /\ ItemsOf(worker', Begun') = ItemsOf(worker, Begun) \cup {i}
      /\ ItemsOf(worker', Called') = ItemsOf(worker, Called) \ {i}
      /\ ItemsOf(worker', Succeeded') = ItemsOf(worker, Succeeded) \ {i}
      /\ Sorted' /\ ImportPlaces' /\ ImportFlow' /\ Sent' = Sent /\ SentOk' = SentOk
      /\ importedInRun' \subseteq TmdbIDs => ImportTypes'
  <2>1. UNCHANGED <<inputs, fed, taken, feeder, outcomes, answered>>
    BY <1>1
  <2> QED
    BY <1>1, <1>2, <1>3, <2>1, WorkerGoesOn
<1>5. ImportTypes'
  BY <1>1, <1>4 DEF ImportInv, ImportTypes
<1>6. Effects'
  <2>1. /\ Tried' = Tried /\ Added' = Added
        /\ ItemsOf(worker', Claimed') = ItemsOf(worker, Claimed)
    BY <1>1, <1>4 DEF Tried, Added
  <2> QED
    BY <1>1, <1>4, <2>1 DEF ImportInv, Effects, Ids
<1>7. Answers'
  BY <1>1 DEF ImportInv, Answers, Unresolved
<1>8. ImportShown'
  <2> DEFINE S == ItemsOf(worker, Begun) \cup Sent
  <2>1. CountsFit(counts, S) /\ S \in SUBSET Items /\ i \in Items \ S
    BY <1>2, <1>4, GroupsPending, ImportFacts DEF ImportInv, ImportShown
  <2>2. ItemsOf(worker', Begun') \cup Sent' = S \cup {i}
    BY <1>4
  <2> HIDE DEF S
  <2>3. CountsFit(counts', S \cup {i})
    BY <1>1, <2>1, CountUp
  <2>4. progress'.remaining = 0 => saved' = progress'
    <3>1. /\ total \in Nat /\ IsFiniteSet(answered) /\ Cardinality(answered) \in 0..total
          /\ Cardinality(answered) = total => answered = Elems(pending)
      BY <1>2, ImportFacts
    <3>2. Cardinality(answered) # total
      BY <1>4, <3>1
    <3>3. progress'.remaining = total - Cardinality(answered)
      BY <1>1 DEF ImportInv, ImportShown
    <3>4. \A m, n \in Nat : m - n = 0 => m = n
      OBVIOUS
    <3> QED
      BY <3>1, <3>2, <3>3, <3>4
  <2>5. progress' = [step |-> "import", done |-> Cardinality(answered'),
                     remaining |-> total' - Cardinality(answered'),
                     notFound |-> notFound', active |-> ActiveShows(counts')]
    BY <1>1 DEF ImportInv, ImportShown, total
  <2> QED
    BY <2>2, <2>3, <2>4, <2>5 DEF ImportShown
<1> QED
  BY <1>2, <1>4, <1>5, <1>6, <1>7, <1>8 DEF ImportInv

(* ImportTVTimeShow returns: the show was tried, and on success it is added. *)
LEMMA CallInv ==
    ASSUME CheckInv, step = "import", ImportInv, NEW w \in Workers, ImportOk(w) \/ ImportFails(w)
    PROVE  CheckInv' /\ step' = "import" /\ ImportInv'
<1> DEFINE i == worker[w].item
<1>1. /\ UNCHANGED inputs /\ UNCHANGED <<found, existingIDs, skipped, pending, progress, saved>>
      /\ UNCHANGED <<fed, taken, feeder, importedInRun, outcomes, ledger, counts,
                     newlyAdded, notFound, answered, summary>>
      /\ worker[w].at = "call"
      /\ attempts' = [attempts EXCEPT ![found[i]] = attempts[found[i]] + 1]
  BY DEF ImportOk, ImportFails, Id, inputs, checkVars, poolOfChecks, shown, collectorVars
<1>2. PICK ok \in BOOLEAN :
          /\ Move(w, IF ok THEN "record" ELSE "unclaim", i, ok)
          /\ account' = IF ok THEN account \cup {found[i]} ELSE account
  BY DEF ImportOk, ImportFails, Id
<1>3. CheckInv' /\ step' = "import" /\ CheckTypes
  BY <1>1, CheckKept DEF CheckInv, CheckTypes
<1>4. w \in Working /\ w \in Claimed /\ w \in Begun /\ w \notin Called /\ w \notin Succeeded
  BY <1>1 DEF Working, Claimed, Begun, Called, WorkersAt, Succeeded, ImportInv, ImportFlow
<1>5. /\ i \in Elems(pending) /\ i \notin Sent /\ i \notin answered
      /\ i \in ItemsOf(worker, Claimed) /\ i \in ItemsOf(worker, Begun)
      /\ i \notin ItemsOf(worker, Called) /\ i \notin ItemsOf(worker, Succeeded)
      /\ ItemsOf(worker', Claimed') = ItemsOf(worker, Claimed) \cup {i}
      /\ ItemsOf(worker', Begun') = ItemsOf(worker, Begun) \cup {i}
      /\ ItemsOf(worker', Called') = ItemsOf(worker, Called) \cup {i}
      /\ ItemsOf(worker', Succeeded') = IF ok THEN ItemsOf(worker, Succeeded) \cup {i}
                                        ELSE ItemsOf(worker, Succeeded) \ {i}
      /\ Sorted' /\ ImportPlaces' /\ ImportFlow' /\ Sent' = Sent /\ SentOk' = SentOk
      /\ importedInRun' \subseteq TmdbIDs => ImportTypes'
  <2>1. UNCHANGED <<inputs, fed, taken, feeder, outcomes, answered>>
    BY <1>1
  <2> QED
    BY <1>2, <1>3, <1>4, <2>1, WorkerGoesOn
<1>6. ImportTypes'
  BY <1>1, <1>5 DEF ImportInv, ImportTypes
<1>7. /\ Tried' = Tried \cup {i} /\ Added' = IF ok THEN Added \cup {i} ELSE Added
      /\ ItemsOf(worker', Claimed') \cup Sent' \cup answered'
            = ItemsOf(worker, Claimed) \cup Sent \cup answered
      /\ i \notin Tried
  BY <1>1, <1>5 DEF Tried, Added
<1>8. /\ Ids(Tried \cup {i}) = Ids(Tried) \cup {found[i]} /\ found[i] \notin Ids(Tried)
      /\ Ids(Added \cup {i}) = Ids(Added) \cup {found[i]}
  <2>1. Tried \in SUBSET Elems(pending) /\ Added \in SUBSET Elems(pending)
    BY <1>3, GroupsPending
  <2>2. found[i] \in Ids(Tried) <=> i \in Tried
    BY <1>5, <2>1, OwnId
  <2>3. Ids(Tried \cup {i}) = Ids(Tried) \cup {found[i]}
    BY <1>5, <2>1, OwnId
  <2>4. Ids(Added \cup {i}) = Ids(Added) \cup {found[i]}
    BY <1>5, <2>1, OwnId
  <2> QED
    BY <1>7, <2>2, <2>3, <2>4
<1>9. Effects'
  <2>1. found[i] \in TmdbIDs
    BY <1>3, <1>5, ImportFacts
  <2>2. attempts' = [t \in TmdbIDs |-> IF t \in Ids(Tried) \cup {found[i]} THEN 1 ELSE 0]
    BY <1>1, <1>8, <2>1 DEF ImportInv, Effects
  <2>3. Ids(Tried)' = Ids(Tried) \cup {found[i]}
    BY <1>1, <1>7, <1>8 DEF Ids
  <2>4. Ids(Added)' = IF ok THEN Ids(Added) \cup {found[i]} ELSE Ids(Added)
    BY <1>1, <1>7, <1>8 DEF Ids
  <2>5. account' = Ids(Added)' /\ ledger' \subseteq account'
    BY <1>1, <1>2, <2>4 DEF ImportInv, Effects
  <2>6. importedInRun' \subseteq Ids(ItemsOf(worker, Claimed) \cup Sent \cup answered)'
    BY <1>1, <1>7 DEF ImportInv, Effects, Ids
  <2> QED
    BY <2>2, <2>3, <2>5, <2>6, <1>7 DEF Effects
<1>10. Answers'
  BY <1>1 DEF ImportInv, Answers, Unresolved
<1>11. ImportShown'
  <2>1. ItemsOf(worker', Begun') \cup Sent' = ItemsOf(worker, Begun) \cup Sent
    BY <1>5
  <2> QED
    BY <1>1, <2>1 DEF ImportInv, ImportShown, total
<1> QED
  BY <1>3, <1>5, <1>6, <1>9, <1>10, <1>11 DEF ImportInv

(* An import that failed releases the id; one that succeeded may be          *)
(* remembered.                                                               *)
LEMMA AfterCallInv ==
    ASSUME CheckInv, step = "import", ImportInv, NEW w \in Workers, Unclaim(w) \/ RecordImported(w)
    PROVE  CheckInv' /\ step' = "import" /\ ImportInv'
<1> DEFINE i == worker[w].item
<1>1. /\ UNCHANGED inputs /\ UNCHANGED <<found, existingIDs, skipped, pending, progress, saved>>
      /\ UNCHANGED <<fed, taken, feeder, outcomes, account, attempts, counts,
                     newlyAdded, notFound, answered, summary>>
      /\ importedInRun' \subseteq importedInRun
      /\ worker[w].at \in {"unclaim", "record"}
  BY DEF Unclaim, RecordImported, inputs, checkVars, poolOfChecks, shown, accountVars, collectorVars
<1>2. PICK ok \in BOOLEAN :
          /\ Move(w, "send", i, ok) /\ (ok <=> worker[w].at = "record")
          /\ ledger' = ledger \/ (ok /\ ledger' = ledger \cup {found[i]})
  BY DEF Unclaim, RecordImported, accountVars, Id
<1>3. CheckInv' /\ step' = "import" /\ CheckTypes
  BY <1>1, CheckKept DEF CheckInv, CheckTypes
<1>4. w \in Working /\ w \in Claimed /\ w \in Begun /\ w \in Called /\ (w \in Succeeded <=> ok)
  BY <1>1, <1>2 DEF Working, Claimed, Begun, Called, WorkersAt, Succeeded, ImportInv, ImportFlow
<1>5. /\ i \in ItemsOf(worker, Claimed) /\ i \in ItemsOf(worker, Begun)
      /\ i \in ItemsOf(worker, Called) /\ (i \in ItemsOf(worker, Succeeded) <=> ok)
      /\ ItemsOf(worker', Claimed') = ItemsOf(worker, Claimed) \cup {i}
      /\ ItemsOf(worker', Begun') = ItemsOf(worker, Begun) \cup {i}
      /\ ItemsOf(worker', Called') = ItemsOf(worker, Called) \cup {i}
      /\ ItemsOf(worker', Succeeded') = IF ok THEN ItemsOf(worker, Succeeded) \cup {i}
                                        ELSE ItemsOf(worker, Succeeded) \ {i}
      /\ Sorted' /\ ImportPlaces' /\ ImportFlow' /\ Sent' = Sent /\ SentOk' = SentOk
      /\ importedInRun' \subseteq TmdbIDs => ImportTypes'
  <2>1. UNCHANGED <<inputs, fed, taken, feeder, outcomes, answered>>
    BY <1>1
  <2> QED
    BY <1>2, <1>3, <1>4, <2>1, WorkerGoesOn
<1>6. ImportTypes'
  BY <1>1, <1>5 DEF ImportInv, ImportTypes
<1>7. /\ Tried' = Tried /\ Added' = Added /\ (ok => i \in Added)
      /\ ItemsOf(worker', Claimed') \cup Sent' \cup answered'
            = ItemsOf(worker, Claimed) \cup Sent \cup answered
  BY <1>1, <1>5 DEF Tried, Added
<1>8. Effects'
  <2>1. ledger' \subseteq account
    BY <1>2, <1>7 DEF ImportInv, Effects, Ids
  <2>2. importedInRun' \subseteq Ids(ItemsOf(worker, Claimed) \cup Sent \cup answered)'
    BY <1>1, <1>7 DEF ImportInv, Effects, Ids
  <2>3. Ids(Tried)' = Ids(Tried) /\ Ids(Added)' = Ids(Added)
    BY <1>1, <1>7 DEF Ids
  <2> QED
    BY <1>1, <2>1, <2>2, <2>3 DEF ImportInv, Effects
<1>9. Answers'
  BY <1>1 DEF ImportInv, Answers, Unresolved
<1>10. ImportShown'
  <2>1. ItemsOf(worker', Begun') \cup Sent' = ItemsOf(worker, Begun) \cup Sent
    BY <1>5
  <2> QED
    BY <1>1, <2>1 DEF ImportInv, ImportShown, total
<1> QED
  BY <1>3, <1>5, <1>6, <1>8, <1>9, <1>10 DEF ImportInv

(* A worker comes for a show or leaves. *)
LEMMA TakeInv ==
    ASSUME CheckInv, step = "import", ImportInv, NEW w \in Workers, Take(w)
    PROVE  CheckInv' /\ step' = "import" /\ ImportInv'
<1> DEFINE i == pending[taken + 1]
<1>1. /\ UNCHANGED inputs /\ UNCHANGED <<found, existingIDs, skipped, pending, progress, saved>>
      /\ UNCHANGED <<fed, feeder, importedInRun, outcomes, account, attempts, ledger, counts,
                     newlyAdded, notFound, answered, summary>>
      /\ worker[w].at = "idle" /\ taken < fed /\ taken' = taken + 1
      /\ Move(w, "claim", i, FALSE)
  BY DEF Take, inputs, checkVars, poolOfChecks, shown, accountVars, collectorVars
<1>2. CheckInv' /\ step' = "import" /\ CheckTypes
  BY <1>1, CheckKept DEF CheckInv, CheckTypes
<1>3. /\ taken \in Nat /\ taken + 1 \in 1..total /\ total \in Nat /\ total = Len(pending)
      /\ NumWorkers' = NumWorkers /\ total' = total
  BY <1>1, <1>2, ImportFacts DEF ImportInv, ImportTypes, total, NumWorkers
<1>4. i \in Elems(pending) /\ i \in Items /\ i \notin {pending[k] : k \in 1..taken}
  <2>1. i \in Elems(pending) /\ i \in Items
    BY <1>2, <1>3, ImportFacts DEF Elems
  <2>2. \A k \in 1..taken : k \in 1..Len(pending) /\ k # taken + 1
    BY <1>3
  <2> QED
    BY <1>3, <2>1, <2>2 DEF ImportInv, Sorted, Distinct
<1>5. /\ worker' \in [Workers -> [at : WorkerStates, item : Items \cup {0}, ok : BOOLEAN]]
      /\ worker'[w].at = "claim" /\ worker'[w].item = i /\ worker'[w].ok = FALSE
      /\ \A v \in Workers \ {w} : worker'[v] = worker[v]
      /\ \A S : WorkersAt(S)' = IF "claim" \in S THEN WorkersAt(S) \cup {w} ELSE WorkersAt(S) \ {w}
      /\ Succeeded' = Succeeded \ {w}
  <2>1. "claim" \in WorkerStates
    BY DEF WorkerStates
  <2> QED
    <3>1. ImportTypes /\ i \in Items \cup {0} /\ FALSE \in BOOLEAN /\ Move(w, "claim", i, FALSE)
      BY <1>1, <1>4 DEF ImportInv
    <3> HIDE DEF i
    <3> QED
      BY <2>1, <3>1, MoveWorker
<1>6. w \notin Working /\ w \notin Claimed /\ w \notin Begun /\ w \notin Called /\ w \notin Succeeded
  BY <1>1 DEF Working, Claimed, Begun, Called, WorkersAt, Succeeded, ImportInv, ImportFlow
<1>7. /\ Working' = Working \cup {w} /\ Claimed' = Claimed /\ Begun' = Begun /\ Called' = Called
      /\ Succeeded' = Succeeded
  BY <1>5, <1>6 DEF Working, Claimed, Begun, Called
<1>8. \A U : U \subseteq Workers /\ w \notin U => ItemsOf(worker', U) = ItemsOf(worker, U)
  BY <1>5 DEF ItemsOf
<1>9. /\ ItemsOf(worker', Claimed') = ItemsOf(worker, Claimed)
      /\ ItemsOf(worker', Begun') = ItemsOf(worker, Begun)
      /\ ItemsOf(worker', Called') = ItemsOf(worker, Called)
      /\ ItemsOf(worker', Succeeded') = ItemsOf(worker, Succeeded)
      /\ Sent' = Sent /\ SentOk' = SentOk
  <2>1. Claimed \subseteq Workers /\ Begun \subseteq Workers /\ Called \subseteq Workers
        /\ Succeeded \subseteq Workers
    BY DEF Claimed, Begun, Called, Succeeded, WorkersAt
  <2> QED
    BY <1>1, <1>6, <1>7, <1>8, <2>1 DEF Sent, SentOk
<1>10. ImportPlaces'
  <2>1. ItemsOf(worker', Working') = ItemsOf(worker, Working) \cup {i}
    BY <1>5, <1>6, <1>7 DEF ItemsOf, Working, WorkersAt
  <2>2. i \notin ItemsOf(worker, Working) /\ i \notin Sent /\ i \notin answered
    BY <1>4 DEF ImportInv, ImportPlaces
  <2>3. Exclusive(worker', Working')
    <3>1. Exclusive(worker, Working) /\ \A v \in Working : v # w /\ v \in Workers /\ worker[v].item # i
      BY <1>6, <2>2 DEF ImportInv, ImportPlaces, ItemsOf, Working, WorkersAt
    <3> QED
      BY <1>5, <1>7, <3>1 DEF Exclusive
  <2>4. {pending[k] : k \in 1..(taken + 1)} = {pending[k] : k \in 1..taken} \cup {i}
    <3>1. 1..(taken + 1) = 1..taken \cup {taken + 1}
      BY <1>3
    <3> QED
      BY <3>1
  <2>5. ItemsOf(worker', Working') \cup Sent' \cup answered' = {pending[k] : k \in 1..(taken + 1)}
    BY <1>1, <1>9, <2>1, <2>4 DEF ImportInv, ImportPlaces
  <2> QED
    BY <1>1, <1>9, <2>1, <2>2, <2>3, <2>5 DEF ImportInv, ImportPlaces
<1>11. Sorted' /\ ImportTypes'
  <2>1. Sorted'
    BY <1>1 DEF ImportInv, Sorted, Unresolved
  <2>2. taken' \in Nat /\ taken' <= fed /\ fed - taken' <= NumWorkers /\ NumWorkers \in Nat
    BY <1>1, <1>2, <1>3, ImportFacts DEF ImportInv, ImportTypes
  <2>3. ImportTypes'
    BY <1>1, <1>3, <1>5, <2>2 DEF ImportInv, ImportTypes
  <2> QED
    BY <2>1, <2>3
<1>12. ImportFlow'
  <2>1. \A v \in Workers : worker'[v].at = "gone" => v # w /\ worker[v].at = "gone"
    BY <1>5
  <2>2. \A v \in 1..NumWorkers : worker[v].at # "gone"
    BY <1>1, <1>3 DEF ImportInv, ImportTypes, ImportFlow
  <2>3. feeder # "gone"
    BY <1>1 DEF ImportInv, ImportFlow
  <2> QED
    BY <1>1, <1>2, <1>3, <1>5, <2>1, <2>2, <2>3, ImportFacts DEF ImportInv, ImportFlow
<1>13. Effects' /\ Answers' /\ ImportShown'
  <2>1. Tried' = Tried /\ Added' = Added
    BY <1>1, <1>9 DEF Tried, Added
  <2>2. Effects'
    BY <1>1, <1>9, <2>1 DEF ImportInv, Effects, Ids
  <2>3. Answers'
    BY <1>1 DEF ImportInv, Answers, Unresolved
  <2>4. ImportShown'
    BY <1>1, <1>3, <1>9 DEF ImportInv, ImportShown
  <2> QED
    BY <2>2, <2>3, <2>4
<1> QED
  BY <1>2, <1>10, <1>11, <1>12, <1>13 DEF ImportInv

LEMMA LeaveInv ==
    ASSUME CheckInv, step = "import", ImportInv, NEW w \in Workers, Leave(w)
    PROVE  CheckInv' /\ step' = "import" /\ ImportInv'
<1>1. /\ UNCHANGED inputs /\ UNCHANGED <<found, existingIDs, skipped, pending, progress, saved>>
      /\ UNCHANGED <<fed, taken, feeder, importedInRun, outcomes, account, attempts, ledger, counts,
                     newlyAdded, notFound, answered, summary>>
      /\ worker[w].at = "idle" /\ taken = fed /\ feeder # "feeding"
      /\ Move(w, "gone", 0, FALSE)
  BY DEF Leave, inputs, checkVars, poolOfChecks, shown, accountVars, collectorVars
<1>2. CheckInv' /\ step' = "import" /\ CheckTypes
  BY <1>1, CheckKept DEF CheckInv, CheckTypes
<1>3. /\ worker' \in [Workers -> [at : WorkerStates, item : Items \cup {0}, ok : BOOLEAN]]
      /\ worker'[w].at = "gone" /\ worker'[w].item = 0 /\ worker'[w].ok = FALSE
      /\ \A v \in Workers \ {w} : worker'[v] = worker[v]
      /\ \A S : WorkersAt(S)' = IF "gone" \in S THEN WorkersAt(S) \cup {w} ELSE WorkersAt(S) \ {w}
      /\ Succeeded' = Succeeded \ {w}
  <2>1. ImportTypes /\ 0 \in Items \cup {0} /\ FALSE \in BOOLEAN /\ "gone" \in WorkerStates
    BY DEF ImportInv, WorkerStates
  <2> QED
    BY <1>1, <2>1, MoveWorker
<1>4. w \notin Working /\ w \notin Claimed /\ w \notin Begun /\ w \notin Called /\ w \notin Succeeded
  BY <1>1 DEF Working, Claimed, Begun, Called, WorkersAt, Succeeded, ImportInv, ImportFlow
<1>5. /\ Working' = Working /\ Claimed' = Claimed /\ Begun' = Begun /\ Called' = Called
      /\ Succeeded' = Succeeded
  BY <1>3, <1>4 DEF Working, Claimed, Begun, Called
<1>6. \A U : U \subseteq Workers /\ w \notin U => ItemsOf(worker', U) = ItemsOf(worker, U)
  BY <1>3 DEF ItemsOf
<1>7. /\ ItemsOf(worker', Working') = ItemsOf(worker, Working)
      /\ ItemsOf(worker', Claimed') = ItemsOf(worker, Claimed)
      /\ ItemsOf(worker', Begun') = ItemsOf(worker, Begun)
      /\ ItemsOf(worker', Called') = ItemsOf(worker, Called)
      /\ ItemsOf(worker', Succeeded') = ItemsOf(worker, Succeeded)
      /\ Sent' = Sent /\ SentOk' = SentOk
  <2>1. /\ Working \subseteq Workers /\ Claimed \subseteq Workers /\ Begun \subseteq Workers
        /\ Called \subseteq Workers /\ Succeeded \subseteq Workers
    BY DEF Working, Claimed, Begun, Called, Succeeded, WorkersAt
  <2> QED
    BY <1>1, <1>4, <1>5, <1>6, <2>1 DEF Sent, SentOk
<1>8. ImportPlaces'
  <2>1. Exclusive(worker', Working')
    BY <1>3, <1>4, <1>5 DEF ImportInv, ImportPlaces, Exclusive, Working, WorkersAt
  <2> QED
    BY <1>1, <1>7, <2>1 DEF ImportInv, ImportPlaces
<1>9. total' = total /\ NumWorkers' = NumWorkers
  BY <1>1 DEF total, NumWorkers
<1>10. Sorted' /\ ImportTypes'
  <2>1. Sorted'
    BY <1>1 DEF ImportInv, Sorted, Unresolved
  <2>2. ImportTypes'
    BY <1>1, <1>3, <1>9 DEF ImportInv, ImportTypes
  <2> QED
    BY <2>1, <2>2
<1>11. ImportFlow'
  <2>1. taken = total
    BY <1>1 DEF ImportInv, ImportFlow
  <2> QED
    BY <1>1, <1>3, <1>9, <2>1 DEF ImportInv, ImportFlow
<1>12. Effects' /\ Answers' /\ ImportShown'
  <2>1. Tried' = Tried /\ Added' = Added
    BY <1>1, <1>7 DEF Tried, Added
  <2>2. Effects'
    BY <1>1, <1>7, <2>1 DEF ImportInv, Effects, Ids
  <2>3. Answers'
    BY <1>1 DEF ImportInv, Answers, Unresolved
  <2>4. ImportShown'
    BY <1>1, <1>7, <1>9 DEF ImportInv, ImportShown
  <2> QED
    BY <2>2, <2>3, <2>4
<1> QED
  BY <1>2, <1>8, <1>10, <1>11, <1>12 DEF ImportInv

(* A show goes from a worker into the channel. *)
LEMMA SendInv ==
    ASSUME CheckInv, step = "import", ImportInv, NEW w \in Workers, Send(w)
    PROVE  CheckInv' /\ step' = "import" /\ ImportInv'
<1> DEFINE i == worker[w].item
           o == [item |-> i, success |-> worker[w].ok]
<1>1. /\ UNCHANGED inputs /\ UNCHANGED <<found, existingIDs, skipped, pending, progress, saved>>
      /\ UNCHANGED <<fed, taken, feeder, importedInRun, account, attempts, ledger, counts,
                     newlyAdded, notFound, answered, summary>>
      /\ worker[w].at = "send" /\ Len(outcomes) < NumWorkers /\ outcomes' = Append(outcomes, o)
      /\ Move(w, "idle", 0, FALSE)
  BY DEF Send, inputs, checkVars, poolOfChecks, shown, accountVars, collectorVars
<1>2. CheckInv' /\ step' = "import" /\ CheckTypes
  BY <1>1, CheckKept DEF CheckInv, CheckTypes
<1>3. /\ worker' \in [Workers -> [at : WorkerStates, item : Items \cup {0}, ok : BOOLEAN]]
      /\ worker'[w].at = "idle" /\ worker'[w].item = 0 /\ worker'[w].ok = FALSE
      /\ \A v \in Workers \ {w} : worker'[v] = worker[v]
      /\ \A S : WorkersAt(S)' = IF "idle" \in S THEN WorkersAt(S) \cup {w} ELSE WorkersAt(S) \ {w}
      /\ Succeeded' = Succeeded \ {w}
  <2>1. ImportTypes /\ 0 \in Items \cup {0} /\ FALSE \in BOOLEAN /\ "idle" \in WorkerStates
    BY DEF ImportInv, WorkerStates
  <2> QED
    BY <1>1, <2>1, MoveWorker
<1>4. /\ w \in Working /\ w \in Claimed /\ w \in Begun /\ w \in Called
      /\ w \in Succeeded <=> worker[w].ok
  BY <1>1 DEF Working, Claimed, Begun, Called, WorkersAt, Succeeded
<1>5. /\ Working' = Working \ {w} /\ Claimed' = Claimed \ {w} /\ Begun' = Begun \ {w}
      /\ Called' = Called \ {w} /\ Succeeded' = Succeeded \ {w}
  BY <1>3 DEF Working, Claimed, Begun, Called
<1>6. \A v \in Working : v \in Workers /\ (worker[v].item = i => v = w)
  BY <1>4 DEF ImportInv, ImportPlaces, Exclusive, Working, WorkersAt
<1>7. ASSUME NEW U, U \subseteq Working
      PROVE  /\ ItemsOf(worker', U \ {w}) = ItemsOf(worker, U) \ {i}
             /\ w \in U => i \in ItemsOf(worker, U)
             /\ w \notin U => i \notin ItemsOf(worker, U)
  BY <1>3, <1>6, <1>7 DEF ItemsOf
<1>8. /\ ItemsOf(worker', Working') = ItemsOf(worker, Working) \ {i}
      /\ i \in ItemsOf(worker, Working)
      /\ ItemsOf(worker', Claimed') = ItemsOf(worker, Claimed) \ {i} /\ i \in ItemsOf(worker, Claimed)
      /\ ItemsOf(worker', Begun') = ItemsOf(worker, Begun) \ {i} /\ i \in ItemsOf(worker, Begun)
      /\ ItemsOf(worker', Called') = ItemsOf(worker, Called) \ {i} /\ i \in ItemsOf(worker, Called)
      /\ ItemsOf(worker', Succeeded') = ItemsOf(worker, Succeeded) \ {i}
      /\ i \in ItemsOf(worker, Succeeded) <=> worker[w].ok
  <2>1. /\ Working \subseteq Working /\ Claimed \subseteq Working /\ Begun \subseteq Working
        /\ Called \subseteq Working /\ Succeeded \subseteq Working
    BY <1>2, GroupsPending
  <2> QED
    BY <1>4, <1>5, <1>7, <2>1
<1>9. i \in Items /\ i \notin Sent /\ i \notin answered /\ o \in Outcomes
  <2>1. i \in Items /\ i \notin Sent /\ i \notin answered
    BY <1>2, <1>8, ImportFacts DEF ImportInv, ImportPlaces
  <2>2. worker[w].ok \in BOOLEAN
    BY DEF ImportInv, ImportTypes
  <2> QED
    BY <2>1, <2>2 DEF Outcomes
<1>10. /\ outcomes' \in Seq(Outcomes) /\ Len(outcomes') = Len(outcomes) + 1
       /\ Sent' = Sent \cup {i} /\ SentOk' = IF worker[w].ok THEN SentOk \cup {i} ELSE SentOk
       /\ \A k, l \in 1..Len(outcomes') : outcomes'[k].item = outcomes'[l].item => k = l
  <2>1. outcomes \in Seq(Outcomes) /\ o.item = i /\ o.success = worker[w].ok
    BY DEF ImportInv, ImportTypes
  <2>2. /\ \A k, l \in 1..Len(outcomes) : outcomes[k].item = outcomes[l].item => k = l
        /\ o.item \notin Sent
    BY <1>9 DEF ImportInv, ImportPlaces
  <2> HIDE DEF o
  <2>3. /\ outcomes' \in Seq(Outcomes) /\ Len(outcomes') = Len(outcomes) + 1
        /\ Sent' = Sent \cup {o.item}
        /\ SentOk' = IF o.success THEN SentOk \cup {o.item} ELSE SentOk
        /\ \A k, l \in 1..Len(outcomes') : outcomes'[k].item = outcomes'[l].item => k = l
    BY <1>1, <1>9, <2>1, <2>2, SentAppend
  <2> QED
    BY <2>1, <2>3
<1>11. ImportPlaces'
  <2>1. Exclusive(worker', Working')
    <3>1. Exclusive(worker, Working)
      BY DEF ImportInv, ImportPlaces
    <3>2. \A v \in Working \ {w} : worker'[v] = worker[v]
      BY <1>3 DEF Working, WorkersAt
    <3> QED
      BY <1>5, <3>1, <3>2 DEF Exclusive
  <2>2. ItemsOf(worker, Working) \cap Sent = {} /\ ItemsOf(worker, Working) \cap answered = {}
        /\ Sent \cap answered = {}
        /\ ItemsOf(worker, Working) \cup Sent \cup answered = {pending[k] : k \in 1..taken}
    BY DEF ImportInv, ImportPlaces
  <2> QED
    BY <1>1, <1>8, <1>9, <1>10, <2>1, <2>2 DEF ImportPlaces
<1>12. total' = total /\ NumWorkers' = NumWorkers /\ NumWorkers \in Nat /\ Len(outcomes) \in Nat
  BY <1>1, <1>2, ImportFacts DEF total, NumWorkers, ImportInv, ImportTypes
<1>13. Sorted' /\ ImportTypes'
  <2>1. Sorted'
    BY <1>1 DEF ImportInv, Sorted, Unresolved
  <2>2. Len(outcomes') <= NumWorkers
    BY <1>1, <1>10, <1>12
  <2>3. ImportTypes'
    BY <1>1, <1>3, <1>10, <1>12, <2>2 DEF ImportInv, ImportTypes
  <2> QED
    BY <2>1, <2>3
<1>14. ImportFlow'
  <2>1. \A v \in Workers : worker'[v].at = "gone" => v # w /\ worker[v].at = "gone"
    BY <1>3
  <2>2. 1..NumWorkers \subseteq Workers
    BY <1>2, ImportFacts
  <2>3. \A v \in 1..NumWorkers : worker'[v].at = "gone" => taken = total
    BY <2>1, <2>2 DEF ImportInv, ImportFlow
  <2>4. feeder # "gone"
    BY <1>1 DEF ImportInv, ImportFlow
  <2> QED
    BY <1>1, <1>3, <1>12, <2>3, <2>4 DEF ImportInv, ImportFlow
<1>15. Effects' /\ Answers' /\ ImportShown'
  <2>1. /\ ItemsOf(worker', Claimed') \cup Sent' \cup answered'
              = ItemsOf(worker, Claimed) \cup Sent \cup answered
        /\ ItemsOf(worker', Begun') \cup Sent' = ItemsOf(worker, Begun) \cup Sent
    BY <1>1, <1>8, <1>10
  <2>2. Tried' = Tried /\ Added' = Added
    BY <1>1, <1>8, <1>10 DEF Tried, Added
  <2>3. Effects'
    BY <1>1, <2>1, <2>2 DEF ImportInv, Effects, Ids
  <2>4. feeder # "gone"
    BY <1>1 DEF ImportInv, ImportFlow
  <2>5. Answers'
    BY <1>1, <2>4 DEF ImportInv, Answers, Unresolved
  <2>6. ImportShown'
    BY <1>1, <1>12, <2>1 DEF ImportInv, ImportShown
  <2> QED
    BY <2>3, <2>5, <2>6
<1> QED
  BY <1>2, <1>11, <1>13, <1>14, <1>15 DEF ImportInv

--------------------------------------------------------------------------------
(* The collector *)

LEMMA CollectInv ==
    ASSUME CheckInv, step = "import", ImportInv, Collect
    PROVE  CheckInv' /\ step' = "import" /\ ImportInv'
<1> DEFINE o == Head(outcomes)
           i == o.item
           n == Cardinality(answered)
           Old == ItemsOf(worker, Begun) \cup Sent
<1>1. /\ UNCHANGED inputs /\ UNCHANGED <<found, existingIDs, skipped, pending>>
      /\ UNCHANGED <<fed, taken, feeder, worker, importedInRun, account, attempts, ledger, summary>>
      /\ outcomes # <<>> /\ outcomes' = Tail(outcomes)
      /\ counts' = trackerDone(counts, NameOf[i])
      /\ notFound' = IF o.success THEN notFound ELSE notFound \cup {i}
      /\ answered' = answered \cup {i}
      /\ newlyAdded' = newlyAdded + (IF o.success THEN 1 ELSE 0)
      /\ progress' = [progress EXCEPT !.done = progress.done + 1,
                                      !.remaining = total - (progress.done + 1),
                                      !.notFound = notFound', !.active = ActiveShows(counts')]
      /\ saved' = IF PersistNow(progress.done + 1, total) THEN progress' ELSE saved
  BY DEF Collect, inputs, checkVars, poolOfChecks, accountVars
<1>2. /\ CheckTypes /\ Sorted /\ ImportTypes /\ ImportPlaces /\ ImportFlow /\ Effects /\ Answers
      /\ ImportShown /\ total' = total /\ NumWorkers' = NumWorkers
  BY <1>1 DEF CheckInv, ImportInv, total, NumWorkers
<1>3. /\ o \in Outcomes /\ outcomes' \in Seq(Outcomes)
      /\ Len(outcomes) \in Nat /\ Len(outcomes') = Len(outcomes) - 1
      /\ i \in Sent /\ Sent' = Sent \ {i} /\ SentOk' = SentOk \ {i} /\ (i \in SentOk <=> o.success)
      /\ \A k, l \in 1..Len(outcomes') : outcomes'[k].item = outcomes'[l].item => k = l
  BY <1>1, <1>2, SentTail DEF ImportTypes, ImportPlaces
<1>4. /\ i \in Elems(pending) /\ i \in Items /\ i \notin answered /\ i \notin notFound
      /\ i \notin ItemsOf(worker, Working)
  <2>1. i \in Elems(pending) /\ i \in Items /\ i \notin Unresolved
    BY <1>2, <1>3, ImportFacts
  <2> QED
    BY <1>2, <1>3, <2>1 DEF ImportPlaces, Answers
<1>5. /\ Working' = Working /\ Claimed' = Claimed /\ Begun' = Begun /\ Called' = Called
      /\ Succeeded' = Succeeded
  BY <1>1 DEF Working, Claimed, Begun, Called, WorkersAt, Succeeded
<1>6. /\ i \notin ItemsOf(worker, Begun) /\ i \notin ItemsOf(worker, Succeeded)
  <2>1. Begun \subseteq Working /\ Succeeded \subseteq Working
    BY <1>2, GroupsPending
  <2> QED
    BY <1>4, <2>1 DEF ItemsOf
<1>7. ImportPlaces'
  BY <1>1, <1>2, <1>3, <1>4, <1>5 DEF ImportPlaces
<1>8. Sorted' /\ ImportTypes' /\ ImportFlow'
  <2>1. Sorted' /\ ImportFlow'
    BY <1>1, <1>2 DEF Sorted, Unresolved, ImportFlow
  <2>2. Len(outcomes') <= NumWorkers /\ NumWorkers \in Nat
    BY <1>2, <1>3, ImportFacts DEF ImportTypes
  <2>3. ImportTypes'
    BY <1>1, <1>2, <1>3, <2>2 DEF ImportTypes
  <2> QED
    BY <2>1, <2>3
<1>9. answered' \ notFound' = IF o.success THEN (answered \ notFound) \cup {i} ELSE answered \ notFound
  BY <1>1, <1>4
<1>10. Effects'
  <2>1. Tried' = Tried /\ Added' = Added
    BY <1>1, <1>3, <1>5, <1>9 DEF Tried, Added
  <2>2. ItemsOf(worker', Claimed') \cup Sent' \cup answered'
            = ItemsOf(worker, Claimed) \cup Sent \cup answered
    BY <1>1, <1>3, <1>5
  <2> QED
    BY <1>1, <1>2, <2>1, <2>2 DEF Effects, Ids
<1>11. /\ n \in Nat /\ n + 1 <= total /\ total \in 0..NumShows /\ NumShows \in Nat
       /\ Cardinality(answered') = n + 1 /\ IsFiniteSet(answered)
  <2>1. IsFiniteSet(answered) /\ n \in Nat /\ Cardinality(answered \cup {i}) = n + 1
    <3>1. IsFiniteSet(answered) /\ n \in 0..total /\ total \in Nat
      BY <1>2, ImportFacts
    <3>2. Cardinality(answered \cup {i}) = n + 1
      <4> HIDE DEF i
      <4> QED
        BY <1>4, <3>1, FS_AddElement
    <3> QED
      BY <3>1, <3>2
  <2>2. n # total /\ n <= total /\ total \in 0..NumShows /\ NumShows \in Nat
    BY <1>2, <1>4, ImportFacts
  <2> QED
    BY <1>1, <2>1, <2>2
<1>12. Answers'
  <2>1. newlyAdded' = Cardinality(answered' \ notFound')
    <3>1. IsFiniteSet(answered \ notFound)
      BY <1>11, FS_Subset
    <3>2. i \notin answered \ notFound
      BY <1>4
    <3>3. Cardinality((answered \ notFound) \cup {i}) = Cardinality(answered \ notFound) + 1
      BY <3>1, <3>2, FS_AddElement
    <3>4. newlyAdded = Cardinality(answered \ notFound) /\ Cardinality(answered \ notFound) \in Nat
      BY <1>2, <3>1, FS_CardinalityType DEF Answers
    <3>5. CASE o.success
      BY <1>1, <1>9, <3>3, <3>4, <3>5
    <3>6. CASE ~o.success
      <4>1. newlyAdded' = newlyAdded + 0 /\ answered' \ notFound' = answered \ notFound
        BY <1>1, <1>9, <3>6
      <4>2. newlyAdded \in Nat
        BY <3>4
      <4>3. newlyAdded' = newlyAdded
        BY <4>1, <4>2
      <4> QED
        BY <3>4, <4>1, <4>3
    <3>7. o.success \in BOOLEAN
      BY <1>3 DEF Outcomes
    <3> QED
      BY <3>5, <3>6, <3>7
  <2>2. Unresolved' = Unresolved
    BY <1>1 DEF Unresolved
  <2>3. Unresolved \subseteq notFound' /\ notFound' \subseteq Unresolved \cup answered'
    BY <1>1, <1>2 DEF Answers
  <2>4. summary = NoSummary
    BY <1>1, <1>2 DEF Answers
  <2> QED
    BY <1>1, <2>1, <2>2, <2>3, <2>4 DEF Answers
<1>13. CountsFit(counts', ItemsOf(worker', Begun') \cup Sent') /\ ActiveShows(counts') \in SUBSET Names
  <2>1. CountsFit(counts, Old) /\ Old \in SUBSET Items /\ i \in Old
    BY <1>2, <1>3, GroupsPending DEF ImportShown
  <2>2. ItemsOf(worker', Begun') \cup Sent' = Old \ {i}
    BY <1>1, <1>3, <1>5, <1>6
  <2> HIDE DEF Old
  <2>3. CountsFit(counts', Old \ {i})
    <3> HIDE DEF i
    <3> QED
      BY <1>1, <2>1, CountDown
  <2>4. Old \ {i} \in SUBSET Items
    BY <2>1
  <2>5. ActiveShows(counts') \in SUBSET Names
    BY <2>3, <2>4, CountsTell
  <2> QED
    BY <2>2, <2>3, <2>5
<1>14. progress' = [step |-> "import", done |-> n + 1, remaining |-> total - (n + 1),
                    notFound |-> notFound', active |-> ActiveShows(counts')]
  <2>1. progress = [step |-> "import", done |-> n, remaining |-> total - n,
                    notFound |-> notFound, active |-> ActiveShows(counts)]
    BY <1>2 DEF ImportShown
  <2> QED
    BY <1>1, <2>1
<1>15. ImportShown'
  <2>1. progress'.remaining = 0 => saved' = progress'
    <3>1. progress'.remaining = 0 => n + 1 = total
      BY <1>11, <1>14
    <3>2. progress.done = n
      BY <1>2 DEF ImportShown
    <3> QED
      BY <1>1, <3>1, <3>2 DEF PersistNow
  <2> QED
    BY <1>2, <1>11, <1>13, <1>14, <2>1 DEF ImportShown
<1>16. CheckInv' /\ step' = "import"
  <2>1. notFound' \in SUBSET Items
    BY <1>1, <1>2, <1>4, ImportFacts
  <2>2. n + 1 \in 0..NumShows /\ total - (n + 1) \in 0..NumShows
    BY <1>11
  <2>3. progress' \in Shown
    BY <1>13, <1>14, <2>1, <2>2 DEF Shown
  <2>4. saved' \in Shown
    BY <1>1, <1>2, <2>3 DEF CheckTypes
  <2> QED
    BY <1>1, <2>4, CheckKept
<1> QED
  BY <1>7, <1>8, <1>10, <1>12, <1>15, <1>16 DEF ImportInv

LEMMA CompleteInv ==
    ASSUME CheckInv, step = "import", ImportInv, Complete
    PROVE  CheckInv' /\ step' = "import" /\ ImportInv'
<1>1. /\ UNCHANGED inputs /\ UNCHANGED <<found, existingIDs, skipped, pending>>
      /\ UNCHANGED <<fed, taken, feeder, worker, importedInRun, outcomes, account, attempts, ledger,
                     counts, newlyAdded, notFound, answered>>
      /\ feeder = "gone" /\ outcomes = <<>>
      /\ progress' = [progress EXCEPT !.notFound = notFound, !.active = {}]
      /\ summary' = [total |-> NumShows, already |-> Cardinality(skipped),
                     added |-> newlyAdded, missing |-> Cardinality(notFound)]
      /\ saved' = progress'
  BY DEF Complete, inputs, checkVars, poolOfChecks, poolVars, accountVars, collectorVars
<1>2. /\ CheckTypes /\ Sorted /\ ImportTypes /\ ImportPlaces /\ ImportFlow /\ Effects /\ Answers
      /\ ImportShown /\ total' = total /\ NumWorkers' = NumWorkers
  BY <1>1 DEF CheckInv, ImportInv, total, NumWorkers
<1>3. /\ Working' = Working /\ Claimed' = Claimed /\ Begun' = Begun /\ Called' = Called
      /\ Succeeded' = Succeeded /\ Sent' = Sent /\ SentOk' = SentOk
  BY <1>1 DEF Working, Claimed, Begun, Called, WorkersAt, Succeeded, Sent, SentOk
<1>4. ItemsOf(worker, Begun) \cup Sent = {}
  <2>1. Begun = {} /\ Len(<<>>) = 0
    BY <1>1, <1>2 DEF Begun, WorkersAt, ImportFlow
  <2> QED
    BY <1>1, <2>1 DEF ItemsOf, Sent
<1>5. ActiveShows(counts) = {}
  <2>1. CountsFit(counts, {})
    BY <1>2, <1>4 DEF ImportShown
  <2> QED
    BY <2>1, CountsTell DEF TitlesOf, FirstOf
<1>6. progress' = progress
  <2>1. progress = [step |-> "import", done |-> Cardinality(answered),
                    remaining |-> total - Cardinality(answered), notFound |-> notFound, active |-> {}]
    BY <1>2, <1>5 DEF ImportShown
  <2>2. progress' = [step |-> "import", done |-> Cardinality(answered),
                     remaining |-> total - Cardinality(answered), notFound |-> notFound, active |-> {}]
    BY <1>1, <2>1
  <2> QED
    BY <2>1, <2>2
<1>7. Sorted' /\ ImportTypes' /\ ImportPlaces' /\ ImportFlow'
  BY <1>1, <1>2, <1>3 DEF Sorted, Unresolved, ImportTypes, ImportPlaces, ImportFlow
<1>8. Effects' /\ Answers'
  <2>1. Tried' = Tried /\ Added' = Added
    BY <1>1, <1>3 DEF Tried, Added
  <2> QED
    BY <1>1, <1>2, <1>3, <2>1 DEF Effects, Ids, Answers, Unresolved
<1>9. ImportShown'
  BY <1>1, <1>2, <1>3, <1>6 DEF ImportShown
<1>10. CheckInv' /\ step' = "import"
  <2>1. /\ NumShows \in Nat /\ total \in 0..NumShows /\ Cardinality(answered) \in 0..total
        /\ notFound \subseteq Items
    BY <1>2, ImportFacts
  <2>2. Cardinality(answered) \in 0..NumShows /\ total - Cardinality(answered) \in 0..NumShows
    BY <2>1
  <2>3. progress = [step |-> "import", done |-> Cardinality(answered),
                    remaining |-> total - Cardinality(answered), notFound |-> notFound, active |-> {}]
    BY <1>2, <1>5 DEF ImportShown
  <2>4. saved' \in Shown
    BY <1>1, <1>6, <2>1, <2>2, <2>3 DEF Shown
  <2> QED
    BY <1>1, <2>4, CheckKept
<1> QED
  BY <1>7, <1>8, <1>9, <1>10 DEF ImportInv

--------------------------------------------------------------------------------
(* The invariant *)

LEMMA StutterInv ==
    ASSUME PoolInv, UNCHANGED vars
    PROVE  PoolInv'
<1>1. /\ UNCHANGED <<step, library, checkFed, checkTaken, checkFeeder, checker, found, results, resolved,
                     checkCounts, progress, saved>>
      /\ UNCHANGED <<existingIDs, skipped, pending, fed, taken, feeder, worker, importedInRun, outcomes,
                     account, attempts, ledger, counts, newlyAdded, notFound, answered, summary>>
  BY DEF vars, checkVars, poolOfChecks, importVars, poolVars, accountVars, collectorVars, shown
<1>2. CheckInv'
  <2>1. CheckInv
    BY DEF PoolInv
  <2>2. CheckTypes' /\ CheckFlow' /\ CheckShown'
    BY <1>1, <2>1 DEF CheckInv, CheckTypes, CheckFlow, CheckShown
  <2>3. CheckPlaces' /\ FoundFits' /\ CheckCountsFit'
    BY <1>1, <2>1 DEF CheckInv, CheckPlaces, FoundFits, CheckCountsFit, Checking, Looked, CheckersAt
  <2> QED
    BY <2>2, <2>3 DEF CheckInv
<1>3. CASE step # "import"
  BY <1>1, <1>2, <1>3 DEF PoolInv, Idle
<1>4. CASE step = "import"
  <2>1. ImportInv
    BY <1>4 DEF PoolInv
  <2>2. /\ Working' = Working /\ Claimed' = Claimed /\ Begun' = Begun /\ Called' = Called
        /\ Succeeded' = Succeeded /\ Sent' = Sent /\ SentOk' = SentOk
    BY <1>1 DEF Working, Claimed, Begun, Called, WorkersAt, Succeeded, Sent, SentOk
  <2>3. Sorted' /\ ImportTypes' /\ ImportPlaces' /\ ImportFlow'
    BY <1>1, <2>1, <2>2 DEF ImportInv, Sorted, Unresolved, ImportTypes, ImportPlaces, ImportFlow, total,
       NumWorkers
  <2>4. Tried' = Tried /\ Added' = Added
    BY <1>1, <2>2 DEF Tried, Added
  <2>5. Effects' /\ Answers'
    BY <1>1, <2>1, <2>2, <2>4 DEF ImportInv, Effects, Ids, Answers, Unresolved
  <2>6. ImportShown'
    BY <1>1, <2>1, <2>2 DEF ImportInv, ImportShown, total
  <2> QED
    BY <1>1, <1>2, <1>4, <2>3, <2>5, <2>6 DEF PoolInv, ImportInv
<1> QED
  BY <1>3, <1>4

LEMMA WorkInv ==
    ASSUME CheckInv, step = "import", ImportInv, NEW w \in Workers, Work(w)
    PROVE  CheckInv' /\ step' = "import" /\ ImportInv'
  BY TakeInv, LeaveInv, ClaimInv, StartShowInv, CallInv, AfterCallInv, SendInv DEF Work

LEMMA IdleStays ==
    ASSUME Idle
    PROVE  ~ImportNext
<1>1. \A w \in Workers : worker[w].at = "gone"
  BY DEF Idle, NoPool
<1>2. \A w \in Workers : ~Work(w)
  BY <1>1 DEF Work, Take, Leave, Claim, StartShow, ImportOk, ImportFails, Unclaim, RecordImported, Send
<1>3. ~Feed /\ ~CloseJobs /\ ~CloseOutcomes /\ ~Collect /\ ~Complete
  BY DEF Idle, Feed, CloseJobs, CloseOutcomes, Collect, Complete
<1> QED
  BY <1>2, <1>3 DEF ImportNext

LEMMA StepInv ==
    ASSUME PoolInv, [Next]_vars
    PROVE  PoolInv'
<1>1. CASE CheckNext /\ UNCHANGED importVars
  <2>1. CheckInv' /\ step = "check" /\ step' \in {"check", "failed"}
    BY <1>1, CheckNextInv DEF PoolInv
  <2>2. Idle'
    BY <1>1, <2>1 DEF PoolInv, Idle, importVars, poolVars, accountVars, collectorVars
  <2> QED
    BY <2>1, <2>2 DEF PoolInv
<1>2. CASE Classify
  <2>1. step = "check"
    BY <1>2 DEF Classify, ChecksEnd
  <2> QED
    BY <1>2, <2>1, ClassifyInv DEF PoolInv
<1>3. CASE ImportNext
  <2>1. CheckInv /\ step = "import" /\ ImportInv
    BY <1>3, IdleStays DEF PoolInv
  <2>2. CheckInv' /\ step' = "import" /\ ImportInv'
    BY <1>3, <2>1, FeederInv, WorkInv, CollectInv, CompleteInv DEF ImportNext
  <2> QED
    BY <2>2 DEF PoolInv
<1>4. CASE UNCHANGED vars
  BY <1>4, StutterInv
<1> QED
  BY <1>1, <1>2, <1>3, <1>4 DEF Next

(* The books of both pools are kept in every state, and what the account,    *)
(* the counts and the progress say follows them.                             *)
THEOREM PoolsKeepTheirBooks == Spec => []PoolInv
<1>1. Init => PoolInv
  BY InitInv DEF PoolInv
<1>2. PoolInv /\ [Next]_vars => PoolInv'
  BY StepInv
<1> QED
  BY <1>1, <1>2, PTL DEF Spec

--------------------------------------------------------------------------------
(* What follows from the books *)

(* The ids of shows to import are as many as the shows.                      *)
LEMMA IdsCount ==
    ASSUME PoolInv, step = "import", NEW S \in SUBSET Elems(pending)
    PROVE  IsFiniteSet(Ids(S)) /\ Cardinality(Ids(S)) = Cardinality(S)
<1> DEFINE f == [i \in S |-> found[i]]
<1>1. IsFiniteSet(S)
  <2>1. Elems(pending) \subseteq Items
    BY ImportFacts DEF PoolInv, CheckInv
  <2> QED
    BY <2>1, ItemsFinite
<1>2. \A i, k \in S : found[i] = found[k] => i = k
  BY DEF PoolInv, ImportInv, Sorted
<1>3. f \in Bijection(S, Ids(S))
  BY <1>2 DEF Bijection, Injection, IsInjective, Surjection, Ids
<1> QED
  BY <1>1, <1>3, FS_Bijection DEF ExistsBijection

(* When the pool has ended every show to import is answered for.             *)
LEMMA PoolEnds ==
    ASSUME PoolInv, step = "import", feeder = "gone", outcomes = <<>>
    PROVE  /\ answered = Elems(pending) /\ Added = answered \ notFound
           /\ InImport = {} /\ Cardinality(answered) = total
<1>1. ImportInv /\ CheckTypes
  BY DEF PoolInv, CheckInv
<1>2. \A w \in Workers : worker[w].at = "gone"
  BY <1>1 DEF ImportInv, ImportFlow
<1>3. Working = {} /\ Succeeded = {} /\ Sent = {} /\ SentOk = {}
  <2>1. Len(<<>>) = 0
    OBVIOUS
  <2>2. Sent = {} /\ SentOk = {}
    BY <2>1 DEF Sent, SentOk
  <2>3. Working = {} /\ Succeeded = {}
    BY <1>1, <1>2 DEF Working, WorkersAt, Succeeded, ImportInv, ImportFlow
  <2> QED
    BY <2>2, <2>3
<1>4. \A U : U = {} => ItemsOf(worker, U) = {}
  BY DEF ItemsOf
<1>5. taken = total
  <2>1. taken \in Nat /\ taken <= total /\ total \in Nat
    BY <1>1, ImportFacts DEF ImportInv, ImportTypes
  <2>2. NumWorkers \in Nat /\ 1..NumWorkers \subseteq Workers /\ (NumWorkers = 0 => total = 0)
    BY <1>1, ImportFacts
  <2>3. CASE NumWorkers = 0
    BY <2>1, <2>2, <2>3
  <2>4. CASE NumWorkers # 0
    <3>1. 1 \in 1..NumWorkers
      BY <2>2, <2>4
    <3> QED
      BY <1>1, <1>2, <2>2, <3>1 DEF ImportInv, ImportFlow
  <2> QED
    BY <2>3, <2>4
<1>6. answered = Elems(pending)
  <2>1. answered = {pending[k] : k \in 1..taken}
    BY <1>1, <1>3, <1>4 DEF ImportInv, ImportPlaces
  <2> QED
    BY <1>5, <2>1 DEF Elems, total
<1>7. Added = answered \ notFound
  BY <1>3, <1>4 DEF Added
<1>8. InImport = {}
  BY <1>2 DEF InImport
<1>9. Cardinality(answered) = total
  BY <1>1, <1>6, DistinctCardinality DEF ImportInv, Sorted, total
<1> QED
  BY <1>6, <1>7, <1>8, <1>9

(* What the collector counted as added is on the account.                    *)
LEMMA CountedIsAdded ==
    ASSUME PoolInv
    PROVE  IsFiniteSet(account) /\ newlyAdded <= Cardinality(account) /\ newlyAdded \in 0..NumShows
<1>1. CASE step # "import"
  <2>1. account = {} /\ newlyAdded = 0 /\ NumShows \in Nat
    BY <1>1, CheckAssumption DEF PoolInv, Idle
  <2>2. IsFiniteSet({}) /\ Cardinality({}) = 0
    BY FS_EmptySet
  <2> QED
    BY <2>1, <2>2
<1>2. CASE step = "import"
  <2>1. ImportInv /\ CheckTypes
    BY <1>2 DEF PoolInv, CheckInv
  <2>2. Added \in SUBSET Elems(pending) /\ Elems(pending) \subseteq Items
    BY <2>1, GroupsPending, ImportFacts
  <2>3. /\ account = Ids(Added) /\ newlyAdded = Cardinality(answered \ notFound)
        /\ answered \ notFound \subseteq Added
    BY <2>1 DEF ImportInv, Effects, Answers, Added
  <2>4. IsFiniteSet(account) /\ Cardinality(account) = Cardinality(Added)
    BY <1>2, <2>2, <2>3, IdsCount
  <2>5. IsFiniteSet(Added) /\ answered \ notFound \in SUBSET Items
    BY <2>2, <2>3, ItemsFinite
  <2>6. Cardinality(answered \ notFound) <= Cardinality(Added)
    BY <2>3, <2>5, FS_Subset
  <2>7. Cardinality(answered \ notFound) \in 0..NumShows
    BY <2>5, ItemsFinite
  <2> QED
    BY <2>3, <2>4, <2>6, <2>7
<1> QED
  BY <1>1, <1>2

(* The skipped, the added and the missing are all the shows.                 *)
LEMMA EndAddsUp ==
    ASSUME PoolInv, summary # NoSummary
    PROVE  /\ summary = [total |-> NumShows, already |-> Cardinality(skipped),
                         added |-> newlyAdded, missing |-> Cardinality(notFound)]
           /\ NumShows = Cardinality(skipped) + newlyAdded + Cardinality(notFound)
           /\ newlyAdded = Cardinality(account)
<1>1. step = "import" /\ ImportInv /\ CheckTypes
  BY DEF PoolInv, Idle, CheckInv
<1>2. /\ feeder = "gone" /\ outcomes = <<>>
      /\ summary = [total |-> NumShows, already |-> Cardinality(skipped),
                    added |-> newlyAdded, missing |-> Cardinality(notFound)]
  BY <1>1 DEF ImportInv, Answers
<1>3. answered = Elems(pending) /\ Added = answered \ notFound
  BY <1>1, <1>2, PoolEnds
<1>4. account = Ids(Added) /\ newlyAdded = Cardinality(Added)
  BY <1>1, <1>3 DEF ImportInv, Effects, Answers
<1>5. newlyAdded = Cardinality(account)
  <2>1. Added \in SUBSET Elems(pending)
    BY <1>3
  <2> QED
    BY <1>1, <1>4, <2>1, IdsCount
<1>6. /\ skipped \in SUBSET Items /\ Added \in SUBSET Items /\ notFound \in SUBSET Items
      /\ skipped \cap Added = {} /\ (skipped \cup Added) \cap notFound = {}
      /\ Items = (skipped \cup Added) \cup notFound
  <2>1. /\ skipped \subseteq Items /\ Elems(pending) = Items \ (skipped \cup Unresolved)
        /\ skipped \cap Unresolved = {} /\ Unresolved \subseteq notFound
        /\ notFound \subseteq Unresolved \cup answered
    BY <1>1 DEF ImportInv, Sorted, Answers
  <2>2. Unresolved \subseteq Items
    BY DEF Unresolved
  <2> QED
    BY <1>3, <2>1, <2>2
<1>7. \A A, B \in SUBSET Items : A \cap B = {} =>
          Cardinality(A \cup B) = Cardinality(A) + Cardinality(B)
  <2> SUFFICES ASSUME NEW A \in SUBSET Items, NEW B \in SUBSET Items, A \cap B = {}
               PROVE  Cardinality(A \cup B) = Cardinality(A) + Cardinality(B)
    OBVIOUS
  <2>1. IsFiniteSet(A) /\ IsFiniteSet(B) /\ Cardinality(A) \in Nat /\ Cardinality(B) \in Nat
    BY ItemsFinite, FS_CardinalityType
  <2>2. Cardinality(A \cup B) = Cardinality(A) + Cardinality(B) - Cardinality({})
    BY <2>1, FS_Union
  <2>3. Cardinality({}) = 0
    BY FS_EmptySet
  <2> QED
    BY <2>1, <2>2, <2>3
<1>8. Cardinality(Items) = NumShows
  <2>1. NumShows \in Nat
    BY CheckAssumption
  <2> QED
    BY <2>1, FS_Interval DEF Items
<1>9. Cardinality(skipped \cup Added) = Cardinality(skipped) + Cardinality(Added)
  BY <1>6, <1>7
<1>10. Cardinality((skipped \cup Added) \cup notFound)
          = Cardinality(skipped \cup Added) + Cardinality(notFound)
  <2>1. skipped \cup Added \in SUBSET Items
    BY <1>6
  <2> QED
    BY <1>6, <1>7, <2>1
<1> QED
  BY <1>2, <1>4, <1>5, <1>6, <1>8, <1>9, <1>10

(* Types *)
LEMMA PoolTypes ==
    ASSUME PoolInv
    PROVE  TypeOK
<1>1. CheckInv /\ CheckTypes /\ NumShows \in Nat /\ NumCheckers \in Nat
  BY CheckFacts DEF PoolInv, CheckInv
<1>2. checkCounts \in [Names -> 0..NumShows]
  <2>1. ItemsOf(checker, Looked) \cup Elems(results) \in SUBSET Items
    BY <1>1, CheckFacts DEF ItemsOf, Looked, Checking, CheckersAt
  <2> QED
    BY <1>1, <2>1, CountsTell DEF CheckInv, CheckCountsFit
<1> DEFINE Rest ==
        /\ existingIDs \subseteq TmdbIDs /\ pending \in Seq(Items) /\ answered \cup skipped \subseteq Items
        /\ fed <= total /\ InPool(taken, fed, outcomes, NumWorkers)
        /\ feeder \in {"none", "feeding", "waiting", "gone"}
        /\ worker \in [Workers -> [at : WorkerStates, item : Items \cup {0}, ok : BOOLEAN]]
        /\ outcomes \in Seq(Outcomes) /\ importedInRun \subseteq TmdbIDs
        /\ account \subseteq TmdbIDs /\ attempts \in [TmdbIDs -> Nat] /\ ledger \subseteq TmdbIDs
        /\ counts \in [Names -> 0..NumShows] /\ notFound \subseteq Items
        /\ progress \in Shown
<1>3. Rest
  <2>1. CASE step # "import"
    <3>1. Idle /\ CheckShown /\ TmdbIDs = 1..NumShows
      BY <2>1 DEF PoolInv, CheckInv, TmdbIDs
    <3>2. progress \in Shown
      BY <1>1, <2>1, <3>1, CheckFacts DEF CheckShown, Shown
    <3>3. total = 0 /\ NumWorkers \in Nat /\ Len(outcomes) = 0
      BY <3>1, PoolAssumption DEF Idle, total, NumWorkers, Least
    <3>4. worker \in [Workers -> [at : WorkerStates, item : Items \cup {0}, ok : BOOLEAN]]
      BY <3>1 DEF Idle, NoPool, WorkerStates
    <3>5. pending \in Seq(Items) /\ outcomes \in Seq(Outcomes)
      BY <3>1 DEF Idle
    <3>6. attempts \in [TmdbIDs -> Nat] /\ counts \in [Names -> 0..NumShows]
      BY <1>1, <3>1 DEF Idle
    <3> QED
      BY <3>1, <3>2, <3>3, <3>4, <3>5, <3>6 DEF Idle, InPool
  <2>2. CASE step = "import"
    <3>1. ImportInv
      BY <2>2 DEF PoolInv
    <3>2. /\ total \in 0..NumShows /\ Elems(pending) \subseteq Items /\ answered \subseteq Elems(pending)
          /\ notFound \subseteq Items /\ Cardinality(answered) \in 0..total
          /\ ActiveShows(counts) \in SUBSET Names /\ NumWorkers \in Nat
          /\ \A i \in Elems(pending) : found[i] \in TmdbIDs
      BY <1>1, <3>1, ImportFacts
    <3>3. progress \in Shown
      <4>1. Cardinality(answered) \in 0..NumShows /\ total - Cardinality(answered) \in 0..NumShows
        BY <1>1, <3>2
      <4> QED
        BY <3>1, <3>2, <4>1 DEF ImportInv, ImportShown, Shown
    <3>4. counts \in [Names -> 0..NumShows]
      <4>1. ItemsOf(worker, Begun) \cup Sent \in SUBSET Items
        BY <1>1, <3>1, GroupsPending
      <4> QED
        BY <3>1, <4>1, CountsTell DEF ImportInv, ImportShown
    <3>5. account \subseteq TmdbIDs /\ ledger \subseteq TmdbIDs /\ attempts \in [TmdbIDs -> Nat]
      <4>1. Added \subseteq Elems(pending)
        BY <1>1, <3>1, GroupsPending
      <4> QED
        BY <3>1, <3>2, <4>1 DEF ImportInv, Effects, Ids
    <3>6. InPool(taken, fed, outcomes, NumWorkers)
      BY <3>1 DEF ImportInv, ImportTypes, InPool
    <3> QED
      BY <3>1, <3>2, <3>3, <3>4, <3>5, <3>6 DEF ImportInv, Sorted, ImportTypes
  <2> QED
    BY <2>1, <2>2
<1>4. summary \in [total : {-1, NumShows}, already : 0..NumShows,
                   added : 0..NumShows, missing : 0..NumShows]
  <2>1. CASE summary = NoSummary
    BY <1>1, <2>1 DEF NoSummary
  <2>2. CASE summary # NoSummary
    <3>1. Cardinality(skipped) \in 0..NumShows /\ Cardinality(notFound) \in 0..NumShows
      BY <1>3, ItemsFinite
    <3> QED
      BY <2>2, <3>1, EndAddsUp, CountedIsAdded
  <2> QED
    BY <2>1, <2>2
<1>5. InPool(checkTaken, checkFed, results, NumCheckers)
  BY <1>1 DEF CheckTypes, InPool
<1>6. newlyAdded \in 0..NumShows
  BY CountedIsAdded
<1> QED
  BY <1>1, <1>2, <1>3, <1>4, <1>5, <1>6 DEF TypeOK, CheckTypes, Shown

--------------------------------------------------------------------------------
(* The properties *)

(* Every variable of both pools keeps its type: no channel holds more than   *)
(* it can, no count leaves its range, no worker has a show that does not     *)
(* exist.                                                                    *)
THEOREM PoolTypeOK == Spec => []TypeOK
  BY PoolsKeepTheirBooks, PoolTypes, PTL

(* The counts runCompleteStep reports add up: skipped, added and not found   *)
(* are all the shows TV Time returned, none counted twice, and what was      *)
(* counted as added is on the account.                                       *)
THEOREM SummaryAddsUpHolds == Spec => []SummaryAddsUp
<1>1. PoolInv => SummaryAddsUp
  <2> SUFFICES ASSUME PoolInv
               PROVE  SummaryAddsUp
    OBVIOUS
  <2>1. TypeOK /\ newlyAdded <= Cardinality(account)
    BY PoolTypes, CountedIsAdded
  <2>2. ASSUME summary # NoSummary
        PROVE  /\ summary.total = summary.already + summary.added + summary.missing
               /\ newlyAdded = Cardinality(account)
    <3>1. /\ summary = [total |-> NumShows, already |-> Cardinality(skipped),
                        added |-> newlyAdded, missing |-> Cardinality(notFound)]
          /\ NumShows = Cardinality(skipped) + newlyAdded + Cardinality(notFound)
          /\ newlyAdded = Cardinality(account)
      BY <2>2, EndAddsUp
    <3> QED
      BY <3>1
  <2> QED
    BY <2>1, <2>2 DEF SummaryAddsUp
<1> QED
  BY <1>1, PoolsKeepTheirBooks, PTL

(* No run calls ImportTVTimeShow twice for an id, nor for one that was known *)
(* to be on the account, and recordImported remembers only what was added.   *)
THEOREM ImportedAtMostOnceHolds == Spec => []ImportedAtMostOnce
<1>1. PoolInv => ImportedAtMostOnce
  <2> SUFFICES ASSUME PoolInv
               PROVE  ImportedAtMostOnce
    OBVIOUS
  <2>1. CASE step # "import"
    BY <2>1 DEF PoolInv, Idle, ImportedAtMostOnce
  <2>2. CASE step = "import"
    <3>1. ImportInv /\ CheckTypes
      BY <2>2 DEF PoolInv, CheckInv
    <3>2. Tried \subseteq Elems(pending)
      BY <3>1, GroupsPending
    <3>3. \A t \in Ids(Tried) : t \notin existingIDs
      BY <3>1, <3>2 DEF Ids, ImportInv, Sorted
    <3>4. /\ attempts = [t \in TmdbIDs |-> IF t \in Ids(Tried) THEN 1 ELSE 0]
          /\ ledger \subseteq account
      BY <3>1 DEF ImportInv, Effects
    <3> QED
      BY <3>3, <3>4 DEF ImportedAtMostOnce
  <2> QED
    BY <2>1, <2>2
<1> QED
  BY <1>1, PoolsKeepTheirBooks, PTL

LEMMA FirstTitles ==
    ASSUME InCheck \cup InImport \in SUBSET Items,
           progress.active = FirstOf(TitlesOf(InCheck \cup InImport), MaxActiveShows),
           progress.remaining = 0 => saved = progress
    PROVE  ProgressTellsTheWork
<1> DEFINE titles == TitlesOf(InCheck \cup InImport)
<1>1. titles \in SUBSET Nat /\ IsFiniteSet(titles)
  BY TitlesFinite
<1>2. progress.active = FirstOf(titles, MaxActiveShows)
  OBVIOUS
<1>3. MaxActiveShows \in Nat \ {0}
  BY CheckAssumption
<1> HIDE DEF titles
<1>4. /\ progress.active \subseteq titles
      /\ Cardinality(progress.active) = Least(Cardinality(titles), MaxActiveShows)
      /\ \A n \in progress.active, m \in titles \ progress.active : n < m
  BY <1>1, <1>2, <1>3, FirstOfIs
<1> QED
  BY <1>4 DEF ProgressTellsTheWork, titles, TitlesOf

(* The titles shown (activeShowsTracker) are titles of shows begun and not   *)
(* yet collected, in either step: the first in order of those in work, and   *)
(* as many as may be shown; and a count that is complete is stored.          *)
THEOREM ProgressTellsTheWorkHolds == Spec => []ProgressTellsTheWork
<1>1. PoolInv => ProgressTellsTheWork
  <2> SUFFICES ASSUME PoolInv
               PROVE  ProgressTellsTheWork
    OBVIOUS
  <2>1. CheckInv /\ CheckTypes
    BY DEF PoolInv, CheckInv
  <2>2. CASE step # "import"
    <3>1. InCheck = ItemsOf(checker, Looked) \cup Elems(results)
      BY <2>1 DEF InCheck, ItemsOf, Looked, CheckersAt, Elems, CheckTypes
    <3>2. InImport = {}
      <4>1. Idle /\ DOMAIN <<>> = {}
        BY <2>2 DEF PoolInv
      <4> QED
        BY <4>1 DEF Idle, NoPool, InImport
    <3>3. InCheck \in SUBSET Items
      BY <2>1, <3>1, CheckFacts DEF ItemsOf, Looked, Checking, CheckersAt
    <3>4. CountsFit(checkCounts, InCheck)
      BY <2>1, <3>1 DEF CheckInv, CheckCountsFit
    <3>5. progress.active = FirstOf(TitlesOf(InCheck), MaxActiveShows)
      BY <2>1, <2>2, <3>3, <3>4, CountsTell DEF CheckInv, CheckShown
    <3>6. InCheck \cup InImport = InCheck
      BY <3>2
    <3>7. progress.remaining = 0 => saved = progress
      BY <2>1, <2>2 DEF CheckInv, CheckShown
    <3> QED
      BY <3>3, <3>5, <3>6, <3>7, FirstTitles
  <2>3. CASE step = "import"
    <3>1. ImportInv
      BY <2>3 DEF PoolInv
    <3>2. InImport = ItemsOf(worker, Begun) \cup Sent
      BY <3>1 DEF InImport, ItemsOf, Begun, WorkersAt, Sent, ImportInv, ImportTypes
    <3>3. InCheck = {}
      <4>1. /\ results = <<>> /\ DOMAIN <<>> = {}
            /\ \A w \in Checkers : checker[w].at = "gone"
        BY <2>1, <2>3 DEF CheckInv, CheckFlow
      <4> QED
        BY <4>1 DEF InCheck
    <3>4. InImport \in SUBSET Items
      BY <2>1, <3>1, <3>2, GroupsPending
    <3>5. CountsFit(counts, InImport)
      BY <3>1, <3>2 DEF ImportInv, ImportShown
    <3>6. progress.active = FirstOf(TitlesOf(InImport), MaxActiveShows)
      BY <3>1, <3>4, <3>5, CountsTell DEF ImportInv, ImportShown
    <3>7. InCheck \cup InImport = InImport
      BY <3>3
    <3>8. progress.remaining = 0 => saved = progress
      BY <3>1 DEF ImportInv, ImportShown
    <3> QED
      BY <3>4, <3>6, <3>7, <3>8, FirstTitles
  <2> QED
    BY <2>2, <2>3
<1> QED
  BY <1>1, PoolsKeepTheirBooks, PTL

--------------------------------------------------------------------------------
(* The two steps implement ImportBatch *)

LeftToDo == (IF step = "import" THEN {pending[i] : i \in 1..total} ELSE Items) \ answered
BatchState == IF summary # NoSummary THEN "over" ELSE step

LEMMA InitIsBatch == Init => Batch!Init
  BY DEF Init, CheckInit, Batch!Init

(* Collecting an outcome adds or misses its show.                            *)
LEMMA CollectIsBatch ==
    ASSUME PoolInv, step = "import", Collect
    PROVE  Batch!Next
<1> DEFINE o == Head(outcomes)
<1>1. /\ UNCHANGED <<step, pending, skipped, summary>>
      /\ outcomes # <<>> /\ answered' = answered \cup {o.item}
      /\ notFound' = IF o.success THEN notFound ELSE notFound \cup {o.item}
      /\ newlyAdded' = newlyAdded + (IF o.success THEN 1 ELSE 0)
  BY DEF Collect, inputs, checkVars
<1>2. ImportInv /\ CheckTypes
  BY DEF PoolInv, CheckInv
<1>3. o.item \in Sent /\ o.success \in BOOLEAN
  <2>1. /\ outcomes \in Seq(Outcomes)
        /\ \A k, l \in 1..Len(outcomes) : outcomes[k].item = outcomes[l].item => k = l
    BY <1>2 DEF ImportInv, ImportTypes, ImportPlaces
  <2>2. Head(outcomes) = outcomes[1] /\ 1 \in 1..Len(outcomes) /\ Head(outcomes) \in Outcomes
    BY <1>1, <2>1, HeadTailProperties
  <2> QED
    BY <2>2 DEF Sent, Outcomes
<1>4. summary = NoSummary
  BY <1>1, <1>2 DEF ImportInv, Answers
<1>5. o.item \in Elems(pending) /\ o.item \in Items /\ o.item \notin answered
  BY <1>2, <1>3, ImportFacts DEF ImportInv, ImportPlaces
<1>6. PICK i \in Items : i = o.item
  BY <1>5
<1>7. newlyAdded \in Nat
  BY CountedIsAdded
<1>8. LeftToDo' = LeftToDo \ {i} /\ i \in LeftToDo
  BY <1>1, <1>5, <1>6 DEF LeftToDo, Elems, total
<1>9. BatchState = "import" /\ BatchState' = BatchState
  BY <1>1, <1>4 DEF BatchState
<1>10. CASE o.success
  <2>1. Batch!Add(i)
    BY <1>1, <1>8, <1>9, <1>10 DEF Batch!Add, LeftToDo, BatchState
  <2> QED
    BY <2>1 DEF Batch!Next
<1>11. CASE ~o.success
  <2>1. newlyAdded' = newlyAdded
    BY <1>1, <1>7, <1>11
  <2>2. Batch!Miss(i)
    BY <1>1, <1>6, <1>8, <1>9, <1>11, <2>1 DEF Batch!Miss, LeftToDo, BatchState
  <2> QED
    BY <2>2 DEF Batch!Next
<1> QED
  BY <1>3, <1>10, <1>11

LEMMA StepIsBatch ==
    ASSUME PoolInv, PoolInv', [Next]_vars
    PROVE  [Batch!Next]_Batch!vars
<1>1. CASE CheckNext /\ UNCHANGED importVars
  <2>1. step = "check" /\ step' \in {"check", "failed"}
    BY <1>1, CheckNextInv DEF PoolInv
  <2>2. UNCHANGED <<skipped, newlyAdded, notFound, answered, summary>> /\ summary = NoSummary
    BY <1>1, <2>1 DEF PoolInv, Idle, importVars, collectorVars
  <2>3. LeftToDo' = LeftToDo /\ BatchState = "check" /\ BatchState' = step'
    BY <2>1, <2>2 DEF LeftToDo, BatchState
  <2>4. CASE step' = "check"
    BY <2>2, <2>3, <2>4 DEF Batch!vars, LeftToDo, BatchState
  <2>5. CASE step' = "failed"
    <3>1. Batch!Fail
      BY <2>2, <2>3, <2>5 DEF Batch!Fail, LeftToDo, BatchState
    <3> QED
      BY <3>1 DEF Batch!Next
  <2> QED
    BY <2>1, <2>4, <2>5
<1>2. CASE Classify
  <2>1. /\ step = "check" /\ step' = "import" /\ notFound' = Unresolved
        /\ UNCHANGED <<newlyAdded, answered, summary, found>>
    BY <1>2 DEF Classify, ChecksEnd, poolOfChecks
  <2>2. summary = NoSummary /\ answered = {}
    BY <2>1 DEF PoolInv, Idle
  <2>3. /\ Elems(pending') = Items \ (skipped' \cup notFound')
        /\ skipped' \in SUBSET Items /\ notFound' \in SUBSET (Items \ skipped')
    BY <2>1 DEF PoolInv, ImportInv, Sorted, Unresolved
  <2>4. LeftToDo' = Items \ (skipped' \cup notFound') /\ BatchState = "check" /\ BatchState' = "import"
    BY <2>1, <2>2, <2>3 DEF LeftToDo, BatchState, Elems, total
  <2>5. Batch!Sort
    BY <2>1, <2>3, <2>4 DEF Batch!Sort, LeftToDo, BatchState
  <2> QED
    BY <2>5 DEF Batch!Next
<1>3. CASE ImportNext
  <2>1. step = "import" /\ ImportInv /\ step' = "import" /\ ImportInv'
    <3>1. step = "import"
      BY <1>3, IdleStays DEF PoolInv
    <3>2. step' = "import"
      BY <1>3, <3>1, FeederInv, WorkInv, CollectInv, CompleteInv DEF ImportNext, PoolInv
    <3> QED
      BY <3>1, <3>2 DEF PoolInv
  <2>2. CASE Feed \/ CloseJobs \/ CloseOutcomes \/ \E w \in Workers : Work(w)
    <3>1. UNCHANGED <<step, pending, skipped, newlyAdded, notFound, answered, summary>>
      <4>1. CASE Feed \/ CloseJobs \/ CloseOutcomes
        BY <4>1 DEF Feed, CloseJobs, CloseOutcomes, inputs, checkVars, collectorVars
      <4>2. ASSUME NEW w \in Workers, Work(w)
            PROVE  UNCHANGED <<step, pending, skipped, newlyAdded, notFound, answered, summary>>
        BY <4>2 DEF Work, Take, Leave, Claim, StartShow, ImportOk, ImportFails, Unclaim,
           RecordImported, Send, inputs, checkVars, collectorVars
      <4> QED
        BY <2>2, <4>1, <4>2
    <3>2. LeftToDo' = LeftToDo /\ BatchState' = BatchState
      BY <3>1 DEF LeftToDo, BatchState, total
    <3> QED
      BY <3>1, <3>2 DEF Batch!vars, LeftToDo, BatchState
  <2>3. CASE Collect
    BY <2>1, <2>3, CollectIsBatch
  <2>4. CASE Complete
    <3>1. /\ UNCHANGED <<step, pending, skipped, newlyAdded, notFound, answered>>
          /\ feeder = "gone" /\ outcomes = <<>> /\ summary = NoSummary
          /\ summary' = [total |-> NumShows, already |-> Cardinality(skipped),
                         added |-> newlyAdded, missing |-> Cardinality(notFound)]
      BY <2>4 DEF Complete, inputs, checkVars, collectorVars
    <3>2. summary' # NoSummary
      <4>1. summary'.total = NumShows /\ NumShows \in Nat /\ NoSummary.total = -1
        BY <3>1, CheckAssumption DEF NoSummary
      <4> QED
        BY <4>1
    <3>3. LeftToDo = {}
      BY <2>1, <3>1, PoolEnds DEF LeftToDo, Elems, total
    <3>4. LeftToDo' = LeftToDo /\ BatchState = "import" /\ BatchState' = "over"
      BY <2>1, <3>1, <3>2 DEF LeftToDo, BatchState, total
    <3>5. Batch!End
      BY <3>1, <3>3, <3>4 DEF Batch!End, LeftToDo, BatchState
    <3> QED
      BY <3>5 DEF Batch!Next
  <2> QED
    BY <1>3, <2>2, <2>3, <2>4 DEF ImportNext
<1>4. CASE UNCHANGED vars
  <2>1. UNCHANGED <<step, pending, skipped, newlyAdded, notFound, answered, summary>>
    BY <1>4 DEF vars, checkVars, importVars, collectorVars
  <2>2. LeftToDo' = LeftToDo /\ BatchState' = BatchState
    BY <2>1 DEF LeftToDo, BatchState, total
  <2> QED
    BY <2>1, <2>2 DEF Batch!vars, LeftToDo, BatchState
<1> QED
  BY <1>1, <1>2, <1>3, <1>4 DEF Next

(* The check and import steps implement ImportBatch: every show of TV Time   *)
(* is answered for once, as skipped, added or not found, and the migration   *)
(* is over only then.  (That it comes to this is liveness, and left to TLC.) *)
THEOREM ImplementsImportBatchSafely == Spec => Batch!Init /\ [][Batch!Next]_Batch!vars
<1>1. PoolInv /\ PoolInv' /\ [Next]_vars => [Batch!Next]_Batch!vars
  BY StepIsBatch
<1> QED
  BY <1>1, InitIsBatch, PoolsKeepTheirBooks, PTL DEF Spec

================================================================================
