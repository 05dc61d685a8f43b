--------------------------- MODULE ExportSaveProofs ---------------------------
(***************************************************************************)
(* Theorems about ExportSave, for any finite set of exports, any lists of  *)
(* shows and of episodes, and every size of the pool.  The invariant says  *)
(* that the rows of a transaction reflect the shows inserted so far, and   *)
(* those of the database, if there are any, all of them; and a second one  *)
(* whose titles the catalogue holds.                                       *)
(***************************************************************************)
EXTENDS ExportSave, FiniteSetTheorems, TLAPS

(* The rows reflect the first n shows of a list: each show as the     *)
(* last place that names it, and each episode as the last that tells of it.  *)
ReflectsShow(list, n, s, shown) ==
    /\ shown.from \in 1..n /\ list[shown.from] = s
    /\ \A i \in 1..n : list[i] = s => i <= shown.from

ReflectsEpisodes(list, n, s, eps) ==
    /\ \A key \in DOMAIN eps :
          /\ eps[key] \in (1..n) \X Nat
          /\ list[eps[key][1]] = s /\ eps[key][2] \in PlacesOf(eps[key][1], key)
    /\ \A i \in 1..n : list[i] = s =>
          \A key : \A k \in PlacesOf(i, key) :
              key \in DOMAIN eps /\ NotBefore(eps[key], <<i, k>>)

Reflects(list, n, rowsNow) ==
    /\ DOMAIN rowsNow = {list[i] : i \in 1..n}
    /\ \A s \in DOMAIN rowsNow : /\ ReflectsShow(list, n, s, rowsNow[s])
                                 /\ ReflectsEpisodes(list, n, s, rowsNow[s].episodes)

Inserting == {"lookup", "upsert", "locking", "persist", "insert"}

Types ==
    /\ limit \in 1..256
    /\ shows \in [Exports -> ShowLists]
    /\ at \in [Exports -> Places]
    /\ done \in [Exports -> Nat]
    /\ written = [e \in Exports |-> written[e]] /\ stored = [e \in Exports |-> stored[e]]
    /\ InCatalog \subseteq Series \cup {Unknown}
    /\ status \in [Exports -> Statuses]
    /\ refused \in [Exports -> BOOLEAN] /\ crashed \in BOOLEAN

(* Where the goroutine of an export stands, it has inserted so many shows.   *)
Progress(e) ==
    /\ done[e] <= Len(shows[e])
    /\ at[e] \in {"idle", "mark", "fetch", "begin"} => done[e] = 0
    /\ at[e] \in Inserting => done[e] < Len(shows[e])
    /\ at[e] = "commit" => done[e] = Len(shows[e])

(* What the transaction of an export has written, and what it has left.      *)
Wrote(e) ==
    /\ at[e] \in InTransaction => Reflects(shows[e], done[e], written[e])
    /\ at[e] \notin InTransaction => written[e] = NoRows

Stored(e) ==
    /\ stored[e] = NoRows \/ Reflects(shows[e], Len(shows[e]), stored[e])
    /\ at[e] = "complete" \/ status[e] = "completed" => Reflects(shows[e], Len(shows[e]), stored[e])

Catalogued(e) ==
    /\ at[e] \in {"persist", "insert"} => Current(e) \in InCatalog
    /\ DOMAIN stored[e] \cup DOMAIN written[e] \subseteq InCatalog

Reported(e) == at[e] = "gone" => status[e] \in {"completed", "failed"} \/ refused[e]

Transactions == {e \in Exports : at[e] \in InTransaction}
Upserts == {e \in Exports : at[e] = "locking"}

Held ==
    /\ inUse \in 0..limit
    /\ inUse = Cardinality(Transactions) + Cardinality(Upserts)

SaveInv ==
    /\ Types /\ Held
    /\ \A e \in Exports : Progress(e) /\ Wrote(e) /\ Stored(e) /\ Catalogued(e) /\ Reported(e)

--------------------------------------------------------------------------------
(* The greatest of some numbers *)

LEMMA GreatestExists ==
    ASSUME NEW S \in SUBSET Nat, S # {}, NEW n \in Nat, \A x \in S : x <= n
    PROVE  \E x \in S : \A y \in S : y <= x
<1> DEFINE T == {n - x : x \in S}
           R == OpToRel(<, Nat)
<1>1. T \subseteq Nat /\ T # {}
  <2>1. \A x \in S : n - x \in Nat
    BY SMT
  <2> QED
    BY <2>1
<1>2. \E t \in T : \A u \in T : ~(<<u, t>> \in R)
  <2>1. IsWellFoundedOn(R, Nat)
    BY NatLessThanWellFounded
  <2> HIDE DEF T, R
  <2> QED
    BY <1>1, <2>1, WFMin
<1>3. PICK t \in T : \A u \in T : ~(<<u, t>> \in R)
  BY <1>2
<1>4. \A u \in T : t <= u
  <2> SUFFICES ASSUME NEW u \in T PROVE t <= u
    OBVIOUS
  <2>1. t \in Nat /\ u \in Nat
    BY <1>1
  <2>2. <<u, t>> \in R <=> u < t
    BY <2>1 DEF OpToRel
  <2>3. <<u, t>> \notin R
    BY <1>3
  <2> HIDE DEF T, R
  <2> QED
    BY <2>1, <2>2, <2>3
<1>5. PICK x \in S : t = n - x
  OBVIOUS
<1>6. \A y \in S : y <= x
  <2> SUFFICES ASSUME NEW y \in S PROVE y <= x
    OBVIOUS
  <2>1. t <= n - y
    BY <1>4
  <2> QED
    BY <1>5, <2>1
<1> QED
  BY <1>6

LEMMA MaxIs ==
    ASSUME NEW S \in SUBSET Nat, NEW m \in S, \A x \in S : x <= m
    PROVE  Max(S) = m
<1>1. \A x \in S : m >= x
  BY SMT
<1> DEFINE max == Max(S)
<1>2. max \in S /\ \A x \in S : max >= x
  BY <1>1 DEF Max
<1> HIDE DEF max
<1>3. max \in Nat /\ m \in Nat /\ max <= m /\ max >= m
  BY <1>2
<1>4. max = m
  BY <1>3
<1> QED
  BY <1>4 DEF max

LEMMA MinIs ==
    ASSUME NEW S \in SUBSET Nat, NEW m \in S, \A x \in S : m <= x
    PROVE  Min(S) = m
<1> DEFINE min == Min(S)
<1>1. min \in S /\ \A x \in S : min <= x
  BY DEF Min
<1> HIDE DEF min
<1>2. min \in Nat /\ m \in Nat /\ min <= m /\ m <= min
  BY <1>1
<1>3. min = m
  BY <1>2
<1> QED
  BY <1>3 DEF min

LEMMA MaxOf ==
    ASSUME NEW S \in SUBSET Nat, S # {}, NEW n \in Nat, \A x \in S : x <= n
    PROVE  Max(S) \in S /\ \A x \in S : x <= Max(S)
<1>1. PICK m \in S : \A x \in S : x <= m
  BY GreatestExists
<1> QED
  BY <1>1, MaxIs

--------------------------------------------------------------------------------
(* The rows of shows and episodes *)

LEMMA NothingReflected ==
    ASSUME NEW list PROVE Reflects(list, 0, NoRows) /\ DOMAIN NoRows = {}
  BY DEF Reflects, NoRows

(* An episode is kept from the last place of its show that tells of it.      *)
LEMMA LastPlace ==
    ASSUME NEW i \in DOMAIN Episodes
    PROVE  LET eps == EpisodeRows(i)
           IN  /\ \A key \in DOMAIN eps : /\ eps[key] \in {i} \X Nat
                                          /\ eps[key][2] \in PlacesOf(i, key)
               /\ \A key : \A k \in PlacesOf(i, key) :
                     key \in DOMAIN eps /\ NotBefore(eps[key], <<i, k>>)
<1> DEFINE eps == EpisodeRows(i)
<1>1. Episodes[i] \in Seq([season : Int, number : Int]) /\ i \in Nat
  BY SaveAssumption
<1>2. \A key : PlacesOf(i, key) \in SUBSET Nat /\ \A k \in PlacesOf(i, key) : k <= Len(Episodes[i])
  BY <1>1 DEF PlacesOf
<1>3. \A key : key \in DOMAIN eps <=> PlacesOf(i, key) # {}
  BY DEF EpisodeRows, PlacesOf
<1>4. \A key \in DOMAIN eps : eps[key] = <<i, Max(PlacesOf(i, key))>>
  BY DEF EpisodeRows
<1>5. ASSUME NEW key, PlacesOf(i, key) # {}
      PROVE  /\ Max(PlacesOf(i, key)) \in PlacesOf(i, key)
             /\ \A k \in PlacesOf(i, key) : k <= Max(PlacesOf(i, key))
  <2>1. Len(Episodes[i]) \in Nat
    BY <1>1
  <2> QED
    BY <1>2, <1>5, <2>1, MaxOf
<1> HIDE DEF eps
<1>6. ASSUME NEW key \in DOMAIN eps
      PROVE  /\ eps[key] \in {i} \X Nat /\ eps[key][2] \in PlacesOf(i, key)
             /\ \A k \in PlacesOf(i, key) : NotBefore(eps[key], <<i, k>>)
  <2> DEFINE max == Max(PlacesOf(i, key))
  <2>1. max \in PlacesOf(i, key) /\ \A k \in PlacesOf(i, key) : k <= max
    BY <1>3, <1>5
  <2>2. max \in Nat /\ eps[key] = <<i, max>>
    BY <1>2, <1>4, <2>1
  <2> HIDE DEF max
  <2>3. ASSUME NEW k \in PlacesOf(i, key) PROVE NotBefore(eps[key], <<i, k>>)
    <3>1. max >= k
      BY <1>2, <2>1, <2>2
    <3> QED
      BY <2>2, <3>1 DEF NotBefore
  <2> QED
    BY <1>1, <2>1, <2>2, <2>3
<1> QED
  BY <1>3, <1>6 DEF eps

LEMMA OverIs ==
    ASSUME NEW new, NEW old
    PROVE  /\ DOMAIN Over(new, old) = DOMAIN new \cup DOMAIN old
           /\ \A key \in DOMAIN new : Over(new, old)[key] = new[key]
           /\ \A key \in DOMAIN old \ DOMAIN new : Over(new, old)[key] = old[key]
  BY DEF Over

(* A show that is written with its episodes is reflected with the others.    *)
LEMMA OneMoreReflected ==
    ASSUME NEW list, NEW n \in Nat, NEW w, Reflects(list, n, w), n + 1 \in DOMAIN Episodes
    PROVE  Reflects(list, n + 1, SaveShow(w, list[n + 1], n + 1))
<1> DEFINE m == n + 1
           cur == list[m]
           old == OldEpisodes(w, cur)
           eps == Over(EpisodeRows(m), old)
           next == SaveShow(w, cur, m)
<1>1. /\ DOMAIN next = DOMAIN w \cup {cur} /\ next[cur] = [from |-> m, episodes |-> eps]
      /\ \A t \in DOMAIN w \ {cur} : next[t] = w[t]
  <2> DEFINE show == [from |-> m, episodes |-> eps]
  <2>1. next = WithRow(w, cur, show)
    BY DEF SaveShow
  <2> HIDE DEF next, show, cur
  <2>2. /\ DOMAIN next = DOMAIN w \cup {cur} /\ next[cur] = show
        /\ \A t \in DOMAIN w \ {cur} : next[t] = w[t]
    BY <2>1, Zenon DEF WithRow
  <2> QED
    BY <2>2 DEF show
<1>2. /\ DOMAIN eps = DOMAIN EpisodeRows(m) \cup DOMAIN old
      /\ \A key \in DOMAIN EpisodeRows(m) : eps[key] = EpisodeRows(m)[key]
      /\ \A key \in DOMAIN old \ DOMAIN EpisodeRows(m) : eps[key] = old[key]
  BY OverIs
<1>3. /\ m \in Nat /\ 1..m = (1..n) \cup {m} /\ m \notin 1..n /\ \A i \in 1..n : i <= m /\ i < m
      /\ m \in 1..m /\ m = n + 1
  OBVIOUS
<1>4. /\ \A key \in DOMAIN EpisodeRows(m) : /\ EpisodeRows(m)[key] \in {m} \X Nat
                                            /\ EpisodeRows(m)[key][2] \in PlacesOf(m, key)
      /\ \A key : \A k \in PlacesOf(m, key) :
            key \in DOMAIN EpisodeRows(m) /\ NotBefore(EpisodeRows(m)[key], <<m, k>>)
  BY LastPlace
<1>5. ReflectsEpisodes(list, n, cur, old)
  <2>1. CASE cur \in DOMAIN w
    BY <2>1 DEF Reflects, OldEpisodes
  <2>2. CASE cur \notin DOMAIN w
    BY <2>2 DEF Reflects, OldEpisodes, ReflectsEpisodes
  <2> QED
    BY <2>1, <2>2
<1> HIDE DEF eps, old, next
<1> USE DEF cur
<1> HIDE DEF m
<1>6. DOMAIN next = {list[i] : i \in 1..m}
  BY <1>1, <1>3 DEF Reflects
<1>7. ASSUME NEW t \in DOMAIN next, t # cur
      PROVE  ReflectsShow(list, m, t, next[t]) /\ ReflectsEpisodes(list, m, t, next[t].episodes)
  <2>1. t \in DOMAIN w /\ next[t] = w[t]
    BY <1>1, <1>7
  <2>2. ReflectsShow(list, n, t, w[t]) /\ ReflectsEpisodes(list, n, t, w[t].episodes)
    BY <2>1 DEF Reflects
  <2>3. list[m] # t
    BY <1>7
  <2>4. ReflectsShow(list, m, t, w[t])
    BY <1>3, <2>2, <2>3 DEF ReflectsShow
  <2>5. ReflectsEpisodes(list, m, t, w[t].episodes)
    BY <1>3, <2>2, <2>3 DEF ReflectsEpisodes
  <2> QED
    BY <2>1, <2>4, <2>5
<1>8. ReflectsShow(list, m, cur, next[cur])
  BY <1>1, <1>3 DEF ReflectsShow
<1>9. ReflectsEpisodes(list, m, cur, eps)
  <2>1. ASSUME NEW key \in DOMAIN eps
        PROVE  /\ eps[key] \in (1..m) \X Nat /\ list[eps[key][1]] = cur
               /\ eps[key][2] \in PlacesOf(eps[key][1], key)
    <3>1. CASE key \in DOMAIN EpisodeRows(m)
      BY <1>2, <1>3, <1>4, <3>1
    <3>2. CASE key \in DOMAIN old \ DOMAIN EpisodeRows(m)
      BY <1>2, <1>3, <1>5, <3>2 DEF ReflectsEpisodes
    <3> QED
      BY <1>2, <2>1, <3>1, <3>2
  <2>2. ASSUME NEW i \in 1..m, list[i] = cur, NEW key, NEW k \in PlacesOf(i, key)
        PROVE  key \in DOMAIN eps /\ NotBefore(eps[key], <<i, k>>)
    <3>1. CASE key \in DOMAIN EpisodeRows(m) /\ i = m
      BY <1>2, <1>4, <2>2, <3>1
    <3>2. CASE key \in DOMAIN EpisodeRows(m) /\ i # m
      <4>1. i < m /\ eps[key][1] = m
        BY <1>2, <1>3, <1>4, <3>2
      <4> QED
        BY <1>2, <1>3, <3>2, <4>1 DEF NotBefore
    <3>3. CASE key \notin DOMAIN EpisodeRows(m)
      <4>1. i \in 1..n
        BY <1>3, <1>4, <2>2, <3>3
      <4>2. key \in DOMAIN old /\ NotBefore(old[key], <<i, k>>)
        BY <1>5, <2>2, <4>1 DEF ReflectsEpisodes
      <4> QED
        BY <1>2, <3>3, <4>2
    <3> QED
      BY <3>1, <3>2, <3>3
  <2> QED
    BY <2>1, <2>2 DEF ReflectsEpisodes
<1>10. Reflects(list, m, next)
  <2>1. next[cur].episodes = eps
    BY <1>1
  <2>2. \A t \in DOMAIN next : ReflectsShow(list, m, t, next[t]) /\ ReflectsEpisodes(list, m, t, next[t].episodes)
    BY <1>7, <1>8, <1>9, <2>1
  <2> QED
    BY <1>6, <2>2 DEF Reflects
<1> QED
  BY <1>10 DEF m, next

--------------------------------------------------------------------------------
(* The connections *)

(* How many connections an export holds where it stands.                     *)
Holds(place) ==
    IF place = "locking" THEN 2 ELSE IF place \in InTransaction THEN 1 ELSE 0

LEMMA OneMember ==
    ASSUME NEW S, IsFiniteSet(S), NEW T, NEW x, T \ {x} = S \ {x}
    PROVE  /\ IsFiniteSet(T) /\ Cardinality(S) \in Nat /\ Cardinality(T) \in Nat
           /\ x \in S => Cardinality(S) >= 1
           /\ Cardinality(T) = Cardinality(S) + (IF x \in T THEN 1 ELSE 0)
                                              - (IF x \in S THEN 1 ELSE 0)
<1> DEFINE R == S \ {x}
<1>1. IsFiniteSet(R) /\ Cardinality(R) \in Nat /\ x \notin R
  BY FS_RemoveElement, FS_CardinalityType
<1>2. /\ IsFiniteSet(R \cup {x}) /\ Cardinality(R \cup {x}) = Cardinality(R) + 1
  BY <1>1, FS_AddElement
<1>3. \A U : U \ {x} = R => U = R \/ (U = R \cup {x})
  OBVIOUS
<1>4. ASSUME NEW U, U \ {x} = R
      PROVE  /\ IsFiniteSet(U) /\ Cardinality(U) \in Nat
             /\ Cardinality(U) = Cardinality(R) + (IF x \in U THEN 1 ELSE 0)
  <2> HIDE DEF R
  <2>1. CASE x \in U
    <3>1. U = R \cup {x}
      BY <1>1, <1>3, <1>4, <2>1
    <3> QED
      BY <1>1, <1>2, <2>1, <3>1
  <2>2. CASE x \notin U
    <3>1. U = R
      BY <1>3, <1>4, <2>2
    <3> QED
      BY <1>1, <2>2, <3>1
  <2> QED
    BY <2>1, <2>2
<1>5. S \ {x} = R /\ T \ {x} = R
  OBVIOUS
<1> HIDE DEF R
<1> QED
  BY <1>1, <1>4, <1>5

(* An export that goes on takes, or gives back, what its place asks for.     *)
LEMMA HeldStays ==
    ASSUME Types, Held, NEW e \in Exports, NEW to, at' = [at EXCEPT ![e] = to],
           inUse' = inUse + Holds(to) - Holds(at[e]), inUse' <= limit', limit' = limit
    PROVE  Held'
<1>1. /\ at \in [Exports -> Places] /\ at'[e] = to
      /\ \A d \in Exports \ {e} : at'[d] = at[d]
  BY DEF Types
<1>2. IsFiniteSet(Transactions) /\ IsFiniteSet(Upserts)
  BY SaveAssumption, FS_Subset DEF Transactions, Upserts
<1>3. /\ Transactions' \ {e} = Transactions \ {e} /\ Upserts' \ {e} = Upserts \ {e}
      /\ (e \in Transactions) <=> (at[e] \in InTransaction)
      /\ (e \in Transactions') <=> (to \in InTransaction)
      /\ (e \in Upserts) <=> (at[e] = "locking")
      /\ (e \in Upserts') <=> (to = "locking")
  BY <1>1 DEF Transactions, Upserts
<1> DEFINE tx == Cardinality(Transactions)
           ups == Cardinality(Upserts)
           In(place) == IF place \in InTransaction THEN 1 ELSE 0
           Up(place) == IF place = "locking" THEN 1 ELSE 0
<1>4. /\ tx \in Nat /\ tx' \in Nat /\ tx' = tx + In(to) - In(at[e])
  BY <1>2, <1>3, OneMember
<1>5. /\ ups \in Nat /\ ups' \in Nat /\ ups' = ups + Up(to) - Up(at[e])
  BY <1>2, <1>3, OneMember
<1>6. \A place : Holds(place) = In(place) + Up(place)
  BY DEF Holds, InTransaction
<1>7. inUse = tx + ups
  BY DEF Held
<1>8. limit \in Int
  BY DEF Types
<1> HIDE DEF tx, ups
<1>9. \A place : In(place) \in Int /\ Up(place) \in Int
  OBVIOUS
<1> HIDE DEF In, Up
<1>10. inUse' = tx' + ups' /\ inUse' \in 0..limit'
  <2>1. inUse' = tx' + ups'
    BY <1>4, <1>5, <1>6, <1>7, <1>9
  <2> QED
    BY <1>4, <1>5, <1>8, <2>1
<1> QED
  BY <1>10 DEF Held, tx, ups

--------------------------------------------------------------------------------
(* The steps of one export *)

(* What the other exports have is not changed.                               *)
OthersStay(e) ==
    \A d \in Exports \ {e} :
        /\ at'[d] = at[d] /\ done'[d] = done[d] /\ written'[d] = written[d]
        /\ stored'[d] = stored[d] /\ status'[d] = status[d] /\ refused'[d] = refused[d]

ExportInv(e) == Progress(e) /\ Wrote(e) /\ Stored(e) /\ Catalogued(e) /\ Reported(e)

LEMMA OtherStays ==
    ASSUME NEW d, ExportInv(d), UNCHANGED shows, InCatalog \subseteq InCatalog',
           at'[d] = at[d], done'[d] = done[d], written'[d] = written[d],
           stored'[d] = stored[d], status'[d] = status[d], refused'[d] = refused[d]
    PROVE  ExportInv(d)'
<1>1. Progress(d)' /\ Reported(d)'
  BY DEF ExportInv, Progress, Reported
<1>2. Wrote(d)'
  BY DEF ExportInv, Wrote
<1>3. Stored(d)'
  BY DEF ExportInv, Stored
<1>4. Catalogued(d)'
  BY DEF ExportInv, Catalogued, Current
<1> QED
  BY <1>1, <1>2, <1>3, <1>4 DEF ExportInv

LEMMA OneMoves ==
    ASSUME SaveInv, NEW e \in Exports, NEW to, at' = [at EXCEPT ![e] = to], Types',
           UNCHANGED <<limit, shows>>, InCatalog \subseteq InCatalog', OthersStay(e),
           inUse' = inUse + Holds(to) - Holds(at[e]), inUse' <= limit, ExportInv(e)'
    PROVE  SaveInv'
<1>1. Held'
  BY HeldStays DEF SaveInv
<1>2. \A d \in Exports \ {e} : ExportInv(d)'
  BY OtherStays DEF SaveInv, OthersStay, ExportInv
<1>3. \A d \in Exports : ExportInv(d)'
  BY <1>2
<1> QED
  BY <1>1, <1>3 DEF SaveInv, ExportInv

(* Where an export may stand with what it has inserted and what the          *)
(* catalogue has.                                                            *)
MayStand(e, to) ==
    /\ to \in {"idle", "mark", "fetch", "begin"} => done[e] = 0
    /\ to \in Inserting => done[e] < Len(shows[e])
    /\ to = "commit" => done[e] = Len(shows[e])
    /\ to \in {"persist", "insert"} => Current(e) \in InCatalog'

(* A step that writes nothing, and neither begins nor ends a transaction.    *)
LEMMA Quiet ==
    ASSUME SaveInv, NEW e \in Exports, NEW to \in Places, at' = [at EXCEPT ![e] = to],
           UNCHANGED <<limit, shows, done, written, stored, crashed>>,
           InCatalog \subseteq InCatalog', InCatalog' \subseteq Series \cup {Unknown},
           \A d \in Exports \ {e} : status'[d] = status[d] /\ refused'[d] = refused[d],
           status' \in [Exports -> Statuses], refused' \in [Exports -> BOOLEAN],
           inUse' = inUse + Holds(to) - Holds(at[e]), inUse' <= limit,
           (to \in InTransaction) <=> (at[e] \in InTransaction), MayStand(e, to),
           to = "complete" \/ status'[e] = "completed" =>
               Reflects(shows[e], Len(shows[e]), stored[e]),
           Reported(e)'
    PROVE  SaveInv'
<1>1. Types /\ ExportInv(e) /\ at \in [Exports -> Places]
  BY DEF SaveInv, ExportInv, Types
<1>2. at'[e] = to /\ at' \in [Exports -> Places] /\ \A d \in Exports \ {e} : at'[d] = at[d]
  BY <1>1
<1>3. Types'
  BY <1>1, <1>2 DEF Types
<1>4. OthersStay(e)
  BY <1>2 DEF OthersStay
<1>5. Progress(e)'
  BY <1>1, <1>2 DEF ExportInv, Progress, MayStand
<1>6. Wrote(e)'
  BY <1>1, <1>2 DEF ExportInv, Wrote
<1>7. Stored(e)'
  BY <1>1, <1>2 DEF ExportInv, Stored
<1>8. Catalogued(e)'
  BY <1>1, <1>2 DEF ExportInv, Catalogued, Current, MayStand
<1> QED
  BY <1>3, <1>4, <1>5, <1>6, <1>7, <1>8, OneMoves DEF ExportInv

(* The place of an export says what it holds.                                *)
LEMMA HoldsAt ==
    /\ \A place \in InTransaction \ {"locking"} : Holds(place) = 1
    /\ \A place : place \notin InTransaction => Holds(place) = 0
    /\ Holds("locking") = 2
    /\ Inserting \cup {"commit", "rollback"} = InTransaction
  BY DEF Holds, InTransaction, Inserting

LEMMA SaveTypes ==
    ASSUME SaveInv, NEW e \in Exports
    PROVE  /\ at \in [Exports -> Places] /\ limit \in 1..256 /\ inUse \in 0..limit
           /\ inUse \in Nat /\ limit \in Nat
           /\ status \in [Exports -> Statuses] /\ refused \in [Exports -> BOOLEAN]
           /\ InCatalog \subseteq Series \cup {Unknown} /\ crashed \in BOOLEAN
           /\ shows[e] \in Seq(Series \cup {Unknown}) /\ Len(shows[e]) <= Len(Episodes)
           /\ Len(shows[e]) \in Nat /\ done \in [Exports -> Nat] /\ done[e] \in Nat
           /\ ExportInv(e)
<1>1. shows[e] \in ShowLists
  BY DEF SaveInv, Types
<1>2. shows[e] \in Seq(Series \cup {Unknown}) /\ Len(shows[e]) <= Len(Episodes)
  BY <1>1, SaveAssumption
<1>3. Len(shows[e]) \in Nat
  BY <1>2
<1>4. inUse \in Nat /\ limit \in Nat /\ done[e] \in Nat
  BY DEF SaveInv, Types, Held
<1> QED
  BY <1>2, <1>3, <1>4 DEF SaveInv, Types, Held, ExportInv

LEMMA SetStatusInv ==
    ASSUME SaveInv, NEW e \in Exports, NEW from, NEW st \in Statuses, NEW to \in Places,
           SetStatus(e, from, st, to), from \notin InTransaction, to \notin InTransaction,
           MayStand(e, to), st = "completed" => Reflects(shows[e], Len(shows[e]), stored[e]),
           to # "complete", to = "gone" => st \in {"completed", "failed"}
    PROVE  SaveInv'
<1>1. /\ at[e] = from /\ at' = [at EXCEPT ![e] = to] /\ status' = [status EXCEPT ![e] = st]
      /\ UNCHANGED <<limit, shows, done, written, stored, InCatalog, refused, crashed, inUse>>
  BY DEF SetStatus, OnPool, Go, InCatalog
<1>2. /\ status \in [Exports -> Statuses] /\ refused \in [Exports -> BOOLEAN]
      /\ InCatalog \subseteq Series \cup {Unknown} /\ inUse \in 0..limit /\ inUse \in Nat
      /\ at \in [Exports -> Places] /\ limit \in Nat
  BY SaveTypes
<1>3. /\ status' \in [Exports -> Statuses] /\ status'[e] = st /\ at'[e] = to
      /\ \A d \in Exports \ {e} : status'[d] = status[d] /\ refused'[d] = refused[d]
  BY <1>1, <1>2
<1>4. inUse' = inUse + Holds(to) - Holds(at[e]) /\ inUse' <= limit
  <2>1. Holds(to) = 0 /\ Holds(at[e]) = 0
    BY <1>1, HoldsAt
  <2> QED
    BY <1>1, <1>2, <2>1
<1>5. Reported(e)'
  BY <1>3 DEF Reported
<1> QED
  BY <1>1, <1>2, <1>3, <1>4, <1>5, Quiet

LEMMA StatusInv ==
    ASSUME SaveInv, NEW e \in Exports,
           Create(e) \/ MarkRunning(e) \/ MarkCompleted(e) \/ MarkFailed(e)
    PROVE  SaveInv'
<1>1. /\ at \in [Exports -> Places] /\ ExportInv(e)
      /\ {"pending", "running", "completed", "failed"} \subseteq Statuses
      /\ {"mark", "fetch", "gone"} \subseteq Places
      /\ \A place \in {"idle", "mark", "fetch", "gone", "complete", "fail"} : place \notin InTransaction
  BY SaveTypes DEF Statuses, Places, InTransaction
<1>2. CASE Create(e)
  <2>1. SetStatus(e, "idle", "pending", "mark") /\ MayStand(e, "mark")
    BY <1>1, <1>2 DEF Create, SetStatus, MayStand, Inserting, ExportInv, Progress
  <2> QED
    BY <1>1, <2>1, SetStatusInv
<1>3. CASE MarkRunning(e)
  <2>1. SetStatus(e, "mark", "running", "fetch") /\ MayStand(e, "fetch")
    BY <1>1, <1>3 DEF MarkRunning, SetStatus, MayStand, Inserting, ExportInv, Progress
  <2> QED
    BY <1>1, <2>1, SetStatusInv
<1>4. CASE MarkCompleted(e)
  <2>1. /\ SetStatus(e, "complete", "completed", "gone") /\ MayStand(e, "gone")
        /\ Reflects(shows[e], Len(shows[e]), stored[e])
    BY <1>1, <1>4 DEF MarkCompleted, SetStatus, MayStand, Inserting, ExportInv, Stored
  <2> QED
    BY <1>1, <2>1, SetStatusInv
<1>5. CASE MarkFailed(e)
  <2>1. SetStatus(e, "fail", "failed", "gone") /\ MayStand(e, "gone")
    BY <1>1, <1>5 DEF MarkFailed, MayStand, Inserting
  <2> QED
    BY <1>1, <2>1, SetStatusInv
<1> QED
  BY <1>2, <1>3, <1>4, <1>5

(* A step of one export that changes no status.                              *)
LEMMA Silent ==
    ASSUME SaveInv, NEW e \in Exports, NEW to \in Places \ {"gone", "complete"},
           at' = [at EXCEPT ![e] = to],
           UNCHANGED <<limit, shows, done, written, stored, status, refused, crashed>>,
           InCatalog \subseteq InCatalog', InCatalog' \subseteq Series \cup {Unknown},
           inUse' = inUse + Holds(to) - Holds(at[e]), inUse' <= limit,
           (to \in InTransaction) <=> (at[e] \in InTransaction), MayStand(e, to)
    PROVE  SaveInv'
<1>1. /\ status \in [Exports -> Statuses] /\ refused \in [Exports -> BOOLEAN]
      /\ at \in [Exports -> Places] /\ ExportInv(e)
  BY SaveTypes
<1>2. /\ status' \in [Exports -> Statuses] /\ refused' \in [Exports -> BOOLEAN]
      /\ \A d \in Exports \ {e} : status'[d] = status[d] /\ refused'[d] = refused[d]
      /\ status'[e] = status[e]
  BY <1>1
<1>3. status'[e] = "completed" => Reflects(shows[e], Len(shows[e]), stored[e])
  BY <1>1, <1>2 DEF ExportInv, Stored
<1>4. at'[e] = to
  BY <1>1
<1>5. Reported(e)'
  BY <1>4 DEF Reported
<1> QED
  BY <1>2, <1>3, <1>5, Quiet

LEMMA StatusRefusedInv ==
    ASSUME SaveInv, NEW e \in Exports, StatusRefused(e)
    PROVE  SaveInv'
<1>1. /\ at[e] \in {"mark", "complete", "fail"} /\ at' = [at EXCEPT ![e] = "gone"]
      /\ refused' = [refused EXCEPT ![e] = TRUE]
      /\ UNCHANGED <<limit, shows, done, inUse, written, stored, InCatalog, status, crashed>>
  BY DEF StatusRefused, Go, rows, InCatalog
<1>2. /\ status \in [Exports -> Statuses] /\ refused \in [Exports -> BOOLEAN]
      /\ InCatalog \subseteq Series \cup {Unknown} /\ inUse \in 0..limit /\ inUse \in Nat
      /\ at \in [Exports -> Places] /\ limit \in Nat /\ ExportInv(e)
  BY SaveTypes
<1>3. /\ "gone" \in Places /\ "gone" \notin InTransaction /\ at[e] \notin InTransaction
      /\ MayStand(e, "gone")
  BY <1>1 DEF Places, InTransaction, MayStand, Inserting
<1>4. inUse' = inUse + Holds("gone") - Holds(at[e]) /\ inUse' <= limit
  <2>1. Holds("gone") = 0 /\ Holds(at[e]) = 0
    BY <1>3, HoldsAt
  <2> QED
    BY <1>1, <1>2, <2>1
<1>5. refused' \in [Exports -> BOOLEAN] /\ refused'[e] /\ status'[e] = status[e]
      /\ \A d \in Exports \ {e} : status'[d] = status[d] /\ refused'[d] = refused[d]
  BY <1>1, <1>2
<1>6. status'[e] = "completed" => Reflects(shows[e], Len(shows[e]), stored[e])
  BY <1>2, <1>5 DEF ExportInv, Stored
<1>7. Reported(e)'
  BY <1>5 DEF Reported
<1> QED
  BY <1>1, <1>2, <1>3, <1>4, <1>5, <1>6, <1>7, Quiet

LEMMA BeforeInv ==
    ASSUME SaveInv, NEW e \in Exports, Fetched(e) \/ BeginRefused(e)
    PROVE  SaveInv'
<1>1. PICK to \in {"begin", "fail"} :
          /\ at[e] \in {"fetch", "begin"} /\ at' = [at EXCEPT ![e] = to]
          /\ UNCHANGED <<limit, shows, done, inUse, written, stored, InCatalog, status, refused, crashed>>
  BY DEF Fetched, BeginRefused, Go, rows, InCatalog
<1>2. /\ InCatalog \subseteq Series \cup {Unknown} /\ inUse \in 0..limit /\ inUse \in Nat
      /\ limit \in Nat /\ ExportInv(e)
  BY SaveTypes
<1>3. to \in Places \ {"gone", "complete"} /\ to \notin InTransaction /\ at[e] \notin InTransaction
  BY <1>1 DEF Places, InTransaction
<1>4. MayStand(e, to)
  BY <1>1, <1>2 DEF MayStand, Inserting, ExportInv, Progress
<1>5. inUse' = inUse + Holds(to) - Holds(at[e]) /\ inUse' <= limit
  <2>1. Holds(to) = 0 /\ Holds(at[e]) = 0
    BY <1>3, HoldsAt
  <2> QED
    BY <1>1, <1>2, <2>1
<1> QED
  BY <1>1, <1>2, <1>3, <1>4, <1>5, Silent

(* A step within the transaction that leaves it open.                        *)
LEMMA Within ==
    ASSUME SaveInv, NEW e \in Exports, NEW to \in Inserting \cup {"rollback"},
           at[e] \in Inserting, at' = [at EXCEPT ![e] = to],
           UNCHANGED <<limit, shows, done, written, stored, status, refused, crashed>>,
           InCatalog \subseteq InCatalog', InCatalog' \subseteq Series \cup {Unknown},
           inUse' = inUse + Holds(to) - Holds(at[e]), inUse' <= limit,
           to \in {"persist", "insert"} => Current(e) \in InCatalog'
    PROVE  SaveInv'
<1>1. ExportInv(e)
  BY SaveTypes
<1>2. /\ to \in Places \ {"gone", "complete"} /\ to \in InTransaction /\ at[e] \in InTransaction
  BY DEF Inserting, InTransaction, Places
<1>3. MayStand(e, to)
  BY <1>1 DEF MayStand, Inserting, ExportInv, Progress
<1> QED
  BY <1>2, <1>3, Silent

LEMMA ensureShowRecordInv ==
    ASSUME SaveInv, NEW e \in Exports, ensureShowRecord(e)
    PROVE  SaveInv'
<1>1. PICK to \in {"upsert", "persist", "insert"} :
          /\ at[e] = "lookup" /\ at' = [at EXCEPT ![e] = to]
          /\ to \in {"persist", "insert"} => Current(e) \in InCatalog
          /\ UNCHANGED <<limit, shows, done, inUse, written, stored, InCatalog, status, refused, crashed>>
  BY DEF ensureShowRecord, Go, OnPool, rows, InCatalog
<1>2. /\ InCatalog \subseteq Series \cup {Unknown} /\ inUse \in 0..limit /\ inUse \in Nat /\ limit \in Nat
  BY SaveTypes
<1>3. inUse' = inUse + Holds(to) - Holds(at[e]) /\ inUse' <= limit
  <2>1. Holds(to) = 1 /\ Holds(at[e]) = 1
    BY <1>1 DEF Holds, InTransaction
  <2> QED
    BY <1>1, <1>2, <2>1
<1>4. to \in Inserting \cup {"rollback"} /\ at[e] \in Inserting
  BY <1>1 DEF Inserting
<1> QED
  BY <1>1, <1>2, <1>3, <1>4, Within

LEMMA UpsertConnectionInv ==
    ASSUME SaveInv, NEW e \in Exports, UpsertConnection(e)
    PROVE  SaveInv'
<1>1. /\ at[e] = "upsert" /\ at' = [at EXCEPT ![e] = "locking"]
      /\ inUse < limit /\ inUse' = inUse + 1
      /\ UNCHANGED <<limit, shows, done, written, stored, InCatalog, status, refused, crashed>>
  BY DEF UpsertConnection, Go, rows, InCatalog
<1>2. /\ InCatalog \subseteq Series \cup {Unknown} /\ inUse \in 0..limit /\ inUse \in Nat /\ limit \in Nat
  BY SaveTypes
<1>3. inUse' = inUse + Holds("locking") - Holds(at[e]) /\ inUse' <= limit
  <2>1. Holds("locking") = 2 /\ Holds(at[e]) = 1
    BY <1>1 DEF Holds, InTransaction
  <2> QED
    BY <1>1, <1>2, <2>1
<1>4. "locking" \in Inserting \cup {"rollback"} /\ at[e] \in Inserting
  BY <1>1 DEF Inserting
<1> QED
  BY <1>1, <1>2, <1>3, <1>4, Within

LEMMA upsertInv ==
    ASSUME SaveInv, NEW e \in Exports, upsert(e)
    PROVE  SaveInv'
<1>1. PICK to \in {"persist", "insert"} :
          /\ at[e] = "locking" /\ at' = [at EXCEPT ![e] = to]
          /\ InCatalog' = InCatalog \cup {Current(e)} /\ inUse' = inUse - 1
          /\ UNCHANGED <<limit, shows, done, written, stored, status, refused, crashed>>
  BY DEF upsert, Go, InCatalog, WithRow
<1>2. /\ InCatalog \subseteq Series \cup {Unknown} /\ inUse \in 0..limit /\ inUse \in Nat /\ limit \in Nat
      /\ shows[e] \in Seq(Series \cup {Unknown}) /\ done[e] \in Nat /\ ExportInv(e)
      /\ Len(shows[e]) \in Nat
  BY SaveTypes
<1>3. inUse' = inUse + Holds(to) - Holds(at[e]) /\ inUse' <= limit
  <2>1. Holds(to) = 1 /\ Holds(at[e]) = 2
    BY <1>1 DEF Holds, InTransaction
  <2> QED
    BY <1>1, <1>2, <2>1
<1>4. to \in Inserting \cup {"rollback"} /\ at[e] \in Inserting
  BY <1>1 DEF Inserting
<1>5. InCatalog \subseteq InCatalog' /\ Current(e) \in InCatalog' /\ InCatalog' \subseteq Series \cup {Unknown}
  <2>1. done[e] + 1 \in 1..Len(shows[e])
    BY <1>2, <1>4 DEF ExportInv, Progress
  <2>2. Current(e) \in Series \cup {Unknown}
    BY <1>2, <2>1 DEF Current
  <2> QED
    BY <1>1, <1>2, <2>2
<1> QED
  BY <1>1, <1>2, <1>3, <1>4, <1>5, Within

LEMMA persistTMDBOnShowInv ==
    ASSUME SaveInv, NEW e \in Exports, persistTMDBOnShow(e)
    PROVE  SaveInv'
<1>1. /\ at[e] = "persist" /\ at' = [at EXCEPT ![e] = "insert"]
      /\ UNCHANGED <<limit, shows, done, inUse, written, stored, InCatalog, status, refused, crashed>>
  BY DEF persistTMDBOnShow, Go, OnPool, rows, InCatalog
<1>2. /\ InCatalog \subseteq Series \cup {Unknown} /\ inUse \in 0..limit /\ inUse \in Nat /\ limit \in Nat
      /\ ExportInv(e)
  BY SaveTypes
<1>3. inUse' = inUse + Holds("insert") - Holds(at[e]) /\ inUse' <= limit
  <2>1. Holds("insert") = 1 /\ Holds(at[e]) = 1
    BY <1>1 DEF Holds, InTransaction
  <2> QED
    BY <1>1, <1>2, <2>1
<1>4. "insert" \in Inserting \cup {"rollback"} /\ at[e] \in Inserting
  BY <1>1 DEF Inserting
<1>5. Current(e) \in InCatalog'
  BY <1>1, <1>2 DEF ExportInv, Catalogued
<1> QED
  BY <1>1, <1>2, <1>3, <1>4, <1>5, Within

LEMMA RefusedWithin ==
    ASSUME SaveInv, NEW e \in Exports, EnsureShowRefused(e) \/ InsertRefused(e)
    PROVE  SaveInv'
<1>1. /\ at[e] \in Inserting /\ at' = [at EXCEPT ![e] = "rollback"]
      /\ inUse' = IF at[e] = "locking" THEN inUse - 1 ELSE inUse
      /\ UNCHANGED <<limit, shows, done, written, stored, InCatalog, status, refused, crashed>>
  BY DEF EnsureShowRefused, InsertRefused, Go, rows, Inserting, InCatalog
<1>2. /\ InCatalog \subseteq Series \cup {Unknown} /\ inUse \in 0..limit /\ inUse \in Nat /\ limit \in Nat
  BY SaveTypes
<1>3. inUse' = inUse + Holds("rollback") - Holds(at[e]) /\ inUse' <= limit
  <2>1. Holds("rollback") = 1 /\ Holds(at[e]) = (IF at[e] = "locking" THEN 2 ELSE 1)
    BY <1>1 DEF Holds, InTransaction, Inserting
  <2> QED
    BY <1>1, <1>2, <2>1
<1> QED
  BY <1>1, <1>2, <1>3, Within

LEMMA NextShowIs ==
    ASSUME NEW e, NEW n \in Nat, Len(shows[e]) \in Nat, n <= Len(shows[e])
    PROVE  /\ NextShow(e, n) \in {"commit", "lookup"}
           /\ NextShow(e, n) = "commit" => n = Len(shows[e])
           /\ NextShow(e, n) = "lookup" => n < Len(shows[e])
  BY DEF NextShow

(* The first show, or the end, of a transaction that has just been opened.   *)
LEMMA BeginInv ==
    ASSUME SaveInv, NEW e \in Exports, Begin(e)
    PROVE  SaveInv'
<1> DEFINE to == NextShow(e, 0)
<1>1. /\ at[e] = "begin" /\ at' = [at EXCEPT ![e] = to] /\ inUse < limit /\ inUse' = inUse + 1
      /\ UNCHANGED <<limit, shows, done, written, stored, InCatalog, status, refused, crashed>>
  BY DEF Begin, Go, rows, InCatalog
<1>2. /\ at \in [Exports -> Places] /\ inUse \in Nat /\ limit \in Nat
      /\ Len(shows[e]) \in Nat /\ ExportInv(e) /\ Types
  BY SaveTypes DEF SaveInv
<1>3. /\ to \in {"commit", "lookup"} /\ (to = "commit" => Len(shows[e]) = 0)
      /\ (to = "lookup" => 0 < Len(shows[e]))
  BY <1>2, NextShowIs
<1> HIDE DEF to
<1>4. at'[e] = to /\ at' \in [Exports -> Places] /\ \A d \in Exports \ {e} : at'[d] = at[d]
  BY <1>1, <1>2, <1>3 DEF Places, InTransaction
<1>5. Types' /\ OthersStay(e)
  BY <1>1, <1>2, <1>4 DEF Types, OthersStay
<1>6. inUse' = inUse + Holds(to) - Holds(at[e]) /\ inUse' <= limit
  <2>1. Holds(to) = 1 /\ Holds(at[e]) = 0
    BY <1>1, <1>3 DEF Holds, InTransaction
  <2> QED
    BY <1>1, <1>2, <2>1
<1>7. done[e] = 0 /\ written[e] = NoRows
  BY <1>1, <1>2 DEF ExportInv, Progress, Wrote, InTransaction
<1>8. Progress(e)' /\ Reported(e)'
  BY <1>1, <1>2, <1>3, <1>4, <1>7 DEF Progress, Reported, Inserting
<1>9. Wrote(e)'
  BY <1>1, <1>3, <1>4, <1>7, NothingReflected DEF Wrote, InTransaction
<1>10. Stored(e)'
  BY <1>1, <1>2, <1>3, <1>4 DEF ExportInv, Stored
<1>11. Catalogued(e)'
  BY <1>1, <1>2, <1>3, <1>4 DEF ExportInv, Catalogued
<1> QED
  BY <1>1, <1>5, <1>6, <1>8, <1>9, <1>10, <1>11, OneMoves DEF ExportInv

(* The show at hand is written, and what is written reflects one more.       *)
LEMMA InsertShowInv ==
    ASSUME SaveInv, NEW e \in Exports, InsertShow(e)
    PROVE  SaveInv'
<1> DEFINE n == done[e]
           to == NextShow(e, n + 1)
           w == SaveShow(written[e], Current(e), n + 1)
<1>1. /\ at[e] = "insert" /\ at' = [at EXCEPT ![e] = to]
      /\ written' = [written EXCEPT ![e] = w] /\ done' = [done EXCEPT ![e] = n + 1]
      /\ UNCHANGED <<limit, shows, inUse, stored, InCatalog, status, refused, crashed>>
  BY DEF InsertShow, Go, rows, InCatalog
<1>2. /\ at \in [Exports -> Places] /\ inUse \in Nat /\ limit \in Nat /\ inUse <= limit
      /\ Len(shows[e]) \in Nat /\ n \in Nat /\ done \in [Exports -> Nat] /\ ExportInv(e) /\ Types
      /\ Len(shows[e]) <= Len(Episodes)
  BY SaveTypes DEF SaveInv
<1>3. n + 1 <= Len(shows[e]) /\ n + 1 \in Nat /\ n + 1 \in DOMAIN Episodes
  <2>1. n < Len(shows[e])
    BY <1>1, <1>2 DEF ExportInv, Progress, Inserting
  <2>2. Len(Episodes) \in Nat /\ DOMAIN Episodes = 1..Len(Episodes)
    BY SaveAssumption
  <2> QED
    BY <1>2, <2>1, <2>2
<1>4. /\ to \in {"commit", "lookup"} /\ (to = "commit" => n + 1 = Len(shows[e]))
      /\ (to = "lookup" => n + 1 < Len(shows[e]))
  BY <1>2, <1>3, NextShowIs
<1>5. Reflects(shows[e], n, written[e]) /\ Current(e) \in InCatalog /\ DOMAIN written[e] \subseteq InCatalog
  BY <1>1, <1>2 DEF ExportInv, Wrote, Catalogued, InTransaction
<1>6. Reflects(shows[e], n + 1, w)
  BY <1>2, <1>3, <1>5, OneMoreReflected DEF Current
<1>7. DOMAIN w \subseteq InCatalog
  BY <1>5 DEF SaveShow, WithRow
<1> HIDE DEF to, w, n
<1>8. /\ at'[e] = to /\ at' \in [Exports -> Places] /\ \A d \in Exports \ {e} : at'[d] = at[d]
      /\ written'[e] = w /\ \A d \in Exports \ {e} : written'[d] = written[d]
      /\ written' = [d \in Exports |-> written'[d]]
      /\ done'[e] = n + 1 /\ done' \in [Exports -> Nat] /\ \A d \in Exports \ {e} : done'[d] = done[d]
  <2>1. written = [d \in Exports |-> written[d]]
    BY <1>2 DEF Types
  <2>2. to \in Places
    BY <1>4 DEF Places, InTransaction
  <2>3. /\ at'[e] = to /\ at' \in [Exports -> Places] /\ \A d \in Exports \ {e} : at'[d] = at[d]
    BY <1>1, <1>2, <2>2
  <2>4. /\ written'[e] = w /\ \A d \in Exports \ {e} : written'[d] = written[d]
        /\ written' = [d \in Exports |-> written'[d]]
    BY <1>1, <2>1
  <2>5. done'[e] = n + 1 /\ done' \in [Exports -> Nat] /\ \A d \in Exports \ {e} : done'[d] = done[d]
    BY <1>1, <1>2, <1>3
  <2> QED
    BY <2>3, <2>4, <2>5
<1>9. Types' /\ OthersStay(e)
  BY <1>1, <1>2, <1>8 DEF Types, OthersStay
<1>10. inUse' = inUse + Holds(to) - Holds(at[e]) /\ inUse' <= limit
  <2>1. Holds(to) = 1 /\ Holds(at[e]) = 1
    BY <1>1, <1>4 DEF Holds, InTransaction
  <2> QED
    BY <1>1, <1>2, <2>1
<1>11. Progress(e)' /\ Reported(e)'
  BY <1>1, <1>2, <1>3, <1>4, <1>8 DEF Progress, Reported, Inserting
<1>12. Wrote(e)'
  BY <1>1, <1>4, <1>6, <1>8 DEF Wrote, InTransaction
<1>13. Stored(e)'
  BY <1>1, <1>2, <1>4, <1>8 DEF ExportInv, Stored
<1>14. Catalogued(e)'
  BY <1>1, <1>2, <1>4, <1>7, <1>8 DEF ExportInv, Catalogued
<1> QED
  BY <1>1, <1>9, <1>10, <1>11, <1>12, <1>13, <1>14, OneMoves DEF ExportInv

(* The transaction ends, and what it has written is kept as a whole, or not  *)
(* at all.                                                                   *)
LEMMA EndTransactionInv ==
    ASSUME SaveInv, NEW e \in Exports, NEW keep \in BOOLEAN, NEW to \in {"complete", "fail"},
           EndTransaction(e, keep, to), at[e] \in {"commit", "rollback"},
           keep => at[e] = "commit", to = "complete" => keep
    PROVE  SaveInv'
<1> DEFINE st == IF keep THEN written[e] ELSE stored[e]
<1>1. /\ at' = [at EXCEPT ![e] = to] /\ inUse' = inUse - 1
      /\ written' = [written EXCEPT ![e] = NoRows]
      /\ UNCHANGED <<limit, shows, done, InCatalog, status, refused, crashed>>
  BY DEF EndTransaction, Go, InCatalog
<1>2. /\ at \in [Exports -> Places] /\ inUse \in Nat /\ limit \in Nat /\ inUse <= limit
      /\ ExportInv(e) /\ Types
  BY SaveTypes DEF SaveInv
<1>3. /\ stored'[e] = st /\ \A d \in Exports \ {e} : stored'[d] = stored[d]
      /\ stored' = [d \in Exports |-> stored'[d]]
  <2>1. stored = [d \in Exports |-> stored[d]]
    BY <1>2 DEF Types
  <2> QED
    BY <2>1 DEF EndTransaction
<1>4. /\ at'[e] = to /\ at' \in [Exports -> Places] /\ \A d \in Exports \ {e} : at'[d] = at[d]
      /\ written'[e] = NoRows /\ \A d \in Exports \ {e} : written'[d] = written[d]
      /\ written' = [d \in Exports |-> written'[d]]
  <2>1. written = [d \in Exports |-> written[d]] /\ to \in Places
    BY <1>2 DEF Types, Places
  <2> QED
    BY <1>1, <1>2, <2>1
<1>5. keep => Reflects(shows[e], Len(shows[e]), written[e])
  BY <1>2 DEF ExportInv, Wrote, Progress, InTransaction
<1>6. Types' /\ OthersStay(e)
  BY <1>1, <1>2, <1>3, <1>4 DEF Types, OthersStay
<1>7. inUse' = inUse + Holds(to) - Holds(at[e]) /\ inUse' <= limit
  <2>1. Holds(to) = 0 /\ Holds(at[e]) = 1
    BY DEF Holds, InTransaction
  <2> QED
    BY <1>1, <1>2, <2>1
<1>8. Progress(e)' /\ Reported(e)'
  BY <1>1, <1>2, <1>4 DEF ExportInv, Progress, Reported, Inserting
<1>9. Wrote(e)'
  BY <1>4 DEF Wrote, InTransaction
<1>10. Stored(e)'
  BY <1>1, <1>2, <1>3, <1>4, <1>5 DEF ExportInv, Stored
<1>11. Catalogued(e)'
  BY <1>1, <1>2, <1>3, <1>4, NothingReflected DEF ExportInv, Catalogued
<1> QED
  BY <1>1, <1>6, <1>7, <1>8, <1>9, <1>10, <1>11, OneMoves DEF ExportInv

LEMMA EndInv ==
    ASSUME SaveInv, NEW e \in Exports, Commit(e) \/ CommitRefused(e) \/ Rollback(e)
    PROVE  SaveInv'
<1>1. CASE Commit(e)
  BY <1>1, EndTransactionInv DEF Commit
<1>2. CASE CommitRefused(e)
  BY <1>2, EndTransactionInv DEF CommitRefused
<1>3. CASE Rollback(e)
  BY <1>3, EndTransactionInv DEF Rollback
<1> QED
  BY <1>1, <1>2, <1>3

--------------------------------------------------------------------------------
(* The invariant *)

LEMMA PoolLimit == \A raw : maxConns(raw) \in 1..256
<1>1. ASSUME NEW n \in Int PROVE ClampInt32(n, 1, 256) \in 1..256
  BY DEF ClampInt32
<1>2. \A n \in Int : Int32(n) \in Int
  BY DEF Int32
<1> QED
  BY <1>1, <1>2 DEF maxConns, defaultMaxConns

LEMMA NobodyHolds ==
    ASSUME \A e \in Exports : at[e] \notin InTransaction, inUse = 0, limit \in 1..256
    PROVE  Held
<1>1. Transactions = {} /\ Upserts = {}
  BY DEF Transactions, Upserts, InTransaction
<1> QED
  BY <1>1, FS_EmptySet DEF Held

LEMMA InitInv == Init => SaveInv
<1> SUFFICES ASSUME Init PROVE SaveInv
  OBVIOUS
<1>1. Types
  BY PoolLimit, NothingReflected DEF Init, Types, Places, Statuses, InCatalog
<1>2. \A e \in Exports : at[e] = "idle"
  BY DEF Init
<1>3. Held
  BY <1>1, <1>2, NobodyHolds DEF Init, InTransaction, Types
<1>4. ASSUME NEW e \in Exports PROVE ExportInv(e)
  <2>1. Len(shows[e]) \in Nat
    BY <1>1, SaveAssumption DEF Types
  <2>2. /\ done[e] = 0 /\ written[e] = NoRows /\ stored[e] = NoRows /\ status[e] = "none"
    BY DEF Init
  <2> QED
    BY <1>2, <2>1, <2>2, NothingReflected
    DEF ExportInv, Progress, Wrote, Stored, Catalogued, Reported, Inserting, InTransaction
<1> QED
  BY <1>1, <1>3, <1>4 DEF SaveInv, ExportInv

LEMMA CrashInv ==
    ASSUME SaveInv, Crash
    PROVE  SaveInv'
<1>1. /\ at' = [e \in Exports |-> IF at[e] \in {"idle", "gone"} THEN at[e] ELSE "dead"]
      /\ written' = [e \in Exports |-> NoRows] /\ inUse' = 0 /\ crashed' \in BOOLEAN
      /\ UNCHANGED <<limit, shows, done, stored, InCatalog, status, refused>>
  BY DEF Crash, rows, InCatalog
<1>2. Types /\ at \in [Exports -> Places]
  BY DEF SaveInv, Types
<1>3. \A e \in Exports : /\ at'[e] \in {"idle", "gone", "dead"} /\ written'[e] = NoRows
                         /\ at'[e] # "dead" => at'[e] = at[e]
  BY <1>1
<1>4. Types'
  BY <1>1, <1>2 DEF Types, Places
<1>5. Held'
  <2>1. \A e \in Exports : at'[e] \notin InTransaction
    BY <1>3 DEF InTransaction
  <2>2. Transactions' = {} /\ Upserts' = {}
    BY <1>3, <2>1 DEF Transactions, Upserts
  <2> QED
    BY <1>1, <1>4, <2>2, FS_EmptySet DEF Held, Types
<1>6. ASSUME NEW e \in Exports PROVE ExportInv(e)'
  <2>1. ExportInv(e)
    BY DEF SaveInv, ExportInv
  <2>2. Progress(e)' /\ Reported(e)'
    BY <1>1, <1>3, <2>1 DEF ExportInv, Progress, Reported, Inserting
  <2>3. Wrote(e)' /\ Stored(e)'
    BY <1>1, <1>3, <2>1 DEF ExportInv, Wrote, Stored, InTransaction
  <2>4. Catalogued(e)'
    BY <1>1, <1>3, <2>1, NothingReflected DEF ExportInv, Catalogued
  <2> QED
    BY <2>2, <2>3, <2>4 DEF ExportInv
<1> QED
  BY <1>4, <1>5, <1>6 DEF SaveInv, ExportInv

LEMMA StutterInv ==
    ASSUME SaveInv, UNCHANGED vars
    PROVE  SaveInv'
<1>1. UNCHANGED <<limit, shows, at, done, inUse, written, stored, InCatalog, status, refused, crashed>>
  BY DEF vars, rows, InCatalog
<1>2. Types' /\ Held'
  BY <1>1 DEF SaveInv, Types, Held, Transactions, Upserts
<1>3. \A e \in Exports : ExportInv(e)'
  BY <1>1, OtherStays DEF SaveInv, ExportInv
<1> QED
  BY <1>2, <1>3 DEF SaveInv, ExportInv

LEMMA StepInv == SaveInv /\ [Next]_vars => SaveInv'
<1> SUFFICES ASSUME SaveInv, [Next]_vars PROVE SaveInv'
  OBVIOUS
<1>1. ASSUME NEW e \in Exports, SaveShows(e) PROVE SaveInv'
  BY <1>1, BeginInv, ensureShowRecordInv, UpsertConnectionInv, upsertInv, persistTMDBOnShowInv,
     InsertShowInv, EndInv DEF SaveShows
<1>2. ASSUME NEW e \in Exports, Create(e) \/ runExport(e) PROVE SaveInv'
  BY <1>1, <1>2, StatusInv, BeforeInv DEF runExport
<1>3. ASSUME NEW e \in Exports, Refusal(e) PROVE SaveInv'
  BY <1>3, StatusRefusedInv, BeforeInv, RefusedWithin, EndInv DEF Refusal
<1>4. CASE Crash
  BY <1>4, CrashInv
<1>5. CASE UNCHANGED vars
  BY <1>5, StutterInv
<1> QED
  BY <1>2, <1>3, <1>4, <1>5 DEF Next

--------------------------------------------------------------------------------
(* The titles of the catalogue *)

(* A title is one that an export gave to that series; and when only one      *)
(* export names the series, it is the one of the first place that does.      *)
Titled ==
    \A s \in InCatalog :
        /\ \E d \in NamedBy(s) : \E i \in Named(d, s) : catalog[s] = <<d, i>>
        /\ \A e \in Exports : NamedBy(s) = {e} => catalog[s] = <<e, Min(Named(e, s))>>

(* An upsert is of a show that nobody's transaction has written, hence not   *)
(* its own, before.                                                          *)
LEMMA UpsertIsFirst ==
    ASSUME SaveInv, NEW e \in Exports, upsert(e)
    PROVE  LET first == done[e] + 1
           IN  /\ first \in Named(e, Current(e)) /\ e \in NamedBy(Current(e))
               /\ Min(Named(e, Current(e))) = first
<1> DEFINE c == Current(e)
           list == shows[e]
           n == done[e]
<1>1. /\ ExportInv(e) /\ n \in Nat /\ Len(list) \in Nat /\ DOMAIN list = 1..Len(list)
      /\ at[e] = "locking" /\ ~Locked(c)
  BY SaveTypes DEF upsert
<1>2. n + 1 \in DOMAIN list /\ list[n + 1] = c
  BY <1>1 DEF ExportInv, Progress, Inserting, Current
<1>3. ASSUME NEW i \in 1..n, list[i] = c PROVE FALSE
  <2>1. c \in DOMAIN written[e]
    BY <1>1, <1>3 DEF ExportInv, Wrote, Reflects, InTransaction
  <2>2. c \in InCatalog
    BY <1>1, <2>1 DEF ExportInv, Catalogued
  <2> QED
    BY <1>1, <2>1, <2>2 DEF Locked
<1>4. /\ Named(e, c) \in SUBSET Nat /\ n + 1 \in Named(e, c)
      /\ \A i \in Named(e, c) : n + 1 <= i
  <2>1. \A i \in Named(e, c) : i \in 1..Len(list) /\ list[i] = c
    BY <1>1 DEF Named
  <2>2. \A i \in Named(e, c) : i \in Nat /\ n + 1 <= i
    BY <1>1, <1>3, <2>1
  <2> QED
    BY <1>2, <2>2 DEF Named
<1>5. Min(Named(e, c)) = n + 1
  BY <1>4, MinIs
<1>6. e \in NamedBy(c)
  BY <1>2 DEF NamedBy, AllShows
<1> QED
  BY <1>4, <1>5, <1>6

LEMMA UpsertTitles ==
    ASSUME SaveInv, Titled, NEW e \in Exports, upsert(e)
    PROVE  Titled'
<1> DEFINE c == Current(e)
           first == done[e] + 1
<1>1. catalog' = WithRow(catalog, c, <<e, first>>) /\ UNCHANGED shows
  BY DEF upsert
<1>2. first \in Named(e, c) /\ e \in NamedBy(c) /\ Min(Named(e, c)) = first
  BY UpsertIsFirst
<1> HIDE DEF c, first
<1>3. /\ InCatalog' = InCatalog \cup {c} /\ catalog'[c] = <<e, first>>
      /\ \A s \in InCatalog \ {c} : catalog'[s] = catalog[s]
  <2> DEFINE table == WithRow(catalog, c, <<e, first>>)
  <2>1. /\ DOMAIN table = DOMAIN catalog \cup {c} /\ table[c] = <<e, first>>
        /\ \A s \in DOMAIN catalog \ {c} : table[s] = catalog[s]
    BY Zenon DEF WithRow
  <2> HIDE DEF table
  <2>2. catalog' = table
    BY <1>1 DEF table
  <2> QED
    BY <2>1, <2>2 DEF InCatalog
<1>4. \A s : NamedBy(s)' = NamedBy(s) /\ \A d : Named(d, s)' = Named(d, s)
  BY <1>1 DEF NamedBy, Named, AllShows
<1>5. ASSUME NEW s \in InCatalog'
      PROVE  /\ \E d \in NamedBy(s) : \E i \in Named(d, s) : catalog'[s] = <<d, i>>
             /\ \A d \in Exports : NamedBy(s) = {d} => catalog'[s] = <<d, Min(Named(d, s))>>
  <2>1. CASE s = c
    BY <1>2, <1>3, <2>1
  <2>2. CASE s # c
    <3>1. s \in InCatalog /\ catalog'[s] = catalog[s]
      BY <1>3, <1>5, <2>2
    <3> QED
      BY <3>1 DEF Titled
  <2> QED
    BY <2>1, <2>2
<1> QED
  BY <1>4, <1>5 DEF Titled

(* No other step writes a row of the catalogue.                              *)
LEMMA StepTitles == SaveInv /\ Titled /\ [Next]_vars => Titled'
<1> SUFFICES ASSUME SaveInv, Titled, [Next]_vars PROVE Titled'
  OBVIOUS
<1>1. CASE \E e \in Exports : upsert(e)
  BY <1>1, UpsertTitles
<1>2. CASE UNCHANGED <<shows, catalog>>
  <2>1. InCatalog' = InCatalog
    BY <1>2 DEF InCatalog
  <2>2. \A s : NamedBy(s)' = NamedBy(s) /\ \A d : Named(d, s)' = Named(d, s)
    BY <1>2 DEF NamedBy, Named, AllShows
  <2> QED
    BY <1>2, <2>1, <2>2 DEF Titled
<1>3. ASSUME NEW e \in Exports, SaveShows(e), ~upsert(e) PROVE UNCHANGED <<shows, catalog>>
  BY <1>3
  DEF SaveShows, Begin, ensureShowRecord, UpsertConnection, persistTMDBOnShow, InsertShow,
      Commit, Rollback, EndTransaction, rows
<1>4. ASSUME NEW e \in Exports, Create(e) \/ MarkRunning(e) \/ Fetched(e)
                                \/ MarkCompleted(e) \/ MarkFailed(e) \/ Refusal(e)
      PROVE  UNCHANGED <<shows, catalog>>
  BY <1>4
  DEF Create, MarkRunning, MarkCompleted, MarkFailed, SetStatus, Fetched, Refusal, StatusRefused,
      BeginRefused, EnsureShowRefused, InsertRefused, CommitRefused, EndTransaction, rows
<1>5. CASE Crash
  BY <1>2, <1>5 DEF Crash, rows
<1>6. CASE UNCHANGED vars
  BY <1>2, <1>6 DEF vars, rows
<1> QED
  BY <1>1, <1>2, <1>3, <1>4, <1>5, <1>6 DEF Next, runExport

--------------------------------------------------------------------------------
(* The theorems *)

(* At every moment the open transaction of an export (SaveShows) holds the   *)
(* rows of the shows inserted so far, each as the last place that names it   *)
(* says, and the database holds all of them or none.                         *)
THEOREM RowsReflectTheShows == Spec => []SaveInv
<1> QED
  BY InitInv, StepInv, PTL DEF Spec

(* A row of the catalogue has a title that an export gave to its series      *)
(* (UpsertWithoutResolver), and if only one names it, that of the first place*)
(* that does: neither that export nor a refusal in it writes it again.       *)
THEOREM TitlesAreOfTheSeries == Spec => []Titled
<1>1. Init => Titled
  BY NothingReflected DEF Init, Titled, InCatalog
<1> QED
  BY <1>1, StepTitles, RowsReflectTheShows, PTL DEF Spec

(* An export is stored as a whole or not at all, wherever an error or a      *)
(* crash strikes; a completed one is there; and it refers only to shows the  *)
(* catalogue has.                                                            *)
THEOREM SavedWholeHolds == Spec => []SavedWhole
<1>1. SaveInv => SavedWhole
  <2> SUFFICES ASSUME SaveInv, NEW e \in Exports
               PROVE  /\ DOMAIN stored[e] \in {{}, AllShows(e)}
                      /\ status[e] = "completed" => DOMAIN stored[e] = AllShows(e)
                      /\ at[e] = "gone" => status[e] \in {"completed", "failed"} \/ refused[e]
                      /\ DOMAIN stored[e] \cup DOMAIN written[e] \subseteq InCatalog
    BY DEF SavedWhole
  <2>1. ExportInv(e) /\ shows[e] \in Seq(Series \cup {Unknown})
    BY SaveTypes
  <2>2. \A w : Reflects(shows[e], Len(shows[e]), w) => DOMAIN w = AllShows(e)
    BY <2>1 DEF Reflects, AllShows
  <2>3. /\ DOMAIN stored[e] \in {{}, AllShows(e)}
        /\ status[e] = "completed" => DOMAIN stored[e] = AllShows(e)
    BY <2>1, <2>2, NothingReflected DEF ExportInv, Stored
  <2> QED
    BY <2>1, <2>3 DEF ExportInv, Reported, Catalogued
<1> QED
  BY <1>1, RowsReflectTheShows, PTL

LEMMA InvTypeOK == SaveInv => TypeOK
<1> SUFFICES ASSUME SaveInv PROVE TypeOK
  OBVIOUS
<1>1. ASSUME NEW e \in Exports
      PROVE  /\ done[e] \in 0..Len(shows[e])
             /\ \A shown \in {written[e], stored[e]} :
                   \A s \in DOMAIN shown : shown[s].from \in 1..Len(shows[e])
  <2>1. ExportInv(e) /\ done[e] \in Nat /\ Len(shows[e]) \in Nat
    BY SaveTypes
  <2>2. done[e] <= Len(shows[e])
    BY <2>1 DEF ExportInv, Progress
  <2>3. \A n \in Nat : \A w : n <= Len(shows[e]) /\ Reflects(shows[e], n, w) =>
            \A s \in DOMAIN w : w[s].from \in 1..Len(shows[e])
    BY <2>1 DEF Reflects, ReflectsShow
  <2>4. \A s \in DOMAIN NoRows : FALSE
    BY NothingReflected
  <2>5. \A s \in DOMAIN written[e] : written[e][s].from \in 1..Len(shows[e])
    BY <2>1, <2>2, <2>3, <2>4 DEF ExportInv, Wrote
  <2>6. \A s \in DOMAIN stored[e] : stored[e][s].from \in 1..Len(shows[e])
    BY <2>1, <2>3, <2>4 DEF ExportInv, Stored
  <2> QED
    BY <2>1, <2>2, <2>5, <2>6
<1> QED
  BY <1>1 DEF SaveInv, Types, Held, TypeOK

(* The pool has lent as many connections as the transactions and upserts     *)
(* under way hold (SaveShows, UpsertWithoutResolver), on every path of error.*)
THEOREM ConnectionsAreHeldHolds == Spec => []ConnectionsAreHeld
<1>1. SaveInv => ConnectionsAreHeld
  BY InvTypeOK DEF SaveInv, Held, Transactions, Upserts, ConnectionsAreHeld
<1> QED
  BY <1>1, RowsReflectTheShows, PTL

(* The episodes of a show that is reflected are those its places tell of.    *)
LEMMA EpisodesReadBack ==
    ASSUME NEW e, shows[e] \in Seq(Series \cup {Unknown}), NEW s, NEW eps,
           ReflectsEpisodes(shows[e], Len(shows[e]), s, eps), NEW key
    PROVE  IF Tells(e, s, key) = {} THEN key \notin DOMAIN eps
           ELSE /\ eps[key] \in Tells(e, s, key)
                /\ \A place \in Tells(e, s, key) : NotBefore(eps[key], place)
<1> DEFINE list == shows[e]
           n == Len(list)
<1>1. DOMAIN list = 1..n
  OBVIOUS
<1>2. \A i, k : <<i, k>> \in Tells(e, s, key) <=>
                    i \in 1..n /\ list[i] = s /\ k \in PlacesOf(i, key)
  BY <1>1 DEF Tells, Named
<1>3. \A place \in Tells(e, s, key) : place = <<place[1], place[2]>>
  BY DEF Tells
<1>4. key \in DOMAIN eps => eps[key] \in Tells(e, s, key)
  <2> SUFFICES ASSUME key \in DOMAIN eps PROVE eps[key] \in Tells(e, s, key)
    OBVIOUS
  <2>1. /\ eps[key] \in (1..n) \X Nat /\ list[eps[key][1]] = s
        /\ eps[key][2] \in PlacesOf(eps[key][1], key)
    BY DEF ReflectsEpisodes
  <2>2. eps[key] = <<eps[key][1], eps[key][2]>> /\ eps[key][1] \in 1..n
    BY <2>1
  <2> QED
    BY <1>2, <2>1, <2>2
<1>5. \A place \in Tells(e, s, key) : key \in DOMAIN eps /\ NotBefore(eps[key], place)
  <2> SUFFICES ASSUME NEW place \in Tells(e, s, key)
               PROVE  key \in DOMAIN eps /\ NotBefore(eps[key], place)
    OBVIOUS
  <2> DEFINE i == place[1]
             k == place[2]
  <2>1. place = <<i, k>>
    BY <1>3
  <2>2. i \in 1..n /\ list[i] = s /\ k \in PlacesOf(i, key)
    BY <1>2, <2>1
  <2> HIDE DEF i, k
  <2>3. key \in DOMAIN eps /\ NotBefore(eps[key], <<i, k>>)
    BY <2>2 DEF ReflectsEpisodes
  <2> QED
    BY <2>1, <2>3
<1> QED
  BY <1>4, <1>5

(* The number of shows that are read is that of the list, when no two of     *)
(* them share a row.                                                         *)
LEMMA CountReadBack ==
    ASSUME NEW list, NEW n \in Nat, NEW w, Reflects(list, n, w)
    PROVE  (n = Cardinality(DOMAIN w)) <=>
               \A i, j \in 1..n : i # j => list[i] # list[j]
<1> DEFINE f == [i \in 1..n |-> list[i]]
           T == DOMAIN w
<1>1. T = {list[i] : i \in 1..n}
  BY DEF Reflects
<1>2. f \in Surjection(1..n, T)
  BY <1>1 DEF Surjection
<1>3. IsFiniteSet(1..n) /\ Cardinality(1..n) = n
  BY FS_Interval
<1>4. Cardinality(T) = n <=> f \in Injection(1..n, T)
  <2> HIDE DEF f, T
  <2> QED
    BY <1>2, <1>3, FS_Surjection
<1>5. f \in Injection(1..n, T) <=> \A i, j \in 1..n : i # j => list[i] # list[j]
  BY <1>1 DEF Injection, IsInjective
<1> QED
  BY <1>4, <1>5

(* What is read of a completed export (LoadShows) is what was gathered, each *)
(* show and episode as the last place that tells of it, and the show_count   *)
(* of the row is right exactly when no two shows share a row; but the title  *)
(* is one some export gave to the series, and this one's for certain only    *)
(* when no other export names it.                                            *)
THEOREM ReadsBackHolds == Spec => []ReadsBack
<1>1. SaveInv /\ Titled => ReadsBack
  <2> SUFFICES ASSUME SaveInv, Titled, NEW e \in Exports, MayLoad(e)
               PROVE  LET read == LoadShows(e)
                      IN  /\ \A s \in DOMAIN read :
                                /\ read[s].from = Max(Named(e, s))
                                /\ \E d \in NamedBy(s) : \E i \in Named(d, s) :
                                       read[s].title = <<d, i>>
                                /\ NamedBy(s) = {e} => read[s].title = <<e, Min(Named(e, s))>>
                                /\ \A key \in Numbers :
                                      IF Tells(e, s, key) = {} THEN key \notin DOMAIN read[s].episodes
                                      ELSE /\ read[s].episodes[key] \in Tells(e, s, key)
                                           /\ \A place \in Tells(e, s, key) :
                                                 NotBefore(read[s].episodes[key], place)
                          /\ (show_count(e) = Cardinality(DOMAIN read)) <=>
                                \A i, j \in DOMAIN shows[e] : i # j => shows[e][i] # shows[e][j]
                          /\ DOMAIN read = AllShows(e)
    BY DEF ReadsBack
  <2> DEFINE read == LoadShows(e)
             list == shows[e]
             n == Len(shows[e])
  <2>1. list \in Seq(Series \cup {Unknown}) /\ n \in Nat /\ DOMAIN list = 1..n
    BY SaveTypes
  <2>2. Reflects(list, n, stored[e]) /\ DOMAIN stored[e] \subseteq InCatalog
    BY SaveTypes DEF ExportInv, Stored, Catalogued, MayLoad
  <2>3. /\ DOMAIN read = DOMAIN stored[e]
        /\ \A s \in DOMAIN read :
               /\ read[s].from = stored[e][s].from /\ read[s].episodes = stored[e][s].episodes
               /\ s \in InCatalog /\ read[s].title = catalog[s]
    BY <2>2 DEF LoadShows
  <2> HIDE DEF read
  <2>4. ASSUME NEW s \in DOMAIN read
        PROVE  read[s].from = Max(Named(e, s))
    <3>1. ReflectsShow(list, n, s, stored[e][s])
      BY <2>2, <2>3, <2>4 DEF Reflects
    <3>2. /\ Named(e, s) \in SUBSET Nat /\ read[s].from \in Named(e, s)
          /\ \A i \in Named(e, s) : i <= read[s].from
      BY <2>1, <2>3, <3>1 DEF ReflectsShow, Named
    <3> QED
      BY <3>2, MaxIs
  <2>5. ASSUME NEW s \in DOMAIN read
        PROVE  /\ \E d \in NamedBy(s) : \E i \in Named(d, s) : read[s].title = <<d, i>>
               /\ NamedBy(s) = {e} => read[s].title = <<e, Min(Named(e, s))>>
    BY <2>3, <2>5 DEF Titled
  <2>6. ASSUME NEW s \in DOMAIN read, NEW key
        PROVE  IF Tells(e, s, key) = {} THEN key \notin DOMAIN read[s].episodes
               ELSE /\ read[s].episodes[key] \in Tells(e, s, key)
                    /\ \A place \in Tells(e, s, key) : NotBefore(read[s].episodes[key], place)
    <3>1. ReflectsEpisodes(list, n, s, read[s].episodes)
      BY <2>2, <2>3, <2>6 DEF Reflects
    <3> QED
      BY <2>1, <3>1, EpisodesReadBack
  <2>7. (n = Cardinality(DOMAIN read)) <=> \A i, j \in 1..n : i # j => list[i] # list[j]
    <3>1. (n = Cardinality(DOMAIN stored[e])) <=> \A i, j \in 1..n : i # j => list[i] # list[j]
      BY <2>1, <2>2, CountReadBack
    <3> QED
      BY <2>3, <3>1
  <2>8. DOMAIN read = AllShows(e)
    BY <2>1, <2>2, <2>3 DEF Reflects, AllShows
  <2> QED
    BY <2>1, <2>4, <2>5, <2>6, <2>7, <2>8 DEF read, show_count
<1> QED
  BY <1>1, RowsReflectTheShows, TitlesAreOfTheSeries, PTL
================================================================================
