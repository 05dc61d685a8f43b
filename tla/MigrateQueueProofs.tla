-------------------------- MODULE MigrateQueueProofs --------------------------
(***************************************************************************)
(* Theorems about MigrateQueue, for every finite set of jobs and every     *)
(* value of MIGRATE_QUEUE_CONCURRENCY.  The inductive invariant is IInv:   *)
(* the checked invariants together, since the bound on the running jobs    *)
(* needs to know that a started job was not running, which needs the       *)
(* agreement of the three views, and so on around.                         *)
(***************************************************************************)
EXTENDS MigrateQueue, FiniteSetTheorems, SequenceTheorems, TLAPS

IInv == TypeOK /\ QueueConsistent /\ SlotBound /\ NoIdleSlot

(* The first n of the waiting jobs: what one call of tryStartQueuedJobs takes. *)
First(n) == {pending[i] : i \in 1..n}

--------------------------------------------------------------------------------
(* queueConcurrency yields between 1 and 5 slots whatever the environment    *)
(* holds.                                                                    *)
THEOREM QueueConcurrencyRange ==
    ASSUME NEW raw
    PROVE  /\ queueConcurrency(raw) \in Int
           /\ 1 <= queueConcurrency(raw)
           /\ queueConcurrency(raw) <= MaxQueueConcurrency
<1>1. CASE raw \notin Int
  BY <1>1 DEF queueConcurrency, DefaultQueueConcurrency, MaxQueueConcurrency
<1>2. CASE raw \in Int
  BY <1>2 DEF queueConcurrency, DefaultQueueConcurrency, MaxQueueConcurrency
<1> QED
  BY <1>1, <1>2

LEMMA MaxRange == Max \in Int /\ 1 <= Max /\ Max <= MaxQueueConcurrency
  BY QueueConcurrencyRange DEF Max

(* The set of running jobs is finite, so its cardinality is a number.        *)
LEMMA RunningFinite ==
    ASSUME TypeOK
    PROVE  IsFiniteSet(running) /\ Cardinality(running) \in Nat
<1>1. IsFiniteSet(running)
  BY JobsAssumption, FS_Subset DEF TypeOK
<1> QED
  BY <1>1, FS_CardinalityType

(* The first n waiting jobs are n different jobs.                            *)
LEMMA FirstCardinality ==
    ASSUME TypeOK, QueueConsistent, NEW n \in 0..Len(pending)
    PROVE  /\ First(n) \subseteq PendingJobs
           /\ First(n) \subseteq Jobs
           /\ IsFiniteSet(First(n))
           /\ Cardinality(First(n)) = n
<1>1. /\ Len(pending) \in Nat
      /\ DOMAIN pending = 1..Len(pending)
      /\ \A i \in 1..Len(pending) : pending[i] \in Jobs
  BY LenProperties, ElementOfSeq DEF TypeOK
<1>2. First(n) \subseteq PendingJobs /\ First(n) \subseteq Jobs
  BY <1>1 DEF First, PendingJobs
<1> DEFINE f == [i \in 1..n |-> pending[i]]
<1>3. f \in Bijection(1..n, First(n))
  <2>1. f \in [1..n -> First(n)]
    BY DEF First
  <2>2. \A a, b \in 1..n : f[a] = f[b] => a = b
    BY <1>1 DEF QueueConsistent
  <2>3. \A t \in First(n) : \E s \in 1..n : f[s] = t
    BY DEF First
  <2> QED
    BY <2>1, <2>2, <2>3 DEF Bijection, Injection, Surjection, IsInjective
<1>4. IsFiniteSet(1..n) /\ Cardinality(1..n) = n
  BY FS_Interval
<1>5. ExistsBijection(1..n, First(n))
  BY <1>3 DEF ExistsBijection
<1>6. IsFiniteSet(First(n)) /\ Cardinality(First(n)) = Cardinality(1..n)
  BY <1>4, <1>5, FS_Bijection
<1> QED
  BY <1>2, <1>4, <1>6

(* So the queue is never longer than there are jobs.                         *)
LEMMA PendingLength ==
    ASSUME TypeOK, QueueConsistent
    PROVE  Len(pending) \in Nat /\ Len(pending) <= Cardinality(Jobs)
<1>1. Len(pending) \in Nat
  BY LenProperties DEF TypeOK
<1>2. /\ First(Len(pending)) \subseteq Jobs
      /\ Cardinality(First(Len(pending))) = Len(pending)
  BY <1>1, FirstCardinality
<1> QED
  BY <1>1, <1>2, JobsAssumption, FS_Subset

(* How many jobs tryStartQueuedJobs takes: it stops when there is no free    *)
(* slot or no waiting job, and at the first of the two.                      *)
LEMMA StartCountRange ==
    ASSUME TypeOK, SlotBound
    PROVE  /\ StartCount \in 0..Len(pending)
           /\ Cardinality(running) + StartCount <= Max
           /\ Cardinality(running) + StartCount = Max \/ StartCount = Len(pending)
<1>1. Len(pending) \in Nat
  BY LenProperties DEF TypeOK
<1> QED
  BY <1>1, RunningFinite, MaxRange DEF StartCount, SlotBound

--------------------------------------------------------------------------------
(* What is left of a sequence when its first n elements are dropped.         *)
LEMMA DropFirst ==
    ASSUME NEW S, NEW q \in Seq(S), NEW n \in 0..Len(q)
    PROVE  /\ SubSeq(q, n + 1, Len(q)) \in Seq(S)
           /\ Len(SubSeq(q, n + 1, Len(q))) = Len(q) - n
           /\ \A i \in 1..(Len(q) - n) : SubSeq(q, n + 1, Len(q))[i] = q[i + n]
<1>1. /\ Len(q) \in Nat
      /\ \A i \in 1..Len(q) : q[i] \in S
  BY LenProperties, ElementOfSeq
<1>2. n \in Nat /\ n <= Len(q)
  BY <1>1
<1>3. \A i \in (n + 1)..Len(q) : q[i] \in S
  BY <1>1, <1>2
<1>4. /\ SubSeq(q, n + 1, Len(q)) \in Seq(S)
      /\ Len(SubSeq(q, n + 1, Len(q))) = IF n + 1 <= Len(q) THEN Len(q) - (n + 1) + 1 ELSE 0
      /\ \A i \in 1..(Len(q) - (n + 1) + 1) : SubSeq(q, n + 1, Len(q))[i] = q[(n + 1) + i - 1]
  BY <1>1, <1>2, <1>3, n + 1 \in Int, Len(q) \in Int, SubSeqProperties
<1>5. Len(SubSeq(q, n + 1, Len(q))) = Len(q) - n
  BY <1>1, <1>2, <1>4
<1>6. ASSUME NEW i \in 1..(Len(q) - n)
      PROVE  SubSeq(q, n + 1, Len(q))[i] = q[i + n]
  <2>1. i \in 1..(Len(q) - (n + 1) + 1) /\ (n + 1) + i - 1 = i + n
    BY <1>1, <1>2
  <2> QED
    BY <1>4, <2>1
<1> QED
  BY <1>4, <1>5, <1>6

(* The step of tryStartQueuedJobs, as far as the queue is concerned.         *)
TakeFirst ==
    /\ pending' = SubSeq(pending, StartCount + 1, Len(pending))
    /\ running' = running \cup First(StartCount)

(* Its effect: the waiting jobs lose their first ones, the running set gains *)
(* them, and no job or no slot is left.                                      *)
LEMMA TryStartEffect ==
    ASSUME TypeOK, QueueConsistent, SlotBound, TakeFirst
    PROVE  /\ pending' \in Seq(Jobs)
           /\ Len(pending') = Len(pending) - StartCount
           /\ \A i \in 1..Len(pending') : pending'[i] = pending[i + StartCount]
           /\ running' \subseteq Jobs
           /\ First(StartCount) \subseteq PendingJobs
           /\ Cardinality(running') = Cardinality(running) + StartCount
           /\ PendingJobs' = PendingJobs \ First(StartCount)
           /\ pending' = <<>> \/ Cardinality(running') = Max
<1>1. /\ Len(pending) \in Nat
      /\ DOMAIN pending = 1..Len(pending)
      /\ \A i \in 1..Len(pending) : pending[i] \in Jobs
  BY LenProperties, ElementOfSeq DEF TypeOK
<1>2. PICK n \in 0..Len(pending) :
        /\ n = StartCount
        /\ Cardinality(running) + n = Max \/ n = Len(pending)
  BY StartCountRange
<1>3. pending' = SubSeq(pending, n + 1, Len(pending)) /\ running' = running \cup First(n)
  BY <1>2 DEF TakeFirst
<1>4. /\ pending' \in Seq(Jobs)
      /\ Len(pending') = Len(pending) - n
      /\ \A i \in 1..Len(pending') : pending'[i] = pending[i + n]
  <2>1. pending \in Seq(Jobs)
    BY DEF TypeOK
  <2>2. /\ SubSeq(pending, n + 1, Len(pending)) \in Seq(Jobs)
        /\ Len(SubSeq(pending, n + 1, Len(pending))) = Len(pending) - n
        /\ \A i \in 1..(Len(pending) - n) :
              SubSeq(pending, n + 1, Len(pending))[i] = pending[i + n]
    BY <2>1, DropFirst
  <2> QED
    BY <1>3, <2>2
<1>5. /\ First(n) \subseteq PendingJobs
      /\ First(n) \subseteq Jobs
      /\ IsFiniteSet(First(n))
      /\ Cardinality(First(n)) = n
  BY FirstCardinality
<1>6. Cardinality(running') = Cardinality(running) + n
  <2>1. running \cap First(n) = {}
    BY <1>5 DEF QueueConsistent
  <2>2. Cardinality(running \cup First(n))
          = Cardinality(running) + Cardinality(First(n)) - Cardinality(running \cap First(n))
    BY <1>5, RunningFinite, FS_Union
  <2>3. Cardinality(running \cap First(n)) = 0
    BY <2>1, FS_EmptySet
  <2>4. Cardinality(running) \in Nat
    BY RunningFinite
  <2> QED
    BY <1>3, <1>5, <2>2, <2>3, <2>4
<1>7. PendingJobs' = PendingJobs \ First(n)
  <2>1. DOMAIN pending' = 1..Len(pending')
    BY <1>4, LenProperties
  <2>2. ASSUME NEW j \in PendingJobs'
        PROVE  j \in PendingJobs \ First(n)
    <3>1. PICK i \in 1..Len(pending') : j = pending[i + n]
      BY <1>4, <2>1 DEF PendingJobs
    <3>2. i + n \in 1..Len(pending) /\ i + n \notin 1..n
      BY <1>1, <1>4
    <3>3. \A k \in 1..n : pending[k] # pending[i + n]
      BY <1>1, <3>2 DEF QueueConsistent
    <3> QED
      BY <1>1, <3>1, <3>2, <3>3 DEF PendingJobs, First
  <2>3. ASSUME NEW j \in PendingJobs \ First(n)
        PROVE  j \in PendingJobs'
    <3>1. PICK k \in 1..Len(pending) : j = pending[k]
      BY <1>1 DEF PendingJobs
    <3>2. k \notin 1..n
      BY <3>1 DEF First
    <3>3. k - n \in 1..Len(pending') /\ pending'[k - n] = pending[k]
      <4>1. k - n \in 1..Len(pending') /\ (k - n) + n = k
        BY <1>1, <1>4, <3>2
      <4> QED
        BY <1>4, <4>1
    <3> QED
      BY <2>1, <3>1, <3>3 DEF PendingJobs
  <2> QED
    BY <2>2, <2>3
<1>8. pending' = <<>> \/ Cardinality(running') = Max
  <2>1. CASE n = Len(pending)
    <3>1. Len(pending') = 0
      BY <1>1, <1>4, <2>1
    <3> QED
      BY <1>4, <3>1, EmptySeq
  <2>2. CASE Cardinality(running) + n = Max
    BY <1>6, <2>2
  <2> QED
    BY <1>2, <2>1, <2>2
<1> QED
  BY <1>2, <1>3, <1>4, <1>5, <1>6, <1>7, <1>8 DEF TypeOK

--------------------------------------------------------------------------------
(* IInv holds initially. *)
LEMMA InitIInv == Init => IInv
<1> SUFFICES ASSUME Init PROVE IInv
  OBVIOUS
<1>1. /\ pending = <<>> /\ running = {} /\ byID = {}
      /\ Cardinality(running) = 0
      /\ PendingJobs = {}
      /\ DOMAIN pending = {}
  BY FS_EmptySet DEF Init, PendingJobs
<1>2. TypeOK
  <2>1. NoQueueInfo \in QueueInfo
    <3>1. 0 \in Positions
      BY JobsAssumption, FS_CardinalityType DEF Positions
    <3> QED
      BY <3>1 DEF NoQueueInfo, QueueInfo
  <2>2. [status |-> "none", queue |-> NoQueueInfo] \in Report
    BY <2>1 DEF Report, Statuses
  <2> QED
    BY <1>1, <2>2, EmptySeq DEF Init, TypeOK, Statuses, CallerStates, RunnerStates
<1>3. QueueConsistent
  BY <1>1 DEF Init, QueueConsistent, OnRunner, NotEnqueued
<1>4. SlotBound
  BY <1>1, MaxRange DEF SlotBound
<1>5. NoIdleSlot
  BY <1>1 DEF NoIdleSlot
<1> QED
  BY <1>2, <1>3, <1>4, <1>5 DEF IInv

(* What queueInfo answers is a QueueInfo.                                    *)
LEMMA QueueInfoType ==
    ASSUME TypeOK, QueueConsistent, NEW j \in Jobs
    PROVE  queueInfo(j) \in QueueInfo
<1>1. Cardinality(running) \in Nat /\ Cardinality(Jobs) \in Nat
  BY RunningFinite, JobsAssumption, FS_CardinalityType
<1>2. CASE j \in running
  BY <1>1, <1>2 DEF queueInfo, QueueInfo, Positions
<1>3. CASE j \notin running /\ j \notin PendingJobs
  BY <1>1, <1>3 DEF queueInfo, NoQueueInfo, QueueInfo, Positions
<1>4. CASE j \notin running /\ j \in PendingJobs
  <2> DEFINE index == CHOOSE i \in DOMAIN pending : pending[i] = j
  <2>1. index \in DOMAIN pending
    BY <1>4 DEF PendingJobs
  <2>2. DOMAIN pending = 1..Len(pending) /\ Len(pending) \in Nat /\ Len(pending) <= Cardinality(Jobs)
    BY LenProperties, PendingLength DEF TypeOK
  <2>3. index \in Positions /\ Cardinality(running) + index - 1 \in Nat
    BY <1>1, <2>1, <2>2 DEF Positions
  <2>4. queueInfo(j) = [position  |-> index,
                        ahead     |-> Cardinality(running) + index - 1,
                        slotsUsed |-> Cardinality(running)]
    BY <1>4 DEF queueInfo
  <2> HIDE DEF index
  <2> QED
    BY <1>1, <2>3, <2>4 DEF QueueInfo
<1> QED
  BY <1>2, <1>3, <1>4

(* Steps that leave pending, running and byID alone.                         *)
LEMMA QuietStep ==
    ASSUME IInv, UNCHANGED <<pending, running, byID>>, TypeOK',
           \A j \in Jobs : runner'[j] \in OnRunner <=> runner[j] \in OnRunner,
           \A j \in Jobs : runner[j] = "none" => runner'[j] = "none",
           \A j \in Jobs : caller'[j] \in NotEnqueued <=> caller[j] \in NotEnqueued,
           \A j \in Jobs : status'[j] = "none" <=> caller'[j] \in {"idle", "rejected"},
           \A j \in Jobs : caller[j] = "enqueued" => caller'[j] = "enqueued",
           \A j \in Jobs : runner[j] = "released" => runner'[j] = "released"
    PROVE  IInv'
<1>1. PendingJobs' = PendingJobs
  BY DEF PendingJobs
<1>2. QueueConsistent'
  BY <1>1 DEF IInv, QueueConsistent
<1>3. SlotBound'
  BY DEF IInv, SlotBound
<1>4. NoIdleSlot'
  BY DEF IInv, NoIdleSlot, AboutToStart
<1> QED
  BY <1>2, <1>3, <1>4 DEF IInv

(* Nothing but the two reports of a client changes in these steps.           *)
LEMMA ClientStep ==
    ASSUME IInv, NEW j \in Watched, Client(j)
    PROVE  IInv'
<1>1. j \in Jobs
  BY JobsAssumption
<1>2. NoQueueInfo \in QueueInfo
  <2>1. 0 \in Positions
    BY JobsAssumption, FS_CardinalityType DEF Positions
  <2> QED
    BY <2>1 DEF NoQueueInfo, QueueInfo
<1>3. UNCHANGED <<pending, running, byID, status, caller, runner>>
  BY DEF Client, GetProgressStatus, enrichQueuedProgress
<1>4. TypeOK'
  <2>1. CASE GetProgressStatus(j)
    <3>1. [status |-> status[j], queue |-> NoQueueInfo] \in Report
      BY <1>1, <1>2 DEF IInv, TypeOK, Report
    <3> QED
      BY <1>3, <2>1, <3>1 DEF IInv, TypeOK, GetProgressStatus
  <2>2. CASE enrichQueuedProgress(j)
    <3>1. [status |-> "queued", queue |-> queueInfo(j)] \in Report
      BY <1>1, QueueInfoType DEF IInv, Report, Statuses
    <3> QED
      BY <1>3, <2>2, <3>1 DEF IInv, TypeOK, enrichQueuedProgress
  <2> QED
    BY <2>1, <2>2 DEF Client
<1> QED
  BY <1>3, <1>4, QuietStep DEF IInv, QueueConsistent

(* The steps of Start and of a runner that do not enter a critical section.  *)
LEMMA GoroutineStep ==
    ASSUME IInv, NEW j \in Jobs,
           \/ StartRejected(j) \/ StartCreated(j)
           \/ runQueued(j) \/ MarkRunning(j) \/ run(j) \/ MarkTerminal(j)
    PROVE  IInv'
<1> USE DEF IInv, TypeOK, OnRunner, NotEnqueued, Statuses, CallerStates, RunnerStates
<1>1. CASE StartRejected(j)
  BY <1>1, QuietStep DEF StartRejected, QueueConsistent
<1>2. CASE StartCreated(j)
  BY <1>2, QuietStep DEF StartCreated, QueueConsistent
<1>3. CASE runQueued(j)
  BY <1>3, QuietStep DEF runQueued, QueueConsistent
<1>4. CASE MarkRunning(j)
  BY <1>4, QuietStep DEF MarkRunning, QueueConsistent
<1>5. CASE run(j)
  BY <1>5, QuietStep DEF run, QueueConsistent
<1>6. CASE MarkTerminal(j)
  BY <1>6, QuietStep DEF MarkTerminal, QueueConsistent
<1> QED
  BY <1>1, <1>2, <1>3, <1>4, <1>5, <1>6

LEMMA EnqueueStep ==
    ASSUME IInv, NEW j \in Jobs, enqueue(j)
    PROVE  IInv'
<1>1. /\ Len(pending) \in Nat
      /\ DOMAIN pending = 1..Len(pending)
      /\ \A i \in 1..Len(pending) : pending[i] \in Jobs
  BY LenProperties, ElementOfSeq DEF IInv, TypeOK
<1>2. /\ pending' \in Seq(Jobs)
      /\ Len(pending') = Len(pending) + 1
      /\ \A i \in 1..Len(pending) : pending'[i] = pending[i]
      /\ pending'[Len(pending) + 1] = j
  BY AppendProperties DEF IInv, TypeOK, enqueue
<1>3. DOMAIN pending' = 1..(Len(pending) + 1)
  BY <1>2, LenProperties
<1>4. PendingJobs' = PendingJobs \cup {j}
  <2>1. \A i \in 1..(Len(pending) + 1) : i \in 1..Len(pending) \/ i = Len(pending) + 1
    BY <1>1
  <2>2. 1..Len(pending) \subseteq 1..(Len(pending) + 1) /\ Len(pending) + 1 \in 1..(Len(pending) + 1)
    BY <1>1
  <2> QED
    BY <1>1, <1>2, <1>3, <2>1, <2>2 DEF PendingJobs
<1>5. j \notin PendingJobs /\ j \notin running /\ runner[j] = "none"
  BY DEF IInv, QueueConsistent, NotEnqueued, enqueue
<1>6. TypeOK'
  BY <1>2 DEF IInv, TypeOK, enqueue, CallerStates
<1>7. QueueConsistent'
  <2>1. \A a, b \in DOMAIN pending' : pending'[a] = pending'[b] => a = b
    <3>1. \A a \in 1..Len(pending) : pending'[a] # j
      BY <1>1, <1>2, <1>5 DEF PendingJobs
    <3>2. \A a, b \in 1..Len(pending) : pending'[a] = pending'[b] => a = b
      BY <1>1, <1>2 DEF IInv, QueueConsistent
    <3>3. \A i \in 1..(Len(pending) + 1) : i \in 1..Len(pending) \/ i = Len(pending) + 1
      BY <1>1
    <3> QED
      BY <1>2, <1>3, <3>1, <3>2, <3>3
  <2>2. PendingJobs' \cap running' = {}
    BY <1>4, <1>5 DEF IInv, QueueConsistent, enqueue
  <2>3. byID' = PendingJobs' \cup running'
    BY <1>4 DEF IInv, QueueConsistent, enqueue
  <2>4. \A k \in Jobs : caller'[k] = IF k = j THEN "enqueued" ELSE caller[k]
    BY DEF IInv, TypeOK, enqueue
  <2>5. \A k \in Jobs : k \in running' <=> runner'[k] \in OnRunner
    BY DEF IInv, QueueConsistent, enqueue
  <2>6. \A k \in Jobs : (k \in PendingJobs' \/ caller'[k] \in NotEnqueued) => runner'[k] = "none"
    BY <1>4, <1>5, <2>4 DEF IInv, QueueConsistent, enqueue, NotEnqueued
  <2>7. \A k \in Jobs : caller'[k] \in NotEnqueued => k \notin byID'
    BY <2>4 DEF IInv, QueueConsistent, enqueue, NotEnqueued
  <2>8. \A k \in Jobs : status'[k] = "none" <=> caller'[k] \in {"idle", "rejected"}
    BY <2>4 DEF IInv, QueueConsistent, enqueue
  <2> QED
    BY <2>1, <2>2, <2>3, <2>5, <2>6, <2>7, <2>8 DEF QueueConsistent
<1>8. SlotBound'
  BY DEF IInv, SlotBound, enqueue
<1>9. NoIdleSlot'
  BY DEF IInv, TypeOK, NoIdleSlot, AboutToStart, enqueue
<1> QED
  BY <1>6, <1>7, <1>8, <1>9 DEF IInv

(* tryStartQueuedJobs, called with a table of runners in which the caller    *)
(* itself, if it is a runner, has already gone.                              *)
LEMMA TryStartStep ==
    ASSUME IInv, TakeFirst, UNCHANGED <<byID, status, polled, report>>,
           caller' \in [Jobs -> CallerStates],
           \A k \in Jobs : caller'[k] \in NotEnqueued <=> caller[k] \in NotEnqueued,
           \A k \in Jobs : caller'[k] \in {"idle", "rejected"} <=> caller[k] \in {"idle", "rejected"},
           runner' \in [Jobs -> RunnerStates],
           \A k \in First(StartCount) : runner'[k] = "spawned",
           \A k \in Jobs \ First(StartCount) :
               /\ runner'[k] \in OnRunner <=> runner[k] \in OnRunner
               /\ runner[k] = "none" => runner'[k] = "none"
    PROVE  IInv'
<1>1. /\ pending' \in Seq(Jobs)
      /\ Len(pending') = Len(pending) - StartCount
      /\ \A i \in 1..Len(pending') : pending'[i] = pending[i + StartCount]
      /\ running' \subseteq Jobs
      /\ First(StartCount) \subseteq PendingJobs
      /\ Cardinality(running') = Cardinality(running) + StartCount
      /\ PendingJobs' = PendingJobs \ First(StartCount)
      /\ pending' = <<>> \/ Cardinality(running') = Max
  BY TryStartEffect DEF IInv
<1>2. running' = running \cup First(StartCount)
  BY DEF TakeFirst
<1>3. TypeOK'
  BY <1>1 DEF IInv, TypeOK
<1>4. QueueConsistent'
  <2>1. \A a, b \in DOMAIN pending' : pending'[a] = pending'[b] => a = b
    <3>1. PICK n \in 0..Len(pending) : n = StartCount
      BY StartCountRange DEF IInv
    <3>2. DOMAIN pending' = 1..Len(pending') /\ DOMAIN pending = 1..Len(pending) /\ Len(pending) \in Nat
      BY <1>1, LenProperties DEF IInv, TypeOK
    <3>3. Len(pending') = Len(pending) - n
      BY <1>1, <3>1
    <3>4. \A i \in 1..Len(pending') : pending'[i] = pending[i + n]
      BY <1>1, <3>1
    <3>5. \A i \in 1..Len(pending') : i + n \in 1..Len(pending)
      BY <3>2, <3>3
    <3>6. SUFFICES ASSUME NEW a \in 1..Len(pending'), NEW b \in 1..Len(pending'),
                          pending'[a] = pending'[b]
                   PROVE  a = b
      BY <3>2
    <3>7. pending[a + n] = pending[b + n]
      BY <3>4, <3>6
    <3>8. a + n = b + n
      BY <3>2, <3>5, <3>7 DEF IInv, QueueConsistent
    <3> QED
      BY <3>2, <3>3, <3>8
  <2>2. PendingJobs' \cap running' = {}
    BY <1>1, <1>2 DEF IInv, QueueConsistent
  <2>3. byID' = PendingJobs' \cup running'
    BY <1>1, <1>2 DEF IInv, QueueConsistent
  <2>4. \A k \in Jobs : k \in running' <=> runner'[k] \in OnRunner
    BY <1>1, <1>2 DEF IInv, QueueConsistent, OnRunner
  <2>5. \A k \in Jobs : (k \in PendingJobs' \/ caller'[k] \in NotEnqueued) => runner'[k] = "none"
    BY <1>1 DEF IInv, QueueConsistent
  <2>6. \A k \in Jobs : caller'[k] \in NotEnqueued => k \notin byID'
    BY DEF IInv, QueueConsistent
  <2>7. \A k \in Jobs : status'[k] = "none" <=> caller'[k] \in {"idle", "rejected"}
    BY DEF IInv, QueueConsistent
  <2> QED
    BY <2>1, <2>2, <2>3, <2>4, <2>5, <2>6, <2>7 DEF QueueConsistent
<1>5. SlotBound'
  BY <1>1, StartCountRange DEF IInv, SlotBound
<1>6. NoIdleSlot'
  <2>1. ~(pending' # <<>> /\ Cardinality(running') < Max)
    BY <1>1, MaxRange
  <2> QED
    BY <2>1 DEF NoIdleSlot
<1> QED
  BY <1>3, <1>4, <1>5, <1>6 DEF IInv

LEMMA EnqueueTryStartStep ==
    ASSUME IInv, NEW j \in Jobs, EnqueueTryStart(j)
    PROVE  IInv'
<1>1. TakeFirst /\ UNCHANGED <<byID, status, polled, report>>
  BY DEF EnqueueTryStart, tryStartQueuedJobs, TakeFirst, First
<1>2. runner' = [k \in Jobs |-> IF k \in First(StartCount) THEN "spawned" ELSE runner[k]]
  BY DEF EnqueueTryStart, tryStartQueuedJobs, First
<1>3. First(StartCount) \subseteq Jobs
  BY StartCountRange, FirstCardinality DEF IInv
<1>4. /\ runner' \in [Jobs -> RunnerStates]
      /\ \A k \in First(StartCount) : runner'[k] = "spawned"
      /\ \A k \in Jobs \ First(StartCount) : runner'[k] = runner[k]
  BY <1>2, <1>3 DEF IInv, TypeOK, RunnerStates
<1>5. /\ caller' \in [Jobs -> CallerStates]
      /\ \A k \in Jobs : caller'[k] = IF k = j THEN "returned" ELSE caller[k]
      /\ caller[j] = "enqueued"
  BY DEF EnqueueTryStart, IInv, TypeOK, CallerStates
<1>6. /\ \A k \in Jobs : caller'[k] \in NotEnqueued <=> caller[k] \in NotEnqueued
      /\ \A k \in Jobs : caller'[k] \in {"idle", "rejected"} <=> caller[k] \in {"idle", "rejected"}
  BY <1>5 DEF NotEnqueued
<1> QED
  BY <1>1, <1>4, <1>5, <1>6, TryStartStep

LEMMA ReleaseTryStartStep ==
    ASSUME IInv, NEW j \in Jobs, ReleaseTryStart(j)
    PROVE  IInv'
<1> DEFINE r == [runner EXCEPT ![j] = "gone"]
<1>1. TakeFirst /\ UNCHANGED <<byID, status, polled, report>> /\ UNCHANGED caller
  BY DEF ReleaseTryStart, tryStartQueuedJobs, TakeFirst, First
<1>2. runner' = [k \in Jobs |-> IF k \in First(StartCount) THEN "spawned" ELSE r[k]]
  BY DEF ReleaseTryStart, tryStartQueuedJobs, First
<1>3. First(StartCount) \subseteq Jobs
  BY StartCountRange, FirstCardinality DEF IInv
<1>4. /\ r \in [Jobs -> RunnerStates]
      /\ \A k \in Jobs : r[k] = IF k = j THEN "gone" ELSE runner[k]
      /\ runner[j] = "released"
  BY DEF IInv, TypeOK, RunnerStates, ReleaseTryStart
<1> HIDE DEF r
<1>5. /\ runner' \in [Jobs -> RunnerStates]
      /\ \A k \in First(StartCount) : runner'[k] = "spawned"
      /\ \A k \in Jobs \ First(StartCount) : runner'[k] = r[k]
  BY <1>2, <1>3, <1>4 DEF RunnerStates
<1>6. \A k \in Jobs \ First(StartCount) :
          /\ runner'[k] \in OnRunner <=> runner[k] \in OnRunner
          /\ runner[k] = "none" => runner'[k] = "none"
  BY <1>4, <1>5 DEF OnRunner
<1>7. caller' \in [Jobs -> CallerStates]
  BY <1>1 DEF IInv, TypeOK
<1> QED
  BY <1>1, <1>5, <1>6, <1>7, TryStartStep

LEMMA ReleaseStep ==
    ASSUME IInv, NEW j \in Jobs, releaseQueueSlot(j)
    PROVE  IInv'
<1>1. PendingJobs' = PendingJobs
  BY DEF releaseQueueSlot, PendingJobs
<1>2. /\ j \in running
      /\ \A k \in Jobs : runner'[k] = IF k = j THEN "released" ELSE runner[k]
  BY DEF releaseQueueSlot, IInv, TypeOK, QueueConsistent, OnRunner
<1>3. TypeOK'
  BY DEF releaseQueueSlot, IInv, TypeOK, RunnerStates
<1>4. QueueConsistent'
  BY <1>1, <1>2 DEF releaseQueueSlot, IInv, QueueConsistent, OnRunner
<1>5. SlotBound'
  <2>1. Cardinality(running') = Cardinality(running) - 1 /\ Cardinality(running) \in Nat
    BY <1>2, RunningFinite, FS_RemoveElement DEF releaseQueueSlot, IInv
  <2> QED
    BY <2>1, MaxRange DEF IInv, SlotBound
<1>6. NoIdleSlot'
  BY <1>2 DEF NoIdleSlot, AboutToStart
<1> QED
  BY <1>3, <1>4, <1>5, <1>6 DEF IInv

--------------------------------------------------------------------------------
(* The inductive invariant: no step of any goroutine or client breaks it.    *)
LEMMA StepIInv ==
    ASSUME IInv, [Next]_vars
    PROVE  IInv'
<1>1. ASSUME NEW j \in Jobs, Request(j) PROVE IInv'
  BY <1>1, GoroutineStep, EnqueueStep, EnqueueTryStartStep DEF Request
<1>2. ASSUME NEW j \in Jobs, Runner(j) PROVE IInv'
  BY <1>2, GoroutineStep, ReleaseStep, ReleaseTryStartStep DEF Runner
<1>3. ASSUME NEW j \in Watched, Client(j) PROVE IInv'
  BY <1>3, ClientStep
<1>4. CASE UNCHANGED vars
  BY <1>4 DEF vars, IInv, TypeOK, QueueConsistent, SlotBound, NoIdleSlot,
              AboutToStart, PendingJobs
<1> QED
  BY <1>1, <1>2, <1>3, <1>4 DEF Next

THEOREM Invariance == Spec => []IInv
  BY InitIInv, StepIInv, PTL DEF Spec

(* Every variable keeps its type.                                            *)
THEOREM TypeCorrect == Spec => []TypeOK
<1>1. IInv => TypeOK
  BY DEF IInv
<1> QED
  BY <1>1, Invariance, PTL

(* At most MIGRATE_QUEUE_CONCURRENCY migrations run, and never more than 5.  *)
THEOREM SlotsBounded == Spec => []SlotBound
<1>1. IInv => SlotBound
  BY DEF IInv
<1> QED
  BY <1>1, Invariance, PTL

(* A free slot beside a waiting job is always about to be filled.            *)
THEOREM SlotsNeverIdle == Spec => []NoIdleSlot
<1>1. IInv => NoIdleSlot
  BY DEF IInv
<1> QED
  BY <1>1, Invariance, PTL

(* pending, running and byID agree with each other and with the goroutines.  *)
THEOREM ViewsAgree == Spec => []QueueConsistent
<1>1. IInv => QueueConsistent
  BY DEF IInv
<1> QED
  BY <1>1, Invariance, PTL

--------------------------------------------------------------------------------
(* The queue implements JobServer: each step of a goroutine or a client is a *)
(* submission, a start of the oldest waiting jobs within the free slots, the *)
(* end of a running job, or nothing the abstract server sees.                *)

Served == {j \in Jobs : runner[j] \in {"released", "gone"}}

LEMMA MappedVars ==
    /\ Server!Waiting = PendingJobs
    /\ (UNCHANGED <<pending, running>> /\ Served' = Served) => UNCHANGED Server!vars
BY DEF Server!Waiting, PendingJobs, Server!vars, Served

(* The abstract server counts with the same operator.                        *)
LEMMA SameCardinality == \A S : Server!Cardinality(S) = Cardinality(S)
BY DEF Server!Cardinality, Cardinality

LEMMA MappedInit == Init => Server!Init
BY DEF Init, Server!Init

LEMMA MappedEnqueue ==
    ASSUME IInv, NEW j \in Jobs, enqueue(j)
    PROVE  Server!Submit(j)
<1>1. j \notin PendingJobs /\ j \notin running /\ j \notin Served
  BY DEF IInv, QueueConsistent, NotEnqueued, enqueue, Served
<1>2. Served' = Served
  BY DEF enqueue, Served
<1> QED
  BY <1>1, <1>2, MappedVars DEF enqueue, Server!Submit, Served

LEMMA MappedRelease ==
    ASSUME IInv, NEW j \in Jobs, releaseQueueSlot(j)
    PROVE  Server!Finish(j)
<1>1. j \in running
  BY DEF IInv, QueueConsistent, OnRunner, releaseQueueSlot
<1>2. \A k \in Jobs : runner'[k] = IF k = j THEN "released" ELSE runner[k]
  BY DEF IInv, TypeOK, releaseQueueSlot
<1>3. Served' = Served \cup {j}
  BY <1>2 DEF Served
<1> QED
  BY <1>1, <1>3 DEF releaseQueueSlot, Server!Finish, Served

LEMMA MappedTryStart ==
    ASSUME IInv, TakeFirst, Served' = Served
    PROVE  Server!Serve \/ UNCHANGED Server!vars
<1>1. PICK n \in 0..Len(pending) : n = StartCount /\ Cardinality(running) + n <= Max
  BY StartCountRange DEF IInv
<1>2. Len(pending) \in Nat
  BY LenProperties DEF IInv, TypeOK
<1>3. CASE n = 0
  <2>1. First(0) = {}
    BY DEF First
  <2>2. running' = running
    BY <1>1, <1>3, <2>1 DEF TakeFirst
  <2>3. pending' = SubSeq(pending, 1, Len(pending))
    BY <1>1, <1>3 DEF TakeFirst
  <2>4. pending' = pending
    BY <2>3, SubSeqFull DEF IInv, TypeOK
  <2> QED
    BY <2>2, <2>4, MappedVars
<1>4. CASE n # 0
  <2>1. n \in 1..Len(pending)
    BY <1>2, <1>4
  <2>2. /\ running' = running \cup {pending[i] : i \in 1..n}
        /\ pending' = SubSeq(pending, n + 1, Len(pending))
    BY <1>1 DEF TakeFirst, First
  <2> QED
    BY <1>1, <2>1, <2>2, SameCardinality DEF Server!Serve, Served
<1> QED
  BY <1>3, <1>4

LEMMA StartersNotServed == IInv => First(StartCount) \cap Served = {}
<1> SUFFICES ASSUME IInv PROVE First(StartCount) \cap Served = {}
  OBVIOUS
<1>1. First(StartCount) \subseteq PendingJobs
  BY StartCountRange, FirstCardinality DEF IInv
<1> QED
  BY <1>1 DEF IInv, QueueConsistent, Served

LEMMA MappedEnqueueTryStart ==
    ASSUME IInv, NEW j \in Jobs, EnqueueTryStart(j)
    PROVE  Server!Serve \/ UNCHANGED Server!vars
<1>1. TakeFirst
  BY DEF EnqueueTryStart, tryStartQueuedJobs, TakeFirst, First
<1>2. runner' = [k \in Jobs |-> IF k \in First(StartCount) THEN "spawned" ELSE runner[k]]
  BY DEF EnqueueTryStart, tryStartQueuedJobs, First
<1>3. Served' = Served
  BY <1>2, StartersNotServed DEF Served
<1> QED
  BY <1>1, <1>3, MappedTryStart

LEMMA MappedReleaseTryStart ==
    ASSUME IInv, NEW j \in Jobs, ReleaseTryStart(j)
    PROVE  Server!Serve \/ UNCHANGED Server!vars
<1> DEFINE r == [runner EXCEPT ![j] = "gone"]
<1>1. TakeFirst
  BY DEF ReleaseTryStart, tryStartQueuedJobs, TakeFirst, First
<1>2. runner' = [k \in Jobs |-> IF k \in First(StartCount) THEN "spawned" ELSE r[k]]
  BY DEF ReleaseTryStart, tryStartQueuedJobs, First
<1>3. /\ \A k \in Jobs : r[k] = IF k = j THEN "gone" ELSE runner[k]
      /\ runner[j] = "released"
  BY DEF IInv, TypeOK, ReleaseTryStart
<1> HIDE DEF r
<1>4. Served' = Served
  BY <1>2, <1>3, StartersNotServed DEF Served
<1> QED
  BY <1>1, <1>4, MappedTryStart

(* A step that touches neither the queue nor the end of a runner.            *)
LEMMA MappedQuiet ==
    ASSUME IInv, NEW j \in Jobs,
           \/ StartRejected(j) \/ StartCreated(j)
           \/ runQueued(j) \/ MarkRunning(j) \/ run(j) \/ MarkTerminal(j)
    PROVE  UNCHANGED Server!vars
<1>1. UNCHANGED <<pending, running>>
  BY DEF StartRejected, StartCreated, runQueued, MarkRunning, run, MarkTerminal
<1>2. Served' = Served
  BY DEF IInv, TypeOK, Served, StartRejected, StartCreated,
         runQueued, MarkRunning, run, MarkTerminal
<1> QED
  BY <1>1, <1>2, MappedVars

LEMMA MappedClient ==
    ASSUME NEW j \in Watched, Client(j)
    PROVE  UNCHANGED Server!vars
<1>1. UNCHANGED <<pending, running, runner>>
  BY DEF Client, GetProgressStatus, enrichQueuedProgress
<1> QED
  BY <1>1, MappedVars DEF Served

THEOREM ImplementsJobServerSafely == Spec => Server!SafeSpec
<1>1. IInv /\ [Next]_vars => [Server!Next]_(Server!vars)
  <2> SUFFICES ASSUME IInv, [Next]_vars PROVE [Server!Next]_(Server!vars)
    OBVIOUS
  <2>1. ASSUME NEW j \in Jobs, Request(j) PROVE [Server!Next]_(Server!vars)
    BY <2>1, MappedQuiet, MappedEnqueue, MappedEnqueueTryStart DEF Request, Server!Next
  <2>2. ASSUME NEW j \in Jobs, Runner(j) PROVE [Server!Next]_(Server!vars)
    BY <2>2, MappedQuiet, MappedRelease, MappedReleaseTryStart DEF Runner, Server!Next
  <2>3. ASSUME NEW j \in Watched, Client(j) PROVE [Server!Next]_(Server!vars)
    BY <2>3, MappedClient
  <2>4. CASE UNCHANGED vars
    <3>1. UNCHANGED <<pending, running>> /\ Served' = Served
      BY <2>4 DEF vars, Served
    <3> QED
      BY <3>1, MappedVars
  <2> QED
    BY <2>1, <2>2, <2>3, <2>4 DEF Next
<1> QED
  BY <1>1, MappedInit, Invariance, PTL DEF Spec, Server!SafeSpec
--------------------------------------------------------------------------------
(* What a client is told.  The strengthening ties the last report of a job   *)
(* to the job as it is: the status is no earlier than the reported one, and  *)
(* what queueInfo would say now no more than what it said then.              *)
Moving == {"torn", "running", "terminal"}

StatusByRunner ==
    \A j \in Jobs :
        /\ runner[j] \in {"none", "spawned"} => status[j] \in {"none", "queued"}
        /\ runner[j] \in {"starting", "finishing"} => status[j] = "torn"
        /\ runner[j] = "started" => status[j] = "running"
        /\ runner[j] \in {"finished", "released", "gone"} => status[j] = "terminal"

\* queueInfo, of a queue that is given.
Info(busy, wait, j) ==
    IF j \in busy
    THEN [position |-> 0, ahead |-> 0, slotsUsed |-> Cardinality(busy)]
    ELSE IF j \notin {wait[i] : i \in DOMAIN wait} THEN NoQueueInfo
    ELSE LET index == CHOOSE i \in DOMAIN wait : wait[i] = j
         IN  [position  |-> index,
              ahead     |-> Cardinality(busy) + index - 1,
              slotsUsed |-> Cardinality(busy)]

NotGrown(old, new) == new.position <= old.position /\ new.ahead <= old.ahead

AsReported ==
    \A j \in Watched :
        /\ report[j].status # "none" \/ polled[j] => caller[j] = "returned"
        /\ report[j].status \in Moving => status[j] \in Moving
        /\ report[j].status = "terminal" => status[j] = "terminal"
        /\ polled[j] => report[j].status \in {"none", "queued"}
        /\ report[j].status = "queued" => NotGrown(report[j].queue, Info(running, pending, j))

ReportInv == IInv /\ StatusByRunner /\ AsReported

LEMMA InfoIsQueueInfo ==
    ASSUME NEW j
    PROVE  queueInfo(j) = Info(running, pending, j) /\ queueInfo(j)' = Info(running', pending', j)
  BY DEF queueInfo, Info, PendingJobs

(* What is said of a job that runs, waits in the i-th place, or is gone. *)
LEMMA InfoAt ==
    ASSUME NEW busy, Cardinality(busy) \in Nat, NEW wait \in Seq(Jobs), NEW j,
           \A a, b \in 1..Len(wait) : wait[a] = wait[b] => a = b
    PROVE  LET said == Info(busy, wait, j)
           IN  /\ said.position \in Nat /\ said.ahead \in Nat
               /\ j \in busy => said.position = 0 /\ said.ahead = 0
               /\ \A i \in 1..Len(wait) : wait[i] = j /\ j \notin busy =>
                     said.position = i /\ said.ahead = Cardinality(busy) + i - 1
               /\ (\A i \in 1..Len(wait) : wait[i] # j) => said.position = 0 /\ said.ahead = 0
<1>1. DOMAIN wait = 1..Len(wait) /\ Len(wait) \in Nat
  BY LenProperties
<1>2. CASE j \in busy
  <2>1. Info(busy, wait, j).position = 0 /\ Info(busy, wait, j).ahead = 0
    BY <1>2 DEF Info
  <2> QED
    BY <1>2, <2>1
<1>3. CASE j \notin busy /\ \A i \in 1..Len(wait) : wait[i] # j
  <2>1. Info(busy, wait, j) = NoQueueInfo
    BY <1>1, <1>3 DEF Info
  <2> QED
    BY <1>3, <2>1 DEF NoQueueInfo
<1>4. ASSUME j \notin busy, NEW i \in 1..Len(wait), wait[i] = j
      PROVE  Info(busy, wait, j).position = i /\ Info(busy, wait, j).ahead = Cardinality(busy) + i - 1
  <2>1. (CHOOSE k \in DOMAIN wait : wait[k] = j) = i
    BY <1>1, <1>4
  <2>2. j \in {wait[k] : k \in DOMAIN wait}
    BY <1>1, <1>4
  <2> QED
    BY <1>4, <2>1, <2>2 DEF Info
<1>5. ASSUME j \notin busy, NEW i \in 1..Len(wait), wait[i] = j
      PROVE  Info(busy, wait, j).position \in Nat /\ Info(busy, wait, j).ahead \in Nat
  BY <1>4, <1>5
<1> QED
  BY <1>2, <1>3, <1>4, <1>5

(* In any step, the number before a job that was enqueued does not grow. *)
LEMMA InfoNotGrown ==
    ASSUME IInv, IInv', [Next]_vars, NEW j \in Jobs, caller[j] = "returned"
    PROVE  LET now  == Info(running, pending, j)
               next == Info(running', pending', j)
           IN  /\ now.position \in Nat /\ now.ahead \in Nat
               /\ next.position \in Nat /\ next.ahead \in Nat
               /\ NotGrown(now, next)
<1> DEFINE now == Info(running, pending, j)
           next == Info(running', pending', j)
<1>1. /\ pending \in Seq(Jobs) /\ pending' \in Seq(Jobs)
      /\ Len(pending) \in Nat /\ DOMAIN pending = 1..Len(pending)
      /\ Len(pending') \in Nat /\ DOMAIN pending' = 1..Len(pending')
  BY LenProperties DEF IInv, TypeOK
<1>2. /\ Cardinality(running) \in Nat /\ Cardinality(running') \in Nat
      /\ IsFiniteSet(running)
  <2>1. IsFiniteSet(running) /\ IsFiniteSet(running')
    BY JobsAssumption, FS_Subset DEF IInv, TypeOK
  <2> QED
    BY <2>1, FS_CardinalityType
<1>3. /\ \A a, b \in 1..Len(pending) : pending[a] = pending[b] => a = b
      /\ \A i \in 1..Len(pending) : pending[i] \notin running
      /\ \A a, b \in 1..Len(pending') : pending'[a] = pending'[b] => a = b
      /\ \A i \in 1..Len(pending') : pending'[i] \notin running'
  BY <1>1 DEF IInv, QueueConsistent, PendingJobs
<1>4. /\ now.position \in Nat /\ now.ahead \in Nat
      /\ j \in running => now.position = 0 /\ now.ahead = 0
      /\ \A i \in 1..Len(pending) : pending[i] = j /\ j \notin running =>
            now.position = i /\ now.ahead = Cardinality(running) + i - 1
      /\ (\A i \in 1..Len(pending) : pending[i] # j) => now.position = 0 /\ now.ahead = 0
  BY <1>1, <1>2, <1>3, InfoAt
<1>5. /\ next.position \in Nat /\ next.ahead \in Nat
      /\ j \in running' => next.position = 0 /\ next.ahead = 0
      /\ \A i \in 1..Len(pending') : pending'[i] = j /\ j \notin running' =>
            next.position = i /\ next.ahead = Cardinality(running') + i - 1
      /\ (\A i \in 1..Len(pending') : pending'[i] # j) => next.position = 0 /\ next.ahead = 0
  BY <1>1, <1>2, <1>3, InfoAt
<1> SUFFICES NotGrown(now, next)
  BY <1>4, <1>5 DEF now, next
<1> HIDE DEF now, next
<1>6. CASE UNCHANGED <<pending, running>>
  <2>1. now = next
    BY <1>6 DEF now, next
  <2> QED
    BY <1>4, <2>1 DEF NotGrown
<1>7. ASSUME NEW i \in 1..Len(pending'), pending'[i] = j,
             NEW before \in 1..Len(pending), pending[before] = j,
             i <= before, Cardinality(running') + i <= Cardinality(running) + before
      PROVE  NotGrown(now, next)
  <2>1. j \notin running /\ j \notin running'
    BY <1>3, <1>7
  <2>2. /\ now.position = before /\ now.ahead = Cardinality(running) + before - 1
        /\ next.position = i /\ next.ahead = Cardinality(running') + i - 1
    BY <1>4, <1>5, <1>7, <2>1
  <2> QED
    BY <1>2, <1>7, <2>2 DEF NotGrown
<1>8. ASSUME \A i \in 1..Len(pending') : pending'[i] # j
      PROVE  NotGrown(now, next)
  BY <1>4, <1>5, <1>8 DEF NotGrown
<1>9. ASSUME NEW k \in Jobs, enqueue(k)
      PROVE  NotGrown(now, next)
  <2>1. k # j /\ running' = running /\ pending' = Append(pending, k)
    BY <1>9 DEF enqueue
  <2>2. /\ Len(pending') = Len(pending) + 1 /\ pending'[Len(pending) + 1] = k
        /\ \A i \in 1..Len(pending) : pending'[i] = pending[i]
    BY <1>1, <2>1, AppendProperties
  <2>3. CASE \E i \in 1..Len(pending') : pending'[i] = j
    <3>1. PICK i \in 1..Len(pending') : pending'[i] = j
      BY <2>3
    <3>2. i \in 1..Len(pending) /\ pending[i] = j
      BY <1>1, <2>1, <2>2, <3>1
    <3> QED
      BY <1>2, <1>7, <2>1, <3>1, <3>2
  <2> QED
    BY <1>8, <2>3
<1>10. ASSUME TakeFirst
       PROVE  NotGrown(now, next)
  <2>1. PICK n \in 0..Len(pending) :
            /\ Len(pending') = Len(pending) - n
            /\ \A i \in 1..Len(pending') : pending'[i] = pending[i + n]
            /\ Cardinality(running') = Cardinality(running) + n
    BY <1>10, TryStartEffect, StartCountRange DEF IInv
  <2>2. CASE \E i \in 1..Len(pending') : pending'[i] = j
    <3>1. PICK i \in 1..Len(pending') : pending'[i] = j
      BY <2>2
    <3>2. i + n \in 1..Len(pending) /\ pending[i + n] = j /\ i <= i + n
      BY <1>1, <2>1, <3>1
    <3>3. Cardinality(running') + i <= Cardinality(running) + (i + n)
      <4>1. i \in Nat /\ n \in Nat
        BY <1>1
      <4>2. \A c, d \in Nat : d = c + n => d + i <= c + (i + n)
        BY <4>1
      <4> QED
        BY <1>2, <2>1, <4>2
    <3> QED
      BY <1>7, <3>1, <3>2, <3>3
  <2> QED
    BY <1>8, <2>2
<1>11. ASSUME NEW k \in Jobs, releaseQueueSlot(k)
       PROVE  NotGrown(now, next)
  <2>1. pending' = pending /\ running' = running \ {k}
    BY <1>11 DEF releaseQueueSlot
  <2>2. Cardinality(running') <= Cardinality(running)
    BY <1>2, <2>1, FS_Subset
  <2>3. CASE \E i \in 1..Len(pending') : pending'[i] = j
    <3>1. PICK i \in 1..Len(pending') : pending'[i] = j
      BY <2>3
    <3>2. i \in 1..Len(pending) /\ pending[i] = j
      BY <2>1, <3>1
    <3>3. Cardinality(running') + i <= Cardinality(running) + i
      BY <1>1, <1>2, <2>2
    <3> QED
      BY <1>7, <3>1, <3>2, <3>3
  <2> QED
    BY <1>8, <2>3
<1>12. ASSUME NEW k \in Jobs, Request(k)
       PROVE  NotGrown(now, next)
  <2>1. CASE StartRejected(k) \/ StartCreated(k)
    BY <1>6, <2>1 DEF StartRejected, StartCreated, now, next
  <2>2. CASE EnqueueTryStart(k)
    BY <1>10, <2>2 DEF EnqueueTryStart, tryStartQueuedJobs, TakeFirst, First
  <2> QED
    BY <1>9, <1>12, <2>1, <2>2 DEF Request
<1>13. ASSUME NEW k \in Jobs, Runner(k)
       PROVE  NotGrown(now, next)
  <2>1. CASE runQueued(k) \/ MarkRunning(k) \/ run(k) \/ MarkTerminal(k)
    BY <1>6, <2>1 DEF runQueued, MarkRunning, run, MarkTerminal, now, next
  <2>2. CASE ReleaseTryStart(k)
    BY <1>10, <2>2 DEF ReleaseTryStart, tryStartQueuedJobs, TakeFirst, First
  <2> QED
    BY <1>11, <1>13, <2>1, <2>2 DEF Runner
<1>14. ASSUME NEW k \in Watched, Client(k)
       PROVE  NotGrown(now, next)
  BY <1>6, <1>14 DEF Client, GetProgressStatus, enrichQueuedProgress, now, next
<1>15. CASE UNCHANGED vars
  BY <1>6, <1>15 DEF vars, now, next
<1> QED
  BY <1>12, <1>13, <1>14, <1>15 DEF Next

(* At the start no job has a status, and no client has been told anything.   *)
LEMMA ReportInit == Init => StatusByRunner /\ AsReported
  BY DEF Init, StatusByRunner, AsReported, Moving

LEMMA StatusByRunnerStep ==
    ASSUME IInv, StatusByRunner, [Next]_vars
    PROVE  StatusByRunner'
<1>1. /\ status \in [Jobs -> Statuses] /\ runner \in [Jobs -> RunnerStates]
      /\ \A k \in Jobs : status[k] = "none" <=> caller[k] \in {"idle", "rejected"}
      /\ \A k \in Jobs : caller[k] \in NotEnqueued => runner[k] = "none"
      /\ First(StartCount) \subseteq PendingJobs
      /\ \A k \in PendingJobs : runner[k] = "none"
  <2>1. StartCount \in 0..Len(pending)
    BY StartCountRange DEF IInv
  <2>2. PendingJobs \subseteq Jobs /\ First(StartCount) \subseteq PendingJobs
    BY <2>1, FirstCardinality, LenProperties, ElementOfSeq DEF IInv, TypeOK, PendingJobs
  <2> QED
    BY <2>2 DEF IInv, TypeOK, QueueConsistent
<1>2. ASSUME NEW j \in Jobs, Request(j)
      PROVE  StatusByRunner'
  <2>1. CASE StartRejected(j) \/ StartCreated(j) \/ enqueue(j)
    BY <1>1, <2>1 DEF StartRejected, StartCreated, enqueue, StatusByRunner, NotEnqueued
  <2>2. CASE EnqueueTryStart(j)
    BY <1>1, <2>2 DEF EnqueueTryStart, tryStartQueuedJobs, First, StatusByRunner
  <2> QED
    BY <1>2, <2>1, <2>2 DEF Request
<1>3. ASSUME NEW j \in Jobs, Runner(j)
      PROVE  StatusByRunner'
  <2>1. CASE runQueued(j)
    BY <1>1, <2>1 DEF runQueued, StatusByRunner, NotEnqueued
  <2>2. CASE MarkRunning(j) \/ run(j) \/ MarkTerminal(j) \/ releaseQueueSlot(j)
    BY <1>1, <2>2 DEF MarkRunning, run, MarkTerminal, releaseQueueSlot, StatusByRunner
  <2>3. CASE ReleaseTryStart(j)
    BY <1>1, <2>3 DEF ReleaseTryStart, tryStartQueuedJobs, First, StatusByRunner
  <2> QED
    BY <1>3, <2>1, <2>2, <2>3 DEF Runner
<1>4. ASSUME NEW j \in Watched, Client(j)
      PROVE  StatusByRunner'
  BY <1>4 DEF Client, GetProgressStatus, enrichQueuedProgress, StatusByRunner
<1>5. CASE UNCHANGED vars
  BY <1>5 DEF vars, StatusByRunner
<1> QED
  BY <1>2, <1>3, <1>4, <1>5 DEF Next

(* No step takes a status back. *)
LEMMA StatusMoves ==
    ASSUME IInv, StatusByRunner, [Next]_vars, NEW j \in Jobs
    PROVE  /\ status[j] \in Moving => status'[j] \in Moving
           /\ status[j] = "terminal" => status'[j] = "terminal"
           /\ caller[j] = "returned" => caller'[j] = "returned"
<1>1. /\ status \in [Jobs -> Statuses] /\ runner \in [Jobs -> RunnerStates]
      /\ caller \in [Jobs -> CallerStates]
      /\ \A k \in Jobs : status[k] = "none" <=> caller[k] \in {"idle", "rejected"}
  BY DEF IInv, TypeOK, QueueConsistent
<1>2. CASE \E k \in Jobs : Request(k)
  BY <1>1, <1>2 DEF Request, StartRejected, StartCreated, enqueue, EnqueueTryStart,
                    tryStartQueuedJobs, Moving
<1>3. CASE \E k \in Jobs : Runner(k)
  BY <1>1, <1>3 DEF Runner, runQueued, MarkRunning, run, MarkTerminal, releaseQueueSlot,
                    ReleaseTryStart, tryStartQueuedJobs, StatusByRunner, Moving
<1>4. CASE \E k \in Watched : Client(k)
  BY <1>4 DEF Client, GetProgressStatus, enrichQueuedProgress
<1>5. CASE UNCHANGED vars
  BY <1>5 DEF vars
<1> QED
  BY <1>2, <1>3, <1>4, <1>5 DEF Next

(* An answer is no earlier than the one before, and counts no more.          *)
LEMMA AnswerStep ==
    ASSUME IInv, StatusByRunner, AsReported, NEW j \in Watched, Client(j)
    PROVE  AsReported' /\ \A k \in Watched : NotBack(report[k], report'[k])
<1>1. /\ status \in [Jobs -> Statuses] /\ j \in Jobs /\ polled \in [Watched -> BOOLEAN]
      /\ report \in [Watched -> Report]
      /\ \A k \in Jobs : status[k] = "none" <=> caller[k] \in {"idle", "rejected"}
  BY JobsAssumption DEF IInv, TypeOK, QueueConsistent
<1>2. UNCHANGED <<pending, running, byID, status, caller, runner>>
  BY DEF Client, GetProgressStatus, enrichQueuedProgress
<1>3. \A k \in Watched : NotGrown(report[k].queue, report[k].queue)
                         /\ report[k].queue.position \in Nat /\ report[k].queue.ahead \in Nat
  <2>1. Cardinality(Jobs) \in Nat
    BY JobsAssumption, FS_CardinalityType
  <2> QED
    BY <1>1, <2>1 DEF Report, QueueInfo, Positions, NotGrown
<1>4. CASE GetProgressStatus(j) /\ status[j] = "queued"
  <2>1. report' = report /\ polled' = [polled EXCEPT ![j] = TRUE] /\ caller[j] = "returned"
    BY <1>4 DEF GetProgressStatus
  <2>2. report[j].status \in {"none", "queued"}
    BY <1>1, <1>4 DEF AsReported, Moving, Report, Statuses
  <2>3. AsReported'
    BY <1>1, <1>2, <2>1, <2>2 DEF AsReported
  <2>4. \A k \in Watched : NotBack(report[k], report'[k])
    BY <1>1, <1>3, <2>1 DEF NotBack, NotGrown, Later, Report, Statuses
  <2> QED
    BY <2>3, <2>4
<1>5. CASE GetProgressStatus(j) /\ status[j] # "queued"
  <2>1. /\ report' = [report EXCEPT ![j] = [status |-> status[j], queue |-> NoQueueInfo]]
        /\ polled' = polled /\ caller[j] = "returned" /\ ~polled[j]
    BY <1>5 DEF GetProgressStatus
  <2>2. status[j] \in Moving
    BY <1>1, <1>5, <2>1 DEF Statuses, Moving
  <2>3. AsReported'
    BY <1>1, <1>2, <1>5, <2>1, <2>2 DEF AsReported
  <2>4. NotBack(report[j], report'[j])
    BY <1>1, <1>5, <2>1, <2>2 DEF AsReported, NotBack, Later, Report, Statuses, Moving
  <2>5. \A k \in Watched \ {j} : NotBack(report[k], report'[k])
    BY <1>1, <1>3, <2>1 DEF NotBack, NotGrown, Later, Report, Statuses
  <2> QED
    BY <2>3, <2>4, <2>5
<1>6. CASE enrichQueuedProgress(j)
  <2> DEFINE said == Info(running, pending, j)
  <2>1. /\ report' = [report EXCEPT ![j] = [status |-> "queued", queue |-> said]]
        /\ polled' = [polled EXCEPT ![j] = FALSE] /\ polled[j]
    BY <1>6, InfoIsQueueInfo DEF enrichQueuedProgress
  <2>2. NotGrown(said, said)
    <3>1. said \in QueueInfo /\ Cardinality(Jobs) \in Nat
      BY <1>1, InfoIsQueueInfo, QueueInfoType, JobsAssumption, FS_CardinalityType DEF IInv
    <3> QED
      BY <3>1 DEF NotGrown, QueueInfo, Positions
  <2> HIDE DEF said
  <2>3. \A k \in Watched : Info(running', pending', k) = Info(running, pending, k)
    BY <1>2
  <2>4. AsReported'
    <3>1. caller[j] = "returned"
      BY <2>1 DEF AsReported
    <3> QED
      BY <1>1, <1>2, <2>1, <2>2, <2>3, <3>1 DEF AsReported, Moving, said
  <2>5. NotBack(report[j], report'[j])
    <3>1. report[j].status \in {"none", "queued"}
      BY <2>1 DEF AsReported
    <3>2. report'[j] = [status |-> "queued", queue |-> said]
      BY <1>1, <2>1
    <3>3. report[j].status = "queued" => NotGrown(report[j].queue, said)
      BY DEF AsReported, said
    <3>4. "queued" \in Later[report[j].status]
      BY <3>1 DEF Later, Statuses
    <3> QED
      BY <3>2, <3>3, <3>4 DEF NotBack, NotGrown
  <2>6. \A k \in Watched \ {j} : NotBack(report[k], report'[k])
    BY <1>1, <1>3, <2>1 DEF NotBack, NotGrown, Later, Report, Statuses
  <2> QED
    BY <2>4, <2>5, <2>6
<1> QED
  BY <1>4, <1>5, <1>6 DEF Client

LEMMA ReportStep ==
    ASSUME ReportInv, [Next]_vars
    PROVE  ReportInv' /\ \A k \in Watched : NotBack(report[k], report'[k])
<1>1. IInv' /\ StatusByRunner'
  BY StepIInv, StatusByRunnerStep DEF ReportInv
<1>2. CASE \E j \in Watched : Client(j)
  BY <1>1, <1>2, AnswerStep DEF ReportInv
<1>3. ASSUME UNCHANGED <<report, polled>>
      PROVE  AsReported' /\ \A k \in Watched : NotBack(report[k], report'[k])
  <2>1. ASSUME NEW k \in Watched
        PROVE  /\ k \in Jobs /\ report[k] \in Report
               /\ report[k].queue.position \in Nat /\ report[k].queue.ahead \in Nat
    <3>1. Cardinality(Jobs) \in Nat
      BY JobsAssumption, FS_CardinalityType
    <3> QED
      BY <3>1, JobsAssumption DEF ReportInv, IInv, TypeOK, Report, QueueInfo, Positions
  <2>2. ASSUME NEW k \in Watched, report[k].status = "queued"
        PROVE  NotGrown(report[k].queue, Info(running', pending', k))
    <3>1. NotGrown(report[k].queue, Info(running, pending, k)) /\ caller[k] = "returned"
      BY <2>2 DEF ReportInv, AsReported
    <3>2. /\ Info(running, pending, k).position \in Nat /\ Info(running, pending, k).ahead \in Nat
          /\ Info(running', pending', k).position \in Nat /\ Info(running', pending', k).ahead \in Nat
          /\ NotGrown(Info(running, pending, k), Info(running', pending', k))
      BY <1>1, <2>1, <3>1, InfoNotGrown DEF ReportInv
    <3> QED
      BY <2>1, <3>1, <3>2 DEF NotGrown
  <2>3. AsReported'
    BY <1>3, <2>1, <2>2, StatusMoves DEF ReportInv, AsReported
  <2>4. \A k \in Watched : NotBack(report[k], report'[k])
    BY <1>3, <2>1 DEF NotBack, Later, Report, Statuses
  <2> QED
    BY <2>3, <2>4
<1>4. (\E j \in Watched : Client(j)) \/ UNCHANGED <<report, polled>>
  BY DEF Next, Request, Runner, StartRejected, StartCreated, enqueue, EnqueueTryStart,
         tryStartQueuedJobs, runQueued, MarkRunning, run, MarkTerminal, releaseQueueSlot,
         ReleaseTryStart, vars
<1> QED
  BY <1>1, <1>2, <1>3, <1>4 DEF ReportInv

(* For any number of jobs, what a client is told of its job never goes back: *)
(* neither the status nor, while it is queued, its position and the jobs     *)
(* ahead of it (GetProgress, enrichQueuedProgress).                          *)
THEOREM ReportsMoveForwardHolds == Spec => ReportsMoveForward
<1>1. Init => ReportInv
  BY InitIInv, ReportInit DEF ReportInv
<1>2. ReportInv /\ [Next]_vars => ReportInv'
  BY ReportStep
<1>3. ReportInv /\ [Next]_vars => [\A j \in Watched : NotBack(report[j], report'[j])]_vars
  BY ReportStep
<1> QED
  BY <1>1, <1>2, <1>3, PTL DEF Spec, ReportsMoveForward

================================================================================
