----------------------------- MODULE MigrateQueue -----------------------------
(***************************************************************************)
(* The in-process migration queue (internal/service/migrate_queue.go) and  *)
(* the goroutines that meet in it: one request goroutine per job, which    *)
(* runs Start, one runner goroutine per started job, which runs runQueued, *)
(* and the clients that read the queue through GetProgress.  What happens  *)
(* between a Lock and its Unlock is one step, and everything a goroutine   *)
(* does between two critical sections is left open to the others.          *)
(***************************************************************************)
EXTENDS Integers, Sequences, FiniteSets

CONSTANTS Jobs,            \* the job ids jobs.Create will hand out
          Watched,         \* the jobs whose progress a client polls
          Hanging,         \* the jobs whose run may never return
          EnvConcurrency   \* MIGRATE_QUEUE_CONCURRENCY: an integer, or anything
                           \* else for a value that is unset or does not parse

ASSUME JobsAssumption ==
    /\ IsFiniteSet(Jobs)
    /\ Watched \subseteq Jobs
    /\ Hanging \subseteq Jobs

VARIABLES
    pending,   \* queue.pending: waiting jobs, oldest first
    running,   \* the keys of queue.running
    byID,      \* the keys of queue.byID
    status,    \* status[j]: progress.Status in the memory state of j, "none" before setState
    caller,    \* caller[j]: where the goroutine that runs Start for j stands
    runner,    \* runner[j]: where the goroutine that runs runQueued for j stands
    polled,    \* polled[j]: the status GetProgress has read before it asks for queueInfo
    report     \* report[j]: the last answer the client of j was given

vars == <<pending, running, byID, status, caller, runner, polled, report>>

--------------------------------------------------------------------------------
(* The number of slots, fixed when the service is built. *)

DefaultQueueConcurrency == 4
MaxQueueConcurrency == 5

queueConcurrency(raw) ==
    IF raw \notin Int \/ raw < 1 THEN DefaultQueueConcurrency
    ELSE IF raw > MaxQueueConcurrency THEN MaxQueueConcurrency
    ELSE raw

Max == queueConcurrency(EnvConcurrency)

--------------------------------------------------------------------------------
(* The states of the goroutines and what a client can see.                   *)
(*                                                                           *)
(* progress.Status is a string that runQueued and run write with no lock     *)
(* while GetProgress copies it under s.mu, which the writer does not hold.   *)
(* A string is two words, so between the two word writes a reader sees a     *)
(* value that is neither the old status nor the new one: "torn".             *)

Statuses == {"none", "queued", "torn", "running", "terminal"}
CallerStates == {"idle", "rejected", "created", "enqueued", "returned"}
RunnerStates ==
    {"none", "spawned", "starting", "started", "finishing", "finished", "released", "gone"}

Positions == 0..Cardinality(Jobs)
QueueInfo == [position : Positions, ahead : Nat, slotsUsed : Nat]
NoQueueInfo == [position |-> 0, ahead |-> 0, slotsUsed |-> 0]
Report == [status : Statuses, queue : QueueInfo]

PendingJobs == {pending[i] : i \in DOMAIN pending}

Init ==
    /\ pending = <<>>
    /\ running = {}
    /\ byID = {}
    /\ status = [j \in Jobs |-> "none"]
    /\ caller = [j \in Jobs |-> "idle"]
    /\ runner = [j \in Jobs |-> "none"]
    /\ polled = [j \in Watched |-> FALSE]
    /\ report = [j \in Watched |-> [status |-> "none", queue |-> NoQueueInfo]]

--------------------------------------------------------------------------------
(* POST /migrate/init: MigrateService.Start and enqueue *)

(* The credentials are refused or the job row cannot be created. *)
StartRejected(j) ==
    /\ caller[j] = "idle"
    /\ caller' = [caller EXCEPT ![j] = "rejected"]
    /\ UNCHANGED <<pending, running, byID, status, runner, polled, report>>

StartCreated(j) ==
    /\ caller[j] = "idle"
    /\ caller' = [caller EXCEPT ![j] = "created"]
    /\ status' = [status EXCEPT ![j] = "queued"]
    /\ UNCHANGED <<pending, running, byID, runner, polled, report>>

(* Faulty: the job is put in front of those that wait. *)
enqueueFirst(j) ==
    /\ caller[j] = "created"
    /\ pending' = <<j>> \o pending
    /\ byID' = byID \cup {j}
    /\ caller' = [caller EXCEPT ![j] = "enqueued"]
    /\ UNCHANGED <<running, status, runner, polled, report>>

enqueue(j) ==
    /\ caller[j] = "created"
    /\ pending' = Append(pending, j)
    /\ byID' = byID \cup {j}
    /\ caller' = [caller EXCEPT ![j] = "enqueued"]
    /\ UNCHANGED <<running, status, runner, polled, report>>

--------------------------------------------------------------------------------
(* tryStartQueuedJobs: the loop that moves jobs from pending to running runs *)
(* under one Lock; the go statements after Unlock only make runners ready.   *)

(* Faulty: <= for < in the loop condition. *)
StartCountOffByOne ==
    LET free == Max - Cardinality(running) + 1
    IN  IF Len(pending) < free THEN Len(pending) ELSE free

StartCount ==
    LET free == Max - Cardinality(running)
    IN  IF free <= 0 THEN 0
        ELSE IF Len(pending) < free THEN Len(pending) ELSE free

(* Faulty: takes the jobs from the end of pending. *)
tryStartNewest(runnerNow) ==
    LET keep == Len(pending) - StartCount
        starters == {pending[i] : i \in keep + 1..Len(pending)}
    IN  /\ pending' = SubSeq(pending, 1, keep)
        /\ running' = running \cup starters
        /\ runner' = [j \in Jobs |-> IF j \in starters THEN "spawned" ELSE runnerNow[j]]
        /\ UNCHANGED <<byID, status, polled, report>>

tryStartQueuedJobs(runnerNow) ==
    LET starters == {pending[i] : i \in 1..StartCount}
    IN  /\ pending' = SubSeq(pending, StartCount + 1, Len(pending))
        /\ running' = running \cup starters
        /\ runner' = [j \in Jobs |-> IF j \in starters THEN "spawned" ELSE runnerNow[j]]
        /\ UNCHANGED <<byID, status, polled, report>>

(* Faulty: leaves the queue to the others when it is not alone in it. *)
EnqueueTryStartIfAlone(j) ==
    /\ caller[j] = "enqueued"
    /\ IF Len(pending) > 1
       THEN UNCHANGED <<pending, running, byID, status, runner, polled, report>>
       ELSE tryStartQueuedJobs(runner)
    /\ caller' = [caller EXCEPT ![j] = "returned"]

(* The second half of enqueue; after it the client has the job id. *)
EnqueueTryStart(j) ==
    /\ caller[j] = "enqueued"
    /\ tryStartQueuedJobs(runner)
    /\ caller' = [caller EXCEPT ![j] = "returned"]

--------------------------------------------------------------------------------
(* The runner goroutine *)

(* runQueued finds the state that Start stored and begins to write Status.   *)
runQueued(j) ==
    /\ runner[j] = "spawned"
    /\ IF status[j] = "none"
       THEN /\ runner' = [runner EXCEPT ![j] = "finished"]
            /\ UNCHANGED status
       ELSE /\ runner' = [runner EXCEPT ![j] = "starting"]
            /\ status' = [status EXCEPT ![j] = "torn"]
    /\ UNCHANGED <<pending, running, byID, caller, polled, report>>

(* The write is complete; from here to the end of run Status is "running".   *)
MarkRunning(j) ==
    /\ runner[j] = "starting"
    /\ runner' = [runner EXCEPT ![j] = "started"]
    /\ status' = [status EXCEPT ![j] = "running"]
    /\ UNCHANGED <<pending, running, byID, caller, polled, report>>

(* run ends, in fail or in runCompleteStep, by writing a terminal status.    *)
run(j) ==
    /\ runner[j] = "started"
    /\ runner' = [runner EXCEPT ![j] = "finishing"]
    /\ status' = [status EXCEPT ![j] = "torn"]
    /\ UNCHANGED <<pending, running, byID, caller, polled, report>>

MarkTerminal(j) ==
    /\ runner[j] = "finishing"
    /\ runner' = [runner EXCEPT ![j] = "finished"]
    /\ status' = [status EXCEPT ![j] = "terminal"]
    /\ UNCHANGED <<pending, running, byID, caller, polled, report>>

(* Faulty: the job stays in byID. *)
releaseKeepsID(j) ==
    /\ runner[j] = "finished"
    /\ running' = running \ {j}
    /\ runner' = [runner EXCEPT ![j] = "released"]
    /\ UNCHANGED <<pending, byID, status, caller, polled, report>>

(* Deferred by runQueued: every way out of it frees the slot. *)
releaseQueueSlot(j) ==
    /\ runner[j] = "finished"
    /\ running' = running \ {j}
    /\ byID' = byID \ {j}
    /\ runner' = [runner EXCEPT ![j] = "released"]
    /\ UNCHANGED <<pending, status, caller, polled, report>>

(* Faulty: a release starts nobody. *)
ReleaseOnly(j) ==
    /\ runner[j] = "released"
    /\ runner' = [runner EXCEPT ![j] = "gone"]
    /\ UNCHANGED <<pending, running, byID, status, caller, polled, report>>

ReleaseTryStart(j) ==
    /\ runner[j] = "released"
    /\ tryStartQueuedJobs([runner EXCEPT ![j] = "gone"])
    /\ UNCHANGED caller

--------------------------------------------------------------------------------
(* GET /migrate/init/{id}: GetProgress reads the status under s.mu, releases *)
(* it, and asks queueInfo, under queue.mu, only if the status was "queued".  *)

(* Faulty: pendingIndex is used when the job was not found. *)
queueInfoUnchecked(j) ==
    IF j \in running
    THEN [position |-> 0, ahead |-> 0, slotsUsed |-> Cardinality(running)]
    ELSE LET index == IF j \in PendingJobs
                      THEN CHOOSE i \in DOMAIN pending : pending[i] = j ELSE 0
         IN  [position  |-> index,
              ahead     |-> Cardinality(running) + index - 1,
              slotsUsed |-> Cardinality(running)]

queueInfo(j) ==
    IF j \in running
    THEN [position |-> 0, ahead |-> 0, slotsUsed |-> Cardinality(running)]
    ELSE IF j \notin PendingJobs THEN NoQueueInfo
    ELSE LET index == CHOOSE i \in DOMAIN pending : pending[i] = j
         IN  [position  |-> index,
              ahead     |-> Cardinality(running) + index - 1,
              slotsUsed |-> Cardinality(running)]

GetProgressStatus(j) ==
    /\ caller[j] = "returned"
    /\ ~polled[j]
    /\ IF status[j] = "queued"
       THEN /\ polled' = [polled EXCEPT ![j] = TRUE]
            /\ UNCHANGED report
       ELSE /\ report' = [report EXCEPT ![j] = [status |-> status[j], queue |-> NoQueueInfo]]
            /\ UNCHANGED polled
    /\ UNCHANGED <<pending, running, byID, status, caller, runner>>

enrichQueuedProgress(j) ==
    /\ polled[j]
    /\ polled' = [polled EXCEPT ![j] = FALSE]
    /\ report' = [report EXCEPT ![j] = [status |-> "queued", queue |-> queueInfo(j)]]
    /\ UNCHANGED <<pending, running, byID, status, caller, runner>>

--------------------------------------------------------------------------------

Request(j) == StartRejected(j) \/ StartCreated(j) \/ enqueue(j) \/ EnqueueTryStart(j)

Runner(j) ==
    \/ runQueued(j) \/ MarkRunning(j) \/ run(j) \/ MarkTerminal(j)
    \/ releaseQueueSlot(j) \/ ReleaseTryStart(j)

Client(j) == GetProgressStatus(j) \/ enrichQueuedProgress(j)

Next ==
    \/ \E j \in Jobs : Request(j) \/ Runner(j)
    \/ \E j \in Watched : Client(j)

(* Whether a client calls is up to the client.  A goroutine that is past its *)
(* first step is scheduled by the Go runtime, and run returns because every  *)
(* outbound call of it has a timeout and a bounded number of retries; but a  *)
(* dump may wait in the database for ever (see ExportSave).                  *)
Returns(j) == Runner(j) /\ ~(j \in Hanging /\ run(j))

Fairness ==
    \A j \in Jobs :
        /\ WF_vars(enqueue(j))
        /\ WF_vars(EnqueueTryStart(j))
        /\ WF_vars(Returns(j))

Spec == Init /\ [][Next]_vars

FairSpec == Spec /\ Fairness

--------------------------------------------------------------------------------
(* Properties *)

(* Every variable keeps its type: the queue holds job ids, a reported        *)
(* position is between 0 and the number of jobs and no count is negative.    *)
TypeOK ==
    /\ pending \in Seq(Jobs)
    /\ running \subseteq Jobs
    /\ byID \subseteq Jobs
    /\ status \in [Jobs -> Statuses]
    /\ caller \in [Jobs -> CallerStates]
    /\ runner \in [Jobs -> RunnerStates]
    /\ polled \in [Watched -> BOOLEAN]
    /\ report \in [Watched -> Report]

(* No more migrations hold a slot than MIGRATE_QUEUE_CONCURRENCY allows,     *)
(* whatever requests and releases interleave, and never more than 5.         *)
SlotBound ==
    /\ Cardinality(running) <= Max
    /\ Max <= MaxQueueConcurrency

(* A slot is never left free over a waiting job for good: while both exist,  *)
(* some goroutine has yet to call tryStartQueuedJobs.                        *)
AboutToStart ==
    \E j \in Jobs : caller[j] = "enqueued" \/ runner[j] = "released"

NoIdleSlot ==
    (pending # <<>> /\ Cardinality(running) < Max) => AboutToStart

(* The three views of the queue agree: a job waits or runs but not both and  *)
(* is queued once, byID holds exactly the queued jobs, a job holds a slot    *)
(* exactly while its runner goroutine lives, no goroutine is started for a   *)
(* waiting job, and the runner finds the state that Start stored.            *)
OnRunner == {"spawned", "starting", "started", "finishing", "finished"}
NotEnqueued == {"idle", "rejected", "created"}

QueueConsistent ==
    /\ PendingJobs \cap running = {}
    /\ \A a, b \in DOMAIN pending : pending[a] = pending[b] => a = b
    /\ byID = PendingJobs \cup running
    /\ \A j \in Jobs : j \in running <=> runner[j] \in OnRunner
    /\ \A j \in Jobs : (j \in PendingJobs \/ caller[j] \in NotEnqueued) => runner[j] = "none"
    /\ \A j \in Jobs : caller[j] \in NotEnqueued => j \notin byID
    /\ \A j \in Jobs : status[j] = "none" <=> caller[j] \in {"idle", "rejected"}

(* What one client is told never goes back: the status moves only forward,   *)
(* and while the job is queued neither its position nor the number of jobs   *)
(* ahead of it ever grows, though each poll reads status and queue in two    *)
(* critical sections with the whole queue moving in between.                 *)
Later ==
    [none     |-> Statuses,
     queued   |-> {"queued", "torn", "running", "terminal"},
     torn     |-> {"torn", "running", "terminal"},
     running  |-> {"torn", "running", "terminal"},
     terminal |-> {"terminal"}]

NotBack(old, new) ==
    /\ new.status \in Later[old.status]
    /\ (old.status = "queued" /\ new.status = "queued") =>
           /\ new.queue.position <= old.queue.position
           /\ new.queue.ahead <= old.queue.ahead

ReportsMoveForward == [][\A j \in Watched : NotBack(report[j], report'[j])]_vars

(* Runs that hang keep their slots and nothing else: while there are fewer   *)
(* of them than slots, every other job that a request brings is queued,      *)
(* started, run to its end and gives its slot back.                          *)
IsServed(j) == caller[j] \in {"idle", "rejected"} \/ runner[j] = "gone"

EveryJobServed ==
    Cardinality(Hanging) < Max => <>[](\A j \in Jobs \ Hanging : IsServed(j))

(* The queue implements JobServer: FIFO order, one slot per job, at most Max *)
(* at once, every submitted job served.                                      *)
Server == INSTANCE JobServer WITH
    Slots   <- Max,
    waiting <- pending,
    serving <- running,
    served  <- {j \in Jobs : runner[j] \in {"released", "gone"}}

ImplementsJobServer == Server!Spec
===============================================================================
