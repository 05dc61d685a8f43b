------------------------------ MODULE MigrateJob ------------------------------
(***************************************************************************)
(* The life of one migration job: the goroutine that runs it, the progress *)
(* record it fills in memory, the two copies persist keeps of that record  *)
(* (a Redis key, best effort, then the row of migrate_jobs), a client that *)
(* follows the job by its stream or by polling until it ends or until its  *)
(* request does, and crashes of the process, after which memory and        *)
(* goroutine are gone and the two copies are all there is.                 *)
(***************************************************************************)
EXTENDS Naturals, Sequences

CONSTANT MaxCrashes   \* how often the process may die (bound)

ASSUME CrashesAssumption == MaxCrashes \in Nat

VARIABLES
    stage,    \* the part of run the goroutine of the job is in
    point,    \* where in that part it stands
    dump,     \* the TV Time dump: "off", "asked", "failed" or "saved"
    mem,      \* the progress in s.states; Nothing before Start and after a crash
    redis,    \* the progress under migrate:job:<id>
    row,      \* the row of migrate_jobs
    todo,     \* the writes the goroutine still has to issue before it goes on
    lost,     \* the stores that refused a write of the final progress
    client,   \* the client: "unaware", "polling", "closed", "error" or "cut"
    copied,   \* the status GetProgress has copied out of a progress it is copying
    served,   \* the progress that ended the client's stream, Nothing before
    crashes   \* how often the process died

vars == <<stage, point, dump, mem, redis, row, todo, lost, client, copied, served, crashes>>

--------------------------------------------------------------------------------
(* The progress of a job.  Counters, activities and log lines are left out,  *)
(* but for the line a job ends with: finalLog says that it is there.         *)

Steps == {"tvtime_login", "serializd_login", "gather_shows",
          "check_existing", "import_shows", "summary"}
StepStatuses == {"pending", "running", "done", "wrong_credentials", "error"}
Terminal == {"completed", "failed"}

\* "nothing": there is no progress.  "empty": the '{}' a new row starts with.
Statuses == {"nothing", "empty", "queued", "running"} \cup Terminal

Progress == [status : Statuses, step : [Steps -> StepStatuses],
             exportID : BOOLEAN, finalLog : BOOLEAN]

Blank(st) == [status |-> st, step |-> [s \in Steps |-> "pending"],
              exportID |-> FALSE, finalLog |-> FALSE]
Nothing == Blank("nothing")

Rows == [status : {"none", "pending", "running"} \cup Terminal,
         progress : Progress, exportID : BOOLEAN, completedAt : BOOLEAN]

Writes == [to : {"redis", "row", "mark"}, as : {"pending", "running"} \cup Terminal]

Stages == {"start", "queue", "tvtime_login", "serializd_login", "gather_shows", "dump",
           "check_existing", "import_shows", "complete", "fail", "ended", "dead"}

NextStage ==
    [s \in {"tvtime_login", "serializd_login"} |->
        IF s = "tvtime_login" THEN "serializd_login" ELSE "gather_shows"]

Init ==
    /\ stage = "start" /\ point = "enter"
    /\ dump = "off"
    /\ mem = Nothing
    /\ redis = Nothing
    /\ row = [status |-> "none", progress |-> Blank("empty"),
              exportID |-> FALSE, completedAt |-> FALSE]
    /\ todo = <<>>
    /\ lost = {}
    /\ client = "unaware" /\ copied = "nothing" /\ served = Nothing
    /\ crashes = 0

--------------------------------------------------------------------------------
(* persist: Redis first, then the row; either may refuse, and the goroutine  *)
(* logs that and goes on.  MarkCompleted or MarkFailed follows the last one. *)

persistProgress(st) == <<[to |-> "redis", as |-> st], [to |-> "row", as |-> st]>>

WriteRedis ==
    /\ todo # <<>> /\ Head(todo).to = "redis"
    /\ redis' = mem
    /\ todo' = Tail(todo)
    /\ UNCHANGED <<stage, point, dump, mem, row, lost, client, copied, served, crashes>>

UpdateProgress ==
    /\ todo # <<>> /\ Head(todo).to = "row"
    /\ row' = [row EXCEPT !.status = Head(todo).as, !.progress = mem]
    /\ todo' = Tail(todo)
    /\ UNCHANGED <<stage, point, dump, mem, redis, lost, client, copied, served, crashes>>

MarkTerminal ==
    /\ todo # <<>> /\ Head(todo).to = "mark"
    /\ row' = [status |-> Head(todo).as, progress |-> mem, completedAt |-> TRUE,
               exportID |-> IF Head(todo).as = "completed" THEN dump = "saved" ELSE row.exportID]
    /\ todo' = Tail(todo)
    /\ UNCHANGED <<stage, point, dump, mem, redis, lost, client, copied, served, crashes>>

WriteFails ==
    /\ todo # <<>>
    /\ todo' = Tail(todo)
    /\ lost' = IF Head(todo).as \in Terminal THEN lost \cup {Head(todo).to} ELSE lost
    /\ UNCHANGED <<stage, point, dump, mem, redis, row, client, copied, served, crashes>>

--------------------------------------------------------------------------------
(* Start and runQueued *)

(* Jobs.Create, the first progress (both logins were checked just before),   *)
(* and its first persist.                                                    *)
Start(asked) ==
    /\ stage = "start" /\ point = "enter"
    /\ dump' = IF asked THEN "asked" ELSE "off"
    /\ row' = [row EXCEPT !.status = "pending"]
    /\ mem' = [Blank("queued") EXCEPT !.step["tvtime_login"] = "done",
                                      !.step["serializd_login"] = "done"]
    /\ todo' = persistProgress("pending")
    /\ point' = "call"
    /\ UNCHANGED <<stage, redis, lost, client, copied, served, crashes>>

(* s.enqueue, after which Start returns the id to the client. *)
Enqueue ==
    /\ stage = "start" /\ point = "call" /\ todo = <<>>
    /\ stage' = "queue" /\ point' = "enter"
    /\ client' = "polling"
    /\ UNCHANGED <<dump, mem, redis, row, todo, lost, copied, served, crashes>>

runQueued ==
    /\ stage = "queue"
    /\ mem' = [mem EXCEPT !.status = "running"]
    /\ todo' = persistProgress("running")
    /\ stage' = "tvtime_login"
    /\ UNCHANGED <<point, dump, redis, row, lost, client, copied, served, crashes>>

--------------------------------------------------------------------------------
(* run: the steps one after the other *)

GoOn(nextStage, nextMem) ==
    /\ mem' = nextMem
    /\ stage' = nextStage /\ point' = "enter"
    /\ todo' = persistProgress("running")
    /\ UNCHANGED <<redis, row, lost, client, copied, served, crashes>>

BeginStep(s) ==
    /\ s \in {"tvtime_login", "serializd_login", "gather_shows", "check_existing"}
    /\ stage = s /\ point = "enter" /\ todo = <<>>
    /\ mem' = [mem EXCEPT !.step[s] = "running"]
    /\ todo' = persistProgress("running")
    /\ point' = "call"
    /\ UNCHANGED <<stage, dump, redis, row, lost, client, copied, served, crashes>>

(* The workers of a step count their results and persist now and then: once  *)
(* per step here (bound).                                                    *)
ReportProgress ==
    /\ stage \in {"gather_shows", "check_existing", "import_shows"}
    /\ point = "call" /\ todo = <<>>
    /\ todo' = persistProgress("running")
    /\ point' = "reported"
    /\ UNCHANGED <<stage, dump, mem, redis, row, lost, client, copied, served, crashes>>

Called(s) == stage = s /\ point \in {"call", "reported"} /\ todo = <<>>

LoginFails(s, why) ==
    /\ s \in {"tvtime_login", "serializd_login"}
    /\ Called(s)
    /\ mem' = [mem EXCEPT !.step[s] = why]
    /\ stage' = "fail" /\ point' = "status"
    /\ UNCHANGED <<dump, redis, row, todo, lost, client, copied, served, crashes>>

LoginDone(s) ==
    /\ s \in {"tvtime_login", "serializd_login"}
    /\ Called(s)
    /\ GoOn(NextStage[s], [mem EXCEPT !.step[s] = "done"])
    /\ UNCHANGED dump

GatherFails ==
    /\ Called("gather_shows")
    /\ mem' = [mem EXCEPT !.step["gather_shows"] = "error"]
    /\ stage' = "fail" /\ point' = "status"
    /\ UNCHANGED <<dump, redis, row, todo, lost, client, copied, served, crashes>>

GatherDone ==
    /\ Called("gather_shows")
    /\ GoOn(IF dump = "off" THEN "check_existing" ELSE "dump",
            [mem EXCEPT !.step["gather_shows"] = "done"])
    /\ UNCHANGED dump

(* applyGatherProgress: saveDump reports through the gather step. *)
DumpReports ==
    /\ stage = "dump" /\ point \in {"enter", "call"} /\ todo = <<>>
    /\ mem' = [mem EXCEPT !.step["gather_shows"] = "running"]
    /\ todo' = persistProgress("running")
    /\ point' = IF point = "enter" THEN "call" ELSE "reported"
    /\ UNCHANGED <<stage, dump, redis, row, lost, client, copied, served, crashes>>

DumpSaved ==
    /\ Called("dump")
    /\ dump' = "saved"
    /\ GoOn("check_existing", [mem EXCEPT !.exportID = TRUE])

DumpFails ==
    /\ stage = "dump" /\ todo = <<>>
    /\ dump' = "failed"
    /\ GoOn("check_existing", mem)

CheckFails ==
    /\ Called("check_existing")
    /\ stage' = "fail" /\ point' = "status"
    /\ UNCHANGED <<dump, mem, redis, row, todo, lost, client, copied, served, crashes>>

CheckDone ==
    /\ Called("check_existing")
    /\ mem' = [mem EXCEPT !.step["check_existing"] = "done", !.step["import_shows"] = "running"]
    /\ stage' = "import_shows" /\ point' = "call"
    /\ todo' = persistProgress("running")
    /\ UNCHANGED <<dump, redis, row, lost, client, copied, served, crashes>>

ImportDone ==
    /\ Called("import_shows")
    /\ mem' = [mem EXCEPT !.step["import_shows"] = "done"]
    /\ stage' = "complete" /\ point' = "summary"
    /\ UNCHANGED <<dump, redis, row, todo, lost, client, copied, served, crashes>>

--------------------------------------------------------------------------------
(* The last step, and migrateFailFunc: field after field, since GetProgress  *)
(* copies the record without a lock the writer would hold.                   *)

(* Faulty: the new Summary does not take over the old ExportID. *)
CompleteSummaryAfresh ==
    /\ stage = "complete" /\ point = "summary"
    /\ mem' = [mem EXCEPT !.step["summary"] = "done", !.exportID = FALSE]
    /\ point' = "status"
    /\ UNCHANGED <<stage, dump, redis, row, todo, lost, client, copied, served, crashes>>

CompleteSummary ==
    /\ stage = "complete" /\ point = "summary"
    /\ mem' = [mem EXCEPT !.step["summary"] = "done"]
    /\ point' = "status"
    /\ UNCHANGED <<stage, dump, redis, row, todo, lost, client, copied, served, crashes>>

(* Faulty: failing leaves the status to MarkFailed. *)
TerminalStatusOnlyCompleted ==
    /\ stage \in {"complete", "fail"} /\ point = "status"
    /\ mem' = [mem EXCEPT !.status = IF stage = "complete" THEN "completed" ELSE @]
    /\ point' = "log"
    /\ UNCHANGED <<stage, dump, redis, row, todo, lost, client, copied, served, crashes>>

TerminalStatus ==
    /\ stage \in {"complete", "fail"} /\ point = "status"
    /\ mem' = [mem EXCEPT !.status = IF stage = "complete" THEN "completed" ELSE "failed"]
    /\ point' = "log"
    /\ UNCHANGED <<stage, dump, redis, row, todo, lost, client, copied, served, crashes>>

EndWith(writes) ==
    /\ stage \in {"complete", "fail"} /\ point = "log"
    /\ mem' = [mem EXCEPT !.finalLog = TRUE]
    /\ todo' = writes
    /\ stage' = "ended" /\ point' = "enter"
    /\ UNCHANGED <<dump, redis, row, lost, client, copied, served, crashes>>

mark == <<[to |-> "mark", as |-> mem.status]>>

(* Faulty: a status the enumeration of the database does not have. *)
TerminalLogWithStage == EndWith(persistProgress(stage) \o mark)

(* Faulty: the row is marked before the last persist. *)
TerminalLogMarkFirst == EndWith(mark \o persistProgress("running"))

(* Faulty: no MarkCompleted, no MarkFailed. *)
TerminalLogUnmarked == EndWith(persistProgress(mem.status))

(* Faulty: MarkCompleted or MarkFailed is thought to be enough. *)
TerminalLogUnpersisted == EndWith(mark)

TerminalLog == EndWith(persistProgress(mem.status) \o mark)

--------------------------------------------------------------------------------
(* GetProgress, as the handlers of GET .../{id} and .../{id}/stream use it:  *)
(* they ask again until the status is terminal, there is an error, or the    *)
(* context of the request is done.                                           *)

Answer(p) ==
    /\ IF p.status \in Terminal
       THEN client' = "closed" /\ served' = p
       ELSE UNCHANGED <<client, served>>
    /\ copied' = "nothing"

(* The copy of the record reads Status, its second field, and the rest after *)
(* it; the goroutine of the job may write in between.                        *)
CopyStatus ==
    /\ client = "polling" /\ mem.status # "nothing" /\ copied = "nothing"
    /\ copied' = mem.status
    /\ UNCHANGED <<stage, point, dump, mem, redis, row, todo, lost, client, served, crashes>>

CopyRest ==
    /\ client = "polling" /\ copied # "nothing"
    /\ Answer([mem EXCEPT !.status = copied])
    /\ UNCHANGED <<stage, point, dump, mem, redis, row, todo, lost, crashes>>

(* No state in memory: Redis, and the row when the key is missing. *)
Stored == IF redis.status # "nothing" THEN redis ELSE row.progress

\* What GetProgress answers now.
Current == IF mem.status # "nothing" THEN mem ELSE Stored

PollStores ==
    /\ client = "polling" /\ mem.status = "nothing"
    /\ Answer(Stored)
    /\ UNCHANGED <<stage, point, dump, mem, redis, row, todo, lost, crashes>>

(* Redis or the database cannot be read: the client is told there is no job. *)
PollFails ==
    /\ client = "polling" /\ mem.status = "nothing"
    /\ client' = "error"
    /\ UNCHANGED <<stage, point, dump, mem, redis, row, todo, lost, copied, served, crashes>>

(* The context of the stream's request is done, after the 30 minutes of its  *)
(* route or because the client has gone: Stream returns between two answers. *)
StreamCut ==
    /\ client = "polling" /\ copied = "nothing"
    /\ client' = "cut"
    /\ UNCHANGED <<stage, point, dump, mem, redis, row, todo, lost, copied, served, crashes>>

(* A client that was cut off or told of an error asks again. *)
AskAgain ==
    /\ client \in {"cut", "error"}
    /\ client' = "polling"
    /\ UNCHANGED <<stage, point, dump, mem, redis, row, todo, lost, copied, served, crashes>>

--------------------------------------------------------------------------------
(* The environment: the process dies and is started again; Redis forgets a   *)
(* key that was not written for a day.                                       *)

Crash ==
    /\ crashes < MaxCrashes
    /\ crashes' = crashes + 1
    /\ mem' = Nothing /\ todo' = <<>> /\ copied' = "nothing"
    /\ stage' = IF stage = "ended" /\ todo = <<>> THEN "ended" ELSE "dead"
    /\ UNCHANGED <<point, dump, redis, row, lost, client, served>>

Expire ==
    /\ stage \in {"queue", "ended", "dead"} /\ todo = <<>>
    /\ redis # Nothing
    /\ redis' = Nothing
    /\ UNCHANGED <<stage, point, dump, mem, row, todo, lost, client, copied, served, crashes>>

Persisting == WriteRedis \/ UpdateProgress \/ MarkTerminal \/ WriteFails

Failing == GatherFails \/ CheckFails
           \/ \E s \in Steps, why \in {"error", "wrong_credentials"} : LoginFails(s, why)

Running ==
    \/ Enqueue \/ runQueued \/ ReportProgress \/ Failing
    \/ \E s \in Steps : BeginStep(s) \/ LoginDone(s)
    \/ GatherDone \/ DumpReports \/ DumpSaved \/ DumpFails \/ CheckDone \/ ImportDone
    \/ CompleteSummary \/ TerminalStatus \/ TerminalLog

Polling == CopyStatus \/ CopyRest \/ PollStores

Next ==
    \/ \E asked \in BOOLEAN : Start(asked)
    \/ Persisting \/ Running \/ Polling \/ PollFails \/ StreamCut \/ AskAgain
    \/ Crash \/ Expire

Spec == Init /\ [][Next]_vars

(* The goroutine of a job never blocks for good: every call it makes returns *)
(* or times out (but for a dump that hangs, see ExportSave), and a queued    *)
(* job is given a slot (EveryJobServed of MigrateQueue).  The client's ticker*)
(* fires again and again, and Redis does forget a key.  No store is bound to *)
(* fail, and StreamEnds is not to rest on the timeout of the route: PollFails*)
(* and StreamCut are not fair.                                               *)
FairSpec ==
    Spec /\ WF_vars(Persisting) /\ WF_vars(Running) /\ WF_vars(Polling) /\ WF_vars(Expire)

--------------------------------------------------------------------------------
(* Properties *)

TypeOK ==
    /\ stage \in Stages /\ point \in {"enter", "call", "reported", "summary", "status", "log"}
    /\ dump \in {"off", "asked", "failed", "saved"}
    /\ mem \in Progress /\ redis \in Progress /\ served \in Progress
    /\ row \in Rows
    /\ todo \in Seq(Writes) /\ Len(todo) <= 3
    /\ lost \subseteq {"redis", "row", "mark"}
    /\ client \in {"unaware", "polling", "closed", "error", "cut"}
    /\ copied \in Statuses
    /\ crashes \in 0..MaxCrashes

(* Every record of the progress that anybody can read. *)
Snapshots == {mem, redis, row.progress, served}

(* Whoever reads how the job ended, in memory, in Redis, in the row or in an *)
(* answer put together while the goroutine was writing, reads the rest of it *)
(* too: with "completed" finished steps (all but the gather step, which a    *)
(* dump takes back to running) and the id of the dump exactly when one was   *)
(* saved; with "failed" the step that shows where, one that went wrong, or   *)
(* check_existing still running, which is how that step fails.               *)
TerminalIsWhole ==
    \A p \in Snapshots :
        /\ p.status = "completed" =>
              /\ \A s \in Steps \ {"gather_shows"} : p.step[s] = "done"
              /\ p.exportID <=> dump = "saved"
        /\ p.status = "failed" =>
              \/ \E s \in Steps : p.step[s] \in {"error", "wrong_credentials"}
              \/ p.step["check_existing"] = "running"

(* A row only moves forward, and never leaves its terminal status, whatever  *)
(* is written late, lost, or cut off by a crash.                             *)
Rank == [st \in {"none", "pending", "running"} \cup Terminal |->
            CASE st = "none" -> 0 [] st = "pending" -> 1 [] st = "running" -> 2 [] OTHER -> 3]

RowMovesForward ==
    [][row' # row => \/ Rank[row'.status] > Rank[row.status]
                    \/ row'.status = row.status]_vars

(* The row tells the truth: its status column, which persist is given by its *)
(* caller, says what the progress column says, which it takes from the       *)
(* state, at every moment; and once the goroutine is gone both say how the   *)
(* job ended, unless the database refused both writes that do.               *)
RowTells ==
    /\ row.progress.status =
          CASE row.status = "none" -> "empty"
            [] row.status = "pending" -> IF row.progress = Blank("empty") THEN "empty" ELSE "queued"
            [] OTHER -> row.status
    /\ stage = "ended" /\ todo = <<>> =>
          row.status \in Terminal \/ {"row", "mark"} \subseteq lost

(* If no write of the final progress was refused, a client is given that     *)
(* very outcome ever after: from memory, from Redis after a restart, and     *)
(* from the row when Redis has forgotten.                                    *)
OutcomeSurvivesRestart ==
    stage = "ended" /\ todo = <<>> /\ lost = {} =>
        /\ Current = row.progress
        /\ Current.status \in Terminal /\ Current.finalLog

(* A client that follows the job comes to its end, or to that of its request,*)
(* unless the process dies; and not by the timeout of the request alone.     *)
StreamEnds == client = "polling" ~> client # "polling" \/ crashes > 0

(* What the documents promise, and the code does not keep:                   *)
(* frontend-migrate-api.md says of the status that "queued" is "Waiting for a*)
(* worker slot" and "running" is "Active migration", both to be shown "until *)
(* status is completed or failed".  But nothing takes up a job that a crash  *)
(* has cut off, nor ends it: a client that has its id and asks is told       *)
(* "queued" or "running" for ever.                                           *)
StatusSettles ==
    client # "unaware" /\ Current.status \in {"queued", "running"}
        ~> Current.status \notin {"queued", "running"}

================================================================================
