--------------------------- MODULE MigrateJobProofs ---------------------------
(***************************************************************************)
(* Theorems about MigrateJob, for any number of crashes.  The invariant    *)
(* says of every place of the goroutine what the progress is there, which  *)
(* writes are still to be issued, and so what the two copies may hold.     *)
(***************************************************************************)
EXTENDS MigrateJob, SequenceTheorems, TLAPS

Write(to, st) == [to |-> to, as |-> st]

(* What may be left of persist, and of persist and the mark behind it. *)
LeftOfPersist(st) ==
    {<<>>, <<Write("row", st)>>, <<Write("redis", st), Write("row", st)>>}

LeftOfEnd(st) ==
    {<<>>, <<Write("mark", st)>>, <<Write("row", st), Write("mark", st)>>,
     <<Write("redis", st), Write("row", st), Write("mark", st)>>}

Working == {"tvtime_login", "serializd_login", "gather_shows", "dump",
            "check_existing", "import_shows"}

Over == {"complete", "fail", "ended", "dead"}

(* What the status of the progress and of the row is, by where the goroutine *)
(* of the job is.                                                            *)
StatusFits ==
    /\ stage = "start" => IF point = "enter" THEN /\ mem = Nothing
                               /\ row.status = "none" /\ row.progress = Blank("empty")
                          ELSE mem.status = "queued" /\ row.status = "pending"
    /\ stage = "queue" => mem.status = "queued" /\ row.status = "pending"
    /\ stage \in Working => mem.status = "running" /\ row.status \in {"pending", "running"}
    /\ stage = "complete" => /\ mem.status = IF point = "log" THEN "completed" ELSE "running"
                             /\ row.status \in {"pending", "running"}
    /\ stage = "fail" => /\ mem.status = IF point = "log" THEN "failed" ELSE "running"
                         /\ row.status \in {"pending", "running"}
    /\ stage = "ended" =>
          \/ mem = Nothing
          \/ /\ mem.status \in Terminal /\ mem.finalLog
             /\ row.status \in {"pending", "running", mem.status}
    /\ stage = "dead" => mem = Nothing

(* The writes still to be issued: each tells the status the progress has.    *)
WritesFit ==
    /\ stage = "start" => todo \in LeftOfPersist("pending")
    /\ stage \in Working => todo \in LeftOfPersist("running")
    /\ stage \in {"queue", "complete", "fail", "dead"} => todo = <<>>
    /\ stage = "ended" => todo \in LeftOfEnd(mem.status)
    /\ mem = Nothing => todo = <<>>

(* The steps that are done once the goroutine has come that far. *)
DoneBefore ==
    CASE stage = "serializd_login" -> {"tvtime_login"}
      [] stage \in {"gather_shows", "dump", "check_existing"} -> {"tvtime_login", "serializd_login"}
      [] stage = "import_shows" -> {"tvtime_login", "serializd_login", "check_existing"}
      [] stage = "complete" -> {"tvtime_login", "serializd_login", "check_existing", "import_shows"}
                               \cup IF point = "summary" THEN {} ELSE {"summary"}
      [] OTHER -> {}

ShowsWhere(p) ==
    \/ \E s \in Steps : p.step[s] \in {"error", "wrong_credentials"}
    \/ p.step["check_existing"] = "running"

StepsFit ==
    /\ \A s \in DoneBefore : mem.step[s] = "done"
    /\ stage = "fail" => ShowsWhere(mem)
    /\ stage = "check_existing" /\ point \in {"call", "reported"} => mem.step["check_existing"] = "running"
    /\ mem # Nothing => (mem.exportID <=> dump = "saved")

Whole(p) ==
    /\ p.status = "completed" =>
          /\ \A s \in Steps \ {"gather_shows"} : p.step[s] = "done"
          /\ p.exportID <=> dump = "saved"
    /\ p.status = "failed" => ShowsWhere(p)

(* No record tells how the job ended before the goroutine is past run. *)
RecordsFit ==
    /\ \A p \in Snapshots : p.status \in Terminal => stage \in Over /\ Whole(p)
    /\ copied \in Terminal => mem.status = copied

(* What the row holds, and which writes of the end it has seen. *)
RowFits ==
    /\ row.progress.status =
          CASE row.status = "none" -> "empty"
            [] row.status = "pending" -> IF row.progress = Blank("empty") THEN "empty" ELSE "queued"
            [] OTHER -> row.status
    /\ stage = "ended" =>
          /\ Len(todo) < 2 => row.status \in Terminal \/ "row" \in lost
          /\ Len(todo) < 1 => row.status \in Terminal \/ "mark" \in lost

(* With no write of the end refused, the copies are those of the end as soon *)
(* as they are written.                                                      *)
EndKept ==
    stage = "ended" /\ lost = {} =>
        /\ Len(todo) \in 1..2 => redis = mem
        /\ Len(todo) = 1 => row.progress = mem
        /\ todo = <<>> => /\ row.progress.status \in Terminal /\ row.progress.finalLog
                          /\ {mem, redis} \subseteq {Nothing, row.progress}

PointFits ==
    /\ stage = "start" => point \in {"enter", "call"}
    /\ stage = "queue" => point = "enter"
    /\ stage = "complete" => point \in {"summary", "status", "log"}
    /\ stage = "fail" => point \in {"status", "log"}
    /\ stage \in Working => point \in {"enter", "call", "reported"}

(* No dump is there before one is saved, and none is saved that nobody asked *)
(* for.                                                                      *)
DumpFits ==
    /\ stage \in {"start", "queue", "tvtime_login", "serializd_login", "gather_shows"}
          => dump \in {"off", "asked"}
    /\ stage = "dump" => dump = "asked"

JobInv ==
    /\ TypeOK /\ PointFits /\ StatusFits /\ WritesFit /\ DumpFits
    /\ StepsFit /\ RecordsFit /\ RowFits /\ EndKept

--------------------------------------------------------------------------------
(* The operators *)

LEMMA BlankType ==
    ASSUME NEW st \in Statuses
    PROVE  Blank(st) \in Progress /\ Blank(st).status = st /\ ~Blank(st).exportID
  BY DEF Blank, Progress, StepStatuses

LEMMA PersistShapes ==
    ASSUME NEW st, NEW w \in LeftOfPersist(st)
    PROVE  /\ w # <<>> => /\ Head(w) \in {Write("redis", st), Write("row", st)}
                          /\ Tail(w) \in LeftOfPersist(st)
           /\ st \in {"pending", "running"} => w \in Seq(Writes) /\ Len(w) <= 3
<1>1. CASE w = <<>>
  BY <1>1 DEF Writes
<1>2. CASE w = <<Write("row", st)>>
  BY <1>2 DEF LeftOfPersist, Write, Writes
<1>3. CASE w = <<Write("redis", st), Write("row", st)>>
  BY <1>3 DEF LeftOfPersist, Write, Writes
<1> QED
  BY <1>1, <1>2, <1>3 DEF LeftOfPersist

LEMMA EndShapes ==
    ASSUME NEW st, NEW w \in LeftOfEnd(st)
    PROVE  /\ Len(w) \in 0..3 /\ (Len(w) = 0 <=> w = <<>>)
           /\ w # <<>> => /\ Head(w) = Write(IF Len(w) = 3 THEN "redis" ELSE
                                              IF Len(w) = 2 THEN "row" ELSE "mark", st)
                          /\ Tail(w) \in LeftOfEnd(st) /\ Len(Tail(w)) = Len(w) - 1
           /\ st \in Terminal => w \in Seq(Writes)
<1>1. CASE w = <<>>
  BY <1>1 DEF Writes
<1>2. CASE w = <<Write("mark", st)>>
  BY <1>2 DEF LeftOfEnd, Write, Writes
<1>3. CASE w = <<Write("row", st), Write("mark", st)>>
  BY <1>3 DEF LeftOfEnd, Write, Writes
<1>4. CASE w = <<Write("redis", st), Write("row", st), Write("mark", st)>>
  BY <1>4 DEF LeftOfEnd, Write, Writes
<1> QED
  BY <1>1, <1>2, <1>3, <1>4 DEF LeftOfEnd

LEMMA PersistLeft ==
    ASSUME NEW st \in {"pending", "running"}
    PROVE  /\ persistProgress(st) \in LeftOfPersist(st) /\ persistProgress(st) # <<>>
           /\ persistProgress(st) \in Seq(Writes) /\ Len(persistProgress(st)) <= 3
<1>1. persistProgress(st) \in LeftOfPersist(st) /\ persistProgress(st) # <<>>
  BY DEF persistProgress, LeftOfPersist, Write
<1> QED
  BY <1>1, PersistShapes

LEMMA EndLeft ==
    ASSUME mem.status \in Terminal
    PROVE  LET left == persistProgress(mem.status) \o mark
           IN  /\ left \in LeftOfEnd(mem.status) /\ left \in Seq(Writes)
               /\ Len(left) = 3
<1> DEFINE st == mem.status
           left == <<Write("redis", st), Write("row", st), Write("mark", st)>>
<1>1. persistProgress(st) \o mark = left
  <2>1. /\ persistProgress(st) = <<Write("redis", st), Write("row", st)>>
        /\ mark = <<Write("mark", st)>>
    BY DEF persistProgress, mark, Write
  <2>2. /\ persistProgress(st) \in Seq(Writes) /\ mark \in Seq(Writes) /\ left \in Seq(Writes)
        /\ Len(persistProgress(st)) = 2 /\ Len(mark) = 1 /\ Len(left) = 3
    BY <2>1 DEF Write, Writes
  <2>3. /\ persistProgress(st) \o mark \in Seq(Writes)
        /\ Len(persistProgress(st) \o mark) = 3
        /\ \A i \in 1..3 : (persistProgress(st) \o mark)[i] = left[i]
    BY <2>1, <2>2, ConcatProperties
  <2> QED
    BY <2>2, <2>3, SeqEqual
<1>2. left \in LeftOfEnd(st) /\ Len(left) = 3
  BY DEF LeftOfEnd
<1> QED
  BY <1>1, <1>2, EndShapes

(* What is known while there are writes to issue. *)
LEMMA Writing ==
    ASSUME JobInv, todo # <<>>
    PROVE  /\ Head(todo) \in Writes /\ Tail(todo) \in Seq(Writes) /\ Len(Tail(todo)) <= 3
           /\ mem # Nothing
           /\ stage # "ended" =>
                 /\ Head(todo).to \in {"redis", "row"}
                 /\ \/ /\ stage = "start" /\ point = "call" /\ Head(todo).as = "pending"
                       /\ Tail(todo) \in LeftOfPersist("pending")
                    \/ /\ stage \in Working /\ Head(todo).as = "running"
                       /\ Tail(todo) \in LeftOfPersist("running")
           /\ stage = "ended" =>
                 /\ mem.status \in Terminal /\ Len(todo) \in 1..3
                 /\ Len(Tail(todo)) = Len(todo) - 1
                 /\ Head(todo) = Write(IF Len(todo) = 3 THEN "redis" ELSE
                                       IF Len(todo) = 2 THEN "row" ELSE "mark", mem.status)
                 /\ Tail(todo) \in LeftOfEnd(mem.status)
<1>1. /\ Head(todo) \in Writes /\ Tail(todo) \in Seq(Writes) /\ Len(Tail(todo)) <= 3
      /\ stage \in Stages /\ mem # Nothing
  BY DEF JobInv, TypeOK, WritesFit
<1>2. ASSUME stage = "start"
      PROVE  /\ Head(todo).to \in {"redis", "row"} /\ point = "call" /\ Head(todo).as = "pending"
             /\ Tail(todo) \in LeftOfPersist("pending")
  <2>1. todo \in LeftOfPersist("pending") /\ point = "call"
    BY <1>1, <1>2 DEF JobInv, WritesFit, PointFits, StatusFits
  <2>2. Head(todo) \in {Write("redis", "pending"), Write("row", "pending")}
        /\ Tail(todo) \in LeftOfPersist("pending")
    BY <2>1, PersistShapes
  <2> QED
    BY <2>1, <2>2 DEF Write
<1>3. ASSUME stage \in Working
      PROVE  /\ Head(todo).to \in {"redis", "row"} /\ Head(todo).as = "running"
             /\ Tail(todo) \in LeftOfPersist("running")
  <2>1. todo \in LeftOfPersist("running")
    BY <1>3 DEF JobInv, WritesFit
  <2>2. Head(todo) \in {Write("redis", "running"), Write("row", "running")}
        /\ Tail(todo) \in LeftOfPersist("running")
    BY <2>1, PersistShapes
  <2> QED
    BY <2>2 DEF Write
<1>4. ASSUME stage = "ended"
      PROVE  /\ mem.status \in Terminal /\ Len(todo) \in 1..3
             /\ Len(Tail(todo)) = Len(todo) - 1
             /\ Head(todo) = Write(IF Len(todo) = 3 THEN "redis" ELSE
                                   IF Len(todo) = 2 THEN "row" ELSE "mark", mem.status)
             /\ Tail(todo) \in LeftOfEnd(mem.status)
  <2>1. mem.status \in Terminal /\ todo \in LeftOfEnd(mem.status)
    BY <1>1, <1>4 DEF JobInv, WritesFit, StatusFits
  <2> QED
    BY <2>1, EndShapes
<1>5. stage \in {"start", "ended"} \cup Working
  BY <1>1 DEF JobInv, WritesFit, Stages, Working
<1> QED
  BY <1>1, <1>2, <1>3, <1>4, <1>5

--------------------------------------------------------------------------------
(* Every action keeps the invariant. *)

LEMMA StartInv ==
    ASSUME JobInv, NEW asked \in BOOLEAN, Start(asked)
    PROVE  JobInv'
<1>1. todo' \in Seq(Writes) /\ Len(todo') <= 3
  BY PersistLeft DEF Start
<1>2. mem' \in Progress
  <2>1. Blank("queued") \in Progress
    BY BlankType DEF Statuses
  <2> QED
    BY <2>1 DEF Start, Progress, StepStatuses, Steps
<1>3. TypeOK'
  BY <1>1, <1>2 DEF Start, JobInv, TypeOK, Rows
<1>4. PointFits'
  BY DEF Start, PointFits
<1>5. StatusFits'
  BY DEF Start, StatusFits, Blank, Working
<1>6. WritesFit'
  BY PersistLeft, BlankType DEF Start, WritesFit, Working, Nothing, Blank
<1>7. StepsFit' /\ RecordsFit'
  BY DEF Start, JobInv, StepsFit, DoneBefore, Blank, RecordsFit, Snapshots, Terminal, Over
<1>8. RowFits' /\ EndKept'
  BY DEF Start, JobInv, RowFits, StatusFits, EndKept
<1>9. DumpFits'
  BY DEF Start, DumpFits
<1> QED
  BY <1>3, <1>4, <1>5, <1>6, <1>7, <1>8, <1>9 DEF JobInv

LEMMA EnqueueInv ==
    ASSUME JobInv, Enqueue
    PROVE  JobInv'
<1>1. TypeOK'
  BY DEF Enqueue, JobInv, TypeOK, Stages
<1>2. PointFits' /\ StatusFits' /\ WritesFit'
  BY DEF Enqueue, JobInv, PointFits, WritesFit, Working, StatusFits
<1>3. StepsFit' /\ RecordsFit'
  BY DEF Enqueue, JobInv, StepsFit, DoneBefore, RecordsFit, Snapshots, Over
<1>4. RowFits' /\ EndKept'
  BY DEF Enqueue, JobInv, RowFits, EndKept
<1>5. DumpFits'
  BY DEF Enqueue, JobInv, DumpFits
<1> QED
  BY <1>1, <1>2, <1>3, <1>4, <1>5 DEF JobInv

LEMMA runQueuedInv ==
    ASSUME JobInv, runQueued
    PROVE  JobInv'
<1>1. TypeOK'
  BY PersistLeft DEF runQueued, JobInv, TypeOK, Progress, Rows, Statuses, Stages, Blank,
        StatusFits, WritesFit, PointFits
<1>2. PointFits' /\ StatusFits' /\ WritesFit'
  BY PersistLeft DEF runQueued, JobInv, PointFits, WritesFit, StatusFits, Nothing, Blank
<1>3. StepsFit' /\ RecordsFit'
  BY DEF runQueued, JobInv, StepsFit, DoneBefore, StatusFits, Nothing, Blank, RecordsFit,
        Snapshots, Terminal, Over
<1>4. RowFits' /\ EndKept'
  BY DEF runQueued, JobInv, RowFits, EndKept
<1>5. DumpFits'
  BY DEF runQueued, JobInv, DumpFits
<1> QED
  BY <1>1, <1>2, <1>3, <1>4, <1>5 DEF JobInv

LEMMA BeginStepInv ==
    ASSUME JobInv, NEW s \in Steps, BeginStep(s)
    PROVE  JobInv'
<1>1. todo' \in Seq(Writes) /\ Len(todo') <= 3
  BY PersistLeft DEF BeginStep
<1>2. mem' \in Progress
  BY BlankType DEF BeginStep, JobInv, TypeOK, Progress, StepStatuses, Statuses, Steps
<1>3. TypeOK'
  BY <1>1, <1>2 DEF BeginStep, JobInv, TypeOK, Stages, Rows
<1>4. PointFits' /\ StatusFits' /\ WritesFit'
  BY PersistLeft DEF BeginStep, JobInv, PointFits, WritesFit, StatusFits, Nothing, Blank
<1>5. StepsFit' /\ RecordsFit'
  BY DEF BeginStep, JobInv, StepsFit, DoneBefore, StatusFits, TypeOK, Progress, Nothing, Blank,
        Working, RecordsFit, Snapshots, Over
<1>6. RowFits' /\ EndKept'
  BY DEF BeginStep, JobInv, RowFits, EndKept
<1>7. DumpFits'
  BY DEF BeginStep, JobInv, DumpFits
<1> QED
  BY <1>3, <1>4, <1>5, <1>6, <1>7 DEF JobInv

LEMMA ReportProgressInv ==
    ASSUME JobInv, ReportProgress
    PROVE  JobInv'
<1>1. TypeOK'
  BY PersistLeft DEF ReportProgress, JobInv, TypeOK
<1>2. PointFits' /\ StatusFits' /\ WritesFit'
  BY PersistLeft DEF ReportProgress, JobInv, PointFits, WritesFit, Working, StatusFits, Nothing,
        Blank
<1>3. StepsFit' /\ RecordsFit'
  BY DEF ReportProgress, JobInv, StepsFit, DoneBefore, RecordsFit, Snapshots, Over
<1>4. RowFits' /\ EndKept'
  BY DEF ReportProgress, JobInv, RowFits, EndKept
<1>5. DumpFits'
  BY DEF ReportProgress, JobInv, DumpFits
<1> QED
  BY <1>1, <1>2, <1>3, <1>4, <1>5 DEF JobInv

LEMMA LoginFailsInv ==
    ASSUME JobInv, NEW s \in Steps, NEW why \in {"error", "wrong_credentials"}, LoginFails(s, why)
    PROVE  JobInv'
<1>1. TypeOK'
  BY DEF LoginFails, JobInv, TypeOK, Progress, Terminal, StepStatuses, Stages, Nothing, Blank,
        PointFits
<1>2. PointFits' /\ StatusFits' /\ WritesFit'
  BY DEF LoginFails, Called, JobInv, PointFits, WritesFit, Working, StatusFits
<1>3. StepsFit' /\ RecordsFit'
  BY DEF LoginFails, Called, JobInv, StepsFit, DoneBefore, StatusFits, ShowsWhere, TypeOK,
        Progress, Nothing, Blank, Working, RecordsFit, Snapshots, Over
<1>4. RowFits' /\ EndKept'
  BY DEF LoginFails, JobInv, RowFits, EndKept
<1>5. DumpFits'
  BY DEF LoginFails, JobInv, DumpFits
<1> QED
  BY <1>1, <1>2, <1>3, <1>4, <1>5 DEF JobInv

LEMMA LoginDoneInv ==
    ASSUME JobInv, NEW s \in Steps, LoginDone(s)
    PROVE  JobInv'
<1>1. todo' \in Seq(Writes) /\ Len(todo') <= 3
  BY PersistLeft DEF LoginDone, GoOn
<1>2. mem' \in Progress
  BY BlankType DEF LoginDone, GoOn, JobInv, TypeOK, Progress, StepStatuses, Statuses, Steps
<1>3. TypeOK'
  BY <1>1, <1>2 DEF LoginDone, GoOn, NextStage, JobInv, TypeOK, Stages, Rows
<1>4. PointFits' /\ StatusFits' /\ WritesFit'
  BY PersistLeft DEF LoginDone, GoOn, Called, NextStage, JobInv, PointFits, WritesFit, Working,
        StatusFits, Nothing, Blank
<1>5. StepsFit' /\ RecordsFit'
  BY DEF LoginDone, GoOn, Called, NextStage, JobInv, StepsFit, DoneBefore, StatusFits, TypeOK,
        Progress, Nothing, Blank, Working, RecordsFit, Snapshots, Over
<1>6. RowFits' /\ EndKept'
  BY DEF LoginDone, GoOn, NextStage, JobInv, RowFits, EndKept
<1>7. DumpFits'
  BY DEF LoginDone, GoOn, NextStage, Called, JobInv, DumpFits
<1> QED
  BY <1>3, <1>4, <1>5, <1>6, <1>7 DEF JobInv

LEMMA GatherFailsInv ==
    ASSUME JobInv, GatherFails
    PROVE  JobInv'
<1>1. TypeOK'
  BY DEF GatherFails, Called, JobInv, TypeOK, Progress, StepStatuses, Stages
<1>2. PointFits' /\ StatusFits' /\ WritesFit'
  BY DEF GatherFails, Called, JobInv, PointFits, WritesFit, Working, StatusFits
<1>3. StepsFit' /\ RecordsFit'
  BY DEF GatherFails, Called, JobInv, StepsFit, DoneBefore, ShowsWhere, TypeOK, Progress, Steps,
        Nothing, Blank, RecordsFit, Snapshots, Over
<1>4. RowFits' /\ EndKept'
  BY DEF GatherFails, JobInv, RowFits, EndKept
<1>5. DumpFits'
  BY DEF GatherFails, JobInv, DumpFits
<1> QED
  BY <1>1, <1>2, <1>3, <1>4, <1>5 DEF JobInv

LEMMA GatherDoneInv ==
    ASSUME JobInv, GatherDone
    PROVE  JobInv'
<1>1. todo' \in Seq(Writes) /\ Len(todo') <= 3
  BY PersistLeft DEF GatherDone, GoOn
<1>2. mem' \in Progress
  BY BlankType DEF GatherDone, GoOn, JobInv, TypeOK, Progress, StepStatuses, Statuses, Steps
<1>3. TypeOK'
  BY <1>1, <1>2 DEF GatherDone, GoOn, JobInv, TypeOK, Stages, Rows
<1>4. PointFits' /\ StatusFits' /\ WritesFit'
  BY PersistLeft DEF GatherDone, GoOn, Called, JobInv, PointFits, WritesFit, Working,
        StatusFits, Nothing, Blank
<1>5. StepsFit' /\ RecordsFit'
  BY DEF GatherDone, GoOn, Called, JobInv, StepsFit, DoneBefore, Steps, Nothing, Blank,
        RecordsFit, Snapshots, Over
<1>6. RowFits' /\ EndKept'
  BY DEF GatherDone, GoOn, JobInv, RowFits, EndKept
<1>7. DumpFits'
  BY DEF GatherDone, GoOn, Called, JobInv, DumpFits
<1> QED
  BY <1>3, <1>4, <1>5, <1>6, <1>7 DEF JobInv

LEMMA DumpReportsInv ==
    ASSUME JobInv, DumpReports
    PROVE  JobInv'
<1>1. todo' \in Seq(Writes) /\ Len(todo') <= 3
  BY PersistLeft DEF DumpReports
<1>2. mem' \in Progress
  BY BlankType DEF DumpReports, JobInv, TypeOK, Progress, StepStatuses, Statuses, Steps
<1>3. TypeOK'
  BY <1>1, <1>2 DEF DumpReports, JobInv, TypeOK, Stages, Rows
<1>4. PointFits' /\ StatusFits' /\ WritesFit'
  BY PersistLeft DEF DumpReports, JobInv, PointFits, WritesFit, Working, StatusFits, Nothing,
        Blank
<1>5. StepsFit' /\ RecordsFit'
  BY DEF DumpReports, JobInv, StepsFit, DoneBefore, Steps, Nothing, Blank, RecordsFit,
        Snapshots, Over
<1>6. RowFits' /\ EndKept'
  BY DEF DumpReports, JobInv, RowFits, EndKept
<1>7. DumpFits'
  BY DEF DumpReports, JobInv, DumpFits
<1> QED
  BY <1>3, <1>4, <1>5, <1>6, <1>7 DEF JobInv

LEMMA DumpSavedInv ==
    ASSUME JobInv, DumpSaved
    PROVE  JobInv'
<1>1. todo' \in Seq(Writes) /\ Len(todo') <= 3
  BY PersistLeft DEF DumpSaved, GoOn
<1>2. mem' \in Progress
  BY BlankType DEF DumpSaved, GoOn, JobInv, TypeOK, Progress, StepStatuses, Statuses, Steps
<1>3. TypeOK'
  BY <1>1, <1>2 DEF DumpSaved, GoOn, JobInv, TypeOK, Stages, Rows
<1>4. PointFits' /\ StatusFits' /\ WritesFit'
  BY PersistLeft DEF DumpSaved, GoOn, Called, JobInv, PointFits, WritesFit, Working, StatusFits,
        Nothing, Blank
<1>5. StepsFit' /\ RecordsFit'
  BY DEF DumpSaved, GoOn, Called, JobInv, StepsFit, DoneBefore, RecordsFit, Snapshots, Over
<1>6. RowFits' /\ EndKept'
  BY DEF DumpSaved, GoOn, JobInv, RowFits, EndKept
<1>7. DumpFits'
  BY DEF DumpSaved, GoOn, JobInv, DumpFits
<1> QED
  BY <1>3, <1>4, <1>5, <1>6, <1>7 DEF JobInv

LEMMA DumpFailsInv ==
    ASSUME JobInv, DumpFails
    PROVE  JobInv'
<1>1. TypeOK'
  BY PersistLeft DEF DumpFails, GoOn, JobInv, TypeOK, Stages
<1>2. PointFits' /\ StatusFits' /\ WritesFit'
  BY PersistLeft DEF DumpFails, GoOn, JobInv, PointFits, WritesFit, Working, StatusFits,
        Nothing, Blank
<1>3. StepsFit'
  BY DEF DumpFails, GoOn, JobInv, StepsFit, DoneBefore, DumpFits
<1>4. RecordsFit'
  BY DEF DumpFails, GoOn, JobInv, RecordsFit, Snapshots, Over
<1>5. RowFits' /\ EndKept'
  BY DEF DumpFails, GoOn, JobInv, RowFits, EndKept
<1>6. DumpFits'
  BY DEF DumpFails, GoOn, JobInv, DumpFits
<1> QED
  BY <1>1, <1>2, <1>3, <1>4, <1>5, <1>6 DEF JobInv

LEMMA CheckFailsInv ==
    ASSUME JobInv, CheckFails
    PROVE  JobInv'
<1>1. TypeOK'
  BY DEF CheckFails, JobInv, TypeOK, Stages
<1>2. PointFits' /\ StatusFits' /\ WritesFit'
  BY DEF CheckFails, Called, JobInv, PointFits, WritesFit, Working, StatusFits
<1>3. StepsFit' /\ RecordsFit'
  BY DEF CheckFails, Called, JobInv, StepsFit, DoneBefore, ShowsWhere, RecordsFit, Snapshots,
        Over
<1>4. RowFits' /\ EndKept'
  BY DEF CheckFails, JobInv, RowFits, EndKept
<1>5. DumpFits'
  BY DEF CheckFails, JobInv, DumpFits
<1> QED
  BY <1>1, <1>2, <1>3, <1>4, <1>5 DEF JobInv

LEMMA CheckDoneInv ==
    ASSUME JobInv, CheckDone
    PROVE  JobInv'
<1>1. todo' \in Seq(Writes) /\ Len(todo') <= 3
  BY PersistLeft DEF CheckDone
<1>2. mem' \in Progress
  BY BlankType DEF CheckDone, JobInv, TypeOK, Progress, StepStatuses, Statuses, Steps
<1>3. TypeOK'
  BY <1>1, <1>2 DEF CheckDone, JobInv, TypeOK, Stages, Rows
<1>4. PointFits'
  BY DEF CheckDone, PointFits
<1>5. StatusFits'
  BY DEF CheckDone, Called, JobInv, StatusFits, Working
<1>6. WritesFit'
  BY PersistLeft DEF CheckDone, Called, JobInv, WritesFit, Working, StatusFits, Nothing, Blank
<1>7. StepsFit' /\ RecordsFit'
  BY DEF CheckDone, Called, JobInv, StepsFit, DoneBefore, TypeOK, Progress, Steps, Nothing,
        Blank, RecordsFit, Snapshots, Over
<1>8. RowFits' /\ EndKept'
  BY DEF CheckDone, JobInv, RowFits, EndKept
<1>9. DumpFits'
  BY DEF CheckDone, JobInv, DumpFits
<1> QED
  BY <1>3, <1>4, <1>5, <1>6, <1>7, <1>8, <1>9 DEF JobInv

LEMMA ImportDoneInv ==
    ASSUME JobInv, ImportDone
    PROVE  JobInv'
<1>1. TypeOK'
  BY DEF ImportDone, Called, JobInv, TypeOK, Progress, StepStatuses, Stages
<1>2. PointFits' /\ StatusFits' /\ WritesFit'
  BY DEF ImportDone, Called, JobInv, PointFits, WritesFit, Working, StatusFits
<1>3. StepsFit' /\ RecordsFit'
  BY DEF ImportDone, Called, JobInv, StepsFit, DoneBefore, TypeOK, Progress, Steps, Nothing,
        Blank, RecordsFit, Snapshots, Over
<1>4. RowFits' /\ EndKept'
  BY DEF ImportDone, JobInv, RowFits, EndKept
<1>5. DumpFits'
  BY DEF ImportDone, JobInv, DumpFits
<1> QED
  BY <1>1, <1>2, <1>3, <1>4, <1>5 DEF JobInv

LEMMA CompleteSummaryInv ==
    ASSUME JobInv, CompleteSummary
    PROVE  JobInv'
<1>1. TypeOK'
  BY DEF CompleteSummary, JobInv, TypeOK, Progress, StepStatuses, WritesFit
<1>2. PointFits' /\ StatusFits' /\ WritesFit'
  BY DEF CompleteSummary, JobInv, PointFits, WritesFit, StatusFits
<1>3. StepsFit' /\ RecordsFit'
  BY DEF CompleteSummary, JobInv, StepsFit, DoneBefore, StatusFits, TypeOK, Progress, Steps,
        Nothing, Blank, RecordsFit, Snapshots, Whole
<1>4. RowFits' /\ EndKept'
  BY DEF CompleteSummary, JobInv, RowFits, EndKept
<1>5. DumpFits'
  BY DEF CompleteSummary, JobInv, DumpFits
<1> QED
  BY <1>1, <1>2, <1>3, <1>4, <1>5 DEF JobInv

LEMMA TerminalStatusInv ==
    ASSUME JobInv, TerminalStatus
    PROVE  JobInv'
<1>1. TypeOK'
  BY DEF TerminalStatus, JobInv, TypeOK, Progress, Terminal, Statuses
<1>2. PointFits' /\ StatusFits' /\ WritesFit'
  BY DEF TerminalStatus, JobInv, PointFits, WritesFit, StatusFits
<1>3. StepsFit' /\ RecordsFit'
  BY DEF TerminalStatus, JobInv, StepsFit, DoneBefore, StatusFits, ShowsWhere, Steps, Nothing,
        Blank, RecordsFit, Snapshots, Whole, Terminal, Over
<1>4. RowFits' /\ EndKept'
  BY DEF TerminalStatus, JobInv, RowFits, EndKept
<1>5. DumpFits'
  BY DEF TerminalStatus, JobInv, DumpFits
<1> QED
  BY <1>1, <1>2, <1>3, <1>4, <1>5 DEF JobInv

LEMMA TerminalLogInv ==
    ASSUME JobInv, TerminalLog
    PROVE  JobInv'
<1>1. mem.status \in Terminal
  BY DEF TerminalLog, EndWith, JobInv, StatusFits, Terminal
<1>2. todo' \in Seq(Writes) /\ Len(todo') <= 3
  BY <1>1, EndLeft DEF TerminalLog, EndWith
<1>3. TypeOK'
  BY <1>2 DEF TerminalLog, EndWith, JobInv, TypeOK, Progress, Stages
<1>4. PointFits' /\ StatusFits' /\ WritesFit'
  BY EndLeft DEF TerminalLog, EndWith, JobInv, PointFits, WritesFit, Working, StatusFits,
        Nothing, Blank, Terminal
<1>5. StepsFit' /\ RecordsFit'
  BY DEF TerminalLog, EndWith, JobInv, StepsFit, DoneBefore, ShowsWhere, Steps, Nothing, Blank,
        RecordsFit, Snapshots, Whole, Over
<1>6. RowFits' /\ EndKept'
  BY EndLeft DEF TerminalLog, EndWith, JobInv, RowFits, StatusFits, Terminal, EndKept
<1>7. DumpFits'
  BY DEF TerminalLog, EndWith, JobInv, DumpFits
<1> QED
  BY <1>3, <1>4, <1>5, <1>6, <1>7 DEF JobInv

LEMMA WriteRedisInv ==
    ASSUME JobInv, WriteRedis
    PROVE  JobInv'
<1>1. TypeOK'
  BY DEF WriteRedis, JobInv, TypeOK
<1>2. PointFits' /\ StatusFits' /\ WritesFit'
  BY Writing DEF WriteRedis, JobInv, PointFits, WritesFit, StatusFits, Terminal
<1>3. StepsFit' /\ RecordsFit'
  BY DEF WriteRedis, JobInv, StepsFit, DoneBefore, RecordsFit, Snapshots, Whole
<1>4. RowFits'
  <2>1. UNCHANGED <<row, stage, lost>> /\ todo' = Tail(todo) /\ Head(todo).to = "redis"
    BY DEF WriteRedis
  <2>2. stage = "ended" => Len(todo) = 3 /\ Len(todo') = 2
    BY <2>1, Writing DEF WriteRedis, Write
  <2> QED
    BY <2>1, <2>2 DEF JobInv, RowFits
<1>5. EndKept'
  <2>1. UNCHANGED <<mem, row, stage, lost>> /\ todo' = Tail(todo) /\ redis' = mem
    BY DEF WriteRedis
  <2>2. stage = "ended" => Len(todo) = 3 /\ Len(todo') = 2
    BY <2>1, Writing DEF WriteRedis, Write
  <2>3. stage = "ended" => Len(todo') # 1 /\ todo' # <<>>
    BY <2>2
  <2> QED
    BY <2>1, <2>3 DEF EndKept
<1>6. DumpFits'
  BY DEF WriteRedis, JobInv, DumpFits
<1> QED
  BY <1>1, <1>2, <1>3, <1>4, <1>5, <1>6 DEF JobInv

LEMMA UpdateProgressInv ==
    ASSUME JobInv, UpdateProgress
    PROVE  JobInv'
<1>1. Head(todo).as \in {"pending", "running"} \cup Terminal
  BY Writing DEF UpdateProgress, Writes
<1>2. row' \in Rows
  BY <1>1 DEF UpdateProgress, JobInv, TypeOK, Rows
<1>3. TypeOK'
  BY <1>2, Writing DEF UpdateProgress, JobInv, TypeOK
<1>4. PointFits' /\ StatusFits' /\ WritesFit'
  BY Writing DEF UpdateProgress, JobInv, PointFits, WritesFit, StatusFits, Write, LeftOfPersist
<1>5. StepsFit' /\ RecordsFit'
  BY DEF UpdateProgress, JobInv, StepsFit, DoneBefore, RecordsFit, Snapshots, Whole
<1>6. RowFits' /\ EndKept'
  BY Writing DEF UpdateProgress, JobInv, RowFits, StatusFits, Blank, Terminal, Write, EndKept
<1>7. DumpFits'
  BY DEF UpdateProgress, JobInv, DumpFits
<1> QED
  BY <1>3, <1>4, <1>5, <1>6, <1>7 DEF JobInv

LEMMA MarkTerminalInv ==
    ASSUME JobInv, MarkTerminal
    PROVE  JobInv'
<1>1. Head(todo).as \in {"pending", "running"} \cup Terminal
  BY Writing DEF MarkTerminal, Writes
<1>2. row' \in Rows
  BY <1>1 DEF MarkTerminal, JobInv, TypeOK, Rows
<1>3. TypeOK'
  BY <1>2, Writing DEF MarkTerminal, JobInv, TypeOK
<1>4. PointFits' /\ StatusFits' /\ WritesFit'
  BY DEF MarkTerminal, JobInv, PointFits, WritesFit, StatusFits, TypeOK, Write, LeftOfPersist,
        LeftOfEnd
<1>5. StepsFit' /\ RecordsFit'
  BY DEF MarkTerminal, JobInv, StepsFit, DoneBefore, RecordsFit, Snapshots, Whole
<1>6. RowFits' /\ EndKept'
  BY Writing DEF MarkTerminal, JobInv, RowFits, StatusFits, Terminal, Write, EndKept
<1>7. DumpFits'
  BY DEF MarkTerminal, JobInv, DumpFits
<1> QED
  BY <1>3, <1>4, <1>5, <1>6, <1>7 DEF JobInv

LEMMA WriteFailsInv ==
    ASSUME JobInv, WriteFails
    PROVE  JobInv'
<1>1. Head(todo).to \in {"redis", "row", "mark"}
  BY Writing DEF WriteFails, Writes
<1>2. TypeOK'
  BY <1>1, Writing DEF WriteFails, JobInv, TypeOK
<1>3. PointFits' /\ StatusFits' /\ WritesFit'
  BY Writing DEF WriteFails, JobInv, PointFits, WritesFit, StatusFits, Terminal
<1>4. StepsFit' /\ RecordsFit'
  BY DEF WriteFails, JobInv, StepsFit, DoneBefore, RecordsFit, Snapshots, Whole
<1>5. RowFits'
  <2>1. UNCHANGED <<row, stage>> /\ todo' = Tail(todo) /\ lost \subseteq lost'
    BY DEF WriteFails
  <2>2. ASSUME stage = "ended"
        PROVE  /\ Len(todo) \in 1..3 /\ Len(todo') = Len(todo) - 1
               /\ Len(todo) = 2 => "row" \in lost'
               /\ Len(todo) = 1 => "mark" \in lost'
    <3>1. /\ mem.status \in Terminal /\ Len(todo) \in 1..3 /\ Len(Tail(todo)) = Len(todo) - 1
          /\ Head(todo) = Write(IF Len(todo) = 3 THEN "redis" ELSE
                                IF Len(todo) = 2 THEN "row" ELSE "mark", mem.status)
      BY <2>2, Writing DEF WriteFails
    <3>2. lost' = lost \cup {Head(todo).to}
      BY <3>1 DEF WriteFails, Write
    <3>3. Head(todo).to = IF Len(todo) = 3 THEN "redis" ELSE IF Len(todo) = 2 THEN "row" ELSE "mark"
      BY <3>1 DEF Write
    <3>4. /\ Len(todo) = 2 => "row" \in lost'
          /\ Len(todo) = 1 => "mark" \in lost'
      BY <3>2, <3>3
    <3> QED
      BY <2>1, <3>1, <3>4
  <2>3. stage = "ended" => /\ Len(todo') < 2 => row.status \in Terminal \/ "row" \in lost'
                           /\ Len(todo') < 1 => row.status \in Terminal \/ "mark" \in lost'
    <3>1. stage = "ended" => /\ Len(todo) < 2 => row.status \in Terminal \/ "row" \in lost
                             /\ Len(todo) < 1 => row.status \in Terminal \/ "mark" \in lost
      BY DEF JobInv, RowFits
    <3>2. ASSUME stage = "ended"
          PROVE  /\ Len(todo') < 2 => Len(todo) = 2 \/ Len(todo) < 2
                 /\ Len(todo') < 1 => Len(todo) = 1
      BY <2>2, <3>2
    <3> QED
      BY <2>1, <2>2, <3>1, <3>2
  <2> QED
    BY <2>1, <2>3 DEF JobInv, RowFits
<1>6. EndKept'
  <2>1. stage = "ended" => mem.status \in Terminal /\ Head(todo).as = mem.status
    BY Writing DEF WriteFails, Write
  <2> QED
    BY <2>1 DEF WriteFails, EndKept
<1>7. DumpFits'
  BY DEF WriteFails, JobInv, DumpFits
<1> QED
  BY <1>2, <1>3, <1>4, <1>5, <1>6, <1>7 DEF JobInv

LEMMA CopyStatusInv ==
    ASSUME JobInv, CopyStatus
    PROVE  JobInv'
<1>1. TypeOK'
  BY DEF CopyStatus, JobInv, TypeOK, Terminal, Statuses, Stages, Nothing, Blank, Working,
        StatusFits
<1>2. PointFits' /\ StatusFits' /\ WritesFit'
  BY DEF CopyStatus, JobInv, PointFits, WritesFit, StatusFits
<1>3. StepsFit' /\ RecordsFit'
  BY DEF CopyStatus, JobInv, StepsFit, DoneBefore, RecordsFit, Snapshots, Whole
<1>4. RowFits' /\ EndKept'
  BY DEF CopyStatus, JobInv, RowFits, EndKept
<1>5. DumpFits'
  BY DEF CopyStatus, JobInv, DumpFits
<1> QED
  BY <1>1, <1>2, <1>3, <1>4, <1>5 DEF JobInv

LEMMA CopyRestInv ==
    ASSUME JobInv, CopyRest
    PROVE  JobInv'
<1>1. [mem EXCEPT !.status = copied] \in Progress
  BY DEF JobInv, TypeOK, Progress
<1>2. TypeOK'
  BY <1>1 DEF CopyRest, Answer, JobInv, TypeOK, Statuses
<1>3. PointFits' /\ StatusFits' /\ WritesFit'
  BY DEF CopyRest, JobInv, PointFits, WritesFit, StatusFits
<1>4. StepsFit' /\ RecordsFit'
  BY DEF CopyRest, Answer, JobInv, StepsFit, DoneBefore, TypeOK, Progress, RecordsFit,
        Snapshots, Whole, Terminal
<1>5. RowFits' /\ EndKept'
  BY DEF CopyRest, JobInv, RowFits, EndKept
<1>6. DumpFits'
  BY DEF CopyRest, JobInv, DumpFits
<1> QED
  BY <1>2, <1>3, <1>4, <1>5, <1>6 DEF JobInv

LEMMA PollStoresInv ==
    ASSUME JobInv, PollStores
    PROVE  JobInv'
<1>1. TypeOK'
  BY DEF PollStores, Answer, Stored, JobInv, TypeOK, Rows, Statuses
<1>2. PointFits' /\ StatusFits' /\ WritesFit'
  BY DEF PollStores, JobInv, PointFits, WritesFit, StatusFits
<1>3. StepsFit' /\ RecordsFit'
  BY DEF PollStores, Answer, Stored, JobInv, StepsFit, DoneBefore, RecordsFit, Snapshots, Whole
<1>4. RowFits' /\ EndKept'
  BY DEF PollStores, JobInv, RowFits, EndKept
<1>5. DumpFits'
  BY DEF PollStores, JobInv, DumpFits
<1> QED
  BY <1>1, <1>2, <1>3, <1>4, <1>5 DEF JobInv

LEMMA PollFailsInv ==
    ASSUME JobInv, PollFails
    PROVE  JobInv'
<1>1. TypeOK'
  BY DEF PollFails, JobInv, TypeOK
<1>2. PointFits' /\ StatusFits' /\ WritesFit'
  BY DEF PollFails, JobInv, PointFits, WritesFit, StatusFits
<1>3. StepsFit' /\ RecordsFit'
  BY DEF PollFails, JobInv, StepsFit, DoneBefore, RecordsFit, Snapshots, Whole
<1>4. RowFits' /\ EndKept'
  BY DEF PollFails, JobInv, RowFits, EndKept
<1>5. DumpFits'
  BY DEF PollFails, JobInv, DumpFits
<1> QED
  BY <1>1, <1>2, <1>3, <1>4, <1>5 DEF JobInv

LEMMA FollowInv ==
    ASSUME JobInv, StreamCut \/ AskAgain
    PROVE  JobInv'
<1>1. TypeOK'
  BY DEF StreamCut, AskAgain, JobInv, TypeOK
<1>2. PointFits' /\ StatusFits' /\ WritesFit'
  BY DEF StreamCut, AskAgain, JobInv, PointFits, WritesFit, StatusFits
<1>3. StepsFit' /\ RecordsFit'
  BY DEF StreamCut, AskAgain, JobInv, StepsFit, DoneBefore, RecordsFit, Snapshots, Whole
<1>4. RowFits' /\ EndKept'
  BY DEF StreamCut, AskAgain, JobInv, RowFits, EndKept
<1>5. DumpFits'
  BY DEF StreamCut, AskAgain, JobInv, DumpFits
<1> QED
  BY <1>1, <1>2, <1>3, <1>4, <1>5 DEF JobInv

LEMMA CrashInv ==
    ASSUME JobInv, Crash
    PROVE  JobInv'
<1>1. Nothing \in Progress /\ <<>> \in Seq(Writes) /\ Len(<<>>) <= 3
  BY BlankType DEF Nothing, Statuses
<1>2. crashes' \in 0..MaxCrashes
  BY CrashesAssumption DEF Crash, JobInv, TypeOK
<1>3. TypeOK'
  BY <1>1, <1>2 DEF Crash, JobInv, TypeOK, Stages, Statuses
<1>4. PointFits' /\ StatusFits' /\ WritesFit'
  BY DEF Crash, PointFits, WritesFit, Working, StatusFits, LeftOfEnd
<1>5. StepsFit' /\ RecordsFit'
  BY DEF Crash, JobInv, StepsFit, DoneBefore, Nothing, Blank, RecordsFit, Snapshots, Whole, Over
<1>6. RowFits' /\ EndKept'
  BY DEF Crash, JobInv, RowFits, EndKept
<1>7. DumpFits'
  BY DEF Crash, JobInv, DumpFits
<1> QED
  BY <1>3, <1>4, <1>5, <1>6, <1>7 DEF JobInv

LEMMA ExpireInv ==
    ASSUME JobInv, Expire
    PROVE  JobInv'
<1>1. TypeOK'
  BY DEF Expire, JobInv, TypeOK, Progress, Statuses, StepStatuses, Nothing, Blank
<1>2. PointFits' /\ StatusFits' /\ WritesFit'
  BY DEF Expire, JobInv, PointFits, WritesFit, StatusFits
<1>3. StepsFit' /\ RecordsFit'
  BY DEF Expire, JobInv, StepsFit, DoneBefore, Nothing, Blank, RecordsFit, Snapshots, Whole,
        Terminal
<1>4. RowFits' /\ EndKept'
  BY DEF Expire, JobInv, RowFits, EndKept
<1>5. DumpFits'
  BY DEF Expire, JobInv, DumpFits
<1> QED
  BY <1>1, <1>2, <1>3, <1>4, <1>5 DEF JobInv

--------------------------------------------------------------------------------
(* The invariant, and what the runs check *)

LEMMA InitInv ==
    ASSUME Init
    PROVE  JobInv
<1>1. /\ Nothing \in Progress /\ Nothing.status = "nothing" /\ ~Nothing.exportID
      /\ Blank("empty") \in Progress /\ Blank("empty").status = "empty"
  BY BlankType DEF Nothing, Statuses
<1>2. TypeOK
  <2>1. <<>> \in Seq(Writes) /\ Len(<<>>) <= 3
    OBVIOUS
  <2>2. crashes \in 0..MaxCrashes
    BY CrashesAssumption DEF Init
  <2> QED
    BY <1>1, <2>1, <2>2 DEF Init, TypeOK, Stages, Statuses, Rows
<1>3. PointFits /\ StatusFits /\ DumpFits
  BY DEF Init, PointFits, StatusFits, DumpFits, Working
<1>4. WritesFit
  BY DEF Init, WritesFit, LeftOfPersist, Working
<1>5. StepsFit
  BY <1>1 DEF Init, StepsFit, DoneBefore
<1>6. RecordsFit
  BY <1>1 DEF Init, RecordsFit, Snapshots, Terminal
<1>7. RowFits /\ EndKept
  BY <1>1 DEF Init, RowFits, EndKept
<1> QED
  BY <1>2, <1>3, <1>4, <1>5, <1>6, <1>7 DEF JobInv

LEMMA StepInv ==
    ASSUME JobInv, [Next]_vars
    PROVE  JobInv'
<1>1. CASE \E asked \in BOOLEAN : Start(asked)
  BY <1>1, StartInv
<1>2. CASE Persisting
  BY <1>2, WriteRedisInv, UpdateProgressInv, MarkTerminalInv, WriteFailsInv DEF Persisting
<1>3. CASE Running
  <2>1. CASE Failing
    BY <2>1, GatherFailsInv, CheckFailsInv, LoginFailsInv DEF Failing
  <2>2. CASE \E s \in Steps : BeginStep(s) \/ LoginDone(s)
    BY <2>2, BeginStepInv, LoginDoneInv
  <2>3. CASE Enqueue \/ runQueued \/ ReportProgress \/ GatherDone \/ DumpReports \/ DumpSaved
    BY <2>3, EnqueueInv, runQueuedInv, ReportProgressInv, GatherDoneInv, DumpReportsInv,
       DumpSavedInv
  <2>4. CASE DumpFails \/ CheckDone \/ ImportDone \/ CompleteSummary \/ TerminalStatus \/ TerminalLog
    BY <2>4, DumpFailsInv, CheckDoneInv, ImportDoneInv, CompleteSummaryInv, TerminalStatusInv,
       TerminalLogInv
  <2> QED
    BY <1>3, <2>1, <2>2, <2>3, <2>4 DEF Running
<1>4. CASE Polling \/ PollFails \/ StreamCut \/ AskAgain
  BY <1>4, CopyStatusInv, CopyRestInv, PollStoresInv, PollFailsInv, FollowInv DEF Polling
<1>5. CASE Crash \/ Expire
  BY <1>5, CrashInv, ExpireInv
<1>6. CASE UNCHANGED vars
  BY <1>6 DEF vars, JobInv, TypeOK, PointFits, StatusFits, WritesFit, DumpFits, StepsFit,
     DoneBefore, RecordsFit, Snapshots, Whole, RowFits, EndKept
<1> QED
  BY <1>1, <1>2, <1>3, <1>4, <1>5, <1>6 DEF Next

(* The invariant the properties below rest on: what a job's record, its row, *)
(* its Redis key and the answers to its client hold is fixed, up to what was *)
(* refused, by where run stands and which writes of persist are outstanding. *)
THEOREM RecordsFollowTheRun == Spec => []JobInv
<1>1. Init => JobInv
  BY InitInv
<1>2. JobInv /\ [Next]_vars => JobInv'
  BY StepInv
<1> QED
  BY <1>1, <1>2, PTL DEF Spec

(* Every variable keeps to its values: at most three writes are outstanding  *)
(* (persist and the mark of the end), and the process dies MaxCrashes times. *)
THEOREM JobTypes == Spec => []TypeOK
<1>1. JobInv => TypeOK
  BY DEF JobInv
<1> QED
  BY <1>1, RecordsFollowTheRun, PTL

(* Whoever reads how a job ended, in memory, in Redis, in the row or in an   *)
(* answer of GetProgress copied while the goroutine was writing, reads the   *)
(* steps and the id of the dump that go with it.                             *)
THEOREM TerminalIsWholeHolds == Spec => []TerminalIsWhole
<1>1. JobInv => TerminalIsWhole
  <2> SUFFICES ASSUME JobInv, NEW p \in Snapshots
               PROVE  /\ p.status = "completed" =>
                            /\ \A s \in Steps \ {"gather_shows"} : p.step[s] = "done"
                            /\ p.exportID <=> dump = "saved"
                      /\ p.status = "failed" =>
                            \/ \E s \in Steps : p.step[s] \in {"error", "wrong_credentials"}
                            \/ p.step["check_existing"] = "running"
    BY DEF TerminalIsWhole
  <2>1. p.status \in Terminal => Whole(p)
    BY DEF JobInv, RecordsFit
  <2> QED
    BY <2>1 DEF Whole, ShowsWhere, Terminal
<1> QED
  BY <1>1, RecordsFollowTheRun, PTL

(* The status column of migrate_jobs says what its progress column says, and *)
(* once the goroutine is gone both say how the job ended, unless the         *)
(* database refused the last persist and the mark.                           *)
THEOREM RowTellsHolds == Spec => []RowTells
<1>1. JobInv => RowTells
  <2> SUFFICES ASSUME JobInv
               PROVE  RowTells
    OBVIOUS
  <2>1. stage = "ended" /\ todo = <<>> => Len(todo) < 2 /\ Len(todo) < 1
    OBVIOUS
  <2>2. stage = "ended" /\ todo = <<>> =>
           row.status \in Terminal \/ {"row", "mark"} \subseteq lost
    BY <2>1 DEF JobInv, RowFits
  <2> QED
    BY <2>2 DEF JobInv, RowFits, RowTells
<1> QED
  BY <1>1, RecordsFollowTheRun, PTL

(* When no write of the final progress was refused, a client is given that   *)
(* very outcome ever after: from memory, from the key in Redis after a       *)
(* restart, and from the row when Redis has forgotten it.                    *)
THEOREM OutcomeSurvivesRestartHolds == Spec => []OutcomeSurvivesRestart
<1>1. JobInv => OutcomeSurvivesRestart
  <2> SUFFICES ASSUME JobInv, stage = "ended", todo = <<>>, lost = {}
               PROVE  /\ Current = row.progress
                      /\ Current.status \in Terminal /\ Current.finalLog
    BY DEF OutcomeSurvivesRestart
  <2>1. /\ row.progress.status \in Terminal /\ row.progress.finalLog
        /\ mem \in {Nothing, row.progress} /\ redis \in {Nothing, row.progress}
    BY DEF JobInv, EndKept
  <2>2. Nothing.status = "nothing" /\ "nothing" \notin Terminal
    BY DEF Nothing, Blank, Terminal
  <2> QED
    BY <2>1, <2>2 DEF Stored, Current
<1> QED
  BY <1>1, RecordsFollowTheRun, PTL

(* A row of migrate_jobs only moves forward and never leaves the status of   *)
(* its end, whatever is written late, lost, or cut off by a crash.           *)
THEOREM RowMovesForwardHolds == Spec => RowMovesForward
<1> DEFINE Forward == row' # row => \/ Rank[row'.status] > Rank[row.status]
                                   \/ row'.status = row.status
<1>1. ASSUME JobInv, [Next]_vars
      PROVE  [Forward]_vars
  <2>1. CASE \E asked \in BOOLEAN : Start(asked)
    <3>1. row.status = "none" /\ row'.status = "pending"
      BY <1>1, <2>1 DEF Start, JobInv, StatusFits, TypeOK, Rows
    <3> QED
      BY <3>1 DEF Rank, Terminal
  <2>2. CASE UpdateProgress
    <3>1. row'.status = Head(todo).as /\ todo # <<>> /\ Head(todo).to = "row"
      BY <1>1, <2>2 DEF UpdateProgress, JobInv, TypeOK, Rows
    <3>2. \/ Head(todo).as = "pending" /\ row.status = "pending"
          \/ Head(todo).as = "running" /\ row.status \in {"pending", "running"}
          \/ /\ Head(todo).as = mem.status /\ mem.status \in Terminal
             /\ row.status \in {"pending", "running", mem.status}
      BY <1>1, <3>1, Writing DEF JobInv, StatusFits, Write
    <3> QED
      BY <3>1, <3>2 DEF Rank, Terminal
  <2>3. CASE MarkTerminal
    <3>1. row'.status = Head(todo).as /\ todo # <<>> /\ Head(todo).to = "mark"
      BY <2>3 DEF MarkTerminal
    <3>2. /\ Head(todo).as = mem.status /\ mem.status \in Terminal
          /\ row.status \in {"pending", "running", mem.status}
      BY <1>1, <3>1, Writing DEF JobInv, StatusFits, Write
    <3> QED
      BY <3>1, <3>2 DEF Rank, Terminal
  <2>4. CASE \/ WriteRedis \/ WriteFails \/ Running \/ Polling \/ PollFails
             \/ StreamCut \/ AskAgain \/ Crash \/ Expire
    <3>1. row' = row
      BY <2>4 DEF WriteRedis, WriteFails, Running, Enqueue, runQueued, ReportProgress, Failing,
         GatherFails, CheckFails, LoginFails, BeginStep, LoginDone, GoOn, GatherDone, DumpReports,
         DumpSaved, DumpFails, CheckDone, ImportDone, CompleteSummary, TerminalStatus,
         TerminalLog, EndWith, Polling, CopyStatus, CopyRest, PollStores, PollFails,
         StreamCut, AskAgain, Crash, Expire
    <3> QED
      BY <3>1
  <2>5. CASE UNCHANGED vars
    BY <2>5
  <2> QED
    BY <1>1, <2>1, <2>2, <2>3, <2>4, <2>5 DEF Next, Persisting
<1> QED
  BY <1>1, RecordsFollowTheRun, PTL DEF Spec, RowMovesForward

================================================================================
